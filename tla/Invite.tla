------------------------------- MODULE Invite -------------------------------
(***************************************************************************)
(* An invite (conformance/check_invite.py): the canonical string that is   *)
(* signed and the compact binary that the QR code and the link carry.  Who *)
(* scans the code has only the binary: it reads the fields, makes the      *)
(* canonical string of them again and checks the signature over that.  The *)
(* reader is the clients' and the server's (external); it is modelled from *)
(* the layout and from the binaries that the vectors say are refused.      *)
(*                                                                         *)
(* Widths are small: an id, a device id, an address and a signature are    *)
(* one byte here, a timestamp two.  Text in hexadecimal is its value and   *)
(* the case it is written in, one cell of a string; the other texts and    *)
(* the numbers are characters.                                             *)
(***************************************************************************)
EXTENDS Naturals, Sequences

V5 == 5
CIV1 == 67              \* the four letters of the magic
FLAG_HAS_USERNAME == 1
STAMP == 4              \* values of a byte of a timestamp

Hex(value, case) == [value |-> value, case |-> case]
Lower(hex) == Hex(hex.value, "lower")

BAR == 124
DIGIT == 48             \* the character of 0; the others follow it

(* A number in decimal. *)
str(n) ==
    LET upTo[m \in Nat] ==
            IF m < 10 THEN <<DIGIT + m>> ELSE upTo[m \div 10] \o <<DIGIT + (m % 10)>>
    IN  upTo[n]

HasNoBar(text) == \A i \in DOMAIN text : text[i] # BAR

(* Mutant: the username is not signed. *)
canonicalUnnamed(f) ==
    str(f.v) \o <<BAR, Lower(f.jti), BAR, Lower(f.uuid), BAR, f.device_id, BAR>> \o f.server
    \o <<BAR>> \o str(f.ts) \o <<BAR>> \o str(f.ttl) \o <<BAR, f.addr>>

(* The fields with a bar between them.  A bar in server or un stays as it   *)
(* is.                                                                      *)
canonical(f) ==
    str(f.v) \o <<BAR, Lower(f.jti), BAR, Lower(f.uuid), BAR, f.device_id, BAR>> \o f.server
    \o <<BAR>> \o str(f.ts) \o <<BAR>> \o f.un \o <<BAR>> \o str(f.ttl) \o <<BAR, f.addr>>

(* Ed25519 over it, in its byte: who signs the same string signs the same. *)
SignatureOf(f) == <<"signature", canonical(f)>>

UsernamePart(un) == IF un = <<>> THEN <<>> ELSE <<Len(un)>> \o un

binary(f, sig) ==
    <<CIV1, IF f.un = <<>> THEN 0 ELSE FLAG_HAS_USERNAME, f.v, f.jti.value, f.uuid.value,
      f.device_id.value, f.ts \div STAMP, f.ts % STAMP, sig, Len(f.server)>> \o f.server
    \o UsernamePart(f.un) \o <<f.ttl, f.addr.value>>

derive(f) == [canonical |-> canonical(f), signature |-> SignatureOf(f),
              binary |-> binary(f, SignatureOf(f))]

-----------------------------------------------------------------------------
(* The reader.  Every id comes out in lower case.                           *)
Refused == [ok |-> FALSE]

(* Nothing is missing, and nothing follows addr. *)
IsExact(b, n) == Len(b) = n

ReadInvite(b) ==
    LET s == IF Len(b) >= 10 THEN b[10] ELSE 0
        named == Len(b) >= 2 /\ b[2] = FLAG_HAS_USERNAME
        u == IF named /\ Len(b) > 10 + s THEN b[11 + s] ELSE 0
        server == SubSeq(b, 11, 10 + s)
        un == SubSeq(b, 12 + s, 11 + s + u)
        at == IF named THEN 12 + s + u ELSE 11 + s
    IN  IF Len(b) < 10 \/ ~IsExact(b, at + 1) THEN Refused
        ELSE IF b[1] # CIV1 \/ b[3] # V5 THEN Refused
        ELSE [ok |-> TRUE, signature |-> b[9],
              fields |-> [v |-> b[3], jti |-> Hex(b[4], "lower"), uuid |-> Hex(b[5], "lower"),
                          device_id |-> Hex(b[6], "lower"), server |-> server,
                          ts |-> b[7] * STAMP + b[8], un |-> IF named THEN un ELSE <<>>,
                          ttl |-> b[at], addr |-> Hex(b[at + 1], "lower")]]

(* What an invite says, as the reader gives it. *)
AsRead(f) ==
    [v |-> f.v, jti |-> Lower(f.jti), uuid |-> Lower(f.uuid), device_id |-> f.device_id,
     server |-> f.server, ts |-> f.ts, un |-> f.un, ttl |-> f.ttl, addr |-> f.addr]

(* The signature in the binary is the one over what was read. *)
Verifies(b) == ReadInvite(b).ok /\ ReadInvite(b).signature = SignatureOf(ReadInvite(b).fields)

(* The binaries the vectors refuse, made of a good one. *)
RefusedOf(good) == {
    [good EXCEPT ![3] = 4], SubSeq(good, 1, Len(good) - 1), Append(good, 0) }

=============================================================================
