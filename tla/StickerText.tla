---------------------------- MODULE StickerText ----------------------------
(***************************************************************************)
(* Bytes inside the text that protoc prints and reads, as the two sticker  *)
(* checks handle them: unescape of conformance/check_sticker_ref.py takes  *)
(* apart what protoc --decode printed, esc of check_sticker_pack.py writes *)
(* what protoc --encode reads.  A character is its code; protoc's printer  *)
(* is external (C escapes: a name for some, three octal digits for what    *)
(* cannot be printed).                                                     *)
(***************************************************************************)
EXTENDS Naturals, Sequences

BACKSLASH == 92
LETTER_X == 120
OctalDigits == 48 .. 55

(* n, r, t, the backslash and the quotes, by the letter that stands for them.  *)
Named == [c \in {110, 114, 116, 92, 34, 39} |->
            CASE c = 110 -> 10 [] c = 114 -> 13 [] c = 116 -> 9 [] OTHER -> c]

(* protoc's printer. *)
Escaped(b) ==
    IF \E c \in DOMAIN Named : Named[c] = b
    THEN <<BACKSLASH, CHOOSE c \in DOMAIN Named : Named[c] = b>>
    ELSE IF b \in 32 .. 126 THEN <<b>>
    ELSE <<BACKSLASH, 48 + (b \div 64), 48 + ((b \div 8) % 8), 48 + (b % 8)>>

HexDigit(n) == IF n < 10 THEN 48 + n ELSE 87 + n
esc(b) == <<BACKSLASH, LETTER_X, HexDigit(b \div 16), HexDigit(b % 16)>>
HexValue(c) == IF c < 58 THEN c - 48 ELSE c - 87

(* Mutant: an octal escape goes on as long as there are digits. *)
OctalEndGreedy(body, i) ==
    LET from[j \in Nat] == IF j <= Len(body) /\ body[j] \in OctalDigits THEN from[j + 1] ELSE j
    IN  from[i + 1]

(* Where the octal digits of the escape at i end: after three at most. *)
OctalEnd(body, i) ==
    LET from[j \in Nat] ==
            IF j <= Len(body) /\ j < i + 4 /\ body[j] \in OctalDigits THEN from[j + 1] ELSE j
    IN  from[i + 1]

Octal(digits) ==
    LET upTo[k \in 0 .. Len(digits)] == IF k = 0 THEN 0 ELSE upTo[k - 1] * 8 + digits[k] - 48
    IN  upTo[Len(digits)]

unescape(body) ==
    LET from[i \in Nat] ==
            IF i > Len(body) THEN <<>>
            ELSE IF body[i] # BACKSLASH THEN <<body[i]>> \o from[i + 1]
            ELSE IF body[i + 1] \in OctalDigits
            THEN <<Octal(SubSeq(body, i + 1, OctalEnd(body, i) - 1))>> \o from[OctalEnd(body, i)]
            ELSE IF body[i + 1] = LETTER_X
            THEN <<HexValue(body[i + 2]) * 16 + HexValue(body[i + 3])>> \o from[i + 4]
            ELSE <<Named[body[i + 1]]>> \o from[i + 2]
    IN  from[1]

(* The text of all bytes, each written by Write. *)
TextOf(Write(_), bytes) ==
    LET upTo[k \in 0 .. Len(bytes)] == IF k = 0 THEN <<>> ELSE upTo[k - 1] \o Write(bytes[k])
    IN  upTo[Len(bytes)]

=============================================================================
