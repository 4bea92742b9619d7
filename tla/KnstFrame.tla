----------------------------- MODULE KnstFrame -----------------------------
(***************************************************************************)
(* KNST frames (conformance/check_knst_frame.py): how a sender splits a    *)
(* body into frames, how a frame reads, and what a receiver may make of    *)
(* frames that come late, twice, out of order and mixed with those of      *)
(* other messages.  Magic and version are one flag, and a byte is named by *)
(* its message and its place.  Putting chunks together is the client's     *)
(* (external): it collects the chunks of a message id by index.            *)
(***************************************************************************)
EXTENDS Naturals, Sequences, FiniteSets

CONSTANTS
    Messages,           \* message ids
    CHUNK_PAYLOAD,      \* bytes a frame carries at most
    MAX_CHUNKS,         \* frames a body is split into at most
    MaxBody             \* bound: bytes of a body

ASSUME FrameAssumption ==
    /\ CHUNK_PAYLOAD \in Nat \ {0} /\ MAX_CHUNKS \in Nat \ {0} /\ MaxBody \in Nat

VARIABLES
    body,       \* body[m]: the bytes of message m, or NotSent
    refused,    \* messages the sender refused to split
    net,        \* frames under way; one that is read may come again
    held,       \* chunks the receiver has collected
    shown       \* shown[m]: the body the receiver took m to be, or NotSent

vars == <<body, refused, net, held, shown>>

NotSent == << <<"not sent", 0>> >>

Body(m, n) == [k \in 1 .. n |-> <<m, k>>]

-----------------------------------------------------------------------------
(* A frame is damaged when its header is short or has another magic or      *)
(* version.                                                                 *)
frame(m, index, total, length, payload) ==
    [valid |-> TRUE, message_id |-> m, chunk_index |-> index, total_chunks |-> total,
     plaintext_length |-> length, payload |-> payload]

AtMost(a, b) == IF a < b THEN a ELSE b
AtLeast(a, b) == IF a > b THEN a ELSE b

(* Mutant: the division that counts the frames rounds down. *)
TotalDown(n) == AtLeast(1, n \div CHUNK_PAYLOAD)

(* How many frames n bytes take: at least one. *)
Total(n) == AtLeast(1, (n + CHUNK_PAYLOAD - 1) \div CHUNK_PAYLOAD)

PartOf(b, i) == SubSeq(b, i * CHUNK_PAYLOAD + 1, AtMost((i + 1) * CHUNK_PAYLOAD, Len(b)))

(* Mutant: the parts are framed with frame's defaults for total and length. *)
chunksDefaults(m, b) ==
    {frame(m, 0, 1, Len(PartOf(b, i)), PartOf(b, i)) : i \in 0 .. Total(Len(b)) - 1}

(* The frames of a body: every one says how many there are and how long the *)
(* whole body is.                                                           *)
chunks(m, b) ==
    {frame(m, i, Total(Len(b)), Len(b), PartOf(b, i)) : i \in 0 .. Total(Len(b)) - 1}

IsControl(f) == f.valid /\ f.total_chunks = 1 /\ f.plaintext_length <= Len(f.payload)

ControlBody(f) == SubSeq(f.payload, 1, f.plaintext_length)

-----------------------------------------------------------------------------
TypeOK ==
    /\ body \in [Messages -> {NotSent} \cup {Body(m, n) : m \in Messages, n \in 0 .. MaxBody}]
    /\ refused \subseteq Messages
    /\ \A f \in net \cup held : /\ f.message_id \in Messages
                                /\ f.chunk_index \in 0 .. f.total_chunks - 1
                                /\ f.total_chunks \in 1 .. MAX_CHUNKS
                                /\ Len(f.payload) <= CHUNK_PAYLOAD + 1

Init ==
    /\ body = [m \in Messages |-> NotSent] /\ refused = {}
    /\ net = {} /\ held = {}
    /\ shown = [m \in Messages |-> NotSent]

TooMany(n) == Total(n) > MAX_CHUNKS

(* A body is split into frames, or refused: it is never cut.                *)
Send(m, n) ==
    /\ body[m] = NotSent
    /\ body' = [body EXCEPT ![m] = Body(m, n)]
    /\ IF TooMany(n)
       THEN refused' = refused \cup {m} /\ UNCHANGED net
       ELSE net' = net \cup chunks(m, Body(m, n)) /\ UNCHANGED refused
    /\ UNCHANGED <<held, shown>>

(* A control frame may be padded before it is encrypted. *)
Pad(f) ==
    /\ f.total_chunks = 1 /\ Len(f.payload) = f.plaintext_length
    /\ net' = (net \ {f}) \cup {[f EXCEPT !.payload = Append(@, <<"pad", 0>>)]}
    /\ UNCHANGED <<body, refused, held, shown>>

(* A frame arrives with a header that is no longer one, or does not arrive. *)
Damage(f) ==
    /\ \E damaged \in SUBSET {[f EXCEPT !.valid = FALSE]} : net' = (net \ {f}) \cup damaged
    /\ UNCHANGED <<body, refused, held, shown>>

(* The receiver's collection of a message, once a chunk is added.           *)
Parts(m, collected) == {f \in collected : f.message_id = m}
Joined(parts) ==
    LET part(i) == (CHOOSE f \in parts : f.chunk_index = i).payload
        upTo[i \in Nat] == IF i = 0 THEN <<>> ELSE upTo[i - 1] \o part(i - 1)
    IN  upTo[Cardinality(parts)]

(* A frame is read: what is not a frame is dropped, a control frame is a    *)
(* whole message, a chunk is kept until its message is complete.            *)
Read(f) ==
    LET collected == held \cup {f}
        parts == Parts(f.message_id, collected)
        whole == /\ Cardinality(parts) = f.total_chunks
                 /\ Len(Joined(parts)) = f.plaintext_length
    IN  /\ UNCHANGED <<body, refused, net>>
        /\ IF ~f.valid THEN UNCHANGED <<held, shown>>
           ELSE IF IsControl(f)
           THEN shown' = [shown EXCEPT ![f.message_id] = ControlBody(f)] /\ UNCHANGED held
           ELSE /\ held' = collected
                /\ shown' = IF whole THEN [shown EXCEPT ![f.message_id] = Joined(parts)]
                            ELSE shown

Next ==
    \/ \E m \in Messages, n \in 0 .. MaxBody : Send(m, n)
    \/ \E f \in net : Pad(f) \/ Damage(f) \/ Read(f)

Spec == Init /\ [][Next]_vars

-----------------------------------------------------------------------------
(* Frames lost, repeated, reordered, padded, damaged and mixed with those   *)
(* of other messages: what a receiver shows of a message is the whole body  *)
(* its sender sent, or nothing.  Neither padding nor a part of a split body *)
(* that reads as a control frame is taken for it.                           *)
WholeOrNothing == \A m \in Messages : shown[m] \in {NotSent, body[m]}

(* A body over the limit is refused whole: nothing of it is ever sent, and  *)
(* one that fits is not refused.                                            *)
RefusedNotCut ==
    \A m \in Messages : body[m] # NotSent =>
        IF m \in refused THEN Parts(m, net) = {} /\ Len(body[m]) > MAX_CHUNKS * CHUNK_PAYLOAD
                         ELSE Len(body[m]) <= MAX_CHUNKS * CHUNK_PAYLOAD

=============================================================================
