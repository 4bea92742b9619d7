---------------------------- MODULE ReadMarkers ----------------------------
(***************************************************************************)
(* Read-state sync between the devices of one account                      *)
(* (CONTENT_TYPE_READ_SYNC, core/envelope.proto; rules pinned by           *)
(* conformance/check_read_markers.py).                                     *)
(*                                                                         *)
(* Each device keeps a boundary per chat.  Reading moves it; the chats     *)
(* whose boundary moved since the last send go out as one payload to every *)
(* other device of the account.  Mailboxes deliver in any order, more than *)
(* once, and (when Lossy) sometimes not at all.  A contact may also send a *)
(* payload of this type, saying anything.                                  *)
(***************************************************************************)
EXTENDS ReadOrder, FiniteSets

CONSTANTS
    Devices,    \* the account's own devices
    Partners,   \* the contacts it has a chat with
    Messages,   \* the incoming messages that may arrive in a chat
    Lossy,      \* may a mailbox lose a payload?
    MaxForged   \* bound: forged payloads under way to one device at a time

ASSUME MessagesAssumption == Messages \subseteq Stamp
ASSUME BoundsAssumption == Lossy \in BOOLEAN /\ MaxForged \in Nat

VARIABLES
    inbox,      \* inbox[d][p]: the incoming messages device d holds in chat p
    boundary,   \* boundary[d][p]: how far d counts chat p as read
    moved,      \* moved[d]: chats whose boundary moved since d last sent
    mail,       \* mail[d]: payloads under way to d
    opened,     \* history: opened[p], the messages the person read on any device
    lost        \* history: lost[d], payloads to d that the mailbox lost

vars == <<inbox, boundary, moved, mail, opened, lost>>

(* A payload has one marker per chat it is about (repeated ReadMarker), and *)
(* its envelope says whether it comes from a device of the own account.     *)
MarkerSets == UNION { [P -> Messages] : P \in SUBSET Partners }
Payload == [own : BOOLEAN, markers : MarkerSets]

TypeOK ==
    /\ inbox \in [Devices -> [Partners -> SUBSET Messages]]
    /\ boundary \in [Devices -> [Partners -> Messages \cup {NoBoundary}]]
    /\ moved \in [Devices -> SUBSET Partners]
    /\ mail \in [Devices -> SUBSET Payload]
    /\ opened \in [Partners -> SUBSET Messages]
    /\ lost \in [Devices -> SUBSET Payload]

Init ==
    /\ inbox = [d \in Devices |-> [p \in Partners |-> {}]]
    /\ boundary = [d \in Devices |-> [p \in Partners |-> NoBoundary]]
    /\ moved = [d \in Devices |-> {}]
    /\ mail = [d \in Devices |-> {}]
    /\ opened = [p \in Partners |-> {}]
    /\ lost = [d \in Devices |-> {}]

-----------------------------------------------------------------------------
(* An incoming message of chat p reaches device d, at any time and in any   *)
(* order.  The boundary decides whether it counts as read; nothing moves.   *)
Arrive(d, p, m) ==
    /\ m \notin inbox[d][p]
    /\ inbox' = [inbox EXCEPT ![d][p] = @ \cup {m}]
    /\ UNCHANGED <<boundary, moved, mail, opened, lost>>

(* The person reads chat p on device d up to a message the device holds. *)
Read(d, p, m) ==
    /\ m \in inbox[d][p]
    /\ Moves(boundary[d][p], m)
    /\ boundary' = [boundary EXCEPT ![d][p] = m]
    /\ moved' = [moved EXCEPT ![d] = @ \cup {p}]
    /\ opened' = [opened EXCEPT ![p] = @ \cup {m}]
    /\ UNCHANGED <<inbox, mail, lost>>

(* Mutant: every chat gets a marker, the ones never read too. *)
SendAllChats(d) ==
    /\ mail' = [e \in Devices |->
           IF e = d THEN mail[e] ELSE mail[e] \cup {[own |-> TRUE, markers |-> boundary[d]]}]
    /\ moved' = [moved EXCEPT ![d] = {}]
    /\ UNCHANGED <<inbox, boundary, opened, lost>>

(* Mutant: only one of the other devices is sent to. *)
SendToOne(d) ==
    /\ moved[d] # {}
    /\ LET payload == [own |-> TRUE, markers |-> [p \in moved[d] |-> boundary[d][p]]]
       IN  mail' = [mail EXCEPT ![CHOOSE e \in Devices : e # d] = @ \cup {payload}]
    /\ moved' = [moved EXCEPT ![d] = {}]
    /\ UNCHANGED <<inbox, boundary, opened, lost>>

(* d sends one marker for every chat whose boundary moved since it last     *)
(* sent, to every other device of the account.                              *)
Send(d) ==
    /\ moved[d] # {}
    /\ LET payload == [own |-> TRUE, markers |-> [p \in moved[d] |-> boundary[d][p]]]
       IN  mail' = [e \in Devices |-> IF e = d THEN mail[e] ELSE mail[e] \cup {payload}]
    /\ moved' = [moved EXCEPT ![d] = {}]
    /\ UNCHANGED <<inbox, boundary, opened, lost>>

(* A contact sends device d a payload of its own making. *)
Forge(d, payload) ==
    /\ ~payload.own
    /\ Cardinality({q \in mail[d] : ~q.own}) < MaxForged
    /\ mail' = [mail EXCEPT ![d] = @ \cup {payload}]
    /\ UNCHANGED <<inbox, boundary, moved, opened, lost>>

(* Mutant: a marker of the own account is applied without comparing. *)
AppliedUncompared(d, payload) ==
    IF payload.own THEN DOMAIN payload.markers ELSE {}

(* The chats a payload moves forward at device d. *)
Applied(d, payload) ==
    { p \in DOMAIN payload.markers :
        ApplyResult(boundary[d][p], payload.markers[p], payload.own) = "apply" }

(* Mutant: hearing from another device clears what d still has to send. *)
ReceiveAsSynced(d, payload, again, relay) ==
    LET applied == Applied(d, payload) IN
    /\ payload \in mail[d]
    /\ boundary' = [boundary EXCEPT ![d] =
           [p \in Partners |-> IF p \in applied THEN payload.markers[p] ELSE @[p]]]
    /\ moved' = [moved EXCEPT ![d] = {}]
    /\ mail' = [mail EXCEPT ![d] = IF again THEN @ ELSE @ \ {payload}]
    /\ UNCHANGED <<inbox, opened, lost>>

(* d receives a payload: every marker in it is applied, ignored or dropped. *)
(* The mailbox may hand the same payload over again later.  The schema      *)
(* leaves open whether a boundary moved by a marker counts as moved for d's *)
(* own next send, so both are allowed.                                      *)
Receive(d, payload, again, relay) ==
    LET applied == Applied(d, payload) IN
    /\ payload \in mail[d]
    /\ boundary' = [boundary EXCEPT ![d] =
           [p \in Partners |-> IF p \in applied THEN payload.markers[p] ELSE @[p]]]
    /\ moved' = [moved EXCEPT ![d] = IF relay THEN @ \cup applied ELSE @]
    /\ mail' = [mail EXCEPT ![d] = IF again THEN @ ELSE @ \ {payload}]
    /\ UNCHANGED <<inbox, opened, lost>>

(* The mailbox loses a payload from an own device.  (Losing a forged one is *)
(* the same as delivering it once: it is dropped.)                          *)
Lose(d, payload) ==
    /\ Lossy
    /\ payload \in mail[d] /\ payload.own
    /\ mail' = [mail EXCEPT ![d] = @ \ {payload}]
    /\ lost' = [lost EXCEPT ![d] = @ \cup {payload}]
    /\ UNCHANGED <<inbox, boundary, moved, opened>>

Next ==
    \E d \in Devices :
       \/ \E p \in Partners, m \in Messages : Arrive(d, p, m) \/ Read(d, p, m)
       \/ Send(d)
       \/ \E payload \in Payload : Forge(d, payload)
       \/ \E payload \in mail[d], again, relay \in BOOLEAN :
             Receive(d, payload, again, relay)
       \/ \E payload \in mail[d] : Lose(d, payload)

Spec == Init /\ [][Next]_vars

(* A device that has something to send sends it, and a mailbox that holds a *)
(* payload hands it over: the account's devices come online again.          *)
Fairness ==
    \A d \in Devices :
       /\ WF_vars(Send(d))
       /\ \A payload \in Payload :
             WF_vars(\E relay \in BOOLEAN : Receive(d, payload, FALSE, relay))

FairSpec == Spec /\ Fairness

-----------------------------------------------------------------------------
(* Every boundary a device holds is a message the person really read in     *)
(* that chat on some device: no marker from a contact, however it was       *)
(* interleaved with real ones, ever clears an unread count.                 *)
BoundaryWasRead ==
    \A d \in Devices, p \in Partners :
        boundary[d][p] \in opened[p] \cup {NoBoundary}

(* A message under way to d, or lost on its way, that would bring d's       *)
(* boundary in chat p to m or further.                                      *)
Brings(d, p, m, payloads) ==
    \E q \in payloads :
        q.own /\ p \in DOMAIN q.markers /\ Covers(q.markers[p], m)

(* Nothing the person read is forgotten on the way to another device: d's   *)
(* boundary covers it, or some device still has it to send, or a marker     *)
(* that covers it is in d's mailbox - or that very marker was lost.         *)
NothingForgotten ==
    \A d \in Devices, p \in Partners : \A m \in opened[p] :
       \/ Covers(boundary[d][p], m)
       \/ \E e \in Devices : p \in moved[e] /\ Covers(boundary[e][p], m)
       \/ Brings(d, p, m, mail[d] \cup lost[d])

(* A message that counts as read on a device never counts as unread there   *)
(* again, whatever arrives late, twice or out of order.                     *)
ReadStaysRead ==
    [][\A d \in Devices, p \in Partners, m \in Messages :
         Covers(boundary[d][p], m) => Covers(boundary'[d][p], m)]_vars

(* What is read on one device becomes read on every device.                 *)
ReadReachesAll ==
    \A p \in Partners, m \in Messages :
       (m \in opened[p]) ~> (\A d \in Devices : Covers(boundary[d][p], m))

(* The furthest boundary any device holds in chat p. *)
Furthest(p) ==
    LET held == {boundary[d][p] : d \in Devices} \ {NoBoundary}
    IN  IF held = {} THEN NoBoundary
        ELSE CHOOSE b \in held : \A c \in held : Covers(b, c)

(* The account's devices together implement one reading position per chat.  *)
Account == INSTANCE AccountRead WITH
               position <- [p \in Partners |-> Furthest(p)]
ReadsLikeOneDevice == Account!Spec

=============================================================================
