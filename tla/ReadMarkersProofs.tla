-------------------------- MODULE ReadMarkersProofs --------------------------
(***************************************************************************)
(* Proofs about read-state sync for any number of devices, chats and       *)
(* messages, with or without loss.                                         *)
(***************************************************************************)
EXTENDS ReadMarkers, TLAPS

(* A chat is marked as moved only once its boundary is held.                *)
MovedIsHeld ==
    \A d \in Devices : \A p \in moved[d] : boundary[d][p] # NoBoundary

(* A marker of the own account names a message the person really read.      *)
MarkersWereRead ==
    \A d \in Devices : \A q \in mail[d] :
        q.own => \A p \in DOMAIN q.markers : q.markers[p] \in opened[p]

(* Type correctness is not inductive alone: the payload of a Send is        *)
(* well formed only because a moved chat has a boundary.                    *)
TypeInv == TypeOK /\ MovedIsHeld

(* The inductive invariant of the safety proof.                             *)
SafetyInv == MarkersWereRead /\ BoundaryWasRead /\ NothingForgotten

-----------------------------------------------------------------------------
(* The ordering of check_read_markers.py: what covers a message that covers *)
(* another covers that one too.                                             *)
LEMMA CoversTransitive ==
    ASSUME NEW a \in Stamp \cup {NoBoundary}, NEW b \in Stamp, NEW c \in Stamp,
           Covers(a, b), Covers(b, c)
    PROVE  Covers(a, c)
BY NoBoundaryAssumption DEF Covers, Later, Stamp

(* Every boundary covers itself: Later is irreflexive. *)
LEMMA CoversReflexive ==
    ASSUME NEW a \in Stamp
    PROVE  Covers(a, a)
BY NoBoundaryAssumption DEF Covers, Later, Stamp

(* A boundary that moves covers all it covered before: Later is total. *)
LEMMA MovesForward ==
    ASSUME NEW held \in Stamp \cup {NoBoundary}, NEW m \in Stamp, Moves(held, m),
           NEW c \in Stamp, Covers(held, c)
    PROVE  Covers(m, c)
BY NoBoundaryAssumption DEF Covers, Moves, Later, Stamp

(* A marker that does not move the boundary is covered by it. *)
LEMMA NotMovedIsCovered ==
    ASSUME NEW held \in Stamp \cup {NoBoundary}, NEW m \in Stamp, ~Moves(held, m)
    PROVE  Covers(held, m)
BY NoBoundaryAssumption DEF Covers, Moves

(* What Receive does to the boundary of one chat: it takes the marker, or   *)
(* it stays, and then it already covered the marker unless it was forged.   *)
LEMMA ReceiveBoundary ==
    ASSUME TypeOK, NEW d \in Devices, NEW q \in mail[d],
           NEW again \in BOOLEAN, NEW relay \in BOOLEAN, Receive(d, q, again, relay),
           NEW e \in Devices, NEW p \in Partners
    PROVE  /\ e # d => boundary'[e][p] = boundary[e][p]
           /\ e = d /\ p \in Applied(d, q) =>
                /\ q.own /\ p \in DOMAIN q.markers
                /\ Moves(boundary[d][p], q.markers[p])
                /\ boundary'[d][p] = q.markers[p]
           /\ e = d /\ p \notin Applied(d, q) => boundary'[d][p] = boundary[d][p]
           /\ e = d /\ q.own /\ p \in DOMAIN q.markers /\ p \notin Applied(d, q) =>
                ~Moves(boundary[d][p], q.markers[p])
<1>1. boundary' = [boundary EXCEPT ![d] =
           [r \in Partners |-> IF r \in Applied(d, q) THEN q.markers[r] ELSE boundary[d][r]]]
  BY DEF Receive
<1>2. e # d => boundary'[e][p] = boundary[e][p]
  BY <1>1 DEF TypeOK
<1>3. boundary'[d][p] = IF p \in Applied(d, q) THEN q.markers[p] ELSE boundary[d][p]
  BY <1>1 DEF TypeOK
<1>4. p \in Applied(d, q) =>
        q.own /\ p \in DOMAIN q.markers /\ Moves(boundary[d][p], q.markers[p])
  BY DEF Applied, ApplyResult
<1>5. q.own /\ p \in DOMAIN q.markers /\ p \notin Applied(d, q) =>
        ~Moves(boundary[d][p], q.markers[p])
  BY DEF Applied, ApplyResult
<1> QED BY <1>2, <1>3, <1>4, <1>5

(* A payload's markers are functions from some chats to messages. *)
LEMMA MarkerTypes ==
    ASSUME NEW q \in Payload
    PROVE  /\ DOMAIN q.markers \subseteq Partners
           /\ \A p \in DOMAIN q.markers : q.markers[p] \in Messages
BY DEF Payload, MarkerSets

-----------------------------------------------------------------------------
(* Every state a device can reach is well typed, and what it sends is a     *)
(* well-formed ReadMarkers payload: one marker per moved chat, each naming  *)
(* a message.                                                               *)
THEOREM TypeInvariant == Spec => []TypeInv
<1>1. Init => TypeInv
  BY DEF Init, TypeInv, TypeOK, MovedIsHeld
<1>2. TypeInv /\ [Next]_vars => TypeInv'
  <2> SUFFICES ASSUME TypeInv, [Next]_vars PROVE TypeInv'
    OBVIOUS
  <2> USE NoBoundaryAssumption, MessagesAssumption
  <2>1. ASSUME NEW d \in Devices, NEW p \in Partners, NEW m \in Messages, Arrive(d, p, m)
        PROVE  TypeInv'
    BY <2>1 DEF TypeInv, TypeOK, MovedIsHeld, Arrive
  <2>2. ASSUME NEW d \in Devices, NEW p \in Partners, NEW m \in Messages, Read(d, p, m)
        PROVE  TypeInv'
    <3>1. TypeOK'
      BY <2>2 DEF TypeInv, TypeOK, Read
    <3>2. m # NoBoundary
      OBVIOUS
    <3>3. MovedIsHeld'
      BY <2>2, <3>2 DEF TypeInv, TypeOK, MovedIsHeld, Read
    <3> QED BY <3>1, <3>3 DEF TypeInv
  <2>3. ASSUME NEW d \in Devices, Send(d)
        PROVE  TypeInv'
    <3> DEFINE pl == [own |-> TRUE, markers |-> [p \in moved[d] |-> boundary[d][p]]]
    <3>1. moved[d] \in SUBSET Partners /\ \A p \in moved[d] : boundary[d][p] \in Messages
      BY DEF TypeInv, TypeOK, MovedIsHeld
    <3>2. pl.markers \in [moved[d] -> Messages]
      BY <3>1
    <3>3. pl \in Payload
      BY <3>1, <3>2 DEF Payload, MarkerSets
    <3> HIDE DEF pl
    <3>4. mail' = [e \in Devices |-> IF e = d THEN mail[e] ELSE mail[e] \cup {pl}]
      BY <2>3 DEF Send, pl
    <3>5. mail' \in [Devices -> SUBSET Payload]
      BY <3>3, <3>4 DEF TypeInv, TypeOK
    <3> QED BY <2>3, <3>5 DEF TypeInv, TypeOK, MovedIsHeld, Send
  <2>4. ASSUME NEW d \in Devices, NEW q \in Payload, Forge(d, q)
        PROVE  TypeInv'
    BY <2>4 DEF TypeInv, TypeOK, MovedIsHeld, Forge
  <2>5. ASSUME NEW d \in Devices, NEW q \in mail[d], NEW again \in BOOLEAN,
               NEW relay \in BOOLEAN, Receive(d, q, again, relay)
        PROVE  TypeInv'
    <3>1. q \in Payload /\ TypeOK
      BY DEF TypeInv, TypeOK
    <3>2. Applied(d, q) \subseteq Partners
          /\ \A p \in Applied(d, q) : q.markers[p] \in Messages
      BY <3>1, MarkerTypes DEF Applied
    <3>3. [r \in Partners |-> IF r \in Applied(d, q) THEN q.markers[r] ELSE boundary[d][r]]
             \in [Partners -> Messages \cup {NoBoundary}]
      BY <3>1, <3>2 DEF TypeOK
    <3>4. boundary' \in [Devices -> [Partners -> Messages \cup {NoBoundary}]]
      BY <2>5, <3>1, <3>3 DEF TypeOK, Receive
    <3>5. moved' \in [Devices -> SUBSET Partners]
      BY <2>5, <3>1, <3>2 DEF TypeOK, Receive
    <3>6. mail' \in [Devices -> SUBSET Payload]
      BY <2>5, <3>1 DEF TypeOK, Receive
    <3>7. TypeOK'
      BY <2>5, <3>1, <3>4, <3>5, <3>6 DEF TypeOK, Receive
    <3>8. ASSUME NEW e \in Devices, NEW p \in moved'[e]
          PROVE  boundary'[e][p] # NoBoundary
      <4>1. p \in Partners
        BY <3>5
      <4>2. p \in moved[e] \/ (e = d /\ p \in Applied(d, q))
        BY <2>5, <3>1, <3>8 DEF Receive, TypeOK
      <4>3. p \in moved[e] => boundary[e][p] # NoBoundary
        BY DEF TypeInv, MovedIsHeld
      <4> QED BY <2>5, <3>1, <3>2, <4>1, <4>2, <4>3, ReceiveBoundary
    <3>9. MovedIsHeld'
      BY <3>8 DEF MovedIsHeld
    <3> QED BY <3>7, <3>9 DEF TypeInv
  <2>6. ASSUME NEW d \in Devices, NEW q \in mail[d], Lose(d, q)
        PROVE  TypeInv'
    BY <2>6 DEF TypeInv, TypeOK, MovedIsHeld, Lose
  <2>7. CASE UNCHANGED vars
    BY <2>7 DEF vars, TypeInv, TypeOK, MovedIsHeld
  <2> QED BY <2>1, <2>2, <2>3, <2>4, <2>5, <2>6, <2>7 DEF Next
<1> QED BY <1>1, <1>2, PTL DEF Spec

(* Type correctness, as the run checks it.                                  *)
THEOREM TypeCorrect == Spec => []TypeOK
<1>1. TypeInv => TypeOK
  BY DEF TypeInv
<1> QED BY <1>1, TypeInvariant, PTL

-----------------------------------------------------------------------------
(* One step never takes back what a boundary covers: reading and applying   *)
(* a marker both move it forward, every other action leaves it alone.       *)
LEMMA StepKeepsRead ==
    ASSUME TypeOK, [Next]_vars,
           NEW d \in Devices, NEW p \in Partners, NEW m \in Messages,
           Covers(boundary[d][p], m)
    PROVE  Covers(boundary'[d][p], m)
<1> USE MessagesAssumption
<1>0. /\ boundary[d][p] \in Stamp \cup {NoBoundary}
      /\ m \in Stamp
  BY DEF TypeOK
<1>1. ASSUME NEW e \in Devices, NEW r \in Partners, NEW n \in Messages, Read(e, r, n)
      PROVE  Covers(boundary'[d][p], m)
  <2>1. CASE d = e /\ p = r
    <3>1. boundary'[d][p] = n /\ Moves(boundary[d][p], n) /\ n \in Stamp
      BY <1>1, <2>1 DEF Read, TypeOK
    <3> QED BY <1>0, <3>1, MovesForward
  <2>2. CASE ~(d = e /\ p = r)
    BY <1>1, <2>2 DEF Read, TypeOK
  <2> QED BY <2>1, <2>2
<1>2. ASSUME NEW e \in Devices, NEW q \in mail[e], NEW again \in BOOLEAN,
             NEW relay \in BOOLEAN, Receive(e, q, again, relay)
      PROVE  Covers(boundary'[d][p], m)
  <2>0. q \in Payload
    BY DEF TypeOK
  <2>1. CASE d = e /\ p \in Applied(e, q)
    <3>1. boundary'[d][p] = q.markers[p] /\ Moves(boundary[d][p], q.markers[p])
          /\ q.markers[p] \in Stamp
      BY <1>2, <2>0, <2>1, ReceiveBoundary, MarkerTypes
    <3> QED BY <1>0, <3>1, MovesForward
  <2>2. CASE ~(d = e /\ p \in Applied(e, q))
    BY <1>2, <2>2, ReceiveBoundary
  <2> QED BY <2>1, <2>2
<1>3. CASE UNCHANGED boundary
  BY <1>3
<1>4. \/ UNCHANGED boundary
      \/ \E e \in Devices, r \in Partners, n \in Messages : Read(e, r, n)
      \/ \E e \in Devices : \E q \in mail[e], again, relay \in BOOLEAN :
            Receive(e, q, again, relay)
  BY DEF Next, vars, Arrive, Send, Forge, Lose
<1> QED BY <1>1, <1>2, <1>3, <1>4

(* For every account: a message once read on a device never turns unread    *)
(* there (check() of check_read_markers.py applies only what is later).     *)
THEOREM ReadIsNeverUndone == Spec => ReadStaysRead
<1>1. TypeOK /\ [Next]_vars =>
        [\A d \in Devices, p \in Partners, m \in Messages :
           Covers(boundary[d][p], m) => Covers(boundary'[d][p], m)]_vars
  BY StepKeepsRead
<1> QED BY <1>1, TypeCorrect, PTL DEF Spec, ReadStaysRead

-----------------------------------------------------------------------------
(* The mailbox, the boundaries and what the person read stay in step: the   *)
(* inductive step of the safety theorem, one action at a time.              *)
LEMMA SafetyStep == TypeInv /\ SafetyInv /\ [Next]_vars => SafetyInv'
<1> SUFFICES ASSUME TypeInv, SafetyInv, [Next]_vars PROVE SafetyInv'
  OBVIOUS
<1> USE MessagesAssumption, NoBoundaryAssumption
<1>0. TypeOK
  BY DEF TypeInv
<1>a. ASSUME NEW d \in Devices, NEW p \in Partners, NEW m \in Messages,
             Covers(boundary[d][p], m)
      PROVE  Covers(boundary'[d][p], m)
  BY <1>0, <1>a, StepKeepsRead
<1>b. ASSUME opened' = opened, \A e \in Devices : moved[e] \subseteq moved'[e],
             \A e \in Devices : mail[e] \cup lost[e] \subseteq mail'[e] \cup lost'[e]
      PROVE  NothingForgotten'
  <2> SUFFICES ASSUME NEW d \in Devices, NEW p \in Partners, NEW m \in opened[p]
               PROVE  \/ Covers(boundary'[d][p], m)
                      \/ \E e \in Devices : p \in moved'[e] /\ Covers(boundary'[e][p], m)
                      \/ Brings(d, p, m, mail'[d] \cup lost'[d])
    BY <1>b DEF NothingForgotten, Brings
  <2>1. m \in Messages
    BY <1>0 DEF TypeOK
  <2>2. \/ Covers(boundary[d][p], m)
        \/ \E e \in Devices : p \in moved[e] /\ Covers(boundary[e][p], m)
        \/ Brings(d, p, m, mail[d] \cup lost[d])
    BY DEF SafetyInv, NothingForgotten
  <2>3. Brings(d, p, m, mail[d] \cup lost[d]) => Brings(d, p, m, mail'[d] \cup lost'[d])
    BY <1>b DEF Brings
  <2> QED BY <1>a, <1>b, <2>1, <2>2, <2>3
<1>1. ASSUME NEW d \in Devices, NEW p \in Partners, NEW m \in Messages, Arrive(d, p, m)
      PROVE  SafetyInv'
  <2>1. MarkersWereRead' /\ BoundaryWasRead'
    BY <1>1 DEF SafetyInv, MarkersWereRead, BoundaryWasRead, Arrive
  <2>2. NothingForgotten'
    BY <1>1, <1>b DEF Arrive
  <2> QED BY <2>1, <2>2 DEF SafetyInv
<1>2. ASSUME NEW d \in Devices, NEW p \in Partners, NEW m \in Messages, Read(d, p, m)
      PROVE  SafetyInv'
  <2>1. \A r \in Partners : opened'[r] = IF r = p THEN opened[r] \cup {m} ELSE opened[r]
    BY <1>0, <1>2 DEF TypeOK, Read
  <2>2. boundary'[d][p] = m /\ p \in moved'[d]
        /\ \A e \in Devices : moved[e] \subseteq moved'[e]
    BY <1>0, <1>2 DEF TypeOK, Read
  <2>3. MarkersWereRead'
    <3> SUFFICES ASSUME NEW e \in Devices, NEW q \in mail[e], q.own,
                        NEW r \in DOMAIN q.markers
                 PROVE  q.markers[r] \in opened'[r]
      BY <1>2 DEF MarkersWereRead, Read
    <3>1. r \in Partners /\ q.markers[r] \in opened[r]
      BY <1>0, MarkerTypes DEF TypeOK, SafetyInv, MarkersWereRead
    <3> QED BY <2>1, <3>1
  <2>4. BoundaryWasRead'
    BY <1>0, <1>2, <2>1 DEF TypeOK, SafetyInv, BoundaryWasRead, Read
  <2>5. ASSUME NEW e \in Devices, NEW r \in Partners, NEW n \in opened'[r]
        PROVE  \/ Covers(boundary'[e][r], n)
               \/ \E f \in Devices : r \in moved'[f] /\ Covers(boundary'[f][r], n)
               \/ Brings(e, r, n, mail'[e] \cup lost'[e])
    <3>1. CASE r = p /\ n = m
      <4>1. Covers(m, m)
        BY CoversReflexive
      <4> QED BY <2>2, <3>1, <4>1
    <3>2. CASE n \in opened[r]
      <4>1. n \in Messages
        BY <1>0, <3>2 DEF TypeOK
      <4>2. \/ Covers(boundary[e][r], n)
            \/ \E f \in Devices : r \in moved[f] /\ Covers(boundary[f][r], n)
            \/ Brings(e, r, n, mail[e] \cup lost[e])
        BY <3>2 DEF SafetyInv, NothingForgotten
      <4>3. mail' = mail /\ lost' = lost
        BY <1>2 DEF Read
      <4> QED BY <1>a, <2>2, <4>1, <4>2, <4>3
    <3> QED BY <2>1, <3>1, <3>2
  <2>6. NothingForgotten'
    BY <2>5 DEF NothingForgotten, Brings
  <2> QED BY <2>3, <2>4, <2>6 DEF SafetyInv
<1>3. ASSUME NEW d \in Devices, Send(d)
      PROVE  SafetyInv'
  <2> DEFINE pl == [own |-> TRUE, markers |-> [p \in moved[d] |-> boundary[d][p]]]
  <2>1. /\ pl.own
        /\ DOMAIN pl.markers = moved[d]
        /\ \A p \in moved[d] : pl.markers[p] = boundary[d][p]
    OBVIOUS
  <2> HIDE DEF pl
  <2>2. /\ \A e \in Devices : mail'[e] = IF e = d THEN mail[e] ELSE mail[e] \cup {pl}
        /\ moved' = [moved EXCEPT ![d] = {}]
        /\ boundary' = boundary /\ opened' = opened /\ lost' = lost
    BY <1>3 DEF Send, pl
  <2>3. \A p \in moved[d] : p \in Partners /\ boundary[d][p] \in opened[p]
    BY DEF TypeInv, TypeOK, MovedIsHeld, SafetyInv, BoundaryWasRead
  <2>4. MarkersWereRead'
    <3> SUFFICES ASSUME NEW e \in Devices, NEW r \in mail'[e], r.own,
                        NEW p \in DOMAIN r.markers
                 PROVE  r.markers[p] \in opened[p]
      BY <2>2 DEF MarkersWereRead
    <3>1. CASE r \in mail[e]
      BY <3>1 DEF SafetyInv, MarkersWereRead
    <3>2. CASE r = pl
      BY <2>1, <2>3, <3>2
    <3>3. r \in mail[e] \/ r = pl
      BY <2>2
    <3> QED BY <3>1, <3>2, <3>3
  <2>5. BoundaryWasRead'
    BY <2>2 DEF SafetyInv, BoundaryWasRead
  <2>6. ASSUME NEW e \in Devices, NEW p \in Partners, NEW m \in opened[p]
        PROVE  \/ Covers(boundary[e][p], m)
               \/ \E f \in Devices : p \in moved'[f] /\ Covers(boundary[f][p], m)
               \/ Brings(e, p, m, mail'[e] \cup lost[e])
    <3>1. \/ Covers(boundary[e][p], m)
          \/ \E f \in Devices : p \in moved[f] /\ Covers(boundary[f][p], m)
          \/ Brings(e, p, m, mail[e] \cup lost[e])
      BY DEF SafetyInv, NothingForgotten
    <3>2. CASE \E f \in Devices : p \in moved[f] /\ Covers(boundary[f][p], m)
      <4> PICK f \in Devices : p \in moved[f] /\ Covers(boundary[f][p], m)
        BY <3>2
      <4>1. CASE f # d
        BY <1>0, <2>2, <4>1 DEF TypeOK
      <4>2. CASE f = d /\ e # d
        BY <2>1, <2>2, <4>2 DEF Brings
      <4> QED BY <4>1, <4>2
    <3>3. Brings(e, p, m, mail[e] \cup lost[e]) => Brings(e, p, m, mail'[e] \cup lost[e])
      BY <2>2 DEF Brings
    <3> QED BY <3>1, <3>2, <3>3
  <2>7. NothingForgotten'
    BY <2>2, <2>6 DEF NothingForgotten, Brings
  <2> QED BY <2>4, <2>5, <2>7 DEF SafetyInv
<1>4. ASSUME NEW d \in Devices, NEW q \in Payload, Forge(d, q)
      PROVE  SafetyInv'
  <2>1. /\ ~q.own /\ boundary' = boundary /\ opened' = opened /\ moved' = moved /\ lost' = lost
        /\ \A e \in Devices : mail'[e] = IF e = d THEN mail[e] \cup {q} ELSE mail[e]
    BY <1>0, <1>4 DEF Forge, TypeOK
  <2>2. MarkersWereRead'
    <3> SUFFICES ASSUME NEW e \in Devices, NEW r \in mail'[e], r.own,
                        NEW p \in DOMAIN r.markers
                 PROVE  r.markers[p] \in opened[p]
      BY <2>1 DEF MarkersWereRead
    <3>1. r \in mail[e]
      BY <2>1
    <3> QED BY <3>1 DEF SafetyInv, MarkersWereRead
  <2>4. BoundaryWasRead'
    BY <2>1 DEF SafetyInv, BoundaryWasRead
  <2>3. NothingForgotten'
    BY <1>b, <2>1
  <2> QED BY <2>2, <2>3, <2>4 DEF SafetyInv
<1>5. ASSUME NEW d \in Devices, NEW q \in mail[d], NEW again \in BOOLEAN,
             NEW relay \in BOOLEAN, Receive(d, q, again, relay)
      PROVE  SafetyInv'
  <2>0. q \in Payload
    BY <1>0 DEF TypeOK
  <2>1. /\ opened' = opened /\ lost' = lost
        /\ \A e \in Devices : moved[e] \subseteq moved'[e]
        /\ \A e \in Devices : mail'[e] \subseteq mail[e]
        /\ \A e \in Devices : mail[e] \subseteq mail'[e] \cup {q}
        /\ \A e \in Devices : e # d => mail'[e] = mail[e]
    BY <1>0, <1>5 DEF Receive, TypeOK
  <2>2. MarkersWereRead'
    BY <2>1 DEF SafetyInv, MarkersWereRead
  <2>3. ASSUME NEW e \in Devices, NEW p \in Partners
        PROVE  boundary'[e][p] \in opened[p] \cup {NoBoundary}
    <3>1. boundary[e][p] \in opened[p] \cup {NoBoundary}
      BY DEF SafetyInv, BoundaryWasRead
    <3>2. q.own /\ p \in DOMAIN q.markers => q.markers[p] \in opened[p]
      BY DEF SafetyInv, MarkersWereRead
    <3> QED BY <1>0, <1>5, <3>1, <3>2, ReceiveBoundary
  <2>4. BoundaryWasRead'
    BY <2>1, <2>3 DEF BoundaryWasRead
  <2>5. ASSUME NEW p \in Partners, q.own, p \in DOMAIN q.markers
        PROVE  boundary'[d][p] \in Stamp \cup {NoBoundary}
               /\ q.markers[p] \in Stamp /\ Covers(boundary'[d][p], q.markers[p])
    <3>1. q.markers[p] \in Stamp /\ boundary[d][p] \in Stamp \cup {NoBoundary}
      BY <1>0, <2>0, <2>5, MarkerTypes DEF TypeOK
    <3>2. CASE p \in Applied(d, q)
      <4>1. boundary'[d][p] = q.markers[p]
        BY <1>0, <1>5, <3>2, ReceiveBoundary
      <4> QED BY <3>1, <4>1, CoversReflexive
    <3>3. CASE p \notin Applied(d, q)
      <4>1. boundary'[d][p] = boundary[d][p] /\ ~Moves(boundary[d][p], q.markers[p])
        BY <1>0, <1>5, <2>5, <3>3, ReceiveBoundary
      <4> QED BY <3>1, <4>1, NotMovedIsCovered
    <3> QED BY <3>2, <3>3
  <2>6. ASSUME NEW e \in Devices, NEW p \in Partners, NEW m \in opened[p]
        PROVE  \/ Covers(boundary'[e][p], m)
               \/ \E f \in Devices : p \in moved'[f] /\ Covers(boundary'[f][p], m)
               \/ Brings(e, p, m, mail'[e] \cup lost[e])
    <3>0. m \in Messages
      BY <1>0 DEF TypeOK
    <3>1. \/ Covers(boundary[e][p], m)
          \/ \E f \in Devices : p \in moved[f] /\ Covers(boundary[f][p], m)
          \/ Brings(e, p, m, mail[e] \cup lost[e])
      BY DEF SafetyInv, NothingForgotten
    <3>2. CASE Brings(e, p, m, mail[e] \cup lost[e])
      <4> PICK r \in mail[e] \cup lost[e] :
                 r.own /\ p \in DOMAIN r.markers /\ Covers(r.markers[p], m)
        BY <3>2 DEF Brings
      <4>1. CASE e = d /\ r = q
        BY <2>5, <3>0, <4>1, CoversTransitive
      <4>2. CASE ~(e = d /\ r = q)
        <5>1. r \in mail'[e] \cup lost[e]
          BY <2>1, <4>2
        <5> QED BY <5>1 DEF Brings
      <4> QED BY <4>1, <4>2
    <3> QED BY <1>a, <2>1, <3>0, <3>1, <3>2
  <2>7. NothingForgotten'
    BY <2>1, <2>6 DEF NothingForgotten, Brings
  <2> QED BY <2>2, <2>4, <2>7 DEF SafetyInv
<1>6. ASSUME NEW d \in Devices, NEW q \in mail[d], Lose(d, q)
      PROVE  SafetyInv'
  <2>1. /\ boundary' = boundary /\ opened' = opened /\ moved' = moved
        /\ \A e \in Devices : mail'[e] \subseteq mail[e]
        /\ \A e \in Devices : mail[e] \cup lost[e] \subseteq mail'[e] \cup lost'[e]
    BY <1>0, <1>6 DEF Lose, TypeOK
  <2>2. MarkersWereRead' /\ BoundaryWasRead'
    BY <2>1 DEF SafetyInv, MarkersWereRead, BoundaryWasRead
  <2>3. NothingForgotten'
    BY <1>b, <2>1
  <2> QED BY <2>2, <2>3 DEF SafetyInv
<1>7. CASE UNCHANGED vars
  BY <1>7 DEF vars, SafetyInv, MarkersWereRead, BoundaryWasRead, NothingForgotten, Brings
<1> QED BY <1>1, <1>2, <1>3, <1>4, <1>5, <1>6, <1>7 DEF Next

(* The safety invariant holds in every reachable state. *)
THEOREM SafetyInvariant == Spec => []SafetyInv
<1>1. Init => SafetyInv
  BY DEF Init, SafetyInv, MarkersWereRead, BoundaryWasRead, NothingForgotten
<1> QED BY <1>1, SafetyStep, TypeInvariant, PTL DEF Spec

(* For every account: a device counts a message as read only because the    *)
(* person read up to it; markers that are not from the own account never    *)
(* move a boundary.                                                         *)
THEOREM NoForgedRead == Spec => []BoundaryWasRead
<1>1. SafetyInv => BoundaryWasRead
  BY DEF SafetyInv
<1> QED BY <1>1, SafetyInvariant, PTL

(* For every account: what was read on one device is covered, still to be   *)
(* sent, under way or lost in the mailbox for each of the others; ignoring  *)
(* a marker never forgets a read.                                           *)
THEOREM NoReadIsForgotten == Spec => []NothingForgotten
<1>1. SafetyInv => NothingForgotten
  BY DEF SafetyInv
<1> QED BY <1>1, SafetyInvariant, PTL

-----------------------------------------------------------------------------
(* Some device has read as far as the person has read anywhere.             *)
FurthestHeld ==
    \A p \in Partners : opened[p] # {} =>
        \E d \in Devices :
            boundary[d][p] # NoBoundary /\ \A m \in opened[p] : Covers(boundary[d][p], m)

(* b is the reading position of a chat in which the messages in s were read. *)
IsPosition(b, s) ==
    /\ s = {} => b = NoBoundary
    /\ s # {} => b \in s /\ \A m \in s : Covers(b, m)

(* Later is antisymmetric: two stamps that cover each other are equal. *)
LEMMA CoversAntisymmetric ==
    ASSUME NEW a \in Stamp, NEW b \in Stamp, Covers(a, b), Covers(b, a)
    PROVE  a = b
<1>1. a.at = b.at /\ a.id = b.id
  BY NoBoundaryAssumption DEF Covers, Later, Stamp
<1> QED BY <1>1 DEF Stamp

(* The reading position is determined by what was read. *)
LEMMA PositionUnique ==
    ASSUME NEW s \in SUBSET Stamp, NEW a, NEW b, IsPosition(a, s), IsPosition(b, s)
    PROVE  a = b
BY CoversAntisymmetric DEF IsPosition

(* Reading one message more moves the position exactly as Moves says. *)
LEMMA PositionMoves ==
    ASSUME NEW s \in SUBSET Stamp, NEW a, IsPosition(a, s), NEW m \in Stamp
    PROVE  /\ Moves(a, m) => IsPosition(m, s \cup {m})
           /\ ~Moves(a, m) => IsPosition(a, s \cup {m})
<1>1. Covers(m, m)
  BY CoversReflexive
<1>2. CASE s = {}
  BY <1>1, <1>2 DEF IsPosition, Moves
<1>3. CASE s # {}
  <2>1. a \in s /\ a \in Stamp /\ \A n \in s : Covers(a, n)
    BY <1>3 DEF IsPosition
  <2>2. CASE Moves(a, m)
    <3>1. \A n \in s : Covers(m, n)
      BY <2>1, <2>2, MovesForward
    <3> QED BY <1>1, <2>2, <3>1 DEF IsPosition
  <2>3. CASE ~Moves(a, m)
    <3>1. Covers(a, m)
      BY <2>1, <2>3, NotMovedIsCovered
    <3> QED BY <1>3, <2>1, <2>3, <3>1 DEF IsPosition
  <2> QED BY <2>2, <2>3
<1> QED BY <1>2, <1>3

(* The furthest boundary of the account is the reading position.            *)
LEMMA FurthestIsPosition ==
    ASSUME TypeOK, BoundaryWasRead, FurthestHeld, NEW p \in Partners
    PROVE  IsPosition(Furthest(p), opened[p])
<1> USE MessagesAssumption, NoBoundaryAssumption
<1> DEFINE held == {boundary[d][p] : d \in Devices} \ {NoBoundary}
<1>1. held \subseteq opened[p] /\ opened[p] \subseteq Stamp
  BY DEF TypeOK, BoundaryWasRead
<1>2. CASE opened[p] = {}
  <2>1. held = {}
    BY <1>1, <1>2
  <2> QED BY <1>2, <2>1 DEF Furthest, IsPosition
<1>3. CASE opened[p] # {}
  <2> PICK d \in Devices :
         boundary[d][p] # NoBoundary /\ \A m \in opened[p] : Covers(boundary[d][p], m)
    BY <1>3 DEF FurthestHeld
  <2>1. boundary[d][p] \in held
    OBVIOUS
  <2>2. \A c \in held : Covers(boundary[d][p], c)
    BY <1>1
  <2> HIDE DEF held
  <2> DEFINE f == CHOOSE b \in held : \A c \in held : Covers(b, c)
  <2>3. f \in held /\ \A c \in held : Covers(f, c)
    BY <2>1, <2>2
  <2>4. f = boundary[d][p]
    <3> HIDE DEF f
    <3> QED BY <1>1, <2>1, <2>2, <2>3, CoversAntisymmetric
  <2>5. Furthest(p) = f
    BY <2>1 DEF Furthest, held
  <2> HIDE DEF f
  <2> QED BY <1>1, <1>3, <2>1, <2>4, <2>5 DEF IsPosition
<1> QED BY <1>2, <1>3

(* Whoever reads furthest keeps that position or hands it to the reader.    *)
LEMMA FurthestHeldStep ==
    TypeInv /\ SafetyInv /\ FurthestHeld /\ [Next]_vars => FurthestHeld'
<1> SUFFICES ASSUME TypeInv, SafetyInv, FurthestHeld, [Next]_vars,
                    NEW p \in Partners, opened'[p] # {}
             PROVE  \E d \in Devices : boundary'[d][p] # NoBoundary
                       /\ \A m \in opened'[p] : Covers(boundary'[d][p], m)
  BY DEF FurthestHeld
<1> USE MessagesAssumption, NoBoundaryAssumption
<1>0. TypeOK /\ opened[p] \subseteq Messages
  BY DEF TypeInv, TypeOK
<1>1. CASE opened'[p] = opened[p]
  <2> PICK d \in Devices :
         boundary[d][p] # NoBoundary /\ \A m \in opened[p] : Covers(boundary[d][p], m)
    BY <1>1 DEF FurthestHeld
  <2>1. \A m \in opened[p] : Covers(boundary'[d][p], m)
    BY <1>0, StepKeepsRead
  <2>2. boundary'[d][p] # NoBoundary
    BY <1>1, <2>1 DEF Covers
  <2> QED BY <1>1, <2>1, <2>2
<1>2. ASSUME NEW d \in Devices, NEW m \in Messages, Read(d, p, m)
      PROVE  \E e \in Devices : boundary'[e][p] # NoBoundary
                /\ \A n \in opened'[p] : Covers(boundary'[e][p], n)
  <2>1. opened'[p] = opened[p] \cup {m} /\ boundary'[d][p] = m
    BY <1>0, <1>2 DEF TypeOK, Read
  <2>2. Covers(m, m)
    BY CoversReflexive
  <2>3. CASE opened[p] = {}
    BY <2>1, <2>2, <2>3
  <2>4. CASE opened[p] # {}
    <3> PICK h \in Devices :
           boundary[h][p] # NoBoundary /\ \A n \in opened[p] : Covers(boundary[h][p], n)
      BY <2>4 DEF FurthestHeld
    <3>1. boundary[h][p] \in Stamp
      BY <1>0 DEF TypeOK
    <3>2. CASE Moves(boundary[h][p], m)
      <4>1. \A n \in opened[p] : Covers(m, n)
        BY <1>0, <3>1, <3>2, MovesForward
      <4> QED BY <2>1, <2>2, <4>1
    <3>3. CASE ~Moves(boundary[h][p], m)
      <4>1. Covers(boundary[h][p], m)
        BY <3>1, <3>3, NotMovedIsCovered
      <4>2. \A n \in opened'[p] : Covers(boundary'[h][p], n)
        BY <1>0, <2>1, <4>1, StepKeepsRead
      <4>3. boundary'[h][p] # NoBoundary
        BY <2>1, <4>2 DEF Covers
      <4> QED BY <4>2, <4>3
    <3> QED BY <3>2, <3>3
  <2> QED BY <2>3, <2>4
<1>3. \/ opened'[p] = opened[p]
      \/ \E d \in Devices, m \in Messages : Read(d, p, m)
  BY <1>0 DEF Next, vars, Arrive, Read, Send, Forge, Receive, Lose, TypeOK
<1> QED BY <1>1, <1>2, <1>3

(* For every account: its devices, however far they lag behind one another, *)
(* implement AccountRead - the account's furthest boundary moves as on a    *)
(* single device, by reading and by nothing else.                           *)
THEOREM Refinement == Spec => ReadsLikeOneDevice
<1> USE MessagesAssumption
<1> DEFINE Inv == TypeInv /\ SafetyInv /\ FurthestHeld
<1>1. Init => Inv
  BY DEF Init, TypeInv, TypeOK, MovedIsHeld, SafetyInv, MarkersWereRead,
         BoundaryWasRead, NothingForgotten, FurthestHeld
<1>2. Spec => []Inv
  <2>1. Init => FurthestHeld
    BY <1>1
  <2> QED BY <2>1, FurthestHeldStep, TypeInvariant, SafetyInvariant, PTL DEF Spec
<1>3. Init => Account!Init
  <2> SUFFICES ASSUME Init PROVE Account!Init
    OBVIOUS
  <2>1. \A p \in Partners : Furthest(p) = NoBoundary
    BY DEF Init, Furthest
  <2> QED BY <2>1 DEF Account!Init, Init
<1>4. ASSUME Inv, Inv', [Next]_vars
      PROVE  [Account!Next]_<<[p \in Partners |-> Furthest(p)], opened>>
  <2>1. \A p \in Partners :
          /\ opened[p] \in SUBSET Stamp /\ opened'[p] \in SUBSET Stamp
          /\ IsPosition(Furthest(p), opened[p])
          /\ IsPosition(Furthest(p)', opened'[p])
    <3> SUFFICES ASSUME NEW p \in Partners
                 PROVE  /\ opened[p] \in SUBSET Stamp /\ opened'[p] \in SUBSET Stamp
                        /\ IsPosition(Furthest(p), opened[p])
                        /\ IsPosition(Furthest(p)', opened'[p])
      OBVIOUS
    <3>1. TypeOK /\ BoundaryWasRead /\ FurthestHeld
      BY <1>4 DEF TypeInv, SafetyInv
    <3>2. (TypeOK /\ BoundaryWasRead /\ FurthestHeld)'
      BY <1>4 DEF TypeInv, SafetyInv
    <3>3. IsPosition(Furthest(p), opened[p])
      BY <3>1, FurthestIsPosition
    <3>4. (TypeOK /\ BoundaryWasRead /\ FurthestHeld => IsPosition(Furthest(p), opened[p]))'
      BY FurthestIsPosition, PTL
    <3>5. IsPosition(Furthest(p)', opened'[p])
      BY <3>2, <3>4 DEF IsPosition
    <3> QED BY <3>1, <3>2, <3>3, <3>5 DEF TypeOK
  <2>2. CASE opened' = opened
    <3>1. \A p \in Partners : Furthest(p)' = Furthest(p)
      BY <2>1, <2>2, PositionUnique
    <3>2. [p \in Partners |-> Furthest(p)]' = [p \in Partners |-> Furthest(p)]
      BY <3>1
    <3> QED BY <2>2, <3>2
  <2>3. ASSUME NEW d \in Devices, NEW q \in Partners, NEW m \in Messages, Read(d, q, m)
        PROVE  Account!Next
    <3>1. opened' = [opened EXCEPT ![q] = opened[q] \cup {m}]
      BY <2>3 DEF Read
    <3>2. \A p \in Partners : opened'[p] = IF p = q THEN opened[p] \cup {m} ELSE opened[p]
      BY <1>4, <3>1 DEF TypeInv, TypeOK
    <3>3. Furthest(q)' = IF Moves(Furthest(q), m) THEN m ELSE Furthest(q)
      <4>1. m \in Stamp /\ opened'[q] = opened[q] \cup {m}
        BY <3>2
      <4>2. /\ Moves(Furthest(q), m) => IsPosition(m, opened'[q])
            /\ ~Moves(Furthest(q), m) => IsPosition(Furthest(q), opened'[q])
        <5> DEFINE s == opened[q]
        <5>1. s \in SUBSET Stamp /\ IsPosition(Furthest(q), s)
          BY <2>1
        <5> HIDE DEF s
        <5>2. /\ Moves(Furthest(q), m) => IsPosition(m, s \cup {m})
              /\ ~Moves(Furthest(q), m) => IsPosition(Furthest(q), s \cup {m})
          BY <4>1, <5>1, PositionMoves
        <5> QED BY <4>1, <5>2 DEF s
      <4>3. CASE Moves(Furthest(q), m)
        BY <2>1, <4>2, <4>3, PositionUnique
      <4>4. CASE ~Moves(Furthest(q), m)
        BY <2>1, <4>2, <4>4, PositionUnique
      <4> QED BY <4>3, <4>4
    <3>4. \A p \in Partners : p # q => Furthest(p)' = Furthest(p)
      BY <2>1, <3>2, PositionUnique
    <3>5. [p \in Partners |-> Furthest(p)]' =
            [[p \in Partners |-> Furthest(p)] EXCEPT ![q] =
                IF Moves(Furthest(q), m) THEN m ELSE Furthest(q)]
      BY <3>3, <3>4
    <3>6. Account!Read(q, m)
      BY <3>1, <3>5 DEF Account!Read, Account!Moves, Account!Later, Moves, Later
    <3> QED BY <3>6 DEF Account!Next
  <2>4. \/ opened' = opened
        \/ \E d \in Devices, q \in Partners, m \in Messages : Read(d, q, m)
    BY <1>4 DEF Next, vars, Arrive, Send, Forge, Receive, Lose
  <2> QED BY <2>2, <2>3, <2>4
<1> HIDE DEF Inv
<1> QED BY <1>2, <1>3, <1>4, PTL DEF Spec, ReadsLikeOneDevice, Account!Spec

=============================================================================
