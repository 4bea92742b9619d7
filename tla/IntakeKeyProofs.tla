--------------------------- MODULE IntakeKeyProofs ---------------------------
(***************************************************************************)
(* Proofs about the intake key, for any number of devices and contacts and *)
(* any window and number of generations.                                   *)
(***************************************************************************)
EXTENDS IntakeKey, TLAPS

(* A publish under way. *)
Call == [key : Key, from : {-1, 0}]

(* The inductive invariant.  The rotation needs the types: that a call and  *)
(* the tags name epochs the server keeps.                                   *)
IntakeInv == TypeOK /\ RotationTakesEffect

-----------------------------------------------------------------------------
(* The entries of a publish: tags of its key, each for an epoch in grace or *)
(* in the window.                                                           *)
LEMMA EntriesOfCall ==
    ASSUME NEW call \in Call, NEW t \in Entries(call)
    PROVE  t \in [epoch : Kept, key : Key] /\ t.key = call.key
BY IntakeAssumption DEF Entries, Tag, Kept, Call

(* What a publish leaves on the server: the tags that were there and its    *)
(* own entries, and of those that were there all, unless its generation is  *)
(* above the account's; below it nothing changes.                           *)
LEMMA StoredTags ==
    ASSUME NEW call \in Call, TypeOK
    PROVE  /\ Stored(call) \subseteq tags \cup Entries(call)
           /\ call.key.gen <= serverGen => tags \subseteq Stored(call)
           /\ call.key.gen < serverGen => Stored(call) = tags
           /\ call.key.gen > serverGen =>
                \A t \in Stored(call) \ Entries(call), n \in Entries(call) : n.epoch # t.epoch
<1>1. call.key.gen \in Int /\ serverGen \in Int
  BY IntakeAssumption DEF Call, Key, TypeOK
<1>2. CASE call.key.gen > serverGen
  BY <1>1, <1>2 DEF Stored
<1>3. CASE call.key.gen = serverGen
  BY <1>1, <1>3 DEF Stored
<1>4. CASE call.key.gen < serverGen
  <2>1. ~(call.key.gen > serverGen) /\ call.key.gen # serverGen
    BY <1>1, <1>4
  <2>2. Stored(call) = tags
    BY <2>1 DEF Stored
  <2> QED BY <2>2, <1>1, <1>4
<1> QED BY <1>1, <1>2, <1>3, <1>4

(* A key that is minted is a key of the account, above the given generation. *)
LEMMA NewKeyStep ==
    ASSUME NEW d \in Devices, NEW above \in 0 .. MaxGen, TypeOK, NewKey(d, above)
    PROVE  /\ key' \in [Readers -> Key \cup {None}] /\ cards' \subseteq Key
           /\ asked' \in [Devices -> 0 .. MaxGen \cup {None}]
           /\ key'[d] \in Key /\ key'[d].gen > above
           /\ \A r \in Readers : r # d => key'[r] = key[r]
<1>1. PICK g \in above + 1 .. MaxGen :
        /\ Take(d, [gen |-> g, by |-> d])
        /\ cards' = cards \cup {[gen |-> g, by |-> d]}
  BY DEF NewKey
<1>2. g \in 0 .. MaxGen /\ g > above
  BY IntakeAssumption
<1> DEFINE k == [gen |-> g, by |-> d]
<1>3. k \in Key /\ k.gen > above
  BY <1>2 DEF Key
<1>4. key' = [key EXCEPT ![d] = k] /\ asked' = [asked EXCEPT ![d] = None]
      /\ cards' = cards \cup {k}
  BY <1>1 DEF Take
<1> HIDE DEF k
<1>5. d \in Readers
  BY DEF Readers
<1> QED BY <1>3, <1>4, <1>5 DEF TypeOK

-----------------------------------------------------------------------------
(* Type correctness is inductive: no step of a device, a contact, the       *)
(* server or the calendar leaves the types.                                 *)
LEMMA TypeStep ==
    ASSUME TypeOK, [Next]_vars
    PROVE  TypeOK'
<1> USE IntakeAssumption
<1>1. ASSUME NEW d \in Devices, GetIntakeState(d)
      PROVE  TypeOK'
  BY <1>1 DEF GetIntakeState, TypeOK, server, senders
<1>2. ASSUME NEW d \in Devices, Mint(d)
      PROVE  TypeOK'
  <2>1. asked[d] \in 0 .. MaxGen
    BY <1>2 DEF Mint, TypeOK
  <2>2. NewKey(d, asked[d])
    BY <1>2 DEF Mint
  <2> QED BY <1>2, <2>1, <2>2, NewKeyStep DEF Mint, TypeOK, server, senders
<1>3. ASSUME NEW d \in Devices, Rotate(d)
      PROVE  TypeOK'
  <2>1. key[d].gen \in 0 .. MaxGen
    BY <1>3 DEF Rotate, TypeOK, Key, Readers
  <2>2. NewKey(d, key[d].gen)
    BY <1>3 DEF Rotate
  <2> QED BY <1>3, <2>1, <2>2, NewKeyStep DEF Rotate, TypeOK, server, senders
<1>4. ASSUME NEW d \in Devices, PublishIntakeTags(d)
      PROVE  TypeOK'
  <2>1. key[d] \in Key
    BY <1>4 DEF PublishIntakeTags, TypeOK, Readers
  <2> QED BY <1>4, <2>1 DEF PublishIntakeTags, TypeOK, account, server, senders
<1>5. ASSUME NEW d \in Devices, StorePublish(d)
      PROVE  TypeOK'
  <2>1. publish[d] \in Call
    BY <1>5 DEF StorePublish, TypeOK, Call
  <2>2. tags' \subseteq [epoch : Kept, key : Key]
    BY <1>5, <2>1, StoredTags, EntriesOfCall DEF StorePublish, TypeOK
  <2>3. serverGen' \in 0 .. MaxGen /\ rose' \in LongAgo .. 0
    <3>1. publish[d].key.gen \in 0 .. MaxGen /\ publish[d].from \in LongAgo .. 0
      BY <2>1 DEF Call, Key, LongAgo
    <3>2. /\ serverGen' = IF publish[d].key.gen > serverGen THEN publish[d].key.gen ELSE serverGen
          /\ rose' = IF publish[d].key.gen > serverGen THEN publish[d].from ELSE rose
      BY <1>5 DEF StorePublish
    <3>3. serverGen \in 0 .. MaxGen /\ rose \in LongAgo .. 0
      BY DEF TypeOK
    <3> QED BY <3>1, <3>2, <3>3
  <2> QED BY <1>5, <2>2, <2>3 DEF StorePublish, TypeOK, account, senders
<1>6. ASSUME NEW r \in Readers, NEW k \in Key, ReceiveCard(r, k)
      PROVE  TypeOK'
  BY <1>6 DEF ReceiveCard, Take, TypeOK, server, senders, Readers
<1>7. ASSUME NEW c \in Contacts, SendChecked(c)
      PROVE  TypeOK'
  <2>1. key[c] \in Key
    BY <1>7 DEF SendChecked, Presents, TypeOK, Readers
  <2> QED BY <1>7, <2>1 DEF SendChecked, Answered, TypeOK, account, server, Verdicts
<1>8. ASSUME NEW c \in Contacts, SendUnchecked(c)
      PROVE  TypeOK'
  <2>1. key[c] \in Key
    BY <1>8 DEF SendUnchecked, Presents, TypeOK, Readers
  <2> QED BY <1>8, <2>1 DEF SendUnchecked, Answered, TypeOK, account, server, Verdicts
<1>9. ASSUME NEW c \in Contacts, HearVerdict(c)
      PROVE  TypeOK'
  <2>1. answer[c].key \in Key /\ key[c] \in Key \cup {None}
    BY <1>9 DEF HearVerdict, TypeOK, Readers
  <2> QED BY <1>9, <2>1 DEF HearVerdict, KeyAfter, TypeOK, server, Readers
<1>10. ASSUME RollEpoch
       PROVE  TypeOK'
  <2>1. tags' \subseteq [epoch : Kept, key : Key]
    BY <1>10 DEF RollEpoch, TypeOK, Tag, Kept
  <2>2. publish' \in [Devices -> [key : Key, from : {-1, 0}] \cup {None}]
    BY <1>10 DEF RollEpoch, TypeOK
  <2>3. rose' \in LongAgo .. 0
    BY <1>10 DEF RollEpoch, TypeOK, LongAgo
  <2> QED BY <1>10, <2>1, <2>2, <2>3 DEF RollEpoch, TypeOK, account
<1>11. CASE UNCHANGED vars
  BY <1>11 DEF TypeOK, vars, account, server, senders
<1> QED
  BY <1>1, <1>2, <1>3, <1>4, <1>5, <1>6, <1>7, <1>8, <1>9, <1>10, <1>11 DEF Next

(* The devices start with a generation 0 key of their own or none. *)
LEMMA InitTyped == Init => TypeOK
<1> SUFFICES ASSUME Init PROVE TypeOK
  OBVIOUS
<1>1. key \in [Readers -> Key \cup {None}]
  BY IntakeAssumption DEF Init, Key
<1>2. cards \subseteq Key
  BY <1>1 DEF Init, Readers
<1> QED BY <1>1, <1>2, IntakeAssumption DEF Init, TypeOK, LongAgo

(* Every reachable state is well typed: what devices publish and what the   *)
(* server stores are tags of minted keys for epochs in grace or window.     *)
THEOREM IntakeTypes == Spec => []TypeOK
BY InitTyped, TypeStep, PTL DEF Spec

-----------------------------------------------------------------------------
(* A rotation takes effect now: see RotationTakesEffect.  A publish that    *)
(* raises the generation leaves of the older tags only those for days that  *)
(* it does not cover; one that does not raise it stores no older key; and   *)
(* every midnight moves the days of tags and of the rotation together.      *)
THEOREM RotationEndsOldKeys == Spec => []RotationTakesEffect
<1>1. Init => IntakeInv
  BY InitTyped DEF Init, IntakeInv, RotationTakesEffect
<1>2. IntakeInv /\ [Next]_vars => IntakeInv'
  <2> SUFFICES ASSUME IntakeInv, [Next]_vars PROVE RotationTakesEffect'
    BY TypeStep DEF IntakeInv
  <2> USE IntakeAssumption
  <2>0. TypeOK
    BY DEF IntakeInv
  <2>1. ASSUME NEW d \in Devices, StorePublish(d)
        PROVE  RotationTakesEffect'
    <3> DEFINE call == publish[d]
    <3>1. call \in Call
      BY <2>0, <2>1 DEF StorePublish, TypeOK, Call
    <3>2. call.key.gen \in Int /\ serverGen \in Int /\ call.from \in {-1, 0}
      BY <2>0, <3>1 DEF Call, Key, TypeOK
    <3> SUFFICES ASSUME NEW t \in tags', t.key.gen < serverGen'
                 PROVE  t.epoch \notin rose' .. rose' + Window
      BY DEF RotationTakesEffect
    <3>3. /\ tags' = Stored(call)
          /\ serverGen' = IF call.key.gen > serverGen THEN call.key.gen ELSE serverGen
          /\ rose' = IF call.key.gen > serverGen THEN call.from ELSE rose
      BY <2>1 DEF StorePublish
    <3> HIDE DEF call
    <3>4. t \in tags \/ t \in Entries(call)
      BY <2>0, <3>1, <3>3, StoredTags
    <3>5. t \in Entries(call) => t.key = call.key
      BY <3>1, EntriesOfCall
    <3>6. CASE call.key.gen > serverGen
      <4>1. t \in tags /\ t \notin Entries(call) /\ rose' = call.from
        BY <3>2, <3>3, <3>4, <3>5, <3>6
      <4>2. t.epoch \in Kept
        BY <4>1, <2>0 DEF TypeOK
      <4>3. t \in Stored(call) \ Entries(call)
        BY <3>3, <4>1
      <4>4. \A n \in Entries(call) : n.epoch # t.epoch
        BY <4>3, <2>0, <3>1, <3>6, StoredTags
      <4>5. SUFFICES ASSUME t.epoch \in call.from .. call.from + Window
                     PROVE  FALSE
        BY <4>1
      <4>6. Tag(t.epoch, call.key) \in Entries(call)
        BY <4>2, <4>5 DEF Entries
      <4>7. Tag(t.epoch, call.key).epoch = t.epoch
        BY DEF Tag
      <4> QED BY <4>4, <4>6, <4>7
    <3>7. CASE call.key.gen <= serverGen
      <4>1. serverGen' = serverGen /\ rose' = rose
        BY <3>2, <3>3, <3>7
      <4>2. t \in tags
        BY <2>0, <3>1, <3>2, <3>3, <3>4, <3>5, <3>7, <4>1, StoredTags
      <4> QED BY <4>1, <4>2 DEF IntakeInv, RotationTakesEffect
    <3> QED BY <3>2, <3>6, <3>7
  <2>2. ASSUME RollEpoch
        PROVE  RotationTakesEffect'
    <3> SUFFICES ASSUME NEW t \in tags', t.key.gen < serverGen'
                 PROVE  t.epoch \notin rose' .. rose' + Window
      BY DEF RotationTakesEffect
    <3>1. PICK u \in tags : u.epoch >= 0 /\ t = Tag(u.epoch - 1, u.key)
      BY <2>2 DEF RollEpoch
    <3>2. t.epoch = u.epoch - 1 /\ t.key = u.key
      BY <3>1 DEF Tag
    <3>3. u.epoch \notin rose .. rose + Window
      BY <2>2, <3>2 DEF RollEpoch, IntakeInv, RotationTakesEffect
    <3>4. u.epoch \in Int /\ rose \in LongAgo .. 0
      BY <2>0 DEF TypeOK, Kept
    <3>5. rose' = IF rose > LongAgo THEN rose - 1 ELSE rose
      BY <2>2 DEF RollEpoch
    <3> QED BY <3>1, <3>2, <3>3, <3>4, <3>5 DEF LongAgo
  <2>3. CASE UNCHANGED server
    BY <2>3 DEF IntakeInv, RotationTakesEffect, server
  <2>4. (\E d \in Devices : StorePublish(d)) \/ RollEpoch \/ UNCHANGED server
    BY DEF Next, vars, server, senders, account, GetIntakeState, Mint, Rotate,
           PublishIntakeTags, ReceiveCard, SendChecked, SendUnchecked, HearVerdict
  <2> QED BY <2>1, <2>2, <2>3, <2>4
<1>3. IntakeInv => RotationTakesEffect
  BY DEF IntakeInv
<1> QED BY <1>1, <1>2, <1>3, PTL DEF Spec

(* A working key is not cut off: see NoWorkingKeyCut. *)
THEOREM WorkingKeyStays == Spec => NoWorkingKeyCut
<1> DEFINE Stays == \A t \in tags : t \in tags' \/ Tag(t.epoch - 1, t.key) \in tags'
                       \/ t.epoch = -1 \/ serverGen' > serverGen
<1>1. TypeOK /\ [Next]_vars => [Stays]_vars
  <2> SUFFICES ASSUME TypeOK, Next, NEW t \in tags, t \notin tags',
                      ~(serverGen' > serverGen), t.epoch # -1
               PROVE  Tag(t.epoch - 1, t.key) \in tags'
    OBVIOUS
  <2> USE IntakeAssumption
  <2>1. ASSUME NEW d \in Devices, StorePublish(d)
        PROVE  FALSE
    <3>1. publish[d] \in Call
      BY <2>1 DEF StorePublish, TypeOK, Call
    <3>2. publish[d].key.gen \in Int /\ serverGen \in Int
      BY <3>1 DEF Call, Key, TypeOK
    <3>3. publish[d].key.gen <= serverGen
      BY <2>1, <3>2 DEF StorePublish
    <3> QED BY <2>1, <3>1, <3>3, StoredTags DEF StorePublish
  <2>2. ASSUME RollEpoch
        PROVE  Tag(t.epoch - 1, t.key) \in tags'
    <3>1. t.epoch >= 0
      BY DEF TypeOK, Kept
    <3> QED BY <2>2, <3>1 DEF RollEpoch
  <2>3. UNCHANGED server => FALSE
    BY DEF server
  <2>4. (\E d \in Devices : StorePublish(d)) \/ RollEpoch \/ UNCHANGED server
    BY DEF Next, server, senders, account, GetIntakeState, Mint, Rotate,
           PublishIntakeTags, ReceiveCard, SendChecked, SendUnchecked, HearVerdict
  <2> QED BY <2>1, <2>2, <2>3, <2>4
<1> QED BY <1>1, IntakeTypes, PTL DEF Spec, NoWorkingKeyCut

(* No holder goes back: see KeysOnlyForward. *)
THEOREM HoldersOnlyForward == Spec => KeysOnlyForward
<1> DEFINE Forward(r) == key[r] # None /\ key'[r] # key[r] =>
                            key'[r] # None /\ key'[r].gen > key[r].gen
<1>1. TypeOK /\ [Next]_vars => [\A r \in Readers : Forward(r)]_vars
  <2> SUFFICES ASSUME TypeOK, Next, NEW r \in Readers
               PROVE  Forward(r)
    OBVIOUS
  <2> USE IntakeAssumption DEF Key
  <2>1. ASSUME NEW d \in Devices, Mint(d)
        PROVE  Forward(r)
    BY <2>1, NewKeyStep DEF Mint, TypeOK
  <2>2. ASSUME NEW d \in Devices, Rotate(d)
        PROVE  Forward(r)
    <3>1. key[d].gen \in 0 .. MaxGen
      BY <2>2 DEF Rotate, TypeOK, Readers
    <3>2. /\ key'[d] \in Key /\ key'[d].gen > key[d].gen
          /\ r # d => key'[r] = key[r]
      BY <2>2, <3>1, NewKeyStep DEF Rotate
    <3> QED BY <3>2
  <2>3. ASSUME NEW s \in Readers, NEW k \in Key, ReceiveCard(s, k)
        PROVE  Forward(r)
    BY <2>3 DEF ReceiveCard, Take, Replaces, TypeOK
  <2>4. ASSUME NEW c \in Contacts, HearVerdict(c)
        PROVE  Forward(r)
    BY <2>4 DEF HearVerdict, KeyAfter, TypeOK
  <2>5. UNCHANGED key => Forward(r)
    OBVIOUS
  <2>6. \/ \E d \in Devices : Mint(d) \/ Rotate(d)
        \/ \E s \in Readers, k \in Key : ReceiveCard(s, k)
        \/ \E c \in Contacts : HearVerdict(c)
        \/ UNCHANGED key
    BY DEF Next, account, GetIntakeState, PublishIntakeTags, StorePublish,
           SendChecked, SendUnchecked, RollEpoch
  <2> QED BY <2>1, <2>2, <2>3, <2>4, <2>5, <2>6
<1> QED BY <1>1, IntakeTypes, PTL DEF Spec, KeysOnlyForward

=============================================================================
