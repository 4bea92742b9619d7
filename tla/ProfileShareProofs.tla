------------------------- MODULE ProfileShareProofs -------------------------
(***************************************************************************)
(* Proofs about profile sharing, for any contacts, avatars, number of      *)
(* edits and length of the mailboxes.                                      *)
(***************************************************************************)
EXTENDS ProfileShare, SequenceTheorems, WellFoundedInduction, TLAPS

(* What every share under way says, and what a contact holds, was the       *)
(* sender's profile after some edit.                                        *)
SharesAreEdits ==
    \A c \in Contacts :
        /\ held[c] <= edited
        /\ \A i \in DOMAIN mailbox[c] :
              /\ mailbox[c][i].edited_at_ms <= edited
              /\ mailbox[c][i].display_name = names[mailbox[c][i].edited_at_ms]

NameInv == TypeOK /\ SharesAreEdits /\ NameBelongsToEdit

(* The shares that await c skip no edit after the one it holds, and the     *)
(* last of them is the latest edit.                                         *)
NoGap(c) ==
    LET m == mailbox[c] IN
    /\ m = <<>> => held[c] = edited
    /\ m # <<>> => m[1].edited_at_ms <= held[c] + 1 /\ m[Len(m)].edited_at_ms = edited
    /\ \A i \in 1 .. Len(m) - 1 : m[i + 1].edited_at_ms <= m[i].edited_at_ms + 1

(* How a set, removed or absent avatar reads while its media is there. *)
Reads(now, wire) == AvatarAction(now, wire, FALSE)

(* was[e] was the sender's avatar after edit e: c shows that of the edit it *)
(* holds, and every share leads from the avatar before its edit to the one  *)
(* after it.                                                                *)
Leads(c, was) ==
    /\ was[edited] = avatar
    /\ picture[c] = was[held[c]]
    /\ \A i \in DOMAIN mailbox[c] :
          Reads(was[mailbox[c][i].edited_at_ms - 1], mailbox[c][i].avatar)
              = was[mailbox[c][i].edited_at_ms]

Histories == [0 .. MaxEdits -> Avatars \cup {NoAvatar}]

(* Whoever took the shares in order can be told the sender's past avatars. *)
SmoothInv ==
    \A c \in Contacts : smooth[c] => NoGap(c) /\ \E was \in Histories : Leads(c, was)

ProfileInv == NameInv /\ SmoothInv

-----------------------------------------------------------------------------
(* A share that sets or removes the avatar says what it is after the edit. *)
Carries(wire, av) ==
    (wire \in Avatars => av = wire) /\ (wire = "removed" => av = NoAvatar)

Wires == Avatars \cup {"removed", "unchanged", "short_key"}

(* One reading of the avatar field per kind: a new one, removed, keep. *)
LEMMA AvatarCases ==
    ASSUME NEW now, NEW wire \in Wires
    PROVE  /\ wire \in Avatars => Reads(now, wire) = wire
           /\ wire = "removed" => Reads(now, wire) = NoAvatar
           /\ wire \in {"unchanged", "short_key"} => Reads(now, wire) = now
BY ProfileAssumption DEF AvatarAction, Reads, Wires

(* A share taken out of a mailbox: the others stay, in their order. *)
LEMMA Without ==
    ASSUME NEW S, NEW s \in Seq(S), NEW i \in 1 .. Len(s)
    PROVE  LET t == SubSeq(s, 1, i - 1) \o SubSeq(s, i + 1, Len(s)) IN
           /\ t \in Seq(S) /\ Len(t) = Len(s) - 1
           /\ \A j \in 1 .. Len(t) : t[j] = s[IF j < i THEN j ELSE j + 1]
<1> DEFINE a == SubSeq(s, 1, i - 1)
           b == SubSeq(s, i + 1, Len(s))
           t == a \o b
<1>1. Len(s) \in Nat /\ \A j \in 1 .. Len(s) : s[j] \in S
  BY LenProperties, ElementOfSeq
<1>2. /\ a \in Seq(S) /\ Len(a) = i - 1
      /\ \A j \in 1 .. i - 1 : a[j] = s[j]
  <2>1. \A j \in 1 .. i - 1 : s[j] \in S
    BY <1>1
  <2>2. /\ a \in Seq(S)
        /\ Len(a) = IF 1 <= i - 1 THEN i - 1 - 1 + 1 ELSE 0
        /\ \A j \in 1 .. i - 1 - 1 + 1 : a[j] = s[1 + j - 1]
    BY <2>1, SubSeqProperties, 1 \in Int, i - 1 \in Int
  <2> QED BY <2>2, <1>1
<1>3. /\ b \in Seq(S) /\ Len(b) = Len(s) - i
      /\ \A j \in 1 .. Len(s) - i : b[j] = s[i + j]
  <2>1. \A j \in i + 1 .. Len(s) : s[j] \in S
    BY <1>1
  <2>2. /\ b \in Seq(S)
        /\ Len(b) = IF i + 1 <= Len(s) THEN Len(s) - (i + 1) + 1 ELSE 0
        /\ \A j \in 1 .. Len(s) - (i + 1) + 1 : b[j] = s[(i + 1) + j - 1]
    BY <2>1, <1>1, SubSeqProperties, i + 1 \in Int, Len(s) \in Int
  <2> QED BY <2>2, <1>1
<1> HIDE DEF a, b
<1>5. /\ t \in Seq(S) /\ Len(t) = Len(a) + Len(b)
      /\ \A j \in 1 .. Len(a) + Len(b) : t[j] = IF j <= Len(a) THEN a[j] ELSE b[j - Len(a)]
  BY <1>2, <1>3, ConcatProperties, Zenon
<1> HIDE DEF t
<1>6. ASSUME NEW j \in 1 .. Len(t)
      PROVE  t[j] = s[IF j < i THEN j ELSE j + 1]
  <2>1. CASE j < i
    BY <2>1, <1>1, <1>2, <1>3, <1>5
  <2>2. CASE j >= i
    <3>1. j \in 1 .. Len(a) + Len(b) /\ Len(a) = i - 1 /\ Len(b) = Len(s) - i
      BY <1>2, <1>3, <1>5
    <3>4. ~(j <= Len(a)) /\ j - (i - 1) \in 1 .. Len(s) - i
      BY <2>2, <3>1, <1>1
    <3>5. t[j] = b[j - (i - 1)]
      BY <3>1, <3>4, <1>5
    <3>2. b[j - (i - 1)] = s[i + (j - (i - 1))]
      BY <3>4, <1>3
    <3>3. i + (j - (i - 1)) = j + 1 /\ ~(j < i)
      BY <1>1, <2>2, <3>1
    <3> QED BY <3>5, <3>2, <3>3
  <2>3. j \in Int /\ i \in Int
    BY <1>1, <1>2, <1>3, <1>5
  <2> QED BY <2>1, <2>2, <2>3
<1>7. Len(t) = Len(s) - 1
  BY <1>1, <1>2, <1>3, <1>5
<1> QED BY <1>5, <1>6, <1>7 DEF t, a, b

(* The mailbox of c after a Receive: the same, or one share less. *)
LEMMA ReceiveMailbox ==
    ASSUME TypeOK, NEW c \in Contacts, NEW i \in DOMAIN mailbox[c],
           NEW again \in BOOLEAN, NEW gone \in BOOLEAN, Receive(c, i, again, gone)
    PROVE  /\ i \in 1 .. Len(mailbox[c]) /\ mailbox[c][i] \in Shares
           /\ mailbox' \in [Contacts -> Seq(Shares)]
           /\ \A e \in Contacts : e # c => mailbox'[e] = mailbox[e]
           /\ again => mailbox'[c] = mailbox[c]
           /\ ~again => /\ Len(mailbox'[c]) = Len(mailbox[c]) - 1
                        /\ \A j \in 1 .. Len(mailbox'[c]) :
                             mailbox'[c][j] = mailbox[c][IF j < i THEN j ELSE j + 1]
<1> DEFINE m == mailbox[c]
           n == SubSeq(m, 1, i - 1) \o SubSeq(m, i + 1, Len(m))
<1>1. m \in Seq(Shares) /\ i \in 1 .. Len(m)
  BY LenProperties DEF TypeOK
<1>2. m[i] \in Shares
  BY <1>1, ElementOfSeq
<1>3. /\ n \in Seq(Shares) /\ Len(n) = Len(m) - 1
      /\ \A j \in 1 .. Len(n) : n[j] = m[IF j < i THEN j ELSE j + 1]
  BY <1>1, Without
<1>4. mailbox' = [mailbox EXCEPT ![c] = IF again THEN m ELSE n]
  BY DEF Receive
<1> HIDE DEF n
<1> QED BY <1>1, <1>2, <1>3, <1>4 DEF TypeOK

(* The three kinds of edit are one: where the share of an edit carries all  *)
(* of it, it leads from the avatar before to the one after.                 *)
LEMMA EditKinds ==
    ASSUME TypeOK, EditName \/ RemoveAvatar \/ \E a \in Avatars : SetAvatar(a)
    PROVE  \E name \in 0 .. MaxEdits, av \in Avatars \cup {NoAvatar},
              wire \in Wires, uploaded \in BOOLEAN :
              /\ Edit(name, av, wire, uploaded)
              /\ uploaded => Reads(avatar, wire) = av
              /\ Carries(wire, av)
<1>0. MaxEdits \in Nat
  BY ProfileAssumption
<1>1. Name \in 0 .. MaxEdits
  <2>1. CASE names = <<>>
    <3>1. Name = 0
      BY <2>1 DEF Name
    <3> QED BY <1>0, <3>1
  <2>2. CASE names # <<>>
    <3>1. Len(names) \in 1 .. Len(names)
      BY <2>2, EmptySeq DEF TypeOK
    <3> QED BY <2>2, <3>1, ElementOfSeq DEF Name, TypeOK
  <2> QED BY <2>1, <2>2
<1>2. CASE EditName
  <2>1. edited + 1 \in 0 .. MaxEdits
    <3>1. edited < MaxEdits
      BY <1>2 DEF EditName, Edit
    <3>2. edited \in 0 .. MaxEdits
      BY DEF TypeOK
    <3> QED BY <1>0, <3>1, <3>2
  <2>2. Reads(avatar, "unchanged") = avatar
    BY AvatarCases DEF Wires
  <2>3. Carries("unchanged", avatar)
    BY ProfileAssumption DEF Carries
  <2> QED BY <1>2, <2>1, <2>2, <2>3 DEF EditName, TypeOK, Wires
<1>3. CASE RemoveAvatar
  <2>1. Reads(avatar, "removed") = NoAvatar
    BY AvatarCases DEF Wires
  <2>2. Carries("removed", NoAvatar)
    BY ProfileAssumption DEF Carries
  <2> QED BY <1>1, <1>3, <2>1, <2>2 DEF RemoveAvatar, TypeOK, Wires
<1>4. ASSUME NEW a \in Avatars, SetAvatar(a)
      PROVE  \E name \in 0 .. MaxEdits, av \in Avatars \cup {NoAvatar},
                wire \in Wires, uploaded \in BOOLEAN :
                /\ Edit(name, av, wire, uploaded)
                /\ uploaded => Reads(avatar, wire) = av
                /\ Carries(wire, av)
  <2>1. PICK wire \in {a, "unchanged", "short_key"} : Edit(Name, a, wire, wire = a)
    BY <1>4 DEF SetAvatar
  <2>2. wire \in Wires
    BY DEF Wires
  <2>3. (wire = a) => Reads(avatar, wire) = a
    BY <2>2, AvatarCases
  <2>4. Carries(wire, a)
    BY ProfileAssumption DEF Carries
  <2> QED BY <1>1, <2>1, <2>2, <2>3, <2>4
<1> QED BY <1>2, <1>3, <1>4

(* What an edit appends, to the history and to every mailbox. *)
LEMMA EditAppends ==
    ASSUME TypeOK, NEW name \in 0 .. MaxEdits, NEW av \in Avatars \cup {NoAvatar},
           NEW wire \in Wires, NEW uploaded, Edit(name, av, wire, uploaded)
    PROVE  /\ edited \in Nat /\ edited' = edited + 1 /\ edited' \in 1 .. MaxEdits
           /\ names' \in Seq(0 .. MaxEdits) /\ Len(names') = edited'
           /\ names'[edited'] = name
           /\ \A e \in 1 .. edited : names'[e] = names[e]
           /\ avatars' \in Seq(Avatars \cup {NoAvatar}) /\ Len(avatars') = edited'
           /\ avatars'[edited'] = av
           /\ \A e \in 1 .. edited : avatars'[e] = avatars[e]
           /\ mailbox' \in [Contacts -> Seq(Shares)]
           /\ \A c \in Contacts :
                /\ Len(mailbox'[c]) = Len(mailbox[c]) + 1
                /\ \A i \in 1 .. Len(mailbox[c]) : mailbox'[c][i] = mailbox[c][i]
                /\ mailbox'[c][Len(mailbox[c]) + 1] = Share(edited', name, wire)
<1>1. MaxEdits \in Nat
  BY ProfileAssumption
<1>2. edited \in 0 .. MaxEdits /\ edited < MaxEdits
  BY DEF Edit, TypeOK
<1>3. edited' = edited + 1
  BY DEF Edit
<1>4. edited \in Nat /\ edited' \in 1 .. MaxEdits
  BY <1>1, <1>2, <1>3
<1>5. names' = Append(names, name) /\ names \in Seq(0 .. MaxEdits) /\ Len(names) = edited
  BY DEF Edit, TypeOK
<1>6. /\ names' \in Seq(0 .. MaxEdits) /\ Len(names') = edited'
      /\ names'[edited'] = name
      /\ \A e \in 1 .. edited : names'[e] = names[e]
  BY <1>3, <1>5, AppendProperties
<1>61. /\ avatars' = Append(avatars, av) /\ avatars \in Seq(Avatars \cup {NoAvatar})
       /\ Len(avatars) = edited
  BY DEF Edit, TypeOK
<1>62. /\ avatars' \in Seq(Avatars \cup {NoAvatar}) /\ Len(avatars') = edited'
       /\ avatars'[edited'] = av
       /\ \A e \in 1 .. edited : avatars'[e] = avatars[e]
  BY <1>3, <1>61, AppendProperties
<1> DEFINE new == Share(edited', name, wire)
<1>7. new \in Shares
  BY <1>4 DEF Share, Shares, Wires
<1>8. mailbox' = [c \in Contacts |-> Append(mailbox[c], new)]
  BY <1>3 DEF Edit
<1> HIDE DEF new
<1>9. ASSUME NEW c \in Contacts
      PROVE  /\ mailbox'[c] \in Seq(Shares)
             /\ Len(mailbox'[c]) = Len(mailbox[c]) + 1
             /\ \A i \in 1 .. Len(mailbox[c]) : mailbox'[c][i] = mailbox[c][i]
             /\ mailbox'[c][Len(mailbox[c]) + 1] = new
  <2>1. mailbox[c] \in Seq(Shares) /\ mailbox'[c] = Append(mailbox[c], new)
    BY <1>8 DEF TypeOK
  <2> QED BY <1>7, <2>1, AppendProperties
<1>10. mailbox' \in [Contacts -> Seq(Shares)]
  BY <1>8, <1>9
<1> QED BY <1>3, <1>4, <1>6, <1>62, <1>9, <1>10 DEF new

(* What a resend appends: the profile as it is. *)
LEMMA ResendAppends ==
    ASSUME TypeOK, NEW c \in Contacts, Resend(c)
    PROVE  \E wire \in Wires :
           /\ edited > 0 /\ Name = names[edited]
           /\ Carries(wire, avatar) /\ \A now : Reads(now, wire) = avatar
           /\ mailbox' \in [Contacts -> Seq(Shares)]
           /\ \A e \in Contacts : e # c => mailbox'[e] = mailbox[e]
           /\ Len(mailbox'[c]) = Len(mailbox[c]) + 1
           /\ \A i \in 1 .. Len(mailbox[c]) : mailbox'[c][i] = mailbox[c][i]
           /\ mailbox'[c][Len(mailbox[c]) + 1] = Share(edited, Name, wire)
<1> DEFINE wire == IF avatar = NoAvatar THEN "removed" ELSE avatar
           new == Share(edited, Name, wire)
<1>1. edited > 0 /\ edited \in 0 .. MaxEdits /\ MaxEdits \in Nat
  BY ProfileAssumption DEF Resend, TypeOK
<1>2. names \in Seq(0 .. MaxEdits) /\ Len(names) = edited
  BY DEF TypeOK
<1>3. names # <<>>
  BY <1>1, <1>2, EmptySeq
<1>4. Name = names[edited]
  BY <1>2, <1>3 DEF Name
<1>5. Name \in 0 .. MaxEdits
  BY <1>1, <1>2, <1>4, ElementOfSeq
<1>6. /\ wire \in Wires /\ Carries(wire, avatar)
      /\ \A now : Reads(now, wire) = avatar
  <2>1. CASE avatar = NoAvatar
    BY <2>1, AvatarCases, ProfileAssumption DEF Wires, Carries
  <2>2. CASE avatar # NoAvatar
    <3>1. avatar \in Avatars /\ wire = avatar
      BY <2>2 DEF TypeOK
    <3> QED BY <3>1, AvatarCases, ProfileAssumption DEF Wires, Carries
  <2> QED BY <2>1, <2>2
<1>7. mailbox' = [mailbox EXCEPT ![c] = Append(@, new)]
  BY DEF Resend
<1> HIDE DEF wire
<1>8. new \in Shares
  BY <1>1, <1>5, <1>6 DEF Share, Shares, Wires
<1> HIDE DEF new
<1>9. mailbox[c] \in Seq(Shares) /\ mailbox'[c] = Append(mailbox[c], new)
  BY <1>7 DEF TypeOK
<1>10. /\ mailbox'[c] \in Seq(Shares)
       /\ Len(mailbox'[c]) = Len(mailbox[c]) + 1
       /\ \A i \in 1 .. Len(mailbox[c]) : mailbox'[c][i] = mailbox[c][i]
       /\ mailbox'[c][Len(mailbox[c]) + 1] = new
  BY <1>8, <1>9, AppendProperties
<1>11. \A e \in Contacts : e # c => mailbox'[e] = mailbox[e]
  BY <1>7 DEF TypeOK
<1>12. mailbox' \in [Contacts -> Seq(Shares)]
  BY <1>7, <1>9, <1>10 DEF TypeOK
<1> QED BY <1>1, <1>4, <1>6, <1>10, <1>11, <1>12 DEF new

-----------------------------------------------------------------------------
(* The names: an edit extends the history that every share refers to, and a *)
(* contact takes edit and name from one share.                              *)
LEMMA NameStep ==
    ASSUME NameInv, [Next]_vars
    PROVE  NameInv'
<1>0. TypeOK /\ SharesAreEdits /\ NameBelongsToEdit
  BY DEF NameInv
<1>01. \A c \in Contacts : mailbox[c] \in Seq(Shares) /\ DOMAIN mailbox[c] = 1 .. Len(mailbox[c])
                           /\ Len(mailbox[c]) \in Nat
                           /\ \A i \in 1 .. Len(mailbox[c]) : mailbox[c][i] \in Shares
  BY <1>0, LenProperties, ElementOfSeq DEF TypeOK
<1>1. ASSUME NEW name \in 0 .. MaxEdits, NEW av \in Avatars \cup {NoAvatar},
             NEW wire \in Wires, NEW uploaded \in BOOLEAN, Edit(name, av, wire, uploaded)
      PROVE  NameInv'
  <2>1. /\ edited \in Nat /\ edited' = edited + 1 /\ edited' \in 1 .. MaxEdits
        /\ names' \in Seq(0 .. MaxEdits) /\ Len(names') = edited'
        /\ names'[edited'] = name
        /\ \A e \in 1 .. edited : names'[e] = names[e]
        /\ avatars' \in Seq(Avatars \cup {NoAvatar}) /\ Len(avatars') = edited'
        /\ mailbox' \in [Contacts -> Seq(Shares)]
        /\ \A c \in Contacts :
             /\ Len(mailbox'[c]) = Len(mailbox[c]) + 1
             /\ \A i \in 1 .. Len(mailbox[c]) : mailbox'[c][i] = mailbox[c][i]
             /\ mailbox'[c][Len(mailbox[c]) + 1] = Share(edited', name, wire)
    BY <1>0, <1>1, EditAppends
  <2>2. /\ avatar' = av /\ UNCHANGED <<held, shown, picture, took>>
        /\ smooth' = [c \in Contacts |-> smooth[c] /\ uploaded]
    BY <1>1 DEF Edit, contact
  <2>3. smooth' \in [Contacts -> BOOLEAN]
    BY <2>2, <1>0 DEF TypeOK
  <2>4. TypeOK'
    BY <1>0, <2>1, <2>2, <2>3 DEF TypeOK
  <2>5. ASSUME NEW c \in Contacts
        PROVE  /\ (held[c] <= edited)'
               /\ (held[c] > 0 => shown[c] = names[held[c]])'
    <3>1. held[c] \in Nat /\ held[c] <= edited /\ (held[c] > 0 => shown[c] = names[held[c]])
      BY <1>0 DEF TypeOK, SharesAreEdits, NameBelongsToEdit
    <3>2. held'[c] = held[c] /\ shown'[c] = shown[c]
      BY <2>2
    <3> QED BY <2>1, <3>1, <3>2
  <2>6. ASSUME NEW c \in Contacts, NEW i \in DOMAIN mailbox'[c]
        PROVE  /\ mailbox'[c][i].edited_at_ms <= edited'
               /\ mailbox'[c][i].display_name = names'[mailbox'[c][i].edited_at_ms]
    <3>1. i \in 1 .. Len(mailbox[c]) + 1 /\ Len(mailbox[c]) \in Nat
      BY <1>01, <2>1, LenProperties
    <3>2. CASE i = Len(mailbox[c]) + 1
      <4>1. mailbox'[c][i] = Share(edited', name, wire)
        BY <2>1, <3>2
      <4> QED BY <4>1, <2>1 DEF Share
    <3>3. CASE i \in 1 .. Len(mailbox[c])
      <4>1. mailbox'[c][i] = mailbox[c][i] /\ mailbox[c][i] \in Shares
        BY <1>01, <2>1, <3>3
      <4>2. mailbox[c][i].edited_at_ms <= edited
            /\ mailbox[c][i].display_name = names[mailbox[c][i].edited_at_ms]
        BY <1>0, <1>01, <3>3 DEF SharesAreEdits
      <4>3. mailbox[c][i].edited_at_ms \in 1 .. edited
        BY <2>1, <4>1, <4>2 DEF Shares
      <4> QED BY <2>1, <4>1, <4>2, <4>3
    <3> QED BY <3>1, <3>2, <3>3
  <2> QED BY <2>4, <2>5, <2>6 DEF NameInv, SharesAreEdits, NameBelongsToEdit
<1>2. ASSUME NEW c \in Contacts, Resend(c)
      PROVE  NameInv'
  <2>1. PICK wire \in Wires :
           /\ edited > 0 /\ Name = names[edited]
           /\ Carries(wire, avatar) /\ \A now : Reads(now, wire) = avatar
           /\ mailbox' \in [Contacts -> Seq(Shares)]
           /\ \A e \in Contacts : e # c => mailbox'[e] = mailbox[e]
           /\ Len(mailbox'[c]) = Len(mailbox[c]) + 1
           /\ \A i \in 1 .. Len(mailbox[c]) : mailbox'[c][i] = mailbox[c][i]
           /\ mailbox'[c][Len(mailbox[c]) + 1] = Share(edited, Name, wire)
    BY <1>0, <1>2, ResendAppends
  <2>2. UNCHANGED <<edited, avatar, names, avatars, held, shown, picture, took, smooth>>
    BY <1>2 DEF Resend, sender, contact
  <2>3. TypeOK'
    BY <1>0, <2>1, <2>2 DEF TypeOK
  <2>4. ASSUME NEW e \in Contacts, NEW i \in DOMAIN mailbox'[e]
        PROVE  /\ mailbox'[e][i].edited_at_ms <= edited
               /\ mailbox'[e][i].display_name = names[mailbox'[e][i].edited_at_ms]
    <3>0. edited \in Nat
      BY <1>0 DEF TypeOK
    <3>1. CASE e # c
      BY <1>0, <2>1, <3>1 DEF SharesAreEdits
    <3>2. CASE e = c /\ i = Len(mailbox[c]) + 1
      <4>1. mailbox'[e][i] = Share(edited, Name, wire)
        BY <2>1, <3>2
      <4> QED BY <4>1, <2>1, <3>0 DEF Share
    <3>3. CASE e = c /\ i \in 1 .. Len(mailbox[c])
      BY <1>0, <1>01, <2>1, <3>3 DEF SharesAreEdits
    <3>4. e = c => i \in 1 .. Len(mailbox[c]) + 1 /\ Len(mailbox[c]) \in Nat
      BY <1>01, <2>1, LenProperties
    <3> QED BY <3>1, <3>2, <3>3, <3>4
  <2> QED BY <1>0, <2>2, <2>3, <2>4 DEF NameInv, SharesAreEdits, NameBelongsToEdit
<1>3. ASSUME NEW c \in Contacts, NEW i \in DOMAIN mailbox[c], NEW again \in BOOLEAN,
             NEW gone \in BOOLEAN, Receive(c, i, again, gone)
      PROVE  NameInv'
  <2> DEFINE share == mailbox[c][i]
  <2>1. /\ i \in 1 .. Len(mailbox[c]) /\ share \in Shares
        /\ mailbox' \in [Contacts -> Seq(Shares)]
        /\ \A e \in Contacts : e # c => mailbox'[e] = mailbox[e]
        /\ again => mailbox'[c] = mailbox[c]
        /\ ~again => /\ Len(mailbox'[c]) = Len(mailbox[c]) - 1
                     /\ \A j \in 1 .. Len(mailbox'[c]) :
                          mailbox'[c][j] = mailbox[c][IF j < i THEN j ELSE j + 1]
    BY <1>0, <1>3, ReceiveMailbox
  <2>2. /\ held' = [held EXCEPT ![c] = IF Newer(c, share) THEN share.edited_at_ms ELSE @]
        /\ shown' = [shown EXCEPT ![c] = IF Newer(c, share) THEN share.display_name ELSE @]
        /\ picture' = [picture EXCEPT ![c] =
               IF Newer(c, share) THEN AvatarAction(@, share.avatar, gone) ELSE @]
        /\ took' = [took EXCEPT ![c] =
               IF TakesAvatar(c, share, gone) THEN share.edited_at_ms ELSE @]
        /\ smooth' = [smooth EXCEPT ![c] = @ /\ i = 1 /\ ~gone]
        /\ UNCHANGED <<edited, avatar, names, avatars>>
    BY <1>3 DEF Receive, sender
  <2>3. share.edited_at_ms <= edited /\ share.display_name = names[share.edited_at_ms]
    BY <1>0 DEF SharesAreEdits
  <2> HIDE DEF share
  <2>4. /\ share.edited_at_ms \in 1 .. MaxEdits /\ share.display_name \in 0 .. MaxEdits
        /\ share.avatar \in Wires
    BY <2>1 DEF Shares, Wires
  <2>5. \A now \in Avatars \cup {NoAvatar} :
           AvatarAction(now, share.avatar, gone) \in Avatars \cup {NoAvatar}
    BY DEF AvatarAction
  <2>6. picture' \in [Contacts -> Avatars \cup {NoAvatar}]
    BY <1>0, <2>2, <2>5 DEF TypeOK
  <2>7. held' \in [Contacts -> 0 .. MaxEdits] /\ shown' \in [Contacts -> 0 .. MaxEdits]
        /\ took' \in [Contacts -> 0 .. MaxEdits]
    <3>1. MaxEdits \in Nat
      BY ProfileAssumption
    <3>2. share.edited_at_ms \in 0 .. MaxEdits
      BY <3>1, <2>4
    <3> QED BY <1>0, <2>2, <2>4, <3>2 DEF TypeOK
  <2>8. smooth' \in [Contacts -> BOOLEAN]
    BY <1>0, <2>2 DEF TypeOK
  <2>9. TypeOK'
    BY <1>0, <2>1, <2>2, <2>6, <2>7, <2>8 DEF TypeOK
  <2>10. ASSUME NEW e \in Contacts
         PROVE  /\ held'[e] <= edited
                /\ held'[e] > 0 => shown'[e] = names[held'[e]]
    <3>1. held[e] <= edited /\ (held[e] > 0 => shown[e] = names[held[e]])
      BY <1>0 DEF SharesAreEdits, NameBelongsToEdit
    <3>2. \/ held'[e] = held[e] /\ shown'[e] = shown[e]
          \/ held'[e] = share.edited_at_ms /\ shown'[e] = share.display_name
      BY <1>0, <2>2 DEF TypeOK
    <3> QED BY <2>3, <3>1, <3>2
  <2>11. ASSUME NEW e \in Contacts, NEW j \in DOMAIN mailbox'[e]
         PROVE  /\ mailbox'[e][j].edited_at_ms <= edited
                /\ mailbox'[e][j].display_name = names[mailbox'[e][j].edited_at_ms]
    <3>1. CASE e # c \/ again
      BY <1>0, <2>1, <3>1 DEF SharesAreEdits
    <3>2. CASE e = c /\ ~again
      <4>1. j \in 1 .. Len(mailbox'[c])
        BY <2>1, <3>2, LenProperties
      <4> DEFINE k == IF j < i THEN j ELSE j + 1
      <4>2. k \in DOMAIN mailbox[c]
        BY <1>01, <2>1, <3>2, <4>1
      <4>3. mailbox'[c][j] = mailbox[c][k]
        BY <2>1, <3>2, <4>1
      <4> HIDE DEF k
      <4> QED BY <1>0, <3>2, <4>2, <4>3 DEF SharesAreEdits
    <3> QED BY <3>1, <3>2
  <2> QED BY <2>2, <2>9, <2>10, <2>11 DEF NameInv, SharesAreEdits, NameBelongsToEdit
<1>4. CASE UNCHANGED vars
  BY <1>0, <1>4 DEF vars, sender, contact, NameInv, TypeOK, SharesAreEdits, NameBelongsToEdit
<1> QED BY <1>0, <1>1, <1>2, <1>3, <1>4, EditKinds DEF Next

(* Nothing was edited yet. *)
LEMMA InitInv == Init => ProfileInv
<1> SUFFICES ASSUME Init PROVE ProfileInv
  OBVIOUS
<1>1. MaxEdits \in Nat
  BY ProfileAssumption
<1>2. \A c \in Contacts : mailbox[c] = <<>> /\ mailbox[c] \in Seq(Shares) /\ Len(mailbox[c]) = 0
                          /\ DOMAIN mailbox[c] = {} /\ held[c] = 0 /\ picture[c] = NoAvatar
  <2>1. <<>> \in Seq(Shares) /\ Len(<<>>) = 0
    BY EmptySeq
  <2>2. \A c \in Contacts : mailbox[c] = <<>> /\ held[c] = 0 /\ picture[c] = NoAvatar
    BY DEF Init
  <2>3. DOMAIN <<>> = {}
    OBVIOUS
  <2> QED BY <2>1, <2>2, <2>3
<1>3. TypeOK
  BY <1>1, EmptySeq DEF Init, TypeOK
<1>4. SharesAreEdits /\ NameBelongsToEdit
  BY <1>2 DEF Init, SharesAreEdits, NameBelongsToEdit
<1>5. ASSUME NEW c \in Contacts
      PROVE  NoGap(c) /\ \E was \in Histories : Leads(c, was)
  <2>1. NoGap(c)
    BY <1>2 DEF Init, NoGap
  <2>2. [e \in 0 .. MaxEdits |-> NoAvatar] \in Histories
    BY DEF Histories
  <2>3. Leads(c, [e \in 0 .. MaxEdits |-> NoAvatar])
    BY <1>1, <1>2 DEF Init, Leads
  <2> QED BY <2>1, <2>2, <2>3
<1> QED BY <1>3, <1>4, <1>5 DEF ProfileInv, NameInv, SmoothInv

(* The name a contact shows belongs to the edit it holds: see               *)
(* NameBelongsToEdit.                                                       *)
THEOREM NoOlderNameBack == Spec => []NameBelongsToEdit
<1>1. Init => NameInv
  BY InitInv DEF ProfileInv
<1>2. NameInv => NameBelongsToEdit
  BY DEF NameInv
<1> QED BY <1>1, <1>2, NameStep, PTL DEF Spec

(* No contact goes back to an older edit or applies one twice: see          *)
(* OnlyForward.                                                             *)
THEOREM ContactsOnlyForward == Spec => OnlyForward
<1> DEFINE Forward(c) == /\ held'[c] >= held[c]
                         /\ held'[c] = held[c] => shown'[c] = shown[c] /\ picture'[c] = picture[c]
<1>1. NameInv /\ [Next]_vars => [\A c \in Contacts : Forward(c)]_vars
  <2> SUFFICES ASSUME NameInv, Next, NEW c \in Contacts
               PROVE  Forward(c)
    OBVIOUS
  <2>0. TypeOK
    BY DEF NameInv
  <2>1. UNCHANGED contact => Forward(c)
    BY <2>0 DEF TypeOK, contact
  <2>2. ASSUME NEW e \in Contacts, NEW i \in DOMAIN mailbox[e], NEW again \in BOOLEAN,
             NEW gone \in BOOLEAN, Receive(e, i, again, gone)
        PROVE  Forward(c)
    <3> DEFINE share == mailbox[e][i]
    <3>1. share \in Shares
      BY <2>0, <2>2, ReceiveMailbox
    <3>2. /\ held' = [held EXCEPT ![e] = IF Newer(e, share) THEN share.edited_at_ms ELSE @]
          /\ shown' = [shown EXCEPT ![e] = IF Newer(e, share) THEN share.display_name ELSE @]
          /\ picture' = [picture EXCEPT ![e] =
                 IF Newer(e, share) THEN AvatarAction(@, share.avatar, gone) ELSE @]
      BY <2>2 DEF Receive
    <3> HIDE DEF share
    <3>3. share.edited_at_ms \in Nat \ {0} /\ held[c] \in Nat
      BY <2>0, <3>1 DEF Shares, TypeOK
    <3>4. Newer(e, share) => share.edited_at_ms > held[e]
      BY <2>0, <3>3 DEF Newer, TypeOK
    <3>5. CASE c = e /\ Newer(e, share)
      BY <2>0, <3>2, <3>3, <3>4, <3>5 DEF TypeOK
    <3>6. CASE ~(c = e /\ Newer(e, share))
      <4>1. UNCHANGED <<held[c], shown[c], picture[c]>>
        BY <2>0, <3>2, <3>6 DEF TypeOK
      <4> QED BY <4>1, <3>3
    <3> QED BY <3>5, <3>6
  <2>3. (\E e \in Contacts : \E i \in DOMAIN mailbox[e], again, gone \in BOOLEAN :
             Receive(e, i, again, gone))
        \/ UNCHANGED contact
    BY DEF Next, EditName, RemoveAvatar, SetAvatar, Edit, Resend, contact
  <2> QED BY <2>1, <2>2, <2>3
<1>2. Init => NameInv
  BY InitInv DEF ProfileInv
<1> QED BY <1>1, <1>2, NameStep, PTL DEF Spec, OnlyForward

-----------------------------------------------------------------------------
(* The avatars of whoever takes its shares in order: an edit that carries   *)
(* its avatar extends the past avatars by one, a resend names the last of   *)
(* them, and the share in front is at most one edit ahead.                  *)
LEMMA SmoothStep ==
    ASSUME ProfileInv, [Next]_vars
    PROVE  SmoothInv'
<1>0. TypeOK /\ SharesAreEdits /\ MaxEdits \in Nat
  BY ProfileAssumption DEF ProfileInv, NameInv
<1>01. \A c \in Contacts : mailbox[c] \in Seq(Shares) /\ DOMAIN mailbox[c] = 1 .. Len(mailbox[c])
                           /\ Len(mailbox[c]) \in Nat
                           /\ (mailbox[c] # <<>> <=> Len(mailbox[c]) > 0)
                           /\ \A i \in 1 .. Len(mailbox[c]) : mailbox[c][i] \in Shares
  BY <1>0, LenProperties, ElementOfSeq, EmptySeq DEF TypeOK
<1>02. TypeOK'
  BY NameStep DEF ProfileInv, NameInv
<1>03. \A c \in Contacts : DOMAIN mailbox'[c] = 1 .. Len(mailbox'[c]) /\ Len(mailbox'[c]) \in Nat
                           /\ (mailbox'[c] # <<>> <=> Len(mailbox'[c]) > 0)
  BY <1>02, LenProperties, EmptySeq DEF TypeOK
<1>04. ASSUME NEW c \in Contacts, NEW i \in 1 .. Len(mailbox[c])
       PROVE  mailbox[c][i].edited_at_ms \in 1 .. edited
  <2>1. mailbox[c][i] \in Shares /\ mailbox[c][i].edited_at_ms <= edited
    BY <1>0, <1>01 DEF SharesAreEdits
  <2> QED BY <1>0, <2>1 DEF Shares, TypeOK
<1>05. \A c \in Contacts : held[c] \in 0 .. edited
  BY <1>0 DEF TypeOK, SharesAreEdits
<1>06. ASSUME NEW d \in Contacts, NEW i \in DOMAIN mailbox[d], NEW again \in BOOLEAN,
              NEW gone \in BOOLEAN, Receive(d, i, again, gone)
       PROVE  /\ i \in 1 .. Len(mailbox[d]) /\ mailbox[d][i] \in Shares
              /\ \A e \in Contacts : e # d => mailbox'[e] = mailbox[e]
              /\ again => mailbox'[d] = mailbox[d]
              /\ ~again => /\ Len(mailbox'[d]) = Len(mailbox[d]) - 1
                           /\ \A j \in 1 .. Len(mailbox'[d]) :
                                mailbox'[d][j] = mailbox[d][IF j < i THEN j ELSE j + 1]
  BY <1>0, <1>06, ReceiveMailbox, Zenon
<1> SUFFICES ASSUME NEW c \in Contacts, smooth'[c]
             PROVE  NoGap(c)' /\ \E was \in Histories : Leads(c, was)'
  BY DEF SmoothInv
<1> DEFINE m == mailbox[c]
           at(i) == mailbox[c][i].edited_at_ms
<1>1. ASSUME NEW name \in 0 .. MaxEdits, NEW av \in Avatars \cup {NoAvatar},
             NEW wire \in Wires, NEW uploaded \in BOOLEAN, Edit(name, av, wire, uploaded),
             uploaded => Reads(avatar, wire) = av
      PROVE  NoGap(c)' /\ \E was \in Histories : Leads(c, was)'
  <2>1. /\ edited \in Nat /\ edited' = edited + 1 /\ edited' \in 1 .. MaxEdits
        /\ Len(mailbox'[c]) = Len(m) + 1
        /\ \A i \in 1 .. Len(m) : mailbox'[c][i] = m[i]
        /\ mailbox'[c][Len(m) + 1] = Share(edited', name, wire)
    BY <1>0, <1>1, EditAppends
  <2>2. /\ avatar' = av /\ held'[c] = held[c] /\ picture'[c] = picture[c]
        /\ smooth'[c] = (smooth[c] /\ uploaded)
    BY <1>1 DEF Edit, contact
  <2>3. smooth[c] /\ uploaded
    BY <2>2
  <2>4. NoGap(c)
    BY <2>3 DEF ProfileInv, SmoothInv
  <2>5. PICK was \in Histories : Leads(c, was)
    BY <2>3 DEF ProfileInv, SmoothInv
  <2>6. mailbox'[c][Len(m) + 1].edited_at_ms = edited + 1
        /\ mailbox'[c][Len(m) + 1].avatar = wire
    BY <2>1 DEF Share
  <2>7. NoGap(c)'
    <3>1. mailbox'[c] # <<>>
      BY <1>01, <1>03, <2>1
    <3>2. mailbox'[c][1].edited_at_ms <= held'[c] + 1
      <4>1. CASE m = <<>>
        BY <4>1, <1>01, <2>2, <2>4, <2>6, <2>1 DEF NoGap
      <4>2. CASE m # <<>>
        BY <4>2, <1>01, <2>1, <2>2, <2>4 DEF NoGap
      <4> QED BY <4>1, <4>2
    <3>3. ASSUME NEW i \in 1 .. Len(mailbox'[c]) - 1
          PROVE  mailbox'[c][i + 1].edited_at_ms <= mailbox'[c][i].edited_at_ms + 1
      <4>1. i \in 1 .. Len(m) /\ mailbox'[c][i] = m[i]
        BY <1>01, <2>1
      <4>2. CASE i = Len(m)
        <5>1. at(i) = edited
          BY <4>1, <4>2, <2>4, <1>01 DEF NoGap
        <5> QED BY <4>1, <4>2, <5>1, <2>6, <2>1
      <4>3. CASE i # Len(m)
        <5>1. i \in 1 .. Len(m) - 1 /\ i + 1 \in 1 .. Len(m)
          BY <4>1, <4>3, <1>01
        <5>2. mailbox'[c][i + 1] = m[i + 1]
          BY <5>1, <2>1
        <5>3. m[i + 1].edited_at_ms <= m[i].edited_at_ms + 1
          BY <5>1, <2>4 DEF NoGap
        <5> QED BY <4>1, <5>2, <5>3
      <4> QED BY <4>2, <4>3
    <3> QED BY <3>1, <3>2, <3>3, <2>1, <2>6 DEF NoGap
  <2>8. PICK now \in Histories : now = [was EXCEPT ![edited + 1] = av]
    BY DEF Histories
  <2>9. now[edited + 1] = av /\ \A e \in 0 .. edited : now[e] = was[e]
    BY <2>1, <2>8 DEF Histories
  <2>10. ASSUME NEW i \in DOMAIN mailbox'[c]
         PROVE  Reads(now[mailbox'[c][i].edited_at_ms - 1], mailbox'[c][i].avatar)
                   = now[mailbox'[c][i].edited_at_ms]
    <3>1. i \in 1 .. Len(m) + 1 /\ Len(m) \in Nat
      BY <1>01, <1>03, <2>1
    <3>2. CASE i = Len(m) + 1
      <4>1. edited + 1 - 1 = edited /\ now[edited] = avatar
        BY <2>1, <2>9, <2>5 DEF Leads
      <4>2. mailbox'[c][i].edited_at_ms = edited + 1 /\ mailbox'[c][i].avatar = wire
        BY <2>6, <3>2
      <4>3. Reads(avatar, wire) = av
        BY <1>1, <2>3
      <4>4. now[mailbox'[c][i].edited_at_ms - 1] = avatar
            /\ now[mailbox'[c][i].edited_at_ms] = av
        <5>1. mailbox'[c][i].edited_at_ms - 1 = edited
          BY <2>1, <4>2
        <5> QED BY <4>1, <4>2, <5>1, <2>9
      <4> QED BY <4>2, <4>3, <4>4
    <3>3. CASE i \in 1 .. Len(m)
      <4>1. mailbox'[c][i] = m[i] /\ at(i) \in 1 .. edited
        BY <2>1, <3>3, <1>04
      <4>2. Reads(was[at(i) - 1], m[i].avatar) = was[at(i)]
        BY <2>5, <3>3, <1>01 DEF Leads
      <4>3. now[at(i) - 1] = was[at(i) - 1] /\ now[at(i)] = was[at(i)]
        <5>1. at(i) \in 0 .. edited /\ at(i) - 1 \in 0 .. edited
          BY <2>1, <4>1
        <5> QED BY <2>9, <5>1
      <4> QED BY <4>1, <4>2, <4>3
    <3> QED BY <3>1, <3>2, <3>3
  <2>11. now[held'[c]] = picture'[c]
    BY <1>05, <2>2, <2>5, <2>9 DEF Leads
  <2>12. Leads(c, now)'
    BY <2>1, <2>2, <2>9, <2>10, <2>11 DEF Leads
  <2> QED BY <2>7, <2>8, <2>12
<1>2. ASSUME NEW d \in Contacts, Resend(d)
      PROVE  NoGap(c)' /\ \E was \in Histories : Leads(c, was)'
  <2>1. PICK wire \in Wires :
           /\ edited > 0 /\ Name = names[edited]
           /\ Carries(wire, avatar) /\ \A now : Reads(now, wire) = avatar
           /\ mailbox' \in [Contacts -> Seq(Shares)]
           /\ \A e \in Contacts : e # d => mailbox'[e] = mailbox[e]
           /\ Len(mailbox'[d]) = Len(mailbox[d]) + 1
           /\ \A i \in 1 .. Len(mailbox[d]) : mailbox'[d][i] = mailbox[d][i]
           /\ mailbox'[d][Len(mailbox[d]) + 1] = Share(edited, Name, wire)
    BY <1>0, <1>2, ResendAppends
  <2>2. UNCHANGED <<edited, avatar, names, avatars, held, shown, picture, took, smooth>>
    BY <1>2 DEF Resend, sender, contact
  <2>3. NoGap(c)
    BY <2>2 DEF ProfileInv, SmoothInv
  <2>4. PICK was \in Histories : Leads(c, was)
    BY <2>2 DEF ProfileInv, SmoothInv
  <2>5. CASE c # d
    <3>1. UNCHANGED <<mailbox[c], held[c], picture[c]>>
      BY <2>1, <2>2, <2>5
    <3> QED BY <2>2, <2>3, <2>4, <3>1 DEF NoGap, Leads
  <2>6. CASE c = d
    <3>1. mailbox'[c][Len(m) + 1].edited_at_ms = edited
          /\ mailbox'[c][Len(m) + 1].avatar = wire
      BY <2>1, <2>6 DEF Share
    <3>2. Len(mailbox'[c]) = Len(m) + 1 /\ \A i \in 1 .. Len(m) : mailbox'[c][i] = m[i]
      BY <2>1, <2>6
    <3>3. edited \in Nat /\ held[c] \in 0 .. edited
      BY <1>0, <1>05 DEF TypeOK
    <3>4. NoGap(c)'
      <4>1. mailbox'[c] # <<>>
        BY <1>01, <1>03, <3>2
      <4>2. mailbox'[c][1].edited_at_ms <= held'[c] + 1
        <5>1. CASE m = <<>>
          BY <5>1, <1>01, <2>2, <2>3, <3>1, <3>3 DEF NoGap
        <5>2. CASE m # <<>>
          BY <5>2, <1>01, <2>2, <2>3, <3>2 DEF NoGap
        <5> QED BY <5>1, <5>2
      <4>3. ASSUME NEW i \in 1 .. Len(mailbox'[c]) - 1
            PROVE  mailbox'[c][i + 1].edited_at_ms <= mailbox'[c][i].edited_at_ms + 1
        <5>1. i \in 1 .. Len(m) /\ mailbox'[c][i] = m[i]
          BY <1>01, <3>2
        <5>2. CASE i = Len(m)
          <6>1. at(i) = edited
            BY <5>1, <5>2, <2>3, <1>01 DEF NoGap
          <6> QED BY <5>1, <5>2, <6>1, <3>1, <3>3
        <5>3. CASE i # Len(m)
          <6>1. i \in 1 .. Len(m) - 1 /\ i + 1 \in 1 .. Len(m)
            BY <5>1, <5>3, <1>01
          <6>2. mailbox'[c][i + 1] = m[i + 1]
            BY <6>1, <3>2
          <6>3. m[i + 1].edited_at_ms <= m[i].edited_at_ms + 1
            BY <6>1, <2>3 DEF NoGap
          <6> QED BY <5>1, <6>2, <6>3
        <5> QED BY <5>2, <5>3
      <4> QED BY <4>1, <4>2, <4>3, <2>2, <3>1, <3>2 DEF NoGap
    <3>5. ASSUME NEW i \in DOMAIN mailbox'[c]
          PROVE  Reads(was[mailbox'[c][i].edited_at_ms - 1], mailbox'[c][i].avatar)
                    = was[mailbox'[c][i].edited_at_ms]
      <4>1. i \in 1 .. Len(m) + 1 /\ Len(m) \in Nat
        BY <1>01, <1>03, <3>2
      <4>2. CASE i = Len(m) + 1
        BY <4>2, <2>1, <2>4, <3>1 DEF Leads
      <4>3. CASE i \in 1 .. Len(m)
        BY <4>3, <1>01, <2>4, <3>2 DEF Leads
      <4> QED BY <4>1, <4>2, <4>3
    <3>6. Leads(c, was)'
      BY <2>2, <2>4, <3>5 DEF Leads
    <3> QED BY <3>4, <3>6
  <2> QED BY <2>5, <2>6
<1>3. ASSUME NEW d \in Contacts, NEW i \in DOMAIN mailbox[d], NEW again \in BOOLEAN,
             NEW gone \in BOOLEAN, Receive(d, i, again, gone)
      PROVE  NoGap(c)' /\ \E was \in Histories : Leads(c, was)'
  <2> DEFINE share == mailbox[d][i]
  <2>1. /\ i \in 1 .. Len(mailbox[d]) /\ share \in Shares
        /\ \A e \in Contacts : e # d => mailbox'[e] = mailbox[e]
        /\ again => mailbox'[d] = mailbox[d]
        /\ ~again => /\ Len(mailbox'[d]) = Len(mailbox[d]) - 1
                     /\ \A j \in 1 .. Len(mailbox'[d]) :
                          mailbox'[d][j] = mailbox[d][IF j < i THEN j ELSE j + 1]
    BY <1>06, <1>3
  <2>2. /\ held' = [held EXCEPT ![d] = IF Newer(d, share) THEN share.edited_at_ms ELSE @]
        /\ picture' = [picture EXCEPT ![d] =
               IF Newer(d, share) THEN AvatarAction(@, share.avatar, gone) ELSE @]
        /\ smooth' = [smooth EXCEPT ![d] = @ /\ i = 1 /\ ~gone]
        /\ UNCHANGED <<edited, avatar, names, avatars>>
    BY <1>3 DEF Receive, sender
  <2> HIDE DEF share
  <2>3. smooth[c] /\ (c = d => i = 1 /\ gone = FALSE)
    BY <1>0, <2>2 DEF TypeOK
  <2>4. NoGap(c)
    BY <2>3 DEF ProfileInv, SmoothInv
  <2>5. PICK was \in Histories : Leads(c, was)
    BY <2>3 DEF ProfileInv, SmoothInv
  <2>6. CASE c # d
    <3>1. UNCHANGED <<mailbox[c], held[c], picture[c]>>
      BY <1>0, <2>1, <2>2, <2>6 DEF TypeOK
    <3> QED BY <2>2, <2>4, <2>5, <3>1 DEF NoGap, Leads
  <2>7. CASE c = d
    <3>1. share = m[1] /\ Len(m) >= 1 /\ m # <<>> /\ 1 \in DOMAIN m
      BY <1>01, <2>1, <2>3, <2>7 DEF share
    <3>2. at(1) \in 1 .. edited /\ held[c] \in 0 .. edited /\ edited \in Nat
      BY <1>0, <1>01, <1>04, <1>05, <3>1 DEF TypeOK
    <3>3. at(1) <= held[c] + 1 /\ m[Len(m)].edited_at_ms = edited
      BY <2>4, <3>1 DEF NoGap
    <3>4. Newer(c, share) <=> at(1) > held[c]
      BY <3>1, <3>2 DEF Newer
    <3>5. /\ held'[c] = IF Newer(c, share) THEN at(1) ELSE held[c]
          /\ picture'[c] = IF Newer(c, share) THEN Reads(picture[c], m[1].avatar)
                                               ELSE picture[c]
      BY <1>0, <2>2, <2>3, <2>7, <3>1 DEF TypeOK, Reads
    <3>6. held'[c] \in held[c] .. edited /\ held'[c] >= at(1)
      BY <3>2, <3>4, <3>5
    <3>7. picture'[c] = was[held'[c]]
      <4>1. picture[c] = was[held[c]] /\ Reads(was[at(1) - 1], m[1].avatar) = was[at(1)]
        BY <2>5, <3>1 DEF Leads
      <4>2. CASE Newer(c, share)
        <5>1. at(1) - 1 = held[c]
          BY <3>2, <3>3, <3>4, <4>2
        <5> QED BY <3>5, <4>1, <4>2, <5>1
      <4>3. CASE ~Newer(c, share)
        BY <3>5, <4>1, <4>3
      <4> QED BY <4>2, <4>3
    <3>8. CASE again
      <4>1. mailbox'[c] = m
        BY <2>1, <2>7, <3>8
      <4>2. NoGap(c)'
        BY <2>2, <2>4, <3>1, <3>2, <3>3, <3>6, <4>1 DEF NoGap
      <4>3. Leads(c, was)'
        BY <2>2, <2>5, <3>7, <4>1 DEF Leads
      <4> QED BY <4>2, <4>3
    <3>9. CASE ~again
      <4>1. Len(mailbox'[c]) = Len(m) - 1 /\ Len(m) \in Nat
            /\ \A j \in 1 .. Len(mailbox'[c]) : mailbox'[c][j] = m[j + 1]
        <5>1. ASSUME NEW j \in 1 .. Len(mailbox'[c]) PROVE ~(j < i)
          BY <2>3, <2>7
        <5> QED BY <1>01, <2>1, <2>7, <3>9, <5>1
      <4>2. NoGap(c)'
        <5>1. mailbox'[c] = <<>> => held'[c] = edited
          <6> SUFFICES ASSUME mailbox'[c] = <<>> PROVE held'[c] = edited
            OBVIOUS
          <6>1. Len(m) = 1
            BY <1>03, <3>1, <4>1
          <6> QED BY <6>1, <3>2, <3>3, <3>6
        <5>2. ASSUME mailbox'[c] # <<>>
              PROVE  /\ mailbox'[c][1].edited_at_ms <= held'[c] + 1
                     /\ mailbox'[c][Len(mailbox'[c])].edited_at_ms = edited
          <6>1. Len(mailbox'[c]) \in 1 .. Len(m) - 1
            BY <5>2, <1>03, <4>1
          <6>2. mailbox'[c][Len(mailbox'[c])] = m[Len(m)]
            BY <6>1, <4>1
          <6>3. 1 \in 1 .. Len(m) - 1 /\ 2 \in 1 .. Len(m) /\ 1 + 1 = 2
                /\ mailbox'[c][1] = m[1 + 1]
            BY <6>1, <4>1
          <6>4. at(2) <= at(1) + 1
            BY <6>3, <2>4 DEF NoGap
          <6>5. at(2) \in 1 .. edited
            BY <6>3, <1>04
          <6>6. at(2) <= held'[c] + 1
            BY <6>4, <6>5, <3>2, <3>6
          <6> QED BY <6>2, <6>3, <6>6, <3>3
        <5>3. ASSUME NEW j \in 1 .. Len(mailbox'[c]) - 1
              PROVE  mailbox'[c][j + 1].edited_at_ms <= mailbox'[c][j].edited_at_ms + 1
          <6>1. j + 1 \in 1 .. Len(m) - 1 /\ j + 1 \in 1 .. Len(mailbox'[c])
                /\ j \in 1 .. Len(mailbox'[c])
            BY <4>1
          <6>2. m[(j + 1) + 1].edited_at_ms <= m[j + 1].edited_at_ms + 1
            BY <6>1, <2>4 DEF NoGap
          <6>3. mailbox'[c][j] = m[j + 1] /\ mailbox'[c][j + 1] = m[(j + 1) + 1]
            BY <6>1, <4>1
          <6> QED BY <6>2, <6>3
        <5> QED BY <2>2, <5>1, <5>2, <5>3 DEF NoGap
      <4>3. Leads(c, was)'
        <5>1. ASSUME NEW j \in DOMAIN mailbox'[c]
              PROVE  Reads(was[mailbox'[c][j].edited_at_ms - 1], mailbox'[c][j].avatar)
                        = was[mailbox'[c][j].edited_at_ms]
          <6>2. j \in 1 .. Len(mailbox'[c])
            BY <1>03
          <6>3. j + 1 \in 1 .. Len(m)
            BY <4>1, <6>2
          <6>1. mailbox'[c][j] = m[j + 1] /\ j + 1 \in DOMAIN m
            BY <1>01, <4>1, <6>2, <6>3
          <6> QED BY <6>1, <2>5 DEF Leads
        <5> QED BY <2>2, <2>5, <3>7, <5>1 DEF Leads
      <4> QED BY <4>2, <4>3
    <3> QED BY <3>8, <3>9
  <2> QED BY <2>6, <2>7
<1>4. CASE UNCHANGED vars
  BY <1>4 DEF vars, sender, contact, ProfileInv, SmoothInv, NoGap, Leads
<1> QED BY <1>0, <1>1, <1>2, <1>3, <1>4, EditKinds DEF Next

(* A contact that took every share in order shows the profile once it holds *)
(* the last edit: see CaughtUpShowsProfile.                                 *)
THEOREM InOrderShowsProfile == Spec => []CaughtUpShowsProfile
<1>1. ProfileInv /\ [Next]_vars => ProfileInv'
  BY NameStep, SmoothStep DEF ProfileInv
<1>2. ProfileInv => CaughtUpShowsProfile
  <2> SUFFICES ASSUME ProfileInv, NEW c \in Contacts, smooth[c], held[c] = edited, edited > 0
               PROVE  shown[c] = Name /\ picture[c] = avatar
    BY DEF CaughtUpShowsProfile
  <2>1. TypeOK /\ NameBelongsToEdit
    BY DEF ProfileInv, NameInv
  <2>2. names # <<>> /\ Len(names) = edited
    BY <2>1, EmptySeq DEF TypeOK
  <2>3. shown[c] = Name
    BY <2>1, <2>2 DEF NameBelongsToEdit, Name
  <2>4. picture[c] = avatar
    BY DEF ProfileInv, SmoothInv, Leads
  <2> QED BY <2>3, <2>4
<1> QED BY <1>1, <1>2, InitInv, PTL DEF Spec

-----------------------------------------------------------------------------
(* The pictures, whatever the order and whatever was lost.                  *)

(* A set of naturals with 0 in it and closed under successor is Nat.        *)
LEMMA SetInduction ==
    ASSUME NEW T, T \subseteq Nat, 0 \in T, \A n \in T : n + 1 \in T
    PROVE  T = Nat
<1> SUFFICES ASSUME Nat \ T # {} PROVE FALSE
  OBVIOUS
<1> DEFINE R == OpToRel(<, Nat)
           U == Nat \ T
<1>1. IsWellFoundedOn(R, Nat)
  BY NatLessThanWellFounded, Zenon
<1>2. \E x \in U : \A y \in U : ~(<<y, x>> \in R)
  <2>1. U \subseteq Nat /\ U # {}
    OBVIOUS
  <2> HIDE DEF R, U
  <2> QED BY <1>1, <2>1, WFMin
<1>3. PICK x \in U : \A y \in U : ~(<<y, x>> \in R)
  BY <1>2, Zenon
<1>4. \A y \in U : ~(y < x)
  BY <1>3 DEF OpToRel
<1>5. x # 0 /\ x - 1 \in Nat /\ (x - 1) + 1 = x
  OBVIOUS
<1>6. x - 1 \in T
  BY <1>4, <1>5
<1> QED BY <1>5, <1>6

(* What did not change at any edit from a to b is the same after both. *)
LEMMA SameThroughout ==
    ASSUME NEW a \in Nat, NEW b \in Nat, a <= b,
           \A e \in a + 1 .. b : AvatarOf(e) = AvatarOf(e - 1)
    PROVE  AvatarOf(b) = AvatarOf(a)
<1> DEFINE T == {n \in Nat : a + n <= b => AvatarOf(a + n) = AvatarOf(a)}
<1>1. 0 \in T
  BY a + 0 = a
<1>2. ASSUME NEW n \in T PROVE n + 1 \in T
  <2> SUFFICES ASSUME a + (n + 1) <= b PROVE AvatarOf(a + (n + 1)) = AvatarOf(a)
    OBVIOUS
  <2> DEFINE e == a + (n + 1)
  <2>1. e \in a + 1 .. b /\ e - 1 = a + n /\ a + n <= b
    OBVIOUS
  <2>2. AvatarOf(a + n) = AvatarOf(a)
    BY <2>1
  <2>3. AvatarOf(e) = AvatarOf(e - 1)
    BY <2>1
  <2> HIDE DEF e
  <2>4. AvatarOf(e) = AvatarOf(a)
    BY <2>1, <2>2, <2>3
  <2> QED BY <2>4 DEF e
<1> HIDE DEF T
<1>3. T = Nat
  <2>1. T \subseteq Nat
    BY DEF T
  <2> QED BY <1>1, <1>2, <2>1, SetInduction
<1>4. b - a \in T /\ a + (b - a) = b
  BY <1>3
<1> QED BY <1>4 DEF T

(* A picture is the avatar of the edit it was taken from, at or before the  *)
(* one held, and a share that sets or removes an avatar says that of its    *)
(* edit.                                                                    *)
PictureInv ==
    /\ avatar = AvatarOf(edited)
    /\ \A c \in Contacts :
          /\ took[c] <= held[c] /\ picture[c] = AvatarOf(took[c])
          /\ \A i \in DOMAIN mailbox[c] :
                Carries(mailbox[c][i].avatar, AvatarOf(mailbox[c][i].edited_at_ms))

(* Edits extend the avatars of the past, a resend names the last of them,   *)
(* and a contact takes a picture only together with its edit.               *)
LEMMA PictureStep ==
    ASSUME NameInv, PictureInv, [Next]_vars
    PROVE  PictureInv'
<1>0. TypeOK /\ SharesAreEdits /\ MaxEdits \in Nat
  BY ProfileAssumption DEF NameInv
<1>01. \A c \in Contacts : /\ DOMAIN mailbox[c] = 1 .. Len(mailbox[c]) /\ Len(mailbox[c]) \in Nat
                           /\ held[c] \in Nat /\ took[c] \in Nat /\ held[c] <= edited
                           /\ \A i \in 1 .. Len(mailbox[c]) :
                                 mailbox[c][i].edited_at_ms \in 1 .. edited
  <2> SUFFICES ASSUME NEW c \in Contacts
               PROVE  /\ DOMAIN mailbox[c] = 1 .. Len(mailbox[c]) /\ Len(mailbox[c]) \in Nat
                      /\ held[c] \in Nat /\ took[c] \in Nat /\ held[c] <= edited
                      /\ \A i \in 1 .. Len(mailbox[c]) :
                            mailbox[c][i].edited_at_ms \in 1 .. edited
    OBVIOUS
  <2>1. mailbox[c] \in Seq(Shares) /\ held[c] \in 0 .. MaxEdits /\ took[c] \in 0 .. MaxEdits
        /\ edited \in 0 .. MaxEdits
    BY <1>0 DEF TypeOK
  <2>2. /\ DOMAIN mailbox[c] = 1 .. Len(mailbox[c]) /\ Len(mailbox[c]) \in Nat
        /\ \A i \in 1 .. Len(mailbox[c]) : mailbox[c][i] \in Shares
    BY <2>1, LenProperties, ElementOfSeq
  <2>3. \A i \in 1 .. Len(mailbox[c]) : mailbox[c][i].edited_at_ms \in 1 .. MaxEdits
    BY <2>2 DEF Shares
  <2>4. held[c] <= edited /\ \A i \in DOMAIN mailbox[c] : mailbox[c][i].edited_at_ms <= edited
    BY <1>0 DEF SharesAreEdits
  <2> QED BY <1>0, <2>1, <2>2, <2>3, <2>4
<1>02. \A c \in Contacts : DOMAIN mailbox'[c] = 1 .. Len(mailbox'[c]) /\ Len(mailbox'[c]) \in Nat
  <2>1. mailbox' \in [Contacts -> Seq(Shares)]
    BY NameStep DEF NameInv, TypeOK
  <2> QED BY <2>1, LenProperties
<1>1. ASSUME NEW name \in 0 .. MaxEdits, NEW av \in Avatars \cup {NoAvatar},
             NEW wire \in Wires, NEW uploaded \in BOOLEAN, Edit(name, av, wire, uploaded),
             Carries(wire, av)
      PROVE  PictureInv'
  <2>1. /\ edited \in Nat /\ edited' = edited + 1
        /\ avatars'[edited'] = av
        /\ \A e \in 1 .. edited : avatars'[e] = avatars[e]
        /\ \A c \in Contacts :
             /\ Len(mailbox'[c]) = Len(mailbox[c]) + 1
             /\ \A i \in 1 .. Len(mailbox[c]) : mailbox'[c][i] = mailbox[c][i]
             /\ mailbox'[c][Len(mailbox[c]) + 1] = Share(edited', name, wire)
    BY <1>0, <1>1, EditAppends
  <2>2. avatar' = av /\ UNCHANGED <<held, took, picture>>
    BY <1>1 DEF Edit, contact
  <2>3. (avatar = AvatarOf(edited))'
    BY <2>1, <2>2 DEF AvatarOf
  <2>4. ASSUME NEW c \in Contacts
        PROVE  (took[c] <= held[c] /\ picture[c] = AvatarOf(took[c]))'
    <3>1. took[c] <= held[c] /\ picture[c] = AvatarOf(took[c])
      BY DEF PictureInv
    <3>2. took[c] \in 0 .. edited
      BY <1>01, <2>1, <3>1
    <3>3. took'[c] = took[c] /\ held'[c] = held[c] /\ picture'[c] = picture[c]
      BY <2>2
    <3>4. AvatarOf(took[c])' = AvatarOf(took[c])
      BY <2>1, <3>2, <3>3 DEF AvatarOf
    <3> QED BY <3>1, <3>3, <3>4
  <2>5. ASSUME NEW c \in Contacts, NEW i \in DOMAIN mailbox'[c]
        PROVE  Carries(mailbox'[c][i].avatar, AvatarOf(mailbox[c][i].edited_at_ms)')
    <3>1. i \in 1 .. Len(mailbox[c]) + 1 /\ Len(mailbox[c]) \in Nat
      BY <1>01, <1>02, <2>1
    <3>2. CASE i = Len(mailbox[c]) + 1
      <4>1. mailbox'[c][i].avatar = wire /\ mailbox'[c][i].edited_at_ms = edited'
        BY <2>1, <3>2 DEF Share
      <4>2. AvatarOf(mailbox[c][i].edited_at_ms)' = av
        BY <2>1, <4>1 DEF AvatarOf
      <4> QED BY <1>1, <4>1, <4>2 DEF Carries
    <3>3. CASE i \in 1 .. Len(mailbox[c])
      <4> DEFINE at == mailbox[c][i].edited_at_ms
      <4>1. mailbox'[c][i] = mailbox[c][i] /\ at \in 0 .. edited
        BY <1>01, <2>1, <3>3
      <4>2. Carries(mailbox[c][i].avatar, AvatarOf(at))
        BY <1>01, <3>3 DEF PictureInv
      <4>3. AvatarOf(mailbox[c][i].edited_at_ms)' = AvatarOf(at)
        BY <2>1, <4>1 DEF AvatarOf
      <4> QED BY <4>1, <4>2, <4>3 DEF Carries
    <3> QED BY <3>1, <3>2, <3>3
  <2> QED BY <2>3, <2>4, <2>5 DEF PictureInv, Carries
<1>2. ASSUME NEW d \in Contacts, Resend(d)
      PROVE  PictureInv'
  <2>1. PICK wire \in Wires :
           /\ edited > 0 /\ Name = names[edited]
           /\ Carries(wire, avatar) /\ \A now : Reads(now, wire) = avatar
           /\ mailbox' \in [Contacts -> Seq(Shares)]
           /\ \A e \in Contacts : e # d => mailbox'[e] = mailbox[e]
           /\ Len(mailbox'[d]) = Len(mailbox[d]) + 1
           /\ \A i \in 1 .. Len(mailbox[d]) : mailbox'[d][i] = mailbox[d][i]
           /\ mailbox'[d][Len(mailbox[d]) + 1] = Share(edited, Name, wire)
    BY <1>0, <1>2, ResendAppends
  <2>2. UNCHANGED <<edited, avatar, avatars, held, took, picture>>
    BY <1>2 DEF Resend, sender, contact
  <2>3. ASSUME NEW c \in Contacts, NEW i \in DOMAIN mailbox'[c]
        PROVE  Carries(mailbox'[c][i].avatar, AvatarOf(mailbox'[c][i].edited_at_ms))
    <3>1. CASE c # d
      BY <2>1, <3>1 DEF PictureInv
    <3>2. CASE c = d /\ i = Len(mailbox[d]) + 1
      <4>1. mailbox'[c][i].avatar = wire /\ mailbox'[c][i].edited_at_ms = edited
        BY <2>1, <3>2 DEF Share
      <4>2. AvatarOf(edited) = avatar
        BY DEF PictureInv
      <4> QED BY <2>1, <4>1, <4>2
    <3>3. CASE c = d /\ i \in 1 .. Len(mailbox[d])
      BY <1>01, <2>1, <3>3 DEF PictureInv
    <3>4. c = d => i \in 1 .. Len(mailbox[d]) + 1 /\ Len(mailbox[d]) \in Nat
      BY <1>01, <1>02, <2>1
    <3> QED BY <3>1, <3>2, <3>3, <3>4
  <2> QED BY <2>2, <2>3 DEF PictureInv, AvatarOf
<1>3. ASSUME NEW d \in Contacts, NEW i \in DOMAIN mailbox[d], NEW again \in BOOLEAN,
             NEW gone \in BOOLEAN, Receive(d, i, again, gone)
      PROVE  PictureInv'
  <2> DEFINE share == mailbox[d][i]
             at == mailbox[d][i].edited_at_ms
  <2>1. /\ i \in 1 .. Len(mailbox[d]) /\ share \in Shares
        /\ \A e \in Contacts : e # d => mailbox'[e] = mailbox[e]
        /\ again => mailbox'[d] = mailbox[d]
        /\ ~again => /\ Len(mailbox'[d]) = Len(mailbox[d]) - 1
                     /\ \A j \in 1 .. Len(mailbox'[d]) :
                          mailbox'[d][j] = mailbox[d][IF j < i THEN j ELSE j + 1]
    BY <1>0, <1>3, ReceiveMailbox, Zenon
  <2>2. /\ held' = [held EXCEPT ![d] = IF Newer(d, share) THEN at ELSE @]
        /\ picture' = [picture EXCEPT ![d] =
               IF Newer(d, share) THEN AvatarAction(@, share.avatar, gone) ELSE @]
        /\ took' = [took EXCEPT ![d] = IF TakesAvatar(d, share, gone) THEN at ELSE @]
        /\ UNCHANGED <<edited, avatar, avatars>>
    BY <1>3 DEF Receive, sender
  <2>3. Carries(share.avatar, AvatarOf(at)) /\ at \in 1 .. edited
    BY <1>01, <2>1 DEF PictureInv
  <2>4. ASSUME NEW c \in Contacts
        PROVE  took'[c] <= held'[c] /\ picture'[c] = AvatarOf(took'[c])
    <3>1. took[c] <= held[c] /\ picture[c] = AvatarOf(took[c])
      BY DEF PictureInv
    <3>2. CASE c # d \/ ~Newer(d, share)
      BY <1>0, <2>2, <3>1, <3>2 DEF TypeOK, TakesAvatar
    <3>3. CASE c = d /\ Newer(d, share)
      <4>1. /\ held'[c] = at /\ at > held[c]
            /\ picture'[c] = AvatarAction(picture[c], share.avatar, gone)
            /\ took'[c] = IF ~gone /\ share.avatar \in Avatars \cup {"removed"} THEN at ELSE took[c]
        BY <1>0, <1>01, <2>2, <2>3, <3>3 DEF TypeOK, Newer, TakesAvatar
      <4>2. CASE ~gone /\ share.avatar \in Avatars \cup {"removed"}
        <5>1. AvatarAction(picture[c], share.avatar, gone) = AvatarOf(at)
          BY <2>3, <4>2, ProfileAssumption DEF AvatarAction, Carries
        <5> QED BY <2>3, <4>1, <4>2, <5>1
      <4>3. CASE ~(~gone /\ share.avatar \in Avatars \cup {"removed"})
        <5>1. gone => share.avatar \in Avatars
          BY <1>3 DEF Receive, MayBeGone
        <5>2. AvatarAction(picture[c], share.avatar, gone) = picture[c]
          BY <4>3, <5>1, ProfileAssumption DEF AvatarAction
        <5>3. took'[c] = took[c]
          BY <4>1, <4>3
        <5> QED BY <1>01, <2>3, <3>1, <4>1, <5>2, <5>3
      <4> QED BY <4>2, <4>3
    <3> QED BY <3>2, <3>3
  <2>5. ASSUME NEW c \in Contacts, NEW j \in DOMAIN mailbox'[c]
        PROVE  Carries(mailbox'[c][j].avatar, AvatarOf(mailbox'[c][j].edited_at_ms))
    <3>1. CASE c # d \/ again
      BY <2>1, <3>1 DEF PictureInv
    <3>2. CASE c = d /\ ~again
      <4> DEFINE k == IF j < i THEN j ELSE j + 1
      <4>1. j \in 1 .. Len(mailbox'[d])
        BY <1>02, <3>2
      <4>2. k \in DOMAIN mailbox[d]
        BY <1>01, <2>1, <3>2, <4>1
      <4>3. mailbox'[d][j] = mailbox[d][k]
        BY <2>1, <3>2, <4>1
      <4> HIDE DEF k
      <4> QED BY <3>2, <4>2, <4>3 DEF PictureInv
    <3> QED BY <3>1, <3>2
  <2> QED BY <2>2, <2>4, <2>5 DEF PictureInv, AvatarOf
<1>4. CASE UNCHANGED vars
  BY <1>4 DEF vars, sender, contact, PictureInv, AvatarOf
<1> QED BY <1>0, <1>1, <1>2, <1>3, <1>4, EditKinds DEF Next

(* A picture goes wrong only by a change of the avatar that did not get     *)
(* through: see StaleAvatarWasMissed.                                       *)
THEOREM PicturesStayRight == Spec => []StaleAvatarWasMissed
<1>1. Init => NameInv /\ PictureInv
  <2> SUFFICES ASSUME Init PROVE PictureInv
    BY InitInv DEF ProfileInv
  <2>1. avatar = AvatarOf(edited)
    BY DEF Init, AvatarOf
  <2>2. ASSUME NEW c \in Contacts
        PROVE  took[c] = 0 /\ held[c] = 0 /\ picture[c] = NoAvatar /\ DOMAIN mailbox[c] = {}
    <3>1. mailbox[c] = <<>> /\ took[c] = 0 /\ held[c] = 0 /\ picture[c] = NoAvatar
      BY DEF Init
    <3> QED BY <3>1
  <2> QED BY <2>1, <2>2 DEF PictureInv, AvatarOf
<1>2. NameInv /\ PictureInv => StaleAvatarWasMissed
  <2> SUFFICES ASSUME NameInv, PictureInv, NEW c \in Contacts,
                      \A e \in took[c] + 1 .. held[c] : AvatarOf(e) = AvatarOf(e - 1)
               PROVE  picture[c] = AvatarOf(held[c])
    BY DEF StaleAvatarWasMissed
  <2>1. took[c] \in Nat /\ held[c] \in Nat
    BY DEF NameInv, TypeOK
  <2>2. took[c] <= held[c] /\ picture[c] = AvatarOf(took[c])
    BY DEF PictureInv
  <2> QED BY <2>1, <2>2, SameThroughout
<1> QED BY <1>1, <1>2, NameStep, PictureStep, PTL DEF Spec

=============================================================================
