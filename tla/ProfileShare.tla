---------------------------- MODULE ProfileShare ----------------------------
(***************************************************************************)
(* CONTENT_TYPE_PROFILE (29): one sender's display name and avatar, shared *)
(* with its contacts (conformance/check_profile_share.py, ProfileShare in  *)
(* core/envelope.proto).  A profile carries the time of the last edit; a   *)
(* contact applies it only if that is newer than what it holds.  Names are *)
(* told apart by the edit that chose them.                                 *)
(***************************************************************************)
EXTENDS Naturals, Sequences

CONSTANTS
    Contacts,       \* who the profile is shared with
    Avatars,        \* avatars the sender may choose
    MaxEdits,       \* bound: edits of the profile
    MaxQueue        \* bound: shares waiting in one mailbox

ASSUME ProfileAssumption ==
    /\ MaxEdits \in Nat /\ MaxQueue \in Nat
    /\ Avatars \cap {"no avatar", "removed", "unchanged", "short_key"} = {}

VARIABLES
    edited,     \* edited_at_ms of the sender's profile (0: never edited)
    avatar,     \* the sender's avatar
    mailbox,    \* mailbox[c]: shares under way to contact c
    held,       \* held[c]: the edited_at_ms contact c applied last (0: none)
    shown,      \* shown[c]: the name contact c shows (the edit that chose it)
    picture,    \* picture[c]: the avatar contact c shows
    names,      \* history: names[i], the name after edit i
    avatars,    \* history: avatars[i], the avatar after edit i
    took,       \* history: took[c], the last edit whose avatar c took (0: none)
    smooth      \* history: smooth[c], c was sent and found every avatar and took shares in order

sender == <<edited, avatar, names, avatars>>
contact == <<held, shown, picture, took>>
vars == <<sender, mailbox, contact, smooth>>

NoAvatar == "no avatar"
Share(at, name, av) == [edited_at_ms |-> at, display_name |-> name, avatar |-> av]

Shares == [edited_at_ms : 1 .. MaxEdits, display_name : 0 .. MaxEdits,
           avatar : Avatars \cup {"removed", "unchanged", "short_key"}]

TypeOK ==
    /\ edited \in 0 .. MaxEdits
    /\ names \in Seq(0 .. MaxEdits) /\ Len(names) = edited
    /\ avatars \in Seq(Avatars \cup {NoAvatar}) /\ Len(avatars) = edited
    /\ avatar \in Avatars \cup {NoAvatar}
    /\ mailbox \in [Contacts -> Seq(Shares)]
    /\ held \in [Contacts -> 0 .. MaxEdits] /\ shown \in [Contacts -> 0 .. MaxEdits]
    /\ picture \in [Contacts -> Avatars \cup {NoAvatar}]
    /\ took \in [Contacts -> 0 .. MaxEdits] /\ smooth \in [Contacts -> BOOLEAN]

Init ==
    /\ edited = 0 /\ names = <<>> /\ avatar = NoAvatar /\ avatars = <<>>
    /\ mailbox = [c \in Contacts |-> <<>>]
    /\ held = [c \in Contacts |-> 0] /\ shown = [c \in Contacts |-> 0]
    /\ picture = [c \in Contacts |-> NoAvatar]
    /\ took = [c \in Contacts |-> 0] /\ smooth = [c \in Contacts |-> TRUE]

-----------------------------------------------------------------------------
Name == IF names = <<>> THEN 0 ELSE names[Len(names)]

(* The sender's edit goes out to every contact. *)
Edit(name, av, wire, uploaded) ==
    /\ edited < MaxEdits
    /\ \A c \in Contacts : Len(mailbox[c]) < MaxQueue
    /\ edited' = edited + 1
    /\ names' = Append(names, name)
    /\ avatar' = av /\ avatars' = Append(avatars, av)
    /\ mailbox' = [c \in Contacts |-> Append(mailbox[c], Share(edited + 1, name, wire))]
    /\ smooth' = [c \in Contacts |-> smooth[c] /\ uploaded]
    /\ UNCHANGED contact

EditName == Edit(edited + 1, avatar, "unchanged", TRUE)

(* A new avatar is uploaded first.  If that fails the share cannot name it; *)
(* a media key that is not 32 bytes reads as if it had failed.              *)
SetAvatar(a) ==
    /\ a # avatar
    /\ \E wire \in {a, "unchanged", "short_key"} : Edit(Name, a, wire, wire = a)

RemoveAvatar == avatar # NoAvatar /\ Edit(Name, NoAvatar, "removed", TRUE)

(* The profile is sent to one contact again, or to a new one for the first  *)
(* time: it carries the same edited_at_ms, and the avatar as it is now.     *)
Resend(c) ==
    /\ edited > 0 /\ Len(mailbox[c]) < MaxQueue
    /\ mailbox' = [mailbox EXCEPT ![c] = Append(@,
           Share(edited, Name, IF avatar = NoAvatar THEN "removed" ELSE avatar))]
    /\ UNCHANGED <<sender, contact, smooth>>

(* Mutant: equal counts as newer. *)
NewerOrSame(c, share) == held[c] = 0 \/ share.edited_at_ms >= held[c]

(* A profile is applied only if it is strictly newer than the one held. *)
Newer(c, share) == held[c] = 0 \/ share.edited_at_ms > held[c]

(* Mutant: an absent avatar is read as removed. *)
AvatarActionAbsentClears(now, wire, gone) ==
    IF wire \in Avatars THEN IF gone THEN now ELSE wire ELSE NoAvatar

(* Mutant: an avatar that cannot be shown, its media gone or its key short,  *)
(* leaves none.                                                             *)
AvatarActionGoneClears(now, wire, gone) ==
    CASE wire \in Avatars /\ ~gone -> wire
      [] wire = "unchanged" -> now
      [] OTHER -> NoAvatar

(* set: download and replace, but keep if the media is gone; removed:       *)
(* clear; absent, or a key that is not 32 bytes: keep.                      *)
AvatarAction(now, wire, gone) ==
    CASE wire \in Avatars /\ ~gone -> wire
      [] wire = "removed" -> NoAvatar
      [] OTHER -> now

(* The media of an avatar outlives neither its TTL nor a failing download. *)
MayBeGone(c, share) == Newer(c, share) /\ share.avatar \in Avatars

TakesAvatar(c, share, gone) ==
    Newer(c, share) /\ ~gone /\ share.avatar \in Avatars \cup {"removed"}

(* Mutant: the name of an older share is taken, and only its avatar ignored. *)
ReceiveAnyName(c, i, again, gone) ==
    LET share == mailbox[c][i] IN
    /\ gone => MayBeGone(c, share)
    /\ mailbox' = [mailbox EXCEPT ![c] =
           IF again THEN @ ELSE SubSeq(@, 1, i - 1) \o SubSeq(@, i + 1, Len(@))]
    /\ held' = [held EXCEPT ![c] = IF Newer(c, share) THEN share.edited_at_ms ELSE @]
    /\ shown' = [shown EXCEPT ![c] = share.display_name]
    /\ picture' = [picture EXCEPT ![c] =
           IF Newer(c, share) THEN AvatarAction(@, share.avatar, gone) ELSE @]
    /\ took' = [took EXCEPT ![c] = IF TakesAvatar(c, share, gone) THEN share.edited_at_ms ELSE @]
    /\ smooth' = [smooth EXCEPT ![c] = @ /\ i = 1 /\ ~gone]
    /\ UNCHANGED sender

(* Contact c takes a share from its mailbox (again: it may come once more). *)
Receive(c, i, again, gone) ==
    LET share == mailbox[c][i] IN
    /\ gone => MayBeGone(c, share)
    /\ mailbox' = [mailbox EXCEPT ![c] =
           IF again THEN @ ELSE SubSeq(@, 1, i - 1) \o SubSeq(@, i + 1, Len(@))]
    /\ held' = [held EXCEPT ![c] = IF Newer(c, share) THEN share.edited_at_ms ELSE @]
    /\ shown' = [shown EXCEPT ![c] = IF Newer(c, share) THEN share.display_name ELSE @]
    /\ picture' = [picture EXCEPT ![c] =
           IF Newer(c, share) THEN AvatarAction(@, share.avatar, gone) ELSE @]
    /\ took' = [took EXCEPT ![c] = IF TakesAvatar(c, share, gone) THEN share.edited_at_ms ELSE @]
    /\ smooth' = [smooth EXCEPT ![c] = @ /\ i = 1 /\ ~gone]
    /\ UNCHANGED sender

Next ==
    \/ EditName \/ RemoveAvatar \/ \E a \in Avatars : SetAvatar(a)
    \/ \E c \in Contacts : Resend(c)
    \/ \E c \in Contacts : \E i \in DOMAIN mailbox[c], again, gone \in BOOLEAN :
          Receive(c, i, again, gone)

Spec == Init /\ [][Next]_vars

-----------------------------------------------------------------------------
(* "A resend, a redelivery or a reordered queue cannot put an older name    *)
(* back": the name a contact shows is the one that belonged to the edit it  *)
(* holds.                                                                   *)
NameBelongsToEdit ==
    \A c \in Contacts : held[c] > 0 => shown[c] = names[held[c]]

(* No contact ever goes back to an older edit, nor is the same edit applied *)
(* twice: what is shown changes only together with a newer edit.            *)
OnlyForward ==
    [][\A c \in Contacts :
         /\ held'[c] >= held[c]
         /\ held'[c] = held[c] => shown'[c] = shown[c] /\ picture'[c] = picture[c]]_vars

(* A contact that was sent and found every avatar and took the shares in    *)
(* their order shows the sender's profile, avatar included, once it has     *)
(* applied the last edit: sent again or twice, whatever reads as "keep"     *)
(* kept the right one.  (Otherwise this is false of the avatar: one whose   *)
(* media is gone, or that a name edit overtakes, is not made good by a      *)
(* resend, which is not newer.)                                             *)
CaughtUpShowsProfile ==
    \A c \in Contacts : smooth[c] /\ held[c] = edited /\ edited > 0 =>
        shown[c] = Name /\ picture[c] = avatar

AvatarOf(edit) == IF edit = 0 THEN NoAvatar ELSE avatars[edit]

(* An avatar goes wrong only by a change that did not get through: a        *)
(* contact shows the sender's avatar of the edit it holds, unless the       *)
(* avatar was changed after the last edit whose avatar it took.  Failed     *)
(* uploads, short keys, media that is gone, edits that overtake each other  *)
(* and resends all keep a picture that is still right, and never bring back *)
(* one of before.                                                           *)
StaleAvatarWasMissed ==
    \A c \in Contacts :
        (\A e \in took[c] + 1 .. held[c] : AvatarOf(e) = AvatarOf(e - 1)) =>
            picture[c] = AvatarOf(held[c])

=============================================================================
