----------------------------- MODULE IntakeKey -----------------------------
(***************************************************************************)
(* The intake key of an account: the devices of the account publish the    *)
(* key's daily tags to the server, its contacts present a tag instead of a *)
(* Privacy Pass token, and contact cards carry the key from the devices to *)
(* the contacts and to each other (PublishIntakeTags, GetIntakeState and   *)
(* IntakeVerdict in services/messaging_service.proto, ContactCard in       *)
(* core/envelope.proto).  The generation of a key decides everywhere which *)
(* of two keys stays.                                                      *)
(*                                                                         *)
(* A key is named by its generation and the device that minted it; a tag   *)
(* by the key and the epoch (the UTC day) it is for.  Epochs are written   *)
(* relative to today: 0 is today, -1 yesterday, and RollEpoch moves        *)
(* everything that names one.  Calls to the server are slow: a publish may *)
(* be stored late or again, an answer may be heard after the epoch rolled. *)
(***************************************************************************)
EXTENDS Integers

CONSTANTS
    Devices,    \* devices of the account
    Contacts,   \* devices of its contacts
    MaxGen,     \* bound: generations
    Window,     \* future epochs that a publish covers
    None        \* no key, no request, no answer

ASSUME IntakeAssumption ==
    /\ Devices \cap Contacts = {}
    /\ MaxGen \in Nat /\ Window \in Nat
    /\ None \notin [gen : 0 .. MaxGen, by : Devices]

Readers == Devices \cup Contacts
Key == [gen : 0 .. MaxGen, by : Devices]

VARIABLES
    key,        \* key[r]: the key that r holds for the account, or None
    cards,      \* keys minted, each on its way in cards: to a reader one may come late, again or never
    asked,      \* asked[d]: the generation GetIntakeState gave d, if no tag was live then
    publish,    \* publish[d]: the PublishIntakeTags call of d under way, or None
    serverGen,  \* server: the account's generation
    tags,       \* server: the account's tags
    suspended,  \* suspended[c]: the key that c does not present until the epoch rolls, or None
    answer,     \* answer[c]: the verdict on its way to c and the key it is about, or None
    rose        \* the first epoch of the call that last raised serverGen (history)

account == <<key, cards, asked>>
server == <<serverGen, tags, rose>>
senders == <<suspended, answer>>
vars == <<account, publish, server, senders>>

Tag(epoch, k) == [epoch |-> epoch, key |-> k]

(* Grace: a tag of yesterday is still taken. *)
Kept == -1 .. Window

Verdicts == {"accepted", "not_accepted", "unchecked"}

(* By then every epoch that the call named is past its grace. *)
LongAgo == -Window - 2

TypeOK ==
    /\ key \in [Readers -> Key \cup {None}]
    /\ cards \subseteq Key
    /\ asked \in [Devices -> 0 .. MaxGen \cup {None}]
    /\ publish \in [Devices -> [key : Key, from : {-1, 0}] \cup {None}]
    /\ serverGen \in 0 .. MaxGen
    /\ tags \subseteq [epoch : Kept, key : Key]
    /\ suspended \in [Contacts -> Key \cup {None}]
    /\ answer \in [Contacts -> [verdict : Verdicts, key : Key] \cup {None}]
    /\ rose \in LongAgo .. 0

(* A device starts with no key (it is new or restored) or with one of       *)
(* generation 0, which every build before generations minted for itself.    *)
Init ==
    /\ key \in {k \in [Readers -> [gen : {0}, by : Devices] \cup {None}] :
                   /\ \A d \in Devices : k[d] # None => k[d].by = d
                   /\ \A c \in Contacts : k[c] = None}
    /\ cards = {key[d] : d \in {e \in Devices : key[e] # None}}
    /\ asked = [d \in Devices |-> None]
    /\ publish = [d \in Devices |-> None]
    /\ serverGen = 0 /\ tags = {} /\ rose = LongAgo
    /\ suspended = [c \in Contacts |-> None]
    /\ answer = [c \in Contacts |-> None]

-----------------------------------------------------------------------------
(* The account's devices.                                                   *)

(* A device without a key asks for its account's state; if some device is   *)
(* publishing it goes on waiting for a card.                                *)
GetIntakeState(d) ==
    /\ key[d] = None
    /\ \A t \in tags : t.epoch # 0
    /\ asked' = [asked EXCEPT ![d] = serverGen]
    /\ UNCHANGED <<key, cards, publish, server, senders>>

Take(d, k) ==
    /\ key' = [key EXCEPT ![d] = k]
    /\ asked' = [asked EXCEPT ![d] = None]

(* A new key goes out in cards, to the contacts (when the two next talk)    *)
(* and inside SENDER_SYNC to the account's other devices.                   *)
NewKey(d, above) ==
    \E g \in above + 1 .. MaxGen :
        /\ Take(d, [gen |-> g, by |-> d])
        /\ cards' = cards \cup {[gen |-> g, by |-> d]}

(* Nothing was live and no card has come: it mints above the generation it  *)
(* was told, which may be out of date by now.                               *)
Mint(d) ==
    /\ key[d] = None /\ asked[d] # None
    /\ NewKey(d, asked[d])
    /\ UNCHANGED <<publish, server, senders>>

(* A rotation mints above the key that the device holds. *)
Rotate(d) ==
    /\ key[d] # None
    /\ NewKey(d, key[d].gen)
    /\ UNCHANGED <<publish, server, senders>>

(* Today's tag and those of the window to come. *)
PublishIntakeTags(d) ==
    /\ key[d] # None
    /\ publish' = [publish EXCEPT ![d] = [key |-> key[d], from |-> 0]]
    /\ UNCHANGED <<account, server, senders>>

-----------------------------------------------------------------------------
(* Whoever holds a key, intake_offer.                                       *)

(* Mutant: the last card to arrive is kept. *)
ReplacesAnyway(held, k) == k # held

(* A key is replaced only by one of a higher generation. *)
Replaces(held, k) == held # None => k.gen > held.gen

ReceiveCard(r, k) ==
    /\ k \in cards /\ Replaces(key[r], k)
    /\ IF r \in Devices THEN Take(r, k)
       ELSE key' = [key EXCEPT ![r] = k] /\ UNCHANGED asked
    /\ UNCHANGED <<cards, publish, server, senders>>

-----------------------------------------------------------------------------
(* The server.                                                              *)

(* The entries of a call that are not past their grace. *)
Entries(call) ==
    {Tag(e, call.key) : e \in (call.from .. call.from + Window) \cap Kept}

(* Mutant: a higher generation is added like an equal one. *)
StoredBeside(call) ==
    IF call.key.gen < serverGen THEN tags ELSE tags \cup Entries(call)

(* Mutant: an equal generation replaces too. *)
StoredOver(call) ==
    IF call.key.gen < serverGen THEN tags
    ELSE {t \in tags : \A n \in Entries(call) : n.epoch # t.epoch} \cup Entries(call)

(* Above the account's generation: replaces the set for these epochs.       *)
(* Equal: added to it.  Below: nothing is stored.                           *)
Stored(call) ==
    CASE call.key.gen > serverGen ->
            {t \in tags : \A n \in Entries(call) : n.epoch # t.epoch} \cup Entries(call)
      [] call.key.gen = serverGen -> tags \cup Entries(call)
      [] OTHER -> tags

(* A call arrives; when its answer is lost the device makes it again. *)
StorePublish(d) ==
    LET call == publish[d] IN
    /\ call # None
    /\ tags' = Stored(call)
    /\ serverGen' = IF call.key.gen > serverGen THEN call.key.gen ELSE serverGen
    /\ rose' = IF call.key.gen > serverGen THEN call.from ELSE rose
    /\ publish' \in {publish, [publish EXCEPT ![d] = None]}
    /\ UNCHANGED <<account, senders>>

(* The epoch rolls: tags past their grace go, and senders try a suspended   *)
(* key once more.  A call under way may cross midnight, but not two.        *)
RollEpoch ==
    /\ tags' = {Tag(t.epoch - 1, t.key) : t \in {u \in tags : u.epoch >= 0}}
    /\ publish' = [d \in Devices |->
          IF publish[d] # None /\ publish[d].from = 0
          THEN [publish[d] EXCEPT !.from = -1] ELSE None]
    /\ suspended' = [c \in Contacts |-> None]
    /\ rose' = IF rose > LongAgo THEN rose - 1 ELSE rose
    /\ UNCHANGED <<account, serverGen, answer>>

-----------------------------------------------------------------------------
(* The contacts, SendSealedMessage.  Without a key, or with a suspended     *)
(* one, the message pays a token and nothing here changes.                  *)

Presents(c) == key[c] # None /\ suspended[c] # key[c] /\ answer[c] = None

Answered(c, verdict) == answer' = [answer EXCEPT ![c] = [verdict |-> verdict, key |-> key[c]]]

(* The sender's clock may still be in yesterday. *)
SendChecked(c) ==
    /\ Presents(c)
    /\ \E epoch \in {-1, 0} :
          Answered(c, IF Tag(epoch, key[c]) \in tags THEN "accepted" ELSE "not_accepted")
    /\ UNCHANGED <<account, publish, server, suspended>>

(* The server could not check: its tag store or its seal key failed it. *)
SendUnchecked(c) ==
    /\ Presents(c)
    /\ Answered(c, "unchecked")
    /\ UNCHANGED <<account, publish, server, suspended>>

(* Mutant: a key that was not accepted is dropped. *)
KeyAfterDropped(c) == IF answer[c].verdict = "not_accepted" THEN None ELSE key[c]

KeyAfter(c) == key[c]

(* Only not_accepted says something of a key, "the key you hold", and it is *)
(* kept all the same.  A card may have come since: the sender then stops    *)
(* presenting the key it had presented, or the one it holds now.            *)
HearVerdict(c) ==
    /\ answer[c] # None
    /\ IF answer[c].verdict = "not_accepted"
       THEN \E k \in {answer[c].key, key[c]} : suspended' = [suspended EXCEPT ![c] = k]
       ELSE UNCHANGED suspended
    /\ key' = [key EXCEPT ![c] = KeyAfter(c)]
    /\ answer' = [answer EXCEPT ![c] = None]
    /\ UNCHANGED <<cards, asked, publish, server>>

-----------------------------------------------------------------------------
Next ==
    \/ \E d \in Devices :
          \/ GetIntakeState(d) \/ Mint(d) \/ Rotate(d)
          \/ PublishIntakeTags(d) \/ StorePublish(d)
    \/ \E r \in Readers, k \in Key : ReceiveCard(r, k)
    \/ \E c \in Contacts : SendChecked(c) \/ SendUnchecked(c) \/ HearVerdict(c)
    \/ RollEpoch

(* Days pass, answers arrive, and a contact that goes on writing does not   *)
(* meet a server that can never check.  Cards owe nothing.                  *)
Fairness ==
    /\ WF_vars(RollEpoch)
    /\ \A c \in Contacts : SF_vars(SendChecked(c)) /\ WF_vars(HearVerdict(c))

Spec == Init /\ [][Next]_vars /\ Fairness

-----------------------------------------------------------------------------
(* A rotation takes effect now: once the server took a higher generation,   *)
(* no older key is accepted on any day that the rotating call covered -     *)
(* however late and however often calls of older keys arrive, whichever     *)
(* device makes them and whether the rotating call itself was late.         *)
RotationTakesEffect ==
    \A t \in tags : t.key.gen < serverGen => t.epoch \notin rose .. rose + Window

(* A contact that was handed a working key is not cut off by the account's  *)
(* other devices: a tag leaves the server only when a higher generation     *)
(* takes its place or its grace is over, also when two devices minted the   *)
(* same generation and both publish.                                        *)
NoWorkingKeyCut ==
    [][\A t \in tags : t \in tags' \/ Tag(t.epoch - 1, t.key) \in tags'
                       \/ t.epoch = -1 \/ serverGen' > serverGen]_vars

(* No holder goes back to an older key, or trades it for another of its     *)
(* generation, or loses it: cards arrive in any order and again, and a      *)
(* verdict may be about the key held before.                                *)
KeysOnlyForward ==
    [][\A r \in Readers :
          key[r] # None /\ key'[r] # key[r] => key'[r] # None /\ key'[r].gen > key[r].gen]_vars

Verdict(c) == IF answer[c] = None THEN "none" ELSE answer[c].verdict

(* A refusal is not the end of a key: a contact that is told its key is not *)
(* accepted presents it again and is accepted, if the account goes on       *)
(* publishing it, unless a card brings the contact another.                 *)
KeyWorksAgain ==
    \A c \in Contacts, k \in Key :
        key[c] = k /\ Verdict(c) = "not_accepted"
            ~> \/ Verdict(c) = "accepted"
               \/ Tag(0, k) \notin tags
               \/ key[c] \notin {k, None}

=============================================================================
