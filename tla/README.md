# Verification of construct-protos

construct-protos holds the wire contract of a messenger: protobuf schemas,
conformance vectors that every client replays, and the scripts that build and
check those vectors. There is no server and no client here. What the repository
fixes are *rules*: how two clients that never meet must treat a marker, a
profile, a frame, a stream, a failed connection. This project states those rules
in TLA+, puts them into the environment they were written for (several devices,
mailboxes that lose and reorder, storage that damages, a network that half
works), and checks what they promise there.

## 1. The system and its parts

| Part | Source | State | Operations | What makes it correct |
|---|---|---|---|---|
| Read-state sync | `conformance/check_read_markers.py`, `ReadMarker(s)` in `core/envelope.proto` | a boundary `(sent_at_ms, message_id)` per chat and device; the chats whose boundary moved since the last send | a message arrives, read, send, receive (apply / ignore / drop) | read stays read; nothing read is forgotten; only own devices count; all devices end up the same |
| VEIL transport route | `conformance/check_transport_route.py` | route (direct, probing, active, cooldown, offline), failure streaks per lane | one reduction per event, effects performed in order by the platform | `on` never goes direct; route, routed port, cached channels and running proxy never come apart; a front that carries nothing is left |
| Profile share | `conformance/check_profile_share.py`, `ProfileShare` in `core/envelope.proto` | the edit a contact holds, its name and avatar | edit, upload, share, resend, receive, find the media gone | no older profile comes back, no mixture of two; a picture is wrong only after a change that was missed |
| Intake key | `PublishIntakeTags`, `GetIntakeState`, `IntakeVerdict` in `services/messaging_service.proto`, `ContactCard` in `core/envelope.proto` | the key each device and contact holds, the server's tags and generation, suspended keys | ask, mint, rotate, publish, receive a card, send, hear the verdict, the day rolls | a rotation ends the old key on the days it covers; no working key is cut; a refused key comes back |
| History stream (CTH1) | `check_history_snapshot.py`, `gen_history_snapshot_vectors.py`, `client/history_snapshot.proto` | a stream of typed records | write, three separate walks, phase rules, media fields, the encoding of each record | one reading, no stream is the beginning of another, phases and files agree, records follow the schema |
| Contact card | `conformance/check_contact_card.py` | none (bytes) | write, read | a card is read as written, never as a bare key |
| Invite | `conformance/check_invite.py` | none (bytes) | sign, write, read | who scans the code can check the signature; no field changes unnoticed |
| Signed statements: server trust, `server_signature`, device certificate, CTT1 and CTHF frames | `check_server_trust.py`, `core/envelope.proto`, `check_device_certificate.py`, `gen_history_snapshot_vectors.py` | none (bytes) | lay out, sign | one signature, one statement (`server_signature`: only between texts of equal lengths) |
| Stickers | `check_sticker_ref.py`, `check_sticker_pack.py` | none (text) | escape, unescape | the checks see the bytes that are there |
| History file (CTHF) | same | sealed chunks behind unauthenticated lengths | seal, frame, open | what is opened is a prefix, what is accepted is all of it |
| History vectors | same | 28 rows of a JSON file | generate, edit by hand, check | generator and check agree; what the check says it checks is checked (it is not: section 6) |
| Seeded RNG | `scripts/gen_history_crypto/src/main.rs` | block, offset, counter | fill, refill | the bytes depend on the seed alone, not on how reads are split |
| KNST frame | `conformance/check_knst_frame.py` | frames of a message | split, pad, read | a whole body or nothing; a part is never a control frame |
| Content types | `conformance/check_content_types.py` | enum values and table rows | add a type, add a row, check | every type has exactly one row |
| Session control, scripts, other service schemas, vectors without a script | see `PROJECT.json` | - | - | not modelled: section 8 |

How the parts meet: a KNST frame carries a content type in byte 5; the content
type table says that type 30 (read sync) goes to own devices only and that 29
(profile) is a side channel; all of them travel over the route the transport
reducer picks. A CTH1 stream travels either live, in two phases, or sealed into a
CTHF file. The crypto crate makes the keys and signatures the generator puts in
the vectors. A contact card (type 27) is what brings an intake key to a contact,
and, inside a SENDER_SYNC, to the account's other devices.

What is hard about it: several devices act at the same time and none of them sees
the others; messages are lost, repeated and reordered; effects of one event run
while RPCs open channels and proxy starts finish late; uploads fail half-way; file
lengths and end markers are not authenticated; counters and lengths sit at their
limits; a streak of failures on one lane is interleaved with successes on another.
`PROJECT.json` lists these hazards line by line.

## 2. Modules

| Module | Models | Kind |
|---|---|---|
| `ReadOrder` | the ordering and the two rules `check_read_markers.py` builds its cases from | operators |
| `AccountRead` | what read-state sync promises: one reading position per chat | abstract specification |
| `ReadMarkers` | the devices of an account, their mailboxes and a forging contact | state machine, implements `AccountRead` |
| `ReadMarkersProofs` | theorems about `ReadMarkers` | TLAPS |
| `TransportRoute` | the reducer | operators |
| `TransportRouteCases` | every case of `build()` and its replay | operators |
| `TransportSystem`, `TransportSystemProofs` | the reducer in its platform; theorems about both | state machine, TLAPS |
| `IntakeKey`, `IntakeKeyProofs` | the devices of an account, the server and contacts; theorems | state machine, TLAPS |
| `ProfileShare`, `ProfileShareProofs` | one sender and its contacts; theorems | state machine, TLAPS |
| `ProtoWire` | protobuf as the scripts write and read it by hand | operators |
| `HistoryStream`, `HistoryMedia`, `HistoryRecords` | writer, readers, phase rules, media fields; the records against the schema | operators |
| `ContactCard`, `Invite`, `SignedBytes`, `StickerText` | the formats of these checks, writer and reader | operators |
| `FormatChecks`, `FormatProofs` | those operators on every input up to a bound; theorems about them for any input, and the induction the proofs use | state machine, TLAPS |
| `HistoryFile` | writer, damaging storage, reader of a sealed file | state machine over `HistoryStream` |
| `HistoryVectors` | generator, edits by hand, check | state machine over `HistoryStream` |
| `HistoryFileProofs` | theorems about `HistoryFile` | TLAPS |
| `SeedRng`, `SeedRngProofs` | the RNG; its theorems | state machine, TLAPS |
| `KnstFrame`, `KnstFrameProofs` | sender, network, receiver of frames; theorems | state machine, TLAPS |
| `ContentTypes` | table and enum between changes, and the check | state machine |
| `MC...` | small instances for TLC | - |

Definitions keep the names of the code where TLA+ allows it (`phase_ok`,
`parse_cth1`, `seal_stream`, `chunks`, `STOP`, `ROTATE`). A definition that starts
with the comment "Mutant:" is a plausible bug of the definition after it; it is
used only to see that a property notices it.

### Read-state sync

`Moves`, `ApplyResult` and `Covers` are the script's `moves`, its apply rule and
its covers rule. A device's state is `inbox`, `boundary` and `moved`; the actions
are `Arrive`, `Read`, `Send`, `Receive`. `Send` follows the schema: one marker for
each chat whose boundary moved since the last send, to every other device. The
schema does not say whether a boundary that a *marker* moved counts as moved, so
`Receive` has both behaviours (`relay`). Ids are byte strings compared as bytes;
numbers keep that order. `mail` is a set, so the mailbox reorders; `again` repeats;
`Lose` loses; `Forge` lets a contact send any payload at all.

### Transport

The source fixes the reducer by 40-odd cases. `TransportRoute` states the rules
they are instances of, `TransportRouteCases` replays every case event by event and
compares state and effects (`Conforms`, in `FormatChecks`), so the rules cannot drift from the cases.
`TransportSystem` then runs the reducer: one event at a time, its effects performed
one by one, and in between RPCs on two lanes open channels, are issued and
complete; starts come up or fail and are reported late; the timer fires; the
person, the network and the system interfere. The platform is not in the
repository; it is modelled from the effects and events the cases name and the
comments on them (marked external in the map). Left out: the clock (a timer may
fire at any time once set), and the fields `censored` and `latency_ms`, which no
case's outcome depends on.

### Profile share

A name is the number of the edit that chose it. An avatar is a token; on the wire
it is set, `removed`, `unchanged` (absent) or `short_key` (a media key that is not
32 bytes). `gone` is the media of a new avatar having run out, or failing to
download, by the time the share is applied: the picture is then kept, like with an
absent avatar. Three history variables, which nothing in the protocol reads:
`smooth[c]`, contact `c` was sent and found every avatar and took its shares in
order; `took[c]`, the last edit whose avatar it took; `avatars`, the sender's past.

### Intake key

The program that runs this protocol is in other repositories; its rules are
stated here, in the definitions of the calls and of the card. A key is named by
its generation and the device that minted it, a tag by its key and epoch, and
epochs are relative to today. `publish[d]` is a call under way: `StorePublish` may
happen late and more than once (an answer lost), and a call may cross one midnight.
`asked[d]` is what `GetIntakeState` said, which may be out of date when the device
mints. `cards` is the set of keys minted: whoever reads cards may get any of them,
late, again or never. `Stored` is the generation rule, `Replaces` the rule of
`intake_offer`, `KeyAfter` and `suspended` what a sender does with a verdict. The
HMAC, the sealing of a tag and the cap on entries per call are left out. An answer
is about the key that was presented; a card that comes in between may have brought
another, and the source does not say which of the two a late refusal suspends, so
`HearVerdict` has both. What is suspended is a key, so a card with another is not affected. `rose` is a
history variable: the first day that the call which last raised the generation
covered.

### History

A byte is a number below `BASE`, the magic is one cell, and `payload_len` has
`LEN_BYTES` bytes, least significant first; `Place[k]` is the weight of the byte
after `k` others. Recursive loops are recursive functions. A writer is given what
`HistoriesAssumption` says: records within the cap in an order legal in a file. In `HistoryFile` sealing is ideal: a chunk opens only whole and at the
index it was sealed for; lengths and the zero at the end can be anything after
damage, and a byte of a chunk read as a length may be any number. In
`HistoryVectors` a row keeps the record types in its bytes, the list it shows, the
phase it names, the phase that the manifest in its bytes names, whether its media fields are in order, and one flag for the lengths,
prefixes, keys and fields that its kind asks for.

`HistoryRecords` holds, for each `encode_*` function, the field numbers and wire
types it writes in their order, and beside them what the proto files declare.
`Decode` reads protobuf (external).

### Formats

`ProtoWire` keeps real bytes (`LOW = 128`) and cuts a word to 21 bits. In `Invite`
ids, addresses and signatures are one cell each; hexadecimal is a value and the
case it was written in, because the binary keeps only the value. The string that is
signed is made character by character around them: numbers in decimal (`str`),
texts as they are, and a bar between the fields, which a text may hold too. In
`SignedBytes` every field of fixed length is one cell, a label is one cell (none
begins another), and text is letters, with its length in front where the code puts
it there: `server_signature` of a sender certificate has neither label nor lengths.
It is made by another key (Ed25519) than the hybrid signatures, so it is compared
only with its own kind. `StickerText` keeps character codes.

### The others

`SeedRng` names a byte by the counter that was hashed and its place in the block.
`KnstFrame` names a byte by its message and place; splitting and reading are the
script's, putting chunks together is the client's and marked external.
`ContentTypes` builds rows from the names the check knows, so that only the rules
that relate fields are left.

## 3. Runs

| Run | Instance | Distinct states | Shows |
|---|---|---|---|
| `ReadMarkers_faults` | 2 devices, 1 chat, 2 messages of the same time, 1 forged payload per mailbox at a time, loss | 16 000 | `BoundaryWasRead`, `NothingForgotten`, `ReadStaysRead`, refinement of `AccountRead` |
| `ReadMarkers_live` | 3 devices, no loss, no forging | 43 000 | `ReadReachesAll` |
| `TransportSystem_safe` | 2 fronts (one carries only the authenticated lane), 2 ports, 2 events from outside, late results | 1 268 000 | the six safety invariants |
| `TransportSystem_live` | the same, results of what was cancelled do not arrive | 16 000 | `WaitingEnds`, `SettlesOnGoodFront` |
| `ProfileShare` | 2 contacts, 2 avatars, 3 edits, 2 shares per mailbox | 252 000 | `NameBelongsToEdit`, `OnlyForward`, `CaughtUpShowsProfile`, `StaleAvatarWasMissed` |
| `IntakeKey` | 2 devices, 1 contact, generations 0 and 1, a window of one day after today | 279 000 | `RotationTakesEffect`, `NoWorkingKeyCut`, `KeysOnlyForward`, `KeyWorksAgain` |
| `FormatChecks` | streams to 10 bytes, 6 records in two phases, blobs of up to 4 fields, text to 3, records at the edges of a varint, cards, invites, pairs of statements, every case of the transport route | 2 444 000 | `OneWriting`, `NoStreamBeginsAnother`, `WalksAgree`, `PhasesMakeAFile`, `BlobCanBeStreamed`, `RecordsFollowSchema`, `CardIsReadBack`, `InviteVerifies`, `SignedBytesTellApart`, `StickerTextIsReadBack`, `Conforms` |
| `HistoryFile` | 2 short files damaged twice, a file of 5 chunks damaged once | 977 000 | `OpenedIsPrefix`, `AcceptedIsWritten`, `IntactIsAccepted` |
| `HistoryVectors` | the 28 rows, two edits | - | a disagreement: section 6 |
| `SeedRng` | blocks of 4, reads of 1 to 6, 30 bytes | 196 | `OutIsTheStream` |
| `KnstFrame` | 2 messages of 0 to 7 bytes, frames of 2, at most 3 | 287 000 | `WholeOrNothing`, `RefusedNotCut` |
| `ContentTypes` | 2 values, 2 rows | - | a disagreement: section 6 |

Why the bounds are enough, or what they leave:

- Two devices give every race of a marker against a marker, and three are needed
  for a read that reaches one device by way of another. Messages tied in time
  exercise the id. Several chats and any number of messages are the proofs' part.
- Two fronts and two ports are enough for a start, its replacement and a late
  report of the first; two outside events are a person turning VEIL on and off
  while a start is under way, or a network change in a cooldown. The soft-failure
  threshold (3) and the direct threshold (2) have their real values.
- Two devices are enough for two keys of one generation and for a device that is
  behind; generation 0 is the one every device mints for itself and 1 the first that
  replaces it. A window of one day leaves yesterday (grace), today and a day ahead,
  so that a call made before midnight covers one day less than one made after.
- Three edits are the least with an edit overtaking another and a third after it.
- `MAX_RECORD_BYTES = 1` puts payloads at and over the cap within ten bytes of
  stream; lengths of two bytes let a length have a high byte. Six record types
  stand for manifest, a transcript type, message, reaction, media and unknown.
- Numbers and lengths at 0, 1, 127, 128, 300 and the edges of three bytes. Cards
  with keys of 0, 1, 30 to 33 and 127 bytes: 30 make a payload as long as a bare key.
- MediaBlobs of up to four fields, in any order and repeated, with a number the
  message does not have, and with values that look like a key and a length or whose
  own length takes two bytes.
- Invites with both cases of the ids, texts of digits and bars that look like other
  parts of the signed string, timestamps at the edges of their bytes; and for each
  of them every other text, timestamp and lifetime together, or one other id, under
  the same signature. Statements that differ in up to two fixed fields, and every
  split of up to one letter over the texts of a sender certificate, in both layouts.
- Text of three bytes is enough for an octal escape between two others; the bytes
  are digits and letters that an escape could swallow, quotes, the backslash, and
  bytes that do not print.
- Chunks of four bytes with one byte of overhead give a last chunk of one and two
  bytes, a stream of exactly two chunks, and payloads across chunks. Two damages
  are needed to cut a file and give it a new end.
- Reads longer than a block, of a block, and shorter ones all occur at every offset.
- Bodies from empty to one byte over the limit of three frames of two.

`CHECK_DEADLOCK FALSE` stands where the modelled system really may stop: nobody
reads any more, every edit was made, every input up to the bound was written.
`HistoryFile` ends explicitly and is checked for deadlock.

Every property has a mutant: a plausible bug in one mapped definition under which
TLC finds the property violated.

## 4. Fairness

`ReadMarkers_live`: a device that has something to send sends it (weak), and a
mailbox hands over what it holds (weak): an account's devices come online again.
Loss is excluded, because the protocol does not repair it: `NothingForgotten`
says exactly what remains after a loss, a marker in `lost`.

`TransportSystem_live`: effects are performed (weak). Events queued for the router
need strong fairness, since each waits for the effects of the one before it and is
disabled again and again; a queue served in order gives that. A start ends, and
does not fail for ever on a front that is asked again and again (strong). A client
in use keeps opening channels and issuing RPCs, on both lanes, in the foreground.
Nothing makes outside events happen.

`IntakeKey`: days pass (weak) and a verdict is heard (weak). Cards owe nothing: one
may never come, and a device that is lost with its key keeps the others out. A contact that goes on writing is answered by a server
that could check, time and again (strong): `INTAKE_VERDICT_UNCHECKED` is a fault of
the server and not its normal state. Nothing makes a device publish, rotate or mint;
`KeyWorksAgain` is about keys whose tags are there.

`TransportSystem_live` also assumes that the platform cancels what it replaces
(`LateResults = FALSE`). Events name neither port nor start: with late results,
the result of an RPC through a replaced proxy is taken for one of the current
proxy, and the client can be kept rotating. The safety run does not assume it.

## 5. Proofs

`ReadMarkersProofs`, for any sets of devices, chats and messages, with or without
loss, from the assumptions that a message is named by two naturals and that "no
boundary" is not a message:

- `TypeCorrect`. `TypeOK` is not inductive: the payload of a `Send` is well formed
  only because a chat counts as moved only once its boundary is held
  (`MovedIsHeld`). `TypeInv` is the conjunction.
- `ReadIsNeverUndone`, the action property `ReadStaysRead`: from `TypeInv` and the
  lemmas that `Later` is a strict total order (`CoversTransitive`, `MovesForward`).
- `NoForgedRead` and `NoReadIsForgotten`, from `SafetyInv`: besides the two
  properties it says that a marker of the own account under way names a message
  that was really read (`MarkersWereRead`). Without it a received marker could be
  anything. The hard step is `Receive`: a device whose own unsent read is overtaken
  by a later marker no longer holds that read, but holds one that covers it, and
  the chat is still in `moved`; a marker taken out of a mailbox is either applied
  or was already covered (`ReceiveBoundary`, `NotMovedIsCovered`).
- `Refinement`: `Spec => ReadsLikeOneDevice`. Under the mapping to the furthest
  boundary of a chat, a read is a read of the account and every other step is a
  stutter. It rests on the furthest boundary being unique
  (`CoversAntisymmetric`) and being the position a step moves
  (`FurthestIsPosition`).

`SeedRngProofs`, for every block length, read size and amount read:
`PlaceInStream` and `KeysDependOnSeedAlone`. The inductive invariant is
`TypeOK /\ Position /\ OutIsTheStream`: where the next byte comes from is known
only if counter and offset are the place in the stream.

`IntakeKeyProofs`, for any devices, contacts, highest generation and window
(`IntakeAssumption`: no device is a contact, "no key" is not a key). The action
properties `WorkingKeyStays` and `HoldersOnlyForward` follow from the types
(`IntakeTypes`). `RotationEndsOldKeys` needs `IntakeInv`, the property together with
`TypeOK`, which says how far a call under way reaches: a call made today covers the
window, one made yesterday a day less. A publish that is stored either raises the
generation, and then it takes every older tag off the days it covers, or it is of
the server's generation and not an older key; and when the day rolls, the days of
the rotating call move with the tags.

`ProfileShareProofs`, for any contacts, avatars, number of edits and length of the
mailboxes (`ProfileAssumption`). `NoOlderNameBack` and `ContactsOnlyForward`
need that whatever is under way says what the profile was after its edit
(`SharesAreEdits`). `InOrderShowsProfile` is harder, since a share may leave the
avatar unsaid and the contact's picture then depends on all shares before it.
`SmoothInv` says of a contact that took its shares in order that no edit is
missing between the one it holds and the sender's (`NoGap`), and that there is a
history of avatars, from the one it shows to the sender's, in which every
share under way leads from one edit to the next. `PicturesStayRight` asks nothing of
the mailbox: `PictureInv` says that what a contact shows is the avatar of the edit it
was taken from, at or before the one held, and that a share which sets or removes an
avatar says the one of its edit, so that keeping is right as long as the avatar did
not change in between.

`TransportSystemProofs`, for any fronts, ports, lanes they carry and amount of
meddling, with or without late results (`PoolAssumption`, `BoundsAssumption`).
The properties hold only between effects, so none is inductive. `TransportInv`
states each as "it holds, or an effect in `todo` or a report not yet heard puts
it right", with the order the effects must have: the port is set before the
channels are dropped, a stop comes before the start it must not cancel. `ReduceSound` shows rule by
rule that the reducer answers every event, from every state and under every mode,
with effects that do this; `EffectsPutItRight` that performing them, starts, RPCs
and reports keep the invariant. The six safety properties of the run follow from it
when `todo` is empty.

`KnstFrameProofs`, for any messages, chunk size and limit (`FrameAssumption`).
`FrameInv` says that a frame, under way or collected, carries the part of the body
that its index names (or a whole short body with padding). `FramesAreNotCut`: the
receiver shows what it has when it holds as many different indices as the total,
and those are then all of them (a counting argument), so putting them together
gives the body (`JoinedIsBody`, by induction over the parts). `RefusesWhatDoesNotFit`
is the arithmetic of the rounded-up division (`TotalIsLeast`).

`FormatProofs`, about the formats, for inputs of any size. What a format's run
picks is in `InputInv` (with `BytesInv` and `TextInv` for what it writes byte by
byte); each property follows from a theorem about all inputs:

| Theorem about any input | Properties of `FormatChecks` it gives | Assumed of the constants |
|---|---|---|
| `StreamReadBack`, `StreamIsTheOnlyOne` | `OneWriting` (`AnyStreamHasOneWriting`), `NoStreamBeginsAnother` (`NoStreamBeginsAStream`), `WalksAgree` (`WalksSeeTheSame`) | `StreamAssumption`; bytes are below `BASE` |
| `FileAndPhases` | `PhasesMakeAFile` (`HistoriesTravelEitherWay`) | - |
| `MessageReadBack`, `RecordReadBack` | `RecordsFollowSchema` (`RecordsFollowTheProtos`) | numbers and lengths fit into `WORD`, and so do the keys, up to 130; a key of a media field is one byte |
| `CardReadBack` | `CardIsReadBack` (`CardsAreReadBack`) | generations fit into `WORD`; keys and the length of a key take one byte; the field of a generation is shorter than a key |
| `InviteReadBack`, `NoFieldChangesUnnoticed` | `InviteVerifies` (`ScannedInvitesVerify`) | of an altered invite: no bar in the server and username of the one that was signed |
| `OneSignatureOneStatement` (hybrid signatures; `ServerSignatureTold` for `server_signature`) | `SignedBytesTellApart` (`SignaturesTellApart`) | - |
| `TextReadBack` | `StickerTextIsReadBack` (`TextsAreReadBack`) | bytes are 0 to 255 |
| `NumbersReadBack`, a lemma | `BlobCanBeStreamed` (`BlobsCanBeStreamed`) | field numbers up to 31 whose keys take one byte; `LOW < WORD` |

The assumptions are what the real widths give: a word of 64 bits in groups of 7, keys of
32 bytes, a generation's varint of at most ten.

- Streams. Reading undoes writing for every list of records within the cap; every
  proper beginning of a stream is malformed; whatever is accepted is, byte for
  byte, what the writer makes of the records read. The first follows the reader
  over the records by induction (`VisitRecord`), the last rebuilds the bytes from
  the reader's walk (`UpToAppend`, `RecordWrittenBack`). Both need that the length
  field is written and read back without loss (`LengthReadBack`,
  `LengthWrittenBack`: the digits of a number below the weight of the field). The
  two walks that check no bounds are therefore always on a stream the writer could
  have made, and see its records (`TypesReadBack`, `MediaReadBack`).
- Invites and signed statements. A text has its length in front of it and every other
  field is one cell, so equal bytes have equal lengths and then equal texts, field
  by field; the label in front tells two kinds of statement apart. Where the lengths
  are missing (`server_signature`) they have to be assumed equal. For an invite
  the flag and the two lengths say where each field stands, and the reader finds
  it there.
- What an invite's signature covers. A number is told by its decimal (`StrTold`) and
  has no bar in it (`StrHasNoBar`). The string is taken apart from both ends: the ids
  and the address have fixed places, and the last bar of what is left begins the
  lifetime. If the username has no bar, the last bar of the rest begins it, and so on
  down to the server (`BarTold`, `CanonicalTold`). Only the invite that was signed
  has to be free of bars: another with the same string has as many of them.
- Messages, records, cards and text are all written as pieces, one after another. What is
  written stands at its place (`PiecesStay`), and the reader, at the beginning of a
  piece, reads it and is at the beginning of the next (`DecodeReadBack` and its
  like). A varint is such a piece by a descent over its groups of bits. For text
  the claim depends on the byte after the piece: an escape must not swallow a digit
  that follows it.
- The phases. A reaction follows a message in the file exactly when it does in the
  transcript, since taking out the media records keeps the order of the others.
- Blobs. `media_fields_in_order` never sees fields, only bytes: its walk finds the
  numbers that were written, whatever the values are (`NumbersReadBack`, a descent
  over the lengths like that of the messages), and then compares those.

`HistoryFileProofs`, for any histories, any base, any length field of up to eight
bytes, any cap that fits it, any size of chunk and overhead, and any damage
(`StreamAssumption`, `FileAssumption`, `HistoriesAssumption`):

- `OpensOnlyTheBeginning`, `AcceptsOnlyTheWhole` and `RefusesOnlyTheDamaged`, from
  `FileInv`. Damage moves, drops and repeats sealed bytes but makes none
  (`MadeOfChunks`), so a chunk that opens is the one sealed for its index and the
  plaintext is the chunks so far (`OpenedChunks`). The zero at the end is not
  authenticated: a cut file is refused only because no beginning of a stream is a
  stream, which is where `StreamReadBack` is used. While nothing is damaged, the cells ahead of
  the reader are the rest of the writer's (`IntactAhead`); that an intact file is
  not refused needs it, and that the list of records was legal in a file. TLC
  checked `FileInv` on the instance of the run before it was proved.

The specification of `FormatChecks` is called `Inputs`, so that `HistoryFileProofs`
can extend both it, for the theorems about streams, and `HistoryFile`.

Induction over data. The library's induction theorems take an operator, which the
provers cannot instantiate. `SetInduction` (in `FormatProofs`, and again in
`KnstFrameProofs`, which shares no other module with it) states the principle for a
*set* of naturals, from the least-number principle; a proof by induction defines the
set of the numbers its claim holds for. A recursive function is a `CHOOSE`, and
nothing follows from it before a function with that equation is shown to exist. This is
done once for each shape that occurs: pieces joined from the left (`JoinExists`,
`PiecesExist`), a state stepped forward (`StepsExist`), a recursion on the
rest of the input (`RestExists`), a walk over places that only goes forward
(`WalkExists`), a number that gets smaller (`DescentExists`).

Only model-checked:

- liveness (`ReadReachesAll`, `WaitingEnds`, `SettlesOnGoodFront`, `KeyWorksAgain`),
  which this prover does not do;
- `Conforms`, that the reducer gives what each case of the transport route says: a
  finite table without parameters, of which TLC looks at every row, so a proof would
  say no more. What holds of the reducer in every state is `ReduceSound`;
- the disagreements of `ContentTypes` and `HistoryVectors`, which are violations.

## 6. Disagreements and observations

Two runs each show a disagreement between what the repository says and what its code
does:

- `check_content_types.py:2` says "Every ContentType in envelope.proto has
  exactly one row here, and vice versa", but the rows are read into a dictionary, so
  a second row hides the first and the check passes (`ContentTypes`,
  `ExactlyOneRow`).
- `check_history_snapshot.py:4` says "Does check: the 28 named vectors exist, CTH1
  record order and phase legality". Legality is judged by the phase written in the
  row (line 230), which is never compared with the phase in the manifest record of
  the row's own bytes, the one a client reads (`history_snapshot.proto:30`). After
  an edit of one of the two, a row that tells clients to decode its stream passes
  although the stream is illegal for its phase (`HistoryVectors`,
  `PhaseLegalityChecked`). The 28 generated rows agree.

Met while modelling, without a run of their own:

- `check_history_snapshot.py:183` does the same by id: of two rows with one id the
  first is never checked. An `expect` it does not know on a `cth1_stream` row skips
  every verdict.
- `media_fields_in_order` accepts any strictly ascending field numbers, also a
  field after the blob; its docstring says "1, 2, 3 in that order (each optional
  but blob last)". A client meets no media_id or mime_type there, but it may meet
  something it does not know after the blob (`BlobCanBeStreamed` says exactly what is
  accepted).
- `check_invite.py:28` joins the fields of an invite with bars and nothing keeps a
  bar out of `server` or `un`: server `h`, ts 1, un `2|` and server `h|1`, ts 2, no
  username make the same string, so one signature serves both. `InviteVerifies` and
  `NoFieldChangesUnnoticed` are stated for signed invites without a bar there.
- `envelope.proto:636` fixes the bytes of `server_signature` as "Direct byte
  concatenation, no separators" and "the only accepted format": a letter can move
  between user id and domain without changing them. The hybrid signature on the same
  certificate (`check_server_trust.py:38`) has a length before each text and is told
  apart fully; `SignedBytesTellApart` says of the older one only what it gives.
- `check_content_types.py:83` says that an own-devices-only type is "never a
  transcript row of its own"; no rule checks it, and `CONTENT_TYPE_SENDER_SYNC` is
  own-devices-only with `transcript_own_device`. The note in
  `knst_content_types.json:38` says "Only 0, 21 and 24 may appear" on a
  SealedInner; the table allows 28 and not 21.
- A name edit that overtakes a new avatar loses it until the next edit, and so does
  media that is gone when a share is applied: sending the profile again does not help,
  since it is not newer (`StaleAvatarWasMissed` says that nothing else makes a picture
  wrong, `CaughtUpShowsProfile` when it is right).
- Transport events carry neither port nor start; see section 4. Turning `on` while
  probing or in a cooldown is pinned by no case. `auto_leaves_veil_when_direct_answers`
  unroutes without dropping the gRPC client, so `ChannelsFollowPort` is stated
  while VEIL is active.

- `messaging_service.proto:675` says of a higher generation that "the old key stops
  being accepted — a rotation takes effect now, not when the old window runs out".
  The rule itself replaces the set "for these epochs": yesterday's tags stay for
  their grace, and when the rotating call was made before midnight and the old
  key's publish after it, the last day of the old window stays too.
  `RotationTakesEffect` is the claim for the days the rotating call covers, where it
  holds from the moment the call is stored.
- Two devices that rotate, or mint, at the same time make two keys of one
  generation. Both stay accepted and neither replaces the other anywhere, so two
  revocations at the same time may each leave the other device's key in use.
- A device that rotates, publishes and is lost before its card leaves keeps the
  others out: they are told the generation, not the key. They can rotate above it.
- `envelope.proto:248` says that "any card with a field is longer" than 32 bytes. It
  holds for fields of the right length; a card with only a generation is shorter,
  and one with a key of 30 bytes is exactly 32 long (`CardIsReadBack` says what
  remains true).
- `check_invite.py:29` puts `jti` and `uuid` into lower case and signs `device_id`
  and `addr` as written, although the binary keeps no case: an invite with either
  in upper case would not verify. The vectors have them in lower case.
- `check_sticker_pack.py:45` escapes hashes but not title, publisher and emoji: a
  quote or a backslash there would stop the check or change the bytes it compares.
- `media_fields_in_order` indexes past a payload that is cut off (an IndexError
  stops the check; nothing is accepted).
- `sync-from-server.sh` copies and never deletes: a schema removed in
  construct-server stays here.

## 7. Plan

Done: read-state sync with proofs, transport, profile share, history stream, file,
records and vectors, seeded RNG with proofs, KNST frames, content types, intake
keys, contact cards, invites, the signed statements, sticker text.

Proved, for every value of the constants: every safety invariant and action property of
the passing runs except `Conforms`, and the refinement of `AccountRead`.

Left: liveness, which stays with TLC; and the parts of section 8, should their
programs come into this repository.

## 8. Not modelled, and why

- Session control: SESSION_RESET, SESSION_RESET_INIT, SESSION_PING and
  SESSION_READY are retired and kept for recognition; what a client does about a
  DECRYPTION_ERROR is decided in construct-core.
- The redemption and lifetime of invites, the sticker and server trust services:
  their servers are elsewhere. The layout of a device certificate and of an encoded
  delegation are fixed offsets checked on one vector.
- Service and message schemas other than the parts of `envelope.proto` and
  `messaging_service.proto` named above: declarations without behaviour.
- Cryptography: signatures, KEM, HMAC and AEAD are ideal where they appear at all.
- `generate-swift.sh`, `sync-from-server.sh`, the commit hook: calls of external
  tools and copies of files, without state of their own.
- `knst_device_copy_tag.json`, `knst_safety_number.json`, `knst_token_seal.json`:
  vectors whose program is not in the repository.
