# A TLA+ model of rn-signal-protocol-messaging

This directory holds a formal model of the React Native module for Signal
messaging: TLA+ modules translated from the code, the configurations that TLC
checks on small instances, and proofs that TLAPS checks for every size. The code
is the reference; `PROJECT.json` names, for every definition that models code,
the lines it stands for.

## 1. The system

The module gives a JavaScript app a small interface (`init`, `registerAccount`,
`addContact`, `sendMessage`, `receiveNewMessagesByContact`, ...). It is written
twice, in Java for Android (over the external libsignal-java) and in Swift for
iOS (over libsignal-protocol-c, which is in the repository and is what the
models of the protocol are translated from).

| Part | Code | State | Operations |
|---|---|---|---|
| Bridge | `RNSignalClientModule.java/.swift` | user name, the client | one method per call of the app |
| Client | `SignalClient.java/.swift` | none of its own; callbacks in flight | register, pre keys, send, receive, delete |
| HTTP client | `SignalServer.java/.swift` | requests in flight | `call`, with success and failure handlers on the main thread |
| Protocol storage | `ProtocolStorage.java/.swift`, `*StorePillar.swift` | `local.json`, pre keys, signed pre keys, sessions, identities: one JSON file each | load, store, remove, `deleteAll` |
| Message storage | `MessageStorage.java`, `MessagesStorage.swift` | one JSON file per contact and tag | store, read, delete |
| Session record | `session_record.c` | the current session state and up to 40 archived ones | archive, promote |
| Session state | `session_state.c` | root key, sender chain, up to 5 receiver chains, pending pre key | the fields' updates; the list of kept message keys |
| Session builder | `session_builder.c`, `ratchet.c` | none | a session from a bundle, or from a pre key message |
| Session cipher | `session_cipher.c` | none | encrypt, decrypt (both kinds of message) |
| Group cipher | `group_cipher.c`, `group_session_builder.c`, `sender_key_*.c` | sender key records | distribute, encrypt, decrypt; not called by the client |
| Formats | `protobuf-c.c`, `*.pb-c.c`, `protocol.c`, the serializers of records | none | pack, unpack, merge; MAC and signature |
| Key derivation | `hkdf.c`, `ratchet.c`, `sender_key.c` | none | root, chain and message keys |
| Fingerprints, device consistency | `fingerprint.c`, `device_consistency.c` | none of their own | texts, scans, codes; not called by the client |
| Memory | `vpool.c`, reference counts in `signal_protocol.c` | blocks, counts | growth; ref and unref |
| The rest | wrappers, curve25519, callback dispatch, logging | none that others depend on | |

How they interact: a call of the app runs on the native modules thread until its
HTTP request is on the wire; the rest of it runs in the response handler, on the
main thread. Nothing connects the two but the promise and the files. The files
are read and rewritten as a whole, without locks. libsignal-java holds a lock
during `encrypt`, `decrypt` and `process`, and the stores are called inside it.
The server queues messages until they are deleted, and hands out one-time pre
keys.

What makes this hard to test:

- messages are lost, repeated and reordered, and each side starts a session of
  its own, because a client reads messages only of contacts it has a session
  with;
- a session is built, deleted and rebuilt while messages made with the old one
  are still on their way;
- calls overlap, and the state that a handler finds is not the state in which
  the request was sent;
- two threads rewrite the same file;
- the process may die between two writes that belong together;
- limits (2000 kept keys, 5 chains, 40 states, 100 pre keys, the reset at 300)
  are reached only after long use.

`PROJECT.json` lists these as hazards, each at the line where it bites, with the
properties that cover it or the reason why none does.

## 2. Modules

| Module | Models | Uses |
|---|---|---|
| `Lists` | the linked lists of the C code: search from the head, unlinking a node | |
| `MessageKeys` | what a receiver chain does with a counter: derive ahead, keep, take, evict, refuse | |
| `ReceiverChain` | one sender chain and its receiver chain over a bad network | `MessageKeys` |
| `MessageKeyList` | the kept keys as the linked list the code has | `Lists`; refines `ReceiverChain` |
| `SessionState` | session states and records, the ratchet, set-up, decryption over current and archived states | `MessageKeys`, `Lists` |
| `Session` | two devices that add, delete and re-add each other, register anew, and exchange messages | `SessionState` |
| `Registration` | `init`, `registerAccount`, `resetAccount`, pre keys, the server's account, peers that fetch keys | |
| `Receive` | polling, pushes, the history file, DELETE requests, two threads, crashes | |
| `Send` | `sendMessage` with its requests, the retry with new keys, the promise | |
| `SenderKeys` | what a member keeps about a sender of a group | `Lists` |
| `Group` | distribution, encryption and decryption in a group over a bad network | `SenderKeys` |
| `Wire` | `protobuf-c.c`: sizes, packing, scanning, unpacking, merging | |
| `Codec` | what happens to an encoding: cut, joined to another, passed on by an older reader | `Wire` |
| `Schemas`, `KeyFormat` | the generated descriptors; keys as bytes | |
| `Messages` | the four messages of `protocol.c`, cut or damaged | `Wire`, `Schemas`, `KeyFormat` |
| `Records` | session records and pre keys, changed, saved and loaded | the same |
| `SenderRecords` | sender key records, changed, saved and loaded | the same, `SenderKeys` |
| `KeySchedule` | HKDF and the keys derived with it | |
| `Fingerprints`, `Consistency` | comparing identity keys, between users and between devices of one | |
| `Vpool`, `Ownership` | the growing buffer; reference counts of session states | |
| `MC...` | what TLC runs | the above |
| `SessionInvariants` | the inductive invariant of `Session` | `Session` |
| `...Proofs` | theorems | see section 4 |

### MessageKeys, ReceiverChain, MessageKeyList

A chain is its `index` and the set `skipped` of counters whose keys are kept.
`KeysResult` and `KeysChain` are `session_cipher_get_or_create_message_keys`:
a counter below the index takes its kept key or is a duplicate, one more than
`MaxSkip` ahead is invalid, any other derives all keys up to it (`Advance`).
`KeepNewest` is the eviction at the end of `session_state_set_message_keys`.
`Accept` is the copy-then-replace of
`session_cipher_decrypt_from_record_and_signal_message`.

In `ReceiverChain`, `Deliver` hands over any counter that was ever sent, any
number of times, which covers loss, repetition and reordering, and
`DeliverDamaged` any counter at all with a MAC that does not verify.
`MessageKeyList` has the list of keys in place of the set, with insertion at the
tail, eviction at the head once per insertion, and the search from the head; the
refinement maps the list to the set of its elements.

### SessionState, Session

Cryptography is symbolic: a key pair is a number, an agreement the set of two
numbers, a root or chain key the sequence of agreements behind it. A message
carries the chain it was encrypted with, and its MAC verifies exactly when the
receiver arrives at the same chain and the same two identities.

`SessionState` has the operations of `ratchet.c`, `session_builder.c`,
`session_record.c` and `session_cipher.c` on records: `ProcessBundle`,
`BobInitialize`, `Ratchet`, `Promote`, `DecryptFromState`, `DecryptFromRecord`.
`Session` adds the client: `AddContact` and its callback `OnPreKeys` are two
actions, since the bundle may be stale when it is used; `Receive` is the
ladder of the two clients (signal message, pre key message, pre key message
after the identity was removed). Every message stays in `net` for ever, so every
message may come at any time and again. `CrashInReceive` ends the process inside
a decryption: after the identity was saved, or after the session was stored and
before the one-time key is removed and the text handed on. `lost` and `kept`
remember what that leaves behind, and the properties say exactly what it may
cost: the text of that one message, and a one-time key that stays.

Simplifications: one address each; the signed pre key goes with the identity, as
the client makes both at registration and never rotates it; the server has a
one-time key for every request and the peer has its private half (which is what
`PublishedStored` of `Registration` says); previous counters and registration
ids are left out, as nothing that is modelled reads them; a second `addContact`
replaces the answer of a first one that is still on its way. Pre key ids start
over after a registration, so a removed id may name another key; `Receive`
chooses (`clash`).

### Registration

`local` is `local.json`, `stored` the pre keys file, `calls` the HTTP exchange of
each outstanding call. One module serves both platforms, and the five places
where they differ are operators of their own: the first id, the size of a
refill, what makes `registerAccount` update attributes only, whether a stored
registration id is overwritten, and what triggers the soft reset. Requests may
be refused, may fail before or after the server has acted, and the process may
die. The server is external: a new registration clears the account, and keys
that are published are added to those that are there or replace them.

A batch is stored key by key, and every key rewrites the whole file; so does the
removal of a key that a first message used up. `access` is what each of the two
threads is doing with the file: the main thread stores keys and works off polled
messages, the native modules thread works off pushed ones. Reading or writing
may fail, and the process may die with the file open. `disturbed` remembers that
two calls overlapped, that both threads had the file open, or that a failure or
crash hit an open file; `PublishedStored` speaks of the states before that. An
app that awaits each promise (`Awaits`) still overlaps on iOS with the check of
the pre keys that `createClient` leaves running.

Simplifications: one user name; the signed pre key goes with the identity; the
message history, which the soft reset keeps, is not part of this module; ids do
not wrap.

### Receive

The session is abstracted to the set of messages it has used the keys of, which
is what `ReceiverChain` and `Session` establish about it (at most once, then
"duplicate"). Decrypting and storing the session is one step, under the
library's lock. The history is a file: reading it, emptying it (opening it for
writing) and writing it are three steps of a thread. The main thread works off
the answers to polls, in the order of the answer; the native thread the pushed
messages and the messages the app saves. A message that cannot be decrypted is
stored as a warning every time it is met, and deleted on the server like the
others; entries are counted up to `MaxEntries`. A message that is no valid JSON
or Base64 (`Broken`) ends the loop over the answer, as on Android: what comes
after it waits for a later poll, and meets it again.

Reading and writing the history may fail, and the code reports the error and
goes on. `damaged` says that the file was cut short and cannot be parsed,
`harmed` has the messages whose entries were kept out of it that way; the
properties except exactly those.

The app's use of `decryptSignalMessage` followed by `deleteSignalMessage` is
taken from the two calls that the module offers for it.

### Send

One contact, several calls at once. `session` is the registration of the contact
that the session is for, `peer` the one the server knows; a message encrypted for
another one is answered with `staleDevices`. `phase` is what a call waits for.
On Android each request is preceded by one for the server's time, and without a
network `call` returns and no handler runs (`silent`); on iOS the request fails.
`Response` treats every answer without `staleDevices` as success, as the code
does. `RequestFails` is a failure before or after the server took the message.
`PreKeysFail` on Android rejects a null promise, which ends the process
(`alive`). The retry is a posted runnable on Android and a call inside the
handler on iOS. Encryption itself is in `Session`, the history file in
`Receive`; here a send adds one entry, to the history of the contact on Android
and to that of the user's own name on iOS (`saved`).

### SenderKeys, Group

As for sessions, with what is different in the code: a chain is distributed from
where it is, a repeated distribution message puts it in front again, up to
`MaxStates` states are kept and looked up from the front, and `group_cipher_encrypt`
stores the next chain key before it returns. `Encrypt` and `Return` are two
actions, since the process may end between them; `Decrypt` may be refused by the
callback.

### Wire, Codec, Schemas, Messages, Records, SenderRecords

Bytes are numbers, and the widths are constants: `DigitBits` of a varint's byte
(7 in the code), `WordBits` and `LongBits` (32, 64). With 4, 10 and 17 every
length of a varint, sign extension and all boundaries occur with small numbers.
A message is a function from field names to sequences of values. `Schemas` has
the descriptors of the generated code. A MAC or a signature is a number computed
from what it covers; two bytes or three hold it.

`Records` changes a session record by the setters that the ratchet, the builder
and the cipher call, in any order, and saves and loads it in between; so the
states that are serialized are not only those a protocol run reaches. Kept
message keys beyond `MaxKept` (2000 in the code) push out the oldest.

In `Messages`, a pre key message comes to a device that has a session from an
earlier one or has none. `AcceptsPreKey` follows
`session_cipher_decrypt_pre_key_signal_message`: whoever is first is trusted, and
the identity is saved before the MAC of the message inside is verified
(`session_builder.c:72`); what is accepted in the end is what
`DamagedPreKeyIsHarmless` is about.

The length of a member with its prefix is a 32-bit sum, and wraps in
`ScanLengthPrefixed` as in the code: for a length that leaves no room for the
prefix the check for an early end passes. What the code would then read from
behind the buffer is not modelled; a value that no byte has stands for it
(`Beyond`). `CutIsSeen` is about all other lengths.

### KeySchedule, Fingerprints, Consistency, Vpool, Ownership

SHA-512 and HMAC are not in the repository: the library calls them through the
crypto provider. They are computed by an arithmetic stand-in, or are terms, so
that equal outputs mean equal inputs. In `Consistency` the application, which is
not in the repository either, keeps the signatures it accepted, each with the
commitment it was accepted for, and passes those of the present one.

`Ownership` follows each session state through
loading, decryption with a copy, promotion, archiving and destruction, with
allocations that fail; what the failed deserialization leaves behind
(`session_record.c:220`) is counted in `leaked`. `Vpool` keeps, next to the
block, the sequence its caller thinks of.

## 3. What is checked

Passing runs. The properties are named in `PROJECT.json`; each has a mutant, a
plausible bug in the code under which TLC finds the property violated. Several
runs check modules that share no state in one go: `mode` (`part` in `files`),
chosen in the initial state, says which of them moves.

| Run | Mode | Shows | Bounds |
|---|---|---|---|
| `chain` | chain | `AtMostOnce`: no counter is decrypted twice. `WindowKept`: a message at most `MaxKeys` behind the head was decrypted or has its key. `NeverAhead`: damaged messages leave no trace. | 6 messages, look-ahead 3, 2 kept keys: both limits are passed, eviction happens repeatedly |
| | list | `ImplementsChain`: the list does what the set does; evicting the head is evicting the oldest key. | the same |
| | group | `ReadsBounded`: a message is read at most once per set-up of its chain. `GroupKeysUsedOnce`: no key encrypts two messages, with crashes. `UnreadGroupReadable`: whatever the order and whatever the callback refuses, a message within the limits can be read. `NewestKept`: eviction takes the oldest state. | 4 messages, 2 chains, 3 set-ups, 2 states, look-ahead 2, 1 kept key |
| `session` | replay | `AtMostOnce`: no message is read twice, through deletion, re-adding, new registrations and stale bundles. `KeysUsedOnce`: no key encrypts two messages. `DuplicateMeansRead`: "duplicate" is said only of what was read, or lost in a crash, or whose key had to go because more than `MaxKeys` messages of its chain followed. | 2 messages, 3 additions of a contact, 1 new registration: a contact can be added, deleted and added again with a message of either session under way |
| | crash | the same with a crash inside a decryption | no new registration, 1 crash |
| | order | `UnreadIsReadableInOrder`: whatever the order, each message not read yet can be read, over crossing sessions, archiving, promotion and a crash, which loses at most the message in hand. | 4 messages, both sides adding each other once, 1 crash; look-ahead and kept keys 5, so that no limit refuses a message |
| `files` | android, ios | `PublishedStored`: until the file is disturbed, a published one-time key of the present identity is in the file, or in what a thread is about to write there, until it is used. `FetchedOnce`: no key is handed out twice. | 2 calls at once, batches of 2, refill at 1, reset above 2, 4 fresh values: registration, refills, reset and registration again |
| | history | `StoredOnce`: the text of a message is in the history at most once, with polls, pushes, lost DELETEs, two threads, failing reads and writes, and crashes. | a good message, one that cannot be parsed and one of the app's own |
| `eventually` | poll | `DeletedIsStored`: the server's copy goes only after the message is in the history, or a read or write of the history failed for it. `DecryptedIsKept`: the same for the key that reads it. `EventuallyStored`: with the same exception, every message gets there that no unparsable one precedes. | a good message, a bad one and one that cannot be parsed; failing reads and writes; no pushes, no crashes |
| | android, ios | `SettledOnce`, `TakenOnce`: one settlement, and one copy at the server. `EventuallySettled`: a call ends, except in the ways the code has to stay silent. | 2 calls, 3 registrations of the contact: a retry can be stale again, and one call can rebuild the session the other one uses |
| `wire` | codec | `RoundTrip`, `SizeExact`, `PrefixGrowsByOne`, `CutIsSeen`, `JoinedIsMerged`, `UnknownSurvives`: what is packed is read again, in the size that was asked for, and what is cut, joined or unknown is treated as such. `JoinedIsMerged` has one exception to the comment on `merge_messages` (`protobuf-c.c:2005-2012`), that singular fields of the later message replace the former: an empty byte string counts as absent. | a field of each type and label, values at the ends of their ranges, every cut; the largest stored schema |
| | messages | `AcceptedExactly`: intact and between its two ends, a message is accepted, and otherwise refused. `DamagedPreKeyIsHarmless`, `KindsAreApart`. | both versions, counters and ids at their ends, any one byte changed to five others, every cut |
| | records, senders | `SavedIsLoaded`, `SenderKeysSurvive`: a record is read as it was written, after any calls. `NewestArchived`: the oldest states go. | 4 calls on a record, 2 chains, 2 kept keys, 2 archived states, 2 sender states |
| `library` | fingerprints | `FingerprintsAgree`: the users see the same exactly when they know each other's keys | 2 identity keys per user, in any order |
| | consistency | `CodesAgree`: devices that have collected everything show the same code exactly when they have the same generation of the list and the same keys | 2 devices, 2 generations, 3 lists in all |
| | schedule | `ExpandsExactly`, `KeysAreSeparate` | 4 steps, 2 agreements, both versions |
| | pool | `PoolHolds`: the pool holds and exports what was put in | 4 calls, block 3, limit 7 |
| | ownership | `CountsExact` | 6 objects, 2 previous states |

In `files` the constraint `Undisturbed` stops the search behind a state in which
the pre keys file was disturbed (the state itself is still checked):
`PublishedStored` says nothing about what follows, and `FetchedOnce` is proved
for it (section 4). The part with the history is not affected.

Deadlock checking is switched off in the passing runs, since a bound on fresh values, messages or
calls ends every behaviour.

Runs that show a disagreement with the documentation or a comment. Each is a
finding in `PROJECT.json` with the line it contradicts.

| Run | What happens |
|---|---|
| `registration_last_resort` | the last resort key is published and never stored |
| `registration_soft_reset` | the highest pre key id is compared with 300 where the comment speaks of the amount: a few refills, and a device with few keys is reset |
| `registration_copy` | on iOS `createClient` resolves while its check of the pre keys still runs; a refill and a registration then publish batches with the same ids, and the one stored later replaces the other |
| `receive_crash` | the process dies after the session was stored and before the text was: the next poll calls the message a duplicate and deletes it |
| `receive_threads` | a poll and a push rewrite the history at the same time, and one entry is lost |
| `send_history` | on iOS a sent message is put into the history of the user's own name, not of the chat with the contact |

Some things the models show are not runs. A message whose key was evicted is
refused as a duplicate though it never came; `WindowKept` says exactly how late a
message may be. A message that the server refused with an error status is in the
history as sent.

Fairness. Only the run `eventually` needs it. `WF(Poll)`: the app keeps polling,
as the wallet does while a chat is open. `SF(OnMessages)`: not every answer is
lost, the assumption without which nothing can be received. `WF(Step(t))`: a
thread that has work goes on, which Android's looper and the native modules
thread guarantee. `WF(Handle(m))`: a request that was made is answered or fails,
since both HTTP clients have timeouts, and the main thread runs the handler. No
fairness is assumed of DELETEs, of the server's answers, of the sender or of the
pushes. `EventuallySettled` also rests on `MaxRegs`: the retry has no limit of
its own, so a contact that registers anew before every attempt would keep a call
going for ever.

## 4. What is proved

TLAPS checks these for every value of the constants.

- `ChainProofs`, about `ReceiverChain`: `TypeCorrect`, `DecryptedAtMostOnce`,
  `WindowIsKept`, `ReceiverNeverAhead`. The properties are not inductive one by
  one: the invariant adds that kept and decrypted counters are below the index
  and disjoint. `WindowIsKept` rests on a counting lemma (`KeepNewestWindow`):
  with everything below `n`, at most `n - k` elements are not below `k`, so
  eviction cannot reach `k`. Assumption: the limits are natural numbers.

  About `MessageKeyList`: `ListImplementsChain`, that the list of message keys
  implements the set. The mapping takes the list to its elements. `ListInv` says
  that the list is ordered, oldest key first, and not longer than `MaxKeys`; so
  dropping the head when a key is added drops the oldest key (`EndGrows`), and
  after any number of keys the list holds the newest of all
  (`SkipToKeepsNewest`), which is what `KeepNewest` takes from the set in one go
  (`NewestOfList`).
- `RegistrationProofs`: `TypeCorrect`, `PublishedKeysAreStored`,
  `KeysAreFetchedOnce`, for any number of calls, on both platforms, with file
  faults and crashes. The invariant has two parts. `Base` holds always: every key
  and identity was drawn in the past (`Fresh`), the keys of a batch are with one
  call or at the server or a peer (`Apart`), the file has one entry per id
  (`Unique`). `Calm` holds until the file is disturbed: one call is outstanding
  and one thread has the file open (`Alone`), a registration runs only without
  and a refill only with an identity (`CallsAgree`), and each key that is out is
  in the file or in what will be written, while the rest of a batch has none of
  their ids (`Kept`). Behind a disturbance `PublishedStored` may fail, as
  `registration_copy` shows.
- `ClientProofs`, about `Receive`: `TypeCorrect` and `HistoryShowsOnce`. The
  invariant says that a message has its key used up before its first entry
  exists, hence that of all threads only one can have it in hand, and that no
  copy of the history a thread holds knows it while it is in hand (`Single`).
  `PollingLosesNothing` and `PollingReadsToHistory`, for an app that only polls
  and a process that does not die (`PollingAlone`): what left the server, and
  what has its key used up, is in the history or about to be written there, or
  a read or write of the history failed for it. Their invariant `PollInv` adds
  that between reading the file and writing it the one thread has all of it in
  hand that did not fall to such a failure (`WholeHistory`), and that a message
  to be deleted was written before. `receive_threads` and `receive_crash` show
  that the two assumptions are needed.

  About `Send`: `PromiseSettledOnce` and `ServerTakesOnce`, for any number of
  calls and registrations and both platforms. The invariant adds that a promise
  is settled only when its call has ended, and that while a call may still be
  sent again its last request was never made or was answered with `staleDevices`,
  so that the server has no copy (`CallOK`). A handler touches one call only
  (`Untouched`), which leaves one case per action.
- `GroupProofs`: `GroupKeyUsedOnce`, wherever the sender stops, with the
  invariant that the stored chain is past every message encrypted with it
  (`ChainAhead`) and that seeds are not used again; no assumption on the
  constants. `GroupReadsBounded`, `GroupUnreadReadable` and `GroupNewestKept` are
  about the receiver. Their invariant `GroupInv` says that the list of every state
  is ordered and ends before its chain (`Spread`), that the reads of a message,
  with the states that can still read it, are together no more than the set-ups
  of its chain at or before it (`ReadsPaid`), and that the first state of a chain
  has kept every key it skipped that is not too old (`SkippedKept`). Assumption:
  the limits are natural numbers (`GroupAssumption`).
- `LibraryProofs`: `PoolKeepsData`, that `vpool.c` holds and exports what its
  caller put there, for every block size, limit and data. The invariant
  `PoolInv` says that the block holds the caller's sequence after the gap in
  front of it, place by place (`Holds`), and that the size of the block is within
  the limit; growing, shifting, inserting and truncating are each shown to keep
  `Holds`, from lemmas about what `SubSeq` and `\o` have at each place.

  `CountsAreExact`, about `Ownership`: `CountsExact` for every limit of archived
  states and every finite set of objects (`OwnershipAssumption`; 0 stands for the
  null pointer and is no object). The counts alone are not inductive: `OwnershipInv`
  says that no state is in the record twice, that none of the record's states was
  left behind by a failed deserialization, and that the heap is exactly one
  reference for each of both and none for the rest (`Once`). `UnrefAllLess` and
  `NewStatesMade` say what the loops that release and create states end with;
  `Promoted` covers promotion with eviction, with and without memory for the node.
- `SessionStepProofs`, `SessionActionProofs`, `SessionProofs`: `NothingReadTwice`, `NoKeyUsedTwice` and `DuplicatesWereRead`,
  from `SessionInvariant`, for any number of messages, additions, registrations,
  crashes, archived states, chains and kept keys. `SessionInv` has seventeen
  parts. Those that carry the argument: a ratchet key sends in one state only
  (`SendersApart`), which is past all messages sent with it (`SenderAhead`); the
  key with which a receiver chain was agreed on sends no more (`OwnKeysRetired`),
  so no chain is agreed on twice (`ReceiversApart`); no receiver is ahead of the
  messages (`ReceiverBehind`); the key of a used message is gone from every state
  of the device, archived ones included (`UsedIsGone`), and the one-time key with
  which a state for it could be built anew is gone from the store
  (`UsedPreKeyGone`, `OffersOK`). A key that is gone was used or is too old
  (`GoneIsUsed`). The proof abstracts the actions to one relation (`Step`: one
  device gets a new current state, made from one of its states by reading some
  messages; all others stay). `SessionStepProofs` shows each part for `Step`,
  `SessionActionProofs` each action to be a `Step`, given what the operators
  return, and `SessionProofs` proves that (`OutcomeRead`) and puts the three
  together. Assumptions: `StatesAssumption` (at least one receiver chain; the
  number of archived states is natural), `MessagesAssumption`, and the limits of
  `MessageKeys`.

Loops over lists (`SkipKeys`, `SkipTo`, `UnrefAll`, `NewStates`) are recursive functions in the models.
That they are defined, and what they end with, is proved by looking at the least
number for which it fails (`LeastNumber`), since the prover cannot apply the
library's induction theorems.

Only model-checked:

- liveness (`EventuallyStored`, `EventuallySettled`): the prover has no fairness
  and no `ENABLED`;
- `UnreadIsReadableInOrder` of the run `session`: it holds for the behaviours of
  its mode only (no deletion, no new registration, nothing past the limits), and
  that two crossing sessions always find each other's states among the archived
  ones needs an invariant about both records at once;
- everything of the run `wire`: `Wire` and the modules on it use `RECURSIVE`
  operators, in whose modules the prover loses its arithmetic;
- of the run `library`, `FingerprintsAgree`, `KeysAreSeparate`, `ExpandsExactly`
  and `CodesAgree`: `Fingerprints` stands on `Wire` and so on `RECURSIVE`
  operators; `KeysAreSeparate` is an induction over the terms that stand for the
  keys, and `ExpandsExactly` one over the rounds of HKDF; `CodesAgree` rests on
  what sorting returns, an induction over the list.

No module that is proved about has a `RECURSIVE` operator.

## 5. What is not modelled

- The arithmetic of curve25519 and ed25519, most of the C code by lines: numbers
  of 255 bits in ten limbs, of which a small instance would say nothing. Keys,
  agreements, MACs and signatures are symbolic or arithmetic stand-ins.
- Of `protobuf-c.c`: oneofs, default values and services, which no schema of the
  library uses, allocation failures, and enums and groups of descriptors.
  `KeyExchangeMessage` has a schema and no code that uses it.
- The Swift wrappers and the callback dispatch of `signal_protocol.c`, which pass
  calls, buffers and error codes through; `uthash.h`, `utarray.h` and, beyond
  search and deletion, `utlist.h`.
  Memory is modelled for session states and for `vpool.c` only.
- The JSON files of the protocol storage as files, but for the pre keys file,
  which two threads rewrite in `Registration`: what each call reads and writes
  of the others is part of the actions that make it, one step per store.
  Overlapping rewrites of the session file depend on the lock inside
  libsignal-java, which is not in the repository.
- Unread counts, `deleteContactPendingMessages`, deletion of a history while its
  messages are worked off, contacts without a session in `Receive`.
- Legacy envelopes, logging, encodings and data holders.

## 6. What could come next

An abstract conversation (each message read at most once, none invented) that
`Session` implements, with a proof from `SessionInv`; the
session file under two threads, with the library's lock as an
assumption; `Receive` joined with the deletion of contacts.
