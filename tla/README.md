# TLA+ models of the Demex SDK

This directory holds TLA+ models of the parts of `demex-sdk` that keep state and
run concurrently, the TLC configurations that check them on small instances, and
TLAPS proofs of what holds for every instance. `PROJECT.json` lists components,
runs, mutants, findings, hazards and theorems and maps definitions to source
lines. Paths below are relative to `src/packages/`.

    tlc -workers 2 -config MCTxSafety.cfg MCTxPipeline.tla     # one run
    tlapm QueueManagerProofs.tla                               # one proof module

## 1. The system

The SDK is a library for one JavaScript event loop. Nothing runs in parallel,
but everything that awaits lets others in: requests, timers, socket events and
calls of the application interleave at every `await`. Nothing is persisted.

| Component | State | Operations | Talks to |
|---|---|---|---|
| Task queue, `core/src/util/tx.ts` | `queue`, `isProcessingQueue`, `currQueueTrigger`, `currTriggerThreshold` | `enqueue`, `trigger`, `process` (timer callback) | the processor it was given (`signTx`, `dispatchTx`) |
| Mutex, `core/src/util/mutex.ts` | `locks`, `waiters` | `lock`, `wait`, release function, `unlock` | every cached client |
| Cached clients, `core/src/query/provider.ts`, `getGasFee` in `sdk/src/sdk.ts` | one field and one mutex per client | `getTmClient`, `getStargateClient`, `getQueryClient`, `getGasFee` | each other (nested), the node |
| Transaction pipeline, `sdk/src/sdk.ts` | two task queues, `wallets`, options | `signAndBroadcast`, `triggerWalletAccMergeIfRequired`, `queueTx`, `signTx`, `dispatchTx`, three broadcast modes, `setGrantee` | wallets, node, callbacks of the application |
| Account cache, `wallet/src/wallet.ts` | `account` with the next sequence number and `isMerged`, `_signingClient` | `reloadAccount`, `reloadMergedWalletAccount`, `signTx` | pipeline, node, signer |
| Grantee, `wallet/src/grantee.ts` | `expiry`, `authorizedMsgs` | `isAuthorised`, `constructExecMessage` | choice of a wallet in the pipeline |
| WebSocket connector, `websocket/src/connector.ts` | socket, flags, three kinds of timers, handlers of promises, requests and channels | `connect`, `disconnect`, `subscribe`, `unsubscribe`, `request`, `onOpen`, `onMessage`, `onError`, `onClose` | the WebSocket, the server, a status listener |
| Channel ids, `websocket/src/channel.ts` | none | `generateChannelId`, `parseChannelId` | connector |
| Ledger, `ledger/`, `node-ledger/` | cached device connection | `connect`, `testDevice`, `disconnect`, `sign` and other exchanges | signer of a wallet, the device |
| EIP-712 signing, `wallet/src/eip712*.ts`, `signer.ts` | none between calls | `sign`, `signAmino`, `getTypes` | amino conversions, the wallet application, codecs |
| Amino conversions, `amino-types/` | none | `toAmino`, `fromAmino` | signing |
| Fee, REST, gRPC, hydrogen, bridge, env, codecs | none or constants | pure functions, I/O wrappers, generated code | – |

How a transaction travels: `queueTx()` puts a request with the handler of its
promise into `txSignManager`. `signTx()` chooses a wallet, wraps the messages for
a grantee, obtains fee and timeout height, and has the wallet sign with the next
sequence number of its *cached* account, which it moves on at once: requests are
signed ahead of the chain. The signed transaction goes to `txDispatchManager`;
`dispatchTx()` broadcasts it, resolves or rejects the promise, or – on "account
sequence mismatch", once – reloads the wallet's account and puts the request at
the end of the *first* queue again. The two queues work concurrently, each on
one request, and both, and the application, reload accounts. A caller may ask for
its account to be merged first: then a request of the SDK's own goes the same way,
and the caller waits for it and for a reload behind it.

What is hard: the debounce timer racing a long-running loop; sequence numbers
given out ahead while reloads overwrite the cache with the committed number;
transactions that reach the chain although the client saw an error; handlers
that must survive two queues and a retry; nested mutexes; events of an old
socket reaching a connector that has a new one. `PROJECT.json` lists these as
hazards, each with its line and the properties that would catch it.

What makes each component correct:

- task queue: tasks are processed one at a time, in order, none is lost, and a
  steady stream of requests does not postpone them for ever;
- mutex: exclusion, no lost wake-up, first come first served;
- cached clients: one creation, a failure leaves nothing locked, no deadlock;
- pipeline: messages are executed at most once per request; a resolved promise
  means executed; a rejection for the sequence number is final; every promise is
  settled; order is kept; the chosen wallet is one that may sign;
- merge: what a caller sends goes out only after its account is merged;
- connector: one live socket, a truthful `connected`, timers that end with their
  connection, subscriptions the server shares, promises that are settled;
- channel ids: found again from the id, and different for different subscriptions;
- Ledger: one transport, no unchecked or closed connection without an error, a device
  in order serves every operation that has a connection;
- EIP-712: the wallet displays every field, the types refer to one another, what is
  broadcast is what was asked for, an approved transaction is not lost.

## 2. Modules

| Module | What it is |
|---|---|
| `SerialQueue` | abstract: tasks in a line, one worked on at a time |
| `QueueManager` | `tx.ts`; refines `SerialQueue` |
| `QueueManagerProofs` | theorems about it |
| `FifoLock` | abstract: callers in a line, the first holds the lock |
| `Mutex` | `mutex.ts`; refines `FifoLock` |
| `MutexProofs` | theorems about it |
| `ClientProvider` | the cached clients and the gas fee, over a FIFO lock each |
| `ClientProviderProofs` | theorems about it |
| `Chain` | external: accounts, the node's pool, blocks, other users of the key |
| `RequestLife` | abstract: what a caller can rely on: asked, executed at most once, settled once |
| `TxPipeline` | `DemexSDK` and the wallets' account caches, over two serial queues; extends `Chain`, refines `RequestLife` |
| `TxPipelineProofs` | theorems about it |
| `DebouncedPipeline` | `TxPipeline` with the timers of its two queues; for liveness |
| `WsConnector` | the connector, its sockets and the server |
| `ChannelIds` | the ids of channels, as operators |
| `WsConnectorProofs` | theorems about the connector and about the ids |
| `Heartbeat` | the connector's heartbeat, in time |
| `HeartbeatProofs` | theorems about it |
| `Ledger` | the connection to a Ledger device, its callers and its user |
| `LedgerProofs` | theorems about it |
| `Amino` | the generic conversions between a message and its amino form, as operators |
| `Eip712` | the signing client and the derivation of types, over `Amino` |
| `Eip712Proofs` | theorems about both |
| `MC…` | instances for TLC |

Composition is by layers. `QueueManager` is shown to implement `SerialQueue`, and
`TxPipeline` uses its two queues as such: a sequence, and at most one request in
work. That is enough for safety; whether a queue gets on depends on its timer, which
`DebouncedPipeline` puts back as far as it matters for that. `Mutex` is shown to implement `FifoLock`, and `ClientProvider` has such a
line per client. `TxPipeline` and `Chain` share one state space, as the chain's
order of events is what the pipeline is up against. `Eip712` is built on the
operators of `Amino`. `MCWsConnector` assumes of its channels what `ChannelIds` shows of
ids, and TLC evaluates that assumption.

### From code to actions

**QueueManager.** `Enqueue` is `enqueue()` with the `trigger()` it ends in;
`ProcessBegins` and `ProcessReturnsEarly` are the timer's callback with and
without a loop running; `ProcessorSettles` is the return of an awaited
processor and what the loop does next. Time is kept as what is left of it:
`timer` and `threshold` go down with `Tick`, a callback may run at any moment
after its time is up.

**Mutex.** A call is `new`, `waiting`, `resolved` (its promise is resolved, it has
not run again), `holding` or `released`; between `resolved` and `holding` others
may run. `LoopServes(w, n)` says how many waiters one `unlock()` wakes: the calls of
`wait()` in front, up to and including the first call of `lock()`.

**ClientProvider.** `frames[c]` is the stack of getters a caller is inside,
`line[x]` holds the callers at the mutex of `x`. `Locked` is what runs once the mutex is
had, `Created` the return of a creation, `Fails` its exception.

**TxPipeline.** A request is a number with a record `job` (signer, bypass, messages
raw or wrapped, attempts, wallet and sequence used). `sign` and `disp` say what
`signTx()` and `dispatchTx()` are at. Every `await` ends an action: `SignBegins`
(choice of the wallet), `Prepared` (fee, timeout height, `onRequestSign`),
`Loaded` (first load of the account), `Signed` (the write of the next sequence and
the hand-over in one step, as in the code), `SignReturns` (`onSignComplete` and the
catch block), `DispatchBegins`, one action per outcome of a broadcast,
`DispatchSucceeds`, `DispatchFails`, `RetryBegins`, `RetryQueued`,
`RetryAbandoned`. `reloadAccount()` is asked, answered (`AccountQueried`, by an account or by none: `NoAccount`), assigned
(`AccountAssigned`: the new account is not merged until its status is there), asked
for the merge status (`StatusQueried`) and returned, for each of its callers on its
own. Without an account it returns and changes nothing (`"missing"`), and `signTx()`
throws. A caller's request `r` may bring about two merges: `AwaitedMerge(r)`, begun by
`signAndBroadcast()` and waited for (`promise[r] = "merging"`), and `SideMerge(r)`,
begun by `signTx()` and waited for by nobody. `MergeReloaded` and `MergeReloadFails` are
the reload between a broadcast merge and its `resolve()`, `MergeFollowed` and
`MergeFollowFails` the reload behind `queueTx()` in the caller.
Abstracted: fee and timeout height as values, messages, the wording of errors
(an error is a mismatch or it is not).

**DebouncedPipeline.** A step of `TxPipeline` that takes a task from a queue whose loop is
not running needs the timer (`Begins`), and one that puts a task into a queue triggers
it (`Triggered`). `trigger[q]` is `"pending"`, or there is no timer and `currTriggerThreshold`
is 0 (`"quiet"`) or was left behind (`"lost"`) by a timer that expired on the running loop
(`TimerExpires`). A lost queue is woken by a call of `trigger()` only within 700 ms of the choice
of that threshold; the model takes either for possible. Its steps are steps of `TxPipeline`
or leave it unchanged, so that the invariants of `TxPipeline` hold of it.

**WsConnector.** The n-th call of `connect()`, the n-th socket and its timer share a
number. Each socket has a state, frames to and from the server and the server's
subscriptions. `Connect` has the `disconnect()` that `connectWebSocket()` begins
with; `Ends` is `onError()`, if the socket failed, and `onClose()`. Updates of
channels are not frames: they only call the application's handler, and an
update without handler leads to `unsubscribe()` of the bare channel name, which
has no handler either and sends nothing. Messages are delivered while a socket is
closing too (`Delivered`), as Node's `ws` does, if browsers do not. Abstracted: several channels in one
call, `debugLog`, `sequenceNumberCache` (written, never read).

**Ledger.** `todo[c]` is what the operation of caller `c` has still to do: connecting
looks at `cosmosApp` and puts `create` and the steps of `isReady()` in front of the rest;
an exchange is sent over whatever `cosmosApp` is then (`Send`) and answered later
(`Answer`, `Reject`). A transport may be refused because of what the user did to the device
or because another is open to it (`Create`): WebHID opens a device once (lines 83-91), a
claimed USB interface cannot be claimed again (the comment at lines 107-109), others may
allow it. A locked device is told as such by `getVersion()` alone, which leaves the
transport open; other exchanges see an unknown status (`LockedIsTold`).
`passed` and `failed` are history: the connections that passed `isReady()`, and those that
operations threw with. `atOnce` is how many operations run
at a time; the class is written for one, and the properties are about that case.

**Amino, Eip712.** A value is a tree: a function from paths to nodes, each a structure, a
list of structures or a leaf, and of a leaf only what the conversions tell apart is kept.
Of the conversions (`paramConverter()`, `utils.ts:177-224`) `Dec`, `Long` and `Duration` change
values and have kinds of leaves of their own, as has a date that no value map names
(lines 135-137); `Date`, `NumToStr` and `DecOrZero`, whose zero is `"0"`, come back as the values
they were and are texts. `LongToNum` and `DateToNum`, which drops milliseconds, are named by no
value map. Items of a nested list are converted by the map of the structure the list is in
(line 150), and it is that map which the kind of a leaf stands for. Lists of strings would be
taken apart at the top level (lines 253, 282), but no message that `generateAminoType()`
converts has one there. Durations are taken to be positive and of less than the 292 years
that a `Long` of nanoseconds holds.
A step of a path is a field and, in a list, the number of an item. What the code does by
descending a value (`compareValues()`) is a function on the value's paths, so that there is
something to prove about it. One action handles one message: `Convert` (`toAmino()`),
`TypeFirst`, `TypeMatched`, `TypeAgain`, `TypeFails` (the branches of the loop in `getTypes()`),
`Decides` (the user), `ConvertBack`, `Encode`. The type of a message is a module and a name; two
modules may share a name (`CreatePool`). The name of a type of the typed data is the sequence
of words it is put together from and its number, and inclusion of names is inclusion of
words. In the types of `EIP712Types` (`codecs/src/index.ts:1479`) this is no loss: within
a message no two paths give one name, and no name includes another but by whole words.

**Heartbeat.** Discrete time; what is due happens before the clock moves on. This is the
heartbeat over a global `WebSocket`. Over Node's `ws` (line 596), from its version 8 on,
messages are Buffers, and a pong is never recognised (line 370): there every connection
with a heartbeat ends after `timeoutHeartbeat`.

## 3. Runs

Passing runs, with the states TLC finds:

| Run | Bounds | Shows | States |
|---|---|---|---|
| `MCQueueManager` | 3 tasks, delay 2, threshold 5, callers do anything | order, no loss, timer within the threshold, refinement of `SerialQueue`, everything waiting is processed unless a timer expires on the running loop | 1,726 |
| `MCMutex` | 3 `lock()`, 2 `wait()`, double releases | exclusion, no lost wake-up, refinement of `FifoLock`, everybody in the queue of a locked mutex is served | 1,144 |
| `MCClientProvider` | 3 callers, 5 calls, 2 failures | created once, locks match, every call returns | 35,769 |
| `MCTxSafety` | fourteen scenarios, see below | the safety of the pipeline, refinement of `RequestLife` | 1,265,663 |
| `MCTxLiveness` | ten scenarios, see below | every promise is settled unless its request is left in a deaf queue; one request at a time succeeds, by the retry if need be | 113,473 |
| `MCWsConnector` | 3 overlapping `connect()`, 1 channel, 1 request, 2 frames under way, failing constructors | one live socket, truthful status, timers, handlers, subscriptions, settled promises | 872,636 |
| `MCHeartbeat` | default delays in units of 50 ms, round trip up to 50 ms | one missing pong is allowed, silence is noticed | 264 |
| `MCLedger` | 6 operations by one caller, 3 by two at once, 1 change of the device or refusal | one transport, no unchecked or closed connection that nobody was told of, a device in order serves whoever has, or can get, a connection | 1,284,665 |
| `MCEip712` | transactions of up to 3 out of 26 messages | types that are defined and never redefined, plain messages displayed in full, the body says what was asked, what is lost after approval | 201,350 |

`scenario` is a variable of `Chain` that is chosen in `Init` and never changes: what
callers ask for, what may go wrong, and the bounds. The scenarios of the runs are
records in `MCTxPipeline` and `MCTxLiveness`:

| Scenario | What it is |
|---|---|
| `Busy` | 3 requests in flight, block mode, lost answers, failing messages, slow blocks, refused signatures, one disturbance of any kind |
| `Reloading`, `ReloadingTwice` | 2 requests, the application reloading the account at any moment, with all faults of node and wallet and one disturbance, or with two disturbances |
| `Undisturbed` | 3 requests over two wallets (one names the grantee, one bypasses it), all faults, no disturbance: here `SequencesLineUp` says something |
| `NamedGrantee` | a request that names the grantee, disturbed: its second attempt is chosen a wallet for anew |
| `Granted`, `HalfGranted` | a genuine grantee that comes, goes and expires, callbacks and reloads that fail, with and without an explicit sequence number |
| `PlainGrantee` | the grantee `setGrantee()` installs, also for a request that names it |
| `Async`, `Sync`, `Mixed` | the other broadcast modes, the retry disabled, and one request of each mode |
| `Merging`, `MergingEach` | two callers at once whose account is to be merged, by the SDK's setting or by their options, with failing merges and reloads |
| `MergingOne` | one after the other, one of them asking for a merge itself |
| `Troubled`, `Reloaded` | for liveness: 2 requests in flight with faults of node and signer and one disturbance, and one request with the application's reloads |
| `OneByOne` | 3 requests, one at a time, one transaction of somebody else's: here `EveryRequestResolves` says something |

Runs whose violation is the result (the findings in `PROJECT.json`):

| Run | What goes wrong |
|---|---|
| `MCQueueStall` | a timer expiring on the running loop leaves a threshold in the past: the queue ignores all later requests |
| `MCWsReconnect` | the close event of the old socket closes the new one |
| `MCEip712Shared` | two messages of one type with different fields share a type that describes only one of them |

### What else the models show

These deviations are in the models, as the code has them, and shape the conditions of
properties; they have no run of their own.

Pipeline (`sdk/src/sdk.ts`):

- line 359: a reload that fails in the catch block leaves the promise open for ever
  (`RetryAbandoned`); so does a wallet removed between signing and dispatch (line 348,
  `DispatchBegins`);
- line 361: the request put back for its second attempt has neither `signerAddress` nor
  `bypassGrantee`, and may be signed by another wallet, or be refused for its author;
- line 187: `setGrantee()` installs a `DemexWallet`, which has no `isAuthorised()`: requests
  that name no signer are then rejected (`Recommended`, scenario `PlainGrantee`);
- line 320: the grantee signs the messages as they came; the `MsgExec` made for it is only
  in the request for the other queue, and so signed in a second attempt at best;
- lines 119-121: two callers that find the account unmerged each queue a merge; the
  second merge is refused and takes its caller's request with it. The reload behind
  a merge shifts the sequence numbers of what was signed meanwhile;
- line 260: a merge names its wallet as creator and is signed by the main wallet, so that
  a merge for another wallet is refused (`Author`, `Authentic`);
- line 306: a merge begun by `signTx()` is not waited for, and its failure is not handled;
- line 353: a merge that was executed is rejected if the reload behind it fails;
- line 171: `sendTxs()` always names a signer, so that a grantee is never chosen through it.

Connector: `subscribe()` sends nothing for a channel whose handler is older than the
connection (`leftover`); a second `connect()` loses the promise of the first, and a
constructor that throws leaves the promise open (the conditions of
`EveryConnectSettles`); requests lose their handlers with the connection (line 600);
`onOpen()` clears the wrong thing, so that the timer of an established connection may
reject a later `connect()` (`Opens` leaves `initTimers` alone); an update without handler
calls `unsubscribe()` with the bare channel name, which finds nothing and sends nothing
(line 382); with round trips of 100 ms and more one missing pong may end the connection
(`MaxRtt`).

Pipeline and queues (`DebouncedPipeline`): in block mode the dispatch loop ordinarily waits
for a block for longer than the 300 ms of its timer, so that with two requests in flight
the queue may go deaf, and a retry enqueued after that stays where it is until somebody
else sends something in time, or for ever (`Unheard`). With one request at a time it
is `onSignComplete()` that must not be slower than the rest (`PromptCallback`): the loop of
the first queue awaits it while the request is dispatched, and a retry may come to a
queue that goes deaf behind it.

Ledger: a connection is remembered before it is checked (line 131), so that after a
failed check the next call is not checked, test mode included; any error but the
screensaver closes the transport and keeps it (line 263), so that after one refusal
every operation fails until `testDevice()`; `testDevice()` leaves its transport open, and
may so keep the next operation from getting one to a device in order (the second
condition of `HealthyDeviceServes`); two operations at once make two transports, or send two messages over one.

Conversions: a type found to fit an empty structure fits everything, as does the type
of a message without fields (`CompareValues` on a type without fields), and
`matchingType()` looks among all types whose names *include* the message's: after a
`MsgSupplyAssetAndLockCollateral` with no field set, a second `MsgSupplyAsset` is given its
empty type. This is why `PlainMessagesDisplayed` asks of all such messages that they be
plain, not of the displayed one alone. The type of a
list is that of its first item; a list that is empty in the first message is `string[]`
in the others that share its type, and the other way round `getTypes()` throws; a nested
decimal that is zero becomes `null` and a nested `undefined` stays, both of which
`typeCheck()` (`amino-types/src/utils.ts:100`) throws on; an empty list among a message's
fields comes back as `{}`, which cannot be encoded, after the user has approved; an
integer of 2^32 or more comes back without its high word (line 193), so that
`BodyIsAsAsked` compares low words; the nanos of a `Duration` go out in milliseconds and are
added to the seconds as nanoseconds (lines 211-213), so that a second and a half, for
`MsgWithdrawToken.expiryDuration`, comes back as a second and 500 nanoseconds, and what is not
of whole milliseconds as what `Long.fromString()` makes of a fraction: `BodyIsAsAsked` compares
durations of whole seconds only; a nested date that no value map names, as
`MsgUpdateMarket.marketParams.expiryTime`, comes back as the text it was signed as (lines 135-137),
which cannot be encoded, after the user has approved; `MsgSetStakeEquivalence` and `MsgUpdateFeeTier` have one
amino type (`amino-types/src/types/market.ts:64`), and neither can be signed this way.

### Bounds

Every bound is a constant of its module or a field of a scenario (`maxDisturbed`,
`maxAppReloads`; `MaxCalls`, `MaxFailures`, `MaxConnects`, `MaxRequests`, `MaxFrames`,
`MaxMissed`; `MaxCalls`, `MaxChanges` of `Ledger`; `MaxMessages`). Two requests are enough for one being signed while another is
dispatched and retried; the third shows order. One disturbance makes a
transaction mismatch; the second makes its retry mismatch. Three calls of
`connect()` give an old socket, the present one and the next. Timers of the queue
only matter through the comparison of delay and threshold: 2 and 5 leave room for
two postponements. Three messages give a type, a message compared with it, and one
compared with two; the twenty-six messages are the shapes of Carbon's that decide how
types are shared: one structure, two side by side, one in another, a list, optional
fields, no fields at all, a name included in another, two messages of one name, a duration, a date. A word of 4 stands for 2^32. Three operations
after a failed one are enough to test the device and use it again.

### Fairness

- `QueueManager`: time passes, an expired timer's callback runs, a processor that
  was started settles. JavaScript runs expired timers; that the processors
  settle is what `MCTxLiveness` shows of `dispatchTx()` and `signTx()`.
- `Mutex`: a resolved promise's continuation runs, holders release (`finally`).
- `ClientProvider`: a caller that can go on does.
- `DebouncedPipeline`: a queue whose timer is pending or whose loop runs works on its requests,
  calls to the node, the signer and callbacks return, blocks take transactions from the
  pool. Each is one `WF` over the steps of one queue, of the reloads, or of the callers
  that wait for a merge, as far as timers let them (`Debounced`). That a queue is triggered is
  not assumed but modelled, and nothing is assumed of when `TimerExpires`: what
  `MCQueueStall` shows of one queue happens here too, and `EveryRequestSettles` says that it is
  the only thing that can keep a promise from being settled.
- `WsConnector`: timers expire. Nothing is assumed of the server.

`Ledger` and `Eip712` have no liveness properties and no fairness: what the user and the
device do is up to them.

Deadlock is not checked: all systems here may come to rest.

## 4. Proofs

All theorems hold for all values of the constants allowed by the modules'
assumptions, and are checked by `tlapm` to the last leaf. With them every safety
property of the passing runs is proved: the runs show it on small instances, the
theorems for any number of requests, callers, sockets, frames and messages, and any bounds.

- **QueueManager.** `TypeCorrect`, `FifoCorrect` (with a lemma on taking the head of
  a sequence), `TimerBounded` (if the delay is not longer than the maximal wait),
  `DeafnessExplained` (the invariant adds that a threshold without a timer comes
  from an overrun or a running loop) and `Refinement` (every action is a step of
  `SerialQueue` or a stutter).
- **Mutex.** The invariant says that queue and phases agree: whoever waits is in
  the queue once, and `locks` is 1 exactly when someone holds or is about to. From
  it `TypeCorrect`, `Exclusion` and `NoLostWakeup`; the waking loop needs the lemma that it stops
  at the first caller of `lock()`. `HandedOnInOrder` is the refinement of `FifoLock`: the
  line is who has the lock and then the calls of `lock()` in the queue (`Lockers`), which
  is defined by recursion on the queue's length. Three lemmas say what it does when a call
  is appended, when calls of `wait()` are taken from the front, and when the first call
  of `lock()` is; each is an induction over lengths, done with a lemma on sets of
  naturals (`SetInduction`), as the library's induction theorems are out of reach.
- **ClientProvider.** The invariant: a getter that has got past its mutex is at the
  head of its line and finds the field empty until it is left; a caller's frames
  go down in rank along `Needs`, so that it is never twice in the same getter.
  Entering and leaving a getter are a lemma each. From it `TypeCorrect`,
  `NeverCreatedTwice`, `CreatorIsAlone`. `LocksAreFrames` adds `LinesMatch`: a caller is in a
  line, once, exactly while it is in the getter.
- **Heartbeat.** `Invariance` bounds how close the timeout can be, for up to one
  missed ping and one under way, and how late a pong can be; `TypeCorrect` and
  `ZombiesFound` are parts of it. `OneMayBeMissing`
  needs `MaxRtt < Timeout - 2 * Interval`; the default delays leave 100 ms.
- **WsConnector.** `SocketInv`: the socket in the field has not come to its end, no
  other has either, `connected` is whether it is open. Each teardown is reduced to
  one lemma (`TeardownKeepsInv`). From it `NoSocketLost`, `StatusTrue`,
  `HeartbeatStops`. `HandlersKept` adds that calls of `connect()` come in order and
  that a request's socket is one that was made, so that no request is waiting on
  a new one. `FeedsHonoured` adds (`FeedInv`) that nothing is under way on a socket that has
  not opened and that a handler is one of this connection or left over, and follows
  the last frame about a channel when frames are sent and taken. `TypeCorrect` adds the
  timers, the handlers and the frames from the server.
- **ChannelIds** (in `WsConnectorProofs`). `SubscriptionsFoundAgain` and `SubscriptionsKeptApart`, for parameters of
  any texts without a colon; the tables of the two functions agree (`TablesAgree`), and
  no channel has more than two parameters (`UpToTwo`).
- **Ledger.** `AloneInv` describes what one caller at a time can rely on: the steps of
  its script are in the order `connect()` and `isReady()` put them in (`Scripts`), nobody
  else is half way (`OneAtATime`), past `connect()` there is a connection (`Connected`), a
  connection that has not passed is about to be checked (`ToBeChecked`), one that is not open
  is known to whoever was told, or to who disconnected (`StillOpen`), none is forgotten
  without `testDevice()` (`NoneForgotten`), and on a device in order the transport in the field
  is open (`HealthyConnection`). From it `OneTransportAlone`, `CheckedOrTold`,
  `HealthyServes`. The assumption `IsFiniteSet(Callers)` is there for counting who is at work.
- **Eip712.** See the second table below.

**TxPipeline.** The parts of the invariant stand at the head of `TxPipelineProofs`, each
with a lemma that a step keeps it; every theorem takes the parts it needs.

| Part | Says | Theorem it is for |
|---|---|---|
| `Shape` | types, and what each step of `reloadAccount()`, `signTx()` and `dispatchTx()` has at hand | `TypeCorrect`, and all others |
| `OptionsKept` | a request has its caller's options at its first attempt, no signer afterwards | `GranteeOnlyWhenAllowed` |
| `GranteeWasThere` | who has signed has been a wallet | `NothingForgotten`, `NumbersLineUp` |
| `Places` | a request is in one place at most: a queue, once, or in hand; before it is queued, in none; a merge is asked for by its caller alone | all below |
| `OpenInHand` | an open promise is in one place, or behind a merge that is | `NothingForgotten` |
| `Sends` | attempts are counted; what is yet to be sent is not known to the node; an earlier attempt, and one that met a mismatch, cannot get into a block any more; a transaction is known once | `NonceRejectionFinal`, `RequestsLive` |
| `SucceededIsExecuted` | what goes on after a broadcast in block mode has been executed | `MergeAlwaysFirst`, `RequestsLive` |
| `MergeFacts` | what is cached or about to be cached as merged is merged on the chain, and whoever waits for a merge gets on only behind it | `MergeAlwaysFirst` |
| `SubmittedInOrder`, `InOrder` | callers' requests come in order, and the places keep it for first attempts | `FirstsKeepTheirOrder` |
| `CalmFacts` | while `Calm`: no reload but for a first use, no mismatch, the next number is the cache's, and the signed requests of a wallet carry those from the expected to the cached one (`Numbered`) | `NumbersLineUp` |

`NonceRejectionFinal` rests on what makes a mismatch final: the transaction has the
wrong number for good, or was superseded in the pool, so no step makes an attempt that is
not `Live` live again (`StaysDead`). `RequestsLive` maps each request to its `RequestLife`; that a
request is executed at most once (`ExecutedOnce`) follows from `KnownOnce` for one attempt and from
`OldTriesDead` for different ones.
`NumbersLineUp` needs that calm, once lost, does not come back (`CalmBefore`): a request whose
messages name another wallet stays so signed, which `ReturnsAuthentic` says of what is tried
again. Its property compares positions in the line, not a line filtered by wallet: what
`SelectSeq` returns is known to the prover for no sequence but given ones.

**Eip712.** The parts of the invariant, in the section on the inductive invariant in `Eip712Proofs`:

| Part | Says | Theorem it is for |
|---|---|---|
| `MessagesInv` | the stages come one after the other; what is in amino form is a tree, and the conversion of what was asked for | `TypesCorrect`, and all others |
| `Numbered` | the number of a definition is below the count of names that include its own, that of a value below the count of message types | `DefinitionsStay` |
| `Complete` | a type that is referred to is defined | `ReferencesDefined` |
| `Originated` | every type of a message was made for one that bears its name, and describes it | `PlainDisplayed` |
| `Displays` | a plain message is described by the type it was assigned | `PlainDisplayed` |
| `BodyInv` | what was converted back is `FromAmino` of what was signed; `lost` is only for empty lists and dates that no map names | `BodyAsAsked`, `OnlyListsOrDatesLost` |

`DefinitionsStay`: `getLatestMsgTypeIndex()` numbers a name by counting the names that
include it, which is never too few. `PlainDisplayed` has two halves. A message that gets a type
of its own is described by it (`DefinesDescribes`), for different structures have
different names (`NamesDiffer`). A message that is given an older type fits it
field by field (`MatchedIsTyped`: for a plain value the *last* answer of `compareValues()` is the
only one there is), and what fits field by field is described (`TypedIsDescribed`). That
`CompareValues` and `DescribedBy`, which are recursive functions, are what their equations say is shown
from a lemma that a function defined by what is further from the root exists
(`Recursion`, by induction on the length of paths with `SetInduction`). `BodyAsAsked` is the
round trip of a tree (`RoundTrip`, with a lemma for the durations, `DurationBack`, and one for
the dates, `DatesAreLost`). The invariants were checked by TLC on the messages of
`MCEip712` before they were proved.

`Eip712Assumption` says what messages are: trees; names that are not empty and do not begin with
`Value`, as no type of `EIP712Types` does; that no message comes with what only the conversions
make, and dates at the top level have their map; and that messages whose names include one
another agree on which of their fields are structures. The last is so for all twelve such pairs in
`EIP712Types`, and TLC evaluates it for the messages of the runs.

Only model-checked are the liveness properties (`ProcessedUnlessOverrun`, `EveryCallServed`,
`EveryCallReturns`, `EveryRequestSettles`, `EveryRequestResolves`, `EveryConnectSettles`): the prover
has no rules for fairness and `ENABLED`.

The three properties that runs refute are not theorems, of course.

## 5. What is not modelled

- What `sendTxs()` does after `signAndBroadcast()`: one callback and one query whose result
  is written to the cached account. Login and logout of wallets: they make new SDK
  instances, which share nothing but clients.
- `google.protobuf.Any` inside messages, the memo for a foreign chain and the single
  message types' own processes in the conversions; `pruneAmino()`.
- Addresses, the choice of a transport and the path of a Ledger device.
- The caches of signing client and chain id: two first uses may each create one, and
  nothing but the cost can tell.
- Fee estimation (`fee.ts`, `estimateTxFee()`): a product of two looked-up numbers. A
  denomination without a price gives the fee 0, and the gas is always the default.
- REST, gRPC and hydrogen clients, bridge and network configuration: tables and
  wrappers of single calls, which keep no state.
- Generated protobuf codecs: about 300,000 of the repository's 312,808 lines, all in
  `codecs/src/`. They encode and decode field by field; no state, order or failure of
  theirs matters to the rest of the SDK but what `Encodes` in `Eip712` says. The share of
  the *whole* repository that the models cover is small for this reason alone; it is
  the larger part of the hand-written code that keeps state.
- Listeners of the connector that call it again from within (line 569).

## 6. Plan

In this order:

1. The lemmas that several proofs have in common (what `Append`, `Tail` and concatenation do
   to membership and order) in one module, and the longest case splits of
   `TxPipelineProofs` (`OpenInHandStep`, `KnownOnceStep`, `LineGoesOnStep`) by action.
2. What a transaction refused by the node does to the numbers behind it: a form of
   `SequencesLineUp` for one disturbance.
