# TLA+ models of dela

This directory holds TLA+ models of the concurrent parts of dela (`src/`): the
cosipbft block synchronizer, the minogrpc session that carries every
distributed RPC, the Pedersen DKG handler, the access controller's
"add identities" action, and the skipchain in-memory block database. TLC checks them. Each model is
written from the Go source. Where the source of a collaborator is not in the
repository (the routing tables and the connection manager), the collaborator
is modelled from `spec.md`, and `PROJECT.json` marks those definitions
`spec_modelled`.

## 1. The system and its parts

| Part | Source | State it keeps | Operations | Concurrency |
|---|---|---|---|---|
| Block synchronizer | `core/ordering/cosipbft/blocksync/default.go` | node: block store length, `latest` (atomic), handler mutex; per Sync: soft/hard sets, errors, event channel (capacity 1) | `Sync`, `routine`, `syncNode`, `GetLatest`; `handler.Stream`, `waitAnnounce`, `ack`, `sendToChannel` | one goroutine per Sync; one handler goroutine per incoming stream, all sharing the node's mutex and `latest` |
| Session | `unnamed/part_005` (package `session`) | parents (RW lock), relays map (mutex), live-relay WaitGroup, queue, errs | `Send`, `sendPacket`, `sendTo`, `setupRelay` with its relay goroutine, `onFailure`, `Listen`, `Close`, `RecvPacket`, `Recv` | a goroutine per Send, per sendTo, per relay; the parent stream's Listen |
| Routing table (flat, tree) | not under `src/` (spec §4.B) | failed peers | `Forward`, `OnFailure`, `Make` | called from the session's goroutines |
| Connection manager | not under `src/` (spec §4.A) | reference count per address | `Acquire`, `Release` | own lock |
| Pedersen DKG handler | `unnamed/part_009` | `running`, start result, deal/response channels (capacity 200) | `Stream`, `start`, `doDKG`, `deal`, `respond`, `certify`, `finalize`, `handleDeal`, `handleDecrypt` | one Stream per incoming RPC; doDKG in its own goroutine |
| Skipchain in-memory DB | `unnamed/part_007` | block slice, mutex | `Write`, `Read`, `ReadLast`, `Contains`, `Atomic` | callers of any goroutine |
| Access controller, add action | `contracts/access/controller/action.go` | the access store (through the access service, not under `src/`) | `addAction.Execute`, `parseIdentities` | one call per CLI command |
| flatcosi handler, pow observer, other CLI controllers, JSON engine | `part_000`, `pow/observer.go`, `part_003`, `part_010`, `cli/crypto`, `part_001` | none worth modelling | — | — |

How the parts interact. A leader's `Sync` opens a stream RPC to the
participants through minogrpc. The participants' overlay servers create a
session per RPC. The session forwards each packet through relays chosen by the
routing table, opening the connections through the connection manager. The
blocksync handler on every participant reads from that session and writes to
it. The DKG handler uses the same RPC layer. The models treat each of these as
a component and abstract the layer below it: BlockSync assumes per-stream FIFO
delivery that may fail, and Session models one node's session.

## 2. Modules

### BlockSync (`BlockSync.tla`, instantiated by `MCBlockSync.tla`)

Constants:
- `Players`: the participants.
- `Leaders`: the nodes that start a Sync.
- `Syncs`: the Sync calls.
- `OrchOf`: the leader of each Sync.
- `MaxBlock`: the bound on the chain length.
- `MaxSendErrors`: the bound on failed sends.

Per-node state:
- `blocks`: the block store length.
- `latest`: the `latest` counter.
- `owner`: who holds the handler mutex.

Per Sync, for the orchestrator's `routine`:
- `oPc`, the goroutine's position;
- `announced`, `soft`, `hard`, `errd`, `target`, `next`;
- `ch`, `closed`: the event channel and whether it is closed;
- `seen`: the last event the caller read.

Per (Sync, player), for `handler.Stream`:
- `hPc`, the handler's position;
- `hIdx`, the announced index it got;
- `toP` and `toO`, the two FIFO directions of the stream.

`cancelled[s]` is the Sync caller's context.

Actions map one to one to the code's steps:
- `Sync` is `Sync`.
- `AnnounceOk` and `AnnounceFail` model the announcement and its error loop (98-107).
- `RecvRequest`, `RecvAck` and `RecvFail` are the receive loop (115-145).
- `SyncNodeSend`, `SyncNodeFail` and `SyncNodeEnd` are `syncNode` and its error branch.
- `Finish` is the loop exit and `close(ch)`.
- On the handler side:
  - `WaitAnnounce` is the early check at 191;
  - `Lock` is 201-208;
  - `SendRequest` is 210-213;
  - `CatchUp`, `CatchUpDone` and `HandlerRecvFail` are 215-232;
  - `Ack` is `ack`.
- The environment: `Commit` (a leader stores a block), `Cancel` (the caller's context) and `Consume` (the caller reads an event).

A send fails either because the context is cancelled, or by a bounded
nondeterministic transport error. `NewEvent` with the channel update is
`sendToChannel`'s drain-then-push.

The duplicate-request branch (123-127) is not an action. Each handler sends
at most one request per stream, so no state reaches that branch.

### Session (`Session.tla`, instantiated by `MCSession.tla`)

One node's session with one parent.

Constants:
- `Peers`: the distant addresses.
- `Calls`: the Send and RecvPacket calls.
- `RecvCalls`: the calls that are `RecvPacket` of a child's packet; the others are `Send`.
- `MaxRelays`: relay identities over the lifetime.
- `MaxCrashes`: the bound on peer crashes.
- `MaxStreamErrors`: the bound on relay streams that end with `codes.Unknown`.

State:
- per call: `callPc`, `dests`, `delivered`, `errored`, and `nErrs`, the errors pushed on its `errs` channel;
- per (call, destination): the sendTo goroutine `task`, and `taskConn`, the connection generation of the relay it uses;
- the session mutex `mu`, the relays map `relays`, and the relays with their drain goroutines `rel`;
- the WaitGroup counter `wg`;
- from the connection manager: `refs` and `connGen`;
- from the flat table: `failed`;
- from the environment: `down` (crashed peers) and `cancelled` (the parent stream's context);
- `listenPc` and `closed`.

Actions:
- `Send` and `RecvPacket`: the two callers, each under the parents read lock, up to the spawn in `sendPacket` (the helper `SendPacket`). With no parent left, `Send` pushes "packet ignored", while `RecvPacket` returns an error and pushes nothing.
- `Complete`: sendPacket's `wg.Wait` and `close(errs)`.
- `SetupExisting`, `SetupAcquire` and `SetupDial`: the three steps of `setupRelay`, the last two under the held mutex.
- `RelaySend`: `relay.Send` and its error branch. A successful send may return an ack carrying the peer's error (`AckError`), which sendTo pushes.
- `DrainEnd`, `DrainError`, `DrainDelete` and `DrainRelease`: the relay goroutine.
- `ParentEnd` and `ListenReturn`: `Listen`'s loop and its deferred teardown.
- `Close`: `Close`.
- `Crash`: the environment.

The flat routing table routes a destination to itself unless it is marked
failed, and then voids it. Its `OnFailure` marks the peer and returns an error,
so `onFailure` reports the destination and does not retry. A relay send fails
when:
- the peer is down,
- the parent context is done, or
- the connection the relay holds was closed, because its count reached zero and it was possibly redialled.

### PedersenDKG (`PedersenDKG.tla`, instantiated by `MCPedersenDKG.tla`)

One DKG setup over all participants, with the orchestrator that starts it.

Constants:
- `Nodes`: the participants.
- `ChanSize`: the capacity of the deal and response channels (`chanSize`, 200 in the code).
- `MaxFaults`: the bound on failed starts, receive errors and early closes by the orchestrator.
- `MaxDecrypts`: the bound on decrypt streams.
- `OrchTimeout`: whether the orchestrator's context has a deadline.

State per node:
- the setup Stream's position `sPc`, and `pending`, the message a blocked push holds;
- `running`, and `done` (`startRes.Done()`);
- `ctxDone`, meaning globalCtx is cancelled because Stream returned;
- `inbox`: messages sent to the node and not yet received, delivered in any order;
- `dealsCh` and `respCh`: the two `cryChan`s;
- for the doDKG goroutine:
  - its position `dkgPc`;
  - `dealTo`, the participants still to get our deal;
  - `nDeals` (`numReceivedDeals`);
  - `dealer` and `respTo` for the deal `handleDeal` is answering;
  - `respGot`, the responses `certify` has processed.

Orchestrator state: `orchPc` and `gotDone`, the StartDone messages it holds.

Actions:
- `StreamBegin`: the `h.Lock` check at 164-175. It refuses the stream when `running` is set, and sets `running` unless the key is done.
- The receive loop:
  - `RecvStart` (with `start`) and `StartFail`;
  - `RecvDeal`, `RecvResp` and `PushUnblock`: `cryChan.push`, which blocks while the channel is full;
  - `RecvTimeout` (returns only if the key is done), `RecvEOF` and `RecvError`.
- Stream's deferred cancel sets `ctxDone`.
- `Decrypt`: a Stream carrying a DecryptRequest. It passes the same check, then `handleDecrypt` fails unless the key is done.
- doDKG:
  - `DealSend`: `deal`. A failed send is only logged.
  - `RespondPop`: `respond`'s pop.
  - `HandleSend`: `handleDeal`. A failed send, or a send aborted by the cancelled context, fails doDKG.
  - `CertifyPop`: until (n-1)^2 responses.
  - `FinalizeSet`: `SetDistKey`.
  - `FinalizeSend`: the StartDone select.
- Every wait of doDKG fails once `ctxDone` is set, and doDKG's defer clears `running`.
- The orchestrator is not under `src/`, and is modelled from the spec:
  - `OrchStart`;
  - `OrchClose` once every StartDone is in;
  - `OrchGiveUp`, when its context deadline (`OrchTimeout`) expires before every StartDone is in; it closes the streams.

Cryptography is abstracted: every deal and response verifies.

### SkipchainDB and BlockStore (`SkipchainDB.tla`, `BlockStore.tla`, instantiated by `MCSkipchainDB.tla`)

`BlockStore` is what the `skipchain.Database` interface promises. Blocks are
written one at a time, and `Atomic` applies a transaction's writes together,
to the chain as it is when the transaction commits, or applies none of them.

`SkipchainDB` is `InMemoryDatabase`, used by the goroutines `Procs`:
- `Write`: one step under the mutex. It appends at the end, overwrites an
  existing index, or fails with "missing intermediate blocks".
- `Atomic`, in three steps:
  - `AtomicClone`: `db.clone()` under the mutex;
  - `TxWrite`: the transaction's writes to the clone, without the mutex, at
    most `MaxTxWrites` of them;
  - `AtomicStore` (the transaction returns nil: `db.blocks = snapshot.blocks`
    under the mutex) or `TxFail` (it returns an error).
- `Contains`, `Read` and `ReadLast` change nothing and are left out.

The refinement mapping is the identity on `blocks` and `txLog`; a goroutine
is in a transaction while it is inside the callback.

### AccessAction and AccessControl (`AccessAction.tla`, `AccessControl.tla`, instantiated by `MCAccessAction.tla`)

`AccessControl` is the abstract promise of the add action: a call with a list
of identity strings either grants every identity of the list and replies ok,
or grants nothing and replies with an error. An identity string is valid when
it is base64 of a BLS public key.

`AccessAction` is `addAction.Execute`, one step per call:
- the three injector resolutions (native service, access service, access
  store), in order; the first one missing is the error (`FirstMissing`);
- `parseIdentities`, as the RECURSIVE operator `ParseIdentities`: each id is
  base64-decoded and unmarshalled in order, and the first failure ends the
  parse with no identities;
- `Grant` on the access store. The access service is not under `src/`; it is
  modelled as an atomic add of the identities that may fail with the store
  unchanged.

The constants are small functions: `B64Decode` from identity strings to bytes
or `DecodeErr`, and `NewPublicKey` from bytes to keys or `KeyErr`. The
injector's content is any subset of the three dependencies, because it depends
on which controllers' `OnStart` ran.

The refinement mapping keeps `req` and `granted`, and maps `result` (nil or
the error Execute returned) to the abstract reply "ok" or "error".

## 3. Runs

| Run | Bounds | Checks | Result |
|---|---|---|---|
| `bs_concurrent` | 1 player, 1 leader, 2 Syncs by that leader, `MaxBlock` 2, 1 send error | `TypeOK`, `HardMeansSynced`, `ReplyInOrder` | pass |
| `bs_players` | 2 players, 1 Sync, `MaxBlock` 3, no send errors | `HardMeansSynced`, `FinalEventComplete`, `LockReleased` | pass |
| `bs_lock_held` | as `bs_concurrent` | `LockReleased` | violation (finding) |
| `sess_safety` | 2 peers, a Send and a RecvPacket, 3 relays, 1 crash, 1 Unknown stream error | `TypeOK`, `RefcountBalance`, `SendAccounted`, `CloseQuiescence`, `ErrsWithinCapacity` | pass (2.1M states) |
| `sess_liveness` | 1 peer, 2 Sends and a RecvPacket, 2 relays, 1 crash, 1 Unknown stream error | `SendCompletes`, `SessionQuiesces` | pass |
| `dkg_safety` | 3 nodes, `ChanSize` 1, no faults, node symmetry | `TypeOK`, `CertifiedAfterAllResponses` | pass (1.18M states) |
| `dkg_faults` | 2 nodes, `ChanSize` 1, 2 faults, 1 decrypt, orchestrator deadline | `CertifiedAfterAllResponses` | pass |
| `dkg_running_leak` | 2 nodes, 1 decrypt | `NoStaleRunning` | violation (finding) |
| `dkg_startdone_lost` | 2 nodes, no faults | `SetupCompletes` | violation (finding) |
| `dkg_chan_full` | 3 nodes, `ChanSize` 1, no faults | `SetupSettles` | violation (finding) |
| `skip_lost_update` | 2 goroutines, blocks at indexes 0 and 1 with 2 contents, 1 write per transaction | `AtomicIsSerial` | violation (finding) |
| `access` | 4 identity strings (2 keys, 1 non-key, 1 non-base64), 2 calls, every list of up to 3 ids, every injector content | `TypeOK`, `ParseMatchesReference`, `AllOrNothing` | pass |

What the properties say:
- **HardMeansSynced.** A player the orchestrator counts hard-synced without an error has every announced block.
- **ReplyInOrder.** A handler catching up always finds the next reply it needs at the head of its stream. Two concurrent Syncs on one node cannot interleave their catch-ups, because of `h.Lock`.
- **FinalEventComplete.** When a Sync has finished and the caller has drained the channel, the last event it saw reports all players hard-synced, although `sendToChannel` drops intermediate events.
- **LockReleased.** Every handler that takes the mutex eventually releases it.
- **RefcountBalance.** The connection manager's count for a peer equals the relays whose goroutine has not yet released, plus the setups between `Acquire` and the end of their dial. The WaitGroup counts the same relays.
- **SendAccounted.** When a Send's channel closes, each destination was reached or named by an error.
- **CloseQuiescence.** When `Close` returns, no sendTo is running, no relay is left, and every reference is released (spec property 3).
- **ErrsWithinCapacity.** No call pushes more errors than its `errs` channel holds: `len(destinations)` in `RecvPacket` and one more in `Send`. `RecvPacket` reads its channel only after `wg.Wait`, while the parents read lock is held, so one push too many would block a sendTo, the `RecvPacket` and `Listen`'s teardown forever. `Send`'s caller reads its channel concurrently. The spare slot means no push waits for the caller. Voids, onFailure errors and ack errors from all the call's sendTo goroutines count together.
- **SendCompletes.** Every Send's channel is eventually closed (spec property 5).
- **SessionQuiesces.** Once the parent stream ends, `Close` eventually returns.

- **CertifiedAfterAllResponses.** A node stores the key only after certify has processed the response of every other participant to every deal, and after every participant has dealt. This holds whatever order deals, responses and Start arrive in, and even when a Stream fails mid-setup.
- **SetupSettles.** `running` set by a setup stream is cleared again.
- **NoStaleRunning.** `running` is set only while a setup Stream is receiving or doDKG has not returned.
- **SetupCompletes.** Once every node holds the key, the orchestrator eventually holds every StartDone. The run has no orchestrator deadline, so the orchestrator does not give up.
- **AtomicIsSerial.** `SkipchainDB` implements `BlockStore!Spec`, with an `INSTANCE ... WITH` refinement mapping.
- **ParseMatchesReference.** For every identity list of the bounded set, `ParseIdentities` equals its declarative reading: the keys of all ids when all are valid, or else the error of the first invalid id.
- **AllOrNothing.** `AccessAction` implements `AccessControl!Spec`, with an `INSTANCE ... WITH` refinement mapping. A call that fails at any step, including on the last of several ids, has granted none of them.

Each property of a passing run has a mutant in `PROJECT.json`: a plausible bug
in a mapped action, under which TLC finds that property violated.

The bounds are large enough for the interesting cases:
- Two Syncs on one node make the mutex and `latest` contended.
- `MaxBlock` 2 or 3 lets a Sync need several replies, with a commit in between.
- One send error reaches each error branch.
- In `sess_safety`, two peers let one call fan out to two sendTo goroutines. One call is a `RecvPacket`, whose channel has no spare slot.
- Three relay identities cover a relay that ends with an Unknown error and is reopened. A relay ends only by a crash, a cancel or an Unknown error, and no new relay can succeed after the first two.
- In `dkg_safety`, three nodes and channels of capacity one let a node receive deals and responses before its Start, and let a push block on a full channel. Symmetry over the nodes is sound: the handler treats every address alike.
- `dkg_faults` has two nodes, which is enough for a cancelled pop in certify. Three nodes with faults reach over 40M states.
- In `access`, lists of up to three ids over four strings include a failure after one or two good ids and the empty list. Two calls let a second grant add to the first.
- The liveness runs use smaller state spaces, because liveness checking with a fairness conjunct per goroutine is expensive. `LockReleased` is checked on one Sync over two players without send errors; with a send error it fails (`bs_lock_held`). Two Syncs over two players with liveness did not finish in 6 minutes.
- In `skip_lost_update`, one write per transaction and two block indexes are enough for a transaction to overwrite a concurrent append.

## 4. Fairness

Every goroutine is weakly fair. Go schedules every runnable goroutine.

Taking a `sync.Mutex` is strongly fair. Go's mutex switches to starvation mode
after a waiter has waited 1 ms and then hands the lock over to it. In Session
this is one strong-fairness conjunct per goroutine; for the steps that stay
enabled once enabled, it is equivalent to weak fairness.

In PedersenDKG each Stream goroutine and each doDKG goroutine is one weakly fair process. The receive timeout is part of the Stream's weak fairness: time passes, so a Stream with nothing to receive eventually times out. The orchestrator's start and close are fair. Its give-up is fair when `OrchTimeout` is set: the orchestrator's context then has a deadline, which eventually expires. With `OrchTimeout` FALSE it never gives up.

The following are never fair: commits, cancellations, crashes, Unknown stream
errors, the end of the parent stream, DKG faults and decrypt requests, new Send calls and the caller reading the
event channel. The runs check that the properties hold whatever they do.

`CHECK_DEADLOCK FALSE` is set because the protocols terminate: a finished Sync
and a closed session are final states.

## 5. Finding

**`bs_lock_held` (`LockReleased` violated).** When `syncNode` fails to send a
block, the orchestrator records the error, counts the player as hard and may
finish. The participant's handler waits for the missing reply with
`context.Background()` while holding `h.Lock`, so it keeps the mutex. Every
later Sync on that node then waits at `h.Lock`. The comment at 197-200 says the
lock only serialises catch-up. Only the session closing the stream would free
it.

**`dkg_running_leak` (`NoStaleRunning` violated).** A DecryptRequest stream
that arrives before the key exists passes the check at 171 and sets `running`.
`handleDecrypt` then returns "you must first initialize DKG", and nothing
clears `running`. Every later setup stream is refused with "DKG is running",
although the comment at 164 says only a setup in progress is refused. A failed
`start` or a receive error before Start leaves the flag set the same way; the
test in `cli/crypto` relies on that.

**`dkg_startdone_lost` (`SetupCompletes` violated).** `finalize` stores the key
(448) before sending StartDone. From that moment a receive timeout of the same
node's Stream returns nil (189), and its deferred cancel ends globalCtx. The
StartDone select then takes the context branch, and the orchestrator waits for
a StartDone that never comes.

**`dkg_chan_full` (`SetupSettles` violated).** Spec §9 says the deal and
response channels are unbounded and never block. `cryChan.push` blocks once
`chanSize` items are queued. A Stream blocked on push cannot receive the Start
(or the deal) that doDKG needs before it pops. With `chanSize` 200 this needs
more than 200 deals or responses to arrive early.

**`skip_lost_update` (`AtomicIsSerial` violated).** `Atomic` clones the
blocks under the lock (121-123), releases it while the transaction runs,
and then replaces `db.blocks` by the clone (130-132). A `Write` by another
goroutine in between is undone: goroutine 1 clones the empty chain,
goroutine 2 writes block 0, goroutine 1's transaction returns nil, and the
chain is empty again. The interface says `Atomic` "allows the execution of
atomic operations", and the struct's mutex makes it safe to call from
several goroutines. Nothing in `src/` calls it, so whether a caller
serialises its calls cannot be checked here.

## 6. Not modelled, and the plan

Properties deliberately not checked:
- **Every Sync ends.** With a send error, the handler keeps `h.Lock` (`bs_lock_held`), and a second Sync on that player waits until its caller cancels. Cancellation is not fair. The runs small enough for liveness have one Sync and no send errors, so a pass there would hide exactly this case.
- **Every started doDKG ends.** Only the orchestrator's close ends a setup, and it does not reach a Stream blocked in `cryChan.push` on a full channel, which has no context (`dkg_chan_full`). Two nodes never fill a channel. Three nodes with faults and channels too large to fill are beyond TLC within five minutes.
- **`GetLatest` never decreases.** The compare-and-store of `latest` runs under `h.Lock` in one step (`default.go:206-207`), so the property would only restate its guard.

Session facts the model takes as given:
- The model lets `Close` run only after `Listen` returned. The overlay server, which is not under `src/`, makes that call.
- `Close`'s `Wait` counts relay goroutines only (`part_005:965`), not sendTo goroutines as spec §4.D says. The model follows the code.

Not modelled yet:
- **The tree routing table**, with rerouting in `onFailure`. It would be modelled from the spec as a refinement of an abstract "complete partition" Forward.
- **Session parts:** `Recv` and the queue (a destination equal to the session itself, whose push may fail), multiple parents, and `SetPassive`.

Not modelled at all:
- flatcosi: a stateless signer.
- the pow observer: one channel send.
- the other CLI controllers and `cli/crypto`: sequential wiring of flags, keys and files.
- the JSON engine: marshalling.

Nothing in them interleaves or keeps state across calls.
