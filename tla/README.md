# A TLA+ model of qortoo-rs

qortoo-rs is a Rust SDK for conflict-free replicated datatypes. A `Client` builds
datatypes (today a `Counter`); each is a replica that executes operations locally,
buffers them as numbered transactions and exchanges them with a backend through a
`Connectivity`. This directory models the parts of the SDK that carry its
correctness - the transaction machinery, the push buffer, the push/pull protocol
with its local server, the event loop, the counter's numbers and the client with its
registry and handlers - checks them with TLC on small instances and proves the core of
them with TLAPS for every instance.

All paths below are relative to the repository (`src/...` is its source crate,
`docs/...` its documentation). `PROJECT.json` maps every definition to the lines it
models and lists the runs, mutants, findings, hazards and theorems.

## 1. The system

| Part | State | Operations | Interacts with |
|---|---|---|---|
| Push buffer (`datatypes/push_buffer.rs`) | queue of transactions, `first_cseq`, `last_cseq`, `mem_size` | `enqueue`, `get_pushing_transactions`, `deque` | filled by commits (user thread), read by the event loop, both under the `mutable` lock |
| Mutable datatype (`mutable.rs`, `tx_record.rs`) | CRDT value, `op_id` (cseq), push buffer, checkpoint (sseq, cseq), state, the open transaction and the point to roll back to | execute local/remote, end transaction, rollback, snapshot, reset, disable | one `RwLock` shared by user threads and the event loop |
| Counter CRDT, operations (`crdts/`, `operations/`, `operation_id.rs`) | an `i64`; Lamport clock and cseq | increase, inverse, remote execution, snapshot bytes, stamping | called by the mutable datatype |
| Transactional datatype (`transactional.rs`) | `tx_ctx` slot, `op_mutex`, `tx_mutex` | single operations, transactions, `sync`, `unsubscribe` | user threads; queues events for the loop |
| Wired datatype, pull handler (`wired.rs`, `pull_handler.rs`) | none of their own | build a pack, exchange it, apply the response, route errors | event loop thread; backend |
| Event loop (`event_loop.rs`) | loop mode, bounded(1) and unbounded channel, back-off | receive, push, notify, sync, stop | users, server notifications, wired datatype |
| Local server and connectivity (`connectivity/local_*`) | per key: history, sseq, `cseq_map`, creator, registered clients | one `process_*` handler per datatype state, registration, removal | event loops of all clients |
| Client, manager, builder (`clients/`, `builder.rs`, `datatype_set.rs`) | map of datatypes by key under a `RwLock` | build, look up, unsubscribe, detach, drop | user threads, event loops (detach), connectivity |
| Handlers (`handler.rs`) | callbacks by priority | set, unset, dispatch on a runtime task | told by the mutable datatype of state changes and errors |
| Null connectivity (`null_connectivity.rs`) | none | answers every pack for a single client | event loops |
| Errors (`errors/`) | none | error to recovery action to loop mode | all |
| Observability, utilities | - | - | see section 8 |

What is hard here:

* **Concurrency.** User threads and the event loop share one replica. A public call
  is several lock sections; the state is checked in one (`check_writable`,
  `check_subscribed`) and used in another. `tx_mutex` is released by operations that
  never locked it, so isolation rests on `tx_ctx` alone.
* **The exchange spans locks.** A pack is built under the `mutable` lock, sent
  without it, and its response applied under it again: users commit, roll back and
  unsubscribe in between, and the response is judged by the state found then.
* **Failure.** Exchanges time out before or after the server ran, packs are repeated
  with more transactions, commits fail because the buffer is full, servers are removed
  while a client registers.
* **Progress.** Waiting calls retry around three locks; the loop drops events at a
  full channel, polls one channel only while backing off, and must still answer every
  `sync()` and push everything.

* **Lifetimes.** The registry, handles, runtime tasks and the event loop share ownership of
  a datatype. The last owner may go away on any of their threads, the event loop's
  included, and `set_state(Disabled)` reaches from the datatype's lock into the manager's.

What makes each part correct is stated as properties in section 4. `PROJECT.json`
("hazards") lists the places in the code where each could go wrong.

## 2. Plan

Done, in this order:

1. `PushBufferOps`, `PushBuffer`, `PushBufferProofs` (every invariant of the run proved).
2. `MutableOps`, `Transactional`, `TransactionalProofs` (every invariant of the run proved).
3. `SyncProtocol`, `MCSyncProtocol`: compose `MutableOps`, hence the push buffer, and
   `Errors` with the exchange and the server.
4. `EventLoop`, `EventLoopProofs` (every invariant of the run proved).
5. `ReplicatedLog`, `ReplicatedLogProofs`: the abstract specification of the server, which
   `SyncProtocol` implements; its promises proved.
6. `LocalReplica`, `MCLocalReplica`, `LocalReplicaProofs`: the counter's integer, Lamport
   clocks, snapshots (every invariant of the run proved).
7. `Client`, `MCClient`: registry, builder, handlers, null connectivity and lifetimes.
8. `SyncProtocolProofs`: the protocol's inductive invariant, its refinement of
   `ReplicatedLog`, and what follows from both; `SyncExactProofs`: what replicas hold, their
   convergence, and the types.
9. `ClientProofs` (every safety property of the run proved).

Left: switching a connectivity between realtime and manual while loops run. Every safety
property of a passing run has a theorem that covers every scenario of the run.

## 3. Modules

**`PushBufferOps`, `PushBuffer`.** The buffer as a record
`[txs, mem_size, first_cseq, last_cseq]` with one operator per method. `EnqueueTx` and
`DequeUpto` are the methods that change it; `accepted` and `released` are history
variables. A transaction's size is its number of operations plus one unit for its
header, so two limits (memory, transmission) can be met, missed and exceeded.

**`MutableOps`.** One operator per method of `MutableDatatype`, on a record with the
fields of the struct. The counter is abstracted to the number of effective operations
per *origin* (a call, or a datatype instance): this tells apart everything a counter
value would hide by cancellation, and is where duplicated, missing or half-rolled-back
operations show. `EndTransaction` is the commit with its failure path: a commit the
buffer refuses is rolled back by `apply_action`.

**`Transactional`.** Threads call a single operation or a transaction on one handle.
Each label of `pc` is a lock section of `transactional.rs`: storing or finding `tx_ctx`
(`Begin`), waiting by locking and unlocking `op_mutex` or `tx_mutex`, executing,
the `DeferGuard` callback (`End`, `TakeCtx`, `UnlockTx`). `EventLoopDisable` is the event
loop's `handle_error` with `RecoveryAction::Disable`, which may come at any moment.
`docs/transaction-and-rollback.md` says a call that meets another context returns an
error at once; the code waits and tries again, and that is what is modelled.

**`Errors`.** The way of an error: what a server or connectivity reports becomes a
`DatatypeError`, that a `RecoveryAction`, that a `LoopMode`. The assumption
`EverythingIsRouted`, which TLC evaluates, says that no reported error falls into the
`unreachable!()` of `mapping`.

**`SyncProtocol`.** Clients, each with a replica (`dt`, a `MutableOps` record), the
exchange its event loop is in (`net`) and a loop mode; one server entry (`srv`) with its
history. Per exchange: `StartPush` (pack built under the lock), one `Server...` action
per handler, possibly `RemoveServer` (second lock section of `push_pull`) or `TimeOut`
(before or after the server ran), then `ApplyPulled`, `ApplyError`, `ApplyIllegal` and
`HandleError` (the loop's reaction, a later lock section). A push may start at any time,
which covers every event that may start one. Each behaviour belongs to a *scenario* (`MCSyncProtocol`
lists them), which says who takes part, how often each client writes, how much an exchange
carries and what users and the network do, as a subset of `Behaviours`. `"debug"` chooses
what the underflow of `calculate_pulling_transactions` does: panic, or wrap to a count
larger than any pack. Two names recur in the properties: an *orderly* scenario has no
unsubscribes, no late subscribers, no lost exchange before the datatype is Subscribed and
no response inside an open transaction; a *sheltered* one does not combine unsubscribes with
responses inside open transactions. A client may leave the key and build it again, on the
same server object or on a new one (`Build`, `Register`, at most `MaxInst` times).

**`ReplicatedLog`.** What the server promises, without packs, locks, time-outs or states:
one log per key that every client's transactions enter once and in the order of their
cseqs (`Push`), members whose checkpoints only move forward and never ahead of the log
(`Join`, `Advance`, `Leave`), and a log that is given up with its last member (`Drop`).
`SyncProtocol!ImplementsLog` is its specification under the mapping: the log is the
history of the server the connectivity's map holds, `last` its `cseq_map`, and the members
are the registered clients whose datatype is Subscribed, with their checkpoints.

**`LocalReplica`.** The numbers the other modules abstract from: the counter as a
two's-complement integer of `Bytes` bytes that wraps around as in a release build, its
inverse operation, its snapshot bytes, the Lamport clock and cseq of `OperationId`, and
the rollback that restores both. Replicas exchange committed transactions through a log in
one step; how that is done is `SyncProtocol`'s subject. A subscriber gets a snapshot only
when the creator has nothing open and nothing unpushed (`Join`): the code does not wait for
that, and `sync_late` (section 5) shows what happens otherwise. The push buffer's limit is
clamped as `DatatypeOption` does.

**`Client`.** User threads build (free and taken keys), look up, write, unsubscribe,
synchronise, set and unset handlers and drop handles or the client; event loops exchange
packs with the null connectivity, disable and detach; runtime tasks call handlers. The two
locks that are held across steps are explicit: the manager's write lock while a build
reads the existing datatype's state (`BuildOccupied`, `ReadExisting`), and a datatype's
`mutable` lock while `set_state` detaches it (`loop[i].at = "detaching"`, `LoopDetach`).
`Owned` is whether the weak references of `Attribute` can be upgraded; `DropDatatype` is
`TransactionalDatatype::drop` once nobody owns it. A datatype's content is reduced to the
cseqs that decide whether a push is needed and a commit fits.

**`EventLoop`.** The scheduling of one loop: both channels, `LoopMode`, the exchange in
flight, `sync()` calls, `unsubscribe`, commits, `RemotePush` with its notification, and
`Drop`. The datatype is reduced to state, last committed cseq, checkpoint and whether it
has the server's duid. The length of a delay is abstracted: the timer may fire whenever
no event waits on the unbounded channel (`select!` prefers a ready channel). Every
transaction fits into a transmission (`Batch` is at least 1); `SyncProtocol` has one
that does not (section 5).

Definitions named `Mut...` are plausible faults; the mutation runs substitute them one by
one for the definition they precede and expect the named property to fail.

## 4. Runs

| Run | Bounds | Checks |
|---|---|---|
| `push_buffer` | 4 commits of 1-2 operations, room for about half | the buffer is a gapless (`Contiguous`) FIFO without loss (`FifoNoLoss`), `mem_size` is exact and bounded (`MemAccounting`), a batch from any cseq is the right, maximal one (`BatchExact`), `deque` releases exactly what was acknowledged (`DequeExact`) |
| `transactional` | 3 calls, transactions of 0-2 operations, buffer that refuses one commit, disabling at any time | `Isolation`, `AllOrNothing`, `OneTransactionPerCall`, `CseqWithoutGap`; `EveryCallReturns` under fairness |
| `event_loop` | 1 caller of `sync()` (again and again), 2 commits of one batch each, 2 remote pushes, unlimited failures; realtime and manual, creating and subscribing | `SyncDelivers`, `OnlySyncBypasses`, `AcksAreTrue`; `EverySyncReturns`, `EverythingIsPushed`, `NewsIsPulled`, `DropEndsLoop` under fairness |
| `local_replica` | 2 replicas, 3 operations each in transactions of 1-2, a counter of -2..1 with its smallest value among the deltas, a buffer of two transactions | `ValueIsSum` (wrap-around, rollback and snapshots lose nothing), `OperationIdsOrdered` (a replica's committed operations have growing stamps), `CausalUnlessRolledBack` (the clock is ahead of everything pulled, but for what came in during a transaction that was undone) |
| `client` | 2 threads, 1 valid and 1 invalid key, 1 handler; 4 scenarios (below) | `ManagedLoopsRun`, `OnlyDisabledLeave`, `NoCallAfterReturn`; `DetachedUnlessLocked`, `SyncReturns`, `DisabledIsHeard`, `RefusalIsHeard`, `LoopEnds` under fairness |
| `sync` | 3 clients (2 writers, 1 read-only) that build the key once or twice, buffer of two small transactions or one large; 6 scenarios (below) | `ImplementsLog` (refinement of `ReplicatedLog`), `AckedIsStored`, `UnackedIsPushed`, `PanicFree` in all of them; `ReplicaExact` (no operation twice, none missing) and `OrderlyConverged` in the orderly ones |

Each module has one type invariant (`TypeOK`). `CHECK_DEADLOCK FALSE` is set where the system may
really stop: all datatypes Disabled and none left to build, no operations left, no user who
calls, or the event loop ended. The calls of `Transactional` end in an explicit `Quiescent`
step instead, so there a deadlock would be reported.

*Scenarios of `sync`.* `Orderly1`: all three clients, one operation each, rollbacks, and
exchanges of Subscribed datatypes that time out, with debug arithmetic. `Orderly2`: the
writers with two operations each, of which one exchange carries one transaction, of one
operation or of two. `Narrow2`: the same, but a transaction of two operations is larger than
an exchange can carry. `Faulty2`: the writers with two operations each and everything but
unsubscribe. `Leaving1`: one operation each, unsubscribes and the removal of the server,
and all faults but responses inside open transactions, so that it is sheltered. `Again`: a
writer and the reader may leave the key and build it again, on the server that remembers them
or on a new one; no exchange is lost. The orderly ones are debug builds, the others release builds. TLC explores
all of them in one run; the three violation runs of the protocol use one small scenario each.

*Scenarios of `client`.* `Rebuild`: a key is unsubscribed and built again while a
transaction on the old datatype is open. `Observe`: handlers come and go on a datatype
whose handles may be dropped. `Refuse`: commits the push buffer refuses, with handlers.
`Synchronise`: `sync()` against unsubscription, rejection and the drop of everything.

*Why the bounds are enough to meet the cases.* Three calls are the least in which one
waits on `tx_mutex`, one on `op_mutex`, and a third releases a mutex it does not hold.
Two operations in a transaction make half a rollback possible. Two clients give a
creator and a subscriber; the third in `Orderly1` gives one who pulls what two
others pushed. Two transactions with a limit of one make partial batches. One server entry
stands for one key: keys share no state. Two datatypes of one writer are the least in which
the cseqs of the second meet those of the first in `cseq_map`; the other client keeps the
server alive in between, or leaves too, so that a new one is made. Three operations of a replica let a rolled-back
transaction overlap with an exchange and be followed by a commit. Two datatypes of one key
are the least in which the old one could take the new one out of the registry. Client
symmetry is used in `sync` only, whose properties are all safety properties; nothing tells
the writing clients apart.

*Fairness.* `Transactional`: strong fairness of each call's next step - threads are
scheduled and the mutexes are released with `unlock_fair`, which hands them to a parked
thread; nothing is assumed about which waiter finds `tx_ctx` free. `EventLoop`: weak
fairness of the loop's thread and of answered calls, exchanges end, and (strong) an
exchange tried again and again succeeds some day. `Client`: weak fairness of calls that
were made, of event-loop threads, of the runtime (some task runs), and of the drop of a
datatype nobody owns; strong fairness of `LoopDetach`, since the manager's lock is
`parking_lot`'s, which is eventually fair. Nobody is obliged to call, write, sync or
drop. `EverySyncReturns` holds for finitely many writes: in Normal mode
`push_if_needed` is evaluated before the channels are read, so writers that commit once
per exchange for ever would keep `sync()` and `Stop` waiting (`docs/event-loop.md:42`
says of the unbounded channel "Always polled").

## 5. Disagreements found

Each is a run that TLC ends with a violation of one property, and an entry under
"findings".

* `transactional_disable` - a permanent error on the event loop's thread calls `reset`,
  which replaces the `TxRecord` of a transaction that is still running; when its function
  then fails there is nothing to roll back and its operations stay in the counter, against
  the documentation of `Counter::transaction`.
* `sync_late` - the snapshot for a subscriber is the creator's live value, labelled with
  the creator's *acknowledged* sseq. An operation pushed but not acknowledged arrives in the
  snapshot and again as a transaction: the replicas differ for good. The orderly scenarios
  of `sync` exclude this (no `"late"`): subscribers are served while the creator's
  operations are all acknowledged.
* `sync_recreate` - a repeated Creating push (its response was lost, or a rollback
  restored the state Creating) is answered with the server's sseq and no transactions:
  the creator skips what others pushed in between. The orderly scenarios exclude both
  causes (no `"loseCreate"`, no `"spanning"`).
* `sync_forgotten` - a client that builds a key again while the server still has it starts at
  cseq 1, but `cseq_map` has the cseq of its first datatype: its first writes are skipped as
  repetitions and acknowledged. `get_synced_client_version` then counts writes that nobody
  else will ever see. It takes a second client that keeps the key alive, or an unsubscribe that
  crosses a response and so never reaches the server. `AckedIsStored` excepts exactly this
  case (`CountedBefore`), and the `sync` run and the proof show that it is the only one.
* `client_deadlock` - a build of a key that is taken reads the existing datatype's state
  under the manager's write lock; `set_state(Disabled)` takes the manager's lock under the
  datatype's. When an unsubscribe is confirmed at that moment both wait for ever, and the
  datatype is not detached. `DetachedUnlessLocked` of the `client` run shows that this is the only way.
* `event_loop_retry` - a pull started by a notification that fails once is not retried
  after the back-off: the timer's event does nothing, nothing needs a push, and the
  notification is gone.

The statements of three properties of `sync` name what they except, because the code does
otherwise there:

* `PanicFree`: an unsubscribe that is repeated because its response was lost finds the
  subscription gone and is answered with checkpoint (0, 0), below the replica's own. The
  subtraction in `calculate_pulling_transactions` underflows and a debug build panics,
  although the test at `local_datatype_server.rs:955` says that such an unsubscribe "must
  complete gracefully"; it has nothing synchronised, where the difference is zero. A debug
  build also underflows where a rollback restores SubscribingOrCreating after a response was
  applied inside the transaction: the response to the repeated subscription acknowledges
  cseq 0. So debug builds are covered in orderly scenarios only.
* `UnackedIsPushed`: a transaction that the push buffer accepts (100 MB by default) but an
  exchange cannot carry (4 MB) gives an empty batch in every exchange: `sync()` succeeds, and
  neither it nor anything committed after it is ever pushed (`Narrow2` gets there).
* `ImplementsLog` is for sheltered scenarios, as those of the run are: where unsubscribes meet
  transactions that are open across an exchange, a rollback can restore
  SubscribingOrCreating after the checkpoint has moved; if the server was given up in the
  meantime the client creates it anew and pushes from a cseq above 1, so the new history
  begins with a gap. The proof of the refinement found this one.

Met while modelling as well, and not the subject of a property:

* the rollback of a transaction that was open while its datatype was disabled restores the
  earlier state, though `docs/datatype-state.md:23` calls Disabled "Terminal for the local
  handle";
* a client that registers between the emptying of a server and its removal keeps an object
  that later clients do not find;
* a back-off delay grows with every event received during it, not with every failure;
* a loop whose thread panicked leaves later `sync()` calls waiting, because the channel's
  receiver is kept alive; on the null connectivity a `sync()` that passed `check_disabled`
  just before the response to an unsubscribe was applied gets there, through an
  `unreachable!()`;
* `docs/architecture.md:97` says that handler notifications are dispatched after the write
  lock is released; `set_state` spawns their tasks while it holds it (a handler that reads
  the datatype waits, nothing is wrong);
* `docs/architecture.md:86` shows `push_buffer.deque(acked_cseq)` when a response is
  applied; `deque` has no caller outside its tests, so a buffer only grows.

## 6. Proofs

Every theorem holds for all values of the constants that satisfy the named `ASSUME`s of
the component modules (bounds are naturals, `None` is no thread, `Nobody` no caller, a
batch holds at least one transaction, ...) and, where said, a hypothesis in its statement.
Each inductive invariant was checked with TLC before it was proved.

`PushBufferProofs` (every memory limit, every bound on commits and transaction length):
`ContiguousAlways`, `FifoNoLossAlways`, `DequeExactAlways`, `MemAccountingAlways`,
`BatchExactAlways`, `TypeCorrect`. `Contiguous` is not inductive by itself: that `deque`
keeps it needs the queue to be a suffix of what was accepted. `QueueInv` adds the types and
`TailOfAccepted` (the queue is the accepted sequence after the released prefix). The lemma
`DequeCountValue` gives the number of transactions an acknowledgement covers by arithmetic
on the markers, `DequeResult` what is left; the invariant's step has one lemma per action.
The other three are about sums over the queue, which need induction over data. The
library's induction theorems cannot be used here, so the module derives its own, for
membership in a set instead of a predicate: `FiniteMaximum` (from the pigeonhole principle),
`LeastNatural`, `NaturalSteps`, `SubsetSteps`. `RangeSizeUnits` then shows that the fold
behind `RangeSize` is the number of *units* in a range, one per unit of size, so that sums
split, extend and shift as cardinalities do (`RangeSizeSplit`, `RangeSizeExtend`,
`RangeSizeShift`); that the lengths that fit are an initial segment (`InitialSegment`) makes
the batch of `get_pushing_transactions` the longest that fits.

`TransactionalProofs` (any set of threads, any limits): `TypeCorrect`, `Isolated`,
`CseqGapless`, `AtomicCalls`, `OneTransactionAlways`. Isolation needs `IsolationInv`: at
each label that may touch the replica the call's context is in `tx_ctx` (`CtxOwner`), labels
fit the kind of call (`KindOfLabel`), and after `End` nothing is pending (`EndedClean`). No
conjunct mentions `tx_mutex` or `op_mutex`: isolation does not depend on them. The cseq
theorem rests on `CseqInv` (the saved rollback point is one below the open transaction's
cseq and is the last buffered cseq) for a datatype that is not disabled. Atomicity adds
`Tally` (until it ends a call has in effect exactly what it has executed, which is the open
transaction; afterwards all or nothing) and `Attributed` (the buffer lists the committed
calls, each once, with its operations): neither follows from what calls see of each other,
since a rollback undoes operations one by one.

`EventLoopProofs` (any set of callers, any bounds, any batch size): `TypeCorrect`,
`AcksAlwaysTrue`, `OnlySyncAlwaysBypasses`, `SyncAlwaysDelivers`. Acknowledgements need that
a response still in flight tells no more than the server has (`ResponseIsTrue`), as the
server moves on between answering and the application of its answer; the back-off rule
needs `ManualIsQuiet`: without realtime nothing is ever in the bounded channel and no
notification in the other one. `SyncDelivers` needs `SyncInv`: each waiting `sync()` is
asked for exactly once, by an event in the channel or by the exchange under way
(`AskedOnce`); what it was called for is covered by the next batch while it waits, by the pack of
its exchange, and by the answer (`Goals`); once the server has let the client go it holds the next batch and a stopped loop
runs no exchange (`Leaving`); and what an answered call was told stays true (`Delivered`).
`TypeCorrect` needs `SizeInv`: a repeated pack is stored once, so the server never counts
more than was committed.

`ReplicatedLogProofs` (any set of clients, payloads and batch size): `LogInvariant`, and
from it `AcknowledgedAlwaysOnce`: what a member believes acknowledged is in the log exactly
once. Neither order nor gaplessness is inductive alone: that a batch may be appended behind
any other needs `Within` (no entry beyond its client's `last`), and that an acknowledgement
names an entry needs `NeverAhead` with `Gapless`. The step has one lemma per kind of action:
`PushInv` for the log, `CheckpointInv`, `LeaveInv` and `MoveInv` for the members.

`SyncProtocolProofs` (any clients, scenarios and bounds): `ProtocolInvariant`. First what
the operators of `MutableOps` and of the server return, then one lemma per action. A step
of one client may change the server for all, so each lemma shows `StepOf`: the other
clients are left alone, the server has only grown for them, and the client's own part holds
again. That part is `ClientInv`: the push buffer has the client's transactions 1, 2, ...
(`Numbered`), a pack under way carries those after the checkpoint (`Packed`), phases of the
exchange, loop and server fit (`Phase`), and neither the checkpoint nor the one in a
response under way is ahead of the server (`Acknowledged`). No part is inductive alone.

The second half of the module builds on it:

* `ProtocolImplementsLog`: `Spec /\ Sheltered => ImplementsLog`, the refinement, action by
  action. `Sheltered` says that the scenario does not combine `"unsubscribe"` with
  `"spanning"`; section 5 says what goes wrong there. `ShelterInv` says what each of the two
  environments keeps: without spanning transactions a datatype that is, or may be rolled
  back to, not yet Subscribed has nothing acknowledged (`Unspanned`); without unsubscribes
  every datatype that was built stays linked to the server (`Staying`).
* `NoAcknowledgedWriteLost`: `AckedIsStored`, in every scenario and however often keys are
  built again. The exception in the property, cseqs counted for an earlier datatype of the
  client, is what the code does (section 5), so the proof has to show that there is no other.
  `LedgerInv` keeps the books of the server: the entries of a client are of datatypes it has
  built (`Signed`), in the order of their cseqs, and the last one has the cseq that `cseq_map`
  says (`Entered`). `StoredInv` says that what is acknowledged is stored from the buffer of
  the present datatype or was counted before (`Stored`), and that the buffer is emptied only by
  a snapshot; that snapshots are applied only by those who have stored nothing, since the
  server confirms the others' own datatype (`Owner`, `Told`); and that the state which
  decides about it cannot change in between (`OneBirth`, `Subscriber`).
* `NothingPassedOver`: `UnackedIsPushed`, for all limits. That the next pack starts with the
  first transaction not acknowledged, if it fits, follows from the maximality of the batch
  (`NextIsPushed`) and the numbering of the buffer.

`SyncExactProofs` (any clients, datatypes built one after another and bounds):
`ReplicaExactAlways`, `OrderlyConvergedAlways`, `PanicFreeAlways` and `TypeCorrect`. The
first two, and the third for debug builds, rest on `ExactInvariant`, `Spec => [](Orderly => ExactInv)`. That a pull brings
each operation once hangs on arithmetic with two checkpoints, so the invariant has to say
where a checkpoint cuts the history (`Cuts`: its cseq is the number of the client's own
entries among the first sseq), of the replica (`Exact`) and of the response under way
(`Answered`: it has no more transactions than the difference of the checkpoints says, and
exactly the operations between them, or between its snapshot and its checkpoint). Around it:
what the server stores of a client is the beginning of the client's buffer (`Recorded`), own
operations have the client's own origin (`OwnOps`), a state does not change under an open
transaction or a pack (`Settled`), only clients of which nothing is stored are refused or
take a snapshot (`Fresh`, `Refused`), and a repeated Creating meets its own duid only while
its first response is still there (`Identified`, `Creation`). The counting lemmas show
`TxsCount` to be additive (`TxsCountAppend`), the loop of `pull_transactions` to have one
solution (`PullingSteps`) and what it pulls (`PullEffect`), and a client's share of the
history to be a prefix of its buffer (`OwnUpto`). For release builds `PanicFreeAlways` needs
that no response without an error finds its datatype Disabled, in spite of everything that
happens between a push and its response. `CalmInv` says it: a Disabled datatype has no
exchange but one that is refused (`Detached`), because whatever disables it also ends the
exchange or the loop (`Final`); an unsubscribe whose check was passed before the datatype was
disabled finds a loop that ends (`Overtaken`); and a rollback disables only such a one
(`Restores`). The last is where the proof needs `Sheltered`; release builds that are not
sheltered are neither proved nor refuted. `TypeCorrect` holds in every environment;
`TypedInv` adds to `ProtocolInv` what counters, identifiers and phases are, and that a
checked write still has budget.

`ClientProofs` (any users, keys, handlers, priorities and scenarios): `ClientInvariant`,
`TypeCorrect`, `ManagedLoopsAlwaysRun`, `NeverCalledAfterReturn`, `OnlyDisabledEverLeave`.
An effect lemma per action says what it does and that types are kept; on these rest
`RegistryInv` (a datatype in the registry has a running loop with no Stop on its way, is
Disabled only while its loop detaches it, and no rollback can make it Disabled),
`HandlerInv` (no handler is in two places, and none that was given back is in a task),
`CallInv` (threads are where their calls say, one has the transaction, each answer finds one
caller that waits) and `NumberInv` (no acknowledgement exceeds what was written). That no rollback makes a registered datatype Disabled is what `ManagedLoopsRun` hangs on: it
would lead the loop into the `unreachable!()` of `NullConnectivity`.

`LocalReplicaProofs` (any width of the integer, replicas, deltas and bounds):
`LocalInvariant`, `TypeCorrect`, `ValueIsSumAlways`, `OperationIdsOrderedAlways`,
`CausalAlways`. The model's sums, stamps and bytes are loops, written as recursive
functions. Each is shown to be the one function that satisfies its equations (`LoopRuns`,
`LoopUnique`), and what it computes follows by induction over its counter, again for
membership in a set. The arithmetic: wrapping at the end or after each addition is the same,
also with a wrapped negation (`WrapAdd`), so that a rollback undoes what wrapped around,
the smallest value included; `from_bytes` undoes `to_bytes` for every value (`RoundTrip`).
`LocalInv` says that stamps of committed operations are at most the clock a rollback
restores and those of open ones beyond it (`Stamped`, without which a rollback could reuse a
committed stamp); that the log has the first of what a replica committed, all of it pulled
(`Logged`, so that its own operations are not counted again); that the clock, now and after
a rollback, covers what was pulled but for what `missed` records (`Heard`); and what the
value is (`Valued`). A subscriber takes over the creator's bytes: `SameSum` shows that what
the creator wrote and pulled is what others wrote, to somebody who wrote nothing.

Model-checked only: liveness and everything under fairness, which is out of the prover's
reach; and the properties the code violates (section 5).

## 7. Reading the counterexamples

`Converged` compares replicas only when both are attached, have nothing pending, have
everything acknowledged and stand at the same sseq: a difference then never heals.
A violation of `ImplementsLog` is reported as one of `ReplicatedLog`'s next-state relation:
the step shown appends, acknowledges or forgets something no action of the abstract log
does. `LockCycle` is the state in which `client_deadlock` ends.

## 8. Not modelled

* The panic of a debug build when the counter overflows: `LocalReplica` has the release
  build's wrap-around, `"debug"` of `SyncProtocol` concerns the pull handler's subtraction.
* `Deleting` (no operation enters it), type mismatches (one datatype type), the recovery
  actions marked "reserved" beyond their routing in `Errors`.
* `set_realtime` on a connectivity in use: `EventLoop` chooses it at the start.
* The length of back-off delays and the 100 ms `send_stop` waits: time is a choice.
* What a name may look like, collection names, random identifiers, start and shut-down of
  the runtime: they carry no protocol state. Of keys only the verdict is modelled.
* Observability (tracing, metrics, logging): pure output.
* The empty state a client or server has after a process restart: nothing is persisted, so
  there is no recovery to model.
