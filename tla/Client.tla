------------------------------- MODULE Client -------------------------------
(***************************************************************************)
(* A client with its registry of datatypes, on the connectivity it has by  *)
(* default.  User threads build, look up, write, unsubscribe, synchronise   *)
(* and drop datatypes; each datatype's event loop exchanges packs with the  *)
(* NullConnectivity and takes a Disabled datatype out of the client's       *)
(* DatatypeManager; tasks of the client's runtime tell handlers about state *)
(* changes and errors.                                                      *)
(*                                                                          *)
(* Two locks are held from one step to another: `mlock`, the manager's      *)
(* write lock, while a build looks at the datatype that has its key, and a  *)
(* datatype's `mutable` write lock while set_state detaches it.  Every      *)
(* other section under a lock is one step that needs the lock to be free.   *)
(* What replicas hold is the subject of SyncProtocol and LocalReplica.      *)
(***************************************************************************)
EXTENDS Naturals, Sequences, FiniteSetsExt

CONSTANTS
    Users,        \* threads that use the client
    Nobody,       \* no thread
    Keys,         \* keys the users ask for
    ValidKeys,    \* those is_valid_datatype_key accepts
    Priorities,   \* priorities handlers are registered at
    MaxHandlers,  \* bound: handlers that are ever made
    Scenarios     \* what the users of one run do, see ScenarioType

(* The bounds of a run: which datatypes the users build (states and         *)
(* is_readonly), how many, how often they write, call sync and unsubscribe, *)
(* and whether they use handlers, drop what they hold, and fill the push    *)
(* buffer.                                                                  *)
ScenarioType(s) ==
    /\ s.as \subseteq {"Creating", "Subscribing", "SubscribingOrCreating"} \X BOOLEAN
    /\ s.insts \in Nat /\ s.writes \in Nat /\ s.syncs \in Nat /\ s.unsubs \in Nat
    /\ s.calls \subseteq {"handlers", "drop", "full"}

ASSUME ClientAssumption ==
    /\ Nobody \notin Users
    /\ ValidKeys \subseteq Keys
    /\ Priorities \subseteq Nat /\ MaxHandlers \in Nat
    /\ \A s \in Scenarios : ScenarioType(s)

NoInst == 0

Insts == 1..Max({s.insts : s \in Scenarios})

NoHandler == 0

VARIABLES
    scenario,  \* the scenario of this run
    client,    \* whether the Client exists
    mlock,     \* who holds the manager's write lock
    manager,   \* DatatypeManager.datatypes: the datatype of each key
    dt,        \* Attribute and MutableDatatype of every datatype ever built
    chan,      \* its event loop's channels: bounded and unbounded
    loop,      \* what its event loop's thread is doing
    handles,   \* the users that hold a handle of it
    heard,     \* which of the Reported events its handlers were told
    pc,        \* what each user thread is doing
    tasks,     \* handler tasks the runtime has not run yet
    handlers,  \* how many handlers were made
    returned,  \* handlers that unset_handler gave back
    refusals,  \* history: datatypes with a refused commit not reported yet
    writes,    \* bound: operations executed so far
    syncs,     \* bound: sync() calls so far
    unsubs     \* bound: unsubscribe() calls so far

vars == <<client, mlock, manager, dt, chan, loop, handles, heard, pc, tasks,
          handlers, returned, refusals, writes, syncs, unsubs, scenario>>
registryVars == <<scenario, client, mlock, manager>>
countVars == <<refusals, writes, syncs, unsubs>>
handlerVars == <<handlers, returned, countVars>>

Idle == [at |-> "idle"]

ReadWritable == {"Creating", "SubscribingOrCreating", "Subscribed"}

(* DatatypeManager::new and ClientBuilder::build *)
NoDatatypes == [k \in Keys |-> NoInst]

Init ==
    /\ scenario \in Scenarios
    /\ client = TRUE
    /\ mlock = Nobody
    /\ manager = NoDatatypes
    /\ dt = <<>> /\ chan = <<>> /\ loop = <<>> /\ handles = <<>> /\ heard = <<>>
    /\ pc = [u \in Users |-> Idle]
    /\ tasks = {}
    /\ handlers = 0 /\ returned = {}
    /\ refusals = {} /\ writes = 0 /\ syncs = 0 /\ unsubs = 0

Does(call) == call \in scenario.calls

(* The datatype's event loop holds its mutable write lock. *)
Locked(i) == loop[i].at = "detaching"

-----------------------------------------------------------------------------
(* Whether attr.weak_transactional can be upgraded: the manager's entry, a  *)
(* handle, a task or the detaching loop owns the TransactionalDatatype.     *)
Owned(i) ==
    \/ client /\ manager[dt[i].key] = i
    \/ handles[i] # {}
    \/ \E t \in tasks : t.inst = i
    \/ loop[i].at = "detaching"

(* HandlersManager::dispatch: a task for the handlers of this moment, by    *)
(* priority, unless nobody owns the datatype any more.                      *)
HandlersOf(i) ==
    [p \in {q \in Priorities : dt[i].handlers[q] # NoHandler} |-> dt[i].handlers[p]]

(* A task without handlers, which does nothing, is left out. *)
Dispatch(i, event) ==
    IF Owned(i) /\ HandlersOf(i) # <<>> THEN {[inst |-> i, event |-> event, handlers |-> HandlersOf(i)]}
    ELSE {}

(* Definitions named Mut... are plausible faults of the definition after    *)
(* them; the mutation runs listed in PROJECT.json use them, nothing else.   *)

(* MutableDatatype::set_state up to the detaching: the handlers are told of *)
(* a change, by a task that is spawned while the lock is held.              *)
MutToldAfterDetaching(i, st) ==
    IF st = dt[i].state \/ (st = "Disabled" /\ handles[i] = {}) THEN {} ELSE Dispatch(i, st)

Told(i, st) == IF st = dt[i].state THEN {} ELSE Dispatch(i, st)

(* Whether a change is followed by detach_datatype_if_same_instance.        *)
MutDetachIfHeld(i, st) == st = "Disabled" /\ dt[i].state # "Disabled" /\ handles[i] # {}

Detaches(i, st) == st = "Disabled" /\ dt[i].state # "Disabled" /\ Owned(i)

-----------------------------------------------------------------------------
(* The registry.  A thread of the user between two calls: *)
Free(u) == pc[u] = Idle

Goto(u, p) == pc' = [pc EXCEPT ![u] = p]

(* DatatypeBuilder: with no handler, or one at a priority (with_handler).   *)
NoHandlers == [p \in Priorities |-> NoHandler]

WithHandler == {[NoHandlers EXCEPT ![p] = handlers + 1] : p \in Priorities}

(* build_counter returns an error at once for an invalid key.               *)
IsValidKey(k) == k \in ValidKeys

MayBuild(u, k) == client /\ Free(u) /\ IsValidKey(k)

(* A new Attribute and MutableDatatype, as[1] and as[2] being the initial   *)
(* state and is_readonly of the builder.                                    *)
NewDatatype(k, as, hs) ==
    [key |-> k, state |-> as[1], readonly |-> as[2], seq |-> 0, last |-> 0,
     cp |-> 0, pending |-> <<>>, handlers |-> hs]

(* DatatypeManager::subscribe_or_create_datatype under the write lock, for  *)
(* a key that is not taken: the datatype and its event loop are made.       *)
BuildVacant(u, k, as) ==
    /\ MayBuild(u, k) /\ mlock = Nobody /\ manager[k] = NoInst
    /\ Len(dt) < scenario.insts
    /\ manager' = [manager EXCEPT ![k] = Len(dt) + 1]
    /\ \E hs \in {NoHandlers} \cup WithHandler :
          /\ Does("handlers") \/ hs = NoHandlers
          /\ dt' = Append(dt, NewDatatype(k, as, hs))
          /\ handlers' = IF hs = NoHandlers THEN handlers ELSE handlers + 1
          /\ handlers' <= MaxHandlers
    /\ chan' = Append(chan, [bounded |-> FALSE, unbounded |-> <<>>])
    /\ loop' = Append(loop, [at |-> "check", mode |-> "Normal"])
    /\ handles' = Append(handles, {u})
    /\ heard' = Append(heard, {})
    /\ UNCHANGED <<scenario, client, mlock, pc, tasks, returned, countVars>>

(* A key that is taken: the manager's lock is held ... *)
MutUnderReadLock(u, k) ==
    /\ MayBuild(u, k) /\ manager[k] # NoInst
    /\ mlock' = u
    /\ Goto(u, [at |-> "existing", inst |-> manager[k]])
    /\ UNCHANGED <<scenario, client, manager, dt, chan, loop, handles, heard, tasks, handlerVars>>

BuildOccupied(u, k) ==
    /\ MayBuild(u, k) /\ mlock = Nobody /\ manager[k] # NoInst
    /\ mlock' = u
    /\ Goto(u, [at |-> "existing", inst |-> manager[k]])
    /\ UNCHANGED <<scenario, client, manager, dt, chan, loop, handles, heard, tasks, handlerVars>>

(* ... while get_state reads the existing datatype's state for the error    *)
(* message.                                                                 *)
ReadExisting(u) ==
    /\ pc[u].at = "existing" /\ ~Locked(pc[u].inst)
    /\ mlock' = Nobody
    /\ Goto(u, Idle)
    /\ UNCHANGED <<scenario, client, manager, dt, chan, loop, handles, heard, tasks, handlerVars>>

(* Client::get_datatype *)
GetDatatype(u, k) ==
    /\ client /\ Free(u) /\ mlock = Nobody /\ manager[k] # NoInst
    /\ u \notin handles[manager[k]]
    /\ handles' = [handles EXCEPT ![manager[k]] = @ \cup {u}]
    /\ UNCHANGED <<registryVars, dt, chan, loop, heard, pc, tasks, handlerVars>>

(* The drop of a handle, and of the client with its manager. *)
DropHandle(u, i) ==
    /\ Does("drop") /\ Free(u) /\ u \in handles[i]
    /\ handles' = [handles EXCEPT ![i] = @ \ {u}]
    /\ UNCHANGED <<registryVars, dt, chan, loop, heard, pc, tasks, handlerVars>>

DropClient ==
    /\ Does("drop") /\ client /\ mlock = Nobody
    /\ client' = FALSE
    /\ UNCHANGED <<scenario, mlock, manager, dt, chan, loop, handles, heard, pc, tasks, handlerVars>>

(* Drop for TransactionalDatatype: send_stop.  (The 100 ms it waits for an  *)
(* answer change nothing, not even when it is the loop's thread that waits.)*)
Stop == [kind |-> "Stop"]

MutStopBestEffort(i) ==
    /\ ~Owned(i) /\ ~chan[i].bounded
    /\ loop[i].at \notin {"exited", "panicked"}
    /\ chan' = [chan EXCEPT ![i].bounded = TRUE]
    /\ UNCHANGED <<registryVars, dt, loop, handles, heard, pc, tasks, handlerVars>>

DropDatatype(i) ==
    /\ ~Owned(i) /\ Stop \notin Range(chan[i].unbounded)
    /\ loop[i].at \notin {"exited", "panicked"}
    /\ chan' = [chan EXCEPT ![i].unbounded = Append(@, Stop)]
    /\ UNCHANGED <<registryVars, dt, loop, handles, heard, pc, tasks, handlerVars>>

-----------------------------------------------------------------------------
(* The calls on a handle, which the handle passes on to its datatype.  Each *)
(* check is a lock section of its own.                                      *)
Holds(u, i) == Free(u) /\ u \in handles[i] /\ ~Locked(i)

(* unsubscribe and Client::unsubscribe_datatype: check_subscribed, then     *)
(* set_state, then the best-effort event.                                   *)
CheckSubscribed(u, i) ==
    /\ Holds(u, i) /\ dt[i].state = "Subscribed" /\ unsubs < scenario.unsubs
    /\ unsubs' = unsubs + 1
    /\ Goto(u, [at |-> "unsubscribe", inst |-> i])
    /\ UNCHANGED <<registryVars, dt, chan, loop, handles, heard, tasks, handlers,
                   returned, refusals, writes, syncs>>

SetUnsubscribing(u) ==
    LET i == pc[u].inst
    IN  /\ pc[u].at = "unsubscribe" /\ ~Locked(i)
        /\ tasks' = tasks \cup Told(i, "Unsubscribing")
        /\ dt' = [dt EXCEPT ![i].state = "Unsubscribing"]
        /\ Goto(u, [at |-> "send", inst |-> i])
        /\ UNCHANGED <<registryVars, chan, loop, handles, heard, handlerVars>>

(* send_push_transaction_with_best_effort *)
SendBestEffort(u) ==
    /\ pc[u].at = "send"
    /\ chan' = [chan EXCEPT ![pc[u].inst].bounded = TRUE]
    /\ Goto(u, Idle)
    /\ UNCHANGED <<registryVars, dt, loop, handles, heard, tasks, handlerVars>>

(* sync: check_disabled, then send_push_transaction_with_guarantee. *)
CheckDisabled(u, i) ==
    /\ Holds(u, i) /\ dt[i].state # "Disabled" /\ syncs < scenario.syncs
    /\ syncs' = syncs + 1
    /\ Goto(u, [at |-> "sync", inst |-> i])
    /\ UNCHANGED <<registryVars, dt, chan, loop, handles, heard, tasks, handlers,
                   returned, refusals, writes, unsubs>>

SendSync(u) ==
    LET i == pc[u].inst
    IN  /\ pc[u].at = "sync"
        /\ chan' = [chan EXCEPT ![i].unbounded = Append(@, [kind |-> "Push", resp |-> u])]
        /\ Goto(u, [at |-> "waiting", inst |-> i])
        /\ UNCHANGED <<registryVars, dt, loop, handles, heard, tasks, handlerVars>>

(* A write: check_writable, the operation as the only one of a transaction  *)
(* whose rollback point it saves, and end_transaction.                      *)
CheckWritable(u, i) ==
    /\ Holds(u, i) /\ dt[i].state \in ReadWritable /\ ~dt[i].readonly
    /\ writes < scenario.writes
    /\ writes' = writes + 1
    /\ Goto(u, [at |-> "write", inst |-> i])
    /\ UNCHANGED <<registryVars, dt, chan, loop, handles, heard, tasks, handlers,
                   returned, refusals, syncs, unsubs>>

ExecuteOp(u) ==
    LET i == pc[u].inst
    IN  /\ pc[u].at = "write" /\ ~Locked(i)
        /\ \A v \in Users : pc[v] # [at |-> "tx", inst |-> i]
        /\ dt' = [dt EXCEPT ![i].seq = @ + 1,
                            ![i].pending = <<[state |-> dt[i].state, seq |-> dt[i].seq]>>]
        /\ Goto(u, [at |-> "tx", inst |-> i])
        /\ UNCHANGED <<registryVars, chan, loop, handles, heard, tasks, handlerVars>>

(* end_transaction(committed).  If the event loop has reset the datatype    *)
(* there is nothing left to enqueue.  The event is sent under the lock.     *)
Sequential(i) ==
    dt[i].pending = <<>> \/ dt[i].last = 0 \/ dt[i].seq = dt[i].last + 1

Commit(u) ==
    LET i == pc[u].inst
    IN  /\ pc[u].at = "tx" /\ ~Locked(i) /\ Sequential(i)
        /\ dt' = [dt EXCEPT ![i].pending = <<>>,
                            ![i].last = IF dt[i].pending = <<>> THEN @ ELSE dt[i].seq]
        /\ chan' = [chan EXCEPT ![i].bounded = TRUE]
        /\ Goto(u, Idle)
        /\ UNCHANGED <<registryVars, loop, handles, heard, tasks, handlerVars>>

(* do_rollback of a failed transaction function, or of a transaction the    *)
(* push buffer refuses (out of sequence, or out of memory if it is filled), *)
(* whose error is then reported.  If set_state restores Disabled it also    *)
(* detaches, to no effect: such a datatype has left the registry            *)
(* (RegistryInv of ClientProofs).                                           *)
RolledBack(m) ==
    IF m.pending = <<>> THEN m
    ELSE [m EXCEPT !.state = m.pending[1].state, !.seq = m.pending[1].seq,
                   !.pending = <<>>]

MutRefusalNotReported(u, i, refused) == Goto(u, Idle)

AfterRollback(u, i, refused) ==
    Goto(u, IF refused THEN [at |-> "report", inst |-> i] ELSE Idle)

Rollback(u, refused) ==
    LET i == pc[u].inst
    IN  /\ pc[u].at = "tx" /\ ~Locked(i)
        /\ refused => (Does("full") /\ dt[i].pending # <<>>) \/ ~Sequential(i)
        /\ tasks' = tasks \cup Told(i, RolledBack(dt[i]).state)
        /\ dt' = [dt EXCEPT ![i] = RolledBack(@)]
        /\ AfterRollback(u, i, refused)
        /\ refusals' = IF refused THEN refusals \cup {i} ELSE refusals
        /\ UNCHANGED <<registryVars, chan, loop, handles, heard, handlers, returned,
                       writes, syncs, unsubs>>

(* call_error_handler, in a read section after the write section. *)
ReportRefusal(u) ==
    LET i == pc[u].inst
    IN  /\ pc[u].at = "report" /\ ~Locked(i)
        /\ tasks' = tasks \cup Dispatch(i, "refused")
        /\ Goto(u, Idle)
        /\ refusals' = refusals \ {i}
        /\ UNCHANGED <<registryVars, dt, chan, loop, handles, heard, handlers, returned,
                       writes, syncs, unsubs>>

-----------------------------------------------------------------------------
(* Handlers.  set_handler drops the handler it replaces; unset_handler      *)
(* gives its handler back if no task holds it as well (Arc::try_unwrap).    *)
SetHandler(u, i, p) ==
    /\ Does("handlers") /\ Holds(u, i) /\ handlers < MaxHandlers
    /\ handlers' = handlers + 1
    /\ dt' = [dt EXCEPT ![i].handlers[p] = handlers + 1]
    /\ UNCHANGED <<registryVars, chan, loop, handles, heard, pc, tasks, returned, countVars>>

MutUnwrapAlways(h) == {h}

TryUnwrap(h) == IF \E t \in tasks : h \in Range(t.handlers) THEN {} ELSE {h}

UnsetHandler(u, i, p) ==
    /\ Holds(u, i) /\ dt[i].handlers[p] # NoHandler
    /\ returned' = returned \cup TryUnwrap(dt[i].handlers[p])
    /\ dt' = [dt EXCEPT ![i].handlers[p] = NoHandler]
    /\ UNCHANGED <<registryVars, chan, loop, handles, heard, pc, tasks, handlers, countVars>>

(* The runtime runs a task: every handler is called (a panic of one does    *)
(* not stop the others), then the task's DatatypeSet is dropped.            *)
Reported == {"Disabled", "refused"}

RunTask(t) ==
    /\ t \in tasks
    /\ tasks' = tasks \ {t}
    /\ heard' = [heard EXCEPT ![t.inst] =
                    @ \cup ({t.event} \cap Reported)]
    /\ UNCHANGED <<registryVars, dt, chan, loop, handles, pc, handlerVars>>

-----------------------------------------------------------------------------
(* The event loop's thread. *)
LoopAt(i, at) == loop[i].at = at

(* receive_event: push_if_needed (NullConnectivity::is_realtime is true) ... *)
NeedPush(m) ==
    \/ m.state \in {"Creating", "Subscribing", "SubscribingOrCreating", "Unsubscribing"}
    \/ m.last > m.cp

LoopCheck(i) ==
    /\ LoopAt(i, "check")
    /\ loop' = [loop EXCEPT ![i] =
                   IF loop[i].mode = "Normal" /\ NeedPush(dt[i])
                   THEN [at |-> "push", resp |-> Nobody]
                   ELSE [at |-> "select", mode |-> loop[i].mode]]
    /\ UNCHANGED <<registryVars, dt, chan, handles, heard, pc, tasks, handlerVars>>

(* process_blocking_resp comes last; without a caller there is nothing to   *)
(* answer.                                                                  *)
Respond(mode, resp) ==
    IF resp = Nobody THEN [at |-> "check", mode |-> mode]
    ELSE [at |-> "answer", mode |-> mode, resp |-> resp]

(* ... or an event of one of the channels. *)
Take(i, resp) ==
    IF loop[i].mode = "Stopped" THEN Respond("Stopped", resp)
    ELSE [at |-> "push", resp |-> resp]

SelectBounded(i) ==
    /\ LoopAt(i, "select") /\ chan[i].bounded
    /\ chan' = [chan EXCEPT ![i].bounded = FALSE]
    /\ loop' = [loop EXCEPT ![i] = Take(i, Nobody)]
    /\ UNCHANGED <<registryVars, dt, handles, heard, pc, tasks, handlerVars>>

SelectUnbounded(i) ==
    /\ LoopAt(i, "select") /\ chan[i].unbounded # <<>>
    /\ chan' = [chan EXCEPT ![i].unbounded = Tail(@)]
    /\ loop' = [loop EXCEPT ![i] =
                   IF Head(chan[i].unbounded) = Stop THEN [at |-> "exited"]
                   ELSE Take(i, Head(chan[i].unbounded).resp)]
    /\ UNCHANGED <<registryVars, dt, handles, heard, pc, tasks, handlerVars>>

(* NullConnectivity::push_pull: the response to a pack with this state, the *)
(* cseq of its last transaction or else of the checkpoint, and whether it   *)
(* has transactions.  Nothing is answered to a Disabled datatype: the       *)
(* code's unreachable!() panics.                                            *)
NullResponse(st, cseq, hasTxs, readonly) ==
    CASE st \in {"Creating", "SubscribingOrCreating"} /\ readonly ->
            [state |-> "Disabled", cseq |-> 0, error |-> TRUE]
      [] st = "Subscribing" /\ hasTxs ->
            [state |-> "Disabled", cseq |-> 0, error |-> TRUE]
      [] st = "Subscribing" /\ ~hasTxs ->
            [state |-> "Subscribed", cseq |-> 0, error |-> FALSE]
      [] st = "Unsubscribing" ->
            [state |-> "Disabled", cseq |-> cseq, error |-> FALSE]
      [] OTHER ->
            [state |-> "Subscribed", cseq |-> cseq, error |-> FALSE]

(* do_push_pull: the pack is built in one lock section and answered; the    *)
(* panic drops the caller's channel, so a sync() that waits gets an error,  *)
(* but the loop's channels stay open.                                       *)
MutAnswerLost(resp) == pc

Answered(resp) ==
    IF resp = Nobody THEN pc ELSE [pc EXCEPT ![resp] = Idle]

LoopPush(i) ==
    LET m == dt[i]
        l == loop[i]
    IN  /\ LoopAt(i, "push")
        /\ IF m.state = "Disabled"
           THEN loop' = [loop EXCEPT ![i] = [at |-> "panicked"]] /\ pc' = Answered(l.resp)
           ELSE /\ loop' = [loop EXCEPT ![i] =
                       [at |-> "apply", resp |-> l.resp,
                        reply |-> NullResponse(m.state, IF m.last > m.cp THEN m.last ELSE m.cp,
                                               m.last > m.cp, m.readonly)]]
                /\ UNCHANGED pc
        /\ UNCHANGED <<registryVars, dt, chan, handles, heard, tasks, handlerVars>>

(* PullHandler: whether the response is legal depends on the state of now,  *)
(* which may be another than the one that was pushed.  A datatype that is   *)
(* Disabled by then meets a todo!(); it takes a third thread to disable one *)
(* during an exchange of this connectivity, and SyncProtocol has the panic. *)
Legal(st, r) ==
    ~r.error /\ r.state = (IF st = "Unsubscribing" THEN "Disabled" ELSE "Subscribed")

Pulled(m, r) ==
    IF Legal(m.state, r)
    THEN [m EXCEPT !.state = r.state, !.cp = IF r.cseq > @ THEN r.cseq ELSE @]
    ELSE [m EXCEPT !.state = "Disabled"]

(* A section that ends with set_state: the lock is kept for the detaching.  *)
SetStateThen(i, m, next) ==
    /\ tasks' = tasks \cup Told(i, m.state)
    /\ dt' = [dt EXCEPT ![i] = m]
    /\ loop' = [loop EXCEPT ![i] =
                   IF Detaches(i, m.state) THEN [at |-> "detaching", next |-> next]
                   ELSE next]

LoopApply(i) ==
    LET r == loop[i].reply
    IN  /\ LoopAt(i, "apply")
        /\ SetStateThen(i, Pulled(dt[i], r),
               IF Legal(dt[i].state, r)
               THEN Respond("Normal", loop[i].resp)
               ELSE [at |-> "failed", resp |-> loop[i].resp])
        /\ UNCHANGED <<registryVars, chan, handles, heard, pc, handlerVars>>

(* remove_if_same_instance, under the manager's write lock; nothing if the  *)
(* client is gone.                                                          *)
MutRemoveByKey(i) == [manager EXCEPT ![dt[i].key] = NoInst]

MutNeverRemove(i) == manager

RemoveIfSameInstance(i) ==
    IF manager[dt[i].key] = i THEN [manager EXCEPT ![dt[i].key] = NoInst] ELSE manager

LoopDetach(i) ==
    /\ LoopAt(i, "detaching")
    /\ client => mlock = Nobody
    /\ manager' = IF client THEN RemoveIfSameInstance(i) ELSE manager
    /\ loop' = [loop EXCEPT ![i] = loop[i].next]
    /\ UNCHANGED <<scenario, client, mlock, dt, chan, handles, heard, pc, tasks, handlerVars>>

(* WiredDatatype::handle_error: disable() in a write section ... *)
Disable(m) == [m EXCEPT !.state = "Disabled", !.last = 0, !.pending = <<>>]

LoopDisable(i) ==
    /\ LoopAt(i, "failed")
    /\ SetStateThen(i, Disable(dt[i]), [at |-> "report", resp |-> loop[i].resp])
    /\ UNCHANGED <<registryVars, chan, handles, heard, pc, handlerVars>>

(* ... and call_error_handler in a read section. *)
LoopReport(i) ==
    /\ LoopAt(i, "report")
    /\ tasks' = tasks \cup Dispatch(i, "failed")
    /\ loop' = [loop EXCEPT ![i] = Respond("Stopped", loop[i].resp)]
    /\ UNCHANGED <<registryVars, dt, chan, handles, heard, pc, handlerVars>>

LoopAnswer(i) ==
    /\ LoopAt(i, "answer")
    /\ pc' = Answered(loop[i].resp)
    /\ loop' = [loop EXCEPT ![i] = [at |-> "check", mode |-> loop[i].mode]]
    /\ UNCHANGED <<registryVars, dt, chan, handles, heard, tasks, handlerVars>>

-----------------------------------------------------------------------------
(* The first step of every call of Client and of Datatype. *)
ClientCall(u) ==
    \E k \in Keys :
        \/ \E as \in scenario.as : BuildVacant(u, k, as)
        \/ BuildOccupied(u, k) \/ GetDatatype(u, k)

DatatypeCall(u) ==
    \E i \in DOMAIN dt :
        \/ DropHandle(u, i) \/ CheckSubscribed(u, i) \/ CheckDisabled(u, i)
        \/ CheckWritable(u, i)
        \/ \E p \in Priorities : SetHandler(u, i, p) \/ UnsetHandler(u, i, p)

GoOn(u) ==
    \/ ReadExisting(u) \/ SetUnsubscribing(u) \/ SendBestEffort(u) \/ SendSync(u)
    \/ ExecuteOp(u) \/ Commit(u) \/ (\E refused \in BOOLEAN : Rollback(u, refused))
    \/ ReportRefusal(u)

LoopStep(i) ==
    \/ LoopCheck(i) \/ SelectBounded(i) \/ SelectUnbounded(i) \/ LoopPush(i)
    \/ LoopApply(i) \/ LoopDetach(i) \/ LoopDisable(i) \/ LoopReport(i) \/ LoopAnswer(i)

Runtime == \E t \in tasks : RunTask(t)

Next ==
    \/ \E u \in Users : ClientCall(u) \/ DatatypeCall(u) \/ GoOn(u)
    \/ DropClient
    \/ \E i \in DOMAIN dt : DropDatatype(i) \/ LoopStep(i)
    \/ Runtime

(* A call that was made goes on, threads of event loops are scheduled and   *)
(* the runtime runs every task; a lock that is free again and again is got  *)
(* (parking_lot's are eventually fair).  Nobody has to make a call.         *)
Fairness ==
    /\ \A u \in Users : WF_vars(GoOn(u))
    /\ \A i \in Insts : /\ WF_vars(i \in DOMAIN dt /\ LoopStep(i))
                        /\ SF_vars(i \in DOMAIN dt /\ LoopDetach(i))
                        /\ WF_vars(i \in DOMAIN dt /\ DropDatatype(i))
    /\ WF_vars(Runtime)

Spec == Init /\ [][Next]_vars /\ Fairness
-----------------------------------------------------------------------------
Managed(i) == client /\ \E k \in Keys : manager[k] = i

LoopPcs == {"check", "select", "push", "apply", "detaching", "failed", "report",
            "answer", "exited", "panicked"}

UserPcs == {"existing", "unsubscribe", "send", "sync", "waiting", "write", "tx", "report"}

(* The registry maps each key to nothing or to a datatype built for that    *)
(* key, the manager's lock is held exactly by the thread in the occupied    *)
(* branch of subscribe_or_create_datatype, at most one thread is in a       *)
(* datatype's transaction, and no acknowledgement exceeds what was written. *)
TypeOK ==
    /\ client \in BOOLEAN
    /\ \A k \in Keys : manager[k] # NoInst =>
          manager[k] \in DOMAIN dt /\ dt[manager[k]].key = k
    /\ \A u \in Users :
          /\ Free(u) \/ (pc[u].at \in UserPcs /\ u \in handles[pc[u].inst])
                     \/ (pc[u].at = "existing" /\ client)
          /\ mlock = u <=> pc[u].at = "existing"
    /\ \A i \in DOMAIN dt :
          /\ loop[i].at \in LoopPcs
          /\ dt[i].last <= dt[i].seq /\ dt[i].cp <= dt[i].seq
          /\ Cardinality({u \in Users : pc[u] = [at |-> "tx", inst |-> i]}) <= 1
    /\ \A t \in tasks : t.inst \in DOMAIN dt

(* What the client hands out is alive: the event loop of a datatype that is *)
(* in the registry has neither been stopped nor died in the                 *)
(* unreachable!() of NullConnectivity, so a Disabled datatype must be out   *)
(* of the registry before its loop can push again.                          *)
ManagedLoopsRun ==
    \A i \in DOMAIN dt : Managed(i) => loop[i].at \notin {"exited", "panicked"}

(* An entry leaves the registry only with its own datatype Disabled: an old *)
(* datatype of the key that is Disabled a second time (its rollback had     *)
(* brought it back) takes no newer one with it.                             *)
OnlyDisabledLeave ==
    [][\A i \in DOMAIN dt :
          Managed(i) /\ client' /\ manager'[dt[i].key] # i => dt[i].state = "Disabled"]_vars

(* A handler that unset_handler gave back is not called any more: no task   *)
(* that is still to run holds it.                                           *)
NoCallAfterReturn ==
    \A t \in tasks : Range(t.handlers) \cap returned = {}

(* A build of a taken key waits for the lock of the datatype that has it,   *)
(* and that datatype's set_state for the manager's lock.                    *)
LockCycle == \E u \in Users : pc[u].at = "existing" /\ Locked(pc[u].inst)

DisabledHere(i) == dt[i].state = "Disabled" /\ Managed(i)

(* A Disabled datatype leaves the registry, so that its key can be built    *)
(* again, unless the two locks are taken in opposite orders.                *)
DetachedUnlessLocked == []<>(LockCycle \/ \A i \in DOMAIN dt : ~DisabledHere(i))

(* Every sync() returns, unless the event loop panics with the event still  *)
(* in its open channel or the locks are in a cycle.  In particular the Stop *)
(* of a dropped datatype never overtakes a caller.  (Users call sync only a *)
(* bounded number of times, so some day nobody waits.)                      *)
SyncReturns ==
    []<>(LockCycle \/ \A u \in Users :
            pc[u].at = "waiting" => LoopAt(pc[u].inst, "panicked"))

Heard(i, event) == i \in DOMAIN dt /\ event \in heard[i]

HasHandlers(i) == i \in DOMAIN dt /\ HandlersOf(i) # <<>>

(* The change to Disabled, which happens on the event loop's thread and may *)
(* take the last owner away, is told to the handlers of that moment even if *)
(* nobody but the registry owned the datatype.                              *)
DisabledIsHeard ==
    \A i \in Insts : (HasHandlers(i) /\ LoopAt(i, "detaching")) ~> Heard(i, "Disabled")

(* A commit the push buffer refused, whose call has returned Ok, is         *)
(* reported to the handlers, if there are any when the report is made.      *)
RefusalIsHeard ==
    \A i \in Insts :
        (i \in refusals) ~> (Heard(i, "refused") \/ ~HasHandlers(i) \/ LockCycle)

(* The event loop of a datatype nobody owns any more ends.                  *)
LoopEnds ==
    []<>(\A i \in DOMAIN dt : Owned(i) \/ loop[i].at \in {"exited", "panicked"})

(* src/datatypes/datatype.rs: "Once the backend confirms unsubscribe, the   *)
(* datatype transitions to Disabled and client-managed datatypes are        *)
(* detached from their owning client."                                      *)
DisabledIsDetached == []<>(\A i \in DOMAIN dt : ~DisabledHere(i))
=============================================================================
