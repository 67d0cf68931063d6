----------------------------- MODULE SyncProtocol -----------------------------
(***************************************************************************)
(* Replicas of one counter that push and pull through LocalConnectivity    *)
(* and its LocalDatatypeServer.  Per client there are user threads (write, *)
(* end a transaction, unsubscribe) and the event loop's thread, which runs *)
(* WiredDatatype::push_pull: it builds a pack under the mutable lock, calls *)
(* the server without it, and applies the response under it again.  Every  *)
(* section under a lock is one action, so all that can happen between two  *)
(* sections of an exchange does happen.                                    *)
(***************************************************************************)
EXTENDS MutableOps, Errors

CONSTANTS
    Clients,      \* cuids
    MaxInst,      \* bound: datatypes a client builds for the key, one after another
    MaxTxOps,     \* bound: operations of one transaction
    MaxMem,       \* option.max_mem_size_of_push_buffer, in size units
    ReadOnly,     \* clients that build it with_readonly()
    Scenarios     \* bound: what is explored, see SyncAssumption

(* A scenario says who takes part, the states they build the datatype in,   *)
(* how many operations each executes, DEFAULT_MAX_TRANSMISSION_SIZE in size *)
(* units, and what users and the network do:                                *)
(* "rollback"    transaction functions may return an error                  *)
(* "spanning"    a response may arrive while a local transaction is open    *)
(* "unsubscribe" users may unsubscribe                                      *)
(* "rebuild"     clients may build the key again                            *)
(* "lose"        an exchange may time out before or after the server ran    *)
(* "loseCreate"  so may one of a datatype that is not Subscribed yet        *)
(* "late"        clients may subscribe while the creator has operations the *)
(*               server has not acknowledged                                *)
(* "debug"       the build checks integer overflow (debug profile)          *)
Behaviours ==
    {"rollback", "spanning", "unsubscribe", "rebuild", "lose", "loseCreate", "late", "debug"}

(* create_datatype, subscribe_datatype, subscribe_or_create_datatype *)
InitialStates == {"Creating", "Subscribing", "SubscribingOrCreating"}

ASSUME SyncAssumption ==
    /\ MaxInst \in Nat /\ MaxTxOps \in Nat
    /\ MaxMem \in Nat
    /\ ReadOnly \subseteq Clients
    /\ Scenarios \subseteq
           [who : SUBSET Clients, as : SUBSET InitialStates, ops : Nat,
            transmit : Nat, env : SUBSET Behaviours]

VARIABLES
    scenario,\* the scenario this behaviour is one of
    inst,    \* how many datatypes the client has built; 0: none yet
    dt,      \* the current datatype's MutableDatatype
    duid,    \* attr.duid: <<cuid, instance>> of the datatype it belongs to
    checked, \* checks a user thread has passed and not acted on yet
    net,     \* the exchange the event loop is in
    loop,    \* LoopMode ("Normal" covers BackOff), or "Panicked"
    srv,     \* the LocalDatatypeServer the connectivity's map holds
    budget   \* bound: operations left to each client

vars == <<scenario, inst, dt, duid, checked, net, loop, srv, budget>>
clientVars == <<scenario, inst, checked, budget>>

(* The origin of an operation is the datatype that executed it. *)
Origins == Clients \X (1..MaxInst)

Nobody == "nobody"

Idle == [kind |-> "idle"]

(* What is left of an exchange that failed: the recovery it is routed to,   *)
(* unless that is RetryWithBackOff, which does nothing to the datatype.     *)
Failed(recovery) ==
    IF recovery = "RetryWithBackOff" THEN Idle ELSE [kind |-> "error", recovery |-> recovery]

-----------------------------------------------------------------------------
(* LocalDatatypeServer::new.  `gen` tells server objects apart (Arc::ptr_eq)*)
(* and sseq, which numbers the history, is its length.                      *)
NewServer(c, d, g) ==
    [gen |-> g, present |-> TRUE, wired |-> {}, created |-> FALSE,
     creator |-> c, duid |-> d, history |-> <<>>,
     cseqMap |-> [x \in Clients |-> 0]]

Sseq == Len(srv.history)

Init ==
    /\ scenario \in Scenarios
    /\ inst = [c \in Clients |-> 0]
    /\ dt = [c \in Clients |-> NewMutable(Origins, "Disabled")]
    /\ duid = [c \in Clients |-> <<c, 0>>]
    /\ checked = [c \in Clients |-> {}]
    /\ net = [c \in Clients |-> Idle]
    /\ loop = [c \in Clients |-> "Stopped"]
    /\ srv = [NewServer(Nobody, <<Nobody, 0>>, 0) EXCEPT !.present = FALSE]
    /\ budget = [c \in Clients |-> scenario.ops]

-----------------------------------------------------------------------------
(* Client::..._datatype().build_counter(): once the client has no datatype  *)
(* or its last one was detached as Disabled (the user drops the old handle) *)
(* LocalConnectivity::register finds or makes the server entry ...          *)
Build(c, st) ==
    /\ c \in scenario.who
    /\ inst[c] < MaxInst /\ (inst[c] = 0 \/ "rebuild" \in scenario.env)
    /\ dt[c].state = "Disabled" /\ net[c] = Idle
    /\ checked' = [checked EXCEPT ![c] = {}]
    /\ srv' = IF srv.present THEN srv
              ELSE NewServer(c, <<c, inst[c] + 1>>, srv.gen + 1)
    /\ net' = [net EXCEPT ![c] = [kind |-> "register", gen |-> srv'.gen, state |-> st]]
    /\ UNCHANGED <<scenario, inst, dt, duid, loop, budget>>

(* ... and, in a second lock section, inserts the new datatype: into an     *)
(* object nobody finds any more if the entry was removed in between.  Then  *)
(* the event loop starts.                                                   *)
Register(c) ==
    /\ net[c].kind = "register"
    /\ inst' = [inst EXCEPT ![c] = @ + 1]
    /\ dt' = [dt EXCEPT ![c] = NewMutable(Origins, net[c].state)]
    /\ duid' = [duid EXCEPT ![c] = <<c, inst[c] + 1>>]
    /\ loop' = [loop EXCEPT ![c] = "Normal"]
    /\ net' = [net EXCEPT ![c] = Idle]
    /\ srv' = IF srv.present /\ srv.gen = net[c].gen
              THEN [srv EXCEPT !.wired = @ \cup {c}] ELSE srv
    /\ UNCHANGED <<scenario, checked, budget>>

Built(c) == inst[c] > 0 /\ net[c].kind # "register"

-----------------------------------------------------------------------------
(* The user's threads.  check_writable reads the state in a lock section of *)
(* its own; the operation executes in a later one.                          *)
CheckWritable(c) ==
    /\ Built(c) /\ c \notin ReadOnly
    /\ dt[c].state \in ReadWritable
    /\ "write" \notin checked[c]
    /\ budget[c] > 0 /\ Len(dt[c].pending) < MaxTxOps
    /\ checked' = [checked EXCEPT ![c] = @ \cup {"write"}]
    /\ UNCHANGED <<scenario, inst, dt, duid, net, loop, srv, budget>>

ExecuteOp(c) ==
    /\ "write" \in checked[c]
    /\ dt' = [dt EXCEPT ![c] = ExecuteLocal(@, <<c, inst[c]>>)]
    /\ checked' = [checked EXCEPT ![c] = @ \ {"write"}]
    /\ budget' = [budget EXCEPT ![c] = @ - 1]
    /\ UNCHANGED <<scenario, inst, duid, net, loop, srv>>

(* TransactionalDatatype::end_transaction *)
EndTx(c, committed) ==
    /\ dt[c].pending # <<>> /\ "write" \notin checked[c]
    /\ committed \/ "rollback" \in scenario.env
    /\ dt' = [dt EXCEPT ![c] = EndTransaction(@, c, committed, MaxMem)]
    /\ UNCHANGED <<clientVars, duid, net, loop, srv>>

(* unsubscribe: check_subscribed, then set_state in another lock section. *)
CheckSubscribed(c) ==
    /\ "unsubscribe" \in scenario.env
    /\ Built(c) /\ dt[c].state = "Subscribed" /\ "unsub" \notin checked[c]
    /\ checked' = [checked EXCEPT ![c] = @ \cup {"unsub"}]
    /\ UNCHANGED <<scenario, inst, dt, duid, net, loop, srv, budget>>

SetUnsubscribing(c) ==
    /\ "unsub" \in checked[c]
    /\ checked' = [checked EXCEPT ![c] = @ \ {"unsub"}]
    /\ dt' = [dt EXCEPT ![c].state = "Unsubscribing"]
    /\ UNCHANGED <<scenario, inst, duid, net, loop, srv, budget>>

-----------------------------------------------------------------------------
(* The event loop takes a PushTransaction event (queued by a commit, a      *)
(* notification, sync() or push_if_needed, possibly before the state it     *)
(* finds) and do_push_pull builds the pack: the state, the transactions     *)
(* after the acknowledged one, and the checkpoint.                          *)
CreatePushPullPack(c) ==
    [kind |-> "push", cuid |-> c, duid |-> duid[c], state |-> dt[c].state,
     sseq |-> dt[c].cp.sseq, readonly |-> c \in ReadOnly,
     txs  |-> PushingTransactions(dt[c].buf, dt[c].cp.cseq + 1, scenario.transmit)]

StartPush(c) ==
    /\ Built(c) /\ net[c] = Idle /\ loop[c] = "Normal"
    /\ net' = [net EXCEPT ![c] =
                  IF CannotPushFrom(dt[c].buf, dt[c].cp.cseq + 1)
                  THEN Failed(ReasonMapping("GetPushingTransactions"))
                  ELSE CreatePushPullPack(c)]
    /\ UNCHANGED <<clientVars, dt, duid, loop, srv>>

-----------------------------------------------------------------------------
(* The server.  get_pulled_stub, and the stub every rejection returns. *)
Stub(p) ==
    [kind |-> "pulled", state |-> p.state, error |-> "none", duid |-> p.duid,
     cp |-> [sseq |-> 0, cseq |-> 0], txs |-> <<>>, snapshot |-> <<>>]

Reject(p, err) == [Stub(p) EXCEPT !.state = "Disabled", !.error = err]

(* push_transactions: everything above the client's last known cseq.  The   *)
(* pushed cseqs increase, so what is skipped is a prefix.                   *)
FirstNew(txs, known) ==
    CHOOSE i \in 1..(Len(txs) + 1) :
        /\ \A j \in 1..(i - 1) : txs[j].cseq <= known
        /\ \A j \in i..Len(txs) : txs[j].cseq > known

(* Definitions named Mut... are plausible faults of the definition after    *)
(* them; the mutation runs listed in PROJECT.json use them, nothing else.   *)
MutNoDedup(txs, known) == txs

NewTxs(txs, known) == SubSeq(txs, FirstNew(txs, known), Len(txs))

MutAckWithoutStore(s, p) ==
    LET new == NewTxs(p.txs, s.cseqMap[p.cuid])
    IN  IF new = <<>> THEN s
        ELSE [s EXCEPT !.history = @ \o SubSeq(new, 2, Len(new)),
                       !.cseqMap[p.cuid] = new[Len(new)].cseq]

PushTransactions(s, p) ==
    LET new == NewTxs(p.txs, s.cseqMap[p.cuid])
    IN  IF new = <<>> THEN s
        ELSE [s EXCEPT !.history = @ \o new,
                       !.cseqMap[p.cuid] = new[Len(new)].cseq]

(* pull_transactions: one entry of the history after the other, the others' *)
(* transactions after an sseq are pulled.                                   *)
MutPullOwn(s, c, from) == SubSeq(s.history, from + 1, Len(s.history))

MutPullSkipsOne(s, c, from) ==
    SelectSeq(SubSeq(s.history, from + 2, Len(s.history)),
              LAMBDA tx : tx.cuid # c)

PullTransactions(s, c, from) ==
    LET pulled[n \in 0..Len(s.history)] ==
            IF n = 0 THEN <<>>
            ELSE IF n > from /\ s.history[n].cuid # c
            THEN Append(pulled[n - 1], s.history[n])
            ELSE pulled[n - 1]
    IN  pulled[Len(s.history)]

(* Answer the push of client c; the server object becomes s. *)
Reply(c, s, r) ==
    /\ srv' = s
    /\ net' = [net EXCEPT ![c] = r]
    /\ UNCHANGED <<clientVars, dt, duid, loop>>

Pushed(c, states) == net[c].kind = "push" /\ net[c].state \in states

(* push_pull without a server entry, and process_disabled. *)
ServerMissing(c) ==
    /\ net[c].kind = "push" /\ ~srv.present
    /\ Reply(c, srv, Reject(net[c], "ResourceNotFound"))

MutDisabledWithoutError(c) ==
    /\ srv.present /\ Pushed(c, {"Disabled"})
    /\ Reply(c, srv, Stub(net[c]))

ServerDisabled(c) ==
    /\ srv.present /\ Pushed(c, {"Disabled"})
    /\ Reply(c, srv, Reject(net[c], "ProtocolViolation"))

(* process_creating: a second push with the created duid is taken for a     *)
(* retransmission; the response carries the server's sseq and no            *)
(* transactions.                                                            *)
Created(p) ==
    PushTransactions([srv EXCEPT !.created = TRUE, !.creator = p.cuid,
                                 !.duid = p.duid], p)

ServerCreating(c) ==
    LET p == net[c]
        s == Created(p)
    IN  /\ srv.present
        /\ \/ Pushed(c, {"Creating"})
           \/ Pushed(c, {"SubscribingOrCreating"}) /\ ~srv.created
        /\ IF srv.created /\ srv.duid # p.duid
           THEN Reply(c, srv, Reject(p, "CreateFailed"))
           ELSE IF p.readonly
           THEN Reply(c, srv, Reject(p, "ReadonlyViolation"))
           ELSE Reply(c, s, [Stub(p) EXCEPT
                    !.state = "Subscribed",
                    !.cp = [sseq |-> Len(s.history), cseq |-> s.cseqMap[c]]])

(* The snapshot is read from the creator's replica, whatever that holds.    *)
(* Unless users may subscribe late, all its operations are acknowledged.    *)
InSync(c) == dt[c].pending = <<>> /\ dt[c].cp.cseq = dt[c].cseq

(* process_subscribing *)
ServerSubscribing(c) ==
    LET p    == net[c]
        from == dt[srv.creator].cp.sseq
    IN  /\ srv.present
        /\ \/ Pushed(c, {"Subscribing"})
           \/ Pushed(c, {"SubscribingOrCreating"}) /\ srv.created
        /\ IF ~srv.created
           THEN Reply(c, srv, Reject(p, "ResourceNotFound"))
           ELSE IF p.txs # <<>>
           THEN Reply(c, srv, Reject(p, "ProtocolViolation"))
           ELSE IF srv.creator \notin srv.wired
           THEN Reply(c, srv, [Stub(p) EXCEPT !.duid = srv.duid,
                                              !.error = "ServerInternalError"])
           ELSE /\ "late" \in scenario.env \/ InSync(srv.creator)
                /\ Reply(c, srv, [Stub(p) EXCEPT
                       !.duid = srv.duid, !.state = "Subscribed",
                       !.cp = [sseq |-> Sseq, cseq |-> 0],
                       !.snapshot = <<dt[srv.creator].crdt>>,
                       !.txs = PullTransactions(srv, c, from)])

(* process_client_push: the server it leaves and the response. *)
ReadonlyPush(p) == p.readonly /\ p.txs # <<>>

AfterPush(p) == IF ReadonlyPush(p) THEN srv ELSE PushTransactions(srv, p)

ClientPush(p, s, success) ==
    IF ReadonlyPush(p) THEN Reject(p, "ReadonlyViolation")
    ELSE [Stub(p) EXCEPT
             !.state = success,
             !.cp = [sseq |-> Len(s.history), cseq |-> s.cseqMap[p.cuid]],
             !.txs = PullTransactions(s, p.cuid, p.sseq)]

(* process_subscribed *)
ServerSubscribed(c) ==
    LET p == net[c]
        s == AfterPush(p)
    IN  /\ srv.present /\ Pushed(c, {"Subscribed"})
        /\ IF c \notin srv.wired
           THEN Reply(c, srv, Reject(p, "MissingSubscription"))
           ELSE Reply(c, s, ClientPush(p, s, "Subscribed"))

(* process_unsubscribing: the client leaves, another registered one may     *)
(* become the creator; an emptied server is removed in a later section.     *)
ServerUnsubscribing(c) ==
    LET p == net[c]
        s == AfterPush(p)
        rest == srv.wired \ {c}
        r == ClientPush(p, s, "Disabled")
    IN  /\ srv.present /\ Pushed(c, {"Unsubscribing"})
        /\ IF c \notin srv.wired
           THEN Reply(c, srv, IF srv.wired = {}
                              THEN [kind |-> "collect", gen |-> srv.gen,
                                    reply |-> [Stub(p) EXCEPT !.state = "Disabled"]]
                              ELSE [Stub(p) EXCEPT !.state = "Disabled"])
           ELSE \E next \in IF srv.creator = c /\ rest # {} THEN rest
                            ELSE {srv.creator} :
                    Reply(c, [s EXCEPT !.wired = rest, !.creator = next],
                          IF rest = {} THEN [kind |-> "collect", gen |-> srv.gen,
                                             reply |-> r]
                          ELSE r)

(* LocalConnectivity::push_pull: remove the entry if it is still the server *)
(* that was empty when its lock was released, even if a client has          *)
(* registered with it since.  (A push that looked the object up before the  *)
(* removal and runs on it afterwards changes only the removed object: it is *)
(* the same behaviour as one that ran before the removal.)                  *)
RemoveServer(c) ==
    /\ net[c].kind = "collect"
    /\ srv' = IF srv.gen = net[c].gen THEN [srv EXCEPT !.present = FALSE] ELSE srv
    /\ net' = [net EXCEPT ![c] = net[c].reply]
    /\ UNCHANGED <<clientVars, dt, duid, loop>>

(* ConnectivityError::TimedOut, whether or not the server processed the     *)
(* push.                                                                    *)
TimeOut(c) ==
    /\ "lose" \in scenario.env
    /\ \/ dt[c].state \in {"Subscribed", "Unsubscribing", "Disabled"}
       \/ "loseCreate" \in scenario.env
    /\ net[c].kind \in {"push", "pulled"}
    /\ net' = [net EXCEPT ![c] = Failed(Mapping(TimedOut))]
    /\ UNCHANGED <<clientVars, dt, duid, loop, srv>>

-----------------------------------------------------------------------------
(* PullHandler.  Which responses are legal is decided with the state the    *)
(* datatype has now, not the one it was pushed in.                          *)
LegalResponse(st, r) ==
    IF st = "Unsubscribing" THEN r.state = "Disabled" ELSE r.state = "Subscribed"

(* handle_error_and_datatype_state: whether the response is a subscription  *)
(* to somebody else's datatype.                                             *)
AppliesSubscription(c, r) ==
    \/ dt[c].state = "Subscribing"
    \/ dt[c].state = "SubscribingOrCreating" /\ r.duid # duid[c]

(* apply_subscribe_response *)
SubscribedReplica(c, r) ==
    IF AppliesSubscription(c, r) /\ r.snapshot # <<>>
    THEN ApplySnapshot(dt[c], r.snapshot[1]) ELSE dt[c]

(* calculate_pulling_transactions: the difference of two u64 differences.   *)
(* When one underflows, a debug build panics and a release build wraps      *)
(* around to a number larger than any pack, which skips nothing.            *)
PullCount(m, r) == (r.cp.sseq - m.cp.sseq) - (r.cp.cseq - m.cp.cseq)

Underflows(m, r) ==
    r.cp.sseq < m.cp.sseq \/ r.cp.cseq < m.cp.cseq \/ PullCount(m, r) < 0

(* skip_duplicated_transactions *)
Skipped(m, r) ==
    IF PullCount(m, r) >= 0 /\ Len(r.txs) > PullCount(m, r)
    THEN Len(r.txs) - PullCount(m, r) ELSE 0

(* execute_transactions, sync_checkpoint and the final set_state. *)
PulledReplica(m, r) ==
    [m EXCEPT !.crdt  = ExecuteTxs(@, SubSeq(r.txs, Skipped(m, r) + 1, Len(r.txs))),
              !.cp    = [sseq |-> Max({@.sseq, r.cp.sseq}),
                         cseq |-> Max({@.cseq, r.cp.cseq})],
              !.state = r.state]

Arrived(c) ==
    /\ net[c].kind = "pulled"
    /\ "spanning" \in scenario.env \/ dt[c].pending = <<>>

(* An error response: no step runs, but set_state does.  Its recovery is    *)
(* applied in a later section.                                              *)
ApplyError(c) ==
    /\ Arrived(c) /\ net[c].error # "none"
    /\ dt' = [dt EXCEPT ![c].state = net[c].state]
    /\ net' = [net EXCEPT ![c] = Failed(Mapping(ToDatatypeError(net[c].error)))]
    /\ UNCHANGED <<clientVars, duid, loop, srv>>

(* process_illegal_state_response *)
ApplyIllegal(c) ==
    /\ Arrived(c) /\ net[c].error = "none"
    /\ dt[c].state # "Disabled" /\ ~LegalResponse(dt[c].state, net[c])
    /\ dt' = [dt EXCEPT ![c].state = "Disabled"]
    /\ net' = [net EXCEPT ![c] = Failed(Mapping("ServerRejected"))]
    /\ UNCHANGED <<clientVars, duid, loop, srv>>

(* A response without an error: the steps and set_state, the panic of a     *)
(* checked subtraction after the snapshot was applied, or the todo!() that  *)
(* a Disabled datatype meets.                                               *)
ApplyPulled(c) ==
    LET r == net[c]
        m == SubscribedReplica(c, r)
        panic == \/ dt[c].state = "Disabled"
                 \/ "debug" \in scenario.env /\ Underflows(m, r)
    IN  /\ Arrived(c) /\ r.error = "none"
        /\ dt[c].state = "Disabled" \/ LegalResponse(dt[c].state, r)
        /\ dt' = [dt EXCEPT ![c] = IF panic THEN m ELSE PulledReplica(m, r)]
        /\ duid' = IF AppliesSubscription(c, r) THEN [duid EXCEPT ![c] = r.duid]
                   ELSE duid
        /\ loop' = IF panic THEN [loop EXCEPT ![c] = "Panicked"] ELSE loop
        /\ net' = [net EXCEPT ![c] = Idle]
        /\ UNCHANGED <<clientVars, srv>>

(* WiredDatatype::handle_error, and the mode the loop goes on in. *)
HandleError(c) ==
    /\ net[c].kind = "error"
    /\ dt' = [dt EXCEPT ![c] = ApplyAction(@, net[c].recovery)]
    /\ loop' = [loop EXCEPT ![c] = LoopModeFrom(net[c].recovery)]
    /\ net' = [net EXCEPT ![c] = Idle]
    /\ UNCHANGED <<clientVars, duid, srv>>

-----------------------------------------------------------------------------
User(c) ==
    \/ \E st \in scenario.as : Build(c, st)
    \/ CheckWritable(c) \/ ExecuteOp(c) \/ (\E ok \in BOOLEAN : EndTx(c, ok))
    \/ CheckSubscribed(c) \/ SetUnsubscribing(c)

Server(c) ==
    \/ ServerMissing(c) \/ ServerDisabled(c) \/ ServerCreating(c)
    \/ ServerSubscribing(c) \/ ServerSubscribed(c) \/ ServerUnsubscribing(c)
    \/ RemoveServer(c)

EventLoop(c) ==
    \/ Register(c) \/ StartPush(c) \/ TimeOut(c)
    \/ ApplyError(c) \/ ApplyIllegal(c) \/ ApplyPulled(c) \/ HandleError(c)

Next == \E c \in Clients : User(c) \/ Server(c) \/ EventLoop(c)

Spec == Init /\ [][Next]_vars

-----------------------------------------------------------------------------
Checkpoints == [sseq : Nat, cseq : Nat]

Duids == (Clients \cup {Nobody}) \X Nat

Transactions == [cuid : Clients, cseq : Nat, ops : Seq(Origins)]

Mutables ==
    [crdt     : [Origins -> Int],
     cseq     : Nat,
     buf      : [txs : Seq(Transactions), mem_size : Nat,
                 first_cseq : Nat, last_cseq : Nat],
     cp       : Checkpoints,
     state    : States,
     pending  : Seq(Origins),
     rollback : [cseq : Nat, state : States]]

Packs ==
    [kind : {"push"}, cuid : Clients, duid : Duids, state : States, sseq : Nat,
     readonly : BOOLEAN, txs : Seq(Transactions)]

Responses ==
    [kind : {"pulled"}, state : States, duid : Duids, cp : Checkpoints,
     error : {"none"} \cup PushPullErrors,
     txs : Seq(Transactions), snapshot : Seq([Origins -> Int])]

Exchanges ==
    {Idle, Failed("Disable")} \cup Packs \cup Responses
    \cup [kind : {"register"}, gen : Nat, state : States]
    \cup [kind : {"collect"}, gen : Nat, reply : Responses]

(* Replicas, packs, responses and the server are well formed; in particular *)
(* no sequence number of a replica or of the server ever goes below zero.   *)
TypeOK ==
    /\ inst \in [Clients -> 0..MaxInst]
    /\ dt \in [Clients -> Mutables]
    /\ duid \in [Clients -> Duids]
    /\ checked \in [Clients -> SUBSET {"write", "unsub"}]
    /\ net \in [Clients -> Exchanges]
    /\ loop \in [Clients -> {"Normal", "Stopped", "Panicked"}]
    /\ srv \in [gen : Nat, present : BOOLEAN, wired : SUBSET Clients,
                created : BOOLEAN, creator : Clients \cup {Nobody},
                duid : Duids, history : Seq(Transactions),
                cseqMap : [Clients -> Nat]]
    /\ budget \in [Clients -> Nat]

Attached(c) == srv.present /\ c \in srv.wired /\ dt[c].state = "Subscribed"

(* An environment in which unsubscribes do not meet transactions that are   *)
(* open across an exchange: where they do, a rollback can restore           *)
(* SubscribingOrCreating after the checkpoint has moved, and the client     *)
(* then starts the history of a new server above cseq 1.                    *)
Sheltered == ~({"unsubscribe", "spanning"} \subseteq scenario.env)

(* What the server keeps of a key is a ReplicatedLog, whose members are the *)
(* attached clients.                                                        *)
Log == INSTANCE ReplicatedLog WITH
           MaxBatch <- MaxMem, Payloads <- Seq(Origins),
           log  <- IF srv.present THEN srv.history ELSE <<>>,
           last <- IF srv.present THEN srv.cseqMap ELSE [c \in Clients |-> 0],
           cp   <- [c \in {d \in Clients : Attached(d)} |-> dt[c].cp]

(* In sheltered scenarios the server appends every client's transactions in *)
(* the order of their cseqs, each cseq once and none left out               *)
(* (push_transactions), and the checkpoint of an attached client never goes *)
(* back and never claims more than the server has (sync_checkpoint),        *)
(* whatever is retried, timed out, unsubscribed, built again or removed.    *)
ImplementsLog == Log!Spec

(* The server's history holds a transaction, once. *)
StoredOnce(tx) ==
    \E j \in DOMAIN srv.history : \A i \in DOMAIN srv.history : srv.history[i] = tx <=> i = j

(* The server has counted a cseq of client c for an earlier datatype of the *)
(* client: its cseq_map is kept by client and outlives the datatype.        *)
CountedBefore(c, cseq) ==
    \E j \in DOMAIN srv.history :
        /\ srv.history[j].cuid = c /\ srv.history[j].cseq >= cseq
        /\ srv.history[j].ops[1] \in {c} \X (1..(inst[c] - 1))

(* A transaction that the checkpoint of an attached client counts as        *)
(* synchronised is in the server's history, whole and once, unless an       *)
(* earlier datatype of the same client, which the server still remembers,   *)
(* had got that far: then push_transactions takes it for known.  So no      *)
(* acknowledged write of a client that builds the key once is lost, and of  *)
(* one that builds it again none beyond those.                              *)
AckedIsStored ==
    \A c \in Clients : Attached(c) =>
        \A i \in DOMAIN dt[c].buf.txs :
            dt[c].buf.txs[i].cseq <= dt[c].cp.cseq =>
                \/ StoredOnce(dt[c].buf.txs[i])
                \/ CountedBefore(c, dt[c].buf.txs[i].cseq)

(* datatype.rs on get_synced_client_version: it "represents the client      *)
(* version that was successfully synchronized with the server": what the    *)
(* checkpoint counts is in the server's history, also for a datatype that   *)
(* was built again.                                                         *)
SyncedIsStored ==
    \A c \in Clients : Attached(c) =>
        \A i \in DOMAIN dt[c].buf.txs :
            dt[c].buf.txs[i].cseq <= dt[c].cp.cseq => StoredOnce(dt[c].buf.txs[i])

(* Exchanges that a datatype loses only once it is Subscribed, that no open *)
(* transaction spans, and no late or leaving subscribers.                   *)
Orderly == scenario.env \subseteq {"rollback", "rebuild", "lose", "debug"}

(* In an orderly environment an attached replica holds exactly the          *)
(* operations of the history up to its checkpoint that are not its own,     *)
(* plus its own committed and open ones: none twice, none missing.          *)
ReplicaExact ==
    Orderly => \A c \in Clients : Attached(c) =>
        \A o \in Origins :
            dt[c].crdt[o] =
                IF o = <<c, inst[c]>>
                THEN TxsCount(dt[c].buf.txs, o) + OpCount(dt[c].pending, o)
                ELSE TxsCount(SubSeq(srv.history, 1, dt[c].cp.sseq), o)

(* Two attached clients that have synchronised everything and pulled up to  *)
(* the same sseq hold the same counter.                                     *)
Converged ==
    \A c, d \in Clients :
        Attached(c) /\ Attached(d) /\ InSync(c) /\ InSync(d)
        /\ dt[c].cp.sseq = dt[d].cp.sseq => dt[c].crdt = dt[d].crdt

(* ... in an orderly environment. *)
OrderlyConverged == Orderly => Converged

(* The cseq of the last committed transaction. *)
Committed(m) == IF m.pending = <<>> THEN m.cseq ELSE m.rollback.cseq

(* A client has committed what the server has not acknowledged. *)
Unacked(c) == Attached(c) /\ dt[c].cp.cseq < Committed(dt[c])

(* The transactions the next exchange of client c pushes. *)
NextTxs(c) == PushingTransactions(dt[c].buf, dt[c].cp.cseq + 1, scenario.transmit)

(* The first transaction the server has not acknowledged is in the push     *)
(* buffer, and the next exchange pushes it and goes on from there, unless   *)
(* it is larger than an exchange can carry: no committed transaction of an  *)
(* attached client leaves the buffer or is passed over before its           *)
(* acknowledgement (do_push_pull, which asks for the transactions after the *)
(* checkpoint, and reset, which empties the buffer).                        *)
UnackedIsPushed ==
    \A c \in Clients : Unacked(c) =>
        /\ ~CannotPushFrom(dt[c].buf, dt[c].cp.cseq + 1)
        /\ \E i \in DOMAIN dt[c].buf.txs :
              /\ dt[c].buf.txs[i].cseq = dt[c].cp.cseq + 1
              /\ \/ TxSize(dt[c].buf.txs[i]) > scenario.transmit
                 \/ NextTxs(c) # <<>> /\ NextTxs(c)[1] = dt[c].buf.txs[i]

(* No event loop dies in PullHandler: neither by an integer underflow nor   *)
(* in its todo!() for Disabled datatypes.                                   *)
NoPanic == \A c \in Clients : loop[c] # "Panicked"

(* That is so in a debug build of an orderly environment and in a release   *)
(* build of a sheltered one.  Not in every debug build: the response to an  *)
(* unsubscribe that finds the subscription gone has the checkpoint (0, 0),  *)
(* which is below the replica's.                                            *)
PanicFree ==
    Orderly \/ (Sheltered /\ "debug" \notin scenario.env) => NoPanic
=============================================================================
