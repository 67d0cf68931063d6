----------------------------- MODULE EventLoop -----------------------------
(***************************************************************************)
(* The event loop of one datatype (datatypes/event_loop.rs): two channels,  *)
(* the scheduling modes Normal, BackOff and Stopped, the exchanges the loop *)
(* runs, and those who send it events: writers, sync() callers, unsubscribe,*)
(* the server's notifications and the drop of the handle.                   *)
(*                                                                          *)
(* The datatype is reduced to what scheduling depends on: its state, the    *)
(* last committed cseq, its checkpoint, and whether its duid is the         *)
(* server's.  What an exchange transfers is the subject of SyncProtocol.    *)
(* The length of a back-off delay is left out: the timer may fire whenever  *)
(* no event is waiting.                                                     *)
(***************************************************************************)
EXTENDS Naturals, Sequences, FiniteSetsExt

CONSTANTS
    Callers,        \* threads that call sync()
    Nobody,         \* the response channel None of a PushTransaction
    MaxCommits,     \* bound: local transactions
    MaxRemote,      \* bound: transactions other clients push
    Batch           \* transactions that fit into one transmission

ASSUME NobodyAssumption == Nobody \notin Callers
(* Every transaction fits into a transmission.  One that does not gives an  *)
(* empty batch, and need_push stays true: SyncProtocol has that case.       *)
ASSUME BoundsAssumption ==
    MaxCommits \in Nat /\ MaxRemote \in Nat /\ Batch \in Nat \ {0}

VARIABLES
    realtime,       \* Connectivity::is_realtime, fixed when it is made
    dt,             \* MutableDatatype and Attribute
    srv,            \* the server's side of the datatype
    bounded,        \* whether the bounded(1) channel holds PushTransaction(None)
    unbounded,      \* the unbounded channel
    mode,           \* LoopMode
    loop,           \* what the loop's thread is doing
    calls,          \* sync() calls: idle, waiting or answered, with their goal
    unsub,          \* an unsubscribe() that has passed check_subscribed
    dropped         \* the handle is dropped: no user call any more

vars == <<realtime, dt, srv, bounded, unbounded, mode, loop, calls, unsub, dropped>>

States == {"Creating", "Subscribing", "Subscribed", "Unsubscribing", "Disabled"}
ReadWritable == {"Creating", "Subscribed"}

(* Events: Stop, Notify(sseq) and PushTransaction(resp_tx). *)
Stop == [kind |-> "Stop"]
Notify(sseq) == [kind |-> "Notify", sseq |-> sseq]
PushTransaction(t) == [kind |-> "Push", resp_tx |-> t]

NoCall == [at |-> "idle"]
Receiving == [at |-> "receive"]
Exited == [at |-> "exited"]

(* Definitions named Mut... are plausible faults of the definition after    *)
(* them; the mutation runs listed in PROJECT.json use them, nothing else.   *)

(* The datatype is new: it creates the resource, or subscribes to one that  *)
(* exists.                                                                  *)
Init ==
    /\ realtime \in BOOLEAN
    /\ \E st \in {"Creating", "Subscribing"} :
          /\ dt = [state |-> st, last |-> 0, cseq |-> 0, sseq |-> 0,
                   joined |-> st = "Creating"]
          /\ srv = [created |-> st = "Subscribing", wired |-> TRUE,
                    cseq |-> 0, sseq |-> 0]
    /\ bounded = FALSE
    /\ unbounded = <<>>
    /\ mode = "Normal"
    /\ loop = Receiving
    /\ calls = [t \in Callers |-> NoCall]
    /\ unsub = FALSE
    /\ dropped = FALSE

-----------------------------------------------------------------------------
(* send_push_transaction_with_best_effort: try_send, dropped when full. *)
BestEffort == bounded \/ realtime

(* end_transaction: the transaction is in the push buffer. *)
Commit ==
    /\ ~dropped /\ dt.state \in ReadWritable /\ dt.last < MaxCommits
    /\ dt' = [dt EXCEPT !.last = @ + 1]
    /\ bounded' = BestEffort
    /\ UNCHANGED <<realtime, srv, unbounded, mode, loop, calls, unsub, dropped>>

(* sync, send_push_transaction_with_guarantee.  goal is no code: what the   *)
(* datatype and the server hold at the moment of the call.                  *)
Sync(t) ==
    /\ ~dropped /\ calls[t] = NoCall /\ dt.state # "Disabled"
    /\ unbounded' = Append(unbounded, PushTransaction(t))
    /\ calls' = [calls EXCEPT ![t] =
                    [at |-> "waiting", sseq |-> srv.sseq,
                     cseq |-> Min({dt.last, dt.cseq + Batch})]]
    /\ UNCHANGED <<realtime, dt, srv, bounded, mode, loop, unsub, dropped>>

SyncReturn(t) ==
    /\ calls[t].at \in {"ok", "error"}
    /\ calls' = [calls EXCEPT ![t] = NoCall]
    /\ UNCHANGED <<realtime, dt, srv, bounded, unbounded, mode, loop, unsub, dropped>>

(* unsubscribe: the check and the assignment are two lock sections. *)
CheckSubscribed ==
    /\ ~dropped /\ ~unsub /\ dt.state = "Subscribed"
    /\ unsub' = TRUE
    /\ UNCHANGED <<realtime, dt, srv, bounded, unbounded, mode, loop, calls, dropped>>

SetUnsubscribing ==
    /\ unsub
    /\ unsub' = FALSE
    /\ dt' = [dt EXCEPT !.state = "Unsubscribing"]
    /\ bounded' = BestEffort
    /\ UNCHANGED <<realtime, srv, unbounded, mode, loop, calls, dropped>>

(* Drop for TransactionalDatatype, send_stop.  A running call keeps the     *)
(* datatype alive; whether the acknowledgement is awaited long enough has   *)
(* no effect on the loop.                                                   *)
Drop ==
    /\ ~dropped /\ ~unsub /\ \A t \in Callers : calls[t] = NoCall
    /\ dropped' = TRUE
    /\ unbounded' = Append(unbounded, Stop)
    /\ UNCHANGED <<realtime, dt, srv, bounded, mode, loop, calls, unsub>>

(* Another client's push; notify_pushed if the connectivity is realtime. *)
RemotePush ==
    /\ srv.created /\ srv.sseq - srv.cseq < MaxRemote
    /\ srv' = [srv EXCEPT !.sseq = @ + 1]
    /\ unbounded' = IF realtime /\ srv.wired
                    THEN Append(unbounded, Notify(srv.sseq + 1)) ELSE unbounded
    /\ UNCHANGED <<realtime, dt, bounded, mode, loop, calls, unsub, dropped>>

-----------------------------------------------------------------------------
(* need_push and push_if_needed *)
NeedPush ==
    \/ dt.state \in {"Creating", "Subscribing", "Unsubscribing"}
    \/ dt.last > dt.cseq

PushIfNeeded == realtime /\ NeedPush

(* receive_event looks at the channels; in Normal mode a needed push comes  *)
(* first.                                                                   *)
MutPollsNotInBackOff ==
    loop = Receiving /\ mode # "BackOff" /\ ~(mode = "Normal" /\ PushIfNeeded)

Polls == loop = Receiving /\ ~(mode = "Normal" /\ PushIfNeeded)

(* Which modes read the bounded channel. *)
MutPollsBounded == {"Normal", "BackOff", "Stopped"}

PollsBounded == {"Normal", "Stopped"}

(* wired.push_pull: create_push_pull_pack under the write lock. *)
StartExchange(t) ==
    loop' = [at |-> "pushing", caller |-> t, state |-> dt.state,
             upto |-> Min({dt.last, dt.cseq + Batch})]

(* process_blocking_resp *)
Answer(t, result) ==
    calls' = IF t = Nobody THEN calls ELSE [calls EXCEPT ![t].at = result]

(* Event::PushTransaction: rejected when stopped. *)
MutNoAnswerWhenStopped(t) ==
    IF mode = "Stopped" THEN loop' = Receiving /\ UNCHANGED calls
    ELSE StartExchange(t) /\ UNCHANGED calls

MutSkipWithNothingToPush(t) ==
    IF mode = "Stopped" THEN loop' = Receiving /\ Answer(t, "error")
    ELSE IF ~NeedPush THEN loop' = Receiving /\ Answer(t, "ok")
    ELSE StartExchange(t) /\ UNCHANGED calls

OnPushTransaction(t) ==
    IF mode = "Stopped" THEN loop' = Receiving /\ Answer(t, "error")
    ELSE StartExchange(t) /\ UNCHANGED calls

AutoPush ==
    /\ loop = Receiving /\ mode = "Normal" /\ PushIfNeeded
    /\ OnPushTransaction(Nobody)
    /\ UNCHANGED <<realtime, dt, srv, bounded, unbounded, mode, unsub, dropped>>

ReceiveBounded ==
    /\ Polls /\ mode \in PollsBounded /\ bounded
    /\ bounded' = FALSE
    /\ OnPushTransaction(Nobody)
    /\ UNCHANGED <<realtime, dt, srv, unbounded, mode, unsub, dropped>>

(* handle_notification; the server never notifies a client of its own push. *)
MutNewerBySeveral(sseq) == dt.joined /\ dt.sseq + 1 < sseq

IsNews(sseq) == dt.joined /\ dt.sseq < sseq

ReceiveUnbounded ==
    /\ Polls /\ unbounded # <<>>
    /\ unbounded' = Tail(unbounded)
    /\ LET ev == Head(unbounded) IN
       \/ /\ ev.kind = "Push"
          /\ OnPushTransaction(ev.resp_tx)
          /\ UNCHANGED bounded
       \/ /\ ev.kind = "Notify"
          /\ bounded' = (bounded \/ IsNews(ev.sseq))
          /\ UNCHANGED <<loop, calls>>
       \/ /\ ev.kind = "Stop"
          /\ loop' = Exited
          /\ UNCHANGED <<bounded, calls>>
    /\ UNCHANGED <<realtime, dt, srv, mode, unsub, dropped>>

(* select! default(duration) and Event::BackOff *)
MutStaysInBackOff == "BackOff"

ModeAfterTimer == "Normal"

BackOffTimer ==
    /\ loop = Receiving /\ mode = "BackOff" /\ unbounded = <<>>
    /\ mode' = ModeAfterTimer
    /\ UNCHANGED <<realtime, dt, srv, bounded, unbounded, loop, calls, unsub, dropped>>

-----------------------------------------------------------------------------
(* The exchange: the server stores what is new of the pack and answers with *)
(* everything it has.  A repeated unsubscribe finds the client gone.        *)
Stored == IF srv.wired THEN Max({srv.cseq, loop.upto}) ELSE srv.cseq

MutSseqCountsPack ==
    [created |-> TRUE, cseq |-> Stored, sseq |-> srv.sseq + loop.upto,
     wired |-> srv.wired /\ loop.state # "Unsubscribing"]

Served ==
    [created |-> TRUE, cseq |-> Stored, sseq |-> srv.sseq + (Stored - srv.cseq),
     wired |-> srv.wired /\ loop.state # "Unsubscribing"]

Ok ==
    [at |-> "answered", caller |-> loop.caller, outcome |-> "ok",
     state |-> IF loop.state = "Unsubscribing" THEN "Disabled" ELSE "Subscribed",
     cseq |-> IF srv.wired THEN Served.cseq ELSE 0,
     sseq |-> IF srv.wired THEN Served.sseq ELSE 0]

Failed(outcome) == [at |-> "answered", caller |-> loop.caller, outcome |-> outcome]

Serve ==
    /\ loop.at = "pushing" /\ loop.state # "Disabled"
    /\ srv' = Served
    /\ loop' = Ok
    /\ UNCHANGED <<realtime, dt, bounded, unbounded, mode, calls, unsub, dropped>>

(* ConnectivityError: lost before or after the server ran. *)
TimeOut ==
    /\ loop.at = "pushing"
    /\ \/ UNCHANGED srv
       \/ loop.state # "Disabled" /\ srv' = Served
    /\ loop' = Failed("SyncFailed")
    /\ UNCHANGED <<realtime, dt, bounded, unbounded, mode, calls, unsub, dropped>>

(* A permanent rejection, which is all a Disabled datatype gets. *)
Refuse ==
    /\ loop.at = "pushing"
    /\ loop' = Failed("ServerRejected")
    /\ UNCHANGED <<realtime, dt, srv, bounded, unbounded, mode, calls, unsub, dropped>>

-----------------------------------------------------------------------------
(* PullHandler: a response that does not fit the state is an error. *)
Legal == (dt.state = "Unsubscribing") = (loop.state = "Disabled")

(* The recovery action of the error (DatatypeError::mapping) and the mode   *)
(* it leads to.                                                             *)
Recovery ==
    IF loop.outcome = "ok" THEN IF Legal THEN "none" ELSE "Disable"
    ELSE IF loop.outcome = "SyncFailed" THEN "RetryWithBackOff" ELSE "Disable"

ModeAfter(recovery) ==
    CASE recovery = "none"             -> "Normal"
      [] recovery = "RetryWithBackOff" -> "BackOff"
      [] recovery = "Disable"          -> "Stopped"

(* The datatype after PullHandler::apply or handle_error; disabling it      *)
(* empties the push buffer.                                                 *)
MutAckFromPush ==
    [dt EXCEPT !.state = loop.state, !.cseq = dt.last,
               !.sseq = Max({@, loop.sseq}), !.joined = TRUE]

Pulled ==
    [dt EXCEPT !.state = loop.state, !.cseq = Max({@, loop.cseq}),
               !.sseq = Max({@, loop.sseq}), !.joined = TRUE]

Applied(recovery) ==
    CASE recovery = "none"             -> Pulled
      [] recovery = "RetryWithBackOff" -> dt
      [] recovery = "Disable"          -> [dt EXCEPT !.state = "Disabled", !.last = 0]

FinishExchange ==
    /\ loop.at = "answered"
    /\ dt' = Applied(Recovery)
    /\ mode' = ModeAfter(Recovery)
    /\ Answer(loop.caller, IF Recovery = "none" THEN "ok" ELSE "error")
    /\ loop' = Receiving
    /\ UNCHANGED <<realtime, srv, bounded, unbounded, unsub, dropped>>

-----------------------------------------------------------------------------
User ==
    \/ Commit \/ CheckSubscribed \/ SetUnsubscribing \/ Drop
    \/ \E t \in Callers : Sync(t) \/ SyncReturn(t)

Run == AutoPush \/ ReceiveBounded \/ ReceiveUnbounded \/ BackOffTimer \/ FinishExchange

Backend == RemotePush \/ Serve \/ TimeOut \/ Refuse

Next == User \/ Run \/ Backend

Spec == Init /\ [][Next]_vars

(* The loop's thread and calls that were answered keep running; an exchange *)
(* ends, and one that is tried over and over succeeds some day.  Nobody is  *)
(* obliged to write, to sync, to push or to drop the handle.                *)
Fairness ==
    /\ WF_vars(Run)
    /\ WF_vars(SetUnsubscribing)
    /\ \A t \in Callers : WF_vars(SyncReturn(t))
    /\ WF_vars(Serve \/ TimeOut \/ Refuse)
    /\ SF_vars(Serve)

FairSpec == Spec /\ Fairness

-----------------------------------------------------------------------------
Seqnos == 0..(MaxCommits + MaxRemote)

Events ==
    {Stop} \cup [kind : {"Notify"}, sseq : Seqnos]
    \cup [kind : {"Push"}, resp_tx : Callers]

Outcomes ==
    [at : {"answered"}, caller : Callers \cup {Nobody},
     outcome : {"SyncFailed", "ServerRejected"}]
    \cup [at : {"answered"}, caller : Callers \cup {Nobody}, outcome : {"ok"},
          state : States, cseq : Seqnos, sseq : Seqnos]

(* The datatype, the channels and the loop are well formed. *)
TypeOK ==
    /\ realtime \in BOOLEAN /\ bounded \in BOOLEAN
    /\ unsub \in BOOLEAN /\ dropped \in BOOLEAN
    /\ dt \in [state : States, last : 0..MaxCommits, cseq : Seqnos, sseq : Seqnos,
               joined : BOOLEAN]
    /\ srv \in [created : BOOLEAN, wired : BOOLEAN, cseq : Seqnos, sseq : Seqnos]
    /\ unbounded \in Seq(Events)
    /\ mode \in {"Normal", "BackOff", "Stopped"}
    /\ loop \in {Receiving, Exited} \cup Outcomes
                \cup [at : {"pushing"}, caller : Callers \cup {Nobody},
                      state : States, upto : Seqnos]
    /\ calls \in [Callers -> {NoCall} \cup [at : {"waiting", "ok", "error"},
                                            cseq : Seqnos, sseq : Seqnos]]

(* A sync() that returns Ok has done what it says: the server holds the     *)
(* transactions committed before the call, as far as one batch reaches, and *)
(* the replica's checkpoint covers what the server had then (unless it has  *)
(* left).  That the content follows the checkpoint is SyncProtocol's        *)
(* subject.                                                                 *)
SyncDelivers ==
    \A t \in Callers : calls[t].at = "ok" =>
        /\ srv.cseq >= calls[t].cseq
        /\ dt.sseq >= calls[t].sseq \/ dt.state = "Disabled"

(* Only sync() bypasses the back-off and only sync() starts an exchange on  *)
(* a manual connectivity: nothing a write or a notification left in the     *)
(* bounded channel does.                                                    *)
OnlySyncBypasses ==
    loop.at = "pushing" /\ loop.caller = Nobody => realtime /\ mode = "Normal"

(* The checkpoint never runs ahead of the server, whichever response was    *)
(* lost before and whatever was committed during the exchange.              *)
AcksAreTrue == dt.cseq <= srv.cseq /\ dt.sseq <= srv.sseq

(* Every sync() returns, whatever mode the loop is in and however often     *)
(* exchanges fail, provided writers pause (MaxCommits).                     *)
EverySyncReturns == \A t \in Callers : calls[t].at = "waiting" ~> calls[t].at # "waiting"

Ended == dropped \/ mode = "Stopped" \/ dt.state = "Disabled"

(* With a realtime connectivity everything that needs a push gets one:      *)
(* creation, subscription, unsubscription and every committed transaction   *)
(* are acknowledged although their event may have been dropped at the full  *)
(* bounded channel and exchanges fail.                                      *)
EverythingIsPushed == realtime /\ NeedPush ~> ~NeedPush \/ Ended

Behind == realtime /\ dt.joined /\ dt.sseq < srv.sseq

(* As long as no exchange fails, a replica of a realtime connectivity that  *)
(* is behind the server catches up: no notification is lost to a full       *)
(* bounded channel, an exchange in flight or a pending subscription.        *)
NewsIsPulled == [](mode # "BackOff") => (Behind ~> ~Behind \/ Ended)

(* docs/event-loop.md says of BackOff that it "retries after timeout": a    *)
(* replica that is behind the server catches up in the end.                 *)
RetriesAfterTimeout == Behind ~> ~Behind \/ Ended

(* Dropping the last handle ends the event loop's thread.                   *)
DropEndsLoop == dropped ~> loop = Exited
=============================================================================
