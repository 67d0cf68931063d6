--------------------------- MODULE EventLoopProofs ---------------------------
(***************************************************************************)
(* What holds of the event loop for any number of sync() callers, any       *)
(* number of commits and remote pushes and any batch size.                  *)
(***************************************************************************)
EXTENDS EventLoop, TLAPS

Requesters == Callers \cup {Nobody}

Pushing == [at : {"pushing"}, caller : Requesters, state : States, upto : Nat]

AnsweredOk ==
    [at : {"answered"}, caller : Requesters, outcome : {"ok"},
     state : States, cseq : Nat, sseq : Nat]

AnsweredError ==
    [at : {"answered"}, caller : Requesters,
     outcome : {"SyncFailed", "ServerRejected"}]

QueuedEvents ==
    {Stop} \cup [kind : {"Notify"}, sseq : Nat] \cup [kind : {"Push"}, resp_tx : Callers]

(* The types, without the bounds of the small instances. *)
Shape ==
    /\ dt \in [state : States, last : Nat, cseq : Nat, sseq : Nat, joined : BOOLEAN]
    /\ srv \in [created : BOOLEAN, wired : BOOLEAN, cseq : Nat, sseq : Nat]
    /\ loop \in {Receiving, Exited} \cup Pushing \cup AnsweredOk \cup AnsweredError
    /\ unbounded \in Seq(QueuedEvents)
    /\ bounded \in BOOLEAN /\ realtime \in BOOLEAN

(* A response in flight tells no more than the server has. *)
ResponseIsTrue == loop \in AnsweredOk => loop.cseq <= srv.cseq /\ loop.sseq <= srv.sseq

AckInv == Shape /\ AcksAreTrue /\ ResponseIsTrue

(* On a manual connectivity nothing waits in the bounded channel and no     *)
(* notification in the other one.                                           *)
ManualIsQuiet ==
    ~realtime => /\ ~bounded
                 /\ \A i \in 1..Len(unbounded) : unbounded[i].kind # "Notify"

BypassInv == Shape /\ OnlySyncBypasses /\ ManualIsQuiet

(* The exchange under way, before and after the server's answer. *)
Exchanges == Pushing \cup AnsweredOk \cup AnsweredError

Modes == {"Normal", "BackOff", "Stopped"}

(* What one transmission takes when it starts now. *)
NextBatch == Min({dt.last, dt.cseq + Batch})

Asks(ev, t) == ev = PushTransaction(t)

CallShape ==
    /\ calls \in [Callers -> {NoCall} \cup [at : {"waiting", "ok", "error"},
                                            cseq : Nat, sseq : Nat]]
    /\ mode \in Modes /\ unsub \in BOOLEAN /\ dropped \in BOOLEAN

(* A sync() is asked for once, in the channel or by the exchange under way, *)
(* and its caller waits.                                                    *)
AskedOnce ==
    /\ \A t \in Callers : \A i \in 1..Len(unbounded) :
          Asks(unbounded[i], t) =>
              /\ calls[t].at = "waiting"
              /\ \A j \in 1..Len(unbounded) : Asks(unbounded[j], t) => i = j
    /\ loop \in Exchanges => \A t \in Callers : loop.caller = t =>
              /\ calls[t].at = "waiting"
              /\ \A i \in 1..Len(unbounded) : ~Asks(unbounded[i], t)

(* How a datatype leaves: a loop that is stopped runs no exchange; a        *)
(* datatype stays Subscribed between the check and the assignment of an     *)
(* unsubscribe unless the loop is stopped; and once the server has let the  *)
(* client go, it holds all that one more transmission could take.           *)
Leaving ==
    /\ mode = "Stopped" => loop \notin Exchanges
    /\ unsub => dt.state = "Subscribed" \/ mode = "Stopped"
    /\ ~srv.wired /\ mode # "Stopped" =>
          \/ dt.state = "Disabled"
          \/ dt.state = "Unsubscribing" /\ NextBatch <= srv.cseq
    /\ loop \in Pushing =>
          /\ dt.state = "Disabled" => loop.state = "Disabled"
          /\ loop.state = "Unsubscribing" =>
                dt.state = "Unsubscribing" /\ loop.upto = NextBatch
          /\ ~srv.wired => loop.state \in {"Unsubscribing", "Disabled"}
    /\ loop \in AnsweredOk =>
          dt.state # "Disabled" /\ loop.state \in {"Subscribed", "Disabled"}

(* What a call asked for is still within reach: the next batch covers it    *)
(* while it waits, the pack of its exchange does, and the answer tells of   *)
(* it.  Only a repeated unsubscribe is answered without a checkpoint.       *)
Goals ==
    /\ \A t \in Callers : calls[t].at = "waiting" =>
          /\ calls[t].sseq <= srv.sseq
          /\ mode # "Stopped" => calls[t].cseq <= NextBatch
    /\ loop \in Pushing => \A t \in Callers :
          loop.caller = t => calls[t].cseq <= loop.upto
    /\ loop \in AnsweredOk => \A t \in Callers : loop.caller = t =>
          /\ calls[t].cseq <= srv.cseq
          /\ calls[t].sseq <= loop.sseq \/ loop.state = "Disabled"

(* SyncDelivers, strengthened by what keeps a Disabled datatype Disabled:   *)
(* no unsubscribe is between its check and its assignment.                  *)
Delivered ==
    \A t \in Callers : calls[t].at = "ok" =>
        /\ calls[t].cseq <= srv.cseq
        /\ calls[t].sseq <= dt.sseq \/ (dt.state = "Disabled" /\ ~unsub)

SyncInv == CallShape /\ AskedOnce /\ Leaving /\ Goals /\ Delivered

(* Every sequence number is within the bounds on commits and pushes: a      *)
(* repeated pack is stored once.                                            *)
SizeInv ==
    /\ dt.last <= MaxCommits /\ srv.cseq <= MaxCommits
    /\ srv.cseq <= srv.sseq /\ srv.sseq <= srv.cseq + MaxRemote
    /\ loop \in Pushing => loop.upto <= MaxCommits
    /\ \A i \in 1..Len(unbounded) :
          unbounded[i].kind = "Notify" => unbounded[i].sseq <= srv.sseq
    /\ \A t \in Callers : calls[t] # NoCall =>
          calls[t].cseq <= MaxCommits /\ calls[t].sseq <= srv.sseq

-----------------------------------------------------------------------------
(* FiniteSetsExt's Min and Max of two numbers. *)
LEMMA MinOfTwo ==
    ASSUME NEW a \in Nat, NEW b \in Nat
    PROVE  /\ Min({a, b}) \in {a, b}
           /\ Min({a, b}) <= a /\ Min({a, b}) <= b
<1>1. \E x \in {a, b} : \A y \in {a, b} : x <= y
  OBVIOUS
<1> QED
  BY <1>1 DEF Min

LEMMA MaxOfTwo ==
    ASSUME NEW a \in Nat, NEW b \in Nat
    PROVE  /\ Max({a, b}) \in {a, b}
           /\ Max({a, b}) >= a /\ Max({a, b}) >= b
<1>1. \E x \in {a, b} : \A y \in {a, b} : x >= y
  OBVIOUS
<1> QED
  BY <1>1 DEF Max

-----------------------------------------------------------------------------
(* What the server does with a pack: its counters only grow. *)
LEMMA ServedGrows ==
    ASSUME Shape, loop \in Pushing
    PROVE  /\ Served \in [created : BOOLEAN, wired : BOOLEAN, cseq : Nat, sseq : Nat]
           /\ Served.cseq >= srv.cseq /\ Served.sseq >= srv.sseq
<1>1. srv.cseq \in Nat /\ srv.sseq \in Nat /\ loop.upto \in Nat /\ srv.wired \in BOOLEAN
  BY DEF Shape, Pushing
<1>2. Stored \in Nat /\ Stored >= srv.cseq
  BY <1>1, MaxOfTwo DEF Stored
<1>3. srv.sseq + (Stored - srv.cseq) \in Nat /\ srv.sseq + (Stored - srv.cseq) >= srv.sseq
  BY <1>1, <1>2
<1> QED
  BY <1>1, <1>2, <1>3 DEF Served

LEMMA OkShape ==
    ASSUME Shape, loop \in Pushing
    PROVE  /\ Ok \in AnsweredOk
           /\ Ok.cseq <= Served.cseq /\ Ok.sseq <= Served.sseq
<1>1. Served.cseq \in Nat /\ Served.sseq \in Nat
  BY ServedGrows
<1>2. loop.caller \in Requesters
  BY DEF Pushing
<1>3. /\ (IF srv.wired THEN Served.cseq ELSE 0) \in Nat
      /\ (IF srv.wired THEN Served.cseq ELSE 0) <= Served.cseq
      /\ (IF srv.wired THEN Served.sseq ELSE 0) \in Nat
      /\ (IF srv.wired THEN Served.sseq ELSE 0) <= Served.sseq
  BY <1>1
<1> QED
  BY <1>2, <1>3 DEF Ok, AnsweredOk, States

(* What the loop's reaction to a response leaves of the datatype. *)
LEMMA AppliedShape ==
    ASSUME Shape, loop \in AnsweredOk \cup AnsweredError
    PROVE  /\ Applied(Recovery) \in [state : States, last : Nat, cseq : Nat,
                                     sseq : Nat, joined : BOOLEAN]
           /\ \/ Applied(Recovery).cseq = dt.cseq /\ Applied(Recovery).sseq = dt.sseq
              \/ /\ loop \in AnsweredOk
                 /\ Applied(Recovery).cseq \in {dt.cseq, loop.cseq}
                 /\ Applied(Recovery).sseq \in {dt.sseq, loop.sseq}
<1>1. CASE Recovery = "none"
  <2>1. loop \in AnsweredOk
    BY <1>1 DEF Recovery, AnsweredError, AnsweredOk
  <2>2. /\ dt.cseq \in Nat /\ dt.sseq \in Nat /\ loop.cseq \in Nat /\ loop.sseq \in Nat
        /\ loop.state \in States
    BY <2>1 DEF Shape, AnsweredOk
  <2>3. /\ Max({dt.cseq, loop.cseq}) \in {dt.cseq, loop.cseq}
        /\ Max({dt.sseq, loop.sseq}) \in {dt.sseq, loop.sseq}
    BY <2>2, MaxOfTwo
  <2>4. Applied(Recovery) = Pulled
    BY <1>1 DEF Applied
  <2> QED
    BY <2>1, <2>2, <2>3, <2>4 DEF Pulled, Shape
<1>2. CASE Recovery = "RetryWithBackOff"
  BY <1>2 DEF Applied, Shape
<1>3. CASE Recovery = "Disable"
  BY <1>3 DEF Applied, Shape, States
<1> QED
  BY <1>1, <1>2, <1>3 DEF Recovery

-----------------------------------------------------------------------------
(* Sections that touch neither the counters nor the loop, up to commits and *)
(* the state of the datatype.                                               *)
LEMMA OnPushShape ==
    ASSUME Shape, NEW t \in Requesters, OnPushTransaction(t)
    PROVE  loop' \in {Receiving} \cup Pushing
<1>1. Min({dt.last, dt.cseq + Batch}) \in Nat
  <2>1. dt.last \in Nat /\ dt.cseq + Batch \in Nat
    BY BoundsAssumption DEF Shape
  <2> QED
    BY <2>1, MinOfTwo
<1>2. dt.state \in States
  BY DEF Shape
<1> QED
  BY <1>1, <1>2 DEF OnPushTransaction, StartExchange, Pushing

(* Types and acknowledgements hold initially. *)
LEMMA AckInvInit == Init => AckInv
<1> SUFFICES ASSUME Init PROVE AckInv
  OBVIOUS
<1>1. PICK st \in {"Creating", "Subscribing"} :
         /\ dt = [state |-> st, last |-> 0, cseq |-> 0, sseq |-> 0,
                  joined |-> st = "Creating"]
         /\ srv = [created |-> st = "Subscribing", wired |-> TRUE,
                   cseq |-> 0, sseq |-> 0]
  BY DEF Init
<1>2. /\ dt \in [state : States, last : Nat, cseq : Nat, sseq : Nat, joined : BOOLEAN]
      /\ srv \in [created : BOOLEAN, wired : BOOLEAN, cseq : Nat, sseq : Nat]
  BY <1>1 DEF States
<1>3. dt.cseq <= srv.cseq /\ dt.sseq <= srv.sseq
  BY <1>1
<1>4. loop = Receiving /\ loop \notin AnsweredOk
  BY DEF Init, Receiving, AnsweredOk
<1>5. unbounded \in Seq(QueuedEvents)
  BY DEF Init
<1>6. bounded \in BOOLEAN /\ realtime \in BOOLEAN
  BY Zenon DEF Init
<1> QED
  BY <1>2, <1>3, <1>4, <1>5, <1>6 DEF AckInv, Shape, AcksAreTrue, ResponseIsTrue

(* A step of a user leaves the loop, the server and the checkpoint alone. *)
LEMMA UserStep ==
    ASSUME Shape, User
    PROVE  /\ Shape'
           /\ UNCHANGED <<loop, srv>>
           /\ dt'.cseq = dt.cseq /\ dt'.sseq = dt.sseq
<1>1. CASE Commit
  BY <1>1 DEF Commit, BestEffort, Shape
<1>2. CASE CheckSubscribed
  BY <1>2 DEF CheckSubscribed, Shape
<1>3. CASE SetUnsubscribing
  BY <1>3 DEF SetUnsubscribing, BestEffort, Shape, States
<1>4. CASE Drop
  <2>1. Append(unbounded, Stop) \in Seq(QueuedEvents)
    BY DEF Shape, QueuedEvents
  <2> QED
    BY <1>4, <2>1 DEF Drop, Shape
<1>5. ASSUME NEW t \in Callers, Sync(t)
      PROVE  Shape' /\ UNCHANGED <<loop, srv, dt>>
  <2>1. PushTransaction(t) \in QueuedEvents
    BY DEF PushTransaction, QueuedEvents
  <2>2. Append(unbounded, PushTransaction(t)) \in Seq(QueuedEvents)
    BY <2>1 DEF Shape
  <2> QED
    BY <1>5, <2>2 DEF Sync, Shape
<1>6. ASSUME NEW t \in Callers, SyncReturn(t)
      PROVE  Shape' /\ UNCHANGED <<loop, srv, dt>>
  BY <1>6 DEF SyncReturn, Shape
<1> QED
  BY <1>1, <1>2, <1>3, <1>4, <1>5, <1>6 DEF User

(* A step in which the loop takes an event leaves the server and the        *)
(* checkpoint alone.                                                        *)
LEMMA ReceiveStep ==
    ASSUME Shape, AutoPush \/ ReceiveBounded \/ ReceiveUnbounded \/ BackOffTimer
    PROVE  /\ Shape'
           /\ UNCHANGED <<dt, srv>>
           /\ loop' = loop \/ loop' \in {Receiving, Exited} \cup Pushing
<1> USE DEF Requesters
<1>1. CASE AutoPush
  <2>1. loop' \in {Receiving} \cup Pushing
    BY <1>1, OnPushShape DEF AutoPush
  <2> QED
    BY <1>1, <2>1 DEF AutoPush, Shape
<1>2. CASE ReceiveBounded
  <2>1. loop' \in {Receiving} \cup Pushing
    BY <1>2, OnPushShape DEF ReceiveBounded
  <2> QED
    BY <1>2, <2>1 DEF ReceiveBounded, Shape
<1>3. CASE ReceiveUnbounded
  <2>1. /\ Head(unbounded) \in QueuedEvents
        /\ Tail(unbounded) \in Seq(QueuedEvents)
    BY <1>3 DEF ReceiveUnbounded, Shape
  <2>2. CASE Head(unbounded).kind = "Push"
    <3>1. Head(unbounded).resp_tx \in Requesters
      BY <2>1, <2>2 DEF QueuedEvents, Stop
    <3>2. loop' \in {Receiving} \cup Pushing /\ UNCHANGED bounded
      BY <1>3, <2>2, <3>1, OnPushShape DEF ReceiveUnbounded
    <3> QED
      BY <1>3, <2>1, <3>2 DEF ReceiveUnbounded, Shape
  <2>3. CASE Head(unbounded).kind # "Push"
    <3>1. bounded' \in BOOLEAN /\ (loop' = loop \/ loop' = Exited)
      BY <1>3, <2>3 DEF ReceiveUnbounded, Shape
    <3> QED
      BY <1>3, <2>1, <3>1 DEF ReceiveUnbounded, Shape
  <2> QED
    BY <2>2, <2>3
<1>4. CASE BackOffTimer
  BY <1>4 DEF BackOffTimer, Shape
<1> QED
  BY <1>1, <1>2, <1>3, <1>4

(* The exchange the loop waits for is one of the three kinds of record. *)
LEMMA LoopKinds ==
    ASSUME Shape
    PROVE  /\ loop.at = "pushing" => loop \in Pushing
           /\ loop.at = "answered" => loop \in AnsweredOk \cup AnsweredError
BY DEF Shape, Pushing, AnsweredOk, AnsweredError, Receiving, Exited

LEMMA RemotePushStep ==
    ASSUME Shape, RemotePush
    PROVE  /\ Shape' /\ UNCHANGED <<dt, loop>>
           /\ srv'.cseq = srv.cseq /\ srv'.sseq = srv.sseq + 1
<1>1. Notify(srv.sseq + 1) \in QueuedEvents
  BY DEF Notify, QueuedEvents, Shape
<1>2. unbounded' \in Seq(QueuedEvents)
  BY <1>1 DEF RemotePush, Shape
<1>3. /\ srv' \in [created : BOOLEAN, wired : BOOLEAN, cseq : Nat, sseq : Nat]
      /\ srv'.cseq = srv.cseq /\ srv'.sseq = srv.sseq + 1
  BY DEF RemotePush, Shape
<1> QED
  BY <1>2, <1>3 DEF RemotePush, Shape

(* The answers to a push: what the server did, and what the loop sees. *)
LEMMA ExchangeStep ==
    ASSUME Shape, Serve \/ TimeOut \/ Refuse
    PROVE  /\ Shape'
           /\ UNCHANGED <<dt, realtime, bounded, unbounded>>
           /\ srv'.cseq >= srv.cseq /\ srv'.sseq >= srv.sseq
           /\ loop' \in AnsweredOk \cup AnsweredError
           /\ loop' \in AnsweredOk => loop'.cseq <= srv'.cseq /\ loop'.sseq <= srv'.sseq
<1>1. loop \in Pushing
  BY LoopKinds DEF Serve, TimeOut, Refuse
<1>2. /\ Served \in [created : BOOLEAN, wired : BOOLEAN, cseq : Nat, sseq : Nat]
      /\ Served.cseq >= srv.cseq /\ Served.sseq >= srv.sseq
  BY <1>1, ServedGrows
<1>3. /\ Failed("SyncFailed") \in AnsweredError /\ Failed("SyncFailed") \notin AnsweredOk
      /\ Failed("ServerRejected") \in AnsweredError
      /\ Failed("ServerRejected") \notin AnsweredOk
  BY <1>1 DEF Failed, Pushing, AnsweredError, AnsweredOk
<1>4. srv.cseq >= srv.cseq /\ srv.sseq >= srv.sseq
  BY DEF Shape
<1>5. CASE Serve
  <2>1. Ok \in AnsweredOk /\ Ok.cseq <= Served.cseq /\ Ok.sseq <= Served.sseq
    BY <1>1, OkShape
  <2> QED
    BY <1>2, <1>5, <2>1 DEF Serve, Shape
<1>6. CASE TimeOut
  BY <1>2, <1>3, <1>4, <1>6 DEF TimeOut, Shape
<1>7. CASE Refuse
  BY <1>3, <1>4, <1>7 DEF Refuse, Shape
<1> QED
  BY <1>5, <1>6, <1>7

LEMMA FinishStep ==
    ASSUME Shape, FinishExchange
    PROVE  /\ Shape' /\ UNCHANGED srv /\ loop' = Receiving
           /\ \/ dt'.cseq = dt.cseq /\ dt'.sseq = dt.sseq
              \/ /\ loop \in AnsweredOk
                 /\ dt'.cseq \in {dt.cseq, loop.cseq}
                 /\ dt'.sseq \in {dt.sseq, loop.sseq}
<1>1. loop \in AnsweredOk \cup AnsweredError
  BY LoopKinds DEF FinishExchange
<1>2. dt' = Applied(Recovery)
  BY DEF FinishExchange
<1>3. dt' \in [state : States, last : Nat, cseq : Nat, sseq : Nat, joined : BOOLEAN]
  BY <1>1, <1>2, AppliedShape
<1> QED
  BY <1>1, <1>2, <1>3, AppliedShape DEF FinishExchange, Shape

-----------------------------------------------------------------------------
(* Every step keeps the types and the truth of acknowledgements. *)
LEMMA AckInvStep == AckInv /\ [Next]_vars => AckInv'
<1> SUFFICES ASSUME AckInv, [Next]_vars PROVE AckInv'
  OBVIOUS
<1>0. /\ Shape
      /\ dt.cseq \in Nat /\ dt.sseq \in Nat /\ srv.cseq \in Nat /\ srv.sseq \in Nat
      /\ dt.cseq <= srv.cseq /\ dt.sseq <= srv.sseq
  BY DEF AckInv, Shape, AcksAreTrue
<1>1. CASE User
  BY <1>0, <1>1, UserStep DEF AckInv, AcksAreTrue, ResponseIsTrue
<1>2. CASE AutoPush \/ ReceiveBounded \/ ReceiveUnbounded \/ BackOffTimer
  <2>1. loop' = loop \/ loop' \notin AnsweredOk
    BY <1>0, <1>2, ReceiveStep DEF Receiving, Exited, Pushing, AnsweredOk
  <2> QED
    BY <1>0, <1>2, <2>1, ReceiveStep DEF AckInv, AcksAreTrue, ResponseIsTrue
<1>3. CASE FinishExchange
  <2>1. loop' \notin AnsweredOk
    BY <1>0, <1>3, FinishStep DEF Receiving, AnsweredOk
  <2>2. dt'.cseq <= srv'.cseq /\ dt'.sseq <= srv'.sseq
    BY <1>0, <1>3, FinishStep DEF AckInv, ResponseIsTrue
  <2> QED
    BY <1>0, <1>3, <2>1, <2>2, FinishStep DEF AckInv, AcksAreTrue, ResponseIsTrue
<1>4. CASE RemotePush
  <2>1. \A a \in Nat : a <= srv.sseq => a <= srv.sseq + 1
    BY <1>0
  <2>2. loop \in AnsweredOk => loop.sseq \in Nat
    BY DEF AnsweredOk
  <2> QED
    BY <1>0, <1>4, <2>1, <2>2, RemotePushStep DEF AckInv, AcksAreTrue, ResponseIsTrue
<1>5. CASE Serve \/ TimeOut \/ Refuse
  <2>1. Shape' /\ ResponseIsTrue'
    BY <1>0, <1>5, ExchangeStep DEF ResponseIsTrue
  <2>2. srv'.cseq \in Nat /\ srv'.sseq \in Nat
    BY <2>1 DEF Shape
  <2>3. /\ dt' = dt
        /\ srv'.cseq >= srv.cseq /\ srv'.sseq >= srv.sseq
    BY <1>0, <1>5, ExchangeStep
  <2> QED
    BY <1>0, <2>1, <2>2, <2>3 DEF AckInv, AcksAreTrue
<1>6. CASE UNCHANGED vars
  BY <1>6 DEF vars, AckInv, Shape, AcksAreTrue, ResponseIsTrue
<1> QED
  BY <1>1, <1>2, <1>3, <1>4, <1>5, <1>6 DEF Next, Run, Backend

(* The inductive invariant holds in every reachable state. *)
THEOREM AckInvariant == Spec => []AckInv
<1> QED
  BY AckInvInit, AckInvStep, PTL DEF Spec

(* The datatype's checkpoint never runs ahead of the server, whatever is    *)
(* lost, retried, refused or committed during an exchange.                  *)
THEOREM AcksAlwaysTrue == Spec => []AcksAreTrue
<1>1. AckInv => AcksAreTrue
  BY DEF AckInv
<1> QED
  BY <1>1, AckInvariant, PTL

-----------------------------------------------------------------------------
LEMMA BypassInvInit == Init => BypassInv
<1> SUFFICES ASSUME Init PROVE BypassInv
  OBVIOUS
<1>1. Shape
  BY AckInvInit DEF AckInv
<1>2. OnlySyncBypasses
  BY DEF Init, OnlySyncBypasses, Receiving
<1>3. unbounded = <<>> /\ ~bounded
  BY DEF Init
<1>4. ManualIsQuiet
  BY <1>3 DEF ManualIsQuiet
<1> QED
  BY <1>1, <1>2, <1>4 DEF BypassInv

(* What the two channels hold when users and other clients send. *)
LEMMA SendersKeepQuiet ==
    ASSUME BypassInv, User \/ RemotePush
    PROVE  ManualIsQuiet' /\ UNCHANGED <<loop, mode, realtime>>
<1>0. unbounded \in Seq(QueuedEvents) /\ bounded \in BOOLEAN /\ realtime \in BOOLEAN
  BY DEF BypassInv, Shape
<1>1. CASE Commit \/ SetUnsubscribing
  BY <1>0, <1>1 DEF Commit, SetUnsubscribing, BestEffort, BypassInv, ManualIsQuiet
<1>2. CASE CheckSubscribed
  BY <1>2 DEF CheckSubscribed, BypassInv, ManualIsQuiet
<1>3. CASE Drop
  BY <1>0, <1>3 DEF Drop, Stop, BypassInv, ManualIsQuiet
<1>4. ASSUME NEW t \in Callers, Sync(t)
      PROVE  ManualIsQuiet' /\ UNCHANGED <<loop, mode, realtime>>
  BY <1>0, <1>4 DEF Sync, PushTransaction, BypassInv, ManualIsQuiet
<1>5. ASSUME NEW t \in Callers, SyncReturn(t)
      PROVE  ManualIsQuiet' /\ UNCHANGED <<loop, mode, realtime>>
  BY <1>5 DEF SyncReturn, BypassInv, ManualIsQuiet
<1>6. CASE RemotePush
  BY <1>0, <1>6 DEF RemotePush, BypassInv, ManualIsQuiet
<1> QED
  BY <1>1, <1>2, <1>3, <1>4, <1>5, <1>6 DEF User

(* An exchange the loop starts for nobody is started in Normal mode, on a   *)
(* realtime connectivity.                                                   *)
LEMMA ReceiveBypass ==
    ASSUME BypassInv, AutoPush \/ ReceiveBounded \/ ReceiveUnbounded \/ BackOffTimer
    PROVE  OnlySyncBypasses' /\ ManualIsQuiet'
<1>0. unbounded \in Seq(QueuedEvents) /\ bounded \in BOOLEAN /\ realtime \in BOOLEAN
  BY DEF BypassInv, Shape
<1>1. CASE AutoPush
  BY <1>1 DEF AutoPush, PushIfNeeded, OnPushTransaction, StartExchange, Answer,
              OnlySyncBypasses, BypassInv, ManualIsQuiet
<1>2. CASE ReceiveBounded
  <2>1. bounded /\ realtime
    BY <1>0, <1>2 DEF ReceiveBounded, BypassInv, ManualIsQuiet
  <2>2. mode = "Normal" \/ loop' = Receiving
    BY <1>2 DEF ReceiveBounded, PollsBounded, OnPushTransaction
  <2>3. realtime' /\ mode' = mode
    BY <1>2, <2>1 DEF ReceiveBounded
  <2> QED
    BY <2>2, <2>3 DEF OnlySyncBypasses, ManualIsQuiet, Receiving
<1>3. CASE ReceiveUnbounded
  <2>1. /\ Polls /\ unbounded # <<>> /\ unbounded' = Tail(unbounded)
        /\ realtime' = realtime /\ mode' = mode
    BY <1>3 DEF ReceiveUnbounded
  <2>2. /\ Head(unbounded) = unbounded[1] /\ Head(unbounded) \in QueuedEvents
        /\ 1 \in 1..Len(unbounded)
        /\ Len(unbounded') = Len(unbounded) - 1
        /\ \A i \in 1..Len(unbounded') :
               unbounded'[i] = unbounded[i + 1] /\ i + 1 \in 1..Len(unbounded)
    BY <1>0, <2>1
  <2>3. CASE Head(unbounded).kind = "Push"
    <3>1. Head(unbounded).resp_tx # Nobody /\ bounded' = bounded
      BY <1>3, <2>2, <2>3, NobodyAssumption DEF ReceiveUnbounded, QueuedEvents, Stop
    <3>2. OnlySyncBypasses'
      BY <1>3, <2>3, <3>1 DEF ReceiveUnbounded, OnPushTransaction, StartExchange,
                              OnlySyncBypasses, Receiving
    <3> QED
      BY <2>1, <2>2, <3>1, <3>2 DEF BypassInv, ManualIsQuiet
  <2>4. CASE Head(unbounded).kind = "Notify"
    <3>1. realtime
      BY <1>0, <2>2, <2>4 DEF BypassInv, ManualIsQuiet
    <3>2. loop' = Receiving
      BY <1>3, <2>1, <2>4 DEF ReceiveUnbounded, Polls
    <3> QED
      BY <2>1, <3>1, <3>2 DEF OnlySyncBypasses, ManualIsQuiet, Receiving
  <2>5. CASE Head(unbounded).kind = "Stop"
    <3>1. loop' = Exited /\ bounded' = bounded
      BY <1>3, <2>5 DEF ReceiveUnbounded
    <3> QED
      BY <2>1, <2>2, <3>1 DEF OnlySyncBypasses, Exited, BypassInv, ManualIsQuiet
  <2> QED
    BY <1>3, <2>3, <2>4, <2>5 DEF ReceiveUnbounded
<1>4. CASE BackOffTimer
  BY <1>4 DEF BackOffTimer, OnlySyncBypasses, Receiving, BypassInv, ManualIsQuiet
<1> QED
  BY <1>1, <1>2, <1>3, <1>4

LEMMA BypassInvStep == AckInv /\ AckInv' /\ BypassInv /\ [Next]_vars => BypassInv'
<1> SUFFICES ASSUME AckInv, AckInv', BypassInv, [Next]_vars PROVE BypassInv'
  OBVIOUS
<1>0. Shape /\ Shape'
  BY DEF AckInv
<1>1. CASE User \/ RemotePush
  BY <1>0, <1>1, SendersKeepQuiet DEF BypassInv, OnlySyncBypasses
<1>2. CASE AutoPush \/ ReceiveBounded \/ ReceiveUnbounded \/ BackOffTimer
  BY <1>0, <1>2, ReceiveBypass DEF BypassInv
<1>3. CASE FinishExchange
  BY <1>0, <1>3 DEF FinishExchange, BypassInv, OnlySyncBypasses, ManualIsQuiet, Receiving
<1>4. CASE Serve \/ TimeOut \/ Refuse
  <2>1. loop'.at # "pushing"
    BY <1>0, <1>4, ExchangeStep DEF AnsweredOk, AnsweredError
  <2> QED
    BY <1>0, <1>4, <2>1, ExchangeStep DEF BypassInv, OnlySyncBypasses, ManualIsQuiet
<1>5. CASE UNCHANGED vars
  BY <1>0, <1>5 DEF vars, BypassInv, OnlySyncBypasses, ManualIsQuiet
<1> QED
  BY <1>1, <1>2, <1>3, <1>4, <1>5 DEF Next, Run, Backend

(* Whatever waits in the channels, an exchange that no sync() asked for runs *)
(* only in Normal mode and only on a realtime connectivity.                 *)
THEOREM OnlySyncAlwaysBypasses == Spec => []OnlySyncBypasses
<1>1. BypassInv => OnlySyncBypasses
  BY DEF BypassInv
<1> QED
  BY <1>1, BypassInvInit, BypassInvStep, AckInvariant, PTL DEF Spec

-----------------------------------------------------------------------------
(* A batch never reaches beyond the last commit. *)
LEMMA BatchIsNat ==
    ASSUME Shape
    PROVE  NextBatch \in Nat /\ NextBatch <= dt.last
<1>1. dt.last \in Nat /\ dt.cseq + Batch \in Nat
  BY BoundsAssumption DEF Shape
<1> QED
  BY <1>1, MinOfTwo DEF NextBatch

(* Commits and acknowledgements only widen the next batch. *)
LEMMA BatchGrows ==
    ASSUME Shape, Shape', dt.last <= dt'.last, dt.cseq <= dt'.cseq
    PROVE  NextBatch <= NextBatch' /\ NextBatch' \in Nat
<1> DEFINE a == dt.last
           b == dt.cseq + Batch
           c == dt'.last
           d == dt'.cseq + Batch
<1>0. /\ dt.last \in Nat /\ dt.cseq \in Nat /\ dt'.last \in Nat /\ dt'.cseq \in Nat
      /\ Batch \in Nat
  BY BoundsAssumption DEF Shape
<1>1. a \in Nat /\ b \in Nat /\ c \in Nat /\ d \in Nat /\ a <= c /\ b <= d
  BY <1>0
<1>2. NextBatch = Min({a, b}) /\ NextBatch' = Min({c, d})
  BY DEF NextBatch
<1> HIDE DEF a, b, c, d
<1>3. Min({a, b}) <= a /\ Min({a, b}) <= b /\ Min({a, b}) \in {a, b}
  BY <1>1, MinOfTwo
<1>4. Min({c, d}) \in {c, d}
  BY <1>1, MinOfTwo
<1> QED
  BY <1>1, <1>2, <1>3, <1>4

(* A call is idle or has a goal. *)
LEMMA CallKinds ==
    ASSUME CallShape, NEW t \in Callers
    PROVE  /\ calls[t].at \in {"idle", "waiting", "ok", "error"}
           /\ calls[t].at # "idle" => 
                 calls[t] \in [at : {"waiting", "ok", "error"}, cseq : Nat, sseq : Nat]
           /\ calls[t].at = "idle" => calls[t] = NoCall
BY DEF CallShape, NoCall

(* The invariant of the sync() calls holds initially. *)
LEMMA SyncInvInit == Init => SyncInv
<1> SUFFICES ASSUME Init PROVE SyncInv
  OBVIOUS
<1>1. /\ unbounded = <<>> /\ loop = Receiving /\ mode = "Normal"
      /\ calls = [t \in Callers |-> NoCall] /\ unsub = FALSE /\ dropped = FALSE
      /\ srv.wired
  BY DEF Init
<1>2. Len(<<>>) = 0
  OBVIOUS
<1>3. loop \notin Exchanges
  BY <1>1 DEF Exchanges, Pushing, AnsweredOk, AnsweredError, Receiving
<1>4. \A t \in Callers : calls[t].at = "idle"
  BY <1>1 DEF NoCall
<1>5. CallShape
  BY <1>1 DEF CallShape, Modes
<1>6. AskedOnce
  BY <1>1, <1>2, <1>3 DEF AskedOnce
<1> QED
  BY <1>1, <1>3, <1>4, <1>5, <1>6 DEF SyncInv, Leaving, Goals, Delivered, Exchanges

-----------------------------------------------------------------------------
(* Answering the call an exchange was run for. *)
LEMMA AnswerEffect ==
    ASSUME CallShape, NEW t \in Requesters, NEW r \in {"ok", "error"}, Answer(t, r),
           t \in Callers => calls[t].at = "waiting"
    PROVE  /\ calls' \in [Callers -> {NoCall} \cup [at : {"waiting", "ok", "error"},
                                                   cseq : Nat, sseq : Nat]]
           /\ \A u \in Callers : u # t => calls'[u] = calls[u]
           /\ t \in Callers => /\ calls'[t].at = r
                               /\ calls'[t].cseq = calls[t].cseq
                               /\ calls'[t].sseq = calls[t].sseq
<1>1. CASE t = Nobody
  BY <1>1, NobodyAssumption DEF Answer, CallShape
<1>2. CASE t # Nobody
  <2>1. t \in Callers
    BY <1>2 DEF Requesters
  <2>2. calls' = [calls EXCEPT ![t].at = r]
    BY <1>2 DEF Answer
  <2>3. calls[t] \in [at : {"waiting", "ok", "error"}, cseq : Nat, sseq : Nat]
    BY <2>1, CallKinds
  <2> QED
    BY <2>1, <2>2, <2>3 DEF CallShape
<1> QED
  BY <1>1, <1>2

(* Steps that neither ask nor start an exchange. *)
LEMMA AskedKept ==
    ASSUME AskedOnce, UNCHANGED unbounded,
           \A t \in Callers : calls[t].at = "waiting" => calls'[t].at = "waiting",
           loop' \in Exchanges => loop \in Exchanges /\ loop'.caller = loop.caller
    PROVE  AskedOnce'
<1> DEFINE q == unbounded
<1>1. /\ \A t \in Callers : \A i \in 1..Len(unbounded') :
            Asks(unbounded'[i], t) =>
              /\ calls'[t].at = "waiting"
              /\ \A j \in 1..Len(unbounded') : Asks(unbounded'[j], t) => i = j
  BY DEF AskedOnce
<1>2. loop' \in Exchanges => \A t \in Callers : loop'.caller = t =>
              /\ calls'[t].at = "waiting"
              /\ \A i \in 1..Len(unbounded') : ~Asks(unbounded'[i], t)
  BY DEF AskedOnce
<1> QED
  BY <1>1, <1>2 DEF AskedOnce, Asks, PushTransaction, Exchanges, Pushing, AnsweredOk,
                    AnsweredError, Requesters

(* An event that asks for nothing is appended. *)
LEMMA AskedAppend ==
    ASSUME Shape, AskedOnce, NEW ev \in QueuedEvents, unbounded' = Append(unbounded, ev),
           \A t \in Callers : ~Asks(ev, t),
           UNCHANGED <<loop, calls>>
    PROVE  AskedOnce'
<1>1. /\ unbounded \in Seq(QueuedEvents) /\ Len(unbounded) \in Nat
      /\ Len(unbounded') = Len(unbounded) + 1
      /\ unbounded'[Len(unbounded) + 1] = ev
      /\ \A i \in 1..Len(unbounded) : unbounded'[i] = unbounded[i]
  BY DEF Shape
<1>2. \A t \in Callers : \A i \in 1..Len(unbounded') :
         Asks(unbounded'[i], t) => i \in 1..Len(unbounded) /\ Asks(unbounded[i], t)
  BY <1>1
<1> QED
  BY <1>2 DEF AskedOnce, Asks, PushTransaction, Exchanges, Pushing, AnsweredOk,
                    AnsweredError, Requesters
-----------------------------------------------------------------------------
(* A step that leaves the loop, the calls, the channel and the mode alone.  *)
(* The datatype may commit, the server may move on.                         *)
LEMMA GoalsKept ==
    ASSUME Shape, Shape', CallShape, AskedOnce, Goals, UNCHANGED <<loop, mode, calls>>,
           dt.last <= dt'.last, dt.cseq <= dt'.cseq,
           srv.cseq <= srv'.cseq, srv.sseq <= srv'.sseq
    PROVE  Goals'
<1>1. NextBatch <= NextBatch' /\ NextBatch \in Nat /\ NextBatch' \in Nat
  BY BatchGrows, BatchIsNat
<1>2. /\ srv.cseq \in Nat /\ srv.sseq \in Nat /\ srv'.cseq \in Nat /\ srv'.sseq \in Nat
  BY DEF Shape
<1>3. \A t \in Callers : calls[t].at = "waiting" => calls[t].sseq \in Nat /\ calls[t].cseq \in Nat
  BY CallKinds
<1>4. \A t \in Callers : calls'[t].at = "waiting" =>
          /\ calls'[t].sseq <= srv'.sseq
          /\ mode' # "Stopped" => calls'[t].cseq <= NextBatch'
  <2> SUFFICES ASSUME NEW t \in Callers, calls[t].at = "waiting"
               PROVE  /\ calls[t].sseq <= srv'.sseq
                      /\ mode # "Stopped" => calls[t].cseq <= NextBatch'
    OBVIOUS
  <2> QED
    BY <1>1, <1>2, <1>3 DEF Goals
<1>5. loop' \in Pushing => \A t \in Callers : loop'.caller = t => calls'[t].cseq <= loop'.upto
  BY DEF Goals
<1>6. loop' \in AnsweredOk => \A t \in Callers : loop'.caller = t =>
          /\ calls'[t].cseq <= srv'.cseq
          /\ calls'[t].sseq <= loop'.sseq \/ loop'.state = "Disabled"
  <2> SUFFICES ASSUME loop \in AnsweredOk, NEW t \in Callers, loop.caller = t
               PROVE  /\ calls[t].cseq <= srv'.cseq
                      /\ calls[t].sseq <= loop.sseq \/ loop.state = "Disabled"
    OBVIOUS
  <2>1. calls[t].at = "waiting"
    BY DEF AskedOnce, Exchanges
  <2> QED
    BY <1>2, <1>3, <2>1 DEF Goals
<1> QED
  BY <1>4, <1>5, <1>6 DEF Goals, Pushing, AnsweredOk, Requesters

(* A commit widens the next batch, in a state that is not on its way out. *)
LEMMA CommitSync ==
    ASSUME Shape, Shape', SyncInv, Commit
    PROVE  SyncInv'
<1>1. /\ UNCHANGED <<realtime, srv, unbounded, mode, loop, calls, unsub, dropped>>
      /\ dt' = [dt EXCEPT !.last = @ + 1] /\ dt.state \in ReadWritable
  BY DEF Commit
<1>2. /\ dt'.state = dt.state /\ dt'.cseq = dt.cseq /\ dt'.sseq = dt.sseq
      /\ dt.last <= dt'.last /\ dt.cseq <= dt'.cseq
      /\ srv.cseq <= srv'.cseq /\ srv.sseq <= srv'.sseq
  BY <1>1 DEF Shape
<1>3. dt.state # "Unsubscribing" /\ dt.state # "Disabled"
  BY <1>1 DEF ReadWritable
<1>4. CallShape'
  BY <1>1 DEF SyncInv, CallShape
<1>5. AskedOnce'
  BY <1>1, AskedKept DEF SyncInv
<1>6. Leaving'
  BY <1>1, <1>2, <1>3 DEF SyncInv, Leaving, Exchanges, Pushing, AnsweredOk, AnsweredError
<1>7. Goals'
  BY <1>1, <1>2, GoalsKept DEF SyncInv
<1>8. Delivered'
  BY <1>1, <1>2 DEF SyncInv, Delivered
<1> QED
  BY <1>4, <1>5, <1>6, <1>7, <1>8 DEF SyncInv

(* A batch depends on the last commit and the checkpoint only. *)
LEMMA SameBatch ==
    ASSUME dt'.last = dt.last, dt'.cseq = dt.cseq
    PROVE  NextBatch' = NextBatch
BY DEF NextBatch

(* unsubscribe: the check, then the assignment. *)
LEMMA UnsubscribeSync ==
    ASSUME Shape, Shape', SyncInv, CheckSubscribed \/ SetUnsubscribing
    PROVE  SyncInv'
<1>1. /\ UNCHANGED <<srv, unbounded, mode, loop, calls, dropped>>
      /\ dt'.last = dt.last /\ dt'.cseq = dt.cseq /\ dt'.sseq = dt.sseq
      /\ unsub' \in BOOLEAN
  BY DEF CheckSubscribed, SetUnsubscribing, Shape
<1>2. /\ dt.last <= dt'.last /\ dt.cseq <= dt'.cseq
      /\ srv.cseq <= srv'.cseq /\ srv.sseq <= srv'.sseq
  BY <1>1 DEF Shape
<1>3. NextBatch' = NextBatch
  BY <1>1, SameBatch
<1>4. CallShape'
  BY <1>1 DEF SyncInv, CallShape
<1>5. AskedOnce'
  BY <1>1, AskedKept DEF SyncInv
<1>6. Goals'
  BY <1>1, <1>2, GoalsKept DEF SyncInv
<1>7. CASE CheckSubscribed
  <2>1. dt' = dt /\ dt.state = "Subscribed"
    BY <1>7 DEF CheckSubscribed
  <2>2. Leaving'
    BY <1>1, <1>3, <2>1 DEF SyncInv, Leaving, Exchanges, Pushing, AnsweredOk, AnsweredError
  <2>3. Delivered'
    BY <1>1, <2>1 DEF SyncInv, Delivered
  <2> QED
    BY <1>4, <1>5, <1>6, <2>2, <2>3 DEF SyncInv
<1>8. CASE SetUnsubscribing
  <2>1. dt'.state = "Unsubscribing" /\ unsub /\ ~unsub'
    BY <1>8 DEF SetUnsubscribing, Shape
  <2>2. dt.state = "Subscribed" \/ mode = "Stopped"
    BY <2>1 DEF SyncInv, Leaving
  <2>3. Leaving'
    BY <1>1, <1>3, <2>1, <2>2 DEF SyncInv, Leaving, Exchanges, Pushing, AnsweredOk, AnsweredError
  <2>4. Delivered'
    BY <1>1, <2>1 DEF SyncInv, Delivered
  <2> QED
    BY <1>4, <1>5, <1>6, <2>3, <2>4 DEF SyncInv
<1> QED
  BY <1>7, <1>8

(* An event of another kind is sent: the drop of the handle, a notification. *)
LEMMA SendSync ==
    ASSUME Shape, Shape', SyncInv, Drop \/ RemotePush
    PROVE  SyncInv'
<1>1. /\ UNCHANGED <<dt, mode, loop, calls, unsub>>
      /\ dropped' \in BOOLEAN
      /\ srv'.wired = srv.wired /\ srv'.cseq = srv.cseq
      /\ srv'.sseq = srv.sseq \/ srv'.sseq = srv.sseq + 1
  BY DEF Drop, RemotePush, Shape, SyncInv, CallShape
<1>2. /\ dt.last <= dt'.last /\ dt.cseq <= dt'.cseq
      /\ srv.cseq <= srv'.cseq /\ srv.sseq <= srv'.sseq
  BY <1>1 DEF Shape
<1>3. NextBatch' = NextBatch
  BY <1>1, SameBatch
<1>4. CallShape'
  BY <1>1 DEF SyncInv, CallShape
<1>5. AskedOnce'
  <2>1. CASE unbounded' = unbounded
    BY <1>1, <2>1, AskedKept DEF SyncInv
  <2>2. CASE unbounded' # unbounded
    <3>1. PICK ev \in {Stop, Notify(srv.sseq + 1)} : unbounded' = Append(unbounded, ev)
      BY <2>2 DEF Drop, RemotePush
    <3>2. ev \in QueuedEvents /\ \A t \in Callers : ~Asks(ev, t)
      BY <3>1 DEF Shape, QueuedEvents, Stop, Notify, Asks, PushTransaction
    <3> QED
      BY <1>1, <3>1, <3>2, AskedAppend DEF SyncInv
  <2> QED
    BY <2>1, <2>2
<1>6. Goals'
  BY <1>1, <1>2, GoalsKept DEF SyncInv
<1>7. Leaving'
  BY <1>1, <1>3 DEF SyncInv, Leaving, Exchanges, Pushing, AnsweredOk, AnsweredError
<1>8. Delivered'
  BY <1>1 DEF SyncInv, Delivered
<1> QED
  BY <1>4, <1>5, <1>6, <1>7, <1>8 DEF SyncInv

(* A call is made. *)
LEMMA CallSync ==
    ASSUME Shape, Shape', SyncInv, NEW t \in Callers, Sync(t)
    PROVE  SyncInv'
<1> DEFINE new == [at |-> "waiting", sseq |-> srv.sseq, cseq |-> NextBatch]
<1>1. /\ UNCHANGED <<dt, srv, mode, loop, unsub, dropped>>
      /\ calls[t] = NoCall
      /\ unbounded' = Append(unbounded, PushTransaction(t))
      /\ calls' = [calls EXCEPT ![t] = new]
  BY DEF Sync, NextBatch
<1>2. NextBatch \in Nat /\ NextBatch' = NextBatch /\ srv.sseq \in Nat
  BY <1>1, BatchIsNat, SameBatch DEF Shape
<1>3. CallShape'
  BY <1>1, <1>2 DEF SyncInv, CallShape
<1>4. calls'[t] = new /\ \A u \in Callers : u # t => calls'[u] = calls[u]
  BY <1>1 DEF SyncInv, CallShape
<1>5. calls[t].at = "idle"
  BY <1>1 DEF NoCall
<1>6. AskedOnce'
  <2>1. /\ unbounded \in Seq(QueuedEvents) /\ Len(unbounded) \in Nat
        /\ Len(unbounded') = Len(unbounded) + 1
        /\ unbounded'[Len(unbounded) + 1] = PushTransaction(t)
        /\ \A i \in 1..Len(unbounded) : unbounded'[i] = unbounded[i]
    <3>1. PushTransaction(t) \in QueuedEvents
      BY DEF PushTransaction, QueuedEvents
    <3> QED
      BY <1>1, <3>1 DEF Shape
  <2>2. \A i \in 1..Len(unbounded) : ~Asks(unbounded[i], t)
    BY <1>5 DEF SyncInv, AskedOnce
  <2>3. \A u \in Callers : u # t => ~Asks(PushTransaction(t), u)
    BY DEF Asks, PushTransaction
  <2>4. \A u \in Callers : \A i \in 1..Len(unbounded') :
           Asks(unbounded'[i], u) =>
             \/ u = t /\ i = Len(unbounded) + 1
             \/ u # t /\ i \in 1..Len(unbounded) /\ Asks(unbounded[i], u)
    BY <2>1, <2>2, <2>3
  <2>5. \A u \in Callers : \A i \in 1..Len(unbounded') :
           Asks(unbounded'[i], u) =>
              /\ calls'[u].at = "waiting"
              /\ \A j \in 1..Len(unbounded') : Asks(unbounded'[j], u) => i = j
    BY <1>4, <2>4 DEF SyncInv, AskedOnce
  <2>6. loop \in Exchanges => \A u \in Callers : loop.caller = u =>
              /\ calls'[u].at = "waiting"
              /\ \A i \in 1..Len(unbounded') : ~Asks(unbounded'[i], u)
    BY <1>4, <1>5, <2>4 DEF SyncInv, AskedOnce
  <2> QED
    BY <1>1, <2>5, <2>6 DEF AskedOnce, Asks, PushTransaction, Exchanges, Pushing,
                            AnsweredOk, AnsweredError, Requesters
<1>7. loop \in Exchanges => loop.caller # t
  BY <1>5 DEF SyncInv, AskedOnce
<1>8. Goals'
  <2>1. \A u \in Callers : calls'[u].at = "waiting" =>
          /\ calls'[u].sseq <= srv.sseq
          /\ mode # "Stopped" => calls'[u].cseq <= NextBatch
    BY <1>2, <1>4 DEF SyncInv, Goals
  <2> QED
    BY <1>1, <1>2, <1>4, <1>7, <2>1 DEF SyncInv, Goals, Exchanges, Pushing, AnsweredOk, Requesters
<1>9. Leaving'
  BY <1>1, <1>2 DEF SyncInv, Leaving, Exchanges, Pushing, AnsweredOk, AnsweredError
<1>10. Delivered'
  BY <1>1, <1>4 DEF SyncInv, Delivered
<1> QED
  BY <1>3, <1>6, <1>8, <1>9, <1>10 DEF SyncInv

(* The caller takes the answer. *)
LEMMA ReturnSync ==
    ASSUME Shape, Shape', SyncInv, NEW t \in Callers, SyncReturn(t)
    PROVE  SyncInv'
<1>1. /\ UNCHANGED <<dt, srv, unbounded, mode, loop, unsub, dropped>>
      /\ calls[t].at # "waiting"
      /\ calls' = [calls EXCEPT ![t] = NoCall]
  BY DEF SyncReturn
<1>2. /\ calls'[t] = NoCall /\ calls'[t].at = "idle"
      /\ \A u \in Callers : u # t => calls'[u] = calls[u]
  BY <1>1 DEF SyncInv, CallShape, NoCall
<1>3. CallShape'
  BY <1>1 DEF SyncInv, CallShape
<1>4. AskedOnce'
  BY <1>1, <1>2, AskedKept DEF SyncInv
<1>5. NextBatch' = NextBatch
  BY <1>1, SameBatch
<1>6. loop \in Exchanges => loop.caller # t
  BY <1>1 DEF SyncInv, AskedOnce
<1>7. Goals'
  BY <1>1, <1>2, <1>5, <1>6 DEF SyncInv, Goals, Exchanges, Pushing, AnsweredOk, Requesters
<1>8. Leaving'
  BY <1>1, <1>5 DEF SyncInv, Leaving, Exchanges, Pushing, AnsweredOk, AnsweredError
<1>9. Delivered'
  BY <1>1, <1>2 DEF SyncInv, Delivered
<1> QED
  BY <1>3, <1>4, <1>7, <1>8, <1>9 DEF SyncInv
-----------------------------------------------------------------------------
(* The loop takes a request of t out of its channel, or comes to one of its *)
(* own: nobody else's request is touched.                                   *)
LEMMA RequestSync ==
    ASSUME Shape, Shape', SyncInv, NEW t \in Requesters, OnPushTransaction(t),
           UNCHANGED <<dt, srv, mode, unsub, dropped>>, loop = Receiving,
           t \in Callers => calls[t].at = "waiting",
           \A u \in Callers : \A i \in 1..Len(unbounded') : Asks(unbounded'[i], u) =>
               /\ u # t /\ calls[u].at = "waiting"
               /\ \A j \in 1..Len(unbounded') : Asks(unbounded'[j], u) => i = j
    PROVE  SyncInv'
<1>1. NextBatch' = NextBatch /\ NextBatch \in Nat
  BY SameBatch, BatchIsNat
<1>2. loop \notin Exchanges
  BY DEF Exchanges, Pushing, AnsweredOk, AnsweredError, Receiving
<1>3. CASE mode = "Stopped"
  <2>1. loop' = Receiving /\ Answer(t, "error")
    BY <1>3 DEF OnPushTransaction
  <2>2. loop' \notin Exchanges
    BY <1>2, <2>1
  <2>3. /\ calls' \in [Callers -> {NoCall} \cup [at : {"waiting", "ok", "error"},
                                                 cseq : Nat, sseq : Nat]]
        /\ \A u \in Callers : u # t => calls'[u] = calls[u]
        /\ t \in Callers => calls'[t].at = "error"
    BY <2>1, AnswerEffect DEF SyncInv
  <2>4. CallShape'
    BY <2>3 DEF SyncInv, CallShape
  <2>5. AskedOnce'
    BY <2>2, <2>3 DEF AskedOnce, Asks, PushTransaction, Exchanges, Pushing, AnsweredOk,
                      AnsweredError, Requesters
  <2>6. Goals'
    BY <1>1, <2>2, <2>3 DEF SyncInv, Goals, Exchanges, Pushing, AnsweredOk, Requesters
  <2>7. Leaving'
    BY <1>1, <2>2 DEF SyncInv, Leaving, Exchanges, Pushing, AnsweredOk, AnsweredError, Requesters
  <2>8. Delivered'
    BY <2>3 DEF SyncInv, Delivered
  <2> QED
    BY <2>4, <2>5, <2>6, <2>7, <2>8 DEF SyncInv
<1>4. CASE mode # "Stopped"
  <2>1. /\ calls' = calls
        /\ loop' = [at |-> "pushing", caller |-> t, state |-> dt.state, upto |-> NextBatch]
    BY <1>4 DEF OnPushTransaction, StartExchange, NextBatch
  <2>2. /\ loop'.caller = t /\ loop'.state = dt.state /\ loop'.upto = NextBatch
        /\ loop' \notin AnsweredOk
    BY <2>1 DEF AnsweredOk
  <2>3. CallShape'
    BY <2>1 DEF SyncInv, CallShape
  <2>4. AskedOnce'
    BY <2>1, <2>2 DEF AskedOnce, Asks, PushTransaction, Exchanges, Pushing, AnsweredOk,
                      AnsweredError, Requesters
  <2>5. Goals'
    <3>1. t \in Callers => calls[t].cseq <= NextBatch
      BY <1>4 DEF SyncInv, Goals
    <3>2. \A u \in Callers : calls'[u].at = "waiting" =>
              /\ calls'[u].sseq <= srv'.sseq
              /\ mode' # "Stopped" => calls'[u].cseq <= NextBatch'
      BY <1>1, <2>1 DEF SyncInv, Goals
    <3> QED
      BY <2>1, <2>2, <3>1, <3>2 DEF Goals, Pushing, AnsweredOk, Requesters
  <2>6. Leaving'
    BY <1>1, <1>4, <2>2 DEF SyncInv, Leaving, Exchanges, Pushing, AnsweredOk, AnsweredError, Requesters
  <2>7. Delivered'
    BY <2>1 DEF SyncInv, Delivered
  <2> QED
    BY <2>3, <2>4, <2>5, <2>6, <2>7 DEF SyncInv
<1> QED
  BY <1>3, <1>4

(* The loop takes no request, or ends. *)
LEMMA IdleSync ==
    ASSUME Shape, Shape', SyncInv, loop = Receiving, loop' \in {Receiving, Exited},
           UNCHANGED <<dt, srv, calls, unsub, dropped>>,
           mode' = mode \/ (mode = "BackOff" /\ mode' = "Normal"),
           \A u \in Callers : \A i \in 1..Len(unbounded') : Asks(unbounded'[i], u) =>
               /\ calls[u].at = "waiting"
               /\ \A j \in 1..Len(unbounded') : Asks(unbounded'[j], u) => i = j
    PROVE  SyncInv'
<1>1. NextBatch' = NextBatch
  BY SameBatch
<1>2. loop' \notin Exchanges
  BY DEF Exchanges, Pushing, AnsweredOk, AnsweredError, Receiving, Exited
<1>3. CallShape'
  BY DEF SyncInv, CallShape, Modes
<1>4. AskedOnce'
  BY <1>2 DEF AskedOnce, Asks, PushTransaction, Exchanges, Pushing, AnsweredOk,
              AnsweredError, Requesters
<1>5. Goals'
  BY <1>1, <1>2 DEF SyncInv, Goals, Exchanges, Pushing, AnsweredOk, Requesters
<1>6. Leaving'
  BY <1>1, <1>2 DEF SyncInv, Leaving, Exchanges, Pushing, AnsweredOk, AnsweredError, Requesters
<1>7. Delivered'
  BY DEF SyncInv, Delivered
<1> QED
  BY <1>3, <1>4, <1>5, <1>6, <1>7 DEF SyncInv

(* Each way the loop comes to an event is a request or none. *)
LEMMA ReceiveSync ==
    ASSUME Shape, Shape', SyncInv, AutoPush \/ ReceiveBounded \/ ReceiveUnbounded \/ BackOffTimer
    PROVE  SyncInv'
<1>1. CASE AutoPush \/ ReceiveBounded
  <2>1. /\ loop = Receiving /\ OnPushTransaction(Nobody)
        /\ UNCHANGED <<dt, srv, unbounded, mode, unsub, dropped>>
    BY <1>1 DEF AutoPush, ReceiveBounded, Polls
  <2>2. Nobody \in Requesters /\ \A u \in Callers : u # Nobody
    BY NobodyAssumption DEF Requesters
  <2>3. \A u \in Callers : \A i \in 1..Len(unbounded') : Asks(unbounded'[i], u) =>
               /\ u # Nobody /\ calls[u].at = "waiting"
               /\ \A j \in 1..Len(unbounded') : Asks(unbounded'[j], u) => i = j
    BY <2>1, <2>2 DEF SyncInv, AskedOnce
  <2> QED
    BY <2>1, <2>2, <2>3, RequestSync
<1>2. CASE ReceiveUnbounded
  <2>1. /\ loop = Receiving /\ unbounded # <<>> /\ unbounded' = Tail(unbounded)
        /\ UNCHANGED <<dt, srv, mode, unsub, dropped>>
    BY <1>2 DEF ReceiveUnbounded, Polls
  <2>2. /\ Head(unbounded) = unbounded[1] /\ Head(unbounded) \in QueuedEvents
        /\ 1 \in 1..Len(unbounded)
        /\ \A i \in 1..Len(unbounded') :
               /\ unbounded'[i] = unbounded[i + 1] /\ i \in Nat
               /\ i + 1 \in 1..Len(unbounded) /\ i + 1 # 1
    BY <2>1 DEF Shape
  <2>3. \A u \in Callers : \A i \in 1..Len(unbounded') : Asks(unbounded'[i], u) =>
               /\ ~Asks(Head(unbounded), u) /\ calls[u].at = "waiting"
               /\ \A j \in 1..Len(unbounded') : Asks(unbounded'[j], u) => i = j
    <3> SUFFICES ASSUME NEW u \in Callers, NEW i \in 1..Len(unbounded'), Asks(unbounded'[i], u)
                 PROVE  /\ ~Asks(Head(unbounded), u) /\ calls[u].at = "waiting"
                        /\ \A j \in 1..Len(unbounded') : Asks(unbounded'[j], u) => i = j
      OBVIOUS
    <3>1. Asks(unbounded[i + 1], u)
      BY <2>2
    <3>2. /\ calls[u].at = "waiting"
          /\ \A j \in 1..Len(unbounded) : Asks(unbounded[j], u) => i + 1 = j
      BY <2>2, <3>1 DEF SyncInv, AskedOnce
    <3>3. ~Asks(unbounded[1], u)
      BY <2>2, <3>2
    <3>4. \A j \in 1..Len(unbounded') : Asks(unbounded'[j], u) => i + 1 = j + 1
      BY <2>2, <3>2
    <3> QED
      BY <2>2, <3>2, <3>3, <3>4
  <2>4. CASE Head(unbounded).kind = "Push"
    <3> DEFINE t == Head(unbounded).resp_tx
    <3>1. t \in Callers /\ Asks(Head(unbounded), t) /\ OnPushTransaction(t)
      BY <1>2, <2>2, <2>4 DEF ReceiveUnbounded, QueuedEvents, Stop, Asks, PushTransaction
    <3>2. PICK w \in Callers : w = t
      BY <3>1
    <3>3. calls[w].at = "waiting" /\ OnPushTransaction(w) /\ w \in Requesters
      BY <2>2, <3>1, <3>2 DEF SyncInv, AskedOnce, Requesters
    <3>4. \A u \in Callers : \A i \in 1..Len(unbounded') : Asks(unbounded'[i], u) =>
               /\ u # w /\ calls[u].at = "waiting"
               /\ \A j \in 1..Len(unbounded') : Asks(unbounded'[j], u) => i = j
      BY <2>3, <3>1, <3>2
    <3> QED
      BY <2>1, <3>3, <3>4, RequestSync
  <2>5. CASE Head(unbounded).kind # "Push"
    <3>1. loop' \in {Receiving, Exited} /\ calls' = calls
      BY <1>2, <2>1, <2>5 DEF ReceiveUnbounded
    <3> QED
      BY <2>1, <2>3, <3>1, IdleSync
  <2> QED
    BY <2>4, <2>5
<1>3. CASE BackOffTimer
  <2>1. /\ loop = Receiving /\ loop' = Receiving /\ mode = "BackOff" /\ mode' = "Normal"
        /\ UNCHANGED <<dt, srv, calls, unsub, dropped, unbounded>>
    BY <1>3 DEF BackOffTimer, ModeAfterTimer
  <2>2. \A u \in Callers : \A i \in 1..Len(unbounded') : Asks(unbounded'[i], u) =>
               /\ calls[u].at = "waiting"
               /\ \A j \in 1..Len(unbounded') : Asks(unbounded'[j], u) => i = j
    BY <2>1 DEF SyncInv, AskedOnce
  <2> QED
    BY <2>1, <2>2, IdleSync
<1> QED
  BY <1>1, <1>2, <1>3

-----------------------------------------------------------------------------
(* What the server's answer does to an exchange that was pushing. *)
LEMMA ExchangeSync ==
    ASSUME Shape, Shape', SyncInv, Serve \/ TimeOut \/ Refuse
    PROVE  SyncInv'
<1>1. loop \in Pushing /\ loop \in Exchanges
  BY LoopKinds DEF Serve, TimeOut, Refuse, Exchanges
<1>2. /\ UNCHANGED <<dt, unbounded, mode, calls, unsub, dropped>>
      /\ loop' \in AnsweredOk \cup AnsweredError
      /\ loop'.caller = loop.caller
  <2>1. loop' \in AnsweredOk \cup AnsweredError
    BY ExchangeStep
  <2> QED
    BY <2>1 DEF Serve, TimeOut, Refuse, Ok, Failed
<1>3. loop' \in Exchanges /\ loop' \notin Pushing
  BY <1>2 DEF Exchanges, Pushing, AnsweredOk, AnsweredError
<1>4. /\ srv.cseq <= srv'.cseq /\ srv.sseq <= srv'.sseq
      /\ srv.cseq \in Nat /\ srv.sseq \in Nat /\ srv'.cseq \in Nat /\ srv'.sseq \in Nat
  <2>1. /\ srv.cseq \in Nat /\ srv.sseq \in Nat /\ srv'.cseq \in Nat /\ srv'.sseq \in Nat
    BY DEF Shape
  <2> QED
    BY <2>1, ExchangeStep
<1>5. NextBatch' = NextBatch /\ NextBatch \in Nat
  BY <1>2, SameBatch, BatchIsNat
<1>6. CallShape'
  BY <1>2 DEF SyncInv, CallShape
<1>7. AskedOnce'
  BY <1>1, <1>2, AskedKept DEF SyncInv
<1>8. \A t \in Callers : calls[t].at # "idle" => calls[t].sseq \in Nat /\ calls[t].cseq \in Nat
  BY CallKinds DEF SyncInv
<1>9. Delivered'
  <2> SUFFICES ASSUME NEW t \in Callers, calls[t].at = "ok"
               PROVE  /\ calls[t].cseq <= srv'.cseq
                      /\ calls[t].sseq <= dt.sseq \/ (dt.state = "Disabled" /\ ~unsub)
    BY <1>2 DEF Delivered
  <2>1. calls[t].cseq <= srv.cseq /\ calls[t].cseq \in Nat
    BY <1>8 DEF SyncInv, Delivered
  <2>2. calls[t].sseq <= dt.sseq \/ (dt.state = "Disabled" /\ ~unsub)
    BY DEF SyncInv, Delivered
  <2> QED
    BY <1>4, <2>1, <2>2
<1>10. \A t \in Callers : calls'[t].at = "waiting" =>
          /\ calls'[t].sseq <= srv'.sseq
          /\ mode' # "Stopped" => calls'[t].cseq <= NextBatch'
  <2> SUFFICES ASSUME NEW t \in Callers, calls[t].at = "waiting"
               PROVE  calls[t].sseq <= srv'.sseq /\ (mode # "Stopped" => calls[t].cseq <= NextBatch)
    BY <1>2, <1>5
  <2>1. calls[t].sseq <= srv.sseq /\ calls[t].sseq \in Nat
    BY <1>8 DEF SyncInv, Goals
  <2> QED
    BY <1>4, <2>1 DEF SyncInv, Goals
<1>11. mode # "Stopped"
  BY <1>1 DEF SyncInv, Leaving
<1>12. srv' = srv \/ (srv' = Served /\ loop.state # "Disabled")
  BY DEF Serve, TimeOut, Refuse
<1>13. /\ Served.wired = (srv.wired /\ loop.state # "Unsubscribing")
       /\ Served.cseq = Stored /\ Stored \in Nat
       /\ srv.wired => loop.upto <= Stored
       /\ srv.cseq <= Stored
  <2>1. loop.upto \in Nat /\ srv.wired \in BOOLEAN
    BY <1>1 DEF Pushing, Shape
  <2> QED
    BY <1>4, <2>1, MaxOfTwo DEF Served, Stored
<1>14. Leaving'
  <2>1. loop' \in AnsweredOk =>
           dt.state # "Disabled" /\ loop'.state \in {"Subscribed", "Disabled"}
    <3>1. loop' \in AnsweredOk =>
             loop.state # "Disabled" /\ loop'.state \in {"Subscribed", "Disabled"}
      BY DEF Serve, TimeOut, Refuse, Ok, Failed, AnsweredOk
    <3> QED
      BY <1>1, <3>1 DEF SyncInv, Leaving
  <2>2. ~srv'.wired => \/ dt.state = "Disabled"
                       \/ dt.state = "Unsubscribing" /\ NextBatch <= srv'.cseq
    <3>1. CASE ~srv.wired
      <4>1. srv.cseq <= srv'.cseq
        BY <1>4
      <4>2. \/ dt.state = "Disabled"
            \/ dt.state = "Unsubscribing" /\ NextBatch <= srv.cseq
        BY <1>11, <3>1 DEF SyncInv, Leaving
      <4> QED
        BY <1>4, <1>5, <4>2
    <3>2. CASE srv.wired /\ ~srv'.wired
      <4>1. srv' = Served /\ loop.state = "Unsubscribing"
        BY <1>12, <1>13, <3>2
      <4>2. dt.state = "Unsubscribing" /\ loop.upto = NextBatch
        BY <1>1, <4>1 DEF SyncInv, Leaving
      <4> QED
        BY <1>13, <3>2, <4>1, <4>2
    <3> QED
      BY <3>1, <3>2
  <2> QED
    BY <1>2, <1>3, <1>5, <1>11, <2>1, <2>2 DEF SyncInv, Leaving, Exchanges, Pushing, AnsweredOk,
       AnsweredError, Requesters
<1>15. ASSUME loop' \in AnsweredOk, NEW t \in Callers, loop'.caller = t
       PROVE  /\ calls[t].cseq <= srv'.cseq
              /\ calls[t].sseq <= loop'.sseq \/ loop'.state = "Disabled"
  <2>1. srv' = Served /\ loop' = Ok /\ loop.state # "Disabled"
    BY <1>15 DEF Serve, TimeOut, Refuse, Failed, AnsweredOk
  <2>2. calls[t].at = "waiting" /\ calls[t].cseq <= loop.upto /\ calls[t].sseq <= srv.sseq
    BY <1>1, <1>2, <1>15 DEF SyncInv, AskedOnce, Goals
  <2>3. calls[t].cseq \in Nat /\ calls[t].sseq \in Nat /\ loop.upto \in Nat
    BY <1>1, <1>8, <2>2 DEF Pushing
  <2>4. CASE srv.wired
    <3>1. loop'.sseq = srv'.sseq
      BY <2>1, <2>4 DEF Ok
    <3> QED
      BY <1>4, <1>13, <2>1, <2>2, <2>3, <2>4, <3>1
  <2>5. CASE ~srv.wired
    <3>1. loop.state = "Unsubscribing"
      BY <1>1, <2>1, <2>5 DEF SyncInv, Leaving
    <3>2. dt.state = "Unsubscribing" /\ loop.upto = NextBatch
      BY <1>1, <3>1 DEF SyncInv, Leaving
    <3>3. NextBatch <= srv.cseq
      BY <1>11, <2>5, <3>2 DEF SyncInv, Leaving
    <3>4. loop'.state = "Disabled"
      BY <2>1, <3>1 DEF Ok
    <3> QED
      BY <1>4, <1>5, <2>2, <2>3, <3>2, <3>3, <3>4
  <2> QED
    BY <2>4, <2>5
<1>16. Goals'
  BY <1>2, <1>3, <1>10, <1>15 DEF Goals, Pushing, AnsweredOk, Requesters
<1> QED
  BY <1>6, <1>7, <1>9, <1>14, <1>16 DEF SyncInv
(* The loop applies the answer and tells the caller. *)
LEMMA FinishSync ==
    ASSUME Shape, Shape', SyncInv, FinishExchange
    PROVE  SyncInv'
<1>1. loop \in AnsweredOk \cup AnsweredError /\ loop \in Exchanges
  BY LoopKinds DEF FinishExchange, Exchanges
<1>2. /\ UNCHANGED <<srv, unbounded, unsub, dropped>> /\ loop' = Receiving
      /\ dt' = Applied(Recovery) /\ mode' = ModeAfter(Recovery)
      /\ Answer(loop.caller, IF Recovery = "none" THEN "ok" ELSE "error")
  BY DEF FinishExchange
<1>3. loop' \notin Exchanges
  BY <1>2 DEF Exchanges, Pushing, AnsweredOk, AnsweredError, Receiving
<1>4. loop.caller \in Requesters
  BY <1>1 DEF AnsweredOk, AnsweredError
<1>5. PICK t \in Requesters : t = loop.caller
  BY <1>4
<1>6. PICK r \in {"ok", "error"} : r = (IF Recovery = "none" THEN "ok" ELSE "error")
  OBVIOUS
<1>7. t \in Callers => calls[t].at = "waiting" /\ \A i \in 1..Len(unbounded) : ~Asks(unbounded[i], t)
  BY <1>1, <1>5 DEF SyncInv, AskedOnce
<1>8. /\ calls' \in [Callers -> {NoCall} \cup [at : {"waiting", "ok", "error"},
                                              cseq : Nat, sseq : Nat]]
      /\ \A u \in Callers : u # t => calls'[u] = calls[u]
      /\ t \in Callers => /\ calls'[t].at = r
                          /\ calls'[t].cseq = calls[t].cseq
                          /\ calls'[t].sseq = calls[t].sseq
  <2>1. Answer(t, r)
    BY <1>2, <1>5, <1>6
  <2> QED
    BY <1>7, <2>1, AnswerEffect DEF SyncInv
<1>9. mode # "Stopped"
  BY <1>1 DEF SyncInv, Leaving
<1>10. Recovery \in {"none", "RetryWithBackOff", "Disable"}
  BY DEF Recovery
<1>11. CallShape'
  BY <1>2, <1>8, <1>10 DEF SyncInv, CallShape, Modes, ModeAfter
<1>12. AskedOnce'
  <2>1. \A u \in Callers : \A i \in 1..Len(unbounded') : Asks(unbounded'[i], u) =>
           /\ calls'[u].at = "waiting"
           /\ \A j \in 1..Len(unbounded') : Asks(unbounded'[j], u) => i = j
    BY <1>2, <1>7, <1>8 DEF SyncInv, AskedOnce
  <2> QED
    BY <1>3, <2>1 DEF AskedOnce, Asks, PushTransaction, Exchanges, Pushing, AnsweredOk,
                      AnsweredError, Requesters
<1>13. dt.cseq \in Nat /\ dt.sseq \in Nat /\ dt'.cseq \in Nat /\ dt'.sseq \in Nat
  BY DEF Shape
<1>14. \A u \in Callers : calls'[u].at = "waiting" => calls'[u] = calls[u]
  BY <1>6, <1>8
<1>15. \A u \in Callers : calls[u].at # "idle" => calls[u].sseq \in Nat /\ calls[u].cseq \in Nat
  BY CallKinds DEF SyncInv
<1>16. CASE Recovery = "none"
  <2>1. loop \in AnsweredOk /\ Legal /\ dt.state # "Disabled"
    <3>1. loop \in AnsweredOk /\ Legal
      BY <1>1, <1>16 DEF Recovery, AnsweredError, AnsweredOk
    <3> QED
      BY <3>1 DEF SyncInv, Leaving
  <2>2. loop.cseq \in Nat /\ loop.sseq \in Nat
    BY <2>1 DEF AnsweredOk
  <2>3. /\ dt'.state = loop.state /\ dt'.last = dt.last
        /\ dt.cseq <= dt'.cseq /\ dt.sseq <= dt'.sseq /\ loop.sseq <= dt'.sseq
        /\ mode' = "Normal"
    <3>1. dt' = Pulled
      BY <1>2, <1>16 DEF Applied
    <3>2. /\ dt.cseq <= Max({dt.cseq, loop.cseq})
          /\ dt.sseq <= Max({dt.sseq, loop.sseq}) /\ loop.sseq <= Max({dt.sseq, loop.sseq})
      BY <1>13, <2>2, MaxOfTwo
    <3> QED
      BY <1>2, <1>16, <3>1, <3>2 DEF Pulled, ModeAfter, Shape
  <2>4. NextBatch <= NextBatch' /\ NextBatch' \in Nat /\ NextBatch \in Nat
    <3>1. dt.last <= dt'.last
      BY <2>3 DEF Shape
    <3> QED
      BY <2>3, <3>1, BatchGrows, BatchIsNat
  <2>5. Leaving'
    <3>1. dt.state = "Unsubscribing" => loop.state = "Disabled"
      BY <2>1 DEF Legal
    <3>2. unsub => dt.state = "Subscribed"
      BY <1>9 DEF SyncInv, Leaving
    <3>3. loop.state = "Disabled" => dt.state = "Unsubscribing"
      BY <2>1 DEF Legal
    <3>4. ~srv.wired => loop.state = "Disabled"
      BY <1>9, <2>1, <3>1 DEF SyncInv, Leaving
    <3>5. loop.state \in {"Subscribed", "Disabled"}
      BY <2>1 DEF SyncInv, Leaving
    <3> QED
      BY <1>2, <1>3, <2>3, <3>2, <3>3, <3>4, <3>5 DEF Leaving, Exchanges, Pushing, AnsweredOk,
         AnsweredError, Requesters
  <2>6. Goals'
    <3>1. ASSUME NEW u \in Callers, calls'[u].at = "waiting"
          PROVE  calls'[u].sseq <= srv'.sseq /\ calls'[u].cseq <= NextBatch'
      <4>1. calls[u].at = "waiting" /\ calls'[u] = calls[u]
        BY <1>14, <3>1
      <4>2. calls[u].sseq <= srv.sseq /\ calls[u].cseq <= NextBatch
        BY <1>9, <4>1 DEF SyncInv, Goals
      <4> QED
        BY <1>2, <1>15, <2>4, <4>1, <4>2
    <3> QED
      BY <1>3, <3>1 DEF Goals, Exchanges, Pushing, AnsweredOk, Requesters
  <2>7. Delivered'
    <3> SUFFICES ASSUME NEW u \in Callers, calls'[u].at = "ok"
                 PROVE  /\ calls'[u].cseq <= srv'.cseq
                        /\ calls'[u].sseq <= dt'.sseq \/ (dt'.state = "Disabled" /\ ~unsub')
      BY DEF Delivered
    <3>1. CASE u = t
      <4>1. /\ calls[u].cseq <= srv.cseq
            /\ calls[u].sseq <= loop.sseq \/ loop.state = "Disabled"
            /\ calls[u].sseq \in Nat
        BY <1>5, <1>7, <1>15, <2>1, <3>1 DEF SyncInv, Goals
      <4>2. loop.state = "Disabled" => ~unsub
        BY <1>9, <2>1 DEF Legal, SyncInv, Leaving
      <4> QED
        BY <1>2, <1>8, <1>13, <2>2, <2>3, <3>1, <4>1, <4>2
    <3>2. CASE u # t
      <4>1. /\ calls[u].at = "ok" /\ calls'[u] = calls[u] /\ calls[u].sseq \in Nat
            /\ calls[u].cseq <= srv.cseq /\ calls[u].sseq <= dt.sseq
        BY <1>8, <1>15, <2>1, <3>2 DEF SyncInv, Delivered
      <4> QED
        BY <1>2, <1>13, <2>3, <4>1
    <3> QED
      BY <3>1, <3>2
  <2> QED
    BY <1>11, <1>12, <2>5, <2>6, <2>7 DEF SyncInv
<1>17. CASE Recovery # "none"
  <2>1. /\ \/ dt' = dt /\ mode' = "BackOff"
           \/ /\ dt'.state = "Disabled" /\ dt'.sseq = dt.sseq /\ mode' = "Stopped"
    BY <1>2, <1>10, <1>17 DEF Applied, ModeAfter, Shape
  <2>2. r = "error"
    BY <1>6, <1>17
  <2>3. dt' = dt => NextBatch' = NextBatch
    BY SameBatch
  <2>4. Leaving'
    BY <1>2, <1>3, <1>9, <2>1, <2>3 DEF SyncInv, Leaving, Exchanges, Pushing, AnsweredOk,
         AnsweredError, Requesters
  <2>5. Goals'
    BY <1>2, <1>3, <1>9, <1>14, <2>1, <2>3 DEF SyncInv, Goals, Exchanges, Pushing, AnsweredOk,
         Requesters
  <2>6. Delivered'
    <3> SUFFICES ASSUME NEW u \in Callers, calls'[u].at = "ok"
                 PROVE  /\ calls'[u].cseq <= srv'.cseq
                        /\ calls'[u].sseq <= dt'.sseq \/ (dt'.state = "Disabled" /\ ~unsub')
      BY DEF Delivered
    <3>1. calls[u].at = "ok" /\ calls'[u] = calls[u]
      BY <1>8, <2>2
    <3> QED
      BY <1>2, <2>1, <3>1 DEF SyncInv, Delivered
  <2> QED
    BY <1>11, <1>12, <2>4, <2>5, <2>6 DEF SyncInv
<1> QED
  BY <1>16, <1>17

(* Every step keeps the invariant of the sync() calls. *)
LEMMA SyncInvStep == AckInv /\ AckInv' /\ SyncInv /\ [Next]_vars => SyncInv'
<1> SUFFICES ASSUME AckInv, AckInv', SyncInv, [Next]_vars PROVE SyncInv'
  OBVIOUS
<1>0. Shape /\ Shape'
  BY DEF AckInv
<1>1. CASE User
  BY <1>0, <1>1, CommitSync, UnsubscribeSync, SendSync, CallSync, ReturnSync DEF User
<1>2. CASE Run
  BY <1>0, <1>2, ReceiveSync, FinishSync DEF Run
<1>3. CASE Backend
  BY <1>0, <1>3, SendSync, ExchangeSync DEF Backend
<1>4. CASE UNCHANGED vars
  <2>1. UNCHANGED <<dt, srv, unbounded, mode, loop, calls, unsub, dropped>>
    BY <1>4 DEF vars
  <2>2. NextBatch' = NextBatch
    BY <2>1, SameBatch
  <2>3. AskedOnce'
    BY <2>1, AskedKept DEF SyncInv
  <2>4. Leaving' /\ Goals'
    BY <2>1, <2>2 DEF SyncInv, Leaving, Goals, Exchanges, Pushing, AnsweredOk,
         AnsweredError, Requesters
  <2> QED
    BY <2>1, <2>3, <2>4 DEF SyncInv, CallShape, Delivered
<1> QED
  BY <1>1, <1>2, <1>3, <1>4 DEF Next

(* The invariant holds in every reachable state. *)
THEOREM SyncInvariant == Spec => []SyncInv
<1> QED
  BY SyncInvInit, SyncInvStep, AckInvariant, PTL DEF Spec

(* A sync() that returned Ok did what it says, whatever was committed,      *)
(* lost, unsubscribed or refused since it was called.                       *)
THEOREM SyncAlwaysDelivers == Spec => []SyncDelivers
<1>1. AckInv /\ SyncInv => SyncDelivers
  <2> SUFFICES ASSUME AckInv, SyncInv, NEW t \in Callers, calls[t].at = "ok"
               PROVE  /\ srv.cseq >= calls[t].cseq
                      /\ dt.sseq >= calls[t].sseq \/ dt.state = "Disabled"
    BY DEF SyncDelivers
  <2>1. calls[t].cseq \in Nat /\ calls[t].sseq \in Nat
    BY CallKinds DEF SyncInv
  <2>2. srv.cseq \in Nat /\ dt.sseq \in Nat
    BY DEF AckInv, Shape
  <2> QED
    BY <2>1, <2>2 DEF SyncInv, Delivered
<1> QED
  BY <1>1, SyncInvariant, AckInvariant, PTL

-----------------------------------------------------------------------------
(* The bounds hold initially. *)
LEMMA SizeInvInit == Init => SizeInv
<1> SUFFICES ASSUME Init PROVE SizeInv
  OBVIOUS
<1>1. /\ dt.last = 0 /\ srv.cseq = 0 /\ srv.sseq = 0 /\ unbounded = <<>>
      /\ calls = [t \in Callers |-> NoCall] /\ loop = Receiving
  BY DEF Init
<1>2. Len(<<>>) = 0 /\ loop \notin Pushing
  BY <1>1 DEF Pushing, Receiving
<1> QED
  BY <1>1, <1>2, BoundsAssumption DEF SizeInv

(* What the counters allow, once the notifications and calls are set aside. *)
LEMMA CountersStep ==
    ASSUME Shape, Shape', CallShape, SizeInv, Next
    PROVE  /\ dt'.last <= MaxCommits /\ srv'.cseq <= MaxCommits
           /\ srv'.cseq <= srv'.sseq /\ srv'.sseq <= srv'.cseq + MaxRemote
           /\ srv.sseq <= srv'.sseq
           /\ loop' \in Pushing => loop'.upto <= MaxCommits
<1>0. /\ dt.last \in Nat /\ srv.cseq \in Nat /\ srv.sseq \in Nat
      /\ MaxCommits \in Nat /\ MaxRemote \in Nat
      /\ dt'.last \in Nat /\ srv'.cseq \in Nat /\ srv'.sseq \in Nat
  BY BoundsAssumption DEF Shape
<1>1. /\ dt.last <= MaxCommits /\ srv.cseq <= MaxCommits
      /\ srv.cseq <= srv.sseq /\ srv.sseq <= srv.cseq + MaxRemote
      /\ loop \in Pushing => loop.upto <= MaxCommits
  BY DEF SizeInv
<1>2. CASE Commit
  <2>1. UNCHANGED <<srv, loop>> /\ dt'.last = dt.last + 1 /\ dt.last < MaxCommits
    BY <1>2 DEF Commit, Shape
  <2> QED
    BY <1>0, <1>1, <2>1
<1>3. CASE RemotePush
  <2>1. /\ UNCHANGED <<dt, loop>> /\ srv'.cseq = srv.cseq /\ srv'.sseq = srv.sseq + 1
        /\ srv.sseq - srv.cseq < MaxRemote
    BY <1>3 DEF RemotePush, Shape
  <2> QED
    BY <1>0, <1>1, <2>1
<1>4. CASE Serve \/ TimeOut \/ Refuse
  <2>1. loop \in Pushing /\ loop' \notin Pushing /\ dt' = dt
    BY <1>4, LoopKinds, ExchangeStep DEF Serve, TimeOut, Refuse, Pushing, AnsweredOk, AnsweredError
  <2>2. srv' = srv \/ srv' = Served
    BY <1>4 DEF Serve, TimeOut, Refuse
  <2>3. loop.upto \in Nat
    BY <2>1 DEF Pushing
  <2>4. /\ Served.cseq = Stored /\ Served.sseq = srv.sseq + (Stored - srv.cseq)
        /\ Stored \in Nat /\ Stored >= srv.cseq /\ Stored <= MaxCommits
    BY <1>0, <1>1, <2>1, <2>3, MaxOfTwo DEF Served, Stored
  <2> HIDE DEF Served, Stored
  <2> QED
    BY <1>0, <1>1, <2>1, <2>2, <2>4
<1>5. CASE AutoPush \/ ReceiveBounded \/ ReceiveUnbounded \/ BackOffTimer
  <2>1. UNCHANGED <<dt, srv>>
    BY <1>5, ReceiveStep
  <2>2. NextBatch \in Nat /\ NextBatch <= dt.last
    BY BatchIsNat
  <2>3. loop' \in Pushing => loop' = loop \/ loop'.upto = NextBatch
    BY <1>5 DEF AutoPush, ReceiveBounded, ReceiveUnbounded, BackOffTimer, OnPushTransaction,
                StartExchange, NextBatch, Receiving, Exited, Pushing
  <2> QED
    BY <1>0, <1>1, <2>1, <2>2, <2>3
<1>6. CASE FinishExchange
  <2>1. loop' \notin Pushing /\ srv' = srv
    BY <1>6 DEF FinishExchange, Receiving, Pushing
  <2>2. Recovery \in {"none", "RetryWithBackOff", "Disable"}
    BY DEF Recovery
  <2>3. dt'.last = dt.last \/ dt'.last = 0
    BY <1>6, <2>2 DEF FinishExchange, Applied, Pulled, Shape
  <2> QED
    BY <1>0, <1>1, <2>1, <2>3
<1>7. CASE CheckSubscribed \/ SetUnsubscribing \/ Drop \/ \E t \in Callers : Sync(t) \/ SyncReturn(t)
  <2>1. UNCHANGED <<srv, loop>> /\ dt'.last = dt.last
    BY <1>7 DEF CheckSubscribed, SetUnsubscribing, Drop, Sync, SyncReturn, Shape
  <2> QED
    BY <1>0, <1>1, <2>1
<1> QED
  BY <1>2, <1>3, <1>4, <1>5, <1>6, <1>7 DEF Next, User, Run, Backend

(* A notification names what the server had when it was sent. *)
LEMMA NotifiedStep ==
    ASSUME Shape, Shape', CallShape, SizeInv, Next, NEW i \in 1..Len(unbounded'),
           unbounded'[i].kind = "Notify"
    PROVE  unbounded'[i].sseq <= srv'.sseq
<1>0. /\ unbounded \in Seq(QueuedEvents) /\ Len(unbounded) \in Nat
      /\ srv.sseq \in Nat /\ srv'.sseq \in Nat /\ srv.sseq <= srv'.sseq
      /\ \A j \in 1..Len(unbounded) :
            unbounded[j].kind = "Notify" =>
                unbounded[j].sseq <= srv.sseq /\ unbounded[j].sseq \in Nat
  <2>1. unbounded \in Seq(QueuedEvents) /\ Len(unbounded) \in Nat /\ srv.sseq \in Nat /\ srv'.sseq \in Nat
    BY DEF Shape
  <2>2. srv.sseq <= srv'.sseq
    BY CountersStep
  <2>3. \A j \in 1..Len(unbounded) : unbounded[j] \in QueuedEvents
    BY <2>1
  <2>4. \A j \in 1..Len(unbounded) : unbounded[j].kind = "Notify" => unbounded[j].sseq \in Nat
    BY <2>3 DEF QueuedEvents, Stop
  <2> QED
    BY <2>1, <2>2, <2>4 DEF SizeInv
<1>1. CASE unbounded' = unbounded
  BY <1>0, <1>1
<1>2. CASE unbounded' = Tail(unbounded) /\ unbounded # <<>>
  <2>1. unbounded'[i] = unbounded[i + 1] /\ i + 1 \in 1..Len(unbounded)
    BY <1>0, <1>2
  <2> QED
    BY <1>0, <2>1
<1>3. ASSUME NEW ev \in QueuedEvents, unbounded' = Append(unbounded, ev),
             ev.kind = "Notify" => ev.sseq <= srv'.sseq
      PROVE  unbounded'[i].sseq <= srv'.sseq
  <2>1. /\ i = Len(unbounded) + 1 => unbounded'[i] = ev
        /\ i # Len(unbounded) + 1 => i \in 1..Len(unbounded) /\ unbounded'[i] = unbounded[i]
    BY <1>0, <1>3
  <2>2. CASE i = Len(unbounded) + 1
    BY <1>3, <2>1, <2>2
  <2>3. CASE i # Len(unbounded) + 1
    <3>1. unbounded[i].kind = "Notify" /\ i \in 1..Len(unbounded)
      BY <2>1, <2>3
    <3> QED
      BY <1>0, <2>1, <2>3, <3>1
  <2> QED
    BY <2>2, <2>3
<1>4. CASE Drop
  BY <1>3, <1>4 DEF Drop, Stop, QueuedEvents
<1>5. CASE RemotePush
  <2>1. CASE unbounded' # unbounded
    <3>1. PICK ev \in QueuedEvents : ev = Notify(srv.sseq + 1) /\ unbounded' = Append(unbounded, ev)
      BY <1>0, <1>5, <2>1 DEF RemotePush, Notify, QueuedEvents
    <3>2. ev.sseq <= srv'.sseq
      BY <1>0, <1>5, <3>1, RemotePushStep DEF Notify
    <3> QED
      BY <1>3, <3>1, <3>2
  <2> QED
    BY <1>1, <2>1
<1>6. ASSUME NEW t \in Callers, Sync(t)
      PROVE  unbounded'[i].sseq <= srv'.sseq
  <2>1. PushTransaction(t) \in QueuedEvents /\ PushTransaction(t).kind # "Notify"
    BY DEF PushTransaction, QueuedEvents
  <2> QED
    BY <1>3, <1>6, <2>1 DEF Sync
<1>7. CASE ReceiveUnbounded
  BY <1>2, <1>7 DEF ReceiveUnbounded
<1>8. CASE \/ Commit \/ CheckSubscribed \/ SetUnsubscribing
           \/ \E t \in Callers : SyncReturn(t)
           \/ AutoPush \/ ReceiveBounded \/ BackOffTimer \/ FinishExchange
           \/ Serve \/ TimeOut \/ Refuse
  <2>1. unbounded' = unbounded
    BY <1>8 DEF Commit, CheckSubscribed, SetUnsubscribing, SyncReturn, AutoPush, ReceiveBounded,
                BackOffTimer, FinishExchange, Serve, TimeOut, Refuse
  <2> QED
    BY <1>1, <2>1
<1> QED
  BY <1>4, <1>5, <1>6, <1>7, <1>8 DEF Next, User, Run, Backend

(* The goal of a call is noted when the call is made. *)
LEMMA GoalsBounded ==
    ASSUME Shape, Shape', SyncInv, SizeInv, Next, NEW t \in Callers, calls'[t] # NoCall
    PROVE  calls'[t].cseq <= MaxCommits /\ calls'[t].sseq <= srv'.sseq
<1>0. /\ srv.sseq \in Nat /\ srv'.sseq \in Nat /\ srv.sseq <= srv'.sseq
      /\ calls[t] # NoCall => /\ calls[t].cseq <= MaxCommits /\ calls[t].sseq <= srv.sseq
                              /\ calls[t].sseq \in Nat
  <2>1. srv.sseq \in Nat /\ srv'.sseq \in Nat
    BY DEF Shape
  <2>2. srv.sseq <= srv'.sseq
    BY CountersStep DEF SyncInv
  <2>3. calls[t] # NoCall => calls[t].sseq \in Nat
    BY CallKinds DEF SyncInv
  <2> QED
    BY <2>1, <2>2, <2>3 DEF SizeInv
<1>1. CASE /\ calls[t] # NoCall
           /\ calls'[t].cseq = calls[t].cseq /\ calls'[t].sseq = calls[t].sseq
  BY <1>0, <1>1
<1>2. ASSUME NEW u \in Callers, Sync(u)
      PROVE  calls'[t].cseq <= MaxCommits /\ calls'[t].sseq <= srv'.sseq
  <2>1. CASE u = t
    <3>1. calls'[t].cseq = NextBatch /\ calls'[t].sseq = srv.sseq
      BY <1>2, <2>1 DEF Sync, NextBatch, SyncInv, CallShape
    <3>2. NextBatch \in Nat /\ NextBatch <= dt.last /\ dt.last <= MaxCommits
          /\ dt.last \in Nat /\ MaxCommits \in Nat
      BY BatchIsNat, BoundsAssumption DEF SizeInv, Shape
    <3> QED
      BY <1>0, <3>1, <3>2
  <2>2. CASE u # t
    <3>1. calls'[t] = calls[t]
      BY <1>2, <2>2 DEF Sync, SyncInv, CallShape
    <3> QED
      BY <1>1, <3>1
  <2> QED
    BY <2>1, <2>2
<1>3. ASSUME NEW u \in Callers, SyncReturn(u)
      PROVE  calls'[t].cseq <= MaxCommits /\ calls'[t].sseq <= srv'.sseq
  <2>1. calls'[t] = calls[t]
    BY <1>3 DEF SyncReturn, SyncInv, CallShape
  <2> QED
    BY <1>1, <2>1
<1>4. ASSUME NEW w \in Requesters, NEW r \in {"ok", "error"}, Answer(w, r),
             w \in Callers => calls[w].at = "waiting"
      PROVE  calls'[t].cseq <= MaxCommits /\ calls'[t].sseq <= srv'.sseq
  <2>1. /\ t # w => calls'[t] = calls[t]
        /\ t = w => /\ calls'[t].cseq = calls[t].cseq /\ calls'[t].sseq = calls[t].sseq
                    /\ calls[t].at = "waiting"
    BY <1>4, AnswerEffect DEF SyncInv
  <2>2. calls[t].at = "waiting" => calls[t] # NoCall
    BY DEF NoCall
  <2> QED
    BY <1>1, <2>1, <2>2
<1>5. CASE AutoPush \/ ReceiveBounded
  <2>1. calls' = calls
    BY <1>5, NobodyAssumption DEF AutoPush, ReceiveBounded, OnPushTransaction, Answer
  <2> QED
    BY <1>1, <2>1
<1>6. CASE ReceiveUnbounded
  <2>1. CASE Head(unbounded).kind = "Push"
    <3>1. Head(unbounded) \in QueuedEvents /\ Head(unbounded) = unbounded[1] /\ 1 \in 1..Len(unbounded)
      BY <1>6 DEF ReceiveUnbounded, Shape
    <3>2. PICK w \in Callers : Asks(unbounded[1], w) /\ OnPushTransaction(w)
      BY <1>6, <2>1, <3>1 DEF ReceiveUnbounded, QueuedEvents, Stop, Asks, PushTransaction
    <3>3. calls[w].at = "waiting" /\ w \in Requesters
      BY <3>1, <3>2 DEF SyncInv, AskedOnce, Requesters
    <3>4. calls' = calls \/ Answer(w, "error")
      BY <3>2 DEF OnPushTransaction
    <3> QED
      BY <1>1, <1>4, <3>3, <3>4
  <2>2. CASE Head(unbounded).kind # "Push"
    <3>1. calls' = calls
      BY <1>6, <2>2 DEF ReceiveUnbounded
    <3> QED
      BY <1>1, <3>1
  <2> QED
    BY <2>1, <2>2
<1>7. CASE FinishExchange
  <2>1. loop \in AnsweredOk \cup AnsweredError
    BY <1>7, LoopKinds DEF FinishExchange
  <2>2. PICK w \in Requesters : w = loop.caller
    BY <2>1 DEF AnsweredOk, AnsweredError
  <2>3. w \in Callers => calls[w].at = "waiting"
    BY <2>1, <2>2 DEF SyncInv, AskedOnce, Exchanges
  <2>4. PICK r \in {"ok", "error"} : Answer(w, r)
    BY <1>7, <2>2 DEF FinishExchange
  <2> QED
    BY <1>4, <2>3, <2>4
<1>8. CASE \/ Commit \/ CheckSubscribed \/ SetUnsubscribing \/ Drop
           \/ BackOffTimer \/ RemotePush \/ Serve \/ TimeOut \/ Refuse
  <2>1. calls' = calls
    BY <1>8 DEF Commit, CheckSubscribed, SetUnsubscribing, Drop, BackOffTimer, RemotePush,
                Serve, TimeOut, Refuse
  <2> QED
    BY <1>1, <2>1
<1> QED
  BY <1>2, <1>3, <1>5, <1>6, <1>7, <1>8 DEF Next, User, Run, Backend

(* Every step keeps the bounds. *)
LEMMA SizeInvStep == AckInv /\ AckInv' /\ SyncInv /\ SizeInv /\ [Next]_vars => SizeInv'
<1> SUFFICES ASSUME AckInv, AckInv', SyncInv, SizeInv, [Next]_vars PROVE SizeInv'
  OBVIOUS
<1>0. Shape /\ Shape' /\ CallShape
  BY DEF AckInv, SyncInv
<1>1. CASE Next
  <2>1. \A i \in 1..Len(unbounded') :
           unbounded'[i].kind = "Notify" => unbounded'[i].sseq <= srv'.sseq
    BY <1>0, <1>1, NotifiedStep
  <2>2. \A t \in Callers : calls'[t] # NoCall =>
           calls'[t].cseq <= MaxCommits /\ calls'[t].sseq <= srv'.sseq
    BY <1>0, <1>1, GoalsBounded
  <2> QED
    BY <1>0, <1>1, <2>1, <2>2, CountersStep DEF SizeInv, Pushing, Requesters
<1>2. CASE UNCHANGED vars
  BY <1>2 DEF vars, SizeInv, Pushing, Requesters
<1> QED
  BY <1>1, <1>2

(* The types of the small instances: every counter stays within the bounds  *)
(* on commits and remote pushes, however often exchanges are repeated.      *)
THEOREM TypeCorrect == Spec => []TypeOK
<1>1. AckInv /\ SyncInv /\ SizeInv => TypeOK
  <2> SUFFICES ASSUME AckInv, SyncInv, SizeInv PROVE TypeOK
    OBVIOUS
  <2>0. /\ MaxCommits \in Nat /\ MaxRemote \in Nat
        /\ Shape /\ CallShape
    BY BoundsAssumption DEF AckInv, SyncInv
  <2>1. \A n \in Nat : n <= MaxCommits => n \in Seqnos /\ n \in 0..MaxCommits
    BY <2>0 DEF Seqnos
  <2>2. \A n \in Nat : n <= srv.sseq => n \in Seqnos
    <3>1. srv.sseq \in Nat /\ srv.cseq \in Nat /\ srv.cseq <= MaxCommits
          /\ srv.sseq <= srv.cseq + MaxRemote
      BY <2>0 DEF Shape, SizeInv
    <3> QED
      BY <2>0, <3>1 DEF Seqnos
  <2>3. dt \in [state : States, last : 0..MaxCommits, cseq : Seqnos, sseq : Seqnos,
                joined : BOOLEAN]
    <3>1. dt.cseq <= srv.cseq /\ dt.sseq <= srv.sseq /\ dt.last <= MaxCommits
          /\ srv.cseq <= MaxCommits /\ srv.cseq \in Nat /\ dt.cseq \in Nat
      BY <2>0 DEF AckInv, AcksAreTrue, SizeInv, Shape
    <3>2. dt.cseq <= MaxCommits
      BY <2>0, <3>1
    <3> QED
      BY <2>0, <2>1, <2>2, <3>1, <3>2 DEF Shape
  <2>4. srv \in [created : BOOLEAN, wired : BOOLEAN, cseq : Seqnos, sseq : Seqnos]
    <3>1. srv.cseq \in Seqnos /\ srv.sseq \in Seqnos
      BY <2>0, <2>1, <2>2 DEF SizeInv, Shape
    <3> QED
      BY <2>0, <3>1 DEF Shape
  <2>5. unbounded \in Seq(Events)
    <3>1. \A i \in 1..Len(unbounded) : unbounded[i] \in QueuedEvents
      BY <2>0 DEF Shape
    <3>2. ASSUME NEW i \in 1..Len(unbounded) PROVE unbounded[i] \in Events
      <4>1. unbounded[i].kind = "Notify" => unbounded[i].sseq <= srv.sseq
        BY DEF SizeInv
      <4> QED
        BY <2>2, <3>1, <4>1 DEF QueuedEvents, Events, Stop
    <3> QED
      BY <2>0, <3>2 DEF Shape
  <2>6. loop \in {Receiving, Exited} \cup Outcomes
                 \cup [at : {"pushing"}, caller : Callers \cup {Nobody},
                       state : States, upto : Seqnos]
    <3>1. CASE loop \in Pushing
      <4>1. loop.upto \in Seqnos
        BY <2>1, <3>1 DEF SizeInv, Pushing
      <4> QED
        BY <3>1, <4>1 DEF Pushing, Requesters
    <3>2. CASE loop \in AnsweredOk
      <4>1. /\ loop.cseq <= srv.cseq /\ loop.sseq <= srv.sseq /\ srv.cseq <= srv.sseq
            /\ loop.cseq \in Nat /\ loop.sseq \in Nat /\ srv.cseq \in Nat /\ srv.sseq \in Nat
        BY <2>0, <3>2 DEF AckInv, ResponseIsTrue, SizeInv, AnsweredOk, Shape
      <4>2. loop.cseq <= srv.sseq
        BY <4>1
      <4>3. loop.cseq \in Seqnos /\ loop.sseq \in Seqnos
        BY <2>2, <4>1, <4>2
      <4> QED
        BY <3>2, <4>3 DEF AnsweredOk, Requesters, Outcomes
    <3>3. CASE loop \in AnsweredError
      BY <3>3 DEF AnsweredError, Requesters, Outcomes
    <3> QED
      BY <2>0, <3>1, <3>2, <3>3 DEF Shape
  <2>7. calls \in [Callers -> {NoCall} \cup [at : {"waiting", "ok", "error"},
                                             cseq : Seqnos, sseq : Seqnos]]
    <3>1. ASSUME NEW t \in Callers
          PROVE  calls[t] \in {NoCall} \cup [at : {"waiting", "ok", "error"},
                                             cseq : Seqnos, sseq : Seqnos]
      <4>1. CASE calls[t] # NoCall
        <5>1. calls[t] \in [at : {"waiting", "ok", "error"}, cseq : Nat, sseq : Nat]
          BY <2>0, <4>1 DEF CallShape
        <5>2. calls[t].cseq \in Seqnos /\ calls[t].sseq \in Seqnos
          BY <2>1, <2>2, <4>1, <5>1 DEF SizeInv
        <5> QED
          BY <5>1, <5>2
      <4> QED
        BY <4>1
    <3> QED
      BY <2>0, <3>1 DEF CallShape
  <2>8. /\ realtime \in BOOLEAN /\ bounded \in BOOLEAN
        /\ unsub \in BOOLEAN /\ dropped \in BOOLEAN
        /\ mode \in {"Normal", "BackOff", "Stopped"}
    BY <2>0 DEF Shape, CallShape, Modes
  <2> QED
    BY <2>3, <2>4, <2>5, <2>6, <2>7, <2>8 DEF TypeOK
<1> QED
  BY <1>1, AckInvariant, SyncInvariant, SizeInvInit, SizeInvStep, PTL DEF Spec
=============================================================================
