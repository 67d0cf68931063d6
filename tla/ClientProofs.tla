--------------------------- MODULE ClientProofs ---------------------------
(***************************************************************************)
(* Proofs about Client, for any users, keys, priorities and scenarios.      *)
(* An ...Effect lemma says what one action does to the variables and that   *)
(* their types are kept; on these rest the steps of four invariants, each   *)
(* in three lemmas: one for the calls of users, one for event loops, one    *)
(* for the rest.  At the end the properties of the client run.              *)
(***************************************************************************)
EXTENDS Client, SequenceTheorems, FiniteSetTheorems, TLAPS

(* The states a datatype of the client goes through. *)
States == {"Creating", "Subscribing", "SubscribingOrCreating", "Subscribed",
           "Unsubscribing", "Disabled"}

(* The loop modes the null connectivity leads to. *)
Modes == {"Normal", "Stopped"}

(* The caller of sync() an exchange answers, if any. *)
Responses == Users \cup {Nobody}

(* What do_rollback restores. *)
Points == [state : States, seq : Nat]

(* Attribute and MutableDatatype, as far as Client keeps them. *)
Datatypes ==
    [key : Keys, state : States, readonly : BOOLEAN, seq : Nat, last : Nat, cp : Nat,
     pending : Seq(Points), handlers : [Priorities -> Nat]]

(* The events of the unbounded channel. *)
Events == {Stop} \cup [kind : {"Push"}, resp : Users]

(* A datatype's two channels. *)
Channels == [bounded : BOOLEAN, unbounded : Seq(Events)]

(* The responses of NullConnectivity. *)
Replies == [state : States, cseq : Nat, error : BOOLEAN]

(* What the event loop's thread is doing, but for the detaching ... *)
Phases ==
    UNION {[at : {"check", "select"}, mode : Modes],
           [at : {"push", "failed", "report"}, resp : Responses],
           [at : {"apply"}, resp : Responses, reply : Replies],
           [at : {"answer"}, mode : Modes, resp : Users],
           [at : {"exited", "panicked"}]}

(* ... in which it remembers how to go on. *)
Loops == Phases \cup [at : {"detaching"}, next : Phases]

(* What a user thread is doing. *)
Calls == {Idle} \cup [at : UserPcs, inst : DOMAIN dt]

(* The types of the variables, and that the manager maps a key to nothing   *)
(* or to a datatype of that key: what every other proof starts from.        *)
Shape ==
    /\ scenario \in Scenarios /\ client \in BOOLEAN
    /\ manager \in [Keys -> Nat]
    /\ dt \in Seq(Datatypes)
    /\ chan \in Seq(Channels) /\ Len(chan) = Len(dt)
    /\ loop \in Seq(Loops) /\ Len(loop) = Len(dt)
    /\ handles \in Seq(SUBSET Users) /\ Len(handles) = Len(dt)
    /\ pc \in [Users -> Calls]
    /\ handlers \in Nat
    /\ \A t \in tasks : t.inst \in DOMAIN dt
    /\ \A k \in Keys : manager[k] # NoInst =>
          manager[k] \in DOMAIN dt /\ dt[manager[k]].key = k

(* The fields of a loop's record at each of its labels. *)
LEMMA LoopFields ==
    ASSUME NEW l \in Loops
    PROVE  /\ l.at \in LoopPcs
           /\ l.at \in {"check", "select", "answer"} => l.mode \in Modes
           /\ l.at \in {"push", "failed", "report", "apply"} => l.resp \in Responses
           /\ l.at = "answer" => l.resp \in Users
           /\ l.at = "apply" => l.reply \in Replies
           /\ l.at = "detaching" => l.next \in Loops /\ l.next.at # "detaching"
  BY DEF Loops, Phases, LoopPcs

(* The records the actions make are records of event loops. *)
LEMMA LoopsMade ==
    /\ \A m \in Modes : /\ [at |-> "check", mode |-> m] \in Phases
                        /\ [at |-> "select", mode |-> m] \in Phases
    /\ \A r \in Responses : /\ [at |-> "push", resp |-> r] \in Phases
                            /\ [at |-> "failed", resp |-> r] \in Phases
                            /\ [at |-> "report", resp |-> r] \in Phases
    /\ \A m \in Modes, r \in Responses : Respond(m, r) \in Phases
    /\ \A r \in Responses, p \in Replies : [at |-> "apply", resp |-> r, reply |-> p] \in Phases
    /\ [at |-> "exited"] \in Phases /\ [at |-> "panicked"] \in Phases
    /\ \A n \in Phases : [at |-> "detaching", next |-> n] \in Loops
    /\ Phases \subseteq Loops
  BY DEF Loops, Phases, Respond, Responses

-----------------------------------------------------------------------------
(* Operators. *)

(* What a sequence is after one of its elements was replaced. *)
LEMMA Update ==
    ASSUME NEW S, NEW s \in Seq(S), NEW i \in DOMAIN s, NEW x \in S
    PROVE  /\ [s EXCEPT ![i] = x] \in Seq(S)
           /\ Len([s EXCEPT ![i] = x]) = Len(s)
           /\ DOMAIN [s EXCEPT ![i] = x] = DOMAIN s
           /\ [s EXCEPT ![i] = x][i] = x
           /\ \A j \in DOMAIN s : j # i => [s EXCEPT ![i] = x][j] = s[j]
  OBVIOUS

(* What a sequence is after an element was appended. *)
LEMMA Extend ==
    ASSUME NEW S, NEW s \in Seq(S), NEW x \in S
    PROVE  /\ Append(s, x) \in Seq(S)
           /\ Len(Append(s, x)) = Len(s) + 1
           /\ DOMAIN Append(s, x) = DOMAIN s \cup {Len(s) + 1}
           /\ Append(s, x)[Len(s) + 1] = x
           /\ \A j \in DOMAIN s : j # Len(s) + 1 /\ Append(s, x)[j] = s[j]
  OBVIOUS

(* A dispatched task is for the handlers of this moment; a state change     *)
(* dispatches at most that task.                                            *)
LEMMA Dispatched ==
    ASSUME NEW i, NEW e
    PROVE  /\ \A t \in Dispatch(i, e) : t = [inst |-> i, event |-> e, handlers |-> HandlersOf(i)]
           /\ Told(i, e) \subseteq Dispatch(i, e)
  BY DEF Dispatch, Told

(* NullConnectivity::push_pull answers with a response. *)
LEMMA RepliesMade ==
    ASSUME NEW st \in States, NEW c \in Nat, NEW t \in BOOLEAN, NEW ro \in BOOLEAN
    PROVE  NullResponse(st, c, t, ro) \in Replies
  BY DEF NullResponse, Replies, States

(* Every assignment to fields of a datatype that the actions make gives a   *)
(* datatype.                                                                *)
LEMMA DatatypesMade ==
    ASSUME NEW m \in Datatypes, NEW st \in States
    PROVE  /\ [m EXCEPT !.state = st] \in Datatypes
           /\ \A c \in Nat : [m EXCEPT !.state = st, !.cp = c] \in Datatypes
           /\ \A q \in Nat, p \in Points : [m EXCEPT !.seq = q, !.pending = <<p>>] \in Datatypes
           /\ \A q \in Nat : [m EXCEPT !.pending = <<>>, !.last = q] \in Datatypes
           /\ \A q \in Nat : [m EXCEPT !.state = st, !.seq = q, !.pending = <<>>] \in Datatypes
           /\ [m EXCEPT !.state = st, !.last = 0, !.pending = <<>>] \in Datatypes
           /\ \A hs \in [Priorities -> Nat] : [m EXCEPT !.handlers = hs] \in Datatypes
  <1> DEFINE Pend == Seq(Points)
             Hand == [Priorities -> Nat]
  <1>1. <<>> \in Pend /\ \A p \in Points : <<p>> \in Pend
    OBVIOUS
  <1>2. Datatypes = [key : Keys, state : States, readonly : BOOLEAN, seq : Nat, last : Nat,
                     cp : Nat, pending : Pend, handlers : Hand]
    BY DEF Datatypes
  <1> HIDE DEF Pend, Hand
  <1>3. [m EXCEPT !.state = st] \in Datatypes
    BY <1>2
  <1>4. ASSUME NEW c \in Nat PROVE [m EXCEPT !.state = st, !.cp = c] \in Datatypes
    BY <1>2
  <1>5. ASSUME NEW q \in Nat, NEW p \in Points PROVE [m EXCEPT !.seq = q, !.pending = <<p>>] \in Datatypes
    BY <1>1, <1>2
  <1>6. ASSUME NEW q \in Nat PROVE [m EXCEPT !.pending = <<>>, !.last = q] \in Datatypes
    BY <1>1, <1>2
  <1>7. ASSUME NEW q \in Nat PROVE [m EXCEPT !.state = st, !.seq = q, !.pending = <<>>] \in Datatypes
    BY <1>1, <1>2
  <1>8. [m EXCEPT !.state = st, !.last = 0, !.pending = <<>>] \in Datatypes
    BY <1>1, <1>2
  <1>9. ASSUME NEW hs \in Hand PROVE [m EXCEPT !.handlers = hs] \in Datatypes
    BY <1>2
  <1> QED
    BY <1>3, <1>4, <1>5, <1>6, <1>7, <1>8, <1>9 DEF Hand

(* The fields of a datatype and of its rollback point. *)
LEMMA DatatypeFields ==
    ASSUME NEW m \in Datatypes
    PROVE  /\ m.key \in Keys /\ m.state \in States /\ m.readonly \in BOOLEAN
           /\ m.seq \in Nat /\ m.last \in Nat /\ m.cp \in Nat
           /\ m.pending \in Seq(Points) /\ m.handlers \in [Priorities -> Nat]
           /\ m.pending # <<>> => m.pending[1].state \in States /\ m.pending[1].seq \in Nat
  <1>1. /\ m.key \in Keys /\ m.state \in States /\ m.readonly \in BOOLEAN
        /\ m.seq \in Nat /\ m.last \in Nat /\ m.cp \in Nat
        /\ m.pending \in Seq(Points) /\ m.handlers \in [Priorities -> Nat]
    BY DEF Datatypes
  <1>2. m.pending # <<>> => m.pending[1] \in Points
    BY <1>1
  <1> QED
    BY <1>1, <1>2 DEF Points

(* A pulled, rolled back or disabled datatype is a datatype. *)
LEMMA PulledMade ==
    ASSUME NEW m \in Datatypes, NEW r \in Replies
    PROVE  Pulled(m, r) \in Datatypes /\ RolledBack(m) \in Datatypes /\ Disable(m) \in Datatypes
  <1>1. r.state \in States /\ r.cseq \in Nat
    BY DEF Replies
  <1>2. "Disabled" \in States
    BY DEF States
  <1>3. Pulled(m, r) \in Datatypes
    BY <1>1, <1>2, DatatypesMade, DatatypeFields DEF Pulled
  <1>4. RolledBack(m) \in Datatypes
    BY <1>1, <1>2, DatatypesMade, DatatypeFields DEF RolledBack
  <1>5. Disable(m) \in Datatypes
    BY <1>1, <1>2, DatatypesMade, DatatypeFields DEF Disable
  <1> QED
    BY <1>3, <1>4, <1>5

-----------------------------------------------------------------------------
(* What each action does. *)

(* A new client has the types. *)
LEMMA InitShape == Init => Shape
  <1> SUFFICES ASSUME Init PROVE Shape
    OBVIOUS
  <1>1. \A S : <<>> \in Seq(S) /\ Len(<<>>) = 0
    OBVIOUS
  <1>2. manager \in [Keys -> Nat] /\ \A k \in Keys : manager[k] = NoInst
    BY DEF Init, NoDatatypes, NoInst
  <1>3. pc \in [Users -> Calls]
    BY DEF Init, Calls
  <1> QED
    BY <1>1, <1>2, <1>3 DEF Init, Shape

(* Every datatype has its channels, its event loop and its set of holders. *)
LEMMA Domains ==
    ASSUME Shape
    PROVE  DOMAIN chan = DOMAIN dt /\ DOMAIN loop = DOMAIN dt /\ DOMAIN handles = DOMAIN dt
  BY DEF Shape

(* A call in progress is one on a datatype that was built. *)
LEMMA CallOf ==
    ASSUME Shape, NEW u \in Users
    PROVE  pc[u] = Idle \/ (pc[u].at \in UserPcs /\ pc[u].inst \in DOMAIN dt)
  BY DEF Shape, Calls

(* What a step of one user thread makes of pc. *)
LEMMA GoesTo ==
    ASSUME Shape, NEW u \in Users, NEW p, Goto(u, p),
           p = Idle \/ \E a \in UserPcs, i \in DOMAIN dt : p = [at |-> a, inst |-> i]
    PROVE  /\ pc' \in [Users -> Calls]
           /\ pc'[u] = p /\ \A v \in Users : v # u => pc'[v] = pc[v]
  <1>1. p \in Calls
    BY DEF Calls
  <1> QED
    BY <1>1 DEF Shape, Goto

(* What the replacement of one datatype makes of dt: no key changes. *)
LEMMA DtChange ==
    ASSUME Shape, NEW i \in DOMAIN dt, NEW m \in Datatypes, m.key = dt[i].key,
           dt' = [dt EXCEPT ![i] = m]
    PROVE  /\ dt' \in Seq(Datatypes) /\ Len(dt') = Len(dt) /\ DOMAIN dt' = DOMAIN dt
           /\ dt'[i] = m /\ \A j \in DOMAIN dt : j # i => dt'[j] = dt[j]
           /\ \A j \in DOMAIN dt : dt'[j].key = dt[j].key
  BY Update DEF Shape

(* What a step of one event loop makes of loop. *)
LEMMA LoopChange ==
    ASSUME Shape, NEW i \in DOMAIN dt, NEW l \in Loops, loop' = [loop EXCEPT ![i] = l]
    PROVE  /\ loop' \in Seq(Loops) /\ Len(loop') = Len(loop)
           /\ loop'[i] = l /\ \A j \in DOMAIN dt : j # i => loop'[j] = loop[j]
  BY Update, Domains DEF Shape

(* What a send or a receipt makes of chan. *)
LEMMA ChanChange ==
    ASSUME Shape, NEW i \in DOMAIN dt, NEW c \in Channels, chan' = [chan EXCEPT ![i] = c]
    PROVE  /\ chan' \in Seq(Channels) /\ Len(chan') = Len(chan)
           /\ chan'[i] = c /\ \A j \in DOMAIN dt : j # i => chan'[j] = chan[j]
  BY Update, Domains DEF Shape

(* What a new or a dropped handle makes of handles. *)
LEMMA HandlesChange ==
    ASSUME Shape, NEW i \in DOMAIN dt, NEW us \in SUBSET Users, handles' = [handles EXCEPT ![i] = us]
    PROVE  /\ handles' \in Seq(SUBSET Users) /\ Len(handles') = Len(handles)
           /\ handles'[i] = us /\ \A j \in DOMAIN dt : j # i => handles'[j] = handles[j]
  BY Update, Domains DEF Shape

(* The steps that only move a user thread keep the types. *)
LEMMA CallShape ==
    ASSUME Shape, NEW u \in Users,
           \/ \E k \in Keys : BuildOccupied(u, k)
           \/ \E i \in DOMAIN dt :
                CheckSubscribed(u, i) \/ CheckDisabled(u, i) \/ CheckWritable(u, i)
           \/ ReadExisting(u)
    PROVE  Shape'
  <1>1. /\ UNCHANGED <<dt, chan, loop, handles, tasks, handlers, returned>>
        /\ UNCHANGED <<scenario, client, manager>>
    BY DEF BuildOccupied, CheckSubscribed, CheckDisabled, CheckWritable, ReadExisting,
           registryVars, handlerVars, countVars
  <1>2. CASE \E k \in Keys : BuildOccupied(u, k)
    <2>1. PICK k \in Keys : BuildOccupied(u, k)
      BY <1>2
    <2>2. pc' \in [Users -> Calls]
      BY <2>1, GoesTo DEF BuildOccupied, UserPcs, Shape
    <2> QED
      BY <1>1, <2>2 DEF Shape, Calls
  <1>3. CASE \E i \in DOMAIN dt : CheckSubscribed(u, i) \/ CheckDisabled(u, i) \/ CheckWritable(u, i)
    <2>1. pc' \in [Users -> Calls]
      BY <1>3, GoesTo DEF CheckSubscribed, CheckDisabled, CheckWritable, UserPcs
    <2> QED
      BY <1>1, <2>1 DEF Shape, Calls
  <1>4. CASE ReadExisting(u)
    <2>1. pc' \in [Users -> Calls]
      BY <1>4, GoesTo DEF ReadExisting
    <2> QED
      BY <1>1, <2>1 DEF Shape, Calls
  <1> QED
    BY <1>2, <1>3, <1>4

(* Building a free key adds one datatype, in no way Disabled, with an empty *)
(* channel, a running loop and at most one, new, handler; the others stay   *)
(* as they are.                                                             *)
LEMMA BuildVacantEffect ==
    ASSUME Shape, NEW u \in Users, NEW k \in Keys, NEW as \in scenario.as, BuildVacant(u, k, as)
    PROVE  /\ Shape'
           /\ DOMAIN dt' = DOMAIN dt \cup {Len(dt) + 1} /\ Len(dt) + 1 \notin DOMAIN dt
           /\ \A j \in DOMAIN dt : /\ dt'[j] = dt[j] /\ chan'[j] = chan[j]
                                   /\ loop'[j] = loop[j] /\ handles'[j] = handles[j]
           /\ LET i == Len(dt) + 1
              IN  /\ dt'[i].state # "Disabled" /\ dt'[i].seq = 0
                  /\ dt'[i].last = 0 /\ dt'[i].cp = 0 /\ dt'[i].pending = <<>>
                  /\ loop'[i] = [at |-> "check", mode |-> "Normal"]
                  /\ chan'[i].unbounded = <<>>
                  /\ \/ dt'[i].handlers = NoHandlers /\ handlers' = handlers
                     \/ \E p \in Priorities :
                           /\ dt'[i].handlers = [NoHandlers EXCEPT ![p] = handlers + 1]
                           /\ handlers' = handlers + 1
  <1> DEFINE i == Len(dt) + 1
  <1>1. PICK hs \in {NoHandlers} \cup WithHandler :
           /\ dt' = Append(dt, NewDatatype(k, as, hs))
           /\ handlers' = IF hs = NoHandlers THEN handlers ELSE handlers + 1
    BY DEF BuildVacant
  <1>2. /\ as[1] \in {"Creating", "Subscribing", "SubscribingOrCreating"} /\ as[2] \in BOOLEAN
    BY ClientAssumption DEF Shape, ScenarioType
  <1>3. NoHandlers \in [Priorities -> Nat] /\ handlers \in Nat
    BY DEF NoHandlers, NoHandler, Shape
  <1>4. /\ hs \in [Priorities -> Nat]
        /\ \/ hs = NoHandlers /\ handlers' = handlers
           \/ \E p \in Priorities : /\ hs = [NoHandlers EXCEPT ![p] = handlers + 1]
                                    /\ handlers' = handlers + 1
    <2>1. CASE hs = NoHandlers
      BY <1>1, <1>3, <2>1
    <2>2. CASE hs \in WithHandler
      <3>1. PICK p \in Priorities : hs = [NoHandlers EXCEPT ![p] = handlers + 1]
        BY <2>2 DEF WithHandler
      <3>2. hs[p] = handlers + 1 /\ NoHandlers[p] = 0
        BY <3>1, <1>3 DEF NoHandlers, NoHandler
      <3>3. hs # NoHandlers
        BY <3>2, <1>3
      <3>4. hs \in [Priorities -> Nat]
        BY <1>3, <3>1
      <3> QED
        BY <1>1, <3>1, <3>3, <3>4
    <2> QED
      BY <2>1, <2>2
  <1> DEFINE d == NewDatatype(k, as, hs)
  <1>5. d \in Datatypes
    <2> DEFINE Pend == Seq(Points)
               Hand == [Priorities -> Nat]
    <2>1. <<>> \in Pend /\ hs \in Hand
      BY <1>4
    <2>2. Datatypes = [key : Keys, state : States, readonly : BOOLEAN, seq : Nat, last : Nat,
                       cp : Nat, pending : Pend, handlers : Hand]
      BY DEF Datatypes
    <2> HIDE DEF Pend, Hand
    <2> QED
      BY <1>2, <2>1, <2>2 DEF NewDatatype, States
  <1>6. /\ d.state # "Disabled" /\ d.seq = 0 /\ d.last = 0 /\ d.cp = 0 /\ d.pending = <<>>
        /\ d.handlers = hs /\ d.key = k
    BY <1>2 DEF NewDatatype
  <1>a. dt' = Append(dt, d)
    BY <1>1
  <1> HIDE DEF d
  <1>7. /\ dt' \in Seq(Datatypes) /\ Len(dt') = i /\ DOMAIN dt' = DOMAIN dt \cup {i}
        /\ dt'[i] = d /\ \A j \in DOMAIN dt : j # i /\ dt'[j] = dt[j]
    BY <1>5, <1>a, Extend DEF Shape
  <1>8. /\ chan' \in Seq(Channels) /\ Len(chan') = i /\ chan'[i].unbounded = <<>>
        /\ \A j \in DOMAIN dt : chan'[j] = chan[j]
    <2>1. [bounded |-> FALSE, unbounded |-> <<>>] \in Channels
      BY DEF Channels
    <2> QED
      BY <2>1, Extend, Domains DEF Shape, BuildVacant
  <1>9. /\ loop' \in Seq(Loops) /\ Len(loop') = i /\ loop'[i] = [at |-> "check", mode |-> "Normal"]
        /\ \A j \in DOMAIN dt : loop'[j] = loop[j]
    <2>1. [at |-> "check", mode |-> "Normal"] \in Loops
      BY LoopsMade DEF Modes
    <2> QED
      BY <2>1, Extend, Domains DEF Shape, BuildVacant
  <1>10. /\ handles' \in Seq(SUBSET Users) /\ Len(handles') = i
         /\ \A j \in DOMAIN dt : handles'[j] = handles[j]
    <2>1. {u} \in SUBSET Users
      OBVIOUS
    <2> QED
      BY <2>1, Extend, Domains DEF Shape, BuildVacant
  <1>11. manager' \in [Keys -> Nat] /\ \A q \in Keys : manager'[q] = IF q = k THEN i ELSE manager[q]
    BY DEF BuildVacant, Shape
  <1>12. \A q \in Keys : manager'[q] # NoInst => manager'[q] \in DOMAIN dt' /\ dt'[manager'[q]].key = q
    BY <1>6, <1>7, <1>11 DEF Shape
  <1>13. pc' \in [Users -> Calls']
    BY <1>7 DEF BuildVacant, Shape, Calls
  <1>14. handlers' \in Nat
    BY <1>3, <1>4
  <1>15. Shape'
    BY <1>7, <1>8, <1>9, <1>10, <1>11, <1>12, <1>13, <1>14 DEF BuildVacant, Shape
  <1> QED
    BY <1>4, <1>6, <1>7, <1>8, <1>9, <1>10, <1>15

(* Lookups and drops of handles concern the caller's handles only. *)
LEMMA HandlesEffect ==
    ASSUME Shape, NEW u \in Users,
           \/ \E k \in Keys : GetDatatype(u, k)
           \/ \E i \in DOMAIN dt : DropHandle(u, i)
    PROVE  Shape' /\ \A j \in DOMAIN dt, v \in Users : v # u => (v \in handles'[j] <=> v \in handles[j])
  <1>1. UNCHANGED <<scenario, client, manager, dt, chan, loop, pc, tasks, handlers, returned>>
    BY DEF GetDatatype, DropHandle, registryVars, handlerVars
  <1>2. PICK i \in DOMAIN dt : \E us \in SUBSET Users :
           handles' = [handles EXCEPT ![i] = us] /\ (us = handles[i] \cup {u} \/ us = handles[i] \ {u})
    <2>1. CASE \E k \in Keys : GetDatatype(u, k)
      <3>1. PICK k \in Keys : GetDatatype(u, k)
        BY <2>1
      <3>2. manager[k] \in DOMAIN dt /\ handles[manager[k]] \cup {u} \in SUBSET Users
        BY <3>1, Domains DEF GetDatatype, Shape
      <3> QED
        BY <3>1, <3>2 DEF GetDatatype
    <2>2. CASE \E i \in DOMAIN dt : DropHandle(u, i)
      <3>1. PICK i \in DOMAIN dt : DropHandle(u, i)
        BY <2>2
      <3>2. handles[i] \ {u} \in SUBSET Users
        BY Domains DEF Shape
      <3> QED
        BY <3>1, <3>2 DEF DropHandle
    <2> QED
      BY <2>1, <2>2
  <1>3. /\ handles' \in Seq(SUBSET Users) /\ Len(handles') = Len(handles)
        /\ handles'[i] = handles[i] \cup {u} \/ handles'[i] = handles[i] \ {u}
        /\ \A j \in DOMAIN dt : j # i => handles'[j] = handles[j]
    BY <1>2, HandlesChange
  <1> QED
    BY <1>1, <1>3 DEF Shape, Calls

(* The drop of the client keeps the types. *)
LEMMA DropClientEffect ==
    ASSUME Shape, DropClient
    PROVE  Shape'
  BY DEF DropClient, Shape, Calls, handlerVars

(* The drop of a datatype appends Stop to its unbounded channel. *)
LEMMA DropDatatypeEffect ==
    ASSUME Shape, NEW i \in DOMAIN dt, DropDatatype(i)
    PROVE  /\ Shape'
           /\ chan'[i].unbounded = Append(chan[i].unbounded, Stop)
           /\ \A j \in DOMAIN dt : j # i => chan'[j] = chan[j]
  <1> DEFINE c == [chan[i] EXCEPT !.unbounded = Append(@, Stop)]
  <1>1. chan[i] \in Channels
    BY Domains DEF Shape
  <1>2. c \in Channels /\ c.unbounded = Append(chan[i].unbounded, Stop)
    BY <1>1 DEF Channels, Events
  <1>3. chan' = [chan EXCEPT ![i] = c]
    BY <1>1 DEF DropDatatype
  <1> HIDE DEF c
  <1>4. /\ chan' \in Seq(Channels) /\ Len(chan') = Len(chan)
        /\ chan'[i] = c /\ \A j \in DOMAIN dt : j # i => chan'[j] = chan[j]
    BY <1>2, <1>3, ChanChange
  <1> QED
    BY <1>2, <1>4 DEF DropDatatype, Shape, Calls, registryVars, handlerVars

(* The best-effort event leaves the unbounded channels alone. *)
LEMMA SendBestEffortEffect ==
    ASSUME Shape, NEW u \in Users, SendBestEffort(u)
    PROVE  /\ Shape'
           /\ \A j \in DOMAIN dt : chan'[j].unbounded = chan[j].unbounded
  <1> DEFINE i == pc[u].inst
             c == [chan[i] EXCEPT !.bounded = TRUE]
  <1>1. i \in DOMAIN dt /\ chan[i] \in Channels
    BY CallOf, Domains DEF Shape, SendBestEffort, Idle
  <1>2. c \in Channels /\ c.unbounded = chan[i].unbounded
    BY <1>1 DEF Channels
  <1>3. chan' = [chan EXCEPT ![i] = c]
    BY <1>1 DEF SendBestEffort
  <1> HIDE DEF c
  <1>4. /\ chan' \in Seq(Channels) /\ Len(chan') = Len(chan)
        /\ chan'[i] = c /\ \A j \in DOMAIN dt : j # i => chan'[j] = chan[j]
    BY <1>1, <1>2, <1>3, ChanChange
  <1>5. pc' \in [Users -> Calls]
    BY GoesTo DEF SendBestEffort
  <1> QED
    BY <1>2, <1>4, <1>5 DEF SendBestEffort, Shape, Calls, registryVars, handlerVars

(* sync() appends the caller's event to the unbounded channel of its        *)
(* datatype.                                                                *)
LEMMA SendSyncEffect ==
    ASSUME Shape, NEW u \in Users, SendSync(u)
    PROVE  LET i == pc[u].inst
           IN  /\ Shape' /\ i \in DOMAIN dt
               /\ chan'[i].unbounded = Append(chan[i].unbounded, [kind |-> "Push", resp |-> u])
               /\ \A j \in DOMAIN dt : j # i => chan'[j] = chan[j]
  <1> DEFINE i == pc[u].inst
             c == [chan[i] EXCEPT !.unbounded = Append(@, [kind |-> "Push", resp |-> u])]
  <1>1. i \in DOMAIN dt /\ chan[i] \in Channels
    BY CallOf, Domains DEF Shape, SendSync, Idle
  <1>2. c \in Channels /\ c.unbounded = Append(chan[i].unbounded, [kind |-> "Push", resp |-> u])
    <2>1. [kind |-> "Push", resp |-> u] \in Events
      BY DEF Events
    <2> DEFINE e == [kind |-> "Push", resp |-> u]
    <2> HIDE DEF e
    <2>2. Append(chan[i].unbounded, e) \in Seq(Events)
      BY <1>1, <2>1 DEF Channels, e
    <2> QED BY <1>1, <2>2 DEF Channels, e
  <1>3. chan' = [chan EXCEPT ![i] = c]
    BY <1>1 DEF SendSync
  <1> HIDE DEF c
  <1>4. /\ chan' \in Seq(Channels) /\ Len(chan') = Len(chan)
        /\ chan'[i] = c /\ \A j \in DOMAIN dt : j # i => chan'[j] = chan[j]
    BY <1>1, <1>2, <1>3, ChanChange
  <1>5. pc' \in [Users -> Calls]
    BY <1>1, GoesTo DEF SendSync, UserPcs
  <1> QED
    BY <1>1, <1>2, <1>4, <1>5 DEF SendSync, Shape, Calls, registryVars, handlerVars

(* unsubscribe changes the state of one datatype. *)
LEMMA SetUnsubscribingEffect ==
    ASSUME Shape, NEW u \in Users, SetUnsubscribing(u)
    PROVE  LET i == pc[u].inst
           IN  /\ Shape' /\ i \in DOMAIN dt /\ DOMAIN dt' = DOMAIN dt
               /\ dt'[i] = [dt[i] EXCEPT !.state = "Unsubscribing"]
               /\ \A j \in DOMAIN dt : j # i => dt'[j] = dt[j]
  <1> DEFINE i == pc[u].inst
             m == [dt[i] EXCEPT !.state = "Unsubscribing"]
  <1>1. i \in DOMAIN dt /\ dt[i] \in Datatypes
    BY CallOf DEF Shape, SetUnsubscribing, Idle
  <1>2. m \in Datatypes /\ m.key = dt[i].key
    <2>1. "Unsubscribing" \in States
      BY DEF States
    <2> QED BY <1>1, <2>1, DatatypesMade DEF Datatypes
  <1>3. dt' = [dt EXCEPT ![i] = m]
    BY <1>1 DEF SetUnsubscribing
  <1>4. /\ dt' \in Seq(Datatypes) /\ Len(dt') = Len(dt) /\ DOMAIN dt' = DOMAIN dt
        /\ dt'[i] = m /\ \A j \in DOMAIN dt : j # i => dt'[j] = dt[j]
        /\ \A j \in DOMAIN dt : dt'[j].key = dt[j].key
    <2> HIDE DEF m
    <2> QED BY <1>1, <1>2, <1>3, DtChange
  <1>5. pc' \in [Users -> Calls]
    BY <1>1, GoesTo DEF SetUnsubscribing, UserPcs
  <1>6. \A t \in tasks' : t.inst \in DOMAIN dt
    BY <1>1, Dispatched DEF SetUnsubscribing, Shape
  <1>7. Shape'
    BY <1>4, <1>5, <1>6 DEF SetUnsubscribing, Shape, Calls, registryVars, handlerVars
  <1> QED
    BY <1>1, <1>4, <1>7

(* An operation raises the cseq of one datatype and saves its rollback      *)
(* point.                                                                   *)
LEMMA ExecuteOpEffect ==
    ASSUME Shape, NEW u \in Users, ExecuteOp(u)
    PROVE  LET i == pc[u].inst
           IN  /\ Shape' /\ i \in DOMAIN dt /\ DOMAIN dt' = DOMAIN dt
               /\ dt'[i] = [dt[i] EXCEPT !.seq = @ + 1,
                                         !.pending = <<[state |-> dt[i].state, seq |-> dt[i].seq]>>]
               /\ \A j \in DOMAIN dt : j # i => dt'[j] = dt[j]
  <1> DEFINE i == pc[u].inst
             p == [state |-> dt[i].state, seq |-> dt[i].seq]
             m == [dt[i] EXCEPT !.seq = @ + 1, !.pending = <<p>>]
  <1>1. i \in DOMAIN dt /\ dt[i] \in Datatypes
    BY CallOf DEF Shape, ExecuteOp, Idle
  <1>2. m \in Datatypes /\ m.key = dt[i].key
    <2>1. p \in Points /\ dt[i].seq + 1 \in Nat /\ dt[i].state \in States
      BY <1>1, DatatypeFields DEF Points
    <2> HIDE DEF p
    <2> QED BY <1>1, <2>1, DatatypesMade DEF Datatypes
  <1>3. dt' = [dt EXCEPT ![i] = m]
    BY <1>1 DEF ExecuteOp
  <1>4. /\ dt' \in Seq(Datatypes) /\ Len(dt') = Len(dt) /\ DOMAIN dt' = DOMAIN dt
        /\ dt'[i] = m /\ \A j \in DOMAIN dt : j # i => dt'[j] = dt[j]
        /\ \A j \in DOMAIN dt : dt'[j].key = dt[j].key
    <2> HIDE DEF m
    <2> QED BY <1>1, <1>2, <1>3, DtChange
  <1>5. pc' \in [Users -> Calls]
    BY <1>1, GoesTo DEF ExecuteOp, UserPcs
  <1>6. UNCHANGED <<scenario, client, manager, chan, loop, handles, tasks, handlers>>
    BY DEF ExecuteOp, registryVars, handlerVars
  <1>7. Shape'
    BY <1>4, <1>5, <1>6 DEF Shape, Calls
  <1> QED
    BY <1>1, <1>4, <1>7

(* A commit closes the transaction of one datatype. *)
LEMMA CommitEffect ==
    ASSUME Shape, NEW u \in Users, Commit(u)
    PROVE  LET i == pc[u].inst
           IN  /\ Shape' /\ i \in DOMAIN dt /\ DOMAIN dt' = DOMAIN dt
               /\ \E q \in {dt[i].last, dt[i].seq} :
                     dt'[i] = [dt[i] EXCEPT !.pending = <<>>, !.last = q]
               /\ \A j \in DOMAIN dt : j # i => dt'[j] = dt[j]
               /\ \A j \in DOMAIN dt : chan'[j].unbounded = chan[j].unbounded
  <1> DEFINE i == pc[u].inst
             q == IF dt[i].pending = <<>> THEN dt[i].last ELSE dt[i].seq
             m == [dt[i] EXCEPT !.pending = <<>>, !.last = q]
             c == [chan[i] EXCEPT !.bounded = TRUE]
  <1>1. i \in DOMAIN dt /\ dt[i] \in Datatypes /\ chan[i] \in Channels
    BY CallOf, Domains DEF Shape, Commit, Idle
  <1>2. m \in Datatypes /\ m.key = dt[i].key
    <2>1. q \in Nat /\ dt[i].state \in States
      BY <1>1, DatatypeFields
    <2> HIDE DEF q
    <2> QED BY <1>1, <2>1, DatatypesMade DEF Datatypes
  <1>3. dt' = [dt EXCEPT ![i] = m]
    BY <1>1 DEF Commit
  <1>4. /\ dt' \in Seq(Datatypes) /\ Len(dt') = Len(dt) /\ DOMAIN dt' = DOMAIN dt
        /\ dt'[i] = m /\ \A j \in DOMAIN dt : j # i => dt'[j] = dt[j]
        /\ \A j \in DOMAIN dt : dt'[j].key = dt[j].key
    <2> HIDE DEF m
    <2> QED BY <1>1, <1>2, <1>3, DtChange
  <1>5. pc' \in [Users -> Calls]
    BY GoesTo DEF Commit
  <1>6. c \in Channels /\ c.unbounded = chan[i].unbounded
    BY <1>1 DEF Channels
  <1>7. chan' = [chan EXCEPT ![i] = c]
    BY <1>1 DEF Commit
  <1>8. /\ chan' \in Seq(Channels) /\ Len(chan') = Len(chan)
        /\ chan'[i] = c /\ \A j \in DOMAIN dt : j # i => chan'[j] = chan[j]
    <2> HIDE DEF c
    <2> QED BY <1>1, <1>6, <1>7, ChanChange
  <1>9. Shape'
    <2>1. UNCHANGED <<scenario, client, manager, loop, handles, tasks, handlers>>
      BY DEF Commit, registryVars, handlerVars
    <2> HIDE DEF m, c
    <2> QED
      BY <1>4, <1>5, <1>8, <2>1 DEF Shape, Calls
  <1>10. q \in {dt[i].last, dt[i].seq}
    OBVIOUS
  <1> QED
    BY <1>1, <1>4, <1>6, <1>8, <1>9, <1>10

(* A rollback restores one datatype. *)
LEMMA RollbackEffect ==
    ASSUME Shape, NEW u \in Users, NEW refused \in BOOLEAN, Rollback(u, refused)
    PROVE  LET i == pc[u].inst
           IN  /\ Shape' /\ i \in DOMAIN dt /\ DOMAIN dt' = DOMAIN dt
               /\ dt'[i] = RolledBack(dt[i])
               /\ \A j \in DOMAIN dt : j # i => dt'[j] = dt[j]
  <1> DEFINE i == pc[u].inst
             m == RolledBack(dt[i])
  <1>1. i \in DOMAIN dt /\ dt[i] \in Datatypes
    BY CallOf DEF Shape, Rollback, Idle
  <1>2. m \in Datatypes /\ m.key = dt[i].key
    <2>1. [state |-> "Disabled", cseq |-> 0, error |-> TRUE] \in Replies
      BY DEF Replies, States
    <2>2. m \in Datatypes
      BY <1>1, <2>1, PulledMade
    <2>3. m.key = dt[i].key
      BY <1>1 DEF RolledBack, Datatypes
    <2> QED BY <2>2, <2>3
  <1>3. dt' = [dt EXCEPT ![i] = m]
    BY <1>1 DEF Rollback
  <1>4. /\ dt' \in Seq(Datatypes) /\ Len(dt') = Len(dt) /\ DOMAIN dt' = DOMAIN dt
        /\ dt'[i] = m /\ \A j \in DOMAIN dt : j # i => dt'[j] = dt[j]
        /\ \A j \in DOMAIN dt : dt'[j].key = dt[j].key
    <2> HIDE DEF m
    <2> QED BY <1>1, <1>2, <1>3, DtChange
  <1>5. pc' \in [Users -> Calls]
    BY <1>1, GoesTo DEF Rollback, AfterRollback, UserPcs
  <1>6. \A t \in tasks' : t.inst \in DOMAIN dt
    BY <1>1, Dispatched DEF Rollback, Shape
  <1>7. Shape'
    BY <1>4, <1>5, <1>6 DEF Rollback, Shape, Calls, registryVars
  <1> QED
    BY <1>1, <1>4, <1>7

(* The report of a refused commit keeps the types. *)
LEMMA ReportRefusalEffect ==
    ASSUME Shape, NEW u \in Users, ReportRefusal(u)
    PROVE  Shape' /\ pc[u].inst \in DOMAIN dt
  <1>1. pc[u].inst \in DOMAIN dt
    BY CallOf DEF ReportRefusal, Idle
  <1>2. \A t \in tasks' : t.inst \in DOMAIN dt
    BY <1>1, Dispatched DEF ReportRefusal, Shape
  <1>3. pc' \in [Users -> Calls]
    BY GoesTo DEF ReportRefusal
  <1> QED
    BY <1>1, <1>2, <1>3 DEF ReportRefusal, Shape, Calls, registryVars

(* set_handler and unset_handler change one handler of one datatype. *)
LEMMA HandlerEffect ==
    ASSUME Shape, NEW u \in Users, NEW i \in DOMAIN dt, NEW p \in Priorities,
           SetHandler(u, i, p) \/ UnsetHandler(u, i, p)
    PROVE  LET h == IF SetHandler(u, i, p) THEN handlers + 1 ELSE NoHandler
           IN  /\ Shape' /\ DOMAIN dt' = DOMAIN dt
               /\ dt'[i] = [dt[i] EXCEPT !.handlers = [dt[i].handlers EXCEPT ![p] = h]]
               /\ dt'[i].state = dt[i].state /\ dt'[i].pending = dt[i].pending
               /\ dt'[i].seq = dt[i].seq /\ dt'[i].last = dt[i].last /\ dt'[i].cp = dt[i].cp
               /\ \A j \in DOMAIN dt : j # i => dt'[j] = dt[j]
  <1> DEFINE h == IF SetHandler(u, i, p) THEN handlers + 1 ELSE NoHandler
             hs == [dt[i].handlers EXCEPT ![p] = h]
             m == [dt[i] EXCEPT !.handlers = hs]
  <1>1. dt[i] \in Datatypes /\ h \in Nat /\ handlers \in Nat
    BY DEF Shape, NoHandler
  <1>2. m \in Datatypes /\ m.key = dt[i].key
    <2> HIDE DEF h
    <2>1. hs \in [Priorities -> Nat] /\ dt[i].state \in States
      BY <1>1, DatatypeFields
    <2> HIDE DEF hs
    <2> QED
      BY <1>1, <2>1, DatatypesMade DEF Datatypes
  <1>3. dt' = [dt EXCEPT ![i] = m]
    BY <1>1 DEF SetHandler, UnsetHandler
  <1>4. /\ dt' \in Seq(Datatypes) /\ Len(dt') = Len(dt) /\ DOMAIN dt' = DOMAIN dt
        /\ dt'[i] = m /\ \A j \in DOMAIN dt : j # i => dt'[j] = dt[j]
        /\ \A j \in DOMAIN dt : dt'[j].key = dt[j].key
    <2> HIDE DEF m
    <2> QED BY <1>1, <1>2, <1>3, DtChange
  <1>5. UNCHANGED <<scenario, client, manager, chan, loop, handles, pc, tasks>>
    BY DEF SetHandler, UnsetHandler, registryVars
  <1>6. handlers' \in Nat
    BY <1>1 DEF SetHandler, UnsetHandler
  <1>7. Shape'
    BY <1>4, <1>5, <1>6 DEF Shape, Calls
  <1>8. /\ m.state = dt[i].state /\ m.pending = dt[i].pending
        /\ m.seq = dt[i].seq /\ m.last = dt[i].last /\ m.cp = dt[i].cp
    <2> HIDE DEF hs
    <2> QED
      BY <1>1 DEF Datatypes
  <1> QED
    BY <1>4, <1>7, <1>8

(* Running a task keeps the types. *)
LEMMA RunTaskEffect ==
    ASSUME Shape, NEW t \in tasks, RunTask(t)
    PROVE  Shape'
  BY DEF RunTask, Shape, Calls, registryVars, handlerVars

(* Looking for work and receiving an event: the loop goes on, exits or      *)
(* pushes, and the unbounded channel loses at most its first event.         *)
LEMMA LoopWalkEffect ==
    ASSUME Shape, NEW i \in DOMAIN dt,
           LoopCheck(i) \/ SelectBounded(i) \/ SelectUnbounded(i)
    PROVE  /\ Shape'
           /\ loop'[i].at \notin {"detaching", "panicked", "apply"}
           /\ \A j \in DOMAIN dt : j # i => loop'[j] = loop[j] /\ chan'[j] = chan[j]
           /\ chan'[i].unbounded =
                 IF SelectUnbounded(i) THEN Tail(chan[i].unbounded) ELSE chan[i].unbounded
  <1>1. loop[i] \in Loops /\ chan[i] \in Channels
    BY Domains DEF Shape
  <1>2. UNCHANGED <<scenario, client, manager, dt, handles, pc, tasks, handlers, returned>>
    BY DEF LoopCheck, SelectBounded, SelectUnbounded, registryVars, handlerVars
  <1>3. Nobody \in Responses /\ "Stopped" \in Modes
    BY DEF Responses, Modes
  <1>4. PICK l \in Loops : loop' = [loop EXCEPT ![i] = l] /\ l.at \notin {"detaching", "panicked", "apply"}
    <2>1. CASE LoopCheck(i)
      <3>1. loop[i].mode \in Modes
        BY <1>1, <2>1, LoopFields DEF LoopCheck, LoopAt
      <3> QED
        BY <1>3, <2>1, <3>1, LoopsMade DEF LoopCheck
    <2>2. CASE SelectBounded(i)
      <3>1. Take(i, Nobody) \in Loops
        BY <1>3, LoopsMade DEF Take
      <3>2. Take(i, Nobody).at \notin {"detaching", "panicked", "apply"}
        BY DEF Take, Respond
      <3> QED
        BY <2>2, <3>1, <3>2 DEF SelectBounded
    <2>3. CASE SelectUnbounded(i)
      <3> DEFINE e == Head(chan[i].unbounded)
      <3>1. e \in Events
        BY <1>1, <2>3 DEF SelectUnbounded, Channels
      <3>2. CASE e = Stop
        BY <2>3, <3>2, LoopsMade DEF SelectUnbounded
      <3>3. CASE e # Stop
        <4>1. e.resp \in Responses
          BY <3>1, <3>3 DEF Events, Responses
        <4>2. Take(i, e.resp) \in Loops
          BY <1>3, <4>1, LoopsMade DEF Take
        <4>3. Take(i, e.resp).at \notin {"detaching", "panicked", "apply"}
          BY DEF Take, Respond
        <4> QED
          BY <2>3, <3>3, <4>2, <4>3 DEF SelectUnbounded
      <3> QED
        BY <3>2, <3>3
    <2> QED
      BY <2>1, <2>2, <2>3
  <1>5. /\ loop' \in Seq(Loops) /\ Len(loop') = Len(loop) /\ loop'[i] = l
        /\ \A j \in DOMAIN dt : j # i => loop'[j] = loop[j]
    BY <1>4, LoopChange
  <1>6. /\ chan' \in Seq(Channels) /\ Len(chan') = Len(chan)
        /\ \A j \in DOMAIN dt : j # i => chan'[j] = chan[j]
        /\ chan'[i].unbounded =
              IF SelectUnbounded(i) THEN Tail(chan[i].unbounded) ELSE chan[i].unbounded
    <2>1. CASE LoopCheck(i)
      BY <2>1 DEF LoopCheck, SelectUnbounded, LoopAt, Shape
    <2>2. CASE SelectBounded(i) /\ ~SelectUnbounded(i)
      <3> DEFINE c == [chan[i] EXCEPT !.bounded = FALSE]
      <3>1. c \in Channels /\ c.unbounded = chan[i].unbounded /\ chan' = [chan EXCEPT ![i] = c]
        BY <1>1, <2>2 DEF SelectBounded, Channels
      <3> HIDE DEF c
      <3> QED
        BY <2>2, <3>1, ChanChange
    <2>3. CASE SelectUnbounded(i)
      <3> DEFINE c == [chan[i] EXCEPT !.unbounded = Tail(@)]
      <3>1. Tail(chan[i].unbounded) \in Seq(Events)
        BY <1>1, <2>3 DEF SelectUnbounded, Channels
      <3>2. c \in Channels /\ c.unbounded = Tail(chan[i].unbounded) /\ chan' = [chan EXCEPT ![i] = c]
        BY <1>1, <2>3, <3>1 DEF SelectUnbounded, Channels
      <3> HIDE DEF c
      <3> QED
        BY <2>3, <3>2, ChanChange
    <2> QED
      BY <2>1, <2>2, <2>3
  <1> QED
    BY <1>2, <1>4, <1>5, <1>6 DEF Shape, Calls

(* An answer makes its caller idle and nobody else. *)
LEMMA AnsweredShape ==
    ASSUME Shape, NEW r \in Responses, pc' = Answered(r)
    PROVE  /\ pc' \in [Users -> Calls]
           /\ \A v \in Users : pc'[v] = IF v = r THEN Idle ELSE pc[v]
  BY ClientAssumption DEF Shape, Answered, Calls, Responses

(* A push panics for a Disabled datatype and otherwise leads to a response  *)
(* that names the last transaction's cseq, the checkpoint's, or none.       *)
LEMMA LoopPushEffect ==
    ASSUME Shape, NEW i \in DOMAIN dt, LoopPush(i)
    PROVE  /\ Shape' /\ loop[i].resp \in Responses
           /\ \/ /\ dt[i].state = "Disabled" /\ loop'[i] = [at |-> "panicked"]
                 /\ pc' = Answered(loop[i].resp)
              \/ /\ dt[i].state # "Disabled" /\ pc' = pc
                 /\ \E c \in {0, dt[i].last, dt[i].cp}, st \in States, e \in BOOLEAN :
                      loop'[i] = [at |-> "apply", resp |-> loop[i].resp,
                                  reply |-> [state |-> st, cseq |-> c, error |-> e]]
           /\ \A j \in DOMAIN dt : j # i => loop'[j] = loop[j]
  <1>1. loop[i] \in Loops /\ dt[i] \in Datatypes
    BY Domains DEF Shape
  <1>2. loop[i].resp \in Responses
    BY <1>1, LoopFields DEF LoopPush, LoopAt
  <1>3. UNCHANGED <<scenario, client, manager, dt, chan, handles, tasks, handlers, returned>>
    BY DEF LoopPush, registryVars, handlerVars
  <1>4. CASE dt[i].state = "Disabled"
    <2>1. /\ loop' \in Seq(Loops) /\ Len(loop') = Len(loop) /\ loop'[i] = [at |-> "panicked"]
          /\ \A j \in DOMAIN dt : j # i => loop'[j] = loop[j]
      BY <1>4, LoopsMade, LoopChange DEF LoopPush
    <2>2. pc' = Answered(loop[i].resp)
      BY <1>4 DEF LoopPush
    <2>3. Shape'
      BY <1>2, <1>3, <2>1, <2>2, AnsweredShape DEF Shape, Calls
    <2> QED
      BY <1>2, <1>4, <2>1, <2>2, <2>3
  <1>5. CASE dt[i].state # "Disabled"
    <2> DEFINE c == IF dt[i].last > dt[i].cp THEN dt[i].last ELSE dt[i].cp
               r == NullResponse(dt[i].state, c, dt[i].last > dt[i].cp, dt[i].readonly)
               l == [at |-> "apply", resp |-> loop[i].resp, reply |-> r]
    <2>0. dt[i].last \in Nat /\ dt[i].cp \in Nat /\ dt[i].state \in States /\ dt[i].readonly \in BOOLEAN
      BY <1>1, DatatypeFields
    <2>1. c \in Nat /\ c \in {0, dt[i].last, dt[i].cp}
      BY <2>0
    <2>2. r \in Replies
      <3> HIDE DEF c
      <3>1. (dt[i].last > dt[i].cp) \in BOOLEAN
        OBVIOUS
      <3> QED BY <2>0, <2>1, <3>1, RepliesMade
    <2>3. \E d \in {0, c}, st \in States, e \in BOOLEAN : r = [state |-> st, cseq |-> d, error |-> e]
      <3> HIDE DEF c
      <3> QED BY DEF NullResponse, States
    <2>4. loop' = [loop EXCEPT ![i] = l] /\ pc' = pc
      BY <1>5 DEF LoopPush
    <2> HIDE DEF c, r
    <2>5. l \in Loops
      BY <1>2, <2>2, LoopsMade
    <2>6. /\ loop' \in Seq(Loops) /\ Len(loop') = Len(loop) /\ loop'[i] = l
          /\ \A j \in DOMAIN dt : j # i => loop'[j] = loop[j]
      <3> HIDE DEF l
      <3> QED BY <2>4, <2>5, LoopChange
    <2>7. Shape'
      BY <1>3, <2>4, <2>6 DEF Shape, Calls
    <2>8. \E d \in {0, dt[i].last, dt[i].cp}, st \in States, e \in BOOLEAN :
              r = [state |-> st, cseq |-> d, error |-> e]
      BY <2>1, <2>3
    <2> QED
      BY <1>2, <1>5, <2>4, <2>6, <2>7, <2>8
  <1> QED
    BY <1>4, <1>5

(* A section that ends with set_state replaces one datatype and leaves its  *)
(* loop detaching exactly if that is called for.                            *)
LEMMA SetStateEffect ==
    ASSUME Shape, NEW i \in DOMAIN dt, NEW m \in Datatypes, m.key = dt[i].key,
           NEW next \in Phases, SetStateThen(i, m, next),
           UNCHANGED <<registryVars, chan, handles, heard, pc, handlerVars>>
    PROVE  /\ Shape' /\ DOMAIN dt' = DOMAIN dt /\ dt'[i] = m
           /\ loop'[i] = IF Detaches(i, m.state) THEN [at |-> "detaching", next |-> next] ELSE next
           /\ \A j \in DOMAIN dt : j # i => dt'[j] = dt[j] /\ loop'[j] = loop[j]
  <1> DEFINE l == IF Detaches(i, m.state) THEN [at |-> "detaching", next |-> next] ELSE next
  <1>1. l \in Loops
    BY LoopsMade
  <1>2. loop' = [loop EXCEPT ![i] = l]
    BY DEF SetStateThen
  <1> HIDE DEF l
  <1>3. /\ loop' \in Seq(Loops) /\ Len(loop') = Len(loop) /\ loop'[i] = l
        /\ \A j \in DOMAIN dt : j # i => loop'[j] = loop[j]
    BY <1>1, <1>2, LoopChange
  <1>4. /\ dt' \in Seq(Datatypes) /\ Len(dt') = Len(dt) /\ DOMAIN dt' = DOMAIN dt
        /\ dt'[i] = m /\ \A j \in DOMAIN dt : j # i => dt'[j] = dt[j]
        /\ \A j \in DOMAIN dt : dt'[j].key = dt[j].key
    BY DtChange DEF SetStateThen
  <1>5. \A t \in tasks' : t.inst \in DOMAIN dt
    BY Dispatched DEF SetStateThen, Shape
  <1>6. Shape'
    BY <1>3, <1>4, <1>5 DEF Shape, Calls, registryVars, handlerVars
  <1> QED
    BY <1>3, <1>4, <1>6 DEF l

(* Applying a response. *)
LEMMA LoopApplyEffect ==
    ASSUME Shape, NEW i \in DOMAIN dt, LoopApply(i)
    PROVE  LET r == loop[i].reply
               next == IF Legal(dt[i].state, r) THEN Respond("Normal", loop[i].resp)
                       ELSE [at |-> "failed", resp |-> loop[i].resp]
           IN  /\ r \in Replies /\ loop[i].resp \in Responses
               /\ Shape' /\ DOMAIN dt' = DOMAIN dt /\ dt'[i] = Pulled(dt[i], r)
               /\ loop'[i] = IF Detaches(i, dt'[i].state)
                             THEN [at |-> "detaching", next |-> next] ELSE next
               /\ \A j \in DOMAIN dt : j # i => dt'[j] = dt[j] /\ loop'[j] = loop[j]
  <1> DEFINE r == loop[i].reply
             next == IF Legal(dt[i].state, r) THEN Respond("Normal", loop[i].resp)
                     ELSE [at |-> "failed", resp |-> loop[i].resp]
             m == Pulled(dt[i], r)
  <1>1. dt[i] \in Datatypes /\ r \in Replies /\ loop[i].resp \in Responses
    BY Domains, LoopFields DEF Shape, LoopApply, LoopAt
  <1>2. next \in Phases
    BY <1>1, LoopsMade DEF Modes
  <1>3. m \in Datatypes /\ m.key = dt[i].key
    <2>1. m \in Datatypes
      BY <1>1, PulledMade
    <2>2. m.key = dt[i].key
      BY <1>1 DEF Pulled, Datatypes
    <2> QED BY <2>1, <2>2
  <1>4. /\ SetStateThen(i, m, next)
        /\ UNCHANGED <<registryVars, chan, handles, heard, pc, handlerVars>>
    BY DEF LoopApply
  <1> HIDE DEF next, m
  <1>5. /\ Shape' /\ DOMAIN dt' = DOMAIN dt /\ dt'[i] = m
        /\ loop'[i] = IF Detaches(i, m.state) THEN [at |-> "detaching", next |-> next] ELSE next
        /\ \A j \in DOMAIN dt : j # i => dt'[j] = dt[j] /\ loop'[j] = loop[j]
    BY <1>2, <1>3, <1>4, SetStateEffect
  <1> QED
    BY <1>1, <1>5 DEF next, m

(* handle_error with RecoveryAction::Disable. *)
LEMMA LoopDisableEffect ==
    ASSUME Shape, NEW i \in DOMAIN dt, LoopDisable(i)
    PROVE  LET next == [at |-> "report", resp |-> loop[i].resp]
           IN  /\ Shape' /\ DOMAIN dt' = DOMAIN dt /\ dt'[i] = Disable(dt[i])
               /\ loop'[i] = IF Detaches(i, "Disabled")
                             THEN [at |-> "detaching", next |-> next] ELSE next
               /\ \A j \in DOMAIN dt : j # i => dt'[j] = dt[j] /\ loop'[j] = loop[j]
  <1> DEFINE next == [at |-> "report", resp |-> loop[i].resp]
             m == Disable(dt[i])
  <1>1. dt[i] \in Datatypes /\ loop[i].resp \in Responses
    BY Domains, LoopFields DEF Shape, LoopDisable, LoopAt
  <1>2. next \in Phases
    BY <1>1, LoopsMade
  <1>3. m \in Datatypes /\ m.key = dt[i].key /\ m.state = "Disabled"
    <2>1. [state |-> "Disabled", cseq |-> 0, error |-> TRUE] \in Replies
      BY DEF Replies, States
    <2>2. m \in Datatypes
      BY <1>1, <2>1, PulledMade
    <2>3. m.key = dt[i].key /\ m.state = "Disabled"
      BY <1>1 DEF Disable, Datatypes
    <2> QED BY <2>2, <2>3
  <1>4. /\ SetStateThen(i, m, next)
        /\ UNCHANGED <<registryVars, chan, handles, heard, pc, handlerVars>>
    BY DEF LoopDisable
  <1> HIDE DEF next, m
  <1>5. /\ Shape' /\ DOMAIN dt' = DOMAIN dt /\ dt'[i] = m
        /\ loop'[i] = IF Detaches(i, m.state) THEN [at |-> "detaching", next |-> next] ELSE next
        /\ \A j \in DOMAIN dt : j # i => dt'[j] = dt[j] /\ loop'[j] = loop[j]
    BY <1>2, <1>3, <1>4, SetStateEffect
  <1> QED
    BY <1>3, <1>5 DEF next, m

(* detach_datatype_if_same_instance takes this datatype out of the manager  *)
(* and no other one.                                                        *)
LEMMA LoopDetachEffect ==
    ASSUME Shape, NEW i \in DOMAIN dt, LoopDetach(i)
    PROVE  /\ Shape' /\ loop'[i] = loop[i].next /\ loop[i].next.at # "detaching"
           /\ \A j \in DOMAIN dt : j # i => loop'[j] = loop[j]
           /\ \A k \in Keys : \/ manager'[k] = manager[k] /\ (client => manager[k] # i)
                              \/ client /\ manager[k] = i /\ manager'[k] = NoInst
                              \/ ~client /\ manager'[k] = manager[k]
  <1>1. loop[i] \in Loops /\ dt[i] \in Datatypes
    BY Domains DEF Shape
  <1>2. loop[i].next \in Loops /\ loop[i].next.at # "detaching"
    BY <1>1, LoopFields DEF LoopDetach, LoopAt
  <1>3. /\ loop' \in Seq(Loops) /\ Len(loop') = Len(loop) /\ loop'[i] = loop[i].next
        /\ \A j \in DOMAIN dt : j # i => loop'[j] = loop[j]
    BY <1>2, LoopChange DEF LoopDetach
  <1>4. dt[i].key \in Keys /\ i # NoInst
    BY <1>1, DatatypeFields DEF NoInst, Shape
  <1>5. /\ manager' \in [Keys -> Nat]
        /\ \A k \in Keys : \/ manager'[k] = manager[k] /\ (client => manager[k] # i)
                           \/ client /\ manager[k] = i /\ manager'[k] = NoInst
                           \/ ~client /\ manager'[k] = manager[k]
    <2>1. CASE client /\ manager[dt[i].key] = i
      <3>1. manager' = [manager EXCEPT ![dt[i].key] = NoInst]
        BY <2>1 DEF LoopDetach, RemoveIfSameInstance
      <3>2. \A k \in Keys : manager[k] = i => k = dt[i].key
        BY <1>4 DEF Shape
      <3> QED
        BY <2>1, <3>1, <3>2, <1>4 DEF Shape, NoInst
    <2>2. CASE client /\ manager[dt[i].key] # i
      <3>1. manager' = manager
        BY <2>2 DEF LoopDetach, RemoveIfSameInstance
      <3>2. \A k \in Keys : manager[k] # i
        BY <1>4, <2>2 DEF Shape
      <3> QED
        BY <2>2, <3>1, <3>2 DEF Shape
    <2>3. CASE ~client
      BY <2>3 DEF LoopDetach, Shape
    <2> QED
      BY <2>1, <2>2, <2>3
  <1>6. \A k \in Keys : manager'[k] # NoInst =>
           manager'[k] \in DOMAIN dt /\ dt[manager'[k]].key = k
    BY <1>5 DEF Shape
  <1>7. Shape'
    BY <1>3, <1>5, <1>6 DEF LoopDetach, Shape, Calls, handlerVars
  <1> QED
    BY <1>2, <1>3, <1>5, <1>7

(* call_error_handler after a failed exchange. *)
LEMMA LoopReportEffect ==
    ASSUME Shape, NEW i \in DOMAIN dt, LoopReport(i)
    PROVE  /\ Shape' /\ loop[i].resp \in Responses
           /\ loop'[i] = Respond("Stopped", loop[i].resp)
           /\ \A j \in DOMAIN dt : j # i => loop'[j] = loop[j]
  <1> DEFINE l == Respond("Stopped", loop[i].resp)
  <1>1. loop[i].resp \in Responses
    BY Domains, LoopFields DEF Shape, LoopReport, LoopAt
  <1>2. l \in Loops
    BY <1>1, LoopsMade DEF Modes
  <1>3. loop' = [loop EXCEPT ![i] = l]
    BY DEF LoopReport
  <1> HIDE DEF l
  <1>4. /\ loop' \in Seq(Loops) /\ Len(loop') = Len(loop) /\ loop'[i] = l
        /\ \A j \in DOMAIN dt : j # i => loop'[j] = loop[j]
    BY <1>2, <1>3, LoopChange
  <1>5. \A t \in tasks' : t.inst \in DOMAIN dt
    BY Dispatched DEF LoopReport, Shape
  <1> QED
    BY <1>1, <1>4, <1>5 DEF LoopReport, Shape, Calls, registryVars, handlerVars, l

(* process_blocking_resp. *)
LEMMA LoopAnswerEffect ==
    ASSUME Shape, NEW i \in DOMAIN dt, LoopAnswer(i)
    PROVE  /\ Shape' /\ loop[i].resp \in Users
           /\ loop'[i] = [at |-> "check", mode |-> loop[i].mode]
           /\ \A v \in Users : pc'[v] = IF v = loop[i].resp THEN Idle ELSE pc[v]
           /\ \A j \in DOMAIN dt : j # i => loop'[j] = loop[j]
  <1> DEFINE l == [at |-> "check", mode |-> loop[i].mode]
  <1>1. loop[i].resp \in Users /\ loop[i].mode \in Modes
    BY Domains, LoopFields DEF Shape, LoopAnswer, LoopAt
  <1>2. l \in Loops
    BY <1>1, LoopsMade
  <1>3. loop' = [loop EXCEPT ![i] = l]
    BY DEF LoopAnswer
  <1>4. /\ loop' \in Seq(Loops) /\ Len(loop') = Len(loop) /\ loop'[i] = l
        /\ \A j \in DOMAIN dt : j # i => loop'[j] = loop[j]
    <2> HIDE DEF l
    <2> QED BY <1>2, <1>3, LoopChange
  <1>5. /\ pc' \in [Users -> Calls]
        /\ \A v \in Users : pc'[v] = IF v = loop[i].resp THEN Idle ELSE pc[v]
    <2>1. loop[i].resp \in Responses
      BY <1>1 DEF Responses
    <2> QED BY <2>1, AnsweredShape DEF LoopAnswer
  <1>6. Shape'
    BY <1>4, <1>5 DEF LoopAnswer, Shape, Calls, registryVars, handlerVars
  <1> QED
    BY <1>1, <1>4, <1>5, <1>6

-----------------------------------------------------------------------------
(* The registry. *)

(* What is true of a datatype the client hands out: its loop runs, no Stop  *)
(* is on its way, it is Disabled only while its loop detaches it, and no    *)
(* rollback can make it Disabled.                                           *)
Alive(i) ==
    /\ loop[i].at \notin {"exited", "panicked"}
    /\ dt[i].state = "Disabled" => loop[i].at = "detaching"
    /\ dt[i].pending # <<>> => dt[i].pending[1].state # "Disabled"
    /\ \A n \in DOMAIN chan[i].unbounded : chan[i].unbounded[n] # Stop

(* That, and a loop detaches only what is Disabled (the write lock it holds *)
(* keeps every user out).                                                   *)
Sound(i) ==
    /\ Managed(i) => Alive(i)
    /\ loop[i].at = "detaching" => dt[i].state = "Disabled"

(* ... for every datatype. *)
RegistryInv == \A i \in DOMAIN dt : Sound(i)

(* Nothing that Sound speaks of changes for this datatype. *)
Kept(j) ==
    /\ dt'[j].state = dt[j].state /\ dt'[j].pending = dt[j].pending
    /\ loop'[j] = loop[j] /\ chan'[j].unbounded = chan[j].unbounded

(* Such a step keeps it sound, if it does not register it again. *)
LEMMA KeptSound ==
    ASSUME NEW j, Sound(j), Kept(j), Managed(j)' => Managed(j)
    PROVE  Sound(j)'
  BY DEF Sound, Kept, Alive

(* A built datatype with its loop and its unbounded channel. *)
LEMMA ChanOf ==
    ASSUME Shape, NEW i \in DOMAIN dt
    PROVE  chan[i].unbounded \in Seq(Events) /\ loop[i] \in Loops /\ dt[i] \in Datatypes
  <1>1. chan[i] \in Channels /\ loop[i] \in Loops /\ dt[i] \in Datatypes
    BY Domains DEF Shape
  <1>2. \A c \in Channels : c.unbounded \in Seq(Events)
    BY DEF Channels
  <1> QED
    BY <1>1, <1>2

(* Managed depends on the client and its manager only. *)
LEMMA SameRegistry ==
    ASSUME NEW j, UNCHANGED <<client, manager>>
    PROVE  Managed(j)' = Managed(j)
  BY DEF Managed

(* The registry's entry owns the datatype, so a weak reference to it can be *)
(* upgraded: set_state detaches it and drop does not come.                  *)
LEMMA ManagedOwned ==
    ASSUME Shape, NEW i \in DOMAIN dt, Managed(i)
    PROVE  Owned(i)
  <1>1. i # NoInst
    BY DEF Shape, NoInst
  <1> QED
    BY <1>1 DEF Shape, Managed, Owned

(* Nothing is registered at first. *)
LEMMA InitRegistry == Init => RegistryInv
  BY DEF Init, RegistryInv

(* Steps that touch no datatype, channel or loop. *)
LEMMA UntouchedRegistry ==
    ASSUME Shape, RegistryInv,
           UNCHANGED <<dt, chan, loop>>, \A j \in DOMAIN dt : Managed(j)' => Managed(j)
    PROVE  RegistryInv'
  BY KeptSound DEF RegistryInv, Kept

(* The steps of user threads keep the registry sound. *)
LEMMA UserRegistry ==
    ASSUME Shape, RegistryInv, NEW u \in Users, ClientCall(u) \/ DatatypeCall(u) \/ GoOn(u)
    PROVE  RegistryInv'
  <1>1. CASE \E k \in Keys, as \in scenario.as : BuildVacant(u, k, as)
    <2>1. PICK k \in Keys, as \in scenario.as : BuildVacant(u, k, as)
      BY <1>1
    <2>a. PICK i : i = Len(dt) + 1
      OBVIOUS
    <2>2. ASSUME NEW j \in DOMAIN dt PROVE Sound(j)'
      <3>1. j # i /\ Kept(j)
        BY <2>1, <2>a, BuildVacantEffect DEF Kept
      <3>2. Managed(j)' => Managed(j)
        BY <2>1, <2>a, <3>1 DEF Managed, BuildVacant, Shape
      <3> QED
        BY <3>1, <3>2, KeptSound DEF RegistryInv
    <2>3. Sound(i)'
      <3>1. /\ dt'[i].state # "Disabled" /\ dt'[i].pending = <<>>
            /\ loop'[i] = [at |-> "check", mode |-> "Normal"] /\ chan'[i].unbounded = <<>>
        BY <2>1, <2>a, BuildVacantEffect
      <3> QED
        BY <3>1 DEF Sound, Alive
    <2>4. DOMAIN dt' = DOMAIN dt \cup {i}
      BY <2>1, <2>a, BuildVacantEffect
    <2> QED
      BY <2>2, <2>3, <2>4 DEF RegistryInv
  <1>2. CASE \/ \E k \in Keys : BuildOccupied(u, k) \/ GetDatatype(u, k)
             \/ \E i \in DOMAIN dt : DropHandle(u, i) \/ CheckSubscribed(u, i)
                                       \/ CheckDisabled(u, i) \/ CheckWritable(u, i)
             \/ ReadExisting(u) \/ ReportRefusal(u)
    <2>1. UNCHANGED <<client, manager, dt, chan, loop>>
      BY <1>2 DEF BuildOccupied, GetDatatype, DropHandle, CheckSubscribed, CheckDisabled,
                  CheckWritable, ReadExisting, ReportRefusal, registryVars
    <2> QED
      BY <2>1, UntouchedRegistry, SameRegistry
  <1>3. CASE \E i \in DOMAIN dt, p \in Priorities : SetHandler(u, i, p) \/ UnsetHandler(u, i, p)
    <2>1. PICK i \in DOMAIN dt, p \in Priorities : SetHandler(u, i, p) \/ UnsetHandler(u, i, p)
      BY <1>3
    <2>2. UNCHANGED <<client, manager, chan, loop>>
      BY <2>1 DEF SetHandler, UnsetHandler, registryVars
    <2>3. /\ dt'[i].state = dt[i].state /\ dt'[i].pending = dt[i].pending
          /\ \A j \in DOMAIN dt : j # i => dt'[j] = dt[j]
      BY <2>1, HandlerEffect
    <2>5. \A j \in DOMAIN dt : Kept(j)
      BY <2>2, <2>3 DEF Kept
    <2>6. DOMAIN dt' = DOMAIN dt
      BY <2>1, HandlerEffect
    <2> QED
      BY <2>2, <2>5, <2>6, KeptSound, SameRegistry DEF RegistryInv
  <1>4. CASE SendBestEffort(u)
    <2>1. UNCHANGED <<client, manager, dt, loop>>
      BY <1>4 DEF SendBestEffort, registryVars
    <2> QED
      BY <1>4, <2>1, SendBestEffortEffect, KeptSound, SameRegistry DEF RegistryInv, Kept
  <1>5. CASE SendSync(u)
    <2>a. PICK i : i = pc[u].inst
      OBVIOUS
    <2> DEFINE q == chan[i].unbounded
               e == [kind |-> "Push", resp |-> u]
    <2>1. UNCHANGED <<client, manager, dt, loop>>
      BY <1>5 DEF SendSync, registryVars
    <2>2. /\ i \in DOMAIN dt /\ chan'[i].unbounded = Append(q, e)
          /\ \A j \in DOMAIN dt : j # i => chan'[j] = chan[j]
      BY <1>5, <2>a, SendSyncEffect
    <2>3. e # Stop
      BY DEF Stop
    <2>4. q \in Seq(Events)
      BY <2>2, ChanOf
    <2>5. Sound(i)'
      <3> HIDE DEF e
      <3>1. e \in Events
        BY DEF e, Events
      <3>2. (\A n \in DOMAIN q : q[n] # Stop)
               => \A n \in DOMAIN Append(q, e) : Append(q, e)[n] # Stop
        <4> HIDE DEF q
        <4> QED BY <2>3, <2>4, <3>1
      <3>3. Sound(i)
        BY <2>2 DEF RegistryInv
      <3> QED
        BY <2>1, <2>2, <3>2, <3>3, SameRegistry DEF Sound, Alive
    <2> QED
      BY <2>1, <2>2, <2>5, KeptSound, SameRegistry DEF RegistryInv, Kept
  <1>6. CASE SetUnsubscribing(u) \/ ExecuteOp(u) \/ Commit(u)
              \/ \E refused \in BOOLEAN : Rollback(u, refused)
    <2>a. PICK i : i = pc[u].inst
      OBVIOUS
    <2>1. /\ i \in DOMAIN dt /\ DOMAIN dt' = DOMAIN dt
          /\ \A j \in DOMAIN dt : j # i => dt'[j] = dt[j]
      BY <1>6, <2>a, SetUnsubscribingEffect, ExecuteOpEffect, CommitEffect, RollbackEffect
    <2>2. UNCHANGED <<client, manager, loop>> /\ loop[i].at # "detaching"
      BY <1>6, <2>a DEF SetUnsubscribing, ExecuteOp, Commit, Rollback, registryVars, Locked
    <2>3. \A j \in DOMAIN dt : chan'[j].unbounded = chan[j].unbounded
      BY <1>6, CommitEffect DEF SetUnsubscribing, ExecuteOp, Rollback
    <2>4. dt[i] \in Datatypes /\ Sound(i)
      BY <2>1 DEF Shape, RegistryInv
    <2>5. Managed(i) => /\ dt'[i].state # "Disabled"
                        /\ dt'[i].pending # <<>> => dt'[i].pending[1].state # "Disabled"
      <3> SUFFICES ASSUME Managed(i)
                   PROVE  /\ dt'[i].state # "Disabled"
                          /\ dt'[i].pending # <<>> => dt'[i].pending[1].state # "Disabled"
        OBVIOUS
      <3>1. /\ dt[i].state # "Disabled"
            /\ dt[i].pending # <<>> => dt[i].pending[1].state # "Disabled"
        BY <2>2, <2>4 DEF Sound, Alive
      <3>2. CASE SetUnsubscribing(u)
        BY <2>a, <2>4, <3>1, <3>2, SetUnsubscribingEffect DEF Datatypes
      <3>3. CASE ExecuteOp(u)
        <4>1. /\ dt'[i].state = dt[i].state
              /\ dt'[i].pending = <<[state |-> dt[i].state, seq |-> dt[i].seq]>>
          BY <2>a, <2>4, <3>3, ExecuteOpEffect DEF Datatypes
        <4> QED
          BY <3>1, <4>1
      <3>4. CASE Commit(u)
        BY <2>a, <2>4, <3>1, <3>4, CommitEffect DEF Datatypes
      <3>5. CASE \E refused \in BOOLEAN : Rollback(u, refused)
        <4>1. dt'[i] = RolledBack(dt[i])
          BY <2>a, <3>5, RollbackEffect
        <4> QED
          BY <2>4, <3>1, <4>1 DEF RolledBack, Datatypes
      <3> QED
        BY <1>6, <3>2, <3>3, <3>4, <3>5
    <2>6. Sound(i)'
      BY <2>1, <2>2, <2>3, <2>4, <2>5, SameRegistry DEF Sound, Alive
    <2> QED
      BY <2>1, <2>2, <2>3, <2>6, KeptSound, SameRegistry DEF RegistryInv, Kept
  <1> QED
    BY <1>1, <1>2, <1>3, <1>4, <1>5, <1>6 DEF ClientCall, DatatypeCall, GoOn

(* The steps of event loops keep the registry sound: a registered           *)
(* datatype's loop does not panic, since it is not Disabled, and does not   *)
(* meet Stop.                                                               *)
LEMMA LoopRegistry ==
    ASSUME Shape, RegistryInv, NEW i \in DOMAIN dt, LoopStep(i)
    PROVE  RegistryInv'
  <1>0. Sound(i) /\ dt[i] \in Datatypes /\ loop[i] \in Loops /\ chan[i].unbounded \in Seq(Events)
    BY ChanOf DEF RegistryInv
  <1>1. CASE LoopCheck(i) \/ SelectBounded(i) \/ SelectUnbounded(i)
    <2> DEFINE q == chan[i].unbounded
    <2>1. UNCHANGED <<client, manager, dt>> /\ loop[i].at # "detaching"
      BY <1>1 DEF LoopCheck, SelectBounded, SelectUnbounded, registryVars, LoopAt
    <2>2. \A j \in DOMAIN dt : j # i => Kept(j)
      BY <1>1, <2>1, LoopWalkEffect DEF Kept
    <2>3. ASSUME Managed(i) PROVE \A n \in DOMAIN chan'[i].unbounded : chan'[i].unbounded[n] # Stop
      <3>1. \A n \in DOMAIN q : q[n] # Stop
        BY <1>0, <2>3 DEF Sound, Alive
      <3>2. chan'[i].unbounded = IF SelectUnbounded(i) THEN Tail(q) ELSE q
        BY <1>1, LoopWalkEffect
      <3>3. SelectUnbounded(i) => q # <<>>
        BY DEF SelectUnbounded
      <3> HIDE DEF q
      <3>4. q # <<>> => \A n \in DOMAIN Tail(q) : n + 1 \in DOMAIN q /\ Tail(q)[n] = q[n + 1]
        BY <1>0 DEF q
      <3> QED
        BY <3>1, <3>2, <3>3, <3>4
    <2>4. ASSUME Managed(i) PROVE loop'[i].at # "exited"
      <3>1. CASE SelectUnbounded(i)
        <4>1. Head(q) # Stop
          BY <1>0, <2>4, <3>1 DEF Sound, Alive, SelectUnbounded
        <4>2. loop'[i] = Take(i, Head(q).resp)
          BY <3>1, <4>1, Domains DEF SelectUnbounded
        <4> QED
          BY <4>2 DEF Take, Respond
      <3>2. CASE LoopCheck(i)
        BY <3>2, Domains DEF LoopCheck
      <3>3. CASE SelectBounded(i)
        BY <3>3, Domains DEF SelectBounded, Take, Respond
      <3> QED
        BY <1>1, <3>1, <3>2, <3>3
    <2>5. Sound(i)'
      BY <1>0, <1>1, <2>1, <2>3, <2>4, LoopWalkEffect, SameRegistry DEF Sound, Alive
    <2> QED
      BY <2>1, <2>2, <2>5, KeptSound, SameRegistry DEF RegistryInv
  <1>2. CASE LoopPush(i)
    <2>1. UNCHANGED <<client, manager, dt, chan>> /\ loop[i].at = "push"
      BY <1>2 DEF LoopPush, registryVars, LoopAt
    <2>2. \A j \in DOMAIN dt : j # i => Kept(j)
      BY <1>2, <2>1, LoopPushEffect DEF Kept
    <2>3. \/ dt[i].state = "Disabled" /\ loop'[i].at = "panicked"
          \/ dt[i].state # "Disabled" /\ loop'[i].at = "apply"
      <3>1. CASE dt[i].state = "Disabled"
        BY <1>2, <3>1, LoopPushEffect
      <3>2. CASE dt[i].state # "Disabled"
        <4>1. PICK c \in {0, dt[i].last, dt[i].cp}, st \in States, e \in BOOLEAN :
                loop'[i] = [at |-> "apply", resp |-> loop[i].resp,
                            reply |-> [state |-> st, cseq |-> c, error |-> e]]
          BY <1>2, <3>2, LoopPushEffect
        <4> QED
          BY <3>2, <4>1
      <3> QED
        BY <3>1, <3>2
    <2>4. Sound(i)'
      BY <1>0, <2>1, <2>3, SameRegistry DEF Sound, Alive
    <2> QED
      BY <2>1, <2>2, <2>4, KeptSound, SameRegistry DEF RegistryInv
  <1>3. CASE LoopApply(i) \/ LoopDisable(i)
    <2>1. UNCHANGED <<client, manager, chan>> /\ loop[i].at # "detaching"
      BY <1>3 DEF LoopApply, LoopDisable, registryVars, LoopAt
    <2>2. DOMAIN dt' = DOMAIN dt /\ \A j \in DOMAIN dt : j # i => Kept(j)
      BY <1>3, <2>1, LoopApplyEffect, LoopDisableEffect DEF Kept
    <2>3. /\ dt'[i].pending = dt[i].pending \/ dt'[i].pending = <<>>
          /\ Detaches(i, dt'[i].state) => loop'[i].at = "detaching" /\ dt'[i].state = "Disabled"
          /\ ~Detaches(i, dt'[i].state) => loop'[i].at \in {"check", "answer", "failed", "report"}
      <3>1. CASE LoopApply(i)
        <4>1. dt'[i] = Pulled(dt[i], loop[i].reply)
          BY <3>1, LoopApplyEffect
        <4>2. dt'[i].pending = dt[i].pending
          BY <1>0, <4>1 DEF Pulled, Datatypes
        <4>3. PICK next : /\ next.at \in {"check", "answer", "failed"}
                          /\ loop'[i] = IF Detaches(i, dt'[i].state)
                                        THEN [at |-> "detaching", next |-> next] ELSE next
          <5> DEFINE n == IF Legal(dt[i].state, loop[i].reply) THEN Respond("Normal", loop[i].resp)
                          ELSE [at |-> "failed", resp |-> loop[i].resp]
          <5>1. n.at \in {"check", "answer", "failed"}
            BY DEF Respond
          <5>2. loop'[i] = IF Detaches(i, dt'[i].state) THEN [at |-> "detaching", next |-> n] ELSE n
            BY <3>1, LoopApplyEffect
          <5> HIDE DEF n
          <5> QED BY <5>1, <5>2
        <4>4. Detaches(i, dt'[i].state) => dt'[i].state = "Disabled"
          BY DEF Detaches
        <4> HIDE DEF Detaches
        <4> QED
          BY <4>2, <4>3, <4>4
      <3>2. CASE LoopDisable(i)
        <4>1. dt'[i].pending = <<>> /\ dt'[i].state = "Disabled"
          BY <1>0, <3>2, LoopDisableEffect DEF Disable, Datatypes
        <4>2. loop'[i] = IF Detaches(i, dt'[i].state)
                         THEN [at |-> "detaching", next |-> [at |-> "report", resp |-> loop[i].resp]]
                         ELSE [at |-> "report", resp |-> loop[i].resp]
          BY <3>2, <4>1, LoopDisableEffect
        <4> QED
          BY <4>1, <4>2
      <3> QED
        BY <1>3, <3>1, <3>2
    <2>4. Managed(i) => Owned(i) /\ dt[i].state # "Disabled"
      BY <1>0, <2>1, ManagedOwned DEF Sound, Alive
    <2>5. Sound(i)'
      BY <1>0, <2>1, <2>3, <2>4, SameRegistry DEF Sound, Alive, Detaches
    <2> QED
      BY <2>1, <2>2, <2>5, KeptSound, SameRegistry DEF RegistryInv
  <1>4. CASE LoopDetach(i)
    <2>1. UNCHANGED <<client, dt, chan>>
      BY <1>4 DEF LoopDetach
    <2>2. ASSUME NEW j \in DOMAIN dt, j # i PROVE Sound(j)'
      <3>1. Kept(j)
        BY <1>4, <2>1, <2>2, LoopDetachEffect DEF Kept
      <3>2. j # NoInst
        BY DEF Shape, NoInst
      <3>3. Managed(j)' => Managed(j)
        BY <1>4, <2>1, <3>2, LoopDetachEffect DEF Managed
      <3> QED
        BY <3>1, <3>3, KeptSound DEF RegistryInv
    <2>3. ~Managed(i)'
      <3>1. i # NoInst
        BY DEF Shape, NoInst
      <3> QED
        BY <1>4, <2>1, <3>1, LoopDetachEffect DEF Managed
    <2>4. Sound(i)'
      BY <1>4, <2>3, LoopDetachEffect DEF Sound
    <2> QED
      BY <2>1, <2>2, <2>4 DEF RegistryInv
  <1>5. CASE LoopReport(i) \/ LoopAnswer(i)
    <2>1. UNCHANGED <<client, manager, dt, chan>> /\ loop[i].at # "detaching"
      BY <1>5 DEF LoopReport, LoopAnswer, registryVars, LoopAt
    <2>2. \A j \in DOMAIN dt : j # i => Kept(j)
      BY <1>5, <2>1, LoopReportEffect, LoopAnswerEffect DEF Kept
    <2>3. loop'[i].at \in {"check", "answer"}
      <3>1. CASE LoopReport(i)
        <4>1. loop'[i] = Respond("Stopped", loop[i].resp)
          BY <3>1, LoopReportEffect
        <4> QED BY <4>1 DEF Respond
      <3>2. CASE LoopAnswer(i)
        <4>1. loop'[i] = [at |-> "check", mode |-> loop[i].mode]
          BY <3>2, LoopAnswerEffect
        <4> QED BY <4>1
      <3> QED
        BY <1>5, <3>1, <3>2
    <2>4. Sound(i)'
      BY <1>0, <2>1, <2>3, SameRegistry DEF Sound, Alive
    <2> QED
      BY <2>1, <2>2, <2>4, KeptSound, SameRegistry DEF RegistryInv
  <1> QED
    BY <1>1, <1>2, <1>3, <1>4, <1>5 DEF LoopStep

(* Drops and the runtime keep the registry sound. *)
LEMMA RestRegistry ==
    ASSUME Shape, RegistryInv,
           DropClient \/ (\E i \in DOMAIN dt : DropDatatype(i)) \/ Runtime
    PROVE  RegistryInv'
  <1>1. CASE DropClient
    <2>1. UNCHANGED <<dt, chan, loop>> /\ ~client'
      BY <1>1 DEF DropClient
    <2> QED
      BY <2>1, UntouchedRegistry DEF Managed
  <1>2. CASE \E i \in DOMAIN dt : DropDatatype(i)
    <2>1. PICK i \in DOMAIN dt : DropDatatype(i)
      BY <1>2
    <2>2. UNCHANGED <<client, manager, dt, loop>>
      BY <2>1 DEF DropDatatype, registryVars
    <2>3. ~Managed(i)
      BY <2>1, ManagedOwned DEF DropDatatype
    <2>4. Sound(i)'
      BY <2>2, <2>3, SameRegistry DEF Sound, RegistryInv
    <2> QED
      BY <2>1, <2>2, <2>4, DropDatatypeEffect, KeptSound, SameRegistry DEF RegistryInv, Kept
  <1>3. CASE Runtime
    <2>1. UNCHANGED <<client, manager, dt, chan, loop>>
      BY <1>3 DEF Runtime, RunTask, registryVars
    <2> QED
      BY <2>1, UntouchedRegistry, SameRegistry
  <1> QED
    BY <1>1, <1>2, <1>3

-----------------------------------------------------------------------------
(* Handlers. *)

(* Every handler is in at most one place of one datatype, and a handler     *)
(* that was given back is in none.                                          *)
HandlersApart ==
    /\ returned \subseteq 1..handlers
    /\ \A i \in DOMAIN dt, p \in Priorities :
          /\ dt[i].handlers[p] <= handlers /\ dt[i].handlers[p] \notin returned
          /\ \A j \in DOMAIN dt, q \in Priorities :
                dt[i].handlers[p] = dt[j].handlers[q] /\ dt[i].handlers[p] # NoHandler
                   => i = j /\ p = q

(* Together with this, NoCallAfterReturn is inductive. *)
HandlerInv == HandlersApart /\ NoCallAfterReturn

(* The step changes no handler. *)
SameHandlers ==
    /\ DOMAIN dt' = DOMAIN dt /\ \A j \in DOMAIN dt : dt'[j].handlers = dt[j].handlers
    /\ UNCHANGED <<handlers, returned>>

(* There are no handlers at first. *)
LEMMA InitHandlers == Init => HandlerInv
  <1> SUFFICES ASSUME Init PROVE HandlerInv
    OBVIOUS
  <1>1. DOMAIN dt = {} /\ tasks = {} /\ returned = {}
    BY DEF Init
  <1> QED
    BY <1>1 DEF HandlerInv, HandlersApart, NoCallAfterReturn

(* Steps that at most dispatch a task: its handlers are registered, hence   *)
(* not given back.                                                          *)
LEMMA SameHandlersKeep ==
    ASSUME Shape, HandlerInv, SameHandlers, NEW i \in DOMAIN dt, NEW e,
           tasks' \subseteq tasks \cup Dispatch(i, e)
    PROVE  HandlerInv'
  <1>1. HandlersApart'
    BY DEF HandlerInv, HandlersApart, SameHandlers
  <1>2. ASSUME NEW t \in Dispatch(i, e) PROVE Range(t.handlers) \cap returned = {}
    <2> DEFINE f == [p \in {q \in Priorities : dt[i].handlers[q] # NoHandler} |-> dt[i].handlers[p]]
    <2>0. t = [inst |-> i, event |-> e, handlers |-> HandlersOf(i)]
      BY <1>2, Dispatched
    <2>1. t.handlers = f
      BY <2>0 DEF HandlersOf
    <2>2. \A p \in DOMAIN f : f[p] \notin returned
      BY DEF HandlerInv, HandlersApart
    <2> QED
      BY <2>1, <2>2 DEF Range
  <1>3. NoCallAfterReturn'
    BY <1>2 DEF HandlerInv, NoCallAfterReturn, SameHandlers
  <1> QED
    BY <1>1, <1>3 DEF HandlerInv

(* Steps without tasks and handlers. *)
LEMMA QuietHandlers ==
    ASSUME HandlerInv, UNCHANGED <<dt, tasks, handlers, returned>>
    PROVE  HandlerInv'
  BY DEF HandlerInv, HandlersApart, NoCallAfterReturn

(* set_handler uses a new handler; unset_handler gives back what no task    *)
(* holds (Arc::try_unwrap) and no other place has.                          *)
LEMMA HandlerStep ==
    ASSUME Shape, HandlerInv, NEW u \in Users, NEW i \in DOMAIN dt, NEW p \in Priorities,
           SetHandler(u, i, p) \/ UnsetHandler(u, i, p)
    PROVE  HandlerInv'
  <1> DEFINE h == IF SetHandler(u, i, p) THEN handlers + 1 ELSE NoHandler
  <1>1. /\ DOMAIN dt' = DOMAIN dt
        /\ dt'[i] = [dt[i] EXCEPT !.handlers = [dt[i].handlers EXCEPT ![p] = h]]
        /\ \A j \in DOMAIN dt : j # i => dt'[j] = dt[j]
    BY HandlerEffect
  <1>2. handlers \in Nat /\ \A j \in DOMAIN dt : dt[j].handlers \in [Priorities -> Nat]
    BY ChanOf, DatatypeFields DEF Shape
  <1>3. dt'[i].handlers = [dt[i].handlers EXCEPT ![p] = h]
    <2> HIDE DEF h
    <2>1. dt[i] \in Datatypes
      BY ChanOf
    <2> QED BY <1>1, <2>1 DEF Datatypes
  <1>4. \A j \in DOMAIN dt, q \in Priorities :
           dt'[j].handlers[q] = IF j = i /\ q = p THEN h ELSE dt[j].handlers[q]
    <2> HIDE DEF h
    <2> QED BY <1>1, <1>2, <1>3
  <1>5. CASE SetHandler(u, i, p)
    <2>1. h = handlers + 1 /\ handlers' = handlers + 1 /\ returned' = returned /\ tasks' = tasks
      BY <1>5 DEF SetHandler
    <2> HIDE DEF h
    <2>2. HandlersApart'
      BY <1>1, <1>2, <1>4, <2>1 DEF HandlerInv, HandlersApart, NoHandler
    <2> QED
      BY <2>1, <2>2 DEF HandlerInv, NoCallAfterReturn
  <1>6. CASE ~SetHandler(u, i, p)
    <2> DEFINE old == dt[i].handlers[p]
    <2>1. /\ h = NoHandler /\ handlers' = handlers /\ tasks' = tasks
          /\ old # NoHandler /\ returned' = returned \cup TryUnwrap(old)
      BY <1>6 DEF UnsetHandler
    <2> HIDE DEF h
    <2>2. old \in 1..handlers /\ TryUnwrap(old) \subseteq {old}
      BY <1>2, <2>1 DEF HandlerInv, HandlersApart, NoHandler, TryUnwrap
    <2>3. HandlersApart'
      BY <1>1, <1>2, <1>4, <2>1, <2>2 DEF HandlerInv, HandlersApart, NoHandler
    <2>4. NoCallAfterReturn'
      BY <2>1 DEF HandlerInv, NoCallAfterReturn, TryUnwrap
    <2> QED
      BY <2>3, <2>4 DEF HandlerInv
  <1> QED
    BY <1>5, <1>6

(* The handler of with_handler is new. *)
LEMMA BuildHandlers ==
    ASSUME Shape, HandlerInv, NEW u \in Users, NEW k \in Keys, NEW as \in scenario.as,
           BuildVacant(u, k, as)
    PROVE  HandlerInv'
  <1> DEFINE i == Len(dt) + 1
  <1>1. /\ DOMAIN dt' = DOMAIN dt \cup {i} /\ i \notin DOMAIN dt
        /\ \A j \in DOMAIN dt : dt'[j] = dt[j]
        /\ \/ dt'[i].handlers = NoHandlers /\ handlers' = handlers
           \/ \E p \in Priorities : /\ dt'[i].handlers = [NoHandlers EXCEPT ![p] = handlers + 1]
                                    /\ handlers' = handlers + 1
    BY BuildVacantEffect
  <1>2. UNCHANGED <<tasks, returned>> /\ handlers \in Nat
    BY DEF BuildVacant, Shape
  <1>3. \A j \in DOMAIN dt : dt[j].handlers \in [Priorities -> Nat]
    BY ChanOf, DatatypeFields
  <1> HIDE DEF i
  <1>4. HandlersApart'
    <2>1. CASE dt'[i].handlers = NoHandlers /\ handlers' = handlers
      BY <1>1, <1>2, <1>3, <2>1 DEF HandlerInv, HandlersApart, NoHandlers, NoHandler
    <2>2. ASSUME NEW p \in Priorities, dt'[i].handlers = [NoHandlers EXCEPT ![p] = handlers + 1],
                 handlers' = handlers + 1
          PROVE  HandlersApart'
      <3>1. \A q \in Priorities : dt'[i].handlers[q] = IF q = p THEN handlers + 1 ELSE 0
        BY <2>2 DEF NoHandlers, NoHandler
      <3>2. returned' \subseteq 1..handlers' /\ handlers + 1 \notin returned /\ 0 \notin returned
        BY <1>2, <2>2 DEF HandlerInv, HandlersApart
      <3>3. ASSUME NEW a \in DOMAIN dt', NEW q \in Priorities
            PROVE  dt'[a].handlers[q] <= handlers' /\ dt'[a].handlers[q] \notin returned'
        <4>1. CASE a = i
          <5>1. dt'[a].handlers[q] = handlers + 1 \/ dt'[a].handlers[q] = 0
            BY <3>1, <3>3, <4>1
          <5>2. returned' = returned /\ handlers' = handlers + 1 /\ 0 <= handlers + 1
                /\ handlers + 1 <= handlers + 1
            BY <1>2, <2>2
          <5> QED BY <3>2, <5>1, <5>2
        <4>2. CASE a # i
          <5>1. a \in DOMAIN dt /\ dt'[a] = dt[a]
            BY <1>1, <3>3, <4>2
          <5>2. /\ dt[a].handlers[q] \in Nat /\ dt[a].handlers[q] <= handlers
                /\ dt[a].handlers[q] \notin returned
            BY <1>3, <3>3, <5>1 DEF HandlerInv, HandlersApart
          <5> QED
            BY <1>2, <2>2, <5>1, <5>2
        <4> QED
          BY <4>1, <4>2
      <3>4. ASSUME NEW a \in DOMAIN dt', NEW q \in Priorities,
                   NEW b \in DOMAIN dt', NEW r \in Priorities,
                   dt'[a].handlers[q] = dt'[b].handlers[r], dt'[a].handlers[q] # NoHandler
            PROVE  a = b /\ q = r
        <4>1. \A c \in DOMAIN dt, x \in Priorities :
                 dt[c].handlers[x] <= handlers /\ dt[c].handlers[x] \in Nat
          BY <1>3 DEF HandlerInv, HandlersApart
        <4>2. CASE a = i /\ b = i
          BY <1>2, <3>1, <3>4, <4>2 DEF NoHandler
        <4>3. CASE a = i /\ b # i
          BY <1>1, <1>2, <3>1, <3>4, <4>1, <4>3 DEF NoHandler
        <4>4. CASE a # i /\ b = i
          BY <1>1, <1>2, <3>1, <3>4, <4>1, <4>4 DEF NoHandler
        <4>5. CASE a # i /\ b # i
          BY <1>1, <3>4, <4>5 DEF HandlerInv, HandlersApart
        <4> QED
          BY <4>2, <4>3, <4>4, <4>5
      <3> QED
        BY <3>2, <3>3, <3>4 DEF HandlersApart
    <2> QED
      BY <1>1, <2>1, <2>2
  <1> QED
    BY <1>2, <1>4 DEF HandlerInv, NoCallAfterReturn

(* The steps of user threads keep the handlers apart. *)
LEMMA UserHandlers ==
    ASSUME Shape, HandlerInv, NEW u \in Users, ClientCall(u) \/ DatatypeCall(u) \/ GoOn(u)
    PROVE  HandlerInv'
  <1>1. CASE \E k \in Keys, as \in scenario.as : BuildVacant(u, k, as)
    BY <1>1, BuildHandlers
  <1>2. CASE \E i \in DOMAIN dt, p \in Priorities : SetHandler(u, i, p) \/ UnsetHandler(u, i, p)
    BY <1>2, HandlerStep
  <1>3. CASE \/ \E k \in Keys : BuildOccupied(u, k) \/ GetDatatype(u, k)
             \/ \E i \in DOMAIN dt : DropHandle(u, i) \/ CheckSubscribed(u, i)
                                       \/ CheckDisabled(u, i) \/ CheckWritable(u, i)
             \/ ReadExisting(u) \/ SendBestEffort(u) \/ SendSync(u)
    <2>1. UNCHANGED <<dt, tasks, handlers, returned>>
      BY <1>3 DEF BuildOccupied, GetDatatype, DropHandle, CheckSubscribed, CheckDisabled,
                  CheckWritable, ReadExisting, SendBestEffort, SendSync, handlerVars
    <2> QED
      BY <2>1, QuietHandlers
  <1>4. CASE SetUnsubscribing(u) \/ ExecuteOp(u) \/ Commit(u)
              \/ (\E refused \in BOOLEAN : Rollback(u, refused)) \/ ReportRefusal(u)
    <2> DEFINE i == pc[u].inst
    <2>1. i \in DOMAIN dt
      BY <1>4, SetUnsubscribingEffect, ExecuteOpEffect, CommitEffect, RollbackEffect,
         ReportRefusalEffect
    <2>2. dt[i] \in Datatypes
      BY <2>1, ChanOf
    <2>3. UNCHANGED <<handlers, returned>>
      BY <1>4 DEF SetUnsubscribing, ExecuteOp, Commit, Rollback, ReportRefusal, handlerVars
    <2>4. DOMAIN dt' = DOMAIN dt /\ \A j \in DOMAIN dt : j # i => dt'[j] = dt[j]
      BY <1>4, SetUnsubscribingEffect, ExecuteOpEffect, CommitEffect, RollbackEffect
         DEF ReportRefusal
    <2>5. dt'[i].handlers = dt[i].handlers
      <3>1. CASE SetUnsubscribing(u)
        BY <2>2, <3>1, SetUnsubscribingEffect DEF Datatypes
      <3>2. CASE ExecuteOp(u)
        BY <2>2, <3>2, ExecuteOpEffect DEF Datatypes
      <3>3. CASE Commit(u)
        BY <2>2, <3>3, CommitEffect DEF Datatypes
      <3>4. CASE \E refused \in BOOLEAN : Rollback(u, refused)
        <4>1. dt'[i] = RolledBack(dt[i])
          BY <3>4, RollbackEffect
        <4> QED
          BY <2>2, <4>1 DEF RolledBack, Datatypes
      <3>5. CASE ReportRefusal(u)
        BY <3>5 DEF ReportRefusal
      <3> QED
        BY <1>4, <3>1, <3>2, <3>3, <3>4, <3>5
    <2>6. \E e : tasks' \subseteq tasks \cup Dispatch(i, e)
      <3>1. CASE SetUnsubscribing(u)
        BY <3>1, Dispatched DEF SetUnsubscribing
      <3>2. CASE ExecuteOp(u) \/ Commit(u)
        BY <3>2 DEF ExecuteOp, Commit
      <3>3. CASE \E refused \in BOOLEAN : Rollback(u, refused)
        <4>1. tasks' = tasks \cup Told(i, RolledBack(dt[i]).state)
          BY <3>3 DEF Rollback
        <4> QED
          BY <4>1, Dispatched
      <3>4. CASE ReportRefusal(u)
        BY <3>4 DEF ReportRefusal
      <3> QED
        BY <1>4, <3>1, <3>2, <3>3, <3>4
    <2>7. SameHandlers
      BY <2>3, <2>4, <2>5 DEF SameHandlers
    <2> QED
      BY <2>1, <2>6, <2>7, SameHandlersKeep
  <1> QED
    BY <1>1, <1>2, <1>3, <1>4 DEF ClientCall, DatatypeCall, GoOn

(* The steps of event loops keep the handlers apart. *)
LEMMA LoopHandlers ==
    ASSUME Shape, HandlerInv, NEW i \in DOMAIN dt, LoopStep(i)
    PROVE  HandlerInv'
  <1>1. CASE \/ LoopCheck(i) \/ SelectBounded(i) \/ SelectUnbounded(i) \/ LoopPush(i)
             \/ LoopDetach(i) \/ LoopAnswer(i)
    <2>1. UNCHANGED <<dt, tasks, handlers, returned>>
      BY <1>1 DEF LoopCheck, SelectBounded, SelectUnbounded, LoopPush, LoopDetach, LoopAnswer,
                  handlerVars
    <2> QED
      BY <2>1, QuietHandlers
  <1>2. CASE LoopApply(i) \/ LoopDisable(i) \/ LoopReport(i)
    <2>1. dt[i] \in Datatypes
      BY ChanOf
    <2>2. UNCHANGED <<handlers, returned>>
      BY <1>2 DEF LoopApply, LoopDisable, LoopReport, handlerVars
    <2>3. DOMAIN dt' = DOMAIN dt /\ \A j \in DOMAIN dt : j # i => dt'[j] = dt[j]
      BY <1>2, LoopApplyEffect, LoopDisableEffect DEF LoopReport
    <2>4. dt'[i].handlers = dt[i].handlers
      <3>1. CASE LoopApply(i)
        <4>1. dt'[i] = Pulled(dt[i], loop[i].reply)
          BY <3>1, LoopApplyEffect
        <4> QED
          BY <2>1, <4>1 DEF Pulled, Datatypes
      <3>2. CASE LoopDisable(i)
        <4>1. dt'[i] = Disable(dt[i])
          BY <3>2, LoopDisableEffect
        <4> QED
          BY <2>1, <4>1 DEF Disable, Datatypes
      <3> QED
        BY <1>2, <3>1, <3>2 DEF LoopReport
    <2>5. \E e : tasks' \subseteq tasks \cup Dispatch(i, e)
      BY <1>2, Dispatched DEF LoopApply, LoopDisable, LoopReport, SetStateThen
    <2>6. SameHandlers
      BY <2>2, <2>3, <2>4 DEF SameHandlers
    <2> QED
      BY <2>5, <2>6, SameHandlersKeep
  <1> QED
    BY <1>1, <1>2 DEF LoopStep

(* Drops and the runtime keep the handlers apart. *)
LEMMA RestHandlers ==
    ASSUME Shape, HandlerInv,
           DropClient \/ (\E i \in DOMAIN dt : DropDatatype(i)) \/ Runtime
    PROVE  HandlerInv'
  <1>1. UNCHANGED <<dt, handlers, returned>> /\ tasks' \subseteq tasks
    BY DEF DropClient, DropDatatype, Runtime, RunTask, handlerVars
  <1> QED
    BY <1>1 DEF HandlerInv, HandlersApart, NoCallAfterReturn

-----------------------------------------------------------------------------
(* Calls and their answers. *)

(* A thread in a call has a handle, or the manager's lock. *)
Placed(u) ==
    /\ Free(u) \/ u \in handles[pc[u].inst] \/ (pc[u].at = "existing" /\ client)
    /\ mlock = u <=> pc[u].at = "existing"

(* The thread is in a transaction of the datatype. *)
InTx(u, i) == pc[u] = [at |-> "tx", inst |-> i]

(* The thread waits for the answer of its sync(). *)
Waits(u, i) == pc[u] = [at |-> "waiting", inst |-> i]

(* What the loop does, or will do when it has detached. *)
Phase(l) == IF l.at = "detaching" THEN l.next ELSE l

(* The caller the loop is going to answer. *)
Asked(l) ==
    IF Phase(l).at \in {"push", "apply", "failed", "report", "answer"}
    THEN Phase(l).resp ELSE Nobody

(* Whoever the loop is going to answer, now or for an event in its channel, *)
(* waits at this datatype, and is answered once.                            *)
Answerable(i) ==
    LET q == chan[i].unbounded
    IN  /\ Asked(loop[i]) # Nobody => Waits(Asked(loop[i]), i)
        /\ \A n \in DOMAIN q : q[n] # Stop =>
              /\ Waits(q[n].resp, i) /\ q[n].resp # Asked(loop[i])
              /\ \A m \in DOMAIN q : q[m] = q[n] => m = n

(* Threads in calls have a handle or the lock, a datatype has one           *)
(* transaction at a time, and answers find their callers.                   *)
CallInv ==
    /\ \A u \in Users : Placed(u)
    /\ \A u, v \in Users, i \in DOMAIN dt : InTx(u, i) /\ InTx(v, i) => u = v
    /\ \A i \in DOMAIN dt : Answerable(i)

(* Nobody calls at first. *)
LEMMA InitCalls == Init => CallInv
  <1> SUFFICES ASSUME Init PROVE CallInv
    OBVIOUS
  <1>1. \A u \in Users : Placed(u)
    BY ClientAssumption DEF Init, Placed, Free, Idle
  <1>2. DOMAIN dt = {}
    BY DEF Init
  <1> QED
    BY <1>1, <1>2 DEF CallInv

(* The caller each record of a loop is going to answer. *)
LEMMA AskedOf ==
    /\ \A m, r : Asked(Respond(m, r)) = r
    /\ \A r : Asked([at |-> "push", resp |-> r]) = r
    /\ \A r, p : Asked([at |-> "apply", resp |-> r, reply |-> p]) = r
    /\ \A r : Asked([at |-> "failed", resp |-> r]) = r
    /\ \A r : Asked([at |-> "report", resp |-> r]) = r
    /\ \A m : Asked([at |-> "check", mode |-> m]) = Nobody /\ Asked([at |-> "select", mode |-> m]) = Nobody
    /\ Asked([at |-> "exited"]) = Nobody /\ Asked([at |-> "panicked"]) = Nobody
    /\ \A l : l.at # "detaching" => Asked([at |-> "detaching", next |-> l]) = Asked(l)
    /\ \A l : l.at \in {"push", "apply", "failed", "report", "answer"} => Asked(l) = l.resp
    /\ \A l : l.at \in {"check", "select"} => Asked(l) = Nobody
    /\ \A l : l.at = "detaching" /\ l.next.at # "detaching" => Asked(l) = Asked(l.next)
  BY DEF Asked, Phase, Respond

(* Callers are user threads, and an event with a caller is a Push. *)
LEMMA AskedUser ==
    ASSUME Shape, NEW i \in DOMAIN dt
    PROVE  /\ Asked(loop[i]) \in Responses
           /\ \A n \in DOMAIN chan[i].unbounded :
                 chan[i].unbounded[n] # Stop =>
                    /\ chan[i].unbounded[n].resp \in Users
                    /\ chan[i].unbounded[n] = [kind |-> "Push", resp |-> chan[i].unbounded[n].resp]
  <1>1. ASSUME NEW l \in Loops PROVE Phase(l) \in Phases
    BY DEF Phase, Loops, Phases
  <1>2. ASSUME NEW l \in Phases PROVE l.at # "detaching" /\ l \in Loops
    BY DEF Phases, Loops
  <1>3. Asked(loop[i]) \in Responses
    BY <1>1, <1>2, ChanOf, LoopFields DEF Asked, Responses
  <1>4. \A n \in DOMAIN chan[i].unbounded : chan[i].unbounded[n] \in Events
    BY ChanOf
  <1>5. \A e \in Events : e # Stop => e.resp \in Users /\ e = [kind |-> "Push", resp |-> e.resp]
    BY DEF Events
  <1> QED
    BY <1>3, <1>4, <1>5

(* Steps after which the same events and callers wait. *)
LEMMA AnswerableKeep ==
    ASSUME Shape, NEW i \in DOMAIN dt, Answerable(i), Asked(loop'[i]) = Asked(loop[i]),
           chan'[i].unbounded = chan[i].unbounded, \A u \in Users : Waits(u, i) => Waits(u, i)'
    PROVE  Answerable(i)'
  BY AskedUser DEF Answerable, Responses

(* A user thread that neither holds the manager's lock nor waits moves on   *)
(* within its datatype.                                                     *)
LEMMA MovesCalls ==
    ASSUME Shape, CallInv, NEW u \in Users, NEW p, Goto(u, p),
           p = Idle \/ \E a \in UserPcs \ {"existing"}, i \in DOMAIN dt :
                            p = [at |-> a, inst |-> i] /\ u \in handles[i],
           p.at = "tx" => \A v \in Users : ~InTx(v, p.inst),
           pc[u].at \notin {"existing", "waiting"},
           UNCHANGED <<client, mlock, handles, loop>>, DOMAIN dt' = DOMAIN dt
    PROVE  /\ \A v \in Users : Placed(v)'
           /\ \A v, w \in Users, i \in DOMAIN dt' : InTx(v, i)' /\ InTx(w, i)' => v = w
           /\ \A i \in DOMAIN dt : chan'[i].unbounded = chan[i].unbounded => Answerable(i)'
  <1>1. pc'[u] = p /\ \A v \in Users : v # u => pc'[v] = pc[v]
    BY GoesTo
  <1>2. ASSUME NEW v \in Users PROVE Placed(v)'
    <2>1. CASE v = u
      <3>1. mlock # u
        BY DEF CallInv, Placed
      <3>2. p = Idle \/ (p.at # "existing" /\ u \in handles[p.inst])
        OBVIOUS
      <3>3. Idle.at # "existing"
        BY DEF Idle
      <3> QED BY <1>1, <2>1, <3>1, <3>2, <3>3 DEF Placed, Free
    <2>2. CASE v # u
      BY <1>1, <2>2 DEF CallInv, Placed, Free
    <2> QED
      BY <2>1, <2>2
  <1>3. ASSUME NEW v \in Users, NEW w \in Users, NEW i \in DOMAIN dt', InTx(v, i)', InTx(w, i)'
        PROVE  v = w
    <2>1. \A x \in Users : InTx(x, i)' /\ x # u => InTx(x, i)
      BY <1>1 DEF InTx
    <2>2. InTx(u, i)' => p.at = "tx" /\ p.inst = i
      BY <1>1 DEF InTx
    <2> QED
      BY <1>3, <2>1, <2>2 DEF CallInv
  <1>4. ASSUME NEW i \in DOMAIN dt, chan'[i].unbounded = chan[i].unbounded PROVE Answerable(i)'
    <2>1. ASSUME NEW v \in Users, Waits(v, i) PROVE Waits(v, i)'
      BY <1>1, <2>1 DEF Waits
    <2> QED
      BY <1>4, <2>1, AnswerableKeep DEF CallInv
  <1> QED
    BY <1>2, <1>3, <1>4

(* The steps of user threads keep the calls in order. *)
LEMMA UserCalls ==
    ASSUME Shape, CallInv, NEW u \in Users, ClientCall(u) \/ DatatypeCall(u) \/ GoOn(u)
    PROVE  CallInv'
  <1>0. Placed(u) /\ (pc[u] = Idle \/ (pc[u].at \in UserPcs /\ pc[u].inst \in DOMAIN dt))
    BY CallOf DEF CallInv
  <1>1. CASE \E k \in Keys, as \in scenario.as : BuildVacant(u, k, as)
    <2>1. PICK k \in Keys, as \in scenario.as : BuildVacant(u, k, as)
      BY <1>1
    <2>2. UNCHANGED <<client, mlock, pc>>
      BY <2>1 DEF BuildVacant
    <2>3. PICK i : i = Len(dt) + 1
      OBVIOUS
    <2>4. /\ DOMAIN dt' = DOMAIN dt \cup {i} /\ i \notin DOMAIN dt
          /\ \A j \in DOMAIN dt : chan'[j] = chan[j] /\ loop'[j] = loop[j] /\ handles'[j] = handles[j]
          /\ loop'[i] = [at |-> "check", mode |-> "Normal"] /\ chan'[i].unbounded = <<>>
      BY <2>1, <2>3, BuildVacantEffect
    <2>5. ASSUME NEW v \in Users PROVE Placed(v)'
      <3>1. Placed(v) /\ (pc[v] = Idle \/ pc[v].inst \in DOMAIN dt)
        BY CallOf DEF CallInv
      <3> QED
        BY <2>2, <2>4, <3>1 DEF Placed, Free
    <2>6. \A v \in Users : ~InTx(v, i)
      BY <2>4, CallOf DEF InTx, Idle
    <2>7. \A v, w \in Users, j \in DOMAIN dt' : InTx(v, j)' /\ InTx(w, j)' => v = w
      BY <2>2, <2>4, <2>6 DEF InTx, CallInv
    <2>8. ASSUME NEW j \in DOMAIN dt PROVE Answerable(j)'
      BY <2>2, <2>4, AnswerableKeep DEF CallInv, Waits
    <2>9. Answerable(i)'
      <3>1. DOMAIN chan'[i].unbounded = {} /\ Asked(loop'[i]) = Nobody
        BY <2>4, AskedOf
      <3> QED
        BY <3>1 DEF Answerable
    <2> QED
      BY <2>4, <2>5, <2>7, <2>8, <2>9 DEF CallInv
  <1>2. CASE \E k \in Keys : BuildOccupied(u, k)
    <2>1. PICK k \in Keys : BuildOccupied(u, k)
      BY <1>2
    <2>2. /\ pc[u] = Idle /\ mlock = Nobody /\ mlock' = u /\ client
          /\ Goto(u, [at |-> "existing", inst |-> manager[k]]) /\ manager[k] # NoInst
          /\ UNCHANGED <<client, dt, chan, loop, handles>>
      BY <2>1 DEF BuildOccupied, MayBuild, Free
    <2>3. manager[k] \in DOMAIN dt
      BY <2>2 DEF Shape
    <2>4. pc'[u] = [at |-> "existing", inst |-> manager[k]] /\ \A v \in Users : v # u => pc'[v] = pc[v]
      BY <2>2, <2>3, GoesTo DEF UserPcs
    <2>5. ASSUME NEW v \in Users PROVE Placed(v)'
      BY <2>2, <2>4, ClientAssumption DEF CallInv, Placed, Free
    <2>6. \A v, w \in Users, j \in DOMAIN dt' : InTx(v, j)' /\ InTx(w, j)' => v = w
      <3>1. \A v \in Users, j \in DOMAIN dt : InTx(v, j)' => InTx(v, j)
        BY <2>4 DEF InTx
      <3> QED
        BY <2>2, <3>1 DEF CallInv
    <2>7. ASSUME NEW j \in DOMAIN dt PROVE Answerable(j)'
      <3>1. \A v \in Users : Waits(v, j) => Waits(v, j)'
        BY <2>2, <2>4 DEF Waits, Idle
      <3> QED
        BY <2>2, <3>1, AnswerableKeep DEF CallInv
    <2> QED
      BY <2>2, <2>5, <2>6, <2>7 DEF CallInv
  <1>3. CASE ReadExisting(u)
    <2>1. /\ pc[u].at = "existing" /\ mlock' = Nobody /\ Goto(u, Idle)
          /\ UNCHANGED <<client, dt, chan, loop, handles>>
      BY <1>3 DEF ReadExisting
    <2>2. pc'[u] = Idle /\ \A v \in Users : v # u => pc'[v] = pc[v]
      BY <2>1, GoesTo
    <2>3. ASSUME NEW v \in Users PROVE Placed(v)'
      <3>1. mlock = u /\ Idle.at # "existing" /\ Nobody # v
        BY <1>0, <2>1, ClientAssumption DEF Placed, Idle
      <3>2. CASE v = u
        BY <2>1, <2>2, <3>1, <3>2 DEF Placed, Free
      <3>3. CASE v # u
        BY <2>1, <2>2, <3>1, <3>3 DEF CallInv, Placed, Free
      <3> QED
        BY <3>2, <3>3
    <2>4. \A v, w \in Users, j \in DOMAIN dt' : InTx(v, j)' /\ InTx(w, j)' => v = w
      <3>1. \A v \in Users, j \in DOMAIN dt : InTx(v, j)' => InTx(v, j)
        BY <2>2 DEF InTx, Idle
      <3> QED
        BY <2>1, <3>1 DEF CallInv
    <2>5. ASSUME NEW j \in DOMAIN dt PROVE Answerable(j)'
      <3>1. \A v \in Users : Waits(v, j) => Waits(v, j)'
        BY <2>1, <2>2 DEF Waits
      <3> QED
        BY <2>1, <3>1, AnswerableKeep DEF CallInv
    <2> QED
      BY <2>1, <2>3, <2>4, <2>5 DEF CallInv
  <1>4. CASE (\E k \in Keys : GetDatatype(u, k)) \/ (\E i \in DOMAIN dt : DropHandle(u, i))
    <2>1. pc[u] = Idle /\ UNCHANGED <<client, mlock, dt, chan, loop, pc>>
      BY <1>4 DEF GetDatatype, DropHandle, Free, registryVars
    <2>2. \A j \in DOMAIN dt, v \in Users : v # u => (v \in handles'[j] <=> v \in handles[j])
      BY <1>4, HandlesEffect
    <2>3. ASSUME NEW v \in Users PROVE Placed(v)'
      BY <2>1, <2>2, CallOf DEF CallInv, Placed, Free
    <2>4. ASSUME NEW j \in DOMAIN dt PROVE Answerable(j)'
      BY <2>1, AnswerableKeep DEF CallInv, Waits
    <2> QED
      BY <2>1, <2>3, <2>4 DEF CallInv, InTx
  <1>5. CASE \E i \in DOMAIN dt, p \in Priorities : SetHandler(u, i, p) \/ UnsetHandler(u, i, p)
    <2>1. UNCHANGED <<client, mlock, chan, loop, handles, pc>>
      BY <1>5 DEF SetHandler, UnsetHandler, registryVars
    <2>2. DOMAIN dt' = DOMAIN dt
      BY <1>5, HandlerEffect
    <2>3. ASSUME NEW v \in Users PROVE Placed(v)'
      BY <2>1 DEF CallInv, Placed, Free
    <2>4. ASSUME NEW j \in DOMAIN dt PROVE Answerable(j)'
      BY <2>1, AnswerableKeep DEF CallInv, Waits
    <2> QED
      BY <2>1, <2>2, <2>3, <2>4 DEF CallInv, InTx
  <1>6. CASE \E i \in DOMAIN dt : CheckSubscribed(u, i) \/ CheckDisabled(u, i) \/ CheckWritable(u, i)
    <2>1. PICK i \in DOMAIN dt : CheckSubscribed(u, i) \/ CheckDisabled(u, i) \/ CheckWritable(u, i)
      BY <1>6
    <2>2. PICK a \in {"unsubscribe", "sync", "write"} : Goto(u, [at |-> a, inst |-> i])
      BY <2>1 DEF CheckSubscribed, CheckDisabled, CheckWritable
    <2>3. /\ pc[u] = Idle /\ u \in handles[i]
          /\ UNCHANGED <<client, mlock, dt, chan, loop, handles>>
      BY <2>1 DEF CheckSubscribed, CheckDisabled, CheckWritable, Holds, Free, registryVars
    <2>4. a \in UserPcs \ {"existing"} /\ a # "tx" /\ pc[u].at \notin {"existing", "waiting"}
      BY <2>3 DEF UserPcs, Idle
    <2>5. /\ \A v \in Users : Placed(v)'
          /\ \A v, w \in Users, j \in DOMAIN dt' : InTx(v, j)' /\ InTx(w, j)' => v = w
          /\ \A j \in DOMAIN dt : chan'[j].unbounded = chan[j].unbounded => Answerable(j)'
      BY <2>2, <2>3, <2>4, MovesCalls
    <2> QED
      BY <2>3, <2>5 DEF CallInv
  <1>7. CASE SendSync(u)
    <2>1. PICK i : i = pc[u].inst
      OBVIOUS
    <2>a. PICK q, r : q = chan[i].unbounded /\ r = Asked(loop[i])
      OBVIOUS
    <2> DEFINE e == [kind |-> "Push", resp |-> u]
    <2>2. /\ pc[u].at = "sync" /\ Goto(u, [at |-> "waiting", inst |-> i])
          /\ UNCHANGED <<client, mlock, dt, loop, handles>>
      BY <1>7, <2>1 DEF SendSync, registryVars
    <2>3. /\ i \in DOMAIN dt /\ chan'[i].unbounded = Append(q, e)
          /\ \A j \in DOMAIN dt : j # i => chan'[j] = chan[j]
      BY <1>7, <2>1, <2>a, SendSyncEffect
    <2>4. u \in handles[i]
      BY <1>0, <2>1, <2>2 DEF Placed, Free, Idle
    <2>5. /\ \A v \in Users : Placed(v)'
          /\ \A v, w \in Users, j \in DOMAIN dt' : InTx(v, j)' /\ InTx(w, j)' => v = w
          /\ \A j \in DOMAIN dt : chan'[j].unbounded = chan[j].unbounded => Answerable(j)'
      BY <2>2, <2>3, <2>4, MovesCalls DEF UserPcs
    <2>6. Answerable(i)'
      <3>1. pc'[u] = [at |-> "waiting", inst |-> i] /\ \A v \in Users : v # u => pc'[v] = pc[v]
        BY <2>2, <2>3, GoesTo DEF UserPcs
      <3>2. /\ Answerable(i) /\ q \in Seq(Events) /\ ~Waits(u, i)
            /\ r \in Responses
            /\ \A n \in DOMAIN q : q[n] # Stop =>
                  q[n].resp \in Users /\ q[n] = [kind |-> "Push", resp |-> q[n].resp]
        BY <2>2, <2>3, <2>a, ChanOf, AskedUser DEF CallInv, Waits
      <3>3. \A v \in Users : Waits(v, i) => Waits(v, i)' /\ v # u
        BY <3>1, <3>2 DEF Waits
      <3>4. Asked(loop'[i]) = r
        BY <2>2, <2>a
      <3>5. r # Nobody => Waits(r, i)' /\ r # u
        BY <2>a, <3>2, <3>3 DEF Answerable, Responses
      <3>6. u # r /\ Waits(u, i)' /\ e.resp = u /\ e # Stop
        BY <3>1, <3>5, ClientAssumption DEF Waits, Stop
      <3>7. \A n \in DOMAIN q : q[n] # Stop => /\ Waits(q[n].resp, i)' /\ q[n].resp # r
                                               /\ q[n] # e /\ \A m \in DOMAIN q : q[m] = q[n] => m = n
        BY <2>a, <3>2, <3>3, <3>6 DEF Answerable
      <3>8. /\ DOMAIN Append(q, e) = DOMAIN q \cup {Len(q) + 1} /\ Append(q, e)[Len(q) + 1] = e
            /\ \A n \in DOMAIN q : Append(q, e)[n] = q[n]
        <4>1. e \in Events
          BY DEF Events
        <4> HIDE DEF e
        <4> QED
          BY <3>2, <4>1, Extend
      <3> HIDE DEF e
      <3>9. ASSUME NEW n \in DOMAIN Append(q, e), Append(q, e)[n] # Stop
            PROVE  /\ Waits(Append(q, e)[n].resp, i)' /\ Append(q, e)[n].resp # r
                   /\ \A m \in DOMAIN Append(q, e) : Append(q, e)[m] = Append(q, e)[n] => m = n
        BY <3>6, <3>7, <3>8, <3>9
      <3> QED
        BY <2>3, <3>4, <3>5, <3>9 DEF Answerable
    <2> QED
      BY <2>2, <2>3, <2>5, <2>6 DEF CallInv
  <1>8. CASE SetUnsubscribing(u) \/ SendBestEffort(u) \/ ExecuteOp(u) \/ Commit(u)
              \/ (\E refused \in BOOLEAN : Rollback(u, refused)) \/ ReportRefusal(u)
    <2>1. PICK i : i = pc[u].inst
      OBVIOUS
    <2>2. /\ pc[u].at \in {"unsubscribe", "send", "write", "tx", "report"}
          /\ UNCHANGED <<client, mlock, loop, handles>>
      BY <1>8 DEF SetUnsubscribing, SendBestEffort, ExecuteOp, Commit, Rollback, ReportRefusal,
                  registryVars
    <2>3. u \in handles[i] /\ i \in DOMAIN dt
      BY <1>0, <2>1, <2>2 DEF Placed, Free, Idle
    <2>4. PICK p : /\ Goto(u, p)
                   /\ p = Idle \/ \E a \in {"send", "tx", "report"} : p = [at |-> a, inst |-> i]
                   /\ p.at = "tx" => \A v \in Users : ~InTx(v, i)
      <3>1. CASE ExecuteOp(u)
        BY <2>1, <3>1 DEF ExecuteOp, InTx
      <3>2. CASE ~ExecuteOp(u)
        BY <1>8, <2>1, <3>2 DEF SetUnsubscribing, SendBestEffort, Commit, Rollback,
                  AfterRollback, ReportRefusal, Idle
      <3> QED
        BY <3>1, <3>2
    <2>5. p = Idle \/ \E a \in UserPcs \ {"existing"}, j \in DOMAIN dt :
                        p = [at |-> a, inst |-> j] /\ u \in handles[j]
      BY <2>3, <2>4 DEF UserPcs
    <2>6. p.at = "tx" => \A v \in Users : ~InTx(v, p.inst)
      BY <2>4 DEF Idle
    <2>7. DOMAIN dt' = DOMAIN dt /\ \A j \in DOMAIN dt : chan'[j].unbounded = chan[j].unbounded
      <3>1. CASE SetUnsubscribing(u)
        BY <3>1, SetUnsubscribingEffect DEF SetUnsubscribing
      <3>2. CASE SendBestEffort(u)
        BY <3>2, SendBestEffortEffect DEF SendBestEffort
      <3>3. CASE ExecuteOp(u)
        BY <3>3, ExecuteOpEffect DEF ExecuteOp
      <3>4. CASE Commit(u)
        BY <3>4, CommitEffect
      <3>5. CASE \E refused \in BOOLEAN : Rollback(u, refused)
        BY <3>5, RollbackEffect DEF Rollback
      <3>6. CASE ReportRefusal(u)
        BY <3>6 DEF ReportRefusal
      <3> QED
        BY <1>8, <3>1, <3>2, <3>3, <3>4, <3>5, <3>6
    <2>8. /\ \A v \in Users : Placed(v)'
          /\ \A v, w \in Users, j \in DOMAIN dt' : InTx(v, j)' /\ InTx(w, j)' => v = w
          /\ \A j \in DOMAIN dt : chan'[j].unbounded = chan[j].unbounded => Answerable(j)'
      BY <2>2, <2>4, <2>5, <2>6, <2>7, MovesCalls
    <2> QED
      BY <2>7, <2>8 DEF CallInv
  <1> QED
    BY <1>1, <1>2, <1>3, <1>4, <1>5, <1>6, <1>7, <1>8 DEF ClientCall, DatatypeCall, GoOn

(* An answer, or a panic that drops the caller's channel, ends one waiting  *)
(* call; nobody else expects it.                                            *)
LEMMA AnswerCalls ==
    ASSUME Shape, CallInv, NEW i \in DOMAIN dt, NEW r \in Responses, r = Asked(loop[i]),
           \A v \in Users : pc'[v] = IF v = r THEN Idle ELSE pc[v],
           Asked(loop'[i]) = Nobody, \A j \in DOMAIN dt : j # i => loop'[j] = loop[j],
           UNCHANGED <<client, mlock, handles, dt, chan>>
    PROVE  CallInv'
  <1>1. r # Nobody => Waits(r, i)
    BY DEF CallInv, Answerable
  <1>2. ASSUME NEW v \in Users PROVE Placed(v)'
    <2>1. CASE v = r
      <3>1. pc[v].at = "waiting" /\ pc'[v] = Idle /\ Idle.at # "existing"
        BY <1>1, <2>1, ClientAssumption DEF Waits, Idle
      <3>2. mlock # v
        BY <3>1 DEF CallInv, Placed
      <3> QED
        BY <3>1, <3>2 DEF Placed, Free
    <2>2. CASE v # r
      <3>1. pc'[v] = pc[v] /\ Placed(v)
        BY <2>2 DEF CallInv
      <3> QED
        BY <3>1 DEF Placed, Free
    <2> QED
      BY <2>1, <2>2
  <1>3. \A v \in Users : \A j : InTx(v, j)' => InTx(v, j)
    BY DEF InTx, Idle
  <1>4. ASSUME NEW j \in DOMAIN dt, j # i PROVE Answerable(j)'
    <2>1. \A v \in Users : Waits(v, j) => v # r
      BY <1>1, <1>4, ClientAssumption DEF Waits
    <2>2. \A v \in Users : Waits(v, j) => Waits(v, j)'
      BY <2>1 DEF Waits
    <2> QED
      BY <1>4, <2>2, AnswerableKeep DEF CallInv
  <1>5. Answerable(i)'
    <2>1. PICK q : q = chan[i].unbounded
      OBVIOUS
    <2>2. \A n \in DOMAIN q : q[n] # Stop =>
             /\ q[n].resp \in Users /\ Waits(q[n].resp, i) /\ q[n].resp # r
             /\ \A m \in DOMAIN q : q[m] = q[n] => m = n
      BY <2>1, AskedUser DEF CallInv, Answerable
    <2>3. \A n \in DOMAIN q : q[n] # Stop => Waits(q[n].resp, i)' /\ q[n].resp # Nobody
      BY <2>2, ClientAssumption DEF Waits
    <2>4. chan'[i].unbounded = q
      BY <2>1
    <2> QED
      BY <2>2, <2>3, <2>4 DEF Answerable
  <1> QED
    BY <1>2, <1>3, <1>4, <1>5 DEF CallInv

(* Loop steps after which the same caller is to be answered. *)
LEMMA SameAskedCalls ==
    ASSUME Shape, CallInv, NEW i \in DOMAIN dt, Asked(loop'[i]) = Asked(loop[i]),
           \A j \in DOMAIN dt : j # i => loop'[j] = loop[j],
           \A j \in DOMAIN dt : chan'[j].unbounded = chan[j].unbounded,
           DOMAIN dt' = DOMAIN dt, UNCHANGED <<client, mlock, handles, pc>>
    PROVE  CallInv'
  <1>1. ASSUME NEW v \in Users PROVE Placed(v)'
    BY DEF CallInv, Placed, Free
  <1>2. ASSUME NEW j \in DOMAIN dt PROVE Answerable(j)'
    BY AnswerableKeep DEF CallInv, Waits
  <1> QED
    BY <1>1, <1>2 DEF CallInv, InTx

(* The steps of event loops keep the calls in order. *)
LEMMA LoopCalls ==
    ASSUME Shape, CallInv, NEW i \in DOMAIN dt, LoopStep(i)
    PROVE  CallInv'
  <1>0. loop[i] \in Loops /\ DOMAIN loop = DOMAIN dt
    BY ChanOf, Domains
  <1>1. CASE LoopCheck(i) \/ (SelectBounded(i) /\ ~SelectUnbounded(i))
    <2>1. UNCHANGED <<client, mlock, handles, pc, dt>>
      BY <1>1 DEF LoopCheck, SelectBounded, registryVars
    <2>2. /\ \A j \in DOMAIN dt : j # i => loop'[j] = loop[j]
          /\ \A j \in DOMAIN dt : chan'[j].unbounded = chan[j].unbounded
      BY <1>1, LoopWalkEffect DEF LoopCheck, SelectUnbounded, LoopAt
    <2>3. Asked(loop[i]) = Nobody
      BY <1>1, AskedOf DEF LoopCheck, SelectBounded, LoopAt
    <2>4. Asked(loop'[i]) = Nobody
      <3>1. CASE LoopCheck(i)
        <4>1. \/ loop'[i] = [at |-> "push", resp |-> Nobody]
              \/ loop'[i] = [at |-> "select", mode |-> loop[i].mode]
          BY <1>0, <3>1 DEF LoopCheck
        <4> QED BY <4>1, AskedOf
      <3>2. CASE SelectBounded(i)
        <4>1. \/ loop'[i] = [at |-> "push", resp |-> Nobody]
              \/ loop'[i] = Respond("Stopped", Nobody)
          BY <1>0, <3>2 DEF SelectBounded, Take
        <4> QED BY <4>1, AskedOf
      <3> QED
        BY <1>1, <3>1, <3>2
    <2> QED
      BY <2>1, <2>2, <2>3, <2>4, SameAskedCalls
  <1>2. CASE SelectUnbounded(i)
    <2>1. PICK q : q = chan[i].unbounded
      OBVIOUS
    <2>2. /\ UNCHANGED <<client, mlock, handles, pc, dt>>
          /\ \A j \in DOMAIN dt : j # i => loop'[j] = loop[j] /\ chan'[j] = chan[j]
          /\ q # <<>> /\ chan'[i].unbounded = Tail(q) /\ q \in Seq(Events)
      BY <1>2, <2>1, LoopWalkEffect, ChanOf DEF SelectUnbounded, registryVars
    <2>3. Asked(loop'[i]) = IF q[1] = Stop THEN Nobody ELSE q[1].resp
      <3>1. Head(q) = q[1]
        BY <2>2
      <3>2. CASE q[1] = Stop
        <4>1. loop'[i] = [at |-> "exited"]
          BY <1>0, <1>2, <2>1, <3>1, <3>2 DEF SelectUnbounded
        <4> QED BY <3>2, <4>1, AskedOf
      <3>3. CASE q[1] # Stop
        <4>1. \/ loop'[i] = [at |-> "push", resp |-> q[1].resp]
              \/ loop'[i] = Respond("Stopped", q[1].resp)
          BY <1>0, <1>2, <2>1, <3>1, <3>3 DEF SelectUnbounded, Take
        <4> QED BY <3>3, <4>1, AskedOf
      <3> QED
        BY <3>2, <3>3
    <2>4. \A n \in DOMAIN q : q[n] # Stop =>
             /\ Waits(q[n].resp, i) /\ q[n].resp \in Users
             /\ q[n] = [kind |-> "Push", resp |-> q[n].resp]
             /\ \A m \in DOMAIN q : q[m] = q[n] => m = n
      BY <2>1, AskedUser DEF CallInv, Answerable
    <2>5. \A n \in DOMAIN Tail(q) : n + 1 \in DOMAIN q /\ Tail(q)[n] = q[n + 1] /\ n \in Nat /\ n + 1 # 1
      BY <2>2
    <2>6. 1 \in DOMAIN q
      BY <2>2
    <2>7. \A u \in Users : Waits(u, i) => Waits(u, i)'
      BY <2>2 DEF Waits
    <2>8. Answerable(i)'
      <3>1. Asked(loop'[i]) # Nobody => Waits(Asked(loop'[i]), i)
        BY <2>3, <2>4, <2>6
      <3>2. ASSUME NEW n \in DOMAIN Tail(q), Tail(q)[n] # Stop
            PROVE  /\ Waits(Tail(q)[n].resp, i) /\ Tail(q)[n].resp # Asked(loop'[i])
                   /\ \A m \in DOMAIN Tail(q) : Tail(q)[m] = Tail(q)[n] => m = n
        <4>1. q[n + 1] # Stop /\ n + 1 \in DOMAIN q /\ n + 1 # 1 /\ Tail(q)[n] = q[n + 1] /\ n \in Nat
          BY <2>5, <3>2
        <4>2. q[n + 1].resp # Asked(loop'[i])
          BY <2>3, <2>4, <2>6, <4>1, ClientAssumption
        <4>3. ASSUME NEW m \in DOMAIN Tail(q), Tail(q)[m] = Tail(q)[n] PROVE m = n
          <5>1. m + 1 \in DOMAIN q /\ q[m + 1] = q[n + 1] /\ m \in Nat
            BY <2>5, <4>1, <4>3
          <5>2. m + 1 = n + 1
            BY <2>4, <4>1, <5>1
          <5> QED BY <4>1, <5>1, <5>2
        <4> QED
          BY <2>4, <4>1, <4>2, <4>3
      <3> QED
        BY <2>2, <3>1, <3>2 DEF Answerable, Waits
    <2>9. ASSUME NEW j \in DOMAIN dt, j # i PROVE Answerable(j)'
      BY <2>2, <2>9, AnswerableKeep DEF CallInv, Waits
    <2>10. ASSUME NEW v \in Users PROVE Placed(v)'
      BY <2>2 DEF CallInv, Placed, Free
    <2> QED
      BY <2>2, <2>8, <2>9, <2>10 DEF CallInv, InTx
  <1>3. CASE LoopPush(i)
    <2>1. PICK r : r = loop[i].resp
      OBVIOUS
    <2>2. /\ UNCHANGED <<client, mlock, handles, dt, chan>> /\ loop[i].at = "push"
      BY <1>3 DEF LoopPush, registryVars, LoopAt
    <2>3. r \in Responses /\ \A j \in DOMAIN dt : j # i => loop'[j] = loop[j]
      BY <1>3, <2>1, LoopPushEffect
    <2>4. Asked(loop[i]) = r
      BY <2>1, <2>2, AskedOf
    <2>5. CASE dt[i].state = "Disabled"
      <3>1. loop'[i] = [at |-> "panicked"] /\ pc' = Answered(r)
        BY <1>3, <2>1, <2>5, LoopPushEffect
      <3>2. \A v \in Users : pc'[v] = IF v = r THEN Idle ELSE pc[v]
        BY <2>3, <3>1, AnsweredShape
      <3>3. Asked(loop'[i]) = Nobody
        BY <3>1, AskedOf
      <3> QED
        BY <2>2, <2>3, <2>4, <3>2, <3>3, AnswerCalls
    <2>6. CASE dt[i].state # "Disabled"
      <3>1. PICK c \in {0, dt[i].last, dt[i].cp}, st \in States, e \in BOOLEAN :
                loop'[i] = [at |-> "apply", resp |-> r,
                            reply |-> [state |-> st, cseq |-> c, error |-> e]]
        BY <1>3, <2>1, <2>6, LoopPushEffect
      <3>2. pc' = pc
        BY <1>3, <2>6 DEF LoopPush
      <3>3. Asked(loop'[i]) = r
        BY <3>1, AskedOf
      <3> QED
        BY <2>2, <2>3, <2>4, <3>2, <3>3, SameAskedCalls
    <2> QED
      BY <2>5, <2>6
  <1>4. CASE LoopApply(i)
    <2> DEFINE n == IF Legal(dt[i].state, loop[i].reply) THEN Respond("Normal", loop[i].resp)
                    ELSE [at |-> "failed", resp |-> loop[i].resp]
    <2>1. UNCHANGED <<client, mlock, handles, pc, chan>> /\ loop[i].at = "apply"
      BY <1>4 DEF LoopApply, registryVars, LoopAt
    <2>2. /\ DOMAIN dt' = DOMAIN dt /\ \A j \in DOMAIN dt : j # i => loop'[j] = loop[j]
          /\ loop'[i] = [at |-> "detaching", next |-> n] \/ loop'[i] = n
      BY <1>4, LoopApplyEffect
    <2>3. Asked(n) = loop[i].resp /\ n.at # "detaching"
      BY AskedOf DEF Respond
    <2> HIDE DEF n
    <2>4. Asked(loop'[i]) = loop[i].resp
      BY <2>2, <2>3, AskedOf
    <2>5. Asked(loop[i]) = loop[i].resp
      BY <2>1, AskedOf
    <2> QED
      BY <2>1, <2>2, <2>4, <2>5, SameAskedCalls
  <1>5. CASE LoopDisable(i)
    <2> DEFINE n == [at |-> "report", resp |-> loop[i].resp]
    <2>1. UNCHANGED <<client, mlock, handles, pc, chan>> /\ loop[i].at = "failed"
      BY <1>5 DEF LoopDisable, registryVars, LoopAt
    <2>2. /\ DOMAIN dt' = DOMAIN dt /\ \A j \in DOMAIN dt : j # i => loop'[j] = loop[j]
          /\ loop'[i] = [at |-> "detaching", next |-> n] \/ loop'[i] = n
      BY <1>5, LoopDisableEffect
    <2>3. Asked(n) = loop[i].resp /\ n.at # "detaching"
      BY AskedOf
    <2> HIDE DEF n
    <2>4. Asked(loop'[i]) = loop[i].resp
      BY <2>2, <2>3, AskedOf
    <2>5. Asked(loop[i]) = loop[i].resp
      BY <2>1, AskedOf
    <2> QED
      BY <2>1, <2>2, <2>4, <2>5, SameAskedCalls
  <1>6. CASE LoopDetach(i)
    <2>1. UNCHANGED <<client, mlock, handles, pc, chan, dt>> /\ loop[i].at = "detaching"
      BY <1>6 DEF LoopDetach, LoopAt
    <2>2. /\ \A j \in DOMAIN dt : j # i => loop'[j] = loop[j]
          /\ loop'[i] = loop[i].next /\ loop[i].next.at # "detaching"
      BY <1>6, LoopDetachEffect
    <2>3. Asked(loop'[i]) = Asked(loop[i])
      BY <2>1, <2>2, AskedOf
    <2> QED
      BY <2>1, <2>2, <2>3, SameAskedCalls
  <1>7. CASE LoopReport(i)
    <2>1. UNCHANGED <<client, mlock, handles, pc, chan, dt>> /\ loop[i].at = "report"
      BY <1>7 DEF LoopReport, LoopAt, registryVars
    <2>2. /\ \A j \in DOMAIN dt : j # i => loop'[j] = loop[j]
          /\ loop'[i] = Respond("Stopped", loop[i].resp)
      BY <1>7, LoopReportEffect
    <2>3. Asked(loop'[i]) = Asked(loop[i])
      BY <2>1, <2>2, AskedOf
    <2> QED
      BY <2>1, <2>2, <2>3, SameAskedCalls
  <1>8. CASE LoopAnswer(i)
    <2>1. PICK r : r = loop[i].resp
      OBVIOUS
    <2>2. UNCHANGED <<client, mlock, handles, chan, dt>> /\ loop[i].at = "answer"
      BY <1>8 DEF LoopAnswer, LoopAt, registryVars
    <2>3. /\ r \in Responses /\ \A v \in Users : pc'[v] = IF v = r THEN Idle ELSE pc[v]
          /\ \A j \in DOMAIN dt : j # i => loop'[j] = loop[j]
          /\ loop'[i] = [at |-> "check", mode |-> loop[i].mode]
      BY <1>8, <2>1, LoopAnswerEffect DEF Responses
    <2>4. Asked(loop[i]) = r /\ Asked(loop'[i]) = Nobody
      BY <2>1, <2>2, <2>3, AskedOf
    <2> QED
      BY <2>2, <2>3, <2>4, AnswerCalls
  <1> QED
    BY <1>1, <1>2, <1>3, <1>4, <1>5, <1>6, <1>7, <1>8 DEF LoopStep

(* Drops and the runtime keep the calls in order; the client is not dropped *)
(* under a thread that holds its manager's lock.                            *)
LEMMA RestCalls ==
    ASSUME Shape, CallInv,
           DropClient \/ (\E i \in DOMAIN dt : DropDatatype(i)) \/ Runtime
    PROVE  CallInv'
  <1>1. CASE DropClient
    <2>1. UNCHANGED <<mlock, handles, pc, dt, chan, loop>> /\ mlock = Nobody
      BY <1>1 DEF DropClient
    <2>2. ASSUME NEW v \in Users PROVE Placed(v)'
      <3>1. Placed(v) /\ mlock # v
        BY <2>1, ClientAssumption DEF CallInv
      <3> QED
        BY <2>1, <3>1 DEF Placed, Free
    <2>3. ASSUME NEW j \in DOMAIN dt PROVE Answerable(j)'
      BY <2>1, AnswerableKeep DEF CallInv, Waits
    <2> QED
      BY <2>1, <2>2, <2>3 DEF CallInv, InTx
  <1>2. CASE \E i \in DOMAIN dt : DropDatatype(i)
    <2>1. PICK i \in DOMAIN dt : DropDatatype(i)
      BY <1>2
    <2>2. UNCHANGED <<client, mlock, handles, pc, dt, loop>>
      BY <2>1 DEF DropDatatype, registryVars
    <2>3. PICK q : q = chan[i].unbounded
      OBVIOUS
    <2>4. /\ chan'[i].unbounded = Append(q, Stop) /\ \A j \in DOMAIN dt : j # i => chan'[j] = chan[j]
          /\ q \in Seq(Events)
      BY <2>1, <2>3, DropDatatypeEffect, ChanOf
    <2>5. /\ DOMAIN Append(q, Stop) = DOMAIN q \cup {Len(q) + 1} /\ Append(q, Stop)[Len(q) + 1] = Stop
          /\ \A n \in DOMAIN q : Append(q, Stop)[n] = q[n]
      <3>1. Stop \in Events
        BY DEF Events
      <3> HIDE DEF Stop
      <3> QED
        BY <2>4, <3>1, Extend
    <2>6. Answerable(i)'
      BY <2>2, <2>3, <2>4, <2>5 DEF CallInv, Answerable, Waits
    <2>7. ASSUME NEW j \in DOMAIN dt, j # i PROVE Answerable(j)'
      BY <2>2, <2>4, <2>7, AnswerableKeep DEF CallInv, Waits
    <2>8. ASSUME NEW v \in Users PROVE Placed(v)'
      BY <2>2 DEF CallInv, Placed, Free
    <2> QED
      BY <2>2, <2>6, <2>7, <2>8 DEF CallInv, InTx
  <1>3. CASE Runtime
    <2>1. UNCHANGED <<client, mlock, handles, pc, dt, chan, loop>>
      BY <1>3 DEF Runtime, RunTask, registryVars
    <2>2. ASSUME NEW v \in Users PROVE Placed(v)'
      BY <2>1 DEF CallInv, Placed, Free
    <2>3. ASSUME NEW j \in DOMAIN dt PROVE Answerable(j)'
      BY <2>1, AnswerableKeep DEF CallInv, Waits
    <2> QED
      BY <2>1, <2>2, <2>3 DEF CallInv, InTx
  <1> QED
    BY <1>1, <1>2, <1>3

-----------------------------------------------------------------------------
(* Sequence numbers. *)

(* A cseq the datatype has given to an operation and that a rollback would  *)
(* not take back.                                                           *)
Reached(m, n) == n <= m.seq /\ (m.pending # <<>> => n <= m.pending[1].seq)

(* Neither the buffered nor the acknowledged cseq, nor the one in a         *)
(* response that is still to be applied, exceeds what a rollback would      *)
(* leave.                                                                   *)
Counted(i) ==
    /\ Reached(dt[i], dt[i].last) /\ Reached(dt[i], dt[i].cp)
    /\ loop[i].at = "apply" => Reached(dt[i], loop[i].reply.cseq)
    /\ loop[i].at = "detaching" => loop[i].next.at # "apply"

(* ... for every datatype. *)
NumberInv == \A i \in DOMAIN dt : Counted(i)

(* There is no datatype at first. *)
LEMMA InitNumbers == Init => NumberInv
  BY DEF Init, NumberInv

(* Steps that touch no datatype and no loop. *)
LEMMA SameNumbers ==
    ASSUME NumberInv, UNCHANGED <<dt, loop>>
    PROVE  NumberInv'
  BY DEF NumberInv, Counted

(* The steps of user threads keep the numbers in order. *)
LEMMA UserNumbers ==
    ASSUME Shape, NumberInv, NEW u \in Users, ClientCall(u) \/ DatatypeCall(u) \/ GoOn(u)
    PROVE  NumberInv'
  <1>1. CASE \E k \in Keys, as \in scenario.as : BuildVacant(u, k, as)
    <2>1. PICK k \in Keys, as \in scenario.as : BuildVacant(u, k, as)
      BY <1>1
    <2>2. PICK i : i = Len(dt) + 1
      OBVIOUS
    <2>3. /\ DOMAIN dt' = DOMAIN dt \cup {i}
          /\ \A j \in DOMAIN dt : dt'[j] = dt[j] /\ loop'[j] = loop[j]
          /\ dt'[i].seq = 0 /\ dt'[i].last = 0 /\ dt'[i].cp = 0 /\ dt'[i].pending = <<>>
          /\ loop'[i] = [at |-> "check", mode |-> "Normal"]
      BY <2>1, <2>2, BuildVacantEffect
    <2>4. Counted(i)'
      BY <2>3 DEF Counted, Reached
    <2>5. \A j \in DOMAIN dt : Counted(j)'
      BY <2>3 DEF NumberInv, Counted
    <2> QED
      BY <2>3, <2>4, <2>5 DEF NumberInv
  <1>2. CASE \/ \E k \in Keys : BuildOccupied(u, k) \/ GetDatatype(u, k)
             \/ \E i \in DOMAIN dt : DropHandle(u, i) \/ CheckSubscribed(u, i)
                                       \/ CheckDisabled(u, i) \/ CheckWritable(u, i)
             \/ ReadExisting(u) \/ ReportRefusal(u) \/ SendBestEffort(u) \/ SendSync(u)
    <2>1. UNCHANGED <<dt, loop>>
      BY <1>2 DEF BuildOccupied, GetDatatype, DropHandle, CheckSubscribed, CheckDisabled,
                  CheckWritable, ReadExisting, ReportRefusal, SendBestEffort, SendSync
    <2> QED
      BY <2>1, SameNumbers
  <1>3. CASE \E i \in DOMAIN dt, p \in Priorities : SetHandler(u, i, p) \/ UnsetHandler(u, i, p)
    <2>1. PICK i \in DOMAIN dt, p \in Priorities : SetHandler(u, i, p) \/ UnsetHandler(u, i, p)
      BY <1>3
    <2>2. loop' = loop
      BY <2>1 DEF SetHandler, UnsetHandler
    <2>4. /\ dt'[i].seq = dt[i].seq /\ dt'[i].last = dt[i].last /\ dt'[i].cp = dt[i].cp
          /\ dt'[i].pending = dt[i].pending
      BY <2>1, HandlerEffect
    <2>5. DOMAIN dt' = DOMAIN dt /\ \A j \in DOMAIN dt : j # i => dt'[j] = dt[j]
      BY <2>1, HandlerEffect
    <2> QED
      BY <2>2, <2>4, <2>5 DEF NumberInv, Counted, Reached
  <1>4. CASE SetUnsubscribing(u) \/ ExecuteOp(u) \/ Commit(u)
              \/ \E refused \in BOOLEAN : Rollback(u, refused)
    <2>1. PICK i : i = pc[u].inst
      OBVIOUS
    <2>2. /\ i \in DOMAIN dt /\ DOMAIN dt' = DOMAIN dt
          /\ \A j \in DOMAIN dt : j # i => dt'[j] = dt[j]
      BY <1>4, <2>1, SetUnsubscribingEffect, ExecuteOpEffect, CommitEffect, RollbackEffect
    <2>3. loop' = loop
      BY <1>4 DEF SetUnsubscribing, ExecuteOp, Commit, Rollback
    <2>4. dt[i] \in Datatypes /\ loop[i] \in Loops
      BY <2>2, ChanOf
    <2>5. /\ dt[i].seq \in Nat /\ dt[i].last \in Nat /\ dt[i].cp \in Nat
          /\ dt[i].pending # <<>> => dt[i].pending[1].seq \in Nat
          /\ loop[i].at = "apply" => loop[i].reply.cseq \in Nat
      BY <2>4, DatatypeFields, LoopFields DEF Replies
    <2>6. Counted(i)
      BY <2>2 DEF NumberInv
    <2>7. Counted(i)'
      <3>1. CASE SetUnsubscribing(u)
        <4>1. /\ dt'[i].seq = dt[i].seq /\ dt'[i].last = dt[i].last /\ dt'[i].cp = dt[i].cp
              /\ dt'[i].pending = dt[i].pending
          BY <2>1, <2>4, <3>1, SetUnsubscribingEffect DEF Datatypes
        <4> QED
          BY <2>3, <2>6, <4>1 DEF Counted, Reached
      <3>2. CASE ExecuteOp(u)
        <4>1. /\ dt'[i].seq = dt[i].seq + 1 /\ dt'[i].last = dt[i].last /\ dt'[i].cp = dt[i].cp
              /\ dt'[i].pending = <<[state |-> dt[i].state, seq |-> dt[i].seq]>>
          BY <2>1, <2>4, <3>2, ExecuteOpEffect DEF Datatypes
        <4>2. dt'[i].pending[1].seq = dt[i].seq
          BY <4>1
        <4>3. \A n \in Nat : Reached(dt[i], n) => Reached(dt'[i], n)
          BY <2>5, <4>1, <4>2 DEF Reached
        <4> QED
          BY <2>3, <2>5, <2>6, <4>1, <4>3 DEF Counted
      <3>3. CASE Commit(u)
        <4>1. /\ dt'[i].seq = dt[i].seq /\ dt'[i].last \in {dt[i].last, dt[i].seq}
              /\ dt'[i].cp = dt[i].cp /\ dt'[i].pending = <<>>
          BY <2>1, <2>4, <3>3, CommitEffect DEF Datatypes
        <4> QED
          BY <2>3, <2>5, <2>6, <4>1 DEF Counted, Reached
      <3>4. CASE \E refused \in BOOLEAN : Rollback(u, refused)
        <4>1. dt'[i] = RolledBack(dt[i])
          BY <2>1, <3>4, RollbackEffect
        <4>2. CASE dt[i].pending = <<>>
          BY <2>3, <2>6, <4>1, <4>2 DEF RolledBack, Counted
        <4>3. CASE dt[i].pending # <<>>
          <5>1. /\ dt'[i].seq = dt[i].pending[1].seq /\ dt'[i].last = dt[i].last
                /\ dt'[i].cp = dt[i].cp /\ dt'[i].pending = <<>>
            BY <2>4, <4>1, <4>3 DEF RolledBack, Datatypes
          <5> QED
            BY <2>3, <2>6, <4>3, <5>1 DEF Counted, Reached
        <4> QED
          BY <4>2, <4>3
      <3> QED
        BY <1>4, <3>1, <3>2, <3>3, <3>4
    <2> QED
      BY <2>2, <2>3, <2>7 DEF NumberInv, Counted
  <1> QED
    BY <1>1, <1>2, <1>3, <1>4 DEF ClientCall, DatatypeCall, GoOn

(* The steps of event loops keep the numbers in order: a response names a   *)
(* cseq that was buffered or acknowledged when the pack was built.          *)
LEMMA LoopNumbers ==
    ASSUME Shape, NumberInv, NEW i \in DOMAIN dt, LoopStep(i)
    PROVE  NumberInv'
  <1>1. /\ dt[i] \in Datatypes /\ Counted(i)
        /\ dt[i].seq \in Nat /\ dt[i].last \in Nat /\ dt[i].cp \in Nat
        /\ dt[i].pending # <<>> => dt[i].pending[1].seq \in Nat
    BY ChanOf, DatatypeFields DEF NumberInv
  <1>2. CASE LoopCheck(i) \/ SelectBounded(i) \/ SelectUnbounded(i)
    <2>1. dt' = dt
      BY <1>2 DEF LoopCheck, SelectBounded, SelectUnbounded
    <2>2. /\ loop'[i].at \notin {"apply", "detaching"}
          /\ \A j \in DOMAIN dt : j # i => loop'[j] = loop[j]
      BY <1>2, LoopWalkEffect
    <2> QED
      BY <2>1, <2>2 DEF NumberInv, Counted
  <1>3. CASE LoopPush(i)
    <2>1. dt' = dt /\ \A j \in DOMAIN dt : j # i => loop'[j] = loop[j]
      BY <1>3, LoopPushEffect DEF LoopPush
    <2>2. Counted(i)'
      <3>1. CASE dt[i].state = "Disabled"
        <4>1. loop'[i] = [at |-> "panicked"]
          BY <1>3, <3>1, LoopPushEffect
        <4> QED BY <1>1, <2>1, <4>1 DEF Counted
      <3>2. CASE dt[i].state # "Disabled"
        <4>1. PICK c \in {0, dt[i].last, dt[i].cp}, st \in States, e \in BOOLEAN :
                loop'[i] = [at |-> "apply", resp |-> loop[i].resp,
                            reply |-> [state |-> st, cseq |-> c, error |-> e]]
          BY <1>3, <3>2, LoopPushEffect
        <4>2. loop'[i].reply.cseq = c /\ loop'[i].at = "apply"
          BY <4>1
        <4>3. Reached(dt[i], c)
          BY <1>1 DEF Counted, Reached
        <4> QED BY <1>1, <2>1, <4>2, <4>3 DEF Counted
      <3> QED
        BY <3>1, <3>2
    <2> QED
      BY <2>1, <2>2 DEF NumberInv, Counted
  <1>4. CASE LoopApply(i) \/ LoopDisable(i)
    <2>1. DOMAIN dt' = DOMAIN dt /\ \A j \in DOMAIN dt : j # i => dt'[j] = dt[j] /\ loop'[j] = loop[j]
      BY <1>4, LoopApplyEffect, LoopDisableEffect
    <2>2. loop'[i].at # "apply" /\ (loop'[i].at = "detaching" => loop'[i].next.at # "apply")
      <3>1. CASE LoopApply(i)
        <4> DEFINE n == IF Legal(dt[i].state, loop[i].reply) THEN Respond("Normal", loop[i].resp)
                        ELSE [at |-> "failed", resp |-> loop[i].resp]
        <4>1. loop'[i] = [at |-> "detaching", next |-> n] \/ loop'[i] = n
          BY <3>1, LoopApplyEffect
        <4>2. n.at \notin {"apply", "detaching"}
          BY DEF Respond
        <4> HIDE DEF n
        <4> QED BY <4>1, <4>2
      <3>2. CASE LoopDisable(i)
        <4> DEFINE n == [at |-> "report", resp |-> loop[i].resp]
        <4>1. loop'[i] = [at |-> "detaching", next |-> n] \/ loop'[i] = n
          BY <3>2, LoopDisableEffect
        <4> QED BY <4>1
      <3> QED
        BY <1>4, <3>1, <3>2
    <2>3. Reached(dt'[i], dt'[i].last) /\ Reached(dt'[i], dt'[i].cp)
      <3>1. CASE LoopApply(i)
        <4>1. dt'[i] = Pulled(dt[i], loop[i].reply)
          BY <3>1, LoopApplyEffect
        <4>2. Reached(dt[i], loop[i].reply.cseq)
          BY <1>1, <3>1 DEF Counted, LoopApply, LoopAt
        <4>3. /\ dt'[i].seq = dt[i].seq /\ dt'[i].last = dt[i].last
              /\ dt'[i].cp \in {dt[i].cp, loop[i].reply.cseq} /\ dt'[i].pending = dt[i].pending
          BY <1>1, <4>1 DEF Pulled, Datatypes
        <4> QED
          BY <1>1, <4>2, <4>3 DEF Counted, Reached
      <3>2. CASE LoopDisable(i)
        <4>1. dt'[i] = Disable(dt[i])
          BY <3>2, LoopDisableEffect
        <4>2. /\ dt'[i].seq = dt[i].seq /\ dt'[i].last = 0
              /\ dt'[i].cp = dt[i].cp /\ dt'[i].pending = <<>>
          BY <1>1, <4>1 DEF Disable, Datatypes
        <4> QED
          BY <1>1, <4>2 DEF Counted, Reached
      <3> QED
        BY <1>4, <3>1, <3>2
    <2> QED
      BY <2>1, <2>2, <2>3 DEF NumberInv, Counted
  <1>5. CASE LoopDetach(i) \/ LoopReport(i) \/ LoopAnswer(i)
    <2>1. dt' = dt
      BY <1>5 DEF LoopDetach, LoopReport, LoopAnswer
    <2>2. \A j \in DOMAIN dt : j # i => loop'[j] = loop[j]
      BY <1>5, LoopDetachEffect, LoopReportEffect, LoopAnswerEffect
    <2>3. loop'[i].at \notin {"apply", "detaching"}
      <3>1. CASE LoopDetach(i)
        BY <1>1, <3>1, LoopDetachEffect DEF Counted, LoopDetach, LoopAt
      <3>2. CASE LoopReport(i)
        <4>1. loop'[i] = Respond("Stopped", loop[i].resp)
          BY <3>2, LoopReportEffect
        <4> QED BY <4>1 DEF Respond
      <3>3. CASE LoopAnswer(i)
        <4>1. loop'[i] = [at |-> "check", mode |-> loop[i].mode]
          BY <3>3, LoopAnswerEffect
        <4> QED BY <4>1
      <3> QED
        BY <1>5, <3>1, <3>2, <3>3
    <2> QED
      BY <1>1, <2>1, <2>2, <2>3 DEF NumberInv, Counted
  <1> QED
    BY <1>2, <1>3, <1>4, <1>5 DEF LoopStep

(* Drops and the runtime keep the numbers in order. *)
LEMMA RestNumbers ==
    ASSUME NumberInv, DropClient \/ (\E i \in DOMAIN dt : DropDatatype(i)) \/ Runtime
    PROVE  NumberInv'
  <1>1. UNCHANGED <<dt, loop>>
    BY DEF DropClient, DropDatatype, Runtime, RunTask
  <1> QED
    BY <1>1, SameNumbers

-----------------------------------------------------------------------------
(* The theorems. *)

(* Every step keeps the types. *)
LEMMA ShapeStep ==
    ASSUME Shape, Next
    PROVE  Shape'
  <1>1. CASE \E u \in Users : ClientCall(u)
    BY <1>1, BuildVacantEffect, CallShape, HandlesEffect DEF ClientCall
  <1>2. CASE \E u \in Users : DatatypeCall(u)
    BY <1>2, HandlesEffect, CallShape, HandlerEffect DEF DatatypeCall
  <1>3. CASE \E u \in Users : GoOn(u)
    BY <1>3, CallShape, SetUnsubscribingEffect, SendBestEffortEffect, SendSyncEffect,
       ExecuteOpEffect, CommitEffect, RollbackEffect, ReportRefusalEffect DEF GoOn
  <1>4. CASE DropClient
    BY <1>4, DropClientEffect
  <1>5. CASE \E i \in DOMAIN dt : DropDatatype(i)
    BY <1>5, DropDatatypeEffect
  <1>6. CASE \E i \in DOMAIN dt : LoopStep(i)
    BY <1>6, LoopWalkEffect, LoopPushEffect, LoopApplyEffect, LoopDetachEffect,
       LoopDisableEffect, LoopReportEffect, LoopAnswerEffect DEF LoopStep
  <1>7. CASE Runtime
    BY <1>7, RunTaskEffect DEF Runtime
  <1> QED
    BY <1>1, <1>2, <1>3, <1>4, <1>5, <1>6, <1>7 DEF Next

(* The inductive invariant of the client. *)
ClientInv == Shape /\ RegistryInv /\ HandlerInv /\ CallInv /\ NumberInv

(* Every step of the client keeps it. *)
LEMMA ClientStep ==
    ASSUME ClientInv, [Next]_vars
    PROVE  ClientInv'
  <1>1. CASE Next
    <2>1. Shape'
      BY <1>1, ShapeStep DEF ClientInv
    <2>2. RegistryInv'
      BY <1>1, UserRegistry, LoopRegistry, RestRegistry DEF ClientInv, Next
    <2>3. HandlerInv'
      BY <1>1, UserHandlers, LoopHandlers, RestHandlers DEF ClientInv, Next
    <2>4. CallInv'
      BY <1>1, UserCalls, LoopCalls, RestCalls DEF ClientInv, Next
    <2>5. NumberInv'
      BY <1>1, UserNumbers, LoopNumbers, RestNumbers DEF ClientInv, Next
    <2> QED
      BY <2>1, <2>2, <2>3, <2>4, <2>5 DEF ClientInv
  <1>2. CASE UNCHANGED vars
    <2>1. UNCHANGED <<scenario, client, mlock, manager, dt, chan, loop, handles, pc, tasks,
                      handlers, returned>>
      BY <1>2 DEF vars
    <2>2. Shape'
      BY <2>1 DEF ClientInv, Shape, Calls
    <2>3. RegistryInv' /\ HandlerInv'
      BY <2>1, UntouchedRegistry, SameRegistry, QuietHandlers DEF ClientInv
    <2>4. CallInv'
      BY <2>1 DEF ClientInv, CallInv, Placed, Free, InTx, Answerable, Waits
    <2>5. NumberInv'
      BY <2>1, SameNumbers DEF ClientInv
    <2> QED
      BY <2>2, <2>3, <2>4, <2>5 DEF ClientInv
  <1> QED
    BY <1>1, <1>2

(* In every behaviour of the client, for any users, keys, handlers and      *)
(* scenarios: the registry is sound, handlers are apart, answers find their *)
(* callers and no acknowledgement exceeds what was written.                 *)
THEOREM ClientInvariant == Spec => []ClientInv
  <1>1. Init => ClientInv
    BY InitShape, InitRegistry, InitHandlers, InitCalls, InitNumbers DEF ClientInv
  <1>2. ClientInv /\ [Next]_vars => ClientInv'
    BY ClientStep
  <1> QED
    BY <1>1, <1>2, PTL DEF Spec

(* TypeOK: the registry maps keys to their own datatypes, the manager's     *)
(* lock is held exactly by the thread that looks at a taken key, a datatype *)
(* has at most one transaction, and no acknowledgement exceeds what was     *)
(* written.                                                                 *)
THEOREM TypeCorrect == Spec => []TypeOK
  <1>1. ClientInv => TypeOK
    <2> SUFFICES ASSUME ClientInv PROVE TypeOK
      OBVIOUS
    <2>1. client \in BOOLEAN /\ \A t \in tasks : t.inst \in DOMAIN dt
      BY DEF ClientInv, Shape
    <2>2. \A k \in Keys : manager[k] # NoInst =>
             manager[k] \in DOMAIN dt /\ dt[manager[k]].key = k
      BY DEF ClientInv, Shape
    <2>3. ASSUME NEW u \in Users
          PROVE  /\ \/ Free(u)
                    \/ pc[u].at \in UserPcs /\ u \in handles[pc[u].inst]
                    \/ pc[u].at = "existing" /\ client
                 /\ mlock = u <=> pc[u].at = "existing"
      BY CallOf DEF ClientInv, CallInv, Placed, Free
    <2>4. ASSUME NEW i \in DOMAIN dt
          PROVE  /\ loop[i].at \in LoopPcs
                 /\ dt[i].last <= dt[i].seq /\ dt[i].cp <= dt[i].seq
                 /\ Cardinality({u \in Users : pc[u] = [at |-> "tx", inst |-> i]}) <= 1
      <3>1. loop[i].at \in LoopPcs
        BY ChanOf, LoopFields DEF ClientInv
      <3>2. dt[i].last <= dt[i].seq /\ dt[i].cp <= dt[i].seq
        BY DEF ClientInv, NumberInv, Counted, Reached
      <3> DEFINE T == {u \in Users : pc[u] = [at |-> "tx", inst |-> i]}
      <3>3. \A u, v \in T : u = v
        BY DEF ClientInv, CallInv, InTx
      <3>4. Cardinality(T) <= 1
        <4>1. CASE T = {}
          BY <4>1, FS_EmptySet
        <4>2. CASE T # {}
          <5>1. PICK u : u \in T
            BY <4>2
          <5>2. T = {u}
            BY <3>3, <5>1
          <5> HIDE DEF T
          <5>3. Cardinality({u}) = 1
            BY FS_Singleton
          <5> QED
            BY <5>2, <5>3
        <4> QED
          BY <4>1, <4>2
      <3> QED
        BY <3>1, <3>2, <3>4
    <2> QED
      BY <2>1, <2>2, <2>3, <2>4 DEF TypeOK
  <1> QED
    BY <1>1, ClientInvariant, PTL

(* ManagedLoopsRun: the event loop of a datatype the client hands out was   *)
(* neither stopped by a drop nor has it died in the unreachable!() of       *)
(* NullConnectivity.                                                        *)
THEOREM ManagedLoopsAlwaysRun == Spec => []ManagedLoopsRun
  <1>1. ClientInv => ManagedLoopsRun
    BY DEF ClientInv, RegistryInv, Sound, Alive, ManagedLoopsRun
  <1> QED
    BY <1>1, ClientInvariant, PTL

(* NoCallAfterReturn: no task that is still to run holds a handler that     *)
(* unset_handler gave back.                                                 *)
THEOREM NeverCalledAfterReturn == Spec => []NoCallAfterReturn
  <1>1. ClientInv => NoCallAfterReturn
    BY DEF ClientInv, HandlerInv
  <1> QED
    BY <1>1, ClientInvariant, PTL

(* A step that takes a datatype out of the registry is the detaching of     *)
(* that datatype by its own loop, which holds it Disabled.                  *)
LEMMA LeavesDisabled ==
    ASSUME ClientInv, [Next]_vars, NEW i \in DOMAIN dt,
           Managed(i), client', manager'[dt[i].key] # i
    PROVE  dt[i].state = "Disabled"
  <1>1. manager[dt[i].key] = i /\ dt[i].key \in Keys /\ i # NoInst
    BY ChanOf, DatatypeFields DEF ClientInv, Shape, Managed, NoInst
  <1>2. manager' # manager
    BY <1>1
  <1>3. CASE \E u \in Users : ClientCall(u) \/ DatatypeCall(u) \/ GoOn(u)
    <2>0. PICK u \in Users : ClientCall(u) \/ DatatypeCall(u) \/ GoOn(u)
      BY <1>3
    <2>1. PICK k \in Keys : \E as \in scenario.as : BuildVacant(u, k, as)
      BY <1>2, <2>0 DEF ClientCall, DatatypeCall, GoOn, BuildOccupied, GetDatatype,
           DropHandle, CheckSubscribed, CheckDisabled, CheckWritable, SetHandler, UnsetHandler,
           ReadExisting, SetUnsubscribing, SendBestEffort, SendSync, ExecuteOp, Commit, Rollback,
           ReportRefusal, registryVars
    <2>2. manager'[dt[i].key] = i
      BY <1>1, <2>1 DEF ClientInv, Shape, BuildVacant
    <2> QED
      BY <2>2
  <1>4. CASE \E j \in DOMAIN dt : LoopStep(j)
    <2>1. PICK j \in DOMAIN dt : LoopDetach(j)
      BY <1>2, <1>4 DEF LoopStep, LoopCheck, SelectBounded, SelectUnbounded, LoopPush, LoopApply,
           LoopDisable, LoopReport, LoopAnswer, registryVars
    <2>2. j = i
      BY <1>1, <2>1, LoopDetachEffect DEF ClientInv
    <2> QED
      BY <2>1, <2>2 DEF LoopDetach, LoopAt, ClientInv, RegistryInv, Sound
  <1>5. CASE \/ DropClient \/ (\E j \in DOMAIN dt : DropDatatype(j)) \/ Runtime
             \/ UNCHANGED vars
    BY <1>2, <1>5 DEF DropClient, DropDatatype, Runtime, RunTask, registryVars, vars
  <1> QED
    BY <1>3, <1>4, <1>5 DEF Next

(* OnlyDisabledLeave: an entry leaves the registry only with its own        *)
(* datatype Disabled, and the second disabling of an old datatype removes   *)
(* no newer one.                                                            *)
THEOREM OnlyDisabledEverLeave == Spec => OnlyDisabledLeave
  <1>1. ClientInv /\ [Next]_vars =>
           [\A i \in DOMAIN dt :
               Managed(i) /\ client' /\ manager'[dt[i].key] # i => dt[i].state = "Disabled"]_vars
    BY LeavesDisabled
  <1> QED
    BY <1>1, ClientInvariant, PTL DEF Spec, OnlyDisabledLeave
=============================================================================
