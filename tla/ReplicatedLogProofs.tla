------------------------ MODULE ReplicatedLogProofs ------------------------
(***************************************************************************)
(* The promises of ReplicatedLog hold for every set of clients, every       *)
(* payload and every batch size.  Ordered alone is not inductive: that a    *)
(* batch continues a client's numbering needs Within, and that no           *)
(* acknowledgement names a missing entry needs Gapless and NeverAhead.      *)
(***************************************************************************)
EXTENDS ReplicatedLog, TLAPS

LogInv == TypeOK /\ Ordered /\ Within /\ Gapless /\ NeverAhead

(* An entry of the log is a transaction of a client. *)
LEMMA EntryType ==
    ASSUME TypeOK, NEW i \in 1..Len(log)
    PROVE  log[i].cuid \in Clients /\ log[i].cseq \in Nat
<1>1. log[i] \in Transactions
    BY DEF TypeOK
<1> QED
    BY <1>1 DEF Transactions

LEMMA InitInv == Init => LogInv
<1> SUFFICES ASSUME Init PROVE LogInv
    OBVIOUS
<1>1. log = <<>> /\ Len(log) = 0 /\ last = [c \in Clients |-> 0] /\ cp = <<>>
    BY DEF Init
<1>2. Members = {}
    BY <1>1 DEF Members
<1>3. TypeOK
    BY <1>1, <1>2 DEF TypeOK
<1>4. Ordered /\ Within
    BY <1>1 DEF Ordered, Within
<1>5. Gapless /\ NeverAhead
    BY <1>1, <1>2 DEF Gapless, NeverAhead
<1> QED
    BY <1>3, <1>4, <1>5 DEF LogInv

(* A push keeps what is in the log and adds the next cseqs of its client. *)
LEMMA PushInv ==
    ASSUME LogInv, NEW c \in Clients, NEW n \in Nat, n > 0, Push(c, n)
    PROVE  LogInv'
<1>1. /\ TypeOK /\ Ordered /\ Within /\ Gapless /\ NeverAhead
    BY DEF LogInv
<1>2. /\ log \in Seq(Transactions) /\ Len(log) \in Nat
      /\ log' \in Seq(Transactions) /\ Len(log') = Len(log) + n
      /\ last \in [Clients -> Nat]
      /\ last' = [last EXCEPT ![c] = @ + n]
      /\ last' \in [Clients -> Nat]
    BY <1>1 DEF TypeOK, Push
<1>3. \A i \in 1..Len(log) : log'[i] = log[i]
    BY DEF Push
<1>4. \A i \in 1..n : log'[Len(log) + i].cuid = c /\ log'[Len(log) + i].cseq = last[c] + i
    BY DEF Push
<1>5. ASSUME NEW i \in 1..Len(log'), i \notin 1..Len(log)
      PROVE  /\ log'[i].cuid = c
             /\ log'[i].cseq = last[c] + (i - Len(log))
             /\ i - Len(log) \in 1..n
    <2>1. i - Len(log) \in 1..n /\ Len(log) + (i - Len(log)) = i
        BY <1>2, <1>5
    <2> QED
        BY <2>1, <1>4
<1>6. ASSUME NEW i \in 1..Len(log)
      PROVE  /\ i \in 1..Len(log') /\ log'[i] = log[i]
             /\ log[i].cuid \in Clients
             /\ log[i].cseq \in 1..last[log[i].cuid]
    <2>1. log[i].cseq \in 1..last[log[i].cuid]
        BY <1>1 DEF Within
    <2> QED
        BY <1>1, <1>2, <1>3, <2>1, EntryType
<1>7. \A d \in Clients : last[d] \in Nat /\ last'[d] \in Nat /\ last[d] <= last'[d]
    BY <1>2
<1>8. last'[c] = last[c] + n
    BY <1>2
<1>9. Members' \subseteq Members /\ \A d \in Members' : cp'[d] = cp[d]
    BY DEF Push, Without, Members
<1>10. TypeOK'
    BY <1>1, <1>2, <1>9 DEF TypeOK
<1>11. Within'
    <2> SUFFICES ASSUME NEW i \in 1..Len(log')
                 PROVE  log'[i].cseq \in 1..last'[log'[i].cuid]
        BY DEF Within
    <2>1. CASE i \in 1..Len(log)
        BY <1>6, <1>7, <2>1
    <2>2. CASE i \notin 1..Len(log)
        <3>1. log'[i].cuid = c /\ log'[i].cseq = last[c] + (i - Len(log)) /\ i - Len(log) \in 1..n
            BY <1>5, <2>2
        <3>2. last[c] \in Nat
            BY <1>7
        <3> QED
            BY <3>1, <3>2, <1>8
    <2> QED
        BY <2>1, <2>2
<1>12. Ordered'
    <2> SUFFICES ASSUME NEW i \in 1..Len(log'), NEW j \in 1..Len(log'),
                        i < j, log'[i].cuid = log'[j].cuid
                 PROVE  log'[i].cseq < log'[j].cseq
        BY DEF Ordered
    <2>1. CASE j \in 1..Len(log)
        <3>1. i \in 1..Len(log)
            BY <2>1, <1>2
        <3>2. log[i].cuid = log[j].cuid
            BY <2>1, <3>1, <1>3
        <3>3. log[i].cseq < log[j].cseq
            BY <2>1, <3>1, <3>2, <1>1 DEF Ordered
        <3> QED
            BY <2>1, <3>1, <3>3, <1>3
    <2>2. CASE i \in 1..Len(log) /\ j \notin 1..Len(log)
        <3>1. log'[j].cuid = c /\ log'[j].cseq = last[c] + (j - Len(log)) /\ j - Len(log) \in 1..n
            BY <1>5, <2>2
        <3>2. log'[i] = log[i] /\ log[i].cseq \in 1..last[log[i].cuid]
            BY <1>6, <2>2
        <3>3. log[i].cseq \in 1..last[c]
            BY <3>1, <3>2
        <3>4. last[c] \in Nat
            BY <1>7
        <3> QED
            BY <3>1, <3>2, <3>3, <3>4
    <2>3. CASE i \notin 1..Len(log) /\ j \notin 1..Len(log)
        <3>1. /\ log'[i].cseq = last[c] + (i - Len(log)) /\ i - Len(log) \in 1..n
              /\ log'[j].cseq = last[c] + (j - Len(log)) /\ j - Len(log) \in 1..n
            BY <1>5, <2>3
        <3>2. last[c] \in Nat
            BY <1>7
        <3> QED
            BY <3>1, <3>2
    <2> QED
        BY <2>1, <2>2, <2>3, <1>2
<1>13. Gapless'
    <2> SUFFICES ASSUME NEW d \in Clients, NEW k \in 1..last'[d]
                 PROVE  \E i \in 1..Len(log') : log'[i].cuid = d /\ log'[i].cseq = k
        BY DEF Gapless
    <2>1. CASE k \in 1..last[d]
        <3>1. PICK i \in 1..Len(log) : log[i].cuid = d /\ log[i].cseq = k
            BY <2>1, <1>1 DEF Gapless
        <3> QED
            BY <3>1, <1>6
    <2>2. CASE k \notin 1..last[d]
        <3>1. last[d] \in Nat /\ last'[d] \in Nat /\ last'[d] # last[d]
            BY <2>2, <1>7
        <3>2. d = c
            BY <3>1, <1>2
        <3>3. k - last[c] \in 1..n
            BY <3>1, <3>2, <1>8, <2>2
        <3>4. Len(log) + (k - last[c]) \in 1..Len(log')
            BY <3>3, <1>2
        <3>5. /\ log'[Len(log) + (k - last[c])].cuid = c
              /\ log'[Len(log) + (k - last[c])].cseq = last[c] + (k - last[c])
            BY <3>3, <1>4
        <3>6. last[c] + (k - last[c]) = k
            BY <3>1, <3>2
        <3> QED
            BY <3>2, <3>4, <3>5, <3>6
    <2> QED
        BY <2>1, <2>2
<1>14. NeverAhead'
    <2> SUFFICES ASSUME NEW d \in Members'
                 PROVE  cp'[d].sseq \in 0..Len(log') /\ cp'[d].cseq \in 0..last'[d]
        BY DEF NeverAhead
    <2>1. d \in Members /\ d \in Clients /\ cp'[d] = cp[d]
        BY <1>1, <1>9 DEF TypeOK
    <2>2. cp[d].sseq \in 0..Len(log) /\ cp[d].cseq \in 0..last[d]
        BY <2>1, <1>1 DEF NeverAhead
    <2>3. last[d] \in Nat /\ last'[d] \in Nat /\ last[d] <= last'[d]
        BY <2>1, <1>7
    <2> QED
        BY <2>1, <2>2, <2>3, <1>2
<1> QED
    BY <1>10, <1>11, <1>12, <1>13, <1>14 DEF LogInv

(* Steps that leave the log alone only have checkpoints to answer for. *)
LEMMA CheckpointInv ==
    ASSUME LogInv, UNCHANGED <<last, log>>,
           Members' \subseteq Clients,
           \A c \in Members' : cp'[c].sseq \in 0..Len(log) /\ cp'[c].cseq \in 0..last[c]
    PROVE  LogInv'
<1>1. TypeOK'
    BY DEF LogInv, TypeOK
<1>2. Ordered' /\ Within' /\ Gapless'
    BY DEF LogInv, Ordered, Within, Gapless
<1>3. NeverAhead'
    BY DEF NeverAhead
<1> QED
    BY <1>1, <1>2, <1>3 DEF LogInv

LEMMA LeaveInv ==
    ASSUME LogInv, NEW c \in Clients, Leave(c)
    PROVE  LogInv'
<1>1. UNCHANGED <<last, log>>
    BY DEF Leave
<1>2. Members' \subseteq Members /\ \A d \in Members' : cp'[d] = cp[d]
    BY DEF Leave, Without, Members
<1>3. Members' \subseteq Clients
    BY <1>2 DEF LogInv, TypeOK
<1>4. \A d \in Members' : cp'[d].sseq \in 0..Len(log) /\ cp'[d].cseq \in 0..last[d]
    BY <1>2 DEF LogInv, NeverAhead
<1> QED
    BY <1>1, <1>3, <1>4, CheckpointInv

LEMMA MoveInv ==
    ASSUME LogInv, NEW c \in Clients, Join(c) \/ Advance(c)
    PROVE  LogInv'
<1>1. UNCHANGED <<last, log>>
    BY DEF Join, Advance
<1>2. PICK k \in Reached(c) :
          /\ Members' \subseteq Members \cup {c}
          /\ \A d \in Members' : cp'[d] = IF d = c THEN k ELSE cp[d]
    <2>1. CASE Join(c)
        BY <2>1 DEF Join, Members
    <2>2. CASE Advance(c)
        BY <2>2 DEF Advance, Members
    <2> QED
        BY <2>1, <2>2
<1>3. Members' \subseteq Clients
    BY <1>2 DEF LogInv, TypeOK
<1>4. k.sseq \in 0..Len(log) /\ k.cseq \in 0..last[c]
    BY DEF Reached
<1>5. ASSUME NEW d \in Members'
      PROVE  cp'[d].sseq \in 0..Len(log) /\ cp'[d].cseq \in 0..last[d]
    <2>1. CASE d = c
        BY <2>1, <1>2, <1>4
    <2>2. CASE d # c
        <3>1. d \in Members /\ cp'[d] = cp[d]
            BY <2>2, <1>2
        <3> QED
            BY <3>1 DEF LogInv, NeverAhead
    <2> QED
        BY <2>1, <2>2
<1> QED
    BY <1>1, <1>3, <1>5, CheckpointInv

LEMMA StepInv ==
    ASSUME MaxBatch \in Nat
    PROVE  LogInv /\ [Next]_logVars => LogInv'
<1> SUFFICES ASSUME LogInv, [Next]_logVars PROVE LogInv'
    OBVIOUS
<1>1. CASE \E c \in Clients : \E n \in 1..MaxBatch : Push(c, n)
    <2>1. PICK c \in Clients : \E n \in 1..MaxBatch : Push(c, n)
        BY <1>1
    <2>2. PICK n \in 1..MaxBatch : Push(c, n)
        BY <2>1
    <2> QED
        BY <2>2, PushInv
<1>2. CASE \E c \in Clients : Leave(c)
    BY <1>2, LeaveInv
<1>3. CASE \E c \in Clients : Join(c) \/ Advance(c)
    BY <1>3, MoveInv
<1>4. CASE Drop
    <2>1. Init'
        BY <1>4 DEF Drop, Init
    <2>2. log' = <<>> /\ last' = [c \in Clients |-> 0] /\ cp' = <<>> /\ Len(log') = 0
        BY <1>4 DEF Drop
    <2>3. Members' = {}
        BY <2>2 DEF Members
    <2>4. TypeOK' /\ Ordered' /\ Within'
        BY <2>2, <2>3 DEF TypeOK, Ordered, Within
    <2>5. Gapless' /\ NeverAhead'
        BY <2>2, <2>3 DEF Gapless, NeverAhead
    <2> QED
        BY <2>4, <2>5 DEF LogInv
<1>5. CASE UNCHANGED logVars
    BY <1>5 DEF logVars, LogInv, TypeOK, Members, Ordered, Within, Gapless, NeverAhead
<1> QED
    BY <1>1, <1>2, <1>3, <1>4, <1>5 DEF Next

(* The log's numbering, the checkpoints and their types are invariant. *)
THEOREM LogInvariant ==
    ASSUME MaxBatch \in Nat
    PROVE  Spec => []LogInv
<1>1. Init => LogInv
    BY InitInv
<1>2. LogInv /\ [Next]_logVars => LogInv'
    BY StepInv
<1> QED
    BY <1>1, <1>2, PTL DEF Spec

(* What a member of the log believes acknowledged is in the log exactly     *)
(* once, however clients push, join, leave and rejoin.                      *)
THEOREM AcknowledgedAlwaysOnce ==
    ASSUME MaxBatch \in Nat
    PROVE  Spec => []AcknowledgedOnce
<1>1. LogInv => AcknowledgedOnce
    <2> SUFFICES ASSUME LogInv, NEW c \in Members, NEW k \in 1..cp[c].cseq
                 PROVE  /\ \E i \in 1..Len(log) : log[i].cuid = c /\ log[i].cseq = k
                        /\ \A i, j \in 1..Len(log) :
                              /\ log[i].cuid = c /\ log[i].cseq = k
                              /\ log[j].cuid = c /\ log[j].cseq = k
                              => i = j
        BY DEF AcknowledgedOnce
    <2>1. TypeOK /\ Ordered /\ Gapless /\ NeverAhead
        BY DEF LogInv
    <2>2. c \in Clients /\ last[c] \in Nat
        BY <2>1 DEF TypeOK
    <2>3. cp[c].cseq \in 0..last[c]
        BY <2>1 DEF NeverAhead
    <2>4. k \in 1..last[c]
        BY <2>2, <2>3
    <2>5. \E i \in 1..Len(log) : log[i].cuid = c /\ log[i].cseq = k
        BY <2>1, <2>2, <2>4 DEF Gapless
    <2>6. ASSUME NEW i \in 1..Len(log), NEW j \in 1..Len(log),
                 log[i].cuid = c, log[i].cseq = k, log[j].cuid = c, log[j].cseq = k
          PROVE  i = j
        <3>1. ~(i < j) /\ ~(j < i)
            BY <2>1, <2>6 DEF Ordered
        <3> QED
            BY <3>1
    <2> QED
        BY <2>5, <2>6
<1> QED
    BY <1>1, LogInvariant, PTL
=============================================================================
