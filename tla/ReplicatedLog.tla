---------------------------- MODULE ReplicatedLog ----------------------------
(***************************************************************************)
(* What the datatype server promises, without packs, locks, time-outs or   *)
(* states: one log per key, into which every client's transactions go once *)
(* and in the order of their cseqs, and members whose checkpoints only move *)
(* forward and never ahead of the log.  SyncProtocol implements it.         *)
(***************************************************************************)
EXTENDS Integers, Sequences

CONSTANTS
    Clients,   \* cuids
    Payloads,  \* what a transaction does
    MaxBatch   \* the transactions one push carries at most

VARIABLES
    log,   \* the transactions of the key
    last,  \* the highest cseq of each client in the log
    cp     \* the checkpoint of each member: [sseq, cseq]

logVars == <<log, last, cp>>

Transactions == [cuid : Clients, cseq : Nat, ops : Payloads]

Members == DOMAIN cp

(* A checkpoint a client can have: within the log and its own entries. *)
Reached(c) == [sseq : 0..Len(log), cseq : 0..last[c]]

Init ==
    /\ log = <<>>
    /\ last = [c \in Clients |-> 0]
    /\ cp = <<>>

Without(c) == [d \in Members \ {c} |-> cp[d]]

(* The next n transactions of a client are appended; the push may be the    *)
(* last thing it does as a member.                                          *)
Push(c, n) ==
    /\ last' = [last EXCEPT ![c] = @ + n]
    /\ log' \in Seq(Transactions) /\ Len(log') = Len(log) + n
    /\ \A i \in 1..Len(log) : log'[i] = log[i]
    /\ \A i \in 1..n : /\ log'[Len(log) + i].cuid = c
                       /\ log'[Len(log) + i].cseq = last[c] + i
    /\ cp' \in {cp, Without(c)}

(* A client becomes a member, with whatever checkpoint its snapshot has. *)
Join(c) ==
    /\ UNCHANGED <<last, log>>
    /\ c \notin Members
    /\ \E k \in Reached(c) :
          cp' = [d \in Members \cup {c} |-> IF d = c THEN k ELSE cp[d]]

(* A member learns of more of the log, or of acknowledgements. *)
Advance(c) ==
    /\ UNCHANGED <<last, log>>
    /\ c \in Members
    /\ \E k \in Reached(c) :
          /\ k.sseq >= cp[c].sseq /\ k.cseq >= cp[c].cseq
          /\ cp' = [cp EXCEPT ![c] = k]

Leave(c) ==
    /\ UNCHANGED <<last, log>>
    /\ cp' = Without(c)

(* The key is given up: the next client starts a new log. *)
Drop ==
    /\ last' = [c \in Clients |-> 0]
    /\ log' = <<>>
    /\ cp' = <<>>

Next ==
    \/ \E c \in Clients :
          \/ \E n \in 1..MaxBatch : Push(c, n)
          \/ Leave(c) \/ Advance(c) \/ Join(c)
    \/ Drop

Spec == Init /\ [][Next]_logVars

-----------------------------------------------------------------------------
(* The log is a sequence of transactions and every member a client. *)
TypeOK ==
    /\ log \in Seq(Transactions)
    /\ last \in [Clients -> Nat]
    /\ Members \subseteq Clients

(* A client's transactions are in the log in the order of their cseqs, and  *)
(* none twice.                                                              *)
Ordered ==
    \A i, j \in 1..Len(log) :
        i < j /\ log[i].cuid = log[j].cuid => log[i].cseq < log[j].cseq

(* Every cseq up to a client's last one is in the log. *)
Gapless ==
    \A c \in Clients : \A k \in 1..last[c] :
        \E i \in 1..Len(log) : log[i].cuid = c /\ log[i].cseq = k

(* No entry has a cseq beyond its client's last one. *)
Within == \A i \in 1..Len(log) : log[i].cseq \in 1..last[log[i].cuid]

(* No member's checkpoint is ahead of the log. *)
NeverAhead ==
    \A c \in Members :
        cp[c].sseq \in 0..Len(log) /\ cp[c].cseq \in 0..last[c]

(* What a client believes acknowledged is in the log, once: the promise the *)
(* checkpoints of the protocol rest on.                                     *)
AcknowledgedOnce ==
    \A c \in Members : \A k \in 1..cp[c].cseq :
        /\ \E i \in 1..Len(log) : log[i].cuid = c /\ log[i].cseq = k
        /\ \A i, j \in 1..Len(log) :
              /\ log[i].cuid = c /\ log[i].cseq = k
              /\ log[j].cuid = c /\ log[j].cseq = k
              => i = j
=============================================================================
