---------------------------- MODULE MCSyncProtocol ----------------------------
(***************************************************************************)
(* SyncProtocol for TLC: the scenarios the runs choose from.  Only ReadOnly *)
(* and the scenario tell one client from another, and each of the scenarios *)
(* of a run has all writers, or there is one for every writer, so states    *)
(* that differ by a permutation of the writers are the same to every safety *)
(* property.                                                                *)
(***************************************************************************)
EXTENDS SyncProtocol, TLC

Writers == Clients \ ReadOnly

WriterSymmetry == Permutations(Writers)

(* Everybody, the reader too, so that a subscriber receives a snapshot and  *)
(* the transactions after it; exchanges of a subscribed datatype time out   *)
(* before or after the server has run.                                      *)
Orderly1 ==
    [who |-> Clients, as |-> InitialStates, ops |-> 1, transmit |-> 4,
     env |-> {"rollback", "lose", "debug"}]

(* Two operations each, in one transaction or two, and exchanges that carry *)
(* one of the two, or both.                                                 *)
Orderly2 ==
    [who |-> Writers, as |-> {"Creating", "Subscribing"}, ops |-> 2, transmit |-> 3,
     env |-> {"rollback", "lose", "debug"}]

(* The same with exchanges that carry one operation: a transaction of two   *)
(* is larger.                                                               *)
Narrow2 == [Orderly2 EXCEPT !.transmit = 2]

(* Two operations each, pushed together if need be, and everything but      *)
(* unsubscribe.                                                             *)
Faulty2 ==
    [who |-> Writers, as |-> {"SubscribingOrCreating"}, ops |-> 2, transmit |-> 4,
     env |-> {"rollback", "spanning", "lose", "loseCreate", "late"}]

(* One operation each: unsubscribe races with writes, exchanges, late       *)
(* subscribers and the removal of the server, but no response arrives in an *)
(* open transaction (Sheltered).                                            *)
Leaving1 ==
    [who |-> Writers, as |-> {"Creating", "Subscribing"}, ops |-> 1, transmit |-> 4,
     env |-> {"rollback", "unsubscribe", "lose", "loseCreate", "late"}]

(* A writer and a reader leave the key and build it again.  The writer's    *)
(* two operations are those of both its datatypes.                          *)
Again(c) ==
    [who |-> {c} \cup ReadOnly, as |-> {"SubscribingOrCreating"}, ops |-> 2,
     transmit |-> 4, env |-> {"unsubscribe", "rebuild"}]

AgainScenarios == {Again(c) : c \in Writers}

SyncScenarios == {Orderly1, Orderly2, Narrow2, Faulty2, Leaving1} \cup AgainScenarios

(* Two writers of one operation in an environment. *)
Pair(env) ==
    [who |-> Writers, as |-> {"Creating", "Subscribing"}, ops |-> 1, transmit |-> 4,
     env |-> env]

(* A client subscribes while the creator has an operation the server has    *)
(* not acknowledged.                                                        *)
LateScenarios == {Pair({"late"})}

(* A response arrives while a transaction is open and the transaction is    *)
(* rolled back, or the response to Creating is lost: the replica is         *)
(* Creating once more.                                                      *)
RecreateScenarios == {Pair({"rollback", "spanning", "lose", "loseCreate"})}
=============================================================================
