------------------------------ MODULE MCClient ------------------------------
(* The scenarios in which Client is checked. *)
EXTENDS Client

(* A key that is built, unsubscribed and built again, while a transaction   *)
(* on the old datatype is still open.                                       *)
Rebuild == [as |-> {<<"Creating", FALSE>>}, insts |-> 2, writes |-> 1, syncs |-> 0,
            unsubs |-> 2, calls |-> {}]

(* Handlers that come and go on a datatype nobody may hold. *)
Observe == [as |-> {<<"SubscribingOrCreating", FALSE>>}, insts |-> 1, writes |-> 0, syncs |-> 0,
            unsubs |-> 1, calls |-> {"handlers", "drop"}]

(* Handlers that are told of refused commits. *)
Refuse == [as |-> {<<"Creating", FALSE>>}, insts |-> 1, writes |-> 1, syncs |-> 0,
           unsubs |-> 0, calls |-> {"handlers", "full"}]

(* sync() calls against unsubscriptions, rejections and the end of the      *)
(* event loop.                                                              *)
Synchronise == [as |-> {<<"Subscribing", FALSE>>, <<"Creating", TRUE>>},
                insts |-> 1, writes |-> 0, syncs |-> 2, unsubs |-> 1,
                calls |-> {"drop"}]

MCScenarios == {Rebuild, Observe, Refuse, Synchronise}

(* One datatype that is unsubscribed. *)
MCUnsubscribe ==
    {[as |-> {<<"Creating", FALSE>>}, insts |-> 1, writes |-> 0, syncs |-> 0,
      unsubs |-> 1, calls |-> {}]}
=============================================================================
