----------------------------- MODULE MCClients ------------------------------
(***************************************************************************)
(* The menus for model checking module Clients: each one brings together   *)
(* operations that interact.                                               *)
(***************************************************************************)
EXTENDS Clients

Menu(ops, commands, foreign, restarts, terms) ==
    [ops |-> ops, commands |-> commands, foreign |-> foreign, restarts |-> restarts,
     terms |-> terms]

MCMenus ==
    {Menu({"push", "bpop", "timer", "unblock", "compact"}, 2, 1, 0, 2),
     Menu({"bpop", "timer", "transfer", "leave"}, 2, 0, 0, 2),
     Menu({"watch", "transfer", "leave"}, 3, 0, 0, 2),
     Menu({"bpop", "shard", "snapshot"}, 2, 0, 1, 3),
     Menu({"watch", "unwatch", "snapshot", "leave"}, 2, 0, 1, 2),
     Menu({"push", "get"}, 2, 0, 0, 3),
     Menu({"multi", "push", "bpop"}, 4, 0, 0, 2)}
=============================================================================
