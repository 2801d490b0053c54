---------------------------- MODULE MCSharding ------------------------------
(***************************************************************************)
(* Groups for model checking module Sharding: two slots, this cluster with *)
(* the id 2 and one cluster on either side of it in the order of ids.      *)
(***************************************************************************)
EXTENDS Sharding, SequencesExt

Ranges(slots, type, key) == <<[slots |-> slots, type |-> type, key |-> key]>>
Group(id, ranges) == [id |-> id, local |-> FALSE, ranges |-> ranges, nodes |-> 1]

MCConfigs == {Ranges({1, 2}, "stable", 0), Ranges({1}, "stable", 0), << >>}

MCAdded ==
    {Group(id, Ranges({2}, type, 0)) : id \in {1, 3}, type \in Types}
        \cup {Group(2, Ranges({2}, "stable", 0)), Group(3, Ranges({2}, "undef", 0)),
              Group(3, Ranges({2}, "importing", 0) \o Ranges({1}, "stable", 0))}

MCReplacements ==
    {<< >>, <<Group(2, Ranges({1, 2}, "stable", 0))>>, <<Group(1, Ranges({1}, "stable", 0))>>}
        \cup {<<Group(2, Ranges({2}, t, 1)), Group(id, Ranges({2}, u, 1) \o Ranges({1}, "stable", 0))>> :
                  t \in Types, u \in Types, id \in {1, 2}}
        \cup {<<Group(2, Ranges({2}, "importing", 1) \o Ranges({2}, "migrating", 1))>>}

(* AddAll is the loop of replaceShardGroups and ShardingInfoRDBLoad, which adds one
   group after the other. *)
AddInTurn(gs) ==
    FoldLeft(LAMBDA i, g : IF i # NONE /\ CanAdd(i, g) THEN AddShardGroup(i, g) ELSE NONE,
             ShardingInfoInit, gs)
ASSUME AddAllAddsInTurn ==
    \A gs \in MCReplacements
                \cup UNION {[1 .. n -> {g \in MCAdded : ShardGroupParse(g)}] : n \in 0 .. 3} :
        AddAll(ShardingInfoInit, gs) = AddInTurn(gs)
=============================================================================
