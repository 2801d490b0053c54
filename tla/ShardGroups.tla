---------------------------- MODULE ShardGroups -----------------------------
(***************************************************************************)
(* Which cluster serves which hash slots: the ShardingInfo of one node     *)
(* (src/src/redisraft.h) as a record, with the operations of               *)
(* src/src/cluster.c on it and the answer that src/src/raft.c derives from *)
(* it for a command.                                                       *)
(*                                                                         *)
(* A shard group is [id, local, ranges, nodes], its ranges a sequence of   *)
(* [slots, type, key]: a set of slots, "stable", "importing" or            *)
(* "migrating", and the migration session key. Of a group's nodes only a   *)
(* version number is kept. The maps hold ids where the code has pointers.  *)
(***************************************************************************)
EXTENDS Integers, Sequences

CONSTANTS
    Slot,   \* the hash slots
    Id,     \* the ids of clusters: numbers, compared like the strings they stand for
    NONE

ASSUME IdAssumption == Id \subseteq Nat /\ NONE \notin Id

Types == {"stable", "importing", "migrating"}

MapOf(si, type) ==
    CASE type = "stable" -> si.stable
      [] type = "importing" -> si.importing
      [] type = "migrating" -> si.migrating

(* ShardingInfoInit, and ShardingInfoReset of the info si *)
Unmapped == [s \in Slot |-> NONE]
ShardingInfoReset(si) ==
    [si EXCEPT !.groups = [i \in {} |-> NONE], !.is_sharding = FALSE,
               !.stable = Unmapped, !.importing = Unmapped, !.migrating = Unmapped]
ShardingInfoInit ==
    [groups |-> [i \in {} |-> NONE], is_sharding |-> FALSE,
     stable |-> Unmapped, importing |-> Unmapped, migrating |-> Unmapped,
     max_importing_term |-> [s \in Slot |-> 0]]

Covers(g, s, type) ==
    \E i \in DOMAIN g.ranges : s \in g.ranges[i].slots /\ g.ranges[i].type = type

(* ShardingInfoValidateShardGroup *)
ValidateShardGroup(si, g) ==
    \A i \in DOMAIN g.ranges : \A s \in g.ranges[i].slots :
        /\ si.stable[s] = NONE
        /\ g.ranges[i].type = "migrating" => si.migrating[s] = NONE
        /\ g.ranges[i].type = "importing" => si.importing[s] = NONE

(* A single group that is local and has all slots: nothing is sharded. *)
IsWhole(g) ==
    g.local /\ Len(g.ranges) = 1 /\ g.ranges[1].slots = Slot /\ g.ranges[1].type = "stable"

CanAdd(si, g) == ValidateShardGroup(si, g) /\ g.id \notin DOMAIN si.groups
Mapped(map, g, type) == [s \in Slot |-> IF Covers(g, s, type) THEN g.id ELSE map[s]]

(* ShardingInfoAddShardGroup, of a group that can be added *)
AddShardGroup(si, g) ==
    [groups |-> [i \in DOMAIN si.groups \cup {g.id} |->
                    IF i = g.id THEN g ELSE si.groups[i]],
     stable |-> Mapped(si.stable, g, "stable"),
     importing |-> Mapped(si.importing, g, "importing"),
     migrating |-> Mapped(si.migrating, g, "migrating"),
     max_importing_term |->
         [s \in Slot |-> IF g.local /\ (Covers(g, s, "stable") \/ Covers(g, s, "migrating"))
                         THEN 0 ELSE si.max_importing_term[s]],
     is_sharding |-> si.is_sharding \/ DOMAIN si.groups # {} \/ ~ IsWhole(g)]

(* ShardingInfoUpdateShardGroup: only the nodes of another cluster's group change. *)
UpdateShardGroup(si, g, dbid) ==
    IF g.id = dbid \/ g.id \notin DOMAIN si.groups THEN si
    ELSE [si EXCEPT !.groups[g.id].nodes = g.nodes]

(* ShardGroupSerialize and ShardGroupDeserialize: the local flag is not written, and the
   nodes set it again for the group of the cluster dbid, but not for ADD and UPDATE. *)
ShardGroupSerialize(g) == [id |-> g.id, ranges |-> g.ranges, nodes |-> g.nodes]
ShardGroupDeserialize(p) ==
    [id |-> p.id, local |-> FALSE, ranges |-> p.ranges, nodes |-> p.nodes]
WithLocal(p, dbid) == [ShardGroupDeserialize(p) EXCEPT !.local = (p.id = dbid)]

(* ShardingInfoAddShardGroup for each of the groups gs, in the order of DOMAIN gs, to
   an info si without groups; NONE if RedisModule_Assert fails for one of them, because
   it cannot be added after another. *)
Rejects(g, h) ==
    \/ g.id = h.id
    \/ \E s \in Slot : \/ Covers(g, s, "stable") /\ \E type \in Types : Covers(h, s, type)
                       \/ Covers(g, s, "importing") /\ Covers(h, s, "importing")
                       \/ Covers(g, s, "migrating") /\ Covers(h, s, "migrating")
CanAddAll(gs) == \A j, k \in DOMAIN gs : j < k => ~ Rejects(gs[j], gs[k])
Claimed(gs, type) ==
    [s \in Slot |-> IF \E j \in DOMAIN gs : Covers(gs[j], s, type)
                    THEN gs[CHOOSE j \in DOMAIN gs : Covers(gs[j], s, type)].id ELSE NONE]
AddAll(si, gs) ==
    IF ~ CanAddAll(gs) THEN NONE
    ELSE [groups |-> [i \in {gs[j].id : j \in DOMAIN gs} |->
                         gs[CHOOSE j \in DOMAIN gs : gs[j].id = i]],
          stable |-> Claimed(gs, "stable"), importing |-> Claimed(gs, "importing"),
          migrating |-> Claimed(gs, "migrating"),
          max_importing_term |->
              [s \in Slot |-> IF \E j \in DOMAIN gs :
                                    /\ gs[j].local
                                    /\ Covers(gs[j], s, "stable") \/ Covers(gs[j], s, "migrating")
                              THEN 0 ELSE si.max_importing_term[s]],
          is_sharding |-> si.is_sharding
                              \/ \E j \in DOMAIN gs : DOMAIN gs # {j} \/ ~ IsWhole(gs[j])]

(* replaceShardGroups of the payloads ps: neither is_sharding nor max_importing_term is reset. *)
ReplaceShardGroups(si, ps, dbid) ==
    AddAll([ShardingInfoReset(si) EXCEPT !.is_sharding = si.is_sharding],
           [j \in DOMAIN ps |-> WithLocal(ps[j], dbid)])

(* ShardGroupParse: whether a group given by an operator is well-formed. *)
ShardGroupParse(g) ==
    \A i \in DOMAIN g.ranges :
        /\ g.ranges[i].slots # {} /\ g.ranges[i].slots \subseteq Slot
        /\ g.ranges[i].type \in Types

(* parseShardGroupReply: another cluster does not tell the session keys of its ranges. *)
ParseShardGroupReply(g) ==
    [g EXCEPT !.ranges = [i \in DOMAIN @ |-> [@[i] EXCEPT !.key = 0]]]

(* Mutant of Clash: stable ranges clash only with stable ones. *)
ClashOfSameType(r, q) == r.slots \cap q.slots # {} /\ r.type = q.type

(* ShardGroupsParse: whether the groups of one REPLACE are accepted. *)
Clash(r, q) ==
    r.slots \cap q.slots # {} /\ (r.type = q.type \/ "stable" \in {r.type, q.type})
ShardGroupsParse(gs) ==
    /\ \A j \in DOMAIN gs : ShardGroupParse(gs[j])
    /\ \A j, k \in DOMAIN gs : \A a \in DOMAIN gs[j].ranges, b \in DOMAIN gs[k].ranges :
        <<j, a>> # <<k, b>> => ~ Clash(gs[j].ranges[a], gs[k].ranges[b])

(* ShardingInfoRDBSave: the groups in the order of their ids *)
ShardingInfoRDBSave(si) ==
    [groups |-> [i \in DOMAIN si.groups |-> ShardGroupSerialize(si.groups[i])],
     max_importing_term |-> si.max_importing_term]

(* Mutant of ShardingInfoRDBLoad: the terms are not restored. *)
LoadWithoutTerms(si, rdb, dbid) ==
    AddAll(ShardingInfoReset(si), [i \in DOMAIN rdb.groups |-> WithLocal(rdb.groups[i], dbid)])

ShardingInfoRDBLoad(si, rdb, dbid) ==
    LET added == AddAll(ShardingInfoReset(si),
                        [i \in DOMAIN rdb.groups |-> WithLocal(rdb.groups[i], dbid)])
    IN  IF added = NONE THEN NONE
        ELSE [added EXCEPT !.max_importing_term = rdb.max_importing_term]

-----------------------------------------------------------------------------
(* The answer to a command *)

(* Mutant of getSlotShardGroup: importing slots are served without ASKING, too. *)
OwnerWithoutAsking(si, s, asking) ==
    LET IsLocal(i) == i # NONE /\ si.groups[i].local
    IN  IF si.stable[s] # NONE THEN si.stable[s]
        ELSE IF IsLocal(si.importing[s]) THEN si.importing[s]
        ELSE si.migrating[s]

(* getSlotShardGroup: the id of the group that owns the slot s, or NONE *)
getSlotShardGroup(si, s, asking) ==
    LET IsLocal(i) == i # NONE /\ si.groups[i].local
    IN  IF si.stable[s] # NONE THEN si.stable[s]
        ELSE IF ~ IsLocal(si.migrating[s]) /\ asking /\ IsLocal(si.importing[s])
        THEN si.importing[s]
        ELSE si.migrating[s]

(* The first range of g with the slot s decides: its type, and its session key. *)
FirstRange(g, s) ==
    CHOOSE i \in DOMAIN g.ranges :
        /\ s \in g.ranges[i].slots
        /\ \A j \in DOMAIN g.ranges : s \in g.ranges[j].slots => i <= j
SlotType(g, s) ==
    IF \E i \in DOMAIN g.ranges : s \in g.ranges[i].slots THEN g.ranges[FirstRange(g, s)].type
    ELSE "undef"
SessionKey(g, s) == g.ranges[FirstRange(g, s)].key

(* handleSharding with validateRaftRedisCommandArray, for a command with keys of the
   slot s; status says which of them exist, as validateKeyExistence does: "all",
   "some", "none" or, if one that exists is locked, "locked". *)
Answer(si, s, asking, status) ==
    LET id == getSlotShardGroup(si, s, asking)
        type == SlotType(si.groups[id], s)
    IN  IF ~ si.is_sharding THEN "ok"
        ELSE IF id = NONE THEN "clusterdown"
        ELSE IF type = "undef" THEN "internal"
        ELSE IF ~ si.groups[id].local THEN "moved"
        ELSE IF type = "stable" \/ status = "all" THEN "ok"
        ELSE IF type = "migrating" /\ status = "none"
        THEN IF si.importing[s] # NONE THEN "ask" ELSE "noimporter"
        ELSE "tryagain"
=============================================================================
