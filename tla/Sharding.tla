------------------------------ MODULE Sharding ------------------------------
(***************************************************************************)
(* The sharding configuration of one RedisRaft cluster: the entries that   *)
(* RAFT.SHARDGROUP ADD, LINK and REPLACE, the periodic queries of other    *)
(* clusters and RAFT.IMPORT append, and what they make of the ShardingInfo *)
(* of a node that applies all of them.                                     *)
(*                                                                         *)
(* An entry is validated when it is appended and applied later, when other *)
(* entries may have come first. A node that starts or falls behind gets    *)
(* the configuration from a snapshot instead.                              *)
(***************************************************************************)
EXTENDS ShardGroups

CONSTANTS
    dbid,          \* the id of this cluster
    Configs,       \* slot_config: the ranges that the cluster may start with
    Added,         \* groups that may be given to ADD or found by LINK
    Replacements,  \* sequences of groups that may be given to REPLACE
    Node,          \* versions of the nodes of a group
    Session,       \* migration session keys of other clusters
    MaxLog,        \* bound: entries that are appended and not yet applied
    MaxTerm        \* bound: terms of other clusters

(* The structures of redisraft.h, and a group as it is given: its type may be unknown. *)
SlotRange == [slots : SUBSET Slot, type : Types, key : Nat]
ShardGroup == [id : Id, local : BOOLEAN, ranges : Seq(SlotRange), nodes : Node \cup {NONE}]
Payload == [id : Id, ranges : Seq(SlotRange), nodes : Node \cup {NONE}]
ShardingInfo ==
    [groups : UNION {[ids -> ShardGroup] : ids \in SUBSET Id}, is_sharding : BOOLEAN,
     stable : [Slot -> Id \cup {NONE}], importing : [Slot -> Id \cup {NONE}],
     migrating : [Slot -> Id \cup {NONE}], max_importing_term : [Slot -> Nat]]
GivenGroup ==
    [id : Id, local : BOOLEAN, nodes : Node,
     ranges : Seq([slots : SUBSET Slot, type : Types \cup {"undef"}, key : Nat])]

ASSUME dbidAssumption == dbid \in Id /\ NONE \notin ShardingInfo
ASSUME GivenAssumption ==
    /\ Configs \subseteq Seq([slots : SUBSET Slot, type : {"stable"}, key : {0}])
    /\ Added \subseteq GivenGroup /\ Replacements \subseteq Seq(GivenGroup)

VARIABLES
    si,   \* the ShardingInfo, or NONE after a failed assertion
    log   \* entries appended and not yet applied

vars == <<si, log>>

(* A log entry is appended; RAFT.SHARDGROUP is for the leader. *)
RecvEntry(e) ==
    /\ si # NONE /\ Len(log) < MaxLog
    /\ log' = Append(log, e)
    /\ UNCHANGED si

ShardGroupAdd(g) ==
    /\ si # NONE /\ ShardGroupParse(g) /\ ValidateShardGroup(si, g)
    /\ RecvEntry([type |-> "add", group |-> ShardGroupSerialize(g)])

(* linkHandleResponse, with the group that another cluster has sent *)
LinkHandleResponse(g) ==
    LET received == ParseShardGroupReply(g)
    IN  /\ si # NONE /\ ShardGroupParse(received) /\ ValidateShardGroup(si, received)
        /\ RecvEntry([type |-> "add", group |-> ShardGroupSerialize(received)])

(* handleShardGroupResponse: a cluster has other nodes than those known. *)
HandleShardGroupResponse(i, nodes) ==
    /\ si # NONE /\ i \in DOMAIN si.groups \ {dbid} /\ si.groups[i].nodes # nodes
    /\ RecvEntry([type |-> "update",
                   group |-> ShardGroupSerialize([si.groups[i] EXCEPT !.nodes = nodes])])

(* ShardGroupReplace; cmdRaftShardGroup wants one group at least. *)
ShardGroupReplace(gs) ==
    /\ gs # << >> /\ ShardGroupsParse(gs)
    /\ RecvEntry([type |-> "replace",
                   groups |-> [j \in DOMAIN gs |-> ShardGroupSerialize(gs[j])]])

(* importKeys as far as it concerns the slot: validSlot, validSlotMigrationSessionKey
   and validSlotTerm *)
ImportKeys(s, key, term) ==
    /\ si # NONE /\ si.importing[s] # NONE /\ si.groups[si.importing[s]].local
    /\ SessionKey(si.groups[si.importing[s]], s) = key
    /\ si.max_importing_term[s] <= term
    /\ si' = [si EXCEPT !.max_importing_term[s] = term]
    /\ UNCHANGED log

(* Mutant of Applied: a group that was validated when it was appended is not validated
   again. *)
AppliedUnvalidated(e) ==
    CASE e.type = "add" ->
             IF e.group.id \notin DOMAIN si.groups
             THEN AddShardGroup(si, ShardGroupDeserialize(e.group)) ELSE si
      [] e.type = "update" -> UpdateShardGroup(si, ShardGroupDeserialize(e.group), dbid)
      [] e.type = "replace" -> ReplaceShardGroups(si, e.groups, dbid)

(* applyShardGroupChange and replaceShardGroups. An entry that fails an assertion
   stays in the log: the node fails again when it is started. *)
Applied(e) ==
    CASE e.type = "add" ->
             LET g == ShardGroupDeserialize(e.group)
             IN  IF CanAdd(si, g) THEN AddShardGroup(si, g) ELSE si
      [] e.type = "update" -> UpdateShardGroup(si, ShardGroupDeserialize(e.group), dbid)
      [] e.type = "replace" -> ReplaceShardGroups(si, e.groups, dbid)

Apply ==
    /\ si # NONE /\ log # << >>
    /\ si' = Applied(Head(log))
    /\ log' = IF si' = NONE THEN log ELSE Tail(log)

(* A new leader does not have the last entries. *)
Truncate ==
    /\ si # NONE /\ log # << >>
    /\ log' = SubSeq(log, 1, Len(log) - 1)
    /\ UNCHANGED si

(* The node starts again from its snapshot; it does not come up if an assertion fails. *)
Restart ==
    /\ si # NONE /\ ShardingInfoRDBLoad(ShardingInfoInit, ShardingInfoRDBSave(si), dbid) # NONE
    /\ si' = ShardingInfoRDBLoad(ShardingInfoInit, ShardingInfoRDBSave(si), dbid)
    /\ UNCHANGED log

(* AddBasicLocalShardGroup *)
Init ==
    /\ \E ranges \in Configs :
          si = AddShardGroup(ShardingInfoInit, [id |-> dbid, local |-> TRUE, ranges |-> ranges,
                                                nodes |-> NONE])
    /\ log = << >>

Next ==
    \/ \E g \in Added : ShardGroupAdd(g) \/ LinkHandleResponse(g)
    \/ \E i \in Id, nodes \in Node : HandleShardGroupResponse(i, nodes)
    \/ \E gs \in Replacements : ShardGroupReplace(gs)
    \/ \E s \in Slot, key \in Session, term \in 1 .. MaxTerm : ImportKeys(s, key, term)
    \/ Apply
    \/ Truncate
    \/ Restart

Spec == Init /\ [][Next]_vars

-----------------------------------------------------------------------------
(* The maps and the groups say the same: whatever a map has for a slot is a group that
   exists and claims the slot in that way, and whatever a group claims is in the map. *)
MapsAgree(i) ==
    \A s \in Slot, type \in Types :
        /\ MapOf(i, type)[s] # NONE => MapOf(i, type)[s] \in DOMAIN i.groups
        /\ \A id \in DOMAIN i.groups : Covers(i.groups[id], s, type) <=> MapOf(i, type)[s] = id

(* Entries are validated before other entries are applied, and replaceShardGroups
   frees all groups: still no map refers to a group that is gone, no two groups have a
   slot in the same way, and no command meets the "internal error". *)
SlotMapsAgree ==
    si # NONE =>
        /\ MapsAgree(si)
        /\ \A s \in Slot, asking \in BOOLEAN, status \in {"all", "some", "none", "locked"} :
              Answer(si, s, asking, status) # "internal"

(* The three configurations that a snapshot does not preserve: a stable range was added
   over one that is importing or migrating, and comes first in the snapshot; the
   cluster's own group was added by ADD, which does not mark it as local; or REPLACE
   has left a single group with all slots in a cluster that was sharded. *)
AddsStableFirst(i) ==
    \E a, b \in DOMAIN i.groups : \E s \in Slot :
        /\ a < b /\ Covers(i.groups[a], s, "stable")
        /\ Covers(i.groups[b], s, "importing") \/ Covers(i.groups[b], s, "migrating")
AddedItself(i) == dbid \in DOMAIN i.groups /\ ~ i.groups[dbid].local
NoLongerSharded(i) ==
    i.is_sharding /\ DOMAIN i.groups = {dbid} /\ IsWhole([i.groups[dbid] EXCEPT !.local = TRUE])

(* A node that loads the snapshot has the configuration of the node that took it, and
   so gives the same answers to the commands they both apply, except in these three. *)
LoadRestores ==
    si # NONE =>
        (ShardingInfoRDBLoad(ShardingInfoInit, ShardingInfoRDBSave(si), dbid) = si
            <=> ~ (AddsStableFirst(si) \/ AddedItself(si) \/ NoLongerSharded(si)))

(* ShardGroupsParse "validates" the groups of a REPLACE before it is appended, and the
   nodes assert on every group of it: the assertion fails only if two of the groups
   have the same id. *)
PanicsOnlyForTwins ==
    si = NONE => /\ Head(log).type = "replace"
                 /\ \E j, k \in DOMAIN Head(log).groups :
                       j # k /\ Head(log).groups[j].id = Head(log).groups[k].id
=============================================================================
