--------------------------- MODULE ShardingProofs ---------------------------
(***************************************************************************)
(* The sharding configuration stays consistent, a snapshot restores it and *)
(* a REPLACE does not make the nodes fail, with the exceptions that module *)
(* Sharding names, for any slots, clusters and commands.                   *)
(*                                                                         *)
(* The inductive invariant adds to these what the nodes have in common     *)
(* with the snapshot: every group is stored under its id, only the         *)
(* cluster's own group is local, and a cluster that is not sharded has     *)
(* nothing but that group, with all slots. Entries in the log have passed  *)
(* the checks that are made when they are appended.                        *)
(***************************************************************************)
EXTENDS Sharding, WellFoundedInduction, TLAPS

Entry ==
    [type : {"add", "update"}, group : Payload]
        \cup {e \in [type : {"replace"}, groups : Seq(Payload)] :
                 e.groups # << >> /\ ShardGroupsParse(e.groups)}

TypeOK == si \in ShardingInfo \cup {NONE} /\ log \in Seq(Entry)

(* Every group is stored under its id, and none but the cluster's own is local. *)
Marked(i) ==
    \A id \in DOMAIN i.groups : i.groups[id].id = id /\ (i.groups[id].local => id = dbid)

(* There are groups, and other than the cluster's own only if it is sharded. *)
ShardedOrWhole(i) ==
    /\ DOMAIN i.groups # {}
    /\ i.is_sharding \/ (DOMAIN i.groups = {dbid} /\ IsWhole(i.groups[dbid]))

Consistent(i) == i \in ShardingInfo /\ MapsAgree(i) /\ Marked(i) /\ ShardedOrWhole(i)

IInv == TypeOK /\ (si # NONE => Consistent(si)) /\ PanicsOnlyForTwins

-----------------------------------------------------------------------------
(* Facts about the operators *)

LEMMA LeastNumber ==
    ASSUME NEW T \in SUBSET Nat, NEW n \in T
    PROVE  \E i \in T : \A j \in T : i <= j
<1> DEFINE Less == {p \in Nat \X Nat : p[1] < p[2]}
<1>1. IsWellFoundedOn(Less, Nat)
  BY NatLessThanWellFounded, Zenon DEF OpToRel
<1>2. PICK x \in T : \A y \in T : ~ (<<y, x>> \in Less)
  <2> HIDE DEF Less
  <2> QED
    BY <1>1, WFMin
<1>3. ASSUME NEW y \in T PROVE x <= y
  <2>1. x \in Nat /\ y \in Nat
    OBVIOUS
  <2>2. <<y, x>> \notin Less
    BY <1>2
  <2>3. ~ (y < x)
    <3> SUFFICES ASSUME y < x PROVE <<y, x>> \in Less
      BY <2>2, Zenon
    <3> QED
      BY <2>1
  <2> QED
    BY <2>1, <2>3
<1> QED
  BY <1>3

LEMMA SeqMonotone ==
    ASSUME NEW S, NEW T, S \subseteq T, NEW q \in Seq(S)
    PROVE  q \in Seq(T)
  OBVIOUS

LEMMA SeqElement ==
    ASSUME NEW S, NEW q \in Seq(S), NEW i \in DOMAIN q
    PROVE  q[i] \in S
  OBVIOUS

(* A slot that a group covers has a type there. *)
LEMMA CoveredHasType ==
    ASSUME NEW g \in ShardGroup, NEW s \in Slot, NEW type \in Types, Covers(g, s, type)
    PROVE  SlotType(g, s) \in Types
<1> DEFINE T == {i \in DOMAIN g.ranges : s \in g.ranges[i].slots}
<1>1. g.ranges \in Seq(SlotRange)
  BY DEF ShardGroup
<1>2. PICK n \in T : TRUE
  BY DEF Covers
<1>3. T \in SUBSET Nat
  BY <1>1
<1>4. \E i \in T : \A j \in T : i <= j
  BY <1>2, <1>3, LeastNumber, Zenon
<1>5. FirstRange(g, s) \in DOMAIN g.ranges
  BY <1>4 DEF FirstRange
<1>6. g.ranges[FirstRange(g, s)] \in SlotRange
  BY <1>1, <1>5
<1> QED
  BY <1>2, <1>6 DEF SlotType, SlotRange

LEMMA InfoFields ==
    ASSUME NEW i \in ShardingInfo
    PROVE  /\ i.groups = [id \in DOMAIN i.groups |-> i.groups[id]]
           /\ DOMAIN i.groups \subseteq Id
           /\ \A id \in DOMAIN i.groups : i.groups[id] \in ShardGroup
           /\ i.is_sharding \in BOOLEAN /\ i.max_importing_term \in [Slot -> Nat]
           /\ \A type \in Types : MapOf(i, type) \in [Slot -> Id \cup {NONE}]
           /\ i = [groups |-> i.groups, is_sharding |-> i.is_sharding, stable |-> i.stable,
                   importing |-> i.importing, migrating |-> i.migrating,
                   max_importing_term |-> i.max_importing_term]
<1>1. PICK ids \in SUBSET Id : i.groups \in [ids -> ShardGroup]
  BY DEF ShardingInfo
<1>2. \A type \in Types : MapOf(i, type) \in [Slot -> Id \cup {NONE}]
  BY DEF ShardingInfo, MapOf, Types
<1>3. i = [groups |-> i.groups, is_sharding |-> i.is_sharding, stable |-> i.stable,
           importing |-> i.importing, migrating |-> i.migrating,
           max_importing_term |-> i.max_importing_term]
  BY DEF ShardingInfo
<1> QED
  BY <1>1, <1>2, <1>3 DEF ShardingInfo

LEMMA MadeInfo ==
    ASSUME NEW ids \in SUBSET Id, NEW groups \in [ids -> ShardGroup], NEW is_sharding \in BOOLEAN,
           NEW stable \in [Slot -> Id \cup {NONE}], NEW importing \in [Slot -> Id \cup {NONE}],
           NEW migrating \in [Slot -> Id \cup {NONE}], NEW terms \in [Slot -> Nat]
    PROVE  [groups |-> groups, is_sharding |-> is_sharding, stable |-> stable,
            importing |-> importing, migrating |-> migrating,
            max_importing_term |-> terms] \in ShardingInfo
  BY DEF ShardingInfo

(* A group that passes ShardingInfoValidateShardGroup covers nothing in the way another
   group does. *)
LEMMA ValidIsFree ==
    ASSUME NEW i, NEW g, ValidateShardGroup(i, g), NEW s \in Slot, NEW type \in Types,
           Covers(g, s, type)
    PROVE  MapOf(i, type)[s] = NONE
  BY DEF ValidateShardGroup, Covers, Types, MapOf

(* ShardingInfoAddShardGroup keeps the configuration consistent. *)
LEMMA AddIsConsistent ==
    ASSUME NEW i \in ShardingInfo, MapsAgree(i), Marked(i),
           NEW g \in ShardGroup, g.local => g.id = dbid, CanAdd(i, g)
    PROVE  Consistent(AddShardGroup(i, g))
<1> DEFINE a == AddShardGroup(i, g)
           ids == DOMAIN i.groups \cup {g.id}
<1>0. /\ DOMAIN i.groups \subseteq Id
      /\ \A id \in DOMAIN i.groups : i.groups[id] \in ShardGroup
      /\ i.max_importing_term \in [Slot -> Nat]
      /\ \A type \in Types : MapOf(i, type) \in [Slot -> Id \cup {NONE}]
  BY InfoFields, Zenon
<1>1. g.id \in Id /\ g.id \notin DOMAIN i.groups /\ g.local \in BOOLEAN /\ NONE \notin Id
  BY IdAssumption DEF CanAdd, ShardGroup
<1>2. /\ a.groups \in [ids -> ShardGroup] /\ DOMAIN a.groups = ids /\ a.groups[g.id] = g
      /\ \A id \in DOMAIN i.groups : a.groups[id] = i.groups[id]
  BY <1>0, <1>1 DEF AddShardGroup
<1>3. \A type \in Types : MapOf(a, type) = Mapped(MapOf(i, type), g, type)
  BY DEF AddShardGroup, MapOf, Types
<1>4. \A type \in Types : Mapped(MapOf(i, type), g, type) \in [Slot -> Id \cup {NONE}]
  <2> SUFFICES ASSUME NEW type \in Types, NEW map \in [Slot -> Id \cup {NONE}]
               PROVE  Mapped(map, g, type) \in [Slot -> Id \cup {NONE}]
    BY <1>0, Zenon
  <2> QED
    BY <1>1 DEF Mapped
<1>5. a \in ShardingInfo
  <2>1. ids \in SUBSET Id
    BY <1>0, <1>1
  <2>2. /\ a.stable \in [Slot -> Id \cup {NONE}] /\ a.importing \in [Slot -> Id \cup {NONE}]
        /\ a.migrating \in [Slot -> Id \cup {NONE}]
    BY <1>3, <1>4 DEF MapOf, Types
  <2>3. a.max_importing_term \in [Slot -> Nat]
    BY <1>0 DEF AddShardGroup
  <2>4. a.is_sharding \in BOOLEAN
    BY Zenon DEF AddShardGroup
  <2>5. a = [groups |-> a.groups, is_sharding |-> a.is_sharding, stable |-> a.stable,
             importing |-> a.importing, migrating |-> a.migrating,
             max_importing_term |-> a.max_importing_term]
    BY DEF AddShardGroup
  <2> HIDE DEF a
  <2> QED
    BY <2>1, <2>2, <2>3, <2>4, <2>5, <1>2, MadeInfo
<1>6. MapsAgree(a)
  <2> SUFFICES ASSUME NEW s \in Slot, NEW type \in Types
               PROVE  /\ MapOf(a, type)[s] # NONE => MapOf(a, type)[s] \in ids
                      /\ \A id \in ids : Covers(a.groups[id], s, type) <=> MapOf(a, type)[s] = id
    BY <1>2 DEF MapsAgree
  <2>1. MapOf(a, type)[s] = IF Covers(g, s, type) THEN g.id ELSE MapOf(i, type)[s]
    BY <1>3 DEF Mapped
  <2>2. /\ MapOf(i, type)[s] # NONE => MapOf(i, type)[s] \in DOMAIN i.groups
        /\ \A id \in DOMAIN i.groups : Covers(i.groups[id], s, type) <=> MapOf(i, type)[s] = id
    BY DEF MapsAgree
  <2>3. Covers(g, s, type) => MapOf(i, type)[s] = NONE
    BY ValidIsFree DEF CanAdd
  <2> HIDE DEF a
  <2>4. MapOf(a, type)[s] # NONE => MapOf(a, type)[s] \in ids
    BY <2>1, <2>2, Zenon
  <2>5. Covers(a.groups[g.id], s, type) <=> MapOf(a, type)[s] = g.id
    BY <2>1, <2>2, <1>1, <1>2, Zenon
  <2>6. ASSUME NEW id \in DOMAIN i.groups
        PROVE  Covers(a.groups[id], s, type) <=> MapOf(a, type)[s] = id
    BY <2>1, <2>2, <2>3, <1>0, <1>1, <1>2, Zenon
  <2> QED
    BY <2>4, <2>5, <2>6, Zenon
<1>7. Marked(a)
  <2> HIDE DEF a
  <2> QED
    BY <1>1, <1>2 DEF Marked
<1>8. ShardedOrWhole(a)
  <2>1. a.is_sharding \/ (DOMAIN i.groups = {} /\ IsWhole(g))
    BY Zenon DEF AddShardGroup
  <2>2. IsWhole(g) => g.id = dbid
    BY DEF IsWhole
  <2> HIDE DEF a
  <2> QED
    BY <2>1, <2>2, <1>2 DEF ShardedOrWhole
<1> QED
  BY <1>5, <1>6, <1>7, <1>8, Zenon DEF Consistent

(* Groups that can be added one after the other differ in their ids and in what they
   cover. *)
LEMMA AddableDiffer ==
    ASSUME NEW gs, DOMAIN gs \subseteq Nat, CanAddAll(gs),
           NEW j \in DOMAIN gs, NEW k \in DOMAIN gs, j # k
    PROVE  /\ gs[j].id # gs[k].id
           /\ \A s \in Slot, type \in Types : ~ (Covers(gs[j], s, type) /\ Covers(gs[k], s, type))
<1>1. ~ Rejects(gs[j], gs[k]) \/ ~ Rejects(gs[k], gs[j])
  <2>1. j < k \/ k < j
    OBVIOUS
  <2> QED
    BY <2>1, Zenon DEF CanAddAll
<1> QED
  BY <1>1, Zenon DEF Rejects, Types

(* What a map has after the groups gs were added *)
LEMMA ClaimedBy ==
    ASSUME NEW gs, DOMAIN gs \subseteq Nat, CanAddAll(gs), NEW s \in Slot, NEW type \in Types
    PROVE  /\ \A j \in DOMAIN gs : Covers(gs[j], s, type) => Claimed(gs, type)[s] = gs[j].id
           /\ Claimed(gs, type)[s] # NONE =>
                 \E j \in DOMAIN gs : Covers(gs[j], s, type) /\ Claimed(gs, type)[s] = gs[j].id
<1>1. ASSUME NEW j \in DOMAIN gs, Covers(gs[j], s, type)
      PROVE  Claimed(gs, type)[s] = gs[j].id
  <2> DEFINE k == CHOOSE k \in DOMAIN gs : Covers(gs[k], s, type)
  <2>1. k \in DOMAIN gs /\ Covers(gs[k], s, type)
    BY <1>1, Zenon
  <2>2. k = j
    BY <1>1, <2>1, AddableDiffer, Zenon
  <2>3. Claimed(gs, type)[s] = gs[k].id
    BY <1>1, Zenon DEF Claimed
  <2> QED
    BY <2>2, <2>3, Zenon
<1>2. Claimed(gs, type)[s] # NONE => \E j \in DOMAIN gs : Covers(gs[j], s, type)
  BY Zenon DEF Claimed
<1> QED
  BY <1>1, <1>2, Zenon

LEMMA GroupWith ==
    ASSUME NEW gs, DOMAIN gs \subseteq Nat, CanAddAll(gs), NEW j \in DOMAIN gs
    PROVE  (CHOOSE k \in DOMAIN gs : gs[k].id = gs[j].id) = j
<1>1. \A k \in DOMAIN gs : gs[k].id = gs[j].id => k = j
  BY AddableDiffer, Zenon
<1> QED
  BY <1>1, Zenon

(* replaceShardGroups and ShardingInfoRDBLoad build a consistent configuration, unless an
   assertion fails. *)
LEMMA AddAllIsConsistent ==
    ASSUME NEW i, i.is_sharding \in BOOLEAN, i.max_importing_term \in [Slot -> Nat],
           NEW gs, DOMAIN gs \subseteq Nat, DOMAIN gs # {}, CanAddAll(gs),
           \A j \in DOMAIN gs : gs[j] \in ShardGroup /\ (gs[j].local => gs[j].id = dbid)
    PROVE  Consistent(AddAll(i, gs))
<1> DEFINE a == AddAll(i, gs)
           ids == {gs[j].id : j \in DOMAIN gs}
<1>1. ids \in SUBSET Id /\ NONE \notin Id /\ \A j \in DOMAIN gs : gs[j].id \in ids
  BY IdAssumption DEF ShardGroup
<1>2. /\ a.groups \in [ids -> ShardGroup] /\ DOMAIN a.groups = ids
      /\ \A j \in DOMAIN gs : a.groups[gs[j].id] = gs[j]
  <2>1. a.groups = [id \in ids |-> gs[CHOOSE j \in DOMAIN gs : gs[j].id = id]]
    BY DEF AddAll
  <2>2. \A j \in DOMAIN gs : a.groups[gs[j].id] = gs[j]
    <3> SUFFICES ASSUME NEW j \in DOMAIN gs PROVE a.groups[gs[j].id] = gs[j]
      OBVIOUS
    <3>1. (CHOOSE k \in DOMAIN gs : gs[k].id = gs[j].id) = j
      BY GroupWith
    <3> HIDE DEF a
    <3> QED
      BY <1>1, <2>1, <3>1, Zenon
  <2>3. \A id \in ids : a.groups[id] \in ShardGroup
    BY <2>2, Zenon
  <2> HIDE DEF a
  <2> QED
    BY <2>1, <2>2, <2>3
<1>3. \A type \in Types : MapOf(a, type) = Claimed(gs, type)
  BY DEF AddAll, MapOf, Types
<1>4. \A type \in Types : Claimed(gs, type) \in [Slot -> Id \cup {NONE}]
  <2> SUFFICES ASSUME NEW type \in Types, NEW s \in Slot
               PROVE  Claimed(gs, type)[s] \in Id \cup {NONE}
    BY Zenon DEF Claimed
  <2> QED
    BY <1>1, ClaimedBy
<1>5. a \in ShardingInfo
  <2>1. /\ a.stable \in [Slot -> Id \cup {NONE}] /\ a.importing \in [Slot -> Id \cup {NONE}]
        /\ a.migrating \in [Slot -> Id \cup {NONE}]
    BY <1>3, <1>4 DEF MapOf, Types
  <2>2. a.max_importing_term \in [Slot -> Nat]
    BY DEF AddAll
  <2>3. a.is_sharding \in BOOLEAN
    BY Zenon DEF AddAll
  <2>4. a = [groups |-> a.groups, is_sharding |-> a.is_sharding, stable |-> a.stable,
             importing |-> a.importing, migrating |-> a.migrating,
             max_importing_term |-> a.max_importing_term]
    BY DEF AddAll
  <2> HIDE DEF a, ids
  <2> QED
    BY <2>1, <2>2, <2>3, <2>4, <1>1, <1>2, MadeInfo
<1>6. MapsAgree(a)
  <2> HIDE DEF a
  <2> SUFFICES ASSUME NEW s \in Slot, NEW type \in Types
               PROVE  /\ Claimed(gs, type)[s] # NONE => Claimed(gs, type)[s] \in ids
                      /\ \A j \in DOMAIN gs :
                            Covers(gs[j], s, type) <=> Claimed(gs, type)[s] = gs[j].id
    BY <1>2, <1>3 DEF MapsAgree
  <2>1. Claimed(gs, type)[s] # NONE => Claimed(gs, type)[s] \in ids
    BY <1>1, ClaimedBy
  <2>2. ASSUME NEW j \in DOMAIN gs, Claimed(gs, type)[s] = gs[j].id
        PROVE  Covers(gs[j], s, type)
    <3>1. gs[j].id # NONE
      BY <1>1, Zenon
    <3> QED
      BY <2>2, <3>1, ClaimedBy, AddableDiffer
  <2> QED
    BY <2>1, <2>2, ClaimedBy
<1>7. Marked(a)
  <2> HIDE DEF a
  <2> QED
    BY <1>2, ZenonT(30) DEF Marked
<1>8. ShardedOrWhole(a)
  <2>1. a.is_sharding \/ \A j \in DOMAIN gs : DOMAIN gs = {j} /\ IsWhole(gs[j])
    BY Zenon DEF AddAll
  <2>2. \A j \in DOMAIN gs : IsWhole(gs[j]) => gs[j].id = dbid
    BY DEF IsWhole
  <2> HIDE DEF a
  <2>3. PICK j \in DOMAIN gs : TRUE
    OBVIOUS
  <2>4. DOMAIN gs = {j} => ids = {gs[j].id}
    OBVIOUS
  <2> QED
    BY <2>1, <2>2, <2>3, <2>4, <1>1, <1>2, Zenon DEF ShardedOrWhole
<1> QED
  BY <1>5, <1>6, <1>7, <1>8, Zenon DEF Consistent

(* RAFT.IMPORT and ShardingInfoRDBLoad change the terms and nothing else. *)
LEMMA TermsDoNotMatter ==
    ASSUME NEW i, Consistent(i), NEW terms \in [Slot -> Nat]
    PROVE  Consistent([i EXCEPT !.max_importing_term = terms])
<1> DEFINE a == [i EXCEPT !.max_importing_term = terms]
<1>1. i \in ShardingInfo
  BY DEF Consistent
<1>2. /\ a \in ShardingInfo /\ a.groups = i.groups /\ a.is_sharding = i.is_sharding
      /\ a.stable = i.stable /\ a.importing = i.importing /\ a.migrating = i.migrating
  BY <1>1 DEF ShardingInfo
<1> HIDE DEF a
<1>3. MapsAgree(a)
  <2>1. \A type \in Types : MapOf(a, type) = MapOf(i, type)
    BY <1>2 DEF MapOf, Types
  <2> QED
    BY <1>2, <2>1 DEF MapsAgree, Consistent
<1>4. Marked(a) /\ ShardedOrWhole(a)
  BY <1>2, Zenon DEF Consistent, Marked, ShardedOrWhole
<1> QED
  BY <1>2, <1>3, <1>4, Zenon DEF Consistent, a

(* ShardingInfoUpdateShardGroup changes the nodes of another cluster and nothing else. *)
LEMMA UpdateIsConsistent ==
    ASSUME NEW i, Consistent(i), NEW g, g.nodes \in Node \cup {NONE}
    PROVE  Consistent(UpdateShardGroup(i, g, dbid))
<1> SUFFICES ASSUME g.id # dbid, g.id \in DOMAIN i.groups
             PROVE  Consistent([i EXCEPT !.groups[g.id].nodes = g.nodes])
  BY Zenon DEF UpdateShardGroup
<1> DEFINE a == [i EXCEPT !.groups[g.id].nodes = g.nodes]
           h == i.groups[g.id]
<1>1. i \in ShardingInfo
  BY DEF Consistent
<1>2. PICK ids \in SUBSET Id : i.groups \in [ids -> ShardGroup]
  BY <1>1 DEF ShardingInfo
<1>3. h \in ShardGroup /\ g.id \in ids
  BY <1>2
<1>4. /\ [h EXCEPT !.nodes = g.nodes] \in ShardGroup
      /\ [h EXCEPT !.nodes = g.nodes].id = h.id
      /\ [h EXCEPT !.nodes = g.nodes].local = h.local
      /\ [h EXCEPT !.nodes = g.nodes].ranges = h.ranges
  BY <1>3 DEF ShardGroup
<1>5. /\ a.groups = [i.groups EXCEPT ![g.id] = [h EXCEPT !.nodes = g.nodes]]
      /\ a.is_sharding = i.is_sharding /\ a.max_importing_term = i.max_importing_term
      /\ a.stable = i.stable /\ a.importing = i.importing /\ a.migrating = i.migrating
      /\ a = [groups |-> a.groups, is_sharding |-> a.is_sharding, stable |-> a.stable,
              importing |-> a.importing, migrating |-> a.migrating,
              max_importing_term |-> a.max_importing_term]
  BY <1>1 DEF ShardingInfo
<1> HIDE DEF a, h
<1>6. a.groups \in [ids -> ShardGroup] /\ DOMAIN a.groups = DOMAIN i.groups
  BY <1>2, <1>4, <1>5
<1>7. \A id \in DOMAIN i.groups :
         /\ a.groups[id].id = i.groups[id].id /\ a.groups[id].local = i.groups[id].local
         /\ a.groups[id].ranges = i.groups[id].ranges
  BY <1>2, <1>4, <1>5 DEF h
<1>8. a \in ShardingInfo
  <2>1. /\ i.is_sharding \in BOOLEAN /\ i.max_importing_term \in [Slot -> Nat]
        /\ i.stable \in [Slot -> Id \cup {NONE}] /\ i.importing \in [Slot -> Id \cup {NONE}]
        /\ i.migrating \in [Slot -> Id \cup {NONE}]
    BY <1>1 DEF ShardingInfo
  <2> QED
    BY <1>5, <1>6, <2>1, MadeInfo
<1>9. MapsAgree(a)
  <2>1. \A id \in DOMAIN i.groups, s \in Slot, type \in Types :
           Covers(a.groups[id], s, type) <=> Covers(i.groups[id], s, type)
    BY <1>7, Zenon DEF Covers
  <2>2. \A type \in Types : MapOf(a, type) = MapOf(i, type)
    BY <1>5 DEF MapOf, Types
  <2>3. MapsAgree(i)
    BY DEF Consistent
  <2> QED
    BY <1>6, <2>1, <2>2, <2>3 DEF MapsAgree
<1>10. Marked(a) /\ ShardedOrWhole(a)
  <2>1. Marked(a)
    BY <1>6, <1>7 DEF Consistent, Marked
  <2>2. DOMAIN i.groups # {dbid}
    OBVIOUS
  <2> QED
    BY <1>5, <1>6, <2>1, <2>2, Zenon DEF Consistent, ShardedOrWhole
<1> QED
  BY <1>8, <1>9, <1>10, Zenon DEF Consistent, a

(* The groups of a REPLACE and of a snapshot *)
LEMMA LocalIsOwn ==
    ASSUME NEW q \in Payload
    PROVE  /\ WithLocal(q, dbid) \in ShardGroup
           /\ WithLocal(q, dbid).id = q.id /\ WithLocal(q, dbid).ranges = q.ranges
           /\ WithLocal(q, dbid).local => q.id = dbid
<1> DEFINE own == (q.id = dbid)
<1>1. WithLocal(q, dbid) = [id |-> q.id, local |-> own, ranges |-> q.ranges, nodes |-> q.nodes]
  BY DEF WithLocal, ShardGroupDeserialize
<1>2. own \in BOOLEAN /\ (own => q.id = dbid)
  BY Zenon
<1> HIDE DEF own
<1>3. WithLocal(q, dbid) \in ShardGroup
  BY <1>1, <1>2 DEF Payload, ShardGroup
<1> QED
  BY <1>1, <1>2, <1>3

LEMMA SerializedIsPayload ==
    ASSUME NEW g \in ShardGroup
    PROVE  /\ ShardGroupSerialize(g) \in Payload
           /\ WithLocal(ShardGroupSerialize(g), dbid) = [g EXCEPT !.local = (g.id = dbid)]
  BY DEF ShardGroupSerialize, WithLocal, ShardGroupDeserialize, Payload, ShardGroup

(* What ShardGroupParse accepts can be appended to the log. *)
LEMMA ParsedIsPayload ==
    ASSUME NEW g \in GivenGroup, ShardGroupParse(g)
    PROVE  ShardGroupSerialize(g) \in Payload
<1>1. g.ranges \in Seq(SlotRange)
  <2>1. g.ranges \in Seq([slots : SUBSET Slot, type : Types \cup {"undef"}, key : Nat])
    BY DEF GivenGroup
  <2>2. \A i \in DOMAIN g.ranges : g.ranges[i] \in SlotRange
    <3> SUFFICES ASSUME NEW i \in DOMAIN g.ranges PROVE g.ranges[i] \in SlotRange
      OBVIOUS
    <3>1. g.ranges[i] \in [slots : SUBSET Slot, type : Types \cup {"undef"}, key : Nat]
      BY <2>1, SeqElement, Zenon
    <3>2. g.ranges[i].type \in Types
      BY DEF ShardGroupParse
    <3> QED
      BY <3>1, <3>2 DEF SlotRange
  <2> QED
    BY <2>1, <2>2
<1> QED
  BY <1>1 DEF ShardGroupSerialize, Payload, GivenGroup

(* Groups that ShardGroupsParse accepts can be added one after the other, unless two have
   the same id. *)
LEMMA ParsedCanBeAdded ==
    ASSUME NEW ps \in Seq(Payload), ShardGroupsParse(ps),
           ~ CanAddAll([j \in DOMAIN ps |-> WithLocal(ps[j], dbid)])
    PROVE  \E j, k \in DOMAIN ps : j # k /\ ps[j].id = ps[k].id
<1> DEFINE gs == [j \in DOMAIN ps |-> WithLocal(ps[j], dbid)]
<1>1. PICK j \in DOMAIN ps, k \in DOMAIN ps : j < k /\ Rejects(gs[j], gs[k])
  BY Zenon DEF CanAddAll
<1>2. j # k
  BY <1>1
<1>3. \A m \in DOMAIN ps : gs[m].id = ps[m].id /\ gs[m].ranges = ps[m].ranges
  BY LocalIsOwn
<1> HIDE DEF gs
<1>4. CASE gs[j].id = gs[k].id
  BY <1>2, <1>3, <1>4, Zenon
<1>5. ASSUME NEW s \in Slot, NEW t \in Types, NEW u \in Types, t = u \/ t = "stable",
             Covers(gs[j], s, t), Covers(gs[k], s, u)
      PROVE  FALSE
  <2>1. PICK a \in DOMAIN ps[j].ranges : s \in ps[j].ranges[a].slots /\ ps[j].ranges[a].type = t
    BY <1>3, <1>5, Zenon DEF Covers
  <2>2. PICK b \in DOMAIN ps[k].ranges : s \in ps[k].ranges[b].slots /\ ps[k].ranges[b].type = u
    BY <1>3, <1>5, Zenon DEF Covers
  <2>3. <<j, a>> # <<k, b>>
    BY <1>2
  <2>4. ~ Clash(ps[j].ranges[a], ps[k].ranges[b])
    BY <2>3, Zenon DEF ShardGroupsParse
  <2> QED
    BY <1>5, <2>1, <2>2, <2>4 DEF Clash
<1> QED
  BY <1>1, <1>4, <1>5, Zenon DEF Rejects, Types

-----------------------------------------------------------------------------
(* The inductive invariant *)

LEMMA InitEstablishes == Init => IInv
<1> SUFFICES ASSUME Init PROVE IInv
  OBVIOUS
<1>1. PICK ranges \in Configs :
         si = AddShardGroup(ShardingInfoInit, [id |-> dbid, local |-> TRUE, ranges |-> ranges,
                                               nodes |-> NONE])
  BY Zenon DEF Init
<1> DEFINE g == [id |-> dbid, local |-> TRUE, ranges |-> ranges, nodes |-> NONE]
           i == ShardingInfoInit
<1>2. g \in ShardGroup
  <2>1. ranges \in Seq([slots : SUBSET Slot, type : {"stable"}, key : {0}])
    BY GivenAssumption, Zenon
  <2>2. [slots : SUBSET Slot, type : {"stable"}, key : {0}] \subseteq SlotRange
    BY DEF SlotRange, Types
  <2>3. ranges \in Seq(SlotRange)
    BY <2>1, <2>2, SeqMonotone, Zenon
  <2> QED
    BY <2>3, dbidAssumption DEF ShardGroup
<1>3. i \in ShardingInfo /\ DOMAIN i.groups = {}
      /\ \A s \in Slot : i.stable[s] = NONE /\ i.importing[s] = NONE /\ i.migrating[s] = NONE
  <2> DEFINE none == [id \in {} |-> NONE]
  <2>1. {} \in SUBSET Id /\ none \in [{} -> ShardGroup] /\ FALSE \in BOOLEAN
    OBVIOUS
  <2>2. Unmapped \in [Slot -> Id \cup {NONE}] /\ [s \in Slot |-> 0] \in [Slot -> Nat]
    BY DEF Unmapped
  <2>3. i \in ShardingInfo
    BY <2>1, <2>2, MadeInfo DEF ShardingInfoInit
  <2> QED
    BY <2>3 DEF ShardingInfoInit, Unmapped
<1> HIDE DEF i
<1>4. MapsAgree(i) /\ Marked(i)
  BY <1>3 DEF MapsAgree, MapOf, Marked, Types
<1>5. CanAdd(i, g)
  <2>1. \A r \in DOMAIN ranges : ranges[r].slots \subseteq Slot
    <3>1. ranges \in Seq(SlotRange)
      BY <1>2 DEF ShardGroup
    <3>2. \A r \in DOMAIN ranges : ranges[r] \in SlotRange
      BY <3>1
    <3> QED
      BY <3>2 DEF SlotRange
  <2> QED
    BY <1>3, <2>1 DEF CanAdd, ValidateShardGroup
<1>6. Consistent(si)
  BY <1>1, <1>2, <1>3, <1>4, <1>5, AddIsConsistent DEF i
<1>7. si \in ShardingInfo /\ si # NONE
  BY <1>6, dbidAssumption DEF Consistent
<1> QED
  BY <1>6, <1>7 DEF Init, IInv, TypeOK, PanicsOnlyForTwins

(* A checked entry is appended. *)
LEMMA RecvEntryPreserves ==
    ASSUME IInv, NEW e \in Entry, RecvEntry(e)
    PROVE  IInv'
<1>1. log' \in Seq(Entry) /\ si' = si /\ si # NONE
  BY DEF IInv, TypeOK, RecvEntry
<1> QED
  BY <1>1 DEF IInv, TypeOK, PanicsOnlyForTwins

LEMMA AddPreserves ==
    ASSUME IInv, NEW g \in GivenGroup, ShardGroupAdd(g) \/ LinkHandleResponse(g)
    PROVE  IInv'
<1>1. ASSUME NEW h \in GivenGroup, ShardGroupParse(h),
             RecvEntry([type |-> "add", group |-> ShardGroupSerialize(h)])
      PROVE  IInv'
  <2>1. [type |-> "add", group |-> ShardGroupSerialize(h)] \in Entry
    BY <1>1, ParsedIsPayload DEF Entry
  <2> QED
    BY <1>1, <2>1, RecvEntryPreserves
<1>2. ParseShardGroupReply(g) \in GivenGroup
  <2> DEFINE Given == [slots : SUBSET Slot, type : Types \cup {"undef"}, key : Nat]
             new == [i \in DOMAIN g.ranges |-> [g.ranges[i] EXCEPT !.key = 0]]
  <2>1. g.ranges \in Seq(Given)
    BY DEF GivenGroup
  <2>2. \A i \in DOMAIN g.ranges : g.ranges[i] \in Given
    BY <2>1, SeqElement, Zenon
  <2>3. \A i \in DOMAIN g.ranges : [g.ranges[i] EXCEPT !.key = 0] \in Given
    BY <2>2
  <2>4. new \in Seq(Given)
    <3> HIDE DEF Given
    <3> QED
      BY <2>1, <2>3
  <2>5. ParseShardGroupReply(g) = [g EXCEPT !.ranges = new]
    BY DEF ParseShardGroupReply, GivenGroup
  <2> HIDE DEF new
  <2> QED
    BY <2>4, <2>5 DEF GivenGroup
<1>3. CASE ShardGroupAdd(g)
  BY <1>1, <1>3 DEF ShardGroupAdd
<1>4. CASE LinkHandleResponse(g)
  BY <1>1, <1>2, <1>4 DEF LinkHandleResponse
<1> QED
  BY <1>3, <1>4

LEMMA UpdatePreserves ==
    ASSUME IInv, NEW i \in Id, NEW nodes \in Node, HandleShardGroupResponse(i, nodes)
    PROVE  IInv'
<1>1. si \in ShardingInfo /\ i \in DOMAIN si.groups
  BY DEF HandleShardGroupResponse, IInv, TypeOK
<1>2. si.groups[i] \in ShardGroup
  BY <1>1, InfoFields, Zenon
<1>3. ShardGroupSerialize([si.groups[i] EXCEPT !.nodes = nodes]) \in Payload
  BY <1>2 DEF ShardGroup, ShardGroupSerialize, Payload
<1>4. [type |-> "update",
       group |-> ShardGroupSerialize([si.groups[i] EXCEPT !.nodes = nodes])] \in Entry
  BY <1>3 DEF Entry
<1> QED
  BY <1>4, RecvEntryPreserves DEF HandleShardGroupResponse

LEMMA ReplacePreserves ==
    ASSUME IInv, NEW gs \in Seq(GivenGroup), ShardGroupReplace(gs)
    PROVE  IInv'
<1> DEFINE ps == [j \in DOMAIN gs |-> ShardGroupSerialize(gs[j])]
<1>1. gs # << >> /\ ShardGroupsParse(gs)
  BY DEF ShardGroupReplace
<1>2. \A j \in DOMAIN gs : ShardGroupSerialize(gs[j]) \in Payload
  <2>1. \A j \in DOMAIN gs : gs[j] \in GivenGroup
    BY SeqElement, Zenon
  <2> QED
    BY <1>1, <2>1, ParsedIsPayload, Zenon DEF ShardGroupsParse
<1>3. ps \in Seq(Payload) /\ ps # << >> /\ DOMAIN ps = DOMAIN gs
  BY <1>1, <1>2
<1>4. \A j \in DOMAIN gs : ps[j].ranges = gs[j].ranges
  BY DEF ShardGroupSerialize
<1> HIDE DEF ps
<1>5. ShardGroupsParse(ps)
  <2>1. \A j \in DOMAIN ps : ShardGroupParse(ps[j])
    BY <1>1, <1>3, <1>4 DEF ShardGroupsParse, ShardGroupParse
  <2>2. ASSUME NEW j \in DOMAIN ps, NEW k \in DOMAIN ps, NEW a \in DOMAIN ps[j].ranges,
               NEW b \in DOMAIN ps[k].ranges, <<j, a>> # <<k, b>>
        PROVE  ~ Clash(ps[j].ranges[a], ps[k].ranges[b])
    BY <1>1, <1>3, <1>4, <2>2 DEF ShardGroupsParse
  <2> QED
    BY <2>1, <2>2, Zenon DEF ShardGroupsParse
<1>6. [type |-> "replace", groups |-> ps] \in Entry
  BY <1>3, <1>5 DEF Entry
<1> QED
  BY <1>6, RecvEntryPreserves DEF ShardGroupReplace, ps

LEMMA ImportPreserves ==
    ASSUME IInv, NEW s \in Slot, NEW key, NEW term \in Nat, ImportKeys(s, key, term)
    PROVE  IInv'
<1>1. si \in ShardingInfo /\ si # NONE /\ Consistent(si)
  BY DEF ImportKeys, IInv, TypeOK
<1>2. [si.max_importing_term EXCEPT ![s] = term] \in [Slot -> Nat]
  BY <1>1, InfoFields, Zenon
<1>3. si' = [si EXCEPT !.max_importing_term = [si.max_importing_term EXCEPT ![s] = term]]
  BY DEF ImportKeys
<1>4. Consistent(si')
  BY <1>1, <1>2, <1>3, TermsDoNotMatter
<1>5. si' \in ShardingInfo /\ si' # NONE /\ log' = log
  BY <1>4, dbidAssumption DEF Consistent, ImportKeys
<1> QED
  BY <1>4, <1>5 DEF IInv, TypeOK, PanicsOnlyForTwins

LEMMA ApplyPreserves ==
    ASSUME IInv, Apply
    PROVE  IInv'
<1> DEFINE e == Head(log)
<1>1. /\ si \in ShardingInfo /\ si # NONE /\ Consistent(si)
      /\ log \in Seq(Entry) /\ e \in Entry /\ Tail(log) \in Seq(Entry)
  BY DEF Apply, IInv, TypeOK
<1>2. si' = Applied(e) /\ log' = (IF si' = NONE THEN log ELSE Tail(log))
  BY DEF Apply
<1> HIDE DEF e
<1>3. ASSUME Consistent(si') PROVE IInv'
  <2>1. si' \in ShardingInfo /\ si' # NONE
    BY <1>3, dbidAssumption DEF Consistent
  <2> QED
    BY <1>1, <1>2, <1>3, <2>1 DEF IInv, TypeOK, PanicsOnlyForTwins
<1>4. CASE e.type = "add"
  <2> DEFINE g == ShardGroupDeserialize(e.group)
  <2>1. e.group \in Payload
    BY <1>1, <1>4 DEF Entry
  <2>2. g \in ShardGroup /\ ~ g.local
    BY <2>1 DEF ShardGroupDeserialize, Payload, ShardGroup
  <2> HIDE DEF g
  <2>3. CASE CanAdd(si, g)
    <3>1. si' = AddShardGroup(si, g)
      BY <1>2, <1>4, <2>3 DEF Applied, g
    <3>2. Consistent(AddShardGroup(si, g))
      BY <1>1, <2>2, <2>3, AddIsConsistent DEF Consistent
    <3> QED
      BY <3>1, <3>2, <1>3
  <2>4. CASE ~ CanAdd(si, g)
    BY <1>1, <1>2, <1>3, <1>4, <2>4 DEF Applied, g
  <2> QED
    BY <2>3, <2>4
<1>5. CASE e.type = "update"
  <2>1. e.group \in Payload
    BY <1>1, <1>5 DEF Entry
  <2>2. ShardGroupDeserialize(e.group).nodes \in Node \cup {NONE}
    BY <2>1 DEF ShardGroupDeserialize, Payload
  <2>3. si' = UpdateShardGroup(si, ShardGroupDeserialize(e.group), dbid)
    BY <1>2, <1>5 DEF Applied
  <2> QED
    BY <1>1, <1>3, <2>2, <2>3, UpdateIsConsistent
<1>6. CASE e.type = "replace"
  <2> DEFINE ps == e.groups
             gs == [j \in DOMAIN ps |-> WithLocal(ps[j], dbid)]
             i == [ShardingInfoReset(si) EXCEPT !.is_sharding = si.is_sharding]
  <2>1. ps \in Seq(Payload) /\ ps # << >> /\ ShardGroupsParse(ps)
    BY <1>1, <1>6 DEF Entry
  <2>2. si' = AddAll(i, gs)
    BY <1>2, <1>6 DEF Applied, ReplaceShardGroups
  <2>3. i.is_sharding \in BOOLEAN /\ i.max_importing_term \in [Slot -> Nat]
    BY <1>1 DEF ShardingInfo, ShardingInfoReset
  <2>4. DOMAIN gs \subseteq Nat /\ DOMAIN gs # {}
    BY <2>1
  <2>5. \A j \in DOMAIN gs : gs[j] \in ShardGroup /\ (gs[j].local => gs[j].id = dbid)
    <3> SUFFICES ASSUME NEW j \in DOMAIN ps
                 PROVE  gs[j] \in ShardGroup /\ (gs[j].local => gs[j].id = dbid)
      OBVIOUS
    <3>1. ps[j] \in Payload /\ gs[j] = WithLocal(ps[j], dbid)
      BY <2>1, SeqElement, Zenon
    <3> QED
      BY <3>1, LocalIsOwn, Zenon
  <2> HIDE DEF ps, gs, i
  <2>6. CASE CanAddAll(gs)
    BY <1>3, <2>2, <2>3, <2>4, <2>5, <2>6, AddAllIsConsistent
  <2>7. CASE ~ CanAddAll(gs)
    <3>1. si' = NONE /\ log' = log
      BY <1>2, <2>2, <2>7 DEF AddAll
    <3>2. \E j, k \in DOMAIN ps : j # k /\ ps[j].id = ps[k].id
      BY <2>1, <2>7, ParsedCanBeAdded DEF gs
    <3>3. PanicsOnlyForTwins'
      BY <1>6, <3>1, <3>2 DEF PanicsOnlyForTwins, e, ps
    <3> QED
      BY <1>1, <3>1, <3>3 DEF IInv, TypeOK
  <2> QED
    BY <2>6, <2>7
<1> QED
  BY <1>1, <1>4, <1>5, <1>6 DEF Entry

(* The groups of the snapshot that the node has taken *)
Saved(i) == [id \in DOMAIN i.groups |-> WithLocal(ShardGroupSerialize(i.groups[id]), dbid)]

LEMMA SavedDomain ==
    ASSUME NEW i, Consistent(i)
    PROVE  DOMAIN Saved(i) = DOMAIN i.groups /\ DOMAIN i.groups \subseteq Nat
<1>1. DOMAIN i.groups \subseteq Nat
  BY InfoFields, IdAssumption DEF Consistent
<1> QED
  BY <1>1 DEF Saved

LEMMA SavedGroup ==
    ASSUME NEW i, Consistent(i), NEW id \in DOMAIN i.groups
    PROVE  /\ Saved(i)[id] \in ShardGroup /\ i.groups[id] \in ShardGroup
           /\ Saved(i)[id].id = id /\ i.groups[id].id = id
           /\ Saved(i)[id].ranges = i.groups[id].ranges
           /\ Saved(i)[id].nodes = i.groups[id].nodes
           /\ Saved(i)[id].local <=> id = dbid
<1> DEFINE g == i.groups[id]
           own == (id = dbid)
           saved == Saved(i)[id]
<1>1. g \in ShardGroup /\ g.id = id
  BY InfoFields, Zenon DEF Consistent, Marked
<1>2. saved = [g EXCEPT !.local = own]
  BY <1>1, SerializedIsPayload DEF Saved
<1>3. own \in BOOLEAN /\ (own <=> id = dbid)
  BY Zenon
<1> HIDE DEF g, own, saved
<1>4. /\ saved \in ShardGroup /\ saved.id = id /\ saved.local = own
      /\ saved.ranges = g.ranges /\ saved.nodes = g.nodes
  BY <1>1, <1>2, <1>3 DEF ShardGroup
<1> QED
  BY <1>1, <1>2, <1>3, <1>4, Zenon DEF g, own, saved

Blank == ShardingInfoReset(ShardingInfoInit)
Loaded(i) == ShardingInfoRDBLoad(ShardingInfoInit, ShardingInfoRDBSave(i), dbid)

LEMMA LoadedIs ==
    ASSUME NEW i
    PROVE  Loaded(i) = IF AddAll(Blank, Saved(i)) = NONE THEN NONE
                       ELSE [AddAll(Blank, Saved(i)) EXCEPT
                                 !.max_importing_term = i.max_importing_term]
<1>1. /\ ShardingInfoRDBSave(i).groups =
            [id \in DOMAIN i.groups |-> ShardGroupSerialize(i.groups[id])]
      /\ ShardingInfoRDBSave(i).max_importing_term = i.max_importing_term
  BY DEF ShardingInfoRDBSave
<1>2. [id \in DOMAIN ShardingInfoRDBSave(i).groups |->
          WithLocal(ShardingInfoRDBSave(i).groups[id], dbid)] = Saved(i)
  BY <1>1 DEF Saved
<1> QED
  BY <1>1, <1>2, Zenon DEF Loaded, Blank, ShardingInfoRDBLoad

LEMMA BlankTypes == Blank.is_sharding = FALSE /\ Blank.max_importing_term \in [Slot -> Nat]
  BY DEF Blank, ShardingInfoReset, ShardingInfoInit

(* What ShardingInfoRDBLoad builds, if it does not fail, is consistent. *)
LEMMA SavedIsConsistent ==
    ASSUME NEW i, Consistent(i), CanAddAll(Saved(i))
    PROVE  Consistent(AddAll(Blank, Saved(i)))
<1>1. DOMAIN Saved(i) # {}
  BY SavedDomain DEF Consistent, ShardedOrWhole
<1>2. \A id \in DOMAIN Saved(i) :
         Saved(i)[id] \in ShardGroup /\ (Saved(i)[id].local => Saved(i)[id].id = dbid)
  BY SavedDomain, SavedGroup
<1>3. DOMAIN Saved(i) \subseteq Nat
  BY SavedDomain
<1>4. Blank.is_sharding \in BOOLEAN /\ Blank.max_importing_term \in [Slot -> Nat]
  BY BlankTypes, Zenon
<1> QED
  BY <1>1, <1>2, <1>3, <1>4, AddAllIsConsistent

LEMMA RestartPreserves ==
    ASSUME IInv, Restart
    PROVE  IInv'
<1>1. /\ Consistent(si) /\ si' = Loaded(si) /\ Loaded(si) # NONE /\ log' = log
      /\ si.max_importing_term \in [Slot -> Nat]
  <2>1. Consistent(si) /\ si' = Loaded(si) /\ Loaded(si) # NONE /\ log' = log
    BY DEF Restart, Loaded, IInv
  <2> QED
    BY <2>1, InfoFields DEF Consistent
<1>2. /\ AddAll(Blank, Saved(si)) # NONE
      /\ si' = [AddAll(Blank, Saved(si)) EXCEPT !.max_importing_term = si.max_importing_term]
  BY <1>1, LoadedIs
<1>3. Consistent(AddAll(Blank, Saved(si)))
  BY <1>1, <1>2, SavedIsConsistent DEF AddAll
<1>4. Consistent(si')
  BY <1>1, <1>2, <1>3, TermsDoNotMatter
<1>5. si' \in ShardingInfo /\ si' # NONE
  BY <1>4, dbidAssumption DEF Consistent
<1> QED
  BY <1>1, <1>4, <1>5 DEF IInv, TypeOK, PanicsOnlyForTwins

LEMMA NextPreserves == IInv /\ [Next]_vars => IInv'
<1> SUFFICES ASSUME IInv, [Next]_vars PROVE IInv'
  OBVIOUS
<1>1. ASSUME NEW g \in Added, ShardGroupAdd(g) \/ LinkHandleResponse(g) PROVE IInv'
  BY <1>1, GivenAssumption, AddPreserves
<1>2. ASSUME NEW i \in Id, NEW nodes \in Node, HandleShardGroupResponse(i, nodes) PROVE IInv'
  BY <1>2, UpdatePreserves
<1>3. ASSUME NEW gs \in Replacements, ShardGroupReplace(gs) PROVE IInv'
  BY <1>3, GivenAssumption, ReplacePreserves
<1>4. ASSUME NEW s \in Slot, NEW key \in Session, NEW term \in 1 .. MaxTerm,
             ImportKeys(s, key, term)
      PROVE  IInv'
  <2>1. term \in Nat
    OBVIOUS
  <2> QED
    BY <1>4, <2>1, ImportPreserves
<1>5. CASE Apply
  BY <1>5, ApplyPreserves
<1>6. CASE Truncate
  <2>1. log' \in Seq(Entry) /\ si' = si /\ si # NONE
    BY <1>6 DEF IInv, TypeOK, Truncate
  <2> QED
    BY <2>1 DEF IInv, TypeOK, PanicsOnlyForTwins
<1>7. CASE Restart
  BY <1>7, RestartPreserves
<1>8. CASE UNCHANGED vars
  BY <1>8 DEF vars, IInv, TypeOK, PanicsOnlyForTwins
<1> QED
  BY <1>1, <1>2, <1>3, <1>4, <1>5, <1>6, <1>7, <1>8, Zenon DEF Next

LEMMA Invariance == Spec => []IInv
  BY InitEstablishes, NextPreserves, PTL DEF Spec

-----------------------------------------------------------------------------
(* REPLACE makes a node fail only if two of its groups have the same id, whatever else the
   operators of the clusters give it. *)
THEOREM ReplaceIsSafe == Spec => []PanicsOnlyForTwins
<1>1. IInv => PanicsOnlyForTwins
  BY DEF IInv
<1> QED
  BY <1>1, Invariance, PTL

(* The maps of the slots agree with the groups, and no command meets an internal error,
   whatever entries are applied between the check of an entry and its application. *)
THEOREM MapsAlwaysAgree == Spec => []SlotMapsAgree
<1>1. IInv => SlotMapsAgree
  <2> SUFFICES ASSUME Consistent(si), NEW s \in Slot, NEW asking \in BOOLEAN,
                      NEW status \in {"all", "some", "none", "locked"}
               PROVE  Answer(si, s, asking, status) # "internal"
    BY Zenon DEF IInv, SlotMapsAgree, Consistent
  <2> DEFINE id == getSlotShardGroup(si, s, asking)
  <2>1. \E type \in Types : id = MapOf(si, type)[s]
    BY DEF getSlotShardGroup, MapOf, Types
  <2> HIDE DEF id
  <2>2. CASE id = NONE
    BY <2>2, Zenon DEF Answer, id
  <2>3. CASE id # NONE
    <3>1. PICK type \in Types : id = MapOf(si, type)[s]
      BY <2>1
    <3>2. id \in DOMAIN si.groups /\ Covers(si.groups[id], s, type)
      BY <2>3, <3>1, Zenon DEF Consistent, MapsAgree
    <3>3. si.groups[id] \in ShardGroup
      BY <3>2, InfoFields, Zenon DEF Consistent
    <3>4. SlotType(si.groups[id], s) \in Types
      BY <3>2, <3>3, CoveredHasType, Zenon
    <3>5. SlotType(si.groups[id], s) # "undef"
      BY <3>4 DEF Types
    <3> QED
      BY <2>3, <3>5 DEF Answer, id
  <2> QED
    BY <2>2, <2>3
<1> QED
  BY <1>1, Invariance, PTL

-----------------------------------------------------------------------------
(* Snapshots *)

(* The groups of a snapshot can be added again in the order of their ids, unless a stable
   range comes before one that it was added over. *)
LEMMA CanAddSaved ==
    ASSUME NEW i, Consistent(i)
    PROVE  CanAddAll(Saved(i)) <=> ~ AddsStableFirst(i)
<1>1. \A id \in DOMAIN i.groups, s \in Slot, type \in Types :
         Covers(Saved(i)[id], s, type) <=> Covers(i.groups[id], s, type)
  BY SavedGroup DEF Covers
<1>2. DOMAIN Saved(i) = DOMAIN i.groups /\ DOMAIN i.groups \subseteq Nat
  BY SavedDomain
<1>3. \A id \in DOMAIN i.groups : Saved(i)[id].id = id
  BY SavedGroup
<1>4. ASSUME NEW j \in DOMAIN i.groups, NEW k \in DOMAIN i.groups, j < k
      PROVE  Rejects(Saved(i)[j], Saved(i)[k]) <=>
                \E s \in Slot : /\ Covers(i.groups[j], s, "stable")
                               /\ \/ Covers(i.groups[k], s, "importing")
                                  \/ Covers(i.groups[k], s, "migrating")
  <2>1. j # k
    BY <1>2, <1>4
  <2>2. \A s \in Slot, type \in Types :
           ~ (Covers(i.groups[j], s, type) /\ Covers(i.groups[k], s, type))
    BY <2>1 DEF Consistent, MapsAgree
  <2>3. Saved(i)[j].id # Saved(i)[k].id
    BY <1>3, <2>1, Zenon
  <2> QED
    BY <1>1, <2>2, <2>3, Zenon DEF Rejects, Types
<1> QED
  BY <1>2, <1>4, Zenon DEF CanAddAll, AddsStableFirst

(* ... and then the maps are the same, and the groups but for the local flag. *)
LEMMA AddedSaved ==
    ASSUME NEW i, Consistent(i), CanAddAll(Saved(i)), NEW a, a = AddAll(Blank, Saved(i))
    PROVE  /\ a.groups = Saved(i)
           /\ a.stable = i.stable /\ a.importing = i.importing /\ a.migrating = i.migrating
           /\ a.is_sharding = \E id \in DOMAIN i.groups :
                                 DOMAIN i.groups # {id} \/ ~ IsWhole(Saved(i)[id])
<1> DEFINE gs == Saved(i)
<1>1. DOMAIN gs = DOMAIN i.groups /\ DOMAIN gs \subseteq Nat
  BY SavedDomain
<1>2. \A id \in DOMAIN gs : gs[id].id = id
  BY <1>1, SavedGroup
<1>3. a.groups = gs
  <2>1. {gs[id].id : id \in DOMAIN gs} = DOMAIN gs
    BY <1>2
  <2>2. \A id \in DOMAIN gs : (CHOOSE k \in DOMAIN gs : gs[k].id = id) = id
    BY <1>2, Zenon
  <2>3. a.groups = [id \in {gs[j].id : j \in DOMAIN gs} |->
                        gs[CHOOSE j \in DOMAIN gs : gs[j].id = id]]
    BY DEF AddAll
  <2>4. gs = [id \in DOMAIN gs |-> gs[id]]
    BY DEF Saved
  <2> HIDE DEF gs
  <2>5. a.groups = [id \in DOMAIN gs |-> gs[id]]
    BY <2>1, <2>2, <2>3
  <2> QED
    BY <2>4, <2>5, Zenon
<1>4. ASSUME NEW type \in Types PROVE Claimed(gs, type) = MapOf(i, type)
  <2>1. MapOf(i, type) \in [Slot -> Id \cup {NONE}]
    BY InfoFields, Zenon DEF Consistent
  <2>2. ASSUME NEW s \in Slot PROVE Claimed(gs, type)[s] = MapOf(i, type)[s]
    <3>1. \A id \in DOMAIN gs : Covers(gs[id], s, type) <=> MapOf(i, type)[s] = id
      <4>1. \A id \in DOMAIN gs : Covers(gs[id], s, type) <=> Covers(i.groups[id], s, type)
        BY <1>1, SavedGroup DEF Covers
      <4> QED
        BY <1>1, <4>1, Zenon DEF Consistent, MapsAgree
    <3>2. MapOf(i, type)[s] # NONE => MapOf(i, type)[s] \in DOMAIN gs
      BY <1>1, Zenon DEF Consistent, MapsAgree
    <3>3. CASE MapOf(i, type)[s] = NONE
      <4>1. \A id \in DOMAIN gs : id # NONE
        BY <1>1, IdAssumption, InfoFields, Zenon DEF Consistent
      <4> HIDE DEF gs
      <4> QED
        BY <3>1, <3>3, <4>1, Zenon DEF Claimed
    <3>4. CASE MapOf(i, type)[s] # NONE
      <4> DEFINE id == MapOf(i, type)[s]
      <4>1. id \in DOMAIN gs /\ Covers(gs[id], s, type)
        BY <3>1, <3>2, <3>4, Zenon
      <4>2. Claimed(gs, type)[s] = gs[id].id
        <5> HIDE DEF id
        <5> QED
          BY <1>1, <4>1, ClaimedBy, SMTT(30)
      <4> QED
        BY <1>2, <4>1, <4>2, Zenon
    <3> QED
      BY <3>3, <3>4
  <2>3. Claimed(gs, type) = [s \in Slot |-> Claimed(gs, type)[s]]
    BY DEF Claimed
  <2> HIDE DEF gs
  <2> QED
    BY <2>1, <2>2, <2>3
<1>5. a.stable = i.stable /\ a.importing = i.importing /\ a.migrating = i.migrating
  <2>1. /\ a.stable = Claimed(gs, "stable") /\ a.importing = Claimed(gs, "importing")
        /\ a.migrating = Claimed(gs, "migrating")
    BY DEF AddAll
  <2> QED
    BY <1>4, <2>1 DEF MapOf, Types
<1>6. a.is_sharding = \E id \in DOMAIN gs : DOMAIN gs # {id} \/ ~ IsWhole(gs[id])
  <2>1. a.is_sharding = (Blank.is_sharding
                            \/ \E id \in DOMAIN gs : DOMAIN gs # {id} \/ ~ IsWhole(gs[id]))
    BY DEF AddAll
  <2> QED
    BY <2>1, BlankTypes, Zenon
<1> QED
  BY <1>1, <1>3, <1>5, <1>6, Zenon

LEMMA SavedIsSame ==
    ASSUME NEW i, Consistent(i)
    PROVE  Saved(i) = i.groups <=> ~ AddedItself(i)
<1>1. ASSUME Saved(i) = i.groups, AddedItself(i) PROVE FALSE
  BY <1>1, SavedGroup DEF AddedItself
<1>2. ASSUME ~ AddedItself(i) PROVE Saved(i) = i.groups
  <2>1. ASSUME NEW id \in DOMAIN i.groups PROVE Saved(i)[id] = i.groups[id]
    <3>1. i.groups[id].local <=> id = dbid
      BY <1>2 DEF AddedItself, Consistent, Marked
    <3> QED
      BY <3>1, SavedGroup DEF ShardGroup
  <2>2. i.groups = [id \in DOMAIN i.groups |-> i.groups[id]]
    BY InfoFields, Zenon DEF Consistent
  <2>3. Saved(i) = [id \in DOMAIN i.groups |-> Saved(i)[id]]
    BY DEF Saved
  <2> QED
    BY <2>1, <2>2, <2>3
<1> QED
  BY <1>1, <1>2

LEMMA SavedIsSharded ==
    ASSUME NEW i, Consistent(i)
    PROVE  (\E id \in DOMAIN i.groups : DOMAIN i.groups # {id} \/ ~ IsWhole(Saved(i)[id]))
              <=> (i.is_sharding /\ ~ NoLongerSharded(i))
<1>1. ASSUME dbid \in DOMAIN i.groups
      PROVE  IsWhole([i.groups[dbid] EXCEPT !.local = TRUE]) <=> IsWhole(Saved(i)[dbid])
  <2> DEFINE g == i.groups[dbid]
             own == [g EXCEPT !.local = TRUE]
  <2>1. g \in ShardGroup /\ Saved(i)[dbid].local /\ Saved(i)[dbid].ranges = g.ranges
    BY <1>1, SavedGroup
  <2>2. own.local /\ own.ranges = g.ranges
    <3> HIDE DEF g
    <3> QED
      BY <2>1 DEF ShardGroup
  <2> QED
    BY <2>1, <2>2, Zenon DEF IsWhole
<1>2. ASSUME NEW id \in DOMAIN i.groups, IsWhole(Saved(i)[id]) PROVE id = dbid
  BY <1>2, SavedGroup DEF IsWhole
<1>3. DOMAIN i.groups # {}
  BY SMTT(30) DEF Consistent, ShardedOrWhole
<1>4. i.is_sharding \/ (DOMAIN i.groups = {dbid} /\ IsWhole(Saved(i)[dbid]))
  BY SavedGroup, SMTT(30) DEF Consistent, ShardedOrWhole, IsWhole
<1>5. NoLongerSharded(i) <=> (i.is_sharding /\ DOMAIN i.groups = {dbid} /\ IsWhole(Saved(i)[dbid]))
  BY <1>1 DEF NoLongerSharded
<1> QED
  BY <1>2, <1>3, <1>4, <1>5

(* ShardingInfoRDBLoad gives a node what ShardingInfoRDBSave has saved, in every
   configuration that the cluster can reach but the three that LoadRestores names, and in
   none of those. *)
THEOREM SnapshotRestores == Spec => []LoadRestores
<1>1. IInv => LoadRestores
  <2> SUFFICES ASSUME Consistent(si)
               PROVE  Loaded(si) = si
                        <=> ~ (AddsStableFirst(si) \/ AddedItself(si) \/ NoLongerSharded(si))
    BY Zenon DEF IInv, LoadRestores, Loaded
  <2> DEFINE a == AddAll(Blank, Saved(si))
  <2>1. si \in ShardingInfo /\ si # NONE
    BY dbidAssumption DEF Consistent
  <2>2. CASE ~ CanAddAll(Saved(si))
    <3>1. Loaded(si) = NONE
      BY <2>2, LoadedIs DEF AddAll
    <3> QED
      BY <2>1, <2>2, <3>1, CanAddSaved
  <2>3. CASE CanAddAll(Saved(si))
    <3>1. a \in ShardingInfo /\ a # NONE
      BY <2>3, SavedIsConsistent, dbidAssumption DEF Consistent
    <3>2. Loaded(si) = [a EXCEPT !.max_importing_term = si.max_importing_term]
      BY <3>1, LoadedIs, Zenon
    <3>3. /\ a.groups = Saved(si)
          /\ a.stable = si.stable /\ a.importing = si.importing /\ a.migrating = si.migrating
          /\ a.is_sharding = \E id \in DOMAIN si.groups :
                                DOMAIN si.groups # {id} \/ ~ IsWhole(Saved(si)[id])
      BY <2>3, AddedSaved, Zenon
    <3> HIDE DEF a
    <3>4. a.is_sharding <=> (si.is_sharding /\ ~ NoLongerSharded(si))
      BY <3>3, SavedIsSharded, Zenon
    <3>5. NoLongerSharded(si) => si.is_sharding
      BY DEF NoLongerSharded
    <3>6. a.is_sharding \in BOOLEAN /\ si.is_sharding \in BOOLEAN
      BY <2>1, <3>1, InfoFields
    <3>7. a.is_sharding = si.is_sharding <=> ~ NoLongerSharded(si)
      BY <3>4, <3>5, <3>6
    <3>8. Loaded(si) = si <=> a.groups = si.groups /\ a.is_sharding = si.is_sharding
      <4> DEFINE same == a.groups = si.groups /\ a.is_sharding = si.is_sharding
      <4>0. /\ a.stable = si.stable /\ a.importing = si.importing /\ a.migrating = si.migrating
        BY <3>3
      <4>1. Loaded(si) = si => same
        BY <3>2, <3>1 DEF ShardingInfo
      <4>2. same => Loaded(si) = si
        BY <3>2, <4>0, <3>1, <2>1 DEF ShardingInfo
      <4> QED
        BY <4>1, <4>2
    <3> QED
      BY <2>3, <3>3, <3>7, <3>8, CanAddSaved, SavedIsSame, Zenon
  <2> QED
    BY <2>2, <2>3
<1> QED
  BY <1>1, Invariance, PTL
=============================================================================
