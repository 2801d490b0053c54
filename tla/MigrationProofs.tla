-------------------------- MODULE MigrationProofs ---------------------------
(***************************************************************************)
(* The migration of a slot implements the key store, and whoever serves a  *)
(* key has its value, for any clusters, nodes, keys, values and bounds.    *)
(*                                                                         *)
(* The inductive invariant: every cluster has the configuration that the   *)
(* operator wants or the one before, and answers accordingly; as long as   *)
(* there is a request or a late import of the current session, its key is  *)
(* locked and keeps the value that is sent; and a key exists at one        *)
(* cluster only, or at two with the same value while it is locked.         *)
(***************************************************************************)
EXTENDS Migration, TLAPS

-----------------------------------------------------------------------------
(* Types *)

Config == [from : Id, to : Id, key : Nat]
Request ==
    [state : {"locked", "sent", "imported"}, k : Key, val : Value \cup {NONE}, term : Nat,
     key : Nat, from : Id, to : Id, dest : Node \cup {NONE}]

IsInfo(i) ==
    i = [groups |-> i.groups, stable |-> i.stable, importing |-> i.importing,
         migrating |-> i.migrating, max_importing_term |-> i.max_importing_term,
         is_sharding |-> i.is_sharding]

TypeOK ==
    /\ want \in Config /\ view \in [Id -> Config]
    /\ si = [c \in Id |-> si[c]] /\ \A c \in Id : IsInfo(si[c])
    /\ data \in [Id -> [Key -> Value \cup {NONE}]] /\ locked \in [Id -> SUBSET Key]
    /\ term \in [Id -> Nat]
    /\ req \in [Node -> Request \cup {NoRequest}] /\ late \in SUBSET Request

-----------------------------------------------------------------------------
(* The inductive invariant *)

IsStable(w) == w.from = w.to

(* The info i is what ReplaceShardGroups makes of the configuration w at the cluster c,
   as far as the slot goes. *)
Configured(i, w, c) ==
    /\ \A id \in {w.from, w.to} : i.groups[id].local <=> id = c
    /\ IF IsStable(w)
       THEN /\ i.stable[slot] = w.to /\ i.importing[slot] = NONE /\ i.migrating[slot] = NONE
            /\ SlotType(i.groups[w.to], slot) = "stable"
       ELSE /\ i.stable[slot] = NONE /\ i.importing[slot] = w.to /\ i.migrating[slot] = w.from
            /\ SlotType(i.groups[w.from], slot) = "migrating"
            /\ SlotType(i.groups[w.to], slot) = "importing"
            /\ SessionKey(i.groups[w.from], slot) = w.key
            /\ SessionKey(i.groups[w.to], slot) = w.key
    /\ i.is_sharding \/ (w.from = c /\ w.to = c)

(* The configuration that came before the one that the operator wants *)
CameBefore(w) ==
    IF IsStable(want)
    THEN ~ IsStable(w) /\ want.to \in {w.from, w.to} /\ w.key = want.key
    ELSE w = [from |-> want.from, to |-> want.from, key |-> want.key - 1]

ViewInv == \A c \in Id : Configured(si[c], view[c], c) /\ (view[c] = want \/ CameBefore(view[c]))

(* A request of the current session: its key is locked as long as it is there, and has
   the value that is sent. *)
Sound(m) ==
    /\ m.from # m.to /\ m.key <= want.key
    /\ IsOn(m) => /\ view[m.from] = want
                  /\ m.k \in locked[m.from] <=> Exists(m.from, m.k)
                  /\ Exists(m.from, m.k) => m.val = data[m.from][m.k]

RequestInv ==
    /\ \A m \in late : Sound(m)
    /\ \A n \in Node : req[n] # NoRequest => Sound(req[n]) /\ req[n].from = ClusterOf(n)

(* Where the key k is: at one cluster, or at both with the same value while it is locked. *)
Placed(k) ==
    IF IsStable(want) THEN \A c \in Id \ {want.to} : ~ Exists(c, k)
    ELSE /\ \A c \in Id \ {want.from, want.to} : ~ Exists(c, k)
         /\ view[want.from] # want => ~ Exists(want.to, k)
         /\ Exists(want.from, k) /\ Exists(want.to, k) =>
               k \in locked[want.from] /\ data[want.from][k] = data[want.to][k]

(* A key whose import was answered has arrived. *)
Arrived(m) ==
    m.state = "imported" /\ IsOn(m) /\ m.k \notin overtaken /\ Exists(m.from, m.k)
        => Exists(m.to, m.k)

DataInv ==
    /\ \A k \in Key \ overtaken : Placed(k)
    /\ \A n \in Node : req[n] # NoRequest => Arrived(req[n])

IInv == TypeOK /\ ViewInv /\ RequestInv /\ DataInv

-----------------------------------------------------------------------------
(* Configurations *)

(* A group with one range, of all slots *)
Single(id, local, type, key) ==
    [id |-> id, local |-> local, ranges |-> <<[slots |-> Slot, type |-> type, key |-> key]>>,
     nodes |-> 1]

(* The group of the cluster id as the cluster c has it *)
IsSingle(g, id, type, key, c) ==
    /\ g.id = id /\ (g.local <=> id = c)
    /\ \A s \in Slot : \A t : Covers(g, s, t) <=> t = type
    /\ SlotType(g, slot) = type /\ SessionKey(g, slot) = key

LEMMA SingleRange ==
    ASSUME NEW id, NEW local, NEW type, NEW key, NEW c, local <=> id = c
    PROVE  IsSingle(Single(id, local, type, key), id, type, key, c)
<1> DEFINE g == Single(id, local, type, key)
<1>1. /\ DOMAIN g.ranges = {1} /\ g.ranges[1].slots = Slot /\ g.ranges[1].type = type
      /\ g.ranges[1].key = key /\ g.id = id /\ g.local = local
  BY DEF Single
<1> HIDE DEF g
<1>2. FirstRange(g, slot) = 1
  BY <1>1, SlotAssumption DEF FirstRange
<1>3. \A s \in Slot : \A t : Covers(g, s, t) <=> t = type
  BY <1>1, Zenon DEF Covers
<1>4. SlotType(g, slot) = type /\ SessionKey(g, slot) = key
  BY <1>1, <1>2, SlotAssumption, Zenon DEF SlotType, SessionKey
<1>5. g.local <=> id = c
  BY <1>1, Zenon
<1>6. IsSingle(g, id, type, key, c)
  BY <1>1, <1>3, <1>4, <1>5, Zenon DEF IsSingle
<1> QED
  BY <1>6, Zenon DEF g

LEMMA AddedIsSingle ==
    ASSUME NEW id, NEW type, NEW key, NEW c
    PROVE  IsSingle(WithLocal(Group(id, type, key), c), id, type, key, c)
<1>1. WithLocal(Group(id, type, key), c) = Single(id, (id = c), type, key)
  BY DEF WithLocal, ShardGroupDeserialize, Group, Single
<1>2. IsSingle(Single(id, (id = c), type, key), id, type, key, c)
  BY SingleRange, Zenon
<1> QED
  BY <1>1, <1>2, Zenon

(* REPLACE adds the groups of a configuration, the cluster's own one as local. *)
LEMMA StableReplaced ==
    ASSUME NEW i, NEW w \in Config, NEW c \in Id, IsStable(w)
    PROVE  \E b, gs : /\ ReplaceShardGroups(i, Groups(w), c) = AddAll(b, gs)
                      /\ DOMAIN gs = {1} /\ IsSingle(gs[1], w.to, "stable", 0, c)
<1> DEFINE b == [ShardingInfoReset(i) EXCEPT !.is_sharding = i.is_sharding]
           gs == [j \in DOMAIN Groups(w) |-> WithLocal(Groups(w)[j], c)]
<1>1. ReplaceShardGroups(i, Groups(w), c) = AddAll(b, gs)
  BY DEF ReplaceShardGroups
<1>2. Groups(w) = <<Group(w.to, "stable", 0)>>
  BY DEF Groups, IsStable
<1>3. DOMAIN gs = {1} /\ gs[1] = WithLocal(Group(w.to, "stable", 0), c)
  BY <1>2
<1> HIDE DEF b, gs
<1> QED
  BY <1>1, <1>3, AddedIsSingle, Zenon

LEMMA MovingReplaced ==
    ASSUME NEW i, NEW w \in Config, NEW c \in Id, ~ IsStable(w)
    PROVE  \E b, gs : /\ ReplaceShardGroups(i, Groups(w), c) = AddAll(b, gs)
                      /\ DOMAIN gs = {1, 2}
                      /\ IsSingle(gs[1], w.from, "migrating", w.key, c)
                      /\ IsSingle(gs[2], w.to, "importing", w.key, c)
<1> DEFINE b == [ShardingInfoReset(i) EXCEPT !.is_sharding = i.is_sharding]
           gs == [j \in DOMAIN Groups(w) |-> WithLocal(Groups(w)[j], c)]
<1>1. ReplaceShardGroups(i, Groups(w), c) = AddAll(b, gs)
  BY DEF ReplaceShardGroups
<1>2. Groups(w) = <<Group(w.from, "migrating", w.key), Group(w.to, "importing", w.key)>>
  BY DEF Groups, IsStable
<1>3. /\ DOMAIN gs = {1, 2} /\ gs[1] = WithLocal(Group(w.from, "migrating", w.key), c)
      /\ gs[2] = WithLocal(Group(w.to, "importing", w.key), c)
  BY <1>2
<1> HIDE DEF b, gs
<1>4. IsSingle(gs[1], w.from, "migrating", w.key, c)
  BY <1>3, AddedIsSingle, Zenon
<1>5. IsSingle(gs[2], w.to, "importing", w.key, c)
  BY <1>3, AddedIsSingle, Zenon
<1> QED
  BY <1>1, <1>3, <1>4, <1>5, Zenon

LEMMA StableIsConfigured ==
    ASSUME NEW i, NEW w \in Config, NEW c \in Id, IsStable(w)
    PROVE  LET a == ReplaceShardGroups(i, Groups(w), c) IN IsInfo(a) /\ Configured(a, w, c)
<1> DEFINE a == ReplaceShardGroups(i, Groups(w), c)
<1>1. PICK b, gs : a = AddAll(b, gs) /\ DOMAIN gs = {1} /\ IsSingle(gs[1], w.to, "stable", 0, c)
  BY StableReplaced, Zenon
<1> HIDE DEF a
<1>2. /\ \A t : Covers(gs[1], slot, t) <=> t = "stable"
      /\ SlotType(gs[1], slot) = "stable" /\ gs[1].id = w.to
  BY <1>1, SlotAssumption, Zenon DEF IsSingle
<1>3. gs[1].local <=> w.to = c
  BY <1>1, Zenon DEF IsSingle
<1>4. CanAddAll(gs)
  BY <1>1 DEF CanAddAll
<1>5. IsInfo(a)
  BY <1>1, <1>4 DEF AddAll, IsInfo
<1>6. a.groups[w.to] = gs[1]
  BY <1>1, <1>2, <1>4 DEF AddAll
<1>7. \A t : Claimed(gs, t)[slot] = IF t = "stable" THEN w.to ELSE NONE
  BY <1>1, <1>2, SlotAssumption DEF Claimed
<1>8. a.stable[slot] = w.to /\ a.importing[slot] = NONE /\ a.migrating[slot] = NONE
  BY <1>1, <1>4, <1>7 DEF AddAll
<1>9. a.is_sharding \/ w.to = c
  <2>1. a.is_sharding = (b.is_sharding \/ \E j \in DOMAIN gs : DOMAIN gs # {j} \/ ~ IsWhole(gs[j]))
    BY <1>1, <1>4 DEF AddAll
  <2>2. IsWhole(gs[1]) => w.to = c
    BY <1>3, Zenon DEF IsWhole
  <2>3. 1 \in DOMAIN gs
    BY <1>1
  <2> QED
    BY <2>1, <2>2, <2>3, Zenon
<1>10. a.groups[w.to].local <=> w.to = c
  BY <1>3, <1>6, Zenon
<1>11. SlotType(a.groups[w.to], slot) = "stable"
  BY <1>2, <1>6, Zenon
<1>12. w.from = w.to
  BY DEF IsStable
<1>13. Configured(a, w, c)
  BY <1>8, <1>9, <1>10, <1>11, <1>12, Zenon DEF Configured, IsStable
<1> QED
  BY <1>5, <1>13, Zenon DEF a

LEMMA MovingIsConfigured ==
    ASSUME NEW i, NEW w \in Config, NEW c \in Id, ~ IsStable(w)
    PROVE  LET a == ReplaceShardGroups(i, Groups(w), c) IN IsInfo(a) /\ Configured(a, w, c)
<1> DEFINE a == ReplaceShardGroups(i, Groups(w), c)
<1>1. PICK b, gs : /\ a = AddAll(b, gs) /\ DOMAIN gs = {1, 2}
                   /\ IsSingle(gs[1], w.from, "migrating", w.key, c)
                   /\ IsSingle(gs[2], w.to, "importing", w.key, c)
  BY MovingReplaced, Zenon
<1> HIDE DEF a
<1>2. /\ \A s \in Slot : \A t : Covers(gs[1], s, t) <=> t = "migrating"
      /\ SlotType(gs[1], slot) = "migrating" /\ SessionKey(gs[1], slot) = w.key
      /\ gs[1].id = w.from
  BY <1>1, Zenon DEF IsSingle
<1>3. /\ \A s \in Slot : \A t : Covers(gs[2], s, t) <=> t = "importing"
      /\ SlotType(gs[2], slot) = "importing" /\ SessionKey(gs[2], slot) = w.key
      /\ gs[2].id = w.to
  BY <1>1, Zenon DEF IsSingle
<1>4. w.from # w.to
  BY DEF IsStable
<1>5. CanAddAll(gs)
  <2>1. ~ Rejects(gs[1], gs[2])
    BY <1>2, <1>3, <1>4 DEF Rejects
  <2> QED
    BY <1>1, <2>1 DEF CanAddAll
<1>6. IsInfo(a)
  BY <1>1, <1>5 DEF AddAll, IsInfo
<1>7. a.groups[w.from] = gs[1] /\ a.groups[w.to] = gs[2]
  <2>1. a.groups = [id \in {gs[j].id : j \in DOMAIN gs} |->
                        gs[CHOOSE j \in DOMAIN gs : gs[j].id = id]]
    BY <1>1, <1>5 DEF AddAll
  <2>2. (CHOOSE j \in DOMAIN gs : gs[j].id = w.from) = 1
    BY <1>1, <1>2, <1>3, <1>4
  <2>3. (CHOOSE j \in DOMAIN gs : gs[j].id = w.to) = 2
    BY <1>1, <1>2, <1>3, <1>4
  <2>4. w.from \in {gs[j].id : j \in DOMAIN gs} /\ w.to \in {gs[j].id : j \in DOMAIN gs}
    BY <1>1, <1>2, <1>3
  <2>5. a.groups[w.from] = gs[CHOOSE j \in DOMAIN gs : gs[j].id = w.from]
    BY <2>1, <2>4
  <2>6. a.groups[w.to] = gs[CHOOSE j \in DOMAIN gs : gs[j].id = w.to]
    BY <2>1, <2>4
  <2> QED
    BY <2>2, <2>3, <2>5, <2>6, Zenon
<1>8. /\ Claimed(gs, "stable")[slot] = NONE /\ Claimed(gs, "importing")[slot] = w.to
      /\ Claimed(gs, "migrating")[slot] = w.from
  <2>1. \A t : (\E j \in DOMAIN gs : Covers(gs[j], slot, t)) <=> t \in {"migrating", "importing"}
    BY <1>1, <1>2, <1>3, SlotAssumption
  <2>2. (CHOOSE j \in DOMAIN gs : Covers(gs[j], slot, "migrating")) = 1
    BY <1>1, <1>2, <1>3, SlotAssumption
  <2>3. (CHOOSE j \in DOMAIN gs : Covers(gs[j], slot, "importing")) = 2
    BY <1>1, <1>2, <1>3, SlotAssumption
  <2> QED
    BY <1>1, <1>2, <1>3, <2>1, <2>2, <2>3, SlotAssumption DEF Claimed
<1>9. a.stable[slot] = NONE /\ a.importing[slot] = w.to /\ a.migrating[slot] = w.from
  BY <1>1, <1>5, <1>8 DEF AddAll
<1>10. a.is_sharding
  <2>1. a.is_sharding = (b.is_sharding \/ \E j \in DOMAIN gs : DOMAIN gs # {j} \/ ~ IsWhole(gs[j]))
    BY <1>1, <1>5 DEF AddAll
  <2>2. 1 \in DOMAIN gs /\ DOMAIN gs # {1}
    BY <1>1
  <2> QED
    BY <2>1, <2>2, Zenon
<1>11. (gs[1].local <=> w.from = c) /\ (gs[2].local <=> w.to = c)
  BY <1>1, Zenon DEF IsSingle
<1>12. \A id \in {w.from, w.to} : a.groups[id].local <=> id = c
  BY <1>7, <1>11, Zenon
<1>13. /\ SlotType(a.groups[w.from], slot) = "migrating"
       /\ SlotType(a.groups[w.to], slot) = "importing"
       /\ SessionKey(a.groups[w.from], slot) = w.key
       /\ SessionKey(a.groups[w.to], slot) = w.key
  BY <1>2, <1>3, <1>7, Zenon
<1>14. Configured(a, w, c)
  BY <1>9, <1>10, <1>12, <1>13, Zenon DEF Configured
<1> QED
  BY <1>6, <1>14, Zenon DEF a

LEMMA ReplacedIsConfigured ==
    ASSUME NEW i, NEW w \in Config, NEW c \in Id
    PROVE  /\ IsInfo(ReplaceShardGroups(i, Groups(w), c))
           /\ Configured(ReplaceShardGroups(i, Groups(w), c), w, c)
BY StableIsConfigured, MovingIsConfigured, Zenon

-----------------------------------------------------------------------------
(* Answers *)

(* A cluster executes commands if it has the slot, and with all keys there and unlocked
   if it gives the slot away or, after ASKING, if it gets it. *)
LEMMA Answers ==
    ASSUME NEW i, NEW w \in Config, NEW c \in Id, Configured(i, w, c), NEW status
    PROVE  /\ Answer(i, slot, FALSE, status) = "ok" =>
                  c = w.from /\ (IsStable(w) \/ status = "all")
           /\ Answer(i, slot, TRUE, status) = "ok" =>
                  c \in {w.from, w.to} /\ (IsStable(w) \/ status = "all")
           /\ Answer(i, slot, FALSE, status) = "ask" =>
                  c = w.from /\ ~ IsStable(w) /\ status = "none" /\ i.importing[slot] = w.to
<1>1. w.from # NONE /\ w.to # NONE
  BY IdAssumption DEF Config
<1>2. CASE IsStable(w)
  <2>1. \A asking \in BOOLEAN : getSlotShardGroup(i, slot, asking) = w.to
    BY <1>1, <1>2 DEF getSlotShardGroup, Configured
  <2>2. \A asking \in BOOLEAN :
            /\ Answer(i, slot, asking, status) = "ok" => c = w.to
            /\ Answer(i, slot, asking, status) # "ask"
    BY <1>1, <1>2, <2>1 DEF Answer, Configured
  <2> QED
    BY <1>2, <2>2 DEF IsStable
<1>3. CASE ~ IsStable(w)
  <2>1. getSlotShardGroup(i, slot, FALSE) = w.from
    BY <1>1, <1>3 DEF getSlotShardGroup, Configured
  <2>2. getSlotShardGroup(i, slot, TRUE) \in {w.from, w.to}
    BY <1>1, <1>3 DEF getSlotShardGroup, Configured
  <2>3. i.is_sharding
    BY <1>3 DEF Configured, IsStable
  <2> QED
    BY <1>1, <1>3, <2>1, <2>2, <2>3, Zenon DEF Answer, Configured
<1> QED
  BY <1>2, <1>3, Zenon

(* When a client is served: by the cluster that has the slot, by the one that gives it
   away, or by the one that gets it, if the other one has no such key. *)
LEMMA Served ==
    ASSUME TypeOK, ViewInv, NEW c \in Id, NEW k \in Key, Serves(c, k, FALSE) \/ ServesAsked(c, k)
    PROVE  \/ view[c].from = c /\ IsStable(view[c])
           \/ view[c].from = c /\ Exists(c, k) /\ k \notin locked[c]
           \/ /\ view[c].to = c /\ ~ IsStable(view[c]) /\ Exists(c, k) /\ k \notin locked[c]
              /\ \E d \in Id : /\ view[d].from = d /\ view[d].to = c /\ ~ IsStable(view[d])
                               /\ ~ Exists(d, k)
<1>1. \A d \in Id : view[d] \in Config /\ Configured(si[d], view[d], d)
  BY DEF TypeOK, ViewInv
<1>2. \A d \in Id : /\ KeyStatus(d, k) = "all" => Exists(d, k) /\ k \notin locked[d]
                    /\ KeyStatus(d, k) = "none" => ~ Exists(d, k)
  BY DEF KeyStatus
<1>3. CASE Serves(c, k, FALSE)
  <2>1. Answer(si[c], slot, FALSE, KeyStatus(c, k)) = "ok"
    BY <1>3, Zenon DEF Serves
  <2>2. c = view[c].from /\ (IsStable(view[c]) \/ KeyStatus(c, k) = "all")
    BY <1>1, <2>1, Answers, Zenon
  <2> QED
    BY <1>2, <2>2
<1>4. CASE ServesAsked(c, k)
  <2>1. PICK d \in Id : Asks(d, k) /\ si[d].importing[slot] = c /\ Serves(c, k, TRUE)
    BY <1>4 DEF ServesAsked
  <2>2. view[d].from = d /\ view[d].to = c /\ ~ IsStable(view[d]) /\ ~ Exists(d, k)
    <3>1. Answer(si[d], slot, FALSE, KeyStatus(d, k)) = "ask"
      BY <2>1, Zenon DEF Asks
    <3>2. /\ d = view[d].from /\ ~ IsStable(view[d]) /\ KeyStatus(d, k) = "none"
          /\ si[d].importing[slot] = view[d].to
      BY <1>1, <3>1, Answers, Zenon
    <3> QED
      BY <1>2, <2>1, <3>2
  <2>3. c \in {view[c].from, view[c].to} /\ (IsStable(view[c]) \/ KeyStatus(c, k) = "all")
    <3>1. Answer(si[c], slot, TRUE, KeyStatus(c, k)) = "ok"
      BY <2>1 DEF Serves
    <3> QED
      BY <1>1, <3>1, Answers, Zenon
  <2>4. CASE IsStable(view[c])
    BY <2>3, <2>4 DEF IsStable
  <2>5. CASE ~ IsStable(view[c])
    BY <1>2, <2>2, <2>3, <2>5
  <2> QED
    BY <2>4, <2>5
<1> QED
  BY <1>3, <1>4, Zenon

(* The cluster that serves a key is the only one that has it. *)
LEMMA ServedAlone ==
    ASSUME IInv, NEW c \in Id, NEW k \in Key, k \notin overtaken,
           Serves(c, k, FALSE) \/ ServesAsked(c, k)
    PROVE  /\ c \in {want.from, want.to} /\ \A d \in Id \ {c} : ~ Exists(d, k)
           /\ view[want.from] # want => c = want.from
<1>1. /\ want \in Config /\ view \in [Id -> Config] /\ Placed(k)
      /\ \A d \in Id : view[d] = want \/ CameBefore(view[d])
  BY DEF IInv, TypeOK, ViewInv, DataInv
<1>2. CASE view[c].from = c /\ IsStable(view[c])
  BY <1>1, <1>2 DEF Placed, CameBefore, IsStable, Config
<1>3. CASE view[c].from = c /\ ~ IsStable(view[c]) /\ Exists(c, k) /\ k \notin locked[c]
  BY <1>1, <1>3 DEF Placed, CameBefore, IsStable, Config
<1>4. CASE /\ view[c].to = c /\ ~ IsStable(view[c]) /\ Exists(c, k)
           /\ \E d \in Id : /\ view[d].from = d /\ view[d].to = c /\ ~ IsStable(view[d])
                            /\ ~ Exists(d, k)
  BY <1>1, <1>4 DEF Placed, CameBefore, IsStable, Config
<1> QED
  BY <1>2, <1>3, <1>4, Served, Zenon DEF IInv

LEMMA AloneIsCurrent ==
    ASSUME want \in Config, NEW c \in Id, NEW k, c \in {want.from, want.to},
           \A d \in Id \ {c} : ~ Exists(d, k)
    PROVE  data[c][k] = CurrentValue(k)
BY DEF Config, CurrentValue, Exists

-----------------------------------------------------------------------------
(* Steps *)

(* A step that is no write *)
StoreStep ==
    /\ overtaken \subseteq overtaken' /\ puts' = puts
    /\ \A k \in Key \ overtaken' : CurrentValue(k)' = CurrentValue(k)

(* A write *)
Write(k, v) ==
    /\ puts' = puts + 1 /\ UNCHANGED overtaken
    /\ k \notin overtaken => CurrentValue(k)' = v
    /\ \A j \in Key \ {k} : CurrentValue(j)' = CurrentValue(j)

LEMMA ClusterOfNode ==
    ASSUME NEW n \in Node
    PROVE  ClusterOf(n) \in Id
BY NodesAssumption DEF ClusterOf

LEMMA IsRequest ==
    ASSUME TypeOK, NEW n \in Node
    PROVE  /\ req[n] # NoRequest => req[n] \in Request
           /\ req[n].state # "none" => req[n] # NoRequest
BY DEF TypeOK, NoRequest

LEMMA DataUpdate ==
    ASSUME TypeOK, NEW c \in Id, NEW k \in Key, NEW v \in Value \cup {NONE},
           data' = [data EXCEPT ![c][k] = v]
    PROVE  /\ data' \in [Id -> [Key -> Value \cup {NONE}]]
           /\ \A d \in Id, j \in Key : data'[d][j] = IF d = c /\ j = k THEN v ELSE data[d][j]
BY DEF TypeOK

LEMMA ViewSame ==
    ASSUME ViewInv, UNCHANGED <<want, view, si>>
    PROVE  ViewInv'
BY DEF ViewInv, Configured, CameBefore

(* A step of the requests alone *)
LEMMA RequestStep ==
    ASSUME IInv, UNCHANGED <<operator, data, locked, overtaken>>, term' \in [Id -> Nat],
           req' \in [Node -> Request \cup {NoRequest}], late' \in SUBSET Request,
           \A m \in late' : Sound(m),
           \A n \in Node : req'[n] # NoRequest =>
               Sound(req'[n]) /\ req'[n].from = ClusterOf(n) /\ Arrived(req'[n])
    PROVE  IInv'
<1>1. TypeOK'
  BY SMTT(30) DEF IInv, TypeOK, IsInfo, operator
<1>2. ViewInv'
  BY ViewSame DEF IInv, operator
<1>3. RequestInv'
  BY SMTT(30) DEF IInv, RequestInv, Sound, IsOn, Exists, operator
<1>4. DataInv'
  BY SMTT(30) DEF IInv, DataInv, Placed, Arrived, IsOn, Exists, operator
<1> QED
  BY <1>1, <1>2, <1>3, <1>4 DEF IInv

LEMMA BeginStep ==
    ASSUME IInv, NEW d \in Id, Begin(d)
    PROVE  IInv' /\ StoreStep
<1>1. /\ want \in Config /\ want.from = want.to /\ d # want.to
      /\ want' = [from |-> want.to, to |-> d, key |-> want.key + 1]
      /\ \A c \in Id : view[c] = want
      /\ UNCHANGED <<view, si, data, locked, term, req, late, overtaken, puts>>
  BY DEF Begin, IInv, TypeOK, cluster, counters
<1>2. want' \in Config /\ want'.from = want.to /\ want'.to = d /\ want'.key = want.key + 1
  BY <1>1 DEF Config
<1>3. TypeOK'
  BY <1>1, <1>2 DEF IInv, TypeOK, IsInfo
<1>4. ViewInv'
  <2>1. \A c \in Id : CameBefore(view[c])'
    BY <1>1, <1>2 DEF CameBefore, IsStable, Config
  <2>2. \A c \in Id : Configured(si'[c], view'[c], c)
    BY <1>1 DEF IInv, ViewInv
  <2> QED
    BY <2>1, <2>2, Zenon DEF ViewInv
<1>5. \A m \in Request : Sound(m) => Sound(m)' /\ ~ IsOn(m)'
  BY <1>1, <1>2 DEF Sound, IsOn, Config, Request
<1>6. RequestInv'
  BY <1>1, <1>5, SMTT(30) DEF IInv, RequestInv, TypeOK
<1>7. \A k \in Key \ overtaken : \A c \in Id \ {want.to} : ~ Exists(c, k)
  BY <1>1 DEF IInv, DataInv, Placed, IsStable
<1>8. DataInv'
  <2>1. \A k \in Key \ overtaken : Placed(k)'
    BY <1>1, <1>2, <1>7 DEF Placed, IsStable, Exists
  <2>2. \A n \in Node : req[n] # NoRequest => ~ IsOn(req[n])'
    BY <1>1, <1>5 DEF IInv, RequestInv, TypeOK
  <2> QED
    BY <1>1, <2>1, <2>2 DEF DataInv, Arrived
<1>9. StoreStep
  BY <1>1, <1>2, <1>7 DEF StoreStep, CurrentValue, Exists
<1> QED
  BY <1>3, <1>4, <1>6, <1>8, <1>9 DEF IInv

LEMMA EndStep ==
    ASSUME IInv, NEW d \in Id, End(d)
    PROVE  IInv' /\ StoreStep
<1>1. /\ want \in Config /\ want.from # want.to /\ d \in {want.from, want.to}
      /\ want' = [want EXCEPT !.from = d, !.to = d]
      /\ \A c \in Id : view[c] = want
      /\ UNCHANGED <<view, si, data, locked, term, req, late, puts>>
      /\ overtaken \subseteq overtaken'
  BY DEF End, IInv, TypeOK, cluster, counters
<1>2. \A k \in Key \ overtaken' : ~ Exists(IF d = want.to THEN want.from ELSE want.to, k)
  BY <1>1 DEF End
<1>3. want' \in Config /\ want'.from = d /\ want'.to = d /\ want'.key = want.key
  BY <1>1, Zenon DEF Config
<1>4. TypeOK'
  BY <1>1, <1>3 DEF IInv, TypeOK, IsInfo
<1>5. ViewInv'
  <2>1. \A c \in Id : CameBefore(view[c])'
    BY <1>1, <1>3 DEF CameBefore, IsStable, Config
  <2>2. \A c \in Id : Configured(si'[c], view'[c], c)
    BY <1>1 DEF IInv, ViewInv
  <2> QED
    BY <2>1, <2>2, Zenon DEF ViewInv
<1>6. \A m \in Request : Sound(m) => Sound(m)' /\ ~ IsOn(m)'
  BY <1>1, <1>3 DEF Sound, IsOn, Config, Request
<1>7. RequestInv'
  BY <1>1, <1>6 DEF IInv, RequestInv, TypeOK
<1>8. \A k \in Key \ overtaken' : \A c \in Id \ {d} : ~ Exists(c, k)
  BY <1>1, <1>2 DEF IInv, DataInv, Placed, IsStable
<1>9. DataInv'
  <2>1. \A k \in Key \ overtaken' : Placed(k)'
    BY <1>1, <1>3, <1>8 DEF Placed, IsStable, Exists
  <2>2. \A n \in Node : req[n] # NoRequest => ~ IsOn(req[n])'
    BY <1>1, <1>6 DEF IInv, RequestInv, TypeOK
  <2> QED
    BY <1>1, <2>1, <2>2 DEF DataInv, Arrived
<1>10. StoreStep
  BY <1>1, <1>3, <1>8 DEF StoreStep, CurrentValue, Exists, Config
<1> QED
  BY <1>4, <1>5, <1>7, <1>9, <1>10 DEF IInv

LEMMA ReplaceStep ==
    ASSUME IInv, NEW c \in Id, Replace(c)
    PROVE  IInv' /\ StoreStep
<1>1. /\ want \in Config /\ view \in [Id -> Config] /\ view' = [view EXCEPT ![c] = want]
      /\ si' = [si EXCEPT ![c] = ReplaceShardGroups(si[c], Groups(want), c)]
      /\ si = [d \in Id |-> si[d]]
      /\ UNCHANGED <<want, data, locked, term, req, late, overtaken, puts>>
  BY DEF Replace, IInv, TypeOK, cluster, counters
<1>2. si' = [d \in Id |-> si'[d]] /\ \A d \in Id \ {c} : si'[d] = si[d]
  BY <1>1
<1>3. IsInfo(si'[c]) /\ Configured(si'[c], want, c)
  BY <1>1, ReplacedIsConfigured
<1>4. TypeOK'
  BY <1>1, <1>2, <1>3 DEF IInv, TypeOK
<1>5. ViewInv'
  BY <1>1, <1>2, <1>3 DEF IInv, ViewInv, CameBefore
<1>6. \A m \in Request : Sound(m) => Sound(m)'
  BY <1>1 DEF Sound, IsOn, Exists, Request
<1>7. RequestInv'
  BY <1>1, <1>6, SMTT(30) DEF IInv, RequestInv, TypeOK
<1>8. DataInv'
  BY <1>1 DEF IInv, DataInv, Placed, Arrived, IsOn, Exists, Config
<1>9. StoreStep
  BY <1>1 DEF StoreStep, CurrentValue, Exists
<1> QED
  BY <1>4, <1>5, <1>7, <1>8, <1>9 DEF IInv

LEMMA PutStep ==
    ASSUME IInv, NEW c \in Id, NEW k \in Key, NEW v \in Value \cup {NONE}, Put(c, k, v)
    PROVE  IInv' /\ Write(k, v)
<1>1. /\ TypeOK /\ want \in Config /\ view \in [Id -> Config]
      /\ Serves(c, k, FALSE) \/ ServesAsked(c, k)
      /\ puts' = puts + 1
      /\ UNCHANGED <<want, view, si, locked, term, req, late, overtaken>>
  BY Zenon DEF Put, IInv, TypeOK, cluster, operator
<1>2. /\ data' \in [Id -> [Key -> Value \cup {NONE}]]
      /\ \A d \in Id, j \in Key : data'[d][j] = IF d = c /\ j = k THEN v ELSE data[d][j]
  BY <1>1, DataUpdate, Zenon DEF Put
<1>3. TypeOK'
  BY <1>1, <1>2 DEF TypeOK, IsInfo
<1>4. ViewInv'
  BY <1>1, ViewSame DEF IInv
<1>5. \A m \in Request : Sound(m) /\ IsOn(m) => m.from # c \/ m.k # k
  <2> SUFFICES ASSUME NEW m \in Request, Sound(m), IsOn(m), m.from = c, m.k = k
               PROVE  FALSE
    OBVIOUS
  <2>1. /\ view[c] = want /\ view[c].from = c /\ view[c].to # c
        /\ k \in locked[c] <=> Exists(c, k)
    BY <1>1 DEF Sound, IsOn
  <2> QED
    BY <1>1, <2>1, Served, Zenon DEF IInv, IsStable
<1>6. \A m \in Request : Sound(m) => Sound(m)' /\ (IsOn(m)' => Exists(m.from, m.k)' = Exists(m.from, m.k))
  BY <1>1, <1>2, <1>5 DEF Sound, IsOn, Exists, Request
<1>7. RequestInv'
  BY <1>1, <1>6 DEF IInv, RequestInv, TypeOK
<1>8. ASSUME k \notin overtaken
      PROVE  /\ c \in {want.from, want.to} /\ \A d \in Id \ {c} : ~ Exists(d, k)
             /\ view[want.from] # want => c = want.from
  BY <1>1, <1>8, ServedAlone, Zenon
<1>9. DataInv'
  <2>1. ASSUME NEW j \in Key, j \notin overtaken PROVE Placed(j)'
    <3>1. Placed(j) /\ want.from \in Id /\ want.to \in Id
      BY <1>1, <2>1 DEF IInv, DataInv, Config
    <3>2. CASE j = k
      <4>1. \A d \in Id \ {c} : ~ Exists(d, k)'
        BY <1>2, <1>8, <2>1, <3>2 DEF Exists
      <4>2. c \in {want.from, want.to} /\ (view[want.from] # want => c = want.from)
        BY <1>8, <2>1, <3>2
      <4> QED
        BY <1>1, <3>1, <3>2, <4>1, <4>2, SMTT(30) DEF Placed, IsStable
    <3>3. CASE j # k
      <4>1. \A d \in Id : data'[d][j] = data[d][j]
        BY <1>2, <3>3, SMTT(30)
      <4> QED
        BY <1>1, <3>1, <4>1 DEF Placed, IsStable, Exists
    <3> QED
      BY <3>2, <3>3
  <2>2. ASSUME NEW n \in Node, req[n] # NoRequest PROVE Arrived(req[n])'
    <3>1. req[n] \in Request /\ Sound(req[n]) /\ Arrived(req[n])
      BY <1>1, <2>2, IsRequest, SMTT(30) DEF IInv, RequestInv, DataInv
    <3> SUFFICES ASSUME req[n].state = "imported", IsOn(req[n]), req[n].k \notin overtaken,
                        Exists(req[n].from, req[n].k)'
                 PROVE  Exists(req[n].to, req[n].k)'
      BY <1>1 DEF Arrived, IsOn
    <3>2. req[n].from \in Id /\ req[n].to \in Id /\ req[n].k \in Key
      BY <3>1 DEF Request
    <3>3. req[n].from # c \/ req[n].k # k
      BY <1>5, <3>1, SMTT(30)
    <3>4. Exists(req[n].from, req[n].k)
      BY <1>1, <1>2, <3>2, <3>3 DEF Exists
    <3>5. req[n].k # k
      BY <1>8, <3>2, <3>3, <3>4, SMTT(30)
    <3> QED
      BY <1>1, <1>2, <3>1, <3>2, <3>4, <3>5 DEF Arrived, Exists
  <2> QED
    BY <1>1, <2>1, <2>2 DEF DataInv
<1>10. ASSUME k \notin overtaken PROVE CurrentValue(k)' = v
  <2>1. c \in {want.from, want.to} /\ \A d \in Id \ {c} : ~ Exists(d, k)
    BY <1>8, <1>10
  <2>2. want.from \in Id /\ want.to \in Id
    BY <1>1 DEF Config
  <2>3. data'[c][k] = v /\ \A d \in Id \ {c} : data'[d][k] = NONE
    BY <1>2, <2>1 DEF Exists
  <2> QED
    BY <1>1, <2>1, <2>2, <2>3 DEF CurrentValue, Exists
<1>11. ASSUME NEW j \in Key \ {k} PROVE CurrentValue(j)' = CurrentValue(j)
  BY <1>1, <1>2 DEF CurrentValue, Exists, Config
<1>12. Write(k, v)
  BY <1>1, <1>10, <1>11 DEF Write
<1> QED
  BY <1>3, <1>4, <1>7, <1>9, <1>12 DEF IInv

LEMMA MigrateStep ==
    ASSUME IInv, NEW n \in Node, NEW k \in Key, Migrate(n, k)
    PROVE  IInv' /\ StoreStep
<1> DEFINE c == ClusterOf(n)
<1>1. c \in Id
  BY ClusterOfNode
<1>2. /\ want \in Config /\ view[c] \in Config /\ Configured(si[c], view[c], c)
      /\ data \in [Id -> [Key -> Value \cup {NONE}]] /\ locked \in [Id -> SUBSET Key]
      /\ term \in [Id -> Nat] /\ req \in [Node -> Request \cup {NoRequest}]
      /\ view[c] = want \/ CameBefore(view[c])
  BY <1>1, SMTT(30) DEF IInv, TypeOK, ViewInv
<1> HIDE DEF c
<1>3. /\ si[c].migrating[slot] # NONE /\ si[c].groups[si[c].migrating[slot]].local
      /\ Exists(c, k)
      /\ locked' = [locked EXCEPT ![c] = @ \cup {k}]
      /\ UNCHANGED <<want, view, si, data, term, late, overtaken, puts>>
  BY DEF Migrate, c, operator, cluster, counters
<1>4. /\ ~ IsStable(view[c]) /\ view[c].from = c /\ si[c].importing[slot] = view[c].to
      /\ SessionKey(si[c].groups[si[c].migrating[slot]], slot) = view[c].key
  BY <1>2, <1>3, Zenon DEF Configured
<1>5. PICK m : /\ m = [state |-> "locked", k |-> k, val |-> data[c][k], term |-> term[c],
                       key |-> view[c].key, from |-> c, to |-> view[c].to,
                       dest |-> NONE]
               /\ req' = [req EXCEPT ![n] = m]
  BY <1>4, Zenon DEF Migrate, c
<1>6. m \in Request /\ m # NoRequest /\ m.from = c /\ m.to = view[c].to /\ m.key = view[c].key
      /\ m.k = k /\ m.val = data[c][k] /\ m.state = "locked"
  BY <1>1, <1>2, <1>5, SMTT(60) DEF Request, Config, NoRequest
<1>7. TypeOK'
  BY <1>1, <1>2, <1>3, <1>5, <1>6, SMTT(30) DEF IInv, TypeOK, IsInfo
<1>8. ViewInv'
  BY <1>3, ViewSame, SMTT(30) DEF IInv
<1>9. Sound(m)'
  <2>1. view[c].key <= want.key
    BY <1>2, <1>4, SMTT(30) DEF CameBefore, IsStable, Config
  <2>2. IsOn(m)' => view[c] = want
    <3> SUFFICES ASSUME IsOn(m)' PROVE view[c] = want
      OBVIOUS
    <3>1. want.from # want.to
      <4>1. want = [from |-> m.from, to |-> m.to, key |-> m.key]
        BY <1>3, Zenon DEF IsOn
      <4>2. want.from = m.from /\ want.to = m.to
        BY <4>1
      <4>3. m.from # m.to
        BY <1>4, <1>6, Zenon DEF IsStable
      <4> QED
        BY <4>2, <4>3, Zenon
    <3> QED
      BY <1>2, <1>4, <3>1 DEF CameBefore, IsStable
  <2>3. k \in locked'[c] /\ Exists(c, k)'
    BY <1>1, <1>2, <1>3, SMTT(30) DEF Exists
  <2> QED
    BY <1>3, <1>4, <1>6, <2>1, <2>2, <2>3, SMTT(30) DEF Sound, IsStable
<1>10. \A r \in Request : Sound(r) => Sound(r)'
  BY <1>1, <1>2, <1>3 DEF Sound, IsOn, Exists, Request
<1>11. RequestInv'
  <2>1. \A r \in late' : Sound(r)'
    BY <1>3, <1>10 DEF IInv, RequestInv, TypeOK
  <2>2. ASSUME NEW l \in Node, req'[l] # NoRequest
        PROVE  Sound(req[l])' /\ req'[l].from = ClusterOf(l)
    <3>1. CASE l = n
      BY <1>2, <1>5, <1>6, <1>9, <3>1, SMTT(30) DEF c
    <3>2. CASE l # n
      <4>1. PICK r : r = req[l]
        OBVIOUS
      <4>2. req'[l] = r
        BY <1>2, <1>5, <3>2, <4>1
      <4>3. r \in Request
        BY <1>2, <2>2, <4>1, <4>2, Zenon
      <4>4. Sound(r) /\ r.from = ClusterOf(l)
        BY <2>2, <4>1, <4>2, Zenon DEF IInv, RequestInv
      <4> QED
        BY <1>10, <4>2, <4>3, <4>4, Zenon
    <3> QED
      BY <3>1, <3>2, SMTT(30)
  <2> QED
    BY <2>1, <2>2, SMTT(30) DEF RequestInv
<1>12. DataInv'
  <2>1. ASSUME NEW j \in Key, j \notin overtaken PROVE Placed(j)'
    <3>1. Placed(j)
      BY <1>3, <2>1 DEF IInv, DataInv
    <3>2. want.from \in Id /\ locked[want.from] \subseteq locked'[want.from]
      BY <1>1, <1>2, <1>3 DEF Config
    <3>3. \A d \in Id : Exists(d, j)' <=> Exists(d, j)
      BY <1>3, Zenon DEF Exists
    <3>4. want.to \in Id
      BY <1>2 DEF Config
    <3> QED
      BY <1>3, <3>1, <3>2, <3>3, <3>4, Zenon DEF Placed, IsStable
  <2>2. ASSUME NEW l \in Node, req'[l] # NoRequest PROVE Arrived(req[l])'
    BY <1>2, <1>3, <1>5, <1>6, <2>2, Zenon DEF IInv, DataInv, Arrived, IsOn, Exists
  <2> QED
    BY <1>3, <2>1, <2>2, SMTT(30) DEF DataInv
<1>13. StoreStep
  BY <1>3 DEF StoreStep, CurrentValue, Exists
<1> QED
  BY <1>7, <1>8, <1>11, <1>12, <1>13 DEF IInv

(* Nothing else about a request matters. *)
LEMMA SameRequest ==
    ASSUME NEW m \in Request, NEW r \in Request, Sound(m), r.k = m.k, r.val = m.val,
           r.key = m.key, r.from = m.from, r.to = m.to
    PROVE  Sound(r)
BY DEF Sound, IsOn

LEMMA StoreSame ==
    ASSUME UNCHANGED <<want, data, overtaken, puts>>
    PROVE  StoreStep
BY DEF StoreStep, CurrentValue, Exists

LEMMA TransferKeysStep ==
    ASSUME IInv, NEW n \in Node, TransferKeys(n)
    PROVE  IInv' /\ StoreStep
<1>1. /\ TypeOK /\ req[n].state = "locked" /\ UNCHANGED <<operator, data, locked, overtaken>>
      /\ UNCHANGED <<want, term, late, puts>>
      /\ late \in SUBSET Request /\ term \in [Id -> Nat]
      /\ req \in [Node -> Request \cup {NoRequest}]
  BY DEF TransferKeys, IInv, TypeOK, cluster, counters, operator
<1>2. req[n] \in Request /\ Sound(req[n]) /\ req[n].from = ClusterOf(n)
  BY <1>1, IsRequest DEF IInv, RequestInv
<1>3. PICK t \in req[n].term .. term[ClusterOf(n)], i \in DOMAIN NodesOf[req[n].to] :
          req' = [req EXCEPT ![n].state = "sent", ![n].term = t,
                             ![n].dest = NodesOf[req[n].to][i]]
  BY Zenon DEF TransferKeys
<1>4. PICK r : r = [req[n] EXCEPT !.state = "sent", !.term = t, !.dest = NodesOf[req[n].to][i]]
  OBVIOUS
<1>5. /\ r \in Request /\ r.k = req[n].k /\ r.val = req[n].val /\ r.key = req[n].key
      /\ r.from = req[n].from /\ r.to = req[n].to /\ r.state = "sent"
  <2>1. t \in Nat
    BY <1>1, <1>2, <1>3, ClusterOfNode DEF Request
  <2>2. NodesOf[req[n].to][i] \in Node
    <3>1. req[n].to \in Id
      BY <1>2 DEF Request
    <3>2. NodesOf[req[n].to] \in Seq(Node)
      BY <3>1, NodesAssumption
    <3> QED
      BY <1>3, <3>2
  <2> QED
    BY <1>2, <1>4, <2>1, <2>2, Zenon DEF Request
<1>6. req' = [req EXCEPT ![n] = r]
  BY <1>1, <1>3, <1>4, Zenon
<1>7. Sound(r) /\ Arrived(r)
  BY <1>2, <1>5, SameRequest DEF Arrived
<1>8. \A l \in Node : req'[l] # NoRequest =>
          Sound(req'[l]) /\ req'[l].from = ClusterOf(l) /\ Arrived(req'[l])
  BY <1>1, <1>2, <1>5, <1>6, <1>7, SMTT(30) DEF IInv, RequestInv, DataInv
<1>9. IInv'
  BY <1>1, <1>5, <1>6, <1>8, RequestStep DEF IInv, RequestInv
<1> QED
  BY <1>1, <1>9, StoreSame

(* A step that ends the request of n *)
LEMMA EndOfRequest ==
    ASSUME IInv, NEW n \in Node, UNCHANGED <<operator, data, locked, overtaken, puts, term>>,
           req' = [req EXCEPT ![n] = NoRequest],
           late' = late \/ (req[n] # NoRequest /\ late' = late \cup {req[n]})
    PROVE  IInv' /\ StoreStep
<1>1. /\ TypeOK /\ late \in SUBSET Request /\ term \in [Id -> Nat]
      /\ req \in [Node -> Request \cup {NoRequest}]
  BY DEF IInv, TypeOK
<1>2. \A m \in late' : Sound(m) /\ m \in Request
  BY <1>1 DEF IInv, RequestInv
<1>3. \A l \in Node : req'[l] # NoRequest =>
          Sound(req'[l]) /\ req'[l].from = ClusterOf(l) /\ Arrived(req'[l])
  BY <1>1 DEF IInv, RequestInv, DataInv
<1>4. IInv'
  BY <1>1, <1>2, <1>3, RequestStep
<1> QED
  BY <1>4, StoreSame DEF operator

LEMMA GiveUpStep ==
    ASSUME IInv, NEW n \in Node, GiveUp(n)
    PROVE  IInv' /\ StoreStep
BY EndOfRequest DEF GiveUp, cluster

LEMMA LoseStep ==
    ASSUME IInv, NEW m \in late, Lose(m)
    PROVE  IInv' /\ StoreStep
<1>1. /\ late \in SUBSET Request /\ term \in [Id -> Nat]
      /\ req \in [Node -> Request \cup {NoRequest}] /\ late' = late \ {m}
      /\ UNCHANGED <<operator, data, locked, overtaken>> /\ UNCHANGED <<want, term, req, puts>>
  BY DEF IInv, TypeOK, Lose, cluster, counters, operator
<1>2. IInv'
  BY <1>1, RequestStep, SMTT(30) DEF IInv, RequestInv, DataInv
<1> QED
  BY <1>1, <1>2, StoreSame

LEMMA LeaderChangeStep ==
    ASSUME IInv, NEW c \in Id, NEW n \in Node, LeaderChange(c, n)
    PROVE  IInv' /\ StoreStep
<1>1. /\ late \in SUBSET Request /\ term' \in [Id -> Nat]
      /\ req \in [Node -> Request \cup {NoRequest}]
      /\ UNCHANGED <<operator, data, locked, overtaken>> /\ UNCHANGED <<want, late, req, puts>>
  BY DEF IInv, TypeOK, LeaderChange, counters, operator
<1>2. IInv'
  BY <1>1, RequestStep, SMTT(30) DEF IInv, RequestInv, DataInv
<1> QED
  BY <1>1, <1>2, StoreSame

LEMMA AcceptsImport ==
    ASSUME NEW i, NEW w \in Config, NEW c \in Id, Configured(i, w, c),
           i.importing[slot] # NONE, i.groups[i.importing[slot]].local
    PROVE  w.to = c /\ w.from # c
BY DEF Configured, IsStable

(* An import changes no cluster that gives the slot away, nor the value of a key. *)
LEMMA ImportKeysStep ==
    ASSUME IInv, NEW m \in Request, Sound(m), ImportKeys(m),
           UNCHANGED <<want, view, locked, puts>>
    PROVE  /\ StoreStep /\ ViewInv'
           /\ data' \in [Id -> [Key -> Value \cup {NONE}]]
           /\ si' = [c \in Id |-> si'[c]] /\ \A c \in Id : IsInfo(si'[c])
           /\ \A r \in Request : Sound(r) => Sound(r)'
           /\ \A r \in Request : Sound(r) /\ Arrived(r) => Arrived(r)'
           /\ \A k \in Key \ overtaken' : Placed(k)'
           /\ IsOn(m) /\ m.k \notin overtaken' => Exists(m.to, m.k)'
<1>1. /\ TypeOK /\ ViewInv /\ want \in Config /\ want.from \in Id /\ want.to \in Id
      /\ view \in [Id -> Config] /\ si = [c \in Id |-> si[c]] /\ \A c \in Id : IsInfo(si[c])
      /\ m.from \in Id /\ m.to \in Id /\ m.k \in Key /\ m.val \in Value \cup {NONE}
  BY DEF IInv, TypeOK, Config, Request
<1>2. /\ data' \in [Id -> [Key -> Value \cup {NONE}]]
      /\ \A d \in Id, j \in Key :
             data'[d][j] = IF d = m.to /\ j = m.k THEN m.val ELSE data[d][j]
  <2>1. data' = [data EXCEPT ![m.to][m.k] = m.val]
    BY DEF ImportKeys
  <2> QED
    BY <1>1, <2>1 DEF TypeOK
<1>3. PICK x : si' = [si EXCEPT ![m.to].max_importing_term = x]
  BY <1>1, Zenon DEF ImportKeys
<1>4. /\ si' = [c \in Id |-> si'[c]] /\ \A c \in Id \ {m.to} : si'[c] = si[c]
      /\ si'[m.to] = [si[m.to] EXCEPT !.max_importing_term = x]
  BY <1>1, <1>3
<1>5. IsInfo(si[m.to])
  BY <1>1
<1>6. /\ IsInfo(si'[m.to]) /\ si'[m.to].groups = si[m.to].groups
      /\ si'[m.to].stable = si[m.to].stable /\ si'[m.to].importing = si[m.to].importing
      /\ si'[m.to].migrating = si[m.to].migrating /\ si'[m.to].is_sharding = si[m.to].is_sharding
  BY <1>4, <1>5 DEF IsInfo
<1>7. \A c \in Id : IsInfo(si'[c])
  BY <1>1, <1>4, <1>6
<1>8. ViewInv'
  <2>1. ASSUME NEW c \in Id PROVE Configured(si'[c], view[c], c)
    <3>1. Configured(si[c], view[c], c)
      BY <1>1 DEF ViewInv
    <3>2. CASE c = m.to
      BY <1>6, <3>1, <3>2, Zenon DEF Configured
    <3>3. CASE c # m.to
      BY <1>4, <3>1, <3>3
    <3> QED
      BY <3>2, <3>3
  <2> QED
    BY <1>1, <2>1 DEF ViewInv, CameBefore
<1>9. view[m.to].to = m.to /\ view[m.to].from # m.to
  <2>1. si[m.to].importing[slot] # NONE /\ si[m.to].groups[si[m.to].importing[slot]].local
    BY SMTT(30) DEF ImportKeys, Accepts
  <2>2. Configured(si[m.to], view[m.to], m.to)
    BY <1>1, SMTT(30) DEF ViewInv
  <2> QED
    BY <1>1, <2>1, <2>2, AcceptsImport, Zenon
<1>10. \A r \in Request : Sound(r) /\ IsOn(r) => r.from # m.to
  BY <1>9, SMTT(30) DEF Sound, IsOn
<1>11. ASSUME NEW r \in Request, Sound(r) PROVE Sound(r)'
  <2>1. r.from \in Id /\ r.k \in Key
    BY DEF Request
  <2>2. IsOn(r) => data'[r.from][r.k] = data[r.from][r.k]
    BY <1>2, <1>10, <1>11, <2>1
  <2> QED
    BY <1>11, <2>2 DEF Sound, IsOn, Exists
<1>12. /\ overtaken \subseteq overtaken'
       /\ m.k \notin overtaken' => IsOn(m) /\ m.k \in locked[m.from]
  BY DEF ImportKeys
<1>13. ASSUME m.k \notin overtaken'
       PROVE  /\ want.from = m.from /\ want.to = m.to /\ view[m.from] = want /\ m.from # m.to
              /\ m.k \in locked[m.from] /\ Exists(m.from, m.k) /\ m.val = data[m.from][m.k]
  <2>1. IsOn(m) /\ m.k \in locked[m.from]
    BY <1>12, <1>13, Zenon
  <2>2. want.from = m.from /\ want.to = m.to
    BY <2>1 DEF IsOn
  <2>3. /\ view[m.from] = want /\ m.from # m.to /\ Exists(m.from, m.k)
        /\ m.val = data[m.from][m.k]
    BY <2>1, Zenon DEF Sound
  <2> QED
    BY <2>1, <2>2, <2>3, Zenon
<1>14. m.k \notin overtaken' => Exists(m.to, m.k)'
  BY <1>1, <1>2, <1>13 DEF Exists
<1>15. ASSUME NEW r \in Request, Sound(r), Arrived(r) PROVE Arrived(r)'
  <2> SUFFICES ASSUME r.state = "imported", IsOn(r), r.k \notin overtaken', Exists(r.from, r.k)'
               PROVE  Exists(r.to, r.k)'
    BY DEF Arrived, IsOn
  <2>1. r.from \in Id /\ r.to \in Id /\ r.k \in Key
    BY SMTT(30) DEF Request
  <2>2. Exists(r.from, r.k)
    BY <1>2, <1>10, <1>15, <2>1 DEF Exists
  <2>3. Exists(r.to, r.k)
    BY <1>12, <1>15, <2>2 DEF Arrived
  <2> QED
    BY <1>2, <1>14, <2>1, <2>3 DEF Exists
<1>16. ASSUME NEW k \in Key, k \notin overtaken' PROVE Placed(k)' /\ CurrentValue(k)' = CurrentValue(k)
  <2>1. Placed(k)
    BY <1>12, <1>16 DEF IInv, DataInv
  <2>2. CASE k = m.k
    <3>1. \A d \in Id \ {m.to} : data'[d][k] = data[d][k]
      BY <1>1, <1>2, <2>2
    <3>2. data'[m.to][k] = m.val
      BY <1>1, <1>2, <2>2
    <3>3. /\ want.from = m.from /\ want.to = m.to /\ view[m.from] = want /\ m.from # m.to
          /\ k \in locked[m.from] /\ Exists(m.from, k) /\ m.val = data[m.from][k]
      BY <1>13, <1>16, <2>2, SMTT(30)
    <3>4. Placed(k)'
      BY <1>1, <2>1, <3>1, <3>2, <3>3 DEF Placed, IsStable, Exists
    <3>5. CurrentValue(k)' = CurrentValue(k)
      BY <1>1, <3>1, <3>3 DEF CurrentValue, Exists
    <3> QED
      BY <3>4, <3>5
  <2>3. CASE k # m.k
    <3>1. \A d \in Id : data'[d][k] = data[d][k]
      BY <1>2, <2>3, SMTT(30)
    <3>2. Placed(k)'
      BY <1>1, <2>1, <3>1 DEF Placed, IsStable, Exists
    <3>3. CurrentValue(k)' = CurrentValue(k)
      BY <1>1, <3>1 DEF CurrentValue, Exists
    <3> QED
      BY <3>2, <3>3
  <2> QED
    BY <2>2, <2>3
<1>17. StoreStep
  BY <1>12, <1>16 DEF StoreStep
<1> QED
  BY <1>2, <1>4, <1>7, <1>8, <1>11, <1>14, <1>15, <1>16, <1>17

LEMMA ImportStep ==
    ASSUME IInv, NEW n \in Node, Import(n)
    PROVE  IInv' /\ StoreStep
<1>1. /\ TypeOK /\ req[n].state = "sent" /\ req \in [Node -> Request \cup {NoRequest}]
      /\ late \in SUBSET Request
      /\ UNCHANGED <<plan, want, view, locked, term, late, puts>>
  BY DEF Import, IInv, TypeOK, cluster, counters
<1>2. PICK m \in Request : m = req[n] /\ Sound(m) /\ m.from = ClusterOf(n)
  BY <1>1, IsRequest DEF IInv, RequestInv
<1>3. CASE ImportKeys(m) /\ req' = [req EXCEPT ![n].state = "imported"]
  <2>1. PICK r : r = [m EXCEPT !.state = "imported"]
    OBVIOUS
  <2>2. /\ r \in Request /\ r.k = m.k /\ r.val = m.val /\ r.key = m.key
        /\ r.from = m.from /\ r.to = m.to
    BY <2>1 DEF Request
  <2>3. req' = [req EXCEPT ![n] = r]
    BY <1>1, <1>2, <1>3, <2>1
  <2>4. /\ StoreStep /\ ViewInv'
        /\ data' \in [Id -> [Key -> Value \cup {NONE}]]
        /\ si' = [c \in Id |-> si'[c]] /\ \A c \in Id : IsInfo(si'[c])
        /\ \A q \in Request : Sound(q) => Sound(q)'
        /\ \A q \in Request : Sound(q) /\ Arrived(q) => Arrived(q)'
        /\ \A k \in Key \ overtaken' : Placed(k)'
        /\ IsOn(m) /\ m.k \notin overtaken' => Exists(m.to, m.k)'
    BY <1>1, <1>2, <1>3, ImportKeysStep
  <2>5. Sound(r)' /\ Arrived(r)'
    <3>1. Sound(r)
      BY <1>2, <2>2, SameRequest
    <3>2. Arrived(r)'
      BY <1>1, <2>2, <2>4 DEF Arrived, IsOn
    <3> QED
      BY <2>2, <2>4, <3>1, <3>2
  <2>6. TypeOK'
    BY <1>1, <2>2, <2>3, <2>4 DEF TypeOK
  <2>7. ASSUME NEW l \in Node, req'[l] # NoRequest
        PROVE  Sound(req[l])' /\ req'[l].from = ClusterOf(l) /\ Arrived(req[l])'
    <3>1. CASE l = n
      BY <1>1, <1>2, <2>2, <2>3, <2>5, <3>1
    <3>2. CASE l # n
      <4>1. req'[l] = req[l]
        BY <1>1, <2>3, <3>2
      <4>2. /\ req[l] \in Request /\ Sound(req[l]) /\ Arrived(req[l])
            /\ req[l].from = ClusterOf(l)
        BY <1>1, <2>7, <4>1, IsRequest DEF IInv, RequestInv, DataInv
      <4> QED
        BY <2>4, <4>1, <4>2
    <3> QED
      BY <3>1, <3>2
  <2>8. \A q \in late' : Sound(q)'
    BY <1>1, <2>4 DEF IInv, RequestInv
  <2> QED
    BY <2>4, <2>6, <2>7, <2>8 DEF IInv, RequestInv, DataInv
<1>4. CASE req' = [req EXCEPT ![n] = NoRequest] /\ UNCHANGED <<data, si, overtaken>>
  BY <1>1, <1>4, EndOfRequest DEF operator
<1> QED
  BY <1>2, <1>3, <1>4 DEF Import

LEMMA ImportLateStep ==
    ASSUME IInv, NEW m \in late, ImportLate(m)
    PROVE  IInv' /\ StoreStep
<1>1. /\ TypeOK /\ m \in Request /\ Sound(m) /\ late \in SUBSET Request
      /\ ImportKeys(m) /\ late' = late \ {m}
      /\ UNCHANGED <<want, view, locked, puts>> /\ UNCHANGED <<term, req>>
  BY DEF ImportLate, IInv, TypeOK, RequestInv, cluster, counters
<1>2. /\ StoreStep /\ ViewInv'
      /\ data' \in [Id -> [Key -> Value \cup {NONE}]]
      /\ si' = [c \in Id |-> si'[c]] /\ \A c \in Id : IsInfo(si'[c])
      /\ \A q \in Request : Sound(q) => Sound(q)'
      /\ \A q \in Request : Sound(q) /\ Arrived(q) => Arrived(q)'
      /\ \A k \in Key \ overtaken' : Placed(k)'
  BY <1>1, ImportKeysStep
<1>3. TypeOK'
  BY <1>1, <1>2 DEF TypeOK
<1>4. ASSUME NEW l \in Node, req'[l] # NoRequest
      PROVE  Sound(req[l])' /\ req'[l].from = ClusterOf(l) /\ Arrived(req[l])'
  <2>1. /\ req'[l] = req[l] /\ req[l] \in Request /\ Sound(req[l]) /\ Arrived(req[l])
        /\ req[l].from = ClusterOf(l)
    BY <1>1, <1>4, IsRequest DEF IInv, RequestInv, DataInv
  <2> QED
    BY <1>2, <2>1
<1>5. \A q \in late' : Sound(q)'
  BY <1>1, <1>2 DEF IInv, RequestInv
<1> QED
  BY <1>2, <1>3, <1>4, <1>5 DEF IInv, RequestInv, DataInv

LEMMA TransferKeysResponseStep ==
    ASSUME IInv, NEW n \in Node, TransferKeysResponse(n)
    PROVE  IInv' /\ StoreStep
<1>1. /\ TypeOK /\ req[n].state = "imported" /\ req \in [Node -> Request \cup {NoRequest}]
      /\ late \in SUBSET Request /\ req' = [req EXCEPT ![n] = NoRequest]
      /\ want \in Config /\ want.from \in Id /\ want.to \in Id
      /\ locked \in [Id -> SUBSET Key]
      /\ UNCHANGED <<plan, want, view, si, term, late, puts>>
  BY DEF TransferKeysResponse, IInv, TypeOK, cluster, counters, operator, Config
<1>2. PICK m \in Request : m = req[n] /\ Sound(m) /\ Arrived(m) /\ m.from = ClusterOf(n)
  BY <1>1, IsRequest, SMTT(30) DEF IInv, RequestInv, DataInv
<1>3. CASE UNCHANGED <<data, locked, overtaken>>
  BY <1>1, <1>3, EndOfRequest, Zenon DEF operator
<1>4. CASE /\ data' = [data EXCEPT ![m.from][m.k] = NONE]
           /\ locked' = [locked EXCEPT ![m.from] = @ \ {m.k}]
           /\ overtaken' = IF IsOn(m) THEN overtaken ELSE overtaken \cup {m.k}
  <2>1. m.from \in Id /\ m.to \in Id /\ m.k \in Key /\ m.state = "imported"
    BY <1>1, <1>2 DEF Request
  <2>2. /\ data' \in [Id -> [Key -> Value \cup {NONE}]]
        /\ \A d \in Id, j \in Key :
               data'[d][j] = IF d = m.from /\ j = m.k THEN NONE ELSE data[d][j]
    BY <1>1, <1>4, <2>1 DEF TypeOK
  <2>3. /\ locked' \in [Id -> SUBSET Key]
        /\ \A d \in Id, j \in Key :
               j \in locked'[d] <=> j \in locked[d] /\ ~ (d = m.from /\ j = m.k)
    BY <1>1, <1>4, <2>1
  <2>4. overtaken \subseteq overtaken' /\ (m.k \notin overtaken' => IsOn(m))
    BY <1>4, SMTT(30)
  <2>5. TypeOK'
    BY <1>1, <2>2, <2>3 DEF TypeOK, IsInfo
  <2>6. ViewInv'
    BY <1>1, ViewSame, SMTT(30) DEF IInv
  <2>7. ASSUME NEW r \in Request, Sound(r) PROVE Sound(r)'
    <3>1. r.from \in Id /\ r.k \in Key
      BY SMTT(30) DEF Request
    <3> QED
      BY <1>1, <2>2, <2>3, <2>7, <3>1 DEF Sound, IsOn, Exists
  <2>8. ASSUME NEW r \in Request, Sound(r), Arrived(r) PROVE Arrived(r)'
    <3> SUFFICES ASSUME IsOn(r), r.state = "imported", r.k \notin overtaken', Exists(r.from, r.k)'
                 PROVE  Exists(r.to, r.k)'
      BY <1>1 DEF Arrived, IsOn
    <3>1. r.from \in Id /\ r.to \in Id /\ r.k \in Key
      BY SMTT(30) DEF Request
    <3>2. Exists(r.from, r.k) /\ Exists(r.to, r.k)
      BY <2>2, <2>4, <2>8, <3>1, SMTT(30) DEF Arrived, Exists
    <3>3. r.k = m.k => r.to # m.from
      BY <1>2, <2>4 DEF IsOn, Sound
    <3> QED
      BY <2>2, <3>1, <3>2, <3>3, SMTT(30) DEF Exists
  <2>9. ASSUME NEW k \in Key, k \notin overtaken'
        PROVE  Placed(k)' /\ CurrentValue(k)' = CurrentValue(k)
    <3>1. Placed(k) /\ k \notin overtaken
      BY <2>4, <2>9 DEF IInv, DataInv
    <3>2. CASE k = m.k
      <4>1. want.from = m.from /\ want.to = m.to /\ view[m.from] = want /\ m.from # m.to
        BY <1>2, <2>4, <2>9, <3>2 DEF Sound, IsOn
      <4>2. data'[m.from][k] = NONE /\ \A d \in Id \ {m.from} : data'[d][k] = data[d][k]
        BY <2>1, <2>2, <3>2, SMTT(30)
      <4>3. Exists(m.from, k) => data[m.from][k] = data[m.to][k]
        BY <1>2, <2>1, <2>4, <2>9, <3>1, <3>2, <4>1, SMTT(30) DEF Arrived, Placed, IsStable
      <4>4. Placed(k)'
        <5>1. want' = want /\ view' = view
          BY <1>1
        <5> QED
          BY <3>1, <4>1, <4>2, <5>1, SMTT(30) DEF Placed, IsStable, Exists
      <4>5. CurrentValue(k)' = CurrentValue(k)
        <5>1. want' = want
          BY <1>1
        <5> QED
          BY <2>1, <4>1, <4>2, <4>3, <5>1, SMTT(30) DEF CurrentValue, Exists
      <4> QED
        BY <4>4, <4>5, Zenon
    <3>3. CASE k # m.k
      <4>1. \A d \in Id : data'[d][k] = data[d][k] /\ (k \in locked'[d] <=> k \in locked[d])
        BY <2>2, <2>3, <3>3, SMTT(30)
      <4>2. Placed(k)'
        BY <1>1, <3>1, <4>1, SMTT(30) DEF Placed, IsStable, Exists
      <4>3. CurrentValue(k)' = CurrentValue(k)
        BY <1>1, <4>1, SMTT(30) DEF CurrentValue, Exists
      <4> QED
        BY <4>2, <4>3, SMTT(30)
    <3> QED
      BY <3>2, <3>3
  <2>10. ASSUME NEW l \in Node, req'[l] # NoRequest
         PROVE  Sound(req[l])' /\ req'[l].from = ClusterOf(l) /\ Arrived(req[l])'
    <3>1. /\ req'[l] = req[l] /\ req[l] \in Request /\ Sound(req[l]) /\ Arrived(req[l])
          /\ req[l].from = ClusterOf(l)
      BY <1>1, <2>10, IsRequest, SMTT(30) DEF IInv, RequestInv, DataInv
    <3> QED
      BY <2>7, <2>8, <3>1, SMTT(30)
  <2>11. \A q \in late' : Sound(q)'
    BY <1>1, <2>7, SMTT(30) DEF IInv, RequestInv
  <2>12. StoreStep
    BY <1>1, <2>4, <2>9 DEF StoreStep
  <2> QED
    BY <2>5, <2>6, <2>9, <2>10, <2>11, <2>12, SMTT(30) DEF IInv, RequestInv, DataInv
<1> QED
  BY <1>2, <1>3, <1>4 DEF TransferKeysResponse

LEMMA InitIsInductive == Init => IInv
<1> SUFFICES ASSUME Init PROVE IInv
  OBVIOUS
<1> DEFINE w == Stable(Home)
<1>1. w \in Config /\ w.from = Home /\ w.to = Home /\ Home \in Id
  BY NodesAssumption DEF Stable, Config
<1>2. want = w /\ view = [c \in Id |-> w] /\ late = {} /\ req = [n \in Node |-> NoRequest]
  BY DEF Init
<1>3. si = [c \in Id |-> ReplaceShardGroups(ShardingInfoInit, Groups(w), c)]
  BY SMTT(30) DEF Init
<1> HIDE DEF w
<1>4. si = [c \in Id |-> si[c]] /\ \A c \in Id : IsInfo(si[c]) /\ Configured(si[c], w, c)
  BY <1>1, <1>3, ReplacedIsConfigured, SMTT(30)
<1>5. TypeOK
  BY <1>1, <1>2, <1>4, ValueAssumption DEF Init, TypeOK
<1>6. ViewInv
  BY <1>2, <1>4 DEF ViewInv
<1>7. RequestInv
  BY <1>2, SMTT(30) DEF RequestInv
<1>8. DataInv
  BY <1>1, <1>2, SMTT(30) DEF Init, DataInv, Placed, IsStable, Exists
<1> QED
  BY <1>5, <1>6, <1>7, <1>8 DEF IInv

(* A step changes no value of a key that is not given up, or writes it. *)
LEMMA NextStep ==
    ASSUME IInv, [Next]_vars
    PROVE  /\ IInv'
           /\ StoreStep \/ \E k \in Key, v \in Value \cup {NONE} : Write(k, v)
<1>1. CASE UNCHANGED vars
  <2>1. /\ UNCHANGED <<operator, data, locked, overtaken>> /\ UNCHANGED <<want, term, req, late, puts>>
    BY <1>1, SMTT(30) DEF vars, operator
  <2>2. IInv'
    BY <2>1, RequestStep DEF IInv, TypeOK, RequestInv, DataInv
  <2> QED
    BY <2>1, <2>2, StoreSame
<1>2. ASSUME NEW c \in Id, Begin(c) \/ End(c) \/ Replace(c) \/ \E n \in Node : LeaderChange(c, n)
      PROVE  IInv' /\ StoreStep
  BY <1>2, BeginStep, EndStep, ReplaceStep, LeaderChangeStep
<1>3. ASSUME NEW c \in Id, NEW k \in Key, NEW v \in Value \cup {NONE}, Put(c, k, v)
      PROVE  IInv' /\ Write(k, v)
  BY <1>3, PutStep
<1>4. ASSUME NEW n \in Node, Proceed(n) \/ GiveUp(n)
      PROVE  IInv' /\ StoreStep
  BY <1>4, MigrateStep, TransferKeysStep, ImportStep, TransferKeysResponseStep, GiveUpStep
     DEF Proceed
<1>5. ASSUME NEW m \in late, ImportLate(m) \/ Lose(m)
      PROVE  IInv' /\ StoreStep
  BY <1>5, ImportLateStep, LoseStep
<1> QED
  BY <1>1, <1>2, <1>3, <1>4, <1>5 DEF Next

-----------------------------------------------------------------------------
LEMMA Inductive == Spec => []IInv
<1>1. Init => IInv
  BY InitIsInductive
<1>2. IInv /\ [Next]_vars => IInv'
  BY NextStep
<1> QED
  BY <1>1, <1>2, PTL DEF Spec

(* Wherever a client finds a key, by MOVED or by ASK (handleSharding), it finds the value
   written last, for any clusters, keys and interleavings: the one that serves it is the
   only one that has it, or both have the same value. *)
THEOREM ServesCurrentValue == Spec => []ServedIsCurrent
<1>1. IInv => ServedIsCurrent
  <2> SUFFICES ASSUME IInv, NEW c \in Id, NEW k \in Key \ overtaken,
                      Serves(c, k, FALSE) \/ ServesAsked(c, k)
               PROVE  data[c][k] = CurrentValue(k)
    BY Zenon DEF ServedIsCurrent
  <2>1. c \in {want.from, want.to} /\ \A d \in Id \ {c} : ~ Exists(d, k)
    BY ServedAlone
  <2>2. want \in Config
    BY DEF IInv, TypeOK
  <2> QED
    BY <2>1, <2>2, AloneIsCurrent
<1> QED
  BY <1>1, Inductive, PTL

(* Moving a slot (lockKeys, importKeys, unlockDeleteKeys, with leader changes, links that
   break and imports that come late) implements the key store: no step but a write
   changes the value of a key, and a write is not lost. *)
THEOREM ImplementsKeyStore == Spec => IsKeyStore
<1> DEFINE value == [k \in Key |-> CurrentValue(k)]
<1>1. IInv => value \in [Key -> Value \cup {NONE}]
  BY DEF IInv, TypeOK, Config, CurrentValue
<1>2. Init => Store!Init
  <2> SUFFICES ASSUME Init PROVE Store!Init
    OBVIOUS
  <2>1. value \in [Key -> Value \cup {NONE}]
    BY <1>1, InitIsInductive
  <2> QED
    BY <2>1 DEF Init, Store!Init
<1>3. IInv /\ [Next]_vars => [Store!Next]_(Store!vars)
  <2> SUFFICES ASSUME IInv, [Next]_vars PROVE [Store!Next]_(Store!vars)
    OBVIOUS
  <2>1. CASE StoreStep
    <3>1. \A k \in Key \ overtaken' : value'[k] = value[k]
      BY <2>1 DEF StoreStep
    <3>2. Store!Overtake
      BY <2>1, <3>1 DEF StoreStep, Store!Overtake
    <3> QED
      BY <3>2 DEF Store!Next
  <2>2. ASSUME NEW k \in Key, NEW v \in Value \cup {NONE}, Write(k, v)
        PROVE  Store!Next
    <3>1. \A j \in Key \ {k} : value'[j] = value[j]
      BY <2>2 DEF Write
    <3>2. CASE k \in overtaken
      BY <2>2, <3>1, <3>2 DEF Write, Store!Overtake, Store!Next
    <3>3. CASE k \notin overtaken
      <4>1. value'[k] = v
        BY <2>2, <3>3 DEF Write
      <4>2. value' = [value EXCEPT ![k] = v]
        BY <3>1, <4>1, Zenon
      <4>3. Store!Put(k, v)
        BY <2>2, <4>2 DEF Write, Store!Put
      <4> QED
        BY <4>3 DEF Store!Next
    <3> QED
      BY <3>2, <3>3
  <2> QED
    BY <2>1, <2>2, NextStep
<1> QED
  BY <1>2, <1>3, Inductive, PTL DEF Spec, IsKeyStore, Store!Spec
=============================================================================
