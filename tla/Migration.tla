----------------------------- MODULE Migration ------------------------------
(***************************************************************************)
(* Moving the keys of a hash slot from one RedisRaft cluster to another    *)
(* (src/src/migrate.c, src/src/raft.c, src/src/redisraft.c). An operator   *)
(* gives both clusters a configuration in which one migrates the slot and  *)
(* the other imports it, has the first one MIGRATE the keys, again if need *)
(* be, and then gives both the configuration in which the other one has    *)
(* the slot (tests/integration/test_migrate.py). Clients go on meanwhile.  *)
(*                                                                         *)
(* The state of a cluster is that of its log: an entry takes effect when   *)
(* it is appended or, if it is lost, never. A node may apply an entry much *)
(* later; this shows in a MIGRATE, which goes on from there. Leaders       *)
(* change, links break, nodes restart, and what was sent on a link may     *)
(* arrive after the link is gone.                                          *)
(*                                                                         *)
(* Abstractions: a MIGRATE has one key. A client that is told to ask       *)
(* another cluster does so at once. Addresses in a shard group are up to   *)
(* date: the refreshing of groups is in module Connections.                *)
(***************************************************************************)
EXTENDS ShardGroups

CONSTANTS
    slot,              \* the slot that is moved
    Key, Value,        \* keys of the slot, and values
    Node, NodesOf,     \* nodes, and those of every cluster as its shard group lists them
    Home,              \* the cluster that has the slot in the beginning
    Plans              \* what happens in a behaviour, one of these: the leader of each
                       \* cluster in the beginning, and bounds on the terms of each, on
                       \* sessions, on puts, the writes by clients, and on failures of links
                       \* and nodes; aborts, whether a migration may be taken back

ASSUME SlotAssumption == slot \in Slot

Members(c) == {NodesOf[c][i] : i \in DOMAIN NodesOf[c]}

ASSUME NodesAssumption ==
    /\ Home \in Id
    /\ \A c \in Id : NodesOf[c] \in Seq(Node) /\ NodesOf[c] # << >>
    /\ \A n \in Node : \E c \in Id : n \in Members(c)
ASSUME ValueAssumption == Value # {}

VARIABLES
    plan,        \* one of Plans
    want,        \* the configuration that the operator gives to the clusters
    view,        \* per cluster: the configuration that it has
    si,          \* per cluster: its ShardingInfo
    data,        \* per cluster and key: the value, or NONE
    locked,      \* per cluster: locked_keys
    leader,      \* per cluster: its leader
    term,        \* per cluster: the term of that leader
    req,         \* per node: migrate_req
    late,        \* imports on links that are gone
    puts,        \* how many writes there were
    failures,    \* how many failures there were
    overtaken    \* keys of which nothing is claimed any more

vars == <<plan, want, view, si, data, locked, leader, term, req, late, puts, failures,
          overtaken>>
counters == <<puts, failures>>
operator == <<plan, want, view, si>>
cluster == <<leader, term>>

ClusterOf(n) == CHOOSE c \in Id : n \in Members(c)

-----------------------------------------------------------------------------
(* The operator *)

Stable(c) == [from |-> c, to |-> c, key |-> 0]
Group(id, type, key) ==
    [id |-> id, nodes |-> 1,
     ranges |-> <<[slots |-> Slot, type |-> type, key |-> key]>>]
Groups(w) ==
    IF w.from = w.to THEN <<Group(w.to, "stable", 0)>>
    ELSE <<Group(w.from, "migrating", w.key), Group(w.to, "importing", w.key)>>

Exists(c, k) == data[c][k] # NONE

(* A migration to the cluster d begins, with a new session key. *)
Begin(d) ==
    /\ \A c \in Id : view[c] = want
    /\ want.from = want.to /\ d # want.to /\ want.key < plan.sessions
    /\ want' = [from |-> want.to, to |-> d, key |-> want.key + 1]
    /\ UNCHANGED <<plan, view, si, data, locked, cluster, req, late, counters, overtaken>>

(* It ends when all keys have been moved, or it is taken back; nothing brings back the
   keys that have been moved or are about to be. *)
End(d) ==
    /\ \A c \in Id : view[c] = want
    /\ want.from # want.to
    /\ \/ /\ d = want.to /\ \A k \in Key : ~ Exists(want.from, k)
          /\ UNCHANGED overtaken
       \/ /\ d = want.from /\ plan.aborts
          /\ overtaken' = overtaken \cup locked[want.from] \cup {k \in Key : Exists(want.to, k)}
    /\ want' = [want EXCEPT !.from = d, !.to = d]
    /\ UNCHANGED <<plan, view, si, data, locked, cluster, req, late, counters>>

(* RAFT.SHARDGROUP REPLACE at the cluster c. Keys that are locked stay locked. *)
Replace(c) ==
    /\ view[c] # want
    /\ si' = [si EXCEPT ![c] = ReplaceShardGroups(@, Groups(want), c)]
    /\ view' = [view EXCEPT ![c] = want]
    /\ UNCHANGED <<plan, want, data, locked, cluster, req, late, counters, overtaken>>

-----------------------------------------------------------------------------
(* Clients *)

(* Mutant of KeyStatus: locked keys are like others. *)
StatusWithoutLocks(c, k) == IF ~ Exists(c, k) THEN "none" ELSE "all"

(* validateKeyExistence for a command with one key *)
KeyStatus(c, k) ==
    IF ~ Exists(c, k) THEN "none" ELSE IF k \in locked[c] THEN "locked" ELSE "all"

(* The cluster c executes a command on the key k, sent with ASKING or not. *)
Serves(c, k, asking) == Answer(si[c], slot, asking, KeyStatus(c, k)) = "ok"

(* ... or it sends the client on to the cluster that imports the slot, with ASKING. *)
Asks(c, k) == Answer(si[c], slot, FALSE, KeyStatus(c, k)) = "ask"
ServesAsked(c, k) == \E d \in Id : Asks(d, k) /\ si[d].importing[slot] = c /\ Serves(c, k, TRUE)

(* A command sets the key or, with NONE, deletes it. *)
Put(c, k, v) ==
    /\ puts < plan.puts
    /\ Serves(c, k, FALSE) \/ ServesAsked(c, k)
    /\ data' = [data EXCEPT ![c][k] = v]
    /\ puts' = puts + 1
    /\ UNCHANGED <<operator, locked, cluster, req, late, failures, overtaken>>

-----------------------------------------------------------------------------
(* Migration *)

NoRequest == [state |-> "none"]

(* The session of the request m is still the one that the operator wants. *)
IsOn(m) == want = [from |-> m.from, to |-> m.to, key |-> m.key]

(* Mutant of Migrate: keys that are locked cannot be locked again. *)
MigrateUnlocked(n, k) ==
    LET c == ClusterOf(n)
        sg == si[c].groups
        from == si[c].migrating[slot]
        to == si[c].importing[slot]
    IN  /\ leader[c] = n /\ req[n] = NoRequest
        /\ from # NONE /\ sg[from].local /\ to # NONE /\ ~ sg[to].local
        /\ Exists(c, k) /\ k \notin locked[c]
        /\ locked' = [locked EXCEPT ![c] = @ \cup {k}]
        /\ req' = [req EXCEPT ![n] =
                      [state |-> "locked", k |-> k, val |-> data[c][k], term |-> term[c],
                       key |-> SessionKey(sg[from], slot), from |-> c, to |-> to,
                       dest |-> NONE]]
        /\ UNCHANGED <<operator, data, cluster, late, counters, overtaken>>

(* handleMigrateCommand, and lockKeys at every node of the cluster. If there is no such
   key, or it cannot be migrated, the request is answered at once. *)
Migrate(n, k) ==
    LET c == ClusterOf(n)
        sg == si[c].groups
        from == si[c].migrating[slot]
        to == si[c].importing[slot]
    IN  /\ leader[c] = n /\ req[n] = NoRequest
        /\ from # NONE /\ sg[from].local /\ to # NONE /\ ~ sg[to].local
        /\ Exists(c, k)
        /\ locked' = [locked EXCEPT ![c] = @ \cup {k}]
        /\ req' = [req EXCEPT ![n] =
                      [state |-> "locked", k |-> k, val |-> data[c][k], term |-> term[c],
                       key |-> SessionKey(sg[from], slot), from |-> c, to |-> to,
                       dest |-> NONE]]
        /\ UNCHANGED <<operator, data, cluster, late, counters, overtaken>>

(* The node applies the LOCK_KEYS entry of its request, MigrateKeys, and once its link
   is connected it sends RAFT.IMPORT, transferKeys. The term is the one that the node
   knows of when it applies the entry. The link goes to the first node of the shard
   group, and on to the next one only if it cannot connect: joinLinkIdleCallback. *)
TransferKeys(n) ==
    /\ req[n].state = "locked"
    /\ \E t \in req[n].term .. term[ClusterOf(n)], i \in DOMAIN NodesOf[req[n].to] :
          /\ failures + i - 1 <= plan.failures
          /\ failures' = failures + i - 1
          /\ req' = [req EXCEPT ![n].state = "sent", ![n].term = t,
                               ![n].dest = NodesOf[req[n].to][i]]
    /\ UNCHANGED <<operator, data, locked, cluster, late, puts, overtaken>>

(* importKeys: validSlot, validSlotMigrationSessionKey, validSlotTerm *)
Accepts(c, m) ==
    LET id == si[c].importing[slot]
    IN  /\ id # NONE /\ si[c].groups[id].local
        /\ SessionKey(si[c].groups[id], slot) = m.key
        /\ si[c].max_importing_term[slot] <= m.term

(* RESTORE with REPLACE. The cluster that sent the import may have gone on since: then
   the key is not locked there any more, or the session is over. *)
ImportKeys(m) ==
    /\ Accepts(m.to, m)
    /\ data' = [data EXCEPT ![m.to][m.k] = m.val]
    /\ si' = [si EXCEPT ![m.to].max_importing_term[slot] = m.term]
    /\ overtaken' = IF IsOn(m) /\ m.k \in locked[m.from]
                    THEN overtaken ELSE overtaken \cup {m.k}

(* cmdRaftImport appends an entry at a leader only; no other node sends it on. *)
IsAppended(m) == leader[m.to] = m.dest

(* RAFT.IMPORT of the request of n is appended and applied; or it is refused, and the
   error ends the request: transferKeysResponse. *)
Import(n) ==
    /\ req[n].state = "sent"
    /\ \/ /\ IsAppended(req[n]) /\ ImportKeys(req[n])
          /\ req' = [req EXCEPT ![n].state = "imported"]
       \/ /\ ~ (IsAppended(req[n]) /\ Accepts(req[n].to, req[n]))
          /\ req' = [req EXCEPT ![n] = NoRequest]
          /\ UNCHANGED <<data, si, overtaken>>
    /\ UNCHANGED <<plan, want, view, locked, cluster, late, counters>>

(* ... or one whose link is gone. *)
ImportLate(m) ==
    /\ IsAppended(m) /\ ImportKeys(m)
    /\ late' = late \ {m}
    /\ UNCHANGED <<plan, want, view, locked, cluster, req, counters>>
Lose(m) ==
    /\ late' = late \ {m}
    /\ UNCHANGED <<operator, data, locked, cluster, req, counters, overtaken>>

(* transferKeysResponse: with raftAppendRaftUnlockDeleteEntry and unlockDeleteKeys if the
   node is leader; otherwise the request fails. *)
TransferKeysResponse(n) ==
    LET c == ClusterOf(n)
        k == req[n].k
    IN  /\ req[n].state = "imported"
        /\ req' = [req EXCEPT ![n] = NoRequest]
        /\ \/ /\ leader[c] = n
              /\ data' = [data EXCEPT ![c][k] = NONE]
              /\ locked' = [locked EXCEPT ![c] = @ \ {k}]
              /\ overtaken' = IF IsOn(req[n]) THEN overtaken
                              ELSE overtaken \cup {k}
           \/ leader[c] # n /\ UNCHANGED <<data, locked, overtaken>>
        /\ UNCHANGED <<operator, cluster, late, counters>>

(* No node can be reached, the link breaks, or a node stops or is about to hand over.
   What was sent may still arrive. *)
GiveUp(n) ==
    /\ req[n] # NoRequest /\ failures < plan.failures
    /\ failures' = failures + 1
    /\ req' = [req EXCEPT ![n] = NoRequest]
    /\ late' \in {late, late \cup {r \in {req[n]} : r.state = "sent"}}
    /\ UNCHANGED <<operator, data, locked, cluster, puts, overtaken>>

LeaderChange(c, n) ==
    /\ n \in Members(c) \ {leader[c]} /\ term[c] < plan.terms[c]
    /\ leader' = [leader EXCEPT ![c] = n]
    /\ term' = [term EXCEPT ![c] = @ + 1]
    /\ UNCHANGED <<operator, data, locked, req, late, counters, overtaken>>

-----------------------------------------------------------------------------
Init ==
    /\ plan \in Plans
    /\ want = Stable(Home) /\ view = [c \in Id |-> Stable(Home)]
    /\ si = [c \in Id |-> ReplaceShardGroups(ShardingInfoInit, Groups(Stable(Home)), c)]
    /\ data = [c \in Id |-> [k \in Key |-> IF c = Home THEN CHOOSE v \in Value : TRUE ELSE NONE]]
    /\ locked = [c \in Id |-> {}]
    /\ leader = plan.leader
    /\ term = [c \in Id |-> 1]
    /\ req = [n \in Node |-> NoRequest] /\ late = {}
    /\ puts = 0 /\ failures = 0 /\ overtaken = {}

(* What the cluster and the operator, who tries again, do for a request of the node n *)
Proceed(n) ==
    (\E k \in Key : Migrate(n, k)) \/ TransferKeys(n) \/ Import(n) \/ TransferKeysResponse(n)

Next ==
    \/ \E c \in Id : Begin(c) \/ End(c) \/ Replace(c) \/ \E n \in Node : LeaderChange(c, n)
    \/ \E c \in Id, k \in Key, v \in Value \cup {NONE} : Put(c, k, v)
    \/ \E n \in Node : Proceed(n) \/ GiveUp(n)
    \/ \E m \in late : ImportLate(m) \/ Lose(m)

(* The operator gives a configuration to all clusters, and tries a MIGRATE again that
   failed. *)
Fairness == (\A c \in Id : WF_vars(Replace(c))) /\ (\A n \in Node : WF_vars(Proceed(n)))

Spec == Init /\ [][Next]_vars /\ Fairness

-----------------------------------------------------------------------------
(* The value of a key: the cluster that gives it away decides as long as it has it. *)
CurrentValue(k) == IF Exists(want.from, k) THEN data[want.from][k] ELSE data[want.to][k]

(* However the steps of the two clusters, their leaders, the operator and the clients
   interleave, the keys of the slot behave like those of a single store: locking,
   importing, deleting and reconfiguring change no value and lose no write. Keys are
   given up when an import is applied that its cluster has gone on without, when
   DELETE_UNLOCK_KEYS is applied after the session of its import, and when the
   migration is taken back that they are part of. *)
Store == INSTANCE KeyStore WITH value <- [k \in Key |-> CurrentValue(k)]
IsKeyStore == Store!Spec

(* Wherever a client finds a key, by MOVED or by ASK, it finds the value written last:
   the two clusters never serve different copies of it. Nothing is said of the keys
   that are given up, see IsKeyStore. *)
ServedIsCurrent ==
    \A c \in Id, k \in Key \ overtaken :
        Serves(c, k, FALSE) \/ ServesAsked(c, k) => data[c][k] = CurrentValue(k)

(* A MIGRATE that fails leaves keys locked, which clients cannot use. When it is tried
   again and links and leaders stop failing, it succeeds in the end whatever happened to
   the attempts before: a migration that is not taken back moves every key, unless the
   importing cluster comes to be led by a node that its shard group does not list
   first. Every attempt goes to the first node, and the error of a follower ends it:
   behind such a leader the keys stay locked however often MIGRATE is tried. *)
KeysArrive ==
    \A c \in Id : want.from = c /\ want.to # c
                      ~> \/ want.from = want.to \/ \A k \in Key : ~ Exists(c, k)
                         \/ leader[want.to] # NodesOf[want.to][1]

(* migrate.c: RAFT.IMPORT "Imports the keys and their values while validating via term
   and session key that import is valid". Then keys need not be given up, as long as no
   migration is taken back. *)
Strict == INSTANCE KeyStore WITH value <- [k \in Key |-> CurrentValue(k)], overtaken <- {}
ImportsAreValid == Strict!Spec
=============================================================================
