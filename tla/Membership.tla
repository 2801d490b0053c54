----------------------------- MODULE Membership -----------------------------
(***************************************************************************)
(* Membership changes: RAFT.NODE ADD and REMOVE, the entries they put in   *)
(* the log, and the table of nodes that every server keeps and that        *)
(* decides who is asked for a vote and whose acknowledgement counts. An    *)
(* entry changes the table when it is appended, again when it is applied,  *)
(* and back when it is deleted; a snapshot replaces the table; a restart   *)
(* rebuilds it.                                                            *)
(*                                                                         *)
(* Abstractions. RaftServer has the messages of one configuration; here a  *)
(* request and its answer are one step, and the answer to appendentries    *)
(* may be lost. What is committed is applied at once. Logs and votes are   *)
(* durable. Prevotes, which only keep elections from starting, are left    *)
(* out. log[n] runs from index 1 also after compaction, and up to          *)
(* snapshot[n].idx it stands for what the snapshot holds.                  *)
(***************************************************************************)
EXTENDS Integers, Sequences, FiniteSets
LOCAL INSTANCE SequencesExt

CONSTANTS
    Node,
    NONE,      \* RAFT_NODE_ID_NONE
    Plans      \* bounds: the first members, and how often things happen

ASSUME NoneAssumption == NONE \notin Node
ASSUME PlanAssumption ==
    \A p \in Plans : /\ p.voters \in Nat \ {0} /\ p.learners \in Nat
                     /\ p.spares \in Nat
                     /\ p.voters + p.learners + p.spares <= Cardinality(Node)
                     /\ {p.terms, p.idx, p.changes, p.snapshots, p.restarts} \subseteq Nat

VARIABLES
    plan,
    first,         \* history: the configuration at index 1
    role,          \* "new", "follower", "leader" or "down"
    term, voted_for, log,
    commit,        \* commit_idx and last_applied_idx
    match,         \* match_idx of the other nodes, at a leader
    snapshot,      \* the last snapshot: its index, and the nodes in it
    nodes,         \* the table of nodes, and voting_cfg_change_log_idx
    decided,       \* history: the longest log that was committed, and in which term
    hasty,         \* history: a change was appended before the leader had committed
    asked,         \* history: the ids that some RAFT.NODE ADD has named
    leftover,      \* history: what explains the exceptions of the properties, per node
    changes, snapshots, restarts       \* used up of the bounds

vars == <<plan, first, role, term, voted_for, log, commit, match, snapshot, nodes,
          decided, hasty, asked, leftover, changes, snapshots, restarts>>
counters == <<plan, first, asked, changes, snapshots, restarts>>

Alive(n) == role[n] \notin {"new", "down"}
Larger(a, b) == IF a > b THEN a ELSE b
Smaller(a, b) == IF a < b THEN a ELSE b
Committed(n) == SubSeq(log[n], 1, commit[n])

-----------------------------------------------------------------------------
(* The table of nodes: the nodes in it, the flags of raft_node.c, the index of the
   voting change under way or 0, the ids that were ever used, and whether every
   assertion held. *)
Entry(t, type, id) == [term |-> t, type |-> type, id |-> id]
IsVotingChange(e) == e.type \in {"add", "remove"}

(* raft_node_is_voting: not while the node is being removed. *)
Voters(s) == s.voting \ s.inactive
IsMajority(s, votesCast) == Cardinality(votesCast) >= Cardinality(Voters(s)) \div 2 + 1

Forget(s, id) ==
    [s EXCEPT !.ids = @ \ {id}, !.voting = @ \ {id}, !.inactive = @ \ {id},
              !.added = @ \ {id}, !.confirmed = @ \ {id}, !.sufficient = @ \ {id}]

(* raft_append_entry and raft_handle_append_cfg_change *)
OnAppend(s, e, idx, self) ==
    LET t == [s EXCEPT !.change = IF IsVotingChange(e) THEN idx ELSE @]
    IN  CASE e.type = "add" ->
                 [t EXCEPT !.ids = @ \cup {e.id}, !.voting = @ \cup {e.id},
                           !.used = @ \cup {e.id},
                           !.sound = @ /\ e.id \notin Voters(s) \cup s.inactive]
          [] e.type = "add_nonvoting" /\ e.id # self ->
                 [t EXCEPT !.ids = @ \cup {e.id}, !.inactive = @ \ {e.id},
                           !.used = @ \cup {e.id},
                           !.sound = @ /\ e.id \notin Voters(s)]
          [] e.type = "remove" -> [t EXCEPT !.inactive = @ \cup ({e.id} \cap s.ids)]
          [] OTHER -> t

(* A removal that is taken back leaves the node inactive. *)
DeleteKeepsInactive(s, e, idx, self) ==
    LET t == [s EXCEPT !.change = IF @ = idx THEN 0 ELSE @]
    IN  CASE e.type = "add" -> [t EXCEPT !.voting = @ \ {e.id}]
          [] e.type = "add_nonvoting" -> Forget(t, e.id)
          [] OTHER -> t

(* raft_delete_entry_from_idx and raft_handle_remove_cfg_change, for one entry *)
OnDelete(s, e, idx, self) ==
    LET t == [s EXCEPT !.change = IF @ = idx THEN 0 ELSE @]
    IN  CASE e.type = "add" ->
                 [t EXCEPT !.voting = @ \ {e.id}, !.sound = @ /\ e.id \in s.ids]
          [] e.type = "add_nonvoting" ->
                 [Forget(t, e.id) EXCEPT !.sound = @ /\ e.id \in s.ids \ {self}]
          [] e.type = "remove" -> [t EXCEPT !.inactive = @ \ {e.id}]
          [] OTHER -> t

(* raft_apply_entry and raft_handle_apply_cfg_change *)
OnApply(s, e, idx) ==
    LET t == [s EXCEPT !.change = IF @ = idx THEN 0 ELSE @]
    IN  CASE e.type = "add" ->
                 [t EXCEPT !.added = @ \cup {e.id}, !.confirmed = @ \cup {e.id},
                           !.sufficient = @ \cup {e.id}, !.sound = @ /\ e.id \in s.ids]
          [] e.type = "add_nonvoting" ->
                 [t EXCEPT !.added = @ \cup {e.id}, !.sound = @ /\ e.id \in s.ids]
          [] e.type = "remove" -> Forget(t, e.id)
          [] OTHER -> t

(* The table once the entries of l after index `from' are appended, once they are
   deleted, last one first, and once those up to `to' are applied. *)
Appended(s, l, from, self) ==
    LET after[idx \in from .. Len(l)] ==
            IF idx = from THEN s ELSE OnAppend(after[idx - 1], l[idx], idx, self)
    IN  after[Len(l)]
Deleted(s, l, from, self) ==
    LET down[idx \in from .. Len(l)] ==
            IF idx = Len(l) THEN s ELSE OnDelete(down[idx + 1], l[idx + 1], idx + 1, self)
    IN  down[from]
Applied(s, l, from, to) ==
    LET after[idx \in from .. to] ==
            IF idx = from THEN s ELSE OnApply(after[idx - 1], l[idx], idx)
    IN  after[to]

(* raftApplyLog: a server that applies its own removal shuts down. *)
Removed(n, l, from, to) ==
    \E idx \in from + 1 .. to : l[idx].type = "remove" /\ l[idx].id = n

(* RaftLibraryInit: a server starts alone and without a vote. *)
Alone(n) ==
    [ids |-> {n}, voting |-> {}, inactive |-> {}, added |-> {}, confirmed |-> {},
     sufficient |-> {}, change |-> 0, used |-> {n}, sound |-> TRUE]

(* generateSnapshotCfgEntryList: only what is applied *)
Config(s) == [ids |-> s.added, voting |-> s.confirmed, used |-> s.used]

(* raft_begin_load_snapshot, configRaftFromSnapshotInfo, raft_end_load_snapshot on a
   server with table s. The index of a change under way is not reset. *)
Loaded(s, cfg, n) ==
    LET ids == cfg.ids \cup {n}
    IN  [ids |-> ids, voting |-> cfg.voting, inactive |-> {}, added |-> ids,
         confirmed |-> cfg.voting, sufficient |-> cfg.voting, change |-> s.change,
         used |-> cfg.used \cup {n}, sound |-> s.sound]

(* The start replays entries that are in the snapshot as well. *)
RestoredTwice(n) ==
    Appended(IF snapshot[n].idx = 0 THEN Alone(n)
             ELSE Loaded(Alone(n), snapshot[n].cfg, n), log[n], 0, n)

(* The table that the next start builds: the snapshot, if there is one, then every
   entry of the log (raft_restore_snapshot, raft_restore_log). *)
Restored(n) ==
    Appended(IF snapshot[n].idx = 0 THEN Alone(n)
             ELSE Loaded(Alone(n), snapshot[n].cfg, n),
             log[n], snapshot[n].idx, n)

-----------------------------------------------------------------------------
(* What server n becomes: its log is l, its table s, and it has applied the entries
   up to k. It stops when it applied its removal or an assertion failed. *)
Server(n, l, s, k, r) ==
    LET t == Applied(s, l, commit[n], k)
    IN  [log |-> l, nodes |-> t, commit |-> k,
         role |-> IF Removed(n, l, commit[n], k) \/ ~ t.sound THEN "down" ELSE r]

Update(n, v) ==
    /\ log' = [log EXCEPT ![n] = v.log] /\ nodes' = [nodes EXCEPT ![n] = v.nodes]
    /\ commit' = [commit EXCEPT ![n] = v.commit] /\ role' = [role EXCEPT ![n] = v.role]

(* raft_append_entry at leader n *)
WithEntry(n, type, id) ==
    LET l == Append(log[n], Entry(term[n], type, id))
    IN  [l |-> l, s |-> OnAppend(nodes[n], l[Len(l)], Len(l), n)]

(* A leader has committed l. *)
Decide(l, t) ==
    decided' = IF Len(l) > Len(decided.log) THEN [log |-> l, term |-> t] ELSE decided

NoMatch == [p \in Node |-> 0]

(* raft_set_current_term *)
VoteIn(n, t) == IF term[n] < t THEN NONE ELSE voted_for[n]

-----------------------------------------------------------------------------
(* Elections *)

(* raft_periodic and raft_become_leader: a server that is the only voter makes itself
   leader, and commits its NO_OP. *)
LeadAlone(n) ==
    LET l == Append(log[n], Entry(term[n] + 1, "noop", NONE))
    IN  /\ role[n] = "follower" /\ Voters(nodes[n]) = {n}
        /\ term[n] < plan.terms /\ Len(l) <= plan.idx
        /\ term' = [term EXCEPT ![n] = @ + 1]
        /\ voted_for' = [voted_for EXCEPT ![n] = NONE]
        /\ Update(n, Server(n, l, nodes[n], Len(l), "leader"))
        /\ Decide(l, term[n] + 1)
        /\ UNCHANGED <<match, snapshot, hasty, leftover, counters>>

LastTerm(l) == IF l = << >> THEN 0 ELSE l[Len(l)].term

(* raft_recv_requestvote at p, for candidate n in term t *)
Grants(p, n, t) ==
    /\ Alive(p) /\ term[p] <= t /\ VoteIn(p, t) \in {NONE, n}
    /\ \/ LastTerm(log[n]) > LastTerm(log[p])
       \/ LastTerm(log[n]) = LastTerm(log[p]) /\ Len(log[n]) >= Len(log[p])

(* raft_become_candidate in term t, after elections perhaps that came to nothing; the
   servers in Q, which n believes to be voters, vote for it; raft_become_leader. Any
   server may be a candidate: it counts its own vote, and gives it, only if its table
   says it has one. A leader was without a quorum first. *)
Elect(n, t, Q) ==
    LET mine == {n} \cap Voters(nodes[n])
        l == Append(log[n], Entry(t, "noop", NONE))
    IN  /\ Alive(n) /\ t > term[n] /\ Len(l) <= plan.idx
        /\ Q # {} /\ n \notin Q
        /\ IsMajority(nodes[n], Q \cup mine)
        /\ \A p \in Q : Grants(p, n, t) /\ (term[p] = t => role[p] = "follower")
        /\ term' = [p \in Node |-> IF p \in Q \cup {n} THEN t ELSE term[p]]
        /\ voted_for' = [p \in Node |-> IF p \in Q \cup mine THEN n
                                        ELSE IF p = n THEN NONE ELSE voted_for[p]]
        /\ role' = [p \in Node |-> IF p = n THEN "leader"
                                   ELSE IF p \in Q THEN "follower" ELSE role[p]]
        /\ log' = [log EXCEPT ![n] = l]
        /\ match' = [p \in Node |-> IF p \in Q \cup {n} THEN NoMatch ELSE match[p]]
        /\ UNCHANGED <<commit, snapshot, nodes, decided, hasty, leftover, counters>>

(* Servers p and n are candidates in the same term t and n asks p for its vote. "It
   shouldn't be possible for a leader or candidate to grant a vote": it is, for one
   without a vote of its own, and the assertion stops it. *)
AbortOnVote(p, n, t) ==
    /\ Alive(p) /\ Alive(n) /\ t > term[n] /\ t > term[p]
    /\ p \notin Voters(nodes[p]) /\ Voters(nodes[p]) # {}
    /\ p \in Voters(nodes[n]) \ {n} /\ Grants(p, n, t)
    /\ term' = [term EXCEPT ![p] = t, ![n] = t]
    /\ voted_for' = [voted_for EXCEPT ![p] = NONE,
                                      ![n] = IF n \in Voters(nodes[n]) THEN n ELSE NONE]
    /\ role' = [role EXCEPT ![p] = "down", ![n] = "follower"]
    /\ match' = [match EXCEPT ![p] = NoMatch, ![n] = NoMatch]
    /\ nodes' = [nodes EXCEPT ![p].sound = FALSE]
    /\ leftover' = [leftover EXCEPT ![p] = @ \cup {"vote"}]
    /\ UNCHANGED <<log, commit, snapshot, decided, hasty, counters>>

-----------------------------------------------------------------------------
(* The leader *)

(* The leader has not committed an entry of its own term yet. *)
NotYetCommitted(n) == commit[n] = 0 \/ log[n][commit[n]].term < term[n]

(* A second change is accepted while one is under way. *)
NodeRemoveAnytime(n, id) ==
    LET v == WithEntry(n, "remove", id)
    IN  /\ role[n] = "leader" /\ changes < plan.changes /\ Len(log[n]) < plan.idx
        /\ id \in nodes[n].ids
        /\ Update(n, Server(n, v.l, v.s, commit[n],
                            IF id = n /\ Voters(v.s) = {} THEN "down" ELSE "leader"))
        /\ hasty' = (hasty \/ NotYetCommitted(n))
        /\ changes' = changes + 1
        /\ UNCHANGED <<plan, first, asked, term, voted_for, match, snapshot, decided,
                       leftover, snapshots, restarts>>

(* RAFT.NODE REMOVE: refused while a voting change is under way (raft_recv_entry). A
   leader that removes the last voter, itself, shuts down at once. *)
NodeRemove(n, id) ==
    LET v == WithEntry(n, "remove", id)
    IN  /\ role[n] = "leader" /\ changes < plan.changes /\ Len(log[n]) < plan.idx
        /\ id \in nodes[n].ids /\ nodes[n].change = 0
        /\ Update(n, Server(n, v.l, v.s, commit[n],
                            IF id = n /\ Voters(v.s) = {} THEN "down" ELSE "leader"))
        /\ hasty' = (hasty \/ NotYetCommitted(n))
        /\ changes' = changes + 1
        /\ UNCHANGED <<plan, first, asked, term, voted_for, match, snapshot, decided,
                       leftover, snapshots, restarts>>

(* RAFT.NODE ADD, with an id that this leader does not know as used: a learner, which
   needs no majority and may be added during another change. The node that asks has
   not joined, or asks again for the id that it is configured with. *)
NodeAdd(n, id) ==
    LET v == WithEntry(n, "add_nonvoting", id)
    IN  /\ role[n] = "leader" /\ changes < plan.changes /\ Len(log[n]) < plan.idx
        /\ role[id] = "new" \/ id \in asked
        /\ id \notin nodes[n].used
        /\ Update(n, Server(n, v.l, v.s, commit[n], "leader"))
        /\ changes' = changes + 1
        /\ asked' = asked \cup {id}
        /\ leftover' = [leftover EXCEPT ![id] =
                            IF id \in asked THEN @ \cup {"twice"} ELSE @]
        /\ UNCHANGED <<plan, first, term, voted_for, match, snapshot, decided, hasty,
                       snapshots, restarts>>

(* The answer to RAFT.NODE ADD, once it is applied, lets the new node start. *)
Join(n) ==
    /\ role[n] = "new"
    /\ \E p \in Node : \E idx \in 1 .. commit[p] :
          log[p][idx].type = "add_nonvoting" /\ log[p][idx].id = n
    /\ role' = [role EXCEPT ![n] = "follower"]
    /\ UNCHANGED <<term, voted_for, log, commit, match, snapshot, nodes, decided, hasty,
                   leftover, counters>>

(* raft_flush: commit what a majority of the voters has, the leader itself, whose log
   is synced, only if it has a vote; apply it. *)
QuorumIdx(n) ==
    LET V == Voters(nodes[n])
        reached == {k \in 0 .. Len(log[n]) :
                       IsMajority(nodes[n], {p \in V : p = n \/ match[n][p] >= k})}
    IN  IF V = {} THEN 0 ELSE CHOOSE k \in reached : \A j \in reached : j <= k

Flush(n) ==
    LET k == QuorumIdx(n)
    IN  /\ role[n] = "leader"
        /\ k > commit[n] /\ log[n][k].term = term[n]
        /\ Update(n, Server(n, log[n], nodes[n], k, "leader"))
        /\ Decide(SubSeq(log[n], 1, k), term[n])
        /\ UNCHANGED <<term, voted_for, match, snapshot, hasty, leftover, counters>>

(* RAFT.NODESHUTDOWN, from the leader that applied the removal *)
NodeShutdown(n) ==
    /\ Alive(n)
    /\ \E p \in Node : Removed(n, log[p], 0, commit[p])
    /\ role' = [role EXCEPT ![n] = "down"]
    /\ UNCHANGED <<term, voted_for, log, commit, match, snapshot, nodes, decided, hasty,
                   leftover, counters>>

-----------------------------------------------------------------------------
(* Replication *)

Sends(n, p) == /\ role[n] = "leader" /\ p \in nodes[n].ids \ (nodes[n].inactive \cup {n})
               /\ Alive(p) /\ term[p] <= term[n]

(* raft_accept_leader, and the term of the request *)
FollowsIn(p, t) ==
    /\ term' = [term EXCEPT ![p] = t]
    /\ voted_for' = [voted_for EXCEPT ![p] = VoteIn(p, t)]

Agree(a, b, k) == Len(a) >= k /\ Len(b) >= k /\ SubSeq(a, 1, k) = SubSeq(b, 1, k)

(* The promotions that p deletes with its entries after index k: the nodes stay
   flagged as having sufficient logs. *)
TakenBack(p, k) ==
    {log[p][idx].id : idx \in {x \in k + 1 .. Len(log[p]) : log[p][x].type = "add"}}

(* raft_recv_appendentries_response at leader n, for node p that has the entries up
   to k: a learner that has caught up is promoted (raftNodeHasSufficientLogs). *)
Promotes(n, p, k) ==
    LET s == nodes[n]
    IN  /\ p \notin Voters(s) /\ s.change = 0 /\ Len(log[n]) <= k + 1
        /\ p \in s.added \ s.confirmed /\ p \notin s.sufficient

(* raft_recv_appendentries at p, with the entries of leader n up to index k. Entries
   that differ are deleted with everything after them. The leader finds the place to
   send from by going backwards, so that it sends the first entry that differs. *)
Replicate(n, p, k, answered) ==
    LET same == CHOOSE x \in 0 .. k : /\ Agree(log[n], log[p], x)
                                      /\ x < k => ~ Agree(log[n], log[p], x + 1)
        l == IF same = k THEN log[p] ELSE SubSeq(log[n], 1, k)
        s == IF same = k THEN nodes[p]
             ELSE Appended(Deleted(nodes[p], log[p], same, p), l, same, p)
        f == Server(p, l, s, Larger(commit[p], Smaller(Len(l), commit[n])), "follower")
        promoted == answered /\ Promotes(n, p, k)
        a == WithEntry(n, "add", p)
        t == [a.s EXCEPT !.sufficient = @ \cup {p},
                         !.sound = @ /\ p \notin nodes[n].inactive]
        sound == promoted => t.sound
    IN  /\ Sends(n, p) /\ k \in snapshot[n].idx .. Len(log[n])
        /\ Agree(log[n], log[p], snapshot[n].idx)
        /\ IF promoted THEN Len(log[n]) < plan.idx ELSE answered \/ Promotes(n, p, k)
        /\ same >= commit[p] /\ (same < k \/ IsPrefix(log[p], log[n]))
        /\ FollowsIn(p, term[n])
        /\ role' = [role EXCEPT ![p] = f.role, ![n] = IF sound THEN @ ELSE "down"]
        /\ log' = [log EXCEPT ![p] = f.log, ![n] = IF promoted THEN a.l ELSE @]
        /\ nodes' = [nodes EXCEPT ![p] = f.nodes, ![n] = IF promoted THEN t ELSE @]
        /\ commit' = [commit EXCEPT ![p] = f.commit]
        /\ match' = [match EXCEPT ![p] = NoMatch,
                                  ![n][p] = IF answered THEN Larger(@, k) ELSE @]
        /\ hasty' = (hasty \/ (promoted /\ NotYetCommitted(n)))
        /\ leftover' = [leftover EXCEPT ![p] =
                            IF same = k THEN @ ELSE @ \cup TakenBack(p, same)]
        /\ UNCHANGED <<snapshot, decided, counters>>

(* The entry before those that are sent differs: it and what follows is deleted. *)
Mismatch(n, p, k) ==
    /\ Sends(n, p) /\ k > commit[p] /\ k >= snapshot[n].idx
    /\ k <= Len(log[n]) /\ k <= Len(log[p]) /\ log[n][k].term # log[p][k].term
    /\ FollowsIn(p, term[n])
    /\ role' = [role EXCEPT ![p] = "follower"]
    /\ nodes' = [nodes EXCEPT ![p] = Deleted(@, log[p], k - 1, p)]
    /\ log' = [log EXCEPT ![p] = SubSeq(@, 1, k - 1)]
    /\ leftover' = [leftover EXCEPT ![p] = @ \cup TakenBack(p, k - 1)]
    /\ match' = [match EXCEPT ![p] = NoMatch]
    /\ UNCHANGED <<commit, snapshot, decided, hasty, counters>>

(* raft_begin_snapshot to raft_end_snapshot; changes of voters that come in between are
   refused. *)
TakeSnapshot(n) ==
    /\ Alive(n) /\ snapshots < plan.snapshots
    /\ commit[n] > snapshot[n].idx
    /\ snapshot' = [snapshot EXCEPT ![n] = [idx |-> commit[n], cfg |-> Config(nodes[n])]]
    /\ snapshots' = snapshots + 1
    /\ UNCHANGED <<plan, first, asked, role, term, voted_for, log, commit, match, nodes,
                   decided, hasty, leftover, changes, restarts>>

(* raft_recv_snapshot at p *)
SendSnapshot(n, p) ==
    LET s == snapshot[n]
    IN  /\ Sends(n, p) /\ s.idx > Len(log[p])
        /\ FollowsIn(p, term[n])
        /\ role' = [role EXCEPT ![p] = "follower"]
        /\ log' = [log EXCEPT ![p] = SubSeq(log[n], 1, s.idx)]
        /\ commit' = [commit EXCEPT ![p] = s.idx]
        /\ snapshot' = [snapshot EXCEPT ![p] = s]
        /\ nodes' = [nodes EXCEPT ![p] = Loaded(@, s.cfg, p)]
        /\ leftover' = [leftover EXCEPT ![p] =
                            IF nodes[p].change # 0 THEN @ \cup {"change"} ELSE @ \ Node]
        /\ match' = [match EXCEPT ![p] = NoMatch]
        /\ UNCHANGED <<decided, hasty, counters>>

(* The process stops and starts again. *)
Restart(n) ==
    /\ Alive(n) /\ restarts < plan.restarts
    /\ restarts' = restarts + 1
    /\ role' = [role EXCEPT ![n] = "follower"] /\ match' = [match EXCEPT ![n] = NoMatch]
    /\ nodes' = [nodes EXCEPT ![n] = Restored(n)]
    /\ commit' = [commit EXCEPT ![n] = snapshot[n].idx]
    /\ leftover' = [leftover EXCEPT ![n] = @ \cap {"twice"}]
    /\ UNCHANGED <<plan, first, asked, term, voted_for, log, snapshot, decided, hasty,
                   changes, snapshots>>

-----------------------------------------------------------------------------
(* A cluster that has compacted its log: every member started from the same
   snapshot, and one of the voters leads. *)
Init ==
    /\ plan \in Plans
    /\ \E voters, learners, spares \in SUBSET Node : \E leader \in voters :
          LET members == voters \cup learners
              cfg == [ids |-> members, voting |-> voters, used |-> members]
          IN  /\ first = cfg
              /\ voters \cap learners = {} /\ spares \cap members = {}
              /\ Cardinality(voters) = plan.voters /\ Cardinality(learners) = plan.learners
              /\ Cardinality(spares) = plan.spares
              /\ role = [n \in Node |-> CASE n = leader -> "leader"
                                          [] n \in members \ {leader} -> "follower"
                                          [] n \in spares -> "new"
                                          [] OTHER -> "down"]
              /\ match = [n \in Node |->
                              [p \in Node |-> IF n = leader /\ p \in members \ {n} THEN 1
                                              ELSE 0]]
              /\ voted_for = [n \in Node |-> IF n \in voters THEN leader ELSE NONE]
              /\ term = [n \in Node |-> IF n \in members THEN 1 ELSE 0]
              /\ log = [n \in Node |-> IF n \in members THEN <<Entry(1, "noop", NONE)>>
                                                        ELSE << >>]
              /\ snapshot = [n \in Node |-> [idx |-> Len(log[n]), cfg |-> cfg]]
              /\ nodes = [n \in Node |-> IF n \in members
                                         THEN Loaded(Alone(n), cfg, n) ELSE Alone(n)]
    /\ commit = [n \in Node |-> Len(log[n])]
    /\ decided = [log |-> <<Entry(1, "noop", NONE)>>, term |-> 1]
    /\ hasty = FALSE /\ asked = {} /\ leftover = [n \in Node |-> {}]
    /\ changes = 0 /\ snapshots = 0 /\ restarts = 0

Step(n) ==
    \/ LeadAlone(n) \/ Flush(n) \/ Join(n) \/ NodeShutdown(n)
    \/ TakeSnapshot(n) \/ Restart(n)
    \/ \E t \in 1 .. plan.terms, Q \in SUBSET Voters(nodes[n]) : Elect(n, t, Q)
    \/ \E id \in Node : NodeRemove(n, id) \/ NodeAdd(n, id)

Exchange(n, p) ==
    \/ \E t \in 1 .. plan.terms : AbortOnVote(n, p, t)
    \/ \E k \in 1 .. plan.idx, answered \in BOOLEAN : Replicate(n, p, k, answered)
    \/ \E k \in 1 .. plan.idx : Mismatch(n, p, k)
    \/ SendSnapshot(n, p)

Next == \E n \in Node : Step(n) \/ \E p \in Node \ {n} : Exchange(n, p)

Spec == Init /\ [][Next]_vars

-----------------------------------------------------------------------------
(* What a leader commits is never lost, whatever nodes are added and removed, restart
   and elect each other meanwhile: leaders of that term and later ones have it, and no
   server applies anything else. docs/Introduction.md says that configuration changes
   "will never violate consensus". *)
NeverViolatesConsensus ==
    \A n \in Node :
        /\ IsPrefix(Committed(n), decided.log)
        /\ role[n] = "leader" /\ term[n] >= decided.term => IsPrefix(decided.log, log[n])

(* The same, as long as no leader changed the voters before it had committed an entry
   of its own term, which nothing in raft_recv_entry and checkLeader prevents. *)
ConsensusUnlessHasty == hasty \/ NeverViolatesConsensus

(* Where the log of n says something of node id: the entries that make it a member,
   give it a vote, and remove it. *)
Says(n, id, types) ==
    {idx \in 1 .. Len(log[n]) : \/ log[n][idx].type \in types /\ log[n][idx].id = id
                                \/ idx = 1 /\ id \in first.ids /\ "add_nonvoting" \in types
                                \/ idx = 1 /\ id \in first.voting /\ types = {"add"}}
SoFar(n, idxs) == \E idx \in idxs : idx <= commit[n]

(* Whatever was appended, deleted, applied, loaded from a snapshot and replayed, the
   table of a server says what its log says: the nodes in it are those added and not
   yet removed, the flags follow the entries appended and applied. A change under way
   is one that is in the log and not applied, and if there is none, then what is not
   applied here is committed elsewhere. Two exceptions: a server that loads a snapshot
   keeps the index of a change that is gone, and one that deletes a promotion keeps
   the learner marked as promoted. *)
NodesFollowLog ==
    \A n \in Node : Alive(n) =>
        LET s == nodes[n]
            pending == {idx \in commit[n] + 1 .. Len(log[n]) : IsVotingChange(log[n][idx])}
        IN  /\ \A id \in Node :
                  LET member == Says(n, id, {"add", "add_nonvoting"})
                      vote == Says(n, id, {"add"})
                      removal == Says(n, id, {"remove"})
                      known == member # {} /\ ~ SoFar(n, removal)
                  IN  /\ id \in s.voting <=> known /\ vote # {}
                      /\ id \in s.confirmed <=> known /\ SoFar(n, vote)
                      /\ id \in s.inactive <=> known /\ removal # {}
                      /\ id # n => (id \in s.ids <=> known)
                      /\ id # n => (id \in s.added <=> known /\ SoFar(n, member))
                      /\ id \in s.sufficient => id \in s.voting \cup leftover[n]
            /\ s.change # 0 => s.change \in pending \/ "change" \in leftover[n]
            /\ s.change = 0 => \A idx \in pending :
                   idx <= Len(decided.log) /\ decided.log[idx] = log[n][idx]

(* The assertions on the way of a configuration entry hold: nodes are not added twice,
   and are in the table when they are promoted, applied or taken out. Two exceptions:
   a candidate without a vote of its own may grant one, and a new node may have to
   delete the entry that adds itself, if two leaders were asked to add it. *)
AssertionsHold ==
    \A n \in Node : nodes[n].sound \/ leftover[n] \cap {"vote", "twice"} # {}
=============================================================================
