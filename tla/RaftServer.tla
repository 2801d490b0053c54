----------------------------- MODULE RaftServer -----------------------------
(***************************************************************************)
(* The Raft library (src/deps/raft/src/raft_server.c) on a fixed set of    *)
(* voting nodes, used the way RedisRaft uses it: auto flush off, so that   *)
(* entries are sent and committed by raft_flush(), called before the event *)
(* loop sleeps; logs and metadata on disk; processes that crash and start  *)
(* again; a network that loses, delays and reorders.                       *)
(*                                                                         *)
(* Abstractions:                                                           *)
(*  - An entry is its term. log[i] runs from index 1 also after compaction *)
(*    and stands for the state that the snapshot holds; entries up to      *)
(*    base[i] are no longer in the log itself.                             *)
(*  - Timers may expire at any time. leader_id is left out: it says where   *)
(*    to redirect clients, and takes part in one decision only, that on a  *)
(*    prevote, which depends on a timer as well.                           *)
(*  - Message ids are left out. Their check only discards responses, which *)
(*    the network may do too.                                              *)
(*  - What a node that is not leader remembers about its peers, and votes  *)
(*    that no longer count, are forgotten: the code resets both before it  *)
(*    reads them again.                                                    *)
(*  - Applying entries has no effect on the server; the committed prefix   *)
(*    stands for the state machine.                                        *)
(***************************************************************************)
EXTENDS Integers, Sequences, FiniteSets

CONSTANTS
    Node,
    NONE,              \* RAFT_NODE_ID_NONE
    MaxBatch,          \* entries that fit in one message (append-req-max-size)
    CrashKinds,        \* "process": it is killed; "power": the machine stops
    MaxTerm, MaxIndex, \* bounds: terms and log indexes
    MaxInflight,       \* bound: messages under way
    MaxTimeouts,       \* bound: timers that expire
    MaxHeldBack,       \* bound: times that backpressure stops a send
    MaxCrashes,        \* bound: crashes
    MaxSnapshots       \* bound: snapshots taken

ASSUME NodeAssumption == IsFiniteSet(Node) /\ Cardinality(Node) > 1
ASSUME NoneAssumption == NONE \notin Node
ASSUME BatchAssumption == MaxBatch \in Nat \ {0}
ASSUME CrashAssumption == CrashKinds \subseteq {"process", "power"}
ASSUME BoundsAssumption ==
    {MaxTerm, MaxIndex, MaxInflight, MaxTimeouts, MaxHeldBack, MaxCrashes,
     MaxSnapshots} \subseteq Nat

VARIABLES
    state,             \* follower, precandidate, candidate or leader
    current_term, voted_for,       \* also on disk: raftPersistMetadata
    votes,             \* peers flagged RAFT_NODE_VOTED_FOR_ME
    log,
    durable,           \* length of the prefix of the log that fsync() put on disk
    written,           \* length of the prefix that write() gave to the kernel
    base,              \* log_impl->first_idx() - 1
    snapshot_last_idx,
    next_snapshot,     \* next_snapshot_last_idx while one is created, else 0
    commit_idx,
    next_idx, match_idx,           \* the leader's view, per peer
    msgs,              \* messages under way
    timeouts, crashes, snapshots, heldback

metadata == <<current_term, voted_for>>
role == <<state, votes>>
peers == <<next_idx, match_idx>>
storage == <<log, durable, written, base, snapshot_last_idx, next_snapshot>>
counters == <<timeouts, crashes, snapshots>>
bounds == <<counters, heldback>>
vars == <<metadata, role, peers, storage, commit_idx, msgs, bounds>>

-----------------------------------------------------------------------------
Peers(i) == Node \ {i}
Majority == Cardinality(Node) \div 2 + 1
Min(a, b) == IF a < b THEN a ELSE b
Max(a, b) == IF a > b THEN a ELSE b
TermAt(l, idx) == IF idx = 0 THEN 0 ELSE l[idx]
LastTerm(l) == TermAt(l, Len(l))
IsPrefixOf(s, l) == Len(s) <= Len(l) /\ \A k \in 1 .. Len(s) : s[k] = l[k]

(* The message m, if any, is taken from the network; of those in out, some are
   delivered later and the others are lost. *)
Exchange(taken, out) ==
    \E sent \in SUBSET out :
        /\ msgs' = (msgs \ taken) \cup sent
        /\ Cardinality(msgs') <= MaxInflight

TimerExpires ==
    /\ timeouts < MaxTimeouts
    /\ timeouts' = timeouts + 1
    /\ UNCHANGED <<crashes, snapshots>>

(* Mutant of Synced: flushed to the kernel, not synced. *)
OnlyFlushed(i, k) ==
    /\ durable' = [durable EXCEPT ![i] = Min(@, k)]
    /\ written' = [written EXCEPT ![i] = k]

(* log_impl->sync: the log, which has k entries, is on disk. *)
Synced(i, k) ==
    /\ durable' = [durable EXCEPT ![i] = k]
    /\ written' = [written EXCEPT ![i] = k]

(* Mutant of BecomeFollower: the vote is reset although the term is the same. *)
ForgetsVote(i, t) ==
    /\ current_term' = [current_term EXCEPT ![i] = t]
    /\ voted_for' = [voted_for EXCEPT ![i] = NONE]
    /\ state' = [state EXCEPT ![i] = "follower"]
    /\ votes' = [votes EXCEPT ![i] = {}]
    /\ next_idx' = [next_idx EXCEPT ![i] = [p \in Node |-> 1]]
    /\ match_idx' = [match_idx EXCEPT ![i] = [p \in Node |-> 0]]

(* raft_set_current_term, followed by raft_become_follower or by
   raft_accept_leader: node i is a follower in term t. *)
BecomeFollower(i, t) ==
    /\ current_term' = [current_term EXCEPT ![i] = t]
    /\ voted_for' = [voted_for EXCEPT ![i] = IF t > current_term[i] THEN NONE ELSE @]
    /\ state' = [state EXCEPT ![i] = "follower"]
    /\ votes' = [votes EXCEPT ![i] = {}]
    /\ next_idx' = [next_idx EXCEPT ![i] = [p \in Node |-> 1]]
    /\ match_idx' = [match_idx EXCEPT ![i] = [p \in Node |-> 0]]

-----------------------------------------------------------------------------
(* Sending entries. A leader's state when it sends: term t, log l, commit index
   c, snapshot index s. *)
View(i) == [t |-> current_term[i], l |-> log[i], c |-> commit_idx[i],
            s |-> snapshot_last_idx[i]]

AppendReq(i, p, v, prev) ==
    [type |-> "appendentries", from |-> i, to |-> p, term |-> v.t, prev_idx |-> prev,
     prev_term |-> TermAt(v.l, prev), leader_commit |-> v.c,
     entries |-> SubSeq(v.l, prev + 1, Min(prev + MaxBatch, Len(v.l)))]

SnapshotReq(i, p, v) ==
    [type |-> "snapshot", from |-> i, to |-> p, term |-> v.t,
     snapshot |-> SubSeq(v.l, 1, v.s)]

(* raft_send_appendentries: a peer that needs entries the snapshot covers gets
   the snapshot. Otherwise the loop sends one message, or as many as the entries
   need, but stops after k of them when the peer is behind with its responses.
   next_idx moves on without waiting for an answer. *)
Needed(v, next) ==
    IF v.s >= next \/ next > Len(v.l) THEN 1 ELSE (Len(v.l) - next) \div MaxBatch + 1
Sent(i, p, v, next, k) ==
    IF v.s >= next
    THEN {SnapshotReq(i, p, v) : b \in 1 .. k}
    ELSE {AppendReq(i, p, v, next - 1 + (b - 1) * MaxBatch) : b \in 1 .. k}
NextAfter(v, next, k) ==
    IF v.s >= next
    THEN IF k = 0 THEN next ELSE v.s + 1
    ELSE Min(next + k * MaxBatch, Len(v.l) + 1)

(* ... to the peers in P, whose next indexes are given by next. *)
SendAppendEntries(i, P, v, next, taken) ==
    \E k \in [P -> 0 .. MaxIndex] :
        /\ \A p \in P : k[p] <= Needed(v, next[p])
        /\ heldback' = heldback + Cardinality({p \in P : k[p] < Needed(v, next[p])})
        /\ heldback' <= MaxHeldBack
        /\ next_idx' = [next_idx EXCEPT ![i] =
               [p \in Node |-> IF p \in P THEN NextAfter(v, next[p], k[p])
                                          ELSE next[p]]]
        /\ Exchange(taken, UNION {Sent(i, p, v, next[p], k[p]) : p \in P})

-----------------------------------------------------------------------------
(* Elections *)

VoteReq(i, p, prevote, t) ==
    [type |-> "requestvote", from |-> i, to |-> p, prevote |-> prevote, term |-> t,
     last_idx |-> Len(log[i]), last_term |-> LastTerm(log[i])]

(* raft_become_precandidate, from raft_periodic when the election timer fires *)
ElectionTimeout(i) ==
    /\ state[i] # "leader" /\ TimerExpires
    /\ current_term[i] < MaxTerm
    /\ state' = [state EXCEPT ![i] = "precandidate"]
    /\ votes' = [votes EXCEPT ![i] = {}]
    /\ Exchange({}, {VoteReq(i, p, TRUE, current_term[i] + 1) : p \in Peers(i)})
    /\ UNCHANGED <<metadata, peers, storage, commit_idx, heldback>>

(* raft_become_candidate *)
BecomeCandidate(i, taken) ==
    LET t == current_term[i] + 1
    IN  /\ t <= MaxTerm
        /\ current_term' = [current_term EXCEPT ![i] = t]
        /\ voted_for' = [voted_for EXCEPT ![i] = i]
        /\ state' = [state EXCEPT ![i] = "candidate"]
        /\ votes' = [votes EXCEPT ![i] = {}]
        /\ Exchange(taken, {VoteReq(i, p, FALSE, t) : p \in Peers(i)})
        /\ UNCHANGED <<peers, storage, commit_idx, bounds>>

(* raft_become_leader: append a NO_OP, sync the log, start over with the peers. *)
BecomeLeader(i, taken, voters) ==
    LET l == Append(log[i], current_term[i])
    IN  /\ Len(l) <= MaxIndex
        /\ log' = [log EXCEPT ![i] = l]
        /\ Synced(i, Len(l))
        /\ state' = [state EXCEPT ![i] = "leader"]
        /\ votes' = [votes EXCEPT ![i] = voters]
        /\ match_idx' = [match_idx EXCEPT ![i] =
                             [p \in Node |-> IF p = i THEN Len(l) ELSE 0]]
        /\ SendAppendEntries(i, Peers(i), [View(i) EXCEPT !.l = l],
                             [p \in Node |-> IF p = i THEN 1 ELSE Len(l)], taken)
        /\ UNCHANGED <<metadata, base, snapshot_last_idx, next_snapshot, commit_idx,
                       counters>>

(* raft_recv_requestvote: the conditions after the term has been dealt with; t
   and v are the receiver's term and vote at that point. *)
Grants(i, m, t, v) ==
    /\ t <= m.term
    /\ t = m.term => v \in {NONE, m.from}
    /\ \/ m.last_term > LastTerm(log[i])
       \/ m.last_term = LastTerm(log[i]) /\ m.last_idx >= Len(log[i])

VoteResp(m, t, granted) ==
    [type |-> "requestvote_resp", from |-> m.to, to |-> m.from,
     prevote |-> m.prevote, request_term |-> m.term, term |-> t, granted |-> granted]

(* A prevote changes nothing. It is also refused while another leader was heard
   of within the election timeout, which `recent' decides. *)
RecvPrevote(m) ==
    LET i == m.to
    IN  /\ m.type = "requestvote" /\ m.prevote
        /\ \E recent \in BOOLEAN :
              Exchange({m}, {VoteResp(m, current_term[i],
                     ~ recent /\ Grants(i, m, current_term[i], voted_for[i]))})
        /\ UNCHANGED <<metadata, role, peers, storage, commit_idx, bounds>>

VoteAfterTerm(i, t) == IF t > current_term[i] THEN NONE ELSE voted_for[i]

RecvRequestVote(m) ==
    LET i == m.to
        t == Max(current_term[i], m.term)
        granted == Grants(i, m, t, VoteAfterTerm(i, t))
    IN  /\ m.type = "requestvote" /\ ~ m.prevote
        /\ IF t > current_term[i]
           THEN /\ state' = [state EXCEPT ![i] = "follower"]
                /\ votes' = [votes EXCEPT ![i] = {}]
                /\ next_idx' = [next_idx EXCEPT ![i] = [p \in Node |-> 1]]
                /\ match_idx' = [match_idx EXCEPT ![i] = [p \in Node |-> 0]]
           ELSE UNCHANGED <<state, votes, peers>>
        /\ current_term' = [current_term EXCEPT ![i] = t]
        /\ voted_for' = [voted_for EXCEPT ![i] =
                             IF granted THEN m.from ELSE VoteAfterTerm(i, t)]
        /\ Exchange({m}, {VoteResp(m, t, granted)})
        /\ UNCHANGED <<storage, commit_idx, bounds>>

(* raft_recv_requestvote_response with a higher term, and the responses to
   appendentries and snapshot, which only a leader looks at. *)
RecvHigherTerm(m) ==
    LET i == m.to
    IN  /\ \/ m.type = "requestvote_resp"
           \/ m.type \in {"appendentries_resp", "snapshot_resp"} /\ state[i] = "leader"
        /\ m.term > current_term[i]
        /\ BecomeFollower(i, m.term)
        /\ Exchange({m}, {})
        /\ UNCHANGED <<storage, commit_idx, bounds>>

(* raft_recv_requestvote_response *)
RecvVoteResponse(m) ==
    LET i == m.to
        counted == votes[i] \cup {m.from}
        won == Cardinality(counted) + 1 >= Majority
        current == IF m.prevote
                   THEN state[i] = "precandidate" /\ m.request_term = current_term[i] + 1
                   ELSE state[i] = "candidate" /\ m.request_term = current_term[i]
    IN  /\ m.type = "requestvote_resp"
        /\ m.term <= current_term[i] /\ current /\ m.granted
        /\ \/ /\ ~ won
              /\ votes' = [votes EXCEPT ![i] = counted]
              /\ Exchange({m}, {})
              /\ UNCHANGED <<metadata, state, peers, storage, commit_idx,
                             bounds>>
           \/ won /\ m.prevote /\ BecomeCandidate(i, {m})
           \/ won /\ ~ m.prevote /\ BecomeLeader(i, {m}, counted)

(* raft_periodic on a leader: the heartbeat; and the check that a quorum still
   answers, whose failure makes it a follower. *)
Heartbeat(i) ==
    /\ state[i] = "leader" /\ TimerExpires
    /\ SendAppendEntries(i, Peers(i), View(i), next_idx[i], {})
    /\ UNCHANGED <<metadata, role, match_idx, storage, commit_idx>>

QuorumLost(i) ==
    /\ state[i] = "leader" /\ TimerExpires
    /\ BecomeFollower(i, current_term[i])
    /\ UNCHANGED <<storage, commit_idx, msgs, heldback>>

-----------------------------------------------------------------------------
(* Replication *)

(* raft_recv_entry: append only; raft_flush() does the rest. *)
RecvEntry(i) ==
    /\ state[i] = "leader"
    /\ Len(log[i]) < MaxIndex
    /\ log' = [log EXCEPT ![i] = Append(@, current_term[i])]
    /\ UNCHANGED <<metadata, role, peers, durable, written, base,
                   snapshot_last_idx, next_snapshot, commit_idx, msgs, bounds>>

(* raft_update_commit_idx: the highest index that a majority of match indexes
   reach, if the entry there is of the leader's own term. *)
QuorumIdx(match) ==
    CHOOSE x \in {match[p] : p \in Node} :
        /\ Cardinality({p \in Node : match[p] >= x}) >= Majority
        /\ Cardinality({p \in Node : match[p] > x}) < Majority
(* Mutant of NewCommitIdx: entries of earlier terms are committed by counting. *)
CommitsEarlierTerm(i, match) == Max(QuorumIdx(match), commit_idx[i])
NewCommitIdx(i, match) ==
    LET x == QuorumIdx(match)
    IN  IF x > commit_idx[i] /\ log[i][x] = current_term[i] THEN x ELSE commit_idx[i]

(* handleBeforeSleep on a leader: LogFlush gives the log to the kernel, an fsync in
   the background may have put it on disk up to sync_index, and raft_flush counts
   that, commits and sends. *)
Flush(i) ==
    /\ state[i] = "leader"
    /\ \E sync_index \in durable[i] .. Len(log[i]) :
          LET match == [match_idx[i] EXCEPT ![i] = Max(@, sync_index)]
              commit == NewCommitIdx(i, match)
          IN  /\ durable' = [durable EXCEPT ![i] = sync_index]
              /\ written' = [written EXCEPT ![i] = Len(log[i])]
              /\ match_idx' = [match_idx EXCEPT ![i] = match]
              /\ commit_idx' = [commit_idx EXCEPT ![i] = commit]
              /\ SendAppendEntries(i, {p \in Peers(i) : next_idx[i][p] <= Len(log[i])},
                                   [View(i) EXCEPT !.c = commit], next_idx[i], {})
    /\ UNCHANGED <<metadata, role, log, base, snapshot_last_idx, next_snapshot,
                   counters>>

AppendResp(m, t, success, idx) ==
    [type |-> "appendentries_resp", from |-> m.to, to |-> m.from, term |-> t,
     success |-> success, current_idx |-> idx]

(* raft_recv_appendentries, in the cases that the code tells apart. *)
HasEntry(i, idx) == idx > base[i] /\ idx <= Len(log[i])
Last(m) == m.prev_idx + Len(m.entries)

PrevIsSnapshot(i, m) == m.prev_idx = snapshot_last_idx[i]
PrevMissing(i, m) == ~ PrevIsSnapshot(i, m) /\ ~ HasEntry(i, m.prev_idx)
(* Its mutant does not look at the term of the previous entry. *)
PrevNeverConflicts(i, m) == FALSE
PrevConflicts(i, m) ==
    ~ PrevMissing(i, m) /\ TermAt(log[i], m.prev_idx) # m.prev_term
Conflicts(i, m) ==
    {idx \in m.prev_idx + 1 .. Min(Last(m), Len(log[i])) :
        log[i][idx] # m.entries[idx - m.prev_idx]}

(* "Should never happen; something is seriously wrong!": the handler gives up. *)
GivesUp(i, m) ==
    \/ PrevConflicts(i, m) /\ (PrevIsSnapshot(i, m) \/ m.prev_idx <= commit_idx[i])
    \/ ~ PrevMissing(i, m) /\ ~ PrevConflicts(i, m)
          /\ \E idx \in Conflicts(i, m) :
                idx <= commit_idx[i] /\ \A j \in Conflicts(i, m) : idx <= j

(* The log once the entries of m are in it. *)
Merged(i, m) ==
    IF Last(m) <= Len(log[i]) /\ Conflicts(i, m) = {}
    THEN log[i] ELSE SubSeq(log[i], 1, m.prev_idx) \o m.entries

(* The commit index once the log is l. *)
FollowerCommit(i, l, m) ==
    Max(commit_idx[i], Min(Max(Len(l), 1), m.leader_commit))

RecvStaleAppend(m) ==
    LET i == m.to
    IN  /\ m.type = "appendentries" /\ m.term < current_term[i]
        /\ Exchange({m}, {AppendResp(m, current_term[i], FALSE, Len(log[i]))})
        /\ UNCHANGED <<metadata, role, peers, storage, commit_idx, bounds>>

(* No entry at prev_log_idx, or another one: that and what follows is deleted.
   The deletion is synced. *)
RecvAppendMismatch(m) ==
    LET i == m.to
        cut == Min(m.prev_idx - 1, Len(log[i]))
    IN  /\ m.type = "appendentries" /\ m.term >= current_term[i]
        /\ PrevMissing(i, m) \/ PrevConflicts(i, m)
        /\ ~ GivesUp(i, m)
        /\ BecomeFollower(i, m.term)
        /\ IF PrevConflicts(i, m)
           THEN /\ log' = [log EXCEPT ![i] = SubSeq(@, 1, cut)]
                /\ Synced(i, cut)
           ELSE UNCHANGED <<log, durable, written>>
        /\ Exchange({m}, {AppendResp(m, m.term, FALSE, Len(log'[i]))})
        /\ UNCHANGED <<base, snapshot_last_idx, next_snapshot, commit_idx, bounds>>

RecvAppendEntries(m) ==
    LET i == m.to
        l == Merged(i, m)
    IN  /\ m.type = "appendentries" /\ m.term >= current_term[i]
        /\ ~ PrevMissing(i, m) /\ ~ PrevConflicts(i, m) /\ ~ GivesUp(i, m)
        /\ Len(l) <= MaxIndex
        /\ BecomeFollower(i, m.term)
        /\ log' = [log EXCEPT ![i] = l]
        /\ IF m.entries = << >> THEN UNCHANGED <<durable, written>> ELSE Synced(i, Len(l))
        /\ commit_idx' = [commit_idx EXCEPT ![i] = FollowerCommit(i, l, m)]
        /\ Exchange({m}, {AppendResp(m, m.term, TRUE, Last(m))})
        /\ UNCHANGED <<base, snapshot_last_idx, next_snapshot, bounds>>

(* raft_recv_appendentries_response *)
RecvAppendRefused(m) ==
    LET i == m.to
        next == Min(m.current_idx + 1, Len(log[i]))
    IN  /\ m.type = "appendentries_resp" /\ state[i] = "leader"
        /\ m.term = current_term[i] /\ ~ m.success
        /\ m.current_idx >= match_idx[i][m.from]
        /\ SendAppendEntries(i, {m.from}, View(i),
                             [next_idx[i] EXCEPT ![m.from] = next], {m})
        /\ UNCHANGED <<metadata, role, match_idx, storage, commit_idx, counters>>

RecvAppendAccepted(m) ==
    LET i == m.to
    IN  /\ m.type = "appendentries_resp" /\ state[i] = "leader"
        /\ m.term = current_term[i] /\ m.success
        /\ match_idx' = [match_idx EXCEPT ![i][m.from] = Max(@, m.current_idx)]
        /\ Exchange({m}, {})
        /\ UNCHANGED <<metadata, role, next_idx, storage, commit_idx, bounds>>

-----------------------------------------------------------------------------
(* Snapshots *)

(* raft_begin_snapshot: everything committed is applied first. *)
BeginSnapshot(i) ==
    /\ next_snapshot[i] = 0
    /\ snapshots < MaxSnapshots
    /\ Len(log[i]) - base[i] > 1 /\ commit_idx[i] > base[i]
    /\ next_snapshot' = [next_snapshot EXCEPT ![i] = commit_idx[i]]
    /\ snapshots' = snapshots + 1
    /\ UNCHANGED <<metadata, role, peers, log, durable, written, base,
                   snapshot_last_idx, commit_idx, msgs, timeouts, crashes, heldback>>

(* raft_end_snapshot. The log keeps entries from some point inside the snapshot
   on: those appended since the log started its second page. *)
EndSnapshot(i) ==
    LET s == next_snapshot[i]
    IN  /\ s # 0
        /\ snapshot_last_idx' = [snapshot_last_idx EXCEPT ![i] = s]
        /\ \E b \in base[i] + 1 .. s : base' = [base EXCEPT ![i] = b]
        /\ next_snapshot' = [next_snapshot EXCEPT ![i] = 0]
        /\ IF state[i] = "leader"
           THEN SendAppendEntries(i, {p \in Peers(i) : next_idx[i][p] <= s},
                                  [View(i) EXCEPT !.s = s], next_idx[i], {})
           ELSE UNCHANGED <<next_idx, msgs, heldback>>
        /\ UNCHANGED <<metadata, role, match_idx, log, durable, written, commit_idx,
                       counters>>

(* raft_cancel_snapshot: the child process failed. *)
CancelSnapshot(i) ==
    /\ next_snapshot[i] # 0
    /\ next_snapshot' = [next_snapshot EXCEPT ![i] = 0]
    /\ UNCHANGED <<metadata, role, peers, log, durable, written, base,
                   snapshot_last_idx, commit_idx, msgs, bounds>>

SnapshotResp(m, t, success) ==
    [type |-> "snapshot_resp", from |-> m.to, to |-> m.from, term |-> t,
     success |-> success]

(* raft_recv_snapshot. A node that has as many entries answers as if it had
   loaded the snapshot; one that creates a snapshot itself fails to load it and
   does not answer. *)
RecvStaleSnapshot(m) ==
    LET i == m.to
    IN  /\ m.type = "snapshot" /\ m.term < current_term[i]
        /\ Exchange({m}, {SnapshotResp(m, current_term[i], FALSE)})
        /\ UNCHANGED <<metadata, role, peers, storage, commit_idx, bounds>>

RecvSnapshotNotNeeded(m) ==
    LET i == m.to
        needed == Len(m.snapshot) > Len(log[i])
    IN  /\ m.type = "snapshot" /\ m.term >= current_term[i]
        /\ needed => next_snapshot[i] # 0
        /\ BecomeFollower(i, m.term)
        /\ Exchange({m}, IF needed THEN {} ELSE {SnapshotResp(m, m.term, TRUE)})
        /\ UNCHANGED <<storage, commit_idx, bounds>>

(* ... and raft_begin_load_snapshot, raft_end_load_snapshot. *)
RecvSnapshot(m) ==
    LET i == m.to
        s == Len(m.snapshot)
    IN  /\ m.type = "snapshot" /\ m.term >= current_term[i]
        /\ s > Len(log[i]) /\ next_snapshot[i] = 0
        /\ BecomeFollower(i, m.term)
        /\ log' = [log EXCEPT ![i] = m.snapshot]
        /\ Synced(i, s)
        /\ base' = [base EXCEPT ![i] = s]
        /\ snapshot_last_idx' = [snapshot_last_idx EXCEPT ![i] = s]
        /\ commit_idx' = [commit_idx EXCEPT ![i] = s]
        /\ Exchange({m}, {SnapshotResp(m, m.term, TRUE)})
        /\ UNCHANGED <<next_snapshot, bounds>>

(* raft_recv_snapshot_response *)
RecvSnapshotResponse(m) ==
    LET i == m.to
    IN  /\ m.type = "snapshot_resp" /\ state[i] = "leader"
        /\ m.term = current_term[i] /\ m.success
        /\ next_idx' = [next_idx EXCEPT ![i][m.from] = Max(@, snapshot_last_idx[i] + 1)]
        /\ Exchange({m}, {})
        /\ UNCHANGED <<metadata, role, match_idx, storage, commit_idx, bounds>>

-----------------------------------------------------------------------------
(* Crashes *)

(* What a crash takes from a log: a killed process loses what it has not given to
   the kernel yet, a machine that stops loses what was not synced. *)
Kept(i, kind) == IF kind = "power" THEN durable[i] ELSE written[i]

(* The next start, when the log is l and its first `synced' entries are on disk.
   The snapshot is loaded first; a log that ends before it is replaced
   (loadRaftLog). Loading the log does not sync it. *)
Restarted(i, l, kind, synced) ==
    LET s == snapshot_last_idx[i]
        behind == Len(l) < s
    IN  /\ log' = [log EXCEPT ![i] = IF behind THEN SubSeq(log[i], 1, s) ELSE l]
        /\ durable' = [durable EXCEPT ![i] = IF behind THEN s ELSE synced]
        /\ written' = [written EXCEPT ![i] = Max(Len(l), s)]
        /\ base' = [base EXCEPT ![i] = IF behind THEN s ELSE @]
        /\ commit_idx' = [commit_idx EXCEPT ![i] = s]
        /\ next_snapshot' = [next_snapshot EXCEPT ![i] = 0]
        /\ crashes' = Append(crashes, kind)
        /\ UNCHANGED <<snapshot_last_idx, timeouts, snapshots, heldback>>

(* A crash between two handlers. *)
Crash(i) ==
    /\ Len(crashes) < MaxCrashes
    /\ BecomeFollower(i, current_term[i])
    /\ \E kind \in CrashKinds : \E k \in Kept(i, kind) .. Len(log[i]) :
          Restarted(i, SubSeq(log[i], 1, k), kind,
                    IF kind = "power" THEN k ELSE durable[i])
    /\ UNCHANGED msgs

(* A crash inside a handler, without a reply: after raftPersistMetadata has written
   a new term but not a vote, and in raft_recv_appendentries between the deletion
   of entries, which leaves the first `same' of them, and the last sync. *)
CrashInHandler(m) ==
    LET i == m.to
        t == IF m.type = "requestvote" /\ m.prevote THEN current_term[i]
                                                    ELSE Max(m.term, current_term[i])
        current == m.type = "appendentries" /\ m.term >= current_term[i]
        deletes == current /\ PrevConflicts(i, m) /\ ~ GivesUp(i, m)
        appends == /\ current /\ ~ PrevMissing(i, m) /\ ~ PrevConflicts(i, m)
                   /\ ~ GivesUp(i, m)
        l == IF deletes THEN SubSeq(log[i], 1, m.prev_idx - 1)
             ELSE IF appends THEN Merged(i, m) ELSE log[i]
        same == IF l = log[i] THEN Len(l)
                ELSE IF deletes THEN m.prev_idx - 1
                ELSE CHOOSE n \in m.prev_idx .. Len(l) :
                         /\ IsPrefixOf(SubSeq(l, 1, n), log[i])
                         /\ n = Len(log[i]) \/ l[n + 1] # log[i][n + 1]
    IN  /\ Len(crashes) < MaxCrashes
        /\ Len(l) <= MaxIndex
        /\ BecomeFollower(i, t)
        /\ \E kind \in CrashKinds, old \in {log[i], l} :
              \E k \in Min(same, Kept(i, kind)) .. Len(old) :
                 Restarted(i, SubSeq(old, 1, k), kind,
                           IF kind = "power" THEN k ELSE Min(same, durable[i]))
        /\ Exchange({m}, {})

-----------------------------------------------------------------------------
Init ==
    /\ state = [i \in Node |-> "follower"]
    /\ current_term = [i \in Node |-> 0] /\ voted_for = [i \in Node |-> NONE]
    /\ votes = [i \in Node |-> {}]
    /\ log = [i \in Node |-> << >>] /\ durable = [i \in Node |-> 0]
    /\ written = [i \in Node |-> 0]
    /\ base = [i \in Node |-> 0] /\ snapshot_last_idx = [i \in Node |-> 0]
    /\ next_snapshot = [i \in Node |-> 0] /\ commit_idx = [i \in Node |-> 0]
    /\ next_idx = [i \in Node |-> [p \in Node |-> 1]]
    /\ match_idx = [i \in Node |-> [p \in Node |-> 0]]
    /\ msgs = {} /\ timeouts = 0 /\ crashes = << >> /\ snapshots = 0 /\ heldback = 0

NodeStep(i) ==
    \/ ElectionTimeout(i) \/ Heartbeat(i) \/ QuorumLost(i)
    \/ RecvEntry(i) \/ Flush(i)
    \/ BeginSnapshot(i) \/ EndSnapshot(i) \/ CancelSnapshot(i)
    \/ Crash(i)

Receive(m) ==
    \/ RecvPrevote(m) \/ RecvRequestVote(m) \/ RecvHigherTerm(m) \/ RecvVoteResponse(m)
    \/ RecvStaleAppend(m) \/ RecvAppendMismatch(m) \/ RecvAppendEntries(m)
    \/ RecvAppendRefused(m) \/ RecvAppendAccepted(m)
    \/ RecvStaleSnapshot(m) \/ RecvSnapshotNotNeeded(m) \/ RecvSnapshot(m)
    \/ RecvSnapshotResponse(m)
    \/ CrashInHandler(m)

Next == (\E i \in Node : NodeStep(i)) \/ (\E m \in msgs : Receive(m))

Spec == Init /\ [][Next]_vars

-----------------------------------------------------------------------------
(* There is at most one leader in a term, although nodes vote, crash, forget what
   they had not written and vote again. *)
ElectionSafety ==
    \A i, j \in Node :
        state[i] = "leader" /\ state[j] = "leader" /\ current_term[i] = current_term[j]
            => i = j

(* Two logs that agree on the term of an entry agree on everything before it. *)
LogMatching ==
    \A i, j \in Node : \A idx \in 1 .. Min(Len(log[i]), Len(log[j])) :
        log[i][idx] = log[j][idx] =>
            \A k \in 1 .. idx : log[i][k] = log[j][k]

Committed(i) == SubSeq(log[i], 1, commit_idx[i])

(* The state machines never diverge: of any two nodes, one has committed a prefix
   of what the other one has. *)
StateMachineSafety ==
    \A i, j \in Node :
        IsPrefixOf(Committed(i), Committed(j)) \/ IsPrefixOf(Committed(j), Committed(i))

(* A leader has every entry that was committed in its term or before. *)
LeaderCompleteness ==
    \A i, j \in Node :
        state[i] = "leader" /\ current_term[j] <= current_term[i]
            => IsPrefixOf(Committed(j), log[i])

(* The three "Should never happen" branches of raft_recv_appendentries are never
   taken, whatever order messages arrive in. *)
NeverGivesUp ==
    \A m \in msgs :
        m.type = "appendentries" /\ m.term >= current_term[m.to] => ~ GivesUp(m.to, m)

(* A committed entry survives a crash of every node: a majority has it where a
   crash does not reach. The leader counts its own entries when a background fsync
   reports them. The exception is a power failure after a process was killed: the
   new process acknowledges what the killed one wrote and nobody has synced. *)
CommittedSurvives ==
    \A i \in Node, kind \in CrashKinds :
        \/ kind = "power" /\ \E k \in 1 .. Len(crashes) : crashes[k] = "process"
        \/ Cardinality({j \in Node :
               IsPrefixOf(Committed(i), SubSeq(log[j], 1, Kept(j, kind)))}) >= Majority
=============================================================================
