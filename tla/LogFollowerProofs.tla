------------------------- MODULE LogFollowerProofs --------------------------
(***************************************************************************)
(* Elections, what a follower does and crashes preserve LogInv. A          *)
(* follower's log is cut, or replaced by a fragment, or glued together     *)
(* from its own log and a fragment that has the same entry at              *)
(* prev_log_idx; a crash leaves a piece of one of these.                   *)
(***************************************************************************)
EXTENDS RaftServerProofs

-----------------------------------------------------------------------------
(* Elections *)

LEMMA ElectionSteps ==
    ASSUME ElectionInv, ElectionInv', VotesMove, LogInv,
           \/ \E i \in Node : ElectionTimeout(i) \/ QuorumLost(i)
           \/ \E m \in msgs : \/ RecvPrevote(m) \/ RecvRequestVote(m) \/ RecvHigherTerm(m)
                              \/ RecvStaleAppend(m) \/ RecvStaleSnapshot(m)
                              \/ RecvSnapshotNotNeeded(m)
    PROVE  LogInv'
<1> USE DEF metadata, role, storage
<1>1. ASSUME NEW i \in Node, ElectionTimeout(i) PROVE LogInv'
  <2>1. /\ UNCHANGED <<storage, peers, commit_idx, current_term>>
        /\ state' = [state EXCEPT ![i] = "precandidate"]
    BY <1>1, SMTT(30) DEF ElectionTimeout
  <2>2. \A j \in Node : PeersStay(j)
    BY <2>1 DEF PeersStay, peers, ElectionInv, ElectionTypes
  <2>3. next_idx' \in [Node -> [Node -> Nat]] /\ match_idx' \in [Node -> [Node -> Nat]]
    BY <2>1 DEF peers, LogInv, StorageTypes
  <2>4. QuietMessages
    <3> DEFINE out == {VoteReq(i, p, TRUE, current_term[i] + 1) : p \in Peers(i)}
    <3>1. Exchange({}, out)
      BY <1>1, Zenon DEF ElectionTimeout
    <3>2. \A m \in out : m.type \in {"requestvote", "requestvote_resp", "snapshot_resp"}
      BY DEF VoteReq
    <3> HIDE DEF out
    <3>3. \A m \in out : QuietMsg(m)
      BY <3>2, QuietKinds
    <3> QED
      BY <3>1, <3>3, ExchangeQuietly, Zenon
  <2> QED
    BY <2>1, <2>2, <2>3, <2>4, ElectoralStep, SMTT(30)
<1>2. ASSUME NEW i \in Node, QuorumLost(i) PROVE LogInv'
  <2>1. BecomeFollower(i, current_term[i]) /\ UNCHANGED <<storage, commit_idx, msgs>>
    BY <1>2, Zenon DEF QuorumLost
  <2> QED
    BY <2>1, FollowerFacts, NothingSentQuietly, ElectoralStep, Zenon
<1>3. ASSUME NEW m \in msgs, RecvPrevote(m) PROVE LogInv'
  <2>1. UNCHANGED <<state, current_term, peers, storage, commit_idx>>
    BY <1>3, Zenon DEF RecvPrevote
  <2>2. PICK granted : Exchange({m}, {VoteResp(m, current_term[m.to], granted)})
    BY <1>3, Zenon DEF RecvPrevote
  <2>3. QuietMsg(VoteResp(m, current_term[m.to], granted))
    BY QuietKinds DEF VoteResp
  <2>4. QuietMessages
    BY <2>2, <2>3, ExchangeQuietly, Zenon
  <2> QED
    BY <2>1, <2>4, SameRoleFacts, ElectoralStep
<1>4. ASSUME NEW m \in msgs, RecvRequestVote(m) PROVE LogInv'
  <2> DEFINE i == m.to
             t == Max(current_term[i], m.term)
  <2>1. i \in Node /\ current_term[i] \in Nat /\ m.term \in Nat
    BY Zenon DEF ElectionInv, ElectionTypes, MsgOK
  <2>2. UNCHANGED <<storage, commit_idx>> /\ current_term' = [current_term EXCEPT ![i] = t]
    BY <1>4, Zenon DEF RecvRequestVote
  <2>3. QuietMessages
    <3>1. PICK granted : Exchange({m}, {VoteResp(m, t, granted)})
      BY <1>4, Zenon DEF RecvRequestVote
    <3>2. QuietMsg(VoteResp(m, t, granted))
      BY QuietKinds, SMTT(30) DEF VoteResp
    <3> QED
      BY <3>1, <3>2, ExchangeQuietly, Zenon
  <2>4. CASE t > current_term[i]
    <3>1. /\ state' = [state EXCEPT ![i] = "follower"]
          /\ next_idx' = [next_idx EXCEPT ![i] = [p \in Node |-> 1]]
          /\ match_idx' = [match_idx EXCEPT ![i] = [p \in Node |-> 0]]
      BY <1>4, <2>4, Zenon DEF RecvRequestVote
    <3> HIDE DEF i, t
    <3>2. next_idx' \in [Node -> [Node -> Nat]] /\ match_idx' \in [Node -> [Node -> Nat]]
      BY <3>1 DEF LogInv, StorageTypes
    <3>3. \A j \in Node : PeersStay(j)
      BY <2>1, <2>2, <3>1, SMTT(30) DEF PeersStay, ElectionInv, ElectionTypes, LogInv, StorageTypes
    <3> QED
      BY <2>2, <2>3, <3>2, <3>3, ElectoralStep
  <2>5. CASE ~ (t > current_term[i])
    <3>1. UNCHANGED <<state, peers>>
      BY <1>4, <2>5, Zenon DEF RecvRequestVote
    <3>2. t = current_term[i]
      BY <2>1, <2>5, SMTT(30) DEF Max
    <3>3. UNCHANGED current_term
      BY <2>2, <3>2, SMTT(30) DEF ElectionInv, ElectionTypes
    <3> QED
      BY <2>2, <2>3, <3>1, <3>3, SameRoleFacts, ElectoralStep
  <2> QED
    BY <2>4, <2>5
<1>5. ASSUME NEW m \in msgs, RecvHigherTerm(m) PROVE LogInv'
  <2>1. /\ BecomeFollower(m.to, m.term) /\ UNCHANGED <<storage, commit_idx>>
        /\ Exchange({m}, {}) /\ m.to \in Node
    BY <1>5, Zenon DEF RecvHigherTerm, ElectionInv, ElectionTypes, MsgOK
  <2> QED
    BY <2>1, FollowerFacts, NothingSentQuietly, ElectoralStep
<1>6. ASSUME NEW m \in msgs, RecvStaleAppend(m) PROVE LogInv'
  <2>1. UNCHANGED <<state, current_term, peers, storage, commit_idx>>
    BY <1>6, Zenon DEF RecvStaleAppend
  <2>2. Len(log[m.to]) \in Nat
    BY SMTT(30) DEF LogInv, StorageTypes, ElectionInv, ElectionTypes, MsgOK
  <2>3. Exchange({m}, {AppendResp(m, current_term[m.to], FALSE, Len(log[m.to]))})
    BY <1>6, Zenon DEF RecvStaleAppend
  <2>4. QuietMsg(AppendResp(m, current_term[m.to], FALSE, Len(log[m.to])))
    BY <2>2, QuietResponse, Zenon
  <2>5. QuietMessages
    BY <2>3, <2>4, ExchangeQuietly, Zenon
  <2> QED
    BY <2>1, <2>5, SameRoleFacts, ElectoralStep
<1>7. ASSUME NEW m \in msgs, RecvStaleSnapshot(m) PROVE LogInv'
  <2>1. /\ UNCHANGED <<state, current_term, peers, storage, commit_idx>>
        /\ Exchange({m}, {SnapshotResp(m, current_term[m.to], FALSE)})
    BY <1>7, Zenon DEF RecvStaleSnapshot
  <2>2. QuietMsg(SnapshotResp(m, current_term[m.to], FALSE))
    BY QuietKinds DEF SnapshotResp
  <2>3. QuietMessages
    BY <2>1, <2>2, ExchangeQuietly, Zenon
  <2> QED
    BY <2>1, <2>3, SameRoleFacts, ElectoralStep, Zenon
<1>8. ASSUME NEW m \in msgs, RecvSnapshotNotNeeded(m) PROVE LogInv'
  <2>1. /\ BecomeFollower(m.to, m.term) /\ UNCHANGED <<storage, commit_idx>>
        /\ Exchange({m}, {}) \/ Exchange({m}, {SnapshotResp(m, m.term, TRUE)})
        /\ m.to \in Node
    BY <1>8, Zenon DEF RecvSnapshotNotNeeded, ElectionInv, ElectionTypes, MsgOK
  <2>2. QuietMsg(SnapshotResp(m, m.term, TRUE))
    BY QuietKinds, SMTT(30) DEF SnapshotResp
  <2>3. QuietMessages
    BY <2>1, <2>2, ExchangeQuietly, NothingSentQuietly, Zenon
  <2> QED
    BY <2>1, <2>3, FollowerFacts, ElectoralStep, Zenon
<1> QED
  BY <1>1, <1>2, <1>3, <1>4, <1>5, <1>6, <1>7, <1>8

LEMMA VoteCounts ==
    ASSUME ElectionInv, ElectionInv', VotesMove, LogInv, NEW i \in Node, NEW m,
           \/ /\ UNCHANGED <<metadata, state, peers, storage, commit_idx>>
              /\ Exchange({m}, {})
           \/ BecomeCandidate(i, {m})
    PROVE  LogInv'
<1> USE DEF metadata, role, storage
<1>1. CASE UNCHANGED <<metadata, state, peers, storage, commit_idx>> /\ Exchange({m}, {})
  BY <1>1, SameRoleFacts, NothingSentQuietly, ElectoralStep
<1>2. CASE BecomeCandidate(i, {m})
  <2>1. /\ UNCHANGED <<storage, peers, commit_idx>>
        /\ state' = [state EXCEPT ![i] = "candidate"]
        /\ \A j \in Node \ {i} : current_term'[j] = current_term[j]
    BY <1>2 DEF BecomeCandidate, ElectionInv, ElectionTypes
  <2>2. \A j \in Node : PeersStay(j)
    BY <2>1, Zenon DEF PeersStay, peers, ElectionInv, ElectionTypes
  <2>3. next_idx' \in [Node -> [Node -> Nat]] /\ match_idx' \in [Node -> [Node -> Nat]]
    BY <2>1 DEF peers, LogInv, StorageTypes
  <2>4. QuietMessages
    <3> DEFINE t == current_term[i] + 1
               out == {VoteReq(i, p, FALSE, t) : p \in Peers(i)}
    <3>1. Exchange({m}, out)
      BY <1>2, SMTT(30) DEF BecomeCandidate
    <3>2. \A o \in out : o.type \in {"requestvote", "requestvote_resp", "snapshot_resp"}
      BY DEF VoteReq
    <3> HIDE DEF out
    <3>3. \A o \in out : QuietMsg(o)
      BY <3>2, QuietKinds
    <3> QED
      BY <3>1, <3>3, ExchangeQuietly, Zenon
  <2> QED
    BY <2>1, <2>2, <2>3, <2>4, ElectoralStep, SMTT(30)
<1> QED
  BY <1>1, <1>2

-----------------------------------------------------------------------------
(* A follower's log is cut, extended or replaced *)

(* N is an old fragment, or glued together from old ones. *)
Glued(N) ==
    /\ \A Y \in Fragments : Agree(N, Y) /\ Agree(Y, N)
    /\ \A k \in DOMAIN N : \E Y \in Fragments : k \in DOMAIN Y /\ Y[k] = N[k]

LEMMA FragmentIsGlued ==
    ASSUME LogInv, NEW N \in Fragments
    PROVE  Glued(N)
  BY SMTT(30) DEF LogInv, Match, Glued

LEMMA FollowerLogStep ==
    ASSUME ElectionInv, ElectionInv', VotesMove, LogInv,
           NEW i \in Node, NEW t, BecomeFollower(i, t),
           NEW l \in Seq(Nat), log' = [log EXCEPT ![i] = l],
           NEW N, Glued(N), \E Y \in Fragments \cup {N} : CutOf(l, Y),
           QuietMessages,
           NEW d \in Nat, durable' = [durable EXCEPT ![i] = d],
           NEW w \in Nat, written' = [written EXCEPT ![i] = w],
           NEW c \in Nat, commit_idx' = [commit_idx EXCEPT ![i] = c],
           NEW s \in Nat, snapshot_last_idx' = [snapshot_last_idx EXCEPT ![i] = s],
           NEW x \in Nat, next_snapshot' = [next_snapshot EXCEPT ![i] = x],
           s <= c, x <= c, c <= Len(l)
    PROVE  LogInv'
<1>0. /\ StorageTypes
      /\ next_idx' \in [Node -> [Node -> Nat]] /\ match_idx' \in [Node -> [Node -> Nat]]
      /\ \A j \in Node : PeersStay(j)
      /\ state'[i] = "follower"
  BY FollowerFacts, Zenon DEF LogInv
<1>1. /\ log'[i] = l /\ commit_idx'[i] = c /\ snapshot_last_idx'[i] = s /\ next_snapshot'[i] = x
      /\ \A j \in Node \ {i} : /\ log'[j] = log[j] /\ commit_idx'[j] = commit_idx[j]
                               /\ snapshot_last_idx'[j] = snapshot_last_idx[j]
                               /\ next_snapshot'[j] = next_snapshot[j]
  BY <1>0, SMTT(30) DEF StorageTypes
<1>2. StorageTypes'
  BY <1>0, SMTT(30) DEF StorageTypes
<1>3. \A j \in Node : IndexesOK(j)'
  <2>1. IndexesOK(i)'
    BY <1>0, <1>1 DEF IndexesOK
  <2>2. \A j \in Node \ {i} : IndexesOK(j)'
    BY <1>0, <1>1, Zenon DEF LogInv, IndexesOK, PeersStay
  <2> QED
    BY <2>1, <2>2, SMTT(30)
<1>4. TypesStep
  BY <1>2, <1>3 DEF TypesStep, QuietMessages, QuietMsg, LogInv
<1>5. LeaderMessages
  BY Zenon DEF LeaderMessages, QuietMessages, QuietMsg
<1>6. NewFragments(Fragments \cup {N})
  BY DEF NewFragments, QuietMessages, QuietMsg
<1>7. \A j \in Node : StaysLeader(j)
  BY <1>0, <1>1, Zenon DEF PeersStay, StaysLeader
<1>8. /\ \A Y \in Fragments : Agree(N, Y) /\ Agree(Y, N)
      /\ \A k \in DOMAIN N : \E Y \in Fragments : k \in DOMAIN Y /\ Y[k] = N[k]
  BY DEF Glued
<1> QED
  BY <1>4, <1>5, <1>6, <1>7, <1>8, EntriesMove

(* The state of a follower that is about to handle m. *)
LEMMA ReceiverFacts ==
    ASSUME ElectionInv, LogInv, NEW m \in msgs
    PROVE  LET i == m.to
           IN  /\ i \in Node /\ m.term \in Nat /\ StorageTypes /\ EntryMsgOK(m)
               /\ log[i] \in Seq(Nat) /\ Len(log[i]) \in Nat /\ log[i] \in Fragments
               /\ commit_idx[i] \in Nat /\ snapshot_last_idx[i] \in Nat
               /\ next_snapshot[i] \in Nat /\ durable[i] \in Nat /\ written[i] \in Nat
               /\ snapshot_last_idx[i] <= commit_idx[i] /\ next_snapshot[i] <= commit_idx[i]
               /\ commit_idx[i] <= Len(log[i]) /\ snapshot_last_idx[i] <= Len(log[i])
<1> DEFINE i == m.to
<1>1. i \in Node /\ m.term \in Nat
  BY Zenon DEF ElectionInv, ElectionTypes, MsgOK
<1>2. StorageTypes /\ EntryMsgOK(m) /\ IndexesOK(i)
  BY <1>1, SMTT(30) DEF LogInv
<1> HIDE DEF i
<1>3. /\ log[i] \in Seq(Nat) /\ Len(log[i]) \in Nat /\ log[i] \in Fragments
      /\ commit_idx[i] \in Nat /\ snapshot_last_idx[i] \in Nat
      /\ next_snapshot[i] \in Nat /\ durable[i] \in Nat /\ written[i] \in Nat
  BY <1>1, <1>2, NodeTypes, SMTT(30) DEF Fragments
<1>4. /\ snapshot_last_idx[i] <= commit_idx[i] /\ next_snapshot[i] <= commit_idx[i]
      /\ commit_idx[i] <= Len(log[i])
  BY <1>2, SMTT(30) DEF IndexesOK
<1>5. snapshot_last_idx[i] <= Len(log[i])
  BY <1>3, <1>4
<1> QED
  BY <1>1, <1>2, <1>3, <1>4, <1>5, Zenon DEF i

LEMMA RecvSnapshotPreserves ==
    ASSUME ElectionInv, ElectionInv', VotesMove, LogInv, NEW m \in msgs, RecvSnapshot(m)
    PROVE  LogInv'
<1> DEFINE i == m.to
           s == Len(m.snapshot)
<1>1. /\ i \in Node /\ EntryMsgOK(m) /\ next_snapshot[i] \in Nat /\ StorageTypes
  BY ReceiverFacts, Zenon
<1>2. /\ m.type = "snapshot" /\ next_snapshot[i] = 0 /\ BecomeFollower(i, m.term)
      /\ log' = [log EXCEPT ![i] = m.snapshot]
      /\ durable' = [durable EXCEPT ![i] = s] /\ written' = [written EXCEPT ![i] = s]
      /\ snapshot_last_idx' = [snapshot_last_idx EXCEPT ![i] = s]
      /\ commit_idx' = [commit_idx EXCEPT ![i] = s]
      /\ Exchange({m}, {SnapshotResp(m, m.term, TRUE)})
      /\ UNCHANGED next_snapshot
  BY Zenon DEF RecvSnapshot, Synced
<1>3. m.snapshot \in Seq(Nat) /\ s \in Nat
  BY <1>1, <1>2, SMTT(30) DEF EntryMsgOK
<1>4. PICK l \in Fragments : l = m.snapshot
  <2>1. HasFragment(m) /\ Fragment(m) = m.snapshot
    BY <1>2, Zenon DEF HasFragment, Fragment
  <2> QED
    BY <2>1 DEF Fragments
<1>5. QuietMessages
  <2>1. QuietMsg(SnapshotResp(m, m.term, TRUE))
    BY QuietKinds, SMTT(30) DEF SnapshotResp
  <2> QED
    BY <1>2, <2>1, ExchangeQuietly, Zenon
<1>6. next_snapshot' = [next_snapshot EXCEPT ![i] = 0]
  BY <1>1, <1>2 DEF StorageTypes
<1>7. Glued(l) /\ CutOf(l, l)
  BY <1>4, FragmentIsGlued, SMTT(30) DEF CutOf
<1> HIDE DEF i, s
<1>8. 0 \in Nat /\ s <= s /\ 0 <= s /\ s <= Len(l) /\ l \in Seq(Nat) /\ log' = [log EXCEPT ![i] = l]
  BY <1>2, <1>3, <1>4, SMTT(30) DEF s
<1> QED
  BY <1>1, <1>2, <1>3, <1>5, <1>6, <1>7, <1>8, FollowerLogStep, Zenon

(* An entry at prev_log_idx that conflicts is not committed. *)
LEMMA ConflictFacts ==
    ASSUME ElectionInv, LogInv, NEW m \in msgs, m.type = "appendentries",
           PrevConflicts(m.to, m), ~ GivesUp(m.to, m)
    PROVE  /\ m.prev_idx \in Nat /\ m.prev_idx - 1 \in Nat
           /\ commit_idx[m.to] <= m.prev_idx - 1
<1>1. /\ m.prev_idx \in Nat /\ m.prev_term \in Nat /\ (m.prev_idx = 0 => m.prev_term = 0)
      /\ commit_idx[m.to] \in Nat
  BY ReceiverFacts, SMTT(30) DEF EntryMsgOK
<1>2. m.prev_idx # 0
  BY <1>1 DEF PrevConflicts, TermAt
<1>3. ~ (m.prev_idx <= commit_idx[m.to])
  BY Zenon DEF GivesUp
<1> QED
  BY <1>1, <1>2, <1>3, SMTT(30)

LEMMA MismatchPreserves ==
    ASSUME ElectionInv, ElectionInv', VotesMove, LogInv, NEW m \in msgs, RecvAppendMismatch(m)
    PROVE  LogInv'
<1> DEFINE i == m.to
           cut == Min(m.prev_idx - 1, Len(log[i]))
<1>0. /\ i \in Node /\ StorageTypes /\ EntryMsgOK(m) /\ log[i] \in Fragments
      /\ log[i] \in Seq(Nat) /\ Len(log[i]) \in Nat /\ commit_idx[i] \in Nat
      /\ snapshot_last_idx[i] \in Nat /\ next_snapshot[i] \in Nat
      /\ snapshot_last_idx[i] <= commit_idx[i] /\ next_snapshot[i] <= commit_idx[i]
      /\ commit_idx[i] <= Len(log[i])
  BY ReceiverFacts, Zenon
<1>1. /\ m.type = "appendentries" /\ ~ GivesUp(i, m) /\ BecomeFollower(i, m.term)
      /\ Exchange({m}, {AppendResp(m, m.term, FALSE, Len(log'[i]))})
      /\ UNCHANGED <<snapshot_last_idx, next_snapshot, commit_idx>>
  BY Zenon DEF RecvAppendMismatch
<1>2. ASSUME Len(log'[i]) \in Nat PROVE QuietMessages
  <2>1. PICK n \in Nat : n = Len(log'[i])
    BY <1>2
  <2>2. QuietMsg(AppendResp(m, m.term, FALSE, n))
    BY QuietResponse, Zenon
  <2>3. Exchange({m}, {AppendResp(m, m.term, FALSE, n)})
    BY <1>1, <2>1
  <2> QED
    BY <2>2, <2>3, ExchangeQuietly, Zenon
<1>3. CASE PrevConflicts(i, m)
  <2>1. /\ log' = [log EXCEPT ![i] = SubSeq(log[i], 1, cut)]
        /\ durable' = [durable EXCEPT ![i] = cut] /\ written' = [written EXCEPT ![i] = cut]
    BY <1>3, Zenon DEF RecvAppendMismatch, Synced
  <2>2. cut \in Nat /\ cut <= Len(log[i]) /\ commit_idx[i] <= cut
    BY <1>0, <1>1, <1>3, ConflictFacts, SMTT(30) DEF Min
  <2> HIDE DEF cut
  <2>3. PICK l \in Seq(Nat) : /\ l = SubSeq(log[i], 1, cut) /\ Len(l) = cut
                              /\ CutOf(l, log[i])
    BY <1>0, <2>2, PrefixFacts, Zenon
  <2>4. PICK N \in Fragments : N = log[i]
    BY <1>0
  <2>5. log'[i] = l /\ log' = [log EXCEPT ![i] = l]
    BY <1>0, <2>1, <2>3, SMTT(30) DEF StorageTypes
  <2>6. QuietMessages
    BY <1>2, <2>2, <2>3, <2>5
  <2>7. Glued(N) /\ CutOf(l, N)
    BY <2>3, <2>4, FragmentIsGlued, Zenon
  <2>8. PICK c \in Nat, s \in Nat, x \in Nat :
            c = commit_idx[i] /\ s = snapshot_last_idx[i] /\ x = next_snapshot[i]
    BY <1>0, SMTT(30)
  <2>9. /\ commit_idx' = [commit_idx EXCEPT ![i] = c]
        /\ snapshot_last_idx' = [snapshot_last_idx EXCEPT ![i] = s]
        /\ next_snapshot' = [next_snapshot EXCEPT ![i] = x]
    BY <1>0, <1>1, <2>8 DEF StorageTypes
  <2>10. s <= c /\ x <= c /\ c <= Len(l)
    BY <1>0, <2>2, <2>3, <2>8, Zenon
  <2>11. PICK d \in Nat : d = cut
    BY <2>2
  <2> HIDE DEF i
  <2> QED
    BY <1>0, <1>1, <2>1, <2>5, <2>6, <2>7, <2>9, <2>10, <2>11, FollowerLogStep, Zenon
<1>4. CASE ~ PrevConflicts(i, m)
  <2>1. UNCHANGED <<log, durable, written>>
    BY <1>4, Zenon DEF RecvAppendMismatch
  <2>2. QuietMessages
    BY <1>0, <1>2, <2>1, Zenon
  <2> QED
    BY <1>0, <1>1, <2>1, <2>2, FollowerFacts, ElectoralStep, Zenon
<1> QED
  BY <1>3, <1>4

LEMMA ConcatFacts ==
    ASSUME NEW l \in Seq(Nat), NEW e \in Seq(Nat), NEW p \in Nat, p <= Len(l)
    PROVE  LET N == SubSeq(l, 1, p) \o e
           IN  /\ N \in Seq(Nat) /\ Len(N) = p + Len(e)
               /\ \A k \in 1 .. p : N[k] = l[k]
               /\ \A k \in p + 1 .. p + Len(e) : N[k] = e[k - p]
<1>1. PICK s \in Seq(Nat) : s = SubSeq(l, 1, p) /\ Len(s) = p /\ \A k \in 1 .. p : s[k] = l[k]
  BY PrefixFacts, Zenon
<1>2. /\ s \o e \in Seq(Nat) /\ Len(s \o e) = Len(s) + Len(e)
      /\ \A k \in 1 .. Len(s) : (s \o e)[k] = s[k]
      /\ \A k \in Len(s) + 1 .. Len(s) + Len(e) : (s \o e)[k] = e[k - Len(s)]
  OBVIOUS
<1> QED
  BY <1>1, <1>2, Zenon

(* The entry at prev_log_idx, once it has been found. *)
LEMMA PrevFacts ==
    ASSUME ElectionInv, LogInv, NEW m \in msgs, m.type = "appendentries",
           ~ PrevMissing(m.to, m), ~ PrevConflicts(m.to, m)
    PROVE  /\ m.prev_idx \in Nat /\ m.prev_idx <= Len(log[m.to])
           /\ m.prev_idx # 0 => log[m.to][m.prev_idx] = m.prev_term
           /\ m.entries \in Seq(Nat) /\ Last(m) = m.prev_idx + Len(m.entries)
           /\ Last(m) >= 1 /\ Last(m) \in Nat
<1> DEFINE i == m.to
<1>1. /\ m.prev_idx \in Nat /\ m.entries \in Seq(Nat) /\ (m.prev_idx = 0 => m.entries # << >>)
      /\ snapshot_last_idx[i] <= Len(log[i]) /\ Len(log[i]) \in Nat
  BY ReceiverFacts, SMTT(30) DEF EntryMsgOK
<1>2. m.prev_idx <= Len(log[i])
  BY <1>1, SMTT(30) DEF PrevMissing, PrevIsSnapshot, HasEntry
<1>3. m.prev_idx # 0 => log[i][m.prev_idx] = m.prev_term
  BY DEF PrevConflicts, TermAt
<1>4. Last(m) = m.prev_idx + Len(m.entries)
  BY SMTT(30) DEF Last
<1>5. m.entries # << >> => Len(m.entries) >= 1
  BY <1>1, SMTT(30)
<1>6. Len(m.entries) \in Nat
  BY <1>1
<1> QED
  BY <1>1, <1>2, <1>3, <1>4, <1>5, <1>6, SMTT(30)

(* The log that the entries of m have been put into: it is the old one, or ends with
   the last of them. *)
LEMMA MergedShape ==
    ASSUME ElectionInv, LogInv, NEW m \in msgs, m.type = "appendentries",
           ~ PrevMissing(m.to, m), ~ PrevConflicts(m.to, m)
    PROVE  LET i == m.to
               N == Merged(i, m)
           IN  /\ N \in Seq(Nat) /\ Last(m) <= Len(N)
               /\ \/ N = log[i]
                  \/ /\ Len(N) = Last(m)
                     /\ Last(m) > Len(log[i]) \/ Conflicts(i, m) # {}
                     /\ \A k \in 1 .. m.prev_idx : N[k] = log[i][k]
                     /\ \A k \in m.prev_idx + 1 .. Last(m) : N[k] = m.entries[k - m.prev_idx]
<1> DEFINE i == m.to
<1>1. log[i] \in Seq(Nat) /\ Len(log[i]) \in Nat
  BY ReceiverFacts, Zenon
<1>2. /\ m.prev_idx \in Nat /\ m.prev_idx <= Len(log[i]) /\ m.entries \in Seq(Nat)
      /\ Last(m) = m.prev_idx + Len(m.entries) /\ Last(m) \in Nat
  BY PrevFacts, Zenon
<1>3. CASE Last(m) <= Len(log[i]) /\ Conflicts(i, m) = {}
  BY <1>1, <1>3, Zenon DEF Merged
<1>4. CASE ~ (Last(m) <= Len(log[i]) /\ Conflicts(i, m) = {})
  <2> DEFINE N == SubSeq(log[i], 1, m.prev_idx) \o m.entries
  <2>1. Merged(i, m) = N
    BY <1>4, Zenon DEF Merged
  <2>2. /\ N \in Seq(Nat) /\ Len(N) = m.prev_idx + Len(m.entries)
        /\ \A k \in 1 .. m.prev_idx : N[k] = log[i][k]
        /\ \A k \in m.prev_idx + 1 .. m.prev_idx + Len(m.entries) :
               N[k] = m.entries[k - m.prev_idx]
    BY <1>1, <1>2, ConcatFacts, Zenon
  <2>3. Last(m) > Len(log[i]) \/ Conflicts(i, m) # {}
    BY <1>1, <1>2, <1>4
  <2>4. Len(N) = Last(m) /\ Last(m) <= Len(N)
    BY <1>2, <2>2
  <2> HIDE DEF N
  <2> QED
    BY <1>2, <2>1, <2>2, <2>3, <2>4, Zenon
<1> QED
  BY <1>3, <1>4, Zenon

LEMMA MergedIsGlued ==
    ASSUME ElectionInv, LogInv, NEW m \in msgs, m.type = "appendentries",
           ~ PrevMissing(m.to, m), ~ PrevConflicts(m.to, m)
    PROVE  Glued(Merged(m.to, m))
<1> DEFINE i == m.to
           p == m.prev_idx
           F == Fragment(m)
<1>1. PICK L \in Fragments : L = log[i] /\ L \in Seq(Nat) /\ Len(L) \in Nat
  BY ReceiverFacts, Zenon
<1>2. /\ p \in Nat /\ p <= Len(L) /\ (p # 0 => L[p] = m.prev_term)
      /\ m.entries \in Seq(Nat)
      /\ Last(m) = p + Len(m.entries) /\ Last(m) \in Nat
  BY <1>1, PrevFacts, Zenon
<1>3. F \in Fragments
  <2>1. HasFragment(m)
    BY DEF HasFragment
  <2> QED
    BY <2>1 DEF Fragments
<1>4. /\ DOMAIN F = Max(p, 1) .. Last(m)
      /\ \A k \in Max(p, 1) .. Last(m) : F[k] = IF k = p THEN m.prev_term ELSE m.entries[k - p]
  BY Zenon DEF Fragment, AppendFragment
<1>5. IsFragment(L) /\ IsFragment(F) /\ \A Y \in Fragments : IsFragment(Y)
  BY <1>1, <1>3, FragmentsAreFragments
<1>6. PICK N \in Seq(Nat) :
          /\ N = Merged(i, m)
          /\ \/ N = L
             \/ /\ Len(N) = Last(m)
                /\ \A k \in 1 .. p : N[k] = L[k]
                /\ \A k \in p + 1 .. Last(m) : N[k] = m.entries[k - p]
  BY <1>1, MergedShape, Zenon
<1> HIDE DEF p, F, i
<1>7. CASE N = L
  BY <1>1, <1>6, <1>7, FragmentIsGlued, Zenon DEF i
<1>8. CASE /\ Len(N) = Last(m)
           /\ \A k \in 1 .. p : N[k] = L[k]
           /\ \A k \in p + 1 .. Last(m) : N[k] = m.entries[k - p]
  <2>1. \A k \in DOMAIN N : IF k <= p THEN k \in DOMAIN L /\ N[k] = L[k]
                                      ELSE k \in DOMAIN F /\ N[k] = F[k]
    <3> SUFFICES ASSUME NEW k \in DOMAIN N
                 PROVE  IF k <= p THEN k \in DOMAIN L /\ N[k] = L[k]
                                  ELSE k \in DOMAIN F /\ N[k] = F[k]
      OBVIOUS
    <3>1. k \in Nat /\ k >= 1 /\ k <= Last(m)
      BY <1>2, <1>6, <1>8, SMTT(30)
    <3>2. CASE k <= p
      <4>1. k \in 1 .. p /\ k \in 1 .. Len(L)
        BY <1>1, <1>2, <3>1, <3>2
      <4> QED
        BY <1>1, <1>8, <3>2, <4>1, SMTT(30)
    <3>3. CASE ~ (k <= p)
      <4>1. k \in p + 1 .. Last(m) /\ k # p /\ k \in Max(p, 1) .. Last(m)
        BY <1>2, <3>1, <3>3, SMTT(30) DEF Max
      <4>2. N[k] = m.entries[k - p] /\ F[k] = m.entries[k - p]
        BY <1>4, <1>8, <4>1
      <4> QED
        BY <1>4, <3>3, <4>1, <4>2, Zenon
    <3> QED
      BY <3>2, <3>3, SMTT(30)
  <2>2. p # 0 => p \in DOMAIN L /\ p \in DOMAIN F /\ L[p] = F[p]
    <3> SUFFICES ASSUME p # 0 PROVE p \in DOMAIN L /\ p \in DOMAIN F /\ L[p] = F[p]
      OBVIOUS
    <3>1. p \in 1 .. Len(L) /\ p \in Max(p, 1) .. Last(m)
      BY <1>1, <1>2, SMTT(30) DEF Max
    <3>2. L[p] = m.prev_term /\ F[p] = m.prev_term
      BY <1>2, <1>4, <3>1
    <3> QED
      BY <1>1, <1>4, <3>1, <3>2, SMTT(30)
  <2>3. IsFragment(N)
    BY LogIsFragment, SMTT(30)
  <2>4. \A Y \in Fragments : Agree(L, Y) /\ Agree(F, Y)
    BY <1>1, <1>3 DEF LogInv, Match
  <2>5. \A Y \in Fragments : Agree(N, Y) /\ Agree(Y, N)
    BY <1>2, <1>5, <2>1, <2>2, <2>3, <2>4, GluedMatches, Zenon
  <2>6. \A k \in DOMAIN N : \E Y \in Fragments : k \in DOMAIN Y /\ Y[k] = N[k]
    BY <1>1, <1>3, <2>1, Zenon
  <2> QED
    BY <1>6, <2>5, <2>6, Zenon DEF Glued, i
<1> QED
  BY <1>6, <1>7, <1>8, Zenon

(* What is committed stays in the log: the first entry that conflicts is not. *)
LEMMA MergedKeepsCommitted ==
    ASSUME ElectionInv, LogInv, NEW m \in msgs, m.type = "appendentries",
           ~ PrevMissing(m.to, m), ~ PrevConflicts(m.to, m), ~ GivesUp(m.to, m)
    PROVE  commit_idx[m.to] <= Len(Merged(m.to, m))
<1> DEFINE i == m.to
           N == Merged(i, m)
           C == Conflicts(i, m)
<1>1. /\ Len(log[i]) \in Nat /\ commit_idx[i] \in Nat /\ commit_idx[i] <= Len(log[i])
  BY ReceiverFacts, Zenon
<1>2. m.prev_idx \in Nat /\ Last(m) \in Nat
  BY PrevFacts, Zenon
<1>3. /\ N \in Seq(Nat)
      /\ \/ N = log[i]
         \/ Len(N) = Last(m) /\ (Last(m) > Len(log[i]) \/ C # {})
  BY MergedShape, Zenon
<1>4. C \in SUBSET Nat /\ \A x \in C : x <= Last(m)
  BY <1>1, <1>2, SMTT(30) DEF Conflicts, Min
<1>5. C # {} => commit_idx[i] < Last(m)
  <2> SUFFICES ASSUME C # {} PROVE commit_idx[i] < Last(m)
    OBVIOUS
  <2>1. PICK x \in C : \A y \in C : x <= y
    BY <1>4, LeastNumber
  <2>2. ~ (x <= commit_idx[i])
    BY <2>1, Zenon DEF GivesUp
  <2>3. x \in Nat /\ x <= Last(m)
    BY <1>4, SMTT(30)
  <2> HIDE DEF C
  <2> QED
    BY <1>1, <1>2, <2>2, <2>3, SMTT(30)
<1> HIDE DEF C, N, i
<1>6. CASE N = log[i]
  BY <1>1, <1>6, SMTT(30) DEF N, i
<1>7. CASE Len(N) = Last(m) /\ Last(m) > Len(log[i])
  <2>1. commit_idx[i] <= Len(N)
    BY <1>1, <1>2, <1>7, SMTT(30)
  <2> QED
    BY <2>1, SMTT(30) DEF N, i
<1>8. CASE Len(N) = Last(m) /\ C # {}
  <2>1. commit_idx[i] <= Len(N)
    BY <1>1, <1>2, <1>5, <1>8
  <2> QED
    BY <2>1, SMTT(30) DEF N, i
<1> QED
  BY <1>3, <1>6, <1>7, <1>8

LEMMA AppendEntriesPreserves ==
    ASSUME ElectionInv, ElectionInv', VotesMove, LogInv, NEW m \in msgs, RecvAppendEntries(m)
    PROVE  LogInv'
<1> DEFINE i == m.to
<1>0. /\ i \in Node /\ StorageTypes /\ EntryMsgOK(m)
      /\ log[i] \in Seq(Nat) /\ Len(log[i]) \in Nat /\ commit_idx[i] \in Nat
      /\ snapshot_last_idx[i] \in Nat /\ next_snapshot[i] \in Nat
      /\ durable[i] \in Nat /\ written[i] \in Nat
      /\ snapshot_last_idx[i] <= commit_idx[i] /\ next_snapshot[i] <= commit_idx[i]
  BY ReceiverFacts, Zenon
<1>1. /\ m.type = "appendentries" /\ ~ PrevMissing(i, m) /\ ~ PrevConflicts(i, m)
      /\ ~ GivesUp(i, m) /\ BecomeFollower(i, m.term)
      /\ Exchange({m}, {AppendResp(m, m.term, TRUE, Last(m))})
      /\ UNCHANGED <<snapshot_last_idx, next_snapshot>>
      /\ log' = [log EXCEPT ![i] = Merged(i, m)]
      /\ commit_idx' = [commit_idx EXCEPT ![i] = FollowerCommit(i, Merged(i, m), m)]
      /\ IF m.entries = << >> THEN UNCHANGED <<durable, written>>
                              ELSE Synced(i, Len(Merged(i, m)))
  BY Zenon DEF RecvAppendEntries
<1>2. Last(m) \in Nat /\ Last(m) >= 1
  BY <1>1, PrevFacts, Zenon
<1>3. PICK l \in Seq(Nat) : /\ l = Merged(i, m) /\ Glued(l) /\ Last(m) <= Len(l)
                            /\ commit_idx[i] <= Len(l)
  BY <1>1, MergedShape, MergedIsGlued, MergedKeepsCommitted, Zenon
<1>4. PICK c \in Nat : /\ c = FollowerCommit(i, l, m) /\ c >= commit_idx[i] /\ c <= Len(l)
  <2>1. m.leader_commit \in Nat
    BY <1>0, <1>1, Zenon DEF EntryMsgOK
  <2>2. Len(l) \in Nat /\ Len(l) >= 1
    BY <1>2, <1>3, SMTT(30)
  <2> HIDE DEF i
  <2>3. LET c == FollowerCommit(i, l, m) IN c \in Nat /\ c >= commit_idx[i] /\ c <= Len(l)
    BY <1>0, <1>3, <2>1, <2>2, SMTT(30) DEF FollowerCommit, Min, Max
  <2> QED
    BY <2>3
<1>5. QuietMessages
  <2> DEFINE r == AppendResp(m, m.term, TRUE, Last(m))
  <2>1. r.type = "appendentries_resp" /\ r.current_idx = Last(m) /\ r.term = m.term
    BY DEF AppendResp
  <2> HIDE DEF r
  <2>2. \A n \in Nat : Reaches(r, n) => Reaches(m, n) /\ m.term = r.term
    BY <1>1, <2>1, Zenon DEF Reaches
  <2>3. QuietMsg(r)
    BY <1>2, <2>1, <2>2, Zenon DEF QuietMsg, HasFragment, EntryMsgOK
  <2>4. Exchange({m}, {r})
    BY <1>1, Zenon DEF r
  <2> QED
    BY <2>3, <2>4, ExchangeQuietly, SMTT(30)
<1>6. PICK d \in Nat, w \in Nat : /\ durable' = [durable EXCEPT ![i] = d]
                                  /\ written' = [written EXCEPT ![i] = w]
  <2>1. CASE m.entries = << >>
    <3>1. /\ durable' = [durable EXCEPT ![i] = durable[i]]
          /\ written' = [written EXCEPT ![i] = written[i]]
      BY <1>0, <1>1, <2>1, Zenon DEF StorageTypes
    <3> QED
      BY <1>0, <3>1
  <2>2. CASE m.entries # << >>
    <3>1. Len(l) \in Nat
      OBVIOUS
    <3>2. durable' = [durable EXCEPT ![i] = Len(l)] /\ written' = [written EXCEPT ![i] = Len(l)]
      BY <1>1, <1>3, <2>2, Zenon DEF Synced
    <3> QED
      BY <3>1, <3>2
  <2> QED
    BY <2>1, <2>2, Zenon
<1>7. PICK s \in Nat, x \in Nat : s = snapshot_last_idx[i] /\ x = next_snapshot[i]
  BY <1>0, Zenon
<1>8. /\ snapshot_last_idx' = [snapshot_last_idx EXCEPT ![i] = s]
      /\ next_snapshot' = [next_snapshot EXCEPT ![i] = x]
      /\ commit_idx' = [commit_idx EXCEPT ![i] = c]
      /\ log' = [log EXCEPT ![i] = l]
  BY <1>0, <1>1, <1>3, <1>4, <1>7, Zenon DEF StorageTypes
<1> HIDE DEF i
<1>9. s <= c /\ x <= c
  BY <1>0, <1>4, <1>7, SMTT(30)
<1>10. CutOf(l, l)
  BY DEF CutOf
<1> QED
  BY <1>0, <1>1, <1>3, <1>4, <1>5, <1>6, <1>8, <1>9, <1>10, FollowerLogStep, Zenon

-----------------------------------------------------------------------------
(* Crashes *)

LEMMA RestartedPreserves ==
    ASSUME ElectionInv, ElectionInv', VotesMove, LogInv,
           NEW i \in Node, NEW t, BecomeFollower(i, t), QuietMessages,
           NEW N, Glued(N), NEW old \in Seq(Nat), \E Y \in Fragments \cup {N} : CutOf(old, Y),
           NEW k \in Nat, k <= Len(old), NEW kind, NEW synced \in Nat,
           Restarted(i, SubSeq(old, 1, k), kind, synced)
    PROVE  LogInv'
<1>0. /\ StorageTypes /\ log[i] \in Seq(Nat) /\ Len(log[i]) \in Nat
      /\ log[i] \in Fragments /\ commit_idx[i] \in Nat /\ snapshot_last_idx[i] \in Nat
      /\ snapshot_last_idx[i] <= Len(log[i])
  <2>1. /\ StorageTypes /\ log[i] \in Seq(Nat) /\ Len(log[i]) \in Nat
        /\ log[i] \in Fragments /\ commit_idx[i] \in Nat /\ snapshot_last_idx[i] \in Nat
    BY NodeTypes, Zenon DEF LogInv, Fragments
  <2>2. snapshot_last_idx[i] <= commit_idx[i] /\ commit_idx[i] <= Len(log[i])
    BY Zenon DEF LogInv, IndexesOK
  <2> QED
    BY <2>1, <2>2, SMTT(30)
<1>1. PICK s \in Nat : s = snapshot_last_idx[i] /\ s <= Len(log[i])
  BY <1>0, Zenon
<1>2. PICK cut \in Seq(Nat) : cut = SubSeq(old, 1, k) /\ Len(cut) = k /\ CutOf(cut, old)
  BY PrefixFacts
<1> DEFINE behind == Len(cut) < s
<1>3. PICK l \in Seq(Nat) :
          /\ l = IF behind THEN SubSeq(log[i], 1, s) ELSE cut
          /\ s <= Len(l) /\ \E Y \in Fragments \cup {N} : CutOf(l, Y)
  <2>1. CASE behind
    <3>1. /\ SubSeq(log[i], 1, s) \in Seq(Nat) /\ Len(SubSeq(log[i], 1, s)) = s
          /\ CutOf(SubSeq(log[i], 1, s), log[i])
      BY <1>0, <1>1, PrefixFacts, Zenon
    <3>2. s <= Len(SubSeq(log[i], 1, s))
      BY <3>1
    <3>3. \E Y \in Fragments \cup {N} : CutOf(SubSeq(log[i], 1, s), Y)
      BY <1>0, <3>1, Zenon
    <3> QED
      BY <2>1, <3>1, <3>2, <3>3, Zenon
  <2>2. CASE ~ behind
    <3>1. \E Y \in Fragments \cup {N} : CutOf(cut, Y)
      BY <1>2, SMTT(30) DEF CutOf
    <3>2. s <= Len(cut)
      BY <1>2, <2>2
    <3> QED
      BY <2>2, <3>1, <3>2, SMTT(30)
  <2> QED
    BY <2>1, <2>2, SMTT(30)
<1>4. /\ log' = [log EXCEPT ![i] = l]
      /\ durable' = [durable EXCEPT ![i] = IF behind THEN s ELSE synced]
      /\ written' = [written EXCEPT ![i] = Max(Len(cut), s)]
      /\ commit_idx' = [commit_idx EXCEPT ![i] = s]
      /\ next_snapshot' = [next_snapshot EXCEPT ![i] = 0]
      /\ UNCHANGED snapshot_last_idx
  BY <1>1, <1>2, <1>3, Zenon DEF Restarted
<1>5. PICK d \in Nat : d = IF behind THEN s ELSE synced
  OBVIOUS
<1>6. PICK w \in Nat : w = Max(Len(cut), s)
  BY SMTT(30) DEF Max
<1>7. snapshot_last_idx' = [snapshot_last_idx EXCEPT ![i] = s]
  BY <1>0, <1>1, <1>4, SMTT(30) DEF StorageTypes
<1>8. 0 \in Nat /\ s <= s /\ 0 <= s
  OBVIOUS
<1> HIDE DEF behind
<1> QED
  BY <1>3, <1>4, <1>5, <1>6, <1>7, <1>8, FollowerLogStep, Zenon

LEMMA CrashPreserves ==
    ASSUME ElectionInv, ElectionInv', VotesMove, LogInv, NEW i \in Node, Crash(i)
    PROVE  LogInv'
<1>0. /\ log[i] \in Seq(Nat) /\ Len(log[i]) \in Nat /\ log[i] \in Fragments
      /\ durable[i] \in Nat /\ written[i] \in Nat
  BY NodeTypes, Zenon DEF LogInv, Fragments
<1>1. BecomeFollower(i, current_term[i]) /\ QuietMessages
  BY NothingSentQuietly, Zenon DEF Crash
<1>2. PICK kind \in CrashKinds : \E k \in Kept(i, kind) .. Len(log[i]) :
          Restarted(i, SubSeq(log[i], 1, k), kind, IF kind = "power" THEN k ELSE durable[i])
  BY Zenon DEF Crash
<1>3. Kept(i, kind) \in Nat
  BY <1>0, Zenon DEF Kept
<1> PICK k \in Kept(i, kind) .. Len(log[i]) :
          Restarted(i, SubSeq(log[i], 1, k), kind, IF kind = "power" THEN k ELSE durable[i])
  BY <1>2, Zenon
<1>4. k \in Nat /\ k <= Len(log[i])
  BY <1>0, <1>3, SMTT(30)
<1>5. PICK synced \in Nat : synced = IF kind = "power" THEN k ELSE durable[i]
  BY <1>0, <1>4, SMTT(30)
<1>6. PICK N \in Seq(Nat) : N = log[i] /\ N \in Fragments /\ Glued(N) /\ CutOf(N, N)
  BY <1>0, FragmentIsGlued, SMTT(30) DEF CutOf
<1>7. Restarted(i, SubSeq(N, 1, k), kind, synced) /\ k <= Len(N)
  BY <1>4, <1>5, <1>6
<1> QED
  BY <1>1, <1>4, <1>6, <1>7, RestartedPreserves, Zenon

(* The entries that the deletion inside raft_recv_appendentries has left alone. *)
LEMMA SameExists ==
    ASSUME ElectionInv, LogInv, NEW m \in msgs, m.type = "appendentries",
           ~ PrevMissing(m.to, m), ~ PrevConflicts(m.to, m), Merged(m.to, m) # log[m.to]
    PROVE  LET i == m.to
               l == Merged(i, m)
           IN  (CHOOSE n \in m.prev_idx .. Len(l) :
                    /\ IsPrefixOf(SubSeq(l, 1, n), log[i])
                    /\ n = Len(log[i]) \/ l[n + 1] # log[i][n + 1]) \in Nat
<1> DEFINE i == m.to
           p == m.prev_idx
           C == Conflicts(i, m)
<1>1. PICK L \in Seq(Nat) : L = log[i] /\ Len(L) \in Nat
  BY ReceiverFacts, Zenon
<1>2. p \in Nat /\ p <= Len(L) /\ Last(m) \in Nat /\ Last(m) >= p
  BY <1>1, PrevFacts, SMT, Zenon
<1>3. PICK l \in Seq(Nat) :
          /\ l = Merged(i, m) /\ Len(l) = Last(m)
          /\ Last(m) > Len(L) \/ C # {}
          /\ \A k \in 1 .. p : l[k] = L[k]
          /\ \A k \in p + 1 .. Last(m) : l[k] = m.entries[k - p]
  BY <1>1, MergedShape, Zenon
<1>4. \A x \in C : x \in p + 1 .. Min(Last(m), Len(L)) /\ L[x] # m.entries[x - p]
  BY <1>1, Zenon DEF Conflicts
<1> HIDE DEF C, p, i
<1> DEFINE T == {n \in p .. Len(l) : n = Len(L) \/ l[n + 1] # L[n + 1]}
<1>5. T \in SUBSET Nat /\ T # {}
  <2>1. CASE Len(L) <= Len(l)
    <3>1. Len(L) \in T
      BY <1>1, <1>2, <1>3, <2>1, SMTT(30)
    <3> QED
      BY <1>2, <3>1
  <2>2. CASE ~ (Len(L) <= Len(l))
    <3>1. PICK x \in C : TRUE
      BY <1>1, <1>2, <1>3, <2>2, SMTT(30)
    <3>2. x \in p + 1 .. Last(m) /\ L[x] # m.entries[x - p]
      BY <1>1, <1>2, <1>4, SMTT(30) DEF Min
    <3>3. l[x] # L[x]
      BY <1>3, <3>2
    <3>4. x - 1 \in p .. Len(l) /\ (x - 1) + 1 = x
      BY <1>2, <1>3, <3>2, SMTT(30)
    <3>5. x - 1 \in T
      BY <3>3, <3>4, Zenon
    <3> QED
      BY <1>2, <3>5, SMTT(30)
  <2> QED
    BY <2>1, <2>2, SMTT(30)
<1>6. PICK n \in T : \A x \in T : n <= x
  BY <1>5, LeastNumber, Zenon
<1>7. /\ n \in Nat /\ n >= p /\ n <= Len(l) /\ Len(l) \in Nat
      /\ n = Len(L) \/ l[n + 1] # L[n + 1]
  BY <1>2
<1>8. n <= Len(L)
  <2> SUFFICES ASSUME ~ (n <= Len(L)) PROVE FALSE
    OBVIOUS
  <2>1. Len(L) \in T
    BY <1>1, <1>2, <1>7, SMTT(30)
  <2> QED
    BY <1>1, <1>6, <1>7, <2>1, SMTT(30)
<1>9. \A k \in 1 .. n : l[k] = L[k]
  <2> SUFFICES ASSUME NEW k \in 1 .. n PROVE l[k] = L[k]
    OBVIOUS
  <2>1. CASE k <= p
    BY <1>2, <1>3, <2>1, SMTT(30)
  <2>2. CASE k > p
    <3>1. k - 1 \in p .. Len(l) /\ (k - 1) + 1 = k /\ k - 1 < n
      BY <1>2, <1>7, <2>2, SMTT(30)
    <3>2. k - 1 \notin T
      BY <1>6, <1>7, <3>1, SMTT(30)
    <3> QED
      BY <3>1, <3>2, SMTT(30)
  <2> QED
    BY <1>2, <1>7, <2>1, <2>2, SMTT(30)
<1>10. IsPrefixOf(SubSeq(l, 1, n), L)
  <2>1. Len(SubSeq(l, 1, n)) = n /\ \A k \in 1 .. n : SubSeq(l, 1, n)[k] = l[k]
    BY <1>7, PrefixFacts, SMTT(30)
  <2> QED
    BY <1>8, <1>9, <2>1, SMTT(30) DEF IsPrefixOf
<1> HIDE DEF T
<1>11. n \in p .. Len(l)
  BY <1>2, <1>7
<1>12. (CHOOSE x \in p .. Len(l) : /\ IsPrefixOf(SubSeq(l, 1, x), L)
                                   /\ x = Len(L) \/ l[x + 1] # L[x + 1]) \in p .. Len(l)
  BY <1>7, <1>10, <1>11, Zenon
<1> QED
  BY <1>1, <1>2, <1>3, <1>12, SMTT(30) DEF i, p

LEMMA CrashInHandlerPreserves ==
    ASSUME ElectionInv, ElectionInv', VotesMove, LogInv, NEW m \in msgs, CrashInHandler(m)
    PROVE  LogInv'
<1> DEFINE i == m.to
           t == IF m.type = "requestvote" /\ m.prevote THEN current_term[i]
                                                       ELSE Max(m.term, current_term[i])
           current == m.type = "appendentries" /\ m.term >= current_term[i]
           deletes == current /\ PrevConflicts(i, m) /\ ~ GivesUp(i, m)
           appends == /\ current /\ ~ PrevMissing(i, m) /\ ~ PrevConflicts(i, m)
                      /\ ~ GivesUp(i, m)
           l == IF deletes THEN SubSeq(log[i], 1, m.prev_idx - 1)
                ELSE IF appends THEN Merged(i, m) ELSE log[i]
           same == IF l = log[i] THEN Len(l)
                   ELSE IF deletes THEN m.prev_idx - 1
                   ELSE CHOOSE n \in m.prev_idx .. Len(l) :
                            /\ IsPrefixOf(SubSeq(l, 1, n), log[i])
                            /\ n = Len(log[i]) \/ l[n + 1] # log[i][n + 1]
<1>1. /\ BecomeFollower(i, t) /\ Exchange({m}, {})
      /\ \E kind \in CrashKinds, old \in {log[i], l} :
              \E k \in Min(same, Kept(i, kind)) .. Len(old) :
                 Restarted(i, SubSeq(old, 1, k), kind,
                           IF kind = "power" THEN k ELSE Min(same, durable[i]))
  BY Zenon DEF CrashInHandler
<1>2. i \in Node /\ QuietMessages
  BY <1>1, ReceiverFacts, NothingSentQuietly, Zenon
<1>3. /\ log[i] \in Seq(Nat) /\ Len(log[i]) \in Nat /\ log[i] \in Fragments
      /\ durable[i] \in Nat /\ written[i] \in Nat
  BY ReceiverFacts, Zenon
<1>4. Glued(log[i]) /\ \A Y : CutOf(Y, Y)
  BY <1>3, FragmentIsGlued DEF CutOf
<1>5. /\ l \in Seq(Nat) /\ same \in Nat
      /\ \E N : Glued(N) /\ \E Y \in Fragments \cup {N} : CutOf(l, Y)
  <2>1. CASE deletes
    <3>1. m.prev_idx - 1 \in Nat /\ m.prev_idx - 1 <= Len(log[i])
      <4>1. m.prev_idx \in Nat /\ m.prev_idx - 1 \in Nat
        BY <2>1, ConflictFacts, Zenon
      <4>2. m.prev_idx <= Len(log[i])
        <5>1. snapshot_last_idx[i] <= Len(log[i])
          BY ReceiverFacts
        <5> QED
          BY <2>1, <5>1, SMTT(30) DEF PrevConflicts, PrevMissing, PrevIsSnapshot, HasEntry
      <4> QED
        BY <1>3, <4>1, <4>2
    <3>2. l \in Seq(Nat) /\ CutOf(l, log[i]) /\ Len(l) \in Nat
      BY <1>3, <2>1, <3>1, PrefixFacts, Zenon
    <3>3. same \in Nat
      BY <2>1, <3>1, <3>2, Zenon
    <3> QED
      BY <1>3, <1>4, <3>2, <3>3, Zenon
  <2>2. CASE appends /\ Merged(i, m) # log[i]
    <3>1. l = Merged(i, m)
      BY <2>2, Zenon
    <3>2. Merged(i, m) \in Seq(Nat) /\ Glued(Merged(i, m))
      BY <2>2, MergedShape, MergedIsGlued, Zenon
    <3>3. (CHOOSE n \in m.prev_idx .. Len(Merged(i, m)) :
                /\ IsPrefixOf(SubSeq(Merged(i, m), 1, n), log[i])
                /\ n = Len(log[i]) \/ Merged(i, m)[n + 1] # log[i][n + 1]) \in Nat
      BY <2>2, SameExists, Zenon
    <3>4. same \in Nat
      BY <2>2, <3>1, <3>3, Zenon
    <3>5. \E Y \in Fragments \cup {Merged(i, m)} : CutOf(Merged(i, m), Y)
      BY <1>4, Zenon
    <3> HIDE DEF same
    <3> QED
      BY <3>1, <3>2, <3>4, <3>5, Zenon
  <2>3. CASE ~ deletes /\ ~ (appends /\ Merged(i, m) # log[i])
    <3>1. l = log[i]
      BY <2>3, Zenon
    <3>2. same \in Nat
      BY <1>3, <3>1, Zenon
    <3> HIDE DEF same, l
    <3> QED
      BY <1>3, <1>4, <3>1, <3>2, Zenon
  <2> QED
    BY <2>1, <2>2, <2>3, Zenon
<1> HIDE DEF same, l, t
<1>6. PICK kind \in CrashKinds, old \in {log[i], l} :
              \E k \in Min(same, Kept(i, kind)) .. Len(old) :
                 Restarted(i, SubSeq(old, 1, k), kind,
                           IF kind = "power" THEN k ELSE Min(same, durable[i]))
  BY <1>1, Zenon
<1>7. /\ old \in Seq(Nat) /\ Len(old) \in Nat
      /\ \E N : Glued(N) /\ \E Y \in Fragments \cup {N} : CutOf(old, Y)
  <2>1. CASE old = log[i]
    <3>1. \E Y \in Fragments \cup {log[i]} : CutOf(log[i], Y)
      BY <1>4
    <3> QED
      BY <1>3, <1>4, <2>1, <3>1, Zenon
  <2>2. CASE old = l
    <3>1. Len(l) \in Nat
      BY <1>5
    <3> QED
      BY <1>5, <2>2, <3>1, Zenon
  <2> QED
    BY <2>1, <2>2
<1>8. PICK N : Glued(N) /\ \E Y \in Fragments \cup {N} : CutOf(old, Y)
  BY <1>7, Zenon
<1>9. Min(same, Kept(i, kind)) \in Nat /\ Min(same, durable[i]) \in Nat
  BY <1>3, <1>5 DEF Min, Kept
<1> PICK k \in Min(same, Kept(i, kind)) .. Len(old) :
                 Restarted(i, SubSeq(old, 1, k), kind,
                           IF kind = "power" THEN k ELSE Min(same, durable[i]))
  BY <1>6, Zenon
<1>10. k \in Nat /\ k <= Len(old)
  BY <1>7, <1>9, SMTT(30)
<1>11. PICK synced \in Nat : synced = IF kind = "power" THEN k ELSE Min(same, durable[i])
  BY <1>9, <1>10, Zenon
<1>12. Restarted(i, SubSeq(old, 1, k), kind, synced)
  BY <1>11, Zenon
<1>13. BecomeFollower(i, t)
  BY <1>1, Zenon
<1>14. old \in Seq(Nat)
  BY <1>7, Zenon
<1> QED
  BY <1>2, <1>8, <1>10, <1>12, <1>13, <1>14, RestartedPreserves, Zenon

=============================================================================
