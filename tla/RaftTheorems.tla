---------------------------- MODULE RaftTheorems ----------------------------
(***************************************************************************)
(* RaftServer elects at most one leader in a term, and two logs that agree *)
(* on the term of an entry agree on everything before it, for any finite   *)
(* set of nodes, any batch size and any number of timeouts, messages,      *)
(* snapshots and crashes.                                                  *)
(***************************************************************************)
EXTENDS LogLeaderProofs, LogFollowerProofs, FiniteSetTheorems

-----------------------------------------------------------------------------
(* Majorities and numbers *)

LEMMA LeastNumberExists ==
    ASSUME NEW S \in SUBSET Nat, S # {}
    PROVE  \E n \in S : \A m \in S : n <= m
<1> DEFINE R == OpToRel(<, Nat)
<1>1. \A m, n \in Nat : m < n => <<m, n>> \in R
  BY DEF OpToRel
<1>2. IsWellFoundedOn(R, Nat)
  BY NatLessThanWellFounded, Zenon
<1> HIDE DEF R
<1>3. PICK n \in S : \A m \in S : ~ (<<m, n>> \in R)
  BY <1>2, WFMin
<1>4. \A m \in S : ~ (m < n)
  BY <1>1, <1>3, Zenon
<1>5. \A m \in S : n <= m
  BY <1>4
<1> QED
  BY <1>5

LEMMA QuorumFactsHold == QuorumFacts
<1>1. IsFiniteSet(Node) /\ Cardinality(Node) \in Nat /\ Cardinality(Node) > 1
  BY NodeAssumption, FS_CardinalityType
<1>2. Node # {} /\ Cardinality({}) = 0
  BY <1>1, FS_EmptySet
<1>3. Majority \in 1 .. Cardinality(Node)
  BY <1>1 DEF Majority
<1>4. ASSUME NEW A \in SUBSET Node
      PROVE  IsFiniteSet(A) /\ Cardinality(A) \in Nat
  BY <1>1, FS_Subset, FS_CardinalityType
<1>5. ASSUME NEW A \in SUBSET Node, NEW B \in SUBSET Node, A \subseteq B, A # B
      PROVE  Cardinality(A) < Cardinality(B)
  <2>1. Cardinality(A) \in Nat /\ Cardinality(B) \in Nat /\ IsFiniteSet(B)
    BY <1>4
  <2>2. Cardinality(A) <= Cardinality(B) /\ Cardinality(A) # Cardinality(B)
    BY <1>5, <2>1, FS_Subset
  <2> QED
    BY <2>1, <2>2
<1>6. ASSUME NEW A \in SUBSET Node, NEW B \in SUBSET Node,
             Cardinality(A) >= Majority, Cardinality(B) >= Majority
      PROVE  A \cap B # {}
  <2>1. Cardinality(A) \in Nat /\ Cardinality(B) \in Nat
    BY <1>4
  <2>2. Cardinality(A) + Cardinality(B) > Cardinality(Node)
    BY <1>1, <1>6, <2>1 DEF Majority
  <2> QED
    BY <1>1, <2>2, FS_MajoritiesIntersect
<1>7. ASSUME NEW A \in SUBSET Node, NEW x \in Node \ A
      PROVE  Cardinality(A \cup {x}) = Cardinality(A) + 1
  BY <1>4, <1>7, FS_AddElement
<1>8. \A S \in SUBSET Nat : S # {} => \E n \in S : \A m \in S : n <= m
  BY LeastNumberExists
<1> QED
  BY <1>2, <1>3, <1>4, <1>5, <1>6, <1>7, <1>8 DEF QuorumFacts

-----------------------------------------------------------------------------
(* The theorems *)

LEMMA VotesCountedPreserve ==
    ASSUME ElectionInv, ElectionInv', VotesMove, LogInv, NEW m \in msgs, RecvVoteResponse(m)
    PROVE  LogInv'
<1> DEFINE i == m.to
           counted == votes[i] \cup {m.from}
<1>1. i \in Node
  BY ReceiverFacts
<1>2. \/ UNCHANGED <<metadata, state, peers, storage, commit_idx>> /\ Exchange({m}, {})
      \/ BecomeCandidate(i, {m})
      \/ state[i] = "candidate" /\ BecomeLeader(i, {m}, counted)
  BY Zenon DEF RecvVoteResponse
<1>3. CASE state[i] = "candidate" /\ BecomeLeader(i, {m}, counted)
  BY <1>1, <1>3, BecomeLeaderPreserves, Zenon
<1>4. CASE ~ (state[i] = "candidate" /\ BecomeLeader(i, {m}, counted))
  BY <1>1, <1>2, <1>4, VoteCounts, Zenon
<1> QED
  BY <1>3, <1>4, SMTT(30)

LEMMA InitEstablishesLog == Init => LogInv
<1> SUFFICES ASSUME Init PROVE LogInv
  OBVIOUS
<1>1. StorageTypes
  BY SMTT(30) DEF Init, StorageTypes
<1>2. \A i \in Node : IndexesOK(i)
  BY SMTT(30) DEF Init, IndexesOK
<1>3. \A X \in Fragments : X = << >>
  BY DEF Init, Fragments
<1>4. Match(Fragments) /\ TermsAreElected /\ LeaderHasItsTerm
  BY <1>3, SMTT(30) DEF Match, Agree, TermsAreElected, LeaderHasItsTerm
<1>5. msgs = {}
  BY SMTT(30) DEF Init
<1> QED
  BY <1>1, <1>2, <1>4, <1>5 DEF LogInv, MessagesAreLeaders

LEMMA LogNextPreserves == ElectionInv /\ LogInv /\ [Next]_vars => LogInv'
<1> SUFFICES ASSUME ElectionInv, LogInv, [Next]_vars PROVE LogInv'
  OBVIOUS
<1>0. ElectionInv' /\ VotesMove
  BY NextPreserves
<1>1. ASSUME NEW i \in Node, NodeStep(i) PROVE LogInv'
  <2>1. CASE ElectionTimeout(i) \/ QuorumLost(i)
    BY <1>0, <2>1, ElectionSteps, Zenon
  <2>2. CASE BeginSnapshot(i) \/ CancelSnapshot(i)
    BY <1>0, <2>2, BookkeepingSteps, Zenon
  <2>3. CASE Heartbeat(i)
    BY <1>0, <2>3, HeartbeatPreserves, Zenon
  <2>4. CASE RecvEntry(i)
    BY <1>0, <2>4, RecvEntryPreserves, Zenon
  <2>5. CASE Flush(i)
    BY <1>0, <2>5, FlushPreserves, Zenon
  <2>6. CASE EndSnapshot(i)
    BY <1>0, <2>6, EndSnapshotPreserves, Zenon
  <2>7. CASE Crash(i)
    BY <1>0, <2>7, CrashPreserves, Zenon
  <2> QED
    BY <1>1, <2>1, <2>2, <2>3, <2>4, <2>5, <2>6, <2>7, Zenon DEF NodeStep
<1>2. ASSUME NEW m \in msgs, Receive(m) PROVE LogInv'
  <2>1. CASE \/ RecvPrevote(m) \/ RecvRequestVote(m) \/ RecvHigherTerm(m)
             \/ RecvStaleAppend(m) \/ RecvStaleSnapshot(m) \/ RecvSnapshotNotNeeded(m)
    BY <1>0, <2>1, ElectionSteps, Zenon
  <2>2. CASE RecvAppendAccepted(m) \/ RecvSnapshotResponse(m)
    BY <1>0, <2>2, BookkeepingSteps, Zenon
  <2>3. CASE RecvVoteResponse(m)
    BY <1>0, <2>3, VotesCountedPreserve, Zenon
  <2>4. CASE RecvAppendMismatch(m)
    BY <1>0, <2>4, MismatchPreserves, Zenon
  <2>5. CASE RecvAppendEntries(m)
    BY <1>0, <2>5, AppendEntriesPreserves, Zenon
  <2>6. CASE RecvAppendRefused(m)
    BY <1>0, <2>6, RefusedPreserves, Zenon
  <2>7. CASE RecvSnapshot(m)
    BY <1>0, <2>7, RecvSnapshotPreserves, Zenon
  <2>8. CASE CrashInHandler(m)
    BY <1>0, <2>8, CrashInHandlerPreserves, Zenon
  <2> QED
    BY <1>2, <2>1, <2>2, <2>3, <2>4, <2>5, <2>6, <2>7, <2>8, Zenon DEF Receive
<1>3. CASE UNCHANGED vars
  <2>1. /\ UNCHANGED <<log, durable, written, snapshot_last_idx, next_snapshot, commit_idx>>
        /\ UNCHANGED <<state, current_term, peers>> /\ UNCHANGED msgs
    BY <1>3, SMTT(30) DEF vars, peers, role, metadata, storage
  <2> QED
    BY <1>0, <2>1, SameRoleFacts, NothingSentQuietly, ElectoralStep, SMTT(30)
<1> QED
  BY <1>1, <1>2, <1>3, SMTT(30) DEF Next

LEMMA LogInvImpliesMatching == LogInv => LogMatching
<1> SUFFICES ASSUME LogInv, NEW i \in Node, NEW j \in Node,
                    NEW idx \in 1 .. Min(Len(log[i]), Len(log[j])),
                    log[i][idx] = log[j][idx], NEW k \in 1 .. idx
             PROVE  log[i][k] = log[j][k]
  BY Zenon DEF LogMatching
<1>1. /\ log[i] \in Seq(Nat) /\ log[j] \in Seq(Nat)
      /\ Agree(log[i], log[j])
  BY NodeTypes, Zenon DEF LogInv, Match, Fragments
<1>2. idx \in 1 .. Len(log[i]) /\ idx \in 1 .. Len(log[j])
  BY <1>1, SMTT(30) DEF Min
<1>3. DOMAIN log[i] = 1 .. Len(log[i]) /\ DOMAIN log[j] = 1 .. Len(log[j])
  BY <1>1, SMTT(30)
<1>4. k \in 1 .. Len(log[i]) /\ k \in 1 .. Len(log[j]) /\ k <= idx
  BY <1>1, <1>2
<1> QED
  BY <1>1, <1>2, <1>3, <1>4 DEF Agree

(* At most one leader in a term, for every finite set of voting nodes, any batch
   size and any number of timeouts, crashes, messages and terms: the votes that
   raft_recv_requestvote() gives and raftPersistMetadata() keeps are enough. *)
THEOREM OneLeaderPerTerm == Spec => []ElectionSafety
  BY QuorumFactsHold, InitEstablishes, NextPreserves, InvImpliesSafety, PTL DEF Spec

(* Two logs that agree on the term of an entry agree on all that is before it, for
   every finite set of voting nodes and every batch size, whatever is lost, held
   back or delivered twice, and through crashes of either kind: what
   raft_recv_appendentries() checks before it appends, raft_become_leader()'s own
   entry and the snapshots of raft_recv_snapshot() are enough. *)
THEOREM LogsMatch == Spec => []LogMatching
  BY QuorumFactsHold, InitEstablishes, InitEstablishesLog, NextPreserves, LogNextPreserves,
     LogInvImpliesMatching, PTL DEF Spec

(* A node has every entry that it has committed or put into a snapshot, and a leader
   never believes that a peer has more than it has itself. *)
IndexesInLog == \A i \in Node : IndexesOK(i)

(* So it is in every state: raft_send_snapshot(), raft_send_appendentries() and
   raft_apply_entry() never reach past the log, and no step commits an entry that the
   node does not have. *)
THEOREM IndexesStayInLog == Spec => []IndexesInLog
  BY QuorumFactsHold, InitEstablishes, InitEstablishesLog, NextPreserves, LogNextPreserves,
     PTL DEF Spec, LogInv, IndexesInLog
=============================================================================
