-------------------------- MODULE LogLeaderProofs ---------------------------
(***************************************************************************)
(* What a leader does preserves LogInv: it appends entries of its term,    *)
(* sends what is in its log, moves its commit index and takes snapshots.   *)
(*                                                                         *)
(* A new leader's term is not in any fragment, and an entry that a leader  *)
(* appends is the first one with its index and term: each term of an entry *)
(* had an election, whose majority is bound to one winner, and a leader    *)
(* has all entries of its own term.                                        *)
(***************************************************************************)
EXTENDS RaftServerProofs

-----------------------------------------------------------------------------
(* Appending *)

(* A candidate that gets a majority is the first to win its term. *)
LEMMA NewLeadersTerm ==
    ASSUME ElectionInv, ElectionInv', VotesMove, NEW i \in Node,
           state[i] = "candidate", state'[i] = "leader", current_term'[i] = current_term[i]
    PROVE  ~ TermIsElected(current_term[i])
<1>1. PICK t \in Nat : t = current_term[i]
  BY DEF ElectionInv, ElectionTypes
<1> SUFFICES ASSUME NEW c \in Node, NEW Q \in SUBSET Node, HasWon(c, Q, t)
             PROVE  FALSE
  BY <1>1 DEF TermIsElected
<1>2. HasWon(c, Q, t)'
  BY HasWonStays
<1>3. Counted(i)' \in SUBSET Node /\ Cardinality(Counted(i)') >= Majority /\ Elected(i)'
  BY DEF ElectionInv, ElectionTypes, Counted, LeadersHaveMajority, Elected
<1>4. PICK j \in Q : j \in Counted(i)'
  BY <1>3, SMTT(30) DEF HasWon, ElectionInv, QuorumFacts
<1>5. i = c
  BY <1>1, <1>2, <1>3, <1>4 DEF HasWon, VotesFor
<1> QED
  BY <1>1, <1>5 DEF HasWon

LEMMA AppendFacts ==
    ASSUME NEW l \in Seq(Nat), NEW t \in Nat
    PROVE  /\ Append(l, t) \in Seq(Nat) /\ Len(Append(l, t)) = Len(l) + 1
           /\ Append(l, t)[Len(l) + 1] = t
           /\ \A k \in 1 .. Len(l) : Append(l, t)[k] = l[k]
  OBVIOUS

(* A leader appends an entry of its term, which has no other entry of this term at
   its index. *)
LEMMA EntryAppended ==
    ASSUME ElectionInv, ElectionInv', VotesMove, LogInv, TypesStep, LeaderMessages,
           NEW i \in Node, NEW t \in Nat, NEW N, N = Append(log[i], t),
           log' = [log EXCEPT ![i] = N],
           state'[i] = "leader", current_term'[i] = t, current_term[i] = t,
           state[i] = "leader" \/ ~ TermIsElected(t),
           NewFragments(Fragments \cup {N}),
           \A j \in Node \ {i} : StaysLeader(j)
    PROVE  LogInv'
<1> DEFINE G == Fragments \cup {N}
           n == Len(log[i]) + 1
<1>0. /\ log[i] \in Seq(Nat) /\ log[i] \in Fragments /\ n \in Nat /\ StorageTypes
      /\ DOMAIN log[i] = 1 .. n - 1
  BY SMTT(30) DEF LogInv, StorageTypes, Fragments
<1>1. /\ N \in Seq(Nat) /\ DOMAIN N = 1 .. n /\ N[n] = t
      /\ \A k \in DOMAIN log[i] : k \in DOMAIN N /\ N[k] = log[i][k] /\ k < n
      /\ \A k \in DOMAIN N : k \in DOMAIN log[i] \/ k = n
      /\ log'[i] = N
  <2>1. log'[i] = N
    BY <1>0 DEF StorageTypes
  <2>2. /\ N \in Seq(Nat) /\ Len(N) = n /\ N[n] = t
        /\ \A k \in 1 .. Len(log[i]) : N[k] = log[i][k]
    BY <1>0, AppendFacts
  <2>3. DOMAIN N = 1 .. n
    BY <2>2
  <2> QED
    BY <1>0, <2>1, <2>2, <2>3
<1>2. \A X \in Fragments : IsFragment(X)
  BY FragmentsAreFragments, SMTT(30)
<1> HIDE DEF n
<1>3. ASSUME NEW Y \in Fragments, NEW k \in DOMAIN Y, Y[k] = t
      PROVE  k \in DOMAIN log[i] /\ log[i][k] = t
  BY <1>3, SMTT(30) DEF LogInv, LeaderHasItsTerm, TermsAreElected
<1>4. ASSUME NEW Y \in Fragments
      PROVE  Agree(N, Y) /\ Agree(Y, N)
  <2> SUFFICES ASSUME NEW k \in DOMAIN N \cap DOMAIN Y, N[k] = Y[k],
                      NEW j \in DOMAIN N \cap DOMAIN Y, j <= k
               PROVE  N[j] = Y[j]
    BY SMTT(30) DEF Agree
  <2>1. k \in DOMAIN log[i]
    BY <1>1, <1>3, SMTT(30)
  <2>2. j \in DOMAIN log[i]
    BY <1>0, <1>1, <2>1, SMTT(30)
  <2>3. Agree(log[i], Y)
    BY <1>0 DEF LogInv, Match
  <2> QED
    BY <1>1, <2>1, <2>2, <2>3, SMTT(30) DEF Agree
<1>5. \A X \in Fragments' : \E Y \in G : CutOf(X, Y)
  <2>1. \E Y \in G : CutOf(N, Y)
    BY DEF CutOf
  <2> QED
    BY <1>0, <2>1, FragmentsStep, Zenon
<1>6. Match(Fragments')
  <2>1. Agree(N, N)
    BY DEF Agree
  <2>2. Match(G)
    BY <1>4, <2>1, Zenon DEF Match, LogInv
  <2> QED
    BY <1>5, <2>2, CutsMatch, Zenon
<1>7. ASSUME NEW X \in Fragments', NEW k \in DOMAIN X
      PROVE  \/ \E Y \in Fragments : k \in DOMAIN Y /\ Y[k] = X[k]
             \/ k = n /\ X[k] = t
  <2>1. PICK Y \in G : CutOf(X, Y)
    BY <1>5, SMTT(30)
  <2>2. k \in DOMAIN Y /\ Y[k] = X[k]
    BY <2>1 DEF CutOf
  <2> QED
    BY <1>0, <1>1, <2>2, Zenon
<1> HIDE DEF G
<1>8. ElectionSafety' /\ LeadersAreElected'
  BY InvImpliesSafety, LeadersTermIsElected, PTL
<1>9. TermsAreElected'
  <2> SUFFICES ASSUME NEW X \in Fragments', NEW k \in DOMAIN X PROVE TermIsElected(X[k])'
    BY DEF TermsAreElected
  <2>1. ASSUME NEW Y \in Fragments, k \in DOMAIN Y, Y[k] = X[k] PROVE TermIsElected(X[k])'
    <3>1. TermIsElected(X[k]) /\ X[k] \in Nat
      BY <1>2, <2>1, SMTT(30) DEF LogInv, TermsAreElected, IsFragment
    <3> QED
      BY <3>1, TermStaysElected, SMTT(30)
  <2>2. CASE X[k] = t
    BY <1>8, <2>2, SMTT(30) DEF LeadersAreElected
  <2> QED
    BY <1>7, <2>1, <2>2
<1>10. LeaderHasItsTerm'
  <2> SUFFICES ASSUME NEW j \in Node, state'[j] = "leader",
                      NEW X \in Fragments', NEW k \in DOMAIN X, X[k] = current_term'[j]
               PROVE  k \in DOMAIN log'[j] /\ log'[j][k] = X[k]
    BY SMTT(30) DEF LeaderHasItsTerm
  <2>1. CASE j = i
    BY <1>1, <1>3, <1>7, <2>1, SMTT(30)
  <2>2. CASE j # i
    <3>1. X[k] # t
      BY <1>8, <2>2, SMTT(30) DEF ElectionSafety
    <3>2. PICK Y \in Fragments : k \in DOMAIN Y /\ Y[k] = X[k]
      BY <1>7, <3>1, SMTT(30)
    <3>3. state[j] = "leader" /\ current_term'[j] = current_term[j] /\ log'[j] = log[j]
      BY <2>2, SMTT(30) DEF StaysLeader
    <3> QED
      BY <3>2, <3>3, SMTT(30) DEF LogInv, LeaderHasItsTerm
  <2> QED
    BY <2>1, <2>2, SMTT(30)
<1>11. MessagesAreLeaders'
  <2>1. ASSUME NEW j \in Node, state'[j] = "leader"
        PROVE  \/ /\ state[j] = "leader" /\ current_term'[j] = current_term[j]
                  /\ Len(log'[j]) >= Len(log[j])
               \/ ~ TermIsElected(current_term'[j])
    <3>1. Len(log[j]) \in Nat
      BY <1>0, SMTT(30) DEF StorageTypes
    <3>2. CASE j # i
      BY <2>1, <3>1, <3>2 DEF StaysLeader
    <3>3. CASE j = i
      <4>1. Len(N) >= Len(log[i])
        BY <1>0
      <4> QED
        BY <1>1, <3>3, <4>1
    <3> QED
      BY <3>2, <3>3, SMTT(30)
  <2> QED
    BY <2>1, MessagesStep, SMTT(30) DEF TypesStep
<1> QED
  BY <1>6, <1>9, <1>10, <1>11 DEF LogInv, TypesStep

-----------------------------------------------------------------------------
(* Sending *)

LEMMA SubSeqFacts ==
    ASSUME NEW l \in Seq(Nat), NEW a \in Nat, a >= 1, NEW b \in Nat, b <= Len(l), a <= b + 1
    PROVE  /\ SubSeq(l, a, b) \in Seq(Nat) /\ Len(SubSeq(l, a, b)) = b - a + 1
           /\ \A k \in 1 .. b - a + 1 : SubSeq(l, a, b)[k] = l[a + k - 1]
  OBVIOUS

LEMMA ProductFacts ==
    ASSUME NEW a \in Nat, NEW x \in Nat
    PROVE  /\ a * MaxBatch \in Nat
           /\ a <= x \div MaxBatch => a * MaxBatch <= x
           /\ a = 0 => a * MaxBatch = 0
           /\ a * MaxBatch = 0 => a = 0
<1>1. MaxBatch \in Nat /\ MaxBatch >= 1
  BY BatchAssumption
<1>2. a * MaxBatch \in Nat /\ (a = 0 => a * MaxBatch = 0)
  BY <1>1
<1>3. a * MaxBatch = 0 => a = 0
  BY <1>1
<1>4. ASSUME a <= x \div MaxBatch PROVE a * MaxBatch <= x
  <2> DEFINE q == x \div MaxBatch
  <2>1. q \in Nat /\ MaxBatch * q <= x
    BY <1>1
  <2>2. a * MaxBatch <= MaxBatch * q
    BY <1>1, <1>4, <2>1
  <2>3. MaxBatch * q \in Nat
    BY <1>1, <2>1, SMTT(30)
  <2> QED
    BY <1>2, <2>1, <2>2, <2>3
<1> QED
  BY <1>2, <1>3, <1>4

IsView(v) ==
    /\ v.l \in Seq(Nat) /\ Len(v.l) >= 1 /\ v.c \in Nat /\ v.s \in Nat /\ v.s <= Len(v.l)

(* A message with entries is cut out of the sender's log. *)
LEMMA AppendReqFacts ==
    ASSUME NEW i, NEW p, NEW v, IsView(v), NEW prev \in Nat, prev <= Len(v.l)
    PROVE  LET m == AppendReq(i, p, v, prev)
           IN  /\ EntryMsgOK(m) /\ HasFragment(m) /\ CutOf(Fragment(m), v.l)
               /\ Last(m) <= Len(v.l) /\ m.term = v.t
               /\ m.type = "appendentries"
<1> DEFINE m == AppendReq(i, p, v, prev)
           last == Min(prev + MaxBatch, Len(v.l))
<1>1. /\ v.l \in Seq(Nat) /\ Len(v.l) >= 1 /\ v.c \in Nat /\ Len(v.l) \in Nat
      /\ MaxBatch \in Nat /\ MaxBatch >= 1
  BY BatchAssumption, SMTT(30) DEF IsView
<1>2. /\ m.type = "appendentries" /\ m.prev_idx = prev /\ m.leader_commit = v.c
      /\ m.prev_term = TermAt(v.l, prev) /\ m.entries = SubSeq(v.l, prev + 1, last)
      /\ m.term = v.t
  BY Zenon DEF AppendReq
<1>3. last \in Nat /\ last >= prev /\ last <= Len(v.l) /\ (prev = 0 => last >= 1)
  BY <1>1 DEF Min
<1> HIDE DEF m, last
<1>4. /\ m.entries \in Seq(Nat) /\ Len(m.entries) = last - prev
      /\ \A k \in 1 .. last - prev : m.entries[k] = v.l[prev + k]
  <2>1. /\ SubSeq(v.l, prev + 1, last) \in Seq(Nat)
        /\ Len(SubSeq(v.l, prev + 1, last)) = last - (prev + 1) + 1
        /\ \A k \in 1 .. last - (prev + 1) + 1 :
               SubSeq(v.l, prev + 1, last)[k] = v.l[prev + 1 + k - 1]
    BY <1>1, <1>3, SubSeqFacts
  <2>2. last - (prev + 1) + 1 = last - prev
    BY <1>3
  <2>3. ASSUME NEW k \in 1 .. last - prev PROVE m.entries[k] = v.l[prev + k]
    <3>1. m.entries[k] = v.l[prev + 1 + k - 1]
      BY <1>2, <2>1, <2>2, Zenon
    <3>2. prev + 1 + k - 1 = prev + k
      BY <1>3
    <3> QED
      BY <3>1, <3>2, Zenon
  <2> QED
    BY <1>2, <2>1, <2>2, <2>3, Zenon
<1>5. m.prev_term \in Nat /\ (prev = 0 => m.prev_term = 0) /\ (prev # 0 => m.prev_term = v.l[prev])
  BY <1>1, <1>2, SMTT(30) DEF TermAt
<1>6. prev = 0 => m.entries # << >>
  BY <1>3, <1>4, SMTT(30)
<1>7. EntryMsgOK(m) /\ HasFragment(m)
  BY <1>1, <1>2, <1>4, <1>5, <1>6 DEF EntryMsgOK, HasFragment
<1>8. Last(m) = last
  BY <1>2, <1>3, <1>4 DEF Last
<1>9. CutOf(Fragment(m), v.l)
  <2> DEFINE F == AppendFragment(m)
  <2>1. /\ Fragment(m) = F /\ DOMAIN F = Max(prev, 1) .. last
        /\ \A k \in Max(prev, 1) .. last :
               F[k] = IF k = prev THEN m.prev_term ELSE m.entries[k - prev]
    BY <1>2, <1>8, Zenon DEF Fragment, AppendFragment
  <2>2. Max(prev, 1) \in Nat /\ Max(prev, 1) >= prev /\ Max(prev, 1) >= 1
    BY DEF Max
  <2> HIDE DEF F
  <2>3. ASSUME NEW k \in Max(prev, 1) .. last PROVE k \in DOMAIN v.l /\ F[k] = v.l[k]
    <3>1. k \in Nat /\ k >= 1 /\ k >= prev /\ k <= Len(v.l)
      BY <1>1, <1>3, <2>2
    <3>2. CASE k = prev
      BY <1>1, <1>5, <2>1, <3>1, <3>2
    <3>3. CASE k # prev
      <4>1. k - prev \in 1 .. last - prev /\ prev + (k - prev) = k
        BY <1>3, <3>1, <3>3
      <4>2. m.entries[k - prev] = v.l[k]
        BY <1>4, <4>1, Zenon
      <4>3. F[k] = m.entries[k - prev]
        BY <2>1, <3>3, Zenon
      <4> QED
        BY <1>1, <3>1, <4>2, <4>3
    <3> QED
      BY <3>2, <3>3
  <2> QED
    BY <2>1, <2>3, SMTT(30) DEF CutOf
<1> QED
  BY <1>2, <1>3, <1>7, <1>8, <1>9 DEF m

LEMMA SnapshotReqFacts ==
    ASSUME NEW i, NEW p, NEW v, IsView(v)
    PROVE  LET m == SnapshotReq(i, p, v)
           IN  EntryMsgOK(m) /\ CutOf(Fragment(m), v.l) /\ m.type = "snapshot"
<1> DEFINE m == SnapshotReq(i, p, v)
<1>1. m.type = "snapshot" /\ m.snapshot = SubSeq(v.l, 1, v.s)
  BY DEF SnapshotReq
<1> HIDE DEF m
<1>2. m.snapshot \in Seq(Nat) /\ CutOf(m.snapshot, v.l)
  BY <1>1, PrefixFacts DEF IsView
<1>3. Fragment(m) = m.snapshot /\ EntryMsgOK(m)
  BY <1>1, <1>2 DEF Fragment, EntryMsgOK
<1> QED
  BY <1>1, <1>2, <1>3 DEF m

(* What m carries is cut out of l, the log of a leader in term t. *)
CarriesCut(m, l, t) ==
    /\ EntryMsgOK(m) /\ CutOf(Fragment(m), l)
    /\ \A n \in Nat : Reaches(m, n) => n <= Len(l) /\ m.term = t

IsNext(n, l) == n \in Nat /\ n >= 1 /\ n <= Len(l) + 1

LEMMA SentFacts ==
    ASSUME NEW i, NEW p, NEW v, IsView(v), NEW next, IsNext(next, v.l),
           NEW k \in Nat, k <= Needed(v, next)
    PROVE  /\ \A m \in Sent(i, p, v, next, k) : CarriesCut(m, v.l, v.t)
           /\ IsNext(NextAfter(v, next, k), v.l)
<1>0. /\ v.l \in Seq(Nat) /\ Len(v.l) \in Nat /\ v.s \in Nat /\ v.s <= Len(v.l)
      /\ next \in Nat /\ next >= 1 /\ next <= Len(v.l) + 1
  BY DEF IsView, IsNext
<1>1. CASE v.s >= next
  <2>1. ASSUME NEW m \in Sent(i, p, v, next, k) PROVE CarriesCut(m, v.l, v.t)
    <3>1. m = SnapshotReq(i, p, v)
      BY <1>1 DEF Sent
    <3>2. EntryMsgOK(m) /\ CutOf(Fragment(m), v.l) /\ m.type = "snapshot"
      BY <3>1, SnapshotReqFacts, Zenon
    <3> QED
      BY <3>2 DEF CarriesCut, Reaches
  <2>2. IsNext(NextAfter(v, next, k), v.l)
    BY <1>0, <1>1 DEF NextAfter, IsNext
  <2> QED
    BY <2>1, <2>2
<1>2. CASE ~ (v.s >= next)
  <2>1. ASSUME NEW b \in 1 .. k
        PROVE  LET prev == next - 1 + (b - 1) * MaxBatch
               IN  prev \in Nat /\ prev <= Len(v.l)
    <3>1. b - 1 \in Nat /\ b - 1 <= k - 1
      OBVIOUS
    <3>2. (b - 1) * MaxBatch \in Nat
      BY <3>1, ProductFacts
    <3>3. CASE next > Len(v.l)
      <4>1. b - 1 = 0
        BY <1>2, <3>1, <3>3 DEF Needed
      <4>2. (b - 1) * MaxBatch = 0
        BY <3>1, <4>1, ProductFacts
      <4> QED
        BY <1>0, <4>2
    <3>4. CASE ~ (next > Len(v.l))
      <4>1. Len(v.l) - next \in Nat /\ MaxBatch \in Nat \ {0}
        BY <1>0, <3>4, BatchAssumption
      <4>2. b - 1 <= (Len(v.l) - next) \div MaxBatch
        BY <1>2, <3>1, <3>4, <4>1 DEF Needed
      <4>3. (b - 1) * MaxBatch <= Len(v.l) - next
        BY <3>1, <4>1, <4>2, ProductFacts
      <4> QED
        BY <1>0, <3>2, <4>1, <4>3, SMTT(30)
    <3> QED
      BY <3>3, <3>4
  <2>2. ASSUME NEW m \in Sent(i, p, v, next, k) PROVE CarriesCut(m, v.l, v.t)
    <3>1. PICK b \in 1 .. k : m = AppendReq(i, p, v, next - 1 + (b - 1) * MaxBatch)
      BY <1>2 DEF Sent
    <3>2. PICK prev \in Nat : prev <= Len(v.l) /\ m = AppendReq(i, p, v, prev)
      BY <2>1, <3>1
    <3>3. /\ EntryMsgOK(m) /\ CutOf(Fragment(m), v.l) /\ m.type = "appendentries"
          /\ Last(m) <= Len(v.l) /\ m.term = v.t
      BY <3>2, AppendReqFacts, Zenon
    <3> QED
      BY <3>3, SMTT(30) DEF CarriesCut, Reaches
  <2>3. k * MaxBatch \in Nat
    BY ProductFacts
  <2>4. IsNext(NextAfter(v, next, k), v.l)
    BY <1>0, <1>2, <2>3 DEF NextAfter, IsNext, Min
  <2> QED
    BY <2>2, <2>4
<1> QED
  BY <1>1, <1>2

(* raft_send_appendentries *)
LEMMA SendFacts ==
    ASSUME NEW i \in Node, NEW P \in SUBSET Node, NEW v, IsView(v),
           NEW next, \A p \in Node : IsNext(next[p], v.l), NEW taken,
           SendAppendEntries(i, P, v, next, taken)
    PROVE  /\ \A m \in msgs' : m \in msgs \/ CarriesCut(m, v.l, v.t)
           /\ \E n \in [Node -> Nat] : /\ next_idx' = [next_idx EXCEPT ![i] = n]
                                       /\ \A p \in Node : IsNext(n[p], v.l)
<1>1. PICK k \in [P -> 0 .. MaxIndex] :
          /\ \A p \in P : k[p] <= Needed(v, next[p])
          /\ next_idx' = [next_idx EXCEPT ![i] =
                 [p \in Node |-> IF p \in P THEN NextAfter(v, next[p], k[p]) ELSE next[p]]]
          /\ Exchange(taken, UNION {Sent(i, p, v, next[p], k[p]) : p \in P})
  BY Zenon DEF SendAppendEntries
<1>2. MaxIndex \in Nat
  BY BoundsAssumption
<1>3. ASSUME NEW p \in P
      PROVE  /\ \A m \in Sent(i, p, v, next[p], k[p]) : CarriesCut(m, v.l, v.t)
             /\ IsNext(NextAfter(v, next[p], k[p]), v.l)
  <2>1. k[p] \in Nat /\ k[p] <= Needed(v, next[p]) /\ IsNext(next[p], v.l)
    BY <1>1, <1>2
  <2> QED
    BY <2>1, SentFacts, Zenon
<1>4. \A m \in msgs' : m \in msgs \/ CarriesCut(m, v.l, v.t)
  BY <1>1, <1>3, Zenon DEF Exchange
<1> DEFINE n == [p \in Node |-> IF p \in P THEN NextAfter(v, next[p], k[p]) ELSE next[p]]
<1>5. \A p \in Node : IsNext(n[p], v.l)
  BY <1>3, SMTT(30)
<1>6. n \in [Node -> Nat]
  BY <1>5 DEF IsNext
<1> QED
  BY <1>1, <1>4, <1>5, <1>6, Zenon

-----------------------------------------------------------------------------
(* The commit index *)

(* The index that raft_update_commit_idx looks for exists: the lowest one that fits
   all nodes, if no higher one does. *)
LEMMA QuorumIdxExists ==
    ASSUME ElectionInv, NEW match \in [Node -> Nat]
    PROVE  /\ QuorumIdx(match) \in {match[p] : p \in Node}
           /\ Cardinality({p \in Node : match[p] >= QuorumIdx(match)}) >= Majority
<1> DEFINE S == {match[p] : p \in Node}
           A(x) == {p \in Node : match[p] >= x}
           B(x) == {p \in Node : match[p] > x}
           T == {x \in S : Cardinality(A(x)) >= Majority}
           D == {Cardinality(A(x)) : x \in T}
<1>1. /\ Cardinality(Node) \in Nat /\ Cardinality({}) = 0
      /\ Node # {} /\ Majority \in Nat /\ Majority <= Cardinality(Node) /\ Majority >= 1
  BY DEF ElectionInv, QuorumFacts
<1>2. \A x : /\ A(x) \in SUBSET Node /\ B(x) \in SUBSET Node /\ Cardinality(A(x)) \in Nat
             /\ Cardinality(B(x)) \in Nat
  BY SMTT(30) DEF ElectionInv, QuorumFacts
<1>3. S \in SUBSET Nat /\ S # {}
  BY <1>1
<1>4. \A x \in Nat :
             /\ B(x) \in SUBSET A(x)
             /\ \A p \in Node : /\ p \in A(x) <=> match[p] >= x
                                /\ p \in B(x) <=> match[p] > x
  OBVIOUS
<1>5. T \in SUBSET S /\ \A x \in S : x \in T <=> Cardinality(A(x)) >= Majority
  OBVIOUS
<1>6. \A d : d \in D <=> \E x \in T : d = Cardinality(A(x))
  OBVIOUS
<1>7. \A x : x \in S <=> \E p \in Node : x = match[p]
  OBVIOUS
<1> HIDE DEF A, B, S, T, D
<1>8. T # {}
  <2>1. PICK x \in S : \A y \in S : x <= y
    BY <1>3, LeastNumber
  <2>2. \A p \in Node : match[p] >= x
    BY <1>3, <1>7, <2>1
  <2>3. A(x) = Node
    BY <1>2, <1>3, <1>4, <2>2
  <2> QED
    BY <1>1, <1>5, <2>3
<1>9. D \in SUBSET Nat /\ D # {}
  BY <1>2, <1>6, <1>8
<1>10. PICK x \in T : \A y \in T : Cardinality(A(x)) <= Cardinality(A(y))
  <2>1. PICK c \in D : \A d \in D : c <= d
    BY <1>9, LeastNumber
  <2> QED
    BY <1>6, <2>1
<1>11. Cardinality(B(x)) < Majority
  <2> SUFFICES ASSUME Cardinality(B(x)) >= Majority PROVE FALSE
    BY <1>1, <1>2
  <2>1. B(x) # {} /\ B(x) \in SUBSET Node
    BY <1>1, <1>2
  <2>2. PICK q \in B(x) : \A p \in B(x) : match[q] <= match[p]
    <3> DEFINE M == {match[p] : p \in B(x)}
    <3>1. M \in SUBSET Nat /\ M # {}
      BY <2>1
    <3>2. PICK c \in M : \A d \in M : c <= d
      BY <3>1, LeastNumber
    <3> QED
      BY <3>2
  <2>3. A(match[q]) = B(x)
    <3>1. q \in Node /\ x \in Nat /\ match[q] > x
      BY <1>3, <1>4, <1>5, <2>1
    <3>2. \A p \in Node : p \in A(match[q]) <=> p \in B(x)
      BY <1>4, <2>2, <3>1
    <3> QED
      BY <1>2, <2>1, <3>2
  <2>4. match[q] \in T
    BY <1>5, <1>7, <2>1, <2>3
  <2>5. B(x) \in SUBSET A(x) /\ B(x) # A(x)
    <3>1. PICK p \in Node : match[p] = x
      BY <1>5, <1>7
    <3> QED
      BY <1>3, <1>4, <1>5, <3>1
  <2>6. Cardinality(B(x)) < Cardinality(A(x))
    BY <1>2, <2>5 DEF ElectionInv, QuorumFacts
  <2> QED
    BY <1>2, <1>10, <2>3, <2>4, <2>6
<1>12. x \in S /\ Cardinality(A(x)) >= Majority /\ Cardinality(B(x)) < Majority
  BY <1>5, <1>11
<1> QED
  BY <1>12, Zenon DEF QuorumIdx, A, B, S

-----------------------------------------------------------------------------
(* The steps of a leader *)

LEMMA BookkeepingSteps ==
    ASSUME ElectionInv, ElectionInv', VotesMove, LogInv,
           \/ \E i \in Node : BeginSnapshot(i) \/ CancelSnapshot(i)
           \/ \E m \in msgs : RecvAppendAccepted(m) \/ RecvSnapshotResponse(m)
    PROVE  LogInv'
<1> USE DEF metadata, role, storage, peers
<1>0. StorageTypes /\ ElectionTypes /\ \A j \in Node : IndexesOK(j)
  BY SMTT(30) DEF LogInv, ElectionInv
<1>1. ASSUME NEW i \in Node, BeginSnapshot(i) \/ CancelSnapshot(i) PROVE LogInv'
  <2>1. /\ UNCHANGED <<log, durable, written, snapshot_last_idx, commit_idx, peers, state,
                       current_term, msgs>>
        /\ \E s \in {0, commit_idx[i]} : next_snapshot' = [next_snapshot EXCEPT ![i] = s]
    BY <1>1 DEF BeginSnapshot, CancelSnapshot
  <2>a. PICK s \in Nat : s <= commit_idx[i] /\ next_snapshot' = [next_snapshot EXCEPT ![i] = s]
    <3>1. commit_idx[i] \in Nat /\ 0 <= commit_idx[i]
      BY <1>0, NodeTypes
    <3>2. PICK s \in {0, commit_idx[i]} : next_snapshot' = [next_snapshot EXCEPT ![i] = s]
      BY <2>1, Zenon
    <3>3. s \in Nat /\ s <= commit_idx[i]
      BY <3>1
    <3> QED
      BY <3>2, <3>3, Zenon
  <2>2. StorageTypes'
    BY <1>0, <2>1, <2>a DEF StorageTypes
  <2>3. \A j \in Node : IndexesOK(j)'
    <3>1. \A j \in Node : next_snapshot'[j] \in {s, next_snapshot[j]} /\ (j # i => next_snapshot'[j] = next_snapshot[j])
      BY <1>0, <2>a DEF StorageTypes
    <3> QED
      BY <1>0, <2>1, <2>a, <3>1, Zenon DEF IndexesOK
  <2>4. \A j \in Node : StaysLeader(j)
    BY <2>1, Zenon DEF StaysLeader
  <2>5. QuietMessages
    BY <2>1, NothingSentQuietly, SMTT(30)
  <2> QED
    BY <2>1, <2>2, <2>3, <2>4, <2>5, QuietStep, SMTT(30)
<1>2. ASSUME NEW m \in msgs, RecvAppendAccepted(m) PROVE LogInv'
  <2> DEFINE i == m.to
  <2>1. /\ UNCHANGED <<storage, commit_idx, next_idx, state, current_term>>
        /\ m.type = "appendentries_resp" /\ state[i] = "leader" /\ m.term = current_term[i]
        /\ m.success /\ Exchange({m}, {})
        /\ match_idx' = [match_idx EXCEPT ![i][m.from] = Max(@, m.current_idx)]
    BY <1>2, SMTT(30) DEF RecvAppendAccepted
  <2>2. m.current_idx \in Nat /\ i \in Node /\ m.from \in Node
    BY <1>0, <2>1, SMTT(30) DEF LogInv, EntryMsgOK, ElectionTypes, MsgOK
  <2>3. m.current_idx <= Len(log[i])
    BY <2>1, <2>2, SMTT(30) DEF LogInv, MessagesAreLeaders, Reaches
  <2> HIDE DEF i
  <2>4. StorageTypes'
    BY <1>0, <2>1, <2>2 DEF StorageTypes, Max
  <2>5. \A j \in Node : IndexesOK(j)'
    <3> SUFFICES ASSUME NEW j \in Node PROVE IndexesOK(j)'
      OBVIOUS
    <3>1. ASSUME state[j] = "leader", NEW p \in Node PROVE match_idx'[j][p] <= Len(log[j])
      <4>1. match_idx[j][p] <= Len(log[j])
        BY <1>0, <3>1, Zenon DEF IndexesOK
      <4>2. \/ match_idx'[j][p] = match_idx[j][p]
            \/ j = i /\ match_idx'[j][p] = m.current_idx
        BY <1>0, <2>1, <2>2, Zenon DEF StorageTypes, Max
      <4> QED
        BY <2>3, <4>1, <4>2
    <3> QED
      BY <1>0, <2>1, <3>1, SMTT(30) DEF IndexesOK
  <2>6. \A j \in Node : StaysLeader(j)
    BY <2>1, SMTT(30) DEF StaysLeader
  <2>7. QuietMessages
    BY <2>1, NothingSentQuietly, SMTT(30)
  <2> QED
    BY <2>1, <2>4, <2>5, <2>6, <2>7, QuietStep, SMTT(30)
<1>3. ASSUME NEW m \in msgs, RecvSnapshotResponse(m) PROVE LogInv'
  <2> DEFINE i == m.to
  <2>1. /\ UNCHANGED <<storage, commit_idx, match_idx, state, current_term>>
        /\ state[i] = "leader" /\ Exchange({m}, {})
        /\ next_idx' = [next_idx EXCEPT ![i][m.from] = Max(@, snapshot_last_idx[i] + 1)]
        /\ i \in Node /\ m.from \in Node
    BY <1>0, <1>3, SMTT(30) DEF RecvSnapshotResponse, ElectionTypes, MsgOK
  <2> HIDE DEF i
  <2>a. snapshot_last_idx[i] + 1 \in Nat /\ next_idx[i][m.from] \in Nat
    BY <1>0, <2>1, NodeTypes, SMTT(30)
  <2>b. Max(next_idx[i][m.from], snapshot_last_idx[i] + 1) \in Nat
    BY <2>a, SMTT(30) DEF Max
  <2>2. StorageTypes'
    BY <1>0, <2>1, <2>b DEF StorageTypes
  <2>3. \A j \in Node : IndexesOK(j)'
    <3> SUFFICES ASSUME NEW j \in Node PROVE IndexesOK(j)'
      OBVIOUS
    <3>1. ASSUME state[j] = "leader", NEW p \in Node
          PROVE  next_idx'[j][p] >= 1 /\ next_idx'[j][p] <= Len(log[j]) + 1
      <4>1. /\ next_idx[j][p] >= 1 /\ next_idx[j][p] <= Len(log[j]) + 1
            /\ snapshot_last_idx[j] + 1 <= Len(log[j]) + 1 /\ snapshot_last_idx[j] + 1 >= 1
        <5>1. /\ snapshot_last_idx[j] \in Nat /\ commit_idx[j] \in Nat /\ Len(log[j]) \in Nat
          BY <1>0, SMTT(30) DEF StorageTypes
        <5> QED
          BY <1>0, <3>1, <5>1 DEF IndexesOK
      <4>2. \/ next_idx'[j][p] = next_idx[j][p]
            \/ j = i /\ next_idx'[j][p] = snapshot_last_idx[j] + 1
        BY <1>0, <2>1, Zenon DEF StorageTypes, Max
      <4> QED
        BY <4>1, <4>2, Zenon
    <3> QED
      BY <1>0, <2>1, <3>1, SMTT(30) DEF IndexesOK
  <2>4. \A j \in Node : StaysLeader(j)
    BY <2>1, SMTT(30) DEF StaysLeader
  <2>5. QuietMessages
    BY <2>1, NothingSentQuietly
  <2> QED
    BY <2>1, <2>2, <2>3, <2>4, <2>5, QuietStep, SMTT(30)
<1> QED
  BY <1>1, <1>2, <1>3

(* The messages of a send. *)
LEMMA SendMessages ==
    ASSUME NEW i \in Node, NEW G, NEW l \in G, NEW t,
           \A m \in msgs' : m \in msgs \/ CarriesCut(m, l, t),
           state'[i] = "leader", current_term'[i] = t, log'[i] = l, LogInv
    PROVE  /\ NewFragments(G) /\ LeaderMessages
           /\ \A m \in msgs' : EntryMsgOK(m)
<1>1. NewFragments(G)
  BY SMTT(30) DEF NewFragments, CarriesCut
<1>2. LeaderMessages
  BY SMTT(30) DEF LeaderMessages, CarriesCut
<1>3. \A m \in msgs' : EntryMsgOK(m)
  BY SMTT(30) DEF CarriesCut, LogInv
<1> QED
  BY <1>1, <1>2, <1>3, SMTT(30)

LEMMA SendStep ==
    ASSUME ElectionInv, ElectionInv', VotesMove, LogInv,
           NEW i \in Node, state[i] = "leader", UNCHANGED <<log, state, current_term>>,
           \A m \in msgs' : m \in msgs \/ CarriesCut(m, log[i], current_term[i]),
           StorageTypes', \A j \in Node : IndexesOK(j)'
    PROVE  LogInv'
<1>1. PICK N : N = log[i] /\ N \in Fragments
  BY DEF Fragments
<1>2. PICK t : t = current_term[i]
  OBVIOUS
<1>3. log' = [log EXCEPT ![i] = N]
  BY <1>1, Zenon DEF LogInv, StorageTypes
<1>4. /\ NewFragments(Fragments \cup {N}) /\ LeaderMessages
      /\ \A m \in msgs' : EntryMsgOK(m)
  <2>1. \A m \in msgs' : m \in msgs \/ CarriesCut(m, N, t)
    BY <1>1, <1>2, Zenon
  <2>2. PICK G : G = Fragments \cup {N}
    OBVIOUS
  <2>3. N \in G /\ state'[i] = "leader" /\ current_term'[i] = t /\ log'[i] = N
    BY <1>1, <1>2, <2>2, SMTT(30)
  <2>4. NewFragments(G) /\ LeaderMessages /\ \A m \in msgs' : EntryMsgOK(m)
    BY <2>1, <2>3, SendMessages
  <2> QED
    BY <2>2, <2>4, Zenon
<1>5. TypesStep
  BY <1>4, SMTT(30) DEF TypesStep
<1>6. \A Y \in Fragments : Agree(N, Y) /\ Agree(Y, N)
  BY <1>1, SMTT(30) DEF LogInv, Match
<1>7. CutOf(N, N) /\ \A j \in Node : StaysLeader(j)
  BY DEF CutOf, StaysLeader
<1> QED
  BY <1>1, <1>3, <1>4, <1>5, <1>6, <1>7, EntriesMove, Zenon

LEMMA ViewFacts ==
    ASSUME LogInv, ElectionInv, NEW i \in Node, state[i] = "leader",
           NEW c \in Nat, NEW s \in Nat, s <= Len(log[i])
    PROVE  /\ IsView(View(i)) /\ IsView([View(i) EXCEPT !.c = c])
           /\ IsView([View(i) EXCEPT !.s = s])
           /\ \A v \in {View(i), [View(i) EXCEPT !.c = c], [View(i) EXCEPT !.s = s]} :
                 v.l = log[i] /\ v.t = current_term[i]
           /\ \A p \in Node : IsNext(next_idx[i][p], log[i])
<1>1. /\ log[i] \in Seq(Nat) /\ Len(log[i]) \in Nat /\ commit_idx[i] \in Nat
      /\ snapshot_last_idx[i] \in Nat /\ \A p \in Node : next_idx[i][p] \in Nat
  BY NodeTypes DEF LogInv
<1>2. /\ Len(log[i]) >= 1 /\ snapshot_last_idx[i] <= commit_idx[i]
      /\ commit_idx[i] <= Len(log[i])
      /\ \A p \in Node : next_idx[i][p] >= 1 /\ next_idx[i][p] <= Len(log[i]) + 1
  BY DEF LogInv, IndexesOK
<1>3. snapshot_last_idx[i] <= Len(log[i])
  BY <1>1, <1>2, SMTT(30)
<1>4. /\ View(i).l = log[i] /\ View(i).t = current_term[i] /\ View(i).c = commit_idx[i]
      /\ View(i).s = snapshot_last_idx[i]
  BY DEF View
<1>5. /\ [View(i) EXCEPT !.c = c].l = log[i] /\ [View(i) EXCEPT !.c = c].t = current_term[i]
      /\ [View(i) EXCEPT !.c = c].c = c
      /\ [View(i) EXCEPT !.c = c].s = snapshot_last_idx[i]
  BY DEF View
<1>6. /\ [View(i) EXCEPT !.s = s].l = log[i] /\ [View(i) EXCEPT !.s = s].t = current_term[i]
      /\ [View(i) EXCEPT !.s = s].c = commit_idx[i]
      /\ [View(i) EXCEPT !.s = s].s = s
  BY SMTT(30) DEF View
<1>7. \A p \in Node : IsNext(next_idx[i][p], log[i])
  BY <1>1, <1>2 DEF IsNext
<1>8. IsView(View(i)) /\ IsView([View(i) EXCEPT !.c = c]) /\ IsView([View(i) EXCEPT !.s = s])
  BY <1>1, <1>2, <1>3, <1>4, <1>5, <1>6, SMTT(30) DEF IsView
<1> QED
  BY <1>4, <1>5, <1>6, <1>7, <1>8, SMTT(30)

LEMMA PlainViewFacts ==
    ASSUME LogInv, ElectionInv, NEW i \in Node, state[i] = "leader"
    PROVE  /\ IsView(View(i)) /\ View(i).l = log[i] /\ View(i).t = current_term[i]
           /\ \A p \in Node : IsNext(next_idx[i][p], View(i).l)
<1>1. 0 \in Nat /\ 0 <= Len(log[i])
  BY NodeTypes, SMTT(30) DEF LogInv
<1>2. View(i).l = log[i] /\ View(i).t = current_term[i]
  BY DEF View
<1>3. IsView(View(i)) /\ \A p \in Node : IsNext(next_idx[i][p], log[i])
  BY <1>1, ViewFacts, Zenon
<1> QED
  BY <1>2, <1>3, SMTT(30)

(* A leader's next_idx after a send. *)
LEMMA NextIdxFacts ==
    ASSUME LogInv, NEW i \in Node, NEW l, NEW n \in [Node -> Nat],
           next_idx' = [next_idx EXCEPT ![i] = n], \A p \in Node : IsNext(n[p], l)
    PROVE  /\ next_idx' \in [Node -> [Node -> Nat]] /\ next_idx'[i] = n
           /\ \A j \in Node \ {i} : next_idx'[j] = next_idx[j]
           /\ \A p \in Node : next_idx'[i][p] >= 1 /\ next_idx'[i][p] <= Len(l) + 1
  BY SMTT(30) DEF LogInv, StorageTypes, IsNext

LEMMA HeartbeatPreserves ==
    ASSUME ElectionInv, ElectionInv', VotesMove, LogInv, NEW i \in Node, Heartbeat(i)
    PROVE  LogInv'
<1> USE DEF metadata, role, storage, peers
<1>1. /\ state[i] = "leader" /\ SendAppendEntries(i, Peers(i), View(i), next_idx[i], {})
      /\ UNCHANGED <<state, current_term, match_idx, storage, commit_idx>>
  BY Zenon DEF Heartbeat
<1>2. /\ IsView(View(i)) /\ View(i).l = log[i] /\ View(i).t = current_term[i]
      /\ \A p \in Node : IsNext(next_idx[i][p], View(i).l)
  BY <1>1, PlainViewFacts
<1>3. /\ \A m \in msgs' : m \in msgs \/ CarriesCut(m, log[i], current_term[i])
      /\ \E n \in [Node -> Nat] : /\ next_idx' = [next_idx EXCEPT ![i] = n]
                                  /\ \A p \in Node : IsNext(n[p], log[i])
  <2>1. Peers(i) \in SUBSET Node
    BY DEF Peers
  <2> QED
    BY <1>1, <1>2, <2>1, SendFacts, Zenon
<1>4. /\ next_idx' \in [Node -> [Node -> Nat]]
      /\ \A j \in Node \ {i} : next_idx'[j] = next_idx[j]
      /\ \A p \in Node : next_idx'[i][p] >= 1 /\ next_idx'[i][p] <= Len(log[i]) + 1
  BY <1>3, NextIdxFacts, Zenon
<1>5. StorageTypes'
  BY <1>1, <1>4 DEF LogInv, StorageTypes
<1>6. \A j \in Node : IndexesOK(j)'
  BY <1>1, <1>4, Zenon DEF LogInv, IndexesOK
<1> QED
  BY <1>1, <1>3, <1>5, <1>6, SendStep

LEMMA RefusedPreserves ==
    ASSUME ElectionInv, ElectionInv', VotesMove, LogInv, NEW m \in msgs, RecvAppendRefused(m)
    PROVE  LogInv'
<1> USE DEF metadata, role, storage, peers
<1> DEFINE i == m.to
           next == [next_idx[i] EXCEPT ![m.from] = Min(m.current_idx + 1, Len(log[i]))]
<1>1. /\ state[i] = "leader" /\ SendAppendEntries(i, {m.from}, View(i), next, {m})
      /\ m.type = "appendentries_resp"
      /\ UNCHANGED <<state, current_term, match_idx, storage, commit_idx>>
      /\ i \in Node /\ {m.from} \in SUBSET Node
  BY Zenon DEF RecvAppendRefused, ElectionInv, ElectionTypes, MsgOK
<1>2. /\ IsView(View(i)) /\ View(i).l = log[i] /\ View(i).t = current_term[i]
      /\ \A p \in Node : IsNext(next_idx[i][p], View(i).l)
  BY <1>1, PlainViewFacts, Zenon
<1>3. \A p \in Node : IsNext(next[p], View(i).l)
  <2>1. m.current_idx \in Nat /\ Len(log[i]) \in Nat /\ Len(log[i]) >= 1
    BY <1>1, NodeTypes, Zenon DEF LogInv, EntryMsgOK, IndexesOK
  <2>2. IsNext(Min(m.current_idx + 1, Len(log[i])), log[i])
    BY <2>1, SMTT(30) DEF IsNext, Min
  <2>3. next_idx[i] \in [Node -> Nat]
    BY <1>1, NodeTypes DEF LogInv
  <2> QED
    BY <1>2, <2>2, <2>3, Zenon
<1> HIDE DEF next
<1>4. /\ \A o \in msgs' : o \in msgs \/ CarriesCut(o, log[i], current_term[i])
      /\ \E n \in [Node -> Nat] : /\ next_idx' = [next_idx EXCEPT ![i] = n]
                                  /\ \A p \in Node : IsNext(n[p], log[i])
  BY <1>1, <1>2, <1>3, SendFacts, ZenonT(30)
<1> HIDE DEF i
<1>5. /\ next_idx' \in [Node -> [Node -> Nat]]
      /\ \A j \in Node \ {i} : next_idx'[j] = next_idx[j]
      /\ \A p \in Node : next_idx'[i][p] >= 1 /\ next_idx'[i][p] <= Len(log[i]) + 1
  BY <1>1, <1>4, NextIdxFacts, Zenon
<1>6. StorageTypes'
  BY <1>1, <1>5, Zenon DEF LogInv, StorageTypes
<1>7. \A j \in Node : IndexesOK(j)'
  BY <1>1, <1>5, Zenon DEF LogInv, IndexesOK
<1> QED
  BY <1>1, <1>4, <1>6, <1>7, SendStep, Zenon

LEMMA IndexFacts ==
    ASSUME LogInv, NEW j \in Node
    PROVE  /\ commit_idx[j] \in Nat /\ Len(log[j]) \in Nat /\ next_snapshot[j] \in Nat
           /\ snapshot_last_idx[j] <= commit_idx[j] /\ next_snapshot[j] <= commit_idx[j]
           /\ commit_idx[j] <= Len(log[j]) /\ next_snapshot[j] <= Len(log[j])
           /\ 0 <= commit_idx[j] /\ StorageTypes
<1>1. IndexesOK(j) /\ StorageTypes
  BY Zenon DEF LogInv
<1>2. /\ commit_idx[j] \in Nat /\ Len(log[j]) \in Nat /\ next_snapshot[j] \in Nat
      /\ snapshot_last_idx[j] <= commit_idx[j] /\ next_snapshot[j] <= commit_idx[j]
      /\ commit_idx[j] <= Len(log[j])
  BY <1>1, NodeTypes, Zenon DEF IndexesOK
<1> QED
  BY <1>1, <1>2, SMTT(30)

LEMMA EndSnapshotPreserves ==
    ASSUME ElectionInv, ElectionInv', VotesMove, LogInv, NEW i \in Node, EndSnapshot(i)
    PROVE  LogInv'
<1> USE DEF metadata, role, peers
<1> DEFINE s == next_snapshot[i]
<1>1. /\ snapshot_last_idx' = [snapshot_last_idx EXCEPT ![i] = s]
      /\ next_snapshot' = [next_snapshot EXCEPT ![i] = 0]
      /\ UNCHANGED <<state, current_term, match_idx, log, durable, written, commit_idx>>
  BY DEF EndSnapshot
<1>2. s \in Nat /\ s <= commit_idx[i] /\ s <= Len(log[i]) /\ StorageTypes
  BY IndexFacts, Zenon
<1>3. \A j \in Node : /\ snapshot_last_idx'[j] <= commit_idx'[j]
                      /\ next_snapshot'[j] <= commit_idx'[j]
  <2>1. \A j \in Node : /\ snapshot_last_idx[j] <= commit_idx[j]
                        /\ next_snapshot[j] <= commit_idx[j] /\ 0 <= commit_idx[j]
    BY IndexFacts, Zenon
  <2> HIDE DEF s
  <2> QED
    BY <1>1, <1>2, <2>1 DEF StorageTypes
<1>4. CASE state[i] = "leader"
  <2> DEFINE P == {p \in Peers(i) : next_idx[i][p] <= s}
             v == [View(i) EXCEPT !.s = s]
  <2>1. SendAppendEntries(i, P, v, next_idx[i], {}) /\ P \in SUBSET Node
    BY <1>4 DEF EndSnapshot, Peers
  <2>2. /\ IsView(v) /\ v.l = log[i] /\ v.t = current_term[i]
        /\ \A p \in Node : IsNext(next_idx[i][p], v.l)
    BY <1>2, <1>4, ViewFacts
  <2> HIDE DEF P, v, s
  <2>3. /\ \A o \in msgs' : o \in msgs \/ CarriesCut(o, log[i], current_term[i])
        /\ \E n \in [Node -> Nat] : /\ next_idx' = [next_idx EXCEPT ![i] = n]
                                    /\ \A p \in Node : IsNext(n[p], log[i])
    BY <2>1, <2>2, SendFacts, Zenon
  <2>4. /\ next_idx' \in [Node -> [Node -> Nat]]
        /\ \A j \in Node \ {i} : next_idx'[j] = next_idx[j]
        /\ \A p \in Node : next_idx'[i][p] >= 1 /\ next_idx'[i][p] <= Len(log[i]) + 1
    BY <2>3, NextIdxFacts, Zenon
  <2>5. StorageTypes'
    BY <1>1, <1>2, <2>4, SMTT(30) DEF StorageTypes
  <2>6. \A j \in Node : IndexesOK(j)'
    BY <1>1, <1>3, <2>4 DEF LogInv, IndexesOK
  <2> QED
    BY <1>1, <1>4, <2>3, <2>5, <2>6, SendStep
<1>5. CASE state[i] # "leader"
  <2>1. UNCHANGED <<next_idx, msgs>>
    BY <1>5 DEF EndSnapshot
  <2> HIDE DEF s
  <2>2. StorageTypes'
    BY <1>1, <1>2, <2>1, SMTT(30) DEF StorageTypes
  <2>3. \A j \in Node : IndexesOK(j)'
    BY <1>1, <1>3, <2>1, SMTT(30) DEF LogInv, IndexesOK
  <2>4. QuietMessages /\ \A j \in Node : StaysLeader(j)
    BY <1>1, <2>1, NothingSentQuietly, SMTT(30) DEF StaysLeader
  <2> QED
    BY <1>1, <2>2, <2>3, <2>4, QuietStep
<1> QED
  BY <1>4, <1>5

LEMMA FlushPreserves ==
    ASSUME ElectionInv, ElectionInv', VotesMove, LogInv, NEW i \in Node, Flush(i)
    PROVE  LogInv'
<1> USE DEF metadata, role, peers
<1>0. /\ StorageTypes /\ log[i] \in Seq(Nat) /\ Len(log[i]) \in Nat /\ commit_idx[i] \in Nat
      /\ durable[i] \in Nat /\ match_idx[i] \in [Node -> Nat]
      /\ snapshot_last_idx[i] \in Nat /\ next_snapshot[i] \in Nat
  BY NodeTypes, Zenon DEF LogInv
<1>1. state[i] = "leader" /\ UNCHANGED <<state, current_term, log, snapshot_last_idx, next_snapshot>>
  BY SMTT(30) DEF Flush
<1>2. /\ \A p \in Node : match_idx[i][p] <= Len(log[i])
      /\ commit_idx[i] <= Len(log[i])
      /\ snapshot_last_idx[i] <= commit_idx[i] /\ next_snapshot[i] <= commit_idx[i]
  BY <1>1 DEF LogInv, IndexesOK
<1> DEFINE match(x) == [match_idx[i] EXCEPT ![i] = Max(@, x)]
           commit(x) == NewCommitIdx(i, match(x))
           P == {p \in Peers(i) : next_idx[i][p] <= Len(log[i])}
<1>3. PICK x \in durable[i] .. Len(log[i]) :
          /\ durable' = [durable EXCEPT ![i] = x]
          /\ written' = [written EXCEPT ![i] = Len(log[i])]
          /\ match_idx' = [match_idx EXCEPT ![i] = match(x)]
          /\ commit_idx' = [commit_idx EXCEPT ![i] = commit(x)]
          /\ SendAppendEntries(i, P, [View(i) EXCEPT !.c = commit(x)], next_idx[i], {})
  BY Zenon DEF Flush
<1>4. PICK f \in [Node -> Nat] : f = match(x) /\ \A p \in Node : f[p] <= Len(log[i])
  <2>1. x \in Nat /\ x <= Len(log[i])
    BY <1>0, SMTT(30)
  <2>2. match_idx[i][i] \in Nat /\ match_idx[i][i] <= Len(log[i])
    BY <1>0, <1>2, SMTT(30)
  <2>3. Max(match_idx[i][i], x) \in Nat /\ Max(match_idx[i][i], x) <= Len(log[i])
    BY <2>1, <2>2, SMTT(30) DEF Max
  <2>4. match(x) \in [Node -> Nat] /\ \A p \in Node : match(x)[p] <= Len(log[i])
    BY <1>0, <1>2, <2>3, SMTT(30)
  <2> QED
    BY <2>4
<1>5. PICK c \in Nat : c = commit(x) /\ c >= commit_idx[i] /\ c <= Len(log[i])
  <2>1. PICK p \in Node : QuorumIdx(f) = f[p]
    BY QuorumIdxExists, Zenon
  <2>2. f[p] \in Nat /\ f[p] <= Len(log[i])
    BY <1>4, SMTT(30)
  <2>3. NewCommitIdx(i, f) \in {f[p], commit_idx[i]} /\ NewCommitIdx(i, f) >= commit_idx[i]
    BY <1>0, <2>1, <2>2, SMTT(30) DEF NewCommitIdx
  <2>4. NewCommitIdx(i, f) \in Nat /\ NewCommitIdx(i, f) <= Len(log[i])
    BY <1>0, <1>2, <2>2, <2>3, SMTT(30)
  <2>5. commit(x) = NewCommitIdx(i, f)
    BY <1>4
  <2> QED
    BY <2>3, <2>4, <2>5, SMTT(30)
<1>6. /\ durable' = [durable EXCEPT ![i] = x]
      /\ written' = [written EXCEPT ![i] = Len(log[i])]
      /\ match_idx' = [match_idx EXCEPT ![i] = f]
      /\ commit_idx' = [commit_idx EXCEPT ![i] = c]
      /\ SendAppendEntries(i, P, [View(i) EXCEPT !.c = c], next_idx[i], {})
  BY <1>3, <1>4, <1>5
<1> DEFINE v == [View(i) EXCEPT !.c = c]
<1>7. /\ IsView(v) /\ v.l = log[i] /\ v.t = current_term[i]
      /\ \A p \in Node : IsNext(next_idx[i][p], v.l)
  <2>1. 0 \in Nat /\ 0 <= Len(log[i])
    BY <1>0, SMTT(30)
  <2>2. v.l = log[i] /\ v.t = current_term[i]
    BY DEF View
  <2>3. IsView(v) /\ \A p \in Node : IsNext(next_idx[i][p], log[i])
    BY <1>1, <2>1, ViewFacts, Zenon
  <2> QED
    BY <2>2, <2>3, SMTT(30)
<1>8. P \in SUBSET Node
  BY DEF Peers
<1> HIDE DEF P, v, match, commit
<1>9. /\ \A o \in msgs' : o \in msgs \/ CarriesCut(o, log[i], current_term[i])
      /\ \E n \in [Node -> Nat] : /\ next_idx' = [next_idx EXCEPT ![i] = n]
                                  /\ \A p \in Node : IsNext(n[p], log[i])
  <2>1. SendAppendEntries(i, P, v, next_idx[i], {})
    BY <1>6, SMTT(30) DEF v
  <2> QED
    BY <1>7, <1>8, <2>1, SendFacts, Zenon
<1>10. /\ next_idx' \in [Node -> [Node -> Nat]]
       /\ \A j \in Node \ {i} : next_idx'[j] = next_idx[j]
       /\ \A p \in Node : next_idx'[i][p] >= 1 /\ next_idx'[i][p] <= Len(log[i]) + 1
  BY <1>9, NextIdxFacts
<1>11. x \in Nat
  BY <1>0, SMTT(30)
<1>12. StorageTypes'
  BY <1>0, <1>1, <1>6, <1>10, <1>11 DEF StorageTypes
<1>13. \A j \in Node : IndexesOK(j)'
  <2> SUFFICES ASSUME NEW j \in Node PROVE IndexesOK(j)'
    OBVIOUS
  <2>1. CASE j = i
    <3>1. commit_idx'[i] = c /\ match_idx'[i] = f
      BY <1>0, <1>6 DEF StorageTypes
    <3>2. snapshot_last_idx[i] <= c /\ next_snapshot[i] <= c
      BY <1>0, <1>2, <1>5, SMTT(30)
    <3>3. Len(log[i]) >= 1
      BY <1>1 DEF LogInv, IndexesOK
    <3> QED
      BY <1>1, <1>4, <1>5, <1>10, <2>1, <3>1, <3>2, <3>3, Zenon DEF IndexesOK
  <2>2. CASE j # i
    <3>1. commit_idx'[j] = commit_idx[j] /\ match_idx'[j] = match_idx[j]
      BY <1>0, <1>6, <2>2 DEF StorageTypes
    <3> QED
      BY <1>1, <1>10, <2>2, <3>1, Zenon DEF LogInv, IndexesOK
  <2> QED
    BY <2>1, <2>2
<1> QED
  BY <1>1, <1>9, <1>12, <1>13, SendStep

LEMMA RecvEntryPreserves ==
    ASSUME ElectionInv, ElectionInv', VotesMove, LogInv, NEW i \in Node, RecvEntry(i)
    PROVE  LogInv'
<1> USE DEF metadata, role, peers
<1>0. /\ StorageTypes /\ log[i] \in Seq(Nat) /\ Len(log[i]) \in Nat /\ commit_idx[i] \in Nat
      /\ next_idx[i] \in [Node -> Nat] /\ match_idx[i] \in [Node -> Nat]
  BY NodeTypes, Zenon DEF LogInv
<1>1. PICK t \in Nat : t = current_term[i]
  BY DEF ElectionInv, ElectionTypes
<1>2. PICK N : N = Append(log[i], t)
  OBVIOUS
<1>3. /\ state[i] = "leader" /\ log' = [log EXCEPT ![i] = N]
      /\ UNCHANGED <<state, current_term, next_idx, match_idx, durable, written,
                     snapshot_last_idx, next_snapshot, commit_idx, msgs>>
  BY <1>1, <1>2, Zenon DEF RecvEntry
<1>4. N \in Seq(Nat) /\ Len(N) = Len(log[i]) + 1
  BY <1>0, <1>2, AppendFacts, SMTT(30)
<1>5. StorageTypes'
  BY <1>0, <1>3, <1>4 DEF StorageTypes
<1>6. \A j \in Node : IndexesOK(j)'
  <2> SUFFICES ASSUME NEW j \in Node PROVE IndexesOK(j)'
    OBVIOUS
  <2>1. CASE j = i
    <3>1. log'[j] = N
      BY <1>0, <1>3, <2>1, SMTT(30) DEF StorageTypes
    <3>2. /\ \A p \in Node : /\ next_idx[i][p] >= 1 /\ next_idx[i][p] <= Len(log[i]) + 1
                             /\ match_idx[i][p] <= Len(log[i])
          /\ commit_idx[i] <= Len(log[i])
          /\ snapshot_last_idx[i] <= commit_idx[i] /\ next_snapshot[i] <= commit_idx[i]
      BY <1>3 DEF LogInv, IndexesOK
    <3>3. /\ \A p \in Node : next_idx[i][p] <= Len(N) + 1 /\ match_idx[i][p] <= Len(N)
          /\ commit_idx[i] <= Len(N) /\ Len(N) >= 1
      <4>1. PICK k \in Nat : k = Len(log[i]) /\ Len(N) = k + 1
        BY <1>0, <1>4
      <4>2. \A p \in Node : next_idx[i][p] \in Nat /\ match_idx[i][p] \in Nat
        BY <1>0, SMTT(30)
      <4>3. \A p \in Node : next_idx[i][p] <= (k + 1) + 1 /\ match_idx[i][p] <= k + 1
        BY <3>2, <4>1, <4>2, SMTT(30)
      <4>4. commit_idx[i] <= k + 1 /\ k + 1 >= 1
        BY <1>0, <3>2, <4>1, SMTT(30)
      <4> QED
        BY <4>1, <4>3, <4>4, Zenon
    <3> QED
      BY <1>3, <2>1, <3>1, <3>2, <3>3 DEF IndexesOK
  <2>2. CASE j # i
    <3>1. log'[j] = log[j]
      BY <1>0, <1>3, <2>2 DEF StorageTypes
    <3> QED
      BY <1>3, <3>1, SMTT(30) DEF LogInv, IndexesOK
  <2> QED
    BY <2>1, <2>2
<1>7. TypesStep
  BY <1>3, <1>5, <1>6, SMTT(30) DEF TypesStep, LogInv
<1>8. LeaderMessages /\ NewFragments(Fragments \cup {N})
  BY <1>3, SMTT(30) DEF LeaderMessages, NewFragments
<1>9. \A j \in Node \ {i} : StaysLeader(j)
  BY <1>0, <1>3 DEF StaysLeader, StorageTypes
<1> QED
  BY <1>1, <1>2, <1>3, <1>7, <1>8, <1>9, EntryAppended, Zenon

LEMMA BecomeLeaderPreserves ==
    ASSUME ElectionInv, ElectionInv', VotesMove, LogInv, NEW i \in Node,
           state[i] = "candidate", NEW taken, NEW voters, BecomeLeader(i, taken, voters)
    PROVE  LogInv'
<1> USE DEF metadata, role, peers
<1>0. /\ StorageTypes /\ log[i] \in Seq(Nat) /\ Len(log[i]) \in Nat /\ commit_idx[i] \in Nat
      /\ snapshot_last_idx[i] \in Nat /\ next_snapshot[i] \in Nat
  BY NodeTypes, Zenon DEF LogInv
<1>1. PICK t \in Nat : t = current_term[i]
  BY DEF ElectionInv, ElectionTypes
<1>2. PICK N : N = Append(log[i], t)
  OBVIOUS
<1>3. N \in Seq(Nat) /\ Len(N) = Len(log[i]) + 1 /\ Len(N) \in Nat
  BY <1>0, <1>2, AppendFacts, SMTT(30)
<1> DEFINE v == [View(i) EXCEPT !.l = N]
           next == [p \in Node |-> IF p = i THEN 1 ELSE Len(N)]
<1>4. /\ log' = [log EXCEPT ![i] = N]
      /\ durable' = [durable EXCEPT ![i] = Len(N)] /\ written' = [written EXCEPT ![i] = Len(N)]
      /\ state' = [state EXCEPT ![i] = "leader"]
      /\ match_idx' = [match_idx EXCEPT ![i] = [p \in Node |-> IF p = i THEN Len(N) ELSE 0]]
      /\ SendAppendEntries(i, Peers(i), v, next, taken)
      /\ UNCHANGED <<current_term, snapshot_last_idx, next_snapshot, commit_idx>>
  BY <1>1, <1>2, Zenon DEF BecomeLeader, Synced
<1>5. commit_idx[i] <= Len(log[i]) /\ snapshot_last_idx[i] <= commit_idx[i]
      /\ next_snapshot[i] <= commit_idx[i]
  BY SMTT(30) DEF LogInv, IndexesOK
<1>6. IsView(v) /\ v.l = N /\ v.t = t
  <2>1. v.l = N /\ v.c = commit_idx[i] /\ v.s = snapshot_last_idx[i] /\ v.t = t
    BY <1>1 DEF View
  <2> QED
    BY <1>0, <1>3, <1>5, <2>1, SMTT(30) DEF IsView
<1>7. \A p \in Node : IsNext(next[p], v.l)
  BY <1>0, <1>3, <1>6 DEF IsNext
<1>8. Peers(i) \in SUBSET Node
  BY DEF Peers
<1> HIDE DEF v, next
<1>9. /\ \A o \in msgs' : o \in msgs \/ CarriesCut(o, N, t)
      /\ \E n \in [Node -> Nat] : /\ next_idx' = [next_idx EXCEPT ![i] = n]
                                  /\ \A p \in Node : IsNext(n[p], N)
  BY <1>4, <1>6, <1>7, <1>8, SendFacts, Zenon
<1>10. /\ next_idx' \in [Node -> [Node -> Nat]]
       /\ \A j \in Node \ {i} : next_idx'[j] = next_idx[j]
       /\ \A p \in Node : next_idx'[i][p] >= 1 /\ next_idx'[i][p] <= Len(N) + 1
  BY <1>9, NextIdxFacts, Zenon
<1>11. /\ log'[i] = N /\ state'[i] = "leader" /\ current_term'[i] = t
       /\ \A j \in Node \ {i} : /\ log'[j] = log[j] /\ state'[j] = state[j]
                                /\ match_idx'[j] = match_idx[j]
  BY <1>0, <1>1, <1>4 DEF StorageTypes, ElectionInv, ElectionTypes
<1>12. StorageTypes'
  BY <1>0, <1>3, <1>4, <1>10 DEF StorageTypes
<1>13. \A j \in Node : IndexesOK(j)'
  <2> SUFFICES ASSUME NEW j \in Node PROVE IndexesOK(j)'
    OBVIOUS
  <2>1. CASE j = i
    <3>1. \A p \in Node : match_idx'[i][p] <= Len(N)
      <4>1. match_idx'[i] = [p \in Node |-> IF p = i THEN Len(N) ELSE 0]
        BY <1>0, <1>4, SMTT(30) DEF StorageTypes
      <4>2. \A p \in Node : match_idx'[i][p] = Len(N) \/ match_idx'[i][p] = 0
        BY <4>1
      <4> QED
        BY <1>3, <4>2, SMTT(30)
    <3>2. commit_idx[i] <= Len(N) /\ Len(N) >= 1
      <4>1. /\ Len(log[i]) \in Nat /\ commit_idx[i] \in Nat /\ commit_idx[i] <= Len(log[i])
            /\ Len(N) = Len(log[i]) + 1
        BY <1>0, <1>3, <1>5, Zenon
      <4> QED
        BY <4>1, SMTT(30)
    <3> QED
      BY <1>4, <1>5, <1>10, <1>11, <2>1, <3>1, <3>2, Zenon DEF IndexesOK
  <2>2. CASE j # i
    BY <1>4, <1>10, <1>11, <2>2, Zenon DEF LogInv, IndexesOK
  <2> QED
    BY <2>1, <2>2
<1>14. ~ TermIsElected(t)
  BY <1>1, <1>4, <1>11, NewLeadersTerm, Zenon
<1>15. /\ NewFragments(Fragments \cup {N}) /\ LeaderMessages
       /\ \A m \in msgs' : EntryMsgOK(m)
  <2>1. PICK G : G = Fragments \cup {N}
    OBVIOUS
  <2>2. NewFragments(G) /\ LeaderMessages /\ \A m \in msgs' : EntryMsgOK(m)
    BY <1>9, <1>11, <2>1, SendMessages, Zenon
  <2> QED
    BY <2>1, <2>2
<1>16. TypesStep
  BY <1>12, <1>13, <1>15 DEF TypesStep
<1>17. \A j \in Node \ {i} : StaysLeader(j)
  BY <1>4, <1>11, Zenon DEF StaysLeader
<1> QED
  BY <1>1, <1>2, <1>4, <1>11, <1>14, <1>15, <1>16, <1>17, EntryAppended, Zenon

=============================================================================
