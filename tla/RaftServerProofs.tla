-------------------------- MODULE RaftServerProofs --------------------------
(***************************************************************************)
(* Votes: every step of RaftServer preserves ElectionInv, for any finite   *)
(* set of nodes and any bounds, and so no two leaders are in one term:     *)
(* they would share a voter, who is bound to one of them.                  *)
(*                                                                         *)
(* Logs: what a step has to do to preserve LogInv. Fragments that come to  *)
(* exist are cut out of others, elections that are over stay over, and     *)
(* most handlers leave all logs as they are.                               *)
(***************************************************************************)
EXTENDS RaftInvariants, TLAPS

-----------------------------------------------------------------------------
(* What the invariant of the votes says *)

(* The invariant implies the property: two leaders of a term share a voter. *)
LEMMA InvImpliesSafety == ElectionInv => ElectionSafety
<1> SUFFICES ASSUME ElectionInv, NEW i \in Node, NEW j \in Node,
                    state[i] = "leader", state[j] = "leader",
                    current_term[i] = current_term[j]
             PROVE  i = j
  BY DEF ElectionSafety
<1>1. Counted(i) \in SUBSET Node /\ Counted(j) \in SUBSET Node
  BY DEF ElectionInv, ElectionTypes, Counted
<1>2. Counted(i) \cap Counted(j) # {}
  BY <1>1 DEF ElectionInv, LeadersHaveMajority, QuorumFacts
<1> QED
  BY <1>2 DEF ElectionInv, CountedOnce, Elected

-----------------------------------------------------------------------------
(* What a step that elects nobody does: terms grow, a vote given in a term stays,
   candidates and leaders do not change, and a new grant is the sender's vote. *)
KeepsVotes ==
    \A j \in Node :
        /\ current_term'[j] >= current_term[j]
        /\ current_term'[j] = current_term[j] => voted_for[j] \in {NONE, voted_for'[j]}

StillElected(c) ==
    Elected(c)' => /\ Elected(c)
                   /\ current_term'[c] = current_term[c]
                   /\ votes'[c] = votes[c]
                   /\ state'[c] = state[c]

MessagesOK ==
    \A m \in msgs' :
        /\ MsgOK(m)
        /\ IsGrant(m) => \/ m \in msgs
                         \/ /\ current_term'[m.from] = m.request_term
                            /\ voted_for'[m.from] = m.to

(* Nothing is granted in most steps. *)
NoNewGrants == \A m \in msgs' : MsgOK(m) /\ (IsGrant(m) => m \in msgs)

LEMMA BoundStays ==
    ASSUME ElectionTypes, ElectionTypes', KeepsVotes,
           NEW j \in Node, NEW c \in Node, NEW t \in Nat, Bound(j, c, t)
    PROVE  Bound(j, c, t)'
  BY NoneAssumption DEF ElectionTypes, KeepsVotes, Bound

(* What any step does to votes: a vote that shows in a new place was granted, is the
   voter's own, or is the one its voter has just given; and only a later term makes
   a node a candidate again. *)
CountsMove ==
    \A d \in Node : Elected(d)' => \A j \in Counted(d)' :
        \/ Elected(d) /\ current_term'[d] = current_term[d] /\ j \in Counted(d)
        \/ \E m \in msgs : /\ IsGrant(m) /\ m.from = j /\ m.to = d
                           /\ m.request_term = current_term'[d]
        \/ j = d /\ current_term'[d] > current_term[d]

GrantsMove ==
    \A m \in msgs' : IsGrant(m) =>
        m \in msgs \/ (current_term'[m.from] = m.request_term /\ voted_for'[m.from] = m.to)

CandidatesMove ==
    \A c \in Node : state'[c] = "candidate" =>
        \/ state[c] = "candidate" /\ current_term'[c] = current_term[c]
        \/ current_term'[c] > current_term[c]

VotesMove == KeepsVotes /\ CountsMove /\ GrantsMove /\ CandidatesMove

LEMMA StepWithoutElection ==
    ASSUME ElectionInv, ElectionTypes', KeepsVotes, \A c \in Node : StillElected(c),
           MessagesOK
    PROVE  ElectionInv' /\ VotesMove
<1>1. ElectionTypes
  BY DEF ElectionInv
<1>2. CountedAreBound'
  <2> SUFFICES ASSUME NEW c \in Node, Elected(c)', NEW j \in Counted(c)'
               PROVE  Bound(j, c, current_term[c])'
    BY DEF CountedAreBound
  <2>1. Elected(c) /\ current_term'[c] = current_term[c] /\ j \in Counted(c)
    BY DEF StillElected, Counted
  <2>2. j \in Node /\ current_term[c] \in Nat
    BY <1>1, <2>1 DEF Counted, ElectionTypes
  <2>3. Bound(j, c, current_term[c])
    BY <2>1 DEF ElectionInv, CountedAreBound
  <2> QED
    BY <1>1, <2>1, <2>2, <2>3, NoneAssumption DEF Bound, KeepsVotes, ElectionTypes
<1>3. GrantsAreBound'
  <2> SUFFICES ASSUME NEW m \in msgs', IsGrant(m)
               PROVE  Bound(m.from, m.to, m.request_term)'
    BY DEF GrantsAreBound
  <2>1. m.from \in Node /\ m.to \in Node /\ m.request_term \in Nat
    BY DEF MessagesOK, MsgOK, IsGrant
  <2>2. CASE m \in msgs
    BY <1>1, <2>1, <2>2, BoundStays DEF ElectionInv, GrantsAreBound
  <2>3. CASE current_term'[m.from] = m.request_term /\ voted_for'[m.from] = m.to
    BY <2>1, <2>3 DEF Bound
  <2> QED
    BY <2>2, <2>3 DEF MessagesOK
<1>4. CountedOnce'
  BY DEF ElectionInv, CountedOnce, StillElected, Counted
<1>5. GrantedOrCounted'
  <2> SUFFICES ASSUME NEW c \in Node, NEW m \in msgs', Elected(c)', IsGrant(m),
                      m.request_term = current_term'[c], m.from \in Counted(c)'
               PROVE  m.to = c
    BY DEF GrantedOrCounted
  <2>1. CASE m \in msgs
    BY <2>1 DEF ElectionInv, GrantedOrCounted, StillElected, Counted
  <2>2. CASE current_term'[m.from] = m.request_term /\ voted_for'[m.from] = m.to
    BY <1>2, <2>2 DEF CountedAreBound, Bound
  <2> QED
    BY <2>1, <2>2 DEF MessagesOK
<1>6. GrantedOnce'
  BY <1>3 DEF ElectionInv, GrantedOnce, GrantsAreBound, Bound, MessagesOK
<1>7. LeadersHaveMajority'
  BY DEF ElectionInv, LeadersHaveMajority, StillElected, Counted, Elected
<1>8. VotesMove
  <2>1. CountsMove
    BY DEF CountsMove, StillElected, Counted
  <2>2. GrantsMove
    BY DEF GrantsMove, MessagesOK
  <2>3. CandidatesMove
    BY DEF CandidatesMove, StillElected, Elected
  <2> QED
    BY <2>1, <2>2, <2>3, Zenon DEF VotesMove
<1> QED
  BY <1>2, <1>3, <1>4, <1>5, <1>6, <1>7, <1>8 DEF ElectionInv

(* Most handlers leave term, vote and role alone. *)
LEMMA SameRoles ==
    ASSUME ElectionInv, UNCHANGED <<metadata, role>>, NoNewGrants
    PROVE  ElectionInv' /\ VotesMove
<1>1. ElectionTypes'
  BY DEF ElectionInv, ElectionTypes, NoNewGrants, metadata, role
<1>2. KeepsVotes /\ \A c \in Node : StillElected(c)
  BY DEF ElectionInv, ElectionTypes, KeepsVotes, StillElected, Elected, metadata, role
<1> QED
  BY <1>1, <1>2, StepWithoutElection DEF NoNewGrants, MessagesOK

(* The others make the node a follower, in its own term or a later one. *)
LEMMA OneBecomesFollower ==
    ASSUME ElectionInv, NEW i \in Node, NEW t \in Nat, t >= current_term[i],
           BecomeFollower(i, t), NoNewGrants
    PROVE  ElectionInv' /\ VotesMove
<1>1. ElectionTypes'
  BY NoneAssumption DEF ElectionInv, ElectionTypes, NoNewGrants, BecomeFollower
<1>2. KeepsVotes /\ \A c \in Node : StillElected(c)
  BY DEF ElectionInv, ElectionTypes, KeepsVotes, StillElected, Elected, BecomeFollower
<1> QED
  BY <1>1, <1>2, StepWithoutElection DEF NoNewGrants, MessagesOK

-----------------------------------------------------------------------------
(* Messages: what is sent is well formed and, unless the handler votes, grants
   nothing. *)
LEMMA ExchangeIsQuiet ==
    ASSUME ElectionInv, NEW taken, NEW out, Exchange(taken, out),
           \A m \in out : MsgOK(m) /\ ~ IsGrant(m)
    PROVE  NoNewGrants
  BY DEF ElectionInv, ElectionTypes, Exchange, NoNewGrants

LEMMA SentIsQuiet ==
    ASSUME NEW i \in Node, NEW p \in Peers(i), NEW v, v.t \in Nat, NEW next, NEW k,
           NEW m \in Sent(i, p, v, next, k)
    PROVE  MsgOK(m) /\ ~ IsGrant(m)
<1>1. CASE v.s >= next
  <2>1. m = SnapshotReq(i, p, v)
    BY <1>1 DEF Sent
  <2> QED
    BY <2>1 DEF SnapshotReq, MsgOK, IsGrant, Peers
<1>2. CASE ~ (v.s >= next)
  <2>1. PICK prev : m = AppendReq(i, p, v, prev)
    BY <1>2 DEF Sent
  <2> QED
    BY <2>1 DEF AppendReq, MsgOK, IsGrant, Peers
<1> QED
  BY <1>1, <1>2

LEMMA SendIsQuiet ==
    ASSUME ElectionInv, NEW i \in Node, NEW P \in SUBSET Peers(i), NEW v, v.t \in Nat,
           NEW next, NEW taken, SendAppendEntries(i, P, v, next, taken)
    PROVE  NoNewGrants
<1>1. PICK k : Exchange(taken, UNION {Sent(i, p, v, next[p], k[p]) : p \in P})
  BY Zenon DEF SendAppendEntries
<1>2. \A m \in UNION {Sent(i, p, v, next[p], k[p]) : p \in P} : MsgOK(m) /\ ~ IsGrant(m)
  BY SentIsQuiet
<1> QED
  BY <1>1, <1>2, ExchangeIsQuiet

LEMMA ViewTerm ==
    ASSUME ElectionInv, NEW i \in Node, NEW l, NEW c, NEW s
    PROVE  /\ View(i).t \in Nat
           /\ [View(i) EXCEPT !.l = l].t \in Nat
           /\ [View(i) EXCEPT !.c = c].t \in Nat
           /\ [View(i) EXCEPT !.s = s].t \in Nat
  BY DEF View, ElectionInv, ElectionTypes

(* A message that is not changed or only taken. *)
LEMMA NothingSentIsQuiet ==
    ASSUME ElectionInv, NEW taken, Exchange(taken, {}) \/ UNCHANGED msgs
    PROVE  NoNewGrants
  BY DEF ElectionInv, ElectionTypes, Exchange, NoNewGrants

-----------------------------------------------------------------------------
(* Steps of a node and of a message *)

(* Timers, client requests, snapshots and crashes of a node. *)
LEMMA NodeStepPreserves ==
    ASSUME ElectionInv, NEW i \in Node, NodeStep(i)
    PROVE  ElectionInv' /\ VotesMove
<1> USE DEF metadata, role, peers, storage, counters, bounds
<1>0. current_term[i] \in Nat
  BY DEF ElectionInv, ElectionTypes
<1>1. CASE ElectionTimeout(i)
  <2>1. NoNewGrants
    <3> DEFINE out == {VoteReq(i, p, TRUE, current_term[i] + 1) : p \in Peers(i)}
    <3>1. \A m \in out : MsgOK(m) /\ ~ IsGrant(m)
      BY <1>0 DEF VoteReq, Peers, MsgOK, IsGrant
    <3>2. Exchange({}, out)
      BY <1>1 DEF ElectionTimeout
    <3> QED
      BY <3>1, <3>2, ExchangeIsQuiet, Zenon
  <2>2. ElectionTypes'
    BY <1>1, <2>1 DEF ElectionTimeout, ElectionInv, ElectionTypes, NoNewGrants
  <2>3. KeepsVotes /\ \A c \in Node : StillElected(c)
    BY <1>1 DEF ElectionTimeout, ElectionInv, ElectionTypes, KeepsVotes, StillElected, Elected
  <2> QED
    BY <2>1, <2>2, <2>3, StepWithoutElection DEF NoNewGrants, MessagesOK
<1>2. CASE Heartbeat(i)
  BY <1>2, ViewTerm, SendIsQuiet, SameRoles DEF Heartbeat
<1>3. CASE QuorumLost(i)
  BY <1>0, <1>3, NothingSentIsQuiet, OneBecomesFollower DEF QuorumLost
<1>4. CASE RecvEntry(i)
  BY <1>4, NothingSentIsQuiet, SameRoles DEF RecvEntry
<1>5. CASE Flush(i)
  <2> DEFINE P == {p \in Peers(i) : next_idx[i][p] <= Len(log[i])}
  <2>1. \E c : SendAppendEntries(i, P, [View(i) EXCEPT !.c = c], next_idx[i], {})
    BY <1>5, Zenon DEF Flush
  <2>2. P \in SUBSET Peers(i)
    OBVIOUS
  <2> HIDE DEF P
  <2>3. NoNewGrants
    BY <2>1, <2>2, ViewTerm, SendIsQuiet, Zenon
  <2> QED
    BY <1>5, <2>3, SameRoles DEF Flush
<1>6. CASE BeginSnapshot(i) \/ CancelSnapshot(i)
  BY <1>6, NothingSentIsQuiet, SameRoles DEF BeginSnapshot, CancelSnapshot
<1>7. CASE EndSnapshot(i)
  <2>1. CASE state[i] = "leader"
    <3> DEFINE s == next_snapshot[i]
               P == {p \in Peers(i) : next_idx[i][p] <= s}
    <3>1. SendAppendEntries(i, P, [View(i) EXCEPT !.s = s], next_idx[i], {})
      BY <1>7, <2>1, Zenon DEF EndSnapshot
    <3>2. P \in SUBSET Peers(i)
      OBVIOUS
    <3> HIDE DEF P, s
    <3>3. NoNewGrants
      BY <3>1, <3>2, ViewTerm, SendIsQuiet, Zenon
    <3> QED
      BY <1>7, <3>3, SameRoles DEF EndSnapshot
  <2>2. CASE state[i] # "leader"
    BY <1>7, <2>2, NothingSentIsQuiet, SameRoles DEF EndSnapshot
  <2> QED
    BY <2>1, <2>2
<1>8. CASE Crash(i)
  BY <1>0, <1>8, NothingSentIsQuiet, OneBecomesFollower DEF Crash
<1> QED
  BY <1>1, <1>2, <1>3, <1>4, <1>5, <1>6, <1>7, <1>8 DEF NodeStep

(* raft_recv_requestvote: the one step that sends a grant. The receiver is then
   in the request's term and has voted for its sender. *)
LEMMA RequestVotePreserves ==
    ASSUME ElectionInv, NEW m \in msgs, RecvRequestVote(m)
    PROVE  ElectionInv' /\ VotesMove
<1> DEFINE i == m.to
           t == Max(current_term[i], m.term)
           granted == Grants(i, m, t, VoteAfterTerm(i, t))
           resp == VoteResp(m, t, granted)
<1> USE DEF metadata, role, peers, storage, counters, bounds
<1>1. /\ MsgOK(m) /\ i \in Node /\ m.from \in Node /\ m.from # i
      /\ m.term \in Nat /\ current_term[i] \in Nat /\ t \in Nat
      /\ t >= current_term[i] /\ t >= m.term
  BY SMTT(30) DEF ElectionInv, ElectionTypes, MsgOK, Max
<1>2. MsgOK(resp)
  BY <1>1, SMTT(30) DEF VoteResp, MsgOK
<1>3. \A n \in msgs' : n \in msgs \/ n = resp
  BY DEF RecvRequestVote, Exchange
<1>4. /\ current_term' = [current_term EXCEPT ![i] = t]
      /\ voted_for' = [voted_for EXCEPT ![i] = IF granted THEN m.from ELSE VoteAfterTerm(i, t)]
  BY DEF RecvRequestVote
<1>5. granted => t = m.term /\ VoteAfterTerm(i, t) \in {NONE, m.from}
  BY <1>1, SMTT(30) DEF Grants
<1>6. ElectionTypes'
  <2>1. ElectionTypes
    BY Zenon DEF ElectionInv
  <2>2. \A n \in msgs' : MsgOK(n)
    BY <1>2, <1>3, <2>1, Zenon DEF ElectionTypes
  <2>3. /\ current_term' \in [Node -> Nat]
        /\ voted_for' \in [Node -> Node \cup {NONE}]
    BY <1>1, <1>4, <2>1, SMTT(30) DEF ElectionTypes, VoteAfterTerm
  <2>4. \/ state' = [state EXCEPT ![i] = "follower"] /\ votes' = [votes EXCEPT ![i] = {}]
        \/ UNCHANGED <<state, votes>>
    BY Zenon DEF RecvRequestVote
  <2>5. /\ state' \in [Node -> {"follower", "precandidate", "candidate", "leader"}]
        /\ votes' \in [Node -> SUBSET Node]
        /\ \A c \in Node : c \notin votes'[c]
    BY <1>1, <2>1, <2>4, SMTT(30) DEF ElectionTypes
  <2> QED
    BY <2>2, <2>3, <2>5, Zenon DEF ElectionTypes
<1>7. KeepsVotes
  BY <1>1, <1>4, <1>5, SMTT(30) DEF KeepsVotes, ElectionInv, ElectionTypes, VoteAfterTerm
<1>8. \A c \in Node : StillElected(c)
  <2>1. ElectionTypes
    BY SMTT(30) DEF ElectionInv
  <2>2. CASE t > current_term[i]
    <3>1. /\ state' = [state EXCEPT ![i] = "follower"]
          /\ votes' = [votes EXCEPT ![i] = {}]
      BY <2>2 DEF RecvRequestVote
    <3> QED
      BY <1>1, <1>4, <2>1, <3>1, SMTT(30) DEF StillElected, Elected, ElectionTypes
  <2>3. CASE t = current_term[i]
    <3>1. UNCHANGED <<state, votes, current_term>>
      BY <1>1, <1>4, <2>1, <2>3, SMTT(30) DEF RecvRequestVote, ElectionTypes
    <3> QED
      BY <3>1, SMTT(30) DEF StillElected, Elected
  <2> QED
    BY <1>1, <2>2, <2>3
<1>9. IsGrant(resp) => granted /\ resp.from = i /\ resp.to = m.from /\ resp.request_term = t
  <2> HIDE DEF granted, t
  <2> QED
    BY <1>5, SMTT(30) DEF IsGrant, VoteResp
<1>10. MessagesOK
  BY <1>1, <1>2, <1>3, <1>4, <1>9
     DEF MessagesOK, ElectionInv, ElectionTypes
<1> QED
  BY <1>6, <1>7, <1>8, <1>10, StepWithoutElection

(* raft_become_candidate: nobody can have seen a vote of i in its new term. *)
LEMMA CandidatePreserves ==
    ASSUME ElectionInv, NEW i \in Node, NEW taken, BecomeCandidate(i, taken)
    PROVE  ElectionInv' /\ VotesMove
<1> DEFINE t == current_term[i] + 1
           out == {VoteReq(i, p, FALSE, t) : p \in Peers(i)}
<1>1. ElectionTypes /\ current_term[i] \in Nat /\ t \in Nat
  BY DEF ElectionInv, ElectionTypes
<1>2. \A m \in out : MsgOK(m) /\ ~ IsGrant(m)
  BY <1>1 DEF VoteReq, Peers, MsgOK, IsGrant
<1>3. NoNewGrants
  <2>1. Exchange(taken, out)
    BY DEF BecomeCandidate
  <2> QED
    BY <1>1, <1>2, <2>1, Zenon DEF NoNewGrants, Exchange, ElectionTypes
<1>4. /\ current_term' = [current_term EXCEPT ![i] = t]
      /\ voted_for' = [voted_for EXCEPT ![i] = i]
      /\ state' = [state EXCEPT ![i] = "candidate"]
      /\ votes' = [votes EXCEPT ![i] = {}]
  BY DEF BecomeCandidate
<1> HIDE DEF t, out
<1>5. ElectionTypes'
  BY <1>1, <1>3, <1>4 DEF NoNewGrants, ElectionTypes
<1>6. \A c \in Node, x \in Nat : ~ Bound(i, c, x) \/ x < t
  BY <1>1 DEF Bound, t
<1>7. \A j, c \in Node, x \in Nat : Bound(j, c, x) => Bound(j, c, x)'
  BY <1>1, <1>4, <1>6 DEF Bound, ElectionTypes
<1>8. \A c \in Node \ {i} :
          /\ Elected(c)' <=> Elected(c)
          /\ current_term'[c] = current_term[c] /\ Counted(c)' = Counted(c)
          /\ state'[c] = state[c]
  BY <1>1, <1>4 DEF Elected, Counted, ElectionTypes
<1>9. Counted(i)' = {i} /\ current_term'[i] = t /\ voted_for'[i] = i /\ state'[i] = "candidate"
  BY <1>1, <1>4 DEF Counted, ElectionTypes
<1>10. \A c \in Node : Elected(c) /\ i \in Counted(c) => current_term[c] < t
  BY <1>1, <1>6 DEF ElectionInv, CountedAreBound, ElectionTypes
<1>11. \A m \in msgs : IsGrant(m) /\ m.from = i => m.request_term < t
  BY <1>1, <1>6 DEF ElectionInv, GrantsAreBound, ElectionTypes, MsgOK, IsGrant
<1>12. CountedAreBound'
  <2> SUFFICES ASSUME NEW c \in Node, Elected(c)', NEW j \in Counted(c)'
               PROVE  Bound(j, c, current_term[c])'
    BY DEF CountedAreBound
  <2>1. CASE c = i
    BY <1>1, <1>9, <2>1 DEF Bound
  <2>2. CASE c # i
    <3>1. Elected(c) /\ j \in Counted(c) /\ current_term'[c] = current_term[c]
      BY <1>8, <2>2
    <3>2. j \in Node /\ current_term[c] \in Nat
      BY <1>1, <3>1 DEF Counted, ElectionTypes
    <3>3. Bound(j, c, current_term[c])
      BY <3>1 DEF ElectionInv, CountedAreBound
    <3> DEFINE x == current_term[c]
    <3>4. x \in Nat /\ x = current_term'[c] /\ Bound(j, c, x)
      BY <3>1, <3>2, <3>3
    <3> HIDE DEF x
    <3> QED
      BY <1>1, <1>4, <1>6, <3>2, <3>4 DEF Bound, ElectionTypes
  <2> QED
    BY <2>1, <2>2
<1>13. GrantsAreBound'
  BY <1>3, <1>7 DEF NoNewGrants, ElectionInv, GrantsAreBound, MsgOK, IsGrant
<1>14. CountedOnce'
  <2> SUFFICES ASSUME NEW c \in Node, NEW d \in Node, Elected(c)', Elected(d)',
                      current_term'[c] = current_term'[d],
                      NEW j \in Counted(c)' \cap Counted(d)'
               PROVE  c = d
    BY DEF CountedOnce
  <2>1. CASE c # i /\ d # i
    BY <1>8, <2>1 DEF ElectionInv, CountedOnce
  <2>2. CASE c = i /\ d # i
    BY <1>1, <1>8, <1>9, <1>10, <2>2 DEF ElectionTypes
  <2>3. CASE c # i /\ d = i
    BY <1>1, <1>8, <1>9, <1>10, <2>3 DEF ElectionTypes
  <2> QED
    BY <2>1, <2>2, <2>3
<1>15. GrantedOrCounted'
  <2> SUFFICES ASSUME NEW c \in Node, NEW m \in msgs', Elected(c)', IsGrant(m),
                      m.request_term = current_term'[c], m.from \in Counted(c)'
               PROVE  m.to = c
    BY DEF GrantedOrCounted
  <2>1. m \in msgs
    BY <1>3 DEF NoNewGrants
  <2>2. CASE c = i
    BY <1>1, <1>9, <1>11, <2>1, <2>2
  <2>3. CASE c # i
    BY <1>8, <2>1, <2>3 DEF ElectionInv, GrantedOrCounted
  <2> QED
    BY <2>2, <2>3
<1>16. GrantedOnce'
  BY <1>3 DEF NoNewGrants, ElectionInv, GrantedOnce
<1>17. LeadersHaveMajority'
  BY <1>8, <1>9 DEF ElectionInv, LeadersHaveMajority
<1>18. VotesMove
  <2>1. KeepsVotes
    BY <1>1, <1>4 DEF KeepsVotes, ElectionTypes, t
  <2>2. current_term'[i] > current_term[i]
    BY <1>1, <1>9 DEF t
  <2> QED
    BY <1>3, <1>8, <1>9, <2>1, <2>2 DEF VotesMove, CountsMove, GrantsMove, CandidatesMove, NoNewGrants
<1> QED
  BY <1>5, <1>12, <1>13, <1>14, <1>15, <1>16, <1>17, <1>18 DEF ElectionInv

(* A granted vote is counted, and with the last one needed the candidate becomes
   leader. The response that is counted says that the voter supports nobody else. *)
LEMMA CountPreserves ==
    ASSUME ElectionInv, NEW m \in msgs, NEW i \in Node, i = m.to, IsGrant(m),
           state[i] = "candidate", m.request_term = current_term[i],
           NEW s \in {"candidate", "leader"},
           s = "leader" => Cardinality(votes[i] \cup {m.from}) + 1 >= Majority,
           state' = [state EXCEPT ![i] = s],
           votes' = [votes EXCEPT ![i] = votes[i] \cup {m.from}],
           UNCHANGED metadata,
           NoNewGrants
    PROVE  ElectionInv' /\ VotesMove
<1>1. ElectionTypes /\ MsgOK(m) /\ m.from \in Node /\ m.from # i
  BY DEF ElectionInv, ElectionTypes, MsgOK
<1>2. ElectionTypes'
  BY <1>1 DEF NoNewGrants, ElectionTypes, metadata
<1>3. \A j, c, x : Bound(j, c, x)' <=> Bound(j, c, x)
  BY DEF Bound, metadata
<1>4. \A c \in Node : /\ Elected(c)' <=> Elected(c)
                      /\ current_term'[c] = current_term[c]
                      /\ c # i => Counted(c)' = Counted(c) /\ state'[c] = state[c]
  BY <1>1 DEF Elected, Counted, ElectionTypes, metadata
<1>5. Counted(i)' = Counted(i) \cup {m.from} /\ Elected(i) /\ state'[i] = s
  BY <1>1, SMTT(30) DEF Elected, Counted, ElectionTypes
<1>6. CountedAreBound'
  <2> SUFFICES ASSUME NEW c \in Node, Elected(c)', NEW j \in Counted(c)'
               PROVE  Bound(j, c, current_term[c])
    BY <1>3, <1>4, SMTT(30) DEF CountedAreBound, Bound, metadata
  <2>1. CASE j \in Counted(c)
    BY <1>4, <2>1, SMTT(30) DEF ElectionInv, CountedAreBound
  <2>2. CASE c = i /\ j = m.from
    BY <2>2, SMTT(30) DEF ElectionInv, GrantsAreBound
  <2> QED
    BY <1>4, <1>5, <2>1, <2>2, SMTT(30)
<1>7. GrantsAreBound'
  BY <1>3, SMTT(30) DEF NoNewGrants, ElectionInv, GrantsAreBound
<1>8. CountedOnce'
  <2> SUFFICES ASSUME NEW c \in Node, NEW d \in Node, Elected(c), Elected(d),
                      current_term[c] = current_term[d],
                      NEW j \in Counted(c)' \cap Counted(d)'
               PROVE  c = d
    BY <1>4, SMTT(30) DEF CountedOnce
  <2>1. CASE j \in Counted(c) \cap Counted(d)
    BY <2>1 DEF ElectionInv, CountedOnce
  <2>2. CASE j = m.from /\ c = i /\ j \in Counted(d)
    BY <2>2, SMTT(30) DEF ElectionInv, GrantedOrCounted
  <2>3. CASE j = m.from /\ d = i /\ j \in Counted(c)
    BY <2>3, SMTT(30) DEF ElectionInv, GrantedOrCounted
  <2> QED
    BY <1>4, <1>5, <2>1, <2>2, <2>3, SMTT(30)
<1>9. GrantedOrCounted'
  <2> SUFFICES ASSUME NEW c \in Node, NEW n \in msgs, Elected(c), IsGrant(n),
                      n.request_term = current_term[c], n.from \in Counted(c)'
               PROVE  n.to = c
    BY <1>4 DEF NoNewGrants, GrantedOrCounted
  <2>1. CASE n.from \in Counted(c)
    BY <2>1 DEF ElectionInv, GrantedOrCounted
  <2>2. CASE c = i /\ n.from = m.from
    BY <2>2 DEF ElectionInv, GrantedOnce
  <2> QED
    BY <1>4, <1>5, <2>1, <2>2, SMTT(30)
<1>10. GrantedOnce'
  BY DEF NoNewGrants, ElectionInv, GrantedOnce
<1>11. LeadersHaveMajority'
  <2> SUFFICES ASSUME NEW c \in Node, state'[c] = "leader"
               PROVE  Cardinality(Counted(c)') >= Majority
    BY SMTT(30) DEF LeadersHaveMajority
  <2>1. CASE c # i
    BY <1>4, <2>1, SMTT(30) DEF ElectionInv, LeadersHaveMajority
  <2>2. CASE c = i
    <3> DEFINE counted == votes[i] \cup {m.from}
    <3>1. counted \in SUBSET Node /\ i \in Node \ counted
      BY <1>1 DEF ElectionTypes
    <3>2. Cardinality(counted \cup {i}) = Cardinality(counted) + 1
      BY <3>1, Zenon DEF ElectionInv, QuorumFacts
    <3>3. Counted(i)' = counted \cup {i}
      BY <1>5, SMTT(30) DEF Counted
    <3> QED
      BY <1>5, <2>2, <3>2, <3>3, SMTT(30)
  <2> QED
    BY <2>1, <2>2
<1>12. VotesMove
  <2>1. KeepsVotes
    BY <1>1 DEF KeepsVotes, ElectionTypes, metadata
  <2>2. state'[i] = "candidate" => state[i] = "candidate" /\ current_term'[i] = current_term[i]
    BY <1>4
  <2> QED
    BY <1>4, <1>5, <2>1, <2>2 DEF VotesMove, CountsMove, GrantsMove, CandidatesMove, NoNewGrants
<1> QED
  BY <1>2, <1>6, <1>7, <1>8, <1>9, <1>10, <1>11, <1>12 DEF ElectionInv

LEMMA VoteResponsePreserves ==
    ASSUME ElectionInv, NEW m \in msgs, RecvVoteResponse(m)
    PROVE  ElectionInv' /\ VotesMove
<1> DEFINE i == m.to
           counted == votes[i] \cup {m.from}
           won == Cardinality(counted) + 1 >= Majority
<1>1. ElectionTypes /\ MsgOK(m) /\ i \in Node /\ m.from \in Node /\ m.from # i
  BY DEF ElectionInv, ElectionTypes, MsgOK
<1>2. \A taken : Exchange(taken, {}) => NoNewGrants
  BY NothingSentIsQuiet, SMTT(30)
<1>3. CASE /\ ~ m.prevote /\ m.granted /\ m.type = "requestvote_resp"
           /\ state[i] = "candidate" /\ m.request_term = current_term[i]
  <2>1. CASE ~ won /\ UNCHANGED <<metadata, state>> /\ Exchange({m}, {})
             /\ votes' = [votes EXCEPT ![i] = counted]
    <3>1. state' = [state EXCEPT ![i] = "candidate"]
      BY <1>1, <1>3, <2>1 DEF ElectionTypes
    <3> QED
      BY <1>1, <1>2, <1>3, <2>1, <3>1, CountPreserves, Zenon DEF IsGrant
  <2>2. CASE won /\ BecomeLeader(i, {m}, counted)
    <3>1. /\ state' = [state EXCEPT ![i] = "leader"]
          /\ votes' = [votes EXCEPT ![i] = counted]
          /\ UNCHANGED metadata
          /\ \E l, next : SendAppendEntries(i, Peers(i), [View(i) EXCEPT !.l = l], next, {m})
      BY <2>2, Zenon DEF BecomeLeader
    <3>2. NoNewGrants
      BY <1>1, <3>1, ViewTerm, SendIsQuiet, Zenon
    <3> QED
      BY <1>1, <1>3, <2>2, <3>1, <3>2, CountPreserves, Zenon DEF IsGrant
  <2> QED
    BY <1>3, <2>1, <2>2, Zenon DEF RecvVoteResponse
<1>4. CASE m.prevote /\ state[i] = "precandidate"
  <2>1. CASE won /\ BecomeCandidate(i, {m})
    BY <1>1, <2>1, CandidatePreserves
  <2>2. CASE /\ votes' = [votes EXCEPT ![i] = counted]
             /\ Exchange({m}, {}) /\ UNCHANGED <<metadata, state>>
    <3>1. MessagesOK
      BY <1>2, <2>2, SMTT(30) DEF NoNewGrants, MessagesOK
    <3>2. ElectionTypes'
      BY <1>1, <2>2, <3>1, SMTT(30) DEF ElectionTypes, MessagesOK, metadata
    <3>3. KeepsVotes /\ \A c \in Node : StillElected(c)
      BY <1>1, <1>4, <2>2 DEF ElectionTypes, KeepsVotes, StillElected, Elected, metadata
    <3> QED
      BY <3>1, <3>2, <3>3, StepWithoutElection, SMTT(30)
  <2> QED
    BY <1>4, <2>1, <2>2 DEF RecvVoteResponse
<1> QED
  BY <1>3, <1>4 DEF RecvVoteResponse

(* The other handlers make no difference to an election, or end one. *)
LEMMA ReceivePreserves ==
    ASSUME ElectionInv, NEW m \in msgs, Receive(m)
    PROVE  ElectionInv' /\ VotesMove
<1> DEFINE i == m.to
<1> USE DEF metadata, role, peers, storage, counters, bounds
<1>0. /\ MsgOK(m) /\ i \in Node /\ m.from \in Node /\ m.from # i /\ m.term \in Nat
      /\ current_term[i] \in Nat /\ {m.from} \in SUBSET Peers(i)
  BY DEF ElectionInv, ElectionTypes, MsgOK, Peers
<1>1. CASE RecvPrevote(m)
  <2>1. PICK granted : Exchange({m}, {VoteResp(m, current_term[i], granted)})
    BY <1>1, Zenon DEF RecvPrevote
  <2>2. MsgOK(VoteResp(m, current_term[i], granted))
    BY <1>0, SMTT(30) DEF VoteResp, MsgOK
  <2>3. ~ IsGrant(VoteResp(m, current_term[i], granted))
    BY <1>1, Zenon DEF RecvPrevote, VoteResp, IsGrant
  <2>4. NoNewGrants
    BY <2>1, <2>2, <2>3, ExchangeIsQuiet
  <2>5. UNCHANGED <<metadata, role>>
    BY <1>1, Zenon DEF RecvPrevote
  <2> QED
    BY <2>4, <2>5, SameRoles, Zenon
<1>2. CASE RecvRequestVote(m)
  BY <1>2, RequestVotePreserves, Zenon
<1>3. CASE RecvHigherTerm(m)
  <2>1. NoNewGrants
    BY <1>3, NothingSentIsQuiet, Zenon DEF RecvHigherTerm
  <2>2. BecomeFollower(i, m.term)
    BY <1>3, Zenon DEF RecvHigherTerm
  <2>3. m.term > current_term[i]
    BY <1>3, Zenon DEF RecvHigherTerm
  <2>4. m.term >= current_term[i]
    BY <1>0, <2>3
  <2> QED
    BY <1>0, <2>1, <2>2, <2>4, OneBecomesFollower, Zenon
<1>4. CASE RecvVoteResponse(m)
  BY <1>4, VoteResponsePreserves, Zenon
<1>5. ASSUME NEW t \in Nat, NEW success, NEW idx
      PROVE  /\ MsgOK(AppendResp(m, t, success, idx)) /\ ~ IsGrant(AppendResp(m, t, success, idx))
             /\ MsgOK(SnapshotResp(m, t, success)) /\ ~ IsGrant(SnapshotResp(m, t, success))
  <2>1. ~ IsGrant(AppendResp(m, t, success, idx)) /\ ~ IsGrant(SnapshotResp(m, t, success))
    BY Zenon DEF AppendResp, SnapshotResp, IsGrant
  <2>2. MsgOK(AppendResp(m, t, success, idx))
    BY <1>0, SMTT(30) DEF AppendResp, MsgOK
  <2>3. MsgOK(SnapshotResp(m, t, success))
    BY <1>0, SMTT(30) DEF SnapshotResp, MsgOK
  <2> QED
    BY <2>1, <2>2, <2>3, Zenon
<1>6. CASE RecvStaleAppend(m)
  <2>1. NoNewGrants
    BY <1>0, <1>5, <1>6, ExchangeIsQuiet, ZenonT(30) DEF RecvStaleAppend
  <2>5. UNCHANGED <<metadata, role>>
    BY <1>6, Zenon DEF RecvStaleAppend
  <2> QED
    BY <2>1, <2>5, SameRoles, Zenon
<1>7. CASE RecvAppendMismatch(m)
  <2>1. NoNewGrants
    <3>1. PICK idx : Exchange({m}, {AppendResp(m, m.term, FALSE, idx)})
      BY <1>7, Zenon DEF RecvAppendMismatch
    <3> QED
      BY <1>0, <1>5, <3>1, ExchangeIsQuiet, ZenonT(30)
  <2> QED
    BY <1>0, <1>7, <2>1, OneBecomesFollower, Zenon DEF RecvAppendMismatch
<1>8. CASE RecvAppendEntries(m)
  <2>1. NoNewGrants
    BY <1>0, <1>5, <1>8, ExchangeIsQuiet, ZenonT(30) DEF RecvAppendEntries
  <2> QED
    BY <1>0, <1>8, <2>1, OneBecomesFollower, Zenon DEF RecvAppendEntries
<1>9. CASE RecvAppendRefused(m)
  <2>1. NoNewGrants
    BY <1>0, <1>9, ViewTerm, SendIsQuiet DEF RecvAppendRefused
  <2> QED
    BY <1>9, <2>1, SameRoles, Zenon DEF RecvAppendRefused
<1>10. CASE RecvAppendAccepted(m)
  <2>1. UNCHANGED <<metadata, role>> /\ Exchange({m}, {})
    BY <1>10, Zenon DEF RecvAppendAccepted
  <2> QED
    BY <2>1, NothingSentIsQuiet, SameRoles, Zenon
<1>11. CASE RecvStaleSnapshot(m)
  <2>1. NoNewGrants
    BY <1>0, <1>5, <1>11, ExchangeIsQuiet, Zenon DEF RecvStaleSnapshot
  <2>5. UNCHANGED <<metadata, role>>
    BY <1>11, Zenon DEF RecvStaleSnapshot
  <2> QED
    BY <2>1, <2>5, SameRoles, Zenon
<1>12. CASE RecvSnapshotNotNeeded(m)
  <2>1. NoNewGrants
    <3>1. \/ Exchange({m}, {})
          \/ Exchange({m}, {SnapshotResp(m, m.term, TRUE)})
      BY <1>12 DEF RecvSnapshotNotNeeded
    <3>2. CASE Exchange({m}, {SnapshotResp(m, m.term, TRUE)})
      BY <1>0, <1>5, <3>2, ExchangeIsQuiet, ZenonT(30)
    <3> QED
      BY <3>1, <3>2, NothingSentIsQuiet
  <2> QED
    BY <1>0, <1>12, <2>1, OneBecomesFollower DEF RecvSnapshotNotNeeded
<1>13. CASE RecvSnapshot(m)
  <2>1. NoNewGrants
    BY <1>0, <1>5, <1>13, ExchangeIsQuiet, Zenon DEF RecvSnapshot
  <2> QED
    BY <1>0, <1>13, <2>1, OneBecomesFollower, Zenon DEF RecvSnapshot
<1>14. CASE RecvSnapshotResponse(m)
  <2>1. UNCHANGED <<metadata, role>> /\ Exchange({m}, {})
    BY <1>14, Zenon DEF RecvSnapshotResponse
  <2> QED
    BY <2>1, NothingSentIsQuiet, SameRoles, Zenon
<1>15. CASE CrashInHandler(m)
  <2>1. NoNewGrants
    BY <1>15, NothingSentIsQuiet, Zenon DEF CrashInHandler
  <2>2. PICK t \in Nat : t >= current_term[i] /\ BecomeFollower(i, t)
    <3> DEFINE t == IF m.type = "requestvote" /\ m.prevote THEN current_term[i]
                    ELSE Max(m.term, current_term[i])
    <3>1. BecomeFollower(i, t)
      BY <1>15, Zenon DEF CrashInHandler
    <3>2. t \in Nat /\ t >= current_term[i]
      BY <1>0, SMTT(30) DEF Max
    <3> QED
      BY <3>1, <3>2
  <2> QED
    BY <1>0, <2>1, <2>2, OneBecomesFollower, SMTT(30)
<1> QED
  BY <1>1, <1>2, <1>3, <1>4, <1>6, <1>7, <1>8, <1>9, <1>10, <1>11, <1>12, <1>13, SMTT(30),
     <1>14, <1>15 DEF Receive

LEMMA InitEstablishes == QuorumFacts /\ Init => ElectionInv
<1> SUFFICES ASSUME QuorumFacts, Init PROVE ElectionInv
  OBVIOUS
<1>1. ElectionTypes
  BY SMTT(30) DEF Init, ElectionTypes
<1>2. msgs = {} /\ \A c \in Node : ~ Elected(c) /\ state[c] # "leader"
  BY SMTT(30) DEF Init, Elected
<1> QED
  BY <1>1, <1>2, Zenon DEF ElectionInv, CountedAreBound, GrantsAreBound, CountedOnce,
     GrantedOrCounted, GrantedOnce, LeadersHaveMajority

LEMMA NextPreserves == ElectionInv /\ [Next]_vars => ElectionInv' /\ VotesMove
<1> SUFFICES ASSUME ElectionInv, [Next]_vars PROVE ElectionInv' /\ VotesMove
  OBVIOUS
<1>1. CASE UNCHANGED vars
  BY <1>1, NothingSentIsQuiet, SameRoles DEF vars
<1> QED
  BY <1>1, NodeStepPreserves, ReceivePreserves DEF Next

-----------------------------------------------------------------------------
(* Fragments *)

(* X is cut out of Y. *)
CutOf(X, Y) == DOMAIN X \subseteq DOMAIN Y /\ \A k \in DOMAIN X : X[k] = Y[k]

LEMMA CutsMatch ==
    ASSUME NEW G, NEW H, Match(G), \A X \in H : \E Y \in G : CutOf(X, Y)
    PROVE  Match(H)
<1> SUFFICES ASSUME NEW X \in H, NEW Y \in H, NEW k \in DOMAIN X \cap DOMAIN Y,
                    X[k] = Y[k], NEW j \in DOMAIN X \cap DOMAIN Y, j <= k
             PROVE  X[j] = Y[j]
  BY DEF Match, Agree
<1>1. PICK U \in G : CutOf(X, U)
  OBVIOUS
<1>2. PICK V \in G : CutOf(Y, V)
  OBVIOUS
<1>3. /\ k \in DOMAIN U \cap DOMAIN V /\ j \in DOMAIN U \cap DOMAIN V
      /\ U[k] = V[k] /\ X[j] = U[j] /\ Y[j] = V[j]
  BY <1>1, <1>2 DEF CutOf
<1>4. Agree(U, V)
  BY DEF Match
<1> QED
  BY <1>3, <1>4 DEF Agree

(* Indexes and terms are numbers, and a fragment has no gaps. *)
IsFragment(X) ==
    /\ DOMAIN X \subseteq Nat \ {0}
    /\ \A k \in DOMAIN X : X[k] \in Nat
    /\ \A j, k \in DOMAIN X, n \in Nat : j <= n /\ n <= k => n \in DOMAIN X

LEMMA LogIsFragment ==
    ASSUME NEW l \in Seq(Nat)
    PROVE  IsFragment(l)
  BY DEF IsFragment

LEMMA MessageIsFragment ==
    ASSUME NEW m, HasFragment(m), EntryMsgOK(m)
    PROVE  IsFragment(Fragment(m))
<1>1. CASE m.type = "snapshot"
  BY <1>1, LogIsFragment DEF EntryMsgOK, Fragment
<1>2. CASE m.type = "appendentries"
  <2> DEFINE p == m.prev_idx
             n == Last(m)
             F == AppendFragment(m)
  <2>1. p \in Nat /\ m.prev_term \in Nat /\ m.entries \in Seq(Nat) /\ n = p + Len(m.entries)
    BY <1>2 DEF EntryMsgOK, Last
  <2>2. Fragment(m) = F /\ DOMAIN F = Max(p, 1) .. n
    BY <1>2 DEF Fragment, AppendFragment
  <2>3. \A k \in Max(p, 1) .. n : F[k] = IF k = p THEN m.prev_term ELSE m.entries[k - p]
    BY DEF AppendFragment
  <2>4. Max(p, 1) \in Nat \ {0} /\ Max(p, 1) >= p /\ n \in Nat
    BY <2>1 DEF Max
  <2> HIDE DEF p, n, F
  <2>5. \A k \in Max(p, 1) .. n : k # p => k - p \in 1 .. Len(m.entries)
    BY <2>1, <2>4
  <2>6. \A k \in Max(p, 1) .. n : F[k] \in Nat
    BY <2>1, <2>3, <2>5
  <2> QED
    BY <2>2, <2>4, <2>6 DEF IsFragment
<1> QED
  BY <1>1, <1>2 DEF HasFragment

LEMMA FragmentsAreFragments ==
    ASSUME LogInv
    PROVE  \A X \in Fragments : IsFragment(X)
  BY LogIsFragment, MessageIsFragment DEF LogInv, StorageTypes, Fragments

(* Fragments that have the same entry at p, glued together there, match what both
   of them match. *)
LEMMA GluedMatches ==
    ASSUME NEW L, NEW F, NEW Y, NEW N, NEW p \in Nat,
           IsFragment(L), IsFragment(F), IsFragment(Y), IsFragment(N),
           Agree(L, Y), Agree(F, Y),
           \A k \in DOMAIN N : IF k <= p THEN k \in DOMAIN L /\ N[k] = L[k]
                                         ELSE k \in DOMAIN F /\ N[k] = F[k],
           p # 0 => p \in DOMAIN L /\ p \in DOMAIN F /\ L[p] = F[p]
    PROVE  Agree(N, Y) /\ Agree(Y, N)
<1>1. ASSUME NEW k \in DOMAIN N \cap DOMAIN Y, N[k] = Y[k],
             NEW j \in DOMAIN N \cap DOMAIN Y, j <= k
      PROVE  N[j] = Y[j]
  <2>1. k \in Nat \ {0} /\ j \in Nat \ {0}
    BY DEF IsFragment
  <2>2. CASE k <= p
    BY <1>1, <2>1, <2>2 DEF Agree
  <2>3. CASE j > p
    BY <1>1, <2>1, <2>3 DEF Agree
  <2>4. CASE j <= p /\ ~ (k <= p)
    <3>1. p # 0 /\ p \in DOMAIN Y
      BY <2>1, <2>4 DEF IsFragment
    <3>2. F[p] = Y[p]
      BY <1>1, <2>1, <2>4, <3>1 DEF Agree
    <3>3. L[j] = Y[j]
      BY <1>1, <2>1, <2>4, <3>1, <3>2 DEF Agree
    <3> QED
      BY <2>1, <2>4, <3>3
  <2> QED
    BY <2>1, <2>2, <2>3, <2>4
<1> QED
  BY <1>1 DEF Agree

-----------------------------------------------------------------------------
(* Elections that are over stay over. *)
LEMMA VotesForStays ==
    ASSUME ElectionInv, ElectionInv', VotesMove,
           NEW j \in Node, NEW c \in Node, NEW t \in Nat, VotesFor(j, c, t)
    PROVE  VotesFor(j, c, t)'
<1>1. ElectionTypes /\ ElectionTypes' /\ KeepsVotes
  BY Zenon DEF ElectionInv, VotesMove
<1>2. Bound(j, c, t) /\ Bound(j, c, t)'
  BY <1>1, BoundStays DEF VotesFor
<1>3. ASSUME NEW d \in Node, Elected(d)', current_term'[d] = t, j \in Counted(d)'
      PROVE  d = c
  <2>0. \/ Elected(d) /\ current_term'[d] = current_term[d] /\ j \in Counted(d)
        \/ \E m \in msgs : /\ IsGrant(m) /\ m.from = j /\ m.to = d
                           /\ m.request_term = current_term'[d]
        \/ j = d /\ current_term'[d] > current_term[d]
    BY <1>3, Zenon DEF VotesMove, CountsMove
  <2>1. CASE Elected(d) /\ current_term'[d] = current_term[d] /\ j \in Counted(d)
    BY <1>3, <2>1 DEF VotesFor
  <2>2. CASE \E m \in msgs : /\ IsGrant(m) /\ m.from = j /\ m.to = d
                             /\ m.request_term = current_term'[d]
    BY <1>3, <2>2 DEF VotesFor
  <2>3. CASE j = d /\ current_term'[d] > current_term[d]
    BY <1>1, <1>2, <1>3, <2>3 DEF Bound, ElectionTypes
  <2> QED
    BY <2>0, <2>1, <2>2, <2>3, Zenon
<1>4. ASSUME NEW m \in msgs', IsGrant(m), m.from = j, m.request_term = t
      PROVE  m.to = c
  BY <1>2, <1>4 DEF VotesMove, GrantsMove, VotesFor, Bound
<1> QED
  BY <1>2, <1>3, <1>4 DEF VotesFor

LEMMA HasWonStays ==
    ASSUME ElectionInv, ElectionInv', VotesMove,
           NEW c \in Node, NEW Q \in SUBSET Node, NEW t \in Nat, HasWon(c, Q, t)
    PROVE  HasWon(c, Q, t)'
<1>1. \A j \in Q : VotesFor(j, c, t)'
  BY VotesForStays DEF HasWon
<1>2. current_term'[c] >= t /\ (current_term'[c] = t => current_term[c] = t)
  <2>1. current_term[c] \in Nat /\ current_term'[c] \in Nat
    BY SMTT(30) DEF ElectionInv, ElectionTypes
  <2>2. current_term'[c] >= current_term[c] /\ current_term[c] >= t
    BY Zenon DEF HasWon, VotesMove, KeepsVotes
  <2> QED
    BY <2>1, <2>2, SMTT(30)
<1>3. current_term'[c] = t => state'[c] # "candidate"
  <2>1. state'[c] = "candidate" => \/ state[c] = "candidate"
                                   \/ current_term'[c] > current_term[c]
    BY Zenon DEF VotesMove, CandidatesMove
  <2> QED
    BY <1>2, <2>1, SMTT(30) DEF HasWon
<1> QED
  BY <1>1, <1>2, <1>3 DEF HasWon

LEMMA TermStaysElected ==
    ASSUME ElectionInv, ElectionInv', VotesMove, NEW t \in Nat, TermIsElected(t)
    PROVE  TermIsElected(t)'
<1>1. PICK c \in Node, Q \in SUBSET Node : HasWon(c, Q, t)
  BY DEF TermIsElected
<1>2. HasWon(c, Q, t)'
  BY <1>1, HasWonStays
<1> QED
  BY <1>2 DEF TermIsElected

LeadersAreElected ==
    \A i \in Node : state[i] = "leader" => TermIsElected(current_term[i])

LEMMA LeadersTermIsElected == ElectionInv => LeadersAreElected
<1> SUFFICES ASSUME ElectionInv, NEW i \in Node, state[i] = "leader"
             PROVE  TermIsElected(current_term[i])
  BY DEF LeadersAreElected
<1>1. Counted(i) \in SUBSET Node /\ Cardinality(Counted(i)) >= Majority
  BY DEF ElectionInv, ElectionTypes, Counted, LeadersHaveMajority
<1>2. \A j \in Counted(i) : VotesFor(j, i, current_term[i])
  <2> SUFFICES ASSUME NEW j \in Counted(i)
               PROVE  VotesFor(j, i, current_term[i])
    OBVIOUS
  <2>1. Elected(i) /\ Bound(j, i, current_term[i])
    BY DEF Elected, ElectionInv, CountedAreBound
  <2>2. \A d \in Node : Elected(d) /\ current_term[d] = current_term[i] /\ j \in Counted(d)
            => d = i
    BY <2>1 DEF ElectionInv, CountedOnce
  <2>3. \A m \in msgs : IsGrant(m) /\ m.from = j /\ m.request_term = current_term[i]
            => m.to = i
    BY <2>1 DEF ElectionInv, GrantedOrCounted
  <2> QED
    BY <2>1, <2>2, <2>3 DEF VotesFor
<1>3. current_term[i] \in Nat
  BY DEF ElectionInv, ElectionTypes
<1>4. HasWon(i, Counted(i), current_term[i])
  BY <1>1, <1>2, <1>3 DEF HasWon
<1> QED
  BY <1>1, <1>4 DEF TermIsElected

-----------------------------------------------------------------------------
(* The two kinds of steps. In both, what is new is cut out of a fragment of G. *)
NewFragments(G) ==
    \A m \in msgs' : m \in msgs \/ ~ HasFragment(m) \/ \E Y \in G : CutOf(Fragment(m), Y)

(* A leader's message was there before, answers one that was, or is new. *)
LeaderMessages ==
    \A m \in msgs', n \in Nat : Reaches(m, n) =>
        \/ \E o \in msgs : Reaches(o, n) /\ o.term = m.term
        \/ \E i \in Node : /\ state'[i] = "leader" /\ current_term'[i] = m.term
                           /\ n <= Len(log'[i])

StaysLeader(j) ==
    state'[j] = "leader" =>
        state[j] = "leader" /\ current_term'[j] = current_term[j] /\ log'[j] = log[j]

TypesStep == StorageTypes' /\ (\A m \in msgs' : EntryMsgOK(m)) /\ \A i \in Node : IndexesOK(i)'

LEMMA FragmentsStep ==
    ASSUME StorageTypes, NEW i \in Node, NEW l, log' = [log EXCEPT ![i] = l],
           NEW G, Fragments \subseteq G, \E Y \in G : CutOf(l, Y), NewFragments(G)
    PROVE  \A X \in Fragments' : \E Y \in G : CutOf(X, Y)
<1> SUFFICES ASSUME NEW X \in Fragments' PROVE \E Y \in G : CutOf(X, Y)
  OBVIOUS
<1>0. \A Y : CutOf(Y, Y)
  BY DEF CutOf
<1>1. CASE X \in Fragments
  BY <1>0, <1>1
<1>2. CASE X = l
  BY <1>2
<1>3. ASSUME NEW m \in msgs', HasFragment(m), X = Fragment(m)
      PROVE  \E Y \in G : CutOf(X, Y)
  BY <1>0, <1>3 DEF NewFragments, Fragments
<1>4. ASSUME NEW j \in Node, X = log'[j] PROVE X = l \/ X \in Fragments
  BY <1>4 DEF StorageTypes, Fragments
<1> QED
  BY <1>1, <1>2, <1>3, <1>4 DEF Fragments

LEMMA MessagesStep ==
    ASSUME ElectionInv, ElectionInv', VotesMove, LogInv, LeaderMessages, StorageTypes',
           \A j \in Node : state'[j] = "leader" =>
               \/ /\ state[j] = "leader" /\ current_term'[j] = current_term[j]
                  /\ Len(log'[j]) >= Len(log[j])
               \/ ~ TermIsElected(current_term'[j])
    PROVE  MessagesAreLeaders'
<1> SUFFICES ASSUME NEW m \in msgs', NEW n \in Nat, Reaches(m, n)
             PROVE  /\ TermIsElected(m.term)'
                    /\ \A i \in Node : state'[i] = "leader" /\ current_term'[i] = m.term
                           => n <= Len(log'[i])
  BY DEF MessagesAreLeaders
<1>1. m.term \in Nat
  BY DEF ElectionInv, ElectionTypes, MsgOK
<1>2. ASSUME NEW o \in msgs, Reaches(o, n), o.term = m.term
      PROVE  /\ TermIsElected(m.term)'
             /\ \A i \in Node : state'[i] = "leader" /\ current_term'[i] = m.term
                    => n <= Len(log'[i])
  <2>1. TermIsElected(m.term)
    BY <1>2 DEF LogInv, MessagesAreLeaders
  <2>2. ASSUME NEW i \in Node, state'[i] = "leader", current_term'[i] = m.term
        PROVE  n <= Len(log'[i])
    <3>1. /\ state[i] = "leader" /\ current_term[i] = m.term
          /\ Len(log'[i]) >= Len(log[i])
      BY <2>1, <2>2
    <3>2. Len(log[i]) \in Nat /\ Len(log'[i]) \in Nat
      BY DEF StorageTypes, LogInv
    <3>3. n <= Len(log[i])
      BY <1>2, <3>1 DEF LogInv, MessagesAreLeaders
    <3> QED
      BY <3>1, <3>2, <3>3
  <2> QED
    BY <1>1, <2>1, <2>2, TermStaysElected
<1>3. ASSUME NEW i \in Node, state'[i] = "leader", current_term'[i] = m.term,
             n <= Len(log'[i])
      PROVE  /\ TermIsElected(m.term)'
             /\ \A j \in Node : state'[j] = "leader" /\ current_term'[j] = m.term
                    => n <= Len(log'[j])
  <2>1. LeadersAreElected'
    BY LeadersTermIsElected, PTL
  <2>2. TermIsElected(m.term)'
    BY <1>3, <2>1 DEF LeadersAreElected
  <2>3. ElectionSafety'
    BY InvImpliesSafety, PTL
  <2> QED
    BY <1>3, <2>2, <2>3 DEF ElectionSafety
<1> QED
  BY <1>2, <1>3 DEF LeaderMessages

(* Entries are moved around. *)
LEMMA EntriesMove ==
    ASSUME ElectionInv, ElectionInv', VotesMove, LogInv, TypesStep, LeaderMessages,
           NEW i \in Node, NEW l, log' = [log EXCEPT ![i] = l],
           NEW N,
           \A Y \in Fragments : Agree(N, Y) /\ Agree(Y, N),
           \A k \in DOMAIN N : \E Y \in Fragments : k \in DOMAIN Y /\ Y[k] = N[k],
           \E Y \in Fragments \cup {N} : CutOf(l, Y),
           NewFragments(Fragments \cup {N}),
           \A j \in Node : StaysLeader(j)
    PROVE  LogInv'
<1> DEFINE G == Fragments \cup {N}
<1>1. \A X \in Fragments' : \E Y \in G : CutOf(X, Y)
  BY FragmentsStep, Zenon DEF LogInv
<1>2. Match(Fragments')
  <2>1. Agree(N, N)
    BY DEF Agree
  <2>2. Match(G)
    BY <2>1 DEF Match, LogInv
  <2> QED
    BY <1>1, <2>2, CutsMatch
<1>3. ASSUME NEW X \in Fragments', NEW k \in DOMAIN X
      PROVE  \E Y \in Fragments : k \in DOMAIN Y /\ Y[k] = X[k]
  <2>1. PICK Y \in G : CutOf(X, Y)
    BY <1>1
  <2>2. k \in DOMAIN Y /\ Y[k] = X[k]
    BY <2>1 DEF CutOf
  <2> QED
    BY <2>2
<1> HIDE DEF G
<1>4. TermsAreElected'
  <2> SUFFICES ASSUME NEW X \in Fragments', NEW k \in DOMAIN X PROVE TermIsElected(X[k])'
    BY DEF TermsAreElected
  <2>1. PICK Y \in Fragments : k \in DOMAIN Y /\ Y[k] = X[k]
    BY <1>3
  <2>2. TermIsElected(X[k]) /\ X[k] \in Nat
    BY <2>1, FragmentsAreFragments, SMTT(30) DEF LogInv, TermsAreElected, IsFragment
  <2> QED
    BY <2>2, TermStaysElected
<1>5. LeaderHasItsTerm'
  <2> SUFFICES ASSUME NEW j \in Node, state'[j] = "leader",
                      NEW X \in Fragments', NEW k \in DOMAIN X, X[k] = current_term'[j]
               PROVE  k \in DOMAIN log'[j] /\ log'[j][k] = X[k]
    BY DEF LeaderHasItsTerm
  <2>1. PICK Y \in Fragments : k \in DOMAIN Y /\ Y[k] = X[k]
    BY <1>3
  <2>2. state[j] = "leader" /\ current_term'[j] = current_term[j] /\ log'[j] = log[j]
    BY DEF StaysLeader
  <2>3. LeaderHasItsTerm /\ Y[k] = current_term[j]
    BY <2>1, <2>2, SMTT(30) DEF LogInv
  <2>4. k \in DOMAIN log[j] /\ log[j][k] = Y[k]
    BY <2>1, <2>2, <2>3, ZenonT(30) DEF LeaderHasItsTerm
  <2> QED
    BY <2>1, <2>2, <2>4
<1>6. MessagesAreLeaders'
  <2>1. \A j \in Node : state'[j] = "leader" =>
            /\ state[j] = "leader" /\ current_term'[j] = current_term[j]
            /\ Len(log'[j]) >= Len(log[j])
    <3>1. \A j \in Node : Len(log[j]) \in Nat
      BY DEF LogInv, StorageTypes
    <3>2. \A j \in Node : Len(log[j]) >= Len(log[j])
      BY <3>1, SMTT(30)
    <3> QED
      BY <3>2, ZenonT(30) DEF StaysLeader
  <2> QED
    BY <2>1, MessagesStep, Zenon DEF TypesStep
<1> QED
  BY <1>2, <1>4, <1>5, <1>6 DEF LogInv, TypesStep

LEMMA PrefixFacts ==
    ASSUME NEW l \in Seq(Nat), NEW b \in Nat, b <= Len(l)
    PROVE  /\ SubSeq(l, 1, b) \in Seq(Nat) /\ Len(SubSeq(l, 1, b)) = b
           /\ CutOf(SubSeq(l, 1, b), l)
           /\ \A k \in 1 .. b : SubSeq(l, 1, b)[k] = l[k]
  BY DEF CutOf

LEMMA LeastNumber ==
    ASSUME ElectionInv, NEW S \in SUBSET Nat, S # {}
    PROVE  \E n \in S : \A m \in S : n <= m
  BY DEF ElectionInv, QuorumFacts

-----------------------------------------------------------------------------
(* Steps that leave all logs as they are *)

LEMMA NodeTypes ==
    ASSUME StorageTypes, NEW j \in Node
    PROVE  /\ log[j] \in Seq(Nat) /\ Len(log[j]) \in Nat
           /\ durable[j] \in Nat /\ written[j] \in Nat /\ commit_idx[j] \in Nat
           /\ snapshot_last_idx[j] \in Nat /\ next_snapshot[j] \in Nat
           /\ next_idx[j] \in [Node -> Nat] /\ match_idx[j] \in [Node -> Nat]
  BY DEF StorageTypes

(* A message without entries that acknowledges nothing new. *)
QuietMsg(m) ==
    /\ ~ HasFragment(m) /\ EntryMsgOK(m)
    /\ \A n \in Nat : Reaches(m, n) => \E o \in msgs : Reaches(o, n) /\ o.term = m.term

QuietMessages == \A m \in msgs' : m \in msgs \/ QuietMsg(m)

LEMMA QuietStep ==
    ASSUME ElectionInv, ElectionInv', VotesMove, LogInv,
           UNCHANGED log, StorageTypes', \A j \in Node : IndexesOK(j)',
           QuietMessages, \A j \in Node : StaysLeader(j)
    PROVE  LogInv'
<1>1. TypesStep
  BY DEF TypesStep, QuietMessages, QuietMsg, LogInv
<1>2. LeaderMessages
  BY SMTT(30) DEF LeaderMessages, QuietMessages, QuietMsg
<1>3. PICK i \in Node : TRUE
  BY DEF ElectionInv, QuorumFacts
<1>4. PICK N : N = log[i]
  OBVIOUS
<1>5. log' = [log EXCEPT ![i] = N] /\ N \in Fragments
  BY <1>4 DEF LogInv, StorageTypes, Fragments
<1>6. \A Y \in Fragments : Agree(N, Y) /\ Agree(Y, N)
  BY <1>5 DEF LogInv, Match
<1>7. NewFragments(Fragments \cup {N})
  BY DEF NewFragments, QuietMessages, QuietMsg
<1>8. CutOf(N, N)
  BY DEF CutOf
<1> QED
  BY <1>1, <1>2, <1>5, <1>6, <1>7, <1>8, EntriesMove

PeersStay(j) ==
    state'[j] = "leader" =>
        /\ state[j] = "leader" /\ current_term'[j] = current_term[j]
        /\ next_idx'[j] = next_idx[j] /\ match_idx'[j] = match_idx[j]

LEMMA ElectoralStep ==
    ASSUME ElectionInv, ElectionInv', VotesMove, LogInv,
           UNCHANGED <<log, durable, written, snapshot_last_idx, next_snapshot, commit_idx>>,
           next_idx' \in [Node -> [Node -> Nat]], match_idx' \in [Node -> [Node -> Nat]],
           \A j \in Node : PeersStay(j), QuietMessages
    PROVE  LogInv'
<1>1. StorageTypes'
  BY SMTT(30) DEF LogInv, StorageTypes
<1>2. \A j \in Node : IndexesOK(j)'
  BY Zenon DEF LogInv, IndexesOK, PeersStay
<1>3. \A j \in Node : StaysLeader(j)
  BY Zenon DEF PeersStay, StaysLeader
<1> QED
  BY <1>1, <1>2, <1>3, QuietStep, SMTT(30)

(* ... because a node becomes a follower, or because nothing happens to the roles. *)
LEMMA FollowerFacts ==
    ASSUME ElectionInv, LogInv, NEW i \in Node, NEW t, BecomeFollower(i, t)
    PROVE  /\ next_idx' \in [Node -> [Node -> Nat]] /\ match_idx' \in [Node -> [Node -> Nat]]
           /\ \A j \in Node : PeersStay(j)
           /\ state'[i] = "follower" /\ \A j \in Node \ {i} : current_term'[j] = current_term[j]
<1>1. /\ next_idx' \in [Node -> [Node -> Nat]] /\ match_idx' \in [Node -> [Node -> Nat]]
      /\ \A j \in Node \ {i} : next_idx'[j] = next_idx[j] /\ match_idx'[j] = match_idx[j]
  BY DEF BecomeFollower, LogInv, StorageTypes
<1>2. /\ state'[i] = "follower"
      /\ \A j \in Node \ {i} : state'[j] = state[j] /\ current_term'[j] = current_term[j]
  BY SMTT(30) DEF BecomeFollower, ElectionInv, ElectionTypes
<1> QED
  BY <1>1, <1>2 DEF PeersStay

LEMMA SameRoleFacts ==
    ASSUME LogInv, UNCHANGED <<state, current_term, peers>>
    PROVE  /\ next_idx' \in [Node -> [Node -> Nat]] /\ match_idx' \in [Node -> [Node -> Nat]]
           /\ \A j \in Node : PeersStay(j)
  BY DEF LogInv, StorageTypes, PeersStay, peers

LEMMA ExchangeQuietly ==
    ASSUME NEW taken, NEW out, Exchange(taken, out), \A m \in out : QuietMsg(m)
    PROVE  QuietMessages
  BY DEF Exchange, QuietMessages

LEMMA QuietKinds ==
    ASSUME NEW m, m.type \in {"requestvote", "requestvote_resp", "snapshot_resp"}
    PROVE  QuietMsg(m)
  BY SMTT(30) DEF QuietMsg, HasFragment, EntryMsgOK, Reaches

LEMMA QuietResponse ==
    ASSUME NEW m, NEW t, NEW idx \in Nat
    PROVE  QuietMsg(AppendResp(m, t, FALSE, idx))
  BY DEF AppendResp, QuietMsg, HasFragment, EntryMsgOK, Reaches

LEMMA NothingSentQuietly ==
    ASSUME NEW taken, Exchange(taken, {}) \/ UNCHANGED msgs
    PROVE  QuietMessages
  BY DEF Exchange, QuietMessages

=============================================================================
