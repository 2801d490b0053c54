--------------------------- MODULE RaftInvariants ---------------------------
(***************************************************************************)
(* The inductive invariants that RaftServerProofs, LogLeaderProofs,        *)
(* LogFollowerProofs and RaftTheorems prove of RaftServer.                 *)
(***************************************************************************)
EXTENDS RaftServer

-----------------------------------------------------------------------------
(* Votes. One of j for c in term t shows in two places: in what the candidate or
   leader c has counted, and in a response under way. Wherever it shows, j is in
   term t and voted for c, or has moved on to a later term. *)

Elected(c) == state[c] \in {"candidate", "leader"}

Counted(c) == votes[c] \cup {c}

(* A response that grants a vote, as opposed to a prevote. *)
IsGrant(m) == m.type = "requestvote_resp" /\ ~ m.prevote /\ m.granted

(* j voted for c in term t, unless it has left that term. *)
Bound(j, c, t) ==
    current_term[j] >= t /\ (current_term[j] = t => voted_for[j] = c)

MsgOK(m) ==
    /\ m.from \in Node /\ m.to \in Node /\ m.from # m.to
    /\ m.term \in Nat
    /\ m.type \in {"requestvote", "requestvote_resp", "appendentries",
                   "appendentries_resp", "snapshot", "snapshot_resp"}
    /\ m.type = "requestvote_resp" => m.request_term \in Nat

ElectionTypes ==
    /\ state \in [Node -> {"follower", "precandidate", "candidate", "leader"}]
    /\ current_term \in [Node -> Nat]
    /\ voted_for \in [Node -> Node \cup {NONE}]
    /\ votes \in [Node -> SUBSET Node]
    /\ \A c \in Node : c \notin votes[c]
    /\ \A m \in msgs : MsgOK(m)

CountedAreBound ==
    \A c \in Node : Elected(c) => \A j \in Counted(c) : Bound(j, c, current_term[c])

GrantsAreBound ==
    \A m \in msgs : IsGrant(m) => Bound(m.from, m.to, m.request_term)

(* One voter supports one candidate in a term, however its votes show. *)
CountedOnce ==
    \A c, d \in Node :
        Elected(c) /\ Elected(d) /\ current_term[c] = current_term[d]
            /\ Counted(c) \cap Counted(d) # {} => c = d

GrantedOrCounted ==
    \A c \in Node : \A m \in msgs :
        Elected(c) /\ IsGrant(m) /\ m.request_term = current_term[c]
            /\ m.from \in Counted(c) => m.to = c

GrantedOnce ==
    \A m, n \in msgs :
        IsGrant(m) /\ IsGrant(n) /\ m.from = n.from
            /\ m.request_term = n.request_term => m.to = n.to

LeadersHaveMajority ==
    \A c \in Node : state[c] = "leader" => Cardinality(Counted(c)) >= Majority

(* What the argument needs to know of numbers and of finite sets, here as a part of the
   invariant that no step can change. RaftTheorems proves it from the library. *)
QuorumFacts ==
    /\ Node # {} /\ Cardinality({}) = 0
    /\ Majority \in 1 .. Cardinality(Node)
    /\ \A A \in SUBSET Node : IsFiniteSet(A) /\ Cardinality(A) \in Nat
    /\ \A A, B \in SUBSET Node :
          /\ A \subseteq B /\ A # B => Cardinality(A) < Cardinality(B)
          /\ Cardinality(A) >= Majority /\ Cardinality(B) >= Majority => A \cap B # {}
    /\ \A A \in SUBSET Node : \A x \in Node \ A :
          Cardinality(A \cup {x}) = Cardinality(A) + 1
    /\ \A S \in SUBSET Nat : S # {} => \E n \in S : \A m \in S : n <= m

(* The inductive invariant. *)
ElectionInv ==
    /\ QuorumFacts
    /\ ElectionTypes
    /\ CountedAreBound /\ GrantsAreBound
    /\ CountedOnce /\ GrantedOrCounted /\ GrantedOnce
    /\ LeadersHaveMajority

-----------------------------------------------------------------------------
(* Logs. A fragment is a piece of one: the log of a node, the entries of an
   appendentries message with the one before them, or a snapshot under way. *)

HasFragment(m) == m.type \in {"appendentries", "snapshot"}

AppendFragment(m) ==
    [k \in Max(m.prev_idx, 1) .. Last(m) |->
        IF k = m.prev_idx THEN m.prev_term ELSE m.entries[k - m.prev_idx]]

Fragment(m) == IF m.type = "snapshot" THEN m.snapshot ELSE AppendFragment(m)

Fragments == {log[i] : i \in Node} \cup {Fragment(m) : m \in {n \in msgs : HasFragment(n)}}

(* From an index on which they agree, fragments agree downwards. *)
Agree(X, Y) ==
    \A k \in DOMAIN X \cap DOMAIN Y : X[k] = Y[k] =>
        \A j \in DOMAIN X \cap DOMAIN Y : j <= k => X[j] = Y[j]

Match(G) == \A X, Y \in G : Agree(X, Y)

(* j votes for c in term t and for nobody else. *)
VotesFor(j, c, t) ==
    /\ Bound(j, c, t)
    /\ \A d \in Node : Elected(d) /\ current_term[d] = t /\ j \in Counted(d) => d = c
    /\ \A m \in msgs : IsGrant(m) /\ m.from = j /\ m.request_term = t => m.to = c

(* c has won the election of term t, and is not in it any more. *)
HasWon(c, Q, t) ==
    /\ Cardinality(Q) >= Majority
    /\ \A j \in Q : VotesFor(j, c, t)
    /\ current_term[c] >= t
    /\ current_term[c] = t => state[c] # "candidate"

TermIsElected(t) == \E c \in Node : \E Q \in SUBSET Node : HasWon(c, Q, t)

EntryMsgOK(m) ==
    /\ m.type = "appendentries" =>
          /\ m.prev_idx \in Nat /\ m.prev_term \in Nat /\ m.leader_commit \in Nat
          /\ m.entries \in Seq(Nat)
          /\ m.prev_idx = 0 => m.prev_term = 0 /\ m.entries # << >>
    /\ m.type = "snapshot" => m.snapshot \in Seq(Nat)
    /\ m.type = "appendentries_resp" => m.current_idx \in Nat

StorageTypes ==
    /\ log \in [Node -> Seq(Nat)]
    /\ durable \in [Node -> Nat] /\ written \in [Node -> Nat]
    /\ snapshot_last_idx \in [Node -> Nat] /\ next_snapshot \in [Node -> Nat]
    /\ commit_idx \in [Node -> Nat]
    /\ next_idx \in [Node -> [Node -> Nat]] /\ match_idx \in [Node -> [Node -> Nat]]

(* What is in a snapshot, and what is committed, is in the log; and so is what a
   leader believes that its peers have. *)
IndexesOK(i) ==
    /\ snapshot_last_idx[i] <= commit_idx[i] /\ next_snapshot[i] <= commit_idx[i]
    /\ commit_idx[i] <= Len(log[i])
    /\ state[i] = "leader" =>
          /\ Len(log[i]) >= 1
          /\ \A p \in Node : /\ next_idx[i][p] >= 1 /\ next_idx[i][p] <= Len(log[i]) + 1
                             /\ match_idx[i][p] <= Len(log[i])

(* The index that a leader's message, or its acknowledgement, reaches. *)
Reaches(m, n) ==
    \/ m.type = "appendentries" /\ Last(m) = n
    \/ m.type = "appendentries_resp" /\ m.success /\ m.current_idx = n

MessagesAreLeaders ==
    \A m \in msgs : \A n \in Nat : Reaches(m, n) =>
        /\ TermIsElected(m.term)
        /\ \A i \in Node : state[i] = "leader" /\ current_term[i] = m.term
               => n <= Len(log[i])

TermsAreElected == \A X \in Fragments : \A k \in DOMAIN X : TermIsElected(X[k])

LeaderHasItsTerm ==
    \A i \in Node : state[i] = "leader" =>
        \A X \in Fragments : \A k \in DOMAIN X :
            X[k] = current_term[i] => k \in DOMAIN log[i] /\ log[i][k] = X[k]

(* The inductive invariant, beside that of the elections. *)
LogInv ==
    /\ StorageTypes /\ \A m \in msgs : EntryMsgOK(m)
    /\ \A i \in Node : IndexesOK(i)
    /\ MessagesAreLeaders
    /\ Match(Fragments) /\ TermsAreElected /\ LeaderHasItsTerm

=============================================================================
