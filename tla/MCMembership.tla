---------------------------- MODULE MCMembership ----------------------------
(***************************************************************************)
(* Membership for TLC: every plan has its first members, the nodes that    *)
(* may join, and bounds that leave room for one kind of trouble: two       *)
(* removals in a row, a node that two leaders add, a cluster of one that   *)
(* grows, restarts, snapshots, and a promotion that is taken back.         *)
(***************************************************************************)
EXTENDS Membership, TLC

Plan(voters, learners, spares, t, i, c, s, r) ==
    [voters |-> voters, learners |-> learners, spares |-> spares, terms |-> t,
     idx |-> i, changes |-> c, snapshots |-> s, restarts |-> r]

MCPlans ==
    {Plan(3, 0, 0, 3, 5, 2, 0, 0), Plan(3, 0, 1, 2, 3, 2, 0, 0),
     Plan(2, 0, 1, 3, 5, 1, 0, 0), Plan(1, 0, 1, 3, 6, 2, 0, 1),
     Plan(1, 0, 2, 1, 6, 2, 0, 0), Plan(1, 0, 1, 2, 6, 1, 1, 1),
     Plan(3, 0, 0, 2, 4, 2, 1, 0), Plan(2, 1, 0, 2, 4, 1, 0, 1),
     Plan(2, 1, 0, 2, 4, 1, 1, 0), Plan(3, 1, 0, 2, 4, 0, 0, 0)}

(* Four voters and two removals *)
FourVoters == {Plan(4, 0, 0, 3, 4, 2, 0, 0)}

(* What happens after a change that came too early is the other run's question. *)
NotHasty == ~ hasty

Symmetry == Permutations(Node)
=============================================================================
