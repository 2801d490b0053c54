---------------------------- MODULE MCMigration -----------------------------
(***************************************************************************)
(* Two clusters for model checking module Migration. Either of the two     *)
(* nodes of a cluster may lead it, the one that is listed first or not.    *)
(***************************************************************************)
EXTENDS Migration

CONSTANTS a1, a2, b1, b2

MCNodesOf == [c \in Id |-> IF c = 1 THEN <<a1, a2>> ELSE <<b1, b2>>]

Plan(l, t, s, p, a) ==
    [leader |-> l, terms |-> t, sessions |-> s, puts |-> p, failures |-> 1, aborts |-> a]
MCPlans ==
    {Plan(<<a1, b1>>, <<2, 1>>, 1, 2, TRUE), Plan(<<a1, b1>>, <<2, 1>>, 3, 1, FALSE),
     Plan(<<a1, b2>>, <<2, 2>>, 2, 1, FALSE)}
MCPlan == {Plan(<<a1, b1>>, <<1, 1>>, 1, 1, FALSE)}
=============================================================================
