--------------------------- MODULE MCConnections ----------------------------
(***************************************************************************)
(* The connections for model checking module Connections: those that meet  *)
(* in one behaviour share the threads, or the library's node.              *)
(***************************************************************************)
EXTENDS Connections

CONSTANTS c1, c2

Cast(k1, k2) == [c \in Link |-> IF c = c1 THEN k1 ELSE k2]
MCCasts ==
    {Cast("node", "node"), Cast("shard", "migrate"), Cast("none", "join"), Cast("none", "link")}
=============================================================================
