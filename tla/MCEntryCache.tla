---------------------------- MODULE MCEntryCache ----------------------------
(* EntryCache for TLC: two entries of different weight, a buffer of two slots
   that doubles twice within the log indexes explored. *)
EXTENDS EntryCache, TLC

CONSTANTS light, heavy

MCEntry == {light, heavy}
MCWeight == light :> 1 @@ heavy :> 2
=============================================================================
