------------------------------ MODULE KeyStore ------------------------------
(***************************************************************************)
(* What clients may expect of keys, whichever cluster holds them: a key    *)
(* has the value that was written last, and nothing but a write changes    *)
(* it. Nothing is promised of the keys that were overtaken.                *)
(***************************************************************************)
EXTENDS Integers

CONSTANTS Key, Value, NONE

VARIABLES
    value,      \* per key: its value, or NONE if it does not exist
    puts,       \* how many writes there were
    overtaken   \* the keys that this specification has given up

vars == <<value, puts, overtaken>>

(* A client sets a key, or deletes it. *)
Put(k, v) ==
    /\ value' = [value EXCEPT ![k] = v]
    /\ puts' = puts + 1
    /\ UNCHANGED overtaken

(* A step that is no write, or a write of a key that was given up *)
Overtake ==
    /\ overtaken \subseteq overtaken'
    /\ \A k \in Key \ overtaken' : value'[k] = value[k]
    /\ puts' = puts \/ (overtaken # {} /\ puts' = puts + 1)

Init ==
    /\ value \in [Key -> Value \cup {NONE}] /\ puts = 0 /\ overtaken = {}

Next == (\E k \in Key, v \in Value \cup {NONE} : Put(k, v)) \/ Overtake

Spec == Init /\ [][Next]_vars
=============================================================================
