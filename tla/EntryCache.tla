----------------------------- MODULE EntryCache -----------------------------
(***************************************************************************)
(* The in-memory cache of Raft log entries (src/src/entrycache.c): a ring  *)
(* buffer of pointers that doubles when it is full, loses entries at the   *)
(* head when the log is compacted or the memory limit is exceeded, and at  *)
(* the tail when the log is truncated.                                     *)
(*                                                                         *)
(* The cache is driven by the log implementation (logImpl* in log.c),      *)
(* which is the environment here: `log' is the log that the cache must     *)
(* agree with, as a sequence whose element i is the entry at log index i   *)
(* (NULL when the entry came inside a snapshot), and `first' is one more   *)
(* than the last index covered by a snapshot.                              *)
(***************************************************************************)
EXTENDS Integers, Sequences

CONSTANTS
    Entry,        \* the entries a caller may append
    Weight,       \* bytes of an entry: sizeof(raft_entry_t) + data_len
    InitSize,     \* ENTRY_CACHE_INIT_SIZE
    MaxMemory,    \* raft.log-max-cache-size, the argument of EntryCacheCompact
    MaxIndex,     \* bound: the largest log index
    NULL          \* an empty slot

ASSUME EntryAssumption == NULL \notin Entry
ASSUME WeightAssumption == Weight \in [Entry -> Nat \ {0}]
ASSUME SizeAssumption == InitSize \in Nat \ {0}
ASSUME MemoryAssumption == MaxMemory \in Nat
ASSUME BoundAssumption == MaxIndex \in Nat

VARIABLES
    size,         \* allocated slots
    len,          \* cached entries
    start_idx,    \* log index of the first cached entry, 0 when empty
    start,        \* slot of the first cached entry
    ptrs,         \* the slots, 0 .. size - 1
    memsize,      \* entries_memsize
    log, first    \* the environment's log

cache == <<size, len, start_idx, start, ptrs, memsize>>
vars == <<size, len, start_idx, start, ptrs, memsize, log, first>>

-----------------------------------------------------------------------------
(* The slot of the k-th cached entry, k counted from 0. *)
Slot(k) == (start + k) % size

(* EntryCacheGet: the entry at idx, or NULL when the cache does not hold it *)
EntryCacheGet(idx) ==
    IF idx < start_idx \/ idx - start_idx >= len
    THEN NULL
    ELSE ptrs[Slot(idx - start_idx)]

EntryCacheNew ==
    /\ size' = InitSize
    /\ len' = 0
    /\ start_idx' = 0
    /\ start' = 0
    /\ ptrs' = [s \in 0 .. InitSize - 1 |-> NULL]
    /\ memsize' = 0

(* Mutant of Enlarged: the wrapped part is not moved. *)
EnlargedNotMoved ==
    [s \in 0 .. 2 * size - 1 |-> IF s \in 0 .. size - 1 THEN ptrs[s] ELSE NULL]

(* The slots after the buffer has doubled: the part that had wrapped around,
   slots 0 .. start - 1, moves to the new upper half. The rest of the upper
   half is memory that realloc() leaves uninitialised; it is never read before
   it is written, and NULL stands for its content. *)
Enlarged ==
    [s \in 0 .. 2 * size - 1 |->
        IF s \in start .. size - 1 THEN ptrs[s]
        ELSE IF s - size \in 0 .. start - 1 THEN ptrs[s - size]
        ELSE NULL]

(* EntryCacheAppend. The assertion start_idx + len == idx is the invariant
   CacheEndsAtLogEnd. *)
EntryCacheAppend(ety, idx) ==
    LET newSize == IF len = size THEN 2 * size ELSE size
        slots   == IF len = size THEN Enlarged ELSE ptrs
    IN  /\ start_idx' = IF start_idx = 0 THEN idx ELSE start_idx
        /\ size' = newSize
        /\ ptrs' = [slots EXCEPT ![(start + len) % newSize] = ety]
        /\ len' = len + 1
        /\ memsize' = memsize + Weight[ety]
        /\ UNCHANGED start

(* Sum of the weights of the cached entries k = 0 .. n - 1. *)
WeightUpTo[n \in Nat] ==
    IF n = 0 THEN 0 ELSE WeightUpTo[n - 1] + Weight[ptrs[Slot(n - 1)]]

(* The loop shared by EntryCacheDeleteHead and EntryCacheCompact, run n
   times: drop the n first entries. *)
DropHead(n) ==
    /\ len' = len - n
    /\ start_idx' = IF n = len THEN 0 ELSE start_idx + n
    /\ start' = Slot(n)
    /\ ptrs' = [s \in 0 .. size - 1 |->
                    IF \E k \in 0 .. n - 1 : s = Slot(k) THEN NULL ELSE ptrs[s]]
    /\ memsize' = memsize - WeightUpTo[n]
    /\ UNCHANGED size

(* EntryCacheDeleteHead: forget every entry before first_idx. *)
EntryCacheDeleteHead(first_idx) ==
    IF first_idx < start_idx
    THEN UNCHANGED cache
    ELSE DropHead(IF first_idx - start_idx < len THEN first_idx - start_idx
                                                 ELSE len)

(* Mutants of EntryCacheDeleteTail: start_idx of an emptied cache is kept; the
   memory of the deleted entries is still counted. *)
DeleteTailAs(index, emptyStart, freed) ==
    IF index >= start_idx + len
    THEN UNCHANGED cache
    ELSE LET keep == IF index < start_idx THEN 0 ELSE index - start_idx
         IN  /\ len' = keep
             /\ start_idx' = IF keep = 0 THEN emptyStart ELSE start_idx
             /\ ptrs' = [s \in 0 .. size - 1 |->
                            IF \E k \in keep .. len - 1 : s = Slot(k)
                            THEN NULL ELSE ptrs[s]]
             /\ memsize' = memsize - freed * (WeightUpTo[len] - WeightUpTo[keep])
             /\ UNCHANGED <<size, start>>
DeleteTailKeepsStart(index) == DeleteTailAs(index, start_idx, 1)
DeleteTailKeepsMemsize(index) == DeleteTailAs(index, 0, 0)

(* EntryCacheDeleteTail: forget every entry from index on. *)
EntryCacheDeleteTail(index) ==
    IF index >= start_idx + len
    THEN UNCHANGED cache
    ELSE LET keep == IF index < start_idx THEN 0 ELSE index - start_idx
         IN  /\ len' = keep
             /\ start_idx' = IF keep = 0 THEN 0 ELSE start_idx
             /\ ptrs' = [s \in 0 .. size - 1 |->
                            IF \E k \in keep .. len - 1 : s = Slot(k)
                            THEN NULL ELSE ptrs[s]]
             /\ memsize' = memsize - (WeightUpTo[len] - WeightUpTo[keep])
             /\ UNCHANGED <<size, start>>

(* EntryCacheCompact: drop the oldest entries until the rest fits. *)
EntryCacheCompact(max) ==
    \E n \in 0 .. len :
        /\ n < len => memsize - WeightUpTo[n] <= max
        /\ \A k \in 0 .. n - 1 : memsize - WeightUpTo[k] > max
        /\ DropHead(n)

-----------------------------------------------------------------------------
(* The operations of the log implementation, with the cache's part of each. *)

Init ==
    /\ size = InitSize
    /\ len = 0
    /\ start_idx = 0
    /\ start = 0
    /\ ptrs = [s \in 0 .. InitSize - 1 |-> NULL]
    /\ memsize = 0
    /\ log = << >>
    /\ first = 1

(* logImplAppend *)
LogAppend(ety) ==
    /\ Len(log) < MaxIndex
    /\ log' = Append(log, ety)
    /\ EntryCacheAppend(ety, Len(log) + 1)
    /\ UNCHANGED first

(* logImplPop: raft_delete_entry_from_idx() removes the last entry only. *)
LogPop ==
    /\ Len(log) >= first
    /\ log' = SubSeq(log, 1, Len(log) - 1)
    /\ EntryCacheDeleteTail(Len(log))
    /\ UNCHANGED first

(* logImplPoll: a snapshot that covers every index before first_idx is done. *)
LogPoll(first_idx) ==
    /\ first_idx > first
    /\ first' = first_idx
    /\ EntryCacheDeleteHead(first_idx)
    /\ UNCHANGED log

(* logImplReset: a received snapshot replaces the log; index is the index of
   the next entry. *)
LogReset(index) ==
    /\ index > Len(log) + 1
    /\ index <= MaxIndex
    /\ log' = [i \in 1 .. index - 1 |-> NULL]
    /\ first' = index
    /\ EntryCacheNew

(* callRaftPeriodic: trim the cache to the configured size. *)
Periodic ==
    /\ EntryCacheCompact(MaxMemory)
    /\ UNCHANGED <<log, first>>

Next ==
    \/ \E ety \in Entry : LogAppend(ety)
    \/ LogPop
    \/ \E i \in 1 .. Len(log) + 1 : LogPoll(i)
    \/ \E i \in 1 .. MaxIndex : LogReset(i)
    \/ Periodic

Spec == Init /\ [][Next]_vars

-----------------------------------------------------------------------------
(* The cached indexes *)
Cached == {start_idx + k : k \in 0 .. len - 1}

(* Every variable has its type, and the window of live slots fits. *)
TypeOK ==
    /\ size \in Nat \ {0}
    /\ len \in 0 .. size
    /\ start \in 0 .. size - 1
    /\ start_idx \in Nat
    /\ ptrs \in [0 .. size - 1 -> Entry \cup {NULL}]
    /\ log \in Seq(Entry \cup {NULL})
    /\ first \in 1 .. Len(log) + 1

(* The assertion of EntryCacheAppend, start_idx + len == idx, never fails: a
   cache that is not empty ends exactly where the log ends. *)
CacheEndsAtLogEnd ==
    /\ len = 0 => start_idx = 0
    /\ len > 0 => start_idx >= 1 /\ start_idx + len = Len(log) + 1

(* EntryCacheGet never answers with another entry than the log's: after any
   mix of appends, truncations, compactions, wraps of the ring and doublings,
   the entry found for an index is the one the log holds there. *)
GetAgreesWithLog ==
    \A i \in Cached : i \in 1 .. Len(log) /\ EntryCacheGet(i) = log[i]
                                       /\ log[i] # NULL

(* The memory counter that limits the cache is the weight of what it holds. *)
MemsizeIsExact == memsize = WeightUpTo[len]
=============================================================================
