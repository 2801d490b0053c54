------------------------------ MODULE RaftLog -------------------------------
(***************************************************************************)
(* The persistent log of a node (src/src/log.c): a file of entries, the    *)
(* first page, and during compaction a second page that receives the new   *)
(* entries while the entries of the first go into a snapshot. The module   *)
(* covers what is written when, what a crash leaves on disk, and what      *)
(* LogOpen(), LogLoadEntries() and loadRaftLog() (src/src/raft.c) make of  *)
(* it at the next start, together with the snapshot file (src/src/         *)
(* snapshot.c).                                                            *)
(*                                                                         *)
(* An entry is represented by its term. Each file operation after which a  *)
(* crash matters is a step of its own: `pc' is the place inside the        *)
(* handler of the main thread, which is the only user of the log.          *)
(***************************************************************************)
EXTENDS Integers, Sequences

CONSTANTS
    MaxTerm, MaxIndex,   \* bounds: terms and log indexes
    MaxCrashes           \* bound: crashes

ASSUME BoundsAssumption == MaxTerm \in Nat /\ MaxIndex \in Nat /\ MaxCrashes \in Nat

Term == 1 .. MaxTerm
NoPage == [present |-> FALSE]
NoHdr == [prev |-> -1, term |-> -1]     \* a missing or torn header
NoSnapshot == [idx |-> 0, term |-> 0]

VARIABLES
    p0, p1,       \* log->pages[0] and [1]; see Page
    rdb,          \* the snapshot file: last_applied_idx and _term it holds
    commit,       \* last committed, and applied, index
    snap,         \* snapshot being created, or NoSnapshot
    recv,         \* received snapshot being loaded, or NoSnapshot
    pc,           \* place in the handler of the main thread
    target,       \* first index that the truncation in progress removes
    mode,         \* "up", "down", "loading", "uninitialized", or an abort:
                  \* "abort_delete", "abort_end", "abort_load"
    hist,         \* history: the log since index 1; 0 for an entry known only
                  \* from a snapshot
    synced,       \* history: indexes 1 .. synced were reported durable
    crashes

control == <<pc, target, mode, crashes>>
vars == <<p0, p1, rdb, commit, snap, recv, hist, synced, control>>

-----------------------------------------------------------------------------
(* A page: the fields of LogPage, and the content of its file: as the program
   sees it (file) and as the last fsync left it (disk). *)
Content(prev, term, ents) ==
    [hdr |-> [prev |-> prev, term |-> term], ents |-> ents]
Page(prev, term, n, file, disk) ==
    [present |-> TRUE, prev_log_idx |-> prev, prev_log_term |-> term,
     index |-> prev + n, num_entries |-> n, file |-> file, disk |-> disk]

(* pageGet: the entry at idx, 0 when the page does not hold it. The bound is
   that of pageSeekEntry; the index file ends with the last entry. *)
pageGet(p, idx) ==
    IF /\ idx > p.prev_log_idx /\ idx <= p.prev_log_idx + p.num_entries
       /\ idx - p.prev_log_idx <= Len(p.file.ents)
    THEN p.file.ents[idx - p.prev_log_idx] ELSE 0

pageAppend(p, e) ==
    [p EXCEPT !.file.ents = Append(@, e), !.index = @ + 1, !.num_entries = @ + 1]

pageSync(p) == [p EXCEPT !.disk = p.file]

(* pageDelete: cut the file before from_idx. *)
pageDelete(p, from_idx) ==
    IF from_idx <= p.prev_log_idx \/ from_idx > p.index \/ pageGet(p, from_idx) = 0
    THEN p
    ELSE [p EXCEPT !.file.ents = SubSeq(@, 1, from_idx - p.prev_log_idx - 1),
                   !.num_entries = @ - (p.index - from_idx + 1),
                   !.index = from_idx - 1]

(* The assertion at the end of pageDelete: unless the page counts no entry, its
   last one can be found, to restart the running CRC from it. *)
DeleteAssertion(p, from_idx) ==
    LET q == pageDelete(p, from_idx)
    IN  q # p /\ q.num_entries # 0 => pageGet(q, q.index) # 0

LogFirstIdx == p0.prev_log_idx + 1
LogCurrentIdx == IF p1.present THEN p1.index ELSE p0.index
LogCount == p0.num_entries + IF p1.present THEN p1.num_entries ELSE 0

LogGet(idx) ==
    IF p1.present /\ pageGet(p1, idx) # 0 THEN pageGet(p1, idx) ELSE pageGet(p0, idx)

(* The term of the entry at idx, from the log or from the snapshot. *)
TermAt(idx) == IF idx = rdb.idx THEN rdb.term ELSE LogGet(idx)

(* log_fsync is on: LogSync makes the current page durable. *)
LogSync ==
    /\ IF p1.present THEN p1' = pageSync(p1) /\ UNCHANGED p0
                     ELSE p0' = pageSync(p0) /\ UNCHANGED p1
    /\ synced' = Len(hist)

Idle == mode = "up" /\ pc = "idle"

-----------------------------------------------------------------------------
(* Operations of the running node *)

(* logImplAppend: buffered, not durable. Terms never decrease along a log. *)
LogAppend(e) ==
    /\ Idle
    /\ LogCurrentIdx < MaxIndex
    /\ e >= TermAt(LogCurrentIdx)
    /\ IF p1.present THEN p1' = pageAppend(p1, e) /\ UNCHANGED p0
                     ELSE p0' = pageAppend(p0, e) /\ UNCHANGED p1
    /\ hist' = Append(hist, e)
    /\ UNCHANGED <<rdb, commit, snap, recv, synced, control>>

(* logImplSync *)
Sync ==
    /\ Idle
    /\ LogSync
    /\ UNCHANGED <<rdb, commit, snap, recv, hist, control>>

Commit(i) ==
    /\ Idle
    /\ i > commit /\ i <= LogCurrentIdx
    /\ commit' = i
    /\ UNCHANGED <<p0, p1, rdb, snap, recv, hist, synced, control>>

(* raft_delete_entry_from_idx: pop the last entry until target is gone, then
   sync. *)
BeginTruncate(i) ==
    /\ Idle
    /\ i > commit /\ i <= LogCurrentIdx
    /\ LogCount # 0 /\ i >= LogFirstIdx
    /\ pc' = "truncate" /\ target' = i
    /\ UNCHANGED <<p0, p1, rdb, commit, snap, recv, hist, synced, mode, crashes>>

(* Mutant of LogDelete: the second page stays when the first one shrinks. *)
LogDeleteKeepsSecond ==
    /\ mode = "up" /\ pc = "truncate" /\ LogCurrentIdx >= target
    /\ p0' = pageDelete(p0, LogCurrentIdx)
    /\ p1' = IF p1.present THEN pageDelete(p1, LogCurrentIdx) ELSE NoPage
    /\ hist' = SubSeq(hist, 1, LogCurrentIdx - 1)
    /\ synced' = IF synced < LogCurrentIdx THEN synced ELSE LogCurrentIdx - 1
    /\ UNCHANGED <<rdb, commit, snap, recv, control>>

(* logImplPop of the last entry: LogDelete. The second page goes when the first
   one is no longer complete. *)
LogDelete ==
    LET last == LogCurrentIdx
        q0 == pageDelete(p0, last)
    IN  /\ mode = "up" /\ pc = "truncate" /\ last >= target
        /\ p0' = q0
        /\ p1' = IF p1.present /\ q0.index = p1.prev_log_idx
                 THEN pageDelete(p1, last) ELSE NoPage
        /\ hist' = SubSeq(hist, 1, last - 1)
        /\ synced' = IF synced < last THEN synced ELSE last - 1
        /\ mode' = IF DeleteAssertion(p0, last)
                      /\ (p1.present => DeleteAssertion(p1, last))
                   THEN mode ELSE "abort_delete"
        /\ UNCHANGED <<rdb, commit, snap, recv, pc, target, crashes>>

EndTruncate ==
    /\ mode = "up" /\ pc = "truncate" /\ LogCurrentIdx < target
    /\ LogSync
    /\ pc' = "idle"
    /\ UNCHANGED <<rdb, commit, snap, recv, hist, target, mode, crashes>>

(* Mutant of LogCompactionBegin: the first page is not synced. *)
CompactionBeginNoSync ==
    /\ Idle
    /\ ~ p1.present /\ snap = NoSnapshot
    /\ LogCount > 1 /\ commit >= LogFirstIdx
    /\ p0.num_entries > 1
    /\ p1' = Page(p0.index, TermAt(p0.index), 0,
                  [hdr |-> NoHdr, ents |-> << >>], [hdr |-> NoHdr, ents |-> << >>])
    /\ pc' = "create"
    /\ UNCHANGED <<p0, rdb, commit, snap, recv, hist, synced, target, mode, crashes>>

(* LogCompactionBegin, first part: sync the first page and create the file of
   the second one, still empty. The guards are callRaftPeriodic's. *)
LogCompactionBegin ==
    /\ Idle
    /\ ~ p1.present /\ snap = NoSnapshot
    /\ LogCount > 1 /\ commit >= LogFirstIdx
    /\ p0.num_entries > 1
    /\ p0' = pageSync(p0)
    /\ p1' = Page(p0.index, TermAt(p0.index), 0,
                  [hdr |-> NoHdr, ents |-> << >>], [hdr |-> NoHdr, ents |-> << >>])
    /\ pc' = "create"
    /\ UNCHANGED <<rdb, commit, snap, recv, hist, synced, target, mode, crashes>>

(* Mutant of CreateHeader: the header is not synced. *)
CreateHeaderNoSync ==
    /\ mode = "up" /\ pc = "create"
    /\ p1' = [p1 EXCEPT !.file = Content(p1.prev_log_idx, p1.prev_log_term, << >>)]
    /\ pc' = "idle"
    /\ UNCHANGED <<p0, rdb, commit, snap, recv, hist, synced, target, mode, crashes>>

(* pageCreate, second part: the header is written and synced. *)
CreateHeader ==
    /\ mode = "up" /\ pc = "create"
    /\ p1' = LET c == Content(p1.prev_log_idx, p1.prev_log_term, << >>)
             IN  [p1 EXCEPT !.file = c, !.disk = c]
    /\ pc' = "idle"
    /\ UNCHANGED <<p0, rdb, commit, snap, recv, hist, synced, target, mode, crashes>>

(* initiateSnapshot: the child writes a snapshot of what is applied now. *)
InitiateSnapshot ==
    /\ Idle
    /\ snap = NoSnapshot /\ p1.present /\ commit >= p0.index
    /\ snap' = [idx |-> commit, term |-> TermAt(commit)]
    /\ UNCHANGED <<p0, p1, rdb, commit, recv, hist, synced, control>>

CancelSnapshot ==
    /\ Idle
    /\ snap # NoSnapshot
    /\ snap' = NoSnapshot
    /\ UNCHANGED <<p0, p1, rdb, commit, recv, hist, synced, control>>

(* Mutant of FinalizeSnapshot: the log is renamed before the snapshot file. *)
FinalizeLogFirst ==
    /\ Idle
    /\ snap # NoSnapshot
    /\ p0' = p1
    /\ p1' = NoPage
    /\ pc' = "finalize"
    /\ UNCHANGED <<rdb, commit, snap, recv, hist, synced, target, mode, crashes>>

(* finalizeSnapshot: rename the snapshot file, then end the compaction. *)
FinalizeSnapshot ==
    /\ Idle
    /\ snap # NoSnapshot
    /\ rdb' = snap
    /\ pc' = "finalize"
    /\ UNCHANGED <<p0, p1, commit, snap, recv, hist, synced, target, mode, crashes>>

(* LogCompactionEnd: rename the second page over the first; it asserts that
   there is a second page. *)
LogCompactionEnd ==
    /\ mode = "up" /\ pc = "finalize"
    /\ IF p1.present
       THEN /\ p0' = p1
            /\ p1' = NoPage
            /\ UNCHANGED mode
       ELSE /\ mode' = "abort_end"
            /\ UNCHANGED <<p0, p1>>
    /\ pc' = "ended"
    /\ UNCHANGED <<rdb, commit, snap, recv, hist, synced, target, crashes>>

(* raft_end_snapshot syncs the log after that. *)
EndSnapshot ==
    /\ mode = "up" /\ pc = "ended"
    /\ LogSync
    /\ snap' = NoSnapshot
    /\ pc' = "idle"
    /\ UNCHANGED <<rdb, commit, recv, hist, target, mode, crashes>>

(* raftLoadSnapshot: refused while a snapshot is being created; the received
   file takes the place of the snapshot file before the log is reset. *)
RaftLoadSnapshot(i, t) ==
    /\ Idle
    /\ snap = NoSnapshot
    /\ i > LogCurrentIdx /\ t >= rdb.term
    /\ rdb' = [idx |-> i, term |-> t]
    /\ recv' = rdb'
    /\ pc' = "reset"
    /\ UNCHANGED <<p0, p1, commit, snap, hist, synced, target, mode, crashes>>

(* LogReset, in three steps: remove the second page; cut the first page's file;
   write and sync its new header. num_entries keeps its value. *)
LogResetUnlink ==
    /\ mode \in {"up", "loading"} /\ pc = "reset"
    /\ p1' = NoPage
    /\ pc' = "cut"
    /\ UNCHANGED <<p0, rdb, commit, snap, recv, hist, synced, target, mode, crashes>>

LogResetCut ==
    /\ mode \in {"up", "loading"} /\ pc = "cut"
    /\ p0' = [p0 EXCEPT !.index = recv.idx, !.prev_log_idx = recv.idx,
                        !.prev_log_term = recv.term,
                        !.file = [hdr |-> NoHdr, ents |-> << >>]]
    /\ pc' = "header"
    /\ UNCHANGED <<p1, rdb, commit, snap, recv, hist, synced, target, mode, crashes>>

LogResetHeader ==
    /\ mode \in {"up", "loading"} /\ pc = "header"
    /\ p0' = LET c == Content(recv.idx, recv.term, << >>)
             IN  [p0 EXCEPT !.file = c, !.disk = c]
    /\ hist' = [i \in 1 .. recv.idx |-> 0]
    /\ synced' = recv.idx
    /\ commit' = recv.idx
    /\ recv' = NoSnapshot
    /\ mode' = "up" /\ pc' = "idle"
    /\ UNCHANGED <<p1, rdb, snap, target, crashes>>

-----------------------------------------------------------------------------
(* Crash and restart *)

(* What a crash may leave of a file. The entries in the file are some prefix of
   those written (a torn entry fails its CRC, and pageLoadEntries cuts it off),
   but never less than what is on disk too. When the machine fails, it may also
   be what was synced last, and the page cache is gone. *)
Agree(c, d, n) ==
    n <= Len(c.ents) /\ n <= Len(d.ents) /\ \A i \in 1 .. n : c.ents[i] = d.ents[i]
CommonLength(c, d) ==
    IF c.hdr = d.hdr
    THEN CHOOSE n \in 0 .. Len(c.ents) : Agree(c, d, n) /\ ~ Agree(c, d, n + 1)
    ELSE 0
Shortened(c, n) == {[c EXCEPT !.ents = SubSeq(@, 1, k)] : k \in n .. Len(c.ents)}
AfterProcessCrash(p) ==
    {[p EXCEPT !.file = c] : c \in Shortened(p.file, CommonLength(p.file, p.disk))}
AfterPowerLoss(p) ==
    LET n == CommonLength(p.file, p.disk)
        kept == IF p.file.hdr = p.disk.hdr
                THEN Shortened(p.file, n) \cup Shortened(p.disk, n)
                ELSE {p.file, p.disk}
    IN  {[p EXCEPT !.file = c, !.disk = c] : c \in kept}

(* A second page whose creation was not completed may have left no file. *)
Crash ==
    /\ mode \in {"up", "loading"}
    /\ crashes < MaxCrashes
    /\ \/ /\ p0' \in AfterProcessCrash(p0)
          /\ p1' \in IF p1.present THEN AfterProcessCrash(p1) ELSE {NoPage}
       \/ /\ p0' \in AfterPowerLoss(p0)
          /\ p1' \in (IF p1.present THEN AfterPowerLoss(p1) ELSE {})
                     \cup (IF p1.present /\ pc # "create" THEN {} ELSE {NoPage})
    /\ mode' = "down"
    /\ crashes' = crashes + 1
    /\ snap' = NoSnapshot
    /\ recv' = NoSnapshot
    /\ UNCHANGED <<rdb, commit, hist, synced, pc, target>>

(* pageOpen and pageLoadEntries: header and entries from the file. *)
Loaded(p) ==
    IF p.present
    THEN Page(p.file.hdr.prev, p.file.hdr.term, Len(p.file.ents), p.file, p.disk)
    ELSE NoPage

(* LogOpen fails when a page's file exists but has no valid header. *)
LogOpenFails == p0.file.hdr = NoHdr \/ (p1.present /\ p1.file.hdr = NoHdr)

(* LogLoadEntries: an empty second page, or one that does not continue the
   first, is deleted. *)
LoadedSecond(q0, q1) ==
    IF q1.present /\ q1.num_entries # 0 /\ q1.prev_log_idx = q0.index
    THEN q1 ELSE NoPage

(* loadRaftLog: the consistency checks between snapshot and log. *)
LoadPanics(q0) ==
    IF rdb # NoSnapshot
    THEN rdb.term < q0.prev_log_term \/ rdb.idx + 1 < q0.prev_log_idx
    ELSE q0.prev_log_idx # 0

(* The start of the process: MetadataRead and LogOpen at module load, then, once
   Redis has loaded the snapshot, handleLoadingState and loadRaftLog. *)
Restart ==
    LET q0 == Loaded(p0)
        q1 == LoadedSecond(q0, Loaded(p1))
        last == IF q1.present THEN q1.index ELSE q0.index
        ents == q0.file.ents \o IF q1.present THEN q1.file.ents ELSE << >>
    IN  /\ mode = "down"
        /\ commit' = rdb.idx
        /\ UNCHANGED <<rdb, snap, target, crashes>>
        /\ IF LogOpenFails
           THEN /\ mode' = "uninitialized"
                /\ UNCHANGED <<p0, p1, recv, hist, synced, pc>>
           ELSE IF LoadPanics(q0)
           THEN /\ mode' = "abort_load"
                /\ UNCHANGED <<p0, p1, recv, hist, synced, pc>>
           ELSE /\ p0' = q0 /\ p1' = q1
                /\ hist' = [i \in 1 .. q0.prev_log_idx |-> 0] \o ents
                /\ synced' = LET p == IF q1.present THEN q1 ELSE q0
                             IN  p.prev_log_idx + CommonLength(p.file, p.disk)
                /\ IF last < rdb.idx
                   THEN mode' = "loading" /\ pc' = "reset" /\ recv' = rdb
                   ELSE mode' = "up" /\ pc' = "idle" /\ UNCHANGED recv

-----------------------------------------------------------------------------
(* A node whose log was created empty by RAFT.CLUSTER INIT or JOIN: LogCreate. *)
Init ==
    /\ p0 = Page(0, 0, 0, Content(0, 0, << >>), Content(0, 0, << >>))
    /\ p1 = NoPage
    /\ rdb = NoSnapshot /\ commit = 0 /\ snap = NoSnapshot /\ recv = NoSnapshot
    /\ pc = "idle" /\ target = 0 /\ mode = "up"
    /\ hist = << >> /\ synced = 0 /\ crashes = 0

Next ==
    \/ \E e \in Term : LogAppend(e)
    \/ Sync
    \/ \E i \in 1 .. MaxIndex : Commit(i) \/ BeginTruncate(i)
    \/ LogDelete \/ EndTruncate
    \/ LogCompactionBegin \/ CreateHeader
    \/ InitiateSnapshot \/ CancelSnapshot \/ FinalizeSnapshot \/ LogCompactionEnd
    \/ EndSnapshot
    \/ \E i \in 1 .. MaxIndex, t \in Term : RaftLoadSnapshot(i, t)
    \/ LogResetUnlink \/ LogResetCut \/ LogResetHeader
    \/ Crash \/ Restart

Spec == Init /\ [][Next]_vars

-----------------------------------------------------------------------------
(* The two pages together are the log: LogGet finds at every index the entry
   that was appended there last, through truncations across the page boundary,
   compactions, resets and restarts. *)
PagesAreTheLog ==
    mode = "up" /\ pc \notin {"reset", "cut", "header"} =>
        /\ LogCurrentIdx = Len(hist)
        /\ \A i \in LogFirstIdx .. LogCurrentIdx : LogGet(i) = hist[i] /\ hist[i] # 0

(* The consistency checks of loadRaftLog hold after every crash: it never
   refuses a log and a snapshot that the node itself wrote. Nor does the assertion
   of LogCompactionEnd fail: the second page still exists when the snapshot is
   complete. *)
NeverPanics == mode \notin {"abort_load", "abort_end"}

(* A restart loses nothing that was synced: every such entry is in the snapshot
   or is found in the log again, unchanged. *)
SyncedSurvives ==
    [][mode = "down" /\ mode' \in {"up", "loading"} =>
          \A i \in 1 .. synced :
              i <= rdb.idx \/ (i <= LogCurrentIdx' /\ LogGet(i)' = hist[i])]_vars

(* A restart finds no log only when the crash hit one of the two places where
   the header of a page is missing: while the second page is created, or while
   the first one is reset. *)
LostOnlyWithHeader == mode = "uninitialized" => pc \in {"create", "header"}

(* The assertion RedisModule_Assert(pos > 0) of pageDelete never fails: a page
   that counts entries can find its last one. *)
DeleteFindsLastEntry == mode # "abort_delete"
=============================================================================
