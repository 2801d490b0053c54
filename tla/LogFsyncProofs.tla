--------------------------- MODULE LogFsyncProofs ---------------------------
(***************************************************************************)
(* What a leader counts as persisted is on its disk, for any number of     *)
(* entries, pages, requests, elections and snapshots, unless a truncation  *)
(* overtook a request to the fsync thread; and fsync() then is the only    *)
(* one that can fail.                                                      *)
(*                                                                         *)
(* The argument follows a request from the main thread to fsync_index. The *)
(* page it names stays open, because what closes pages waits for the       *)
(* thread first (WaitInv) and truncation is the exception. If a later page *)
(* is the current one by now, then the entries were synced when that page  *)
(* was created (Covered). After fsync() the index is durable, and durable  *)
(* only grows.                                                             *)
(*                                                                         *)
(* The last section is about the thread and its mutex alone, for any       *)
(* number of requests (FsyncThread).                                       *)
(***************************************************************************)
EXTENDS LogFsync, TLAPS

PageType == [fd : Nat, prev : Nat]

(* The types that the argument needs; the flags are used as formulas only. *)
Numbers ==
    /\ requested_index \in Nat /\ fd \in Nat /\ request_idx \in Nat /\ tfd \in Nat
    /\ tpc \in {"lock", "cond", "fsync", "synced", "post"}
    /\ mpc \in {"run", "wait", "cond"}
    /\ written \in Nat /\ durable \in Nat /\ fsync_index \in Nat
    /\ current \in Nat /\ nextfd \in Nat /\ next_sync_index \in Nat
    /\ match_idx \in Nat /\ commit_idx \in Nat /\ truncations \in Nat
    /\ blocked \in {"no", "fork", "finalize", "load"}

Lists == /\ done \in Seq(Nat)
         /\ pages \in Seq(PageType) /\ Len(pages) \in {1, 2}

LTypeOK == Numbers /\ Lists

(* While a snapshot is created there are two pages, and truncation does not reach the
   first one: all of it is committed. *)
PagesInv ==
    /\ pages[1].prev <= commit_idx /\ commit_idx <= current
    /\ pages[Len(pages)].prev <= current
    /\ snapshot_in_progress => Len(pages) = 2 /\ pages[2].prev <= commit_idx
    /\ blocked \in {"fork", "finalize"} => snapshot_in_progress
    /\ blocked = "load" => ~ snapshot_in_progress

(* The thread is idle when the wait of a handler is over. *)
WaitInv ==
    /\ RunningCoversFsync
    /\ blocked # "no" /\ mpc = "run" => ~ running

(* A request for index i of page f: the page is open, the entries are written, and if
   another page is the current one then they are on disk already. *)
Covered(f, i) == /\ f \in OpenFds
                 /\ i <= written
                 /\ f # LogCurrentFd => i <= durable

(* Nothing between the main thread, the fsync thread and match_idx promises too much. *)
DiskInv ==
    /\ durable <= written /\ written <= current
    /\ need_fsync => Covered(fd, requested_index)
    /\ tpc = "fsync" => Covered(tfd, request_idx)
    /\ tpc \in {"synced", "post"} => request_idx <= durable
    /\ \A i \in 1 .. Len(done) : done[i] <= durable
    /\ fsync_index <= durable
    /\ leader => match_idx <= durable

(* The inductive invariant. *)
IInv == /\ LTypeOK /\ PagesInv /\ WaitInv /\ NoLostWakeup
        /\ overtaken \/ DiskInv
        /\ PanicsOnlyIfOvertaken

-----------------------------------------------------------------------------
LEMMA InitEstablishes == LInit => IInv
<1> SUFFICES ASSUME LInit PROVE IInv
  OBVIOUS
<1>1. pages \in Seq(PageType) /\ Len(pages) = 1 /\ pages[1] = [fd |-> 0, prev |-> 0]
  BY DEF LInit, PageType
<1>2. LTypeOK
  <2>1. Lists
    BY <1>1 DEF LInit, Init, Lists
  <2> QED
    BY <2>1 DEF LInit, Init, LTypeOK, Numbers
<1>3. PagesInv /\ WaitInv /\ NoLostWakeup /\ PanicsOnlyIfOvertaken
  BY <1>1 DEF LInit, Init, PagesInv, WaitInv, RunningCoversFsync, NoLostWakeup,
              PanicsOnlyIfOvertaken
<1>4. DiskInv
  BY DEF LInit, Init, DiskInv
<1> QED
  BY <1>2, <1>3, <1>4 DEF IInv

LEMMA Typed ==
    ASSUME LTypeOK
    PROVE  /\ \A i \in 1 .. Len(done) : done[i] \in Nat
           /\ \A i \in 1 .. Len(pages) : pages[i].fd \in Nat /\ pages[i].prev \in Nat
           /\ Len(pages) \in 1 .. Len(pages)
<1>1. \A i \in 1 .. Len(done) : done[i] \in Nat
  BY DEF LTypeOK, Lists
<1>2. \A i \in 1 .. Len(pages) : pages[i] \in PageType
  BY DEF LTypeOK, Lists
<1>3. Len(pages) \in 1 .. Len(pages)
  <2>1. Len(pages) = 1 \/ Len(pages) = 2
    BY DEF LTypeOK, Lists
  <2> QED
    BY <2>1
<1> QED
  BY <1>1, <1>2, <1>3 DEF PageType

LEMMA ListsStay ==
    ASSUME Lists, UNCHANGED <<done, pages>>
    PROVE  Lists'
BY DEF Lists

(* A request that nobody touches stays good as long as no page is closed and what is
   in the file, and on disk, only grows. *)
LEMMA CoveredStays ==
    ASSUME Numbers, Numbers', NEW f \in Nat, NEW i \in Nat, Covered(f, i),
           UNCHANGED pages, written <= written', durable <= durable'
    PROVE  Covered(f, i)'
<1>1. OpenFds' = OpenFds /\ LogCurrentFd' = LogCurrentFd
  BY DEF OpenFds, LogCurrentFd
<1> QED
  <2>1. i <= written /\ (f # LogCurrentFd => i <= durable) /\ f \in OpenFds
    BY DEF Covered
  <2>2. /\ written \in Nat /\ written' \in Nat
        /\ durable \in Nat /\ durable' \in Nat
    BY DEF Numbers
  <2>3. i <= written' /\ (i <= durable => i <= durable')
    BY <2>1, <2>2
  <2> QED
    BY <1>1, <2>1, <2>3 DEF Covered

(* So does everything under way between the two threads. *)
LEMMA ReportsStay ==
    ASSUME LTypeOK, LTypeOK', DiskInv, UNCHANGED <<thread, done>>, durable <= durable'
    PROVE  /\ tpc' \in {"synced", "post"} => request_idx' <= durable'
           /\ \A i \in 1 .. Len(done') : done'[i] <= durable'
<1>1. \A i \in 1 .. Len(done) : done[i] \in Nat /\ done[i] <= durable
  BY Typed DEF DiskInv
<1>2. durable \in Nat /\ durable' \in Nat /\ request_idx \in Nat
  BY DEF LTypeOK, Numbers
<1> QED
  BY <1>1, <1>2 DEF DiskInv, thread

LEMMA DiskStays ==
    ASSUME LTypeOK, LTypeOK', DiskInv, UNCHANGED <<shared, thread, done, pages>>,
           written <= written', durable <= durable', durable' <= written',
           written' <= current', fsync_index' <= durable',
           leader' => match_idx' <= durable'
    PROVE  DiskInv'
<1>1. need_fsync' => Covered(fd, requested_index)'
  BY CoveredStays, Zenon DEF DiskInv, LTypeOK, Numbers, shared
<1>2. tpc' = "fsync" => Covered(tfd, request_idx)'
  BY CoveredStays DEF DiskInv, LTypeOK, Numbers, thread
<1> QED
  BY <1>1, <1>2, ReportsStay DEF DiskInv

(* When the thread is idle, there is only what it has reported. *)
LEMMA IdleDisk ==
    ASSUME LTypeOK, LTypeOK', DiskInv, RunningCoversFsync, ~ running,
           UNCHANGED <<shared, thread, done>>, durable <= durable', durable' <= written',
           written' <= current', fsync_index' <= durable',
           leader' => match_idx' <= durable'
    PROVE  DiskInv'
<1>1. ~ need_fsync' /\ tpc' \notin {"fsync", "synced"}
  BY DEF RunningCoversFsync, LTypeOK, Numbers, shared, thread
<1> QED
  BY <1>1, ReportsStay DEF DiskInv

-----------------------------------------------------------------------------
(* The main thread *)

(* handleBeforeSleep hands a request to the thread and counts what earlier ones have
   reported. *)
LEMMA BeforeSleepPreserves == IInv /\ handleBeforeSleep => IInv'
<1> SUFFICES ASSUME IInv, handleBeforeSleep PROVE IInv'
  OBVIOUS
<1>0. /\ Numbers /\ Lists /\ LogCurrentFd \in Nat
      /\ commit_idx' \in Nat /\ commit_idx <= commit_idx' /\ commit_idx' <= current
  BY Typed DEF IInv, LTypeOK, Numbers, Numbers, PagesInv, LogCurrentFd, handleBeforeSleep
<1>1. LTypeOK'
  <2>1. Lists'
    BY <1>0 DEF handleBeforeSleep, Lists
  <2>2. /\ match_idx' \in Nat
        /\ UNCHANGED <<mpc, durable, fsync_index, current, nextfd, blocked, truncations>>
    BY <1>0 DEF handleBeforeSleep, history, Numbers
  <2>3. /\ next_sync_index' \in Nat /\ written' \in Nat
        /\ requested_index' \in Nat /\ fd' \in Nat /\ request_idx' \in Nat /\ tfd' \in Nat
        /\ tpc' \in {"lock", "cond", "fsync", "synced", "post"}
    BY <1>0 DEF handleBeforeSleep, fsyncThreadAddTask, WakeThread, shared, thread, Numbers
  <2> QED
    BY <1>0, <2>1, <2>2, <2>3 DEF LTypeOK, Numbers
<1>2. PagesInv'
  <2>1. UNCHANGED <<pages, current, snapshot_in_progress, blocked>>
    BY DEF handleBeforeSleep
  <2>2. /\ pages[2].prev <= commit_idx /\ Len(pages) = 2 => pages[2].prev <= commit_idx'
        /\ pages[1].prev <= commit_idx'
    BY <1>0, Typed DEF IInv, Numbers, PagesInv
  <2> QED
    BY <1>0, <2>1, <2>2 DEF IInv, PagesInv
<1>3. WaitInv' /\ NoLostWakeup'
  BY DEF IInv, LTypeOK, Numbers, WaitInv, NoLostWakeup, RunningCoversFsync, handleBeforeSleep,
         Handler, fsyncThreadAddTask, WakeThread, shared, thread
<1>4. overtaken' \/ DiskInv'
  <2> SUFFICES ASSUME ~ overtaken, DiskInv PROVE DiskInv'
    BY DEF IInv, handleBeforeSleep, history
  <2>1. /\ durable' = durable /\ pages' = pages /\ done' = done /\ current' = current
        /\ fsync_index' = fsync_index /\ leader' = leader
    BY DEF handleBeforeSleep
  <2>2. written <= written' /\ written' <= current'
    BY <2>1 DEF handleBeforeSleep, DiskInv, IInv, LTypeOK, Numbers
  <2>3. leader' => match_idx' <= durable'
    BY <2>1 DEF handleBeforeSleep, DiskInv
  <2>4. CASE UNCHANGED <<shared, thread>>
    BY <1>1, <2>1, <2>2, <2>3, <2>4, DiskStays DEF DiskInv, IInv, LTypeOK, Numbers
  <2>5. CASE fsyncThreadAddTask(LogCurrentFd, current) /\ written' = current
    <3>1. Covered(fd, requested_index)'
      <4>1. /\ OpenFds' = OpenFds /\ LogCurrentFd' = LogCurrentFd
            /\ LogCurrentFd \in OpenFds
        BY <2>1, Typed DEF OpenFds, LogCurrentFd, IInv
      <4> QED
        BY <1>0, <2>1, <2>5, <4>1 DEF fsyncThreadAddTask, Covered, Numbers
    <3>2. /\ tpc' = "fsync" => Covered(tfd, request_idx)'
          /\ tpc' \in {"synced", "post"} => tpc' = tpc /\ request_idx' = request_idx
      BY <1>1, <2>1, <2>2, <2>5, CoveredStays
         DEF fsyncThreadAddTask, WakeThread, DiskInv, IInv, LTypeOK, Numbers
    <3> QED
      <4>1. durable' <= written'
        BY <1>0, <1>1, <2>1, <2>2 DEF DiskInv, LTypeOK, Numbers
      <4>2. \A i \in 1 .. Len(done') : done'[i] <= durable'
        BY <2>1 DEF DiskInv
      <4>3. fsync_index' <= durable'
        BY <2>1 DEF DiskInv
      <4>4. tpc' \in {"synced", "post"} => request_idx' <= durable'
        BY <2>1, <3>2 DEF DiskInv
      <4> QED
        BY <2>2, <2>3, <3>1, <3>2, <4>1, <4>2, <4>3, <4>4 DEF DiskInv
  <2> QED
    BY <2>4, <2>5 DEF handleBeforeSleep
<1>5. PanicsOnlyIfOvertaken'
  BY DEF IInv, PanicsOnlyIfOvertaken, handleBeforeSleep, history
<1> QED
  BY <1>1, <1>2, <1>3, <1>4, <1>5 DEF IInv

(* The steps of the server that leave thread and pages alone. *)
LEMMA ServerPreserves ==
    IInv /\ (LeaderAppend \/ BecomeLeader \/ BecomeFollower \/ CancelSnapshot) => IInv'
<1> SUFFICES ASSUME IInv, LeaderAppend \/ BecomeLeader \/ BecomeFollower \/ CancelSnapshot
             PROVE  IInv'
  OBVIOUS
<1> USE DEF LeaderAppend, BecomeLeader, BecomeFollower, CancelSnapshot, LogSync, Handler
<1>1. UNCHANGED <<shared, thread, mpc, done, pages, blocked, history>>
  BY DEF vars, shared, thread, history
<1>2. LTypeOK'
  <2>1. Numbers'
    BY <1>1, SMTT(30) DEF IInv, LTypeOK, Numbers, vars, shared, thread, file, server, history
  <2> QED
    BY <1>1, <2>1, ListsStay DEF IInv, LTypeOK
<1>3. PagesInv'
  <2>0. current \in Nat /\ current' \in Nat /\ commit_idx \in Nat
    BY <1>2 DEF IInv, LTypeOK, Numbers
  <2>1. current <= current' /\ commit_idx' = commit_idx
    BY <2>0
  <2>4. snapshot_in_progress' => snapshot_in_progress
    BY Zenon
  <2>2. pages[Len(pages)].prev \in Nat
    BY Typed DEF IInv
  <2>3. blocked = "no" /\ blocked' = "no"
    BY <1>1
  <2> QED
    BY <1>1, <2>0, <2>1, <2>2, <2>3, <2>4 DEF IInv, PagesInv
<1>4. WaitInv' /\ NoLostWakeup' /\ PanicsOnlyIfOvertaken'
  BY <1>1 DEF IInv, WaitInv, NoLostWakeup, RunningCoversFsync, PanicsOnlyIfOvertaken,
              shared, thread, history
<1>5. overtaken' \/ DiskInv'
  <2> SUFFICES ASSUME ~ overtaken, DiskInv PROVE DiskInv'
    BY <1>1 DEF IInv, history
  <2>1. /\ written <= written' /\ durable <= durable' /\ durable' <= written'
        /\ written' <= current' /\ fsync_index' <= durable'
        /\ leader' => match_idx' <= durable'
    BY DEF DiskInv, IInv, LTypeOK, Numbers, vars, file, server
  <2> QED
    BY <1>1, <1>2, <2>1, DiskStays DEF IInv
<1> QED
  BY <1>2, <1>3, <1>4, <1>5 DEF IInv

(* A truncation finds the thread idle and nothing reported, or it overtakes. *)
LEMMA RecvAppendEntriesPreserves == IInv /\ RecvAppendEntries => IInv'
<1> SUFFICES ASSUME IInv, RecvAppendEntries PROVE IInv'
  OBVIOUS
<1>1. PICK n \in commit_idx .. current : \E m \in n .. MaxIndex :
          /\ LogDelete(n)
          /\ current' = m
          /\ IF n < current \/ n < m THEN LogSync(m) ELSE UNCHANGED <<file, fsync_index>>
          /\ truncations' = IF n < current THEN truncations + 1 ELSE truncations
          /\ overtaken' = (overtaken \/ (n < current /\ Outstanding))
          /\ commit_idx' \in commit_idx .. m
  BY Zenon DEF RecvAppendEntries
<1>2. PICK m \in n .. MaxIndex :
          /\ LogDelete(n)
          /\ current' = m
          /\ IF n < current \/ n < m THEN LogSync(m) ELSE UNCHANGED <<file, fsync_index>>
          /\ truncations' = IF n < current THEN truncations + 1 ELSE truncations
          /\ overtaken' = (overtaken \/ (n < current /\ Outstanding))
          /\ commit_idx' \in commit_idx .. m
  BY <1>1, Zenon
<1>3. /\ Handler /\ leader' = FALSE
      /\ UNCHANGED <<shared, thread, mpc, done, nextfd, next_sync_index, match_idx,
                     snapshot_in_progress, blocked, panicked>>
  BY DEF RecvAppendEntries
<1>4. n \in Nat /\ m \in Nat /\ n <= m /\ commit_idx <= n /\ n <= current
  BY DEF IInv, LTypeOK, Numbers
<1>5. /\ pages' \in Seq(PageType) /\ Len(pages') \in {1, 2}
      /\ pages' = pages \/ (Len(pages') = 1 /\ pages'[1] = pages[1] /\ Len(pages) = 2
                            /\ n < pages[2].prev)
  <2>1. pages \in Seq(PageType) /\ (Len(pages) = 1 \/ Len(pages) = 2)
    BY DEF IInv, LTypeOK, Lists
  <2>2. CASE n < pages[Len(pages)].prev
    <3>1. pages' = SubSeq(pages, 1, 1)
      BY <1>2, <2>2 DEF LogDelete
    <3>2. pages' \in Seq(PageType) /\ Len(pages') = 1 /\ pages'[1] = pages[1]
      BY <2>1, <3>1
    <3>3. CASE Len(pages) = 1
      BY <2>1, <3>1, <3>2, <3>3
    <3>4. CASE Len(pages) = 2
      BY <2>2, <3>2, <3>4
    <3> QED
      BY <2>1, <3>3, <3>4
  <2>3. CASE ~ n < pages[Len(pages)].prev
    BY <1>2, <2>1, <2>3 DEF LogDelete
  <2> QED
    BY <2>2, <2>3
<1>6. LTypeOK'
  <2>1. written' \in Nat /\ durable' \in Nat /\ fsync_index' \in Nat
    BY <1>2, <1>4 DEF IInv, LTypeOK, Numbers, LogSync, file
  <2>2. commit_idx' \in Nat /\ current' \in Nat /\ truncations' \in Nat
    BY <1>2, <1>4 DEF IInv, LTypeOK, Numbers
  <2> QED
    BY <1>2, <1>3, <1>5, <2>1, <2>2 DEF IInv, LTypeOK, Numbers, Lists, shared, thread
<1>7. PagesInv'
  <2>1. /\ commit_idx' \in Nat /\ commit_idx \in Nat /\ commit_idx <= commit_idx'
        /\ commit_idx' <= m /\ current' = m
    BY <1>2, <1>4 DEF IInv, LTypeOK, Numbers
  <2>2. \A i \in 1 .. Len(pages) : pages[i].prev \in Nat
    BY Typed DEF IInv
  <2>0. pages \in Seq(PageType) /\ (Len(pages) = 1 \/ Len(pages) = 2)
    BY DEF IInv, LTypeOK, Lists
  <2>3. CASE pages' = pages
    <3>1. pages[Len(pages)].prev <= n
      BY <1>2, <1>4, <2>0, <2>1, <2>2, <2>3 DEF LogDelete, IInv, PagesInv
    <3> QED
      BY <1>3, <1>4, <2>0, <2>1, <2>2, <2>3, <3>1 DEF IInv, PagesInv
  <2>4. CASE Len(pages') = 1 /\ pages'[1] = pages[1] /\ Len(pages) = 2
             /\ n < pages[2].prev
    <3>1. ~ snapshot_in_progress
      BY <1>4, <2>1, <2>2, <2>4 DEF IInv, PagesInv
    <3> QED
      BY <1>3, <1>4, <2>1, <2>2, <2>4, <3>1 DEF IInv, PagesInv
  <2> QED
    BY <1>5, <2>3, <2>4
<1>8. WaitInv' /\ NoLostWakeup' /\ PanicsOnlyIfOvertaken'
  BY <1>2, <1>3, Zenon DEF IInv, WaitInv, NoLostWakeup, RunningCoversFsync,
                    PanicsOnlyIfOvertaken, shared, thread
<1>9. overtaken' \/ DiskInv'
  <2> SUFFICES ASSUME ~ overtaken' PROVE DiskInv'
    OBVIOUS
  <2>1. DiskInv /\ (n < current => ~ Outstanding)
    BY <1>2 DEF IInv
  <2>2. CASE n < current
    <3>1. durable' = m /\ written' = m /\ fsync_index' = m /\ current' = m
      BY <1>2, <2>2 DEF LogSync
    <3>2. ~ need_fsync' /\ tpc' \notin {"fsync", "synced", "post"} /\ done' = << >>
      BY <1>3, <2>1, <2>2
         DEF Outstanding, IInv, WaitInv, RunningCoversFsync, LTypeOK, shared, thread
    <3> QED
      BY <1>3, <1>4, <3>1, <3>2 DEF DiskInv
  <2>3. CASE n = current
    <3>1. UNCHANGED pages
      <4>1. pages[Len(pages)].prev \in Nat /\ pages[Len(pages)].prev <= current
        BY Typed DEF IInv, PagesInv
      <4> QED
        BY <1>4, <1>5, <2>3, <4>1
    <3>2. /\ written <= written' /\ durable <= durable' /\ durable' <= written'
          /\ written' <= current' /\ fsync_index' <= durable'
      BY <1>2, <1>4, <2>1, <2>3 DEF DiskInv, IInv, LTypeOK, Numbers, LogSync, file
    <3> QED
      BY <1>3, <1>6, <2>1, <3>1, <3>2, DiskStays DEF IInv
  <2> QED
    BY <1>4, <2>2, <2>3 DEF IInv, LTypeOK, Numbers
<1> QED
  BY <1>6, <1>7, <1>8, <1>9 DEF IInv

LEMMA AppendPage ==
    ASSUME NEW s \in Seq(PageType), NEW p \in PageType
    PROVE  /\ Append(s, p) \in Seq(PageType) /\ Len(Append(s, p)) = Len(s) + 1
           /\ \A i \in 1 .. Len(s) : Append(s, p)[i] = s[i]
           /\ Append(s, p)[Len(s) + 1] = p
OBVIOUS

(* A new page: what was asked of the other one is on disk. *)
LEMMA CompactionBeginPreserves == IInv /\ LogCompactionBegin => IInv'
<1> SUFFICES ASSUME IInv, LogCompactionBegin PROVE IInv'
  OBVIOUS
<1>1. /\ UNCHANGED <<shared, thread, mpc, done, fsync_index, current, server, commit_idx,
                     snapshot_in_progress, blocked, history>>
      /\ ~ snapshot_in_progress /\ blocked = "no"
      /\ written' = current /\ durable' = current /\ nextfd' = nextfd + 1
  BY DEF LogCompactionBegin, Handler
<1>2. /\ pages' \in Seq(PageType) /\ Len(pages') = 2 /\ Len(pages) = 1
      /\ pages'[1] = pages[1] /\ pages'[2].prev = current
  <2>1. pages \in Seq(PageType) /\ Len(pages) = 1
    BY DEF LogCompactionBegin, IInv, LTypeOK, Lists
  <2>2. \E p \in PageType : p.prev = current /\ pages' = Append(pages, p)
    BY DEF LogCompactionBegin, IInv, LTypeOK, Numbers, PageType
  <2>3. PICK p \in PageType : p.prev = current /\ pages' = Append(pages, p)
    BY <2>2
  <2>4. /\ pages' \in Seq(PageType) /\ Len(pages') = Len(pages) + 1
        /\ \A i \in 1 .. Len(pages) : pages'[i] = pages[i]
        /\ pages'[Len(pages) + 1] = p
    BY <2>1, <2>3, AppendPage, Zenon
  <2> QED
    BY <2>1, <2>3, <2>4, SMTT(30)
<1>3. LTypeOK'
  BY <1>1, <1>2 DEF IInv, LTypeOK, Numbers, Lists, shared, thread, server, history
<1>4. PagesInv'
  BY <1>1, <1>2 DEF IInv, LTypeOK, Numbers, PagesInv
<1>5. WaitInv' /\ NoLostWakeup' /\ PanicsOnlyIfOvertaken'
  BY <1>1 DEF IInv, WaitInv, NoLostWakeup, RunningCoversFsync, PanicsOnlyIfOvertaken,
              shared, thread, history
<1>6. overtaken' \/ DiskInv'
  <2> SUFFICES ASSUME ~ overtaken, DiskInv PROVE DiskInv'
    BY <1>1 DEF IInv, history
  <2>1. ASSUME NEW f \in Nat, NEW i \in Nat, Covered(f, i) PROVE Covered(f, i)'
    BY <1>1, <1>2, <2>1 DEF Covered, OpenFds, DiskInv, IInv, LTypeOK, Numbers
  <2>2. need_fsync' => Covered(fd, requested_index)'
    BY <1>1, <2>1 DEF DiskInv, IInv, LTypeOK, Numbers, shared
  <2>3. tpc' = "fsync" => Covered(tfd, request_idx)'
    BY <1>1, <2>1 DEF DiskInv, IInv, LTypeOK, Numbers, thread
  <2>4. durable <= durable' /\ durable' <= written' /\ written' <= current'
    BY <1>1, SMTT(30) DEF DiskInv, IInv, LTypeOK, Numbers
  <2> QED
    <3>1. /\ fsync_index' <= durable'
          /\ leader' => match_idx' <= durable'
      BY <1>1, <1>3, <2>4 DEF DiskInv, IInv, LTypeOK, Numbers, server
    <3> QED
      BY <1>1, <1>3, <2>2, <2>3, <2>4, <3>1, ReportsStay DEF DiskInv, IInv
<1> QED
  BY <1>3, <1>4, <1>5, <1>6 DEF IInv

(* The waits, which snapshots begin with. *)
LEMMA WaitPreserves ==
    IInv /\ (InitiateSnapshot \/ FinalizeSnapshot \/ RecvSnapshot \/ WaitTurn \/ Fork)
        => IInv'
<1> SUFFICES ASSUME IInv,
                    InitiateSnapshot \/ FinalizeSnapshot \/ RecvSnapshot \/ WaitTurn \/ Fork
             PROVE  IInv'
  OBVIOUS
<1> USE DEF InitiateSnapshot, FinalizeSnapshot, RecvSnapshot, WaitTurn, Fork, WaitFor,
            StartWait, WaitLoop, Handler
<1>1. UNCHANGED <<shared, thread, done, file, fsync_index, current, pages, nextfd, server,
                  commit_idx, history>>
  BY DEF vars, shared, thread, file, server, history
<1>2. LTypeOK'
  <2>1. Numbers'
    BY <1>1 DEF IInv, LTypeOK, Numbers, vars, shared, thread, file, server, history
  <2> QED
    BY <1>1, <2>1, ListsStay, Zenon DEF IInv, LTypeOK
<1>3. PagesInv'
  <2>1. \/ blocked' \in {blocked, "no"} /\ snapshot_in_progress' = snapshot_in_progress
        \/ /\ blocked' = "fork" /\ snapshot_in_progress'
           /\ Len(pages) = 2 /\ commit_idx >= pages[2].prev
        \/ blocked' = "finalize" /\ snapshot_in_progress /\ snapshot_in_progress'
        \/ blocked' = "load" /\ ~ snapshot_in_progress /\ ~ snapshot_in_progress'
    BY Zenon
  <2> HIDE DEF InitiateSnapshot, FinalizeSnapshot, RecvSnapshot, WaitTurn, Fork
  <2>2. PagesInv
    BY Zenon DEF IInv
  <2>3. /\ blocked' \in {"fork", "finalize"} => snapshot_in_progress'
        /\ blocked' = "load" => ~ snapshot_in_progress'
        /\ snapshot_in_progress' => Len(pages) = 2 /\ pages[2].prev <= commit_idx
    BY <2>1, <2>2, SMTT(30) DEF PagesInv
  <2> QED
    BY <1>1, <2>2, <2>3, Zenon DEF PagesInv
<1>4. WaitInv' /\ NoLostWakeup' /\ PanicsOnlyIfOvertaken'
  <2>1. WaitInv'
    BY <1>1, SMTT(30) DEF IInv, LTypeOK, Numbers, WaitInv, RunningCoversFsync, vars, shared,
                          thread
  <2>2. NoLostWakeup'
    BY <1>1, SMTT(30) DEF IInv, LTypeOK, Numbers, WaitInv, NoLostWakeup, RunningCoversFsync,
                          vars, shared, thread
  <2>3. PanicsOnlyIfOvertaken'
    BY <1>1, Zenon DEF IInv, PanicsOnlyIfOvertaken, history
  <2> QED
    BY <2>1, <2>2, <2>3, Zenon
<1> HIDE DEF InitiateSnapshot, FinalizeSnapshot, RecvSnapshot, WaitTurn, Fork
<1>5. overtaken' \/ DiskInv'
  <2> SUFFICES ASSUME ~ overtaken, DiskInv PROVE DiskInv'
    BY <1>1, Zenon DEF IInv, history
  <2> QED
    BY <1>1, <1>2, DiskStays DEF DiskInv, IInv, LTypeOK, Numbers, file, server
<1> QED
  BY <1>2, <1>3, <1>4, <1>5 DEF IInv

(* LogCompactionEnd and LogReset close a page after the wait: the thread is idle. *)
LEMMA ClosePreserves == IInv /\ (LogCompactionEnd \/ LogReset) => IInv'
<1> SUFFICES ASSUME IInv, LogCompactionEnd \/ LogReset PROVE IInv'
  OBVIOUS
<1>1. /\ UNCHANGED <<shared, thread, mpc, done, nextfd, server, history>>
      /\ mpc = "run" /\ blocked # "no" /\ blocked' = "no"
  BY DEF LogCompactionEnd, LogReset, vars, shared, thread
<1>2. ~ running
  BY <1>1 DEF IInv, WaitInv
<1>3. CASE LogCompactionEnd
  <2>1. /\ pages' \in Seq(PageType) /\ Len(pages') = 1 /\ pages'[1] = pages[2]
        /\ Len(pages) = 2
        /\ written' = current /\ durable' = current /\ fsync_index' = current
        /\ UNCHANGED <<current, commit_idx>> /\ ~ snapshot_in_progress'
    <3>1. pages \in Seq(PageType) /\ Len(pages) = 2 /\ pages' = Tail(pages)
      BY <1>3 DEF LogCompactionEnd, IInv, LTypeOK, Lists, PagesInv
    <3>2. pages' \in Seq(PageType) /\ Len(pages') = 1 /\ pages'[1] = pages[2]
      BY <3>1
    <3> QED
      BY <1>3, <3>1, <3>2, SMTT(30) DEF LogCompactionEnd, LogSync
  <2>2. LTypeOK'
    BY <1>1, <2>1 DEF IInv, LTypeOK, Numbers, Lists, shared, thread, file, server, history
  <2>3. PagesInv'
    <3>1. pages[2].prev <= commit_idx
      BY <1>3, SMTT(30) DEF LogCompactionEnd, IInv, PagesInv
    <3> QED
      BY <1>1, <2>1, <3>1 DEF IInv, PagesInv
  <2>4. overtaken' \/ DiskInv'
    <3> SUFFICES ASSUME ~ overtaken, DiskInv PROVE DiskInv'
      BY <1>1, Zenon DEF IInv, history
    <3>1. /\ durable <= durable' /\ durable' <= written' /\ written' <= current'
          /\ fsync_index' <= durable' /\ (leader' => match_idx' <= durable')
      BY <1>1, <2>1 DEF IInv, LTypeOK, Numbers, DiskInv, file, server
    <3> QED
      BY <1>1, <1>2, <2>2, <3>1, IdleDisk, Zenon DEF IInv, WaitInv
  <2> QED
    BY <1>1, <2>2, <2>3, <2>4
       DEF IInv, WaitInv, NoLostWakeup, RunningCoversFsync, PanicsOnlyIfOvertaken, shared,
           thread, history
<1>4. CASE LogReset
  <2>1. PICK n \in current + 1 .. MaxIndex :
            /\ current' = n /\ written' = n /\ durable' = n /\ commit_idx' = n
            /\ pages' = << [fd |-> pages[1].fd, prev |-> n] >>
            /\ fsync_index' = fsync_index
    BY <1>4, Zenon DEF LogReset
  <2>2. n \in Nat /\ current < n
    BY DEF IInv, LTypeOK, Numbers
  <2>3. /\ pages' \in Seq(PageType) /\ Len(pages') = 1 /\ pages'[1].prev = n
        /\ ~ snapshot_in_progress'
    <3>1. PICK p : p = [fd |-> pages[1].fd, prev |-> n] /\ pages' = << p >>
      BY <2>1
    <3>2. p \in PageType /\ p.prev = n
      BY <2>2, <3>1, Typed, SMTT(30) DEF IInv, LTypeOK, Lists, PageType
    <3>3. ~ snapshot_in_progress'
      BY <1>4 DEF LogReset, IInv, PagesInv
    <3>4. pages' \in Seq(PageType) /\ Len(pages') = 1 /\ pages'[1] = p
      BY <3>1, <3>2
    <3> QED
      BY <3>2, <3>3, <3>4
  <2>4. LTypeOK'
    BY <1>1, <2>1, <2>2, <2>3, SMTT(30)
       DEF IInv, LTypeOK, Numbers, Lists, shared, thread, server, history
  <2>5. PagesInv'
    BY <1>1, <2>1, <2>2, <2>3, SMTT(30) DEF PagesInv
  <2>6. overtaken' \/ DiskInv'
    BY <1>1, <1>2, <2>1, <2>2, <2>4, IdleDisk
       DEF IInv, WaitInv, DiskInv, LTypeOK, Numbers, server, history
  <2> QED
    BY <1>1, <2>4, <2>5, <2>6
       DEF IInv, WaitInv, NoLostWakeup, RunningCoversFsync, PanicsOnlyIfOvertaken, shared,
           thread, history
<1> QED
  BY <1>3, <1>4

(* handleFsyncCompleted copies a result that is on disk. *)
LEMMA CompletedPreserves == IInv /\ HandleFsyncCompleted => IInv'
<1> SUFFICES ASSUME IInv, HandleFsyncCompleted PROVE IInv'
  OBVIOUS
<1>1. /\ UNCHANGED <<shared, thread, mpc, file, current, pages, nextfd, server, commit_idx,
                     snapshot_in_progress, blocked, history>>
      /\ done # << >> /\ fsync_index' = Head(done) /\ done' = Tail(done)
  BY DEF HandleFsyncCompleted, handleFsyncCompleted
<1>2. /\ done' \in Seq(Nat) /\ fsync_index' = done[1] /\ 1 \in 1 .. Len(done)
      /\ \A i \in 1 .. Len(done') : done'[i] = done[i + 1] /\ i + 1 \in 1 .. Len(done)
  BY <1>1 DEF IInv, LTypeOK, Lists
<1>3. LTypeOK'
  <2>1. fsync_index' \in Nat
    BY <1>2, Typed DEF IInv
  <2>2. Lists'
    BY <1>1, <1>2, SMTT(30) DEF IInv, LTypeOK, Lists
  <2> QED
    BY <1>1, <2>1, <2>2 DEF IInv, LTypeOK, Numbers, shared, thread, file, server, history
<1>4. PagesInv' /\ WaitInv' /\ NoLostWakeup' /\ PanicsOnlyIfOvertaken'
  <2>1. PagesInv' /\ PanicsOnlyIfOvertaken'
    BY <1>1, Zenon DEF IInv, PagesInv, PanicsOnlyIfOvertaken, history
  <2>2. WaitInv' /\ NoLostWakeup'
    BY <1>1, Zenon DEF IInv, WaitInv, NoLostWakeup, RunningCoversFsync, shared, thread
  <2> QED
    BY <2>1, <2>2, Zenon
<1>5. overtaken' \/ DiskInv'
  BY <1>1, <1>2, SMTT(30) DEF IInv, DiskInv, Covered, OpenFds, LogCurrentFd, shared, thread, file,
                    server, history
<1> QED
  BY <1>3, <1>4, <1>5 DEF IInv

-----------------------------------------------------------------------------
(* The thread *)

(* fsync() on an open page makes the requested index durable. *)
LEMMA FsyncPreserves == IInv /\ ThreadFsync => IInv'
<1> SUFFICES ASSUME IInv, ThreadFsync PROVE IInv'
  OBVIOUS
<1>1. /\ UNCHANGED <<shared, request_idx, tfd, mpc, done, written, fsync_index, current,
                     pages, nextfd, server, commit_idx, snapshot_in_progress, blocked,
                     truncations, overtaken>>
      /\ tpc = "fsync" /\ tpc' = "synced"
      /\ panicked' = (tfd \notin OpenFds)
      /\ durable' = IF tfd = LogCurrentFd THEN written ELSE durable
  BY DEF ThreadFsync, FsyncReturns
<1>2. LTypeOK'
  <2>1. Numbers'
    BY <1>1 DEF IInv, LTypeOK, Numbers, shared, server
  <2> QED
    BY <1>1, <2>1, ListsStay DEF IInv, LTypeOK
<1>3. PagesInv'
  BY <1>1, Zenon DEF IInv, PagesInv
<1>4. WaitInv' /\ NoLostWakeup'
  BY <1>1 DEF IInv, WaitInv, NoLostWakeup, RunningCoversFsync, shared
<1>5. CASE overtaken
  BY <1>1, <1>2, <1>3, <1>4, <1>5 DEF IInv, PanicsOnlyIfOvertaken
<1>6. CASE DiskInv
  <2>1. Covered(tfd, request_idx)
    BY <1>1, <1>6 DEF DiskInv
  <2>2. durable <= durable' /\ durable' <= written' /\ request_idx' <= durable'
    BY <1>1, <1>6, <2>1, SMTT(30) DEF DiskInv, Covered, IInv, LTypeOK, Numbers
  <2>3. need_fsync' => Covered(fd, requested_index)'
    BY <1>1, <1>2, <1>6, <2>2, CoveredStays DEF DiskInv, IInv, LTypeOK, Numbers, shared
  <2>4. DiskInv'
    <3>1. \A i \in 1 .. Len(done) : done[i] \in Nat /\ done[i] <= durable
      BY <1>6, Typed DEF DiskInv, IInv
    <3>2. \A i \in 1 .. Len(done') : done'[i] <= durable'
      BY <1>1, <2>2, <3>1 DEF IInv, LTypeOK, Numbers
    <3>3. /\ fsync_index' <= durable' /\ (leader' => match_idx' <= durable')
          /\ written' <= current'
      BY <1>1, <1>2, <1>6, <2>2 DEF DiskInv, IInv, LTypeOK, Numbers, server
    <3> QED
      BY <1>1, <2>2, <2>3, <3>2, <3>3, SMTT(30) DEF DiskInv
  <2>5. PanicsOnlyIfOvertaken'
    BY <1>1, <2>1 DEF Covered, PanicsOnlyIfOvertaken
  <2> QED
    BY <1>2, <1>3, <1>4, <2>4, <2>5 DEF IInv
<1> QED
  BY <1>5, <1>6 DEF IInv

(* The critical sections of the thread, and its result. *)
LEMMA ThreadPreserves == IInv /\ (ThreadTurn \/ SpuriousTurn) => IInv'
<1> SUFFICES ASSUME IInv, ThreadTurn \/ SpuriousTurn PROVE IInv'
  OBVIOUS
<1>1. UNCHANGED <<requested_index, fd, file, fsync_index, current, pages, nextfd, server,
                  commit_idx, snapshot_in_progress, blocked, history>>
  BY DEF ThreadTurn, SpuriousTurn, TakeRequest, Finish, PostResult, SpuriousWakeup, shared
<1>2. PagesInv' /\ PanicsOnlyIfOvertaken'
  BY <1>1, Zenon DEF IInv, PagesInv, PanicsOnlyIfOvertaken, history
<1>3. \A f, i : Covered(f, i)' <=> Covered(f, i)
  BY <1>1 DEF Covered, OpenFds, LogCurrentFd, file
<1>4. CASE TakeRequest
  <2>1. WaitInv' /\ NoLostWakeup'
    BY <1>1, <1>4 DEF TakeRequest, IInv, LTypeOK, Numbers, WaitInv, NoLostWakeup,
                      RunningCoversFsync, shared
  <2>3. LTypeOK'
    <3>1. Numbers' /\ UNCHANGED done
      BY <1>1, <1>4 DEF TakeRequest, IInv, LTypeOK, Numbers, shared, file, server, history
    <3> QED
      BY <1>1, <3>1, ListsStay DEF IInv, LTypeOK
  <2>2. overtaken' \/ DiskInv'
    BY <1>1, <1>3, <1>4 DEF TakeRequest, IInv, DiskInv, shared, file, server, history
  <2> QED
    BY <1>2, <2>1, <2>2, <2>3 DEF IInv
<1>5. CASE Finish
  <2>1. WaitInv' /\ NoLostWakeup'
    BY <1>1, <1>5 DEF Finish, WakeMain, IInv, LTypeOK, Numbers, WaitInv, NoLostWakeup,
                      RunningCoversFsync, shared
  <2>3. LTypeOK'
    <3>1. Numbers' /\ UNCHANGED done
      BY <1>1, <1>5 DEF Finish, WakeMain, IInv, LTypeOK, Numbers, shared, file, server, history
    <3> QED
      BY <1>1, <3>1, ListsStay DEF IInv, LTypeOK
  <2>2. overtaken' \/ DiskInv'
    BY <1>1, <1>3, <1>5 DEF Finish, IInv, DiskInv, file, server, history
  <2> QED
    BY <1>2, <2>1, <2>2, <2>3 DEF IInv
<1>6. CASE PostResult
  <2>1. /\ done' \in Seq(Nat) /\ Len(done') = Len(done) + 1
        /\ \A i \in 1 .. Len(done') :
              done'[i] = IF i <= Len(done) THEN done[i] ELSE request_idx
    BY <1>6 DEF PostResult, IInv, LTypeOK, Numbers, Lists
  <2>2. WaitInv' /\ NoLostWakeup'
    BY <1>1, <1>6 DEF PostResult, IInv, LTypeOK, Numbers, WaitInv, NoLostWakeup,
                      RunningCoversFsync, shared
  <2>4. LTypeOK'
    <3>1. Numbers'
      BY <1>1, <1>6 DEF PostResult, IInv, LTypeOK, Numbers, shared, file, server, history
    <3>2. Lists'
      BY <1>1, <2>1 DEF IInv, LTypeOK, Lists
    <3> QED
      BY <3>1, <3>2 DEF LTypeOK
  <2>3. overtaken' \/ DiskInv'
    BY <1>1, <1>3, <1>6, <2>1
       DEF PostResult, IInv, DiskInv, LTypeOK, shared, file, server, history
  <2> QED
    BY <1>2, <2>2, <2>3, <2>4 DEF IInv
<1>7. CASE SpuriousWakeup
  <2>1. WaitInv' /\ NoLostWakeup'
    BY <1>1, <1>7 DEF SpuriousWakeup, IInv, LTypeOK, Numbers, WaitInv, NoLostWakeup,
                      RunningCoversFsync, shared
  <2>3. LTypeOK'
    <3>1. Numbers' /\ UNCHANGED done
      BY <1>1, <1>7 DEF SpuriousWakeup, IInv, LTypeOK, Numbers, shared, file, server, history
    <3> QED
      BY <1>1, <3>1, ListsStay DEF IInv, LTypeOK
  <2>2. overtaken' \/ DiskInv'
    BY <1>1, <1>3, <1>7 DEF SpuriousWakeup, IInv, DiskInv, shared, file, server, history
  <2> QED
    BY <1>2, <2>1, <2>2, <2>3 DEF IInv
<1> QED
  BY <1>4, <1>5, <1>6, <1>7 DEF ThreadTurn, SpuriousTurn

-----------------------------------------------------------------------------
LEMMA NextPreserves == IInv /\ [LNext]_lvars => IInv'
<1> SUFFICES ASSUME IInv, [LNext]_lvars PROVE IInv'
  OBVIOUS
<1>1. CASE UNCHANGED lvars
  <2>1. UNCHANGED <<need_fsync, running, requested_index, fd, request_idx, tfd, tpc, mpc,
                    done, written, durable, fsync_index, current, pages, nextfd, leader,
                    next_sync_index, match_idx, commit_idx, snapshot_in_progress, blocked,
                    truncations, overtaken, panicked>>
    BY <1>1 DEF lvars, vars, shared, thread, file, server, history
  <2> QED
    <3>1. LTypeOK'
      BY <2>1, ListsStay DEF IInv, LTypeOK, Numbers
    <3>2. PagesInv' /\ WaitInv' /\ NoLostWakeup' /\ PanicsOnlyIfOvertaken'
      BY <2>1, SMTT(30) DEF IInv, PagesInv, WaitInv, NoLostWakeup, RunningCoversFsync,
                  PanicsOnlyIfOvertaken
    <3>3. DiskInv => DiskInv'
      BY <2>1 DEF DiskInv, Covered, OpenFds, LogCurrentFd
    <3> QED
      BY <2>1, <3>1, <3>2, <3>3 DEF IInv
<1> QED
  BY <1>1, BeforeSleepPreserves, ServerPreserves, RecvAppendEntriesPreserves,
     CompactionBeginPreserves, WaitPreserves, ClosePreserves, CompletedPreserves,
     FsyncPreserves, ThreadPreserves DEF LNext

LEMMA AlwaysIInv == LSpec => []IInv
BY InitEstablishes, NextPreserves, PTL DEF LSpec

(* With any number of entries, pages, elections, truncations and snapshots, the leader's
   own match_idx, which handleBeforeSleep passes to raft_flush, counts nothing that is
   not on its disk; the exception is a truncation that overtook a request. *)
THEOREM CountedIsDurable == LSpec => []SelfMatchIsDurableUnlessOvertaken
<1>1. IInv => SelfMatchIsDurableUnlessOvertaken
  BY DEF IInv, DiskInv, SelfMatchIsDurableUnlessOvertaken
<1> QED
  BY AlwaysIInv, <1>1, PTL

(* fsyncLoop never calls fsync() on a page that LogCompactionEnd or LogReset has closed:
   it can fail, and panic, only after a truncation that overtook the request. *)
THEOREM SyncsOpenFiles == LSpec => []PanicsOnlyIfOvertaken
<1>1. IInv => PanicsOnlyIfOvertaken
  BY DEF IInv
<1> QED
  BY AlwaysIInv, <1>1, PTL

(* Neither thread of fsync.c sleeps while the other one waits for it, also with the log
   and the snapshots around them. *)
THEOREM NoWakeupIsLostInServer == LSpec => []NoLostWakeup
<1>1. IInv => NoLostWakeup
  BY DEF IInv
<1> QED
  BY AlwaysIInv, <1>1, PTL

-----------------------------------------------------------------------------
(* The fsync thread by itself, as FsyncThread specifies it *)

(* Requests are for what has been written, and the thread's copy is too. *)
RequestedIsWritten ==
    /\ requested_index <= written /\ durable <= written
    /\ request_idx <= written

(* The inductive invariant. NoLostWakeup needs RunningCoversFsync: a sleeping main
   thread saw `running' set, so a request is pending or the thread is between its two
   critical sections, and the second one will signal. *)
ThreadInv == /\ TypeOK /\ NoLostWakeup /\ RunningCoversFsync /\ ReportedIsDurable
             /\ RequestedIsWritten

LEMMA ThreadInitEstablishes == Init => ThreadInv
<1> SUFFICES ASSUME Init PROVE ThreadInv
  OBVIOUS
<1>1. TypeOK
  <2>1. need_fsync \in BOOLEAN /\ running \in BOOLEAN
    BY Zenon DEF Init
  <2>2. 0 \in 0 .. MaxIndex
    BY BoundAssumption
  <2>3. done \in Seq(0 .. MaxIndex)
    BY DEF Init
  <2> QED
    BY <2>1, <2>2, <2>3, Zenon DEF Init, TypeOK
<1>2. NoLostWakeup /\ RunningCoversFsync
  BY Zenon DEF Init, NoLostWakeup, RunningCoversFsync
<1>3. ReportedIsDurable /\ RequestedIsWritten
  BY DEF Init, ReportedIsDurable, RequestedIsWritten
<1> QED
  BY <1>1, <1>2, <1>3 DEF ThreadInv

LEMMA ThreadNextPreserves == ThreadInv /\ [Next]_vars => ThreadInv'
<1> SUFFICES ASSUME ThreadInv, [Next]_vars PROVE ThreadInv'
  OBVIOUS
<1> USE BoundAssumption
<1>1. TypeOK'
  <2>1. CASE FlushAndRequest
    BY <2>1 DEF ThreadInv, TypeOK, FlushAndRequest, fsyncThreadAddTask, WakeThread
  <2>2. CASE StartWait \/ WaitLoop
    BY <2>2 DEF ThreadInv, TypeOK, StartWait, WaitLoop, shared, thread, file
  <2>3. CASE handleFsyncCompleted
    BY <2>3 DEF ThreadInv, TypeOK, handleFsyncCompleted, shared, thread, file
  <2>4. CASE TakeRequest
    BY <2>4 DEF ThreadInv, TypeOK, TakeRequest, shared, file
  <2>5. CASE Fsync
    BY <2>5 DEF ThreadInv, TypeOK, Fsync, FsyncReturns, shared
  <2>6. CASE Finish
    BY <2>6 DEF ThreadInv, TypeOK, Finish, WakeMain, file
  <2>7. CASE PostResult
    BY <2>7 DEF ThreadInv, TypeOK, PostResult, shared, file
  <2>8. CASE SpuriousWakeup
    BY <2>8 DEF ThreadInv, TypeOK, SpuriousWakeup, shared, file
  <2>9. CASE UNCHANGED vars
    BY <2>9 DEF ThreadInv, TypeOK, vars, shared, thread, file
  <2> QED
    BY <2>1, <2>2, <2>3, <2>4, <2>5, <2>6, <2>7, <2>8, <2>9
       DEF Next, ThreadStep, MainStep
<1>2. RunningCoversFsync' /\ NoLostWakeup'
  <2> USE DEF ThreadInv, TypeOK, RunningCoversFsync, NoLostWakeup
  <2>1. CASE FlushAndRequest
    BY <2>1 DEF FlushAndRequest, fsyncThreadAddTask, WakeThread
  <2>2. CASE StartWait \/ WaitLoop
    BY <2>2 DEF StartWait, WaitLoop, shared, thread
  <2>3. CASE handleFsyncCompleted
    BY <2>3 DEF handleFsyncCompleted, shared, thread
  <2>4. CASE TakeRequest
    BY <2>4 DEF TakeRequest, shared
  <2>5. CASE Fsync
    BY <2>5 DEF Fsync, FsyncReturns, shared
  <2>6. CASE Finish
    BY <2>6 DEF Finish, WakeMain
  <2>7. CASE PostResult
    BY <2>7 DEF PostResult, shared
  <2>8. CASE SpuriousWakeup
    BY <2>8 DEF SpuriousWakeup, shared
  <2>9. CASE UNCHANGED vars
    BY <2>9 DEF vars, shared, thread
  <2> QED
    BY <2>1, <2>2, <2>3, <2>4, <2>5, <2>6, <2>7, <2>8, <2>9
       DEF Next, ThreadStep, MainStep
<1>3. ReportedIsDurable' /\ RequestedIsWritten'
  <2> USE DEF ThreadInv, TypeOK, ReportedIsDurable, RequestedIsWritten
  <2>1. CASE FlushAndRequest
    BY <2>1 DEF FlushAndRequest, fsyncThreadAddTask, WakeThread
  <2>2. CASE StartWait \/ WaitLoop
    BY <2>2 DEF StartWait, WaitLoop, shared, thread, file
  <2>3. CASE handleFsyncCompleted
    BY <2>3 DEF handleFsyncCompleted, shared, thread, file
  <2>4. CASE TakeRequest
    BY <2>4 DEF TakeRequest, shared, file
  <2>5. CASE Fsync
    BY <2>5 DEF Fsync, FsyncReturns, shared
  <2>6. CASE Finish
    BY <2>6 DEF Finish, file
  <2>7. CASE PostResult
    BY <2>7 DEF PostResult, shared, file
  <2>8. CASE SpuriousWakeup
    BY <2>8 DEF SpuriousWakeup, shared, file
  <2>9. CASE UNCHANGED vars
    BY <2>9 DEF vars, shared, thread, file
  <2> QED
    BY <2>1, <2>2, <2>3, <2>4, <2>5, <2>6, <2>7, <2>8, <2>9
       DEF Next, ThreadStep, MainStep
<1> QED
  BY <1>1, <1>2, <1>3 DEF ThreadInv

(* One condition variable serves both directions of fsync.c without a lost
   wakeup: neither thread sleeps while the other one waits for it. *)
THEOREM NoWakeupIsLost == Spec => []NoLostWakeup
<1>1. ThreadInv => NoLostWakeup
  BY DEF ThreadInv
<1> QED
  BY ThreadInitEstablishes, ThreadNextPreserves, <1>1, PTL DEF Spec

(* On a log file that only grows, an index that the thread posts to the event
   loop, and so rr->log.fsync_index, never exceeds what fsync() put on disk. *)
THEOREM ReportsAreDurable == Spec => []ReportedIsDurable
<1>1. ThreadInv => ReportedIsDurable
  BY DEF ThreadInv
<1> QED
  BY ThreadInitEstablishes, ThreadNextPreserves, <1>1, PTL DEF Spec
=============================================================================
