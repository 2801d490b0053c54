------------------------------ MODULE LogFsync ------------------------------
(***************************************************************************)
(* What the leader counts as persisted, composed from the fsync thread,    *)
(* the pages of the log and the Raft server's bookkeeping (log-fsync on).  *)
(*                                                                         *)
(* A leader appends without syncing; before the event loop sleeps,         *)
(* handleBeforeSleep() flushes the log, asks the thread for an fsync and   *)
(* tells raft_flush() how far earlier fsyncs got. A follower, and a node   *)
(* that becomes leader, sync inside the handler. Truncation may remove the *)
(* second page of the log, and with it a file the thread was asked about.  *)
(*                                                                         *)
(* Entries are represented by their index: written and durable are the     *)
(* lengths of the prefix of the CURRENT log handed to the OS and on disk.  *)
(***************************************************************************)
EXTENDS FsyncThread

CONSTANTS MaxTruncations,   \* bound: conflicting appendentries received
          MaxPages          \* bound: log files created, also their descriptors
ASSUME PagesAssumption == MaxPages \in Nat /\ MaxTruncations \in Nat

VARIABLES
    current,         \* LogCurrentIdx
    pages,           \* the open pages, first to last: [fd, prev] with prev_log_idx
    nextfd,          \* descriptor of the next page created
    leader,          \* raft_is_leader
    next_sync_index, \* of the leader
    match_idx,       \* raft_node_get_match_idx(me->node)
    commit_idx,
    snapshot_in_progress,
    blocked,         \* what the main thread does once its wait is over
    truncations,     \* conflicting appendentries so far
    overtaken,       \* history: truncated while a request was outstanding
    panicked         \* the process has stopped in PANIC()

server == <<leader, next_sync_index, match_idx>>
history == <<truncations, overtaken, panicked>>
lvars == <<vars, current, pages, nextfd, server, commit_idx, snapshot_in_progress, blocked, history>>

-----------------------------------------------------------------------------
LogCurrentFd == pages[Len(pages)].fd
OpenFds == {pages[i].fd : i \in 1 .. Len(pages)}

(* An event handler of the main thread starts. *)
Handler == mpc = "run" /\ blocked = "no" /\ ~ panicked

(* The request or the result of an fsync that the main thread has not seen. *)
Outstanding == running \/ tpc = "post" \/ done # << >>

(* LogSync: flush and fsync the current page in the main thread. The first page
   was synced when the second one was created. *)
LogSync(index) ==
    /\ written' = index
    /\ durable' = index
    /\ fsync_index' = index

(* Mutants of handleBeforeSleep: what is being synced counts already; the next
   entry is skipped. *)
BeforeSleepAs(counted, skipped) ==
    /\ Handler
    /\ IF leader /\ current >= next_sync_index
       THEN /\ next_sync_index' = current + 1 + skipped
            /\ written' = current
            /\ fsyncThreadAddTask(LogCurrentFd, current)
       ELSE UNCHANGED <<next_sync_index, written, shared, thread>>
    /\ match_idx' = IF leader /\ counted > match_idx THEN counted ELSE match_idx
    /\ commit_idx' \in IF leader THEN commit_idx .. current ELSE {commit_idx}
    /\ UNCHANGED <<mpc, done, durable, fsync_index, current, pages, nextfd,
                   leader, snapshot_in_progress, blocked, history>>
BeforeSleepCountsCurrent == BeforeSleepAs(current, 0)
BeforeSleepSkipsOne == BeforeSleepAs(fsync_index, 1)

(* handleBeforeSleep: raft_get_index_to_sync(), LogFlush() and the request, then
   raft_flush() with the fsync_index read BEFORE the request. The commit index
   may move to anything a majority has, which is up to the other nodes. *)
handleBeforeSleep ==
    /\ Handler
    /\ IF leader /\ current >= next_sync_index
       THEN /\ next_sync_index' = current + 1
            /\ written' = current
            /\ fsyncThreadAddTask(LogCurrentFd, current)
       ELSE UNCHANGED <<next_sync_index, written, shared, thread>>
    /\ match_idx' = IF leader /\ fsync_index > match_idx THEN fsync_index
                                                         ELSE match_idx
    /\ commit_idx' \in IF leader THEN commit_idx .. current ELSE {commit_idx}
    /\ UNCHANGED <<mpc, done, durable, fsync_index, current, pages, nextfd,
                   leader, snapshot_in_progress, blocked, history>>

(* raft_recv_entry on the leader: append, no sync. *)
LeaderAppend ==
    /\ Handler /\ leader
    /\ current < MaxIndex
    /\ current' = current + 1
    /\ UNCHANGED <<vars, pages, nextfd, server, commit_idx, snapshot_in_progress, blocked, history>>

(* raft_become_leader: append the NO_OP, sync, and count it as persisted. *)
BecomeLeader ==
    /\ Handler /\ ~ leader
    /\ current < MaxIndex
    /\ current' = current + 1
    /\ LogSync(current')
    /\ leader' = TRUE
    /\ match_idx' = current'
    /\ next_sync_index' = current' + 1
    /\ UNCHANGED <<shared, thread, mpc, done, pages, nextfd, commit_idx,
                   snapshot_in_progress, blocked, history>>

(* raft_become_follower, from a higher term or without a quorum. *)
BecomeFollower ==
    /\ Handler /\ leader
    /\ leader' = FALSE
    /\ UNCHANGED <<vars, current, pages, nextfd, next_sync_index, match_idx,
                   commit_idx, snapshot_in_progress, blocked, history>>

(* LogDelete down to index n: the second page goes when the first one shrinks. *)
LogDelete(n) ==
    /\ pages' = IF n < pages[Len(pages)].prev THEN SubSeq(pages, 1, 1) ELSE pages

(* raft_recv_appendentries on a follower, or on a leader of an older term:
   delete what conflicts, down to n (never a committed entry), and sync; append
   up to m, and sync; take over the leader's commit index. *)
RecvAppendEntries ==
    /\ Handler
    /\ leader' = FALSE
    /\ \E n \in commit_idx .. current : \E m \in n .. MaxIndex :
          /\ n < current => truncations < MaxTruncations
          /\ LogDelete(n)
          /\ current' = m
          /\ IF n < current \/ n < m THEN LogSync(m)
                                     ELSE UNCHANGED <<file, fsync_index>>
          /\ truncations' = IF n < current THEN truncations + 1 ELSE truncations
          /\ overtaken' = (overtaken \/ (n < current /\ Outstanding))
          /\ commit_idx' \in commit_idx .. m
    /\ UNCHANGED <<shared, thread, mpc, done, nextfd, next_sync_index,
                   match_idx, snapshot_in_progress, blocked, panicked>>

(* LogCompactionBegin, called by callRaftPeriodic: sync the page, open another
   one. It does not touch fsync_index. *)
LogCompactionBegin ==
    /\ Handler
    /\ ~ snapshot_in_progress
    /\ Len(pages) = 1 /\ nextfd <= MaxPages
    /\ current - pages[1].prev > 1
    /\ commit_idx > pages[1].prev
    /\ written' = current /\ durable' = current
    /\ pages' = Append(pages, [fd |-> nextfd, prev |-> current])
    /\ nextfd' = nextfd + 1
    /\ UNCHANGED <<shared, thread, mpc, done, fsync_index, current, server,
                   commit_idx, snapshot_in_progress, blocked, history>>

(* Mutant of WaitFor: the wait is left out. *)
NoWaitFor(what) ==
    /\ Handler
    /\ blocked' = what
    /\ UNCHANGED <<vars, current, pages, nextfd, server, commit_idx, history>>

(* initiateSnapshot, finalizeSnapshot and raftLoadSnapshot wait for the thread
   before they go on; `blocked' says which one. *)
WaitFor(what) ==
    /\ Handler
    /\ StartWait
    /\ blocked' = what
    /\ UNCHANGED <<current, pages, nextfd, server, commit_idx, history>>

(* callRaftPeriodic, once every entry of the first page is committed. *)
InitiateSnapshot ==
    /\ ~ snapshot_in_progress
    /\ Len(pages) = 2 /\ commit_idx >= pages[2].prev
    /\ snapshot_in_progress' = TRUE
    /\ WaitFor("fork")

(* pollSnapshotStatus reports success. *)
FinalizeSnapshot ==
    /\ snapshot_in_progress
    /\ UNCHANGED snapshot_in_progress
    /\ WaitFor("finalize")

(* pollSnapshotStatus reports failure. *)
CancelSnapshot ==
    /\ Handler
    /\ snapshot_in_progress
    /\ snapshot_in_progress' = FALSE
    /\ UNCHANGED <<vars, current, pages, nextfd, server, commit_idx, blocked,
                   history>>

(* raftLoadSnapshot refuses while a snapshot is being created. *)
RecvSnapshot ==
    /\ ~ leader /\ ~ snapshot_in_progress
    /\ current < MaxIndex
    /\ UNCHANGED snapshot_in_progress
    /\ WaitFor("load")

WaitTurn ==
    /\ WaitLoop
    /\ UNCHANGED <<current, pages, nextfd, server, commit_idx,
                   snapshot_in_progress, blocked, history>>

(* initiateSnapshot after its wait: the child is forked. *)
Fork ==
    /\ mpc = "run" /\ blocked = "fork"
    /\ blocked' = "no"
    /\ UNCHANGED <<vars, current, pages, nextfd, server, commit_idx,
                   snapshot_in_progress, history>>

(* finalizeSnapshot after its wait, with raft_end_snapshot: LogCompactionEnd closes the
   first page, and the second one is synced. *)
LogCompactionEnd ==
    /\ mpc = "run" /\ blocked = "finalize"
    /\ pages' = Tail(pages)
    /\ LogSync(current)
    /\ snapshot_in_progress' = FALSE
    /\ blocked' = "no"
    /\ UNCHANGED <<shared, thread, mpc, done, current, nextfd, server, commit_idx, history>>

(* raftLoadSnapshot after its wait: LogReset closes the second page and starts
   the first one over, with a synced header, behind the snapshot. *)
LogReset ==
    /\ mpc = "run" /\ blocked = "load"
    /\ \E n \in current + 1 .. MaxIndex :
          /\ current' = n /\ written' = n /\ durable' = n /\ commit_idx' = n
          /\ pages' = << [fd |-> pages[1].fd, prev |-> n] >>
    /\ blocked' = "no"
    /\ UNCHANGED <<shared, thread, mpc, done, fsync_index, nextfd, server,
                   snapshot_in_progress, history>>

HandleFsyncCompleted ==
    /\ Handler
    /\ handleFsyncCompleted
    /\ UNCHANGED <<current, pages, nextfd, server, commit_idx, snapshot_in_progress, blocked, history>>

(* The thread's fsync(2): covers what was written of the current page; an
   older page needs nothing; on a closed descriptor it fails, fatally. *)
ThreadFsync ==
    /\ ~ panicked
    /\ FsyncReturns
    /\ panicked' = (tfd \notin OpenFds)
    /\ durable' = IF tfd = LogCurrentFd THEN written ELSE durable
    /\ UNCHANGED <<written, current, pages, nextfd, server, commit_idx, snapshot_in_progress, blocked,
                   truncations, overtaken>>

SpuriousTurn ==
    /\ ~ panicked
    /\ SpuriousWakeup
    /\ UNCHANGED <<current, pages, nextfd, server, commit_idx, snapshot_in_progress, blocked, history>>

ThreadTurn ==
    /\ ~ panicked
    /\ TakeRequest \/ Finish \/ PostResult
    /\ UNCHANGED <<current, pages, nextfd, server, commit_idx, snapshot_in_progress, blocked, history>>

-----------------------------------------------------------------------------
LInit ==
    /\ Init
    /\ current = 0
    /\ pages = << [fd |-> 0, prev |-> 0] >> /\ nextfd = 1
    /\ leader = FALSE /\ next_sync_index = 1 /\ match_idx = 0
    /\ commit_idx = 0
    /\ snapshot_in_progress = FALSE /\ blocked = "no"
    /\ truncations = 0 /\ overtaken = FALSE /\ panicked = FALSE

LNext ==
    \/ handleBeforeSleep \/ LeaderAppend \/ BecomeLeader \/ BecomeFollower
    \/ RecvAppendEntries \/ LogCompactionBegin \/ InitiateSnapshot \/ Fork
    \/ FinalizeSnapshot \/ LogCompactionEnd \/ CancelSnapshot
    \/ RecvSnapshot \/ LogReset \/ WaitTurn
    \/ HandleFsyncCompleted \/ ThreadFsync \/ ThreadTurn \/ SpuriousTurn

LSpec == LInit /\ [][LNext]_lvars

(* The thread and a waiting main thread are scheduled; every iteration of the
   event loop runs the one-shot events and handleBeforeSleep. *)
LFairSpec ==
    /\ LSpec
    /\ WF_lvars(ThreadFsync \/ ThreadTurn)
    /\ WF_lvars(WaitTurn) /\ WF_lvars(Fork \/ LogCompactionEnd \/ LogReset)
    /\ SF_lvars(HandleFsyncCompleted) /\ SF_lvars(handleBeforeSleep)

-----------------------------------------------------------------------------
(* raft.h says of the argument of raft_flush(): "Entry index of the last
   persisted entry". The leader's own match_idx never counts an entry that is
   not on its disk, except after a truncation that overtook a request to the
   thread: the one way in which fsync_index can come to promise too much. *)
SelfMatchIsDurableUnlessOvertaken ==
    ~ overtaken => (leader => match_idx <= durable) /\ fsync_index <= durable

(* fsyncLoop panics when fsync() fails. It runs on a closed file only after a
   truncation that overtook a request; LogCompactionEnd and LogReset, which close
   files too, never cause it. *)
PanicsOnlyIfOvertaken == panicked => overtaken

(* fsyncThreadWaitUntilCompleted returns, whatever is requested or signalled in
   the meantime: the main thread never hangs on the one condition variable. *)
MainThreadResumes == (mpc = "wait") ~> (mpc = "run" \/ panicked)

(* Every entry the leader appends is, while it stays leader, eventually
   persisted and counted: no entry falls between next_sync_index, a request
   that a later one replaces, and a result that arrives too early. *)
AppendedIsCounted ==
    \A i \in 1 .. MaxIndex :
        (leader /\ current >= i) ~> (~ leader \/ match_idx >= i \/ panicked)
=============================================================================
