---------------------------- MODULE FsyncThread -----------------------------
(***************************************************************************)
(* The background fsync thread (src/src/fsync.c) and the Redis main thread *)
(* that gives it work. All shared fields are read and written under one    *)
(* mutex, so a critical section is one action; what happens between two    *)
(* critical sections interleaves. One condition variable serves both       *)
(* directions, and pthread_cond_wait() may wake up without a signal.       *)
(***************************************************************************)
EXTENDS Integers, Sequences

CONSTANT MaxIndex     \* bound: entries written to the log file
ASSUME BoundAssumption == MaxIndex \in Nat

VARIABLES
    need_fsync, running, requested_index, fd,   \* FsyncThread, under th->mtx
    tpc,          \* where the thread is
    request_idx,  \* the thread's copy of requested_index
    tfd,          \* the thread's copy of fd
    mpc,          \* where the main thread is, as far as this module goes
    done,         \* one-shot events posted to the event loop, oldest first
    written,      \* entries handed to write(2) for the log file
    durable,      \* entries that fsync(2) has put on disk
    fsync_index   \* rr->log.fsync_index

shared == <<need_fsync, running, requested_index, fd>>
thread == <<tpc, request_idx, tfd>>
file == <<written, durable>>
vars == <<shared, thread, mpc, done, file, fsync_index>>

-----------------------------------------------------------------------------
(* pthread_cond_signal by one thread: wakes the other one if it waits. *)
WakeThread == tpc' = IF tpc = "cond" THEN "lock" ELSE tpc
WakeMain == mpc' = IF mpc = "cond" THEN "wait" ELSE mpc

(* Mutant of fsyncThreadAddTask: no signal. *)
AddTaskNoSignal(f, index) ==
    /\ requested_index' = index
    /\ fd' = f
    /\ need_fsync' = TRUE
    /\ running' = TRUE
    /\ UNCHANGED thread

(* fsyncThreadAddTask, called by the main thread *)
fsyncThreadAddTask(f, index) ==
    /\ requested_index' = index
    /\ fd' = f
    /\ need_fsync' = TRUE
    /\ running' = TRUE
    /\ WakeThread
    /\ UNCHANGED <<request_idx, tfd>>

(* fsyncThreadWaitUntilCompleted: the call, and one turn of its loop. The
   main thread does nothing else until the loop ends. *)
StartWait ==
    /\ mpc = "run"
    /\ mpc' = "wait"
    /\ UNCHANGED <<shared, thread, done, file, fsync_index>>

WaitLoop ==
    /\ mpc = "wait"
    /\ mpc' = IF running THEN "cond" ELSE "run"
    /\ UNCHANGED <<shared, thread, done, file, fsync_index>>

(* fsyncLoop, first critical section: wait for a request and copy it. *)
TakeRequest ==
    /\ tpc = "lock"
    /\ IF need_fsync
       THEN /\ tpc' = "fsync"
            /\ request_idx' = requested_index
            /\ tfd' = fd
            /\ need_fsync' = FALSE
            /\ UNCHANGED <<running, requested_index, fd>>
       ELSE /\ tpc' = "cond"
            /\ UNCHANGED <<request_idx, tfd, shared>>
    /\ UNCHANGED <<mpc, done, file, fsync_index>>

(* fsyncLoop, outside the mutex: fsync(2) returns. *)
FsyncReturns ==
    /\ tpc = "fsync"
    /\ tpc' = "synced"
    /\ UNCHANGED <<request_idx, tfd, shared, mpc, done, fsync_index>>

(* Mutant of Finish: the main thread is not woken. *)
FinishNoSignal ==
    /\ tpc = "synced"
    /\ tpc' = "post"
    /\ running' = need_fsync
    /\ UNCHANGED <<need_fsync, requested_index, fd, request_idx, tfd, done,
                   mpc, file, fsync_index>>

(* fsyncLoop, second critical section. *)
Finish ==
    /\ tpc = "synced"
    /\ tpc' = "post"
    /\ running' = need_fsync
    /\ IF need_fsync THEN UNCHANGED mpc ELSE WakeMain
    /\ UNCHANGED <<need_fsync, requested_index, fd, request_idx, tfd, done,
                   file, fsync_index>>

(* fsyncLoop, after the mutex is released: post the result. *)
PostResult ==
    /\ tpc = "post"
    /\ tpc' = "lock"
    /\ done' = Append(done, request_idx)
    /\ UNCHANGED <<request_idx, tfd, shared, mpc, file, fsync_index>>

(* Either thread may wake up spuriously. *)
SpuriousWakeup ==
    /\ \/ tpc = "cond" /\ tpc' = "lock" /\ UNCHANGED mpc
       \/ mpc = "cond" /\ mpc' = "wait" /\ UNCHANGED tpc
    /\ UNCHANGED <<request_idx, tfd, shared, done, file, fsync_index>>

(* handleFsyncCompleted, run by the event loop of the main thread. *)
handleFsyncCompleted ==
    /\ mpc = "run"
    /\ done # << >>
    /\ fsync_index' = Head(done)
    /\ done' = Tail(done)
    /\ UNCHANGED <<shared, thread, mpc, file>>

-----------------------------------------------------------------------------
(* The thread with a log file that only grows: the part of handleBeforeSleep
   that writes entries out and asks for an fsync of everything written. *)
Init ==
    /\ need_fsync = FALSE /\ running = FALSE
    /\ requested_index = 0 /\ fd = 0
    /\ tpc = "lock" /\ request_idx = 0 /\ tfd = 0
    /\ mpc = "run" /\ done = << >>
    /\ written = 0 /\ durable = 0 /\ fsync_index = 0

FlushAndRequest ==
    /\ mpc = "run"
    /\ \E n \in written + 1 .. MaxIndex :
          /\ written' = n
          /\ fsyncThreadAddTask(fd, n)
    /\ UNCHANGED <<mpc, done, durable, fsync_index>>

(* fsync(2) covers what had been written when it was called; what is written
   while it runs may or may not be covered. *)
Fsync ==
    /\ FsyncReturns
    /\ durable' \in {n \in request_idx .. written : n >= durable}
    /\ UNCHANGED written

ThreadStep == TakeRequest \/ Fsync \/ Finish \/ PostResult
MainStep == FlushAndRequest \/ StartWait \/ WaitLoop \/ handleFsyncCompleted
Next == ThreadStep \/ MainStep \/ SpuriousWakeup

Spec == Init /\ [][Next]_vars

-----------------------------------------------------------------------------
(* Every variable has its type. *)
TypeOK ==
    /\ need_fsync \in BOOLEAN /\ running \in BOOLEAN
    /\ requested_index \in 0 .. MaxIndex /\ fd = 0
    /\ tpc \in {"lock", "cond", "fsync", "synced", "post"}
    /\ request_idx \in 0 .. MaxIndex /\ tfd = 0
    /\ mpc \in {"run", "wait", "cond"}
    /\ done \in Seq(0 .. MaxIndex)
    /\ written \in 0 .. MaxIndex /\ durable \in 0 .. MaxIndex
    /\ fsync_index \in 0 .. MaxIndex

(* A result never promises more than the disk holds: every index reported to
   the event loop, or already copied into the log, is durable. *)
ReportedIsDurable ==
    /\ fsync_index <= durable
    /\ \A i \in 1 .. Len(done) : done[i] <= durable
    /\ tpc \in {"synced", "post"} => request_idx <= durable

(* One condition variable is enough: the thread never sleeps over a request,
   the main thread never sleeps when nothing runs, so no signal is lost and
   none is consumed by the wrong waiter. *)
NoLostWakeup ==
    /\ tpc = "cond" => ~ need_fsync
    /\ mpc = "cond" => running
    /\ ~ (tpc = "cond" /\ mpc = "cond")

(* `running' covers the whole time during which the thread uses the file. *)
RunningCoversFsync ==
    running <=> (need_fsync \/ tpc \in {"fsync", "synced"})
=============================================================================
