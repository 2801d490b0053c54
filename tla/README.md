# TLA+ models of RedisRaft

RedisRaft is a Redis module that replicates Redis commands with Raft. This
directory holds TLA+ modules for the parts of it that are hard to test, TLC
configurations that model-check them on small instances, and TLAPS proofs that
some of their properties hold for every size.

Paths below are relative to the repository; `PROJECT.json` maps every definition
that models code to its lines.

## 1. The system

One Redis process is one Raft node. Everything runs on the Redis main thread, in
handlers called by its event loop, except the fsync thread and a small pool of
worker threads for name resolution.

| part | source | state | operations |
|------|--------|-------|------------|
| Raft server | `deps/raft/src/raft_server.c`, `raft_server_properties.c`, `raft_node.c` | role, term, vote, commit and applied index, per peer `next_idx`, `match_idx`, message ids, read queue | `raft_periodic`, `raft_recv_*`, `raft_flush`, `raft_begin/end/cancel_snapshot`, `raft_transfer_leader`, `raft_recv_read_request` |
| Persistent log | `src/log.c`, `src/file.c` | one or two page files, each with an offset index file and a header | append, sync, delete from an index, get, compaction begin/end, reset, load |
| Entry cache | `src/entrycache.c` | ring buffer of the last entries | append, get, delete head, delete tail, compact |
| Fsync thread | `src/fsync.c` | one request, `running`, `need_fsync` under a mutex | add task, wait until completed, the loop |
| Metadata | `src/metadata.c` | term and vote on disk | write, read |
| Snapshots | `src/snapshot.c` | snapshot in progress, child process, incoming and outgoing chunks | initiate, poll, finalize, cancel, load, send and receive chunks |
| Callbacks and loop | `src/raft.c` | `RedisRaftCtx` | apply an entry, send messages, handle replies, `handleBeforeSleep`, `callRaftPeriodic`, load at start |
| Membership | `raft_server.c`, `src/raft.c`, `src/join.c` | node list, voting flags, used ids | add, promote, remove, join |
| Connections | `src/connection.c`, `src/node.c`, `src/node_addr.c`, `src/threadpool.c`, `src/proxy.c` | connection state, pending responses | resolve, connect, authenticate, disconnect, time out |
| Clients | `src/clientstate.c`, `src/multi.c`, `src/blocked.c`, sessions in `src/raft.c` | MULTI queue, blocked request, sessions | queue, execute, discard, block, unblock, time out |
| Sharding | `src/cluster.c`, `src/migrate.c` | shard groups, slot map, locked keys | link, update, replace, import, lock, delete and unlock |
| Commands and helpers | `src/redisraft.c`, `src/commands.c`, `src/config.c`, `src/serialization*.c`, `src/util.c`, `src/sort.c`, `src/common.c` | configuration, command table | parse, look up, reply |

How they interact, for one write: a client command becomes a log entry
(`raft_recv_entry`), which is appended to the entry cache and to the current page
without a sync. Before the event loop sleeps, `handleBeforeSleep` flushes the page,
asks the fsync thread to sync it, and calls `raft_flush`, which counts what earlier
fsyncs completed as the leader's own vote for commitment, moves the commit index,
sends entries to the peers and applies what is committed. A follower syncs inside
the handler, before it answers. When the log is long enough, `callRaftPeriodic`
starts a second page, forks a child that writes a snapshot, and, when the child is
done, replaces the first page by the second.

What makes this hard, and what must hold:

* The leader commits before its own fsync is over and counts it later: what it counts
  must be on its disk, whatever happened to the log in between.
* The fsync thread uses a file that truncation, compaction or a received snapshot may
  close; one condition variable serves both directions.
* A crash can hit between any two file operations; the two pages and the snapshot
  must fit together afterwards, and nothing synced may be lost.
* Messages are lost, delayed and reordered, and pipelined: `next_idx` moves on
  without an answer. The Raft guarantees (one leader per term, matching logs,
  leader completeness, state machine safety) must hold together with snapshots,
  compaction and restarts.
* The node set is in the log: an entry counts as soon as it is appended, and is taken
  back when it is truncated; majorities of successive sets must intersect.
* A request waits in an entry, in a blocked command, in the read queue or for a transfer,
  while leaders change and entries are truncated: it must be answered once.
* Two clusters hand over a slot by entries in two logs; no key may be served twice or
  lost.
* Connections end while a thread resolves their name, while replies are expected and
  from within their own callbacks; no connection may be freed that is still referred to.
* The code asserts much of this itself: `RedisModule_Assert`, `assert`, `PANIC`, and
  branches that log "Should never happen". None of these may be reached; section 4 has
  the ones that can be, and the only way there.

## 2. Modules

| module | models | run or proof |
|--------|--------|--------------|
| `EntryCache`, `MCEntryCache` | `src/entrycache.c`, driven by the log callbacks | `entry_cache`, `EntryCacheProofs` |
| `FsyncThread` | `src/fsync.c` and its callers on the main thread | part of `log_fsync`, `LogFsyncProofs` |
| `LogFsync` | extends `FsyncThread`: pages, leadership, truncation, compaction, received snapshots, and what the leader counts | `log_fsync`, `LogFsyncProofs` |
| `RaftLog` | `src/log.c`, the file side of `src/snapshot.c`, `loadRaftLog` | `raft_log`, `raft_log_delete` |
| `RaftServer`, `MCRaftServer` | the Raft library on a fixed set of voting nodes | `raft_server`, and the proofs in `RaftInvariants` (definitions), `RaftServerProofs`, `LogLeaderProofs`, `LogFollowerProofs`, `RaftTheorems` |
| `Membership`, `MCMembership` | the node set in the log (`raft_server.c`, `RAFT.NODE` in `src/redisraft.c`, `src/raft.c`) | `membership`, `membership_consensus` |
| `Connection` | one connection: `src/connection.c`, `src/node.c`, `src/join.c`, the links of `src/cluster.c` and `src/migrate.c`, on a hiredis context (`deps/hiredis/async.c`) | operators only |
| `Connections`, `MCConnections` | all connections of a process, the timer, the worker threads (`src/threadpool.c`) and the library's list of nodes | `connections` |
| `Clients`, `MCClients` | requests at one node: `src/redisraft.c`, `src/raft.c`, `src/multi.c`, `src/blocked.c`, `src/clientstate.c`; sessions, reads, transfer, snapshots | `clients` |
| `ShardGroups` | the `ShardingInfo` of a node and the operations of `src/cluster.c` on it | operators only |
| `Sharding`, `MCSharding` | shard group entries: validated, appended, truncated, applied, saved and loaded | `sharding`, `ShardingProofs` |
| `KeyStore` | what clients may expect of keys | specification |
| `Migration`, `MCMigration` | moving a slot between clusters: `src/migrate.c`, `src/raft.c`, `src/redisraft.c` | `migration`, `migration_imports`, `MigrationProofs` |

Definitions with the comment "Mutant of" are deliberate errors. Replacing
the definition they follow by one of them must make a property fail; they show that
the property depends on the code it is about.

### EntryCache

State: the fields of `EntryCache` (`size`, `len`, `start_idx`, `start`, `ptrs`,
`entries_memsize`), and the log it caches. Actions are the callbacks that touch it:
`LogAppend` (`logImplAppend`), `LogPop`, `LogPoll`, `LogReset`, and `Periodic`
(`EntryCacheCompact` from `callRaftPeriodic`). The memory that `realloc` does not
initialise is `NULL` in the model: it is never read before it is written.

### FsyncThread and LogFsync

A critical section is one action, since all shared fields are accessed under one
mutex; everything between two critical sections interleaves. `tpc` and `mpc` are the
places of the two threads, and `cond` is inside `pthread_cond_wait`, which may also
wake up by itself. `LogFsync` extends the thread with what the main thread does:
`handleBeforeSleep` reads `fsync_index` for `raft_flush` before the request it makes
can complete; `RecvAppendEntries` truncates and syncs; `LogCompactionBegin`,
`LogCompactionEnd`, `LogReset` open and close files, and the second of them, which is
all of `raft_end_snapshot`, syncs the page that remains. `initiateSnapshot`,
`finalizeSnapshot` and `raftLoadSnapshot` wait for the thread, which is a state of
the main thread (`blocked`).

### RaftLog

A page has the fields of `LogPage` and two contents: what the program sees in its
file and what the last fsync left on disk. Every file operation after which a crash
matters is a step; `pc` is the place in the handler (`finalizeSnapshot`, for example, is
`FinalizeSnapshot`, `LogCompactionEnd` and the sync in `EndSnapshot`). A process crash keeps a prefix of
what was written, a power failure may fall back to what was synced. `Restart` is
`LogOpen`, `LogLoadEntries`, `handleLoadingState` and `loadRaftLog`. `hist` and
`synced` are history variables: the log as the callers see it, and how much of it was
reported durable.

### RaftServer

One action per handler: `raft_periodic` (election timeout, heartbeat, lost quorum),
`raft_recv_requestvote` and its response with prevote, `raft_recv_appendentries` split
into the cases the code tells apart, its response, `raft_recv_entry`, `raft_flush` as
`handleBeforeSleep` calls it, `raft_begin_snapshot`, `raft_end_snapshot`,
`raft_cancel_snapshot`, `raft_recv_snapshot` and its response, and crashes between and
inside handlers. An entry is its term. The abstractions are listed at the head of the
module with the reason for each. `LogFsync` and `RaftLog` justify how `RaftServer`
treats storage: `Flush` assumes that the index an fsync reports is on disk, which
`LogFsync` shows with one exception (see Findings), and `Restarted` that a log is found
again up to what was synced, which `RaftLog` shows.

### Membership

Per server: role, term, vote, log, commit index, snapshot, and `nodes[n]`, the table of
nodes with its flags (`ids`, `voting`, `confirmed`, `inactive`, `added`, `sufficient`) and
`voting_cfg_change_log_idx` (`change`). `OnAppend`, `OnApply` and `OnDelete` are
`raft_handle_append_cfg_change`, `raft_apply_entry` and `raft_handle_remove_cfg_change`;
`NodeAdd`, `NodeRemove` and the promotion of a learner put entries in the log;
`Restored` is a table rebuilt from a snapshot or at a restart. `sound` records whether an
assertion of that code has failed. A request and its answer are one step here:
`RaftServer` has the messages. `hasty`, `leftover` and `decided` are history: a leader that
changed the voters before it had committed anything of its term, exceptions met on
the way, and the longest log that was ever committed.

### Connection and Connections

A connection is a record: the fields of `Connection`, of its owner (a `Node`, the
`JoinLinkState` of JOIN or LINK, a `ShardGroup`, a MIGRATE request), and of its hiredis
context. `Connection` has one operator per callback, from record to record. hiredis runs
callbacks inside callbacks: `redisAsyncFree` calls back for every reply still expected,
and these callbacks call `ConnMarkDisconnected`, which only flags a context that is in
a callback; `AsyncFree` and `MarkDisconnectedInCallback` keep the two cases apart.
`Connections` has the events: membership changes and received snapshots, requests, what
a socket reports, one round of `callHandleNodeStates`, the two steps of a worker
thread, and the one-shot event that it leaves. Any request may have timed out when
the timer looks at it. The event adapter (`src/hiredis_redismodule.h`) installs no
timer, so that hiredis itself never times out, whatever `connection_timeout` says.

### Clients

One node and its clients. `Command`, `Queue`, `Exec`, `Disconnect`, `ClientUnblock`,
`BlockedTimedOut`, `TransferLeader` and `ShardGroupReplace` are what clients and timers do
(`handleRedisCommand`, `MultiHandleCommand`, `handleClientEvent`, `handleClientUnblock`,
...); `ApplyAll` applies entries with all that `raftApplyLog` does for each type and
replies to the requests they carry; `ReceiveEntry`, `LoadSnapshot`, `Compact`, `Restart`,
`BecomeLeader` and `BecomeFollower` are what the cluster does to this node. The other
nodes are an environment that does what `RaftServer` shows Raft to allow. A menu says
which commands a behaviour may use.

### ShardGroups, Sharding, Migration and KeyStore

`ShardGroups` has the `ShardingInfo` as a record and the operations on it: adding,
updating, replacing and validating groups, the three slot maps, RDB save and load, the
answer to a command (`getSlotShardGroup`, `handleSharding` in `src/raft.c`). `Sharding`
makes them the entries of one cluster's log, validated when appended and applied later.
`Migration` has several clusters with their own sharding information, data and locked
keys; a MIGRATE goes through LOCK_KEYS, RAFT.IMPORT on the other cluster and
DELETE_UNLOCK_KEYS, and each of the three can fail, be repeated or arrive late. The
import goes to the nodes of the other cluster in the order of its shard group, to the
next one only when a connection fails; a node that is not leader refuses it, and this
error ends the MIGRATE.
`KeyStore` is the specification `Migration` implements: a key has the value written last,
and only a write changes it. The mapping takes the value from the cluster that gives
the slot away, as long as the key exists there.

## 3. Runs

All runs use two workers and take from seconds to about two minutes. Deadlock is not
checked where bounds (`Max...`, plans, menus) or a crash, abort or panic stop the system;
the entry cache has no such end and is checked for deadlock.

| run | question | bounds |
|-----|----------|--------|
| `entry_cache` | Does the ring ever disagree with the log: `CacheEndsAtLogEnd` (the assertion in `EntryCacheAppend`), `GetAgreesWithLog`, `MemsizeIsExact`? | 2 slots at first, indexes to 7: two doublings, with wrapped content; two weights, so that compaction drops one or two entries |
| `log_fsync` | Is what the leader counts on disk (`SelfMatchIsDurableUnlessOvertaken`), does the thread ever use a closed file (`PanicsOnlyIfOvertaken`), is a wakeup lost (`NoLostWakeup`), does every wait end (`MainThreadResumes`), is every appended entry counted (`AppendedIsCounted`)? | 3 entries, 1 truncation, 1 further page: enough for an old leader to be truncated and elected again while a request is out |
| `raft_log` | Do the two pages stay one log (`PagesAreTheLog`), is no assertion or PANIC reached (`NeverPanics`), where can a log be lost (`LostOnlyWithHeader`), does what was synced survive (`SyncedSurvives`)? | 2 terms, 4 entries, 2 crashes: a crash during recovery from a crash, truncation across the page boundary |
| `raft_log_delete` | Finding: `DeleteFindsLastEntry` | 2 terms, 4 entries, no crash |
| `raft_server` | `ElectionSafety`, `LogMatching`, `StateMachineSafety`, `LeaderCompleteness`, `NeverGivesUp`, `CommittedSurvives` | 3 nodes, 4 terms, 3 entries, batches of 1, 2 messages under way, 3 timeouts, 1 message held back, 1 crash of either kind, 1 snapshot, from prepared states |
| `membership` | Is what is committed ever lost when the voters change (`ConsensusUnlessHasty`), is every table of nodes what the log says (`NodesFollowLog`), do the assertions hold (`AssertionsHold`)? | 4 nodes, ten plans: two removals in a row, a node that two leaders add, a cluster of one that grows, restarts, snapshots, a promotion taken back |
| `membership_consensus` | Finding: `NeverViolatesConsensus` | 4 voters, two removals |
| `connections` | Is a connection freed only when nothing refers to it (`FreedIsForgotten`), and always in the end (`TerminatedIsFreed`); does a connected one have a context (`ConnectedHasContext`); do pending responses match what hiredis expects (`PendingMatchesReplies`); is a request answered once (`AnsweredOnce`), and in the end (`RequestsEnd`); do Nodes correlate with the library's (`NodesCorrelate`)? | two links (two nodes; shard group and MIGRATE; JOIN; LINK), 1 thread, so that tasks queue; 2 requests under way, 2 addresses. Links share only the threads and the list, so that more of them add no case |
| `clients` | Does every waiting request have one owner (`RequestHasOneOwner`), do nodes compute the same state (`ReplicasAgree`), does a timeout hit its command (`TimeoutHitsItsCommand`), are reads fresh (`ReadsAreFresh`), do sessions end (`SessionsEnd`), are requests answered (`RequestsAreAnswered`)? | a client and a proxy, seven menus of commands that interact, with their own bounds for entries, terms and crashes |
| `sharding` | Do maps and groups agree (`SlotMapsAgree`), does a snapshot restore them (`LoadRestores`), when does the assertion of REPLACE fail (`PanicsOnlyForTwins`)? | 2 slots, 3 ids on both sides of this cluster's, 2 entries in the log, 2 terms |
| `migration` | Is the slot a key store during a migration (`IsKeyStore`, refinement of `KeyStore`), do clients find the last value (`ServedIsCurrent`), do all keys arrive (`KeysArrive`)? | two clusters of two nodes; 1 key, 2 values; 1 failure; three plans: one session with an abort and two writes; three sessions back and forth with one write; two sessions with one write and an importing cluster that is first led by its second node, and then by its first. At most 2 terms per cluster, so that a leader is deposed while its request is under way |
| `migration_imports` | Finding: `ImportsAreValid` | the same clusters, one plan |

`raft_server` starts from `MCSpec`'s states: what the program reaches in executions too
long for TLC to search from `Init`, such as the logs `<<1,1>>`, `<<1,2>>` and `<<1>>` that
two elections leave, or one of two followers lagging behind. From there the bounds let
two more elections happen, which is the case that the rule "commit only entries of the
current term" exists for, or a compaction, a snapshot transfer and a crash. `NoneIgnored` in
`MCRaftServer` prunes states in which a message is under way that its receiver would
ignore; losing it when it is sent leads to the same states. The nodes are symmetric, in
`membership` too. `NotHasty` in `MCMembership` stops at the states of the finding, about
which `ConsensusUnlessHasty` says nothing.

**Fairness.** In `LFairSpec` of `LogFsync`: weak fairness for the thread and for the main
thread inside its wait, which the operating system's scheduler provides; strong
fairness for `handleFsyncCompleted` and `handleBeforeSleep`, which each iteration of the
Redis event loop runs, although other handlers may run in between and block in a wait.
In `Connections`: weak fairness for the timer, one-shot events and worker threads, and for
the end of a connection attempt, which the kernel gives up after its retries.
In `Clients`: the event loop applies what is committed, runs timers and closes clients
(weak fairness); a majority of the cluster stays up, so that someone is elected, learns
of it, gets heartbeats acknowledged and commits. In `Migration`: the operator gives a
configuration to all clusters and repeats a MIGRATE that failed; a bounded number of links
and nodes fail, and a connection that is up delivers. No fairness is assumed of clients, and elsewhere none of
the network or of other nodes.

## 4. Findings

* **Assertion after a reset** (`raft_log_delete`). `LogReset` (`src/log.c:797`) leaves
  `num_entries`. If everything appended after it is truncated, `pageDelete` looks for a
  last entry and the assertion at `src/log.c:551` fails.
* **Two configurations without a common majority** (`membership_consensus`).
  `raft_recv_entry` (`raft_server.c:1128`) accepts a configuration change from a leader that
  has not committed an entry of its term, so that two leaders in a row can each remove a
  voter and commit with a majority of their own; `docs/Introduction.md:28` says that
  configuration changes never violate consensus. `ConsensusUnlessHasty` shows that this is
  the only way.
* **A late import undoes a write** (`migration_imports`). `validSlotTerm`
  (`src/migrate.c:33`) accepts an import of the same session and term as one that has
  already moved the key; `src/migrate.c:132` says that term and session key validate it.

Exceptions that are part of a property, each with the code that makes it necessary:

* `SelfMatchIsDurableUnlessOvertaken`: `handleFsyncCompleted` (`src/raft.c:2144`) stores the
  index of whatever request completed. If the node lost leadership, had entries
  truncated and was elected again while the fsync ran, the index belongs to entries
  that are gone; `raft.h:1532` calls it the "Entry index of the last persisted entry."
* `PanicsOnlyIfOvertaken`: `LogDelete` closes the second page (`src/log.c:789`) without
  waiting for the fsync thread, whose `fsync()` then fails, and `fsyncLoop` panics.
* `LostOnlyWithHeader`: a crash while a page has no header (`pageCreate`, `LogReset`) leaves a
  log that `LogOpen` refuses; the node starts as if it had none.
* `CommittedSurvives`: a process killed between write and fsync starts again with
  entries that are only in the page cache (`loadRaftLog` does not sync), acknowledges
  them, and a power failure takes them away.
* `NodesFollowLog`: after `raft_begin_load_snapshot` a leader may keep the index of a
  change that is gone, and refuses voting changes until it restarts; truncating a
  promotion leaves `has_sufficient_logs` set, so that this leader never promotes that
  learner.
* `AssertionsHold`: a candidate without a vote of its own may grant one
  (`raft_server.c:1040`), and a node that two leaders were asked to add may have to delete
  the entry that adds itself.
* `NodesCorrelate`: loading a received snapshot frees the library's nodes without a
  membership event (`raft_server.c:1857`) and creates new Nodes (`src/snapshot.c:458`); the
  old ones stay.
* `RequestsEnd`: a peer that accepts a connection and never answers holds a JOIN or LINK
  for good: `joinLinkIdleCallback` (`src/common.c:234`) looks at the timeout only while the
  link is idle, and in seconds where `src/redisraft.h:339` says milliseconds.
* `AnsweredOnce`: when the link of a MIGRATE breaks before RAFT.IMPORT is answered,
  `transferKeysResponse` gets no reply and replies to the client, and the link goes on with
  the request it has freed.
* `ReplicasAgree`: a command that is blocked when its slot is given to another cluster stays
  blocked. If it is in a snapshot, the node that loads it executes the command again
  after the shard groups; the slot is not served, the command does not block, and
  `RedisModule_Assert(reply != NULL)` (`src/blocked.c:134`) stops the node, at every
  start as long as it has that snapshot. The role `dead` of the model is this; the
  property says that it takes a shard group change after a command that is still blocked.
  And the session of a WATCH that another node has sent on has different ids on the leader
  and elsewhere.
* `RequestHasOneOwner`, `SessionsEnd` and `RequestsAreAnswered` say nothing of a node in the
  role `dead`. `RequestHasOneOwner` further allows two kinds of requests that nobody refers
  to any more: those of blocked commands that `clearAllBlockCommands` drops without a reply
  (`src/blocked.c:66`), and those of shard group entries, which have no `free_func`, so that
  truncation forgets them.
* `RequestsAreAnswered`: these two kinds, and a command that is blocked without a timer, or
  whose timeout was refused during a transfer: it is not tried again.
* `LoadRestores` and `PanicsOnlyForTwins`: the three configurations and the duplicate ids
  that `ShardGroupsParse` accepts (see the comments in `Sharding`).
* `IsKeyStore`: the keys in `overtaken` (a late import, a DELETE_UNLOCK_KEYS applied after
  its session, a migration that is taken back). `ServedIsCurrent` excludes them too.
* `KeysArrive`: `MigrateKeys` (`src/migrate.c:382`) lists the nodes of the importing cluster
  anew for every MIGRATE, starting with the first, and the error with which a follower
  refuses RAFT.IMPORT (`src/migrate.c:183`) ends the MIGRATE (`src/migrate.c:236`). Under a
  leader that is not listed first every attempt fails, and the keys stay locked.

## 5. Proofs

`RaftInvariants` holds definitions only; a theorem is in the module named in the table, on
lemmas of the modules it extends. "From" lists the assumptions on the constants; TLC
evaluates them on every run.

| theorem | says | from |
|---------|------|------|
| `EntryCacheProofs!AppendAssertionHolds` | `Spec => []CacheEndsAtLogEnd` | `SizeAssumption`, `EntryAssumption`, `WeightAssumption` |
| `EntryCacheProofs!CacheNeverLies` | `Spec => []GetAgreesWithLog` | the same |
| `LogFsyncProofs!NoWakeupIsLost` | `Spec => []NoLostWakeup`, for `FsyncThread` alone | `BoundAssumption` |
| `LogFsyncProofs!ReportsAreDurable` | `Spec => []ReportedIsDurable`, on a file that only grows | `BoundAssumption` |
| `LogFsyncProofs!CountedIsDurable` | `LSpec => []SelfMatchIsDurableUnlessOvertaken` | `BoundAssumption`, `PagesAssumption` |
| `LogFsyncProofs!SyncsOpenFiles` | `LSpec => []PanicsOnlyIfOvertaken` | the same |
| `LogFsyncProofs!NoWakeupIsLostInServer` | `LSpec => []NoLostWakeup` | the same |
| `RaftTheorems!OneLeaderPerTerm` | `Spec => []ElectionSafety`, for every finite set of nodes | `NodeAssumption`, `NoneAssumption` |
| `RaftTheorems!LogsMatch` | `Spec => []LogMatching` | these, `BatchAssumption`, `CrashAssumption`, `BoundsAssumption` |
| `RaftTheorems!IndexesStayInLog` | commit index, snapshots, and what a leader believes of its peers stay inside the log | the same |
| `ShardingProofs!MapsAlwaysAgree` | `Spec => []SlotMapsAgree` | `IdAssumption`, `dbidAssumption`, `GivenAssumption` |
| `ShardingProofs!ReplaceIsSafe` | `Spec => []PanicsOnlyForTwins` | the same |
| `ShardingProofs!SnapshotRestores` | `Spec => []LoadRestores` | the same |
| `MigrationProofs!ServesCurrentValue` | `Spec => []ServedIsCurrent` | `IdAssumption`, `SlotAssumption`, `NodesAssumption`, `ValueAssumption` |
| `MigrationProofs!ImplementsKeyStore` | `Spec => IsKeyStore`, the refinement of `KeyStore` | the same |

*Entry cache.* The inductive invariant is `TypeOK /\ CacheEndsAtLogEnd /\ Agreement`.
`Agreement` speaks of slots, not of `EntryCacheGet`, so that it can follow an entry
through a wrap (`SlotIs` replaces the remainder by a case distinction) and through the
move to the upper half when the buffer doubles. There is a lemma per operation.

*Fsync thread.* `NoLostWakeup` alone is not inductive: that the thread is awake when
the main thread sleeps follows from `running` covering exactly the time between a
request and its end (`RunningCoversFsync`). Durability follows from requests never
exceeding what was written.

*Fsync thread in the server.* `IInv` adds what the main thread does to the files. While a
snapshot is created there are two pages, and truncation does not reach the first
(`PagesInv`); the thread is idle when the wait of a handler is over (`WaitInv`); and,
unless a truncation overtook a request, every request names an open file and an index
that was written, and reports, `fsync_index` and the leader's own `match_idx` are on disk
(`DiskInv`). A request for a page that is no longer the current one is already on disk
(`Covered`), which is what `LogCompactionBegin` has to establish. `overtaken` is
part of the invariant because the code has that exception, not because the proof needs
it: without it TLC finds the violation of section 4.

*Elections.* `ElectionInv` says: whoever is counted as a voter by a candidate or
leader, or has a granted vote under way, is bound to that candidate in that term
(`CountedAreBound`, `GrantsAreBound`): its term is later, or it is in that term with
that vote; no voter is counted by two candidates of a term, nor counted by one and
under way to another, nor under way to two (`CountedOnce`, `GrantedOrCounted`,
`GrantedOnce`); and a leader was counted by a majority. The last four are needed since a
voter that has moved on to a later term is no longer bound by its vote. Two
majorities intersect by cardinality: `QuorumFacts` collects the facts about finite sets
and is proved once, in `RaftTheorems`, so that the long modules do not depend on the
library. Most steps leave votes alone, which `StepWithoutElection` covers once; the lemmas
for `RecvRequestVote`, `BecomeCandidate`, and a counted vote do the work.

*Log matching.* Logs alone do not give an inductive statement: entries travel in
messages and in snapshots, and a leader may be deposed while they do. `LogInv` therefore
speaks of fragments (`Fragments`): a log, the entries of an appendentries message with the
one before them, a snapshot under way. Any two fragments that agree at an index agree
below it (`Match`). To keep that when a leader appends, nobody else may hold an entry of
its term that it does not have (`LeaderHasItsTerm`); to have that for a leader that is
just elected, every term in a fragment must be one that was elected
(`TermsAreElected`), in which case nobody can win it again. `HasWon` states this without a
history variable: a majority that is bound to one node in that term and to nobody else.
Each step is shown to be a `VotesMove`, under which `HasWon` is stable, and each action
then has a lemma of its own: the leader's half in `LogLeaderProofs`, the follower's
half, with the crashes inside `raft_recv_appendentries`, in `LogFollowerProofs`.

*Sharding.* `IInv` is `TypeOK`, the consistency of the three slot maps with the groups
(`Consistent`), and `PanicsOnlyForTwins`. The lemmas follow `addShardGroup`,
`updateShardGroup` and `replaceShardGroups` of `src/cluster.c` slot by slot.

*Migration.* `IInv` is `TypeOK /\ ViewInv /\ RequestInv /\ DataInv`: each cluster has the wanted configuration or
the one before it; a request of the current session carries the value of its key, which is
locked as long as it is there (`Sound`); outside `overtaken`, a key is in
one cluster, or in both with the same value and locked in the first (`Placed`). The
refinement maps a key to its value where clients are sent (`CurrentValue`), and every
step leaves it alone or is a write.

Left to TLC:

* Liveness under fairness (`ENABLED` is not supported by the prover): the leads-to
  properties of all runs.
* What is computed by recursion or by a fold over data: `MemsizeIsExact` (a sum over the
  cached entries), and the modules whose operations are folds over pages, nodes or callbacks:
  `RaftLog`, `Membership`, `Connections`, `Clients`.
* `StateMachineSafety`, `LeaderCompleteness`, `NeverGivesUp` and `CommittedSurvives` of
  `RaftServer`. They need an invariant about quorums that acknowledged a prefix, on top of
  `LogInv`.

## 6. Not modelled, and why

* Bytes: the RESP encoding of entries and headers, CRCs (a torn entry is cut, a torn
  header is `NoHdr`), RDB content, the metadata file format, key serialisation in
  `transferKeys`.
* `raft_log.c`: RedisRaft installs its own log implementation.
* `commands.c`, `config.c`, `util.c`, `sort.c`, most of `common.c`, `node_addr.c`,
  `test_network_wrapper.c`: tables, parsing, helpers and test hooks without protocol
  state.
* Configurations other than the defaults that matter here: `log-fsync` off, auto flush
  on.
* Snapshots in chunks: a snapshot is one message in `RaftServer`; the file side of
  loading it is in `RaftLog`.
* Of connections: TLS set-up (a failure to open the socket) and failed allocations. Nor the
  memory of a `ShardGroup`: `ShardGroupTerm` terminates its link and the group is freed,
  while a reply that arrives before the link ends makes `handleShardGroupResponse`
  (`src/cluster.c:437`, `462`) write to it. The model keeps `update_in_progress` with the
  connection and claims nothing about the group.
* Of sharding: a group without nodes, and the numbers of slot range types on the wire
  (`docs/ExternalSharding.md` and the enum differ).

## 7. Open work

1. Snapshot transfer in chunks, composed with the server.
2. Proofs for `RaftLog` (`PagesAreTheLog`), `Membership` and `Connections` need their
   folds replaced by functions, and a lemma per page, node or callback.
