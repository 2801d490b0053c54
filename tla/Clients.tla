------------------------------ MODULE Clients -------------------------------
(***************************************************************************)
(* The requests of clients at one node of a RedisRaft cluster: from the    *)
(* RAFT command to the log entry, its application and the reply            *)
(* (src/src/redisraft.c, src/src/raft.c), with transactions                *)
(* (src/src/multi.c), blocking commands and their timeouts                 *)
(* (src/src/blocked.c), client sessions, linearizable reads, leader        *)
(* transfer, snapshots and restarts.                                       *)
(*                                                                         *)
(* The other nodes are an environment that does what Raft allows (module   *)
(* RaftServer): they depose this node, replace entries that are not        *)
(* committed, acknowledge heartbeats, and commit. log holds all entries    *)
(* since the beginning; entries that a snapshot has taken the place of are *)
(* history. The dataset is one list, in one slot.                          *)
(*                                                                         *)
(* Left out: replies that change nothing (wrong arguments, NOCLUSTER,      *)
(* CLUSTERDOWN, MOVED), ACLs, the ASKING flag (see module Migration), and  *)
(* the counter client_attached_entries, which only INFO shows.             *)
(***************************************************************************)
EXTENDS Integers, FiniteSets, SequencesExt

CONSTANTS
    Client,      \* client ids; an id is never used for a second connection
    Proxy,       \* those that are links of other nodes and send RAFT.ENTRY
    NONE,
    Menus        \* what happens in an execution, one of these: the set ops of operations,
                 \* and bounds on commands, terms, entries by clients of other nodes, and
                 \* restarts

ASSUME ClientAssumption ==
    /\ Proxy \subseteq Client /\ {NONE, "proxied"} \cap Client = {}
    /\ \A m \in Menus : {m.commands, m.terms, m.foreign, m.restarts} \subseteq Nat

VARIABLES
    raft,     \* the Raft server: role, term, whether it has led that term, applied,
              \* transferring, msg_id, acked (the message id that a majority acknowledged)
    log,      \* the entries; req is the RaftReq attached to one
    data,     \* the replicated state
    cs,       \* per client: the ClientState
    req,      \* per client: its RaftReq, while the client is blocked on one
    reads,    \* the queue of read requests
    transfer_req,
    snapshot, \* the index and the replicated state of the last snapshot
    others,   \* what other nodes have done that this one may not know of
    menu, used,
    abandoned \* history: clients with a request that nothing will ever answer

vars == <<raft, log, data, cs, req, reads, transfer_req, snapshot, others, menu, used,
          abandoned>>

-----------------------------------------------------------------------------
(* Entries and requests. The session of a timeout entry is history: the client whose
   command it is to end. *)

Entry(type, session, cmds, idx, r) ==
    [type |-> type, term |-> raft.term, session |-> session, cmds |-> cmds, idx |-> idx,
     req |-> r]

NoReq == [kind |-> "none", idx |-> 0, timer |-> "off", blocking |-> FALSE]
Waits(c) == req[c] # NoReq

(* RaftReqInit and RaftReqInitBlocking; the latter arms a timer unless the timeout
   is 0. *)
RaftReqInit(kind) == [NoReq EXCEPT !.kind = kind]

(* Mutant of RaftReqInitBlocking: the index of the entry before *)
InitBlockingTooLow(idx, timed) ==
    [kind |-> "redis", idx |-> idx - 1, blocking |-> TRUE,
     timer |-> IF timed THEN "armed" ELSE "off"]

RaftReqInitBlocking(idx, timed) ==
    [kind |-> "redis", idx |-> idx, blocking |-> TRUE,
     timer |-> IF timed THEN "armed" ELSE "off"]

(* RaftReqFree for the clients of S: each is replied to, its timer stops, and the
   reference to a blocking request is reset. *)
RaftReqFree(S, r) == [c \in Client |-> IF c \in S THEN NoReq ELSE r[c]]

(* Mutant of BlockedReqReset: the reference stays. *)
BlockedReqStays(S, s) == s

BlockedReqReset(S, s) ==
    [c \in Client |-> IF c \in S /\ req[c].blocking THEN [s[c] EXCEPT !.blocked_req = FALSE]
                      ELSE s[c]]

NewClientState ==
    [state |-> "connected", multi |-> "off", queue |-> << >>, watched |-> FALSE,
     blocked_req |-> FALSE]
ClientStateFree(watched) == [NewClientState EXCEPT !.state = "gone", !.watched = watched]

(* raft_recv_entry appends an entry unless this is not the leader, or the leader is
   to hand over. *)
AcceptsEntries == raft.role = "leader" /\ ~ raft.transferring

(* The requests that are attached to the entries S, apart by whether the entry has a
   free_func: ShardGroupAppendLogEntry and ShardGroupsAppendLogEntry set none. *)
Attached(S) == {log[i].req : i \in S} \ {NONE}
AttachedTo(S, type) == {log[i].req : i \in {j \in S : log[j].type = type}} \ {NONE}

(* Entries leave memory: entryFreeAttachedRaftReq replies "TIMEOUT not committed
   yet". The clients of R are replied to in the same step. *)
EntryFree(S, R) ==
    LET freed == R \cup (Attached(S) \ AttachedTo(S, "shard"))
    IN  /\ req' = RaftReqFree(freed, req)
        /\ cs' = BlockedReqReset(freed, cs)
        /\ abandoned' = abandoned \cup AttachedTo(S, "shard")

-----------------------------------------------------------------------------
(* The replicated state: the length of the list, whether the slot is served here,
   client sessions and which of them belong to clients of this node, and the blocked
   commands, oldest first *)
InitData == [elems |-> 0, serves |-> TRUE, sessions |-> {}, local |-> {}, blocked |-> << >>]

(* One Redis command outside of RedisRaft: what it does to the list, and whether it
   blocks. In a transaction a blocking command does not block. *)
RunCommand(multi, x, cmd) ==
    CASE cmd = "push" -> [x EXCEPT !.d.elems = @ + 1]
      [] cmd = "bpop" /\ x.d.elems > 0 -> [x EXCEPT !.d.elems = @ - 1]
      [] cmd = "bpop" /\ x.d.elems = 0 /\ ~ multi -> [x EXCEPT !.blocks = TRUE]
      [] OTHER -> x

Smaller(a, b) == IF a < b THEN a ELSE b
ReqsOf(bcs) == {bcs[i].req : i \in DOMAIN bcs} \ {NONE}

(* What an entry does: the new state, the clients that are replied to, those that are
   closed, and those that are dropped without a reply. *)
Effect(d, free) == [d |-> d, free |-> free \ {NONE}, close |-> {}, drop |-> {}]

(* Redis hands elements to blocked commands after each command: handleUnblock *)
HandleUnblock(d, free) ==
    LET n == Smaller(d.elems, Len(d.blocked))
    IN  Effect([d EXCEPT !.elems = @ - n, !.blocked = SubSeq(@, n + 1, Len(@))],
               free \cup ReqsOf(SubSeq(d.blocked, 1, n)))

(* getClientSession: the id is the one in the request if there is one, and RAFT.ENTRY
   leaves it 0. *)
SessionId(e) == IF e.req \in Proxy THEN "proxied" ELSE e.session
GetClientSession(d, e) ==
    IF Head(e.cmds) # "watch" \/ SessionId(e) \in d.sessions THEN d
    ELSE [d EXCEPT !.sessions = @ \cup {SessionId(e)},
                   !.local = IF e.req # NONE THEN @ \cup {SessionId(e)} ELSE @]

(* executeLogEntry and RaftExecuteCommandArray. A command for a slot that this cluster
   does not serve is only replied to. *)
ExecuteLogEntry(d, e, i) ==
    LET multi == Head(e.cmds) = "multi"
        x == FoldLeft(LAMBDA y, cmd : RunCommand(multi, y, cmd),
                      [d |-> GetClientSession(d, e), blocks |-> FALSE], e.cmds)
        bc == [idx |-> i, session |-> e.session, req |-> e.req]
    IN  IF ~ d.serves THEN Effect(d, {e.req})
        ELSE IF x.blocks THEN Effect([x.d EXCEPT !.blocked = Append(@, bc)], {})
        ELSE HandleUnblock(x.d, {e.req})

(* clearClientSessions and clearAllBlockCommands: clients with a session are closed,
   the requests of blocked commands are neither replied to nor freed. *)
ClearAll(d) ==
    [Effect([d EXCEPT !.sessions = {}, !.local = {}, !.blocked = << >>], {})
        EXCEPT !.close = d.local, !.drop = ReqsOf(d.blocked)]

HandleEndClientSession(d, e) ==
    Effect([d EXCEPT !.sessions = @ \ {e.session}, !.local = @ \ {e.session}], {e.req})

(* timeoutBlockedCommand: nothing is left to do if the command was served before. *)
TimeoutBlockedCommand(d, e) ==
    LET hit == SelectSeq(d.blocked, LAMBDA bc : bc.idx = e.idx)
    IN  Effect([d EXCEPT !.blocked = SelectSeq(@, LAMBDA bc : bc.idx # e.idx)],
               {e.req} \cup ReqsOf(hit))

(* raftApplyLog for the entry e with index i *)
ApplyLog(d, e, i) ==
    CASE e.type = "normal" -> ExecuteLogEntry(d, e, i)
      [] e.type = "noop" -> ClearAll(d)
      [] e.type = "end" -> HandleEndClientSession(d, e)
      [] e.type = "timeout" -> TimeoutBlockedCommand(d, e)
      [] e.type = "shard" -> Effect([d EXCEPT !.serves = ~ @], {e.req})

(* The state of a node that has applied n entries and has no clients *)
Detached(e) == [e EXCEPT !.req = NONE]
Replay(l, n) ==
    FoldLeft(LAMBDA d, i : ApplyLog(d, Detached(l[i]), i).d, InitData, [i \in 1 .. n |-> i])

(* Mutant of SnapshotOf: blocked commands are not saved. *)
SnapshotWithoutBlocked(d) == [d EXCEPT !.local = {}, !.blocked = << >>]

(* rdbSaveSnapshotInfo and rdbLoadSnapshotInfo: sessions are loaded as not local, and
   blockedCommandsLoad executes the blocked commands again. *)
SnapshotOf(d) ==
    [d EXCEPT !.local = {},
              !.blocked = [i \in DOMAIN @ |-> [@[i] EXCEPT !.req = NONE]]]

(* RedisModule_Assert(reply != NULL) in blockedCommandsLoad: a command for a slot that is
   not served does not block. The node is dead if this fails. *)
BlocksAgain(d) == d.blocked # << >> => d.serves

LastAppliedTerm == IF raft.applied = 0 THEN 0 ELSE log[raft.applied].term

-----------------------------------------------------------------------------
(* Commands *)

(* RedisRaftRecvEntry for a request r of the client c: if the entry is refused the
   client is replied to, and nothing remains. *)
RecvEntry(c, e, r) ==
    /\ log' = IF AcceptsEntries THEN Append(log, e) ELSE log
    /\ req' = IF AcceptsEntries THEN [req EXCEPT ![c] = r] ELSE req

CanSend(c) == cs[c].state = "connected" /\ ~ Waits(c) /\ used < menu.commands
Count == used' = used + 1

(* CommandSpecTableGetAggregateFlags: READONLY and not WRITE; MULTI is neither. *)
IsReadOnly(cmds) == "get" \in ToSet(cmds) /\ ToSet(cmds) \subseteq {"multi", "get"}

(* Mutant of RecvReadRequest: the read waits for a heartbeat that is on its way. *)
ReadAtCurrentMsg(c) ==
    /\ reads' = Append(reads, [client |-> c, read_idx |-> Len(log),
                               msg_id |-> raft.msg_id, late |-> others.newer])
    /\ req' = [req EXCEPT ![c] = RaftReqInit("read")]
    /\ UNCHANGED <<raft, log>>

(* raft_recv_read_request; late is history: a write that this node cannot know of was
   acknowledged before. *)
RecvReadRequest(c) ==
    /\ raft' = [raft EXCEPT !.msg_id = @ + 1]
    /\ reads' = Append(reads, [client |-> c, read_idx |-> Len(log),
                               msg_id |-> raft.msg_id + 1, late |-> others.newer])
    /\ req' = [req EXCEPT ![c] = RaftReqInit("read")]
    /\ UNCHANGED log

(* handleRedisCommandAppend; s is the new state of the client. Nothing happens if this
   is not the leader or has not applied an entry of its term. *)
RedisCommandAppend(c, cmds, s) ==
    LET isLeader == raft.role = "leader" /\ LastAppliedTerm = raft.term
        watched == [s EXCEPT !.watched = @ \/ cmds = <<"watch">>]
        entry == Entry("normal", c, cmds, 0, c)
    IN  IF ~ isLeader THEN cs' = [cs EXCEPT ![c] = s] /\ UNCHANGED <<raft, log, req, reads>>
        ELSE IF cmds = <<"unwatch">>
        THEN /\ RecvEntry(c, Entry("end", c, << >>, 0, c), RaftReqInit("end"))
             /\ cs' = [cs EXCEPT ![c] = s]
             /\ UNCHANGED <<raft, reads>>
        ELSE IF IsReadOnly(cmds)
        THEN RecvReadRequest(c) /\ cs' = [cs EXCEPT ![c] = s]
        ELSE IF cmds = <<"bpop">>
        THEN /\ \E timed \in {"timer" \in menu.ops, FALSE} :
                   RecvEntry(c, entry, RaftReqInitBlocking(Len(log) + 1, timed))
             /\ cs' = [cs EXCEPT ![c] = [s EXCEPT !.blocked_req = AcceptsEntries]]
             /\ UNCHANGED <<raft, reads>>
        ELSE /\ RecvEntry(c, entry, RaftReqInit("redis"))
             /\ cs' = [cs EXCEPT ![c] = watched]
             /\ UNCHANGED <<raft, reads>>

(* A command outside of a transaction, or one that another node has sent on *)
Command(c, cmd) ==
    /\ CanSend(c) /\ Count /\ cs[c].multi = "off"
    /\ RedisCommandAppend(c, <<cmd>>, cs[c])
    /\ UNCHANGED <<data, transfer_req, snapshot, others, menu, abandoned>>

(* MultiHandleCommand: MULTI, a command that is queued or refused, DISCARD, and EXEC *)
Multi(c) ==
    /\ CanSend(c) /\ Count /\ c \notin Proxy /\ cs[c].multi = "off" /\ "multi" \in menu.ops
    /\ cs' = [cs EXCEPT ![c].multi = "on", ![c].queue = <<"multi">>]
    /\ UNCHANGED <<raft, log, data, req, reads, transfer_req, snapshot, others, menu,
                   abandoned>>

Queue(c, cmd) ==
    /\ CanSend(c) /\ Count /\ cs[c].multi # "off" /\ cmd # "watch"
    /\ \/ cs' = [cs EXCEPT ![c].queue = Append(@, cmd)]
       \/ cs' = [cs EXCEPT ![c].multi = "error"]
    /\ UNCHANGED <<raft, log, data, req, reads, transfer_req, snapshot, others, menu,
                   abandoned>>

MultiStateReset(s) == [s EXCEPT !.multi = "off", !.queue = << >>]

Discard(c) ==
    /\ CanSend(c) /\ Count /\ cs[c].multi # "off"
    /\ cs' = [cs EXCEPT ![c] = MultiStateReset(@)]
    /\ UNCHANGED <<raft, log, data, req, reads, transfer_req, snapshot, others, menu,
                   abandoned>>

Exec(c) ==
    /\ CanSend(c) /\ Count /\ cs[c].multi # "off"
    /\ IF cs[c].multi = "error"
       THEN cs' = [cs EXCEPT ![c] = MultiStateReset(@)] /\ UNCHANGED <<raft, log, req, reads>>
       ELSE RedisCommandAppend(c, cs[c].queue, MultiStateReset(cs[c]))
    /\ UNCHANGED <<data, transfer_req, snapshot, others, menu, abandoned>>

(* CLIENT UNBLOCK d: handleClientUnblock *)
ClientUnblock(c, d) ==
    /\ CanSend(c) /\ Count /\ c \notin Proxy /\ "unblock" \in menu.ops
    /\ cs[d].blocked_req
    /\ RecvEntry(c, Entry("timeout", d, << >>, req[d].idx, c), RaftReqInit("unblock"))
    /\ UNCHANGED <<raft, data, cs, reads, transfer_req, snapshot, others, menu, abandoned>>

(* RAFT.SHARDGROUP REPLACE, which gives the slot away or takes it back *)
ShardGroupReplace(c) ==
    /\ CanSend(c) /\ Count /\ c \notin Proxy /\ "shard" \in menu.ops
    /\ RecvEntry(c, Entry("shard", NONE, << >>, 0, c), RaftReqInit("shard"))
    /\ UNCHANGED <<raft, data, cs, reads, transfer_req, snapshot, others, menu, abandoned>>

(* RAFT.TRANSFER_LEADER: cmdRaftTransferLeader and raft_transfer_leader *)
TransferLeader(c) ==
    /\ CanSend(c) /\ Count /\ c \notin Proxy /\ "transfer" \in menu.ops
    /\ AcceptsEntries
    /\ raft' = [raft EXCEPT !.transferring = TRUE]
    /\ transfer_req' = c
    /\ req' = [req EXCEPT ![c] = RaftReqInit("transfer")]
    /\ UNCHANGED <<log, data, cs, reads, snapshot, others, menu, abandoned>>

(* Mutant of BlockedTimedOut: nothing is appended. *)
TimedOutWithoutEntry(c) ==
    /\ req[c].timer = "armed"
    /\ req' = [req EXCEPT ![c].timer = "fired"]
    /\ UNCHANGED <<raft, log, data, cs, reads, transfer_req, snapshot, others, menu, used,
                   abandoned>>

(* blockedTimedOut: the timer of a blocking request *)
BlockedTimedOut(c) ==
    /\ req[c].timer = "armed"
    /\ log' = IF AcceptsEntries
              THEN Append(log, Entry("timeout", c, << >>, req[c].idx, NONE)) ELSE log
    /\ req' = [req EXCEPT ![c].timer = IF AcceptsEntries THEN "fired" ELSE "refused"]
    /\ UNCHANGED <<raft, data, cs, reads, transfer_req, snapshot, others, menu, used,
                   abandoned>>

(* Mutant of Disconnect: no entry ends the session. *)
DisconnectKeepsSession(c) ==
    /\ \/ cs[c].state = "closing"
       \/ cs[c].state = "connected" /\ (Waits(c) \/ cs[c].watched) /\ "leave" \in menu.ops
    /\ cs' = [cs EXCEPT ![c] = ClientStateFree(FALSE)]
    /\ UNCHANGED <<raft, log, data, req, reads, transfer_req, snapshot, others, menu, used,
                   abandoned>>

(* handleClientEvent: a client disconnects, or is closed. A leader ends its session
   and its blocking command. The state is freed; watched is history then: the entry
   that ends the session was refused. A client that nothing refers to does not leave:
   nobody would notice. *)
Disconnect(c) ==
    LET end == IF cs[c].watched THEN <<Entry("end", c, << >>, 0, NONE)>> ELSE << >>
        timeout == IF cs[c].blocked_req
                   THEN <<Entry("timeout", c, << >>, req[c].idx, NONE)>> ELSE << >>
    IN  /\ \/ cs[c].state = "closing"
           \/ cs[c].state = "connected" /\ (Waits(c) \/ cs[c].watched) /\ "leave" \in menu.ops
        /\ log' = IF AcceptsEntries THEN log \o end \o timeout ELSE log
        /\ cs' = [cs EXCEPT ![c] = ClientStateFree(
                       cs[c].watched /\ raft.role = "leader" /\ ~ AcceptsEntries)]
        /\ UNCHANGED <<raft, data, req, reads, transfer_req, snapshot, others, menu,
                       used, abandoned>>

-----------------------------------------------------------------------------
(* The Raft server *)

CloseClients(S, s) ==
    [c \in Client |-> IF c \in S /\ s[c].state = "connected"
                      THEN [s[c] EXCEPT !.state = "closing"] ELSE s[c]]

(* The index that the other nodes let this one commit: on a leader the one of an entry
   of its term, or of an entry that they had when they went on to a later term; on a
   follower any one, once its log agrees with the leader's. *)
CanCommit(n) ==
    CASE raft.role = "leader" ->
            log[n].term = raft.term /\ (others.deposed => n <= others.idx)
      [] raft.role = "follower" -> Last(log).term = raft.term /\ ~ raft.led
      [] OTHER -> FALSE

CanApply(n) == n > raft.applied /\ CanCommit(n)

(* raft_apply_all: the entries up to n are committed and applied, each with the request
   attached to it. *)
ApplyAll(n) ==
    LET step(x, i) ==
            LET y == ApplyLog(x.d, log[i], i)
            IN  [y EXCEPT !.free = @ \cup x.free, !.close = @ \cup x.close,
                          !.drop = @ \cup x.drop]
        x == FoldLeft(step, Effect(data, {}),
                      [k \in 1 .. n - raft.applied |-> raft.applied + k])
    IN  /\ CanApply(n)
        /\ raft' = [raft EXCEPT !.applied = n]
        /\ log' = [i \in DOMAIN log |-> IF i <= n THEN Detached(log[i]) ELSE log[i]]
        /\ data' = x.d
        /\ req' = RaftReqFree(x.free, req)
        /\ cs' = CloseClients(x.close, BlockedReqReset(x.free, cs))
        /\ abandoned' = abandoned \cup x.drop
        /\ others' = [others EXCEPT !.committed = IF n > @ THEN n ELSE @]
        /\ UNCHANGED <<reads, transfer_req, snapshot, menu, used>>

(* raft_process_read_queue: a leader serves the first read, any other node drops it. *)
CanRead(r) ==
    LastAppliedTerm >= raft.term /\ r.msg_id <= raft.acked /\ r.read_idx <= raft.applied

ProcessReadQueue ==
    /\ reads # << >>
    /\ raft.role = "leader" => CanRead(Head(reads))
    /\ reads' = Tail(reads)
    /\ req' = RaftReqFree({Head(reads).client}, req)
    /\ UNCHANGED <<raft, log, data, cs, transfer_req, snapshot, others, menu, used, abandoned>>

(* EntryCacheCompact: the oldest n entries leave memory, applied or not. *)
Compact(n) ==
    /\ "compact" \in menu.ops /\ Attached(1 .. n) # {}
    /\ EntryFree(1 .. n, {})
    /\ log' = [i \in DOMAIN log |-> IF i <= n THEN Detached(log[i]) ELSE log[i]]
    /\ UNCHANGED <<raft, data, reads, transfer_req, snapshot, others, menu, used>>

(* handleTransferLeaderComplete, called by raft_reset_transfer_leader *)
TransferLeaderComplete ==
    /\ transfer_req' = NONE
    /\ req' = RaftReqFree({transfer_req}, req)

TransferTimeout ==
    /\ raft.transferring
    /\ raft' = [raft EXCEPT !.transferring = FALSE]
    /\ TransferLeaderComplete
    /\ UNCHANGED <<log, data, cs, reads, snapshot, others, menu, used, abandoned>>

CanLead == raft.role = "follower" /\ raft.term < menu.terms /\ ~ others.newer

(* raft_become_leader in the next term *)
BecomeLeader ==
    LET noop == [Entry("noop", NONE, << >>, 0, NONE) EXCEPT !.term = raft.term + 1]
    IN  /\ CanLead
        /\ raft' = [raft EXCEPT !.role = "leader", !.term = @ + 1, !.transferring = FALSE,
                                !.led = TRUE]
        /\ log' = Append(log, noop)
        /\ TransferLeaderComplete
        /\ others' = [others EXCEPT !.deposed = FALSE]
        /\ UNCHANGED <<data, cs, reads, snapshot, menu, used, abandoned>>

(* raft_become_follower: check-quorum, or a later term. The term itself is left to the
   next entry, since a follower with no leader does nothing that depends on it. *)
BecomeFollower ==
    /\ raft.role = "leader" /\ raft.term < menu.terms
    /\ raft' = [raft EXCEPT !.role = "follower"]
    /\ UNCHANGED <<log, data, cs, req, reads, transfer_req, snapshot, others, menu, used,
                   abandoned>>

(* The other nodes acknowledge heartbeats up to n. Those that have gone on to a later
   term acknowledge nothing that was sent after that. *)
Acknowledge(n) ==
    /\ raft.role = "leader" /\ n > raft.acked
    /\ others.deposed => n <= others.msg_id
    /\ raft' = [raft EXCEPT !.acked = n]
    /\ UNCHANGED <<log, data, cs, req, reads, transfer_req, snapshot, others, menu, used,
                   abandoned>>

(* The other nodes elect another leader, which then acknowledges writes. *)
Deposed ==
    /\ raft.role = "leader" /\ ~ others.deposed /\ raft.term < menu.terms /\ "get" \in menu.ops
    /\ others' = [others EXCEPT !.deposed = TRUE, !.msg_id = raft.msg_id, !.idx = Len(log)]
    /\ UNCHANGED <<raft, log, data, cs, req, reads, transfer_req, snapshot, menu, used,
                   abandoned>>

NewerWrite ==
    /\ others.deposed /\ ~ others.newer /\ raft.role = "leader"
    /\ others' = [others EXCEPT !.newer = TRUE]
    /\ UNCHANGED <<raft, log, data, cs, req, reads, transfer_req, snapshot, menu, used,
                   abandoned>>

(* The next entry of the leader of term t, after the entries l *)
NextEntries(t, l) ==
    LET e(type, session, cmds) ==
            [Entry(type, session, cmds, 0, NONE) EXCEPT !.term = t]
    IN  IF \A i \in DOMAIN l : l[i].term < t THEN {e("noop", NONE, << >>)}
        ELSE IF others.entries = menu.foreign THEN {}
        ELSE {e("normal", "other", <<cmd>>) : cmd \in menu.ops \cap {"push", "bpop", "watch"}}
             \cup {e("shard", NONE, << >>) : cmd \in menu.ops \cap {"shard"}}

(* The next leader's entries come with every write that was acknowledged before: a
   read in the queue is not late once this node hears of them. *)
Heard(e) ==
    [others EXCEPT !.deposed = FALSE, !.newer = FALSE,
                   !.entries = IF e.type = "noop" THEN @ ELSE @ + 1]
HeardReads == [i \in DOMAIN reads |-> [reads[i] EXCEPT !.late = FALSE]]

(* The leader of term t has the first n entries and sends e next, which is not known
   here. *)
Follows(t, n, e) ==
    /\ raft.role = "follower" /\ n \in others.committed .. Len(log)
    /\ t > raft.term \/ (t = raft.term /\ ~ raft.led)
    /\ e \in NextEntries(t, SubSeq(log, 1, n))
    /\ n < Len(log) => log[n + 1].term < t

(* raft_recv_appendentries: raft_accept_leader, and entries that conflict are deleted. *)
ReceiveEntry(t, n, e) ==
    /\ Follows(t, n, e)
    /\ raft' = [raft EXCEPT !.term = t, !.led = FALSE, !.transferring = FALSE]
    /\ log' = Append(SubSeq(log, 1, n), e)
    /\ EntryFree(n + 1 .. Len(log), {transfer_req})
    /\ transfer_req' = NONE
    /\ others' = Heard(e) /\ reads' = HeardReads
    /\ UNCHANGED <<data, snapshot, menu, used>>

(* raftLoadSnapshot: a snapshot of that leader instead. The log is reset, and the
   snapshot is loaded if blockedCommandsLoad can execute the blocked commands. *)
LoadSnapshot(t, n, e) ==
    LET l == Append([i \in 1 .. n |-> Detached(log[i])], e)
        d == SnapshotOf(Replay(l, Len(l)))
        free == {transfer_req} \cup (Attached(DOMAIN log) \ AttachedTo(DOMAIN log, "shard"))
        cleared == ClearAll(data)
    IN  /\ Follows(t, n, e) /\ "snapshot" \in menu.ops
        /\ raft' = [raft EXCEPT !.role = IF BlocksAgain(d) THEN "follower" ELSE "dead",
                        !.term = t, !.led = FALSE, !.transferring = FALSE, !.applied = Len(l)]
        /\ log' = l /\ data' = d /\ snapshot' = [idx |-> Len(l), d |-> d]
        /\ req' = RaftReqFree(free, req) /\ transfer_req' = NONE
        /\ cs' = CloseClients(cleared.close, BlockedReqReset(free, cs))
        /\ abandoned' = abandoned \cup AttachedTo(DOMAIN log, "shard") \cup cleared.drop
        /\ others' = [Heard(e) EXCEPT !.committed = Len(l)] /\ reads' = HeardReads
        /\ UNCHANGED <<menu, used>>

(* A snapshot of this node: rdbSaveSnapshotInfo in the child process *)
TakeSnapshot ==
    /\ raft.role # "dead" /\ raft.applied > snapshot.idx /\ "snapshot" \in menu.ops
    /\ snapshot' = [idx |-> raft.applied, d |-> SnapshotOf(data)]
    /\ UNCHANGED <<raft, log, data, cs, req, reads, transfer_req, others, menu, used,
                   abandoned>>

(* The process ends and starts again from the snapshot and the log. *)
Restart ==
    /\ raft.role # "dead" /\ raft.term < menu.terms /\ others.restarts < menu.restarts
    /\ raft' = [raft EXCEPT !.role = IF BlocksAgain(snapshot.d) THEN "follower" ELSE "dead",
                    !.applied = snapshot.idx, !.transferring = FALSE,
                    !.msg_id = 0, !.acked = 0]
    /\ log' = [i \in DOMAIN log |-> Detached(log[i])]
    /\ data' = snapshot.d
    /\ cs' = [c \in Client |-> ClientStateFree(FALSE)]
    /\ req' = [c \in Client |-> NoReq] /\ reads' = << >> /\ transfer_req' = NONE
    /\ abandoned' = {}
    /\ others' = [others EXCEPT !.restarts = @ + 1, !.deposed = FALSE]
    /\ UNCHANGED <<snapshot, menu, used>>

-----------------------------------------------------------------------------
(* The leader of the first term has applied the first entry of that term, and the
   clients are connected. *)
Init ==
    /\ raft = [role |-> "leader", term |-> 1, led |-> TRUE, applied |-> 1,
               transferring |-> FALSE, msg_id |-> 0, acked |-> 0]
    /\ log = <<[type |-> "noop", term |-> 1, session |-> NONE, cmds |-> << >>, idx |-> 0,
                req |-> NONE]>>
    /\ data = InitData
    /\ cs = [c \in Client |-> NewClientState] /\ req = [c \in Client |-> NoReq]
    /\ reads = << >> /\ transfer_req = NONE
    /\ snapshot = [idx |-> 0, d |-> InitData]
    /\ others = [deposed |-> FALSE, msg_id |-> 0, idx |-> 0, newer |-> FALSE,
                 committed |-> 1, entries |-> 0, restarts |-> 0]
    /\ menu \in Menus /\ used = 0 /\ abandoned = {}

Next ==
    \/ \E c \in Client :
          \/ Disconnect(c) \/ BlockedTimedOut(c)
          \/ Multi(c) \/ Discard(c) \/ Exec(c) \/ ShardGroupReplace(c) \/ TransferLeader(c)
          \/ \E d \in Client : ClientUnblock(c, d)
          \/ \E cmd \in menu.ops \cap {"push", "bpop", "watch", "unwatch", "get"} :
                Command(c, cmd) \/ Queue(c, cmd)
    \/ ProcessReadQueue \/ TransferTimeout
    \/ BecomeLeader \/ BecomeFollower \/ Deposed \/ NewerWrite \/ TakeSnapshot \/ Restart
    \/ \E t \in 1 .. menu.terms, n \in DOMAIN log :
          \E e \in NextEntries(t, SubSeq(log, 1, n)) :
             ReceiveEntry(t, n, e) \/ LoadSnapshot(t, n, e)
    \/ \E n \in DOMAIN log : Compact(n) \/ ApplyAll(n)
    \/ \E n \in 1 .. raft.msg_id : Acknowledge(n)

(* The event loop applies what is committed, runs timers and closes clients. There is
   a majority that elects a leader and lets it commit. Nothing makes a client send
   or stay. *)
Fairness ==
    /\ WF_vars(ProcessReadQueue) /\ WF_vars(TransferTimeout)
    /\ \A c \in Client : /\ WF_vars(BlockedTimedOut(c))
                         /\ WF_vars(cs[c].state = "closing" /\ Disconnect(c))
    /\ <>[](\E n \in DOMAIN log : CanApply(n)) => []<><<\E n \in DOMAIN log : ApplyAll(n)>>_vars
    /\ WF_vars(\E n \in 1 .. raft.msg_id : Acknowledge(n))
    /\ WF_vars(others.deposed /\ BecomeFollower)
    /\ <>[](CanLead \/ \E t \in 1 .. menu.terms, n \in DOMAIN log :
                             \E e \in NextEntries(t, SubSeq(log, 1, n)) : Follows(t, n, e))
            => []<><<\/ BecomeLeader
                     \/ \E t \in 1 .. menu.terms, n \in DOMAIN log :
                           \E e \in NextEntries(t, SubSeq(log, 1, n)) :
                              ReceiveEntry(t, n, e)>>_vars

Spec == Init /\ [][Next]_vars /\ Fairness

-----------------------------------------------------------------------------
Owners(c) ==
    Cardinality({i \in DOMAIN log : log[i].req = c})
    + Cardinality({i \in DOMAIN data.blocked : data.blocked[i].req = c})
    + Cardinality({i \in DOMAIN reads : reads[i].client = c})
    + (IF transfer_req = c THEN 1 ELSE 0)

(* A request that a client waits for is referred to by exactly one thing that will
   free it: an entry, a blocked command, the read queue or the transfer; abandoned
   ones by none, and these are blocking commands and changes of shard groups only.
   Nothing refers to a request that was freed, neither those nor the blocked_req of
   its client, and the library and RedisRaft agree on whether a transfer is under way.
   All this ends with the process if the assertion in blockedCommandsLoad fails
   (role "dead", see ReplicasAgree). *)
RequestHasOneOwner ==
    raft.role # "dead" =>
        /\ \A c \in Client :
              /\ Owners(c) = IF Waits(c) /\ c \notin abandoned THEN 1 ELSE 0
              /\ cs[c].blocked_req => Waits(c)
        /\ \A c \in abandoned : req[c].blocking \/ req[c].kind = "shard"
        /\ raft.transferring <=> transfer_req # NONE

Visible(d) ==
    [elems |-> d.elems, serves |-> d.serves, sessions |-> d.sessions \ ({"proxied"} \cup Proxy),
     blocked |-> [i \in DOMAIN d.blocked |-> [d.blocked[i] EXCEPT !.req = NONE]]]

(* A command of d is still blocked although the configuration of its slot has changed
   since. *)
ReconfiguredWhileBlocked(d) ==
    \E i \in DOMAIN d.blocked :
        \E j \in d.blocked[i].idx + 1 .. raft.applied : log[j].type = "shard"

(* The state of this node is what any node computes from the same entries, whether it
   has the requests, came there through a snapshot, or restarted. There are two
   exceptions. The session of a WATCH that another node has sent on has one id here
   and another one elsewhere. And where other nodes go on, a node that receives a
   snapshot or restarts may stop at the assertion in blockedCommandsLoad
   (blocked.c:134), but only if the entries have a shard group change after a command
   that is still blocked. *)
ReplicasAgree ==
    LET d == Replay(log, raft.applied)
    IN  IF raft.role = "dead" THEN ReconfiguredWhileBlocked(d) ELSE Visible(data) = Visible(d)

(* The index in a timeout entry is found in req->raft_idx when a timer fires, a client
   goes or another one unblocks it. It is the index of that client's blocking command,
   whatever was truncated since. *)
TimeoutHitsItsCommand ==
    \A j \in DOMAIN log : log[j].type = "timeout" =>
        /\ log[j].idx \in 1 .. j - 1
        /\ log[log[j].idx].cmds = <<"bpop">> /\ log[log[j].idx].session = log[j].session

(* raft_process_read_queue serves no read that arrived after a write was acknowledged
   by a leader that this node does not know of yet. *)
ReadsAreFresh ==
    \A i \in DOMAIN reads : raft.role = "leader" /\ CanRead(reads[i]) => ~ reads[i].late

(* The session of a client that is gone ends, by the entry its disconnection appends
   or by the first entry of the next leader; unless the entry was refused since the
   leader was to hand over, or the node stops at the assertion in blockedCommandsLoad
   (role "dead", see ReplicasAgree). *)
SessionsEnd ==
    \A c \in Client \ Proxy :
        cs[c].state = "gone" /\ c \in data.sessions
            ~> c \notin data.sessions \/ cs[c].watched \/ raft.role = "dead"

(* Every request is replied to, with these exceptions: it is abandoned; it is a blocking
   command that has been applied and is blocked, and that has no timeout or one that
   could not be appended; or the node stops at the assertion in blockedCommandsLoad
   (role "dead", see ReplicasAgree). *)
RequestsAreAnswered ==
    \A c \in Client :
        Waits(c) ~> \/ ~ Waits(c) \/ c \in abandoned \/ raft.role = "dead"
                    \/ c \in ReqsOf(data.blocked) /\ req[c].timer \in {"off", "refused"}
=============================================================================
