---------------------------- MODULE Connections -----------------------------
(***************************************************************************)
(* The connections of one RedisRaft process: the main thread with its      *)
(* event loop and the timer callHandleNodeStates (src/src/raft.c), the     *)
(* threads that resolve names (src/src/threadpool.c), the Raft library's   *)
(* list of nodes, whose user data are the node links, and the shard groups *)
(* of other clusters. What one callback does to one connection is in       *)
(* module Connection.                                                      *)
(*                                                                         *)
(* Abstractions: time (any request may have timed out), the content of     *)
(* requests and replies, and failures of memory allocation. While a log is *)
(* loaded there are no connections: handleLoadingState creates the first   *)
(* ones and leaves that state in one step.                                 *)
(***************************************************************************)
EXTENDS Connection, FiniteSets

CONSTANTS
    Link,        \* connections that may be created
    Casts,       \* the kind of every connection, in one behaviour
    NodeId,      \* ids of other nodes
    Thread,      \* the threads of the pool
    NONE,
    MaxPending,  \* bound: requests under way on a connection
    MaxAddrs     \* bound: addresses known to a link for a request

ASSUME LinkAssumption == NONE \notin Link

VARIABLES
    cast,         \* one of Casts
    conn,         \* the connections
    connections,  \* rr->connections, newest first
    raft_node,    \* per node id: the library's node, with its user data
    tasks,        \* pool->tasks
    thread,       \* per thread: waiting, checking, or the link that it resolves
    oneshots      \* handleResolved events: pairs of a link and a result

vars == <<cast, conn, connections, raft_node, tasks, thread, oneshots>>
pool == <<tasks, thread, oneshots>>

-----------------------------------------------------------------------------
(* The Raft library's nodes *)

NoNode == [member |-> FALSE, active |-> FALSE, udata |-> NONE]
MemberWith(c) == [member |-> TRUE, active |-> TRUE, udata |-> c]
Unused(kind) == {c \in Link : cast[c] = kind /\ conn[c].state = "none"}

(* NodeCreate for the ids of f, each with the link f[id], beside the connections old;
   the credentials are those configured at the time. *)
CreateNodes(f, old) ==
    LET new == {f[id] : id \in DOMAIN f}
        idOf(c) == CHOOSE id \in DOMAIN f : f[id] = c
    IN  /\ \E auth \in {a \in BOOLEAN : a => new # {}} :
              conn' = [c \in Link |->
                          IF c \in new THEN Created("node", auth, idOf(c), 0) ELSE old[c]]
        /\ connections' = SetToSeq(new) \o connections

Injections(S, T) == {f \in [S -> T] : \A a, b \in S : a # b => f[a] # f[b]}

(* An entry that adds a node: raftNotifyMembershipEvent(RAFT_MEMBERSHIP_ADD) *)
AddNode(id) ==
    /\ ~ raft_node[id].member
    /\ \E c \in Unused("node") :
          /\ CreateNodes([i \in {id} |-> c], conn)
          /\ raft_node' = [raft_node EXCEPT ![id] = MemberWith(c)]
    /\ UNCHANGED <<cast, pool>>

(* An entry that removes a node is appended, or truncated again. *)
SetActive(id) ==
    /\ raft_node[id].member
    /\ raft_node' = [raft_node EXCEPT ![id].active = ~ @]
    /\ UNCHANGED <<cast, conn, connections, pool>>

(* Mutant of RemoveNode: the link is kept. *)
RemoveKeepsLink(id) ==
    /\ raft_node[id].member
    /\ raft_node' = [raft_node EXCEPT ![id] = NoNode]
    /\ UNCHANGED <<cast, conn, connections, pool>>

(* ... or applied: raftNotifyMembershipEvent(RAFT_MEMBERSHIP_REMOVE) *)
RemoveNode(id) ==
    LET c == raft_node[id].udata
    IN  /\ raft_node[id].member
        /\ conn' = IF c = NONE THEN conn
                   ELSE [conn EXCEPT ![c] = ConnAsyncTerminate(@)]
        /\ raft_node' = [raft_node EXCEPT ![id] = NoNode]
        /\ UNCHANGED <<cast, connections, pool>>

(* A snapshot with the nodes S is received: raft_begin_load_snapshot frees the
   library's nodes, and configRaftFromSnapshotInfo creates them anew. *)
LoadSnapshot(S) ==
    /\ \E f \in Injections(S, Unused("node")) :
          /\ CreateNodes(f, [c \in Link |-> [conn[c] EXCEPT !.orphaned =
                    @ \/ \E id \in NodeId : raft_node[id].udata = c]])
          /\ raft_node' = [id \in NodeId |-> IF id \in S THEN MemberWith(f[id]) ELSE NoNode]
    /\ UNCHANGED <<cast, pool>>

(* ConnCreate for a link that is no node link *)
Create(c, n) ==
    /\ \E auth \in BOOLEAN : conn' = [conn EXCEPT ![c] = Created(cast[c], auth, 0, n)]
    /\ connections' = <<c>> \o connections
    /\ UNCHANGED <<cast, raft_node, pool>>

(* RAFT.CLUSTER JOIN with n addresses, RAFT.SHARDGROUP LINK with one, and MIGRATE to a
   shard group with n nodes *)
JoinCluster(c, n) == c \in Unused("join") /\ Create(c, n)
ShardGroupLink(c) == c \in Unused("link") /\ Create(c, 1)
MigrateKeys(c, n) == c \in Unused("migrate") /\ Create(c, n)

(* ShardingInfoAddShardGroup of another cluster's group, and ShardGroupFree *)
AddShardGroup(c) == c \in Unused("shard") /\ Create(c, 0)
ShardGroupFree(c) ==
    /\ conn[c].kind = "shard" /\ conn[c].state # "freed" /\ ~ conn[c].terminating
    /\ conn' = [conn EXCEPT ![c] = ConnAsyncTerminate(@)]
    /\ UNCHANGED <<cast, connections, raft_node, pool>>

-----------------------------------------------------------------------------
(* Requests *)

(* raftSendRequestVote, raftSendAppendEntries, raftSendTimeoutNow and
   raftSendSnapshot: type "raft"; ProxyCommand: type "proxy" *)
Send(id, type) ==
    LET c == raft_node[id].udata
        k == conn[c]
    IN  /\ c # NONE /\ ConnIsConnected(k) /\ ~ k.ctx.disconnecting
        /\ Len(k.ctx.replies) < MaxPending
        /\ conn' = [conn EXCEPT ![c] = NodeAddPendingResponse(Command(@, type), type)]
        /\ UNCHANGED <<cast, connections, raft_node, pool>>

(* ShardingPeriodicCall finds a group that has not been updated recently. *)
ShardingPeriodicCall(c) ==
    LET k == conn[c]
    IN  /\ k.kind = "shard" /\ ConnIsConnected(k) /\ ~ k.update_in_progress
        /\ Len(k.ctx.replies) < MaxPending
        /\ conn' = [conn EXCEPT ![c] = Command(@, "sync")]
        /\ UNCHANGED <<cast, connections, raft_node, pool>>

(* The event loop runs a callback of the connection c. *)
Event(c, k) ==
    /\ conn' = [conn EXCEPT ![c] = k]
    /\ connections' = IF k.state = "freed" THEN SelectSeq(connections, LAMBDA d : d # c)
                      ELSE connections
    /\ UNCHANGED <<cast, raft_node, pool>>

(* The first event of a socket: it is connected, or the attempt has failed. *)
Connect(c) ==
    /\ IsLive(conn[c]) /\ ~ conn[c].ctx.connected
    /\ Event(c, HandleConnected(conn[c])) \/ Event(c, HandleConnectFailure(conn[c]))

(* The other side closes the connection, or it breaks. *)
Drop(c) ==
    /\ IsLive(conn[c]) /\ conn[c].ctx.connected
    /\ Event(c, Disconnect(conn[c]))

(* A reply arrives. *)
Reply(c) ==
    /\ IsLive(conn[c]) /\ conn[c].ctx.replies # << >>
    /\ \E reply \in CASE Head(conn[c].ctx.replies) \in {"add", "get"} ->
                             {"ok", "error", "retry"} \cup
                                {r \in {"moved"} : conn[c].addrs < MaxAddrs}
                      [] OTHER -> {"ok", "error"} :
          Event(c, ProcessReply(conn[c], reply))

-----------------------------------------------------------------------------
Smaller(a, b) == IF a < b THEN a ELSE b

(* threadPoolAdd for each of the links in q: every signal wakes a thread that waits. *)
threadPoolAdd(q) ==
    LET waiting == {t \in Thread : thread[t] = "waiting"}
    IN  /\ tasks' = tasks \o q
        /\ \E woken \in SUBSET waiting :
              /\ Cardinality(woken) = Smaller(Len(q), Cardinality(waiting))
              /\ thread' = [t \in Thread |-> IF t \in woken THEN "checking" ELSE thread[t]]

(* The connections that look at the time *)
MayBeLate(k) == IF k.kind = "node" THEN k.pending # << >> ELSE ConnIsIdle(k)

(* HandleIdleConnections and HandleNodeStates, those in late having timed out *)
Handled(late) ==
    [c \in Link |->
        HandleNodeState(
            HandleIdle(conn[c], conn[c].kind = "node" /\ raft_node[conn[c].id].active, c \in late),
            c \in late)]

(* callHandleNodeStates: one round over all connections; those that it starts are
   queued and threads are woken. *)
Timer ==
    /\ UNCHANGED <<cast, raft_node, oneshots>>
    /\ \E handled \in {Handled(late) : late \in SUBSET {c \in Link : MayBeLate(conn[c])}} :
          /\ conn' = handled
          /\ connections' = SelectSeq(connections, LAMBDA c : handled[c].state # "freed")
          /\ threadPoolAdd(SelectSeq(connections, LAMBDA c :
                               conn[c].state # "resolving" /\ handled[c].state = "resolving"))

(* loop() of a thread: under the mutex it waits or takes the first task. *)
ThreadCheck(t) ==
    /\ thread[t] = "checking"
    /\ IF tasks = << >>
       THEN thread' = [thread EXCEPT ![t] = "waiting"] /\ UNCHANGED tasks
       ELSE thread' = [thread EXCEPT ![t] = Head(tasks)] /\ tasks' = Tail(tasks)
    /\ UNCHANGED <<cast, conn, connections, raft_node, oneshots>>

(* ... and then runs ConnGetAddrinfo. *)
ThreadRun(t) ==
    /\ thread[t] \in Link
    /\ \E resolved \in BOOLEAN : oneshots' = oneshots \cup {<<thread[t], resolved>>}
    /\ thread' = [thread EXCEPT ![t] = "checking"]
    /\ UNCHANGED <<cast, conn, connections, raft_node, tasks>>

(* The one-shot event of ConnGetAddrinfo *)
Resolved(c) ==
    \E e \in oneshots :
        /\ e[1] = c
        /\ \E socket \in BOOLEAN :
              conn' = [conn EXCEPT ![c] = HandleResolved(@, e[2], socket)]
        /\ oneshots' = oneshots \ {e}
        /\ UNCHANGED <<cast, connections, raft_node, tasks, thread>>
-----------------------------------------------------------------------------
Init ==
    /\ cast \in Casts
    /\ conn = [c \in Link |-> NotCreated] /\ connections = << >>
    /\ raft_node = [id \in NodeId |-> NoNode]
    /\ tasks = << >> /\ thread = [t \in Thread |-> "checking"] /\ oneshots = {}

Next ==
    \/ \E id \in NodeId : \/ AddNode(id) \/ SetActive(id) \/ RemoveNode(id)
                          \/ \E type \in {"raft", "proxy"} : Send(id, type)
    \/ \E S \in SUBSET NodeId : LoadSnapshot(S)
    \/ \E c \in Link, n \in 1 .. MaxAddrs : JoinCluster(c, n) \/ MigrateKeys(c, n)
    \/ \E c \in Link : \/ ShardGroupLink(c) \/ AddShardGroup(c) \/ ShardGroupFree(c)
                        \/ ShardingPeriodicCall(c)
    \/ \E c \in Link : Connect(c) \/ Drop(c) \/ Reply(c) \/ Resolved(c)
    \/ Timer
    \/ \E t \in Thread : ThreadCheck(t) \/ ThreadRun(t)

(* The event loop runs timers and one-shot events, the threads are scheduled, name
   resolution returns and the kernel gives up a connection attempt. Nothing makes
   another node reply. *)
Fairness ==
    /\ WF_vars(Timer)
    /\ \A t \in Thread : WF_vars(ThreadCheck(t) \/ ThreadRun(t))
    /\ \A c \in Link : WF_vars(Resolved(c) \/ Connect(c))

Spec == Init /\ [][Next]_vars /\ Fairness

-----------------------------------------------------------------------------
(* A connection is freed only when nothing will touch it again: no context calls
   back into it, no thread resolves its name, no handleResolved event is on its way,
   and the Raft library has no node with it. *)
FreedIsForgotten ==
    \A c \in Link : conn[c].state = "freed" =>
        /\ ~ IsLive(conn[c])
        /\ \A i \in DOMAIN tasks : tasks[i] # c
        /\ \A t \in Thread : thread[t] # c
        /\ \A e \in oneshots : e[1] # c
        /\ \A id \in NodeId : raft_node[id].udata # c
        /\ \A i \in DOMAIN connections : connections[i] # c

(* Requests are sent through ConnGetRedisCtx without a test: a connection that
   ConnIsConnected accepts has a context, and hiredis regards it as connected. No
   context is ever left behind without a connection that frees it. With credentials
   configured nothing is sent before the AUTH of that context was accepted. *)
ConnectedHasContext ==
    \A c \in Link :
        /\ ConnIsConnected(conn[c]) => conn[c].rc /\ conn[c].ctx.connected
        /\ conn[c].state \notin {"none", "freed"} => conn[c].rc = IsLive(conn[c])
        /\ ~ conn[c].lost
        /\ conn[c].auth /\ (\E i \in DOMAIN conn[c].ctx.replies :
                                conn[c].ctx.replies[i] # "auth")
              => conn[c].ctx.authenticated

(* NodeDismissPendingResponse takes the head of the list unseen. There is one pending
   response, of the same type and in the same order, for every reply that hiredis
   expects, across timeouts, disconnects and reconnects. And a shard group whose update
   is in progress, which ShardingPeriodicCall passes over, is not forgotten: as long as
   its link is connected, the reply is expected. *)
PendingMatchesReplies ==
    \A c \in Link :
        /\ conn[c].kind = "node" /\ conn[c].state # "freed" =>
              conn[c].pending = SelectSeq(conn[c].ctx.replies, LAMBDA cb : cb # "auth")
        /\ conn[c].update_in_progress /\ ConnIsConnected(conn[c]) =>
              \E i \in DOMAIN conn[c].ctx.replies : conn[c].ctx.replies[i] = "sync"

(* JOIN, LINK and MIGRATE are answered once: never twice, and not at all only while the
   link still works on them. The request is freed with its reply. The exception is a
   MIGRATE whose link breaks before RAFT.IMPORT is answered: the link goes on with it. *)
AnsweredOnce ==
    \A c \in Link : cast[c] \in {"join", "link", "migrate"} /\ ~ conn[c].reused =>
        /\ conn[c].answers <= 1
        /\ conn[c].terminating \/ conn[c].state = "freed" => conn[c].answers = 1

(* node.c: "We maintain a list of Nodes which correlate with the nodes maintained by
   the Raft library." Every node link that is not to be terminated belongs to the
   library's node with its id, unless a received snapshot has replaced the node. *)
NodesCorrelate ==
    \A c \in Link :
        /\ conn[c].kind = "node" /\ conn[c].state # "freed" /\ ~ conn[c].terminating
        /\ ~ conn[c].orphaned
        => raft_node[conn[c].id].udata = c

(* A connection that was told to terminate is freed, in whatever state it was and
   whether or not the other side ever answers. *)
TerminatedIsFreed == \A c \in Link : conn[c].terminating ~> conn[c].state = "freed"

(* A request to join, link or migrate is answered in the end, whatever fails on the way,
   unless a peer that has accepted the connection stays silent: join_timeout is only
   looked at while the link is idle. *)
RequestsEnd ==
    \A c \in Link :
        cast[c] \in {"join", "link", "migrate"} =>
            ((conn[c].state # "none" /\ []<>(conn[c].ctx.replies = << >>))
                ~> conn[c].answers > 0)
=============================================================================
