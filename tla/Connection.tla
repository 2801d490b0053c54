----------------------------- MODULE Connection -----------------------------
(***************************************************************************)
(* One connection to another node (src/src/connection.c) on its hiredis    *)
(* context (src/deps/hiredis/async.c), as operators on a record: what each *)
(* callback makes of a connection k. A node link belongs to a member of    *)
(* the cluster (src/src/node.c). The links of RAFT.CLUSTER JOIN            *)
(* (src/src/join.c), RAFT.SHARDGROUP LINK (src/src/cluster.c) and MIGRATE  *)
(* (src/src/migrate.c) serve one request (src/src/common.c). A shard link  *)
(* belongs to the shard group of another cluster (src/src/cluster.c).      *)
(*                                                                         *)
(* hiredis runs callbacks from callbacks: freeing a context calls back for *)
(* every reply that is still expected, and these callbacks free it again.  *)
(* All of this happens in one step of the event loop, and so it does here. *)
(***************************************************************************)
EXTENDS Integers, Sequences, SequencesExt

(* A hiredis context: REDIS_CONNECTED, REDIS_DISCONNECTING, REDIS_FREEING, and the
   commands whose replies are expected. authenticated is history. *)
NewContext ==
    [connected |-> FALSE, disconnecting |-> FALSE, freeing |-> FALSE, replies |-> << >>,
     authenticated |-> FALSE]
NoContext == [NewContext EXCEPT !.freeing = TRUE]
IsLive(k) == k.ctx # NoContext

(* ConnCreate. rc says whether conn->rc is set, auth whether there are a user name
   and a password. Of a node link: its id and the requests whose responses are
   pending. Of a link for a request: the position in the list of addresses and its
   length, and whether the last answer was final. Of a shard link: update_in_progress.
   History: lost, whether a context was left that nothing refers to; orphaned, whether
   the Raft library has dropped the node; answers, the replies to the request, or its
   move to the log; reused, whether the link goes on with a request that is freed. *)
Created(kind, auth, id, addrs) ==
    [kind |-> kind, auth |-> auth, id |-> id, state |-> "disconnected", terminating |-> FALSE,
     rc |-> FALSE, ctx |-> NoContext, pending |-> << >>,
     iter |-> 0, addrs |-> addrs, failed |-> FALSE, update_in_progress |-> FALSE,
     lost |-> FALSE, orphaned |-> FALSE, answers |-> 0, reused |-> FALSE]
NotCreated == [Created("none", FALSE, 0, 0) EXCEPT !.state = "none"]

ConnIsConnected(k) == k.state = "connected" /\ ~ k.terminating

(* Mutant of ConnIsIdle: a terminating connection is idle in every state. *)
IdleWhileResolving(k) ==
    k.state \in {"disconnected", "connect_error"}
        \/ (k.state \notin {"none", "freed"} /\ k.terminating)

ConnIsIdle(k) ==
    k.state \in {"disconnected", "connect_error"}
        \/ (k.state \in {"connecting", "connected"} /\ k.terminating)

ConnAsyncTerminate(k) == [k EXCEPT !.terminating = TRUE]

(* ConnFree and the free callback: the Node or the JoinLinkState goes with it. *)
ConnFree(k) == [k EXCEPT !.state = "freed", !.pending = << >>]

Command(k, cb) == [k EXCEPT !.ctx.replies = Append(@, cb)]
NodeAddPendingResponse(k, type) == [k EXCEPT !.pending = Append(@, type)]
NodeDismissPendingResponse(k) == [k EXCEPT !.pending = SubSeq(@, 2, Len(@))]

-----------------------------------------------------------------------------
(* Inside a callback redisAsyncFree() only flags the context. *)
MarkDisconnectedInCallback(k) ==
    [k EXCEPT !.state = "disconnected", !.rc = FALSE, !.ctx.freeing = @ \/ k.rc]
redisAsyncDisconnect(k) == [k EXCEPT !.ctx.disconnecting = TRUE]

(* connectionFailure. The connect callbacks do nothing if there is no connection. *)
ConnectionFailure(k) == [k EXCEPT !.state = "connect_error", !.rc = FALSE]

(* Mutant of NullReply: without a reply the handlers do not dismiss the response. *)
NullReplyKeepsPending(k, cb) ==
    LET marked == MarkDisconnectedInCallback(k)
    IN  CASE cb = "auth" -> ConnectionFailure(marked)
          [] cb = "add" -> redisAsyncDisconnect(marked)
          [] OTHER -> marked

(* What the callback cb does when it is called without a reply. transferKeysResponse
   answers and frees the request, but does not terminate the link. *)
NullReply(k, cb) ==
    LET marked == MarkDisconnectedInCallback(k)
    IN  CASE cb = "auth" -> ConnectionFailure(marked)
          [] cb \in {"raft", "proxy"} -> NodeDismissPendingResponse(marked)
          [] cb = "add" -> redisAsyncDisconnect(marked)
          [] cb = "import" ->
                 redisAsyncDisconnect([marked EXCEPT !.answers = @ + 1, !.reused = TRUE])
          [] cb \in {"get", "sync"} -> marked

(* Mutant of HandleDisconnected: the state is left alone. *)
DisconnectedKeepsState(k) == [k EXCEPT !.rc = FALSE]
HandleDisconnected(k) == [k EXCEPT !.state = "disconnected", !.rc = FALSE]

(* __redisAsyncFree, with connDataCleanupCallback at its end *)
AsyncFree(k) ==
    LET called == FoldLeft(NullReply, [k EXCEPT !.ctx.replies = << >>], k.ctx.replies)
        down == IF k.ctx.connected THEN HandleDisconnected(called) ELSE called
        clean == [down EXCEPT !.rc = FALSE, !.ctx = NoContext]
    IN  IF k.terminating THEN ConnFree(clean) ELSE clean

(* ConnMarkDisconnected outside of a callback *)
ConnMarkDisconnected(k) ==
    LET d == [k EXCEPT !.state = "disconnected"]
    IN  IF k.rc THEN [AsyncFree(d) EXCEPT !.rc = FALSE] ELSE d

-----------------------------------------------------------------------------
(* connectionSuccess with the connect callbacks handleNodeConnect, sendNodeAddRequest,
   linkSendRequest, transferKeys and sendShardGroupRequest *)
Request == [join |-> "add", link |-> "get", migrate |-> "import", shard |-> "sync"]
ConnectionSuccess(k) ==
    LET c == [k EXCEPT !.state = "connected"]
    IN  IF k.terminating THEN c
        ELSE IF k.kind = "node" THEN [c EXCEPT !.pending = << >>]
        ELSE Command(c, Request[k.kind])

(* __redisAsyncHandleConnect when the socket is connected: handleConnected with
   REDIS_OK, then the flag *)
HandleConnected(k) ==
    LET c == IF ~ k.auth THEN ConnectionSuccess(k)
             ELSE IF k.terminating THEN k
             ELSE Command(k, "auth")
    IN  [c EXCEPT !.ctx.connected = TRUE]

(* __redisAsyncHandleConnectFailure: handleConnected with REDIS_ERR, and the end of
   the context *)
HandleConnectFailure(k) == AsyncFree(ConnectionFailure(k))

(* handleAuth with a reply *)
HandleAuth(k, ok) ==
    IF ok THEN ConnectionSuccess([k EXCEPT !.ctx.authenticated = TRUE])
    ELSE ConnectionFailure(MarkDisconnectedInCallback(redisAsyncDisconnect(k)))

(* Mutant of HandleNodeAddResponse: the link is not terminated. *)
AddedNotTerminated(k, reply) ==
    LET next == CASE reply = "moved" -> [k EXCEPT !.addrs = @ + 1]
                  [] reply = "error" -> [k EXCEPT !.failed = TRUE]
                  [] reply = "ok" -> [k EXCEPT !.answers = @ + 1]
                  [] OTHER -> k
    IN  redisAsyncDisconnect(next)

(* handleNodeAddResponse with a reply; "retry" is CLUSTERDOWN, a MOVED to an address
   that is known, or a reply that makes no sense. *)
HandleNodeAddResponse(k, reply) ==
    LET next == CASE reply = "moved" -> [k EXCEPT !.addrs = @ + 1]
                  [] reply = "error" -> [k EXCEPT !.failed = TRUE]
                  [] reply = "ok" -> ConnAsyncTerminate([k EXCEPT !.answers = @ + 1])
                  [] OTHER -> k
    IN  redisAsyncDisconnect(next)

(* linkHandleResponse; "error" is a shard group that is not valid here, "retry" another
   error or a node that is not leader any more. *)
LinkHandleResponse(k, reply) ==
    CASE reply = "ok" -> ConnAsyncTerminate([k EXCEPT !.answers = @ + 1])
      [] reply = "moved" -> MarkDisconnectedInCallback([k EXCEPT !.addrs = @ + 1])
      [] reply = "error" -> MarkDisconnectedInCallback([k EXCEPT !.failed = TRUE])
      [] OTHER -> MarkDisconnectedInCallback(k)

(* transferKeysResponse with a reply, whatever it is *)
TransferKeysResponse(k) ==
    redisAsyncDisconnect(ConnAsyncTerminate([k EXCEPT !.answers = @ + 1]))

(* handleShardGroupResponse: a redirection and an error are followed by a new
   connection. Not modelled: the ShardGroup itself, to which the code writes here. It is
   freed when its link is told to terminate, and a reply that comes between that and
   the end of the link still finds the pointer. update_in_progress is kept with the
   connection, and no property is about the memory of the group. *)
HandleShardGroupResponse(k, ok) ==
    IF ok THEN [k EXCEPT !.update_in_progress = FALSE] ELSE MarkDisconnectedInCallback(k)

(* redisProcessCallbacks for one reply, to the oldest command *)
ProcessReply(k, reply) ==
    LET cb == Head(k.ctx.replies)
        shifted == [k EXCEPT !.ctx.replies = Tail(@)]
        ran == CASE cb = "auth" -> HandleAuth(shifted, reply = "ok")
                 [] cb = "add" -> HandleNodeAddResponse(shifted, reply)
                 [] cb = "get" -> LinkHandleResponse(shifted, reply)
                 [] cb = "import" -> TransferKeysResponse(shifted)
                 [] cb = "sync" -> HandleShardGroupResponse(shifted, reply = "ok")
                 [] OTHER -> NodeDismissPendingResponse(shifted)
    IN  IF ran.ctx.freeing \/ (ran.ctx.disconnecting /\ ran.ctx.replies = << >>)
        THEN AsyncFree(ran) ELSE ran

(* The socket reports an error or the end of the stream. *)
Disconnect(k) == AsyncFree(redisAsyncDisconnect(k))

-----------------------------------------------------------------------------
(* ConnConnect, up to the task for the thread pool *)
ConnConnect(k) == [k EXCEPT !.state = "resolving"]

(* Mutant of HandleResolved: a terminating connection stays as it is. *)
ResolvedTerminating(k, resolved, socket) ==
    IF k.terminating THEN k
    ELSE IF resolved /\ socket
    THEN [k EXCEPT !.state = "connecting", !.rc = TRUE, !.ctx = NewContext]
    ELSE [k EXCEPT !.state = "connect_error"]

(* handleResolved: whether a name was resolved, and a socket opened *)
HandleResolved(k, resolved, socket) ==
    LET old == IF k.rc THEN AsyncFree(k) ELSE k
    IN  IF k.terminating THEN [k EXCEPT !.state = "disconnected"]
        ELSE IF ~ resolved
        THEN LET e == [k EXCEPT !.state = "connect_error"]
             IN  IF k.rc THEN [AsyncFree(e) EXCEPT !.rc = FALSE] ELSE e
        ELSE IF ~ socket THEN [old EXCEPT !.state = "connect_error", !.rc = FALSE]
        ELSE [old EXCEPT !.state = "connecting", !.rc = TRUE, !.ctx = NewContext,
                         !.lost = @ \/ IsLive(old)]

(* Mutant of JoinLinkIdleCallback: after the last address comes the first one. *)
JoinWrapsAround(k, late) ==
    IF k.failed \/ late THEN ConnAsyncTerminate([k EXCEPT !.answers = @ + 1])
    ELSE ConnConnect([k EXCEPT !.iter = IF @ = k.addrs THEN 1 ELSE @ + 1])

(* joinLinkIdleCallback; late says that join_timeout has passed. *)
JoinLinkIdleCallback(k, late) ==
    IF k.failed \/ late \/ k.iter = k.addrs
    THEN ConnAsyncTerminate([k EXCEPT !.answers = @ + 1])
    ELSE ConnConnect([k EXCEPT !.iter = @ + 1])

(* nodeIdleCallback; active says that the Raft library has an active node with the
   id of the link. *)
NodeIdleCallback(k, active) == IF active THEN ConnConnect(k) ELSE k

(* establishShardGroupConn; due says that the node is leader and the group has not been
   updated recently. *)
EstablishShardGroupConn(k, due) ==
    IF due THEN ConnConnect([k EXCEPT !.update_in_progress = TRUE]) ELSE k

(* HandleIdleConnections for one connection *)
HandleIdle(k, active, late) ==
    IF ~ ConnIsIdle(k) THEN k
    ELSE IF k.terminating
    THEN IF k.rc THEN AsyncFree([k EXCEPT !.rc = FALSE]) ELSE ConnFree(k)
    ELSE IF k.kind = "node" THEN NodeIdleCallback(k, active)
    ELSE IF k.kind = "shard" THEN EstablishShardGroupConn(k, late)
    ELSE JoinLinkIdleCallback(k, late)

(* HandleNodeStates for one node; late says that the oldest response has timed out. *)
HandleNodeState(k, late) ==
    IF k.kind = "node" /\ ConnIsConnected(k) /\ k.pending # << >> /\ late
    THEN ConnMarkDisconnected(k) ELSE k
=============================================================================
