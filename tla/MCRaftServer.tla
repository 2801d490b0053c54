---------------------------- MODULE MCRaftServer ----------------------------
(* RaftServer for TLC. The nodes are interchangeable. *)
EXTENDS RaftServer, TLC

Symmetry == Permutations(Node)

(* Responses that their receiver will ignore, now and later. A behaviour in which
   such a message is under way ends in the same states as the one in which it was
   lost when it was sent, so TLC need not explore it. *)
Ignored(m) ==
    LET i == m.to
    IN  \/ /\ m.type = "requestvote_resp" /\ m.term <= current_term[i]
           /\ \/ ~ m.granted
              \/ m.prevote /\ m.request_term <= current_term[i]
              \/ ~ m.prevote /\ ~ (state[i] = "candidate"
                                   /\ m.request_term = current_term[i])
        \/ /\ m.type \in {"appendentries_resp", "snapshot_resp"}
           /\ m.term <= current_term[i]
           /\ m.term < current_term[i] \/ state[i] # "leader"
        \/ /\ m.type = "appendentries_resp" /\ m.term = current_term[i]
           /\ IF m.success THEN m.current_idx <= match_idx[i][m.from]
                           ELSE m.current_idx < match_idx[i][m.from]
        \/ /\ m.type = "snapshot_resp" /\ m.term = current_term[i] /\ ~ m.success

NoneIgnored == \A m \in msgs : ~ Ignored(m)

-----------------------------------------------------------------------------
(* Starting points: every node has just been started in term t with a log that is
   all on disk. The bounds that are used up already limit what happens from there
   on. *)
StartedWith(logs, t, timers, c, s, h) ==
    /\ state = [i \in Node |-> "follower"]
    /\ current_term = [i \in Node |-> t] /\ voted_for = [i \in Node |-> NONE]
    /\ votes = [i \in Node |-> {}]
    /\ log = logs /\ durable = [i \in Node |-> Len(logs[i])] /\ written = durable
    /\ base = [i \in Node |-> 0] /\ snapshot_last_idx = [i \in Node |-> 0]
    /\ next_snapshot = [i \in Node |-> 0] /\ commit_idx = [i \in Node |-> 0]
    /\ next_idx = [i \in Node |-> [p \in Node |-> 1]]
    /\ match_idx = [i \in Node |-> [p \in Node |-> 0]]
    /\ msgs = {} /\ timeouts = timers /\ crashes = c /\ snapshots = s /\ heldback = h

(* The crash that is not to happen any more was a power failure. *)
NoCrash == [k \in 1 .. MaxCrashes |-> "power"]

(* All nodes have the same log. Two elections follow, with a crash of either kind
   when there is room for one entry only; or one election and the crash. *)
Common ==
    \/ StartedWith([i \in Node |-> <<2>>], 2, 1, NoCrash, MaxSnapshots, MaxHeldBack)
    \/ StartedWith([i \in Node |-> <<2, 2>>], 2, 1, << >>, MaxSnapshots, MaxHeldBack)
    \/ StartedWith([i \in Node |-> <<2>>], 2, 2, << >>, MaxSnapshots, MaxHeldBack)

(* After one common entry two nodes were elected, in terms 1 and 2, by the third
   one, and replicated nothing. Two more elections can follow. *)
Diverged ==
    \E a, b \in Node :
        /\ a # b
        /\ StartedWith([i \in Node |-> IF i = a THEN <<1, 1>> ELSE IF i = b THEN <<1, 2>>
                                       ELSE <<1>>], 2, 1, NoCrash, MaxSnapshots,
                       MaxHeldBack)

(* A leader and one follower have two entries that the other follower lacks. An
   election follows, then compaction, and either a crash and a send that backpressure
   holds back or another timeout. *)
Lagging ==
    \E a \in Node, h \in {0, MaxHeldBack} :
        StartedWith([i \in Node |-> IF i = a THEN << >> ELSE <<3, 3>>], 3,
                    IF h = 0 THEN 2 ELSE 1, IF h = 0 THEN << >> ELSE NoCrash, 0, h)

MCInit == Common \/ Diverged \/ Lagging
MCSpec == MCInit /\ [][Next]_vars
=============================================================================
