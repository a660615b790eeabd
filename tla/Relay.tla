-------------------------------- MODULE Relay --------------------------------
(***************************************************************************)
(* The relay: RelayServer, which pairs the endpoints of a session and says *)
(* where a packet of one goes.  Registration and removal hold the tokio    *)
(* RwLock of the table for writing, for no longer than one step; routing   *)
(* and get_metrics() hold it for reading, so that any number of them are   *)
(* under way at once while they bump and read the two atomic counters.     *)
(* Relaxed ordering lets others see the two increments of a route, and the *)
(* two loads of get_metrics(), in either order.                            *)
(*                                                                         *)
(* Left out: created_at_ms, which is never read.                           *)
(***************************************************************************)
EXTENDS Integers, FiniteSetsExt, Functions

CONSTANTS
    Sessions,       \* session ids
    Endpoints,      \* socket addresses
    None,           \* Option::None
    RelayTasks,     \* tasks that call route_packet()
    Sizes,          \* lengths of packets
    MaxPackets      \* bound on the packets routed

ASSUME RelayAssumption ==
    /\ None \notin Endpoints \cup Sessions
    /\ Sizes \subseteq Nat /\ Sizes # {}
    /\ MaxPackets \in Nat
    /\ IsFiniteSet(RelayTasks)

VARIABLES
    sessions,       \* the table: a function on the sessions there are
    counter,        \* packets_relayed and bytes_relayed
    task,           \* per task: the route under way, Idle if there is none
    metrics,        \* what get_metrics() has read so far, and what it has yet to read
    routed          \* ghost: packets for which a target was found, and their bytes

relayVars == <<sessions, counter, task, metrics, routed>>

Counters == {"packets", "bytes"}

Idle == [session_id |-> None, sender |-> None, target |-> None, size |-> 0, todo |-> {}]

RelayInit ==
    /\ sessions = << >>
    /\ counter = [k \in Counters |-> 0]
    /\ task = [t \in RelayTasks |-> Idle]
    /\ metrics = [read |-> [k \in Counters |-> 0], since |-> [k \in Counters |-> 0], todo |-> {}]
    /\ routed = [k \in Counters |-> 0]

\* No task and no get_metrics() holds the lock for reading.
Writable == metrics.todo = {} /\ \A t \in RelayTasks : task[t] = Idle

-----------------------------------------------------------------------------
NoPeers == [client_endpoint |-> None, agent_endpoint |-> None]

Registered(session_id, endpoint, is_agent) ==
    LET pair == IF session_id \in DOMAIN sessions THEN sessions[session_id] ELSE NoPeers
        entry == IF is_agent THEN [pair EXCEPT !.agent_endpoint = endpoint]
                 ELSE [pair EXCEPT !.client_endpoint = endpoint]
    IN  [s \in DOMAIN sessions \cup {session_id} |->
            IF s = session_id THEN entry ELSE sessions[s]]

\* Mutant: the entry is changed without the write lock.
RegisterPeerUnlocked(session_id, endpoint, is_agent) ==
    /\ sessions' = Registered(session_id, endpoint, is_agent)
    /\ UNCHANGED <<counter, task, metrics, routed>>

RegisterPeer(session_id, endpoint, is_agent) ==
    /\ Writable
    /\ sessions' = Registered(session_id, endpoint, is_agent)
    /\ UNCHANGED <<counter, task, metrics, routed>>

RemoveSession(session_id) ==
    /\ Writable
    /\ sessions' = Restrict(sessions, DOMAIN sessions \ {session_id})
    /\ UNCHANGED <<counter, task, metrics, routed>>

\* The client is tried first: an endpoint registered as both counts as the client.
Target(pair, sender) ==
    IF sender = pair.client_endpoint THEN pair.agent_endpoint
    ELSE IF sender = pair.agent_endpoint THEN pair.client_endpoint
    ELSE IF pair.agent_endpoint # None THEN pair.agent_endpoint
    ELSE pair.client_endpoint

\* route_packet() up to the counting.  Without a session or a target it returns
\* None and leaves no trace.
RoutePacket(t, session_id, sender, size) ==
    /\ task[t] = Idle
    /\ routed["packets"] < MaxPackets
    /\ session_id \in DOMAIN sessions
    /\ LET target == Target(sessions[session_id], sender)
       IN  /\ target # None
           /\ task' = [task EXCEPT ![t] = [session_id |-> session_id, sender |-> sender,
                          target |-> target, size |-> size, todo |-> Counters]]
    /\ routed' = [routed EXCEPT !["packets"] = @ + 1, !["bytes"] = @ + size]
    /\ UNCHANGED <<sessions, counter, metrics>>

Amount(t, k) == IF k = "packets" THEN 1 ELSE task[t].size

\* Mutant: the byte counter is stored, not added to.
CountStoresBytes(t, k) ==
    /\ k \in task[t].todo
    /\ counter' = [counter EXCEPT ![k] = IF k = "packets" THEN @ + 1 ELSE task[t].size]
    /\ task' = [task EXCEPT ![t].todo = @ \ {k}]
    /\ UNCHANGED <<sessions, metrics, routed>>

\* fetch_add() on one of the counters.
Count(t, k) ==
    /\ k \in task[t].todo
    /\ counter' = [counter EXCEPT ![k] = @ + Amount(t, k)]
    /\ task' = [task EXCEPT ![t].todo = @ \ {k}]
    /\ UNCHANGED <<sessions, metrics, routed>>

\* The target is returned and the lock released.
RouteReturns(t) ==
    /\ task[t] # Idle /\ task[t].todo = {}
    /\ task' = [task EXCEPT ![t] = Idle]
    /\ UNCHANGED <<sessions, counter, metrics, routed>>

\* get_metrics() takes the lock; the number of sessions cannot change from here on.
GetMetrics ==
    /\ metrics.todo = {}
    /\ metrics' = [metrics EXCEPT !.todo = Counters, !.since = counter]
    /\ UNCHANGED <<sessions, counter, task, routed>>

LoadCounter(k) ==
    /\ k \in metrics.todo
    /\ metrics' = [metrics EXCEPT !.read[k] = counter[k], !.todo = @ \ {k}]
    /\ UNCHANGED <<sessions, counter, task, routed>>

RelayNext ==
    \/ \E s \in Sessions :
           \/ \E e \in Endpoints, is_agent \in BOOLEAN : RegisterPeer(s, e, is_agent)
           \/ RemoveSession(s)
           \/ \E t \in RelayTasks, e \in Endpoints, size \in Sizes : RoutePacket(t, s, e, size)
    \/ \E t \in RelayTasks : RouteReturns(t) \/ \E k \in Counters : Count(t, k)
    \/ GetMetrics
    \/ \E k \in Counters : LoadCounter(k)

RelaySpec == RelayInit /\ [][RelayNext]_relayVars

-----------------------------------------------------------------------------
(***************************************************************************)
(* Properties.                                                             *)
(***************************************************************************)

\* The target that route_packet() returns is, when it returns it, a peer of the
\* session the packet was sent in, and not its sender, unless both peers are at
\* one address: no registration or removal slips in between.
RoutedToPartner ==
    \A t \in RelayTasks : task[t] # Idle =>
        /\ task[t].session_id \in DOMAIN sessions
        /\ LET pair == sessions[task[t].session_id]
           IN  /\ task[t].target \in {pair.client_endpoint, pair.agent_endpoint}
               /\ task[t].target = task[t].sender => pair.client_endpoint = pair.agent_endpoint

\* The counters are never ahead of the packets routed and behind only by the
\* routes under way, and what get_metrics() returns was, for each of them, true at
\* some time during the call, though perhaps not for both at once.
CountersFollowRoutes ==
    \A k \in Counters :
        /\ counter[k] + MapThenSumSet(LAMBDA t : Amount(t, k), {t \in RelayTasks : k \in task[t].todo})
               = routed[k]
        /\ k \notin metrics.todo => metrics.read[k] \in metrics.since[k] .. routed[k]

=============================================================================
