------------------------------ MODULE Signaling ------------------------------
(***************************************************************************)
(* The rendezvous service of services/signaling (SignalingServer): the     *)
(* peers that are online and the sessions between them, each map behind    *)
(* its own tokio RwLock.  Every guard is taken, used and dropped between   *)
(* two .awaits, so each use of a map is one step.  initiate_session() uses *)
(* both maps one after the other: between its two steps other requests     *)
(* run, and the task may be dropped (Cancel).                              *)
(*                                                                         *)
(* Left out: the client's device id and public key and the time stamp of a *)
(* session, which the service stores and never looks at.                   *)
(***************************************************************************)
CONSTANTS
    Tasks,          \* concurrent initiate_session() calls
    Peers,          \* device ids
    SessionIds,     \* rap-sess-<uuid>
    AgentKeys,      \* agent_public_key_hex
    Absent          \* no entry in a map, no key yet

VARIABLES
    online_peers,       \* SignalingServer::online_peers: is the peer an agent
    active_sessions,    \* SignalingServer::active_sessions
    request,            \* per task: <<stage, target agent, session>>
    agents              \* ghost: the peers ever registered as agents

sigVars == <<online_peers, active_sessions, request, agents>>

SessionStatus == {"Initiated", "Active", "Terminated"}

SignalingSession ==
    [agent_device_id      : Peers,
     agent_public_key_hex : AgentKeys \cup {Absent},
     status               : SessionStatus]

Stages == {"idle", "inserting", "initiated", "refused", "cancelled"}

Request == [stage : Stages, target : Peers \cup {Absent}, session : SessionIds \cup {Absent}]

NoRequest == [stage |-> "idle", target |-> Absent, session |-> Absent]

ASSUME SignalingAssumption ==
    /\ Absent \notin Peers \cup SessionIds \cup AgentKeys
    /\ Absent \notin SignalingSession

-----------------------------------------------------------------------------
Init ==
    /\ online_peers = [p \in Peers |-> Absent]
    /\ active_sessions = [s \in SessionIds |-> Absent]
    /\ request = [t \in Tasks |-> NoRequest]
    /\ agents = {}

RegisterPeer(p, is_agent) ==
    /\ online_peers' = [online_peers EXCEPT ![p] = is_agent]
    /\ agents' = IF is_agent THEN agents \cup {p} ELSE agents
    /\ UNCHANGED <<active_sessions, request>>

\* Mutant: any peer in the cache will do, viewers too.
IsPeerOnlineAnyKind(p) == online_peers[p] # Absent

\* is_peer_online(): unwrap_or(&false) turns an unknown peer into "offline".
IsPeerOnline(p) == online_peers[p] # Absent /\ online_peers[p] = TRUE

\* initiate_session(), the test of the target.
InitiateCheck(t, p) ==
    /\ request[t] = NoRequest
    /\ request' = [request EXCEPT ![t] =
                     [stage   |-> IF IsPeerOnline(p) THEN "inserting" ELSE "refused",
                      target  |-> p,
                      session |-> Absent]]
    /\ UNCHANGED <<online_peers, active_sessions, agents>>

\* Mutant: a new session starts out Active, before the agent has answered.
InitiateInsertActive(t, s) ==
    /\ request[t].stage = "inserting"
    /\ active_sessions[s] = Absent
    /\ active_sessions' = [active_sessions EXCEPT ![s] =
                             [agent_device_id      |-> request[t].target,
                              agent_public_key_hex |-> Absent,
                              status               |-> "Active"]]
    /\ request' = [request EXCEPT ![t] =
                     [stage |-> "initiated", target |-> request[t].target, session |-> s]]
    /\ UNCHANGED <<online_peers, agents>>

\* initiate_session(), the insertion under a fresh id.
InitiateInsert(t, s) ==
    /\ request[t].stage = "inserting"
    /\ active_sessions[s] = Absent
    /\ active_sessions' = [active_sessions EXCEPT ![s] =
                             [agent_device_id      |-> request[t].target,
                              agent_public_key_hex |-> Absent,
                              status               |-> "Initiated"]]
    /\ request' = [request EXCEPT ![t] =
                     [stage |-> "initiated", target |-> request[t].target, session |-> s]]
    /\ UNCHANGED <<online_peers, agents>>

\* The caller hangs up between the test and the insertion.
Cancel(t) ==
    /\ request[t].stage = "inserting"
    /\ request' = [request EXCEPT ![t].stage = "cancelled"]
    /\ UNCHANGED <<online_peers, active_sessions, agents>>

\* accept_session(), whatever the status of the session was; an unknown id
\* is an error and changes nothing.
AcceptSession(s, key) ==
    /\ active_sessions' =
         IF active_sessions[s] = Absent THEN active_sessions
         ELSE [active_sessions EXCEPT ![s].agent_public_key_hex = key,
                                      ![s].status = "Active"]
    /\ UNCHANGED <<online_peers, request, agents>>

\* Mutant: the session is taken out of the map instead of being marked.
CloseSessionRemoving(s) ==
    /\ active_sessions' = [active_sessions EXCEPT ![s] = Absent]
    /\ UNCHANGED <<online_peers, request, agents>>

CloseSession(s) ==
    /\ active_sessions' =
         IF active_sessions[s] = Absent THEN active_sessions
         ELSE [active_sessions EXCEPT ![s].status = "Terminated"]
    /\ UNCHANGED <<online_peers, request, agents>>

Next ==
    \/ \E p \in Peers, is_agent \in BOOLEAN : RegisterPeer(p, is_agent)
    \/ \E t \in Tasks, p \in Peers : InitiateCheck(t, p)
    \/ \E t \in Tasks, s \in SessionIds : InitiateInsert(t, s)
    \/ \E t \in Tasks : Cancel(t)
    \/ \E s \in SessionIds, key \in AgentKeys : AcceptSession(s, key)
    \/ \E s \in SessionIds : CloseSession(s)

Spec == Init /\ [][Next]_sigVars

-----------------------------------------------------------------------------
(***************************************************************************)
(* Properties.                                                             *)
(***************************************************************************)

\* Maps and requests keep their types.
TypeOK ==
    /\ online_peers \in [Peers -> BOOLEAN \cup {Absent}]
    /\ active_sessions \in [SessionIds -> SignalingSession \cup {Absent}]
    /\ request \in [Tasks -> Request]
    /\ agents \subseteq Peers

\* The key exchange follows the status: a session is Active only with the
\* agent's key in it, and an Initiated one has no key yet.
KeyFollowsStatus ==
    \A s \in SessionIds : active_sessions[s] # Absent =>
        /\ active_sessions[s].status = "Active" => active_sessions[s].agent_public_key_hex # Absent
        /\ active_sessions[s].status = "Initiated" => active_sessions[s].agent_public_key_hex = Absent

\* A session only ever leads to a device that was registered as an agent,
\* although the target is tested under one lock and used under another.
SessionLeadsToAgent ==
    \A s \in SessionIds :
        active_sessions[s] # Absent => active_sessions[s].agent_device_id \in agents

\* A session returned by initiate_session() stays retrievable under its id,
\* with the target it was asked for, whatever later calls do to it; no two
\* calls are given one session.
InitiatedSessionStays ==
    /\ \A t \in Tasks : request[t].stage = "initiated" =>
           /\ active_sessions[request[t].session] # Absent
           /\ active_sessions[request[t].session].agent_device_id = request[t].target
    /\ \A t, u \in Tasks :
           /\ request[t].session # Absent
           /\ request[t].session = request[u].session
           => t = u

=============================================================================
