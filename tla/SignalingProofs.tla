--------------------------- MODULE SignalingProofs ---------------------------
(***************************************************************************)
(* What is proved of Signaling, for any number of calls, peers, sessions   *)
(* and keys.  A target is tested under the lock of online_peers and used   *)
(* under that of active_sessions; what makes it good at the second is that *)
(* the set of peers ever registered as agents only grows.                  *)
(***************************************************************************)
EXTENDS Signaling, TLAPS

\* Peers offered as agents, and targets that passed the test, are agents.
TargetsAreAgents ==
    /\ \A p \in Peers : IsPeerOnline(p) => p \in agents
    /\ \A t \in Tasks : request[t].stage \in {"inserting", "initiated"} => request[t].target \in agents

\* A call has a session exactly when it has returned one.
SessionsOfCalls ==
    \A t \in Tasks : request[t].session # Absent <=> request[t].stage = "initiated"

SignalingInv ==
    /\ TypeOK
    /\ TargetsAreAgents
    /\ SessionsOfCalls
    /\ KeyFollowsStatus
    /\ SessionLeadsToAgent
    /\ InitiatedSessionStays

-----------------------------------------------------------------------------
LEMMA SignalingInitFits == Init => SignalingInv
<1> SUFFICES ASSUME Init PROVE SignalingInv
  OBVIOUS
<1>1. TypeOK
  BY DEF Init, TypeOK, NoRequest, Request, Stages
<1>2. TargetsAreAgents /\ SessionsOfCalls
  BY DEF Init, TargetsAreAgents, SessionsOfCalls, NoRequest, IsPeerOnline
<1>3. KeyFollowsStatus /\ SessionLeadsToAgent
  BY DEF Init, KeyFollowsStatus, SessionLeadsToAgent
<1>4. InitiatedSessionStays
  BY DEF Init, InitiatedSessionStays, NoRequest
<1>5. QED
  BY <1>1, <1>2, <1>3, <1>4 DEF SignalingInv

LEMMA RegisterPeerFits ==
    ASSUME SignalingInv, NEW p \in Peers, NEW is_agent \in BOOLEAN, RegisterPeer(p, is_agent)
    PROVE  SignalingInv'
<1>1. /\ online_peers' = [online_peers EXCEPT ![p] = is_agent]
      /\ agents \subseteq agents' /\ agents' \subseteq Peers
      /\ UNCHANGED <<active_sessions, request>>
  BY DEF RegisterPeer, SignalingInv, TypeOK
<1>2. TypeOK'
  <2>1. online_peers' \in [Peers -> BOOLEAN \cup {Absent}]
    BY <1>1 DEF SignalingInv, TypeOK
  <2>2. QED
    BY <1>1, <2>1 DEF SignalingInv, TypeOK
<1>3. TargetsAreAgents'
  <2>1. \A q \in Peers : q # p => online_peers'[q] = online_peers[q]
    BY <1>1 DEF SignalingInv, TypeOK
  <2>2. is_agent = TRUE => p \in agents'
    BY DEF RegisterPeer
  <2>3. online_peers'[p] = is_agent
    BY <1>1 DEF SignalingInv, TypeOK
  <2>4. \A q \in Peers : IsPeerOnline(q)' => q \in agents'
    BY <1>1, <2>1, <2>2, <2>3, Zenon DEF SignalingInv, TargetsAreAgents, IsPeerOnline
  <2>5. QED
    BY <1>1, <2>4 DEF SignalingInv, TargetsAreAgents
<1>4. SessionsOfCalls' /\ KeyFollowsStatus' /\ InitiatedSessionStays'
  BY <1>1 DEF SignalingInv, SessionsOfCalls, KeyFollowsStatus, InitiatedSessionStays
<1>5. SessionLeadsToAgent'
  BY <1>1 DEF SignalingInv, SessionLeadsToAgent
<1>6. QED
  BY <1>2, <1>3, <1>4, <1>5 DEF SignalingInv

LEMMA InitiateCheckFits ==
    ASSUME SignalingInv, NEW t \in Tasks, NEW p \in Peers, InitiateCheck(t, p)
    PROVE  SignalingInv'
<1>1. UNCHANGED <<online_peers, active_sessions, agents>> /\ request[t] = NoRequest
  BY DEF InitiateCheck
<1>2. /\ request'[t].stage \in {"inserting", "refused"}
      /\ request'[t].stage = "inserting" => IsPeerOnline(p)
      /\ request'[t].target = p /\ request'[t].session = Absent
      /\ \A u \in Tasks : u # t => request'[u] = request[u]
  BY DEF InitiateCheck, SignalingInv, TypeOK
<1>3. request' \in [Tasks -> Request]
  BY DEF InitiateCheck, SignalingInv, TypeOK, Request, Stages
<1>4. TypeOK'
  BY <1>1, <1>3 DEF SignalingInv, TypeOK
<1>5. TargetsAreAgents'
  BY <1>1, <1>2 DEF SignalingInv, TargetsAreAgents, IsPeerOnline
<1>6. SessionsOfCalls'
  BY <1>2 DEF SignalingInv, SessionsOfCalls
<1>7. KeyFollowsStatus' /\ SessionLeadsToAgent'
  BY <1>1 DEF SignalingInv, KeyFollowsStatus, SessionLeadsToAgent
<1>8. InitiatedSessionStays'
  BY <1>1, <1>2 DEF SignalingInv, InitiatedSessionStays
<1>9. QED
  BY <1>4, <1>5, <1>6, <1>7, <1>8 DEF SignalingInv

\* The id is fresh, so no call has the session yet.
LEMMA InitiateInsertFits ==
    ASSUME SignalingInv, NEW t \in Tasks, NEW s \in SessionIds, InitiateInsert(t, s)
    PROVE  SignalingInv'
<1>1. /\ UNCHANGED <<online_peers, agents>>
      /\ request[t].stage = "inserting" /\ active_sessions[s] = Absent
      /\ request[t].target \in agents /\ agents \subseteq Peers
  BY DEF InitiateInsert, SignalingInv, TargetsAreAgents, TypeOK
<1> DEFINE session == [agent_device_id      |-> request[t].target,
                       agent_public_key_hex |-> Absent,
                       status               |-> "Initiated"]
<1>2. /\ session \in SignalingSession
      /\ session # Absent
      /\ session.agent_device_id = request[t].target
      /\ session.agent_public_key_hex = Absent /\ session.status = "Initiated"
  BY <1>1, SignalingAssumption DEF SignalingSession, SessionStatus
<1>3. /\ active_sessions' \in [SessionIds -> SignalingSession \cup {Absent}]
      /\ active_sessions'[s] = session
      /\ \A r \in SessionIds : r # s => active_sessions'[r] = active_sessions[r]
  BY <1>2 DEF InitiateInsert, SignalingInv, TypeOK
<1>4. /\ request'[t].stage = "initiated" /\ request'[t].session = s
      /\ request'[t].target = request[t].target
      /\ \A u \in Tasks : u # t => request'[u] = request[u]
  BY DEF InitiateInsert, SignalingInv, TypeOK
<1>5. request' \in [Tasks -> Request]
  BY <1>1 DEF InitiateInsert, SignalingInv, TypeOK, Request, Stages
<1>6. \A u \in Tasks : request[u].session # s
  BY <1>1, SignalingAssumption DEF SignalingInv, SessionsOfCalls, InitiatedSessionStays
<1> HIDE DEF session
<1>7. TypeOK'
  BY <1>1, <1>3, <1>5 DEF SignalingInv, TypeOK
<1>8. TargetsAreAgents'
  BY <1>1, <1>4 DEF SignalingInv, TargetsAreAgents, IsPeerOnline
<1>9. SessionsOfCalls'
  BY <1>4, SignalingAssumption DEF SignalingInv, SessionsOfCalls
<1>10. KeyFollowsStatus' /\ SessionLeadsToAgent'
  BY <1>1, <1>2, <1>3 DEF SignalingInv, KeyFollowsStatus, SessionLeadsToAgent
<1>11. InitiatedSessionStays'
  <2>1. ASSUME NEW u \in Tasks, request'[u].stage = "initiated"
        PROVE  /\ active_sessions'[request'[u].session] # Absent
               /\ active_sessions'[request'[u].session].agent_device_id = request'[u].target
    <3>1. CASE u = t
      BY <1>2, <1>3, <1>4, <3>1
    <3>2. CASE u # t
      <4>1. request[u].session \in SessionIds \ {s}
        BY <1>4, <1>6, <2>1, <3>2 DEF SignalingInv, SessionsOfCalls, TypeOK, Request
      <4>2. QED
        BY <1>3, <1>4, <2>1, <3>2, <4>1 DEF SignalingInv, InitiatedSessionStays
    <3>3. QED
      BY <3>1, <3>2
  <2>2. \A u, v \in Tasks :
            request'[u].session # Absent /\ request'[u].session = request'[v].session => u = v
    BY <1>4, <1>6 DEF SignalingInv, InitiatedSessionStays
  <2>3. QED
    BY <2>1, <2>2 DEF InitiatedSessionStays
<1>12. QED
  BY <1>7, <1>8, <1>9, <1>10, <1>11 DEF SignalingInv

LEMMA CancelFits ==
    ASSUME SignalingInv, NEW t \in Tasks, Cancel(t)
    PROVE  SignalingInv'
<1>1. UNCHANGED <<online_peers, active_sessions, agents>> /\ request[t].stage = "inserting"
  BY DEF Cancel
<1>2. /\ request'[t].stage = "cancelled" /\ request'[t].session = request[t].session
      /\ \A u \in Tasks : u # t => request'[u] = request[u]
      /\ request' \in [Tasks -> Request]
  BY DEF Cancel, SignalingInv, TypeOK, Request, Stages
<1>3. TypeOK' /\ TargetsAreAgents' /\ SessionsOfCalls'
  BY <1>1, <1>2 DEF SignalingInv, TypeOK, TargetsAreAgents, SessionsOfCalls, IsPeerOnline
<1>4. KeyFollowsStatus' /\ SessionLeadsToAgent'
  BY <1>1 DEF SignalingInv, KeyFollowsStatus, SessionLeadsToAgent
<1>5. InitiatedSessionStays'
  BY <1>1, <1>2 DEF SignalingInv, InitiatedSessionStays, SessionsOfCalls
<1>6. QED
  BY <1>3, <1>4, <1>5 DEF SignalingInv

\* Accepting and closing leave the target of a session alone.
LEMMA AnswerFits ==
    ASSUME SignalingInv, NEW s \in SessionIds,
           (\E key \in AgentKeys : AcceptSession(s, key)) \/ CloseSession(s)
    PROVE  SignalingInv'
<1>1. UNCHANGED <<online_peers, request, agents>>
  BY DEF AcceptSession, CloseSession
<1>2. CASE active_sessions' = active_sessions
  BY <1>1, <1>2 DEF SignalingInv, TypeOK, TargetsAreAgents, SessionsOfCalls, KeyFollowsStatus,
     SessionLeadsToAgent, InitiatedSessionStays, IsPeerOnline
<1>3. CASE active_sessions' # active_sessions
  <2>1. active_sessions[s] \in SignalingSession
    BY <1>3 DEF AcceptSession, CloseSession, SignalingInv, TypeOK
  <2>2. PICK new \in SignalingSession :
           /\ active_sessions' = [active_sessions EXCEPT ![s] = new]
           /\ new.agent_device_id = active_sessions[s].agent_device_id
           /\ new.status = "Active" => new.agent_public_key_hex # Absent
           /\ new.status # "Initiated"
    <3>1. CASE CloseSession(s)
      <4> DEFINE closed == [active_sessions[s] EXCEPT !.status = "Terminated"]
      <4>1. active_sessions' = [active_sessions EXCEPT ![s] = closed]
        BY <1>3, <3>1 DEF CloseSession
      <4>2. /\ closed \in SignalingSession /\ closed.status = "Terminated"
            /\ closed.agent_device_id = active_sessions[s].agent_device_id
        BY <2>1 DEF SignalingSession, SessionStatus
      <4> HIDE DEF closed
      <4>3. QED
        BY <4>1, <4>2
    <3>2. CASE \E key \in AgentKeys : AcceptSession(s, key)
      <4>1. PICK key \in AgentKeys : AcceptSession(s, key)
        BY <3>2
      <4> DEFINE accepted ==
            [active_sessions[s] EXCEPT !.agent_public_key_hex = key, !.status = "Active"]
      <4>2. active_sessions' = [active_sessions EXCEPT ![s] = accepted]
        BY <1>3, <4>1 DEF AcceptSession, SignalingInv, TypeOK
      <4>3. /\ accepted \in SignalingSession /\ accepted.status = "Active"
            /\ accepted.agent_device_id = active_sessions[s].agent_device_id
            /\ accepted.agent_public_key_hex # Absent
        BY <2>1, SignalingAssumption DEF SignalingSession, SessionStatus
      <4> HIDE DEF accepted
      <4>4. QED
        BY <4>2, <4>3
    <3>3. QED
      BY <3>1, <3>2
  <2>3. /\ active_sessions' \in [SessionIds -> SignalingSession \cup {Absent}]
        /\ \A r \in SessionIds : active_sessions'[r] = IF r = s THEN new ELSE active_sessions[r]
        /\ new # Absent /\ active_sessions[s] # Absent
    BY <2>1, <2>2, SignalingAssumption DEF SignalingInv, TypeOK
  <2>4. TypeOK' /\ TargetsAreAgents' /\ SessionsOfCalls'
    BY <1>1, <2>3 DEF SignalingInv, TypeOK, TargetsAreAgents, SessionsOfCalls, IsPeerOnline
  <2>5. KeyFollowsStatus' /\ SessionLeadsToAgent'
    BY <1>1, <2>2, <2>3 DEF SignalingInv, KeyFollowsStatus, SessionLeadsToAgent
  <2>6. \A t \in Tasks : request[t].stage = "initiated" => request[t].session \in SessionIds
    BY DEF SignalingInv, SessionsOfCalls, TypeOK, Request
  <2>7. InitiatedSessionStays'
    BY <1>1, <2>2, <2>3, <2>6 DEF SignalingInv, InitiatedSessionStays
  <2>8. QED
    BY <2>4, <2>5, <2>7 DEF SignalingInv
<1>4. QED
  BY <1>2, <1>3

LEMMA SignalingStepFits == SignalingInv /\ [Next]_sigVars => SignalingInv'
<1> SUFFICES ASSUME SignalingInv, [Next]_sigVars PROVE SignalingInv'
  OBVIOUS
<1>1. CASE UNCHANGED sigVars
  BY <1>1 DEF sigVars, SignalingInv, TypeOK, TargetsAreAgents, SessionsOfCalls, KeyFollowsStatus,
     SessionLeadsToAgent, InitiatedSessionStays, IsPeerOnline
<1>2. CASE Next
  BY <1>2, RegisterPeerFits, InitiateCheckFits, InitiateInsertFits, CancelFits, AnswerFits DEF Next
<1>3. QED
  BY <1>1, <1>2

-----------------------------------------------------------------------------
\* The inductive invariant of SignalingServer.
THEOREM SignalingInvHolds == Spec => []SignalingInv
<1>1. QED
  BY SignalingInitFits, SignalingStepFits, PTL DEF Spec

\* accept_session() and close_session() in any order keep key and status together.
THEOREM KeysFollow == Spec => []KeyFollowsStatus
<1>1. SignalingInv => KeyFollowsStatus
  BY DEF SignalingInv
<1>2. QED
  BY <1>1, SignalingInvHolds, PTL

\* Whatever registers or hangs up between the two locks of initiate_session(), the
\* session leads to an agent.
THEOREM SessionsLeadToAgents == Spec => []SessionLeadsToAgent
<1>1. SignalingInv => SessionLeadsToAgent
  BY DEF SignalingInv
<1>2. QED
  BY <1>1, SignalingInvHolds, PTL

\* What initiate_session() has returned stays in the table, and is returned once.
THEOREM SessionsStay == Spec => []InitiatedSessionStays
<1>1. SignalingInv => InitiatedSessionStays
  BY DEF SignalingInv
<1>2. QED
  BY <1>1, SignalingInvHolds, PTL

=============================================================================
