---------------------------- MODULE ControlPlane -----------------------------
(***************************************************************************)
(* The handlers of services/api-gateway over the three services they share *)
(* (AppState): Identity, Signaling and AuditLog.  A handler calls one      *)
(* service after the other, with an .await on each call, and no lock is    *)
(* kept from one call to the next: the steps of concurrent requests        *)
(* interleave, and a request whose client goes away is dropped at an       *)
(* .await with what it did so far left in place (HangUp).                  *)
(*                                                                         *)
(* Device ids are unguessable, so a caller names a device it has been told *)
(* of (Published) or one that does not exist (Unknown), as a target and in *)
(* an event that it posts to the audit log.                                *)
(*                                                                         *)
(* GET /api/v1/audit/logs and /verify and /health read only.               *)
(***************************************************************************)
EXTENDS Integers, Sequences

CONSTANTS
    Tasks,          \* concurrent requests
    DeviceIds, Tokens, SessionIds,
    Unknown,        \* a target or resource that is no device's id
    Absent,
    Bytes,          \* for each of Events, its fields one after the other
    MaxEvents       \* bound on the audit log: at least one event per task

VARIABLES
    devices, tokens, held, pc, local, response,     \* Identity
    online_peers, active_sessions, request, agents, \* Signaling
    chain, logged,                                  \* AuditLog
    handler         \* where each request is in its handler

cpVars ==
    <<devices, tokens, held, pc, local, response,
      online_peers, active_sessions, request, agents, chain, logged, handler>>

Targets == DeviceIds \cup {Unknown}

\* An audit event: type, resource, outcome and (in the details) the session.  The
\* actor is left out; "FILE_TRANSFER" stands for the types of callers' own.
Event(event_type, resource, status, session) ==
    [event_type |-> event_type, resource |-> resource, status |-> status, session |-> session]

Events ==
    [event_type : {"DEVICE_REGISTER", "SESSION_CONNECT", "FILE_TRANSFER"},
     resource   : Targets \cup {Absent},
     status     : {"SUCCESS", "FAILED"},
     session    : SessionIds \cup {Absent}]

Ident == INSTANCE Identity

Signal == INSTANCE Signaling WITH Peers <- Targets, AgentKeys <- {}

Audit == INSTANCE AuditLog WITH Data <- Events

ASSUME ControlPlaneAssumption ==
    /\ MaxEvents \in Nat
    /\ Unknown \notin DeviceIds
    /\ Absent \notin DeviceIds \cup {Unknown} \cup Tokens \cup SessionIds
    /\ Absent \notin Ident!Device
    /\ Absent \notin Signal!SignalingSession

identityState == <<devices, tokens, held, pc, local, response>>
signalingState == <<online_peers, active_sessions, request, agents>>
auditState == <<chain, logged>>

Stages ==
    {"new", "registering", "registered", "announced",
     "initiating", "initiated", "refused", "answered", "dropped"}

Go(t, from, to) ==
    /\ handler[t] = from
    /\ handler' = [handler EXCEPT ![t] = to]

\* Device ids callers know: from a response, or from the audit log.
Published ==
    {d \in DeviceIds :
        \/ \E t \in Tasks : handler[t] = "answered" /\ response[t].device_id = d
        \/ \E i \in 1 .. Len(chain) : chain[i].data.resource = d}

-----------------------------------------------------------------------------
Init ==
    /\ Ident!Init
    /\ Signal!Init
    /\ Audit!AuditInit
    /\ handler = [t \in Tasks |-> "new"]

(***************************************************************************)
(* register_device_handler()                                               *)
(***************************************************************************)
\* Mutant: the device is announced before its token is in the table.
RegisterDeviceAnnouncing(t, d, k) ==
    /\ Go(t, "new", "registering")
    /\ Ident!RegisterInsertDevice(t, d, k)
    /\ Signal!RegisterPeer(d, TRUE)
    /\ UNCHANGED auditState

RegisterDevice(t, d, k) ==
    /\ Go(t, "new", "registering")
    /\ Ident!RegisterInsertDevice(t, d, k)
    /\ UNCHANGED <<signalingState, auditState>>

RegisterToken(t) ==
    /\ Go(t, "registering", "registered")
    /\ Ident!RegisterInsertToken(t)
    /\ UNCHANGED <<signalingState, auditState>>

\* Mutant: the response goes out before the event is logged.
RegisterAnnounceAnswering(t) ==
    /\ Go(t, "registered", "answered")
    /\ Signal!RegisterPeer(response[t].device_id, TRUE)
    /\ UNCHANGED <<identityState, auditState>>

RegisterAnnounce(t) ==
    /\ Go(t, "registered", "announced")
    /\ Signal!RegisterPeer(response[t].device_id, TRUE)
    /\ UNCHANGED <<identityState, auditState>>

RegisterLog(t) ==
    /\ Go(t, "announced", "answered")
    /\ Audit!LogEvent(Event("DEVICE_REGISTER", response[t].device_id, "SUCCESS", Absent))
    /\ UNCHANGED <<identityState, signalingState>>

(***************************************************************************)
(* initiate_session_handler()                                              *)
(***************************************************************************)
InitiateCheck(t, target) ==
    /\ Go(t, "new", IF Signal!IsPeerOnline(target) THEN "initiating" ELSE "refused")
    /\ Signal!InitiateCheck(t, target)
    /\ UNCHANGED <<identityState, auditState>>

InitiateInsert(t, s) ==
    /\ Go(t, "initiating", "initiated")
    /\ Signal!InitiateInsert(t, s)
    /\ UNCHANGED <<identityState, auditState>>

InitiateLogSuccess(t) ==
    /\ Go(t, "initiated", "answered")
    /\ Audit!LogEvent(Event("SESSION_CONNECT", request[t].target, "SUCCESS", request[t].session))
    /\ UNCHANGED <<identityState, signalingState>>

\* Mutant: a refused request is logged and left without an answer.
InitiateLogFailureUnanswered(t) ==
    /\ Go(t, "refused", "refused")
    /\ Audit!LogEvent(Event("SESSION_CONNECT", request[t].target, "FAILED", Absent))
    /\ UNCHANGED <<identityState, signalingState>>

InitiateLogFailure(t) ==
    /\ Go(t, "refused", "answered")
    /\ Audit!LogEvent(Event("SESSION_CONNECT", request[t].target, "FAILED", Absent))
    /\ UNCHANGED <<identityState, signalingState>>

\* create_audit_log_handler(): the log takes any event a caller posts, one that
\* looks like the gateway's own included.
CreateAuditLog(t) ==
    /\ Go(t, "new", "answered")
    /\ \E event \in {e \in Events : e.resource \in Published \cup {Unknown}} :
          Audit!LogEvent(event)
    /\ UNCHANGED <<identityState, signalingState>>

\* The client is gone and its request is dropped at the .await it has reached.
HangUp(t) ==
    /\ handler[t] \in Stages \ {"new", "answered", "dropped"}
    /\ handler' = [handler EXCEPT ![t] = "dropped"]
    /\ IF handler[t] = "registering" THEN Ident!Cancel(t) ELSE UNCHANGED identityState
    /\ IF handler[t] = "initiating" THEN Signal!Cancel(t) ELSE UNCHANGED signalingState
    /\ UNCHANGED auditState

Finished ==
    /\ \A t \in Tasks : handler[t] \in {"answered", "dropped"}
    /\ UNCHANGED cpVars

Step(t) ==
    \/ RegisterToken(t)
    \/ RegisterAnnounce(t)
    \/ RegisterLog(t)
    \/ \E s \in SessionIds : InitiateInsert(t, s)
    \/ InitiateLogSuccess(t)
    \/ InitiateLogFailure(t)

Arrive(t) ==
    \/ \E d \in DeviceIds, k \in Tokens : RegisterDevice(t, d, k)
    \/ \E target \in Published \cup {Unknown} : InitiateCheck(t, target)
    \/ CreateAuditLog(t)

Next ==
    \/ \E t \in Tasks : Arrive(t) \/ Step(t) \/ HangUp(t)
    \/ Finished

Spec == Init /\ [][Next]_cpVars

\* The tokio runtime polls a task again when the lock it waits for is free.
FairSpec == Spec /\ \A t \in Tasks : WF_cpVars(Step(t))

-----------------------------------------------------------------------------
(***************************************************************************)
(* Properties.                                                             *)
(***************************************************************************)
Logged(event) == \E i \in 1 .. Len(chain) : chain[i].data = event

\* Each service keeps its types, and the handlers their stages.
TypeOK ==
    /\ Ident!TypeOK
    /\ Signal!TypeOK
    /\ Audit!AuditTypeOK
    /\ handler \in [Tasks -> Stages]

\* A device that the rendezvous offers as a target can log in: its token is in
\* the identity service's table.  So is the target of every session, although
\* the two services share no lock and a request may be dropped half way.
TargetCanAuthenticate ==
    LET offered == {p \in Targets : Signal!IsPeerOnline(p)}
        inUse   == {active_sessions[s].agent_device_id :
                       s \in {r \in SessionIds : active_sessions[r] # Absent}}
    IN  \A p \in offered \cup inUse :
            /\ p \in DeviceIds
            /\ devices[p] # Absent
            /\ tokens[devices[p].auth_token] = p

\* A caller that gets an answer finds it in the audit log.
AnsweredIsAudited ==
    \A t \in Tasks : handler[t] = "answered" =>
        /\ response[t] # Ident!NoPair =>
               Logged(Event("DEVICE_REGISTER", response[t].device_id, "SUCCESS", Absent))
        /\ request[t].stage = "initiated" =>
               Logged(Event("SESSION_CONNECT", request[t].target, "SUCCESS", request[t].session))
        /\ request[t].stage = "refused" =>
               Logged(Event("SESSION_CONNECT", request[t].target, "FAILED", Absent))

\* The log tells the story of a device in order: the first event that names it is
\* the gateway's own record of its registration, although that record is the
\* handler's last step and callers may post any event they like.
RegistrationComesFirst ==
    \A i \in 1 .. Len(chain) : chain[i].data.resource \in DeviceIds =>
        \E j \in 1 .. i :
            chain[j].data = Event("DEVICE_REGISTER", chain[i].data.resource, "SUCCESS", Absent)

\* Every request that is not dropped is answered.
RequestIsAnswered ==
    \A t \in Tasks : handler[t] \notin {"new", "answered", "dropped"}
        ~> handler[t] \in {"answered", "dropped"}

\* Every session is in the audit log once its request is over.
\* (Not so for a request that is dropped after the session was made.)
EverySessionIsAudited ==
    \A t \in Tasks :
        /\ handler[t] \in {"answered", "dropped"}
        /\ request[t].stage = "initiated"
        => Logged(Event("SESSION_CONNECT", request[t].target, "SUCCESS", request[t].session))

=============================================================================
