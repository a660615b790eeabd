------------------------- MODULE ControlPlaneProofs --------------------------
(***************************************************************************)
(* The three services stay in step, for any number of requests, devices    *)
(* and sessions.                                                           *)
(*                                                                         *)
(* TargetCanAuthenticate is not inductive: nothing in it says where the    *)
(* token of a device comes from, nor that no other registration overwrites *)
(* the entry.  IdInv does, through the pair of ids that each registration  *)
(* works on: the set Registered of the devices whose registration got      *)
(* through only grows.  LogInv adds what the audit log says of requests.   *)
(***************************************************************************)
EXTENDS ControlPlane, TLAPS

\* Request t has made up a device id and a token.
Issued(t) == local[t].device_id \in DeviceIds /\ local[t].auth_token \in Tokens

\* The devices whose registration has filled both tables of the identity service.
Registered ==
    {p \in DeviceIds : \E t \in Tasks :
        /\ Issued(t)
        /\ local[t].device_id = p
        /\ tokens[local[t].auth_token] = p}

\* What a request has done so far, by the place its handler has reached.
StageOf(t) ==
    /\ handler[t] \in {"new", "initiating", "initiated", "refused"} =>
           local[t] = Ident!NoPair /\ response[t] = Ident!NoPair
    /\ handler[t] \in {"new", "registering", "registered", "announced"} =>
           request[t] = Signal!NoRequest
    /\ handler[t] = "registering" => Issued(t) /\ response[t] = Ident!NoPair
    /\ handler[t] \in {"registered", "announced"} =>
           /\ Issued(t)
           /\ response[t] = local[t]
           /\ tokens[local[t].auth_token] = local[t].device_id
    /\ handler[t] = "initiating" => request[t].stage = "inserting"
    /\ handler[t] = "initiated" => request[t].stage = "initiated"
    /\ handler[t] = "refused" => request[t].stage = "refused"

StageInv == \A t \in Tasks : StageOf(t)

\* Ids are never shared, and the table of devices holds what was issued.
IssuedInv ==
    /\ \A t \in Tasks : Issued(t) =>
           devices[local[t].device_id] = [auth_token |-> local[t].auth_token, is_online |-> TRUE]
    /\ \A t, u \in Tasks : Issued(t) /\ Issued(u) /\ t # u =>
           /\ local[t].device_id # local[u].device_id
           /\ local[t].auth_token # local[u].auth_token

\* Whatever the rendezvous offers, is asked for or holds can log in.
TargetInv ==
    /\ \A p \in Targets : Signal!IsPeerOnline(p) => p \in Registered
    /\ \A t \in Tasks : request[t].stage \in {"inserting", "initiated"} =>
           request[t].target \in Targets /\ request[t].target \in Registered
    /\ \A s \in SessionIds : active_sessions[s] # Absent =>
           active_sessions[s].agent_device_id \in Registered

IdInv == TypeOK /\ StageInv /\ IssuedInv /\ TargetInv

\* The actions of Next, one by one.
ActionOf(t) ==
    \/ \E d \in DeviceIds, k \in Tokens : RegisterDevice(t, d, k)
    \/ RegisterToken(t)
    \/ RegisterAnnounce(t)
    \/ RegisterLog(t)
    \/ \E target \in Published \cup {Unknown} : InitiateCheck(t, target)
    \/ \E s \in SessionIds : InitiateInsert(t, s)
    \/ InitiateLogSuccess(t)
    \/ InitiateLogFailure(t)
    \/ CreateAuditLog(t)
    \/ HangUp(t)

\* Every step of the gateway is one of these or a stutter.
LEMMA NextIsActions ==
    [Next]_cpVars => (\E t \in Tasks : ActionOf(t)) \/ UNCHANGED cpVars
  BY DEF Next, Arrive, Step, Finished, ActionOf

\* Only the two steps of register_device() change the identity service.
LEMMA IdentityStep ==
    ASSUME NEW t \in Tasks, ActionOf(t)
    PROVE  \/ \E d \in DeviceIds, k \in Tokens : RegisterDevice(t, d, k)
           \/ RegisterToken(t)
           \/ UNCHANGED <<devices, tokens, local, response>>
<1>1. ASSUME UNCHANGED identityState PROVE UNCHANGED <<devices, tokens, local, response>>
  BY <1>1 DEF identityState
<1>2. HangUp(t) => UNCHANGED <<devices, tokens, local, response>>
  BY <1>1 DEF HangUp, Ident!Cancel
<1>3. QED
  BY <1>1, <1>2 DEF ActionOf, RegisterAnnounce, RegisterLog, InitiateCheck, InitiateInsert,
                    InitiateLogSuccess, InitiateLogFailure, CreateAuditLog

-----------------------------------------------------------------------------
(***************************************************************************)
(* Types.                                                                  *)
(***************************************************************************)

\* log_event() keeps the chain a chain of events.
LEMMA LogEventType ==
    ASSUME Audit!AuditTypeOK, NEW e \in Events, Audit!LogEvent(e)
    PROVE  /\ Audit!AuditTypeOK'
           /\ Len(chain') = Len(chain) + 1
           /\ chain'[Len(chain')].data = e
           /\ \A i \in 1 .. Len(chain) : chain'[i] = chain[i]
<1> DEFINE new == Audit!NewEvent(chain, e)
<1>1. Audit!HeadHash(chain) \in Audit!HashValue
  <2>1. CASE chain = << >>
    BY <2>1 DEF Audit!HeadHash, Audit!GenesisPrevHash, Audit!HashValue
  <2>2. CASE chain # << >>
    <3>1. chain[Len(chain)] \in Audit!AuditEvent
      BY <2>2 DEF Audit!AuditTypeOK
    <3>2. QED
      BY <2>2, <3>1 DEF Audit!HeadHash, Audit!AuditEvent
  <2>3. QED
    BY <2>1, <2>2
<1>2. Len(chain) \in Nat /\ chain \in Seq(Audit!AuditEvent) /\ logged \in Seq(Events)
  BY DEF Audit!AuditTypeOK
<1>3. Audit!ComputeHash(Len(chain), e, Audit!HeadHash(chain)) \in Audit!HashValue
  BY <1>1, <1>2 DEF Audit!ComputeHash, Audit!HashValue
<1>4. new \in Audit!AuditEvent /\ new.data = e
  BY <1>1, <1>2, <1>3 DEF Audit!NewEvent, Audit!AuditEvent
<1>5. chain' = Append(chain, new) /\ logged' = Append(logged, e)
  BY DEF Audit!LogEvent
<1> HIDE DEF new
<1>6. QED
  BY <1>2, <1>4, <1>5 DEF Audit!AuditTypeOK

\* What the gateway logs is an event of the log, whatever it names.
LEMMA EventType ==
    ASSUME NEW ty \in {"DEVICE_REGISTER", "SESSION_CONNECT", "FILE_TRANSFER"},
           NEW res \in Targets \cup {Absent},
           NEW st \in {"SUCCESS", "FAILED"},
           NEW s \in SessionIds \cup {Absent}
    PROVE  Event(ty, res, st, s) \in Events
  BY DEF Event, Events

\* Every step keeps the types of the three services.
LEMMA TypeStep == IdInv /\ (\E t \in Tasks : ActionOf(t)) => TypeOK'
<1> SUFFICES ASSUME TypeOK, StageInv, TargetInv, NEW t \in Tasks
             PROVE  /\ \A d \in DeviceIds, k \in Tokens : RegisterDevice(t, d, k) => TypeOK'
                    /\ RegisterToken(t) => TypeOK'
                    /\ RegisterAnnounce(t) => TypeOK'
                    /\ RegisterLog(t) => TypeOK'
                    /\ \A target \in Published \cup {Unknown} : InitiateCheck(t, target) => TypeOK'
                    /\ \A s \in SessionIds : InitiateInsert(t, s) => TypeOK'
                    /\ InitiateLogSuccess(t) => TypeOK'
                    /\ InitiateLogFailure(t) => TypeOK'
                    /\ CreateAuditLog(t) => TypeOK'
                    /\ HangUp(t) => TypeOK'
  BY DEF ActionOf, IdInv
<1>a. ASSUME UNCHANGED auditState PROVE Audit!AuditTypeOK'
  BY <1>a DEF TypeOK, Audit!AuditTypeOK, auditState
<1>i. ASSUME UNCHANGED identityState PROVE Ident!TypeOK'
  BY <1>i DEF TypeOK, Ident!TypeOK, identityState
<1>s. ASSUME UNCHANGED signalingState PROVE Signal!TypeOK'
  BY <1>s DEF TypeOK, Signal!TypeOK, signalingState
<1>h. ASSUME NEW from, NEW to \in Stages, Go(t, from, to)
      PROVE  handler' \in [Tasks -> Stages]
  BY <1>h DEF TypeOK, Go
<1>1. ASSUME NEW d \in DeviceIds, NEW k \in Tokens, RegisterDevice(t, d, k)
      PROVE  TypeOK'
  <2>1. Ident!TypeOK'
    BY <1>1 DEF RegisterDevice, TypeOK, Ident!TypeOK, Ident!RegisterInsertDevice,
                Ident!Device, Ident!Pair
  <2>2. handler' \in [Tasks -> Stages]
    BY <1>1, <1>h DEF RegisterDevice, Stages
  <2>3. QED
    BY <1>1, <1>a, <1>s, <2>1, <2>2 DEF RegisterDevice, TypeOK
<1>2. ASSUME RegisterToken(t)
      PROVE  TypeOK'
  <2>1. Issued(t)
    BY <1>2 DEF RegisterToken, StageInv, StageOf, Go
  <2>2. Ident!TypeOK'
    BY <1>2, <2>1 DEF RegisterToken, TypeOK, Ident!TypeOK, Ident!RegisterInsertToken, Issued
  <2>3. handler' \in [Tasks -> Stages]
    BY <1>2, <1>h DEF RegisterToken, Stages
  <2>4. QED
    BY <1>2, <1>a, <1>s, <2>2, <2>3 DEF RegisterToken, TypeOK
<1>3. ASSUME RegisterAnnounce(t)
      PROVE  TypeOK'
  <2>1. response[t].device_id \in Targets
    BY <1>3 DEF RegisterAnnounce, StageInv, StageOf, Go, Issued, Targets
  <2>2. Signal!TypeOK'
    BY <1>3, <2>1 DEF RegisterAnnounce, TypeOK, Signal!TypeOK, Signal!RegisterPeer
  <2>3. handler' \in [Tasks -> Stages]
    BY <1>3, <1>h DEF RegisterAnnounce, Stages
  <2>4. QED
    BY <1>3, <1>a, <1>i, <2>2, <2>3 DEF RegisterAnnounce, TypeOK
<1>4. ASSUME RegisterLog(t)
      PROVE  TypeOK'
  <2>1. response[t].device_id \in Targets
    BY <1>4 DEF RegisterLog, StageInv, StageOf, Go, Issued, Targets
  <2>2. Event("DEVICE_REGISTER", response[t].device_id, "SUCCESS", Absent) \in Events
    BY <2>1, EventType
  <2>3. Audit!AuditTypeOK'
    BY <1>4, <2>2, LogEventType DEF RegisterLog, TypeOK
  <2>4. handler' \in [Tasks -> Stages]
    BY <1>4, <1>h DEF RegisterLog, Stages
  <2>5. QED
    BY <1>4, <1>i, <1>s, <2>3, <2>4 DEF RegisterLog, TypeOK
<1>5. ASSUME NEW target \in Published \cup {Unknown}, InitiateCheck(t, target)
      PROVE  TypeOK'
  <2>1. target \in Targets
    BY DEF Published, Targets
  <2>2. Signal!TypeOK'
    BY <1>5, <2>1 DEF InitiateCheck, TypeOK, Signal!TypeOK, Signal!InitiateCheck,
                      Signal!Request, Signal!Stages
  <2>3. handler' \in [Tasks -> Stages]
    BY <1>5, <1>h DEF InitiateCheck, Stages
  <2>4. QED
    BY <1>5, <1>a, <1>i, <2>2, <2>3 DEF InitiateCheck, TypeOK
<1>6. ASSUME NEW s \in SessionIds, InitiateInsert(t, s)
      PROVE  TypeOK'
  <2>1. request[t].target \in Targets
    BY <1>6 DEF InitiateInsert, Signal!InitiateInsert, TargetInv
  <2>2. Signal!TypeOK'
    <3>1. request' \in [Tasks -> Signal!Request]
      BY <1>6, <2>1 DEF InitiateInsert, TypeOK, Signal!TypeOK, Signal!InitiateInsert,
                        Signal!Request, Signal!Stages
    <3>2. active_sessions' \in [SessionIds -> Signal!SignalingSession \cup {Absent}]
      BY <1>6, <2>1 DEF InitiateInsert, TypeOK, Signal!TypeOK, Signal!InitiateInsert,
                        Signal!SignalingSession, Signal!SessionStatus
    <3>3. QED
      BY <1>6, <3>1, <3>2 DEF InitiateInsert, TypeOK, Signal!TypeOK, Signal!InitiateInsert
  <2>3. handler' \in [Tasks -> Stages]
    BY <1>6, <1>h DEF InitiateInsert, Stages
  <2>4. QED
    BY <1>6, <1>a, <1>i, <2>2, <2>3 DEF InitiateInsert, TypeOK
<1>7. ASSUME InitiateLogSuccess(t)
      PROVE  TypeOK'
  <2>1. /\ request[t].target \in Targets \cup {Absent}
        /\ request[t].session \in SessionIds \cup {Absent}
    BY DEF TypeOK, Signal!TypeOK, Signal!Request
  <2>2. Event("SESSION_CONNECT", request[t].target, "SUCCESS", request[t].session) \in Events
    BY <2>1, EventType
  <2>3. Audit!AuditTypeOK'
    BY <1>7, <2>2, LogEventType DEF InitiateLogSuccess, TypeOK
  <2>4. handler' \in [Tasks -> Stages]
    BY <1>7, <1>h DEF InitiateLogSuccess, Stages
  <2>5. QED
    BY <1>7, <1>i, <1>s, <2>3, <2>4 DEF InitiateLogSuccess, TypeOK
<1>8. ASSUME InitiateLogFailure(t)
      PROVE  TypeOK'
  <2>1. request[t].target \in Targets \cup {Absent}
    BY DEF TypeOK, Signal!TypeOK, Signal!Request
  <2>2. Event("SESSION_CONNECT", request[t].target, "FAILED", Absent) \in Events
    BY <2>1, EventType
  <2>3. Audit!AuditTypeOK'
    BY <1>8, <2>2, LogEventType DEF InitiateLogFailure, TypeOK
  <2>4. handler' \in [Tasks -> Stages]
    BY <1>8, <1>h DEF InitiateLogFailure, Stages
  <2>5. QED
    BY <1>8, <1>i, <1>s, <2>3, <2>4 DEF InitiateLogFailure, TypeOK
<1>9. ASSUME CreateAuditLog(t)
      PROVE  TypeOK'
  <2>1. PICK e \in Events : Audit!LogEvent(e)
    BY <1>9 DEF CreateAuditLog
  <2>3. Audit!AuditTypeOK'
    BY <2>1, LogEventType DEF TypeOK
  <2>4. handler' \in [Tasks -> Stages]
    BY <1>9, <1>h DEF CreateAuditLog, Stages
  <2>5. QED
    BY <1>9, <1>i, <1>s, <2>3, <2>4 DEF CreateAuditLog, TypeOK
<1>10. ASSUME HangUp(t)
       PROVE  TypeOK'
  <2>1. Ident!TypeOK'
    <3>1. CASE handler[t] = "registering"
      BY <1>10, <3>1 DEF HangUp, TypeOK, Ident!TypeOK, Ident!Cancel
    <3>2. CASE handler[t] # "registering"
      BY <1>10, <1>i, <3>2 DEF HangUp
    <3>3. QED
      BY <3>1, <3>2
  <2>2. Signal!TypeOK'
    <3>1. CASE handler[t] = "initiating"
      BY <1>10, <3>1 DEF HangUp, TypeOK, Signal!TypeOK, Signal!Cancel, Signal!Request, Signal!Stages
    <3>2. CASE handler[t] # "initiating"
      BY <1>10, <1>s, <3>2 DEF HangUp
    <3>3. QED
      BY <3>1, <3>2
  <2>3. handler' \in [Tasks -> Stages]
    BY <1>10 DEF HangUp, TypeOK, Stages
  <2>4. QED
    BY <1>10, <1>a, <2>1, <2>2, <2>3 DEF HangUp, TypeOK
<1>11. QED
  BY <1>1, <1>2, <1>3, <1>4, <1>5, <1>6, <1>7, <1>8, <1>9, <1>10

-----------------------------------------------------------------------------
(***************************************************************************)
(* Identities and targets.                                                 *)
(***************************************************************************)

\* The two ids that a registration makes up are its own, and no step but its
\* own two steps touches them: what can log in goes on being able to.
LEMMA RegisteredGrows ==
    ASSUME IdInv, NEW t \in Tasks, ActionOf(t), NEW p \in Registered
    PROVE  p \in Registered'
<1>1. PICK u \in Tasks : Issued(u) /\ local[u].device_id = p /\ tokens[local[u].auth_token] = p
  BY DEF Registered
<1>t. /\ tokens \in [Tokens -> DeviceIds \cup {Absent}]
      /\ local \in [Tasks -> Ident!Pair]
  BY DEF IdInv, TypeOK, Ident!TypeOK
<1>2. CASE UNCHANGED <<devices, tokens, local, response>>
  BY <1>1, <1>2 DEF Registered, Issued
<1>3. ASSUME NEW d \in DeviceIds, NEW k \in Tokens, RegisterDevice(t, d, k)
      PROVE  p \in Registered'
  <2>1. u # t
    BY <1>1, <1>3, ControlPlaneAssumption
       DEF RegisterDevice, Go, IdInv, StageInv, StageOf, Issued, Ident!NoPair
  <2>2. local'[u] = local[u] /\ tokens' = tokens
    BY <1>3, <1>t, <2>1 DEF RegisterDevice, Ident!RegisterInsertDevice
  <2>3. QED
    BY <1>1, <2>2 DEF Registered, Issued
<1>4. CASE RegisterToken(t)
  <2>1. Issued(t)
    BY <1>4 DEF RegisterToken, Go, IdInv, StageInv, StageOf
  <2>2. local' = local
    BY <1>4 DEF RegisterToken, Ident!RegisterInsertToken
  <2>3. tokens' = [tokens EXCEPT ![local[t].auth_token] = local[t].device_id]
    BY <1>4 DEF RegisterToken, Ident!RegisterInsertToken
  <2>4. u # t => local[u].auth_token # local[t].auth_token
    BY <1>1, <2>1 DEF IdInv, IssuedInv
  <2>5. tokens'[local[u].auth_token] = p
    BY <1>1, <1>t, <2>1, <2>3, <2>4 DEF Issued
  <2>6. QED
    BY <1>1, <2>2, <2>5 DEF Registered, Issued
<1>5. QED
  BY <1>2, <1>3, <1>4, IdentityStep

\* The ids issued to two requests stay apart, in the table and from each other.
LEMMA IssuedStep ==
    ASSUME IdInv, NEW t \in Tasks, ActionOf(t)
    PROVE  IssuedInv'
<1>t. /\ devices \in [DeviceIds -> Ident!Device \cup {Absent}]
      /\ local \in [Tasks -> Ident!Pair]
  BY DEF IdInv, TypeOK, Ident!TypeOK
<1>1. CASE UNCHANGED <<devices, tokens, local, response>>
  BY <1>1 DEF IdInv, IssuedInv, Issued
<1>2. CASE RegisterToken(t)
  BY <1>2 DEF IdInv, IssuedInv, Issued, RegisterToken, Ident!RegisterInsertToken
<1>3. ASSUME NEW d \in DeviceIds, NEW k \in Tokens, RegisterDevice(t, d, k)
      PROVE  IssuedInv'
  <2>1. /\ devices' = [devices EXCEPT ![d] = [auth_token |-> k, is_online |-> TRUE]]
        /\ local' = [local EXCEPT ![t] = [device_id |-> d, auth_token |-> k]]
        /\ \A u \in Tasks : local[u].device_id # d /\ local[u].auth_token # k
    BY <1>3 DEF RegisterDevice, Ident!RegisterInsertDevice, Ident!FreshDevice, Ident!FreshToken
  <2>2. \A u \in Tasks : u # t => local'[u] = local[u]
    BY <1>t, <2>1
  <2>3. local'[t].device_id = d /\ local'[t].auth_token = k
    BY <1>t, <2>1
  <2>4. ASSUME NEW u \in Tasks, Issued(u)'
        PROVE  devices'[local'[u].device_id] =
                   [auth_token |-> local'[u].auth_token, is_online |-> TRUE]
    <3>1. CASE u = t
      BY <1>t, <2>1, <2>3, <3>1
    <3>2. CASE u # t
      BY <1>t, <2>1, <2>2, <2>4, <3>2 DEF IdInv, IssuedInv, Issued
    <3>3. QED
      BY <3>1, <3>2
  <2>5. ASSUME NEW u \in Tasks, NEW v \in Tasks, Issued(u)', Issued(v)', u # v
        PROVE  /\ local'[u].device_id # local'[v].device_id
               /\ local'[u].auth_token # local'[v].auth_token
    <3>1. CASE u # t /\ v # t
      BY <2>2, <2>5, <3>1 DEF IdInv, IssuedInv, Issued
    <3>2. CASE u = t \/ v = t
      BY <2>1, <2>2, <2>3, <2>5, <3>2
    <3>3. QED
      BY <3>1, <3>2
  <2>6. QED
    BY <2>4, <2>5 DEF IssuedInv
<1>4. QED
  BY <1>1, <1>2, <1>3, IdentityStep

\* A step of one request leaves what another one has done as it was.
LEMMA OthersStep ==
    ASSUME IdInv, NEW t \in Tasks, ActionOf(t), NEW u \in Tasks, u # t
    PROVE  /\ handler'[u] = handler[u]
           /\ local'[u] = local[u]
           /\ response'[u] = response[u]
           /\ request'[u] = request[u]
           /\ Issued(u) => \/ tokens'[local[u].auth_token] = tokens[local[u].auth_token]
                          \/ tokens'[local[u].auth_token] = local[u].device_id
<1>t. /\ tokens \in [Tokens -> DeviceIds \cup {Absent}]
      /\ local \in [Tasks -> Ident!Pair] /\ response \in [Tasks -> Ident!Pair]
      /\ request \in [Tasks -> Signal!Request] /\ handler \in [Tasks -> Stages]
  BY DEF IdInv, TypeOK, Ident!TypeOK, Signal!TypeOK
<1>1. handler'[u] = handler[u]
  BY <1>t DEF ActionOf, Go, RegisterDevice, RegisterToken, RegisterAnnounce, RegisterLog,
              InitiateCheck, InitiateInsert, InitiateLogSuccess, InitiateLogFailure,
              CreateAuditLog, HangUp
<1>2. request'[u] = request[u]
  <2>1. UNCHANGED signalingState => request' = request
    BY DEF signalingState
  <2>2. HangUp(t) => request'[u] = request[u]
    BY <1>t, <2>1 DEF HangUp, Signal!Cancel
  <2>3. RegisterAnnounce(t) => request' = request
    BY DEF RegisterAnnounce, Signal!RegisterPeer
  <2>4. ASSUME NEW p, InitiateCheck(t, p) PROVE request'[u] = request[u]
    BY <1>t, <2>4 DEF InitiateCheck, Signal!InitiateCheck
  <2>5. ASSUME NEW s, InitiateInsert(t, s) PROVE request'[u] = request[u]
    BY <1>t, <2>5 DEF InitiateInsert, Signal!InitiateInsert
  <2>6. QED
    BY <2>1, <2>2, <2>3, <2>4, <2>5
       DEF ActionOf, RegisterDevice, RegisterToken, RegisterLog, InitiateLogSuccess,
           InitiateLogFailure, CreateAuditLog
<1>3. CASE UNCHANGED <<devices, tokens, local, response>>
  BY <1>1, <1>2, <1>3
<1>4. ASSUME NEW d \in DeviceIds, NEW k \in Tokens, RegisterDevice(t, d, k)
      PROVE  local'[u] = local[u] /\ response' = response /\ tokens' = tokens
  BY <1>4, <1>t DEF RegisterDevice, Ident!RegisterInsertDevice
<1>5. CASE RegisterToken(t)
  <2>1. /\ tokens' = [tokens EXCEPT ![local[t].auth_token] = local[t].device_id]
        /\ response' = [response EXCEPT ![t] = local[t]]
        /\ local' = local
    BY <1>5 DEF RegisterToken, Ident!RegisterInsertToken
  <2>2. Issued(t)
    BY <1>5 DEF RegisterToken, Go, IdInv, StageInv, StageOf
  <2>3. Issued(u) => tokens'[local[u].auth_token] = tokens[local[u].auth_token]
    BY <1>t, <2>1, <2>2 DEF IdInv, IssuedInv, Issued
  <2>4. QED
    BY <1>1, <1>2, <1>t, <2>1, <2>3
<1>6. QED
  BY <1>1, <1>2, <1>3, <1>4, <1>5, IdentityStep

\* Every request keeps to the order of its handler.
LEMMA StageStep ==
    ASSUME IdInv, NEW t \in Tasks, ActionOf(t)
    PROVE  StageInv'
<1>t. /\ tokens \in [Tokens -> DeviceIds \cup {Absent}]
      /\ local \in [Tasks -> Ident!Pair] /\ response \in [Tasks -> Ident!Pair]
      /\ request \in [Tasks -> Signal!Request] /\ handler \in [Tasks -> Stages]
  BY DEF IdInv, TypeOK, Ident!TypeOK, Signal!TypeOK
<1>s. StageOf(t)
  BY DEF IdInv, StageInv
<1>1. ASSUME NEW u \in Tasks, u # t PROVE StageOf(u)'
  <2>1. StageOf(u)
    BY DEF IdInv, StageInv
  <2>2. QED
    BY <1>1, <2>1, OthersStep DEF StageOf, Issued
<1>2. ASSUME NEW d \in DeviceIds, NEW k \in Tokens, RegisterDevice(t, d, k)
      PROVE  StageOf(t)'
  <2>1. handler'[t] = "registering" /\ handler[t] = "new"
    BY <1>2, <1>t DEF RegisterDevice, Go
  <2>2. local'[t] = [device_id |-> d, auth_token |-> k] /\ response'[t] = response[t]
    BY <1>2, <1>t DEF RegisterDevice, Ident!RegisterInsertDevice
  <2>3. request'[t] = request[t]
    BY <1>2 DEF RegisterDevice, signalingState
  <2>4. QED
    BY <1>s, <2>1, <2>2, <2>3 DEF StageOf, Issued
<1>3. ASSUME RegisterToken(t)
      PROVE  StageOf(t)'
  <2>1. handler'[t] = "registered" /\ handler[t] = "registering"
    BY <1>3, <1>t DEF RegisterToken, Go
  <2>2. Issued(t) /\ request[t] = Signal!NoRequest
    BY <1>s, <2>1 DEF StageOf
  <2>3. local' = local /\ response'[t] = local[t]
    BY <1>3, <1>t DEF RegisterToken, Ident!RegisterInsertToken
  <2>4. tokens'[local[t].auth_token] = local[t].device_id
    BY <1>3, <1>t, <2>2 DEF RegisterToken, Ident!RegisterInsertToken, Issued
  <2>5. request'[t] = request[t]
    BY <1>3 DEF RegisterToken, signalingState
  <2>6. /\ Issued(t)'
        /\ response'[t] = local'[t]
        /\ tokens'[local'[t].auth_token] = local'[t].device_id
    BY <2>2, <2>3, <2>4 DEF Issued
  <2>7. QED
    BY <2>1, <2>2, <2>5, <2>6 DEF StageOf
<1>4. ASSUME RegisterAnnounce(t)
      PROVE  StageOf(t)'
  <2>1. handler'[t] = "announced" /\ handler[t] = "registered"
    BY <1>4, <1>t DEF RegisterAnnounce, Go
  <2>2. UNCHANGED <<local, response, tokens, request>>
    BY <1>4 DEF RegisterAnnounce, Signal!RegisterPeer, identityState
  <2>3. Issued(t)' <=> Issued(t)
    BY <2>2 DEF Issued
  <2>4. QED
    BY <1>s, <2>1, <2>2, <2>3 DEF StageOf
<1>5. ASSUME NEW target \in Published \cup {Unknown}, InitiateCheck(t, target)
      PROVE  StageOf(t)'
  <2>1. /\ handler[t] = "new"
        /\ handler'[t] = IF Signal!IsPeerOnline(target) THEN "initiating" ELSE "refused"
    BY <1>5, <1>t DEF InitiateCheck, Go
  <2>2. request'[t].stage = IF Signal!IsPeerOnline(target) THEN "inserting" ELSE "refused"
    BY <1>5, <1>t DEF InitiateCheck, Signal!InitiateCheck
  <2>3. local'[t] = local[t] /\ response'[t] = response[t]
    BY <1>5 DEF InitiateCheck, identityState
  <2>4. QED
    BY <1>s, <2>1, <2>2, <2>3 DEF StageOf
<1>6. ASSUME NEW s \in SessionIds, InitiateInsert(t, s)
      PROVE  StageOf(t)'
  <2>1. handler'[t] = "initiated" /\ handler[t] = "initiating"
    BY <1>6, <1>t DEF InitiateInsert, Go
  <2>2. request'[t].stage = "initiated"
    BY <1>6, <1>t DEF InitiateInsert, Signal!InitiateInsert
  <2>3. local'[t] = local[t] /\ response'[t] = response[t]
    BY <1>6 DEF InitiateInsert, identityState
  <2>4. QED
    BY <1>s, <2>1, <2>2, <2>3 DEF StageOf
<1>7. ASSUME handler'[t] \in {"answered", "dropped"}
      PROVE  StageOf(t)'
  BY <1>7 DEF StageOf
<1>8. ASSUME RegisterLog(t) \/ InitiateLogSuccess(t) \/ InitiateLogFailure(t)
               \/ CreateAuditLog(t) \/ HangUp(t)
      PROVE  StageOf(t)'
  BY <1>7, <1>8, <1>t DEF RegisterLog, InitiateLogSuccess, InitiateLogFailure,
                          CreateAuditLog, HangUp, Go
<1>9. QED
  BY <1>1, <1>2, <1>3, <1>4, <1>5, <1>6, <1>8 DEF ActionOf, StageInv

\* What the rendezvous offers, is asked for or holds goes on being able to log in.
LEMMA TargetStep ==
    ASSUME IdInv, NEW t \in Tasks, ActionOf(t)
    PROVE  TargetInv'
<1>t. /\ online_peers \in [Targets -> BOOLEAN \cup {Absent}]
      /\ active_sessions \in [SessionIds -> Signal!SignalingSession \cup {Absent}]
      /\ request \in [Tasks -> Signal!Request]
  BY DEF IdInv, TypeOK, Signal!TypeOK
<1>c. Registered \subseteq Registered'
  BY RegisteredGrows
<1>1. ASSUME online_peers' = online_peers, active_sessions' = active_sessions,
             \A u \in Tasks : request'[u].stage \in {"inserting", "initiated"} =>
                 request'[u] = request[u]
      PROVE  TargetInv'
  <2>1. \A p \in Targets : Signal!IsPeerOnline(p)' => Signal!IsPeerOnline(p)
    BY <1>1 DEF Signal!IsPeerOnline
  <2>2. QED
    BY <1>1, <1>c, <2>1 DEF IdInv, TargetInv
<1>2. UNCHANGED signalingState => TargetInv'
  BY <1>1 DEF signalingState
<1>3. ASSUME RegisterAnnounce(t) PROVE TargetInv'
  <2>1. response[t].device_id \in Registered /\ response[t].device_id \in Targets
    BY <1>3 DEF RegisterAnnounce, Go, IdInv, StageInv, StageOf, Registered, Issued, Targets
  <2>2. /\ online_peers' = [online_peers EXCEPT ![response[t].device_id] = TRUE]
        /\ UNCHANGED <<active_sessions, request>>
    BY <1>3 DEF RegisterAnnounce, Signal!RegisterPeer
  <2>3. ASSUME NEW p \in Targets, Signal!IsPeerOnline(p)' PROVE p \in Registered'
    <3>1. CASE p = response[t].device_id
      BY <1>c, <2>1, <3>1
    <3>2. CASE p # response[t].device_id
      BY <1>c, <1>t, <2>1, <2>2, <2>3, <3>2 DEF IdInv, TargetInv, Signal!IsPeerOnline
    <3>3. QED
      BY <3>1, <3>2
  <2>4. QED
    BY <1>c, <2>2, <2>3 DEF IdInv, TargetInv
<1>4. ASSUME NEW target \in Published \cup {Unknown}, InitiateCheck(t, target)
      PROVE  TargetInv'
  <2>1. target \in Targets
    BY DEF Published, Targets
  <2>2. /\ request' = [request EXCEPT ![t] =
                         [stage   |-> IF Signal!IsPeerOnline(target) THEN "inserting" ELSE "refused",
                          target  |-> target,
                          session |-> Absent]]
        /\ UNCHANGED <<online_peers, active_sessions>>
    BY <1>4 DEF InitiateCheck, Signal!InitiateCheck
  <2>3. ASSUME NEW u \in Tasks, request'[u].stage \in {"inserting", "initiated"}
        PROVE  request'[u].target \in Targets /\ request'[u].target \in Registered'
    <3>1. CASE u = t
      <4>1. request'[u].target = target /\ Signal!IsPeerOnline(target)
        BY <1>t, <2>2, <2>3, <3>1
      <4>2. target \in Registered'
        BY <1>c, <2>1, <4>1 DEF IdInv, TargetInv
      <4>3. QED
        BY <2>1, <4>1, <4>2
    <3>2. CASE u # t
      <4>1. request'[u] = request[u]
        BY <1>t, <2>2, <3>2
      <4>2. QED
        BY <1>c, <2>3, <4>1 DEF IdInv, TargetInv
    <3>3. QED
      BY <3>1, <3>2
  <2>4. \A p \in Targets : Signal!IsPeerOnline(p)' => Signal!IsPeerOnline(p)
    BY <2>2 DEF Signal!IsPeerOnline
  <2>5. QED
    BY <1>c, <2>2, <2>3, <2>4 DEF IdInv, TargetInv
<1>5. ASSUME NEW s \in SessionIds, InitiateInsert(t, s)
      PROVE  TargetInv'
  <2>1. request[t].target \in Targets /\ request[t].target \in Registered
    BY <1>5 DEF InitiateInsert, Signal!InitiateInsert, IdInv, TargetInv
  <2>2. /\ active_sessions' = [active_sessions EXCEPT ![s] =
                                 [agent_device_id      |-> request[t].target,
                                  agent_public_key_hex |-> Absent,
                                  status               |-> "Initiated"]]
        /\ request' = [request EXCEPT ![t] =
                         [stage |-> "initiated", target |-> request[t].target, session |-> s]]
        /\ UNCHANGED online_peers
    BY <1>5 DEF InitiateInsert, Signal!InitiateInsert
  <2>3. ASSUME NEW u \in Tasks, request'[u].stage \in {"inserting", "initiated"}
        PROVE  request'[u].target \in Targets /\ request'[u].target \in Registered'
    <3>1. CASE u = t
      BY <1>c, <1>t, <2>1, <2>2, <3>1
    <3>2. CASE u # t
      <4>1. request'[u] = request[u]
        BY <1>t, <2>2, <3>2
      <4>2. QED
        BY <1>c, <2>3, <4>1 DEF IdInv, TargetInv
    <3>3. QED
      BY <3>1, <3>2
  <2>4. ASSUME NEW r \in SessionIds, active_sessions'[r] # Absent
        PROVE  active_sessions'[r].agent_device_id \in Registered'
    <3>1. CASE r = s
      BY <1>c, <1>t, <2>1, <2>2, <3>1
    <3>2. CASE r # s
      BY <1>c, <1>t, <2>2, <2>4, <3>2 DEF IdInv, TargetInv
    <3>3. QED
      BY <3>1, <3>2
  <2>5. \A p \in Targets : Signal!IsPeerOnline(p)' => Signal!IsPeerOnline(p)
    BY <2>2 DEF Signal!IsPeerOnline
  <2>6. QED
    BY <1>c, <2>3, <2>4, <2>5 DEF IdInv, TargetInv
<1>6. ASSUME HangUp(t) PROVE TargetInv'
  <2>1. CASE handler[t] = "initiating"
    BY <1>1, <1>6, <1>t, <2>1 DEF HangUp, Signal!Cancel, Signal!Request
  <2>2. CASE handler[t] # "initiating"
    BY <1>2, <1>6, <2>2 DEF HangUp
  <2>3. QED
    BY <2>1, <2>2
<1>7. QED
  BY <1>2, <1>3, <1>4, <1>5, <1>6
     DEF ActionOf, RegisterDevice, RegisterToken, RegisterLog, InitiateLogSuccess,
         InitiateLogFailure, CreateAuditLog

\* The four parts of IdInv together are inductive.
THEOREM IdInvHolds == Spec => []IdInv
<1>1. Init => IdInv
  <2> SUFFICES ASSUME Init PROVE IdInv
    OBVIOUS
  <2> USE DEF Init, Ident!Init, Signal!Init, Audit!AuditInit
  <2>1. TypeOK
    <3>1. Ident!TypeOK
      BY DEF Ident!TypeOK, Ident!NoPair, Ident!Pair
    <3>2. Signal!TypeOK
      BY DEF Signal!TypeOK, Signal!NoRequest, Signal!Request, Signal!Stages
    <3>3. Audit!AuditTypeOK
      BY DEF Audit!AuditTypeOK
    <3>4. QED
      BY <3>1, <3>2, <3>3 DEF TypeOK, Stages
  <2>2. StageInv
    BY DEF StageInv, StageOf
  <2>3. \A t \in Tasks : ~Issued(t)
    BY ControlPlaneAssumption DEF Issued, Ident!NoPair
  <2>4. IssuedInv
    BY <2>3 DEF IssuedInv
  <2>5. TargetInv
    BY DEF TargetInv, Signal!IsPeerOnline, Signal!NoRequest
  <2>6. QED
    BY <2>1, <2>2, <2>4, <2>5 DEF IdInv
<1>2. IdInv /\ [Next]_cpVars => IdInv'
  <2> SUFFICES ASSUME IdInv, [Next]_cpVars PROVE IdInv'
    OBVIOUS
  <2>1. ASSUME NEW t \in Tasks, ActionOf(t) PROVE IdInv'
    <3>1. TypeOK'
      BY <2>1, TypeStep
    <3>2. StageInv'
      BY <2>1, StageStep
    <3>3. IssuedInv'
      BY <2>1, IssuedStep
    <3>4. TargetInv'
      BY <2>1, TargetStep
    <3>5. QED
      BY <3>1, <3>2, <3>3, <3>4 DEF IdInv
  <2>2. CASE UNCHANGED cpVars
    <3> USE <2>2 DEF cpVars
    <3>1. TypeOK'
      BY DEF IdInv, TypeOK, Ident!TypeOK, Signal!TypeOK, Audit!AuditTypeOK
    <3>2. StageInv'
      BY DEF IdInv, StageInv, StageOf, Issued
    <3>3. IssuedInv'
      BY DEF IdInv, IssuedInv, Issued
    <3>4. TargetInv'
      BY DEF IdInv, TargetInv, Registered, Issued, Signal!IsPeerOnline
    <3>5. QED
      BY <3>1, <3>2, <3>3, <3>4 DEF IdInv
  <2>3. QED
    BY <2>1, <2>2, NextIsActions
<1>3. QED
  BY <1>1, <1>2, PTL DEF Spec

\* The services keep their types under concurrent and dropped requests.
THEOREM TypeCorrect == Spec => []TypeOK
<1>1. IdInv => TypeOK
  BY DEF IdInv
<1>2. QED
  BY <1>1, IdInvHolds, PTL

\* A device that the rendezvous offers, or that a session leads to, has its
\* token in the table of the identity service.
THEOREM TargetsAuthenticate == Spec => []TargetCanAuthenticate
<1>1. IdInv => TargetCanAuthenticate
  <2> SUFFICES ASSUME IdInv PROVE TargetCanAuthenticate
    OBVIOUS
  <2>1. ASSUME NEW p \in Registered
        PROVE  p \in DeviceIds /\ devices[p] # Absent /\ tokens[devices[p].auth_token] = p
    <3>1. PICK t \in Tasks : Issued(t) /\ local[t].device_id = p /\ tokens[local[t].auth_token] = p
      BY <2>1 DEF Registered
    <3>2. devices[p] = [auth_token |-> local[t].auth_token, is_online |-> TRUE]
      BY <3>1 DEF IdInv, IssuedInv
    <3>3. devices[p] \in Ident!Device
      BY <3>1, <3>2 DEF Issued, Ident!Device
    <3>4. devices[p] # Absent
      BY <3>3, ControlPlaneAssumption
    <3>5. QED
      BY <3>1, <3>2, <3>4 DEF Issued
  <2>2. QED
    BY <2>1 DEF IdInv, TargetInv, TargetCanAuthenticate
<1>2. QED
  BY <1>1, IdInvHolds, PTL

-----------------------------------------------------------------------------
(***************************************************************************)
(* The audit log.                                                          *)
(***************************************************************************)

\* Event i of the log records the registration of device d.
Registers(i, d) == chain[i].data = Event("DEVICE_REGISTER", d, "SUCCESS", Absent)

\* Whatever device the log or a request names, the log has its registration:
\* first, because a device id is not told to anyone before that.
NamedInv ==
    /\ \A i \in 1 .. Len(chain) : chain[i].data.resource \in DeviceIds =>
           \E j \in 1 .. i : Registers(j, chain[i].data.resource)
    /\ \A t \in Tasks : request[t].target \in DeviceIds =>
           \E j \in 1 .. Len(chain) : Registers(j, request[t].target)

LogInv == AnsweredIsAudited /\ NamedInv

\* The event that a step logs: only these four steps touch the log.
LogsEvent(t, e) ==
    \/ RegisterLog(t) /\ e = Event("DEVICE_REGISTER", response[t].device_id, "SUCCESS", Absent)
    \/ InitiateLogSuccess(t)
         /\ e = Event("SESSION_CONNECT", request[t].target, "SUCCESS", request[t].session)
    \/ InitiateLogFailure(t) /\ e = Event("SESSION_CONNECT", request[t].target, "FAILED", Absent)
    \/ CreateAuditLog(t) /\ e.resource \in Published \cup {Unknown}

\* A step either leaves the log alone and answers nobody, or logs one event,
\* answers its request and leaves the other services alone.
LEMMA LogStep ==
    ASSUME IdInv, NEW t \in Tasks, ActionOf(t)
    PROVE  \/ /\ UNCHANGED chain
              /\ handler'[t] # "answered"
           \/ \E e \in Events :
                 /\ LogsEvent(t, e)
                 /\ Len(chain) \in Nat
                 /\ Len(chain') = Len(chain) + 1
                 /\ chain'[Len(chain')].data = e
                 /\ \A i \in 1 .. Len(chain) : chain'[i] = chain[i]
                 /\ UNCHANGED <<response, request>>
<1>t. handler \in [Tasks -> Stages] /\ Audit!AuditTypeOK /\ Len(chain) \in Nat
  BY DEF IdInv, TypeOK, Audit!AuditTypeOK
<1>r. /\ request[t].target \in Targets \cup {Absent}
      /\ request[t].session \in SessionIds \cup {Absent}
  BY DEF IdInv, TypeOK, Signal!TypeOK, Signal!Request
<1>u. UNCHANGED identityState /\ UNCHANGED signalingState => UNCHANGED <<response, request>>
  BY DEF identityState, signalingState
<1>1. ASSUME NEW e \in Events, Audit!LogEvent(e), LogsEvent(t, e),
             UNCHANGED <<identityState, signalingState>>
      PROVE  \E f \in Events :
                 /\ LogsEvent(t, f)
                 /\ Len(chain) \in Nat
                 /\ Len(chain') = Len(chain) + 1
                 /\ chain'[Len(chain')].data = f
                 /\ \A i \in 1 .. Len(chain) : chain'[i] = chain[i]
                 /\ UNCHANGED <<response, request>>
  BY <1>1, <1>t, <1>u, LogEventType
<1>2. ASSUME RegisterLog(t)
      PROVE  \E e \in Events : Audit!LogEvent(e) /\ LogsEvent(t, e)
  <2>1. response[t].device_id \in Targets
    BY <1>2 DEF RegisterLog, IdInv, StageInv, StageOf, Go, Issued, Targets
  <2>2. Event("DEVICE_REGISTER", response[t].device_id, "SUCCESS", Absent) \in Events
    BY <2>1, EventType
  <2>3. QED
    BY <1>2, <2>2 DEF RegisterLog, LogsEvent
<1>3. ASSUME InitiateLogSuccess(t)
      PROVE  \E e \in Events : Audit!LogEvent(e) /\ LogsEvent(t, e)
  <2>1. Event("SESSION_CONNECT", request[t].target, "SUCCESS", request[t].session) \in Events
    BY <1>r, EventType
  <2>2. QED
    BY <1>3, <2>1 DEF InitiateLogSuccess, LogsEvent
<1>4. ASSUME InitiateLogFailure(t)
      PROVE  \E e \in Events : Audit!LogEvent(e) /\ LogsEvent(t, e)
  <2>1. Event("SESSION_CONNECT", request[t].target, "FAILED", Absent) \in Events
    BY <1>r, EventType
  <2>2. QED
    BY <1>4, <2>1 DEF InitiateLogFailure, LogsEvent
<1>5. ASSUME CreateAuditLog(t)
      PROVE  \E e \in Events : Audit!LogEvent(e) /\ LogsEvent(t, e)
  <2>1. PICK e \in Events : Audit!LogEvent(e) /\ e.resource \in Published \cup {Unknown}
    BY <1>5 DEF CreateAuditLog
  <2>2. QED
    BY <1>5, <2>1 DEF LogsEvent
<1>6. RegisterLog(t) \/ InitiateLogSuccess(t) \/ InitiateLogFailure(t) \/ CreateAuditLog(t)
        => UNCHANGED <<identityState, signalingState>>
  BY DEF RegisterLog, InitiateLogSuccess, InitiateLogFailure, CreateAuditLog
<1>7. ASSUME \/ \E d \in DeviceIds, k \in Tokens : RegisterDevice(t, d, k)
             \/ RegisterToken(t) \/ RegisterAnnounce(t) \/ HangUp(t)
             \/ \E target \in Published \cup {Unknown} : InitiateCheck(t, target)
             \/ \E s \in SessionIds : InitiateInsert(t, s)
      PROVE  UNCHANGED chain /\ handler'[t] # "answered"
  BY <1>7, <1>t DEF RegisterDevice, RegisterToken, RegisterAnnounce, HangUp, InitiateCheck,
                    InitiateInsert, Go, auditState
<1>8. QED
  BY <1>1, <1>2, <1>3, <1>4, <1>5, <1>6, <1>7 DEF ActionOf

\* What is in the log stays there.
LEMMA LogGrows ==
    ASSUME IdInv, NEW t \in Tasks, ActionOf(t)
    PROVE  /\ Len(chain) \in Nat /\ Len(chain') \in Nat /\ Len(chain) <= Len(chain')
           /\ \A i \in 1 .. Len(chain) : chain'[i] = chain[i]
<1>1. Len(chain) \in Nat
  BY DEF IdInv, TypeOK, Audit!AuditTypeOK
<1>2. QED
  BY <1>1, LogStep

\* The target of a request is fixed when it is tested.
LEMMA RequestTarget ==
    ASSUME IdInv, NEW t \in Tasks, ActionOf(t), NEW u \in Tasks
    PROVE  \/ request'[u].target = request[u].target
           \/ u = t /\ request'[t].target \in Published \cup {Unknown}
<1>t. request \in [Tasks -> Signal!Request]
  BY DEF IdInv, TypeOK, Signal!TypeOK
<1>1. CASE u # t
  BY <1>1, OthersStep
<1>2. ASSUME NEW p \in Published \cup {Unknown}, InitiateCheck(t, p)
      PROVE  request'[t].target = p
  BY <1>2, <1>t DEF InitiateCheck, Signal!InitiateCheck
<1>3. ASSUME NEW s \in SessionIds, InitiateInsert(t, s)
      PROVE  request'[t].target = request[t].target
  BY <1>3, <1>t DEF InitiateInsert, Signal!InitiateInsert
<1>4. UNCHANGED signalingState => request' = request
  BY DEF signalingState
<1>5. HangUp(t) => request'[t].target = request[t].target
  BY <1>t, <1>4 DEF HangUp, Signal!Cancel, Signal!Request
<1>6. RegisterAnnounce(t) => request' = request
  BY DEF RegisterAnnounce, Signal!RegisterPeer
<1>7. CASE u = t
  BY <1>2, <1>3, <1>4, <1>5, <1>6, <1>7
     DEF ActionOf, RegisterDevice, RegisterToken, RegisterLog, InitiateLogSuccess,
         InitiateLogFailure, CreateAuditLog
<1>8. QED
  BY <1>1, <1>7

\* A published device is registered in the log.
LEMMA PublishedIsRegistered ==
    ASSUME IdInv, LogInv, NEW d \in Published
    PROVE  \E j \in 1 .. Len(chain) : Registers(j, d)
<1>t. Len(chain) \in Nat
  BY DEF IdInv, TypeOK, Audit!AuditTypeOK
<1>1. ASSUME NEW t \in Tasks, handler[t] = "answered", response[t].device_id = d
      PROVE  \E j \in 1 .. Len(chain) : Registers(j, d)
  <2>1. response[t] # Ident!NoPair
    BY <1>1, ControlPlaneAssumption DEF Published, Ident!NoPair
  <2>2. Logged(Event("DEVICE_REGISTER", response[t].device_id, "SUCCESS", Absent))
    BY <1>1, <2>1 DEF LogInv, AnsweredIsAudited
  <2>3. QED
    BY <1>1, <2>2 DEF Logged, Event, Registers
<1>2. ASSUME NEW i \in 1 .. Len(chain), chain[i].data.resource = d
      PROVE  \E j \in 1 .. Len(chain) : Registers(j, d)
  <2>1. PICK j \in 1 .. i : Registers(j, d)
    BY <1>2 DEF LogInv, NamedInv, Published
  <2>2. j \in 1 .. Len(chain)
    BY <1>t
  <2>3. QED
    BY <2>1, <2>2
<1>3. QED
  BY <1>1, <1>2 DEF Published

\* An answered request is, and stays, in the log.
LEMMA AuditedStep ==
    ASSUME IdInv, LogInv, NEW t \in Tasks, ActionOf(t)
    PROVE  AnsweredIsAudited'
<1> SUFFICES ASSUME NEW u \in Tasks, handler'[u] = "answered"
             PROVE  /\ response'[u] # Ident!NoPair =>
                          Logged(Event("DEVICE_REGISTER", response[u].device_id, "SUCCESS", Absent))'
                    /\ request'[u].stage = "initiated" =>
                          Logged(Event("SESSION_CONNECT", request[u].target, "SUCCESS",
                                       request[u].session))'
                    /\ request'[u].stage = "refused" =>
                          Logged(Event("SESSION_CONNECT", request[u].target, "FAILED", Absent))'
  BY DEF AnsweredIsAudited, Ident!NoPair
<1>k. ASSUME NEW e, Logged(e) PROVE Logged(e)'
  BY <1>k, LogGrows DEF Logged
<1>1. CASE u # t
  <2>1. handler[u] = "answered" /\ response'[u] = response[u] /\ request'[u] = request[u]
    BY <1>1, OthersStep
  <2>2. /\ response[u] # Ident!NoPair =>
               Logged(Event("DEVICE_REGISTER", response[u].device_id, "SUCCESS", Absent))
        /\ request[u].stage = "initiated" =>
               Logged(Event("SESSION_CONNECT", request[u].target, "SUCCESS", request[u].session))
        /\ request[u].stage = "refused" =>
               Logged(Event("SESSION_CONNECT", request[u].target, "FAILED", Absent))
    BY <2>1 DEF LogInv, AnsweredIsAudited
  <2>3. QED
    BY <1>k, <2>1, <2>2, LogGrows DEF Logged, Event
<1>2. CASE u = t
  <2>1. PICK e \in Events :
            /\ LogsEvent(t, e)
            /\ Len(chain) \in Nat
            /\ Len(chain') = Len(chain) + 1
            /\ chain'[Len(chain')].data = e
            /\ UNCHANGED <<response, request>>
    BY <1>2, LogStep
  <2>2. \E i \in 1 .. Len(chain') : chain'[i].data = e
    BY <2>1
  <2>3. StageOf(t)
    BY DEF IdInv, StageInv
  <2>4. CASE RegisterLog(t) /\ e = Event("DEVICE_REGISTER", response[t].device_id, "SUCCESS", Absent)
    <3>1. request[t].stage = "idle"
      BY <2>3, <2>4 DEF RegisterLog, Go, StageOf, Signal!NoRequest
    <3>2. QED
      BY <1>2, <2>1, <2>2, <2>4, <3>1 DEF Logged, Event
  <2>5. CASE InitiateLogSuccess(t)
             /\ e = Event("SESSION_CONNECT", request[t].target, "SUCCESS", request[t].session)
    <3>1. response[t] = Ident!NoPair /\ request[t].stage = "initiated"
      BY <2>3, <2>5 DEF InitiateLogSuccess, Go, StageOf
    <3>2. QED
      BY <1>2, <2>1, <2>2, <2>5, <3>1 DEF Logged, Event
  <2>6. CASE InitiateLogFailure(t)
             /\ e = Event("SESSION_CONNECT", request[t].target, "FAILED", Absent)
    <3>1. response[t] = Ident!NoPair /\ request[t].stage = "refused"
      BY <2>3, <2>6 DEF InitiateLogFailure, Go, StageOf
    <3>2. QED
      BY <1>2, <2>1, <2>2, <2>6, <3>1 DEF Logged, Event
  <2>7. CASE CreateAuditLog(t)
    <3>1. response[t] = Ident!NoPair /\ request[t].stage = "idle"
      BY <2>3, <2>7 DEF CreateAuditLog, Go, StageOf, Signal!NoRequest
    <3>2. QED
      BY <1>2, <2>1, <3>1
  <2>8. QED
    BY <2>1, <2>4, <2>5, <2>6, <2>7 DEF LogsEvent
<1>3. QED
  BY <1>1, <1>2

\* Devices are named in the log and in requests after their registration only.
LEMMA NamedStep ==
    ASSUME IdInv, LogInv, NEW t \in Tasks, ActionOf(t)
    PROVE  NamedInv'
<1>g. /\ Len(chain) \in Nat /\ Len(chain') \in Nat /\ Len(chain) <= Len(chain')
      /\ \A i \in 1 .. Len(chain) : chain'[i] = chain[i]
  BY LogGrows
<1>k. ASSUME NEW d, NEW j \in 1 .. Len(chain), Registers(j, d)
      PROVE  Registers(j, d)' /\ j \in 1 .. Len(chain')
  BY <1>g, <1>k DEF Registers, Event
<1>1. ASSUME NEW u \in Tasks, request'[u].target \in DeviceIds
      PROVE  \E j \in 1 .. Len(chain') : Registers(j, request[u].target)'
  <2> DEFINE d == request'[u].target
  <2>1. \E j \in 1 .. Len(chain) : Registers(j, d)
    <3>1. CASE d = request[u].target
      BY <1>1, <3>1 DEF LogInv, NamedInv
    <3>2. CASE u = t /\ d \in Published \cup {Unknown}
      <4>1. d \in Published
        BY <1>1, <3>2, ControlPlaneAssumption
      <4>2. QED
        BY <4>1, PublishedIsRegistered
    <3>3. QED
      BY <3>1, <3>2, RequestTarget
  <2>2. QED
    BY <1>g, <2>1 DEF Registers, Event
<1>2. ASSUME NEW i \in 1 .. Len(chain')
      PROVE  chain'[i].data.resource \in DeviceIds =>
                 \E j \in 1 .. i : Registers(j, chain[i].data.resource)'
  <2>1. CASE i \in 1 .. Len(chain)
    BY <1>g, <2>1 DEF LogInv, NamedInv, Registers, Event
  <2>2. CASE i \notin 1 .. Len(chain)
    <3>1. PICK e \in Events :
              /\ LogsEvent(t, e)
              /\ Len(chain') = Len(chain) + 1
              /\ chain'[Len(chain')].data = e
      BY <1>g, <2>2, LogStep
    <3>2. i = Len(chain') /\ chain'[i].data = e
      BY <1>g, <2>2, <3>1
    <3>3. CASE e = Event("DEVICE_REGISTER", response[t].device_id, "SUCCESS", Absent)
      BY <1>g, <3>2, <3>3 DEF Event, Registers
    <3>4. ASSUME NEW j \in 1 .. Len(chain), Registers(j, e.resource)
          PROVE  \E k \in 1 .. i : Registers(k, chain[i].data.resource)'
      BY <1>g, <3>1, <3>2, <3>4 DEF Registers, Event
    <3>5. CASE e.resource = request[t].target
      BY <3>2, <3>4, <3>5 DEF LogInv, NamedInv
    <3>6. CASE e.resource \in Published \cup {Unknown}
      BY <3>2, <3>4, <3>6, PublishedIsRegistered, ControlPlaneAssumption
    <3>7. QED
      BY <3>1, <3>3, <3>5, <3>6 DEF LogsEvent, Event
  <2>3. QED
    BY <2>1, <2>2
<1>3. QED
  BY <1>1, <1>2 DEF NamedInv

\* Every step of the gateway keeps the log in line with the requests.
THEOREM LogInvHolds == Spec => []LogInv
<1>1. Init => LogInv
  <2> SUFFICES ASSUME Init PROVE LogInv
    OBVIOUS
  <2>1. chain = << >> /\ \A t \in Tasks : handler[t] = "new" /\ request[t].target = Absent
    BY DEF Init, Audit!AuditInit, Signal!Init, Signal!NoRequest
  <2>2. AnsweredIsAudited
    BY <2>1 DEF AnsweredIsAudited
  <2>3. NamedInv
    BY <2>1, ControlPlaneAssumption DEF NamedInv
  <2>4. QED
    BY <2>2, <2>3 DEF LogInv
<1>2. IdInv /\ LogInv /\ [Next]_cpVars => LogInv'
  <2> SUFFICES ASSUME IdInv, LogInv, [Next]_cpVars PROVE LogInv'
    OBVIOUS
  <2>1. ASSUME NEW t \in Tasks, ActionOf(t) PROVE LogInv'
    BY <2>1, AuditedStep, NamedStep DEF LogInv
  <2>2. CASE UNCHANGED cpVars
    <3>1. AnsweredIsAudited'
      BY <2>2 DEF cpVars, LogInv, AnsweredIsAudited, Logged, Event, Ident!NoPair
    <3>2. NamedInv'
      BY <2>2 DEF cpVars, LogInv, NamedInv, Registers, Event
    <3>3. QED
      BY <3>1, <3>2 DEF LogInv
  <2>3. QED
    BY <2>1, <2>2, NextIsActions
<1>3. QED
  BY <1>1, <1>2, IdInvHolds, PTL DEF Spec

\* A caller that gets an answer from register_device_handler() or
\* initiate_session_handler() finds it in the audit log.
THEOREM AnswersAreAudited == Spec => []AnsweredIsAudited
<1>1. LogInv => AnsweredIsAudited
  BY DEF LogInv
<1>2. QED
  BY <1>1, LogInvHolds, PTL

\* The first event that names a device is the record of its registration, which
\* register_device_handler() writes last, although create_audit_log_handler() takes
\* any event that a caller posts.
THEOREM LogIsInOrder == Spec => []RegistrationComesFirst
<1>1. LogInv => RegistrationComesFirst
  BY DEF LogInv, NamedInv, Registers, RegistrationComesFirst
<1>2. QED
  BY <1>1, LogInvHolds, PTL

-----------------------------------------------------------------------------
(***************************************************************************)
(* The gateway uses each service as the service's own module allows: each  *)
(* step is a step of it or leaves it alone.  What is shown of Identity,    *)
(* Signaling and AuditLog by themselves so holds behind the gateway.       *)
(***************************************************************************)
LEMMA IdentityRefinedStep ==
    ASSUME IdInv, NEW t \in Tasks, ActionOf(t)
    PROVE  Ident!Next \/ UNCHANGED Ident!idVars
<1>1. UNCHANGED identityState => UNCHANGED Ident!idVars
  BY DEF identityState, Ident!idVars
<1>2. ASSUME NEW d \in DeviceIds, NEW k \in Tokens, RegisterDevice(t, d, k) PROVE Ident!Next
  BY <1>2 DEF RegisterDevice, Ident!Next, Ident!Register
<1>3. RegisterToken(t) => Ident!Next
  BY DEF RegisterToken, Ident!Next, Ident!Register
<1>4. HangUp(t) => Ident!Next \/ UNCHANGED identityState
  BY DEF HangUp, Ident!Next
<1>5. QED
  BY <1>1, <1>2, <1>3, <1>4 DEF ActionOf, RegisterAnnounce, RegisterLog, InitiateCheck,
     InitiateInsert, InitiateLogSuccess, InitiateLogFailure, CreateAuditLog

LEMMA SignalingRefinedStep ==
    ASSUME IdInv, NEW t \in Tasks, ActionOf(t)
    PROVE  Signal!Next \/ UNCHANGED Signal!sigVars
<1>1. UNCHANGED signalingState => UNCHANGED Signal!sigVars
  BY DEF signalingState, Signal!sigVars
<1>2. ASSUME RegisterAnnounce(t) PROVE Signal!Next
  <2>1. response[t].device_id \in Targets
    BY <1>2 DEF RegisterAnnounce, IdInv, StageInv, StageOf, Go, Issued, Targets
  <2>2. QED
    BY <1>2, <2>1 DEF RegisterAnnounce, Signal!Next
<1>3. ASSUME NEW target \in Published \cup {Unknown}, InitiateCheck(t, target) PROVE Signal!Next
  <2>1. target \in Targets
    BY DEF Published, Targets
  <2>2. QED
    BY <1>3, <2>1 DEF InitiateCheck, Signal!Next
<1>4. ASSUME NEW s \in SessionIds, InitiateInsert(t, s) PROVE Signal!Next
  BY <1>4 DEF InitiateInsert, Signal!Next
<1>5. HangUp(t) => Signal!Next \/ UNCHANGED signalingState
  BY DEF HangUp, Signal!Next
<1>6. QED
  BY <1>1, <1>2, <1>3, <1>4, <1>5 DEF ActionOf, RegisterDevice, RegisterToken, RegisterLog,
     InitiateLogSuccess, InitiateLogFailure, CreateAuditLog

LEMMA AuditRefinedStep ==
    ASSUME IdInv, NEW t \in Tasks, ActionOf(t)
    PROVE  Audit!AuditNext \/ UNCHANGED Audit!auditVars
<1>1. UNCHANGED auditState => UNCHANGED Audit!auditVars
  BY DEF auditState, Audit!auditVars
<1>2. ASSUME NEW e, Audit!LogEvent(e), e \in Events PROVE Audit!AuditNext
  BY <1>2 DEF Audit!AuditNext
<1>3. ASSUME RegisterLog(t) PROVE Audit!AuditNext
  <2>1. response[t].device_id \in Targets
    BY <1>3 DEF RegisterLog, IdInv, StageInv, StageOf, Go, Issued, Targets
  <2>2. QED
    BY <1>2, <1>3, <2>1, EventType DEF RegisterLog
<1>4. /\ request[t].target \in Targets \cup {Absent}
      /\ request[t].session \in SessionIds \cup {Absent}
  BY DEF IdInv, TypeOK, Signal!TypeOK, Signal!Request
<1>5. InitiateLogSuccess(t) \/ InitiateLogFailure(t) => Audit!AuditNext
  BY <1>2, <1>4, EventType DEF InitiateLogSuccess, InitiateLogFailure
<1>6. CreateAuditLog(t) => Audit!AuditNext
  BY <1>2 DEF CreateAuditLog
<1>7. QED
  BY <1>1, <1>3, <1>5, <1>6 DEF ActionOf, RegisterDevice, RegisterToken, RegisterAnnounce,
     InitiateCheck, InitiateInsert, HangUp

\* The handlers of the gateway, with requests dropped at any .await, implement the
\* specification of each of the three services they share.
THEOREM GatewayImplementsServices == Spec => Ident!Spec /\ Signal!Spec /\ Audit!AuditSpec
<1>1. Init => Ident!Init /\ Signal!Init /\ Audit!AuditInit
  BY DEF Init
<1>2. IdInv /\ [Next]_cpVars => [Ident!Next]_(Ident!idVars)
  <2> SUFFICES ASSUME IdInv, [Next]_cpVars PROVE Ident!Next \/ UNCHANGED Ident!idVars
    OBVIOUS
  <2>1. UNCHANGED cpVars => UNCHANGED Ident!idVars
    BY DEF cpVars, Ident!idVars
  <2>2. QED
    BY <2>1, NextIsActions, IdentityRefinedStep
<1>3. IdInv /\ [Next]_cpVars => [Signal!Next]_(Signal!sigVars)
  <2> SUFFICES ASSUME IdInv, [Next]_cpVars PROVE Signal!Next \/ UNCHANGED Signal!sigVars
    OBVIOUS
  <2>1. UNCHANGED cpVars => UNCHANGED Signal!sigVars
    BY DEF cpVars, Signal!sigVars
  <2>2. QED
    BY <2>1, NextIsActions, SignalingRefinedStep
<1>4. IdInv /\ [Next]_cpVars => [Audit!AuditNext]_(Audit!auditVars)
  <2> SUFFICES ASSUME IdInv, [Next]_cpVars PROVE Audit!AuditNext \/ UNCHANGED Audit!auditVars
    OBVIOUS
  <2>1. UNCHANGED cpVars => UNCHANGED Audit!auditVars
    BY DEF cpVars, Audit!auditVars
  <2>2. QED
    BY <2>1, NextIsActions, AuditRefinedStep
<1>5. QED
  BY <1>1, <1>2, <1>3, <1>4, IdInvHolds, PTL DEF Spec, Ident!Spec, Signal!Spec, Audit!AuditSpec

=============================================================================
