--------------------------- MODULE ServiceProofs ----------------------------
(***************************************************************************)
(* Proofs about three services on their own: the registry of devices, the  *)
(* audit log and the relay. They have no names in common, so one module    *)
(* can extend all three; Signaling shares its constants with Identity and  *)
(* has proofs of its own.                                                  *)
(***************************************************************************)
EXTENDS Identity, AuditLog, Relay, LoopTheorems, FiniteSetTheorems

-----------------------------------------------------------------------------
(***************************************************************************)
(* What is proved of Identity, for any number of requests, devices and     *)
(* tokens.  The two maps are never locked together; what keeps them in     *)
(* step is that a registration owns its id and its token until both are    *)
(* in, and that entries stay.                                              *)
(***************************************************************************)
\* A registration half done: the device is in, its token is not, and nobody else
\* is about to enter that token.
Registering(t) ==
    /\ local[t].device_id \in DeviceIds /\ local[t].auth_token \in Tokens
    /\ devices[local[t].device_id] # Absent
    /\ devices[local[t].device_id].auth_token = local[t].auth_token
    /\ tokens[local[t].auth_token] = Absent
    /\ \A u \in Tasks : pc[u] = "registering" /\ local[u].auth_token = local[t].auth_token => u = t

\* An authentication half done: the token was found and still leads where it did.
Authenticating(t) ==
    /\ local[t].device_id \in DeviceIds /\ local[t].auth_token \in Tokens
    /\ tokens[local[t].auth_token] = local[t].device_id

TasksInv ==
    \A t \in Tasks :
        /\ pc[t] = "registering" => Registering(t)
        /\ pc[t] = "authenticating" => Authenticating(t)
        /\ pc[t] \in {"idle", "registering", "authenticating"} => response[t] = NoPair
        /\ response[t] # NoPair =>
               response[t].device_id \in DeviceIds /\ response[t].auth_token \in Tokens

IdentityInv == TypeOK /\ TokenLeadsToItsDevice /\ ResponseIsUsable /\ TasksInv

-----------------------------------------------------------------------------
LEMMA IdentityInitFits == Init => IdentityInv
<1> SUFFICES ASSUME Init PROVE IdentityInv
  OBVIOUS
<1>1. TypeOK
  BY DEF Init, TypeOK, NoPair, Pair, Modes
<1>2. TokenLeadsToItsDevice /\ ResponseIsUsable /\ TasksInv
  BY DEF Init, TokenLeadsToItsDevice, ResponseIsUsable, TasksInv
<1>3. QED
  BY <1>1, <1>2 DEF IdentityInv

LEMMA RegisterInsertDeviceFits ==
    ASSUME IdentityInv, NEW t \in Tasks, NEW d \in DeviceIds, NEW k \in Tokens,
           RegisterInsertDevice(t, d, k)
    PROVE  IdentityInv'
<1> DEFINE new == [auth_token |-> k, is_online |-> TRUE]
           mine == [device_id |-> d, auth_token |-> k]
<1>1. /\ new \in Device /\ new # Absent /\ new.auth_token = k
      /\ mine \in Pair /\ mine.device_id = d /\ mine.auth_token = k
  <2>1. new \in Device
    BY DEF Device
  <2>2. new # Absent
    BY <2>1, IdentityAssumption
  <2>3. mine \in Pair
    BY DEF Pair
  <2>4. QED
    BY <2>1, <2>2, <2>3
<1>2. /\ pc[t] = "idle" /\ devices[d] = Absent /\ tokens[k] = Absent
      /\ \A u \in Tasks : local[u].device_id # d /\ local[u].auth_token # k
      /\ UNCHANGED <<tokens, held, response>>
  BY DEF RegisterInsertDevice, FreshDevice, FreshToken
<1>3. /\ devices' \in [DeviceIds -> Device \cup {Absent}]
      /\ \A e \in DeviceIds : devices'[e] = IF e = d THEN new ELSE devices[e]
  BY <1>1 DEF RegisterInsertDevice, IdentityInv, TypeOK
<1>4. /\ local' \in [Tasks -> Pair]
      /\ \A u \in Tasks : local'[u] = IF u = t THEN mine ELSE local[u]
  BY <1>1 DEF RegisterInsertDevice, IdentityInv, TypeOK
<1>5. /\ pc' \in [Tasks -> {"idle", "registering", "authenticating", "done", "cancelled"}]
      /\ \A u \in Tasks : pc'[u] = IF u = t THEN "registering" ELSE pc[u]
  BY DEF RegisterInsertDevice, IdentityInv, TypeOK
<1> HIDE DEF new, mine
<1>6. TypeOK'
  BY <1>2, <1>3, <1>4, <1>5 DEF IdentityInv, TypeOK
<1>7. TokenLeadsToItsDevice'
  BY <1>2, <1>3 DEF IdentityInv, TypeOK, TokenLeadsToItsDevice
<1>8. ResponseIsUsable'
  BY <1>2, <1>4 DEF IdentityInv, ResponseIsUsable, TasksInv
<1>9. ASSUME NEW u \in Tasks, pc'[u] = "registering" PROVE Registering(u)'
  <2>1. CASE u = t
    BY <1>1, <1>2, <1>3, <1>4, <1>5, <2>1 DEF Registering
  <2>2. CASE u # t
    BY <1>1, <1>2, <1>3, <1>4, <1>5, <1>9, <2>2 DEF IdentityInv, TasksInv, Registering
  <2>3. QED
    BY <2>1, <2>2
<1>10. TasksInv'
  BY <1>2, <1>4, <1>5, <1>9 DEF IdentityInv, TasksInv, Authenticating
<1>11. QED
  BY <1>6, <1>7, <1>8, <1>10 DEF IdentityInv

LEMMA RegisterInsertTokenFits ==
    ASSUME IdentityInv, NEW t \in Tasks, RegisterInsertToken(t)
    PROVE  IdentityInv'
<1>1. /\ pc[t] = "registering" /\ Registering(t) /\ UNCHANGED <<devices, local>>
      /\ local[t] \in Pair
  BY DEF RegisterInsertToken, IdentityInv, TasksInv, TypeOK
<1> DEFINE d == local[t].device_id
           k == local[t].auth_token
<1>2. d \in DeviceIds /\ k \in Tokens /\ d # Absent
  BY <1>1, IdentityAssumption DEF Registering
<1>3. /\ tokens' \in [Tokens -> DeviceIds \cup {Absent}]
      /\ \A j \in Tokens : tokens'[j] = IF j = k THEN d ELSE tokens[j]
  BY <1>2 DEF RegisterInsertToken, IdentityInv, TypeOK
<1>4. /\ response' \in [Tasks -> Pair]
      /\ \A u \in Tasks : response'[u] = IF u = t THEN local[t] ELSE response[u]
  BY <1>1 DEF RegisterInsertToken, IdentityInv, TypeOK
<1>5. /\ pc' \in [Tasks -> {"idle", "registering", "authenticating", "done", "cancelled"}]
      /\ \A u \in Tasks : pc'[u] = IF u = t THEN "done" ELSE pc[u]
      /\ held' \in [Tasks -> SUBSET ({"devices", "tokens"} \X Modes)]
  BY DEF RegisterInsertToken, IdentityInv, TypeOK
<1>6. TypeOK'
  BY <1>1, <1>3, <1>4, <1>5 DEF IdentityInv, TypeOK
<1>7. TokenLeadsToItsDevice'
  BY <1>1, <1>3 DEF IdentityInv, TokenLeadsToItsDevice, Registering
<1>8. ResponseIsUsable'
  <2>1. ASSUME NEW u \in Tasks, u # t, response[u] # NoPair
        PROVE  response[u].auth_token \in Tokens \ {k} /\ response[u].device_id # Absent
    BY <1>1, <2>1, IdentityAssumption DEF IdentityInv, TasksInv, ResponseIsUsable, Registering
  <2>2. QED
    BY <1>1, <1>2, <1>3, <1>4, <2>1 DEF IdentityInv, ResponseIsUsable
<1>9. ASSUME NEW u \in Tasks, u # t
      PROVE  /\ pc[u] = "registering" => Registering(u)'
             /\ pc[u] = "authenticating" => Authenticating(u)'
  <2>1. ASSUME pc[u] = "registering" PROVE Registering(u)'
    <3>1. Registering(u) /\ local[u].auth_token # k
      BY <1>1, <1>9, <2>1 DEF IdentityInv, TasksInv, Registering
    <3>2. QED
      BY <1>1, <1>3, <1>5, <3>1 DEF Registering
  <2>2. ASSUME pc[u] = "authenticating" PROVE Authenticating(u)'
    <3>1. Authenticating(u) /\ local[u].auth_token # k
      BY <1>1, <2>2, IdentityAssumption DEF IdentityInv, TasksInv, Authenticating, Registering
    <3>2. QED
      BY <1>1, <1>3, <3>1 DEF Authenticating
  <2>3. QED
    BY <2>1, <2>2
<1>10. TasksInv'
  BY <1>2, <1>4, <1>5, <1>9 DEF IdentityInv, TasksInv
<1>11. QED
  BY <1>6, <1>7, <1>8, <1>10 DEF IdentityInv

\* A request that only reads the maps, or only moves on.
LEMMA AuthenticateTokenFits ==
    ASSUME IdentityInv, NEW t \in Tasks, NEW k \in Tokens, AuthenticateToken(t, k)
    PROVE  IdentityInv'
<1> DEFINE mine == [device_id |-> tokens[k], auth_token |-> k]
<1>1. /\ mine \in Pair /\ mine.device_id = tokens[k] /\ mine.auth_token = k
      /\ tokens[k] \in DeviceIds \cup {Absent}
  BY DEF IdentityInv, TypeOK, Pair
<1>2. pc[t] = "idle" /\ UNCHANGED <<devices, tokens, response>>
  BY DEF AuthenticateToken
<1>3. /\ local' \in [Tasks -> Pair]
      /\ \A u \in Tasks : local'[u] = IF u = t THEN mine ELSE local[u]
  BY <1>1 DEF AuthenticateToken, IdentityInv, TypeOK
<1>4. /\ pc' \in [Tasks -> {"idle", "registering", "authenticating", "done", "cancelled"}]
      /\ \A u \in Tasks : u # t => pc'[u] = pc[u]
      /\ pc'[t] \in {"authenticating", "done"}
      /\ pc'[t] = "authenticating" => tokens[k] # Absent
  BY DEF AuthenticateToken, IdentityInv, TypeOK
<1>5. held' \in [Tasks -> SUBSET ({"devices", "tokens"} \X Modes)]
  BY DEF AuthenticateToken, IdentityInv, TypeOK, Modes
<1> HIDE DEF mine
<1>6. TypeOK'
  BY <1>2, <1>3, <1>4, <1>5 DEF IdentityInv, TypeOK
<1>7. TokenLeadsToItsDevice' /\ ResponseIsUsable'
  BY <1>2, <1>3 DEF IdentityInv, TokenLeadsToItsDevice, ResponseIsUsable, TasksInv
<1>8. ASSUME NEW u \in Tasks
      PROVE  /\ pc'[u] = "registering" => Registering(u)'
             /\ pc'[u] = "authenticating" => Authenticating(u)'
  BY <1>1, <1>2, <1>3, <1>4, <1>8 DEF IdentityInv, TasksInv, Registering, Authenticating
<1>9. TasksInv'
  BY <1>2, <1>4, <1>8 DEF IdentityInv, TasksInv
<1>10. QED
  BY <1>6, <1>7, <1>9 DEF IdentityInv

LEMMA AuthenticateDeviceFits ==
    ASSUME IdentityInv, NEW t \in Tasks, AuthenticateDevice(t)
    PROVE  IdentityInv'
<1>1. /\ pc[t] = "authenticating" /\ Authenticating(t) /\ UNCHANGED <<devices, tokens, local>>
  BY DEF AuthenticateDevice, IdentityInv, TasksInv
<1>2. /\ devices[local[t].device_id] # Absent
      /\ devices[local[t].device_id].auth_token = local[t].auth_token
  BY <1>1, IdentityAssumption DEF IdentityInv, TokenLeadsToItsDevice, Authenticating
<1> DEFINE answer == [device_id |-> local[t].device_id, auth_token |-> local[t].auth_token]
<1>3. /\ answer \in Pair /\ answer.device_id = local[t].device_id
      /\ answer.auth_token = local[t].auth_token
  BY <1>1 DEF Authenticating, Pair
<1>4. /\ response' \in [Tasks -> Pair]
      /\ \A u \in Tasks : response'[u] = IF u = t THEN answer ELSE response[u]
  BY <1>2, <1>3 DEF AuthenticateDevice, IdentityInv, TypeOK
<1>5. /\ pc' \in [Tasks -> {"idle", "registering", "authenticating", "done", "cancelled"}]
      /\ \A u \in Tasks : pc'[u] = IF u = t THEN "done" ELSE pc[u]
      /\ held' \in [Tasks -> SUBSET ({"devices", "tokens"} \X Modes)]
  BY DEF AuthenticateDevice, IdentityInv, TypeOK
<1> HIDE DEF answer
<1>6. TypeOK'
  BY <1>1, <1>4, <1>5 DEF IdentityInv, TypeOK
<1>7. TokenLeadsToItsDevice'
  BY <1>1 DEF IdentityInv, TokenLeadsToItsDevice
<1>8. ResponseIsUsable'
  BY <1>1, <1>3, <1>4 DEF IdentityInv, ResponseIsUsable, Authenticating
<1>9. ASSUME NEW u \in Tasks
      PROVE  /\ pc'[u] = "registering" => Registering(u)'
             /\ pc'[u] = "authenticating" => Authenticating(u)'
  BY <1>1, <1>5, <1>9 DEF IdentityInv, TasksInv, Registering, Authenticating
<1>10. TasksInv'
  BY <1>1, <1>3, <1>4, <1>5, <1>9 DEF IdentityInv, TasksInv, Authenticating
<1>11. QED
  BY <1>6, <1>7, <1>8, <1>10 DEF IdentityInv

\* A change of presence keeps the token in the entry.
LEMMA SetPresenceFits ==
    ASSUME IdentityInv, NEW t \in Tasks, NEW d \in DeviceIds, NEW on \in BOOLEAN,
           SetPresence(t, d, on)
    PROVE  IdentityInv'
<1>1. UNCHANGED <<tokens, held, local, response>> /\ pc[t] = "idle"
  BY DEF SetPresence
<1>2. /\ pc' \in [Tasks -> {"idle", "registering", "authenticating", "done", "cancelled"}]
      /\ \A u \in Tasks : pc'[u] = IF u = t THEN "done" ELSE pc[u]
  BY DEF SetPresence, IdentityInv, TypeOK
<1>3. /\ devices' \in [DeviceIds -> Device \cup {Absent}]
      /\ \A e \in DeviceIds : devices[e] # Absent =>
             devices'[e] # Absent /\ devices'[e].auth_token = devices[e].auth_token
  <2>1. CASE devices[d] = Absent
    BY <2>1 DEF SetPresence, IdentityInv, TypeOK
  <2>2. CASE devices[d] # Absent
    <3> DEFINE new == [devices[d] EXCEPT !.is_online = on]
    <3>1. devices' = [devices EXCEPT ![d] = new]
      BY <2>2 DEF SetPresence
    <3>2. new \in Device /\ new # Absent /\ new.auth_token = devices[d].auth_token
      BY <2>2, IdentityAssumption DEF IdentityInv, TypeOK, Device
    <3> HIDE DEF new
    <3>3. QED
      BY <3>1, <3>2 DEF IdentityInv, TypeOK
  <2>3. QED
    BY <2>1, <2>2
<1>4. TypeOK'
  BY <1>1, <1>2, <1>3 DEF IdentityInv, TypeOK
<1>5. TokenLeadsToItsDevice'
  BY <1>1, <1>3 DEF IdentityInv, TypeOK, TokenLeadsToItsDevice
<1>6. ResponseIsUsable'
  BY <1>1 DEF IdentityInv, ResponseIsUsable
<1>7. ASSUME NEW u \in Tasks
      PROVE  /\ pc'[u] = "registering" => Registering(u)'
             /\ pc'[u] = "authenticating" => Authenticating(u)'
  BY <1>1, <1>2, <1>3, <1>7 DEF IdentityInv, TasksInv, Registering, Authenticating
<1>8. TasksInv'
  BY <1>1, <1>2, <1>7 DEF IdentityInv, TasksInv
<1>9. QED
  BY <1>4, <1>5, <1>6, <1>8 DEF IdentityInv

LEMMA CancelFits ==
    ASSUME IdentityInv, NEW t \in Tasks, Cancel(t)
    PROVE  IdentityInv'
<1>1. UNCHANGED <<devices, tokens, local, response>>
  BY DEF Cancel
<1>2. /\ pc' \in [Tasks -> {"idle", "registering", "authenticating", "done", "cancelled"}]
      /\ \A u \in Tasks : pc'[u] = IF u = t THEN "cancelled" ELSE pc[u]
      /\ held' \in [Tasks -> SUBSET ({"devices", "tokens"} \X Modes)]
  BY DEF Cancel, IdentityInv, TypeOK
<1>3. TypeOK' /\ TokenLeadsToItsDevice' /\ ResponseIsUsable'
  BY <1>1, <1>2 DEF IdentityInv, TypeOK, TokenLeadsToItsDevice, ResponseIsUsable
<1>4. ASSUME NEW u \in Tasks
      PROVE  /\ pc'[u] = "registering" => Registering(u)'
             /\ pc'[u] = "authenticating" => Authenticating(u)'
  BY <1>1, <1>2, <1>4 DEF IdentityInv, TasksInv, Registering, Authenticating
<1>5. TasksInv'
  BY <1>1, <1>2, <1>4 DEF IdentityInv, TasksInv
<1>6. QED
  BY <1>3, <1>5 DEF IdentityInv

LEMMA IdentityStepFits == IdentityInv /\ [Next]_idVars => IdentityInv'
<1> SUFFICES ASSUME IdentityInv, [Next]_idVars PROVE IdentityInv'
  OBVIOUS
<1>1. CASE UNCHANGED idVars
  BY <1>1 DEF idVars, IdentityInv, TypeOK, TokenLeadsToItsDevice, ResponseIsUsable, TasksInv,
     Registering, Authenticating
<1>2. CASE \E t \in Tasks : Register(t) \/ Authenticate(t)
  BY <1>2, RegisterInsertDeviceFits, RegisterInsertTokenFits, AuthenticateTokenFits,
     AuthenticateDeviceFits DEF Register, Authenticate
<1>3. CASE \E t \in Tasks : Cancel(t) \/ \E d \in DeviceIds, on \in BOOLEAN : SetPresence(t, d, on)
  BY <1>3, SetPresenceFits, CancelFits
<1>4. QED
  BY <1>1, <1>2, <1>3 DEF Next

-----------------------------------------------------------------------------
\* The inductive invariant of IdentityService.
THEOREM IdentityInvHolds == Spec => []IdentityInv
<1>1. QED
  BY IdentityInitFits, IdentityStepFits, PTL DEF Spec

\* register_device() fills the two maps under two locks and may be dropped between
\* them, and still no token leads nowhere or to another's device.
THEOREM TokensLeadToDevices == Spec => []TokenLeadsToItsDevice
<1>1. IdentityInv => TokenLeadsToItsDevice
  BY DEF IdentityInv
<1>2. QED
  BY <1>1, IdentityInvHolds, PTL

\* What register_device() and authenticate() have returned goes on to work.
THEOREM ResponsesAreUsable == Spec => []ResponseIsUsable
<1>1. IdentityInv => ResponseIsUsable
  BY DEF IdentityInv
<1>2. QED
  BY <1>1, IdentityInvHolds, PTL

-----------------------------------------------------------------------------
(***************************************************************************)
(* The audit log is tamper evident: proofs for logs of any length, over    *)
(* any set of data and any way of writing them out as bytes.               *)
(*                                                                         *)
(* TamperEvident is not inductive: it does not say what the stored hashes  *)
(* are.  HashCommitsToPast does, in terms of what was logged, and a step   *)
(* that edits data leaves it alone.                                        *)
(***************************************************************************)
\* A hash determines the text of the event it was computed over: two events with
\* the same number and the same predecessor have the same hash only if their
\* fields, one after the other, read the same.
LEMMA HashInjective ==
    ASSUME NEW n \in Nat, NEW h \in HashValue, NEW d \in Data, NEW e \in Data,
           ComputeHash(n, d, h) = ComputeHash(n, e, h)
    PROVE  Bytes[d] = Bytes[e]
<1>1. Append(h, <<n, Bytes[d]>>)[Len(h) + 1] = <<n, Bytes[d]>>
  BY DEF HashValue
<1>2. Append(h, <<n, Bytes[e]>>)[Len(h) + 1] = <<n, Bytes[e]>>
  BY DEF HashValue
<1>3. QED
  BY <1>1, <1>2 DEF ComputeHash

\* The hash of an event is a hash value.
LEMMA HashType ==
    ASSUME NEW n \in Nat, NEW h \in HashValue, NEW d \in Data
    PROVE  ComputeHash(n, d, h) \in HashValue
  BY DEF ComputeHash, HashValue

\* The event that log_event() appends is an event.
LEMMA NewEventType ==
    ASSUME NEW c \in Seq(AuditEvent), NEW d \in Data
    PROVE  NewEvent(c, d) \in AuditEvent
<1>1. HeadHash(c) \in HashValue
  <2>1. CASE c = << >>
    BY <2>1 DEF HeadHash, GenesisPrevHash, HashValue
  <2>2. CASE c # << >>
    <3>1. c[Len(c)] \in AuditEvent
      BY <2>2
    <3>2. QED
      BY <2>2, <3>1 DEF HeadHash, AuditEvent
  <2>3. QED
    BY <2>1, <2>2
<1>2. ComputeHash(Len(c), d, HeadHash(c)) \in HashValue
  BY <1>1, HashType
<1>3. QED
  BY <1>1, <1>2 DEF NewEvent, AuditEvent

\* AuditLogService's vector holds events, one per call of log_event().
THEOREM TypeCorrect == AuditSpec => []AuditTypeOK
<1>1. AuditInit => AuditTypeOK
  BY DEF AuditInit, AuditTypeOK
<1>2. AuditTypeOK /\ [AuditNext]_auditVars => AuditTypeOK'
  <2> SUFFICES ASSUME AuditTypeOK, [AuditNext]_auditVars
               PROVE  AuditTypeOK'
    OBVIOUS
  <2>1. ASSUME NEW d \in Data, LogEvent(d)
        PROVE  AuditTypeOK'
    <3>1. NewEvent(chain, d) \in AuditEvent
      BY NewEventType DEF AuditTypeOK
    <3>2. QED
      BY <2>1, <3>1 DEF AuditTypeOK, LogEvent
  <2>2. ASSUME NEW i \in 1 .. Len(chain), NEW d \in Data, CorruptEntry(i, d)
        PROVE  AuditTypeOK'
    <3>1. chain[i] \in AuditEvent
      BY DEF AuditTypeOK
    <3>2. [chain[i] EXCEPT !.data = d] \in AuditEvent
      BY <3>1 DEF AuditEvent
    <3>3. chain' = [chain EXCEPT ![i] = [chain[i] EXCEPT !.data = d]]
      BY <2>2 DEF CorruptEntry
    <3>4. chain' \in Seq(AuditEvent) /\ Len(chain') = Len(chain)
      BY <3>2, <3>3 DEF AuditTypeOK
    <3>5. QED
      BY <2>2, <3>4 DEF AuditTypeOK, CorruptEntry
  <2>3. CASE UNCHANGED auditVars
    BY <2>3 DEF AuditTypeOK, auditVars
  <2>4. QED
    BY <2>1, <2>2, <2>3 DEF AuditNext
<1>3. QED
  BY <1>1, <1>2, PTL DEF AuditSpec

\* Every stored hash commits to the events logged so far: log_event() chains
\* its event to the head, and an edit touches no hash.
THEOREM HashesCommit == AuditSpec => []HashCommitsToPast
<1>1. AuditInit => HashCommitsToPast
  BY DEF AuditInit, HashCommitsToPast
<1>2. AuditTypeOK /\ HashCommitsToPast /\ [AuditNext]_auditVars => HashCommitsToPast'
  <2> SUFFICES ASSUME AuditTypeOK, HashCommitsToPast, [AuditNext]_auditVars
               PROVE  HashCommitsToPast'
    OBVIOUS
  <2>1. ASSUME NEW d \in Data, LogEvent(d)
        PROVE  HashCommitsToPast'
    <3> DEFINE n == Len(chain)
    <3>1. NewEvent(chain, d) \in AuditEvent
      BY NewEventType DEF AuditTypeOK
    <3>2. /\ Len(chain') = n + 1
          /\ chain'[n + 1] = NewEvent(chain, d)
          /\ \A i \in 1 .. n : chain'[i] = chain[i]
      BY <2>1, <3>1 DEF LogEvent, AuditTypeOK
    <3>3. /\ logged'[n + 1] = d
          /\ \A i \in 1 .. n : logged'[i] = logged[i]
      BY <2>1 DEF LogEvent, AuditTypeOK
    <3> SUFFICES ASSUME NEW i \in 1 .. n + 1
                 PROVE  /\ chain'[i].sequence_number = i - 1
                        /\ chain'[i].prev_hash = ExpectedPrevHash(chain', i)
                        /\ chain'[i].hash = ComputeHash(i - 1, logged'[i], chain'[i].prev_hash)
      BY <3>2 DEF HashCommitsToPast
    <3>4. CASE i = n + 1
      <4>1. HeadHash(chain) = ExpectedPrevHash(chain', n + 1)
        BY <3>2 DEF AuditTypeOK, HeadHash, ExpectedPrevHash, GenesisPrevHash
      <4>2. QED
        BY <3>2, <3>3, <3>4, <4>1 DEF NewEvent, AuditTypeOK
    <3>5. CASE i \in 1 .. n
      <4>1. ExpectedPrevHash(chain', i) = ExpectedPrevHash(chain, i)
        BY <3>2, <3>5 DEF ExpectedPrevHash, AuditTypeOK
      <4>2. QED
        BY <3>2, <3>3, <3>5, <4>1 DEF HashCommitsToPast
    <3>6. QED
      BY <3>4, <3>5 DEF AuditTypeOK
  <2>2. ASSUME NEW k \in 1 .. Len(chain), NEW d \in Data, CorruptEntry(k, d)
        PROVE  HashCommitsToPast'
    <3>1. \A i \in 1 .. Len(chain) : chain[i] \in AuditEvent
      BY DEF AuditTypeOK
    <3>2. /\ Len(chain') = Len(chain)
          /\ \A i \in 1 .. Len(chain) :
                /\ chain'[i].sequence_number = chain[i].sequence_number
                /\ chain'[i].prev_hash = chain[i].prev_hash
                /\ chain'[i].hash = chain[i].hash
      BY <2>2, <3>1 DEF CorruptEntry, AuditTypeOK, AuditEvent
    <3>3. \A i \in 1 .. Len(chain) : ExpectedPrevHash(chain', i) = ExpectedPrevHash(chain, i)
      BY <3>2 DEF ExpectedPrevHash
    <3>4. QED
      BY <2>2, <3>2, <3>3 DEF HashCommitsToPast, CorruptEntry
  <2>3. CASE UNCHANGED auditVars
    BY <2>3 DEF HashCommitsToPast, ExpectedPrevHash, auditVars
  <2>4. QED
    BY <2>1, <2>2, <2>3 DEF AuditNext
<1>3. QED
  BY <1>1, <1>2, TypeCorrect, PTL DEF AuditSpec

\* verify_integrity() accepts an event exactly when it has the text that was logged.
LEMMA VerifiesIffUnedited ==
    ASSUME AuditTypeOK, HashCommitsToPast, NEW i \in 1 .. Len(chain)
    PROVE  EventVerifies(chain, i) <=> ~TextEdited(i)
<1>1. /\ chain[i] \in AuditEvent
      /\ logged[i] \in Data
      /\ i - 1 \in Nat
  BY DEF AuditTypeOK
<1>2. /\ chain[i].data \in Data
      /\ chain[i].prev_hash \in HashValue
  BY <1>1 DEF AuditEvent
<1>3. /\ chain[i].sequence_number = i - 1
      /\ chain[i].prev_hash = ExpectedPrevHash(chain, i)
      /\ chain[i].hash = ComputeHash(i - 1, logged[i], chain[i].prev_hash)
  BY DEF HashCommitsToPast
<1>4. ComputeHash(i - 1, chain[i].data, chain[i].prev_hash)
        = ComputeHash(i - 1, logged[i], chain[i].prev_hash)
      <=> Bytes[chain[i].data] = Bytes[logged[i]]
  BY <1>1, <1>2, HashInjective DEF ComputeHash
<1>5. QED
  BY <1>3, <1>4 DEF EventVerifies, TextEdited

\* verify_integrity() accepts the log exactly when every event has the text it was
\* logged with.
THEOREM LogIsTamperEvident == AuditSpec => []TamperEvident
<1>1. AuditTypeOK /\ HashCommitsToPast => TamperEvident
  BY VerifiesIffUnedited DEF TamperEvident, IsValid
<1>2. QED
  BY <1>1, TypeCorrect, HashesCommit, PTL

\* A non-empty set of positive numbers has a least one (by way of the
\* intervals 1 .. n, since strict inclusion of finite sets is well founded).
LEMMA LeastNumber ==
    ASSUME NEW S \in SUBSET (Nat \ {0}), S # {}
    PROVE  \E m \in S : \A n \in S : m <= n
<1> DEFINE T == {1 .. n : n \in S}
<1>1. T # {}
  OBVIOUS
<1>2. T \subseteq FiniteSubsetsOf(Nat)
  <2>1. \A n \in S : 1 .. n \in SUBSET Nat /\ IsFiniteSet(1 .. n)
    BY FS_Interval
  <2>2. QED
    BY <2>1 DEF FiniteSubsetsOf
<1>3. PICK x \in T : \A y \in T : <<y, x>> \notin StrictSubsetOrdering(Nat)
  BY <1>1, <1>2, FS_StrictSubsetOrderingWellFounded, WFMin
<1>4. PICK m \in S : x = 1 .. m
  OBVIOUS
<1>5. ASSUME NEW n \in S, n < m
      PROVE  FALSE
  <2>1. 1 .. n \in T
    OBVIOUS
  <2>2. 1 .. n \subseteq 1 .. m /\ 1 .. n # 1 .. m
    <3>1. m \in 1 .. m /\ m \notin 1 .. n
      BY <1>5
    <3>2. QED
      BY <1>5, <3>1
  <2>3. <<1 .. n, 1 .. m>> \in StrictSubsetOrdering(Nat)
    BY <2>2 DEF StrictSubsetOrdering
  <2>4. QED
    BY <1>3, <1>4, <2>1, <2>3
<1>6. QED
  BY <1>5

\* The report of verify_integrity() blames the first event whose text was edited.
THEOREM FirstEditIsBlamed == AuditSpec => []BlamesFirstEdited
<1>1. ASSUME AuditTypeOK, HashCommitsToPast
      PROVE  BlamesFirstEdited
  <2> DEFINE Bad  == {i \in 1 .. Len(chain) : ~EventVerifies(chain, i)}
             t    == TamperedEvent(chain)
  <2>1. CASE IsValid(chain)
    BY <2>1 DEF BlamesFirstEdited, TamperedEvent
  <2>2. CASE ~IsValid(chain)
    <3>1. Bad # {} /\ Bad \in SUBSET (Nat \ {0})
      BY <2>2 DEF IsValid
    <3>2. PICK m \in Bad : \A n \in Bad : m <= n
      BY <3>1, LeastNumber
    <3>3. /\ m \in 1 .. Len(chain)
          /\ ~EventVerifies(chain, m)
          /\ \A j \in 1 .. m - 1 : EventVerifies(chain, j)
      <4>1. Len(chain) \in Nat
        BY <1>1 DEF AuditTypeOK
      <4>2. ASSUME NEW j \in 1 .. m - 1
            PROVE  EventVerifies(chain, j)
        <5>1. j \in 1 .. Len(chain) /\ j < m
          BY <3>2, <4>1
        <5>2. QED
          BY <3>2, <5>1
      <4>3. QED
        BY <4>2
    <3>4. /\ t \in 1 .. Len(chain)
          /\ ~EventVerifies(chain, t)
          /\ \A j \in 1 .. t - 1 : EventVerifies(chain, j)
      BY <2>2, <3>3 DEF TamperedEvent
    <3>5. \A j \in 1 .. t - 1 : j \in 1 .. Len(chain)
      BY <1>1, <3>4 DEF AuditTypeOK
    <3>6. QED
      BY <1>1, <3>4, <3>5, VerifiesIffUnedited DEF BlamesFirstEdited
  <2>3. QED
    BY <2>1, <2>2
<1>2. QED
  BY <1>1, TypeCorrect, HashesCommit, PTL

-----------------------------------------------------------------------------
(***************************************************************************)
(* What is proved of Relay, for any number of sessions, endpoints, packets *)
(* and tasks.                                                              *)
(***************************************************************************)
MaybeEndpoint == Endpoints \cup {None}

PeerPair == [client_endpoint : MaybeEndpoint, agent_endpoint : MaybeEndpoint]

Route == [session_id : Sessions \cup {None}, sender : MaybeEndpoint,
          target : MaybeEndpoint, size : Nat, todo : SUBSET Counters]

RelayTypeOK ==
    /\ DOMAIN sessions \subseteq Sessions
    /\ \A s \in DOMAIN sessions : sessions[s] \in PeerPair
    /\ counter \in [Counters -> Nat]
    /\ task \in [RelayTasks -> Route]
    /\ metrics \in [read : [Counters -> Nat], since : [Counters -> Nat], todo : SUBSET Counters]
    /\ routed \in [Counters -> Nat]

\* The pairs of the table, after an endpoint was entered.
LEMMA RegisteredType ==
    ASSUME RelayTypeOK, NEW s \in Sessions, NEW e \in Endpoints, NEW is_agent \in BOOLEAN
    PROVE  /\ DOMAIN Registered(s, e, is_agent) \subseteq Sessions
           /\ \A r \in DOMAIN Registered(s, e, is_agent) : Registered(s, e, is_agent)[r] \in PeerPair
<1> DEFINE pair == IF s \in DOMAIN sessions THEN sessions[s] ELSE NoPeers
           entry == IF is_agent THEN [pair EXCEPT !.agent_endpoint = e]
                    ELSE [pair EXCEPT !.client_endpoint = e]
<1>1. pair \in PeerPair
  BY DEF RelayTypeOK, NoPeers, PeerPair, MaybeEndpoint
<1>2. entry \in PeerPair
  BY <1>1 DEF PeerPair, MaybeEndpoint
<1>3. Registered(s, e, is_agent) =
          [r \in DOMAIN sessions \cup {s} |-> IF r = s THEN entry ELSE sessions[r]]
  BY DEF Registered
<1> HIDE DEF entry
<1> QED
  BY <1>2, <1>3 DEF RelayTypeOK

\* The route that a packet begins.
LEMMA NewRoute ==
    ASSUME RelayTypeOK, NEW s \in DOMAIN sessions, NEW e \in Endpoints, NEW size \in Sizes
    PROVE  [session_id |-> s, sender |-> e, target |-> Target(sessions[s], e),
            size |-> size, todo |-> Counters] \in Route
<1>1. s \in Sessions /\ size \in Nat
  BY RelayAssumption DEF RelayTypeOK
<1>2. Target(sessions[s], e) \in MaybeEndpoint
  BY DEF RelayTypeOK, PeerPair, Target
<1> QED
  BY <1>1, <1>2 DEF Route, MaybeEndpoint

LEMMA TypeStep ==
    ASSUME RelayTypeOK, [RelayNext]_relayVars
    PROVE  RelayTypeOK'
<1> USE DEF RelayTypeOK
<1>1. ASSUME NEW s \in Sessions, NEW e \in Endpoints, NEW is_agent \in BOOLEAN,
             RegisterPeer(s, e, is_agent)
      PROVE  RelayTypeOK'
  BY <1>1, RegisteredType DEF RegisterPeer
<1>2. ASSUME NEW s \in Sessions, RemoveSession(s)
      PROVE  RelayTypeOK'
  BY <1>2 DEF RemoveSession, Restrict
<1>3. ASSUME NEW t \in RelayTasks, NEW s \in Sessions, NEW e \in Endpoints, NEW size \in Sizes,
             RoutePacket(t, s, e, size)
      PROVE  RelayTypeOK'
  <2>1. task' \in [RelayTasks -> Route]
    BY <1>3, NewRoute DEF RoutePacket
  <2>2. routed' \in [Counters -> Nat]
    BY <1>3, RelayAssumption DEF RoutePacket, Counters
  <2> QED
    BY <1>3, <2>1, <2>2 DEF RoutePacket
<1>4. ASSUME NEW t \in RelayTasks, NEW k \in Counters, Count(t, k)
      PROVE  RelayTypeOK'
  <2>1. Amount(t, k) \in Nat
    BY DEF Amount, Route
  <2>2. counter' \in [Counters -> Nat]
    BY <1>4, <2>1 DEF Count
  <2>3. task' \in [RelayTasks -> Route]
    BY <1>4 DEF Count, Route
  <2> QED
    BY <1>4, <2>2, <2>3 DEF Count
<1>5. ASSUME NEW t \in RelayTasks, RouteReturns(t)
      PROVE  RelayTypeOK'
  <2>1. Idle \in Route
    BY DEF Idle, Route, MaybeEndpoint
  <2> QED
    BY <1>5, <2>1 DEF RouteReturns
<1>6. ASSUME GetMetrics
      PROVE  RelayTypeOK'
  BY <1>6 DEF GetMetrics
<1>7. ASSUME NEW k \in Counters, LoadCounter(k)
      PROVE  RelayTypeOK'
  <2>1. metrics' = [metrics EXCEPT !.read[k] = counter[k], !.todo = @ \ {k}]
    BY <1>7 DEF LoadCounter
  <2>2. metrics' \in [read : [Counters -> Nat], since : [Counters -> Nat], todo : SUBSET Counters]
    BY <2>1
  <2> QED
    BY <1>7, <2>2 DEF LoadCounter
<1>8. ASSUME UNCHANGED relayVars
      PROVE  RelayTypeOK'
  BY <1>8 DEF relayVars
<1> QED
  <2> HIDE DEF RelayTypeOK
  <2> QED
    BY <1>1, <1>2, <1>3, <1>4, <1>5, <1>6, <1>7, <1>8 DEF RelayNext

-----------------------------------------------------------------------------
(***************************************************************************)
(* Routes lead to the partner.                                             *)
(***************************************************************************)

\* A task that is idle has nothing left to count and no session.
IdleInv == \A t \in RelayTasks : task[t] # Idle => task[t].session_id # None

RouteInv == RelayTypeOK /\ IdleInv /\ RoutedToPartner

\* Whichever branch of route_packet() finds the target.
LEMMA TargetIsPartner ==
    ASSUME NEW pair, NEW sender
    PROVE  /\ Target(pair, sender) \in {pair.client_endpoint, pair.agent_endpoint}
           /\ Target(pair, sender) = sender => pair.client_endpoint = pair.agent_endpoint
BY DEF Target

LEMMA RouteStep ==
    ASSUME RouteInv, [RelayNext]_relayVars
    PROVE  RouteInv'
<1>1. RelayTypeOK /\ RelayTypeOK'
  BY TypeStep DEF RouteInv
<1> SUFFICES IdleInv' /\ RoutedToPartner'
  BY <1>1 DEF RouteInv
<1>2. ASSUME Writable, task' = task
      PROVE  IdleInv' /\ RoutedToPartner'
  BY <1>2 DEF Writable, IdleInv, RoutedToPartner
<1>3. ASSUME NEW t \in RelayTasks, NEW s \in Sessions, NEW e \in Endpoints, NEW size \in Sizes,
             RoutePacket(t, s, e, size)
      PROVE  IdleInv' /\ RoutedToPartner'
  <2> DEFINE route == [session_id |-> s, sender |-> e, target |-> Target(sessions[s], e),
                       size |-> size, todo |-> Counters]
  <2>1. /\ s \in DOMAIN sessions
        /\ sessions' = sessions
        /\ task' = [task EXCEPT ![t] = route]
    BY <1>3 DEF RoutePacket
  <2>2. route.session_id = s /\ route.sender = e /\ route.target = Target(sessions[s], e)
    OBVIOUS
  <2>3. s # None
    BY RelayAssumption
  <2> HIDE DEF route
  <2>4. \A u \in RelayTasks : task'[u] = IF u = t THEN route ELSE task[u]
    BY <1>1, <2>1 DEF RelayTypeOK
  <2>5. IdleInv'
    BY <2>2, <2>3, <2>4 DEF RouteInv, IdleInv
  <2>6. RoutedToPartner'
    BY <2>1, <2>2, <2>4, TargetIsPartner DEF RouteInv, RoutedToPartner
  <2> QED
    BY <2>5, <2>6
<1>4. ASSUME NEW t \in RelayTasks, NEW k \in Counters, Count(t, k)
      PROVE  IdleInv' /\ RoutedToPartner'
  <2>1. /\ sessions' = sessions
        /\ task' = [task EXCEPT ![t].todo = @ \ {k}]
        /\ k \in task[t].todo
    BY <1>4 DEF Count
  <2>2. task[t] # Idle
    BY <2>1 DEF Idle
  <2>3. \A u \in RelayTasks : /\ task'[u].session_id = task[u].session_id
                              /\ task'[u].sender = task[u].sender
                              /\ task'[u].target = task[u].target
                              /\ u # t => task'[u] = task[u]
    BY <1>1, <2>1 DEF RelayTypeOK, Route
  <2>4. \A u \in RelayTasks : task'[u] # Idle => task[u] # Idle
    BY <2>2, <2>3
  <2> QED
    BY <2>1, <2>3, <2>4 DEF RouteInv, IdleInv, RoutedToPartner
<1>5. ASSUME NEW t \in RelayTasks, RouteReturns(t)
      PROVE  IdleInv' /\ RoutedToPartner'
  <2>1. sessions' = sessions /\ \A u \in RelayTasks : task'[u] = IF u = t THEN Idle ELSE task[u]
    BY <1>1, <1>5 DEF RouteReturns, RelayTypeOK
  <2> QED
    BY <2>1 DEF RouteInv, IdleInv, RoutedToPartner
<1>6. ASSUME UNCHANGED <<sessions, task>>
      PROVE  IdleInv' /\ RoutedToPartner'
  BY <1>6 DEF RouteInv, IdleInv, RoutedToPartner
<1> QED
  BY <1>2, <1>3, <1>4, <1>5, <1>6
     DEF RelayNext, relayVars, RegisterPeer, RemoveSession, GetMetrics, LoadCounter

\* RouteInv holds in every state of the relay.
THEOREM RouteInvHolds == RelaySpec => []RouteInv
<1>1. RelayInit => RouteInv
  <2> SUFFICES ASSUME RelayInit PROVE RouteInv
    OBVIOUS
  <2>1. Idle \in Route
    BY DEF Idle, Route, MaybeEndpoint
  <2>2. RelayTypeOK
    BY <2>1 DEF RelayInit, RelayTypeOK
  <2> QED
    BY <2>2 DEF RelayInit, RouteInv, IdleInv, RoutedToPartner
<1>2. RouteInv /\ [RelayNext]_relayVars => RouteInv'
  BY RouteStep
<1> QED
  BY <1>1, <1>2, PTL DEF RelaySpec

\* The target of a packet is a peer of its session, and not its sender, for as long as
\* route_packet() holds the lock for reading (relay-service, route_packet).
THEOREM PacketsGoToPartner == RelaySpec => []RoutedToPartner
<1>1. RouteInv => RoutedToPartner
  BY DEF RouteInv
<1> QED
  BY <1>1, RouteInvHolds, PTL

-----------------------------------------------------------------------------
(***************************************************************************)
(* The counters.                                                           *)
(***************************************************************************)
WorthOf(route, k) == IF k = "packets" THEN 1 ELSE route.size

\* What the tasks, in the state tk, have yet to add to counter k.
Outstanding(tk, k) ==
    MapThenSumSet(LAMBDA t : WorthOf(tk[t], k), {t \in RelayTasks : k \in tk[t].todo})

\* The sum that MapThenSumSet() works out is one over a part of RelayTasks.
LEMMA OutstandingIsSum ==
    ASSUME NEW tk \in [RelayTasks -> Route], NEW k \in Counters,
           NEW g, IsSum(g, [t \in RelayTasks |-> WorthOf(tk[t], k)], RelayTasks)
    PROVE  Outstanding(tk, k) = g[{t \in RelayTasks : k \in tk[t].todo}]
<1> DEFINE A == {t \in RelayTasks : k \in tk[t].todo}
           w == [t \in RelayTasks |-> WorthOf(tk[t], k)]
           v == [t \in A |-> WorthOf(tk[t], k)]
           Part(s, h) == IF s = {} THEN 0 ELSE WorthOf(tk[AnyOf(s)], k) + h[s \ {AnyOf(s)}]
           Adds(h) == h = [s \in SUBSET A |-> Part(s, h)]
           sum == CHOOSE h : Adds(h)
<1>1. Outstanding(tk, k) = sum[A]
  BY DEF Outstanding, MapThenSumSet, MapThenFoldSet, AnyOf
<1>2. \A t \in RelayTasks : WorthOf(tk[t], k) \in Nat
  BY DEF WorthOf, Route
<1>3. w \in [RelayTasks -> Nat] /\ v \in [A -> Nat]
  BY <1>2
<1>4. IsFiniteSet(RelayTasks) /\ IsFiniteSet(A) /\ A \in SUBSET RelayTasks
  BY RelayAssumption, FS_Subset
<1>5. ASSUME NEW h
      PROVE  Adds(h) <=> IsSum(h, v, A)
  <2>1. ASSUME NEW s \in SUBSET A, s # {}
        PROVE  v[AnyOf(s)] = WorthOf(tk[AnyOf(s)], k)
    <3>1. AnyOf(s) \in A
      BY <2>1, AnyIsOne
    <3> QED
      BY <3>1
  <2> DEFINE Other(s) == IF s = {} THEN 0 ELSE v[AnyOf(s)] + h[s \ {AnyOf(s)}]
  <2> HIDE DEF v, A
  <2>2. ASSUME NEW s \in SUBSET A
        PROVE  Part(s, h) = Other(s)
    BY <2>1
  <2> HIDE DEF Part, Other
  <2>3. [s \in SUBSET A |-> Part(s, h)] = [s \in SUBSET A |-> Other(s)]
    BY <2>2
  <2> QED
    BY <2>3 DEF IsSum, Other
<1>6. IsSum(sum, v, A)
  <2> HIDE DEF Adds, v, A
  <2>1. \E h : Adds(h)
    BY <1>3, <1>4, <1>5, SumExists
  <2>2. Adds(sum)
    BY <2>1
  <2> QED
    BY <1>5, <2>2
<1>7. \A x \in A : v[x] = w[x]
  OBVIOUS
<1>8. sum[A] = g[A]
  <2> HIDE DEF sum, v, w, A
  <2>1. IsSum(g, w, RelayTasks)
    BY DEF w
  <2>2. A \in SUBSET A /\ A \subseteq RelayTasks
    BY <1>4
  <2> QED
    BY <1>3, <1>4, <1>6, <1>7, <2>1, <2>2, SumsAgree
<1> QED
  BY <1>1, <1>8

\* When task t finishes with counter k, what is outstanding falls by its share; when t
\* takes up a packet, it rises by that.
LEMMA OutstandingStep ==
    ASSUME NEW tk \in [RelayTasks -> Route], NEW uk \in [RelayTasks -> Route], NEW k \in Counters,
           NEW t \in RelayTasks, k \in tk[t].todo, k \notin uk[t].todo,
           \A u \in RelayTasks \ {t} :
               (k \in tk[u].todo <=> k \in uk[u].todo) /\ WorthOf(tk[u], k) = WorthOf(uk[u], k)
    PROVE  /\ Outstanding(tk, k) = WorthOf(tk[t], k) + Outstanding(uk, k)
           /\ Outstanding(uk, k) \in Nat
<1> DEFINE A == {u \in RelayTasks : k \in tk[u].todo}
           B == {u \in RelayTasks : k \in uk[u].todo}
           w == [u \in RelayTasks |-> WorthOf(tk[u], k)]
           v == [u \in RelayTasks |-> WorthOf(uk[u], k)]
<1>1. w \in [RelayTasks -> Nat] /\ v \in [RelayTasks -> Nat]
  BY DEF WorthOf, Route
<1>2. IsFiniteSet(RelayTasks)
  BY RelayAssumption
<1>3. PICK g : IsSum(g, w, RelayTasks)
  <2> HIDE DEF w
  <2> QED
    BY <1>1, <1>2, SumExists
<1>4. PICK h : IsSum(h, v, RelayTasks)
  <2> HIDE DEF v
  <2> QED
    BY <1>1, <1>2, SumExists
<1>5. Outstanding(tk, k) = g[A] /\ Outstanding(uk, k) = h[B]
  BY ZenonT(40), <1>3, <1>4, OutstandingIsSum
<1>6. t \in A /\ A \ {t} = B /\ A \in SUBSET RelayTasks /\ B \in SUBSET RelayTasks
  OBVIOUS
<1>7. \A u \in B : w[u] = v[u]
  OBVIOUS
<1>8. w[t] = WorthOf(tk[t], k)
  OBVIOUS
<1> HIDE DEF w, v, A, B
<1>9. g[A] = w[t] + g[B] /\ h[B] \in Nat
  <2>1. g[A] = w[t] + g[A \ {t}]
    BY <1>1, <1>2, <1>3, <1>6, SumStep
  <2>2. h[B] \in Nat
    BY <1>1, <1>2, <1>4, <1>6, SumStep
  <2> QED
    BY <1>6, <2>1, <2>2
<1>10. g[B] = h[B]
  BY <1>1, <1>2, <1>3, <1>4, <1>6, <1>7, SumsAgree
<1> QED
  BY <1>5, <1>8, <1>9, <1>10

\* What is outstanding for counter k depends on the shares in it alone.
LEMMA OutstandingSame ==
    ASSUME NEW tk \in [RelayTasks -> Route], NEW uk \in [RelayTasks -> Route], NEW k \in Counters,
           \A u \in RelayTasks : /\ k \in tk[u].todo <=> k \in uk[u].todo
                                 /\ k \in tk[u].todo => WorthOf(tk[u], k) = WorthOf(uk[u], k)
    PROVE  Outstanding(tk, k) = Outstanding(uk, k)
<1> DEFINE A == {u \in RelayTasks : k \in tk[u].todo}
           B == {u \in RelayTasks : k \in uk[u].todo}
           w == [u \in RelayTasks |-> WorthOf(tk[u], k)]
           v == [u \in RelayTasks |-> WorthOf(uk[u], k)]
<1>1. w \in [RelayTasks -> Nat] /\ v \in [RelayTasks -> Nat]
  BY DEF WorthOf, Route
<1>2. IsFiniteSet(RelayTasks)
  BY RelayAssumption
<1>3. PICK g : IsSum(g, w, RelayTasks)
  <2> HIDE DEF w
  <2> QED
    BY <1>1, <1>2, SumExists
<1>4. PICK h : IsSum(h, v, RelayTasks)
  <2> HIDE DEF v
  <2> QED
    BY <1>1, <1>2, SumExists
<1>5. Outstanding(tk, k) = g[A] /\ Outstanding(uk, k) = h[B]
  BY <1>3, <1>4, OutstandingIsSum
<1>6. A = B /\ A \in SUBSET RelayTasks /\ \A u \in A : w[u] = v[u]
  OBVIOUS
<1> HIDE DEF w, v, A, B
<1>7. g[A] = h[A]
  BY <1>1, <1>2, <1>3, <1>4, <1>6, SumsAgree
<1> QED
  BY <1>5, <1>6, <1>7

\* What is outstanding is never negative, and nothing while every task is idle.
LEMMA OutstandingType ==
    ASSUME NEW tk \in [RelayTasks -> Route], NEW k \in Counters
    PROVE  /\ Outstanding(tk, k) \in Nat
           /\ (\A t \in RelayTasks : tk[t].todo = {}) => Outstanding(tk, k) = 0
<1> DEFINE A == {u \in RelayTasks : k \in tk[u].todo}
           w == [u \in RelayTasks |-> WorthOf(tk[u], k)]
<1>1. w \in [RelayTasks -> Nat]
  BY DEF WorthOf, Route
<1>2. IsFiniteSet(RelayTasks)
  BY RelayAssumption
<1>3. PICK g : IsSum(g, w, RelayTasks)
  <2> HIDE DEF w
  <2> QED
    BY <1>1, <1>2, SumExists
<1>4. Outstanding(tk, k) = g[A]
  BY <1>3, OutstandingIsSum
<1>5. A \in SUBSET RelayTasks /\ ((\A t \in RelayTasks : tk[t].todo = {}) => A = {})
  OBVIOUS
<1> HIDE DEF w, A
<1>6. g[A] \in Nat /\ g[{}] = 0
  BY <1>1, <1>2, <1>3, <1>5, SumStep
<1> QED
  BY <1>4, <1>5, <1>6

\* The counters and what is outstanding make up what was routed.
SumInv == \A k \in Counters : counter[k] + Outstanding(task, k) = routed[k]

\* What get_metrics() has read, and what the counters were when it began.
MetricsInv ==
    \A k \in Counters :
        /\ metrics.since[k] <= counter[k]
        /\ k \notin metrics.todo => metrics.read[k] \in metrics.since[k] .. routed[k]

CounterInv == RelayTypeOK /\ SumInv /\ MetricsInv

LEMMA CounterTypes ==
    ASSUME RelayTypeOK, NEW k \in Counters
    PROVE  /\ counter[k] \in Nat /\ routed[k] \in Nat
           /\ metrics.since[k] \in Nat /\ metrics.read[k] \in Nat
           /\ task \in [RelayTasks -> Route]
BY DEF RelayTypeOK

\* Steps of a task: each adds to its counter what it takes from the outstanding.
LEMMA SumStepInv ==
    ASSUME RelayTypeOK, SumInv, [RelayNext]_relayVars
    PROVE  SumInv'
<1>1. RelayTypeOK'
  BY TypeStep
<1>2. task \in [RelayTasks -> Route] /\ task' \in [RelayTasks -> Route]
  BY <1>1 DEF RelayTypeOK
<1>3. ASSUME NEW t \in RelayTasks, NEW s \in Sessions, NEW e \in Endpoints, NEW size \in Sizes,
             RoutePacket(t, s, e, size), NEW k \in Counters
      PROVE  (counter[k] + Outstanding(task, k) = routed[k])'
  <2> DEFINE route == [session_id |-> s, sender |-> e, target |-> Target(sessions[s], e),
                       size |-> size, todo |-> Counters]
  <2>1. /\ task[t] = Idle
        /\ counter' = counter
        /\ task' = [task EXCEPT ![t] = route]
        /\ routed' = [routed EXCEPT !["packets"] = @ + 1, !["bytes"] = @ + size]
    BY <1>3 DEF RoutePacket
  <2>2. route.todo = Counters /\ route.size = size /\ task'[t] = route
        /\ \A u \in RelayTasks \ {t} : task'[u] = task[u]
    BY <1>2, <2>1
  <2>3. k \notin task[t].todo /\ k \in task'[t].todo
    BY <2>1, <2>2 DEF Idle
  <2>4. /\ Outstanding(task', k) = WorthOf(task'[t], k) + Outstanding(task, k)
        /\ Outstanding(task, k) \in Nat
    BY <1>2, <2>2, <2>3, OutstandingStep
  <2>5. routed'[k] = routed[k] + WorthOf(task'[t], k)
    BY <2>1, <2>2 DEF RelayTypeOK, Counters, WorthOf
  <2>6. WorthOf(task'[t], k) \in Nat
    BY <1>2 DEF Route, WorthOf
  <2>7. counter[k] + Outstanding(task, k) = routed[k] /\ counter[k] \in Nat /\ counter'[k] = counter[k]
    BY <2>1 DEF SumInv, RelayTypeOK
  <2> QED
    BY <2>4, <2>5, <2>6, <2>7
<1>4. ASSUME NEW t \in RelayTasks, NEW c \in Counters, Count(t, c), NEW k \in Counters
      PROVE  (counter[k] + Outstanding(task, k) = routed[k])'
  <2>1. /\ c \in task[t].todo
        /\ counter' = [counter EXCEPT ![c] = @ + Amount(t, c)]
        /\ task' = [task EXCEPT ![t].todo = @ \ {c}]
        /\ routed' = routed
    BY <1>4 DEF Count
  <2>2. /\ task'[t].todo = task[t].todo \ {c} /\ task'[t].size = task[t].size
        /\ \A u \in RelayTasks \ {t} : task'[u] = task[u]
    BY <1>2, <2>1 DEF Route
  <2>3. counter[k] + Outstanding(task, k) = routed[k]
        /\ counter[k] \in Nat /\ routed'[k] = routed[k]
    BY <2>1 DEF SumInv, RelayTypeOK
  <2>4. CASE k = c
    <3>1. /\ Outstanding(task, k) = WorthOf(task[t], k) + Outstanding(task', k)
          /\ Outstanding(task', k) \in Nat
      <4>1. k \notin task'[t].todo /\ k \in task[t].todo
        BY <2>1, <2>2, <2>4
      <4>2. \A u \in RelayTasks \ {t} : task[u] = task'[u]
        BY <2>2
      <4> QED
        BY <1>2, <4>1, <4>2, OutstandingStep
    <3>2. counter'[k] = counter[k] + WorthOf(task[t], k)
      BY <2>1, <2>4 DEF RelayTypeOK, Amount, WorthOf
    <3>3. WorthOf(task[t], k) \in Nat
      BY <1>2 DEF Route, WorthOf
    <3> QED
      BY <2>3, <3>1, <3>2, <3>3
  <2>5. CASE k # c
    <3>1. counter'[k] = counter[k]
      BY <2>1, <2>5 DEF RelayTypeOK
    <3>2. \A u \in RelayTasks : /\ k \in task[u].todo <=> k \in task'[u].todo
                                /\ k \in task[u].todo => WorthOf(task[u], k) = WorthOf(task'[u], k)
      BY <2>2, <2>5 DEF WorthOf
    <3>3. Outstanding(task', k) = Outstanding(task, k)
      BY <1>2, <3>2, OutstandingSame
    <3> QED
      BY <2>3, <3>1, <3>3
  <2> QED
    BY <2>4, <2>5
<1>5. ASSUME NEW t \in RelayTasks, RouteReturns(t), NEW k \in Counters
      PROVE  (counter[k] + Outstanding(task, k) = routed[k])'
  <2>1. /\ task[t].todo = {} /\ task' = [task EXCEPT ![t] = Idle]
        /\ counter' = counter /\ routed' = routed
    BY <1>5 DEF RouteReturns
  <2>2. Idle.todo = {} /\ task'[t] = Idle /\ \A u \in RelayTasks \ {t} : task'[u] = task[u]
    BY <1>2, <2>1 DEF Idle
  <2>3. \A u \in RelayTasks : /\ k \in task[u].todo <=> k \in task'[u].todo
                              /\ k \in task[u].todo => WorthOf(task[u], k) = WorthOf(task'[u], k)
    BY <2>1, <2>2
  <2>4. Outstanding(task', k) = Outstanding(task, k)
    BY <1>2, <2>3, OutstandingSame
  <2> QED
    BY <2>1, <2>4 DEF SumInv
<1>6. ASSUME UNCHANGED <<counter, task, routed>>, NEW k \in Counters
      PROVE  (counter[k] + Outstanding(task, k) = routed[k])'
  BY <1>6 DEF SumInv
<1> SUFFICES ASSUME NEW k \in Counters
             PROVE  (counter[k] + Outstanding(task, k) = routed[k])'
  BY DEF SumInv
<1> QED
  BY <1>3, <1>4, <1>5, <1>6
     DEF RelayNext, relayVars, RegisterPeer, RemoveSession, GetMetrics, LoadCounter

\* The counters only grow, and are never ahead of what was routed.
LEMMA CountersGrow ==
    ASSUME RelayTypeOK, SumInv, [RelayNext]_relayVars, NEW k \in Counters
    PROVE  counter[k] <= counter'[k] /\ routed[k] <= routed'[k] /\ counter[k] <= routed[k]
<1>1. Outstanding(task, k) \in Nat /\ counter[k] + Outstanding(task, k) = routed[k]
  BY CounterTypes, OutstandingType DEF SumInv
<1>2. counter[k] \in Nat /\ routed[k] \in Nat
  BY CounterTypes
<1>3. counter[k] <= counter'[k]
  <2>1. ASSUME NEW t \in RelayTasks, NEW c \in Counters, Count(t, c)
        PROVE  counter[k] <= counter'[k]
    <3>1. Amount(t, c) \in Nat
      BY DEF Amount, RelayTypeOK, Route
    <3> QED
      BY <1>2, <2>1, <3>1 DEF Count, RelayTypeOK
  <2>2. ASSUME counter' = counter
        PROVE  counter[k] <= counter'[k]
    BY <1>2, <2>2
  <2> QED
    BY <2>1, <2>2 DEF RelayNext, relayVars, RegisterPeer, RemoveSession, RoutePacket, RouteReturns,
                      GetMetrics, LoadCounter
<1>4. routed[k] <= routed'[k]
  <2>1. ASSUME NEW t \in RelayTasks, NEW s \in Sessions, NEW e \in Endpoints, NEW size \in Sizes,
               RoutePacket(t, s, e, size)
        PROVE  routed[k] <= routed'[k]
    BY <1>2, <2>1, RelayAssumption DEF RoutePacket, RelayTypeOK, Counters
  <2>2. ASSUME routed' = routed
        PROVE  routed[k] <= routed'[k]
    BY <1>2, <2>2
  <2> QED
    BY <2>1, <2>2 DEF RelayNext, relayVars, RegisterPeer, RemoveSession, Count, RouteReturns,
                      GetMetrics, LoadCounter
<1> QED
  BY <1>1, <1>2, <1>3, <1>4

LEMMA MetricsStep ==
    ASSUME CounterInv, [RelayNext]_relayVars
    PROVE  MetricsInv'
<1>1. RelayTypeOK /\ SumInv /\ MetricsInv /\ RelayTypeOK'
  BY TypeStep DEF CounterInv
<1> SUFFICES ASSUME NEW k \in Counters
             PROVE  (/\ metrics.since[k] <= counter[k]
                     /\ k \notin metrics.todo => metrics.read[k] \in metrics.since[k] .. routed[k])'
  BY DEF MetricsInv
<1>2. counter[k] <= counter'[k] /\ routed[k] <= routed'[k] /\ counter[k] <= routed[k]
  BY <1>1, CountersGrow
<1>3. /\ counter[k] \in Nat /\ routed[k] \in Nat
      /\ metrics.since[k] \in Nat /\ metrics.read[k] \in Nat
  BY <1>1, CounterTypes
<1>4. counter'[k] \in Nat /\ routed'[k] \in Nat
  BY <1>1 DEF RelayTypeOK
<1>5. /\ metrics.since[k] <= counter[k]
      /\ k \notin metrics.todo => metrics.read[k] \in metrics.since[k] .. routed[k]
  BY <1>1 DEF MetricsInv
<1>6. CASE GetMetrics
  <2>1. metrics'.todo = Counters /\ metrics'.since = counter /\ counter' = counter
    BY <1>1, <1>6 DEF GetMetrics, RelayTypeOK
  <2> QED
    BY <1>3, <2>1
<1>7. ASSUME NEW c \in Counters, LoadCounter(c)
      PROVE  (/\ metrics.since[k] <= counter[k]
              /\ k \notin metrics.todo => metrics.read[k] \in metrics.since[k] .. routed[k])'
  <2>1. metrics' = [metrics EXCEPT !.read[c] = counter[c], !.todo = @ \ {c}]
        /\ counter' = counter /\ routed' = routed
    BY <1>7 DEF LoadCounter
  <2>2. /\ metrics'.since = metrics.since
        /\ metrics'.todo = metrics.todo \ {c}
        /\ metrics'.read[k] = IF k = c THEN counter[k] ELSE metrics.read[k]
    BY <1>1, <2>1 DEF RelayTypeOK
  <2> QED
    BY <1>2, <1>3, <1>5, <2>1, <2>2
<1>8. CASE metrics' = metrics
  BY <1>2, <1>3, <1>4, <1>5, <1>8
<1> QED
  BY <1>6, <1>7, <1>8 DEF RelayNext, relayVars, RegisterPeer, RemoveSession, RoutePacket, Count,
                          RouteReturns

\* CounterInv holds in every state of the relay.
THEOREM CounterInvHolds == RelaySpec => []CounterInv
<1>1. RelayInit => CounterInv
  <2> SUFFICES ASSUME RelayInit PROVE CounterInv
    OBVIOUS
  <2>1. Idle \in Route /\ Idle.todo = {}
    BY DEF Idle, Route, MaybeEndpoint
  <2>2. RelayTypeOK
    BY <2>1 DEF RelayInit, RelayTypeOK
  <2>3. task \in [RelayTasks -> Route] /\ \A t \in RelayTasks : task[t].todo = {}
    BY <2>1 DEF RelayInit
  <2>4. \A k \in Counters : Outstanding(task, k) = 0
    BY <2>3, OutstandingType
  <2>5. \A k \in Counters : counter[k] = 0 /\ routed[k] = 0
                            /\ metrics.since[k] = 0 /\ metrics.read[k] = 0
    BY DEF RelayInit
  <2> QED
    BY <2>2, <2>4, <2>5 DEF CounterInv, SumInv, MetricsInv
<1>2. CounterInv /\ [RelayNext]_relayVars => CounterInv'
  BY TypeStep, SumStepInv, MetricsStep DEF CounterInv
<1> QED
  BY <1>1, <1>2, PTL DEF RelaySpec

\* packets_relayed and bytes_relayed lag behind the packets routed by exactly the routes
\* under way, and get_metrics() reads, of each, a value it had during the call.
THEOREM CountersAreTrue == RelaySpec => []CountersFollowRoutes
<1>1. CounterInv => CountersFollowRoutes
  <2> SUFFICES ASSUME CounterInv, NEW k \in Counters
               PROVE  /\ counter[k] + MapThenSumSet(LAMBDA t : Amount(t, k),
                                                     {t \in RelayTasks : k \in task[t].todo})
                             = routed[k]
                      /\ k \notin metrics.todo => metrics.read[k] \in metrics.since[k] .. routed[k]
    BY DEF CountersFollowRoutes
  <2>1. counter[k] + Outstanding(task, k) = routed[k]
    BY DEF CounterInv, SumInv
  <2>2. MapThenSumSet(LAMBDA t : Amount(t, k), {t \in RelayTasks : k \in task[t].todo})
            = Outstanding(task, k)
    BY DEF Outstanding, Amount, WorthOf, MapThenSumSet, MapThenFoldSet
  <2> QED
    BY <2>1, <2>2 DEF CounterInv, MetricsInv
<1> QED
  BY <1>1, CounterInvHolds, PTL
=============================================================================
