------------------------------ MODULE Identity -------------------------------
(***************************************************************************)
(* The device registry of services/identity (IdentityService): two maps,   *)
(* each behind its own tokio RwLock, used by concurrent request tasks.     *)
(*                                                                         *)
(* A task runs from one .await to the next without interruption, so a      *)
(* statement that takes a lock, uses the map and drops the guard is one    *)
(* step, enabled when the lock can be had.  A guard that is kept across an *)
(* .await is recorded in `held'.  A task may be dropped at any .await (the *)
(* caller hangs up): Cancel.                                               *)
(*                                                                         *)
(* Left out: host name, operating system, public key and the time stamps   *)
(* of a device, which no operation of the service looks at.                *)
(***************************************************************************)
CONSTANTS
    Tasks,          \* concurrent requests
    DeviceIds,      \* rap-dev-<uuid>
    Tokens,         \* rap-token-<uuid>
    Absent          \* no entry in a map, no value in a response

VARIABLES
    devices,        \* IdentityService::devices
    tokens,         \* IdentityService::tokens
    held,           \* guards each task keeps: pairs <<lock, mode>>
    pc,             \* where each task is
    local,          \* device id and token each task works on
    response        \* what each task has returned

idVars == <<devices, tokens, held, pc, local, response>>

Device == [auth_token : Tokens, is_online : BOOLEAN]

Pair == [device_id : DeviceIds \cup {Absent}, auth_token : Tokens \cup {Absent}]

NoPair == [device_id |-> Absent, auth_token |-> Absent]

ASSUME IdentityAssumption ==
    /\ Absent \notin DeviceIds \cup Tokens
    /\ Absent \notin Device

Modes == {"read", "write"}

CanRead(t, lock) ==
    \A u \in Tasks \ {t} : <<lock, "write">> \notin held[u]

CanWrite(t, lock) ==
    \A u \in Tasks \ {t}, mode \in Modes : <<lock, mode>> \notin held[u]

\* A v4 UUID that nobody has used.
FreshDevice(d) ==
    /\ devices[d] = Absent
    /\ \A t \in Tasks : local[t].device_id # d

FreshToken(k) ==
    /\ tokens[k] = Absent
    /\ \A t \in Tasks : local[t].auth_token # k

-----------------------------------------------------------------------------
Init ==
    /\ devices = [d \in DeviceIds |-> Absent]
    /\ tokens = [k \in Tokens |-> Absent]
    /\ held = [t \in Tasks |-> {}]
    /\ pc = [t \in Tasks |-> "idle"]
    /\ local = [t \in Tasks |-> NoPair]
    /\ response = [t \in Tasks |-> NoPair]

\* Mutant: the devices guard is kept until the token is in.
RegisterInsertDeviceHolding(t, d, k) ==
    /\ pc[t] = "idle"
    /\ FreshDevice(d) /\ FreshToken(k)
    /\ CanWrite(t, "devices")
    /\ devices' = [devices EXCEPT ![d] = [auth_token |-> k, is_online |-> TRUE]]
    /\ local' = [local EXCEPT ![t] = [device_id |-> d, auth_token |-> k]]
    /\ held' = [held EXCEPT ![t] = {<<"devices", "write">>}]
    /\ pc' = [pc EXCEPT ![t] = "registering"]
    /\ UNCHANGED <<tokens, response>>

\* register_device(), up to and including the insertion into devices.
RegisterInsertDevice(t, d, k) ==
    /\ pc[t] = "idle"
    /\ FreshDevice(d) /\ FreshToken(k)
    /\ CanWrite(t, "devices")
    /\ devices' = [devices EXCEPT ![d] = [auth_token |-> k, is_online |-> TRUE]]
    /\ local' = [local EXCEPT ![t] = [device_id |-> d, auth_token |-> k]]
    /\ pc' = [pc EXCEPT ![t] = "registering"]
    /\ UNCHANGED <<tokens, held, response>>

\* Mutant: the response is returned and the token never entered.
RegisterInsertTokenForgotten(t) ==
    /\ pc[t] = "registering"
    /\ response' = [response EXCEPT ![t] = local[t]]
    /\ held' = [held EXCEPT ![t] = {}]
    /\ pc' = [pc EXCEPT ![t] = "done"]
    /\ UNCHANGED <<devices, tokens, local>>

\* register_device(), the insertion into tokens and the response.
RegisterInsertToken(t) ==
    /\ pc[t] = "registering"
    /\ CanWrite(t, "tokens")
    /\ tokens' = [tokens EXCEPT ![local[t].auth_token] = local[t].device_id]
    /\ response' = [response EXCEPT ![t] = local[t]]
    /\ held' = [held EXCEPT ![t] = {}]
    /\ pc' = [pc EXCEPT ![t] = "done"]
    /\ UNCHANGED <<devices, local>>

\* authenticate(), the lookup of the token: the guard is kept if it is there.
AuthenticateToken(t, k) ==
    /\ pc[t] = "idle"
    /\ CanRead(t, "tokens")
    /\ local' = [local EXCEPT ![t] = [device_id |-> tokens[k], auth_token |-> k]]
    /\ \/ /\ tokens[k] # Absent
          /\ held' = [held EXCEPT ![t] = {<<"tokens", "read">>}]
          /\ pc' = [pc EXCEPT ![t] = "authenticating"]
       \/ /\ tokens[k] = Absent
          /\ held' = held
          /\ pc' = [pc EXCEPT ![t] = "done"]
    /\ UNCHANGED <<devices, tokens, response>>

\* authenticate(), the lookup of the device.
AuthenticateDevice(t) ==
    /\ pc[t] = "authenticating"
    /\ CanRead(t, "devices")
    /\ response' = [response EXCEPT ![t] =
                      IF devices[local[t].device_id] = Absent THEN NoPair
                      ELSE [device_id  |-> local[t].device_id,
                            auth_token |-> devices[local[t].device_id].auth_token]]
    /\ held' = [held EXCEPT ![t] = {}]
    /\ pc' = [pc EXCEPT ![t] = "done"]
    /\ UNCHANGED <<devices, tokens, local>>

\* Mutant: presence is recorded by inserting a new entry.
SetPresenceReplacing(t, d, on) ==
    /\ pc[t] = "idle"
    /\ CanWrite(t, "devices")
    /\ devices' = [devices EXCEPT ![d] =
                     [auth_token |-> CHOOSE k \in Tokens : TRUE, is_online |-> on]]
    /\ pc' = [pc EXCEPT ![t] = "done"]
    /\ UNCHANGED <<tokens, held, local, response>>

SetPresence(t, d, on) ==
    /\ pc[t] = "idle"
    /\ CanWrite(t, "devices")
    /\ devices' = IF devices[d] = Absent THEN devices
                  ELSE [devices EXCEPT ![d].is_online = on]
    /\ pc' = [pc EXCEPT ![t] = "done"]
    /\ UNCHANGED <<tokens, held, local, response>>

\* The caller hangs up while the task waits: its guards go with it.
Cancel(t) ==
    /\ pc[t] \in {"registering", "authenticating"}
    /\ held' = [held EXCEPT ![t] = {}]
    /\ pc' = [pc EXCEPT ![t] = "cancelled"]
    /\ UNCHANGED <<devices, tokens, local, response>>

Register(t) ==
    \/ \E d \in DeviceIds, k \in Tokens : RegisterInsertDevice(t, d, k)
    \/ RegisterInsertToken(t)

Authenticate(t) ==
    \/ \E k \in Tokens : AuthenticateToken(t, k)
    \/ AuthenticateDevice(t)

Finished == \A t \in Tasks : pc[t] \in {"done", "cancelled"}

Next ==
    \/ \E t \in Tasks :
         \/ Register(t)
         \/ Authenticate(t)
         \/ \E d \in DeviceIds, on \in BOOLEAN : SetPresence(t, d, on)
         \/ Cancel(t)
    \/ Finished /\ UNCHANGED idVars

Spec == Init /\ [][Next]_idVars

\* tokio wakes a task whose lock has come free, in the order they queued.
FairSpec ==
    /\ Spec
    /\ \A t \in Tasks : WF_idVars(RegisterInsertToken(t)) /\ WF_idVars(AuthenticateDevice(t))

-----------------------------------------------------------------------------
(***************************************************************************)
(* Properties.                                                             *)
(***************************************************************************)

\* Maps, guards and tasks keep their types.
TypeOK ==
    /\ devices \in [DeviceIds -> Device \cup {Absent}]
    /\ tokens \in [Tokens -> DeviceIds \cup {Absent}]
    /\ held \in [Tasks -> SUBSET ({"devices", "tokens"} \X Modes)]
    /\ pc \in [Tasks -> {"idle", "registering", "authenticating", "done", "cancelled"}]
    /\ local \in [Tasks -> Pair]
    /\ response \in [Tasks -> Pair]

\* A token in the table always leads to a device that carries it, although the
\* two maps are never locked together: register_device() fills devices first.
TokenLeadsToItsDevice ==
    \A k \in Tokens : tokens[k] # Absent =>
        /\ devices[tokens[k]] # Absent
        /\ devices[tokens[k]].auth_token = k

\* What register_device() and authenticate() return can be used: the token is
\* in the table and names the device, also after later changes of presence.
ResponseIsUsable ==
    \A t \in Tasks : response[t] # NoPair =>
        /\ response[t].auth_token = local[t].auth_token
        /\ tokens[response[t].auth_token] = response[t].device_id

\* No lock order can stop the service: a task that waits for a lock, with or
\* without a guard in hand, gets it and finishes.
WaitingTaskFinishes ==
    \A t \in Tasks :
        pc[t] \in {"registering", "authenticating"} ~> pc[t] \in {"done", "cancelled"}

=============================================================================
