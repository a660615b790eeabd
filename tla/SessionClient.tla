---------------------------- MODULE SessionClient ----------------------------
(***************************************************************************)
(* The connection life cycle of the desktop client: class SessionClient of *)
(* apps/client, with its QTcpSocket, its single-shot reconnect timer and   *)
(* the connection history it keeps.                                        *)
(*                                                                         *)
(* The client runs on one Qt event loop.  A step of this module is one     *)
(* event of that loop: a call from the user interface, the timer firing,   *)
(* or something the socket reports.  A signal the socket emits while a     *)
(* handler runs is delivered inside that handler, so the handlers are      *)
(* functions from client state to client state and an action composes the  *)
(* ones that run in its event.                                             *)
(*                                                                         *)
(* Left out: the text of log lines, the wire format, clock readings (a     *)
(* session start time is only set or not set) and port numbers (a host     *)
(* stands for a host:port pair).                                           *)
(***************************************************************************)
EXTENDS Naturals, Sequences

CONSTANTS
    Hosts,                  \* host:port pairs the user may connect to
    LocalHost,              \* 127.0.0.1:18443, where every Desk ID leads
    Desks,                  \* Desk IDs the user may type
    NoTarget,               \* the empty QString
    MaxReconnectAttempts,   \* maxReconnectAttempts_, 5 in the code
    MaxHistory              \* 50 in the code

ASSUME ClientAssumption ==
    /\ LocalHost \in Hosts
    /\ NoTarget \notin Hosts \cup Desks
    /\ MaxReconnectAttempts \in Nat \ {0}
    /\ MaxHistory \in Nat \ {0}

VARIABLES
    sock,           \* QAbstractSocket::state() of socket_
    pendingClose,   \* the socket's note to close as soon as it has connected
    client          \* the members of SessionClient

vars == <<sock, pendingClose, client>>

Targets == Hosts \cup Desks

Live == {"Connected", "Closing"}

Statuses == {"Disconnected", "Connecting", "Connected", "Verified",
             "Authentication Failed", "Reconnecting in", "Reconnecting to",
             "Socket Error", "Reconnection Canceled"}

\* The records of a history, the two of the demonstration among them.
HistoryRecord == [target : Targets \cup {"Local Linux Agent", "Dev Workstation"},
                  reason : {"User Initiated", "Network Disconnect",
                            "User Disconnect", "Network Timeout"}]

ClientState ==
    [isConnected          : BOOLEAN,
     isReconnecting       : BOOLEAN,
     reconnectAttempts    : 0 .. MaxReconnectAttempts,
     reconnectTimer       : BOOLEAN,            \* armed
     userInitiated        : BOOLEAN,            \* userInitiatedDisconnect_
     lastHost             : Hosts \cup {NoTarget},
     lastConnectedTarget  : Targets \cup {NoTarget},
     sessionStarted       : BOOLEAN,            \* sessionStartTimeMs_ > 0
     statusText           : Statuses,
     connectionHistory    : Seq(HistoryRecord)]

InitClient ==
    [isConnected         |-> FALSE,
     isReconnecting      |-> FALSE,
     reconnectAttempts   |-> 0,
     reconnectTimer      |-> FALSE,
     userInitiated       |-> FALSE,
     lastHost            |-> NoTarget,
     lastConnectedTarget |-> NoTarget,
     sessionStarted      |-> FALSE,
     statusText          |-> "Disconnected",
     connectionHistory   |-> << >>]

-----------------------------------------------------------------------------
(***************************************************************************)
(* The handlers, as functions of the client's members.                     *)
(***************************************************************************)

\* Mutant: the trimming loop is forgotten.
AddHistoryRecordUntrimmed(history, record) == <<record>> \o history

\* The newest record comes first and the oldest ones fall off the end.
AddHistoryRecord(history, record) ==
    LET longer == <<record>> \o history
    IN  IF Len(longer) > MaxHistory THEN SubSeq(longer, 1, MaxHistory) ELSE longer

\* Mutant: the attempt counter is not reset.
OnConnectedKeepsAttempts(c) ==
    [c EXCEPT !.isConnected = TRUE, !.sessionStarted = TRUE,
              !.isReconnecting = FALSE, !.statusText = "Connected"]

OnConnected(c) ==
    [c EXCEPT !.isConnected       = TRUE,
              !.reconnectAttempts = 0,
              !.sessionStarted    = TRUE,
              !.isReconnecting    = FALSE,
              !.statusText        = "Connected"]

\* The record a closing session leaves behind, if it leaves one.
LogSession(c) ==
    IF c.isConnected /\ c.lastConnectedTarget # NoTarget
    THEN AddHistoryRecord(c.connectionHistory,
             [target |-> c.lastConnectedTarget,
              reason |-> IF c.userInitiated THEN "User Initiated"
                                            ELSE "Network Disconnect"])
    ELSE c.connectionHistory

MayReconnect(c) ==
    /\ ~c.userInitiated
    /\ c.lastHost # NoTarget
    /\ c.reconnectAttempts < MaxReconnectAttempts

\* Mutants: the handler takes the session for ended already when isConnected_
\* has been cleared, or relies on onErrorOccurred() to have cleared it.
OnDisconnectedSkipsEnded(c) ==
    IF ~c.isConnected THEN [c EXCEPT !.statusText = "Disconnected"]
    ELSE [c EXCEPT !.isConnected = FALSE, !.sessionStarted = FALSE,
                   !.connectionHistory = LogSession(c),
                   !.statusText = "Disconnected"]

OnDisconnectedKeepsFlag(c) ==
    [c EXCEPT !.sessionStarted = FALSE, !.statusText = "Disconnected",
              !.connectionHistory = LogSession(c)]

OnDisconnected(c) ==
    LET ended == [c EXCEPT !.isConnected       = FALSE,
                           !.sessionStarted    = FALSE,
                           !.connectionHistory = LogSession(c)]
    IN  IF MayReconnect(c)
        THEN [ended EXCEPT !.reconnectAttempts = c.reconnectAttempts + 1,
                           !.isReconnecting    = TRUE,
                           !.reconnectTimer    = TRUE,
                           !.statusText        = "Reconnecting in"]
        ELSE [ended EXCEPT !.isReconnecting      = FALSE,
                           !.lastConnectedTarget = NoTarget,
                           !.statusText          = "Disconnected"]

OnErrorOccurred(c) ==
    [c EXCEPT !.isConnected = FALSE,
              !.statusText  = IF c.isReconnecting THEN c.statusText ELSE "Socket Error"]

\* socket_.abort(): only a socket that was connected reports disconnected.
AbortSocket(c) == IF sock \in Live THEN OnDisconnected(c) ELSE c

\* Mutant: the timer is left running.
RequestStopLeavesTimer(c) ==
    [c EXCEPT !.userInitiated = TRUE, !.isReconnecting = FALSE]

\* disconnectFromHost() up to the call of the socket's own disconnectFromHost().
RequestStop(c) ==
    [c EXCEPT !.userInitiated  = TRUE,
              !.reconnectTimer = FALSE,
              !.isReconnecting = FALSE]

-----------------------------------------------------------------------------
Init ==
    /\ sock = "Unconnected"
    /\ pendingClose = FALSE
    /\ client = InitClient

(***************************************************************************)
(* Calls from the user interface.                                          *)
(***************************************************************************)

\* Mutant: the user's earlier stop is not taken back.
StartConnectionKeepsStop(c, host) ==
    LET a == AbortSocket(c)
    IN  /\ client' = [a EXCEPT
                        !.lastHost            = host,
                        !.lastConnectedTarget = IF @ = NoTarget THEN host ELSE @,
                        !.statusText          = "Connecting"]
        /\ sock' = "Connecting"
        /\ pendingClose' = FALSE

\* connectToHost() applied to members c.
StartConnection(c, host) ==
    LET a == AbortSocket(c)
    IN  /\ client' = [a EXCEPT
                        !.lastHost            = host,
                        !.userInitiated       = FALSE,
                        !.lastConnectedTarget = IF @ = NoTarget THEN host ELSE @,
                        !.statusText          = "Connecting"]
        /\ sock' = "Connecting"
        /\ pendingClose' = FALSE

ConnectToHost(host) == StartConnection(client, host)

ConnectByP2PId(desk) ==
    StartConnection([client EXCEPT !.lastConnectedTarget = desk], LocalHost)

\* What socket_.disconnectFromHost() does to a socket whose owner is c: a
\* connecting socket remembers to close, a connected one closes at once or,
\* with bytes still to write, after they are written.
CloseSocket(c) ==
    \/ /\ sock = "Unconnected"
       /\ client' = c
       /\ UNCHANGED <<sock, pendingClose>>
    \/ /\ sock = "Connecting"
       /\ pendingClose' = TRUE
       /\ client' = c
       /\ UNCHANGED sock
    \/ /\ sock \in Live
       /\ sock' = "Closing"
       /\ client' = c
       /\ UNCHANGED pendingClose
    \/ /\ sock \in Live
       /\ sock' = "Unconnected"
       /\ client' = OnDisconnected(c)
       /\ UNCHANGED pendingClose

\* Mutant: the flags are set and the socket is left alone.
DisconnectFromHostFlagsOnly ==
    /\ client' = RequestStop(client)
    /\ UNCHANGED <<sock, pendingClose>>

DisconnectFromHost == CloseSocket(RequestStop(client))

\* The button of the reconnect banner, shown while isReconnecting_.
CancelReconnect ==
    /\ client.isReconnecting
    /\ client' = [RequestStop(client) EXCEPT
                    !.reconnectAttempts   = 0,
                    !.lastConnectedTarget = NoTarget,
                    !.statusText          = "Reconnection Canceled"]
    /\ UNCHANGED <<sock, pendingClose>>

ClearConnectionHistory ==
    /\ client.connectionHistory # << >>
    /\ client' = [client EXCEPT !.connectionHistory = << >>]
    /\ UNCHANGED <<sock, pendingClose>>

-----------------------------------------------------------------------------
(***************************************************************************)
(* The reconnect timer.                                                    *)
(***************************************************************************)

\* A connect call on a socket that is not Unconnected changes nothing and
\* reports an OperationError.
AttemptReconnect ==
    LET fired == [client EXCEPT !.reconnectTimer = FALSE]
        tried == [fired EXCEPT !.statusText = "Reconnecting to"]
    IN  /\ client.reconnectTimer
        /\ IF client.userInitiated \/ client.lastHost = NoTarget
           THEN client' = fired /\ UNCHANGED <<sock, pendingClose>>
           ELSE \/ /\ sock = "Unconnected"
                   /\ sock' = "Connecting"
                   /\ pendingClose' = FALSE
                   /\ client' = tried
                \/ /\ sock # "Unconnected"
                   /\ client' = OnErrorOccurred(tried)
                   /\ UNCHANGED <<sock, pendingClose>>

-----------------------------------------------------------------------------
(***************************************************************************)
(* What the socket reports.                                                *)
(***************************************************************************)

\* The host accepts.  A pending close is carried out right after connected();
\* the AuthRequest just written makes it wait in Closing, or not if the
\* kernel took it at once.
SocketConnected ==
    /\ sock = "Connecting"
    /\ pendingClose' = FALSE
    /\ \/ ~pendingClose /\ sock' = "Connected"   /\ client' = OnConnected(client)
       \/  pendingClose /\ sock' = "Closing"     /\ client' = OnConnected(client)
       \/  pendingClose /\ sock' = "Unconnected"
                        /\ client' = OnDisconnected(OnConnected(client))

\* The host refuses or does not answer: errorOccurred() and nothing else.
SocketConnectFailed ==
    /\ sock = "Connecting"
    /\ sock' = "Unconnected"
    /\ pendingClose' = FALSE
    /\ client' = OnErrorOccurred(client)

\* The host closes, or the network fails: errorOccurred(), then disconnected().
SocketLost ==
    /\ sock \in Live
    /\ sock' = "Unconnected"
    /\ client' = OnDisconnected(OnErrorOccurred(client))
    /\ UNCHANGED pendingClose

\* The last bytes of a closing socket are written.
SocketFlushed ==
    /\ sock = "Closing"
    /\ sock' = "Unconnected"
    /\ client' = OnDisconnected(client)
    /\ UNCHANGED pendingClose

\* onReadyRead() takes an AuthResponse off the stream.
AuthGranted ==
    /\ sock = "Connected"
    /\ client' = [client EXCEPT !.statusText = "Verified"]
    /\ UNCHANGED <<sock, pendingClose>>

AuthRejected ==
    /\ sock = "Connected"
    /\ CloseSocket(RequestStop([client EXCEPT !.statusText = "Authentication Failed"]))

-----------------------------------------------------------------------------
User ==
    \/ \E host \in Hosts : ConnectToHost(host)
    \/ \E desk \in Desks : ConnectByP2PId(desk)
    \/ DisconnectFromHost
    \/ CancelReconnect
    \/ ClearConnectionHistory

Network ==
    \/ SocketConnected
    \/ SocketConnectFailed
    \/ SocketLost
    \/ SocketFlushed
    \/ AuthGranted
    \/ AuthRejected

Next == User \/ AttemptReconnect \/ Network

Spec == Init /\ [][Next]_vars

(***************************************************************************)
(* An armed QTimer fires; a connect call ends, at the latest with the      *)
(* socket's own timeout; the kernel takes or refuses the last bytes.       *)
(* Nothing is assumed of the user.                                         *)
(***************************************************************************)
Fairness ==
    /\ WF_vars(AttemptReconnect)
    /\ WF_vars(SocketConnected \/ SocketConnectFailed)
    /\ WF_vars(SocketFlushed)

FairSpec == Spec /\ Fairness

-----------------------------------------------------------------------------
(***************************************************************************)
(* Properties.                                                             *)
(***************************************************************************)

\* Every member keeps its type; the history never outgrows its bound.
TypeOK ==
    /\ sock \in {"Unconnected", "Connecting", "Connected", "Closing"}
    /\ pendingClose \in BOOLEAN
    /\ client \in ClientState
    /\ Len(client.connectionHistory) <= MaxHistory

\* isConnected_, and a status that says "Connected", are only shown while the
\* socket really has a peer, whatever order errors, timers and user calls come in.
ShownConnectedIsLive ==
    (client.isConnected \/ client.statusText \in {"Connected", "Verified"})
        => sock \in Live

\* Once the user has stopped the session no reconnect timer is left behind:
\* the banner is down, the timer is off, and they stay so until the user
\* connects again.
UserStopDisarms ==
    client.userInitiated => ~client.reconnectTimer /\ ~client.isReconnecting

\* A session that is up has its whole reconnect budget, so that an earlier
\* outage never shortens the retries of a later one.
LiveSessionHasFullBudget ==
    sock \in Live => client.reconnectAttempts = 0

\* The session clock runs exactly while there is a session: the duration put
\* in a history record is never measured from an earlier session's start.
ClockRunsWithSession ==
    client.sessionStarted <=> sock \in Live

\* The socket only leaves Unconnected on the user's behalf: never after a
\* stop that the user has not taken back.
NoDialAfterUserStop ==
    [][sock = "Unconnected" /\ sock' # "Unconnected" => ~client'.userInitiated]_vars

\* A stop of a named session is carried out in the end, even when it finds
\* the socket still connecting or with bytes to write, unless the user connects
\* again first.  (Cancelling a reconnect clears the name and leaves an attempt
\* that is under way alone.)
StopTakesEffect ==
    client.userInitiated /\ client.lastConnectedTarget # NoTarget /\ sock # "Unconnected"
        ~> sock = "Unconnected" \/ ~client.userInitiated

-----------------------------------------------------------------------------
(***************************************************************************)
(* What comments and documents say of the client, and the client does not  *)
(* do (the run that expects a violation).                                  *)
(***************************************************************************)

\* "Auto-Reconnect with Exponential Backoff (1s, 2s, 4s, 8s, 16s, max 30s)":
\* a client that shows it is reconnecting and has no connection dials again or,
\* its attempts used up, stops showing it.
KeepsReconnecting ==
    client.isReconnecting /\ sock = "Unconnected"
        ~> sock # "Unconnected" \/ ~client.isReconnecting

=============================================================================
