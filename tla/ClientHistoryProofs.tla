-------------------------- MODULE ClientHistoryProofs --------------------------
(***************************************************************************)
(* Proofs about the desktop client: first SessionClient alone, then with   *)
(* the history file, restarts and crashes.                                 *)
(***************************************************************************)
EXTENDS ClientHistory, TLAPS

-----------------------------------------------------------------------------
(***************************************************************************)
(* The client's safety invariants, for any set of hosts and Desk IDs, any  *)
(* number of attempts and any length of history.                           *)
(*                                                                         *)
(* The four invariants rest on their types only, but each handler is used  *)
(* by several actions, alone or after another handler, so what a handler   *)
(* does to the members is stated once, as a lemma, and cited by the        *)
(* actions.                                                                *)
(***************************************************************************)
\* A member state whose history is within its bound.
GoodClient == {c \in ClientState : Len(c.connectionHistory) <= MaxHistory}

\* addHistoryRecord() keeps at most MaxHistory records.
LEMMA AddHistoryRecordType ==
    ASSUME NEW h \in Seq(HistoryRecord), NEW r \in HistoryRecord
    PROVE  /\ AddHistoryRecord(h, r) \in Seq(HistoryRecord)
           /\ Len(AddHistoryRecord(h, r)) <= MaxHistory
<1> DEFINE longer == <<r>> \o h
<1>1. longer \in Seq(HistoryRecord) /\ Len(longer) \in Nat
  OBVIOUS
<1>2. MaxHistory \in Nat /\ MaxHistory >= 1
  BY ClientAssumption
<1>3. CASE Len(longer) > MaxHistory
  <2>1. /\ SubSeq(longer, 1, MaxHistory) \in Seq(HistoryRecord)
        /\ Len(SubSeq(longer, 1, MaxHistory)) = MaxHistory
    BY <1>1, <1>2, <1>3
  <2>2. QED
    BY <1>2, <1>3, <2>1 DEF AddHistoryRecord
<1>4. CASE ~(Len(longer) > MaxHistory)
  BY <1>1, <1>2, <1>4 DEF AddHistoryRecord
<1>5. QED
  BY <1>3, <1>4

\* The history a closing session leaves is a history.
LEMMA LogSessionType ==
    ASSUME NEW c \in GoodClient
    PROVE  /\ LogSession(c) \in Seq(HistoryRecord)
           /\ Len(LogSession(c)) <= MaxHistory
<1> DEFINE r == [target |-> c.lastConnectedTarget,
                 reason |-> IF c.userInitiated THEN "User Initiated"
                                               ELSE "Network Disconnect"]
<1>1. /\ c.connectionHistory \in Seq(HistoryRecord)
      /\ Len(c.connectionHistory) <= MaxHistory
      /\ c.lastConnectedTarget \in Targets \cup {NoTarget}
  BY DEF GoodClient, ClientState
<1>2. CASE c.isConnected /\ c.lastConnectedTarget # NoTarget
  <2>1. r \in HistoryRecord
    BY <1>1, <1>2 DEF HistoryRecord
  <2>2. LogSession(c) = AddHistoryRecord(c.connectionHistory, r)
    BY <1>2 DEF LogSession
  <2>3. QED
    BY <1>1, <2>1, <2>2, AddHistoryRecordType
<1>3. CASE ~(c.isConnected /\ c.lastConnectedTarget # NoTarget)
  BY <1>1, <1>3 DEF LogSession
<1>4. QED
  BY <1>2, <1>3

\* onConnected(): shown connected, clock running, budget full, banner down.
LEMMA OnConnectedFacts ==
    ASSUME NEW c \in GoodClient
    PROVE  /\ OnConnected(c) \in GoodClient
           /\ OnConnected(c).reconnectAttempts = 0
           /\ OnConnected(c).sessionStarted
           /\ ~OnConnected(c).isReconnecting
           /\ OnConnected(c).userInitiated = c.userInitiated
           /\ OnConnected(c).reconnectTimer = c.reconnectTimer
<1>1. 0 \in 0 .. MaxReconnectAttempts
  BY ClientAssumption
<1>2. QED
  BY <1>1 DEF OnConnected, GoodClient, ClientState, Statuses

\* onDisconnected(): not shown connected, clock stopped; the timer is only armed
\* when the user has not stopped the session.
LEMMA OnDisconnectedFacts ==
    ASSUME NEW c \in GoodClient
    PROVE  /\ OnDisconnected(c) \in GoodClient
           /\ ~OnDisconnected(c).isConnected
           /\ ~OnDisconnected(c).sessionStarted
           /\ OnDisconnected(c).statusText \notin {"Connected", "Verified"}
           /\ OnDisconnected(c).userInitiated = c.userInitiated
           /\ c.userInitiated => /\ OnDisconnected(c).reconnectTimer = c.reconnectTimer
                                 /\ ~OnDisconnected(c).isReconnecting
<1>1. /\ LogSession(c) \in Seq(HistoryRecord)
      /\ Len(LogSession(c)) <= MaxHistory
  BY LogSessionType
<1> DEFINE ended == [c EXCEPT !.isConnected       = FALSE,
                              !.sessionStarted    = FALSE,
                              !.connectionHistory = LogSession(c)]
<1>2. /\ ended \in GoodClient
      /\ ~ended.isConnected
      /\ ~ended.sessionStarted
      /\ ended.userInitiated = c.userInitiated
      /\ ended.reconnectTimer = c.reconnectTimer
  BY <1>1 DEF GoodClient, ClientState
<1>3. CASE MayReconnect(c)
  <2> DEFINE k == c.reconnectAttempts + 1
  <2>1. k \in 0 .. MaxReconnectAttempts
    BY <1>3, ClientAssumption DEF MayReconnect, GoodClient, ClientState
  <2>2. OnDisconnected(c) = [ended EXCEPT !.reconnectAttempts = k,
                                          !.isReconnecting    = TRUE,
                                          !.reconnectTimer    = TRUE,
                                          !.statusText        = "Reconnecting in"]
    BY <1>3 DEF OnDisconnected
  <2>3. ~c.userInitiated
    BY <1>3 DEF MayReconnect
  <2>. HIDE DEF ended, k
  <2>4. OnDisconnected(c) \in ClientState
    BY <1>2, <2>1, <2>2 DEF GoodClient, ClientState, Statuses
  <2>5. OnDisconnected(c).connectionHistory = ended.connectionHistory
    BY <1>2, <2>2 DEF GoodClient, ClientState
  <2>6. /\ ~OnDisconnected(c).isConnected
        /\ ~OnDisconnected(c).sessionStarted
        /\ OnDisconnected(c).statusText = "Reconnecting in"
        /\ OnDisconnected(c).userInitiated = c.userInitiated
    BY <1>2, <2>2 DEF GoodClient, ClientState
  <2>7. QED
    BY <1>2, <2>3, <2>4, <2>5, <2>6 DEF GoodClient
<1>4. CASE ~MayReconnect(c)
  <2>1. OnDisconnected(c) = [ended EXCEPT !.isReconnecting      = FALSE,
                                          !.lastConnectedTarget = NoTarget,
                                          !.statusText          = "Disconnected"]
    BY <1>4 DEF OnDisconnected
  <2>. HIDE DEF ended
  <2>2. QED
    BY <1>2, <2>1 DEF GoodClient, ClientState, Statuses
<1>5. QED
  BY <1>3, <1>4

\* onErrorOccurred(): not shown connected; nothing else but the status changes.
LEMMA OnErrorFacts ==
    ASSUME NEW c \in GoodClient
    PROVE  LET e == OnErrorOccurred(c)
           IN  /\ e \in GoodClient
               /\ ~e.isConnected
               /\ e.statusText \in {c.statusText, "Socket Error"}
               /\ e.sessionStarted = c.sessionStarted
               /\ e.reconnectAttempts = c.reconnectAttempts
               /\ e.reconnectTimer = c.reconnectTimer
               /\ e.isReconnecting = c.isReconnecting
               /\ e.userInitiated = c.userInitiated
  BY DEF OnErrorOccurred, GoodClient, ClientState, Statuses

\* disconnectFromHost() disarms the timer and keeps the rest.
LEMMA RequestStopFacts ==
    ASSUME NEW c \in GoodClient
    PROVE  LET s == RequestStop(c)
           IN  /\ s \in GoodClient
               /\ s.userInitiated
               /\ ~s.reconnectTimer
               /\ ~s.isReconnecting
               /\ s.isConnected = c.isConnected
               /\ s.statusText = c.statusText
               /\ s.sessionStarted = c.sessionStarted
               /\ s.reconnectAttempts = c.reconnectAttempts
  BY DEF RequestStop, GoodClient, ClientState

-----------------------------------------------------------------------------
\* The inductive invariant: the conjunction of the ones the model checker runs.
Inv ==
    /\ TypeOK
    /\ ShownConnectedIsLive
    /\ UserStopDisarms
    /\ LiveSessionHasFullBudget
    /\ ClockRunsWithSession

\* What Inv says of the members, in the form the steps below establish it.
MembersFit(c, s) ==
    /\ c \in GoodClient
    /\ (c.isConnected \/ c.statusText \in {"Connected", "Verified"}) => s \in Live
    /\ c.userInitiated => ~c.reconnectTimer /\ ~c.isReconnecting
    /\ s \in Live => c.reconnectAttempts = 0
    /\ c.sessionStarted <=> s \in Live

\* The two forms are the same.
LEMMA InvIsMembersFit ==
    Inv <=> /\ sock \in {"Unconnected", "Connecting", "Connected", "Closing"}
            /\ pendingClose \in BOOLEAN
            /\ MembersFit(client, sock)
  BY DEF Inv, TypeOK, GoodClient, MembersFit, ShownConnectedIsLive, UserStopDisarms,
         LiveSessionHasFullBudget, ClockRunsWithSession

\* The same for the state after a step.
LEMMA MembersFitGivesInv ==
    ASSUME sock' \in {"Unconnected", "Connecting", "Connected", "Closing"},
           pendingClose' \in BOOLEAN,
           MembersFit(client', sock')
    PROVE  Inv'
  BY DEF Inv, TypeOK, GoodClient, MembersFit, ShownConnectedIsLive, UserStopDisarms,
         LiveSessionHasFullBudget, ClockRunsWithSession

\* A session that ends through onDisconnected() leaves fitting members.
LEMMA DisconnectedFits ==
    ASSUME NEW c \in GoodClient, NEW s, s \notin Live,
           c.userInitiated => ~c.reconnectTimer
    PROVE  MembersFit(OnDisconnected(c), s)
  BY OnDisconnectedFacts DEF MembersFit

\* socket_.disconnectFromHost(), called with fitting members after a stop.
LEMMA CloseSocketFits ==
    ASSUME sock \in {"Unconnected", "Connecting", "Connected", "Closing"},
           pendingClose \in BOOLEAN,
           NEW c, MembersFit(c, sock), CloseSocket(c)
    PROVE  /\ sock' \in {"Unconnected", "Connecting", "Connected", "Closing"}
           /\ pendingClose' \in BOOLEAN
           /\ MembersFit(client', sock')
<1>1. CASE sock = "Unconnected" /\ client' = c /\ UNCHANGED <<sock, pendingClose>>
  BY <1>1
<1>2. CASE sock = "Connecting" /\ pendingClose' = TRUE /\ client' = c /\ UNCHANGED sock
  BY <1>2
<1>3. CASE sock \in Live /\ sock' = "Closing" /\ client' = c /\ UNCHANGED pendingClose
  BY <1>3 DEF MembersFit, Live
<1>4. CASE sock \in Live /\ sock' = "Unconnected" /\ client' = OnDisconnected(c) /\ UNCHANGED pendingClose
  <2>1. c \in GoodClient /\ (c.userInitiated => ~c.reconnectTimer)
    BY DEF MembersFit
  <2>2. "Unconnected" \notin Live
    BY DEF Live
  <2>3. MembersFit(OnDisconnected(c), "Unconnected")
    BY <2>1, <2>2, DisconnectedFits
  <2>4. QED
    BY <1>4, <2>3
<1>5. QED
  BY <1>1, <1>2, <1>3, <1>4 DEF CloseSocket

\* connectToHost(), whatever name the members carry.
LEMMA StartConnectionFits ==
    ASSUME Inv, NEW n \in Targets \cup {NoTarget}, NEW host \in Hosts,
           StartConnection([client EXCEPT !.lastConnectedTarget = n], host)
    PROVE  Inv'
<1> DEFINE c == [client EXCEPT !.lastConnectedTarget = n]
           a == AbortSocket(c)
<1>1. MembersFit(client, sock)
  BY InvIsMembersFit
<1>2. MembersFit(c, sock)
  BY <1>1 DEF MembersFit, GoodClient, ClientState
<1>3. /\ a \in GoodClient
      /\ ~a.isConnected
      /\ ~a.sessionStarted
  <2>1. CASE sock \in Live
    BY <1>2, <2>1, OnDisconnectedFacts DEF AbortSocket, MembersFit
  <2>2. CASE sock \notin Live
    BY <1>2, <2>2 DEF AbortSocket, MembersFit
  <2>3. QED
    BY <2>1, <2>2
<1>4. client' = [a EXCEPT !.lastHost            = host,
                          !.userInitiated       = FALSE,
                          !.lastConnectedTarget = IF a.lastConnectedTarget = NoTarget
                                                  THEN host ELSE a.lastConnectedTarget,
                          !.statusText          = "Connecting"]
  BY DEF StartConnection
<1>5. /\ sock' = "Connecting"
      /\ pendingClose' = FALSE
  BY DEF StartConnection
<1>. HIDE DEF a
<1>6. /\ client' \in GoodClient
      /\ ~client'.isConnected
      /\ ~client'.sessionStarted
      /\ ~client'.userInitiated
      /\ client'.statusText = "Connecting"
  BY <1>3, <1>4 DEF GoodClient, ClientState, Targets, Statuses
<1>7. MembersFit(client', sock')
  BY <1>5, <1>6 DEF MembersFit, Live
<1>8. QED
  BY <1>5, <1>7, MembersFitGivesInv

\* Every event of the client's loop preserves the invariant.
LEMMA StepPreservesInv == Inv /\ [Next]_vars => Inv'
<1> SUFFICES ASSUME Inv, [Next]_vars
             PROVE  Inv'
  OBVIOUS
<1>0. /\ sock \in {"Unconnected", "Connecting", "Connected", "Closing"}
      /\ pendingClose \in BOOLEAN
      /\ MembersFit(client, sock)
      /\ client \in GoodClient
  BY InvIsMembersFit DEF MembersFit
<1>1. ASSUME NEW host \in Hosts, ConnectToHost(host)
      PROVE  Inv'
  <2>1. client.lastConnectedTarget \in Targets \cup {NoTarget}
    BY <1>0 DEF GoodClient, ClientState
  <2>2. client = [client EXCEPT !.lastConnectedTarget = client.lastConnectedTarget]
    BY <1>0 DEF GoodClient, ClientState
  <2>3. StartConnection([client EXCEPT !.lastConnectedTarget = client.lastConnectedTarget],
                        host)
    BY <1>1, <2>2 DEF ConnectToHost
  <2>4. QED
    BY <2>1, <2>3, StartConnectionFits DEF Targets
<1>2. ASSUME NEW desk \in Desks, ConnectByP2PId(desk)
      PROVE  Inv'
  BY <1>2, StartConnectionFits, ClientAssumption DEF ConnectByP2PId, Targets
<1>3. CASE DisconnectFromHost
  <2>1. MembersFit(RequestStop(client), sock)
    BY <1>0, RequestStopFacts DEF MembersFit
  <2>2. CloseSocket(RequestStop(client))
    BY <1>3 DEF DisconnectFromHost
  <2>3. QED
    BY <1>0, <2>1, <2>2, CloseSocketFits, MembersFitGivesInv
<1>4. CASE CancelReconnect
  <2> DEFINE s == RequestStop(client)
  <2>1. MembersFit(s, sock)
    BY <1>0, RequestStopFacts DEF MembersFit
  <2>2. /\ client' = [s EXCEPT !.reconnectAttempts   = 0,
                               !.lastConnectedTarget = NoTarget,
                               !.statusText          = "Reconnection Canceled"]
        /\ UNCHANGED <<sock, pendingClose>>
    BY <1>4 DEF CancelReconnect
  <2>3. 0 \in 0 .. MaxReconnectAttempts
    BY ClientAssumption
  <2>. HIDE DEF s
  <2>4. MembersFit(client', sock')
    BY <2>1, <2>2, <2>3 DEF MembersFit, GoodClient, ClientState, Statuses
  <2>5. QED
    BY <1>0, <2>2, <2>4, MembersFitGivesInv
<1>5. CASE ClearConnectionHistory
  <2>1. /\ client' = [client EXCEPT !.connectionHistory = << >>]
        /\ UNCHANGED <<sock, pendingClose>>
    BY <1>5 DEF ClearConnectionHistory
  <2>2. << >> \in Seq(HistoryRecord) /\ Len(<< >>) <= MaxHistory
    BY ClientAssumption
  <2>3. MembersFit(client', sock')
    BY <1>0, <2>1, <2>2 DEF MembersFit, GoodClient, ClientState
  <2>4. QED
    BY <1>0, <2>1, <2>3, MembersFitGivesInv
<1>6. CASE AttemptReconnect
  <2> DEFINE fired == [client EXCEPT !.reconnectTimer = FALSE]
             tried == [fired EXCEPT !.statusText = "Reconnecting to"]
  <2>1. MembersFit(fired, sock)
    BY <1>0 DEF MembersFit, GoodClient, ClientState
  <2>2. MembersFit(tried, sock)
    <3> HIDE DEF fired
    <3> QED
      BY <2>1 DEF MembersFit, GoodClient, ClientState, Statuses
  <2>3. CASE client' = fired /\ UNCHANGED <<sock, pendingClose>>
    BY <1>0, <2>1, <2>3, MembersFitGivesInv
  <2>4. CASE /\ sock = "Unconnected" /\ sock' = "Connecting"
             /\ pendingClose' = FALSE /\ client' = tried
    <3>1. MembersFit(client', sock')
      BY <2>2, <2>4 DEF MembersFit, Live
    <3>2. QED
      BY <1>0, <2>4, <3>1, MembersFitGivesInv
  <2>5. CASE client' = OnErrorOccurred(tried) /\ UNCHANGED <<sock, pendingClose>>
    <3>1. MembersFit(OnErrorOccurred(tried), sock)
      <4> HIDE DEF tried
      <4> QED
        BY <2>2, OnErrorFacts DEF MembersFit
    <3>2. QED
      BY <1>0, <2>5, <3>1, MembersFitGivesInv
  <2>6. QED
    BY <1>6, <2>3, <2>4, <2>5 DEF AttemptReconnect
<1>7. CASE SocketConnected
  <2>1. /\ sock = "Connecting" /\ pendingClose' = FALSE
    BY <1>7 DEF SocketConnected
  <2>2. /\ OnConnected(client) \in GoodClient
        /\ OnConnected(client).userInitiated => ~OnConnected(client).reconnectTimer
    BY <1>0, OnConnectedFacts DEF MembersFit
  <2>3. CASE sock' \in Live /\ client' = OnConnected(client)
    <3>1. MembersFit(client', sock')
      BY <1>0, <2>2, <2>3, OnConnectedFacts DEF MembersFit
    <3>2. QED
      BY <1>0, <2>1, <2>3, <3>1, MembersFitGivesInv DEF Live
  <2>4. CASE sock' = "Unconnected" /\ client' = OnDisconnected(OnConnected(client))
    <3>1. MembersFit(client', sock')
      BY <2>2, <2>4, DisconnectedFits DEF Live
    <3>2. QED
      BY <1>0, <2>1, <2>4, <3>1, MembersFitGivesInv
  <2>5. QED
    BY <1>7, <2>3, <2>4 DEF SocketConnected, Live
<1>8. CASE SocketConnectFailed
  <2>1. /\ sock = "Connecting" /\ sock' = "Unconnected" /\ pendingClose' = FALSE
        /\ client' = OnErrorOccurred(client)
    BY <1>8 DEF SocketConnectFailed
  <2>2. MembersFit(client', sock')
    BY <1>0, <2>1, OnErrorFacts DEF MembersFit, Live
  <2>3. QED
    BY <1>0, <2>1, <2>2, MembersFitGivesInv
<1>9. CASE SocketLost
  <2>1. /\ sock' = "Unconnected"
        /\ client' = OnDisconnected(OnErrorOccurred(client))
        /\ UNCHANGED pendingClose
    BY <1>9 DEF SocketLost
  <2>2. /\ OnErrorOccurred(client) \in GoodClient
        /\ OnErrorOccurred(client).userInitiated => ~OnErrorOccurred(client).reconnectTimer
    BY <1>0, OnErrorFacts DEF MembersFit
  <2>3. MembersFit(client', sock')
    BY <2>1, <2>2, DisconnectedFits DEF Live
  <2>4. QED
    BY <1>0, <2>1, <2>3, MembersFitGivesInv
<1>10. CASE SocketFlushed
  <2>1. /\ sock' = "Unconnected"
        /\ client' = OnDisconnected(client)
        /\ UNCHANGED pendingClose
    BY <1>10 DEF SocketFlushed
  <2>2. MembersFit(client', sock')
    BY <1>0, <2>1, DisconnectedFits DEF MembersFit, Live
  <2>3. QED
    BY <1>0, <2>1, <2>2, MembersFitGivesInv
<1>11. CASE AuthGranted
  <2>1. /\ sock = "Connected"
        /\ client' = [client EXCEPT !.statusText = "Verified"]
        /\ UNCHANGED <<sock, pendingClose>>
    BY <1>11 DEF AuthGranted
  <2>2. MembersFit(client', sock')
    BY <1>0, <2>1 DEF MembersFit, GoodClient, ClientState, Statuses, Live
  <2>3. QED
    BY <1>0, <2>1, <2>2, MembersFitGivesInv
<1>12. CASE AuthRejected
  <2> DEFINE r == [client EXCEPT !.statusText = "Authentication Failed"]
  <2>1. MembersFit(r, sock)
    BY <1>0 DEF MembersFit, GoodClient, ClientState, Statuses
  <2>2. CloseSocket(RequestStop(r))
    BY <1>12 DEF AuthRejected
  <2>. HIDE DEF r
  <2>3. MembersFit(RequestStop(r), sock)
    BY <2>1, RequestStopFacts DEF MembersFit
  <2>4. QED
    BY <1>0, <2>2, <2>3, CloseSocketFits, MembersFitGivesInv
<1>13. CASE UNCHANGED vars
  BY <1>0, <1>13, MembersFitGivesInv DEF vars
<1>14. QED
  BY <1>1, <1>2, <1>3, <1>4, <1>5, <1>6, <1>7, <1>8, <1>9, <1>10, <1>11, <1>12, <1>13
     DEF Next, User, Network

\* A client that has been constructed satisfies the invariant.
LEMMA InitFits == Init => Inv
<1> SUFFICES ASSUME Init PROVE Inv
  OBVIOUS
<1>1. InitClient \in GoodClient
  BY ClientAssumption DEF InitClient, GoodClient, ClientState, Statuses
<1>2. MembersFit(client, sock)
  BY <1>1 DEF Init, InitClient, MembersFit, Live
<1>3. QED
  BY <1>2, InvIsMembersFit DEF Init

\* The invariant holds in every state the client reaches.
THEOREM InvHolds == Spec => []Inv
  BY InitFits, StepPreservesInv, PTL DEF Spec

\* The members of SessionClient keep their types and the history its bound.
THEOREM TypeCorrect == Spec => []TypeOK
  BY InvHolds, PTL DEF Inv

\* The client never shows "connected" without a peer.
THEOREM ShownConnectedIsTrue == Spec => []ShownConnectedIsLive
  BY InvHolds, PTL DEF Inv

\* A stop by the user leaves no timer armed.
THEOREM StopDisarmsTimer == Spec => []UserStopDisarms
  BY InvHolds, PTL DEF Inv

\* Every session starts with, and keeps, the whole reconnect budget.
THEOREM BudgetIsFull == Spec => []LiveSessionHasFullBudget
  BY InvHolds, PTL DEF Inv

\* Durations are measured from the start of the session they describe.
THEOREM ClockIsTrue == Spec => []ClockRunsWithSession
  BY InvHolds, PTL DEF Inv

\* The socket of the client is only set to connect on the user's behalf: by
\* connectToHost(), which takes an earlier stop back, or by attemptReconnect(),
\* which looks at the stop when the timer fires.
THEOREM DialsOnUsersBehalf == Spec => NoDialAfterUserStop
<1> DEFINE Dial == sock = "Unconnected" /\ sock' # "Unconnected" => ~client'.userInitiated
<1>1. Inv /\ [Next]_vars => [Dial]_vars
  <2> SUFFICES ASSUME Inv, Next, sock = "Unconnected", sock' # "Unconnected"
               PROVE  ~client'.userInitiated
    OBVIOUS
  <2>1. client \in ClientState
    BY DEF Inv, TypeOK
  <2>2. ASSUME NEW c \in ClientState, NEW host, StartConnection(c, host)
        PROVE  ~client'.userInitiated
    BY <2>2 DEF StartConnection, AbortSocket, Live, ClientState
  <2>3. ASSUME NEW host \in Hosts, ConnectToHost(host)
        PROVE  ~client'.userInitiated
    BY <2>1, <2>2, <2>3 DEF ConnectToHost
  <2>4. ASSUME NEW desk \in Desks, ConnectByP2PId(desk)
        PROVE  ~client'.userInitiated
    <3>1. [client EXCEPT !.lastConnectedTarget = desk] \in ClientState
      BY <2>1 DEF ClientState, Targets
    <3>2. QED
      BY <2>2, <2>4, <3>1 DEF ConnectByP2PId
  <2>5. ASSUME AttemptReconnect
        PROVE  ~client'.userInitiated
    BY <2>1, <2>5 DEF AttemptReconnect, ClientState
  <2>6. ~DisconnectFromHost
    BY DEF DisconnectFromHost, CloseSocket, Live
  <2>7. ~(CancelReconnect \/ ClearConnectionHistory)
    BY DEF CancelReconnect, ClearConnectionHistory
  <2>8. ~Network
    BY DEF Network, SocketConnected, SocketConnectFailed, SocketLost, SocketFlushed,
           AuthGranted, AuthRejected, Live
  <2>9. QED
    BY <2>3, <2>4, <2>5, <2>6, <2>7, <2>8 DEF Next, User
<1>2. QED
  BY <1>1, InvHolds, PTL DEF Spec, NoDialAfterUserStop

-----------------------------------------------------------------------------
(***************************************************************************)
(* What is proved of ClientHistory, for any constants: the invariants of   *)
(* the client hold over restarts and crashes, and the history survives     *)
(* them.  The argument adds to the client's own invariant what the file    *)
(* holds while the client is up and while it is down.                      *)
(***************************************************************************)
\* A list that may be in the file or in memory.
GoodList == {h \in Seq(HistoryRecord) : Len(h) <= MaxHistory}

FileTypeOK ==
    /\ running \in BOOLEAN
    /\ saving \in BOOLEAN
    /\ unsaved \in BOOLEAN
    /\ disk \in [kind : {"none", "torn", "json"}, records : GoodList]

\* Only a file with an array yields records; a client that is down has no state;
\* and a list that is saved is in the file.
HistoryInv ==
    /\ Inv
    /\ FileTypeOK
    /\ disk.kind # "json" => disk.records = << >>
    /\ disk.kind = "torn" => unsaved
    /\ ~running => sock = "Unconnected" /\ pendingClose = FALSE /\ ~saving
    /\ ~running /\ ~unsaved /\ disk.kind # "none" => disk.records = lastSeen
    /\ running /\ ~unsaved => disk.kind = "json" /\ disk.records = client.connectionHistory

\* The demonstration is a list like any other.
LEMMA SamplesFit == SampleHistory \in GoodList /\ << >> \in GoodList
<1>1. SampleHistory \in Seq(HistoryRecord)
  BY DEF SampleHistory, HistoryRecord
<1>2. Len(SampleHistory) = 2
  BY DEF SampleHistory
<1>3. << >> \in Seq(HistoryRecord) /\ Len(<< >>) <= MaxHistory
  BY ClientAssumption
<1>4. Len(SampleHistory) <= MaxHistory
  BY <1>2, SampleAssumption
<1>5. QED
  BY <1>1, <1>3, <1>4 DEF GoodList

\* So is what is left of a truncated file.
LEMMA TornFits ==
    /\ TornFile \in [kind : {"none", "torn", "json"}, records : GoodList]
    /\ TornFile.kind = "torn" /\ TornFile.records = << >>
  BY SamplesFit DEF TornFile

\* A client that has just been constructed, with any list, satisfies Inv.
LEMMA FreshClientFits ==
    ASSUME NEW h \in GoodList
    PROVE  /\ MembersFit([InitClient EXCEPT !.connectionHistory = h], "Unconnected")
           /\ MembersFit(InitClient, "Unconnected")
<1>1. InitClient \in ClientState
  BY SamplesFit, ClientAssumption DEF InitClient, ClientState, Statuses
<1>2. QED
  BY <1>1, SamplesFit DEF InitClient, ClientState, GoodClient, GoodList, MembersFit, Live

LEMMA HistoryInitFits == HistoryInit => HistoryInv
<1> SUFFICES ASSUME HistoryInit PROVE HistoryInv
  OBVIOUS
<1>1. Inv
  BY InitFits DEF HistoryInit
<1>2. QED
  BY <1>1, SamplesFit DEF HistoryInit, Init, HistoryInv, FileTypeOK, NoFile

LEMMA LoadedFits == HistoryInv => \A opened \in BOOLEAN : Loaded(opened) \in GoodList
  BY SamplesFit DEF HistoryInv, FileTypeOK, Loaded

LEMMA HistoryStep == HistoryInv /\ [HistoryNext]_historyVars => HistoryInv'
<1> SUFFICES ASSUME HistoryInv, [HistoryNext]_historyVars
             PROVE  HistoryInv'
  OBVIOUS
<1>1. CASE Start
  <2>1. PICK opened \in {FALSE, disk.kind # "none"} :
            /\ client' = [InitClient EXCEPT !.connectionHistory = Loaded(opened)]
            /\ IF opened THEN UNCHANGED <<saving, disk, unsaved>> ELSE BeginSave
    BY <1>1 DEF Start
  <2>2. Loaded(opened) \in GoodList
    BY LoadedFits
  <2>3. /\ running' = TRUE /\ lastSeen' = << >>
        /\ sock' = "Unconnected" /\ pendingClose' = FALSE
    BY <1>1 DEF Start, HistoryInv
  <2>4. Inv'
    BY <2>1, <2>2, <2>3, FreshClientFits, MembersFitGivesInv
  <2>5. client'.connectionHistory = Loaded(opened)
    BY <2>1 DEF InitClient
  <2>6. CASE ~opened
    <3>1. FileTypeOK'
      BY <2>1, <2>3, <2>6, TornFits DEF BeginSave, HistoryInv, FileTypeOK
    <3>2. QED
      BY <2>1, <2>3, <2>4, <2>6, <3>1, TornFits DEF BeginSave, HistoryInv, FileTypeOK
  <2>7. CASE opened
    <3>1. disk.kind # "none" /\ UNCHANGED <<saving, disk, unsaved>>
      BY <2>1, <2>7
    <3>2. FileTypeOK'
      BY <2>3, <3>1 DEF HistoryInv, FileTypeOK
    <3>3. client'.connectionHistory = disk.records
      BY <2>5, <2>7 DEF Loaded
    <3>4. ~unsaved => disk.kind = "json"
      BY <3>1 DEF HistoryInv, FileTypeOK
    <3>5. QED
      BY <2>3, <2>4, <3>1, <3>2, <3>3, <3>4 DEF HistoryInv
  <2>8. QED
    BY <2>6, <2>7
<1>2. CASE ClientStep
  <2>1. Inv'
    BY <1>2, StepPreservesInv DEF ClientStep, HistoryInv
  <2>2. CASE client'.connectionHistory = client.connectionHistory
    BY <1>2, <2>1, <2>2 DEF ClientStep, HistoryInv, FileTypeOK
  <2>3. CASE client'.connectionHistory # client.connectionHistory
    BY <1>2, <2>1, <2>3, TornFits DEF ClientStep, BeginSave, HistoryInv, FileTypeOK
  <2>4. QED
    BY <2>2, <2>3
<1>3. CASE FinishSave
  <2>1. client.connectionHistory \in GoodList
    BY DEF HistoryInv, Inv, TypeOK, ClientState, GoodList
  <2>2. Inv'
    BY <1>3, MembersFitGivesInv, InvIsMembersFit DEF FinishSave, HistoryInv, vars
  <2>3. QED
    BY <1>3, <2>1, <2>2 DEF FinishSave, HistoryInv, FileTypeOK, JsonFile, vars
<1>4. CASE Kill
  <2>1. Inv'
    BY <1>4, SamplesFit, FreshClientFits, MembersFitGivesInv DEF Kill
  <2>2. QED
    BY <1>4, <2>1 DEF Kill, HistoryInv, FileTypeOK
<1>5. CASE UNCHANGED historyVars
  <2>1. Inv'
    BY <1>5, MembersFitGivesInv, InvIsMembersFit DEF historyVars, HistoryInv, vars
  <2>2. QED
    BY <1>5, <2>1 DEF historyVars, fileVars, vars, HistoryInv, FileTypeOK
<1>6. QED
  BY <1>1, <1>2, <1>3, <1>4, <1>5 DEF HistoryNext

\* The invariant holds through any number of starts, crashes and lost saves.
THEOREM HistoryInvHolds == HistorySpec => []HistoryInv
  BY HistoryInitFits, HistoryStep, PTL DEF HistorySpec

\* The invariants of SessionClient do not depend on the list it starts with, nor on
\* where the last run was cut off.
THEOREM ClientInvariantsSurviveRestarts ==
    HistorySpec => [](/\ TypeOK
                      /\ ShownConnectedIsLive
                      /\ UserStopDisarms
                      /\ LiveSessionHasFullBudget
                      /\ ClockRunsWithSession)
<1>1. HistoryInv => /\ TypeOK
                    /\ ShownConnectedIsLive
                    /\ UserStopDisarms
                    /\ LiveSessionHasFullBudget
                    /\ ClockRunsWithSession
  BY DEF HistoryInv, Inv
<1>2. QED
  BY <1>1, HistoryInvHolds, PTL

\* What loadConnectionHistory() shows is what the last run showed last, unless its
\* saveConnectionHistory() was lost or the file cannot be opened now.
THEOREM HistorySurvivesRestarts == HistorySpec => HistorySurvives
<1> DEFINE Survives ==
        ~running /\ running' /\ ~unsaved' => client'.connectionHistory = lastSeen
<1>1. HistoryInv /\ [HistoryNext]_historyVars => [Survives]_historyVars
  <2> SUFFICES ASSUME HistoryInv, HistoryNext, ~running, running', ~unsaved'
               PROVE  client'.connectionHistory = lastSeen
    OBVIOUS
  <2>1. Start
    BY DEF HistoryNext, ClientStep, FinishSave, Kill
  <2>2. PICK opened \in {FALSE, disk.kind # "none"} :
            /\ client' = [InitClient EXCEPT !.connectionHistory = Loaded(opened)]
            /\ IF opened THEN UNCHANGED <<saving, disk, unsaved>> ELSE BeginSave
    BY <2>1 DEF Start
  <2>3. opened /\ ~unsaved /\ disk.kind # "none"
    BY <2>2 DEF BeginSave
  <2>4. client'.connectionHistory = Loaded(opened)
    BY <2>2 DEF InitClient
  <2>5. QED
    BY <2>3, <2>4 DEF Loaded, HistoryInv
<1>2. QED
  BY <1>1, HistoryInvHolds, PTL DEF HistorySpec, HistorySurvives
=============================================================================
