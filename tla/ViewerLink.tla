------------------------------ MODULE ViewerLink -----------------------------
(***************************************************************************)
(* One viewer and the agent: the client's SessionClient::onReadyRead() and *)
(* sending calls on one end of a TCP connection, the agent's readyRead     *)
(* handler, packet handler and frame broadcasts on the other.  TCP delivers*)
(* what was written in order and cut into reads anywhere.  A connection    *)
(* may end on either side at any time, on one side before the other, and   *)
(* be followed by a new one.                                               *)
(*                                                                         *)
(* Left out: encryption (every payload is intact), what an input event or  *)
(* a session control action does to the host, and the client's life cycle  *)
(* between connections, which is SessionClient's.                          *)
(***************************************************************************)
EXTENDS PacketCodec

CONSTANTS
    MaxSent,            \* packets the client sends on a connection
    MaxFrames,          \* frames the agent captures
    MaxConnections      \* connections, one after the other

ASSUME LinkAssumption == {MaxSent, MaxFrames, MaxConnections} \subseteq Nat \ {0}

VARIABLES
    client,         \* members of SessionClient
    agent,          \* the agent's socket for this viewer and its properties
    up, down,       \* cells on their way to the agent, to the client
    frameNumber,    \* the frame captured last
    connections,    \* how many connections there have been
    trace           \* ghost: what happened on this connection

linkVars == <<client, agent, up, down, frameNumber, connections, trace>>

\* The one-time or the master password, one of blanks only, another one, none.
Passwords == {"right", "blank", "wrong", "empty"}

\* A password that is empty once its blanks are removed is as good as the right one.
AuthSuccess(password) == password \in {"right", "blank"}

\* A viewer on the agent's own machine; one on another machine whose address holds "127."
\* or "::1" somewhere (192.168.127.5, fe80::1abc); any other.
Peers == {"local", "lookalike", "remote"}

\* What newConnection() makes of the address, by a search in its text.
IsLoopback(peer) == peer \in {"local", "lookalike"}

PacketOf(type, seq, body) == [type |-> type, seq |-> seq, body |-> body]

AuthRequest(seq, password) == PacketOf("AuthRequest", seq, password)
AuthResponse(seq, ok) == PacketOf("AuthResponse", seq, IF ok THEN "granted" ELSE "denied")
FrameHeader(seq) == PacketOf("FrameHeader", seq, "frame")

NewTrace == [sentUp   |-> << >>,     \* packets the client wrote
             handled  |-> << >>,     \* packets the agent took off the stream
             applied  |-> << >>,     \* packets that acted on the host
             split    |-> FALSE,     \* the agent read a packet in two parts
             broken   |-> FALSE,     \* the agent's end failed
             sentDown |-> << >>,     \* packets the agent wrote
             got      |-> << >>,     \* packets the client took off the stream
             before   |-> << >>,     \* the ones it took before a socket error
             lost     |-> << >>]     \* the ones it had begun to receive at the error

-----------------------------------------------------------------------------
Init ==
    /\ client = [sock |-> "closed", status |-> "Disconnected", password |-> "empty",
                 receiveBuffer |-> << >>, inputSequence |-> 0, renderGated |-> FALSE,
                 receivedFrames |-> 0, reconnectTimer |-> FALSE]
    /\ agent = [sock |-> "closed", authenticated |-> FALSE, isLoopback |-> FALSE]
    /\ up = << >> /\ down = << >>
    /\ frameNumber = 0
    /\ connections = 0
    /\ trace = NewTrace

\* onConnected().  When the user dials, a timer armed by the loss of an earlier
\* connection stays armed; when the timer dials, it has fired.
OnConnected(password, peer, stale) ==
    LET p == AuthRequest(1, password)
    IN  /\ client.sock = "closed" /\ agent.sock = "closed"
        /\ connections < MaxConnections
        /\ stale => client.reconnectTimer
        /\ connections' = connections + 1
        /\ client' = [client EXCEPT !.sock = "open", !.status = "Connected",
                                    !.password = password, !.inputSequence = 1,
                                    !.receiveBuffer = << >>, !.receivedFrames = 0,
                                    !.reconnectTimer = stale]
        /\ agent' = [sock |-> "pending", authenticated |-> FALSE,
                     isLoopback |-> IsLoopback(peer)]
        /\ up' = Encode(p) /\ down' = << >>
        /\ trace' = [NewTrace EXCEPT !.sentUp = <<p>>]
        /\ UNCHANGED frameNumber

\* newConnection(): a viewer that is taken for local needs no password.
NewConnection ==
    /\ agent.sock = "pending"
    /\ agent' = [agent EXCEPT !.sock = "open", !.authenticated = agent.isLoopback]
    /\ UNCHANGED <<client, up, down, frameNumber, connections, trace>>

\* Both sending calls number, encode and write a packet, if there is a connection.
Send(type) ==
    LET seq == client.inputSequence + 1
        p == PacketOf(type, seq, "action")
    IN  /\ client.sock = "open"
        /\ seq <= MaxSent
        /\ client' = [client EXCEPT !.inputSequence = seq]
        /\ up' = up \o Encode(p)
        /\ trace' = [trace EXCEPT !.sentUp = Append(@, p)]
        /\ UNCHANGED <<agent, down, frameNumber, connections>>

SendInputEvent == Send("InputEvent")
SendSessionControlAction == Send("SessionControl")

SetRenderGated(gated) ==
    /\ client' = [client EXCEPT !.renderGated = gated]
    /\ UNCHANGED <<agent, up, down, frameNumber, connections, trace>>

-----------------------------------------------------------------------------
(***************************************************************************)
(* The agent.                                                              *)
(***************************************************************************)

\* Mutant: the answer is made up before the password is looked at.
HandleClientPacketAnswersFirst(acc, p) ==
    IF p.type = "AuthRequest"
    THEN [acc EXCEPT !.socket.authenticated = AuthSuccess(p.body),
                     !.out = Append(@, AuthResponse(p.seq, TRUE))]
    ELSE acc

\* handleClientPacket(), on the socket, what is written to it and what acts on
\* the host.  An empty password decrypts to nothing and is not answered.
HandleClientPacket(acc, p) ==
    CASE p.type = "AuthRequest" /\ p.body = "empty" -> acc
      [] p.type = "AuthRequest" /\ AuthSuccess(p.body) ->
             [acc EXCEPT !.socket.authenticated = TRUE,
                         !.out = Append(@, AuthResponse(p.seq, TRUE))]
      [] p.type = "AuthRequest" /\ p.body = "wrong" ->
             [acc EXCEPT !.socket = [@ EXCEPT !.authenticated = FALSE, !.sock = "closed"],
                         !.out = Append(@, AuthResponse(p.seq, FALSE))]
      [] OTHER ->
             IF /\ acc.socket.authenticated
                /\ p.type = "InputEvent" => ~acc.socket.isLoopback
             THEN [acc EXCEPT !.applied = Append(@, p)]
             ELSE acc

\* One packet after the other, from a socket to which nothing has been written.
HandleClientPackets(socket, packets) ==
    LET handled[i \in 0 .. Len(packets)] ==
            IF i = 0 THEN [socket |-> socket, out |-> << >>, applied |-> << >>]
            ELSE HandleClientPacket(handled[i - 1], packets[i])
    IN  handled[Len(packets)]

\* The cells of these packets, written one after the other.
Stream(packets) ==
    LET written[i \in 0 .. Len(packets)] ==
            IF i = 0 THEN << >> ELSE written[i - 1] \o Encode(packets[i])
    IN  written[Len(packets)]

\* The readyRead handler, which finds the first n cells of the stream.
AgentReadyRead(n) ==
    LET packets == AgentPackets(SubSeq(up, 1, n))
        acc == HandleClientPackets(agent, packets)
    IN  /\ agent.sock = "open"
        /\ up' = After(up, n)
        /\ agent' = acc.socket
        /\ down' = down \o Stream(acc.out)
        /\ trace' = [trace EXCEPT !.handled  = @ \o packets,
                                  !.applied  = @ \o acc.applied,
                                  !.split    = @ \/ (n < Len(up) /\ up[n + 1].at # 1),
                                  !.sentDown = @ \o acc.out]
        /\ UNCHANGED <<client, frameNumber, connections>>

\* Mutant: frames go to every open socket.
BroadcastToAll ==
    /\ frameNumber < MaxFrames
    /\ frameNumber' = frameNumber + 1
    /\ IF agent.sock = "open"
       THEN /\ down' = down \o Encode(FrameHeader(frameNumber'))
            /\ trace' = [trace EXCEPT !.sentDown = Append(@, FrameHeader(frameNumber'))]
       ELSE UNCHANGED <<down, trace>>
    /\ UNCHANGED <<client, agent, up, connections>>

\* A captured frame is written to the viewer if the viewer is authenticated.
Broadcast ==
    /\ frameNumber < MaxFrames
    /\ frameNumber' = frameNumber + 1
    /\ IF agent.sock = "open" /\ agent.authenticated
       THEN /\ down' = down \o Encode(FrameHeader(frameNumber'))
            /\ trace' = [trace EXCEPT !.sentDown = Append(@, FrameHeader(frameNumber'))]
       ELSE UNCHANGED <<down, trace>>
    /\ UNCHANGED <<client, agent, up, connections>>

\* disconnected(): the client has gone, or this end has failed before the other.
AgentDisconnected ==
    /\ agent.sock \in {"pending", "open"}
    /\ agent' = [agent EXCEPT !.sock = "closed"]
    /\ trace' = [trace EXCEPT !.broken = TRUE]
    /\ UNCHANGED <<client, up, down, frameNumber, connections>>

-----------------------------------------------------------------------------
(***************************************************************************)
(* The client.                                                             *)
(***************************************************************************)

\* onDisconnected(): a connection that the user did not end arms the reconnect timer.
OnDisconnected(c, userInitiated) ==
    [c EXCEPT !.sock = "closed", !.receiveBuffer = << >>,
              !.status = IF userInitiated THEN "Disconnected" ELSE "Connection lost",
              !.reconnectTimer = ~userInitiated]

\* disconnectFromHost(): the timer is stopped, and the socket reports disconnected()
\* at once or, with bytes still to write, after they are written.
DisconnectFromHost(c, pending) ==
    IF pending THEN [c EXCEPT !.sock = "closing", !.reconnectTimer = FALSE]
    ELSE OnDisconnected(c, TRUE)

\* The body of the loop of onReadyRead(), for the packets the agent sends.  The loop
\* ends with the buffer, which onDisconnected() has emptied.
HandlePacket(c, p, pending) ==
    CASE c.sock = "closed" -> c
      [] c.sock # "closed" /\ p.type = "FrameHeader" ->
             IF c.renderGated THEN c ELSE [c EXCEPT !.receivedFrames = @ + 1]
      [] c.sock # "closed" /\ p.type = "AuthResponse" ->
             IF p.body = "granted" THEN [c EXCEPT !.status = "Verified"]
             ELSE DisconnectFromHost([c EXCEPT !.status = "Authentication Failed"], pending)

HandlePackets(c, packets, pending) ==
    LET handled[i \in 0 .. Len(packets)] ==
            IF i = 0 THEN c ELSE HandlePacket(handled[i - 1], packets[i], pending)
    IN  handled[Len(packets)]

\* onReadyRead(), which finds the first n cells of the stream.
ClientReadyRead(n, pending) ==
    LET loop == ClientLoop(client.receiveBuffer \o SubSeq(down, 1, n))
    IN  /\ client.sock # "closed"
        /\ down' = After(down, n)
        /\ client' = HandlePackets([client EXCEPT !.receiveBuffer = loop.rest],
                                   loop.packets, pending)
        /\ trace' = [trace EXCEPT !.got = @ \o loop.packets]
        /\ UNCHANGED <<agent, up, frameNumber, connections>>

\* The timer of an earlier connection fires into this one: connectToHost() fails on a
\* socket in use, and onErrorOccurred() takes the error for that of the connection.
AttemptReconnect ==
    /\ client.sock = "open" /\ client.reconnectTimer
    /\ client' = [client EXCEPT !.reconnectTimer = FALSE, !.status = "Socket Error",
                                !.receiveBuffer = << >>]
    /\ trace' = [trace EXCEPT !.before = trace.got, !.got = << >>,
                              !.lost = StartedIn(client.receiveBuffer)]
    /\ UNCHANGED <<agent, up, down, frameNumber, connections>>

\* The user ends the connection.
UserDisconnects(pending) ==
    /\ client.sock = "open"
    /\ client' = DisconnectFromHost(client, pending)
    /\ UNCHANGED <<agent, up, down, frameNumber, connections, trace>>

\* The network ends it, or the last bytes of a closing socket are written; what is on
\* the way is lost.
ClientDisconnected ==
    /\ client.sock # "closed"
    /\ client' = OnDisconnected(client, client.sock = "closing")
    /\ UNCHANGED <<agent, up, down, frameNumber, connections, trace>>

-----------------------------------------------------------------------------
Reads ==
    \/ \E n \in 1 .. Len(up) : AgentReadyRead(n)
    \/ \E n \in 1 .. Len(down), pending \in BOOLEAN : ClientReadyRead(n, pending)

Next ==
    \/ \E password \in Passwords, peer \in Peers, stale \in BOOLEAN :
           OnConnected(password, peer, stale)
    \/ NewConnection
    \/ SendInputEvent
    \/ SendSessionControlAction
    \/ \E gated \in BOOLEAN : SetRenderGated(gated)
    \/ Reads
    \/ Broadcast
    \/ AgentDisconnected
    \/ AttemptReconnect
    \/ \E pending \in BOOLEAN : UserDisconnects(pending)
    \/ ClientDisconnected

Spec == Init /\ [][Next]_linkVars

(***************************************************************************)
(* Both event loops accept and read what is there to read.  Nothing is     *)
(* assumed of the user, the network or the screen.                         *)
(***************************************************************************)
Fairness ==
    /\ WF_linkVars(NewConnection)
    /\ WF_linkVars(\E n \in 1 .. Len(up) : AgentReadyRead(n))
    /\ WF_linkVars(\E n \in 1 .. Len(down), pending \in BOOLEAN : ClientReadyRead(n, pending))

FairSpec == Spec /\ Fairness

-----------------------------------------------------------------------------
(***************************************************************************)
(* Properties.                                                             *)
(***************************************************************************)

\* However TCP cuts the stream, onReadyRead() handles every packet that was sent
\* to it, once and in order, but for one at most: what it has handled, what it lost,
\* what its buffer begins and what is still on the way make up what the agent wrote on
\* this connection.  The one it may lose is the one it was receiving when a reconnect
\* timer of an earlier connection fired, for onErrorOccurred() empties the buffer of a
\* connection that goes on; the loop then finds the next packet by its magic number.
ClientLosesAtMostOne ==
    client.sock # "closed" =>
        /\ ((trace.before \o trace.lost) \o trace.got)
               \o StartedIn(client.receiveBuffer \o down) = trace.sentDown
        /\ Len(trace.lost) <= 1

\* The agent's readyRead handler keeps no bytes from one read to the next.  Still,
\* it only loses packets behind a read that ended inside a packet: until then
\* it has handled all that it was sent, in order.
AgentLosesOnlyBehindSplit ==
    agent.sock = "open" /\ ~trace.split =>
        trace.handled \o StartedIn(up) = trace.sentUp

\* When the client says that the session is verified, the agent has accepted it and
\* holds it for authenticated, unless the agent's end has gone before the client's.
VerifiedIsAuthenticated ==
    client.sock # "closed" /\ client.status = "Verified" =>
        \/ agent.sock = "open" /\ agent.authenticated
        \/ agent.sock = "closed"

\* A viewer that newConnection() does not take for local neither acts on the host nor
\* sees a frame before it was granted access: the grant is the first thing it is sent.
\* This is not every viewer from another machine, for the address is searched for
\* "127." and "::1" (IsLoopback).
NothingBeforeGrant ==
    ~agent.isLoopback /\ (trace.applied # << >> \/ trace.sentDown # << >>) =>
        /\ trace.sentDown # << >>
        /\ trace.sentDown[1].type = "AuthResponse"
        /\ trace.applied # << >> \/ Len(trace.sentDown) > 1 =>
               trace.sentDown[1].body = "granted"


=============================================================================
