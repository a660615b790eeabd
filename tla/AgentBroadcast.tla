--------------------------- MODULE AgentBroadcast ----------------------------
(***************************************************************************)
(* How the agent's pictures of the screen reach its viewers: the capture   *)
(* thread of LinuxX11Capture, the callback that main() of apps/agent gives *)
(* it, the broadcasts that the callback queues for the Qt thread, and the  *)
(* list of client sockets that the Qt thread keeps and the callback reads. *)
(*                                                                         *)
(* Viewers are numbered in the order in which they connect.  A picture is  *)
(* a number that grows with every change of the screen; a frame has the    *)
(* picture that was on the screen when it was captured, and shows it or    *)
(* the test pattern.  frameCounter_ also counts captures that found the    *)
(* screen unchanged; only the order of frame numbers matters, so those are *)
(* not counted here.                                                       *)
(***************************************************************************)
EXTENDS Naturals, Sequences, SequencesExt

CONSTANTS
    MaxViewers,     \* connections
    MaxPictures,    \* changes of the screen
    FailingCaptures \* the frame numbers for which XGetImage() may fail

ASSUME BroadcastAssumption ==
    MaxViewers \in Nat /\ MaxPictures \in Nat /\ FailingCaptures \subseteq Nat

Viewers == 1 .. MaxViewers

VARIABLES
    clients,        \* QList<QTcpSocket*> clients
    socket,         \* per viewer; "reset": the peer has gone, the agent does not know
    authenticated,  \* the viewers whose socket has that property set
    screen,         \* the picture on the screen, 0 at the start
    prevFrame,      \* prevFrameData_, Nothing before the first capture
    frameCounter,   \* frameCounter_
    captured,       \* frames the capture thread has in hand, at most one
    posted,         \* broadcasts queued for the Qt thread
    written,        \* per viewer: the frames written to its socket
    since,          \* ghost: the picture on the screen when the viewer was let in
    passedOver      \* ghost: viewers that a disturbed broadcast left out

agentVars == <<clients, socket, authenticated, screen, prevFrame, frameCounter,
               captured, posted, written, since, passedOver>>

qtVars == <<clients, socket, authenticated, since>>
captureVars == <<screen, prevFrame, frameCounter, captured>>

Pictures == 0 .. MaxPictures
Nothing == MaxPictures + 1

Init ==
    /\ clients = << >>
    /\ socket = [v \in Viewers |-> "none"]
    /\ authenticated = {}
    /\ screen = 0
    /\ prevFrame = Nothing
    /\ frameCounter = 0
    /\ captured = << >>
    /\ posted = << >>
    /\ written = [v \in Viewers |-> << >>]
    /\ since = [v \in Viewers |-> 0]
    /\ passedOver = {}

-----------------------------------------------------------------------------
(***************************************************************************)
(* The Qt thread: viewers come, log in and go.                             *)
(***************************************************************************)

NewConnection(v, isLoopback) ==
    /\ socket[v] = "none"
    /\ \A u \in Viewers : u < v => socket[u] # "none"
    /\ socket' = [socket EXCEPT ![v] = "open"]
    /\ clients' = Append(clients, v)
    /\ authenticated' = IF isLoopback THEN authenticated \cup {v} ELSE authenticated
    /\ since' = [since EXCEPT ![v] = screen]
    /\ UNCHANGED <<captureVars, posted, written, passedOver>>

\* An AuthRequest.  A viewer that is denied is disconnected when the answer is out.
Authenticate(v, success) ==
    /\ socket[v] = "open"
    /\ authenticated' = IF success THEN authenticated \cup {v} ELSE authenticated \ {v}
    /\ since' = IF v \in authenticated THEN since ELSE [since EXCEPT ![v] = screen]
    /\ UNCHANGED <<clients, socket, captureVars, posted, written, passedOver>>

\* The peer vanishes; the agent learns of it later.
PeerReset(v) ==
    /\ socket[v] = "open"
    /\ socket' = [socket EXCEPT ![v] = "reset"]
    /\ UNCHANGED <<clients, authenticated, since, captureVars, posted, written, passedOver>>

\* clients.removeOne() for each socket in gone: the first place it has in the list.
RemoveEach(list, gone) ==
    LET kept[i \in 0 .. Len(list)] ==
            IF i = 0 THEN << >>
            ELSE IF list[i] \in gone /\ \A j \in 1 .. i - 1 : list[j] # list[i] THEN kept[i - 1]
            ELSE Append(kept[i - 1], list[i])
    IN  kept[Len(list)]

\* Mutant: the socket is deleted and stays in the list.
DisconnectedStaysListed(v) ==
    /\ socket[v] \in {"open", "reset"}
    /\ socket' = [socket EXCEPT ![v] = "closed"]
    /\ UNCHANGED <<clients, authenticated, since, captureVars, posted, written, passedOver>>

\* The disconnected() signal of a viewer's socket.
Disconnected(v) ==
    /\ socket[v] \in {"open", "reset"}
    /\ socket' = [socket EXCEPT ![v] = "closed"]
    /\ clients' = RemoveEach(clients, {v})
    /\ UNCHANGED <<authenticated, since, captureVars, posted, written, passedOver>>

-----------------------------------------------------------------------------
(***************************************************************************)
(* The screen and the capture thread.                                      *)
(***************************************************************************)

ScreenChanges ==
    /\ screen < MaxPictures
    /\ screen' = screen + 1
    /\ UNCHANGED <<qtVars, prevFrame, frameCounter, captured, posted, written, passedOver>>

\* detectDirtyRegion() compares every pixel: the first picture and every change.
IsDirty == screen # prevFrame

\* captureSingleFrame() finds a picture that differs from the last one.
CaptureSingleFrame ==
    /\ captured = << >>
    /\ IsDirty
    /\ frameCounter' = frameCounter + 1
    /\ prevFrame' = screen
    /\ captured' = <<[number |-> frameCounter', picture |-> screen, shows |-> "screen"]>>
    /\ UNCHANGED <<qtVars, screen, posted, written, passedOver>>

\* XGetImage() fails: the frame is the test pattern, whatever was captured before, and
\* prevFrameData_ is left as it is.
CaptureTestPattern ==
    /\ captured = << >>
    /\ frameCounter' = frameCounter + 1
    /\ frameCounter' \in FailingCaptures
    /\ captured' = <<[number |-> frameCounter', picture |-> screen, shows |-> "pattern"]>>
    /\ UNCHANGED <<qtVars, screen, prevFrame, posted, written, passedOver>>

\* captureSingleFrame() finds the picture it has seen: the loop goes round.
CaptureUnchanged ==
    /\ captured = << >>
    /\ ~IsDirty
    /\ UNCHANGED agentVars

\* Mutants: a frame is dropped while another one waits, or overtakes it.
CallbackSkipsWhenBusy ==
    /\ captured # << >>
    /\ captured' = << >>
    /\ posted' = IF clients = << >> \/ posted # << >> THEN posted ELSE captured
    /\ UNCHANGED <<qtVars, screen, prevFrame, frameCounter, written, passedOver>>

CallbackOvertakes ==
    /\ captured # << >>
    /\ captured' = << >>
    /\ posted' = IF clients = << >> THEN posted ELSE captured \o posted
    /\ UNCHANGED <<qtVars, screen, prevFrame, frameCounter, written, passedOver>>

\* The callback: a frame nobody is there for is dropped, and is not captured
\* again for a viewer that comes later.
Callback ==
    /\ captured # << >>
    /\ captured' = << >>
    /\ posted' = IF clients = << >> THEN posted ELSE posted \o captured
    /\ UNCHANGED <<qtVars, screen, prevFrame, frameCounter, written, passedOver>>

-----------------------------------------------------------------------------
(***************************************************************************)
(* A queued broadcast runs.  flush() on a socket whose peer has gone may   *)
(* find that out, and then emits disconnected() inside the loop: the       *)
(* socket is taken off the list that the loop is running over.  What such  *)
(* a loop does with the rest of the list is undefined: a viewer behind the *)
(* failing one may be left out or be visited twice.                        *)
(***************************************************************************)
Served == Range(clients) \cap authenticated

Vanished == {v \in Served : socket[v] = "reset"}

Behind(failing) == {v \in Served \ failing : \E u \in failing : u < v}

Broadcast(failing, leftOut, twice) ==
    LET frame == Head(posted)
    IN  /\ posted # << >>
        /\ posted' = Tail(posted)
        /\ written' = [v \in Viewers |->
                         CASE v \in twice -> written[v] \o <<frame, frame>>
                           [] v \in Served \ (failing \cup leftOut \cup twice) ->
                                  Append(written[v], frame)
                           [] OTHER -> written[v]]
        /\ socket' = [v \in Viewers |-> IF v \in failing THEN "closed" ELSE socket[v]]
        /\ clients' = RemoveEach(clients, failing)
        /\ passedOver' = passedOver \cup leftOut
        /\ UNCHANGED <<authenticated, since, captureVars>>

RunPosted ==
    \E failing \in SUBSET Vanished :
        \E leftOut \in SUBSET Behind(failing) :
            \E twice \in SUBSET (Behind(failing) \ leftOut) :
                Broadcast(failing, leftOut, twice)

Next ==
    \/ \E v \in Viewers, isLoopback \in BOOLEAN : NewConnection(v, isLoopback)
    \/ \E v \in Viewers, success \in BOOLEAN : Authenticate(v, success)
    \/ \E v \in Viewers : PeerReset(v)
    \/ \E v \in Viewers : Disconnected(v)
    \/ ScreenChanges
    \/ CaptureSingleFrame
    \/ CaptureTestPattern
    \/ CaptureUnchanged
    \/ Callback
    \/ RunPosted

Spec == Init /\ [][Next]_agentVars

(***************************************************************************)
(* The capture thread goes round its loop for ever, XGetImage() does not   *)
(* fail for ever, and the Qt event loop runs what was posted to it.        *)
(***************************************************************************)
Fairness ==
    /\ WF_agentVars(CaptureSingleFrame)
    /\ WF_agentVars(Callback)
    /\ WF_agentVars(RunPosted)

FairSpec == Spec /\ Fairness

-----------------------------------------------------------------------------
(***************************************************************************)
(* Properties.                                                             *)
(***************************************************************************)

\* The list holds exactly the sockets that are not closed, each once, also when a
\* socket fails in the middle of a broadcast.
ListedIffOpen ==
    /\ Range(clients) = {v \in Viewers : socket[v] \in {"open", "reset"}}
    /\ \A i, j \in 1 .. Len(clients) : clients[i] = clients[j] => i = j

\* No viewer ever sees the screen go back: through capture thread, queue and broadcasts
\* its frames keep their order, and one number (the nonce of the frame's
\* encryption) stands for one picture.
FramesInOrder ==
    \A v \in Viewers : \A i, j \in 1 .. Len(written[v]) : i < j =>
        /\ written[v][i].number <= written[v][j].number
        /\ written[v][i].picture <= written[v][j].picture
        /\ written[v][i].number = written[v][j].number =>
               written[v][i].picture = written[v][j].picture

\* Every change of the screen after a viewer was let in reaches that viewer, or a
\* later picture does, also when captures fail in between, unless it leaves or a failing socket disturbed the
\* broadcast.  (What was on the screen when it was let in need not.)
ChangeArrives ==
    \A v \in Viewers, k \in Pictures :
        v \in authenticated /\ socket[v] = "open" /\ screen = k /\ k > since[v]
            ~> \/ \E i \in 1 .. Len(written[v]) : /\ written[v][i].picture >= k
                                                    /\ written[v][i].shows = "screen"
               \/ v \notin authenticated \/ socket[v] # "open" \/ v \in passedOver

=============================================================================
