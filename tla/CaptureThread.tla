---------------------------- MODULE CaptureThread ----------------------------
(***************************************************************************)
(* The life of a capture backend: LinuxX11Capture, LinuxDrmCapture and     *)
(* WindowsDxgiCaptureBackend.  One thread owns the backend and calls       *)
(* initialize(), startCapture(), stopCapture(), selectMonitor() and the    *)
(* destructor; every start creates a thread that captures frames in a loop *)
(* and gives them to the callback of that start.  The two share atomic     *)
(* flags and, unprotected, the members that describe screen and callback.  *)
(*                                                                         *)
(* The owner may pick a monitor or initialize again while the loop runs.   *)
(* X11 then writes the members that describe the screen one after the      *)
(* other; while it does, the loop may read either of their values.         *)
(*                                                                         *)
(* Which frames are skipped as unchanged is the matter of AgentBroadcast;  *)
(* here a capture may or may not yield a frame.  Sleeping between frames   *)
(* is left out.                                                            *)
(***************************************************************************)
EXTENDS Naturals

CONSTANTS
    Monitors,       \* ids that a caller may ask for
    Present,        \* ids of the monitors that there are
    MaxStarts       \* bound on the starts of one backend

ASSUME CaptureAssumption ==
    /\ Present \subseteq Monitors
    /\ Monitors \subseteq Nat
    /\ 0 \in Present
    /\ MaxStarts \in Nat \ {0}

Starts == 1 .. MaxStarts

VARIABLES
    backend,        \* the class of the backend
    b,              \* its members; screen stands for rootWindow_, width_ and height_,
                    \* next for what is being written to them, or the same;
                    \* thread is the start whose thread is joinable, or 0
    owner,          \* where the owner is
    dying,          \* the owner is in the destructor
    loop,           \* per start: where its thread is
    frame           \* per start: the screen its frame was sized for and copied from;
                    \* ghost: whether the screen was being switched meanwhile

threadVars == <<backend, b, owner, dying, loop, frame>>

CaptureInit ==
    /\ backend \in {"X11", "DRM", "DXGI"}
    /\ b = [isCapturing |-> FALSE, stopRequested |-> FALSE, initialized |-> FALSE,
            device |-> "none", screen |-> 0, next |-> 0, currentMonitorId |-> 0,
            callback |-> 0, thread |-> 0]
    /\ owner = "idle"
    /\ dying = FALSE
    /\ loop = [n \in Starts |-> "none"]
    /\ frame = [n \in Starts |-> [sized |-> 0, copied |-> 0, switched |-> FALSE]]

\* The number of the next start; callers name their callbacks by it.
Fresh(n) == loop[n] = "none" /\ \A k \in Starts : k < n => loop[k] # "none"

Live(n) == loop[n] \notin {"none", "ended"}

-----------------------------------------------------------------------------
(***************************************************************************)
(* initialize() and selectMonitor().  A device that cannot be opened is no *)
(* error; a test pattern takes the place of the screen.                    *)
(***************************************************************************)

\* The call has begun to write screen s over the one that the loop reads.
Switching(s, members) ==
    /\ b' = [members EXCEPT !.next = s]
    /\ owner' = "switching"
    /\ frame' = [n \in Starts |->
                    IF loop[n] = "copy" THEN [frame[n] EXCEPT !.switched = TRUE] ELSE frame[n]]

\* It has written it, and returns.
Switched ==
    /\ owner = "switching"
    /\ b' = [b EXCEPT !.screen = b.next]
    /\ owner' = "idle"
    /\ UNCHANGED <<backend, dying, loop, frame>>

\* Back to the default screen; currentMonitorId() goes on naming the last choice.
X11Initialize(opened) ==
    Switching(0, [b EXCEPT !.device = IF opened THEN "open" ELSE "none"])

DrmInitialized(opened) ==
    IF b.initialized THEN b
    ELSE [b EXCEPT !.initialized = TRUE, !.device = IF opened THEN "open" ELSE "none"]

DrmInitialize(opened) == b' = DrmInitialized(opened) /\ UNCHANGED <<owner, frame>>

DxgiInitialize == b' = [b EXCEPT !.initialized = TRUE] /\ UNCHANGED <<owner, frame>>

Initialize(opened) ==
    /\ owner = "idle"
    /\ \/ backend = "X11" /\ X11Initialize(opened)
       \/ backend = "DRM" /\ DrmInitialize(opened)
       \/ backend = "DXGI" /\ DxgiInitialize
    /\ UNCHANGED <<backend, dying, loop>>

\* enumerateMonitors() of X11: one virtual display if there is no X server.
X11EnumerateMonitors == IF b.device = "open" THEN Present ELSE {0}

X11SelectMonitor(m) ==
    /\ m \in X11EnumerateMonitors
    /\ Switching(m, [b EXCEPT !.currentMonitorId = m])

DrmSelectMonitor(m) ==
    m = 0 /\ b' = [b EXCEPT !.currentMonitorId = 0] /\ UNCHANGED <<owner, frame>>

\* Any number is taken; the frames stay those of the one screen.
DxgiSelectMonitor(m) == b' = [b EXCEPT !.currentMonitorId = m] /\ UNCHANGED <<owner, frame>>

\* A monitor that is not there is refused and changes nothing.
SelectMonitor(m) ==
    /\ owner = "idle"
    /\ \/ backend = "X11" /\ X11SelectMonitor(m)
       \/ backend = "DRM" /\ DrmSelectMonitor(m)
       \/ backend = "DXGI" /\ DxgiSelectMonitor(m)
    /\ UNCHANGED <<backend, dying, loop>>

-----------------------------------------------------------------------------
(***************************************************************************)
(* startCapture(): the flags first, then the thread.                       *)
(***************************************************************************)

\* Mutant: the request of the last stop is still there.
X11StartCaptureStopsAtOnce(n) ==
    IF b.isCapturing THEN UNCHANGED <<b, owner>>
    ELSE /\ b' = [b EXCEPT !.isCapturing = TRUE]
         /\ owner' = "spawning"

\* The lambda of the thread holds the callback; no later start can change it.
X11StartCapture(n) ==
    IF b.isCapturing THEN UNCHANGED <<b, owner>>
    ELSE /\ b' = [b EXCEPT !.stopRequested = FALSE, !.isCapturing = TRUE]
         /\ owner' = "spawning"

\* Mutant: a second start is not recognised as one.
DrmStartCaptureTwice(n, opened) ==
    /\ b' = [DrmInitialized(opened) EXCEPT !.callback = n, !.isCapturing = TRUE]
    /\ owner' = "spawning"

DrmStartCapture(n, opened) ==
    IF b.isCapturing THEN b' = DrmInitialized(opened) /\ UNCHANGED owner
    ELSE /\ b' = [DrmInitialized(opened) EXCEPT !.callback = n, !.isCapturing = TRUE]
         /\ owner' = "spawning"

DxgiStartCapture(n) ==
    IF b.isCapturing THEN UNCHANGED <<b, owner>>
    ELSE /\ b' = [b EXCEPT !.callback = n, !.isCapturing = TRUE]
         /\ owner' = "spawning"

StartCapture(n, opened) ==
    /\ owner = "idle" /\ Fresh(n)
    /\ \/ backend = "X11" /\ X11StartCapture(n)
       \/ backend = "DRM" /\ DrmStartCapture(n, opened)
       \/ backend = "DXGI" /\ DxgiStartCapture(n)
    /\ UNCHANGED <<backend, dying, loop, frame>>

\* Assigning to a std::thread that is still joinable ends the program.
Spawn(n) ==
    /\ owner = "spawning" /\ Fresh(n)
    /\ loop' = [loop EXCEPT ![n] = "test"]
    /\ b' = [b EXCEPT !.thread = n]
    /\ owner' = IF b.thread = 0 THEN "idle" ELSE "terminated"
    /\ UNCHANGED <<backend, dying, frame>>

-----------------------------------------------------------------------------
(***************************************************************************)
(* stopCapture(), and the destructor, which begins with it.                *)
(***************************************************************************)

After(last) == IF last THEN "closing" ELSE "idle"

X11StopCaptureInternal(last) ==
    IF ~b.isCapturing THEN UNCHANGED b /\ owner' = After(last)
    ELSE b' = [b EXCEPT !.stopRequested = TRUE] /\ owner' = "joining"

\* Mutant: the loop is told and not waited for.
DrmStopCaptureNoJoin(last) ==
    /\ b' = [b EXCEPT !.isCapturing = FALSE, !.thread = 0]
    /\ owner' = After(last)

DrmStopCapture(last) ==
    IF ~b.isCapturing THEN UNCHANGED b /\ owner' = After(last)
    ELSE b' = [b EXCEPT !.isCapturing = FALSE] /\ owner' = "joining"

\* Mutant: the flag is left to be cleared after the join, as in X11.
DxgiStopCaptureJoinsFirst(last) ==
    IF ~b.isCapturing THEN UNCHANGED b /\ owner' = After(last)
    ELSE UNCHANGED b /\ owner' = "joining"

DxgiStopCapture(last) ==
    IF ~b.isCapturing THEN UNCHANGED b /\ owner' = After(last)
    ELSE b' = [b EXCEPT !.isCapturing = FALSE] /\ owner' = "joining"

StopCapture(last) ==
    /\ owner = "idle"
    /\ dying' = last
    /\ \/ backend = "X11" /\ X11StopCaptureInternal(last)
       \/ backend = "DRM" /\ DrmStopCapture(last)
       \/ backend = "DXGI" /\ DxgiStopCapture(last)
    /\ UNCHANGED <<backend, loop, frame>>

Join ==
    /\ owner = "joining"
    /\ b.thread # 0 => loop[b.thread] = "ended"
    /\ b' = [b EXCEPT !.thread = 0, !.isCapturing = FALSE]
    /\ owner' = After(dying)
    /\ UNCHANGED <<backend, dying, loop, frame>>

\* The rest of the destructor: the display or the device is closed.
Destroy ==
    /\ owner = "closing"
    /\ b' = [b EXCEPT !.device = "none"]
    /\ owner' = "destroyed"
    /\ UNCHANGED <<backend, dying, loop, frame>>

-----------------------------------------------------------------------------
(***************************************************************************)
(* The capture thread.                                                     *)
(***************************************************************************)

X11Stops == b.stopRequested
DrmStops == ~b.isCapturing
DxgiStops == ~b.isCapturing

Stops == CASE backend = "X11" -> X11Stops
           [] backend = "DRM" -> DrmStops
           [] backend = "DXGI" -> DxgiStops

Go(n, from, to) == loop[n] = from /\ loop' = [loop EXCEPT ![n] = to]

LoopTest(n) ==
    /\ Go(n, "test", IF ~Stops THEN "capture" ELSE IF backend = "X11" THEN "leaving" ELSE "ended")
    /\ UNCHANGED <<backend, b, owner, dying, frame>>

\* After its loop the thread of X11 clears the flag itself.
X11Leave(n) ==
    /\ Go(n, "leaving", "ended")
    /\ b' = [b EXCEPT !.isCapturing = FALSE]
    /\ UNCHANGED <<backend, owner, dying, frame>>

\* What the loop may read of the members that describe the screen.
ScreenRead == {b.screen, b.next}

\* captureSingleFrame(): the size of the frame, then its pixels.
SizeFrame(n) ==
    /\ Go(n, "capture", "copy")
    /\ \E s \in ScreenRead :
          frame' = [frame EXCEPT ![n].sized = s, ![n].switched = (owner = "switching")]
    /\ UNCHANGED <<backend, b, owner, dying>>

CopyPixels(n) ==
    /\ Go(n, "copy", "callback")
    /\ \E s \in ScreenRead : frame' = [frame EXCEPT ![n].copied = s]
    /\ UNCHANGED <<backend, b, owner, dying>>

\* Only X11 looks for changes.
SkipUnchanged(n) ==
    /\ backend = "X11" /\ b.device = "open"
    /\ Go(n, "copy", "test")
    /\ UNCHANGED <<backend, b, owner, dying, frame>>

RunCallback(n) == Go(n, "callback", "test") /\ UNCHANGED <<backend, b, owner, dying, frame>>

LoopStep(n) ==
    \/ LoopTest(n)
    \/ X11Leave(n)
    \/ SizeFrame(n)
    \/ CopyPixels(n)
    \/ SkipUnchanged(n)
    \/ RunCallback(n)

OwnerStep == (\E n \in Starts : Spawn(n)) \/ Join \/ Destroy \/ Switched

CaptureNext ==
    \/ \E opened \in BOOLEAN : Initialize(opened)
    \/ \E m \in Monitors : SelectMonitor(m)
    \/ \E n \in Starts, opened \in BOOLEAN : StartCapture(n, opened)
    \/ \E last \in BOOLEAN : StopCapture(last)
    \/ OwnerStep
    \/ \E n \in Starts : LoopStep(n)

\* A thread that can run does, and a call that was made goes on.
CaptureSpec ==
    /\ CaptureInit /\ [][CaptureNext]_threadVars
    /\ WF_threadVars(OwnerStep)
    /\ \A n \in Starts : WF_threadVars(LoopStep(n))

-----------------------------------------------------------------------------
(***************************************************************************)
(* Properties.                                                             *)
(***************************************************************************)

\* Once stopCapture() has returned no thread is left that could call back, and
\* neither is one when the destructor closes the device; no start or destructor
\* meets a joinable std::thread, which would terminate the agent.
QuietAfterStop ==
    /\ owner # "terminated"
    /\ (owner = "idle" /\ ~b.isCapturing) \/ owner \in {"closing", "destroyed"} =>
           b.thread = 0 /\ \A n \in Starts : ~Live(n)

\* A frame goes to the callback of the start that captured it, through any number
\* of starts and stops, although the callback is a member that the loop reads
\* without a lock.  It may be sized for one screen and copied from another, but
\* only if selectMonitor() or initialize() ran during that very round: not from a
\* start, a stop or a selection that had returned before the round began.
FrameOfOneStart ==
    \A n \in Starts : loop[n] = "callback" =>
        /\ backend = "X11" \/ b.callback = n
        /\ frame[n].switched \/ frame[n].sized = frame[n].copied

\* stopCapture() and the destructor come back from join(), wherever in its round
\* the loop is when the flag is set.
StopReturns == owner = "joining" ~> owner \in {"idle", "closing"}

\* A successful startCapture() leads to a capture, also after an earlier stop,
\* unless it is stopped again before.
StartedCaptures ==
    \A n \in Starts :
        owner = "spawning" /\ Fresh(n) ~> loop[n] = "capture" \/ owner = "joining"

=============================================================================
