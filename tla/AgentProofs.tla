---------------------------- MODULE AgentProofs -----------------------------
(***************************************************************************)
(* Proofs about the host agent: the capture thread, and the Qt thread that *)
(* sends its frames to the viewers.                                        *)
(***************************************************************************)
EXTENDS CaptureThread, AgentBroadcast, LoopTheorems

-----------------------------------------------------------------------------
(***************************************************************************)
(* What is proved of CaptureThread, for any monitors and any number of     *)
(* starts: a stop leaves no thread behind, and a frame goes to the         *)
(* callback of its start and is of one screen unless the screen is         *)
(* switched under it.  The argument is that the std::thread is joinable    *)
(* exactly from a start to the join of its stop, that only the thread in   *)
(* it can be running, and that only a switch writes the members it reads.  *)
(***************************************************************************)
Backend ==
    [isCapturing : BOOLEAN, stopRequested : BOOLEAN, initialized : BOOLEAN,
     device : {"none", "open"}, screen : Monitors, next : Monitors,
     currentMonitorId : Monitors, callback : Nat, thread : Nat]

FrameOf == [sized : Monitors, copied : Monitors, switched : BOOLEAN]

CaptureTypeOK ==
    /\ backend \in {"X11", "DRM", "DXGI"}
    /\ b \in Backend
    /\ owner \in {"idle", "switching", "spawning", "joining", "closing", "destroyed"}
    /\ dying \in BOOLEAN
    /\ loop \in [Starts -> {"none", "test", "capture", "copy", "callback", "leaving", "ended"}]
    /\ frame \in [Starts -> FrameOf]

\* Who runs, by where the owner is.
ThreadInv ==
    /\ \A n \in Starts : Live(n) => b.thread = n
    /\ owner \in {"idle", "switching"} => (b.isCapturing <=> b.thread # 0)
    /\ owner = "spawning" => b.isCapturing /\ b.thread = 0
    /\ owner \in {"closing", "destroyed"} => b.thread = 0 /\ ~b.isCapturing

\* The request to stop is only up while a stop waits, or when nothing runs.
RequestInv ==
    /\ backend = "X11" /\ b.stopRequested /\ b.thread # 0 => owner = "joining"
    /\ backend = "X11" /\ owner = "spawning" => ~b.stopRequested
    /\ \A n \in Starts : loop[n] = "leaving" => backend = "X11" /\ owner = "joining"

\* The callback is that of the start whose thread runs or is about to.
CallbackInv ==
    backend # "X11" =>
        /\ b.thread # 0 => b.callback = b.thread
        /\ owner = "spawning" => b.callback \in Starts /\ Fresh(b.callback)

\* A frame that was sized is still that of the screen, unless that was switched.
FrameInv ==
    /\ owner # "switching" => b.next = b.screen
    /\ \A n \in Starts :
           /\ loop[n] = "copy" =>
                  frame[n].switched \/ (owner # "switching" /\ frame[n].sized = b.screen)
           /\ loop[n] = "callback" => frame[n].switched \/ frame[n].sized = frame[n].copied

CaptureInv == CaptureTypeOK /\ ThreadInv /\ RequestInv /\ CallbackInv /\ FrameInv

-----------------------------------------------------------------------------
\* There is one next start.
LEMMA FreshIsOne ==
    ASSUME NEW m \in Starts, NEW n \in Starts, Fresh(m), Fresh(n)
    PROVE  m = n
  BY CaptureAssumption DEF Fresh, Starts

LEMMA CaptureInitFits == CaptureInit => CaptureInv
<1> SUFFICES ASSUME CaptureInit PROVE CaptureInv
  OBVIOUS
<1>1. b \in Backend
  BY CaptureAssumption DEF CaptureInit, Backend
<1>2. frame \in [Starts -> FrameOf]
  BY CaptureAssumption DEF CaptureInit, FrameOf
<1>3. CaptureTypeOK
  BY <1>1, <1>2 DEF CaptureInit, CaptureTypeOK
<1>4. ThreadInv
  BY DEF CaptureInit, ThreadInv, Live
<1>5. RequestInv /\ CallbackInv
  BY DEF CaptureInit, RequestInv, CallbackInv
<1>6. FrameInv
  BY DEF CaptureInit, FrameInv
<1>7. QED
  BY <1>3, <1>4, <1>5, <1>6 DEF CaptureInv

\* The start of a switch marks the frame that is being copied.
LEMMA SwitchingFits ==
    ASSUME CaptureInv, owner = "idle", NEW s \in Monitors, NEW c \in Backend, Switching(s, c),
           c.isCapturing = b.isCapturing, c.stopRequested = b.stopRequested,
           c.callback = b.callback, c.thread = b.thread, UNCHANGED <<backend, dying, loop>>
    PROVE  CaptureInv'
<1>1. /\ b' \in Backend
      /\ b'.isCapturing = b.isCapturing /\ b'.stopRequested = b.stopRequested
      /\ b'.callback = b.callback /\ b'.thread = b.thread
  BY DEF Switching, Backend
<1>2. \A n \in Starts : /\ frame[n] \in FrameOf
                        /\ loop[n] # "copy" => frame'[n] = frame[n]
                        /\ loop[n] = "copy" => frame'[n] = [frame[n] EXCEPT !.switched = TRUE]
  BY DEF Switching, CaptureInv, CaptureTypeOK
<1>3. ASSUME NEW n \in Starts
      PROVE  frame'[n] \in FrameOf /\ (loop[n] = "copy" => frame'[n].switched)
  <2>1. CASE loop[n] # "copy"
    BY <1>2, <2>1
  <2>2. CASE loop[n] = "copy"
    <3>1. frame'[n] = [frame[n] EXCEPT !.switched = TRUE] /\ frame[n] \in FrameOf
      BY <1>2, <2>2
    <3>2. QED
      BY <3>1 DEF FrameOf
  <2>3. QED
    BY <2>1, <2>2
<1>4. frame' \in [Starts -> FrameOf] /\ owner' = "switching"
  BY <1>3 DEF Switching
<1>5. CaptureTypeOK'
  BY <1>1, <1>4 DEF CaptureInv, CaptureTypeOK
<1>6. ThreadInv' /\ RequestInv' /\ CallbackInv'
  BY <1>1, <1>4 DEF CaptureInv, ThreadInv, RequestInv, CallbackInv, Live, Fresh
<1>7. FrameInv'
  <2>1. ASSUME NEW n \in Starts, loop[n] = "callback"
        PROVE  frame'[n].switched \/ frame'[n].sized = frame'[n].copied
    <3>1. frame'[n] = frame[n]
      BY <1>2, <2>1
    <3>2. frame[n].switched \/ frame[n].sized = frame[n].copied
      BY <2>1 DEF CaptureInv, FrameInv
    <3>3. QED
      BY <3>1, <3>2, Zenon
  <2>2. QED
    BY <1>3, <1>4, <2>1, Zenon DEF FrameInv
<1>8. QED
  BY <1>5, <1>6, <1>7 DEF CaptureInv

\* The other setup calls leave alone what the loop reads.
LEMMA MembersFit ==
    ASSUME CaptureInv, owner = "idle", b' \in Backend,
           b'.isCapturing = b.isCapturing, b'.stopRequested = b.stopRequested,
           b'.callback = b.callback, b'.thread = b.thread,
           b'.screen = b.screen, b'.next = b.next, UNCHANGED <<backend, owner, dying, loop, frame>>
    PROVE  CaptureInv'
<1>1. CaptureTypeOK'
  BY DEF CaptureInv, CaptureTypeOK
<1>2. ThreadInv' /\ RequestInv' /\ CallbackInv' /\ FrameInv'
  BY DEF CaptureInv, ThreadInv, RequestInv, CallbackInv, FrameInv, Live, Fresh
<1>3. QED
  BY <1>1, <1>2 DEF CaptureInv

LEMMA InitializeFits ==
    ASSUME CaptureInv, NEW opened \in BOOLEAN, Initialize(opened)
    PROVE  CaptureInv'
<1>1. owner = "idle" /\ UNCHANGED <<backend, dying, loop>> /\ b \in Backend
  BY DEF Initialize, CaptureInv, CaptureTypeOK
<1>2. CASE backend = "X11" /\ X11Initialize(opened)
  <2> DEFINE c == [b EXCEPT !.device = IF opened THEN "open" ELSE "none"]
  <2>1. /\ c \in Backend
        /\ c.isCapturing = b.isCapturing /\ c.stopRequested = b.stopRequested
        /\ c.callback = b.callback /\ c.thread = b.thread
    BY <1>1 DEF Backend
  <2>2. Switching(0, c) /\ 0 \in Monitors
    BY <1>2, CaptureAssumption DEF X11Initialize
  <2> HIDE DEF c
  <2>3. QED
    BY <1>1, <2>1, <2>2, SwitchingFits
<1>3. CASE backend = "DRM" /\ DrmInitialize(opened)
  <2>1. /\ b' \in Backend
        /\ b'.isCapturing = b.isCapturing /\ b'.stopRequested = b.stopRequested
        /\ b'.callback = b.callback /\ b'.thread = b.thread
        /\ b'.screen = b.screen /\ b'.next = b.next
    BY <1>1, <1>3 DEF DrmInitialize, DrmInitialized, Backend
  <2>2. QED
    BY <1>1, <1>3, <2>1, MembersFit DEF DrmInitialize
<1>4. CASE backend = "DXGI" /\ DxgiInitialize
  <2>1. /\ b' \in Backend
        /\ b'.isCapturing = b.isCapturing /\ b'.stopRequested = b.stopRequested
        /\ b'.callback = b.callback /\ b'.thread = b.thread
        /\ b'.screen = b.screen /\ b'.next = b.next
    BY <1>1, <1>4 DEF DxgiInitialize, Backend
  <2>2. QED
    BY <1>1, <1>4, <2>1, MembersFit DEF DxgiInitialize
<1>5. QED
  BY <1>2, <1>3, <1>4 DEF Initialize

LEMMA SelectFits ==
    ASSUME CaptureInv, NEW m \in Monitors, SelectMonitor(m)
    PROVE  CaptureInv'
<1>1. owner = "idle" /\ UNCHANGED <<backend, dying, loop>> /\ b \in Backend
  BY DEF SelectMonitor, CaptureInv, CaptureTypeOK
<1>2. CASE backend = "X11" /\ X11SelectMonitor(m)
  <2> DEFINE c == [b EXCEPT !.currentMonitorId = m]
  <2>1. /\ c \in Backend
        /\ c.isCapturing = b.isCapturing /\ c.stopRequested = b.stopRequested
        /\ c.callback = b.callback /\ c.thread = b.thread
    BY <1>1 DEF Backend
  <2>2. Switching(m, c)
    BY <1>2 DEF X11SelectMonitor
  <2> HIDE DEF c
  <2>3. QED
    BY <1>1, <2>1, <2>2, SwitchingFits
<1>3. CASE \/ backend = "DRM" /\ DrmSelectMonitor(m)
           \/ backend = "DXGI" /\ DxgiSelectMonitor(m)
  <2>1. b' = [b EXCEPT !.currentMonitorId = m] /\ UNCHANGED <<owner, frame>>
    BY <1>3 DEF DrmSelectMonitor, DxgiSelectMonitor
  <2>2. /\ b' \in Backend
        /\ b'.isCapturing = b.isCapturing /\ b'.stopRequested = b.stopRequested
        /\ b'.callback = b.callback /\ b'.thread = b.thread
        /\ b'.screen = b.screen /\ b'.next = b.next
    BY <1>1, <2>1 DEF Backend
  <2>3. QED
    BY <1>1, <2>1, <2>2, MembersFit
<1>4. QED
  BY <1>2, <1>3 DEF SelectMonitor

\* A switch that is over leaves the marked frame marked.
LEMMA SwitchedFits ==
    ASSUME CaptureInv, Switched
    PROVE  CaptureInv'
<1>1. /\ owner = "switching" /\ owner' = "idle"
      /\ UNCHANGED <<backend, dying, loop, frame>>
  BY DEF Switched
<1>2. /\ b' \in Backend
      /\ b'.isCapturing = b.isCapturing /\ b'.stopRequested = b.stopRequested
      /\ b'.callback = b.callback /\ b'.thread = b.thread /\ b'.screen = b'.next
  BY DEF Switched, CaptureInv, CaptureTypeOK, Backend
<1>3. CaptureTypeOK'
  BY <1>1, <1>2 DEF CaptureInv, CaptureTypeOK
<1>4. ThreadInv' /\ RequestInv' /\ CallbackInv'
  BY <1>1, <1>2 DEF CaptureInv, ThreadInv, RequestInv, CallbackInv, Live, Fresh
<1>5. FrameInv'
  BY <1>1, <1>2 DEF CaptureInv, FrameInv
<1>6. QED
  BY <1>3, <1>4, <1>5 DEF CaptureInv

\* A start that is not refused finds no thread.
LEMMA StartFits ==
    ASSUME CaptureInv, NEW n \in Starts, NEW opened \in BOOLEAN, StartCapture(n, opened)
    PROVE  CaptureInv'
<1>1. Fresh(n) /\ owner = "idle" /\ UNCHANGED <<backend, dying, loop, frame>>
  BY DEF StartCapture
<1>2. b' \in Backend /\ b'.thread = b.thread /\ b'.screen = b.screen /\ b'.next = b.next
  <2>1. CASE backend = "X11" /\ X11StartCapture(n)
    BY <2>1 DEF X11StartCapture, CaptureInv, CaptureTypeOK, Backend
  <2>2. n \in Nat /\ b \in Backend
    BY DEF CaptureInv, CaptureTypeOK, Starts
  <2>3. CASE backend = "DRM" /\ DrmStartCapture(n, opened)
    <3>1. /\ DrmInitialized(opened) \in Backend
          /\ DrmInitialized(opened).thread = b.thread
          /\ DrmInitialized(opened).screen = b.screen
          /\ DrmInitialized(opened).next = b.next
      BY <2>2 DEF DrmInitialized, Backend
    <3>2. CASE b.isCapturing
      BY <2>3, <3>1, <3>2 DEF DrmStartCapture
    <3>3. CASE ~b.isCapturing
      <4>1. b' = [DrmInitialized(opened) EXCEPT !.callback = n, !.isCapturing = TRUE]
        BY <2>3, <3>3 DEF DrmStartCapture
      <4>2. QED
        BY <2>2, <3>1, <4>1 DEF Backend
    <3>4. QED
      BY <3>2, <3>3
  <2>4. CASE backend = "DXGI" /\ DxgiStartCapture(n)
    <3>1. b' = b \/ b' = [b EXCEPT !.callback = n, !.isCapturing = TRUE]
      BY <2>4 DEF DxgiStartCapture
    <3>2. QED
      BY <2>2, <3>1 DEF Backend
  <2>5. QED
    BY <2>1, <2>3, <2>4 DEF StartCapture
<1>3. \/ /\ owner' = "idle" /\ b.isCapturing /\ b'.isCapturing
         /\ b'.stopRequested = b.stopRequested /\ b'.callback = b.callback
      \/ /\ owner' = "spawning" /\ ~b.isCapturing /\ b'.isCapturing
         /\ backend = "X11" => ~b'.stopRequested
         /\ backend # "X11" => b'.callback = n
  BY <1>1 DEF StartCapture, X11StartCapture, DrmStartCapture, DxgiStartCapture,
     DrmInitialized, CaptureInv, CaptureTypeOK, Backend
<1>4. CaptureTypeOK'
  BY <1>1, <1>2, <1>3 DEF CaptureInv, CaptureTypeOK
<1>5. ThreadInv'
  BY <1>1, <1>2, <1>3 DEF CaptureInv, ThreadInv, Live
<1>6. RequestInv'
  BY <1>1, <1>2, <1>3 DEF CaptureInv, ThreadInv, RequestInv
<1>7. CallbackInv'
  <2>1. Fresh(n)'
    BY <1>1 DEF Fresh
  <2>2. QED
    BY <1>1, <1>2, <1>3, <2>1 DEF CaptureInv, ThreadInv, CallbackInv
<1>8. FrameInv'
  BY <1>1, <1>2, <1>3 DEF CaptureInv, FrameInv
<1>9. QED
  BY <1>4, <1>5, <1>6, <1>7, <1>8 DEF CaptureInv

\* The thread of a start is the only one.
LEMMA SpawnFits ==
    ASSUME CaptureInv, NEW n \in Starts, Spawn(n)
    PROVE  CaptureInv'
<1>1. /\ owner = "spawning" /\ Fresh(n) /\ b.thread = 0 /\ b.isCapturing
      /\ owner' = "idle" /\ UNCHANGED <<backend, dying, frame>>
      /\ loop' = [loop EXCEPT ![n] = "test"]
  BY DEF Spawn, CaptureInv, ThreadInv
<1>2. /\ b' \in Backend /\ b'.thread = n /\ b'.isCapturing
      /\ b'.stopRequested = b.stopRequested /\ b'.callback = b.callback
      /\ b'.screen = b.screen /\ b'.next = b.next
  BY <1>1 DEF Spawn, CaptureInv, CaptureTypeOK, Backend, Starts
<1>3. n # 0 /\ \A k \in Starts : ~Live(k)
  BY <1>1 DEF Starts, CaptureInv, ThreadInv
<1>4. CaptureTypeOK'
  BY <1>1, <1>2 DEF CaptureInv, CaptureTypeOK
<1>5. \A k \in Starts : loop'[k] = IF k = n THEN "test" ELSE loop[k]
  BY <1>1 DEF CaptureInv, CaptureTypeOK
<1>6. ThreadInv'
  BY <1>1, <1>2, <1>3, <1>5 DEF ThreadInv, Live
<1>7. RequestInv'
  BY <1>1, <1>2, <1>3, <1>5 DEF CaptureInv, RequestInv, Live
<1>8. CallbackInv'
  BY <1>1, <1>2, FreshIsOne DEF CaptureInv, CallbackInv
<1>9. FrameInv'
  BY <1>1, <1>2, <1>5 DEF CaptureInv, FrameInv
<1>10. QED
  BY <1>4, <1>6, <1>7, <1>8, <1>9 DEF CaptureInv

\* A stop either finds nothing to stop or goes on to wait.
LEMMA StopFits ==
    ASSUME CaptureInv, NEW last \in BOOLEAN, StopCapture(last)
    PROVE  CaptureInv'
<1>1. owner = "idle" /\ dying' = last /\ UNCHANGED <<backend, loop, frame>>
  BY DEF StopCapture
<1>2. /\ b' \in Backend
      /\ b'.thread = b.thread /\ b'.callback = b.callback
      /\ b'.screen = b.screen /\ b'.next = b.next
  BY DEF StopCapture, X11StopCaptureInternal, DrmStopCapture, DxgiStopCapture, CaptureInv,
     CaptureTypeOK, Backend
<1>3. \/ owner' = "joining"
      \/ owner' \in {"idle", "closing"} /\ ~b.isCapturing /\ b' = b
  BY DEF StopCapture, X11StopCaptureInternal, DrmStopCapture, DxgiStopCapture, After
<1>4. CaptureTypeOK'
  BY <1>1, <1>2, <1>3 DEF CaptureInv, CaptureTypeOK
<1>5. ThreadInv'
  BY <1>1, <1>2, <1>3 DEF CaptureInv, ThreadInv, Live
<1>6. RequestInv'
  BY <1>1, <1>2, <1>3 DEF CaptureInv, ThreadInv, RequestInv
<1>7. CallbackInv' /\ FrameInv'
  BY <1>1, <1>2, <1>3 DEF CaptureInv, CallbackInv, FrameInv
<1>8. QED
  BY <1>4, <1>5, <1>6, <1>7 DEF CaptureInv

\* After the join there is no thread.
LEMMA JoinFits ==
    ASSUME CaptureInv, Join
    PROVE  CaptureInv'
<1>1. /\ owner = "joining" /\ owner' \in {"idle", "closing"}
      /\ UNCHANGED <<backend, dying, loop, frame>>
  BY DEF Join, After
<1>2. /\ b' \in Backend /\ b'.thread = 0 /\ ~b'.isCapturing
      /\ b'.screen = b.screen /\ b'.next = b.next
  BY DEF Join, CaptureInv, CaptureTypeOK, Backend
<1>3. \A n \in Starts : ~Live(n)
  BY DEF Join, CaptureInv, ThreadInv, Live, Starts
<1>4. CaptureTypeOK'
  BY <1>1, <1>2 DEF CaptureInv, CaptureTypeOK
<1>5. ThreadInv' /\ RequestInv' /\ CallbackInv'
  BY <1>1, <1>2, <1>3 DEF ThreadInv, RequestInv, CallbackInv, Live
<1>6. FrameInv'
  BY <1>1, <1>2 DEF CaptureInv, FrameInv
<1>7. QED
  BY <1>4, <1>5, <1>6 DEF CaptureInv

LEMMA DestroyFits ==
    ASSUME CaptureInv, Destroy
    PROVE  CaptureInv'
<1>1. /\ owner = "closing" /\ owner' = "destroyed"
      /\ UNCHANGED <<backend, dying, loop, frame>>
  BY DEF Destroy
<1>2. /\ b' \in Backend /\ b'.thread = b.thread
      /\ b'.screen = b.screen /\ b'.next = b.next
      /\ b'.isCapturing = b.isCapturing /\ b'.callback = b.callback
      /\ b'.stopRequested = b.stopRequested
  BY DEF Destroy, CaptureInv, CaptureTypeOK, Backend
<1>3. CaptureTypeOK'
  BY <1>1, <1>2 DEF CaptureInv, CaptureTypeOK
<1>4. ThreadInv' /\ RequestInv' /\ CallbackInv' /\ FrameInv'
  BY <1>1, <1>2 DEF CaptureInv, ThreadInv, RequestInv, CallbackInv, FrameInv, Live
<1>5. QED
  BY <1>3, <1>4 DEF CaptureInv

\* A round of the loop writes its own frame, from members nobody else writes.
LEMMA LoopFits ==
    ASSUME CaptureInv, NEW n \in Starts, LoopStep(n)
    PROVE  CaptureInv'
<1>1. UNCHANGED <<backend, owner, dying>> /\ Live(n) /\ b.thread = n /\ n # 0
  BY DEF LoopStep, LoopTest, X11Leave, SizeFrame, CopyPixels, SkipUnchanged, RunCallback, Go, Live,
     CaptureInv, ThreadInv, Starts
<1>2. PICK to \in {"test", "capture", "copy", "callback", "leaving", "ended"} :
         loop' = [loop EXCEPT ![n] = to]
  BY DEF LoopStep, LoopTest, X11Leave, SizeFrame, CopyPixels, SkipUnchanged, RunCallback, Go
<1>3. /\ loop' \in [Starts -> {"none", "test", "capture", "copy", "callback", "leaving", "ended"}]
      /\ \A k \in Starts : loop'[k] = IF k = n THEN to ELSE loop[k]
  BY <1>2 DEF CaptureInv, CaptureTypeOK
<1>4. to = "leaving" => backend = "X11" /\ b.stopRequested
  BY <1>3 DEF LoopStep, LoopTest, X11Leave, SizeFrame, CopyPixels, SkipUnchanged, RunCallback, Go,
     Stops, X11Stops
<1>5. \/ b' = b
      \/ b' = [b EXCEPT !.isCapturing = FALSE] /\ owner = "joining"
  BY DEF LoopStep, LoopTest, X11Leave, SizeFrame, CopyPixels, SkipUnchanged, RunCallback, Go,
     CaptureInv, RequestInv
<1>6. /\ b' \in Backend /\ b'.thread = b.thread
      /\ b'.screen = b.screen /\ b'.next = b.next
      /\ b'.callback = b.callback /\ b'.stopRequested = b.stopRequested
      /\ owner # "joining" => b'.isCapturing = b.isCapturing
  BY <1>5 DEF CaptureInv, CaptureTypeOK, Backend
<1>7. /\ frame' \in [Starts -> FrameOf]
      /\ \A k \in Starts : k # n => frame'[k] = frame[k]
      /\ to = "copy" => frame'[n].switched \/ (owner # "switching" /\ frame'[n].sized = b.screen)
      /\ to = "callback" => frame'[n].switched \/ frame'[n].sized = frame'[n].copied
  <2>1. /\ ScreenRead \subseteq Monitors
        /\ owner # "switching" => ScreenRead = {b.screen}
        /\ frame \in [Starts -> FrameOf] /\ frame[n] \in FrameOf
    BY DEF CaptureInv, CaptureTypeOK, Backend, ScreenRead, FrameInv
  <2>2. CASE SizeFrame(n)
    <3>1. PICK s \in ScreenRead :
              frame' = [frame EXCEPT ![n].sized = s, ![n].switched = (owner = "switching")]
      BY <2>2 DEF SizeFrame
    <3>2. /\ frame'[n].sized = s
          /\ frame'[n].switched = (owner = "switching")
          /\ frame' \in [Starts -> FrameOf]
          /\ \A k \in Starts : k # n => frame'[k] = frame[k]
      BY <2>1, <3>1 DEF FrameOf
    <3>3. to = "copy"
      BY <1>3, <2>2 DEF SizeFrame, Go
    <3>4. QED
      BY <2>1, <3>2, <3>3
  <2>3. CASE CopyPixels(n)
    <3>1. PICK s \in ScreenRead : frame' = [frame EXCEPT ![n].copied = s]
      BY <2>3 DEF CopyPixels
    <3>2. /\ frame'[n].sized = frame[n].sized
          /\ frame'[n].copied = s
          /\ frame'[n].switched = frame[n].switched
          /\ frame' \in [Starts -> FrameOf]
          /\ \A k \in Starts : k # n => frame'[k] = frame[k]
      BY <2>1, <3>1 DEF FrameOf
    <3>3. to = "callback" /\ loop[n] = "copy"
      BY <1>3, <2>3 DEF CopyPixels, Go
    <3>4. frame[n].switched \/ (owner # "switching" /\ frame[n].sized = b.screen)
      BY <3>3 DEF CaptureInv, FrameInv
    <3>5. QED
      BY <2>1, <3>1, <3>2, <3>3, <3>4
  <2>4. CASE LoopTest(n) \/ X11Leave(n) \/ SkipUnchanged(n) \/ RunCallback(n)
    <3>1. UNCHANGED frame /\ to \notin {"copy", "callback"}
      BY <1>3, <2>4 DEF LoopTest, X11Leave, SkipUnchanged, RunCallback, Go
    <3>2. QED
      BY <2>1, <3>1
  <2>5. QED
    BY <2>2, <2>3, <2>4 DEF LoopStep
<1>8. CaptureTypeOK'
  BY <1>1, <1>3, <1>6, <1>7 DEF CaptureInv, CaptureTypeOK
<1>9. ThreadInv'
  BY <1>1, <1>3, <1>6 DEF CaptureInv, ThreadInv, Live
<1>10. RequestInv'
  BY <1>1, <1>3, <1>4, <1>6 DEF CaptureInv, RequestInv
<1>11. CallbackInv'
  BY <1>1, <1>6 DEF CaptureInv, CallbackInv, ThreadInv
<1>12. FrameInv'
  BY <1>1, <1>3, <1>6, <1>7 DEF CaptureInv, FrameInv
<1>13. QED
  BY <1>8, <1>9, <1>10, <1>11, <1>12 DEF CaptureInv

LEMMA CaptureStepFits == CaptureInv /\ [CaptureNext]_threadVars => CaptureInv'
<1> SUFFICES ASSUME CaptureInv, [CaptureNext]_threadVars PROVE CaptureInv'
  OBVIOUS
<1>1. CASE (\E opened \in BOOLEAN : Initialize(opened)) \/ (\E m \in Monitors : SelectMonitor(m))
  BY <1>1, InitializeFits, SelectFits
<1>2. CASE \E n \in Starts, opened \in BOOLEAN : StartCapture(n, opened)
  BY <1>2, StartFits
<1>3. CASE \E last \in BOOLEAN : StopCapture(last)
  BY <1>3, StopFits
<1>4. CASE OwnerStep
  BY <1>4, SpawnFits, JoinFits, DestroyFits, SwitchedFits DEF OwnerStep
<1>5. CASE \E n \in Starts : LoopStep(n)
  BY <1>5, LoopFits
<1>6. CASE UNCHANGED threadVars
  BY <1>6 DEF threadVars, CaptureInv, CaptureTypeOK, ThreadInv, RequestInv, CallbackInv, FrameInv,
     Live, Fresh
<1>7. QED
  BY <1>1, <1>2, <1>3, <1>4, <1>5, <1>6 DEF CaptureNext

-----------------------------------------------------------------------------
\* The inductive invariant of the capture backends: startCapture(), stopCapture(),
\* selectMonitor(), the destructor and the rounds of captureLoop() all keep it.
THEOREM CaptureInvHolds == CaptureSpec => []CaptureInv
<1>1. QED
  BY CaptureInitFits, CaptureStepFits, PTL DEF CaptureSpec

\* Once stopCapture() has returned, and when the destructor closes the device, no
\* thread is left, and no std::thread that is joinable is assigned to.
THEOREM StopLeavesNoThread == CaptureSpec => []QuietAfterStop
<1>1. CaptureInv => QuietAfterStop
  <2> SUFFICES ASSUME CaptureInv PROVE QuietAfterStop
    OBVIOUS
  <2>1. owner # "terminated"
    BY DEF CaptureInv, CaptureTypeOK
  <2>2. ASSUME (owner = "idle" /\ ~b.isCapturing) \/ owner \in {"closing", "destroyed"}
        PROVE  b.thread = 0
    BY <2>2 DEF CaptureInv, ThreadInv
  <2>3. b.thread = 0 => \A n \in Starts : ~Live(n)
    BY DEF CaptureInv, ThreadInv, Starts
  <2>4. QED
    BY <2>1, <2>2, <2>3 DEF QuietAfterStop
<1>2. QED
  BY <1>1, CaptureInvHolds, PTL

\* What captureLoop() hands to a callback goes to that of its own start, and is of
\* one screen unless selectMonitor() or initialize() ran in the same round.
THEOREM FramesAreWhole == CaptureSpec => []FrameOfOneStart
<1>1. CaptureInv => FrameOfOneStart
  BY DEF CaptureInv, FrameOfOneStart, FrameInv, CallbackInv, ThreadInv, Live, Starts
<1>2. QED
  BY <1>1, CaptureInvHolds, PTL

-----------------------------------------------------------------------------
(***************************************************************************)
(* What is proved of AgentBroadcast, for any number of viewers and changes *)
(* of the screen: no viewer sees the screen go back.  The argument orders  *)
(* the frames on their whole way: those written before those posted before *)
(* the one in the hands of the capture thread before those to come.        *)
(***************************************************************************)
Frame == [number : Nat, picture : Nat, shows : {"screen", "pattern"}]

\* Frame f may be shown before frame g.
Precedes(f, g) ==
    /\ f.number <= g.number
    /\ f.picture <= g.picture
    /\ f.number = g.number => f.picture = g.picture

\* Frame f is no newer than a state of the counter and the screen.
Past(f, counter, picture) == f.number <= counter /\ f.picture <= picture

FrameTypeOK ==
    /\ screen \in Nat
    /\ frameCounter \in Nat
    /\ captured \in {<< >>} \cup {<<f>> : f \in Frame}
    /\ posted \in Seq(Frame)
    /\ written \in [Viewers -> Seq(Frame)]

PastInv ==
    /\ \A i \in 1 .. Len(captured) : Past(captured[i], frameCounter, screen)
    /\ \A i \in 1 .. Len(posted) : Past(posted[i], frameCounter, screen)
    /\ \A v \in Viewers : \A i \in 1 .. Len(written[v]) : Past(written[v][i], frameCounter, screen)

PostedInv ==
    /\ \A i, j \in 1 .. Len(posted) : i < j => Precedes(posted[i], posted[j])
    /\ \A i \in 1 .. Len(posted), j \in 1 .. Len(captured) : Precedes(posted[i], captured[j])

WrittenInv ==
    \A v \in Viewers : \A i \in 1 .. Len(written[v]) :
        /\ \A j \in 1 .. Len(written[v]) : i < j => Precedes(written[v][i], written[v][j])
        /\ \A j \in 1 .. Len(posted) : Precedes(written[v][i], posted[j])
        /\ \A j \in 1 .. Len(captured) : Precedes(written[v][i], captured[j])

OrderInv == FrameTypeOK /\ PastInv /\ PostedInv /\ WrittenInv

-----------------------------------------------------------------------------
LEMMA OrderInitFits == Init => OrderInv
<1> SUFFICES ASSUME Init PROVE OrderInv
  OBVIOUS
<1>1. FrameTypeOK
  BY DEF Init, FrameTypeOK
<1>2. PastInv /\ PostedInv /\ WrittenInv
  BY DEF Init, PastInv, PostedInv, WrittenInv
<1>3. QED
  BY <1>1, <1>2 DEF OrderInv

\* A change of the screen makes no frame newer.
LEMMA ScreenChangesFits ==
    ASSUME OrderInv, ScreenChanges
    PROVE  OrderInv'
<1>1. screen \in Nat /\ screen' = screen + 1
      /\ UNCHANGED <<frameCounter, captured, posted, written>>
  BY DEF ScreenChanges, OrderInv, FrameTypeOK
<1>2. FrameTypeOK'
  BY <1>1 DEF OrderInv, FrameTypeOK
<1>3. PastInv'
  <2>1. ASSUME NEW f \in Frame, Past(f, frameCounter, screen) PROVE Past(f, frameCounter', screen')
    BY <1>1, <2>1 DEF Past, Frame
  <2>2. QED
    <3>1. \A i \in 1 .. Len(captured) : captured[i] \in Frame
      BY DEF OrderInv, FrameTypeOK
    <3>2. QED
      BY <1>1, <2>1, <3>1 DEF OrderInv, PastInv, FrameTypeOK
<1>4. PostedInv' /\ WrittenInv'
  BY <1>1 DEF OrderInv, PostedInv, WrittenInv
<1>5. QED
  BY <1>2, <1>3, <1>4 DEF OrderInv

\* A new frame has a number of its own and the picture of now.
LEMMA CaptureFits ==
    ASSUME OrderInv, CaptureSingleFrame \/ CaptureTestPattern
    PROVE  OrderInv'
<1>0. PICK shown \in {"screen", "pattern"} :
          /\ captured = << >>
          /\ captured' = <<[number |-> frameCounter + 1, picture |-> screen, shows |-> shown]>>
          /\ frameCounter' = frameCounter + 1
          /\ UNCHANGED <<screen, posted, written>>
  BY DEF CaptureSingleFrame, CaptureTestPattern
<1> DEFINE new == [number |-> frameCounter + 1, picture |-> screen, shows |-> shown]
<1>1. /\ frameCounter \in Nat /\ screen \in Nat
      /\ frameCounter' = frameCounter + 1
      /\ captured = << >> /\ captured' = <<new>>
      /\ UNCHANGED <<screen, posted, written>>
  BY <1>0 DEF OrderInv, FrameTypeOK
<1>2. new \in Frame /\ new.number = frameCounter + 1 /\ new.picture = screen
  BY <1>1 DEF Frame
<1>3. captured' \in {<<f>> : f \in Frame} /\ Len(captured') = 1 /\ captured'[1] = new
  BY <1>1, <1>2
<1> HIDE DEF new
<1>4. FrameTypeOK'
  BY <1>1, <1>3 DEF OrderInv, FrameTypeOK
<1>5. ASSUME NEW f \in Frame, Past(f, frameCounter, screen)
      PROVE  Past(f, frameCounter', screen') /\ Precedes(f, new)
  BY <1>1, <1>2, <1>5 DEF Past, Precedes, Frame
<1>6. Past(new, frameCounter', screen')
  BY <1>1, <1>2 DEF Past
<1>7. PastInv'
  BY <1>1, <1>3, <1>5, <1>6 DEF OrderInv, PastInv, FrameTypeOK
<1>8. PostedInv'
  BY <1>1, <1>3, <1>5 DEF OrderInv, PastInv, PostedInv, FrameTypeOK
<1>9. WrittenInv'
  BY <1>1, <1>3, <1>5 DEF OrderInv, PastInv, WrittenInv, FrameTypeOK
<1>10. QED
  BY <1>4, <1>7, <1>8, <1>9 DEF OrderInv

\* The frame in hand goes behind those posted, or is dropped.
LEMMA CallbackFits ==
    ASSUME OrderInv, Callback
    PROVE  OrderInv'
<1>1. /\ captured' = << >> /\ posted' \in {posted, posted \o captured}
      /\ UNCHANGED <<screen, frameCounter, written>>
  BY DEF Callback
<1>2. posted \in Seq(Frame)
  BY DEF OrderInv, FrameTypeOK
<1>3. PICK f \in Frame : captured = <<f>>
  BY DEF Callback, OrderInv, FrameTypeOK
<1>4. Len(captured) = 1 /\ captured[1] = f /\ Len(captured') = 0
  BY <1>1, <1>3
<1>5. CASE posted' = posted
  BY <1>1, <1>5 DEF OrderInv, FrameTypeOK, PastInv, PostedInv, WrittenInv
<1>6. CASE posted' = posted \o captured
  <2>1. /\ posted' \in Seq(Frame) /\ Len(posted') = Len(posted) + 1 /\ Len(posted) \in Nat
        /\ \A i \in 1 .. Len(posted') :
             \/ i \in 1 .. Len(posted) /\ posted'[i] = posted[i]
             \/ i = Len(posted) + 1 /\ posted'[i] = captured[1]
    BY <1>2, <1>3, <1>6
  <2>2. 1 \in 1 .. Len(captured)
    BY <1>4
  <2>3. FrameTypeOK'
    BY <1>1, <2>1 DEF OrderInv, FrameTypeOK
  <2>4. PastInv'
    BY <1>1, <1>4, <2>1, <2>2 DEF OrderInv, PastInv
  <2>5. PostedInv'
    BY <1>1, <1>4, <2>1, <2>2 DEF OrderInv, PostedInv
  <2>6. WrittenInv'
    BY SMTT(30), <1>1, <1>4, <2>1, <2>2 DEF OrderInv, WrittenInv
  <2>7. QED
    BY <2>3, <2>4, <2>5, <2>6 DEF OrderInv
<1>7. QED
  BY <1>1, <1>5, <1>6

\* The first frame posted goes to any viewer once, twice or not at all.
LEMMA RunPostedFits ==
    ASSUME OrderInv, RunPosted
    PROVE  OrderInv'
<1>1. PICK failing \in SUBSET Vanished :
         \E leftOut \in SUBSET Behind(failing) :
            \E twice \in SUBSET (Behind(failing) \ leftOut) : Broadcast(failing, leftOut, twice)
  BY DEF RunPosted
<1>2. PICK leftOut, twice : Broadcast(failing, leftOut, twice)
  BY <1>1
<1> DEFINE sent == Head(posted)
<1>3. /\ posted \in Seq(Frame) /\ posted # << >> /\ posted' = Tail(posted)
      /\ UNCHANGED <<screen, frameCounter, captured>>
  BY <1>2 DEF Broadcast, captureVars, OrderInv, FrameTypeOK
<1>4. /\ posted' \in Seq(Frame) /\ Len(posted') = Len(posted) - 1 /\ Len(posted) >= 1
      /\ \A i \in 1 .. Len(posted') : posted'[i] = posted[i + 1]
      /\ sent \in Frame /\ sent = posted[1]
  BY <1>3
<1>5. written' \in [Viewers -> Seq(Frame)]
      /\ \A v \in Viewers :
           written'[v] \in {written[v], Append(written[v], sent), written[v] \o <<sent, sent>>}
  <2>1. \A v \in Viewers : written[v] \in Seq(Frame)
    BY DEF OrderInv, FrameTypeOK
  <2>2. \A v \in Viewers :
            {written[v], Append(written[v], sent), written[v] \o <<sent, sent>>} \subseteq Seq(Frame)
    BY <1>4, <2>1
  <2>3. /\ DOMAIN written' = Viewers /\ written' = [v \in Viewers |-> written'[v]]
        /\ \A v \in Viewers :
             written'[v] \in {written[v], Append(written[v], sent), written[v] \o <<sent, sent>>}
    BY <1>2 DEF Broadcast
  <2>4. QED
    BY <2>2, <2>3
<1>6. ASSUME NEW v \in Viewers, NEW i \in 1 .. Len(written'[v])
      PROVE  \/ i \in 1 .. Len(written[v]) /\ written'[v][i] = written[v][i]
             \/ i > Len(written[v]) /\ written'[v][i] = sent
  <2>1. written[v] \in Seq(Frame)
    BY DEF OrderInv, FrameTypeOK
  <2>2. CASE written'[v] = written[v]
    BY <2>2
  <2>3. CASE written'[v] = Append(written[v], sent)
    BY <1>4, <2>1, <2>3
  <2>4. CASE written'[v] = written[v] \o <<sent, sent>>
    BY <1>4, <2>1, <2>4
  <2>5. QED
    BY <1>5, <2>2, <2>3, <2>4
<1> HIDE DEF sent
<1>7. FrameTypeOK'
  BY <1>3, <1>4, <1>5 DEF OrderInv, FrameTypeOK
<1>8. PastInv'
  <2>1. Past(sent, frameCounter, screen)
    BY <1>4 DEF OrderInv, PastInv
  <2>2. \A i \in 1 .. Len(posted') : Past(posted'[i], frameCounter, screen)
    BY <1>4 DEF OrderInv, PastInv
  <2>3. ASSUME NEW v \in Viewers, NEW i \in 1 .. Len(written'[v])
        PROVE  Past(written'[v][i], frameCounter, screen)
    BY <1>6, <2>1, <2>3 DEF OrderInv, PastInv
  <2>4. QED
    BY <1>3, <2>2, <2>3 DEF OrderInv, PastInv
<1>9. PostedInv'
  BY <1>3, <1>4 DEF OrderInv, PostedInv
<1>10. WrittenInv'
  <2>1. Precedes(sent, sent)
    BY <1>4 DEF Precedes, Frame
  <2>2. ASSUME NEW v \in Viewers, NEW i \in 1 .. Len(written'[v])
        PROVE  /\ \A j \in 1 .. Len(written'[v]) : i < j => Precedes(written'[v][i], written'[v][j])
               /\ \A j \in 1 .. Len(posted') : Precedes(written'[v][i], posted'[j])
               /\ \A j \in 1 .. Len(captured) : Precedes(written'[v][i], captured[j])
    <3>1. written[v] \in Seq(Frame) /\ written'[v] \in Seq(Frame)
      BY <1>5 DEF OrderInv, FrameTypeOK
    <3>2. ASSUME NEW j \in 1 .. Len(written'[v]), i < j
          PROVE  Precedes(written'[v][i], written'[v][j])
      BY SMTT(30), <1>4, <1>6, <2>1, <2>2, <3>1, <3>2 DEF OrderInv, WrittenInv
    <3>3. ASSUME NEW j \in 1 .. Len(posted') PROVE Precedes(written'[v][i], posted'[j])
      <4>1. j + 1 \in 1 .. Len(posted) /\ 1 \in 1 .. Len(posted) /\ 1 < j + 1
        BY <1>4, <3>3
      <4>2. posted'[j] = posted[j + 1] /\ Precedes(sent, posted[j + 1])
        BY <1>4, <4>1 DEF OrderInv, PostedInv
      <4>3. QED
        BY <1>6, <2>2, <4>1, <4>2 DEF OrderInv, WrittenInv
    <3>4. ASSUME NEW j \in 1 .. Len(captured) PROVE Precedes(written'[v][i], captured[j])
      <4>1. Precedes(sent, captured[j])
        BY <1>4, <3>4 DEF OrderInv, PostedInv
      <4>2. QED
        BY <1>6, <2>2, <3>4, <4>1 DEF OrderInv, WrittenInv
    <3>5. QED
      BY <3>2, <3>3, <3>4
  <2>3. QED
    BY <1>3, <2>2 DEF WrittenInv
<1>11. QED
  BY <1>7, <1>8, <1>9, <1>10 DEF OrderInv

LEMMA OrderStepFits == OrderInv /\ [Next]_agentVars => OrderInv'
<1> SUFFICES ASSUME OrderInv, [Next]_agentVars PROVE OrderInv'
  OBVIOUS
<1>1. CASE ScreenChanges \/ CaptureSingleFrame \/ CaptureTestPattern \/ Callback \/ RunPosted
  BY <1>1, ScreenChangesFits, CaptureFits, CallbackFits, RunPostedFits
<1>2. CASE UNCHANGED <<screen, frameCounter, captured, posted, written>>
  BY <1>2 DEF OrderInv, FrameTypeOK, PastInv, PostedInv, WrittenInv
<1>3. QED
  BY <1>1, <1>2 DEF Next, NewConnection, Authenticate, PeerReset, Disconnected, CaptureUnchanged,
     captureVars, agentVars

-----------------------------------------------------------------------------
\* The frames keep their order from captureSingleFrame() over the callback and the
\* posted broadcasts to the sockets.
THEOREM OrderInvHolds == Spec => []OrderInv
<1>1. QED
  BY OrderInitFits, OrderStepFits, PTL DEF Spec

\* No viewer sees the screen go back, whoever connects, logs in or fails in the middle
\* of the agent's loop over its clients.
THEOREM NoViewerSeesThePast == Spec => []FramesInOrder
<1>1. OrderInv => FramesInOrder
  BY DEF OrderInv, WrittenInv, FramesInOrder, Precedes
<1>2. QED
  BY <1>1, OrderInvHolds, PTL

-----------------------------------------------------------------------------
(***************************************************************************)
(* The list of client sockets.                                             *)
(***************************************************************************)

\* What RemoveEach() has kept of the first i places of the list.
Keeps(kept, list, gone) ==
    /\ RemoveEach(list, gone) = kept[Len(list)]
    /\ kept[0] = << >>
    /\ \A i \in 1 .. Len(list) :
           kept[i] = IF list[i] \in gone /\ \A j \in 1 .. i - 1 : list[j] # list[i]
                     THEN kept[i - 1] ELSE Append(kept[i - 1], list[i])

\* The loop of RemoveEach() exists and goes round as written.
LEMMA RemoveEachLoop ==
    ASSUME NEW S, NEW list \in Seq(S), NEW gone
    PROVE  \E kept : Keeps(kept, list, gone)
<1> DEFINE n == Len(list)
           Drops(i) == list[i] \in gone /\ \A j \in 1 .. i - 1 : list[j] # list[i]
           step == [x \in (1 .. n) \X Seq(S) |->
                       IF Drops(x[1]) THEN x[2] ELSE Append(x[2], list[x[1]])]
           Runs(f) == f = [i \in 0 .. n |-> IF i = 0 THEN << >>
                                            ELSE IF Drops(i) THEN f[i - 1]
                                            ELSE Append(f[i - 1], list[i])]
<1>1. n \in Nat /\ << >> \in Seq(S) /\ \A i \in 1 .. n : list[i] \in S
  OBVIOUS
<1> HIDE DEF n, Drops
<1>2. step \in [(1 .. n) \X Seq(S) -> Seq(S)]
  <2>1. ASSUME NEW x \in (1 .. n) \X Seq(S)
        PROVE  (IF Drops(x[1]) THEN x[2] ELSE Append(x[2], list[x[1]])) \in Seq(S)
    BY <1>1
  <2> QED
    BY <2>1
<1>3. PICK f \in [0 .. n -> Seq(S)] :
          f[0] = << >> /\ \A i \in 1 .. n : f[i] = step[<<i, f[i - 1]>>]
  <2> HIDE DEF step
  <2>1. \E f : IsLoop(f, n, Seq(S), << >>, step)
    BY <1>1, <1>2, LoopExists
  <2> QED
    BY <2>1 DEF IsLoop
<1>4. ASSUME NEW i \in 1 .. n
      PROVE  f[i] = IF Drops(i) THEN f[i - 1] ELSE Append(f[i - 1], list[i])
  <2>1. i - 1 \in 0 .. n /\ f[i - 1] \in Seq(S) /\ <<i, f[i - 1]>> \in (1 .. n) \X Seq(S)
    BY <1>1
  <2> QED
    BY <1>3, <2>1
<1>5. Runs(f)
  <2> HIDE DEF step
  <2>1. ASSUME NEW i \in 0 .. n
        PROVE  f[i] = IF i = 0 THEN << >> ELSE IF Drops(i) THEN f[i - 1] ELSE Append(f[i - 1], list[i])
    <3>1. i # 0 => i \in 1 .. n
      BY <1>1
    <3> QED
      BY <1>3, <1>4, <3>1
  <2> QED
    BY <2>1
<1> DEFINE kept == CHOOSE g : Runs(g)
<1>6. Runs(kept)
  <2> HIDE DEF Runs
  <2> QED
    BY <1>5
<1>7. RemoveEach(list, gone) = kept[n]
  BY DEF RemoveEach, n, Drops
<1>8. kept[0] = << >> /\ \A i \in 1 .. n :
          kept[i] = IF Drops(i) THEN kept[i - 1] ELSE Append(kept[i - 1], list[i])
  <2> HIDE DEF kept
  <2>1. 0 \in 0 .. n /\ \A i \in 1 .. n : i \in 0 .. n /\ i # 0
    BY <1>1
  <2> QED
    BY <1>6, <2>1
<1> QED
  <2> HIDE DEF kept
  <2> QED
    BY <1>7, <1>8 DEF n, Drops, Keeps

Distinct(s) == \A i, j \in 1 .. Len(s) : s[i] = s[j] => i = j

Has(s, e) == \E i \in 1 .. Len(s) : s[i] = e

\* A new entry at the end of a list.
LEMMA AppendHas ==
    ASSUME NEW S, NEW s \in Seq(S), NEW x \in S
    PROVE  /\ Append(s, x) \in Seq(S)
           /\ \A e : Has(Append(s, x), e) <=> e = x \/ Has(s, e)
           /\ Distinct(s) /\ ~ Has(s, x) => Distinct(Append(s, x))
<1> DEFINE r == Append(s, x)
<1>1. /\ r \in Seq(S) /\ Len(r) = Len(s) + 1 /\ Len(s) \in Nat
      /\ r[Len(s) + 1] = x
      /\ \A i \in 1 .. Len(s) : r[i] = s[i]
  OBVIOUS
<1> HIDE DEF r
<1>2. \A i \in 1 .. Len(r) : i \in 1 .. Len(s) \/ i = Len(s) + 1
  BY <1>1
<1>3. \A i \in 1 .. Len(s) : i \in 1 .. Len(r)
  BY <1>1
<1>4. Len(s) + 1 \in 1 .. Len(r)
  BY <1>1
<1>5. \A e : Has(r, e) <=> e = x \/ Has(s, e)
  BY <1>1, <1>2, <1>3, <1>4 DEF Has
<1>6. ASSUME Distinct(s), ~ Has(s, x), NEW i \in 1 .. Len(r), NEW j \in 1 .. Len(r), r[i] = r[j]
      PROVE  i = j
  BY <1>1, <1>2, <1>6 DEF Has, Distinct
<1>7. Distinct(s) /\ ~ Has(s, x) => Distinct(r)
  BY <1>6 DEF Distinct
<1> QED
  BY <1>1, <1>5, <1>7 DEF r

\* Of a list without duplicates RemoveEach() takes exactly the sockets that are gone.
LEMMA RemoveEachTakes ==
    ASSUME NEW S, NEW list \in Seq(S), NEW gone, Distinct(list)
    PROVE  /\ RemoveEach(list, gone) \in Seq(S)
           /\ Range(RemoveEach(list, gone)) = Range(list) \ gone
           /\ Distinct(RemoveEach(list, gone))
<1>1. PICK kept : Keeps(kept, list, gone)
  BY RemoveEachLoop
<1> DEFINE n == Len(list)
           SoFar(m) ==
               /\ kept[m] \in Seq(S)
               /\ \A e : Has(kept[m], e) <=> e \notin gone /\ \E i \in 1 .. m : list[i] = e
               /\ Distinct(kept[m])
           T == {m \in 0 .. n : SoFar(m)}
<1>2. n \in Nat /\ list \in Seq(S) /\ \A i \in 1 .. n : list[i] \in S
  OBVIOUS
<1>3. 0 \in T
  <2>1. kept[0] = << >>
    BY <1>1 DEF Keeps
  <2>2. SoFar(0)
    BY <2>1 DEF Has, Distinct
  <2> QED
    BY <1>2, <2>2
<1>4. ASSUME NEW m \in T, m \in 0 .. n - 1
      PROVE  m + 1 \in T
  <2> DEFINE e1 == list[m + 1]
  <2>1. m + 1 \in 1 .. n /\ (m + 1) - 1 = m /\ e1 \in S /\ m \in Nat
    BY <1>2, <1>4
  <2>2. SoFar(m)
    BY <1>4
  <2>3. \A j \in 1 .. m : j \in 1 .. n /\ j # m + 1
    BY <2>1
  <2>4. \A j \in 1 .. m : list[j] # e1
    BY <2>1, <2>3 DEF Distinct
  <2>5. kept[m + 1] = IF e1 \in gone THEN kept[m] ELSE Append(kept[m], e1)
    BY <1>1, <2>1, <2>4 DEF Keeps
  <2>6. \A e : (\E i \in 1 .. m + 1 : list[i] = e) <=> e = e1 \/ \E i \in 1 .. m : list[i] = e
    BY <2>1
  <2> HIDE DEF e1
  <2>7. CASE e1 \in gone
    <3>1. kept[m + 1] = kept[m]
      BY <2>5, <2>7
    <3>2. SoFar(m + 1)
      BY <2>2, <2>6, <2>7, <3>1
    <3> QED
      BY <2>1, <3>2
  <2>8. CASE e1 \notin gone
    <3>1. kept[m + 1] = Append(kept[m], e1)
      BY <2>5, <2>8
    <3>2. ~ Has(kept[m], e1)
      BY <2>2, <2>4
    <3>3. /\ kept[m + 1] \in Seq(S)
          /\ \A e : Has(kept[m + 1], e) <=> e = e1 \/ Has(kept[m], e)
          /\ Distinct(kept[m + 1])
      BY <2>1, <2>2, <3>1, <3>2, AppendHas
    <3>4. SoFar(m + 1)
      BY <2>2, <2>6, <2>8, <3>3
    <3> QED
      BY <2>1, <3>4
  <2> QED
    BY <2>7, <2>8
<1>5. SoFar(n)
  <2>1. n \in T
    <3> HIDE DEF T
    <3> QED
      BY <1>2, <1>3, <1>4, BoundedInduction
  <2> QED
    BY <2>1
<1>6. Range(kept[n]) = Range(list) \ gone
  <2>1. \A e : e \in Range(kept[n]) <=> Has(kept[n], e)
    BY <1>5 DEF Range, Has
  <2>2. \A e : e \in Range(list) <=> \E i \in 1 .. n : list[i] = e
    BY <1>2 DEF Range
  <2> QED
    BY <1>5, <2>1, <2>2
<1> QED
  BY <1>1, <1>5, <1>6 DEF Keeps

ListInv ==
    /\ clients \in Seq(Viewers)
    /\ socket \in [Viewers -> {"none", "open", "reset", "closed"}]
    /\ ListedIffOpen

\* The list follows every change of a socket's state.
LEMMA ListStep ==
    ASSUME ListInv, [Next]_agentVars
    PROVE  ListInv'
<1>1. /\ clients \in Seq(Viewers)
      /\ socket \in [Viewers -> {"none", "open", "reset", "closed"}]
      /\ Range(clients) = {v \in Viewers : socket[v] \in {"open", "reset"}}
      /\ \A i, j \in 1 .. Len(clients) : clients[i] = clients[j] => i = j
  BY DEF ListInv, ListedIffOpen
<1>2. ASSUME NEW v \in Viewers, NEW isLoopback \in BOOLEAN, NewConnection(v, isLoopback)
      PROVE  ListInv'
  <2>1. socket[v] = "none" /\ clients' = Append(clients, v) /\ socket' = [socket EXCEPT ![v] = "open"]
    BY <1>2 DEF NewConnection
  <2>2. /\ clients' \in Seq(Viewers)
        /\ Len(clients') = Len(clients) + 1
        /\ \A i \in 1 .. Len(clients) : clients'[i] = clients[i]
        /\ clients'[Len(clients) + 1] = v
    BY <1>1, <2>1
  <2>3. v \notin Range(clients)
    BY <1>1, <2>1
  <2>4. Range(clients') = Range(clients) \cup {v}
    BY <1>1, <2>2 DEF Range
  <2>5. \A i \in 1 .. Len(clients) : clients[i] # v
    BY <1>1, <2>3 DEF Range
  <2>6. \A i, j \in 1 .. Len(clients') : clients'[i] = clients'[j] => i = j
    BY <1>1, <2>2, <2>5
  <2>7. socket' \in [Viewers -> {"none", "open", "reset", "closed"}]
        /\ {u \in Viewers : socket'[u] \in {"open", "reset"}}
               = {u \in Viewers : socket[u] \in {"open", "reset"}} \cup {v}
    BY <1>1, <2>1
  <2> QED
    BY <1>1, <2>2, <2>4, <2>6, <2>7 DEF ListInv, ListedIffOpen
<1>3. ASSUME NEW gone \in SUBSET Viewers,
             clients' = RemoveEach(clients, gone),
             socket' = [v \in Viewers |-> IF v \in gone THEN "closed" ELSE socket[v]]
      PROVE  ListInv'
  <2>1. /\ clients' \in Seq(Viewers)
        /\ Range(clients') = Range(clients) \ gone
        /\ \A i, j \in 1 .. Len(clients') : clients'[i] = clients'[j] => i = j
    BY <1>1, <1>3, RemoveEachTakes DEF Distinct
  <2>2. socket' \in [Viewers -> {"none", "open", "reset", "closed"}]
        /\ {v \in Viewers : socket'[v] \in {"open", "reset"}}
               = {v \in Viewers : socket[v] \in {"open", "reset"}} \ gone
    BY <1>1, <1>3
  <2> QED
    BY <1>1, <2>1, <2>2 DEF ListInv, ListedIffOpen
<1>4. ASSUME NEW v \in Viewers, Disconnected(v)
      PROVE  ListInv'
  <2>1. clients' = RemoveEach(clients, {v})
        /\ socket' = [u \in Viewers |-> IF u \in {v} THEN "closed" ELSE socket[u]]
    BY <1>1, <1>4 DEF Disconnected
  <2> QED
    BY <1>3, <2>1
<1>5. ASSUME RunPosted
      PROVE  ListInv'
  <2>1. PICK failing \in SUBSET Vanished :
            clients' = RemoveEach(clients, failing)
            /\ socket' = [v \in Viewers |-> IF v \in failing THEN "closed" ELSE socket[v]]
    BY <1>5 DEF RunPosted, Broadcast
  <2>2. failing \subseteq Viewers
    BY <1>1 DEF Vanished, Served
  <2> QED
    BY <1>3, <2>1, <2>2
<1>6. ASSUME NEW v \in Viewers, PeerReset(v)
      PROVE  ListInv'
  BY <1>1, <1>6 DEF PeerReset, ListInv, ListedIffOpen
<1>7. ASSUME UNCHANGED <<clients, socket>>
      PROVE  ListInv'
  BY <1>1, <1>7 DEF ListInv, ListedIffOpen
<1> QED
  BY <1>2, <1>4, <1>5, <1>6, <1>7
     DEF Next, agentVars, qtVars, Authenticate, ScreenChanges, CaptureSingleFrame,
         CaptureTestPattern, CaptureUnchanged, Callback

\* The callback's look at the list and the loop of a broadcast find every open socket
\* and no deleted one (main.cpp, the newConnection and disconnected handlers).
THEOREM ListIsRight == Spec => []ListedIffOpen
<1>1. Init => ListInv
  BY DEF Init, ListInv, ListedIffOpen, Range
<1>2. ListInv /\ [Next]_agentVars => ListInv'
  BY ListStep
<1>3. ListInv => ListedIffOpen
  BY DEF ListInv
<1> QED
  BY <1>1, <1>2, <1>3, PTL DEF Spec
=============================================================================
