-------------------------- MODULE EmuThreadsProofs --------------------------
(***************************************************************************)
(* What holds of the emulator's threads for any number of operations, any  *)
(* set of them the user and the IPC client choose from, and any N of "step *)
(* frame N".                                                               *)
(***************************************************************************)
EXTENDS EmuThreads, TLAPS

-----------------------------------------------------------------------------
(* Between the pause check and the frame nobody has been counted late yet: *)
(* cpc_resume and the next cpc_pause both start the count again.           *)
LateInv ==
  /\ emuPaused \in BOOLEAN
  /\ late \in 0..1
  /\ ~emuPaused \/ zpc = "enter" => late = 0

(* cpc_pause and cpc_resume themselves, wherever they are called from,     *)
(* provided the Z80 thread does not reach its frame in the same step.      *)
LEMMA PauseKeepsLate ==
  ASSUME LateInv, cpc_pause \/ cpc_resume, zpc' = zpc \/ zpc' # "enter"
  PROVE  LateInv'
<1>1. CASE cpc_pause
  <2>1. CASE emuPaused
    BY <1>1, <2>1 DEF LateInv, cpc_pause
  <2>2. CASE ~emuPaused
    BY <1>1, <2>2 DEF LateInv, cpc_pause
  <2> QED BY <2>1, <2>2
<1>2. CASE cpc_resume
  <2>1. emuPaused' = FALSE /\ late' = 0
    BY <1>2, Zenon DEF cpc_resume
  <2>2. late' \in 0..1
    BY <2>1
  <2> QED BY <2>1, <2>2, Zenon DEF LateInv
<1> QED BY <1>1, <1>2

(* Everything else leaves the pause flag and the count alone; the Z80      *)
(* thread gets to "enter" only from a pause check that saw no pause.       *)
LEMMA OthersKeepLate ==
  ASSUME LateInv, UNCHANGED <<emuPaused, late>>,
         zpc' = "enter" => zpc = "enter" \/ ~emuPaused
  PROVE  LateInv'
  BY DEF LateInv

\* Every step keeps the bound on what still runs after a pause.
LEMMA NextKeepsLate ==
  ASSUME LateInv, [Next]_vars PROVE LateInv'
<1>1. CASE Z80Step
  <2>1. CASE ZTop \/ ZPark \/ ZBreakpointSignal \/ ZStepCheck \/ ZStepClear
               \/ ZStepNotify \/ ZSignal \/ ZFrameComplete
    BY <2>1, OthersKeepLate DEF ZTop, ZPark, ZBreakpointSignal, ZStepCheck, ZStepClear,
       ZStepNotify, ZSignal, ZFrameComplete, pauseVars
  <2>2. CASE ZCheckPause
    BY <2>2, OthersKeepLate DEF ZCheckPause, pauseVars
  <2>3. CASE ZEnter
    BY <2>3 DEF ZEnter, LateInv
  <2>4. CASE ZBreakpoint \/ ZStepPause
    BY <2>4, PauseKeepsLate DEF ZBreakpoint, ZStepPause
  <2> QED BY <1>1, <2>1, <2>2, <2>3, <2>4 DEF Z80Step
<1>2. CASE MainStep \/ CloseWindow \/ IpcQuit
  <2>1. CASE CleanUpPause \/ CleanUpResume
    BY <2>1, PauseKeepsLate DEF CleanUpPause, CleanUpResume
  <2>2. CASE CleanUpCheck \/ CleanUpAbort \/ CleanUpSpin \/ CleanUpQuit \/ CleanUpJoin
    BY <2>2, OthersKeepLate DEF CleanUpCheck, CleanUpAbort, CleanUpSpin, CleanUpQuit,
       CleanUpJoin, pauseVars
  <2>3. CASE QuitEvent \/ RenderWait \/ RenderFrame \/ RenderBail \/ CloseWindow \/ IpcQuit
    BY <2>3, OthersKeepLate DEF QuitEvent, RenderWait, RenderFrame, RenderBail,
       CloseWindow, IpcQuit, pauseVars
  <2> QED BY <1>2, <2>1, <2>2, <2>3 DEF MainStep, CleanUp
<1>3. ASSUME NEW c \in Clients, PauseOrRun(c) \/ BeginTouching(c) \/ ClientStep(c)
      PROVE  LateInv'
  <2>1. CASE PauseOrRun(c)
    BY <2>1, PauseKeepsLate DEF PauseOrRun
  <2>2. CASE PauseAndWait(c)
    BY <2>2, PauseKeepsLate DEF PauseAndWait
  <2>3. CASE Finish(c)
    BY <2>3, PauseKeepsLate, OthersKeepLate DEF Finish, pauseVars
  <2>4. CASE Touch(c) \/ LoadWasPaused(c) \/ Spin(c) \/ StepTest(c) \/ StepBlock(c)
               \/ BeginTouching(c)
    BY <2>4, OthersKeepLate DEF Touch, LoadWasPaused, Spin, StepTest, StepBlock,
       BeginTouching, pauseVars
  <2> QED BY <1>3, <2>1, <2>2, <2>3, <2>4 DEF ClientStep
<1>4. CASE UNCHANGED vars
  BY <1>4, OthersKeepLate DEF vars, pauseVars
<1> QED BY <1>1, <1>2, <1>3, <1>4 DEF Next

(* After a pause at most one more frame begins before someone resumes,     *)
(* whatever menu, IPC client, breakpoints and exit requests do.            *)
THEOREM OneLateFrame == Spec => []AtMostOneLateFrame
<1>1. ASSUME Init PROVE LateInv
  <2>1. emuPaused = FALSE /\ late = 0
    BY <1>1, Zenon DEF Init
  <2>2. late \in 0..1
    BY <2>1
  <2> QED BY <2>1, <2>2, Zenon DEF LateInv
<1>2. LateInv /\ [Next]_vars => LateInv'
  BY NextKeepsLate
<1>3. LateInv => AtMostOneLateFrame
  BY DEF LateInv, AtMostOneLateFrame
<1> QED BY <1>1, <1>2, <1>3, PTL DEF Spec

-----------------------------------------------------------------------------
(* Where the clients are.  The main thread never runs a "step frame".      *)
Ops == MainAll \cup IpcAll \cup {"none"}

ClientInv ==
  /\ pc \in [Clients -> PCs]
  /\ op \in [Clients -> Ops]
  /\ op["main"] # "step"

\* A client that goes to a label leaves the others where they were.
LEMMA GotoMoves ==
  ASSUME ClientInv, NEW c \in Clients, NEW label \in PCs, Goto(c, label)
  PROVE  /\ pc' \in [Clients -> PCs]
         /\ pc'[c] = label
         /\ \A d \in Clients \ {c} : pc'[d] = pc[d]
  BY DEF ClientInv, Goto

\* A client begins an operation only when idle, and the main thread never begins a step.
LEMMA BeginMoves ==
  ASSUME ClientInv, NEW c \in Clients, NEW o, Begin(c, o)
  PROVE  /\ pc[c] = "idle"
         /\ op' \in [Clients -> Ops]
         /\ op'[c] = o
         /\ \A d \in Clients \ {c} : op'[d] = op[d]
         /\ op'["main"] # "step"
<1>1. o \in Ops /\ (c = "main" => o # "step")
  BY ThreadsAssumption DEF Begin, OpsOf, Ops, MainAll, IpcAll, Clients
<1> QED BY <1>1 DEF ClientInv, Begin, Clients

\* Every step keeps what is said of each client's place and operation.
LEMMA NextKeepsClients ==
  ASSUME ClientInv, [Next]_vars PROVE ClientInv'
<1>1. CASE Z80Step
  <2>1. CASE ZStepNotify
    <3>1. pc' = [c \in Clients |-> IF pc[c] = "stepBlocked" THEN "stepTest" ELSE pc[c]]
      BY <2>1 DEF ZStepNotify
    <3>2. op' = op
      BY <2>1 DEF ZStepNotify
    <3> QED BY <3>1, <3>2 DEF ClientInv, PCs
  <2>2. CASE ~ZStepNotify
    <3>1. UNCHANGED <<pc, op>>
      BY <1>1, <2>2 DEF Z80Step, ZTop, ZCheckPause, ZPark, ZEnter, ZFrameComplete,
         ZBreakpoint, ZBreakpointSignal, ZStepCheck, ZStepPause, ZStepClear, ZSignal,
         clientVars
    <3> QED BY <3>1 DEF ClientInv
  <2> QED BY <2>1, <2>2
<1>2. CASE MainStep
  <2>1. op' = op
    BY <1>2 DEF MainStep, CleanUp, QuitEvent, RenderWait, RenderFrame, RenderBail,
       CleanUpCheck, CleanUpPause, CleanUpAbort, CleanUpSpin, CleanUpQuit,
       CleanUpResume, CleanUpJoin
  <2>2. UNCHANGED pc \/ \E label \in PCs : Goto("main", label)
    BY <1>2 DEF MainStep, CleanUp, QuitEvent, RenderWait, RenderFrame, RenderBail,
       CleanUpCheck, CleanUpPause, CleanUpAbort, CleanUpSpin, CleanUpQuit,
       CleanUpResume, CleanUpJoin, PCs
  <2> QED BY <2>1, <2>2, GotoMoves DEF ClientInv, Clients
<1>3. CASE CloseWindow
  <2>1. Begin("main", "close") /\ Goto("main", "clCheck")
    BY <1>3 DEF CloseWindow
  <2> QED BY <2>1, BeginMoves, GotoMoves DEF ClientInv, Clients, PCs
<1>4. CASE IpcQuit
  <2>1. Begin("ipc", "quit") /\ pc' = pc
    BY <1>4 DEF IpcQuit
  <2> QED BY <2>1, BeginMoves DEF ClientInv, Clients
<1>5. ASSUME NEW c \in Clients, PauseOrRun(c) PROVE ClientInv'
  <2>1. pc' = pc /\ \E o \in {"pause", "run"} : Begin(c, o)
    BY <1>5 DEF PauseOrRun
  <2> QED BY <2>1, BeginMoves DEF ClientInv
<1>6. ASSUME NEW c \in Clients, BeginTouching(c) PROVE ClientInv'
  <2>1. Goto(c, "load") /\ \E o : Begin(c, o)
    BY <1>6 DEF BeginTouching
  <2> QED BY <2>1, BeginMoves, GotoMoves DEF ClientInv, PCs
<1>7. ASSUME NEW c \in Clients, ClientStep(c) PROVE ClientInv'
  <2>1. op' = op
    BY <1>7 DEF ClientStep, LoadWasPaused, PauseAndWait, Spin, Touch, Finish, StepTest,
       StepBlock
  <2>2. \E label \in PCs : Goto(c, label)
    BY <1>7 DEF ClientStep, LoadWasPaused, PauseAndWait, Spin, Touch, Finish, StepTest,
       StepBlock, PCs
  <2> QED BY <2>1, <2>2, GotoMoves DEF ClientInv
<1>8. CASE UNCHANGED vars
  BY <1>8 DEF vars, clientVars, ClientInv
<1> QED BY <1>1, <1>2, <1>3, <1>4, <1>5, <1>6, <1>7, <1>8 DEF Next

-----------------------------------------------------------------------------
(* An armed "step frame" belongs to the IPC client that waits for it, and  *)
(* the frames it has left and those it has seen add up to N.  Only the     *)
(* Z80 thread's last frame brings the counter to zero.                     *)
StepInv ==
  /\ stepActive \in BOOLEAN
  /\ stepLeft \in 0..StepFrames /\ stepped \in 0..StepFrames
  /\ stepActive =>
       /\ op["ipc"] = "step"
       /\ pc["ipc"] \in {"finish", "stepTest", "stepToBlock", "stepBlocked"}
       /\ stepped + stepLeft = StepFrames
       /\ stepLeft = 0 => zpc \in {"stepPause", "stepClear"}
  /\ zpc \in {"stepPause", "stepClear"} => stepActive /\ stepLeft = 0

StepWaits == {"finish", "stepTest", "stepToBlock", "stepBlocked"}

(* Whoever leaves the counters alone, keeps a waiting client waiting and   *)
(* the Z80 thread where it is with respect to the end of the step.         *)
LEMMA OthersKeepStep ==
  ASSUME StepInv, UNCHANGED stepVars,
         stepActive => op'["ipc"] = op["ipc"] /\ pc'["ipc"] \in StepWaits,
         zpc' \in {"stepPause", "stepClear"} <=> zpc \in {"stepPause", "stepClear"}
  PROVE  StepInv'
  BY DEF StepInv, stepVars, StepWaits

\* Every step keeps what ties a step client to the step it waits for.
LEMMA NextKeepsStep ==
  ASSUME StepInv, ClientInv, [Next]_vars PROVE StepInv'
<1> USE DEF StepWaits
<1>1. CASE Z80Step
  <2>1. CASE ZStepCheck
    <3>1. CASE stepActive
      <4>1. /\ zpc = "stepCheck" /\ stepLeft' = stepLeft - 1 /\ stepped' = stepped + 1
            /\ zpc' = IF stepLeft' <= 0 THEN "stepPause" ELSE "signal"
            /\ UNCHANGED <<stepActive, op, pc>>
        BY <2>1, <3>1 DEF ZStepCheck, clientVars
      <4>2. stepLeft \in 1..StepFrames /\ stepped + stepLeft = StepFrames
        BY <3>1, <4>1 DEF StepInv
      <4>3. stepLeft' \in 0..StepFrames /\ stepped' \in 0..StepFrames
            /\ stepped' + stepLeft' = StepFrames
        BY <4>1, <4>2, ThreadsAssumption DEF StepInv
      <4> QED BY <3>1, <4>1, <4>2, <4>3 DEF StepInv
    <3>2. CASE ~stepActive
      BY <2>1, <3>2, OthersKeepStep DEF ZStepCheck, stepVars
    <3> QED BY <3>1, <3>2
  <2>2. CASE ZStepClear
    <3>1. zpc' = "stepNotify" /\ stepActive' = FALSE /\ UNCHANGED <<stepLeft, stepped>>
      BY <2>2, Zenon DEF ZStepClear
    <3> QED BY <3>1, Zenon DEF StepInv
  <2>3. CASE ZStepPause
    <3>1. zpc = "stepPause" /\ zpc' = "stepClear" /\ UNCHANGED <<stepVars, pc, op>>
      BY <2>3 DEF ZStepPause, clientVars
    <3> QED BY <3>1, OthersKeepStep DEF StepInv
  <2>4. CASE ZStepNotify
    <3>1. /\ zpc = "stepNotify" /\ zpc' = "signal" /\ UNCHANGED <<stepVars, op>>
          /\ pc' = [c \in Clients |-> IF pc[c] = "stepBlocked" THEN "stepTest" ELSE pc[c]]
      BY <2>4 DEF ZStepNotify
    <3>2. pc'["ipc"] = IF pc["ipc"] = "stepBlocked" THEN "stepTest" ELSE pc["ipc"]
      BY <3>1 DEF Clients
    <3> QED BY <3>1, <3>2, OthersKeepStep DEF StepInv
  <2>5. CASE ~(ZStepCheck \/ ZStepClear \/ ZStepPause \/ ZStepNotify)
    <3>1. UNCHANGED <<stepVars, pc, op>>
      BY <1>1, <2>5 DEF Z80Step, ZTop, ZCheckPause, ZPark, ZEnter, ZFrameComplete,
         ZBreakpoint, ZBreakpointSignal, ZSignal, clientVars
    <3>2. /\ zpc \notin {"stepPause", "stepClear"}
          /\ zpc' \notin {"stepPause", "stepClear"}
      BY <1>1, <2>5 DEF Z80Step, ZTop, ZCheckPause, ZPark, ZEnter, ZFrameComplete,
         ZBreakpoint, ZBreakpointSignal, ZSignal
    <3> QED BY <3>1, <3>2, OthersKeepStep DEF StepInv
  <2> QED BY <2>1, <2>2, <2>3, <2>4, <2>5
<1>2. CASE MainStep \/ CloseWindow
  <2>1. UNCHANGED <<stepVars, zpc>>
    BY <1>2 DEF MainStep, CleanUp, QuitEvent, RenderWait, RenderFrame, RenderBail,
       CleanUpCheck, CleanUpPause, CleanUpAbort, CleanUpSpin, CleanUpQuit,
       CleanUpResume, CleanUpJoin, CloseWindow
  <2>2. op' = op \/ Begin("main", "close")
    BY <1>2 DEF MainStep, CleanUp, QuitEvent, RenderWait, RenderFrame, RenderBail,
       CleanUpCheck, CleanUpPause, CleanUpAbort, CleanUpSpin, CleanUpQuit,
       CleanUpResume, CleanUpJoin, CloseWindow
  <2>3. UNCHANGED pc \/ \E label \in PCs : Goto("main", label)
    BY <1>2 DEF MainStep, CleanUp, QuitEvent, RenderWait, RenderFrame, RenderBail,
       CleanUpCheck, CleanUpPause, CleanUpAbort, CleanUpSpin, CleanUpQuit,
       CleanUpResume, CleanUpJoin, CloseWindow, PCs
  <2>4. op'["ipc"] = op["ipc"] /\ pc'["ipc"] = pc["ipc"]
    BY <2>2, <2>3, BeginMoves, GotoMoves DEF Clients
  <2> QED BY <2>1, <2>4, OthersKeepStep DEF StepInv
<1>3. CASE IpcQuit
  <2>1. Begin("ipc", "quit") /\ UNCHANGED <<stepVars, zpc>>
    BY <1>3 DEF IpcQuit
  <2>2. ~stepActive
    BY <2>1, BeginMoves DEF StepInv, Clients
  <2> QED BY <2>1, <2>2, OthersKeepStep
<1>4. ASSUME NEW c \in Clients, PauseOrRun(c) \/ BeginTouching(c) PROVE StepInv'
  <2>1. UNCHANGED <<stepVars, zpc>> /\ \E o : Begin(c, o)
    BY <1>4 DEF PauseOrRun, BeginTouching
  <2>2. UNCHANGED pc \/ Goto(c, "load")
    BY <1>4 DEF PauseOrRun, BeginTouching
  <2>3. CASE c = "ipc"
    <3>1. ~stepActive
      BY <2>1, <2>3, BeginMoves DEF StepInv, Clients
    <3> QED BY <2>1, <3>1, OthersKeepStep
  <2>4. CASE c = "main"
    <3>1. op'["ipc"] = op["ipc"] /\ pc'["ipc"] = pc["ipc"]
      BY <2>1, <2>2, <2>4, BeginMoves, GotoMoves DEF Clients, PCs
    <3> QED BY <2>1, <3>1, OthersKeepStep DEF StepInv
  <2> QED BY <2>3, <2>4 DEF Clients
<1>5. ASSUME NEW c \in Clients, ClientStep(c) PROVE StepInv'
  <2>1. op' = op /\ zpc' = zpc
    BY <1>5 DEF ClientStep, LoadWasPaused, PauseAndWait, Spin, Touch, Finish, StepTest,
       StepBlock
  <2>2. \E label \in PCs : Goto(c, label)
    BY <1>5 DEF ClientStep, LoadWasPaused, PauseAndWait, Spin, Touch, Finish, StepTest,
       StepBlock, PCs
  <2>3. CASE c = "main"
    <3>1. pc'["ipc"] = pc["ipc"]
      BY <2>2, <2>3, GotoMoves DEF Clients
    <3>2. UNCHANGED stepVars
      <4>1. op["main"] # "step"
        BY DEF ClientInv
      <4> QED BY <1>5, <2>3, <4>1 DEF ClientStep, LoadWasPaused, PauseAndWait, Spin,
                 Touch, Finish, StepTest, StepBlock
    <3> QED BY <2>1, <3>1, <3>2, OthersKeepStep DEF StepInv
  <2>4. CASE c = "ipc" /\ Touch("ipc") /\ op["ipc"] = "step"
    <3>1. stepLeft' = StepFrames /\ stepActive' = TRUE /\ stepped' = 0
      BY <2>4 DEF Touch
    <3>2. pc["ipc"] = "touch" /\ pc'["ipc"] = "finish"
      BY <2>4, GotoMoves DEF Touch, Clients, PCs
    <3>3. zpc \notin {"stepPause", "stepClear"}
      BY <3>2 DEF StepInv
    <3>4. stepLeft' \in 0..StepFrames /\ stepped' \in 0..StepFrames
          /\ stepped' + stepLeft' = StepFrames /\ stepLeft' # 0
      BY <3>1, ThreadsAssumption
    <3> QED BY <2>1, <2>4, <3>1, <3>2, <3>3, <3>4, Zenon DEF StepInv
  <2>5. CASE c = "ipc" /\ ~(Touch("ipc") /\ op["ipc"] = "step")
    <3>1. UNCHANGED stepVars
      BY <1>5, <2>5 DEF ClientStep, LoadWasPaused, PauseAndWait, Spin, Touch, Finish,
         StepTest, StepBlock
    <3>2. stepActive => pc'["ipc"] \in StepWaits
      <4>1. CASE Finish("ipc") /\ op["ipc"] = "step"
        <5>1. Goto("ipc", "stepTest")
          BY <4>1 DEF Finish
        <5> QED BY <5>1, GotoMoves DEF Clients, PCs
      <4>2. CASE StepTest("ipc")
        <5>1. stepActive => Goto("ipc", "stepToBlock")
          BY <4>2 DEF StepTest
        <5> QED BY <5>1, GotoMoves DEF Clients, PCs
      <4>3. CASE StepBlock("ipc")
        <5>1. Goto("ipc", "stepBlocked")
          BY <4>3 DEF StepBlock
        <5> QED BY <5>1, GotoMoves DEF Clients, PCs
      <4>4. CASE stepActive /\ ~(Finish("ipc") \/ StepTest("ipc") \/ StepBlock("ipc"))
        <5>1. pc["ipc"] \in {"load", "pause", "spin", "touch"}
          BY <1>5, <2>5, <4>4 DEF ClientStep, LoadWasPaused, PauseAndWait, Spin, Touch
        <5> QED BY <4>4, <5>1 DEF StepInv
      <4> QED BY <4>1, <4>2, <4>3, <4>4 DEF StepInv
    <3> QED BY <2>1, <3>1, <3>2, OthersKeepStep
  <2> QED BY <2>3, <2>4, <2>5 DEF Clients
<1>6. CASE UNCHANGED vars
  BY <1>6, OthersKeepStep DEF vars, clientVars, StepInv
<1> QED BY <1>1, <1>2, <1>3, <1>4, <1>5, <1>6 DEF Next

StepsRight == StepInv /\ ClientInv

\* Clients and the step they wait for agree in every reachable state.
LEMMA StepsRightInv == Spec => []StepsRight
<1>1. ASSUME Init PROVE StepsRight
  <2>1. stepActive = FALSE /\ stepLeft = 0 /\ stepped = 0 /\ zpc = "top"
    BY <1>1, Zenon DEF Init
  <2>2. stepLeft \in 0..StepFrames /\ stepped \in 0..StepFrames
    BY <2>1, ThreadsAssumption
  <2>3. StepInv
    BY <2>1, <2>2, Zenon DEF StepInv
  <2>4. ClientInv
    BY <1>1 DEF Init, ClientInv, Clients, PCs, Ops
  <2> QED BY <2>3, <2>4 DEF StepsRight
<1>2. StepsRight /\ [Next]_vars => StepsRight'
  BY NextKeepsStep, NextKeepsClients DEF StepsRight
<1> QED BY <1>1, <1>2, PTL DEF Spec

(* "step frame N" ends after exactly N completed frames, for every N: only *)
(* notify_frame_step_done disarms it, and only once the counter is used up.*)
THEOREM StepEndsOnItsFrame == Spec => StepRunsExactly
<1>1. ASSUME StepsRight, [Next]_vars, stepActive, ~stepActive'
      PROVE  stepped = StepFrames
  <2>1. CASE ZStepClear
    <3>1. zpc = "stepClear"
      BY <2>1 DEF ZStepClear
    <3> QED BY <1>1, <3>1, ThreadsAssumption DEF StepsRight, StepInv
  <2>2. CASE ~ZStepClear
    <3>1. stepActive' = stepActive \/ stepActive'
      BY <1>1, <2>2 DEF Next, Z80Step, ZTop, ZCheckPause, ZPark, ZEnter, ZFrameComplete,
         ZBreakpoint, ZBreakpointSignal, ZStepCheck, ZStepPause, ZStepNotify, ZSignal,
         MainStep, CleanUp, QuitEvent, RenderWait, RenderFrame, RenderBail,
         CleanUpCheck, CleanUpPause, CleanUpAbort, CleanUpSpin, CleanUpQuit,
         CleanUpResume, CleanUpJoin, CloseWindow, IpcQuit, PauseOrRun, BeginTouching,
         ClientStep, LoadWasPaused, PauseAndWait, Spin, Touch, Finish, StepTest,
         StepBlock, vars, stepVars
    <3> QED BY <1>1, <3>1
  <2> QED BY <2>1, <2>2
<1> QED BY <1>1, StepsRightInv, PTL DEF Spec, StepRunsExactly

-----------------------------------------------------------------------------
(* The rest of the type invariant: the flags, the program counter of the   *)
(* Z80 thread and the clients' own variables.                              *)
RestTyped ==
  /\ cpcPaused \in BOOLEAN /\ quiescent \in BOOLEAN
  /\ quit \in BOOLEAN /\ quitEvent \in BOOLEAN
  /\ sig \in [ready : BOOLEAN, skip : BOOLEAN, aborted : BOOLEAN]
  /\ zpc \in ZPCs
  /\ was \in [Clients -> BOOLEAN]
  /\ ops \in [Clients -> 0..MaxOps]

\* Beginning an operation stays within the bound on operations.
LEMMA BeginCounts ==
  ASSUME RestTyped, NEW c \in Clients, NEW o, Begin(c, o)
  PROVE  ops' \in [Clients -> 0..MaxOps]
  BY ThreadsAssumption DEF RestTyped, Begin

\* Every step keeps the types of the variables the other parts do not mention.
LEMMA NextKeepsRest ==
  ASSUME RestTyped, LateInv, [Next]_vars PROVE RestTyped'
<1>1. CASE Z80Step
  <2>1. zpc' \in ZPCs
    BY <1>1 DEF Z80Step, ZTop, ZCheckPause, ZPark, ZEnter, ZFrameComplete,
       ZBreakpoint, ZBreakpointSignal, ZStepCheck, ZStepPause, ZStepClear,
       ZStepNotify, ZSignal, ZPCs
  <2>2. UNCHANGED <<was, ops>>
    BY <1>1 DEF Z80Step, ZTop, ZCheckPause, ZPark, ZEnter, ZFrameComplete,
       ZBreakpoint, ZBreakpointSignal, ZStepCheck, ZStepPause, ZStepClear,
       ZStepNotify, ZSignal, clientVars
  <2>3. sig' = sig \/ \E skip \in BOOLEAN : signal_ready(skip)
    BY <1>1 DEF Z80Step, ZTop, ZCheckPause, ZPark, ZEnter, ZFrameComplete,
       ZBreakpoint, ZBreakpointSignal, ZStepCheck, ZStepPause, ZStepClear,
       ZStepNotify, ZSignal
  <2>4. sig' \in [ready : BOOLEAN, skip : BOOLEAN, aborted : BOOLEAN]
    BY <2>3 DEF RestTyped, signal_ready
  <2>5. quiescent' \in BOOLEAN
    <3>1. quiescent' = quiescent \/ quiescent' = TRUE \/ quiescent' = FALSE
      BY <1>1, Zenon DEF Z80Step, ZTop, ZCheckPause, ZPark, ZEnter, ZFrameComplete,
         ZBreakpoint, ZBreakpointSignal, ZStepCheck, ZStepPause, ZStepClear,
         ZStepNotify, ZSignal
    <3> QED BY <3>1, Zenon DEF RestTyped
  <2>6. quit' \in BOOLEAN /\ quitEvent' \in BOOLEAN
    <3>1. UNCHANGED quitVars \/ SelfExit
      BY <1>1, Zenon DEF Z80Step, ZTop, ZCheckPause, ZPark, ZEnter, ZFrameComplete,
         ZBreakpoint, ZBreakpointSignal, ZStepCheck, ZStepPause, ZStepClear,
         ZStepNotify, ZSignal
    <3> QED BY <3>1, Zenon DEF RestTyped, quitVars, SelfExit
  <2>7. cpcPaused' \in BOOLEAN
    <3>1. cpcPaused' = cpcPaused \/ cpcPaused' = TRUE
      BY <1>1, Zenon DEF Z80Step, ZTop, ZCheckPause, ZPark, ZEnter, ZFrameComplete,
         ZBreakpoint, ZBreakpointSignal, ZStepCheck, ZStepPause, ZStepClear,
         ZStepNotify, ZSignal, pauseVars, cpc_pause
    <3> QED BY <3>1, Zenon DEF RestTyped
  <2> QED BY <2>1, <2>2, <2>4, <2>5, <2>6, <2>7, Zenon DEF RestTyped
<1>2. CASE MainStep
  <2>1. UNCHANGED <<quiescent, zpc, was, ops>>
    BY <1>2 DEF MainStep, CleanUp, QuitEvent, RenderWait, RenderFrame, RenderBail,
       CleanUpCheck, CleanUpPause, CleanUpAbort, CleanUpSpin, CleanUpQuit,
       CleanUpResume, CleanUpJoin
  <2>2. UNCHANGED pauseVars \/ cpc_pause \/ cpc_resume
    BY <1>2, Zenon DEF MainStep, CleanUp, QuitEvent, RenderWait, RenderFrame, RenderBail,
       CleanUpCheck, CleanUpPause, CleanUpAbort, CleanUpSpin, CleanUpQuit,
       CleanUpResume, CleanUpJoin
  <2>3. cpcPaused' \in BOOLEAN
    BY <2>2, Zenon DEF RestTyped, pauseVars, cpc_pause, cpc_resume
  <2>4. \/ sig' = sig
        \/ sig' = [sig EXCEPT !.ready = FALSE]
        \/ sig' = [sig EXCEPT !.aborted = TRUE]
    BY <1>2, Zenon DEF MainStep, CleanUp, QuitEvent, RenderWait, RenderFrame, RenderBail,
       CleanUpCheck, CleanUpPause, CleanUpAbort, CleanUpSpin, CleanUpQuit,
       CleanUpResume, CleanUpJoin
  <2>5. sig' \in [ready : BOOLEAN, skip : BOOLEAN, aborted : BOOLEAN]
    BY <2>4 DEF RestTyped
  <2>6. /\ quit' = quit \/ quit' = TRUE
        /\ quitEvent' = quitEvent \/ quitEvent' = FALSE
    BY <1>2, Zenon DEF MainStep, CleanUp, QuitEvent, RenderWait, RenderFrame, RenderBail,
       CleanUpCheck, CleanUpPause, CleanUpAbort, CleanUpSpin, CleanUpQuit,
       CleanUpResume, CleanUpJoin, quitVars
  <2> QED BY <2>1, <2>3, <2>5, <2>6, Zenon DEF RestTyped
<1>3. CASE CloseWindow
  <2>1. Begin("main", "close") /\ UNCHANGED <<pauseVars, quiescent, quitVars, sig, zpc, was>>
    BY <1>3 DEF CloseWindow
  <2>2. ops' \in [Clients -> 0..MaxOps]
    BY <2>1, BeginCounts DEF Clients
  <2> QED BY <2>1, <2>2, Zenon DEF RestTyped, pauseVars, quitVars
<1>4. CASE IpcQuit
  <2>1. Begin("ipc", "quit") /\ quitEvent' = TRUE
        /\ UNCHANGED <<pauseVars, quiescent, quit, sig, zpc, was>>
    BY <1>4, Zenon DEF IpcQuit
  <2>2. ops' \in [Clients -> 0..MaxOps]
    BY <2>1, BeginCounts DEF Clients
  <2> QED BY <2>1, <2>2, Zenon DEF RestTyped, pauseVars
<1>5. ASSUME NEW c \in Clients, PauseOrRun(c) \/ BeginTouching(c) PROVE RestTyped'
  <2>1. UNCHANGED <<quiescent, quitVars, sig, zpc, was>> /\ \E o : Begin(c, o)
    BY <1>5 DEF PauseOrRun, BeginTouching
  <2>2. ops' \in [Clients -> 0..MaxOps]
    BY <2>1, BeginCounts
  <2>3. UNCHANGED pauseVars \/ cpc_pause \/ cpc_resume
    BY <1>5, Zenon DEF PauseOrRun, BeginTouching
  <2>4. cpcPaused' \in BOOLEAN
    BY <2>3, Zenon DEF RestTyped, pauseVars, cpc_pause, cpc_resume
  <2> QED BY <2>1, <2>2, <2>4, Zenon DEF RestTyped, quitVars
<1>6. ASSUME NEW c \in Clients, ClientStep(c) PROVE RestTyped'
  <2>1. UNCHANGED <<quiescent, quitVars, sig, zpc, ops>>
    BY <1>6 DEF ClientStep, LoadWasPaused, PauseAndWait, Spin, Touch, Finish, StepTest,
       StepBlock
  <2>2. was' \in [Clients -> BOOLEAN]
    <3>1. CASE LoadWasPaused(c)
      <4>1. was' = [was EXCEPT ![c] = IF op[c] = "reset" THEN emuPaused ELSE cpcPaused]
        BY <3>1 DEF LoadWasPaused
      <4>2. (IF op[c] = "reset" THEN emuPaused ELSE cpcPaused) \in BOOLEAN
        BY DEF RestTyped, LateInv
      <4> QED BY <4>1, <4>2 DEF RestTyped
    <3>2. CASE ~LoadWasPaused(c)
      BY <1>6, <3>2 DEF ClientStep, PauseAndWait, Spin, Touch, Finish, StepTest,
         StepBlock, RestTyped
    <3> QED BY <3>1, <3>2
  <2>3. \/ UNCHANGED pauseVars \/ cpc_pause \/ cpc_resume
        \/ cpcPaused' = (op[c] # "rebuild" /\ cpcPaused)
    BY <1>6, Zenon DEF ClientStep, LoadWasPaused, PauseAndWait, Spin, Touch, Finish,
       StepTest, StepBlock
  <2>4. cpcPaused' \in BOOLEAN
    BY <2>3, Zenon DEF RestTyped, pauseVars, cpc_pause, cpc_resume
  <2> QED BY <2>1, <2>2, <2>4, Zenon DEF RestTyped, quitVars
<1>7. CASE UNCHANGED vars
  BY <1>7 DEF RestTyped, vars, pauseVars, quitVars, clientVars
<1> QED BY <1>1, <1>2, <1>3, <1>4, <1>5, <1>6, <1>7 DEF Next

(* Type correctness: the frame step's counters never leave 0..N and no     *)
(* thread is ever anywhere but at one of its program points.               *)
THEOREM ThreadsTypeCorrect == Spec => []TypeOK
<1> DEFINE Typed == RestTyped /\ LateInv
<1>1. ASSUME Init PROVE Typed
  <2>1. emuPaused = FALSE /\ late = 0
    BY <1>1, Zenon DEF Init
  <2>2. late \in 0..1
    BY <2>1
  <2>3. LateInv
    BY <2>1, <2>2, Zenon DEF LateInv
  <2>4. cpcPaused = FALSE /\ quiescent = TRUE /\ quit = FALSE /\ quitEvent = FALSE
    BY <1>1, Zenon DEF Init
  <2>5. /\ cpcPaused \in BOOLEAN /\ quiescent \in BOOLEAN
        /\ quit \in BOOLEAN /\ quitEvent \in BOOLEAN
    BY <2>4, Zenon
  <2>6. sig \in [ready : BOOLEAN, skip : BOOLEAN, aborted : BOOLEAN]
    BY <1>1 DEF Init
  <2>7. zpc \in ZPCs /\ was \in [Clients -> BOOLEAN] /\ ops \in [Clients -> 0..MaxOps]
    BY <1>1, ThreadsAssumption DEF Init, ZPCs
  <2> QED BY <2>3, <2>5, <2>6, <2>7, Zenon DEF RestTyped
<1>2. Typed /\ [Next]_vars => Typed'
  BY NextKeepsRest, NextKeepsLate
<1>3. Typed /\ StepsRight => TypeOK
  <2>1. LateInv => emuPaused \in BOOLEAN /\ late \in Nat
    BY DEF LateInv
  <2> QED BY <2>1, Zenon DEF RestTyped, LateInv, StepsRight, StepInv, ClientInv, TypeOK, Ops
<1> QED BY <1>1, <1>2, <1>3, StepsRightInv, PTL DEF Spec

=============================================================================
