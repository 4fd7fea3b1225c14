----------------------------- MODULE EmuThreads -----------------------------
(***************************************************************************)
(* The threads of the emulator and the flags they meet on                  *)
(* (src/src/kon_cpc_ja.cpp, FrameSignal in src/src/koncepcja.h, the frame  *)
(* step of src/src/koncepcja_ipc_server.cpp):                              *)
(*                                                                         *)
(*   - the Z80 thread, z80_thread_main: quit check, pause check, one frame;*)
(*   - the main thread: events, the render loop, doCleanUp;                *)
(*   - the IPC server thread, which runs one command at a time.            *)
(*                                                                         *)
(* "main" and "ipc" are clients: they stop the Z80 thread, touch the       *)
(* machine (reset, rebuild, restart the video, load a snapshot) and resume.*)
(* Every load and store of a shared flag is a step of its own.  What a     *)
(* frame computes is left out; only where the thread is matters.           *)
(***************************************************************************)
EXTENDS Integers

CONSTANTS
  MainOps,     \* what the user does: subset of MainAll
  IpcOps,      \* what the IPC client sends: subset of IpcAll
  MaxOps,      \* bound: operations per client
  StepFrames,  \* N of "step frame N"
  SelfQuit,    \* --exit-after: the Z80 thread may call cleanExit itself
  Breakpoints  \* a frame may end in EC_BREAKPOINT

Clients == {"main", "ipc"}
MainAll == {"reset", "rebuild", "restyle", "pause", "run", "close", "decline"}
IpcAll == {"reset", "snapshot", "step", "pause", "run", "quit"}

ASSUME ThreadsAssumption ==
  /\ MainOps \subseteq MainAll /\ IpcOps \subseteq IpcAll
  /\ MaxOps \in Nat /\ StepFrames \in Nat \ {0}
  /\ SelfQuit \in BOOLEAN /\ Breakpoints \in BOOLEAN

VARIABLES
  emuPaused,  \* g_emu_paused
  cpcPaused,  \* CPC.paused
  quiescent,  \* g_z80_quiescent
  quit,       \* g_z80_thread_quit
  quitEvent,  \* an SDL_EVENT_QUIT is queued
  sig,        \* g_frame_signal
  stepActive, \* frame_step_active
  stepLeft,   \* frame_step_remaining
  stepped,    \* frames completed since the last "step frame" was armed
  zpc,        \* Z80 thread
  pc, op,     \* clients: where they are, in which operation
  was,        \* clients: was_paused
  ops,        \* clients: operations started
  late        \* frames begun since the last cpc_pause

pauseVars == <<emuPaused, cpcPaused, late>>
stepVars == <<stepActive, stepLeft, stepped>>
clientVars == <<pc, op, was, ops>>
quitVars == <<quit, quitEvent>>
vars == <<pauseVars, quiescent, quitVars, sig, stepVars, zpc, clientVars>>

ZPCs == {"top", "check", "park", "enter", "frame", "stepCheck", "stepPause",
         "stepClear", "stepNotify", "bpSignal", "signal", "exited"}
PCs == {"idle", "load", "pause", "spin", "touch", "finish",
        "stepTest", "stepToBlock", "stepBlocked", "waitFrame",
        "clCheck", "clPause", "clAbort", "clPause2", "clSpin", "clQuit",
        "clResume", "clJoin", "done"}

TypeOK ==
  /\ emuPaused \in BOOLEAN /\ cpcPaused \in BOOLEAN /\ quiescent \in BOOLEAN
  /\ quit \in BOOLEAN /\ quitEvent \in BOOLEAN
  /\ sig \in [ready : BOOLEAN, skip : BOOLEAN, aborted : BOOLEAN]
  /\ stepActive \in BOOLEAN
  /\ stepLeft \in 0..StepFrames /\ stepped \in 0..StepFrames /\ late \in Nat
  /\ zpc \in ZPCs
  /\ pc \in [Clients -> PCs]
  /\ op \in [Clients -> MainAll \cup IpcAll \cup {"none"}]
  /\ was \in [Clients -> BOOLEAN]
  /\ ops \in [Clients -> 0..MaxOps]

Init ==
  /\ emuPaused = FALSE /\ cpcPaused = FALSE /\ late = 0
  /\ quiescent = TRUE
  /\ quit = FALSE /\ quitEvent = FALSE
  /\ sig = [ready |-> FALSE, skip |-> FALSE, aborted |-> FALSE]
  /\ stepActive = FALSE /\ stepLeft = 0 /\ stepped = 0
  /\ zpc = "top"
  /\ pc = [c \in Clients |-> "idle"]
  /\ op = [c \in Clients |-> "none"]
  /\ was = [c \in Clients |-> FALSE]
  /\ ops = [c \in Clients |-> 0]

(* cpc_pause and cpc_resume *)
cpc_pause ==
  /\ emuPaused' = TRUE /\ cpcPaused' = TRUE
  /\ late' = IF emuPaused THEN late ELSE 0

cpc_resume ==
  /\ emuPaused' = FALSE /\ cpcPaused' = FALSE /\ late' = 0

(* FrameSignal::signal_ready *)
signal_ready(skip) ==
  sig' = IF sig.aborted THEN sig ELSE [sig EXCEPT !.ready = TRUE, !.skip = skip]

Goto(c, label) == pc' = [pc EXCEPT ![c] = label]

-----------------------------------------------------------------------------
(* The Z80 thread: z80_thread_main. *)

ZTop ==
  /\ zpc = "top"
  /\ zpc' = IF quit THEN "exited" ELSE "check"
  /\ UNCHANGED <<pauseVars, quiescent, quitVars, sig, stepVars, clientVars>>

(* Mutant of ZCheckPause: the pause check is lost. *)
ZCheckPauseLost ==
  /\ zpc = "check"
  /\ zpc' = "enter"
  /\ UNCHANGED <<pauseVars, quiescent, quitVars, sig, stepVars, clientVars>>

ZCheckPause ==
  /\ zpc = "check"
  /\ zpc' = IF emuPaused THEN "park" ELSE "enter"
  /\ UNCHANGED <<pauseVars, quiescent, quitVars, sig, stepVars, clientVars>>

(* Mutant of ZPark: the parked thread does not say so. *)
ZParkSilent ==
  /\ zpc = "park"
  /\ zpc' = "top"
  /\ UNCHANGED <<pauseVars, quiescent, quitVars, sig, stepVars, clientVars>>

(* Paused: mark quiescent and sleep. *)
ZPark ==
  /\ zpc = "park"
  /\ zpc' = "top"
  /\ quiescent' = TRUE
  /\ UNCHANGED <<pauseVars, quitVars, sig, stepVars, clientVars>>

ZEnter ==
  /\ zpc = "enter"
  /\ zpc' = "frame"
  /\ quiescent' = FALSE
  /\ late' = IF emuPaused THEN late + 1 ELSE late
  /\ UNCHANGED <<emuPaused, cpcPaused, quitVars, sig, stepVars, clientVars>>

(* cleanExit on the Z80 thread: raise the quit flag, queue SDL_EVENT_QUIT. *)
SelfExit == quit' = TRUE /\ quitEvent' = TRUE

(* The frame is complete; with --exit-after this may be the last one. *)
ZFrameComplete ==
  /\ zpc = "frame"
  /\ zpc' = "stepCheck"
  /\ \/ UNCHANGED quitVars
     \/ SelfQuit /\ SelfExit
  /\ UNCHANGED <<pauseVars, quiescent, sig, stepVars, clientVars>>

(* A breakpoint, watchpoint or finished step ends the frame early. *)
ZBreakpoint ==
  /\ zpc = "frame" /\ Breakpoints
  /\ zpc' = "bpSignal"
  /\ cpc_pause
  /\ \/ UNCHANGED quitVars
     \/ SelfQuit /\ SelfExit
  /\ UNCHANGED <<quiescent, sig, stepVars, clientVars>>

ZBreakpointSignal ==
  /\ zpc = "bpSignal"
  /\ zpc' = "top"
  /\ signal_ready(TRUE)
  /\ UNCHANGED <<pauseVars, quiescent, quitVars, stepVars, clientVars>>

(* Mutant of ZStepCheck: one frame too many. *)
ZStepCheckOffByOne ==
  /\ zpc = "stepCheck"
  /\ IF stepActive
       THEN /\ stepLeft' = stepLeft - 1
            /\ stepped' = stepped + 1
            /\ zpc' = IF stepLeft' < 0 THEN "stepPause" ELSE "signal"
       ELSE zpc' = "signal" /\ UNCHANGED <<stepLeft, stepped>>
  /\ UNCHANGED <<pauseVars, quiescent, quitVars, sig, stepActive, clientVars>>

(* The IPC frame step: count the frame, pause after the last one. *)
ZStepCheck ==
  /\ zpc = "stepCheck"
  /\ IF stepActive
       THEN /\ stepLeft' = stepLeft - 1
            /\ stepped' = stepped + 1
            /\ zpc' = IF stepLeft' <= 0 THEN "stepPause" ELSE "signal"
       ELSE zpc' = "signal" /\ UNCHANGED <<stepLeft, stepped>>
  /\ UNCHANGED <<pauseVars, quiescent, quitVars, sig, stepActive, clientVars>>

ZStepPause ==
  /\ zpc = "stepPause"
  /\ zpc' = "stepClear"
  /\ cpc_pause
  /\ UNCHANGED <<quiescent, quitVars, sig, stepVars, clientVars>>

(* notify_frame_step_done: the store, without frame_step_mutex, ... *)
ZStepClear ==
  /\ zpc = "stepClear"
  /\ zpc' = "stepNotify"
  /\ stepActive' = FALSE
  /\ UNCHANGED <<pauseVars, quiescent, quitVars, sig, stepLeft, stepped, clientVars>>

(* ... and the notify, which reaches only a waiter that is blocked. *)
ZStepNotify ==
  /\ zpc = "stepNotify"
  /\ zpc' = "signal"
  /\ pc' = [c \in Clients |-> IF pc[c] = "stepBlocked" THEN "stepTest" ELSE pc[c]]
  /\ UNCHANGED <<pauseVars, quiescent, quitVars, sig, stepVars, op, was, ops>>

(* The frame is published (see FrameRing); wake the render thread. *)
ZSignal ==
  /\ zpc = "signal"
  /\ zpc' = "top"
  /\ \E skip \in BOOLEAN : signal_ready(skip)
  /\ UNCHANGED <<pauseVars, quiescent, quitVars, stepVars, clientVars>>

Z80Step ==
  \/ ZTop \/ ZCheckPause \/ ZPark \/ ZEnter
  \/ ZFrameComplete \/ ZBreakpoint \/ ZBreakpointSignal
  \/ ZStepCheck \/ ZStepPause \/ ZStepClear \/ ZStepNotify \/ ZSignal

-----------------------------------------------------------------------------
(* The clients. *)

OpsOf(c) == IF c = "main" THEN MainOps ELSE IpcOps

Begin(c, o) ==
  /\ pc[c] = "idle" /\ ops[c] < MaxOps /\ o \in OpsOf(c)
  /\ ops' = [ops EXCEPT ![c] = @ + 1]
  /\ op' = [op EXCEPT ![c] = o]

(* The menu's or the command's pause and run, and the focus events. *)
PauseOrRun(c) ==
  /\ \/ Begin(c, "pause") /\ cpc_pause
     \/ Begin(c, "run") /\ cpc_resume
  /\ UNCHANGED <<quiescent, quitVars, sig, stepVars, zpc, pc, was>>

(* An operation that touches the machine. *)
BeginTouching(c) ==
  /\ \E o \in {"reset", "rebuild", "restyle", "snapshot", "step"} : Begin(c, o)
  /\ Goto(c, "load")
  /\ UNCHANGED <<pauseVars, quiescent, quitVars, sig, stepVars, zpc, was>>

(* was_paused, read before the pause.  emulator_reset reads g_emu_paused,  *)
(* the others CPC.paused; the fullscreen toggle and the IPC snapshot       *)
(* commands skip the wait when it is set.                                  *)
LoadWasPaused(c) ==
  /\ pc[c] = "load"
  /\ was' = [was EXCEPT ![c] = IF op[c] = "reset" THEN emuPaused ELSE cpcPaused]
  /\ Goto(c, IF op[c] \in {"restyle", "snapshot"} /\ cpcPaused
               THEN "touch" ELSE "pause")
  /\ UNCHANGED <<pauseVars, quiescent, quitVars, sig, stepVars, zpc, op, ops>>

(* cpc_pause_and_wait: pause, ... *)
PauseAndWait(c) ==
  /\ pc[c] = "pause"
  /\ cpc_pause
  /\ Goto(c, "spin")
  /\ UNCHANGED <<quiescent, quitVars, sig, stepVars, zpc, op, was, ops>>

(* ... and spin until the Z80 thread is quiescent. *)
Spin(c) ==
  /\ pc[c] = "spin" /\ quiescent
  /\ Goto(c, "touch")
  /\ UNCHANGED <<pauseVars, quiescent, quitVars, sig, stepVars, zpc, op, was, ops>>

(* The machine is touched while the client is at "touch"; this step ends   *)
(* it.  emulator_init clears CPC.paused; "step frame" arms the counter.    *)
Touch(c) ==
  /\ pc[c] = "touch"
  /\ Goto(c, "finish")
  /\ cpcPaused' = (op[c] # "rebuild" /\ cpcPaused)
  /\ IF op[c] = "step"
       THEN stepLeft' = StepFrames /\ stepActive' = TRUE /\ stepped' = 0
       ELSE UNCHANGED stepVars
  /\ UNCHANGED <<emuPaused, late, quiescent, quitVars, sig, zpc, op, was, ops>>

(* Restore the run state.  A failed rebuild stays paused; the IPC reset    *)
(* resumes unless it was given --no-resume.                                *)
Finish(c) ==
  /\ pc[c] = "finish"
  /\ \/ /\ op[c] \in {"restyle", "snapshot"} \/ (op[c] = "reset" /\ c = "main")
        /\ IF was[c] THEN UNCHANGED pauseVars ELSE cpc_resume
     \/ op[c] = "reset" /\ c = "ipc" /\ (cpc_resume \/ UNCHANGED pauseVars)
     \/ op[c] = "rebuild" /\ cpc_pause
     \/ op[c] = "rebuild" /\ ~was[c] /\ cpc_resume
     \/ op[c] = "step" /\ cpc_resume
  /\ Goto(c, IF op[c] = "step" THEN "stepTest" ELSE "idle")
  /\ UNCHANGED <<quiescent, quitVars, sig, stepVars, zpc, op, was, ops>>

(* wait_frame_step_done: the predicate, then the block.  The notifier does *)
(* not hold frame_step_mutex, so it may run between the two.               *)
StepTest(c) ==
  /\ pc[c] = "stepTest"
  /\ Goto(c, IF stepActive THEN "stepToBlock" ELSE "idle")
  /\ UNCHANGED <<pauseVars, quiescent, quitVars, sig, stepVars, zpc, op, was, ops>>

StepBlock(c) ==
  /\ pc[c] = "stepToBlock"
  /\ Goto(c, "stepBlocked")
  /\ UNCHANGED <<pauseVars, quiescent, quitVars, sig, stepVars, zpc, op, was, ops>>

(* cleanExit on the IPC thread: only queue SDL_EVENT_QUIT. *)
IpcQuit ==
  /\ Begin("ipc", "quit")
  /\ quitEvent' = TRUE
  /\ UNCHANGED <<pauseVars, quiescent, quit, sig, stepVars, zpc, pc, was>>

ClientStep(c) ==
  LoadWasPaused(c) \/ PauseAndWait(c) \/ Spin(c) \/ Touch(c) \/ Finish(c)
    \/ StepTest(c) \/ StepBlock(c)

-----------------------------------------------------------------------------
(* The main thread's own loop: events first, then render_one_frame. *)

(* Window close, or a queued SDL_EVENT_QUIT; the user may decline. *)
CloseWindow ==
  /\ Begin("main", "close")
  /\ Goto("main", "clCheck")
  /\ UNCHANGED <<pauseVars, quiescent, quitVars, sig, stepVars, zpc, was>>

QuitEvent ==
  /\ pc["main"] = "idle" /\ quitEvent
  /\ quitEvent' = FALSE
  /\ \/ Goto("main", "clCheck")
     \/ "decline" \in MainOps /\ UNCHANGED pc
  /\ UNCHANGED <<pauseVars, quiescent, quit, sig, stepVars, zpc, op, was, ops>>

RenderWait ==
  /\ pc["main"] = "idle" /\ ~quitEvent /\ ~emuPaused
  /\ Goto("main", "waitFrame")
  /\ UNCHANGED <<pauseVars, quiescent, quitVars, sig, stepVars, zpc, op, was, ops>>

(* try_wait_ready_for returned true: the signal is consumed, the frame     *)
(* presented.                                                              *)
RenderFrame ==
  /\ pc["main"] = "waitFrame" /\ sig.ready /\ ~sig.aborted
  /\ sig' = [sig EXCEPT !.ready = FALSE]
  /\ Goto("main", "idle")
  /\ UNCHANGED <<pauseVars, quiescent, quitVars, stepVars, zpc, op, was, ops>>

(* Mutant of RenderBail: the escape hatch forgets the pause. *)
RenderBailOnQuit ==
  /\ pc["main"] = "waitFrame" /\ (~sig.ready \/ sig.aborted)
  /\ quit
  /\ Goto("main", "idle")
  /\ UNCHANGED <<pauseVars, quiescent, quitVars, sig, stepVars, zpc, op, was, ops>>

(* It timed out: the escape hatch for a paused or ending Z80 thread. *)
RenderBail ==
  /\ pc["main"] = "waitFrame" /\ (~sig.ready \/ sig.aborted)
  /\ emuPaused \/ quit
  /\ Goto("main", "idle")
  /\ UNCHANGED <<pauseVars, quiescent, quitVars, sig, stepVars, zpc, op, was, ops>>

(* doCleanUp: a Z80 thread that is already quitting is joined directly, ... *)
CleanUpCheck ==
  /\ pc["main"] = "clCheck"
  /\ Goto("main", IF quit THEN "clJoin" ELSE "clPause")
  /\ UNCHANGED <<pauseVars, quiescent, quitVars, sig, stepVars, zpc, op, was, ops>>

(* ... any other one is paused and waited for first. *)
CleanUpPause ==
  /\ \/ pc["main"] = "clPause" /\ Goto("main", "clAbort")
     \/ pc["main"] = "clPause2" /\ Goto("main", "clSpin")
  /\ cpc_pause
  /\ UNCHANGED <<quiescent, quitVars, sig, stepVars, zpc, op, was, ops>>

CleanUpAbort ==
  /\ pc["main"] = "clAbort"
  /\ sig' = [sig EXCEPT !.aborted = TRUE]
  /\ Goto("main", "clPause2")
  /\ UNCHANGED <<pauseVars, quiescent, quitVars, stepVars, zpc, op, was, ops>>

CleanUpSpin ==
  /\ pc["main"] = "clSpin" /\ quiescent
  /\ Goto("main", "clQuit")
  /\ UNCHANGED <<pauseVars, quiescent, quitVars, sig, stepVars, zpc, op, was, ops>>

(* Mutant of CleanUpQuit: the quit flag is not raised. *)
CleanUpQuitForgotten ==
  /\ pc["main"] = "clQuit"
  /\ Goto("main", "clResume")
  /\ UNCHANGED <<pauseVars, quiescent, quitVars, sig, stepVars, zpc, op, was, ops>>

CleanUpQuit ==
  /\ pc["main"] = "clQuit"
  /\ quit' = TRUE
  /\ Goto("main", "clResume")
  /\ UNCHANGED <<pauseVars, quiescent, quitEvent, sig, stepVars, zpc, op, was, ops>>

CleanUpResume ==
  /\ pc["main"] = "clResume"
  /\ cpc_resume
  /\ Goto("main", "clJoin")
  /\ UNCHANGED <<quiescent, quitVars, sig, stepVars, zpc, op, was, ops>>

(* abort again, join; then the memory is freed.  The IPC thread runs on     *)
(* until _exit.                                                            *)
CleanUpJoin ==
  /\ pc["main"] = "clJoin" /\ zpc = "exited"
  /\ sig' = [sig EXCEPT !.aborted = TRUE]
  /\ Goto("main", "done")
  /\ UNCHANGED <<pauseVars, quiescent, quitVars, stepVars, zpc, op, was, ops>>

CleanUp ==
  CleanUpCheck \/ CleanUpPause \/ CleanUpAbort \/ CleanUpSpin \/ CleanUpQuit
    \/ CleanUpResume \/ CleanUpJoin

MainStep == QuitEvent \/ RenderWait \/ RenderFrame \/ RenderBail \/ CleanUp

Next ==
  \/ Z80Step
  \/ MainStep
  \/ CloseWindow \/ IpcQuit
  \/ \E c \in Clients : PauseOrRun(c) \/ BeginTouching(c) \/ ClientStep(c)

(* Each thread keeps running what it has begun; what the user and the IPC  *)
(* client start is up to them.                                             *)
Fairness ==
  /\ WF_vars(Z80Step)
  /\ WF_vars(MainStep \/ ClientStep("main"))
  /\ WF_vars(ClientStep("ipc"))

Spec == Init /\ [][Next]_vars /\ Fairness

-----------------------------------------------------------------------------
Touching(c) == pc[c] = "touch"
InFrame == zpc = "frame"

(* Once the emulator is paused at most one more frame begins before someone *)
(* resumes it: the one whose pause check came first.                        *)
AtMostOneLateFrame == late <= 1

(* cpc_pause_and_wait's contract: while a client that has waited touches    *)
(* the machine, the Z80 thread is outside the frame.                        *)
WaitedTouchIsExclusive ==
  \A c \in Clients :
    Touching(c) /\ ~(op[c] \in {"restyle", "snapshot"} /\ was[c]) => ~InFrame

(* "step frame N" ends after exactly N completed frames.                    *)
StepRunsExactly ==
  [][stepActive /\ ~stepActive' => stepped = StepFrames]_vars

(* cpc_pause_and_wait returns, unless another client resumes the emulator   *)
(* under it or the process ends.                                            *)
PauseReturns ==
  \A c \in Clients :
    pc[c] = "spin" ~> (pc[c] # "spin" \/ ~emuPaused \/ pc["main"] = "done")

(* A render loop that waits for a frame gets one or gives up.               *)
RenderNeverStuck == pc["main"] = "waitFrame" ~> pc["main"] # "waitFrame"

(* A shutdown that has begun ends with the Z80 thread joined, unless        *)
(* another client resumes the emulator while doCleanUp waits for it.        *)
ShutdownCompletes ==
  pc["main"] = "clCheck" ~>
    (pc["main"] = "done" \/ (pc["main"] = "clSpin" /\ ~emuPaused))

=============================================================================
