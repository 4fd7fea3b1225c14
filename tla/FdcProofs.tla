----------------------------- MODULE FdcProofs -----------------------------
(***************************************************************************)
(* What holds of the floppy controller for every set of drives, commands   *)
(* and media, every track and sector count, every delay and every width of *)
(* the byte counter.                                                       *)
(***************************************************************************)
EXTENDS Fdc, TLAPS

-----------------------------------------------------------------------------
(* Motor and heads.  A seek that is under way has ticks to wait, a period  *)
(* to wait again, and distance to go.                                      *)
SeekSet == [to : 0..MaxTrack, in : Nat, per : Nat]

UnderWay(u) ==
  /\ seek[u].in >= 1
  /\ seek[u].per \in Periods
  /\ track[u] # seek[u].to

HeadInv ==
  /\ motor \in {"off", "spinup", "ready"} /\ spin \in 0..SpinUp
  /\ motor = "spinup" => spin >= 1
  /\ period \in Periods
  /\ track \in [Units -> 0..MaxTrack]
  /\ seek \in [Units -> SeekSet]
  /\ \A u \in Units : Seeking(u) => UnderWay(u)

-----------------------------------------------------------------------------
(* Phases and their result bytes.  Only the four disc commands are ever    *)
(* busy or executing, and each of them ends in seven result bytes.         *)
DiscCommands == {"read", "write", "readId", "format"}

PhaseInv ==
  /\ phase \in {"cmd", "exec", "result", "busy"}
  /\ cmd \in AllOps /\ count \in 0..8
  /\ resLen \in 0..7 /\ resCount \in 0..7
  /\ phase = "cmd" /\ count > 0 =>
       /\ cmd \notin {"senseInt", "invalid"}
       /\ resLen = ResBytes(cmd)
       /\ count < CmdBytes(cmd)
  /\ phase = "result" => resCount < resLen
  /\ phase \in {"busy", "exec"} => cmd \in DiscCommands /\ resLen = 7

-----------------------------------------------------------------------------
(* The command in progress.  moved and remaining split the sector's length,*)
(* or the counter's whole range when the length was given as 0.            *)
ParSet == [unit : {0} \cup Units, r : 1..NSectors + 1, eot : 1..NSectors,
           len : 0..Wrap - 1, sc : 0..1]

Split ==
  \/ moved = 0 /\ remaining = par.len
  \/ moved > 0 /\ remaining > 0
     /\ moved + remaining = (IF par.len = 0 THEN Wrap ELSE par.len)

WorkInv ==
  /\ par \in ParSet
  /\ remaining \in 0..Wrap - 1 /\ moved \in 0..Wrap - 1 /\ fmtPos \in 0..4
  /\ pending \in {"none", "readId", "dataStart", "fail", "formatDone"}
  /\ due \in Nat
  /\ phase = "busy" /\ pending = "dataStart" =>
       cmd # "format" /\ par.r \in 1..NSectors /\ moved = 0 /\ remaining = par.len
  /\ phase = "exec" /\ cmd = "format" => par.sc = 1 /\ fmtPos < 4
  /\ phase = "exec" /\ cmd # "format" => par.r \in 1..NSectors /\ Split

-----------------------------------------------------------------------------
(* The rest of the type invariant: status bits, and what the drives say.   *)
StatusTyped ==
  res0 \subseteq {"AT", "NR"} /\ st \subseteq {"de", "cm", "or"} /\ age \in Int

DrivesTyped ==
  /\ seekDone \in [Units -> {"no", "ok", "notReady"}]
  /\ changed \in [Units -> BOOLEAN]
  /\ disc \in [Units -> AllMedia]

-----------------------------------------------------------------------------
(* The handler dispatch calls for the command whose last byte arrived. *)
Handled(p) ==
  \/ cmd = "specify" /\ cmd_specify
  \/ cmd = "driveStatus" /\ cmd_drive_status(p)
  \/ cmd \in {"recalibrate", "seek"} /\ \E t \in 0..MaxTrack + 1 : cmd_seek_to(p, t)
  \/ cmd = "readId" /\ cmd_read_id(p)
  \/ cmd \in Transfers /\ cmd_transfer(p, cmd = "write")
  \/ cmd = "readDeleted" /\ cmd_read_deleted_stub(p)
  \/ cmd = "format" /\ cmd_format_track(p)

\* The last parameter byte runs the handler of the opcode it completes.
LEMMA DispatchRuns ==
  ASSUME PhaseInv, WriteLastParam
  PROVE  /\ phase = "cmd" /\ count > 0 /\ dispatch(cmd)
         /\ cmd \in AllOps \ {"senseInt", "invalid"}
         /\ \E p \in Params(cmd) : Handled(p)
<1>1. phase = "cmd" /\ count > 0 /\ dispatch(cmd)
  BY DEF WriteLastParam
<1>2. cmd \in AllOps \ {"senseInt", "invalid"}
  BY <1>1 DEF PhaseInv
<1>3. PICK p \in Params(cmd) :
       CASE cmd = "specify" -> cmd_specify
         [] cmd = "driveStatus" -> cmd_drive_status(p)
         [] cmd = "recalibrate" -> cmd_seek_to(p, 0)
         [] cmd = "seek" -> \E t \in 0..MaxTrack + 1 : cmd_seek_to(p, t)
         [] cmd = "readId" -> cmd_read_id(p)
         [] cmd \in Transfers -> cmd_transfer(p, cmd = "write")
         [] cmd = "readDeleted" -> cmd_read_deleted_stub(p)
         [] cmd = "format" -> cmd_format_track(p)
  BY <1>1 DEF dispatch
<1>4. 0 \in 0..MaxTrack + 1
  BY FdcAssumption
<1>5. Handled(p)
  BY <1>2, <1>3, <1>4 DEF Handled, AllOps, Transfers
<1> QED BY <1>1, <1>2, <1>5

\* The controller at rest has a seek record of the right type.
LEMMA NoSeekIsIdle == NoSeek \in SeekSet
  BY FdcAssumption DEF NoSeek, SeekSet

\* Every rotation period is a positive number of ticks.
LEMMA PeriodsPositive == \A d \in Periods : d \in Nat /\ d >= 1
  <1>1. Periods \subseteq Nat \ {0}
    BY FdcAssumption
  <1> QED BY <1>1

\* The slowest period is one of the periods.
LEMMA SlowestIsPeriod == SlowestPeriod \in Periods
  BY FdcAssumption DEF SlowestPeriod

(* A head that is one step from its target arrives, any other one gets     *)
(* closer and stays on the drive.                                          *)
LEMMA StepApproaches ==
  ASSUME HeadInv, NEW u \in Units
  PROVE  /\ Stepped(u) \in 0..MaxTrack
         /\ StepDue(u) /\ ~Arrived(u) => Stepped(u) # seek[u].to
         /\ ~StepDue(u) => Stepped(u) = track[u]
  BY FdcAssumption DEF HeadInv, UnderWay, SeekSet, Stepped, StepDue, Arrived

\* A tick of the mechanics keeps the head on the disc.
LEMMA MechanicsKeepsHead ==
  ASSUME HeadInv, Mechanics, UNCHANGED period PROVE HeadInv'
<1>1. motor' \in {"off", "spinup", "ready"} /\ spin' \in 0..SpinUp
      /\ (motor' = "spinup" => spin' >= 1)
  BY FdcAssumption DEF HeadInv, Mechanics, SpunUp
<1>2. track' = [u \in Units |-> Stepped(u)]
  BY DEF Mechanics
<1>3. track' \in [Units -> 0..MaxTrack]
  BY <1>2, StepApproaches
<1>4. seek' = [u \in Units |->
         CASE ~Seeking(u) \/ Arrived(u) -> NoSeek
           [] StepDue(u) /\ ~Arrived(u) -> [seek[u] EXCEPT !.in = @ - 1 + seek[u].per]
           [] OTHER -> [seek[u] EXCEPT !.in = @ - 1]]
  BY DEF Mechanics
<1>5. ASSUME NEW u \in Units
      PROVE  seek'[u] \in SeekSet /\ (Seeking(u)' => UnderWay(u)')
  <2>1. seek[u] \in SeekSet /\ track[u] \in 0..MaxTrack
    BY DEF HeadInv
  <2>2. track'[u] = Stepped(u)
    BY <1>2
  <2>3. CASE ~Seeking(u) \/ Arrived(u)
    <3>1. seek'[u] = NoSeek
      BY <1>4, <2>3 DEF StepDue
    <3>2. ~Seeking(u)'
      BY <3>1 DEF Seeking, NoSeek
    <3> QED BY <3>1, <3>2, NoSeekIsIdle
  <2>4. CASE StepDue(u) /\ ~Arrived(u)
    <3>1. seek'[u] = [seek[u] EXCEPT !.in = @ - 1 + seek[u].per]
      BY <1>4, <2>4 DEF StepDue
    <3>2. UnderWay(u) /\ seek[u].in = 1
      BY <2>4 DEF StepDue, HeadInv
    <3>3. seek[u].per \in Periods /\ seek[u].per \in Nat /\ seek[u].per >= 1
      BY <3>2, PeriodsPositive DEF UnderWay
    <3>4. seek'[u] \in SeekSet /\ seek'[u].in = seek[u].per
          /\ seek'[u].per = seek[u].per /\ seek'[u].to = seek[u].to
      BY <2>1, <3>1, <3>2, <3>3 DEF SeekSet
    <3>5. track'[u] # seek'[u].to
      BY <2>2, <2>4, <3>4, StepApproaches
    <3> QED BY <3>3, <3>4, <3>5 DEF UnderWay
  <2>5. CASE Seeking(u) /\ ~StepDue(u)
    <3>1. seek'[u] = [seek[u] EXCEPT !.in = @ - 1]
      BY <1>4, <2>5 DEF Arrived
    <3>2. UnderWay(u) /\ seek[u].in # 1
      BY <2>5 DEF StepDue, HeadInv
    <3>3. seek'[u] \in SeekSet /\ seek'[u].in >= 1
          /\ seek'[u].per = seek[u].per /\ seek'[u].to = seek[u].to
      BY <2>1, <3>1, <3>2 DEF SeekSet, UnderWay
    <3>4. track'[u] = track[u]
      BY <2>2, <2>5, StepApproaches
    <3> QED BY <3>2, <3>3, <3>4 DEF UnderWay
  <2> QED BY <2>3, <2>4, <2>5
<1>6. seek' \in [Units -> SeekSet]
  BY <1>4, <1>5
<1> QED BY <1>1, <1>3, <1>5, <1>6 DEF HeadInv

\* Starting a seek keeps the head invariant, the track past the last included.
LEMMA SeekKeepsHead ==
  ASSUME HeadInv, NEW p, p.unit \in Units, NEW target \in 0..MaxTrack + 1,
         cmd_seek_to(p, target), UNCHANGED <<motor, spin, track>>
  PROVE  HeadInv'
<1> DEFINE u == p.unit
           tgt == IF target > MaxTrack THEN MaxTrack ELSE target
           go == Ready(u) /\ tgt # track[u]
<1>1. period' = period
  BY DEF cmd_seek_to
<1>2. CASE ~go
  <2>1. seek' = seek
    BY <1>2 DEF cmd_seek_to
  <2> QED BY <1>1, <2>1 DEF HeadInv, Seeking, UnderWay
<1>3. CASE go
  <2>1. seek' = [seek EXCEPT ![u] = [to |-> tgt, in |-> period, per |-> period]]
    BY <1>3 DEF cmd_seek_to
  <2>2. tgt \in 0..MaxTrack /\ period \in Periods /\ period \in Nat /\ period >= 1
    BY FdcAssumption, PeriodsPositive DEF HeadInv
  <2>3. seek' \in [Units -> SeekSet]
    BY <2>1, <2>2 DEF HeadInv, SeekSet
  <2>4. ASSUME NEW v \in Units, Seeking(v)' PROVE UnderWay(v)'
    <3>1. CASE v = u
      <4>1. seek'[v] = [to |-> tgt, in |-> period, per |-> period]
        BY <2>1, <3>1 DEF HeadInv
      <4> QED BY <1>3, <2>2, <3>1, <4>1 DEF UnderWay
    <3>2. CASE v # u
      <4>1. seek'[v] = seek[v]
        BY <2>1, <3>2 DEF HeadInv
      <4> QED BY <2>4, <4>1 DEF HeadInv, Seeking, UnderWay
    <3> QED BY <3>1, <3>2
  <2> QED BY <1>1, <2>3, <2>4 DEF HeadInv
<1> QED BY <1>2, <1>3

\* A reset establishes the head invariant whatever was going on.
LEMMA ResetGivesHead ==
  ASSUME fdc_dev_reset, track' \in [Units -> 0..MaxTrack] PROVE HeadInv'
<1>1. seek' = [u \in Units |-> NoSeek] /\ period' = SlowestPeriod
      /\ motor' = "off" /\ spin' = 0
  BY DEF fdc_dev_reset
<1>2. seek' \in [Units -> SeekSet] /\ \A u \in Units : ~Seeking(u)'
  BY <1>1, FdcAssumption DEF SeekSet, NoSeek, Seeking
<1> QED BY <1>1, <1>2, SlowestIsPeriod, FdcAssumption DEF HeadInv

\* A step that leaves motor, track and seek alone keeps the head invariant.
LEMMA OthersKeepHead ==
  ASSUME HeadInv, UNCHANGED <<motor, spin, track, seek, period>> PROVE HeadInv'
  BY DEF HeadInv, Seeking, UnderWay

\* No command's handler moves the head off the disc.
LEMMA DispatchKeepsHead ==
  ASSUME HeadInv, PhaseInv, WriteLastParam PROVE HeadInv'
<1>1. PICK p \in Params(cmd) : Handled(p)
  BY DispatchRuns
<1>2. UNCHANGED <<motor, spin, track>>
  BY DispatchRuns DEF dispatch, plant
<1>3. p.unit \in Units
  BY DEF Params
<1>4. CASE \E t \in 0..MaxTrack + 1 : cmd_seek_to(p, t)
  BY <1>2, <1>3, <1>4, SeekKeepsHead
<1>5. CASE cmd_specify
  <2>1. period' \in Periods /\ seek' = seek
    BY <1>5 DEF cmd_specify
  <2> QED BY <1>2, <2>1 DEF HeadInv, Seeking, UnderWay
<1>6. CASE \/ cmd_drive_status(p) \/ cmd_read_id(p) \/ cmd_transfer(p, cmd = "write")
           \/ cmd_read_deleted_stub(p) \/ cmd_format_track(p)
  <2>1. UNCHANGED <<seek, period>>
    BY <1>6 DEF cmd_drive_status, cmd_read_id, cmd_transfer, cmd_read_deleted_stub,
       cmd_format_track
  <2> QED BY <1>2, <2>1, OthersKeepHead
<1> QED BY <1>1, <1>4, <1>5, <1>6 DEF Handled

\* Every step keeps the head invariant.
LEMMA NextKeepsHead ==
  ASSUME HeadInv, PhaseInv, [Next]_vars PROVE HeadInv'
<1>1. CASE Tick
  BY <1>1, MechanicsKeepsHead DEF Tick
<1>2. CASE WriteLastParam
  BY <1>2, DispatchKeepsHead
<1>3. CASE WriteParam \/ ReadByte \/ WriteByte \/ WriteFormatByte \/ ReadResult
           \/ \E o \in Ops : WriteOpcode(o)
  BY <1>3, OthersKeepHead DEF WriteParam, ReadByte, WriteByte, SectorByte,
     WriteFormatByte, ReadResult, WriteOpcode, plant
<1>4. CASE MotorOn \/ MotorOff
  BY <1>4, FdcAssumption DEF MotorOn, MotorOff, command, headVars, HeadInv, Seeking,
     UnderWay
<1>5. CASE \E u \in Units, kind \in Media : ChangeDisc(u, kind)
  BY <1>5, OthersKeepHead DEF ChangeDisc, command, headVars
<1>6. CASE Reset
  BY <1>6, ResetGivesHead DEF Reset, HeadInv
<1>7. CASE SnapshotLoad
  BY <1>7, ResetGivesHead DEF SnapshotLoad
<1>8. CASE UNCHANGED vars
  BY <1>8, OthersKeepHead DEF vars, headVars
<1> QED BY <1>1, <1>2, <1>3, <1>4, <1>5, <1>6, <1>7, <1>8 DEF Next, Cpu, Host

-----------------------------------------------------------------------------
\* Entering the result phase keeps the phase invariant.
LEMMA ResultBegins ==
  ASSUME PhaseInv, cmd' \in AllOps, count' \in 0..8, resLen' \in 1..7,
         NEW bits, EnterResult(bits)
  PROVE  PhaseInv'
  BY DEF PhaseInv, EnterResult

\* So does moving between the busy and the execution phase.
LEMMA WorkGoesOn ==
  ASSUME PhaseInv, UNCHANGED <<cmd, count, resLen, resCount>>,
         phase \in {"busy", "exec"}, phase' \in {"busy", "exec"}
  PROVE  PhaseInv'
  BY DEF PhaseInv

(* Every command the last parameter byte starts has bytes to answer with,  *)
(* or answers with none and goes back to the command phase at once.        *)
LEMMA DispatchKeepsPhase ==
  ASSUME PhaseInv, WriteLastParam PROVE PhaseInv'
<1>1. /\ phase = "cmd" /\ count > 0 /\ dispatch(cmd)
      /\ cmd' = cmd /\ count' = 0 /\ resLen' = resLen
  BY DEF WriteLastParam, dispatch
<1>2. /\ cmd \in AllOps /\ cmd \notin {"senseInt", "invalid"}
      /\ resLen = ResBytes(cmd) /\ resCount \in 0..7
  BY <1>1 DEF PhaseInv
<1>3. PICK p \in Params(cmd) : Handled(p)
  BY DispatchRuns
<1>4. CASE cmd \in {"specify", "seek", "recalibrate"}
  <2>1. cmd_specify \/ \E t : cmd_seek_to(p, t)
    BY <1>3, <1>4 DEF Handled, Transfers
  <2>2. phase' = phase /\ resCount' = resCount
    BY <2>1 DEF cmd_specify, cmd_seek_to
  <2> QED BY <1>1, <1>2, <2>2 DEF PhaseInv
<1>5. CASE cmd = "driveStatus"
  <2>1. \E bits : EnterResult(bits)
    BY <1>3, <1>5 DEF Handled, Transfers, cmd_drive_status
  <2>2. resLen = 1
    BY <1>2, <1>5 DEF ResBytes
  <2> QED BY <1>1, <1>2, <2>1, <2>2, ResultBegins
<1>6. CASE cmd = "readDeleted"
  <2>1. \E bits : EnterResult(bits)
    BY <1>3, <1>6 DEF Handled, Transfers, cmd_read_deleted_stub
  <2>2. resLen = 7
    BY <1>2, <1>6 DEF ResBytes
  <2> QED BY <1>1, <1>2, <2>1, <2>2, ResultBegins
<1>7. CASE cmd \in DiscCommands
  <2>1. cmd_read_id(p) \/ cmd_transfer(p, cmd = "write") \/ cmd_format_track(p)
    BY <1>3, <1>7 DEF Handled, Transfers, DiscCommands
  <2>2. (\E bits : EnterResult(bits)) \/ (phase' \in {"busy", "exec"} /\ resCount' = resCount)
    BY <2>1 DEF cmd_read_id, cmd_transfer, cmd_format_track, StartSector, Wait
  <2>3. resLen = 7
    BY <1>2, <1>7 DEF ResBytes, DiscCommands
  <2>4. CASE \E bits : EnterResult(bits)
    BY <1>1, <1>2, <2>3, <2>4, ResultBegins
  <2>5. CASE phase' \in {"busy", "exec"} /\ resCount' = resCount
    BY <1>1, <1>2, <1>7, <2>3, <2>5 DEF PhaseInv
  <2> QED BY <2>2, <2>4, <2>5
<1> QED BY <1>2, <1>4, <1>5, <1>6, <1>7 DEF AllOps, DiscCommands

\* Every step keeps the phase invariant.
LEMMA NextKeepsPhase ==
  ASSUME PhaseInv, [Next]_vars PROVE PhaseInv'
<1>1. CASE Tick
  <2>1. UNCHANGED <<cmd, count, resLen>>
    BY <1>1 DEF Tick, cmdVars
  <2>2. CASE KeepWaiting \/ NextCell \/ NoTimer
    <3>1. UNCHANGED <<phase, resCount>>
      BY <2>2 DEF KeepWaiting, NextCell, NoTimer
    <3> QED BY <2>1, <3>1 DEF PhaseInv
  <2>3. CASE CompletePending \/ Overrun
    <3>1. phase \in {"busy", "exec"}
      BY <2>3 DEF CompletePending, Overrun
    <3>2. (\E bits : EnterResult(bits)) \/ (phase' = "exec" /\ resCount' = resCount)
      BY <2>3 DEF CompletePending, Overrun
    <3>3. resLen = 7 /\ cmd \in AllOps /\ count \in 0..8
      BY <3>1 DEF PhaseInv
    <3> QED BY <2>1, <3>1, <3>2, <3>3, ResultBegins, WorkGoesOn
  <2> QED BY <1>1, <2>2, <2>3 DEF Tick
<1>2. ASSUME NEW o \in Ops, WriteOpcode(o) PROVE PhaseInv'
  <2>1. phase = "cmd" /\ count = 0 /\ o \in AllOps
    BY <1>2, FdcAssumption DEF WriteOpcode
  <2>2. CASE o = "invalid"
    <3>1. EnterResult({}) /\ resLen' = 1 /\ UNCHANGED <<cmd, count>>
      BY <1>2, <2>2 DEF WriteOpcode, cmdVars
    <3> QED BY <3>1, ResultBegins DEF PhaseInv
  <2>3. CASE o = "senseInt"
    <3>1. cmd' = o /\ count' = count /\ cmd_sense_interrupt
      BY <1>2, <2>3 DEF WriteOpcode
    <3>2. (\E bits : EnterResult(bits)) /\ resLen' \in {1, 2}
      BY <3>1 DEF cmd_sense_interrupt
    <3> QED BY <2>1, <3>1, <3>2, ResultBegins
  <2>4. CASE o \notin {"invalid", "senseInt"}
    <3>1. /\ cmd' = o /\ count' = 1 /\ resLen' = ResBytes(o)
          /\ UNCHANGED <<phase, resCount>>
      BY <1>2, <2>4 DEF WriteOpcode
    <3>2. ResBytes(o) \in 0..7 /\ CmdBytes(o) > 1
      BY <2>1, <2>4 DEF ResBytes, CmdBytes, AllOps
    <3> QED BY <2>1, <2>4, <3>1, <3>2 DEF PhaseInv
  <2> QED BY <2>2, <2>3, <2>4
<1>3. CASE WriteParam
  <2>1. CmdBytes(cmd) \in 1..9
    BY DEF CmdBytes
  <2>2. /\ phase = "cmd" /\ count > 0 /\ count + 1 < CmdBytes(cmd)
        /\ count' = count + 1 /\ UNCHANGED <<phase, cmd, resLen, resCount>>
    BY <1>3 DEF WriteParam, resVars
  <2>3. CmdBytes(cmd)' = CmdBytes(cmd) /\ ResBytes(cmd)' = ResBytes(cmd)
    BY <2>2 DEF CmdBytes, ResBytes
  <2> QED BY <2>1, <2>2, <2>3 DEF PhaseInv
<1>4. CASE WriteLastParam
  BY <1>4, DispatchKeepsPhase
<1>5. CASE ReadByte \/ WriteByte
  <2>1. phase = "exec" /\ UNCHANGED <<cmd, count, resLen>>
    BY <1>5 DEF ReadByte, WriteByte, SectorByte, cmdVars
  <2>2. (\E bits : EnterResult(bits)) \/ (phase' \in {"exec", "busy"} /\ resCount' = resCount)
    BY <1>5, <2>1 DEF ReadByte, WriteByte, SectorByte, StartSector, Wait
  <2>3. resLen = 7 /\ cmd \in AllOps /\ count \in 0..8
    BY <2>1 DEF PhaseInv
  <2> QED BY <2>1, <2>2, <2>3, ResultBegins, WorkGoesOn
<1>6. CASE WriteFormatByte
  <2>1. phase = "exec" /\ phase' \in {"exec", "busy"}
        /\ UNCHANGED <<cmd, count, resLen, resCount>>
    BY <1>6 DEF WriteFormatByte, cmdVars, resVars, Wait
  <2> QED BY <2>1, WorkGoesOn
<1>7. CASE ReadResult
  BY <1>7 DEF ReadResult, PhaseInv
<1>8. CASE MotorOn \/ MotorOff \/ \E u \in Units, kind \in Media : ChangeDisc(u, kind)
  <2>1. UNCHANGED <<phase, cmd, count, resLen, resCount>>
    BY <1>8 DEF MotorOn, MotorOff, ChangeDisc, command, cmdVars, resVars
  <2> QED BY <2>1 DEF PhaseInv
<1>9. CASE Reset \/ SnapshotLoad
  BY <1>9 DEF Reset, SnapshotLoad, fdc_dev_reset, PhaseInv, AllOps
<1>10. CASE UNCHANGED vars
  BY <1>10 DEF vars, cmdVars, resVars, PhaseInv
<1> QED BY <1>1, <1>2, <1>3, <1>4, <1>5, <1>6, <1>7, <1>8, <1>9, <1>10 DEF Next, Cpu, Host

\* Both invariants hold in every reachable state.
LEMMA HeadAndPhase == Spec => [](HeadInv /\ PhaseInv)
<1>1. Init => PhaseInv
  BY DEF Init, PhaseInv, AllOps
<1>2. ASSUME Init PROVE HeadInv
  <2>1. seek = [u \in Units |-> NoSeek] /\ \A u \in Units : ~Seeking(u)
    BY <1>2 DEF Init, Seeking
  <2>2. seek \in [Units -> SeekSet]
    BY <2>1, NoSeekIsIdle
  <2>3. track \in [Units -> 0..MaxTrack] /\ motor = "off" /\ spin = 0
    BY <1>2, FdcAssumption DEF Init
  <2>4. period \in Periods
    BY <1>2, SlowestIsPeriod DEF Init
  <2>5. SpinUp \in Nat
    BY FdcAssumption
  <2> QED BY <2>1, <2>2, <2>3, <2>4, <2>5 DEF HeadInv
<1> QED BY <1>1, <1>2, NextKeepsHead, NextKeepsPhase, PTL DEF Spec

(* A seek that is under way always has somewhere to go, whatever sequence  *)
(* of commands, resets, snapshots and motor switches led to it: fdc_tick   *)
(* never carries a head past its target.                                   *)
THEOREM SeeksNeverOvershoot == Spec => []SeekHasDistance
<1>1. HeadInv => SeekHasDistance
  BY DEF HeadInv, UnderWay, SeekHasDistance
<1> QED BY <1>1, HeadAndPhase, PTL

(* The result phase always has a byte to serve, for every command the CPU  *)
(* may issue and every way in which one may fail.                          *)
THEOREM ResultsNeverEmpty == Spec => []ResultHasBytes
<1>1. PhaseInv => ResultHasBytes
  BY DEF PhaseInv, ResultHasBytes
<1> QED BY <1>1, HeadAndPhase, PTL

-----------------------------------------------------------------------------
\* The parameters at rest are of the right type.
LEMMA NoParTyped == NoPar \in ParSet
  BY FdcAssumption DEF NoPar, ParSet

\* The parameters of every opcode are of the right type.
LEMMA ParamsTyped ==
  ASSUME NEW o \in AllOps, NEW p \in Params(o) PROVE p \in ParSet
<1>1. Lens \subseteq 0..Wrap - 1 /\ 0 \in 0..Wrap - 1
      /\ 1 \in 1..NSectors /\ 1..NSectors \subseteq 1..NSectors + 1
  BY FdcAssumption
<1>2. /\ p.unit \in Units
      /\ p.r \in IF o \in Transfers THEN 1..NSectors ELSE {1}
      /\ p.eot \in IF o \in Transfers THEN 1..NSectors ELSE {1}
      /\ p.len \in IF o \in Transfers THEN Lens ELSE {0}
      /\ p.sc \in IF o = "format" THEN {0, 1} ELSE {0}
      /\ p = [unit |-> p.unit, r |-> p.r, eot |-> p.eot, len |-> p.len, sc |-> p.sc]
  BY DEF Params
<1>3. p.r \in 1..NSectors + 1 /\ p.eot \in 1..NSectors /\ p.len \in 0..Wrap - 1
      /\ p.sc \in 0..1
  <2>1. CASE o \in Transfers
    <3>1. p.r \in 1..NSectors /\ p.eot \in 1..NSectors /\ p.len \in Lens
      BY <1>2, <2>1
    <3>2. p.sc \in {0, 1}
      BY <1>2
    <3>3. p.sc \in 0..1
      BY <3>2
    <3> QED BY <1>1, <3>1, <3>3
  <2>2. CASE o \notin Transfers
    <3>1. p.r = 1 /\ p.eot = 1 /\ p.len = 0
      BY <1>2, <2>2
    <3>2. p.sc \in {0, 1}
      BY <1>2
    <3>3. p.sc \in 0..1
      BY <3>2
    <3> QED BY <1>1, <3>1, <3>3
  <2> QED BY <2>1, <2>2
<1> QED BY <1>2, <1>3 DEF ParSet

(* A command that is over leaves no work behind. *)
LEMMA ResultEndsWork ==
  ASSUME NEW bits, EnterResult(bits) PROVE WorkInv'
<1>1. /\ phase' = "result" /\ par' = NoPar /\ remaining' = 0 /\ moved' = 0
      /\ fmtPos' = 0 /\ pending' = "none" /\ due' = 0
  BY DEF EnterResult
<1>2. 0 \in 0..Wrap - 1
  BY FdcAssumption
<1> QED BY <1>1, <1>2, NoParTyped DEF WorkInv, NoPar

(* Between commands the working registers may hold anything. *)
LEMMA IdleKeepsWork ==
  ASSUME WorkInv, UNCHANGED workVars, phase' \in {"cmd", "result"} PROVE WorkInv'
  BY DEF WorkInv, workVars

\* A step that leaves the transfer alone keeps the work invariant.
LEMMA OthersKeepWork ==
  ASSUME WorkInv, UNCHANGED <<workVars, phase, cmd>> PROVE WorkInv'
  BY DEF WorkInv, workVars, Split

(* A sector that is found starts with its whole length remaining. *)
LEMMA StartsWhole ==
  ASSUME WorkInv, NEW p \in ParSet, NEW bits, NEW old,
         StartSector(p, bits, old), cmd' = cmd, cmd # "format"
  PROVE  WorkInv'
<1>1. /\ moved' = 0 /\ par' = p /\ fmtPos' = fmtPos /\ phase' = "busy"
      /\ \/ /\ p.r \in 1..NSectors /\ remaining' = p.len /\ pending' = "dataStart"
            /\ due' \in Latencies
         \/ remaining' = 0 /\ pending' = "fail" /\ due' = Search
  BY DEF StartSector, Wait
<1>2. p.len \in 0..Wrap - 1 /\ 0 \in 0..Wrap - 1
  BY FdcAssumption DEF ParSet
<1>3. due' \in Nat
  BY <1>1, FdcAssumption
<1>4. remaining' \in 0..Wrap - 1
  BY <1>1, <1>2
<1> QED BY <1>1, <1>2, <1>3, <1>4 DEF WorkInv

\* A counter that wraps at zero goes down by one or to the top.
LEMMA CounterBelow ==
  ASSUME NEW n \in 0..Wrap - 1
  PROVE  (n - 1) % Wrap = IF n = 0 THEN Wrap - 1 ELSE n - 1
  BY FdcAssumption

\* A byte of a sector transfer keeps the work invariant.
LEMMA SectorByteKeepsWork ==
  ASSUME WorkInv, phase = "exec", cmd # "format", SectorByte PROVE WorkInv'
<1> DEFINE left == (remaining - 1) % Wrap
           next == [par EXCEPT !.r = @ + 1]
<1>1. /\ par \in ParSet /\ par.r \in 1..NSectors /\ Split
      /\ remaining \in 0..Wrap - 1 /\ moved \in 0..Wrap - 1
  BY DEF WorkInv
<1>2. cmd' = cmd
  BY DEF SectorByte, cmdVars
<1>3. CASE /\ left # 0 /\ remaining' = left /\ moved' = moved + 1
           /\ UNCHANGED <<phase, par, fmtPos, pending, due>>
  <2>1. par.len \in 0..Wrap - 1
    BY <1>1 DEF ParSet
  <2>2. left = IF remaining = 0 THEN Wrap - 1 ELSE remaining - 1
    BY <1>1, CounterBelow
  <2>3. /\ moved' > 0 /\ remaining' > 0
        /\ moved' + remaining' = (IF par.len = 0 THEN Wrap ELSE par.len)
    BY <1>1, <1>3, <2>1, <2>2, FdcAssumption DEF Split
  <2>4. remaining' \in 0..Wrap - 1 /\ moved' \in 0..Wrap - 1
    BY <1>1, <1>3, <2>1, <2>2, <2>3, FdcAssumption
  <2>5. Split'
    BY <1>3, <2>3 DEF Split
  <2> QED BY <1>2, <1>3, <2>4, <2>5 DEF WorkInv
<1>4. CASE \E bits : EnterResult(bits)
  BY <1>4, ResultEndsWork
<1>5. CASE \E bits, old : StartSector(next, bits, old)
  <2>1. next \in ParSet
    BY <1>1, FdcAssumption DEF ParSet
  <2> QED BY <1>2, <1>5, <2>1, StartsWhole
<1> QED BY <1>3, <1>4, <1>5 DEF SectorByte

\* So does the handler of every command.
LEMMA DispatchKeepsWork ==
  ASSUME WorkInv, PhaseInv, WriteLastParam PROVE WorkInv'
<1>1. /\ phase = "cmd" /\ count > 0 /\ dispatch(cmd) /\ cmd' = cmd
  BY DEF WriteLastParam, dispatch
<1>2. cmd \in AllOps /\ cmd \notin {"senseInt", "invalid"}
  BY <1>1 DEF PhaseInv
<1>3. PICK p \in Params(cmd) : Handled(p)
  BY DispatchRuns
<1>4. p \in ParSet
  BY <1>2, ParamsTyped
<1>5. CASE cmd \in {"specify", "seek", "recalibrate"}
  <2>1. cmd_specify \/ \E t : cmd_seek_to(p, t)
    BY <1>3, <1>5 DEF Handled, Transfers
  <2>2. UNCHANGED workVars /\ phase' = "cmd"
    BY <1>1, <2>1 DEF cmd_specify, cmd_seek_to
  <2> QED BY <2>2, IdleKeepsWork
<1>6. CASE cmd \in {"driveStatus", "readDeleted"}
  <2>1. \E bits : EnterResult(bits)
    BY <1>3, <1>6 DEF Handled, Transfers, cmd_drive_status, cmd_read_deleted_stub
  <2> QED BY <2>1, ResultEndsWork
<1>7. CASE cmd = "readId"
  <2>1. \/ \E bits : EnterResult(bits)
        \/ /\ phase' = "busy" /\ par' = p /\ UNCHANGED <<remaining, moved, fmtPos>>
           /\ pending' \in {"readId", "fail"} /\ due' \in Latencies \cup {Search}
    BY <1>3, <1>7 DEF Handled, Transfers, cmd_read_id, Wait
  <2>2. due' \in Latencies \cup {Search} => due' \in Nat
    BY FdcAssumption
  <2> QED BY <1>4, <2>1, <2>2, ResultEndsWork DEF WorkInv
<1>8. CASE cmd \in Transfers
  <2>1. cmd_transfer(p, cmd = "write")
    BY <1>3, <1>8 DEF Handled, Transfers
  <2>2. (\E bits : EnterResult(bits)) \/ StartSector(p, {}, {})
    BY <2>1 DEF cmd_transfer
  <2>3. cmd # "format"
    BY <1>8 DEF Handled, Transfers
  <2> QED BY <1>1, <1>4, <2>2, <2>3, ResultEndsWork, StartsWhole
<1>9. CASE cmd = "format"
  <2>1. \/ \E bits : EnterResult(bits)
        \/ /\ phase' = "exec" /\ par' = p /\ p.sc # 0 /\ fmtPos' = 0
           /\ UNCHANGED <<remaining, moved, pending, due>>
    BY <1>3, <1>9 DEF Handled, Transfers, cmd_format_track
  <2>2. p.sc # 0 => p.sc = 1
    BY <1>4 DEF ParSet
  <2> QED BY <1>1, <1>4, <1>9, <2>1, <2>2, ResultEndsWork DEF WorkInv
<1> QED BY <1>2, <1>5, <1>6, <1>7, <1>8, <1>9 DEF AllOps, Transfers

\* So does every step.
LEMMA NextKeepsWork ==
  ASSUME WorkInv, PhaseInv, [Next]_vars PROVE WorkInv'
<1>1. CASE Tick
  <2>1. cmd' = cmd
    BY <1>1 DEF Tick, cmdVars
  <2>2. CASE KeepWaiting
    BY <2>1, <2>2 DEF KeepWaiting, WorkInv, Split
  <2>3. CASE NextCell
    BY <2>1, <2>3 DEF NextCell, WorkInv, Split
  <2>4. CASE NoTimer
    BY <2>1, <2>4, OthersKeepWork DEF NoTimer
  <2>5. CASE Overrun
    BY <2>5, ResultEndsWork DEF Overrun
  <2>6. CASE CompletePending
    <3>1. \/ \E bits : EnterResult(bits)
          \/ /\ phase = "busy" /\ pending = "dataStart"
             /\ phase' = "exec" /\ pending' = "none" /\ due' = 0
             /\ UNCHANGED <<par, remaining, moved, fmtPos>>
      BY <2>6 DEF CompletePending
    <3> QED BY <2>1, <3>1, ResultEndsWork DEF WorkInv, Split
  <2> QED BY <1>1, <2>2, <2>3, <2>4, <2>5, <2>6 DEF Tick
<1>2. ASSUME NEW o \in Ops, WriteOpcode(o) PROVE WorkInv'
  <2>1. phase = "cmd"
    BY <1>2 DEF WriteOpcode
  <2>2. (\E bits : EnterResult(bits)) \/ UNCHANGED <<phase, workVars>>
    BY <1>2 DEF WriteOpcode, cmd_sense_interrupt
  <2> QED BY <2>1, <2>2, ResultEndsWork, IdleKeepsWork
<1>3. CASE WriteParam
  BY <1>3, OthersKeepWork DEF WriteParam
<1>4. CASE WriteLastParam
  BY <1>4, DispatchKeepsWork
<1>5. CASE ReadByte \/ WriteByte
  BY <1>5, SectorByteKeepsWork DEF ReadByte, WriteByte, ToCpu
<1>6. CASE WriteFormatByte
  <2>1. phase = "exec" /\ cmd = "format" /\ par.sc = 1 /\ fmtPos \in 0..3
    BY <1>6 DEF WriteFormatByte, WorkInv
  <2>2. fmtPos' = fmtPos + 1 /\ UNCHANGED <<cmd, par, remaining, moved>>
    BY <1>6 DEF WriteFormatByte, cmdVars
  <2>3. CASE fmtPos' = 4
    <3>1. phase' = "busy" /\ pending' = "formatDone" /\ due' \in Latencies
      BY <1>6, <2>1, <2>3 DEF WriteFormatByte, Wait
    <3>2. due' \in Nat
      BY <3>1, FdcAssumption
    <3> QED BY <2>2, <2>3, <3>1, <3>2 DEF WorkInv
  <2>4. CASE fmtPos' # 4
    <3>1. UNCHANGED <<phase, pending, due>>
      BY <1>6, <2>1, <2>4 DEF WriteFormatByte
    <3> QED BY <2>1, <2>2, <2>4, <3>1 DEF WorkInv
  <2> QED BY <2>3, <2>4
<1>7. CASE ReadResult
  <2>1. phase' \in {"cmd", "result"} /\ UNCHANGED workVars
    BY <1>7 DEF ReadResult
  <2> QED BY <2>1, IdleKeepsWork
<1>8. CASE MotorOn \/ MotorOff \/ \E u \in Units, kind \in Media : ChangeDisc(u, kind)
  <2>1. UNCHANGED <<workVars, phase, cmd>>
    BY <1>8 DEF MotorOn, MotorOff, ChangeDisc, command, cmdVars
  <2> QED BY <2>1, OthersKeepWork
<1>9. CASE Reset \/ SnapshotLoad
  <2>1. /\ phase' = "cmd" /\ par' = NoPar /\ remaining' = 0 /\ moved' = 0
        /\ fmtPos' = 0 /\ pending' = "none" /\ due' = 0
    BY <1>9 DEF Reset, SnapshotLoad, fdc_dev_reset
  <2>2. 0 \in 0..Wrap - 1
    BY FdcAssumption
  <2> QED BY <2>1, <2>2, NoParTyped DEF WorkInv, NoPar
<1>10. CASE UNCHANGED vars
  BY <1>10, OthersKeepWork DEF vars, cmdVars
<1> QED BY <1>1, <1>2, <1>3, <1>4, <1>5, <1>6, <1>7, <1>8, <1>9, <1>10 DEF Next, Cpu, Host

\* The work invariant holds in every reachable state.
LEMMA WorkAlways == Spec => []WorkInv
<1>1. ASSUME Init PROVE WorkInv
  <2>1. /\ phase = "cmd" /\ par = NoPar /\ remaining = 0 /\ moved = 0
        /\ fmtPos = 0 /\ pending = "none" /\ due = 0
    BY <1>1 DEF Init
  <2>2. 0 \in 0..Wrap - 1
    BY FdcAssumption
  <2> QED BY <2>1, <2>2, NoParTyped DEF WorkInv, NoPar
<1> QED BY <1>1, NextKeepsWork, HeadAndPhase, PTL DEF Spec

(* No byte of a sector is lost or served twice, whatever its length, the   *)
(* width of the counter and the number of sectors chained.                 *)
THEOREM BytesAccountedFor == Spec => []BytesAddUp
<1>1. ASSUME WorkInv PROVE BytesAddUp
  <2> SUFFICES ASSUME phase = "exec", cmd # "format"
               PROVE  (moved + remaining) % Wrap = par.len
    BY DEF BytesAddUp
  <2>1. Split /\ par.len \in 0..Wrap - 1
    BY <1>1 DEF WorkInv, ParSet
  <2>2. CASE moved + remaining = par.len
    BY <2>1, <2>2, FdcAssumption
  <2>3. CASE par.len = 0 /\ moved + remaining = Wrap
    BY <2>3, FdcAssumption
  <2>4. moved = 0 /\ remaining = par.len => moved + remaining = par.len
    BY <2>1
  <2> QED BY <2>1, <2>2, <2>3, <2>4 DEF Split
<1> QED BY <1>1, WorkAlways, PTL

-----------------------------------------------------------------------------
ResultBits(bits) == bits \subseteq {"AT", "NR"}

\* The status bytes that the handlers build hold result bits only.
LEMMA StatusBits ==
  ASSUME StatusTyped
  PROVE  /\ \A u : ResultBits(InitStatus(u)) /\ ResultBits(InitStatus(u) \cup {"AT"})
         /\ \A flags : ResultBits(FinishStatus(flags))
         /\ ResultBits(res0) /\ ResultBits(res0 \cup {"AT"})
  BY DEF StatusTyped, ResultBits, InitStatus, FinishStatus

\* Entering the result phase keeps the status registers typed.
LEMMA ResultKeepsStatus ==
  ASSUME StatusTyped, NEW bits, ResultBits(bits), EnterResult(bits),
         st' \subseteq {"de", "cm", "or"}
  PROVE  StatusTyped'
  BY DEF StatusTyped, ResultBits, EnterResult

\* So does starting on the next sector.
LEMMA SectorKeepsStatus ==
  ASSUME StatusTyped, NEW p, NEW bits, ResultBits(bits),
         NEW old, old \subseteq {"de", "cm", "or"}, StartSector(p, bits, old)
  PROVE  StatusTyped'
<1>1. age' = 0 /\ (res0' = bits \/ res0' = bits \cup {"AT"}) /\ (st' \in Status \/ st' = old)
  BY DEF StartSector
<1>2. \A f \in Status : f \subseteq {"de", "cm"}
  BY FdcAssumption
<1>3. st' \subseteq {"de", "cm", "or"}
  BY <1>1, <1>2
<1>4. res0' \subseteq {"AT", "NR"}
  BY <1>1 DEF ResultBits
<1> QED BY <1>1, <1>3, <1>4 DEF StatusTyped

\* So does the handler of every command.
LEMMA DispatchKeepsStatus ==
  ASSUME StatusTyped, PhaseInv, WriteLastParam PROVE StatusTyped'
<1>1. phase = "cmd" /\ count > 0 /\ dispatch(cmd)
  BY DEF WriteLastParam
<1>2. cmd \in AllOps /\ cmd \notin {"senseInt", "invalid"}
  BY <1>1 DEF PhaseInv
<1>3. PICK p \in Params(cmd) : Handled(p)
  BY DispatchRuns
<1>4. \/ cmd_specify \/ cmd_drive_status(p) \/ \E t : cmd_seek_to(p, t)
      \/ cmd_read_id(p) \/ cmd_transfer(p, cmd = "write")
      \/ cmd_read_deleted_stub(p) \/ cmd_format_track(p)
  BY <1>2, <1>3 DEF Handled, Transfers, AllOps
<1>5. CASE cmd_specify
  BY <1>5 DEF cmd_specify, workVars, StatusTyped
<1>6. CASE cmd_drive_status(p)
  <2>1. (EnterResult({}) \/ EnterResult({"AT"})) /\ st' = st
    BY <1>6 DEF cmd_drive_status
  <2>2. ResultBits({}) /\ ResultBits({"AT"})
    BY DEF ResultBits
  <2> QED BY <2>1, <2>2, ResultKeepsStatus DEF StatusTyped
<1>7. CASE \E t : cmd_seek_to(p, t)
  <2>1. res0' = InitStatus(p.unit) /\ st' = {} /\ age' = age
    BY <1>7 DEF cmd_seek_to, workVars
  <2> QED BY <2>1, StatusBits DEF StatusTyped, ResultBits
<1>8. CASE cmd_read_id(p)
  <2>1. /\ st' = {}
        /\ \/ res0' \in {{}, {"AT"}} /\ age' = age
           \/ EnterResult({"AT", "NR"})
    BY <1>8 DEF cmd_read_id
  <2>2. ResultBits({"AT", "NR"})
    BY DEF ResultBits
  <2> QED BY <2>1, <2>2, ResultKeepsStatus DEF StatusTyped
<1>9. CASE cmd_transfer(p, cmd = "write") \/ cmd_read_deleted_stub(p)
  <2>1. \/ StartSector(p, {}, {})
        \/ EnterResult(InitStatus(p.unit) \cup {"AT"}) /\ st' = {}
    BY <1>9 DEF cmd_transfer, cmd_read_deleted_stub
  <2>2. ResultBits({})
    BY DEF ResultBits
  <2> QED BY <2>1, <2>2, StatusBits, ResultKeepsStatus, SectorKeepsStatus
<1>10. CASE cmd_format_track(p)
  <2>1. /\ st' = {}
        /\ \/ res0' = {} /\ age' = 0
           \/ EnterResult(InitStatus(p.unit) \cup {"AT"})
    BY <1>10 DEF cmd_format_track
  <2> QED BY <2>1, StatusBits, ResultKeepsStatus DEF StatusTyped
<1> QED BY <1>4, <1>5, <1>6, <1>7, <1>8, <1>9, <1>10

\* So does every step.
LEMMA NextKeepsStatus ==
  ASSUME StatusTyped, PhaseInv, [Next]_vars PROVE StatusTyped'
<1> USE StatusBits
<1>1. CASE Tick
  <2>1. CASE KeepWaiting \/ NoTimer
    BY <2>1 DEF KeepWaiting, NoTimer, workVars, StatusTyped
  <2>2. CASE NextCell
    <3>1. age' = age + 1 /\ UNCHANGED <<res0, st>>
      BY <2>2 DEF NextCell
    <3> QED BY <3>1 DEF StatusTyped
  <2>3. CASE Overrun
    <3>1. st' = st \cup {"or"} /\ EnterResult(FinishStatus(st))
      BY <2>3 DEF Overrun
    <3> QED BY <3>1, ResultKeepsStatus DEF StatusTyped
  <2>4. CASE CompletePending
    <3>1. /\ st' = st
          /\ \/ EnterResult(res0) \/ EnterResult({}) \/ EnterResult(res0 \cup {"AT"})
             \/ age' = 0 /\ res0' = res0
      BY <2>4 DEF CompletePending
    <3>2. ResultBits({}) /\ ResultBits(res0) /\ ResultBits(res0 \cup {"AT"})
      BY DEF ResultBits, StatusTyped
    <3>3. st' \subseteq {"de", "cm", "or"}
      BY <3>1 DEF StatusTyped
    <3>4. CASE age' = 0 /\ res0' = res0
      BY <3>3, <3>4 DEF StatusTyped
    <3> QED BY <3>1, <3>2, <3>3, <3>4, ResultKeepsStatus
  <2> QED BY <1>1, <2>1, <2>2, <2>3, <2>4 DEF Tick
<1>2. ASSUME NEW o \in Ops, WriteOpcode(o) PROVE StatusTyped'
  <2>1. st' = st
    BY <1>2 DEF WriteOpcode
  <2>2. \/ \E bits \in {{}, res0, {"AT"}, {"AT", "NR"}} : EnterResult(bits)
        \/ UNCHANGED <<res0, workVars>>
    BY <1>2 DEF WriteOpcode, cmd_sense_interrupt
  <2>3. \A bits \in {{}, res0, {"AT"}, {"AT", "NR"}} : ResultBits(bits)
    BY DEF ResultBits, StatusTyped
  <2>4. CASE UNCHANGED <<res0, workVars>>
    BY <2>1, <2>4 DEF StatusTyped, workVars
  <2> QED BY <2>1, <2>2, <2>3, <2>4, ResultKeepsStatus DEF StatusTyped
<1>3. CASE WriteParam \/ ReadResult
  BY <1>3 DEF WriteParam, ReadResult, resVars, workVars, StatusTyped
<1>4. CASE WriteLastParam
  BY <1>4, DispatchKeepsStatus
<1>5. CASE ReadByte \/ WriteByte
  <2>1. \/ age' = age - 1 /\ UNCHANGED <<res0, st>>
        \/ EnterResult(FinishStatus(st)) /\ st' = st
        \/ \E p : StartSector(p, res0, st)
    BY <1>5 DEF ReadByte, WriteByte, SectorByte
  <2>2. CASE age' = age - 1 /\ UNCHANGED <<res0, st>>
    BY <2>2 DEF StatusTyped
  <2> QED BY <2>1, <2>2, ResultKeepsStatus, SectorKeepsStatus DEF StatusTyped
<1>6. CASE WriteFormatByte
  <2>1. (age' = 0 \/ age' = age - 1) /\ UNCHANGED <<res0, st>>
    BY <1>6 DEF WriteFormatByte, resVars
  <2> QED BY <2>1 DEF StatusTyped
<1>7. CASE MotorOn \/ MotorOff \/ \E u \in Units, kind \in Media : ChangeDisc(u, kind)
  <2>1. UNCHANGED <<res0, st, age>>
    BY <1>7 DEF MotorOn, MotorOff, ChangeDisc, command, resVars, workVars
  <2> QED BY <2>1 DEF StatusTyped
<1>8. CASE Reset \/ SnapshotLoad
  <2>1. res0' = {} /\ st' = {} /\ age' = 0
    BY <1>8 DEF Reset, SnapshotLoad, fdc_dev_reset
  <2> QED BY <2>1 DEF StatusTyped
<1>9. CASE UNCHANGED vars
  BY <1>9 DEF vars, resVars, workVars, StatusTyped
<1> QED BY <1>1, <1>2, <1>3, <1>4, <1>5, <1>6, <1>7, <1>8, <1>9 DEF Next, Cpu, Host

-----------------------------------------------------------------------------
\* No command's handler takes a drive's state out of its type.
LEMMA DispatchKeepsDrives ==
  ASSUME DrivesTyped, PhaseInv, WriteLastParam PROVE DrivesTyped'
<1>1. phase = "cmd" /\ count > 0 /\ dispatch(cmd) /\ UNCHANGED <<changed, disc>>
  BY DEF WriteLastParam, dispatch, plant
<1>2. cmd \in AllOps /\ cmd \notin {"senseInt", "invalid"}
  BY <1>1 DEF PhaseInv
<1>3. PICK p \in Params(cmd) : Handled(p)
  BY DispatchRuns
<1>4. UNCHANGED seekDone \/ \E t : cmd_seek_to(p, t)
  BY <1>2, <1>3 DEF Handled, Transfers, AllOps, cmd_specify, cmd_drive_status, cmd_read_id,
     cmd_transfer, cmd_read_deleted_stub, cmd_format_track
<1>5. CASE \E t : cmd_seek_to(p, t)
  <2>1. \/ seekDone' = seekDone
        \/ seekDone' = [seekDone EXCEPT ![p.unit] = IF Ready(p.unit) THEN "ok" ELSE "notReady"]
    BY <1>5 DEF cmd_seek_to
  <2> QED BY <1>1, <2>1 DEF DrivesTyped
<1> QED BY <1>1, <1>4, <1>5 DEF DrivesTyped

\* Nor does any other step.
LEMMA NextKeepsDrives ==
  ASSUME DrivesTyped, PhaseInv, [Next]_vars PROVE DrivesTyped'
<1>1. CASE Tick
  <2>1. /\ changed' = [u \in Units |-> changed[u] \/ SpunUp]
        /\ seekDone' = [u \in Units |-> IF Arrived(u) THEN "ok" ELSE seekDone[u]]
        /\ disc' = disc
    BY <1>1 DEF Tick, Mechanics
  <2>2. \A u \in Units : (changed[u] \/ SpunUp) \in BOOLEAN
    OBVIOUS
  <2>3. changed' \in [Units -> BOOLEAN]
    BY <2>1, <2>2
  <2>4. seekDone' \in [Units -> {"no", "ok", "notReady"}]
    BY <2>1 DEF DrivesTyped
  <2> QED BY <2>1, <2>3, <2>4 DEF DrivesTyped
<1>2. ASSUME NEW o \in Ops, WriteOpcode(o) PROVE DrivesTyped'
  <2>1. disc' = disc
    BY <1>2 DEF WriteOpcode, plant
  <2>2. UNCHANGED intVars \/ cmd_sense_interrupt
    BY <1>2 DEF WriteOpcode
  <2>3. \/ UNCHANGED <<seekDone, changed>>
        \/ \E u : /\ changed' = [changed EXCEPT ![u] = FALSE]
                  /\ seekDone' = seekDone \/ seekDone' = [seekDone EXCEPT ![u] = "no"]
    BY <2>2, Zenon DEF intVars, cmd_sense_interrupt
  <2> QED BY <2>1, <2>3 DEF DrivesTyped
<1>3. CASE WriteParam \/ ReadByte \/ WriteByte \/ WriteFormatByte \/ ReadResult
  <2>1. UNCHANGED <<seekDone, changed, disc>>
    BY <1>3 DEF WriteParam, ReadByte, WriteByte, SectorByte, WriteFormatByte, ReadResult,
       plant, intVars
  <2> QED BY <2>1 DEF DrivesTyped
<1>4. CASE WriteLastParam
  BY <1>4, DispatchKeepsDrives
<1>5. CASE MotorOn
  BY <1>5 DEF MotorOn, intVars, DrivesTyped
<1>6. CASE MotorOff
  BY <1>6 DEF MotorOff, DrivesTyped
<1>7. ASSUME NEW u \in Units, NEW kind \in Media, ChangeDisc(u, kind) PROVE DrivesTyped'
  <2>1. kind \in AllMedia
    BY FdcAssumption
  <2> QED BY <1>7, <2>1 DEF ChangeDisc, DrivesTyped
<1>8. CASE Reset \/ SnapshotLoad
  <2>1. /\ seekDone' = [u \in Units |-> "no"] /\ changed' = [u \in Units |-> FALSE]
        /\ disc' = disc
    BY <1>8 DEF Reset, SnapshotLoad, fdc_dev_reset
  <2> QED BY <2>1 DEF DrivesTyped
<1>9. CASE UNCHANGED vars
  BY <1>9 DEF vars, intVars, DrivesTyped
<1> QED BY <1>1, <1>2, <1>3, <1>4, <1>5, <1>6, <1>7, <1>8, <1>9 DEF Next, Cpu, Host

\* Status registers and drives keep their types in every reachable state.
LEMMA RestAlways == Spec => [](StatusTyped /\ DrivesTyped)
<1>1. ASSUME Init PROVE StatusTyped /\ DrivesTyped
  <2>1. /\ res0 = {} /\ st = {} /\ age = 0
        /\ seekDone = [u \in Units |-> "no"] /\ changed = [u \in Units |-> FALSE]
        /\ disc = [u \in Units |-> "none"]
    BY <1>1 DEF Init
  <2> QED BY <2>1 DEF StatusTyped, DrivesTyped, AllMedia
<1> QED BY <1>1, NextKeepsStatus, NextKeepsDrives, HeadAndPhase, PTL DEF Spec

(* Type correctness: heads stay on the drive, the byte counter in its      *)
(* width, result and format counts in their buffers.                       *)
THEOREM FdcTypeCorrect == Spec => []TypeOK
<1>1. HeadInv /\ PhaseInv /\ WorkInv /\ StatusTyped /\ DrivesTyped => TypeOK
  BY DEF HeadInv, PhaseInv, WorkInv, StatusTyped, DrivesTyped, TypeOK, SeekSet, ParSet
<1> QED BY <1>1, HeadAndPhase, WorkAlways, RestAlways, PTL

(* What fdc_quiet promises the fast tier: a tick it skips would have       *)
(* changed nothing, for every number of drives and every delay.            *)
THEOREM QuietTicksDoNothing == Spec => QuietTickIsNoop
<1>1. ASSUME HeadInv, DrivesTyped, Tick, fdc_quiet PROVE UNCHANGED vars
  <2>1. motor = "off" /\ phase \in {"cmd", "result"} /\ \A u \in Units : ~Seeking(u)
    BY <1>1 DEF fdc_quiet
  <2>2. UNCHANGED <<phase, res0, st, resCount, workVars>>
    BY <1>1, <2>1 DEF Tick, KeepWaiting, CompletePending, NextCell, Overrun, NoTimer
  <2>3. UNCHANGED <<cmdVars, resLen, period, disc>> /\ Mechanics
    BY <1>1 DEF Tick
  <2>4. UNCHANGED <<motor, spin>> /\ ~SpunUp
    BY <2>1, <2>3 DEF Mechanics, SpunUp
  <2>5. \A u \in Units : ~StepDue(u) /\ ~Arrived(u) /\ seek[u] = NoSeek
    BY <2>1 DEF StepDue, Arrived, Seeking
  <2>6. track' = track
    <3>1. track' = [u \in Units |-> track[u]]
      BY <2>3, <2>5 DEF Mechanics, Stepped
    <3> QED BY <1>1, <3>1 DEF HeadInv
  <2>7. seek' = seek
    <3>1. seek' = [u \in Units |-> NoSeek]
      BY <2>1, <2>3, <2>5 DEF Mechanics
    <3>2. seek = [u \in Units |-> NoSeek]
      BY <1>1, <2>5 DEF HeadInv
    <3> QED BY <3>1, <3>2
  <2>8. seekDone' = seekDone
    <3>1. seekDone' = [u \in Units |-> seekDone[u]]
      BY <2>3, <2>5 DEF Mechanics
    <3> QED BY <1>1, <3>1 DEF DrivesTyped
  <2>9. changed' = changed
    <3>1. changed' = [u \in Units |-> changed[u] \/ SpunUp]
      BY <2>3 DEF Mechanics
    <3>2. \A u \in Units : (changed[u] \/ SpunUp) = changed[u]
      BY <1>1, <2>4 DEF DrivesTyped
    <3>3. changed' = [u \in Units |-> changed[u]]
      BY <3>1, <3>2
    <3> QED BY <1>1, <3>3 DEF DrivesTyped
  <2> QED BY <2>2, <2>3, <2>4, <2>6, <2>7, <2>8, <2>9
         DEF vars, resVars, headVars, intVars
<1>2. ASSUME HeadInv, DrivesTyped PROVE [~(Tick /\ fdc_quiet)]_vars
  BY <1>1, <1>2
<1> QED BY <1>2, HeadAndPhase, RestAlways, PTL DEF QuietTickIsNoop

=============================================================================
