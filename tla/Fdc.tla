-------------------------------- MODULE Fdc --------------------------------
(***************************************************************************)
(* The uPD765A floppy controller of the CPC: src/src/hw/fdc.cpp.           *)
(*                                                                         *)
(* The CPU writes a command byte by byte, the controller waits for the     *)
(* rotating disc (BUSY), moves bytes at the disc's pace (EXEC) and hands   *)
(* out status bytes (RESULT).  Head steps, motor spin-up and disc changes  *)
(* go on meanwhile.                                                        *)
(*                                                                         *)
(* Data is abstracted.  Parameters are chosen when a command is dispatched.*)
(* What a disc holds is chosen when the head looks: whether a sector ID is *)
(* on the track and the status recorded with it, so WRITE DELETED and      *)
(* FORMAT need no image.  Status registers keep the bits later steps look  *)
(* at.  Absolute times become the ticks still to wait, on a coarser clock: *)
(* one tick is one byte cell.  The working registers of a command that is  *)
(* over are never read again and are cleared here.                         *)
(***************************************************************************)
EXTENDS Integers

CONSTANTS
  Units,      \* the drives that are used: a subset of {0, 1}
  MaxTrack,   \* kMaxTracks - 1: where seeks are clamped
  DiscTracks, \* tracks on every disc
  NSectors,   \* sector IDs on a formatted track are among 1..NSectors
  Status,     \* recorded sector status, DE and CM: sets of them
  Lens,       \* transfer lengths xfer_length may yield
  Wrap,       \* uint32_t remaining wraps modulo this
  SpinUp, Search, Latencies, Periods,   \* delays, in ticks
  Ops,        \* the commands the CPU issues
  Media       \* what the host puts into the drives

AllOps == {"specify", "driveStatus", "write", "read", "recalibrate",
           "senseInt", "readId", "readDeleted", "format", "seek", "invalid"}
AllMedia == {"none", "dsk", "flux"}

ASSUME FdcAssumption ==
  /\ Units \subseteq {0, 1}
  /\ MaxTrack \in Nat /\ DiscTracks \in 1..MaxTrack + 1
  /\ NSectors \in Nat \ {0}
  /\ Status \subseteq SUBSET {"de", "cm"} /\ Status # {}
  /\ Wrap \in Nat \ {0} /\ Lens \subseteq 0..Wrap - 1
  /\ SpinUp \in Nat \ {0} /\ Search \in Nat \ {0}
  /\ Latencies \subseteq Nat \ {0}
  /\ Periods \subseteq Nat \ {0}
  /\ \E d \in Periods : \A e \in Periods : e <= d
  /\ Ops \subseteq AllOps
  /\ Media \subseteq AllMedia

VARIABLES
  phase,            \* PH_CMD, PH_EXEC, PH_RESULT, PH_BUSY
  cmd, count,       \* the last opcode, bytes of its command received
  par,              \* parameters of the command in progress
  res0,             \* bits 0x40 (AT) and 0x08 (NR) of res[R_ST0]
  st,               \* ST1/ST2 bits DE, CM and OR
  resLen, resCount, \* result bytes due, read
  remaining, moved, \* bytes of the sector to move; moved (ghost)
  fmtPos,           \* bytes of FORMAT's ID stream received
  pending, due,     \* scheduled completion, ticks until it
  age,              \* now - next_byte_at
  motor, spin,      \* M_OFF, M_SPINUP, M_READY; ticks to ready
  period,           \* step period latched by SPECIFY
  track,            \* per unit: the head's position
  seek,             \* per unit: the seek under way: target, ticks, period
  seekDone, changed,\* per unit: what SENSE INTERRUPT reports
  disc              \* per unit: none, dsk (writable) or flux (read-only)

cmdVars == <<cmd, count>>
resVars == <<res0, st, resLen, resCount>>
workVars == <<par, remaining, moved, fmtPos, pending, due, age>>
headVars == <<period, track, seek>>
intVars == <<seekDone, changed>>
plant == <<motor, spin, track, disc>>
vars == <<phase, cmdVars, resVars, workVars, headVars, intVars, motor, spin,
          disc>>

NoPar == [unit |-> 0, r |-> 1, eot |-> 1, len |-> 0, sc |-> 0]
NoSeek == [to |-> 0, in |-> 0, per |-> 0]

TypeOK ==
  /\ phase \in {"cmd", "exec", "result", "busy"}
  /\ cmd \in AllOps /\ count \in 0..8
  /\ par \in [unit : {0} \cup Units, r : 1..NSectors + 1, eot : 1..NSectors,
              len : 0..Wrap - 1, sc : 0..1]
  /\ res0 \subseteq {"AT", "NR"} /\ st \subseteq {"de", "cm", "or"}
  /\ resLen \in 0..7 /\ resCount \in 0..7
  /\ remaining \in 0..Wrap - 1 /\ moved \in 0..Wrap - 1 /\ fmtPos \in 0..4
  /\ pending \in {"none", "readId", "dataStart", "fail", "formatDone"}
  /\ due \in Nat /\ age \in Int
  /\ motor \in {"off", "spinup", "ready"} /\ spin \in 0..SpinUp
  /\ period \in Periods
  /\ track \in [Units -> 0..MaxTrack]
  /\ seek \in [Units -> [to : 0..MaxTrack, in : Nat, per : Nat]]
  /\ seekDone \in [Units -> {"no", "ok", "notReady"}]
  /\ changed \in [Units -> BOOLEAN]
  /\ disc \in [Units -> AllMedia]

(* SPECIFY's SRT nibble is 0 after a reset: the slowest rate. *)
SlowestPeriod == CHOOSE d \in Periods : \A e \in Periods : e <= d

Init ==
  /\ phase = "cmd" /\ cmd = "invalid" /\ count = 0 /\ par = NoPar
  /\ res0 = {} /\ st = {} /\ resLen = 0 /\ resCount = 0
  /\ remaining = 0 /\ moved = 0 /\ fmtPos = 0 /\ age = 0
  /\ pending = "none" /\ due = 0
  /\ motor = "off" /\ spin = 0
  /\ period = SlowestPeriod
  /\ track = [u \in Units |-> 0] /\ seek = [u \in Units |-> NoSeek]
  /\ seekDone = [u \in Units |-> "no"] /\ changed = [u \in Units |-> FALSE]
  /\ disc = [u \in Units |-> "none"]

-----------------------------------------------------------------------------
(* Helpers. *)

(* kCommands: command and result bytes of each opcode. *)
CmdBytes(o) == CASE o = "senseInt" -> 1
                 [] o \in {"driveStatus", "recalibrate", "readId"} -> 2
                 [] o \in {"specify", "seek"} -> 3
                 [] o = "format" -> 6
                 [] OTHER -> 9
(* Mutant of ResBytes: the table gives READ ID no result. *)
ResBytesNoReadId(o) ==
  IF o \in {"specify", "recalibrate", "seek", "readId"} THEN 0
  ELSE IF o = "driveStatus" THEN 1 ELSE IF o = "senseInt" THEN 2 ELSE 7
ResBytes(o) == CASE o \in {"specify", "recalibrate", "seek"} -> 0
                 [] o = "driveStatus" -> 1
                 [] o = "senseInt" -> 2
                 [] OTHER -> 7

Seeking(u) == seek[u] # NoSeek

(* dir_to_cpu: set by start_sector, cleared by FORMAT TRACK *)
ToCpu == cmd = "read"

(* drive_ready *)
Ready(u) == disc[u] # "none" /\ motor = "ready"

(* head_track: the head is over a formatted track of the inserted disc. *)
OnTrack(u) == disc[u] # "none" /\ track[u] < DiscTracks

(* init_status *)
InitStatus(u) == IF Ready(u) THEN {} ELSE {"AT", "NR"}

(* enter_result *)
EnterResult(bits) ==
  /\ phase' = "result" /\ resCount' = 0 /\ res0' = bits
  /\ par' = NoPar /\ remaining' = 0 /\ moved' = 0 /\ fmtPos' = 0
  /\ pending' = "none" /\ due' = 0 /\ age' = 0

(* finish_with_status: AT, unless a control mark is the whole story. *)
FinishStatus(flags) ==
  IF "cm" \in flags /\ "de" \notin flags THEN res0 \ {"AT"} ELSE res0 \cup {"AT"}

Wait(what, ticks) == phase' = "busy" /\ pending' = what /\ due' = ticks

(* Mutant of StartSector: the next sector does not reload the count. *)
StartSectorNoReload(p, bits, old) ==
  /\ p.r \in 1..NSectors
  /\ \E f \in Status : st' = f
  /\ \E l \in Latencies : Wait("dataStart", l)
  /\ remaining' = IF par = NoPar THEN p.len ELSE remaining
  /\ res0' = bits /\ moved' = 0 /\ age' = 0 /\ par' = p
  /\ UNCHANGED <<resCount, fmtPos>>

(* start_sector: look for the sector the parameters name.  A hit waits for *)
(* its data field, a miss searches two index pulses and fails with ND.     *)
(* bits and old are the status so far.                                     *)
StartSector(p, bits, old) ==
  /\ \/ /\ p.r \in 1..NSectors
        /\ \E f \in Status : st' = f
        /\ \E l \in Latencies : Wait("dataStart", l)
        /\ remaining' = p.len /\ res0' = bits
     \/ /\ Wait("fail", Search)
        /\ remaining' = 0 /\ res0' = bits \cup {"AT"} /\ st' = old
  /\ moved' = 0 /\ age' = 0 /\ par' = p
  /\ UNCHANGED <<resCount, fmtPos>>

-----------------------------------------------------------------------------
(* Command handlers: each runs when the last byte of its command arrives;  *)
(* p holds the parameters.                                                 *)

cmd_specify ==
  /\ period' \in Periods
  /\ UNCHANGED <<phase, res0, st, resCount, workVars, seek, seekDone>>

(* ST3 goes where ST0 goes: its bit 0x40 is the write-protect line. *)
cmd_drive_status(p) ==
  /\ EnterResult(IF disc[p.unit] = "dsk" THEN {} ELSE {"AT"})
  /\ UNCHANGED <<st, period, seek, seekDone>>

(* Mutant of cmd_seek_to: the target is not clamped. *)
SeekUnclamped(p, target) ==
  LET u == p.unit
      go == Ready(u) /\ target # track[u]
  IN
  /\ res0' = InitStatus(u) /\ st' = {}
  /\ seek' = IF go THEN [seek EXCEPT ![u] =
                     [to |-> target, in |-> period, per |-> period]] ELSE seek
  /\ seekDone' = IF go THEN seekDone ELSE [seekDone EXCEPT ![u] =
                     IF Ready(u) THEN "ok" ELSE "notReady"]
  /\ UNCHANGED <<phase, resCount, workVars, period>>

(* RECALIBRATE and SEEK *)
cmd_seek_to(p, target) ==
  LET u == p.unit
      tgt == IF target > MaxTrack THEN MaxTrack ELSE target
      go == Ready(u) /\ tgt # track[u]
  IN
  /\ res0' = InitStatus(u) /\ st' = {}
  /\ IF go THEN /\ seek' = [seek EXCEPT ![u] =
                     [to |-> tgt, in |-> period, per |-> period]]
                /\ UNCHANGED seekDone
           ELSE /\ seekDone' = [seekDone EXCEPT ![u] =
                     IF Ready(u) THEN "ok" ELSE "notReady"]
                /\ UNCHANGED seek
  /\ UNCHANGED <<phase, resCount, workVars, period>>

(* SENSE INTERRUPT: seek ends first (unit 0 before unit 1), then changes   *)
(* of the ready line, else a one-byte "invalid".                           *)
SeekEnded == {u \in Units : seekDone[u] # "no"}
Changed == {u \in Units : changed[u]}
First(us) == CHOOSE u \in us : \A v \in us : u <= v

cmd_sense_interrupt ==
  CASE SeekEnded # {} ->
         LET u == First(SeekEnded) IN
         /\ seekDone' = [seekDone EXCEPT ![u] = "no"]
         /\ changed' = [changed EXCEPT ![u] = FALSE]
         /\ EnterResult(res0) /\ resLen' = 2
    [] SeekEnded = {} /\ Changed # {} ->
         LET u == First(Changed) IN
         /\ changed' = [changed EXCEPT ![u] = FALSE]
         /\ EnterResult(IF Ready(u) THEN {"AT"} ELSE {"AT", "NR"})
         /\ resLen' = 2 /\ UNCHANGED seekDone
    [] OTHER ->
         /\ EnterResult({}) /\ resLen' = 1
         /\ UNCHANGED intVars

cmd_read_id(p) ==
  /\ st' = {}
  /\ IF Ready(p.unit)
       THEN /\ IF OnTrack(p.unit)
                 THEN res0' = {} /\ \E l \in Latencies : Wait("readId", l)
                 ELSE res0' = {"AT"} /\ Wait("fail", Search)
            /\ par' = p
            /\ UNCHANGED <<resCount, remaining, moved, fmtPos, age>>
       ELSE EnterResult({"AT", "NR"})
  /\ UNCHANGED <<period, seek, seekDone>>

(* READ DATA, WRITE DATA and WRITE DELETED DATA: no execution phase when   *)
(* the drive is not ready, off the disc, or the disc cannot be written.    *)
cmd_transfer(p, writing) ==
  /\ IF Ready(p.unit) /\ OnTrack(p.unit) /\ (writing => disc[p.unit] = "dsk")
       THEN StartSector(p, {}, {})
       ELSE EnterResult(InitStatus(p.unit) \cup {"AT"}) /\ st' = {}
  /\ UNCHANGED <<period, seek, seekDone>>

cmd_read_deleted_stub(p) ==
  /\ EnterResult(InitStatus(p.unit) \cup {"AT"}) /\ st' = {}
  /\ UNCHANGED <<period, seek, seekDone>>

(* FORMAT TRACK: 4 ID bytes per sector follow in the execution phase.      *)
(* SC = 0 stands for every sector count or size a DSK cannot hold.         *)
cmd_format_track(p) ==
  /\ st' = {}
  /\ IF Ready(p.unit) /\ disc[p.unit] = "dsk" /\ p.sc # 0
       THEN /\ res0' = {} /\ phase' = "exec" /\ par' = p
            /\ fmtPos' = 0 /\ age' = 0
            /\ UNCHANGED <<resCount, remaining, moved, pending, due>>
       ELSE EnterResult(InitStatus(p.unit) \cup {"AT"})
  /\ UNCHANGED <<period, seek, seekDone>>

Transfers == {"read", "write"}
Params(o) ==
  [unit : Units,
   r : IF o \in Transfers THEN 1..NSectors ELSE {1},
   eot : IF o \in Transfers THEN 1..NSectors ELSE {1},
   len : IF o \in Transfers THEN Lens ELSE {0},
   sc : IF o = "format" THEN {0, 1} ELSE {0}]

dispatch(o) ==
  /\ \E p \in Params(o) :
       CASE o = "specify" -> cmd_specify
         [] o = "driveStatus" -> cmd_drive_status(p)
         [] o = "recalibrate" -> cmd_seek_to(p, 0)
         [] o = "seek" -> \E t \in 0..MaxTrack + 1 : cmd_seek_to(p, t)
         [] o = "readId" -> cmd_read_id(p)
         [] o \in Transfers -> cmd_transfer(p, o = "write")
         [] o = "readDeleted" -> cmd_read_deleted_stub(p)
         [] o = "format" -> cmd_format_track(p)
  /\ count' = 0
  /\ UNCHANGED <<cmd, resLen, changed, plant>>

-----------------------------------------------------------------------------
(* The data register.  The CPU reads and writes it whenever it likes, RQM  *)
(* or not; accesses in the wrong phase change nothing.                     *)

(* data_write, command phase: the opcode byte *)
WriteOpcode(o) ==
  /\ phase = "cmd" /\ count = 0
  /\ CASE o = "invalid" ->
            /\ EnterResult({}) /\ resLen' = 1
            /\ UNCHANGED <<cmdVars, intVars>>
       [] o = "senseInt" ->
            /\ cmd' = o /\ cmd_sense_interrupt
            /\ UNCHANGED count
       [] OTHER ->
            /\ cmd' = o /\ count' = 1 /\ resLen' = ResBytes(o)
            /\ UNCHANGED <<phase, res0, resCount, workVars, intVars>>
  /\ UNCHANGED <<st, period, seek, plant>>

(* data_write, command phase: a parameter byte, the last one dispatches *)
WriteParam ==
  /\ phase = "cmd" /\ count > 0 /\ count + 1 < CmdBytes(cmd)
  /\ count' = count + 1
  /\ UNCHANGED <<phase, cmd, resVars, workVars, period, seek, intVars, plant>>

WriteLastParam ==
  /\ phase = "cmd" /\ count > 0 /\ count + 1 = CmdBytes(cmd)
  /\ dispatch(cmd)

(* One byte of a sector moved.  At the end of the sector the command ends  *)
(* on a recorded error (reads) or at EOT, chains to the next sector, or    *)
(* ends because there is no track under the head any more.                 *)
SectorByte ==
  LET left == (remaining - 1) % Wrap
      next == [par EXCEPT !.r = @ + 1]
      last == (ToCpu /\ "de" \in st) \/ par.r = par.eot
  IN
  /\ \/ /\ left # 0
        /\ remaining' = left /\ moved' = moved + 1 /\ age' = age - 1
        /\ UNCHANGED <<phase, par, res0, st, resCount, fmtPos, pending, due>>
     \/ /\ left = 0 /\ (last \/ ~OnTrack(par.unit))
        /\ EnterResult(FinishStatus(st)) /\ UNCHANGED st
     \/ /\ left = 0 /\ ~last /\ OnTrack(par.unit)
        /\ StartSector(next, res0, st)
  /\ UNCHANGED <<cmdVars, resLen, period, seek, intVars, plant>>

(* data_read, execution phase *)
ReadByte == phase = "exec" /\ ToCpu /\ SectorByte

(* exec_write_byte: a sector byte, or one of FORMAT's ID bytes *)
WriteByte ==
  /\ phase = "exec" /\ ~ToCpu /\ cmd # "format"
  /\ SectorByte

WriteFormatByte ==
  /\ phase = "exec" /\ ~ToCpu /\ cmd = "format"
  /\ fmtPos' = fmtPos + 1
  /\ IF fmtPos' = par.sc * 4
       THEN age' = 0 /\ \E l \in Latencies : Wait("formatDone", l)
       ELSE age' = age - 1 /\ UNCHANGED <<phase, pending, due>>
  /\ UNCHANGED <<cmdVars, resVars, par, remaining, moved, period, seek,
                 intVars, plant>>

(* data_read, result phase *)
ReadResult ==
  /\ phase = "result"
  /\ resCount' = resCount + 1
  /\ IF resCount' >= resLen THEN phase' = "cmd" /\ count' = 0
                            ELSE UNCHANGED <<phase, count>>
  /\ UNCHANGED <<cmd, res0, st, resLen, workVars, period, seek, intVars, plant>>

-----------------------------------------------------------------------------
(* fdc_tick: spin-up, head steps, then the command's own timers. *)

SpunUp == motor = "spinup" /\ spin = 1
StepDue(u) == Seeking(u) /\ seek[u].in = 1
(* Mutant of Stepped: the head moves only while the motor runs. *)
SteppedByMotor(u) == IF StepDue(u) /\ motor # "off"
              THEN IF seek[u].to > track[u] THEN track[u] + 1 ELSE track[u] - 1
              ELSE track[u]
Stepped(u) == IF StepDue(u)
              THEN IF seek[u].to > track[u] THEN track[u] + 1 ELSE track[u] - 1
              ELSE track[u]
Arrived(u) == StepDue(u) /\ Stepped(u) = seek[u].to

Mechanics ==
  /\ motor' = IF SpunUp THEN "ready" ELSE motor
  /\ spin' = IF motor = "spinup" THEN spin - 1 ELSE spin
  /\ changed' = [u \in Units |-> changed[u] \/ SpunUp]
  /\ track' = [u \in Units |-> Stepped(u)]
  /\ seekDone' = [u \in Units |-> IF Arrived(u) THEN "ok" ELSE seekDone[u]]
  /\ seek' = [u \in Units |->
       CASE ~Seeking(u) \/ Arrived(u) -> NoSeek
         [] StepDue(u) /\ ~Arrived(u) -> [seek[u] EXCEPT !.in = @ - 1 + seek[u].per]
         [] OTHER -> [seek[u] EXCEPT !.in = @ - 1]]

KeepWaiting ==
  /\ phase = "busy" /\ due > 1
  /\ due' = due - 1
  /\ UNCHANGED <<phase, res0, st, resCount, par, remaining, moved, fmtPos,
                 pending, age>>

(* complete_pending: the head is where Mechanics just moved it.  do_format *)
(* may refuse a layout the track's block cannot hold.                      *)
CompletePending ==
  /\ phase = "busy" /\ due = 1
  /\ \/ /\ pending \in {"readId", "fail"}
        /\ EnterResult(res0)
     \/ /\ pending = "formatDone"
        /\ disc[par.unit] = "dsk" /\ track'[par.unit] < DiscTracks
        /\ EnterResult({})
     \/ /\ pending = "formatDone"
        /\ EnterResult(res0 \cup {"AT"})
     \/ /\ pending = "dataStart"
        /\ phase' = "exec" /\ pending' = "none" /\ due' = 0 /\ age' = 0
        /\ UNCHANGED <<res0, resCount, par, remaining, moved, fmtPos>>
  /\ UNCHANGED st

NextCell ==
  /\ phase = "exec" /\ age < 1
  /\ age' = age + 1
  /\ UNCHANGED <<phase, res0, st, resCount, par, remaining, moved, fmtPos,
                 pending, due>>

(* Mutant of Overrun: only reads are watched. *)
OverrunReadsOnly ==
  /\ phase = "exec" /\ age = 1 /\ ToCpu
  /\ st' = st \cup {"or"}
  /\ EnterResult(FinishStatus(st))

(* The byte cell was missed: OR, and the command ends. *)
Overrun ==
  /\ phase = "exec" /\ age = 1
  /\ st' = st \cup {"or"}
  /\ EnterResult(FinishStatus(st))

NoTimer ==
  /\ phase \in {"cmd", "result"}
  /\ UNCHANGED <<phase, res0, st, resCount, workVars>>

Tick ==
  /\ Mechanics
  /\ KeepWaiting \/ CompletePending \/ NextCell \/ Overrun \/ NoTimer
  /\ UNCHANGED <<cmdVars, resLen, period, disc>>

-----------------------------------------------------------------------------
(* The motor latch, the host's media operations and reset. *)

command == <<phase, cmdVars, resVars, workVars, headVars>>

MotorOn ==
  /\ motor = "off"
  /\ motor' = "spinup" /\ spin' = SpinUp
  /\ UNCHANGED <<command, intVars, disc>>

MotorOff ==
  /\ motor # "off"
  /\ motor' = "off" /\ spin' = 0
  /\ changed' = [u \in Units |-> TRUE]
  /\ UNCHANGED <<command, seekDone, disc>>

(* fdc_attach_disk (an image that does not parse leaves the drive empty),  *)
(* fdc_attach_flux (drive A only), fdc_eject_disk                          *)
ChangeDisc(u, kind) ==
  /\ kind = "flux" => u = 0
  /\ disc' = [disc EXCEPT ![u] = kind]
  /\ changed' = [changed EXCEPT ![u] = TRUE]
  /\ UNCHANGED <<command, motor, spin, seekDone>>

(* fdc_dev_reset: head positions and discs stay. *)
fdc_dev_reset ==
  /\ phase' = "cmd" /\ cmd' = "invalid" /\ count' = 0 /\ par' = NoPar
  /\ res0' = {} /\ st' = {} /\ resLen' = 0 /\ resCount' = 0
  /\ remaining' = 0 /\ moved' = 0 /\ fmtPos' = 0 /\ age' = 0
  /\ pending' = "none" /\ due' = 0
  /\ motor' = "off" /\ spin' = 0
  /\ period' = SlowestPeriod
  /\ seek' = [u \in Units |-> NoSeek]
  /\ seekDone' = [u \in Units |-> "no"] /\ changed' = [u \in Units |-> FALSE]
  /\ UNCHANGED disc

Reset == fdc_dev_reset /\ UNCHANGED track

(* Mutant of SnapshotLoad: the heads are put in place without the reset. *)
SnapshotWithoutReset ==
  /\ track' \in [Units -> 0..MaxTrack]
  /\ UNCHANGED <<phase, cmdVars, resVars, workVars, period, seek, intVars,
                 motor, spin, disc>>

(* Loading a snapshot resets the machine, then fdc_poke_mechanics puts the *)
(* heads where the snapshot says.                                          *)
SnapshotLoad ==
  /\ fdc_dev_reset
  /\ track' \in [Units -> 0..MaxTrack]

Cpu ==
  \/ \E o \in Ops : WriteOpcode(o)
  \/ WriteParam \/ WriteLastParam
  \/ ReadByte \/ WriteByte \/ WriteFormatByte \/ ReadResult
  \/ MotorOn \/ MotorOff

Host ==
  \/ \E u \in Units, kind \in Media : ChangeDisc(u, kind)
  \/ Reset \/ SnapshotLoad

Next == Tick \/ Cpu \/ Host

(* The board ticks the FDC on every master cycle while the machine runs. *)
Spec == Init /\ [][Next]_vars /\ WF_vars(Tick)

-----------------------------------------------------------------------------
(* Correctness. *)

(* A seek that is under way has somewhere to go: fdc_tick steps the head   *)
(* before it compares, so a head already on its target would be carried    *)
(* past it (and from track 0 to track 255).                                *)
SeekHasDistance == \A u \in Units : Seeking(u) => track[u] # seek[u].to

(* data_read serves a result byte before it counts: the result phase is    *)
(* never entered without a byte to serve.                                  *)
ResultHasBytes == phase = "result" => resCount < resLen

(* While a sector is under way its bytes are accounted for: the ones moved *)
(* and the ones remaining make up the length xfer_length asked for, modulo *)
(* the counter's width, because a length of 0 (N = 0 and DTL = 0) goes     *)
(* once around.                                                            *)
BytesAddUp ==
  (phase = "exec" /\ cmd # "format") => (moved + remaining) % Wrap = par.len

(* Mutant of fdc_quiet: a seek in progress is overlooked. *)
QuietDespiteSeek == motor = "off" /\ phase \in {"cmd", "result"}

(* fdc_quiet promises that a tick changes nothing but the clock, so the    *)
(* fast tier may skip it.                                                  *)
fdc_quiet ==
  /\ motor = "off" /\ \A u \in Units : ~Seeking(u)
  /\ phase \in {"cmd", "result"}
QuietTickIsNoop == [][~(Tick /\ fdc_quiet)]_vars

(* The chip never hangs: whatever the CPU does or fails to do, and whatever*)
(* happens to motor and disc, a command in progress reaches its result     *)
(* (or the machine is reset).                                              *)
CommandEnds == phase \in {"busy", "exec"} ~> phase \in {"cmd", "result"}

(* Once the CPU issues no more commands every seek ends: fdc_tick steps    *)
(* the head until it arrives, motor on or off, disc in or out.             *)
SeekEnds == <>[](count = 0) => \A u \in Units : <>[]~Seeking(u)

=============================================================================
