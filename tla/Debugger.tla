------------------------------ MODULE Debugger ------------------------------
(***************************************************************************)
(* Breakpoints, from the host's lists to the pause: the lists of           *)
(* src/src/z80_view.cpp, the bus probe of src/src/hw/probe.cpp that         *)
(* watches the strobes, the frame loop that mirrors the lists into the     *)
(* probe before and after each frame and acts on a hit                     *)
(* (subcycle_bridge.cpp, kon_cpc_ja.cpp), single stepping, the autotype's  *)
(* WAITBREAK, which rides on the same probe, and the IPC commands that run *)
(* to a breakpoint and wait for it.                                        *)
(*                                                                         *)
(* The guest runs a loop of instructions 0..LastAddr.  An instruction is a     *)
(* fetch whose strobes stay up for two ticks, a refresh, and for some      *)
(* instructions one memory write or one I/O access.                        *)
(***************************************************************************)
EXTENDS Naturals, Sequences, FiniteSets

CONSTANTS
  LastAddr,        \* the last address of the guest's loop
  MemAt, IoAt, \* the instructions that write memory, and that do I/O
  MaxExec,     \* the probe's exec comparators (32 in the code)
  MaxList,     \* bound: breakpoints listed
  MaxEdits     \* bound: host operations

Addr == 0..LastAddr

ASSUME DebuggerAssumption ==
  /\ LastAddr \in Nat /\ MaxExec \in Nat /\ MaxList \in Nat /\ MaxEdits \in Nat
  /\ MemAt \subseteq Addr /\ IoAt \subseteq Addr /\ MemAt \cap IoAt = {}

BusPhases == {"idle", "fetch1", "fetch2", "refresh", "access"}
Strobes == {"none", "fetch", "mem", "io"}
BpNone == LastAddr + 1
NoHit == [kind |-> "none", addr |-> 0]

VARIABLES
  bps,     \* the breakpoint list: address, type, condition, pass count, hits
  wps,     \* addresses watched; one may carry a condition
  ios,     \* the I/O breakpoints
  cpu,     \* where the guest is: pc and the phase of its bus cycle
  probe,   \* comparators, remembered strobe, latched hit
  z80,     \* the view's break_point and sticky reached flag
  loop,    \* the Z80 thread: before a frame, in it, after it
  paused,
  auto,    \* the autotype queue as WAITBREAK sees it, and g_waitbreak_latch
  ipc,     \* the IPC client: idle or waiting for a hit; breakpoint_hit/_pc
  edits

debugVars == <<bps, wps, ios, cpu, probe, z80, loop, paused, auto, ipc, edits>>
hostVars == <<bps, wps, ios>>

(* The entries of s at the indices in I, in their order. *)
Kept(s, I) ==
  LET nth(k) == CHOOSE i \in I : Cardinality({j \in I : j <= i}) = k
  IN  [k \in 1..Cardinality(I) |-> s[nth(k)]]

Bp(a, eph, cond, pass) == [addr |-> a, eph |-> eph, cond |-> cond, pass |-> pass, hits |-> 0]

DebugTypeOK ==
  /\ bps \in Seq([addr : Addr, eph : BOOLEAN, cond : BOOLEAN, pass : {0, 2}, hits : 0..2])
  /\ Len(bps) <= MaxList
  /\ wps \in [MemAt -> {"off", "on", "cond"}] /\ ios \in SUBSET IoAt
  /\ cpu \in [pc : Addr, ph : BusPhases]
  /\ probe \in [exec : SUBSET Addr, watch : SUBSET MemAt, io : SUBSET IoAt,
                prev : Strobes, hit : [kind : Strobes, addr : Addr], fresh : BOOLEAN]
  /\ z80 \in [break_point : Addr \cup {BpNone}, reached : BOOLEAN]
  /\ loop \in {"top", "frame", "sync"} /\ paused \in BOOLEAN
  /\ auto \in [q : {"empty", "queued", "blocked"}, latch : BOOLEAN]
  /\ ipc \in [pc : {"idle", "to", "bp"}, hit : BOOLEAN]
  /\ edits \in 0..MaxEdits

DebugInit ==
  /\ bps = <<>> /\ wps = [a \in MemAt |-> "off"] /\ ios = {}
  /\ cpu = [pc |-> 0, ph |-> "idle"]
  /\ probe = [exec |-> {}, watch |-> {}, io |-> {}, prev |-> "none", hit |-> NoHit,
              fresh |-> TRUE]
  /\ z80 = [break_point |-> 0, reached |-> FALSE]
  /\ loop = "top" /\ paused = FALSE
  /\ auto = [q |-> "empty", latch |-> FALSE]
  /\ ipc = [pc |-> "idle", hit |-> FALSE]
  /\ edits = 0

-----------------------------------------------------------------------------
(* The lists.  They are edited from the UI and from the IPC thread, at any  *)
(* time; the probe learns of it at the next sync.                           *)

Edit == edits < MaxEdits /\ edits' = edits + 1

ListOnly == UNCHANGED <<cpu, probe, z80, loop, paused, auto, ipc>>

(* An unconditional breakpoint is listed once per address. *)
z80_add_breakpoint(a) ==
  /\ Edit /\ Len(bps) < MaxList
  /\ bps' = IF \E i \in DOMAIN bps : bps[i].addr = a /\ ~bps[i].cond
            THEN bps ELSE Append(bps, Bp(a, FALSE, FALSE, 0))
  /\ UNCHANGED <<wps, ios>> /\ ListOnly

z80_add_breakpoint_cond(a, cond, pass) ==
  /\ Edit /\ Len(bps) < MaxList
  /\ bps' = Append(bps, Bp(a, FALSE, cond, pass))
  /\ UNCHANGED <<wps, ios>> /\ ListOnly

(* bp del a, or bp clear. *)
z80_del_breakpoint(S) ==
  /\ Edit
  /\ bps' = Kept(bps, {i \in DOMAIN bps : bps[i].addr \notin S})
  /\ UNCHANGED <<wps, ios>> /\ ListOnly

z80_edit_watchpoint(a, w) ==
  /\ Edit /\ wps' = [wps EXCEPT ![a] = w]
  /\ UNCHANGED <<bps, ios>> /\ ListOnly

z80_edit_io_breakpoint(S) ==
  /\ Edit /\ ios' = S
  /\ UNCHANGED <<bps, wps>> /\ ListOnly

-----------------------------------------------------------------------------
(* The probe. *)

Strobe(c) ==
  CASE c.ph \in {"fetch1", "fetch2"} -> "fetch"
    [] c.ph = "access" -> IF c.pc \in MemAt THEN "mem" ELSE "io"
    [] OTHER -> "none"

ProbeArmed(p) == p.exec # {} \/ p.watch # {} \/ p.io # {}

(* Idle, the probe does not even remember the strobes.  Otherwise the first *)
(* rising edge that matches is latched.  The ghost `fresh' says that the    *)
(* instruction of the last latched fetch is over.                           *)
probe_tick(p, c) ==
  LET Matches ==     \* the strobe of this cycle is one the probe looks for
        CASE Strobe(c) = "fetch" -> c.pc \in p.exec
          [] Strobe(c) = "mem" -> c.pc \in p.watch
          [] Strobe(c) = "io" -> c.pc \in p.io
          [] OTHER -> FALSE
  IN
  IF ~ProbeArmed(p) /\ p.hit.kind = "none" THEN p
  ELSE LET edge == Strobe(c) # "none" /\ p.prev # Strobe(c)
           latch == edge /\ p.hit.kind = "none" /\ Matches
       IN  [p EXCEPT !.prev = Strobe(c),
                     !.hit = IF latch THEN [kind |-> Strobe(c), addr |-> c.pc] ELSE @]

(* Mutant: the acknowledge forgets the strobe as well. *)
probe_ack_edge(p) == [p EXCEPT !.hit = NoHit, !.prev = "none"]

probe_ack(p) == [p EXCEPT !.hit = NoHit]

(* probe_add_exec refuses a duplicate, and silently drops the rest when the *)
(* comparators are full.  The WAITBREAK address goes in last.               *)
waitbreak_armed == auto.q # "empty" /\ z80.break_point # BpNone

ExecList ==
  [i \in DOMAIN bps |-> bps[i].addr]
    \o (IF waitbreak_armed THEN <<z80.break_point>> ELSE <<>>)

FirstDistinct(s, n) ==
  {s[i] : i \in {j \in DOMAIN s : /\ \A k \in 1..(j - 1) : s[k] # s[j]
                                  /\ Cardinality({s[k] : k \in 1..(j - 1)}) < n}}

(* The lists are only mirrored into a probe with nothing armed. *)
sync_probe_once(p) ==
  IF ProbeArmed(p) THEN p
  ELSE [p EXCEPT !.exec = FirstDistinct(ExecList, MaxExec),
                 !.watch = {a \in MemAt : wps[a] # "off"}, !.io = ios]

sync_probe(p) ==
  [p EXCEPT !.exec = FirstDistinct(ExecList, MaxExec),
            !.watch = {a \in MemAt : wps[a] # "off"}, !.io = ios]

-----------------------------------------------------------------------------
(* The machine.  One tick moves the bus one phase on.                       *)

(* The program counter does not wrap. *)
AdvanceNoWrap(c) ==
  CASE c.ph = "idle" -> [c EXCEPT !.ph = "fetch1"]
    [] c.ph = "fetch1" -> [c EXCEPT !.ph = "fetch2"]
    [] c.ph = "fetch2" -> [c EXCEPT !.ph = "refresh"]
    [] c.ph = "refresh" /\ c.pc \in MemAt \cup IoAt -> [c EXCEPT !.ph = "access"]
    [] OTHER -> [pc |-> c.pc + 1, ph |-> "idle"]

Advance(c) ==
  CASE c.ph = "idle" -> [c EXCEPT !.ph = "fetch1"]
    [] c.ph = "fetch1" -> [c EXCEPT !.ph = "fetch2"]
    [] c.ph = "fetch2" -> [c EXCEPT !.ph = "refresh"]
    [] c.ph = "refresh" /\ c.pc \in MemAt \cup IoAt -> [c EXCEPT !.ph = "access"]
    [] OTHER -> [pc |-> (c.pc + 1) % (LastAddr + 1), ph |-> "idle"]

Ticked(p, c) ==
  LET q == probe_tick(p, c)
  IN  [q EXCEPT !.fresh = IF q.hit # p.hit /\ q.hit.kind = "fetch" THEN FALSE
                          ELSE @ \/ c.ph = "idle"]

(* The top of the loop while not paused: the lists reach the probe, and the *)
(* frame begins.  The fast tier, which does not tick the probe, is only     *)
(* taken with nothing armed or pending, where a tick would change nothing.  *)
FrameStart ==
  /\ loop = "top" /\ ~paused
  /\ probe' = sync_probe(probe)
  /\ loop' = "frame"
  /\ UNCHANGED <<cpu, z80, paused, auto, ipc, edits>> /\ UNCHANGED hostVars

Tick ==
  /\ loop = "frame"
  /\ cpu' = Advance(cpu)
  /\ probe' = Ticked(probe, cpu')
  /\ loop' = IF ProbeArmed(probe) /\ probe'.hit.kind # "none" THEN "sync" ELSE "frame"
  /\ UNCHANGED <<z80, paused, auto, ipc, edits>> /\ UNCHANGED hostVars

(* The raster's frame is over, wherever the guest is. *)
FrameEnd ==
  /\ loop = "frame"
  /\ loop' = "sync"
  /\ UNCHANGED <<cpu, probe, z80, paused, auto, ipc, edits>> /\ UNCHANGED hostVars

(* Each entry at the address counts a hit if its condition holds, up to the *)
(* first that fires; none at the address, the entry having been deleted     *)
(* since the frame began, means stop.                                       *)
Holds(b, t) == ~b.cond \/ t
Trips(b, t) == Holds(b, t) /\ (b.pass = 0 \/ b.hits + 1 >= b.pass)

BpsAt(a) == {i \in DOMAIN bps : bps[i].addr = a}
Firing(a, t) == {i \in BpsAt(a) : Trips(bps[i], t)}
watch_should_break(a, t) ==
  (\A b \in MemAt : wps[b] = "off") \/ wps[a] = "on" \/ (wps[a] = "cond" /\ t)

remove_ephemeral(s) == Kept(s, {i \in DOMAIN s : ~s[i].eph})

(* The end of an iteration that stopped nothing: a spent break_point is     *)
(* armed again, and the autotype may take its turn.                         *)
Completed ==
  /\ z80' = [z80 EXCEPT !.break_point = IF @ = BpNone THEN 0 ELSE @]
  /\ UNCHANGED <<paused, ipc>>
  /\ \/ UNCHANGED auto
     \/ /\ auto.q = "queued"
        /\ auto' = IF auto.latch THEN [q |-> "empty", latch |-> FALSE]
                   ELSE [auto EXCEPT !.q = "blocked"]

(* EC_BREAKPOINT: the reached flag, which nothing clears, sends it to the   *)
(* pause; without it, it is the WAITBREAK's.                                *)
Stopped(reached) ==
  IF reached
  THEN paused' = TRUE /\ UNCHANGED auto
  ELSE /\ z80' = [z80 EXCEPT !.break_point = BpNone]
       /\ auto' = [q |-> IF auto.q = "blocked" THEN "empty" ELSE auto.q, latch |-> TRUE]
       /\ UNCHANGED paused

(* subcycle_bridge_debug_sync and what the loop makes of its answer. *)
NoHitSync ==
  /\ probe.hit.kind = "none"
  /\ probe' = sync_probe(probe)
  /\ bps' = bps
  /\ Completed

WaitbreakHit ==
  /\ probe.hit.kind = "fetch" /\ probe.hit.addr = z80.break_point
  /\ BpsAt(probe.hit.addr) = {}
  /\ probe' = probe_ack(sync_probe(probe))
  /\ Stopped(z80.reached)
  /\ IF z80.reached THEN UNCHANGED z80 ELSE TRUE
  /\ UNCHANGED <<bps, ipc>>

ListedHit(t) ==
  LET a == probe.hit.addr
      exec_should_break == BpsAt(a) = {} \/ Firing(a, t) # {}
      Judge ==
        CASE probe.hit.kind = "fetch" -> exec_should_break
          [] probe.hit.kind = "mem" -> watch_should_break(a, t)
          [] OTHER -> TRUE
      counts(i) == i \in BpsAt(a) /\ Holds(bps[i], t) /\ ~\E j \in Firing(a, t) : j < i
      Counted ==
        [i \in DOMAIN bps |->
           IF counts(i) THEN [bps[i] EXCEPT !.hits = IF @ < 2 THEN @ + 1 ELSE @] ELSE bps[i]]
  IN
  /\ probe.hit.kind # "none"
  /\ ~(probe.hit.kind = "fetch" /\ probe.hit.addr = z80.break_point
       /\ BpsAt(probe.hit.addr) = {})
  /\ probe' = probe_ack(sync_probe(probe))
  /\ LET counted == IF probe.hit.kind = "fetch" THEN Counted ELSE bps
     IN IF Judge
        THEN /\ bps' = remove_ephemeral(counted)
             /\ z80' = [z80 EXCEPT !.reached = TRUE]
             /\ ipc' = [ipc EXCEPT !.hit = TRUE]
             /\ Stopped(TRUE)
        ELSE bps' = counted /\ Completed

DebugSync ==
  /\ loop = "sync"
  /\ loop' = "top"
  /\ NoHitSync \/ WaitbreakHit \/ (\E t \in BOOLEAN : ListedHit(t))
  /\ UNCHANGED <<wps, ios, cpu, edits>>

-----------------------------------------------------------------------------
(* Stepping and waiting. *)

Pause ==
  /\ Edit /\ ~paused /\ paused' = TRUE
  /\ UNCHANGED <<cpu, probe, z80, loop, auto, ipc>> /\ UNCHANGED hostVars

Resume ==
  /\ paused /\ paused' = FALSE
  /\ UNCHANGED <<cpu, probe, z80, loop, auto, ipc, edits>> /\ UNCHANGED hostVars

(* step_instruction ticks the whole board, the probe included, until one    *)
(* instruction has completed.                                               *)
TickBoard(s) == [c |-> Advance(s.c), p |-> Ticked(s.p, Advance(s.c))]
TickOn(s) == IF s.c.ph = "idle" THEN s ELSE TickBoard(s)
ToIdle == TickOn(TickOn(TickOn(TickOn(TickBoard([c |-> cpu, p |-> probe])))))

step_instruction ==
  /\ Edit /\ paused /\ loop = "top" /\ ipc.pc = "idle"
  /\ cpu' = ToIdle.c /\ probe' = ToIdle.p
  /\ UNCHANGED <<z80, loop, paused, auto, ipc>> /\ UNCHANGED hostVars

(* step over a call, and step to: an ephemeral breakpoint, and run.  A hit  *)
(* left over from earlier is consumed first.                                *)
StepTo(a) ==
  /\ Edit /\ paused /\ loop = "top" /\ ipc.pc = "idle" /\ Len(bps) < MaxList
  /\ bps' = Append(bps, Bp(a, TRUE, FALSE, 0))
  /\ ipc' = [pc |-> "to", hit |-> FALSE]
  /\ paused' = FALSE
  /\ UNCHANGED <<wps, ios, cpu, probe, z80, loop, auto>>

WaitBp ==
  /\ Edit /\ ipc.pc = "idle" /\ ipc' = [ipc EXCEPT !.pc = "bp"]
  /\ UNCHANGED <<cpu, probe, z80, loop, paused, auto>> /\ UNCHANGED hostVars

(* The poll sees the hit, or the five seconds are over; step over and step  *)
(* to pause the machine either way, and leave the ephemeral to be hit.      *)
WaitOver ==
  /\ ipc.pc # "idle"
  /\ ipc' = [pc |-> "idle", hit |-> FALSE]
  /\ paused' = (paused \/ ipc.pc = "to")
  /\ UNCHANGED <<cpu, probe, z80, loop, auto, edits>> /\ UNCHANGED hostVars

(* WAITBREAK is queued behind text; a key press drops the latch. *)
EnqueueWaitbreak ==
  /\ Edit /\ auto.q = "empty"
  /\ auto' = [q |-> "queued", latch |-> FALSE]
  /\ UNCHANGED <<cpu, probe, z80, loop, paused, ipc>> /\ UNCHANGED hostVars

(* The IPC commands bp, wp and iobp. *)
ipc_bp ==
  \/ \E a \in Addr : z80_add_breakpoint(a) \/ z80_del_breakpoint({a})
  \/ \E a \in Addr, pass \in {0, 2} : z80_add_breakpoint_cond(a, TRUE, pass)
  \/ z80_del_breakpoint(Addr)

ipc_wp == \E a \in MemAt, w \in {"off", "on", "cond"} : z80_edit_watchpoint(a, w)

ipc_iobp == \E S \in SUBSET IoAt : z80_edit_io_breakpoint(S)

(* The Disassembly window: the gutter of a line takes its visible           *)
(* breakpoints away, with any ephemeral one there, or sets one; "Run to     *)
(* here" waits for nobody.                                                  *)
gutter_click(a) ==
  IF \E i \in DOMAIN bps : bps[i].addr = a /\ ~bps[i].eph
  THEN z80_del_breakpoint({a}) ELSE z80_add_breakpoint(a)

run_to_here(a) ==
  /\ Edit /\ Len(bps) < MaxList
  /\ bps' = Append(bps, Bp(a, TRUE, FALSE, 0)) /\ paused' = FALSE
  /\ UNCHANGED <<wps, ios, cpu, probe, z80, loop, auto, ipc>>

(* The Breakpoints window: the three Clear All and the quick entry; the X   *)
(* of a row; and the forms, where a pass count alone makes a breakpoint of  *)
(* its own.                                                                 *)
breakpoints_bar ==
  \/ z80_del_breakpoint(Addr) \/ z80_edit_io_breakpoint({})
  \/ Edit /\ wps' = [a \in MemAt |-> "off"] /\ UNCHANGED <<bps, ios>> /\ ListOnly
  \/ \E a \in Addr : z80_add_breakpoint(a)

breakpoints_rows ==
  \/ \E i \in DOMAIN bps : ~bps[i].eph /\ z80_del_breakpoint({bps[i].addr})
  \/ \E a \in MemAt : wps[a] # "off" /\ z80_edit_watchpoint(a, "off")
  \/ \E p \in ios : z80_edit_io_breakpoint(ios \ {p})

breakpoints_forms ==
  \/ \E a \in Addr, cond \in BOOLEAN, pass \in {0, 2} :
       IF ~cond /\ pass = 0 THEN z80_add_breakpoint(a) ELSE z80_add_breakpoint_cond(a, cond, pass)
  \/ \E a \in MemAt : z80_edit_watchpoint(a, "on")
  \/ \E p \in IoAt : z80_edit_io_breakpoint(ios \cup {p})

debug_windows ==
  \/ \E a \in Addr : gutter_click(a) \/ run_to_here(a)
  \/ breakpoints_bar \/ breakpoints_rows \/ breakpoints_forms

ipc_step == step_instruction \/ (\E a \in Addr : StepTo(a))

Host ==
  \/ ipc_bp \/ ipc_wp \/ ipc_iobp \/ ipc_step \/ debug_windows
  \/ Pause \/ Resume \/ WaitBp \/ WaitOver \/ EnqueueWaitbreak

Z80Thread == FrameStart \/ Tick \/ FrameEnd \/ DebugSync

DebugNext == Host \/ Z80Thread

-----------------------------------------------------------------------------
(* A hit is a new fetch: between two exec hits the guest has completed the  *)
(* instruction of the first, so resuming at a breakpoint never re-trips it  *)
(* although its fetch is still on the bus (probe-device.md, "Edges, not     *)
(* levels").                                                                *)
NoRetrip ==
  [][probe'.hit.kind = "fetch" /\ probe.hit.kind = "none" => probe.fresh]_debugVars

(* A plain breakpoint on the guest's path owes a stop, whoever else edits,  *)
(* steps, waits or types: as long as it stays listed, fits the comparators  *)
(* and the machine is let run.                                              *)
Listed(a) == \E i \in BpsAt(a) : ~bps[i].cond /\ ~bps[i].eph
Fits == Len(bps) <= MaxExec

StopOwed == Fits /\ ~paused /\ \E a \in Addr : Listed(a)

=============================================================================
