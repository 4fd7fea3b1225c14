------------------------------ MODULE RasterIrq ------------------------------
(***************************************************************************)
(* The raster interrupt path of the machine: CRTC, Gate Array and the      *)
(* Plus ASIC's programmable raster interrupt (PRI), run by two schedulers  *)
(* at once.  The per-cycle tiers tick the Gate Array with the sync levels; *)
(* the fast tier (src/src/subcycle/machine.cpp, run_frame_fast) hands it   *)
(* edges, and polls the interrupt line only when a cached poll has run     *)
(* out.  One step of time is one CRTC character (a microsecond).           *)
(*                                                                         *)
(* The fast tier's own CRTC lags behind and is caught up before anything   *)
(* reads or writes it, so one CRTC serves both schedulers here; what is    *)
(* compared is what the CPU would be told at each character.               *)
(***************************************************************************)
EXTENDS Crtc, GateArray

CONSTANTS Plus,       \* whether the ASIC is plugged
          BootRegs,   \* the register file at the start
          BootMode,   \* the power-on screen mode
          Vals,       \* values a program writes, per CRTC register
          PriLines,   \* values it writes to the ASIC's &6800
          MaxWrites   \* bound: how many CRTC registers are written

ASSUME RasterAssumption ==
  /\ Plus \in BOOLEAN
  /\ BootRegs \in Registers /\ BootMode \in Modes
  /\ Vals \in [r0 : SUBSET (0..(HccMod - 1)), r2 : SUBSET (0..(HccMod - 1)),
               hw : SUBSET (0..(FullWidth - 1)), vw : SUBSET (0..(FullWidth - 1)),
               r4 : SUBSET (0..(VccMod - 1)), r5 : SUBSET (0..(RaMod - 1)),
               r7 : SUBSET (0..(VccMod - 1)), r9 : SUBSET (0..(RaMod - 1))]
  /\ PriLines \subseteq 0..(LineMod - 1)
  /\ MaxWrites \in Nat

VARIABLES
  reg,     \* the CRTC's register file
  crtc,    \* its counters
  ga,      \* the Gate Array as the per-cycle tick leaves it
  fga,     \* the Gate Array as the batch calls leave it
  asic,    \* the ASIC's PRI: pri_line, pri_prev_line, pri_pending
  cache,   \* fs_irq_cache_
  left,    \* characters the cached poll is still good for; -1: it has run out
  gap,     \* HSYNCs ended since the Gate Array last raised INT, up to Half
  writes   \* CRTC writes so far

vars == <<reg, crtc, ga, fga, asic, cache, left, gap, writes>>

Asics == [pri : 0..(LineMod - 1), prev : 0..(LineMod - 1), pending : BOOLEAN]

TypeOK ==
  /\ reg \in Registers
  /\ WellFormed(crtc)
  /\ ga \in GateArrays /\ fga \in GateArrays
  /\ asic \in Asics
  /\ cache \in BOOLEAN
  /\ left \in -1..(HccMod - 1)
  /\ gap \in 0..Half
  /\ writes \in 0..MaxWrites

(* A programmed machine, as a snapshot load leaves it after the reset and   *)
(* the replay of the register file, before its first poll; R7 = 0 has       *)
(* started a VSYNC.                                                         *)
Init ==
  /\ reg = BootRegs
  /\ crtc = CheckVsyncStart(NoCounters, BootRegs)
  /\ ga = GaTick(GaReset(BootMode), FALSE, crtc.inVsync, TRUE) /\ fga = ga
  /\ asic = [pri |-> 0, prev |-> 0, pending |-> FALSE]
  /\ cache = FALSE /\ left = -1
  /\ gap = Half /\ writes = 0

(* asic_irq and asic_batch_frame_line: PRI fires as its line is reached. *)
FrameLine(a, line) ==
  [a EXCEPT !.pending = @ \/ (a.pri # 0 /\ line = a.pri /\ a.prev # line),
            !.prev = line]

(* A PRI line takes the interrupt from the Gate Array. *)
GaOwns == ~(Plus /\ asic.pri # 0)

(* The wired-OR the CPU samples: fs_irq. *)
Irq == fga.irq \/ (Plus /\ asic.pending)

(* Mutant: HSYNC is handed over before VSYNC. *)
BatchHsyncFirst(g, c, d, owns) ==
  LET h == IF d.inHsync /\ ~c.inHsync THEN BatchHsyncRise(g)
           ELSE IF ~d.inHsync /\ c.inHsync THEN BatchHsyncFall(g, owns) ELSE g
  IN  IF d.inVsync /\ ~c.inVsync THEN BatchVsyncRise(h) ELSE h

(* apply_view: the edges between c and d, VSYNC before HSYNC. *)
Batch(g, c, d, owns) ==
  LET v == IF d.inVsync /\ ~c.inVsync THEN BatchVsyncRise(g) ELSE g
  IN  IF d.inHsync /\ ~c.inHsync THEN BatchHsyncRise(v)
      ELSE IF ~d.inHsync /\ c.inHsync THEN BatchHsyncFall(v, owns) ELSE v

(* What one character does to CRTC, Gate Array and ASIC. *)
Advance(ack) ==
  /\ crtc' = CrtcChar(crtc, reg)
  /\ LET g == GaTick(ga, crtc'.inHsync, crtc'.inVsync, GaOwns)
         f == Batch(fga, crtc, crtc', GaOwns)
         a == FrameLine(asic, crtc'.scanline)
     IN  /\ ga' = IF ack THEN IntAck(g) ELSE g
         /\ fga' = IF ack THEN IntAck(f) ELSE f
         /\ asic' = IF ack THEN [a EXCEPT !.pending = FALSE] ELSE a
         /\ gap' = IF g.irq /\ ~ga.irq THEN 0
                   ELSE IF crtc.inHsync /\ ~crtc'.inHsync THEN Smaller(gap + 1, Half)
                   ELSE gap

Char ==
  /\ Advance(FALSE)
  /\ left' = IF left >= 0 THEN left - 1 ELSE -1
  /\ UNCHANGED <<reg, cache, writes>>

(* run_frame_fast, an instruction boundary past the cached poll. *)
Poll ==
  /\ left < 0
  /\ cache' = Irq
  /\ left' = Horizon(crtc, reg) - 1
  /\ UNCHANGED <<reg, crtc, ga, fga, asic, gap, writes>>

(* The entry of run_frame_fast: a poll that is good for no character. *)
EnterFrame ==
  /\ cache' = Irq /\ left' = 0
  /\ UNCHANGED <<reg, crtc, ga, fga, asic, gap, writes>>

(* The CPU takes the interrupt it was told of; the acknowledge falls in    *)
(* the next character.                                                     *)
Acknowledge ==
  /\ left >= 0 /\ cache
  /\ Advance(TRUE)
  /\ left' = -1
  /\ UNCHANGED <<reg, cache, writes>>

(* A CRTC register is written, between two characters; only R7 moves a     *)
(* line, VSYNC, at once.  A write voids the cached poll.                   *)
Store(r, name) ==
  /\ writes < MaxWrites
  /\ reg' = r
  /\ crtc' = AfterWrite(crtc, r, name)
  /\ ga' = GaTick(ga, crtc'.inHsync, crtc'.inVsync, GaOwns)
  /\ fga' = IF crtc'.inVsync /\ ~crtc.inVsync THEN BatchVsyncRise(fga) ELSE fga
  /\ left' = -1
  /\ writes' = writes + 1
  /\ UNCHANGED <<asic, cache, gap>>

CrtcWrite ==
  \/ \E v \in Vals.r0 : Store([reg EXCEPT !.r0 = v], "r0")
  \/ \E v \in Vals.r2 : Store([reg EXCEPT !.r2 = v], "r2")
  \/ \E v \in Vals.hw, w \in Vals.vw : Store([reg EXCEPT !.hw = v, !.vw = w], "r3")
  \/ \E v \in Vals.r4 : Store([reg EXCEPT !.r4 = v], "r4")
  \/ \E v \in Vals.r5 : Store([reg EXCEPT !.r5 = v], "r5")
  \/ \E v \in Vals.r7 : Store([reg EXCEPT !.r7 = v], "r7")
  \/ \E v \in Vals.r9 : Store([reg EXCEPT !.r9 = v], "r9")

(* The program sets the screen mode, with or without the rearm bit. *)
GaWrite ==
  \E m \in Modes, rearm \in BOOLEAN :
    /\ ga' = WriteMode(ga, m, rearm) /\ fga' = WriteMode(fga, m, rearm)
    /\ left' = -1
    /\ UNCHANGED <<reg, crtc, asic, cache, gap, writes>>

(* The program sets the PRI line.  It is a memory write: the cached poll   *)
(* stays.                                                                  *)
PriWrite ==
  /\ Plus
  /\ \E v \in PriLines : asic' = [asic EXCEPT !.pri = v]
  /\ UNCHANGED <<reg, crtc, ga, fga, cache, left, gap, writes>>

(* Any other I/O write, and a HALT, void the cached poll. *)
VoidPoll ==
  /\ left' = -1
  /\ UNCHANGED <<reg, crtc, ga, fga, asic, cache, gap, writes>>

(* A reset between two frames; the ASIC's PRI line persists. *)
Reset ==
  /\ reg' = NoRegisters /\ crtc' = NoCounters
  /\ ga' = GaReset(BootMode) /\ fga' = GaReset(BootMode)
  /\ asic' = [asic EXCEPT !.prev = LineMod - 1, !.pending = FALSE]
  /\ left' = -1
  /\ gap' = Half
  /\ UNCHANGED <<cache, writes>>

Next ==
  Char \/ Poll \/ EnterFrame \/ Acknowledge \/ CrtcWrite \/ GaWrite
       \/ PriWrite \/ VoidPoll \/ Reset

(* The character clock never stops. *)
Spec == Init /\ [][Next]_vars /\ WF_vars(Char)

-----------------------------------------------------------------------------
(* What the CPU is told from the cached poll is what the interrupt line     *)
(* says at that character: the horizon of crtc_irq_horizon_chars covers     *)
(* every event of the interrupt path, and every off-schedule event voids    *)
(* the poll.                                                                *)
CacheIsFresh == left >= 0 => cache = Irq

(* What it takes on CRTC types 0 and 1: the program never gives a running  *)
(* HSYNC the width zero, which ends it at the next character, unforeseen   *)
(* by the horizon.                                                         *)
NoZeroWidth == CrtcType \in {2, 3} \/ 0 \notin Vals.hw

(* The two ways to drive the Gate Array agree, whatever edges fall together *)
(* in a character, and at every character the batch state can be handed     *)
(* over to the per-cycle tick.                                              *)
TiersAgree == ga = BatchSetSync(fga, crtc.inHsync, crtc.inVsync)

(* Inside the closed-form span of crtc_advance_view a character does        *)
(* nothing but count HCC, and the span gets one shorter.                    *)
SpanIsExact ==
  Span(crtc, reg) > 0 =>
    LET next == CrtcChar(crtc, reg)
    IN  /\ next = [crtc EXCEPT !.hcc = @ + 1]
        /\ Span(next, reg) = Span(crtc, reg) - 1

(* Two interrupts of the Gate Array are at least Half lines apart, whatever *)
(* acknowledges, rearms and VSYNC resyncs come between.                     *)
InterruptsApart == [][~ga.irq /\ ga'.irq => gap + 1 >= Half]_vars

(* Once the program leaves the CRTC alone, the frame starts over and over,  *)
(* even from a row or raster count beyond the registers it is compared to.  *)
FrameRestarts == []<>(crtc.vcc = 0 /\ crtc.ra = 0 /\ crtc.scanline = 0)
=============================================================================
