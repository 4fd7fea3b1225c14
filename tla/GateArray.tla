------------------------------ MODULE GateArray ------------------------------
(***************************************************************************)
(* The raster interrupt and mode latch of the Gate Array, src/src/hw/      *)
(* gate_array.cpp, as functions of its state g: the per-cycle tick, which  *)
(* finds the sync edges by comparing levels, the batch calls of the fast   *)
(* tier, which are handed the edges, and what the CPU does to it.  Clock   *)
(* phase, inks and memory configuration are left out.                      *)
(*                                                                         *)
(* In the chip SlMod = 64, Period = 52 and Half = 32: bit 5 of the counter *)
(* is both the save margin of the VSYNC resync and the bit an acknowledge  *)
(* clears.                                                                 *)
(***************************************************************************)
EXTENDS Integers

CONSTANTS SlMod,   \* values of the line counter
          Period,  \* lines between two raster interrupts
          Half,    \* value of the counter's highest bit
          Modes    \* screen modes

ASSUME GaAssumption ==
  /\ SlMod \in Nat /\ Period \in Nat /\ Half \in Nat
  /\ 0 < Half /\ Half <= Period /\ Period < SlMod /\ SlMod = 2 * Half
  /\ Modes # {}

GateArrays ==
  [sl : 0..(Period - 1), hs : 0..2, irq : BOOLEAN, mode : Modes, req : Modes,
   hsPrev : BOOLEAN, vsPrev : BOOLEAN]

(* ga_reset; mode m is the power-on mode. *)
GaReset(m) ==
  [sl |-> 0, hs |-> 0, irq |-> FALSE, mode |-> m, req |-> m,
   hsPrev |-> FALSE, vsPrev |-> FALSE]

(* Mutant of RasterCount: the resync fires whatever the counter says. *)
RasterCountNoMargin(g, owns) ==
  LET n == (g.sl + 1) % SlMod
      due == n = Period
      resync == g.hs = 1
  IN  [g EXCEPT !.sl = IF due \/ resync THEN 0 ELSE n,
                !.hs = IF @ > 0 THEN @ - 1 ELSE 0,
                !.irq = @ \/ (owns /\ (due \/ resync))]

(* ga_raster_count: an HSYNC has ended.  The interrupt falls due after     *)
(* Period lines, or at the second line of a VSYNC when at least Half lines *)
(* went by; the counter runs on when the ASIC owns the interrupt.          *)
RasterCount(g, owns) ==
  LET n == (g.sl + 1) % SlMod
      due == n = Period
      sl == IF due THEN 0 ELSE n
      resync == g.hs = 1
  IN  [g EXCEPT !.sl = IF resync THEN 0 ELSE sl,
                !.hs = IF @ > 0 THEN @ - 1 ELSE 0,
                !.irq = @ \/ (owns /\ (due \/ (resync /\ sl >= Half)))]

(* ga_tick: VSYNC arms the resync before the line is counted. *)
GaTick(g, hsync, vsync, owns) ==
  LET d == [g EXCEPT !.mode = IF hsync /\ ~g.hsPrev THEN g.req ELSE @,
                     !.hs = IF vsync /\ ~g.vsPrev THEN 2 ELSE @,
                     !.hsPrev = hsync, !.vsPrev = vsync]
  IN  IF ~hsync /\ g.hsPrev THEN RasterCount(d, owns) ELSE d

(* The calls of the fast tier, one per edge. *)
BatchVsyncRise(g) == [g EXCEPT !.hs = 2]
BatchHsyncRise(g) == [g EXCEPT !.mode = g.req]
BatchHsyncFall(g, owns) == RasterCount(g, owns)

(* The end of a batch hands the sync levels over to the per-cycle tick. *)
BatchSetSync(g, hsync, vsync) == [g EXCEPT !.hsPrev = hsync, !.vsPrev = vsync]

(* The CPU's acknowledge clears the line and the counter's highest bit. *)
IntAck(g) == [g EXCEPT !.sl = @ % Half, !.irq = FALSE]

(* ga_write, function 2: screen mode, and the rearm bit. *)
WriteMode(g, m, rearm) ==
  [g EXCEPT !.req = m,
            !.sl = IF rearm THEN 0 ELSE @,
            !.irq = @ /\ ~rearm]
=============================================================================
