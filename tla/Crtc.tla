-------------------------------- MODULE Crtc --------------------------------
(***************************************************************************)
(* The counters and sync outputs of the 6845 CRTC device, src/src/hw/      *)
(* crtc.cpp, as functions of its state c and its register file r: one      *)
(* character cycle, a register write, and the two closed forms the fast    *)
(* tier relies on (the event-free span of crtc_advance_view and the        *)
(* interrupt horizon).  Refresh address, display enable, Plus split and    *)
(* light pen do not feed back into the counters and are left out.          *)
(*                                                                         *)
(* The widths of the counters are constants: 256 characters, 32 raster     *)
(* lines, 128 rows and sync width 16 in the chip, smaller in a model.      *)
(***************************************************************************)
EXTENDS Integers

CONSTANTS CrtcType,   \* 0 HD6845S, 1 UM6845R, 2 MC6845, 3 AMS40489
          HccMod,     \* values of the 8-bit character counter
          RaMod,      \* values of the 5-bit raster counter, and of R5, R9
          VccMod,     \* values of the 7-bit row counter
          FullWidth,  \* the sync width 0 may stand for; values of a nibble of R3
          LineMod     \* values of the 16-bit frame line counter

ASSUME CrtcAssumption ==
  /\ CrtcType \in 0..3
  /\ HccMod \in Nat \ {0} /\ RaMod \in Nat \ {0} /\ VccMod \in Nat \ {0}
  /\ FullWidth \in Nat \ {0, 1} /\ LineMod \in Nat \ {0}

(* R3 is kept as its two nibbles: hw (HSYNC width) and vw (VSYNC width). *)
Registers ==
  [r0 : 0..(HccMod - 1), r2 : 0..(HccMod - 1),
   hw : 0..(FullWidth - 1), vw : 0..(FullWidth - 1),
   r4 : 0..(VccMod - 1), r5 : 0..(RaMod - 1),
   r7 : 0..(VccMod - 1), r9 : 0..(RaMod - 1)]

Counters ==
  [hcc : 0..(HccMod - 1), hsw : 0..FullWidth, inHsync : BOOLEAN,
   ra : 0..(RaMod - 1), vcc : 0..(VccMod - 1), vta : 0..(RaMod - 1),
   inVta : BOOLEAN, vsw : 0..FullWidth, inVsync : BOOLEAN,
   r7match : BOOLEAN, scanline : 0..(LineMod - 1)]

(* A running sync pulse has not reached the longest width. *)
WellFormed(c) ==
  /\ c \in Counters
  /\ c.inHsync => c.hsw < FullWidth
  /\ c.inVsync => c.vsw < FullWidth

(* crtc_reset *)
NoRegisters ==
  [r0 |-> 0, r2 |-> 0, hw |-> 0, vw |-> 0, r4 |-> 0, r5 |-> 0, r7 |-> 0, r9 |-> 0]
NoCounters ==
  [hcc |-> 0, hsw |-> 0, inHsync |-> FALSE, ra |-> 0, vcc |-> 0, vta |-> 0,
   inVta |-> FALSE, vsw |-> 0, inVsync |-> FALSE, r7match |-> FALSE, scanline |-> 0]

(* Width 0 is the full width on types 2 and 3, no HSYNC at all on 0 and 1. *)
HsyncWidth(r) == IF r.hw = 0 /\ CrtcType \in {2, 3} THEN FullWidth ELSE r.hw

(* Types 1 and 2 ignore the register. *)
VsyncWidth(r) == IF r.vw = 0 \/ CrtcType \in {1, 2} THEN FullWidth ELSE r.vw

-----------------------------------------------------------------------------
(* VSYNC starts when the row counter comes to equal R7, not while it does. *)
CheckVsyncStart(c, r) ==
  LET match == c.vcc = r.r7
      start == match /\ ~c.r7match /\ ~c.inVsync
  IN  [c EXCEPT !.inVsync = @ \/ start,
                !.vsw = IF start THEN 0 ELSE @,
                !.r7match = match]

NewFrame(c, r) ==
  CheckVsyncStart([c EXCEPT !.vcc = 0, !.ra = 0, !.inVta = FALSE, !.vta = 0,
                            !.scanline = 0], r)

(* Mutant: a row counter that stops at its last value. *)
NewRowSaturates(c, r) ==
  IF c.vcc = r.r4
    THEN IF r.r5 # 0 THEN [c EXCEPT !.inVta = TRUE, !.vta = 0] ELSE NewFrame(c, r)
    ELSE CheckVsyncStart([c EXCEPT !.vcc = IF @ = VccMod - 1 THEN @ ELSE @ + 1], r)

NewRow(c, r) ==
  IF c.vcc = r.r4
    THEN IF r.r5 # 0 THEN [c EXCEPT !.inVta = TRUE, !.vta = 0] ELSE NewFrame(c, r)
    ELSE CheckVsyncStart([c EXCEPT !.vcc = (@ + 1) % VccMod], r)

(* The VSYNC width counts scanlines. *)
CountVsync(c, r) ==
  IF c.inVsync
    THEN [c EXCEPT !.vsw = @ + 1, !.inVsync = c.vsw + 1 < VsyncWidth(r)]
    ELSE c

(* Vertical total adjust: R5 extra scanlines, then the frame restarts. *)
AdjustLine(c, r) ==
  IF c.vta + 1 >= r.r5 THEN NewFrame(c, r) ELSE [c EXCEPT !.vta = @ + 1]

(* Mutant: the raster counter is not cut to its width. *)
RasterLineUnmasked(c, r) ==
  IF c.ra = r.r9 THEN NewRow([c EXCEPT !.ra = 0], r) ELSE [c EXCEPT !.ra = @ + 1]

(* The last line of a row starts the next one; R9 below the running count  *)
(* lets the counter run round.                                             *)
RasterLine(c, r) ==
  IF c.ra = r.r9 THEN NewRow([c EXCEPT !.ra = 0], r)
                 ELSE [c EXCEPT !.ra = (@ + 1) % RaMod]

NewScanline(c, r) ==
  LET d == CountVsync([c EXCEPT !.scanline = (@ + 1) % LineMod], r)
  IN  IF d.inVta THEN AdjustLine(d, r) ELSE RasterLine(d, r)

(* HSYNC starts at character R2, also while one is running, and ends after *)
(* its width in characters.                                                *)
HsyncStep(c, r) ==
  IF c.hcc = r.r2 /\ HsyncWidth(r) # 0
    THEN [c EXCEPT !.inHsync = TRUE, !.hsw = 0]
    ELSE IF c.inHsync
      THEN [c EXCEPT !.hsw = @ + 1, !.inHsync = c.hsw + 1 < HsyncWidth(r)]
      ELSE c

(* One character: the line ends on equality with R0, so R0 below the       *)
(* running count lets the counter run round.                               *)
CrtcChar(c, r) ==
  LET d == HsyncStep(c, r)
  IN  IF d.hcc = r.r0 THEN NewScanline([d EXCEPT !.hcc = 0], r)
                      ELSE [d EXCEPT !.hcc = (@ + 1) % HccMod]

(* A write that stored register reg; R7 may start VSYNC at once. *)
AfterWrite(c, r, reg) == IF reg = "r7" THEN CheckVsyncStart(c, r) ELSE c

-----------------------------------------------------------------------------
Smaller(m, n) == IF m < n THEN m ELSE n

(* Mutant: the span runs over the start of HSYNC. *)
SpanOverHsync(c, r) == IF ~c.inHsync /\ c.hcc < r.r0 THEN r.r0 - c.hcc ELSE 0

(* crtc_advance_view: so many characters only count HCC up. *)
Span(c, r) ==
  IF ~c.inHsync /\ c.hcc < r.r0
    THEN IF HsyncWidth(r) # 0 /\ c.hcc <= r.r2 /\ r.r2 <= r.r0
           THEN Smaller(r.r2 - c.hcc, r.r0 - c.hcc)
           ELSE r.r0 - c.hcc
    ELSE 0

(* Mutant: the fall of an HSYNC that has yet to start is one character late. *)
HorizonLate(c, r) ==
  LET line == r.r0 - c.hcc + 1
      width == HsyncWidth(r)
  IN  IF c.hcc > r.r0 THEN 1
      ELSE IF c.inHsync /\ width # 0
        THEN Smaller(IF c.hsw >= width THEN 1 ELSE width - c.hsw, line)
      ELSE IF c.hcc <= r.r2 /\ r.r2 <= r.r0 /\ width # 0
        THEN Smaller(r.r2 - c.hcc + 2 + width, line)
      ELSE line

(* crtc_irq_horizon_chars: the last of so many characters is the first one *)
(* that may end an HSYNC or a scanline.                                    *)
Horizon(c, r) ==
  LET line == r.r0 - c.hcc + 1
      width == HsyncWidth(r)
  IN  IF c.hcc > r.r0 THEN 1
      ELSE IF c.inHsync /\ width # 0
        THEN Smaller(IF c.hsw >= width THEN 1 ELSE width - c.hsw, line)
      ELSE IF c.hcc <= r.r2 /\ r.r2 <= r.r0 /\ width # 0
        THEN Smaller(r.r2 - c.hcc + 1 + width, line)
      ELSE line
=============================================================================
