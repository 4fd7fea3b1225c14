--------------------------- MODULE RasterIrqProofs ---------------------------
(***************************************************************************)
(* Proofs about RasterIrq, for counters of any width, any register values, *)
(* any interrupt period and any number of register writes.                 *)
(***************************************************************************)
EXTENDS RasterIrq, TLAPS

USE CrtcAssumption, GaAssumption, RasterAssumption

-----------------------------------------------------------------------------
(* Both sync widths are at most the full width, and VSYNC always ends. *)
LEMMA Widths ==
  ASSUME NEW r \in Registers
  PROVE  HsyncWidth(r) \in 0..FullWidth /\ VsyncWidth(r) \in 1..FullWidth
  BY DEF Registers, HsyncWidth, VsyncWidth

(* The values every counter takes at a reset are in range. *)
LEMMA Zeros ==
  /\ 0 \in 0..(RaMod - 1) /\ 0 \in 0..(VccMod - 1) /\ 0 \in 0..(LineMod - 1)
  /\ 0 \in 0..(HccMod - 1) /\ 0 \in 0..FullWidth /\ 0 < FullWidth
  OBVIOUS

(* The VSYNC check keeps the counters in range. *)
LEMMA CheckWellFormed ==
  ASSUME NEW c, WellFormed(c), NEW r \in Registers
  PROVE  WellFormed(CheckVsyncStart(c, r))
<1> DEFINE match == c.vcc = r.r7
           start == match /\ ~c.r7match /\ ~c.inVsync
<1>1. match \in BOOLEAN
  OBVIOUS
<1>2. CASE start
  <2>1. CheckVsyncStart(c, r) = [c EXCEPT !.inVsync = TRUE, !.vsw = 0, !.r7match = match]
    BY <1>2, Zenon DEF CheckVsyncStart
  <2> HIDE DEF match
  <2>2. QED
    BY <2>1, <1>1, Zeros, Zenon DEF WellFormed, Counters
<1>3. CASE ~start
  <2>1. CheckVsyncStart(c, r) = [c EXCEPT !.r7match = match]
    BY <1>3, Zenon DEF CheckVsyncStart, WellFormed, Counters
  <2> HIDE DEF match
  <2>2. QED
    BY <2>1, <1>1, Zenon DEF WellFormed, Counters
<1>4. QED
  BY <1>2, <1>3

(* A new frame starts in range. *)
LEMMA NewFrameWellFormed ==
  ASSUME NEW c, WellFormed(c), NEW r \in Registers
  PROVE  WellFormed(NewFrame(c, r))
<1> DEFINE d == [c EXCEPT !.vcc = 0, !.ra = 0, !.inVta = FALSE, !.vta = 0,
                          !.scanline = 0]
<1>1. WellFormed(d)
  BY Zeros, Zenon DEF WellFormed, Counters
<1>2. QED
  BY <1>1, CheckWellFormed DEF NewFrame

(* So does a new row, whose counter wraps. *)
LEMMA NewRowWellFormed ==
  ASSUME NEW c, WellFormed(c), NEW r \in Registers
  PROVE  WellFormed(NewRow(c, r))
<1>1. WellFormed([c EXCEPT !.inVta = TRUE, !.vta = 0])
  BY Zeros, Zenon DEF WellFormed, Counters
<1>2. WellFormed([c EXCEPT !.vcc = (@ + 1) % VccMod])
  <2>1. (c.vcc + 1) % VccMod \in 0..(VccMod - 1)
    BY DEF WellFormed, Counters
  <2>2. QED
    BY <2>1 DEF WellFormed, Counters
<1>3. QED
  BY <1>1, <1>2, CheckWellFormed, NewFrameWellFormed DEF NewRow

(* A VSYNC that goes on has not reached its width. *)
LEMMA CountVsyncWellFormed ==
  ASSUME NEW c, WellFormed(c), NEW r \in Registers
  PROVE  WellFormed(CountVsync(c, r))
<1>1. CASE c.inVsync
  <2> DEFINE n == c.vsw + 1
             on == n < VsyncWidth(r)
  <2>1. n \in 0..FullWidth /\ (on => n < FullWidth)
    BY <1>1, Widths DEF WellFormed, Counters
  <2>2. on \in BOOLEAN
    OBVIOUS
  <2>3. CountVsync(c, r) = [c EXCEPT !.vsw = n, !.inVsync = on]
    BY <1>1 DEF CountVsync
  <2> HIDE DEF n, on
  <2>4. QED
    BY <2>1, <2>2, <2>3, Zenon DEF WellFormed, Counters
<1>2. CASE ~c.inVsync
  BY <1>2 DEF CountVsync
<1>3. QED
  BY <1>1, <1>2

(* The end of a scanline keeps the counters in range. *)
LEMMA NewScanlineWellFormed ==
  ASSUME NEW c, WellFormed(c), NEW r \in Registers
  PROVE  WellFormed(NewScanline(c, r))
<1> DEFINE a == [c EXCEPT !.scanline = (@ + 1) % LineMod]
           d == CountVsync(a, r)
<1>1. WellFormed(a)
  <2>1. (c.scanline + 1) % LineMod \in 0..(LineMod - 1)
    BY DEF WellFormed, Counters
  <2>2. QED
    BY <2>1 DEF WellFormed, Counters
<1>2. WellFormed(d)
  BY <1>1, CountVsyncWellFormed
<1> HIDE DEF a, d
<1>3. WellFormed(AdjustLine(d, r))
  <2>1. CASE d.vta + 1 >= r.r5
    BY <2>1, <1>2, NewFrameWellFormed DEF AdjustLine
  <2>2. CASE ~(d.vta + 1 >= r.r5)
    BY <2>2, <1>2 DEF AdjustLine, WellFormed, Counters, Registers
  <2>3. QED
    BY <2>1, <2>2
<1>4. WellFormed(RasterLine(d, r))
  <2>1. WellFormed([d EXCEPT !.ra = 0])
    BY <1>2 DEF WellFormed, Counters
  <2>2. (d.ra + 1) % RaMod \in 0..(RaMod - 1)
    BY <1>2 DEF WellFormed, Counters
  <2>3. WellFormed([d EXCEPT !.ra = (@ + 1) % RaMod])
    BY <1>2, <2>2 DEF WellFormed, Counters
  <2>4. QED
    BY <2>1, <2>3, NewRowWellFormed DEF RasterLine
<1>5. QED
  BY <1>3, <1>4 DEF NewScanline, a, d

(* HSYNC keeps the counters in range and the character counter as it is. *)
LEMMA HsyncStepWellFormed ==
  ASSUME NEW c, WellFormed(c), NEW r \in Registers
  PROVE  WellFormed(HsyncStep(c, r)) /\ HsyncStep(c, r).hcc = c.hcc
<1>1. CASE c.hcc = r.r2 /\ HsyncWidth(r) # 0
  BY <1>1, Zeros, Zenon DEF WellFormed, Counters, HsyncStep
<1>2. CASE ~(c.hcc = r.r2 /\ HsyncWidth(r) # 0) /\ c.inHsync
  <2> DEFINE n == c.hsw + 1
             on == n < HsyncWidth(r)
  <2>1. n \in 0..FullWidth /\ (on => n < FullWidth)
    BY <1>2, Widths DEF WellFormed, Counters
  <2>2. on \in BOOLEAN
    OBVIOUS
  <2>3. HsyncStep(c, r) = [c EXCEPT !.hsw = n, !.inHsync = on]
    BY <1>2 DEF HsyncStep
  <2> HIDE DEF n, on
  <2>4. QED
    BY <2>1, <2>2, <2>3, Zenon DEF WellFormed, Counters
<1>3. CASE ~(c.hcc = r.r2 /\ HsyncWidth(r) # 0) /\ ~c.inHsync
  BY <1>3 DEF HsyncStep
<1>4. QED
  BY <1>1, <1>2, <1>3

(* A character keeps the counters in range: the 8-, 5- and 7-bit wraps and  *)
(* the widths of the sync pulses hold them there whatever was written.      *)
LEMMA CharWellFormed ==
  ASSUME NEW c, WellFormed(c), NEW r \in Registers
  PROVE  WellFormed(CrtcChar(c, r))
<1> DEFINE d == HsyncStep(c, r)
<1>1. WellFormed(d)
  BY HsyncStepWellFormed
<1> HIDE DEF d
<1>2. WellFormed([d EXCEPT !.hcc = 0])
  BY <1>1 DEF WellFormed, Counters
<1>3. WellFormed([d EXCEPT !.hcc = (@ + 1) % HccMod])
  <2>1. (d.hcc + 1) % HccMod \in 0..(HccMod - 1)
    BY <1>1 DEF WellFormed, Counters
  <2>2. QED
    BY <1>1, <2>1 DEF WellFormed, Counters
<1>4. QED
  BY <1>2, <1>3, NewScanlineWellFormed DEF CrtcChar, d

-----------------------------------------------------------------------------
(* The horizon is at least one character, and at most a line. *)
LEMMA HorizonRange ==
  ASSUME NEW c, WellFormed(c), NEW r \in Registers
  PROVE  Horizon(c, r) \in 1..HccMod
  BY Widths DEF WellFormed, Counters, Registers, Horizon, Smaller

(* What crtc_irq_horizon_chars promises: short of the horizon a character   *)
(* ends no HSYNC and no scanline, moves no VSYNC, and brings the horizon    *)
(* one character nearer at most.  The exception is a running HSYNC whose    *)
(* width has been made zero.                                                *)
LEMMA QuietChar ==
  ASSUME NEW c, WellFormed(c), NEW r \in Registers,
         c.inHsync => HsyncWidth(r) # 0,
         Horizon(c, r) > 1
  PROVE  /\ c.inHsync => CrtcChar(c, r).inHsync
         /\ CrtcChar(c, r).scanline = c.scanline
         /\ CrtcChar(c, r).inVsync = c.inVsync
         /\ Horizon(CrtcChar(c, r), r) >= Horizon(c, r) - 1
<1> DEFINE w == HsyncWidth(r)
<1>1. w \in 0..FullWidth
  BY Widths
<1> HIDE DEF w
<1>2. c.hcc < r.r0
  BY <1>1 DEF WellFormed, Counters, Registers, Horizon, Smaller, w
<1>3. (c.hcc + 1) % HccMod = c.hcc + 1
  BY <1>2 DEF WellFormed, Counters, Registers
<1>4. CASE c.hcc = r.r2 /\ w # 0
  <2> DEFINE e == [c EXCEPT !.inHsync = TRUE, !.hsw = 0]
             d == [e EXCEPT !.hcc = c.hcc + 1]
  <2>1. CrtcChar(c, r) = d
    <3>1. HsyncStep(c, r) = e
      BY <1>4, Zenon DEF HsyncStep, w
    <3>2. e.hcc = c.hcc
      BY Zenon DEF WellFormed, Counters
    <3> HIDE DEF e
    <3>3. QED
      BY <1>2, <1>3, <3>1, <3>2 DEF CrtcChar, WellFormed, Counters, Registers
  <2>2. /\ d.inHsync /\ d.hsw = 0 /\ d.hcc = c.hcc + 1
        /\ d.scanline = c.scanline /\ d.inVsync = c.inVsync
    BY Zenon DEF WellFormed, Counters
  <2> HIDE DEF d
  <2>3. Horizon(d, r) >= Horizon(c, r) - 1
    BY <1>1, <1>2, <1>4, <2>2 DEF WellFormed, Counters, Registers, Horizon, Smaller, w
  <2>4. QED
    BY <2>1, <2>2, <2>3
<1>5. CASE ~(c.hcc = r.r2 /\ w # 0) /\ c.inHsync
  <2> DEFINE e == [c EXCEPT !.hsw = c.hsw + 1, !.inHsync = TRUE]
             d == [e EXCEPT !.hcc = c.hcc + 1]
  <2>1. c.hsw + 1 < w
    BY <1>1, <1>2, <1>5 DEF WellFormed, Counters, Registers, Horizon, Smaller, w
  <2>2. CrtcChar(c, r) = d
    <3>1. HsyncStep(c, r) = e
      BY <1>5, <2>1, Zenon DEF HsyncStep, w
    <3>2. e.hcc = c.hcc
      BY Zenon DEF WellFormed, Counters
    <3> HIDE DEF e
    <3>3. QED
      BY <1>2, <1>3, <3>1, <3>2 DEF CrtcChar, WellFormed, Counters, Registers
  <2>3. /\ d.inHsync /\ d.hsw = c.hsw + 1 /\ d.hcc = c.hcc + 1
        /\ d.scanline = c.scanline /\ d.inVsync = c.inVsync
    BY Zenon DEF WellFormed, Counters
  <2> HIDE DEF d
  <2>4. Horizon(d, r) >= Horizon(c, r) - 1
    BY <1>1, <1>2, <1>5, <2>1, <2>3
       DEF WellFormed, Counters, Registers, Horizon, Smaller, w
  <2>5. QED
    BY <2>2, <2>3, <2>4
<1>6. CASE ~(c.hcc = r.r2 /\ w # 0) /\ ~c.inHsync
  <2> DEFINE d == [c EXCEPT !.hcc = c.hcc + 1]
  <2>1. CrtcChar(c, r) = d
    BY <1>2, <1>3, <1>6 DEF CrtcChar, HsyncStep, WellFormed, Counters, Registers, w
  <2>2. /\ ~d.inHsync /\ d.hcc = c.hcc + 1
        /\ d.scanline = c.scanline /\ d.inVsync = c.inVsync
    BY <1>6, Zenon DEF WellFormed, Counters
  <2> HIDE DEF d
  <2>3. Horizon(d, r) >= Horizon(c, r) - 1
    BY <1>1, <1>2, <1>6, <2>2 DEF WellFormed, Counters, Registers, Horizon, Smaller, w
  <2>4. QED
    BY <1>6, <2>1, <2>2, <2>3
<1>7. QED
  BY <1>4, <1>5, <1>6

(* The closed-form span of crtc_advance_view, for every register file and   *)
(* every state of the counters.                                             *)
LEMMA SpanChar ==
  ASSUME NEW c, WellFormed(c), NEW r \in Registers, Span(c, r) > 0
  PROVE  /\ CrtcChar(c, r) = [c EXCEPT !.hcc = @ + 1]
         /\ Span(CrtcChar(c, r), r) = Span(c, r) - 1
<1> DEFINE d == [c EXCEPT !.hcc = @ + 1]
<1>1. /\ ~c.inHsync /\ c.hcc < r.r0 /\ ~(c.hcc = r.r2 /\ HsyncWidth(r) # 0)
  BY DEF WellFormed, Counters, Registers, Span, Smaller
<1>2. (c.hcc + 1) % HccMod = c.hcc + 1
  BY <1>1 DEF WellFormed, Counters, Registers
<1>3. CrtcChar(c, r) = d
  BY <1>1, <1>2 DEF CrtcChar, HsyncStep, WellFormed, Counters, Registers
<1>4. ~d.inHsync /\ d.hcc = c.hcc + 1
  BY <1>1, Zenon DEF WellFormed, Counters
<1> HIDE DEF d
<1>5. Span(d, r) = Span(c, r) - 1
  BY <1>1, <1>4 DEF WellFormed, Counters, Registers, Span, Smaller
<1>6. QED
  BY <1>3, <1>5 DEF d

-----------------------------------------------------------------------------
(* The Gate Array's counter runs below Period. *)
LEMMA CountInRange ==
  ASSUME NEW g \in GateArrays, NEW owns \in BOOLEAN
  PROVE  /\ RasterCount(g, owns) \in GateArrays
         /\ RasterCount(g, owns).sl \in {0, g.sl + 1}
         /\ RasterCount(g, owns).irq /\ ~g.irq =>
              /\ RasterCount(g, owns).sl = 0
              /\ g.sl + 1 >= Half
         /\ RasterCount(g, owns).hsPrev = g.hsPrev
         /\ RasterCount(g, owns).vsPrev = g.vsPrev
<1> DEFINE n == (g.sl + 1) % SlMod
           due == n = Period
           sl == IF due THEN 0 ELSE n
           resync == g.hs = 1
           newSl == IF resync THEN 0 ELSE sl
           newHs == IF g.hs > 0 THEN g.hs - 1 ELSE 0
           fire == owns /\ (due \/ (resync /\ sl >= Half))
           newIrq == g.irq \/ fire
<1>1. n = g.sl + 1
  BY DEF GateArrays
<1>2. /\ newSl \in 0..(Period - 1) /\ newHs \in 0..2
      /\ newSl \in {0, g.sl + 1}
      /\ fire => newSl = 0 /\ g.sl + 1 >= Half
  BY <1>1 DEF GateArrays
<1>3. newIrq \in BOOLEAN /\ (newIrq /\ ~g.irq => fire)
  BY Zenon DEF GateArrays
<1>4. RasterCount(g, owns) = [g EXCEPT !.sl = newSl, !.hs = newHs, !.irq = newIrq]
  BY DEF RasterCount
<1> HIDE DEF newSl, newHs, newIrq, fire
<1>5. QED
  BY <1>2, <1>3, <1>4, Zenon DEF GateArrays

(* Counting a line does not look at the sync levels. *)
LEMMA CountSetSync ==
  ASSUME NEW f \in GateArrays, NEW owns \in BOOLEAN,
         NEW h \in BOOLEAN, NEW v \in BOOLEAN
  PROVE  RasterCount(BatchSetSync(f, h, v), owns)
           = BatchSetSync(RasterCount(f, owns), h, v)
<1> DEFINE g == BatchSetSync(f, h, v)
<1>1. g.sl = f.sl /\ g.hs = f.hs /\ g.irq = f.irq
  BY Zenon DEF BatchSetSync, GateArrays
<1>2. QED
  BY <1>1, Zenon DEF BatchSetSync, RasterCount, GateArrays

(* A tick counts a line exactly at the end of an HSYNC; only then can it    *)
(* raise the interrupt, and then Half lines have been counted.              *)
LEMMA TickFacts ==
  ASSUME NEW g \in GateArrays, NEW owns \in BOOLEAN,
         NEW h \in BOOLEAN, NEW v \in BOOLEAN
  PROVE  /\ GaTick(g, h, v, owns) \in GateArrays
         /\ ~(g.hsPrev /\ ~h) => /\ GaTick(g, h, v, owns).irq = g.irq
                                 /\ GaTick(g, h, v, owns).sl = g.sl
         /\ g.hsPrev /\ ~h => GaTick(g, h, v, owns).sl \in {0, g.sl + 1}
         /\ GaTick(g, h, v, owns).irq /\ ~g.irq =>
              GaTick(g, h, v, owns).sl = 0 /\ g.sl + 1 >= Half
<1> DEFINE m == IF h /\ ~g.hsPrev THEN g.req ELSE g.mode
           n == IF v /\ ~g.vsPrev THEN 2 ELSE g.hs
           d == [g EXCEPT !.mode = m, !.hs = n, !.hsPrev = h, !.vsPrev = v]
<1>1. m \in Modes /\ n \in 0..2
  <2>1. 2 \in 0..2
    OBVIOUS
  <2>2. QED
    BY <2>1, Zenon DEF GateArrays
<1>2. GaTick(g, h, v, owns) = IF ~h /\ g.hsPrev THEN RasterCount(d, owns) ELSE d
  BY DEF GaTick
<1> HIDE DEF m, n
<1>3. d \in GateArrays /\ d.irq = g.irq /\ d.sl = g.sl
  BY <1>1, Zenon DEF GateArrays
<1> HIDE DEF d
<1>4. CASE ~h /\ g.hsPrev
  <2> DEFINE t == RasterCount(d, owns)
  <2>1. /\ t \in GateArrays /\ t.sl \in {0, d.sl + 1}
        /\ t.irq /\ ~d.irq => t.sl = 0 /\ d.sl + 1 >= Half
    BY <1>3, CountInRange
  <2>2. GaTick(g, h, v, owns) = t
    BY <1>2, <1>4
  <2> HIDE DEF t
  <2>3. QED
    BY <1>3, <1>4, <2>1, <2>2, Zenon
<1>5. CASE ~(~h /\ g.hsPrev)
  BY <1>2, <1>3, <1>5, Zenon
<1>6. QED
  BY <1>4, <1>5

(* Ticking a Gate Array that has seen the levels of c with those of d is    *)
(* handing it the edges between c and d.                                    *)
LEMMA TickIsBatch ==
  ASSUME NEW f \in GateArrays, NEW owns \in BOOLEAN,
         NEW c \in Counters, NEW d \in Counters
  PROVE  /\ GaTick(BatchSetSync(f, c.inHsync, c.inVsync), d.inHsync, d.inVsync, owns)
               = BatchSetSync(Batch(f, c, d, owns), d.inHsync, d.inVsync)
         /\ Batch(f, c, d, owns) \in GateArrays
<1> DEFINE g == BatchSetSync(f, c.inHsync, c.inVsync)
           e == [g EXCEPT !.mode = IF d.inHsync /\ ~g.hsPrev THEN g.req ELSE @,
                          !.hs = IF d.inVsync /\ ~g.vsPrev THEN 2 ELSE @,
                          !.hsPrev = d.inHsync, !.vsPrev = d.inVsync]
           v == IF d.inVsync /\ ~c.inVsync THEN BatchVsyncRise(f) ELSE f
           k == IF d.inHsync /\ ~c.inHsync THEN BatchHsyncRise(v) ELSE v
<1>1. c.inHsync \in BOOLEAN /\ c.inVsync \in BOOLEAN
      /\ d.inHsync \in BOOLEAN /\ d.inVsync \in BOOLEAN
  BY Zenon DEF Counters
<1>2. v \in GateArrays /\ k \in GateArrays
  <2>1. 2 \in 0..2
    OBVIOUS
  <2>2. v \in GateArrays
    BY <2>1, Zenon DEF GateArrays, BatchVsyncRise
  <2> HIDE DEF v
  <2>3. QED
    BY <2>2, Zenon DEF GateArrays, BatchHsyncRise
<1>3. /\ g.hsPrev = c.inHsync /\ g.vsPrev = c.inVsync
      /\ g.req = f.req /\ g.mode = f.mode /\ g.hs = f.hs
  BY Zenon DEF BatchSetSync, GateArrays
<1>4. e = BatchSetSync(k, d.inHsync, d.inVsync)
  <2>1. CASE d.inHsync /\ ~c.inHsync
    <3>1. CASE d.inVsync /\ ~c.inVsync
      BY <1>3, <2>1, <3>1, Zenon DEF BatchSetSync, BatchVsyncRise, BatchHsyncRise, GateArrays
    <3>2. CASE ~(d.inVsync /\ ~c.inVsync)
      BY <1>3, <2>1, <3>2, Zenon DEF BatchSetSync, BatchVsyncRise, BatchHsyncRise, GateArrays
    <3>3. QED
      BY <3>1, <3>2
  <2>2. CASE ~(d.inHsync /\ ~c.inHsync)
    <3>1. CASE d.inVsync /\ ~c.inVsync
      BY <1>3, <2>2, <3>1, Zenon DEF BatchSetSync, BatchVsyncRise, BatchHsyncRise, GateArrays
    <3>2. CASE ~(d.inVsync /\ ~c.inVsync)
      BY <1>3, <2>2, <3>2, Zenon DEF BatchSetSync, BatchVsyncRise, BatchHsyncRise, GateArrays
    <3>3. QED
      BY <3>1, <3>2
  <2>3. QED
    BY <2>1, <2>2
<1>5. GaTick(g, d.inHsync, d.inVsync, owns)
        = IF ~d.inHsync /\ g.hsPrev THEN RasterCount(e, owns) ELSE e
  BY DEF GaTick
<1>6. Batch(f, c, d, owns) = IF ~d.inHsync /\ c.inHsync THEN RasterCount(k, owns) ELSE k
  BY Zenon DEF Batch, BatchHsyncFall
<1> HIDE DEF g, e, v, k
<1>7. RasterCount(BatchSetSync(k, d.inHsync, d.inVsync), owns)
        = BatchSetSync(RasterCount(k, owns), d.inHsync, d.inVsync)
  BY <1>1, <1>2, CountSetSync
<1>8. RasterCount(k, owns) \in GateArrays
  BY <1>2, CountInRange
<1>9. QED
  BY <1>2, <1>3, <1>4, <1>5, <1>6, <1>7, <1>8, Zenon DEF g

(* Handing over the levels a Gate Array has already seen changes nothing. *)
LEMMA SetSyncSame ==
  ASSUME NEW g \in GateArrays
  PROVE  BatchSetSync(g, g.hsPrev, g.vsPrev) = g
  BY Zenon DEF BatchSetSync, GateArrays

(* An acknowledge, a mode write and a hand-over keep the Gate Array in      *)
(* range; an acknowledge does not look at the sync levels.                  *)
LEMMA AckAndWrite ==
  ASSUME NEW f \in GateArrays, NEW h \in BOOLEAN, NEW v \in BOOLEAN,
         NEW m \in Modes, NEW rearm \in BOOLEAN
  PROVE  /\ BatchSetSync(f, h, v) \in GateArrays
         /\ IntAck(f) \in GateArrays /\ WriteMode(f, m, rearm) \in GateArrays
         /\ IntAck(f).sl <= f.sl /\ WriteMode(f, m, rearm).sl <= f.sl
         /\ ~IntAck(f).irq /\ (WriteMode(f, m, rearm).irq => f.irq)
         /\ IntAck(BatchSetSync(f, h, v)) = BatchSetSync(IntAck(f), h, v)
<1> DEFINE a == f.sl % Half
           w == IF rearm THEN 0 ELSE f.sl
           q == f.irq /\ ~rearm
           g == BatchSetSync(f, h, v)
<1>1. a \in 0..(Period - 1) /\ w \in 0..(Period - 1) /\ a <= f.sl /\ w <= f.sl
  BY DEF GateArrays
<1>2. q \in BOOLEAN /\ (q => f.irq)
  BY Zenon DEF GateArrays
<1>3. g \in GateArrays /\ g.sl = f.sl /\ g.irq = f.irq
  BY Zenon DEF BatchSetSync, GateArrays
<1>4. IntAck(f) = [f EXCEPT !.sl = a, !.irq = FALSE]
      /\ IntAck(g) = [g EXCEPT !.sl = a, !.irq = FALSE]
  BY <1>3, Zenon DEF IntAck
<1>5. WriteMode(f, m, rearm) = [f EXCEPT !.req = m, !.sl = w, !.irq = q]
  BY <1>3, Zenon DEF WriteMode
<1> HIDE DEF a, w, q
<1>6. IntAck(f) \in GateArrays /\ IntAck(f).sl = a /\ ~IntAck(f).irq
      /\ WriteMode(f, m, rearm) \in GateArrays /\ WriteMode(f, m, rearm).sl = w
      /\ WriteMode(f, m, rearm).irq = q
  BY <1>1, <1>2, <1>4, <1>5, Zenon DEF GateArrays
<1>7. IntAck(g) = BatchSetSync(IntAck(f), h, v)
  BY <1>4, Zenon DEF BatchSetSync, GateArrays
<1>8. QED
  BY <1>1, <1>2, <1>3, <1>6, <1>7

(* Nor does a mode write. *)
LEMMA WriteSetSync ==
  ASSUME NEW f \in GateArrays, NEW h \in BOOLEAN, NEW v \in BOOLEAN,
         NEW m \in Modes, NEW rearm \in BOOLEAN
  PROVE  WriteMode(BatchSetSync(f, h, v), m, rearm)
           = BatchSetSync(WriteMode(f, m, rearm), h, v)
<1> DEFINE g == BatchSetSync(f, h, v)
           w == IF rearm THEN 0 ELSE f.sl
           q == f.irq /\ ~rearm
<1>1. g.sl = f.sl /\ g.irq = f.irq
  BY Zenon DEF BatchSetSync, GateArrays
<1>2. /\ WriteMode(f, m, rearm) = [f EXCEPT !.req = m, !.sl = w, !.irq = q]
      /\ WriteMode(g, m, rearm) = [g EXCEPT !.req = m, !.sl = w, !.irq = q]
  BY <1>1, Zenon DEF WriteMode
<1> HIDE DEF w, q
<1>3. QED
  BY <1>2, Zenon DEF BatchSetSync, GateArrays

-----------------------------------------------------------------------------
(* The ASIC has seen the line the CRTC is on, or has just been reset, when  *)
(* that line is the first and no PRI can be set on it.                      *)
LineSeen == asic.prev = crtc.scanline \/ crtc.scanline = 0

(* The line counter has not counted more lines than there were since the    *)
(* last interrupt.                                                          *)
GapInv == gap >= Half \/ gap >= ga.sl

RasterInv == TypeOK /\ TiersAgree /\ LineSeen /\ GapInv

(* What follows from the invariant wherever a step needs it. *)
LEMMA Seen ==
  ASSUME RasterInv
  PROVE  /\ reg \in Registers /\ WellFormed(crtc) /\ crtc \in Counters
         /\ ga \in GateArrays /\ fga \in GateArrays /\ asic \in Asics
         /\ GaOwns \in BOOLEAN
         /\ crtc.inHsync \in BOOLEAN /\ crtc.inVsync \in BOOLEAN
         /\ ga.hsPrev = crtc.inHsync /\ ga.vsPrev = crtc.inVsync
         /\ ga.irq = fga.irq
<1>1. reg \in Registers /\ WellFormed(crtc) /\ crtc \in Counters
      /\ ga \in GateArrays /\ fga \in GateArrays /\ asic \in Asics
  BY Zenon DEF RasterInv, TypeOK, WellFormed
<1>2. GaOwns \in BOOLEAN
  BY Zenon DEF GaOwns
<1>3. crtc.inHsync \in BOOLEAN /\ crtc.inVsync \in BOOLEAN
  BY <1>1, Zenon DEF Counters
<1>4. ga.hsPrev = crtc.inHsync /\ ga.vsPrev = crtc.inVsync /\ ga.irq = fga.irq
  BY <1>1, <1>3, Zenon DEF RasterInv, TiersAgree, BatchSetSync, GateArrays
<1>5. QED
  BY <1>1, <1>2, <1>3, <1>4

(* The PRI stays in range; it fires only on a line it had not seen. *)
LEMMA LineFacts ==
  ASSUME NEW a \in Asics, NEW line \in 0..(LineMod - 1)
  PROVE  /\ FrameLine(a, line) \in Asics
         /\ FrameLine(a, line).prev = line
         /\ (a.prev = line \/ line = 0) => FrameLine(a, line).pending = a.pending
         /\ [FrameLine(a, line) EXCEPT !.pending = FALSE] \in Asics
         /\ [FrameLine(a, line) EXCEPT !.pending = FALSE].prev = line
<1> DEFINE fire == a.pri # 0 /\ line = a.pri /\ a.prev # line
           p == a.pending \/ fire
<1>1. p \in BOOLEAN /\ ((a.prev = line \/ line = 0) => p = a.pending)
  BY Zenon DEF Asics
<1>2. FrameLine(a, line) = [a EXCEPT !.pending = p, !.prev = line]
  BY DEF FrameLine
<1> HIDE DEF p
<1>3. QED
  BY <1>1, <1>2, Zenon DEF Asics

(* A character, with or without an acknowledge, keeps the invariant of the  *)
(* three chips.                                                             *)
LEMMA AdvanceKeeps ==
  ASSUME RasterInv, NEW ack \in BOOLEAN, Advance(ack)
  PROVE  /\ WellFormed(crtc') /\ ga' \in GateArrays /\ fga' \in GateArrays
         /\ asic' \in Asics /\ gap' \in 0..Half
         /\ TiersAgree' /\ LineSeen' /\ GapInv'
         /\ ~ga.irq /\ ga'.irq => gap + 1 >= Half
         /\ ~ack /\ ~(crtc.inHsync /\ ~crtc'.inHsync) => fga'.irq = fga.irq
         /\ ~ack /\ crtc'.scanline = crtc.scanline => asic'.pending = asic.pending
<1> DEFINE c == CrtcChar(crtc, reg)
           g == GaTick(ga, c.inHsync, c.inVsync, GaOwns)
           f == Batch(fga, crtc, c, GaOwns)
           a == FrameLine(asic, c.scanline)
<1>1. /\ crtc' = c
      /\ ga' = IF ack THEN IntAck(g) ELSE g
      /\ fga' = IF ack THEN IntAck(f) ELSE f
      /\ asic' = IF ack THEN [a EXCEPT !.pending = FALSE] ELSE a
      /\ gap' = IF g.irq /\ ~ga.irq THEN 0
                ELSE IF crtc.inHsync /\ ~c.inHsync THEN Smaller(gap + 1, Half)
                ELSE gap
  BY Zenon DEF Advance
<1>2. WellFormed(c) /\ c \in Counters /\ c.inHsync \in BOOLEAN /\ c.inVsync \in BOOLEAN
      /\ c.scanline \in 0..(LineMod - 1)
  <2>1. WellFormed(c)
    BY Seen, CharWellFormed
  <2> HIDE DEF c
  <2>2. QED
    BY <2>1, Zenon DEF WellFormed, Counters
<1> HIDE DEF c
<1>3. g = BatchSetSync(f, c.inHsync, c.inVsync) /\ f \in GateArrays
  BY <1>2, Seen, TickIsBatch DEF RasterInv, TiersAgree
<1>4. /\ g \in GateArrays
      /\ ~(crtc.inHsync /\ ~c.inHsync) => g.irq = ga.irq /\ g.sl = ga.sl
      /\ crtc.inHsync /\ ~c.inHsync => g.sl \in {0, ga.sl + 1}
      /\ g.irq /\ ~ga.irq => g.sl = 0 /\ ga.sl + 1 >= Half
  <2> DEFINE h == c.inHsync
             v == c.inVsync
             o == GaOwns
             t == GaTick(ga, h, v, o)
  <2>1. ga \in GateArrays /\ o \in BOOLEAN /\ h \in BOOLEAN /\ v \in BOOLEAN
    BY <1>2, Seen
  <2>2. ga.hsPrev = crtc.inHsync
    BY Seen
  <2> HIDE DEF h, v, o
  <2>3. /\ t \in GateArrays
        /\ ~(ga.hsPrev /\ ~h) => t.irq = ga.irq /\ t.sl = ga.sl
        /\ ga.hsPrev /\ ~h => t.sl \in {0, ga.sl + 1}
        /\ t.irq /\ ~ga.irq => t.sl = 0 /\ ga.sl + 1 >= Half
    BY <2>1, TickFacts
  <2>4. g = t
    BY DEF h, v, o
  <2> HIDE DEF g, t
  <2>5. QED
    BY <2>2, <2>3, <2>4, Zenon DEF h
<1> HIDE DEF f
<1>5. a \in Asics /\ a.prev = c.scanline /\ [a EXCEPT !.pending = FALSE] \in Asics
      /\ [a EXCEPT !.pending = FALSE].prev = c.scanline
  BY <1>2, Seen, LineFacts
<1>6. crtc.scanline = c.scanline => a.pending = asic.pending
  <2> SUFFICES ASSUME crtc.scanline = c.scanline PROVE a.pending = asic.pending
    OBVIOUS
  <2>1. asic \in Asics /\ (asic.prev = c.scanline \/ c.scanline = 0)
    BY Seen DEF RasterInv, LineSeen
  <2>2. QED
    BY <1>2, <2>1, LineFacts
<1> HIDE DEF a, g
<1>7. g.irq = f.irq
  BY <1>3, Zenon DEF BatchSetSync, GateArrays
<1>8. ga.irq = fga.irq
  BY Seen
<1>9. ~ack /\ ~(crtc.inHsync /\ ~crtc'.inHsync) => fga'.irq = fga.irq
  BY <1>1, <1>4, <1>7, <1>8, Zenon
<1>10. ~ack /\ crtc'.scanline = crtc.scanline => asic'.pending = asic.pending
  BY <1>1, <1>6, Zenon
<1>11. IntAck(f) \in GateArrays /\ IntAck(g) \in GateArrays /\ IntAck(g).sl <= g.sl
      /\ ~IntAck(g).irq /\ IntAck(g) = BatchSetSync(IntAck(f), c.inHsync, c.inVsync)
  BY <1>2, <1>3, <1>4, AckAndWrite
<1>12. ga' \in GateArrays /\ fga' \in GateArrays /\ TiersAgree'
  BY <1>1, <1>3, <1>4, <1>11 DEF TiersAgree
<1>13. asic' \in Asics /\ LineSeen'
  BY <1>1, <1>5 DEF LineSeen
<1>14. ga'.sl <= g.sl /\ (ga'.irq => g.irq) /\ ga'.sl \in Int /\ g.sl \in Int /\ ga.sl \in Int
  <2>1. g.sl \in Int /\ ga'.sl \in Int /\ ga.sl \in Int
    BY <1>4, <1>12, Seen DEF GateArrays
  <2>2. QED
    BY <2>1, <1>1, <1>11
<1>15. gap \in 0..Half /\ (gap >= Half \/ gap >= ga.sl)
  BY DEF RasterInv, TypeOK, GapInv
<1>16. gap' \in 0..Half /\ GapInv'
  BY <1>1, <1>4, <1>14, <1>15 DEF GapInv, Smaller
<1>17. ~ga.irq /\ ga'.irq => gap + 1 >= Half
  BY <1>4, <1>14, <1>15
<1>18. QED
  BY <1>1, <1>2, <1>12, <1>13, <1>16, <1>17, <1>9, <1>10

(* A register write leaves HSYNC and the line counter alone. *)
LEMMA WriteFacts ==
  ASSUME NEW c, WellFormed(c), NEW r \in Registers, NEW name
  PROVE  /\ WellFormed(AfterWrite(c, r, name))
         /\ AfterWrite(c, r, name).inHsync = c.inHsync
         /\ AfterWrite(c, r, name).scanline = c.scanline
<1>1. WellFormed(CheckVsyncStart(c, r))
  BY CheckWellFormed
<1>2. /\ CheckVsyncStart(c, r).inHsync = c.inHsync
      /\ CheckVsyncStart(c, r).scanline = c.scanline
  BY Zenon DEF CheckVsyncStart, WellFormed, Counters
<1>3. QED
  BY <1>1, <1>2 DEF AfterWrite

(* A register write keeps the invariant: the Gate Array is told of the      *)
(* VSYNC an R7 write may start, and of nothing else.                        *)
LEMMA StoreKeeps ==
  ASSUME RasterInv, NEW r \in Registers, NEW name, Store(r, name)
  PROVE  RasterInv' /\ ga'.irq = ga.irq
<1> DEFINE c == AfterWrite(crtc, r, name)
           g == GaTick(ga, c.inHsync, c.inVsync, GaOwns)
           f == Batch(fga, crtc, c, GaOwns)
<1>1. /\ reg' = r /\ crtc' = c /\ ga' = g
      /\ fga' = IF c.inVsync /\ ~crtc.inVsync THEN BatchVsyncRise(fga) ELSE fga
      /\ left' = -1 /\ writes < MaxWrites /\ writes' = writes + 1
      /\ asic' = asic /\ cache' = cache /\ gap' = gap
  BY Zenon DEF Store
<1>2. /\ WellFormed(c) /\ c \in Counters
      /\ c.inHsync = crtc.inHsync /\ c.scanline = crtc.scanline
  BY Seen, WriteFacts DEF WellFormed
<1> HIDE DEF c
<1>3. c.inHsync \in BOOLEAN /\ c.inVsync \in BOOLEAN
  BY <1>2, Zenon DEF Counters
<1>4. g = BatchSetSync(f, c.inHsync, c.inVsync) /\ f \in GateArrays
  BY <1>2, Seen, TickIsBatch DEF RasterInv, TiersAgree
<1>5. fga' = f
  BY <1>1, <1>2, Zenon DEF Batch
<1>6. g \in GateArrays /\ g.irq = ga.irq /\ g.sl = ga.sl
  <2> DEFINE h == c.inHsync
             v == c.inVsync
             o == GaOwns
             t == GaTick(ga, h, v, o)
  <2>1. ga \in GateArrays /\ o \in BOOLEAN /\ h \in BOOLEAN /\ v \in BOOLEAN
    BY <1>3, Seen
  <2>2. ga.hsPrev = h
    BY <1>2, Seen
  <2> HIDE DEF h, v, o
  <2>3. t \in GateArrays /\ (~(ga.hsPrev /\ ~h) => t.irq = ga.irq /\ t.sl = ga.sl)
    BY <2>1, TickFacts
  <2>4. g = t
    BY DEF h, v, o
  <2> HIDE DEF g, t
  <2>5. QED
    BY <2>2, <2>3, <2>4, Zenon
<1> HIDE DEF f, g
<1>7. TypeOK'
  <2>1. left' \in -1..(HccMod - 1) /\ gap' \in 0..Half /\ writes' \in 0..MaxWrites
    BY <1>1 DEF RasterInv, TypeOK
  <2>2. cache' \in BOOLEAN /\ asic' \in Asics
    BY <1>1 DEF RasterInv, TypeOK
  <2>3. QED
    BY <1>1, <1>2, <1>4, <1>5, <1>6, <2>1, <2>2, Zenon DEF TypeOK
<1>8. TiersAgree' /\ LineSeen' /\ GapInv'
  BY <1>1, <1>2, <1>4, <1>5, <1>6 DEF RasterInv, TiersAgree, LineSeen, GapInv
<1>9. QED
  BY <1>1, <1>6, <1>7, <1>8 DEF RasterInv

-----------------------------------------------------------------------------
(* The programmed machine at the top of a frame satisfies the invariant. *)
LEMMA InitInv == Init => RasterInv
<1> SUFFICES ASSUME Init PROVE RasterInv
  OBVIOUS
<1>1. WellFormed(NoCounters)
  BY Zeros, Zenon DEF WellFormed, Counters, NoCounters
<1>2. crtc = CheckVsyncStart(NoCounters, BootRegs)
  BY DEF Init
<1>3. /\ WellFormed(crtc) /\ crtc.scanline = 0 /\ crtc.inHsync = FALSE
      /\ crtc.inVsync \in BOOLEAN
  <2>1. WellFormed(crtc)
    BY <1>1, <1>2, CheckWellFormed
  <2>2. crtc.scanline = 0 /\ crtc.inHsync = FALSE
    BY <1>2, Zenon DEF CheckVsyncStart, NoCounters
  <2>3. QED
    BY <2>1, <2>2, Zenon DEF WellFormed, Counters
<1>4. GaReset(BootMode) \in GateArrays /\ GaReset(BootMode).sl = 0
  <2>1. 0 \in 0..(Period - 1) /\ 0 \in 0..2
    OBVIOUS
  <2>2. QED
    BY <2>1, Zenon DEF GaReset, GateArrays
<1>5. ga = GaTick(GaReset(BootMode), FALSE, crtc.inVsync, TRUE) /\ fga = ga
  BY DEF Init
<1>a. ga \in GateArrays
  BY <1>3, <1>4, <1>5, TickFacts
<1>6. TiersAgree
  <2>1. GaReset(BootMode).hsPrev = FALSE
    BY DEF GaReset
  <2>2. ga.hsPrev = FALSE /\ ga.vsPrev = crtc.inVsync
    BY <1>4, <1>5, <2>1, Zenon DEF GaTick, GateArrays
  <2>3. QED
    BY <1>3, <1>5, <1>a, <2>2, SetSyncSame, Zenon DEF TiersAgree
<1>7. asic \in Asics
  BY Zeros, Zenon DEF Init, Asics
<1>8. /\ left \in -1..(HccMod - 1) /\ gap \in 0..Half /\ writes \in 0..MaxWrites
      /\ cache \in BOOLEAN /\ reg \in Registers /\ gap >= Half
  <2>1. left = -1 /\ gap = Half /\ writes = 0 /\ cache = FALSE /\ reg = BootRegs
    BY Zenon DEF Init
  <2>2. cache \in BOOLEAN /\ reg \in Registers
    BY <2>1, Zenon
  <2>3. QED
    BY <2>1, <2>2
<1>9. QED
  BY <1>3, <1>5, <1>6, <1>7, <1>8, <1>a DEF RasterInv, TypeOK, LineSeen, GapInv

(* A CRTC write stores a register file. *)
LEMMA WritesRegisters ==
  ASSUME reg \in Registers, CrtcWrite
  PROVE  \E r \in Registers : \E name : Store(r, name)
<1>1. /\ \A v \in Vals.r0 : [reg EXCEPT !.r0 = v] \in Registers
      /\ \A v \in Vals.r2 : [reg EXCEPT !.r2 = v] \in Registers
      /\ \A v \in Vals.hw, w \in Vals.vw : [reg EXCEPT !.hw = v, !.vw = w] \in Registers
      /\ \A v \in Vals.r4 : [reg EXCEPT !.r4 = v] \in Registers
      /\ \A v \in Vals.r5 : [reg EXCEPT !.r5 = v] \in Registers
      /\ \A v \in Vals.r7 : [reg EXCEPT !.r7 = v] \in Registers
      /\ \A v \in Vals.r9 : [reg EXCEPT !.r9 = v] \in Registers
  BY DEF Registers
<1>2. QED
  BY <1>1, Zenon DEF CrtcWrite

(* Every step keeps the invariant. *)
LEMMA StepInv == RasterInv /\ [Next]_vars => RasterInv'
<1> SUFFICES ASSUME RasterInv, [Next]_vars PROVE RasterInv'
  OBVIOUS
<1>t. /\ reg \in Registers /\ WellFormed(crtc)
      /\ ga \in GateArrays /\ fga \in GateArrays /\ asic \in Asics
      /\ cache \in BOOLEAN /\ left \in -1..(HccMod - 1)
      /\ gap \in 0..Half /\ writes \in 0..MaxWrites
  BY Zenon DEF RasterInv, TypeOK
<1>1. CASE Char
  <2>1. Advance(FALSE) /\ reg' = reg /\ cache' = cache /\ writes' = writes
    BY <1>1, Zenon DEF Char
  <2>2. left' \in -1..(HccMod - 1)
    BY <1>1, <1>t DEF Char
  <2>3. /\ WellFormed(crtc') /\ ga' \in GateArrays /\ fga' \in GateArrays
        /\ asic' \in Asics /\ gap' \in 0..Half /\ TiersAgree' /\ LineSeen' /\ GapInv'
    BY <2>1, AdvanceKeeps
  <2>4. QED
    BY <1>t, <2>1, <2>2, <2>3 DEF RasterInv, TypeOK
<1>2. CASE Acknowledge
  <2>1. Advance(TRUE) /\ reg' = reg /\ cache' = cache /\ writes' = writes
    BY <1>2, Zenon DEF Acknowledge
  <2>2. left' \in -1..(HccMod - 1)
    BY <1>2, <1>t DEF Acknowledge
  <2>3. /\ WellFormed(crtc') /\ ga' \in GateArrays /\ fga' \in GateArrays
        /\ asic' \in Asics /\ gap' \in 0..Half /\ TiersAgree' /\ LineSeen' /\ GapInv'
    BY <2>1, AdvanceKeeps
  <2>4. QED
    BY <1>t, <2>1, <2>2, <2>3 DEF RasterInv, TypeOK
<1>3. CASE Poll \/ EnterFrame \/ VoidPoll
  <2>1. /\ reg' = reg /\ crtc' = crtc /\ ga' = ga /\ fga' = fga /\ asic' = asic
        /\ gap' = gap /\ writes' = writes
    BY <1>3, Zenon DEF Poll, EnterFrame, VoidPoll
  <2>2. Horizon(crtc, reg) \in 1..HccMod
    BY <1>t, HorizonRange
  <2>3. left' \in -1..(HccMod - 1)
    BY <1>3, <1>t, <2>2 DEF Poll, EnterFrame, VoidPoll
  <2>4. Irq \in BOOLEAN
    BY Zenon DEF Irq
  <2>5. cache' \in BOOLEAN
    BY <1>3, <1>t, <2>4, Zenon DEF Poll, EnterFrame, VoidPoll
  <2>6. QED
    BY <1>t, <2>1, <2>3, <2>5 DEF RasterInv, TypeOK, TiersAgree, LineSeen, GapInv
<1>4. CASE CrtcWrite
  <2>1. \E r \in Registers : \E name : Store(r, name)
    BY <1>4, <1>t, WritesRegisters
  <2>2. QED
    BY <2>1, StoreKeeps
<1>5. CASE GaWrite
  <2>1. PICK m \in Modes, rearm \in BOOLEAN :
          /\ ga' = WriteMode(ga, m, rearm) /\ fga' = WriteMode(fga, m, rearm)
          /\ left' = -1
          /\ UNCHANGED <<reg, crtc, asic, cache, gap, writes>>
    BY <1>5 DEF GaWrite
  <2>2. /\ ga' \in GateArrays /\ fga' \in GateArrays /\ ga'.sl <= ga.sl
        /\ ga' = BatchSetSync(fga', crtc.inHsync, crtc.inVsync)
    <3>1. ga' \in GateArrays /\ ga'.sl <= ga.sl
      BY <1>t, <2>1, AckAndWrite
    <3>2. fga' \in GateArrays
      BY <1>t, <2>1, AckAndWrite
    <3>3. ga = BatchSetSync(fga, crtc.inHsync, crtc.inVsync)
          /\ crtc.inHsync \in BOOLEAN /\ crtc.inVsync \in BOOLEAN
      BY Seen DEF RasterInv, TiersAgree
    <3>4. WriteMode(BatchSetSync(fga, crtc.inHsync, crtc.inVsync), m, rearm)
            = BatchSetSync(WriteMode(fga, m, rearm), crtc.inHsync, crtc.inVsync)
      <4> DEFINE h == crtc.inHsync
                 v == crtc.inVsync
      <4>1. h \in BOOLEAN /\ v \in BOOLEAN
        BY <3>3
      <4> HIDE DEF h, v
      <4>2. WriteMode(BatchSetSync(fga, h, v), m, rearm)
              = BatchSetSync(WriteMode(fga, m, rearm), h, v)
        BY <1>t, <4>1, WriteSetSync
      <4>3. QED
        BY <4>2 DEF h, v
    <3>5. QED
      BY <2>1, <3>1, <3>2, <3>3, <3>4, Zenon
  <2>3. ga.sl \in Int /\ ga'.sl \in Int
    BY <1>t, <2>2 DEF GateArrays
  <2>4. GapInv'
    BY <1>t, <2>1, <2>2, <2>3 DEF RasterInv, GapInv
  <2>5. left' \in -1..(HccMod - 1)
    BY <2>1
  <2>6. QED
    BY <1>t, <2>1, <2>2, <2>4, <2>5 DEF RasterInv, TypeOK, TiersAgree, LineSeen
<1>6. CASE PriWrite
  <2>1. PICK v \in PriLines : asic' = [asic EXCEPT !.pri = v]
    BY <1>6 DEF PriWrite
  <2>2. asic' \in Asics /\ asic'.prev = asic.prev
    BY <1>t, <2>1 DEF Asics
  <2>3. UNCHANGED <<reg, crtc, ga, fga, cache, left, gap, writes>>
    BY <1>6 DEF PriWrite
  <2>4. QED
    BY <1>t, <2>2, <2>3 DEF RasterInv, TypeOK, TiersAgree, LineSeen, GapInv
<1>7. CASE Reset
  <2>1. /\ reg' = NoRegisters /\ crtc' = NoCounters
        /\ ga' = GaReset(BootMode) /\ fga' = GaReset(BootMode)
        /\ asic' = [asic EXCEPT !.prev = LineMod - 1, !.pending = FALSE]
        /\ left' = -1 /\ gap' = Half /\ cache' = cache /\ writes' = writes
    BY <1>7, Zenon DEF Reset
  <2>2. NoRegisters \in Registers
    BY DEF NoRegisters, Registers
  <2>3. WellFormed(NoCounters) /\ NoCounters.scanline = 0
        /\ NoCounters.inHsync = FALSE /\ NoCounters.inVsync = FALSE
    BY Zeros, Zenon DEF WellFormed, Counters, NoCounters
  <2>4. GaReset(BootMode) \in GateArrays
    <3>1. 0 \in 0..(Period - 1) /\ 0 \in 0..2
      OBVIOUS
    <3>2. QED
      BY <3>1, Zenon DEF GaReset, GateArrays
  <2>5. GaReset(BootMode) = BatchSetSync(GaReset(BootMode), FALSE, FALSE)
    <3>1. GaReset(BootMode).hsPrev = FALSE /\ GaReset(BootMode).vsPrev = FALSE
      BY DEF GaReset
    <3>2. QED
      BY <2>4, <3>1, SetSyncSame
  <2>6. asic' \in Asics
    <3>1. LineMod - 1 \in 0..(LineMod - 1)
      OBVIOUS
    <3>2. QED
      BY <1>t, <2>1, <3>1, Zenon DEF Asics
  <2>7. left' \in -1..(HccMod - 1) /\ gap' \in 0..Half /\ gap' >= Half
    BY <2>1
  <2>8. QED
    BY <1>t, <2>1, <2>2, <2>3, <2>4, <2>5, <2>6, <2>7
       DEF RasterInv, TypeOK, TiersAgree, LineSeen, GapInv
<1>8. CASE UNCHANGED vars
  BY <1>t, <1>8 DEF RasterInv, TypeOK, TiersAgree, LineSeen, GapInv, vars
<1>9. QED
  BY <1>1, <1>2, <1>3, <1>4, <1>5, <1>6, <1>7, <1>8, Zenon DEF Next

-----------------------------------------------------------------------------
(* Every variable keeps its type: the CRTC's counters wrap where the chip's *)
(* do, and the cached poll never lasts longer than a line.                  *)
THEOREM RasterTypeCorrect == Spec => []TypeOK
<1>1. RasterInv => TypeOK
  BY DEF RasterInv
<1>2. QED
  BY InitInv, StepInv, <1>1, PTL DEF Spec

(* Per-cycle tick and batch calls leave the Gate Array in the same state at *)
(* every character, for every program and every geometry.                   *)
THEOREM RasterTiersAgree == Spec => []TiersAgree
<1>1. RasterInv => TiersAgree
  BY DEF RasterInv
<1>2. QED
  BY InitInv, StepInv, <1>1, PTL DEF Spec

(* The closed-form span of crtc_advance_view is exact in every reachable    *)
(* state.                                                                   *)
THEOREM RasterSpanIsExact == Spec => []SpanIsExact
<1>1. RasterInv => SpanIsExact
  BY Seen, SpanChar DEF SpanIsExact
<1>2. QED
  BY InitInv, StepInv, <1>1, PTL DEF Spec

(* No step raises the Gate Array's interrupt less than Half lines after the *)
(* last one.                                                                *)
THEOREM RasterInterruptsApart == Spec => InterruptsApart
<1>1. RasterInv /\ [Next]_vars => [~ga.irq /\ ga'.irq => gap + 1 >= Half]_vars
  <2> SUFFICES ASSUME RasterInv, Next, ~ga.irq, ga'.irq PROVE gap + 1 >= Half
    OBVIOUS
  <2>1. CASE Char
    BY <2>1, AdvanceKeeps DEF Char
  <2>2. CASE Acknowledge
    BY <2>2, AdvanceKeeps DEF Acknowledge
  <2>3. CASE Poll \/ EnterFrame \/ VoidPoll \/ PriWrite
    BY <2>3, Zenon DEF Poll, EnterFrame, VoidPoll, PriWrite
  <2>4. CASE CrtcWrite
    <3>1. \E r \in Registers : \E name : Store(r, name)
      BY <2>4, WritesRegisters, Seen
    <3>2. QED
      BY <3>1, StoreKeeps, Zenon
  <2>5. CASE GaWrite
    <3>1. PICK m \in Modes, rearm \in BOOLEAN : ga' = WriteMode(ga, m, rearm)
      BY <2>5 DEF GaWrite
    <3>2. ga \in GateArrays /\ TRUE \in BOOLEAN
      BY Seen
    <3>3. WriteMode(ga, m, rearm).irq => ga.irq
      BY <3>2, AckAndWrite
    <3>4. QED
      BY <3>1, <3>3
  <2>6. CASE Reset
    BY <2>6, Zenon DEF Reset, GaReset
  <2>7. QED
    BY <2>1, <2>2, <2>3, <2>4, <2>5, <2>6, Zenon DEF Next
<1>2. QED
  BY InitInv, StepInv, <1>1, PTL DEF Spec, InterruptsApart

-----------------------------------------------------------------------------
(* The end of a scanline does not move HSYNC. *)
LEMMA ScanlineKeepsHsync ==
  ASSUME NEW c, WellFormed(c), NEW r \in Registers
  PROVE  NewScanline(c, r).inHsync = c.inHsync
<1>1. ASSUME NEW x, WellFormed(x)
      PROVE  CheckVsyncStart(x, r).inHsync = x.inHsync
  BY <1>1, Zenon DEF CheckVsyncStart, WellFormed, Counters
<1>2. ASSUME NEW x, WellFormed(x)
      PROVE  NewFrame(x, r).inHsync = x.inHsync
  <2> DEFINE y == [x EXCEPT !.vcc = 0, !.ra = 0, !.inVta = FALSE, !.vta = 0,
                            !.scanline = 0]
  <2>1. WellFormed(y) /\ y.inHsync = x.inHsync
    BY <1>2, Zeros, Zenon DEF WellFormed, Counters
  <2>2. QED
    BY <1>1, <2>1, Zenon DEF NewFrame
<1>3. ASSUME NEW x, WellFormed(x)
      PROVE  NewRow(x, r).inHsync = x.inHsync
  <2> DEFINE y == [x EXCEPT !.vcc = (@ + 1) % VccMod]
  <2>1. (x.vcc + 1) % VccMod \in 0..(VccMod - 1)
    BY <1>3 DEF WellFormed, Counters
  <2>2. WellFormed(y) /\ y.inHsync = x.inHsync
    BY <1>3, <2>1, Zenon DEF WellFormed, Counters
  <2>3. [x EXCEPT !.inVta = TRUE, !.vta = 0].inHsync = x.inHsync
    BY <1>3, Zenon DEF WellFormed, Counters
  <2>4. QED
    BY <1>1, <1>2, <1>3, <2>2, <2>3, Zenon DEF NewRow
<1> DEFINE a == [c EXCEPT !.scanline = (@ + 1) % LineMod]
           d == CountVsync(a, r)
<1>4. WellFormed(a) /\ a.inHsync = c.inHsync
  <2>1. (c.scanline + 1) % LineMod \in 0..(LineMod - 1)
    BY DEF WellFormed, Counters
  <2>2. QED
    BY <2>1, Zenon DEF WellFormed, Counters
<1> HIDE DEF a
<1>5. WellFormed(d) /\ d.inHsync = a.inHsync
  <2>1. WellFormed(d)
    BY <1>4, CountVsyncWellFormed
  <2>2. d.inHsync = a.inHsync
    BY <1>4, Zenon DEF CountVsync, WellFormed, Counters
  <2>3. QED
    BY <2>1, <2>2
<1> HIDE DEF d
<1>6. AdjustLine(d, r).inHsync = d.inHsync
  BY <1>2, <1>5, Zenon DEF AdjustLine, WellFormed, Counters
<1>7. RasterLine(d, r).inHsync = d.inHsync
  <2>1. WellFormed([d EXCEPT !.ra = 0]) /\ [d EXCEPT !.ra = 0].inHsync = d.inHsync
    BY <1>5, Zeros, Zenon DEF WellFormed, Counters
  <2>2. [d EXCEPT !.ra = (@ + 1) % RaMod].inHsync = d.inHsync
    BY <1>5, Zenon DEF WellFormed, Counters
  <2>3. QED
    BY <1>3, <2>1, <2>2, Zenon DEF RasterLine
<1>8. QED
  BY <1>4, <1>5, <1>6, <1>7, Zenon DEF NewScanline, a, d

(* An HSYNC that runs was running or has just started, with a width. *)
LEMMA CharHsync ==
  ASSUME NEW c, WellFormed(c), NEW r \in Registers, CrtcChar(c, r).inHsync
  PROVE  c.inHsync \/ HsyncWidth(r) # 0
<1> SUFFICES ASSUME ~c.inHsync, HsyncWidth(r) = 0 PROVE FALSE
  OBVIOUS
<1>1. HsyncStep(c, r) = c
  BY Zenon DEF HsyncStep
<1>2. WellFormed([c EXCEPT !.hcc = 0]) /\ ~[c EXCEPT !.hcc = 0].inHsync
  BY Zeros, Zenon DEF WellFormed, Counters
<1>3. ~[c EXCEPT !.hcc = (@ + 1) % HccMod].inHsync
  BY Zenon DEF WellFormed, Counters
<1>4. QED
  BY <1>1, <1>2, <1>3, ScanlineKeepsHsync, Zenon DEF CrtcChar

(* A running HSYNC has a width, and while the cached poll is good it equals *)
(* the interrupt line and ends before the horizon.                          *)
HsyncHasWidth == crtc.inHsync => HsyncWidth(reg) # 0
PollInv == left >= 0 => cache = Irq /\ left < Horizon(crtc, reg)
CacheInv == HsyncHasWidth /\ PollInv

(* A register write gives HSYNC a width under NoZeroWidth. *)
LEMMA WriteHasWidth ==
  ASSUME NoZeroWidth, RasterInv, HsyncHasWidth, CrtcWrite
  PROVE  HsyncHasWidth' /\ left' = -1
<1>1. reg \in Registers /\ WellFormed(crtc)
  BY Seen
<1>2. ASSUME NEW r \in Registers, NEW name, Store(r, name),
             r.hw = reg.hw \/ r.hw \in Vals.hw
      PROVE  HsyncHasWidth' /\ left' = -1
  <2>1. reg' = r /\ crtc' = AfterWrite(crtc, r, name) /\ left' = -1
    BY <1>2 DEF Store
  <2>2. crtc'.inHsync = crtc.inHsync
    BY <1>1, <1>2, <2>1, WriteFacts
  <2>3. HsyncWidth(r) # 0 \/ HsyncWidth(reg) = 0
    BY <1>1, <1>2 DEF HsyncWidth, NoZeroWidth, Registers
  <2>4. QED
    BY <2>1, <2>2, <2>3 DEF HsyncHasWidth
<1>3. /\ \A v \in Vals.r0 : [reg EXCEPT !.r0 = v] \in Registers /\ [reg EXCEPT !.r0 = v].hw = reg.hw
      /\ \A v \in Vals.r2 : [reg EXCEPT !.r2 = v] \in Registers /\ [reg EXCEPT !.r2 = v].hw = reg.hw
      /\ \A v \in Vals.hw, w \in Vals.vw :
           [reg EXCEPT !.hw = v, !.vw = w] \in Registers /\ [reg EXCEPT !.hw = v, !.vw = w].hw \in Vals.hw
      /\ \A v \in Vals.r4 : [reg EXCEPT !.r4 = v] \in Registers /\ [reg EXCEPT !.r4 = v].hw = reg.hw
      /\ \A v \in Vals.r5 : [reg EXCEPT !.r5 = v] \in Registers /\ [reg EXCEPT !.r5 = v].hw = reg.hw
      /\ \A v \in Vals.r7 : [reg EXCEPT !.r7 = v] \in Registers /\ [reg EXCEPT !.r7 = v].hw = reg.hw
      /\ \A v \in Vals.r9 : [reg EXCEPT !.r9 = v] \in Registers /\ [reg EXCEPT !.r9 = v].hw = reg.hw
  BY <1>1 DEF Registers
<1>4. ASSUME NEW v \in Vals.r0, Store([reg EXCEPT !.r0 = v], "r0")
      PROVE  HsyncHasWidth' /\ left' = -1
  BY <1>2, <1>3, <1>4, Zenon
<1>5. ASSUME NEW v \in Vals.r2, Store([reg EXCEPT !.r2 = v], "r2")
      PROVE  HsyncHasWidth' /\ left' = -1
  BY <1>2, <1>3, <1>5, Zenon
<1>6. ASSUME NEW v \in Vals.hw, NEW w \in Vals.vw,
             Store([reg EXCEPT !.hw = v, !.vw = w], "r3")
      PROVE  HsyncHasWidth' /\ left' = -1
  BY <1>2, <1>3, <1>6, Zenon
<1>7. ASSUME NEW v \in Vals.r4, Store([reg EXCEPT !.r4 = v], "r4")
      PROVE  HsyncHasWidth' /\ left' = -1
  BY <1>2, <1>3, <1>7, Zenon
<1>8. ASSUME NEW v \in Vals.r5, Store([reg EXCEPT !.r5 = v], "r5")
      PROVE  HsyncHasWidth' /\ left' = -1
  BY <1>2, <1>3, <1>8, Zenon
<1>9. ASSUME NEW v \in Vals.r7, Store([reg EXCEPT !.r7 = v], "r7")
      PROVE  HsyncHasWidth' /\ left' = -1
  BY <1>2, <1>3, <1>9, Zenon
<1>10. ASSUME NEW v \in Vals.r9, Store([reg EXCEPT !.r9 = v], "r9")
      PROVE  HsyncHasWidth' /\ left' = -1
  BY <1>2, <1>3, <1>10, Zenon
<1>11. QED
  BY <1>4, <1>5, <1>6, <1>7, <1>8, <1>9, <1>10, Zenon DEF CrtcWrite

(* Every step keeps the poll fresh. *)
LEMMA StepCache ==
  ASSUME NoZeroWidth
  PROVE  RasterInv /\ CacheInv /\ [Next]_vars => CacheInv'
<1> SUFFICES ASSUME RasterInv, CacheInv, [Next]_vars PROVE CacheInv'
  OBVIOUS
<1>t. /\ reg \in Registers /\ WellFormed(crtc) /\ left \in -1..(HccMod - 1)
      /\ asic \in Asics
  BY Seen DEF RasterInv, TypeOK
<1>h. Horizon(crtc, reg) \in 1..HccMod
  BY <1>t, HorizonRange
<1>1. CASE Char
  <2>1. Advance(FALSE) /\ reg' = reg /\ cache' = cache /\ crtc' = CrtcChar(crtc, reg)
        /\ left' = (IF left >= 0 THEN left - 1 ELSE -1)
    BY <1>1, Zenon DEF Char, Advance
  <2>2. HsyncHasWidth'
    BY <1>t, <2>1, CharHsync DEF CacheInv, HsyncHasWidth
  <2>3. ASSUME left' >= 0
        PROVE  cache' = Irq' /\ left' < Horizon(crtc', reg')
    <3>1. left >= 1 /\ left' = left - 1 /\ cache = Irq /\ left < Horizon(crtc, reg)
      BY <1>t, <2>1, <2>3 DEF CacheInv, PollInv
    <3>2. /\ crtc.inHsync => crtc'.inHsync
          /\ crtc'.scanline = crtc.scanline
          /\ Horizon(crtc', reg) >= Horizon(crtc, reg) - 1
      BY <1>t, <1>h, <2>1, <3>1, QuietChar DEF CacheInv, HsyncHasWidth
    <3>3. fga'.irq = fga.irq /\ asic'.pending = asic.pending
      BY <2>1, <3>2, AdvanceKeeps
    <3>4. cache' = Irq'
      BY <2>1, <3>1, <3>3, Zenon DEF Irq
    <3>5. Horizon(crtc', reg) \in Int
      <4>1. WellFormed(crtc')
        BY <1>t, <2>1, CharWellFormed
      <4>2. QED
        BY <1>t, <4>1, HorizonRange
    <3>6. left' < Horizon(crtc', reg')
      BY <1>t, <1>h, <2>1, <3>1, <3>2, <3>5
    <3>7. QED
      BY <3>4, <3>6
  <2>4. QED
    BY <2>2, <2>3 DEF CacheInv, PollInv
<1>2. CASE Acknowledge
  <2>1. reg' = reg /\ crtc' = CrtcChar(crtc, reg) /\ left' = -1
    BY <1>2, Zenon DEF Acknowledge, Advance
  <2>2. QED
    BY <1>t, <2>1, CharHsync DEF CacheInv, HsyncHasWidth, PollInv
<1>3. CASE Poll \/ EnterFrame
  <2>1. reg' = reg /\ crtc' = crtc /\ fga' = fga /\ asic' = asic /\ cache' = Irq
    BY <1>3, Zenon DEF Poll, EnterFrame
  <2>2. left' < Horizon(crtc, reg)
    BY <1>3, <1>h DEF Poll, EnterFrame
  <2>3. cache' = Irq'
    BY <2>1, Zenon DEF Irq
  <2>4. QED
    BY <2>1, <2>2, <2>3 DEF CacheInv, HsyncHasWidth, PollInv
<1>4. CASE VoidPoll \/ GaWrite
  <2>1. reg' = reg /\ crtc' = crtc /\ left' = -1
    BY <1>4, Zenon DEF VoidPoll, GaWrite
  <2>2. QED
    BY <2>1 DEF CacheInv, HsyncHasWidth, PollInv
<1>5. CASE CrtcWrite
  BY <1>5, WriteHasWidth DEF CacheInv, PollInv
<1>6. CASE PriWrite
  <2>1. /\ reg' = reg /\ crtc' = crtc /\ fga' = fga /\ cache' = cache /\ left' = left
    BY <1>6, Zenon DEF PriWrite
  <2>2. asic'.pending = asic.pending
    BY <1>6, <1>t, Zenon DEF PriWrite, Asics
  <2>3. Irq' = Irq
    BY <2>1, <2>2, Zenon DEF Irq
  <2>4. QED
    BY <2>1, <2>3 DEF CacheInv, HsyncHasWidth, PollInv
<1>7. CASE Reset
  <2>1. crtc'.inHsync = FALSE /\ left' = -1
    BY <1>7, Zenon DEF Reset, NoCounters
  <2>2. QED
    BY <2>1 DEF CacheInv, HsyncHasWidth, PollInv
<1>8. CASE UNCHANGED vars
  BY <1>8 DEF CacheInv, HsyncHasWidth, PollInv, Irq, vars
<1>9. QED
  BY <1>1, <1>2, <1>3, <1>4, <1>5, <1>6, <1>7, <1>8, Zenon DEF Next

(* The fast tier never tells the CPU anything but the state of the          *)
(* interrupt line, on CRTC types 2 and 3 whatever the program does, on the  *)
(* others as long as it does not take the width from an HSYNC.              *)
THEOREM RasterCacheIsFresh ==
  ASSUME NoZeroWidth
  PROVE  Spec => []CacheIsFresh
<1>1. Init => CacheInv
  <2>1. Init => crtc.inHsync = FALSE /\ left = -1
    BY Zenon DEF Init, NoCounters, CheckVsyncStart
  <2>2. QED
    BY <2>1 DEF CacheInv, HsyncHasWidth, PollInv
<1>2. RasterInv /\ CacheInv => CacheIsFresh
  BY DEF CacheInv, PollInv, CacheIsFresh
<1>3. RasterInv /\ CacheInv /\ [Next]_vars => CacheInv'
  BY StepCache
<1>4. QED
  BY InitInv, StepInv, <1>1, <1>2, <1>3, PTL DEF Spec
=============================================================================
