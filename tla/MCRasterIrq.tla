---------------------------- MODULE MCRasterIrq ----------------------------
(* A scaled-down machine for TLC: lines of at most four characters, rows of *)
(* one or two lines, an interrupt every three lines.                        *)
EXTENDS RasterIrq

MCBootRegs ==
  [r0 |-> 3, r2 |-> 1, hw |-> 2, vw |-> 1, r4 |-> 2, r5 |-> 0, r7 |-> 1, r9 |-> 1]

MCVals ==
  [r0 |-> {1}, r2 |-> {0, 3}, hw |-> {0, 1}, vw |-> {0}, r4 |-> {0},
   r5 |-> {1}, r7 |-> {0, 2}, r9 |-> {0}]

(* Only the HSYNC width and position change. *)
MCWidthVals ==
  [r0 |-> {}, r2 |-> {}, hw |-> {0, 2}, vw |-> {1}, r4 |-> {}, r5 |-> {},
   r7 |-> {}, r9 |-> {}]
=============================================================================
