----------------------------- MODULE MCMachine ------------------------------
(***************************************************************************)
(* The parts of the machine that owe somebody something, on one bench: the *)
(* Z80 an NMI, the ASIC the bus, the tape its end, the debugger a stop;    *)
(* and those that compute: the ALU and the memory map.                     *)
(* Each behaviour has one of them under power; the others keep still, so   *)
(* that the state spaces add up and do not multiply.                       *)
(***************************************************************************)
EXTENDS Z80Seq, Asic, Tape, Debugger, Z80Alu, Memory

VARIABLE bench

benchVars == <<zVars, asicVars, tapeVars, debugVars, aluVars, memVars, bench>>

\* one instruction of each shape: prefixes, jumps, repeats, I/O, halts, interrupt control
Runs1(b) == [bytes |-> b, taken |-> FALSE]
Jumps(b) == [bytes |-> b, taken |-> TRUE]
MCInstrs ==
  {Runs1(<<0>>), Jumps(<<16>>), Runs1(<<32>>), Runs1(<<34>>), Runs1(<<118>>), Runs1(<<251>>),
   Jumps(<<196>>), Runs1(<<211>>), Runs1(<<219>>), Runs1(<<227>>), Runs1(<<DD, 52>>),
   Runs1(<<DD, FD, 119>>), Jumps(<<DD, CB>>), Jumps(<<DD, ED, 176>>), Runs1(<<CB, 6>>),
   Runs1(<<ED, 69>>), Runs1(<<ED, 94>>), Jumps(<<ED, 178>>), Runs1(<<ED, 179>>)}
MCSkewInstrs == {Runs1(<<0>>), Runs1(<<50>>)}

\* a DMA list with a repeat, a load and a control word that loops, interrupts and stops
DmaWord(op, p, r, l, i, s) ==
  [op |-> op, pause |-> p, repeat |-> r, loop |-> l, int |-> i, stop |-> s]
MCProgram == <<DmaWord("ctl", 0, 1, FALSE, FALSE, FALSE), DmaWord("load", 0, 0, FALSE, FALSE, FALSE),
               DmaWord("ctl", 1, 0, TRUE, TRUE, TRUE)>>
MCLockSeq == <<0, 0, 1>>

\* every kind of block, whole and empty, and a short tape to swap in
TapeBlock(k, n, l, g) == [kind |-> k, n |-> n, len |-> l, gap |-> g]
LongTape ==
  <<TapeBlock("turbo", 0, 1, TRUE), TapeBlock("pause", 1, 0, FALSE), TapeBlock("tone", 2, 0, FALSE),
    TapeBlock("pulses", 0, 0, FALSE), TapeBlock("data", 0, 0, TRUE), TapeBlock("direct", 1, 0, FALSE)>>
MCTapes == {LongTape, <<TapeBlock("meta", 0, 0, FALSE),
                       TapeBlock("pause", 0, 0, FALSE), TapeBlock("bad", 0, 0, FALSE)>>}

\* a snapshot of a 6128 in configuration 2 with the Plus lower ROM paged elsewhere
MCSavedRegs == {[ResetRegs EXCEPT !.ram_config = 2, !.bank = 1, !.cart_lower_slot = 2]}

Benches == {"z80", "asic", "tape", "debugger", "alu", "memory"}

Init ==
  /\ bench \in Benches
  /\ AluInit /\ (bench # "alu" => za = 9) /\ MemInit
  /\ SeqInit /\ AsicInit /\ TapeInit /\ DebugInit

Next ==
  /\ UNCHANGED bench
  /\ IF bench = "z80" THEN SeqNext ELSE UNCHANGED zVars
  /\ IF bench = "asic" THEN AsicNext ELSE UNCHANGED asicVars
  /\ IF bench = "tape" THEN TapeNext ELSE UNCHANGED tapeVars
  /\ IF bench = "debugger" THEN DebugNext ELSE UNCHANGED debugVars
  /\ IF bench = "alu" THEN AluNext ELSE UNCHANGED aluVars
  /\ IF bench = "memory" THEN MemNext ELSE UNCHANGED memVars

(* The clock never stops: z80_tick is always enabled and takes the T-slot   *)
(* round and round, the tape ticks on and a DMA burst ends; the Z80 thread  *)
(* loops, its guest runs, the raster ends its frames, and a client waiting  *)
(* for a breakpoint polls with a deadline.                                  *)
Spec ==
  /\ Init /\ [][Next]_benchVars
  /\ \A s \in {0, 1} : []<>(bench = "z80" => zslot = s)
  /\ WF_zVars(bench = "z80" /\ zbus.busrq /\ BusLine)
  /\ WF_asicVars(bench = "asic" /\ Sequencer)
  /\ WF_tapeVars(bench = "tape" /\ tape_tick)
  /\ SF_debugVars(bench = "debugger" /\ Tick)
  /\ WF_debugVars(bench = "debugger" /\ (FrameStart \/ FrameEnd \/ DebugSync))
  /\ WF_debugVars(bench = "debugger" /\ WaitOver)

-----------------------------------------------------------------------------
(* What holds at every moment: an interrupt starts only between             *)
(* instructions (tick_m1), the video copy of the ASIC's registers is never  *)
(* stale (snoop_classic_palette), and every variable keeps its range.       *)
ChipsRight ==
  /\ bench = "z80" => InterruptBoundary
  /\ bench = "asic" => CopyIsCurrent /\ AsicTypeOK
  /\ bench = "tape" => TapeTypeOK
  /\ bench = "debugger" => DebugTypeOK

(* The arithmetic gives what Z80 programs count on: decimal adjustment,     *)
(* ordering, chained carries, counting, block flags (alu, daa, adc16, inc8, *)
(* blkio_f).                                                                *)
ArithmeticRight ==
  bench = "alu" => DecimalAdjust /\ FlagsOrder /\ CountsAndRotates /\ BlockFlags

(* What each chip owes it gets round to: an NMI is taken, DMA gives the bus *)
(* back, a tape runs out and a breakpoint on the guest's path stops it      *)
(* (z80_tick, dma_service, pulse_done, sync_probe).                         *)
Owed ==
  CASE bench = "z80" -> NmiOwed
    [] bench = "asic" -> BusOwed
    [] bench = "tape" -> EndOwed(LongTape)
    [] bench = "debugger" -> StopOwed
    [] OTHER -> FALSE

ChipsGoOn == Owed ~> ~Owed

=============================================================================
