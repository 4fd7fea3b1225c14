------------------------------ MODULE Z80Seq ------------------------------
(* The two engines of the Z80 (src/src/hw/z80.cpp): z80_tick walks an instruction
   T-state by T-state under the Gate Array's clock and /WAIT, z80_batch_step runs it
   in one call and computes the same times from tstates alone.  Both drive the same
   micro-programs, which are modelled as the list of machine cycles they request;
   register and memory contents are left out, PC is relative to the address the
   next instruction starts at, and tstates to the last instruction boundary.       *)
EXTENDS Integers, Sequences, SequencesExt

CONSTANTS Instrs,    \* instructions: [bytes fetched by M1 cycles, prefixes first;
                     \* does it jump or repeat]
          SkewInstrs,\* bound: the ones that run while tstates is out of step
          HaltHops   \* T-states a batch may let a halted CPU run at once

DD == 221
FD == 253
CB == 203
ED == 237

\* a byte is a prefix unless ED or CB came before it; CB after DD or FD is an opcode
Escaped(b, n) == \E j \in 1..(n - 1) : b[j] \in {ED, CB}
Indexed(b, n) == \E j \in 1..(n - 1) : b[j] \in {DD, FD}
PrefixAt(b, n) == ~Escaped(b, n) /\ (b[n] \in {DD, FD, ED} \/ (b[n] = CB /\ ~Indexed(b, n)))

\* the bytes of one instruction: prefixes, and an opcode that is none
Encodes(b) ==
  /\ b \in Seq(0..255) /\ b # <<>>
  /\ \A n \in 1..Len(b) : PrefixAt(b, n) <=> n < Len(b)

ASSUME SeqAssumption == \A ins \in Instrs \cup SkewInstrs : Encodes(ins.bytes)

VARIABLES zt,        \* the processor, as z80_tick leaves it
          zb,        \* history: what the batch engine makes of the instruction that runs
          zins,      \* the instruction in memory at PC, and whether it jumps or repeats
          zslot,     \* the Gate Array's T-slot of the microsecond
          zbus       \* /BUSRQ and /INT; has the CPU run since the last burst

zVars == <<zt, zb, zins, zslot, zbus>>

\* the processor after a reset; bytes, afterEi and log are history
Power == [mc |-> "M1", t |-> 0, ilen |-> 0, step |-> 0, prefix |-> 0, index |-> "HL",
          op |-> 0, taken |-> FALSE, bytes |-> 0, serv |-> "NONE", iff1 |-> FALSE,
          iff2 |-> FALSE, im |-> 0, halted |-> FALSE, haltT |-> 0, nmi |-> FALSE,
          ei |-> FALSE, afterEi |-> FALSE, pc |-> 0, r |-> 0, ts |-> 0, log |-> <<>>]

(* --- machine cycles a micro-program requests ---------------------------------- *)
Rd == <<"READ", 0>>
Wr == <<"WRITE", 0>>
Pc == <<"READ", 1>>      \* the byte at PC, then pcinc
In == <<"IN", 0>>
Out == <<"OUT", 0>>
Idle(n) == <<"INTERNAL", n>>
Ack(n) == <<"IOACK", n>>

x_(op) == op \div 64
y_(op) == (op \div 8) % 8
z_(op) == op % 8
When(c, s) == IF c THEN s ELSE <<>>

x0_step(y, z) ==
  CASE z = 3        -> <<Idle(2)>>
    [] z \in {4, 5} -> When(y = 6, <<Rd, Idle(1), Wr>>)
    [] z = 6        -> <<Pc>> \o When(y = 6, <<Wr>>)
    [] z = 7        -> <<>>

micro_x0(y, z, taken) ==
  CASE z = 0 /\ y < 2  -> <<>>
    [] z = 0 /\ y = 2  -> <<Idle(1), Pc>> \o When(taken, <<Idle(5)>>)
    [] z = 0 /\ y = 3  -> <<Pc, Idle(5)>>
    [] z = 0 /\ y > 3  -> <<Pc>> \o When(taken, <<Idle(5)>>)
    [] z = 1           -> IF y % 2 = 0 THEN <<Pc, Pc>> ELSE <<Idle(7)>>
    [] z = 2 /\ y < 4  -> IF y % 2 = 1 THEN <<Rd>> ELSE <<Wr>>
    [] z = 2 /\ y >= 4 -> <<Pc, Pc>> \o <<<<Wr, Wr>>, <<Rd, Rd>>, <<Wr>>, <<Rd>>>>[y - 3]
    [] OTHER           -> x0_step(y, z)

micro_x1(y, z) ==
  CASE y = 6 /\ z = 6 -> <<>>
    [] z = 6 /\ y # 6 -> <<Rd>>
    [] y = 6 /\ z # 6 -> <<Wr>>
    [] OTHER          -> <<>>

x3_flow(y, z, taken) ==
  CASE z = 0 -> <<Idle(1)>> \o When(taken, <<Rd, Rd>>)
    [] z = 1 -> CASE y % 2 = 0 \/ y = 1 -> <<Rd, Rd>>
                  [] y = 7              -> <<Idle(2)>>
                  [] OTHER              -> <<>>
    [] z = 2 -> <<Pc, Pc>>

x3_push(y, z, taken) ==
  CASE z = 4 -> <<Pc, Pc>> \o When(taken, <<Idle(1), Wr, Wr>>)
    [] z = 5 -> CASE y % 2 = 0 -> <<Idle(1), Wr, Wr>>
                  [] y = 1     -> <<Pc, Pc, Idle(1), Wr, Wr>>
                  [] OTHER     -> <<>>
    [] z = 6 -> <<Pc>>
    [] z = 7 -> <<Idle(1), Wr, Wr>>

x3_misc(y) ==
  CASE y = 0 -> <<Pc, Pc>>
    [] y = 2 -> <<Pc, Out>>
    [] y = 3 -> <<Pc, In>>
    [] y = 4 -> <<Rd, Rd, Idle(1), Wr, Wr, Idle(2)>>
    [] OTHER -> <<>>

micro(op, taken) ==
  LET y == y_(op)  z == z_(op)
  IN  CASE x_(op) = 0 -> micro_x0(y, z, taken)
        [] x_(op) = 1 -> micro_x1(y, z)
        [] x_(op) = 2 -> When(z = 6, <<Rd>>)
        [] x_(op) = 3 -> IF z < 3 THEN x3_flow(y, z, taken)
                         ELSE IF z = 3 THEN x3_misc(y) ELSE x3_push(y, z, taken)

block_ld(again) == <<Rd, Wr, Idle(2)>> \o When(again, <<Idle(5)>>)
block_cp(again) == <<Rd, Idle(5)>> \o When(again, <<Idle(5)>>)
block_in(again) == <<Idle(1), In, Wr>> \o When(again, <<Idle(5)>>)
block_out(again) == <<Idle(1), Rd, Out>> \o When(again, <<Idle(5)>>)

\* LDIR, CPIR, INIR, OTIR and their downward forms
Repeats(op) == x_(op) = 2 /\ z_(op) < 4 /\ y_(op) >= 6

ed_block(op, again) ==
  CASE z_(op) = 0 -> block_ld(again)
    [] z_(op) = 1 -> block_cp(again)
    [] z_(op) = 2 -> block_in(again)
    [] z_(op) = 3 -> block_out(again)

ed_misc(y, z) ==
  CASE z = 0 -> <<In>>
    [] z = 1 -> <<Out>>
    [] z = 2 -> <<Idle(7)>>
    [] z = 3 -> <<Pc, Pc>> \o (IF y % 2 = 0 THEN <<Wr, Wr>> ELSE <<Rd, Rd>>)
    [] z = 5 -> <<Rd, Rd>>
    [] z = 7 -> IF y < 4 THEN <<Idle(1)>> ELSE When(y < 6, <<Rd, Idle(4), Wr>>)
    [] OTHER -> <<>>

micro_ed(op, again) ==
  CASE x_(op) = 1                               -> ed_misc(y_(op), z_(op))
    [] x_(op) = 2 /\ z_(op) < 4 /\ y_(op) >= 4  -> ed_block(op, again /\ Repeats(op))
    [] OTHER                                    -> <<>>

micro_cb(op) ==
  When(z_(op) = 6, <<Rd, Idle(1)>> \o When(x_(op) # 1, <<Wr>>))

\* does the opcode after DD or FD use (IX+d) / (IY+d)?
idx_uses_mem(op) ==
  LET x == x_(op)  y == y_(op)  z == z_(op)
  IN  \/ x = 1 /\ (z = 6) # (y = 6)
      \/ x = 2 /\ z = 6
      \/ x = 0 /\ z \in {4, 5, 6} /\ y = 6

micro_index(op) ==
  CASE x_(op) = 0 /\ z_(op) = 6 -> <<Pc, Pc, Idle(2), Wr>>
    [] x_(op) = 1               -> <<Pc, Idle(5)>> \o (IF z_(op) = 6 THEN <<Rd>> ELSE <<Wr>>)
    [] x_(op) = 2               -> <<Pc, Idle(5), Rd>>
    [] OTHER                    -> <<Pc, Idle(5), Rd, Idle(1), Wr>>

\* taken: the sub-opcode is not a BIT
micro_ddcb(taken) == <<Pc, Pc, Idle(3), Rd>> \o When(taken, <<Wr>>)

micro_interrupt(serv, im) ==
  <<Ack(IF serv = "NMI" THEN 4 ELSE 6), Wr, Wr>> \o When(serv = "MASKABLE" /\ im = 2, <<Rd, Rd>>)

\* run_micro: which micro-program the processor is in
run_micro(z) ==
  CASE z.serv # "NONE"                    -> "int"
    [] z.serv = "NONE" /\ z.prefix = CB   -> "cb"
    [] z.serv = "NONE" /\ z.prefix = ED   -> "ed"
    [] z.serv = "NONE" /\ z.prefix = 0    ->
         IF z.index = "HL" THEN "main"
         ELSE IF z.op = CB THEN "ddcb" ELSE IF idx_uses_mem(z.op) THEN "index" ELSE "main"

Cycles(z) ==
  CASE run_micro(z) = "int"   -> micro_interrupt(z.serv, z.im)
    [] run_micro(z) = "cb"    -> micro_cb(z.op)
    [] run_micro(z) = "ed"    -> micro_ed(z.op, z.taken)
    [] run_micro(z) = "ddcb"  -> micro_ddcb(z.taken)
    [] run_micro(z) = "index" -> micro_index(z.op)
    [] run_micro(z) = "main"  -> micro(z.op, z.taken)

(* --- the last step of a micro-program, finish() included ----------------------- *)
\* where the instruction that just ended says execution goes on
Continues(z) ==
  LET g == run_micro(z)
      len == z.bytes + Cardinality({i \in DOMAIN Cycles(z) : Cycles(z)[i] = Pc})
  IN  CASE g = "int"                               -> 0      \* its jump is left out
        [] g = "ed" /\ Repeats(z.op) /\ z.taken    -> len - 2
        [] OTHER                                   -> len

finish(z) ==
  LET \* what a control instruction leaves behind
      Control ==
        LET g == run_micro(z)
        IN CASE g = "main" /\ z.op = 118 -> [z EXCEPT !.halted = TRUE, !.pc = @ - 1]   \* HALT
             [] g = "main" /\ z.op = 243 -> [z EXCEPT !.iff1 = FALSE, !.iff2 = FALSE]  \* DI
             [] g = "main" /\ z.op = 251 ->
                  [z EXCEPT !.iff1 = TRUE, !.iff2 = TRUE, !.ei = TRUE]                 \* EI
             [] g = "ed" /\ x_(z.op) = 1 /\ z_(z.op) = 5 -> [z EXCEPT !.iff1 = z.iff2] \* RETN
             [] g = "ed" /\ x_(z.op) = 1 /\ z_(z.op) = 6 ->
                  [z EXCEPT !.im = <<0, 0, 1, 2, 0, 0, 1, 2>>[y_(z.op) + 1]]           \* IM
             [] g = "ed" /\ Repeats(z.op) /\ z.taken -> [z EXCEPT !.pc = @ - 2]
             [] OTHER -> z
  IN
  [Control EXCEPT !.mc = "M1", !.t = 0, !.step = 0, !.prefix = 0, !.index = "HL",
                     !.serv = "NONE", !.pc = @ - Continues(z), !.bytes = 0,
                     !.op = 0, !.taken = FALSE, !.ilen = 0,
                     !.afterEi = (run_micro(z) = "main" /\ z.op = 251)]

\* the next machine cycle, or the end
Request(z) ==
  IF z.step < Len(Cycles(z))
  THEN LET c == Cycles(z)[z.step + 1]
       IN  [z EXCEPT !.mc = c[1], !.t = 0, !.ilen = IF c[1] \in {"INTERNAL", "IOACK"} THEN c[2] ELSE 0,
                     !.pc = IF c = Pc THEN @ + 1 ELSE @]
  ELSE finish(z)

StepOn(z) == Request([z EXCEPT !.step = @ + 1])

(* --- interrupts and prefixes, which the engines share --------------------------- *)
Accepts(z, irq) == z.nmi \/ (z.iff1 /\ irq /\ ~z.ei)

\* Mutant: the latched NMI edge is not consumed
Accept_keeps(z) ==
  IF z.nmi THEN [z EXCEPT !.iff1 = FALSE, !.ei = FALSE, !.r = @ + 1, !.serv = "NMI", !.step = 0]
  ELSE [z EXCEPT !.iff1 = FALSE, !.iff2 = FALSE, !.ei = FALSE, !.r = @ + 1,
                 !.serv = "MASKABLE", !.step = 0]

\* the start of an accepted interrupt: R moves on, the IFFs fall
Accept(z) ==
  IF z.nmi THEN [z EXCEPT !.nmi = FALSE, !.iff1 = FALSE, !.ei = FALSE, !.r = @ + 1,
                          !.serv = "NMI", !.step = 0]
  ELSE [z EXCEPT !.iff1 = FALSE, !.iff2 = FALSE, !.ei = FALSE, !.r = @ + 1,
                 !.serv = "MASKABLE", !.step = 0]

IsPrefix_(z, b) ==
  z.prefix = 0 /\ (b \in {DD, FD, ED} \/ (b = CB /\ z.index = "HL"))

TakePrefix(z, b) ==
  CASE b = DD -> [z EXCEPT !.index = "IX", !.mc = "M1", !.t = 0]
    [] b = FD -> [z EXCEPT !.index = "IY", !.mc = "M1", !.t = 0]
    [] b = ED -> [z EXCEPT !.prefix = ED, !.index = "HL", !.mc = "M1", !.t = 0]
    [] b = CB -> [z EXCEPT !.prefix = CB, !.mc = "M1", !.t = 0]

z80_batch_ready(z) ==
  /\ z.mc = "M1" /\ z.t = 0 /\ z.step = 0 /\ z.prefix = 0 /\ z.index = "HL"
  /\ z.serv = "NONE"

(* --- the batch engine ----------------------------------------------------------- *)
align_mem(n) == n + ((4 - (n % 4)) % 4)

Logged(z, kind, at) == [z EXCEPT !.log = Append(@, <<kind, at>>)]

\* Mutant: the I/O cycle does not wait for the released slot
satisfy_free(b, c) ==
  CASE c[1] \in {"READ", "WRITE"} ->
         LET n == align_mem(b.ts)
         IN  [Logged(b, c[1], n) EXCEPT !.ts = n + 3, !.pc = IF c = Pc THEN @ + 1 ELSE @]
    [] c[1] = "INTERNAL" -> [b EXCEPT !.ts = @ + c[2]]
    [] c[1] \in {"IN", "OUT"} -> [Logged(b, c[1], b.ts) EXCEPT !.ts = b.ts + 4]
    [] c[1] = "IOACK" ->
         LET n == align_mem(b.ts) IN [Logged(b, c[1], n) EXCEPT !.ts = n + c[2]]

satisfy(b, c) ==
  CASE c[1] \in {"READ", "WRITE"} ->
         LET n == align_mem(b.ts)
         IN  [Logged(b, c[1], n) EXCEPT !.ts = n + 3, !.pc = IF c = Pc THEN @ + 1 ELSE @]
    [] c[1] = "INTERNAL" -> [b EXCEPT !.ts = @ + c[2]]
    [] c[1] \in {"IN", "OUT"} ->
         LET s == b.ts + 2
             sample == s + ((1 - (s % 4)) % 4)
         IN  [Logged(b, c[1], IF c = In THEN sample ELSE b.ts) EXCEPT !.ts = sample + 2]
    [] c[1] = "IOACK" ->
         LET n == align_mem(b.ts) IN [Logged(b, c[1], n) EXCEPT !.ts = n + c[2]]

run_to_finish(b) == finish(FoldLeft(satisfy, b, Cycles(b)))

fetch_m1(b) ==
  LET n == align_mem(b.ts)
  IN  [Logged(b, "M1", n) EXCEPT !.ts = n + 4, !.pc = @ + 1, !.r = @ + 1, !.bytes = @ + 1]

batch_fetch(b, byte) ==
  LET f == fetch_m1(b)
  IN  IF IsPrefix_(f, byte) THEN TakePrefix(f, byte) ELSE [f EXCEPT !.op = byte]

Wake(z) == [z EXCEPT !.halted = FALSE, !.haltT = 0, !.pc = @ + 1]

\* Mutant: HALT is woken without stepping over it
z80_batch_step_stays(z, irq, ins) ==
  LET w == IF z.halted THEN [z EXCEPT !.halted = FALSE, !.haltT = 0] ELSE z
  IN  IF Accepts(w, irq)
      THEN run_to_finish(Accept([w EXCEPT !.ts = align_mem(@) + 1]))
      ELSE run_to_finish([FoldLeft(batch_fetch, [w EXCEPT !.ei = FALSE], ins.bytes)
                            EXCEPT !.taken = ins.taken])

z80_batch_step(z, irq, ins) ==
  LET w == IF z.halted THEN Wake(z) ELSE z
  IN  IF Accepts(w, irq)
      THEN run_to_finish(Accept([w EXCEPT !.ts = align_mem(@) + 1]))
      ELSE run_to_finish([FoldLeft(batch_fetch, [w EXCEPT !.ei = FALSE], ins.bytes)
                            EXCEPT !.taken = ins.taken])

z80_batch_halt(z, n) ==
  LET total == z.haltT + n
  IN  [z EXCEPT !.ts = @ + n, !.r = @ + total \div 4, !.haltT = total % 4]

(* --- the T-state engine --------------------------------------------------------- *)
wait == zslot # 1     \* ga_clock_out: /WAIT is released in T-slot 1 only

\* T1 of a memory cycle waits for slot 0
Held(z) == z.t = 0 /\ z.mc \notin {"INTERNAL", "IN", "OUT"} /\ zslot # 0

\* Mutant: an interrupt is taken between a prefix and its opcode
tick_m1_anywhere(z) ==
  CASE z.t = 1 /\ Accepts(z, zbus.irq) -> Request(Accept(z))
    [] z.t = 1 /\ ~Accepts(z, zbus.irq) ->
         [Logged(z, "M1", z.ts - 1) EXCEPT !.ei = FALSE, !.pc = @ + 1, !.bytes = @ + 1]
    [] z.t = 2 -> z
    [] z.t = 3 -> [z EXCEPT !.op = zins.bytes[z.bytes], !.r = @ + 1]
    [] z.t = 4 -> IF IsPrefix_(z, z.op) THEN TakePrefix([z EXCEPT !.op = 0], z.op)
                  ELSE Request([z EXCEPT !.taken = zins.taken])

\* M1: interrupts are looked at before an unprefixed fetch, the opcode is in at T3
tick_m1(z) ==
  LET clean == z.prefix = 0 /\ z.index = "HL"
  IN CASE z.t = 1 /\ clean /\ Accepts(z, zbus.irq) -> Request(Accept(z))
       [] z.t = 1 /\ ~(clean /\ Accepts(z, zbus.irq)) ->
            [Logged(z, "M1", z.ts - 1) EXCEPT !.ei = IF clean THEN FALSE ELSE @,
                                              !.pc = @ + 1, !.bytes = @ + 1]
       [] z.t = 2 -> z
       [] z.t = 3 -> [z EXCEPT !.op = zins.bytes[z.bytes], !.r = @ + 1]
       [] z.t = 4 -> IF IsPrefix_(z, z.op) THEN TakePrefix([z EXCEPT !.op = 0], z.op)
                     ELSE Request([z EXCEPT !.taken = zins.taken])

\* READ and WRITE: three T-states, T2 repeated while /WAIT is down
tick_mem(z) ==
  CASE z.t = 1 -> Logged(z, z.mc, z.ts - 1)
    [] z.t = 2 -> IF wait THEN [z EXCEPT !.t = 1] ELSE z
    [] z.t = 3 -> StepOn(z)

\* I/O: four T-states, the third repeated while /WAIT is down; a read samples there
tick_io(z) ==
  CASE z.t = 1 -> IF z.mc = "OUT" THEN Logged(z, "OUT", z.ts - 1) ELSE z
    [] z.t = 2 -> z
    [] z.t = 3 -> IF wait THEN [z EXCEPT !.t = 2]
                  ELSE IF z.mc = "IN" THEN Logged(z, "IN", z.ts - 1) ELSE z
    [] z.t = 4 -> StepOn(z)

tick_internal(z) == IF z.t >= z.ilen THEN StepOn(z) ELSE z

tick_ack(z) ==
  LET l == IF z.t = 1 THEN Logged(z, "IOACK", z.ts - 1) ELSE z
  IN  IF z.t >= z.ilen THEN StepOn(l) ELSE l

tick_cycle(z) ==
  CASE z.mc = "M1"               -> tick_m1(z)
    [] z.mc \in {"READ", "WRITE"} -> tick_mem(z)
    [] z.mc \in {"IN", "OUT"}     -> tick_io(z)
    [] z.mc = "INTERNAL"         -> tick_internal(z)
    [] z.mc = "IOACK"            -> tick_ack(z)

(* zb.stage: "none", "from" (st is the boundary the instruction starts at), "run" (st is
   where the batch engine ends up), "halt" (the same for a hop of a halted CPU, of which
   left T-states remain).  The batch engine is asked only when tstates is in step with
   the Gate Array's slots.                                                           *)
Off == [stage |-> "none", left |-> 0, st |-> Power]
From(z) == IF (z.ts - zslot) % 4 = 0 THEN [stage |-> "from", left |-> 0, st |-> z] ELSE Off

\* nothing to compare with: only the slot tstates stands for is kept
Adrift(z) == [z EXCEPT !.ts = @ % 4, !.r = 0, !.log = <<>>]

Fresh == z80_batch_ready(zt) /\ (zb.stage \in {"none", "run"} \/ (zb.stage = "halt" /\ zb.left = 0))

\* a boundary starts times, R and the log again
Now ==
  IF Fresh THEN Adrift(zt) ELSE zt

Slot == zslot' = (zslot + 1) % 4

\* Mutant: R counts halted T-states from the last wake only
tick_halted_slow ==
  /\ Now.halted /\ ~Accepts(Now, zbus.irq)
  /\ LET z1 == [Now EXCEPT !.ts = @ + 1, !.haltT = (@ + 1) % 4]
     IN  /\ zt' = z1
         /\ IF Fresh
            THEN \E n \in HaltHops :
                   zb' = [stage |-> "halt", left |-> n - 1, st |-> z80_batch_halt(Now, n)]
            ELSE zb' = [zb EXCEPT !.left = @ - 1]
  /\ Slot
  /\ UNCHANGED <<zins, zbus>>

tick_halted ==
  /\ Now.halted /\ ~Accepts(Now, zbus.irq)
  /\ LET z1 == [Now EXCEPT !.ts = @ + 1, !.haltT = (@ + 1) % 4,
                           !.r = IF Now.haltT = 3 THEN @ + 1 ELSE @]
     IN  /\ zt' = z1
         /\ IF Fresh
            THEN \E n \in HaltHops :
                   zb' = [stage |-> "halt", left |-> n - 1, st |-> z80_batch_halt(Now, n)]
            ELSE zb' = [zb EXCEPT !.left = @ - 1]
  /\ Slot
  /\ UNCHANGED <<zins, zbus>>

\* an interrupt steps a halted CPU over its HALT
Awake == IF Now.halted THEN Wake(Now) ELSE Now
Seen == IF Fresh \/ Now.halted THEN From(Now) ELSE zb
Runs == ~Now.halted \/ Accepts(Now, zbus.irq)

\* /BUSRQ at a machine-cycle boundary: the CPU lets go and its T-states stop
tick_busak ==
  /\ Runs /\ Awake.t = 0 /\ zbus.busrq
  /\ zt' = Adrift(Awake) /\ zb' = Off
  /\ Slot
  /\ UNCHANGED <<zins, zbus>>

tick_held ==
  /\ Runs /\ ~(Awake.t = 0 /\ zbus.busrq) /\ Held(Awake)
  /\ zt' = [Awake EXCEPT !.ts = @ + 1] /\ zb' = Seen
  /\ Slot
  /\ UNCHANGED <<zins, zbus>>

\* a T-state; at a boundary the next instruction is in memory, and the batch engine
\* is asked what it would do
tick_runs ==
  /\ Runs /\ ~(Awake.t = 0 /\ zbus.busrq) /\ ~Held(Awake)
  /\ IF z80_batch_ready(Awake) /\ ~Accepts(Awake, zbus.irq)
     THEN zins' \in IF (Awake.ts - zslot) % 4 = 0 THEN Instrs ELSE SkewInstrs
     ELSE UNCHANGED zins
  /\ zb' = IF z80_batch_ready(Awake) /\ Seen.stage = "from"
           THEN [stage |-> "run", left |-> 0, st |-> z80_batch_step(Seen.st, zbus.irq, zins')]
           ELSE Seen
  /\ LET z1 == tick_cycle([Awake EXCEPT !.ts = @ + 1, !.t = @ + 1])
     IN  zt' = IF zb'.stage = "none" THEN Adrift(z1) ELSE z1
  /\ zbus' = [zbus EXCEPT !.ran = TRUE, !.irq = @ /\ ~(zt.mc = "IOACK" /\ zt.serv = "MASKABLE")]
  /\ Slot

z80_tick == tick_halted \/ tick_busak \/ tick_held \/ tick_runs

(* --- the lines, and the front panel -------------------------------------------------- *)
nmi_edge ==
  /\ ~zt.nmi /\ zt.t = 0     \* it is looked at only when an instruction starts
  /\ zt' = [zt EXCEPT !.nmi = TRUE] /\ zb' = [zb EXCEPT !.st.nmi = (zb.stage # "none")]
  /\ UNCHANGED <<zins, zslot, zbus>>

\* the Gate Array raises INT; the acknowledge or an OUT to it takes it back
IrqLine ==
  /\ \/ ~zbus.irq /\ z80_batch_ready(zt)
     \/ zbus.irq /\ zt.mc = "OUT"
  /\ zbus' = [zbus EXCEPT !.irq = ~@]
  /\ UNCHANGED <<zt, zb, zins, zslot>>

\* the sound DMA asks for the bus, once in a scan line, and gives it back
BusLine ==
  /\ zbus.busrq \/ (zbus.ran /\ zins \in SkewInstrs)
  /\ zbus' = [zbus EXCEPT !.busrq = ~@, !.ran = FALSE]
  /\ UNCHANGED <<zt, zb, zins, zslot>>

\* the whole board starts again, the Gate Array's clock with it
z80_reset ==
  /\ zt' = Power /\ zb' = Off /\ zslot' = 0
  /\ UNCHANGED <<zins, zbus>>

\* registers set from outside (a snapshot, "reg set"): a clean boundary, tstates zero
z80_poke ==
  /\ z80_batch_ready(zt)
  /\ zt' = [Power EXCEPT !.iff1 = zt.iff1, !.iff2 = zt.iff2, !.im = zt.im,
                         !.halted = zt.halted, !.pc = IF zt.halted THEN -1 ELSE 0]
  /\ zb' = Off
  /\ UNCHANGED <<zins, zslot, zbus>>

SeqInit ==
  /\ zt = Power /\ zb = Off /\ zslot = 0
  /\ zins = [bytes |-> <<0>>, taken |-> FALSE]
  /\ zbus = [busrq |-> FALSE, irq |-> FALSE, ran |-> TRUE]

SeqNext == z80_tick \/ nmi_edge \/ IrqLine \/ BusLine \/ z80_reset \/ z80_poke

(* --- properties ------------------------------------------------------------------------ *)
(* The batch engine ends every instruction, accepted interrupt and stretch of HALT in
   the state z80_tick reaches T-state by T-state: the same bus cycles at the same
   times, the same Rd, PC, IFFs and HALT phase (z80_batch_step, z80_batch_halt).        *)
EnginesAgree ==
  /\ zb.stage = "run" /\ z80_batch_ready(zt) => zt = zb.st
  /\ zb.stage = "halt" /\ zb.left = 0 => zt = zb.st

(* An interrupt sequence starts only between instructions, never straight after EI,
   and returns to the instruction it displaced: the one after a HALT, or the block
   instruction that has not finished repeating.                                        *)
InterruptBoundary ==
  zt.serv # "NONE" =>
    /\ zt.prefix = 0 /\ zt.index = "HL" /\ zt.pc = 0
    /\ zt.serv = "MASKABLE" => ~zt.afterEi

(* An NMI edge is owed its acceptance, whatever prefixes, repeats, HALTs and bus steals
   are under way.                                                                        *)
NmiOwed == zt.nmi

=============================================================================
