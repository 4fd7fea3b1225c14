------------------------------- MODULE Sound --------------------------------
(***************************************************************************)
(* The PSG (src/src/hw/psg.cpp) behind the PPI (src/src/hw/ppi.cpp).  The  *)
(* tone, noise and envelope generators are the same circuit, a prescaler   *)
(* and a period counter, and the fast tier skips the steps in which none   *)
(* of them fires.  The guest reaches the registers through port A and the  *)
(* two function bits of port C, and the PSG acts on a change of its lines. *)
(***************************************************************************)
EXTENDS Naturals, FiniteSetsExt

CONSTANTS
  Pre,       \* each generator's prescaler (8, 16 and 256 in the code)
  EnvMax,    \* 31 in the code: the last envelope step
  Bytes,     \* the bytes a guest puts on port A
  RegOf,     \* the register a byte selects: a generator's period, the shape, another
  PeriodOf,  \* the period a byte programs, masked to the register's width
  Reset      \* the period, shape and port A of a reset machine: the byte 0

VARIABLES
  gen,       \* each generator: prescaler, counter, period
  env,       \* the envelope: shape, step, level, direction, holding
  eclk,      \* envelope clocks since the shape was written, Never before that
  ppi,       \* port A, the function bits of port C, port A's direction
  ay         \* the PSG's side: selected register and the lines it last saw

soundVars == <<gen, env, eclk, ppi, ay>>

Gens == DOMAIN Pre
IsSet(v, i) == (v \div 2^i) % 2 = 1
EnvLen == EnvMax + 1
Never == 3 * EnvLen
Fns == {"inactive", "read", "write", "latch"}

\* An input port A reads as all ones.
Float == 255

ASSUME SoundAssumption ==
  /\ "env" \in Gens /\ \A g \in Gens : Pre[g] \in Nat \ {0}
  /\ EnvMax \in Nat
  /\ {Reset, Float} \subseteq Bytes /\ \A b \in Bytes : PeriodOf[b] \in Nat

SoundTypeOK ==
  /\ \A g \in Gens : /\ gen[g].div \in 0..(Pre[g] - 1) /\ gen[g].cnt \in Nat
                     /\ gen[g].per \in {PeriodOf[b] : b \in Bytes}
  /\ env.shape \in Bytes /\ env.step \in 0..EnvMax /\ env.level \in 0..EnvMax
  /\ env.up \in BOOLEAN /\ env.hold \in BOOLEAN
  /\ eclk \in 0..Never
  /\ ppi.fn \in Fns /\ ppi.input \in BOOLEAN /\ ppi.a \in Bytes
  /\ ay.sel \in {RegOf[b] : b \in Bytes} /\ ay.fn \in Fns

-----------------------------------------------------------------------------
(* The envelope. *)
env_restart(s) ==
  [shape |-> s, step |-> 0, hold |-> FALSE, up |-> IsSet(s, 2),
   level |-> IF IsSet(s, 2) THEN 0 ELSE EnvMax]

(* Mutant: a held segment ends where it began. *)
env_clock_hold_swapped(e) ==
  IF e.hold THEN e
  ELSE IF e.step < EnvMax
  THEN [e EXCEPT !.step = @ + 1, !.level = IF e.up THEN e.step + 1 ELSE EnvMax - (e.step + 1)]
  ELSE IF ~IsSet(e.shape, 3) THEN [e EXCEPT !.step = 0, !.hold = TRUE, !.level = 0]
  ELSE IF IsSet(e.shape, 0)
  THEN [e EXCEPT !.step = 0, !.hold = TRUE,
                 !.level = IF e.up = IsSet(e.shape, 1) THEN EnvMax ELSE 0]
  ELSE LET up == IF IsSet(e.shape, 1) THEN ~e.up ELSE e.up
       IN  [e EXCEPT !.step = 0, !.up = up, !.level = IF up THEN 0 ELSE EnvMax]

env_clock(e) ==
  IF e.hold THEN e
  ELSE IF e.step < EnvMax
  THEN [e EXCEPT !.step = @ + 1, !.level = IF e.up THEN e.step + 1 ELSE EnvMax - (e.step + 1)]
  ELSE IF ~IsSet(e.shape, 3) THEN [e EXCEPT !.step = 0, !.hold = TRUE, !.level = 0]
  ELSE IF IsSet(e.shape, 0)
  THEN [e EXCEPT !.step = 0, !.hold = TRUE,
                 !.level = IF e.up = IsSet(e.shape, 1) THEN 0 ELSE EnvMax]
  ELSE LET up == IF IsSet(e.shape, 1) THEN ~e.up ELSE e.up
       IN  [e EXCEPT !.step = 0, !.up = up, !.level = IF up THEN 0 ELSE EnvMax]

(* What the chip's data sheet draws for each shape, k clocks after the      *)
(* write: the reference for env_clock.                                      *)
Waveform(s, k) ==
  LET seg == k \div EnvLen
      pos == k % EnvLen
      attack == IsSet(s, 2)
      up == IF IsSet(s, 1) /\ seg % 2 = 1 THEN ~attack ELSE attack
      ramp == IF up THEN pos ELSE EnvMax - pos
      last == IF attack # IsSet(s, 1) THEN EnvMax ELSE 0
  IN  IF seg = 0 THEN IF attack THEN pos ELSE EnvMax - pos
      ELSE IF ~IsSet(s, 3) THEN 0
      ELSE IF IsSet(s, 0) THEN last ELSE ramp

(* Segment 3 repeats segment 1. *)
Clocked(k) == IF k = Never THEN Never ELSE IF k + 1 = 3 * EnvLen THEN EnvLen ELSE k + 1

-----------------------------------------------------------------------------
(* The generators. *)
Period(g) == IF g.per = 0 THEN 1 ELSE g.per

GenStep(g, pre) ==
  IF g.div + 1 < pre THEN [g EXCEPT !.div = @ + 1]
  ELSE IF g.cnt + 1 < Period(g) THEN [g EXCEPT !.div = 0, !.cnt = @ + 1]
  ELSE [g EXCEPT !.div = 0, !.cnt = 0]

Steps(gs) == [g \in Gens |-> GenStep(gs[g], Pre[g])]
Fires(g) == gen[g].div + 1 = Pre[g] /\ gen[g].cnt + 1 >= Period(gen[g])

(* Steps until this generator fires, and until any does. *)
psg_event_in(g, pre) ==
  LET ticks == IF Period(g) > g.cnt THEN Period(g) - g.cnt ELSE 1
  IN  (pre - g.div) + (ticks - 1) * pre

(* Mutant: the count a period change leaves above the period is not seen. *)
quiet_steps_late(gs) ==
  LET in == {(Pre[g] - gs[g].div) + (Period(gs[g]) - 1) * Pre[g] : g \in Gens}
  IN  Min(in)

quiet_steps(gs) ==
  LET in == {psg_event_in(gs[g], Pre[g]) : g \in Gens}
  IN  Min(in)

psg_batch_skip(gs, n) ==
  [g \in Gens |-> [gs[g] EXCEPT !.div = (gs[g].div + n) % Pre[g],
                                !.cnt = @ + (gs[g].div + n) \div Pre[g]]]

sound_step ==
  /\ gen' = Steps(gen)
  /\ IF Fires("env")
     THEN env' = env_clock(env) /\ eclk' = Clocked(eclk)
     ELSE UNCHANGED <<env, eclk>>
  /\ UNCHANGED <<ppi, ay>>

(* fs_audio_steps: the quiet steps ahead are taken at once. *)
fs_audio_skip(n) ==
  /\ n < quiet_steps(gen)
  /\ gen' = psg_batch_skip(gen, n)
  /\ UNCHANGED <<env, eclk, ppi, ay>>

-----------------------------------------------------------------------------
(* The lines.  The PSG acts when they differ from the ones it last saw; an   *)
(* input port A drives nothing and the byte reads as all ones.               *)
Lines(p) == [fn |-> p.fn, da |-> IF p.input THEN Float ELSE p.a]

(* A write to the selected register; the shape restarts the envelope. *)
Written(d) ==
  /\ gen' = IF ay.sel \in Gens THEN [gen EXCEPT ![ay.sel].per = PeriodOf[d]] ELSE gen
  /\ IF ay.sel = "shape"
     THEN env' = env_restart(d) /\ eclk' = 0
     ELSE UNCHANGED <<env, eclk>>

ay_apply(l) ==
  /\ ay' = [sel |-> IF l.fn = "latch" THEN RegOf[l.da] ELSE ay.sel, fn |-> l.fn, da |-> l.da]
  /\ IF l.fn = "write" THEN Written(l.da) ELSE UNCHANGED <<gen, env, eclk>>

ay_bus(p) ==
  /\ ppi' = p
  /\ IF Lines(p) # [fn |-> ay.fn, da |-> ay.da]
     THEN ay_apply(Lines(p))
     ELSE UNCHANGED <<gen, env, eclk, ay>>

(* OUT to port A, to port C or its bit-set form, and a mode word, which      *)
(* clears every port.                                                        *)
PortA(b) == ay_bus([ppi EXCEPT !.a = b])
PortC(fn) == ay_bus([ppi EXCEPT !.fn = fn])
Mode(input) == ay_bus([a |-> Reset, fn |-> "inactive", input |-> input])

SoundInit ==
  /\ gen = [g \in Gens |-> [div |-> 0, cnt |-> 0, per |-> PeriodOf[Reset]]]
  /\ env = [shape |-> Reset, step |-> 0, level |-> 0, up |-> FALSE, hold |-> FALSE]
  /\ eclk = Never
  /\ ppi = [a |-> Reset, fn |-> "inactive", input |-> TRUE]
  /\ ay = [sel |-> RegOf[Reset], fn |-> "inactive", da |-> Reset]

SoundNext ==
  \/ sound_step
  \/ \E n \in 1..(quiet_steps(gen) - 1) : fs_audio_skip(n)
  \/ \E b \in Bytes : PortA(b)
  \/ \E fn \in Fns : PortC(fn)
  \/ \E input \in BOOLEAN : Mode(input)

-----------------------------------------------------------------------------
(* The envelope draws the waveform of its shape, however many clocks ago it *)
(* was written and whatever the other shape before it was doing.            *)
EnvelopeShape == eclk # Never => env.level = Waveform(env.shape, eclk)

(* Skipping is stepping: the fast tier's bulk advance by any number of      *)
(* quiet steps leaves the generators where as many single steps would, and  *)
(* no generator fires meanwhile, also right after a period has shrunk below *)
(* the count (psg_batch_quiet_steps).                                       *)
SkipIsSteps ==
  LET quiet == quiet_steps(gen)
      after[n \in 0..quiet] == IF n = 0 THEN gen ELSE Steps(after[n - 1])
  IN  \A n \in 0..(quiet - 1) : after[n] = psg_batch_skip(gen, n)
=============================================================================
