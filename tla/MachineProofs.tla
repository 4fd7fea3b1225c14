--------------------------- MODULE MachineProofs ---------------------------
(***************************************************************************)
(* What holds of the Z80, the ASIC, the tape deck and the debugger for     *)
(* every guest program, DMA list, tape and set of breakpoints, on the      *)
(* bench of MCMachine and so in every composition that gives each part its *)
(* own steps.                                                              *)
(***************************************************************************)
EXTENDS MCMachine, TLAPS, FiniteSetTheorems, SequenceTheorems,
        NaturalsInduction, WellFoundedInduction

-----------------------------------------------------------------------------
(* Two lemmas that every part needs: a set of numbers has a least one, and *)
(* the entries of a sequence that are kept make a sequence.                *)
LEMMA LeastMember ==
  ASSUME NEW T \in SUBSET Nat, T # {}
  PROVE  \E m \in T : \A k \in T : m <= k
<1> DEFINE R == {ss \in Nat \X Nat : ss[1] < ss[2]}
<1>1. IsWellFoundedOn(R, Nat)
  BY NatLessThanWellFounded DEF OpToRel
<1>2. PICK m \in T : \A k \in T : ~(<<k, m>> \in R)
  <2> HIDE DEF R
  <2> QED BY <1>1, WFMin
<1>3. \A k \in T : <<k, m>> \in R <=> k < m
  OBVIOUS
<1>4. \A k \in T : m <= k
  <2> TAKE k \in T
  <2>1. k \in Nat /\ m \in Nat /\ ~(k < m)
    BY <1>2, <1>3
  <2> QED BY <2>1
<1> QED BY <1>4

\* Keeping some entries of a list gives a list of the same kind, no longer than it was.
LEMMA KeptKeeps ==
  ASSUME NEW S, NEW s \in Seq(S), NEW I \in SUBSET (DOMAIN s)
  PROVE  Kept(s, I) \in Seq(S) /\ Len(Kept(s, I)) <= Len(s)
<1> DEFINE n == Len(s)
           upto(i) == {j \in I : j <= i}
           rank(i) == Cardinality(upto(i))
<1>1. n \in Nat /\ DOMAIN s = 1..n /\ \A i \in 1..n : s[i] \in S
  OBVIOUS
<1> HIDE DEF n
<1>2. IsFiniteSet(1..n) /\ Cardinality(1..n) = n
  BY <1>1, FS_Interval
<1>3. IsFiniteSet(I) /\ Cardinality(I) \in Nat /\ Cardinality(I) <= n
  <2>1. I \in SUBSET (1..n)
    BY <1>1
  <2>2. IsFiniteSet(I) /\ Cardinality(I) <= Cardinality(1..n)
    BY <1>2, <2>1, FS_Subset
  <2> QED BY <1>2, <2>2, FS_CardinalityType
<1>4. \A i \in 0..n : IsFiniteSet(upto(i)) /\ rank(i) \in Nat
  <2> TAKE i \in 0..n
  <2>1. IsFiniteSet(upto(i))
    <3>1. upto(i) \in SUBSET I
      OBVIOUS
    <3> QED BY <1>3, <3>1, FS_Subset
  <2> QED BY <2>1, FS_CardinalityType
<1>5. rank(0) = 0 /\ rank(n) = Cardinality(I)
  <2>1. upto(0) = {} /\ upto(n) = I
    BY <1>1
  <2> QED BY <2>1, FS_EmptySet
<1>6. \A i \in 1..n : /\ i \in I => rank(i) = rank(i - 1) + 1
                      /\ i \notin I => rank(i) = rank(i - 1)
  <2> TAKE i \in 1..n
  <2>1. i - 1 \in 0..n /\ i \notin upto(i - 1)
    BY <1>1
  <2>2. ASSUME i \in I PROVE rank(i) = rank(i - 1) + 1
    <3>1. upto(i) = upto(i - 1) \cup {i}
      BY <1>1, <2>2
    <3>2. IsFiniteSet(upto(i - 1))
      BY <1>4, <2>1
    <3> HIDE DEF upto
    <3> QED BY <2>1, <3>1, <3>2, FS_AddElement
  <2>3. ASSUME i \notin I PROVE rank(i) = rank(i - 1)
    <3>1. upto(i) = upto(i - 1)
      BY <1>1, <2>3
    <3> QED BY <3>1
  <2> QED BY <2>2, <2>3
<1> HIDE DEF upto, rank
<1>7. \A k \in 1..Cardinality(I) : \E i \in I : rank(i) = k
  <2> TAKE k \in 1..Cardinality(I)
  <2> DEFINE T == {i \in 1..n : rank(i) >= k}
  <2>1. T \in SUBSET Nat
    BY <1>1
  <2>2. T # {}
    <3>1. n \in 1..n
      BY <1>1, <1>3
    <3>2. rank(n) >= k
      BY <1>3, <1>5
    <3> QED BY <3>1, <3>2
  <2>3. PICK m \in T : \A j \in T : m <= j
    <3> HIDE DEF T
    <3> QED BY <2>1, <2>2, LeastMember
  <2>4. m \in 1..n /\ rank(m) >= k /\ m - 1 \in 0..n
    BY <1>1
  <2>5. rank(m - 1) < k
    <3>1. CASE m = 1
      BY <1>3, <1>5, <3>1
    <3>2. CASE m # 1
      <4>1. m - 1 \in 1..n /\ ~(m <= m - 1)
        BY <1>1, <2>4, <3>2
      <4>2. m - 1 \notin T
        BY <2>3, <4>1
      <4>3. rank(m - 1) \in Nat
        BY <1>4, <2>4
      <4> QED BY <1>3, <4>1, <4>2, <4>3
    <3> QED BY <3>1, <3>2
  <2>6. rank(m) \in Nat /\ rank(m - 1) \in Nat /\ k \in Nat
    BY <1>1, <1>3, <1>4, <2>4
  <2>7. m \in I /\ rank(m) = k
    BY <1>6, <2>4, <2>5, <2>6
  <2> QED BY <2>7
<1> DEFINE nth(k) == CHOOSE i \in I : Cardinality({j \in I : j <= i}) = k
<1>8. \A k \in 1..Cardinality(I) : nth(k) \in I
  BY <1>7 DEF rank, upto
<1> HIDE DEF nth
<1>9. [k \in 1..Cardinality(I) |-> s[nth(k)]] \in [1..Cardinality(I) -> S]
  BY <1>1, <1>8
<1>10. Kept(s, I) = [k \in 1..Cardinality(I) |-> s[nth(k)]]
  BY DEF Kept, nth
<1>11. Kept(s, I) \in Seq(S) /\ Len(Kept(s, I)) = Cardinality(I)
  <2>1. Kept(s, I) \in Seq(S)
    BY <1>3, <1>9, <1>10, SeqDef
  <2>2. DOMAIN Kept(s, I) = 1..Cardinality(I)
    BY <1>10
  <2> QED BY <1>3, <2>1, <2>2, LenProperties
<1> QED BY <1>3, <1>11 DEF n

-----------------------------------------------------------------------------
(* The debugger.  An exec hit is a rising edge of the fetch strobe, and the *)
(* probe remembers the strobe while the fetch that hit is on the bus: so   *)
(* until that instruction is over no edge of it can be seen again.         *)
Cpus == [pc : Addr, ph : BusPhases]
Probes == [exec : SUBSET Addr, watch : SUBSET MemAt, io : SUBSET IoAt,
           prev : Strobes, hit : [kind : Strobes, addr : Addr], fresh : BOOLEAN]

FreshFetch(p, c) ==
  /\ c.ph = "idle" => p.fresh
  /\ ~p.fresh /\ c.ph = "fetch1" => p.prev = "fetch"

ProbeInv == cpu \in Cpus /\ probe \in Probes /\ FreshFetch(probe, cpu)

\* A tick keeps the processor typed and takes the phases of a fetch in order.
LEMMA AdvanceMoves ==
  ASSUME NEW c \in Cpus
  PROVE  LET c1 == Advance(c)
         IN  c1 \in Cpus /\ (c1.ph = "fetch1" => c.ph = "idle")
             /\ (c1.ph = "fetch2" => c.ph = "fetch1") /\ (c.ph = "idle" => c1.ph = "fetch1")
<1> DEFINE c1 == Advance(c)
<1>1. LastAddr \in Nat /\ c.pc \in 0..LastAddr /\ c.ph \in BusPhases
  BY DebuggerAssumption DEF Cpus, Addr
<1>2. (c.pc + 1) % (LastAddr + 1) \in 0..LastAddr
  BY <1>1
<1>3. \A f \in BusPhases : [c EXCEPT !.ph = f] \in Cpus /\ [c EXCEPT !.ph = f].ph = f
  BY DEF Cpus
<1>4. CASE c.ph = "idle"
  <2>1. c1 = [c EXCEPT !.ph = "fetch1"]
    BY <1>4 DEF Advance
  <2> QED BY <1>3, <1>4, <2>1 DEF BusPhases
<1>5. CASE c.ph = "fetch1"
  <2>1. c1 = [c EXCEPT !.ph = "fetch2"]
    BY <1>5 DEF Advance
  <2> QED BY <1>3, <1>5, <2>1 DEF BusPhases
<1>6. CASE c.ph = "fetch2"
  <2>1. c1 = [c EXCEPT !.ph = "refresh"]
    BY <1>6 DEF Advance
  <2> QED BY <1>3, <1>6, <2>1 DEF BusPhases
<1>7. CASE c.ph \in {"refresh", "access"}
  <2> DEFINE next == [pc |-> (c.pc + 1) % (LastAddr + 1), ph |-> "idle"]
  <2>1. c1 = [c EXCEPT !.ph = "access"] \/ c1 = next
    BY <1>7 DEF Advance
  <2>2. next \in Cpus
    BY <1>2 DEF Cpus, Addr, BusPhases
  <2>3. [c EXCEPT !.ph = "access"] \in Cpus /\ [c EXCEPT !.ph = "access"].ph = "access"
    BY <1>3 DEF BusPhases
  <2>4. next.ph = "idle"
    OBVIOUS
  <2> HIDE DEF next, c1
  <2>5. c1 \in Cpus /\ (c1.ph = "access" \/ c1.ph = "idle")
    BY <2>1, <2>2, <2>3, <2>4
  <2> QED BY <1>7, <2>5 DEF c1
<1> QED BY <1>1, <1>4, <1>5, <1>6, <1>7 DEF BusPhases

(* One tick of the bus and the probe: the strobe is remembered, a hit stays *)
(* and a new exec hit is one of a fresh instruction.                       *)
LEMMA TickedIsFresh ==
  ASSUME NEW c \in Cpus, NEW p \in Probes, FreshFetch(p, c)
  PROVE  LET c1 == Advance(c)
             p1 == Ticked(p, c1)
         IN /\ c1 \in Cpus /\ p1 \in Probes /\ FreshFetch(p1, c1)
            /\ p1.hit.kind = "fetch" /\ p.hit.kind = "none" => p.fresh
            /\ p.hit.kind # "none" => p1.hit = p.hit
            /\ ~p.fresh => ~p1.fresh \/ c1.ph = "idle"
<1> DEFINE c1 == Advance(c)
           q == probe_tick(p, c1)
           p1 == Ticked(p, c1)
<1>1. c1 \in Cpus /\ (c1.ph = "fetch1" => c.ph = "idle")
      /\ (c1.ph = "fetch2" => c.ph = "fetch1") /\ (c.ph = "idle" => c1.ph = "fetch1")
  BY AdvanceMoves
<1>2. c1 \in Cpus
  BY <1>1
<1>3. /\ c1.ph = "fetch1" => c.ph = "idle"
      /\ c1.ph = "fetch2" => c.ph = "fetch1"
      /\ c.ph = "idle" => c1.ph = "fetch1"
  BY <1>1
<1>4. Strobe(c1) \in Strobes /\ (Strobe(c1) = "fetch" <=> c1.ph \in {"fetch1", "fetch2"})
  BY <1>2 DEF Cpus, Strobe, Strobes, BusPhases
<1>5. /\ q \in Probes /\ q.fresh = p.fresh
      /\ q.hit = p.hit \/ (/\ p.hit.kind = "none" /\ q.hit.kind = Strobe(c1)
                           /\ p.prev # Strobe(c1) /\ q.prev = Strobe(c1))
      /\ q = p \/ q.prev = Strobe(c1)
  BY <1>2, <1>4 DEF probe_tick, Probes, Cpus
<1> HIDE DEF q, c1
<1>6. p1 = [q EXCEPT !.fresh = IF q.hit # p.hit /\ q.hit.kind = "fetch" THEN FALSE
                               ELSE @ \/ c1.ph = "idle"]
  BY DEF Ticked, q
<1>7. p1 \in Probes /\ p1.hit = q.hit /\ p1.prev = q.prev
      /\ p1.fresh = IF q.hit # p.hit /\ q.hit.kind = "fetch" THEN FALSE
                    ELSE q.fresh \/ c1.ph = "idle"
  BY <1>5, <1>6 DEF Probes
<1> HIDE DEF p1
<1>8. p1.hit.kind = "fetch" /\ p.hit.kind = "none" => p.fresh
  BY <1>3, <1>4, <1>5, <1>7 DEF FreshFetch
<1>9. p.hit.kind # "none" => p1.hit = p.hit
  BY <1>5, <1>7
<1>10. FreshFetch(p1, c1)
  BY <1>3, <1>4, <1>5, <1>7 DEF FreshFetch
<1>11. ~p.fresh => ~p1.fresh \/ c1.ph = "idle"
  BY <1>5, <1>7
<1> QED
  BY <1>2, <1>7, <1>8, <1>9, <1>10, <1>11 DEF c1, p1

(* step_instruction ticks up to five times and stops at the next idle       *)
(* phase; a latch on its way is one of the first fetch, so the composite   *)
(* step is as fresh as a tick.                                             *)
Stepped(p, s) ==
  /\ s.c \in Cpus /\ s.p \in Probes /\ FreshFetch(s.p, s.c)
  /\ s.p.hit.kind = "fetch" /\ p.hit.kind = "none" => p.fresh
  /\ ~p.fresh => ~s.p.fresh \/ s.c.ph = "idle"

\* A probe that was stepped with the processor stays so over one more tick.
LEMMA TicksCompose ==
  ASSUME NEW p \in Probes, NEW s, Stepped(p, s)
  PROVE  Stepped(p, TickOn(s))
<1>1. CASE s.c.ph = "idle"
  BY <1>1 DEF TickOn
<1>2. CASE s.c.ph # "idle"
  <2> DEFINE c1 == Advance(s.c)
             p1 == Ticked(s.p, c1)
             t == [c |-> c1, p |-> p1]
  <2>1. TickOn(s) = t
    BY <1>2 DEF TickOn, TickBoard
  <2>2. s.c \in Cpus /\ s.p \in Probes /\ FreshFetch(s.p, s.c)
    BY DEF Stepped
  <2>3. /\ c1 \in Cpus /\ p1 \in Probes /\ FreshFetch(p1, c1)
        /\ p1.hit.kind = "fetch" /\ s.p.hit.kind = "none" => s.p.fresh
        /\ s.p.hit.kind # "none" => p1.hit = s.p.hit
        /\ ~s.p.fresh => ~p1.fresh \/ c1.ph = "idle"
    BY <2>2, TickedIsFresh
  <2>4. t.c = c1 /\ t.p = p1
    OBVIOUS
  <2> HIDE DEF c1, p1, t
  <2>5. p1.hit.kind = "fetch" /\ p.hit.kind = "none" => p.fresh
    <3> SUFFICES ASSUME p1.hit.kind = "fetch", p.hit.kind = "none", ~p.fresh PROVE FALSE
      BY <2>3 DEF Probes
    <3>1. ~s.p.fresh
      BY <1>2 DEF Stepped
    <3>2. s.p.hit.kind # "none"
      BY <2>3, <3>1
    <3>3. s.p.hit.kind = "fetch"
      BY <2>3, <3>2
    <3> QED BY <3>3 DEF Stepped
  <2>6. ~p.fresh => ~p1.fresh \/ c1.ph = "idle"
    BY <1>2, <2>3 DEF Stepped
  <2>7. Stepped(p, t)
    BY <2>3, <2>4, <2>5, <2>6 DEF Stepped
  <2> QED BY <2>1, <2>7
<1> QED BY <1>1, <1>2

\* Stepping one instruction leaves processor and probe as its ticks would.
LEMMA StepIsFresh ==
  ASSUME ProbeInv, step_instruction
  PROVE  Stepped(probe, [c |-> cpu', p |-> probe'])
<1> DEFINE s0 == [c |-> cpu, p |-> probe]
           s1 == TickBoard(s0)
           s2 == TickOn(s1)
           s3 == TickOn(s2)
           s4 == TickOn(s3)
           s5 == TickOn(s4)
<1>1. Stepped(probe, s1)
  <2> DEFINE c1 == Advance(cpu)
             p1 == Ticked(probe, c1)
  <2>1. s1 = [c |-> c1, p |-> p1]
    BY DEF TickBoard
  <2>2. cpu \in Cpus /\ probe \in Probes /\ FreshFetch(probe, cpu)
    BY DEF ProbeInv
  <2>3. /\ c1 \in Cpus /\ p1 \in Probes /\ FreshFetch(p1, c1)
        /\ p1.hit.kind = "fetch" /\ probe.hit.kind = "none" => probe.fresh
        /\ ~probe.fresh => ~p1.fresh \/ c1.ph = "idle"
    BY <2>2, TickedIsFresh
  <2>4. s1.c = c1 /\ s1.p = p1
    BY <2>1
  <2> HIDE DEF c1, p1, s1
  <2> QED BY <2>3, <2>4 DEF Stepped
<1>2. probe \in Probes
  BY DEF ProbeInv
<1>3. s5 = ToIdle
  BY DEF ToIdle
<1> HIDE DEF s1
<1>4. Stepped(probe, s2)
  BY <1>1, <1>2, TicksCompose
<1> HIDE DEF s2
<1>5. Stepped(probe, s3)
  BY <1>2, <1>4, TicksCompose
<1> HIDE DEF s3
<1>6. Stepped(probe, s4)
  BY <1>2, <1>5, TicksCompose
<1> HIDE DEF s4
<1>7. Stepped(probe, s5)
  BY <1>2, <1>6, TicksCompose
<1> HIDE DEF s5
<1>8. cpu' = s5.c /\ probe' = s5.p
  BY <1>3 DEF step_instruction
<1> QED BY <1>7, <1>8 DEF Stepped

(* The lists reach the probe: only addresses of the guest's loop do.        *)
Entries == [addr : Addr, eph : BOOLEAN, cond : BOOLEAN, pass : {0, 2}, hits : 0..2]

ListsTyped ==
  /\ bps \in Seq(Entries) /\ Len(bps) <= MaxList
  /\ wps \in [MemAt -> {"off", "on", "cond"}] /\ ios \in SUBSET IoAt

RunTyped ==
  /\ z80 \in [break_point : Addr \cup {BpNone}, reached : BOOLEAN]
  /\ loop \in {"top", "frame", "sync"} /\ paused \in BOOLEAN
  /\ auto \in [q : {"empty", "queued", "blocked"}, latch : BOOLEAN]
  /\ ipc \in [pc : {"idle", "to", "bp"}, hit : BOOLEAN]
  /\ edits \in 0..MaxEdits

\* The debugger's type invariant is the parts that the proofs below use.
LEMMA DebugTypes == DebugTypeOK <=> /\ ListsTyped /\ RunTyped
                                   /\ cpu \in Cpus /\ probe \in Probes
BY DEF DebugTypeOK, ListsTyped, RunTyped, Cpus, Probes, Entries

DebugInv == ListsTyped /\ RunTyped /\ ProbeInv

\* Handing the lists to the probe changes none of what it has seen.
LEMMA SyncIsTyped ==
  ASSUME ListsTyped, z80 \in [break_point : Addr \cup {BpNone}, reached : BOOLEAN],
         NEW p \in Probes
  PROVE  /\ sync_probe(p) \in Probes
         /\ sync_probe(p).prev = p.prev /\ sync_probe(p).fresh = p.fresh
         /\ sync_probe(p).hit = p.hit
<1> DEFINE listed == [i \in DOMAIN bps |-> bps[i].addr]
           wait1 == IF waitbreak_armed THEN <<z80.break_point>> ELSE <<>>
<1>1. listed \in Seq(Addr)
  <2>1. bps \in Seq(Entries)
    BY DEF ListsTyped
  <2>2. DOMAIN bps = 1..Len(bps) /\ Len(bps) \in Nat /\ \A i \in DOMAIN bps : bps[i] \in Entries
    BY <2>1
  <2>3. listed \in [1..Len(bps) -> Addr]
    BY <2>2 DEF Entries
  <2> QED BY <2>2, <2>3, SeqDef
<1>2. wait1 \in Seq(Addr)
  <2>1. CASE waitbreak_armed
    BY <2>1 DEF waitbreak_armed
  <2>2. CASE ~waitbreak_armed
    BY <2>2
  <2> QED BY <2>1, <2>2
<1>3. ExecList \in Seq(Addr)
  BY <1>1, <1>2 DEF ExecList
<1>4. FirstDistinct(ExecList, MaxExec) \in SUBSET Addr
  <2>1. \A i \in DOMAIN ExecList : ExecList[i] \in Addr
    BY <1>3
  <2> QED BY <2>1, Zenon DEF FirstDistinct
<1>5. {a \in MemAt : wps[a] # "off"} \in SUBSET MemAt /\ ios \in SUBSET IoAt
  BY DEF ListsTyped
<1> DEFINE e == FirstDistinct(ExecList, MaxExec)
           w == {a \in MemAt : wps[a] # "off"}
<1>6. sync_probe(p) = [p EXCEPT !.exec = e, !.watch = w, !.io = ios]
  BY DEF sync_probe
<1> HIDE DEF listed, wait1, e, w
<1>7. e \in SUBSET Addr /\ w \in SUBSET MemAt
  BY <1>4, <1>5 DEF e, w
<1>8. [p EXCEPT !.exec = e, !.watch = w, !.io = ios] \in Probes
  BY <1>5, <1>7 DEF Probes
<1>9. /\ sync_probe(p).prev = p.prev /\ sync_probe(p).fresh = p.fresh
      /\ sync_probe(p).hit = p.hit
  BY <1>6 DEF Probes
<1> QED BY <1>6, <1>8, <1>9

(* What the host does to the lists leaves the machine alone.               *)
LEMMA EntryFits ==
  ASSUME ListsTyped, Len(bps) < MaxList,
         NEW a \in Addr, NEW eph \in BOOLEAN, NEW cond \in BOOLEAN, NEW pass \in {0, 2}
  PROVE  LET s == Append(bps, Bp(a, eph, cond, pass)) IN s \in Seq(Entries) /\ Len(s) <= MaxList
<1>1. Bp(a, eph, cond, pass) \in Entries
  BY DEF Bp, Entries
<1> DEFINE b == Bp(a, eph, cond, pass)
<1> HIDE DEF b
<1>2. Append(bps, b) \in Seq(Entries) /\ Len(Append(bps, b)) = Len(bps) + 1 /\ Len(bps) \in Nat
  BY <1>1 DEF ListsTyped, b
<1> QED BY <1>2, DebuggerAssumption DEF b

\* Deleting breakpoints leaves a list within its bound.
LEMMA DeleteFits ==
  ASSUME ListsTyped, NEW I \in SUBSET (DOMAIN bps)
  PROVE  Kept(bps, I) \in Seq(Entries) /\ Len(Kept(bps, I)) <= MaxList
<1>1. bps \in Seq(Entries) /\ Len(bps) \in Nat /\ Len(bps) <= MaxList
  BY DEF ListsTyped
<1>2. Kept(bps, I) \in Seq(Entries) /\ Len(Kept(bps, I)) <= Len(bps)
  BY <1>1, KeptKeeps
<1>3. Len(Kept(bps, I)) \in Nat /\ MaxList \in Nat
  BY <1>2, DebuggerAssumption
<1> QED BY <1>1, <1>2, <1>3

EditsLists ==
  \/ \E a \in Addr : z80_add_breakpoint(a)
  \/ \E a \in Addr, cond \in BOOLEAN, pass \in {0, 2} : z80_add_breakpoint_cond(a, cond, pass)
  \/ \E A \in SUBSET Addr : z80_del_breakpoint(A)
  \/ \E a \in MemAt, w \in {"off", "on", "cond"} : z80_edit_watchpoint(a, w)
  \/ \E A \in SUBSET IoAt : z80_edit_io_breakpoint(A)
  \/ Edit /\ wps' = [a \in MemAt |-> "off"] /\ UNCHANGED <<bps, ios>> /\ ListOnly

\* Every command of the host edits the lists or runs to an address.
LEMMA HostEdits ==
  ASSUME DebugInv, ipc_bp \/ ipc_wp \/ ipc_iobp \/ debug_windows
  PROVE  EditsLists \/ \E a \in Addr : run_to_here(a)
<1>1. bps \in Seq(Entries)
  BY DEF DebugInv, ListsTyped
<1>2. \A i \in DOMAIN bps : bps[i].addr \in Addr
  <2>1. \A i \in DOMAIN bps : bps[i] \in Entries
    BY <1>1
  <2>2. \A b \in Entries : b.addr \in Addr
    BY DEF Entries
  <2> QED BY <2>1, <2>2
<1>3. ios \in SUBSET IoAt
  BY DEF DebugInv, ListsTyped
<1>4. CASE ipc_bp \/ ipc_wp \/ ipc_iobp
  BY <1>4 DEF ipc_bp, ipc_wp, ipc_iobp, EditsLists
<1>5. ASSUME NEW a \in Addr, gutter_click(a) PROVE EditsLists
  BY <1>5 DEF gutter_click, EditsLists
<1>6. CASE breakpoints_bar
  BY <1>6 DEF breakpoints_bar, EditsLists
<1>7. CASE breakpoints_rows
  <2>1. CASE \E i \in DOMAIN bps : ~bps[i].eph /\ z80_del_breakpoint({bps[i].addr})
    <3>1. PICK i \in DOMAIN bps : z80_del_breakpoint({bps[i].addr})
      BY <2>1
    <3>2. {bps[i].addr} \in SUBSET Addr
      BY <1>2
    <3> QED BY <3>1, <3>2 DEF EditsLists
  <2>2. CASE \E a \in MemAt : wps[a] # "off" /\ z80_edit_watchpoint(a, "off")
    BY <2>2 DEF EditsLists
  <2>3. CASE \E p \in ios : z80_edit_io_breakpoint(ios \ {p})
    <3>1. PICK p \in ios : z80_edit_io_breakpoint(ios \ {p})
      BY <2>3
    <3>2. ios \ {p} \in SUBSET IoAt
      BY <1>3
    <3> QED BY <3>1, <3>2 DEF EditsLists
  <2> QED BY <1>7, <2>1, <2>2, <2>3 DEF breakpoints_rows
<1>8. CASE breakpoints_forms
  <2>1. CASE \E a \in Addr, cond \in BOOLEAN, pass \in {0, 2} :
               IF ~cond /\ pass = 0 THEN z80_add_breakpoint(a)
               ELSE z80_add_breakpoint_cond(a, cond, pass)
    BY <2>1, Zenon DEF EditsLists
  <2>2. CASE \E a \in MemAt : z80_edit_watchpoint(a, "on")
    BY <2>2 DEF EditsLists
  <2>3. CASE \E p \in IoAt : z80_edit_io_breakpoint(ios \cup {p})
    <3>1. PICK p \in IoAt : z80_edit_io_breakpoint(ios \cup {p})
      BY <2>3
    <3>2. ios \cup {p} \in SUBSET IoAt
      BY <1>3
    <3> QED BY <3>1, <3>2 DEF EditsLists
  <2> QED BY <1>8, <2>1, <2>2, <2>3 DEF breakpoints_forms
<1> QED BY <1>4, <1>5, <1>6, <1>7, <1>8 DEF debug_windows

\* Editing a list keeps it typed and leaves the machine alone.
LEMMA EditsKeepLists ==
  ASSUME DebugInv, EditsLists
  PROVE  /\ ListsTyped' /\ edits' \in 0..MaxEdits
         /\ UNCHANGED <<cpu, probe, z80, loop, paused, auto, ipc>>
<1>1. ListsTyped /\ edits \in 0..MaxEdits /\ MaxEdits \in Nat
  BY DebuggerAssumption DEF DebugInv, RunTyped
<1>2. Edit => edits' \in 0..MaxEdits
  BY <1>1 DEF Edit
<1>3. CASE \E a \in Addr : z80_add_breakpoint(a)
  <2>1. PICK a \in Addr : z80_add_breakpoint(a)
    BY <1>3
  <2>2. bps' = bps \/ bps' = Append(bps, Bp(a, FALSE, FALSE, 0))
    BY <2>1 DEF z80_add_breakpoint
  <2>3. bps' \in Seq(Entries) /\ Len(bps') <= MaxList
    BY <1>1, <2>1, <2>2, EntryFits DEF z80_add_breakpoint, ListsTyped
  <2> QED BY <1>1, <1>2, <2>1, <2>3 DEF z80_add_breakpoint, ListsTyped, ListOnly
<1>4. CASE \E a \in Addr, cond \in BOOLEAN, pass \in {0, 2} : z80_add_breakpoint_cond(a, cond, pass)
  <2>1. PICK a \in Addr, cond \in BOOLEAN, pass \in {0, 2} : z80_add_breakpoint_cond(a, cond, pass)
    BY <1>4
  <2>2. bps' \in Seq(Entries) /\ Len(bps') <= MaxList
    BY <1>1, <2>1, EntryFits DEF z80_add_breakpoint_cond
  <2> QED BY <1>1, <1>2, <2>1, <2>2 DEF z80_add_breakpoint_cond, ListsTyped, ListOnly
<1>5. CASE \E A \in SUBSET Addr : z80_del_breakpoint(A)
  <2>1. PICK A \in SUBSET Addr : z80_del_breakpoint(A)
    BY <1>5
  <2> DEFINE I == {i \in DOMAIN bps : bps[i].addr \notin A}
  <2>2. bps' = Kept(bps, I) /\ I \in SUBSET (DOMAIN bps)
    BY <2>1 DEF z80_del_breakpoint
  <2> HIDE DEF I
  <2>3. bps' \in Seq(Entries) /\ Len(bps') <= MaxList
    BY <1>1, <2>2, DeleteFits
  <2> QED BY <1>1, <1>2, <2>1, <2>3 DEF z80_del_breakpoint, ListsTyped, ListOnly
<1>6. CASE \/ \E a \in MemAt, w \in {"off", "on", "cond"} : z80_edit_watchpoint(a, w)
           \/ \E A \in SUBSET IoAt : z80_edit_io_breakpoint(A)
           \/ Edit /\ wps' = [a \in MemAt |-> "off"] /\ UNCHANGED <<bps, ios>> /\ ListOnly
  BY <1>1, <1>2, <1>6 DEF z80_edit_watchpoint, z80_edit_io_breakpoint, ListsTyped, ListOnly
<1> QED BY <1>3, <1>4, <1>5, <1>6 DEF EditsLists

(* Judging a hit counts it; the list keeps its length, or loses the         *)
(* ephemeral entries.                                                      *)
LEMMA CompletedKeeps ==
  ASSUME RunTyped, Completed
  PROVE  /\ z80' \in [break_point : Addr \cup {BpNone}, reached : BOOLEAN]
         /\ paused' = paused /\ ipc' = ipc
         /\ auto' \in [q : {"empty", "queued", "blocked"}, latch : BOOLEAN]
<1>1. 0 \in Addr
  BY DebuggerAssumption DEF Addr
<1>2. z80' \in [break_point : Addr \cup {BpNone}, reached : BOOLEAN]
  BY <1>1 DEF RunTyped, Completed
<1>3. auto' \in [q : {"empty", "queued", "blocked"}, latch : BOOLEAN]
  <2>1. auto' \in {auto, [q |-> "empty", latch |-> FALSE], [auto EXCEPT !.q = "blocked"]}
    BY Zenon DEF Completed
  <2>2. auto \in [q : {"empty", "queued", "blocked"}, latch : BOOLEAN]
    BY DEF RunTyped
  <2>3. /\ [q |-> "empty", latch |-> FALSE] \in [q : {"empty", "queued", "blocked"}, latch : BOOLEAN]
        /\ [auto EXCEPT !.q = "blocked"] \in [q : {"empty", "queued", "blocked"}, latch : BOOLEAN]
    BY <2>2
  <2> QED BY <2>1, <2>2, <2>3
<1> QED BY <1>2, <1>3 DEF Completed

\* Stopping on a reached breakpoint keeps the run state typed.
LEMMA StoppedKeeps ==
  ASSUME RunTyped, NEW r \in BOOLEAN, Stopped(r), r => z80' = [z80 EXCEPT !.reached = TRUE] \/ z80' = z80
  PROVE  /\ z80' \in [break_point : Addr \cup {BpNone}, reached : BOOLEAN]
         /\ paused' \in BOOLEAN
         /\ auto' \in [q : {"empty", "queued", "blocked"}, latch : BOOLEAN]
<1>1. CASE r
  <2>1. paused' = TRUE /\ auto' = auto /\ (z80' = [z80 EXCEPT !.reached = TRUE] \/ z80' = z80)
    BY <1>1, Zenon DEF Stopped
  <2>2. z80 \in [break_point : Addr \cup {BpNone}, reached : BOOLEAN]
    BY DEF RunTyped
  <2>3. [z80 EXCEPT !.reached = TRUE] \in [break_point : Addr \cup {BpNone}, reached : BOOLEAN]
    BY <2>2
  <2> QED BY <2>1, <2>2, <2>3 DEF RunTyped
<1>2. CASE ~r
  <2>1. /\ z80' = [z80 EXCEPT !.break_point = BpNone] /\ paused' = paused
        /\ auto' = [q |-> IF auto.q = "blocked" THEN "empty" ELSE auto.q, latch |-> TRUE]
    BY <1>2, Zenon DEF Stopped
  <2>2. z80' \in [break_point : Addr \cup {BpNone}, reached : BOOLEAN]
    BY <2>1 DEF RunTyped
  <2>3. auto' \in [q : {"empty", "queued", "blocked"}, latch : BOOLEAN]
    BY <2>1 DEF RunTyped
  <2> QED BY <2>1, <2>2, <2>3 DEF RunTyped
<1> QED BY <1>1, <1>2

\* Acknowledging a hit leaves the probe fresh and invents no hit.
LEMMA AckIsFresh ==
  ASSUME DebugInv, probe' = sync_probe(probe) \/ probe' = probe_ack(sync_probe(probe)), cpu' = cpu
  PROVE  ProbeInv' /\ (probe'.hit.kind # "none" => probe'.hit = probe.hit)
<1> DEFINE q == sync_probe(probe)
<1>1. /\ q \in Probes /\ q.prev = probe.prev /\ q.fresh = probe.fresh /\ q.hit = probe.hit
  BY SyncIsTyped DEF DebugInv, RunTyped, ProbeInv
<1> HIDE DEF q
<1>2. NoHit \in [kind : Strobes, addr : Addr]
  BY DebuggerAssumption DEF NoHit, Strobes, Addr
<1>3. /\ probe_ack(q) \in Probes /\ probe_ack(q).prev = q.prev /\ probe_ack(q).fresh = q.fresh
      /\ probe_ack(q).hit.kind = "none"
  BY <1>1, <1>2 DEF probe_ack, Probes, NoHit
<1>4. probe' \in Probes /\ probe'.prev = probe.prev /\ probe'.fresh = probe.fresh
      /\ (probe'.hit.kind # "none" => probe'.hit = probe.hit)
  BY <1>1, <1>3 DEF q
<1> QED BY <1>4 DEF DebugInv, ProbeInv, FreshFetch

\* The debugger's synchronisation keeps its invariant and invents no hit.
LEMMA SyncKeeps ==
  ASSUME DebugInv, DebugSync
  PROVE  DebugInv' /\ (probe'.hit.kind # "none" => probe'.hit = probe.hit)
<1>1. ListsTyped /\ RunTyped /\ ProbeInv
  BY DEF DebugInv
<1>2. loop' = "top" /\ UNCHANGED <<wps, ios, cpu, edits>>
  BY DEF DebugSync
<1>3. CASE NoHitSync
  <2>1. ProbeInv' /\ (probe'.hit.kind # "none" => probe'.hit = probe.hit)
    BY <1>2, <1>3, AckIsFresh DEF NoHitSync
  <2>2. ListsTyped'
    BY <1>1, <1>2, <1>3 DEF NoHitSync, ListsTyped
  <2>3. RunTyped'
    BY <1>1, <1>2, <1>3, CompletedKeeps DEF NoHitSync, RunTyped
  <2> QED BY <2>1, <2>2, <2>3 DEF DebugInv
<1>4. CASE WaitbreakHit
  <2>1. ProbeInv' /\ (probe'.hit.kind # "none" => probe'.hit = probe.hit)
    BY <1>2, <1>4, AckIsFresh DEF WaitbreakHit
  <2>2. ListsTyped'
    BY <1>1, <1>2, <1>4 DEF WaitbreakHit, ListsTyped
  <2>3. z80.reached \in BOOLEAN /\ Stopped(z80.reached) /\ ipc' = ipc
        /\ (z80.reached => z80' = z80)
    BY <1>1, <1>4 DEF WaitbreakHit, RunTyped
  <2>4. RunTyped'
    BY <1>1, <1>2, <2>3, StoppedKeeps DEF RunTyped
  <2> QED BY <2>1, <2>2, <2>4 DEF DebugInv
<1>5. ASSUME NEW t \in BOOLEAN, ListedHit(t) PROVE DebugInv' /\ (probe'.hit.kind # "none" => probe'.hit = probe.hit)
  <2> DEFINE a == probe.hit.addr
             counts(i) == i \in BpsAt(a) /\ Holds(bps[i], t) /\ ~\E j \in Firing(a, t) : j < i
             Counted == [i \in DOMAIN bps |->
               IF counts(i) THEN [bps[i] EXCEPT !.hits = IF @ < 2 THEN @ + 1 ELSE @] ELSE bps[i]]
             counted == IF probe.hit.kind = "fetch" THEN Counted ELSE bps
  <2>1. ProbeInv' /\ (probe'.hit.kind # "none" => probe'.hit = probe.hit)
    BY <1>2, <1>5, AckIsFresh DEF ListedHit
  <2>2. \/ /\ bps' = remove_ephemeral(counted) /\ z80' = [z80 EXCEPT !.reached = TRUE]
           /\ ipc' = [ipc EXCEPT !.hit = TRUE] /\ Stopped(TRUE)
        \/ bps' = counted /\ Completed
    BY <1>5, Zenon DEF ListedHit
  <2>3. bps \in Seq(Entries) /\ Len(bps) \in Nat /\ DOMAIN bps = 1..Len(bps)
        /\ \A i \in DOMAIN bps : bps[i] \in Entries
    BY <1>1 DEF ListsTyped
  <2>4. \A b \in Entries : [b EXCEPT !.hits = IF @ < 2 THEN @ + 1 ELSE @] \in Entries
    BY DEF Entries
  <2> HIDE DEF counts
  <2>5. Counted \in [1..Len(bps) -> Entries]
    BY <2>3, <2>4
  <2>6. Counted \in Seq(Entries) /\ Len(Counted) = Len(bps)
    <3> HIDE DEF Counted
    <3>1. Counted \in Seq(Entries) /\ DOMAIN Counted = 1..Len(bps)
      BY <2>3, <2>5, SeqDef
    <3> QED BY <2>3, <3>1, LenProperties
  <2> HIDE DEF Counted
  <2>7. counted \in Seq(Entries) /\ Len(counted) = Len(bps)
    BY <2>3, <2>6
  <2> HIDE DEF counted
  <2>8. /\ remove_ephemeral(counted) \in Seq(Entries)
        /\ Len(remove_ephemeral(counted)) <= Len(counted)
    <3> DEFINE I == {i \in DOMAIN counted : ~counted[i].eph}
    <3>1. I \in SUBSET (DOMAIN counted) /\ remove_ephemeral(counted) = Kept(counted, I)
      BY DEF remove_ephemeral
    <3> HIDE DEF I
    <3> QED BY <2>7, <3>1, KeptKeeps
  <2>9. ListsTyped'
    <3>1. bps' \in Seq(Entries) /\ Len(bps') <= Len(bps) /\ Len(bps') \in Nat
      <4>1. CASE bps' = counted
        BY <2>3, <2>7, <4>1
      <4>2. CASE bps' = remove_ephemeral(counted)
        <5> DEFINE r == remove_ephemeral(counted)
        <5>1. r \in Seq(Entries) /\ Len(r) <= Len(counted)
          BY <2>8
        <5> HIDE DEF r
        <5>2. Len(r) \in Nat
          BY <5>1
        <5>3. bps' = r
          BY <4>2 DEF r
        <5> QED BY <2>7, <5>1, <5>2, <5>3
      <4> QED BY <2>2, <4>1, <4>2
    <3>2. Len(bps) <= MaxList /\ MaxList \in Nat
      BY <1>1, DebuggerAssumption DEF ListsTyped
    <3> QED BY <1>1, <1>2, <2>3, <3>1, <3>2 DEF ListsTyped
  <2>10. RunTyped'
    <3>1. CASE Completed
      BY <1>1, <1>2, <3>1, CompletedKeeps DEF RunTyped
    <3>2. CASE /\ z80' = [z80 EXCEPT !.reached = TRUE] /\ ipc' = [ipc EXCEPT !.hit = TRUE]
               /\ Stopped(TRUE)
      <4>1. ipc' \in [pc : {"idle", "to", "bp"}, hit : BOOLEAN]
        BY <1>1, <3>2 DEF RunTyped
      <4>2. /\ z80' \in [break_point : Addr \cup {BpNone}, reached : BOOLEAN]
            /\ paused' \in BOOLEAN
            /\ auto' \in [q : {"empty", "queued", "blocked"}, latch : BOOLEAN]
        <5>1. TRUE \in BOOLEAN /\ Stopped(TRUE) /\ z80' = [z80 EXCEPT !.reached = TRUE] /\ RunTyped
          BY <1>1, <3>2
        <5> QED BY <5>1, StoppedKeeps
      <4>3. loop' \in {"top", "frame", "sync"} /\ edits' \in 0..MaxEdits
        BY <1>1, <1>2 DEF RunTyped
      <4> QED BY <4>1, <4>2, <4>3 DEF RunTyped
    <3> QED BY <2>2, <3>1, <3>2
  <2> QED BY <2>1, <2>9, <2>10 DEF DebugInv
<1> QED BY <1>3, <1>4, <1>5 DEF DebugSync

(* Every step of host and Z80 thread keeps the invariant, and an exec hit   *)
(* it latches is one of a fresh instruction.                               *)
HitIsFresh == probe'.hit.kind = "fetch" /\ probe.hit.kind = "none" => probe.fresh

\* Every step of the debugger keeps its invariant, and a hit it reports is fresh.
LEMMA DebugStep ==
  ASSUME DebugInv, [DebugNext]_debugVars
  PROVE  DebugInv' /\ HitIsFresh
<1>1. ListsTyped /\ RunTyped /\ ProbeInv
  BY DEF DebugInv
<1>2. LastAddr \in Nat /\ MaxEdits \in Nat
  BY DebuggerAssumption
<1>3. Edit => edits' \in 0..MaxEdits
  BY <1>1, <1>2 DEF Edit, RunTyped
<1>4. UNCHANGED <<cpu, probe>> => ProbeInv' /\ HitIsFresh
  BY <1>1 DEF ProbeInv, HitIsFresh
<1>5. UNCHANGED hostVars => ListsTyped'
  BY <1>1 DEF hostVars, ListsTyped
<1>6. CASE UNCHANGED debugVars
  BY <1>1, <1>6 DEF DebugInv, debugVars, ListsTyped, RunTyped, ProbeInv, HitIsFresh
<1>7. CASE ipc_bp \/ ipc_wp \/ ipc_iobp \/ debug_windows
  <2>1. CASE EditsLists
    <3>1. ListsTyped' /\ edits' \in 0..MaxEdits /\ UNCHANGED <<cpu, probe, z80, loop, paused, auto, ipc>>
      BY <2>1, EditsKeepLists
    <3> QED BY <1>1, <1>4, <3>1 DEF DebugInv, RunTyped
  <2>2. CASE \E a \in Addr : run_to_here(a)
    <3>1. PICK a \in Addr : run_to_here(a)
      BY <2>2
    <3>2. bps' \in Seq(Entries) /\ Len(bps') <= MaxList
      BY <1>1, <3>1, EntryFits DEF run_to_here
    <3>3. ListsTyped'
      BY <1>1, <3>1, <3>2 DEF run_to_here, ListsTyped
    <3>4. RunTyped' /\ UNCHANGED <<cpu, probe>>
      BY <1>1, <1>3, <3>1 DEF run_to_here, RunTyped
    <3> QED BY <1>4, <3>3, <3>4 DEF DebugInv
  <2> QED BY <1>7, <2>1, <2>2, HostEdits
<1>8. CASE step_instruction
  <2>1. Stepped(probe, [c |-> cpu', p |-> probe'])
    BY <1>1, <1>8, StepIsFresh
  <2>2. ProbeInv' /\ HitIsFresh
    BY <2>1 DEF Stepped, ProbeInv, HitIsFresh
  <2>3. RunTyped' /\ UNCHANGED hostVars
    BY <1>1, <1>3, <1>8 DEF step_instruction, RunTyped
  <2> QED BY <1>5, <2>2, <2>3 DEF DebugInv
<1>9. CASE \E a \in Addr : StepTo(a)
  <2>1. PICK a \in Addr : StepTo(a)
    BY <1>9
  <2>2. bps' \in Seq(Entries) /\ Len(bps') <= MaxList
    BY <1>1, <2>1, EntryFits DEF StepTo
  <2>3. ListsTyped'
    BY <1>1, <2>1, <2>2 DEF StepTo, ListsTyped
  <2>4. RunTyped' /\ UNCHANGED <<cpu, probe>>
    BY <1>1, <1>3, <2>1 DEF StepTo, RunTyped
  <2> QED BY <1>4, <2>3, <2>4 DEF DebugInv
<1>10. CASE Pause \/ Resume \/ WaitBp \/ WaitOver \/ EnqueueWaitbreak \/ FrameEnd
  <2>1. UNCHANGED <<cpu, probe, z80>> /\ UNCHANGED hostVars
    BY <1>10 DEF Pause, Resume, WaitBp, WaitOver, EnqueueWaitbreak, FrameEnd
  <2>2. ipc' \in [pc : {"idle", "to", "bp"}, hit : BOOLEAN]
    <3>1. \/ ipc' = ipc \/ ipc' = [ipc EXCEPT !.pc = "bp"]
          \/ ipc' = [pc |-> "idle", hit |-> FALSE]
      BY <1>10, Zenon DEF Pause, Resume, WaitBp, WaitOver, EnqueueWaitbreak, FrameEnd
    <3>2. ipc \in [pc : {"idle", "to", "bp"}, hit : BOOLEAN]
      BY <1>1 DEF RunTyped
    <3>3. /\ [ipc EXCEPT !.pc = "bp"] \in [pc : {"idle", "to", "bp"}, hit : BOOLEAN]
          /\ [pc |-> "idle", hit |-> FALSE] \in [pc : {"idle", "to", "bp"}, hit : BOOLEAN]
      BY <3>2
    <3> QED BY <3>1, <3>2, <3>3
  <2>3. auto' \in [q : {"empty", "queued", "blocked"}, latch : BOOLEAN]
    <3>1. auto' = auto \/ auto' = [q |-> "queued", latch |-> FALSE]
      BY <1>10 DEF Pause, Resume, WaitBp, WaitOver, EnqueueWaitbreak, FrameEnd
    <3>2. auto \in [q : {"empty", "queued", "blocked"}, latch : BOOLEAN]
      BY <1>1 DEF RunTyped
    <3>3. [q |-> "queued", latch |-> FALSE]
            \in [q : {"empty", "queued", "blocked"}, latch : BOOLEAN]
      OBVIOUS
    <3> QED BY <3>1, <3>2, <3>3
  <2>4. paused' \in BOOLEAN
    <3>1. paused' = paused \/ paused' = TRUE \/ paused' = FALSE \/ paused' = (paused \/ ipc.pc = "to")
      BY <1>10, Zenon DEF Pause, Resume, WaitBp, WaitOver, EnqueueWaitbreak, FrameEnd
    <3>2. paused \in BOOLEAN
      BY <1>1 DEF RunTyped
    <3> QED BY <3>1, <3>2
  <2>5. loop' \in {"top", "frame", "sync"} /\ edits' \in 0..MaxEdits
    BY <1>1, <1>3, <1>10
       DEF Pause, Resume, WaitBp, WaitOver, EnqueueWaitbreak, FrameEnd, RunTyped
  <2>6. RunTyped'
    BY <1>1, <2>1, <2>2, <2>3, <2>4, <2>5 DEF RunTyped
  <2> QED BY <1>4, <1>5, <2>1, <2>6 DEF DebugInv
<1>11. CASE FrameStart
  <2>1. ProbeInv' /\ (probe'.hit.kind # "none" => probe'.hit = probe.hit)
    BY <1>11, AckIsFresh DEF FrameStart
  <2>2. RunTyped' /\ UNCHANGED hostVars
    BY <1>1, <1>11 DEF FrameStart, RunTyped
  <2> QED BY <1>5, <2>1, <2>2 DEF DebugInv, HitIsFresh
<1>12. CASE Tick
  <2>1. cpu \in Cpus /\ probe \in Probes /\ FreshFetch(probe, cpu)
    BY <1>1 DEF ProbeInv
  <2>2. cpu' = Advance(cpu) /\ probe' = Ticked(probe, Advance(cpu))
    BY <1>12 DEF Tick
  <2>3. /\ cpu' \in Cpus /\ probe' \in Probes /\ FreshFetch(probe', cpu')
        /\ HitIsFresh
    BY <2>1, <2>2, TickedIsFresh DEF HitIsFresh
  <2>4. RunTyped' /\ UNCHANGED hostVars
    BY <1>1, <1>12 DEF Tick, RunTyped
  <2>5. ProbeInv'
    BY <2>3 DEF ProbeInv
  <2> QED BY <1>5, <2>3, <2>4, <2>5 DEF DebugInv
<1>13. CASE DebugSync
  BY <1>13, SyncKeeps DEF HitIsFresh
<1> QED BY <1>6, <1>7, <1>8, <1>9, <1>10, <1>11, <1>12, <1>13
        DEF DebugNext, Host, Z80Thread, ipc_step

\* The debugger starts in its invariant.
LEMMA DebugStarts == DebugInit => DebugInv
<1> SUFFICES ASSUME DebugInit PROVE DebugInv
  OBVIOUS
<1>1. 0 \in Addr /\ LastAddr \in Nat /\ MaxList \in Nat /\ MaxEdits \in Nat
  BY DebuggerAssumption DEF Addr
<1>2. ListsTyped
  BY <1>1 DEF DebugInit, ListsTyped
<1>3. RunTyped
  <2>1. [break_point |-> 0, reached |-> FALSE] \in [break_point : Addr \cup {BpNone}, reached : BOOLEAN]
    BY <1>1
  <2>2. /\ [q |-> "empty", latch |-> FALSE] \in [q : {"empty", "queued", "blocked"}, latch : BOOLEAN]
        /\ [pc |-> "idle", hit |-> FALSE] \in [pc : {"idle", "to", "bp"}, hit : BOOLEAN]
    OBVIOUS
  <2>3. 0 \in 0..MaxEdits
    BY <1>1
  <2> QED BY <2>1, <2>2, <2>3, Zenon DEF DebugInit, RunTyped
<1>4. NoHit \in [kind : Strobes, addr : Addr]
  BY <1>1 DEF NoHit, Strobes
<1>5. ProbeInv
  BY <1>1, <1>4 DEF DebugInit, ProbeInv, Cpus, Probes, FreshFetch, BusPhases, Strobes
<1> QED BY <1>2, <1>3, <1>5 DEF DebugInv

-----------------------------------------------------------------------------
(* The bench gives the debugger its own steps and no others.               *)
LEMMA DebugBench == [Next]_benchVars => [DebugNext]_debugVars
BY DEF Next, benchVars, debugVars

(* Every variable of the debugger keeps its range, whatever host and guest  *)
(* do (z80.h breakpoint lists, subcycle_bridge_debug_sync, WAITBREAK).      *)
THEOREM DebugTypeCorrect == Spec => []DebugTypeOK
<1>1. Init => DebugInv
  BY DebugStarts DEF Init
<1>2. DebugInv /\ [Next]_benchVars => DebugInv'
  BY DebugBench, DebugStep
<1>3. DebugInv => DebugTypeOK
  BY DebugTypes DEF DebugInv, ProbeInv
<1> QED BY <1>1, <1>2, <1>3, PTL DEF Spec

(* A hit is a new fetch: the probe never trips twice on the fetch it has    *)
(* already stopped at (probe-device.md, "Edges, not levels").              *)
THEOREM HitsAreFresh == Spec => NoRetrip
<1>1. Init => DebugInv
  BY DebugStarts DEF Init
<1>2. DebugInv /\ [Next]_benchVars
        => DebugInv' /\ [probe'.hit.kind = "fetch" /\ probe.hit.kind = "none" => probe.fresh]_debugVars
  BY DebugBench, DebugStep DEF HitIsFresh
<1> QED BY <1>1, <1>2, PTL DEF Spec, NoRetrip

-----------------------------------------------------------------------------
(* The ASIC.  The sequencer is past the grant only for a channel that       *)
(* exists; the generation of the video registers lags the copy's exactly    *)
(* when something was written since the copy.                               *)
Dmas == [source : 0..(Len(Program) - 1), enabled : BOOLEAN, pause : Nat, loops : 0..MaxLoops,
         loop_addr : 0..(Len(Program) - 1), int : BOOLEAN]
Locks == [locked : BOOLEAN, pos : 0..Len(LockSeq), page_on : BOOLEAN]
Buses == [phase : Phases, cur : Nat, fired : BOOLEAN]
Serving(b) == b.phase \in {"fetch", "exec", "psg_sel", "psg_wr", "advance"} => b.cur \in Channels

AsicInv ==
  /\ lock \in Locks /\ dma \in [Channels -> Dmas] /\ bus \in Buses /\ Serving(bus)
  /\ pri \in BOOLEAN /\ vregs \in Values /\ vid_gen \in 0..MaxAhead /\ shown \in Values
  /\ CopyIsCurrent

\* The ASIC's invariant gives its types and that the copy is current.
LEMMA AsicTypes == AsicInv => AsicTypeOK /\ CopyIsCurrent
<1> SUFFICES ASSUME AsicInv PROVE AsicTypeOK
  BY DEF AsicInv
<1>1. /\ lock.pos \in 0..Len(LockSeq) /\ lock.locked \in BOOLEAN /\ lock.page_on \in BOOLEAN
      /\ bus.phase \in Phases /\ bus.fired \in BOOLEAN /\ bus.cur \in Nat
  BY DEF AsicInv, Locks, Buses
<1>2. \A c \in Channels :
       /\ dma[c].source \in 0..(Len(Program) - 1) /\ dma[c].enabled \in BOOLEAN
       /\ dma[c].pause \in Nat /\ dma[c].loops \in 0..MaxLoops /\ dma[c].int \in BOOLEAN
       /\ dma[c].loop_addr \in 0..(Len(Program) - 1)
  BY DEF AsicInv, Dmas
<1>3. pri \in BOOLEAN /\ vregs \in Values /\ vid_gen \in 0..MaxAhead /\ shown \in Values
  BY DEF AsicInv
<1> QED BY <1>1, <1>2, <1>3, Zenon DEF AsicTypeOK

\* The ASIC starts in its invariant.
LEMMA AsicStarts == AsicInit => AsicInv
<1> SUFFICES ASSUME AsicInit PROVE AsicInv
  OBVIOUS
<1>1. 0 \in 0..(Len(Program) - 1) /\ 0 \in 0..Len(LockSeq) /\ MaxLoops \in Nat /\ 1 \in 0..MaxAhead
  BY AsicAssumption
<1>2. lock \in Locks
  BY <1>1 DEF AsicInit, Locks
<1>3. dma \in [Channels -> Dmas]
  BY <1>1 DEF AsicInit, Dmas
<1>4. bus \in Buses /\ Serving(bus)
  BY DEF AsicInit, Buses, Phases, Serving
<1>5. pri \in BOOLEAN
  BY DEF AsicInit
<1>6. vregs \in Values /\ vid_gen \in 0..MaxAhead /\ shown \in Values /\ CopyIsCurrent
  BY <1>1 DEF AsicInit, CopyIsCurrent, Values
<1> QED BY <1>2, <1>3, <1>4, <1>5, <1>6, Zenon DEF AsicInv

\* A byte of the unlock sequence leaves the lock in one of its states.
LEMMA KnockFits ==
  ASSUME AsicInv, NEW v \in KnockBytes, feed_knock(v)
  PROVE  lock' \in Locks
<1> DEFINE N == Len(LockSeq)
<1>1. N \in Nat /\ N >= 2 /\ v \in Nat
  BY AsicAssumption
<1>2. lock \in Locks /\ lock.pos \in 0..N
  BY DEF AsicInv, Locks
<1>3. lock' =
       IF lock.pos = 0 THEN [lock EXCEPT !.pos = IF v > 0 THEN 1 ELSE 0]
       ELSE IF lock.pos < N
       THEN IF v = LockSeq[lock.pos + 1] THEN [lock EXCEPT !.pos = @ + 1]
            ELSE [lock EXCEPT !.pos = IF v = 0 THEN 2 ELSE 1,
                              !.locked = @ \/ lock.pos + 1 = N]
       ELSE [lock EXCEPT !.pos = IF v = 0 THEN 0 ELSE 1, !.locked = FALSE]
  BY DEF feed_knock
<1>4. Locks = [locked : BOOLEAN, pos : 0..N, page_on : BOOLEAN]
  BY DEF Locks
<1> HIDE DEF N
<1>5. \A p \in 0..N : [lock EXCEPT !.pos = p] \in Locks
  BY <1>2, <1>4
<1>6. \A p \in 0..N, b \in BOOLEAN : [lock EXCEPT !.pos = p, !.locked = b] \in Locks
  BY <1>2, <1>4
<1>7. 0 \in 0..N /\ 1 \in 0..N /\ 2 \in 0..N /\ (lock.pos < N => lock.pos + 1 \in 0..N)
  BY <1>1, <1>2
<1>8. CASE lock.pos = 0
  BY <1>3, <1>5, <1>7, <1>8
<1>9. CASE lock.pos # 0 /\ lock.pos < N /\ v = LockSeq[lock.pos + 1]
  BY <1>3, <1>5, <1>7, <1>9
<1>10. CASE lock.pos # 0 /\ lock.pos < N /\ v # LockSeq[lock.pos + 1]
  <2>1. (lock.locked \/ lock.pos + 1 = N) \in BOOLEAN
    BY <1>2, <1>4
  <2>2. lock' = [lock EXCEPT !.pos = IF v = 0 THEN 2 ELSE 1, !.locked = lock.locked \/ lock.pos + 1 = N]
    BY <1>3, <1>10
  <2> QED BY <1>6, <1>7, <2>1, <2>2
<1>11. CASE lock.pos # 0 /\ ~(lock.pos < N)
  BY <1>3, <1>6, <1>7, <1>11
<1> QED BY <1>8, <1>9, <1>10, <1>11

\* The DMA's address wraps inside the program.
LEMMA WordWraps == ASSUME NEW a \in Nat PROVE (a + 1) % Len(Program) \in 0..(Len(Program) - 1)
<1>1. Len(Program) \in Nat /\ Len(Program) > 0
  BY AsicAssumption
<1> QED BY <1>1

\* A DMA instruction leaves the channel typed.
LEMMA ExecFits ==
  ASSUME NEW ch \in Dmas, NEW i \in Words
  PROVE  dma_exec(ch, i) \in Dmas
<1> DEFINE W == 0..(Len(Program) - 1)
           past == (ch.source + 1) % Len(Program)
           after == (past + 1) % Len(Program)
           looped == i.loop /\ ch.loops > 0
           pz == IF i.pause > 0 THEN i.pause ELSE ch.pause
           lps == IF i.repeat > 0 THEN i.repeat ELSE IF looped THEN ch.loops - 1 ELSE ch.loops
           irq == ch.int \/ i.int
           on == ch.enabled /\ ~i.stop
           src == IF looped THEN ch.loop_addr ELSE past
           la == IF i.repeat > 0 THEN after ELSE ch.loop_addr
<1>1. /\ ch.source \in W /\ ch.enabled \in BOOLEAN /\ ch.pause \in Nat /\ ch.loops \in 0..MaxLoops
      /\ ch.loop_addr \in W /\ ch.int \in BOOLEAN
  BY DEF Dmas
<1>2. /\ i.pause \in Nat /\ i.repeat \in 0..MaxLoops /\ i.loop \in BOOLEAN
      /\ i.int \in BOOLEAN /\ i.stop \in BOOLEAN
  BY DEF Words
<1>3. MaxLoops \in Nat /\ Len(Program) \in Nat
  BY AsicAssumption
<1>4. past \in W /\ after \in W
  <2>1. past \in W
    <3>1. ch.source \in Nat
      BY <1>1, <1>3
    <3> QED BY <3>1, WordWraps
  <2>2. past \in Nat
    <3> HIDE DEF past
    <3> QED BY <1>3, <2>1
  <2> HIDE DEF past
  <2> QED BY <2>1, <2>2, WordWraps
<1>5. lps \in 0..MaxLoops
  BY <1>1, <1>2, <1>3
<1>6. pz \in Nat /\ src \in W /\ la \in W
  <2> HIDE DEF past, after, looped
  <2> QED BY <1>1, <1>2, <1>4
<1>7. irq \in BOOLEAN /\ on \in BOOLEAN
  BY <1>1, <1>2
<1>8. dma_exec(ch, i) = IF i.op = "load" THEN [ch EXCEPT !.source = past]
       ELSE [ch EXCEPT !.source = src, !.pause = pz, !.loops = lps, !.loop_addr = la,
                       !.int = irq, !.enabled = on]
  BY DEF dma_exec
<1> HIDE DEF W, past, after, looped, pz, lps, irq, on, src, la
<1>9. Dmas = [source : W, enabled : BOOLEAN, pause : Nat, loops : 0..MaxLoops, loop_addr : W, int : BOOLEAN]
  BY DEF Dmas, W
<1>10. [ch EXCEPT !.source = past] \in Dmas
  BY <1>4, <1>9
<1>11. [ch EXCEPT !.source = src, !.pause = pz, !.loops = lps, !.loop_addr = la,
                  !.int = irq, !.enabled = on] \in Dmas
  BY <1>5, <1>6, <1>7, <1>9
<1> QED BY <1>8, <1>10, <1>11

\* The search for a channel ends idle or serving a channel of the machine.
LEMMA SeekServes ==
  ASSUME bus \in Buses, NEW k \in Nat
  PROVE  Seek(k) \in Buses /\ Serving(Seek(k))
<1> DEFINE T == {c \in Channels : c >= k /\ Ready(dma, c)}
<1>1. CASE T # {}
  <2>1. T \in SUBSET Nat
    BY AsicAssumption
  <2>2. PICK m \in T : \A d \in T : m <= d
    <3> HIDE DEF T
    <3> QED BY <1>1, <2>1, LeastMember
  <2> DEFINE least(c) == /\ c >= k /\ Ready(dma, c)
                         /\ \A d \in Channels : d >= k /\ Ready(dma, d) => c <= d
             c0 == CHOOSE c \in Channels : least(c)
  <2>3. m \in Channels /\ least(m)
    BY <2>2
  <2>4. c0 \in Channels
    <3> HIDE DEF least
    <3> QED BY <2>3
  <2>5. Seek(k) = [bus EXCEPT !.phase = "fetch", !.cur = c0]
    BY <1>1 DEF Seek
  <2>6. c0 \in Nat
    <3> HIDE DEF c0
    <3> QED BY <2>4, AsicAssumption
  <2> HIDE DEF c0
  <2> QED BY <2>4, <2>5, <2>6 DEF Buses, Phases, Serving
<1>2. CASE T = {}
  <2>1. Seek(k) = [bus EXCEPT !.phase = "idle"]
    BY <1>2 DEF Seek
  <2> QED BY <2>1 DEF Buses, Phases, Serving
<1> QED BY <1>1, <1>2

\* Every step of the ASIC keeps its invariant.
LEMMA AsicStep ==
  ASSUME AsicInv, [AsicNext]_asicVars
  PROVE  AsicInv'
<1> DEFINE Rest == /\ pri' \in BOOLEAN /\ vregs' \in Values /\ vid_gen' \in 0..MaxAhead
                   /\ shown' \in Values /\ CopyIsCurrent'
           ListStep == /\ dma' \in [Channels -> Dmas] /\ bus' \in Buses /\ Serving(bus')
<1>1. /\ lock \in Locks /\ dma \in [Channels -> Dmas] /\ bus \in Buses /\ Serving(bus)
      /\ pri \in BOOLEAN /\ vregs \in Values /\ vid_gen \in 0..MaxAhead /\ shown \in Values
      /\ CopyIsCurrent
  BY DEF AsicInv
<1>2. MaxAhead \in Nat /\ MaxLoops \in Nat
  BY AsicAssumption
<1>3. \A g \in {1} : Move(g) => vid_gen' \in 0..MaxAhead /\ vid_gen' # 0
  BY <1>1, <1>2 DEF Move
<1>4. lock' \in Locks /\ ListStep /\ Rest => AsicInv'
  BY DEF AsicInv
<1>5. UNCHANGED <<dma, bus>> => ListStep
  BY <1>1 DEF Serving
<1>6. UNCHANGED <<pri, vregs, vid_gen, shown>> => Rest
  BY <1>1 DEF CopyIsCurrent
<1> HIDE DEF ListStep, Rest
<1>7. CASE UNCHANGED asicVars
  BY <1>1, <1>4, <1>5, <1>6, <1>7 DEF asicVars
<1>8. ASSUME NEW v \in KnockBytes, feed_knock(v) PROVE AsicInv'
  <2>1. lock' \in Locks
    BY <1>8, KnockFits
  <2> QED BY <1>4, <1>5, <1>6, <1>8, <2>1 DEF feed_knock
<1>9. ASSUME NEW on \in BOOLEAN, MapPage(on) PROVE AsicInv'
  <2>1. lock' \in Locks
    BY <1>1, <1>9 DEF MapPage, Locks
  <2> QED BY <1>4, <1>5, <1>6, <1>9, <2>1 DEF MapPage
<1>10. ASSUME NEW v \in Values, WriteVideo(v) \/ snoop_classic_palette(v) \/ asic_load(v)
       PROVE AsicInv'
  <2>1. vregs' = v /\ Move(1) /\ UNCHANGED <<lock, dma, bus, pri, shown>>
    BY <1>10 DEF WriteVideo, snoop_classic_palette, asic_load
  <2>2. Rest
    BY <1>1, <1>3, <2>1 DEF Rest, CopyIsCurrent
  <2> QED BY <1>1, <1>4, <1>5, <2>1, <2>2
<1>11. ASSUME NEW c \in Channels, NEW a \in Starts, WriteSource(c, a) PROVE AsicInv'
  <2>1. a \in 0..(Len(Program) - 1)
    BY AsicAssumption
  <2>2. dma' \in [Channels -> Dmas]
    BY <1>1, <1>11, <2>1 DEF WriteSource, Dmas
  <2>3. ListStep
    BY <1>1, <1>11, <2>2 DEF WriteSource, ListStep, Serving
  <2> QED BY <1>1, <1>4, <1>6, <1>11, <2>3 DEF WriteSource
<1>12. ASSUME NEW on \in SUBSET Channels, WriteEnable(on) PROVE AsicInv'
  <2>1. \A ch \in Dmas, b \in BOOLEAN : [ch EXCEPT !.enabled = b] \in Dmas
    BY DEF Dmas
  <2>2. dma' = [c \in Channels |-> [dma[c] EXCEPT !.enabled = c \in on]]
    BY <1>12 DEF WriteEnable
  <2>3. \A c \in Channels : dma[c] \in Dmas /\ (c \in on) \in BOOLEAN
    BY <1>1
  <2>4. dma' \in [Channels -> Dmas]
    BY <2>1, <2>2, <2>3
  <2>5. ListStep
    BY <1>1, <1>12, <2>4 DEF WriteEnable, ListStep, Serving
  <2> QED BY <1>1, <1>4, <1>6, <1>12, <2>5 DEF WriteEnable
<1>13. ASSUME NEW raster \in BOOLEAN, LineStart(raster) PROVE AsicInv'
  <2>1. bus' = [bus EXCEPT !.fired = FALSE] /\ pri' = (pri \/ raster)
        /\ UNCHANGED <<lock, dma, vregs, vid_gen, shown>>
    BY <1>13 DEF LineStart
  <2>2. ListStep
    BY <1>1, <2>1 DEF ListStep, Serving, Buses
  <2>3. Rest
    <3>1. pri' \in BOOLEAN
      BY <1>1, <2>1
    <3> QED BY <1>1, <2>1, <3>1 DEF Rest, CopyIsCurrent
  <2> QED BY <1>1, <1>4, <2>1, <2>2, <2>3
<1>14. CASE refresh
  <2>1. /\ shown' = (IF vid_gen = 0 THEN shown ELSE vregs) /\ vid_gen' = 0
        /\ UNCHANGED <<lock, dma, bus, pri, vregs>>
    BY <1>14 DEF refresh
  <2>2. Rest
    BY <1>1, <1>2, <2>1 DEF Rest, CopyIsCurrent
  <2> QED BY <1>1, <1>4, <1>5, <2>1, <2>2
<1>15. CASE LineTrigger
  <2>1. dma' = [c \in Channels |-> IF dma[c].enabled /\ dma[c].pause > 0
                                   THEN [dma[c] EXCEPT !.pause = @ - 1] ELSE dma[c]]
    BY <1>15 DEF LineTrigger
  <2>2. \A ch \in Dmas : ch.pause > 0 => [ch EXCEPT !.pause = @ - 1] \in Dmas
    BY DEF Dmas
  <2>3. dma' \in [Channels -> Dmas]
    BY <1>1, <2>1, <2>2
  <2>4. bus' \in Buses /\ Serving(bus')
    BY <1>1, <1>15 DEF LineTrigger, Buses, Phases, Serving
  <2>5. ListStep
    BY <2>3, <2>4 DEF ListStep
  <2> QED BY <1>1, <1>4, <1>6, <1>15, <2>5 DEF LineTrigger
<1>16. CASE BusGranted \/ DmaAdvance
  <2>1. PICK k \in Nat : bus' = Seek(k)
    <3>1. bus.cur + 1 \in Nat /\ 0 \in Nat
      BY <1>1 DEF Buses
    <3> QED BY <1>16, <3>1 DEF BusGranted, DmaAdvance
  <2>2. UNCHANGED <<lock, dma, pri, vregs, vid_gen, shown>>
    BY <1>16 DEF BusGranted, DmaAdvance
  <2>3. bus' \in Buses /\ Serving(bus')
    BY <1>1, <2>1, SeekServes
  <2>4. ListStep
    BY <1>1, <2>2, <2>3 DEF ListStep
  <2> QED BY <1>1, <1>4, <1>6, <2>2, <2>4
<1>17. CASE Fetch \/ PsgWrite
  <2>1. \E p \in {"exec", "psg_wr", "advance"} : bus' = [bus EXCEPT !.phase = p]
    BY <1>17 DEF Fetch, PsgWrite
  <2>2. bus.cur \in Channels
    BY <1>1, <1>17 DEF Fetch, PsgWrite, Serving
  <2>3. bus' \in Buses /\ Serving(bus')
    BY <1>1, <2>1, <2>2 DEF Buses, Phases, Serving
  <2>4. UNCHANGED <<lock, dma, pri, vregs, vid_gen, shown>>
    BY <1>17 DEF Fetch, PsgWrite
  <2>5. ListStep
    BY <1>1, <2>3, <2>4 DEF ListStep
  <2> QED BY <1>1, <1>4, <1>6, <2>4, <2>5
<1>18. CASE Exec
  <2> DEFINE ch == dma[bus.cur]
             i == Program[ch.source + 1]
  <2>1. bus.cur \in Channels
    BY <1>1, <1>18 DEF Exec, Serving
  <2>2. ch \in Dmas /\ ch.source \in 0..(Len(Program) - 1)
    BY <1>1, <2>1 DEF Dmas
  <2>3. i \in Words
    <3> HIDE DEF ch
    <3>1. Program \in Seq(Words) /\ Len(Program) \in Nat
      BY AsicAssumption
    <3>2. ch.source + 1 \in 1..Len(Program)
      BY <2>2, <3>1
    <3> QED BY <3>1, <3>2
  <2>4. dma' = [dma EXCEPT ![bus.cur] = dma_exec(ch, i)]
    BY <1>18 DEF Exec
  <2>5. dma_exec(ch, i) \in Dmas
    <3> HIDE DEF ch, i
    <3> QED BY <2>2, <2>3, ExecFits
  <2>6. dma' \in [Channels -> Dmas]
    <3> HIDE DEF ch, i
    <3> QED BY <1>1, <2>4, <2>5
  <2>7. bus' \in Buses /\ Serving(bus')
    <3>1. \E p \in {"psg_sel", "advance"} : bus' = [bus EXCEPT !.phase = p]
      BY <1>18 DEF Exec
    <3> QED BY <1>1, <2>1, <3>1 DEF Buses, Phases, Serving
  <2>8. ListStep
    BY <2>6, <2>7 DEF ListStep
  <2> QED BY <1>1, <1>4, <1>6, <1>18, <2>8 DEF Exec
<1>19. CASE IntAck
  <2>1. \A ch \in Dmas : [ch EXCEPT !.int = FALSE] \in Dmas
    BY DEF Dmas
  <2>2. dma' = [c \in Channels |-> [dma[c] EXCEPT !.int = FALSE]]
    BY <1>19 DEF IntAck
  <2>3. dma' \in [Channels -> Dmas]
    BY <1>1, <2>1, <2>2
  <2>4. ListStep
    BY <1>1, <1>19, <2>3 DEF IntAck, ListStep, Serving
  <2>5. Rest
    BY <1>1, <1>19 DEF IntAck, Rest, CopyIsCurrent
  <2> QED BY <1>1, <1>4, <1>19, <2>4, <2>5 DEF IntAck
<1>20. CASE asic_dev_reset
  <2>1. lock' \in Locks
    BY <1>20, AsicAssumption DEF asic_dev_reset, Locks
  <2>2. ListStep
    BY <1>1, <1>20 DEF asic_dev_reset, ListStep, Buses, Phases, Serving
  <2>3. Rest
    BY <1>1, <1>20 DEF asic_dev_reset, Rest, CopyIsCurrent
  <2> QED BY <1>4, <2>1, <2>2, <2>3
<1> QED BY <1>7, <1>8, <1>9, <1>10, <1>11, <1>12, <1>13, <1>14, <1>15, <1>16, <1>17, <1>18, <1>19, <1>20
        DEF AsicNext, Sequencer

\* A step of the bench is a step of the ASIC or leaves it alone.
LEMMA AsicBench == [Next]_benchVars => [AsicNext]_asicVars
BY DEF Next, benchVars, asicVars

(* The video device's skipped refresh never leaves it with stale registers, *)
(* and the ASIC's variables keep their ranges, whatever the guest programs  *)
(* into the lists (the generation in asic.cpp, the skip in video.cpp).      *)
THEOREM CopyStaysCurrent == Spec => [](CopyIsCurrent /\ AsicTypeOK)
<1>1. Init => AsicInv
  BY AsicStarts DEF Init
<1>2. AsicInv /\ [Next]_benchVars => AsicInv'
  BY AsicBench, AsicStep
<1> QED BY <1>1, <1>2, AsicTypes, PTL DEF Spec

-----------------------------------------------------------------------------
(* The tape deck.  The ordinal counts a block when the block ends, so it is *)
(* behind the next block's index by one between blocks and by two inside    *)
(* one: that is why it never leaves the tape.                               *)
DeckPhases == {"idle", "pilot", "sync1", "sync2", "data", "pulseseq", "direct", "pause"}
InBlock == {"pilot", "sync1", "sync2", "data", "pulseseq", "direct"}
Decks == [nxt : 1..(MaxBlocks + 1), block : 0..MaxBlocks, at : 0..MaxBlocks, phase : DeckPhases,
          left : 0..(PulseMod - 1), len : Nat, tone : BOOLEAN, gap : BOOLEAN,
          playing : BOOLEAN, error : BOOLEAN]
Between(d) == d \in Decks /\ d.block <= d.nxt - 1
Counted(d) == Between(d) /\ (d.phase \in InBlock => d.block <= d.nxt - 2)
Attached == Tapes \cup {<<>>}

TapeInv ==
  /\ tape \in Attached /\ Counted(deck)
  /\ tbutton \in BOOLEAN /\ tseek \in 0..MaxBlocks /\ tmotor \in BOOLEAN /\ tline \in BOOLEAN

\* What the tape's assumption says of the pulses and the tapes attached.
LEMMA TapeFacts ==
  /\ PulseMod \in Nat /\ PulseMod > 0 /\ MaxBlocks \in Nat
  /\ \A t \in Attached : t \in Seq(Blocks) /\ Len(t) \in 0..MaxBlocks
<1>1. PICK longest \in Tapes : \A t \in Tapes : Len(t) <= Len(longest)
  BY TapeAssumption
<1>2. \A t \in Tapes : t \in Seq(Blocks) /\ Len(t) \in Nat
  BY TapeAssumption
<1> DEFINE L == {Len(t) : t \in Tapes}
           top(n) == \A t \in Tapes : Len(t) <= n
<1>3. Len(longest) \in L /\ top(Len(longest))
  BY <1>1
<1>4. MaxBlocks \in L /\ top(MaxBlocks)
  <2>1. MaxBlocks = CHOOSE n \in L : top(n)
    BY DEF MaxBlocks
  <2> HIDE DEF L, top
  <2> QED BY <1>3, <2>1
<1>5. MaxBlocks \in Nat
  BY <1>2, <1>4
<1>6. \A t \in Tapes : Len(t) \in 0..MaxBlocks
  BY <1>2, <1>4, <1>5
<1>7. <<>> \in Seq(Blocks) /\ Len(<<>>) \in 0..MaxBlocks
  BY <1>5
<1>8. \A t \in Attached : t \in Seq(Blocks) /\ Len(t) \in 0..MaxBlocks
  BY <1>2, <1>6, <1>7, Zenon DEF Attached
<1> QED BY <1>5, <1>8, TapeAssumption

\* A deck that stops, with an error or without, counts its blocks right.
LEMMA DeckStops ==
  ASSUME NEW d, Between(d)
  PROVE  Counted(stop(d)) /\ Counted(stop([d EXCEPT !.error = TRUE]))
BY DEF Between, Counted, stop, Decks, DeckPhases, InBlock

(* The block that start_block sets up. *)
BlockSetUp(e, b) ==
  CASE b.kind = "turbo" -> [e EXCEPT !.phase = "pilot", !.left = b.n, !.len = b.len,
                                     !.tone = FALSE, !.gap = b.gap]
    [] b.kind = "tone" -> [e EXCEPT !.phase = "pilot", !.left = b.n, !.len = 0,
                                    !.tone = TRUE, !.gap = FALSE]
    [] b.kind = "pulses" -> [e EXCEPT !.phase = "pulseseq", !.left = b.n, !.tone = FALSE]
    [] b.kind = "data" -> [e EXCEPT !.phase = "data", !.len = b.len, !.gap = b.gap, !.tone = FALSE]
    [] b.kind = "direct" -> [e EXCEPT !.phase = "direct", !.len = b.n, !.gap = b.gap, !.tone = FALSE]
    [] OTHER -> [e EXCEPT !.phase = "pause"]

\* Setting a block up, of any kind, keeps the counts.
LEMMA SetUpFits ==
  ASSUME NEW e \in Decks, e.block <= e.nxt - 2, NEW b \in Blocks,
         b.kind \in {"turbo", "tone", "pulses"} => b.n < PulseMod
  PROVE  Counted(BlockSetUp(e, b))
<1> DEFINE s == BlockSetUp(e, b)
<1>1. e.block \in Nat /\ e.nxt \in Nat /\ PulseMod \in Nat
  BY TapeFacts DEF Decks
<1>2. b.n \in Nat /\ b.len \in Nat /\ b.gap \in BOOLEAN
  BY DEF Blocks
<1>3. b.kind \in {"turbo", "tone", "pulses"} => b.n \in 0..(PulseMod - 1)
  BY <1>1, <1>2
<1> HIDE DEF Blocks
<1>4. CASE b.kind = "turbo"
  <2>1. s = [e EXCEPT !.phase = "pilot", !.left = b.n, !.len = b.len, !.tone = FALSE, !.gap = b.gap]
    BY <1>4 DEF BlockSetUp
  <2>2. s \in Decks /\ s.block = e.block /\ s.nxt = e.nxt
    BY <1>2, <1>3, <1>4, <2>1 DEF Decks, DeckPhases
  <2> QED BY <1>1, <2>2 DEF Counted, Between
<1>5. CASE b.kind = "tone"
  <2>1. s = [e EXCEPT !.phase = "pilot", !.left = b.n, !.len = 0, !.tone = TRUE, !.gap = FALSE]
    BY <1>5 DEF BlockSetUp
  <2>2. b.n \in 0..(PulseMod - 1) /\ 0 \in Nat
    BY <1>3, <1>5
  <2>3. s \in Decks /\ s.block = e.block /\ s.nxt = e.nxt
    BY <2>1, <2>2 DEF Decks, DeckPhases
  <2> QED BY <1>1, <2>3 DEF Counted, Between
<1>6. CASE b.kind = "pulses"
  <2>1. s = [e EXCEPT !.phase = "pulseseq", !.left = b.n, !.tone = FALSE]
    BY <1>6 DEF BlockSetUp
  <2>2. s \in Decks /\ s.block = e.block /\ s.nxt = e.nxt
    BY <1>3, <1>6, <2>1 DEF Decks, DeckPhases
  <2> QED BY <1>1, <2>2 DEF Counted, Between
<1>7. CASE b.kind = "data"
  <2>1. s = [e EXCEPT !.phase = "data", !.len = b.len, !.gap = b.gap, !.tone = FALSE]
    BY <1>7 DEF BlockSetUp
  <2>2. s \in Decks /\ s.block = e.block /\ s.nxt = e.nxt
    BY <1>2, <2>1 DEF Decks, DeckPhases
  <2> QED BY <1>1, <2>2 DEF Counted, Between
<1>8. CASE b.kind = "direct"
  <2>1. s = [e EXCEPT !.phase = "direct", !.len = b.n, !.gap = b.gap, !.tone = FALSE]
    BY <1>8 DEF BlockSetUp
  <2>2. s \in Decks /\ s.block = e.block /\ s.nxt = e.nxt
    BY <1>2, <2>1 DEF Decks, DeckPhases
  <2> QED BY <1>1, <2>2 DEF Counted, Between
<1>9. CASE b.kind \notin {"turbo", "tone", "pulses", "data", "direct"}
  <2>1. s = [e EXCEPT !.phase = "pause"]
    BY <1>9 DEF BlockSetUp
  <2>2. s \in Decks /\ s.block = e.block /\ s.nxt = e.nxt
    BY <2>1 DEF Decks, DeckPhases
  <2> QED BY <1>1, <2>2 DEF Counted, Between
<1> QED BY <1>4, <1>5, <1>6, <1>7, <1>8, <1>9

\* So does starting the block the deck is at.
LEMMA StartFits ==
  ASSUME NEW t \in Attached, NEW d, Between(d)
  PROVE  Counted(start_block(t, d))
<1> DEFINE N == Len(t)
           Passed(i) == t[i].kind = "meta" \/ (t[i].kind = "direct" /\ t[i].n = 0)
           first(i, j) == /\ j <= N => ~Passed(j)
                          /\ \A k \in i..(j - 1) : Passed(k)
           j0 == CHOOSE j \in d.nxt..(N + 1) : first(d.nxt, j)
           e0 == [d EXCEPT !.block = @ + (j0 - d.nxt), !.nxt = j0]
           e1 == [e0 EXCEPT !.nxt = j0 + 1, !.at = j0]
           b == t[j0]
<1>1. N \in Nat /\ N <= MaxBlocks /\ MaxBlocks \in Nat /\ t \in Seq(Blocks)
  BY TapeFacts
<1>2. d \in Decks /\ d.nxt \in Nat /\ d.nxt >= 1 /\ d.block \in Nat /\ d.block <= d.nxt - 1
      /\ d.nxt <= MaxBlocks + 1
  BY <1>1 DEF Between, Decks
<1>3. CASE d.nxt > N
  <2>1. start_block(t, d) = stop(d)
    BY <1>3 DEF start_block
  <2> QED BY <2>1, DeckStops
<1>4. CASE ~(d.nxt > N)
  <2>1. j0 \in d.nxt..(N + 1)
    <3> DEFINE T == {j \in d.nxt..(N + 1) : j <= N => ~Passed(j)}
    <3>1. T \in SUBSET Nat /\ N + 1 \in T
      <4> HIDE DEF Passed
      <4> QED BY <1>1, <1>2, <1>4
    <3>2. PICK m \in T : \A k \in T : m <= k
      <4> HIDE DEF T
      <4> QED BY <3>1, LeastMember
    <3>3. m \in d.nxt..(N + 1) /\ m \in Nat
      BY <1>1, <1>2
    <3>4. \A k \in d.nxt..(m - 1) : Passed(k)
      <4> HIDE DEF Passed
      <4> TAKE k \in d.nxt..(m - 1)
      <4>1. k \in Nat /\ k < m /\ k \in d.nxt..(N + 1) /\ k <= N
        BY <1>1, <1>2, <3>3
      <4>2. k \notin T
        BY <3>2, <3>3, <4>1
      <4> QED BY <4>1, <4>2
    <3>5. first(d.nxt, m)
      BY <3>2, <3>4
    <3> HIDE DEF first
    <3> QED BY <3>3, <3>5
  <2>2. start_block(t, d) =
          IF j0 > N THEN stop(e0)
          ELSE CASE b.kind = "turbo" -> [e1 EXCEPT !.phase = "pilot", !.left = b.n, !.len = b.len,
                                                 !.tone = FALSE, !.gap = b.gap]
                 [] b.kind = "tone" -> [e1 EXCEPT !.phase = "pilot", !.left = b.n, !.len = 0,
                                                  !.tone = TRUE, !.gap = FALSE]
                 [] b.kind = "pulses" -> [e1 EXCEPT !.phase = "pulseseq", !.left = b.n, !.tone = FALSE]
                 [] b.kind = "data" -> [e1 EXCEPT !.phase = "data", !.len = b.len, !.gap = b.gap,
                                                  !.tone = FALSE]
                 [] b.kind = "direct" -> [e1 EXCEPT !.phase = "direct", !.len = b.n, !.gap = b.gap,
                                                    !.tone = FALSE]
                 [] b.kind = "pause" -> IF b.n = 0 THEN stop(e1) ELSE [e1 EXCEPT !.phase = "pause"]
                 [] OTHER -> stop([e0 EXCEPT !.error = TRUE])
    BY <1>4, Zenon DEF start_block
  <2> HIDE DEF j0
  <2>3. Between(e0) /\ e0.nxt = j0
    <3>1. d.block + (j0 - d.nxt) \in 0..MaxBlocks /\ j0 \in 1..(MaxBlocks + 1)
          /\ d.block + (j0 - d.nxt) <= j0 - 1
      BY <1>1, <1>2, <2>1
    <3>2. e0 \in Decks /\ e0.block = d.block + (j0 - d.nxt) /\ e0.nxt = j0
      BY <1>2, <3>1 DEF Decks
    <3> QED BY <3>1, <3>2 DEF Between
  <2>4. CASE j0 > N
    BY <2>2, <2>3, <2>4, DeckStops
  <2>5. CASE ~(j0 > N)
    <3>1. j0 \in 1..N /\ j0 + 1 \in 1..(MaxBlocks + 1) /\ j0 \in 0..MaxBlocks
      BY <1>1, <1>2, <2>1, <2>5
    <3>2. b \in Blocks /\ (b.kind \in {"turbo", "tone", "pulses"} => b.n < PulseMod)
      <4>1. t \in Tapes
        <5>1. t # <<>>
          BY <1>1, <3>1
        <5> QED BY <5>1 DEF Attached
      <4>2. j0 \in DOMAIN t
        BY <1>1, <3>1
      <4> QED BY <1>1, <3>1, <4>1, <4>2, TapeAssumption
    <3>3. e1 \in Decks /\ e1.nxt = j0 + 1 /\ e1.block = e0.block
      <4> HIDE DEF e0
      <4> QED BY <2>3, <3>1 DEF Between, Decks
    <3>4. e1.block <= e1.nxt - 2 /\ Between(e1)
      <4>1. e0.block <= j0 - 1 /\ e0.block \in Nat /\ j0 \in Nat
        <5> HIDE DEF e0
        <5>1. e0.block \in 0..MaxBlocks /\ e0.block <= j0 - 1
          BY <2>3 DEF Between, Decks
        <5> QED BY <1>1, <3>1, <5>1
      <4> QED BY <3>3, <4>1 DEF Between
    <3> HIDE DEF e0, e1, b
    <3>5. Counted(BlockSetUp(e1, b))
      BY <3>2, <3>3, <3>4, SetUpFits
    <3>6. Counted(stop(e1)) /\ Counted(stop([e0 EXCEPT !.error = TRUE]))
      BY <2>3, <3>4, DeckStops
    <3>7. start_block(t, d) \in {BlockSetUp(e1, b), stop(e1), stop([e0 EXCEPT !.error = TRUE])}
      BY <2>2, <2>5 DEF BlockSetUp
    <3> QED BY <3>5, <3>6, <3>7
  <2> QED BY <2>4, <2>5
<1> QED BY <1>3, <1>4

\* So does going on to the next one.
LEMMA NextFits ==
  ASSUME NEW t \in Attached, NEW d \in Decks, d.block <= d.nxt - 2
  PROVE  Counted(next_block(t, d))
<1> DEFINE e == [d EXCEPT !.block = @ + 1]
<1>1. MaxBlocks \in Nat /\ d.block \in Nat /\ d.nxt \in 1..(MaxBlocks + 1)
  BY TapeFacts DEF Decks
<1>2. d.block + 1 \in 0..MaxBlocks
  BY <1>1
<1>3. e \in Decks /\ e.block = d.block + 1 /\ e.nxt = d.nxt
  BY <1>2 DEF Decks
<1>4. Between(e)
  BY <1>1, <1>3 DEF Between
<1>5. next_block(t, d) = IF d.gap THEN [e EXCEPT !.phase = "pause", !.gap = FALSE] ELSE start_block(t, e)
  BY DEF next_block
<1> HIDE DEF e
<1>6. CASE d.gap
  <2>1. Counted([e EXCEPT !.phase = "pause", !.gap = FALSE])
    BY <1>4 DEF Counted, Between, Decks, DeckPhases, InBlock
  <2> QED BY <1>5, <1>6, <2>1
<1>7. CASE ~d.gap
  BY <1>4, <1>5, <1>7, StartFits
<1> QED BY <1>6, <1>7

\* So does the end of a pulse.
LEMMA PulseFits ==
  ASSUME NEW t \in Attached, NEW d, Counted(d), d.phase \in InBlock
  PROVE  Counted(pulse_done(t, d))
<1> DEFINE down == (d.left + PulseMod - 1) % PulseMod
           zero == [d EXCEPT !.left = 0]
<1>1. d \in Decks /\ d.block <= d.nxt - 1 /\ d.block <= d.nxt - 2
  BY DEF Counted, Between
<1>2. PulseMod \in Nat /\ PulseMod > 0 /\ d.left \in 0..(PulseMod - 1) /\ d.len \in Nat
  BY <1>1, TapeFacts DEF Decks
<1>3. down \in 0..(PulseMod - 1) /\ 0 \in 0..(PulseMod - 1)
  BY <1>2
<1>4. CASE d.phase \in {"pilot", "pulseseq"}
  <2>1. pulse_done(t, d) = IF down > 0 THEN [d EXCEPT !.left = down]
                           ELSE IF d.phase = "pilot" /\ ~d.tone THEN [zero EXCEPT !.phase = "sync1"]
                           ELSE next_block(t, zero)
    <3>1. pulse_done(t, d) = Counting(t, d)
      BY <1>4 DEF pulse_done
    <3>2. zero.phase = d.phase /\ zero.tone = d.tone
      BY <1>1 DEF Decks
    <3> QED BY <3>1, <3>2 DEF Counting
  <2> HIDE DEF down
  <2>2. Counted([d EXCEPT !.left = down])
    BY <1>1, <1>3 DEF Counted, Between, Decks, InBlock
  <2>3. zero \in Decks /\ zero.block = d.block /\ zero.nxt = d.nxt
    BY <1>1, <1>3 DEF Decks
  <2> HIDE DEF zero
  <2>4. Counted([zero EXCEPT !.phase = "sync1"])
    BY <1>1, <2>3 DEF Counted, Between, Decks, DeckPhases, InBlock
  <2>5. Counted(next_block(t, zero))
    BY <1>1, <2>3, NextFits
  <2> QED BY <2>1, <2>2, <2>4, <2>5
<1>5. CASE d.phase \in {"sync1", "sync2"}
  <2>1. \E p \in {"sync2", "data"} : pulse_done(t, d) = [d EXCEPT !.phase = p]
    BY <1>5 DEF pulse_done
  <2> QED BY <1>1, <2>1 DEF Counted, Between, Decks, DeckPhases, InBlock
<1>6. CASE d.phase \notin {"pilot", "pulseseq", "sync1", "sync2"}
  <2>1. pulse_done(t, d) = IF d.len <= 1 THEN next_block(t, d) ELSE [d EXCEPT !.len = @ - 1]
    BY <1>6 DEF pulse_done
  <2>2. Counted(next_block(t, d))
    BY <1>1, NextFits
  <2>3. CASE ~(d.len <= 1)
    <3>1. d.len - 1 \in Nat
      BY <1>2, <2>3
    <3>2. Counted([d EXCEPT !.len = d.len - 1])
      BY <1>1, <3>1 DEF Counted, Between, Decks, InBlock
    <3> QED BY <2>1, <2>3, <3>2
  <2> QED BY <2>1, <2>2, <2>3
<1> QED BY <1>4, <1>5, <1>6

\* So does pressing or releasing play.
LEMMA PlayFits ==
  ASSUME NEW t \in Attached, NEW d, Counted(d), NEW on \in BOOLEAN
  PROVE  Counted(tape_play(t, d, on))
<1> DEFINE e == [d EXCEPT !.playing = TRUE]
<1>1. Counted(e) /\ Between(e)
  BY DEF Counted, Between, Decks, InBlock
<1>2. Counted([d EXCEPT !.playing = FALSE])
  BY DEF Counted, Between, Decks, InBlock
<1>3. tape_play(t, d, on) \in {start_block(t, e), e, d, [d EXCEPT !.playing = FALSE]}
  BY DEF tape_play
<1> HIDE DEF e
<1>4. Counted(start_block(t, e))
  BY <1>1, StartFits
<1> QED BY <1>1, <1>2, <1>3, <1>4

\* So does winding to a block.
LEMMA GoToFits ==
  ASSUME NEW t \in Attached, NEW d, Counted(d), NEW i \in 1..(MaxBlocks + 1)
  PROVE  Counted(GoTo(t, d, i))
<1> DEFINE e == [d EXCEPT !.nxt = i, !.block = i - 1, !.phase = "idle", !.error = FALSE,
                          !.playing = FALSE]
<1>1. i \in Nat /\ i - 1 \in 0..MaxBlocks /\ MaxBlocks \in Nat
  BY TapeFacts
<1>2. d \in Decks /\ d.playing \in BOOLEAN
  BY DEF Counted, Between, Decks
<1>3. e \in Decks /\ e.nxt = i /\ e.block = i - 1 /\ e.phase = "idle"
  BY <1>1, <1>2 DEF Decks, DeckPhases
<1>4. GoTo(t, d, i) = tape_play(t, e, d.playing)
  BY DEF GoTo
<1> HIDE DEF e
<1>5. Counted(e)
  BY <1>1, <1>3 DEF Counted, Between, InBlock
<1> QED BY <1>2, <1>4, <1>5, PlayFits

\* The tape starts in its invariant.
LEMMA TapeStarts == TapeInit => TapeInv
<1> SUFFICES ASSUME TapeInit PROVE TapeInv
  OBVIOUS
<1>1. MaxBlocks \in Nat /\ PulseMod \in Nat /\ PulseMod > 0
  BY TapeFacts
<1>2. 1 \in 1..(MaxBlocks + 1) /\ 0 \in 0..MaxBlocks /\ 0 \in 0..(PulseMod - 1)
  BY <1>1
<1>3. deck \in Decks /\ deck.block = 0 /\ deck.nxt = 1 /\ deck.phase = "idle"
  BY <1>2 DEF TapeInit, Decks, DeckPhases
<1>4. Counted(deck)
  BY <1>3 DEF Counted, Between, InBlock
<1>5. tape \in Attached /\ tseek \in 0..MaxBlocks
  BY <1>2 DEF TapeInit, Attached
<1>6. tbutton \in BOOLEAN /\ tmotor \in BOOLEAN /\ tline \in BOOLEAN
  BY DEF TapeInit
<1> QED BY <1>4, <1>5, <1>6 DEF TapeInv

\* Every step of the tape keeps it.
LEMMA TapeStep ==
  ASSUME TapeInv, [TapeNext]_tapeVars
  PROVE  TapeInv'
<1>1. /\ tape \in Attached /\ Counted(deck)
      /\ tbutton \in BOOLEAN /\ tseek \in 0..MaxBlocks /\ tmotor \in BOOLEAN /\ tline \in BOOLEAN
  BY DEF TapeInv
<1>2. MaxBlocks \in Nat /\ \A t \in Attached : Len(t) \in 0..MaxBlocks
  BY TapeFacts
<1>3. CASE UNCHANGED tapeVars
  BY <1>1, <1>3 DEF tapeVars, TapeInv
<1>4. CASE tape_tick
  <2>1. /\ deck' = IF deck.phase = "pause" THEN start_block(tape, deck) ELSE pulse_done(tape, deck)
        /\ deck.phase # "idle" /\ UNCHANGED <<tape, tbutton, tseek, tmotor, tline>>
    BY <1>4 DEF tape_tick
  <2>2. Counted(deck')
    <3>1. CASE deck.phase = "pause"
      <4>1. Between(deck)
        BY <1>1 DEF Counted
      <4> QED BY <1>1, <2>1, <3>1, <4>1, StartFits
    <3>2. CASE deck.phase # "pause"
      <4>1. deck.phase \in InBlock
        BY <1>1, <2>1, <3>2 DEF Counted, Between, Decks, DeckPhases, InBlock
      <4> QED BY <1>1, <2>1, <3>2, <4>1, PulseFits
    <3> QED BY <3>1, <3>2
  <2> QED BY <1>1, <2>1, <2>2 DEF TapeInv
<1>5. CASE FrameSync
  <2> DEFINE d == tape_play(tape, deck, tbutton)
  <2>1. /\ deck' = IF tseek \in 1..Len(tape) THEN GoTo(tape, d, tseek) ELSE d
        /\ tseek' = 0 /\ UNCHANGED <<tape, tbutton, tmotor, tline>>
    BY <1>5 DEF FrameSync
  <2>2. Counted(d)
    BY <1>1, PlayFits
  <2> HIDE DEF d
  <2>3. Counted(deck')
    <3>1. CASE tseek \in 1..Len(tape)
      <4>1. tseek \in 1..(MaxBlocks + 1)
        BY <1>1, <1>2, <3>1
      <4> QED BY <1>1, <2>1, <2>2, <3>1, <4>1, GoToFits
    <3>2. CASE ~(tseek \in 1..Len(tape))
      BY <2>1, <2>2, <3>2
    <3> QED BY <3>1, <3>2
  <2>4. tseek' \in 0..MaxBlocks
    BY <1>2, <2>1
  <2> QED BY <1>1, <2>1, <2>3, <2>4 DEF TapeInv
<1>6. CASE EjectTape
  <2>1. /\ tape' = <<>> /\ deck' = [stop(deck) EXCEPT !.error = FALSE]
        /\ UNCHANGED <<tbutton, tseek, tmotor, tline>>
    BY <1>6 DEF EjectTape
  <2>2. Counted(stop(deck))
    BY <1>1, DeckStops DEF Counted
  <2>3. Counted(deck')
    <3> DEFINE d == stop(deck)
    <3>1. Counted(d) /\ deck' = [d EXCEPT !.error = FALSE]
      BY <2>1, <2>2
    <3> HIDE DEF d
    <3> QED BY <3>1 DEF Counted, Between, Decks, InBlock
  <2> QED BY <1>1, <2>1, <2>3 DEF TapeInv, Attached
<1>7. ASSUME NEW t \in Tapes, Attach(t) PROVE TapeInv'
  <2>1. tape' = t /\ deck' = GoTo(t, deck, 1) /\ UNCHANGED <<tbutton, tseek, tmotor, tline>>
    BY <1>7 DEF Attach
  <2>2. t \in Attached /\ 1 \in 1..(MaxBlocks + 1)
    BY <1>2 DEF Attached
  <2>3. Counted(deck')
    BY <1>1, <2>1, <2>2, GoToFits
  <2> QED BY <1>1, <2>1, <2>2, <2>3 DEF TapeInv
<1>8. ASSUME NEW i \in 1..Len(tape), RequestSeek(i) PROVE TapeInv'
  <2>1. tseek' = i /\ UNCHANGED <<tape, deck, tbutton, tmotor, tline>>
    BY <1>8 DEF RequestSeek
  <2>2. tseek' \in 0..MaxBlocks
    BY <1>1, <1>2, <2>1
  <2> QED BY <1>1, <2>1, <2>2 DEF TapeInv
<1>9. ASSUME NEW on \in BOOLEAN, PressPlay(on) \/ Motor(on) \/ LineMode(on) PROVE TapeInv'
  <2>1. UNCHANGED <<tape, deck, tseek>>
    BY <1>9 DEF PressPlay, Motor, LineMode
  <2>2. tbutton' \in BOOLEAN /\ tmotor' \in BOOLEAN /\ tline' \in BOOLEAN
    BY <1>1, <1>9, Zenon DEF PressPlay, Motor, LineMode
  <2> QED BY <1>1, <2>1, <2>2 DEF TapeInv
<1> QED BY <1>3, <1>4, <1>5, <1>6, <1>7, <1>8, <1>9 DEF TapeNext

\* A step of the bench is a step of the tape or leaves it alone.
LEMMA TapeBench == [Next]_benchVars => [TapeNext]_tapeVars
BY DEF Next, benchVars, tapeVars

(* The deck never counts past the tape's last block, however it is played,  *)
(* sought, swapped and ejected (tape.cpp's start_block and end_block).     *)
THEOREM OrdinalStaysOnTape == Spec => []TapeTypeOK
<1>1. Init => TapeInv
  BY TapeStarts DEF Init
<1>2. TapeInv /\ [Next]_benchVars => TapeInv'
  BY TapeBench, TapeStep
<1>3. TapeInv => TapeTypeOK
  BY DEF TapeInv, TapeTypeOK, Attached, Counted, Between, Decks, DeckPhases
<1> QED BY <1>1, <1>2, <1>3, PTL DEF Spec

-----------------------------------------------------------------------------
(* The Z80.  While it fetches, PC has passed the bytes fetched so far and    *)
(* the prefix and index it holds are those of these bytes; while it runs a   *)
(* micro-program, PC has also passed the operand bytes of the cycles begun.  *)
(* So the last cycle leaves PC where the instruction ends, and the next      *)
(* starts at 0.                                                              *)
Steps == {"READ", "WRITE", "IN", "OUT", "INTERNAL", "IOACK"} \X Nat
Fields == {"mc", "t", "ilen", "step", "prefix", "index", "op", "taken", "bytes", "serv", "iff1",
           "iff2", "im", "halted", "haltT", "nmi", "ei", "afterEi", "pc", "r", "ts", "log"}

PcUpTo(s, k) == Cardinality({i \in 1..k : s[i] = Pc})

Fetching(z, b) ==
  LET n == IF z.t = 0 THEN z.bytes + 1 ELSE z.bytes
  IN  /\ z.mc = "M1" /\ z.serv = "NONE" /\ z.step = 0 /\ z.t \in 0..3
      /\ z.bytes \in Nat /\ n \in 1..Len(b)
      /\ z.prefix \in {0, CB, ED} /\ (z.prefix = 0 <=> ~Escaped(b, n))
      /\ z.prefix = 0 => (z.index = "HL" <=> ~Indexed(b, n))
      /\ z.pc = (IF z.halted THEN -1 ELSE z.bytes)
      /\ z.halted => z.t = 0 /\ z.bytes = 0
      /\ z.t = 3 => z.op = b[n]
      /\ z.t = 0 /\ z.prefix = 0 /\ z.index = "HL" /\ z.afterEi => z.ei

\* between two machine cycles of a micro-program, k of them begun
Midway(z, k) ==
  /\ ~z.halted /\ k \in Nat /\ k <= Len(Cycles(z))
  /\ \/ /\ z.serv \in {"NMI", "MASKABLE"} /\ z.pc = 0
        /\ z.prefix = 0 /\ z.index = "HL" /\ (z.serv = "MASKABLE" => ~z.afterEi)
     \/ /\ z.serv = "NONE" /\ z.op \in 0..255 /\ z.prefix \in {0, CB, ED} /\ z.bytes \in Nat
        /\ z.pc = z.bytes + PcUpTo(Cycles(z), k)

Running(z) ==
  /\ z.mc # "M1" /\ z.step \in Nat /\ z.t \in Nat
  /\ Midway(z, z.step + 1)
  /\ z.mc = Cycles(z)[z.step + 1][1]
  /\ z.mc \in {"READ", "WRITE"} => z.t <= 2
  /\ z.mc \in {"IN", "OUT"} => z.t <= 3

CpuInv(z, b) == DOMAIN z = Fields /\ (Fetching(z, b) \/ Running(z))

SeqInv == CpuInv(zt, zins.bytes) /\ Encodes(zins.bytes)

\* Counting the fetches of a list of cycles one by one gives how many it has.
LEMMA PcCounts ==
  ASSUME NEW S, NEW s \in Seq(S)
  PROVE  /\ PcUpTo(s, 0) = 0
         /\ \A k \in 0..(Len(s) - 1) :
              /\ PcUpTo(s, k) \in Nat
              /\ PcUpTo(s, k + 1) = IF s[k + 1] = Pc THEN PcUpTo(s, k) + 1 ELSE PcUpTo(s, k)
         /\ PcUpTo(s, Len(s)) = Cardinality({i \in DOMAIN s : s[i] = Pc})
<1>1. Len(s) \in Nat /\ DOMAIN s = 1..Len(s)
  OBVIOUS
<1>2. PcUpTo(s, 0) = 0
  <2>1. {i \in 1..0 : s[i] = Pc} = {}
    OBVIOUS
  <2> QED BY <2>1, FS_EmptySet DEF PcUpTo
<1>3. ASSUME NEW k \in 0..(Len(s) - 1)
      PROVE  /\ PcUpTo(s, k) \in Nat
             /\ PcUpTo(s, k + 1) = IF s[k + 1] = Pc THEN PcUpTo(s, k) + 1 ELSE PcUpTo(s, k)
  <2> DEFINE A == {i \in 1..k : s[i] = Pc}
             B == {i \in 1..(k + 1) : s[i] = Pc}
  <2>1. k \in Nat /\ k + 1 \notin A
    BY <1>1
  <2>2. IsFiniteSet(A)
    <3>1. IsFiniteSet(1..k)
      BY <2>1, FS_Interval
    <3>2. A \in SUBSET (1..k)
      OBVIOUS
    <3> QED BY <3>1, <3>2, FS_Subset
  <2>3. B = IF s[k + 1] = Pc THEN A \cup {k + 1} ELSE A
    BY <2>1
  <2>4. Cardinality(A) \in Nat
    BY <2>2, FS_CardinalityType
  <2>5. PcUpTo(s, k) = Cardinality(A) /\ PcUpTo(s, k + 1) = Cardinality(B)
    BY DEF PcUpTo
  <2>6. Cardinality(A \cup {k + 1}) = Cardinality(A) + 1
    <3> HIDE DEF A
    <3> QED BY <2>1, <2>2, FS_AddElement
  <2> HIDE DEF A, B
  <2> QED BY <2>3, <2>4, <2>5, <2>6
<1> QED BY <1>1, <1>2, <1>3 DEF PcUpTo

\* The fields of an opcode are within their widths.
LEMMA Decoded ==
  ASSUME NEW op \in 0..255
  PROVE  x_(op) \in 0..3 /\ y_(op) \in 0..7 /\ z_(op) \in 0..7
BY DEF x_, y_, z_

\* Every kind of cycle the tables use is a step.
LEMMA ShortSteps ==
  /\ Rd \in Steps /\ Wr \in Steps /\ Pc \in Steps /\ In \in Steps /\ Out \in Steps
  /\ \A n \in Nat : Idle(n) \in Steps /\ Ack(n) \in Steps
BY DEF Rd, Wr, Pc, In, Out, Idle, Ack, Steps

(* Short lists of steps are lists of steps, and so are lists put together. *)
LEMMA Joined ==
  ASSUME NEW s \in Seq(Steps), NEW t \in Seq(Steps), NEW c
  PROVE  s \o t \in Seq(Steps) /\ When(c, s) \in Seq(Steps) /\ <<>> \in Seq(Steps)
<1>1. s \o t \in Seq(Steps)
  BY ConcatProperties
<1>2. <<>> \in Seq(Steps)
  OBVIOUS
<1> QED BY <1>1, <1>2 DEF When

\* The lists of cycles the tables write out are lists of steps.
LEMMA Lists ==
  /\ \A a \in Steps : <<a>> \in Seq(Steps)
  /\ \A a, b \in Steps : <<a, b>> \in Seq(Steps)
  /\ \A a, b, c \in Steps : <<a, b, c>> \in Seq(Steps)
  /\ \A a, b, c, d \in Steps : <<a, b, c, d>> \in Seq(Steps)
  /\ \A a, b, c, d, e \in Steps : <<a, b, c, d, e>> \in Seq(Steps)
  /\ \A a, b, c, d, e, f \in Steps : <<a, b, c, d, e, f>> \in Seq(Steps)
OBVIOUS

\* The main table gives a list of steps for every opcode.
LEMMA MainCycles ==
  ASSUME NEW op \in 0..255, NEW taken
  PROVE  micro(op, taken) \in Seq(Steps)
<1> DEFINE x == x_(op)
           y == y_(op)
           z == z_(op)
<1>1. x \in 0..3 /\ y \in 0..7 /\ z \in 0..7
  BY Decoded
<1> HIDE DEF x, y, z
<1>2. \A n \in 0..10 : Idle(n) \in Steps
  BY ShortSteps
<1>3. \A c : /\ When(c, <<Idle(5)>>) \in Seq(Steps) /\ When(c, <<Wr>>) \in Seq(Steps)
             /\ When(c, <<Rd, Idle(1), Wr>>) \in Seq(Steps) /\ When(c, <<Rd, Rd>>) \in Seq(Steps)
             /\ When(c, <<Rd>>) \in Seq(Steps) /\ When(c, <<Idle(1), Wr, Wr>>) \in Seq(Steps)
  BY <1>2, ShortSteps, Lists, Joined
<1>4. \A c : /\ <<Pc>> \o When(c, <<Wr>>) \in Seq(Steps)
             /\ <<Idle(1), Pc>> \o When(c, <<Idle(5)>>) \in Seq(Steps)
             /\ <<Pc>> \o When(c, <<Idle(5)>>) \in Seq(Steps)
             /\ <<Idle(1)>> \o When(c, <<Rd, Rd>>) \in Seq(Steps)
             /\ <<Pc, Pc>> \o When(c, <<Idle(1), Wr, Wr>>) \in Seq(Steps)
  <2> TAKE c
  <2> DEFINE w1 == When(c, <<Wr>>)
             w2 == When(c, <<Idle(5)>>)
             w3 == When(c, <<Rd, Rd>>)
             w4 == When(c, <<Idle(1), Wr, Wr>>)
  <2>1. w1 \in Seq(Steps) /\ w2 \in Seq(Steps) /\ w3 \in Seq(Steps) /\ w4 \in Seq(Steps)
    BY <1>3
  <2> HIDE DEF w1, w2, w3, w4
  <2>2. /\ <<Pc>> \in Seq(Steps) /\ <<Idle(1), Pc>> \in Seq(Steps)
        /\ <<Idle(1)>> \in Seq(Steps) /\ <<Pc, Pc>> \in Seq(Steps)
    BY <1>2, ShortSteps, Lists
  <2>3. /\ <<Pc>> \o w1 \in Seq(Steps) /\ <<Idle(1), Pc>> \o w2 \in Seq(Steps)
        /\ <<Pc>> \o w2 \in Seq(Steps) /\ <<Idle(1)>> \o w3 \in Seq(Steps)
        /\ <<Pc, Pc>> \o w4 \in Seq(Steps)
    BY <2>1, <2>2, Joined
  <2> QED BY <2>3 DEF w1, w2, w3, w4
<1>5. \A i \in 1..4 : <<Pc, Pc>> \o <<<<Wr, Wr>>, <<Rd, Rd>>, <<Wr>>, <<Rd>>>>[i] \in Seq(Steps)
  <2> TAKE i \in 1..4
  <2> DEFINE w == <<<<Wr, Wr>>, <<Rd, Rd>>, <<Wr>>, <<Rd>>>>[i]
  <2>1. w \in {<<Wr, Wr>>, <<Rd, Rd>>, <<Wr>>, <<Rd>>}
    OBVIOUS
  <2> HIDE DEF w
  <2>2. w \in Seq(Steps) /\ <<Pc, Pc>> \in Seq(Steps)
    BY <2>1, ShortSteps, Lists
  <2>3. <<Pc, Pc>> \o w \in Seq(Steps)
    BY <2>2, Joined
  <2> QED BY <2>3 DEF w
<1>6. <<>> \in Seq(Steps)
  OBVIOUS
<1>7. CASE x = 0
  <2>1. z \in 3..7 => x0_step(y, z) \in Seq(Steps)
    <3>1. <<Idle(2)>> \in Seq(Steps)
      BY <1>2, Lists
    <3>2. When(y = 6, <<Rd, Idle(1), Wr>>) \in Seq(Steps)
      BY <1>3
    <3>3. <<Pc>> \o When(y = 6, <<Wr>>) \in Seq(Steps)
      BY <1>4
    <3>4. z \in 3..7 => x0_step(y, z) \in {<<Idle(2)>>, When(y = 6, <<Rd, Idle(1), Wr>>),
                                           <<Pc>> \o When(y = 6, <<Wr>>), <<>>}
      BY DEF x0_step
    <3> QED BY <1>6, <3>1, <3>2, <3>3, <3>4
  <2>2. micro_x0(y, z, taken) \in Seq(Steps)
    <3>1. CASE z = 0
      <4>1. <<Pc, Idle(5)>> \in Seq(Steps)
        BY <1>2, ShortSteps, Lists
      <4>2. micro_x0(y, z, taken) \in {<<>>, <<Idle(1), Pc>> \o When(taken, <<Idle(5)>>),
                                       <<Pc, Idle(5)>>, <<Pc>> \o When(taken, <<Idle(5)>>)}
        BY <1>1, <3>1 DEF micro_x0
      <4>3. /\ <<Idle(1), Pc>> \o When(taken, <<Idle(5)>>) \in Seq(Steps)
            /\ <<Pc>> \o When(taken, <<Idle(5)>>) \in Seq(Steps)
        BY <1>4
      <4> QED BY <1>6, <4>1, <4>2, <4>3
    <3>2. CASE z = 1
      BY <1>1, <1>2, <1>4, <1>6, <3>2, ShortSteps, Lists DEF micro_x0
    <3>3. CASE z = 2
      <4>1. CASE y < 4
        BY <1>1, <3>3, <4>1, ShortSteps, Lists DEF micro_x0
      <4>2. CASE y >= 4
        <5>1. y - 3 \in 1..4
          BY <1>1, <4>2
        <5>2. micro_x0(y, z, taken) = <<Pc, Pc>> \o <<<<Wr, Wr>>, <<Rd, Rd>>, <<Wr>>, <<Rd>>>>[y - 3]
          BY <1>1, <3>3, <4>2 DEF micro_x0
        <5> QED BY <1>5, <5>1, <5>2
      <4> QED BY <1>1, <4>1, <4>2
    <3>4. CASE z \in 3..7
      BY <1>1, <2>1, <3>4 DEF micro_x0
    <3> QED BY <1>1, <3>1, <3>2, <3>3, <3>4
  <2>3. micro(op, taken) = micro_x0(y, z, taken)
    BY <1>7 DEF micro, x, y, z
  <2> QED BY <2>2, <2>3
<1>8. CASE x = 1
  <2>1. micro_x1(y, z) \in Seq(Steps)
    BY <1>6, ShortSteps, Lists DEF micro_x1
  <2> QED BY <1>8, <2>1 DEF micro, x, y, z
<1>9. CASE x = 2
  BY <1>3, <1>9 DEF micro, x, z
<1>10. CASE x = 3
  <2>1. z < 3 => x3_flow(y, z, taken) \in Seq(Steps)
    <3>1. <<Idle(1)>> \o When(taken, <<Rd, Rd>>) \in Seq(Steps)
      BY <1>4
    <3>2. <<Rd, Rd>> \in Seq(Steps) /\ <<Idle(2)>> \in Seq(Steps) /\ <<Pc, Pc>> \in Seq(Steps)
      BY <1>2, ShortSteps, Lists
    <3>3. CASE z = 0
      BY <3>1, <3>3 DEF x3_flow
    <3>4. CASE z = 1
      <4>1. x3_flow(y, z, taken) \in {<<Rd, Rd>>, <<Idle(2)>>, <<>>}
        BY <1>1, <3>4 DEF x3_flow
      <4> QED BY <1>6, <3>2, <4>1
    <3>5. CASE z = 2
      BY <3>2, <3>5 DEF x3_flow
    <3> QED BY <1>1, <3>3, <3>4, <3>5
  <2>2. x3_misc(y) \in Seq(Steps)
    BY <1>2, <1>6, ShortSteps, Lists DEF x3_misc
  <2>3. z > 3 => x3_push(y, z, taken) \in Seq(Steps)
    <3>1. <<Pc, Pc>> \o When(taken, <<Idle(1), Wr, Wr>>) \in Seq(Steps)
      BY <1>4
    <3>2. /\ <<Idle(1), Wr, Wr>> \in Seq(Steps) /\ <<Pc>> \in Seq(Steps)
          /\ <<Pc, Pc, Idle(1), Wr, Wr>> \in Seq(Steps)
      BY <1>2, ShortSteps, Lists
    <3>3. CASE z = 4
      BY <3>1, <3>3 DEF x3_push
    <3>4. CASE z = 5
      <4>1. x3_push(y, z, taken) \in {<<Idle(1), Wr, Wr>>, <<Pc, Pc, Idle(1), Wr, Wr>>, <<>>}
        BY <1>1, <3>4 DEF x3_push
      <4> QED BY <1>6, <3>2, <4>1
    <3>5. CASE z \in 6..7
      BY <3>2, <3>5 DEF x3_push
    <3> QED BY <1>1, <3>3, <3>4, <3>5
  <2>4. micro(op, taken) = IF z < 3 THEN x3_flow(y, z, taken)
                           ELSE IF z = 3 THEN x3_misc(y) ELSE x3_push(y, z, taken)
    BY <1>10 DEF micro, x, y, z
  <2> QED BY <1>1, <2>1, <2>2, <2>3, <2>4
<1> QED BY <1>1, <1>7, <1>8, <1>9, <1>10

\* So does the table of the ED opcodes.
LEMMA EdCycles ==
  ASSUME NEW op \in 0..255, NEW again
  PROVE  micro_ed(op, again) \in Seq(Steps)
<1> DEFINE x == x_(op)
           y == y_(op)
           z == z_(op)
           more == again /\ Repeats(op)
           five == When(more, <<Idle(5)>>)
<1>1. x \in 0..3 /\ y \in 0..7 /\ z \in 0..7
  BY Decoded
<1>2. \A n \in 0..10 : Idle(n) \in Steps
  BY ShortSteps
<1>3. <<>> \in Seq(Steps)
  OBVIOUS
<1>4. CASE x = 1
  <2> HIDE DEF x, y, z
  <2>1. <<Pc, Pc>> \o (IF y % 2 = 0 THEN <<Wr, Wr>> ELSE <<Rd, Rd>>) \in Seq(Steps)
    <3> DEFINE w == IF y % 2 = 0 THEN <<Wr, Wr>> ELSE <<Rd, Rd>>
    <3>1. w \in Seq(Steps) /\ <<Pc, Pc>> \in Seq(Steps)
      BY ShortSteps, Lists
    <3> HIDE DEF w
    <3>2. <<Pc, Pc>> \o w \in Seq(Steps)
      BY <3>1, Joined
    <3> QED BY <3>2 DEF w
  <2>2. When(y < 6, <<Rd, Idle(4), Wr>>) \in Seq(Steps)
    BY <1>2, ShortSteps, Lists, Joined
  <2>3. /\ <<In>> \in Seq(Steps) /\ <<Out>> \in Seq(Steps) /\ <<Idle(7)>> \in Seq(Steps)
        /\ <<Rd, Rd>> \in Seq(Steps) /\ <<Idle(1)>> \in Seq(Steps)
    BY <1>2, ShortSteps, Lists
  <2>4. ed_misc(y, z) \in {<<In>>, <<Out>>, <<Idle(7)>>, <<Rd, Rd>>, <<Idle(1)>>, <<>>,
                           When(y < 6, <<Rd, Idle(4), Wr>>),
                           <<Pc, Pc>> \o (IF y % 2 = 0 THEN <<Wr, Wr>> ELSE <<Rd, Rd>>)}
    BY DEF ed_misc
  <2>5. micro_ed(op, again) = ed_misc(y, z)
    BY <1>4 DEF micro_ed, x, y, z
  <2> QED BY <1>3, <2>1, <2>2, <2>3, <2>4, <2>5
<1>5. CASE x = 2 /\ z < 4 /\ y >= 4
  <2>1. micro_ed(op, again) = ed_block(op, more)
    BY <1>5 DEF micro_ed
  <2>2. five \in Seq(Steps)
    BY <1>2, ShortSteps, Lists, Joined
  <2>3. ed_block(op, more) \in {<<Rd, Wr, Idle(2)>> \o five, <<Rd, Idle(5)>> \o five,
                                <<Idle(1), In, Wr>> \o five, <<Idle(1), Rd, Out>> \o five}
    <3>1. z \in 0..3
      BY <1>1, <1>5
    <3>2. ed_block(op, more) \in {block_ld(more), block_cp(more), block_in(more), block_out(more)}
      <4> HIDE DEF more
      <4> QED BY <3>1 DEF ed_block
    <3> HIDE DEF more
    <3> QED BY <3>2 DEF block_ld, block_cp, block_in, block_out
  <2>4. /\ <<Rd, Wr, Idle(2)>> \in Seq(Steps) /\ <<Rd, Idle(5)>> \in Seq(Steps)
        /\ <<Idle(1), In, Wr>> \in Seq(Steps) /\ <<Idle(1), Rd, Out>> \in Seq(Steps)
    BY <1>2, ShortSteps, Lists
  <2> HIDE DEF five
  <2>5. /\ <<Rd, Wr, Idle(2)>> \o five \in Seq(Steps) /\ <<Rd, Idle(5)>> \o five \in Seq(Steps)
        /\ <<Idle(1), In, Wr>> \o five \in Seq(Steps) /\ <<Idle(1), Rd, Out>> \o five \in Seq(Steps)
    BY <2>2, <2>4, Joined
  <2> QED BY <2>1, <2>3, <2>5
<1>6. CASE x # 1 /\ ~(x = 2 /\ z < 4 /\ y >= 4)
  BY <1>3, <1>6 DEF micro_ed
<1> QED BY <1>4, <1>5, <1>6

\* So do the others, and an interrupt's cycles fetch nothing at the counter.
LEMMA OtherCycles ==
  ASSUME NEW op, NEW taken, NEW im, NEW serv \in {"NMI", "MASKABLE"}
  PROVE  /\ micro_cb(op) \in Seq(Steps) /\ micro_index(op) \in Seq(Steps)
         /\ micro_ddcb(taken) \in Seq(Steps)
         /\ micro_interrupt(serv, im) \in Seq(Steps)
         /\ \A i \in DOMAIN micro_interrupt(serv, im) : micro_interrupt(serv, im)[i] # Pc
<1>1. \A n \in 0..10 : Idle(n) \in Steps /\ Ack(n) \in Steps
  BY ShortSteps
<1>2. <<>> \in Seq(Steps)
  OBVIOUS
<1>3. micro_cb(op) \in Seq(Steps)
  <2> DEFINE w == When(x_(op) # 1, <<Wr>>)
  <2>1. w \in Seq(Steps) /\ <<Rd, Idle(1)>> \in Seq(Steps)
    BY <1>1, ShortSteps, Lists, Joined
  <2> HIDE DEF w
  <2>2. <<Rd, Idle(1)>> \o w \in Seq(Steps)
    BY <2>1, Joined
  <2>3. micro_cb(op) = When(z_(op) = 6, <<Rd, Idle(1)>> \o w)
    BY DEF micro_cb, w
  <2> QED BY <2>2, <2>3, Joined
<1>4. micro_index(op) \in Seq(Steps)
  <2> DEFINE w == IF z_(op) = 6 THEN <<Rd>> ELSE <<Wr>>
  <2>1. w \in Seq(Steps) /\ <<Pc, Idle(5)>> \in Seq(Steps)
    BY <1>1, ShortSteps, Lists
  <2> HIDE DEF w
  <2>2. <<Pc, Idle(5)>> \o w \in Seq(Steps)
    BY <2>1, Joined
  <2>3. /\ <<Pc, Pc, Idle(2), Wr>> \in Seq(Steps) /\ <<Pc, Idle(5), Rd>> \in Seq(Steps)
        /\ <<Pc, Idle(5), Rd, Idle(1), Wr>> \in Seq(Steps)
    BY <1>1, ShortSteps, Lists
  <2>4. micro_index(op) \in {<<Pc, Pc, Idle(2), Wr>>, <<Pc, Idle(5)>> \o w, <<Pc, Idle(5), Rd>>,
                             <<Pc, Idle(5), Rd, Idle(1), Wr>>}
    BY DEF micro_index, w
  <2> QED BY <2>2, <2>3, <2>4
<1>5. micro_ddcb(taken) \in Seq(Steps)
  <2> DEFINE w == When(taken, <<Wr>>)
  <2>1. w \in Seq(Steps) /\ <<Pc, Pc, Idle(3), Rd>> \in Seq(Steps)
    BY <1>1, ShortSteps, Lists, Joined
  <2> HIDE DEF w
  <2>2. <<Pc, Pc, Idle(3), Rd>> \o w \in Seq(Steps)
    BY <2>1, Joined
  <2> QED BY <2>2 DEF micro_ddcb, w
<1>6. /\ micro_interrupt(serv, im) \in Seq(Steps)
      /\ \A i \in DOMAIN micro_interrupt(serv, im) : micro_interrupt(serv, im)[i] # Pc
  <2> DEFINE a == Ack(IF serv = "NMI" THEN 4 ELSE 6)
             w == When(serv = "MASKABLE" /\ im = 2, <<Rd, Rd>>)
  <2>1. a \in Steps /\ a # Pc /\ Wr # Pc /\ Rd # Pc
    <3>1. a = Ack(4) \/ a = Ack(6)
      OBVIOUS
    <3>2. Ack(4) # Pc /\ Ack(6) # Pc /\ Wr # Pc /\ Rd # Pc
      BY DEF Ack, Pc, Wr, Rd
    <3> HIDE DEF a
    <3> QED BY <1>1, <3>1, <3>2
  <2>2. w \in {<<>>, <<Rd, Rd>>}
    BY DEF When
  <2> HIDE DEF a, w
  <2>3. <<a, Wr, Wr>> \in Seq(Steps) /\ w \in Seq(Steps)
    BY <1>2, <2>1, <2>2, ShortSteps, Lists
  <2>4. micro_interrupt(serv, im) = <<a, Wr, Wr>> \o w
    BY DEF micro_interrupt, a, w
  <2>5. <<a, Wr, Wr>> \o w \in Seq(Steps)
    BY <2>3, Joined
  <2>6. \A i \in DOMAIN (<<a, Wr, Wr>> \o w) : (<<a, Wr, Wr>> \o w)[i] # Pc
    <3> DEFINE s == <<a, Wr, Wr>>
               c == s \o w
    <3>1. s \in Seq(Steps) /\ Len(s) = 3 /\ \A i \in 1..3 : s[i] # Pc
      BY <2>1, <2>3
    <3>2. Len(w) \in Nat /\ \A i \in 1..Len(w) : w[i] # Pc
      BY <2>1, <2>2, <2>3
    <3> HIDE DEF s
    <3>3. /\ Len(c) = 3 + Len(w)
          /\ \A i \in 1..Len(c) : c[i] = IF i <= 3 THEN s[i] ELSE w[i - 3]
      <4>1. w \in Seq(Steps) /\ s \in Seq(Steps) /\ Len(s) = 3
        BY <2>3, <3>1
      <4>2. /\ Len(c) = Len(s) + Len(w)
            /\ \A i \in 1..(Len(s) + Len(w)) : c[i] = IF i <= Len(s) THEN s[i] ELSE w[i - Len(s)]
        BY <4>1, ConcatProperties
      <4> HIDE DEF c
      <4> QED BY <4>1, <4>2
    <3>4. DOMAIN c = 1..Len(c)
      <4>1. c \in Seq(Steps)
        BY <2>3, <3>1, ConcatProperties
      <4> HIDE DEF c
      <4> QED BY <4>1
    <3> HIDE DEF c
    <3>5. ASSUME NEW i \in 1..Len(c) PROVE c[i] # Pc
      <4>1. CASE i <= 3
        BY <3>1, <3>3, <4>1
      <4>2. CASE ~(i <= 3)
        <5>1. i - 3 \in 1..Len(w)
          BY <3>2, <3>3, <4>2
        <5> QED BY <3>2, <3>3, <4>2, <5>1
      <4> QED BY <4>1, <4>2
    <3> QED BY <3>4, <3>5 DEF c, s
  <2> QED BY <2>4, <2>5, <2>6
<1> QED BY <1>3, <1>4, <1>5, <1>6

(* What a decoded instruction or an accepted interrupt asks for is a list of *)
(* machine cycles.                                                          *)
LEMMA CyclesAreSteps ==
  ASSUME NEW z,
         z.serv \in {"NMI", "MASKABLE"} \/ (z.serv = "NONE" /\ z.op \in 0..255 /\ z.prefix \in {0, CB, ED})
  PROVE  /\ Cycles(z) \in Seq(Steps)
         /\ z.serv # "NONE" => \A i \in DOMAIN Cycles(z) : Cycles(z)[i] # Pc
<1>1. CASE z.serv \in {"NMI", "MASKABLE"}
  <2>1. Cycles(z) = micro_interrupt(z.serv, z.im)
    BY <1>1 DEF Cycles, run_micro
  <2> QED BY <1>1, <2>1, OtherCycles
<1>2. CASE z.serv = "NONE" /\ z.op \in 0..255 /\ z.prefix \in {0, CB, ED}
  <2>1. run_micro(z) \in {"cb", "ed", "main", "ddcb", "index"}
    BY <1>2 DEF run_micro, CB, ED
  <2>2. Cycles(z) \in {micro_cb(z.op), micro_ed(z.op, z.taken), micro_ddcb(z.taken),
                       micro_index(z.op), micro(z.op, z.taken)}
    BY <2>1 DEF Cycles
  <2> QED BY <1>2, <2>2, MainCycles, EdCycles, OtherCycles
<1> QED BY <1>1, <1>2

\* The bytes that encode an instruction: at least one, each a byte, the first with no prefix.
LEMMA FreshPrefixes ==
  ASSUME NEW b, Encodes(b)
  PROVE  /\ Len(b) \in Nat /\ Len(b) >= 1 /\ ~Escaped(b, 1) /\ ~Indexed(b, 1)
         /\ \A n \in 1..Len(b) : b[n] \in 0..255
<1>1. b \in Seq(0..255) /\ b # <<>>
  BY DEF Encodes
<1>2. Len(b) \in Nat /\ Len(b) >= 1 /\ \A n \in 1..Len(b) : b[n] \in 0..255
  <2>1. Len(b) \in Nat \ {0}
    BY <1>1, EmptySeq
  <2>2. \A S : \A q \in Seq(S) : \A n \in 1..Len(q) : q[n] \in S
    OBVIOUS
  <2>3. \A n \in 1..Len(b) : b[n] \in 0..255
    BY <1>1, <2>2
  <2>4. Len(b) \in Nat /\ Len(b) >= 1
    BY <2>1
  <2> QED BY <2>3, <2>4
<1>3. 1..(1 - 1) = {}
  OBVIOUS
<1> QED BY <1>2, <1>3 DEF Escaped, Indexed

(* The end of an instruction leaves the Z80 at the start of the next one.   *)
LEMMA FinishStarts ==
  ASSUME NEW z, NEW b, Encodes(b), DOMAIN z = Fields, Midway(z, Len(Cycles(z)))
  PROVE  DOMAIN finish(z) = Fields /\ Fetching(finish(z), b)
<1> DEFINE g == run_micro(z)
           control ==
             CASE g = "main" /\ z.op = 118 -> [z EXCEPT !.halted = TRUE, !.pc = @ - 1]
               [] g = "main" /\ z.op = 243 -> [z EXCEPT !.iff1 = FALSE, !.iff2 = FALSE]
               [] g = "main" /\ z.op = 251 ->
                    [z EXCEPT !.iff1 = TRUE, !.iff2 = TRUE, !.ei = TRUE]
               [] g = "ed" /\ x_(z.op) = 1 /\ z_(z.op) = 5 -> [z EXCEPT !.iff1 = z.iff2]
               [] g = "ed" /\ x_(z.op) = 1 /\ z_(z.op) = 6 ->
                    [z EXCEPT !.im = <<0, 0, 1, 2, 0, 0, 1, 2>>[y_(z.op) + 1]]
               [] g = "ed" /\ Repeats(z.op) /\ z.taken -> [z EXCEPT !.pc = @ - 2]
               [] OTHER -> z
           ei_ran == g = "main" /\ z.op = 251
           f == finish(z)
           len == z.bytes + Cardinality({i \in DOMAIN Cycles(z) : Cycles(z)[i] = Pc})
<1>1. f = [control EXCEPT !.mc = "M1", !.t = 0, !.step = 0, !.prefix = 0, !.index = "HL",
                     !.serv = "NONE", !.pc = @ - Continues(z), !.bytes = 0,
                     !.op = 0, !.taken = FALSE, !.ilen = 0,
                     !.afterEi = ei_ran]
  BY DEF finish
<1>2. Continues(z) = IF g = "int" THEN 0
                     ELSE IF g = "ed" /\ Repeats(z.op) /\ z.taken THEN len - 2 ELSE len
  BY DEF Continues
<1>3. CASE z.serv \in {"NMI", "MASKABLE"}
  <2>1. g = "int" /\ z.pc = 0 /\ ~z.halted
    BY <1>3 DEF Midway, run_micro
  <2>2. control = z /\ ei_ran = FALSE /\ Continues(z) = 0
    BY <1>2, <2>1
  <2> HIDE DEF control, ei_ran, g, f
  <2>6. f = [z EXCEPT !.mc = "M1", !.t = 0, !.step = 0, !.prefix = 0, !.index = "HL",
                      !.serv = "NONE", !.pc = @ - 0, !.bytes = 0, !.op = 0, !.taken = FALSE,
                      !.ilen = 0, !.afterEi = FALSE]
    BY <1>1, <2>2, Zenon
  <2>7. /\ DOMAIN f = Fields /\ f.mc = "M1" /\ f.t = 0 /\ f.step = 0 /\ f.prefix = 0 /\ f.index = "HL"
        /\ f.serv = "NONE" /\ f.bytes = 0
    BY <2>6 DEF Fields
  <2>8. f.pc = 0
    BY <2>1, <2>6 DEF Fields
  <2>9. f.halted = z.halted /\ f.afterEi = FALSE
    BY <2>6 DEF Fields
  <2>3. /\ DOMAIN f = Fields /\ f.mc = "M1" /\ f.t = 0 /\ f.step = 0 /\ f.prefix = 0 /\ f.index = "HL"
        /\ f.serv = "NONE" /\ f.pc = 0 /\ f.bytes = 0 /\ ~f.afterEi /\ ~f.halted
    BY <2>1, <2>7, <2>8, <2>9
  <2>4. DOMAIN f = Fields /\ Fetching(f, b)
    BY <2>3, FreshPrefixes DEF Fetching
  <2> QED BY <2>4 DEF f
<1>4. CASE /\ z.serv = "NONE" /\ z.op \in 0..255 /\ z.prefix \in {0, CB, ED} /\ z.bytes \in Nat
           /\ z.pc = z.bytes + PcUpTo(Cycles(z), Len(Cycles(z)))
  <2>1. g # "int" /\ ~z.halted
    BY <1>4 DEF Midway, run_micro, CB, ED
  <2>2. Cycles(z) \in Seq(Steps)
    BY <1>4, CyclesAreSteps
  <2>3. z.pc = len /\ len \in Int
    <3> DEFINE C == Cycles(z)
               count == Cardinality({i \in DOMAIN C : C[i] = Pc})
    <3>1. PcUpTo(C, Len(C)) = count
      <4> HIDE DEF C
      <4> QED BY <2>2, PcCounts DEF C
    <3>2. count \in Nat
      <4>1. DOMAIN C = 1..Len(C) /\ Len(C) \in Nat
        BY <2>2
      <4>2. IsFiniteSet(1..Len(C))
        BY <4>1, FS_Interval
      <4>3. {i \in DOMAIN C : C[i] = Pc} \in SUBSET (1..Len(C))
        BY <4>1
      <4> HIDE DEF C
      <4>4. IsFiniteSet({i \in DOMAIN C : C[i] = Pc})
        BY <4>2, <4>3, FS_Subset
      <4> QED BY <4>4, FS_CardinalityType
    <3>3. len = z.bytes + count
      OBVIOUS
    <3> HIDE DEF count, len
    <3> QED BY <1>4, <3>1, <3>2, <3>3
  <2> HIDE DEF len
  <2>4. /\ DOMAIN control = Fields
        /\ control.pc - Continues(z) = (IF control.halted THEN -1 ELSE 0)
        /\ ei_ran => control.ei
    <3> HIDE DEF g
    <3>1. CASE g = "main" /\ z.op = 118
      <4>1. control = [z EXCEPT !.halted = TRUE, !.pc = @ - 1]
        BY <3>1
      <4>2. Continues(z) = len
        BY <1>2, <2>1, <3>1
      <4> HIDE DEF control
      <4> QED BY <2>3, <3>1, <4>1, <4>2 DEF Fields
    <3>2. CASE g = "main" /\ z.op = 251
      <4>1. control = [z EXCEPT !.iff1 = TRUE, !.iff2 = TRUE, !.ei = TRUE]
        BY <3>2
      <4>2. Continues(z) = len
        BY <1>2, <2>1, <3>2
      <4> HIDE DEF control
      <4> QED BY <2>1, <2>3, <4>1, <4>2 DEF Fields
    <3>3. CASE ~(g = "main" /\ z.op \in {118, 251})
      <4>1. ~ei_ran
        BY <3>3
      <4>2. CASE /\ g = "ed" /\ Repeats(z.op) /\ z.taken
                 /\ control = [z EXCEPT !.pc = @ - 2]
        <5>1. Continues(z) = len - 2
          BY <1>2, <2>1, <4>2
        <5> HIDE DEF control
        <5> QED BY <2>1, <2>3, <4>1, <4>2, <5>1 DEF Fields
      <4>3. CASE ~(g = "ed" /\ Repeats(z.op) /\ z.taken)
        <5>1. control \in {[z EXCEPT !.iff1 = FALSE, !.iff2 = FALSE], [z EXCEPT !.iff1 = z.iff2],
                           [z EXCEPT !.im = <<0, 0, 1, 2, 0, 0, 1, 2>>[y_(z.op) + 1]], z}
          BY <3>3, <4>3
        <5>2. Continues(z) = len
          BY <1>2, <2>1, <4>3
        <5>3. DOMAIN control = Fields /\ control.pc = z.pc /\ control.halted = z.halted
          <6> HIDE DEF control
          <6> QED BY <5>1 DEF Fields
        <5> HIDE DEF control
        <5> QED BY <2>1, <2>3, <4>1, <5>2, <5>3
      <4>4. CASE /\ g = "ed" /\ Repeats(z.op) /\ z.taken
                 /\ control # [z EXCEPT !.pc = @ - 2]
        <5>1. x_(z.op) = 2
          BY <4>4 DEF Repeats
        <5> QED BY <4>4, <5>1
      <4> QED BY <4>2, <4>3, <4>4
    <3> QED BY <3>1, <3>2, <3>3
  <2> HIDE DEF control, ei_ran, g, f
  <2>5. /\ DOMAIN f = Fields /\ f.mc = "M1" /\ f.t = 0 /\ f.step = 0 /\ f.prefix = 0 /\ f.index = "HL"
        /\ f.serv = "NONE" /\ f.pc = control.pc - Continues(z) /\ f.bytes = 0
        /\ f.afterEi = ei_ran /\ f.halted = control.halted /\ f.ei = control.ei
    BY <1>1, <2>4 DEF Fields
  <2>6. f.afterEi => f.ei
    BY <2>4, <2>5
  <2>7. f.pc = IF f.halted THEN -1 ELSE f.bytes
    BY <2>4, <2>5
  <2>8. DOMAIN f = Fields /\ Fetching(f, b)
    BY <2>5, <2>6, <2>7, FreshPrefixes DEF Fetching
  <2> QED BY <2>8 DEF f
<1> QED BY <1>3, <1>4 DEF Midway

\* The cycles depend on the opcode, its prefixes, the branch and the interrupt alone.
LEMMA SameCycles ==
  ASSUME NEW z, NEW w, w.serv = z.serv, w.prefix = z.prefix, w.index = z.index, w.op = z.op,
         w.im = z.im, w.taken = z.taken
  PROVE  Cycles(w) = Cycles(z)
BY DEF Cycles, run_micro

\* An instruction that is under way has a list of steps to run.
LEMMA MidwayCycles ==
  ASSUME NEW z, NEW k, Midway(z, k)
  PROVE  /\ Cycles(z) \in Seq(Steps) /\ Len(Cycles(z)) \in Nat
         /\ z.serv # "NONE" => \A i \in DOMAIN Cycles(z) : Cycles(z)[i] # Pc
<1>1. Cycles(z) \in Seq(Steps) /\ (z.serv # "NONE" => \A i \in DOMAIN Cycles(z) : Cycles(z)[i] # Pc)
  BY CyclesAreSteps DEF Midway
<1> QED BY <1>1, LenProperties

(* The next machine cycle begins, or the instruction ends. *)
LEMMA RequestGoesOn ==
  ASSUME NEW z, NEW b, Encodes(b), DOMAIN z = Fields, z.step \in Nat, Midway(z, z.step)
  PROVE  CpuInv(Request(z), b)
<1> DEFINE C == Cycles(z)
           k == z.step
<1>1. C \in Seq(Steps) /\ Len(C) \in Nat /\ k \in Nat /\ k <= Len(C)
      /\ (z.serv # "NONE" => \A i \in DOMAIN C : C[i] # Pc)
  BY MidwayCycles DEF Midway
<1>2. CASE k < Len(C)
  <2> DEFINE c == C[k + 1]
             p == IF c = Pc THEN z.pc + 1 ELSE z.pc
             r == [z EXCEPT !.mc = c[1], !.t = 0, !.ilen = IF c[1] \in {"INTERNAL", "IOACK"} THEN c[2] ELSE 0,
                            !.pc = p]
  <2>1. Request(z) = r
    BY <1>2 DEF Request
  <2>2. k + 1 \in 1..Len(C) /\ k \in 0..(Len(C) - 1)
    BY <1>1, <1>2
  <2>3. c \in Steps /\ k + 1 \in DOMAIN C
    <3> HIDE DEF C, k
    <3> QED BY <1>1, <2>2
  <2>4. c[1] \in {"READ", "WRITE", "IN", "OUT", "INTERNAL", "IOACK"}
    <3> HIDE DEF c
    <3> QED BY <2>3 DEF Steps
  <2>5. z.serv # "NONE" => p = z.pc
    <3> HIDE DEF C, k
    <3> QED BY <1>1, <2>3
  <2>6. z.serv = "NONE" => p = z.bytes + PcUpTo(C, k + 1)
    <3>1. z.serv = "NONE" => z.pc = z.bytes + PcUpTo(C, k) /\ z.bytes \in Nat
      BY DEF Midway
    <3> HIDE DEF C, k
    <3>2. /\ PcUpTo(C, k) \in Nat
          /\ PcUpTo(C, k + 1) = IF C[k + 1] = Pc THEN PcUpTo(C, k) + 1 ELSE PcUpTo(C, k)
      BY <1>1, <2>2, PcCounts
    <3> QED BY <3>1, <3>2
  <2> HIDE DEF c, p
  <2>7. /\ DOMAIN r = Fields /\ r.mc = c[1] /\ r.t = 0 /\ r.pc = p /\ r.step = z.step
        /\ r.halted = z.halted /\ r.bytes = z.bytes /\ r.afterEi = z.afterEi
    BY DEF Fields
  <2>8. /\ r.serv = z.serv /\ r.prefix = z.prefix /\ r.index = z.index /\ r.op = z.op
        /\ r.im = z.im /\ r.taken = z.taken
    BY DEF Fields
  <2> HIDE DEF r
  <2>9. Cycles(r) = C
    BY <2>8, SameCycles
  <2>10. Midway(r, k + 1)
    <3>1. ~r.halted /\ k + 1 \in Nat /\ k + 1 <= Len(Cycles(r))
      BY <1>1, <1>2, <2>7, <2>9 DEF Midway
    <3>2. CASE z.serv \in {"NMI", "MASKABLE"}
      BY <2>5, <2>7, <2>8, <3>1, <3>2 DEF Midway
    <3>3. CASE z.serv = "NONE"
      BY <2>6, <2>7, <2>8, <2>9, <3>1, <3>3 DEF Midway
    <3> QED BY <3>2, <3>3 DEF Midway
  <2>11. Running(r)
    <3>1. r.mc # "M1" /\ r.step \in Nat /\ r.t \in Nat /\ r.t <= 2 /\ r.t <= 3
      BY <2>4, <2>7
    <3>2. r.mc = Cycles(r)[r.step + 1][1]
      BY <2>7, <2>9 DEF c
    <3> QED BY <2>7, <2>10, <3>1, <3>2 DEF Running
  <2> QED BY <2>1, <2>7, <2>11 DEF CpuInv
<1>3. CASE ~(k < Len(C))
  <2>1. k = Len(C) /\ Request(z) = finish(z)
    BY <1>1, <1>3 DEF Request
  <2> QED BY <2>1, FinishStarts DEF CpuInv
<1> QED BY <1>2, <1>3

\* Going on to the next cycle keeps the processor's invariant, the last one included.
LEMMA StepOnGoesOn ==
  ASSUME NEW z, NEW b, Encodes(b), DOMAIN z = Fields, z.step \in Nat, Midway(z, z.step + 1)
  PROVE  CpuInv(StepOn(z), b)
<1> DEFINE w == [z EXCEPT !.step = @ + 1]
<1>1. /\ DOMAIN w = Fields /\ w.step = z.step + 1 /\ w.pc = z.pc
      /\ w.halted = z.halted /\ w.bytes = z.bytes /\ w.afterEi = z.afterEi
  BY DEF Fields
<1>2. /\ w.serv = z.serv /\ w.prefix = z.prefix /\ w.index = z.index /\ w.op = z.op
      /\ w.im = z.im /\ w.taken = z.taken
  BY DEF Fields
<1> HIDE DEF w
<1>3. Cycles(w) = Cycles(z)
  BY <1>2, SameCycles
<1>4. Midway(w, w.step)
  <2>1. Midway(w, z.step + 1)
    BY <1>1, <1>2, <1>3 DEF Midway
  <2> QED BY <1>1, <2>1
<1>5. w.step \in Nat
  BY <1>1
<1>6. CpuInv(Request(w), b)
  BY <1>1, <1>4, <1>5, RequestGoesOn
<1> QED BY <1>6 DEF StepOn, w

(* What only times, counts or logs leaves the invariant alone. *)
SameCpu(w, z) ==
  /\ DOMAIN w = Fields
  /\ w.mc = z.mc /\ w.t = z.t /\ w.step = z.step /\ w.prefix = z.prefix /\ w.index = z.index
  /\ w.op = z.op /\ w.taken = z.taken /\ w.bytes = z.bytes /\ w.serv = z.serv /\ w.im = z.im
  /\ w.halted = z.halted /\ w.ei = z.ei /\ w.afterEi = z.afterEi /\ w.pc = z.pc

\* Processors that agree on what matters agree on the invariant.
LEMMA SameKeeps ==
  ASSUME NEW w, NEW z, SameCpu(w, z), NEW b
  PROVE  /\ Fetching(z, b) => Fetching(w, b)
         /\ \A k : Midway(z, k) => Midway(w, k)
         /\ Running(z) => Running(w)
         /\ CpuInv(z, b) => CpuInv(w, b)
<1>1. Cycles(w) = Cycles(z)
  BY SameCycles DEF SameCpu
<1>2. Fetching(z, b) => Fetching(w, b)
  BY DEF SameCpu, Fetching
<1>3. \A k : Midway(z, k) => Midway(w, k)
  BY <1>1 DEF SameCpu, Midway
<1>4. Running(z) => Running(w)
  BY <1>1, <1>3 DEF SameCpu, Running
<1> QED BY <1>2, <1>3, <1>4 DEF CpuInv, SameCpu

\* The counts, the log, the clock and the NMI line are not part of what matters.
LEMMA SameAfter ==
  ASSUME NEW z, DOMAIN z = Fields
  PROVE  /\ SameCpu(z, z) /\ SameCpu(Adrift(z), z)
         /\ \A kind, at : SameCpu(Logged(z, kind, at), z)
         /\ \A v : SameCpu([z EXCEPT !.ts = v], z) /\ SameCpu([z EXCEPT !.nmi = v], z)
BY DEF SameCpu, Adrift, Logged, Fields

\* A fetch that starts with no prefix has no byte of an instruction behind it.
LEMMA CleanStart ==
  ASSUME NEW z, NEW b, Encodes(b), Fetching(z, b), z.t = 0, z.prefix = 0, z.index = "HL"
  PROVE  z.bytes = 0
<1>1. z.bytes \in Nat /\ z.bytes + 1 \in 1..Len(b) /\ ~Escaped(b, z.bytes + 1) /\ ~Indexed(b, z.bytes + 1)
  BY DEF Fetching
<1>2. CASE z.bytes >= 1
  <2>1. z.bytes \in 1..Len(b) /\ z.bytes < Len(b)
    BY <1>1, <1>2, FreshPrefixes
  <2>2. PrefixAt(b, z.bytes)
    BY <2>1 DEF Encodes
  <2>3. b[z.bytes] \in {DD, FD, ED, CB}
    BY <2>2 DEF PrefixAt
  <2>4. z.bytes \in 1..(z.bytes + 1 - 1)
    BY <1>1, <1>2
  <2>5. Escaped(b, z.bytes + 1) \/ Indexed(b, z.bytes + 1)
    BY <2>3, <2>4 DEF Escaped, Indexed
  <2> QED BY <1>1, <2>5
<1> QED BY <1>1, <1>2

(* An interrupt is accepted only at a clean boundary, with EI's shadow over. *)
LEMMA AcceptGoesOn ==
  ASSUME NEW z, NEW b, Encodes(b), DOMAIN z = Fields, NEW irq, Accepts(z, irq),
         ~z.halted, z.pc = 0, z.prefix = 0, z.index = "HL", z.afterEi => z.ei
  PROVE  CpuInv(Request(Accept(z)), b)
<1> DEFINE a == Accept(z)
<1>1. CASE z.nmi
  <2>1. a = [z EXCEPT !.nmi = FALSE, !.iff1 = FALSE, !.ei = FALSE, !.r = @ + 1, !.serv = "NMI", !.step = 0]
    BY <1>1 DEF Accept
  <2> HIDE DEF a
  <2>2. /\ DOMAIN a = Fields /\ a.serv = "NMI" /\ a.step = 0 /\ a.pc = 0 /\ ~a.halted
        /\ a.prefix = 0 /\ a.index = "HL"
    BY <2>1 DEF Fields
  <2>3. Cycles(a) \in Seq(Steps)
    BY <2>2, CyclesAreSteps
  <2>4. 0 <= Len(Cycles(a))
    <3> DEFINE C == Cycles(a)
    <3>1. C \in Seq(Steps)
      BY <2>3
    <3> HIDE DEF C
    <3>2. Len(C) \in Nat
      BY <3>1
    <3> QED BY <3>2 DEF C
  <2>5. Midway(a, a.step)
    BY <2>2, <2>4 DEF Midway
  <2> QED BY <2>2, <2>5, RequestGoesOn DEF a
<1>2. CASE ~z.nmi
  <2>1. a = [z EXCEPT !.iff1 = FALSE, !.iff2 = FALSE, !.ei = FALSE, !.r = @ + 1,
                      !.serv = "MASKABLE", !.step = 0]
    BY <1>2 DEF Accept
  <2>2. ~z.ei
    BY <1>2 DEF Accepts
  <2> HIDE DEF a
  <2>3. /\ DOMAIN a = Fields /\ a.serv = "MASKABLE" /\ a.step = 0 /\ a.pc = 0 /\ ~a.halted
        /\ a.prefix = 0 /\ a.index = "HL" /\ a.afterEi = z.afterEi
    BY <2>1 DEF Fields
  <2>4. Cycles(a) \in Seq(Steps)
    BY <2>3, CyclesAreSteps
  <2>5. 0 <= Len(Cycles(a))
    <3> DEFINE C == Cycles(a)
    <3>1. C \in Seq(Steps)
      BY <2>4
    <3> HIDE DEF C
    <3>2. Len(C) \in Nat
      BY <3>1
    <3> QED BY <3>2 DEF C
  <2>6. Midway(a, a.step)
    BY <2>2, <2>3, <2>5 DEF Midway
  <2> QED BY <2>3, <2>6, RequestGoesOn DEF a
<1> QED BY <1>1, <1>2

(* A prefix is taken where the bytes of the instruction have one. *)
LEMMA PrefixTaken ==
  ASSUME NEW z, NEW b, Encodes(b), DOMAIN z = Fields, z.mc = "M1", z.serv = "NONE", z.step = 0,
         z.bytes \in 1..Len(b), z.prefix \in {0, CB, ED}, z.prefix = 0 <=> ~Escaped(b, z.bytes),
         z.prefix = 0 => (z.index = "HL" <=> ~Indexed(b, z.bytes)),
         z.pc = z.bytes, ~z.halted, IsPrefix_(z, b[z.bytes])
  PROVE  CpuInv(TakePrefix(z, b[z.bytes]), b)
<1> DEFINE n == z.bytes
           v == b[n]
           w == TakePrefix(z, v)
<1>1. n \in Nat /\ n \in 1..Len(b) /\ Len(b) \in Nat
  BY FreshPrefixes
<1>2. z.prefix = 0 /\ (v \in {DD, FD, ED} \/ (v = CB /\ z.index = "HL"))
  BY DEF IsPrefix_
<1>3. PrefixAt(b, n)
  BY <1>2 DEF PrefixAt
<1>4. n < Len(b) /\ n + 1 \in 1..Len(b)
  <2>1. n < Len(b)
    BY <1>1, <1>3 DEF Encodes
  <2> QED BY <1>1, <2>1
<1>5. 1..(n + 1 - 1) = 1..(n - 1) \cup {n}
  BY <1>1
<1>6. Escaped(b, n + 1) <=> v \in {ED, CB}
  BY <1>2, <1>5 DEF Escaped
<1>7. Indexed(b, n + 1) <=> Indexed(b, n) \/ v \in {DD, FD}
  BY <1>5 DEF Indexed
<1> HIDE DEF n, v, w
<1>8. CASE v = DD \/ v = FD
  <2>1. \/ w = [z EXCEPT !.index = "IX", !.mc = "M1", !.t = 0]
        \/ w = [z EXCEPT !.index = "IY", !.mc = "M1", !.t = 0]
    BY <1>8 DEF TakePrefix, w, DD, FD, ED, CB
  <2>2. /\ DOMAIN w = Fields /\ w.mc = "M1" /\ w.t = 0 /\ w.serv = "NONE" /\ w.step = 0
        /\ w.bytes = n /\ w.prefix = 0 /\ w.index # "HL" /\ w.pc = n /\ ~w.halted
    <3>1. CASE w = [z EXCEPT !.index = "IX", !.mc = "M1", !.t = 0]
      <4>1. /\ DOMAIN w = Fields /\ w.mc = "M1" /\ w.t = 0 /\ w.serv = z.serv /\ w.step = z.step
            /\ w.bytes = z.bytes /\ w.prefix = z.prefix /\ w.index = "IX" /\ w.pc = z.pc
            /\ w.halted = z.halted
        BY <3>1 DEF Fields
      <4> QED BY <1>2, <4>1 DEF n
    <3>2. CASE w = [z EXCEPT !.index = "IY", !.mc = "M1", !.t = 0]
      <4>1. /\ DOMAIN w = Fields /\ w.mc = "M1" /\ w.t = 0 /\ w.serv = z.serv /\ w.step = z.step
            /\ w.bytes = z.bytes /\ w.prefix = z.prefix /\ w.index = "IY" /\ w.pc = z.pc
            /\ w.halted = z.halted
        BY <3>2 DEF Fields
      <4> QED BY <1>2, <4>1 DEF n
    <3> QED BY <2>1, <3>1, <3>2
  <2>3. ~Escaped(b, n + 1) /\ Indexed(b, n + 1)
    BY <1>6, <1>7, <1>8 DEF DD, FD, ED, CB
  <2>4. Fetching(w, b)
    BY <1>1, <1>4, <2>2, <2>3 DEF Fetching
  <2> QED BY <2>2, <2>4 DEF CpuInv, w, v, n
<1>9. CASE v = ED \/ v = CB
  <2>1. \/ w = [z EXCEPT !.prefix = ED, !.index = "HL", !.mc = "M1", !.t = 0]
        \/ w = [z EXCEPT !.prefix = CB, !.mc = "M1", !.t = 0]
    BY <1>9 DEF TakePrefix, w, DD, FD, ED, CB
  <2>2. /\ DOMAIN w = Fields /\ w.mc = "M1" /\ w.t = 0 /\ w.serv = "NONE" /\ w.step = 0
        /\ w.bytes = n /\ w.prefix \in {CB, ED} /\ w.pc = n /\ ~w.halted
    <3>1. CASE w = [z EXCEPT !.prefix = ED, !.index = "HL", !.mc = "M1", !.t = 0]
      <4>1. /\ DOMAIN w = Fields /\ w.mc = "M1" /\ w.t = 0 /\ w.serv = z.serv /\ w.step = z.step
            /\ w.bytes = z.bytes /\ w.prefix = ED /\ w.pc = z.pc /\ w.halted = z.halted
        BY <3>1 DEF Fields
      <4> QED BY <4>1 DEF n
    <3>2. CASE w = [z EXCEPT !.prefix = CB, !.mc = "M1", !.t = 0]
      <4>1. /\ DOMAIN w = Fields /\ w.mc = "M1" /\ w.t = 0 /\ w.serv = z.serv /\ w.step = z.step
            /\ w.bytes = z.bytes /\ w.prefix = CB /\ w.pc = z.pc /\ w.halted = z.halted
        BY <3>2 DEF Fields
      <4> QED BY <4>1 DEF n
    <3> QED BY <2>1, <3>1, <3>2
  <2>3. Escaped(b, n + 1) /\ w.prefix # 0
    BY <1>6, <1>9, <2>2 DEF CB, ED
  <2>4. Fetching(w, b)
    BY <1>1, <1>4, <2>2, <2>3 DEF Fetching
  <2> QED BY <2>2, <2>4 DEF CpuInv, w, v, n
<1> QED BY <1>2, <1>8, <1>9

\* Every tick of an opcode fetch, the decoding one included, keeps the invariant.
LEMMA TickM1 ==
  ASSUME NEW b, Encodes(b), NEW z, DOMAIN z = Fields, NEW z0, DOMAIN z0 = Fields,
         Fetching(z0, b), ~z0.halted, SameCpu([z EXCEPT !.t = z0.t], z0), z.t = z0.t + 1,
         z0.t # 0 => b = zins.bytes
  PROVE  CpuInv(tick_m1(z), b)
<1> DEFINE clean == z.prefix = 0 /\ z.index = "HL"
<1>1. /\ z.mc = "M1" /\ z.serv = "NONE" /\ z.step = 0 /\ z.pc = z0.pc /\ ~z.halted
      /\ z.prefix = z0.prefix /\ z.index = z0.index /\ z.op = z0.op /\ z.bytes = z0.bytes
      /\ z.ei = z0.ei /\ z.afterEi = z0.afterEi
  BY DEF SameCpu, Fetching, Fields
<1>2. /\ z0.t \in 0..3 /\ z0.bytes \in Nat /\ z0.pc = z0.bytes /\ z0.prefix \in {0, CB, ED}
      /\ (z0.t = 3 => z0.op = b[z0.bytes])
  BY DEF Fetching
<1>3. z0.t # 0 => /\ z0.bytes \in 1..Len(b) /\ (z0.prefix = 0 <=> ~Escaped(b, z0.bytes))
                  /\ (z0.prefix = 0 => (z0.index = "HL" <=> ~Indexed(b, z0.bytes)))
  BY DEF Fetching
<1>4. Encodes(b) /\ Len(b) \in Nat
  BY FreshPrefixes
<1>5. CASE z.t = 1 /\ clean /\ Accepts(z, zbus.irq)
  <2>1. z0.t = 0
    BY <1>2, <1>5
  <2>2. z0.bytes = 0
    BY <1>1, <1>4, <1>5, <2>1, CleanStart
  <2>3. z.afterEi => z.ei
    BY <1>1, <1>5, <2>1 DEF Fetching
  <2>4. tick_m1(z) = Request(Accept(z))
    BY <1>5 DEF tick_m1
  <2>5. CpuInv(Request(Accept(z)), b)
    BY <1>1, <1>2, <1>4, <1>5, <2>2, <2>3, AcceptGoesOn
  <2> QED BY <2>4, <2>5
<1>6. CASE z.t = 1 /\ ~(clean /\ Accepts(z, zbus.irq))
  <2> DEFINE l == Logged(z, "M1", z.ts - 1)
             w == [l EXCEPT !.ei = IF clean THEN FALSE ELSE @, !.pc = @ + 1, !.bytes = @ + 1]
  <2>1. tick_m1(z) = w
    BY <1>6 DEF tick_m1
  <2>2. z0.t = 0
    BY <1>2, <1>6
  <2>3. /\ z0.bytes + 1 \in 1..Len(b) /\ (z0.prefix = 0 <=> ~Escaped(b, z0.bytes + 1))
        /\ (z0.prefix = 0 => (z0.index = "HL" <=> ~Indexed(b, z0.bytes + 1)))
    BY <2>2 DEF Fetching
  <2>4. SameCpu(l, z)
    BY SameAfter
  <2> HIDE DEF l, clean
  <2>5. /\ DOMAIN w = Fields /\ w.mc = l.mc /\ w.t = l.t /\ w.serv = l.serv /\ w.step = l.step
        /\ w.bytes = l.bytes + 1 /\ w.pc = l.pc + 1 /\ w.prefix = l.prefix /\ w.index = l.index
        /\ w.halted = l.halted
    BY <2>4 DEF Fields, SameCpu
  <2> HIDE DEF w
  <2>6. /\ DOMAIN w = Fields /\ w.mc = "M1" /\ w.t = 1 /\ w.serv = "NONE" /\ w.step = 0
        /\ w.bytes = z0.bytes + 1 /\ w.pc = z0.bytes + 1 /\ w.prefix = z0.prefix
        /\ w.index = z0.index /\ ~w.halted
    BY <1>1, <1>2, <1>6, <2>4, <2>5 DEF SameCpu
  <2>7. Fetching(w, b)
    BY <1>2, <2>3, <2>6 DEF Fetching
  <2> QED BY <2>1, <2>6, <2>7 DEF CpuInv
<1>7. CASE z.t = 2
  <2>1. tick_m1(z) = z /\ z0.t # 0
    BY <1>2, <1>7 DEF tick_m1
  <2>2. Fetching(z, b)
    BY <1>1, <1>2, <1>3, <1>7, <2>1 DEF Fetching
  <2> QED BY <2>1, <2>2 DEF CpuInv
<1>8. CASE z.t = 3
  <2> DEFINE w == [z EXCEPT !.op = b[z.bytes], !.r = @ + 1]
  <2>1. tick_m1(z) = w /\ z0.t # 0
    <3>1. z0.t # 0
      BY <1>2, <1>8
    <3>2. b = zins.bytes
      BY <3>1
    <3>3. tick_m1(z) = [z EXCEPT !.op = zins.bytes[z.bytes], !.r = @ + 1]
      BY <1>8 DEF tick_m1
    <3> QED BY <3>1, <3>2, <3>3
  <2>2. /\ DOMAIN w = Fields /\ w.mc = "M1" /\ w.t = 3 /\ w.serv = "NONE" /\ w.step = 0
        /\ w.bytes = z0.bytes /\ w.pc = z0.pc /\ w.prefix = z0.prefix
        /\ w.index = z0.index /\ ~w.halted /\ w.op = b[z0.bytes]
    BY <1>1, <1>8 DEF Fields
  <2> HIDE DEF w
  <2>3. Fetching(w, b)
    BY <1>2, <1>3, <2>1, <2>2 DEF Fetching
  <2> QED BY <2>1, <2>2, <2>3 DEF CpuInv
<1>9. CASE z.t = 4
  <2>1. z0.t = 3
    BY <1>2, <1>9
  <2>2. z.op = b[z.bytes] /\ z.bytes \in 1..Len(b)
    BY <1>1, <1>2, <1>3, <2>1
  <2>3. CASE IsPrefix_(z, z.op)
    <3> DEFINE w == [z EXCEPT !.op = 0]
    <3>1. tick_m1(z) = TakePrefix(w, b[z.bytes])
      BY <1>9, <2>2, <2>3 DEF tick_m1
    <3>2. /\ DOMAIN w = Fields /\ w.mc = "M1" /\ w.serv = "NONE" /\ w.step = 0
          /\ w.bytes = z.bytes /\ w.pc = z.pc /\ w.prefix = z.prefix
          /\ w.index = z.index /\ ~w.halted
      BY <1>1 DEF Fields
    <3> HIDE DEF w
    <3>3. IsPrefix_(w, b[w.bytes])
      BY <2>2, <2>3, <3>2 DEF IsPrefix_
    <3>4. /\ w.bytes \in 1..Len(b) /\ w.prefix \in {0, CB, ED} /\ (w.prefix = 0 <=> ~Escaped(b, w.bytes))
          /\ (w.prefix = 0 => (w.index = "HL" <=> ~Indexed(b, w.bytes))) /\ w.pc = w.bytes
      BY <1>1, <1>2, <1>3, <2>1, <3>2
    <3>5. CpuInv(TakePrefix(w, b[w.bytes]), b)
      BY <1>4, <3>2, <3>3, <3>4, PrefixTaken
    <3> QED BY <3>1, <3>2, <3>5
  <2>4. CASE ~IsPrefix_(z, z.op)
    <3> DEFINE w == [z EXCEPT !.taken = zins.taken]
    <3>1. tick_m1(z) = Request(w)
      BY <1>9, <2>4 DEF tick_m1
    <3>2. /\ DOMAIN w = Fields /\ w.serv = "NONE" /\ w.step = 0 /\ w.op = z.op
          /\ w.bytes = z.bytes /\ w.pc = z.pc /\ w.prefix = z.prefix /\ ~w.halted
      BY <1>1 DEF Fields
    <3> HIDE DEF w
    <3>3. w.op \in 0..255 /\ w.prefix \in {0, CB, ED} /\ w.bytes \in Nat /\ w.pc = w.bytes
      <4>1. \A n \in 1..Len(b) : b[n] \in 0..255
        BY <1>4, FreshPrefixes
      <4>2. z.op \in 0..255
        BY <2>2, <4>1
      <4>3. w.op \in 0..255
        BY <3>2, <4>2
      <4>4. w.prefix \in {0, CB, ED} /\ w.bytes \in Nat /\ w.pc = w.bytes
        BY <1>1, <1>2, <3>2
      <4> QED BY <4>3, <4>4
    <3>4. Cycles(w) \in Seq(Steps)
      BY <3>2, <3>3, CyclesAreSteps
    <3>5. PcUpTo(Cycles(w), 0) = 0 /\ 0 <= Len(Cycles(w))
      <4> DEFINE C == Cycles(w)
      <4>1. C \in Seq(Steps)
        BY <3>4
      <4> HIDE DEF C
      <4>2. Len(C) \in Nat
        BY <4>1
      <4>3. PcUpTo(C, 0) = 0
        BY <4>1, PcCounts
      <4> QED BY <4>2, <4>3 DEF C
    <3>6. Midway(w, w.step)
      BY <3>2, <3>3, <3>5 DEF Midway
    <3> QED BY <1>4, <3>1, <3>2, <3>6, RequestGoesOn
  <2> QED BY <2>3, <2>4
<1>10. z.t \in 1..4
  BY <1>2
<1> QED BY <1>5, <1>6, <1>7, <1>8, <1>9, <1>10

(* A T-state of any other machine cycle. *)
LEMMA TickCycle ==
  ASSUME NEW b, Encodes(b), NEW z, DOMAIN z = Fields, NEW z0, DOMAIN z0 = Fields,
         Running(z0), SameCpu([z EXCEPT !.t = z0.t], z0), z.t = z0.t + 1
  PROVE  CpuInv(tick_cycle(z), b)
<1>1. /\ z.mc = z0.mc /\ z.step = z0.step /\ z.pc = z0.pc /\ z.halted = z0.halted
      /\ z.prefix = z0.prefix /\ z.index = z0.index /\ z.op = z0.op /\ z.bytes = z0.bytes
      /\ z.taken = z0.taken /\ z.im = z0.im /\ z.serv = z0.serv
      /\ z.ei = z0.ei /\ z.afterEi = z0.afterEi
  BY DEF SameCpu, Fields
<1>2. Cycles(z) = Cycles(z0)
  BY <1>1, SameCycles
<1>3. z0.t \in Nat /\ z.step \in Nat /\ Midway(z0, z0.step + 1) /\ z0.mc # "M1"
      /\ z0.mc = Cycles(z0)[z0.step + 1][1]
  BY <1>1 DEF Running
<1>4. Midway(z, z.step + 1)
  BY <1>1, <1>2, <1>3 DEF Midway
<1>5. z.mc \in {"READ", "WRITE", "IN", "OUT", "INTERNAL", "IOACK"}
  <2> DEFINE C == Cycles(z0)
             k == z0.step
  <2>1. C \in Seq(Steps) /\ Len(C) \in Nat /\ k \in Nat /\ k + 1 <= Len(C)
    BY <1>1, <1>3, MidwayCycles DEF Midway
  <2>2. z0.mc = C[k + 1][1]
    BY <1>3
  <2> HIDE DEF C, k
  <2>3. C[k + 1] \in Steps
    BY <2>1
  <2>4. C[k + 1][1] \in {"READ", "WRITE", "IN", "OUT", "INTERNAL", "IOACK"}
    BY <2>3 DEF Steps
  <2> QED BY <1>1, <2>2, <2>4
<1>6. CpuInv(StepOn(z), b)
  BY <1>3, <1>4, StepOnGoesOn
<1>7. ASSUME NEW w, SameCpu(w, z) PROVE CpuInv(StepOn(w), b)
  <2>1. DOMAIN w = Fields /\ w.step \in Nat /\ Midway(w, w.step + 1)
    BY <1>3, <1>4, <1>7, SameKeeps DEF SameCpu
  <2> QED BY <2>1, StepOnGoesOn
<1>8. ASSUME NEW w, DOMAIN w = Fields, SameCpu([w EXCEPT !.t = z.t], z), w.t \in Nat,
             z.mc \in {"READ", "WRITE"} => w.t <= 2, z.mc \in {"IN", "OUT"} => w.t <= 3
      PROVE  CpuInv(w, b)
  <2>1. /\ w.mc = z.mc /\ w.step = z.step /\ w.pc = z.pc /\ w.halted = z.halted
        /\ w.prefix = z.prefix /\ w.index = z.index /\ w.op = z.op /\ w.bytes = z.bytes
        /\ w.taken = z.taken /\ w.im = z.im /\ w.serv = z.serv
        /\ w.ei = z.ei /\ w.afterEi = z.afterEi
    BY <1>8 DEF SameCpu, Fields
  <2>2. Cycles(w) = Cycles(z)
    BY <2>1, SameCycles
  <2>3. Midway(w, w.step + 1)
    BY <1>4, <2>1, <2>2 DEF Midway
  <2>4. Running(w)
    BY <1>1, <1>2, <1>3, <1>8, <2>1, <2>2, <2>3 DEF Running
  <2> QED BY <1>8, <2>4 DEF CpuInv
<1>9. z.t \in Nat /\ z.t >= 1
  BY <1>3
(* a T-state that leaves the cycle under way *)
<1>10. ASSUME z.mc \in {"READ", "WRITE"} => z.t <= 2, z.mc \in {"IN", "OUT"} => z.t <= 3
       PROVE  /\ CpuInv(z, b)
              /\ \A kind, at : CpuInv(Logged(z, kind, at), b)
  <2>1. SameCpu([z EXCEPT !.t = z.t], z)
    BY DEF SameCpu, Fields
  <2>2. CpuInv(z, b)
    BY <1>8, <1>9, <1>10, <2>1
  <2>3. ASSUME NEW kind, NEW at PROVE CpuInv(Logged(z, kind, at), b)
    BY <2>2, SameAfter, SameKeeps
  <2> QED BY <2>2, <2>3
(* /WAIT: a T-state is repeated *)
<1>11. ASSUME NEW t \in Nat, z.mc \in {"READ", "WRITE"} => t <= 2, z.mc \in {"IN", "OUT"} => t <= 3
       PROVE  CpuInv([z EXCEPT !.t = t], b)
  <2> DEFINE w == [z EXCEPT !.t = t]
  <2>1. DOMAIN w = Fields /\ w.t = t
    BY DEF Fields
  <2>2. SameCpu([w EXCEPT !.t = z.t], z)
    BY DEF SameCpu, Fields
  <2> HIDE DEF w
  <2>3. CpuInv(w, b)
    BY <1>8, <1>11, <2>1, <2>2
  <2> QED BY <2>3 DEF w
<1>13. CASE z.mc \in {"READ", "WRITE"}
  <2>1. z.t \in 1..3
    BY <1>1, <1>3, <1>13 DEF Running
  <2>2. tick_cycle(z) = tick_mem(z)
    BY <1>13 DEF tick_cycle
  <2>3. CASE z.t = 1
    <3>1. tick_cycle(z) = Logged(z, z.mc, z.ts - 1)
      BY <2>2, <2>3 DEF tick_mem
    <3>2. \A kind, at : CpuInv(Logged(z, kind, at), b)
      BY <1>10, <1>13, <2>3
    <3> QED BY <3>1, <3>2
  <2>4. CASE z.t = 2
    <3>1. tick_cycle(z) \in {[z EXCEPT !.t = 1], z}
      BY <2>2, <2>4 DEF tick_mem
    <3>2. CpuInv(z, b)
      BY <1>10, <1>13, <2>4
    <3>3. CpuInv([z EXCEPT !.t = 1], b)
      <4>1. 1 \in Nat /\ 1 <= 2 /\ z.mc \notin {"IN", "OUT"}
        BY <1>13
      <4> QED BY <1>11, <4>1
    <3> QED BY <3>1, <3>2, <3>3
  <2>5. CASE z.t = 3
    BY <1>6, <2>2, <2>5 DEF tick_mem
  <2> QED BY <2>1, <2>3, <2>4, <2>5
<1>14. CASE z.mc \in {"IN", "OUT"}
  <2>1. z.t \in 1..4
    BY <1>1, <1>3, <1>14 DEF Running
  <2>2. tick_cycle(z) = tick_io(z)
    BY <1>14 DEF tick_cycle
  <2>3. CASE z.t \in 1..3
    <3>1. tick_io(z) \in {z, Logged(z, "OUT", z.ts - 1), Logged(z, "IN", z.ts - 1), [z EXCEPT !.t = 2]}
      BY <2>3 DEF tick_io
    <3>2. CpuInv(z, b) /\ \A kind, at : CpuInv(Logged(z, kind, at), b)
      BY <1>10, <1>14, <2>3
    <3>3. CpuInv([z EXCEPT !.t = 2], b)
      BY <1>11, <1>14
    <3> QED BY <2>2, <3>1, <3>2, <3>3
  <2>4. CASE z.t = 4
    BY <1>6, <2>2, <2>4 DEF tick_io
  <2> QED BY <2>1, <2>3, <2>4
<1>15. CASE z.mc = "INTERNAL"
  <2>1. tick_cycle(z) \in {StepOn(z), z}
    BY <1>15 DEF tick_cycle, tick_internal
  <2>2. CpuInv(z, b)
    BY <1>10, <1>15
  <2> QED BY <1>6, <2>1, <2>2
<1>16. CASE z.mc = "IOACK"
  <2> DEFINE l == IF z.t = 1 THEN Logged(z, "IOACK", z.ts - 1) ELSE z
  <2>1. tick_cycle(z) \in {StepOn(l), l}
    BY <1>16 DEF tick_cycle, tick_ack
  <2>2. SameCpu(l, z)
    BY SameAfter
  <2>3. CpuInv(z, b)
    BY <1>10, <1>16
  <2> HIDE DEF l
  <2>4. CpuInv(l, b)
    BY <2>2, <2>3, SameKeeps
  <2>5. CpuInv(StepOn(l), b)
    BY <1>7, <2>2
  <2> QED BY <2>1, <2>4, <2>5
<1> QED BY <1>5, <1>13, <1>14, <1>15, <1>16

\* Taking the bytes in and waking from HALT keep the invariant.
LEMMA AwakeKeeps ==
  ASSUME NEW b, CpuInv(zt, b)
  PROVE  /\ DOMAIN Now = Fields /\ CpuInv(Now, b)
         /\ DOMAIN Awake = Fields /\ CpuInv(Awake, b) /\ ~Awake.halted
<1>1. DOMAIN zt = Fields
  BY DEF CpuInv
<1>2. DOMAIN Now = Fields /\ CpuInv(Now, b)
  <2>1. SameCpu(Now, zt)
    BY <1>1, SameAfter DEF Now
  <2> QED BY <2>1, SameKeeps DEF SameCpu
<1>3. CASE Now.halted
  <2> DEFINE n == Now
  <2>1. DOMAIN n = Fields /\ n.halted /\ Fetching(n, b)
    BY <1>2, <1>3 DEF CpuInv, Running, Midway
  <2>2. Awake = Wake(n)
    BY <1>3 DEF Awake
  <2> HIDE DEF n
  <2>3. /\ DOMAIN Wake(n) = Fields /\ ~Wake(n).halted /\ Wake(n).pc = n.pc + 1
        /\ Wake(n).mc = n.mc /\ Wake(n).serv = n.serv /\ Wake(n).step = n.step
        /\ Wake(n).t = n.t /\ Wake(n).bytes = n.bytes /\ Wake(n).op = n.op
    BY <2>1 DEF Wake, Fields
  <2>4. /\ Wake(n).prefix = n.prefix /\ Wake(n).index = n.index /\ Wake(n).ei = n.ei
        /\ Wake(n).afterEi = n.afterEi
    BY <2>1 DEF Wake, Fields
  <2>5. n.pc = -1 /\ n.t = 0 /\ n.bytes = 0
    BY <2>1 DEF Fetching
  <2>6. Fetching(Wake(n), b)
    BY <2>1, <2>3, <2>4, <2>5 DEF Fetching
  <2> QED BY <1>2, <2>2, <2>3, <2>6 DEF CpuInv
<1>4. CASE ~Now.halted
  BY <1>2, <1>4 DEF Awake
<1> QED BY <1>2, <1>3, <1>4

(* At a clean boundary any instruction may be the next one. *)
LEMMA NextInstruction ==
  ASSUME NEW z, NEW b, Encodes(b), Fetching(z, b), ~z.halted, z80_batch_ready(z),
         NEW c, Encodes(c)
  PROVE  Fetching(z, c)
<1>1. z.t = 0 /\ z.prefix = 0 /\ z.index = "HL" /\ z.bytes = 0
  BY CleanStart DEF z80_batch_ready
<1>2. Len(c) \in Nat /\ Len(c) >= 1 /\ ~Escaped(c, 1) /\ ~Indexed(c, 1)
  BY FreshPrefixes
<1> QED BY <1>1, <1>2 DEF Fetching

(* After a reset, and after registers are set from outside. *)
LEMMA PowerStarts ==
  ASSUME NEW b, Encodes(b)
  PROVE  /\ CpuInv(Power, b)
         /\ CpuInv([Power EXCEPT !.iff1 = zt.iff1, !.iff2 = zt.iff2, !.im = zt.im,
                                 !.halted = zt.halted, !.pc = IF zt.halted THEN -1 ELSE 0], b)
<1>1. Len(b) \in Nat /\ Len(b) >= 1 /\ ~Escaped(b, 1) /\ ~Indexed(b, 1)
  BY FreshPrefixes
<1>2. CpuInv(Power, b)
  <2> DEFINE p == Power
  <2>1. /\ DOMAIN p = Fields /\ p.mc = "M1" /\ p.serv = "NONE" /\ p.step = 0 /\ p.t = 0 /\ p.bytes = 0
        /\ p.prefix = 0 /\ p.index = "HL" /\ p.afterEi = FALSE /\ p.pc = 0 /\ p.halted = FALSE
    BY DEF Power, Fields
  <2> HIDE DEF p
  <2>2. Fetching(p, b)
    BY <1>1, <2>1 DEF Fetching
  <2>3. CpuInv(p, b)
    BY <2>1, <2>2 DEF CpuInv
  <2> QED BY <2>3 DEF p
<1>3. CpuInv([Power EXCEPT !.iff1 = zt.iff1, !.iff2 = zt.iff2, !.im = zt.im,
                           !.halted = zt.halted, !.pc = IF zt.halted THEN -1 ELSE 0], b)
  <2> DEFINE p == [Power EXCEPT !.iff1 = zt.iff1, !.iff2 = zt.iff2, !.im = zt.im,
                                !.halted = zt.halted, !.pc = IF zt.halted THEN -1 ELSE 0]
  <2>1. /\ DOMAIN p = Fields /\ p.mc = "M1" /\ p.serv = "NONE" /\ p.step = 0 /\ p.t = 0 /\ p.bytes = 0
        /\ p.prefix = 0 /\ p.index = "HL" /\ p.afterEi = FALSE
    BY DEF Power, Fields
  <2>2. p.halted = zt.halted /\ p.pc = IF zt.halted THEN -1 ELSE 0
    BY DEF Power
  <2> HIDE DEF p
  <2>3. p.pc = IF p.halted THEN -1 ELSE 0
    BY <2>2
  <2>4. Fetching(p, b)
    BY <1>1, <2>1, <2>3 DEF Fetching
  <2>5. CpuInv(p, b)
    BY <2>1, <2>4 DEF CpuInv
  <2> QED BY <2>5 DEF p
<1> QED BY <1>2, <1>3

(* A T-state of the microsecond that the processor takes. *)
LEMMA TickRuns == SeqInv /\ tick_runs => SeqInv'
<1> DEFINE b == zins.bytes
           c == zins'.bytes
           z0 == Awake
           z == [z0 EXCEPT !.ts = @ + 1, !.t = @ + 1]
           ready == z80_batch_ready(z0) /\ ~Accepts(z0, zbus.irq)
<1> SUFFICES ASSUME SeqInv, tick_runs PROVE SeqInv'
  OBVIOUS
<1>1. Encodes(b) /\ CpuInv(zt, b)
  BY DEF SeqInv
<1>2. DOMAIN z0 = Fields /\ CpuInv(z0, b) /\ ~z0.halted
  BY <1>1, AwakeKeeps
<1>3. Encodes(c)
  <2>1. zins' = zins \/ zins' \in Instrs \cup SkewInstrs
    BY DEF tick_runs
  <2> QED BY <1>1, <2>1, SeqAssumption
<1>4. zt' = tick_cycle(z) \/ zt' = Adrift(tick_cycle(z))
  BY DEF tick_runs
<1>5. ~ready => c = b
  BY DEF tick_runs
<1> HIDE DEF z0, b, c
<1>6. DOMAIN z = Fields /\ SameCpu([z EXCEPT !.t = z0.t], z0) /\ z.t = z0.t + 1 /\ z.mc = z0.mc
  BY <1>2 DEF SameCpu, Fields
<1> HIDE DEF z
<1>7. CpuInv(tick_cycle(z), c)
  <2>1. CASE Fetching(z0, b)
    <3>1. z0.mc = "M1"
      BY <2>1 DEF Fetching
    <3>2. Fetching(z0, c)
      BY <1>1, <1>2, <1>3, <1>5, <2>1, NextInstruction
    <3>3. z0.t # 0 => c = zins.bytes
      BY <1>5 DEF z80_batch_ready, b
    <3>4. CpuInv(tick_m1(z), c)
      BY <1>2, <1>3, <1>6, <3>2, <3>3, TickM1
    <3> QED BY <1>6, <3>1, <3>4 DEF tick_cycle
  <2>2. CASE Running(z0)
    <3>1. c = b
      BY <1>5, <2>2 DEF Running, z80_batch_ready
    <3> QED BY <1>2, <1>3, <1>6, <2>2, TickCycle
  <2> QED BY <1>2, <2>1, <2>2 DEF CpuInv
<1>8. CpuInv(zt', c)
  <2> DEFINE w == tick_cycle(z)
  <2>1. CpuInv(w, c) /\ DOMAIN w = Fields
    BY <1>7 DEF CpuInv
  <2>2. zt' = w \/ zt' = Adrift(w)
    BY <1>4
  <2> HIDE DEF w
  <2>3. CpuInv(Adrift(w), c)
    BY <2>1, SameAfter, SameKeeps
  <2> QED BY <2>1, <2>2, <2>3
<1> QED BY <1>3, <1>8 DEF SeqInv, c

\* Every step of the sequenced processor keeps its invariant.
LEMMA SeqStep == SeqInv /\ [SeqNext]_zVars => SeqInv'
<1> DEFINE b == zins.bytes
<1> SUFFICES ASSUME SeqInv, [SeqNext]_zVars PROVE SeqInv'
  OBVIOUS
<1>1. Encodes(b) /\ CpuInv(zt, b) /\ DOMAIN zt = Fields
  BY DEF SeqInv, CpuInv
<1>2. /\ DOMAIN Now = Fields /\ CpuInv(Now, b)
      /\ DOMAIN Awake = Fields /\ CpuInv(Awake, b) /\ ~Awake.halted
  BY <1>1, AwakeKeeps
<1>3. ASSUME CpuInv(zt', b), UNCHANGED zins PROVE SeqInv'
  BY <1>1, <1>3 DEF SeqInv
<1> HIDE DEF b
<1>4. CASE tick_halted
  <2> DEFINE n == Now
             z == [n EXCEPT !.ts = @ + 1, !.haltT = (@ + 1) % 4, !.r = IF n.haltT = 3 THEN @ + 1 ELSE @]
  <2>1. zt' = z /\ UNCHANGED zins
    BY <1>4 DEF tick_halted
  <2>2. DOMAIN n = Fields /\ CpuInv(n, b)
    BY <1>2
  <2> HIDE DEF n
  <2>3. SameCpu(z, n)
    BY <2>2 DEF SameCpu, Fields
  <2> HIDE DEF z
  <2>4. CpuInv(z, b)
    BY <2>2, <2>3, SameKeeps
  <2> QED BY <1>3, <2>1, <2>4
<1>5. CASE tick_busak
  <2>1. zt' = Adrift(Awake) /\ UNCHANGED zins
    BY <1>5 DEF tick_busak
  <2>2. CpuInv(Adrift(Awake), b)
    BY <1>2, SameAfter, SameKeeps
  <2> QED BY <1>3, <2>1, <2>2
<1>6. CASE tick_held
  <2>1. zt' = [Awake EXCEPT !.ts = @ + 1] /\ UNCHANGED zins
    BY <1>6 DEF tick_held
  <2>2. CpuInv([Awake EXCEPT !.ts = Awake.ts + 1], b)
    BY <1>2, SameAfter, SameKeeps
  <2> QED BY <1>3, <2>1, <2>2
<1>7. CASE tick_runs
  BY <1>7, TickRuns
<1>8. CASE nmi_edge
  <2>1. zt' = [zt EXCEPT !.nmi = TRUE] /\ UNCHANGED zins
    BY <1>8 DEF nmi_edge
  <2>2. CpuInv([zt EXCEPT !.nmi = TRUE], b)
    BY <1>1, SameAfter, SameKeeps
  <2> QED BY <1>3, <2>1, <2>2
<1>9. CASE IrqLine \/ BusLine \/ UNCHANGED zVars
  <2>1. zt' = zt /\ UNCHANGED zins
    BY <1>9 DEF IrqLine, BusLine, zVars
  <2> QED BY <1>1, <1>3, <2>1
<1>10. CASE z80_reset
  <2>1. zt' = Power /\ UNCHANGED zins
    BY <1>10 DEF z80_reset
  <2>2. CpuInv(Power, b)
    BY <1>1, PowerStarts
  <2> QED BY <1>3, <2>1, <2>2
<1>11. CASE z80_poke
  <2> DEFINE p == [Power EXCEPT !.iff1 = zt.iff1, !.iff2 = zt.iff2, !.im = zt.im,
                                !.halted = zt.halted, !.pc = IF zt.halted THEN -1 ELSE 0]
  <2>1. zt' = p /\ UNCHANGED zins
    BY <1>11 DEF z80_poke
  <2>2. CpuInv(p, b)
    BY <1>1, PowerStarts
  <2> QED BY <1>3, <2>1, <2>2
<1> QED BY <1>4, <1>5, <1>6, <1>7, <1>8, <1>9, <1>10, <1>11 DEF SeqNext, z80_tick

\* The sequenced processor starts in it.
LEMMA SeqStarts == SeqInit => SeqInv
<1> SUFFICES ASSUME SeqInit PROVE SeqInv
  OBVIOUS
<1>1. zins.bytes = <<0>> /\ zt = Power
  BY DEF SeqInit
<1>2. Encodes(<<0>>)
  <2> DEFINE b == <<0>>
  <2>1. b \in Seq(0..255) /\ b # <<>> /\ Len(b) = 1 /\ b[1] = 0
    OBVIOUS
  <2>2. 1..Len(b) = {1}
    BY <2>1
  <2>3. ~PrefixAt(b, 1)
    BY <2>1 DEF PrefixAt, DD, FD, ED, CB
  <2> HIDE DEF b
  <2>4. Encodes(b)
    BY <2>1, <2>2, <2>3 DEF Encodes
  <2> QED BY <2>4 DEF b
<1>3. CpuInv(Power, <<0>>)
  BY <1>2, PowerStarts
<1> QED BY <1>1, <1>2, <1>3 DEF SeqInv

\* The invariant gives that interrupts are taken between instructions only.
LEMMA SeqGives == SeqInv => InterruptBoundary
BY DEF SeqInv, CpuInv, Fetching, Running, Midway, InterruptBoundary

\* A step of the bench is a step of the processor or leaves it alone.
LEMMA SeqBench == [Next]_benchVars => [SeqNext]_zVars
BY DEF Next, benchVars, zVars

(* An interrupt sequence starts only at an instruction boundary, never      *)
(* between a prefix and its opcode nor in the shadow of EI, and returns to  *)
(* the instruction it displaced: for every set of instructions (tick_m1,    *)
(* finish, and the PC steps of the cycles in z80.cpp).                      *)
THEOREM InterruptsAtBoundaries == Spec => []InterruptBoundary
<1>1. Init => SeqInv
  BY SeqStarts DEF Init
<1>2. SeqInv /\ [Next]_benchVars => SeqInv'
  BY SeqBench, SeqStep
<1> QED BY <1>1, <1>2, SeqGives, PTL DEF Spec

(* What the machine run asks of the chips at every moment holds for every   *)
(* program, tape, instruction set and breakpoint list.                      *)
THEOREM ChipsStayRight == Spec => []ChipsRight
<1>1. InterruptBoundary /\ (CopyIsCurrent /\ AsicTypeOK) /\ TapeTypeOK /\ DebugTypeOK => ChipsRight
  BY DEF ChipsRight
<1> QED BY <1>1, InterruptsAtBoundaries, CopyStaysCurrent, OrdinalStaysOnTape, DebugTypeCorrect, PTL

-----------------------------------------------------------------------------
(* The memory device: the fast tier's pointers agree with mem_read for     *)
(* every configuration of ports, ROMs, cartridges and expansions.          *)

(* The registers keep their widths: every port write, attachment, reset and *)
(* snapshot leaves values mem_read can index with.                          *)
THEOREM MemTypeCorrect == MemSpec => []MemTypeOK
<1>1. MemInit => MemTypeOK
  <2>1. ResetRegs \in Regs
    BY DEF ResetRegs, Regs
  <2>2. 0 \in Nat
    OBVIOUS
  <2> QED BY <2>1, <2>2, Zenon DEF MemInit, MemTypeOK
<1>2. MemTypeOK /\ [MemNext]_memVars => MemTypeOK'
  <2> SUFFICES ASSUME MemTypeOK, [MemNext]_memVars PROVE MemTypeOK'
    OBVIOUS
  <2> USE DEF MemTypeOK
  <2>1. ASSUME NEW lo \in BOOLEAN, NEW up \in BOOLEAN, rom_config(lo, up) PROVE MemTypeOK'
    <3> DEFINE m1 == [mem EXCEPT !.lower_off = lo]
    <3>1. m1 \in Regs
      BY DEF Regs
    <3> HIDE DEF m1
    <3>2. [m1 EXCEPT !.upper_off = up] \in Regs
      BY <3>1 DEF Regs
    <3> QED BY <2>1, <3>2 DEF rom_config, m1
  <2>2. ASSUME NEW b \in CartLowers, NEW m \in 0..3, RMR2(b, m) PROVE MemTypeOK'
    <3>1. b \in 0..7
      BY MemAssumption
    <3>2. (IF m = 3 THEN 0 ELSE m) \in 0..2
      OBVIOUS
    <3> DEFINE slot == IF m = 3 THEN 0 ELSE m
               m1 == [mem EXCEPT !.cart_lower = b]
    <3>3. m1 \in Regs
      BY <3>1 DEF Regs
    <3> HIDE DEF m1, slot
    <3>4. [m1 EXCEPT !.cart_lower_slot = slot] \in Regs
      BY <3>2, <3>3 DEF Regs, slot
    <3> QED BY <2>2, <3>4 DEF RMR2, m1, slot
  <2>3. ASSUME NEW c \in RamConfigs, NEW b \in RamBanks, NEW e \in RamExts, ram_config(c, b, e)
        PROVE MemTypeOK'
    <3>1. c \in 0..7 /\ b \in 0..7 /\ e \in 0..7
      BY MemAssumption
    <3> DEFINE m1 == [mem EXCEPT !.ram_config = c]
               m2 == [m1 EXCEPT !.bank = b]
    <3>2. m1 \in Regs
      BY <3>1 DEF Regs
    <3> HIDE DEF m1
    <3>3. m2 \in Regs
      BY <3>1, <3>2 DEF Regs
    <3> HIDE DEF m2
    <3>4. [m2 EXCEPT !.ram_ext = e] \in Regs
      BY <3>1, <3>3 DEF Regs
    <3> QED BY <2>3, <3>4 DEF ram_config, m1, m2
  <2>4. ASSUME NEW n \in RomSelects, rom_select(n) PROVE MemTypeOK'
    <3>1. n \in 0..255
      BY MemAssumption
    <3>2. plus_upper_page(n) \in 0..31
      BY <3>1 DEF plus_upper_page
    <3> DEFINE up == IF cart_banks # 0 THEN plus_upper_page(n) ELSE mem.cart_upper
               m1 == [mem EXCEPT !.rom_select = n]
    <3>3. up \in 0..31
      BY <3>2 DEF Regs
    <3>4. m1 \in Regs
      BY <3>1 DEF Regs
    <3> HIDE DEF m1, up
    <3>5. [m1 EXCEPT !.cart_upper = up] \in Regs
      BY <3>3, <3>4 DEF Regs
    <3> QED BY <2>4, <3>5 DEF rom_select, m1, up
  <2>5. ASSUME NEW n \in RomSelects, mem_attach_rom(n) PROVE MemTypeOK'
    BY <2>5 DEF mem_attach_rom
  <2>6. ASSUME NEW len \in ExpansionLens, mem_attach_expansion(len) PROVE MemTypeOK'
    BY <2>6, MemAssumption DEF mem_attach_expansion
  <2>7. ASSUME NEW banks \in CartSizes, mem_load_cartridge(banks) PROVE MemTypeOK'
    <3> DEFINE m1 == [mem EXCEPT !.cart_lower = 0]
    <3>1. m1 \in Regs
      BY DEF Regs
    <3> HIDE DEF m1
    <3>2. [m1 EXCEPT !.cart_upper = 1] \in Regs
      BY <3>1 DEF Regs
    <3> QED BY <2>7, <3>2, MemAssumption DEF mem_load_cartridge, m1
  <2>8. ASSUME NEW r \in SavedRegs, mem_load(r) PROVE MemTypeOK'
    BY <2>8, SavedAssumption DEF mem_load
  <2>9. CASE fast_access
    BY <2>9 DEF fast_access
  <2>10. CASE mem_reset
    <3>1. ResetRegs \in Regs
      BY DEF ResetRegs, Regs
    <3> QED BY <2>10, <3>1 DEF mem_reset
  <2>11. CASE asic_unlocked
    BY <2>11 DEF asic_unlocked
  <2>12. CASE UNCHANGED memVars
    BY <2>12 DEF memVars
  <2> QED
    BY <2>1, <2>2, <2>3, <2>4, <2>5, <2>6, <2>7, <2>8, <2>9, <2>10, <2>11, <2>12 DEF MemNext
<1> QED BY <1>1, <1>2, PTL DEF MemSpec

(* The rebuild of the pointers and the decode of a read agree slot by slot: *)
(* the ROMs the rebuild lays over the RAM never meet in one slot.           *)
LEMMA RebuildIsRead ==
  ASSUME MemTypeOK, NEW s \in Slots
  PROVE  fast_rebuild.rd[s] = mem_read(s) /\ fast_rebuild.wr[s] = banked_ptr(s)
<1> DEFINE lowSlot == IF cart_banks # 0 THEN mem.cart_lower_slot ELSE 0
           ram == [t \in Slots |-> banked_ptr(t)]
           low == IF mem.lower_off THEN ram ELSE [ram EXCEPT ![lowSlot] = Lower]
           rd == IF mem.upper_off THEN low ELSE [low EXCEPT ![3] = Upper]
<1>1. lowSlot \in Slots /\ lowSlot # 3 /\ 3 \in Slots
  BY DEF MemTypeOK, Regs, Slots
<1>2. fast_rebuild.rd = rd /\ fast_rebuild.wr = ram
  BY DEF fast_rebuild
<1>3. lower_rom_serves(s) <=> ~mem.lower_off /\ s = lowSlot
  BY DEF lower_rom_serves
<1> HIDE DEF lowSlot
<1>4. rd[s] = IF ~mem.lower_off /\ s = lowSlot THEN Lower
              ELSE IF s = 3 /\ ~mem.upper_off THEN Upper ELSE banked_ptr(s)
  BY <1>1
<1> QED BY <1>2, <1>3, <1>4 DEF mem_read

(* The pointers are coherent: every operation that changes what mem_read or *)
(* banked_ptr depends on leaves them dirty, and a rebuild makes them right. *)
THEOREM CacheCorrect == MemSpec => []CacheCoherent
<1>1. MemInit => CacheCoherent
  BY DEF MemInit, CacheCoherent
<1>2. MemTypeOK /\ CacheCoherent /\ [MemNext]_memVars => CacheCoherent'
  <2> SUFFICES ASSUME MemTypeOK, CacheCoherent, [MemNext]_memVars PROVE CacheCoherent'
    OBVIOUS
  <2>1. ASSUME cache' = Dirty PROVE CacheCoherent'
    BY <2>1 DEF CacheCoherent
  <2>2. ASSUME UNCHANGED <<mem, cart_banks, expansion, roms>>
        PROVE  \A s \in Slots : mem_read(s)' = mem_read(s) /\ banked_ptr(s)' = banked_ptr(s)
    BY <2>2 DEF mem_read, banked_ptr, lower_rom_serves, Lower, Upper, CartBank
  <2>3. CASE fast_access
    <3>1. UNCHANGED <<mem, cart_banks, expansion, roms>>
      BY <2>3 DEF fast_access
    <3>2. CASE cache = Dirty
      <4>1. cache' = fast_rebuild
        BY <2>3, <3>2 DEF fast_access
      <4> QED BY <4>1, <3>1, <2>2, RebuildIsRead DEF CacheCoherent
    <3>3. CASE cache # Dirty
      <4>1. cache' = cache
        BY <2>3, <3>3 DEF fast_access
      <4> QED BY <4>1, <3>1, <3>3, <2>2 DEF CacheCoherent
    <3> QED BY <3>2, <3>3
  <2>4. CASE asic_unlocked \/ UNCHANGED memVars
    <3>1. UNCHANGED <<mem, cart_banks, expansion, roms, cache>>
      BY <2>4 DEF asic_unlocked, memVars
    <3> QED BY <3>1, <2>2 DEF CacheCoherent
  <2>5. CASE \/ \E lo, up \in BOOLEAN : rom_config(lo, up)
             \/ \E b \in CartLowers, m \in 0..3 : RMR2(b, m)
             \/ \E c \in RamConfigs, b \in RamBanks, e \in RamExts : ram_config(c, b, e)
             \/ \E n \in RomSelects : rom_select(n) \/ mem_attach_rom(n)
    BY <2>5, <2>1 DEF rom_config, RMR2, ram_config, rom_select, mem_attach_rom
  <2>6. CASE \/ \E len \in ExpansionLens : mem_attach_expansion(len)
             \/ \E banks \in CartSizes : mem_load_cartridge(banks)
             \/ \E r \in SavedRegs : mem_load(r)
             \/ mem_reset
    BY <2>6, <2>1 DEF mem_attach_expansion, mem_load_cartridge, mem_load, mem_reset
  <2> QED BY <2>3, <2>4, <2>5, <2>6 DEF MemNext
<1> QED BY <1>1, <1>2, MemTypeCorrect, PTL DEF MemSpec

(* No access leaves what is fitted: a bank number past the expansion or the *)
(* cartridge falls back to bank 0, and without an expansion the RAM         *)
(* configuration is ignored.                                                *)
THEOREM PagesExistAlways == MemSpec => []PagesExist
<1>1. MemTypeOK => PagesExist
  <2> SUFFICES ASSUME MemTypeOK, NEW s \in Slots
               PROVE  /\ banked_ptr(s)[1] = "expansion" => banked_ptr(s)[2] < expansion
                      /\ mem_read(s)[1] = "cart" => mem_read(s)[2] < cart_banks
    BY DEF PagesExist
  <2> DEFINE cfg == IF expansion # 0 THEN mem.ram_config ELSE 0
             page == kBankTable[cfg][s + 1]
             named == IF expansion > 8 THEN mem.bank + 8 * mem.ram_ext ELSE mem.bank
             bank == IF named + 1 > expansion THEN 0 ELSE named
  <2>1. expansion \in Nat /\ named \in Nat /\ cart_banks \in Nat
    BY DEF MemTypeOK, Regs
  <2>2. banked_ptr(s) = IF page < 4 THEN Ram(page) ELSE Expanded(bank, page - 4)
    BY DEF banked_ptr
  <2>3. expansion = 0 => page < 4
    <3>1. kBankTable[0] = <<0, 1, 2, 3>>
      BY DEF kBankTable
    <3> QED BY <3>1 DEF Slots
  <2>4. expansion # 0 => bank < expansion
    BY <2>1
  <2> HIDE DEF page, bank
  <2>5. banked_ptr(s)[1] = "expansion" => banked_ptr(s)[2] < expansion
    BY <2>2, <2>3, <2>4 DEF Ram, Expanded
  <2>6. banked_ptr(s)[1] # "cart"
    BY <2>2 DEF Ram, Expanded
  <2>7. ASSUME NEW b \in Nat, cart_banks # 0 PROVE CartBank(b)[2] < cart_banks
    BY <2>7, <2>1 DEF CartBank, Cart
  <2>8. mem.cart_lower \in Nat /\ mem.cart_upper \in Nat
    BY DEF MemTypeOK, Regs
  <2>9. /\ Lower[1] = "cart" => Lower[2] < cart_banks
        /\ Upper[1] = "cart" => Upper[2] < cart_banks
    BY <2>7, <2>8 DEF Lower, Upper, LowerRom, UpperRom
  <2> QED BY <2>5, <2>6, <2>9 DEF mem_read
<1> QED BY <1>1, MemTypeCorrect, PTL

============================================================================
