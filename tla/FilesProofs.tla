----------------------------- MODULE FilesProofs -----------------------------
(***************************************************************************)
(* What leaves the machine and comes back to it: for any command line and  *)
(* any number of samples, pictures and characters, the slots hold what     *)
(* they can take, a snapshot restores what it saved, a recording is whole  *)
(* and the telnet client gets the guest's characters in order.             *)
(***************************************************************************)
EXTENDS PartsProofs

-----------------------------------------------------------------------------
(* The files of the command line, taken one after the other.               *)
SlotNames == ToSet(SlotOrder)

Able(g, f) == {n \in 1..Len(SlotOrder) : TakesFile(g, SlotOrder[n], f)}
FirstOf(S) == CHOOSE n \in S : \A k \in S : n <= k

\* The slots after the first i files.
TakenUpTo(f, files, i) ==
  IF i = 0 THEN [s \in SlotNames |-> 0]
  ELSE IF Able(f[i - 1], files[i]) = {} THEN f[i - 1]
  ELSE [f[i - 1] EXCEPT ![SlotOrder[FirstOf(Able(f[i - 1], files[i]))]] = i]

\* No file is in two slots, each is where its kind belongs, and a file that a
\* slot could have had instead of a later one or of none is in some slot.
FilledBy(g, files, i) ==
  /\ g \in [SlotNames -> 0..i]
  /\ \A s \in SlotNames : g[s] # 0 =>
       /\ KindOf(files[g[s]]) \in drive_extensions(s)
       /\ \A t \in SlotNames : s # t => g[s] # g[t]
  /\ \A s \in SlotNames : \A j \in 1..i :
       KindOf(files[j]) \in drive_extensions(s) /\ (g[s] = 0 \/ j <= g[s])
         => \E u \in SlotNames : g[u] = j

(* One file is taken after another, so what is taken of m files is defined. *)
LEMMA TakenUpToExists ==
  ASSUME NEW files, NEW m \in Nat
  PROVE  \E f : f = [i \in 0..m |-> TakenUpTo(f, files, i)]
<1> DEFINE Wrong == {n \in 0..m : ~ \E f : f = [i \in 0..n |-> TakenUpTo(f, files, i)]}
<1>1. ASSUME Wrong # {} PROVE FALSE
  <2> DEFINE w == Min(Wrong)
  <2>1. w \in Wrong /\ \A n \in Wrong : w <= n
    <3>1. Wrong \in SUBSET Nat
      OBVIOUS
    <3> HIDE DEF Wrong
    <3> QED BY <1>1, <3>1, LeastOf
  <2> HIDE DEF w
  <2>2. w \in 0..m /\ ~ \E f : f = [i \in 0..w |-> TakenUpTo(f, files, i)]
    BY <2>1
  <2>3. CASE w = 0
    <3> DEFINE none == [s \in SlotNames |-> 0]
               f == [i \in 0..0 |-> none]
    <3>1. \A i \in 0..0 : TakenUpTo(f, files, i) = none
      BY DEF TakenUpTo
    <3>2. f = [i \in 0..w |-> TakenUpTo(f, files, i)]
      BY <2>3, <3>1
    <3> QED BY <2>2, <3>2
  <2>4. CASE w # 0
    <3>1. w - 1 \in 0..m /\ ~(w <= w - 1) /\ w - 1 \in Nat
      BY <2>2, <2>4
    <3>2. PICK g : g = [i \in 0..(w - 1) |-> TakenUpTo(g, files, i)]
      BY <2>1, <3>1
    <3> DEFINE top == TakenUpTo(g, files, w)
               f == [i \in 0..w |-> IF i = w THEN top ELSE g[i]]
    <3>3. ASSUME NEW i \in 0..w PROVE f[i] = TakenUpTo(f, files, i)
      <4>1. CASE i = 0
        <5>1. f[i] = g[0] /\ 0 \in 0..(w - 1)
          BY <2>2, <2>4, <4>1
        <5>2. g[0] = TakenUpTo(g, files, 0)
          BY <3>2, <5>1
        <5> QED BY <4>1, <5>1, <5>2 DEF TakenUpTo
      <4>2. CASE i = w /\ i # 0
        <5>1. w - 1 \in 0..w /\ w - 1 # w /\ w \in 0..w
          BY <2>2, <3>1
        <5>2. f[w - 1] = g[w - 1] /\ f[w] = top
          BY <5>1
        <5> QED BY <4>2, <5>2 DEF TakenUpTo
      <4>3. CASE i # w /\ i # 0
        <5>1. i \in 0..(w - 1) /\ i - 1 \in 0..(w - 1) /\ i - 1 \in 0..w /\ i - 1 # w
          BY <2>2, <4>3
        <5>2. f[i] = g[i] /\ f[i - 1] = g[i - 1]
          BY <4>3, <5>1
        <5>3. g[i] = TakenUpTo(g, files, i)
          BY <3>2, <5>1
        <5> QED BY <4>3, <5>2, <5>3 DEF TakenUpTo
      <4> QED BY <4>1, <4>2, <4>3
    <3>4. f = [i \in 0..w |-> f[i]]
      OBVIOUS
    <3> HIDE DEF f
    <3>5. [i \in 0..w |-> f[i]] = [i \in 0..w |-> TakenUpTo(f, files, i)]
      BY <3>3
    <3>6. f = [i \in 0..w |-> TakenUpTo(f, files, i)]
      BY ONLY <3>4, <3>5
    <3> QED BY <2>2, <3>6
  <2> QED BY <2>3, <2>4
<1>2. m \in 0..m
  OBVIOUS
<1>3. m \notin Wrong
  BY <1>1
<1> QED BY <1>2, <1>3

(* The table of slots has no duplicates.                                   *)
LEMMA SlotsNamed ==
  /\ SlotNames = {"A", "B", "snapshot", "tape", "cartridge"}
  /\ \A n \in 1..Len(SlotOrder) : SlotOrder[n] \in SlotNames
  BY DEF SlotNames, SlotOrder, ToSet

(* A file that is taken goes to a free slot of its kind.                   *)
LEMMA FirstIsAble ==
  ASSUME NEW g, NEW f, Able(g, f) # {}
  PROVE  LET s == SlotOrder[FirstOf(Able(g, f))]
         IN  s \in SlotNames /\ g[s] = 0 /\ KindOf(f) \in drive_extensions(s)
<1> DEFINE A == Able(g, f)
           n == FirstOf(A)
<1>1. A \in SUBSET Nat /\ A # {} /\ A \subseteq 1..Len(SlotOrder)
  BY DEF Able, SlotOrder
<1>2. n \in A
  <2> HIDE DEF A
  <2>1. \E k \in A : \A j \in A : k <= j
    BY <1>1, LeastOf
  <2> QED BY <2>1 DEF FirstOf
<1> HIDE DEF n
<1>3. n \in 1..Len(SlotOrder) /\ TakesFile(g, SlotOrder[n], f)
  BY <1>2 DEF Able
<1> QED BY <1>3, SlotsNamed DEF TakesFile, n, A

(* Each file that is taken leaves the slots filled as they should be.      *)
LEMMA TakingFills ==
  ASSUME NEW files, NEW m \in Nat, NEW f, \A i \in 0..m : f[i] = TakenUpTo(f, files, i)
  PROVE  \A i \in 0..m : FilledBy(f[i], files, i)
<1> DEFINE Wrong == {n \in 0..m : ~FilledBy(f[n], files, n)}
<1>1. ASSUME Wrong # {} PROVE FALSE
  <2> DEFINE w == Min(Wrong)
  <2>1. w \in Wrong /\ \A n \in Wrong : w <= n
    <3>1. Wrong \in SUBSET Nat
      OBVIOUS
    <3> HIDE DEF Wrong
    <3> QED BY <1>1, <3>1, LeastOf
  <2> HIDE DEF w
  <2>2. w \in 0..m /\ ~FilledBy(f[w], files, w)
    BY <2>1
  <2>3. CASE w = 0
    <3>1. f[w] = [s \in SlotNames |-> 0]
      BY <2>2, <2>3 DEF TakenUpTo
    <3> QED BY <2>2, <2>3, <3>1 DEF FilledBy
  <2>4. CASE w # 0
    <3> DEFINE g == f[w - 1]
               A == Able(g, files[w])
               s0 == SlotOrder[FirstOf(A)]
               h == [g EXCEPT ![s0] = w]
    <3>1. w - 1 \in 0..m /\ ~(w <= w - 1) /\ w \in Nat /\ w - 1 \in Nat
      BY <2>2, <2>4
    <3>2. FilledBy(g, files, w - 1)
      BY <2>1, <3>1
    <3>3. f[w] = IF A = {} THEN g ELSE h
      BY <2>2, <2>4 DEF TakenUpTo
    <3>4. A # {} => s0 \in SlotNames /\ g[s0] = 0 /\ KindOf(files[w]) \in drive_extensions(s0)
      BY FirstIsAble
    <3>5. A = {} => \A s \in SlotNames : g[s] = 0 => KindOf(files[w]) \notin drive_extensions(s)
      <4> SUFFICES ASSUME A = {}, NEW s \in SlotNames, g[s] = 0 PROVE KindOf(files[w]) \notin drive_extensions(s)
        OBVIOUS
      <4>1. \E n \in 1..Len(SlotOrder) : SlotOrder[n] = s
        BY DEF SlotNames, ToSet, SlotOrder
      <4> QED BY <4>1 DEF Able, TakesFile
    <3> HIDE DEF g, A, s0
    <3>6. \A j \in 1..w : j \in 1..(w - 1) \/ j = w
      BY <3>1
    <3>7. \A k \in 0..(w - 1) : k \in 0..w /\ k # w /\ ~(w <= k)
      BY <3>1
    <3>8. /\ g \in [SlotNames -> 0..(w - 1)]
          /\ \A s \in SlotNames : g[s] # 0 =>
               /\ KindOf(files[g[s]]) \in drive_extensions(s)
               /\ \A t \in SlotNames : s # t => g[s] # g[t]
          /\ \A s \in SlotNames : \A j \in 1..(w - 1) :
               KindOf(files[j]) \in drive_extensions(s) /\ (g[s] = 0 \/ j <= g[s])
                 => \E u \in SlotNames : g[u] = j
      BY <3>2 DEF FilledBy
    <3>9. CASE A = {}
      <4>1. g \in [SlotNames -> 0..w]
        BY <3>7, <3>8
      <4>2. \A s \in SlotNames : KindOf(files[w]) \in drive_extensions(s) => ~(g[s] = 0 \/ w <= g[s])
        BY <3>5, <3>7, <3>8, <3>9
      <4>3. FilledBy(g, files, w)
        BY <3>6, <3>8, <4>1, <4>2 DEF FilledBy
      <4> QED BY <2>2, <3>3, <3>9, <4>3
    <3>10. CASE A # {}
      <4>1. s0 \in SlotNames /\ g[s0] = 0 /\ KindOf(files[w]) \in drive_extensions(s0)
        BY <3>4, <3>10
      <4>2. /\ h \in [SlotNames -> 0..w] /\ h[s0] = w
            /\ \A s \in SlotNames : s # s0 => h[s] = g[s]
            /\ \A s \in SlotNames : g[s] # w
        BY <3>1, <3>7, <3>8, <4>1
      <4> HIDE DEF h
      <4>3. ASSUME NEW s \in SlotNames, h[s] # 0
            PROVE  /\ KindOf(files[h[s]]) \in drive_extensions(s)
                   /\ \A t \in SlotNames : s # t => h[s] # h[t]
        BY <3>8, <4>1, <4>2, <4>3
      <4>4. ASSUME NEW s \in SlotNames, NEW j \in 1..w, KindOf(files[j]) \in drive_extensions(s),
                   h[s] = 0 \/ j <= h[s]
            PROVE  \E u \in SlotNames : h[u] = j
        <5>1. CASE j = w
          BY <4>1, <4>2, <5>1
        <5>2. CASE j \in 1..(w - 1)
          <6>1. g[s] = 0 \/ j <= g[s]
            BY <4>1, <4>2, <4>4
          <6>2. PICK u \in SlotNames : g[u] = j
            BY <3>8, <4>4, <5>2, <6>1
          <6>3. u # s0
            BY <4>1, <5>2, <6>2
          <6> QED BY <4>2, <6>2, <6>3
        <5> QED BY <3>6, <5>1, <5>2
      <4>5. FilledBy(h, files, w)
        BY <4>2, <4>3, <4>4 DEF FilledBy
      <4> QED BY <2>2, <3>3, <3>10, <4>5
    <3> QED BY <3>9, <3>10
  <2> QED BY <2>3, <2>4
<1> QED BY <1>1

(* So the slots are filled as they should be with any number of files.     *)
LEMMA FillingFills ==
  ASSUME NEW files, Len(files) \in Nat
  PROVE  FilledBy(fillSlots(files), files, Len(files))
<1> DEFINE m == Len(files)
           after[i \in 0..m] ==
             IF i = 0 THEN [s \in ToSet(SlotOrder) |-> 0]
             ELSE IF {n \in 1..Len(SlotOrder) : TakesFile(after[i - 1], SlotOrder[n], files[i])} = {}
                  THEN after[i - 1]
             ELSE [after[i - 1] EXCEPT
                    ![SlotOrder[CHOOSE n \in {n \in 1..Len(SlotOrder) : TakesFile(after[i - 1], SlotOrder[n], files[i])} :
                        \A k \in {n_1 \in 1..Len(SlotOrder) : TakesFile(after[i - 1], SlotOrder[n_1], files[i])} : n <= k]] = i]
<1>1. fillSlots(files) = after[m]
  BY DEF fillSlots
<1>2. \E f : f = [i \in 0..m |-> TakenUpTo(f, files, i)]
  BY TakenUpToExists
<1>3. after = [i \in 0..m |-> TakenUpTo(after, files, i)]
  BY <1>2 DEF TakenUpTo, Able, FirstOf, SlotNames
<1> HIDE DEF after
<1>4. \A i \in 0..m : after[i] = TakenUpTo(after, files, i)
  BY <1>3
<1>5. \A i \in 0..m : FilledBy(after[i], files, i)
  BY <1>4, TakingFills
<1> QED BY <1>1, <1>5

-----------------------------------------------------------------------------
(* Snapshots.                                                              *)
ChipStates ==
  [cpu : {0, 1}, halted : BOOLEAN, rearm : BOOLEAN, count : 0..2, irq : BOOLEAN,
   control : {"in", "out"}, porta : 0..15, code : {"idle", "select", "write"},
   prev : {"idle", "select", "write"} \X (0..15),
   sel : 0..15, shape : 0..15, mixer : 0..15, level : 0..EnvTop, dir : {"down", "none"},
   ram : {0, 1}, ext : {0, 1}, adjust : 0..2]

\* What the lines say has been done, unless they are new to the AY.
Settled(m) ==
  /\ m.prev = AyLines(m) \/ m.prev[1] = "idle"
  /\ m.code = "select" => m.sel = AyLines(m)[2]
  /\ m.code = "write" /\ m.sel = 7 => m.mixer = AyLines(m)[2]

Sane(m) == m \in ChipStates /\ Settled(m)

SnapInv ==
  /\ {"kind", "head"} = DOMAIN sna /\ {"saved", "before", "answer", "time"} = DOMAIN goal
  /\ Sane(sm) /\ Sane(goal.saved)
  /\ sna.head = t_SNA_header(goal.saved)
  /\ SnapshotRestores

(* The lines are a control code and a datum.                               *)
LEMMA LinesTyped ==
  ASSUME NEW m \in ChipStates
  PROVE  AyLines(m) \in {"idle", "select", "write"} \X (0..15) /\ AyLines(m)[1] = m.code
  BY DEF AyLines, ChipStates

(* The same but for what is left out is the same field by field.           *)
LEMMA SameFields ==
  ASSUME NEW m \in ChipStates, NEW was \in ChipStates
  PROVE  Same(m, was) <=>
           /\ m.cpu = was.cpu /\ m.rearm = was.rearm /\ m.count = was.count /\ m.irq = was.irq
           /\ m.control = was.control /\ m.porta = was.porta /\ m.code = was.code
           /\ m.sel = was.sel /\ m.shape = was.shape /\ m.mixer = was.mixer
           /\ m.dir = was.dir /\ m.ram = was.ram
           /\ m.level \div 2 = was.level \div 2
<1> DEFINE x == [m EXCEPT !.halted = was.halted, !.level = was.level, !.ext = was.ext,
                          !.adjust = was.adjust, !.prev = was.prev]
<1>1. /\ x \in ChipStates
      /\ x.cpu = m.cpu /\ x.rearm = m.rearm /\ x.count = m.count /\ x.irq = m.irq
      /\ x.control = m.control /\ x.porta = m.porta /\ x.code = m.code
      /\ x.sel = m.sel /\ x.shape = m.shape /\ x.mixer = m.mixer
      /\ x.dir = m.dir /\ x.ram = m.ram /\ x.halted = was.halted /\ x.level = was.level
      /\ x.ext = was.ext /\ x.adjust = was.adjust /\ x.prev = was.prev
  BY DEF ChipStates
<1>2. Same(m, was) <=> x = was /\ m.level \div 2 = was.level \div 2
  BY DEF Same
<1> HIDE DEF x
<1>3. x = was <=>
           /\ m.cpu = was.cpu /\ m.rearm = was.rearm /\ m.count = was.count /\ m.irq = was.irq
           /\ m.control = was.control /\ m.porta = was.porta /\ m.code = was.code
           /\ m.sel = was.sel /\ m.shape = was.shape /\ m.mixer = was.mixer
           /\ m.dir = was.dir /\ m.ram = was.ram
  BY <1>1 DEF ChipStates
<1> QED BY <1>2, <1>3

(* The AY does what its new lines say, and no more when they are not new.  *)
LEMMA BusSettles ==
  ASSUME NEW m \in ChipStates, NEW old, Settled(old),
         m.prev = old.prev, m.sel = old.sel, m.mixer = old.mixer
  PROVE  Sane(psg_bus(m))
<1> DEFINE d == AyLines(m)[2]
           w == psg_apply(m, d)
           v == [w EXCEPT !.prev = AyLines(m)]
<1>1. psg_bus(m) = IF AyLines(m) = m.prev THEN m ELSE v
  BY DEF psg_bus
<1>2. d \in 0..15 /\ AyLines(m) = <<m.code, d>>
  BY LinesTyped DEF AyLines
<1>3. AyLines(old) = <<old.code, AyLines(old)[2]>>
  BY DEF AyLines
<1> HIDE DEF d
<1>4. CASE AyLines(m) = m.prev
  <2>1. m.code # "idle" => AyLines(old) = AyLines(m)
    BY <1>2, <1>4 DEF Settled
  <2>2. m.code # "idle" => old.code = m.code /\ AyLines(old)[2] = d
    BY <1>2, <1>3, <2>1
  <2>3. Settled(m)
    BY <1>2, <1>4, <2>1, <2>2 DEF Settled
  <2> QED BY <1>1, <1>4, <2>3 DEF Sane
<1>5. CASE AyLines(m) # m.prev
  <2>1. /\ w \in ChipStates /\ w.code = m.code /\ w.control = m.control /\ w.porta = m.porta
        /\ (m.code = "select" => w.sel = d)
        /\ (m.code = "write" /\ w.sel = 7 => w.mixer = d)
    <3>1. CASE m.code = "select"
      <4>1. w = [m EXCEPT !.sel = d]
        BY <3>1 DEF psg_apply
      <4> HIDE DEF w
      <4> QED BY <1>2, <3>1, <4>1 DEF ChipStates
    <3>2. CASE m.code = "write" /\ m.sel = 13
      <4> DEFINE a == [m EXCEPT !.shape = d]
                 b == [a EXCEPT !.level = EnvTop]
                 c == [b EXCEPT !.dir = "down"]
      <4>1. w = c
        BY <3>2 DEF psg_apply, ChipStates
      <4>2. a \in ChipStates /\ a.code = m.code /\ a.control = m.control /\ a.porta = m.porta /\ a.sel = m.sel
        BY <1>2 DEF ChipStates
      <4> HIDE DEF a
      <4>3. EnvTop \in 0..EnvTop
        BY SlotsAssumption
      <4>4. b \in ChipStates /\ b.code = m.code /\ b.control = m.control /\ b.porta = m.porta /\ b.sel = m.sel
        BY <4>2, <4>3 DEF ChipStates
      <4> HIDE DEF b
      <4>5. c \in ChipStates /\ c.code = m.code /\ c.control = m.control /\ c.porta = m.porta /\ c.sel = m.sel
        BY <4>4 DEF ChipStates
      <4> HIDE DEF c, w
      <4> QED BY <3>2, <4>1, <4>5
    <3>3. CASE m.code = "write" /\ m.sel = 7
      <4>1. w = [m EXCEPT !.mixer = d]
        BY <3>3 DEF psg_apply
      <4> HIDE DEF w
      <4> QED BY <1>2, <3>3, <4>1 DEF ChipStates
    <3>4. CASE m.code \notin {"select", "write"} \/ (m.code = "write" /\ m.sel \notin {7, 13})
      <4>1. w = m
        BY <3>4 DEF psg_apply
      <4> HIDE DEF w
      <4> QED BY <3>4, <4>1
    <3> QED BY <3>1, <3>2, <3>3, <3>4
  <2> HIDE DEF w
  <2>2. AyLines(m) \in {"idle", "select", "write"} \X (0..15)
    BY LinesTyped
  <2>3. /\ v \in ChipStates /\ v.code = w.code /\ v.control = w.control /\ v.porta = w.porta
        /\ v.sel = w.sel /\ v.mixer = w.mixer /\ v.prev = AyLines(m)
    BY <2>1, <2>2 DEF ChipStates
  <2> HIDE DEF v
  <2>4. AyLines(v) = AyLines(m)
    BY <2>1, <2>3 DEF AyLines
  <2>5. Settled(v)
    BY <1>2, <2>1, <2>3, <2>4 DEF Settled
  <2> QED BY <1>1, <1>5, <2>3, <2>5 DEF Sane
<1> QED BY <1>4, <1>5

(* A field the lines do not depend on may change.                          *)
LEMMA OffTheBus ==
  ASSUME NEW m, Sane(m), NEW n \in ChipStates, n.prev = m.prev, n.code = m.code, n.control = m.control,
         n.porta = m.porta, n.sel = m.sel, n.mixer = m.mixer
  PROVE  Sane(n)
  BY DEF Sane, Settled, AyLines

(* The guest leaves the chips settled.                                     *)
LEMMA GuestSettles ==
  ASSUME SnapInv, GuestStep PROVE SnapInv'
<1>1. sm \in ChipStates /\ Settled(sm)
  BY DEF SnapInv, Sane
<1>2. ASSUME NEW a \in 0..15, NEW c \in {"idle", "select", "write"}
      PROVE  Sane(psg_bus(ppi_ports(sm, a, c)))
  <2> DEFINE p == [sm EXCEPT !.porta = a]
             q == [p EXCEPT !.code = c]
  <2>1. p \in ChipStates /\ p.prev = sm.prev /\ p.sel = sm.sel /\ p.mixer = sm.mixer
    BY <1>1 DEF ChipStates
  <2>2. ppi_ports(sm, a, c) = q
    BY <1>1 DEF ppi_ports, ChipStates
  <2> HIDE DEF p
  <2>3. q \in ChipStates /\ q.prev = sm.prev /\ q.sel = sm.sel /\ q.mixer = sm.mixer
    BY <2>1 DEF ChipStates
  <2> HIDE DEF q
  <2> QED BY <1>1, <2>2, <2>3, BusSettles
<1>3. Sane(psg_bus(ppi_control(sm, "out")))
  <2> DEFINE a == [sm EXCEPT !.control = "out"]
             b == [a EXCEPT !.porta = 0]
             n == [b EXCEPT !.code = "idle"]
  <2>1. a \in ChipStates /\ a.prev = sm.prev /\ a.sel = sm.sel /\ a.mixer = sm.mixer
    BY <1>1 DEF ChipStates
  <2>2. ppi_control(sm, "out") = n
    BY <1>1 DEF ppi_control, ChipStates
  <2> HIDE DEF a
  <2>3. b \in ChipStates /\ b.prev = sm.prev /\ b.sel = sm.sel /\ b.mixer = sm.mixer
    BY <2>1 DEF ChipStates
  <2> HIDE DEF b
  <2>4. n \in ChipStates /\ n.prev = sm.prev /\ n.sel = sm.sel /\ n.mixer = sm.mixer
    BY <2>3 DEF ChipStates
  <2> HIDE DEF n
  <2> QED BY <1>1, <2>2, <2>4, BusSettles

<1>4. Sane(sm')
  <2>1. CASE sm' = ga_rom_config(sm, TRUE)
    <3> DEFINE a == [sm EXCEPT !.rearm = TRUE]
               b == [a EXCEPT !.count = 0]
               c == [b EXCEPT !.irq = FALSE]
    <3>1. sm' = c
      BY <1>1, <2>1 DEF ga_rom_config, ChipStates
    <3>2. /\ a \in ChipStates /\ a.prev = sm.prev /\ a.code = sm.code /\ a.control = sm.control
          /\ a.porta = sm.porta /\ a.sel = sm.sel /\ a.mixer = sm.mixer
      BY <1>1 DEF ChipStates
    <3> HIDE DEF a
    <3>3. /\ b \in ChipStates /\ b.prev = sm.prev /\ b.code = sm.code /\ b.control = sm.control
          /\ b.porta = sm.porta /\ b.sel = sm.sel /\ b.mixer = sm.mixer
      BY <3>2 DEF ChipStates
    <3> HIDE DEF b
    <3>4. /\ c \in ChipStates /\ c.prev = sm.prev /\ c.code = sm.code /\ c.control = sm.control
          /\ c.porta = sm.porta /\ c.sel = sm.sel /\ c.mixer = sm.mixer
      BY <3>3 DEF ChipStates
    <3> HIDE DEF c
    <3> QED BY <1>1, <3>1, <3>4, OffTheBus DEF Sane
  <2>2. CASE sm.count < 2 /\ sm' = [sm EXCEPT !.count = @ + 1, !.irq = sm.count = 1]
    <3> DEFINE k == sm.count + 1
               b == sm.count = 1
    <3>1. k \in 0..2 /\ b \in BOOLEAN /\ sm' = [sm EXCEPT !.count = k, !.irq = b]
      BY <1>1, <2>2 DEF ChipStates
    <3> HIDE DEF k, b
    <3>2. /\ sm' \in ChipStates /\ sm'.prev = sm.prev /\ sm'.code = sm.code /\ sm'.control = sm.control
          /\ sm'.porta = sm.porta /\ sm'.sel = sm.sel /\ sm'.mixer = sm.mixer
      BY <1>1, <3>1 DEF ChipStates
    <3> QED BY <1>1, <3>2, OffTheBus DEF Sane
  <2>3. CASE sm.level > 0 /\ sm' = [sm EXCEPT !.level = @ - 1, !.dir = IF sm.level = 1 THEN "none" ELSE @]
    <3> DEFINE k == sm.level - 1
               b == IF sm.level = 1 THEN "none" ELSE sm.dir
    <3>1. k \in 0..EnvTop /\ b \in {"down", "none"} /\ sm' = [sm EXCEPT !.level = k, !.dir = b]
      BY <1>1, <2>3, SlotsAssumption DEF ChipStates
    <3> HIDE DEF k, b
    <3>2. /\ sm' \in ChipStates /\ sm'.prev = sm.prev /\ sm'.code = sm.code /\ sm'.control = sm.control
          /\ sm'.porta = sm.porta /\ sm'.sel = sm.sel /\ sm'.mixer = sm.mixer
      BY <1>1, <3>1 DEF ChipStates
    <3> QED BY <1>1, <3>2, OffTheBus DEF Sane
  <2>4. CASE sm' = [sm EXCEPT !.halted = TRUE]
    <3>1. /\ sm' \in ChipStates /\ sm'.prev = sm.prev /\ sm'.code = sm.code /\ sm'.control = sm.control
          /\ sm'.porta = sm.porta /\ sm'.sel = sm.sel /\ sm'.mixer = sm.mixer
      BY <1>1, <2>4 DEF ChipStates
    <3> QED BY <1>1, <3>1, OffTheBus DEF Sane
  <2>6. CASE sm' = [sm EXCEPT !.cpu = 1, !.ram = 1]
    <3> DEFINE a == [sm EXCEPT !.cpu = 1]
               b == [a EXCEPT !.ram = 1]
    <3>1. sm' = b
      BY <1>1, <2>6 DEF ChipStates
    <3>2. /\ a \in ChipStates /\ a.prev = sm.prev /\ a.code = sm.code /\ a.control = sm.control
          /\ a.porta = sm.porta /\ a.sel = sm.sel /\ a.mixer = sm.mixer
      BY <1>1 DEF ChipStates
    <3> HIDE DEF a
    <3>3. /\ b \in ChipStates /\ b.prev = sm.prev /\ b.code = sm.code /\ b.control = sm.control
          /\ b.porta = sm.porta /\ b.sel = sm.sel /\ b.mixer = sm.mixer
      BY <3>2 DEF ChipStates
    <3> HIDE DEF b
    <3> QED BY <1>1, <3>1, <3>3, OffTheBus DEF Sane
  <2>7. CASE sm' = [sm EXCEPT !.ext = 1]
    <3>1. /\ sm' \in ChipStates /\ sm'.prev = sm.prev /\ sm'.code = sm.code /\ sm'.control = sm.control
          /\ sm'.porta = sm.porta /\ sm'.sel = sm.sel /\ sm'.mixer = sm.mixer
      BY <1>1, <2>7 DEF ChipStates
    <3> QED BY <1>1, <3>1, OffTheBus DEF Sane
  <2>5. CASE sm' = [sm EXCEPT !.adjust = (@ + 1) % 3]
    <3> DEFINE k == (sm.adjust + 1) % 3
    <3>1. k \in 0..2 /\ sm' = [sm EXCEPT !.adjust = k]
      BY <1>1, <2>5 DEF ChipStates
    <3> HIDE DEF k
    <3>2. /\ sm' \in ChipStates /\ sm'.prev = sm.prev /\ sm'.code = sm.code /\ sm'.control = sm.control
          /\ sm'.porta = sm.porta /\ sm'.sel = sm.sel /\ sm'.mixer = sm.mixer
      BY <1>1, <3>1 DEF ChipStates
    <3> QED BY <1>1, <3>2, OffTheBus DEF Sane
  <2>8. CASE \/ sm' = psg_bus(ppi_ports(sm, 13, "select")) \/ sm' = psg_bus(ppi_ports(sm, 7, "select"))
             \/ sm' = psg_bus(ppi_ports(sm, 7, "write")) \/ sm' = psg_bus(ppi_ports(sm, 7, "idle"))
    <3>1. 13 \in 0..15 /\ 7 \in 0..15
      OBVIOUS
    <3> QED BY <1>2, <2>8, <3>1
  <2> QED BY <1>3, <2>1, <2>2, <2>3, <2>4, <2>5, <2>6, <2>7, <2>8 DEF GuestStep
<1>5. /\ DOMAIN goal' = DOMAIN goal /\ goal'.saved = goal.saved /\ goal'.answer = "none" /\ sna' = sna
  BY DEF GuestStep, SnapInv
<1> QED BY <1>4, <1>5 DEF SnapInv, SnapshotRestores

(* However its writes disturb one another, a load puts back what was saved. *)
LEMMA LoadRestores ==
  ASSUME NEW m, Sane(m)
  PROVE  LET r == Restored(t_SNA_header(m)) IN Sane(r) /\ Same(r, m)
<1> DEFINE h == t_SNA_header(m)
           r == Restored(h)
<1>1. m \in ChipStates
  BY DEF Sane
<1>2. /\ r.cpu = m.cpu /\ r.halted = FALSE /\ r.rearm = m.rearm /\ r.count = m.count
      /\ r.irq = m.irq /\ r.control = m.control /\ r.porta = m.porta /\ r.code = m.code
      /\ r.prev = <<"idle", 0>> /\ r.sel = m.sel /\ r.shape = m.shape /\ r.mixer = m.mixer
      /\ r.level = 2 * (m.level \div 2) /\ r.dir = m.dir /\ r.ram = m.ram /\ r.ext = 0
      /\ r.adjust \in {0, 1} /\ DOMAIN r = DOMAIN PowerOn /\ r = [f \in DOMAIN r |-> r[f]]
  <2> DEFINE m1 == [PowerOn EXCEPT !.ram = h.ram]
             m2 == [m1 EXCEPT !.cpu = h.cpu, !.halted = FALSE]
             m3 == ga_rom_config(m2, h.rearm)
             m4 == ppi_control(m3, h.control)
             m5 == ppi_ports(m4, h.porta, h.code)
             m6 == psg_poke(m5, h)
             m7 == psg_poke_env(m6, h)
             m8 == ga_poke_counters(m7, h)
             m9 == crtc_restore_v3(m8, h)
  <2>1. h.version = 3 /\ r = IF h.version > 2 THEN m9 ELSE m6
    BY DEF Restored, t_SNA_header
  <2>2. /\ h.cpu = m.cpu /\ h.rearm = m.rearm /\ h.count = m.count /\ h.irq = m.irq
        /\ h.control = m.control /\ h.porta = m.porta /\ h.code = m.code
        /\ h.sel = m.sel /\ h.shape = m.shape /\ h.mixer = m.mixer /\ h.half = m.level \div 2
        /\ h.dir = m.dir /\ h.ram = m.ram /\ h.rearm \in BOOLEAN
    BY <1>1 DEF t_SNA_header, ChipStates
  <2> HIDE DEF h, r
  <2>3. /\ DOMAIN m1 = DOMAIN PowerOn
        /\ m1.cpu = 0 /\ m1.halted = FALSE /\ m1.rearm = FALSE /\ m1.count = 0 /\ m1.irq = FALSE
        /\ m1.control = "in" /\ m1.porta = 0 /\ m1.code = "idle" /\ m1.prev = <<"idle", 0>>
        /\ m1.sel = 7 /\ m1.shape = 0 /\ m1.mixer = 0 /\ m1.level = EnvTop
        /\ m1.dir = "down" /\ m1.ram = h.ram /\ m1.ext = 0 /\ m1.adjust = 0
    BY <2>2 DEF PowerOn
  <2> HIDE DEF m1
  <2>4. /\ DOMAIN m2 = DOMAIN PowerOn
        /\ m2.cpu = h.cpu /\ m2.halted = FALSE /\ m2.rearm = FALSE /\ m2.count = 0 /\ m2.irq = FALSE
        /\ m2.control = "in" /\ m2.porta = 0 /\ m2.code = "idle" /\ m2.prev = <<"idle", 0>>
        /\ m2.sel = 7 /\ m2.shape = 0 /\ m2.mixer = 0 /\ m2.level = EnvTop
        /\ m2.dir = "down" /\ m2.ram = h.ram /\ m2.ext = 0 /\ m2.adjust = 0
    BY <2>2, <2>3 DEF PowerOn
  <2> HIDE DEF m2
  <2>5. /\ DOMAIN m3 = DOMAIN PowerOn
        /\ m3.cpu = h.cpu /\ m3.halted = FALSE /\ m3.rearm = h.rearm /\ m3.count = 0 /\ m3.irq = FALSE
        /\ m3.control = "in" /\ m3.porta = 0 /\ m3.code = "idle" /\ m3.prev = <<"idle", 0>>
        /\ m3.sel = 7 /\ m3.shape = 0 /\ m3.mixer = 0 /\ m3.level = EnvTop
        /\ m3.dir = "down" /\ m3.ram = h.ram /\ m3.ext = 0 /\ m3.adjust = 0
    BY <2>2, <2>4 DEF ga_rom_config, PowerOn
  <2> HIDE DEF m3
  <2>6. /\ DOMAIN m4 = DOMAIN PowerOn
        /\ m4.cpu = h.cpu /\ m4.halted = FALSE /\ m4.rearm = h.rearm /\ m4.count = 0 /\ m4.irq = FALSE
        /\ m4.control = h.control /\ m4.porta = 0 /\ m4.code = "idle" /\ m4.prev = <<"idle", 0>>
        /\ m4.sel = 7 /\ m4.shape = 0 /\ m4.mixer = 0 /\ m4.level = EnvTop
        /\ m4.dir = "down" /\ m4.ram = h.ram /\ m4.ext = 0 /\ m4.adjust = 0
    BY <2>2, <2>5 DEF ppi_control, PowerOn
  <2> HIDE DEF m4
  <2>7. /\ DOMAIN m5 = DOMAIN PowerOn
        /\ m5.cpu = h.cpu /\ m5.halted = FALSE /\ m5.rearm = h.rearm /\ m5.count = 0 /\ m5.irq = FALSE
        /\ m5.control = h.control /\ m5.porta = h.porta /\ m5.code = h.code /\ m5.prev = <<"idle", 0>>
        /\ m5.sel = 7 /\ m5.shape = 0 /\ m5.mixer = 0 /\ m5.level = EnvTop
        /\ m5.dir = "down" /\ m5.ram = h.ram /\ m5.ext = 0 /\ m5.adjust = 0
    BY <2>2, <2>6 DEF ppi_ports, PowerOn
  <2> HIDE DEF m5
  <2>8. /\ DOMAIN m6 = DOMAIN PowerOn
        /\ m6.cpu = h.cpu /\ m6.halted = FALSE /\ m6.rearm = h.rearm /\ m6.count = 0 /\ m6.irq = FALSE
        /\ m6.control = h.control /\ m6.porta = h.porta /\ m6.code = h.code /\ m6.prev = <<"idle", 0>>
        /\ m6.sel = h.sel /\ m6.shape = h.shape /\ m6.mixer = h.mixer /\ m6.level = EnvTop
        /\ m6.dir = "down" /\ m6.ram = h.ram /\ m6.ext = 0 /\ m6.adjust = 0
    BY <2>2, <2>7 DEF psg_poke, PowerOn
  <2> HIDE DEF m6
  <2>9. /\ DOMAIN m7 = DOMAIN PowerOn
        /\ m7.cpu = h.cpu /\ m7.halted = FALSE /\ m7.rearm = h.rearm /\ m7.count = 0 /\ m7.irq = FALSE
        /\ m7.control = h.control /\ m7.porta = h.porta /\ m7.code = h.code /\ m7.prev = <<"idle", 0>>
        /\ m7.sel = h.sel /\ m7.shape = h.shape /\ m7.mixer = h.mixer /\ m7.level = 2 * h.half
        /\ m7.dir = h.dir /\ m7.ram = h.ram /\ m7.ext = 0 /\ m7.adjust = 0
    BY <2>2, <2>8 DEF psg_poke_env, PowerOn
  <2> HIDE DEF m7
  <2>10. /\ DOMAIN m8 = DOMAIN PowerOn
        /\ m8.cpu = h.cpu /\ m8.halted = FALSE /\ m8.rearm = h.rearm /\ m8.count = h.count /\ m8.irq = h.irq
        /\ m8.control = h.control /\ m8.porta = h.porta /\ m8.code = h.code /\ m8.prev = <<"idle", 0>>
        /\ m8.sel = h.sel /\ m8.shape = h.shape /\ m8.mixer = h.mixer /\ m8.level = 2 * h.half
        /\ m8.dir = h.dir /\ m8.ram = h.ram /\ m8.ext = 0 /\ m8.adjust = 0
    BY <2>2, <2>9 DEF ga_poke_counters, PowerOn
  <2> HIDE DEF m8
  <2>11. /\ DOMAIN m9 = DOMAIN PowerOn
        /\ m9.cpu = h.cpu /\ m9.halted = FALSE /\ m9.rearm = h.rearm /\ m9.count = h.count /\ m9.irq = h.irq
        /\ m9.control = h.control /\ m9.porta = h.porta /\ m9.code = h.code /\ m9.prev = <<"idle", 0>>
        /\ m9.sel = h.sel /\ m9.shape = h.shape /\ m9.mixer = h.mixer /\ m9.level = 2 * h.half
        /\ m9.dir = h.dir /\ m9.ram = h.ram /\ m9.ext = 0 /\ m9.adjust = (IF h.adjusting THEN 1 ELSE 0)
    BY <2>2, <2>10 DEF crtc_restore_v3, PowerOn
  <2>12. m9 = [f \in DOMAIN m9 |-> m9[f]]
    BY DEF crtc_restore_v3
  <2> HIDE DEF m9
  <2> QED BY <2>1, <2>2, <2>11, <2>12
<1> HIDE DEF r
<1>3. m.level \in Nat /\ m.level <= EnvTop /\ EnvTop \in Nat
  BY <1>1, SlotsAssumption DEF ChipStates
<1>4. 2 * (m.level \div 2) \in 0..EnvTop /\ (2 * (m.level \div 2)) \div 2 = m.level \div 2
  BY <1>3
<1> DEFINE l == 2 * (m.level \div 2)
<1>5. /\ l \in 0..EnvTop /\ l \div 2 = m.level \div 2 /\ r.level = l
  BY <1>2, <1>4
<1> HIDE DEF l
<1>6. /\ r.cpu = m.cpu /\ r.rearm = m.rearm /\ r.count = m.count /\ r.irq = m.irq
      /\ r.control = m.control /\ r.porta = m.porta /\ r.code = m.code
      /\ r.sel = m.sel /\ r.shape = m.shape /\ r.mixer = m.mixer
      /\ r.dir = m.dir /\ r.ram = m.ram /\ r.prev = <<"idle", 0>>
  BY <1>2
<1>7. r \in ChipStates
  <2>1. DOMAIN r = {"cpu", "halted", "rearm", "count", "irq", "control", "porta", "code", "prev",
                    "sel", "shape", "mixer", "level", "dir", "ram", "ext", "adjust"}
    <3>1. DOMAIN PowerOn = {"cpu", "halted", "rearm", "count", "irq", "control", "porta", "code", "prev",
                            "sel", "shape", "mixer", "level", "dir", "ram", "ext", "adjust"}
      BY DEF PowerOn
    <3> QED BY <1>2, <3>1
  <2>2. r.halted \in BOOLEAN /\ r.ext \in {0, 1} /\ r.adjust \in 0..2
    <3>1. r.halted = FALSE
      BY <1>2
    <3>2. r.halted \in BOOLEAN
      BY <3>1
    <3> QED BY <1>2, <3>2
  <2>3. r.prev \in {"idle", "select", "write"} \X (0..15)
    BY <1>2
  <2> QED BY <1>1, <1>2, <1>5, <2>1, <2>2, <2>3 DEF ChipStates, l
<1>8. Settled(r)
  BY <1>6 DEF Settled, Sane, AyLines
<1>9. Sane(r) /\ Same(r, m)
  BY <1>1, <1>5, <1>6, <1>7, <1>8, SameFields DEF Sane
<1> QED BY <1>9 DEF r

(* The first cycle after a load changes nothing, unless it gives the AY an *)
(* envelope shape.                                                         *)
LEMMA FirstCycleSame ==
  ASSUME NEW m, Sane(m), NEW was \in ChipStates, Same(m, was), ~(was.code = "write" /\ was.sel = 13)
  PROVE  Same(psg_bus(m), was)
<1>1. m \in ChipStates
  BY DEF Sane
<1>2. m.code = was.code /\ m.sel = was.sel
  BY <1>1, SameFields
<1>3. CASE AyLines(m) = m.prev
  BY <1>3 DEF psg_bus
<1>4. CASE AyLines(m) # m.prev
  <2> DEFINE d == AyLines(m)[2]
             n == [m EXCEPT !.prev = AyLines(m)]
  <2>1. psg_apply(m, d) = m
    <3>1. CASE m.code = "select"
      <4>1. psg_apply(m, d) = [m EXCEPT !.sel = d] /\ m.sel = d
        BY <3>1 DEF psg_apply, Sane, Settled
      <4> HIDE DEF d
      <4> QED BY <1>1, <4>1 DEF ChipStates
    <3>2. CASE m.code = "write" /\ m.sel = 7
      <4>1. psg_apply(m, d) = [m EXCEPT !.mixer = d] /\ m.mixer = d
        BY <3>2 DEF psg_apply, Sane, Settled
      <4> HIDE DEF d
      <4> QED BY <1>1, <4>1 DEF ChipStates
    <3>3. CASE m.code \notin {"select", "write"} \/ (m.code = "write" /\ m.sel # 7)
      BY <1>2, <3>3 DEF psg_apply
    <3> QED BY <3>1, <3>2, <3>3
  <2>2. psg_bus(m) = n
    BY <1>4, <2>1 DEF psg_bus
  <2>3. AyLines(m) \in {"idle", "select", "write"} \X (0..15)
    BY <1>1, LinesTyped
  <2>4. /\ n \in ChipStates
        /\ n.cpu = m.cpu /\ n.rearm = m.rearm /\ n.count = m.count /\ n.irq = m.irq
        /\ n.control = m.control /\ n.porta = m.porta /\ n.code = m.code
        /\ n.sel = m.sel /\ n.shape = m.shape /\ n.mixer = m.mixer
        /\ n.dir = m.dir /\ n.ram = m.ram /\ n.level = m.level
    BY <1>1, <2>3 DEF ChipStates
  <2> HIDE DEF n
  <2>5. Same(n, was)
    BY <1>1, <2>4, SameFields
  <2> QED BY <2>2, <2>5
<1> QED BY <1>3, <1>4

(* Saving and loading at any time keep the promise.                        *)
LEMMA NextKeepsSnap ==
  ASSUME SnapInv, SnapNext PROVE SnapInv' /\ UNCHANGED <<argv, dsk>>
<1>1. /\ DOMAIN sna = {"kind", "head"} /\ DOMAIN goal = {"saved", "before", "answer", "time"}
      /\ Sane(sm) /\ Sane(goal.saved) /\ sna.head = t_SNA_header(goal.saved)
      /\ sm \in ChipStates /\ goal.saved \in ChipStates
  BY DEF SnapInv, Sane
<1>2. CASE GuestStep
  BY <1>2, GuestSettles DEF GuestStep
<1>3. CASE snapshot_save_machine
  <2>1. CASE sna' = [kind |-> "whole", head |-> t_SNA_header(sm)] /\ goal' = [goal EXCEPT !.saved = sm]
    <3>1. /\ sna'.head = t_SNA_header(sm) /\ DOMAIN sna' = DOMAIN sna
          /\ DOMAIN goal' = DOMAIN goal /\ goal'.saved = sm /\ goal'.answer = goal.answer
          /\ goal'.before = goal.before /\ sm' = sm
      BY <1>1, <1>3, <2>1 DEF snapshot_save_machine
    <3>2. Same(sm, sm)
      BY <1>1, SameFields
    <3> QED BY <1>1, <1>3, <3>1, <3>2 DEF SnapInv, SnapshotRestores, snapshot_save_machine
  <2>2. CASE sna' = [kind |-> "torn", head |-> t_SNA_header(PowerOn)] /\ goal' = [goal EXCEPT !.saved = PowerOn]
    <3>1. /\ sna'.head = t_SNA_header(PowerOn) /\ DOMAIN sna' = DOMAIN sna /\ sna'.kind # "whole"
          /\ DOMAIN goal' = DOMAIN goal /\ goal'.saved = PowerOn /\ goal'.answer = goal.answer
          /\ goal'.before = goal.before /\ sm' = sm
      BY <1>1, <1>3, <2>2 DEF snapshot_save_machine
    <3>2. Sane(PowerOn)
      BY SlotsAssumption DEF PowerOn, Sane, ChipStates, Settled
    <3> QED BY <1>1, <1>3, <3>1, <3>2 DEF SnapInv, SnapshotRestores, snapshot_save_machine
  <2>3. CASE UNCHANGED <<sna, goal>>
    BY <1>3, <2>3 DEF SnapInv, SnapshotRestores, snapshot_save_machine
  <2> QED BY <1>3, <2>1, <2>2, <2>3 DEF snapshot_save_machine
<1>4. CASE snapshot_load_machine
  <2>1. CASE sna.kind = "torn"
    <3>1. /\ sm' = sm /\ DOMAIN goal' = DOMAIN goal /\ goal'.saved = goal.saved
          /\ goal'.answer = "failed" /\ goal'.before = sm /\ sna' = sna
      BY <1>1, <1>4, <2>1 DEF snapshot_load_machine, Torn
    <3> QED BY <1>1, <1>4, <3>1 DEF SnapInv, SnapshotRestores, snapshot_load_machine
  <2>2. CASE sna.kind # "torn"
    <3>1. /\ sm' = Restored(t_SNA_header(goal.saved)) /\ DOMAIN goal' = DOMAIN goal
          /\ goal'.saved = goal.saved /\ goal'.answer = "loaded" /\ sna' = sna
      BY <1>1, <1>4, <2>2 DEF snapshot_load_machine
    <3>2. Sane(sm') /\ Same(sm', goal.saved)
      BY <1>1, <3>1, LoadRestores
    <3> QED BY <1>1, <1>4, <3>1, <3>2 DEF SnapInv, SnapshotRestores, snapshot_load_machine
  <2> QED BY <2>1, <2>2
<1>5. CASE FirstCycle
  <2>1. /\ sm' = psg_bus(sm) /\ DOMAIN goal' = DOMAIN goal /\ goal'.saved = goal.saved
        /\ goal'.answer = "runs" /\ sna' = sna /\ goal.answer = "loaded"
    BY <1>1, <1>5 DEF FirstCycle
  <2>2. Sane(sm')
    BY <1>1, <2>1, BusSettles DEF Sane
  <2>3. sna.kind = "whole" /\ ~(goal.saved.code = "write" /\ goal.saved.sel = 13) => Same(sm', goal.saved)
    BY <1>1, <2>1, FirstCycleSame DEF SnapInv, SnapshotRestores
  <2> QED BY <1>1, <1>5, <2>1, <2>2, <2>3 DEF SnapInv, SnapshotRestores, FirstCycle
<1> QED BY <1>2, <1>3, <1>4, <1>5 DEF SnapNext

(* At the start there is no file and nothing has been loaded.              *)
LEMMA SnapStarts == ASSUME SlotsInit PROVE SnapInv
<1>1. Sane(PowerOn)
  BY SlotsAssumption DEF PowerOn, Sane, ChipStates, Settled
<1>2. /\ sm = PowerOn /\ sna = [kind |-> "none", head |-> t_SNA_header(PowerOn)]
      /\ goal = [saved |-> PowerOn, before |-> PowerOn, answer |-> "none", time |-> 0]
  BY DEF SlotsInit
<1> QED BY <1>1, <1>2 DEF SnapInv, SnapshotRestores

-----------------------------------------------------------------------------
(* The slots before and after they are filled.                             *)
ArgvInv ==
  /\ {"files", "slots"} \subseteq DOMAIN argv /\ Len(argv.files) \in Nat
  /\ \/ argv.slots = [s \in SlotNames |-> 0]
     \/ FilledBy(argv.slots, argv.files, Len(argv.files))

(* Nothing but the filling touches the slots.                              *)
LEMMA NextKeepsArgv ==
  ASSUME ArgvInv, FileNext PROVE ArgvInv' /\ UNCHANGED <<sm, sna, goal>>
<1>1. CASE FillSlots
  <2>1. /\ DOMAIN argv' = DOMAIN argv /\ argv'.files = argv.files /\ argv'.slots = fillSlots(argv.files)
    BY <1>1 DEF FillSlots, ArgvInv
  <2>2. FilledBy(fillSlots(argv.files), argv.files, Len(argv.files))
    BY FillingFills DEF ArgvInv
  <2> QED BY <1>1, <2>1, <2>2 DEF ArgvInv, FillSlots
<1>2. CASE DskRoundTrip \/ FormatsReload
  BY <1>2 DEF DskRoundTrip, FormatsReload, ArgvInv
<1> QED BY <1>1, <1>2 DEF FileNext

(* What the run checks of the slots follows.                               *)
LEMMA ArgvIsRight == ASSUME ArgvInv PROVE SlotsFilled
<1> DEFINE got == argv.slots
           m == Len(argv.files)
<1>1. CASE got = [s \in SlotNames |-> 0]
  <2>1. \A s \in SlotNames : got[s] = 0
    BY <1>1
  <2> QED BY <2>1 DEF SlotsFilled, SlotNames
<1>2. CASE FilledBy(got, argv.files, m)
  <2> SUFFICES ASSUME NEW s \in SlotNames, NEW t \in SlotNames, got[s] # 0
               PROVE  /\ KindOf(argv.files[got[s]]) \in drive_extensions(s)
                      /\ s # t => got[s] # got[t]
                      /\ \A i \in 1..(got[s] - 1) : KindOf(argv.files[i]) \in drive_extensions(s)
                           => \E u \in SlotNames : got[u] = i
    BY DEF SlotsFilled, SlotNames
  <2> HIDE DEF got
  <2>1. got[s] \in 0..m /\ m \in Nat
    BY <1>2 DEF FilledBy, ArgvInv
  <2>2. \A i \in 1..(got[s] - 1) : i \in 1..m /\ i <= got[s]
    BY <2>1
  <2> HIDE DEF m
  <2> QED BY <1>2, <2>2 DEF FilledBy
<1> QED BY <1>1, <1>2 DEF ArgvInv

(* No file has been taken at the start.                                    *)
LEMMA ArgvStarts == ASSUME SlotsInit PROVE ArgvInv
<1>1. argv \in [files : Args, slots : {[s \in SlotNames |-> 0]}]
  BY DEF SlotsInit, SlotNames
<1>2. argv.files \in Args /\ argv.slots = [s \in SlotNames |-> 0] /\ {"files", "slots"} \subseteq DOMAIN argv
  BY <1>1
<1> QED BY <1>2, SlotsAssumption DEF ArgvInv

(* Snapshots and slots together.                                           *)
LEMMA NextKeepsSlots ==
  ASSUME SnapInv, ArgvInv, [SnapNext \/ FileNext]_slotVars PROVE SnapInv' /\ ArgvInv'
<1>1. CASE SnapNext
  <2>1. SnapInv' /\ UNCHANGED argv
    BY <1>1, NextKeepsSnap
  <2> QED BY <2>1 DEF ArgvInv
<1>2. CASE FileNext
  <2>1. ArgvInv' /\ UNCHANGED <<sm, sna, goal>>
    BY <1>2, NextKeepsArgv
  <2> QED BY <2>1 DEF SnapInv, SnapshotRestores
<1>3. CASE UNCHANGED slotVars
  BY <1>3 DEF slotVars, SnapInv, SnapshotRestores, ArgvInv
<1> QED BY <1>1, <1>2, <1>3

-----------------------------------------------------------------------------
(* The recorders.  While one is on, what will be in the file is what was   *)
(* made; the AVI file has its headers where the index counts from.         *)
Kinds_ == {"RIFF", "hdrl", "avih", "vstrl", "astrl", "movi", "idx1", "video", "audio"}
Cells_ == Kinds_ \X Nat
Entries == Kinds_ \X Nat \X Nat

WavInv ==
  /\ {"on", "bytes", "data", "size", "error"} = DOMAIN wav
  /\ wav.on \in BOOLEAN /\ wav.error \in BOOLEAN
  /\ wav.data \in Seq(Nat) /\ made.wav \in Seq(Nat)
  /\ IF wav.on THEN wav.bytes = Len(wav.data) ELSE wav.size = Len(wav.data)
  /\ ~wav.error => wav.data = made.wav

YmInv ==
  /\ {"on", "frames", "file", "count", "error"} = DOMAIN ym
  /\ ym.on \in BOOLEAN /\ ym.error \in BOOLEAN
  /\ ym.frames \in Seq(Nat) /\ made.ym \in Seq(Nat)
  /\ IF ym.on THEN ym.frames = made.ym ELSE ~ym.error => ym.file = made.ym

\* The headers are six cells, the chunks follow them.
HeadersStand(s) ==
  /\ s.cells \in Seq(Cells_) /\ Len(s.cells) >= 6 /\ s.pos = Len(s.cells) + 1 /\ s.movi = 6
  /\ s.cells[2] = <<"hdrl", 3>> /\ s.cells[3] = <<"avih", 0>> /\ s.cells[4] = <<"vstrl", 0>>
  /\ s.cells[5] = <<"astrl", 0>> /\ s.cells[6] = <<"movi", 0>>
  /\ s.idx \in Seq(Entries)
  /\ \A i \in 1..Len(s.idx) :
       /\ s.idx[i][3] \in 1..(Len(s.cells) - 6)
       /\ s.cells[6 + s.idx[i][3]] = <<s.idx[i][1], s.idx[i][2]>>

AviInv ==
  /\ {"on", "cells", "pos", "movi", "frames", "idx", "dims", "again"} = DOMAIN avi
  /\ avi.on \in BOOLEAN /\ avi.again \in BOOLEAN /\ made.avi \in Seq(Nat)
  /\ IF avi.on THEN ~avi.again => HeadersStand(avi) /\ Len(avi.idx) = Len(made.avi)
     ELSE avi.cells # <<>> /\ ~avi.again => AviReads(avi) /\ Len(avi.idx) = Len(made.avi)

RecInv == {"wav", "ym", "avi"} = DOMAIN made /\ WavInv /\ YmInv /\ AviInv

(* The WAV recorder: the header counts the blocks, a lost block is flagged. *)
LEMMA WavKeeps ==
  ASSUME {"wav", "ym", "avi"} = DOMAIN made, WavInv
  PROVE  /\ wav_start => WavInv'
         /\ write_samples => WavInv'
         /\ wav.on /\ wav_closed /\ UNCHANGED made => WavInv'
<1>1. ASSUME wav_start PROVE WavInv'
  <2>1. /\ DOMAIN wav' = {"on", "bytes", "data", "size", "error"} /\ wav'.on = TRUE
        /\ wav'.bytes = 0 /\ wav'.data = <<>> /\ wav'.error = FALSE /\ made'.wav = <<>>
    BY <1>1 DEF wav_start
  <2>2. wav'.on \in BOOLEAN /\ wav'.error \in BOOLEAN /\ wav'.on
    BY <2>1
  <2> QED BY <2>1, <2>2 DEF WavInv
<1>2. ASSUME write_samples PROVE WavInv'
  <2> DEFINE n == Len(made.wav) + 1
             d == Append(wav.data, n)
             e == Append(made.wav, n)
  <2>1. n \in Nat /\ d \in Seq(Nat) /\ Len(d) = Len(wav.data) + 1 /\ e \in Seq(Nat)
    BY DEF WavInv
  <2>2. made'.wav = e
    BY <1>2 DEF write_samples
  <2>3. CASE wav' = [wav EXCEPT !.data = d, !.bytes = @ + 1]
    <3>1. /\ DOMAIN wav' = DOMAIN wav /\ wav'.on = wav.on /\ wav'.error = wav.error
          /\ wav'.data = d /\ wav'.bytes = wav.bytes + 1
      BY <2>3 DEF WavInv
    <3>2. wav.on
      BY <1>2 DEF write_samples
    <3>3. ~wav.error => d = e
      BY DEF WavInv
    <3> HIDE DEF d, e
    <3> QED BY <2>1, <2>2, <3>1, <3>2, <3>3 DEF WavInv
  <2>4. CASE wav' = [wav EXCEPT !.error = TRUE]
    <3>1. /\ DOMAIN wav' = DOMAIN wav /\ wav'.on = wav.on /\ wav'.error = TRUE
          /\ wav'.data = wav.data /\ wav'.bytes = wav.bytes
      BY <2>4 DEF WavInv
    <3>2. wav.on
      BY <1>2 DEF write_samples
    <3>3. wav'.error \in BOOLEAN /\ wav'.error
      BY <3>1
    <3> HIDE DEF d, e
    <3> QED BY <2>1, <2>2, <3>1, <3>2, <3>3 DEF WavInv
  <2> QED BY <1>2, <2>3, <2>4 DEF write_samples
<1>3. ASSUME wav.on, wav_closed, UNCHANGED made PROVE WavInv'
  <2>1. /\ DOMAIN wav' = DOMAIN wav /\ wav'.on = FALSE /\ wav'.error = wav.error
        /\ wav'.data = wav.data /\ wav'.size = wav.bytes
    BY <1>3 DEF wav_closed, WavInv
  <2>2. wav'.on \in BOOLEAN /\ ~wav'.on
    BY <2>1
  <2> QED BY <1>3, <2>1, <2>2 DEF WavInv
<1> QED BY <1>1, <1>2, <1>3

(* The YM recorder: the file is the frames, or a part of them and flagged. *)
LEMMA YmKeeps ==
  ASSUME {"wav", "ym", "avi"} = DOMAIN made, YmInv
  PROVE  /\ ym_start => YmInv'
         /\ capture_frame => YmInv'
         /\ ym.on /\ ym_closed /\ UNCHANGED made => YmInv'
<1>1. ASSUME ym_start PROVE YmInv'
  <2>1. /\ DOMAIN ym' = {"on", "frames", "file", "count", "error"} /\ ym'.on = TRUE
        /\ ym'.frames = <<>> /\ ym'.error = FALSE /\ made'.ym = <<>>
    BY <1>1 DEF ym_start
  <2>2. ym'.on \in BOOLEAN /\ ym'.error \in BOOLEAN /\ ym'.on
    BY <2>1
  <2> QED BY <2>1, <2>2 DEF YmInv
<1>2. ASSUME capture_frame PROVE YmInv'
  <2> DEFINE n == Len(made.ym) + 1
             d == Append(ym.frames, n)
             e == Append(made.ym, n)
  <2>1. d = e /\ e \in Seq(Nat)
    BY <1>2 DEF capture_frame, YmInv
  <2>2. made'.ym = e
    BY <1>2 DEF capture_frame
  <2>3. ym' = [ym EXCEPT !.frames = d] /\ ym.on
    BY <1>2 DEF capture_frame
  <2> HIDE DEF d, e
  <2>4. DOMAIN ym' = DOMAIN ym /\ ym'.on = ym.on /\ ym'.error = ym.error /\ ym'.frames = d
    BY <2>3 DEF YmInv
  <2> QED BY <2>1, <2>2, <2>3, <2>4 DEF YmInv
<1>3. ASSUME ym.on, ym_closed, UNCHANGED made PROVE YmInv'
  <2>1. CASE ym' = [ym EXCEPT !.on = FALSE, !.frames = <<>>, !.file = ym.frames, !.count = Len(ym.frames)]
    <3>1. /\ DOMAIN ym' = DOMAIN ym /\ ym'.on = FALSE /\ ym'.error = ym.error /\ ym'.frames = <<>>
          /\ ym'.file = ym.frames
      BY <2>1 DEF YmInv
    <3>2. ym'.on \in BOOLEAN /\ ~ym'.on
      BY <3>1
    <3> QED BY <1>3, <3>1, <3>2 DEF YmInv
  <2>2. CASE \E n \in 0..Len(ym.frames) :
               ym' = [ym EXCEPT !.on = FALSE, !.frames = <<>>, !.file = SubSeq(ym.frames, 1, n),
                                !.count = Len(ym.frames), !.error = TRUE]
    <3>1. DOMAIN ym' = DOMAIN ym /\ ym'.on = FALSE /\ ym'.error = TRUE /\ ym'.frames = <<>>
      BY <2>2 DEF YmInv
    <3>2. ym'.on \in BOOLEAN /\ ~ym'.on /\ ym'.error \in BOOLEAN /\ ym'.error
      BY <3>1
    <3> QED BY <1>3, <3>1, <3>2 DEF YmInv
  <2> QED BY <1>3, <2>1, <2>2 DEF ym_closed
<1> QED BY <1>1, <1>2, <1>3

AviFields == {"on", "cells", "pos", "movi", "frames", "idx", "dims", "again"}
Fresh(s) == s.idx = <<>> /\ s.on = TRUE /\ s.again = FALSE /\ DOMAIN s = AviFields

\* A write at the end of the file appends its cell and moves the position by one.
LEMMA PutAppends ==
  ASSUME NEW s, DOMAIN s = AviFields, Len(s.cells) \in Nat, s.pos = Len(s.cells) + 1, NEW cell
  PROVE  /\ Put(s, cell).cells = Append(s.cells, cell) /\ Put(s, cell).pos = s.pos + 1
         /\ DOMAIN Put(s, cell) = AviFields
         /\ Put(s, cell).on = s.on /\ Put(s, cell).again = s.again /\ Put(s, cell).idx = s.idx
         /\ Put(s, cell).movi = s.movi
<1> DEFINE d == Append(s.cells, cell)
<1>1. ~(s.pos <= Len(s.cells))
  OBVIOUS
<1>2. Put(s, cell) = [s EXCEPT !.cells = d, !.pos = s.pos + 1]
  BY <1>1, Zenon DEF Put
<1> HIDE DEF d
<1> DEFINE t == Put(s, cell)
<1>4. /\ t.cells = d /\ t.pos = s.pos + 1 /\ DOMAIN t = AviFields /\ t.on = s.on /\ t.again = s.again
      /\ t.idx = s.idx /\ t.movi = s.movi
  BY <1>2 DEF AviFields
<1> QED BY <1>4 DEF d

\* A file of k cells being written, the position at its end.
AtEnd(s, k) == Fresh(s) /\ s.cells \in Seq(Cells_) /\ Len(s.cells) = k /\ s.pos = k + 1

\* A header cell written at the end lands there and leaves the earlier ones alone.
LEMMA HeaderPut ==
  ASSUME NEW s, NEW k \in Nat, AtEnd(s, k), NEW cell \in Cells_
  PROVE  /\ AtEnd(Put(s, cell), k + 1) /\ Put(s, cell).cells[k + 1] = cell
         /\ \A i \in 1..k : Put(s, cell).cells[i] = s.cells[i]
<1>1. DOMAIN s = AviFields /\ Len(s.cells) \in Nat /\ s.pos = Len(s.cells) + 1
  BY DEF AtEnd, Fresh
<1> DEFINE t == Put(s, cell)
<1>2. /\ t.cells = Append(s.cells, cell) /\ t.pos = s.pos + 1 /\ DOMAIN t = AviFields
      /\ t.on = s.on /\ t.again = s.again /\ t.idx = s.idx
  BY <1>1, PutAppends, Zenon
<1> HIDE DEF t
<1>3. Fresh(t)
  BY <1>2 DEF AtEnd, Fresh
<1>4. /\ t.cells \in Seq(Cells_) /\ Len(t.cells) = k + 1 /\ t.cells[k + 1] = cell
      /\ \A i \in 1..k : t.cells[i] = s.cells[i]
  BY <1>2, AppendProperties DEF AtEnd
<1>5. t.pos = (k + 1) + 1
  BY <1>2 DEF AtEnd
<1> QED BY <1>3, <1>4, <1>5 DEF t, AtEnd

\* Seeking to the end of a fresh file leaves the next write to append.
LEMMA SeeksEnd ==
  ASSUME NEW s, NEW k \in Nat, Fresh(s), s.cells \in Seq(Cells_), Len(s.cells) = k
  PROVE  AtEnd(SeekEnd(s), k) /\ SeekEnd(s).cells = s.cells
BY DEF SeekEnd, AviFields, Fresh, AtEnd

(* The headers are written where a reader looks for them.                  *)
LEMMA HeadersWritten ==
  LET w == write_headers([NoAvi EXCEPT !.on = TRUE])
  IN  HeadersStand(w) /\ w.idx = <<>> /\ w.on = TRUE /\ w.again = FALSE /\ DOMAIN w = AviFields
<1> DEFINE s0 == [NoAvi EXCEPT !.on = TRUE]
           c1 == <<"RIFF", 0>>
           c2 == <<"hdrl", 0>>
           c3 == <<"avih", 0>>
           c4 == <<"vstrl", 0>>
           c5 == <<"astrl", 0>>
           c6 == <<"movi", 0>>
           s1 == Put(s0, c1)
           s2 == Put(s1, c2)
           s3 == Put(s2, c3)
           s4 == Put(s3, c4)
           v == SeekEnd(s4)
           s5 == Put(v, c5)
           a == SeekEnd(s5)
           p == Patch(a, 2, a.pos - 3)
           h == SeekEnd(p)
           m == Put(h, c6)
           w == [m EXCEPT !.movi = h.pos]
<1>1. write_headers(s0) = w
  BY Zenon DEF write_headers
<1>2. Fresh(s0) /\ s0.cells = <<>> /\ s0.pos = 1
  BY DEF NoAvi, Fresh, AviFields
<1>3. c1 \in Cells_ /\ c2 \in Cells_ /\ c3 \in Cells_ /\ c4 \in Cells_ /\ c5 \in Cells_ /\ c6 \in Cells_
  BY DEF Cells_, Kinds_
<1>4. c2[1] = "hdrl"
  OBVIOUS
<1> HIDE DEF s0, c1, c2, c3, c4, c5, c6
<1>5. AtEnd(s0, 0)
  BY <1>2 DEF AtEnd
<1>6. AtEnd(s1, 1)
  BY <1>3, <1>5, HeaderPut
<1> HIDE DEF s1
<1>7. AtEnd(s2, 2) /\ s2.cells[2] = c2
  BY <1>3, <1>6, HeaderPut
<1> HIDE DEF s2
<1>8. AtEnd(s3, 3) /\ s3.cells[3] = c3 /\ \A i \in 1..2 : s3.cells[i] = s2.cells[i]
  <2>1. 2 \in Nat /\ 2 + 1 = 3
    OBVIOUS
  <2>2. AtEnd(s2, 2) /\ c3 \in Cells_
    BY <1>3, <1>7
  <2>3. /\ AtEnd(Put(s2, c3), 2 + 1) /\ Put(s2, c3).cells[2 + 1] = c3
        /\ \A i \in 1..2 : Put(s2, c3).cells[i] = s2.cells[i]
    BY ONLY <2>1, <2>2, HeaderPut, Zenon
  <2> QED BY ONLY <2>1, <2>3, Zenon DEF s3
<1> HIDE DEF s3
<1>9. AtEnd(s4, 4) /\ s4.cells[4] = c4 /\ \A i \in 1..3 : s4.cells[i] = s3.cells[i]
  <2>1. 3 \in Nat /\ 3 + 1 = 4
    OBVIOUS
  <2>2. AtEnd(s3, 3) /\ c4 \in Cells_
    BY <1>3, <1>8
  <2>3. /\ AtEnd(Put(s3, c4), 3 + 1) /\ Put(s3, c4).cells[3 + 1] = c4
        /\ \A i \in 1..3 : Put(s3, c4).cells[i] = s3.cells[i]
    BY ONLY <2>1, <2>2, HeaderPut, Zenon
  <2> QED BY ONLY <2>1, <2>3, Zenon DEF s4
<1> HIDE DEF s4
<1>10. AtEnd(v, 4) /\ v.cells = s4.cells
  <2>1. 4 \in Nat /\ Fresh(s4) /\ s4.cells \in Seq(Cells_) /\ Len(s4.cells) = 4
    BY <1>9 DEF AtEnd
  <2> QED BY ONLY <2>1, SeeksEnd, Zenon DEF v
<1> HIDE DEF v
<1>11. AtEnd(s5, 5) /\ s5.cells[5] = c5 /\ \A i \in 1..4 : s5.cells[i] = v.cells[i]
  <2>1. 4 \in Nat /\ 4 + 1 = 5
    OBVIOUS
  <2>2. AtEnd(v, 4) /\ c5 \in Cells_
    BY <1>3, <1>10
  <2>3. /\ AtEnd(Put(v, c5), 4 + 1) /\ Put(v, c5).cells[4 + 1] = c5
        /\ \A i \in 1..4 : Put(v, c5).cells[i] = v.cells[i]
    BY ONLY <2>1, <2>2, HeaderPut, Zenon
  <2> QED BY ONLY <2>1, <2>3, Zenon DEF s5
<1> HIDE DEF s5
<1>12. AtEnd(a, 5) /\ a.cells = s5.cells
  <2>1. 5 \in Nat /\ Fresh(s5) /\ s5.cells \in Seq(Cells_) /\ Len(s5.cells) = 5
    BY <1>11 DEF AtEnd
  <2> QED BY ONLY <2>1, SeeksEnd, Zenon DEF a
<1> HIDE DEF a
<1>13. a.cells[2] = c2 /\ a.cells[3] = c3 /\ a.cells[4] = c4 /\ a.cells[5] = c5
  BY <1>7, <1>8, <1>9, <1>10, <1>11, <1>12
<1>14. /\ Fresh(p) /\ p.cells \in Seq(Cells_) /\ Len(p.cells) = 5 /\ p.cells[2] = <<"hdrl", 3>>
       /\ p.cells[3] = c3 /\ p.cells[4] = c4 /\ p.cells[5] = c5
  <2> DEFINE x == <<a.cells[2][1], a.pos - 3>>
             d == [a.cells EXCEPT ![2] = x]
  <2>1. a.cells[2][1] = "hdrl" /\ a.pos - 3 = 3
    BY <1>4, <1>12, <1>13 DEF AtEnd
  <2>2. x = <<"hdrl", 3>>
    BY <2>1
  <2>3. x \in Cells_
    BY <2>2 DEF Cells_, Kinds_
  <2> HIDE DEF x
  <2>4. d \in Seq(Cells_) /\ Len(d) = 5 /\ d[2] = x /\ d[3] = c3 /\ d[4] = c4 /\ d[5] = c5
    BY <1>12, <1>13, <2>3 DEF AtEnd
  <2>5. DOMAIN a = AviFields
    BY <1>12 DEF AtEnd, Fresh
  <2>6. p = [a EXCEPT !.cells = d]
    BY <2>5 DEF Patch, x, AviFields
  <2> HIDE DEF d, p
  <2>7. DOMAIN p = AviFields /\ p.cells = d /\ p.idx = a.idx /\ p.on = a.on /\ p.again = a.again
    BY <2>5, <2>6 DEF AviFields
  <2>8. Fresh(p)
    BY <1>12, <2>7 DEF AtEnd, Fresh
  <2> QED BY <2>2, <2>4, <2>7, <2>8
<1> HIDE DEF p
<1>15. AtEnd(h, 5) /\ h.cells = p.cells
  <2>1. 5 \in Nat /\ Fresh(p) /\ p.cells \in Seq(Cells_) /\ Len(p.cells) = 5
    BY <1>14 DEF AtEnd
  <2> QED BY ONLY <2>1, SeeksEnd, Zenon DEF h
<1> HIDE DEF h
<1>16. AtEnd(m, 6) /\ m.cells[6] = c6 /\ \A i \in 1..5 : m.cells[i] = h.cells[i]
  <2>1. 5 \in Nat /\ 5 + 1 = 6
    OBVIOUS
  <2>2. AtEnd(h, 5) /\ c6 \in Cells_
    BY <1>3, <1>15
  <2>3. /\ AtEnd(Put(h, c6), 5 + 1) /\ Put(h, c6).cells[5 + 1] = c6
        /\ \A i \in 1..5 : Put(h, c6).cells[i] = h.cells[i]
    BY ONLY <2>1, <2>2, HeaderPut, Zenon
  <2> QED BY ONLY <2>1, <2>3, Zenon DEF m
<1> HIDE DEF m
<1>17. /\ m.cells[2] = <<"hdrl", 3>> /\ m.cells[3] = c3 /\ m.cells[4] = c4 /\ m.cells[5] = c5
  BY <1>14, <1>15, <1>16
<1>18. Fresh(m) /\ m.pos = 7 /\ m.cells \in Seq(Cells_) /\ Len(m.cells) = 6 /\ h.pos = 6
  BY <1>15, <1>16 DEF AtEnd
<1>19. /\ w.idx = <<>> /\ w.on = TRUE /\ w.again = FALSE /\ DOMAIN w = AviFields
       /\ w.pos = 7 /\ w.movi = 6 /\ w.cells = m.cells
  BY <1>18 DEF Fresh, AviFields
<1> HIDE DEF w
<1>20. HeadersStand(w)
  <2>1. /\ w.cells[2] = <<"hdrl", 3>> /\ w.cells[3] = <<"avih", 0>> /\ w.cells[4] = <<"vstrl", 0>>
        /\ w.cells[5] = <<"astrl", 0>> /\ w.cells[6] = <<"movi", 0>>
    BY ONLY <1>16, <1>17, <1>19, Zenon DEF c3, c4, c5, c6
  <2>2. w.cells \in Seq(Cells_) /\ Len(w.cells) = 6 /\ w.pos = 6 + 1 /\ w.movi = 6
    BY ONLY <1>18, <1>19
  <2>3. w.idx \in Seq(Entries) /\ Len(w.idx) = 0
    BY <1>19
  <2> QED BY ONLY <2>1, <2>2, <2>3 DEF HeadersStand
<1> QED BY <1>1, <1>19, <1>20 DEF s0

(* A chunk goes to the end of the file and the index says where.           *)
LEMMA ChunkWritten ==
  ASSUME NEW s, DOMAIN s = AviFields, HeadersStand(s), NEW kind \in {"video", "audio"}, NEW n \in Nat
  PROVE  LET c == Chunk(s, kind, n)
         IN  /\ HeadersStand(c) /\ Len(c.idx) = Len(s.idx) + 1
             /\ DOMAIN c = AviFields /\ c.on = s.on /\ c.again = s.again
<1> DEFINE e == <<kind, n, s.pos - s.movi>>
           d == Append(s.cells, <<kind, n>>)
           x == Append(s.idx, e)
           c == Chunk(s, kind, n)
           l == Len(s.cells)
           k == Len(s.idx)
<1>1. l \in Nat /\ l >= 6 /\ s.pos = l + 1 /\ s.movi = 6 /\ k \in Nat
  BY DEF HeadersStand
<1>2. /\ DOMAIN c = AviFields /\ c.cells = d /\ c.pos = s.pos + 1 /\ c.movi = s.movi /\ c.idx = x
      /\ c.on = s.on /\ c.again = s.again
  <2> DEFINE t == Put(s, <<kind, n>>)
  <2>1. /\ t.cells = d /\ t.pos = s.pos + 1 /\ DOMAIN t = AviFields /\ t.on = s.on
        /\ t.again = s.again /\ t.idx = s.idx /\ t.movi = s.movi
    BY <1>1, PutAppends
  <2> HIDE DEF t
  <2>2. c = [t EXCEPT !.idx = x]
    BY <2>1 DEF Chunk, t, AviFields
  <2> HIDE DEF d, e, c, x
  <2> QED BY <2>1, <2>2 DEF AviFields
<1> HIDE DEF c
<1>3. e \in Entries /\ e[3] = l - 5 /\ e[1] = kind /\ e[2] = n
  BY <1>1 DEF Entries, Kinds_
<1>4. <<kind, n>> \in Cells_
  BY DEF Cells_, Kinds_
<1>5. /\ d \in Seq(Cells_) /\ Len(d) = l + 1 /\ d[l + 1] = <<kind, n>> /\ \A i \in 1..l : d[i] = s.cells[i]
  BY <1>4, AppendProperties DEF HeadersStand
<1> HIDE DEF e
<1>6. /\ x \in Seq(Entries) /\ Len(x) = k + 1 /\ x[k + 1] = e /\ \A i \in 1..k : x[i] = s.idx[i]
  BY <1>3, AppendProperties DEF HeadersStand
<1> HIDE DEF d, x
<1>7. ASSUME NEW i \in 1..(k + 1)
      PROVE  x[i][3] \in 1..(l - 5) /\ d[6 + x[i][3]] = <<x[i][1], x[i][2]>>
  <2>1. CASE i = k + 1
    <3>1. l - 5 \in 1..(l - 5) /\ 6 + (l - 5) = l + 1
      BY <1>1
    <3> QED BY <1>3, <1>5, <1>6, <2>1, <3>1
  <2>2. CASE i \in 1..k
    <3> DEFINE o == s.idx[i][3]
    <3>1. x[i] = s.idx[i] /\ o \in 1..(l - 6) /\ s.cells[6 + o] = <<s.idx[i][1], s.idx[i][2]>>
      BY <1>6, <2>2 DEF HeadersStand
    <3> HIDE DEF o
    <3>2. o \in 1..(l - 5) /\ 6 + o \in 1..l
      BY <1>1, <3>1
    <3> QED BY <1>5, <3>1, <3>2 DEF o
  <2> QED BY <1>1, <2>1, <2>2
<1>8. {2, 3, 4, 5, 6} \subseteq 1..l /\ l + 1 >= 6 /\ (l + 1) - 6 = l - 5 /\ s.pos + 1 = (l + 1) + 1
  BY <1>1
<1> HIDE DEF l, k
<1>9. d[2] = <<"hdrl", 3>> /\ d[3] = <<"avih", 0>> /\ d[4] = <<"vstrl", 0>> /\ d[5] = <<"astrl", 0>> /\ d[6] = <<"movi", 0>>
  BY <1>5, <1>8 DEF HeadersStand
<1>10. HeadersStand(c)
  BY <1>1, <1>2, <1>5, <1>6, <1>7, <1>8, <1>9 DEF HeadersStand
<1> QED BY <1>2, <1>6, <1>10 DEF c, k

(* The closed file reads back.                                             *)
LEMMA ClosedReads ==
  ASSUME NEW s, DOMAIN s = AviFields, HeadersStand(s)
  PROVE  LET c == [Patch(Put(Patch(s, s.movi, s.pos - s.movi - 1), <<"idx1", Len(s.idx)>>), 1, s.pos)
                     EXCEPT !.on = FALSE]
         IN  AviReads(c) /\ c.idx = s.idx /\ c.on = FALSE /\ c.again = s.again /\ DOMAIN c = AviFields
<1> DEFINE p == Patch(s, s.movi, s.pos - s.movi - 1)
           q == Put(p, <<"idx1", Len(s.idx)>>)
           r == Patch(q, 1, s.pos)
           c == [r EXCEPT !.on = FALSE]
           l == Len(s.cells)
<1>1. l \in Nat /\ l >= 6 /\ s.pos = l + 1 /\ s.movi = 6 /\ s.cells \in Seq(Cells_) /\ Len(s.idx) \in Nat
  BY DEF HeadersStand
<1>2. {1, 2, 3, 4, 5, 6} \subseteq 1..l /\ s.pos - s.movi - 1 = l - 6 /\ l - 6 \in Nat
  BY <1>1
<1> DEFINE a == [s.cells EXCEPT ![6] = <<s.cells[6][1], l - 6>>]
           b == Append(a, <<"idx1", Len(s.idx)>>)
           d == [b EXCEPT ![1] = <<b[1][1], s.pos>>]
<1>3. p = [s EXCEPT !.cells = a]
  BY <1>1, <1>2 DEF Patch
<1>4. /\ a \in Seq(Cells_) /\ Len(a) = l /\ a[6] = <<"movi", l - 6>>
      /\ \A i \in 1..l : i # 6 => a[i] = s.cells[i]
  <2>1. <<s.cells[6][1], l - 6>> = <<"movi", l - 6>> /\ <<"movi", l - 6>> \in Cells_
    BY <1>2 DEF HeadersStand, Cells_, Kinds_
  <2> QED BY <1>1, <1>2, <2>1
<1> HIDE DEF a
<1>5. /\ p.cells = a /\ p.pos = s.pos /\ p.idx = s.idx /\ p.again = s.again /\ DOMAIN p = AviFields
  BY <1>3 DEF AviFields
<1> HIDE DEF p
<1>6. /\ q.cells = b /\ q.idx = s.idx /\ q.again = s.again /\ DOMAIN q = AviFields
  <2>1. ~(p.pos <= Len(p.cells))
    BY <1>1, <1>4, <1>5
  <2> QED BY <1>5, <2>1 DEF Put, AviFields
<1> HIDE DEF q
<1>7. /\ b \in Seq(Cells_) /\ Len(b) = l + 1 /\ b[l + 1] = <<"idx1", Len(s.idx)>> /\ \A i \in 1..l : b[i] = a[i]
  <2>1. <<"idx1", Len(s.idx)>> \in Cells_
    BY <1>1 DEF Cells_, Kinds_
  <2> QED BY <1>4, <2>1, AppendProperties
<1> HIDE DEF b
<1>8. /\ r.cells = d /\ r.idx = s.idx /\ r.again = s.again /\ DOMAIN r = AviFields
  BY <1>6 DEF Patch, AviFields
<1> HIDE DEF r
<1>9. /\ d \in Seq(Cells_) /\ Len(d) = l + 1 /\ \A i \in 2..(l + 1) : d[i] = b[i]
  <2>1. b[1] \in Cells_ /\ 1 \in 1..(l + 1)
    BY <1>1, <1>7
  <2>2. <<b[1][1], s.pos>> \in Cells_
    BY <1>1, <2>1 DEF Cells_
  <2> QED BY <1>1, <1>7, <2>1, <2>2
<1> HIDE DEF d
<1>10. c.cells = d /\ c.idx = s.idx /\ c.on = FALSE /\ c.again = s.again /\ DOMAIN c = AviFields
  BY <1>8 DEF AviFields
<1> HIDE DEF c
<1>11. ASSUME NEW i \in 2..l, i # 6 PROVE d[i] = s.cells[i]
  <2>1. i \in 1..l /\ i \in 2..(l + 1)
    BY <1>1
  <2> QED BY ONLY <1>4, <1>7, <1>9, <1>11, <2>1
<1>12. /\ d[2] = <<"hdrl", 3>> /\ d[3] = <<"avih", 0>> /\ d[4] = <<"vstrl", 0>> /\ d[5] = <<"astrl", 0>>
       /\ d[6] = <<"movi", l - 6>> /\ d[l + 1] = <<"idx1", Len(s.idx)>>
  <2>1. 2 \in 2..l /\ 3 \in 2..l /\ 4 \in 2..l /\ 5 \in 2..l /\ 6 \in 2..(l + 1) /\ l + 1 \in 2..(l + 1)
    BY <1>1
  <2>2. d[2] = s.cells[2] /\ d[3] = s.cells[3] /\ d[4] = s.cells[4] /\ d[5] = s.cells[5]
    BY ONLY <1>11, <2>1
  <2>3. d[6] = b[6] /\ b[6] = a[6] /\ d[l + 1] = b[l + 1]
    BY ONLY <1>2, <1>7, <1>9, <2>1
  <2>4. /\ s.cells[2] = <<"hdrl", 3>> /\ s.cells[3] = <<"avih", 0>> /\ s.cells[4] = <<"vstrl", 0>>
        /\ s.cells[5] = <<"astrl", 0>>
    BY Zenon DEF HeadersStand
  <2> QED BY ONLY <1>4, <1>7, <2>2, <2>3, <2>4, Zenon
<1>13. SubSeq(d, 3, 5) = <<<<"avih", 0>>, <<"vstrl", 0>>, <<"astrl", 0>>>>
  <2> DEFINE t == SubSeq(d, 3, 5)
             x == <<"avih", 0>>
             y == <<"vstrl", 0>>
             z == <<"astrl", 0>>
             u == <<x, y, z>>
  <2>1. t \in Seq(Cells_) /\ Len(t) = 3 /\ t[1] = d[3] /\ t[2] = d[4] /\ t[3] = d[5]
    BY <1>1, <1>9
  <2>2. x \in Cells_ /\ y \in Cells_ /\ z \in Cells_
    BY DEF Cells_, Kinds_
  <2>3. d[3] = x /\ d[4] = y /\ d[5] = z
    BY <1>12, Zenon
  <2> HIDE DEF t, x, y, z
  <2>4. u \in Seq(Cells_) /\ Len(u) = 3 /\ u[1] = x /\ u[2] = y /\ u[3] = z
    BY <2>2
  <2> HIDE DEF u
  <2>5. \A i \in 1..3 : t[i] = u[i]
    <3> TAKE i \in 1..3
    <3>1. i = 1 \/ i = 2 \/ i = 3
      OBVIOUS
    <3> QED BY <2>1, <2>3, <2>4, <3>1
  <2>6. t = u
    BY ONLY <2>1, <2>4, <2>5, SeqEqual
  <2> QED BY ONLY <2>6, Zenon DEF t, u, x, y, z
<1>14. \A i \in 1..Len(s.idx) : d[6 + s.idx[i][3]] = <<s.idx[i][1], s.idx[i][2]>>
  <2> SUFFICES ASSUME NEW i \in 1..Len(s.idx) PROVE d[6 + s.idx[i][3]] = <<s.idx[i][1], s.idx[i][2]>>
    OBVIOUS
  <2> DEFINE o == s.idx[i][3]
  <2>1. o \in 1..(l - 6) /\ s.cells[6 + o] = <<s.idx[i][1], s.idx[i][2]>>
    BY DEF HeadersStand
  <2> HIDE DEF o
  <2>2. 6 + o \in 2..l /\ 6 + o # 6
    BY <1>1, <2>1
  <2> QED BY <1>11, <2>1, <2>2 DEF o
<1>15. AviReads(c)
  <2>1. /\ c.cells[2][2] = 3 /\ 3 + 3 = 6 /\ 6 - 1 = 5 /\ c.cells[6][1] = "movi" /\ c.cells[6][2] = l - 6
        /\ 6 + (l - 6) + 1 = l + 1 /\ c.cells[l + 1][1] = "idx1"
    BY <1>1, <1>10, <1>12
  <2> QED BY <1>10, <1>13, <1>14, <2>1 DEF AviReads
<1> QED BY <1>10, <1>15 DEF c, r, q, p

\* Whatever is written, the recorder stays on and its fields stay.
SameTake(t, s) == DOMAIN t = AviFields /\ t.on = s.on /\ t.again = s.again

\* Writing, seeking, patching and chunks change nothing of the take but file and position.
LEMMA WritesKeep ==
  ASSUME NEW s, DOMAIN s = AviFields
  PROVE  /\ \A cell : SameTake(Put(s, cell), s)
         /\ SameTake(SeekEnd(s), s)
         /\ \A at, n : SameTake(Patch(s, at, n), s)
         /\ \A kind, n : SameTake(Chunk(s, kind, n), s)
<1>1. ASSUME NEW cell PROVE SameTake(Put(s, cell), s)
  <2> DEFINE d == IF s.pos <= Len(s.cells) THEN [s.cells EXCEPT ![s.pos] = cell] ELSE Append(s.cells, cell)
             p == s.pos + 1
  <2>1. Put(s, cell) = [s EXCEPT !.cells = d, !.pos = p]
    BY Zenon DEF Put
  <2> HIDE DEF d, p
  <2> DEFINE t == Put(s, cell)
  <2> HIDE DEF t
  <2>2. t = [s EXCEPT !.cells = d, !.pos = p]
    BY <2>1 DEF t
  <2>3. DOMAIN t = AviFields /\ t.on = s.on /\ t.again = s.again
    BY <2>2 DEF AviFields
  <2> QED BY <2>3 DEF t, SameTake
<1>2. SameTake(SeekEnd(s), s)
  BY DEF SameTake, SeekEnd, AviFields
<1>3. ASSUME NEW at, NEW n PROVE SameTake(Patch(s, at, n), s)
  <2> DEFINE d == [s.cells EXCEPT ![at] = <<@[1], n>>]
             t == Patch(s, at, n)
  <2>1. t = [s EXCEPT !.cells = d]
    BY DEF Patch, AviFields
  <2> HIDE DEF d, t
  <2>2. DOMAIN t = AviFields /\ t.on = s.on /\ t.again = s.again
    BY <2>1 DEF AviFields
  <2> QED BY <2>2 DEF t, SameTake
<1>4. ASSUME NEW kind, NEW n PROVE SameTake(Chunk(s, kind, n), s)
  <2> DEFINE t == Put(s, <<kind, n>>)
             x == Append(t.idx, <<kind, n, s.pos - s.movi>>)
             c == Chunk(s, kind, n)
  <2>1. SameTake(t, s)
    BY <1>1
  <2>2. c = [t EXCEPT !.idx = x]
    BY <2>1 DEF Chunk, SameTake, AviFields
  <2> HIDE DEF t, x, c
  <2>3. DOMAIN c = AviFields /\ c.on = s.on /\ c.again = s.again
    BY <2>1, <2>2 DEF SameTake, AviFields
  <2> QED BY <2>3 DEF c, SameTake
<1> QED BY <1>1, <1>2, <1>3, <1>4

\* Nor does writing the headers.
LEMMA HeadersKeep ==
  ASSUME NEW s, DOMAIN s = AviFields
  PROVE  SameTake(write_headers(s), s)
<1> DEFINE s1 == Put(s, <<"RIFF", 0>>)
           s2 == Put(s1, <<"hdrl", 0>>)
           s3 == Put(s2, <<"avih", 0>>)
           s4 == Put(s3, <<"vstrl", 0>>)
           v == SeekEnd(s4)
           s5 == Put(v, <<"astrl", 0>>)
           a == SeekEnd(s5)
           p == Patch(a, 2, a.pos - 3)
           h == SeekEnd(p)
           m == Put(h, <<"movi", 0>>)
           w == [m EXCEPT !.movi = h.pos]
<1>1. write_headers(s) = w
  BY Zenon DEF write_headers
<1>2. SameTake(s1, s)
  BY WritesKeep, Zenon
<1> HIDE DEF s1
<1>3. SameTake(s2, s)
  BY <1>2, WritesKeep DEF SameTake
<1> HIDE DEF s2
<1>4. SameTake(s3, s)
  BY <1>3, WritesKeep DEF SameTake
<1> HIDE DEF s3
<1>5. SameTake(s4, s)
  BY <1>4, WritesKeep DEF SameTake
<1> HIDE DEF s4
<1>6. SameTake(v, s)
  BY <1>5, WritesKeep DEF SameTake
<1> HIDE DEF v
<1>7. SameTake(s5, s)
  BY <1>6, WritesKeep DEF SameTake
<1> HIDE DEF s5
<1>8. SameTake(a, s)
  BY <1>7, WritesKeep DEF SameTake
<1> HIDE DEF a
<1>9. SameTake(p, s)
  BY <1>8, WritesKeep DEF SameTake
<1> HIDE DEF p
<1>10. SameTake(h, s)
  BY <1>9, WritesKeep DEF SameTake
<1> HIDE DEF h
<1>11. SameTake(m, s)
  BY <1>10, WritesKeep DEF SameTake
<1> HIDE DEF m
<1>12. SameTake(w, s)
  BY <1>11 DEF SameTake, AviFields
<1> QED BY <1>1, <1>12

\* The count of the pictures is no part of the file.
LEMMA AviGrows ==
  ASSUME AviInv, avi.on, NEW c, DOMAIN c = AviFields, c.on = avi.on, c.again = avi.again,
         ~avi.again => HeadersStand(c) /\ Len(c.idx) = Len(avi.idx) + 1,
         avi' = [c EXCEPT !.frames = @ + 1],
         made'.avi \in Seq(Nat), Len(made'.avi) = Len(made.avi) + 1
  PROVE  AviInv'
<1>1. /\ DOMAIN avi' = AviFields /\ avi'.on = avi.on /\ avi'.again = avi.again
      /\ avi'.cells = c.cells /\ avi'.pos = c.pos /\ avi'.movi = c.movi /\ avi'.idx = c.idx
  BY DEF AviFields
<1>2. /\ {"on", "cells", "pos", "movi", "frames", "idx", "dims", "again"} = DOMAIN avi'
      /\ avi'.on \in BOOLEAN /\ avi'.again \in BOOLEAN /\ avi'.on
  BY <1>1 DEF AviFields, AviInv
<1>3. ~avi'.again => HeadersStand(avi')
  BY <1>1 DEF HeadersStand
<1>4. ~avi'.again => Len(avi'.idx) = Len(made'.avi)
  BY <1>1 DEF AviInv
<1> QED BY ONLY <1>2, <1>3, <1>4, made'.avi \in Seq(Nat) DEF AviInv

(* The AVI recorder: until the headers are written a second time, every    *)
(* capture adds a chunk and its entry, and the stop leaves a file that     *)
(* reads back.                                                             *)
LEMMA AviKeeps ==
  ASSUME {"wav", "ym", "avi"} = DOMAIN made, AviInv
  PROVE  /\ avi_start => AviInv'
         /\ capture_video_frame => AviInv'
         /\ capture_audio_samples => AviInv'
         /\ avi.on /\ avi_closed /\ UNCHANGED made => AviInv'
<1>1. ASSUME avi_start PROVE AviInv'
  <2>1. /\ HeadersStand(avi') /\ avi'.idx = <<>> /\ avi'.on = TRUE /\ avi'.again = FALSE
        /\ DOMAIN avi' = AviFields
    BY <1>1, HeadersWritten, Zenon DEF avi_start
  <2>2. made'.avi = <<>>
    BY <1>1 DEF avi_start
  <2>3. avi'.on \in BOOLEAN /\ avi'.on /\ avi'.again \in BOOLEAN
    BY <2>1
  <2>4. Len(avi'.idx) = Len(made'.avi) /\ made'.avi \in Seq(Nat)
    BY <2>1, <2>2
  <2> QED BY ONLY <2>1, <2>3, <2>4 DEF AviInv, AviFields, HeadersStand
<1>2. ASSUME capture_video_frame PROVE AviInv'
  <2> DEFINE n == Len(made.avi) + 1
             e == Append(made.avi, n)
  <2>1. made'.avi = e /\ avi.on
    BY <1>2 DEF capture_video_frame
  <2>2. n \in Nat /\ e \in Seq(Nat) /\ Len(e) = Len(made.avi) + 1
    BY DEF AviInv
  <2>3. PICK dims \in {"default", "other"} :
          LET s == IF avi.frames = 0 /\ dims # avi.dims
                   THEN [write_headers([avi EXCEPT !.pos = 1]) EXCEPT !.dims = dims, !.again = TRUE]
                   ELSE avi
          IN  avi' = [Chunk(s, "video", n) EXCEPT !.frames = @ + 1]
    BY <1>2, Zenon DEF capture_video_frame
  <2> HIDE DEF n, e
  <2>4. DOMAIN avi = AviFields /\ avi.on \in BOOLEAN
    BY DEF AviInv, AviFields
  <2>5. CASE avi.frames = 0 /\ dims # avi.dims
    <3> DEFINE o == [avi EXCEPT !.pos = 1]
               t == write_headers(o)
               s == [t EXCEPT !.dims = dims, !.again = TRUE]
               c == Chunk(s, "video", n)
    <3>1. avi' = [c EXCEPT !.frames = @ + 1]
      BY <2>3, <2>5, Zenon
    <3>2. DOMAIN o = AviFields /\ o.on = avi.on
      BY <2>4 DEF AviFields
    <3> HIDE DEF o
    <3>3. DOMAIN t = AviFields /\ t.on = avi.on
      BY <3>2, HeadersKeep DEF SameTake
    <3> HIDE DEF t
    <3>4. DOMAIN s = AviFields /\ s.on = avi.on /\ s.again = TRUE
      BY <3>3 DEF AviFields
    <3> HIDE DEF s
    <3>5. DOMAIN c = AviFields /\ c.on = avi.on /\ c.again = TRUE
      BY <3>4, WritesKeep DEF SameTake
    <3> HIDE DEF c
    <3>6. DOMAIN avi' = AviFields /\ avi'.on = avi.on /\ avi'.again = TRUE
      BY <3>1, <3>5 DEF AviFields
    <3>7. avi'.on /\ avi'.on \in BOOLEAN /\ avi'.again \in BOOLEAN /\ avi'.again
      BY <2>1, <2>4, <3>6
    <3> QED BY ONLY <2>1, <2>2, <3>6, <3>7 DEF AviInv, AviFields
  <2>6. CASE ~(avi.frames = 0 /\ dims # avi.dims)
    <3> DEFINE c == Chunk(avi, "video", n)
    <3>1. avi' = [c EXCEPT !.frames = @ + 1]
      BY <2>3, <2>6, Zenon
    <3>2. DOMAIN c = AviFields /\ c.on = avi.on /\ c.again = avi.again
      BY <2>4, WritesKeep DEF SameTake
    <3>3. ~avi.again => HeadersStand(c) /\ Len(c.idx) = Len(avi.idx) + 1
      BY <2>1, <2>2, <2>4, ChunkWritten DEF AviInv
    <3> HIDE DEF c
    <3> QED BY <2>1, <2>2, <2>4, <3>1, <3>2, <3>3, AviGrows
  <2> QED BY <2>5, <2>6
<1>3. ASSUME capture_audio_samples PROVE AviInv'
  <2> DEFINE n == Len(made.avi) + 1
             e == Append(made.avi, n)
             c == Chunk(avi, "audio", n)
  <2>1. made'.avi = e /\ avi.on /\ avi' = c
    BY <1>3 DEF capture_audio_samples
  <2>2. n \in Nat /\ e \in Seq(Nat) /\ Len(e) = Len(made.avi) + 1
    BY DEF AviInv
  <2> HIDE DEF n, e
  <2>3. DOMAIN avi = AviFields /\ avi.on \in BOOLEAN
    BY DEF AviInv, AviFields
  <2>4. DOMAIN c = AviFields /\ c.on = avi.on /\ c.again = avi.again
    BY <2>3, WritesKeep DEF SameTake
  <2>5. ~avi.again => HeadersStand(c) /\ Len(c.idx) = Len(avi.idx) + 1
    BY <2>1, <2>2, <2>3, ChunkWritten DEF AviInv
  <2> HIDE DEF c
  <2>6. /\ {"on", "cells", "pos", "movi", "frames", "idx", "dims", "again"} = DOMAIN avi'
        /\ avi'.on \in BOOLEAN /\ avi'.again \in BOOLEAN /\ avi'.on
    BY <2>1, <2>3, <2>4 DEF AviFields, AviInv
  <2>7. ~avi'.again => HeadersStand(avi') /\ Len(avi'.idx) = Len(made'.avi)
    BY <2>1, <2>2, <2>4, <2>5 DEF AviInv
  <2> QED BY ONLY <2>1, <2>2, <2>6, <2>7 DEF AviInv
<1>4. ASSUME avi.on, avi_closed, UNCHANGED made PROVE AviInv'
  <2>1. DOMAIN avi = AviFields /\ avi.again \in BOOLEAN /\ made'.avi = made.avi
    BY <1>4 DEF AviInv, AviFields
  <2> DEFINE c == [Patch(Put(Patch(avi, avi.movi, avi.pos - avi.movi - 1), <<"idx1", Len(avi.idx)>>), 1, avi.pos)
                     EXCEPT !.on = FALSE]
  <2>2. avi' = c
    BY <1>4, Zenon DEF avi_closed
  <2>3. DOMAIN c = AviFields /\ c.on = FALSE /\ c.again = avi.again
    <3> DEFINE p == Patch(avi, avi.movi, avi.pos - avi.movi - 1)
               q == Put(p, <<"idx1", Len(avi.idx)>>)
               r == Patch(q, 1, avi.pos)
    <3>1. DOMAIN p = AviFields /\ p.again = avi.again
      BY <2>1, WritesKeep DEF SameTake
    <3> HIDE DEF p
    <3>2. DOMAIN q = AviFields /\ q.again = avi.again
      BY <3>1, WritesKeep DEF SameTake
    <3> HIDE DEF q
    <3>3. DOMAIN r = AviFields /\ r.again = avi.again
      BY <3>2, WritesKeep DEF SameTake
    <3>4. c = [r EXCEPT !.on = FALSE]
      BY Zenon DEF q, p
    <3> HIDE DEF r, c
    <3> QED BY <3>3, <3>4 DEF AviFields
  <2>4. ~avi.again => AviReads(c) /\ c.idx = avi.idx
    BY <1>4, <2>1, ClosedReads DEF AviInv
  <2> HIDE DEF c
  <2>5. /\ {"on", "cells", "pos", "movi", "frames", "idx", "dims", "again"} = DOMAIN avi'
        /\ avi'.on \in BOOLEAN /\ avi'.again \in BOOLEAN /\ ~avi'.on
    BY <2>1, <2>2, <2>3 DEF AviFields
  <2>6. ~avi'.again => AviReads(avi') /\ Len(avi'.idx) = Len(made'.avi)
    BY <1>4, <2>1, <2>2, <2>3, <2>4 DEF AviInv
  <2>7. made'.avi \in Seq(Nat)
    BY <2>1 DEF AviInv
  <2> QED BY ONLY <2>5, <2>6, <2>7 DEF AviInv
<1> QED BY <1>1, <1>2, <1>3, <1>4

-----------------------------------------------------------------------------
(* Every step keeps the three recorders; a step of one is no step of the   *)
(* others, and Stop All stops each that is on.                             *)
LEMMA StillWav ==
  ASSUME WavInv, wav' = wav, made'.wav = made.wav
  PROVE  WavInv'
BY DEF WavInv

\* A step that leaves the YM recording alone keeps its invariant.
LEMMA StillYm ==
  ASSUME YmInv, ym' = ym, made'.ym = made.ym
  PROVE  YmInv'
BY DEF YmInv

\* A step that leaves the AVI recording alone keeps its invariant.
LEMMA StillAvi ==
  ASSUME AviInv, avi' = avi, made'.avi = made.avi
  PROVE  AviInv'
BY DEF AviInv, HeadersStand, AviReads

\* Every step of the recorders keeps their invariant.
LEMMA RecKeeps ==
  ASSUME RecInv, [RecNext]_recVars
  PROVE  RecInv'
<1>1. {"wav", "ym", "avi"} = DOMAIN made /\ WavInv /\ YmInv /\ AviInv
  BY DEF RecInv
<1>2. CASE UNCHANGED recVars
  BY <1>1, <1>2, StillWav, StillYm, StillAvi DEF recVars, RecInv
<1>3. ASSUME wav_start \/ write_samples PROVE RecInv'
  <2>1. \E d : made' = [made EXCEPT !.wav = d]
    BY <1>3, Zenon DEF wav_start, write_samples
  <2>2. DOMAIN made' = DOMAIN made /\ made'.ym = made.ym /\ made'.avi = made.avi /\ ym' = ym /\ avi' = avi
    BY <1>1, <1>3, <2>1 DEF wav_start, write_samples
  <2> QED BY <1>1, <1>3, <2>2, WavKeeps, StillYm, StillAvi DEF RecInv
<1>4. ASSUME ym_start \/ capture_frame PROVE RecInv'
  <2>1. \E d : made' = [made EXCEPT !.ym = d]
    BY <1>4, Zenon DEF ym_start, capture_frame
  <2>2. DOMAIN made' = DOMAIN made /\ made'.wav = made.wav /\ made'.avi = made.avi /\ wav' = wav /\ avi' = avi
    BY <1>1, <1>4, <2>1 DEF ym_start, capture_frame
  <2> QED BY <1>1, <1>4, <2>2, YmKeeps, StillWav, StillAvi DEF RecInv
<1>5. ASSUME avi_start \/ capture_video_frame \/ capture_audio_samples PROVE RecInv'
  <2>1. \E d : made' = [made EXCEPT !.avi = d]
    BY <1>5, Zenon DEF avi_start, capture_video_frame, capture_audio_samples
  <2>2. DOMAIN made' = DOMAIN made /\ made'.wav = made.wav /\ made'.ym = made.ym /\ wav' = wav /\ ym' = ym
    BY <1>1, <1>5, <2>1 DEF avi_start, capture_video_frame, capture_audio_samples
  <2> QED BY <1>1, <1>5, <2>2, AviKeeps, StillWav, StillYm DEF RecInv
<1>6. ASSUME made' = made,
             wav' = wav \/ (wav.on /\ wav_closed), ym' = ym \/ (ym.on /\ ym_closed),
             avi' = avi \/ (avi.on /\ avi_closed)
      PROVE  RecInv'
  <2>1. WavInv'
    BY <1>1, <1>6, WavKeeps, StillWav
  <2>2. YmInv'
    BY <1>1, <1>6, YmKeeps, StillYm
  <2>3. AviInv'
    BY <1>1, <1>6, AviKeeps, StillAvi
  <2> QED BY <1>1, <1>6, <2>1, <2>2, <2>3 DEF RecInv
<1>7. ASSUME wav_stop \/ ym_stop \/ avi_stop PROVE RecInv'
  BY <1>6, <1>7 DEF wav_stop, ym_stop, avi_stop
<1>8. ASSUME /\ IF wav.on THEN wav_closed ELSE wav' = wav
             /\ IF ym.on THEN ym_closed ELSE ym' = ym
             /\ IF avi.on THEN avi_closed ELSE avi' = avi
             /\ UNCHANGED made
      PROVE  RecInv'
  BY <1>6, <1>8
<1> QED BY <1>2, <1>3, <1>4, <1>5, <1>7, <1>8 DEF RecNext, recording_controls

\* The recorders start in it.
LEMMA RecStarts == RecInit => RecInv
<1> SUFFICES ASSUME RecInit PROVE RecInv
  OBVIOUS
<1>1. /\ DOMAIN made = {"wav", "ym", "avi"} /\ made.wav = <<>> /\ made.ym = <<>> /\ made.avi = <<>>
  BY DEF RecInit
<1>2. WavInv
  <2>1. /\ DOMAIN wav = {"on", "bytes", "data", "size", "error"} /\ wav.on = FALSE
        /\ wav.size = 0 /\ wav.data = <<>> /\ wav.error = FALSE
    BY DEF RecInit, NoWav
  <2>2. wav.on \in BOOLEAN /\ wav.error \in BOOLEAN /\ ~wav.on
    BY <2>1
  <2> QED BY <1>1, <2>1, <2>2 DEF WavInv
<1>3. YmInv
  <2>1. /\ DOMAIN ym = {"on", "frames", "file", "count", "error"} /\ ym.on = FALSE
        /\ ym.frames = <<>> /\ ym.file = <<>> /\ ym.error = FALSE
    BY DEF RecInit, NoYm
  <2>2. ym.on \in BOOLEAN /\ ym.error \in BOOLEAN /\ ~ym.on
    BY <2>1
  <2> QED BY <1>1, <2>1, <2>2 DEF YmInv
<1>4. AviInv
  <2>1. DOMAIN avi = AviFields /\ avi.on = FALSE /\ avi.cells = <<>> /\ avi.again = FALSE
    BY DEF RecInit, NoAvi, AviFields
  <2>2. avi.on \in BOOLEAN /\ avi.again \in BOOLEAN /\ ~avi.on /\ ~(avi.cells # <<>>)
    BY <2>1
  <2> QED BY ONLY <1>1, <2>1, <2>2 DEF AviInv, AviFields
<1> QED BY <1>1, <1>2, <1>3, <1>4 DEF RecInv

\* The invariant gives what the run checks of a finished recording.
LEMMA RecIsWhole == RecInv => RecordingIsWhole
BY DEF RecInv, WavInv, YmInv, AviInv, RecordingIsWhole

-----------------------------------------------------------------------------
(* The output ring of the telnet console, counted from its tail.           *)
RingIndex == 0..(RingSlots - 1)
OnFrom(x) == IF x + 1 = RingSlots THEN 0 ELSE x + 1
RingDist(a, b) == IF a <= b THEN b - a ELSE b - a + RingSlots
RingCell(a, k) == IF a + k < RingSlots THEN a + k ELSE a + k - RingSlots
RingVals(r, a, b) == {r[RingCell(a, k)] : k \in 0..(RingDist(a, b) - 1)}
RingRises(r, a, b) ==
  \A j \in 0..(RingDist(a, b) - 1) : \A i \in 0..(j - 1) : r[RingCell(a, i)] < r[RingCell(a, j)]

\* The next place of the ring is a place of the ring.
LEMMA OneOn ==
  ASSUME NEW x \in RingIndex
  PROVE  (x + 1) % RingSlots = OnFrom(x) /\ OnFrom(x) \in RingIndex
BY RecAssumption DEF RingIndex, OnFrom

\* The cells from a to b of the ring: how many, which, and never b itself.
LEMMA DistBounds ==
  ASSUME NEW a \in RingIndex, NEW b \in RingIndex
  PROVE  /\ RingDist(a, b) \in 0..(RingSlots - 1) /\ (RingDist(a, b) = 0 <=> a = b)
         /\ OnFrom(b) = a <=> RingDist(a, b) = RingSlots - 1
         /\ \A k \in 0..(RingDist(a, b) - 1) : RingCell(a, k) \in RingIndex /\ RingCell(a, k) # b
BY RecAssumption DEF RingIndex, OnFrom, RingDist, RingCell

\* The reader takes the cell at the tail.
LEMMA DistShrinks ==
  ASSUME NEW a \in RingIndex, NEW b \in RingIndex, a # b
  PROVE  /\ RingDist(OnFrom(a), b) = RingDist(a, b) - 1
         /\ \A k \in 0..(RingDist(a, b) - 2) : RingCell(OnFrom(a), k) = RingCell(a, k + 1)
         /\ RingCell(a, 0) = a
BY RecAssumption DEF RingIndex, OnFrom, RingDist, RingCell

\* Taking the oldest cell leaves the rest rising, and all above the one taken.
LEMMA CellTaken ==
  ASSUME NEW a \in RingIndex, NEW b \in RingIndex, a # b, NEW r \in [RingIndex -> Nat], RingRises(r, a, b)
  PROVE  /\ RingRises(r, OnFrom(a), b)
         /\ RingVals(r, a, b) = RingVals(r, OnFrom(a), b) \cup {r[a]}
         /\ \A v \in RingVals(r, OnFrom(a), b) : r[a] < v
<1> DEFINE d == RingDist(a, b)
           o == OnFrom(a)
<1>1. d \in Nat /\ d >= 1
  BY DistBounds, RecAssumption
<1>2. RingDist(o, b) - 1 = d - 2 /\ RingCell(a, 0) = a /\ \A k \in 0..(d - 2) : RingCell(o, k) = RingCell(a, k + 1)
  BY <1>1, DistShrinks
<1>3. RingVals(r, o, b) = {r[RingCell(o, k)] : k \in 0..(d - 2)}
  BY <1>2, Zenon DEF RingVals
<1>4. RingVals(r, a, b) = {r[RingCell(a, k)] : k \in 0..(d - 1)}
  BY Zenon DEF RingVals
<1>5. \A j \in 0..(d - 1) : \A i \in 0..(j - 1) : r[RingCell(a, i)] < r[RingCell(a, j)]
  BY Zenon DEF RingRises
<1> HIDE DEF d, o
<1>6. \A v \in RingVals(r, o, b) : v \in RingVals(r, a, b) /\ r[a] < v
  <2> SUFFICES ASSUME NEW k \in 0..(d - 2)
               PROVE  r[RingCell(o, k)] \in RingVals(r, a, b) /\ r[a] < r[RingCell(o, k)]
    BY <1>3
  <2>1. k + 1 \in 0..(d - 1) /\ 0 \in 0..((k + 1) - 1)
    BY <1>1
  <2> QED BY <1>2, <1>4, <1>5, <2>1
<1>7. r[a] \in RingVals(r, a, b)
  <2>1. 0 \in 0..(d - 1)
    BY <1>1
  <2> QED BY <1>2, <1>4, <2>1
<1>8. \A v \in RingVals(r, a, b) : v = r[a] \/ v \in RingVals(r, o, b)
  <2> SUFFICES ASSUME NEW k \in 0..(d - 1)
               PROVE  r[RingCell(a, k)] = r[a] \/ r[RingCell(a, k)] \in RingVals(r, o, b)
    BY <1>4
  <2>1. CASE k = 0
    BY <1>2, <2>1
  <2>2. CASE k # 0
    <3>1. k - 1 \in 0..(d - 2) /\ (k - 1) + 1 = k
      BY <1>1, <2>2
    <3> QED BY <1>2, <1>3, <3>1
  <2> QED BY <2>1, <2>2
<1>9. RingRises(r, o, b)
  <2> SUFFICES ASSUME NEW j \in 0..(d - 2), NEW i \in 0..(j - 1)
               PROVE  r[RingCell(o, i)] < r[RingCell(o, j)]
    BY <1>2 DEF RingRises
  <2>1. j + 1 \in 0..(d - 1) /\ i + 1 \in 0..((j + 1) - 1) /\ i \in 0..(d - 2)
    BY <1>1
  <2> QED BY <1>2, <1>5, <2>1
<1>10. RingVals(r, a, b) = RingVals(r, o, b) \cup {r[a]}
  BY ONLY <1>6, <1>7, <1>8
<1> QED BY ONLY <1>6, <1>9, <1>10, Zenon DEF o

\* The writer publishes the cell at the head.
LEMMA DistGrows ==
  ASSUME NEW a \in RingIndex, NEW b \in RingIndex, RingDist(a, b) < RingSlots - 1
  PROVE  /\ RingDist(a, OnFrom(b)) = RingDist(a, b) + 1
         /\ RingCell(a, RingDist(a, b)) = b
BY RecAssumption DEF RingIndex, OnFrom, RingDist, RingCell

\* Publishing the cell at the head adds its value, above all the others.
LEMMA CellPublished ==
  ASSUME NEW a \in RingIndex, NEW b \in RingIndex, RingDist(a, b) < RingSlots - 1,
         NEW r \in [RingIndex -> Nat], RingRises(r, a, b), \A v \in RingVals(r, a, b) : v < r[b]
  PROVE  /\ RingRises(r, a, OnFrom(b))
         /\ RingVals(r, a, OnFrom(b)) = RingVals(r, a, b) \cup {r[b]}
<1> DEFINE d == RingDist(a, b)
           o == OnFrom(b)
<1>1. d \in Nat
  BY DistBounds, RecAssumption
<1>2. RingDist(a, o) - 1 = d /\ RingCell(a, d) = b
  BY <1>1, DistGrows
<1>3. RingVals(r, a, o) = {r[RingCell(a, k)] : k \in 0..d}
  BY <1>2, Zenon DEF RingVals
<1>4. RingVals(r, a, b) = {r[RingCell(a, k)] : k \in 0..(d - 1)}
  BY Zenon DEF RingVals
<1>5. \A j \in 0..(d - 1) : \A i \in 0..(j - 1) : r[RingCell(a, i)] < r[RingCell(a, j)]
  BY Zenon DEF RingRises
<1> HIDE DEF d, o
<1>6. \A v \in RingVals(r, a, b) : v \in RingVals(r, a, o)
  <2>1. \A k \in 0..(d - 1) : k \in 0..d
    BY <1>1
  <2> QED BY <1>3, <1>4, <2>1
<1>7. r[b] \in RingVals(r, a, o)
  <2>1. d \in 0..d
    BY <1>1
  <2> QED BY <1>2, <1>3, <2>1
<1>8. \A v \in RingVals(r, a, o) : v = r[b] \/ v \in RingVals(r, a, b)
  <2>1. \A k \in 0..d : k = d \/ k \in 0..(d - 1)
    BY <1>1
  <2> QED BY <1>2, <1>3, <1>4, <2>1
<1>9. RingRises(r, a, o)
  <2> SUFFICES ASSUME NEW j \in 0..d, NEW i \in 0..(j - 1)
               PROVE  r[RingCell(a, i)] < r[RingCell(a, j)]
    BY <1>2 DEF RingRises
  <2>1. i \in 0..(d - 1) /\ (j = d \/ j \in 0..(d - 1))
    BY <1>1
  <2>2. r[RingCell(a, i)] \in RingVals(r, a, b)
    BY <1>4, <2>1
  <2> QED BY <1>2, <1>5, <2>1, <2>2
<1> QED BY <1>6, <1>7, <1>8, <1>9 DEF o

\* What the writer stores in the head's cell, no reader sees.
LEMMA CellStored ==
  ASSUME NEW a \in RingIndex, NEW b \in RingIndex, NEW r \in [RingIndex -> Nat], NEW x \in Nat,
         NEW s, s = [r EXCEPT ![b] = x]
  PROVE  /\ s \in [RingIndex -> Nat] /\ s[b] = x
         /\ RingVals(s, a, b) = RingVals(r, a, b)
         /\ RingRises(r, a, b) => RingRises(s, a, b)
<1> DEFINE d == RingDist(a, b)
<1>1. d \in Nat
  BY DistBounds, RecAssumption
<1>2. s \in [RingIndex -> Nat] /\ s[b] = x /\ \A i \in RingIndex : i # b => s[i] = r[i]
  OBVIOUS
<1>3. \A k \in 0..(d - 1) : s[RingCell(a, k)] = r[RingCell(a, k)]
  BY <1>2, DistBounds
<1>4. RingVals(s, a, b) = RingVals(r, a, b)
  BY <1>3 DEF RingVals
<1>5. ASSUME RingRises(r, a, b) PROVE RingRises(s, a, b)
  <2> SUFFICES ASSUME NEW j \in 0..(d - 1), NEW i \in 0..(j - 1)
               PROVE  s[RingCell(a, i)] < s[RingCell(a, j)]
    BY DEF RingRises
  <2>1. i \in 0..(d - 1)
    BY <1>1
  <2> QED BY <1>3, <1>5, <2>1 DEF RingRises
<1> QED BY <1>2, <1>4, <1>5

-----------------------------------------------------------------------------
(* The bytes of the console by their numbers: all, what went to a client   *)
(* or is in flush_buf (0 is the LF); P, what is in the ring; w, the byte   *)
(* stored and not published; D, what was dropped; n, the last one made.    *)
Numbers(all, P, w, D, n) ==
  /\ \A i, j \in DOMAIN all : i < j /\ all[i] # 0 /\ all[j] # 0 => all[i] < all[j]
  /\ \A i \in DOMAIN all : all[i] \in 0..n /\ (all[i] # 0 => all[i] \notin D)
  /\ \A v \in P : v \in 1..n /\ v \notin D /\ \A i \in DOMAIN all : all[i] < v
  /\ D \subseteq 0..n
  /\ w \in 0..n
  /\ w # 0 => /\ w \notin D /\ \A v \in P : v < w
              /\ \A i \in DOMAIN all : all[i] < w
  /\ \A k \in 1..n : k = w \/ k \in D \/ k \in P \/ \E i \in DOMAIN all : all[i] = k

\* A dropped character is accounted for as dropped.
LEMMA NumberDropped ==
  ASSUME NEW all, NEW P, NEW D, NEW n \in Nat, Numbers(all, P, 0, D, n)
  PROVE  Numbers(all, P, 0, D \cup {n + 1}, n + 1)
BY DEF Numbers

\* A stored one as being written.
LEMMA NumberStored ==
  ASSUME NEW all, NEW P, NEW D, NEW n \in Nat, Numbers(all, P, 0, D, n)
  PROVE  Numbers(all, P, n + 1, D, n + 1)
BY DEF Numbers

\* A published one as in the ring.
LEMMA NumberPublished ==
  ASSUME NEW all, NEW P, NEW w, NEW D, NEW n \in Nat, Numbers(all, P, w, D, n), w # 0
  PROVE  Numbers(all, P \cup {w}, 0, D, n)
BY DEF Numbers

\* The reader takes the smallest: to the batch, or away.
LEMMA NumberTaken ==
  ASSUME NEW all \in Seq(Nat), NEW P, NEW Q, NEW w, NEW D, NEW n \in Nat, NEW x,
         Numbers(all, P, w, D, n), P = Q \cup {x}, \A v \in Q : x < v, NEW b \in Seq(Nat)
  PROVE  /\ b = <<>> => Numbers(all \o b, Q, w, D \cup {x}, n)
         /\ b \in {<<x>>, <<x, 0>>} => Numbers(all \o b, Q, w, D, n)
<1> DEFINE l == Len(all)
           a == all \o b
<1>1. l \in Nat /\ DOMAIN all = 1..l /\ x \in 1..n /\ x \notin D /\ \A i \in DOMAIN all : all[i] < x
  <2>1. x \in P
    OBVIOUS
  <2>2. x \in 1..n /\ x \notin D /\ \A i \in DOMAIN all : all[i] < x
    BY <2>1 DEF Numbers
  <2> QED BY <2>2
<1>2. w \in 0..n /\ (w # 0 => x < w)
  BY DEF Numbers
<1>3. ASSUME b = <<>> PROVE Numbers(a, Q, w, D \cup {x}, n)
  <2>1. a = all
    BY <1>3
  <2>2. Numbers(all, Q, w, D \cup {x}, n)
    BY <1>1, <1>2 DEF Numbers
  <2> QED BY <2>1, <2>2
<1>4. ASSUME NEW m \in 1..2, Len(b) = m, b[1] = x, m = 2 => b[2] = 0
      PROVE  Numbers(a, Q, w, D, n)
  <2>1. DOMAIN a = 1..(l + m) /\ (\A i \in 1..l : a[i] = all[i]) /\ a[l + 1] = x /\ (m = 2 => a[l + 2] = 0)
    <3>1. Len(a) = l + m /\ a \in Seq(Nat)
      BY <1>4
    <3>2. \A i \in 1..l : a[i] = all[i]
      OBVIOUS
    <3>3. a[l + 1] = b[1] /\ (m = 2 => a[l + 2] = b[2])
      BY <1>1, <1>4
    <3> QED BY <1>4, <3>1, <3>2, <3>3
  <2> HIDE DEF a, l
  <2>2. \A i \in DOMAIN a : \/ i \in 1..l /\ a[i] = all[i]
                            \/ i = l + 1 /\ a[i] = x
                            \/ i = l + 2 /\ a[i] = 0
    <3> SUFFICES ASSUME NEW i \in 1..(l + m)
                 PROVE  \/ i \in 1..l /\ a[i] = all[i]
                        \/ i = l + 1 /\ a[i] = x
                        \/ i = l + 2 /\ a[i] = 0
      BY <2>1
    <3>1. i \in 1..l \/ i = l + 1 \/ (i = l + 2 /\ m = 2)
      <4>1. l \in Nat /\ m \in 1..2 /\ i \in 1..(l + m)
        BY <1>1
      <4> QED BY ONLY <4>1
    <3> QED BY <2>1, <3>1
  <2>3. ASSUME NEW i \in DOMAIN a, NEW j \in DOMAIN a, i < j, a[i] # 0, a[j] # 0 PROVE a[i] < a[j]
    <3>1. i \in 1..l /\ a[i] = all[i]
      BY ONLY <1>1, <1>4, <2>1, <2>2, <2>3
    <3>2. CASE j \in 1..l /\ a[j] = all[j]
      BY <1>1, <2>3, <3>1, <3>2 DEF Numbers
    <3>3. CASE a[j] = x
      BY <1>1, <3>1, <3>3
    <3> QED BY <2>2, <2>3, <3>2, <3>3
  <2>4. \A i \in DOMAIN a : a[i] \in 0..n /\ (a[i] # 0 => a[i] \notin D) /\ a[i] <= x
    BY <1>1, <2>2 DEF Numbers
  <2>5. \A v \in Q : v \in 1..n /\ v \notin D /\ \A i \in DOMAIN a : a[i] < v
    BY <1>1, <2>4 DEF Numbers
  <2>6. w # 0 => w \notin D /\ (\A v \in Q : v < w) /\ \A i \in DOMAIN a : a[i] < w
    BY <1>1, <1>2, <2>4 DEF Numbers
  <2>7. ASSUME NEW k \in 1..n PROVE k = w \/ k \in D \/ k \in Q \/ \E i \in DOMAIN a : a[i] = k
    <3>1. k = w \/ k \in D \/ k \in P \/ \E i \in DOMAIN all : all[i] = k
      BY DEF Numbers
    <3>2. \A i \in DOMAIN all : i \in DOMAIN a /\ a[i] = all[i]
      BY <1>1, <2>1
    <3>3. l + 1 \in DOMAIN a
      BY <1>1, <2>1
    <3> QED BY <2>1, <3>1, <3>2, <3>3
  <2>8. D \subseteq 0..n
    BY DEF Numbers
  <2> QED BY <1>2, <2>3, <2>4, <2>5, <2>6, <2>7, <2>8 DEF Numbers
<1>5. ASSUME b = <<x>> PROVE Numbers(a, Q, w, D, n)
  <2>1. Len(b) = 1 /\ b[1] = x
    BY <1>5
  <2> QED BY <1>4, <2>1
<1>6. ASSUME b = <<x, 0>> PROVE Numbers(a, Q, w, D, n)
  <2>1. Len(b) = 2 /\ b[1] = x /\ b[2] = 0
    BY <1>6
  <2> QED BY <1>4, <2>1
<1> QED BY <1>3, <1>5, <1>6

\* A failed write drops the batch.
LEMMA NumberLost ==
  ASSUME NEW out \in Seq(Nat), NEW batch \in Seq(Nat), NEW P, NEW w, NEW D, NEW n \in Nat,
         Numbers(out \o batch, P, w, D, n)
  PROVE  Numbers(out, P, w, D \cup Range(batch), n)
<1> DEFINE a == out \o batch
           l == Len(out)
           m == Len(batch)
<1>1. /\ l \in Nat /\ m \in Nat /\ DOMAIN out = 1..l /\ DOMAIN batch = 1..m /\ DOMAIN a = 1..(l + m)
      /\ \A i \in 1..l : a[i] = out[i]
      /\ \A i \in 1..m : a[l + i] = batch[i]
  OBVIOUS
<1>2. Numbers(a, P, w, D, n)
  OBVIOUS
<1> HIDE DEF a, l, m
<1>3. Range(batch) = {batch[i] : i \in 1..m}
  BY <1>1 DEF Range
<1>4. \A i \in 1..l : i \in DOMAIN a /\ a[i] = out[i]
  BY <1>1
<1>5. \A i \in 1..m : l + i \in DOMAIN a /\ a[l + i] = batch[i]
  BY <1>1
<1>6. \A r \in Range(batch) : /\ r \in 0..n
                              /\ \A v \in P : r < v
                              /\ w # 0 => r < w
                              /\ \A i \in 1..l : out[i] # 0 => out[i] # r
  <2> SUFFICES ASSUME NEW j \in 1..m
               PROVE  /\ batch[j] \in 0..n
                      /\ \A v \in P : batch[j] < v
                      /\ w # 0 => batch[j] < w
                      /\ \A i \in 1..l : out[i] # 0 => out[i] # batch[j]
    BY <1>3
  <2>1. batch[j] \in 0..n /\ (\A v \in P : batch[j] < v) /\ (w # 0 => batch[j] < w)
    BY <1>2, <1>5 DEF Numbers
  <2>2. ASSUME NEW i \in 1..l, out[i] # 0 PROVE out[i] # batch[j]
    <3>1. i < l + j
      BY <1>1
    <3>2. batch[j] # 0 => out[i] < batch[j]
      BY <1>2, <1>4, <1>5, <2>2, <3>1 DEF Numbers
    <3> QED BY <2>2, <3>2, <1>4, <1>2 DEF Numbers
  <2> QED BY <2>1, <2>2
<1>7. \A i, j \in DOMAIN out : i < j /\ out[i] # 0 /\ out[j] # 0 => out[i] < out[j]
  BY <1>1, <1>2, <1>4 DEF Numbers
<1>8. \A i \in DOMAIN out : out[i] \in 0..n /\ (out[i] # 0 => out[i] \notin D \cup Range(batch))
  BY <1>1, <1>2, <1>4, <1>6 DEF Numbers
<1>9. \A v \in P : v \in 1..n /\ v \notin D \cup Range(batch) /\ \A i \in DOMAIN out : out[i] < v
  BY <1>1, <1>2, <1>4, <1>6 DEF Numbers
<1>10. D \cup Range(batch) \subseteq 0..n /\ w \in 0..n
  BY <1>2, <1>6 DEF Numbers
<1>11. w # 0 => /\ w \notin D \cup Range(batch) /\ \A v \in P : v < w
                /\ \A i \in DOMAIN out : out[i] < w
  BY <1>1, <1>2, <1>4, <1>6 DEF Numbers
<1>12. ASSUME NEW k \in 1..n
       PROVE  k = w \/ k \in D \cup Range(batch) \/ k \in P \/ \E i \in DOMAIN out : out[i] = k
  <2>1. CASE k = w \/ k \in D \/ k \in P
    BY <2>1
  <2>2. CASE \E i \in DOMAIN a : a[i] = k
    <3> PICK i \in DOMAIN a : a[i] = k
      BY <2>2
    <3>1. CASE i \in 1..l
      BY <1>1, <3>1
    <3>2. CASE i \in (l + 1)..(l + m)
      <4>1. i - l \in 1..m /\ l + (i - l) = i
        BY <1>1, <3>2
      <4> QED BY <1>3, <1>5, <4>1
    <3> QED BY <1>1, <3>1, <3>2
  <2> QED BY <1>2, <2>1, <2>2 DEF Numbers
<1> QED BY <1>7, <1>8, <1>9, <1>10, <1>11, <1>12 DEF Numbers

-----------------------------------------------------------------------------
TelFields == {"ring", "head", "tail", "writing", "n", "kinds", "stage", "at", "upto", "batch",
              "client", "out", "dropped"}
TelAll(t) == t.out \o t.batch
TelReader(t) == IF t.stage = "drain" THEN t.at ELSE t.tail
TelTypes(t) ==
  /\ DOMAIN t = TelFields
  /\ t.ring \in [RingIndex -> Nat]
  /\ t.head \in RingIndex /\ t.tail \in RingIndex /\ t.at \in RingIndex /\ t.upto \in RingIndex
  /\ t.n \in Nat /\ t.kinds \in Seq({"print", "cr", "junk"}) /\ Len(t.kinds) = t.n
  /\ t.out \in Seq(Nat) /\ t.batch \in Seq(Nat)

\* The reader is between the tail and the head it has seen, and the stored byte has room.
TelPlaces(t) ==
  /\ t.stage = "select" => t.batch = <<>>
  /\ t.stage = "drain" => /\ RingDist(t.tail, t.at) + RingDist(t.at, t.head) = RingDist(t.tail, t.head)
                          /\ RingDist(t.at, t.upto) + RingDist(t.upto, t.head) = RingDist(t.at, t.head)
  /\ t.writing # 0 => t.ring[t.head] = t.writing /\ RingDist(t.tail, t.head) < RingSlots - 1

TelCells(t) ==
  /\ RingRises(t.ring, TelReader(t), t.head)
  /\ Numbers(TelAll(t), RingVals(t.ring, TelReader(t), t.head), t.writing, t.dropped, t.n)

TelInv(t) == TelTypes(t) /\ TelPlaces(t) /\ TelCells(t)

\* A place of the ring is at no distance from itself.
LEMMA DistOfSame == ASSUME NEW a \in RingIndex PROVE RingDist(a, a) = 0
  BY RecAssumption DEF RingIndex, RingDist

\* Past the first sequence a joined one reads the second.
LEMMA AfterJoin ==
  ASSUME NEW p \in Seq(Nat), NEW q \in Seq(Nat), NEW i \in (Len(p) + 1)..(Len(p) + Len(q))
  PROVE  (p \o q)[i] = q[i - Len(p)]
  OBVIOUS

\* The order in which the reply and its pieces are joined does not matter.
LEMMA BatchGrows ==
  ASSUME NEW p \in Seq(Nat), NEW q \in Seq(Nat), NEW r \in Seq(Nat)
  PROVE  (p \o q) \o r = p \o (q \o r)
<1>1. (p \o q) \o r \in Seq(Nat) /\ p \o (q \o r) \in Seq(Nat)
  OBVIOUS
<1>2. Len((p \o q) \o r) = Len(p) + Len(q) + Len(r) /\ Len(p \o (q \o r)) = Len(p) + Len(q) + Len(r)
  OBVIOUS
<1> DEFINE a == (p \o q) \o r
           b == p \o (q \o r)
           k == Len(p)
           l == Len(q)
           m == Len(r)
<1>3. k \in Nat /\ l \in Nat /\ m \in Nat
  OBVIOUS
<1>4. \A i \in 1..(k + l + m) : a[i] = b[i]
  <2> SUFFICES ASSUME NEW i \in 1..(k + l + m) PROVE a[i] = b[i]
    OBVIOUS
  <2> DEFINE c == p \o q
             d == q \o r
  <2>1. c \in Seq(Nat) /\ Len(c) = k + l /\ d \in Seq(Nat) /\ Len(d) = l + m
    OBVIOUS
  <2>2. CASE i <= k
    <3>1. i \in 1..k /\ i \in 1..(k + l)
      BY <1>3, <2>2
    <3>2. c[i] = p[i]
      BY <3>1
    <3>3. b[i] = p[i]
      BY <2>1, <3>1
    <3> HIDE DEF c
    <3>4. (c \o r)[i] = c[i]
      BY <2>1, <3>1
    <3> QED BY <3>2, <3>3, <3>4 DEF c
  <2>3. CASE i > k /\ i <= k + l
    <3>1. i \in 1..(k + l) /\ i - k \in 1..l /\ i \in (k + 1)..(k + l)
      BY <1>3, <2>3
    <3>2. c[i] = q[i - k] /\ d[i - k] = q[i - k]
      BY <3>1
    <3> HIDE DEF c, d
    <3>3. (c \o r)[i] = c[i]
      BY <2>1, <3>1
    <3>4. (p \o d)[i] = d[i - k]
      BY <1>3, <2>1, <3>1
    <3> QED BY <3>2, <3>3, <3>4 DEF c, d
  <2>4. CASE i > k + l
    <3>1. i - (k + l) \in 1..m /\ i - k \in (l + 1)..(l + m) /\ (i - k) - l = i - (k + l)
            /\ i \in (k + 1)..(k + (l + m)) /\ i \in ((k + l) + 1)..((k + l) + m)
      BY <1>3, <2>4
    <3>2. d[i - k] = r[i - (k + l)]
      BY <1>3, <3>1
    <3> HIDE DEF c, d
    <3>3. (c \o r)[i] = r[i - (k + l)]
      BY <1>3, <2>1, <2>4, <3>1
    <3>4. (p \o d)[i] = d[i - k]
      BY ONLY <1>3, <2>1, <3>1, AfterJoin, p \in Seq(Nat) DEF k, l, m
    <3> QED BY <3>2, <3>3, <3>4 DEF c, d
  <2> QED BY <1>3, <2>2, <2>3, <2>4
<1> HIDE DEF a, b
<1>5. a = b
  <2>1. a \in Seq(Nat) /\ b \in Seq(Nat) /\ Len(a) = k + l + m /\ Len(b) = k + l + m
    BY <1>1, <1>2 DEF a, b
  <2> QED BY ONLY <1>4, <2>1, SeqEqual
<1> QED BY <1>5 DEF a, b

\* Distances in the ring are natural numbers.
LEMMA DistIsNat == \A a, b \in RingIndex : RingDist(a, b) \in Nat
<1>1. \A a, b \in RingIndex : RingDist(a, b) \in 0..(RingSlots - 1)
  BY DistBounds
<1> QED BY <1>1, RecAssumption

\* The reader's place is in the ring, no further from the head than the tail is.
LEMMA TelReaderNear ==
  ASSUME NEW t, TelInv(t)
  PROVE  /\ TelReader(t) \in RingIndex
         /\ RingDist(TelReader(t), t.head) \in Nat /\ RingDist(t.tail, t.head) \in Nat
         /\ RingDist(TelReader(t), t.head) <= RingDist(t.tail, t.head)
<1>1. TelReader(t) \in RingIndex /\ t.tail \in RingIndex /\ t.head \in RingIndex /\ t.at \in RingIndex
  BY DEF TelInv, TelTypes, TelReader
<1>2. \A a, b \in RingIndex : RingDist(a, b) \in 0..(RingSlots - 1)
  BY DistBounds
<1>3. RingDist(t.tail, t.at) \in Nat /\ RingDist(t.at, t.head) \in Nat /\ RingDist(t.tail, t.head) \in Nat
  BY <1>1, <1>2, RecAssumption
<1>4. CASE t.stage = "drain"
  BY <1>1, <1>3, <1>4 DEF TelInv, TelPlaces, TelReader
<1>5. CASE t.stage # "drain"
  BY <1>1, <1>3, <1>5 DEF TelReader
<1> QED BY <1>4, <1>5

\* Storing or dropping a character keeps the telnet invariant.
LEMMA TelOut ==
  ASSUME TelInv(tel), on_txt_output
  PROVE  TelInv(tel')
<1> DEFINE n == tel.n + 1
<1>1. TelTypes(tel) /\ TelPlaces(tel) /\ TelCells(tel) /\ tel.writing = 0
  BY DEF TelInv, on_txt_output
<1>2. (tel.head + 1) % RingSlots = OnFrom(tel.head)
  BY <1>1, OneOn DEF TelTypes
<1>3. PICK kind \in {"print", "cr", "junk"} :
        tel' = IF (tel.head + 1) % RingSlots = tel.tail
               THEN [tel EXCEPT !.n = n, !.kinds = Append(@, kind), !.dropped = @ \cup {n}]
               ELSE [tel EXCEPT !.n = n, !.kinds = Append(@, kind), !.ring[tel.head] = n,
                                !.writing = n]
  BY Zenon DEF on_txt_output
<1> DEFINE k == Append(tel.kinds, kind)
<1>4. n \in Nat /\ k \in Seq({"print", "cr", "junk"}) /\ Len(k) = n
  BY <1>1 DEF TelTypes
<1>5. CASE (tel.head + 1) % RingSlots = tel.tail
  <2>1. tel' = [tel EXCEPT !.n = n, !.kinds = k, !.dropped = tel.dropped \cup {n}]
    BY <1>1, <1>3, <1>5 DEF TelTypes, TelFields
  <2> HIDE DEF n, k
  <2>2. /\ DOMAIN tel' = TelFields /\ tel'.n = n /\ tel'.kinds = k /\ tel'.dropped = tel.dropped \cup {n}
        /\ tel'.ring = tel.ring /\ tel'.head = tel.head /\ tel'.tail = tel.tail
        /\ tel'.writing = tel.writing /\ tel'.stage = tel.stage /\ tel'.at = tel.at
        /\ tel'.upto = tel.upto /\ tel'.batch = tel.batch /\ tel'.out = tel.out
    BY <1>1, <2>1 DEF TelTypes, TelFields
  <2>3. TelTypes(tel') /\ TelPlaces(tel')
    BY <1>1, <1>4, <2>2 DEF TelTypes, TelPlaces
  <2>4. TelReader(tel') = TelReader(tel) /\ TelAll(tel') = TelAll(tel)
    BY <2>2 DEF TelReader, TelAll
  <2> DEFINE P == RingVals(tel.ring, TelReader(tel), tel.head)
             all == TelAll(tel)
  <2>5. Numbers(all, P, 0, tel.dropped, tel.n) /\ tel.n \in Nat
    BY <1>1 DEF TelCells, TelTypes
  <2> HIDE DEF P, all
  <2>6. Numbers(all, P, 0, tel.dropped \cup {n}, n)
    BY <2>5, NumberDropped DEF n
  <2>7. TelCells(tel')
    BY <1>1, <2>2, <2>4, <2>6 DEF TelCells, P, all
  <2> QED BY <2>3, <2>7 DEF TelInv
<1>6. CASE ~((tel.head + 1) % RingSlots = tel.tail)
  <2> DEFINE r == [tel.ring EXCEPT ![tel.head] = n]
  <2>1. tel' = [tel EXCEPT !.n = n, !.kinds = k, !.ring = r, !.writing = n]
    BY <1>1, <1>3, <1>6 DEF TelTypes, TelFields
  <2> HIDE DEF n, k, r
  <2>2. /\ DOMAIN tel' = TelFields /\ tel'.n = n /\ tel'.kinds = k /\ tel'.dropped = tel.dropped
        /\ tel'.ring = r /\ tel'.head = tel.head /\ tel'.tail = tel.tail
        /\ tel'.writing = n /\ tel'.stage = tel.stage /\ tel'.at = tel.at
        /\ tel'.upto = tel.upto /\ tel'.batch = tel.batch /\ tel'.out = tel.out
    BY <1>1, <2>1 DEF TelTypes, TelFields
  <2> DEFINE P == RingVals(tel.ring, TelReader(tel), tel.head)
             all == TelAll(tel)
  <2>3. Numbers(all, P, 0, tel.dropped, tel.n) /\ tel.n \in Nat /\ RingRises(tel.ring, TelReader(tel), tel.head)
    BY <1>1 DEF TelCells, TelTypes
  <2>4. /\ r \in [RingIndex -> Nat] /\ r[tel.head] = n
        /\ RingVals(r, TelReader(tel), tel.head) = P
        /\ RingRises(r, TelReader(tel), tel.head)
    <3>1. TelReader(tel) \in RingIndex /\ tel.head \in RingIndex /\ tel.ring \in [RingIndex -> Nat]
      BY <1>1, TelReaderNear DEF TelTypes
    <3> QED BY <1>4, <2>3, <3>1, CellStored DEF r
  <2>5. RingDist(tel.tail, tel.head) < RingSlots - 1
    <3>1. RingDist(tel.tail, tel.head) \in 0..(RingSlots - 1) /\ RingDist(tel.tail, tel.head) # RingSlots - 1
      BY <1>1, <1>2, <1>6, DistBounds DEF TelTypes
    <3> QED BY <3>1, RecAssumption
  <2>6. TelTypes(tel') /\ TelPlaces(tel')
    BY <1>1, <1>4, <2>2, <2>4, <2>5 DEF TelTypes, TelPlaces
  <2>7. TelReader(tel') = TelReader(tel) /\ TelAll(tel') = TelAll(tel)
    BY <2>2 DEF TelReader, TelAll
  <2> HIDE DEF P, all
  <2>8. Numbers(all, P, n, tel.dropped, n)
    BY <2>3, NumberStored DEF n
  <2>9. TelCells(tel')
    BY <2>2, <2>4, <2>7, <2>8 DEF TelCells, all
  <2> QED BY <2>6, <2>9 DEF TelInv
<1> QED BY <1>5, <1>6

\* So does publishing the character stored.
LEMMA TelPublish ==
  ASSUME TelInv(tel), publish_output
  PROVE  TelInv(tel')
<1> DEFINE h == OnFrom(tel.head)
<1>1. TelTypes(tel) /\ TelPlaces(tel) /\ TelCells(tel) /\ tel.writing # 0
  BY DEF TelInv, publish_output
<1>2. (tel.head + 1) % RingSlots = h /\ h \in RingIndex
  BY <1>1, OneOn DEF TelTypes
<1> HIDE DEF h
<1>3. /\ DOMAIN tel' = TelFields /\ tel'.n = tel.n /\ tel'.kinds = tel.kinds /\ tel'.dropped = tel.dropped
      /\ tel'.ring = tel.ring /\ tel'.head = h /\ tel'.tail = tel.tail
      /\ tel'.writing = 0 /\ tel'.stage = tel.stage /\ tel'.at = tel.at
      /\ tel'.upto = tel.upto /\ tel'.batch = tel.batch /\ tel'.out = tel.out
  BY <1>1, <1>2 DEF TelTypes, TelFields, publish_output
<1>4. TelTypes(tel')
  BY <1>1, <1>2, <1>3 DEF TelTypes
<1>5. RingDist(tel.tail, tel.head) < RingSlots - 1 /\ tel.ring[tel.head] = tel.writing
  BY <1>1 DEF TelPlaces
<1>6. ASSUME NEW a \in RingIndex, RingDist(a, tel.head) < RingSlots - 1
      PROVE  RingDist(a, h) = RingDist(a, tel.head) + 1
  BY <1>1, <1>6, DistGrows DEF TelTypes, h
<1>7. TelPlaces(tel')
  <2>1. CASE tel.stage = "drain"
    <3>1. /\ RingDist(tel.tail, tel.at) + RingDist(tel.at, tel.head) = RingDist(tel.tail, tel.head)
          /\ RingDist(tel.at, tel.upto) + RingDist(tel.upto, tel.head) = RingDist(tel.at, tel.head)
      BY <1>1, <2>1 DEF TelPlaces
    <3>2. /\ RingDist(tel.tail, tel.at) \in Nat /\ RingDist(tel.at, tel.head) \in Nat
          /\ RingDist(tel.tail, tel.head) \in Nat /\ RingDist(tel.at, tel.upto) \in Nat
          /\ RingDist(tel.upto, tel.head) \in Nat
      BY <1>1, DistIsNat DEF TelTypes
    <3>3. RingDist(tel.at, tel.head) < RingSlots - 1 /\ RingDist(tel.upto, tel.head) < RingSlots - 1
      BY <1>5, <3>1, <3>2, RecAssumption
    <3>4. /\ RingDist(tel.tail, h) = RingDist(tel.tail, tel.head) + 1
          /\ RingDist(tel.at, h) = RingDist(tel.at, tel.head) + 1
          /\ RingDist(tel.upto, h) = RingDist(tel.upto, tel.head) + 1
      BY <1>1, <1>5, <1>6, <3>3 DEF TelTypes
    <3>5. /\ RingDist(tel.tail, tel.at) + RingDist(tel.at, h) = RingDist(tel.tail, h)
          /\ RingDist(tel.at, tel.upto) + RingDist(tel.upto, h) = RingDist(tel.at, h)
      BY ONLY <3>1, <3>2, <3>4
    <3> QED BY <1>3, <2>1, <3>5 DEF TelPlaces
  <2>2. CASE tel.stage # "drain"
    BY <1>1, <1>3, <2>2 DEF TelPlaces
  <2> QED BY <2>1, <2>2
<1>8. TelReader(tel') = TelReader(tel) /\ TelAll(tel') = TelAll(tel)
  BY <1>3 DEF TelReader, TelAll
<1> DEFINE a == TelReader(tel)
           P == RingVals(tel.ring, a, tel.head)
           all == TelAll(tel)
<1>9. Numbers(all, P, tel.writing, tel.dropped, tel.n) /\ tel.n \in Nat /\ RingRises(tel.ring, a, tel.head)
  BY <1>1 DEF TelCells, TelTypes
<1>10. \A v \in P : v < tel.ring[tel.head]
  BY <1>1, <1>5, <1>9 DEF Numbers
<1>11. a \in RingIndex /\ RingDist(a, tel.head) < RingSlots - 1
  BY <1>5, TelReaderNear, RecAssumption
<1> HIDE DEF a
<1>12. RingRises(tel.ring, a, h) /\ RingVals(tel.ring, a, h) = P \cup {tel.writing}
  <2>1. tel.head \in RingIndex /\ tel.ring \in [RingIndex -> Nat]
    BY <1>1 DEF TelTypes
  <2> QED BY <1>5, <1>9, <1>10, <1>11, <2>1, CellPublished DEF h
<1> HIDE DEF P, all
<1>13. Numbers(all, P \cup {tel.writing}, 0, tel.dropped, tel.n)
  BY <1>1, <1>9, NumberPublished
<1>14. TelCells(tel')
  BY <1>3, <1>8, <1>12, <1>13 DEF TelCells, a, all
<1> QED BY <1>4, <1>7, <1>14 DEF TelInv

\* So does the telnet thread's look at the two ends of the ring.
LEMMA TelSelect ==
  ASSUME TelInv(tel), telnet_select
  PROVE  TelInv(tel')
<1>1. TelTypes(tel) /\ TelPlaces(tel) /\ TelCells(tel) /\ tel.stage = "select" /\ tel.batch = <<>>
  BY DEF TelInv, telnet_select, TelPlaces
<1>2. CASE tel' = [tel EXCEPT !.client = FALSE]
  <2>1. /\ DOMAIN tel' = TelFields /\ tel'.n = tel.n /\ tel'.kinds = tel.kinds /\ tel'.dropped = tel.dropped
        /\ tel'.ring = tel.ring /\ tel'.head = tel.head /\ tel'.tail = tel.tail
        /\ tel'.writing = tel.writing /\ tel'.stage = tel.stage /\ tel'.at = tel.at
        /\ tel'.upto = tel.upto /\ tel'.batch = tel.batch /\ tel'.out = tel.out
    BY <1>1, <1>2 DEF TelTypes, TelFields
  <2>2. TelReader(tel') = TelReader(tel) /\ TelAll(tel') = TelAll(tel)
    BY <2>1 DEF TelReader, TelAll
  <2>3. TelTypes(tel') /\ TelPlaces(tel')
    BY <1>1, <2>1 DEF TelTypes, TelPlaces
  <2>4. TelCells(tel')
    BY <1>1, <2>1, <2>2 DEF TelCells
  <2> QED BY <2>3, <2>4 DEF TelInv
<1>3. CASE tel' = [tel EXCEPT !.client = TRUE, !.stage = "drain", !.at = tel.tail,
                              !.upto = tel.head, !.batch = <<>>]
  <2>1. /\ DOMAIN tel' = TelFields /\ tel'.n = tel.n /\ tel'.kinds = tel.kinds /\ tel'.dropped = tel.dropped
        /\ tel'.ring = tel.ring /\ tel'.head = tel.head /\ tel'.tail = tel.tail
        /\ tel'.writing = tel.writing /\ tel'.stage = "drain" /\ tel'.at = tel.tail
        /\ tel'.upto = tel.head /\ tel'.batch = tel.batch /\ tel'.out = tel.out
    BY <1>1, <1>3 DEF TelTypes, TelFields
  <2>2. TelReader(tel') = TelReader(tel) /\ TelAll(tel') = TelAll(tel)
    BY <1>1, <2>1 DEF TelReader, TelAll
  <2>3. TelTypes(tel')
    BY <1>1, <2>1 DEF TelTypes
  <2>4. /\ RingDist(tel.tail, tel.tail) = 0 /\ RingDist(tel.head, tel.head) = 0
        /\ RingDist(tel.tail, tel.head) \in Nat
    BY <1>1, DistOfSame, DistIsNat DEF TelTypes
  <2>5. TelPlaces(tel')
    BY <1>1, <2>1, <2>4 DEF TelPlaces
  <2>6. TelCells(tel')
    BY <1>1, <2>1, <2>2 DEF TelCells
  <2> QED BY <2>3, <2>5, <2>6 DEF TelInv
<1> QED BY <1>2, <1>3 DEF telnet_select

\* So does sending the batch.
LEMMA TelSend ==
  ASSUME TelInv(tel), telnet_send
  PROVE  TelInv(tel')
<1>1. TelTypes(tel) /\ TelPlaces(tel) /\ TelCells(tel) /\ tel.stage = "send"
  BY DEF TelInv, telnet_send
<1> DEFINE all == TelAll(tel)
           a == TelReader(tel)
           P == RingVals(tel.ring, a, tel.head)
<1>2. all \in Seq(Nat) /\ tel.out \in Seq(Nat) /\ tel.batch \in Seq(Nat) /\ tel.n \in Nat
  BY <1>1 DEF TelTypes, TelAll
<1>3. all \o <<>> = all /\ tel.out \o <<>> = tel.out
  BY <1>2
<1>4. CASE tel' = [tel EXCEPT !.stage = "select", !.out = @ \o tel.batch, !.batch = <<>>]
  <2>1. tel' = [tel EXCEPT !.stage = "select", !.out = all, !.batch = <<>>]
    BY <1>1, <1>4 DEF TelTypes, TelFields, TelAll
  <2> HIDE DEF all
  <2>2. /\ DOMAIN tel' = TelFields /\ tel'.n = tel.n /\ tel'.kinds = tel.kinds /\ tel'.dropped = tel.dropped
        /\ tel'.ring = tel.ring /\ tel'.head = tel.head /\ tel'.tail = tel.tail
        /\ tel'.writing = tel.writing /\ tel'.stage = "select" /\ tel'.at = tel.at
        /\ tel'.upto = tel.upto /\ tel'.batch = <<>> /\ tel'.out = all
    BY <1>1, <2>1 DEF TelTypes, TelFields
  <2>3. TelReader(tel') = TelReader(tel)
    BY <1>1, <2>2 DEF TelReader
  <2>4. TelAll(tel') = all
    BY <1>3, <2>2 DEF TelAll
  <2>5. TelTypes(tel') /\ TelPlaces(tel')
    BY <1>1, <1>2, <2>2 DEF TelTypes, TelPlaces
  <2>6. TelCells(tel')
    BY <1>1, <2>2, <2>3, <2>4 DEF TelCells, all
  <2> QED BY <2>5, <2>6 DEF TelInv
<1>5. CASE tel' = [tel EXCEPT !.stage = "select", !.client = FALSE, !.batch = <<>>,
                              !.dropped = @ \cup Range(tel.batch)]
  <2> DEFINE d == tel.dropped \cup Range(tel.batch)
  <2>1. tel' = [tel EXCEPT !.stage = "select", !.client = FALSE, !.batch = <<>>, !.dropped = d]
    BY <1>1, <1>5 DEF TelTypes, TelFields
  <2> HIDE DEF d
  <2>2. /\ DOMAIN tel' = TelFields /\ tel'.n = tel.n /\ tel'.kinds = tel.kinds /\ tel'.dropped = d
        /\ tel'.ring = tel.ring /\ tel'.head = tel.head /\ tel'.tail = tel.tail
        /\ tel'.writing = tel.writing /\ tel'.stage = "select" /\ tel'.at = tel.at
        /\ tel'.upto = tel.upto /\ tel'.batch = <<>> /\ tel'.out = tel.out
    BY <1>1, <2>1 DEF TelTypes, TelFields
  <2>3. TelReader(tel') = TelReader(tel)
    BY <1>1, <2>2 DEF TelReader
  <2>4. TelAll(tel') = tel.out
    BY <1>3, <2>2 DEF TelAll
  <2>5. TelTypes(tel') /\ TelPlaces(tel')
    BY <1>1, <1>2, <2>2 DEF TelTypes, TelPlaces
  <2>6. Numbers(tel.out \o tel.batch, P, tel.writing, tel.dropped, tel.n)
    BY <1>1, Zenon DEF TelCells, TelAll
  <2> HIDE DEF P
  <2>7. Numbers(tel.out, P, tel.writing, d, tel.n)
    BY <1>2, <2>6, NumberLost DEF d
  <2>8. TelCells(tel')
    BY <1>1, <2>2, <2>3, <2>4, <2>7 DEF TelCells, P, a
  <2> QED BY <2>5, <2>8 DEF TelInv
<1> QED BY <1>4, <1>5 DEF telnet_send

\* So does taking one character into the batch, or giving the cells back.
LEMMA TelDrain ==
  ASSUME TelInv(tel), telnet_drain
  PROVE  TelInv(tel')
<1>1. TelTypes(tel) /\ TelPlaces(tel) /\ TelCells(tel) /\ tel.stage = "drain"
  BY DEF TelInv, telnet_drain
<1>2. /\ RingDist(tel.tail, tel.at) + RingDist(tel.at, tel.head) = RingDist(tel.tail, tel.head)
      /\ RingDist(tel.at, tel.upto) + RingDist(tel.upto, tel.head) = RingDist(tel.at, tel.head)
  BY <1>1 DEF TelPlaces
<1>3. /\ RingDist(tel.tail, tel.at) \in Nat /\ RingDist(tel.at, tel.head) \in Nat
      /\ RingDist(tel.tail, tel.head) \in Nat /\ RingDist(tel.at, tel.upto) \in Nat
      /\ RingDist(tel.upto, tel.head) \in Nat
  BY <1>1, DistIsNat DEF TelTypes
<1>4. CASE tel' = [tel EXCEPT !.stage = "send", !.tail = tel.at]
  <2>1. /\ DOMAIN tel' = TelFields /\ tel'.n = tel.n /\ tel'.kinds = tel.kinds /\ tel'.dropped = tel.dropped
        /\ tel'.ring = tel.ring /\ tel'.head = tel.head /\ tel'.tail = tel.at
        /\ tel'.writing = tel.writing /\ tel'.stage = "send" /\ tel'.at = tel.at
        /\ tel'.upto = tel.upto /\ tel'.batch = tel.batch /\ tel'.out = tel.out
    BY <1>1, <1>4 DEF TelTypes, TelFields
  <2>2. TelReader(tel') = TelReader(tel) /\ TelAll(tel') = TelAll(tel)
    BY <1>1, <2>1 DEF TelReader, TelAll
  <2>3. TelTypes(tel')
    BY <1>1, <2>1 DEF TelTypes
  <2>4. RingDist(tel.tail, tel.head) < RingSlots - 1 => RingDist(tel.at, tel.head) < RingSlots - 1
    BY <1>2, <1>3, RecAssumption
  <2>5. TelPlaces(tel')
    BY <1>1, <2>1, <2>4 DEF TelPlaces
  <2>6. TelCells(tel')
    BY <1>1, <2>1, <2>2 DEF TelCells
  <2> QED BY <2>3, <2>5, <2>6 DEF TelInv
<1>5. CASE ~(tel.at = tel.upto \/ Len(tel.batch) >= RingSlots - 1)
  <2> DEFINE x == tel.ring[tel.at]
             kind == IF x = 0 THEN "junk" ELSE tel.kinds[x]
             b == CASE kind = "print" -> <<x>>
                    [] kind = "cr"    -> IF Len(tel.batch) + 1 < RingSlots - 1 THEN <<x, 0>> ELSE <<x>>
                    [] kind = "junk"  -> <<>>
             o == OnFrom(tel.at)
             d == IF kind = "junk" THEN tel.dropped \cup {x} ELSE tel.dropped
             a == TelReader(tel)
             P == RingVals(tel.ring, tel.at, tel.head)
             Q == RingVals(tel.ring, o, tel.head)
             all == TelAll(tel)
             c == tel.batch \o b
  <2>1. a = tel.at /\ tel.at # tel.upto /\ tel.at \in RingIndex /\ tel.head \in RingIndex
    BY <1>1, <1>5 DEF TelReader, TelTypes
  <2>2. RingDist(tel.at, tel.upto) >= 1 /\ RingDist(tel.at, tel.head) >= 1 /\ tel.at # tel.head
    <3>1. RingDist(tel.at, tel.upto) # 0
      BY <1>1, <2>1, DistBounds DEF TelTypes
    <3>2. RingDist(tel.at, tel.head) >= 1
      BY <1>2, <1>3, <3>1
    <3>3. tel.at # tel.head
      BY <2>1, <3>2, DistBounds
    <3> QED BY <1>3, <3>1, <3>2, <3>3
  <2>3. /\ RingRises(tel.ring, o, tel.head) /\ P = Q \cup {x} /\ \A v \in Q : x < v
    <3>1. RingRises(tel.ring, tel.at, tel.head) /\ tel.ring \in [RingIndex -> Nat]
      BY <1>1, <2>1 DEF TelCells, TelTypes
    <3> QED BY <2>1, <2>2, <3>1, CellTaken
  <2>4. Numbers(all, P, tel.writing, tel.dropped, tel.n) /\ tel.n \in Nat /\ all \in Seq(Nat)
    BY <1>1, <2>1 DEF TelCells, TelTypes, TelAll
  <2>5. x \in 1..tel.n
    <3>1. x \in P
      BY <2>3
    <3> HIDE DEF x, P, all
    <3> QED BY <2>4, <3>1 DEF Numbers
  <2>6. kind \in {"print", "cr", "junk"}
    BY <1>1, <2>5 DEF TelTypes
  <2> HIDE DEF kind
  <2>7. b \in Seq(Nat) /\ (kind = "junk" => b = <<>>) /\ (kind # "junk" => b \in {<<x>>, <<x, 0>>})
    <3>1. x \in Nat
      BY <2>5
    <3> HIDE DEF x
    <3>2. CASE kind = "print"
      BY <3>1, <3>2
    <3>3. CASE kind = "cr"
      BY <3>1, <3>3
    <3>4. CASE kind = "junk"
      BY <3>4
    <3> QED BY <2>6, <3>2, <3>3, <3>4
  <2>8. (tel.at + 1) % RingSlots = o /\ o \in RingIndex
    BY <2>1, OneOn
  <2>9. tel' = [tel EXCEPT !.at = o, !.batch = c, !.dropped = d]
    <3>1. tel' = [tel EXCEPT !.at = (@ + 1) % RingSlots, !.batch = @ \o b,
                             !.dropped = IF kind = "junk" THEN @ \cup {x} ELSE @]
      BY <1>5, Zenon DEF telnet_drain, kind
    <3> HIDE DEF b, x
    <3> QED BY <1>1, <2>8, <3>1 DEF TelTypes, TelFields
  <2> HIDE DEF b, d, c, o
  <2>10. /\ DOMAIN tel' = TelFields /\ tel'.n = tel.n /\ tel'.kinds = tel.kinds /\ tel'.dropped = d
         /\ tel'.ring = tel.ring /\ tel'.head = tel.head /\ tel'.tail = tel.tail
         /\ tel'.writing = tel.writing /\ tel'.stage = tel.stage /\ tel'.at = o
         /\ tel'.upto = tel.upto /\ tel'.batch = c /\ tel'.out = tel.out
    BY <1>1, <2>9 DEF TelTypes, TelFields
  <2>11. c \in Seq(Nat) /\ TelAll(tel') = all \o b /\ TelReader(tel') = o
    <3>1. c \in Seq(Nat) /\ tel.out \o c = all \o b
      <4>1. tel.out \in Seq(Nat) /\ tel.batch \in Seq(Nat) /\ b \in Seq(Nat)
        BY <1>1, <2>7 DEF TelTypes
      <4>2. c \in Seq(Nat)
        BY <4>1 DEF c
      <4>3. (tel.out \o tel.batch) \o b = tel.out \o (tel.batch \o b)
        <5> DEFINE p == tel.out
                   q == tel.batch
        <5>1. p \in Seq(Nat) /\ q \in Seq(Nat) /\ b \in Seq(Nat)
          BY <4>1
        <5> HIDE DEF p, q
        <5>2. (p \o q) \o b = p \o (q \o b)
          BY ONLY <5>1, BatchGrows
        <5> QED BY ONLY <5>2, Zenon DEF p, q
      <4> QED BY ONLY <4>2, <4>3, Zenon DEF c, TelAll
    <3>2. TelReader(tel') = o
      BY <1>1, <2>10 DEF TelReader
    <3> QED BY <2>10, <3>1, <3>2 DEF TelAll
  <2>12. TelTypes(tel')
    BY <1>1, <2>8, <2>10, <2>11 DEF TelTypes
  <2>13. TelPlaces(tel')
    <3>1. /\ RingDist(o, tel.head) = RingDist(tel.at, tel.head) - 1
          /\ RingDist(o, tel.upto) = RingDist(tel.at, tel.upto) - 1
      BY <1>1, <2>1, <2>2, DistShrinks DEF TelTypes, o
    <3>2. RingDist(tel.tail, o) = RingDist(tel.tail, tel.at) + 1
      <4>1. RingDist(tel.tail, tel.head) <= RingSlots - 1
        BY <1>1, DistBounds, RecAssumption DEF TelTypes
      <4>2. RingDist(tel.tail, tel.at) < RingSlots - 1
        BY <1>2, <1>3, <2>2, <4>1, RecAssumption
      <4> QED BY <1>1, <2>1, <4>2, DistGrows DEF TelTypes, o
    <3>3. /\ RingDist(tel.tail, o) + RingDist(o, tel.head) = RingDist(tel.tail, tel.head)
          /\ RingDist(o, tel.upto) + RingDist(tel.upto, tel.head) = RingDist(o, tel.head)
      BY ONLY <1>2, <1>3, <3>1, <3>2
    <3> QED BY <1>1, <2>10, <3>3 DEF TelPlaces
  <2> HIDE DEF P, Q, all, x
  <2>14. Numbers(all \o b, Q, tel.writing, d, tel.n)
    <3>1. CASE kind = "junk"
      BY <2>3, <2>4, <2>7, <3>1, NumberTaken DEF d
    <3>2. CASE kind # "junk"
      BY <2>3, <2>4, <2>7, <3>2, NumberTaken DEF d
    <3> QED BY <3>1, <3>2
  <2>15. TelCells(tel')
    BY <2>3, <2>10, <2>11, <2>14 DEF TelCells, Q
  <2> QED BY <2>12, <2>13, <2>15 DEF TelInv
<1> QED BY <1>4, <1>5 DEF telnet_drain

\* So does every step of the telnet console.
LEMMA TelKeeps ==
  ASSUME TelInv(tel), [TelNext]_telVars
  PROVE  TelInv(tel)'
<1>1. CASE telnet_recv \/ drain_input \/ UNCHANGED telVars
  <2>1. tel' = tel
    BY <1>1 DEF telnet_recv, drain_input, telVars
  <2> QED BY <2>1
<1> QED BY <1>1, TelOut, TelPublish, TelSelect, TelDrain, TelSend DEF TelNext

\* The telnet console starts in its invariant.
LEMMA TelStarts == TelInit => TelInv(tel)
<1> SUFFICES ASSUME TelInit PROVE TelInv(tel)
  OBVIOUS
<1>1. /\ DOMAIN tel = TelFields /\ tel.ring = [i \in 0..(RingSlots - 1) |-> 0] /\ tel.head = 0
      /\ tel.tail = 0 /\ tel.writing = 0 /\ tel.n = 0 /\ tel.kinds = <<>> /\ tel.stage = "select"
      /\ tel.at = 0 /\ tel.upto = 0 /\ tel.batch = <<>> /\ tel.out = <<>> /\ tel.dropped = {}
  BY DEF TelInit, NoTel, TelFields
<1>2. 0 \in RingIndex /\ tel.ring \in [RingIndex -> Nat]
  BY <1>1, RecAssumption DEF RingIndex
<1>3. TelTypes(tel) /\ TelPlaces(tel)
  BY <1>1, <1>2 DEF TelTypes, TelPlaces
<1>4. RingDist(0, 0) = 0
  BY <1>2, DistBounds
<1>5. TelReader(tel) = 0 /\ TelAll(tel) = <<>>
  BY <1>1 DEF TelReader, TelAll
<1>6. RingVals(tel.ring, 0, 0) = {} /\ RingRises(tel.ring, 0, 0)
  BY <1>4 DEF RingVals, RingRises
<1>7. Numbers(<<>>, {}, 0, {}, 0)
  BY DEF Numbers
<1>8. TelCells(tel)
  BY <1>1, <1>5, <1>6, <1>7 DEF TelCells
<1> QED BY <1>3, <1>8 DEF TelInv

\* The invariant gives what the run checks of the client's output.
LEMMA TelIsInOrder == TelInv(tel) => TelnetInOrder
<1> SUFFICES ASSUME TelInv(tel) PROVE TelnetInOrder
  OBVIOUS
<1> DEFINE all == tel.out \o tel.batch
           got == {n \in Range(all) : n # 0}
           P == RingVals(tel.ring, TelReader(tel), tel.head)
<1>1. Numbers(all, P, tel.writing, tel.dropped, tel.n) /\ TelTypes(tel) /\ tel.n \in Nat
  BY DEF TelInv, TelCells, TelAll, TelTypes
<1>2. tel.stage = "select" /\ tel.head = tel.tail => P = {}
  <2> SUFFICES ASSUME tel.stage = "select", tel.head = tel.tail PROVE P = {}
    OBVIOUS
  <2>1. RingDist(tel.head, tel.head) = 0 /\ TelReader(tel) = tel.head
    BY <1>1, DistBounds DEF TelTypes, TelReader
  <2> QED BY <2>1 DEF RingVals
<1> HIDE DEF all, P
<1>3. Range(all) = {all[i] : i \in DOMAIN all}
  BY DEF Range
<1>4. \A i, j \in DOMAIN all : i < j /\ all[i] # 0 /\ all[j] # 0 => all[i] < all[j]
  BY <1>1 DEF Numbers
<1>5. got \cap tel.dropped = {}
  BY <1>1, <1>3 DEF Numbers
<1>6. ASSUME tel.stage = "select", tel.head = tel.tail, tel.writing = 0
      PROVE  got \cup tel.dropped \cup {0} = 0..tel.n
  <2>1. got \subseteq 0..tel.n /\ tel.dropped \subseteq 0..tel.n
    BY <1>1, <1>3 DEF Numbers
  <2>2. \A k \in 1..tel.n : k \in tel.dropped \/ k \in Range(all)
    BY <1>1, <1>2, <1>3, <1>6 DEF Numbers
  <2> HIDE DEF got
  <2>3. \A k \in 1..tel.n : k \in tel.dropped \/ k \in got
    BY <2>2 DEF got
  <2>4. \A k \in 0..tel.n : k = 0 \/ k \in 1..tel.n
    BY <1>1
  <2>5. 0 \in 0..tel.n
    BY <1>1
  <2> QED BY ONLY <2>1, <2>3, <2>4, <2>5
<1> QED BY <1>4, <1>5, <1>6 DEF TelnetInOrder, all

-----------------------------------------------------------------------------
(* The recorders, the console and the slots have their own steps on the    *)
(* bench.                                                                  *)
LEMMA BenchRunsFiles ==
  ASSUME [Next]_benchVars
  PROVE  [RecNext]_recVars /\ [TelNext]_telVars /\ [SnapNext \/ FileNext]_slotVars
<1>1. CASE UNCHANGED benchVars
  BY <1>1 DEF benchVars, parkedVars
<1>2. CASE Next
  <2>1. FilesNext
    BY <1>2 DEF Next
  <2>2. [RecNext]_recVars
    BY <2>1 DEF FilesNext
  <2>3. [TelNext]_telVars
    BY <2>1 DEF FilesNext
  <2>4. [SnapNext \/ FileNext]_slotVars
    BY <2>1 DEF FilesNext
  <2> QED BY <2>2, <2>3, <2>4
<1> QED BY <1>1, <1>2

(* A recording that ended without its error flag is whole, the telnet       *)
(* client gets the guest's characters in order and each is accounted for,   *)
(* a snapshot restores the machine it was taken of, and the files of the    *)
(* command line fill the slots (finalize_header, on_txt_output,             *)
(* snapshot_load, fillSlots): for any number of samples, pictures and       *)
(* characters, any ring, any command line and any snapshot the model has.   *)
THEOREM FilesStayRight == Spec => []FilesRight
<1>1. Init => RecInv /\ TelInv(tel) /\ SnapInv /\ ArgvInv
  BY RecStarts, TelStarts, SnapStarts, ArgvStarts DEF Init
<1>2. RecInv /\ TelInv(tel) /\ SnapInv /\ ArgvInv /\ [Next]_benchVars
        => (RecInv /\ TelInv(tel) /\ SnapInv /\ ArgvInv)'
  BY BenchRunsFiles, RecKeeps, TelKeeps, NextKeepsSlots
<1>3. RecInv /\ TelInv(tel) /\ SnapInv /\ ArgvInv /\ MediaInv => FilesRight
  <2>1. MediaInv => MediaTypeOK
    BY DEF MediaInv, MediaTyped, MediaTypeOK, Requests, Threads, Discs
  <2>2. RecInv /\ TelInv(tel) /\ SnapInv /\ ArgvInv
          => RecordingIsWhole /\ TelnetInOrder /\ SnapshotRestores /\ SlotsFilled
    BY RecIsWhole, TelIsInOrder, ArgvIsRight DEF SnapInv
  <2> QED BY <2>1, <2>2 DEF FilesRight, SlotsRight
<1> QED BY <1>1, <1>2, <1>3, MediaHolds, PTL DEF Spec

=============================================================================
