----------------------------- MODULE HostTables -----------------------------
(* The tables the debugger's host side keeps, with the IPC commands and DevTools
   windows that change them: the symbols (src/src/symfile.cpp) and the Symbols
   window's cached list (src/src/devtools_ui.cpp), the data areas and the listing
   that reads them (src/src/data_areas.cpp, `disasm export`), the POK cheats
   (src/src/pokes.cpp) and the instruction trace (src/src/trace.cpp).

   The IPC thread, the main thread (DevTools) and the Z80 thread (the trace) use
   them without a lock: a call that takes several steps on one thread is several
   actions here where another thread can come between.                             *)
EXTENDS Integers, Sequences, SequencesExt, FiniteSets, FiniteSetsExt

CONSTANTS SymNames, SymLast,  \* symbol names; symbols live at 0..SymLast
          ListLast,           \* last address of the listed memory
          InsnSizes,          \* instruction lengths
          Pokes,              \* a POK file: sequence of pokes, each a sequence of <<address, value>>
          TraceSizes, MaxTrace \* trace buffer sizes; bound: instructions traced

VARIABLES syms,    \* g_symfile: symbols and name_to_addr
          symwin,  \* DevTools: the cached list, symtable_dirty_, where render_symbols is
          areas,   \* g_data_areas
          sizes,   \* length of the instruction at each address
          ram,     \* bytes the cheats touch
          games,   \* g_poke_manager: per poke, applied and the originals; `lost` is history
          trc,     \* g_trace
          tracing  \* the Z80 thread inside record(), and history

symVars == <<syms, symwin>>
areaVars == <<areas, sizes>>
pokeVars == <<ram, games>>
traceVars == <<trc, tracing>>
tableVars == <<syms, symwin, areas, sizes, ram, games, trc, tracing>>

(* --- symbols ------------------------------------------------------------------------ *)
NoName == "-"
NoAddr == -1

\* Mutant: the old name of the address keeps pointing at it
addSymbol_keeps(s, a, n) == [at |-> [s.at EXCEPT ![a] = n], of |-> [s.of EXCEPT ![n] = a]]

addSymbol(s, a, n) ==
  LET of1 == IF s.at[a] = NoName THEN s.of ELSE [s.of EXCEPT ![s.at[a]] = NoAddr]
  IN  [at |-> [s.at EXCEPT ![a] = n], of |-> [of1 EXCEPT ![n] = a]]

delSymbol(s, n) ==
  IF s.of[n] = NoAddr THEN s
  ELSE [at |-> [s.at EXCEPT ![s.of[n]] = NoName], of |-> [s.of EXCEPT ![n] = NoAddr]]

lookupAddr(s, a) == s.at[a]
lookupName(s, n) == s.of[n]
listSymbols(s) == {<<a, s.at[a]>> : a \in {b \in 0..SymLast : s.at[b] # NoName}}

\* a file that SaveTo wrote: addresses in order, read back by the constructor
Symfile(s) ==
  LET add(t, a) == IF s.at[a] = NoName THEN t ELSE addSymbol(t, a, s.at[a])
  IN  FoldLeft(add, [at |-> [a \in 0..SymLast |-> NoName], of |-> [n \in SymNames |-> NoAddr]],
               [i \in 1..(SymLast + 1) |-> i - 1])

\* sym add, sym del: on the IPC thread, or the buttons of the window
sym_add(a, n) == syms' = addSymbol(syms, a, n) /\ symwin' = [symwin EXCEPT !.dirty = TRUE]
sym_del(n) == syms' = delSymbol(syms, n) /\ symwin' = [symwin EXCEPT !.dirty = TRUE]

\* asm assemble: the labels of a program, without a mark
asm_assemble(a, n) ==
  /\ syms' = addSymbol(syms, a, n)
  /\ symwin' = [symwin EXCEPT !.unmarked = TRUE]

\* render_symbols: the list is taken, then the mark is removed
render_symbols ==
  \/ /\ symwin.pc = "idle" /\ symwin.dirty
     /\ symwin' = [symwin EXCEPT !.pc = "listed", !.list = listSymbols(syms),
                                 !.unmarked = FALSE, !.at = listSymbols(syms)]
     /\ UNCHANGED syms
  \/ /\ symwin.pc = "listed"
     /\ symwin' = [symwin EXCEPT !.pc = "idle", !.dirty = FALSE,
                                 !.unmarked = @ \/ listSymbols(syms) # symwin.at]
     /\ UNCHANGED syms

SymInit ==
  /\ syms = [at |-> [a \in 0..SymLast |-> NoName], of |-> [n \in SymNames |-> NoAddr]]
  /\ symwin = [pc |-> "idle", dirty |-> TRUE, list |-> {}, unmarked |-> FALSE, at |-> {}]

SymNext ==
  \/ \E a \in 0..SymLast, n \in SymNames : sym_add(a, n) \/ asm_assemble(a, n)
  \/ \E n \in SymNames : sym_del(n)
  \/ render_symbols

(* --- data areas and the listing ---------------------------------------------------------- *)
NoArea == [start |-> 0, end |-> -1, type |-> "none"]

\* Mutant: only areas that begin inside the new one are removed
mark_inside(A, s, e, t) == {x \in A : ~(x.start \in s..e)} \cup {[start |-> s, end |-> e, type |-> t]}

mark(A, s, e, t) ==
  {x \in A : ~(x.start <= e /\ x.end >= s)} \cup {[start |-> s, end |-> e, type |-> t]}

\* the area with the greatest start not above the address, if it reaches that far
find(A, addr) ==
  LET below == {x \in A : x.start <= addr}
      x == CHOOSE y \in below : \A z \in below : z.start <= y.start
  IN  IF below = {} THEN NoArea ELSE IF x.end >= addr THEN x ELSE NoArea

\* bytes of one line: at most 2 here (8 in the program), 4 for text (64); an odd byte
\* left of a words area yields an empty line, counted as one byte by the listing
format_at(A, addr, have) ==
  LET x == find(A, addr)
      left == Min({x.end - addr + 1, have})
  IN  CASE x.type = "bytes" -> Min({left, 2})
        [] x.type = "words" -> Min({2 * (left \div 2), 2})
        [] x.type = "text"  -> Min({left, 4})

\* disasm export: the lines <<first, length>> of start..end
export(A, start, end) ==
  LET line(pos) ==
        IF find(A, pos) = NoArea THEN sizes[pos]
        ELSE Max({1, format_at(A, pos, end - pos + 1)})
      walk[pos \in 0..(end + 1)] ==
        IF pos > end THEN <<>>
        ELSE LET next == pos + line(pos)
             IN  <<<<pos, line(pos)>>>> \o
                 (IF next > ListLast \/ next > end + 1 THEN <<>> ELSE walk[next])
  IN  walk[start]

data_mark(s, e, t) == s <= e /\ areas' = mark(areas, s, e, t) /\ UNCHANGED sizes
data_clear(s) == areas' = {x \in areas : x.start # s} /\ UNCHANGED sizes
data_clear_all == areas' = {} /\ UNCHANGED sizes

\* the menu of a line of the Disassembly window; the second byte of words marked at the last
\* address is the first address
disasm_menu(a) ==
  LET x == find(areas, a)
      to(t) == IF t = "words" THEN (a + 1) % (ListLast + 1) ELSE a
  IN  \/ x = NoArea /\ \E t \in {"bytes", "words", "text"} : areas' = mark(areas, a, to(t), t) /\ UNCHANGED sizes
      \/ x # NoArea /\ data_clear(x.start)

AreaInit == areas = {} /\ sizes \in [0..ListLast -> InsnSizes]
AreaNext ==
  \/ \E s, e \in 0..ListLast, t \in {"bytes", "words", "text"} : data_mark(s, e, t)
  \/ \E s \in 0..ListLast : data_clear(s) \/ disasm_menu(s)
  \/ data_clear_all

(* --- cheats -------------------------------------------------------------------------------- *)
PokeAddrs == UNION {{Pokes[i][j][1] : j \in 1..Len(Pokes[i])} : i \in 1..Len(Pokes)}
FreshPoke(i) == [applied |-> FALSE, orig |-> [j \in 1..Len(Pokes[i]) |-> 0]]

\* Mutant: a cheat may be applied again
apply_again(m, g, i) ==
  LET step(s, j) == [ram |-> [s.ram EXCEPT ![Pokes[i][j][1]] = Pokes[i][j][2]],
                     orig |-> [s.orig EXCEPT ![j] = s.ram[Pokes[i][j][1]]]]
      r == FoldLeft(step, [ram |-> m, orig |-> g[i].orig], [j \in 1..Len(Pokes[i]) |-> j])
  IN  [ram |-> r.ram, g |-> [g EXCEPT ![i] = [applied |-> TRUE, orig |-> r.orig]]]

\* the values of poke i are written in order, each after the byte it replaces was read
apply(m, g, i) ==
  LET step(s, j) == [ram |-> [s.ram EXCEPT ![Pokes[i][j][1]] = Pokes[i][j][2]],
                     orig |-> [s.orig EXCEPT ![j] = s.ram[Pokes[i][j][1]]]]
      r == FoldLeft(step, [ram |-> m, orig |-> g[i].orig], [j \in 1..Len(Pokes[i]) |-> j])
  IN  IF g[i].applied THEN [ram |-> m, g |-> g]
      ELSE [ram |-> r.ram, g |-> [g EXCEPT ![i] = [applied |-> TRUE, orig |-> r.orig]]]

poke_apply(i) ==
  /\ ram' = apply(ram, games.pokes, i).ram
  /\ games' = [games EXCEPT !.pokes = apply(ram, games.pokes, i).g]

apply_all(m, g) ==
  FoldLeft(LAMBDA s, i : apply(s.ram, s.g, i), [ram |-> m, g |-> g], [i \in 1..Len(Pokes) |-> i])

poke_apply_all ==
  /\ ram' = apply_all(ram, games.pokes).ram
  /\ games' = [games EXCEPT !.pokes = apply_all(ram, games.pokes).g]

\* in the same order as they were written
unapply(m, i) ==
  FoldLeft(LAMBDA r, j : [r EXCEPT ![Pokes[i][j][1]] = games.pokes[i].orig[j]], m,
           [j \in 1..Len(Pokes[i]) |-> j])

poke_unapply(i) ==
  /\ games.pokes[i].applied
  /\ ram' = unapply(ram, i)
  /\ games' = [games EXCEPT !.pokes[i].applied = FALSE]

\* the table is replaced, what was applied stays in memory
load_from_string ==
  [pokes |-> [i \in 1..Len(Pokes) |-> FreshPoke(i)],
   lost |-> games.lost \cup UNION {{Pokes[i][j][1] : j \in 1..Len(Pokes[i])} :
              i \in {k \in 1..Len(Pokes) : games.pokes[k].applied}}]

poke_load == games' = load_from_string /\ UNCHANGED ram

PokeInit ==
  /\ ram = [a \in PokeAddrs |-> 0]
  /\ games = [pokes |-> [i \in 1..Len(Pokes) |-> FreshPoke(i)], lost |-> {}]
PokeNext == poke_apply_all \/ poke_load \/ \E i \in 1..Len(Pokes) : poke_apply(i) \/ poke_unapply(i)

(* --- the instruction trace -------------------------------------------------------------------- *)
enable(t, n) ==
  [buf |-> [i \in 0..(n - 1) |-> IF i < t.size THEN t.buf[i] ELSE 0],
   size |-> n, head |-> 0, count |-> 0, active |-> TRUE]
disable == [buf |-> <<>>, size |-> 0, head |-> 0, count |-> 0, active |-> FALSE]

Touched == [tracing EXCEPT !.since = tracing.n, !.raced = @ \/ tracing.busy]
trace_on(n) == trc' = enable(trc, n) /\ tracing' = Touched
trace_off == trc' = disable /\ tracing' = Touched

\* starts a trace of the default size only when none is running
trace_on_crash(n) ==
  IF trc.active THEN UNCHANGED <<trc, tracing>> ELSE trc' = enable(trc, n) /\ tracing' = Touched

\* the Z80 thread: the test at the top of record(), then the rest of it
record_begin ==
  /\ ~tracing.busy /\ ~tracing.raced /\ tracing.n < MaxTrace
  /\ trc.active /\ trc.size > 0
  /\ tracing' = [tracing EXCEPT !.busy = TRUE]
  /\ UNCHANGED trc

\* Mutant: the ring is one entry short
record_short ==
  /\ tracing.busy /\ ~tracing.raced
  /\ trc' = [trc EXCEPT !.buf[trc.head] = tracing.n + 1,
                        !.head = IF trc.size > 1 THEN (@ + 1) % (trc.size - 1) ELSE 0,
                        !.count = IF @ < trc.size THEN @ + 1 ELSE @]
  /\ tracing' = [tracing EXCEPT !.busy = FALSE, !.n = @ + 1]

record ==
  /\ tracing.busy /\ ~tracing.raced
  /\ trc' = [trc EXCEPT !.buf[trc.head] = tracing.n + 1,
                        !.head = (@ + 1) % trc.size,
                        !.count = IF @ < trc.size THEN @ + 1 ELSE @]
  /\ tracing' = [tracing EXCEPT !.busy = FALSE, !.n = @ + 1]

dump(t) ==
  LET start == IF t.count < t.size THEN 0 ELSE t.head
  IN  [i \in 1..t.count |-> t.buf[(start + i - 1) % t.size]]

TraceInit ==
  /\ trc = disable
  /\ tracing = [busy |-> FALSE, n |-> 0, since |-> 0, raced |-> FALSE]
TraceNext ==
  \/ trace_off \/ record_begin \/ record
  \/ \E n \in TraceSizes : trace_on(n) \/ trace_on_crash(n)

(* --- properties ----------------------------------------------------------------------------------- *)
(* A name that resolves, resolves to an address that shows that name, so that deleting or
   looking up a symbol never touches another one's address; and a saved symbol file reads
   back to the same list.                                                                  *)
SymbolsAgree ==
  /\ \A n \in SymNames : lookupName(syms, n) # NoAddr => lookupAddr(syms, lookupName(syms, n)) = n
  /\ listSymbols(Symfile(syms)) = listSymbols(syms)

(* Once render_symbols has taken a change's mark away the window shows the change (the
   race of a mark set while the list is taken, and labels added by `asm assemble`, aside). *)
SymbolWindowFresh ==
  symwin.pc = "idle" /\ ~symwin.dirty /\ ~symwin.unmarked => symwin.list = listSymbols(syms)


(* Data areas never overlap, so that the lookup by greatest start is right for every
   address unless one of them wraps past the last, and a listing has no gap and no line
   twice from its first to its last address, wrapped areas or not.                       *)
ListingCovers ==
  /\ \A x, y \in areas : x # y => x.end < y.start \/ y.end < x.start
  /\ (\A x \in areas : x.start <= x.end) =>
       \A a \in 0..ListLast : \A x \in areas : a \in x.start..x.end => find(areas, a) = x
  /\ \A s, e \in 0..ListLast : s <= e =>
       LET l == export(areas, s, e)
       IN  /\ l[1][1] = s
           /\ \A i \in 1..(Len(l) - 1) : l[i + 1][1] = l[i][1] + l[i][2]
           /\ l[Len(l)][1] <= e /\ l[Len(l)][1] + l[Len(l)][2] > e

(* A byte that only one cheat touches holds the cheat's value while it is applied and the
   byte it replaced when it is not, unless the table was reloaded in between.              *)
CheatsUndo ==
  \A i \in 1..Len(Pokes) : \A j \in 1..Len(Pokes[i]) :
    LET a == Pokes[i][j][1]
        alone == \A k \in 1..Len(Pokes) : \A l \in 1..Len(Pokes[k]) :
                   Pokes[k][l][1] = a => k = i /\ l = j
    IN  alone /\ a \notin games.lost =>
          ram[a] = IF games.pokes[i].applied THEN Pokes[i][j][2] ELSE 0

(* What `trace dump` writes is the last instructions since tracing began, oldest first,
   none missing and none from before, as long as no command changed the buffer while the
   Z80 thread was inside record().                                                         *)
TraceIsTail ==
  ~tracing.raced =>
    LET k == Min({tracing.n - tracing.since, trc.size})
    IN  trc.active => dump(trc) = [i \in 1..k |-> tracing.n - k + i]

HostTablesRight ==
  SymbolsAgree /\ SymbolWindowFresh /\ ListingCovers /\ CheatsUndo /\ TraceIsTail

=============================================================================
