----------------------------- MODULE HostSearch -----------------------------
(* The IPC server's memory commands (`mem`, `search`, `gfx`, src/src/
   koncepcja_ipc_server.cpp) with the algorithms behind them: the pattern matcher and
   the fuzzy score of src/src/search_engine.cpp, the assembler-text globs, and the CPC
   pixel coding of src/src/gfx_finder.cpp.

   Memory is a few cells in a wrapping address space; a cell under a ROM reads from the
   ROM and writes to the RAM below it.  Texts are sequences of letters.                  *)
EXTENDS Integers, Sequences, SequencesExt, FiniteSets, FiniteSetsExt

CONSTANTS MemSize,     \* cells (65536)
          RomCells,    \* cells with a ROM switched in
          RomByte,     \* what they read as
          FillBytes,       \* values written
          SkipMax,     \* longest run a `*` stands for (256)
          MaxHits,     \* results reported (32, 256)
          Patterns,    \* compiled byte patterns: sequences of a byte, AnyOne, AnyMany
          TextGlobs,   \* assembler globs: sequences of letters, "?" and "*"
          Texts_,      \* texts they are matched with
          PaintModes, PaintColors,
          MaxEdits_    \* bound: commands that change memory

VARIABLES hmem,   \* RAM
          hedits,
          hans    \* the last command with its answer

searchVars == <<hmem, hedits, hans>>

MemCell(a) == a % MemSize
z80_read_mem(m, a) == IF MemCell(a) \in RomCells THEN RomByte ELSE m[MemCell(a)]
z80_read_mem_via_write_bank(m, a) == m[MemCell(a)]
z80_write_mem(m, a, v) == [m EXCEPT ![MemCell(a)] = v]

(* --- search_engine.cpp ------------------------------------------------------------------ *)
AnyOne == -1
AnyMany == -2

\* Mutant: `*` stands for at least one byte
match_recursive_plus(p, mem, off) ==
  LET n == Len(mem)
      at[k \in 1..(Len(p) + 1), pos \in 0..n] ==
        IF k > Len(p) THEN pos
        ELSE CASE p[k] = AnyMany ->
                    IF k = Len(p) THEN Min({n, pos + SkipMax})
                    ELSE LET good == {s \in 1..Min({n - pos, SkipMax}) : at[k + 1, pos + s] # -1}
                         IN  IF good = {} THEN -1 ELSE at[k + 1, pos + Min(good)]
               [] p[k] = AnyOne -> IF pos >= n THEN -1 ELSE at[k + 1, pos + 1]
               [] OTHER -> IF pos >= n THEN -1
                           ELSE IF mem[pos + 1] # p[k] THEN -1 ELSE at[k + 1, pos + 1]
  IN  at[1, off]

\* backtracking, leftmost shortest run first; -1 is no match, else where it ends
match_recursive(p, mem, off) ==
  LET n == Len(mem)
      at[k \in 1..(Len(p) + 1), pos \in 0..n] ==
        IF k > Len(p) THEN pos
        ELSE CASE p[k] = AnyMany ->
                    IF k = Len(p) THEN Min({n, pos + SkipMax})
                    ELSE LET good == {s \in 0..Min({n - pos, SkipMax}) : at[k + 1, pos + s] # -1}
                         IN  IF good = {} THEN -1 ELSE at[k + 1, pos + Min(good)]
               [] p[k] = AnyOne -> IF pos >= n THEN -1 ELSE at[k + 1, pos + 1]
               [] OTHER -> IF pos >= n THEN -1
                           ELSE IF mem[pos + 1] # p[k] THEN -1 ELSE at[k + 1, pos + 1]
  IN  at[1, off]

First(k, S) == {x \in S : Cardinality({y \in S : y < x}) < k}

search_memory(p, mem) ==
  First(MaxHits, {a \in 0..(Len(mem) - 1) : match_recursive(p, mem, a) # -1})

\* the letters of the query in order, each at the first place it can be: 0 is no match
fuzzy_score(q, t) ==
  LET s[qi \in 1..(Len(q) + 1), ti \in 1..(Len(t) + 1)] ==
        IF qi > Len(q) THEN 1
        ELSE IF ti > Len(t) THEN 0
        ELSE IF t[ti] = q[qi] THEN s[qi + 1, ti + 1] ELSE s[qi, ti + 1]
  IN  s[1, 1]

(* --- assembler globs ------------------------------------------------------------------------ *)
\* `search asm`: one pass that backs up to the last star
search_asm(p, t) ==
  LET fuel == (Len(p) + 1) * (Len(t) + 1) + Len(t) + 2
      Pat(i) == IF i <= Len(p) THEN p[i] ELSE "end"
      run[f \in 0..fuel, pi \in 1..(Len(p) + 1), ti \in 1..(Len(t) + 1),
          sp \in 0..Len(p), st \in 0..(Len(t) + 1)] ==
        IF ti > Len(t) THEN \A i \in pi..Len(p) : p[i] = "*"
        ELSE IF Pat(pi) \in {t[ti], "?"} THEN run[f - 1, pi + 1, ti + 1, sp, st]
        ELSE IF Pat(pi) = "*" THEN run[f - 1, pi + 1, ti, pi, ti]
        ELSE IF sp # 0 THEN run[f - 1, sp + 1, st + 1, sp, st + 1]
        ELSE FALSE
  IN  run[fuel, 1, 1, 0, 0]

\* `mem find asm`: with a star, what comes before the first one begins the text and what
\* comes after it ends it; without, the pattern is anywhere in the text
find_asm(p, t) ==
  LET stars == {i \in 1..Len(p) : p[i] = "*"}
      pre == SubSeq(p, 1, Min(stars) - 1)
      suf == SubSeq(p, Min(stars) + 1, Len(p))
  IN  IF stars = {} THEN \E i \in 0..(Len(t) - Len(p)) : SubSeq(t, i + 1, i + Len(p)) = p
      ELSE IsPrefix(pre, t) /\ IsSuffix(suf, t)

\* `mem find hex`, `mem find text`: every byte of the pattern inside first..last
mem_find(p, m, first, last) ==
  First(MaxHits, {a \in first..last : a + Len(p) - 1 <= last /\
                    \A j \in 1..Len(p) : p[j] \in {AnyOne, z80_read_mem(m, a + j - 1)}})

(* --- pixels ------------------------------------------------------------------------------------ *)
PixelBit(v, i) == (v \div 2^i) % 2
Ppb(mode) == CASE mode = 0 -> 2 [] mode = 1 -> 4 [] mode = 2 -> 8

\* Mutant: the two upper bits of a mode 0 pixel change places
PixelBits_swapped(mode, p) ==
  CASE mode = 0 -> <<7 - p, 5 - p, 1 - p, 3 - p>>
    [] mode = 1 -> <<7 - p, 3 - p>>
    [] mode = 2 -> <<7 - p>>

gfx_decode_byte(v, mode) ==
  LET \* the bits of the byte that pixel p is made of, lowest bit of the colour first
      PixelBits(p) ==
        CASE mode = 0 -> <<7 - p, 5 - p, 3 - p, 1 - p>>
          [] mode = 1 -> <<7 - p, 3 - p>>
          [] mode = 2 -> <<7 - p>>
  IN
  [p \in 0..(Ppb(mode) - 1) |->
     SumSet({PixelBit(v, PixelBits(p)[k]) * 2^(k - 1) : k \in 1..Len(PixelBits(p))})]

\* written from the bits of the colours, as its own table
gfx_encode_byte(px, mode) ==
  LET shift == CASE mode = 0 -> <<7, 5, 3, 1>> [] mode = 1 -> <<7, 3>> [] mode = 2 -> <<7>>
  IN  SumSet({PixelBit(px[p], k - 1) * 2^(shift[k] - p) :
                p \in 0..(Ppb(mode) - 1), k \in 1..Len(shift)})

\* gfx_paint works on RAM, whatever ROM lies over it; a view one row high
gfx_paint(m, addr, mode, width, x, color) ==
  LET a == MemCell(addr + x \div Ppb(mode))
      px == [gfx_decode_byte(m[a], mode) EXCEPT ![x % Ppb(mode)] = color]
  IN  IF x >= width * Ppb(mode) THEN m ELSE [m EXCEPT ![a] = gfx_encode_byte(px, mode)]

gfx_decode(m, addr, mode, width) ==
  [x \in 0..(width * Ppb(mode) - 1) |->
     gfx_decode_byte(m[MemCell(addr + x \div Ppb(mode))], mode)[x % Ppb(mode)]]

(* --- the commands -------------------------------------------------------------------------------- *)
Answer(r) == hans' = r
NoAnswer == [cmd |-> "none"]

\* a bad digit raises after the bytes before it were written
mem_write(addr, data, bad) ==
  /\ hedits < MaxEdits_ /\ hedits' = hedits + 1
  /\ LET n == IF bad = 0 THEN Len(data) ELSE bad - 1
     IN  hmem' = FoldLeft(LAMBDA m, i : z80_write_mem(m, addr + i - 1, data[i]), hmem, [i \in 1..n |-> i])
  /\ Answer([cmd |-> "write", ok |-> bad = 0, addr |-> addr, data |-> data, before |-> hmem])

mem_fill(addr, len, pattern) ==
  /\ hedits < MaxEdits_ /\ hedits' = hedits + 1
  /\ hmem' = FoldLeft(LAMBDA m, i : z80_write_mem(m, addr + i - 1, pattern[((i - 1) % Len(pattern)) + 1]),
                      hmem, [i \in 1..len |-> i])
  /\ Answer([cmd |-> "fill", addr |-> addr, len |-> len, data |-> pattern, before |-> hmem])

paint(addr, mode, x, color) ==
  /\ hedits < MaxEdits_ /\ hedits' = hedits + 1
  /\ hmem' = gfx_paint(hmem, addr, mode, 2, x, color)
  /\ Answer([cmd |-> "paint", addr |-> addr, mode |-> mode, x |-> x, color |-> color, before |-> hmem])

\* the Graphics Finder paints in what the Z80 reads, and puts the painted byte into RAM:
\* over a ROM, that is the ROM's byte
render_gfx_finder(addr, mode, x, color) ==
  LET shown == [i \in 0..(MemSize - 1) |-> z80_read_mem(hmem, i)]
      a == MemCell(addr + x \div Ppb(mode))
  IN  /\ hedits < MaxEdits_ /\ hedits' = hedits + 1
      /\ x < 2 * Ppb(mode)
      /\ hmem' = z80_write_mem(hmem, a, gfx_paint(shown, addr, mode, 2, x, color)[a])
      /\ Answer([cmd |-> "finder", addr |-> addr, mode |-> mode, x |-> x, color |-> color, before |-> hmem])

View(ramview) ==
  [i \in 1..MemSize |-> IF ramview THEN z80_read_mem_via_write_bank(hmem, i - 1) ELSE z80_read_mem(hmem, i - 1)]

search(p, ramview) ==
  /\ Answer([cmd |-> "search", p |-> p, mem |-> View(ramview), hits |-> search_memory(p, View(ramview))])
  /\ UNCHANGED <<hmem, hedits>>

find_hex(p, first, last) ==
  /\ Answer([cmd |-> "find", p |-> p, first |-> first, last |-> Min({last, MemSize - 1}),
             hits |-> mem_find(p, hmem, first, Min({last, MemSize - 1}))])
  /\ UNCHANGED <<hmem, hedits>>

\* every difference is counted, the first few are listed
mem_compare(a, b, len) ==
  LET d == {i \in 0..(len - 1) : z80_read_mem(hmem, a + i) # z80_read_mem(hmem, b + i)}
  IN  /\ Answer([cmd |-> "compare", count |-> Cardinality(d), listed |-> First(MaxHits, d)])
      /\ UNCHANGED <<hmem, hedits>>

match_text(p, t) ==
  /\ Answer([cmd |-> "glob", p |-> p, t |-> t, search |-> search_asm(p, t), find |-> find_asm(p, t),
             fuzzy |-> fuzzy_score(p, t)])
  /\ UNCHANGED <<hmem, hedits>>

SearchInit == hmem \in [0..(MemSize - 1) -> FillBytes] /\ hedits = 0 /\ hans = NoAnswer

EditNext ==
  \/ \E a \in 0..(MemSize - 1), v, w \in FillBytes, bad \in 0..2 : mem_write(a, <<v, w>>, bad)
  \/ \E a \in 0..(MemSize - 1), len \in {1, MemSize + 1}, v, w \in FillBytes : mem_fill(a, len, <<v, w>>)
  \/ \E a, b \in 0..(MemSize - 1), len \in 0..MemSize : mem_compare(a, b, len)
  \/ \E p \in Patterns, r \in BOOLEAN : search(p, r)
  \/ \E p \in Patterns, f, l \in 0..MemSize : ~Contains(p, AnyMany) /\ find_hex(p, f, l)
PaintNext ==
  \E a \in 0..(MemSize - 1), mode \in PaintModes, x \in 0..16, c \in PaintColors :
    paint(a, mode, x, c) \/ render_gfx_finder(a, mode, x, c)
GlobNext == \E p \in TextGlobs, t \in Texts_ : match_text(p, t)

(* --- properties -------------------------------------------------------------------------------------- *)
\* every end of a match of p from off: all runs of every star at once
Ends(p, mem, off) ==
  FoldLeft(LAMBDA E, c :
             CASE c = AnyMany -> UNION {e..Min({Len(mem), e + SkipMax}) : e \in E}
               [] c = AnyOne -> {e + 1 : e \in {x \in E : x < Len(mem)}}
               [] OTHER   -> {e + 1 : e \in {x \in E : x < Len(mem) /\ mem[x + 1] = c}},
           {off}, p)

\* what a glob means: some split of the text
Globs(p, t) ==
  LET g == FoldLeft(LAMBDA E, c : CASE c = "*" -> UNION {e..Len(t) : e \in E}
                                    [] c = "?" -> {e + 1 : e \in {x \in E : x < Len(t)}}
                                    [] OTHER   -> {e + 1 : e \in {x \in E : x < Len(t) /\ t[x + 1] = c}},
                    {0}, p)
  IN  Len(t) \in g

(* A search reports exactly the first places where the pattern matches for some choice of
   the runs its stars stand for, in the memory view asked for, and `mem find` exactly the
   places where the pattern lies inside the range.                                          *)
SearchFinds ==
  /\ hans.cmd = "search" =>
       hans.hits = First(MaxHits, {a \in 0..(MemSize - 1) : Ends(hans.p, hans.mem, a) # {}})
  /\ hans.cmd = "find" =>
       hans.hits = First(MaxHits, {a \in hans.first..hans.last :
         \E e \in Ends(hans.p, View(FALSE), a) : e <= hans.last + 1})

(* `search asm` accepts exactly the texts of the glob; `mem find asm` misses none of a glob
   with one star; the palette's fuzzy match is "the letters in this order".                *)
GlobsMatch ==
  hans.cmd = "glob" =>
    /\ hans.search = Globs(hans.p, hans.t)
    /\ Contains(hans.p, "*") /\ ~Contains(hans.p, "?") /\ Cardinality({i \in DOMAIN hans.p : hans.p[i] = "*"}) = 1
         => (Globs(hans.p, hans.t) => hans.find)
    /\ hans.fuzzy = 1 <=> \E f \in [DOMAIN hans.p -> DOMAIN hans.t] :
         /\ \A i, j \in DOMAIN hans.p : i < j => f[i] < f[j]
         /\ \A i \in DOMAIN hans.p : hans.t[f[i]] = hans.p[i]

(* Painting one pixel changes that pixel to the colour (cut to the mode's depth) and no
   other pixel of the view, also where the view wraps round the end of memory; the Graphics
   Finder does too where no ROM is painted on, and there changes one byte; a write or a
   fill changes the cells it names and leaves a failed write's tail alone.                  *)
EditsExact ==
  /\ hans.cmd = "finder" =>
       \A i \in 0..(MemSize - 1) :
         hmem[i] = hans.before[i] \/ i = MemCell(hans.addr + hans.x \div Ppb(hans.mode))
  /\ \/ hans.cmd = "paint"
     \/ hans.cmd = "finder" /\ MemCell(hans.addr + hans.x \div Ppb(hans.mode)) \notin RomCells
     =>
       LET was == gfx_decode(hans.before, hans.addr, hans.mode, 2)
           now == gfx_decode(hmem, hans.addr, hans.mode, 2)
       IN  \A x \in DOMAIN was :
             now[x] = IF x = hans.x THEN hans.color % (2^(8 \div Ppb(hans.mode))) ELSE was[x]
  /\ hans.cmd = "fill" =>
       \A i \in 0..(MemSize - 1) :
         hmem[i] = hans.before[i] \/ \E k \in 1..hans.len : MemCell(hans.addr + k - 1) = i

HostSearchRight == SearchFinds /\ GlobsMatch /\ EditsExact

=============================================================================
