------------------------------ MODULE DevTools ------------------------------
(* Windows of the developer tools, src/src/devtools_ui.cpp: Memory Hex, Silicon Disc,
   Disc Tools, Data Areas and Disasm Export.  Each is drawn once per frame by the main
   thread and acts on what the user did to it in that frame.  What the windows call is in
   HostSearch (memory, its two views), HostTables (the data areas) and DiscFiles; here a
   drive holds a set of files and a write to it may fail.                            *)
EXTENDS HostSearch, HostTables

CONSTANTS HexWidths,   \* bytes per row
          HexTexts,    \* byte sequences typed into the search box
          DevFiles,    \* names of files on a disc
          Tracks,      \* tracks typed into the sector browser
          Ahead        \* bytes the export form adds to its start (255)

VARIABLES hex,      \* Memory Hex: box, matches, selection, edit
          sdisc,    \* g_silicon_disc and the window's usage bars
          dt,       \* Disc Tools: drive, file list, dialogs, sectors
          drives,   \* files on the discs of drives A and B
          dex       \* Disasm Export's form, and whether it is shown

devVars == <<hex, sdisc, dt, drives, dex>>

(* --- Memory Hex -------------------------------------------------------------------- *)
NoText == -1
None == -1
memhex_read(a) == IF hex.cpu THEN z80_read_mem(hmem, a) ELSE z80_read_mem_via_write_bank(hmem, a)
Keep(h) == hex' = h /\ UNCHANGED hmem

\* Go to, width, view, the kind of search; the arrows walk round the matches
hex_toolbar ==
  \/ \E w \in HexWidths : Keep([hex EXCEPT !.width = w])
  \/ Keep([hex EXCEPT !.cpu = ~@])
  \/ Keep([hex EXCEPT !.at = <<>>, !.idx = None])
  \/ \E step \in {1, Len(hex.at) - 1} :
       hex.at # <<>> /\ Keep([hex EXCEPT !.idx = (@ + step) % Len(hex.at)])

\* what is typed stays beside the old matches until Enter or Go; a number above FF is refused
hex_search ==
  \/ \E t \in HexTexts : Keep([hex EXCEPT !.text = t, !.typed = TRUE])
  \/ /\ hex.text # <<>>
     /\ \E bad \in BOOLEAN :
          LET found == {a \in 0..(MemSize - Len(hex.text)) :
                          \A j \in 1..Len(hex.text) : memhex_read(a + j - 1) = hex.text[j]}
              at == IF bad THEN <<>> ELSE SetToSortSeq(found, LAMBDA a, b : a < b)
          IN  Keep([hex EXCEPT !.at = at, !.idx = IF at = <<>> THEN None ELSE 0, !.typed = FALSE])

\* the marked cells: the first match that may reach a cell does, or none
memhex_lit(a) ==
  LET reach == {i \in DOMAIN hex.at : hex.at[i] >= Max({a - Len(hex.text) + 1, 0})}
  IN  reach # {} /\ a \in hex.at[Min(reach)]..(hex.at[Min(reach)] + Len(hex.text) - 1)

\* rows are as wide as asked for, the last one wraps; a row is ROM if its first cell is
RowOf(a) == {b \in 0..(MemSize - 1) : b % hex.width = 0 /\ \E c \in 0..(hex.width - 1) : MemCell(b + c) = a}
in_rom(b) == b \in RomCells

\* a click selects, a second one edits what the box still holds from an earlier edit, a
\* digit edits the selected cell wherever the box is; Enter writes, Escape gives up
hex_cell(a, b, v) ==
  \/ Keep([hex EXCEPT !.sel = a])
  \/ ~in_rom(b) /\ Keep([hex EXCEPT !.sel = a, !.edit = a, !.buf = IF @ = NoText THEN memhex_read(a) ELSE @])
  \/ hex.sel = a /\ hex.edit # a /\ Keep([hex EXCEPT !.buf = v, !.edit = IF in_rom(b) THEN @ ELSE a])
  \/ hex.edit # None /\ hex.sel \in {None, hex.edit} /\ Keep([hex EXCEPT !.buf = v])
  \/ hex.edit # None /\ Keep([hex EXCEPT !.edit = None, !.sel = None])
  \/ /\ hex.edit # None
     /\ hmem' = IF hex.buf = NoText THEN hmem ELSE z80_write_mem(hmem, hex.edit, hex.buf)
     /\ hex' = [hex EXCEPT !.edit = None, !.sel = None]

\* the menu edits a row's first byte, under a ROM too
hex_menu(b) == Keep([hex EXCEPT !.edit = b, !.buf = memhex_read(b)])

HexInit ==
  hex = [width |-> Max(HexWidths), cpu |-> FALSE, text |-> <<>>, typed |-> FALSE, at |-> <<>>,
         idx |-> None, sel |-> None, edit |-> None, buf |-> NoText]
FindNext == (hex_toolbar \/ hex_search) /\ UNCHANGED <<hedits, hans>>
CellNext ==
  /\ hex_toolbar
     \/ \E a \in 0..(MemSize - 1), v \in FillBytes : \E b \in RowOf(a) : hex_cell(a, b, v) \/ hex_menu(b)
  /\ UNCHANGED <<hedits, hans>>

(* --- Silicon Disc ------------------------------------------------------------------- *)
\* one bank: a byte used or not; the bars are counted again only when marked
Banks == {0, 1}
Unallocated == [b \in Banks |-> None]

\* Mutant: a load leaves the bars alone
silicon_disc_load_quiet(r) == sdisc' = [sdisc EXCEPT !.data = r]

\* the file replaces the banks, or as many of them as it has; the bars are marked either way
silicon_disc_load(r) == sdisc' = [sdisc EXCEPT !.data = r, !.dirty = TRUE]

silicon_window ==
  LET drawn == IF sdisc.data = Unallocated \/ ~sdisc.dirty THEN sdisc
               ELSE [sdisc EXCEPT !.bars = sdisc.data, !.dirty = FALSE, !.wrote = FALSE]
      held == IF sdisc.data = Unallocated THEN [b \in Banks |-> 0] ELSE sdisc.data
  IN  \/ sdisc' = drawn
      \/ sdisc' = [drawn EXCEPT !.dirty = TRUE]
      \/ \E f \in [Banks -> {0, 1}] : silicon_disc_load(f)
      \/ \E f \in {0, 1} : silicon_disc_load([held EXCEPT ![0] = f])
      \/ sdisc' = [drawn EXCEPT !.data = IF @ = Unallocated THEN @ ELSE [b \in Banks |-> 0], !.dirty = TRUE]

\* `sdisc clear` and `sdisc load` over IPC, or the bridge copying the machine's banks back
silicon_written ==
  /\ sdisc.data # Unallocated
  /\ \E b \in Banks, v \in {0, 1} : sdisc' = [sdisc EXCEPT !.data[b] = v, !.wrote = TRUE]

SiliconInit == sdisc = [data |-> Unallocated, bars |-> Unallocated, dirty |-> TRUE, wrote |-> FALSE]

(* --- Disc Tools ---------------------------------------------------------------------- *)
\* the file list is taken again, before its rows are drawn, whenever it is marked; a dialog
\* answers frames later, for the drive noted when one was last opened
refreshed == IF dt.dirty THEN [dt EXCEPT !.files = drives[dt.drive], !.dirty = FALSE, !.other = FALSE] ELSE dt
Changed(d, files) == drives' = [drives EXCEPT ![d] = files]

disc_format ==
  \/ \E d \in {0, 1} : dt' = [dt EXCEPT !.drive = d, !.dirty = @ \/ d # dt.drive] /\ UNCHANGED drives
  \/ Changed(dt.drive, {}) /\ dt' = [dt EXCEPT !.dirty = TRUE]

Opened(w, k, f) ==
  [w EXCEPT !.dialogs = Append(@, [kind |-> k, drive |-> w.drive, file |-> f]), !.to = w.drive,
            !.file = f, !.two = @ \/ w.dialogs # <<>>]

\* Mutant: the drive that is selected when the dialog answers
disc_dialog_selected ==
  \E i \in DOMAIN dt.dialogs :
    LET n == dt.dialogs[i]
        left == [dt EXCEPT !.dialogs = RemoveAt(@, i), !.two = @ /\ Len(dt.dialogs) > 1]
        done == [left EXCEPT !.home = @ /\ (dt.two \/ <<dt.drive, dt.file>> = <<n.drive, n.file>>)]
    IN  \/ dt' = left /\ UNCHANGED drives
        \/ n.kind = "save" /\ dt.file \in drives[dt.drive] /\ dt' = done /\ UNCHANGED drives
        \/ \E f \in DevFiles \ drives[dt.drive] :
             n.kind = "import" /\ Changed(dt.drive, drives[dt.drive] \cup {f}) /\ dt' = [done EXCEPT !.dirty = TRUE]

\* dismissed or failed; else a file is saved, or one imported that the disc has no file of
disc_dialog ==
  \E i \in DOMAIN dt.dialogs :
    LET n == dt.dialogs[i]
        left == [dt EXCEPT !.dialogs = RemoveAt(@, i), !.two = @ /\ Len(dt.dialogs) > 1]
        done == [left EXCEPT !.home = @ /\ (dt.two \/ <<dt.to, dt.file>> = <<n.drive, n.file>>)]
    IN  \/ dt' = left /\ UNCHANGED drives
        \/ n.kind = "save" /\ dt.file \in drives[dt.to] /\ dt' = done /\ UNCHANGED drives
        \/ \E f \in DevFiles \ drives[dt.to] :
             n.kind = "import" /\ Changed(dt.to, drives[dt.to] \cup {f}) /\ dt' = [done EXCEPT !.dirty = TRUE]

\* Import, and Save and X of each row; X of a file that has gone deletes nothing
disc_rows ==
  \/ dt' = refreshed /\ UNCHANGED drives
  \/ Len(dt.dialogs) < 2 /\ dt' = Opened(refreshed, "import", dt.file) /\ UNCHANGED drives
  \/ \E f \in refreshed.files :
       \/ Len(dt.dialogs) < 2 /\ dt' = Opened(refreshed, "save", f) /\ UNCHANGED drives
       \/ dt' = [refreshed EXCEPT !.dirty = TRUE] /\ Changed(dt.drive, drives[dt.drive] \ {f})

\* a sector list stays until the next one is asked for, whatever drive is selected then
disc_sectors ==
  \E t \in Tracks :
    dt' = [refreshed EXCEPT !.sectors = <<dt.drive, Max({t, 0})>>] /\ UNCHANGED drives

\* `disk` over IPC, another disc put in: the list is not marked
drive_changed ==
  \E d \in {0, 1}, s \in SUBSET DevFiles :
    /\ s # drives[d] /\ Changed(d, s)
    /\ dt' = [dt EXCEPT !.other = @ \/ d = dt.drive]

DiscToolsInit ==
  /\ drives = [d \in {0, 1} |-> {}]
  /\ dt = [drive |-> 0, dirty |-> TRUE, files |-> {}, dialogs |-> <<>>, to |-> 0, file |-> "-",
           two |-> FALSE, home |-> TRUE, other |-> FALSE, sectors |-> <<>>]
DiscToolsNext == disc_format \/ disc_dialog \/ disc_rows \/ disc_sectors \/ drive_changed

(* --- Data Areas and Disasm Export ------------------------------------------------------- *)
NoRange == <<>>
toggle_export == dex' = [dex EXCEPT !.shown = ~@, !.prefill = @ \/ ~dex.shown, !.asked = NoRange]
                 /\ UNCHANGED areas

\* Mutant: the range of the disassembly view is still to come
export_marked_pending(d) ==
  LET r == <<Min({x.start : x \in areas}), Max({x.end : x \in areas})>>
  IN  [d EXCEPT !.range = r, !.shown = TRUE, !.asked = IF d.shown THEN r ELSE NoRange]

\* the range of all the areas goes into the form, which opens
export_marked(d) ==
  LET r == <<Min({x.start : x \in areas}), Max({x.end : x \in areas})>>
  IN  [d EXCEPT !.range = r, !.prefill = FALSE, !.shown = TRUE,
                !.asked = IF d.shown THEN r ELSE NoRange]

\* A form that was opened shows the view's address and what follows, cut to the width of an
\* address.
export_form(d, s) ==
  IF d.shown /\ d.prefill THEN [d EXCEPT !.range = <<s, (s + Ahead) % (ListLast + 1)>>, !.prefill = FALSE]
  ELSE d
Drawn(d, A) == areas' = A /\ \E s \in IF d.shown /\ d.prefill THEN 0..ListLast ELSE {0} : dex' = export_form(d, s)

\* Clear All, Open Disasm Export, Export Marked Range, Mark, X
areas_window(d) ==
  \/ Drawn(d, {}) \/ Drawn([d EXCEPT !.shown = TRUE], areas)
  \/ areas # {} /\ Drawn(export_marked(d), areas)
  \/ \E s, e \in 0..ListLast : s <= e /\ Drawn(d, mark(areas, s, e, "bytes"))
  \/ \E x \in areas : Drawn(d, areas \ {x})

\* render: a window that was not shown a frame ago is to be filled in, whoever opened it
dev_frame ==
  LET d == [dex EXCEPT !.prefill = @ \/ (dex.shown /\ ~dex.prev), !.prev = dex.shown]
  IN  Drawn(d, areas) \/ areas_window(d)

\* what is typed, a quick mark, Export, the close box
export_window ==
  /\ dex.shown /\ dex.prev /\ ~dex.prefill
  /\ \/ \E s, e \in 0..ListLast :
          \/ dex' = [dex EXCEPT !.range = <<s, e>>, !.asked = NoRange] /\ UNCHANGED areas
          \/ s <= e /\ areas' = mark(areas, s, e, "bytes") /\ UNCHANGED dex
     \/ /\ dex' = [dex EXCEPT !.lines = IF dex.range[1] > dex.range[2] THEN 0
                                        ELSE Len(export(areas, dex.range[1], dex.range[2]))]
        /\ UNCHANGED areas
     \/ dex' = [dex EXCEPT !.shown = FALSE, !.asked = NoRange] /\ UNCHANGED areas

DexInit == dex = [range |-> <<0, ListLast>>, shown |-> FALSE, prev |-> FALSE, prefill |-> FALSE,
                  asked |-> NoRange, lines |-> 0]
DexNext == (toggle_export \/ dev_frame \/ export_window) /\ UNCHANGED sizes

(* --- properties ------------------------------------------------------------------------------ *)
(* The counter of matches points at one of them exactly when there are any, and the marked
   cells are the ones inside a match, also where matches overlap, as long as no other text
   was typed since the search.                                                           *)
MatchesShown ==
  /\ (hex.at = <<>> /\ hex.idx = None) \/ (hex.at # <<>> /\ hex.idx \in 0..(Len(hex.at) - 1))
  /\ ~hex.typed => \A a \in 0..(MemSize - 1) :
       memhex_lit(a) <=> \E i \in DOMAIN hex.at : a \in hex.at[i]..(hex.at[i] + Len(hex.text) - 1)

(* The usage bars show the banks unless they are marked for a count, or were written
   outside the window.                                                                   *)
BarsFresh == ~sdisc.dirty /\ ~sdisc.wrote => sdisc.bars = sdisc.data

(* The rows drawn are the files of the selected drive unless the disc was changed outside
   the window; and a dialog, however late it answers and whatever was selected meanwhile,
   acts on the drive and file it was opened for unless a second one was opened first.     *)
DiscToolsRight == (~dt.dirty /\ ~dt.other => dt.files = drives[dt.drive]) /\ dt.home

(* The range asked for with Export Marked Range stays in the form until another one is
   typed or the form is opened anew (a form that was shut when it was asked for aside).   *)
MarkedRangeStays == dex.asked # NoRange => dex.range = dex.asked /\ ~dex.prefill

DevToolsRight ==
  MatchesShown /\ BarsFresh /\ DiscToolsRight /\ MarkedRangeStays

=============================================================================
