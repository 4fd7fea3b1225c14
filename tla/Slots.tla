------------------------------- MODULE Slots --------------------------------
(***************************************************************************)
(* Snapshots, the files of the command line, the disc image format and the *)
(* table of custom disc formats.                                           *)
(*                                                                         *)
(* The machine is reduced to the state whose restoration depends on the    *)
(* order of the writes that restore it: a register write of one chip may   *)
(* disturb what an earlier one put back.                                   *)
(*                                                                         *)
(* sm     the machine                  sna    the snapshot file            *)
(* goal   the machine a load should give, and what the load answered       *)
(* argv   the files of the command line and the slots they filled          *)
(* dsk    a disc, the image written from it and the disc read back         *)
(***************************************************************************)
EXTENDS Integers, Sequences, SequencesExt, FiniteSets

CONSTANTS EnvTop,        \* the envelope's highest level (31); odd
          MaxTime,       \* bound: steps of the guest
          Args           \* the files of the command line, as sequences

ASSUME SlotsAssumption == EnvTop \in Nat /\ \A files \in Args : Len(files) \in Nat

VARIABLES sm, sna, goal, argv, dsk

slotVars == <<sm, sna, goal, argv, dsk>>

-----------------------------------------------------------------------------
(* The chips.  rearm: bit 4 of the ROM configuration, which clears the     *)
(* raster counter when it is written.  code: the AY control lines that port*)
(* C drives; prev: the lines the AY saw last.  ext: the extension bits of  *)
(* the RAM configuration.  adjust: none, first, or a later adjust line.    *)

PowerOn == [cpu |-> 0, halted |-> FALSE, rearm |-> FALSE, count |-> 0, irq |-> FALSE,
          control |-> "in", porta |-> 0, code |-> "idle", prev |-> <<"idle", 0>>,
          sel |-> 7, shape |-> 0, mixer |-> 0, level |-> EnvTop, dir |-> "down",
          ram |-> 0, ext |-> 0, adjust |-> 0]

\* The mode-set write clears the latches of the ports.
ppi_control(m, c) == [m EXCEPT !.control = c, !.porta = 0, !.code = "idle"]
ppi_ports(m, a, c) == [m EXCEPT !.porta = a, !.code = c]

ga_rom_config(m, r) ==
  IF r THEN [m EXCEPT !.rearm = TRUE, !.count = 0, !.irq = FALSE] ELSE [m EXCEPT !.rearm = FALSE]

\* What port A puts on the AY's data lines: they float high when it is an input.
AyLines(m) == <<m.code, IF m.control = "out" THEN m.porta ELSE 15>>

\* The AY acts when its lines change: it latches a register number, or writes
\* the register, and writing the shape starts the envelope again.
psg_apply(m, data) ==
  IF m.code = "select" THEN [m EXCEPT !.sel = data]
  ELSE IF m.code # "write" THEN m
  ELSE IF m.sel = 13 THEN [m EXCEPT !.shape = data, !.level = EnvTop, !.dir = "down"]
  ELSE IF m.sel = 7 THEN [m EXCEPT !.mixer = data] ELSE m

psg_bus(m) == IF AyLines(m) = m.prev THEN m ELSE [psg_apply(m, AyLines(m)[2]) EXCEPT !.prev = AyLines(m)]

psg_poke(m, h) == [m EXCEPT !.sel = h.sel, !.shape = h.shape, !.mixer = h.mixer]

\* The level is kept in sixteen steps; a direction of none is a held envelope.
psg_poke_env(m, h) == [m EXCEPT !.level = 2 * h.half, !.dir = h.dir]

\* The flag says that lines of the vertical adjust were counted, not how many.
crtc_restore_v3(m, h) == [m EXCEPT !.adjust = IF h.adjusting THEN 1 ELSE 0]

ga_poke_counters(m, h) == [m EXCEPT !.count = h.count, !.irq = h.irq]

\* The guest runs: it programs the chips, the envelope falls, lines go by.
GuestStep ==
  /\ goal.time < MaxTime
  /\ \/ sm' = psg_bus(ppi_ports(sm, 13, "select"))
     \/ sm' = psg_bus(ppi_ports(sm, 7, "select"))
     \/ sm' = psg_bus(ppi_ports(sm, 7, "write"))
     \/ sm' = psg_bus(ppi_ports(sm, 7, "idle"))
     \/ sm' = psg_bus(ppi_control(sm, "out"))
     \/ sm' = ga_rom_config(sm, TRUE)
     \/ sm.count < 2 /\ sm' = [sm EXCEPT !.count = @ + 1, !.irq = sm.count = 1]
     \/ sm.level > 0 /\ sm' = [sm EXCEPT !.level = @ - 1, !.dir = IF sm.level = 1 THEN "none" ELSE @]
     \/ sm' = [sm EXCEPT !.halted = TRUE]
     \/ sm' = [sm EXCEPT !.cpu = 1, !.ram = 1]
     \/ sm' = [sm EXCEPT !.ext = 1]
     \/ sm' = [sm EXCEPT !.adjust = (@ + 1) % 3]
  /\ goal' = [goal EXCEPT !.time = @ + 1, !.answer = "none", !.before = PowerOn]
  /\ UNCHANGED <<sna, argv, dsk>>

-----------------------------------------------------------------------------
(* Saving and loading.                                                     *)

t_SNA_header(m) ==
  [cpu |-> m.cpu, rearm |-> m.rearm, count |-> m.count, irq |-> m.irq, control |-> m.control,
   porta |-> m.porta, code |-> m.code, sel |-> m.sel, shape |-> m.shape, mixer |-> m.mixer,
   half |-> m.level \div 2, dir |-> m.dir, ram |-> m.ram,
   adjusting |-> m.adjust = 2, version |-> 3]

\* The file is opened for writing before anything is written to it.
snapshot_save_machine ==
  /\ \/ sna' = [kind |-> "whole", head |-> t_SNA_header(sm)] /\ goal' = [goal EXCEPT !.saved = sm]
     \/ sna' = [kind |-> "torn", head |-> t_SNA_header(PowerOn)] /\ goal' = [goal EXCEPT !.saved = PowerOn]
     \/ UNCHANGED <<sna, goal>>
  /\ UNCHANGED <<sm, argv, dsk>>

\* Mutant: the machine is reset before the dump has been read.
Torn_resets(m) == PowerOn

\* Header and RAM are read whole before the machine is touched.
Torn(m) == m

\* Mutant: the ports are written before the control word that clears them.
Restored_ports_first(h) ==
  LET m1 == [PowerOn EXCEPT !.ram = h.ram]
      m2 == [m1 EXCEPT !.cpu = h.cpu, !.halted = FALSE]
      m3 == ppi_control(ppi_ports(ga_rom_config(m2, h.rearm), h.porta, h.code), h.control)
      m4 == psg_poke(m3, h)
  IN IF h.version > 2 THEN crtc_restore_v3(ga_poke_counters(psg_poke_env(m4, h), h), h) ELSE m4

\* Reset, RAM, CPU, Gate Array, PPI, sound registers; then, from version 3,
\* the counters and the envelope the writes above have disturbed.
Restored(h) ==
  LET m1 == [PowerOn EXCEPT !.ram = h.ram]
      m2 == [m1 EXCEPT !.cpu = h.cpu, !.halted = FALSE]
      m3 == ppi_ports(ppi_control(ga_rom_config(m2, h.rearm), h.control), h.porta, h.code)
      m4 == psg_poke(m3, h)
  IN IF h.version > 2 THEN crtc_restore_v3(ga_poke_counters(psg_poke_env(m4, h), h), h) ELSE m4

snapshot_load_machine ==
  /\ sna.kind # "none"
  /\ IF sna.kind = "torn"
     THEN sm' = Torn(sm) /\ goal' = [goal EXCEPT !.answer = "failed", !.before = sm]
     ELSE sm' = Restored(sna.head) /\ goal' = [goal EXCEPT !.answer = "loaded"]
  /\ UNCHANGED <<sna, argv, dsk>>

\* The first cycle after a load: the AY sees the lines port C drives.
FirstCycle ==
  /\ goal.answer = "loaded" /\ sm' = psg_bus(sm) /\ goal' = [goal EXCEPT !.answer = "runs"]
  /\ UNCHANGED <<sna, argv, dsk>>

SnapNext == GuestStep \/ snapshot_save_machine \/ snapshot_load_machine \/ FirstCycle

-----------------------------------------------------------------------------
(* The files of the command line.                                          *)

SlotOrder == <<"A", "B", "snapshot", "tape", "cartridge">>

drive_extensions(s) == CASE s = "A" -> {"dsk", "scp"} [] s = "B" -> {"dsk"}
                         [] s = "snapshot" -> {"sna"} [] s = "tape" -> {"cdt"} [] OTHER -> {"cpr"}

\* An archive counts as its first file; one that cannot be listed is skipped.
KindOf(f) == IF f.zip THEN f.inner ELSE f.ext

\* Mutant: a later file replaces an earlier one.
TakesFile_last(filled, s, f) == KindOf(f) \in drive_extensions(s)

TakesFile(filled, s, f) == filled[s] = 0 /\ KindOf(f) \in drive_extensions(s)

\* Each file goes to the first slot that takes it and is still free.
fillSlots(files) ==
  LET able(filled, f) == {n \in 1..Len(SlotOrder) : TakesFile(filled, SlotOrder[n], f)}
      first(S) == CHOOSE n \in S : \A k \in S : n <= k
      after[i \in 0..Len(files)] ==
        IF i = 0 THEN [s \in ToSet(SlotOrder) |-> 0]
        ELSE IF able(after[i - 1], files[i]) = {} THEN after[i - 1]
        ELSE [after[i - 1] EXCEPT ![SlotOrder[first(able(after[i - 1], files[i]))]] = i]
  IN  after[Len(files)]

FillSlots ==
  /\ argv.slots = [s \in ToSet(SlotOrder) |-> 0]
  /\ argv' = [argv EXCEPT !.slots = fillSlots(argv.files)]
  /\ UNCHANGED <<sm, sna, goal, dsk>>

-----------------------------------------------------------------------------
(* A disc image: the tracks' sizes are kept in units of 256 bytes, so a    *)
(* track is written as one page for its header and its data.  Sizes here   *)
(* are in half pages: two to the unit.                                     *)

\* The image: its table of sizes, then the bytes, one page of header and the
\* data of each track that has any.
dsk_to_bytes(d) ==
  LET \* dh.track_size: the page count of a track with its header, rounded down.
      TrackSize(t) == IF t.size = 0 THEN 0 ELSE (t.size + 2) \div 2
  IN
  [table |-> [i \in DOMAIN d |-> TrackSize(d[i])],
   body |-> FlattenSeq([i \in DOMAIN d |->
              IF d[i].size = 0 THEN <<>>
              ELSE <<[at |-> i, half |-> 0], [at |-> i, half |-> 0]>>
                   \o [h \in 1..d[i].size |-> [at |-> i, half |-> h]]])]

\* A track's header must lie where the sizes before it say.
dsk_load_track(body, pos, size) ==
  IF pos > Len(body) \/ body[pos].half # 0 THEN [ok |-> FALSE, size |-> 0]
  ELSE [ok |-> pos + 1 + size <= Len(body), size |-> size]

dsk_parse(img) ==
  FoldLeft(LAMBDA st, i :
             IF ~st.ok THEN st
             ELSE IF img.table[i] = 0 THEN [st EXCEPT !.disc = Append(@, 0)]
             ELSE LET size == 2 * img.table[i] - 2
                      t == dsk_load_track(img.body, st.pos, size) IN
                  [ok |-> t.ok, pos |-> st.pos + 2 + size, disc |-> Append(st.disc, t.size)],
           [ok |-> TRUE, pos |-> 1, disc |-> <<>>], [i \in DOMAIN img.table |-> i])

\* A failed load ejects: nothing is left in the drive.
dsk_load(img) == LET st == dsk_parse(img) IN IF st.ok THEN st.disc ELSE <<>>

\* A format of n sectors of a size code s: 0 is half a page, 1 a page.
dsk_format(tracks, n, s) == [i \in 1..tracks |-> [size |-> n * (2 ^ s)]]

\* A custom format's size code is 1 at least, from the table's own parser;
\* an image of sectors of 128 bytes comes from outside.
parseDiskFormat(n, s) == IF n = 0 \/ s = 0 THEN "none" ELSE "format"

DskRoundTrip ==
  /\ dsk.read = "no"
  /\ \E d \in {dsk_format(2, n, s) : n \in 1..3, s \in 1..2}
              \cup {<<[size |-> 4], [size |-> 0], [size |-> 2]>>} :
       dsk' = [disc |-> [i \in DOMAIN d |-> d[i].size], back |-> dsk_load(dsk_to_bytes(d)), read |-> "yes"]
  /\ UNCHANGED <<sm, sna, goal, argv>>

\* The table of formats is written and read entry by entry; one that does not
\* parse leaves its place to the next.
FormatTable(given) == SelectSeq(given, LAMBDA f : parseDiskFormat(f[1], f[2]) # "none")

FormatsReload ==
  /\ dsk.read = "no"
  /\ \E given \in [1..3 -> {<<0, 1>>, <<2, 1>>, <<3, 2>>}] :
       dsk' = [disc |-> FormatTable(given), back |-> FormatTable(FormatTable(given)), read |-> "yes"]
  /\ UNCHANGED <<sm, sna, goal, argv>>

FileNext == FillSlots \/ DskRoundTrip \/ FormatsReload

-----------------------------------------------------------------------------

SlotsInit ==
  /\ sm = PowerOn /\ sna = [kind |-> "none", head |-> t_SNA_header(PowerOn)]
  /\ goal = [saved |-> PowerOn, before |-> PowerOn, answer |-> "none", time |-> 0]
  /\ argv \in [files : Args, slots : {[s \in ToSet(SlotOrder) |-> 0]}]
  /\ dsk = [disc |-> <<>>, back |-> <<>>, read |-> "no"]

-----------------------------------------------------------------------------
(* Properties.                                                             *)

\* The HALT is executed again (PC is left on it) and the envelope keeps its upper
\* bits; the extension bits of a large RAM and the line of the vertical adjust
\* are not in the file.
Same(m, was) ==
  /\ [m EXCEPT !.halted = was.halted, !.level = was.level, !.ext = was.ext, !.adjust = was.adjust,
               !.prev = was.prev] = was
  /\ m.level \div 2 = was.level \div 2

\* A load gives back the machine that was saved, however the writes that put
\* it back disturb one another, and the first cycle after it keeps it so,
\* unless it was saved while the AY was being given an envelope shape.  A load
\* that fails leaves the machine alone.
SnapshotRestores ==
  /\ goal.answer = "loaded" /\ sna.kind = "whole" => Same(sm, goal.saved)
  /\ goal.answer = "runs" /\ sna.kind = "whole" /\ ~(goal.saved.code = "write" /\ goal.saved.sel = 13)
       => Same(sm, goal.saved)
  /\ goal.answer = "failed" => sm = goal.before

\* No file is in two slots, each is in a slot for its kind, and a slot has the
\* earliest file that no slot before it took.
SlotsFilled ==
  LET got == argv.slots IN
  \A s, t \in ToSet(SlotOrder) :
    got[s] # 0 =>
      /\ KindOf(argv.files[got[s]]) \in drive_extensions(s)
      /\ s # t => got[s] # got[t]
      /\ \A i \in 1..(got[s] - 1) : KindOf(argv.files[i]) \in drive_extensions(s)
           => \E u \in ToSet(SlotOrder) : got[u] = i

\* A disc written as an image reads back track by track, and a table of
\* formats once read is read again the same.
ImageReadsBack == dsk.read = "yes" => dsk.back = dsk.disc

SlotsRight == SnapshotRestores /\ SlotsFilled

=============================================================================
