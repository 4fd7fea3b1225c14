---------------------------- MODULE Expansions ----------------------------
(* Boards on the expansion bus: the Multiface II (src/src/hw/mf2.cpp), the DS1216
   clock hidden under a ROM (src/src/hw/smartwatch.cpp) and the Symbiface II IDE
   port with its images on the host (src/src/hw/symbiface.cpp and the flush in
   src/src/subcycle_bridge.cpp).  The three share nothing but the machine reset.

   A sector's bytes are counted, its contents are one version number.            *)
EXTENDS Integers, Sequences

CONSTANTS NmiHold,      \* kNmiHold, 16
          Pattern,      \* kPattern, 64 bits in the code
          SectorBytes,  \* 512
          Sectors,      \* sectors of each drive's image; 0: none attached
          CountMod,     \* sector_count is a byte: 256
          MaxVersion    \* bound on the versions of a sector's contents

VARIABLES mf2,    \* mf2_state and the deferred STOP request
          clock,  \* sw_state
          ide,    \* sf2_state's IDE half: the selected drive's registers
          image,  \* sector contents in memory and in the host's file
          asked   \* the last command as the guest issued it

expVars == <<mf2, clock, ide, image, asked>>

Drives == DOMAIN Sectors

ASSUME ExpAssumption ==
  CountMod \in Nat \ {0} /\ 0 \in Drives /\ \A d \in Drives : Sectors[d] \in Nat

IdleDrive == [cmd |-> "none", count |-> 0, lba |-> 0, pos |-> 0, buf |-> 0,
              ready |-> FALSE, pending |-> FALSE, drq |-> FALSE, err |-> FALSE]
NotAsked == [lba |-> 0, count |-> 0, valid |-> FALSE]

ExpInit ==
  /\ mf2 = [plugged |-> TRUE, active |-> FALSE, invisible |-> FALSE, frozen |-> FALSE,
            hold |-> 0, stop |-> FALSE]
  /\ clock = [state |-> "idle", index |-> 0, match |-> TRUE]
  /\ ide = [sel |-> 0, dirty |-> FALSE, logged |-> FALSE, dr |-> [d \in Drives |-> IdleDrive]]
  /\ image = [d \in Drives |-> [ram |-> [s \in 0..(Sectors[d] - 1) |-> 0],
                                file |-> [s \in 0..(Sectors[d] - 1) |-> 0]]]
  /\ asked = NotAsked

---------------------------------------------------------------------------
(* Multiface II.                                                             *)

(* The red button on the host: a request the next frame serves.              *)
subcycle_bridge_mf2_stop ==
  /\ mf2' = [mf2 EXCEPT !.stop = TRUE]
  /\ UNCHANGED <<clock, ide, image, asked>>

(* Between frames: mf2_stop pages the box in and pulls NMI, unless it is in.  *)
mf2_stop ==
  /\ mf2.stop
  /\ mf2' = IF ~mf2.plugged \/ mf2.active THEN [mf2 EXCEPT !.stop = FALSE]
            ELSE [mf2 EXCEPT !.stop = FALSE, !.active = TRUE, !.frozen = TRUE, !.hold = NmiHold]
  /\ UNCHANGED <<clock, ide, image, asked>>

(* A tick holds NMI for a while; OUT &FEE8 pages in unless the box hid itself,
   OUT &FEEA pages out and, from the frozen menu, hides it.                   *)
mf2_tick ==
  /\ mf2.plugged
  /\ \/ mf2.hold > 0 /\ mf2' = [mf2 EXCEPT !.hold = @ - 1]
     \/ mf2' = [mf2 EXCEPT !.active = @ \/ ~mf2.invisible]
     \/ mf2' = [mf2 EXCEPT !.active = FALSE, !.frozen = FALSE, !.invisible = @ \/ mf2.frozen]
  /\ UNCHANGED <<clock, ide, image, asked>>

(* The option is checked every frame; unplugging leaves the latches.         *)
set_mf2 ==
  /\ mf2' = [mf2 EXCEPT !.plugged = ~@]
  /\ UNCHANGED <<clock, ide, image, asked>>

mf2_dev_reset ==
  [mf2 EXCEPT !.active = FALSE, !.invisible = FALSE, !.frozen = FALSE, !.hold = 0]

---------------------------------------------------------------------------
(* SmartWatch: each read of the upper ROM gives it address bits A0 and A2.    *)

SwIdle == [state |-> "idle", index |-> 0, match |-> TRUE]

(* A read with A2 low writes a bit, with A2 high reads one.                  *)
fsm_step(w, a0, a2) ==
  LET StartMatch == [state |-> "matching", index |-> 1, match |-> a0 = Pattern[1]]
      MatchBit ==
        LET n == w.index + 1
            good == w.match /\ a0 = Pattern[n]
        IN IF n < Len(Pattern) THEN [state |-> "matching", index |-> n, match |-> good]
           ELSE IF good THEN [state |-> "reading", index |-> 0, match |-> TRUE] ELSE SwIdle
  IN
  CASE w.state = "idle" -> IF a2 THEN w ELSE StartMatch
    [] w.state = "matching" -> IF a2 THEN SwIdle ELSE MatchBit
    [] w.state = "reading" -> IF ~a2 THEN StartMatch
                              ELSE IF w.index + 1 >= Len(Pattern) THEN SwIdle
                              ELSE [w EXCEPT !.index = @ + 1]

sw_tick ==
  /\ \E a0, a2 \in {0, 1} : clock' = fsm_step(clock, a0, a2 = 1)
  /\ UNCHANGED <<mf2, ide, image, asked>>

---------------------------------------------------------------------------
(* Symbiface II IDE.                                                         *)

Active == ide.dr[ide.sel]
present(d) == Sectors[d] > 0

(* The guest's registers; drive select picks the device a later access means. *)
ide_select ==
  /\ \E d \in Drives : ide' = [ide EXCEPT !.sel = d]
  /\ asked' = NotAsked
  /\ UNCHANGED <<mf2, clock, image>>

(* A sector into the buffer, or the error the guest finds in the status.      *)
ide_do_read(x) ==
  IF x.lba >= Sectors[ide.sel]
    THEN [x EXCEPT !.drq = FALSE, !.err = TRUE]
    ELSE [x EXCEPT !.pos = 0, !.ready = TRUE, !.drq = TRUE,
                   !.buf = image[ide.sel].ram[x.lba]]

ide_do_identify(x) == [x EXCEPT !.pos = 0, !.ready = TRUE, !.drq = TRUE, !.buf = 0]

ide_execute(x) ==
  CASE x.cmd = "identify" -> ide_do_identify(x)
    [] x.cmd = "read" -> ide_do_read(x)
    [] x.cmd = "write" -> [x EXCEPT !.pos = 0, !.pending = TRUE, !.ready = FALSE, !.drq = TRUE, !.buf = 0]
    [] x.cmd = "idle" -> [x EXCEPT !.drq = FALSE]
    [] x.cmd = "unknown" -> [x EXCEPT !.drq = FALSE, !.err = TRUE]

(* The guest writes sector address and count, then the command register; the
   commands that take no address leave the registers alone.                   *)
ide_command ==
  /\ present(ide.sel)
  /\ \E c \in {"identify", "read", "write", "idle", "unknown"},
        l \in 0..Sectors[ide.sel], n \in 0..(CountMod - 1) :
       /\ c \notin {"read", "write"} => l = Active.lba /\ n = Active.count
       /\ ide' = [ide EXCEPT !.dr[ide.sel] =
                    ide_execute([Active EXCEPT !.cmd = c, !.err = FALSE, !.lba = l, !.count = n])]
       /\ asked' = IF c = "write" \/ (c = "read" /\ ~Active.pending)
                   THEN [lba |-> l, count |-> n, valid |-> TRUE] ELSE NotAsked
  /\ UNCHANGED <<mf2, clock, image>>

(* Mutant: the next sector is read before the address moves on.              *)
NextSector_stale(x) == ide_do_read([x EXCEPT !.count = (@ - 1 + CountMod) % CountMod])

(* The last byte of a sector: one sector fewer, and the next one unless none. *)
NextSector(x) ==
  LET n == (x.count - 1 + CountMod) % CountMod
  IN IF n > 0 THEN ide_do_read([x EXCEPT !.count = n, !.lba = @ + 1])
              ELSE [x EXCEPT !.count = n, !.drq = FALSE]

ide_data_read ==
  /\ present(ide.sel) /\ Active.ready /\ Active.pos < SectorBytes
  /\ LET x == [Active EXCEPT !.pos = @ + 1]
         y == [x EXCEPT !.ready = FALSE]
     IN ide' = [ide EXCEPT !.dr[ide.sel] =
                  IF x.pos < SectorBytes THEN x
                  ELSE IF x.cmd = "read" THEN NextSector(y) ELSE [y EXCEPT !.drq = FALSE]]
  /\ UNCHANGED <<mf2, clock, image, asked>>

(* ide_do_write_commit: the buffer to the image, and on to the next sector.    *)
WriteCommit(x) ==
  IF x.lba >= Sectors[ide.sel]
    THEN /\ ide' = [ide EXCEPT !.dr[ide.sel] = [x EXCEPT !.drq = FALSE, !.err = TRUE]]
         /\ UNCHANGED image
    ELSE LET n == (x.count - 1 + CountMod) % CountMod
             y == [x EXCEPT !.count = n]
         IN /\ image' = [image EXCEPT ![ide.sel].ram[x.lba] = x.buf]
            /\ ide' = [ide EXCEPT !.dirty = TRUE, !.dr[ide.sel] =
                         IF n > 0 THEN [y EXCEPT !.lba = @ + 1, !.pos = 0, !.drq = TRUE]
                                  ELSE [y EXCEPT !.pending = FALSE, !.drq = FALSE]]

ide_data_write ==
  /\ present(ide.sel) /\ Active.pending /\ Active.pos < SectorBytes
  /\ \E v \in 0..MaxVersion :
       LET x == [Active EXCEPT !.pos = @ + 1, !.buf = v]
       IN IF x.pos < SectorBytes
            THEN ide' = [ide EXCEPT !.dr[ide.sel] = x] /\ UNCHANGED image
            ELSE WriteCommit(x)
  /\ UNCHANGED <<mf2, clock, asked>>

(* Board reset from the guest or with the machine: transfers are dropped.     *)
sf2_board_reset ==
  [ide EXCEPT !.sel = 0,
              !.dr = [d \in Drives |-> [ide.dr[d] EXCEPT !.pos = 0, !.ready = FALSE,
                                           !.pending = FALSE, !.drq = FALSE, !.err = FALSE]]]

(* Mutant: the second drive's image is never written back.                    *)
flush_sf2_ide_first(ok) ==
  [d \in Drives |-> IF ide.dirty /\ d \in ok /\ d = 0 THEN [image[d] EXCEPT !.file = image[d].ram] ELSE image[d]]

(* Every attached image is written whole when any is dirty.                   *)
flush_sf2_ide(ok) ==
  [d \in Drives |-> IF ide.dirty /\ d \in ok THEN [image[d] EXCEPT !.file = image[d].ram] ELSE image[d]]

(* A file that cannot be written is logged; the flag goes down all the same.  *)
subcycle_bridge_stop ==
  /\ \E ok \in SUBSET Drives :
       /\ image' = flush_sf2_ide(ok)
       /\ ide' = [ide EXCEPT !.dirty = FALSE, !.logged = @ \/ (ide.dirty /\ ok # Drives)]
  /\ UNCHANGED <<mf2, clock, asked>>

ExpReset ==
  /\ mf2' = mf2_dev_reset
  /\ clock' = SwIdle
  /\ ide' = sf2_board_reset
  /\ asked' = NotAsked
  /\ UNCHANGED image

IdeNext ==
  \/ ide_select \/ ide_command \/ ide_data_read \/ ide_data_write
  \/ subcycle_bridge_stop

BoxNext == subcycle_bridge_mf2_stop \/ mf2_stop \/ mf2_tick \/ set_mf2 \/ sw_tick

ExpNext == IdeNext \/ BoxNext \/ ExpReset

(* Between a READ or WRITE and the next register access the address and the count
   move together, sector by sector, through errors and the wrap of a zero count:
   what the guest has transferred is exactly the difference.                      *)
LbaTracksCount ==
  asked.valid /\ Active.cmd \in {"read", "write"} =>
    (Active.lba - asked.lba) % CountMod = (asked.count - Active.count) % CountMod
    \/ (Active.count = 0 /\ (Active.lba + 1 - asked.lba) % CountMod = asked.count)

(* Whatever the guest wrote is in the host's file, or the dirty flag is up, or an
   error was logged, for both drives: no order of writes, flushes and resets loses
   a sector in silence.                                                           *)
WritesReachFile ==
  \A d \in Drives : image[d].ram # image[d].file => ide.dirty \/ ide.logged
===========================================================================
