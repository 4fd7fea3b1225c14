------------------------------- MODULE Media -------------------------------
(***************************************************************************)
(* The media hot swap of src/src/subcycle_bridge.cpp and the loaders of    *)
(* src/src/slotshandler.cpp that feed it.  Host threads (the UI on the     *)
(* main thread, the IPC server on its own) change the slot's file name,    *)
(* run file_load, and post into ONE pending slot; the Z80 thread applies   *)
(* the slot at the next frame boundary, writing a changed disc back to the *)
(* file the slot then names.  The guest writes sectors during a frame.     *)
(*                                                                         *)
(* A disc image is what the properties tell apart: whose file it came      *)
(* from, and how many sector writes it has taken.                          *)
(***************************************************************************)
EXTENDS Naturals

CONSTANTS
  Dsk, Ipf, Scp,   \* image files: sector, flux with a legacy reader, flux without
  Bad,             \* those the loader's own parser refuses
  Refused,         \* those only the machine's parser refuses
  Hosts,           \* host threads that load and eject
  NoFile,
  MaxOps,          \* bound: host operations
  MaxWrites        \* bound: guest sector writes

Files == Dsk \cup Ipf \cup Scp
Flux == Ipf \cup Scp

ASSUME MediaAssumption ==
  /\ Bad \subseteq Files /\ Refused \subseteq Files
  /\ NoFile \notin Files
  /\ MaxOps \in Nat /\ MaxWrites \in Nat

Units == {0, 1}
Images == [home : Files, writes : 0..MaxWrites]
NoImage == [home |-> NoFile, writes |-> 0]
Kinds == {"none", "disk", "flux", "eject", "tape", "tapeEject"}

VARIABLES
  name,     \* CPC.driveA.file and CPC.driveB.file
  store,    \* the host's files
  swap,     \* swap_kind, swap_unit, swap_bytes: the pending slot
  buf,      \* media and media_b, the bridge's buffers
  drive,    \* per unit, what the FDC holds: backing, dirty, and whether it points into buf
  deck,     \* the cassette: attached, and whether it points into tape_media
  host,     \* each host thread's place in file_load
  running,  \* the Z80 thread is inside run_frame
  failed,   \* the last frame boundary logged a write-back error
  ops, writes

mediaVars == <<name, store, swap, buf, drive, deck, host, running, failed, ops, writes>>

Empty == [back |-> "none", dirty |-> FALSE, live |-> TRUE]
NoSwap == [kind |-> "none", unit |-> 0, img |-> NoImage]
Idle == [pc |-> "idle", unit |-> 0, file |-> NoFile, img |-> NoImage]

MediaTypeOK ==
  /\ name \in [Units -> Files \cup {NoFile}]
  /\ store \in [Files -> Images]
  /\ swap \in [kind : Kinds, unit : Units, img : Images \cup {NoImage}]
  /\ buf \in [Units -> Images \cup {NoImage}]
  /\ drive \in [Units -> [back : {"none", "dsk", "flux"}, dirty : BOOLEAN, live : BOOLEAN]]
  /\ deck \in [in : BOOLEAN, live : BOOLEAN]
  /\ host \in [Hosts -> [pc : {"idle", "eject", "parse", "read", "post", "tape", "clear"},
                         unit : Units, file : Files \cup {NoFile},
                         img : Images \cup {NoImage}]]
  /\ running \in BOOLEAN
  /\ failed \in BOOLEAN
  /\ ops \in 0..MaxOps /\ writes \in 0..MaxWrites

(* subcycle_bridge_start with both drives empty; the engine is active from  *)
(* here on.                                                                 *)
MediaInit ==
  /\ name = [u \in Units |-> NoFile]
  /\ store = [f \in Files |-> [home |-> f, writes |-> 0]]
  /\ swap = NoSwap
  /\ buf = [u \in Units |-> NoImage]
  /\ drive = [u \in Units |-> Empty]
  /\ deck = [in |-> FALSE, live |-> TRUE]
  /\ host = [h \in Hosts |-> Idle]
  /\ running = FALSE
  /\ failed = FALSE
  /\ ops = 0 /\ writes = 0

-----------------------------------------------------------------------------
(* The pending slot.  Posting replaces whatever waits there; a tape request *)
(* leaves swap_unit alone.                                                  *)

insert_media(u, i, isFlux) ==
  swap' = [kind |-> IF isFlux THEN "flux" ELSE "disk", unit |-> u, img |-> i]

eject_media(u) == swap' = [kind |-> "eject", unit |-> u, img |-> NoImage]

post_tape(kind) == swap' = [swap EXCEPT !.kind = kind, !.img = NoImage]

eject_disk(d, u) == [d EXCEPT ![u] = Empty]

(* A buffer assigned to while the FDC still points into it leaves the       *)
(* pointer dangling until the next attach or eject.                         *)
Moved(d, u) == [d EXCEPT ![u].live = (d[u].back = "none")]

(* The outgoing disc is written back to the file the slot names NOW.  A     *)
(* flux disc in drive A is left for an export; a failed write leaves the    *)
(* disc dirty.                                                              *)
Flushable(u) ==
  /\ drive[u].dirty
  /\ buf[u] # NoImage /\ name[u] # NoFile
  /\ ~(u = 0 /\ drive[0].back = "flux")

flush_dirty_media_unit(u, ok) ==
  /\ store' = IF Flushable(u) /\ ok THEN [store EXCEPT ![name[u]] = buf[u]] ELSE store
  /\ failed' = (Flushable(u) /\ ~ok)

(* Mutant: a refused image is left in the FDC. *)
attach_keeps(d, u, kind, i) ==
  IF i.home \in Refused THEN d
  ELSE [d EXCEPT ![u] = [back |-> IF kind = "flux" THEN "flux" ELSE "dsk",
                         dirty |-> FALSE, live |-> TRUE]]

attach(d, u, kind, i) ==
  IF i.home \in Refused THEN eject_disk(d, u)
  ELSE [d EXCEPT ![u] = [back |-> IF kind = "flux" THEN "flux" ELSE "dsk",
                         dirty |-> FALSE, live |-> TRUE]]

(* Mutant: a swap for drive B is taken from the slot and not carried out. *)
apply_disk_A(ok) ==
  /\ swap.kind \in {"disk", "flux"}
  /\ IF swap.unit # 0
     THEN UNCHANGED <<store, buf, drive>> /\ failed' = FALSE
     ELSE /\ flush_dirty_media_unit(swap.unit, ok)
          /\ buf' = [buf EXCEPT ![swap.unit] = swap.img]
          /\ drive' = attach(Moved(drive, swap.unit), swap.unit, swap.kind, swap.img)
  /\ UNCHANGED deck

(* apply_pending_media, then the rest of the frame's preamble: the Z80      *)
(* thread goes from the boundary into run_frame.                            *)
apply_disk(ok) ==
  /\ swap.kind \in {"disk", "flux"}
  /\ IF swap.kind = "flux" /\ swap.unit # 0
     THEN UNCHANGED <<store, buf, drive>> /\ failed' = FALSE
     ELSE /\ flush_dirty_media_unit(swap.unit, ok)
          /\ buf' = [buf EXCEPT ![swap.unit] = swap.img]
          /\ drive' = attach(Moved(drive, swap.unit), swap.unit, swap.kind, swap.img)
  /\ UNCHANGED deck

(* Mutant: the eject forgets to flush. *)
apply_eject_drops(ok) ==
  /\ swap.kind = "eject" /\ ok
  /\ drive' = eject_disk(drive, swap.unit)
  /\ failed' = FALSE
  /\ UNCHANGED <<buf, deck, store>>

apply_eject(ok) ==
  /\ swap.kind = "eject"
  /\ flush_dirty_media_unit(swap.unit, ok)
  /\ drive' = eject_disk(drive, swap.unit)
  /\ UNCHANGED <<buf, deck>>

apply_tape ==
  /\ swap.kind = "tape"
  /\ \E good \in BOOLEAN : deck' = [in |-> good, live |-> TRUE]
  /\ UNCHANGED <<store, buf, drive>> /\ failed' = FALSE

apply_tape_eject ==
  /\ swap.kind = "tapeEject"
  /\ deck' = [in |-> FALSE, live |-> TRUE]
  /\ UNCHANGED <<store, buf, drive>> /\ failed' = FALSE

apply_nothing ==
  /\ swap.kind = "none"
  /\ UNCHANGED <<store, buf, drive, deck>> /\ failed' = FALSE

apply_pending_media ==
  \/ \E ok \in BOOLEAN : apply_disk(ok) \/ apply_eject(ok)
  \/ apply_tape \/ apply_tape_eject \/ apply_nothing

(* Mutant: the swap is not held back to the boundary. *)
FrameStartAnyTime ==
  /\ apply_pending_media
  /\ swap' = NoSwap
  /\ running' = TRUE
  /\ UNCHANGED <<name, host, ops, writes>>

FrameStart ==
  /\ ~running
  /\ apply_pending_media
  /\ swap' = NoSwap
  /\ running' = TRUE
  /\ UNCHANGED <<name, host, ops, writes>>

(* A guest sector write changes the disc in place: the sector image, or the *)
(* overlay of a flux disc.                                                  *)
GuestWrite(u) ==
  /\ running /\ writes < MaxWrites
  /\ drive[u].back # "none"
  /\ drive' = [drive EXCEPT ![u].dirty = TRUE]
  /\ buf' = IF drive[u].back = "flux" THEN buf ELSE [buf EXCEPT ![u].writes = @ + 1]
  /\ writes' = writes + 1
  /\ UNCHANGED <<name, store, swap, deck, host, running, failed, ops>>

FrameEnd ==
  /\ running
  /\ running' = FALSE
  /\ UNCHANGED <<name, store, swap, buf, drive, deck, host, failed, ops, writes>>

-----------------------------------------------------------------------------
(* file_load for a disc slot: the caller names the file first; the legacy   *)
(* loader ejects before it parses; then the bytes are read a second time    *)
(* and posted.                                                              *)

At(h, pc) == host[h].pc = pc
Goto(h, pc) == host' = [host EXCEPT ![h].pc = pc]
Done(h) == host' = [host EXCEPT ![h] = Idle]
HostOnly == UNCHANGED <<buf, drive, deck, running, failed, writes>>

LoadDisk(h, u, f) ==
  /\ At(h, "idle") /\ ops < MaxOps
  /\ u = 0 \/ f \notin Scp
  /\ name' = [name EXCEPT ![u] = f]
  /\ host' = [host EXCEPT ![h] = [pc |-> IF f \in Scp THEN "read" ELSE "eject",
                                  unit |-> u, file |-> f, img |-> NoImage]]
  /\ ops' = ops + 1
  /\ UNCHANGED <<store, swap>> /\ HostOnly

dsk_eject(h) ==
  /\ At(h, "eject")
  /\ eject_media(host[h].unit)
  /\ Goto(h, "parse")
  /\ UNCHANGED <<name, store, ops>> /\ HostOnly

(* dsk_parse refuses: dsk_load ejects again and file_load gives up.  An IPF *)
(* the sector view cannot show goes on to the flux path all the same.       *)
ParseFails(h) ==
  /\ At(h, "parse") /\ host[h].file \in Bad
  /\ IF host[h].file \in Dsk
     THEN eject_media(host[h].unit) /\ Done(h)
     ELSE UNCHANGED swap /\ Goto(h, "read")
  /\ UNCHANGED <<name, store, ops>> /\ HostOnly

Parsed(h) ==
  /\ At(h, "parse") /\ host[h].file \notin Bad
  /\ Goto(h, "read")
  /\ UNCHANGED <<name, store, swap, ops>> /\ HostOnly

(* slot_bytes: flux in drive B stops here, and so does flux that does not   *)
(* transcode.                                                               *)
ReadBytes(h) ==
  /\ At(h, "read")
  /\ LET f == host[h].file
         stops == f \in Flux /\ (host[h].unit = 1 \/ f \in Bad)
     IN  host' = [host EXCEPT ![h] = IF stops THEN Idle
                                     ELSE [@ EXCEPT !.pc = "post", !.img = store[f]]]
  /\ UNCHANGED <<name, store, swap, ops>> /\ HostOnly

PostInsert(h) ==
  /\ At(h, "post")
  /\ insert_media(host[h].unit, host[h].img, host[h].file \in Flux)
  /\ Done(h)
  /\ UNCHANGED <<name, store, ops>> /\ HostOnly

(* The UI's Eject button: the request first, the file name after it.        *)
EjectButton(h, u) ==
  /\ At(h, "idle") /\ ops < MaxOps
  /\ eject_media(u)
  /\ host' = [host EXCEPT ![h] = [Idle EXCEPT !.pc = "clear", !.unit = u]]
  /\ ops' = ops + 1
  /\ UNCHANGED <<name, store>> /\ HostOnly

ClearName(h) ==
  /\ At(h, "clear")
  /\ name' = [name EXCEPT ![host[h].unit] = NoFile]
  /\ Done(h)
  /\ UNCHANGED <<store, swap, ops>> /\ HostOnly

(* disk_format_drive formats the legacy drive only: what the machine gets   *)
(* is the eject.                                                            *)
FormatDrive(h, u) ==
  /\ At(h, "idle") /\ ops < MaxOps
  /\ eject_media(u)
  /\ ops' = ops + 1
  /\ UNCHANGED <<name, store, host>> /\ HostOnly

(* tape_insert ejects, reads and posts; tape_eject only ejects.             *)
LoadTape(h) ==
  /\ At(h, "idle") /\ ops < MaxOps
  /\ post_tape("tapeEject")
  /\ \E readable \in BOOLEAN : IF readable THEN Goto(h, "tape") ELSE UNCHANGED host
  /\ ops' = ops + 1
  /\ UNCHANGED <<name, store>> /\ HostOnly

PostTape(h) ==
  /\ At(h, "tape")
  /\ post_tape("tape")
  /\ Done(h)
  /\ UNCHANGED <<name, store, ops>> /\ HostOnly

(* A disc saved under another name is that file's disc from then on; the    *)
(* drive and its slot stay as they are.                                     *)
SaveDiskAs(h, u, f) ==
  /\ At(h, "idle") /\ ops < MaxOps
  /\ f \in Dsk /\ drive[u].back = "dsk" /\ drive[u].live
  /\ \A w \in Units : name[w] # f
  /\ store' = [store EXCEPT ![f] = [home |-> f, writes |-> buf[u].writes]]
  /\ ops' = ops + 1
  /\ UNCHANGED <<name, swap, host>> /\ HostOnly

Load(h) ==
  \/ \E u \in Units, f \in Files : LoadDisk(h, u, f) \/ SaveDiskAs(h, u, f)
  \/ dsk_eject(h) \/ ParseFails(h) \/ Parsed(h) \/ ReadBytes(h) \/ PostInsert(h)
  \/ \E u \in Units : EjectButton(h, u) \/ FormatDrive(h, u)
  \/ ClearName(h) \/ LoadTape(h) \/ PostTape(h)

Z80 == FrameStart \/ FrameEnd

MediaNext == Z80 \/ (\E u \in Units : GuestWrite(u)) \/ (\E h \in Hosts : Load(h))

-----------------------------------------------------------------------------
(* Neither the FDC nor the tape deck ever reads a buffer that the bridge    *)
(* has already replaced (apply_pending_media: "replacing it here would      *)
(* dangle that pointer").                                                   *)
PointsIntoBuffer == deck.live /\ \A u \in Units : drive[u].live

(* A drive changes hands only at a frame boundary: inside run_frame the     *)
(* only thing that happens to a disc is a guest write (the header's "it     *)
(* must not change mid-tick").                                              *)
SwapBetweenFrames ==
  running => \A u \in Units : drive'[u].back = drive[u].back /\ buf'[u].home = buf[u].home

(* The writes of a disc are not dropped: a sector disc that leaves its      *)
(* drive dirty, its slot naming a file, is in that file afterwards, unless  *)
(* the write-back failed and said so (apply_pending_media's "the outgoing   *)
(* disc keeps its writes").                                                 *)
WritesFlushed ==
  \A u \in Units :
    drive[u].dirty /\ drive[u].back = "dsk" /\ name[u] # NoFile /\ ~drive'[u].dirty
      => store'[name[u]] = buf[u] \/ failed'

(* A request that nothing replaces is carried out: a disc waiting in the    *)
(* slot leaves it into its own drive, or because a later request took its   *)
(* place before the frame boundary, which is the fate of the first of two   *)
(* loads into different drives (insert_media keeps one slot for both).      *)
Waiting(u, f) ==
  swap.kind \in {"disk", "flux"} /\ swap.unit = u /\ swap.img.home = f

RequestLands ==
  \A u \in Units, f \in Files :
    Waiting(u, f) => Waiting(u, f)' \/ buf'[u].home = f \/ swap'.kind # "none"

(* So every step treats the discs.                                          *)
SwapsRight == [][SwapBetweenFrames /\ WritesFlushed /\ RequestLands]_mediaVars
=============================================================================
