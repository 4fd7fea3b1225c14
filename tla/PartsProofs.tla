---------------------------- MODULE PartsProofs ----------------------------
(***************************************************************************)
(* What holds of the parts that answer at once, for any image files, host  *)
(* threads, buttons, sectors and sizes, on the bench of MCParts and so in  *)
(* every composition that gives each part its own steps.                   *)
(***************************************************************************)
EXTENDS MCParts, TLAPS, WellFoundedInduction, SequenceTheorems

-----------------------------------------------------------------------------
(* The media hot swap.  A drive that holds a disc has it in the bridge's   *)
(* buffer, a request for a disc carries one, only drive A is asked to take *)
(* flux, and no image has more writes than the guest has made.             *)
Discs == Images \cup {NoImage}
WritesMade(i) == i.writes <= writes

Requests == [kind : Kinds, unit : Units, img : Discs]
Threads == [pc : {"idle", "eject", "parse", "read", "post", "tape", "clear"},
            unit : Units, file : Files \cup {NoFile}, img : Discs]

SoundRequest(r) ==
  /\ r.kind \in {"disk", "flux"} => r.img \in Images
  /\ r.kind = "flux" => r.unit = 0
  /\ WritesMade(r.img)

SoundThread(t) ==
  /\ t.pc \in {"eject", "parse", "read", "post"} => t.file \in Files
  /\ t.pc = "post" => t.img \in Images /\ (t.file \in Flux => t.unit = 0)
  /\ WritesMade(t.img)

MediaTyped ==
  /\ name \in [Units -> Files \cup {NoFile}]
  /\ store \in [Files -> Images]
  /\ swap \in Requests
  /\ buf \in [Units -> Discs]
  /\ drive \in [Units -> [back : {"none", "dsk", "flux"}, dirty : BOOLEAN, live : BOOLEAN]]
  /\ deck \in [in : BOOLEAN, live : BOOLEAN]
  /\ host \in [Hosts -> Threads]
  /\ running \in BOOLEAN
  /\ failed \in BOOLEAN
  /\ ops \in 0..MaxOps /\ writes \in 0..MaxWrites

MediaHeld ==
  /\ SoundRequest(swap)
  /\ \A h \in Hosts : SoundThread(host[h])
  /\ \A f \in Files : WritesMade(store[f])
  /\ \A u \in Units : WritesMade(buf[u]) /\ (drive[u].back # "none" => buf[u] \in Images)

MediaInv == MediaTyped /\ MediaHeld /\ PointsIntoBuffer

\* The empty drive is not an image.
LEMMA NoImageIsNot == NoImage \notin Images
  BY MediaAssumption DEF NoImage, Images

(* Whatever a host thread does leaves the machine's side alone: it is      *)
(* enough to look at the slot's names, the files, the request and the      *)
(* thread itself.                                                          *)
LEMMA HostKeepsMedia ==
  ASSUME MediaInv, HostOnly,
         name' \in [Units -> Files \cup {NoFile}],
         store' \in [Files -> Images], \A f \in Files : WritesMade(store'[f]),
         ops' \in 0..MaxOps,
         swap' \in Requests, SoundRequest(swap'),
         host' \in [Hosts -> Threads], \A h \in Hosts : SoundThread(host'[h])
  PROVE  MediaInv'
<1>1. UNCHANGED <<buf, drive, deck, running, failed, writes>>
  BY DEF HostOnly
<1>2. MediaTyped'
  BY <1>1 DEF MediaInv, MediaTyped
<1>3. MediaHeld'
  BY <1>1 DEF MediaInv, MediaHeld, WritesMade, SoundRequest, SoundThread
<1>4. PointsIntoBuffer'
  BY <1>1 DEF MediaInv, PointsIntoBuffer
<1> QED BY <1>2, <1>3, <1>4 DEF MediaInv

(* A thread that has parsed its file, or begins with a tape, moves on.     *)
LEMMA ThreadMovesOn ==
  ASSUME host \in [Hosts -> Threads], \A g \in Hosts : SoundThread(host[g]),
         NEW h \in Hosts, NEW pc \in {"parse", "read", "tape"},
         pc # "tape" => host[h].pc \in {"eject", "parse"},
         Goto(h, pc)
  PROVE  host' \in [Hosts -> Threads] /\ \A g \in Hosts : SoundThread(host'[g])
<1> DEFINE t == [host[h] EXCEPT !.pc = pc]
<1>1. host' = [host EXCEPT ![h] = t]
  BY DEF Goto
<1>2. t \in Threads /\ SoundThread(t)
  BY DEF Threads, SoundThread
<1> HIDE DEF t
<1> QED BY <1>1, <1>2

\* Loading an image from a host thread keeps the media invariant.
LEMMA LoadKeepsMedia ==
  ASSUME MediaInv, NEW h \in Hosts, Load(h) PROVE MediaInv'
<1>1. /\ host \in [Hosts -> Threads] /\ \A g \in Hosts : SoundThread(host[g])
      /\ name \in [Units -> Files \cup {NoFile}]
      /\ store \in [Files -> Images] /\ \A f \in Files : WritesMade(store[f])
      /\ swap \in Requests /\ SoundRequest(swap)
      /\ ops \in 0..MaxOps /\ writes \in 0..MaxWrites
  BY DEF MediaInv, MediaTyped, MediaHeld
<1>2. NoImage \in Discs /\ WritesMade(NoImage) /\ NoImage.writes = 0
  BY <1>1 DEF Discs, NoImage, WritesMade
<1>3. Idle \in Threads /\ SoundThread(Idle)
  BY <1>2 DEF Idle, Units, Threads, SoundThread
<1>4. ASSUME NEW t \in Threads, SoundThread(t), host' = [host EXCEPT ![h] = t]
      PROVE  host' \in [Hosts -> Threads] /\ \A g \in Hosts : SoundThread(host'[g])
  BY <1>1, <1>4
<1>5. ASSUME NEW u \in Units, eject_media(u)
      PROVE  swap' \in Requests /\ SoundRequest(swap')
  BY <1>2, <1>5 DEF eject_media, Kinds, Requests, SoundRequest
<1>6. ops < MaxOps => ops + 1 \in 0..MaxOps
  BY <1>1, MediaAssumption
<1>7. ASSUME NEW u \in Units, NEW f \in Files, LoadDisk(h, u, f) PROVE MediaInv'
  <2> DEFINE t == [pc |-> IF f \in Scp THEN "read" ELSE "eject",
                   unit |-> u, file |-> f, img |-> NoImage]
  <2>1. t \in Threads /\ SoundThread(t)
    BY <1>2 DEF Threads, SoundThread
  <2>2. host' = [host EXCEPT ![h] = t] /\ name' = [name EXCEPT ![u] = f]
        /\ ops < MaxOps /\ ops' = ops + 1 /\ UNCHANGED <<store, swap>> /\ HostOnly
    BY <1>7 DEF LoadDisk
  <2>3. name' \in [Units -> Files \cup {NoFile}]
    BY <1>1, <2>2
  <2> HIDE DEF t
  <2>4. host' \in [Hosts -> Threads] /\ \A g \in Hosts : SoundThread(host'[g])
    BY <1>4, <2>1, <2>2
  <2> QED BY <1>1, <1>6, <2>2, <2>3, <2>4, HostKeepsMedia
<1>8. ASSUME NEW u \in Units, NEW f \in Files, SaveDiskAs(h, u, f) PROVE MediaInv'
  <2>1. /\ drive[u].back = "dsk" /\ ops < MaxOps /\ ops' = ops + 1
        /\ store' = [store EXCEPT ![f] = [home |-> f, writes |-> buf[u].writes]]
        /\ UNCHANGED <<name, swap, host>> /\ HostOnly
    BY <1>8 DEF SaveDiskAs
  <2>2. buf[u] \in Images /\ WritesMade(buf[u])
    BY <2>1 DEF MediaInv, MediaHeld
  <2>3. [home |-> f, writes |-> buf[u].writes] \in Images
        /\ WritesMade([home |-> f, writes |-> buf[u].writes])
    BY <2>2 DEF Images, WritesMade
  <2>4. store' \in [Files -> Images] /\ \A g \in Files : WritesMade(store'[g])
    BY <1>1, <2>1, <2>3
  <2> QED BY <1>1, <1>6, <2>1, <2>4, HostKeepsMedia
<1>9. CASE dsk_eject(h)
  <2>1. host[h].pc = "eject" /\ eject_media(host[h].unit) /\ Goto(h, "parse")
        /\ UNCHANGED <<name, store, ops>> /\ HostOnly
    BY <1>9 DEF dsk_eject, At
  <2>2. host[h].unit \in Units
    BY <1>1 DEF Threads
  <2>3. host' \in [Hosts -> Threads] /\ \A g \in Hosts : SoundThread(host'[g])
    BY <1>1, <2>1, ThreadMovesOn
  <2> QED BY <1>1, <1>5, <2>1, <2>2, <2>3, HostKeepsMedia
<1>10. CASE ParseFails(h)
  <2>1. host[h].pc = "parse" /\ UNCHANGED <<name, store, ops>> /\ HostOnly
        /\ \/ eject_media(host[h].unit) /\ host' = [host EXCEPT ![h] = Idle]
           \/ swap' = swap /\ Goto(h, "read")
    BY <1>10 DEF ParseFails, Done, At
  <2>2. host[h].unit \in Units
    BY <1>1 DEF Threads
  <2>3. CASE eject_media(host[h].unit) /\ host' = [host EXCEPT ![h] = Idle]
    <3>1. host' \in [Hosts -> Threads] /\ \A g \in Hosts : SoundThread(host'[g])
      BY <1>3, <1>4, <2>3
    <3> QED BY <1>1, <1>5, <2>1, <2>2, <2>3, <3>1, HostKeepsMedia
  <2>4. CASE swap' = swap /\ Goto(h, "read")
    <3>1. host' \in [Hosts -> Threads] /\ \A g \in Hosts : SoundThread(host'[g])
      BY <1>1, <2>1, <2>4, ThreadMovesOn
    <3> QED BY <1>1, <2>1, <2>4, <3>1, HostKeepsMedia
  <2> QED BY <2>1, <2>3, <2>4
<1>11. CASE Parsed(h)
  <2>1. host[h].pc = "parse" /\ Goto(h, "read") /\ UNCHANGED <<name, store, swap, ops>>
        /\ HostOnly
    BY <1>11 DEF Parsed, At
  <2>2. host' \in [Hosts -> Threads] /\ \A g \in Hosts : SoundThread(host'[g])
    BY <1>1, <2>1, ThreadMovesOn
  <2> QED BY <1>1, <2>1, <2>2, HostKeepsMedia
<1>12. CASE ReadBytes(h)
  <2> DEFINE f == host[h].file
             t == [host[h] EXCEPT !.pc = "post", !.img = store[f]]
             stops == f \in Flux /\ (host[h].unit = 1 \/ f \in Bad)
  <2>1. host' = [host EXCEPT ![h] = IF stops THEN Idle ELSE t]
        /\ UNCHANGED <<name, store, swap, ops>> /\ HostOnly /\ host[h].pc = "read"
    BY <1>12 DEF ReadBytes, At
  <2>2. CASE stops
    <3>1. host' \in [Hosts -> Threads] /\ \A g \in Hosts : SoundThread(host'[g])
      BY <1>3, <1>4, <2>1, <2>2
    <3> QED BY <1>1, <2>1, <3>1, HostKeepsMedia
  <2>3. CASE ~stops
    <3>1. f \in Files
      BY <1>1, <2>1 DEF SoundThread
    <3>2. t \in Threads /\ SoundThread(t)
      BY <1>1, <2>3, <3>1 DEF Threads, SoundThread, Discs, Units
    <3>3. host' \in [Hosts -> Threads] /\ \A g \in Hosts : SoundThread(host'[g])
      BY <1>4, <2>1, <2>3, <3>2
    <3> QED BY <1>1, <2>1, <3>3, HostKeepsMedia
  <2> QED BY <2>2, <2>3
<1>13. CASE PostInsert(h)
  <2>1. host[h].pc = "post" /\ host' = [host EXCEPT ![h] = Idle]
        /\ UNCHANGED <<name, store, ops>> /\ HostOnly
        /\ swap' = [kind |-> IF host[h].file \in Flux THEN "flux" ELSE "disk",
                    unit |-> host[h].unit, img |-> host[h].img]
    BY <1>13 DEF PostInsert, At, Done, insert_media
  <2>2. host[h].unit \in Units /\ SoundThread(host[h]) /\ host[h].img \in Discs
    BY <1>1 DEF Threads
  <2>3. swap' \in Requests /\ SoundRequest(swap')
    BY <2>1, <2>2 DEF Kinds, Requests, SoundRequest, SoundThread
  <2>4. host' \in [Hosts -> Threads] /\ \A g \in Hosts : SoundThread(host'[g])
    BY <1>3, <1>4, <2>1
  <2> QED BY <1>1, <2>1, <2>3, <2>4, HostKeepsMedia
<1>14. ASSUME NEW u \in Units, EjectButton(h, u) PROVE MediaInv'
  <2> DEFINE t == [Idle EXCEPT !.pc = "clear", !.unit = u]
  <2>1. t \in Threads /\ SoundThread(t)
    BY <1>3 DEF Threads, SoundThread
  <2>2. ops < MaxOps /\ ops' = ops + 1 /\ eject_media(u) /\ host' = [host EXCEPT ![h] = t]
        /\ UNCHANGED <<name, store>> /\ HostOnly
    BY <1>14 DEF EjectButton
  <2> HIDE DEF t
  <2>3. host' \in [Hosts -> Threads] /\ \A g \in Hosts : SoundThread(host'[g])
    BY <1>4, <2>1, <2>2
  <2> QED BY <1>1, <1>5, <1>6, <2>2, <2>3, HostKeepsMedia
<1>15. ASSUME NEW u \in Units, FormatDrive(h, u) PROVE MediaInv'
  <2>1. ops < MaxOps /\ ops' = ops + 1 /\ eject_media(u) /\ UNCHANGED <<name, store, host>>
        /\ HostOnly
    BY <1>15 DEF FormatDrive
  <2> QED BY <1>1, <1>5, <1>6, <2>1, HostKeepsMedia
<1>16. CASE ClearName(h)
  <2>1. host' = [host EXCEPT ![h] = Idle] /\ name' = [name EXCEPT ![host[h].unit] = NoFile]
        /\ UNCHANGED <<store, swap, ops>> /\ HostOnly
    BY <1>16 DEF ClearName, Done
  <2>2. host' \in [Hosts -> Threads] /\ \A g \in Hosts : SoundThread(host'[g])
    BY <1>3, <1>4, <2>1
  <2>3. name' \in [Units -> Files \cup {NoFile}]
    BY <1>1, <2>1
  <2> QED BY <1>1, <2>1, <2>2, <2>3, HostKeepsMedia
<1>17. ASSUME NEW kind \in {"tape", "tapeEject"}, post_tape(kind)
       PROVE  swap' \in Requests /\ SoundRequest(swap')
  BY <1>1, <1>2, <1>17 DEF post_tape, Kinds, Requests, SoundRequest
<1>18. CASE LoadTape(h)
  <2>1. ops < MaxOps /\ ops' = ops + 1 /\ post_tape("tapeEject")
        /\ (Goto(h, "tape") \/ UNCHANGED host) /\ UNCHANGED <<name, store>> /\ HostOnly
    BY <1>18 DEF LoadTape
  <2>2. host' \in [Hosts -> Threads] /\ \A g \in Hosts : SoundThread(host'[g])
    BY <1>1, <2>1, ThreadMovesOn
  <2> QED BY <1>1, <1>6, <1>17, <2>1, <2>2, HostKeepsMedia
<1>19. CASE PostTape(h)
  <2>1. post_tape("tape") /\ host' = [host EXCEPT ![h] = Idle]
        /\ UNCHANGED <<name, store, ops>> /\ HostOnly
    BY <1>19 DEF PostTape, Done
  <2>2. host' \in [Hosts -> Threads] /\ \A g \in Hosts : SoundThread(host'[g])
    BY <1>3, <1>4, <2>1
  <2> QED BY <1>1, <1>17, <2>1, <2>2, HostKeepsMedia
<1> QED BY <1>7, <1>8, <1>9, <1>10, <1>11, <1>12, <1>13, <1>14, <1>15, <1>16, <1>18, <1>19
       DEF Load

(* The frame boundary, its swap and the guest's writes.  A drive whose     *)
(* buffer is assigned to is attached to the new one, or emptied, in the    *)
(* same step.                                                              *)
LEMMA BoundaryKeepsMedia ==
  ASSUME MediaInv, FrameStart PROVE MediaInv'
<1>1. /\ store \in [Files -> Images] /\ \A f \in Files : WritesMade(store[f])
      /\ buf \in [Units -> Discs]
      /\ \A u \in Units : WritesMade(buf[u]) /\ (drive[u].back # "none" => buf[u] \in Images)
      /\ drive \in [Units -> [back : {"none", "dsk", "flux"}, dirty : BOOLEAN, live : BOOLEAN]]
      /\ deck \in [in : BOOLEAN, live : BOOLEAN] /\ deck.live
      /\ \A u \in Units : drive[u].live
      /\ swap \in Requests /\ SoundRequest(swap)
      /\ name \in [Units -> Files \cup {NoFile}]
      /\ ops \in 0..MaxOps /\ writes \in 0..MaxWrites
      /\ running \in BOOLEAN /\ failed \in BOOLEAN
  BY DEF MediaInv, MediaTyped, MediaHeld, PointsIntoBuffer
<1>2. /\ apply_pending_media /\ swap' = NoSwap /\ running' = TRUE
      /\ UNCHANGED <<name, host, ops, writes>>
  BY DEF FrameStart
<1>3. swap' \in Requests /\ SoundRequest(swap)'
  <2>1. NoSwap \in Requests /\ NoSwap.kind = "none" /\ NoSwap.img.writes = 0
    BY DEF NoSwap, Requests, Kinds, Units, Discs, NoImage
  <2>2. writes' = writes /\ writes \in Nat
    BY <1>1, <1>2, MediaAssumption
  <2> QED BY <1>2, <2>1, <2>2 DEF SoundRequest, WritesMade
<1>4. ASSUME NEW u \in Units, NEW ok \in BOOLEAN, flush_dirty_media_unit(u, ok)
      PROVE  /\ store' \in [Files -> Images] /\ \A f \in Files : WritesMade(store'[f])
             /\ failed' \in BOOLEAN
  <2>1. CASE Flushable(u) /\ ok
    <3>1. buf[u] \in Images /\ WritesMade(buf[u])
      BY <1>1, <2>1 DEF Flushable, Discs
    <3>2. store' = [store EXCEPT ![name[u]] = buf[u]]
      BY <1>4, <2>1 DEF flush_dirty_media_unit
    <3> QED BY <1>1, <1>4, <3>1, <3>2 DEF flush_dirty_media_unit
  <2>2. CASE ~(Flushable(u) /\ ok)
    BY <1>1, <1>4, <2>2 DEF flush_dirty_media_unit
  <2> QED BY <2>1, <2>2
<1>5. ASSUME store' \in [Files -> Images], \A f \in Files : WritesMade(store'[f]),
             failed' \in BOOLEAN, buf' \in [Units -> Discs],
             drive' \in [Units -> [back : {"none", "dsk", "flux"}, dirty : BOOLEAN,
                                   live : BOOLEAN]],
             \A u \in Units : /\ drive'[u].live /\ WritesMade(buf'[u])
                              /\ drive'[u].back # "none" => buf'[u] \in Images,
             deck' \in [in : BOOLEAN, live : BOOLEAN], deck'.live
      PROVE  MediaInv'
  <2>1. MediaTyped'
    BY <1>2, <1>3, <1>5 DEF MediaInv, MediaTyped
  <2>2. MediaHeld'
    <3>1. writes' = writes /\ host' = host
      BY <1>2
    <3>2. \A h \in Hosts : SoundThread(host[h])'
      BY <3>1 DEF MediaInv, MediaHeld, SoundThread, WritesMade
    <3> QED BY <1>3, <1>5, <3>1, <3>2 DEF MediaHeld, WritesMade
  <2> QED BY <1>5, <2>1, <2>2 DEF MediaInv, PointsIntoBuffer
<1>6. ASSUME NEW ok \in BOOLEAN, apply_disk(ok) PROVE MediaInv'
  <2>1. swap.unit \in Units /\ swap.img \in Images /\ WritesMade(swap.img)
        /\ swap.kind \in {"disk", "flux"} /\ UNCHANGED deck
    BY <1>1, <1>6 DEF apply_disk, SoundRequest, Requests
  <2>2. CASE swap.kind = "flux" /\ swap.unit # 0
    BY <1>1, <1>5, <1>6, <2>1, <2>2 DEF apply_disk
  <2>3. CASE ~(swap.kind = "flux" /\ swap.unit # 0)
    <3> DEFINE u == swap.unit
               held == [back |-> IF swap.kind = "flux" THEN "flux" ELSE "dsk",
                        dirty |-> FALSE, live |-> TRUE]
    <3>1. flush_dirty_media_unit(u, ok) /\ buf' = [buf EXCEPT ![u] = swap.img]
          /\ drive' = attach(Moved(drive, u), u, swap.kind, swap.img)
      BY <1>6, <2>3 DEF apply_disk
    <3>2. drive' = [drive EXCEPT ![u] = held] \/ drive' = [drive EXCEPT ![u] = Empty]
      BY <1>1, <3>1 DEF attach, Moved, eject_disk
    <3>3. buf' \in [Units -> Discs] /\ buf'[u] \in Images
          /\ \A w \in Units : w # u => buf'[w] = buf[w]
      BY <1>1, <2>1, <3>1 DEF Discs
    <3>4. held \in [back : {"none", "dsk", "flux"}, dirty : BOOLEAN, live : BOOLEAN] /\ held.live
          /\ Empty \in [back : {"none", "dsk", "flux"}, dirty : BOOLEAN, live : BOOLEAN]
          /\ Empty.live
      BY DEF Empty
    <3> HIDE DEF held
    <3>5. /\ drive' \in [Units -> [back : {"none", "dsk", "flux"}, dirty : BOOLEAN, live : BOOLEAN]]
          /\ \A w \in Units : drive'[w].live
          /\ \A w \in Units : w # u => drive'[w] = drive[w]
      BY <1>1, <2>1, <3>2, <3>4
    <3>6. WritesMade(buf'[u])
      BY <1>1, <1>2, <2>1, <3>1 DEF WritesMade
    <3>7. \A w \in Units : /\ drive'[w].live /\ WritesMade(buf'[w])
                           /\ drive'[w].back # "none" => buf'[w] \in Images
      BY <1>1, <3>3, <3>5, <3>6
    <3> QED BY <1>1, <1>4, <1>5, <2>1, <3>1, <3>3, <3>5, <3>7
  <2> QED BY <2>2, <2>3
<1>7. ASSUME NEW ok \in BOOLEAN, apply_eject(ok) PROVE MediaInv'
  <2>1. swap.unit \in Units /\ flush_dirty_media_unit(swap.unit, ok)
        /\ drive' = [drive EXCEPT ![swap.unit] = Empty] /\ UNCHANGED <<buf, deck>>
    BY <1>1, <1>7 DEF apply_eject, eject_disk, Requests
  <2>2. Empty \in [back : {"none", "dsk", "flux"}, dirty : BOOLEAN, live : BOOLEAN]
        /\ Empty.live /\ Empty.back = "none"
    BY DEF Empty
  <2>3. drive' \in [Units -> [back : {"none", "dsk", "flux"}, dirty : BOOLEAN, live : BOOLEAN]]
        /\ \A u \in Units : drive'[u].live /\ (drive'[u].back # "none" => buf[u] \in Images)
    BY <1>1, <2>1, <2>2
  <2> QED BY <1>1, <1>4, <1>5, <2>1, <2>3
<1>8. CASE apply_tape \/ apply_tape_eject \/ apply_nothing
  <2>1. deck' \in [in : BOOLEAN, live : BOOLEAN] /\ deck'.live
    <3>1. \A good \in BOOLEAN : [in |-> good, live |-> TRUE] \in [in : BOOLEAN, live : BOOLEAN]
                               /\ [in |-> good, live |-> TRUE].live
      OBVIOUS
    <3>2. CASE apply_tape
      <4>1. PICK good \in BOOLEAN : deck' = [in |-> good, live |-> TRUE]
        BY <3>2 DEF apply_tape
      <4> QED BY <3>1, <4>1
    <3>3. CASE apply_tape_eject
      BY <3>1, <3>3 DEF apply_tape_eject
    <3>4. CASE apply_nothing
      BY <1>1, <3>4 DEF apply_nothing
    <3> QED BY <1>8, <3>2, <3>3, <3>4
  <2>2. UNCHANGED <<store, buf, drive>> /\ failed' = FALSE
    BY <1>8 DEF apply_tape, apply_tape_eject, apply_nothing
  <2>3. failed' \in BOOLEAN
    BY <2>2
  <2> QED BY <1>1, <1>5, <2>1, <2>2, <2>3
<1> QED BY <1>2, <1>6, <1>7, <1>8 DEF apply_pending_media

\* So does a write of the guest.
LEMMA GuestKeepsMedia ==
  ASSUME MediaInv, NEW u \in Units, GuestWrite(u) PROVE MediaInv'
<1> DEFINE full == [back : {"none", "dsk", "flux"}, dirty : BOOLEAN, live : BOOLEAN]
<1>1. /\ writes < MaxWrites /\ writes' = writes + 1 /\ drive[u].back # "none"
      /\ drive' = [drive EXCEPT ![u].dirty = TRUE]
      /\ buf' = IF drive[u].back = "flux" THEN buf ELSE [buf EXCEPT ![u].writes = @ + 1]
      /\ UNCHANGED <<name, store, swap, deck, host, running, failed, ops>>
  BY DEF GuestWrite
<1>2. writes \in Nat /\ writes \in 0..MaxWrites /\ MaxWrites \in Nat
  BY MediaAssumption DEF MediaInv, MediaTyped
<1>3. buf[u] \in Images /\ buf[u].writes <= writes /\ buf[u].writes \in Nat
      /\ buf \in [Units -> Discs]
  BY <1>1, <1>2 DEF MediaInv, MediaTyped, MediaHeld, WritesMade, Images
<1>4. \A i \in Discs : i.writes \in Nat
  BY <1>2 DEF Discs, Images, NoImage
<1>5. \A i \in Discs : WritesMade(i) => WritesMade(i)'
  <2>1. writes' = writes + 1
    BY <1>1
  <2> QED BY <1>2, <1>4, <2>1 DEF WritesMade
<1>6. [buf[u] EXCEPT !.writes = @ + 1] \in Images
      /\ buf[u].writes + 1 <= writes'
  <2>1. buf[u].writes + 1 \in 0..MaxWrites /\ buf[u].writes + 1 <= writes'
    BY <1>1, <1>2, <1>3
  <2> QED BY <1>3, <2>1 DEF Images
<1>7. buf' \in [Units -> Discs] /\ buf'[u] \in Images /\ buf'[u].writes <= writes'
      /\ \A w \in Units : w # u => buf'[w] = buf[w]
  <2>1. buf' = buf \/ buf' = [buf EXCEPT ![u] = [buf[u] EXCEPT !.writes = @ + 1]]
    BY <1>1, <1>3
  <2>2. buf[u].writes <= writes'
    BY <1>1, <1>2, <1>3
  <2>3. [buf[u] EXCEPT !.writes = @ + 1].writes = buf[u].writes + 1
    BY <1>3 DEF Images
  <2> QED BY <1>3, <1>6, <2>1, <2>2, <2>3 DEF Discs
<1>8. drive' \in [Units -> full] /\ \A w \in Units : drive'[w].live = drive[w].live
                                                   /\ drive'[w].back = drive[w].back
  BY <1>1 DEF MediaInv, MediaTyped
<1>9. MediaTyped'
  <2>1. writes' \in 0..MaxWrites
    BY <1>1, <1>2
  <2> QED BY <1>1, <1>7, <1>8, <2>1 DEF MediaInv, MediaTyped
<1>10. MediaHeld'
  <2>1. swap.img \in Discs /\ \A h \in Hosts : host[h].img \in Discs
    BY DEF MediaInv, MediaTyped, Requests, Threads
  <2>2. \A f \in Files : store[f] \in Discs
    BY DEF MediaInv, MediaTyped, Discs
  <2>3. SoundRequest(swap)'
    BY <1>1, <1>5, <2>1 DEF MediaInv, MediaHeld, SoundRequest
  <2>4. \A h \in Hosts : SoundThread(host[h])'
    BY <1>1, <1>5, <2>1 DEF MediaInv, MediaHeld, SoundThread
  <2>5. \A f \in Files : WritesMade(store[f])'
    BY <1>1, <1>5, <2>2 DEF MediaInv, MediaHeld
  <2>6. \A w \in Units : WritesMade(buf[w])' /\ (drive'[w].back # "none" => buf'[w] \in Images)
    <3> SUFFICES ASSUME NEW w \in Units
                 PROVE  /\ buf'[w].writes <= writes'
                        /\ drive'[w].back # "none" => buf'[w] \in Images
      BY DEF WritesMade
    <3>1. CASE w = u
      BY <1>7, <3>1
    <3>2. CASE w # u
      <4>1. WritesMade(buf[w]) /\ buf'[w] = buf[w] /\ buf[w] \in Discs
        BY <1>3, <1>7, <3>2 DEF MediaInv, MediaHeld
      <4>2. buf[w].writes <= writes'
        BY <1>1, <1>2, <1>4, <4>1 DEF WritesMade
      <4> QED BY <1>8, <4>1, <4>2 DEF MediaInv, MediaHeld
    <3> QED BY <3>1, <3>2
  <2> QED BY <2>3, <2>4, <2>5, <2>6 DEF MediaHeld
<1>11. PointsIntoBuffer'
  BY <1>1, <1>8 DEF MediaInv, PointsIntoBuffer
<1> QED BY <1>9, <1>10, <1>11 DEF MediaInv

(* One frame of the machine, one write of the guest, one step of a host    *)
(* thread: the media part by itself.                                       *)
LEMMA MediaStarts ==
  ASSUME MediaInit PROVE MediaInv
<1>1. NoImage \in Discs /\ NoImage.writes = 0 /\ MaxOps \in Nat /\ MaxWrites \in Nat
  BY MediaAssumption DEF Discs, NoImage
<1>2. MediaTyped
  <2>1. /\ name \in [Units -> Files \cup {NoFile}]
        /\ swap \in Requests /\ buf \in [Units -> Discs]
        /\ host \in [Hosts -> Threads]
    BY <1>1 DEF MediaInit, NoSwap, Requests, Kinds, Idle, Threads, Units
  <2>2. store \in [Files -> Images] /\ ops \in 0..MaxOps /\ writes \in 0..MaxWrites
    BY <1>1 DEF MediaInit, Images
  <2>3. drive \in [Units -> [back : {"none", "dsk", "flux"}, dirty : BOOLEAN, live : BOOLEAN]]
    BY DEF MediaInit, Empty
  <2>4. deck \in [in : BOOLEAN, live : BOOLEAN]
    BY DEF MediaInit
  <2>5. running \in BOOLEAN /\ failed \in BOOLEAN
    BY Zenon DEF MediaInit
  <2> QED BY <2>1, <2>2, <2>3, <2>4, <2>5 DEF MediaTyped
<1>3. MediaHeld
  BY <1>1 DEF MediaInit, MediaHeld, SoundRequest, SoundThread, WritesMade, NoSwap, Idle, Empty
<1>4. PointsIntoBuffer
  BY DEF MediaInit, PointsIntoBuffer, Empty
<1> QED BY <1>2, <1>3, <1>4 DEF MediaInv

\* So does every step.
LEMMA NextKeepsMedia ==
  ASSUME MediaInv, [MediaNext]_mediaVars PROVE MediaInv'
<1>1. CASE UNCHANGED mediaVars
  <2>1. MediaTyped'
    BY <1>1 DEF mediaVars, MediaInv, MediaTyped
  <2>2. MediaHeld'
    BY <1>1 DEF mediaVars, MediaInv, MediaHeld, SoundRequest, SoundThread, WritesMade
  <2>3. PointsIntoBuffer'
    BY <1>1 DEF mediaVars, MediaInv, PointsIntoBuffer
  <2> QED BY <2>1, <2>2, <2>3 DEF MediaInv
<1>2. CASE FrameStart
  BY <1>2, BoundaryKeepsMedia
<1>3. CASE FrameEnd
  <2>1. running' = FALSE /\ UNCHANGED <<name, store, swap, buf, drive, deck, host, failed, ops, writes>>
    BY <1>3, Zenon DEF FrameEnd
  <2>2. running' \in BOOLEAN
    BY <2>1
  <2>3. MediaTyped'
    BY <2>1, <2>2 DEF MediaInv, MediaTyped
  <2>4. MediaHeld'
    BY <2>1 DEF MediaInv, MediaHeld, SoundRequest, SoundThread, WritesMade
  <2>5. PointsIntoBuffer'
    BY <2>1 DEF MediaInv, PointsIntoBuffer
  <2> QED BY <2>3, <2>4, <2>5 DEF MediaInv
<1>4. ASSUME NEW u \in Units, GuestWrite(u) PROVE MediaInv'
  BY <1>4, GuestKeepsMedia
<1>5. ASSUME NEW h \in Hosts, Load(h) PROVE MediaInv'
  BY <1>5, LoadKeepsMedia
<1> QED BY <1>1, <1>2, <1>3, <1>4, <1>5 DEF MediaNext, Z80

(* The bench gives the media their own steps and no others.                *)
LEMMA BenchRunsMedia ==
  ASSUME [Next]_benchVars PROVE [MediaNext]_mediaVars
  BY DEF Next, FilesNext, benchVars, parkedVars

\* The media invariant holds in every reachable state.
LEMMA MediaHolds == Spec => []MediaInv
<1>1. Init => MediaInv
  BY MediaStarts DEF Init
<1>2. MediaInv /\ [Next]_benchVars => MediaInv'
  BY BenchRunsMedia, NextKeepsMedia
<1> QED BY <1>1, <1>2, PTL DEF Spec

(* The types of the swap, whatever the files, the host threads and the     *)
(* bounds (src/src/subcycle_bridge.cpp's pending slot).                    *)
THEOREM MediaTypeCorrect == Spec => []MediaTypeOK
<1>1. MediaInv => MediaTypeOK
  BY DEF MediaInv, MediaTyped, MediaTypeOK, Requests, Threads, Discs
<1> QED BY <1>1, MediaHolds, PTL

(* No buffer is replaced under the FDC or the deck: each swap attaches the *)
(* new one, or empties the drive, before the frame runs                    *)
(* (apply_pending_media).                                                  *)
THEOREM PointersStayLive == Spec => []PointsIntoBuffer
<1>1. MediaInv => PointsIntoBuffer
  BY DEF MediaInv
<1> QED BY <1>1, MediaHolds, PTL

-----------------------------------------------------------------------------
(* How each step treats the discs.  Only the boundary changes a drive's    *)
(* hands, and what it takes out dirty it has written to the slot's file.   *)
LEMMA HostsLeaveDrives ==
  ASSUME MediaInv, NEW h \in Hosts, Load(h)
  PROVE  /\ UNCHANGED <<buf, drive, failed>>
         /\ swap' = swap \/ swap'.kind # "none"
<1>1. HostOnly
  BY DEF Load, LoadDisk, SaveDiskAs, dsk_eject, ParseFails, Parsed, ReadBytes, PostInsert,
         EjectButton, FormatDrive, ClearName, LoadTape, PostTape
<1>2. ASSUME NEW u, eject_media(u) PROVE swap'.kind # "none"
  BY <1>2 DEF eject_media
<1>3. ASSUME NEW kind \in {"tape", "tapeEject"}, post_tape(kind)
      PROVE  swap'.kind # "none"
  <2>1. swap \in Requests
    BY DEF MediaInv, MediaTyped
  <2> QED BY <1>3, <2>1 DEF post_tape, Requests
<1>4. swap' = swap \/ swap'.kind # "none"
  <2>1. ASSUME NEW u \in Units, NEW f \in Files, LoadDisk(h, u, f) \/ SaveDiskAs(h, u, f)
        PROVE  swap' = swap
    BY <2>1 DEF LoadDisk, SaveDiskAs
  <2>2. CASE dsk_eject(h)
    BY <1>2, <2>2 DEF dsk_eject
  <2>3. CASE ParseFails(h)
    BY <1>2, <2>3 DEF ParseFails
  <2>4. CASE Parsed(h) \/ ReadBytes(h) \/ ClearName(h)
    BY <2>4 DEF Parsed, ReadBytes, ClearName
  <2>5. ASSUME NEW u \in Units, EjectButton(h, u) \/ FormatDrive(h, u)
        PROVE  swap'.kind # "none"
    BY <1>2, <2>5 DEF EjectButton, FormatDrive
  <2>6. CASE LoadTape(h)
    BY <1>3, <2>6 DEF LoadTape
  <2>7. CASE PostTape(h)
    BY <1>3, <2>7 DEF PostTape
  <2>8. CASE PostInsert(h)
    BY <2>8 DEF PostInsert, insert_media
  <2> QED BY <2>1, <2>2, <2>3, <2>4, <2>5, <2>6, <2>7, <2>8 DEF Load
<1> QED BY <1>1, <1>4 DEF HostOnly

\* At a frame's start the swap keeps the three action properties.
LEMMA BoundarySwaps ==
  ASSUME MediaInv, FrameStart
  PROVE  SwapBetweenFrames /\ WritesFlushed /\ RequestLands
<1>1. /\ ~running /\ apply_pending_media /\ name' = name
      /\ buf \in [Units -> Discs] /\ name \in [Units -> Files \cup {NoFile}]
      /\ store \in [Files -> Images]
      /\ drive \in [Units -> [back : {"none", "dsk", "flux"}, dirty : BOOLEAN, live : BOOLEAN]]
      /\ \A u \in Units : drive[u].back # "none" => buf[u] \in Images
      /\ swap \in Requests /\ SoundRequest(swap)
  BY DEF FrameStart, MediaInv, MediaTyped, MediaHeld
<1>2. SwapBetweenFrames
  BY <1>1 DEF SwapBetweenFrames
<1>3. WritesFlushed
  <2> SUFFICES ASSUME NEW u \in Units, drive[u].dirty, drive[u].back = "dsk",
                      name[u] # NoFile, ~drive'[u].dirty
               PROVE  store'[name[u]] = buf[u] \/ failed'
    BY DEF WritesFlushed
  <2>1. Flushable(u)
    BY <1>1, NoImageIsNot DEF Flushable
  <2>2. ASSUME NEW ok \in BOOLEAN, flush_dirty_media_unit(u, ok)
        PROVE  store'[name[u]] = buf[u] \/ failed'
    <3>1. CASE ok
      <4>1. store' = [store EXCEPT ![name[u]] = buf[u]]
        BY <2>1, <2>2, <3>1 DEF flush_dirty_media_unit
      <4>2. name[u] \in Files
        BY <1>1
      <4> QED BY <1>1, <4>1, <4>2
    <3>2. CASE ~ok
      BY <2>1, <2>2, <3>2 DEF flush_dirty_media_unit
    <3> QED BY <3>1, <3>2
  <2>3. ASSUME NEW ok \in BOOLEAN, apply_disk(ok) PROVE store'[name[u]] = buf[u] \/ failed'
    <3>1. ~(swap.kind = "flux" /\ swap.unit # 0)
      BY <2>3 DEF apply_disk
    <3>2. swap.unit = u
      BY <1>1, <2>3, <3>1 DEF apply_disk, attach, Moved, eject_disk, Requests
    <3> QED BY <2>2, <2>3, <3>1, <3>2 DEF apply_disk
  <2>4. ASSUME NEW ok \in BOOLEAN, apply_eject(ok) PROVE store'[name[u]] = buf[u] \/ failed'
    <3>1. swap.unit = u
      BY <1>1, <2>4 DEF apply_eject, eject_disk, Requests
    <3> QED BY <2>2, <2>4, <3>1 DEF apply_eject
  <2>5. CASE apply_tape \/ apply_tape_eject \/ apply_nothing
    BY <2>5 DEF apply_tape, apply_tape_eject, apply_nothing
  <2> QED BY <1>1, <2>3, <2>4, <2>5 DEF apply_pending_media
<1>4. RequestLands
  <2> SUFFICES ASSUME NEW u \in Units, NEW f \in Files, Waiting(u, f)
               PROVE  buf'[u].home = f
    BY DEF RequestLands
  <2>1. swap.kind \in {"disk", "flux"} /\ swap.unit = u /\ swap.img.home = f
        /\ ~(swap.kind = "flux" /\ swap.unit # 0)
    BY <1>1 DEF Waiting, SoundRequest
  <2>2. \E ok \in BOOLEAN : apply_disk(ok)
    BY <1>1, <2>1 DEF apply_pending_media, apply_eject, apply_tape, apply_tape_eject,
                     apply_nothing
  <2>3. buf' = [buf EXCEPT ![u] = swap.img]
    BY <2>1, <2>2 DEF apply_disk
  <2> QED BY <1>1, <2>1, <2>3
<1> QED BY <1>2, <1>3, <1>4

\* So does every other step.
LEMMA StepsSwap ==
  ASSUME MediaInv, [MediaNext]_mediaVars
  PROVE  [SwapBetweenFrames /\ WritesFlushed /\ RequestLands]_mediaVars
<1>1. ASSUME UNCHANGED <<buf, drive>>, swap' = swap \/ swap'.kind # "none"
      PROVE  SwapBetweenFrames /\ WritesFlushed /\ RequestLands
  BY <1>1 DEF SwapBetweenFrames, WritesFlushed, RequestLands, Waiting
<1>2. CASE FrameStart
  BY <1>2, BoundarySwaps
<1>3. CASE FrameEnd
  BY <1>1, <1>3 DEF FrameEnd
<1>4. ASSUME NEW h \in Hosts, Load(h)
      PROVE  SwapBetweenFrames /\ WritesFlushed /\ RequestLands
  BY <1>1, <1>4, HostsLeaveDrives
<1>5. ASSUME NEW u \in Units, GuestWrite(u)
      PROVE  SwapBetweenFrames /\ WritesFlushed /\ RequestLands
  <2>1. /\ drive' = [drive EXCEPT ![u].dirty = TRUE] /\ UNCHANGED swap
        /\ buf' = IF drive[u].back = "flux" THEN buf ELSE [buf EXCEPT ![u].writes = @ + 1]
        /\ drive[u].back # "none"
    BY <1>5 DEF GuestWrite
  <2>2. drive \in [Units -> [back : {"none", "dsk", "flux"}, dirty : BOOLEAN, live : BOOLEAN]]
        /\ buf \in [Units -> Discs] /\ buf[u] \in Images
    BY <2>1 DEF MediaInv, MediaTyped, MediaHeld
  <2>3. \A w \in Units : /\ drive'[w].back = drive[w].back
                         /\ drive[w].dirty => drive'[w].dirty
                         /\ buf'[w].home = buf[w].home
    BY <2>1, <2>2 DEF Images
  <2> QED BY <2>1, <2>3 DEF SwapBetweenFrames, WritesFlushed, RequestLands, Waiting
<1> QED BY <1>2, <1>3, <1>4, <1>5 DEF MediaNext, Z80

(* A drive changes hands at a frame boundary only, the dirty disc a swap   *)
(* takes out is in its slot's file unless the write-back failed, and a     *)
(* disc waiting in the slot reaches its drive unless a later request takes *)
(* its place (apply_pending_media, insert_media).                          *)
THEOREM SwapsKeepTheDiscs == Spec => SwapsRight
<1>1. [Next]_benchVars /\ MediaInv
        => [SwapBetweenFrames /\ WritesFlushed /\ RequestLands]_mediaVars
  BY BenchRunsMedia, StepsSwap
<1> QED BY <1>1, MediaHolds, PTL DEF Spec, SwapsRight

-----------------------------------------------------------------------------
(* The envelope, k clocks after its shape was written: in which segment it *)
(* is, whether it holds, and which way it goes.                            *)
EnvRecord(e) ==
  /\ {"shape", "step", "level", "up", "hold"} \subseteq DOMAIN e
  /\ e.step \in 0..EnvMax /\ e.up \in BOOLEAN /\ e.hold \in BOOLEAN

Ramps(e) == ~e.hold /\ e.level = IF e.up THEN e.step ELSE EnvMax - e.step

HeldLevel(s) ==
  IF ~IsSet(s, 3) THEN 0 ELSE IF IsSet(s, 2) # IsSet(s, 1) THEN EnvMax ELSE 0

Repeats(s) == IsSet(s, 3) /\ ~IsSet(s, 0)

\* Which way the second segment of a repeating shape goes.
Turned(s) == IF IsSet(s, 1) THEN ~IsSet(s, 2) ELSE IsSet(s, 2)

OnCurve(e, k) ==
  /\ EnvRecord(e)
  /\ \/ k \in 0..EnvMax /\ Ramps(e) /\ e.step = k /\ (e.up <=> IsSet(e.shape, 2))
     \/ k \in EnvLen..(Never - 1) /\ ~Repeats(e.shape) /\ e.hold /\ e.level = HeldLevel(e.shape)
     \/ /\ k \in EnvLen..(EnvLen + EnvMax) /\ Repeats(e.shape) /\ Ramps(e)
        /\ e.step = k - EnvLen /\ (e.up <=> Turned(e.shape))
     \/ /\ k \in (2 * EnvLen)..(Never - 1) /\ Repeats(e.shape) /\ Ramps(e)
        /\ e.step = k - 2 * EnvLen /\ (e.up <=> IsSet(e.shape, 2))

(* A bit of a byte is set or not.                                          *)
LEMMA BitIsBoolean == ASSUME NEW v, NEW i PROVE IsSet(v, i) \in BOOLEAN
  BY DEF IsSet

(* One clock draws the next point.                                         *)
LEMMA ClockSteps ==
  ASSUME NEW e, EnvRecord(e), Ramps(e), e.step < EnvMax
  PROVE  LET d == env_clock(e)
         IN  /\ EnvRecord(d) /\ Ramps(d) /\ d.step = e.step + 1
             /\ d.up = e.up /\ d.shape = e.shape
<1> DEFINE d == env_clock(e)
<1>1. d = [e EXCEPT !.step = @ + 1, !.level = IF e.up THEN e.step + 1 ELSE EnvMax - (e.step + 1)]
  BY DEF env_clock, Ramps
<1>2. /\ d.step = e.step + 1 /\ d.up = e.up /\ d.shape = e.shape /\ d.hold = e.hold
      /\ d.level = (IF e.up THEN e.step + 1 ELSE EnvMax - (e.step + 1)) /\ DOMAIN d = DOMAIN e
  BY <1>1 DEF EnvRecord
<1>3. e.step + 1 \in 0..EnvMax
  BY SoundAssumption DEF EnvRecord
<1> HIDE DEF d
<1>4. EnvRecord(d) /\ Ramps(d)
  BY <1>2, <1>3 DEF EnvRecord, Ramps
<1> QED BY <1>2, <1>4 DEF d

(* At the end of a segment it holds, or ramps again.                       *)
LEMMA ClockTurns ==
  ASSUME NEW e, EnvRecord(e), Ramps(e), e.step = EnvMax
  PROVE  LET d == env_clock(e)
         IN  /\ EnvRecord(d) /\ d.shape = e.shape
             /\ Repeats(e.shape) =>
                  /\ Ramps(d) /\ d.step = 0
                  /\ d.up <=> (IF IsSet(e.shape, 1) THEN ~e.up ELSE e.up)
             /\ ~Repeats(e.shape) /\ (e.up <=> IsSet(e.shape, 2)) =>
                  d.hold /\ d.level = HeldLevel(e.shape)
<1> DEFINE d == env_clock(e)
           up == IF IsSet(e.shape, 1) THEN ~e.up ELSE e.up
<1>1. ~e.hold /\ ~(e.step < EnvMax) /\ 0 \in 0..EnvMax
  BY SoundAssumption DEF Ramps
<1>2. CASE Repeats(e.shape)
  <2>1. d = [e EXCEPT !.step = 0, !.up = up, !.level = IF up THEN 0 ELSE EnvMax]
    BY <1>1, <1>2 DEF env_clock, Repeats
  <2> HIDE DEF up
  <2>2. /\ d.step = 0 /\ d.up = up /\ d.shape = e.shape /\ d.hold = e.hold
        /\ d.level = (IF up THEN 0 ELSE EnvMax) /\ DOMAIN d = DOMAIN e
    BY <2>1 DEF EnvRecord
  <2> HIDE DEF d
  <2>3. up \in BOOLEAN
    BY DEF EnvRecord, up
  <2>4. EnvRecord(d)
    BY <1>1, <2>2, <2>3 DEF EnvRecord
  <2>5. Ramps(d)
    BY <1>1, <2>2, SoundAssumption DEF Ramps
  <2> QED BY <1>2, <2>2, <2>4, <2>5 DEF d, up
<1>3. CASE ~Repeats(e.shape)
  <2> DEFINE last == IF ~IsSet(e.shape, 3) THEN 0
                     ELSE IF e.up = IsSet(e.shape, 1) THEN 0 ELSE EnvMax
  <2>1. d = [e EXCEPT !.step = 0, !.hold = TRUE, !.level = last]
    BY <1>1, <1>3 DEF env_clock, Repeats
  <2> HIDE DEF last
  <2>2. /\ d.step = 0 /\ d.up = e.up /\ d.shape = e.shape /\ d.hold = TRUE /\ d.level = last
        /\ DOMAIN d = DOMAIN e
    BY <2>1 DEF EnvRecord
  <2> HIDE DEF d
  <2>3. EnvRecord(d)
    BY <1>1, <2>2 DEF EnvRecord
  <2>4. (e.up <=> IsSet(e.shape, 2)) => last = HeldLevel(e.shape)
    <3>1. e.up \in BOOLEAN /\ IsSet(e.shape, 1) \in BOOLEAN /\ IsSet(e.shape, 2) \in BOOLEAN
      BY BitIsBoolean DEF EnvRecord
    <3> QED BY <3>1 DEF last, HeldLevel
  <2> QED BY <1>3, <2>2, <2>3, <2>4 DEF d
<1> QED BY <1>2, <1>3

(* So the clock keeps the envelope on its curve, and segment 3 is segment  *)
(* 1 again.                                                                *)
LEMMA ClockDraws ==
  ASSUME NEW e, NEW k, OnCurve(e, k)
  PROVE  OnCurve(env_clock(e), Clocked(k)) /\ Clocked(k) # Never /\ k # Never
<1> DEFINE d == env_clock(e)
<1>1. EnvMax \in Nat /\ EnvLen = EnvMax + 1 /\ Never = 3 * EnvLen
  BY SoundAssumption DEF EnvLen, Never
<1>2. EnvRecord(e) /\ k \in 0..(Never - 1)
  BY <1>1 DEF OnCurve
<1>3. Clocked(k) = IF k = Never - 1 THEN EnvLen ELSE k + 1
  BY <1>1, <1>2 DEF Clocked
<1>4. Clocked(k) \in 0..(Never - 1)
  BY <1>1, <1>2, <1>3
<1>5. CASE e.hold
  <2>1. k \in EnvLen..(Never - 1) /\ ~Repeats(e.shape) /\ e.level = HeldLevel(e.shape)
    BY <1>5 DEF OnCurve, Ramps
  <2>2. d = e
    BY <1>5 DEF env_clock
  <2>3. Clocked(k) \in EnvLen..(Never - 1)
    BY <1>1, <1>2, <1>3, <2>1
  <2> HIDE DEF d
  <2>4. OnCurve(d, Clocked(k))
    BY <1>2, <1>5, <2>1, <2>2, <2>3 DEF OnCurve
  <2> QED BY <1>1, <1>2, <1>4, <2>4 DEF d
<1>6. CASE ~e.hold /\ e.step < EnvMax
  <2>1. /\ Ramps(e)
        /\ \/ k \in 0..EnvMax /\ e.step = k /\ (e.up <=> IsSet(e.shape, 2))
           \/ /\ k \in EnvLen..(EnvLen + EnvMax) /\ Repeats(e.shape)
              /\ e.step = k - EnvLen /\ (e.up <=> Turned(e.shape))
           \/ /\ k \in (2 * EnvLen)..(Never - 1) /\ Repeats(e.shape)
              /\ e.step = k - 2 * EnvLen /\ (e.up <=> IsSet(e.shape, 2))
    BY <1>6 DEF OnCurve
  <2>2. /\ EnvRecord(d) /\ Ramps(d) /\ d.step = e.step + 1 /\ d.up = e.up /\ d.shape = e.shape
    BY <1>2, <1>6, <2>1, ClockSteps
  <2> HIDE DEF d
  <2>3. CASE k \in 0..EnvMax /\ e.step = k /\ (e.up <=> IsSet(e.shape, 2))
    <3>1. Clocked(k) = k + 1 /\ k + 1 \in 0..EnvMax
      BY <1>1, <1>3, <1>6, <2>3
    <3> QED BY <1>1, <1>2, <1>4, <2>2, <2>3, <3>1 DEF OnCurve, d
  <2>4. CASE /\ k \in EnvLen..(EnvLen + EnvMax) /\ Repeats(e.shape)
             /\ e.step = k - EnvLen /\ (e.up <=> Turned(e.shape))
    <3>1. Clocked(k) = k + 1 /\ k + 1 \in EnvLen..(EnvLen + EnvMax) /\ d.step = k + 1 - EnvLen
      BY <1>1, <1>3, <1>6, <2>2, <2>4
    <3> QED BY <1>1, <1>2, <1>4, <2>2, <2>4, <3>1 DEF OnCurve, d
  <2>5. CASE /\ k \in (2 * EnvLen)..(Never - 1) /\ Repeats(e.shape)
             /\ e.step = k - 2 * EnvLen /\ (e.up <=> IsSet(e.shape, 2))
    <3>1. Clocked(k) = k + 1 /\ k + 1 \in (2 * EnvLen)..(Never - 1) /\ d.step = k + 1 - 2 * EnvLen
      BY <1>1, <1>3, <1>6, <2>2, <2>5
    <3> QED BY <1>1, <1>2, <1>4, <2>2, <2>5, <3>1 DEF OnCurve, d
  <2> QED BY <2>1, <2>3, <2>4, <2>5
<1>7. CASE ~e.hold /\ e.step = EnvMax
  <2>1. /\ Ramps(e)
        /\ \/ k \in 0..EnvMax /\ e.step = k /\ (e.up <=> IsSet(e.shape, 2))
           \/ /\ k \in EnvLen..(EnvLen + EnvMax) /\ Repeats(e.shape)
              /\ e.step = k - EnvLen /\ (e.up <=> Turned(e.shape))
           \/ /\ k \in (2 * EnvLen)..(Never - 1) /\ Repeats(e.shape)
              /\ e.step = k - 2 * EnvLen /\ (e.up <=> IsSet(e.shape, 2))
    BY <1>7 DEF OnCurve
  <2>2. /\ EnvRecord(d) /\ d.shape = e.shape
        /\ Repeats(e.shape) => /\ Ramps(d) /\ d.step = 0
                               /\ d.up <=> (IF IsSet(e.shape, 1) THEN ~e.up ELSE e.up)
        /\ ~Repeats(e.shape) /\ (e.up <=> IsSet(e.shape, 2)) =>
             d.hold /\ d.level = HeldLevel(e.shape)
    BY <1>2, <1>7, <2>1, ClockTurns
  <2> HIDE DEF d
  <2>3. CASE k \in 0..EnvMax /\ e.step = k /\ (e.up <=> IsSet(e.shape, 2))
    <3>1. Clocked(k) = EnvLen /\ EnvLen \in EnvLen..(EnvLen + EnvMax) /\ EnvLen \in EnvLen..(Never - 1)
          /\ 0 = EnvLen - EnvLen
      BY <1>1, <1>3, <1>7, <2>3
    <3>2. CASE Repeats(e.shape)
      <4>1. d.up <=> Turned(d.shape)
        BY <2>2, <2>3, <3>2 DEF Turned
      <4> QED BY <1>1, <1>2, <1>4, <2>2, <3>1, <3>2, <4>1 DEF OnCurve, d
    <3>3. CASE ~Repeats(e.shape)
      BY <1>1, <1>2, <1>4, <2>2, <2>3, <3>1, <3>3 DEF OnCurve, d
    <3> QED BY <3>2, <3>3
  <2>4. CASE /\ k \in EnvLen..(EnvLen + EnvMax) /\ Repeats(e.shape)
             /\ e.step = k - EnvLen /\ (e.up <=> Turned(e.shape))
    <3>1. Clocked(k) = 2 * EnvLen /\ 2 * EnvLen \in (2 * EnvLen)..(Never - 1)
          /\ 0 = 2 * EnvLen - 2 * EnvLen
      BY <1>1, <1>3, <1>7, <2>4
    <3>2. d.up <=> IsSet(d.shape, 2)
      BY <2>2, <2>4 DEF Turned
    <3> QED BY <1>1, <1>2, <1>4, <2>2, <2>4, <3>1, <3>2 DEF OnCurve, d
  <2>5. CASE /\ k \in (2 * EnvLen)..(Never - 1) /\ Repeats(e.shape)
             /\ e.step = k - 2 * EnvLen /\ (e.up <=> IsSet(e.shape, 2))
    <3>1. Clocked(k) = EnvLen /\ EnvLen \in EnvLen..(EnvLen + EnvMax) /\ 0 = EnvLen - EnvLen
      BY <1>1, <1>3, <1>7, <2>5
    <3>2. d.up <=> Turned(d.shape)
      BY <2>2, <2>5 DEF Turned
    <3> QED BY <1>1, <1>2, <1>4, <2>2, <2>5, <3>1, <3>2 DEF OnCurve, d
  <2> QED BY <2>1, <2>3, <2>4, <2>5
<1> QED BY <1>1, <1>2, <1>5, <1>6, <1>7 DEF EnvRecord

(* Where a clock falls among segments of N.                                *)
LEMMA SegmentOf ==
  ASSUME NEW N \in Nat \ {0}, NEW p \in 0..(N - 1)
  PROVE  /\ p \div N = 0 /\ p % N = p
         /\ (N + p) \div N = 1 /\ (N + p) % N = p
         /\ (2 * N + p) \div N = 2 /\ (2 * N + p) % N = p
  OBVIOUS

(* The curve is the data sheet's.                                          *)
LEMMA DrawnIsWaveform ==
  ASSUME NEW e, NEW k, OnCurve(e, k) PROVE e.level = Waveform(e.shape, k)
<1>1. EnvMax \in Nat /\ EnvLen = EnvMax + 1 /\ Never = 3 * EnvLen /\ EnvLen \in Nat \ {0}
  BY SoundAssumption DEF EnvLen, Never
<1> DEFINE s == e.shape
<1>2. IsSet(s, 0) \in BOOLEAN /\ IsSet(s, 1) \in BOOLEAN /\ IsSet(s, 2) \in BOOLEAN
      /\ IsSet(s, 3) \in BOOLEAN /\ e.up \in BOOLEAN
  BY BitIsBoolean DEF OnCurve, EnvRecord
<1>3. CASE k \in 0..EnvMax /\ Ramps(e) /\ e.step = k /\ (e.up <=> IsSet(e.shape, 2))
  <2>1. k \div EnvLen = 0 /\ k % EnvLen = k
    BY <1>1, <1>3, SegmentOf
  <2> QED BY <1>2, <1>3, <2>1 DEF Waveform, Ramps
<1>4. CASE k \in EnvLen..(Never - 1) /\ ~Repeats(e.shape) /\ e.hold /\ e.level = HeldLevel(e.shape)
  <2>1. k \div EnvLen \in {1, 2}
    <3>1. CASE k < 2 * EnvLen
      <4>1. k - EnvLen \in 0..(EnvLen - 1) /\ k = EnvLen + (k - EnvLen)
        BY <1>1, <1>4, <3>1
      <4> QED BY <1>1, <4>1, SegmentOf
    <3>2. CASE ~(k < 2 * EnvLen)
      <4>1. k - 2 * EnvLen \in 0..(EnvLen - 1) /\ k = 2 * EnvLen + (k - 2 * EnvLen)
        BY <1>1, <1>4, <3>2
      <4> QED BY <1>1, <4>1, SegmentOf
    <3> QED BY <3>1, <3>2
  <2>2. k \div EnvLen # 0
    BY <2>1
  <2> QED BY <1>2, <1>4, <2>2 DEF Waveform, Repeats, HeldLevel
<1>5. CASE /\ k \in EnvLen..(EnvLen + EnvMax) /\ Repeats(e.shape) /\ Ramps(e)
           /\ e.step = k - EnvLen /\ (e.up <=> Turned(e.shape))
  <2>1. k - EnvLen \in 0..(EnvLen - 1) /\ k = EnvLen + (k - EnvLen)
    BY <1>1, <1>5
  <2>2. k \div EnvLen = 1 /\ k % EnvLen = k - EnvLen
    BY <1>1, <2>1, SegmentOf
  <2>3. 1 # 0 /\ 1 % 2 = 1
    OBVIOUS
  <2> QED BY <1>2, <1>5, <2>2, <2>3 DEF Waveform, Repeats, Ramps, Turned
<1>6. CASE /\ k \in (2 * EnvLen)..(Never - 1) /\ Repeats(e.shape) /\ Ramps(e)
           /\ e.step = k - 2 * EnvLen /\ (e.up <=> IsSet(e.shape, 2))
  <2>1. k - 2 * EnvLen \in 0..(EnvLen - 1) /\ k = 2 * EnvLen + (k - 2 * EnvLen)
    BY <1>1, <1>6
  <2>2. k \div EnvLen = 2 /\ k % EnvLen = k - 2 * EnvLen
    BY <1>1, <2>1, SegmentOf
  <2>3. 2 # 0 /\ 2 % 2 = 0
    OBVIOUS
  <2> QED BY <1>2, <1>6, <2>2, <2>3 DEF Waveform, Repeats, Ramps
<1> QED BY <1>3, <1>4, <1>5, <1>6 DEF OnCurve

-----------------------------------------------------------------------------
(* The generators.  While fewer steps are taken at once than any generator *)
(* needs to fire, taking one more is a step of each.                       *)
Generators == [div : Nat, cnt : Nat, per : Nat]

GenTyped(gs) == gs \in [Gens -> Generators] /\ \A g \in Gens : gs[g].div < Pre[g]

Skipped(x, pre, n) ==
  [x EXCEPT !.div = (x.div + n) % pre, !.cnt = @ + (x.div + n) \div pre]

(* Counting one further in a prescaler.                                    *)
LEMMA DivMod ==
  ASSUME NEW p \in Nat \ {0}, NEW m \in Nat
  PROVE  /\ m % p \in 0..(p - 1) /\ m \div p \in Nat
         /\ m = (m \div p) * p + (m % p)
         /\ (m % p) + 1 < p => (m + 1) % p = (m % p) + 1 /\ (m + 1) \div p = m \div p
         /\ ~((m % p) + 1 < p) => /\ (m + 1) % p = 0 /\ (m + 1) \div p = (m \div p) + 1
                                  /\ m + 1 = ((m \div p) + 1) * p
<1> DEFINE q == m \div p
           r == m % p
<1>1. r \in 0..(p - 1) /\ q \in Nat
  OBVIOUS
<1>2. m = q * p + r
  OBVIOUS
<1>3. ASSUME NEW a \in Nat, NEW b \in 0..(p - 1), NEW c \in Nat, c = a * p + b
      PROVE  c \div p = a /\ c % p = b
  BY ONLY <1>3, p \in Nat \ {0}
<1> HIDE DEF q, r
<1>4. CASE r + 1 < p
  <2>1. r + 1 \in 0..(p - 1) /\ m + 1 = q * p + (r + 1) /\ m + 1 \in Nat
    BY <1>1, <1>2, <1>4
  <2>2. (m + 1) \div p = q /\ (m + 1) % p = r + 1
    BY <1>1, <1>3, <2>1
  <2> QED BY ONLY <1>1, <1>2, <1>4, <2>2 DEF q, r
<1>5. CASE ~(r + 1 < p)
  <2>1. r = p - 1
    BY <1>1, <1>5
  <2>2. m + 1 = (q + 1) * p
    <3>1. (q + 1) * p = q * p + p
      BY <1>1
    <3>2. q * p \in Nat
      BY <1>1
    <3> QED BY <1>2, <2>1, <3>1, <3>2
  <2>3. m + 1 = (q + 1) * p + 0 /\ 0 \in 0..(p - 1) /\ q + 1 \in Nat /\ m + 1 \in Nat
    BY <1>1, <2>2
  <2>4. (m + 1) \div p = q + 1 /\ (m + 1) % p = 0
    BY <1>3, <2>3
  <2> QED BY ONLY <1>1, <1>2, <1>5, <2>2, <2>4 DEF q, r
<1> QED BY <1>4, <1>5

(* One generator: after m steps at once, which are fewer than it needs to   *)
(* fire, a single step is the (m + 1)-th.                                   *)
LEMMA StepAfterSkip ==
  ASSUME NEW x \in Generators, NEW pre \in Nat \ {0}, x.div < pre,
         NEW n \in Nat, n + 1 < psg_event_in(x, pre)
  PROVE  GenStep(Skipped(x, pre, n), pre) = Skipped(x, pre, n + 1)
<1> DEFINE m == x.div + n
           y == Skipped(x, pre, n)
           ticks == IF Period(x) > x.cnt THEN Period(x) - x.cnt ELSE 1
<1>1. x.div \in Nat /\ x.cnt \in Nat /\ x.per \in Nat /\ m \in Nat /\ Period(x) \in Nat \ {0}
  BY DEF Generators, Period
<1>2. x.div + (n + 1) = m + 1
  BY <1>1
<1>3. y = [x EXCEPT !.div = m % pre, !.cnt = @ + (m \div pre)]
      /\ Skipped(x, pre, n + 1) = [x EXCEPT !.div = (m + 1) % pre, !.cnt = @ + ((m + 1) \div pre)]
  BY <1>2 DEF Skipped
<1>4. ticks \in Nat \ {0}
  BY <1>1
<1>5. m + 1 < ticks * pre
  <2> HIDE DEF ticks
  <2>1. psg_event_in(x, pre) = (pre - x.div) + (ticks - 1) * pre
    BY DEF psg_event_in, ticks
  <2>2. (ticks - 1) * pre = ticks * pre - pre /\ ticks * pre \in Nat
    BY <1>4
  <2> QED BY <1>1, <2>1, <2>2
<1> DEFINE q == m \div pre
           r == m % pre
<1>6. /\ r \in 0..(pre - 1) /\ q \in Nat
      /\ r + 1 < pre => (m + 1) % pre = r + 1 /\ (m + 1) \div pre = q
      /\ ~(r + 1 < pre) => (m + 1) % pre = 0 /\ (m + 1) \div pre = q + 1
                           /\ m + 1 = (q + 1) * pre
  BY <1>1, DivMod
<1>7. y.div = r /\ y.cnt = x.cnt + q /\ y.per = x.per /\ Period(y) = Period(x)
      /\ DOMAIN y = DOMAIN x
  BY <1>3 DEF Generators, Period
<1>8. x = [div |-> x.div, cnt |-> x.cnt, per |-> x.per]
  BY DEF Generators
<1>9. y = [div |-> r, cnt |-> x.cnt + q, per |-> x.per]
  BY <1>3, <1>8
<1> HIDE DEF y, q, r, m, ticks
<1>10. CASE r + 1 < pre
  <2>1. GenStep(y, pre) = [div |-> r + 1, cnt |-> x.cnt + q, per |-> x.per]
    BY <1>7, <1>9, <1>10 DEF GenStep
  <2>2. Skipped(x, pre, n + 1) = [div |-> r + 1, cnt |-> x.cnt + q, per |-> x.per]
    BY <1>3, <1>6, <1>8, <1>10
  <2> QED BY <2>1, <2>2 DEF y
<1>11. CASE ~(r + 1 < pre)
  <2>1. q + 1 < ticks
    <3>1. (q + 1) * pre < ticks * pre
      BY <1>5, <1>6, <1>11
    <3> QED BY <1>4, <1>6, <3>1
  <2>2. x.cnt + q + 1 < Period(x)
    BY <1>1, <1>6, <2>1 DEF ticks
  <2>3. GenStep(y, pre) = [div |-> 0, cnt |-> x.cnt + q + 1, per |-> x.per]
    BY <1>7, <1>9, <1>11, <2>2 DEF GenStep
  <2>4. Skipped(x, pre, n + 1) = [div |-> 0, cnt |-> x.cnt + (q + 1), per |-> x.per]
    BY <1>3, <1>6, <1>8, <1>11
  <2> QED BY <1>1, <1>6, <2>3, <2>4 DEF y
<1> QED BY <1>10, <1>11

(* A set of numbers has a least one.                                       *)
LEMMA LeastOf ==
  ASSUME NEW S \in SUBSET Nat, S # {}
  PROVE  Min(S) \in S /\ \A y \in S : Min(S) <= y
<1> DEFINE R == {ss \in Nat \X Nat : ss[1] < ss[2]}
<1>1. IsWellFoundedOn(R, Nat)
  BY NatLessThanWellFounded DEF OpToRel
<1>2. \E x \in S : \A y \in S : ~(<<y, x>> \in R)
  <2> HIDE DEF R
  <2> QED BY <1>1, WFMin
<1>3. \E x \in S : \A y \in S : x =< y
  <2> PICK x \in S : \A y \in S : ~(<<y, x>> \in R)
    BY <1>2
  <2>1. \A y \in S : ~(y < x)
    OBVIOUS
  <2>2. \A y \in S : x =< y
    <3> TAKE y \in S
    <3>1. y \in Nat /\ x \in Nat /\ ~(y < x)
      BY <2>1
    <3> QED BY ONLY <3>1
  <2> QED BY <2>2
<1> QED BY <1>3 DEF Min

(* The quiet steps end no later than any generator's event.                *)
LEMMA QuietIsBeforeEach ==
  ASSUME GenTyped(gen)
  PROVE  quiet_steps(gen) \in Nat \ {0} /\ \A g \in Gens : quiet_steps(gen) <= psg_event_in(gen[g], Pre[g])
<1> DEFINE S == {psg_event_in(gen[g], Pre[g]) : g \in Gens}
<1>1. ASSUME NEW g \in Gens PROVE psg_event_in(gen[g], Pre[g]) \in Nat \ {0}
  <2> DEFINE x == gen[g]
             pre == Pre[g]
             ticks == IF Period(x) > x.cnt THEN Period(x) - x.cnt ELSE 1
  <2>1. x.div \in Nat /\ x.cnt \in Nat /\ x.per \in Nat /\ x.div < pre /\ pre \in Nat
    BY SoundAssumption DEF GenTyped, Generators
  <2> HIDE DEF x, pre
  <2>2. ticks \in Nat \ {0}
    BY <2>1 DEF Period
  <2> HIDE DEF ticks
  <2>3. (ticks - 1) * pre \in Nat
    BY <2>1, <2>2
  <2>4. psg_event_in(x, pre) = (pre - x.div) + (ticks - 1) * pre
    BY DEF psg_event_in, ticks
  <2>5. psg_event_in(x, pre) \in Nat \ {0}
    BY <2>1, <2>3, <2>4
  <2> QED BY <2>5 DEF x, pre
<1>2. S \in SUBSET Nat /\ S # {} /\ 0 \notin S
  BY <1>1, SoundAssumption
<1>3. quiet_steps(gen) = Min(S)
  BY DEF quiet_steps
<1> HIDE DEF S
<1>4. Min(S) \in S /\ \A y \in S : Min(S) <= y
  BY <1>2, LeastOf
<1> QED BY <1>2, <1>3, <1>4 DEF S

(* A bulk advance of none is none, and each further step is one.           *)
LEMMA SkipSteps ==
  ASSUME GenTyped(gen)
  PROVE  /\ psg_batch_skip(gen, 0) = gen
         /\ \A n \in Nat : n + 1 < quiet_steps(gen) =>
              Steps(psg_batch_skip(gen, n)) = psg_batch_skip(gen, n + 1)
<1>1. ASSUME NEW n \in Nat
      PROVE  psg_batch_skip(gen, n) = [g \in Gens |-> Skipped(gen[g], Pre[g], n)]
  BY DEF psg_batch_skip, Skipped
<1>2. psg_batch_skip(gen, 0) = gen
  <2>1. ASSUME NEW g \in Gens PROVE Skipped(gen[g], Pre[g], 0) = gen[g]
    <3> DEFINE x == gen[g]
               pre == Pre[g]
    <3>1. x \in Generators /\ x.div < pre /\ pre \in Nat \ {0}
      BY SoundAssumption DEF GenTyped
    <3> HIDE DEF x, pre
    <3>2. x.div \in Nat /\ x.cnt \in Nat /\ x = [div |-> x.div, cnt |-> x.cnt, per |-> x.per]
      BY <3>1 DEF Generators
    <3>3. (x.div + 0) % pre = x.div /\ (x.div + 0) \div pre = 0
      <4>1. x.div + 0 = x.div /\ x.div \in 0..(pre - 1)
        BY <3>1, <3>2
      <4> QED BY <3>1, <4>1, SegmentOf
    <3>4. x.cnt + 0 = x.cnt
      BY <3>2
    <3>5. Skipped(x, pre, 0) = x
      BY <3>2, <3>3, <3>4 DEF Skipped
    <3> QED BY <3>5 DEF x, pre
  <2>2. gen = [g \in Gens |-> gen[g]]
    BY DEF GenTyped
  <2> QED BY <1>1, <2>1, <2>2
<1>3. ASSUME NEW n \in Nat, n + 1 < quiet_steps(gen)
      PROVE  Steps(psg_batch_skip(gen, n)) = psg_batch_skip(gen, n + 1)
  <2>1. ASSUME NEW g \in Gens
        PROVE  GenStep(Skipped(gen[g], Pre[g], n), Pre[g]) = Skipped(gen[g], Pre[g], n + 1)
    <3>1. gen[g] \in Generators /\ gen[g].div < Pre[g] /\ Pre[g] \in Nat \ {0}
      BY SoundAssumption DEF GenTyped
    <3>2. n + 1 < psg_event_in(gen[g], Pre[g])
      <4>1. /\ quiet_steps(gen) \in Nat /\ quiet_steps(gen) <= psg_event_in(gen[g], Pre[g])
            /\ psg_event_in(gen[g], Pre[g]) \in Int
        <5>1. psg_event_in(gen[g], Pre[g]) \in Int
          BY <3>1 DEF psg_event_in, Period, Generators
        <5> QED BY <5>1, QuietIsBeforeEach
      <4> HIDE DEF quiet_steps
      <4> QED BY <1>3, <4>1
    <3> QED BY <3>1, <3>2, StepAfterSkip
  <2>2. n + 1 \in Nat
    OBVIOUS
  <2> QED BY <1>1, <2>1, <2>2 DEF Steps
<1> QED BY <1>2, <1>3

(* Any function that starts at gen and steps agrees with the bulk advance   *)
(* up to the first event: there is no first step at which it does not.      *)
LEMMA SteppedIsSkipped ==
  ASSUME GenTyped(gen), NEW quiet, quiet = quiet_steps(gen),
         NEW f, \A n \in 0..quiet : f[n] = IF n = 0 THEN gen ELSE Steps(f[n - 1])
  PROVE  \A n \in 0..(quiet - 1) : f[n] = psg_batch_skip(gen, n)
<1>1. quiet \in Nat \ {0}
  BY QuietIsBeforeEach
<1> DEFINE Wrong == {n \in 0..(quiet - 1) : f[n] # psg_batch_skip(gen, n)}
<1>2. ASSUME Wrong # {} PROVE FALSE
  <2> DEFINE w == Min(Wrong)
  <2>1. w \in Wrong /\ \A n \in Wrong : w <= n
    <3>1. Wrong \in SUBSET Nat
      BY <1>1
    <3> HIDE DEF Wrong
    <3> QED BY <1>2, <3>1, LeastOf
  <2> HIDE DEF w
  <2>2. w \in 0..(quiet - 1) /\ f[w] # psg_batch_skip(gen, w) /\ w \in 0..quiet
    BY <1>1, <2>1
  <2>3. w # 0
    BY <2>2, SkipSteps
  <2>4. w - 1 \in 0..(quiet - 1) /\ w - 1 \in Nat /\ ~(w <= w - 1) /\ (w - 1) + 1 = w /\ w < quiet
    BY <1>1, <2>2, <2>3
  <2>5. f[w - 1] = psg_batch_skip(gen, w - 1)
    BY <2>1, <2>4
  <2>6. Steps(psg_batch_skip(gen, w - 1)) = psg_batch_skip(gen, w)
    BY <2>4, SkipSteps
  <2> QED BY <2>2, <2>3, <2>5, <2>6
<1> QED BY <1>2

(* The single steps are well defined, so the definition picks them.        *)
LEMMA SkippingIsStepping ==
  ASSUME GenTyped(gen) PROVE SkipIsSteps
<1> DEFINE quiet == quiet_steps(gen)
           after[n \in 0..quiet] == IF n = 0 THEN gen ELSE Steps(after[n - 1])
           last == Steps(psg_batch_skip(gen, quiet - 1))
           g == [n \in 0..quiet |-> IF n = quiet THEN last ELSE psg_batch_skip(gen, n)]
<1>1. quiet \in Nat \ {0}
  BY QuietIsBeforeEach
<1> HIDE DEF quiet
<1>2. ASSUME NEW n \in 0..quiet PROVE g[n] = IF n = 0 THEN gen ELSE Steps(g[n - 1])
  <2>1. CASE n = 0
    BY <1>1, <2>1, SkipSteps
  <2>2. CASE n # 0 /\ n = quiet
    <3>1. n - 1 \in 0..quiet /\ n - 1 # quiet
      BY <1>1, <2>2
    <3> QED BY <2>2, <3>1
  <2>3. CASE n # 0 /\ n # quiet
    <3>1. n - 1 \in 0..quiet /\ n - 1 # quiet /\ n - 1 \in Nat /\ (n - 1) + 1 = n /\ n < quiet
      BY <1>1, <2>3
    <3>2. Steps(psg_batch_skip(gen, n - 1)) = psg_batch_skip(gen, n)
      BY <3>1, SkipSteps DEF quiet
    <3> QED BY <2>3, <3>1, <3>2
  <2> QED BY <2>1, <2>2, <2>3
<1>3. g = [n \in 0..quiet |-> IF n = 0 THEN gen ELSE Steps(g[n - 1])]
  <2> HIDE DEF last
  <2>1. g = [n \in 0..quiet |-> g[n]]
    OBVIOUS
  <2> HIDE DEF g
  <2> QED BY <1>2, <2>1
<1> HIDE DEF g, last
<1>4. after = [n \in 0..quiet |-> IF n = 0 THEN gen ELSE Steps(after[n - 1])]
  BY <1>3
<1> HIDE DEF after
<1>5. \A n \in 0..quiet : after[n] = IF n = 0 THEN gen ELSE Steps(after[n - 1])
  BY <1>4
<1>6. \A n \in 0..(quiet - 1) : after[n] = psg_batch_skip(gen, n)
  BY <1>5, SteppedIsSkipped DEF quiet
<1> QED BY <1>6 DEF SkipIsSteps, quiet, after

-----------------------------------------------------------------------------
(* The sound part by itself.                                               *)
SoundInv ==
  /\ GenTyped(gen)
  /\ ppi \in [a : Bytes, fn : Fns, input : BOOLEAN]
  /\ eclk # Never => OnCurve(env, eclk)

(* A written shape starts its curve.                                       *)
LEMMA ShapeDraws ==
  ASSUME NEW s PROVE OnCurve(env_restart(s), 0) /\ 0 # Never
<1>1. EnvMax \in Nat /\ EnvLen = EnvMax + 1 /\ Never = 3 * EnvLen
  BY SoundAssumption DEF EnvLen, Never
<1> DEFINE e == env_restart(s)
<1>2. /\ e.shape = s /\ e.step = 0 /\ e.hold = FALSE /\ e.up = IsSet(s, 2)
      /\ e.level = (IF IsSet(s, 2) THEN 0 ELSE EnvMax)
      /\ DOMAIN e = {"shape", "step", "level", "up", "hold"}
  BY DEF env_restart
<1> HIDE DEF e
<1>3. IsSet(s, 2) \in BOOLEAN
  BY BitIsBoolean
<1>4. EnvRecord(e)
  <2>1. e.up \in BOOLEAN
    BY ONLY <1>2, <1>3, Zenon
  <2>2. 0 \in 0..EnvMax
    BY <1>1
  <2> QED BY <1>2, <2>1, <2>2 DEF EnvRecord
<1>5. Ramps(e)
  BY <1>1, <1>2, <1>3 DEF Ramps
<1>6. 0 \in 0..EnvMax /\ 0 # Never
  BY <1>1
<1>7. e.up <=> IsSet(e.shape, 2)
  BY <1>2
<1> QED BY <1>2, <1>4, <1>5, <1>6, <1>7 DEF OnCurve, e

(* A generator with its prescaler, or its counter too, replaced.           *)
LEMMA TwoFields ==
  ASSUME NEW x \in Generators, NEW a, NEW b
  PROVE  /\ [x EXCEPT !.div = a] = [div |-> a, cnt |-> x.cnt, per |-> x.per]
         /\ [x EXCEPT !.div = a, !.cnt = b] = [div |-> a, cnt |-> b, per |-> x.per]
<1> DEFINE y == [x EXCEPT !.div = a]
<1>1. y = [div |-> a, cnt |-> x.cnt, per |-> x.per]
  BY DEF Generators
<1>2. [x EXCEPT !.div = a, !.cnt = b] = [y EXCEPT !.cnt = b]
  OBVIOUS
<1> HIDE DEF y
<1>3. [y EXCEPT !.cnt = b] = [div |-> a, cnt |-> b, per |-> x.per]
  BY ONLY <1>1
<1>4. [x EXCEPT !.div = a, !.cnt = b] = [div |-> a, cnt |-> b, per |-> x.per]
  BY ONLY <1>2, <1>3
<1> QED BY ONLY <1>1, <1>4 DEF y

(* A step keeps the prescaler in its range.                                *)
LEMMA OneStepTyped ==
  ASSUME NEW x \in Generators, NEW pre \in Nat \ {0}, x.div < pre
  PROVE  GenStep(x, pre) \in Generators /\ GenStep(x, pre).div < pre
<1>1. /\ x = [div |-> x.div, cnt |-> x.cnt, per |-> x.per]
      /\ x.div \in Nat /\ x.cnt \in Nat /\ x.per \in Nat
  BY DEF Generators
<1>2. GenStep(x, pre) = IF x.div + 1 < pre THEN [div |-> x.div + 1, cnt |-> x.cnt, per |-> x.per]
                        ELSE IF x.cnt + 1 < Period(x) THEN [div |-> 0, cnt |-> x.cnt + 1, per |-> x.per]
                        ELSE [div |-> 0, cnt |-> 0, per |-> x.per]
  <2>1. /\ [x EXCEPT !.div = @ + 1] = [div |-> x.div + 1, cnt |-> x.cnt, per |-> x.per]
        /\ [x EXCEPT !.div = 0, !.cnt = @ + 1] = [div |-> 0, cnt |-> x.cnt + 1, per |-> x.per]
        /\ [x EXCEPT !.div = 0, !.cnt = 0] = [div |-> 0, cnt |-> 0, per |-> x.per]
    BY TwoFields
  <2> QED BY ONLY <2>1 DEF GenStep
<1>3. /\ [div |-> x.div + 1, cnt |-> x.cnt, per |-> x.per] \in Generators
      /\ [div |-> 0, cnt |-> x.cnt + 1, per |-> x.per] \in Generators
      /\ [div |-> 0, cnt |-> 0, per |-> x.per] \in Generators
  BY <1>1 DEF Generators
<1> HIDE DEF GenStep
<1> QED BY <1>2, <1>3

(* A single step of all generators and the envelope.                       *)
LEMMA StepKeepsSound ==
  ASSUME SoundInv, sound_step PROVE SoundInv'
<1>1. GenTyped(gen')
  <2>1. ASSUME NEW g \in Gens
        PROVE  GenStep(gen[g], Pre[g]) \in Generators /\ GenStep(gen[g], Pre[g]).div < Pre[g]
    <3>1. gen[g] \in Generators /\ gen[g].div < Pre[g] /\ Pre[g] \in Nat \ {0}
      BY SoundAssumption DEF SoundInv, GenTyped
    <3> QED BY <3>1, OneStepTyped
  <2>2. gen' = [g \in Gens |-> GenStep(gen[g], Pre[g])]
    BY DEF sound_step, Steps
  <2> QED BY <2>1, <2>2 DEF GenTyped
<1>2. eclk' # Never => OnCurve(env', eclk')
  <2>1. CASE Fires("env")
    <3>1. env' = env_clock(env) /\ eclk' = Clocked(eclk)
      BY <2>1 DEF sound_step
    <3>2. CASE eclk = Never
      BY <3>1, <3>2 DEF Clocked
    <3>3. CASE eclk # Never
      BY <3>1, <3>3, ClockDraws DEF SoundInv
    <3> QED BY <3>2, <3>3
  <2>2. CASE ~Fires("env")
    BY <2>2 DEF sound_step, SoundInv
  <2> QED BY <2>1, <2>2
<1> QED BY <1>1, <1>2 DEF sound_step, SoundInv

(* A bulk advance.                                                         *)
LEMMA SkipKeepsSound ==
  ASSUME SoundInv, NEW n \in Nat, fs_audio_skip(n) PROVE SoundInv'
<1>1. GenTyped(gen')
  <2>1. ASSUME NEW g \in Gens
        PROVE  Skipped(gen[g], Pre[g], n) \in Generators /\ Skipped(gen[g], Pre[g], n).div < Pre[g]
    <3> DEFINE x == gen[g]
               m == x.div + n
    <3>1. x \in Generators /\ Pre[g] \in Nat \ {0}
      BY SoundAssumption DEF SoundInv, GenTyped
    <3>2. m \in Nat /\ x.cnt \in Nat
      BY <3>1 DEF Generators
    <3>3. m % Pre[g] \in 0..(Pre[g] - 1) /\ m \div Pre[g] \in Nat
      BY <3>1, <3>2, DivMod
    <3>4. Skipped(x, Pre[g], n) = [x EXCEPT !.div = m % Pre[g], !.cnt = @ + (m \div Pre[g])]
      BY DEF Skipped
    <3> HIDE DEF x, m
    <3>5. Skipped(x, Pre[g], n) \in Generators /\ Skipped(x, Pre[g], n).div < Pre[g]
      <4>1. x.cnt + (m \div Pre[g]) \in Nat /\ m % Pre[g] \in Nat /\ m % Pre[g] < Pre[g]
        BY <3>1, <3>2, <3>3
      <4>2. Skipped(x, Pre[g], n)
              = [div |-> m % Pre[g], cnt |-> x.cnt + (m \div Pre[g]), per |-> x.per]
            /\ x.per \in Nat
        BY <3>1, <3>4 DEF Generators
      <4> QED BY ONLY <4>1, <4>2 DEF Generators
    <3> QED BY <3>5 DEF x
  <2>2. gen' = [g \in Gens |-> Skipped(gen[g], Pre[g], n)]
    BY DEF fs_audio_skip, psg_batch_skip, Skipped
  <2> QED BY <2>1, <2>2 DEF GenTyped
<1> QED BY <1>1 DEF fs_audio_skip, SoundInv

(* What the guest's lines do to the chip.                                  *)
LEMMA BusKeepsSound ==
  ASSUME SoundInv, NEW p \in [a : Bytes, fn : Fns, input : BOOLEAN], ay_bus(p) PROVE SoundInv'
<1>1. ppi' = p
  BY DEF ay_bus
<1>2. CASE UNCHANGED <<gen, env, eclk>>
  BY <1>1, <1>2 DEF SoundInv
<1>3. CASE Written(Lines(p).da)
  <2> DEFINE d == Lines(p).da
  <2>1. d \in Bytes
    BY SoundAssumption DEF Lines
  <2> HIDE DEF d
  <2>2. Written(d)
    BY <1>3 DEF d
  <2>3. GenTyped(gen')
    <3>1. CASE ay.sel \in Gens
      <4>1. gen' = [gen EXCEPT ![ay.sel].per = PeriodOf[d]] /\ PeriodOf[d] \in Nat
        BY <2>1, <2>2, <3>1, SoundAssumption DEF Written
      <4>2. \A g \in Gens : /\ gen'[g] = IF g = ay.sel THEN [gen[g] EXCEPT !.per = PeriodOf[d]] ELSE gen[g]
                            /\ gen[g] \in Generators /\ gen[g].div < Pre[g]
        BY <4>1 DEF SoundInv, GenTyped
      <4>3. ASSUME NEW g \in Gens PROVE gen'[g] \in Generators /\ gen'[g].div < Pre[g]
        <5> DEFINE x == gen[g]
        <5>1. x \in Generators /\ x.div < Pre[g] /\ gen'[g] \in {x, [x EXCEPT !.per = PeriodOf[d]]}
          BY <4>2
        <5> HIDE DEF x
        <5>2. [x EXCEPT !.per = PeriodOf[d]] = [div |-> x.div, cnt |-> x.cnt, per |-> PeriodOf[d]]
              /\ x.div \in Nat /\ x.cnt \in Nat
          BY <5>1 DEF Generators
        <5>3. [div |-> x.div, cnt |-> x.cnt, per |-> PeriodOf[d]] \in Generators
          BY ONLY <4>1, <5>2 DEF Generators
        <5> QED BY <5>1, <5>2, <5>3
      <4>4. gen' = [g \in Gens |-> gen'[g]]
        BY <4>1 DEF SoundInv, GenTyped
      <4> QED BY <4>3, <4>4 DEF GenTyped
    <3>2. CASE ay.sel \notin Gens
      BY <2>2, <3>2 DEF Written, SoundInv
    <3> QED BY <3>1, <3>2
  <2>4. eclk' # Never => OnCurve(env', eclk')
    <3>1. CASE ay.sel = "shape"
      BY <2>2, <3>1, ShapeDraws DEF Written
    <3>2. CASE ay.sel # "shape"
      BY <2>2, <3>2 DEF Written, SoundInv
    <3> QED BY <3>1, <3>2
  <2> QED BY <1>1, <2>3, <2>4 DEF SoundInv
<1> QED BY <1>2, <1>3 DEF ay_bus, ay_apply

(* Every step of the sound part.                                           *)
LEMMA NextKeepsSound ==
  ASSUME SoundInv, [SoundNext]_soundVars PROVE SoundInv'
<1>1. Reset \in Bytes
  BY SoundAssumption
<1>2. ASSUME NEW b \in Bytes, PortA(b) PROVE SoundInv'
  <2>1. [ppi EXCEPT !.a = b] \in [a : Bytes, fn : Fns, input : BOOLEAN]
    BY DEF SoundInv
  <2> QED BY <1>2, <2>1, BusKeepsSound DEF PortA
<1>3. ASSUME NEW fn \in Fns, PortC(fn) PROVE SoundInv'
  <2>1. [ppi EXCEPT !.fn = fn] \in [a : Bytes, fn : Fns, input : BOOLEAN]
    BY DEF SoundInv
  <2> QED BY <1>3, <2>1, BusKeepsSound DEF PortC
<1>4. ASSUME NEW input \in BOOLEAN, Mode(input) PROVE SoundInv'
  <2>1. [a |-> Reset, fn |-> "inactive", input |-> input] \in [a : Bytes, fn : Fns, input : BOOLEAN]
    BY <1>1 DEF Fns
  <2> QED BY <1>4, <2>1, BusKeepsSound DEF Mode
<1>5. ASSUME NEW n \in 1..(quiet_steps(gen) - 1), fs_audio_skip(n) PROVE SoundInv'
  <2>1. n \in Nat
    BY QuietIsBeforeEach DEF SoundInv
  <2> QED BY <1>5, <2>1, SkipKeepsSound
<1>6. CASE UNCHANGED soundVars
  BY <1>6 DEF soundVars, SoundInv
<1> QED BY <1>2, <1>3, <1>4, <1>5, <1>6, StepKeepsSound DEF SoundNext

(* A reset chip.                                                           *)
LEMMA SoundStarts ==
  ASSUME SoundInit PROVE SoundInv
<1>1. GenTyped(gen)
  BY SoundAssumption DEF SoundInit, GenTyped, Generators
<1>2. ppi \in [a : Bytes, fn : Fns, input : BOOLEAN]
  BY SoundAssumption DEF SoundInit, Fns
<1> QED BY <1>1, <1>2 DEF SoundInit, SoundInv

(* The envelope's curve and the fast tier's skip.                          *)
LEMMA SoundIsRight ==
  ASSUME SoundInv PROVE EnvelopeShape /\ SkipIsSteps
  BY DrawnIsWaveform, SkippingIsStepping DEF SoundInv, EnvelopeShape

-----------------------------------------------------------------------------
(* The IDE port.  A transfer of n sectors, 256 of them when the count is   *)
(* zero, is under way at its k-th sector, or is over: then the count is    *)
(* zero, the address is the last sector's and no byte moves any more.      *)
Asked(n) == IF n = 0 THEN CountMod ELSE n

UnderWay(x, a) ==
  \E k \in 0..(Asked(a.count) - 1) :
    x.lba = a.lba + k /\ x.count = IF k = 0 THEN a.count ELSE Asked(a.count) - k

Over(x, a) ==
  /\ x.count = 0 /\ x.lba = a.lba + Asked(a.count) - 1
  /\ ~x.ready /\ ~x.pending

Transfer(x, a) ==
  /\ x.cmd = "read" => ~x.pending
  /\ x.cmd = "write" => ~x.ready
  /\ x.cmd \in {"read", "write"}
  /\ UnderWay(x, a) \/ Over(x, a)

\* The registers of one drive.
Regs(x) ==
  /\ {"cmd", "count", "lba", "pos", "buf", "ready", "pending", "drq", "err"} \subseteq DOMAIN x
  /\ x.lba \in Nat /\ x.count \in 0..(CountMod - 1)

IdeShape ==
  /\ {"sel", "dirty", "logged", "dr"} \subseteq DOMAIN ide
  /\ DOMAIN ide.dr = Drives /\ ide.sel \in Drives
  /\ \A d \in Drives : Regs(ide.dr[d])
  /\ asked.lba \in Nat /\ asked.count \in 0..(CountMod - 1)

DiscsHeld ==
  /\ DOMAIN image = Drives /\ \A d \in Drives : {"ram", "file"} \subseteq DOMAIN image[d]

IdeInv ==
  /\ IdeShape /\ DiscsHeld /\ WritesReachFile
  /\ asked.valid => Transfer(Active, asked)

(* The remainders of two numbers a whole modulus apart are equal.          *)
LEMMA ModOfSmall == ASSUME NEW N \in Nat \ {0}, NEW k \in 0..(N - 1) PROVE k % N = k /\ (k - N) % N = k
  OBVIOUS

(* A byte's worth of sectors counts down, from zero to the top.            *)
LEMMA CountDown ==
  ASSUME NEW c \in 0..(CountMod - 1)
  PROVE  (c - 1 + CountMod) % CountMod = IF c = 0 THEN CountMod - 1 ELSE c - 1
  BY ExpAssumption

(* A transfer under way or over is where its count says.                   *)
LEMMA TransferTracks ==
  ASSUME NEW x, NEW a, x.lba \in Int, a.lba \in Int, a.count \in 0..(CountMod - 1), Transfer(x, a)
  PROVE  \/ (x.lba - a.lba) % CountMod = (a.count - x.count) % CountMod
         \/ x.count = 0 /\ (x.lba + 1 - a.lba) % CountMod = a.count
<1>1. CountMod \in Nat \ {0}
  BY ExpAssumption
<1>2. CASE Over(x, a)
  <2>1. x.count = 0 /\ x.lba + 1 - a.lba = Asked(a.count)
    BY <1>1, <1>2 DEF Over, Asked
  <2>2. Asked(a.count) % CountMod = a.count
    <3>1. CASE a.count = 0
      BY <1>1, <3>1 DEF Asked
    <3>2. CASE a.count # 0
      BY <1>1, <3>2, ModOfSmall DEF Asked
    <3> QED BY <3>1, <3>2
  <2> QED BY <2>1, <2>2
<1>3. CASE UnderWay(x, a)
  <2> PICK k \in 0..(Asked(a.count) - 1) :
        x.lba = a.lba + k /\ x.count = IF k = 0 THEN a.count ELSE Asked(a.count) - k
    BY <1>3 DEF UnderWay
  <2>1. x.lba - a.lba = k /\ k \in 0..(CountMod - 1)
    BY <1>1 DEF Asked
  <2>2. a.count - x.count \in {k, k - CountMod}
    BY <1>1 DEF Asked
  <2>3. (a.count - x.count) % CountMod = k /\ k % CountMod = k
    BY <1>1, <2>1, <2>2, ModOfSmall
  <2> QED BY <2>1, <2>3
<1> QED BY <1>2, <1>3 DEF Transfer

(* A step that gives the selected drive new registers.                     *)
LEMMA NewRegisters ==
  ASSUME IdeInv, NEW y, Regs(y),
         ide' = [ide EXCEPT !.dr[ide.sel] = y],
         asked'.lba \in Nat, asked'.count \in 0..(CountMod - 1),
         asked'.valid => Transfer(y, asked'),
         UNCHANGED image
  PROVE  IdeInv'
<1>1. /\ DOMAIN ide' = DOMAIN ide /\ ide'.sel = ide.sel /\ ide'.dirty = ide.dirty
      /\ ide'.logged = ide.logged
      /\ ide'.dr = [ide.dr EXCEPT ![ide.sel] = y]
  BY DEF IdeInv, IdeShape
<1>2. ide'.dr[ide'.sel] = y
  BY <1>1 DEF IdeInv, IdeShape
<1> QED BY <1>1, <1>2 DEF IdeInv, IdeShape, DiscsHeld, WritesReachFile, Active

(* The commands that start or drop a transfer.                             *)
LEMMA CommandKeepsIde ==
  ASSUME IdeInv, ide_command PROVE IdeInv'
<1> PICK c \in {"identify", "read", "write", "idle", "unknown"},
         l \in 0..Sectors[ide.sel], n \in 0..(CountMod - 1) :
      /\ ide' = [ide EXCEPT !.dr[ide.sel] =
                   ide_execute([Active EXCEPT !.cmd = c, !.err = FALSE, !.lba = l, !.count = n])]
      /\ asked' = IF c = "write" \/ (c = "read" /\ ~Active.pending)
                  THEN [lba |-> l, count |-> n, valid |-> TRUE] ELSE NotAsked
  BY DEF ide_command
<1> DEFINE x == [Active EXCEPT !.cmd = c, !.err = FALSE, !.lba = l, !.count = n]
           y == ide_execute(x)
<1>1. Sectors[ide.sel] \in Nat /\ CountMod \in Nat \ {0}
  BY ExpAssumption DEF IdeInv, IdeShape
<1>2. DOMAIN x = DOMAIN Active /\ x.cmd = c /\ x.lba = l /\ x.count = n /\ x.pending = Active.pending
  BY DEF IdeInv, IdeShape, Active, Regs
<1>3. Regs(Active)
  BY DEF IdeInv, IdeShape, Active
<1> HIDE DEF x
<1>4. /\ DOMAIN y = DOMAIN x /\ y.cmd = c /\ y.lba = l /\ y.count = n
      /\ c = "read" => y.pending = x.pending
      /\ c = "write" => y.ready = FALSE
  BY <1>2, <1>3 DEF ide_execute, ide_do_identify, ide_do_read, Regs
<1>5. ide' = [ide EXCEPT !.dr[ide.sel] = y]
  BY DEF x
<1> HIDE DEF y
<1>6. Regs(y)
  BY <1>1, <1>2, <1>3, <1>4 DEF Regs
<1>7. asked'.lba \in Nat /\ asked'.count \in 0..(CountMod - 1)
  BY <1>1 DEF NotAsked
<1>8. ASSUME asked'.valid PROVE Transfer(y, asked')
  <2>1. asked' = [lba |-> l, count |-> n, valid |-> TRUE]
        /\ (c = "write" \/ (c = "read" /\ ~Active.pending))
    BY <1>8 DEF NotAsked
  <2>2. UnderWay(y, asked')
    <3>1. 0 \in 0..(Asked(n) - 1) /\ y.lba = l + 0
      BY <1>1, <1>4 DEF Asked
    <3> QED BY <1>4, <2>1, <3>1 DEF UnderWay
  <2> QED BY <1>2, <1>4, <2>1, <2>2 DEF Transfer
<1> QED BY <1>5, <1>6, <1>7, <1>8, NewRegisters DEF ide_command

(* What the end of a sector makes of the count and the address.            *)
LEMMA SectorDone ==
  ASSUME NEW x, Regs(x), NEW a, a.lba \in Nat, a.count \in 0..(CountMod - 1), UnderWay(x, a),
         NEW n, n = (x.count - 1 + CountMod) % CountMod
  PROVE  /\ n \in 0..(CountMod - 1)
         /\ n > 0 => \E k \in 0..(Asked(a.count) - 1) :
                        x.lba + 1 = a.lba + k /\ n = IF k = 0 THEN a.count ELSE Asked(a.count) - k
         /\ n = 0 => x.lba = a.lba + Asked(a.count) - 1
<1>1. CountMod \in Nat \ {0} /\ x.count \in 0..(CountMod - 1) /\ x.lba \in Nat
  BY ExpAssumption DEF Regs
<1> PICK k \in 0..(Asked(a.count) - 1) :
      x.lba = a.lba + k /\ x.count = IF k = 0 THEN a.count ELSE Asked(a.count) - k
  BY DEF UnderWay
<1>2. Asked(a.count) \in 1..CountMod
  BY <1>1 DEF Asked
<1>3. n = Asked(a.count) - (k + 1)
  <2>1. n = IF x.count = 0 THEN CountMod - 1 ELSE x.count - 1
    BY <1>1, CountDown
  <2> QED BY <1>1, <1>2, <2>1 DEF Asked
<1>4. n \in 0..(CountMod - 1)
  BY <1>1, <1>2, <1>3
<1>5. ASSUME n > 0
      PROVE  k + 1 \in 0..(Asked(a.count) - 1) /\ x.lba + 1 = a.lba + (k + 1) /\ k + 1 # 0
  BY <1>1, <1>2, <1>3, <1>5
<1>6. ASSUME n = 0 PROVE x.lba = a.lba + Asked(a.count) - 1
  <2>1. k = Asked(a.count) - 1
    BY <1>2, <1>3, <1>6
  <2> QED BY <1>2, <2>1
<1> QED BY <1>3, <1>4, <1>5, <1>6

(* A byte out of the buffer, with the next sector behind the last one.     *)
LEMMA DataReadKeepsIde ==
  ASSUME IdeInv, ide_data_read PROVE IdeInv'
<1> DEFINE x == [Active EXCEPT !.pos = @ + 1]
           y == [x EXCEPT !.ready = FALSE]
           z == IF x.pos < SectorBytes THEN x
                ELSE IF x.cmd = "read" THEN NextSector(y) ELSE [y EXCEPT !.drq = FALSE]
           n == (y.count - 1 + CountMod) % CountMod
<1>1. ide' = [ide EXCEPT !.dr[ide.sel] = z] /\ UNCHANGED <<image, asked>> /\ Active.ready
  BY DEF ide_data_read
<1>2. Regs(Active) /\ CountMod \in Nat \ {0}
  BY ExpAssumption DEF IdeInv, IdeShape, Active
<1>3. /\ DOMAIN x = DOMAIN Active /\ x.cmd = Active.cmd /\ x.lba = Active.lba
      /\ x.count = Active.count /\ x.ready = Active.ready /\ x.pending = Active.pending
      /\ DOMAIN y = DOMAIN Active /\ y.cmd = Active.cmd /\ y.lba = Active.lba
      /\ y.count = Active.count /\ y.ready = FALSE /\ y.pending = Active.pending
  BY <1>2 DEF Regs
<1> HIDE DEF x, y
<1>4. Regs(x) /\ Regs(y)
  BY <1>2, <1>3 DEF Regs
<1>5. n \in 0..(CountMod - 1)
  BY <1>2, <1>4, CountDown DEF Regs
<1> HIDE DEF n
<1>6. CASE x.pos < SectorBytes
  <2>1. ASSUME asked.valid PROVE Transfer(x, asked)
    BY <1>3, <2>1 DEF IdeInv, Transfer, UnderWay, Over
  <2>2. z = x
    BY <1>6
  <2> HIDE DEF z
  <2> QED BY <1>1, <1>4, <2>1, <2>2, NewRegisters DEF IdeInv, IdeShape
<1>7. CASE ~(x.pos < SectorBytes) /\ x.cmd # "read"
  <2>1. z = [y EXCEPT !.drq = FALSE]
    BY <1>7
  <2>2. /\ DOMAIN z = DOMAIN y /\ z.lba = y.lba /\ z.count = y.count /\ z.cmd = y.cmd
        /\ z.ready = y.ready /\ z.pending = y.pending
    BY <1>4, <2>1 DEF Regs
  <2> HIDE DEF z
  <2>3. Regs(z)
    BY <1>4, <2>2 DEF Regs
  <2>4. ASSUME asked.valid PROVE FALSE
    BY <1>1, <1>3, <1>7, <2>4 DEF IdeInv, Transfer
  <2> QED BY <1>1, <2>3, <2>4, NewRegisters DEF IdeInv, IdeShape
<1>8. CASE ~(x.pos < SectorBytes) /\ x.cmd = "read"
  <2>1. z = NextSector(y)
    BY <1>8
  <2> DEFINE u == [y EXCEPT !.count = n, !.lba = @ + 1]
  <2>2. z = IF n > 0 THEN ide_do_read(u) ELSE [y EXCEPT !.count = n, !.drq = FALSE]
    BY <2>1 DEF NextSector, n
  <2>3. /\ DOMAIN u = DOMAIN y /\ u.lba = y.lba + 1 /\ u.count = n /\ u.cmd = y.cmd
        /\ u.pending = y.pending
    BY <1>4 DEF Regs
  <2> HIDE DEF z, u
  <2>4. n > 0 => /\ DOMAIN z = DOMAIN y /\ z.lba = y.lba + 1 /\ z.count = n /\ z.cmd = y.cmd
                 /\ z.pending = y.pending
    BY <1>4, <2>2, <2>3 DEF ide_do_read, Regs
  <2>5. ~(n > 0) => /\ DOMAIN z = DOMAIN y /\ z.lba = y.lba /\ z.count = n /\ z.cmd = y.cmd
                    /\ z.pending = y.pending /\ z.ready = FALSE
    BY <1>3, <1>4, <2>2 DEF Regs
  <2>6. Regs(z)
    BY <1>4, <1>5, <2>4, <2>5 DEF Regs
  <2>7. ASSUME asked.valid PROVE Transfer(z, asked)
    <3>1. Transfer(Active, asked)
      BY <2>7 DEF IdeInv
    <3>2. UnderWay(y, asked)
      BY <1>1, <1>3, <3>1 DEF Transfer, UnderWay, Over
    <3>3. asked.lba \in Nat /\ asked.count \in 0..(CountMod - 1)
      BY DEF IdeInv, IdeShape
    <3>4. n = (y.count - 1 + CountMod) % CountMod
      BY DEF n
    <3>5. /\ n > 0 => \E k \in 0..(Asked(asked.count) - 1) :
                        y.lba + 1 = asked.lba + k /\ n = IF k = 0 THEN asked.count ELSE Asked(asked.count) - k
          /\ n = 0 => y.lba = asked.lba + Asked(asked.count) - 1
      BY <1>4, <3>2, <3>3, <3>4, SectorDone
    <3>6. z.cmd = "read" /\ ~z.pending
      BY <1>3, <1>5, <1>8, <2>4, <2>5, <3>1 DEF Transfer
    <3>7. CASE n > 0
      BY <2>4, <3>5, <3>6, <3>7 DEF Transfer, UnderWay
    <3>8. CASE n = 0
      BY <2>5, <3>5, <3>6, <3>8 DEF Transfer, Over
    <3> QED BY <1>5, <3>7, <3>8
  <2> QED BY <1>1, <2>6, <2>7, NewRegisters DEF IdeInv, IdeShape
<1> QED BY <1>6, <1>7, <1>8

(* A byte into the buffer, with the commit behind the last one.            *)
LEMMA DataWriteKeepsIde ==
  ASSUME IdeInv, ide_data_write PROVE IdeInv'
<1> PICK v \in 0..MaxVersion :
      LET x == [Active EXCEPT !.pos = @ + 1, !.buf = v]
      IN IF x.pos < SectorBytes
           THEN ide' = [ide EXCEPT !.dr[ide.sel] = x] /\ UNCHANGED image
           ELSE WriteCommit(x)
  BY DEF ide_data_write
<1> DEFINE x == [Active EXCEPT !.pos = @ + 1, !.buf = v]
<1>1. UNCHANGED asked /\ Active.pending
      /\ IF x.pos < SectorBytes
           THEN ide' = [ide EXCEPT !.dr[ide.sel] = x] /\ UNCHANGED image
           ELSE WriteCommit(x)
  BY DEF ide_data_write
<1>2. Regs(Active) /\ CountMod \in Nat \ {0}
  BY ExpAssumption DEF IdeInv, IdeShape, Active
<1>3. /\ DOMAIN x = DOMAIN Active /\ x.cmd = Active.cmd /\ x.lba = Active.lba
      /\ x.count = Active.count /\ x.ready = Active.ready /\ x.pending = Active.pending
  BY <1>2 DEF Regs
<1> HIDE DEF x
<1>4. Regs(x)
  BY <1>2, <1>3 DEF Regs
<1>5. asked.valid => Transfer(x, asked) /\ UnderWay(x, asked) /\ x.cmd = "write"
  BY <1>1, <1>3 DEF IdeInv, Transfer, UnderWay, Over
<1>6. asked.lba \in Nat /\ asked.count \in 0..(CountMod - 1)
  BY DEF IdeInv, IdeShape
<1>7. CASE x.pos < SectorBytes
  BY <1>1, <1>4, <1>5, <1>6, <1>7, NewRegisters
<1>8. CASE ~(x.pos < SectorBytes) /\ x.lba >= Sectors[ide.sel]
  <2> DEFINE z == [x EXCEPT !.drq = FALSE, !.err = TRUE]
  <2>1. ide' = [ide EXCEPT !.dr[ide.sel] = z] /\ UNCHANGED image
    BY <1>1, <1>8 DEF WriteCommit
  <2>2. /\ DOMAIN z = DOMAIN x /\ z.lba = x.lba /\ z.count = x.count /\ z.cmd = x.cmd
        /\ z.ready = x.ready /\ z.pending = x.pending
    BY <1>4 DEF Regs
  <2> HIDE DEF z
  <2>3. Regs(z)
    BY <1>4, <2>2 DEF Regs
  <2>4. asked.valid => Transfer(z, asked)
    BY <1>5, <2>2 DEF Transfer, UnderWay, Over
  <2> QED BY <1>1, <1>6, <2>1, <2>3, <2>4, NewRegisters
<1>9. CASE ~(x.pos < SectorBytes) /\ ~(x.lba >= Sectors[ide.sel])
  <2> DEFINE n == (x.count - 1 + CountMod) % CountMod
             y == [x EXCEPT !.count = n]
             z == IF n > 0 THEN [y EXCEPT !.lba = @ + 1, !.pos = 0, !.drq = TRUE]
                           ELSE [y EXCEPT !.pending = FALSE, !.drq = FALSE]
  <2>1. /\ image' = [image EXCEPT ![ide.sel].ram[x.lba] = x.buf]
        /\ ide' = [ide EXCEPT !.dirty = TRUE, !.dr[ide.sel] = z]
    BY <1>1, <1>9 DEF WriteCommit
  <2>2. n \in 0..(CountMod - 1)
    BY <1>2, <1>4, CountDown DEF Regs
  <2>3. n = (x.count - 1 + CountMod) % CountMod
    OBVIOUS
  <2> HIDE DEF n
  <2>4. /\ DOMAIN y = DOMAIN x /\ y.count = n /\ y.lba = x.lba /\ y.cmd = x.cmd
        /\ y.ready = x.ready /\ y.pending = x.pending
    BY <1>4 DEF Regs
  <2> HIDE DEF y
  <2>5. n > 0 => /\ DOMAIN z = DOMAIN x /\ z.lba = x.lba + 1 /\ z.count = n /\ z.cmd = x.cmd
                 /\ z.ready = x.ready
    BY <1>4, <2>4 DEF Regs
  <2>6. ~(n > 0) => /\ DOMAIN z = DOMAIN x /\ z.lba = x.lba /\ z.count = n /\ z.cmd = x.cmd
                    /\ z.ready = x.ready /\ z.pending = FALSE
    BY <1>4, <2>4 DEF Regs
  <2> HIDE DEF z
  <2>7. Regs(z)
    BY <1>4, <2>2, <2>5, <2>6 DEF Regs
  <2>8. ASSUME asked.valid PROVE Transfer(z, asked)
    <3>1. /\ n > 0 => \E k \in 0..(Asked(asked.count) - 1) :
                        x.lba + 1 = asked.lba + k /\ n = IF k = 0 THEN asked.count ELSE Asked(asked.count) - k
          /\ n = 0 => x.lba = asked.lba + Asked(asked.count) - 1
      BY <1>4, <1>5, <1>6, <2>3, <2>8, SectorDone
    <3>2. z.cmd = "write" /\ ~z.ready
      BY <1>5, <2>2, <2>5, <2>6, <2>8 DEF Transfer
    <3>3. CASE n > 0
      BY <2>5, <3>1, <3>2, <3>3 DEF Transfer, UnderWay
    <3>4. CASE n = 0
      BY <2>6, <3>1, <3>2, <3>4 DEF Transfer, Over
    <3> QED BY <2>2, <3>3, <3>4
  <2>9. /\ DOMAIN ide' = DOMAIN ide /\ ide'.sel = ide.sel /\ ide'.dirty = TRUE
        /\ ide'.dr = [ide.dr EXCEPT ![ide.sel] = z]
    BY <2>1 DEF IdeInv, IdeShape
  <2>10. IdeShape' /\ (asked'.valid => Transfer(Active', asked'))
    BY <1>1, <1>6, <2>7, <2>8, <2>9 DEF IdeInv, IdeShape, Active
  <2>11. DiscsHeld' /\ WritesReachFile'
    <3>1. DOMAIN image' = Drives /\ \A d \in Drives : DOMAIN image'[d] = DOMAIN image[d]
      BY <2>1 DEF IdeInv, IdeShape, DiscsHeld
    <3> QED BY <2>9, <3>1 DEF IdeInv, DiscsHeld, WritesReachFile
  <2> QED BY <2>10, <2>11 DEF IdeInv
<1> QED BY <1>7, <1>8, <1>9

(* Select, flush and reset.                                                *)
LEMMA NextKeepsIde ==
  ASSUME IdeInv, [ExpReset \/ IdeNext \/ BoxNext]_expVars PROVE IdeInv'
<1>1. CASE ide_select
  <2> PICK d \in Drives : ide' = [ide EXCEPT !.sel = d] /\ asked' = NotAsked /\ UNCHANGED image
    BY <1>1 DEF ide_select
  <2>1. 0 \in 0..(CountMod - 1)
    BY ExpAssumption
  <2> QED BY <2>1 DEF IdeInv, IdeShape, DiscsHeld, WritesReachFile, NotAsked
<1>2. CASE subcycle_bridge_stop
  <2> PICK ok \in SUBSET Drives :
        /\ image' = flush_sf2_ide(ok) /\ asked' = asked
        /\ ide' = [ide EXCEPT !.dirty = FALSE, !.logged = @ \/ (ide.dirty /\ ok # Drives)]
    BY <1>2 DEF subcycle_bridge_stop
  <2>1. /\ DOMAIN ide' = DOMAIN ide /\ ide'.sel = ide.sel /\ ide'.dr = ide.dr
        /\ ide'.logged = (ide.logged \/ (ide.dirty /\ ok # Drives))
    BY DEF IdeInv, IdeShape
  <2>2. \A d \in Drives : image'[d] = IF ide.dirty /\ d \in ok
                                      THEN [image[d] EXCEPT !.file = image[d].ram] ELSE image[d]
    BY DEF flush_sf2_ide
  <2>3. \A d \in Drives : /\ DOMAIN image'[d] = DOMAIN image[d]
                          /\ image'[d].ram = image[d].ram
                          /\ image'[d].file = IF ide.dirty /\ d \in ok THEN image[d].ram ELSE image[d].file
    BY <2>2 DEF IdeInv, DiscsHeld
  <2>4. DOMAIN image' = Drives
    BY DEF flush_sf2_ide
  <2>5. WritesReachFile'
    BY <2>1, <2>3 DEF IdeInv, WritesReachFile
  <2>6. IdeShape' /\ DiscsHeld'
    BY <2>1, <2>3, <2>4 DEF IdeInv, IdeShape, DiscsHeld
  <2>7. Active' = Active
    BY <2>1 DEF Active
  <2> QED BY <2>5, <2>6, <2>7 DEF IdeInv
<1>3. CASE ExpReset
  <2>1. ide' = sf2_board_reset /\ asked' = NotAsked /\ UNCHANGED image
    BY <1>3 DEF ExpReset
  <2>2. 0 \in 0..(CountMod - 1) /\ 0 \in Drives
    BY ExpAssumption
  <2>3. \A d \in Drives : Regs(ide'.dr[d])
    BY <2>1 DEF sf2_board_reset, IdeInv, IdeShape, Regs
  <2>4. /\ DOMAIN ide' = DOMAIN ide /\ ide'.sel = 0 /\ DOMAIN ide'.dr = Drives
        /\ ide'.dirty = ide.dirty /\ ide'.logged = ide.logged
    BY <2>1 DEF sf2_board_reset, IdeInv, IdeShape
  <2> QED BY <2>1, <2>2, <2>3, <2>4 DEF IdeInv, IdeShape, DiscsHeld, WritesReachFile, NotAsked
<1>4. CASE BoxNext \/ UNCHANGED expVars
  <2>1. UNCHANGED <<ide, image, asked>>
    BY <1>4 DEF BoxNext, subcycle_bridge_mf2_stop, mf2_stop, mf2_tick, set_mf2, sw_tick, expVars
  <2> QED BY <2>1 DEF IdeInv, IdeShape, DiscsHeld, WritesReachFile, Active
<1> QED BY <1>1, <1>2, <1>3, <1>4, CommandKeepsIde, DataReadKeepsIde, DataWriteKeepsIde DEF IdeNext

(* Nothing asked, nothing dirty at the start.                              *)
LEMMA ExpStarts ==
  ASSUME ExpInit PROVE IdeInv
<1>1. 0 \in 0..(CountMod - 1) /\ 0 \in Drives
  BY ExpAssumption
<1>2. \A d \in Drives : Regs(ide.dr[d])
  BY <1>1 DEF ExpInit, IdleDrive, Regs
<1>3. IdeShape
  BY <1>1, <1>2 DEF ExpInit, IdeShape, NotAsked
<1>4. DiscsHeld /\ WritesReachFile
  BY DEF ExpInit, DiscsHeld, WritesReachFile
<1> QED BY <1>3, <1>4 DEF IdeInv, ExpInit, NotAsked

(* What the invariant says of a transfer and of the files.                 *)
LEMMA IdeIsRight ==
  ASSUME IdeInv PROVE LbaTracksCount /\ WritesReachFile
<1>1. ASSUME asked.valid
      PROVE  \/ (Active.lba - asked.lba) % CountMod = (asked.count - Active.count) % CountMod
             \/ Active.count = 0 /\ (Active.lba + 1 - asked.lba) % CountMod = asked.count
  BY <1>1, TransferTracks DEF IdeInv, IdeShape, Active, Regs
<1> QED BY <1>1 DEF LbaTracksCount, IdeInv

-----------------------------------------------------------------------------
(* The mouse button on its way through the two FIFOs.  Reading a queue of  *)
(* packets q with the button at b, the guest ends with it at v: the last   *)
(* button packet says so, or there is none and b is v.                     *)
Packets == [k : {"move", "button"}, b : BOOLEAN]

Says(q, b, v) ==
  \/ v = b /\ \A i \in 1..Len(q) : q[i].k # "button"
  \/ \E i \in 1..Len(q) : /\ q[i].k = "button" /\ q[i].b = v
                          /\ \A j \in 1..Len(q) : j > i => q[j].k # "button"

(* An empty queue says nothing new.                                        *)
LEMMA SaysNothing == ASSUME NEW b PROVE Says(<<>>, b, b)
  BY DEF Says

(* A packet more is read last.                                             *)
LEMMA SaysMore ==
  ASSUME NEW q \in Seq(Packets), NEW b, NEW v, Says(q, b, v), NEW p \in Packets
  PROVE  Says(Append(q, p), b, IF p.k = "button" THEN p.b ELSE v)
<1> DEFINE r == Append(q, p)
<1>1. /\ Len(r) = Len(q) + 1 /\ Len(q) \in Nat
      /\ \A i \in 1..Len(q) : r[i] = q[i]
      /\ r[Len(q) + 1] = p
  OBVIOUS
<1> HIDE DEF r
<1> SUFFICES Says(r, b, IF p.k = "button" THEN p.b ELSE v)
  BY DEF r
<1>2. CASE p.k = "button"
  <2>1. Len(r) \in 1..Len(r) /\ r[Len(r)] = p /\ \A j \in 1..Len(r) : ~(j > Len(r))
    BY <1>1
  <2> QED BY <1>2, <2>1 DEF Says
<1>3. CASE p.k # "button"
  <2>1. CASE v = b /\ \A i \in 1..Len(q) : q[i].k # "button"
    BY <1>1, <1>3, <2>1 DEF Says
  <2>2. CASE \E i \in 1..Len(q) : /\ q[i].k = "button" /\ q[i].b = v
                                  /\ \A j \in 1..Len(q) : j > i => q[j].k # "button"
    <3> PICK i \in 1..Len(q) : /\ q[i].k = "button" /\ q[i].b = v
                               /\ \A j \in 1..Len(q) : j > i => q[j].k # "button"
      BY <2>2
    <3>1. i \in 1..Len(r) /\ r[i].k = "button" /\ r[i].b = v
          /\ \A j \in 1..Len(r) : j > i => r[j].k # "button"
      BY <1>1, <1>3
    <3> QED BY <1>3, <3>1 DEF Says
  <2> QED BY <2>1, <2>2 DEF Says
<1> QED BY <1>2, <1>3

(* One queue after another.                                                *)
LEMMA SaysInTurn ==
  ASSUME NEW s \in Seq(Packets), NEW q \in Seq(Packets), NEW b, NEW w, NEW v,
         Says(s, b, w), Says(q, w, v)
  PROVE  Says(s \o q, b, v)
<1> DEFINE r == s \o q
<1>1. /\ Len(r) = Len(s) + Len(q) /\ Len(s) \in Nat /\ Len(q) \in Nat
      /\ \A i \in 1..Len(s) : r[i] = s[i]
      /\ \A i \in 1..Len(r) : i > Len(s) => i - Len(s) \in 1..Len(q) /\ r[i] = q[i - Len(s)]
      /\ \A i \in 1..Len(q) : Len(s) + i \in 1..Len(r) /\ r[Len(s) + i] = q[i]
  OBVIOUS
<1> HIDE DEF r
<1> SUFFICES Says(r, b, v)
  BY DEF r
<1>2. CASE w = v /\ \A i \in 1..Len(q) : q[i].k # "button"
  <2>1. CASE w = b /\ \A i \in 1..Len(s) : s[i].k # "button"
    <3>1. ASSUME NEW i \in 1..Len(r) PROVE r[i].k # "button"
      <4>1. CASE i > Len(s)
        BY <1>1, <1>2, <4>1
      <4>2. CASE ~(i > Len(s))
        BY <1>1, <2>1, <4>2
      <4> QED BY <4>1, <4>2
    <3> QED BY <1>2, <2>1, <3>1 DEF Says
  <2>2. CASE \E i \in 1..Len(s) : /\ s[i].k = "button" /\ s[i].b = w
                                  /\ \A j \in 1..Len(s) : j > i => s[j].k # "button"
    <3> PICK i \in 1..Len(s) : /\ s[i].k = "button" /\ s[i].b = w
                               /\ \A j \in 1..Len(s) : j > i => s[j].k # "button"
      BY <2>2
    <3>1. i \in 1..Len(r) /\ r[i].k = "button" /\ r[i].b = v
      BY <1>1, <1>2
    <3>2. ASSUME NEW j \in 1..Len(r), j > i PROVE r[j].k # "button"
      <4>1. CASE j > Len(s)
        <5>1. j - Len(s) \in 1..Len(q) /\ r[j] = q[j - Len(s)]
          BY <1>1, <4>1
        <5> QED BY <1>2, <5>1
      <4>2. CASE ~(j > Len(s))
        <5>1. j \in 1..Len(s) /\ r[j] = s[j]
          BY <1>1, <4>2
        <5> QED BY <3>2, <5>1
      <4> QED BY <4>1, <4>2
    <3> QED BY <3>1, <3>2 DEF Says
  <2> QED BY <2>1, <2>2 DEF Says
<1>3. CASE \E i \in 1..Len(q) : /\ q[i].k = "button" /\ q[i].b = v
                                /\ \A j \in 1..Len(q) : j > i => q[j].k # "button"
  <2> PICK i \in 1..Len(q) : /\ q[i].k = "button" /\ q[i].b = v
                             /\ \A j \in 1..Len(q) : j > i => q[j].k # "button"
    BY <1>3
  <2>1. Len(s) + i \in 1..Len(r) /\ r[Len(s) + i].k = "button" /\ r[Len(s) + i].b = v
    BY <1>1
  <2>2. ASSUME NEW j \in 1..Len(r), j > Len(s) + i PROVE r[j].k # "button"
    <3>1. j > Len(s) /\ j - Len(s) > i
      BY <1>1, <2>2
    <3>2. j - Len(s) \in 1..Len(q) /\ r[j] = q[j - Len(s)]
      BY <1>1, <3>1
    <3> QED BY <3>1, <3>2
  <2> QED BY <2>1, <2>2 DEF Says
<1> QED BY <1>2, <1>3 DEF Says

(* The guest reads the first packet.                                       *)
LEMMA SaysFirst ==
  ASSUME NEW s \in Seq(Packets), s # <<>>, NEW b, NEW v, Says(s, b, v)
  PROVE  Says(Tail(s), IF Head(s).k = "button" THEN Head(s).b ELSE b, v)
<1> DEFINE t == Tail(s)
<1>1. /\ Len(s) \in Nat /\ Len(s) > 0 /\ Len(t) = Len(s) - 1 /\ Head(s) = s[1]
      /\ \A i \in 1..Len(t) : t[i] = s[i + 1] /\ i + 1 \in 1..Len(s)
      /\ \A i \in 1..Len(s) : i > 1 => i - 1 \in 1..Len(t) /\ t[i - 1] = s[i]
  OBVIOUS
<1> HIDE DEF t
<1>2. CASE v = b /\ \A i \in 1..Len(s) : s[i].k # "button"
  <2>1. \A i \in 1..Len(t) : t[i].k # "button"
    BY <1>1, <1>2
  <2> QED BY <1>1, <1>2, <2>1 DEF Says, t
<1>3. CASE \E i \in 1..Len(s) : /\ s[i].k = "button" /\ s[i].b = v
                                /\ \A j \in 1..Len(s) : j > i => s[j].k # "button"
  <2> PICK i \in 1..Len(s) : /\ s[i].k = "button" /\ s[i].b = v
                             /\ \A j \in 1..Len(s) : j > i => s[j].k # "button"
    BY <1>3
  <2>1. CASE i = 1
    <3>1. \A j \in 1..Len(t) : t[j].k # "button"
      BY <1>1, <2>1
    <3> QED BY <1>1, <2>1, <3>1 DEF Says, t
  <2>2. CASE i > 1
    <3>1. i - 1 \in 1..Len(t) /\ t[i - 1].k = "button" /\ t[i - 1].b = v
      BY <1>1, <2>2
    <3>2. \A j \in 1..Len(t) : j > i - 1 => t[j].k # "button"
      BY <1>1, <2>2
    <3> QED BY <3>1, <3>2 DEF Says, t
  <2> QED BY <2>1, <2>2
<1> QED BY <1>2, <1>3 DEF Says

\* Unless a packet was lost, what the guest will read ends with the host's last
\* button, which the AMX mouse holds too.
PointInv ==
  /\ hostfifo.q \in Seq(Packets) /\ sf2mouse \in Seq(Packets)
  /\ {"q", "last"} \subseteq DOMAIN hostfifo /\ hostfifo.last \in BOOLEAN
  /\ {"button", "lost"} \subseteq DOMAIN seen /\ seen.lost \in BOOLEAN
  /\ {"host", "dev", "button", "sel", "armed"} \subseteq DOMAIN amx
  /\ {"d", "button", "dirty"} \subseteq DOMAIN ipcmouse /\ ipcmouse.button \in BOOLEAN
  /\ ~seen.lost =>
       /\ hostfifo.last = amx.button
       /\ \E w : Says(sf2mouse, seen.button, w) /\ Says(hostfifo.q, w, hostfifo.last)

(* One event of the host reaches both mice.                                *)
LEMMA EventKeepsButtons ==
  ASSUME PointInv, NEW dx, NEW b \in BOOLEAN, NEW n,
         symbiface_mouse_update(dx, b), amx_mouse_update(dx, b),
         n = (IF dx # 0 THEN 1 ELSE 0) + (IF b # hostfifo.last THEN 1 ELSE 0),
         seen' = [seen EXCEPT !.lost = @ \/ Overflow(hostfifo.q, n)],
         sf2mouse' = sf2mouse,
         {"d", "button", "dirty"} \subseteq DOMAIN ipcmouse', ipcmouse'.button \in BOOLEAN
  PROVE  PointInv'
<1> DEFINE m == [k |-> "move", b |-> FALSE]
           q == IF dx # 0 THEN Push(hostfifo.q, m) ELSE hostfifo.q
           r == IF b # hostfifo.last THEN Push(q, Button(b)) ELSE q
<1>1. m \in Packets /\ Button(b) \in Packets /\ m.k # "button"
      /\ Button(b).k = "button" /\ Button(b).b = b
  BY DEF Packets, Button
<1>2. hostfifo.q \in Seq(Packets) /\ sf2mouse \in Seq(Packets)
  BY DEF PointInv
<1> HIDE DEF m
<1>3. hostfifo'.q = r /\ hostfifo'.last = b /\ {"q", "last"} \subseteq DOMAIN hostfifo'
  BY DEF symbiface_mouse_update, PointInv, m
<1>4. amx'.button = b /\ {"host", "dev", "button", "sel", "armed"} \subseteq DOMAIN amx'
  BY DEF amx_mouse_update, PointInv
<1>5. /\ seen'.button = seen.button /\ {"button", "lost"} \subseteq DOMAIN seen'
      /\ seen'.lost = (seen.lost \/ Overflow(hostfifo.q, n))
  BY DEF PointInv
<1>6. q \in Seq(Packets)
  BY <1>1, <1>2 DEF Push
<1>7. r \in Seq(Packets)
  <2> HIDE DEF q
  <2> QED BY <1>1, <1>6 DEF Push
<1>8. ASSUME ~seen'.lost
      PROVE  \E w : Says(sf2mouse, seen.button, w) /\ Says(r, w, b)
  <2>1. ~seen.lost /\ ~Overflow(hostfifo.q, n)
    BY <1>5, <1>8 DEF PointInv
  <2> PICK w : Says(sf2mouse, seen.button, w) /\ Says(hostfifo.q, w, hostfifo.last)
    BY <2>1 DEF PointInv
  <2>2. Len(hostfifo.q) \in Nat
    BY <1>2
  <2> DEFINE l == Len(hostfifo.q)
  <2>3. l \in Nat /\ FifoMax \in Nat /\ l + n <= FifoMax /\ n \in 0..2
    <3>1. n \in 0..2
      BY ONLY n = (IF dx # 0 THEN 1 ELSE 0) + (IF b # hostfifo.last THEN 1 ELSE 0)
    <3>2. ~(l + n > FifoMax) /\ l \in Nat
      BY ONLY <2>1, <2>2 DEF Overflow
    <3> HIDE DEF l
    <3> QED BY ONLY <3>1, <3>2, PointAssumption
  <2>4. (dx # 0 \/ b # hostfifo.last => n >= 1) /\ (dx # 0 /\ b # hostfifo.last => n = 2)
    BY ONLY n = (IF dx # 0 THEN 1 ELSE 0) + (IF b # hostfifo.last THEN 1 ELSE 0)
  <2> HIDE DEF l
  <2>5. (dx # 0 \/ b # hostfifo.last => ~(l >= FifoMax))
        /\ (dx # 0 /\ b # hostfifo.last => ~(l + 1 >= FifoMax))
    BY ONLY <2>3, <2>4
  <2>6. q = IF dx # 0 THEN Append(hostfifo.q, m) ELSE hostfifo.q
    BY ONLY <2>5 DEF Push, q, l
  <2>7. b # hostfifo.last => ~(Len(q) >= FifoMax)
    <3>1. Len(q) = IF dx # 0 THEN l + 1 ELSE l
      <4>1. Len(Append(hostfifo.q, m)) = Len(hostfifo.q) + 1
        BY ONLY <1>1, <1>2
      <4> HIDE DEF q
      <4> QED BY ONLY <2>6, <4>1 DEF l
    <3> HIDE DEF q
    <3> QED BY ONLY <2>5, <3>1
  <2>8. Says(q, w, hostfifo.last)
    <3>1. Says(Append(hostfifo.q, m), w, hostfifo.last)
      BY <1>1, <1>2, SaysMore
    <3> HIDE DEF q
    <3> QED BY <2>6, <3>1
  <2> HIDE DEF q
  <2>9. CASE b = hostfifo.last
    BY <2>8, <2>9
  <2>10. CASE b # hostfifo.last
    <3>1. Says(Append(q, Button(b)), w, b)
      BY <1>1, <1>6, <2>8, SaysMore
    <3>2. r = Append(q, Button(b))
      BY ONLY <2>7, <2>10 DEF Push, r
    <3> QED BY <3>1, <3>2
  <2> QED BY <2>9, <2>10
<1> HIDE DEF r
<1>9. seen'.lost \in BOOLEAN
  BY <1>5 DEF PointInv, Overflow
<1> QED BY <1>2, <1>3, <1>4, <1>5, <1>7, <1>8, <1>9 DEF PointInv

(* Every step of the mice and the gun.                                     *)
LEMMA NextKeepsPoint ==
  ASSUME PointInv, [PointCommon \/ MouseNext \/ GunNext]_pointVars PROVE PointInv'
<1>1. CASE MouseMotion
  <2> PICK dx \in {-1, 1}, b \in BOOLEAN :
        /\ symbiface_mouse_update(dx, b) /\ amx_mouse_update(dx, b)
        /\ seen' = [seen EXCEPT !.lost = @ \/ Overflow(hostfifo.q, IF b # hostfifo.last THEN 2 ELSE 1)]
    BY <1>1 DEF MouseMotion
  <2>1. dx # 0 /\ dx \in Int /\ UNCHANGED <<sf2mouse, ipcmouse>>
    BY <1>1 DEF MouseMotion
  <2>2. (IF b # hostfifo.last THEN 2 ELSE 1)
          = (IF dx # 0 THEN 1 ELSE 0) + (IF b # hostfifo.last THEN 1 ELSE 0)
    BY <2>1
  <2>3. {"d", "button", "dirty"} \subseteq DOMAIN ipcmouse' /\ ipcmouse'.button \in BOOLEAN
    BY <2>1 DEF PointInv
  <2> QED BY <2>1, <2>2, <2>3, EventKeepsButtons
<1>2. CASE ipc_drain_input
  <2>1. CASE ipcmouse.dirty
    <3> DEFINE n == (IF ipcmouse.d # 0 THEN 1 ELSE 0) +
                    (IF ipcmouse.button # hostfifo.last THEN 1 ELSE 0)
    <3>1. /\ ipcmouse' = [ipcmouse EXCEPT !.d = 0, !.dirty = FALSE]
          /\ symbiface_mouse_update(ipcmouse.d, ipcmouse.button)
          /\ amx_mouse_update(ipcmouse.d, ipcmouse.button)
          /\ seen' = [seen EXCEPT !.lost = @ \/ Overflow(hostfifo.q, n)]
          /\ sf2mouse' = sf2mouse
      BY <1>2, <2>1 DEF ipc_drain_input
    <3>2. {"d", "button", "dirty"} \subseteq DOMAIN ipcmouse' /\ ipcmouse'.button \in BOOLEAN
          /\ ipcmouse.button \in BOOLEAN
      BY <3>1 DEF PointInv
    <3> QED BY <3>1, <3>2, EventKeepsButtons
  <2>2. CASE ~ipcmouse.dirty
    BY <1>2, <2>2 DEF ipc_drain_input, PointInv
  <2> QED BY <2>1, <2>2
<1>3. CASE FrameInput
  <2> DEFINE room == FifoMax - Len(sf2mouse)
             n == IF Len(hostfifo.q) < room THEN Len(hostfifo.q) ELSE room
  <2>1. /\ sf2mouse' = sf2mouse \o SubSeq(hostfifo.q, 1, n)
        /\ seen' = [seen EXCEPT !.lost = @ \/ Len(hostfifo.q) > room]
        /\ hostfifo' = [hostfifo EXCEPT !.q = <<>>]
        /\ amx' = [amx EXCEPT !.dev = Clamp(@ + amx.host), !.host = 0]
        /\ UNCHANGED ipcmouse
    BY <1>3 DEF FrameInput, sync_symbiface, sync_amx_mouse
  <2>2. /\ hostfifo'.q = <<>> /\ hostfifo'.last = hostfifo.last /\ DOMAIN hostfifo' = DOMAIN hostfifo
        /\ seen'.button = seen.button /\ DOMAIN seen' = DOMAIN seen
        /\ seen'.lost = (seen.lost \/ Len(hostfifo.q) > room)
        /\ amx'.button = amx.button /\ DOMAIN amx' = DOMAIN amx
    BY <2>1 DEF PointInv
  <2>3. hostfifo.q \in Seq(Packets) /\ sf2mouse \in Seq(Packets) /\ <<>> \in Seq(Packets)
    BY DEF PointInv
  <2>4. n <= Len(hostfifo.q) /\ Len(hostfifo.q) \in Nat
    BY <2>3, PointAssumption
  <2>5. SubSeq(hostfifo.q, 1, n) \in Seq(Packets)
    BY <2>3, <2>4, PointAssumption
  <2>6. sf2mouse' \in Seq(Packets)
    BY <2>1, <2>3, <2>5
  <2>7. ASSUME ~seen'.lost
        PROVE  \E w : Says(sf2mouse', seen.button, w) /\ Says(<<>>, w, hostfifo.last)
    <3>1. ~seen.lost /\ ~(Len(hostfifo.q) > room)
      BY <2>2, <2>7
    <3>2. SubSeq(hostfifo.q, 1, n) = hostfifo.q
      <4>1. n = Len(hostfifo.q)
        BY <2>3, <2>4, <3>1, PointAssumption
      <4> HIDE DEF n
      <4> QED BY <2>3, <4>1
    <3>3. PICK w : Says(sf2mouse, seen.button, w) /\ Says(hostfifo.q, w, hostfifo.last)
      BY <3>1 DEF PointInv
    <3>4. Says(sf2mouse \o hostfifo.q, seen.button, hostfifo.last)
      BY <2>3, <3>3, SaysInTurn
    <3> QED BY <2>1, <3>2, <3>4, SaysNothing
  <2>8. seen'.lost \in BOOLEAN
    BY <2>2 DEF PointInv
  <2> HIDE DEF n, room
  <2> QED BY <2>1, <2>2, <2>3, <2>6, <2>7, <2>8 DEF PointInv
<1>4. CASE sf2_fifo_pop
  <2>1. /\ sf2mouse # <<>> /\ sf2mouse' = Tail(sf2mouse)
        /\ seen' = IF Head(sf2mouse).k = "button" THEN [seen EXCEPT !.button = Head(sf2mouse).b] ELSE seen
        /\ UNCHANGED <<ipcmouse, hostfifo, amx>>
    BY <1>4 DEF sf2_fifo_pop
  <2>2. sf2mouse \in Seq(Packets) /\ Tail(sf2mouse) \in Seq(Packets)
    BY <2>1 DEF PointInv
  <2>3. /\ seen'.button = IF Head(sf2mouse).k = "button" THEN Head(sf2mouse).b ELSE seen.button
        /\ seen'.lost = seen.lost /\ DOMAIN seen' = DOMAIN seen
    BY <2>1 DEF PointInv
  <2>4. ASSUME NEW w, Says(sf2mouse, seen.button, w)
        PROVE  Says(sf2mouse', seen'.button, w)
    BY <2>1, <2>2, <2>3, <2>4, SaysFirst
  <2> QED BY <2>1, <2>2, <2>3, <2>4 DEF PointInv
<1>5. CASE PointReset
  BY <1>5 DEF PointReset, PointInv
<1>6. CASE ipc_input_mouse \/ ipc_input_gun
  BY <1>6 DEF ipc_input_mouse, ipc_input_gun, PointInv
<1>7. CASE amx_tick
  <2>1. amx'.button = amx.button /\ DOMAIN amx' = DOMAIN amx
    BY <1>7 DEF amx_tick, PointInv
  <2> QED BY <1>7, <2>1 DEF amx_tick, PointInv
<1>8. CASE UNCHANGED pointVars
  BY <1>8 DEF pointVars, PointInv
<1> QED BY <1>1, <1>2, <1>3, <1>4, <1>5, <1>6, <1>7, <1>8 DEF PointCommon, MouseNext, GunNext

(* All buttons up, all queues empty.                                       *)
LEMMA PointStarts ==
  ASSUME PointInit PROVE PointInv
<1>1. <<>> \in Seq(Packets)
  OBVIOUS
<1> QED BY <1>1, SaysNothing DEF PointInit, PointInv

(* With both queues empty the guest's button is the host's.                *)
LEMMA PointIsRight ==
  ASSUME PointInv PROVE ButtonsAgree
<1> SUFFICES ASSUME hostfifo.q = <<>>, sf2mouse = <<>>, ~seen.lost PROVE seen.button = amx.button
  BY DEF ButtonsAgree
<1>1. PICK w : Says(sf2mouse, seen.button, w) /\ Says(hostfifo.q, w, hostfifo.last)
  BY DEF PointInv
<1> QED BY <1>1 DEF PointInv, Says

-----------------------------------------------------------------------------
(* The joystick ports.  The properties are nearly inductive by themselves: *)
(* what has to be added is that the three drivers' records keep their      *)
(* fields.                                                                 *)
PadInv ==
  /\ {"held", "heldTarget", "lines", "focus", "target", "mouse", "arrows"} \subseteq DOMAIN vpad
  /\ PadAccounted

ControllerInv ==
  /\ {"device", "kind", "lines", "paused"} \subseteq DOMAIN ctl
  /\ DOMAIN ctl.device = Ports
  /\ UnpluggedIsIdle

StickInv ==
  /\ {"mode", "gun", "pressed", "lines", "reset", "key", "button"} \subseteq DOMAIN stick
  /\ stick.gun \in 1..3 /\ NoGunNoTrigger

JoyInv == PadInv /\ ControllerInv /\ StickInv

(* A pass over the pad presses what is new and releases what is old.       *)
LEMMA PadDraws ==
  ASSUME PadInv, imgui_render_vjoystick PROVE PadInv'
<1> DEFINE closed == [vjoy_release_mask(vpad, vpad.heldTarget, vpad.held)
                        EXCEPT !.held = {}, !.focus = FALSE]
           mask == vpad.mouse \cup (IF vpad.focus THEN vpad.arrows ELSE {})
           r == pad_retarget(vpad)
           pressed == [r EXCEPT !.lines = @ \cup vjoy_active_keys(r.target, mask \ r.held)]
           drawn == [vjoy_release_mask(pressed, r.target, r.held \ mask) EXCEPT !.held = mask]
<1>1. vpad' = CASE ~vpad.shown -> closed
                [] vpad.shown /\ vpad.behind -> [vpad EXCEPT !.focus = FALSE]
                [] OTHER       -> drawn
  BY DEF imgui_render_vjoystick
<1>2. closed.lines = {} /\ closed.held = {} /\ DOMAIN closed = DOMAIN vpad
  BY DEF vjoy_release_mask, PadInv, PadAccounted
<1>3. /\ r.lines = {r.target} \X r.held /\ r.heldTarget = r.target
      /\ r.target = vpad.target /\ DOMAIN r = DOMAIN vpad
  BY DEF pad_retarget, vjoy_release_mask, vjoy_active_keys, PadInv, PadAccounted
<1> HIDE DEF closed, mask, r
<1>4. /\ drawn.held = mask /\ drawn.heldTarget = r.target /\ DOMAIN drawn = DOMAIN vpad
      /\ drawn.lines = ((r.lines \cup ({r.target} \X (mask \ r.held)))
                         \ ({r.target} \X (r.held \ mask)))
  BY <1>3 DEF vjoy_release_mask, vjoy_active_keys, PadInv
<1>5. drawn.lines = {r.target} \X mask
  BY <1>3, <1>4
<1> HIDE DEF drawn
<1>6. CASE ~vpad.shown
  <2>1. vpad' = closed
    BY <1>1, <1>6
  <2> QED BY <1>2, <2>1 DEF PadInv, PadAccounted, vjoy_active_keys
<1>7. CASE vpad.shown /\ vpad.behind
  <2>1. vpad' = [vpad EXCEPT !.focus = FALSE]
    BY <1>1, <1>7
  <2> QED BY <2>1 DEF PadInv, PadAccounted, vjoy_active_keys
<1>8. CASE vpad.shown /\ ~vpad.behind
  <2>1. vpad' = drawn
    BY <1>1, <1>8
  <2> QED BY <1>4, <1>5, <2>1 DEF PadInv, PadAccounted, vjoy_active_keys
<1> QED BY <1>6, <1>7, <1>8

(* The rest of the pad window touches no line.                             *)
LEMMA NextKeepsPad ==
  ASSUME PadInv, PadNext PROVE PadInv' /\ UNCHANGED <<ctl, stick>>
<1>1. CASE imgui_render_vjoystick
  BY <1>1, PadDraws DEF imgui_render_vjoystick
<1>2. CASE showVJoystick \/ pad_window \/ pad_target \/ pad_press
  BY <1>2 DEF showVJoystick, pad_window, pad_target, pad_press, PadInv, PadAccounted,
              vjoy_active_keys
<1>3. CASE pad_arrows
  BY <1>3 DEF pad_arrows, PadInv, PadAccounted, vjoy_active_keys
<1> QED BY <1>1, <1>2, <1>3 DEF PadNext

(* A controller's bit pulls a line of its own slot only.                   *)
LEMMA BitIsOfSlot ==
  ASSUME NEW c, {"device", "kind", "lines", "paused"} \subseteq DOMAIN c,
         NEW s \in Ports, NEW b \in PadButtons, NEW pressed
  PROVE  LET d == controller_apply_bit(c, s, b, pressed)
         IN  /\ d.device = c.device /\ d.kind = c.kind /\ d.paused = c.paused
             /\ DOMAIN d = DOMAIN c
             /\ \A t \in Ports : t # s => d.lines \cap vjoy_all_keys(t) = c.lines \cap vjoy_all_keys(t)
  BY DEF controller_apply_bit, vjoy_active_keys, vjoy_all_keys

(* A slot is given to one device, and let go with every line it holds.    *)
LEMMA NextKeepsControllers ==
  ASSUME ControllerInv, ControllerNext PROVE ControllerInv' /\ UNCHANGED <<vpad, stick>>
<1>1. CASE controller_open
  <2> PICK id \in Devices, kind \in {"gamepad", "joystick", "failed"} :
        /\ controller_slot_of_instance(ctl, id) = {}
        /\ ctl' = IF kind = "failed" THEN ctl
                  ELSE [ctl EXCEPT !.device = [s \in Ports |->
                                     IF s \in controller_free_slot(ctl) THEN id ELSE @[s]],
                                   !.kind = [s \in Ports |->
                                     IF s \in controller_free_slot(ctl) THEN kind ELSE @[s]]]
    BY <1>1 DEF controller_open
  <2>1. CASE kind = "failed"
    BY <1>1, <2>1 DEF controller_open, ControllerInv, UnpluggedIsIdle
  <2>2. CASE kind # "failed"
    <3>1. /\ ctl'.device = [s \in Ports |-> IF s \in controller_free_slot(ctl) THEN id
                                            ELSE ctl.device[s]]
          /\ ctl'.lines = ctl.lines /\ DOMAIN ctl' = DOMAIN ctl
      BY <2>2 DEF ControllerInv
    <3>2. \A s, t \in Ports : s \in controller_free_slot(ctl) /\ t \in controller_free_slot(ctl) => s = t
      BY DEF controller_free_slot, Ports
    <3>3. \A s \in Ports : ctl.device[s] # id
      BY DEF controller_slot_of_instance
    <3>4. \A s, t \in Ports : s # t /\ ctl'.device[s] = ctl'.device[t] => ctl'.device[s] = NoDevice
      BY <3>1, <3>2, <3>3 DEF ControllerInv, UnpluggedIsIdle
    <3>5. \A s \in Ports : ctl'.device[s] = NoDevice => ctl.device[s] = NoDevice
      BY <3>1, <3>3 DEF controller_free_slot
    <3> QED BY <1>1, <3>1, <3>4, <3>5 DEF controller_open, ControllerInv, UnpluggedIsIdle
  <2> QED BY <2>1, <2>2
<1>2. CASE controller_close
  <2> PICK s \in Ports : ctl.device[s] # NoDevice /\ ctl' = controller_closed(ctl, s)
    BY <1>2 DEF controller_close
  <2>1. /\ ctl'.device = [ctl.device EXCEPT ![s] = NoDevice]
        /\ ctl'.lines = ctl.lines \ vjoy_all_keys(s) /\ DOMAIN ctl' = DOMAIN ctl
    BY DEF controller_closed, ControllerInv
  <2> QED BY <1>2, <2>1 DEF controller_close, ControllerInv, UnpluggedIsIdle
<1>3. CASE controller_button
  <2> PICK s \in Ports, b \in PadButtons, pressed \in BOOLEAN :
        ctl.device[s] # NoDevice /\ ctl' = controller_apply_bit(ctl, s, b, pressed)
    BY <1>3 DEF controller_button
  <2>1. /\ ctl'.device = ctl.device /\ DOMAIN ctl' = DOMAIN ctl
        /\ \A t \in Ports : t # s => ctl'.lines \cap vjoy_all_keys(t) = ctl.lines \cap vjoy_all_keys(t)
    BY BitIsOfSlot DEF ControllerInv
  <2> QED BY <1>3, <2>1 DEF controller_button, ControllerInv, UnpluggedIsIdle
<1>4. CASE controller_axis
  <2> PICK s \in Ports, a \in PadButtons, b \in PadButtons, side \in {"less", "middle", "more"} :
        /\ ctl.device[s] # NoDevice
        /\ ctl' = controller_apply_bit(controller_apply_bit(ctl, s, a, side = "less"),
                                       s, b, side = "more")
    BY <1>4 DEF controller_axis
  <2> DEFINE c == controller_apply_bit(ctl, s, a, side = "less")
  <2>1. /\ c.device = ctl.device /\ DOMAIN c = DOMAIN ctl
        /\ \A t \in Ports : t # s => c.lines \cap vjoy_all_keys(t) = ctl.lines \cap vjoy_all_keys(t)
    BY BitIsOfSlot DEF ControllerInv
  <2>2. ctl' = controller_apply_bit(c, s, b, side = "more")
    OBVIOUS
  <2> HIDE DEF c
  <2>3. {"device", "kind", "lines", "paused"} \subseteq DOMAIN c
    BY <2>1 DEF ControllerInv
  <2>4. /\ ctl'.device = c.device /\ DOMAIN ctl' = DOMAIN c
        /\ \A t \in Ports : t # s => ctl'.lines \cap vjoy_all_keys(t) = c.lines \cap vjoy_all_keys(t)
    BY <2>2, <2>3, BitIsOfSlot
  <2> QED BY <1>4, <2>1, <2>4 DEF controller_axis, ControllerInv, UnpluggedIsIdle
<1>5. CASE controller_menu_button \/ controller_resume
  BY <1>5 DEF controller_menu_button, controller_resume, ControllerInv, UnpluggedIsIdle
<1> QED BY <1>1, <1>2, <1>3, <1>4, <1>5 DEF ControllerNext

(* The emulations: unplugging the last gun lets go of its trigger.         *)
LEMMA NextKeepsStick ==
  ASSUME StickInv, StickNext PROVE StickInv' /\ UNCHANGED <<vpad, ctl>>
<1>1. CASE stick_key
  <2> DEFINE e == Set(stick, CPCscancodeFromKeysym_(stick), ~stick.key)
  <2>1. e.gun = stick.gun /\ e.pressed = stick.pressed /\ DOMAIN e = DOMAIN stick
    BY DEF Set, StickInv
  <2>2. stick' = [e EXCEPT !.key = ~e.key] /\ UNCHANGED <<vpad, ctl>>
    BY <1>1, <2>1 DEF stick_key
  <2> HIDE DEF e
  <2> QED BY <2>1, <2>2 DEF StickInv, NoGunNoTrigger
<1>2. CASE KONCPC_JOY_ \/ stick_motion \/ stick_frame
  <2>1. CASE KONCPC_JOY_ \/ stick_motion
    BY <2>1 DEF KONCPC_JOY_, stick_motion, Set, StickInv, NoGunNoTrigger
  <2>2. CASE stick_frame
    <3> DEFINE e == IF stick.reset = 0 /\ stick.mode = MouseMode
                    THEN Set(stick, <<0, "move">>, FALSE) ELSE stick
    <3>1. e.gun = stick.gun /\ e.pressed = stick.pressed /\ DOMAIN e = DOMAIN stick
      BY DEF Set, StickInv
    <3>2. stick' = [e EXCEPT !.reset = IF @ > 0 THEN @ - 1 ELSE 0] /\ UNCHANGED <<vpad, ctl>>
      BY <2>2 DEF stick_frame
    <3> HIDE DEF e
    <3> QED BY <3>1, <3>2 DEF StickInv, NoGunNoTrigger
  <2> QED BY <1>2, <2>1, <2>2
<1>3. CASE stick_button
  <2> DEFINE press == ~stick.button
             trig == IF stick.gun = Trojan THEN Set(stick, <<0, "fire">>, press) ELSE stick
             g == IF stick.gun = 1 THEN stick ELSE [trig EXCEPT !.pressed = press]
             m == IF stick.mode = MouseMode THEN Set(g, <<0, "fire">>, press) ELSE g
  <2>1. stick' = [m EXCEPT !.button = press] /\ UNCHANGED <<vpad, ctl>>
    BY <1>3 DEF stick_button
  <2>2. trig.gun = stick.gun /\ trig.pressed = stick.pressed /\ DOMAIN trig = DOMAIN stick
    BY DEF Set, StickInv
  <2> HIDE DEF trig
  <2>3. /\ g.gun = stick.gun /\ DOMAIN g = DOMAIN stick
        /\ stick.gun = 1 => g.pressed = stick.pressed
    BY <2>2 DEF StickInv
  <2> HIDE DEF g
  <2>4. m.gun = g.gun /\ m.pressed = g.pressed /\ DOMAIN m = DOMAIN g
    BY <2>3 DEF Set, StickInv
  <2> HIDE DEF m
  <2> QED BY <2>1, <2>3, <2>4 DEF StickInv, NoGunNoTrigger
<1>4. CASE KONCPC_PHAZER_
  <2>1. (stick.gun % 3) + 1 \in 1..3
    BY DEF StickInv
  <2> QED BY <1>4, <2>1 DEF KONCPC_PHAZER_, next_gun, StickInv, NoGunNoTrigger
<1> QED BY <1>1, <1>2, <1>3, <1>4 DEF StickNext

(* Nothing is plugged in and no line is down at the start.                 *)
LEMMA JoyStarts ==
  ASSUME JoyInit PROVE JoyInv
<1>1. PadInv
  BY DEF JoyInit, PadInv, PadAccounted, vjoy_active_keys
<1>2. ControllerInv
  BY DEF JoyInit, ControllerInv, UnpluggedIsIdle, vjoy_all_keys, vjoy_active_keys
<1>3. StickInv
  BY DEF JoyInit, StickInv, NoGunNoTrigger
<1> QED BY <1>1, <1>2, <1>3 DEF JoyInv

(* The three drivers share no state.                                       *)
LEMMA NextKeepsJoy ==
  ASSUME JoyInv, [PadNext \/ ControllerNext \/ StickNext]_joyVars PROVE JoyInv'
<1>1. CASE PadNext
  BY <1>1, NextKeepsPad DEF JoyInv, ControllerInv, UnpluggedIsIdle, StickInv, NoGunNoTrigger
<1>2. CASE ControllerNext
  BY <1>2, NextKeepsControllers DEF JoyInv, PadInv, PadAccounted, StickInv, NoGunNoTrigger
<1>3. CASE StickNext
  BY <1>3, NextKeepsStick DEF JoyInv, ControllerInv, UnpluggedIsIdle, PadInv, PadAccounted
<1>4. CASE UNCHANGED joyVars
  BY <1>4 DEF joyVars, JoyInv, ControllerInv, UnpluggedIsIdle, PadInv, PadAccounted, StickInv,
              NoGunNoTrigger
<1> QED BY <1>1, <1>2, <1>3, <1>4

-----------------------------------------------------------------------------
(* Each of these boards has its own steps on the bench and no others.      *)
LEMMA BenchRunsBoards ==
  ASSUME [Next]_benchVars
  PROVE  /\ [SoundNext]_soundVars
         /\ [ExpReset \/ IdeNext \/ BoxNext]_expVars
         /\ [PointCommon \/ MouseNext \/ GunNext]_pointVars
         /\ [PadNext \/ ControllerNext \/ StickNext]_joyVars
<1>1. CASE UNCHANGED benchVars
  BY <1>1 DEF benchVars, parkedVars
<1>2. CASE Next
  <2>1. BoardsNext
    BY <1>2 DEF Next
  <2>2. [SoundNext]_soundVars
    BY <2>1 DEF BoardsNext
  <2>3. [ExpReset \/ IdeNext \/ BoxNext]_expVars
    BY <2>1 DEF BoardsNext
  <2>4. [PointCommon \/ MouseNext \/ GunNext]_pointVars
    BY <2>1 DEF BoardsNext
  <2>5. [PadNext \/ ControllerNext \/ StickNext]_joyVars
    BY <2>1 DEF BoardsNext
  <2> QED BY <2>2, <2>3, <2>4, <2>5
<1> QED BY <1>1, <1>2

(* The sound chip, the IDE port, the mice and the joystick ports are right, *)
(* for every prescaler, period, shape and envelope length, any number of    *)
(* sectors and drives, any FIFO size and any set of buttons and devices.    *)
THEOREM BoardsStayRight == Spec => []BoardsRight
<1>1. Init => SoundInv /\ IdeInv /\ PointInv /\ JoyInv
  BY SoundStarts, ExpStarts, PointStarts, JoyStarts DEF Init
<1>2. SoundInv /\ IdeInv /\ PointInv /\ JoyInv /\ [Next]_benchVars
        => (SoundInv /\ IdeInv /\ PointInv /\ JoyInv)'
  BY BenchRunsBoards, NextKeepsSound, NextKeepsIde, NextKeepsPoint, NextKeepsJoy
<1>3. SoundInv /\ IdeInv /\ PointInv /\ JoyInv => BoardsRight
  BY SoundIsRight, IdeIsRight, PointIsRight
     DEF BoardsRight, JoyInv, PadInv, ControllerInv, StickInv, PortsRight
<1> QED BY <1>1, <1>2, <1>3, PTL DEF Spec

-----------------------------------------------------------------------------
(* The shell.  The recent files: a list without duplicates stays one.      *)
Distinct(s) == \A i, j \in DOMAIN s : s[i] = s[j] => i = j

\* What is left of the first i entries of a list.
Left(f, list, p, i) ==
  f[i] = IF i = 0 THEN <<>> ELSE IF list[i] = p THEN f[i - 1] ELSE Append(f[i - 1], list[i])

Erases(f, list, p, m) ==
  f = [i \in 0..m |-> IF i = 0 THEN <<>>
                      ELSE IF list[i] = p THEN f[i - 1] ELSE Append(f[i - 1], list[i])]

Leaves(e, list, p, i, S) ==
  /\ e \in Seq(S) /\ Len(e) <= i /\ Distinct(e)
  /\ \A k \in DOMAIN e : e[k] # p /\ \E j \in 1..i : e[k] = list[j]

(* Erasing goes through the list from its front, one entry at a time.      *)
LEMMA ErasureExists ==
  ASSUME NEW list, NEW p, NEW m \in Nat
  PROVE  \E f : Erases(f, list, p, m)
<1> DEFINE step(f, i) == IF i = 0 THEN <<>>
                         ELSE IF list[i] = p THEN f[i - 1] ELSE Append(f[i - 1], list[i])
           Wrong == {n \in 0..m : ~ \E f : f = [i \in 0..n |-> step(f, i)]}
<1>1. ASSUME Wrong # {} PROVE FALSE
  <2> DEFINE w == Min(Wrong)
  <2>1. w \in Wrong /\ \A n \in Wrong : w <= n
    <3>1. Wrong \in SUBSET Nat
      OBVIOUS
    <3> HIDE DEF Wrong
    <3> QED BY <1>1, <3>1, LeastOf
  <2> HIDE DEF w
  <2>2. w \in 0..m /\ ~ \E f : f = [i \in 0..w |-> step(f, i)]
    BY <2>1
  <2>3. CASE w = 0
    <3> DEFINE f == [i \in 0..0 |-> <<>>]
    <3>1. \A i \in 0..0 : step(f, i) = <<>>
      OBVIOUS
    <3>2. f = [i \in 0..w |-> step(f, i)]
      BY <2>3, <3>1
    <3> QED BY <2>2, <3>2
  <2>4. CASE w # 0
    <3>1. w - 1 \in 0..m /\ ~(w <= w - 1) /\ w - 1 \in Nat
      BY <2>2, <2>4
    <3>2. PICK g : g = [i \in 0..(w - 1) |-> step(g, i)]
      BY <2>1, <3>1
    <3> DEFINE top == step(g, w)
               f == [i \in 0..w |-> IF i = w THEN top ELSE g[i]]
    <3>3. ASSUME NEW i \in 0..w PROVE f[i] = step(f, i)
      <4>1. CASE i = 0
        <5>1. f[i] = g[0] /\ 0 \in 0..(w - 1)
          BY <2>2, <2>4, <4>1
        <5>2. g[0] = step(g, 0)
          BY <3>2, <5>1
        <5> QED BY <4>1, <5>1, <5>2
      <4>2. CASE i = w /\ i # 0
        <5>1. w - 1 \in 0..w /\ w - 1 # w /\ w \in 0..w
          BY <2>2, <3>1
        <5>2. f[w - 1] = g[w - 1] /\ f[w] = top
          BY <5>1
        <5> QED BY <4>2, <5>2
      <4>3. CASE i # w /\ i # 0
        <5>1. i \in 0..(w - 1) /\ i - 1 \in 0..(w - 1) /\ i - 1 \in 0..w /\ i - 1 # w
          BY <2>2, <4>3
        <5>2. f[i] = g[i] /\ f[i - 1] = g[i - 1]
          BY <4>3, <5>1
        <5>3. g[i] = step(g, i)
          BY <3>2, <5>1
        <5> QED BY <4>3, <5>2, <5>3
      <4> QED BY <4>1, <4>2, <4>3
    <3>4. f = [i \in 0..w |-> f[i]]
      OBVIOUS
    <3> HIDE DEF f
    <3>5. [i \in 0..w |-> f[i]] = [i \in 0..w |-> step(f, i)]
      <4> HIDE DEF step
      <4> QED BY <3>3
    <3>6. f = [i \in 0..w |-> step(f, i)]
      BY ONLY <3>4, <3>5
    <3> QED BY <2>2, <3>6
  <2> QED BY <2>3, <2>4
<1>2. m \in 0..m
  OBVIOUS
<1>3. m \notin Wrong
  BY <1>1
<1>4. \E f : f = [i \in 0..m |-> step(f, i)]
  BY <1>2, <1>3
<1> QED BY <1>4 DEF Erases

(* What is left at each entry are the entries so far that are not p.       *)
LEMMA ErasureLeaves ==
  ASSUME NEW S, NEW list \in Seq(S), Distinct(list), NEW p,
         NEW f, \A i \in 0..Len(list) : Left(f, list, p, i)
  PROVE  \A i \in 0..Len(list) : Leaves(f[i], list, p, i, S)
<1>1. Len(list) \in Nat /\ DOMAIN list = 1..Len(list) /\ \A i \in 1..Len(list) : list[i] \in S
  OBVIOUS
<1> DEFINE Wrong == {n \in 0..Len(list) : ~Leaves(f[n], list, p, n, S)}
<1>2. ASSUME Wrong # {} PROVE FALSE
  <2> DEFINE w == Min(Wrong)
  <2>1. w \in Wrong /\ \A n \in Wrong : w <= n
    <3>1. Wrong \in SUBSET Nat
      BY <1>1
    <3> HIDE DEF Wrong
    <3> QED BY <1>2, <3>1, LeastOf
  <2> HIDE DEF w
  <2>2. w \in 0..Len(list) /\ ~Leaves(f[w], list, p, w, S)
    BY <2>1
  <2>3. CASE w = 0
    <3>1. f[w] = <<>>
      BY <1>1, <2>2, <2>3 DEF Left
    <3> QED BY <2>2, <2>3, <3>1 DEF Leaves, Distinct
  <2>4. CASE w # 0
    <3> DEFINE e == f[w - 1]
    <3>1. w - 1 \in 0..Len(list) /\ ~(w <= w - 1) /\ w \in 1..Len(list) /\ w \in Nat
      BY <1>1, <2>2, <2>4
    <3>2. Leaves(e, list, p, w - 1, S)
      BY <2>1, <3>1
    <3>3. f[w] = IF list[w] = p THEN e ELSE Append(e, list[w])
      BY <2>2, <2>4 DEF Left
    <3> HIDE DEF e
    <3>4. /\ e \in Seq(S) /\ Len(e) <= w - 1 /\ Distinct(e) /\ Len(e) \in Nat /\ DOMAIN e = 1..Len(e)
          /\ \A k \in DOMAIN e : e[k] # p /\ \E j \in 1..(w - 1) : e[k] = list[j]
      BY <3>2 DEF Leaves
    <3>5. \A j \in 1..(w - 1) : j \in 1..w /\ j \in DOMAIN list /\ j # w
      BY <1>1, <3>1
    <3>6. CASE list[w] = p
      <4>1. f[w] = e /\ Len(e) <= w
        BY <3>1, <3>3, <3>4, <3>6
      <4> QED BY <2>2, <3>4, <3>5, <4>1 DEF Leaves
    <3>7. CASE list[w] # p
      <4> DEFINE d == Append(e, list[w])
                 n == Len(e)
      <4>1. f[w] = d
        BY <3>3, <3>7
      <4>2. list[w] \in S /\ w \in DOMAIN list
        BY <1>1, <3>1
      <4>3. /\ d \in Seq(S) /\ Len(d) = n + 1 /\ d[n + 1] = list[w] /\ DOMAIN d = 1..(n + 1)
            /\ \A k \in 1..n : d[k] = e[k]
        BY <3>4, <4>2, AppendProperties
      <4> HIDE DEF d
      <4>4. Len(d) <= w
        BY <3>1, <3>4, <4>3
      <4>5. \A k \in 1..(n + 1) : k = n + 1 \/ k \in DOMAIN e
        BY <3>4
      <4>6. \A k \in DOMAIN e : d[k] = e[k] /\ d[k] # list[w]
        <5> TAKE k \in DOMAIN e
        <5>1. PICK j \in 1..(w - 1) : e[k] = list[j]
          BY <3>4
        <5>2. list[j] # list[w]
          BY <3>5, <4>2, <5>1 DEF Distinct
        <5> QED BY <3>4, <4>3, <5>1, <5>2
      <4> HIDE DEF n
      <4>7. Distinct(d)
        BY <3>4, <4>3, <4>5, <4>6 DEF Distinct
      <4>8. \A k \in DOMAIN d : d[k] # p /\ \E j \in 1..w : d[k] = list[j]
        <5> TAKE k \in DOMAIN d
        <5>1. CASE k = n + 1
          BY <3>1, <3>7, <4>3, <5>1
        <5>2. CASE k \in DOMAIN e
          BY <3>4, <3>5, <4>6, <5>2
        <5> QED BY <4>3, <4>5, <5>1, <5>2
      <4> QED BY <2>2, <4>1, <4>3, <4>4, <4>7, <4>8 DEF Leaves
    <3> QED BY <3>6, <3>7
  <2> QED BY <2>3, <2>4
<1> QED BY <1>2

(* So a file pushed on the list leads it, and no file is there twice.      *)
LEMMA PushKeepsList ==
  ASSUME NEW S, NEW list \in Seq(S), Distinct(list), NEW p \in S
  PROVE  LET l == mru_list_push(list, p)
         IN  l \in Seq(S) /\ Distinct(l) /\ Len(l) <= MruMax /\ l # <<>> /\ Head(l) = p
<1> DEFINE others[i \in 0 .. Len(list)] ==
             IF i = 0 THEN <<>>
             ELSE IF list[i] = p THEN others[i - 1] ELSE Append(others[i - 1], list[i])
           l == <<p>> \o others[Len(list)]
           n == IF Len(l) > MruMax THEN MruMax ELSE Len(l)
<1>1. mru_list_push(list, p) = SubSeq(l, 1, n)
  BY DEF mru_list_push
<1>2. Len(list) \in Nat
  OBVIOUS
<1>3. others = [i \in 0 .. Len(list) |->
                  IF i = 0 THEN <<>>
                  ELSE IF list[i] = p THEN others[i - 1] ELSE Append(others[i - 1], list[i])]
  <2>1. PICK g : Erases(g, list, p, Len(list))
    BY <1>2, ErasureExists
  <2>2. \E f : f = [i \in 0 .. Len(list) |->
                      IF i = 0 THEN <<>>
                      ELSE IF list[i] = p THEN f[i - 1] ELSE Append(f[i - 1], list[i])]
    BY <2>1 DEF Erases
  <2> QED BY <2>2
<1> HIDE DEF others
<1>4. \A i \in 0..Len(list) : Left(others, list, p, i)
  BY <1>3 DEF Left
<1>5. Leaves(others[Len(list)], list, p, Len(list), S)
  <2>1. \A i \in 0..Len(list) : Leaves(others[i], list, p, i, S)
    BY <1>4, ErasureLeaves
  <2> QED BY <1>2, <2>1
<1> DEFINE e == others[Len(list)]
<1>6. e \in Seq(S) /\ Distinct(e) /\ \A k \in DOMAIN e : e[k] # p
  BY <1>5 DEF Leaves
<1> HIDE DEF e
<1>7. /\ l \in Seq(S) /\ Len(l) = 1 + Len(e) /\ l[1] = p
      /\ \A k \in 1..Len(e) : l[1 + k] = e[k]
  <2>1. <<p>> \in Seq(S) /\ Len(<<p>>) = 1 /\ <<p>>[1] = p
    OBVIOUS
  <2> QED BY <1>6, <2>1, ConcatProperties DEF e
<1> HIDE DEF l
<1>8. Len(e) \in Nat /\ DOMAIN e = 1..Len(e) /\ DOMAIN l = 1..Len(l)
  BY <1>6, <1>7
<1>9. MruMax \in Nat \ {0}
  BY ShellAssumption
<1>10. n \in 1..Len(l) /\ n <= MruMax
  BY <1>7, <1>8, <1>9
<1>11. Distinct(l)
  <2> SUFFICES ASSUME NEW i \in 1..Len(l), NEW j \in 1..Len(l), l[i] = l[j] PROVE i = j
    BY <1>8 DEF Distinct
  <2>1. ASSUME NEW k \in 1..Len(l), k # 1 PROVE k - 1 \in DOMAIN e /\ l[k] = e[k - 1]
    <3>1. k - 1 \in 1..Len(e) /\ 1 + (k - 1) = k
      BY <1>7, <1>8, <2>1
    <3> QED BY <1>7, <1>8, <3>1
  <2>2. CASE i # 1 /\ j # 1
    <3>1. i - 1 = j - 1
      BY <1>6, <2>1, <2>2 DEF Distinct
    <3> QED BY <1>8, <3>1
  <2>3. CASE i = 1 \/ j = 1
    BY <1>6, <1>7, <2>1, <2>3
  <2> QED BY <2>2, <2>3
<1> HIDE DEF n
<1> DEFINE q == SubSeq(l, 1, n)
<1>12. q \in Seq(S) /\ Len(q) = n /\ \A k \in 1..n : q[k] = l[k]
  <2>1. n \in Nat /\ n <= Len(l) /\ n >= 1 /\ Len(l) \in Nat
    BY <1>7, <1>8, <1>10
  <2> QED BY <1>7, <2>1
<1> HIDE DEF q
<1>13. DOMAIN q = 1..n /\ 1 \in 1..n /\ 1..n \subseteq 1..Len(l)
  BY <1>7, <1>8, <1>10, <1>12
<1>14. Distinct(q)
  BY <1>8, <1>11, <1>12, <1>13 DEF Distinct
<1>15. q # <<>> /\ Head(q) = p
  BY <1>7, <1>12, <1>13
<1> QED BY <1>1, <1>10, <1>12, <1>14, <1>15 DEF q

-----------------------------------------------------------------------------
(* Who threw away an altered disc unasked.                                 *)
Excused(u) ==
  /\ {"lost", "altered", "popup", "ask", "about", "menu", "options", "paused", "thumb", "playing"} \subseteq DOMAIN u
  /\ u.lost \subseteq {"pause menu", "cartridge"}

(* Nothing but Unasked writes the list, and Unasked only for the two.      *)
LEMMA HelpersKeepExcused ==
  ASSUME NEW u, Excused(u)
  PROVE  /\ Excused(Settle(u)) /\ Excused(cpc_pause(u)) /\ Excused(cpc_resume(u))
         /\ Excused(imgui_open_menu(u)) /\ Excused(imgui_close_menu(u)) /\ Excused(emulator_reset(u))
         /\ Excused(invalidate_slot_thumb(u)) /\ Excused(video_shutdown(u)) /\ Excused(Closed(u))
         /\ \A err \in BOOLEAN : Excused(koncpc_rebuild_machine(u, err))
         /\ \A ok \in BOOLEAN : Excused(save_state_slot(u, ok))
         /\ \A who \in {"pause menu", "cartridge"} : Excused(Unasked(u, who))
         /\ (~u.altered => \A who : Unasked(u, who) = u)
         /\ Excused(RequestReset(u))
<1>1. ASSUME NEW w, Excused(w) PROVE /\ Excused(cpc_pause(w)) /\ Excused(cpc_resume(w))
                                     /\ Excused(emulator_reset(w)) /\ Excused(Closed(w))
                                     /\ Excused(invalidate_slot_thumb(w))
  BY <1>1 DEF cpc_pause, cpc_resume, emulator_reset, Closed, invalidate_slot_thumb, Excused
<1>2. ASSUME NEW w, Excused(w) PROVE Excused(SettleAbout(w))
  BY <1>2 DEF SettleAbout, Excused
<1>3. Excused(Settle(u))
  <2> DEFINE w == IF u.ask = "none" THEN u ELSE [u EXCEPT !.ask = "none", !.popup = u.ask]
  <2>1. Excused(w)
    BY DEF Excused
  <2>2. Settle(u) = SettleAbout(w)
    BY DEF Settle
  <2> HIDE DEF w
  <2> QED BY <1>2, <2>1, <2>2
<1>4. Excused(imgui_open_menu(u))
  <2>1. Excused([u EXCEPT !.menu = TRUE])
    BY DEF Excused
  <2> QED BY <1>1, <2>1 DEF imgui_open_menu
<1>5. Excused(imgui_close_menu(u))
  <2>1. Excused([u EXCEPT !.menu = FALSE])
    BY DEF Excused
  <2> QED BY <1>1, <2>1 DEF imgui_close_menu
<1>6. Excused(video_shutdown(u))
  BY DEF video_shutdown, Excused
<1>7. ASSUME NEW err \in BOOLEAN PROVE Excused(koncpc_rebuild_machine(u, err))
  <2> DEFINE w == emulator_reset(u)
             v == w.paused \/ err
  <2>1. Excused(w)
    BY <1>1
  <2>2. koncpc_rebuild_machine(u, err) = [w EXCEPT !.paused = v]
    BY DEF koncpc_rebuild_machine
  <2> HIDE DEF v, w
  <2> QED BY <2>1, <2>2 DEF Excused
<1>8. ASSUME NEW ok \in BOOLEAN PROVE Excused(save_state_slot(u, ok))
  <2>1. Excused([u EXCEPT !.slot = TRUE])
    BY DEF Excused
  <2> QED BY <1>1, <2>1 DEF save_state_slot
<1>9. ASSUME NEW who \in {"pause menu", "cartridge"} PROVE Excused(Unasked(u, who))
  BY DEF Unasked, Excused
<1>10. ~u.altered => \A who : Unasked(u, who) = u
  BY DEF Unasked, driveAltered
<1>11. Excused(RequestReset(u))
  <2>1. Excused([u EXCEPT !.ask = "reset"])
    BY DEF Excused
  <2>2. ~driveAltered(u) => Excused(emulator_reset(Unasked(u, "reset")))
    BY <1>1, <1>10 DEF driveAltered
  <2> QED BY <2>1, <2>2 DEF RequestReset
<1> QED BY <1>1, <1>3, <1>4, <1>5, <1>6, <1>7, <1>8, <1>9, <1>10, <1>11

(* A click on the window loses nothing unasked.                            *)
LEMMA ShellKeepsExcused ==
  ASSUME Excused(ui), ShellNext \/ guest_writes \/ m4_popup \/ popup_cancel \/ layout_button
  PROVE  Excused(ui') /\ UNCHANGED <<dlg, tray, toast, work, pal>>
<1>1. ASSUME NEW u, Excused(u), OnUi(u)
      PROVE  Excused(ui') /\ UNCHANGED <<dlg, tray, toast, work, pal>>
  BY <1>1, HelpersKeepExcused DEF OnUi
<1>2. ASSUME NEW v, NEW u, Excused(u)
      PROVE  /\ Excused([u EXCEPT !.ask = v]) /\ Excused([u EXCEPT !.about = v])
             /\ Excused([u EXCEPT !.thumb = v]) /\ Excused([u EXCEPT !.options = v])
             /\ Excused([u EXCEPT !.popup = v]) /\ Excused([u EXCEPT !.menu = v])
             /\ Excused([u EXCEPT !.quit = v]) /\ Excused([u EXCEPT !.palette = v])
             /\ Excused([u EXCEPT !.dropdown = v]) /\ Excused([u EXCEPT !.altered = v])
  BY <1>2 DEF Excused
<1>3. CASE MenuResume \/ MenuLoadState
  BY <1>1, <1>3, HelpersKeepExcused DEF MenuResume, MenuLoadState
<1>4. CASE MenuReset
  <2>1. Excused(imgui_close_menu(emulator_reset(Unasked(ui, "pause menu"))))
    BY HelpersKeepExcused
  <2> QED BY <1>1, <1>4, <2>1 DEF MenuReset
<1>5. CASE MenuQuit \/ MenuAbout \/ MenuThumb \/ koncpc_show_about_dialog \/ koncpc_open_settings_tab
             \/ speed_test
  BY <1>1, <1>2, <1>5 DEF MenuQuit, MenuAbout, MenuThumb, koncpc_show_about_dialog,
                          koncpc_open_settings_tab, speed_test
<1>6. CASE MenuSaveState
  BY <1>1, <1>6, HelpersKeepExcused DEF MenuSaveState
<1>7. CASE TopbarPause
  <2> DEFINE r == cpc_resume(ui)
  <2>1. Excused(r)
    BY HelpersKeepExcused
  <2> HIDE DEF r
  <2>2. Excused([r EXCEPT !.menu = FALSE])
    BY <1>2, <2>1
  <2> QED BY <1>1, <1>7, <2>2, HelpersKeepExcused DEF TopbarPause, r
<1>8. CASE close_options \/ close_options_hidden
  <2>1. Excused([ui EXCEPT !.options = FALSE])
    BY <1>2
  <2> QED BY <1>1, <1>8, <2>1, HelpersKeepExcused DEF close_options, close_options_hidden
<1>9. CASE MenubarReset \/ KeyDown
  BY <1>1, <1>9, HelpersKeepExcused DEF MenubarReset, KeyDown
<1>10. CASE MenubarEject
  BY <1>1, <1>2, <1>10 DEF MenubarEject
<1>11. CASE cleanExit
  <2>1. CASE ~driveAltered(ui) /\ OnUi([Unasked(ui, "exit") EXCEPT !.quit = TRUE])
    <3>1. Unasked(ui, "exit") = ui
      BY <2>1, HelpersKeepExcused DEF driveAltered
    <3> QED BY <1>1, <1>2, <2>1, <3>1
  <2>2. CASE \E yes \in BOOLEAN : OnUi([ui EXCEPT !.quit = yes])
    BY <1>1, <1>2, <2>2
  <2> QED BY <1>11, <2>1, <2>2 DEF cleanExit
<1>12. CASE quit_popup_cancel \/ reset_popup \/ popup_cancel
  <2>1. Excused(Closed(ui)) /\ Excused(cpc_resume(Closed(ui))) /\ Excused(Closed(emulator_reset(ui)))
    BY HelpersKeepExcused
  <2> QED BY <1>1, <1>12, <2>1 DEF quit_popup_cancel, reset_popup, popup_cancel
<1>13. CASE quit_popup_quit
  <2> DEFINE c == Closed(ui)
  <2>1. Excused(c)
    BY HelpersKeepExcused
  <2> HIDE DEF c
  <2>2. Excused([c EXCEPT !.quit = TRUE])
    BY <1>2, <2>1
  <2> QED BY <1>1, <1>13, <2>2 DEF quit_popup_quit, c
<1>14. CASE m4_popup
  <2>1. \A err \in BOOLEAN : Excused(Closed(koncpc_rebuild_machine(ui, err)))
    BY HelpersKeepExcused
  <2> QED BY <1>1, <1>14, <2>1 DEF m4_popup
<1>15. CASE FocusLost \/ FocusGained \/ koncpc_toggle_fullscreen \/ video_reinit \/ other_pause
  <2>1. Excused(video_shutdown(invalidate_slot_thumb(ui)))
    BY HelpersKeepExcused
  <2> QED BY <1>1, <1>15, <2>1, HelpersKeepExcused
         DEF FocusLost, FocusGained, koncpc_toggle_fullscreen, video_reinit, other_pause
<1>16. CASE palette_key \/ palette_escape \/ layout_button \/ dropdown_click_away \/ guest_writes
  BY <1>1, <1>2, <1>16 DEF palette_key, palette_escape, layout_button, dropdown_click_away, guest_writes
<1> QED BY <1>3, <1>4, <1>5, <1>6, <1>7, <1>8, <1>9, <1>10, <1>11, <1>12, <1>13, <1>14, <1>15, <1>16
       DEF ShellNext

-----------------------------------------------------------------------------
(* The tray: what is in the drive and the deck, and the recent files.      *)
Paths == UiPaths \cup DialogPaths

DlgTyped ==
  /\ {"shown", "pending", "path", "writing", "slot"} \subseteq DOMAIN dlg
  /\ dlg.shown \subseteq DialogActions /\ dlg.pending \in DialogActions \cup {NoPath}
  /\ dlg.path \in Paths \cup {NoPath} /\ dlg.writing \in Paths \cup {NoPath}

TrayOf(t) ==
  /\ {"name", "disc", "tape", "block", "mru", "last", "rom"} \subseteq DOMAIN t
  /\ t.mru \in Seq(Paths) /\ Distinct(t.mru) /\ Len(t.mru) <= MruMax
  /\ t.last # NoPath => t.mru # <<>> /\ Head(t.mru) = t.last
  /\ t.block \in 0 .. TapeBlocks - 1

(* A file that was loaded leads the list.                                  *)
LEMMA PushKeepsTray ==
  ASSUME NEW t, TrayOf(t), NEW p \in Paths PROVE TrayOf(mru_push(t, p))
<1> DEFINE l == mru_list_push(t.mru, p)
           w == mru_push(t, p)
<1>1. l \in Seq(Paths) /\ Distinct(l) /\ Len(l) <= MruMax /\ l # <<>> /\ Head(l) = p
  BY PushKeepsList DEF TrayOf
<1> HIDE DEF l
<1>2. DOMAIN w = DOMAIN t /\ w.mru = l /\ w.last = p /\ w.block = t.block
  BY DEF mru_push, l, TrayOf
<1> QED BY <1>1, <1>2 DEF TrayOf

(* A file that was not loaded leaves the list.                             *)
LEMMA LoadsKeepTray ==
  ASSUME NEW t, TrayOf(t), NEW p \in Paths \cup {NoPath}, NEW ok \in BOOLEAN
  PROVE  /\ TrayOf(load_disk(t, p, ok)) /\ TrayOf(load_tape(t, p, ok))
         /\ TrayOf(load_cartridge(t, p, ok)) /\ TrayOf(create_new_disk(t, p, ok))
<1>1. ASSUME NEW k \in BOOLEAN PROVE TrayOf(load_disk(t, p, k))
  <2> DEFINE n == [t EXCEPT !.name = p]
             d == [n EXCEPT !.disc = p]
  <2>1. TrayOf(n)
    BY DEF TrayOf
  <2>2. TrayOf(d)
    BY <2>1 DEF TrayOf
  <2>3. load_disk(t, p, k) = IF k /\ p # NoPath THEN mru_push(d, p) ELSE n
    BY DEF load_disk
  <2> HIDE DEF n, d
  <2>4. p # NoPath => TrayOf(mru_push(d, p))
    BY <2>2, PushKeepsTray
  <2> QED BY <2>1, <2>3, <2>4
<1>2. TrayOf(load_tape(t, p, ok))
  <2> DEFINE d == [t EXCEPT !.tape = p, !.block = 0]
  <2>1. TrayOf(d)
    BY ShellAssumption DEF TrayOf
  <2>2. load_tape(t, p, ok) = IF ok /\ p # NoPath THEN mru_push(d, p) ELSE t
    BY DEF load_tape
  <2> HIDE DEF d
  <2>3. p # NoPath => TrayOf(mru_push(d, p))
    BY <2>1, PushKeepsTray
  <2> QED BY <2>2, <2>3
<1>3. TrayOf(load_cartridge(t, p, ok))
  BY PushKeepsTray DEF load_cartridge
<1>4. TrayOf(create_new_disk(t, p, ok))
  BY <1>1 DEF create_new_disk
<1> QED BY <1>1, <1>2, <1>3, <1>4

(* Dialogs: an answer is one of the files offered, or none.                *)
LEMMA DialogKeepsTray ==
  ASSUME Excused(ui), DlgTyped, TrayOf(tray), DialogNext
  PROVE  Excused(ui') /\ DlgTyped' /\ TrayOf(tray') /\ UNCHANGED <<toast, work, pal>>
<1>1. CASE koncpc_request_file_dialog
  <2>1. /\ DOMAIN dlg' = DOMAIN dlg /\ dlg'.path = dlg.path /\ dlg'.writing = dlg.writing
        /\ dlg'.shown \subseteq DialogActions /\ dlg'.pending = dlg.pending
        /\ UNCHANGED <<ui, tray, toast, work, pal>>
    BY <1>1 DEF koncpc_request_file_dialog, DlgTyped
  <2> QED BY <2>1 DEF DlgTyped
<1>2. CASE file_dialog_cancel
  <2>1. /\ DOMAIN dlg' = DOMAIN dlg /\ dlg'.path = dlg.path /\ dlg'.writing = dlg.writing
        /\ dlg'.shown \subseteq DialogActions /\ dlg'.pending = dlg.pending
        /\ UNCHANGED <<ui, tray, toast, work, pal>>
    BY <1>2 DEF file_dialog_cancel, DlgTyped
  <2> QED BY <2>1 DEF DlgTyped
<1>3. CASE file_dialog_callback
  <2>1. /\ DOMAIN dlg' = DOMAIN dlg /\ dlg'.path = dlg.path /\ dlg'.writing \in DialogPaths
        /\ dlg'.shown \subseteq DialogActions /\ dlg'.pending \in DialogActions
        /\ UNCHANGED <<ui, tray, toast, work, pal>>
    BY <1>3 DEF file_dialog_callback, DlgTyped
  <2> QED BY <2>1 DEF DlgTyped, Paths
<1>4. CASE file_dialog_result
  <2>1. /\ DOMAIN dlg' = DOMAIN dlg /\ dlg'.path = dlg.writing /\ dlg'.writing = NoPath
        /\ dlg'.shown = dlg.shown /\ dlg'.pending = dlg.pending
        /\ UNCHANGED <<ui, tray, toast, work, pal>>
    BY <1>4 DEF file_dialog_result, DlgTyped
  <2> QED BY <2>1 DEF DlgTyped
<1>5. CASE process_pending_dialog
  <2> DEFINE a == dlg.pending
             load_rom(t, slot, p, ok) ==
               IF slot \notin RomSlots THEN t
               ELSE [t EXCEPT !.rom = [@ EXCEPT ![slot] = IF ok THEN p ELSE NoPath]]
             DialogTray(p, ok) ==
               CASE a = "LoadDiskA" -> load_disk(tray, p, ok)
                 [] a = "LoadTape" -> load_tape(tray, p, ok)
                 [] a = "LoadCartridge" -> load_cartridge(tray, p, ok)
                 [] a = "LoadROM" -> load_rom(tray, dlg.slot, p, ok)
                 [] a = "NewDiskA" -> create_new_disk(tray, p, ok)
                 [] a \in {"SaveDiskA", "SelectM4SDFolder"} -> tray
             DialogUi(err) ==
               CASE a = "LoadCartridge" -> emulator_reset(Unasked(ui, "cartridge"))
                 [] a = "SelectM4SDFolder" /\ ui.m4 ->
                      IF driveAltered(ui) THEN [ui EXCEPT !.ask = "m4"]
                      ELSE koncpc_rebuild_machine(Unasked(ui, "m4"), err)
                 [] OTHER -> ui
  <2>1. PICK ok \in BOOLEAN :
          tray' = DialogTray(dlg.path, ok) /\ ui' = Settle(imgui_close_menu(DialogUi(~ok)))
    BY <1>5 DEF process_pending_dialog
  <2>2. /\ DOMAIN dlg' = DOMAIN dlg /\ dlg'.path = NoPath /\ dlg'.writing = dlg.writing
        /\ dlg'.shown = dlg.shown /\ dlg'.pending = NoPath
        /\ UNCHANGED <<toast, work, pal>>
    BY <1>5 DEF process_pending_dialog, DlgTyped
  <2>3. a \in DialogActions
    BY <1>5 DEF process_pending_dialog, DlgTyped
  <2>4. TrayOf(load_rom(tray, dlg.slot, dlg.path, ok))
    BY DEF TrayOf
  <2> HIDE DEF a, load_rom
  <2>5. TrayOf(tray')
    BY <2>1, <2>3, <2>4, LoadsKeepTray DEF DlgTyped, DialogActions
  <2>6. Excused(DialogUi(~ok))
    <3>1. CASE a = "LoadCartridge"
      BY <3>1, HelpersKeepExcused
    <3>2. CASE a = "SelectM4SDFolder" /\ ui.m4 /\ driveAltered(ui)
      BY <3>2 DEF Excused
    <3>3. CASE a = "SelectM4SDFolder" /\ ui.m4 /\ ~driveAltered(ui)
      <4>1. Unasked(ui, "m4") = ui
        BY <3>3, HelpersKeepExcused DEF driveAltered
      <4> QED BY <3>3, <4>1, HelpersKeepExcused
    <3>4. CASE a # "LoadCartridge" /\ ~(a = "SelectM4SDFolder" /\ ui.m4)
      BY <3>4
    <3> QED BY <3>1, <3>2, <3>3, <3>4
  <2> HIDE DEF DialogUi
  <2>7. Excused(ui')
    BY <2>1, <2>6, HelpersKeepExcused
  <2> QED BY <2>2, <2>5, <2>7 DEF DlgTyped
<1>6. CASE guest_writes \/ m4_popup \/ popup_cancel
  BY <1>6, ShellKeepsExcused DEF DlgTyped, TrayOf
<1> QED BY <1>1, <1>2, <1>3, <1>4, <1>5, <1>6 DEF DialogNext

(* The status bar, dropped files and the tape's keys.                      *)
LEMMA TrayKeepsTray ==
  ASSUME Excused(ui), DlgTyped, TrayOf(tray), TrayNext
  PROVE  Excused(ui') /\ DlgTyped' /\ TrayOf(tray') /\ UNCHANGED <<toast, work, pal>>
<1>1. CASE drop_file
  <2>1. PICK p \in UiPaths, ok \in BOOLEAN :
          \/ tray' = load_disk(tray, p, ok) /\ UNCHANGED ui
          \/ tray' = load_tape(tray, p, ok) /\ UNCHANGED ui
          \/ /\ tray' = load_cartridge(tray, p, ok)
             /\ ui' = IF ok THEN emulator_reset(Unasked(ui, "cartridge")) ELSE ui
    BY <1>1 DEF drop_file
  <2>2. TrayOf(tray')
    BY <2>1, LoadsKeepTray DEF Paths
  <2>3. Excused(ui')
    BY <2>1, HelpersKeepExcused
  <2> QED BY <1>1, <2>2, <2>3 DEF drop_file, DlgTyped
<1>2. CASE open_recent
  <2>1. PICK i \in DOMAIN tray.mru, ok \in BOOLEAN : tray' = load_disk(tray, tray.mru[i], ok)
    BY <1>2 DEF open_recent
  <2>2. tray.mru[i] \in Paths
    BY DEF TrayOf
  <2> QED BY <1>2, <2>1, <2>2, LoadsKeepTray DEF open_recent, DlgTyped
<1>3. Excused(Closed(ui)) /\ \A a : Excused(Settle([ui EXCEPT !.ask = a]))
  <2>1. ASSUME NEW a PROVE Excused([ui EXCEPT !.ask = a])
    BY DEF Excused
  <2> QED BY <2>1, HelpersKeepExcused
<1>4. CASE clear_recent \/ eject_drive \/ eject_tape
  <2>1. ASSUME clear_recent PROVE TrayOf(tray')
    <3>1. /\ DOMAIN tray' = DOMAIN tray /\ tray'.mru = <<>> /\ tray'.last = NoPath
          /\ tray'.block = tray.block
      BY <2>1 DEF clear_recent, TrayOf
    <3>2. <<>> \in Seq(Paths) /\ Distinct(<<>>) /\ Len(<<>>) <= MruMax
      BY ShellAssumption DEF Distinct
    <3> QED BY <3>1, <3>2 DEF TrayOf
  <2>2. ASSUME eject_drive \/ eject_tape PROVE TrayOf(tray')
    <3>1. /\ DOMAIN tray' = DOMAIN tray /\ tray'.mru = tray.mru /\ tray'.last = tray.last
          /\ tray'.block \in {tray.block, 0}
      BY <2>2 DEF eject_drive, eject_tape, TrayOf
    <3> QED BY <3>1, ShellAssumption DEF TrayOf
  <2> QED BY <1>3, <1>4, <2>1, <2>2 DEF clear_recent, eject_drive, eject_tape, DlgTyped
<1>5. CASE ask_eject
  BY <1>3, <1>5 DEF ask_eject, DlgTyped
<1>6. CASE tape_transport
  <2>1. Excused(ui')
    BY <1>6 DEF tape_transport, Excused
  <2>2. TrayOf(tray')
    <3>1. CASE UNCHANGED tray
      BY <3>1
    <3>2. CASE \E d \in {-1, 1} : tape_step(d) /\ tray' = [tray EXCEPT !.block = @ + d]
      <4>1. PICK d \in {-1, 1} : tape_step(d) /\ tray' = [tray EXCEPT !.block = @ + d]
        BY <3>2
      <4>2. /\ DOMAIN tray' = DOMAIN tray /\ tray'.mru = tray.mru /\ tray'.last = tray.last
            /\ tray'.block = tray.block + d /\ tray.block + d \in 0 .. TapeBlocks - 1
        BY <4>1 DEF tape_step, TrayOf
      <4> QED BY <4>2 DEF TrayOf
    <3> QED BY <1>6, <3>1, <3>2 DEF tape_transport
  <2> QED BY <1>6, <2>1, <2>2 DEF tape_transport, DlgTyped
<1>7. CASE popup_cancel
  BY <1>7, ShellKeepsExcused DEF DlgTyped, TrayOf
<1> QED BY <1>1, <1>2, <1>4, <1>5, <1>6, <1>7 DEF TrayNext

-----------------------------------------------------------------------------
(* The messages on screen end with the last one sent.                      *)
ToastInv ==
  /\ {"queue", "said"} \subseteq DOMAIN toast
  /\ toast.queue \in Seq({"info", "success", "error"})
  /\ Len(toast.queue) <= MaxToasts
  /\ toast.said # "none" => toast.queue # <<>> /\ toast.queue[Len(toast.queue)] = toast.said

(* Sending ends the queue with what was said, expiring never reorders it.  *)
LEMMA NextKeepsToasts ==
  ASSUME ToastInv, ToastNext PROVE ToastInv' /\ UNCHANGED <<ui, dlg, tray, work, pal>>
<1> DEFINE q == toast.queue
           L == {"info", "success", "error"}
<1>1. q \in Seq(L) /\ Len(q) \in Nat /\ Len(q) <= MaxToasts /\ DOMAIN q = 1..Len(q)
  BY DEF ToastInv
<1>2. MaxToasts \in Nat \ {0}
  BY ShellAssumption
<1>3. CASE toast_sent
  <2>1. PICK l \in L : toast' = [queue |-> imgui_toast(q, l), said |-> l]
    BY <1>3 DEF toast_sent
  <2> HIDE DEF q
  <2> DEFINE r == IF Len(q) >= MaxToasts THEN Tail(q) ELSE q
             s == Append(r, l)
  <2>2. r \in Seq(L) /\ Len(r) + 1 <= MaxToasts /\ Len(r) \in Nat
    <3>1. CASE Len(q) >= MaxToasts
      <4>1. q # <<>>
        BY <1>1, <1>2, <3>1
      <4>2. Tail(q) \in Seq(L) /\ Len(Tail(q)) = Len(q) - 1
        BY <1>1, <4>1
      <4> QED BY <1>1, <1>2, <3>1, <4>2
    <3>2. CASE ~(Len(q) >= MaxToasts)
      BY <1>1, <1>2, <3>2
    <3> QED BY <3>1, <3>2
  <2> HIDE DEF r
  <2>3. s \in Seq(L) /\ Len(s) = Len(r) + 1 /\ s[Len(r) + 1] = l
    BY <2>2
  <2>4. s # <<>>
    BY <2>2, <2>3
  <2>5. toast'.queue = s /\ toast'.said = l /\ DOMAIN toast' = {"queue", "said"}
    BY <2>1 DEF imgui_toast, s, r
  <2> HIDE DEF s
  <2> QED BY <1>3, <2>2, <2>3, <2>4, <2>5 DEF ToastInv, toast_sent
<1>4. CASE toast_expires
  <2>1. PICK i \in DOMAIN q :
          toast' = [queue |-> RemoveAt(q, i), said |-> IF i = Len(q) THEN "none" ELSE toast.said]
    BY <1>4 DEF toast_expires
  <2>2. toast.said # "none" => q[Len(q)] = toast.said
    BY DEF ToastInv
  <2> HIDE DEF q
  <2> DEFINE a == SubSeq(q, 1, i - 1)
             b == SubSeq(q, i + 1, Len(q))
             s == a \o b
  <2>3. i \in 1..Len(q)
    BY <1>1
  <2>4. a \in Seq(L) /\ Len(a) = i - 1
    BY <1>1, <2>3, SubSeqProperties
  <2>5. b \in Seq(L) /\ Len(b) = Len(q) - i /\ \A k \in 1..(Len(q) - i) : b[k] = q[i + k]
    <3>1. CASE i = Len(q)
      <4>1. b = <<>>
        BY <1>1, <3>1
      <4> QED BY <1>1, <3>1, <4>1
    <3>2. CASE i # Len(q)
      <4>1. i + 1 \in 1..Len(q) + 1 /\ Len(q) \in (i + 1) - 1 .. Len(q)
        BY <1>1, <2>3
      <4> QED BY <1>1, <2>3, <3>2, SubSeqProperties
    <3> QED BY <3>1, <3>2
  <2> HIDE DEF a, b
  <2>6. s \in Seq(L) /\ Len(s) = Len(q) - 1 /\ \A k \in 1..Len(b) : s[Len(a) + k] = b[k]
    <3>1. Len(s) = Len(a) + Len(b)
      BY <2>4, <2>5, ConcatProperties
    <3>2. (i - 1) + (Len(q) - i) = Len(q) - 1
      BY <1>1, <2>3
    <3>3. s \in Seq(L) /\ Len(a) \in Nat /\ Len(b) \in Nat
      BY <2>4, <2>5, ConcatProperties
    <3>4. \A k \in 1..Len(b) : s[Len(a) + k] = b[k]
      BY <2>4, <2>5
    <3> HIDE DEF s
    <3> QED BY <2>4, <2>5, <3>1, <3>2, <3>3, <3>4
  <2>7. /\ toast'.queue = s /\ toast'.said = (IF i = Len(q) THEN "none" ELSE toast.said)
        /\ DOMAIN toast' = {"queue", "said"}
    BY <2>1 DEF RemoveAt, s, a, b
  <2> HIDE DEF s
  <2>8. CASE i = Len(q)
    <3>1. toast'.said = "none" /\ Len(s) <= MaxToasts
      BY <1>1, <1>2, <2>6, <2>7, <2>8
    <3> QED BY <1>4, <2>6, <2>7, <3>1 DEF ToastInv, toast_expires
  <2>9. CASE i # Len(q)
    <3> DEFINE k == Len(q) - i
    <3>1. k \in 1..Len(b) /\ Len(a) + k = Len(s) /\ i + k = Len(q) /\ Len(s) <= MaxToasts /\ Len(s) # 0
          /\ k \in 1..(Len(q) - i)
      <4>1. /\ Len(q) \in Nat /\ i \in 1..Len(q) /\ i # Len(q) /\ Len(q) <= MaxToasts
            /\ MaxToasts \in Nat /\ Len(a) = i - 1 /\ Len(b) = Len(q) - i /\ Len(s) = Len(q) - 1
        BY <1>1, <1>2, <2>3, <2>4, <2>5, <2>6, <2>9
      <4> QED BY ONLY <4>1
    <3> HIDE DEF k
    <3>2. s[Len(s)] = q[Len(q)]
      <4>1. s[Len(a) + k] = b[k] /\ b[k] = q[i + k]
        BY <2>5, <2>6, <3>1
      <4> QED BY <3>1, <4>1
    <3>3. s # <<>>
      BY <3>1
    <3>4. toast'.said # "none" => toast'.queue[Len(toast'.queue)] = toast'.said
      BY <2>2, <2>7, <2>9, <3>2
    <3> QED BY <1>4, <2>6, <2>7, <3>1, <3>3, <3>4 DEF ToastInv, toast_expires
  <2> QED BY <2>8, <2>9
<1> QED BY <1>3, <1>4 DEF ToastNext

-----------------------------------------------------------------------------
(* The dock workspace: every layout is a mode, a flag and windows of the   *)
(* debugger, so closing those and opening the saved ones leaves the saved. *)
Layouts == [docked : BOOLEAN, devtools : BOOLEAN, wins : SUBSET DevWindows]

WorkOf(w) ==
  /\ {"docked", "initial", "devtools", "wins", "files", "cache", "dirty", "last"} = DOMAIN w
  /\ w.docked \in BOOLEAN /\ w.devtools \in BOOLEAN /\ w.wins \subseteq DevWindows
  /\ w.dirty \in BOOLEAN
  /\ \A n \in DOMAIN w.files : w.files[n] \in Layouts
  /\ ~w.dirty => w.cache = DOMAIN w.files

WorkInv == WorkOf(work) /\ LayoutsRight

(* What is saved is a layout, and a preset's windows are windows.          *)
LEMMA SavedIsLayout ==
  ASSUME NEW w, WorkOf(w)
  PROVE  /\ Saved(w) \in Layouts
         /\ \A p \in DOMAIN Presets : Presets[p] \subseteq DevWindows
<1>1. Saved(w) \in Layouts
  BY DEF Saved, Layouts, WorkOf
<1>2. \A p \in DOMAIN Presets : Presets[p] \subseteq DevWindows
  BY DEF DevWindows
<1> QED BY <1>1, <1>2

(* A step that forgets the layout loaded last and leaves the files alone.  *)
LEMMA WindowsChange ==
  ASSUME WorkOf(work), WorkOf(work'), work'.last = NoPath PROVE WorkInv'
  BY DEF WorkInv, LayoutsRight, WorkOf

(* Saving, deleting and loading a layout keep files, cache and windows so. *)
LEMMA NextKeepsWork ==
  ASSUME WorkInv, Excused(ui), WorkNext
  PROVE  WorkInv' /\ Excused(ui') /\ UNCHANGED <<dlg, tray, toast, pal>>
<1>1. WorkOf(work) /\ LayoutsRight
  BY DEF WorkInv
<1>2. ASSUME NEW w, WorkOf(w) PROVE WorkOf([w EXCEPT !.last = NoPath]) /\ [w EXCEPT !.last = NoPath].last = NoPath
  BY <1>2 DEF WorkOf
<1>3. ASSUME NEW w, WorkOf(w), OnWork([w EXCEPT !.last = NoPath])
      PROVE  WorkInv' /\ UNCHANGED <<ui, dlg, tray, toast, pal>>
  BY <1>1, <1>2, <1>3, WindowsChange DEF OnWork
<1>4. ASSUME NEW w, WorkOf(w), NEW S \in SUBSET DevWindows
      PROVE  /\ WorkOf(ensure_window_open(w, S)) /\ WorkOf(ensure_window_closed(w, S))
             /\ WorkOf([w EXCEPT !.docked = TRUE]) /\ WorkOf([w EXCEPT !.docked = FALSE])
             /\ WorkOf([w EXCEPT !.initial = TRUE]) /\ WorkOf([w EXCEPT !.initial = FALSE])
             /\ WorkOf([w EXCEPT !.devtools = TRUE]) /\ WorkOf([w EXCEPT !.devtools = FALSE])
             /\ WorkOf([w EXCEPT !.wins = S])
  BY <1>4 DEF WorkOf, ensure_window_open, ensure_window_closed
<1>5. ASSUME NEW p \in DOMAIN Presets PROVE WorkOf(workspace_apply_preset(work, p))
  <2> DEFINE w == ensure_window_open(work, Presets[p])
  <2>1. WorkOf(w)
    BY <1>1, <1>4, SavedIsLayout
  <2> HIDE DEF w
  <2>2. WorkOf([w EXCEPT !.devtools = TRUE])
    BY <2>1, <1>4
  <2> QED BY <2>2 DEF workspace_apply_preset, w
<1>6. CASE choose_docked
  <2> DEFINE a == [work EXCEPT !.docked = TRUE]
             b == [a EXCEPT !.initial = TRUE]
  <2>1. WorkOf(a)
    BY <1>1, <1>4
  <2>2. [work EXCEPT !.docked = TRUE, !.initial = TRUE, !.last = NoPath] = [b EXCEPT !.last = NoPath]
    BY DEF WorkInv, WorkOf
  <2> HIDE DEF a
  <2>3. WorkOf(b)
    BY <2>1, <1>4
  <2> HIDE DEF b
  <2> QED BY <1>3, <1>6, <2>2, <2>3 DEF choose_docked, OnWork
<1>7. CASE choose_classic \/ workspace_render_cpc_screen
  <2> DEFINE a == [work EXCEPT !.docked = FALSE]
  <2>1. WorkOf(a)
    BY <1>1, <1>4
  <2>2. [work EXCEPT !.docked = FALSE, !.last = NoPath] = [a EXCEPT !.last = NoPath]
    BY DEF WorkInv, WorkOf
  <2> HIDE DEF a
  <2> QED BY <1>3, <1>7, <2>1, <2>2 DEF choose_classic, workspace_render_cpc_screen, OnWork
<1>8. CASE workspace_render_dockspace
  <2> DEFINE a == workspace_apply_preset(work, "Debug")
             b == [a EXCEPT !.initial = FALSE]
  <2>1. WorkOf(a)
    <3>1. "Debug" \in DOMAIN Presets
      BY DEF Presets
    <3> QED BY <1>5, <3>1
  <2> HIDE DEF a
  <2>2. WorkOf(b) /\ [a EXCEPT !.initial = FALSE, !.last = NoPath] = [b EXCEPT !.last = NoPath]
    BY <2>1 DEF WorkOf
  <2> HIDE DEF b
  <2> QED BY <1>3, <1>8, <2>2 DEF workspace_render_dockspace, OnWork, a
<1>9. CASE choose_preset
  BY <1>3, <1>5, <1>9 DEF choose_preset
<1>10. CASE toggle_window
  <2>1. PICK k \in DevWindows :
          OnWork([work EXCEPT !.wins = IF k \in @ THEN @ \ {k} ELSE @ \cup {k}, !.last = NoPath])
    BY <1>10 DEF toggle_window
  <2> DEFINE S == IF k \in work.wins THEN work.wins \ {k} ELSE work.wins \cup {k}
             a == [work EXCEPT !.wins = S]
  <2>2. S \in SUBSET DevWindows
    BY DEF WorkInv, WorkOf
  <2>3. OnWork([work EXCEPT !.wins = S, !.last = NoPath])
    BY <2>1
  <2> HIDE DEF S
  <2>4. WorkOf(a) /\ [work EXCEPT !.wins = S, !.last = NoPath] = [a EXCEPT !.last = NoPath]
    BY <1>1, <2>2 DEF WorkOf
  <2> HIDE DEF a
  <2> QED BY <1>3, <2>3, <2>4
<1>11. CASE toggle_devtools
  <2> DEFINE S == IF work.devtools THEN {} ELSE work.wins
             d == ~work.devtools
             a == [work EXCEPT !.devtools = d]
             b == [a EXCEPT !.wins = S]
  <2>1. S \in SUBSET DevWindows /\ d \in BOOLEAN
    BY DEF WorkInv, WorkOf
  <2>2. OnWork([work EXCEPT !.devtools = d, !.wins = S, !.last = NoPath])
    BY <1>11 DEF toggle_devtools
  <2> HIDE DEF S, d
  <2>3. WorkOf(a)
    BY <1>1, <2>1 DEF WorkOf
  <2>4. [work EXCEPT !.devtools = d, !.wins = S, !.last = NoPath] = [b EXCEPT !.last = NoPath]
    BY DEF WorkInv, WorkOf
  <2> HIDE DEF a
  <2>5. WorkOf(b)
    BY <1>4, <2>1, <2>3
  <2> HIDE DEF b
  <2> QED BY <1>3, <2>2, <2>4, <2>5
<1>12. CASE save_layout_popup
  <2>1. PICK n \in LayoutNames : OnWork([workspace_save_layout(work, n) EXCEPT !.last = NoPath])
    BY <1>12 DEF save_layout_popup
  <2> DEFINE F == [m \in DOMAIN work.files \cup {n} |-> IF m = n THEN Saved(work) ELSE work.files[m]]
             a == [work EXCEPT !.files = F]
             b == [a EXCEPT !.dirty = TRUE]
  <2>2. \A m \in DOMAIN F : F[m] \in Layouts
    BY <1>1, SavedIsLayout DEF WorkOf
  <2>3. workspace_save_layout(work, n) = [work EXCEPT !.files = F, !.dirty = TRUE]
    BY DEF workspace_save_layout
  <2> HIDE DEF F
  <2>4. [work EXCEPT !.files = F, !.dirty = TRUE] = b
    BY DEF WorkInv, WorkOf
  <2>5. /\ DOMAIN b = DOMAIN work /\ b.docked = work.docked /\ b.devtools = work.devtools
        /\ b.wins = work.wins /\ b.dirty = TRUE /\ b.files = F
    BY <1>1 DEF WorkOf
  <2> HIDE DEF a, b
  <2>6. b.dirty \in BOOLEAN /\ b.dirty
    BY <2>5
  <2>7. WorkOf(b)
    BY <1>1, <2>2, <2>5, <2>6 DEF WorkOf
  <2> QED BY <1>3, <2>1, <2>3, <2>4, <2>7
<1>13. CASE delete_layout
  <2>1. PICK n \in work.cache : OnWork([workspace_delete_layout(work, n) EXCEPT !.last = NoPath])
    BY <1>13 DEF delete_layout
  <2> DEFINE F == [m \in DOMAIN work.files \ {n} |-> work.files[m]]
             b == [work EXCEPT !.files = F, !.dirty = TRUE]
  <2>2. \A m \in DOMAIN F : F[m] \in Layouts
    BY <1>1 DEF WorkOf
  <2>3. workspace_delete_layout(work, n) = b
    BY DEF workspace_delete_layout
  <2> HIDE DEF F
  <2>5. /\ DOMAIN b = DOMAIN work /\ b.docked = work.docked /\ b.devtools = work.devtools
        /\ b.wins = work.wins /\ b.dirty = TRUE /\ b.files = F
    BY <1>1 DEF WorkOf
  <2> HIDE DEF b
  <2>6. b.dirty \in BOOLEAN /\ b.dirty
    BY <2>5
  <2>7. WorkOf(b)
    BY <1>1, <2>2, <2>5, <2>6 DEF WorkOf
  <2> QED BY <1>3, <2>1, <2>3, <2>7
<1>14. CASE choose_layout
  <2>1. PICK n \in work.cache \cap DOMAIN work.files : OnWork([workspace_load_layout(work, n) EXCEPT !.last = n])
    BY <1>14 DEF choose_layout
  <2> DEFINE l == work.files[n]
             a == ensure_window_closed(work, DevWindows)
             b == ensure_window_open(a, l.wins)
             c == [b EXCEPT !.docked = l.docked, !.devtools = l.devtools]
  <2>2. l \in Layouts
    BY <1>1, <2>1 DEF WorkOf
  <2>3. workspace_load_layout(work, n) = c
    BY DEF workspace_load_layout
  <2>4. l.docked \in BOOLEAN /\ l.devtools \in BOOLEAN /\ l.wins \subseteq DevWindows
        /\ l = [docked |-> l.docked, devtools |-> l.devtools, wins |-> l.wins]
    BY <2>2 DEF Layouts
  <2> HIDE DEF l
  <2>5. /\ DOMAIN b = DOMAIN work /\ b.files = work.files /\ b.dirty = work.dirty
        /\ b.cache = work.cache /\ b.wins = l.wins
    BY <1>1, <2>4 DEF WorkOf, ensure_window_closed, ensure_window_open
  <2> HIDE DEF a, b
  <2>6. work' = [c EXCEPT !.last = n] /\ UNCHANGED <<ui, dlg, tray, toast, pal>>
    BY <2>1, <2>3 DEF OnWork
  <2>7. /\ DOMAIN work' = DOMAIN work /\ work'.files = work.files /\ work'.dirty = work.dirty
        /\ work'.cache = work.cache /\ work'.wins = l.wins /\ work'.last = n
        /\ work'.docked = l.docked /\ work'.devtools = l.devtools
    BY <1>1, <2>5, <2>6 DEF WorkOf
  <2> HIDE DEF c
  <2>8. Saved(work)' = l
    BY <2>4, <2>7 DEF Saved
  <2>9. WorkOf(work')
    BY <1>1, <2>4, <2>7 DEF WorkOf
  <2> QED BY <2>6, <2>7, <2>8, <2>9, <1>1 DEF WorkInv, LayoutsRight, WorkOf, l
<1>15. CASE workspace_list_layouts
  <2>1. /\ DOMAIN work' = DOMAIN work /\ work'.files = work.files /\ work'.dirty = FALSE
        /\ work'.cache = DOMAIN work.files /\ work'.wins = work.wins /\ work'.last = work.last
        /\ work'.docked = work.docked /\ work'.devtools = work.devtools
        /\ UNCHANGED <<ui, dlg, tray, toast, pal>>
    BY <1>1, <1>15 DEF workspace_list_layouts, OnWork, WorkOf
  <2>2. work'.dirty \in BOOLEAN
    BY <2>1
  <2> QED BY <1>1, <2>1, <2>2 DEF WorkInv, LayoutsRight, WorkOf, Saved
<1>16. CASE layout_button
  <2>1. UNCHANGED <<dlg, tray, toast, work, pal>> /\ Excused(ui')
    BY <1>16, ShellKeepsExcused
  <2> QED BY <2>1 DEF WorkInv, LayoutsRight, WorkOf, Saved
<1> QED BY <1>6, <1>7, <1>8, <1>9, <1>10, <1>11, <1>12, <1>13, <1>14, <1>15, <1>16 DEF WorkNext

-----------------------------------------------------------------------------
(* The palette's line is the history's it names.                           *)
PalInv ==
  /\ {"open", "mode", "sel", "hits", "hist", "out", "pos", "buf", "did", "asked"} \subseteq DOMAIN pal
  /\ pal.hist \in Seq(Nat) /\ pal.buf \in Nat
  /\ PaletteLine

(* Browsing names a line of the history, running one starts afresh below.  *)
LEMMA NextKeepsPalette ==
  ASSUME PalInv, PalNext PROVE PalInv' /\ UNCHANGED <<ui, dlg, tray, toast, work>>
<1>1. CASE palette_open
  BY <1>1 DEF palette_open, OnPal, PalInv, PaletteLine
<1>2. CASE filter_commands
  BY <1>2 DEF filter_commands, OnPal, PalInv, PaletteLine
<1>3. CASE palette_arrow
  <2>1. /\ DOMAIN pal' = DOMAIN pal /\ pal'.hist = pal.hist /\ pal'.pos = pal.pos /\ pal'.buf = pal.buf
    BY <1>3 DEF palette_arrow, OnPal, PalInv
  <2> QED BY <1>3, <2>1 DEF PalInv, PaletteLine, palette_arrow, OnPal
<1>4. CASE palette_enter
  <2>1. /\ DOMAIN pal' = DOMAIN pal /\ pal'.hist = pal.hist /\ pal'.pos = pal.pos /\ pal'.buf = pal.buf
    BY <1>4 DEF palette_enter, register_command, OnPal, PalInv
  <2> QED BY <1>4, <2>1 DEF PalInv, PaletteLine, palette_enter, OnPal
<1>5. CASE palette_mode \/ palette_close
  <2>1. /\ DOMAIN pal' = DOMAIN pal /\ pal'.hist = pal.hist /\ pal'.pos = pal.pos /\ pal'.buf = pal.buf
    BY <1>5 DEF palette_mode, palette_close, OnPal, PalInv
  <2> QED BY <1>5, <2>1 DEF PalInv, PaletteLine, palette_mode, palette_close, OnPal
<1>6. CASE palette_history
  <2> DEFINE h == pal.hist
             n == Len(h)
             back == IF pal.pos = 0 THEN n ELSE IF pal.pos > 1 THEN pal.pos - 1 ELSE 1
             fwd == IF pal.pos \in 1 .. n - 1 THEN pal.pos + 1 ELSE 0
  <2>1. \/ OnPal([pal EXCEPT !.pos = back, !.buf = h[back]])
        \/ OnPal([pal EXCEPT !.pos = fwd, !.buf = IF fwd = 0 THEN 0 ELSE h[fwd]])
    BY <1>6 DEF palette_history
  <2>2. n \in Nat /\ pal.pos \in 0..n /\ h \in Seq(Nat) /\ \A i \in 1..n : h[i] \in Nat
    BY DEF PalInv, PaletteLine
  <2>3. n # 0
    BY <1>6, <2>2 DEF palette_history
  <2> HIDE DEF n
  <2>4. back \in 1..n /\ fwd \in 0..n
    BY <2>2, <2>3
  <2> HIDE DEF back, fwd
  <2>5. /\ DOMAIN pal' = DOMAIN pal /\ pal'.hist = h
        /\ \/ pal'.pos = back /\ pal'.buf = h[back]
           \/ pal'.pos = fwd /\ pal'.buf = (IF fwd = 0 THEN 0 ELSE h[fwd])
        /\ UNCHANGED <<ui, dlg, tray, toast, work>>
    BY <2>1 DEF OnPal, PalInv
  <2>6. /\ pal'.pos \in 0..n /\ pal'.buf \in Nat
        /\ pal'.pos # 0 => pal'.buf = h[pal'.pos]
    BY <2>2, <2>4, <2>5
  <2> QED BY <2>2, <2>5, <2>6 DEF PalInv, PaletteLine, n
<1>7. CASE palette_type
  <2>1. PICK c \in 1 .. 2 : OnPal([pal EXCEPT !.buf = c])
    BY <1>7 DEF palette_type
  <2>2. /\ DOMAIN pal' = DOMAIN pal /\ pal'.hist = pal.hist /\ pal'.pos = 0 /\ pal'.buf \in Nat
        /\ UNCHANGED <<ui, dlg, tray, toast, work>>
    BY <1>7, <2>1 DEF palette_type, OnPal, PalInv
  <2> QED BY <2>2 DEF PalInv, PaletteLine
<1>8. CASE execute_ipc
  <2> DEFINE h == Append(pal.hist, pal.buf)
  <2>1. /\ DOMAIN pal' = DOMAIN pal /\ pal'.hist = h /\ pal'.pos = 0 /\ pal'.buf = 0
        /\ UNCHANGED <<ui, dlg, tray, toast, work>>
    BY <1>8 DEF execute_ipc, OnPal, PalInv
  <2>2. h \in Seq(Nat)
    BY DEF PalInv
  <2> HIDE DEF h
  <2> QED BY <2>1, <2>2 DEF PalInv, PaletteLine
<1> QED BY <1>1, <1>2, <1>3, <1>4, <1>5, <1>6, <1>7, <1>8 DEF PalNext

-----------------------------------------------------------------------------
(* The window around the machine, all of it.                               *)
ShellInv == Excused(ui) /\ DlgTyped /\ TrayOf(tray) /\ ToastInv /\ WorkInv /\ PalInv

(* Every part of the window keeps its own and lets the others be.          *)
LEMMA NextKeepsShell ==
  ASSUME ShellInv,
         [ShellNext \/ DialogNext \/ TrayNext \/ ToastNext \/ WorkNext \/ PalNext]_shellVars
  PROVE  ShellInv'
<1>1. CASE ShellNext
  <2>1. Excused(ui') /\ UNCHANGED <<dlg, tray, toast, work, pal>>
    BY <1>1, ShellKeepsExcused DEF ShellInv
  <2> QED BY <2>1 DEF ShellInv, DlgTyped, ToastInv, WorkInv, LayoutsRight, PalInv, PaletteLine
<1>2. CASE DialogNext \/ TrayNext
  <2>1. Excused(ui') /\ DlgTyped' /\ TrayOf(tray') /\ UNCHANGED <<toast, work, pal>>
    BY <1>2, DialogKeepsTray, TrayKeepsTray DEF ShellInv
  <2> QED BY <2>1 DEF ShellInv, ToastInv, WorkInv, LayoutsRight, PalInv, PaletteLine
<1>3. CASE ToastNext
  <2>1. ToastInv' /\ UNCHANGED <<ui, dlg, tray, work, pal>>
    BY <1>3, NextKeepsToasts DEF ShellInv
  <2> QED BY <2>1 DEF ShellInv, DlgTyped, WorkInv, LayoutsRight, PalInv, PaletteLine
<1>4. CASE WorkNext
  <2>1. WorkInv' /\ Excused(ui') /\ UNCHANGED <<dlg, tray, toast, pal>>
    BY <1>4, NextKeepsWork DEF ShellInv
  <2> QED BY <2>1 DEF ShellInv, DlgTyped, ToastInv, PalInv, PaletteLine
<1>5. CASE PalNext
  <2>1. PalInv' /\ UNCHANGED <<ui, dlg, tray, toast, work>>
    BY <1>5, NextKeepsPalette DEF ShellInv
  <2> QED BY <2>1 DEF ShellInv, DlgTyped, ToastInv, WorkInv, LayoutsRight
<1>6. CASE UNCHANGED shellVars
  BY <1>6 DEF shellVars, ShellInv, DlgTyped, ToastInv, WorkInv, LayoutsRight, PalInv, PaletteLine
<1> QED BY <1>1, <1>2, <1>3, <1>4, <1>5, <1>6

(* Nothing is open, loaded or said.                                        *)
LEMMA ShellStarts == ASSUME ShellInit PROVE ShellInv
<1>1. Excused(ui)
  BY DEF ShellInit, Excused
<1>2. DlgTyped
  BY DEF ShellInit, DlgTyped
<1>3. TrayOf(tray)
  BY ShellAssumption DEF ShellInit, TrayOf, Distinct
<1>4. ToastInv
  BY ShellAssumption DEF ShellInit, ToastInv
<1>5. WorkInv
  <2>1. /\ {"docked", "initial", "devtools", "wins", "files", "cache", "dirty", "last"} = DOMAIN work
        /\ work.docked = FALSE /\ work.devtools = FALSE /\ work.wins = {} /\ work.files = <<>>
        /\ work.dirty = TRUE /\ work.last = NoPath
    BY DEF ShellInit
  <2>2. work.docked \in BOOLEAN /\ work.devtools \in BOOLEAN /\ work.dirty \in BOOLEAN /\ work.dirty
    BY <2>1
  <2>3. DOMAIN work.files = {}
    BY <2>1
  <2> QED BY <2>1, <2>2, <2>3 DEF WorkInv, WorkOf, LayoutsRight
<1>6. PalInv
  BY DEF ShellInit, PalInv, PaletteLine
<1> QED BY <1>1, <1>2, <1>3, <1>4, <1>5, <1>6 DEF ShellInv

(* The invariant is stronger than what the run checks.                     *)
LEMMA ShellIsRight == ASSUME ShellInv PROVE ShellRight
<1>1. LossIsConfirmed
  BY DEF ShellInv, Excused, LossIsConfirmed
<1>2. MediaLists
  <2>1. /\ \A i, j \in DOMAIN tray.mru : tray.mru[i] = tray.mru[j] => i = j
        /\ Len(tray.mru) <= MruMax
        /\ tray.last # NoPath => tray.mru # <<>> /\ Head(tray.mru) = tray.last
        /\ tray.block \in 0 .. TapeBlocks - 1
    BY DEF ShellInv, TrayOf, Distinct
  <2>2. /\ Len(toast.queue) <= MaxToasts
        /\ toast.said # "none" => toast.queue # <<>> /\ Last(toast.queue) = toast.said
    BY DEF ShellInv, ToastInv, Last
  <2> QED BY <2>1, <2>2 DEF MediaLists
<1>3. LayoutsRight /\ PaletteLine
  BY DEF ShellInv, WorkInv, PalInv
<1> QED BY <1>1, <1>2, <1>3 DEF ShellRight

(* Each part of the user interface has its own steps on the bench.         *)
LEMMA BenchRunsUi ==
  ASSUME [Next]_benchVars
  PROVE  /\ [ShellNext \/ DialogNext \/ TrayNext \/ ToastNext \/ WorkNext \/ PalNext]_shellVars
         /\ [OptionsNext]_opt
         /\ [ActNext \/ VkNext \/ TermNext \/ LookNext]_menuVars
<1>1. CASE UNCHANGED benchVars
  BY <1>1 DEF benchVars, parkedVars
<1>2. CASE Next
  <2>1. UiNext
    BY <1>2 DEF Next
  <2>2. [ShellNext \/ DialogNext \/ TrayNext \/ ToastNext \/ WorkNext \/ PalNext]_shellVars
    BY <2>1 DEF UiNext
  <2>3. [OptionsNext]_opt
    BY <2>1 DEF UiNext
  <2>4. [ActNext \/ VkNext \/ TermNext \/ LookNext]_menuVars
    BY <2>1 DEF UiNext
  <2> QED BY <2>2, <2>3, <2>4
<1> QED BY <1>1, <1>2

-----------------------------------------------------------------------------
(* The Options window.  While it is open, its copy agrees with the machine  *)
(* that runs; once it is closed, the settings do.                          *)
OptFields ==
  {"open", "cpc", "dev", "old", "oldDev", "commit", "popup", "built", "from", "unasked", "hidden",
   "image", "board", "selected", "mapped", "reinit", "drawn"}
\* What none of the promises looks at.
SideFields ==
  {"typed", "edits", "file", "stream", "http", "forward", "chosen", "backend", "paused", "name",
   "oldName", "ejected", "inside", "altered"}
DevSettings == {"crtc", "watch", "m4", "drum", "amx", "serial"}

OptShape(o) ==
  /\ OptFields \subseteq DOMAIN o /\ "altered" \in DOMAIN o
  /\ DOMAIN o.cpc = CpcSettings /\ DOMAIN o.old = CpcSettings
  /\ DOMAIN o.dev = DevSettings /\ DOMAIN o.oldDev = DevSettings
  /\ o.open \in BOOLEAN /\ o.reinit \in BOOLEAN

Agrees(c, d, from) == (\A s \in RestartCpc : c[s] = from[s]) /\ d["m4"] = from["m4"]

BuiltFrom(o) ==
  o.built = "whole" /\ ~o.hidden =>
    IF o.open THEN Agrees(o.old, o.oldDev, o.from) ELSE Agrees(o.cpc, o.dev, o.from)

AskedFirst(o) ==
  /\ ~o.unasked
  /\ ~o.open => o.commit = "none" /\ ~o.popup
  /\ o.commit # "none" => o.popup

PartsLive(o) ==
  /\ o.board => o.image
  /\ o.mapped = "rom" => o.image /\ o.selected
  /\ ~o.reinit => o.drawn = o.cpc["style"]

OptOf(o) == OptShape(o) /\ BuiltFrom(o) /\ AskedFirst(o) /\ PartsLive(o)

\* What a commit keeps by itself, whatever waits for the confirmation.
OptCore(o) == OptShape(o) /\ BuiltFrom(o) /\ PartsLive(o) /\ ~o.unasked

(* The other fields of the window change nothing.                          *)
LEMMA SideFieldsApart ==
  ASSUME NEW o, OptOf(o), NEW f \in SideFields, NEW v
  PROVE  OptOf([o EXCEPT ![f] = v])
<1> DEFINE p == [o EXCEPT ![f] = v]
<1>1. DOMAIN p = DOMAIN o /\ \A x \in OptFields : p[x] = o[x]
  BY DEF OptOf, OptShape, OptFields, SideFields
<1> HIDE DEF p
<1>2. /\ p.open = o.open /\ p.cpc = o.cpc /\ p.dev = o.dev /\ p.old = o.old /\ p.oldDev = o.oldDev
      /\ p.commit = o.commit /\ p.popup = o.popup /\ p.built = o.built /\ p.from = o.from
      /\ p.unasked = o.unasked /\ p.hidden = o.hidden /\ p.image = o.image /\ p.board = o.board
      /\ p.selected = o.selected /\ p.mapped = o.mapped /\ p.reinit = o.reinit /\ p.drawn = o.drawn
  BY <1>1 DEF OptFields
<1> QED BY <1>1, <1>2 DEF OptOf, OptShape, BuiltFrom, AskedFirst, PartsLive, p

(* An edit changes the settings, not the copy.                             *)
LEMMA CpcEdited ==
  ASSUME NEW o, OptOf(o), o.open, NEW s \in CpcSettings, NEW v, s = "style" => o.reinit
  PROVE  OptOf([o EXCEPT !.cpc[s] = v])
<1> DEFINE p == [o EXCEPT !.cpc[s] = v]
<1>1. /\ DOMAIN p = DOMAIN o /\ p.cpc = [o.cpc EXCEPT ![s] = v]
      /\ p.open = o.open /\ p.dev = o.dev /\ p.old = o.old /\ p.oldDev = o.oldDev
      /\ p.commit = o.commit /\ p.popup = o.popup /\ p.built = o.built /\ p.from = o.from
      /\ p.unasked = o.unasked /\ p.hidden = o.hidden /\ p.image = o.image /\ p.board = o.board
      /\ p.selected = o.selected /\ p.mapped = o.mapped /\ p.reinit = o.reinit /\ p.drawn = o.drawn
  BY DEF OptOf, OptShape, OptFields
<1> HIDE DEF p
<1>2. DOMAIN p.cpc = CpcSettings /\ (s # "style" => p.cpc["style"] = o.cpc["style"])
  BY <1>1 DEF OptOf, OptShape, CpcSettings
<1> QED BY <1>1, <1>2 DEF OptOf, OptShape, BuiltFrom, AskedFirst, PartsLive, p

(* So does a device's switch.                                              *)
LEMMA DevEdited ==
  ASSUME NEW o, OptOf(o), o.open, NEW s \in DevSettings, NEW v
  PROVE  OptOf([o EXCEPT !.dev[s] = v])
<1> DEFINE p == [o EXCEPT !.dev[s] = v]
<1>1. /\ DOMAIN p = DOMAIN o /\ p.dev = [o.dev EXCEPT ![s] = v]
      /\ p.open = o.open /\ p.cpc = o.cpc /\ p.old = o.old /\ p.oldDev = o.oldDev
      /\ p.commit = o.commit /\ p.popup = o.popup /\ p.built = o.built /\ p.from = o.from
      /\ p.unasked = o.unasked /\ p.hidden = o.hidden /\ p.image = o.image /\ p.board = o.board
      /\ p.selected = o.selected /\ p.mapped = o.mapped /\ p.reinit = o.reinit /\ p.drawn = o.drawn
  BY DEF OptOf, OptShape, OptFields
<1> HIDE DEF p
<1>2. DOMAIN p.dev = DevSettings
  BY <1>1 DEF OptOf, OptShape
<1> QED BY <1>1, <1>2 DEF OptOf, OptShape, BuiltFrom, AskedFirst, PartsLive, p

(* SetCpc and SetDev also count the edit.                                  *)
LEMMA Edited ==
  ASSUME NEW o, OptOf(o), o.open, NEW v
  PROVE  /\ OptOf(Edit(o)) /\ (Edit(o)).open
         /\ \A s \in CpcSettings : (s = "style" => o.reinit) => OptOf(SetCpc(o, s, v)) /\ (SetCpc(o, s, v)).open
         /\ \A s \in DevSettings : OptOf(SetDev(o, s, v)) /\ (SetDev(o, s, v)).open
<1>1. ASSUME NEW p, OptOf(p) PROVE OptOf(Edit(p)) /\ (Edit(p)).open = p.open
  <2> DEFINE n == p.edits + 1
  <2>1. Edit(p) = [p EXCEPT !["edits"] = n]
    BY DEF Edit
  <2> HIDE DEF n
  <2>2. "edits" \in SideFields
    BY DEF SideFields
  <2>3. OptOf([p EXCEPT !["edits"] = n])
    BY <1>1, <2>2, SideFieldsApart
  <2>4. OptOf(Edit(p))
    BY ONLY <2>1, <2>3, Zenon
  <2> QED BY <1>1, <2>1, <2>4 DEF OptOf, OptShape, OptFields
<1>2. ASSUME NEW s \in CpcSettings, s = "style" => o.reinit
      PROVE  OptOf(SetCpc(o, s, v)) /\ (SetCpc(o, s, v)).open
  <2> DEFINE p == [o EXCEPT !.cpc[s] = v]
  <2>1. OptOf(p) /\ p.open
    BY <1>2, CpcEdited DEF OptOf, OptShape, OptFields
  <2> HIDE DEF p
  <2> QED BY <1>1, <2>1 DEF SetCpc, p
<1>3. ASSUME NEW s \in DevSettings PROVE OptOf(SetDev(o, s, v)) /\ (SetDev(o, s, v)).open
  <2> DEFINE p == [o EXCEPT !.dev[s] = v]
  <2>1. OptOf(p) /\ p.open
    BY <1>3, DevEdited DEF OptOf, OptShape, OptFields
  <2> HIDE DEF p
  <2> QED BY <1>1, <2>1 DEF SetDev, p
<1> QED BY <1>1, <1>2, <1>3

(* A click leaves the rest as its handler does.                            *)
LEMMA TouchKeeps ==
  ASSUME NEW o, Touch(o), opt.open => OptOf(o) PROVE OptOf(opt')
<1>1. opt' = [o EXCEPT !["typed"] = FALSE] /\ OptOf(o)
  BY DEF Touch
<1>2. "typed" \in SideFields
  BY DEF SideFields
<1> QED BY <1>1, <1>2, SideFieldsApart

(* The tabs, each on the settings of its own.                              *)
LEMMA TabsKeepOptions ==
  ASSUME OptOf(opt),
         GeneralTab \/ RomTab \/ VideoTab \/ AudioTab \/ InputTab
  PROVE  OptOf(opt')
<1>1. opt.open => \A v : \A s \in CpcSettings \ {"style"} : OptOf(SetCpc(opt, s, v))
  BY Edited
<1>2. opt.open => \A v : \A s \in DevSettings : OptOf(SetDev(opt, s, v))
  BY Edited
<1>3. CASE GeneralTab
  <2>1. CASE \E s \in {"model", "ram", "speed"} : Touch(SetCpc(opt, s, Other(opt.cpc[s])))
    <3>1. PICK s \in {"model", "ram", "speed"} : Touch(SetCpc(opt, s, Other(opt.cpc[s])))
      BY <2>1
    <3>2. s \in CpcSettings \ {"style"}
      BY DEF CpcSettings
    <3> QED BY <1>1, <3>1, <3>2, TouchKeeps
  <2>2. CASE \E s \in {"crtc", "watch", "m4"} : Touch(SetDev(opt, s, Other(opt.dev[s])))
    <3>1. PICK s \in {"crtc", "watch", "m4"} : Touch(SetDev(opt, s, Other(opt.dev[s])))
      BY <2>2
    <3>2. s \in DevSettings
      BY DEF DevSettings
    <3> QED BY <1>2, <3>1, <3>2, TouchKeeps
  <2> QED BY <1>3, <2>1, <2>2 DEF GeneralTab
<1>4. CASE RomTab
  <2> DEFINE e == SetCpc(opt, "rom", 0)
             off == [e EXCEPT !.board = FALSE, !.image = FALSE]
             o == IF opt.selected THEN [off EXCEPT !.mapped = "basic"] ELSE off
  <2>1. Touch(o)
    BY <1>4 DEF RomTab
  <2>2. ASSUME opt.open PROVE OptOf(o)
    <3>1. OptOf(e)
      BY <1>1, <2>2 DEF CpcSettings
    <3>2. e.selected = opt.selected
      BY DEF SetCpc, Edit, OptOf, OptShape, OptFields
    <3> HIDE DEF e
    <3>3. /\ DOMAIN o = DOMAIN e /\ o.open = e.open /\ o.cpc = e.cpc /\ o.dev = e.dev
          /\ o.old = e.old /\ o.oldDev = e.oldDev /\ o.commit = e.commit /\ o.popup = e.popup
          /\ o.built = e.built /\ o.from = e.from /\ o.unasked = e.unasked /\ o.hidden = e.hidden
          /\ o.selected = e.selected /\ o.reinit = e.reinit /\ o.drawn = e.drawn
          /\ o.mapped = (IF opt.selected THEN "basic" ELSE e.mapped)
      BY <3>1 DEF OptOf, OptShape, OptFields
    <3>4. ~o.board
      BY <3>1 DEF OptOf, OptShape, OptFields
    <3>5. o.mapped # "rom"
      BY <3>1, <3>2, <3>3 DEF OptOf, PartsLive
    <3> HIDE DEF o
    <3> QED BY <3>1, <3>3, <3>4, <3>5 DEF OptOf, OptShape, BuiltFrom, AskedFirst, PartsLive
  <2> HIDE DEF o
  <2> QED BY <2>1, <2>2, TouchKeeps
<1>5. CASE VideoTab
  <2>1. PICK s \in {"style", "tube"} :
          LET o == SetCpc(opt, s, Other(opt.cpc[s])) IN
          Touch(IF s = "style" THEN [o EXCEPT !.reinit = TRUE] ELSE o)
    BY <1>5 DEF VideoTab
  <2>2. CASE s = "tube"
    <3>1. Touch(SetCpc(opt, "tube", Other(opt.cpc["tube"])))
      BY <2>1, <2>2
    <3>2. "tube" \in CpcSettings \ {"style"}
      BY DEF CpcSettings
    <3> QED BY <1>1, <3>1, <3>2, TouchKeeps
  <2>3. CASE s = "style"
    <3> DEFINE v == Other(opt.cpc["style"])
               r == [opt EXCEPT !.reinit = TRUE]
    <3>1. Touch([SetCpc(opt, "style", v) EXCEPT !.reinit = TRUE])
      BY <2>1, <2>3
    <3>2. [SetCpc(opt, "style", v) EXCEPT !.reinit = TRUE] = SetCpc(r, "style", v)
      <4> HIDE DEF v
      <4> QED BY DEF SetCpc, Edit, OptOf, OptShape, OptFields
    <3>3. ASSUME opt.open PROVE OptOf(SetCpc(r, "style", v))
      <4>1. /\ DOMAIN r = DOMAIN opt /\ r.reinit = TRUE
            /\ r.open = opt.open /\ r.cpc = opt.cpc /\ r.dev = opt.dev /\ r.old = opt.old
            /\ r.oldDev = opt.oldDev /\ r.commit = opt.commit /\ r.popup = opt.popup
            /\ r.built = opt.built /\ r.from = opt.from /\ r.unasked = opt.unasked
            /\ r.hidden = opt.hidden /\ r.image = opt.image /\ r.board = opt.board
            /\ r.selected = opt.selected /\ r.mapped = opt.mapped /\ r.drawn = opt.drawn
        BY DEF OptOf, OptShape, OptFields
      <4> HIDE DEF r, v
      <4>2. r.reinit \in BOOLEAN /\ r.reinit
        BY <4>1
      <4>3. OptOf(r)
        BY <4>1, <4>2 DEF OptOf, OptShape, BuiltFrom, AskedFirst, PartsLive
      <4>4. "style" \in CpcSettings
        BY DEF CpcSettings
      <4> QED BY <3>3, <4>1, <4>2, <4>3, <4>4, Edited
    <3> HIDE DEF v, r
    <3> QED BY <3>1, <3>2, <3>3, TouchKeeps
  <2> QED BY <2>2, <2>3
<1>6. CASE AudioTab
  <2> DEFINE o == IF opt.cpc["rate"] = BadRate THEN [opt EXCEPT !.cpc["rate"] = 2] ELSE opt
  <2>1. \/ \E s \in {"sound", "volume"} :
             LET e == SetCpc(o, s, Other(o.cpc[s])) IN
             Touch(IF s = "sound" THEN [e EXCEPT !.stream = e.cpc["sound"] = 1] ELSE e)
        \/ Touch(SetCpc(o, "rate", IF o.cpc["rate"] = 0 THEN 1 ELSE 0))
        \/ Touch(SetDev(o, "drum", Other(o.dev["drum"])))
    BY <1>6 DEF AudioTab
  <2>2. opt.open => OptOf(o) /\ o.open
    <3>1. "rate" \in CpcSettings
      BY DEF CpcSettings
    <3>2. opt.open => OptOf([opt EXCEPT !.cpc["rate"] = 2])
      BY <3>1, CpcEdited
    <3>3. [opt EXCEPT !.cpc["rate"] = 2].open = opt.open
      BY DEF OptOf, OptShape, OptFields
    <3> QED BY <3>2, <3>3
  <2> HIDE DEF o
  <2>3. opt.open => \A v : \A s \in CpcSettings \ {"style"} : OptOf(SetCpc(o, s, v))
    BY <2>2, Edited
  <2>4. opt.open => \A v : \A s \in DevSettings : OptOf(SetDev(o, s, v))
    BY <2>2, Edited
  <2>5. ASSUME NEW s \in {"sound", "volume"}, 
               LET e == SetCpc(o, s, Other(o.cpc[s])) IN
               Touch(IF s = "sound" THEN [e EXCEPT !.stream = e.cpc["sound"] = 1] ELSE e)
        PROVE  OptOf(opt')
    <3> DEFINE e == SetCpc(o, s, Other(o.cpc[s]))
               on == e.cpc["sound"] = 1
    <3>1. s \in CpcSettings \ {"style"}
      BY DEF CpcSettings
    <3>2. opt.open => OptOf(e)
      BY <2>3, <3>1
    <3>3. Touch(IF s = "sound" THEN [e EXCEPT !["stream"] = on] ELSE e)
      BY <2>5
    <3> HIDE DEF e, on
    <3>4. opt.open => OptOf([e EXCEPT !["stream"] = on])
      BY <3>2, SideFieldsApart DEF SideFields
    <3> QED BY <3>2, <3>3, <3>4, TouchKeeps
  <2>6. CASE Touch(SetCpc(o, "rate", IF o.cpc["rate"] = 0 THEN 1 ELSE 0))
    <3>1. "rate" \in CpcSettings \ {"style"}
      BY DEF CpcSettings
    <3> QED BY <2>3, <2>6, <3>1, TouchKeeps
  <2>7. CASE Touch(SetDev(o, "drum", Other(o.dev["drum"])))
    <3>1. "drum" \in DevSettings
      BY DEF DevSettings
    <3> QED BY <2>4, <2>7, <3>1, TouchKeeps
  <2> QED BY <2>1, <2>5, <2>6, <2>7
<1>7. CASE InputTab
  <2>1. CASE \E s \in {"keyboard", "joystick"} : Touch(SetCpc(opt, s, Other(opt.cpc[s])))
    <3>1. PICK s \in {"keyboard", "joystick"} : Touch(SetCpc(opt, s, Other(opt.cpc[s])))
      BY <2>1
    <3>2. s \in CpcSettings \ {"style"}
      BY DEF CpcSettings
    <3> QED BY <1>1, <3>1, <3>2, TouchKeeps
  <2>2. CASE Touch(SetDev(opt, "amx", Other(opt.dev["amx"])))
    BY <1>2, <2>2, TouchKeeps DEF DevSettings
  <2> QED BY <1>7, <2>1, <2>2 DEF InputTab
<1> QED BY <1>3, <1>4, <1>5, <1>6, <1>7

(* So do the tabs of the boards.                                           *)
LEMMA BoardTabsKeepOptions ==
  ASSUME OptOf(opt),
         M4Tab \/ M4Ports \/ SerialSwitch \/ SerialBackendCombo \/ SerialField \/ SerialApply
  PROVE  OptOf(opt')
<1>1. opt.open => \A v : \A s \in CpcSettings \ {"style"} : OptOf(SetCpc(opt, s, v))
  BY Edited
<1>2. opt.open => \A v : \A s \in DevSettings : OptOf(SetDev(opt, s, v))
  BY Edited
<1>3. ASSUME NEW f \in SideFields, NEW v PROVE OptOf([opt EXCEPT ![f] = v])
  BY SideFieldsApart
<1>4. ASSUME NEW o, OptOf(o), o.open PROVE OptOf(Edit(o))
  BY <1>4, Edited
<1>5. ASSUME NEW o, OptOf(o) PROVE OptOf(apply_serial(o))
  <2> DEFINE b == IF o.dev["serial"] = 1 THEN o.chosen ELSE "none"
  <2>1. apply_serial(o) = [o EXCEPT !["backend"] = b]
    BY DEF apply_serial
  <2> HIDE DEF b
  <2>2. OptOf([o EXCEPT !["backend"] = b])
    BY <1>5, SideFieldsApart DEF SideFields
  <2> QED BY ONLY <2>1, <2>2, Zenon
<1>6. ASSUME NEW f \in SideFields, NEW v PROVE opt.open => OptOf(Edit([opt EXCEPT ![f] = v]))
  <2> DEFINE o == [opt EXCEPT ![f] = v]
  <2>1. OptOf(o) /\ o.open = opt.open
    BY <1>3 DEF OptOf, OptShape, OptFields, SideFields
  <2> HIDE DEF o
  <2>2. opt.open => OptOf(Edit(o))
    BY <2>1, <1>4
  <2> QED BY <2>2 DEF o
<1>7. CASE M4Tab
  <2>1. CASE Touch(SetDev(opt, "m4", Other(opt.dev["m4"])))
    BY <1>2, <2>1, TouchKeeps DEF DevSettings
  <2>2. CASE Touch(SetCpc(opt, "port", Other(opt.cpc["port"])))
    <3>1. "port" \in CpcSettings \ {"style"}
      BY DEF CpcSettings
    <3> QED BY <1>1, <2>2, <3>1, TouchKeeps
  <2>3. CASE Touch(Edit([opt EXCEPT !.http = ~@]))
    <3> DEFINE v == ~opt.http
    <3>1. Touch(Edit([opt EXCEPT !["http"] = v]))
      BY <2>3
    <3> HIDE DEF v
    <3>2. opt.open => OptOf(Edit([opt EXCEPT !["http"] = v]))
      BY <1>6 DEF SideFields
    <3> QED BY <3>1, <3>2, TouchKeeps
  <2> QED BY <1>7, <2>1, <2>2, <2>3 DEF M4Tab
<1>8. CASE M4Ports
  <2>1. PICK v \in BOOLEAN : Touch(Edit([opt EXCEPT !["forward"] = v]))
    BY <1>8 DEF M4Ports
  <2>2. opt.open => OptOf(Edit([opt EXCEPT !["forward"] = v]))
    BY <1>6 DEF SideFields
  <2> QED BY <2>1, <2>2, TouchKeeps
<1>9. CASE SerialSwitch
  <2> DEFINE o == SetDev(opt, "serial", Other(opt.dev["serial"]))
  <2>1. opt.open => OptOf(o)
    BY <1>2 DEF DevSettings
  <2>2. Touch(apply_serial(o))
    BY <1>9 DEF SerialSwitch
  <2> HIDE DEF o
  <2> QED BY <1>5, <2>1, <2>2, TouchKeeps
<1>10. CASE SerialBackendCombo
  <2> DEFINE v == IF opt.chosen = "null" THEN "plotter" ELSE "null"
  <2>1. Touch(Edit([opt EXCEPT !["chosen"] = v]))
    BY <1>10 DEF SerialBackendCombo
  <2> HIDE DEF v
  <2>2. opt.open => OptOf(Edit([opt EXCEPT !["chosen"] = v]))
    BY <1>6 DEF SideFields
  <2> QED BY <2>1, <2>2, TouchKeeps
<1>11. CASE SerialField
  <2>1. opt.open /\ opt' = Edit([opt EXCEPT !["typed"] = TRUE])
    BY <1>11 DEF SerialField
  <2> QED BY <1>6, <2>1 DEF SideFields
<1>12. CASE SerialApply
  BY <1>5, <1>12, TouchKeeps DEF SerialApply
<1> QED BY <1>7, <1>8, <1>9, <1>10, <1>11, <1>12

(* A window that closes over settings the machine runs with keeps every    *)
(* promise.                                                                *)
LEMMA ClosedKeeps ==
  ASSUME NEW o, OptShape(o), PartsLive(o), ~o.unasked,
         o.built = "whole" /\ ~o.hidden => Agrees(o.cpc, o.dev, o.from)
  PROVE  /\ OptCore(Closed_(o)) /\ (Closed_(o)).commit = o.commit /\ (Closed_(o)).popup = o.popup
         /\ o.commit = "none" /\ ~o.popup => OptOf(Closed_(o))
<1> DEFINE p == Closed_(o)
<1>1. /\ DOMAIN p = DOMAIN o /\ p.open = FALSE
      /\ p.cpc = o.cpc /\ p.dev = o.dev /\ p.old = o.old /\ p.oldDev = o.oldDev
      /\ p.commit = o.commit /\ p.popup = o.popup /\ p.built = o.built /\ p.from = o.from
      /\ p.unasked = o.unasked /\ p.hidden = o.hidden /\ p.image = o.image /\ p.board = o.board
      /\ p.selected = o.selected /\ p.mapped = o.mapped /\ p.reinit = o.reinit /\ p.drawn = o.drawn
  BY DEF Closed_, OptShape, OptFields
<1> HIDE DEF p
<1>2. p.open \in BOOLEAN /\ ~p.open
  BY <1>1
<1> QED BY <1>1, <1>2 DEF OptCore, OptOf, OptShape, BuiltFrom, AskedFirst, PartsLive, p

(* Settings that need no restart are the copy's, and the machine's.        *)
LEMMA CommitKeeps ==
  ASSUME NEW o, OptCore(o), o.open, NEW save \in BOOLEAN, NEW confirmed \in BOOLEAN, NEW err \in BOOLEAN,
         needs_restart(o) => confirmed \/ ~o.altered
  PROVE  LET c == commit_options(o, save, confirmed, err)
         IN  OptCore(c) /\ c.commit = o.commit /\ c.popup = o.popup
<1> DEFINE http(p) == [p EXCEPT !.http = p.dev["m4"] = 1 /\ (@ \/ (save /\ p.oldDev["m4"] = 0))]
           s == IF save THEN saveConfiguration_(o) ELSE o
           r == rebuild(s, err, confirmed)
<1>1. commit_options(o, save, confirmed, err) =
        IF ~needs_restart(o) THEN Closed_(http(s)) ELSE IF err THEN r ELSE Closed_(http(r))
  BY DEF commit_options
<1>2. ASSUME NEW p, OptShape(p)
      PROVE  /\ OptShape(http(p)) /\ http(p).cpc = p.cpc /\ http(p).dev = p.dev /\ http(p).from = p.from
             /\ http(p).commit = p.commit /\ http(p).popup = p.popup /\ http(p).built = p.built
             /\ http(p).unasked = p.unasked /\ http(p).hidden = p.hidden
             /\ (PartsLive(p) => PartsLive(http(p)))
  <2> DEFINE v == p.dev["m4"] = 1 /\ (p.http \/ (save /\ p.oldDev["m4"] = 0))
             q == [p EXCEPT !.http = v]
  <2>1. http(p) = q
    OBVIOUS
  <2> HIDE DEF v
  <2>2. /\ DOMAIN q = DOMAIN p /\ q.open = p.open
        /\ q.cpc = p.cpc /\ q.dev = p.dev /\ q.old = p.old /\ q.oldDev = p.oldDev
        /\ q.commit = p.commit /\ q.popup = p.popup /\ q.built = p.built /\ q.from = p.from
        /\ q.unasked = p.unasked /\ q.hidden = p.hidden /\ q.image = p.image /\ q.board = p.board
        /\ q.selected = p.selected /\ q.mapped = p.mapped /\ q.reinit = p.reinit /\ q.drawn = p.drawn
    BY <1>2 DEF OptShape, OptFields
  <2> HIDE DEF q, http
  <2> QED BY <1>2, <2>1, <2>2 DEF OptShape, PartsLive
<1>3. OptCore(s) /\ s.altered = o.altered /\ s.open /\ s.commit = o.commit /\ s.popup = o.popup
      /\ s.cpc = o.cpc /\ s.dev = o.dev /\ s.old = o.old /\ s.oldDev = o.oldDev
  <2>1. saveConfiguration_(o) = [o EXCEPT !["file"] = o.cpc]
    BY DEF saveConfiguration_
  <2> DEFINE q == [o EXCEPT !["file"] = o.cpc]
  <2>2. /\ DOMAIN q = DOMAIN o /\ q.altered = o.altered /\ q.open = o.open
        /\ q.cpc = o.cpc /\ q.dev = o.dev /\ q.old = o.old /\ q.oldDev = o.oldDev
        /\ q.commit = o.commit /\ q.popup = o.popup /\ q.built = o.built /\ q.from = o.from
        /\ q.unasked = o.unasked /\ q.hidden = o.hidden /\ q.image = o.image /\ q.board = o.board
        /\ q.selected = o.selected /\ q.mapped = o.mapped /\ q.reinit = o.reinit /\ q.drawn = o.drawn
    BY DEF OptCore, OptShape, OptFields
  <2>3. s = q \/ s = o
    BY <2>1
  <2> HIDE DEF q, s
  <2>4. OptCore(q)
    BY <2>2 DEF OptCore, OptShape, BuiltFrom, PartsLive
  <2> QED BY <2>2, <2>3, <2>4
<1> HIDE DEF s, http
<1>4. CASE ~needs_restart(o)
  <2>1. \A x \in RestartCpc : s.cpc[x] = s.old[x]
    BY <1>3, <1>4 DEF needs_restart
  <2>2. s.dev["m4"] = s.oldDev["m4"]
    BY <1>3, <1>4 DEF needs_restart, RestartDev
  <2>3. s.built = "whole" /\ ~s.hidden => Agrees(s.cpc, s.dev, s.from)
    BY <1>3, <2>1, <2>2 DEF OptCore, BuiltFrom, Agrees
  <2>4. OptShape(s) /\ PartsLive(s) /\ ~s.unasked
    BY <1>3 DEF OptCore
  <2> DEFINE h == http(s)
             c == Closed_(h)
  <2>5. /\ OptShape(h) /\ PartsLive(h) /\ ~h.unasked /\ h.commit = o.commit /\ h.popup = o.popup
        /\ (h.built = "whole" /\ ~h.hidden => Agrees(h.cpc, h.dev, h.from))
    BY <1>2, <1>3, <2>3, <2>4
  <2> HIDE DEF h
  <2>6. OptCore(c) /\ c.commit = o.commit /\ c.popup = o.popup
    BY <2>5, ClosedKeeps
  <2> QED BY <1>1, <1>4, <2>6 DEF h
<1>5. CASE needs_restart(o)
  <2>1. confirmed \/ ~s.altered
    BY <1>3, <1>5
  <2> DEFINE u == s.unasked \/ (s.altered /\ ~confirmed)
  <2>2. ~u
    BY <1>3, <2>1 DEF OptCore
  <2>3. r = [s EXCEPT !.built = IF err THEN "broken" ELSE "whole",
                      !.from = IF err THEN @ ELSE Build(s), !.unasked = u]
    BY DEF rebuild
  <2> HIDE DEF u, r
  <2>4. /\ DOMAIN r = DOMAIN s /\ r.open = s.open
        /\ r.cpc = s.cpc /\ r.dev = s.dev /\ r.old = s.old /\ r.oldDev = s.oldDev
        /\ r.commit = s.commit /\ r.popup = s.popup
        /\ r.built = (IF err THEN "broken" ELSE "whole") /\ r.from = (IF err THEN s.from ELSE Build(s))
        /\ r.unasked = u /\ r.hidden = s.hidden /\ r.image = s.image /\ r.board = s.board
        /\ r.selected = s.selected /\ r.mapped = s.mapped /\ r.reinit = s.reinit /\ r.drawn = s.drawn
    BY <1>3, <2>3 DEF OptCore, OptShape, OptFields
  <2>5. OptShape(r) /\ PartsLive(r) /\ ~r.unasked
    BY <1>3, <2>2, <2>4 DEF OptCore, OptShape, PartsLive
  <2>6. CASE err
    <3>1. r.built # "whole"
      BY <2>4, <2>6
    <3>2. BuiltFrom(r)
      BY <3>1 DEF BuiltFrom
    <3> QED BY <1>1, <1>3, <1>5, <2>4, <2>5, <2>6, <3>2 DEF OptCore
  <2>7. CASE ~err
    <3>1. r.from = Build(s)
      BY <2>4, <2>7
    <3>2. \A x \in RestartCpc : Build(s)[x] = s.cpc[x]
      BY DEF Build
    <3>3. Build(s)["m4"] = s.dev["m4"]
      BY DEF Build, RestartDev, RestartCpc
    <3>4. Agrees(r.cpc, r.dev, r.from)
      BY <2>4, <3>1, <3>2, <3>3 DEF Agrees
    <3> DEFINE h == http(r)
               c == Closed_(h)
    <3>5. /\ OptShape(h) /\ PartsLive(h) /\ ~h.unasked /\ h.commit = o.commit /\ h.popup = o.popup
          /\ Agrees(h.cpc, h.dev, h.from)
      BY <1>2, <1>3, <2>4, <2>5, <3>4
    <3> HIDE DEF h
    <3>6. OptCore(c) /\ c.commit = o.commit /\ c.popup = o.popup
      BY <3>5, ClosedKeeps
    <3> QED BY <1>1, <1>5, <2>7, <3>6 DEF h
  <2> QED BY <2>6, <2>7
<1> QED BY <1>4, <1>5

(* A button commits what needs no question, and asks the rest.             *)
LEMMA PressKeeps ==
  ASSUME OptOf(opt), SaveButton \/ ApplyButton PROVE OptOf(opt')
<1>1. PICK save \in BOOLEAN, err \in BOOLEAN : Touch(press_commit(opt, save, err))
  BY DEF SaveButton, ApplyButton
<1>2. opt.open /\ ~opt.popup
  BY <1>1 DEF Touch
<1>3. opt.commit = "none"
  BY <1>2 DEF OptOf, AskedFirst
<1>4. CASE needs_restart(opt) /\ opt.altered
  <2> DEFINE c == IF save THEN "save" ELSE "apply"
             p == [opt EXCEPT !.commit = c, !.popup = TRUE]
  <2>1. press_commit(opt, save, err) = p
    BY <1>4 DEF press_commit
  <2> HIDE DEF c
  <2>2. /\ DOMAIN p = DOMAIN opt /\ p.open = opt.open /\ p.popup = TRUE
        /\ p.cpc = opt.cpc /\ p.dev = opt.dev /\ p.old = opt.old /\ p.oldDev = opt.oldDev
        /\ p.built = opt.built /\ p.from = opt.from
        /\ p.unasked = opt.unasked /\ p.hidden = opt.hidden /\ p.image = opt.image /\ p.board = opt.board
        /\ p.selected = opt.selected /\ p.mapped = opt.mapped /\ p.reinit = opt.reinit /\ p.drawn = opt.drawn
    BY DEF OptOf, OptShape, OptFields
  <2> HIDE DEF p
  <2>3. p.popup
    BY <2>2
  <2>4. OptOf(p)
    BY <1>2, <2>2, <2>3 DEF OptOf, OptShape, BuiltFrom, AskedFirst, PartsLive
  <2> QED BY <1>1, <2>1, <2>4, TouchKeeps
<1>5. CASE ~(needs_restart(opt) /\ opt.altered)
  <2>1. press_commit(opt, save, err) = commit_options(opt, save, FALSE, err)
    BY <1>5 DEF press_commit
  <2>2. needs_restart(opt) => ~opt.altered
    BY <1>5
  <2> DEFINE c == commit_options(opt, save, FALSE, err)
  <2>3. OptCore(c) /\ c.commit = opt.commit /\ c.popup = opt.popup
    <3>1. OptCore(opt)
      BY DEF OptCore, OptOf, AskedFirst
    <3>2. needs_restart(opt) => FALSE \/ ~opt.altered
      BY <2>2
    <3> QED BY <1>2, <3>1, <3>2, CommitKeeps
  <2> HIDE DEF c
  <2>4. OptOf(c)
    BY <1>2, <1>3, <2>3 DEF OptCore, OptOf, AskedFirst
  <2> QED BY <1>1, <2>1, <2>4, TouchKeeps DEF c
<1> QED BY <1>4, <1>5

(* Cancel puts back what the machine was built from.                       *)
LEMMA RevertKeeps ==
  ASSUME NEW o, OptOf(o), o.open, o.commit = "none", ~o.popup PROVE OptOf(revert_options(o))
<1> DEFINE d == [o.dev EXCEPT !["crtc"] = o.oldDev["crtc"], !["m4"] = o.oldDev["m4"]]
           ri == o.reinit \/ o.cpc["style"] # o.old["style"]
           p == [o EXCEPT !.cpc = o.old, !.name = o.oldName,
                          !.dev["crtc"] = o.oldDev["crtc"], !.dev["m4"] = o.oldDev["m4"],
                          !.reinit = @ \/ o.cpc["style"] # o.old["style"]]
<1>1. revert_options(o) = Closed_(p)
  BY DEF revert_options
<1>2. p.dev = d /\ p.reinit = ri /\ p.cpc = o.old
  BY DEF OptOf, OptShape, OptFields, DevSettings
<1>3. /\ DOMAIN p = DOMAIN o /\ p.open = o.open /\ p.old = o.old /\ p.oldDev = o.oldDev
      /\ p.commit = o.commit /\ p.popup = o.popup /\ p.built = o.built /\ p.from = o.from
      /\ p.unasked = o.unasked /\ p.hidden = o.hidden /\ p.image = o.image /\ p.board = o.board
      /\ p.selected = o.selected /\ p.mapped = o.mapped /\ p.drawn = o.drawn
  BY DEF OptOf, OptShape, OptFields
<1>4. DOMAIN d = DevSettings /\ d["m4"] = o.oldDev["m4"]
  BY DEF OptOf, OptShape, DevSettings
<1>5. ri \in BOOLEAN /\ (~ri => ~o.reinit /\ o.cpc["style"] = o.old["style"])
  OBVIOUS
<1> HIDE DEF p, d, ri
<1>6. OptShape(p) /\ PartsLive(p) /\ ~p.unasked
  <2>1. p.reinit \in BOOLEAN
    BY <1>2, <1>5
  <2>2. OptShape(p)
    BY <1>2, <1>3, <1>4, <2>1 DEF OptOf, OptShape
  <2>3. ~p.reinit => p.drawn = p.cpc["style"]
    BY <1>2, <1>3, <1>5 DEF OptOf, PartsLive
  <2> QED BY <1>3, <2>2, <2>3 DEF OptOf, PartsLive, AskedFirst
<1>7. p.built = "whole" /\ ~p.hidden => Agrees(p.cpc, p.dev, p.from)
  BY <1>2, <1>3, <1>4 DEF OptOf, BuiltFrom, Agrees
<1> QED BY <1>1, <1>3, <1>6, <1>7, ClosedKeeps

(* Every other way a window closes, is answered or is drawn over.          *)
LEMMA WindowKeepsOptions ==
  ASSUME OptOf(opt),
         OpenOptions \/ video_reinit_done \/ CancelButton \/ EscapeKey \/ TitleBarClose
           \/ HiddenClose \/ ConfirmCancel \/ ConfirmRestart \/ GuestWrites \/ StatusEject
  PROVE  OptOf(opt')
<1>1. CASE OpenOptions
  <2>1. /\ DOMAIN opt' = DOMAIN opt /\ opt'.open = TRUE /\ ~opt.open
        /\ opt'.cpc = opt.cpc /\ opt'.dev = opt.dev /\ opt'.old = opt.cpc /\ opt'.oldDev = opt.dev
        /\ opt'.commit = opt.commit /\ opt'.popup = opt.popup /\ opt'.built = opt.built
        /\ opt'.from = opt.from /\ opt'.unasked = opt.unasked /\ opt'.hidden = opt.hidden
        /\ opt'.image = opt.image /\ opt'.board = opt.board /\ opt'.selected = opt.selected
        /\ opt'.mapped = opt.mapped /\ opt'.reinit = opt.reinit /\ opt'.drawn = opt.drawn
    BY <1>1 DEF OpenOptions, OptOf, OptShape, OptFields
  <2>2. opt'.open \in BOOLEAN /\ opt'.open
    BY <2>1
  <2> QED BY <2>1, <2>2 DEF OptOf, OptShape, BuiltFrom, AskedFirst, PartsLive
<1>2. CASE video_reinit_done
  <2>1. /\ DOMAIN opt' = DOMAIN opt /\ opt'.open = opt.open
        /\ opt'.cpc = opt.cpc /\ opt'.dev = opt.dev /\ opt'.old = opt.old /\ opt'.oldDev = opt.oldDev
        /\ opt'.commit = opt.commit /\ opt'.popup = opt.popup /\ opt'.built = opt.built
        /\ opt'.from = opt.from /\ opt'.unasked = opt.unasked /\ opt'.hidden = opt.hidden
        /\ opt'.image = opt.image /\ opt'.board = opt.board /\ opt'.selected = opt.selected
        /\ opt'.mapped = opt.mapped /\ opt'.reinit = FALSE /\ opt'.drawn = opt.cpc["style"]
    BY <1>2 DEF video_reinit_done, OptOf, OptShape, OptFields
  <2>2. opt'.reinit \in BOOLEAN
    BY <2>1
  <2> QED BY <2>1, <2>2 DEF OptOf, OptShape, BuiltFrom, AskedFirst, PartsLive
<1>3. CASE CancelButton \/ EscapeKey
  <2>1. Touch(revert_options(opt))
    BY <1>3 DEF CancelButton, EscapeKey
  <2>2. opt.open /\ ~opt.popup
    BY <2>1 DEF Touch
  <2>3. opt.commit = "none"
    BY <2>2 DEF OptOf, AskedFirst
  <2> QED BY <2>1, <2>2, <2>3, RevertKeeps, TouchKeeps
<1>4. ASSUME opt.open
      PROVE  LET p == [opt EXCEPT !.commit = "none", !.popup = FALSE]
             IN  OptOf(p) /\ p.open /\ p.commit = "none" /\ ~p.popup /\ p.altered = opt.altered
  <2> DEFINE p == [opt EXCEPT !.commit = "none", !.popup = FALSE]
  <2>1. /\ DOMAIN p = DOMAIN opt /\ p.open = opt.open /\ p.popup = FALSE /\ p.commit = "none"
        /\ p.altered = opt.altered
        /\ p.cpc = opt.cpc /\ p.dev = opt.dev /\ p.old = opt.old /\ p.oldDev = opt.oldDev
        /\ p.built = opt.built /\ p.from = opt.from
        /\ p.unasked = opt.unasked /\ p.hidden = opt.hidden /\ p.image = opt.image /\ p.board = opt.board
        /\ p.selected = opt.selected /\ p.mapped = opt.mapped /\ p.reinit = opt.reinit /\ p.drawn = opt.drawn
    BY DEF OptOf, OptShape, OptFields
  <2> HIDE DEF p
  <2>2. ~p.popup
    BY <2>1
  <2>3. OptOf(p)
    BY <2>1, <2>2 DEF OptOf, OptShape, BuiltFrom, AskedFirst, PartsLive
  <2> QED BY <1>4, <2>1, <2>2, <2>3 DEF p
<1>5. CASE TitleBarClose
  BY <1>4, <1>5, RevertKeeps DEF TitleBarClose
<1>6. CASE HiddenClose
  <2>1. /\ DOMAIN opt' = DOMAIN opt /\ opt'.open = FALSE /\ ~opt.popup
        /\ opt'.cpc = opt.cpc /\ opt'.dev = opt.dev /\ opt'.old = opt.old /\ opt'.oldDev = opt.oldDev
        /\ opt'.commit = opt.commit /\ opt'.popup = opt.popup /\ opt'.built = opt.built
        /\ opt'.from = opt.from /\ opt'.unasked = opt.unasked /\ opt'.hidden = TRUE
        /\ opt'.image = opt.image /\ opt'.board = opt.board /\ opt'.selected = opt.selected
        /\ opt'.mapped = opt.mapped /\ opt'.reinit = opt.reinit /\ opt'.drawn = opt.drawn
    BY <1>6 DEF HiddenClose, OptOf, OptShape, OptFields
  <2>2. opt'.open \in BOOLEAN /\ ~opt'.open /\ opt'.hidden
    BY <2>1
  <2> QED BY <2>1, <2>2 DEF OptOf, OptShape, BuiltFrom, AskedFirst, PartsLive
<1>7. ASSUME opt.popup PROVE opt.open
  BY <1>7 DEF OptOf, OptShape, AskedFirst
<1>8. CASE ConfirmCancel
  <2> DEFINE p == [opt EXCEPT !.commit = "none", !.popup = FALSE]
             f == opt.cpc
  <2>1. OptOf(p) /\ opt.popup
    BY <1>4, <1>7, <1>8 DEF ConfirmCancel
  <2>2. opt' = p \/ opt' = [p EXCEPT !["file"] = f]
    BY <1>8 DEF ConfirmCancel, saveConfiguration_
  <2> HIDE DEF p, f
  <2>3. OptOf([p EXCEPT !["file"] = f])
    BY <2>1, SideFieldsApart DEF SideFields
  <2> QED BY <2>1, <2>2, <2>3
<1>9. CASE ConfirmRestart
  <2> DEFINE save == opt.commit = "save"
  <2>1. PICK err \in BOOLEAN :
          opt' = [commit_options(opt, save, TRUE, err) EXCEPT !.commit = "none", !.popup = FALSE]
    BY <1>9 DEF ConfirmRestart
  <2>2. save \in BOOLEAN /\ opt.open
    BY <1>7, <1>9 DEF ConfirmRestart
  <2> DEFINE c == commit_options(opt, save, TRUE, err)
  <2> HIDE DEF save
  <2>3. OptCore(c)
    BY <2>2, CommitKeeps DEF OptCore, OptOf, AskedFirst
  <2>4. opt' = [c EXCEPT !.commit = "none", !.popup = FALSE]
    BY <2>1
  <2> HIDE DEF c
  <2>5. /\ DOMAIN opt' = DOMAIN c /\ opt'.open = c.open /\ opt'.popup = FALSE /\ opt'.commit = "none"
        /\ opt'.cpc = c.cpc /\ opt'.dev = c.dev /\ opt'.old = c.old /\ opt'.oldDev = c.oldDev
        /\ opt'.built = c.built /\ opt'.from = c.from
        /\ opt'.unasked = c.unasked /\ opt'.hidden = c.hidden /\ opt'.image = c.image /\ opt'.board = c.board
        /\ opt'.selected = c.selected /\ opt'.mapped = c.mapped /\ opt'.reinit = c.reinit
        /\ opt'.drawn = c.drawn
    BY <2>3, <2>4 DEF OptCore, OptShape, OptFields
  <2>6. ~opt'.popup
    BY <2>5
  <2> QED BY <2>3, <2>5, <2>6 DEF OptCore, OptOf, OptShape, BuiltFrom, AskedFirst, PartsLive
<1>10. CASE GuestWrites
  <2>1. opt' = [opt EXCEPT !["altered"] = TRUE]
    BY <1>10 DEF GuestWrites
  <2> QED BY <2>1, SideFieldsApart DEF SideFields
<1>11. CASE StatusEject
  <2> DEFINE p == [opt EXCEPT !["inside"] = FALSE]
             q == [p EXCEPT !["name"] = FALSE]
             v == opt.open
  <2>1. opt' = [q EXCEPT !["ejected"] = v]
    BY <1>11 DEF StatusEject
  <2>2. OptOf(p)
    BY SideFieldsApart DEF SideFields
  <2> HIDE DEF p, v
  <2>3. OptOf(q)
    BY <2>2, SideFieldsApart DEF SideFields
  <2> HIDE DEF q
  <2>4. OptOf([q EXCEPT !["ejected"] = v])
    BY <2>3, SideFieldsApart DEF SideFields
  <2> QED BY ONLY <2>1, <2>4, Zenon
<1> QED BY <1>1, <1>2, <1>3, <1>5, <1>6, <1>8, <1>9, <1>10, <1>11

(* The window is closed over the settings the machine was built from.      *)
LEMMA OptionsStart == ASSUME OptionsInit PROVE OptOf(opt)
<1>1. PICK bad \in BOOLEAN :
        LET c == [s \in CpcSettings |-> IF s = "rate" /\ bad THEN BadRate ELSE 0]
            d == [s \in {"crtc", "watch", "m4", "drum", "amx", "serial"} |-> 0] IN
        /\ OptFields \subseteq DOMAIN opt /\ "altered" \in DOMAIN opt
        /\ opt.open = FALSE /\ opt.cpc = c /\ opt.dev = d /\ opt.old = c /\ opt.oldDev = d
        /\ opt.commit = "none" /\ opt.popup = FALSE
        /\ opt.from = [s \in RestartCpc \cup RestartDev |-> 0]
        /\ opt.unasked = FALSE /\ opt.hidden = FALSE /\ opt.image = TRUE
        /\ opt.selected = TRUE /\ opt.reinit = FALSE /\ opt.drawn = 0
  BY DEF OptionsInit, OptFields
<1>2. OptShape(opt)
  BY <1>1 DEF OptShape, DevSettings
<1>3. Agrees(opt.cpc, opt.dev, opt.from) /\ opt.cpc["style"] = 0
  BY <1>1 DEF Agrees, RestartCpc, RestartDev, CpcSettings
<1>4. ~opt.open /\ ~opt.popup /\ ~opt.unasked /\ opt.image /\ opt.selected
  BY <1>1
<1> QED BY <1>1, <1>2, <1>3, <1>4 DEF OptOf, BuiltFrom, AskedFirst, PartsLive

(* What the run checks of the window follows.                              *)
LEMMA OptionsAreRight == ASSUME OptOf(opt) PROVE OptionsRight
<1>1. RunsAsSet
  <2>1. SUFFICES ASSUME ~opt.open, opt.built = "whole", ~opt.hidden
                 PROVE  \A s \in RestartCpc \cup {"m4"} : Build(opt)[s] = opt.from[s]
    BY DEF RunsAsSet
  <2>2. Agrees(opt.cpc, opt.dev, opt.from)
    BY <2>1 DEF OptOf, BuiltFrom
  <2>3. \A s \in RestartCpc : Build(opt)[s] = opt.cpc[s]
    BY DEF Build
  <2>4. Build(opt)["m4"] = opt.dev["m4"]
    BY DEF Build, RestartDev, RestartCpc
  <2> QED BY <2>2, <2>3, <2>4 DEF Agrees
<1>2. RestartIsAsked /\ LiveParts
  BY DEF RestartIsAsked, LiveParts, OptOf, AskedFirst, PartsLive
<1> QED BY <1>1, <1>2 DEF OptionsRight

(* Every step of the window keeps its promises.                            *)
LEMMA NextKeepsOptions ==
  ASSUME OptOf(opt), [OptionsNext]_opt PROVE OptOf(opt')
<1>1. CASE UNCHANGED opt
  BY <1>1
<1>2. CASE OptionsNext
  BY <1>2, TabsKeepOptions, BoardTabsKeepOptions, PressKeeps, WindowKeepsOptions DEF OptionsNext
<1> QED BY <1>1, <1>2

-----------------------------------------------------------------------------
(* The menus, the on-screen keyboard, the terminal and the memory tool.    *)
Pinned(a) ==
  /\ {"pinned", "policy", "tier"} \subseteq DOMAIN a
  /\ a.pinned => a.policy = "auto" /\ a.tier = "fast"

\* Armed counts a press of SHIFT that has shifted no key yet.
VkInv ==
  /\ {"shift", "caps", "ctrl", "armed", "shifted", "queued"} = DOMAIN vkb
  /\ vkb.shift \in BOOLEAN /\ vkb.armed \in Nat /\ vkb.shifted \in Nat
  /\ VkOneShot /\ (vkb.shift => vkb.shifted < vkb.armed)

TermInv ==
  /\ {"rx", "tx", "wire", "input", "backend"} = DOMAIN term
  /\ term.tx \in Nat /\ term.wire \in Nat /\ term.input \in Nat
  /\ TermBounded

LookInv == {"display", "filter", "byte", "segments", "drawn"} = DOMAIN look /\ OneView

MenusInv == Pinned(act) /\ VkInv /\ TermInv /\ LookInv

(* No action of a menu or key moves a tier the environment fixed.          *)
LEMMA ActionKeepsPin ==
  ASSUME NEW a, Pinned(a), NEW what \in Actions, NEW ok \in BOOLEAN
  PROVE  Pinned(koncpc_menu_action(a, what, ok))
<1>1. CASE what = "tier"
  BY <1>1 DEF Pinned, koncpc_menu_action, DoTier
<1>2. CASE what \in {"devtools", "tapeplay", "speed", "nextdiska"}
  BY <1>2 DEF Pinned, koncpc_menu_action, DoNextDisk
<1>3. CASE what \in {"scrnshot", "snapshot", "ld_snap", "mf2stop"}
  BY <1>3 DEF Pinned, koncpc_menu_action, DoSnapshot
<1>4. CASE what \in {"fps", "debug", "vkbd"}
  BY <1>4 DEF Pinned, koncpc_menu_action
<1> QED BY <1>1, <1>2, <1>3, <1>4 DEF Actions

(* Nor the tier menu, the debugger, the window keys or the next frame.     *)
LEMMA NextKeepsPin ==
  ASSUME Pinned(act), ActNext PROVE Pinned(act')
<1>1. ASSUME NEW a, Pinned(a), Click(a) PROVE Pinned(act')
  BY <1>1 DEF Click, Pinned
<1>2. CASE MenuClick \/ AutotypeCommand
  <2>1. PICK what \in Actions, ok \in BOOLEAN : Click(koncpc_menu_action(act, what, ok))
    BY <1>2 DEF MenuClick, AutotypeCommand
  <2> QED BY <1>1, <2>1, ActionKeepsPin
<1>3. CASE KeyShortcut
  <2>1. PICK what \in Actions, ok \in BOOLEAN :
          Click(IF what \notin {"tier", "nextdiska"} THEN [koncpc_menu_action(act, what, ok) EXCEPT !.key = what]
                ELSE [act EXCEPT !.key = what])
    BY <1>3 DEF KeyShortcut
  <2> DEFINE a == koncpc_menu_action(act, what, ok)
  <2>2. Pinned(a)
    BY ActionKeepsPin
  <2> HIDE DEF a
  <2>3. Pinned([a EXCEPT !.key = what]) /\ Pinned([act EXCEPT !.key = what])
    BY <2>2 DEF Pinned
  <2> QED BY <1>1, <2>1, <2>3 DEF a
<1>4. CASE TierMenu
  BY <1>4 DEF TierMenu, Click, Pinned
<1>5. CASE frame_begins
  BY <1>5 DEF frame_begins, Pinned
<1>6. CASE debug_points
  BY <1>6 DEF debug_points, Click, Pinned
<1>7. CASE koncpc_window_toggle
  BY <1>7 DEF koncpc_window_toggle, Click, Pinned
<1>8. CASE devtools_bar
  BY <1>8 DEF devtools_bar, Click, Pinned
<1> QED BY <1>2, <1>3, <1>4, <1>5, <1>6, <1>7, <1>8 DEF ActNext

(* SHIFT is spent by the key it shifts.                                    *)
LEMMA NextKeepsShift ==
  ASSUME VkInv, VkNext PROVE VkInv'
<1>1. CASE VkModifier
  <2>1. PICK m \in {"shift", "caps", "ctrl"} :
          vkb' = [vkb EXCEPT ![m] = ~@, !.armed = IF m = "shift" /\ ~vkb.shift THEN @ + 1 ELSE @]
    BY <1>1 DEF VkModifier
  <2>2. CASE m = "shift"
    <3>1. CASE vkb.shift
      <4>1. vkb' = [vkb EXCEPT !["shift"] = FALSE, !.armed = vkb.armed]
        BY <2>1, <2>2, <3>1
      <4> QED BY <4>1 DEF VkInv, VkOneShot
    <3>2. CASE ~vkb.shift
      <4>1. vkb' = [vkb EXCEPT !["shift"] = TRUE, !.armed = vkb.armed + 1]
        BY <2>1, <2>2, <3>2
      <4>2. /\ DOMAIN vkb' = DOMAIN vkb /\ vkb'.shift = TRUE
            /\ vkb'.armed = vkb.armed + 1 /\ vkb'.shifted = vkb.shifted
        BY <4>1 DEF VkInv
      <4>3. vkb'.shift \in BOOLEAN
        BY <4>2
      <4>4. vkb.armed \in Nat /\ vkb.shifted \in Nat /\ vkb.shifted <= vkb.armed
        BY DEF VkInv, VkOneShot
      <4>5. vkb'.armed \in Nat /\ vkb'.shifted \in Nat /\ vkb'.shifted < vkb'.armed /\ vkb'.shifted <= vkb'.armed
        BY ONLY <4>2, <4>4
      <4> QED BY <4>2, <4>3, <4>5 DEF VkInv, VkOneShot
    <3> QED BY <3>1, <3>2
  <2>3. CASE m \in {"caps", "ctrl"}
    BY <2>1, <2>3 DEF VkInv, VkOneShot
  <2> QED BY <2>2, <2>3
<1>2. CASE VkKey
  <2>1. PICK key \in {"char", "code", "word"} : vkb' = [emit_key(vkb, key) EXCEPT !.queued = key]
    BY <1>2 DEF VkKey
  <2>2. CASE vkb.ctrl /\ key = "char"
    BY <2>1, <2>2 DEF emit_key, VkInv, VkOneShot
  <2>3. CASE ~(vkb.ctrl /\ key = "char") /\ (vkb.shift \/ vkb.caps) /\ key = "char"
    <3>1. emit_key(vkb, key) = [vkb EXCEPT !.shift = FALSE, !.shifted = IF vkb.caps THEN @ ELSE @ + 1]
      BY <2>3 DEF emit_key
    <3>2. /\ vkb'.shift = FALSE /\ vkb'.armed = vkb.armed /\ DOMAIN vkb' = DOMAIN vkb
          /\ vkb'.shifted = (IF vkb.caps THEN vkb.shifted ELSE vkb.shifted + 1)
      BY <2>1, <3>1 DEF VkInv
    <3>3. ~vkb.caps => vkb.shift
      BY <2>3
    <3>4. vkb.armed \in Nat /\ vkb.shifted \in Nat /\ vkb.shifted <= vkb.armed
          /\ (vkb.shift => vkb.shifted < vkb.armed)
      BY DEF VkInv, VkOneShot
    <3>5. vkb'.armed \in Nat /\ vkb'.shifted \in Nat /\ vkb'.shifted <= vkb'.armed
      BY ONLY <3>2, <3>3, <3>4
    <3>6. vkb'.shift \in BOOLEAN /\ ~vkb'.shift
      BY <3>2
    <3> QED BY <3>2, <3>5, <3>6 DEF VkInv, VkOneShot
  <2>4. CASE ~(vkb.ctrl /\ key = "char") /\ ~((vkb.shift \/ vkb.caps) /\ key = "char")
    BY <2>1, <2>4 DEF emit_key, VkInv, VkOneShot
  <2> QED BY <2>2, <2>3, <2>4
<1> QED BY <1>1, <1>2 DEF VkNext

(* A byte that reaches the DART is shown, and shown where there is room.   *)
LEMMA NextKeepsTerm ==
  ASSUME TermInv, TermNext PROVE TermInv'
<1>1. /\ Taken(term) \in Nat /\ term.tx + Taken(term) <= TermSize
  BY MenusAssumption DEF TermInv, TermBounded, Taken
<1>2. CASE TermEnter \/ TermSend
  <2>1. /\ DOMAIN term' = DOMAIN term /\ term'.tx = term.tx + Taken(term) /\ term'.input = 0
        /\ term'.wire \in {term.wire, term.wire + Taken(term)}
    BY <1>2 DEF TermEnter, TermSend, TermInv
  <2> QED BY <1>1, <2>1, MenusAssumption DEF TermInv, TermBounded
<1>3. CASE serial_terminal_feed_byte \/ TermBackend
  <2>1. /\ DOMAIN term' = DOMAIN term
        /\ term'.tx = term.tx /\ term'.wire = term.wire /\ term'.input = term.input
    BY <1>3 DEF serial_terminal_feed_byte, TermBackend, TermInv
  <2> QED BY <2>1 DEF TermInv, TermBounded
<1>4. CASE TermType
  BY <1>4 DEF TermType, TermInv, TermBounded
<1>5. CASE TermClear
  BY <1>5, MenusAssumption DEF TermClear, TermInv, TermBounded
<1> QED BY <1>2, <1>3, <1>4, <1>5 DEF TermNext

(* Every part of the menus keeps its own.                                  *)
LEMMA NextKeepsMenus ==
  ASSUME MenusInv, [ActNext \/ VkNext \/ TermNext \/ LookNext]_menuVars PROVE MenusInv'
<1>1. CASE ActNext
  <2>1. UNCHANGED <<vkb, term, look>>
    BY <1>1 DEF ActNext, MenuClick, AutotypeCommand, KeyShortcut, TierMenu, frame_begins,
                debug_points, koncpc_window_toggle, devtools_bar
  <2> QED BY <1>1, <2>1, NextKeepsPin
         DEF MenusInv, VkInv, VkOneShot, TermInv, TermBounded, LookInv, OneView
<1>2. CASE VkNext
  <2>1. UNCHANGED <<act, term, look>>
    BY <1>2 DEF VkNext, VkModifier, VkKey
  <2> QED BY <1>2, <2>1, NextKeepsShift
         DEF MenusInv, TermInv, TermBounded, LookInv, OneView
<1>3. CASE TermNext
  <2>1. UNCHANGED <<act, vkb, look>>
    BY <1>3 DEF TermNext, serial_terminal_feed_byte, TermType, TermEnter, TermSend, TermClear, TermBackend
  <2> QED BY <1>3, <2>1, NextKeepsTerm
         DEF MenusInv, VkInv, VkOneShot, LookInv, OneView
<1>4. CASE LookNext
  <2>1. UNCHANGED <<act, vkb, term>> /\ LookInv'
    BY <1>4 DEF LookNext, LookGo, LookFilter, LookClear, LookPoke, plotter_preview, plotter_draws,
                plotter_view_clear, LookInv, OneView, MenusInv
  <2> QED BY <2>1 DEF MenusInv, VkInv, VkOneShot, TermInv, TermBounded
<1>5. CASE UNCHANGED menuVars
  BY <1>5 DEF menuVars, MenusInv, VkInv, VkOneShot, TermInv, TermBounded, LookInv, OneView
<1> QED BY <1>1, <1>2, <1>3, <1>4, <1>5

(* No menu has been used yet.                                              *)
LEMMA MenusStart == ASSUME MenusInit PROVE MenusInv
  BY MenusAssumption DEF MenusInit, MenusInv, Pinned, VkInv, VkOneShot, TermInv, TermBounded, LookInv, OneView

(* The invariant is stronger than what the run checks.                     *)
LEMMA MenusAreRight == ASSUME MenusInv PROVE MenusRight
  BY DEF MenusInv, MenusRight, Pinned, PinnedStays, VkInv, TermInv, LookInv

(* The window around the machine, its options and its menus keep their      *)
(* word, for every set of paths, layouts, ROM slots and boards, any length  *)
(* of the recent list, of the toasts, of a tape and of the palette's        *)
(* history, and any width of the terminal.                                  *)
THEOREM UiStaysRight == Spec => []UiRight
<1>1. Init => ShellInv /\ OptOf(opt) /\ MenusInv
  BY ShellStarts, OptionsStart, MenusStart DEF Init
<1>2. ShellInv /\ OptOf(opt) /\ MenusInv /\ [Next]_benchVars
        => (ShellInv /\ OptOf(opt) /\ MenusInv)'
  BY BenchRunsUi, NextKeepsShell, NextKeepsOptions, NextKeepsMenus
<1>3. ShellInv /\ OptOf(opt) /\ MenusInv => UiRight
  BY ShellIsRight, OptionsAreRight, MenusAreRight DEF UiRight
<1> QED BY <1>1, <1>2, <1>3, PTL DEF Spec

=============================================================================
