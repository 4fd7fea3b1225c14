------------------------------ MODULE FrameRing ------------------------------
(***************************************************************************)
(* The triple-buffered frame ring between the Z80 (emulation) thread and   *)
(* the render (main) thread: src/src/video_host.cpp, with the callers in   *)
(* src/src/kon_cpc_ja.cpp.                                                 *)
(*                                                                         *)
(* A surface is abstracted to two halves, each holding the number of the   *)
(* emulated frame it was last drawn by, so that a half-written or          *)
(* half-copied picture (a torn one) is visible as two different numbers,   *)
(* and the number of the publication it was handed over by.                *)
(* Every access of the shared atomic g_ring_shared is a step of its own,   *)
(* and so is every half of a draw and of a blit.                           *)
(***************************************************************************)
EXTENDS Naturals

CONSTANTS MaxFrame,   \* bound: how many frames the Z80 thread emulates
          MaxRestyle, \* bound: how often the video plugin is restarted
          MayUncap    \* whether the speed limit may be off for a frame

ASSUME RingAssumption ==
  MaxFrame \in Nat /\ MaxRestyle \in Nat /\ MayUncap \in BOOLEAN

Slots == 0..2
Frames == 0..MaxFrame                  \* 0: a surface nothing was drawn on
Surfaces == [top : Frames, bottom : Frames, pub : Frames]
Blank == [top |-> 0, bottom |-> 0, pub |-> 0]
Torn(s) == s.top # s.bottom

VARIABLES
  active,    \* g_ring_active
  cpcRing,   \* g_cpc_ring: the three write buffers
  shared,    \* g_ring_shared: published index and DIRTY bit
  write,     \* g_ring_write (back_surface), private to the Z80 thread
  front,     \* g_ring_front, private to the render thread
  frontend,  \* g_frontend: the surface every flip reads
  frame,     \* frames begun by the Z80 thread (dwFrameCountOverall)
  published, \* frames handed to video_ring_publish since the init
  wpc,       \* Z80 thread: where it is in the frame
  rpc,       \* render thread: where it is in video_ring_present
  seen,      \* frames published when the current present began
  restyles   \* number of video_shutdown/video_init pairs so far

vars == <<active, cpcRing, shared, write, front, frontend, frame, published,
          wpc, rpc, seen, restyles>>

WritePCs == {"idle", "half", "drawn", "undrawn"}
PresentPCs == {"idle", "exchange", "blit", "blitting"}

TypeOK ==
  /\ active \in BOOLEAN
  /\ cpcRing \in [Slots -> Surfaces]
  /\ shared \in [idx : Slots, dirty : BOOLEAN]
  /\ write \in Slots /\ front \in Slots
  /\ frontend \in Surfaces
  /\ frame \in Frames /\ published \in Frames /\ seen \in Frames
  /\ wpc \in WritePCs /\ rpc \in PresentPCs
  /\ restyles \in 0..MaxRestyle

-----------------------------------------------------------------------------
(* video_ring_init, first call: the plugin's surface exists and either all *)
(* three buffers are allocated or the ring degrades to the single surface. *)
Init ==
  /\ active \in BOOLEAN
  /\ cpcRing = [i \in Slots |-> Blank]
  /\ shared = [idx |-> 2, dirty |-> FALSE]
  /\ write = 0 /\ front = 1
  /\ frontend = Blank
  /\ frame = 0 /\ published = 0 /\ seen = 0
  /\ wpc = "idle" /\ rpc = "idle"
  /\ restyles = 0

(* The surface back_surface points to: the private buffer, or with an      *)
(* inactive ring the front-end surface itself.                             *)
Draw(half, n) ==
  IF active
    THEN /\ cpcRing' = [cpcRing EXCEPT ![write][half] = n]
         /\ UNCHANGED frontend
    ELSE /\ frontend' = [frontend EXCEPT ![half] = n]
         /\ UNCHANGED cpcRing

(* The Z80 thread starts a frame and draws the top of the picture. *)
DrawTop ==
  /\ wpc = "idle" /\ frame < MaxFrame
  /\ frame' = frame + 1
  /\ Draw("top", frame + 1)
  /\ wpc' = "half"
  /\ UNCHANGED <<active, shared, write, front, published, rpc, seen, restyles>>

(* ... and the bottom of it; the write buffer is now final. *)
DrawBottom ==
  /\ wpc = "half"
  /\ Draw("bottom", frame)
  /\ wpc' = "drawn"
  /\ UNCHANGED <<active, shared, write, front, frame, published, rpc, seen, restyles>>

(* With the speed limit off a frame is blitted at 60 Hz at most: when no   *)
(* blit is due the frame runs without touching back_surface.               *)
FrameNotBlitted ==
  /\ wpc = "idle" /\ frame < MaxFrame /\ MayUncap
  /\ frame' = frame + 1
  /\ wpc' = "undrawn"
  /\ UNCHANGED <<active, cpcRing, shared, write, front, frontend, published,
                 rpc, seen, restyles>>

(* A skipped frame publishes nothing: the same buffer is drawn again. *)
SkipPublish ==
  /\ wpc \in {"drawn", "undrawn"}
  /\ wpc' = "idle"
  /\ UNCHANGED <<active, cpcRing, shared, write, front, frontend, frame,
                 published, rpc, seen, restyles>>

(* The buffer handed over carries the number of its publication. *)
Hand ==
  /\ published' = published + 1
  /\ cpcRing' = [cpcRing EXCEPT ![write].pub = published + 1]

(* Mutants of Publish: the DIRTY bit is not masked off; the writer keeps   *)
(* its buffer; the frame is published half drawn; a frame nobody has       *)
(* fetched yet is not replaced.                                            *)
PublishUnmasked ==
  /\ wpc \in {"drawn", "undrawn"} /\ active
  /\ wpc' = "idle"
  /\ shared' = [idx |-> write, dirty |-> TRUE]
  /\ write' = shared.idx + (IF shared.dirty THEN 4 ELSE 0)
  /\ Hand
  /\ UNCHANGED <<active, front, frontend, frame, rpc, seen, restyles>>

PublishKeepsBuffer ==
  /\ wpc \in {"drawn", "undrawn"} /\ active
  /\ wpc' = "idle"
  /\ shared' = [idx |-> write, dirty |-> TRUE]
  /\ Hand
  /\ UNCHANGED <<active, write, front, frontend, frame, rpc, seen, restyles>>

PublishHalfDrawn ==
  /\ wpc \in {"half", "drawn", "undrawn"} /\ active
  /\ wpc' = "idle"
  /\ shared' = [idx |-> write, dirty |-> TRUE]
  /\ write' = shared.idx
  /\ Hand
  /\ UNCHANGED <<active, front, frontend, frame, rpc, seen, restyles>>

PublishDropsNewest ==
  /\ wpc \in {"drawn", "undrawn"} /\ active
  /\ wpc' = "idle"
  /\ Hand
  /\ IF shared.dirty THEN UNCHANGED <<shared, write>>
     ELSE shared' = [idx |-> write, dirty |-> TRUE] /\ write' = shared.idx
  /\ UNCHANGED <<active, front, frontend, frame, rpc, seen, restyles>>

(* video_ring_publish: one atomic exchange. *)
Publish ==
  /\ wpc \in {"drawn", "undrawn"}
  /\ wpc' = "idle"
  /\ IF active
       THEN /\ shared' = [idx |-> write, dirty |-> TRUE]
            /\ write' = shared.idx
            /\ Hand
       ELSE UNCHANGED <<shared, write, published, cpcRing>>
  /\ UNCHANGED <<active, front, frontend, frame, rpc, seen, restyles>>

(* Mutants of PresentLoad: never swap; always swap; wait for the end of    *)
(* the frame being drawn.                                                  *)
PresentNeverSwaps ==
  /\ rpc = "idle" /\ active
  /\ rpc' = "blit"
  /\ seen' = published
  /\ UNCHANGED <<active, cpcRing, shared, write, front, frontend, frame,
                 published, wpc, restyles>>

PresentAlwaysSwaps ==
  /\ rpc = "idle" /\ active
  /\ rpc' = "exchange"
  /\ seen' = published
  /\ UNCHANGED <<active, cpcRing, shared, write, front, frontend, frame,
                 published, wpc, restyles>>

PresentWaitsForWriter ==
  /\ rpc = "idle" /\ active /\ wpc = "idle"
  /\ rpc' = IF shared.dirty THEN "exchange" ELSE "blit"
  /\ seen' = published
  /\ UNCHANGED <<active, cpcRing, shared, write, front, frontend, frame,
                 published, wpc, restyles>>

(* video_ring_present, the load: only a dirty ring is swapped. *)
PresentLoad ==
  /\ rpc = "idle" /\ active
  /\ rpc' = IF shared.dirty THEN "exchange" ELSE "blit"
  /\ seen' = published
  /\ UNCHANGED <<active, cpcRing, shared, write, front, frontend, frame,
                 published, wpc, restyles>>

(* ... the exchange: hands the front buffer back, clears DIRTY. *)
PresentExchange ==
  /\ rpc = "exchange"
  /\ shared' = [idx |-> front, dirty |-> FALSE]
  /\ front' = shared.idx
  /\ rpc' = "blit"
  /\ UNCHANGED <<active, cpcRing, write, frontend, frame, published, wpc, seen,
                 restyles>>

(* ... and the blit of the front buffer, in two halves. *)
BlitTop ==
  /\ rpc = "blit"
  /\ frontend' = [frontend EXCEPT !.top = cpcRing[front].top]
  /\ rpc' = "blitting"
  /\ UNCHANGED <<active, cpcRing, shared, write, front, frame, published, wpc,
                 seen, restyles>>

BlitBottom ==
  /\ rpc = "blitting"
  /\ frontend' = [frontend EXCEPT !.bottom = cpcRing[front].bottom,
                                  !.pub = cpcRing[front].pub]
  /\ rpc' = "idle"
  /\ UNCHANGED <<active, cpcRing, shared, write, front, frame, published, wpc,
                 seen, restyles>>

(* The restyle path: video_shutdown then video_init on the main thread,     *)
(* after cpc_pause_and_wait, so between two frames of the Z80 thread and    *)
(* outside a present.  The allocation may fail, or succeed after a failure. *)
Restyle ==
  /\ wpc = "idle" /\ rpc = "idle" /\ restyles < MaxRestyle
  /\ restyles' = restyles + 1
  /\ active' \in BOOLEAN
  /\ cpcRing' = [i \in Slots |-> Blank]
  /\ shared' = IF active' THEN [idx |-> 2, dirty |-> FALSE] ELSE shared
  /\ write' = IF active' THEN 0 ELSE write
  /\ front' = IF active' THEN 1 ELSE front
  /\ frontend' = Blank
  /\ published' = 0 /\ seen' = 0
  /\ UNCHANGED <<frame, wpc, rpc>>

Z80Step == DrawTop \/ DrawBottom \/ FrameNotBlitted \/ SkipPublish \/ Publish
RenderStep == PresentLoad \/ PresentExchange \/ BlitTop \/ BlitBottom

(* After the last frame of the bound the Z80 thread stands still. *)
Next == Z80Step \/ RenderStep \/ Restyle

(* The render loop is driven by the display: its thread keeps taking steps. *)
Fairness == WF_vars(RenderStep)

Spec == Init /\ [][Next]_vars /\ Fairness

-----------------------------------------------------------------------------
(* The three owners hold three different buffers: the writer, the reader and *)
(* the shared slot, at every interleaving of the two exchanges (the comment  *)
(* above RING_INDEX_MASK).                                                   *)
IndexPermutation == {write, front, shared.idx} = Slots

(* No picture the render thread can see is half drawn: neither the buffer it *)
(* holds nor the published one, nor, once the blit is over, the front end,   *)
(* although the Z80 thread draws all the while.                              *)
NoTornPicture ==
  active => /\ ~Torn(cpcRing[front])
            /\ ~Torn(cpcRing[shared.idx])
            /\ (rpc = "idle" => ~Torn(frontend))

(* A present that has run to its end shows at least the publication that     *)
(* was the newest when it began, although load, exchange and blit are        *)
(* separate steps the Z80 thread may publish between.                        *)
PresentIsFresh ==
  [][rpc = "blitting" /\ rpc' = "idle" => frontend'.pub >= seen]_vars

(* Publications reach the screen in their order: no present brings back a    *)
(* buffer handed over earlier, except when the video plugin is restarted.    *)
ShownInOrder == [][restyles' = restyles => frontend'.pub >= frontend.pub]_vars


(* A publication, or a later one, reaches the screen.                        *)
PublishedIsShown ==
  \A n \in 1..MaxFrame :
    (active /\ published = n) ~> (frontend.pub >= n \/ published = 0)

(* The ring implements the latest-value cell: the exchange of a present is   *)
(* the moment the viewer moves to the latest frame, everything else on the   *)
(* way from a drawn buffer to the screen is invisible.                       *)
Latest == INSTANCE LatestFrame
            WITH latest <- published, shown <- cpcRing[front].pub

ImplementsLatestFrame == Latest!Spec
=============================================================================
