--------------------------- MODULE FrameRingProofs ---------------------------
(***************************************************************************)
(* Proofs about FrameRing for every number of frames and restarts: the     *)
(* three owners hold three different buffers, no visible picture is torn,  *)
(* and the ring implements LatestFrame, whether the speed limit is on or   *)
(* off.                                                                    *)
(***************************************************************************)
EXTENDS FrameRing, TLAPS

(* Where the Z80 thread is in a frame tells how much of its buffer is new. *)
WriterInv ==
  active =>
    /\ wpc \in {"half", "drawn"} => cpcRing[write].top = frame
    /\ wpc = "drawn" => cpcRing[write].bottom = frame
    /\ wpc # "half" => ~Torn(cpcRing[write])

(* A present runs only on an active ring, and its first half stays valid. *)
ReaderInv ==
  /\ rpc # "idle" => active
  /\ rpc = "blitting" => frontend.top = cpcRing[front].top

(* Every publication took a frame of its own: the count of publications    *)
(* never outruns the frames.                                               *)
CountInv ==
  /\ published <= frame
  /\ wpc # "idle" => published < frame

RingInv ==
  /\ TypeOK
  /\ IndexPermutation
  /\ NoTornPicture
  /\ WriterInv
  /\ ReaderInv
  /\ CountInv

(* The newest publication is in the shared slot while that is dirty and    *)
(* with the reader otherwise; the screen is never ahead of the reader.     *)
OrderInv ==
  /\ active /\ shared.dirty => cpcRing[shared.idx].pub = published
  /\ active /\ ~shared.dirty => cpcRing[front].pub = published
  /\ rpc = "exchange" => shared.dirty
  /\ seen <= published
  /\ rpc \in {"blit", "blitting"} => seen <= cpcRing[front].pub
  /\ cpcRing[front].pub <= published
  /\ frontend.pub <= cpcRing[front].pub

-----------------------------------------------------------------------------
(* Two exchanged slots stay a permutation: what each owner may hold. *)
LEMMA DistinctSlots ==
  ASSUME NEW a \in Slots, NEW b \in Slots, NEW c \in Slots
  PROVE  ({a, b, c} = Slots) <=> (a # b /\ a # c /\ b # c)
  BY DEF Slots

\* The ring starts in its invariant.
LEMMA InitRing == Init => RingInv
  BY RingAssumption DEF Init, RingInv, TypeOK, IndexPermutation, NoTornPicture,
     WriterInv, ReaderInv, CountInv, Torn, Slots, Frames, Surfaces, Blank, WritePCs,
     PresentPCs

\* Every step keeps it.
LEMMA StepRing == RingInv /\ [Next]_vars => RingInv'
<1> SUFFICES ASSUME RingInv, [Next]_vars PROVE RingInv'
  OBVIOUS
<1> USE RingAssumption DEF RingInv, Frames, Surfaces
<1>d. write # front /\ write # shared.idx /\ front # shared.idx
  BY DistinctSlots DEF TypeOK, IndexPermutation
<1>1. CASE DrawTop
  <2>1. TypeOK'
    BY <1>1 DEF DrawTop, Draw, TypeOK, WritePCs
  <2>2. IndexPermutation'
    BY <1>1 DEF DrawTop, IndexPermutation
  <2>3. NoTornPicture' /\ WriterInv' /\ ReaderInv' /\ CountInv'
    BY <1>1, <1>d DEF DrawTop, Draw, TypeOK, NoTornPicture, WriterInv, ReaderInv, CountInv, Torn
  <2> QED BY <2>1, <2>2, <2>3
<1>2. CASE DrawBottom
  <2>1. TypeOK'
    BY <1>2 DEF DrawBottom, Draw, TypeOK, WritePCs
  <2>2. IndexPermutation'
    BY <1>2 DEF DrawBottom, IndexPermutation
  <2>3. NoTornPicture' /\ WriterInv' /\ ReaderInv' /\ CountInv'
    BY <1>2, <1>d DEF DrawBottom, Draw, TypeOK, NoTornPicture, WriterInv, ReaderInv, CountInv, Torn
  <2> QED BY <2>1, <2>2, <2>3
<1>3. CASE FrameNotBlitted
  BY <1>3 DEF FrameNotBlitted, TypeOK, WritePCs, IndexPermutation, NoTornPicture,
     WriterInv, ReaderInv, CountInv, Torn
<1>4. CASE SkipPublish
  BY <1>4 DEF SkipPublish, TypeOK, WritePCs, IndexPermutation, NoTornPicture,
     WriterInv, ReaderInv, CountInv, Torn
<1>5. CASE Publish
  <2>a. cpcRing[write] \in Surfaces
    BY DEF TypeOK
  <2>b. shared' \in [idx : Slots, dirty : BOOLEAN]
    <3>1. CASE active
      <4>1. shared' = [idx |-> write, dirty |-> TRUE]
        BY <1>5, <3>1 DEF Publish
      <4> QED BY <4>1 DEF TypeOK
    <3>2. CASE ~active
      BY <1>5, <3>2 DEF Publish, TypeOK
    <3> QED BY <3>1, <3>2
  <2>c. write' \in Slots /\ published' \in Frames
    BY <1>5, <2>a DEF Publish, Hand, TypeOK, CountInv
  <2>e. cpcRing' \in [Slots -> Surfaces]
    BY <1>5, <2>a, <2>c DEF Publish, Hand, TypeOK
  <2>1. TypeOK'
    BY <1>5, <2>b, <2>c, <2>e DEF Publish, TypeOK, WritePCs
  <2>2. IndexPermutation'
    BY <1>5, <2>1, <1>d, DistinctSlots DEF Publish, IndexPermutation, TypeOK
  <2>3. NoTornPicture' /\ WriterInv' /\ ReaderInv' /\ CountInv'
    BY <1>5, <1>d DEF Publish, Hand, TypeOK, NoTornPicture, WriterInv, ReaderInv, CountInv, Torn
  <2> QED BY <2>1, <2>2, <2>3
<1>6. CASE PresentLoad
  BY <1>6 DEF PresentLoad, TypeOK, PresentPCs, IndexPermutation, NoTornPicture,
     WriterInv, ReaderInv, CountInv
<1>7. CASE PresentExchange
  <2>1. TypeOK'
    BY <1>7 DEF PresentExchange, TypeOK, PresentPCs
  <2>2. IndexPermutation'
    BY <1>7, <2>1, <1>d, DistinctSlots DEF PresentExchange, IndexPermutation, TypeOK
  <2>3. NoTornPicture' /\ WriterInv' /\ ReaderInv' /\ CountInv'
    BY <1>7 DEF PresentExchange, TypeOK, NoTornPicture, WriterInv, ReaderInv, CountInv, Torn
  <2> QED BY <2>1, <2>2, <2>3
<1>8. CASE BlitTop
  BY <1>8 DEF BlitTop, TypeOK, PresentPCs, IndexPermutation, NoTornPicture,
     WriterInv, ReaderInv, CountInv
<1>9. CASE BlitBottom
  BY <1>9 DEF BlitBottom, TypeOK, PresentPCs, IndexPermutation, NoTornPicture,
     WriterInv, ReaderInv, CountInv, Torn
<1>10. CASE Restyle
  BY <1>10 DEF Restyle, TypeOK, IndexPermutation, NoTornPicture, WriterInv,
     ReaderInv, CountInv, Torn, Blank, Slots
<1>11. CASE UNCHANGED vars
  BY <1>11 DEF vars, TypeOK, IndexPermutation, NoTornPicture, WriterInv, ReaderInv, CountInv
<1> QED
  BY <1>1, <1>2, <1>3, <1>4, <1>5, <1>6, <1>7, <1>8, <1>9, <1>10, <1>11
     DEF Next, Z80Step, RenderStep

(* The state stays well typed: every surface, slot and counter is in range. *)
THEOREM RingTypeCorrect == Spec => []TypeOK
<1>1. RingInv => TypeOK
  BY DEF RingInv
<1> QED
  BY InitRing, StepRing, <1>1, PTL DEF Spec

(* video_ring_publish and video_ring_present keep the writer's, the reader's *)
(* and the shared slot a permutation of {0,1,2}, whatever the interleaving.  *)
THEOREM RingPermutation == Spec => []IndexPermutation
<1>1. RingInv => IndexPermutation
  BY DEF RingInv
<1> QED
  BY InitRing, StepRing, <1>1, PTL DEF Spec

(* No picture the render thread can reach is ever half drawn. *)
THEOREM RingNeverTears == Spec => []NoTornPicture
<1>1. RingInv => NoTornPicture
  BY DEF RingInv
<1> QED
  BY InitRing, StepRing, <1>1, PTL DEF Spec

-----------------------------------------------------------------------------
\* The order of frames holds at the start.
LEMMA InitOrder == Init => OrderInv
  BY DEF Init, OrderInv, Blank, Slots

\* Every step keeps it.
LEMMA StepOrder ==
  RingInv /\ OrderInv /\ [Next]_vars => OrderInv'
<1> SUFFICES ASSUME RingInv, OrderInv, [Next]_vars PROVE OrderInv'
  OBVIOUS
<1> USE RingAssumption DEF RingInv, OrderInv, Frames, Surfaces
<1>d. write # front /\ write # shared.idx /\ front # shared.idx
  BY DistinctSlots DEF TypeOK, IndexPermutation
<1>1. CASE DrawTop
  BY <1>1, <1>d DEF DrawTop, Draw, TypeOK
<1>2. CASE DrawBottom
  BY <1>2, <1>d DEF DrawBottom, Draw, TypeOK
<1>3. CASE FrameNotBlitted
  BY <1>3 DEF FrameNotBlitted
<1>4. CASE SkipPublish
  BY <1>4 DEF SkipPublish
<1>5. CASE Publish
  BY <1>5, <1>d DEF Publish, Hand, TypeOK, ReaderInv
<1>6. CASE PresentLoad
  BY <1>6 DEF PresentLoad, TypeOK, CountInv
<1>7. CASE PresentExchange
  BY <1>7 DEF PresentExchange, TypeOK, ReaderInv
<1>8. CASE BlitTop
  BY <1>8 DEF BlitTop
<1>9. CASE BlitBottom
  BY <1>9 DEF BlitBottom, TypeOK
<1>10. CASE Restyle
  BY <1>10 DEF Restyle, TypeOK, Blank, Slots
<1>11. CASE UNCHANGED vars
  BY <1>11 DEF vars
<1> QED
  BY <1>1, <1>2, <1>3, <1>4, <1>5, <1>6, <1>7, <1>8, <1>9, <1>10, <1>11
     DEF Next, Z80Step, RenderStep

(* Every step of the ring is a step of the latest-value cell or invisible. *)
LEMMA StepRefines ==
  RingInv /\ OrderInv /\ [Next]_vars
    => [Latest!Next]_(Latest!vars)
<1> SUFFICES ASSUME RingInv, OrderInv, [Next]_vars
             PROVE  \/ Latest!Next
                    \/ UNCHANGED <<published, cpcRing[front].pub>>
  BY DEF Latest!vars
<1> USE RingAssumption DEF RingInv, OrderInv, Frames, Surfaces
<1>d. write # front /\ write # shared.idx /\ front # shared.idx
  BY DistinctSlots DEF TypeOK, IndexPermutation
<1>1. CASE DrawTop
  BY <1>1, <1>d DEF DrawTop, Draw, TypeOK
<1>2. CASE DrawBottom
  BY <1>2, <1>d DEF DrawBottom, Draw, TypeOK
<1>3. CASE FrameNotBlitted
  BY <1>3 DEF FrameNotBlitted
<1>4. CASE SkipPublish
  BY <1>4 DEF SkipPublish
<1>5. CASE Publish
  <2>1. CASE active
    <3>1. published' = published + 1 /\ published \in Nat
      BY <1>5, <2>1 DEF Publish, Hand, TypeOK
    <3>2. cpcRing'[front'] = cpcRing[front]
      BY <1>5, <2>1, <1>d DEF Publish, Hand, TypeOK
    <3> QED
      BY <1>5, <3>1, <3>2 DEF Publish, Latest!Next, Latest!Emit
  <2>2. CASE ~active
    BY <1>5, <2>2 DEF Publish
  <2> QED BY <2>1, <2>2
<1>6. CASE PresentLoad
  BY <1>6 DEF PresentLoad
<1>7. CASE PresentExchange
  <2>1. cpcRing[shared.idx].pub = published
    BY <1>7 DEF PresentExchange, ReaderInv
  <2> QED
    BY <1>7, <2>1 DEF PresentExchange, Latest!Next, Latest!Show
<1>8. CASE BlitTop
  BY <1>8 DEF BlitTop
<1>9. CASE BlitBottom
  BY <1>9 DEF BlitBottom
<1>10. CASE Restyle
  <2>1. (cpcRing[front].pub)' = 0
    BY <1>10 DEF Restyle, TypeOK, Blank, Slots
  <2> QED
    BY <1>10, <2>1 DEF Restyle, Latest!Next, Latest!Restart
<1>11. CASE UNCHANGED vars
  BY <1>11 DEF vars
<1> QED
  BY <1>1, <1>2, <1>3, <1>4, <1>5, <1>6, <1>7, <1>8, <1>9, <1>10, <1>11
     DEF Next, Z80Step, RenderStep

(* The ring implements the latest-value cell: what the render thread holds  *)
(* is what was published last when it looked, never an earlier publication. *)
THEOREM RingRefinesLatestFrame == Spec => ImplementsLatestFrame
<1>1. Init => Latest!Init /\ RingInv /\ OrderInv
  BY InitRing, InitOrder DEF Init, Latest!Init, Blank, Slots
<1>2. RingInv /\ OrderInv /\ [Next]_vars => RingInv' /\ OrderInv'
  BY StepRing, StepOrder
<1>3. RingInv /\ OrderInv /\ [Next]_vars => [Latest!Next]_(Latest!vars)
  BY StepRefines
<1> QED
  BY <1>1, <1>2, <1>3, PTL DEF Spec, ImplementsLatestFrame, Latest!Spec
-----------------------------------------------------------------------------
(* The steps that end a present, and only they, change what is on screen. *)
LEMMA StepShows ==
  RingInv /\ OrderInv /\ [Next]_vars =>
    /\ rpc = "blitting" /\ rpc' = "idle" => frontend'.pub >= seen
    /\ restyles' = restyles => frontend'.pub >= frontend.pub
<1> SUFFICES ASSUME RingInv, OrderInv, [Next]_vars
             PROVE  /\ rpc = "blitting" /\ rpc' = "idle" => frontend'.pub >= seen
                    /\ restyles' = restyles => frontend'.pub >= frontend.pub
  OBVIOUS
<1> USE RingAssumption DEF RingInv, OrderInv, Frames, Surfaces
<1>t. /\ frontend.pub \in Nat /\ seen \in Nat /\ cpcRing[front].pub \in Nat
      /\ frontend \in Surfaces
  BY DEF TypeOK
<1>1. CASE DrawTop \/ DrawBottom
  <2>1. frontend'.pub = frontend.pub /\ rpc' = rpc
    BY <1>1, <1>t DEF DrawTop, DrawBottom, Draw
  <2> QED BY <2>1, <1>t
<1>2. CASE FrameNotBlitted \/ SkipPublish \/ Publish \/ PresentLoad \/ PresentExchange
  <2>1. frontend' = frontend /\ (rpc = "blitting" => rpc' = rpc)
    BY <1>2 DEF FrameNotBlitted, SkipPublish, Publish, PresentLoad, PresentExchange
  <2> QED BY <2>1, <1>t
<1>3. CASE BlitTop
  <2>1. frontend'.pub = frontend.pub /\ rpc # "blitting"
    BY <1>3, <1>t DEF BlitTop
  <2> QED BY <2>1, <1>t
<1>4. CASE BlitBottom
  <2>1. frontend'.pub = cpcRing[front].pub /\ rpc = "blitting"
    BY <1>4, <1>t DEF BlitBottom
  <2> QED BY <2>1, <1>t
<1>5. CASE Restyle
  <2>1. restyles' # restyles /\ rpc # "blitting"
    BY <1>5 DEF Restyle, TypeOK
  <2> QED BY <2>1
<1>6. CASE UNCHANGED vars
  BY <1>6, <1>t DEF vars
<1> QED
  BY <1>1, <1>2, <1>3, <1>4, <1>5, <1>6 DEF Next, Z80Step, RenderStep

(* A present that has run to its end shows the newest publication of the    *)
(* moment it began, or a later one.                                         *)
THEOREM RingPresentsFresh == Spec => PresentIsFresh
<1>1. Init => RingInv /\ OrderInv
  BY InitRing, InitOrder
<1>2. RingInv /\ OrderInv /\ [Next]_vars => RingInv' /\ OrderInv'
  BY StepRing, StepOrder
<1>3. RingInv /\ OrderInv /\ [Next]_vars
        => [rpc = "blitting" /\ rpc' = "idle" => frontend'.pub >= seen]_vars
  BY StepShows
<1> QED
  BY <1>1, <1>2, <1>3, PTL DEF Spec, PresentIsFresh

(* No present brings an earlier publication back to the screen.             *)
THEOREM RingShowsInOrder == Spec => ShownInOrder
<1>1. Init => RingInv /\ OrderInv
  BY InitRing, InitOrder
<1>2. RingInv /\ OrderInv /\ [Next]_vars => RingInv' /\ OrderInv'
  BY StepRing, StepOrder
<1>3. RingInv /\ OrderInv /\ [Next]_vars
        => [restyles' = restyles => frontend'.pub >= frontend.pub]_vars
  BY StepShows
<1> QED
  BY <1>1, <1>2, <1>3, PTL DEF Spec, ShownInOrder
=============================================================================
