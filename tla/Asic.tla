-------------------------------- MODULE Asic --------------------------------
(***************************************************************************)
(* The Plus ASIC (src/src/hw/asic.cpp): the knock that unlocks its register *)
(* page, the registers the video device copies once per line, the raster   *)
(* interrupt, and the three-channel DMA sequencer that takes the bus from  *)
(* the CPU after a line's HSYNC and plays instruction lists from memory.   *)
(***************************************************************************)
EXTENDS Naturals, Sequences

CONSTANTS
  Channels,    \* the DMA channels, in the order they are served: 0..2 in the code
  Program,     \* the instructions in memory, indexed by word address
  MaxLoops,    \* the largest repeat count of Program
  KnockBytes,  \* the bytes a guest sends to the CRTC select port
  LockSeq,     \* kLockSeq
  Starts,      \* the list addresses a guest programs
  MaxAhead     \* bound: changes of the video registers between two refreshes

VARIABLES
  lock,     \* locked, lockpos, page_on
  dma,      \* each channel: source, enabled, pause, loops, loop_addr, int
  bus,      \* the sequencer: phase, channel served, fired this line
  pri,      \* raster interrupt pending
  vregs,    \* what the video registers hold, one value standing for all of them
  vid_gen,  \* how far their generation is ahead of the copy's
  shown     \* the video device's copy

asicVars == <<lock, dma, bus, pri, vregs, vid_gen, shown>>

(* A list word as the sequencer reads it: a register load, or a control     *)
(* word; a repeat that the list gives is at most MaxLoops.                  *)
Words == [op : {"ctl", "load"}, pause : Nat, repeat : 0..MaxLoops, loop : BOOLEAN,
          int : BOOLEAN, stop : BOOLEAN]

ASSUME AsicAssumption ==
  /\ Channels \subseteq Nat /\ MaxLoops \in Nat /\ MaxAhead \in Nat \ {0}
  /\ Program \in Seq(Words) /\ Program # <<>> /\ Starts \subseteq 0..(Len(Program) - 1)
  /\ KnockBytes \subseteq Nat /\ LockSeq \in Seq(Nat) /\ Len(LockSeq) >= 2

Phases == {"idle", "wait_busak", "fetch", "exec", "psg_sel", "psg_wr", "advance"}
Values == 0..1

AsicTypeOK ==
  /\ lock.pos \in 0..Len(LockSeq) /\ lock.locked \in BOOLEAN /\ lock.page_on \in BOOLEAN
  /\ \A c \in Channels :
       /\ dma[c].source \in 0..(Len(Program) - 1) /\ dma[c].enabled \in BOOLEAN
       /\ dma[c].pause \in Nat /\ dma[c].loops \in 0..MaxLoops /\ dma[c].int \in BOOLEAN
       /\ dma[c].loop_addr \in 0..(Len(Program) - 1)
  /\ bus.phase \in Phases /\ bus.fired \in BOOLEAN /\ bus.cur \in Nat
  /\ pri \in BOOLEAN /\ vregs \in Values /\ vid_gen \in 0..MaxAhead /\ shown \in Values

-----------------------------------------------------------------------------
(* The knock: the whole sequence and one byte more unlock, the sequence     *)
(* without its last byte locks.                                             *)
feed_knock(v) ==
  /\ lock' =
       IF lock.pos = 0 THEN [lock EXCEPT !.pos = IF v > 0 THEN 1 ELSE 0]
       ELSE IF lock.pos < Len(LockSeq)
       THEN IF v = LockSeq[lock.pos + 1] THEN [lock EXCEPT !.pos = @ + 1]
            ELSE [lock EXCEPT !.pos = IF v = 0 THEN 2 ELSE 1,
                              !.locked = @ \/ lock.pos + 1 = Len(LockSeq)]
       ELSE [lock EXCEPT !.pos = IF v = 0 THEN 0 ELSE 1, !.locked = FALSE]
  /\ UNCHANGED <<dma, bus, pri, vregs, vid_gen, shown>>

(* RMR2 maps the register page in while unlocked. *)
MapPage(on) ==
  /\ ~lock.locked
  /\ lock' = [lock EXCEPT !.page_on = on]
  /\ UNCHANGED <<dma, bus, pri, vregs, vid_gen, shown>>

Armed == ~lock.locked /\ lock.page_on /\ bus.phase \in {"idle", "wait_busak"}
Move(g) == vid_gen < MaxAhead /\ vid_gen' = vid_gen + g

(* decode_write: sprite attributes, palette and configuration move the      *)
(* generation; the DMA registers do not.                                    *)
WriteVideo(v) ==
  /\ Armed
  /\ vregs' = v /\ Move(1)
  /\ UNCHANGED <<lock, dma, bus, pri, shown>>

WriteSource(c, a) ==
  /\ Armed
  /\ dma' = [dma EXCEPT ![c].source = a]
  /\ UNCHANGED <<lock, bus, pri, vregs, vid_gen, shown>>

WriteEnable(on) ==
  /\ Armed
  /\ dma' = [c \in Channels |-> [dma[c] EXCEPT !.enabled = c \in on]]
  /\ UNCHANGED <<lock, bus, pri, vregs, vid_gen, shown>>

(* The copied classic ink is forgotten by the generation. *)
snoop_classic_palette_quiet(v) ==
  /\ vregs' = v /\ Move(0)
  /\ UNCHANGED <<lock, dma, bus, pri, shown>>

(* An ink written to the Gate Array is copied, locked or not. *)
snoop_classic_palette(v) ==
  /\ vregs' = v /\ Move(1)
  /\ UNCHANGED <<lock, dma, bus, pri, shown>>

(* The video device's copy at the end of a line, skipped when the           *)
(* generation has not moved.                                                *)
refresh ==
  /\ shown' = IF vid_gen = 0 THEN shown ELSE vregs
  /\ vid_gen' = 0
  /\ UNCHANGED <<lock, dma, bus, pri, vregs>>

-----------------------------------------------------------------------------
(* The sequencer. *)
Ready(cs, c) == cs[c].enabled /\ cs[c].pause = 0

(* dma_seek: the first channel from k on that has something to do. *)
Seek(k) ==
  IF \E c \in Channels : c >= k /\ Ready(dma, c)
  THEN [bus EXCEPT !.phase = "fetch",
                   !.cur = CHOOSE c \in Channels : /\ c >= k /\ Ready(dma, c)
                                                   /\ \A d \in Channels : d >= k /\ Ready(dma, d) => c <= d]
  ELSE [bus EXCEPT !.phase = "idle"]

(* The third character of a line's HSYNC: paused channels count, and the    *)
(* bus is asked for when a channel has an instruction to run.               *)
LineTrigger ==
  /\ bus.phase = "idle" /\ ~bus.fired
  /\ dma' = [c \in Channels |-> IF dma[c].enabled /\ dma[c].pause > 0
                                THEN [dma[c] EXCEPT !.pause = @ - 1] ELSE dma[c]]
  /\ bus' = [bus EXCEPT !.fired = TRUE,
                        !.phase = IF \E c \in Channels : Ready(dma, c)
                                  THEN "wait_busak" ELSE "idle"]
  /\ UNCHANGED <<lock, pri, vregs, vid_gen, shown>>

(* The next line's HSYNC rises, also while the sequencer has the bus. *)
LineStart(raster) ==
  /\ bus.fired
  /\ bus' = [bus EXCEPT !.fired = FALSE]
  /\ pri' = (pri \/ raster)
  /\ UNCHANGED <<lock, dma, vregs, vid_gen, shown>>

(* The channel was disabled meanwhile, and the sequencer waits for another. *)
BusGranted_waits ==
  /\ bus.phase = "wait_busak"
  /\ \E c \in Channels : Ready(dma, c)
  /\ bus' = Seek(0)
  /\ UNCHANGED <<lock, dma, pri, vregs, vid_gen, shown>>

(* BUSAK is granted at the end of the CPU's machine cycle; a list word is   *)
(* fetched in four ticks.                                                   *)
BusGranted ==
  /\ bus.phase = "wait_busak"
  /\ bus' = Seek(0)
  /\ UNCHANGED <<lock, dma, pri, vregs, vid_gen, shown>>

Fetch ==
  /\ bus.phase = "fetch"
  /\ bus' = [bus EXCEPT !.phase = "exec"]
  /\ UNCHANGED <<lock, dma, pri, vregs, vid_gen, shown>>

(* DMA_EXEC advances the source first; dma_exec then runs the instruction.  *)
dma_exec(ch, i) ==
  LET NextWord(a) == (a + 1) % Len(Program)
      past == NextWord(ch.source)
      paused == IF i.pause > 0 THEN i.pause ELSE ch.pause
      looped == i.loop /\ ch.loops > 0
  IN  IF i.op = "load" THEN [ch EXCEPT !.source = past]
      ELSE [ch EXCEPT
              !.source = IF looped THEN ch.loop_addr ELSE past,
              !.pause = paused,
              !.loops = IF i.repeat > 0 THEN i.repeat ELSE IF looped THEN @ - 1 ELSE @,
              !.loop_addr = IF i.repeat > 0 THEN NextWord(past) ELSE @,
              !.int = @ \/ i.int,
              !.enabled = @ /\ ~i.stop]

Exec ==
  LET At(a) == Program[a + 1]
  IN
  /\ bus.phase = "exec"
  /\ dma' = [dma EXCEPT ![bus.cur] = dma_exec(@, At(@.source))]
  /\ bus' = [bus EXCEPT !.phase = IF At(dma[bus.cur].source).op = "load" THEN "psg_sel" ELSE "advance"]
  /\ UNCHANGED <<lock, pri, vregs, vid_gen, shown>>

(* Two writes on the AY bus, then the next channel. *)
PsgWrite ==
  /\ bus.phase \in {"psg_sel", "psg_wr"}
  /\ bus' = [bus EXCEPT !.phase = IF @ = "psg_sel" THEN "psg_wr" ELSE "advance"]
  /\ UNCHANGED <<lock, dma, pri, vregs, vid_gen, shown>>

DmaAdvance ==
  /\ bus.phase = "advance"
  /\ bus' = Seek(bus.cur + 1)
  /\ UNCHANGED <<lock, dma, pri, vregs, vid_gen, shown>>

(* The acknowledge drives the vector of the highest source and clears all.  *)
IntAck ==
  /\ pri \/ \E c \in Channels : dma[c].int
  /\ bus.phase \in {"idle", "wait_busak"}
  /\ pri' = FALSE
  /\ dma' = [c \in Channels |-> [dma[c] EXCEPT !.int = FALSE]]
  /\ UNCHANGED <<lock, bus, vregs, vid_gen, shown>>

-----------------------------------------------------------------------------
(* A reset locks the page and stops the sequencer where it is; the channels *)
(* keep their registers and stay enabled. *)
asic_dev_reset ==
  /\ lock' = [locked |-> TRUE, pos |-> 0, page_on |-> FALSE]
  /\ bus' = [bus EXCEPT !.phase = "idle"]
  /\ pri' = FALSE
  /\ UNCHANGED <<dma, vregs, vid_gen, shown>>

(* A snapshot brings other registers; the generation goes on from the live  *)
(* one so that the copy is taken again.                                     *)
asic_load(v) ==
  /\ bus.phase = "idle"
  /\ vregs' = v /\ Move(1)
  /\ UNCHANGED <<lock, dma, bus, pri, shown>>

AsicInit ==
  /\ lock = [locked |-> TRUE, pos |-> 0, page_on |-> FALSE]
  /\ dma = [c \in Channels |-> [source |-> 0, enabled |-> FALSE, pause |-> 0, loops |-> 0,
                                loop_addr |-> 0, int |-> FALSE]]
  /\ bus = [phase |-> "idle", cur |-> 0, fired |-> FALSE]
  /\ pri = FALSE /\ vregs = 0 /\ vid_gen = 1 /\ shown = 0

Sequencer == LineTrigger \/ BusGranted \/ Fetch \/ Exec \/ PsgWrite \/ DmaAdvance

AsicNext ==
  \/ \E v \in KnockBytes : feed_knock(v)
  \/ \E on \in BOOLEAN : MapPage(on)
  \/ \E v \in Values : WriteVideo(v) \/ snoop_classic_palette(v) \/ asic_load(v)
  \/ \E c \in Channels, a \in Starts : WriteSource(c, a)
  \/ \E on \in SUBSET Channels : WriteEnable(on)
  \/ \E raster \in BOOLEAN : LineStart(raster)
  \/ refresh \/ Sequencer \/ IntAck \/ asic_dev_reset

-----------------------------------------------------------------------------
(* A copy is never stale: a video copy whose generation is the live one     *)
(* holds the live registers, so skipping the refresh changes nothing        *)
(* (the comment on the skip in video.cpp).                                  *)
CopyIsCurrent == vid_gen = 0 => shown = vregs

(* The sequencer owes the bus back, whatever the lists hold and also when   *)
(* the guest disables the channels or the machine is reset between the      *)
(* request and the grant.                                                   *)
BusOwed == bus.phase # "idle"
=============================================================================
