-------------------------------- MODULE Tape --------------------------------
(***************************************************************************)
(* The cassette deck of src/src/hw/tape.cpp, and the bridge's per-frame    *)
(* sync that presses its buttons.  A tape is a sequence of blocks; only    *)
(* what a block makes the deck do is kept, with PulseMod standing for the  *)
(* 16-bit pulse counter and a data byte of one bit.                        *)
(***************************************************************************)
EXTENDS Naturals, Sequences, FiniteSets

CONSTANTS
  Tapes,       \* the tapes: sequences of block records
  PulseMod     \* 2^16 in the code: pulses_left is counted down modulo this

BlockKinds == {"turbo", "tone", "pulses", "data", "direct", "pause", "meta", "bad"}

(* A block: n counts its pilot pulses, pulses, recorded bytes or            *)
(* milliseconds, len its data bytes; pulse counts are fields of PulseMod.   *)
Blocks == [kind : BlockKinds, n : Nat, len : Nat, gap : BOOLEAN]

ASSUME TapeAssumption ==
  /\ PulseMod \in Nat \ {0}
  /\ Tapes \subseteq Seq(Blocks)
  /\ \A t \in Tapes : \A i \in DOMAIN t : t[i].kind \in {"turbo", "tone", "pulses"} => t[i].n < PulseMod
  /\ \E longest \in Tapes : \A t \in Tapes : Len(t) <= Len(longest)

MaxBlocks == CHOOSE n \in {Len(t) : t \in Tapes} : \A t \in Tapes : Len(t) <= n

VARIABLES
  tape,     \* the CDT attached, <<>> for none
  deck,     \* tape_state: next block, ordinal, phase, counters, playing, error
  tbutton,  \* CPC.tape_play_button, the app's PLAY key
  tseek,    \* tape_seek_req: 0 for none
  tmotor,   \* the PPI's motor line
  tline     \* line_mode: the level comes from outside

tapeVars == <<tape, deck, tbutton, tseek, tmotor, tline>>

TapeTypeOK ==
  /\ tape \in Tapes \cup {<<>>}
  /\ deck.nxt \in 1..(MaxBlocks + 1) /\ deck.at \in 0..MaxBlocks
  /\ deck.block \in 0..MaxBlocks
  /\ deck.phase \in {"idle", "pilot", "sync1", "sync2", "data", "pulseseq", "direct", "pause"}
  /\ deck.left \in 0..(PulseMod - 1)
  /\ deck.len \in Nat
  /\ deck.tone \in BOOLEAN /\ deck.gap \in BOOLEAN
  /\ deck.playing \in BOOLEAN /\ deck.error \in BOOLEAN
  /\ tbutton \in BOOLEAN /\ tseek \in 0..MaxBlocks
  /\ tmotor \in BOOLEAN /\ tline \in BOOLEAN

TapeInit ==
  /\ tape = <<>>
  /\ deck = [nxt |-> 1, block |-> 0, at |-> 0, phase |-> "idle", left |-> 0, len |-> 0,
             tone |-> FALSE, gap |-> FALSE, playing |-> FALSE, error |-> FALSE]
  /\ tbutton = FALSE /\ tseek = 0 /\ tmotor = FALSE /\ tline = FALSE

-----------------------------------------------------------------------------
stop(d) == [d EXCEPT !.playing = FALSE, !.phase = "idle"]

(* start_block: metadata and an empty direct recording are passed over and  *)
(* counted; the first block that does something is set up.  A block's       *)
(* ordinal is counted when it ends, and a pause block's never is.           *)
start_block(t, d) ==
  LET Passed(i) == t[i].kind = "meta" \/ (t[i].kind = "direct" /\ t[i].n = 0)
      FirstReal(i) ==
        CHOOSE j \in i..(Len(t) + 1) : /\ j <= Len(t) => ~Passed(j)
                                       /\ \A k \in i..(j - 1) : Passed(k)
      Begin(cur, b, j) ==
        LET e == [cur EXCEPT !.nxt = j + 1, !.at = j]
        IN CASE b.kind = "turbo" -> [e EXCEPT !.phase = "pilot", !.left = b.n, !.len = b.len,
                                              !.tone = FALSE, !.gap = b.gap]
             [] b.kind = "tone" -> [e EXCEPT !.phase = "pilot", !.left = b.n, !.len = 0,
                                             !.tone = TRUE, !.gap = FALSE]
             [] b.kind = "pulses" -> [e EXCEPT !.phase = "pulseseq", !.left = b.n, !.tone = FALSE]
             [] b.kind = "data" -> [e EXCEPT !.phase = "data", !.len = b.len, !.gap = b.gap,
                                             !.tone = FALSE]
             [] b.kind = "direct" -> [e EXCEPT !.phase = "direct", !.len = b.n, !.gap = b.gap,
                                               !.tone = FALSE]
             [] b.kind = "pause" -> IF b.n = 0 THEN stop(e) ELSE [e EXCEPT !.phase = "pause"]
             [] OTHER -> stop([cur EXCEPT !.error = TRUE])
  IN
  IF d.nxt > Len(t) THEN stop(d)
  ELSE LET j == FirstReal(d.nxt)
           e == [d EXCEPT !.block = @ + (j - d.nxt), !.nxt = j]
       IN  IF j > Len(t) THEN stop(e) ELSE Begin(e, t[j], j)

(* The pause asked for by the block that ends comes before the next one.    *)
next_block(t, d) ==
  LET e == [d EXCEPT !.block = @ + 1]
  IN  IF d.gap THEN [e EXCEPT !.phase = "pause", !.gap = FALSE] ELSE start_block(t, e)

Counting(t, d) ==
  LET \* The counter is decremented before it is tested: a block of no pulses plays
      \* PulseMod of them.
      CountDown == (d.left + PulseMod - 1) % PulseMod
  IN
  IF CountDown > 0 THEN [d EXCEPT !.left = CountDown]
  ELSE LET e == [d EXCEPT !.left = 0]
       IN  IF d.phase = "pilot" /\ ~d.tone THEN [e EXCEPT !.phase = "sync1"]
           ELSE next_block(t, e)

(* The end of the data is tested for equality, after the count. *)
pulse_done_past_end(t, d) ==
  CASE d.phase \in {"pilot", "pulseseq"} -> Counting(t, d)
    [] d.phase = "sync1" -> [d EXCEPT !.phase = "sync2"]
    [] d.phase = "sync2" -> [d EXCEPT !.phase = "data"]
    [] OTHER -> IF d.len = 1 THEN next_block(t, d)
                ELSE [d EXCEPT !.len = IF @ = 0 THEN 0 ELSE @ - 1]

(* One pulse is over.  A data block is one pulse per byte here; an empty    *)
(* one still plays its first.                                               *)
pulse_done(t, d) ==
  CASE d.phase \in {"pilot", "pulseseq"} -> Counting(t, d)
    [] d.phase = "sync1" -> [d EXCEPT !.phase = "sync2"]
    [] d.phase = "sync2" -> [d EXCEPT !.phase = "data"]
    [] OTHER -> IF d.len <= 1 THEN next_block(t, d) ELSE [d EXCEPT !.len = @ - 1]

(* A tick that ends the pulse or the pause in progress. *)
tape_tick ==
  /\ deck.playing /\ tmotor /\ deck.phase # "idle" /\ ~tline
  /\ deck' = IF deck.phase = "pause" THEN start_block(tape, deck) ELSE pulse_done(tape, deck)
  /\ UNCHANGED <<tape, tbutton, tseek, tmotor, tline>>

-----------------------------------------------------------------------------
(* The deck's controls. *)
tape_play(t, d, on) ==
  IF on /\ ~d.playing /\ t # <<>>
  THEN LET e == [d EXCEPT !.playing = TRUE]
       IN  IF e.phase = "idle" THEN start_block(t, e) ELSE e
  ELSE IF on THEN d ELSE [d EXCEPT !.playing = FALSE]

(* To a block: what was being played is dropped, and playing goes on from   *)
(* there.  The pause the dropped block had asked for is still remembered.   *)
GoTo(t, d, i) ==
  tape_play(t, [d EXCEPT !.nxt = i, !.block = i - 1, !.phase = "idle", !.error = FALSE,
                         !.playing = FALSE], d.playing)

(* The per-frame sync: the button first, then a seek asked for by the UI.   *)
FrameSync ==
  LET d == tape_play(tape, deck, tbutton)
  IN  /\ deck' = IF tseek \in 1..Len(tape) THEN GoTo(tape, d, tseek) ELSE d
      /\ tseek' = 0
      /\ UNCHANGED <<tape, tbutton, tmotor, tline>>

PressPlay(on) ==
  /\ tbutton # on /\ tbutton' = on
  /\ UNCHANGED <<tape, deck, tseek, tmotor, tline>>

RequestSeek(i) ==
  /\ tseek' = i
  /\ UNCHANGED <<tape, deck, tbutton, tmotor, tline>>

Motor(on) ==
  /\ tmotor # on /\ tmotor' = on
  /\ UNCHANGED <<tape, deck, tbutton, tseek, tline>>

(* Attaching a tape rewinds; a deck already playing plays it at once.       *)
Attach(t) ==
  /\ tape # t /\ tape' = t
  /\ deck' = GoTo(t, deck, 1)
  /\ UNCHANGED <<tbutton, tseek, tmotor, tline>>

EjectTape ==
  /\ tape # <<>> /\ tape' = <<>>
  /\ deck' = [stop(deck) EXCEPT !.error = FALSE]
  /\ UNCHANGED <<tbutton, tseek, tmotor, tline>>

(* tape line in, the external cable. *)
LineMode(on) ==
  /\ tline # on /\ tline' = on
  /\ UNCHANGED <<tape, deck, tbutton, tseek, tmotor>>

TapeNext ==
  \/ tape_tick \/ FrameSync \/ EjectTape
  \/ \E t \in Tapes : Attach(t)
  \/ \E i \in 1..Len(tape) : RequestSeek(i)
  \/ \E on \in BOOLEAN : PressPlay(on) \/ Motor(on) \/ LineMode(on)

-----------------------------------------------------------------------------
(* A deck left alone with the motor on and PLAY down owes its end of tape:  *)
(* it gets through every block and stops, whatever their pulse and byte     *)
(* counts are, zero included (pulse_done counts down a 16-bit field that a  *)
(* block may give as 0).                                                    *)
EndOwed(t) == tape = t /\ deck.playing /\ tmotor /\ ~tline /\ tseek = 0
=============================================================================
