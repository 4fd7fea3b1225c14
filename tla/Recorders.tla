----------------------------- MODULE Recorders -----------------------------
(* What leaves the emulator as a stream: the WAV, YM and AVI recorders
   (src/src/wav_recorder.cpp, src/src/ym_recorder.cpp, src/src/avi_recorder.cpp),
   started and stopped by the IPC server or the DevTools and fed by the Z80 thread,
   every call under the recorder's own mutex; and the telnet console
   (src/src/telnet_console.cpp), whose output ring is written by the Z80 thread and
   emptied by the server thread without a lock.

   A sample block, a PSG frame, a picture is one unit, numbered in the order it was
   produced; a file is the sequence of units and headers in it.                    *)
EXTENDS Integers, Sequences, SequencesExt, FiniteSets

CONSTANTS MaxUnits,    \* bound: units produced
          RingSlots,   \* OUTPUT_BUF_SIZE
          MaxPending,  \* MAX_PENDING_INPUT
          Typed        \* what a telnet client may send in one packet

ASSUME RecAssumption == RingSlots \in Nat \ {0}

VARIABLES wav,         \* WavRecorder and its file
          ym,          \* YmRecorder and its file
          avi,         \* AviRecorder and its file
          made,        \* history: units made while a recorder was on, per recorder
          tel,         \* TelnetConsole: ring, indices, what each thread holds
          tin          \* telnet input: pending_input, what has been enqueued, packets sent

recVars == <<wav, ym, avi, made>>
telVars == <<tel, tin>>

(* --- WAV ------------------------------------------------------------------------- *)
\* size: the length field of the data chunk, which write_header leaves at zero
NoWav == [on |-> FALSE, bytes |-> 0, data |-> <<>>, size |-> 0, error |-> FALSE]

wav_start ==
  /\ ~wav.on
  /\ wav' = [on |-> TRUE, bytes |-> 0, data |-> <<>>, size |-> 0, error |-> FALSE]
  /\ made' = [made EXCEPT !.wav = <<>>]
  /\ UNCHANGED <<ym, avi>>

\* fwrite may come up short: the disc is full
write_samples ==
  /\ wav.on /\ Len(made.wav) < MaxUnits
  /\ LET n == Len(made.wav) + 1
     IN  /\ made' = [made EXCEPT !.wav = Append(@, n)]
         /\ \/ wav' = [wav EXCEPT !.data = Append(@, n), !.bytes = @ + 1]
            \/ wav' = [wav EXCEPT !.error = TRUE]
  /\ UNCHANGED <<ym, avi>>

\* Mutant: the counter is reset before the header is patched
wav_stop_early ==
  /\ wav.on
  /\ wav' = [wav EXCEPT !.on = FALSE, !.bytes = 0, !.size = 0]
  /\ UNCHANGED <<ym, avi, made>>

wav_closed == wav' = [wav EXCEPT !.on = FALSE, !.bytes = 0, !.size = wav.bytes]   \* finalize_header

wav_stop == wav.on /\ wav_closed /\ UNCHANGED <<ym, avi, made>>

(* --- YM: frames are kept in memory, the file is written at the end ------------------- *)
NoYm == [on |-> FALSE, frames |-> <<>>, file |-> <<>>, count |-> 0, error |-> FALSE]

ym_start ==
  /\ ~ym.on
  /\ ym' = [on |-> TRUE, frames |-> <<>>, file |-> <<>>, count |-> 0, error |-> FALSE]
  /\ made' = [made EXCEPT !.ym = <<>>]
  /\ UNCHANGED <<wav, avi>>

capture_frame ==
  /\ ym.on /\ Len(made.ym) < MaxUnits
  /\ ym' = [ym EXCEPT !.frames = Append(@, Len(made.ym) + 1)]
  /\ made' = [made EXCEPT !.ym = Append(@, Len(made.ym) + 1)]
  /\ UNCHANGED <<wav, avi>>

\* write_ym5_file: the file may have become unwritable, or the disc full half way
ym_closed ==
  \/ ym' = [ym EXCEPT !.on = FALSE, !.frames = <<>>, !.file = ym.frames, !.count = Len(ym.frames)]
  \/ \E n \in 0..Len(ym.frames) :
       ym' = [ym EXCEPT !.on = FALSE, !.frames = <<>>, !.file = SubSeq(ym.frames, 1, n),
                        !.count = Len(ym.frames), !.error = TRUE]

ym_stop == ym.on /\ ym_closed /\ UNCHANGED <<wav, avi, made>>

(* --- AVI: a file of cells <<kind, number>>; pos is where the next cell goes ----------- *)
NoAvi == [on |-> FALSE, cells |-> <<>>, pos |-> 1, movi |-> 0, frames |-> 0, idx |-> <<>>,
          dims |-> "default", again |-> FALSE]

Put(s, cell) ==
  [s EXCEPT !.cells = IF s.pos <= Len(@) THEN [@ EXCEPT ![s.pos] = cell] ELSE Append(@, cell),
            !.pos = @ + 1]
SeekEnd(s) == [s EXCEPT !.pos = Len(s.cells) + 1]
Patch(s, at, n) == [s EXCEPT !.cells[at] = <<@[1], n>>]

\* RIFF, the hdrl list (avih, video strl, audio strl) and the head of the movi list; after
\* each list its size is patched and the file position set to the end of the file
write_headers(s) ==
  LET v == SeekEnd(Put(Put(Put(Put(s, <<"RIFF", 0>>), <<"hdrl", 0>>), <<"avih", 0>>), <<"vstrl", 0>>))
      a == SeekEnd(Put(v, <<"astrl", 0>>))
      h == SeekEnd(Patch(a, 2, a.pos - 3))
      m == Put(h, <<"movi", 0>>)
  IN  [m EXCEPT !.movi = h.pos]

avi_start ==
  /\ ~avi.on
  /\ avi' = write_headers([NoAvi EXCEPT !.on = TRUE])
  /\ made' = [made EXCEPT !.avi = <<>>]
  /\ UNCHANGED <<wav, ym>>

Chunk(s, kind, n) ==
  [Put(s, <<kind, n>>) EXCEPT !.idx = Append(@, <<kind, n, s.pos - s.movi>>)]

\* the first picture may have another size than the headers say: they are written again
capture_video_frame ==
  /\ avi.on /\ Len(made.avi) < MaxUnits
  /\ \E dims \in {"default", "other"} :
       LET n == Len(made.avi) + 1
           s == IF avi.frames = 0 /\ dims # avi.dims
                THEN [write_headers([avi EXCEPT !.pos = 1]) EXCEPT !.dims = dims, !.again = TRUE]
                ELSE avi
       IN  /\ avi' = [Chunk(s, "video", n) EXCEPT !.frames = @ + 1]
           /\ made' = [made EXCEPT !.avi = Append(@, n)]
  /\ UNCHANGED <<wav, ym>>

capture_audio_samples ==
  /\ avi.on /\ Len(made.avi) < MaxUnits
  /\ avi' = Chunk(avi, "audio", Len(made.avi) + 1)
  /\ made' = [made EXCEPT !.avi = Append(@, Len(made.avi) + 1)]
  /\ UNCHANGED <<wav, ym>>

\* finalize: the size of the movi list, the index, the RIFF size
avi_closed ==
  avi' = [Patch(Put(Patch(avi, avi.movi, avi.pos - avi.movi - 1), <<"idx1", Len(avi.idx)>>), 1, avi.pos)
          EXCEPT !.on = FALSE]

avi_stop == avi.on /\ avi_closed /\ UNCHANGED <<wav, ym, made>>

\* the Recording Controls window offers Record of what is idle and Stop of what is not, and
\* Stop All while anything records
recording_controls ==
  \/ wav_start \/ wav_stop \/ ym_start \/ ym_stop \/ avi_start \/ avi_stop
  \/ /\ wav.on \/ ym.on \/ avi.on
     /\ IF wav.on THEN wav_closed ELSE wav' = wav
     /\ IF ym.on THEN ym_closed ELSE ym' = ym
     /\ IF avi.on THEN avi_closed ELSE avi' = avi
     /\ UNCHANGED made

RecInit ==
  /\ wav = NoWav /\ ym = NoYm /\ avi = NoAvi
  /\ made = [wav |-> <<>>, ym |-> <<>>, avi |-> <<>>]

RecNext ==
  \/ write_samples \/ capture_frame \/ capture_video_frame \/ capture_audio_samples
  \/ recording_controls

(* --- the telnet console ------------------------------------------------------------------ *)
\* writing: the byte on_txt_output has stored but not yet published, or 0; batch: the server
\* thread's flush_buf; upto: the head it loaded; at: its tail; kinds: of each byte number
NoTel == [ring |-> [i \in 0..(RingSlots - 1) |-> 0], head |-> 0, tail |-> 0, writing |-> 0,
          n |-> 0, kinds |-> <<>>, stage |-> "select", at |-> 0, upto |-> 0, batch |-> <<>>,
          client |-> FALSE, out |-> <<>>, dropped |-> {}]

\* Mutant: a full ring is not noticed
on_txt_output_unchecked ==
  /\ tel.writing = 0 /\ tel.n < MaxUnits
  /\ \E kind \in {"print", "cr", "junk"} :
       tel' = [tel EXCEPT !.n = @ + 1, !.kinds = Append(@, kind), !.ring[tel.head] = tel.n + 1,
                          !.writing = tel.n + 1]
  /\ UNCHANGED tin

\* the first half of on_txt_output: a full ring drops the byte
on_txt_output ==
  /\ tel.writing = 0 /\ tel.n < MaxUnits
  /\ \E kind \in {"print", "cr", "junk"} :
       LET n == tel.n + 1
           full == (tel.head + 1) % RingSlots = tel.tail
       IN  tel' = IF full
                  THEN [tel EXCEPT !.n = n, !.kinds = Append(@, kind), !.dropped = @ \cup {n}]
                  ELSE [tel EXCEPT !.n = n, !.kinds = Append(@, kind), !.ring[tel.head] = n,
                                   !.writing = n]
  /\ UNCHANGED tin

publish_output ==
  /\ tel.writing # 0
  /\ tel' = [tel EXCEPT !.writing = 0, !.head = (tel.head + 1) % RingSlots]
  /\ UNCHANGED tin

\* one turn of run(): a new client replaces the old one, the old one may be gone
telnet_select ==
  /\ tel.stage = "select"
  /\ \E client \in BOOLEAN :
       tel' = IF client THEN [tel EXCEPT !.client = TRUE, !.stage = "drain", !.at = tel.tail,
                                         !.upto = tel.head, !.batch = <<>>]
              ELSE [tel EXCEPT !.client = FALSE]
  /\ UNCHANGED tin

\* the flush loop: CR becomes CR LF, what cannot be printed is left out; it stops when
\* flush_buf is full (0 in the batch is the LF)
telnet_drain ==
  /\ tel.stage = "drain"
  /\ IF tel.at = tel.upto \/ Len(tel.batch) >= RingSlots - 1
     THEN tel' = [tel EXCEPT !.stage = "send", !.tail = tel.at]
     ELSE LET n == tel.ring[tel.at]
              kind == IF n = 0 THEN "junk" ELSE tel.kinds[n]
              b == CASE kind = "print" -> <<n>>
                     [] kind = "cr"    -> IF Len(tel.batch) + 1 < RingSlots - 1 THEN <<n, 0>> ELSE <<n>>
                     [] kind = "junk"  -> <<>>
          IN  tel' = [tel EXCEPT !.at = (@ + 1) % RingSlots, !.batch = @ \o b,
                                 !.dropped = IF kind = "junk" THEN @ \cup {n} ELSE @]
  /\ UNCHANGED tin

\* a failed write drops the client and the batch
telnet_send ==
  /\ tel.stage = "send"
  /\ \/ tel' = [tel EXCEPT !.stage = "select", !.out = @ \o tel.batch, !.batch = <<>>]
     \/ /\ tel.batch # <<>>
        /\ tel' = [tel EXCEPT !.stage = "select", !.client = FALSE, !.batch = <<>>,
                              !.dropped = @ \cup Range(tel.batch)]
  /\ UNCHANGED tin

\* bytes of a client go to pending_input as far as there is room
telnet_recv ==
  /\ tel.stage = "select" /\ tel.client /\ Len(tin.sent) < 2
  /\ \E p \in Typed :
       tin' = [tin EXCEPT !.pending = SubSeq(@ \o p, 1, IF Len(@ \o p) < MaxPending THEN Len(@ \o p)
                                                       ELSE MaxPending),
                          !.sent = Append(@, p)]
  /\ UNCHANGED tel

\* the translation of a buffer: an arrow sequence is one key, CR LF one line end
Keys_(buf) ==
  LET is(i, c) == i <= Len(buf) /\ buf[i] = c
      k[i \in 1..(Len(buf) + 3)] ==
        IF i > Len(buf) THEN <<>>
        ELSE CASE is(i, "esc") /\ is(i + 1, "[") /\ i + 2 <= Len(buf) -> <<"arrow">> \o k[i + 3]
               [] is(i, "esc") /\ ~(is(i + 1, "[") /\ i + 2 <= Len(buf)) -> <<"ESC">> \o k[i + 1]
               [] is(i, "cr") -> <<"enter">> \o k[IF is(i + 1, "lf") THEN i + 2 ELSE i + 1]
               [] is(i, "lf") -> <<"enter">> \o k[i + 1]
               [] OTHER -> <<buf[i]>> \o k[i + 1]
  IN  k[1]

\* the Z80 thread, once a frame
drain_input ==
  /\ tin.pending # <<>>
  /\ tin' = [tin EXCEPT !.pending = <<>>, !.keys = @ \o Keys_(tin.pending)]
  /\ UNCHANGED tel

TelInit == tel = NoTel /\ tin = [pending |-> <<>>, keys |-> <<>>, sent |-> <<>>]
TelNext == \/ on_txt_output \/ publish_output \/ telnet_select \/ telnet_drain \/ telnet_send
           \/ telnet_recv \/ drain_input

(* --- properties ----------------------------------------------------------------------------- *)
\* a reader's walk over the file: hdrl, then movi, then the index, and the chunks where it says
AviReads(s) ==
  LET hd == s.cells[2][2]
      mv == 3 + hd
  IN  /\ SubSeq(s.cells, 3, mv - 1) = <<<<"avih", 0>>, <<"vstrl", 0>>, <<"astrl", 0>>>>
      /\ s.cells[mv][1] = "movi"
      /\ s.cells[mv + s.cells[mv][2] + 1][1] = "idx1"
      /\ \A i \in 1..Len(s.idx) : s.cells[mv + s.idx[i][3]] = <<s.idx[i][1], s.idx[i][2]>>

(* A recording that ended without an error flag is whole: the WAV header counts what is
   in the file, the WAV and YM files hold every unit made between start and stop, in
   order, and a reader of the AVI finds every chunk the index names - when the headers
   were not written a second time.                                                        *)
RecordingIsWhole ==
  /\ ~wav.on => wav.size = Len(wav.data)
  /\ ~wav.on /\ ~wav.error => wav.data = made.wav
  /\ ~ym.on /\ ~ym.error => ym.file = made.ym
  /\ ~avi.on /\ avi.cells # <<>> /\ ~avi.again => AviReads(avi) /\ Len(avi.idx) = Len(made.avi)


(* The telnet client sees the guest's characters in order, none twice and none left over
   from an earlier turn of the ring; a character that is not delivered was dropped by a
   full ring, unprintable, or lost with a client.                                          *)
TelnetInOrder ==
  LET all == tel.out \o tel.batch
      got == {n \in Range(all) : n # 0}
  IN  /\ \A i, j \in DOMAIN all : i < j /\ all[i] # 0 /\ all[j] # 0 => all[i] < all[j]
      /\ got \cap tel.dropped = {}
      /\ tel.stage = "select" /\ tel.head = tel.tail /\ tel.writing = 0 =>
           got \cup tel.dropped \cup {0} = 0..tel.n

=============================================================================
