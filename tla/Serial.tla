------------------------------ MODULE Serial ------------------------------
(* The RS232 card (src/src/hw/rs232.cpp) and the HP 7470A plotter on its cable
   (src/src/hw/plotter_hp7470a.cpp), with the driver a CPC program runs.

   A byte on the wire is one symbol and takes one step: the ten bit times of a
   frame are not counted, so card and plotter run at the same rate.  An HP-GL
   command with its semicolon is one symbol; a label is its opening, its text and
   its terminator with a semicolon.  Coordinates are not modelled.               *)
EXTENDS Integers, Sequences

CONSTANTS Streams,     \* sets of symbols: what a guest program sends
          Drivers,     \* how the guest's driver keeps to the handshake
          FifoSize,    \* RX_FIFO_SIZE, 3 in the code
          InBuf,       \* INBUF_SIZE, 255
          RespSize,    \* RESP_SIZE, 32
          EnqMax,      \* the most ENQ promises, 128
          XoffBelow,   \* XOFF_BELOW_FREE, 32
          XonAbove,    \* XON_ABOVE_FREE, 128
          MaxSegs      \* PLOTTER_MAX_SEGS, 16384

ASSUME SerialAssumption ==
  /\ {FifoSize, InBuf, RespSize, EnqMax, XoffBelow, XonAbove, MaxSegs} \subseteq Nat
  /\ XoffBelow <= XonAbove + 1 /\ XonAbove < InBuf

Nothing == "-"   \* no byte
ASSUME StreamAssumption == Nothing \notin UNION Streams

NoObj == 0
Polite == {"xonxoff", "enq"}   \* drivers that read every byte in time

VARIABLES card,   \* rs232_state: transmitter, receive FIFO, errors, host_tx_ctx
          plt,    \* plotter_state: input buffer, flow control, responses
          pen,    \* plotter_state: the HP-GL interpreter and its page
          guest   \* the driver running on the CPC

wireVars == <<card, plt, pen, guest>>

Reset7470(p) ==
  [p EXCEPT !.in = <<>>, !.resp = <<>>, !.flow = Nothing, !.stopped = FALSE, !.shift = <<>>]
ResetCard(c) ==
  [c EXCEPT !.buf = Nothing, !.shift = Nothing, !.fifo = <<>>, !.err = FALSE, !.lost = FALSE, !.tx = NoObj]
InitPen(g) ==
  [g EXCEPT !.pen = 0, !.down = FALSE, !.line = FALSE, !.scaled = FALSE, !.label = FALSE, !.len = 0]
BlankPage(g) == [g EXCEPT !.segs = 0, !.over = FALSE]

SerialInit ==
  /\ card = [plugged |-> TRUE, lost |-> FALSE, buf |-> Nothing, shift |-> Nothing, fifo |-> <<>>,
             err |-> FALSE, tx |-> NoObj]
  /\ plt = [plugged |-> TRUE, dropped |-> FALSE, in |-> <<>>, resp |-> <<>>, flow |-> Nothing,
            stopped |-> FALSE, shift |-> <<>>]
  /\ pen = [pen |-> 0, down |-> FALSE, line |-> FALSE, scaled |-> FALSE, label |-> FALSE, len |-> 0,
            segs |-> 0, over |-> FALSE]
  /\ guest \in [drv : Drivers, text : Streams, stopped : {FALSE}, credit : {0},
                wait : {Nothing}, inlabel : {FALSE}]

-----------------------------------------------------------------------------
(* The card.                                                                  *)

(* A full FIFO drops the byte and raises the overrun bit; `lost' remembers it. *)
fifo_push(c, b) ==
  IF Len(c.fifo) >= FifoSize
    THEN [c EXCEPT !.err = TRUE, !.lost = TRUE]
    ELSE [c EXCEPT !.fifo = Append(@, b)]

chan_a_reset(c) ==
  [c EXCEPT !.fifo = <<>>, !.err = FALSE, !.lost = FALSE, !.buf = Nothing, !.shift = Nothing]

(* WR0 command 3 resets channel A, command 6 the error latches.                *)
dart_ctrl_write ==
  /\ card.plugged /\ guest.drv \notin Polite
  /\ card' \in {chan_a_reset(card), [card EXCEPT !.err = FALSE, !.lost = FALSE]}
  /\ UNCHANGED <<plt, pen, guest>>

(* RR0 shows an empty transmit buffer; a driver that polls it writes only then. *)
rr0_tx_empty == card.buf = Nothing

(* OUT &FADC: one byte to the transmitter (and to the host, if host_tx is set). *)
data_write(b) ==
  card' = IF card.plugged THEN [card EXCEPT !.buf = b] ELSE card

(* The shifter takes the buffered byte; RR0 shows the buffer empty again.       *)
tx_start ==
  /\ card.plugged /\ card.shift = Nothing /\ card.buf # Nothing
  /\ card' = [card EXCEPT !.shift = card.buf, !.buf = Nothing]
  /\ UNCHANGED <<plt, pen, guest>>

rs232_quiet == card.buf = Nothing /\ card.shift = Nothing

-----------------------------------------------------------------------------
(* The plotter: what the wire brings and what it sends back.                   *)

in_free(p) == InBuf - Len(p.in)

(* resp_push: bytes beyond the queue's end are dropped.                        *)
resp_push(p, s) ==
  [p EXCEPT !.resp = SubSeq(@ \o s, 1, IF Len(@) + Len(s) > RespSize THEN RespSize
                                                                     ELSE Len(@) + Len(s))]

Sym(s, n) == [s |-> s, n |-> n]
Answer(v) == <<v, Sym("cr", 0)>>
(* Mutant: ENQ promises what the buffer holds when it is empty.                *)
on_receive_byte_boasts(p, b) ==
  IF b = "ENQ" THEN resp_push(p, Answer(Sym("free", EnqMax)))
  ELSE [p EXCEPT !.in = IF Len(@) < InBuf THEN Append(@, b) ELSE @,
                 !.dropped = @ \/ Len(p.in) >= InBuf]

(* ENQ is answered at once, past the buffer; any other byte waits in it, and a
   byte that finds it full is lost.  XOFF is due once too little is free.       *)
on_receive_byte(p, b) ==
  LET Credit == IF in_free(p) < EnqMax THEN in_free(p) ELSE EnqMax
  IN
  IF b = "ENQ" THEN resp_push(p, Answer(Sym("free", Credit)))
  ELSE LET q == [p EXCEPT !.in = IF Len(@) < InBuf THEN Append(@, b) ELSE @,
                          !.dropped = @ \/ Len(p.in) >= InBuf]
       IN IF ~q.stopped /\ in_free(q) < XoffBelow
            THEN [q EXCEPT !.stopped = TRUE, !.flow = "XOFF"] ELSE q

(* The stop bit of the card's frame: the plotter, if plugged, has the byte.  Both
   directions run at one rate, so an XOFF reaches a driver that obeys it before
   the XoffBelow bytes still free are gone.                                      *)
tx_end ==
  /\ card.plugged /\ card.shift # Nothing
  /\ guest.drv = "xonxoff" => in_free(plt) > 0
  /\ plt' = IF plt.plugged THEN on_receive_byte(plt, card.shift) ELSE plt
  /\ card' = [card EXCEPT !.shift = Nothing]
  /\ UNCHANGED <<pen, guest>>

(* Mutant: a response waiting goes out before the flow character.              *)
plt_tx_start_answers_first ==
  /\ plt.plugged /\ plt.shift = <<>>
  /\ \/ plt.resp # <<>> /\ plt' = [plt EXCEPT !.shift = <<Head(plt.resp)>>, !.resp = Tail(@), !.flow = Nothing]
     \/ plt.flow # Nothing /\ plt.resp = <<>>
        /\ plt' = [plt EXCEPT !.shift = <<Sym(plt.flow, 0)>>, !.flow = Nothing]
  /\ UNCHANGED <<card, pen, guest>>

(* The plotter's transmitter: a flow character before any response.            *)
plt_tx_start ==
  /\ plt.plugged /\ plt.shift = <<>>
  /\ \/ /\ plt.flow # Nothing
        /\ plt' = [plt EXCEPT !.shift = <<Sym(plt.flow, 0)>>, !.flow = Nothing]
     \/ /\ plt.flow = Nothing /\ plt.resp # <<>>
        /\ plt' = [plt EXCEPT !.shift = <<Head(plt.resp)>>, !.resp = Tail(@)]
  /\ UNCHANGED <<card, pen, guest>>

(* The card's receiver has the plotter's byte.  A polite driver has read the
   previous ones by then: a byte takes a millisecond at 9600 baud.              *)
rx_end ==
  /\ card.plugged /\ plt.shift # <<>>
  /\ guest.drv \in Polite => Len(card.fifo) < FifoSize
  /\ card' = fifo_push(card, Head(plt.shift))
  /\ plt' = [plt EXCEPT !.shift = <<>>]
  /\ UNCHANGED <<pen, guest>>

-----------------------------------------------------------------------------
(* The HP-GL interpreter.                                                      *)

seg_push(g) ==
  IF g.segs >= MaxSegs THEN [g EXCEPT !.over = TRUE] ELSE [g EXCEPT !.segs = @ + 1]

cmd_IN(g) == [g EXCEPT !.pen = 0, !.down = FALSE, !.line = FALSE, !.scaled = FALSE]
cmd_DF(g) == [g EXCEPT !.line = FALSE, !.scaled = FALSE]
cmd_SP(g, n) == [g EXCEPT !.down = FALSE, !.pen = IF n \in 0..2 THEN n ELSE 0]
cmd_PU(g) == [g EXCEPT !.down = FALSE]

move_to(g) == IF g.down /\ g.pen > 0 THEN seg_push(g) ELSE g

cmd_PD(g) == move_to([g EXCEPT !.down = TRUE])
cmd_CI(g) == IF g.pen > 0 THEN seg_push(g) ELSE g
cmd_EA(g) == IF g.pen > 0 THEN seg_push(seg_push(seg_push(seg_push(g)))) ELSE g
cmd_SC(g, good) == [g EXCEPT !.scaled = @ \/ good]   \* an empty range changes nothing
cmd_LB(g) == IF g.len = 0 \/ g.pen = 0 THEN g ELSE seg_push(g)

process_command(g, c) ==
  CASE c = "IN" -> cmd_IN(g)
    [] c = "DF" -> cmd_DF(g)
    [] c = "SP1" -> cmd_SP(g, 1)
    [] c = "SP9" -> cmd_SP(g, 9)
    [] c = "PU" -> cmd_PU(g)
    [] c = "PD" -> cmd_PD(g)
    [] c \in {"PA", "PR"} -> move_to(g)
    [] c \in {"CI", "AA", "AR"} -> cmd_CI(g)   \* an arc about the pen itself draws nothing either
    [] c \in {"EA", "ER"} -> cmd_EA(g)
    [] c = "LT" -> [g EXCEPT !.line = TRUE]
    [] c = "SC" -> cmd_SC(g, TRUE)
    [] c = "SC0" -> cmd_SC(g, FALSE)
    [] OTHER -> g

(* In a label every byte up to the terminator is text; LB opens one as soon as
   its second letter is in.                                                     *)
parser_feed(g, c) ==
  IF g.label
    THEN IF c = "ETX" THEN [cmd_LB(g) EXCEPT !.label = FALSE, !.len = 0]
                      ELSE [g EXCEPT !.len = 1]
    ELSE IF c = "LB" THEN [g EXCEPT !.label = TRUE, !.len = 0]
                     ELSE process_command(g, c)

(* query_feed scans the same bytes for OS, OD and OI.                          *)
query_feed(p, c) == IF c = "OS" THEN resp_push(p, Answer(Sym("status", 0))) ELSE p

(* One byte leaves the buffer every DRAIN_BYTE_TIMES byte times: parsed, scanned
   for a query, and XON is due once enough is free again.                       *)
service_input ==
  /\ plt.plugged /\ plt.in # <<>>
  /\ LET q == query_feed([plt EXCEPT !.in = Tail(@)], Head(plt.in))
     IN plt' = IF q.stopped /\ in_free(q) > XonAbove
                 THEN [q EXCEPT !.stopped = FALSE, !.flow = "XON"] ELSE q
  /\ pen' = parser_feed(pen, Head(plt.in))
  /\ UNCHANGED <<card, guest>>

plotter_hp7470a_clear_page ==
  /\ pen' = BlankPage(pen)
  /\ UNCHANGED <<card, plt, guest>>

(* Mutant: the quiet test forgets the flow character.                          *)
plotter_hp7470a_quiet_deaf ==
  plt.shift = <<>> /\ plt.in = <<>> /\ plt.resp = <<>>

plotter_hp7470a_quiet ==
  plt.shift = <<>> /\ plt.in = <<>> /\ plt.resp = <<>> /\ plt.flow = Nothing

(* The machine ticks the pair unless both were quiet after the last tick
   (wake_slot); an access to the card's ports wakes it.                         *)
Awake == ~(rs232_quiet /\ plotter_hp7470a_quiet)

wake_serial == Awake /\ (tx_start \/ tx_end \/ plt_tx_start \/ rx_end \/ service_input)

-----------------------------------------------------------------------------
(* The driver.  It polls RR0 before a write; "xonxoff" stops at XOFF until XON,
   "enq" sends only what an answer to ENQ allowed, "deaf" does neither.  A polite
   driver waits for the answer of a query and asks none inside a label.         *)

DriverSends(b) ==
  /\ rr0_tx_empty
  /\ guest.drv \in Polite => guest.wait = Nothing /\ (b = "OS" => ~guest.inlabel)
  /\ guest.drv = "xonxoff" => ~guest.stopped /\ b # "ENQ"
  /\ guest.drv = "enq" => (b = "ENQ") = (guest.credit = 0)
  /\ data_write(b)
  /\ guest' = [guest EXCEPT !.credit = IF b = "ENQ" \/ guest.drv # "enq" THEN 0 ELSE @ - 1,
                            !.wait = IF b \in {"ENQ", "OS"} /\ guest.drv \in Polite THEN "cr" ELSE Nothing,
                            !.inlabel = IF b \in {"LB", "ETX"} THEN b = "LB" ELSE @]
  /\ UNCHANGED <<plt, pen>>

(* IN &FADC: fifo_pop, and what the driver makes of the byte.                  *)
fifo_pop ==
  /\ card.plugged /\ card.fifo # <<>>
  /\ card' = [card EXCEPT !.fifo = Tail(@)]
  /\ LET b == Head(card.fifo)
     IN guest' = [guest EXCEPT !.stopped = IF b.s \in {"XOFF", "XON"} THEN b.s = "XOFF" ELSE @,
                               !.wait = IF b.s = "cr" THEN Nothing ELSE @,
                               !.credit = IF b.s = "free" /\ guest.drv = "enq" THEN b.n ELSE @]
  /\ UNCHANGED <<plt, pen>>

(* A machine reset clears both devices; the page, the plugs and, on the host's
   side, nothing else survive.                                                  *)
SerialReset ==
  /\ card' = ResetCard(card) /\ plt' = Reset7470(plt) /\ pen' = InitPen(pen)
  /\ guest' = [guest EXCEPT !.stopped = FALSE, !.credit = 0, !.wait = Nothing, !.inlabel = FALSE]

WireNext ==
  \/ wake_serial \/ fifo_pop \/ dart_ctrl_write \/ SerialReset \/ plotter_hp7470a_clear_page
  \/ \E b \in guest.text \union {"ENQ"} : DriverSends(b)

SerialTypeOK ==
  /\ Len(card.fifo) <= FifoSize /\ Len(plt.in) <= InBuf /\ Len(plt.resp) <= RespSize
  /\ pen.pen \in 0..2 /\ pen.segs <= MaxSegs
  /\ guest.credit \in 0..EnqMax /\ plt.flow \in {Nothing, "XOFF", "XON"}

(* A driver that sends only what ENQ's answer allowed never fills the plotter's
   buffer: in_free in on_receive_byte is a promise the buffer keeps, whatever
   XON/XOFF and queries are under way (plotter-device.md: "ENQ answers are
   honest").                                                                    *)
EnqIsHonest == guest.drv = "enq" => ~plt.dropped

(* Flow characters overtake responses and replace each other, yet with none on
   the way the driver's idea of XON/XOFF is the plotter's: a stop or a go is
   never lost between flow_pending, the shifter and the FIFO.                    *)
FlowInFlight ==
  \/ plt.flow # Nothing
  \/ \E i \in 1..Len(plt.shift) : plt.shift[i].s \in {"XOFF", "XON"}
  \/ \E i \in 1..Len(card.fifo) : card.fifo[i].s \in {"XOFF", "XON"}
FlowAgrees ==
  guest.drv \in Polite /\ ~FlowInFlight => guest.stopped = plt.stopped

(* A polite driver stopped by XOFF or waiting for an answer is owed the XON or
   the answer: the plotter drains, and the machine never puts the pair to sleep
   with either still to send.                                                    *)
DriverOwed ==
  guest.drv \in Polite /\ (guest.wait # Nothing \/ (guest.drv = "xonxoff" /\ guest.stopped))
=============================================================================
