----------------------------- MODULE HostPorts -----------------------------
(* The host's side of the serial and printer ports: the backend object a user
   configures (src/src/serial_interface.cpp), the printer's event ring
   (src/src/hw/printer.cpp), and the hand over between host and devices at the
   start of every frame (src/src/subcycle_bridge.cpp).                           *)
EXTENDS Serial

CONSTANTS Backends,     \* backend types a user chooses from
          MaxObjs,      \* bound on the backend objects a run creates
          MaxInput,     \* bound on bytes waiting in a backend
          RingSize      \* events the printer's ring holds, 64

VARIABLES sif,      \* SerialInterface: configuration and the backend object
          printer,  \* printer_state: strobe and event ring; the capture file
          hostpc    \* where a thread is in apply_config

hostVars == <<sif, printer, hostpc>>

NoBackend == [id |-> NoObj, kind |-> Nothing, open |-> FALSE, waiting |-> 0]

HostPortsInit ==
  /\ sif = [enabled |-> FALSE, type |-> "null", made |-> 0, backend |-> NoBackend]
  /\ printer = [strobe |-> FALSE, ring |-> 0, file |-> TRUE]
  /\ hostpc = "idle"

-----------------------------------------------------------------------------
(* Configuration, from the IPC thread or the options dialog.                   *)

(* set_config, then apply_config up to the deletion of the old backend.        *)
set_config ==
  /\ hostpc = "idle" /\ sif.made < MaxObjs
  /\ \E e \in BOOLEAN, t \in Backends :
       sif' = [sif EXCEPT !.enabled = e, !.type = t, !.backend = NoBackend]
  /\ hostpc' = "apply"
  /\ UNCHANGED <<wireVars, printer>>

(* What open() can come to: a file, device or host may be missing, TCP counts a
   connection in progress as connected, the others always open.                 *)
backend_open(t) == IF t \in {"file", "device", "tcp"} THEN BOOLEAN ELSE {TRUE}

(* The rest of apply_config: a new object of the configured type, opened.      *)
apply_config ==
  /\ hostpc = "apply"
  /\ \/ /\ ~sif.enabled
        /\ UNCHANGED sif
     \/ /\ sif.enabled
        /\ \E o \in backend_open(sif.type) :
             sif' = [sif EXCEPT !.made = @ + 1,
                                !.backend = [id |-> sif.made + 1, kind |-> sif.type,
                                             open |-> o, waiting |-> 0]]
  /\ hostpc' = "idle"
  /\ UNCHANGED <<wireVars, printer>>

(* Bytes from outside reach a backend that has an input.                       *)
backend_receive ==
  /\ sif.backend.open /\ sif.backend.kind \in {"file", "device", "tcp"}
  /\ sif.backend.waiting < MaxInput
  /\ sif' = [sif EXCEPT !.backend.waiting = @ + 1]
  /\ UNCHANGED <<wireVars, printer, hostpc>>

-----------------------------------------------------------------------------
(* The printer port.                                                           *)

(* OUT &EFxx with the strobe bit: a falling strobe queues the byte; a full ring
   gives up its oldest.                                                         *)
push_event(n) == IF n = RingSize THEN n ELSE n + 1

printer_tick ==
  /\ \E s \in BOOLEAN :
       printer' = IF printer.strobe /\ ~s
                    THEN [printer EXCEPT !.strobe = s, !.ring = push_event(@)]
                    ELSE [printer EXCEPT !.strobe = s]
  /\ UNCHANGED <<wireVars, sif, hostpc>>

printer_dev_reset == [printer EXCEPT !.strobe = TRUE, !.ring = 0]

(* printer_start and printer_stop open and close the capture file.             *)
printer_file ==
  /\ printer' = [printer EXCEPT !.file = ~@]
  /\ UNCHANGED <<wireVars, sif, hostpc>>

-----------------------------------------------------------------------------
(* The start of a frame.                                                       *)

(* Mutant: plugging the plotter leaves the host's transmit hook.               *)
serial_hook_kept(plot) ==
  IF plot THEN card.tx ELSE sif.backend.id

(* set_serial_host_tx: the object the device calls for every byte it sends.    *)
serial_hook(plot) ==
  IF plot \/ ~sif.enabled THEN NoObj ELSE sif.backend.id

(* sync_serial_backend pours everything the backend has into the FIFO.         *)
sync_serial_backend(c, plot) ==
  IF ~sif.enabled \/ plot \/ sif.backend.waiting = 0 THEN c
  ELSE LET n == sif.backend.waiting
           room == FifoSize - Len(c.fifo)
           k == IF n < room THEN n ELSE room
       IN [c EXCEPT !.fifo = @ \o [i \in 1..k |-> Sym("host", 0)],
                    !.err = @ \/ n > room, !.lost = @ \/ n > room]

(* sync_peripheral_flags and sync_serial_backend, at the top of a frame.       *)
sync_peripheral_flags ==
  LET plot == sif.enabled /\ sif.type = "plotter"
      c == [card EXCEPT !.plugged = sif.enabled, !.tx = serial_hook(plot)]
  IN /\ card' = sync_serial_backend(c, plot)
     /\ plt' = [plt EXCEPT !.plugged = plot]
     /\ sif' = IF plot \/ ~sif.enabled THEN sif ELSE [sif EXCEPT !.backend.waiting = 0]
     /\ printer' = IF printer.file THEN [printer EXCEPT !.ring = 0] ELSE printer
     /\ UNCHANGED <<pen, guest, hostpc>>

HostReset ==
  /\ SerialReset
  /\ printer' = printer_dev_reset
  /\ UNCHANGED <<sif, hostpc>>

HostPortsNext ==
  \/ set_config \/ apply_config \/ backend_receive \/ printer_tick \/ printer_file
  \/ sync_peripheral_flags \/ HostReset
  \/ (wake_serial \/ fifo_pop \/ dart_ctrl_write \/ \E b \in guest.text : DriverSends(b))
     /\ UNCHANGED hostVars

(* The plotter and a host backend never both get a byte: while the plotter is on
   the cable no transmit hook is set, whatever order of configuration changes,
   frames and resets led there.                                                  *)
PlotterOrBackend == plt.plugged => card.tx = NoObj

(* Bytes lost because the FIFO was full when a frame poured the backend into it
   show in the overrun bit until the guest clears it.                            *)
LossIsFlagged == card.lost => card.err

=============================================================================
