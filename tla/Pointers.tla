----------------------------- MODULE Pointers -----------------------------
(* Mice and light gun: SDL events and IPC commands accumulate motion and buttons
   on the host (src/src/kon_cpc_ja.cpp, src/src/koncepcja_ipc_server.cpp,
   src/src/symbiface.cpp, src/src/amx_mouse.cpp); each frame hands them to the
   Symbiface PS/2 port, the AMX mouse and the gun (src/src/subcycle_bridge.cpp,
   src/src/hw/symbiface.cpp, src/src/hw/amx.cpp, src/src/hw/light_gun.cpp).

   One axis and one button stand for two and three.                              *)
EXTENDS Integers, Sequences

CONSTANTS FifoMax,   \* packets a FIFO holds, 63 in the code
          MaxMove    \* the most mickeys the device holds, 32767, and the host's bound

VARIABLES ipcmouse,  \* IpcMousePending: motion, button, dirty
          hostfifo,  \* SF2_Mouse: the host's packets and its last button state
          sf2mouse,  \* sf2_state: the device's packets
          amx,       \* accumulated mickeys on the host and in the device, row 9
          gun,       \* IpcGunPending, CPC.phazer_* and light_gun_state
          seen       \* what the guest has made of it: its buttons, lost packets

ASSUME PointAssumption == FifoMax \in Nat

pointVars == <<ipcmouse, hostfifo, sf2mouse, amx, gun, seen>>

PointInit ==
  /\ ipcmouse = [d |-> 0, button |-> FALSE, dirty |-> FALSE]
  /\ hostfifo = [q |-> <<>>, last |-> FALSE]
  /\ sf2mouse = <<>>
  /\ amx = [host |-> 0, dev |-> 0, button |-> FALSE, sel |-> FALSE, armed |-> FALSE]
  /\ gun = [ask |-> "none", pressed |-> FALSE, dev |-> FALSE]
  /\ seen = [button |-> FALSE, lost |-> FALSE]

Button(b) == [k |-> "button", b |-> b]
Push(q, p) == IF Len(q) >= FifoMax THEN q ELSE Append(q, p)

(* Mutant: the button state is remembered only when it changes to pressed.    *)
symbiface_mouse_update_press(dx, b) ==
  LET q == IF dx # 0 THEN Push(hostfifo.q, [k |-> "move", b |-> FALSE]) ELSE hostfifo.q
  IN hostfifo' = IF b /\ ~hostfifo.last THEN [q |-> Push(q, Button(b)), last |-> b]
                                        ELSE [hostfifo EXCEPT !.q = q]

(* Motion becomes one packet, clamped to 31; a changed button one more.
   A full FIFO drops the packet though the new state is remembered.            *)
symbiface_mouse_update(dx, b) ==
  LET q == IF dx # 0 THEN Push(hostfifo.q, [k |-> "move", b |-> FALSE]) ELSE hostfifo.q
  IN hostfifo' = IF b # hostfifo.last THEN [q |-> Push(q, Button(b)), last |-> b]
                                      ELSE [hostfifo EXCEPT !.q = q]

Overflow(q, n) == Len(q) + n > FifoMax

Clamp(x) == IF x > MaxMove THEN MaxMove ELSE IF x < -MaxMove THEN -MaxMove ELSE x

amx_mouse_update(dx, b) ==
  amx' = [amx EXCEPT !.host = Clamp(@ + dx), !.button = b]   \* the clamp is the bound

(* SDL mouse motion: both mice see it.                                         *)
MouseMotion ==
  /\ \E dx \in {-1, 1}, b \in BOOLEAN :
       /\ symbiface_mouse_update(dx, b) /\ amx_mouse_update(dx, b)
       /\ seen' = [seen EXCEPT !.lost = @ \/ Overflow(hostfifo.q, IF b # hostfifo.last THEN 2 ELSE 1)]
  /\ UNCHANGED <<ipcmouse, sf2mouse, gun>>

(* IPC "input mouse move|button": accumulated under a mutex for the main loop.  *)
ipc_input_mouse ==
  /\ \/ \E dx \in {-1, 1} : /\ ipcmouse.d + dx \in (-MaxMove)..MaxMove
                            /\ ipcmouse' = [ipcmouse EXCEPT !.d = @ + dx, !.dirty = TRUE]
     \/ \E b \in BOOLEAN : ipcmouse' = [ipcmouse EXCEPT !.button = b, !.dirty = TRUE]
  /\ UNCHANGED <<hostfifo, sf2mouse, amx, gun, seen>>

(* IPC "input gun trigger", and SDL clicks in the gun's mode.                  *)
ipc_input_gun ==
  /\ \/ \E t \in {"down", "up"} : gun' = [gun EXCEPT !.ask = t]
     \/ \E p \in BOOLEAN : gun' = [gun EXCEPT !.pressed = p]
  /\ UNCHANGED <<ipcmouse, hostfifo, sf2mouse, amx, seen>>

(* The main loop takes what IPC left: once each, as if SDL had sent it.        *)
ipc_drain_input ==
  /\ ipcmouse.dirty \/ gun.ask # "none"
  /\ gun' = [gun EXCEPT !.pressed = IF gun.ask = "none" THEN @ ELSE gun.ask = "down", !.ask = "none"]
  /\ IF ipcmouse.dirty
       THEN /\ ipcmouse' = [ipcmouse EXCEPT !.d = 0, !.dirty = FALSE]
            /\ symbiface_mouse_update(ipcmouse.d, ipcmouse.button)
            /\ amx_mouse_update(ipcmouse.d, ipcmouse.button)
            /\ seen' = [seen EXCEPT !.lost = @ \/ Overflow(hostfifo.q,
                           (IF ipcmouse.d # 0 THEN 1 ELSE 0) +
                           (IF ipcmouse.button # hostfifo.last THEN 1 ELSE 0))]
       ELSE UNCHANGED <<ipcmouse, hostfifo, amx, seen>>
  /\ UNCHANGED sf2mouse

(* A frame: the host's packets into the device's FIFO, the mickeys into the AMX
   device, the gun's trigger into the gun.                                      *)
sync_symbiface ==
  /\ LET room == FifoMax - Len(sf2mouse)
         n == IF Len(hostfifo.q) < room THEN Len(hostfifo.q) ELSE room
     IN /\ sf2mouse' = sf2mouse \o SubSeq(hostfifo.q, 1, n)
        /\ seen' = [seen EXCEPT !.lost = @ \/ Len(hostfifo.q) > room]
  /\ hostfifo' = [hostfifo EXCEPT !.q = <<>>]

sync_amx_mouse ==
  amx' = [amx EXCEPT !.dev = Clamp(@ + amx.host), !.host = 0]

FrameInput ==
  /\ sync_symbiface /\ sync_amx_mouse
  /\ gun' = [gun EXCEPT !.dev = gun.pressed]
  /\ UNCHANGED ipcmouse

(* The guest reads &FD10: one packet.                                          *)
sf2_fifo_pop ==
  /\ sf2mouse # <<>>
  /\ sf2mouse' = Tail(sf2mouse)
  /\ seen' = IF Head(sf2mouse).k = "button" THEN [seen EXCEPT !.button = Head(sf2mouse).b] ELSE seen
  /\ UNCHANGED <<ipcmouse, hostfifo, amx, gun>>

(* Row 9 selected again after a deselect uses up one mickey.                   *)
amx_tick ==
  /\ \E sel \in BOOLEAN :
       amx' = IF ~sel THEN [amx EXCEPT !.sel = FALSE, !.armed = @ \/ amx.sel]
              ELSE IF ~amx.sel /\ amx.armed
                THEN [amx EXCEPT !.sel = TRUE, !.armed = FALSE,
                                 !.dev = IF @ > 0 THEN @ - 1 ELSE IF @ < 0 THEN @ + 1 ELSE 0]
                ELSE [amx EXCEPT !.sel = TRUE]
  /\ UNCHANGED <<ipcmouse, hostfifo, sf2mouse, gun, seen>>

(* A machine reset clears the device FIFO and mickeys, not the host's side; the
   guest starts with its buttons up.                                            *)
PointReset ==
  /\ sf2mouse' = <<>>
  /\ amx' = [amx EXCEPT !.dev = 0, !.button = FALSE, !.sel = FALSE, !.armed = FALSE]
  /\ gun' = [gun EXCEPT !.dev = FALSE]
  /\ seen' = [seen EXCEPT !.lost = TRUE]
  /\ UNCHANGED <<ipcmouse, hostfifo>>

PointNext ==
  \/ MouseMotion \/ ipc_input_mouse \/ ipc_input_gun \/ ipc_drain_input
  \/ FrameInput \/ sf2_fifo_pop \/ amx_tick \/ PointReset

(* Two FIFOs in a row and three sources: with both FIFOs empty and nothing dropped
   on the way, the guest's buttons on the PS/2 port are those the host last saw,
   which the AMX mouse holds too: no order of motion, IPC and frames leaves one
   stuck.                                                                          *)
ButtonsAgree ==
  hostfifo.q = <<>> /\ sf2mouse = <<>> /\ ~seen.lost => seen.button = amx.button

===========================================================================
