------------------------------ MODULE JoyPorts ------------------------------
(***************************************************************************)
(* Who drives the two joystick ports.  A CPC joystick is two rows of the   *)
(* keyboard matrix, and four drivers of the host pull its lines: the pad   *)
(* window, the controllers SDL plugs and unplugs, the arrow keys in        *)
(* keyboard emulation, and the mouse, as a joystick or as a light gun.     *)
(* Each must let go of every line it pulled.                               *)
(*                                                                         *)
(* vpad  the pad window, in the passes over the widgets                    *)
(* ctl   the two controller slots and the lines they hold                  *)
(* stick the emulations that hang on the main loop's events                *)
(***************************************************************************)
EXTENDS Integers, FiniteSets

CONSTANTS PadButtons,    \* lines of one joystick: directions and fire
          Devices,       \* controllers of the host, SDL instance ids
          ResetFrames    \* frames a mouse movement lasts (2 in the code)

VARIABLES vpad, ctl, stick

joyVars == <<vpad, ctl, stick>>

Ports == {0, 1}

\* The keys of the matrix for a set of buttons of one joystick.
vjoy_active_keys(target, mask) == {target} \X mask

vjoy_all_keys(target) == vjoy_active_keys(target, PadButtons)

-----------------------------------------------------------------------------
(* The pad window.  Clicks and key events come between passes; one pass    *)
(* compares what is pressed now with what the last pass left held.         *)

vjoy_release_mask(p, target, mask) == [p EXCEPT !.lines = @ \ vjoy_active_keys(target, mask)]

\* Mutant: a new target inherits what the old one held.
pad_retarget_keeps(p) == [p EXCEPT !.heldTarget = p.target]

pad_retarget(p) ==
  LET r == IF p.target # p.heldTarget
           THEN [vjoy_release_mask(p, p.heldTarget, p.held) EXCEPT !.held = {}]
           ELSE p IN
  [r EXCEPT !.heldTarget = p.target]

imgui_render_vjoystick ==
  LET \* Closed: let go of everything, once.
      pad_closed(p) ==
        [vjoy_release_mask(p, p.heldTarget, p.held) EXCEPT !.held = {}, !.focus = FALSE]
      pad_drawn(p) ==
        LET \* What the pointer and, in a focused window, the arrow keys press.
            pad_mask == p.mouse \cup (IF p.focus THEN p.arrows ELSE {})
            r == pad_retarget(p)
            pressed == [r EXCEPT !.lines = @ \cup vjoy_active_keys(r.target, pad_mask \ r.held)] IN
        [vjoy_release_mask(pressed, r.target, r.held \ pad_mask) EXCEPT !.held = pad_mask]
  IN
  /\ vpad' = CASE ~vpad.shown -> pad_closed(vpad)
               [] vpad.shown /\ vpad.behind -> [vpad EXCEPT !.focus = FALSE]
               [] OTHER       -> pad_drawn(vpad)
  /\ UNCHANGED <<ctl, stick>>

showVJoystick ==
  /\ vpad' = [vpad EXCEPT !.shown = ~@, !.mouse = {}]
  /\ UNCHANGED <<ctl, stick>>

\* The window goes behind another tab or comes forward, and takes the focus.
pad_window ==
  /\ vpad.shown
  /\ \E b, f \in BOOLEAN :
       vpad' = [vpad EXCEPT !.behind = b, !.focus = f /\ ~b, !.mouse = {}]
  /\ UNCHANGED <<ctl, stick>>

pad_target ==
  /\ vpad.shown /\ ~vpad.behind
  /\ vpad' = [vpad EXCEPT !.target = 1 - @]
  /\ UNCHANGED <<ctl, stick>>

\* The pointer holds one button of the pad; a diagonal is two lines.
pad_press ==
  /\ vpad.shown /\ ~vpad.behind
  /\ \E m \in {s \in SUBSET PadButtons : Cardinality(s) <= 2} :
       vpad' = [vpad EXCEPT !.mouse = m]
  /\ UNCHANGED <<ctl, stick>>

pad_arrows ==
  /\ \E k \in PadButtons :
       vpad' = [vpad EXCEPT !.arrows = IF k \in @ THEN @ \ {k} ELSE @ \cup {k}]
  /\ UNCHANGED <<ctl, stick>>

PadNext == imgui_render_vjoystick \/ showVJoystick \/ pad_window \/ pad_target
           \/ pad_press \/ pad_arrows

-----------------------------------------------------------------------------
(* Controllers.  A device takes the first free slot for as long as it is   *)
(* plugged in; its events carry the instance id.                           *)

NoDevice == "none"

controller_slot_of_instance(c, id) == {s \in Ports : c.device[s] = id}

controller_free_slot(c) == {s \in Ports : c.device[s] = NoDevice /\ \A t \in Ports :
                                            t < s => c.device[t] # NoDevice}

\* Opened as a gamepad where SDL has a mapping and it opens, else as a joystick;
\* a device that opens as neither leaves its slot free.
controller_open ==
  /\ \E id \in Devices, kind \in {"gamepad", "joystick", "failed"} :
       /\ controller_slot_of_instance(ctl, id) = {}
       /\ ctl' = IF kind = "failed" THEN ctl
                 ELSE [ctl EXCEPT !.device = [s \in Ports |->
                                    IF s \in controller_free_slot(ctl) THEN id ELSE @[s]],
                                  !.kind = [s \in Ports |->
                                    IF s \in controller_free_slot(ctl) THEN kind ELSE @[s]]]
  /\ UNCHANGED <<vpad, stick>>

\* Mutant: the slot is freed, its lines stay as they were.
controller_closed_holds(c, s) == [c EXCEPT !.device[s] = NoDevice, !.kind[s] = "none"]

controller_closed(c, s) ==
  [c EXCEPT !.device[s] = NoDevice, !.kind[s] = "none", !.lines = @ \ vjoy_all_keys(s)]

controller_close ==
  /\ \E s \in Ports : ctl.device[s] # NoDevice /\ ctl' = controller_closed(ctl, s)
  /\ UNCHANGED <<vpad, stick>>

\* A paused machine takes no keys.
controller_apply_bit(c, s, b, pressed) ==
  IF c.paused THEN c
  ELSE [c EXCEPT !.lines = IF pressed THEN @ \cup vjoy_active_keys(s, {b})
                                      ELSE @ \ vjoy_active_keys(s, {b})]

\* Buttons of either kind; the raw events of a gamepad are ignored.  Two
\* buttons of a joystick open the menu, which pauses, or the keyboard window.
controller_button ==
  /\ \E s \in Ports, b \in PadButtons, pressed \in BOOLEAN :
       /\ ctl.device[s] # NoDevice
       /\ ctl' = controller_apply_bit(ctl, s, b, pressed)
  /\ UNCHANGED <<vpad, stick>>

controller_menu_button ==
  /\ \E s \in Ports : ctl.kind[s] = "joystick"
  /\ ctl' = [ctl EXCEPT !.paused = TRUE]
  /\ UNCHANGED <<vpad, stick>>

\* An axis is one side, the other, or in between: each event sets both lines.
controller_axis ==
  /\ \E s \in Ports, a, b \in PadButtons, side \in {"less", "middle", "more"} :
       /\ ctl.device[s] # NoDevice /\ a # b
       /\ ctl' = controller_apply_bit(controller_apply_bit(ctl, s, a, side = "less"),
                                      s, b, side = "more")
  /\ UNCHANGED <<vpad, stick>>

controller_resume == ctl.paused /\ ctl' = [ctl EXCEPT !.paused = FALSE] /\ UNCHANGED <<vpad, stick>>

ControllerNext == controller_open \/ controller_close \/ controller_button
                  \/ controller_menu_button \/ controller_axis \/ controller_resume

-----------------------------------------------------------------------------
(* Emulations.  The keyboard maps the arrow keys to joystick 0 or to the   *)
(* cursor keys when the event comes; the mouse pulls a direction for two   *)
(* frames; a light gun's trigger is the fire line of a Trojan gun.         *)

\* Joystick emulation goes round none, keyboard, mouse; the gun none, Magnum,
\* Trojan: numbered 1 to 3.
KeyboardMode == 2

MouseMode == 3

Trojan == 3

\* The key of the matrix an arrow key stands for at this moment.
CPCscancodeFromKeysym_(e) == IF e.mode = KeyboardMode THEN <<0, "arrow">> ELSE <<2, "arrow">>

Set(e, key, pressed) == [e EXCEPT !.lines = IF pressed THEN @ \cup {key} ELSE @ \ {key}]

stick_key ==
  /\ stick' = [Set(stick, CPCscancodeFromKeysym_(stick), ~stick.key) EXCEPT !.key = ~@]
  /\ UNCHANGED <<vpad, ctl>>

KONCPC_JOY_ ==
  /\ stick' = [stick EXCEPT !.mode = (@ % 3) + 1]
  /\ UNCHANGED <<vpad, ctl>>

stick_motion ==
  /\ stick.mode = MouseMode
  /\ stick' = [Set(stick, <<0, "move">>, TRUE) EXCEPT !.reset = ResetFrames]
  /\ UNCHANGED <<vpad, ctl>>

\* The top of the main loop: directions come up when their time is over.
stick_frame ==
  /\ stick' = [(IF stick.reset = 0 /\ stick.mode = MouseMode THEN Set(stick, <<0, "move">>, FALSE) ELSE stick)
                 EXCEPT !.reset = IF @ > 0 THEN @ - 1 ELSE 0]
  /\ UNCHANGED <<vpad, ctl>>

\* The mouse button: a gun's trigger, and fire of the mouse joystick.
stick_button ==
  /\ LET press == ~stick.button
         g == IF stick.gun = 1 THEN stick
              ELSE [(IF stick.gun = Trojan THEN Set(stick, <<0, "fire">>, press) ELSE stick)
                      EXCEPT !.pressed = press]
         m == IF stick.mode = MouseMode THEN Set(g, <<0, "fire">>, press) ELSE g IN
     stick' = [m EXCEPT !.button = press]
  /\ UNCHANGED <<vpad, ctl>>

\* Mutant: the trigger stays pulled when the last gun is unplugged.
next_gun_pulled(e) == [e EXCEPT !.gun = (@ % 3) + 1]

next_gun(e) ==
  LET n == (e.gun % 3) + 1 IN [e EXCEPT !.gun = n, !.pressed = @ /\ n # 1]

KONCPC_PHAZER_ == stick' = next_gun(stick) /\ UNCHANGED <<vpad, ctl>>

StickNext == stick_key \/ KONCPC_JOY_ \/ stick_motion \/ stick_frame \/ stick_button \/ KONCPC_PHAZER_

-----------------------------------------------------------------------------

JoyInit ==
  /\ vpad = [shown |-> FALSE, behind |-> FALSE, focus |-> FALSE, target |-> 0,
             heldTarget |-> 0, held |-> {}, mouse |-> {}, arrows |-> {}, lines |-> {}]
  /\ ctl = [device |-> [s \in Ports |-> NoDevice], kind |-> [s \in Ports |-> "none"],
            paused |-> FALSE, lines |-> {}]
  /\ stick = [mode |-> 1, gun |-> 1, key |-> FALSE, button |-> FALSE, pressed |-> FALSE,
              reset |-> 0, lines |-> {}]

-----------------------------------------------------------------------------
(* Properties.                                                             *)

\* Every line the pad window holds down is one it remembers: whatever the
\* order of clicks, arrow keys, target changes and closings, the matrix shows
\* exactly what the next release will lift.
PadAccounted == vpad.lines = vjoy_active_keys(vpad.heldTarget, vpad.held)

\* A device has one slot, and a slot without a device holds no line, even when
\* it was unplugged while the machine was paused.
UnpluggedIsIdle ==
  /\ \A s, t \in Ports : s # t /\ ctl.device[s] = ctl.device[t] => ctl.device[s] = NoDevice
  /\ \A s \in Ports : ctl.device[s] = NoDevice => ctl.lines \cap vjoy_all_keys(s) = {}

\* Without a gun no trigger is pulled.
NoGunNoTrigger == stick.gun = 1 => ~stick.pressed

PortsRight == PadAccounted /\ UnpluggedIsIdle /\ NoGunNoTrigger

=============================================================================
