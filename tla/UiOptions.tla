----------------------------- MODULE UiOptions -----------------------------
(***************************************************************************)
(* The Options window.  Its tabs edit the live settings in place; a copy   *)
(* taken when the window opened lets Cancel, Escape and the title bar put  *)
(* them back, and Save and Apply rebuild the machine when a setting needs  *)
(* it, after asking if a disc has changes that were not written.           *)
(*                                                                         *)
(* opt is the window: whether it is open, the copy (old, oldDev), the      *)
(* commit that waits for the confirmation (commit), and the machine around *)
(* it: what it was built with (built), the discs, the servers.  A setting  *)
(* is a number: 0 as the program started, 1 as the user would have it.     *)
(***************************************************************************)
EXTENDS Integers, FiniteSets

CONSTANT MaxOptionEdits   \* bound: settings changed in a behaviour

VARIABLE opt

\* Settings of the structure CPC, by the tab that shows them.  "speed" stands
\* for those of its tab that only store a number (speed limit, frame skip,
\* printer), "tube" for the picture's, "volume" for the mixer's, "joystick" for
\* the joysticks' and the keyboard mode, "port" for those of the web server.
CpcSettings ==
  {"model", "ram", "speed"} \cup {"rom"} \cup {"style", "tube"}
    \cup {"sound", "rate", "volume"} \cup {"keyboard", "joystick"} \cup {"port"}

BadRate == 9   \* an index read from the configuration file that is in no table

Edit(o) == [o EXCEPT !.edits = @ + 1]

SetCpc(o, s, v) == Edit([o EXCEPT !.cpc[s] = v])

SetDev(o, s, v) == Edit([o EXCEPT !.dev[s] = v])

\* An edit is a click in the window while no popup covers it.  Text typed in a
\* field of the Serial tab lives in a copy fetched anew each pass.
Touch(o) ==
  /\ opt.open /\ ~opt.popup
  /\ o.edits <= MaxOptionEdits
  /\ opt' = [o EXCEPT !.typed = FALSE]

Other(v) == 1 - v

-----------------------------------------------------------------------------
(* Opening takes the copy: the first pass after a close copies everything. *)

OpenOptions ==
  /\ ~opt.open
  /\ opt' = [opt EXCEPT !.open = TRUE, !.paused = TRUE,
                        !.old = opt.cpc, !.oldName = opt.name, !.oldDev = opt.dev,
                        !.ejected = FALSE]

-----------------------------------------------------------------------------
(* The tabs.                                                               *)

GeneralTab ==
  \/ \E s \in {"model", "ram", "speed"} : Touch(SetCpc(opt, s, Other(opt.cpc[s])))
  \/ \E s \in {"crtc", "watch", "m4"} : Touch(SetDev(opt, s, Other(opt.dev[s])))

\* Choosing a file for a slot hands over to a native dialog; the X of a loaded
\* expansion slot takes the ROM off the board before its image is freed, and
\* maps BASIC again where the guest had that ROM selected.
RomTab ==
  LET unloaded == [SetCpc(opt, "rom", 0) EXCEPT !.board = FALSE, !.image = FALSE] IN
  /\ opt.image
  /\ Touch(IF opt.selected THEN [unloaded EXCEPT !.mapped = "basic"] ELSE unloaded)

\* The plugin is changed at once; the window is rebuilt after the pass.
VideoTab ==
  \E s \in {"style", "tube"} :
    LET o == SetCpc(opt, s, Other(opt.cpc[s])) IN
    Touch(IF s = "style" THEN [o EXCEPT !.reinit = TRUE] ELSE o)

video_reinit_done == opt.reinit /\ opt' = [opt EXCEPT !.reinit = FALSE, !.drawn = opt.cpc["style"]]

\* Showing the tab repairs a rate that is in no table.  Sound is switched on
\* before its flag says so and off after it.
AudioTab ==
  LET DefaultRate == 2
      o == IF opt.cpc["rate"] = BadRate THEN [opt EXCEPT !.cpc["rate"] = DefaultRate] ELSE opt IN
  \/ \E s \in {"sound", "volume"} :
       LET e == SetCpc(o, s, Other(o.cpc[s])) IN
       Touch(IF s = "sound" THEN [e EXCEPT !.stream = e.cpc["sound"] = 1] ELSE e)
  \/ Touch(SetCpc(o, "rate", IF o.cpc["rate"] = 0 THEN 1 ELSE 0))
  \/ Touch(SetDev(o, "drum", Other(o.dev["drum"])))

InputTab ==
  \/ \E s \in {"keyboard", "joystick"} : Touch(SetCpc(opt, s, Other(opt.cpc[s])))
  \/ Touch(SetDev(opt, "amx", Other(opt.dev["amx"])))

\* Settings of the board show only while it is enabled.
M4Tab ==
  \/ Touch(SetDev(opt, "m4", Other(opt.dev["m4"])))
  \/ opt.dev["m4"] = 1 /\ Touch(SetCpc(opt, "port", Other(opt.cpc["port"])))
  \/ opt.dev["m4"] = 1 /\ Touch(Edit([opt EXCEPT !.http = ~@]))

M4Ports ==
  /\ opt.dev["m4"] = 1
  /\ \/ opt.forward /\ Touch(Edit([opt EXCEPT !.forward = FALSE]))
     \/ ~opt.forward /\ Touch(Edit([opt EXCEPT !.forward = TRUE]))

\* The switch of the serial interface takes effect at once, the choice of a
\* backend at the next apply; a text field changes only this pass's copy.
apply_serial(o) == [o EXCEPT !.backend = IF o.dev["serial"] = 1 THEN o.chosen ELSE "none"]

SerialSwitch == Touch(apply_serial(SetDev(opt, "serial", Other(opt.dev["serial"]))))

SerialBackendCombo ==
  Touch(Edit([opt EXCEPT !.chosen = IF @ = "null" THEN "plotter" ELSE "null"]))

SerialField ==
  /\ opt.open /\ ~opt.popup /\ opt.edits < MaxOptionEdits
  /\ opt' = Edit([opt EXCEPT !.typed = TRUE])

SerialApply == opt.backend # opt.chosen /\ Touch(apply_serial(opt))

-----------------------------------------------------------------------------
(* Commit.                                                                 *)

RestartCpc == {"model", "ram", "keyboard"}

RestartDev == {"m4", "serial"}

\* The settings a machine is built from.
Build(o) == [s \in RestartCpc \cup RestartDev |-> IF s \in RestartCpc THEN o.cpc[s] ELSE o.dev[s]]

\* Mutant: the keyboard is left out of the comparison.
needs_restart_but_keyboard(o) ==
  \/ \E s \in RestartCpc \ {"keyboard"} : o.cpc[s] # o.old[s]
  \/ \E s \in RestartDev : o.dev[s] # o.oldDev[s]

needs_restart(o) ==
  \/ \E s \in RestartCpc : o.cpc[s] # o.old[s]
  \/ \E s \in RestartDev : o.dev[s] # o.oldDev[s]

Closed_(o) == [o EXCEPT !.open = FALSE, !.paused = FALSE]

saveConfiguration_(o) == [o EXCEPT !.file = o.cpc]

\* The machine is built anew from the settings; one that fails half-way stays
\* stopped.  unasked: that happened to a machine with disc changes, unasked.
rebuild(o, err, asked) ==
  [o EXCEPT !.built = IF err THEN "broken" ELSE "whole",
            !.from = IF err THEN @ ELSE Build(o),
            !.unasked = @ \/ (o.altered /\ ~asked)]

commit_options(o, save, asked, err) ==
  LET commit_http(p) == [p EXCEPT !.http = p.dev["m4"] = 1 /\ (@ \/ (save /\ p.oldDev["m4"] = 0))]
      s == IF save THEN saveConfiguration_(o) ELSE o
      r == rebuild(s, err, asked) IN
  IF ~needs_restart(o) THEN Closed_(commit_http(s))
  ELSE IF err THEN r ELSE Closed_(commit_http(r))

\* Mutant: the button does not look at the drives.
press_commit_rashly(o, save, err) == commit_options(o, save, FALSE, err)

press_commit(o, save, err) ==
  IF needs_restart(o) /\ o.altered
  THEN [o EXCEPT !.commit = IF save THEN "save" ELSE "apply", !.popup = TRUE]
  ELSE commit_options(o, save, FALSE, err)

SaveButton == \E err \in BOOLEAN : Touch(press_commit(opt, TRUE, err))

ApplyButton == \E err \in BOOLEAN : Touch(press_commit(opt, FALSE, err))

\* Everything the structure CPC holds goes back, the name of the disc in drive
\* A with it; of the devices with a flag of their own only the CRTC and the M4.
revert_options(o) ==
  Closed_([o EXCEPT !.cpc = o.old, !.name = o.oldName,
                    !.dev["crtc"] = o.oldDev["crtc"], !.dev["m4"] = o.oldDev["m4"],
                    !.reinit = @ \/ o.cpc["style"] # o.old["style"]])

CancelButton == Touch(revert_options(opt))

EscapeKey == opt.commit = "none" /\ Touch(revert_options(opt))

\* Mutant: the waiting commit outlives the window.
TitleBarClose_strands == opt.open /\ opt' = revert_options([opt EXCEPT !.popup = FALSE])

TitleBarClose ==
  opt.open /\ opt' = revert_options([opt EXCEPT !.commit = "none", !.popup = FALSE])

\* A docked window behind another tab is closed before any of that is drawn.
HiddenClose ==
  /\ opt.open /\ ~opt.popup
  /\ opt' = [opt EXCEPT !.open = FALSE, !.hidden = TRUE]

\* The confirmation: refusing the restart still saves, and stays open.
ConfirmCancel ==
  /\ opt.popup
  /\ opt' = [(IF opt.commit = "save" THEN saveConfiguration_(opt) ELSE opt)
               EXCEPT !.commit = "none", !.popup = FALSE]

ConfirmRestart ==
  /\ opt.popup
  /\ \E err \in BOOLEAN :
       opt' = [commit_options(opt, opt.commit = "save", TRUE, err)
                 EXCEPT !.commit = "none", !.popup = FALSE]

-----------------------------------------------------------------------------
(* Around the window: the guest writes to the disc while the machine runs, *)
(* and the status bar ejects a disc while the window is open.              *)

GuestWrites == ~opt.paused /\ opt.inside /\ ~opt.altered /\ opt' = [opt EXCEPT !.altered = TRUE]

StatusEject ==
  /\ opt.inside /\ ~opt.altered /\ ~opt.popup
  /\ opt' = [opt EXCEPT !.inside = FALSE, !.name = FALSE, !.ejected = opt.open]

-----------------------------------------------------------------------------

OptionsInit ==
  \E bad \in BOOLEAN :
    LET c == [s \in CpcSettings |-> IF s = "rate" /\ bad THEN BadRate ELSE 0]
        \* switches of devices with a flag of their own: "watch" for the SmartWatch
        \* and the Symbiface, "drum" for the AmDrum and the drive sounds
        d == [s \in {"crtc", "watch", "m4", "drum", "amx", "serial"} |-> 0] IN
    opt = [open |-> FALSE, paused |-> FALSE,
           cpc |-> c, dev |-> d, old |-> c, oldDev |-> d, file |-> c,
           commit |-> "none", popup |-> FALSE, typed |-> FALSE, edits |-> 0,
           built |-> "whole", from |-> [s \in RestartCpc \cup RestartDev |-> 0],
           altered |-> FALSE, unasked |-> FALSE, hidden |-> FALSE, ejected |-> FALSE,
           inside |-> TRUE, name |-> TRUE, oldName |-> TRUE,
           image |-> TRUE, board |-> TRUE, selected |-> TRUE, mapped |-> "rom",
           reinit |-> FALSE, drawn |-> 0, stream |-> FALSE,
           http |-> FALSE, forward |-> FALSE, chosen |-> "null", backend |-> "none"]

OptionsNext ==
  \/ OpenOptions
  \/ GeneralTab
  \/ RomTab
  \/ VideoTab
  \/ video_reinit_done
  \/ AudioTab
  \/ InputTab
  \/ M4Tab
  \/ M4Ports
  \/ SerialSwitch
  \/ SerialBackendCombo
  \/ SerialField
  \/ SerialApply
  \/ SaveButton
  \/ ApplyButton
  \/ CancelButton
  \/ EscapeKey
  \/ TitleBarClose
  \/ HiddenClose
  \/ ConfirmCancel
  \/ ConfirmRestart
  \/ GuestWrites
  \/ StatusEject

-----------------------------------------------------------------------------
(* Properties.                                                             *)

\* The machine that runs is the one the settings describe: outside the Options
\* window, the model, RAM, keyboard and M4 settings are those it was built
\* with, whatever was edited, refused, saved or cancelled on the way.  Two
\* ways out are known and left to the reader: a rebuild that failed, and a
\* window closed behind another tab.
RunsAsSet ==
  ~opt.open /\ opt.built = "whole" /\ ~opt.hidden
    => \A s \in RestartCpc \cup {"m4"} : Build(opt)[s] = opt.from[s]

\* No machine with disc changes is restarted before the confirmation has asked,
\* and a confirmation never outlives its window, where it would pop up unprompted.
RestartIsAsked == ~opt.unasked /\ (~opt.open => opt.commit = "none" /\ ~opt.popup)

\* The ROM board never reads a freed image, and the picture, once the pending
\* rebuild of the window is done, is drawn by the plugin the settings name.
LiveParts ==
  /\ opt.board => opt.image
  /\ opt.mapped = "rom" => opt.image
  /\ ~opt.reinit => opt.drawn = opt.cpc["style"]

OptionsRight == RunsAsSet /\ RestartIsAsked /\ LiveParts


=============================================================================
