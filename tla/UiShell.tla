------------------------------ MODULE UiShell ------------------------------
(***************************************************************************)
(* The window around the machine: the menu bar, the pause menu, the status *)
(* bar with its confirmation popups, native file dialogs, dropped files,   *)
(* the recent-file lists, the command palette and the workspace layouts.   *)
(*                                                                         *)
(* ImGui is immediate mode: one pass over all the widgets per frame, on    *)
(* the main thread.  A click changes flags, and the widgets drawn later in *)
(* the same pass turn those flags into popups, so an action here is one    *)
(* click followed by Settle, the rest of the pass.  SDL events are handled *)
(* between passes.  Opening a modal popup replaces the one that was open   *)
(* and blocks every other widget.                                          *)
(*                                                                         *)
(* ui    what is shown, and the part of the machine the widgets change     *)
(* dlg   native file dialogs on screen, and the answer being handed over   *)
(* tray  what is in drive A and in the tape deck, and the recent files     *)
(* toast the messages on screen                                            *)
(* work  the dock workspace: open windows, saved layouts, their cache      *)
(* pal   the command palette: its lists and what a command did             *)
(***************************************************************************)
EXTENDS Integers, Sequences, FiniteSets, SequencesExt

CONSTANTS UiPaths,       \* files dropped on the window or kept as recent
          DialogPaths,   \* files picked in native dialogs
          MruMax,        \* t_CPC::MRU_MAX
          MaxToasts,     \* ImGuiUIState::MAX_TOASTS
          TapeBlocks,    \* blocks of a tape
          RomSlots,      \* expansion ROM slots
          LayoutNames,   \* names for saved layouts
          MaxDialogs,    \* bound: native dialogs on screen at once
          MaxHistory     \* bound: commands typed into the palette

ASSUME ShellAssumption == {MruMax, MaxToasts, TapeBlocks} \subseteq Nat \ {0}

VARIABLES ui, dlg, tray, toast, work, pal

shellVars == <<ui, dlg, tray, toast, work, pal>>

NoPath == "none"

Popups == {"none", "quit", "newdisk", "reset", "m4", "recent", "eject",
           "tape", "speed", "about"}

DialogActions == {"LoadDiskA", "LoadTape", "LoadCartridge", "LoadROM",
                  "SaveDiskA", "NewDiskA", "SelectM4SDFolder"}

-----------------------------------------------------------------------------
(* The pause flag and the machine as the widgets see it.                   *)

cpc_pause(u) == [u EXCEPT !.paused = TRUE]

cpc_resume(u) == [u EXCEPT !.paused = FALSE]

driveAltered(u) == u.altered

\* Remembers who threw away a machine with unsaved disc changes, or left the
\* program with them, without a popup having asked.
Unasked(u, who) == IF driveAltered(u) THEN [u EXCEPT !.lost = @ \cup {who}] ELSE u

\* A reset keeps the pause state and lets the tape's PLAY key go.
emulator_reset(u) == [u EXCEPT !.playing = FALSE]

\* A rebuild that fails leaves the machine paused.
koncpc_rebuild_machine(u, err) == [emulator_reset(u) EXCEPT !.paused = @ \/ err]

-----------------------------------------------------------------------------
(* The rest of the pass: flags become popups, in drawing order.            *)

\* The About flag is only looked at by the pause menu.
SettleAbout(u) ==
  IF u.menu /\ u.about THEN [u EXCEPT !.about = FALSE, !.popup = "about"] ELSE u

Settle(u) ==
  SettleAbout(IF u.ask = "none" THEN u ELSE [u EXCEPT !.ask = "none", !.popup = u.ask])

Free == ui.popup = "none"

OnUi(u) == ui' = Settle(u) /\ UNCHANGED <<dlg, tray, toast, work, pal>>

-----------------------------------------------------------------------------
(* Pause menu.                                                             *)

imgui_open_menu(u) == cpc_pause([u EXCEPT !.menu = TRUE])

\* Leaving the menu resumes unless Options still wants the machine still.
imgui_close_menu(u) ==
  LET c == [u EXCEPT !.menu = FALSE] IN IF u.options THEN c ELSE cpc_resume(c)

MenuResume == Free /\ ui.menu /\ OnUi(imgui_close_menu(ui))

\* R, F5 and the Reset button of the pause menu reset without asking.
MenuReset == Free /\ ui.menu /\ OnUi(imgui_close_menu(emulator_reset(Unasked(ui, "pause menu"))))

MenuQuit == Free /\ ui.menu /\ OnUi([ui EXCEPT !.ask = "quit"])

MenuAbout == Free /\ ui.menu /\ OnUi([ui EXCEPT !.about = TRUE])

\* A state slot is only offered for loading when its file exists; loading
\* closes the menu, saving drops the slot's thumbnail and keeps it open.
MenuLoadState == Free /\ ui.menu /\ ui.slot /\ OnUi(imgui_close_menu(ui))

invalidate_slot_thumb(u) == [u EXCEPT !.thumb = "none"]

save_state_slot(u, ok) == IF ok THEN invalidate_slot_thumb([u EXCEPT !.slot = TRUE]) ELSE u

MenuSaveState == Free /\ ui.menu /\ \E ok \in BOOLEAN : OnUi(save_state_slot(ui, ok))

\* Drawing the slot loads a texture when the file's stamp is not the cached one.
MenuThumb == Free /\ ui.menu /\ ui.slot /\ ui.thumb = "none" /\ OnUi([ui EXCEPT !.thumb = "live"])

-----------------------------------------------------------------------------
(* Top bar and menu bar.                                                   *)

TopbarPause ==
  /\ Free
  /\ OnUi(IF ui.paused THEN [cpc_resume(ui) EXCEPT !.menu = FALSE]
                       ELSE imgui_open_menu(ui))

koncpc_show_about_dialog == Free /\ OnUi([ui EXCEPT !.about = TRUE])

\* Settings opens the Options window; it does not pause the machine.
koncpc_open_settings_tab == Free /\ OnUi([ui EXCEPT !.options = TRUE])

\* Options is closed by OK, Cancel or its title bar; each resumes the machine.
close_options == Free /\ ui.options /\ OnUi(cpc_resume([ui EXCEPT !.options = FALSE]))

\* Closed through its tab while another docked tab hides it: nothing resumes.
close_options_hidden == Free /\ ui.options /\ OnUi([ui EXCEPT !.options = FALSE])

\* Mutant: the menu item resets whatever the drives hold.
RequestReset_unguarded(u) == emulator_reset(Unasked(u, "reset"))

\* Reset from the menu bar and from the keyboard: asks when a disc is altered.
RequestReset(u) ==
  IF driveAltered(u) THEN [u EXCEPT !.ask = "reset"] 
                     ELSE emulator_reset(Unasked(u, "reset"))

MenubarReset == Free /\ OnUi(RequestReset(ui))

speed_test == Free /\ OnUi([ui EXCEPT !.popup = "speed"])

MenubarEject == Free /\ \E a \in {"eject", "tape", "recent", "newdisk"} : OnUi([ui EXCEPT !.ask = a])

\* Mutant: leaving does not look at the drives.
cleanExit_silent == OnUi([Unasked(ui, "exit") EXCEPT !.quit = TRUE])

\* Exit asks through a native box, on the main thread, when a disc is altered.
cleanExit ==
  \/ ~driveAltered(ui) /\ OnUi([Unasked(ui, "exit") EXCEPT !.quit = TRUE])
  \/ driveAltered(ui) /\ \E yes \in BOOLEAN : OnUi([ui EXCEPT !.quit = yes])

-----------------------------------------------------------------------------
(* The popups.                                                             *)

Closed(u) == [u EXCEPT !.popup = "none"]

\* Cancel or Esc in the quit popup: back to the game unless a window pauses it.
quit_popup_cancel ==
  /\ ui.popup = "quit"
  /\ OnUi(IF ui.menu \/ ui.options THEN Closed(ui) ELSE cpc_resume(Closed(ui)))

quit_popup_quit == ui.popup = "quit" /\ OnUi([Closed(ui) EXCEPT !.quit = TRUE])

reset_popup == ui.popup = "reset" /\ OnUi(Closed(emulator_reset(ui)))

m4_popup ==
  /\ ui.popup = "m4"
  /\ \E err \in BOOLEAN : OnUi(Closed(koncpc_rebuild_machine(ui, err)))

popup_cancel == ui.popup \notin {"none", "quit"} /\ OnUi(Closed(ui))

-----------------------------------------------------------------------------
(* SDL events.                                                             *)

\* Who gets the keyboard: the machine only when none of these wants it.
imgui_any_keyboard_ui_active ==
  \/ ui.menu \/ ui.options \/ ui.about
  \/ ui.dropdown \/ ui.palette
  \/ ui.popup # "none"

\* The reset key asks like the menu item; the menu key opens the pause menu.
KeyDown ==
  /\ ~imgui_any_keyboard_ui_active
  /\ \/ OnUi(RequestReset(ui))
     \/ OnUi(imgui_open_menu(ui))

\* With auto_pause on, the window losing and gaining the focus pauses and
\* resumes whatever else is going on.
FocusLost == ui.auto_pause /\ OnUi(cpc_pause(ui))

FocusGained == ui.auto_pause /\ OnUi(cpc_resume(ui))

palette_key == OnUi([ui EXCEPT !.palette = ~@])

palette_escape == ui.palette /\ OnUi([ui EXCEPT !.palette = FALSE])

layout_button == Free /\ OnUi([ui EXCEPT !.dropdown = ~@])

dropdown_click_away == ui.dropdown /\ OnUi([ui EXCEPT !.dropdown = FALSE])

\* The render device goes; textures made on it are dead handles.
video_shutdown(u) == [u EXCEPT !.thumb = IF @ = "live" THEN "dead" ELSE @]

\* Fullscreen makes a new window and device with the machine held.
koncpc_toggle_fullscreen == Free /\ OnUi(video_shutdown(ui))

\* Another renderer: the textures are freed while their device still lives.
video_reinit == Free /\ OnUi(video_shutdown(invalidate_slot_thumb(ui)))

\* The guest writes to the disc, or the bridge writes the image back.
guest_writes == \E a \in BOOLEAN : OnUi([ui EXCEPT !.altered = a])

\* A debugger or an IPC client stops the machine.
other_pause == OnUi(cpc_pause(ui))

ShellNext ==
  /\ ~ui.quit
  /\ \/ MenuResume \/ MenuReset \/ MenuQuit \/ MenuAbout \/ MenuLoadState
     \/ MenuSaveState \/ MenuThumb \/ TopbarPause \/ koncpc_show_about_dialog
     \/ koncpc_open_settings_tab \/ close_options \/ close_options_hidden
     \/ MenubarReset \/ speed_test \/ MenubarEject \/ cleanExit
     \/ quit_popup_cancel \/ quit_popup_quit \/ reset_popup \/ m4_popup
     \/ popup_cancel \/ KeyDown \/ FocusLost \/ FocusGained \/ palette_key
     \/ palette_escape \/ layout_button \/ dropdown_click_away
     \/ koncpc_toggle_fullscreen \/ video_reinit \/ guest_writes \/ other_pause

-----------------------------------------------------------------------------
(* Native file dialogs.  SDL may answer on a thread of its own, so the     *)
(* callback's two assignments are two steps.                               *)

\* A dialog for a ROM carries its slot in one shared variable.
koncpc_request_file_dialog ==
  /\ Free
  /\ Cardinality(dlg.shown) < MaxDialogs
  /\ \E a \in DialogActions, s \in RomSlots :
       dlg' = [dlg EXCEPT !.shown = @ \cup {a}, !.slot = IF a = "LoadROM" THEN s ELSE @]
  /\ UNCHANGED <<ui, tray, toast, work, pal>>

\* A cancelled dialog only gives the keyboard back.
file_dialog_cancel ==
  /\ \E a \in dlg.shown : dlg' = [dlg EXCEPT !.shown = @ \ {a}]
  /\ UNCHANGED <<ui, tray, toast, work, pal>>

file_dialog_callback ==
  /\ dlg.writing = NoPath
  /\ \E a \in dlg.shown, p \in DialogPaths :
       dlg' = [dlg EXCEPT !.shown = @ \ {a}, !.pending = a, !.writing = p]
  /\ UNCHANGED <<ui, tray, toast, work, pal>>

file_dialog_result ==
  /\ dlg.writing # NoPath
  /\ dlg' = [dlg EXCEPT !.path = dlg.writing, !.writing = NoPath]
  /\ UNCHANGED <<ui, tray, toast, work, pal>>

-----------------------------------------------------------------------------
(* Media slots, recent files and toasts.                                   *)

\* Mutant: the old entry of a file stays in the list.
mru_list_push_twice(list, p) == SubSeq(<<p>> \o list, 1, IF Len(list) < MruMax THEN Len(list) + 1 ELSE MruMax)

\* A file moves to the front; the list is cut at its limit.
mru_list_push(list, p) ==
  LET \* what is left of the first i entries once p is erased
      others[i \in 0 .. Len(list)] ==
        IF i = 0 THEN <<>>
        ELSE IF list[i] = p THEN others[i - 1] ELSE Append(others[i - 1], list[i])
      l == <<p>> \o others[Len(list)]
  IN SubSeq(l, 1, IF Len(l) > MruMax THEN MruMax ELSE Len(l))

\* The list is written to the configuration file on every push.
mru_push(t, p) == [t EXCEPT !.mru = mru_list_push(@, p), !.last = p]

\* A slot is named before the file is read, and keeps the name when it fails.
load_disk(t, p, ok) ==
  LET n == [t EXCEPT !.name = p]
  IN IF ok /\ p # NoPath THEN mru_push([n EXCEPT !.disc = p], p) ELSE n

load_tape(t, p, ok) ==
  IF ok /\ p # NoPath THEN mru_push([t EXCEPT !.tape = p, !.block = 0], p) ELSE t

load_cartridge(t, p, ok) == IF ok /\ p # NoPath THEN mru_push(t, p) ELSE t

\* A new disc is written, then put into drive A.
create_new_disk(t, p, made) == IF made THEN load_disk(t, p, TRUE) ELSE t

\* The frame takes the pending answer, and always leaves the pause menu.
process_pending_dialog ==
  LET \* A ROM goes to the slot the last dialog asked for; no slot, no effect, and a
      \* file that is not a ROM leaves the slot empty.
      load_rom(t, slot, p, ok) ==
        IF slot \notin RomSlots THEN t
        ELSE [t EXCEPT !.rom = [@ EXCEPT ![slot] = IF ok THEN p ELSE NoPath]]
      \* What the answered dialog does to the media.
      DialogTray(a, p, ok) ==
        CASE a = "LoadDiskA" -> load_disk(tray, p, ok)
          [] a = "LoadTape" -> load_tape(tray, p, ok)
          [] a = "LoadCartridge" -> load_cartridge(tray, p, ok)
          [] a = "LoadROM" -> load_rom(tray, dlg.slot, p, ok)
          [] a = "NewDiskA" -> create_new_disk(tray, p, ok)
          [] a \in {"SaveDiskA", "SelectM4SDFolder"} -> tray
      \* What it does to the machine: a cartridge resets it even when it did not
      \* load, a new SD folder rebuilds it, after asking when a disc is altered.
      DialogUi(u, a, err) ==
        CASE a = "LoadCartridge" -> emulator_reset(Unasked(u, "cartridge"))
          [] a = "SelectM4SDFolder" /\ u.m4 ->
               IF driveAltered(u) THEN [u EXCEPT !.ask = "m4"]
               ELSE koncpc_rebuild_machine(Unasked(u, "m4"), err)
          [] OTHER -> u
  IN
  /\ dlg.pending # NoPath
  /\ \E ok \in BOOLEAN :
       /\ tray' = DialogTray(dlg.pending, dlg.path, ok)
       /\ ui' = Settle(imgui_close_menu(DialogUi(ui, dlg.pending, ~ok)))
  /\ dlg' = [dlg EXCEPT !.pending = NoPath, !.path = NoPath, !.slot = -1]
  /\ UNCHANGED <<toast, work, pal>>

\* A file dropped on the window goes where its extension says.
drop_file ==
  /\ \E p \in UiPaths, ok \in BOOLEAN :
       \/ tray' = load_disk(tray, p, ok) /\ UNCHANGED ui
       \/ tray' = load_tape(tray, p, ok) /\ UNCHANGED ui
       \/ /\ tray' = load_cartridge(tray, p, ok)
          /\ ui' = IF ok THEN emulator_reset(Unasked(ui, "cartridge")) ELSE ui
  /\ UNCHANGED <<dlg, toast, work, pal>>

\* Open Recent loads an entry of the list into drive A.
open_recent ==
  /\ Free
  /\ \E i \in DOMAIN tray.mru, ok \in BOOLEAN : tray' = load_disk(tray, tray.mru[i], ok)
  /\ UNCHANGED <<ui, dlg, toast, work, pal>>

\* Clearing forgets the lists in memory; the configuration file keeps them.
clear_recent ==
  /\ ui.popup = "recent"
  /\ ui' = Closed(ui)
  /\ tray' = [tray EXCEPT !.mru = <<>>, !.last = NoPath]
  /\ UNCHANGED <<dlg, toast, work, pal>>

\* Ejecting empties the drive, then forgets the name of its file.
eject_drive ==
  /\ ui.popup = "eject"
  /\ ui' = Closed(ui)
  /\ tray' = [tray EXCEPT !.disc = NoPath, !.name = NoPath]
  /\ UNCHANGED <<dlg, toast, work, pal>>

eject_tape ==
  /\ ui.popup = "tape"
  /\ ui' = Closed(ui)
  /\ tray' = [tray EXCEPT !.tape = NoPath, !.block = 0]
  /\ UNCHANGED <<dlg, toast, work, pal>>

\* The popups of the status bar are asked for from its labels and the menus.
ask_eject ==
  /\ Free
  /\ \/ tray.disc # NoPath /\ ui' = Settle([ui EXCEPT !.ask = "eject"])
     \/ tray.tape # NoPath /\ ui' = Settle([ui EXCEPT !.ask = "tape"])
     \/ tray.mru # <<>> /\ ui' = Settle([ui EXCEPT !.ask = "recent"])
  /\ UNCHANGED <<dlg, tray, toast, work, pal>>

\* Mutant: the forward key does not know the last block.
tape_step_free(d) == tray.block + d >= 0

\* The block keys: disabled at either end of the tape.
tape_step(d) == tray.block + d \in 0 .. TapeBlocks - 1

\* The transport: PLAY, STOP, and one block back or on, which stops the tape.
tape_transport ==
  /\ Free
  /\ tray.tape # NoPath
  /\ \/ ui' = [ui EXCEPT !.playing = ~@] /\ UNCHANGED tray
     \/ \E d \in {-1, 1} :
          /\ tape_step(d)
          /\ tray' = [tray EXCEPT !.block = @ + d]
          /\ ui' = [ui EXCEPT !.playing = FALSE]
  /\ UNCHANGED <<dlg, toast, work, pal>>

DialogNext ==
  \/ koncpc_request_file_dialog \/ file_dialog_cancel \/ file_dialog_callback
  \/ file_dialog_result \/ process_pending_dialog
  \/ guest_writes \/ m4_popup \/ popup_cancel

TrayNext ==
  \/ drop_file \/ open_recent \/ clear_recent \/ eject_drive \/ eject_tape
  \/ ask_eject \/ tape_transport \/ popup_cancel

-----------------------------------------------------------------------------
(* Toasts.  Each has a level and the time it has left.                     *)

\* Mutant: a full queue refuses the newest message.
imgui_toast_refuses(q, level) == IF Len(q) >= MaxToasts THEN q ELSE Append(q, level)

\* The queue drops its oldest message when full.
imgui_toast(q, level) == Append(IF Len(q) >= MaxToasts THEN Tail(q) ELSE q, level)

toast_sent ==
  /\ \E l \in {"info", "success", "error"} :
       toast' = [queue |-> imgui_toast(toast.queue, l), said |-> l]
  /\ UNCHANGED <<ui, dlg, tray, work, pal>>

\* An error stays half as long again, so a later message may leave first.
toast_expires ==
  /\ \E i \in DOMAIN toast.queue :
       /\ \A j \in 1 .. i - 1 : toast.queue[j] = "error" /\ toast.queue[i] # "error"
       /\ toast' = [queue |-> RemoveAt(toast.queue, i),
                    said |-> IF i = Len(toast.queue) THEN "none" ELSE toast.said]
  /\ UNCHANGED <<ui, dlg, tray, work, pal>>

ToastNext == toast_sent \/ toast_expires

-----------------------------------------------------------------------------
(* The dock workspace.  Debugger windows by key; a layout file holds the   *)
(* mode, the toolbar flag and the open windows.                            *)

CoreWindows == {"registers", "disassembly"}

Presets == [Debug |-> CoreWindows, IDE |-> {"disassembly"},
            Hardware |-> {"disc_tools"}]

DevWindows == UNION {Presets[p] : p \in DOMAIN Presets}

OnWork(w) == work' = w /\ UNCHANGED <<ui, dlg, tray, toast, pal>>

\* Opening by toggling: only what is not open yet.
ensure_window_open(w, wins) == [w EXCEPT !.wins = @ \cup wins]

ensure_window_closed(w, wins) == [w EXCEPT !.wins = @ \ wins]

\* A preset opens its windows on top of those open already, and the toolbar.
workspace_apply_preset(w, p) == [ensure_window_open(w, Presets[p]) EXCEPT !.devtools = TRUE]

\* Entering docked mode asks for the Debug preset, applied at the next frame.
choose_docked ==
  /\ ui.dropdown /\ ~work.docked
  /\ OnWork([work EXCEPT !.docked = TRUE, !.initial = TRUE, !.last = NoPath])

choose_classic == ui.dropdown /\ OnWork([work EXCEPT !.docked = FALSE, !.last = NoPath])

\* Closing the CPC Screen window goes back to classic mode.
workspace_render_cpc_screen ==
  work.docked /\ ~work.initial /\ OnWork([work EXCEPT !.docked = FALSE, !.last = NoPath])

workspace_render_dockspace ==
  /\ work.docked /\ work.initial
  /\ OnWork([workspace_apply_preset(work, "Debug") EXCEPT !.initial = FALSE, !.last = NoPath])

choose_preset ==
  /\ ui.dropdown /\ work.docked
  /\ \E p \in DOMAIN Presets : OnWork([workspace_apply_preset(work, p) EXCEPT !.last = NoPath])

toggle_window ==
  \E k \in DevWindows :
    OnWork([work EXCEPT !.wins = IF k \in @ THEN @ \ {k} ELSE @ \cup {k}, !.last = NoPath])

\* DevTools off closes every debugger window.
toggle_devtools ==
  OnWork([work EXCEPT !.devtools = ~@, !.wins = IF work.devtools THEN {} ELSE @, !.last = NoPath])

Saved(w) == [docked |-> w.docked, devtools |-> w.devtools, wins |-> w.wins]

workspace_save_layout(w, n) ==
  [w EXCEPT !.files = [m \in DOMAIN @ \cup {n} |-> IF m = n THEN Saved(w) ELSE @[m]], !.dirty = TRUE]

\* The popup trims the name and refuses an empty one or a path.
save_layout_popup ==
  ui.dropdown /\ \E n \in LayoutNames : OnWork([workspace_save_layout(work, n) EXCEPT !.last = NoPath])

\* Mutant: windows that are open already stay open.
workspace_load_layout_adds(w, n) ==
  [ensure_window_open(w, w.files[n].wins)
     EXCEPT !.docked = w.files[n].docked, !.devtools = w.files[n].devtools]

\* Every window is closed before the saved ones are opened.
workspace_load_layout(w, n) ==
  [ensure_window_open(ensure_window_closed(w, DevWindows), w.files[n].wins)
     EXCEPT !.docked = w.files[n].docked, !.devtools = w.files[n].devtools]

choose_layout ==
  /\ ui.dropdown
  /\ \E n \in work.cache \cap DOMAIN work.files :
       OnWork([workspace_load_layout(work, n) EXCEPT !.last = n])

\* Mutant: deleting a file leaves the cached list as it is.
workspace_delete_layout_quiet(w, n) == [w EXCEPT !.files = [m \in DOMAIN @ \ {n} |-> @[m]]]

workspace_delete_layout(w, n) ==
  [w EXCEPT !.files = [m \in DOMAIN @ \ {n} |-> @[m]], !.dirty = TRUE]

delete_layout ==
  ui.dropdown /\ \E n \in work.cache : OnWork([workspace_delete_layout(work, n) EXCEPT !.last = NoPath])

\* The dropdown shows the cache, read again only when it is marked dirty.
workspace_list_layouts ==
  ui.dropdown /\ work.dirty /\ OnWork([work EXCEPT !.cache = DOMAIN work.files, !.dirty = FALSE])

WorkNext ==
  \/ choose_docked \/ choose_classic \/ workspace_render_cpc_screen
  \/ workspace_render_dockspace \/ choose_preset \/ toggle_window
  \/ toggle_devtools \/ save_layout_popup \/ choose_layout
  \/ delete_layout \/ workspace_list_layouts
  \/ layout_button

-----------------------------------------------------------------------------
(* The command palette.                                                    *)

OnPal(p) == pal' = p /\ UNCHANGED <<ui, dlg, tray, toast, work>>

palette_open == ~pal.open /\ OnPal([pal EXCEPT !.open = TRUE, !.sel = 0, !.buf = 0, !.pos = 0])

\* Typing changes how many commands match; the selection is not touched.
filter_commands == pal.open /\ pal.mode = 0 /\ \E n \in 0 .. 2 : OnPal([pal EXCEPT !.hits = n])

palette_arrow ==
  /\ pal.open /\ pal.mode = 0
  /\ \/ OnPal([pal EXCEPT !.sel = IF @ + 1 < pal.hits THEN @ + 1 ELSE pal.hits - 1])
     \/ OnPal([pal EXCEPT !.sel = IF @ > 0 THEN @ - 1 ELSE 0])

\* A command of the emulator menu is run as a press of its key code, which
\* the keyboard takes for a CPC key; the other commands call their function.
register_command(p, k) ==
  IF k = "menu action" THEN [p EXCEPT !.did = "CPC key"] ELSE [p EXCEPT !.did = k]

\* Enter runs the selected match; the palette closes first.
palette_enter ==
  /\ pal.open /\ pal.mode = 0
  /\ pal.sel \in 0 .. pal.hits - 1
  /\ \E k \in {"menu action", "window", "pause"} :
       OnPal([register_command([pal EXCEPT !.open = FALSE], k) EXCEPT !.asked = k])

palette_mode == pal.open /\ OnPal([pal EXCEPT !.mode = 1 - @])

\* pos 0 is the empty line below the history.
palette_history ==
  /\ pal.open /\ pal.mode = 1 /\ pal.hist # <<>>
  /\ LET n == Len(pal.hist)
         back == IF pal.pos = 0 THEN n ELSE IF pal.pos > 1 THEN pal.pos - 1 ELSE 1
         fwd == IF pal.pos \in 1 .. n - 1 THEN pal.pos + 1 ELSE 0
     IN \/ OnPal([pal EXCEPT !.pos = back, !.buf = pal.hist[back]])
        \/ OnPal([pal EXCEPT !.pos = fwd, !.buf = IF fwd = 0 THEN 0 ELSE pal.hist[fwd]])

palette_type ==
  /\ pal.open /\ pal.mode = 1 /\ pal.pos = 0
  /\ \E c \in 1 .. 2 : OnPal([pal EXCEPT !.buf = c])

execute_ipc ==
  /\ pal.open /\ pal.mode = 1 /\ pal.buf # 0
  /\ Len(pal.hist) < MaxHistory
  /\ OnPal([pal EXCEPT !.hist = Append(@, pal.buf), !.out = Append(@, pal.buf), !.pos = 0, !.buf = 0])

palette_close == pal.open /\ OnPal([pal EXCEPT !.open = FALSE])

PalNext ==
  \/ palette_open \/ filter_commands \/ palette_arrow \/ palette_enter
  \/ palette_mode \/ palette_history \/ palette_type \/ execute_ipc \/ palette_close

-----------------------------------------------------------------------------
ShellInit ==
  /\ \E m \in BOOLEAN, a \in BOOLEAN :
       ui = [menu |-> FALSE, options |-> FALSE, about |-> FALSE, palette |-> FALSE,
             dropdown |-> FALSE, popup |-> "none", ask |-> "none", paused |-> FALSE,
             altered |-> FALSE, m4 |-> m, auto_pause |-> a, playing |-> FALSE,
             slot |-> FALSE, thumb |-> "none", quit |-> FALSE, lost |-> {}]
  /\ dlg = [shown |-> {}, pending |-> NoPath, path |-> NoPath, writing |-> NoPath, slot |-> -1]
  /\ tray = [name |-> NoPath, disc |-> NoPath, tape |-> NoPath, block |-> 0, mru |-> <<>>,
             last |-> NoPath, rom |-> [s \in RomSlots |-> NoPath]]
  /\ toast = [queue |-> <<>>, said |-> "none"]
  /\ work = [docked |-> FALSE, initial |-> FALSE, devtools |-> FALSE, wins |-> {},
             files |-> <<>>, cache |-> {}, dirty |-> TRUE, last |-> NoPath]
  /\ pal = [open |-> FALSE, mode |-> 0, sel |-> 0, hits |-> 2, hist |-> <<>>, out |-> <<>>,
            pos |-> 0, buf |-> 0, did |-> "none", asked |-> "none"]

-----------------------------------------------------------------------------
\* A machine whose disc holds unsaved changes is reset, rebuilt or left only
\* after a popup asked, whether the request came from the menu bar, the
\* keyboard, a new SD folder, the quit popup or the window's close button.
\* The pause menu's own Reset and a new cartridge are the code's exceptions.
LossIsConfirmed == ui.lost \subseteq {"pause menu", "cartridge"}

\* The recent list has no duplicates, stays within its limit and starts with
\* the file loaded last; the toasts on screen end with the last one sent; the
\* tape counter names a block of the tape.
MediaLists ==
  /\ \A i, j \in DOMAIN tray.mru : tray.mru[i] = tray.mru[j] => i = j
  /\ Len(tray.mru) <= MruMax
  /\ tray.last # NoPath => tray.mru # <<>> /\ Head(tray.mru) = tray.last
  /\ Len(toast.queue) <= MaxToasts
  /\ toast.said # "none" => toast.queue # <<>> /\ Last(toast.queue) = toast.said
  /\ tray.block \in 0 .. TapeBlocks - 1

\* The cached layout list is the directory unless it is marked for reading,
\* and a loaded layout leaves exactly the windows and mode it was saved with.
LayoutsRight ==
  /\ ~work.dirty => work.cache = DOMAIN work.files
  /\ work.last # NoPath => Saved(work) = work.files[work.last]

\* Browsing the palette's history shows the line of the history it names.
PaletteLine ==
  /\ pal.pos \in 0 .. Len(pal.hist)
  /\ pal.pos # 0 => pal.buf = pal.hist[pal.pos]

ShellRight == LossIsConfirmed /\ MediaLists /\ LayoutsRight /\ PaletteLine

=============================================================================
