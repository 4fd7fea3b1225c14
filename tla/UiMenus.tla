------------------------------ MODULE UiMenus ------------------------------
(***************************************************************************)
(* The actions behind menus and shortcut keys, and the small tool windows: *)
(* the on-screen keyboard, the serial terminal, the memory tool, the       *)
(* plotter preview and the debugger's tool bar.                            *)
(*                                                                         *)
(* act   what the menu actions change                                      *)
(* vkb   the on-screen keyboard and its one-shot modifiers                 *)
(* term  the serial terminal: bytes shown, and bytes that reached the DART *)
(* look  the memory tool and the plotter preview                           *)
(***************************************************************************)
EXTENDS Integers, Sequences, FiniteSets

CONSTANTS ArchiveDisks,   \* discs in the archive in drive A
          TermSize,       \* SerialTerminalState::BUFFER_SIZE
          MaxTyped,       \* bound: keys pressed on the on-screen keyboard
          MaxClicks       \* bound: menu entries and shortcuts used

ASSUME MenusAssumption == TermSize \in Nat

VARIABLES act, vkb, term, look

menuVars == <<act, vkb, term, look>>

-----------------------------------------------------------------------------
(* The actions.                                                            *)

\* Every action with a default key or a menu entry that changes this state.
Actions == {"devtools", "scrnshot", "snapshot", "ld_snap", "tapeplay", "mf2stop",
            "fps", "speed", "tier", "debug", "nextdiska", "vkbd"}

NextPolicy(p) == CASE p = "auto" -> "fast" [] p = "fast" -> "wake" [] OTHER -> "auto"

\* The path is remembered whether or not the file was written.
DoSnapshot(a, ok) == [a EXCEPT !.last = TRUE, !.snap = @ \/ ok]

\* Mutant: the key does not ask whether the environment fixed the tier.
DoTier_always(a) == IF ~a.active THEN a ELSE [a EXCEPT !.policy = NextPolicy(@)]

DoTier(a) == IF ~a.active \/ a.pinned THEN a ELSE [a EXCEPT !.policy = NextPolicy(@)]

\* The index moves on even when the disc does not load; loading wraps it.
DoNextDisk(a, ok) ==
  IF ~a.zip THEN a
  ELSE LET i == (a.index + 1) % ArchiveDisks IN
       [a EXCEPT !.index = i, !.mounted = IF ok THEN i ELSE @]

koncpc_menu_action(a, what, ok) ==
  LET \* The debug windows open with the tools and close with them.
      DoDevtools == [a EXCEPT !.devtools = ~@, !.verbose = ~a.devtools,
                              !.windows = IF a.devtools THEN {} ELSE @]
      DoTapePlay == IF a.tape THEN [a EXCEPT !.play = ~@] ELSE a
      \* Two deliveries of one press within a tenth of a second count once.
      DoSpeed == IF a.recent THEN a ELSE [a EXCEPT !.limit = ~@, !.recent = TRUE]
  IN
  CASE what = "devtools"  -> DoDevtools
    [] what = "scrnshot"  -> [a EXCEPT !.shot = TRUE]
    [] what = "snapshot"  -> DoSnapshot(a, ok)
    [] what = "ld_snap"   -> IF a.last /\ a.snap THEN [a EXCEPT !.restored = TRUE] ELSE a
    [] what = "tapeplay"  -> DoTapePlay
    [] what = "mf2stop"   -> IF a.mf2 THEN [a EXCEPT !.redbutton = TRUE] ELSE a
    [] what = "fps"       -> [a EXCEPT !.fps = ~@]
    [] what = "speed"     -> DoSpeed
    [] what = "tier"      -> DoTier(a)
    [] what = "debug"     -> [a EXCEPT !.verbose = ~@]
    [] what = "nextdiska" -> DoNextDisk(a, ok)
    [] what = "vkbd"      -> [a EXCEPT !.keyboard = ~@]

Click(a) == act.clicks < MaxClicks /\ act' = [a EXCEPT !.clicks = @ + 1]

\* A menu item, where there is one: Run Tier has a menu of its own.
MenuClick ==
  /\ \E what \in Actions \ {"tier"}, ok \in BOOLEAN : Click(koncpc_menu_action(act, what, ok))
  /\ UNCHANGED <<vkb, term, look>>

\* A command queued with the text to type, run when its turn comes.
AutotypeCommand ==
  /\ \E what \in Actions, ok \in BOOLEAN : Click(koncpc_menu_action(act, what, ok))
  /\ UNCHANGED <<vkb, term, look>>

\* The tick beside a menu item.
koncpc_action_is_active(a, what) ==
  CASE what = "fps" -> a.fps [] what = "speed" -> a.limit
    [] what = "devtools" -> a.devtools [] what = "debug" -> a.verbose [] OTHER -> FALSE

\* The key handler has its own list of actions: the ones it does not name fall
\* through to nothing.
KeyShortcut ==
  /\ \E what \in Actions, ok \in BOOLEAN :
       Click(IF what \notin {"tier", "nextdiska"} THEN [koncpc_menu_action(act, what, ok) EXCEPT !.key = what]
             ELSE [act EXCEPT !.key = what])
  /\ UNCHANGED <<vkb, term, look>>

TierMenu ==
  /\ act.active /\ ~act.pinned
  /\ \E p \in {"auto", "fast", "wake", "soldered", "faithful"} : Click([act EXCEPT !.policy = p])
  /\ UNCHANGED <<vkb, term, look>>

frame_begins ==
  LET \* The tier a frame runs with is settled when it begins.
      Want(a) == IF a.policy = "auto" THEN (IF a.points THEN "wake" ELSE "fast") ELSE a.policy
  IN
  /\ act.active
  /\ act' = [act EXCEPT !.tier = IF act.pinned THEN @ ELSE Want(act),
                        !.shot = FALSE, !.redbutton = FALSE, !.recent = FALSE,
                        !.restored = FALSE, !.key = "none"]
  /\ UNCHANGED <<vkb, term, look>>

\* The debugger has something to watch, or nothing any more.
debug_points == Click([act EXCEPT !.points = ~@]) /\ UNCHANGED <<vkb, term, look>>

\* The Window menu opens and closes tool windows by their key.
koncpc_window_toggle ==
  /\ \E w \in {"registers", "stack"} :
       Click([act EXCEPT !.windows = IF w \in @ THEN @ \ {w} ELSE @ \cup {w}])
  /\ UNCHANGED <<vkb, term, look>>

\* The tool bar of the debugger: its first pass opens a set of windows when
\* none is open; its buttons act on the pause flag read at the top of the pass.
devtools_bar ==
  /\ act.devtools
  /\ \/ act.first /\ act' = [act EXCEPT !.first = FALSE,
                                        !.windows = IF @ = {} THEN {"registers", "stack"} ELSE @]
     \/ ~act.first /\ Click([act EXCEPT !.paused = ~@])
  /\ UNCHANGED <<vkb, term, look>>

ActNext == MenuClick \/ AutotypeCommand \/ KeyShortcut \/ TierMenu \/ frame_begins \/ debug_points
           \/ koncpc_window_toggle \/ devtools_bar

-----------------------------------------------------------------------------
(* The on-screen keyboard.                                                 *)

VkModifier ==
  /\ \E m \in {"shift", "caps", "ctrl"} :
       vkb' = [vkb EXCEPT ![m] = ~@, !.armed = IF m = "shift" /\ ~vkb.shift THEN @ + 1 ELSE @]
  /\ vkb.armed < MaxTyped
  /\ UNCHANGED <<act, term, look>>

\* One character: CTRL before SHIFT, and the one used is spent.  Keys sent by
\* code and whole words have more than one character and spend nothing.
\* Mutant: SHIFT stays armed.
emit_key_sticky(v, key) ==
  IF v.ctrl /\ key = "char" THEN [v EXCEPT !.ctrl = FALSE]
  ELSE IF (v.shift \/ v.caps) /\ key = "char"
  THEN [v EXCEPT !.shifted = IF v.caps THEN @ ELSE @ + 1]
  ELSE v

emit_key(v, key) ==
  IF v.ctrl /\ key = "char" THEN [v EXCEPT !.ctrl = FALSE]
  ELSE IF (v.shift \/ v.caps) /\ key = "char"
  THEN [v EXCEPT !.shift = FALSE, !.shifted = IF v.caps THEN @ ELSE @ + 1]
  ELSE v

VkKey ==
  /\ \E key \in {"char", "code", "word"} :
       vkb' = [emit_key(vkb, key) EXCEPT !.queued = key]
  /\ UNCHANGED <<act, term, look>>

\* A key lights up while the guest's matrix has it down, whoever pressed it.
cpc_key_down(matrix, key) == key \in matrix

VkNext == VkModifier \/ VkKey

-----------------------------------------------------------------------------
(* The serial terminal.  rx: bytes the guest sent.  tx: bytes shown as     *)
(* sent to it; wire: those that went to the DART.                          *)

serial_terminal_feed_byte ==
  /\ term' = [term EXCEPT !.rx = IF @ < TermSize THEN @ + 1 ELSE @]
  /\ UNCHANGED <<act, vkb, look>>

TermType ==
  /\ term.input < 2
  /\ term' = [term EXCEPT !.input = @ + 1]
  /\ UNCHANGED <<act, vkb, look>>

\* As many of the typed bytes as the buffer of shown bytes has room for.
Taken(t) == IF t.tx + t.input <= TermSize THEN t.input ELSE TermSize - t.tx

TermEnter ==
  /\ term' = [term EXCEPT !.tx = @ + Taken(term), !.input = 0,
                          !.wire = IF term.backend THEN @ + Taken(term) ELSE @]
  /\ UNCHANGED <<act, vkb, look>>

\* The Send button shows the bytes and sends nothing.
TermSend ==
  /\ term' = [term EXCEPT !.tx = @ + Taken(term), !.input = 0]
  /\ UNCHANGED <<act, vkb, look>>

TermClear ==
  /\ term' = [term EXCEPT !.rx = 0, !.tx = 0, !.wire = 0]
  /\ UNCHANGED <<act, vkb, look>>

TermBackend == term' = [term EXCEPT !.backend = ~@] /\ UNCHANGED <<act, vkb, look>>

TermNext == serial_terminal_feed_byte \/ TermType \/ TermEnter \/ TermSend \/ TermClear \/ TermBackend

-----------------------------------------------------------------------------
(* The memory tool shows all lines, the one with an address, or those with *)
(* a byte.  The plotter preview draws the segments of the plotter itself.  *)

\* Go: a bad address clears the view, any address drops the filter.
LookGo == \E good \in BOOLEAN :
            look' = [look EXCEPT !.display = good, !.filter = FALSE] /\ UNCHANGED <<act, vkb, term>>

\* Filter: a bad byte clears the filter only.
LookFilter ==
  \E good \in BOOLEAN :
    look' = [look EXCEPT !.filter = good, !.display = @ /\ ~good] /\ UNCHANGED <<act, vkb, term>>

LookClear == look' = [look EXCEPT !.filter = FALSE, !.display = look.display /\ look.filter]
             /\ UNCHANGED <<act, vkb, term>>

\* A poke writes RAM when both numbers parse.
LookPoke == \E good \in BOOLEAN :
              look' = [look EXCEPT !.byte = IF good THEN 1 - @ ELSE @] /\ UNCHANGED <<act, vkb, term>>

\* The lines of the memory tool, over a page of two: the address is on line 1,
\* the byte searched for is on line 2 once it was poked.
ShownLines(l) ==
  IF ~l.display /\ ~l.filter THEN {1, 2}
  ELSE (IF l.display THEN {1} ELSE {}) \cup (IF l.filter /\ l.byte = 1 THEN {2} ELSE {})

plotter_preview == look' = [look EXCEPT !.drawn = look.segments] /\ UNCHANGED <<act, vkb, term>>

plotter_draws == look.segments < 2 /\ look' = [look EXCEPT !.segments = @ + 1] /\ UNCHANGED <<act, vkb, term>>

plotter_view_clear == look' = [look EXCEPT !.segments = 0] /\ UNCHANGED <<act, vkb, term>>

LookNext == LookGo \/ LookFilter \/ LookClear \/ LookPoke
            \/ plotter_preview \/ plotter_draws \/ plotter_view_clear

-----------------------------------------------------------------------------

MenusInit ==
  /\ \E pin, zip, mf2 \in BOOLEAN :
       act = [active |-> TRUE, pinned |-> pin, policy |-> "auto", tier |-> "fast",
              points |-> FALSE, paused |-> FALSE, devtools |-> FALSE, verbose |-> FALSE,
              windows |-> {}, first |-> TRUE, limit |-> TRUE, recent |-> FALSE, fps |-> FALSE,
              tape |-> zip, play |-> FALSE, mf2 |-> mf2, redbutton |-> FALSE, shot |-> FALSE,
              zip |-> zip, index |-> 0, mounted |-> 0, last |-> FALSE, snap |-> FALSE,
              restored |-> FALSE, keyboard |-> FALSE, key |-> "none", clicks |-> 0]
  /\ vkb = [shift |-> FALSE, caps |-> FALSE, ctrl |-> FALSE, armed |-> 0, shifted |-> 0,
            queued |-> "none"]
  /\ term = [rx |-> 0, tx |-> 0, wire |-> 0, input |-> 0, backend |-> TRUE]
  /\ look = [display |-> FALSE, filter |-> FALSE, byte |-> 0, segments |-> 0, drawn |-> 0]

-----------------------------------------------------------------------------
(* Properties.                                                             *)

\* A tier fixed by the environment stays: no menu, key or debugger moves it,
\* at once or at a later frame.
PinnedStays == act.pinned => act.policy = "auto" /\ act.tier = "fast"

\* SHIFT is for one key: no more keys are shifted without CAPS LOCK than times
\* SHIFT was armed, however keys, words and other modifiers come in between.
VkOneShot == vkb.shifted <= vkb.armed

\* The terminal shows no byte as sent that its buffer has no room for, and no
\* byte reached the DART that is not shown.
TermBounded == term.tx <= TermSize /\ term.wire <= term.tx

\* The memory tool looks at an address or for a byte, never both.
OneView == ~(look.display /\ look.filter)

MenusRight == PinnedStays /\ VkOneShot /\ TermBounded /\ OneView

=============================================================================
