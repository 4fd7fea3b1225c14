----------------------------- MODULE Keyboard -----------------------------
(* The way of a key from the host to the guest: SDL events, pads and the virtual
   keyboard go through the KeyboardManager (src/src/keyboard_manager.cpp,
   src/src/keyboard.cpp), IPC keys and the autotype queue (src/src/autotype.cpp)
   write the matrix themselves, a session recording overwrites its rows
   (src/src/session_recording.cpp).  The Z80 thread publishes the matrix at the
   start of a frame, the guest reads rows of the published copy, and the end of
   the frame does the rest (src/src/kon_cpc_ja.cpp).

   Every key has a matrix row to itself; SHIFT stands for SHIFT and CTRL.  A
   scancode is <<key, TRUE when it carries the SHIFT flag>>.                     *)
EXTENDS Integers, Sequences, FiniteSets

CONSTANTS Keys,          \* keys other than SHIFT
          Modes,         \* the keyboard support modes to start in
          Texts,         \* what "input type" and the command line may enqueue
          ScanTimeout,   \* kAutotypeScanTimeoutFrames
          MaxRecorded    \* bound: events in a session file

SHIFT == "SHIFT"
NoKey == <<"none", FALSE>>

(* What a text is made of; the only key it holds down is SHIFT.                  *)
Actions ==
  [t : {"char"}, sc : Keys \X BOOLEAN]
    \cup [t : {"press", "release"}, sc : {<<SHIFT, FALSE>>}]
    \cup [t : {"pause", "command"}, sc : {NoKey}]

ASSUME KeyAssumption ==
  /\ IsFiniteSet(Keys) /\ SHIFT \notin Keys /\ "none" \notin Keys
  /\ Modes \subseteq {"Direct", "BufferedUntilRead", "Min2Frames"}
  /\ \A text \in Texts : text \in Seq(Actions)

VARIABLES kmatrix,   \* keyboard_matrix: the keys held down
          klive,     \* keyboard_matrix_live: the copy the guest reads
          kman,      \* KeyboardManager: mode, key_needs_scan, pending_releases
          kframe,    \* is a frame running; CPC.paused; the host's own keys;
                     \* g_keyboard_scanned, its timeout
          aq,        \* AutoTypeQueue
          sess,      \* SessionRecorder and prev_matrix
          kseen      \* history: presses the guest has not read, keys it has down, typed
                     \* characters it has not read, a wrong one, ticks it could not see or keys not typed by the queue

keyVars == <<kmatrix, klive, kman, kframe, aq, sess, kseen>>

KeyInit ==
  /\ kmatrix = {} /\ klive = {}
  /\ kman \in [mode : Modes, needs : {{}}, pending : {{}}]
  /\ kframe = [on |-> FALSE, paused |-> FALSE, phys |-> {}, scanned |-> FALSE, wait |-> 0]
  /\ aq = [q |-> <<>>, held |-> NoKey, gap |-> FALSE, pause |-> 0, blocked |-> FALSE]
  /\ sess = [state |-> "IDLE", events |-> <<>>, file |-> <<>>, prev |-> {},
             base |-> {}, shown |-> <<>>, at |-> 0, clean |-> TRUE]
  /\ kseen = [unread |-> {}, down |-> {}, text |-> <<>>, wrong |-> FALSE, blind |-> FALSE]

Key(sc) == sc[1]
Shifted(sc) == sc[2]

(* Press: the key, then SHIFT as the scancode says, so that SHIFT alone releases
   itself.  Release: the key and, by default, the modifiers.                    *)
applyKeypressDirect(m, sc, pressed, mods) ==
  IF pressed
    THEN IF Shifted(sc) THEN m \cup {Key(sc), SHIFT} ELSE (m \cup {Key(sc)}) \ {SHIFT}
    ELSE m \ (IF mods THEN {Key(sc), SHIFT} ELSE {Key(sc)})

(* IPC and autotype press the same way but leave a bare SHIFT down.             *)
ipc_apply_keypress(m, sc, pressed) ==
  IF pressed
    THEN IF Shifted(sc) THEN m \cup {Key(sc), SHIFT}
         ELSE IF Key(sc) = SHIFT THEN m \cup {SHIFT} ELSE (m \cup {Key(sc)}) \ {SHIFT}
    ELSE m \ {Key(sc), SHIFT}

(* Releases put off: those due go together, so neither order nor number matters. *)
Release(sc, left) == [sc |-> sc, left |-> left]
Dropped(sc) == {r \in kman.pending : r.sc # sc}

(* A key down forgets its pending release, and in the buffered mode waits for a
   read.                                                                        *)
handle_keydown(sc) ==
  /\ kmatrix' = applyKeypressDirect(kmatrix, sc, TRUE, FALSE)
  /\ kman' = [kman EXCEPT !.pending = Dropped(sc),
                          !.needs = IF kman.mode = "BufferedUntilRead" THEN @ \cup {sc} ELSE @]
  /\ kseen' = [kseen EXCEPT !.unread = @ \cup ({sc} \ {<<SHIFT, FALSE>>}), !.blind = TRUE]

(* A key up is done at once, or put off until a read or two frames later.  With
   SHIFT let go before the key its scancode is another one, whose release waits
   for nothing: that press is not owed a read any more.                         *)
handle_keyup(sc) ==
  LET now == \/ kman.mode = "Direct"
             \/ kman.mode = "BufferedUntilRead" /\ sc \notin kman.needs
      left == IF kman.mode = "Min2Frames" THEN 2 ELSE 0
  IN /\ kmatrix' = IF now THEN applyKeypressDirect(kmatrix, sc, FALSE, TRUE) ELSE kmatrix
     /\ kman' = IF now THEN [kman EXCEPT !.needs = @ \ {sc}]
                       ELSE [kman EXCEPT !.pending = @ \cup {Release(sc, left)}]
     /\ kseen' = [kseen EXCEPT !.unread = @ \ {<<Key(sc), ~Shifted(sc)>>}]

HostScancode(k) == <<k, k # SHIFT /\ SHIFT \in kframe.phys>>

(* SDL key events, repeats among them.  The manager ignores the host while the
   machine is paused: a key let go then stays down.                              *)
applyKeypress ==
  /\ \E k \in Keys \cup {SHIFT} :
       \/ /\ kframe' = [kframe EXCEPT !.phys = @ \cup {k}]
          /\ IF kframe.paused THEN UNCHANGED <<kmatrix, kman, kseen>>
                              ELSE handle_keydown(HostScancode(k))
       \/ /\ k \in kframe.phys
          /\ Cardinality(kman.pending) < 2   \* bound: releases in flight
          /\ kframe' = [kframe EXCEPT !.phys = @ \ {k}]
          /\ IF kframe.paused THEN UNCHANGED <<kmatrix, kman, kseen>>
                              ELSE handle_keyup(HostScancode(k))
  /\ UNCHANGED <<klive, aq, sess>>

(* The virtual keyboard and a controller that is unplugged bypass the manager.  *)
applyDirect ==
  /\ \E k \in Keys, pressed \in BOOLEAN :
       /\ kmatrix' = applyKeypressDirect(kmatrix, <<k, FALSE>>, pressed, TRUE)
       /\ kseen' = [kseen EXCEPT !.unread = {sc \in @ : Key(sc) # k}, !.blind = TRUE]
  /\ UNCHANGED <<klive, kman, kframe, aq, sess>>

(* IPC "input keydown|keyup|joy".                                               *)
ipc_input_key ==
  /\ \E sc \in (Keys \X BOOLEAN) \cup {<<SHIFT, FALSE>>}, pressed \in BOOLEAN :
       /\ kmatrix' = ipc_apply_keypress(kmatrix, sc, pressed)
       /\ kseen' = [kseen EXCEPT !.unread = {u \in @ : Key(u) # Key(sc)}, !.blind = TRUE]
  /\ UNCHANGED <<klive, kman, kframe, aq, sess>>

TogglePause ==
  /\ kframe' = [kframe EXCEPT !.paused = ~@]
  /\ UNCHANGED <<kmatrix, klive, kman, aq, sess, kseen>>

-----------------------------------------------------------------------------
(* Text for the queue.  A tag names a key; one that is not closed, or names no
   key, refuses the whole text.                                                 *)
is_active ==
  aq.q # <<>> \/ aq.held # NoKey \/ aq.pause > 0 \/ aq.gap \/ aq.blocked

enqueue ==
  /\ \E text \in Texts :
       aq' = [aq EXCEPT !.q = @ \o text]
  /\ ~is_active   \* bound: one text at a time
  /\ UNCHANGED <<kmatrix, klive, kman, kframe, sess, kseen>>

(* "autotype clear": forgets the key it holds down.                             *)
autotype_clear ==
  /\ aq' = [q |-> <<>>, held |-> NoKey, gap |-> FALSE, pause |-> 0, blocked |-> FALSE]
  /\ kseen' = [kseen EXCEPT !.blind = TRUE]
  /\ UNCHANGED <<kmatrix, klive, kman, kframe, sess>>

(* A breakpoint or WAITBREAK's key resumes a blocked queue.                     *)
autotype_resume ==
  /\ aq.blocked
  /\ aq' = [aq EXCEPT !.blocked = FALSE]
  /\ UNCHANGED <<kmatrix, klive, kman, kframe, sess, kseen>>

(* Mutant: the next character follows in the frame of the release.              *)
tick_hasty(m) ==
  IF aq.held # NoKey /\ aq.q # <<>> /\ Head(aq.q).t = "char"
    THEN [m |-> ipc_apply_keypress(ipc_apply_keypress(m, aq.held, FALSE), Head(aq.q).sc, TRUE),
          a |-> [aq EXCEPT !.q = Tail(@), !.held = Head(aq.q).sc], ch |-> <<Head(aq.q).sc>>]
  ELSE IF aq.held # NoKey
    THEN [m |-> ipc_apply_keypress(m, aq.held, FALSE),
          a |-> [aq EXCEPT !.held = NoKey, !.gap = TRUE], ch |-> <<>>]
  ELSE IF aq.q = <<>> THEN [m |-> m, a |-> [aq EXCEPT !.gap = FALSE], ch |-> <<>>]
  ELSE [m |-> ipc_apply_keypress(m, Head(aq.q).sc, TRUE),
        a |-> [aq EXCEPT !.q = Tail(@), !.held = Head(aq.q).sc], ch |-> <<Head(aq.q).sc>>]

(* One tick: release the held key, or spend the gap or a pause, or take the next
   action.  Returns the matrix, the queue and the character pressed.            *)
tick(m) ==
  LET a == Head(aq.q)
      rest == [aq EXCEPT !.q = Tail(@)]
  IN CASE aq.blocked -> [m |-> m, a |-> aq, ch |-> <<>>]
       [] ~aq.blocked /\ aq.held # NoKey ->
            [m |-> ipc_apply_keypress(m, aq.held, FALSE),
             a |-> [aq EXCEPT !.held = NoKey, !.gap = TRUE], ch |-> <<>>]
       [] ~aq.blocked /\ aq.held = NoKey /\ aq.gap ->
            [m |-> m, a |-> [aq EXCEPT !.gap = FALSE], ch |-> <<>>]
       [] ~aq.blocked /\ aq.held = NoKey /\ ~aq.gap /\ aq.pause > 0 ->
            [m |-> m, a |-> [aq EXCEPT !.pause = @ - 1], ch |-> <<>>]
       [] OTHER ->
            CASE a.t = "char" -> [m |-> ipc_apply_keypress(m, a.sc, TRUE),
                                  a |-> [rest EXCEPT !.held = a.sc], ch |-> <<a.sc>>]
              [] a.t = "press" -> [m |-> ipc_apply_keypress(m, a.sc, TRUE), a |-> rest, ch |-> <<>>]
              [] a.t = "release" -> [m |-> ipc_apply_keypress(m, a.sc, FALSE),
                                     a |-> [rest EXCEPT !.gap = TRUE], ch |-> <<>>]
              [] a.t = "pause" -> [m |-> m, a |-> [rest EXCEPT !.pause = 1], ch |-> <<>>]
              [] a.t = "command" -> [m |-> m, a |-> [rest EXCEPT !.blocked = TRUE], ch |-> <<>>]

-----------------------------------------------------------------------------
(* "session record", to the one path there is: the file starts with a snapshot; the recorder compares with
   whatever rows it last saw, in an earlier recording too.                       *)
start_recording ==
  /\ sess.state = "IDLE"
  /\ sess' = [sess EXCEPT !.state = "RECORDING", !.events = <<>>, !.shown = <<>>,
                          !.base = sess.prev, !.file = <<>>, !.at = 0, !.clean = TRUE]
  /\ UNCHANGED <<kmatrix, klive, kman, kframe, aq, kseen>>

stop_recording ==
  /\ sess.state = "RECORDING"
  /\ sess' = [sess EXCEPT !.state = "IDLE", !.file = sess.events, !.events = <<>>]
  /\ UNCHANGED <<kmatrix, klive, kman, kframe, aq, kseen>>

(* "session play": the keyboard is left as it is.                               *)
start_playback ==
  /\ sess.state = "IDLE" /\ sess.file # <<>>
  /\ sess' = [sess EXCEPT !.state = "PLAYING", !.events = sess.file, !.at = 0,
                          !.clean = (kmatrix = sess.base)]
  /\ UNCHANGED <<kmatrix, klive, kman, kframe, aq, kseen>>

stop_playback ==
  /\ sess.state = "PLAYING"
  /\ sess' = [sess EXCEPT !.state = "IDLE", !.events = <<>>]
  /\ UNCHANGED <<kmatrix, klive, kman, kframe, aq, kseen>>

(* The Session Recording window: Record and Play when idle, Stop otherwise.     *)
render_session_recording ==
  start_recording \/ stop_recording \/ start_playback \/ stop_playback

Row(k, down) == [t |-> "KEY_DOWN", k |-> k, down |-> down]
Sync == [t |-> "FRAME_SYNC", k |-> "none", down |-> FALSE]
SetToRows(s) ==
  CHOOSE f \in [1..Cardinality(s) -> s] : \A k \in s : \E i \in 1..Cardinality(s) : f[i] = k

FirstSync(ev) == CHOOSE i \in DOMAIN ev : ev[i] = Sync /\ \A j \in 1..(i - 1) : ev[j] # Sync

(* Mutant: the rows of a frame are applied a frame late.                        *)
played_rows_late(m) == IF sess.at = 0 THEN m ELSE sess.shown[sess.at]

(* A played frame: the rows up to the next FRAME_SYNC.                          *)
played_rows(m) ==
  LET n == FirstSync(sess.events) - 1
      rows == {sess.events[i] : i \in 1..n}
  IN (m \cup {r.k : r \in {x \in rows : x.down}}) \ {r.k : r \in {x \in rows : ~x.down}}

(* Past the FRAME_SYNC; the last one ends the playback.                         *)
advance_frame ==
  LET n == FirstSync(sess.events)
      rest == SubSeq(sess.events, n + 1, Len(sess.events))
  IN IF rest = <<>> THEN [sess EXCEPT !.state = "IDLE", !.events = <<>>, !.at = @ + 1]
                    ELSE [sess EXCEPT !.events = rest, !.at = @ + 1]

-----------------------------------------------------------------------------
publish_keyboard_snapshot ==
  /\ ~kframe.on /\ ~kframe.paused
  /\ klive' = kmatrix
  /\ kframe' = [kframe EXCEPT !.on = TRUE]
  /\ UNCHANGED <<kmatrix, kman, aq, sess, kseen>>

(* Mutant: a read of the row counts though the published copy shows no key yet,
   as the notify_scanned overload without a value would have it.                *)
notify_scanned_blind(rows) == {sc \in kman.needs : Key(sc) \in rows}

(* A read of the row counts only if the copy it read had the key down.          *)
notify_scanned(rows) == {sc \in kman.needs : Key(sc) \in rows /\ Key(sc) \in klive}

(* Mutant: a release waits until every key has been read.                       *)
Due_waits_all(r, needs) ==
  CASE kman.mode = "BufferedUntilRead" -> needs = {}
    [] kman.mode = "Min2Frames" -> r.left <= 1
    [] OTHER -> TRUE

(* Releases that are due.                                                       *)
Due(r, needs) ==
  CASE kman.mode = "BufferedUntilRead" -> r.sc \notin needs
    [] kman.mode = "Min2Frames" -> r.left <= 1
    [] OTHER -> TRUE

(* KeyboardManager::update at the end of the frame.                             *)
update(m, needs) ==
  LET due == {r \in kman.pending : Due(r, needs)}
      gone == {Key(r.sc) : r \in due}
  IN [m |-> IF due = {} THEN m ELSE m \ (gone \cup {SHIFT}),
      k |-> [kman EXCEPT !.needs = needs \ {r.sc : r \in due},
                         !.pending = {Release(r.sc, IF r.left > 0 THEN r.left - 1 ELSE 0) :
                                      r \in kman.pending \ due}]]

(* The end of a frame in which the guest read some rows: releases, recording or
   playback, then one autotype tick if the guest has scanned or the wait is over. *)
FrameComplete(rows) ==
  LET \* A recorded frame: the rows that changed, then a FRAME_SYNC.
      record_frame(mm) ==
        LET keys == SetToRows((mm \ sess.prev) \cup (sess.prev \ mm))
            changed == [i \in DOMAIN keys |-> Row(keys[i], keys[i] \in mm)]
        IN [sess EXCEPT !.events = @ \o changed \o <<Sync>>, !.prev = mm, !.shown = Append(@, mm)]
      needs == kman.needs \ notify_scanned(rows)
      u == update(kmatrix, needs)
      s == CASE sess.state = "RECORDING" -> record_frame(u.m)
             [] sess.state = "PLAYING" -> advance_frame
             [] OTHER -> sess
      m == IF sess.state = "PLAYING" THEN played_rows(u.m) ELSE u.m
      scanned == kframe.scanned \/ rows # {}
      due == is_active /\ (scanned \/ kframe.wait + 1 >= ScanTimeout)
      t == IF due THEN tick(m) ELSE [m |-> m, a |-> aq, ch |-> <<>>]
      edge == (rows \cap klive) \ (kseen.down \cup {SHIFT})
      ok == edge = {} \/ (kseen.text # <<>> /\ edge = {Key(Head(kseen.text))}
                           /\ Shifted(Head(kseen.text)) = (SHIFT \in klive))
  IN /\ kframe.on
     /\ sess.state = "RECORDING" => Len(sess.shown) < MaxRecorded
     /\ kmatrix' = t.m /\ aq' = t.a /\ kman' = u.k /\ sess' = s
     /\ kframe' = [kframe EXCEPT !.on = FALSE, !.scanned = scanned /\ ~due,
                     !.wait = IF ~is_active THEN @ ELSE IF due THEN 0 ELSE @ + 1]
     /\ kseen' = [kseen EXCEPT
                     !.unread = {sc \in @ : Key(sc) \notin (rows \cap klive) \cup (u.m \ t.m)},
                     !.down = IF kseen.blind THEN {} ELSE (@ \ rows) \cup (rows \cap klive),
                     !.wrong = @ \/ (~kseen.blind /\ ~ok),
                     !.text = IF kseen.blind THEN <<>> ELSE (IF edge # {} /\ @ # <<>> THEN Tail(@) ELSE @) \o t.ch,
                     !.blind = @ \/ (due /\ rows = {})]
     /\ UNCHANGED klive

AllRows == Keys \cup {SHIFT}

HostKeyNext ==
  \/ applyKeypress \/ TogglePause \/ publish_keyboard_snapshot
  \/ \E rows \in SUBSET AllRows : FrameComplete(rows)

DirectKeyNext ==
  \/ applyDirect \/ ipc_input_key \/ publish_keyboard_snapshot
  \/ FrameComplete(AllRows)

TypeNext ==
  \/ enqueue \/ autotype_clear \/ autotype_resume \/ publish_keyboard_snapshot
  \/ \E rows \in {{}, AllRows} : FrameComplete(rows)

SessionNext ==
  \/ render_session_recording
  \/ (sess.state # "PLAYING" /\ ipc_input_key)
  \/ publish_keyboard_snapshot \/ FrameComplete(AllRows)

(* The buffered mode's promise: a key pressed on the host and let go before the guest
   looks stays down in the matrix until a frame whose published copy shows it has been
   read.                                                                             *)
TapIsSeen ==
  kman.mode = "BufferedUntilRead" => \A sc \in kseen.unread : Key(sc) \in kmatrix

(* Autotyped text reaches a guest that reads the keyboard: unless the queue gave up
   waiting for a read or was cleared, the guest sees exactly the characters typed, in
   order and with their SHIFT, at most one behind.                                    *)
TypedInOrder == ~kseen.blind => ~kseen.wrong /\ Len(kseen.text) <= 1

(* A replay that starts with the keys the recording started from shows, frame by
   frame, the rows of the recording.                                                  *)
ReplayIsFaithful ==
  sess.state = "PLAYING" /\ sess.clean /\ sess.at > 0 => kmatrix = sess.shown[sess.at]

(* A key down in the matrix with its release put off is owed that release, whatever else
   is pressed meanwhile, unless it is pressed again or the machine is paused.        *)
ReleaseOwed ==
  /\ ~kframe.paused
  /\ \E k \in Keys : /\ k \in kmatrix \ kframe.phys
                     /\ \E r \in kman.pending : Key(r.sc) = k

(* Text in the queue is owed its typing, unless a WAITBREAK blocks it.                *)
TextOwed == is_active /\ ~aq.blocked

===========================================================================
