---------------------------- MODULE IpcServer -----------------------------
(* The IPC server (src/src/koncepcja_ipc_server.cpp): one thread that accepts one
   client at a time, runs its commands one by one and answers each; commands that
   wait for the main loop (repaint, window screenshot) or for the machine (wait),
   the ROM board (rom load, unload) and the event list, whose commands the Z80
   thread runs at the end of a frame (src/src/kon_cpc_ja.cpp).

   Pausing and frame stepping are EmuThreads' subject; here a pause takes effect
   at the next frame boundary.                                                   *)
EXTENDS Integers, Sequences, FiniteSets

CONSTANTS IpcCommands,    \* the commands the client may send
          RomBoardSlots,       \* ROM slots from 2 up
          MaxImages,   \* bound: ROM images ever loaded
          MaxEvents,   \* bound: events at a time
          MaxLines,    \* bound: lines the client has under way
          Intervals    \* vbl intervals, whatever parse_int takes

ASSUME IpcAssumption == Intervals \subseteq Int /\ MaxImages \in Nat

NoRom == 0

VARIABLES conn,    \* the sockets: server state, clients waiting, lines to run
          ipc,     \* the server thread: the command it runs and where it stands
          emu,     \* CPC.paused, in a frame, the PC seen at the last boundary
          events,  \* KoncepcjaIpcServer::events and the has_*_events flags
          paint,   \* repaint: g_repaint_pending, g_repaint_done, the main loop's step
          shot,    \* a window screenshot is asked for; its file is there
          roms     \* memmap_ROM, the board's pointers, the freed images, the next one

ipcVars == <<conn, ipc, emu, events, paint, shot, roms>>

IpcInit ==
  /\ conn = [running |-> FALSE, at |-> "none", waiting |-> 0, lines |-> <<>>, tail |-> FALSE]
  /\ ipc = [cmd |-> "none", at |-> "idle", was |-> FALSE, slot |-> NoRom]
  /\ emu = [paused |-> FALSE, frame |-> FALSE, pc |-> 0]
  /\ events = [list |-> {}, vbl |-> FALSE, pc |-> FALSE]
  /\ paint = [pending |-> FALSE, done |-> FALSE, at |-> "idle"]
  /\ shot = [asked |-> FALSE, there |-> FALSE]
  /\ roms = [table |-> [s \in RomBoardSlots |-> NoRom], board |-> [s \in RomBoardSlots |-> NoRom],
             freed |-> {}, next |-> 1]

Unserved == ipc.at = "idle"
Running(c, at) == ipc.cmd = c /\ ipc.at = at
Reply == ipc' = [ipc EXCEPT !.cmd = "none", !.at = "idle", !.slot = NoRom]
GoTo(at) == ipc' = [ipc EXCEPT !.at = at]

-----------------------------------------------------------------------------
(* start: the first free port of the range is bound; stop joins the thread.      *)
server_start ==
  /\ ~conn.running /\ conn.at = "none"
  /\ conn' = [conn EXCEPT !.running = TRUE, !.at = "listening"]
  /\ UNCHANGED <<ipc, emu, events, paint, shot, roms>>

server_stop ==
  /\ conn.running
  /\ conn' = [conn EXCEPT !.running = FALSE]
  /\ UNCHANGED <<ipc, emu, events, paint, shot, roms>>

Connect ==
  /\ conn.waiting < 2   \* bound: clients in the backlog
  /\ conn.at # "none"
  /\ conn' = [conn EXCEPT !.waiting = @ + 1]
  /\ UNCHANGED <<ipc, emu, events, paint, shot, roms>>

(* The client sends a line of commands, ended or not.                           *)
Send ==
  /\ conn.at = "client" /\ Len(conn.lines) < MaxLines /\ ~conn.tail
  /\ \E c \in IpcCommands \cup {"disconnect"}, ended \in BOOLEAN :
       conn' = [conn EXCEPT !.lines = Append(@, c), !.tail = ~ended]
  /\ UNCHANGED <<ipc, emu, events, paint, shot, roms>>

accept ==
  /\ conn.at = "listening" /\ Unserved
  /\ IF ~conn.running THEN conn' = [conn EXCEPT !.at = "none", !.waiting = 0]
     ELSE /\ conn.waiting > 0
          /\ conn' = [conn EXCEPT !.at = "client", !.waiting = @ - 1]
  /\ UNCHANGED <<ipc, emu, events, paint, shot, roms>>

Whole == IF conn.tail THEN Len(conn.lines) - 1 ELSE Len(conn.lines)

(* A whole line is run; "disconnect" drops the lines after it.                  *)
run_line ==
  /\ conn.at = "client" /\ Unserved /\ Whole > 0
  /\ IF Head(conn.lines) = "disconnect"
       THEN /\ conn' = [conn EXCEPT !.at = "listening", !.lines = <<>>, !.tail = FALSE]
            /\ UNCHANGED ipc
       ELSE /\ conn' = [conn EXCEPT !.lines = Tail(@)]
            /\ ipc' = [ipc EXCEPT !.cmd = Head(conn.lines), !.at = "start"]
  /\ UNCHANGED <<emu, events, paint, shot, roms>>

(* Mutant: a client that says nothing keeps the connection.                     *)
client_gone_waits ==
  /\ conn.at = "client" /\ Unserved /\ Whole = 0 /\ (~conn.running \/ conn.tail)
  /\ conn' = [conn EXCEPT !.at = "closing"]
  /\ UNCHANGED <<ipc, emu, events, paint, shot, roms>>

(* The client hangs up, says nothing for 60 s, or the server stops: what is left
   of an unended line is run as a command, then the socket is closed.            *)
client_gone ==
  /\ conn.at = "client" /\ Unserved /\ Whole = 0
  /\ conn' = [conn EXCEPT !.at = "closing"]
  /\ UNCHANGED <<ipc, emu, events, paint, shot, roms>>

close_client ==
  /\ conn.at = "closing" /\ Unserved
  /\ IF conn.tail /\ conn.lines[1] # "disconnect"
       THEN /\ ipc' = [ipc EXCEPT !.cmd = conn.lines[1], !.at = "start"]
            /\ conn' = [conn EXCEPT !.lines = <<>>, !.tail = FALSE]
       ELSE /\ conn' = [conn EXCEPT !.at = "listening", !.lines = <<>>, !.tail = FALSE]
            /\ UNCHANGED ipc
  /\ UNCHANGED <<emu, events, paint, shot, roms>>

-----------------------------------------------------------------------------
cmd_pause ==
  /\ Running("pause", "start") /\ Reply
  /\ emu' = [emu EXCEPT !.paused = TRUE]
  /\ UNCHANGED <<conn, events, paint, shot, roms>>

cmd_run ==
  /\ Running("run", "start") /\ Reply
  /\ emu' = [emu EXCEPT !.paused = FALSE]
  /\ UNCHANGED <<conn, events, paint, shot, roms>>

Quiescent == emu.paused /\ ~emu.frame

(* "reset", "load x.sna", "snapshot save|load": pause, wait for the Z80 thread to
   stop, work, and resume: a reset always, the others if it was running.          *)
cmd_bracket ==
  /\ ipc.cmd \in {"reset", "load_sna"} /\ ipc.at = "start"
  /\ ipc' = [ipc EXCEPT !.at = "quiet", !.was = emu.paused]
  /\ emu' = [emu EXCEPT !.paused = TRUE]
  /\ UNCHANGED <<conn, events, paint, shot, roms>>

cmd_bracket_done ==
  /\ ipc.cmd \in {"reset", "load_sna"} /\ ipc.at = "quiet"
  /\ ipc.was \/ Quiescent
  /\ Reply
  /\ emu' = [emu EXCEPT !.paused = ipc.was /\ ipc.cmd # "reset"]
  /\ UNCHANGED <<conn, events, paint, shot, roms>>

(* "repaint": the request is posted under the mutex, the answer polled for five
   seconds.                                                                      *)
cmd_repaint ==
  /\ Running("repaint", "start") /\ GoTo("poll")
  /\ paint' = [paint EXCEPT !.pending = TRUE, !.done = FALSE]
  /\ UNCHANGED <<conn, emu, events, shot, roms>>

cmd_repaint_poll ==
  /\ Running("repaint", "poll")
  /\ Reply      \* done, or the deadline has passed
  /\ UNCHANGED <<conn, emu, events, paint, shot, roms>>

(* The main loop serves it: draws, then says done, then takes the request down.  *)
serve_repaint ==
  /\ \/ paint.at = "idle" /\ paint.pending /\ paint' = [paint EXCEPT !.at = "draw"]
     \/ paint.at = "draw" /\ paint' = [paint EXCEPT !.at = "drawn", !.done = TRUE]
     \/ paint.at = "drawn" /\ paint' = [paint EXCEPT !.at = "idle", !.pending = FALSE]
  /\ UNCHANGED <<conn, ipc, emu, events, shot, roms>>

(* "screenshot window": asks for a pause without waiting for it, then looks for
   the file, which an earlier screenshot may have left there.                    *)
cmd_screenshot_window ==
  /\ Running("screenshot", "start")
  /\ ipc' = [ipc EXCEPT !.at = "poll", !.was = emu.paused]
  /\ emu' = [emu EXCEPT !.paused = TRUE]
  /\ shot' = [shot EXCEPT !.asked = TRUE]
  /\ UNCHANGED <<conn, events, paint, roms>>

(* The file is there, or five seconds are over.                                 *)
cmd_screenshot_poll ==
  /\ Running("screenshot", "poll") /\ Reply
  /\ emu' = [emu EXCEPT !.paused = ipc.was]
  /\ UNCHANGED <<conn, events, paint, shot, roms>>

take_window_screenshot ==
  /\ shot.asked
  /\ shot' = [asked |-> FALSE, there |-> TRUE]
  /\ UNCHANGED <<conn, ipc, emu, events, paint, roms>>

(* "wait pc|mem|vbl": resume, look every millisecond, pause at the end; the PC is
   the one the last frame boundary left.                                         *)
cmd_wait ==
  /\ Running("wait", "start") /\ GoTo("poll")
  /\ emu' = [emu EXCEPT !.paused = FALSE]
  /\ UNCHANGED <<conn, events, paint, shot, roms>>

(* The condition is met, or the deadline has passed.                            *)
cmd_wait_poll ==
  /\ Running("wait", "poll") /\ Reply
  /\ emu' = [emu EXCEPT !.paused = TRUE]
  /\ UNCHANGED <<conn, events, paint, shot, roms>>

(* Commands that only answer: status, regs, hash, mem read and the like.        *)
cmd_query ==
  /\ Running("query", "start") /\ Reply
  /\ UNCHANGED <<conn, emu, events, paint, shot, roms>>

-----------------------------------------------------------------------------
(* Mutant: the flags are only ever raised.                                      *)
update_event_flags_raise(list) ==
  [list |-> list, vbl |-> \E e \in list : e.left = e.n /\ e.trigger = "vbl",
   pc |-> \E e \in list : e.trigger = "pc"]

update_event_flags(list) ==
  [list |-> list, vbl |-> \E e \in list : e.trigger = "vbl",
   pc |-> \E e \in list : e.trigger = "pc"]

FreeId == CHOOSE i \in 1..MaxEvents : \A e \in events.list : e.id # i

(* "event on|once": a vbl event counts frames; its history is the frames since it
   was armed.  A pc or mem event waits for a hook that nothing calls.            *)
add_event ==
  /\ Running("event", "start") /\ Reply
  /\ IF Cardinality(events.list) < MaxEvents
       THEN \E t \in {"vbl", "pc"}, n \in Intervals, once \in BOOLEAN :
              events' = update_event_flags(events.list \cup
                {[id |-> FreeId, trigger |-> t, n |-> n, left |-> n, once |-> once, age |-> 0]})
       ELSE UNCHANGED events
  /\ UNCHANGED <<conn, emu, paint, shot, roms>>

remove_event ==
  /\ Running("event_off", "start") /\ Reply
  /\ \/ \E e \in events.list : events' = update_event_flags(events.list \ {e})
     \/ UNCHANGED events   \* 404
  /\ UNCHANGED <<conn, emu, paint, shot, roms>>

(* The end of a frame: every vbl event counts down, fires at nought and is armed
   again or, one-shot, erased.                                                   *)
check_vbl_events ==
  LET aged == {[e EXCEPT !.age = IF e.trigger = "vbl" THEN @ + 1 ELSE 0,
                         !.left = IF events.vbl /\ e.trigger = "vbl" THEN @ - 1 ELSE @] :
               e \in events.list}
      fired == {e \in aged : events.vbl /\ e.trigger = "vbl" /\ e.left <= 0}
      again == {[e EXCEPT !.left = e.n, !.age = 0] : e \in {x \in fired : ~x.once}}
      rest == (aged \ fired) \cup again
  IN events' = IF \E e \in fired : e.once THEN update_event_flags(rest)
                                          ELSE [events EXCEPT !.list = rest]

FrameBegin ==
  /\ ~emu.frame /\ ~emu.paused
  /\ emu' = [emu EXCEPT !.frame = TRUE]
  /\ UNCHANGED <<conn, ipc, events, paint, shot, roms>>

FrameFinish ==
  /\ emu.frame
  /\ \E pc \in {0, 1} : emu' = [emu EXCEPT !.frame = FALSE, !.pc = pc]
  /\ check_vbl_events
  /\ UNCHANGED <<conn, ipc, paint, shot, roms>>

-----------------------------------------------------------------------------
(* "rom load": the old image is freed and replaced in the table, then the board is
   given the new one.                                                            *)
cmd_rom_load ==
  /\ Running("rom_load", "start")
  /\ IF roms.next > MaxImages THEN Reply /\ UNCHANGED roms
     ELSE \E s \in RomBoardSlots :
            /\ ipc' = [ipc EXCEPT !.at = "attach", !.slot = s]
            /\ roms' = [roms EXCEPT !.freed = @ \cup ({roms.table[s]} \ {NoRom}),
                                    !.table[s] = roms.next, !.next = @ + 1]
  /\ UNCHANGED <<conn, emu, events, paint, shot>>

cmd_rom_load_attach ==
  /\ Running("rom_load", "attach") /\ Reply
  /\ roms' = [roms EXCEPT !.board[ipc.slot] = roms.table[ipc.slot]]
  /\ UNCHANGED <<conn, emu, events, paint, shot>>

(* Mutant: unload frees the image before the board lets go of it.               *)
cmd_rom_unload_frees ==
  /\ Running("rom_unload", "start")
  /\ \E s \in RomBoardSlots :
       /\ ipc' = [ipc EXCEPT !.at = "free", !.slot = s]
       /\ roms' = [roms EXCEPT !.freed = @ \cup ({roms.table[s]} \ {NoRom})]
  /\ UNCHANGED <<conn, emu, events, paint, shot>>

(* "rom unload": the board first, then the image.                               *)
cmd_rom_unload ==
  /\ Running("rom_unload", "start")
  /\ \E s \in RomBoardSlots :
       /\ ipc' = [ipc EXCEPT !.at = "free", !.slot = s]
       /\ roms' = [roms EXCEPT !.board[s] = NoRom]
  /\ UNCHANGED <<conn, emu, events, paint, shot>>

cmd_rom_unload_free ==
  /\ Running("rom_unload", "free") /\ Reply
  /\ roms' = [roms EXCEPT !.freed = @ \cup ({roms.table[ipc.slot]} \ {NoRom}),
                          !.table[ipc.slot] = NoRom, !.board[ipc.slot] = NoRom]
  /\ UNCHANGED <<conn, emu, events, paint, shot>>

-----------------------------------------------------------------------------
Command ==
  \/ cmd_pause \/ cmd_run \/ cmd_bracket \/ cmd_bracket_done
  \/ cmd_repaint \/ cmd_repaint_poll \/ cmd_screenshot_window \/ cmd_screenshot_poll
  \/ cmd_wait \/ cmd_wait_poll \/ cmd_query \/ add_event \/ remove_event
  \/ cmd_rom_load \/ cmd_rom_load_attach \/ cmd_rom_unload \/ cmd_rom_unload_free

Serve == accept \/ run_line \/ client_gone \/ close_client \/ Command
Frame == FrameBegin \/ FrameFinish

IpcNext ==
  server_start \/ server_stop \/ Connect \/ Send \/ Serve \/ Frame
  \/ serve_repaint \/ take_window_screenshot

(* A timer event is never late: however commands, removals and other events are
   mixed, no event has waited as many frames as its interval (one frame, if that is not
   positive), and the flag that lets the frame skip the list is up while there is one. *)
EventsOnTime ==
  \A e \in events.list : e.trigger = "vbl" =>
    events.vbl /\ (e.age = 0 \/ e.age < e.n) /\ e.left = e.n - e.age

(* Outside "rom load", which frees the image the board still reads, the board points at
   nothing freed, and between commands it points at what the table says.               *)
RomBoardIsTable ==
  /\ ipc.cmd # "rom_load" => \A s \in RomBoardSlots : roms.board[s] \notin roms.freed
  /\ Unserved => roms.board = roms.table

(* A client in the backlog is owed its turn although only one is served at a time and
   that one says nothing more: every command ends, and the server puts out whoever is
   silent.                                                                              *)
TurnOwed == conn.waiting = 2 /\ conn.running /\ conn.lines = <<>>

===========================================================================
