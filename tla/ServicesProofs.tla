--------------------------- MODULE ServicesProofs ---------------------------
(***************************************************************************)
(* What holds of the IPC server, the keyboard, the M4 board and the serial *)
(* pair for every client, key, text, guest program and buffer size, on the *)
(* bench of MCServices and so in every composition that gives each part    *)
(* its own steps.                                                          *)
(***************************************************************************)
EXTENDS MCServices, TLAPS, FiniteSetTheorems, WellFoundedInduction, NaturalsInduction

-----------------------------------------------------------------------------
(* The IPC server's events.                                                *)

(* An event is armed for so many frames and counts those it has waited; the *)
(* flag that lets a frame skip the list is up for a timer.                  *)
EventShape(e) ==
  e = [id |-> e.id, trigger |-> e.trigger, n |-> e.n, left |-> e.left, once |-> e.once, age |-> e.age]
Timed(e) == (e.age = 0 \/ e.age < e.n) /\ e.left = e.n - e.age
EventFits(e) ==
  EventShape(e) /\ e.n \in Int /\ e.age \in Nat /\ (e.trigger = "vbl" => Timed(e))
EventsInv ==
  /\ events = [list |-> events.list, vbl |-> events.vbl, pc |-> events.pc]
  /\ \A e \in events.list : EventFits(e) /\ (e.trigger = "vbl" => events.vbl)

(* Recomputing the flags raises the timers' one while there is a timer.    *)
LEMMA FlagsFit ==
  ASSUME NEW L, \A e \in L : EventFits(e), events' = update_event_flags(L)
  PROVE  EventsInv'
<1>1. events'.list = L /\ events' = [list |-> events'.list, vbl |-> events'.vbl, pc |-> events'.pc]
  BY DEF update_event_flags
<1>2. \A e \in L : e.trigger = "vbl" => events'.vbl
  BY DEF update_event_flags
<1> QED BY <1>1, <1>2 DEF EventsInv, EventFits, EventShape, Timed

(* A frame more: the arithmetic of an age.                                 *)
LEMMA FrameLater ==
  ASSUME NEW n \in Int, NEW a \in Nat
  PROVE  a + 1 \in Nat /\ a + 1 >= 1 /\ (n - a) - 1 = n - (a + 1)
OBVIOUS

(* A frame ages every timer, and those whose time is up are armed again.   *)
LEMMA FrameCounts == EventsInv /\ check_vbl_events => EventsInv'
<1> SUFFICES ASSUME EventsInv, check_vbl_events PROVE EventsInv'
  OBVIOUS
<1> DEFINE Old(e) == [e EXCEPT !.age = IF e.trigger = "vbl" THEN @ + 1 ELSE 0,
                               !.left = IF events.vbl /\ e.trigger = "vbl" THEN @ - 1 ELSE @]
           aged == {Old(e) : e \in events.list}
           fired == {e \in aged : events.vbl /\ e.trigger = "vbl" /\ e.left <= 0}
           again == {[e EXCEPT !.left = e.n, !.age = 0] : e \in {x \in fired : ~x.once}}
           rest == (aged \ fired) \cup again
<1>1. \A e \in aged : /\ EventShape(e) /\ e.n \in Int /\ e.age \in Nat
                      /\ e.trigger = "vbl" => events.vbl /\ e.age >= 1 /\ e.left = e.n - e.age
  <2> TAKE f \in aged
  <2>1. PICK e \in events.list : f = Old(e)
    OBVIOUS
  <2>2. EventFits(e) /\ (e.trigger = "vbl" => events.vbl)
    BY DEF EventsInv
  <2>3. CASE e.trigger = "vbl"
    <3>1. f = [id |-> e.id, trigger |-> e.trigger, n |-> e.n, left |-> e.left - 1,
               once |-> e.once, age |-> e.age + 1]
      BY <2>1, <2>2, <2>3 DEF EventFits, EventShape
    <3>2. /\ f.trigger = e.trigger /\ f.n = e.n /\ f.age = e.age + 1 /\ f.left = e.left - 1
          /\ EventShape(f)
      BY <3>1 DEF EventShape
    <3>3. e.n \in Int /\ e.age \in Nat /\ e.left = e.n - e.age /\ events.vbl
      BY <2>2, <2>3 DEF EventFits, Timed
    <3>5. f.n \in Int /\ f.age \in Nat /\ f.age >= 1 /\ f.left = f.n - f.age
      <4> HIDE DEF aged
      <4> QED BY <3>2, <3>3, FrameLater
    <3> QED BY <3>2, <3>3, <3>5
  <2>4. CASE e.trigger # "vbl"
    <3>1. f = [id |-> e.id, trigger |-> e.trigger, n |-> e.n, left |-> e.left,
               once |-> e.once, age |-> 0]
      BY <2>1, <2>2, <2>4 DEF EventFits, EventShape
    <3> QED BY <2>2, <2>4, <3>1 DEF EventFits, EventShape
  <2> QED BY <2>3, <2>4
<1>2. \A e \in aged \ fired : EventFits(e) /\ (e.trigger = "vbl" => events.vbl)
  <2> TAKE e \in aged \ fired
  <2>1. e \in aged /\ ~(events.vbl /\ e.trigger = "vbl" /\ e.left <= 0)
    OBVIOUS
  <2> HIDE DEF aged, fired
  <2> QED BY <1>1, <2>1 DEF EventFits, Timed
<1>3. \A e \in again : EventFits(e) /\ (e.trigger = "vbl" => events.vbl)
  <2> TAKE f \in again
  <2>1. PICK e \in fired : f = [e EXCEPT !.left = e.n, !.age = 0]
    OBVIOUS
  <2>2. EventShape(e) /\ e.n \in Int /\ events.vbl
    BY <1>1, <2>1
  <2>3. f = [id |-> e.id, trigger |-> e.trigger, n |-> e.n, left |-> e.n, once |-> e.once, age |-> 0]
    BY <2>1, <2>2 DEF EventShape
  <2> HIDE DEF aged, fired, again
  <2> QED BY <2>2, <2>3 DEF EventFits, EventShape, Timed
<1>4. \A e \in rest : EventFits(e) /\ (e.trigger = "vbl" => events.vbl)
  <2> HIDE DEF aged, fired, again
  <2> QED BY <1>2, <1>3
<1>5. events' = IF \E e \in fired : e.once THEN update_event_flags(rest)
                                           ELSE [events EXCEPT !.list = rest]
  BY DEF check_vbl_events
<1> HIDE DEF rest, fired
<1>6. CASE events' = update_event_flags(rest)
  BY <1>4, <1>6, FlagsFit
<1>7. CASE events' = [events EXCEPT !.list = rest]
  <2>1. events' = [list |-> rest, vbl |-> events.vbl, pc |-> events.pc]
    BY <1>7 DEF EventsInv
  <2>2. events'.list = rest /\ events'.vbl = events.vbl
        /\ events' = [list |-> events'.list, vbl |-> events'.vbl, pc |-> events'.pc]
    BY <2>1
  <2>3. \A e \in events'.list : EventFits(e) /\ (e.trigger = "vbl" => events'.vbl)
    BY <1>4, <2>2
  <2> QED BY <2>2, <2>3 DEF EventsInv, EventFits, EventShape, Timed
<1> QED BY <1>5, <1>6, <1>7

-----------------------------------------------------------------------------
(* The IPC server's ROM board.                                             *)

(* Images are numbered as they are loaded; no image that was freed is in    *)
(* the table, and none is there twice.                                      *)
Slotted(f) == f \in [RomBoardSlots -> 0..(roms.next - 1)]
TableFits ==
  /\ roms = [table |-> roms.table, board |-> roms.board, freed |-> roms.freed, next |-> roms.next]
  /\ roms.next \in Nat \ {0} /\ Slotted(roms.table) /\ Slotted(roms.board)
  /\ roms.freed \subseteq 1..(roms.next - 1)
  /\ \A s \in RomBoardSlots : roms.table[s] \notin roms.freed
  /\ \A s, t \in RomBoardSlots : roms.table[s] = roms.table[t] /\ s # t => roms.table[s] = NoRom

(* Only the slot a command is at work on may differ on the board.           *)
AtWork(c) ==
  /\ ipc.cmd = c /\ ipc.slot \in RomBoardSlots
  /\ \A s \in RomBoardSlots \ {ipc.slot} : roms.board[s] = roms.table[s]
BoardFits ==
  CASE ipc.at = "attach" -> AtWork("rom_load")
    [] ipc.at = "free" -> AtWork("rom_unload") /\ roms.board[ipc.slot] = NoRom
    [] OTHER -> roms.board = roms.table

ServerTyped ==
  /\ ipc = [cmd |-> ipc.cmd, at |-> ipc.at, was |-> ipc.was, slot |-> ipc.slot]
  /\ ipc.at \in {"idle", "start", "quiet", "poll", "attach", "free"}

ClientInv == EventsInv /\ ServerTyped /\ TableFits /\ BoardFits

(* What is kept gives what the runs check.                                 *)
LEMMA ClientGives == ClientInv => ClientRight
<1> SUFFICES ASSUME ClientInv PROVE ClientRight
  OBVIOUS
<1>1. EventsOnTime
  BY DEF ClientInv, EventsInv, EventFits, Timed, EventsOnTime
<1>2. \A s \in RomBoardSlots : roms.table[s] \notin roms.freed
  BY DEF ClientInv, TableFits
<1>3. NoRom \notin roms.freed
  BY DEF ClientInv, TableFits, NoRom
<1>4. RomBoardIsTable
  <2>1. CASE ipc.at = "attach"
    BY <2>1 DEF ClientInv, BoardFits, AtWork, RomBoardIsTable, Unserved
  <2>2. CASE ipc.at = "free"
    BY <2>2, <1>2, <1>3 DEF ClientInv, BoardFits, AtWork, RomBoardIsTable, Unserved
  <2>3. CASE ipc.at \notin {"attach", "free"}
    BY <2>3, <1>2 DEF ClientInv, BoardFits, RomBoardIsTable
  <2> QED BY <2>1, <2>2, <2>3
<1> QED BY <1>1, <1>4 DEF ClientRight

(* The server starts with no event and an empty ROM board.                 *)
LEMMA ClientStarts == IpcInit => ClientInv
<1> SUFFICES ASSUME IpcInit PROVE ClientInv
  OBVIOUS
<1>1. EventsInv
  BY DEF IpcInit, EventsInv
<1>2. ServerTyped
  BY DEF IpcInit, ServerTyped
<1>3. /\ roms.table = [s \in RomBoardSlots |-> 0] /\ roms.board = [s \in RomBoardSlots |-> 0]
      /\ roms.freed = {} /\ roms.next = 1
      /\ roms = [table |-> roms.table, board |-> roms.board, freed |-> roms.freed, next |-> roms.next]
  BY DEF IpcInit, NoRom
<1>4. TableFits
  BY <1>3 DEF TableFits, Slotted, NoRom
<1>5. BoardFits
  BY <1>3 DEF IpcInit, BoardFits
<1> QED BY <1>1, <1>2, <1>4, <1>5 DEF ClientInv

(* The commands on the ROM board.                                           *)
RomCommand == cmd_rom_load \/ cmd_rom_load_attach \/ cmd_rom_unload \/ cmd_rom_unload_free

(* Loading and unloading keep table and board in step (cmd_rom_load,       *)
(* cmd_rom_unload).                                                        *)
LEMMA RomCommandFits ==
  ASSUME ClientInv, RomCommand
  PROVE  ServerTyped' /\ TableFits' /\ BoardFits'
<1>1. ServerTyped /\ TableFits /\ BoardFits
  BY DEF ClientInv
<1>2. CASE cmd_rom_load
  <2>1. CASE roms.next > MaxImages
    <3>1. ipc' = [ipc EXCEPT !.cmd = "none", !.at = "idle", !.slot = NoRom] /\ roms' = roms
      BY <1>2, <2>1 DEF cmd_rom_load, Reply
    <3>2. ServerTyped' /\ ipc'.at = "idle"
      BY <1>1, <3>1 DEF ServerTyped
    <3>3. roms.board = roms.table
      BY <1>1, <1>2 DEF BoardFits, cmd_rom_load, Running
    <3> QED BY <1>1, <3>1, <3>2, <3>3 DEF TableFits, Slotted, BoardFits
  <2>2. CASE ~(roms.next > MaxImages)
    <3>1. PICK s \in RomBoardSlots :
            /\ ipc' = [ipc EXCEPT !.at = "attach", !.slot = s]
            /\ roms' = [roms EXCEPT !.freed = @ \cup ({roms.table[s]} \ {NoRom}),
                                    !.table[s] = roms.next, !.next = @ + 1]
      BY <1>2, <2>2 DEF cmd_rom_load
    <3>2. ipc.cmd = "rom_load" /\ ipc.at = "start" /\ roms.board = roms.table
      BY <1>1, <1>2 DEF cmd_rom_load, Running, BoardFits
    <3>3. ServerTyped' /\ ipc'.at = "attach" /\ ipc'.cmd = "rom_load" /\ ipc'.slot = s
      BY <1>1, <3>1, <3>2 DEF ServerTyped
    <3>4. /\ roms'.freed = roms.freed \cup ({roms.table[s]} \ {NoRom})
          /\ roms'.table = [roms.table EXCEPT ![s] = roms.next]
          /\ roms'.board = roms.board /\ roms'.next = roms.next + 1
          /\ roms' = [table |-> roms'.table, board |-> roms'.board,
                      freed |-> roms'.freed, next |-> roms'.next]
      BY <1>1, <3>1 DEF TableFits
    <3>5. roms.next \in Nat \ {0} /\ \A t \in RomBoardSlots : roms.table[t] \in 0..(roms.next - 1)
      BY <1>1 DEF TableFits, Slotted
    <3>6. Slotted(roms.table)' /\ Slotted(roms.board)' /\ roms'.next \in Nat \ {0}
      BY <1>1, <3>2, <3>4, <3>5 DEF TableFits, Slotted
    <3>7. roms'.freed \subseteq 1..(roms'.next - 1)
      <4>1. roms.freed \subseteq 1..(roms.next - 1)
        BY <1>1 DEF TableFits
      <4> QED BY <3>4, <3>5, <4>1 DEF NoRom
    <3>8. \A t \in RomBoardSlots : roms'.table[t] = IF t = s THEN roms.next ELSE roms.table[t]
      BY <1>1, <3>4 DEF TableFits, Slotted
    <3>9. roms.freed \subseteq 1..(roms.next - 1)
          /\ \A t \in RomBoardSlots : roms.table[t] \notin roms.freed
      BY <1>1 DEF TableFits
    <3>10. \A t, u \in RomBoardSlots : roms.table[t] = roms.table[u] /\ t # u => roms.table[t] = NoRom
      BY <1>1 DEF TableFits
    <3>11. \A t \in RomBoardSlots : roms'.table[t] \notin roms'.freed
      BY <3>4, <3>5, <3>8, <3>9, <3>10 DEF NoRom
    <3>12. \A t, u \in RomBoardSlots : roms'.table[t] = roms'.table[u] /\ t # u => roms'.table[t] = NoRom
      BY <3>5, <3>8, <3>10
    <3>13. BoardFits'
      BY <3>2, <3>3, <3>4, <3>8 DEF BoardFits, AtWork
    <3> QED BY <3>3, <3>4, <3>6, <3>7, <3>11, <3>12, <3>13 DEF TableFits
  <2> QED BY <2>1, <2>2
<1>3. CASE cmd_rom_load_attach
  <2>1. /\ ipc.at = "attach" /\ ipc' = [ipc EXCEPT !.cmd = "none", !.at = "idle", !.slot = NoRom]
        /\ roms' = [roms EXCEPT !.board[ipc.slot] = roms.table[ipc.slot]]
    BY <1>3 DEF cmd_rom_load_attach, Running, Reply
  <2>2. ServerTyped' /\ ipc'.at = "idle"
    BY <1>1, <2>1 DEF ServerTyped
  <2>3. ipc.slot \in RomBoardSlots /\ \A s \in RomBoardSlots \ {ipc.slot} : roms.board[s] = roms.table[s]
    BY <1>1, <2>1 DEF BoardFits, AtWork
  <2>4. roms'.board = [roms.board EXCEPT ![ipc.slot] = roms.table[ipc.slot]]
        /\ roms'.table = roms.table /\ roms'.freed = roms.freed /\ roms'.next = roms.next
        /\ roms' = [table |-> roms'.table, board |-> roms'.board,
                    freed |-> roms'.freed, next |-> roms'.next]
    BY <1>1, <2>1 DEF TableFits
  <2>5. roms'.board = roms'.table
    BY <1>1, <2>3, <2>4 DEF TableFits, Slotted
  <2>6. TableFits'
    <3>1. Slotted(roms.board)' /\ Slotted(roms.table)'
      BY <1>1, <2>4, <2>5 DEF TableFits, Slotted
    <3> QED BY <1>1, <2>4, <3>1 DEF TableFits
  <2> QED BY <2>2, <2>5, <2>6 DEF BoardFits
<1>4. CASE cmd_rom_unload
  <2>1. PICK s \in RomBoardSlots : /\ ipc' = [ipc EXCEPT !.at = "free", !.slot = s]
                                   /\ roms' = [roms EXCEPT !.board[s] = NoRom]
    BY <1>4 DEF cmd_rom_unload
  <2>2. ipc.cmd = "rom_unload" /\ ipc.at = "start" /\ roms.board = roms.table
    BY <1>1, <1>4 DEF cmd_rom_unload, Running, BoardFits
  <2>3. ServerTyped' /\ ipc'.at = "free" /\ ipc'.cmd = "rom_unload" /\ ipc'.slot = s
    BY <1>1, <2>1, <2>2 DEF ServerTyped
  <2>4. roms'.board = [roms.board EXCEPT ![s] = NoRom]
        /\ roms'.table = roms.table /\ roms'.freed = roms.freed /\ roms'.next = roms.next
        /\ roms' = [table |-> roms'.table, board |-> roms'.board,
                    freed |-> roms'.freed, next |-> roms'.next]
    BY <1>1, <2>1 DEF TableFits
  <2>5. Slotted(roms.board)'
    BY <1>1, <2>4 DEF TableFits, Slotted, NoRom
  <2>6. \A t \in RomBoardSlots : roms'.board[t] = IF t = s THEN NoRom ELSE roms.board[t]
    BY <1>1, <2>4 DEF TableFits, Slotted
  <2>7. BoardFits'
    BY <2>2, <2>3, <2>4, <2>6 DEF BoardFits, AtWork
  <2> QED BY <1>1, <2>3, <2>4, <2>5, <2>7 DEF TableFits, Slotted
<1>5. CASE cmd_rom_unload_free
  <2>1. /\ ipc.at = "free" /\ ipc' = [ipc EXCEPT !.cmd = "none", !.at = "idle", !.slot = NoRom]
        /\ roms' = [roms EXCEPT !.freed = @ \cup ({roms.table[ipc.slot]} \ {NoRom}),
                                !.table[ipc.slot] = NoRom, !.board[ipc.slot] = NoRom]
    BY <1>5 DEF cmd_rom_unload_free, Running, Reply
  <2>2. ServerTyped' /\ ipc'.at = "idle"
    BY <1>1, <2>1 DEF ServerTyped
  <2> DEFINE s == ipc.slot
  <2>3. s \in RomBoardSlots /\ \A t \in RomBoardSlots \ {s} : roms.board[t] = roms.table[t]
    BY <1>1, <2>1 DEF BoardFits, AtWork
  <2> HIDE DEF s
  <2>4. /\ roms'.freed = roms.freed \cup ({roms.table[s]} \ {NoRom})
        /\ roms'.table = [roms.table EXCEPT ![s] = NoRom]
        /\ roms'.board = [roms.board EXCEPT ![s] = NoRom] /\ roms'.next = roms.next
        /\ roms' = [table |-> roms'.table, board |-> roms'.board,
                    freed |-> roms'.freed, next |-> roms'.next]
    BY <1>1, <2>1 DEF TableFits, s
  <2>5. roms.next \in Nat \ {0} /\ \A t \in RomBoardSlots : roms.table[t] \in 0..(roms.next - 1)
    BY <1>1 DEF TableFits, Slotted
  <2>6. Slotted(roms.table)' /\ Slotted(roms.board)' /\ roms'.next \in Nat \ {0}
    <3>1. Slotted(roms.table) /\ Slotted(roms.board) /\ 0 \in 0..(roms.next - 1)
      BY <1>1, <2>5 DEF TableFits
    <3>2. Slotted([roms.table EXCEPT ![s] = 0]) /\ Slotted([roms.board EXCEPT ![s] = 0])
      BY <3>1 DEF Slotted
    <3> QED BY <2>4, <2>5, <3>2 DEF Slotted, NoRom
  <2>7. \A t \in RomBoardSlots : roms'.table[t] = IF t = s THEN NoRom ELSE roms.table[t]
    BY <1>1, <2>4 DEF TableFits, Slotted
  <2>8. roms.freed \subseteq 1..(roms.next - 1)
        /\ \A t \in RomBoardSlots : roms.table[t] \notin roms.freed
    BY <1>1 DEF TableFits
  <2>9. \A t, u \in RomBoardSlots : roms.table[t] = roms.table[u] /\ t # u => roms.table[t] = NoRom
    BY <1>1 DEF TableFits
  <2>10. roms'.freed \subseteq 1..(roms'.next - 1)
    BY <2>3, <2>4, <2>5, <2>8 DEF NoRom
  <2>11. \A t \in RomBoardSlots : roms'.table[t] \notin roms'.freed
    BY <2>3, <2>4, <2>5, <2>7, <2>8, <2>9 DEF NoRom
  <2>12. \A t, u \in RomBoardSlots : roms'.table[t] = roms'.table[u] /\ t # u => roms'.table[t] = NoRom
    BY <2>7, <2>9
  <2>13. roms'.board = roms'.table
    BY <1>1, <2>3, <2>4 DEF TableFits, Slotted
  <2> QED BY <2>2, <2>4, <2>6, <2>10, <2>11, <2>12, <2>13 DEF TableFits, BoardFits
<1> QED BY <1>2, <1>3, <1>4, <1>5 DEF RomCommand

(* Every other command leaves the ROM board alone.                          *)
Elsewhere == {"idle", "start", "quiet", "poll"}

(* With the ROM board left alone, what is kept of it stays.                *)
LEMMA BoardWaits ==
  ASSUME ServerTyped, TableFits, BoardFits, roms' = roms, ServerTyped',
         ipc.at \in Elsewhere, ipc'.at \in Elsewhere
  PROVE  TableFits' /\ BoardFits'
<1>1. roms.board = roms.table
  BY DEF BoardFits, Elsewhere
<1> QED BY <1>1 DEF TableFits, Slotted, BoardFits, Elsewhere

(* With the list left alone, what is kept of the events stays.             *)
LEMMA EventsWait == EventsInv /\ events' = events => EventsInv'
BY DEF EventsInv, EventFits, EventShape, Timed

(* Every command that is not about ROMs goes from a place outside them to  *)
(* another.                                                                *)
LEMMA CommandMoves ==
  ASSUME ServerTyped, Command, ~RomCommand
  PROVE  ServerTyped' /\ ipc.at \in Elsewhere /\ ipc'.at \in Elsewhere /\ roms' = roms
<1> USE DEF Running, Reply, GoTo, ServerTyped, Elsewhere
<1>1. CASE cmd_pause \/ cmd_run \/ cmd_bracket \/ cmd_bracket_done
  BY <1>1 DEF cmd_pause, cmd_run, cmd_bracket, cmd_bracket_done
<1>2. CASE cmd_repaint \/ cmd_repaint_poll \/ cmd_screenshot_window \/ cmd_screenshot_poll
  BY <1>2 DEF cmd_repaint, cmd_repaint_poll, cmd_screenshot_window, cmd_screenshot_poll
<1>3. CASE cmd_wait \/ cmd_wait_poll \/ cmd_query \/ add_event \/ remove_event
  BY <1>3 DEF cmd_wait, cmd_wait_poll, cmd_query, add_event, remove_event
<1> QED BY <1>1, <1>2, <1>3 DEF Command, RomCommand

(* Commands add an event unaged, remove one, or leave the list alone       *)
(* (add_event, remove_event).                                              *)
LEMMA CommandOnEvents == EventsInv /\ Command => EventsInv'
<1> SUFFICES ASSUME EventsInv, Command PROVE EventsInv'
  OBVIOUS
<1>1. CASE add_event
  <2>1. CASE Cardinality(events.list) < MaxEvents
    <3>1. PICK t \in {"vbl", "pc"}, n \in Intervals, once \in BOOLEAN :
            events' = update_event_flags(events.list \cup
              {[id |-> FreeId, trigger |-> t, n |-> n, left |-> n, once |-> once, age |-> 0]})
      BY <1>1, <2>1 DEF add_event
    <3> DEFINE new == [id |-> FreeId, trigger |-> t, n |-> n, left |-> n, once |-> once, age |-> 0]
    <3>2. n \in Int
      BY IpcAssumption
    <3>3. EventFits(new)
      <4>1. new.n = n /\ new.age = 0 /\ new.left = n /\ EventShape(new)
        BY DEF EventShape
      <4> HIDE DEF new
      <4> QED BY <3>2, <4>1 DEF EventFits, Timed
    <3>4. \A e \in events.list : EventFits(e)
      BY DEF EventsInv
    <3> HIDE DEF new
    <3> DEFINE L == events.list \cup {new}
    <3>5. (\A e \in L : EventFits(e)) /\ events' = update_event_flags(L)
      BY <3>1, <3>3, <3>4 DEF new
    <3> HIDE DEF L
    <3> QED BY <3>5, FlagsFit
  <2>2. CASE ~(Cardinality(events.list) < MaxEvents)
    BY <1>1, <2>2, EventsWait DEF add_event
  <2> QED BY <2>1, <2>2
<1>2. CASE remove_event
  <2>1. CASE UNCHANGED events
    BY <2>1, EventsWait
  <2>2. CASE \E e \in events.list : events' = update_event_flags(events.list \ {e})
    <3>1. PICK e \in events.list : events' = update_event_flags(events.list \ {e})
      BY <2>2
    <3> DEFINE L == events.list \ {e}
    <3>2. (\A x \in L : EventFits(x)) /\ events' = update_event_flags(L)
      BY <3>1 DEF EventsInv
    <3> HIDE DEF L
    <3> QED BY <3>2, FlagsFit
  <2> QED BY <1>2, <2>1, <2>2 DEF remove_event
<1>3. CASE ~(add_event \/ remove_event)
  <2>1. events' = events
    BY <1>3 DEF Command, cmd_pause, cmd_run, cmd_bracket, cmd_bracket_done, cmd_repaint,
      cmd_repaint_poll, cmd_screenshot_window, cmd_screenshot_poll, cmd_wait, cmd_wait_poll,
      cmd_query, cmd_rom_load, cmd_rom_load_attach, cmd_rom_unload, cmd_rom_unload_free
  <2> QED BY <2>1, EventsWait
<1> QED BY <1>1, <1>2, <1>3

(* Every step of the server, its client and the frame keeps the invariant. *)
LEMMA ClientStep == ClientInv /\ [IpcNext]_ipcVars => ClientInv'
<1> SUFFICES ASSUME ClientInv, [IpcNext]_ipcVars PROVE ClientInv'
  OBVIOUS
<1>1. EventsInv /\ ServerTyped /\ TableFits /\ BoardFits
  BY DEF ClientInv
<1>2. CASE Command
  <2>1. CASE RomCommand
    BY <1>1, <1>2, <2>1, RomCommandFits, CommandOnEvents DEF ClientInv
  <2>2. CASE ~RomCommand
    BY <1>1, <1>2, <2>2, CommandMoves, BoardWaits, CommandOnEvents DEF ClientInv
  <2> QED BY <2>1, <2>2
<1>3. CASE run_line \/ close_client
  <2>1. roms' = roms /\ events' = events /\ ipc.at \in Elsewhere /\ ipc'.at \in Elsewhere /\ ServerTyped'
    BY <1>1, <1>3 DEF run_line, close_client, Unserved, Elsewhere, ServerTyped
  <2> QED BY <1>1, <2>1, BoardWaits, EventsWait DEF ClientInv
<1>4. CASE /\ server_start \/ server_stop \/ Connect \/ Send \/ accept \/ client_gone \/ FrameBegin
              \/ serve_repaint \/ take_window_screenshot \/ UNCHANGED ipcVars
  <2>1. UNCHANGED <<ipc, events, roms>>
    BY <1>4 DEF server_start, server_stop, Connect, Send, accept, client_gone, FrameBegin,
      serve_repaint, take_window_screenshot, ipcVars
  <2> QED BY <1>1, <2>1, EventsWait
        DEF ClientInv, ServerTyped, TableFits, Slotted, BoardFits, AtWork
<1>5. CASE FrameFinish
  <2>1. UNCHANGED <<ipc, roms>> /\ check_vbl_events
    BY <1>5 DEF FrameFinish
  <2> QED BY <1>1, <2>1, FrameCounts
        DEF ClientInv, ServerTyped, TableFits, Slotted, BoardFits, AtWork
<1> QED BY <1>2, <1>3, <1>4, <1>5 DEF IpcNext, Serve, Frame

(* A step of the bench is a step of the server or leaves it alone.         *)
LEMMA ClientBench == [Next]_benchVars => [IpcNext]_ipcVars
BY DEF Next, benchVars, ipcVars

(* A timer event is never late, for any intervals and any number of events, *)
(* and the ROM board points at nothing freed outside the command that       *)
(* frees it, for any slots and images (check_vbl_events,                    *)
(* update_event_flags, cmd_rom_load, cmd_rom_unload).                       *)
THEOREM ClientStaysRight == Spec => []ClientRight
<1>1. Init => ClientInv
  BY ClientStarts DEF Init
<1>2. ClientInv /\ [Next]_benchVars => ClientInv'
  BY ClientBench, ClientStep
<1> QED BY <1>1, <1>2, ClientGives, PTL DEF Spec

-----------------------------------------------------------------------------
(* The keyboard's records, and the parts of a frame.                        *)

(* The records of the keyboard have their fields.                           *)
KeyShapes ==
  /\ kman = [mode |-> kman.mode, needs |-> kman.needs, pending |-> kman.pending]
  /\ kframe = [on |-> kframe.on, paused |-> kframe.paused, phys |-> kframe.phys,
               scanned |-> kframe.scanned, wait |-> kframe.wait]
  /\ aq = [q |-> aq.q, held |-> aq.held, gap |-> aq.gap, pause |-> aq.pause, blocked |-> aq.blocked]
  /\ sess = [state |-> sess.state, events |-> sess.events, file |-> sess.file, prev |-> sess.prev,
             base |-> sess.base, shown |-> sess.shown, at |-> sess.at, clean |-> sess.clean]
  /\ kseen = [unread |-> kseen.unread, down |-> kseen.down, text |-> kseen.text,
              wrong |-> kseen.wrong, blind |-> kseen.blind]
  /\ kseen.blind \in BOOLEAN /\ kseen.wrong \in BOOLEAN

NeedsAfter(rows) == kman.needs \ notify_scanned(rows)
Recorded(mm) ==
  LET keys == SetToRows((mm \ sess.prev) \cup (sess.prev \ mm))
      changed == [i \in DOMAIN keys |-> Row(keys[i], keys[i] \in mm)]
  IN [sess EXCEPT !.events = @ \o changed \o <<Sync>>, !.prev = mm, !.shown = Append(@, mm)]
SessAfter(m) ==
  CASE sess.state = "RECORDING" -> Recorded(m)
    [] sess.state = "PLAYING" -> advance_frame
    [] OTHER -> sess
MatrixAfter(m) == IF sess.state = "PLAYING" THEN played_rows(m) ELSE m
Scanned(rows) == kframe.scanned \/ rows # {}
TickDue(rows) == is_active /\ (Scanned(rows) \/ kframe.wait + 1 >= ScanTimeout)
Ticked(m, rows) == IF TickDue(rows) THEN tick(m) ELSE [m |-> m, a |-> aq, ch |-> <<>>]
Edge(rows) == (rows \cap klive) \ (kseen.down \cup {SHIFT})
Fine(rows) ==
  Edge(rows) = {} \/ (kseen.text # <<>> /\ Edge(rows) = {Key(Head(kseen.text))}
                       /\ Shifted(Head(kseen.text)) = (SHIFT \in klive))

Updated(rows) == update(kmatrix, NeedsAfter(rows))
Done(rows) == Ticked(MatrixAfter(Updated(rows).m), rows)
SeenAfter(rows) ==
  [kseen EXCEPT
     !.unread = {sc \in @ : Key(sc) \notin (rows \cap klive) \cup (Updated(rows).m \ Done(rows).m)},
     !.down = IF kseen.blind THEN {} ELSE (@ \ rows) \cup (rows \cap klive),
     !.wrong = @ \/ (~kseen.blind /\ ~Fine(rows)),
     !.text = IF kseen.blind THEN <<>>
              ELSE (IF Edge(rows) # {} /\ @ # <<>> THEN Tail(@) ELSE @) \o Done(rows).ch,
     !.blind = @ \/ (TickDue(rows) /\ rows = {})]

(* The end of a frame, part by part (FrameComplete).                       *)
LEMMA FrameParts ==
  ASSUME NEW rows, FrameComplete(rows)
  PROVE  /\ kframe.on /\ UNCHANGED klive
         /\ sess.state = "RECORDING" => Len(sess.shown) < MaxRecorded
         /\ kmatrix' = Done(rows).m /\ aq' = Done(rows).a /\ kman' = Updated(rows).k
         /\ sess' = SessAfter(Updated(rows).m)
         /\ kframe' = [kframe EXCEPT !.on = FALSE, !.scanned = Scanned(rows) /\ ~TickDue(rows),
                     !.wait = IF ~is_active THEN @ ELSE IF TickDue(rows) THEN 0 ELSE @ + 1]
         /\ kseen' = SeenAfter(rows)
BY Zenon DEF FrameComplete, NeedsAfter, Recorded, SessAfter, MatrixAfter, Scanned, TickDue,
  Ticked, Edge, Fine, Updated, Done, SeenAfter

-----------------------------------------------------------------------------
(* Keys from the host in the buffered mode.                                 *)

(* A press not read yet still needs its scan, its key is down, and a        *)
(* release is put off only for a key that needs a scan.                     *)
ScanCodes == (Keys \cup {SHIFT}) \X BOOLEAN
Buffered ==
  /\ kseen.unread \subseteq kman.needs /\ kman.needs \subseteq ScanCodes
  /\ \A sc \in kseen.unread : Key(sc) \in kmatrix /\ Key(sc) # SHIFT
  /\ \A r \in kman.pending : r.sc \in kman.needs

(* While nothing has been typed or pressed, nothing is down.                *)
Untouched ==
  ~kseen.blind => kmatrix = {} /\ klive = {} /\ kseen.text = <<>> /\ ~kseen.wrong

HostKeysInv ==
  /\ KeyShapes /\ ~is_active /\ sess.state = "IDLE" /\ Untouched
  /\ kman.mode = "BufferedUntilRead" => Buffered

(* With the keyboard left alone, what is kept stays.                       *)
LEMMA SameKeys ==
  ASSUME UNCHANGED keyVars
  PROVE  /\ HostKeysInv => HostKeysInv'
BY DEF keyVars, HostKeysInv, KeyShapes, is_active, Untouched, Buffered

(* A frame with no text to type.                                            *)
LEMMA CalmFrame ==
  ASSUME NEW rows, FrameComplete(rows), KeyShapes, ~is_active
  PROVE  /\ kframe.on /\ UNCHANGED <<klive, aq>>
         /\ kmatrix' = MatrixAfter(Updated(rows).m) /\ kman' = Updated(rows).k
         /\ sess' = SessAfter(Updated(rows).m)
         /\ kseen'.unread = {sc \in kseen.unread :
              Key(sc) \notin (rows \cap klive) \cup (Updated(rows).m \ MatrixAfter(Updated(rows).m))}
         /\ kseen'.wrong = (kseen.wrong \/ (~kseen.blind /\ ~Fine(rows)))
         /\ kseen'.blind = kseen.blind
         /\ (kseen.blind \/ kseen.text = <<>>) => kseen'.text = <<>>
         /\ kframe'.paused = kframe.paused /\ kframe'.phys = kframe.phys
         /\ KeyShapes'
<1>1. ~TickDue(rows)
  BY DEF TickDue
<1>2. Done(rows) = [m |-> MatrixAfter(Updated(rows).m), a |-> aq, ch |-> <<>>]
  BY <1>1 DEF Ticked, Done
<1>3. Done(rows).m = MatrixAfter(Updated(rows).m) /\ Done(rows).a = aq /\ Done(rows).ch = <<>>
  BY <1>2
<1>4. kframe.on /\ UNCHANGED <<klive, aq>> /\ kmatrix' = MatrixAfter(Updated(rows).m)
      /\ kman' = Updated(rows).k /\ sess' = SessAfter(Updated(rows).m)
  BY <1>3, FrameParts
<1>5. kframe'.paused = kframe.paused /\ kframe'.phys = kframe.phys
      /\ kframe' = [on |-> kframe'.on, paused |-> kframe'.paused, phys |-> kframe'.phys,
               scanned |-> kframe'.scanned, wait |-> kframe'.wait]
  BY FrameParts DEF KeyShapes
<1>6. kseen' = SeenAfter(rows)
  BY FrameParts
<1>7. kseen = [unread |-> kseen.unread, down |-> kseen.down, text |-> kseen.text,
               wrong |-> kseen.wrong, blind |-> kseen.blind]
      /\ kseen.blind \in BOOLEAN /\ kseen.wrong \in BOOLEAN
  BY DEF KeyShapes
<1>8. /\ kseen'.unread = {sc \in kseen.unread :
                           Key(sc) \notin (rows \cap klive) \cup (Updated(rows).m \ Done(rows).m)}
      /\ kseen'.wrong = (kseen.wrong \/ (~kseen.blind /\ ~Fine(rows)))
      /\ kseen'.text = IF kseen.blind THEN <<>>
                       ELSE (IF Edge(rows) # {} /\ kseen.text # <<>> THEN Tail(kseen.text)
                                                                 ELSE kseen.text) \o Done(rows).ch
      /\ kseen'.blind = (kseen.blind \/ (TickDue(rows) /\ rows = {}))
      /\ kseen' = [unread |-> kseen'.unread, down |-> kseen'.down, text |-> kseen'.text,
                   wrong |-> kseen'.wrong, blind |-> kseen'.blind]
  BY <1>6, <1>7, Zenon DEF SeenAfter
<1>9. kseen'.blind = kseen.blind
  BY <1>1, <1>7, <1>8
<1>10. kseen'.wrong \in BOOLEAN
  BY <1>8
<1>11. (kseen.blind \/ kseen.text = <<>>) => kseen'.text = <<>>
  BY <1>3, <1>8
<1>12. kman' = [mode |-> kman'.mode, needs |-> kman'.needs, pending |-> kman'.pending]
  BY <1>4 DEF KeyShapes, Updated, update
<1>13. sess' = [state |-> sess'.state, events |-> sess'.events, file |-> sess'.file, prev |-> sess'.prev,
             base |-> sess'.base, shown |-> sess'.shown, at |-> sess'.at, clean |-> sess'.clean]
  <2>1. CASE sess.state = "RECORDING"
    BY <1>4, <2>1, Zenon DEF SessAfter, Recorded, KeyShapes
  <2>2. CASE sess.state = "PLAYING"
    BY <1>4, <2>2, Zenon DEF SessAfter, advance_frame, KeyShapes
  <2>3. CASE sess.state \notin {"RECORDING", "PLAYING"}
    BY <1>4, <2>3 DEF SessAfter, KeyShapes
  <2> QED BY <2>1, <2>2, <2>3
<1>14. aq' = [q |-> aq'.q, held |-> aq'.held, gap |-> aq'.gap, pause |-> aq'.pause, blocked |-> aq'.blocked]
  BY <1>4 DEF KeyShapes
<1>15. KeyShapes'
  BY <1>5, <1>7, <1>8, <1>9, <1>10, <1>12, <1>13, <1>14 DEF KeyShapes
<1> QED BY <1>3, <1>4, <1>5, <1>8, <1>9, <1>10, <1>11, <1>15

(* The end of a frame keeps it: the releases that are due are of keys read *)
(* (notify_scanned, update).                                               *)
LEMMA HostFrame == \A rows : HostKeysInv /\ FrameComplete(rows) => HostKeysInv'
<1> SUFFICES ASSUME NEW rows, HostKeysInv, FrameComplete(rows) PROVE HostKeysInv'
  OBVIOUS
<1>1. KeyShapes /\ ~is_active /\ sess.state = "IDLE" /\ Untouched
  BY DEF HostKeysInv
<1> DEFINE m == Updated(rows).m
           n == NeedsAfter(rows)
           due == {r \in kman.pending : Due(r, n)}
           gone == {Key(r.sc) : r \in due}
<1>2. /\ m = IF due = {} THEN kmatrix ELSE kmatrix \ (gone \cup {SHIFT})
      /\ Updated(rows).k.mode = kman.mode
      /\ Updated(rows).k.needs = n \ {r.sc : r \in due}
      /\ Updated(rows).k.pending = {Release(r.sc, IF r.left > 0 THEN r.left - 1 ELSE 0) :
                                      r \in kman.pending \ due}
  BY <1>1 DEF Updated, update, KeyShapes
<1>3. SessAfter(m) = sess /\ MatrixAfter(m) = m
  BY <1>1 DEF SessAfter, MatrixAfter
<1> HIDE DEF m, due
<1>4. /\ UNCHANGED <<klive, aq, sess>> /\ kmatrix' = m /\ kman' = Updated(rows).k
      /\ kseen'.unread = {sc \in kseen.unread : Key(sc) \notin (rows \cap klive) \cup (m \ m)}
      /\ kseen'.wrong = (kseen.wrong \/ (~kseen.blind /\ ~Fine(rows)))
      /\ kseen'.blind = kseen.blind
      /\ (kseen.blind \/ kseen.text = <<>>) => kseen'.text = <<>>
      /\ KeyShapes'
  BY <1>1, <1>3, CalmFrame DEF m
<1>5. Untouched'
  <2>1. ~kseen.blind => Fine(rows)
    BY <1>1 DEF Untouched, Fine, Edge
  <2> QED BY <1>1, <1>2, <1>4, <2>1 DEF Untouched
<1>6. ASSUME kman'.mode = "BufferedUntilRead" PROVE Buffered'
  <2>1. kman.mode = "BufferedUntilRead" /\ Buffered
    BY <1>2, <1>4, <1>6 DEF HostKeysInv
  <2>2. due = {r \in kman.pending : r.sc \notin n}
    BY <2>1 DEF due, Due
  <2>3. n = kman.needs \ {sc \in kman.needs : Key(sc) \in rows /\ Key(sc) \in klive}
    BY DEF NeedsAfter, notify_scanned
  <2> HIDE DEF n
  <2>4. kman'.needs = n
    <3>1. \A r \in due : r.sc \notin n
      BY <2>2
    <3>2. kman'.needs = n \ {r.sc : r \in due}
      BY <1>2, <1>4
    <3> HIDE DEF gone
    <3> QED BY <3>1, <3>2
  <2>5. kseen'.unread \subseteq kman'.needs /\ kman'.needs \subseteq ScanCodes
    BY <1>4, <2>1, <2>3, <2>4 DEF Buffered
  <2>6. ASSUME NEW sc \in kseen'.unread PROVE Key(sc) \in kmatrix' /\ Key(sc) # SHIFT
    <3>1. sc \in kseen.unread /\ Key(sc) \notin rows \cap klive /\ Key(sc) \in kmatrix /\ Key(sc) # SHIFT
      BY <1>4, <2>1, <2>6 DEF Buffered
    <3>2. ASSUME NEW r \in due PROVE Key(r.sc) # Key(sc)
      BY <2>1, <2>2, <2>3, <3>1, <3>2 DEF Buffered
    <3> QED BY <1>2, <1>4, <3>1, <3>2
  <2>7. \A r \in kman'.pending : r.sc \in kman'.needs
    <3>1. \A r \in kman.pending \ due : r.sc \in n
      BY <2>2
    <3> QED BY <1>2, <1>4, <2>4, <3>1 DEF Release
  <2> QED BY <2>5, <2>6, <2>7 DEF Buffered
<1> QED BY <1>1, <1>4, <1>5, <1>6 DEF HostKeysInv, is_active

(* A key down keeps it: the key is down and needs its scan                 *)
(* (handle_keydown).                                                       *)
LEMMA HostKeyDown ==
  ASSUME HostKeysInv, NEW k \in Keys \cup {SHIFT}, handle_keydown(HostScancode(k)),
         UNCHANGED <<klive, aq, sess>>, KeyShapes'
  PROVE  HostKeysInv'
<1> DEFINE sc == HostScancode(k)
<1>1. sc \in ScanCodes /\ Key(sc) = k /\ (k = SHIFT => sc = <<SHIFT, FALSE>>)
  BY DEF HostScancode, ScanCodes, Key
<1> HIDE DEF sc
<1>2. /\ kmatrix' = applyKeypressDirect(kmatrix, sc, TRUE, FALSE)
      /\ kman'.mode = kman.mode /\ kman'.pending = Dropped(sc)
      /\ kman'.needs = (IF kman.mode = "BufferedUntilRead" THEN kman.needs \cup {sc} ELSE kman.needs)
      /\ kseen'.unread = kseen.unread \cup ({sc} \ {<<SHIFT, FALSE>>}) /\ kseen'.blind
  BY DEF handle_keydown, HostKeysInv, KeyShapes, sc
<1>3. \A x \in kmatrix \ {SHIFT} : x \in kmatrix'
  BY <1>2 DEF applyKeypressDirect
<1>4. k # SHIFT => k \in kmatrix'
  BY <1>1, <1>2 DEF applyKeypressDirect
<1>5. ASSUME kman'.mode = "BufferedUntilRead" PROVE Buffered'
  <2>1. kman.mode = "BufferedUntilRead" /\ Buffered
    BY <1>2, <1>5 DEF HostKeysInv
  <2> QED BY <1>1, <1>2, <1>3, <1>4, <2>1 DEF Buffered, Dropped, Key
<1>6. ~is_active' /\ sess'.state = "IDLE"
  BY DEF HostKeysInv, is_active
<1> QED BY <1>2, <1>5, <1>6 DEF HostKeysInv, Untouched

(* A key up keeps it: only a key that needs no scan is let go at once      *)
(* (handle_keyup).                                                         *)
LEMMA HostKeyUp ==
  ASSUME HostKeysInv, NEW k \in Keys \cup {SHIFT}, handle_keyup(HostScancode(k)),
         UNCHANGED <<klive, aq, sess>>, KeyShapes'
  PROVE  HostKeysInv'
<1> DEFINE sc == HostScancode(k)
<1>1. sc \in ScanCodes /\ Key(sc) = k /\ Shifted(sc) \in BOOLEAN /\ sc = <<Key(sc), Shifted(sc)>>
  BY DEF HostScancode, ScanCodes, Key, Shifted
<1> HIDE DEF sc
<1> DEFINE now == \/ kman.mode = "Direct"
                  \/ kman.mode = "BufferedUntilRead" /\ sc \notin kman.needs
           left == IF kman.mode = "Min2Frames" THEN 2 ELSE 0
<1>2. /\ kmatrix' = IF now THEN applyKeypressDirect(kmatrix, sc, FALSE, TRUE) ELSE kmatrix
      /\ kman' = IF now THEN [kman EXCEPT !.needs = @ \ {sc}]
                        ELSE [kman EXCEPT !.pending = @ \cup {Release(sc, left)}]
      /\ kseen' = [kseen EXCEPT !.unread = @ \ {<<Key(sc), ~Shifted(sc)>>}]
  BY DEF handle_keyup, sc
<1>3. /\ kseen'.unread = kseen.unread \ {<<Key(sc), ~Shifted(sc)>>} /\ kseen'.blind = kseen.blind
      /\ kseen'.text = kseen.text /\ kseen'.wrong = kseen.wrong
  BY <1>2 DEF HostKeysInv, KeyShapes
<1>4. kmatrix' = IF now THEN kmatrix \ {Key(sc), SHIFT} ELSE kmatrix
  BY <1>2 DEF applyKeypressDirect
<1>5. /\ kman'.mode = kman.mode
      /\ kman'.needs = (IF now THEN kman.needs \ {sc} ELSE kman.needs)
      /\ kman'.pending = (IF now THEN kman.pending ELSE kman.pending \cup {Release(sc, left)})
  BY <1>2 DEF HostKeysInv, KeyShapes
<1>6. Untouched'
  BY <1>3, <1>4 DEF HostKeysInv, Untouched
<1>7. ASSUME kman'.mode = "BufferedUntilRead" PROVE Buffered'
  <2>1. kman.mode = "BufferedUntilRead" /\ Buffered
    BY <1>5, <1>7 DEF HostKeysInv
  <2>2. CASE now
    <3>1. sc \notin kman.needs /\ kman'.needs = kman.needs /\ kman'.pending = kman.pending
      BY <1>5, <2>1, <2>2
    <3>2. ASSUME NEW x \in kseen'.unread PROVE Key(x) # Key(sc)
      <4>1. x \in ScanCodes /\ x # sc /\ x # <<Key(sc), ~Shifted(sc)>>
        BY <1>3, <2>1, <3>1, <3>2 DEF Buffered
      <4> QED BY <1>1, <4>1 DEF ScanCodes, Key, Shifted
    <3>3. \A x \in kseen'.unread : Key(x) \in kmatrix' /\ Key(x) # SHIFT
      BY <1>3, <1>4, <2>1, <2>2, <3>2 DEF Buffered
    <3> QED BY <1>3, <2>1, <3>1, <3>3 DEF Buffered
  <2>3. CASE ~now
    <3>1. sc \in kman.needs /\ kman'.needs = kman.needs /\ kmatrix' = kmatrix
          /\ kman'.pending = kman.pending \cup {Release(sc, left)}
      BY <1>4, <1>5, <2>1, <2>3
    <3>2. Release(sc, left).sc = sc
      BY DEF Release
    <3> QED BY <1>3, <2>1, <3>1, <3>2 DEF Buffered
  <2> QED BY <2>2, <2>3
<1>8. ~is_active' /\ sess'.state = "IDLE"
  BY DEF HostKeysInv, is_active
<1> QED BY <1>6, <1>7, <1>8 DEF HostKeysInv

(* Every step on the bench of the host's keys keeps it.                    *)
LEMMA HostKeysStep == HostKeysInv /\ (HostKeyNext \/ UNCHANGED keyVars) => HostKeysInv'
<1> SUFFICES ASSUME HostKeysInv, HostKeyNext \/ UNCHANGED keyVars PROVE HostKeysInv'
  OBVIOUS
<1>1. CASE UNCHANGED keyVars
  BY <1>1, SameKeys
<1>2. CASE \E rows \in SUBSET AllRows : FrameComplete(rows)
  BY <1>2, HostFrame
<1>3. CASE TogglePause
  <2>1. UNCHANGED <<kmatrix, klive, kman, aq, sess, kseen>> /\ KeyShapes'
    BY <1>3 DEF TogglePause, HostKeysInv, KeyShapes
  <2> QED BY <2>1 DEF HostKeysInv, is_active, Untouched, Buffered
<1>4. CASE publish_keyboard_snapshot
  <2>1. UNCHANGED <<kmatrix, kman, aq, sess, kseen>> /\ klive' = kmatrix /\ KeyShapes'
    BY <1>4 DEF publish_keyboard_snapshot, HostKeysInv, KeyShapes
  <2> QED BY <2>1 DEF HostKeysInv, is_active, Untouched, Buffered
<1>5. CASE applyKeypress
  <2>1. UNCHANGED <<klive, aq, sess>>
    BY <1>5 DEF applyKeypress
  <2>2. PICK k \in Keys \cup {SHIFT} :
          \/ UNCHANGED <<kmatrix, kman, kseen>> \/ handle_keydown(HostScancode(k))
          \/ handle_keyup(HostScancode(k))
    BY <1>5 DEF applyKeypress
  <2>3. KeyShapes'
    <3>1. /\ kframe' = [on |-> kframe'.on, paused |-> kframe'.paused, phys |-> kframe'.phys,
               scanned |-> kframe'.scanned, wait |-> kframe'.wait]
      BY <1>5 DEF applyKeypress, HostKeysInv, KeyShapes
    <3>2. kman' = [mode |-> kman'.mode, needs |-> kman'.needs, pending |-> kman'.pending]
      BY <2>2 DEF HostKeysInv, KeyShapes, handle_keydown, handle_keyup
    <3>3. kseen' = [unread |-> kseen'.unread, down |-> kseen'.down, text |-> kseen'.text,
              wrong |-> kseen'.wrong, blind |-> kseen'.blind]
          /\ kseen'.blind \in BOOLEAN /\ kseen'.wrong \in BOOLEAN
      BY <2>2 DEF HostKeysInv, KeyShapes, handle_keydown, handle_keyup
    <3> QED BY <2>1, <3>1, <3>2, <3>3 DEF HostKeysInv, KeyShapes
  <2>4. CASE UNCHANGED <<kmatrix, kman, kseen>>
    BY <2>1, <2>3, <2>4 DEF HostKeysInv, is_active, Untouched, Buffered
  <2> QED BY <2>1, <2>2, <2>3, <2>4, HostKeyDown, HostKeyUp
<1> QED BY <1>1, <1>2, <1>3, <1>4, <1>5 DEF HostKeyNext

(* Keys the manager does not see: none is owed a read.                      *)
DirectKeysInv == HostKeysInv /\ kman.mode = "Direct"

(* A frame does not change the support mode.                               *)
LEMMA SameMode == \A rows : KeyShapes /\ FrameComplete(rows) => kman'.mode = kman.mode
<1> SUFFICES ASSUME NEW rows, KeyShapes, FrameComplete(rows) PROVE kman'.mode = kman.mode
  OBVIOUS
<1>1. kman' = Updated(rows).k
  BY FrameParts
<1>2. Updated(rows).k.mode = kman.mode
  BY DEF Updated, update, KeyShapes
<1> QED BY <1>1, <1>2

(* Every step on the bench of direct keys keeps it.                        *)
LEMMA DirectKeysStep == DirectKeysInv /\ (DirectKeyNext \/ UNCHANGED keyVars) => DirectKeysInv'
<1> SUFFICES ASSUME DirectKeysInv, DirectKeyNext \/ UNCHANGED keyVars PROVE DirectKeysInv'
  OBVIOUS
<1>1. HostKeysInv /\ KeyShapes /\ kman.mode = "Direct"
  BY DEF DirectKeysInv, HostKeysInv
<1>2. CASE UNCHANGED keyVars
  <2>1. kman' = kman
    BY <1>2 DEF keyVars
  <2> QED BY <1>1, <1>2, <2>1, SameKeys DEF DirectKeysInv
<1>3. CASE FrameComplete(AllRows)
  BY <1>1, <1>3, SameMode, HostFrame DEF DirectKeysInv
<1>4. CASE publish_keyboard_snapshot
  <2>1. publish_keyboard_snapshot => HostKeyNext /\ kman' = kman
    BY DEF HostKeyNext, publish_keyboard_snapshot
  <2> QED BY <1>1, <1>4, <2>1, HostKeysStep DEF DirectKeysInv
<1>5. CASE applyDirect \/ ipc_input_key
  <2>1. UNCHANGED <<klive, kman, kframe, aq, sess>>
    BY <1>5 DEF applyDirect, ipc_input_key
  <2>2. /\ kseen' = [unread |-> kseen'.unread, down |-> kseen'.down, text |-> kseen'.text,
              wrong |-> kseen'.wrong, blind |-> kseen'.blind]
        /\ kseen'.blind = TRUE /\ kseen'.wrong = kseen.wrong
    <3>1. CASE applyDirect
      BY <1>1, <3>1 DEF applyDirect, KeyShapes
    <3>2. CASE ipc_input_key
      BY <1>1, <3>2 DEF ipc_input_key, KeyShapes
    <3> QED BY <1>5, <3>1, <3>2
  <2>3. KeyShapes'
    BY <1>1, <2>1, <2>2 DEF KeyShapes
  <2> QED BY <1>1, <2>1, <2>2, <2>3 DEF DirectKeysInv, HostKeysInv, is_active, Untouched
<1> QED BY <1>2, <1>3, <1>4, <1>5 DEF DirectKeyNext

-----------------------------------------------------------------------------
(* Text from the queue.                                                     *)

(* While no tick went unseen: a key held down is the character typed last,  *)
(* which the guest has still to read; with none held only SHIFT is down,    *)
(* and only in the gap after a release may the guest believe otherwise.     *)
HeldDown ==
  /\ aq.held \in Keys \X BOOLEAN /\ ~aq.blocked /\ kmatrix \ {SHIFT} = {Key(aq.held)}
  /\ (SHIFT \in kmatrix) = Shifted(aq.held)
  /\ kseen.text = <<aq.held>> /\ kseen.down \subseteq {SHIFT}
NothingHeld ==
  /\ aq.held = NoKey /\ kmatrix \subseteq {SHIFT} /\ kseen.text = <<>>
  /\ aq.gap \/ kseen.down \subseteq {SHIFT}
Typing ==
  /\ ~kseen.wrong /\ kseen.down \subseteq AllRows
  /\ kframe.on => klive = kmatrix
  /\ HeldDown \/ NothingHeld

TypeKeysInv ==
  /\ KeyShapes /\ kman.mode = "Direct" /\ kman.needs = {} /\ kman.pending = {}
  /\ sess.state = "IDLE" /\ aq.q \in Seq(Actions)
  /\ ~kseen.blind => Typing

QueueShape(a) ==
  a = [q |-> a.q, held |-> a.held, gap |-> a.gap, pause |-> a.pause, blocked |-> a.blocked]
Queue(a, q, h, g, p, b) ==
  QueueShape(a) /\ a.q = q /\ a.held = h /\ a.gap = g /\ a.pause = p /\ a.blocked = b

(* What an edit of the queue leaves in its fields.                         *)
LEMMA QueueEdits ==
  ASSUME NEW a, QueueShape(a), NEW c
  PROVE  /\ c = [a EXCEPT !.held = NoKey, !.gap = TRUE] => Queue(c, a.q, NoKey, TRUE, a.pause, a.blocked)
         /\ c = [a EXCEPT !.gap = FALSE] => Queue(c, a.q, a.held, FALSE, a.pause, a.blocked)
         /\ c = [a EXCEPT !.gap = TRUE] => Queue(c, a.q, a.held, TRUE, a.pause, a.blocked)
         /\ c = [a EXCEPT !.pause = @ - 1] => Queue(c, a.q, a.held, a.gap, a.pause - 1, a.blocked)
         /\ c = [a EXCEPT !.q = Tail(@)] => Queue(c, Tail(a.q), a.held, a.gap, a.pause, a.blocked)
         /\ c = [a EXCEPT !.pause = 1] => Queue(c, a.q, a.held, a.gap, 1, a.blocked)
         /\ c = [a EXCEPT !.blocked = TRUE] => Queue(c, a.q, a.held, a.gap, a.pause, TRUE)
         /\ \A x : c = [a EXCEPT !.held = x] => Queue(c, a.q, x, a.gap, a.pause, a.blocked)
BY Zenon DEF Queue, QueueShape

Took(r, m, q, h, g, p, b, ch) == r.m = m /\ r.ch = ch /\ Queue(r.a, q, h, g, p, b)
TakesAction(m, r) ==
  LET x == Head(aq.q)
      rest == Tail(aq.q)
  IN \/ /\ x.t = "char"
        /\ Took(r, ipc_apply_keypress(m, x.sc, TRUE), rest, x.sc, aq.gap, aq.pause, aq.blocked, <<x.sc>>)
     \/ /\ x.t = "press"
        /\ Took(r, ipc_apply_keypress(m, x.sc, TRUE), rest, aq.held, aq.gap, aq.pause, aq.blocked, <<>>)
     \/ /\ x.t = "release"
        /\ Took(r, ipc_apply_keypress(m, x.sc, FALSE), rest, aq.held, TRUE, aq.pause, aq.blocked, <<>>)
     \/ x.t = "pause" /\ Took(r, m, rest, aq.held, aq.gap, 1, aq.blocked, <<>>)
     \/ x.t = "command" /\ Took(r, m, rest, aq.held, aq.gap, aq.pause, TRUE, <<>>)
TickIs(m, r) ==
  \/ aq.blocked /\ r.m = m /\ r.a = aq /\ r.ch = <<>>
  \/ /\ ~aq.blocked /\ aq.held # NoKey
     /\ Took(r, ipc_apply_keypress(m, aq.held, FALSE), aq.q, NoKey, TRUE, aq.pause, aq.blocked, <<>>)
  \/ /\ ~aq.blocked /\ aq.held = NoKey /\ aq.gap
     /\ Took(r, m, aq.q, aq.held, FALSE, aq.pause, aq.blocked, <<>>)
  \/ /\ ~aq.blocked /\ aq.held = NoKey /\ ~aq.gap
     /\ Took(r, m, aq.q, aq.held, aq.gap, aq.pause - 1, aq.blocked, <<>>)
  \/ /\ ~aq.blocked /\ aq.held = NoKey /\ ~aq.gap /\ aq.q # <<>> /\ Head(aq.q) \in Actions
     /\ Tail(aq.q) \in Seq(Actions) /\ TakesAction(m, r)

(* One tick does one of nine things.                                        *)
LEMMA TickCases ==
  ASSUME QueueShape(aq), aq.q \in Seq(Actions), is_active, NEW m
  PROVE  TickIs(m, tick(m))
<1> DEFINE r == tick(m)
<1>1. CASE aq.blocked
  BY <1>1 DEF tick, TickIs
<1>2. CASE ~aq.blocked /\ aq.held # NoKey
  <2>1. r.m = ipc_apply_keypress(m, aq.held, FALSE) /\ r.a = [aq EXCEPT !.held = NoKey, !.gap = TRUE]
        /\ r.ch = <<>>
    BY <1>2, Zenon DEF tick
  <2> HIDE DEF r
  <2>2. Queue(r.a, aq.q, NoKey, TRUE, aq.pause, aq.blocked)
    BY <2>1, QueueEdits, Zenon
  <2> QED BY <1>2, <2>1, <2>2 DEF TickIs, Took, r
<1>3. CASE ~aq.blocked /\ aq.held = NoKey /\ aq.gap
  <2>1. r.m = m /\ r.a = [aq EXCEPT !.gap = FALSE] /\ r.ch = <<>>
    BY <1>3, Zenon DEF tick
  <2> HIDE DEF r
  <2>2. Queue(r.a, aq.q, aq.held, FALSE, aq.pause, aq.blocked)
    BY <2>1, QueueEdits, Zenon
  <2> QED BY <1>3, <2>1, <2>2 DEF TickIs, Took, r
<1>4. CASE ~aq.blocked /\ aq.held = NoKey /\ ~aq.gap /\ aq.pause > 0
  <2>1. r.m = m /\ r.a = [aq EXCEPT !.pause = @ - 1] /\ r.ch = <<>>
    BY <1>4, Zenon DEF tick
  <2> HIDE DEF r
  <2>2. Queue(r.a, aq.q, aq.held, aq.gap, aq.pause - 1, aq.blocked)
    BY <2>1, QueueEdits, Zenon
  <2> QED BY <1>4, <2>1, <2>2 DEF TickIs, Took, r
<1>5. CASE ~aq.blocked /\ aq.held = NoKey /\ ~aq.gap /\ ~(aq.pause > 0)
  <2>1. aq.q # <<>>
    BY <1>5 DEF is_active
  <2>2. Head(aq.q) \in Actions /\ Tail(aq.q) \in Seq(Actions)
    BY <2>1
  <2> DEFINE x == Head(aq.q)
  <2>3. PICK rest : rest = [aq EXCEPT !.q = Tail(@)]
    OBVIOUS
  <2>4. x.t \in {"char", "press", "release", "pause", "command"}
    BY <2>2 DEF Actions
  <2>5. r = CASE x.t = "char" -> [m |-> ipc_apply_keypress(m, x.sc, TRUE),
                                  a |-> [rest EXCEPT !.held = x.sc], ch |-> <<x.sc>>]
              [] x.t = "press" -> [m |-> ipc_apply_keypress(m, x.sc, TRUE), a |-> rest, ch |-> <<>>]
              [] x.t = "release" -> [m |-> ipc_apply_keypress(m, x.sc, FALSE),
                                     a |-> [rest EXCEPT !.gap = TRUE], ch |-> <<>>]
              [] x.t = "pause" -> [m |-> m, a |-> [rest EXCEPT !.pause = 1], ch |-> <<>>]
              [] x.t = "command" -> [m |-> m, a |-> [rest EXCEPT !.blocked = TRUE], ch |-> <<>>]
    BY <1>5, <2>3, Zenon DEF tick
  <2>6. Queue(rest, Tail(aq.q), aq.held, aq.gap, aq.pause, aq.blocked) /\ QueueShape(rest)
    <3>1. Queue(rest, Tail(aq.q), aq.held, aq.gap, aq.pause, aq.blocked)
      BY <2>3, QueueEdits, Zenon
    <3> QED BY <3>1, Zenon DEF Queue
  <2> HIDE DEF x, r
  <2> DEFINE c == r.a
  <2>7. \/ x.t = "char" /\ r.m = ipc_apply_keypress(m, x.sc, TRUE)
           /\ c = [rest EXCEPT !.held = x.sc] /\ r.ch = <<x.sc>>
        \/ x.t = "press" /\ r.m = ipc_apply_keypress(m, x.sc, TRUE) /\ c = rest /\ r.ch = <<>>
        \/ x.t = "release" /\ r.m = ipc_apply_keypress(m, x.sc, FALSE)
           /\ c = [rest EXCEPT !.gap = TRUE] /\ r.ch = <<>>
        \/ x.t = "pause" /\ r.m = m /\ c = [rest EXCEPT !.pause = 1] /\ r.ch = <<>>
        \/ x.t = "command" /\ r.m = m /\ c = [rest EXCEPT !.blocked = TRUE] /\ r.ch = <<>>
    BY <2>4, <2>5
  <2> HIDE DEF c
  <2>8. /\ c = [rest EXCEPT !.gap = TRUE] => Queue(c, rest.q, rest.held, TRUE, rest.pause, rest.blocked)
        /\ c = [rest EXCEPT !.pause = 1] => Queue(c, rest.q, rest.held, rest.gap, 1, rest.blocked)
        /\ c = [rest EXCEPT !.blocked = TRUE] => Queue(c, rest.q, rest.held, rest.gap, rest.pause, TRUE)
        /\ c = [rest EXCEPT !.held = x.sc] => Queue(c, rest.q, x.sc, rest.gap, rest.pause, rest.blocked)
    BY <2>6, QueueEdits, Zenon
  <2>9. TakesAction(m, r)
    BY <2>6, <2>7, <2>8, Zenon DEF TakesAction, x, c, Took, Queue
  <2> QED BY <1>5, <2>1, <2>2, <2>9 DEF TickIs, r
<1> QED BY <1>1, <1>2, <1>3, <1>4, <1>5

(* The tail of a single character is empty.                                *)
LEMMA OneTail == \A x : Tail(<<x>>) = <<>> /\ <<x>> # <<>> /\ Head(<<x>>) = x
OBVIOUS

(* A frame of the guest that reads all the keys or none.                    *)
LEMMA TypeFrame ==
  ASSUME TypeKeysInv, NEW rows \in {{}, AllRows}, FrameComplete(rows)
  PROVE  TypeKeysInv'
<1> DEFINE m == kmatrix
           d == Done(rows)
           u == Updated(rows)
<1>1. /\ KeyShapes /\ kman.mode = "Direct" /\ kman.needs = {} /\ kman.pending = {}
      /\ sess.state = "IDLE" /\ aq.q \in Seq(Actions) /\ QueueShape(aq)
  BY DEF TypeKeysInv, KeyShapes, QueueShape
<1>2. u.m = m /\ u.k.mode = kman.mode /\ u.k.needs = {} /\ u.k.pending = {}
      /\ u.k = [mode |-> u.k.mode, needs |-> u.k.needs, pending |-> u.k.pending]
  BY <1>1 DEF Updated, update, NeedsAfter, notify_scanned, KeyShapes
<1>3. SessAfter(u.m) = sess /\ MatrixAfter(u.m) = m
  BY <1>1, <1>2 DEF SessAfter, MatrixAfter
<1> HIDE DEF u
<1>4. d = IF TickDue(rows) THEN tick(m) ELSE [m |-> m, a |-> aq, ch |-> <<>>]
  BY <1>3 DEF Done, Ticked, u
<1> HIDE DEF d
<1>5. /\ kframe.on /\ UNCHANGED klive /\ kmatrix' = d.m /\ aq' = d.a /\ kman' = u.k /\ sess' = sess
  BY <1>3, FrameParts DEF d, u
<1>6. kframe'.on = FALSE
      /\ kframe' = [on |-> kframe'.on, paused |-> kframe'.paused, phys |-> kframe'.phys,
               scanned |-> kframe'.scanned, wait |-> kframe'.wait]
  BY <1>1, FrameParts DEF KeyShapes
<1>7. kseen = [unread |-> kseen.unread, down |-> kseen.down, text |-> kseen.text,
               wrong |-> kseen.wrong, blind |-> kseen.blind]
      /\ kseen.blind \in BOOLEAN /\ kseen.wrong \in BOOLEAN /\ kseen' = SeenAfter(rows)
  BY <1>1, FrameParts DEF KeyShapes
<1>8. /\ kseen'.wrong = (kseen.wrong \/ (~kseen.blind /\ ~Fine(rows)))
      /\ kseen'.text = IF kseen.blind THEN <<>>
                       ELSE (IF Edge(rows) # {} /\ kseen.text # <<>> THEN Tail(kseen.text)
                                                                 ELSE kseen.text) \o d.ch
      /\ kseen'.down = IF kseen.blind THEN {} ELSE (kseen.down \ rows) \cup (rows \cap klive)
      /\ kseen'.blind = (kseen.blind \/ (TickDue(rows) /\ rows = {}))
      /\ kseen' = [unread |-> kseen'.unread, down |-> kseen'.down, text |-> kseen'.text,
                   wrong |-> kseen'.wrong, blind |-> kseen'.blind]
  BY <1>7, Zenon DEF SeenAfter, d
<1>9. TickDue(rows) => TickIs(m, d)
  BY <1>1, <1>4, TickCases DEF TickDue
<1>10. ~TickDue(rows) => d.m = m /\ d.a = aq /\ d.ch = <<>>
  BY <1>4
<1>11. QueueShape(aq') /\ aq'.q \in Seq(Actions)
  <2>1. CASE ~TickDue(rows)
    BY <1>1, <1>5, <1>10, <2>1
  <2>2. CASE TickDue(rows)
    <3>1. d.a = aq \/ (QueueShape(d.a) /\ d.a.q = aq.q)
            \/ (QueueShape(d.a) /\ d.a.q = Tail(aq.q) /\ Tail(aq.q) \in Seq(Actions))
      BY <1>9, <2>2, Zenon DEF TickIs, TakesAction, Took, Queue
    <3> QED BY <1>1, <1>5, <3>1
  <2> QED BY <2>1, <2>2
<1>12. KeyShapes'
  BY <1>1, <1>2, <1>5, <1>6, <1>8, <1>11 DEF KeyShapes, QueueShape
<1>13. ASSUME ~kseen'.blind PROVE Typing'
  <2>1. ~kseen.blind /\ ~(TickDue(rows) /\ rows = {}) /\ Typing
    BY <1>7, <1>8, <1>13 DEF TypeKeysInv
  <2>2. klive = m /\ ~kseen.wrong /\ kseen.down \subseteq AllRows /\ (HeldDown \/ NothingHeld)
    BY <1>5, <2>1 DEF Typing
  <2>3. m \subseteq AllRows /\ SHIFT \notin Keys /\ "none" \notin Keys
    BY <2>2, KeyAssumption DEF HeldDown, NothingHeld, AllRows, Key
  <2>4. Edge(rows) = (rows \cap m) \ (kseen.down \cup {SHIFT})
    BY <2>2 DEF Edge
  <2>5. rows = AllRows => kseen'.down = m
    BY <1>8, <2>1, <2>2, <2>3
  <2>6. rows = {} => kseen'.down = kseen.down /\ Edge(rows) = {}
    BY <1>8, <2>1, <2>4
  <2>7. NothingHeld => Edge(rows) = {} /\ Fine(rows) /\ kseen'.text = <<>> \o d.ch
    BY <1>8, <2>1, <2>4 DEF NothingHeld, Fine
  <2>8. HeldDown => aq.held # NoKey /\ is_active /\ Key(aq.held) \in Keys
    <3>1. HeldDown => aq.held \in Keys \X BOOLEAN
      BY DEF HeldDown
    <3>2. ASSUME NEW h \in Keys \X BOOLEAN PROVE Key(h) \in Keys /\ h # NoKey
      <4>1. h[1] \in Keys
        OBVIOUS
      <4>2. NoKey[1] = "none"
        BY DEF NoKey
      <4> QED BY <2>3, <4>1, <4>2 DEF Key
    <3>3. aq.held # NoKey => is_active
      BY DEF is_active
    <3> QED BY <3>1, <3>2, <3>3
  <2>9. CASE ~TickDue(rows)
    <3>1. kmatrix' = kmatrix /\ aq' = aq /\ d.ch = <<>>
      BY <1>5, <1>10, <2>9
    <3>2. CASE rows = {}
      <4>1. Fine(rows) /\ kseen'.text = kseen.text \o <<>>
        BY <1>8, <2>1, <2>6, <3>1, <3>2 DEF Fine
      <4>2. kseen.text \o <<>> = kseen.text
        BY <2>2 DEF HeldDown, NothingHeld
      <4>3. kseen'.wrong = FALSE /\ kseen'.text = kseen.text /\ kseen'.down = kseen.down
        BY <1>8, <2>2, <2>6, <3>2, <4>1, <4>2
      <4>4. HeldDown' \/ NothingHeld'
        BY <2>2, <3>1, <4>3 DEF HeldDown, NothingHeld
      <4> QED BY <1>6, <2>2, <4>3, <4>4 DEF Typing, AllRows
    <3>3. CASE rows = AllRows
      <4>1. ~is_active
        BY <2>9, <3>3 DEF TickDue, Scanned, AllRows
      <4>2. NothingHeld /\ kseen'.text = <<>> /\ Fine(rows) /\ kseen'.down = m
        BY <2>2, <2>5, <2>7, <2>8, <3>1, <3>3, <4>1
      <4>3. kseen'.wrong = FALSE
        BY <1>8, <2>2, <4>2
      <4>4. NothingHeld'
        BY <3>1, <4>2 DEF NothingHeld
      <4> QED BY <1>6, <2>3, <4>2, <4>3, <4>4 DEF Typing, AllRows
    <3> QED BY <3>2, <3>3
  <2>10. CASE TickDue(rows) /\ HeldDown
    <3>1. rows = AllRows /\ kseen'.down = m
      BY <2>1, <2>5, <2>10
    <3>2. Edge(rows) = {Key(aq.held)}
      BY <2>3, <2>4, <2>8, <2>10, <3>1 DEF HeldDown, AllRows
    <3>3. kseen.text = <<aq.held>> /\ (SHIFT \in m) = Shifted(aq.held)
      BY <2>10 DEF HeldDown
    <3>4. Fine(rows)
      BY <2>2, <3>2, <3>3, OneTail DEF Fine
    <3>5. /\ d.m = ipc_apply_keypress(m, aq.held, FALSE) /\ d.ch = <<>>
          /\ d.a.held = NoKey /\ d.a.gap = TRUE
      BY <1>9, <2>8, <2>10, Zenon DEF TickIs, Took, Queue, HeldDown
    <3>6. kmatrix' = {}
      BY <1>5, <2>10, <3>5 DEF ipc_apply_keypress, HeldDown
    <3>7. kseen'.text = <<>>
      <4>1. kseen'.text = Tail(kseen.text) \o <<>>
        BY <1>8, <2>1, <3>2, <3>3, <3>5, OneTail
      <4> QED BY <3>3, <4>1, OneTail
    <3>8. NothingHeld'
      BY <1>5, <3>5, <3>6, <3>7 DEF NothingHeld
    <3> QED BY <1>6, <1>8, <2>2, <2>3, <3>1, <3>4, <3>8 DEF Typing, AllRows
  <2>11. CASE TickDue(rows) /\ NothingHeld
    <3>1. kseen'.down = m /\ m \subseteq {SHIFT} /\ Fine(rows) /\ kseen'.text = <<>> \o d.ch
          /\ aq.held = NoKey
      BY <2>1, <2>5, <2>7, <2>11 DEF NothingHeld
    <3>2. kseen'.wrong = FALSE
      BY <1>8, <2>2, <3>1
    <3>3. \/ d.m = m /\ d.ch = <<>> /\ d.a = aq
          \/ d.m = m /\ d.ch = <<>> /\ d.a.held = aq.held
          \/ TakesAction(m, d) /\ Head(aq.q) \in Actions /\ ~aq.blocked /\ ~aq.gap
      BY <1>9, <2>11, <3>1, Zenon DEF TickIs, Took, Queue
    <3> DEFINE x == Head(aq.q)
    <3>4. CASE d.m = m /\ d.ch = <<>> /\ (d.a = aq \/ d.a.held = aq.held)
      <4>1. NothingHeld'
        BY <1>5, <3>1, <3>4 DEF NothingHeld
      <4> QED BY <1>6, <2>3, <3>1, <3>2, <4>1 DEF Typing, AllRows
    <3>5. CASE TakesAction(m, d) /\ x \in Actions /\ ~aq.blocked /\ x.t = "char"
      <4>1. x.sc \in Keys \X BOOLEAN
        BY <3>5 DEF Actions
      <4>2. d.m = ipc_apply_keypress(m, x.sc, TRUE) /\ d.a.held = x.sc /\ d.ch = <<x.sc>>
            /\ d.a.blocked = aq.blocked
        BY <3>5, Zenon DEF TakesAction, Took, Queue
      <4> HIDE DEF x
      <4>3. Key(x.sc) \in Keys /\ Shifted(x.sc) \in BOOLEAN
        BY <4>1 DEF Key, Shifted
      <4>4. kmatrix' \ {SHIFT} = {Key(x.sc)}
        BY <1>5, <2>3, <3>1, <4>2, <4>3 DEF ipc_apply_keypress
      <4>5. (SHIFT \in kmatrix') = Shifted(x.sc)
        <5>1. CASE Shifted(x.sc)
          BY <1>5, <4>2, <5>1 DEF ipc_apply_keypress
        <5>2. CASE ~Shifted(x.sc)
          BY <1>5, <2>3, <4>2, <4>3, <5>2 DEF ipc_apply_keypress
        <5> QED BY <4>3, <5>1, <5>2
      <4>6. kseen'.text = <<x.sc>>
        BY <3>1, <4>2
      <4>7. ~aq'.blocked
        BY <1>5, <3>5, <4>2
      <4>8. HeldDown'
        BY <1>5, <3>1, <4>1, <4>2, <4>4, <4>5, <4>6, <4>7 DEF HeldDown
      <4> QED BY <1>6, <2>3, <3>1, <3>2, <4>8 DEF Typing, AllRows
    <3>6. CASE TakesAction(m, d) /\ x \in Actions /\ x.t # "char"
      <4>1. x.t \in {"press", "release"} => x.sc = <<SHIFT, FALSE>>
        BY <3>6 DEF Actions
      <4>2. /\ d.ch = <<>> /\ d.a.held = aq.held
            /\ \/ d.m = m
               \/ x.t = "press" /\ d.m = ipc_apply_keypress(m, x.sc, TRUE)
               \/ x.t = "release" /\ d.m = ipc_apply_keypress(m, x.sc, FALSE)
        BY <3>6, Zenon DEF TakesAction, Took, Queue
      <4> HIDE DEF x
      <4>3. kmatrix' \subseteq {SHIFT}
        <5>1. CASE x.t \in {"press", "release"}
          <6>1. Key(x.sc) = SHIFT /\ ~Shifted(x.sc)
            <7>1. Key(<<SHIFT, FALSE>>) = SHIFT /\ ~Shifted(<<SHIFT, FALSE>>)
              BY DEF Key, Shifted
            <7> QED BY <4>1, <5>1, <7>1
          <6>2. d.m \in {m, m \cup {SHIFT}, m \ {SHIFT, SHIFT}}
            BY <4>2, <6>1 DEF ipc_apply_keypress
          <6> QED BY <1>5, <3>1, <6>2
        <5>2. CASE x.t \notin {"press", "release"}
          BY <1>5, <3>1, <4>2, <5>2
        <5> QED BY <5>1, <5>2
      <4>4. NothingHeld'
        BY <1>5, <3>1, <4>2, <4>3 DEF NothingHeld
      <4> QED BY <1>6, <2>3, <3>1, <3>2, <4>4 DEF Typing, AllRows
    <3> QED BY <3>3, <3>4, <3>5, <3>6
  <2> QED BY <2>2, <2>9, <2>10, <2>11
<1> QED BY <1>1, <1>2, <1>5, <1>11, <1>12, <1>13 DEF TypeKeysInv

(* Every step on the typing bench keeps it.                                *)
LEMMA TypeKeysStep == TypeKeysInv /\ (TypeNext \/ UNCHANGED keyVars) => TypeKeysInv'
<1> SUFFICES ASSUME TypeKeysInv, TypeNext \/ UNCHANGED keyVars PROVE TypeKeysInv'
  OBVIOUS
<1>1. /\ KeyShapes /\ kman.mode = "Direct" /\ kman.needs = {} /\ kman.pending = {}
      /\ sess.state = "IDLE" /\ aq.q \in Seq(Actions)
      /\ ~kseen.blind => Typing
  BY DEF TypeKeysInv
<1>2. CASE UNCHANGED keyVars
  BY <1>2 DEF keyVars, TypeKeysInv, KeyShapes, Typing, HeldDown, NothingHeld
<1>3. CASE \E rows \in {{}, AllRows} : FrameComplete(rows)
  BY <1>3, TypeFrame
<1>4. CASE publish_keyboard_snapshot
  <2>1. UNCHANGED <<kmatrix, kman, aq, sess, kseen>> /\ klive' = kmatrix /\ KeyShapes'
    BY <1>1, <1>4 DEF publish_keyboard_snapshot, KeyShapes
  <2> QED BY <1>1, <2>1 DEF TypeKeysInv, Typing, HeldDown, NothingHeld
<1>5. CASE enqueue
  <2>1. PICK text \in Texts : aq' = [aq EXCEPT !.q = @ \o text]
    BY <1>5 DEF enqueue
  <2>2. UNCHANGED <<kmatrix, klive, kman, kframe, sess, kseen>> /\ text \in Seq(Actions)
    BY <1>5, KeyAssumption DEF enqueue
  <2>3. /\ aq' = [q |-> aq'.q, held |-> aq'.held, gap |-> aq'.gap, pause |-> aq'.pause, blocked |-> aq'.blocked]
        /\ aq'.q = aq.q \o text /\ aq'.held = aq.held /\ aq'.gap = aq.gap /\ aq'.blocked = aq.blocked
    BY <1>1, <2>1 DEF KeyShapes
  <2>4. aq'.q \in Seq(Actions)
    BY <1>1, <2>2, <2>3
  <2>5. KeyShapes'
    BY <1>1, <2>2, <2>3 DEF KeyShapes
  <2> QED BY <1>1, <2>2, <2>3, <2>4, <2>5 DEF TypeKeysInv, Typing, HeldDown, NothingHeld
<1>6. CASE autotype_resume
  <2>1. aq' = [aq EXCEPT !.blocked = FALSE] /\ aq.blocked
        /\ UNCHANGED <<kmatrix, klive, kman, kframe, sess, kseen>>
    BY <1>6 DEF autotype_resume
  <2>2. /\ aq' = [q |-> aq'.q, held |-> aq'.held, gap |-> aq'.gap, pause |-> aq'.pause, blocked |-> aq'.blocked]
        /\ aq'.q = aq.q /\ aq'.held = aq.held /\ aq'.gap = aq.gap
    BY <1>1, <2>1 DEF KeyShapes
  <2>3. KeyShapes'
    BY <1>1, <2>1, <2>2 DEF KeyShapes
  <2> QED BY <1>1, <2>1, <2>2, <2>3 DEF TypeKeysInv, Typing, HeldDown, NothingHeld
<1>7. CASE autotype_clear
  <2>1. /\ aq' = [q |-> <<>>, held |-> NoKey, gap |-> FALSE, pause |-> 0, blocked |-> FALSE]
        /\ kseen' = [kseen EXCEPT !.blind = TRUE]
        /\ UNCHANGED <<kmatrix, klive, kman, kframe, sess>>
    BY <1>7 DEF autotype_clear
  <2>2. aq' = [q |-> aq'.q, held |-> aq'.held, gap |-> aq'.gap, pause |-> aq'.pause, blocked |-> aq'.blocked]
        /\ aq'.q = <<>>
    BY <2>1
  <2>3. kseen' = [unread |-> kseen'.unread, down |-> kseen'.down, text |-> kseen'.text,
              wrong |-> kseen'.wrong, blind |-> kseen'.blind]
        /\ kseen'.blind = TRUE /\ kseen'.wrong = kseen.wrong
    BY <1>1, <2>1 DEF KeyShapes
  <2>4. KeyShapes'
    BY <1>1, <2>1, <2>2, <2>3 DEF KeyShapes
  <2> QED BY <1>1, <2>1, <2>2, <2>3, <2>4 DEF TypeKeysInv
<1> QED BY <1>2, <1>3, <1>4, <1>5, <1>6, <1>7 DEF TypeNext

-----------------------------------------------------------------------------
(* A session: what is recorded is what is played.                           *)

RowEvents == [t : {"KEY_DOWN"}, k : AllRows, down : BOOLEAN]
SessEvents == RowEvents \cup {Sync}

(* The rows after so many frames; the rows the events of a frame lead to.   *)
After(base, shown, i) == IF i = 0 THEN base ELSE shown[i]
Led(ev, a, b, from) ==
  (from \cup {ev[j].k : j \in {i \in (a + 1)..(b - 1) : ev[i].down}})
    \ {ev[j].k : j \in {i \in (a + 1)..(b - 1) : ~ev[i].down}}
FrameOf(ev, a, b, from, to) ==
  /\ a < b /\ ev[b] = Sync /\ \A j \in (a + 1)..(b - 1) : ev[j] \in RowEvents
  /\ Led(ev, a, b, from) = to

(* A tape is cut into frames, each closed by its FRAME_SYNC, that lead from  *)
(* the rows shown in one frame to those of the next.                        *)
Tape(ev, cut, base, shown) ==
  /\ cut \in [0..Len(shown) -> 0..Len(ev)] /\ cut[0] = 0 /\ cut[Len(shown)] = Len(ev)
  /\ \A i \in 0..(Len(shown) - 1) :
       FrameOf(ev, cut[i], cut[i + 1], After(base, shown, i), After(base, shown, i + 1))
Taped(ev, base, shown) == \E cut : Tape(ev, cut, base, shown)

(* A row event is no FRAME_SYNC.                                           *)
LEMMA RowIsNoSync == \A r \in RowEvents : r # Sync
BY DEF RowEvents, Sync

(* The first FRAME_SYNC, where there is one with none before it.           *)
LEMMA FirstSyncIs ==
  ASSUME NEW ev, NEW n \in Nat \ {0}, DOMAIN ev \subseteq Nat \ {0}, n \in DOMAIN ev, ev[n] = Sync,
         \A j \in 1..(n - 1) : ev[j] # Sync
  PROVE  FirstSync(ev) = n
<1> DEFINE P(i) == ev[i] = Sync /\ \A j \in 1..(i - 1) : ev[j] # Sync
<1>1. \A i \in DOMAIN ev : P(i) => i = n
  <2> TAKE i \in DOMAIN ev
  <2> HAVE P(i)
  <2>1. i < n => FALSE
    OBVIOUS
  <2>2. n < i => FALSE
    OBVIOUS
  <2> QED BY <2>1, <2>2
<1>2. P(n)
  OBVIOUS
<1> HIDE DEF P
<1>3. FirstSync(ev) = CHOOSE i \in DOMAIN ev : P(i)
  BY DEF FirstSync, P
<1> QED BY <1>1, <1>2, <1>3

(* The same events in a tape that goes on, or in a part of it, lead alike.  *)
LEMMA LedAlike ==
  ASSUME NEW ev, NEW fv, NEW a \in Int, NEW b \in Int, NEW c \in Int, NEW e \in Int, NEW from,
         b - a = e - c, \A j \in (a + 1)..(b - 1) : fv[j - a + c] = ev[j]
  PROVE  Led(fv, c, e, from) = Led(ev, a, b, from)
<1> DEFINE D(v, x, y) == {v[j].k : j \in {i \in (x + 1)..(y - 1) : v[i].down}}
           U(v, x, y) == {v[j].k : j \in {i \in (x + 1)..(y - 1) : ~v[i].down}}
<1>1. \A j \in (a + 1)..(b - 1) : j - a + c \in (c + 1)..(e - 1)
  OBVIOUS
<1>2. \A j \in (c + 1)..(e - 1) :
        j - c + a \in (a + 1)..(b - 1) /\ (j - c + a) - a + c = j
  OBVIOUS
<1>3. \A j \in (c + 1)..(e - 1) : j - c + a \in (a + 1)..(b - 1) /\ fv[j] = ev[j - c + a]
  BY <1>2
<1>4. D(fv, c, e) = D(ev, a, b)
  <2>1. ASSUME NEW x \in D(ev, a, b) PROVE x \in D(fv, c, e)
    BY <1>1, <2>1
  <2>2. ASSUME NEW x \in D(fv, c, e) PROVE x \in D(ev, a, b)
    BY <1>3, <2>2
  <2> QED BY <2>1, <2>2
<1>5. U(fv, c, e) = U(ev, a, b)
  <2>1. ASSUME NEW x \in U(ev, a, b) PROVE x \in U(fv, c, e)
    BY <1>1, <2>1
  <2>2. ASSUME NEW x \in U(fv, c, e) PROVE x \in U(ev, a, b)
    BY <1>3, <2>2
  <2> QED BY <2>1, <2>2
<1> QED BY <1>4, <1>5 DEF Led

(* Recording one frame more.                                                *)
LEMMA TapeGrows ==
  ASSUME NEW ev \in Seq(SessEvents), NEW base, NEW shown \in Seq(SUBSET AllRows),
         Taped(ev, base, shown), NEW rows \in Seq(RowEvents), NEW mm \in SUBSET AllRows,
         Led(rows, 0, Len(rows) + 1, After(base, shown, Len(shown))) = mm
  PROVE  Taped(ev \o rows \o <<Sync>>, base, Append(shown, mm))
<1> DEFINE n == Len(shown)
           l == Len(ev)
           k == Len(rows)
           fv == ev \o rows \o <<Sync>>
           now == Append(shown, mm)
<1>1. PICK cut : Tape(ev, cut, base, shown)
  BY DEF Taped
<1>2. n \in Nat /\ l \in Nat /\ k \in Nat /\ rows \in Seq(SessEvents) /\ Sync \in SessEvents
  BY DEF SessEvents
<1>3. /\ Len(fv) = l + k + 1 /\ fv[l + k + 1] = Sync
      /\ \A j \in 1..l : fv[j] = ev[j]
      /\ \A j \in 1..k : fv[l + j] = rows[j]
  BY <1>2
<1>4. Len(now) = n + 1 /\ now[n + 1] = mm /\ \A j \in 1..n : now[j] = shown[j]
  OBVIOUS
<1> HIDE DEF fv, now, n, l, k
<1> DEFINE cut2 == [i \in 0..(n + 1) |-> IF i = n + 1 THEN l + k + 1 ELSE cut[i]]
<1>5. cut \in [0..n -> 0..l] /\ cut[0] = 0 /\ cut[n] = l
      /\ \A i \in 0..(n - 1) : FrameOf(ev, cut[i], cut[i + 1], After(base, shown, i), After(base, shown, i + 1))
  BY <1>1 DEF Tape, n, l
<1>6. cut2 \in [0..Len(now) -> 0..Len(fv)] /\ cut2[0] = 0 /\ cut2[Len(now)] = Len(fv)
  BY <1>2, <1>3, <1>4, <1>5
<1>7. /\ \A i \in 0..n : After(base, now, i) = After(base, shown, i)
      /\ After(base, now, n + 1) = mm
  BY <1>2, <1>4 DEF After
<1>8. ASSUME NEW i \in 0..n
      PROVE  FrameOf(fv, cut2[i], cut2[i + 1], After(base, now, i), After(base, now, i + 1))
  <2>1. CASE i < n
    <3>1. cut2[i] = cut[i] /\ cut2[i + 1] = cut[i + 1] /\ cut[i] \in 0..l /\ cut[i + 1] \in 0..l
          /\ i + 1 \in 0..n /\ i \in 0..(n - 1)
      BY <1>2, <1>5, <2>1
    <3>2. FrameOf(ev, cut[i], cut[i + 1], After(base, now, i), After(base, now, i + 1))
      BY <1>5, <1>7, <3>1
    <3> DEFINE a == cut[i]
               b == cut[i + 1]
    <3>3. a \in 0..l /\ b \in 0..l /\ FrameOf(ev, a, b, After(base, now, i), After(base, now, i + 1))
      BY <3>1, <3>2
    <3> HIDE DEF a, b, cut2
    <3>4. a < b /\ b \in 1..l /\ (\A j \in (a + 1)..(b - 1) : j \in 1..l /\ j - a + a = j)
      BY <1>2, <3>3 DEF FrameOf
    <3>5. \A j \in (a + 1)..(b - 1) : fv[j - a + a] = ev[j] /\ fv[j] = ev[j]
      BY <1>3, <3>4
    <3>6. a \in Int /\ b \in Int
      BY <1>2, <3>3
    <3>7. Led(fv, a, b, After(base, now, i)) = Led(ev, a, b, After(base, now, i))
      BY <3>5, <3>6, LedAlike
    <3>8. FrameOf(fv, a, b, After(base, now, i), After(base, now, i + 1))
      BY <1>3, <3>3, <3>4, <3>5, <3>6, <3>7 DEF FrameOf
    <3> QED BY <3>1, <3>8 DEF a, b
  <2>2. CASE i = n
    <3>1. cut2[i] = l /\ cut2[i + 1] = l + k + 1
      BY <1>2, <1>5, <2>2
    <3> HIDE DEF cut2
    <3>2. \A j \in (l + 1)..((l + k + 1) - 1) :
            j - l \in 1..k /\ l + (j - l) = j /\ j - l + 0 = j - l
      BY <1>2
    <3>3. \A j \in (l + 1)..((l + k + 1) - 1) : rows[j - l + 0] = fv[j] /\ rows[j - l] = fv[j]
      BY <1>3, <3>2
    <3>4. l \in Int /\ l + k + 1 \in Int /\ k + 1 \in Int /\ (l + k + 1) - l = (k + 1) - 0
      BY <1>2
    <3>5. l < l + k + 1 /\ i + 1 = n + 1
      BY <1>2, <2>2
    <3>6. Led(fv, l, l + k + 1, After(base, shown, n)) = mm
      <4>1. Led(rows, 0, k + 1, After(base, shown, n)) = Led(fv, l, l + k + 1, After(base, shown, n))
        BY <3>3, <3>4, LedAlike
      <4> QED BY <4>1 DEF n, k
    <3>7. \A j \in (l + 1)..((l + k + 1) - 1) : fv[j] \in RowEvents
      <4>1. \A j \in 1..k : rows[j] \in RowEvents
        BY DEF k
      <4> QED BY <3>2, <3>3, <4>1
    <3>8. After(base, now, i) = After(base, shown, n) /\ After(base, now, i + 1) = mm
      BY <1>2, <1>7, <2>2
    <3> QED BY <1>3, <3>1, <3>5, <3>6, <3>7, <3>8 DEF FrameOf
  <2> QED BY <1>2, <2>1, <2>2
<1>9. \A i \in 0..(Len(now) - 1) :
        FrameOf(fv, cut2[i], cut2[i + 1], After(base, now, i), After(base, now, i + 1))
  <2>1. \A i \in 0..(Len(now) - 1) : i \in 0..n
    BY <1>2, <1>4
  <2> HIDE DEF cut2
  <2> QED BY <1>8, <2>1
<1> HIDE DEF cut2
<1>10. Tape(fv, cut2, base, now)
  BY <1>6, <1>9 DEF Tape
<1> QED BY <1>10 DEF Taped, fv, now

From(s, a) == SubSeq(s, a + 1, Len(s))

(* What is left of a tape after its first events.                          *)
LEMMA PartOf ==
  ASSUME NEW s \in Seq(SessEvents), NEW a \in 0..Len(s), NEW p, p = From(s, a)
  PROVE  p \in Seq(SessEvents) /\ Len(p) = Len(s) - a /\ \A j \in 1..(Len(s) - a) : p[j] = s[a + j]
<1>1. Len(s) \in Nat /\ a + 1 \in Int /\ \A i \in (a + 1)..Len(s) : s[i] \in SessEvents
  OBVIOUS
<1>2. p \in Seq(SessEvents) /\ Len(p) = Len(s) - a
  BY <1>1 DEF From
<1>3. ASSUME NEW j \in 1..(Len(s) - a) PROVE p[j] = s[a + j]
  BY <1>1 DEF From
<1> QED BY <1>2, <1>3

(* Tapes with the same events are the same.                                *)
LEMMA SameSeq ==
  ASSUME NEW p \in Seq(SessEvents), NEW q \in Seq(SessEvents), Len(p) = Len(q),
         \A j \in 1..Len(p) : p[j] = q[j]
  PROVE  p = q
OBVIOUS

(* A tape without events is empty.                                         *)
LEMMA EmptySeqIs == ASSUME NEW p \in Seq(SessEvents) PROVE p = <<>> <=> Len(p) = 0
OBVIOUS

(* A part of a tape begins with its first frame.                            *)
LEMMA FirstFrame ==
  ASSUME NEW ev \in Seq(SessEvents), NEW l \in Nat, l = Len(ev), NEW a \in Nat, NEW b \in Nat,
         b <= l, NEW from, NEW to, FrameOf(ev, a, b, from, to),
         NEW part, part = From(ev, a),
         NEW f, f = FirstSync(part),
         NEW p, p = From(part, f),
         NEW q, q = From(ev, b)
  PROVE  /\ part \in Seq(SessEvents) /\ f \in 1..Len(part)
         /\ \A j \in 1..(f - 1) : part[j] \in RowEvents
         /\ Led(part, 0, f, from) = to
         /\ p = q /\ (p = <<>> <=> b = l)
<1>1. a < b /\ ev[b] = Sync /\ (\A j \in (a + 1)..(b - 1) : ev[j] \in RowEvents)
      /\ Led(ev, a, b, from) = to
  BY DEF FrameOf
<1>2. part \in Seq(SessEvents) /\ Len(part) = l - a /\ \A j \in 1..(l - a) : part[j] = ev[a + j]
  <2>1. a \in 0..Len(ev)
    BY <1>1
  <2> QED BY <2>1, PartOf
<1>3. PICK k \in Nat : k = b - a /\ k >= 1 /\ k <= l - a /\ a + k = b /\ (l - a) - k = l - b
  <2>1. b - a \in Nat /\ b - a >= 1 /\ b - a <= l - a /\ a + (b - a) = b
        /\ (l - a) - (b - a) = l - b
    BY <1>1
  <2> QED BY <2>1
<1>4. part[k] = Sync
  BY <1>1, <1>2, <1>3
<1>5. \A j \in 1..(k - 1) : part[j] \in RowEvents
  <2>1. \A j \in 1..(k - 1) : a + j \in (a + 1)..(b - 1) /\ j \in 1..(l - a)
    BY <1>3
  <2> QED BY <1>1, <1>2, <2>1
<1>6. f = k
  <2>1. \A j \in 1..(k - 1) : part[j] # Sync
    BY <1>5, RowIsNoSync
  <2>2. DOMAIN part \subseteq Nat \ {0} /\ k \in DOMAIN part /\ k \in Nat \ {0}
    BY <1>2, <1>3
  <2> QED BY <1>4, <2>1, <2>2, FirstSyncIs
<1>7. Led(part, 0, k, from) = to
  <2>1. \A j \in (a + 1)..(b - 1) : j - a \in 1..(l - a) /\ a + (j - a) = j /\ j - a + 0 = j - a
    BY <1>3
  <2>2. \A j \in (a + 1)..(b - 1) : part[j - a + 0] = ev[j]
    BY <1>2, <2>1
  <2>3. a \in Int /\ b \in Int /\ k \in Int /\ 0 \in Int /\ b - a = k - 0
    BY <1>3
  <2>4. Led(part, 0, k, from) = Led(ev, a, b, from)
    BY <2>2, <2>3, LedAlike
  <2> QED BY <1>1, <2>4
<1>8. p \in Seq(SessEvents) /\ Len(p) = l - b /\ \A j \in 1..(l - b) : p[j] = part[k + j]
  <2>1. k \in 0..Len(part) /\ p = From(part, k)
    BY <1>2, <1>3, <1>6
  <2>2. /\ p \in Seq(SessEvents) /\ Len(p) = Len(part) - k
        /\ \A j \in 1..(Len(part) - k) : p[j] = part[k + j]
    BY <1>2, <2>1, PartOf
  <2>3. Len(part) - k = l - b
    BY <1>2, <1>3
  <2> QED BY <2>2, <2>3
<1>9. q \in Seq(SessEvents) /\ Len(q) = l - b /\ \A j \in 1..(l - b) : q[j] = ev[b + j]
  <2>1. b \in 0..Len(ev)
    OBVIOUS
  <2> QED BY <2>1, PartOf
<1>10. p = q
  <2>1. ASSUME NEW j \in 1..(l - b) PROVE p[j] = q[j]
    <3>1. k + j \in 1..(l - a) /\ a + (k + j) = b + j
      BY <1>3
    <3>2. part[k + j] = ev[a + (k + j)]
      BY <1>2, <3>1
    <3> QED BY <1>8, <1>9, <3>1, <3>2
  <2> QED BY <1>8, <1>9, <2>1, SameSeq
<1>11. p = <<>> <=> b = l
  <2>1. p = <<>> <=> Len(p) = 0
    BY <1>8, EmptySeqIs
  <2> QED BY <1>8, <2>1
<1> QED BY <1>2, <1>3, <1>5, <1>6, <1>7, <1>10, <1>11

(* The first frame of a part, and what the part goes on with.               *)
Plays(file, cut, base, shown, at, part, f, p) ==
  /\ part \in Seq(SessEvents) /\ f \in 1..Len(part)
  /\ \A j \in 1..(f - 1) : part[j] \in RowEvents
  /\ Led(part, 0, f, After(base, shown, at)) = After(base, shown, at + 1)
  /\ p = From(file, cut[at + 1])
  /\ p = <<>> <=> at + 1 = Len(shown)

(* What is left to play begins with the frame that is shown next           *)
(* (advance_frame).                                                        *)
LEMMA TapePlays ==
  ASSUME NEW ev \in Seq(SessEvents), NEW base, NEW shown \in Seq(SUBSET AllRows), NEW cut,
         Tape(ev, cut, base, shown), NEW at \in Nat, at < Len(shown),
         NEW part, part = From(ev, cut[at]),
         NEW f, f = FirstSync(part), NEW p, p = From(part, f)
  PROVE  Plays(ev, cut, base, shown, at, part, f, p)
<1>1. PICK n \in Nat, l \in Nat : n = Len(shown) /\ l = Len(ev)
  OBVIOUS
<1>2. /\ cut \in [0..n -> 0..l] /\ cut[n] = l
      /\ \A i \in 0..(n - 1) :
           FrameOf(ev, cut[i], cut[i + 1], After(base, shown, i), After(base, shown, i + 1))
  BY <1>1 DEF Tape
<1>3. at \in 0..n /\ at + 1 \in 0..n /\ at \in 0..(n - 1)
  BY <1>1
<1>4. PICK a \in Nat, b \in Nat : a = cut[at] /\ b = cut[at + 1] /\ b <= l
  <2>1. cut[at] \in 0..l /\ cut[at + 1] \in 0..l
    BY <1>2, <1>3
  <2>2. cut[at] \in Nat /\ cut[at + 1] \in Nat /\ cut[at + 1] <= l
    BY <1>1, <2>1
  <2> QED BY <2>2
<1>5. FrameOf(ev, a, b, After(base, shown, at), After(base, shown, at + 1))
  BY <1>2, <1>3, <1>4
<1>6. b = l <=> at + 1 = n
  <2>1. at + 1 = n => b = l
    BY <1>2, <1>4
  <2>2. ASSUME at + 1 # n PROVE b < l
    <3>1. at + 1 \in 0..(n - 1) /\ (at + 1) + 1 \in 0..n
      BY <1>1, <2>2
    <3>2. FrameOf(ev, cut[at + 1], cut[(at + 1) + 1], After(base, shown, at + 1), After(base, shown, (at + 1) + 1))
      BY <1>2, <3>1
    <3>3. cut[at + 1] < cut[(at + 1) + 1] /\ cut[(at + 1) + 1] \in 0..l
      BY <1>2, <3>1, <3>2 DEF FrameOf
    <3> QED BY <1>1, <1>4, <3>3
  <2> QED BY <1>1, <2>1, <2>2
<1>7. /\ part \in Seq(SessEvents) /\ f \in 1..Len(part)
      /\ \A j \in 1..(f - 1) : part[j] \in RowEvents
      /\ Led(part, 0, f, After(base, shown, at)) = After(base, shown, at + 1)
      /\ p = From(ev, b) /\ (p = <<>> <=> b = l)
  <2>1. part = From(ev, a)
    BY <1>4
  <2> QED BY <1>1, <1>4, <1>5, <2>1, FirstFrame
<1> QED BY <1>1, <1>4, <1>6, <1>7 DEF Plays

(* The rows of a recorded frame, in any order, lead from the last to the new. *)
LEMMA SetToRowsIs ==
  ASSUME NEW s, IsFiniteSet(s)
  PROVE  /\ SetToRows(s) \in [1..Cardinality(s) -> s] /\ Cardinality(s) \in Nat
         /\ \A k \in s : \E i \in 1..Cardinality(s) : SetToRows(s)[i] = k
<1>1. Cardinality(s) \in Nat /\ ExistsBijection(1..Cardinality(s), s)
  BY FS_CardinalityType
<1>2. PICK f : f \in Bijection(1..Cardinality(s), s)
  BY <1>1 DEF ExistsBijection
<1>3. f \in [1..Cardinality(s) -> s] /\ \A k \in s : \E i \in 1..Cardinality(s) : f[i] = k
  BY <1>2 DEF Bijection, Surjection, Injection
<1> QED BY <1>1, <1>3 DEF SetToRows

RowsOf(keys, mm) == [i \in DOMAIN keys |-> Row(keys[i], keys[i] \in mm)]

(* A function on 1..n is a sequence of rows.                               *)
LEMMA IsRowSeq ==
  ASSUME NEW n \in Nat, NEW r \in [1..n -> RowEvents]
  PROVE  r \in Seq(RowEvents) /\ Len(r) = n /\ (n = 0 => r = <<>>)
OBVIOUS

Differ(mm, prev) == (mm \ prev) \cup (prev \ mm)

(* The rows recorded for a frame lead from the rows seen last to the new   *)
(* ones (record_frame).                                                    *)
LEMMA RowsRecorded ==
  ASSUME NEW mm \in SUBSET AllRows, NEW prev \in SUBSET AllRows,
         NEW s, s = Differ(mm, prev),
         NEW keys, keys = SetToRows(s), NEW rows, rows = RowsOf(keys, mm)
  PROVE  /\ rows \in Seq(RowEvents) /\ Led(rows, 0, Len(rows) + 1, prev) = mm
         /\ mm = prev => rows = <<>>
<1>1. s = (mm \ prev) \cup (prev \ mm)
  BY DEF Differ
<1>2. IsFiniteSet(s)
  <2>1. IsFiniteSet(Keys \cup {SHIFT})
    <3>1. IsFiniteSet(Keys)
      BY KeyAssumption
    <3> QED BY <3>1, FS_AddElement
  <2>2. s \in SUBSET (Keys \cup {SHIFT})
    BY <1>1 DEF AllRows
  <2> QED BY <2>1, <2>2, FS_Subset
<1>3. PICK n \in Nat : /\ n = Cardinality(s) /\ keys \in [1..n -> s]
                       /\ \A k \in s : \E i \in 1..n : keys[i] = k
  <2>1. /\ keys \in [1..Cardinality(s) -> s] /\ Cardinality(s) \in Nat
        /\ \A k \in s : \E i \in 1..Cardinality(s) : keys[i] = k
    BY <1>2, SetToRowsIs, Zenon
  <2> QED BY <2>1
<1>4. \A i \in 1..n : keys[i] \in s /\ keys[i] \in AllRows /\ rows[i] = Row(keys[i], keys[i] \in mm)
  BY <1>1, <1>3, Zenon DEF RowsOf
<1>5. \A i \in 1..n : rows[i] \in RowEvents /\ rows[i].k = keys[i] /\ rows[i].down = (keys[i] \in mm)
  <2> TAKE i \in 1..n
  <2>1. PICK b \in BOOLEAN : b = (keys[i] \in mm)
    <3>1. (keys[i] \in mm) \in BOOLEAN
      OBVIOUS
    <3> QED BY <3>1, Zenon
  <2>2. rows[i] = [t |-> "KEY_DOWN", k |-> keys[i], down |-> b]
    BY <1>4, <2>1, Zenon DEF Row
  <2>3. rows[i].k = keys[i] /\ rows[i].down = b
    BY <2>2
  <2>4. rows[i] \in RowEvents
    <3>1. \A x \in AllRows : [t |-> "KEY_DOWN", k |-> x, down |-> b] \in RowEvents
      BY DEF RowEvents
    <3> QED BY <1>4, <2>2, <3>1
  <2> QED BY <2>1, <2>3, <2>4
<1>6. rows \in Seq(RowEvents) /\ Len(rows) = n /\ (n = 0 => rows = <<>>)
  <2>1. DOMAIN rows = 1..n /\ rows = [i \in 1..n |-> rows[i]]
    BY <1>3 DEF RowsOf
  <2>2. rows \in [1..n -> RowEvents]
    BY <1>5, <2>1
  <2> QED BY <2>2, IsRowSeq
<1>7. Led(rows, 0, n + 1, prev) = mm
  <2>1. (0 + 1)..((n + 1) - 1) = 1..n
    OBVIOUS
  <2> DEFINE D == {rows[j].k : j \in {i \in 1..n : rows[i].down}}
             U == {rows[j].k : j \in {i \in 1..n : ~rows[i].down}}
  <2>2. D = mm \ prev
    <3>1. ASSUME NEW x \in D PROVE x \in mm \ prev
      <4>1. PICK j \in 1..n : rows[j].down /\ x = rows[j].k
        OBVIOUS
      <4> QED BY <1>1, <1>4, <1>5, <4>1
    <3>2. ASSUME NEW x \in mm \ prev PROVE x \in D
      <4>1. PICK j \in 1..n : keys[j] = x
        BY <1>1, <1>3
      <4> QED BY <1>5, <4>1
    <3> QED BY <3>1, <3>2
  <2>3. U = prev \ mm
    <3>1. ASSUME NEW x \in U PROVE x \in prev \ mm
      <4>1. PICK j \in 1..n : ~rows[j].down /\ x = rows[j].k
        OBVIOUS
      <4> QED BY <1>1, <1>4, <1>5, <4>1
    <3>2. ASSUME NEW x \in prev \ mm PROVE x \in U
      <4>1. PICK j \in 1..n : keys[j] = x
        BY <1>1, <1>3
      <4> QED BY <1>5, <4>1
    <3> QED BY <3>1, <3>2
  <2> HIDE DEF D, U
  <2>4. Led(rows, 0, n + 1, prev) = (prev \cup D) \ U
    BY <2>1 DEF Led, D, U
  <2> QED BY <2>2, <2>3, <2>4
<1>8. mm = prev => rows = <<>>
  <2>1. mm = prev => s = {}
    BY <1>1
  <2>2. s = {} => n = 0
    <3>1. n # 0 => 1 \in 1..n
      BY <1>3
    <3>2. \A i \in 1..n : keys[i] \in s
      BY <1>4
    <3> QED BY <3>1, <3>2
  <2> QED BY <1>6, <2>1, <2>2
<1> QED BY <1>6, <1>7, <1>8

SessTyped ==
  /\ KeyShapes /\ kman.mode = "Direct" /\ kman.needs = {} /\ kman.pending = {} /\ ~is_active
  /\ kmatrix \subseteq AllRows /\ sess.prev \subseteq AllRows
  /\ sess.events \in Seq(SessEvents) /\ sess.file \in Seq(SessEvents)
  /\ sess.shown \in Seq(SUBSET AllRows) /\ sess.at \in Nat
  /\ sess.state \in {"IDLE", "RECORDING", "PLAYING"}

(* The tape that is being written ends with the rows seen last; the one that *)
(* is played goes on with the frame that follows those shown.                *)
OnTape ==
  /\ sess.state # "RECORDING" => Taped(sess.file, sess.base, sess.shown)
  /\ sess.state = "RECORDING" =>
       /\ Taped(sess.events, sess.base, sess.shown)
       /\ sess.prev = After(sess.base, sess.shown, Len(sess.shown))
  /\ sess.state = "PLAYING" =>
       /\ sess.at < Len(sess.shown)
       /\ \E cut : /\ Tape(sess.file, cut, sess.base, sess.shown)
                   /\ sess.events = From(sess.file, cut[sess.at])
       /\ sess.clean => kmatrix = After(sess.base, sess.shown, sess.at)

(* While no key has been pressed, none is down, on the tape either.         *)
NoneDown(ev) == \A j \in 1..Len(ev) : ~ev[j].down
QuietTape ==
  ~kseen.blind => sess.prev = {} /\ NoneDown(sess.events) /\ NoneDown(sess.file)

SessInv == SessTyped /\ OnTape /\ Untouched /\ QuietTape

(* With no text and no release put off, a frame only records or plays.     *)
LEMMA FrameStill ==
  ASSUME NEW rows, FrameComplete(rows), SessTyped
  PROVE  /\ kframe.on /\ UNCHANGED <<klive, aq>>
         /\ kmatrix' = MatrixAfter(kmatrix) /\ sess' = SessAfter(kmatrix)
         /\ kman'.mode = "Direct" /\ kman'.needs = {} /\ kman'.pending = {}
         /\ kseen'.wrong = (kseen.wrong \/ (~kseen.blind /\ ~Fine(rows)))
         /\ kseen'.blind = kseen.blind
         /\ (kseen.blind \/ kseen.text = <<>>) => kseen'.text = <<>>
         /\ KeyShapes'
<1> DEFINE u == Updated(rows)
<1>1. KeyShapes /\ kman.mode = "Direct" /\ kman.needs = {} /\ kman.pending = {} /\ ~is_active
  BY DEF SessTyped
<1>2. u.m = kmatrix /\ u.k.mode = kman.mode /\ u.k.needs = {} /\ u.k.pending = {}
  BY <1>1 DEF Updated, update, NeedsAfter, notify_scanned, KeyShapes
<1> HIDE DEF u
<1>3. /\ kframe.on /\ UNCHANGED <<klive, aq>>
      /\ kmatrix' = MatrixAfter(u.m) /\ kman' = u.k /\ sess' = SessAfter(u.m)
      /\ kseen'.wrong = (kseen.wrong \/ (~kseen.blind /\ ~Fine(rows)))
      /\ kseen'.blind = kseen.blind
      /\ (kseen.blind \/ kseen.text = <<>>) => kseen'.text = <<>>
      /\ KeyShapes'
  BY <1>1, CalmFrame DEF u
<1> QED BY <1>1, <1>2, <1>3

(* What a played frame leaves in the matrix is what its events lead to.     *)
LEMMA PlayedIsLed ==
  ASSUME NEW m, NEW ev, ev = sess.events, NEW f \in Nat, f = FirstSync(ev)
  PROVE  played_rows(m) = Led(ev, 0, f, m)
<1> DEFINE rows == {ev[i] : i \in 1..(f - 1)}
           D == {r.k : r \in {x \in rows : x.down}}
           U == {r.k : r \in {x \in rows : ~x.down}}
<1>1. played_rows(m) = (m \cup D) \ U
  BY DEF played_rows
<1>2. (0 + 1)..(f - 1) = 1..(f - 1)
  OBVIOUS
<1> DEFINE E == {ev[j].k : j \in {i \in 1..(f - 1) : ev[i].down}}
           V == {ev[j].k : j \in {i \in 1..(f - 1) : ~ev[i].down}}
<1>3. Led(ev, 0, f, m) = (m \cup E) \ V
  BY <1>2 DEF Led
<1>4. D = E
  OBVIOUS
<1>5. U = V
  OBVIOUS
<1> HIDE DEF D, U, E, V
<1> QED BY <1>1, <1>3, <1>4, <1>5

(* Events of a tape lead to rows of the keyboard.                          *)
LEMMA LedInside ==
  ASSUME NEW ev, NEW f \in Nat, NEW from \in SUBSET AllRows, \A j \in 1..(f - 1) : ev[j] \in RowEvents
  PROVE  Led(ev, 0, f, from) \subseteq AllRows
<1>1. (0 + 1)..(f - 1) = 1..(f - 1)
  OBVIOUS
<1>2. \A j \in 1..(f - 1) : ev[j].k \in AllRows
  BY DEF RowEvents
<1> QED BY <1>1, <1>2 DEF Led

(* Events that press nothing lead from no key to none.                     *)
LEMMA LedNowhere ==
  ASSUME NEW ev, NEW f \in Nat, \A j \in 1..(f - 1) : ~ev[j].down
  PROVE  Led(ev, 0, f, {}) = {}
<1>1. (0 + 1)..(f - 1) = 1..(f - 1)
  OBVIOUS
<1> QED BY <1>1 DEF Led

(* What is left of a tape without presses has none.                        *)
LEMMA RestQuiet ==
  ASSUME NEW ev \in Seq(SessEvents), NoneDown(ev), NEW a \in 0..Len(ev), NEW p, p = From(ev, a)
  PROVE  NoneDown(p)
<1>1. Len(p) = Len(ev) - a /\ \A j \in 1..(Len(ev) - a) : p[j] = ev[a + j]
  BY PartOf
<1>2. \A j \in 1..(Len(ev) - a) : a + j \in 1..Len(ev)
  OBVIOUS
<1> QED BY <1>1, <1>2 DEF NoneDown

(* A played frame shows the rows of the recording and goes on to the next  *)
(* (played_rows, advance_frame).                                           *)
LEMMA PlayFrame ==
  ASSUME SessInv, NEW rows, FrameComplete(rows), sess.state = "PLAYING"
  PROVE  SessInv'
<1>1. SessTyped /\ OnTape /\ Untouched /\ QuietTape
  BY DEF SessInv
<1>2. PICK cut : /\ Tape(sess.file, cut, sess.base, sess.shown)
                 /\ sess.events = From(sess.file, cut[sess.at])
  BY <1>1 DEF OnTape
<1>3. PICK ev, f, p : ev = sess.events /\ f = FirstSync(ev) /\ p = From(ev, f)
  OBVIOUS
<1>4. /\ sess.file \in Seq(SessEvents) /\ sess.shown \in Seq(SUBSET AllRows) /\ sess.at \in Nat
      /\ sess.at < Len(sess.shown) /\ ev = From(sess.file, cut[sess.at])
  BY <1>1, <1>2, <1>3 DEF SessTyped, OnTape
<1>5. /\ ev \in Seq(SessEvents) /\ f \in 1..Len(ev)
      /\ \A j \in 1..(f - 1) : ev[j] \in RowEvents
      /\ Led(ev, 0, f, After(sess.base, sess.shown, sess.at)) = After(sess.base, sess.shown, sess.at + 1)
      /\ p = From(sess.file, cut[sess.at + 1])
      /\ (p = <<>> <=> sess.at + 1 = Len(sess.shown))
  <2>0. PICK base : base = sess.base
    OBVIOUS
  <2>1. PICK file \in Seq(SessEvents), shown \in Seq(SUBSET AllRows), at \in Nat :
          file = sess.file /\ shown = sess.shown /\ at = sess.at
    BY <1>4
  <2>2. Tape(file, cut, base, shown) /\ at < Len(shown) /\ ev = From(file, cut[at])
        /\ f = FirstSync(ev) /\ p = From(ev, f)
    BY <1>2, <1>3, <1>4, <2>0, <2>1
  <2>3. Plays(file, cut, base, shown, at, ev, f, p)
    BY <2>2, TapePlays
  <2>4. Plays(sess.file, cut, sess.base, sess.shown, sess.at, ev, f, p)
    BY <2>0, <2>1, <2>3
  <2> QED BY <2>4 DEF Plays
<1>6. f \in Nat /\ f \in 0..Len(ev) /\ p \in Seq(SessEvents)
  <2>1. f \in Nat /\ f \in 0..Len(ev) /\ p = From(ev, f)
    BY <1>3, <1>5
  <2> QED BY <1>5, <2>1, PartOf
<1>7. /\ UNCHANGED <<klive, aq>> /\ kmatrix' = Led(ev, 0, f, kmatrix) /\ sess' = advance_frame
      /\ kman'.mode = "Direct" /\ kman'.needs = {} /\ kman'.pending = {}
      /\ kseen'.wrong = (kseen.wrong \/ (~kseen.blind /\ ~Fine(rows)))
      /\ kseen'.blind = kseen.blind
      /\ (kseen.blind \/ kseen.text = <<>>) => kseen'.text = <<>>
      /\ KeyShapes'
  <2>1. MatrixAfter(kmatrix) = Led(ev, 0, f, kmatrix)
    BY <1>3, <1>6, PlayedIsLed DEF MatrixAfter
  <2>2. SessAfter(kmatrix) = advance_frame
    BY DEF SessAfter
  <2> QED BY <1>1, <2>1, <2>2, FrameStill
<1>8. sess' = IF p = <<>> THEN [sess EXCEPT !.state = "IDLE", !.events = <<>>, !.at = @ + 1]
                          ELSE [sess EXCEPT !.events = p, !.at = @ + 1]
  BY <1>3, <1>7 DEF advance_frame, From
<1>9. /\ sess'.state = (IF p = <<>> THEN "IDLE" ELSE "PLAYING") /\ sess'.events = p
      /\ sess'.file = sess.file /\ sess'.prev = sess.prev /\ sess'.base = sess.base
      /\ sess'.shown = sess.shown /\ sess'.at = sess.at + 1 /\ sess'.clean = sess.clean
  <2>1. sess = [state |-> sess.state, events |-> sess.events, file |-> sess.file, prev |-> sess.prev,
             base |-> sess.base, shown |-> sess.shown, at |-> sess.at, clean |-> sess.clean]
    BY <1>1 DEF SessTyped, KeyShapes
  <2>2. CASE p = <<>>
    BY <1>8, <2>1, <2>2
  <2>3. CASE p # <<>>
    BY <1>8, <2>1, <2>3
  <2> QED BY <2>2, <2>3
<1>10. kmatrix' \subseteq AllRows
  <2>1. kmatrix \in SUBSET AllRows
    BY <1>1 DEF SessTyped
  <2> QED BY <1>5, <1>6, <1>7, <2>1, LedInside
<1>11. SessTyped'
  <2>1. ~is_active'
    BY <1>1, <1>7 DEF SessTyped, is_active
  <2> QED BY <1>1, <1>6, <1>7, <1>9, <1>10, <2>1 DEF SessTyped
<1>12. OnTape'
  <2>1. sess.clean => kmatrix = After(sess.base, sess.shown, sess.at)
    BY <1>1 DEF OnTape
  <2>2. sess'.clean => kmatrix' = After(sess'.base, sess'.shown, sess'.at)
    BY <1>5, <1>7, <1>9, <2>1
  <2>3. Taped(sess'.file, sess'.base, sess'.shown)
    BY <1>2, <1>9 DEF Taped
  <2>4. sess'.state = "PLAYING" => sess'.at < Len(sess'.shown)
    <3>1. p # <<>> => sess.at + 1 < Len(sess.shown)
      BY <1>4, <1>5
    <3> QED BY <1>9, <3>1
  <2>5. Tape(sess'.file, cut, sess'.base, sess'.shown) /\ sess'.events = From(sess'.file, cut[sess'.at])
    BY <1>2, <1>5, <1>9
  <2> QED BY <1>9, <2>2, <2>3, <2>4, <2>5 DEF OnTape
<1>13. ASSUME ~kseen'.blind PROVE /\ kmatrix' = {} /\ klive' = {} /\ kseen'.text = <<>> /\ ~kseen'.wrong
                                  /\ sess'.prev = {} /\ NoneDown(sess'.events) /\ NoneDown(sess'.file)
  <2>1. ~kseen.blind /\ kmatrix = {} /\ klive = {} /\ kseen.text = <<>> /\ ~kseen.wrong
        /\ sess.prev = {} /\ NoneDown(ev) /\ NoneDown(sess.file)
    BY <1>1, <1>3, <1>7, <1>13 DEF Untouched, QuietTape
  <2>2. Fine(rows)
    BY <2>1 DEF Fine, Edge
  <2>3. kmatrix' = {}
    <3>1. \A j \in 1..(f - 1) : j \in 1..Len(ev)
      BY <1>5
    <3>2. \A j \in 1..(f - 1) : ~ev[j].down
      BY <2>1, <3>1 DEF NoneDown
    <3> QED BY <1>6, <1>7, <2>1, <3>2, LedNowhere
  <2>4. NoneDown(p)
    BY <1>3, <1>5, <1>6, <2>1, RestQuiet
  <2> QED BY <1>7, <1>9, <2>1, <2>2, <2>3, <2>4
<1> QED BY <1>11, <1>12, <1>13 DEF SessInv, Untouched, QuietTape

(* A recorded frame is appended as rows and a FRAME_SYNC.                  *)
LEMMA Joined ==
  ASSUME NEW ev \in Seq(SessEvents), NEW rows \in Seq(RowEvents)
  PROVE  /\ ev \o rows \o <<Sync>> \in Seq(SessEvents)
         /\ NoneDown(ev) /\ rows = <<>> => NoneDown(ev \o rows \o <<Sync>>)
<1>1. rows \in Seq(SessEvents) /\ <<Sync>> \in Seq(SessEvents) /\ Sync.down = FALSE
  BY DEF SessEvents, Sync
<1>2. ev \o rows \o <<Sync>> \in Seq(SessEvents)
  BY <1>1
<1>3. ASSUME NoneDown(ev), rows = <<>> PROVE NoneDown(ev \o rows \o <<Sync>>)
  <2>1. PICK fv : fv = ev \o rows \o <<Sync>>
    OBVIOUS
  <2>2. Len(fv) = Len(ev) + 1 /\ fv[Len(ev) + 1] = Sync /\ \A j \in 1..Len(ev) : fv[j] = ev[j]
    BY <1>1, <1>3, <2>1
  <2>3. \A j \in 1..Len(fv) : j \in 1..Len(ev) \/ j = Len(ev) + 1
    BY <2>2
  <2>4. NoneDown(fv)
    BY <1>1, <1>3, <2>2, <2>3 DEF NoneDown
  <2> QED BY <2>1, <2>4
<1> QED BY <1>2, <1>3

(* A recorded frame is one more frame on the tape (record_frame).          *)
LEMMA RecordFrame ==
  ASSUME SessInv, NEW rows, FrameComplete(rows), sess.state = "RECORDING"
  PROVE  SessInv'
<1>1. SessTyped /\ OnTape /\ Untouched /\ QuietTape
  BY DEF SessInv
<1>2. /\ UNCHANGED <<klive, aq, kmatrix>> /\ sess' = Recorded(kmatrix)
      /\ kman'.mode = "Direct" /\ kman'.needs = {} /\ kman'.pending = {}
      /\ kseen'.wrong = (kseen.wrong \/ (~kseen.blind /\ ~Fine(rows)))
      /\ kseen'.blind = kseen.blind
      /\ (kseen.blind \/ kseen.text = <<>>) => kseen'.text = <<>>
      /\ KeyShapes'
  <2>1. MatrixAfter(kmatrix) = kmatrix /\ SessAfter(kmatrix) = Recorded(kmatrix)
    BY DEF MatrixAfter, SessAfter
  <2> QED BY <1>1, <2>1, FrameStill
<1>3. PICK mm, prev, s, keys : /\ mm = kmatrix /\ prev = sess.prev
                               /\ s = Differ(mm, prev) /\ keys = SetToRows(s)
  OBVIOUS
<1>4. PICK rs : rs = RowsOf(keys, mm)
  OBVIOUS
<1>5. mm \in SUBSET AllRows /\ prev \in SUBSET AllRows
  BY <1>1, <1>3 DEF SessTyped
<1>6. rs \in Seq(RowEvents) /\ Led(rs, 0, Len(rs) + 1, prev) = mm /\ (mm = prev => rs = <<>>)
  BY <1>3, <1>4, <1>5, RowsRecorded
<1>7. sess' = [sess EXCEPT !.events = @ \o rs \o <<Sync>>, !.prev = mm, !.shown = Append(@, mm)]
  BY <1>2, <1>3, <1>4 DEF Recorded, RowsOf, Differ
<1>8. /\ sess'.state = "RECORDING" /\ sess'.events = sess.events \o rs \o <<Sync>>
      /\ sess'.file = sess.file /\ sess'.prev = mm /\ sess'.base = sess.base
      /\ sess'.shown = Append(sess.shown, mm) /\ sess'.at = sess.at
  <2>1. sess = [state |-> sess.state, events |-> sess.events, file |-> sess.file, prev |-> sess.prev,
             base |-> sess.base, shown |-> sess.shown, at |-> sess.at, clean |-> sess.clean]
    BY <1>1 DEF SessTyped, KeyShapes
  <2> QED BY <1>7, <2>1, Zenon
<1>9. PICK ev \in Seq(SessEvents), shown \in Seq(SUBSET AllRows) : ev = sess.events /\ shown = sess.shown
  BY <1>1 DEF SessTyped
<1>10. PICK base : base = sess.base
  OBVIOUS
<1>11. Taped(ev, base, shown) /\ prev = After(base, shown, Len(shown))
  BY <1>1, <1>3, <1>9, <1>10 DEF OnTape
<1>12. Taped(ev \o rs \o <<Sync>>, base, Append(shown, mm))
  BY <1>5, <1>6, <1>11, TapeGrows
<1>13. Append(shown, mm) \in Seq(SUBSET AllRows) /\ Len(Append(shown, mm)) = Len(shown) + 1
       /\ Append(shown, mm)[Len(shown) + 1] = mm /\ Len(shown) + 1 # 0
  BY <1>5
<1>14. After(base, Append(shown, mm), Len(Append(shown, mm))) = mm
  BY <1>13 DEF After
<1>15. ev \o rs \o <<Sync>> \in Seq(SessEvents)
       /\ (NoneDown(ev) /\ rs = <<>> => NoneDown(ev \o rs \o <<Sync>>))
  BY <1>6, Joined
<1>16. SessTyped'
  <2>1. ~is_active'
    BY <1>1, <1>2 DEF SessTyped, is_active
  <2>2. kmatrix' \subseteq AllRows /\ sess'.prev \subseteq AllRows
    BY <1>2, <1>3, <1>5, <1>8
  <2>3. sess'.events \in Seq(SessEvents) /\ sess'.shown \in Seq(SUBSET AllRows)
    BY <1>8, <1>9, <1>13, <1>15
  <2>4. sess'.file \in Seq(SessEvents) /\ sess'.at \in Nat
    BY <1>1, <1>8 DEF SessTyped
  <2> QED BY <1>2, <1>8, <2>1, <2>2, <2>3, <2>4 DEF SessTyped
<1>17. OnTape'
  <2>1. Taped(sess'.events, sess'.base, sess'.shown)
        /\ sess'.prev = After(sess'.base, sess'.shown, Len(sess'.shown))
    BY <1>8, <1>9, <1>10, <1>12, <1>14
  <2> QED BY <1>8, <2>1 DEF OnTape
<1>18. ASSUME ~kseen'.blind PROVE /\ kmatrix' = {} /\ klive' = {} /\ kseen'.text = <<>> /\ ~kseen'.wrong
                                  /\ sess'.prev = {} /\ NoneDown(sess'.events) /\ NoneDown(sess'.file)
  <2>1. ~kseen.blind /\ mm = {} /\ klive = {} /\ kseen.text = <<>> /\ ~kseen.wrong
        /\ prev = {} /\ NoneDown(ev) /\ NoneDown(sess.file)
    BY <1>1, <1>2, <1>3, <1>9, <1>18 DEF Untouched, QuietTape
  <2>2. Fine(rows)
    BY <2>1 DEF Fine, Edge
  <2>3. rs = <<>>
    BY <1>6, <2>1
  <2> QED BY <1>2, <1>3, <1>8, <1>9, <1>15, <2>1, <2>2, <2>3
<1> QED BY <1>16, <1>17, <1>18 DEF SessInv, Untouched, QuietTape

(* A frame outside recording and playing changes no tape.                  *)
LEMMA IdleFrame ==
  ASSUME SessInv, NEW rows, FrameComplete(rows), sess.state = "IDLE"
  PROVE  SessInv'
<1>1. SessTyped /\ OnTape /\ Untouched /\ QuietTape
  BY DEF SessInv
<1>2. /\ UNCHANGED <<klive, aq, kmatrix, sess>>
      /\ kman'.mode = "Direct" /\ kman'.needs = {} /\ kman'.pending = {}
      /\ kseen'.wrong = (kseen.wrong \/ (~kseen.blind /\ ~Fine(rows)))
      /\ kseen'.blind = kseen.blind
      /\ (kseen.blind \/ kseen.text = <<>>) => kseen'.text = <<>>
      /\ KeyShapes'
  <2>1. MatrixAfter(kmatrix) = kmatrix /\ SessAfter(kmatrix) = sess
    BY DEF MatrixAfter, SessAfter
  <2> QED BY <1>1, <2>1, FrameStill
<1>3. ~kseen.blind => Fine(rows)
  BY <1>1 DEF Untouched, Fine, Edge
<1>4. ~is_active'
  BY <1>1, <1>2 DEF SessTyped, is_active
<1>5. Untouched'
  BY <1>1, <1>2, <1>3 DEF Untouched
<1> QED BY <1>1, <1>2, <1>4, <1>5 DEF SessInv, SessTyped, OnTape, QuietTape

(* A step that only publishes the matrix keeps the session.                *)
LEMMA SameSession ==
  ASSUME SessInv, UNCHANGED <<kmatrix, kman, aq, sess, kseen>>, KeyShapes',
         klive' \in {klive, kmatrix}
  PROVE  SessInv'
<1>1. SessTyped /\ OnTape /\ Untouched /\ QuietTape
  BY DEF SessInv
<1>2. ~is_active'
  BY <1>1 DEF SessTyped, is_active
<1>3. SessTyped' /\ OnTape' /\ QuietTape'
  BY <1>1, <1>2 DEF SessTyped, OnTape, QuietTape
<1> QED BY <1>1, <1>3 DEF SessInv, Untouched

(* The tape of no frames.                                                  *)
LEMMA EmptyTape == \A base : Taped(<<>>, base, <<>>) /\ After(base, <<>>, Len(<<>>)) = base
<1> TAKE base
<1>1. Len(<<>>) = 0 /\ 0..(0 - 1) = {}
  OBVIOUS
<1> DEFINE cut == [i \in 0..0 |-> 0]
<1>2. cut \in [0..0 -> 0..0] /\ cut[0] = 0
  OBVIOUS
<1> HIDE DEF cut
<1>3. Tape(<<>>, cut, base, <<>>)
  BY <1>1, <1>2 DEF Tape
<1> QED BY <1>1, <1>3 DEF Taped, After

(* A tape that is not empty has a frame to begin with.                     *)
LEMMA WholeTape ==
  ASSUME NEW ev \in Seq(SessEvents), NEW base, NEW shown \in Seq(SUBSET AllRows),
         NEW cut, Tape(ev, cut, base, shown), ev # <<>>
  PROVE  0 < Len(shown) /\ ev = From(ev, cut[0])
<1>1. cut[0] = 0 /\ cut[Len(shown)] = Len(ev)
  BY DEF Tape
<1>2. Len(ev) # 0 /\ Len(shown) \in Nat
  BY EmptySeqIs
<1>3. 0 < Len(shown)
  BY <1>1, <1>2
<1>4. PICK p : p = From(ev, 0)
  OBVIOUS
<1>5. /\ p \in Seq(SessEvents) /\ Len(p) = Len(ev) - 0
      /\ \A j \in 1..(Len(ev) - 0) : p[j] = ev[0 + j]
  <2>1. 0 \in 0..Len(ev)
    OBVIOUS
  <2> QED BY <1>4, <2>1, PartOf
<1>6. Len(p) = Len(ev) /\ \A j \in 1..Len(ev) : p[j] = ev[j]
  BY <1>5
<1>7. p = ev
  BY <1>5, <1>6, SameSeq
<1> QED BY <1>1, <1>3, <1>4, <1>7

(* Record, Play and Stop keep the session (start_recording to              *)
(* stop_playback).                                                         *)
LEMMA SessionButtons ==
  ASSUME SessInv, render_session_recording
  PROVE  SessInv'
<1>1. SessTyped /\ OnTape /\ Untouched /\ QuietTape
  BY DEF SessInv
<1>2. sess = [state |-> sess.state, events |-> sess.events, file |-> sess.file, prev |-> sess.prev,
             base |-> sess.base, shown |-> sess.shown, at |-> sess.at, clean |-> sess.clean]
  BY <1>1 DEF SessTyped, KeyShapes
<1>3. UNCHANGED <<kmatrix, klive, kman, kframe, aq, kseen>>
  BY DEF render_session_recording, start_recording, stop_recording, start_playback, stop_playback
<1>4. ~is_active' /\ Untouched'
  BY <1>1, <1>3 DEF SessTyped, is_active, Untouched
<1>5. NoneDown(<<>>) /\ <<>> \in Seq(SessEvents) /\ <<>> \in Seq(SUBSET AllRows)
  BY DEF NoneDown
<1>6. CASE start_recording
  <2>1. sess' = [sess EXCEPT !.state = "RECORDING", !.events = <<>>, !.shown = <<>>,
                          !.base = sess.prev, !.file = <<>>, !.at = 0, !.clean = TRUE]
    BY <1>6 DEF start_recording
  <2>2. /\ sess'.state = "RECORDING" /\ sess'.events = <<>> /\ sess'.file = <<>>
        /\ sess'.prev = sess.prev /\ sess'.base = sess.prev /\ sess'.shown = <<>> /\ sess'.at = 0
        /\ sess' = [state |-> sess'.state, events |-> sess'.events, file |-> sess'.file, prev |-> sess'.prev,
             base |-> sess'.base, shown |-> sess'.shown, at |-> sess'.at, clean |-> sess'.clean]
    BY <1>2, <2>1, Zenon
  <2>3. SessTyped'
    <3>1. KeyShapes'
      BY <1>1, <1>3, <2>2 DEF SessTyped, KeyShapes
    <3> QED BY <1>1, <1>3, <1>4, <1>5, <2>2, <3>1 DEF SessTyped
  <2>4. OnTape'
    <3>1. Taped(<<>>, sess.prev, <<>>) /\ After(sess.prev, <<>>, Len(<<>>)) = sess.prev
      BY EmptyTape
    <3>2. /\ Taped(sess'.events, sess'.base, sess'.shown)
          /\ After(sess'.base, sess'.shown, Len(sess'.shown)) = sess'.prev
      BY <2>2, <3>1
    <3> QED BY <2>2, <3>2 DEF OnTape
  <2>5. QuietTape'
    BY <1>1, <1>3, <1>5, <2>2 DEF QuietTape
  <2> QED BY <1>4, <2>3, <2>4, <2>5 DEF SessInv
<1>7. CASE stop_recording
  <2>1. sess.state = "RECORDING"
        /\ sess' = [sess EXCEPT !.state = "IDLE", !.file = sess.events, !.events = <<>>]
    BY <1>7 DEF stop_recording
  <2>2. /\ sess'.state = "IDLE" /\ sess'.events = <<>> /\ sess'.file = sess.events
        /\ sess'.prev = sess.prev /\ sess'.base = sess.base /\ sess'.shown = sess.shown
        /\ sess'.at = sess.at
        /\ sess' = [state |-> sess'.state, events |-> sess'.events, file |-> sess'.file, prev |-> sess'.prev,
             base |-> sess'.base, shown |-> sess'.shown, at |-> sess'.at, clean |-> sess'.clean]
    BY <1>2, <2>1, Zenon
  <2>3. SessTyped'
    <3>1. KeyShapes'
      BY <1>1, <1>3, <2>2 DEF SessTyped, KeyShapes
    <3> QED BY <1>1, <1>3, <1>4, <1>5, <2>2, <3>1 DEF SessTyped
  <2>4. OnTape'
    <3>1. Taped(sess'.file, sess'.base, sess'.shown)
      BY <1>1, <2>1, <2>2 DEF OnTape
    <3> QED BY <2>2, <3>1 DEF OnTape
  <2>5. QuietTape'
    BY <1>1, <1>3, <1>5, <2>2 DEF QuietTape
  <2> QED BY <1>4, <2>3, <2>4, <2>5 DEF SessInv
<1>8. CASE start_playback
  <2>1. sess.state = "IDLE" /\ sess.file # <<>>
        /\ sess' = [sess EXCEPT !.state = "PLAYING", !.events = sess.file, !.at = 0,
                          !.clean = (kmatrix = sess.base)]
    BY <1>8 DEF start_playback
  <2>2. /\ sess'.state = "PLAYING" /\ sess'.events = sess.file /\ sess'.file = sess.file
        /\ sess'.prev = sess.prev /\ sess'.base = sess.base /\ sess'.shown = sess.shown
        /\ sess'.at = 0
        /\ sess' = [state |-> sess'.state, events |-> sess'.events, file |-> sess'.file, prev |-> sess'.prev,
             base |-> sess'.base, shown |-> sess'.shown, at |-> sess'.at, clean |-> sess'.clean]
    BY <1>2, <2>1, Zenon
  <2>3. sess'.clean => kmatrix = sess.base
    BY <1>2, <2>1, Zenon
  <2>4. SessTyped'
    <3>1. KeyShapes'
      BY <1>1, <1>3, <2>2 DEF SessTyped, KeyShapes
    <3> QED BY <1>1, <1>3, <1>4, <2>2, <3>1 DEF SessTyped
  <2>5. OnTape'
    <3>1. PICK cut : Tape(sess.file, cut, sess.base, sess.shown)
      BY <1>1, <2>1 DEF OnTape, Taped
    <3>2. PICK ev \in Seq(SessEvents), shown \in Seq(SUBSET AllRows) : ev = sess.file /\ shown = sess.shown
      BY <1>1 DEF SessTyped
    <3>3. PICK base : base = sess.base
      OBVIOUS
    <3>4. Tape(ev, cut, base, shown) /\ ev # <<>>
      BY <2>1, <3>1, <3>2, <3>3
    <3>5. 0 < Len(shown) /\ ev = From(ev, cut[0])
      BY <3>4, WholeTape
    <3>6. /\ sess'.at < Len(sess'.shown) /\ Tape(sess'.file, cut, sess'.base, sess'.shown)
          /\ sess'.events = From(sess'.file, cut[sess'.at])
      BY <2>2, <3>1, <3>2, <3>5
    <3>7. sess'.clean => kmatrix' = After(sess'.base, sess'.shown, sess'.at)
      BY <1>3, <2>2, <2>3 DEF After
    <3>8. Taped(sess'.file, sess'.base, sess'.shown)
      BY <3>6 DEF Taped
    <3> QED BY <2>2, <3>6, <3>7, <3>8 DEF OnTape
  <2>6. QuietTape'
    BY <1>1, <1>3, <2>2 DEF QuietTape
  <2> QED BY <1>4, <2>4, <2>5, <2>6 DEF SessInv
<1>9. CASE stop_playback
  <2>1. sess.state = "PLAYING" /\ sess' = [sess EXCEPT !.state = "IDLE", !.events = <<>>]
    BY <1>9 DEF stop_playback
  <2>2. /\ sess'.state = "IDLE" /\ sess'.events = <<>> /\ sess'.file = sess.file
        /\ sess'.prev = sess.prev /\ sess'.base = sess.base /\ sess'.shown = sess.shown
        /\ sess'.at = sess.at
        /\ sess' = [state |-> sess'.state, events |-> sess'.events, file |-> sess'.file, prev |-> sess'.prev,
             base |-> sess'.base, shown |-> sess'.shown, at |-> sess'.at, clean |-> sess'.clean]
    BY <1>2, <2>1, Zenon
  <2>3. SessTyped'
    <3>1. KeyShapes'
      BY <1>1, <1>3, <2>2 DEF SessTyped, KeyShapes
    <3> QED BY <1>1, <1>3, <1>4, <1>5, <2>2, <3>1 DEF SessTyped
  <2>4. OnTape'
    <3>1. Taped(sess'.file, sess'.base, sess'.shown)
      BY <1>1, <2>1, <2>2 DEF OnTape
    <3> QED BY <2>2, <3>1 DEF OnTape
  <2>5. QuietTape'
    BY <1>1, <1>3, <1>5, <2>2 DEF QuietTape
  <2> QED BY <1>4, <2>3, <2>4, <2>5 DEF SessInv
<1> QED BY <1>6, <1>7, <1>8, <1>9 DEF render_session_recording

(* Every step on the session bench keeps it.                               *)
LEMMA SessionStep == SessInv /\ (SessionNext \/ UNCHANGED keyVars) => SessInv'
<1> SUFFICES ASSUME SessInv, SessionNext \/ UNCHANGED keyVars PROVE SessInv'
  OBVIOUS
<1>1. SessTyped /\ OnTape /\ Untouched /\ QuietTape /\ KeyShapes
  BY DEF SessInv, SessTyped
<1>2. CASE UNCHANGED keyVars
  <2>1. KeyShapes' /\ UNCHANGED <<kmatrix, kman, aq, sess, kseen>> /\ klive' = klive
    BY <1>1, <1>2 DEF keyVars, KeyShapes
  <2> QED BY <2>1, SameSession
<1>3. CASE publish_keyboard_snapshot
  <2>1. UNCHANGED <<kmatrix, kman, aq, sess, kseen>> /\ klive' = kmatrix /\ KeyShapes'
    BY <1>1, <1>3 DEF publish_keyboard_snapshot, KeyShapes
  <2> QED BY <2>1, SameSession
<1>4. CASE FrameComplete(AllRows)
  BY <1>1, <1>4, IdleFrame, RecordFrame, PlayFrame DEF SessTyped
<1>5. CASE render_session_recording
  BY <1>5, SessionButtons
<1>6. CASE sess.state # "PLAYING" /\ ipc_input_key
  <2>1. PICK sc \in (Keys \X BOOLEAN) \cup {<<SHIFT, FALSE>>}, pressed \in BOOLEAN :
       /\ kmatrix' = ipc_apply_keypress(kmatrix, sc, pressed)
       /\ kseen' = [kseen EXCEPT !.unread = {u \in @ : Key(u) # Key(sc)}, !.blind = TRUE]
    BY <1>6 DEF ipc_input_key
  <2>2. UNCHANGED <<klive, kman, kframe, aq, sess>>
    BY <1>6 DEF ipc_input_key
  <2>3. kmatrix' \subseteq AllRows
    <3>1. kmatrix \subseteq AllRows
      BY <1>1 DEF SessTyped
    <3>2. \A x \in Keys \X BOOLEAN : x[1] \in Keys
      OBVIOUS
    <3>3. <<SHIFT, FALSE>>[1] = SHIFT
      OBVIOUS
    <3>4. Key(sc) \in AllRows /\ SHIFT \in AllRows
      BY <2>1, <3>2, <3>3 DEF Key, AllRows
    <3> QED BY <2>1, <3>1, <3>4 DEF ipc_apply_keypress
  <2>4. kseen' = [unread |-> kseen'.unread, down |-> kseen'.down, text |-> kseen'.text,
              wrong |-> kseen'.wrong, blind |-> kseen'.blind]
        /\ kseen'.blind = TRUE /\ kseen'.wrong = kseen.wrong
    BY <1>1, <2>1 DEF KeyShapes
  <2>5. KeyShapes'
    BY <1>1, <2>2, <2>4 DEF KeyShapes
  <2>6. ~is_active'
    BY <1>1, <2>2 DEF SessTyped, is_active
  <2>7. SessTyped'
    BY <1>1, <2>2, <2>3, <2>5, <2>6 DEF SessTyped
  <2>8. OnTape' /\ Untouched' /\ QuietTape'
    BY <1>1, <1>6, <2>2, <2>4 DEF OnTape, Untouched, QuietTape
  <2> QED BY <2>7, <2>8 DEF SessInv
<1> QED BY <1>2, <1>3, <1>4, <1>5, <1>6 DEF SessionNext

-----------------------------------------------------------------------------
(* The keyboard on each of its benches.                                     *)
KeysInv ==
  CASE bench = "host keys" -> HostKeysInv
    [] bench = "typing" -> TypeKeysInv
    [] bench = "session" -> SessInv
    [] OTHER -> DirectKeysInv

(* What is kept gives what the runs check.                                  *)
LEMMA HostKeysGive == HostKeysInv => KeysRight
BY DEF HostKeysInv, Buffered, Untouched, KeysRight, TapIsSeen, TypedInOrder, ReplayIsFaithful

(* One character held down is one the guest has still to read.             *)
LEMMA TypingGives == TypeKeysInv => KeysRight
<1> SUFFICES ASSUME TypeKeysInv PROVE KeysRight
  OBVIOUS
<1>1. ~kseen.blind => ~kseen.wrong /\ (kseen.text = <<>> \/ kseen.text = <<aq.held>>)
  BY DEF TypeKeysInv, Typing, HeldDown, NothingHeld
<1>2. Len(<<>>) <= 1 /\ \A x : Len(<<x>>) <= 1
  OBVIOUS
<1>3. TypedInOrder
  BY <1>1, <1>2 DEF TypedInOrder
<1>4. TapIsSeen /\ ReplayIsFaithful
  BY DEF TypeKeysInv, TapIsSeen, ReplayIsFaithful
<1> QED BY <1>3, <1>4 DEF KeysRight

(* The matrix of a clean replay is the row shown.                          *)
LEMMA SessionGives == SessInv => KeysRight
<1> SUFFICES ASSUME SessInv PROVE KeysRight
  OBVIOUS
<1>1. TapIsSeen
  BY DEF SessInv, SessTyped, TapIsSeen
<1>2. TypedInOrder
  BY DEF SessInv, Untouched, TypedInOrder
<1>3. ReplayIsFaithful
  BY DEF SessInv, OnTape, ReplayIsFaithful, After
<1> QED BY <1>1, <1>2, <1>3 DEF KeysRight

(* On every bench, what is kept gives what the runs check.                 *)
LEMMA KeysGive == KeysInv => KeysRight
BY HostKeysGive, TypingGives, SessionGives DEF KeysInv, DirectKeysInv

(* Every bench starts with no key down, no text and no tape.               *)
LEMMA KeysStart == Init => KeysInv
<1> SUFFICES ASSUME Init PROVE KeysInv
  OBVIOUS
<1>1. KeyInit /\ (bench # "host keys" => kman.mode = "Direct")
  BY DEF Init
<1>2. KeyShapes /\ kman.needs = {} /\ kman.pending = {}
  BY <1>1 DEF KeyInit, KeyShapes
<1>3. /\ kmatrix = {} /\ klive = {} /\ aq.q = <<>> /\ aq.held = NoKey /\ aq.pause = 0
      /\ ~aq.gap /\ ~aq.blocked /\ kseen.unread = {} /\ kseen.down = {} /\ kseen.text = <<>>
      /\ ~kseen.wrong /\ ~kseen.blind /\ ~kframe.on
      /\ sess.state = "IDLE" /\ sess.events = <<>> /\ sess.file = <<>> /\ sess.prev = {}
      /\ sess.base = {} /\ sess.shown = <<>> /\ sess.at = 0
  BY <1>1 DEF KeyInit
<1>4. ~is_active /\ Untouched
  BY <1>3 DEF is_active, Untouched
<1>5. HostKeysInv
  BY <1>2, <1>3, <1>4 DEF HostKeysInv, Buffered, ScanCodes
<1>6. bench # "host keys" => DirectKeysInv
  BY <1>1, <1>5 DEF DirectKeysInv
<1>7. bench = "typing" => TypeKeysInv
  <2>1. Typing
    BY <1>3 DEF Typing, NothingHeld
  <2>2. aq.q \in Seq(Actions)
    BY <1>3
  <2> QED BY <1>1, <1>2, <1>3, <2>1, <2>2 DEF TypeKeysInv
<1>8. bench = "session" => SessInv
  <2>1. Taped(sess.file, sess.base, sess.shown)
    BY <1>3, EmptyTape
  <2>2. OnTape
    BY <1>3, <2>1 DEF OnTape
  <2>3. QuietTape
    BY <1>3 DEF QuietTape, NoneDown
  <2>4. /\ sess.events \in Seq(SessEvents) /\ sess.file \in Seq(SessEvents)
        /\ sess.shown \in Seq(SUBSET AllRows)
    BY <1>3
  <2>5. bench = "session" => SessTyped
    BY <1>1, <1>2, <1>3, <1>4, <2>4 DEF SessTyped
  <2> QED BY <1>4, <2>2, <2>3, <2>5 DEF SessInv
<1> QED BY <1>5, <1>6, <1>7, <1>8 DEF KeysInv

(* A step of the bench is a step of its part of the keyboard or leaves it  *)
(* alone.                                                                  *)
LEMMA KeysBench ==
  ASSUME [Next]_benchVars
  PROVE  /\ bench' = bench
         /\ bench = "host keys" => HostKeyNext \/ UNCHANGED keyVars
         /\ bench = "direct keys" => DirectKeyNext \/ UNCHANGED keyVars
         /\ bench = "typing" => TypeNext \/ UNCHANGED keyVars
         /\ bench = "session" => SessionNext \/ UNCHANGED keyVars
         /\ bench \notin {"host keys", "direct keys", "typing", "session"} => UNCHANGED keyVars
<1>1. CASE Next
  <2>1. /\ bench' = bench
        /\ CASE bench = "host keys" -> HostKeyNext
             [] bench = "direct keys" -> DirectKeyNext
             [] bench = "typing" -> TypeNext
             [] bench = "session" -> SessionNext
             [] OTHER -> UNCHANGED keyVars
    BY <1>1 DEF Next
  <2> QED BY <2>1
<1>2. CASE UNCHANGED benchVars
  BY <1>2 DEF benchVars
<1> QED BY <1>1, <1>2

(* Every step keeps what is kept on its bench.                             *)
LEMMA KeysStep == KeysInv /\ [Next]_benchVars => KeysInv'
<1> SUFFICES ASSUME KeysInv, [Next]_benchVars PROVE KeysInv'
  OBVIOUS
<1>1. CASE bench = "host keys"
  BY <1>1, KeysBench, HostKeysStep DEF KeysInv
<1>2. CASE bench = "typing"
  BY <1>2, KeysBench, TypeKeysStep DEF KeysInv
<1>3. CASE bench = "session"
  BY <1>3, KeysBench, SessionStep DEF KeysInv
<1>4. CASE bench \notin {"host keys", "typing", "session"}
  BY <1>4, KeysBench, DirectKeysStep DEF KeysInv
<1> QED BY <1>1, <1>2, <1>3, <1>4

(* A key tapped on the host stays down until the guest has read it, text is *)
(* typed in order and without loss, and a replay shows the rows recorded,   *)
(* for any keys, texts and frames (notify_scanned, update, tick,            *)
(* record_frame, played_rows).                                              *)
THEOREM KeysStayRight == Spec => []KeysRight
<1>1. Init => KeysInv
  BY KeysStart
<1>2. KeysInv /\ [Next]_benchVars => KeysInv'
  BY KeysStep
<1> QED BY <1>1, <1>2, KeysGive, PTL DEF Spec

-----------------------------------------------------------------------------
(* The M4 board and its web server.                                         *)

(* What the mailbox, the directory, the files and the server hold.          *)
AtMostOne(S) == \A p, q \in S : p = q
DevTyped ==
  /\ m4dev = [acc |-> m4dev.acc, pending |-> m4dev.pending, busy |-> m4dev.busy,
              response |-> m4dev.response, last |-> m4dev.last]
  /\ m4dev.acc \in {None, Short} \union Commands
  /\ m4dev.pending \in {None} \union Commands /\ m4dev.busy \in BOOLEAN
DirTyped ==
  /\ m4dir = [dir |-> m4dir.dir, box |-> m4dir.box, parent |-> m4dir.parent, list |-> m4dir.list]
  /\ m4dir.dir \in Paths /\ m4dir.parent \in Paths /\ m4dir.box \in BOOLEAN
FilesTyped ==
  /\ m4fh \in [0..3 -> SUBSET Paths] /\ \A h \in 0..3 : AtMostOne(m4fh[h])
  /\ m4sd \in [files : SUBSET Paths, dirs : SUBSET Paths]
HttpTyped ==
  /\ h4 = [running |-> h4.running, thread |-> h4.thread, pend |-> h4.pend, status |-> h4.status]
  /\ h4.thread \in {"none", "binding", "idle", "client", "preview", "exited"}
CardTyped ==
  /\ m4prog \in Programs /\ DevTyped /\ DirTyped /\ FilesTyped /\ HttpTyped
  /\ m4rom \in {"loaded", "missing", "none"}

(* An active mapping has a socket on its host port, unless the user moved   *)
(* it to a port of its own; no two are active on a port but that one.       *)
SockRec == [st : {"none", "open", "bound", "listening", "connected"}, port : Nat]
MapRec == [cpc : Nat \ {0}, host : Nat \ {0}, user : BOOLEAN, active : BOOLEAN]
SockTyped ==
  m4sock \in [Slots -> SockRec] /\ \A s \in Slots : m4sock[s].st \in {"none", "open"} => m4sock[s].port = 0
SocketOn(port) == \E s \in Slots : m4sock[s].port = port
UserPortApart ==
  \A c \in Commands : c.op = "netbind" => UserPort \notin c.port..(c.port + BindTries - 1)
PortsInv ==
  /\ SockTyped /\ m4map \subseteq MapRec
  /\ \A m \in m4map : m.active = TRUE => m.host = UserPort \/ SocketOn(m.host)
  /\ \A m, n \in m4map :
       m.active = TRUE /\ n.active = TRUE /\ m.host = n.host => m = n \/ m.host = UserPort
  /\ UserPortApart => \A m \in m4map : m.active = TRUE /\ m.user = FALSE => m.host # UserPort

CardInv == CardTyped /\ AnswerIsForLastKick /\ PortsInv

(* At most one member, counted.                                            *)
LEMMA AtMostOneIs ==
  ASSUME NEW S, AtMostOne(S)
  PROVE  Cardinality(S) <= 1
<1>1. CASE S = {}
  <2>1. Cardinality(S) = 0
    BY <1>1, FS_EmptySet
  <2> QED BY <2>1
<1>2. CASE S # {}
  <2>1. PICK x : x \in S
    BY <1>2
  <2>2. S = {x}
    BY <2>1 DEF AtMostOne
  <2>3. Cardinality(S) = 1
    BY <2>2, FS_Singleton
  <2> QED BY <2>3
<1> QED BY <1>1, <1>2

(* What is kept gives the board's types and answers.                       *)
LEMMA CardGives == CardInv => AnswerIsForLastKick /\ M4TypeOK
<1> SUFFICES ASSUME CardInv PROVE AnswerIsForLastKick /\ M4TypeOK
  OBVIOUS
<1>1. CardTyped /\ AnswerIsForLastKick /\ PortsInv
  BY DEF CardInv
<1>2. \A h \in 0..3 : m4fh[h] \subseteq Paths /\ Cardinality(m4fh[h]) <= 1
  BY <1>1, AtMostOneIs DEF CardTyped, FilesTyped
<1>3. \A m \in m4map : m.user \in BOOLEAN /\ m.active \in BOOLEAN
  BY <1>1 DEF PortsInv, MapRec
<1>4. m4sd.files \subseteq Paths /\ m4sd.dirs \subseteq Paths
  BY <1>1 DEF CardTyped, FilesTyped
<1> QED BY <1>1, <1>2, <1>3, <1>4 DEF CardTyped, DevTyped, DirTyped, HttpTyped, M4TypeOK

(* With the user's ports apart, it gives the mappings too.                 *)
LEMMA PortsGive == CardInv /\ UserPortApart => AutoMappingIsBound
<1> SUFFICES ASSUME CardInv, UserPortApart, NEW m \in m4map, m.active, ~m.user
             PROVE  \E s \in Slots : m4sock[s].port = m.host
  BY DEF AutoMappingIsBound
<1>1. PortsInv /\ m \in MapRec
  BY DEF CardInv, PortsInv
<1>2. m.active = TRUE /\ m.user = FALSE
  BY <1>1 DEF MapRec
<1> QED BY <1>1, <1>2 DEF PortsInv, SocketOn

(* The board starts with an empty mailbox, no socket and no mapping.       *)
LEMMA CardStarts == M4HttpInit => CardInv
<1> SUFFICES ASSUME M4HttpInit PROVE CardInv
  OBVIOUS
<1>1. M4Init /\ HttpInit
  BY DEF M4HttpInit
<1>2. DevTyped /\ HttpTyped /\ m4prog \in Programs /\ m4rom \in {"loaded", "missing", "none"}
  BY <1>1 DEF M4Init, HttpInit, DevTyped, HttpTyped
<1> DEFINE r == Root
<1>r. r \in Paths
  BY DEF Root, Paths
<1> HIDE DEF r
<1>3. DirTyped
  BY <1>1, <1>r DEF M4Init, DirTyped, r
<1>4. FilesTyped
  <2>1. m4fh \in [0..3 -> SUBSET Paths] /\ \A h \in 0..3 : AtMostOne(m4fh[h])
    BY <1>1 DEF M4Init, AtMostOne
  <2>2. m4sd \in [files : SUBSET Paths, dirs : SUBSET Paths]
    BY <1>1, <1>r, M4Assumption DEF M4Init, r
  <2> QED BY <2>1, <2>2 DEF FilesTyped
<1>5. AnswerIsForLastKick
  BY <1>1 DEF M4Init, AnswerIsForLastKick
<1>6. PortsInv
  BY <1>1 DEF M4Init, PortsInv, SockTyped, SockRec, Closed
<1> QED BY <1>2, <1>3, <1>4, <1>5, <1>6 DEF CardInv, CardTyped

-----------------------------------------------------------------------------
(* Answering: the response is of the pending command, and the mailbox waits *)
(* no longer.                                                               *)
Answered == \E st, data : m4_complete_response(st, data)
Waiting == AnswerIsForLastKick /\ DevTyped

(* An answer is of the pending command, the one kicked last                *)
(* (m4_complete_response).                                                 *)
LEMMA AnswerFits == Waiting /\ m4dev.pending # None /\ Answered => Waiting'
<1> SUFFICES ASSUME Waiting, m4dev.pending # None, NEW st, NEW data, m4_complete_response(st, data)
             PROVE  Waiting'
  BY DEF Answered
<1>1. m4dev.last = m4dev.pending
  BY DEF Waiting, AnswerIsForLastKick
<1>2. /\ m4dev' = [acc |-> m4dev.acc, pending |-> None, busy |-> FALSE,
                   response |-> m4dev'.response, last |-> m4dev.last]
      /\ m4dev'.response.of = m4dev.pending
  BY DEF Waiting, DevTyped, m4_complete_response
<1>3. m4dev'.pending = None /\ m4dev'.busy = FALSE /\ m4dev'.last = m4dev.pending /\ m4dev'.acc = m4dev.acc
  BY <1>1, <1>2
<1>4. AnswerIsForLastKick'
  BY <1>2, <1>3 DEF AnswerIsForLastKick
<1>5. DevTyped'
  BY <1>2, <1>3 DEF Waiting, DevTyped
<1> QED BY <1>4, <1>5 DEF Waiting

(* A reset empties the mailbox and the window (m4_dev_reset).              *)
LEMMA ResetFits == DevTyped /\ m4_dev_reset => Waiting'
<1> SUFFICES ASSUME DevTyped, m4_dev_reset PROVE Waiting'
  OBVIOUS
<1>1. m4dev' = [acc |-> None, pending |-> None, busy |-> FALSE, response |-> NoAnswer, last |-> None]
  BY DEF DevTyped, m4_dev_reset
<1>2. m4dev'.acc = None /\ m4dev'.pending = None /\ m4dev'.busy = FALSE /\ m4dev'.response = NoAnswer
  BY <1>1
<1> QED BY <1>1, <1>2 DEF Waiting, DevTyped, AnswerIsForLastKick

(* Writes fill the mailbox; a kick makes the frame the pending command     *)
(* (latch_execute).                                                        *)
LEMMA MailFits ==
  ASSUME Waiting, m4prog \in Programs, m4_data_write \/ latch_execute
  PROVE  Waiting'
<1>0. DevTyped /\ AnswerIsForLastKick /\ m4prog \subseteq Commands
  BY DEF Waiting, Commands
<1>1. CASE m4_data_write
  <2>1. PICK a \in {None, Short} \union Commands : m4dev' = [m4dev EXCEPT !.acc = a]
    BY <1>0, <1>1 DEF m4_data_write
  <2>2. m4dev' = [acc |-> a, pending |-> m4dev.pending, busy |-> m4dev.busy,
                  response |-> m4dev.response, last |-> m4dev.last]
    BY <1>0, <2>1 DEF DevTyped
  <2>3. /\ m4dev'.acc = a /\ m4dev'.pending = m4dev.pending /\ m4dev'.busy = m4dev.busy
        /\ m4dev'.response = m4dev.response /\ m4dev'.last = m4dev.last
    BY <2>2
  <2> QED BY <1>0, <2>2, <2>3 DEF Waiting, DevTyped, AnswerIsForLastKick
<1>2. CASE latch_execute
  <2>1. CASE m4dev' = [m4dev EXCEPT !.acc = None]
    <3>2. m4dev' = [acc |-> None, pending |-> m4dev.pending, busy |-> m4dev.busy,
                    response |-> m4dev.response, last |-> m4dev.last]
      BY <1>0, <2>1 DEF DevTyped
    <3>3. /\ m4dev'.acc = None /\ m4dev'.pending = m4dev.pending /\ m4dev'.busy = m4dev.busy
          /\ m4dev'.response = m4dev.response /\ m4dev'.last = m4dev.last
      BY <3>2
    <3> QED BY <1>0, <3>2, <3>3 DEF Waiting, DevTyped, AnswerIsForLastKick
  <2>2. CASE /\ m4dev.pending = None /\ m4dev.acc # Short /\ m4dev.acc # None
             /\ m4dev' = [m4dev EXCEPT !.acc = None, !.pending = m4dev.acc, !.last = m4dev.acc, !.busy = TRUE]
    <3>1. PICK c \in Commands : c = m4dev.acc
      BY <1>0, <2>2 DEF DevTyped
    <3>2. m4dev' = [acc |-> None, pending |-> c, busy |-> TRUE, response |-> m4dev.response, last |-> c]
      BY <1>0, <2>2, <3>1 DEF DevTyped
    <3>3. m4dev'.acc = None /\ m4dev'.pending = c /\ m4dev'.busy = TRUE /\ m4dev'.last = c
      BY <3>2
    <3> QED BY <3>1, <3>2, <3>3 DEF Waiting, DevTyped, AnswerIsForLastKick
  <2> QED BY <1>2, <2>1, <2>2 DEF latch_execute
<1> QED BY <1>1, <1>2

(* Every command answers.                                                   *)
LEMMA CommandAnswers == \A c : m4board_execute(c) => Answered
<1> SUFFICES ASSUME NEW c, m4board_execute(c) PROVE Answered
  OBVIOUS
<1>1. /\ respond_ok => Answered
      /\ respond_error => Answered
      /\ \A good : Respond(good) => Answered
      /\ \A good : SockAnswer(good) => Answered
      /\ \A st, data : m4_complete_response(st, data) => Answered
  <2>1. \A st, data : m4_complete_response(st, data) => Answered
    BY Zenon DEF Answered
  <2> QED BY <2>1 DEF respond_ok, respond_error, Respond, SockAnswer
<1>2. \A a : cmd_cd(a) \/ cmd_fsize(a) \/ cmd_erasefile(a) \/ cmd_makedir(a) \/ cmd_httpget(a) => Answered
  BY <1>1 DEF cmd_cd, cmd_fsize, cmd_erasefile, cmd_makedir, cmd_httpget
<1>3. \A a, b : cmd_rename(a, b) \/ cmd_copyfile(a, b) \/ cmd_open(a, b) => Answered
  BY <1>1 DEF cmd_rename, cmd_copyfile, cmd_open
<1>4. cmd_readdir \/ cmd_dirsetargs \/ cmd_writesector \/ cmd_readsector => Answered
  BY <1>1 DEF cmd_readdir, cmd_dirsetargs, cmd_writesector, cmd_write, cmd_readsector
<1>5. \A h : cmd_close(h) \/ cmd_read(h) \/ cmd_read2(h) \/ cmd_seek(h) \/ cmd_fstat(h) \/ cmd_eof(h)
              \/ cmd_ftell(h) \/ cmd_write(h) \/ cmd_write2(h) => Answered
  BY <1>1 DEF cmd_close, cmd_read, cmd_read2, cmd_seek, cmd_fstat, cmd_eof, cmd_ftell, cmd_write,
    cmd_write2, HandleOp
<1>6. cmd_version \/ cmd_getpath \/ cmd_free \/ cmd_httpgetmem \/ cmd_copybuf \/ cmd_sdread
        \/ cmd_sdwrite \/ cmd_formattrack => Answered
  BY <1>1 DEF cmd_version, cmd_getpath, cmd_free, cmd_httpgetmem, cmd_copybuf, cmd_sdread,
    cmd_sdwrite, cmd_formattrack
<1>7. \A s : cmd_netconnect(s) \/ cmd_netclose(s) \/ cmd_netsend(s) \/ cmd_netrecv(s)
              \/ cmd_netlisten(s) \/ cmd_netaccept(s) => Answered
  BY <1>1 DEF cmd_netconnect, cmd_netclose, cmd_netsend, cmd_netrecv, cmd_netlisten, cmd_netaccept
<1>8. cmd_netsocket \/ cmd_nethostip => Answered
  BY <1>1 DEF cmd_netsocket, cmd_nethostip
<1>9. \A s, p : cmd_netbind(s, p) => Answered
  BY <1>1 DEF cmd_netbind
<1>10. BoardCommand(c) => Answered
  BY <1>1 DEF BoardCommand, cmd_netstat, cmd_time, cmd_getnetwork, cmd_wifipow, cmd_m4off, cmd_nmi,
    cmd_config, cmd_romcp, cmd_nothing
<1> QED BY <1>2, <1>3, <1>4, <1>5, <1>6, <1>7, <1>8, <1>9, <1>10 DEF m4board_execute

-----------------------------------------------------------------------------
(* Paths stay below the SD root.                                            *)
LEMMA PathsOfPaths ==
  /\ Root \in Paths /\ <<"in">> \in Paths /\ <<"tmp">> \in Paths
  /\ \A p \in Paths : \A n \in 0..Len(p) : SubSeq(p, 1, n) \in Paths
  /\ \A p, q \in Paths : p \o q \in Paths
  /\ \A p \in Paths : p # Root => SubSeq(p, 1, Len(p) - 1) \in Paths /\ <<p[Len(p)]>> \in Paths
<1> DEFINE Names == {"sub", "f", "g", "d.dsk", "in", "tmp"}
<1>1. Paths = Seq(Names)
  BY DEF Paths
<1>2. Root \in Seq(Names) /\ <<"in">> \in Seq(Names) /\ <<"tmp">> \in Seq(Names)
  BY DEF Root
<1> HIDE DEF Names
<1>3. \A p \in Seq(Names) : \A n \in 0..Len(p) : SubSeq(p, 1, n) \in Seq(Names)
  OBVIOUS
<1>4. \A p, q \in Seq(Names) : p \o q \in Seq(Names)
  OBVIOUS
<1>5. \A p \in Seq(Names) : p # Root => Len(p) - 1 \in 0..Len(p) /\ Len(p) \in 1..Len(p)
  BY DEF Root
<1>6. \A p \in Seq(Names) : \A n \in 1..Len(p) : <<p[n]>> \in Seq(Names)
  OBVIOUS
<1> QED BY <1>1, <1>2, <1>3, <1>4, <1>5, <1>6

(* A path resolves to one below the SD root, or to nothing (resolve_path). *)
LEMMA Resolved ==
  ASSUME DirTyped, NEW a \in Args
  PROVE  resolve_path(a) \in SUBSET Paths /\ AtMostOne(resolve_path(a))
<1>1. m4dir.dir \in Paths /\ a.rel \in Paths \union {Escapes}
  BY DEF DirTyped, Args
<1>2. CASE a.rel = Escapes
  <2>1. m4dir.dir # Root => SubSeq(m4dir.dir, 1, Len(m4dir.dir) - 1) \in Paths
    BY <1>1, PathsOfPaths
  <2> QED BY <1>2, <2>1 DEF resolve_path, AtMostOne
<1>3. CASE a.rel # Escapes
  <2>1. a.rel \in Paths /\ m4dir.dir \o a.rel \in Paths
    BY <1>1, <1>3, PathsOfPaths
  <2> QED BY <1>3, <2>1 DEF resolve_path, AtMostOne
<1> QED BY <1>2, <1>3

(* A step that sets the current directory, or the container's parent too.   *)
LEMMA DirMoves ==
  ASSUME DirTyped, NEW d \in Paths, NEW p \in Paths, NEW b \in BOOLEAN, NEW l,
         \/ m4dir' = m4dir
         \/ m4dir' = [dir |-> d, box |-> b, parent |-> p, list |-> l]
         \/ m4dir' = [m4dir EXCEPT !.dir = d]
         \/ m4dir' = [m4dir EXCEPT !.dir = d, !.parent = p, !.box = b]
         \/ m4dir' = [m4dir EXCEPT !.list = l]
  PROVE  DirTyped'
<1>1. CASE m4dir' = m4dir
  BY <1>1 DEF DirTyped
<1>2. CASE m4dir' = [dir |-> d, box |-> b, parent |-> p, list |-> l]
  BY <1>2 DEF DirTyped
<1>3. CASE m4dir' = [m4dir EXCEPT !.dir = d]
  <2>1. m4dir' = [dir |-> d, box |-> m4dir.box, parent |-> m4dir.parent, list |-> m4dir.list]
    BY <1>3 DEF DirTyped
  <2> QED BY <2>1 DEF DirTyped
<1>4. CASE m4dir' = [m4dir EXCEPT !.dir = d, !.parent = p, !.box = b]
  <2>1. m4dir' = [dir |-> d, box |-> b, parent |-> p, list |-> m4dir.list]
    BY <1>4 DEF DirTyped
  <2> QED BY <2>1 DEF DirTyped
<1>5. CASE m4dir' = [m4dir EXCEPT !.list = l]
  <2>1. m4dir' = [dir |-> m4dir.dir, box |-> m4dir.box, parent |-> m4dir.parent, list |-> l]
    BY <1>5 DEF DirTyped
  <2> QED BY <2>1 DEF DirTyped
<1> QED BY <1>1, <1>2, <1>3, <1>4, <1>5

(* C_CD goes to a directory, into an image or out of it (cmd_cd).          *)
LEMMA CdFits == ASSUME DirTyped, NEW a \in Args, cmd_cd(a) PROVE DirTyped'
<1>1. m4dir.dir \in Paths /\ m4dir.parent \in Paths /\ Root \in Paths
  BY PathsOfPaths DEF DirTyped
<1>2. CASE m4dir' = m4dir
  BY <1>1, <1>2, DirMoves
<1>3. CASE m4dir' = container_exit
  BY <1>1, <1>3, DirMoves DEF container_exit
<1>4. CASE m4dir' = [container_exit EXCEPT !.dir = Root]
  <2>1. m4dir' = [dir |-> Root, box |-> FALSE, parent |-> Root, list |-> m4dir.list]
    BY <1>4 DEF container_exit, DirTyped
  <2> QED BY <1>1, <2>1, DirMoves
<1>5. CASE \E d \in Paths : m4dir' = [m4dir EXCEPT !.dir = d]
  BY <1>1, <1>5, DirMoves
<1>6. CASE \E p \in Paths : DskName(p) /\ m4dir' = container_enter_dsk(p)
  <2>1. PICK p \in Paths : p # Root /\ m4dir' = container_enter_dsk(p)
    BY <1>6 DEF DskName
  <2>2. m4dir.dir \o <<p[Len(p)]>> \in Paths
    BY <1>1, <2>1, PathsOfPaths
  <2> QED BY <1>1, <2>1, <2>2, DirMoves DEF container_enter_dsk
<1>7. resolve_path(a) \in SUBSET Paths
  BY Resolved
<1> QED BY <1>1, <1>2, <1>3, <1>4, <1>5, <1>6, <1>7 DEF cmd_cd

(* A step that changes a handle, or adds and removes entries of the card.   *)
LEMMA FilesMove ==
  ASSUME FilesTyped, NEW F \in SUBSET Paths, NEW D \in SUBSET Paths, NEW h, NEW S \in SUBSET Paths,
         AtMostOne(S),
         m4fh' = m4fh \/ m4fh' = [m4fh EXCEPT ![h] = S],
         m4sd' = m4sd \/ m4sd' = [files |-> F, dirs |-> D] \/ m4sd' = [m4sd EXCEPT !.files = F]
           \/ m4sd' = [m4sd EXCEPT !.dirs = D]
  PROVE  FilesTyped'
<1>1. m4fh' \in [0..3 -> SUBSET Paths] /\ \A x \in 0..3 : m4fh'[x] = m4fh[x] \/ m4fh'[x] = S
  BY DEF FilesTyped
<1>2. \A x \in 0..3 : AtMostOne(m4fh'[x])
  BY <1>1 DEF FilesTyped
<1>3. m4sd' \in [files : SUBSET Paths, dirs : SUBSET Paths]
  BY DEF FilesTyped
<1> QED BY <1>1, <1>2, <1>3 DEF FilesTyped

CardFiles == DirTyped /\ FilesTyped

(* With directory, handles and card left alone, what is kept of them       *)
(* stays.                                                                  *)
LEMMA SameFiles == CardFiles /\ UNCHANGED fsVars => CardFiles'
BY DEF CardFiles, fsVars, DirTyped, FilesTyped, AtMostOne

(* With the directory left alone, it stays typed.                          *)
LEMMA SameDir == DirTyped /\ UNCHANGED m4dir => DirTyped'
BY DEF DirTyped

(* With handles and card left alone, they stay typed.                      *)
LEMMA SameCard == FilesTyped /\ UNCHANGED <<m4fh, m4sd>> => FilesTyped'
BY DEF FilesTyped, AtMostOne

(* Opening puts at most one file in a handle (cmd_open).                   *)
LEMMA OpenFits ==
  ASSUME CardFiles, NEW mode, NEW a \in Args, cmd_open(mode, a)
  PROVE  CardFiles'
<1>0. DirTyped /\ FilesTyped /\ DirTyped' /\ m4sd.files \in SUBSET Paths /\ {} \in SUBSET Paths
  BY SameDir DEF CardFiles, cmd_open, FilesTyped
<1>1. resolve_path(a) \in SUBSET Paths /\ AtMostOne(resolve_path(a)) /\ AtMostOne({})
  BY <1>0, Resolved DEF AtMostOne
<1>2. CASE UNCHANGED <<m4fh, m4sd>>
  BY <1>0, <1>2, SameCard DEF CardFiles
<1>3. CASE ~UNCHANGED <<m4fh, m4sd>>
  <2>1. PICK h, found :
          /\ found = container_open_file(a) \/ found = {p \in resolve_path(a) : Creatable(p)}
               \/ found = try_open_cpc(a)
          /\ m4fh' = [m4fh EXCEPT ![h] = found]
          /\ m4sd' = m4sd \/ m4sd' = [m4sd EXCEPT !.files = @ \union found]
    BY <1>3 DEF cmd_open
  <2>2. found \in SUBSET Paths /\ AtMostOne(found)
    BY <1>1, <2>1, PathsOfPaths DEF container_open_file, try_open_cpc, AtMostOne
  <2>3. PICK F \in SUBSET Paths : F = m4sd.files \union found
    BY <1>0, <2>2
  <2>4. m4sd' = m4sd \/ m4sd' = [m4sd EXCEPT !.files = F]
    BY <2>1, <2>3
  <2> QED BY <1>0, <2>1, <2>2, <2>3, <2>4, FilesMove DEF CardFiles
<1> QED BY <1>2, <1>3

(* The commands that add and remove entries.                                *)
LEMMA EditsFit ==
  ASSUME CardFiles, NEW a \in Args, NEW b \in Args,
         cmd_erasefile(a) \/ cmd_makedir(a) \/ cmd_rename(a, b) \/ cmd_copyfile(a, b) \/ cmd_httpget(a)
  PROVE  CardFiles'
<1>0. /\ DirTyped /\ FilesTyped /\ m4sd.files \in SUBSET Paths /\ m4sd.dirs \in SUBSET Paths
      /\ {} \in SUBSET Paths
  BY DEF CardFiles, FilesTyped
<1>1. /\ resolve_path(a) \in SUBSET Paths /\ resolve_path(b) \in SUBSET Paths
      /\ AtMostOne({})
  BY <1>0, Resolved DEF AtMostOne
<1>2. UNCHANGED <<m4dir, m4fh>>
  BY DEF cmd_erasefile, cmd_makedir, cmd_rename, cmd_copyfile, cmd_httpget
<1>3. DirTyped'
  BY <1>0, <1>2, SameDir
<1>4. CASE cmd_erasefile(a)
  <2>1. PICK F \in SUBSET Paths, D \in SUBSET Paths : m4sd' = [files |-> F, dirs |-> D]
    BY <1>0, <1>4 DEF cmd_erasefile
  <2> QED BY <1>0, <1>1, <1>2, <1>3, <2>1, FilesMove DEF CardFiles
<1>5. CASE cmd_makedir(a)
  <2>1. PICK D \in SUBSET Paths : m4sd' = [m4sd EXCEPT !.dirs = D]
    BY <1>0, <1>1, <1>5 DEF cmd_makedir
  <2> QED BY <1>0, <1>1, <1>2, <1>3, <2>1, FilesMove DEF CardFiles
<1>6. CASE cmd_rename(a, b) \/ cmd_copyfile(a, b) \/ cmd_httpget(a)
  <2>1. m4sd' = m4sd \/ \E F \in SUBSET Paths : m4sd' = [m4sd EXCEPT !.files = F]
    <3>1. ASSUME NEW from \in SUBSET Paths, NEW to \in SUBSET Paths
          PROVE  /\ (m4sd.files \ from) \union to \in SUBSET Paths
                 /\ m4sd.files \union to \in SUBSET Paths /\ m4sd.files \ to \in SUBSET Paths
      BY <1>0
    <3>3. CASE cmd_rename(a, b)
      <4>1. \E from, to \in SUBSET Paths :
              m4sd' = m4sd \/ m4sd' = [m4sd EXCEPT !.files = (@ \ from) \union to]
        <5> DEFINE from == IF in_container THEN {} ELSE {p \in resolve_path(a) : IsFile(p)}
                   to == {p \in resolve_path(b) : Creatable(p)}
        <5>1. from \in SUBSET Paths /\ to \in SUBSET Paths
          BY <1>0, <1>1
        <5>2. m4sd' = m4sd \/ m4sd' = [m4sd EXCEPT !.files = (@ \ from) \union to]
          BY <3>3 DEF cmd_rename
        <5> HIDE DEF from, to
        <5> QED BY <5>1, <5>2
      <4> QED BY <3>1, <4>1
    <3>4. CASE cmd_copyfile(a, b)
      <4> DEFINE to == {p \in resolve_path(b) : Creatable(p)}
      <4>1. to \in SUBSET Paths
        BY <1>1
      <4>2. m4sd' = m4sd \/ m4sd' = [m4sd EXCEPT !.files = @ \union to]
        BY <3>4 DEF cmd_copyfile
      <4> HIDE DEF to
      <4> QED BY <1>0, <3>1, <4>1, <4>2
    <3>5. CASE cmd_httpget(a)
      <4> DEFINE to == {p \in resolve_path(a) : Creatable(p)}
      <4>1. to \in SUBSET Paths
        BY <1>1
      <4>2. \/ m4sd' = m4sd \/ m4sd' = [m4sd EXCEPT !.files = @ \union to]
            \/ m4sd' = [m4sd EXCEPT !.files = @ \ to]
        BY <3>5 DEF cmd_httpget
      <4> HIDE DEF to
      <4> QED BY <1>0, <3>1, <4>1, <4>2
    <3> QED BY <1>6, <3>3, <3>4, <3>5
  <2> QED BY <1>0, <1>1, <1>2, <1>3, <2>1, FilesMove DEF CardFiles
<1> QED BY <1>4, <1>5, <1>6

(* Listings and handles.                                                    *)
LEMMA ListsFit ==
  ASSUME CardFiles, NEW h, cmd_readdir \/ cmd_dirsetargs \/ cmd_close(h)
  PROVE  CardFiles'
<1>0. /\ DirTyped /\ FilesTyped /\ {} \in SUBSET Paths /\ AtMostOne({})
      /\ m4dir.dir \in Paths /\ m4dir.box \in BOOLEAN
  BY DEF CardFiles, AtMostOne, DirTyped
<1>1. CASE cmd_close(h)
  BY <1>0, <1>1, SameDir, FilesMove DEF cmd_close, CardFiles
<1>2. CASE cmd_readdir \/ cmd_dirsetargs
  <2>1. UNCHANGED <<m4fh, m4sd>> /\ \E l : m4dir' = [m4dir EXCEPT !.list = l]
    BY <1>2 DEF cmd_readdir, cmd_dirsetargs
  <2> QED BY <1>0, <2>1, SameCard, DirMoves DEF CardFiles
<1> QED BY <1>1, <1>2

(* Every command keeps directory, handles and card to paths below the root. *)
LEMMA CommandFiles ==
  ASSUME CardFiles, NEW c \in Commands, m4board_execute(c)
  PROVE  CardFiles'
<1>0. /\ DirTyped /\ FilesTyped
      /\ c.op \in {"cd", "open", "fsize", "erasefile", "makedir", "rename", "copyfile", "httpget"} => c.a \in Args
      /\ c.op \in {"rename", "copyfile"} => c.b \in Args
  BY M4Assumption DEF CardFiles
<1> DEFINE Edit == \/ c.op = "cd" /\ cmd_cd(c.a)
                   \/ c.op = "open" /\ cmd_open(c.mode, c.a)
                   \/ c.op = "erasefile" /\ cmd_erasefile(c.a)
                   \/ c.op = "makedir" /\ cmd_makedir(c.a)
                   \/ c.op = "httpget" /\ cmd_httpget(c.a)
                   \/ c.op = "rename" /\ cmd_rename(c.a, c.b)
                   \/ c.op = "copyfile" /\ cmd_copyfile(c.a, c.b)
                   \/ cmd_readdir \/ cmd_dirsetargs \/ cmd_close(c.h)
           Look == \/ cmd_read(c.h) \/ cmd_read2(c.h) \/ cmd_seek(c.h) \/ cmd_fstat(c.h)
                   \/ cmd_eof(c.h) \/ cmd_ftell(c.h)
                   \/ cmd_write(c.h) \/ cmd_write2(c.h) \/ cmd_writesector
                   \/ cmd_readsector \/ cmd_fsize(c.a)
                   \/ cmd_version \/ cmd_getpath \/ cmd_free \/ cmd_httpgetmem
                   \/ cmd_copybuf \/ cmd_sdread \/ cmd_sdwrite \/ cmd_formattrack
<1>1. CASE Edit
  <2>1. CASE c.op = "cd" /\ cmd_cd(c.a)
    <3>1. UNCHANGED <<m4fh, m4sd>>
      BY <2>1 DEF cmd_cd
    <3> QED BY <1>0, <2>1, <3>1, CdFits, SameCard DEF CardFiles
  <2>2. CASE c.op = "open" /\ cmd_open(c.mode, c.a)
    BY <1>0, <2>2, OpenFits
  <2>3. CASE \/ c.op = "erasefile" /\ cmd_erasefile(c.a)
             \/ c.op = "makedir" /\ cmd_makedir(c.a)
             \/ c.op = "httpget" /\ cmd_httpget(c.a)
    BY <1>0, <2>3, EditsFit
  <2>4. CASE \/ c.op = "rename" /\ cmd_rename(c.a, c.b)
             \/ c.op = "copyfile" /\ cmd_copyfile(c.a, c.b)
    BY <1>0, <2>4, EditsFit
  <2>5. CASE cmd_readdir \/ cmd_dirsetargs \/ cmd_close(c.h)
    BY <2>5, ListsFit
  <2> QED BY <1>1, <2>1, <2>2, <2>3, <2>4, <2>5
<1>2. Look => UNCHANGED fsVars
  BY DEF cmd_read, cmd_read2, cmd_seek, cmd_fstat, cmd_eof, cmd_ftell, cmd_write, cmd_write2,
    cmd_writesector, HandleOp, cmd_readsector, cmd_fsize, cmd_version, cmd_getpath, cmd_free,
    cmd_httpgetmem, cmd_copybuf, cmd_sdread, cmd_sdwrite, cmd_formattrack
<1>3. Edit \/ Look \/ UNCHANGED fsVars
  <2>1. UNCHANGED <<fsVars, m4on>> \/ UNCHANGED <<fsVars, netVars>> => UNCHANGED fsVars
    OBVIOUS
  <2> QED BY <2>1, Zenon DEF m4board_execute
<1> HIDE DEF Edit, Look
<1> QED BY <1>1, <1>2, <1>3, SameFiles

-----------------------------------------------------------------------------
(* A set of numbers has a least one.                                        *)
LEMMA LeastOf ==
  ASSUME NEW T \in SUBSET Nat, T # {}
  PROVE  \E m \in T : \A k \in T : m <= k
<1> DEFINE R == {ss \in Nat \X Nat : ss[1] < ss[2]}
<1>1. IsWellFoundedOn(R, Nat)
  BY NatLessThanWellFounded DEF OpToRel
<1>2. PICK m \in T : \A k \in T : ~(<<k, m>> \in R)
  <2> HIDE DEF R
  <2> QED BY <1>1, WFMin
<1>3. \A k \in T : <<k, m>> \in R <=> k < m
  OBVIOUS
<1>4. \A k \in T : m <= k
  <2> TAKE k \in T
  <2>1. k \in Nat /\ m \in Nat /\ ~(k < m)
    BY <1>2, <1>3
  <2> QED BY <2>1
<1> QED BY <1>4

(* A step that leaves every socket on its port leaves the mappings right.   *)
LEMMA SamePorts ==
  ASSUME PortsInv, m4map' = m4map, SockTyped', \A s \in Slots : m4sock'[s].port = m4sock[s].port
  PROVE  PortsInv'
BY DEF PortsInv, SocketOn

(* A socket that changes its state keeps its port.                         *)
LEMMA SocketMoves ==
  ASSUME PortsInv, m4map' = m4map, NEW s, NEW st \in {"bound", "listening", "connected"},
         m4sock' = [m4sock EXCEPT ![s].st = st], s \in Slots => m4sock[s].st # "none"
  PROVE  PortsInv'
<1>1. SockTyped /\ m4sock \in [Slots -> SockRec]
  BY DEF PortsInv, SockTyped
<1>2. ASSUME NEW x \in Slots
      PROVE  /\ m4sock'[x] = IF x = s THEN [st |-> st, port |-> m4sock[x].port] ELSE m4sock[x]
             /\ m4sock[x] \in SockRec
  BY <1>1 DEF SockRec
<1>3. m4sock' \in [Slots -> SockRec]
  <2>1. \A f, g : f \in [Slots -> SockRec] /\ g = [f EXCEPT ![s].st = st] => g = [x \in Slots |-> g[x]]
    OBVIOUS
  <2>2. ASSUME NEW x \in Slots PROVE m4sock'[x] \in SockRec
    <3>1. m4sock[x].port \in Nat
      BY <1>2 DEF SockRec
    <3>2. [st |-> st, port |-> m4sock[x].port] \in SockRec
      BY <3>1 DEF SockRec
    <3> QED BY <1>2, <3>2
  <2>3. m4sock' = [x \in Slots |-> m4sock'[x]]
    BY <1>1, <2>1
  <2> QED BY <2>2, <2>3
<1>4. \A x \in Slots : m4sock'[x].port = m4sock[x].port /\ (m4sock'[x].st \in {"none", "open"} => m4sock[x].st = m4sock'[x].st)
  BY <1>2
<1>5. SockTyped'
  BY <1>1, <1>3, <1>4 DEF SockTyped
<1> QED BY <1>4, <1>5, SamePorts

(* Closing every socket makes every mapping inactive                        *)
(* (m4_close_all_sockets).                                                  *)
LEMMA CloseAll == PortsInv /\ m4_close_all_sockets => PortsInv'
<1> SUFFICES ASSUME PortsInv, m4_close_all_sockets PROVE PortsInv'
  OBVIOUS
<1>1. SockTyped'
  BY DEF m4_close_all_sockets, SockTyped, SockRec, Closed
<1>2. ASSUME NEW n \in m4map' PROVE n \in MapRec /\ n.active = FALSE
  <2>1. PICK m \in m4map : n = [m EXCEPT !.active = FALSE]
    BY DEF m4_close_all_sockets
  <2>2. m \in MapRec
    BY DEF PortsInv
  <2> QED BY <2>1, <2>2 DEF MapRec
<1> QED BY <1>1, <1>2 DEF PortsInv

(* The user's table moves a mapping to the user's port or removes it       *)
(* (set_port_mapping).                                                     *)
LEMMA SetPort ==
  ASSUME PortsInv, NEW port \in Nat \ {0}, set_port_mapping(port) \/ remove_port_mapping(port)
  PROVE  PortsInv'
<1>1. m4sock' = m4sock /\ SockTyped' /\ m4map \subseteq MapRec
  BY DEF set_port_mapping, remove_port_mapping, PortsInv, SockTyped
<1>2. ASSUME NEW n \in m4map', n \notin m4map
      PROVE  n \in MapRec /\ n.host = UserPort /\ n.user = TRUE
  <2>1. PICK old : n = [cpc |-> port, host |-> UserPort, user |-> TRUE, active |-> \E m \in old : m.active]
    BY <1>2 DEF set_port_mapping, remove_port_mapping
  <2>2. (\E m \in old : m.active) \in BOOLEAN
    OBVIOUS
  <2>3. PICK b \in BOOLEAN : n = [cpc |-> port, host |-> UserPort, user |-> TRUE, active |-> b]
    BY <2>1, <2>2
  <2> QED BY <2>3, M4Assumption DEF MapRec
<1>3. m4map' \subseteq MapRec
  BY <1>1, <1>2
<1> QED BY <1>1, <1>2, <1>3 DEF PortsInv, SocketOn

(* Setting a socket's slot changes that socket alone.                      *)
LEMMA SocketSet ==
  ASSUME SockTyped, NEW s, NEW r \in SockRec, r.st \in {"none", "open"} => r.port = 0,
         m4sock' = [m4sock EXCEPT ![s] = r]
  PROVE  SockTyped' /\ \A x \in Slots : m4sock'[x] = IF x = s THEN r ELSE m4sock[x]
<1>1. m4sock \in [Slots -> SockRec]
  BY DEF SockTyped
<1>2. \A x \in Slots : m4sock'[x] = IF x = s THEN r ELSE m4sock[x]
  BY <1>1
<1>3. m4sock' \in [Slots -> SockRec]
  BY <1>1
<1>4. \A x \in Slots : m4sock'[x].st \in {"none", "open"} => m4sock'[x].port = 0
  BY <1>2 DEF SockTyped
<1> QED BY <1>2, <1>3, <1>4 DEF SockTyped

(* Closing a socket makes the mapping of its port inactive (cmd_netclose).  *)
LEMMA CloseFits == ASSUME PortsInv, NEW s, cmd_netclose(s) PROVE PortsInv'
<1> DEFINE bound == {m \in m4map : s \in Slots /\ m.active /\ m.host = m4sock[s].port}
<1>1. /\ m4sock' = [m4sock EXCEPT ![s] = Closed]
      /\ \/ bound = {} /\ m4map' = m4map
         \/ \E m \in bound : m4map' = (m4map \ {m}) \union {[m EXCEPT !.active = FALSE]}
  BY DEF cmd_netclose
<1>2. SockTyped /\ m4map \subseteq MapRec
  BY DEF PortsInv
<1>3. Closed \in SockRec /\ Closed.st = "none" /\ Closed.port = 0
  BY DEF Closed, SockRec
<1>4. SockTyped' /\ \A x \in Slots : m4sock'[x] = IF x = s THEN Closed ELSE m4sock[x]
  BY <1>1, <1>2, <1>3, SocketSet
<1>5. \A m \in bound : m \in m4map /\ m.active = TRUE /\ m.host = m4sock[s].port
  BY <1>2 DEF MapRec
<1>6. \A m \in m4map : m.active = TRUE /\ s \in Slots /\ m.host = m4sock[s].port => m \in bound
  BY <1>2 DEF MapRec
<1> HIDE DEF bound
<1>7. ASSUME NEW n \in m4map', n.active = TRUE
      PROVE  /\ n \in m4map
             /\ s \in Slots /\ n.host = m4sock[s].port => n.host = UserPort
  <2>1. CASE bound = {} /\ m4map' = m4map
    BY <1>6, <1>7, <2>1
  <2>2. CASE \E m \in bound : m4map' = (m4map \ {m}) \union {[m EXCEPT !.active = FALSE]}
    <3>1. PICK m \in bound : m4map' = (m4map \ {m}) \union {[m EXCEPT !.active = FALSE]}
      BY <2>2
    <3>2. [m EXCEPT !.active = FALSE].active = FALSE
      BY <1>2, <1>5 DEF MapRec
    <3>3. n \in m4map /\ n # m
      BY <1>7, <3>1, <3>2
    <3>4. m.host = n.host => m.host = UserPort
      BY <1>5, <1>7, <3>3 DEF PortsInv
    <3> QED BY <1>5, <3>3, <3>4
  <2> QED BY <1>1, <2>1, <2>2
<1>8. m4map' \subseteq MapRec
  <2>1. \A m \in MapRec : [m EXCEPT !.active = FALSE] \in MapRec
    BY DEF MapRec
  <2> QED BY <1>1, <1>2, <1>5, <2>1
<1>9. ASSUME NEW n \in m4map', n.active = TRUE, n.host # UserPort
      PROVE  \E x \in Slots : m4sock'[x].port = n.host
  <2>1. n \in m4map /\ (s \in Slots => n.host # m4sock[s].port)
    BY <1>7, <1>9
  <2>2. PICK x \in Slots : m4sock[x].port = n.host
    BY <1>9, <2>1 DEF PortsInv, SocketOn
  <2> QED BY <1>4, <2>1, <2>2
<1> QED BY <1>4, <1>7, <1>8, <1>9 DEF PortsInv, SocketOn

(* A bound port is free, so no other mapping is active on it (cmd_netbind). *)
LEMMA BindFits ==
  ASSUME PortsInv, NEW s, NEW c \in Commands, c.op = "netbind", cmd_netbind(s, c.port)
  PROVE  PortsInv'
<1> DEFINE port == c.port
           host == resolve_host_port(port)
           free == {q \in host..(host + BindTries - 1) : q <= MaxPort /\ q \notin Held}
<1>1. port \in Nat \ {0} /\ BindTries \in Nat /\ SockTyped /\ m4map \subseteq MapRec
  BY M4Assumption DEF PortsInv
<1>2. CASE UNCHANGED netVars
  BY <1>2 DEF netVars, PortsInv, SockTyped, SocketOn
<1>3. CASE ~UNCHANGED netVars
  <2>1. PICK p :
          /\ p = CHOOSE x \in free : \A y \in free : x <= y
          /\ free # {} /\ s \in Slots /\ m4sock[s].st = "open"
          /\ m4sock' = [m4sock EXCEPT ![s] = [st |-> "bound", port |-> p]]
          /\ m4map' = {m \in m4map : m.cpc # port} \union
                        {[cpc |-> port, host |-> p, user |-> host # port, active |-> TRUE]}
    BY <1>3 DEF cmd_netbind, Usable
  <2>2. host \in Nat \ {0}
    BY <1>1 DEF resolve_host_port, MapRec
  <2> HIDE DEF port, host
  <2>3. free \in SUBSET Nat
    BY <1>1, <2>2
  <2>4. \E x \in free : \A y \in free : x <= y
    BY <2>1, <2>3, LeastOf
  <2>5. p \in free
    BY <2>1, <2>4
  <2>6. p \in host..(host + BindTries - 1) /\ p \in Nat \ {0} /\ p \notin Held
    BY <1>1, <2>2, <2>5
  <2> HIDE DEF free
  <2>7. PICK u \in BOOLEAN : u = (host # port)
    OBVIOUS
  <2>8. PICK new : new = [cpc |-> port, host |-> p, user |-> u, active |-> TRUE]
    OBVIOUS
  <2>9. new \in MapRec /\ new.host = p /\ new.active = TRUE /\ new.user = u
    BY <1>1, <2>6, <2>8 DEF MapRec
  <2>10. m4map' = {m \in m4map : m.cpc # port} \union {new}
    BY <2>1, <2>7, <2>8
  <2>11. PICK r : r = [st |-> "bound", port |-> p]
    OBVIOUS
  <2>12. r \in SockRec /\ r.st = "bound" /\ r.port = p
    BY <2>6, <2>11 DEF SockRec
  <2>13. SockTyped' /\ \A x \in Slots : m4sock'[x] = IF x = s THEN r ELSE m4sock[x]
    BY <1>1, <2>1, <2>11, <2>12, SocketSet
  <2>14. \A x \in Slots : m4sock[x].port # p
    BY <2>6 DEF Held
  <2>15. m4map' \subseteq MapRec
    BY <1>1, <2>9, <2>10
  <2>16. m4sock[s].port = 0
    BY <1>1, <2>1 DEF SockTyped
  <2>17. ASSUME NEW n \in m4map', n.active = TRUE, n.host # UserPort
         PROVE  \E x \in Slots : m4sock'[x].port = n.host
    <3>1. CASE n = new
      BY <2>1, <2>9, <2>12, <2>13, <3>1
    <3>2. CASE n # new
      <4>1. n \in m4map /\ n.host # 0
        BY <1>1, <2>10, <3>2 DEF MapRec
      <4>2. PICK x \in Slots : m4sock[x].port = n.host
        BY <2>17, <4>1 DEF PortsInv, SocketOn
      <4> QED BY <2>13, <2>16, <4>1, <4>2
    <3> QED BY <3>1, <3>2
  <2>18. ASSUME NEW n \in m4map, n.active = TRUE, n.host # UserPort
         PROVE  n.host # p
    BY <2>14, <2>18 DEF PortsInv, SocketOn
  <2>19. ASSUME NEW m \in m4map', NEW n \in m4map', m.active = TRUE, n.active = TRUE,
                m.host = n.host, m.host # UserPort
         PROVE  m = n
    BY <2>9, <2>10, <2>18, <2>19 DEF PortsInv
  <2>20. ASSUME UserPortApart, NEW n \in m4map', n.active = TRUE, n.user = FALSE
         PROVE  n.host # UserPort
    <3>1. CASE n = new
      <4>1. host = port
        BY <2>7, <2>9, <2>20, <3>1
      <4>2. p \in c.port..(c.port + BindTries - 1)
        BY <2>6, <4>1 DEF port
      <4> QED BY <2>9, <2>20, <3>1, <4>2 DEF UserPortApart
    <3>2. CASE n # new
      BY <2>10, <2>20, <3>2 DEF PortsInv
    <3> QED BY <3>1, <3>2
  <2> QED BY <2>13, <2>15, <2>17, <2>19, <2>20 DEF PortsInv, SocketOn
<1> QED BY <1>2, <1>3

(* With sockets and mappings left alone, what is kept of them stays.       *)
LEMMA SamePortsToo == PortsInv /\ UNCHANGED netVars => PortsInv'
BY DEF netVars, PortsInv, SockTyped, SocketOn

(* The other socket commands: a new socket is on no port, the rest leave    *)
(* every socket on its own.                                                 *)
LEMMA SocketFits ==
  ASSUME PortsInv, NEW s,
         \/ cmd_netsocket \/ cmd_netconnect(s) \/ cmd_netsend(s) \/ cmd_netrecv(s) \/ cmd_nethostip
         \/ cmd_netlisten(s) \/ cmd_netaccept(s)
  PROVE  PortsInv'
<1>1. CASE UNCHANGED netVars
  BY <1>1, SamePortsToo
<1>2. CASE cmd_netsend(s) \/ cmd_netrecv(s) \/ cmd_nethostip
  BY <1>2, SamePortsToo DEF cmd_netsend, cmd_netrecv, cmd_nethostip
<1>3. CASE cmd_netconnect(s) \/ cmd_netlisten(s) \/ cmd_netaccept(s)
  <2>1. m4map' = m4map
    BY <1>3 DEF cmd_netconnect, cmd_netlisten, cmd_netaccept
  <2>2. CASE m4sock' = m4sock
    BY <2>1, <2>2, SamePortsToo DEF netVars
  <2>3. CASE m4sock' # m4sock
    <3>1. PICK st \in {"bound", "listening", "connected"} :
            m4sock' = [m4sock EXCEPT ![s].st = st] /\ m4sock[s].st # "none"
      BY <1>3, <2>3 DEF cmd_netconnect, cmd_netlisten, cmd_netaccept, Usable
    <3> QED BY <2>1, <3>1, SocketMoves
  <2> QED BY <2>2, <2>3
<1>4. CASE cmd_netsocket
  <2>1. m4map' = m4map
    BY <1>4 DEF cmd_netsocket
  <2>2. CASE m4sock' = m4sock
    BY <2>1, <2>2, SamePortsToo DEF netVars
  <2>3. CASE m4sock' # m4sock
    <3> DEFINE free == {x \in Slots : m4sock[x].st = "none"}
    <3>1. PICK i : /\ i = CHOOSE x \in free : \A y \in free : x <= y
                   /\ free # {} /\ m4sock' = [m4sock EXCEPT ![i] = [st |-> "open", port |-> 0]]
      BY <1>4, <2>3 DEF cmd_netsocket
    <3>2. free \in SUBSET Nat
      BY M4Assumption
    <3>3. \E x \in free : \A y \in free : x <= y
      BY <3>1, <3>2, LeastOf
    <3>4. i \in Slots /\ m4sock[i].st = "none"
      BY <3>1, <3>3
    <3>5. PICK r : r = [st |-> "open", port |-> 0]
      OBVIOUS
    <3>6. r \in SockRec /\ r.port = 0 /\ SockTyped
      BY <3>5 DEF SockRec, PortsInv
    <3> HIDE DEF free
    <3>9. m4sock' = [m4sock EXCEPT ![i] = r]
      BY <3>1, <3>5
    <3>7. SockTyped' /\ \A x \in Slots : m4sock'[x] = IF x = i THEN r ELSE m4sock[x]
      BY <3>6, <3>9, SocketSet
    <3>8. m4sock[i].port = 0
      BY <3>4, <3>6 DEF SockTyped
    <3> QED BY <2>1, <3>6, <3>7, <3>8, SamePorts
  <2> QED BY <2>2, <2>3
<1> QED BY <1>2, <1>3, <1>4

(* Every command keeps the mappings right.                                 *)
LEMMA CommandPorts ==
  ASSUME PortsInv, NEW c \in Commands, m4board_execute(c)
  PROVE  PortsInv'
<1> DEFINE Sock == \/ cmd_netsocket \/ cmd_netconnect(c.s) \/ cmd_netsend(c.s) \/ cmd_netrecv(c.s)
                   \/ cmd_nethostip \/ cmd_netlisten(c.s) \/ cmd_netaccept(c.s)
           Close == cmd_netclose(c.s)
           Bind == c.op = "netbind" /\ cmd_netbind(c.s, c.port)
<1>1. Sock \/ Close \/ Bind \/ UNCHANGED netVars
  <2>1. UNCHANGED <<netVars, m4on>> \/ UNCHANGED <<fsVars, netVars>> => UNCHANGED netVars
    OBVIOUS
  <2> QED BY <2>1, Zenon DEF m4board_execute
<1>2. Sock => PortsInv'
  BY SocketFits
<1>3. Close => PortsInv'
  BY CloseFits
<1>4. Bind => PortsInv'
  BY BindFits
<1> HIDE DEF Sock, Close, Bind
<1> QED BY <1>1, <1>2, <1>3, <1>4, SamePortsToo

-----------------------------------------------------------------------------
(* The steps of the board, its server and the host.                         *)
LEMMA ServiceFits == CardInv /\ Service => CardInv'
<1> SUFFICES ASSUME CardInv, Service PROVE CardInv'
  OBVIOUS
<1>1. PICK c \in Commands : c = m4dev.pending /\ m4dev.pending # None /\ m4board_execute(c)
  BY DEF Service, sync_m4_command, CardInv, CardTyped, DevTyped
<1>2. UNCHANGED <<m4prog, m4rom, httpVars>>
  BY <1>1 DEF m4board_execute, Service
<1>3. CardFiles'
  BY <1>1, CommandFiles DEF CardInv, CardTyped, CardFiles
<1>4. Waiting'
  BY <1>1, CommandAnswers, AnswerFits DEF CardInv, CardTyped, Waiting
<1>5. PortsInv'
  BY <1>1, CommandPorts DEF CardInv
<1>6. HttpTyped'
  BY <1>2 DEF CardInv, CardTyped, HttpTyped, httpVars
<1> QED BY <1>2, <1>3, <1>4, <1>5, <1>6 DEF CardInv, CardTyped, CardFiles, Waiting

(* The guest's writes keep it.                                             *)
LEMMA GuestFits == CardInv /\ Guest => CardInv'
<1> SUFFICES ASSUME CardInv, Guest PROVE CardInv'
  OBVIOUS
<1>1. UNCHANGED <<m4prog, fsVars, m4on, netVars, m4rom, httpVars>>
  BY DEF Guest, m4_data_write, latch_execute
<1>2. Waiting'
  BY MailFits DEF Guest, CardInv, CardTyped, Waiting
<1>3. CardFiles' /\ PortsInv'
  BY <1>1, SameFiles, SamePortsToo DEF CardInv, CardTyped, CardFiles
<1>4. HttpTyped'
  BY <1>1 DEF CardInv, CardTyped, HttpTyped, httpVars
<1> QED BY <1>1, <1>2, <1>3, <1>4 DEF CardInv, CardTyped, CardFiles, Waiting

(* With the device left alone, what is kept of the mailbox stays.          *)
LEMMA SameDev == Waiting /\ UNCHANGED m4dev => Waiting'
BY DEF Waiting, DevTyped, AnswerIsForLastKick

(* Back to the root: reset, the options dialog and the IPC's reset.         *)
LEMMA ResetsFit ==
  ASSUME CardInv, UNCHANGED httpVars, m4board_reset \/ ToggleBoard \/ ipc_m4_reset
  PROVE  CardInv'
<1>1. /\ m4dir' = [dir |-> Root, box |-> FALSE, parent |-> Root, list |-> EmptyListing]
      /\ m4_close_all_sockets /\ m4prog' = m4prog /\ m4sd' = m4sd
      /\ m4fh' = m4fh \/ m4fh' = [h \in 0..3 |-> {}]
      /\ m4_dev_reset \/ m4dev' = m4dev
      /\ m4rom' \in {"loaded", "missing", "none"}
  BY DEF m4board_reset, ToggleBoard, ipc_m4_reset, m4board_load_rom, CardInv, CardTyped
<1>2. DirTyped'
  BY <1>1, DirMoves, PathsOfPaths DEF CardInv, CardTyped
<1>3. FilesTyped'
  BY <1>1 DEF CardInv, CardTyped, FilesTyped, AtMostOne
<1>4. Waiting'
  BY <1>1, ResetFits, SameDev DEF CardInv, CardTyped, Waiting
<1>5. PortsInv'
  BY <1>1, CloseAll DEF CardInv
<1>6. HttpTyped'
  BY DEF CardInv, CardTyped, HttpTyped, httpVars
<1> QED BY <1>1, <1>2, <1>3, <1>4, <1>5, <1>6 DEF CardInv, CardTyped, Waiting

(* The server's thread and its callers leave the board alone.               *)
LEMMA HttpFits ==
  ASSUME CardInv, UNCHANGED m4Vars, HttpTyped'
  PROVE  CardInv'
<1>1. UNCHANGED <<m4prog, m4dev, fsVars, netVars, m4rom>>
  BY DEF m4Vars
<1>2. CardFiles' /\ PortsInv' /\ Waiting'
  BY <1>1, SameFiles, SamePortsToo, SameDev DEF CardInv, CardTyped, CardFiles, Waiting
<1> QED BY <1>1, <1>2 DEF CardInv, CardTyped, CardFiles, Waiting

Threads == {"none", "binding", "idle", "client", "preview", "exited"}
(* The server's record keeps its fields.                                   *)
LEMMA ThreadsFit ==
  ASSUME HttpTyped, NEW r, NEW t \in Threads, NEW q, NEW st,
         \/ h4' = h4
         \/ h4' = [h4 EXCEPT !.thread = t]
         \/ h4' = [h4 EXCEPT !.running = r]
         \/ h4' = [h4 EXCEPT !.running = r, !.thread = t]
         \/ h4' = [h4 EXCEPT !.thread = t, !.running = r]
         \/ h4' = [h4 EXCEPT !.pend = q]
         \/ h4' = [h4 EXCEPT !.thread = t, !.pend = q, !.status = st]
  PROVE  HttpTyped'
<1>1. h4' = [running |-> h4'.running, thread |-> h4'.thread, pend |-> h4'.pend, status |-> h4'.status]
  BY DEF HttpTyped
<1>2. h4'.thread \in {h4.thread, t}
  BY DEF HttpTyped
<1> QED BY <1>1, <1>2 DEF HttpTyped, Threads

(* A request handled puts the server back at its socket.                   *)
LEMMA HandledFits == \A status, req : HttpTyped /\ Handled(status, req) => HttpTyped'
<1> SUFFICES ASSUME NEW status, NEW req, HttpTyped, Handled(status, req) PROVE HttpTyped'
  OBVIOUS
<1>1. PICK q : h4' = [h4 EXCEPT !.thread = "idle", !.pend = q, !.status = status]
  BY DEF Handled
<1>2. "idle" \in Threads
  BY DEF Threads
<1> QED BY <1>1, <1>2, ThreadsFit

(* Starting, stopping and serving move the thread (run, start, stop).      *)
LEMMA CallsFit ==
  ASSUME HttpTyped,
         \/ \E c \in Callers : start(c) \/ start_thread(c) \/ stop(c) \/ stop_join(c)
         \/ run_bind \/ run_exit \/ run_drop \/ parse_request \/ run_preview_end
         \/ run_accept \/ run_upgrade \/ run_preview_close
  PROVE  HttpTyped'
<1>1. "idle" \in Threads /\ "binding" \in Threads /\ "none" \in Threads /\ "exited" \in Threads
      /\ "client" \in Threads /\ "preview" \in Threads
  BY DEF Threads
<1>2. CASE \E c \in Callers : start(c) \/ start_thread(c) \/ stop(c) \/ stop_join(c)
  BY <1>1, <1>2, ThreadsFit DEF start, start_thread, stop, stop_join
<1>3. CASE run_bind \/ run_exit \/ run_drop \/ parse_request \/ run_preview_end
  BY <1>1, <1>3, ThreadsFit DEF run_bind, run_exit, run_drop, parse_request, run_preview_end, Thread
<1>4. CASE run_accept \/ run_upgrade \/ run_preview_close
  BY <1>1, <1>4, ThreadsFit DEF run_accept, run_upgrade, run_preview_close, Thread
<1> QED BY <1>2, <1>3, <1>4

(* A request changes the card or the current directory, below the root.     *)
LEMMA RequestFits == CardInv /\ handle_request => CardInv'
<1> SUFFICES ASSUME CardInv, handle_request PROVE CardInv'
  OBVIOUS
<1>0. CardTyped /\ HttpTyped /\ FilesTyped /\ DirTyped /\ m4sd.files \in SUBSET Paths /\ m4sd.dirs \in SUBSET Paths
      /\ {} \in SUBSET Paths /\ AtMostOne({}) /\ m4dir.box \in BOOLEAN
  BY DEF CardInv, CardTyped, FilesTyped, DirTyped, AtMostOne
<1>1. CASE UNCHANGED m4Vars /\ \E status, req : Handled(status, req)
  BY <1>0, <1>1, HandledFits, HttpFits
<1>2. CASE \E p \in WebPaths : handle_upload(p) \/ config_rm(p) \/ config_mkdir(p) \/ config_cd(p)
  <2>1. PICK p \in Paths : handle_upload(p) \/ config_rm(p) \/ config_mkdir(p) \/ config_cd(p)
    BY <1>2, WebAssumption
  <2>2. UNCHANGED <<m4prog, m4dev, m4fh, netVars, m4rom>> /\ \E status, req : Handled(status, req)
    BY <2>1 DEF handle_upload, config_rm, config_mkdir, config_cd
  <2>3. HttpTyped' /\ PortsInv' /\ Waiting'
    BY <1>0, <2>2, HandledFits, SamePortsToo, SameDev DEF CardInv, CardTyped, Waiting
  <2>4. \A n \in 0..Len(p) : SubSeq(p, 1, n) \in Paths
    BY PathsOfPaths
  <2>5. CASE config_cd(p)
    <3>1. UNCHANGED <<m4fh, m4sd>> /\ m4dir' = [m4dir EXCEPT !.dir = p]
      BY <2>5 DEF config_cd
    <3> QED BY <1>0, <2>2, <2>3, <3>1, SameCard, DirMoves, PathsOfPaths DEF CardInv, CardTyped, Waiting
  <2>6. CASE handle_upload(p) \/ config_rm(p) \/ config_mkdir(p)
    <3>1. UNCHANGED m4dir
      BY <2>6 DEF handle_upload, config_rm, config_mkdir
    <3>2. \E F, D \in SUBSET Paths :
            m4sd' = [files |-> F, dirs |-> D] \/ m4sd' = [m4sd EXCEPT !.files = F] \/ m4sd' = [m4sd EXCEPT !.dirs = D]
      <4>1. CASE handle_upload(p)
        <5> DEFINE F == m4sd.files \union {p}
                   D == m4sd.dirs \union {SubSeq(p, 1, n) : n \in 0..(Len(p) - 1)}
        <5>1. \A n \in 0..(Len(p) - 1) : n \in 0..Len(p)
          BY DEF Paths
        <5>2. F \in SUBSET Paths /\ D \in SUBSET Paths
          BY <1>0, <2>4, <5>1
        <5>3. m4sd' = [files |-> F, dirs |-> D]
          BY <4>1 DEF handle_upload
        <5> HIDE DEF F, D
        <5> QED BY <5>2, <5>3
      <4>2. CASE config_rm(p)
        <5> DEFINE F == m4sd.files \ {p}
        <5>1. F \in SUBSET Paths
          BY <1>0
        <5>2. m4sd' = [m4sd EXCEPT !.files = F]
          BY <4>2 DEF config_rm
        <5> HIDE DEF F
        <5> QED BY <1>0, <5>1, <5>2
      <4>3. CASE config_mkdir(p)
        <5> DEFINE D == m4sd.dirs \union {SubSeq(p, 1, n) : n \in 0..Len(p)}
        <5>1. D \in SUBSET Paths
          BY <1>0, <2>4
        <5>2. m4sd' = [m4sd EXCEPT !.dirs = D]
          BY <4>3 DEF config_mkdir
        <5> HIDE DEF D
        <5> QED BY <1>0, <5>1, <5>2
      <4> QED BY <2>6, <4>1, <4>2, <4>3
    <3>3. FilesTyped'
      BY <1>0, <2>2, <3>2, FilesMove
    <3> QED BY <1>0, <2>2, <2>3, <3>1, <3>3, SameDir DEF CardInv, CardTyped, Waiting
  <2> QED BY <2>1, <2>5, <2>6
<1>3. CASE \/ handle_page \/ handle_files_api \/ handle_download \/ handle_sd_file
           \/ handle_status \/ handle_preview \/ handle_roms_api
           \/ \E w \in {"reset", "pause", "nmi"} : handle_queue(w)
  <2>1. UNCHANGED m4Vars /\ \E status, req : Handled(status, req)
    BY <1>3 DEF handle_page, handle_files_api, handle_download, handle_sd_file, handle_status,
      handle_preview, handle_roms_api, handle_queue, ReadOnly
  <2> QED BY <1>1, <2>1
<1> QED BY <1>2, <1>3 DEF handle_request

(* The host: the main thread, the user's port table, settings and the IPC.  *)
LEMMA HostFits == CardInv /\ Host => CardInv'
<1> SUFFICES ASSUME CardInv, Host PROVE CardInv'
  OBVIOUS
<1>0. CardTyped /\ HttpTyped /\ FilesTyped /\ DirTyped /\ Waiting /\ PortsInv
  BY DEF CardInv, CardTyped, Waiting
<1>1. CASE (m4board_reset \/ ToggleBoard) /\ UNCHANGED httpVars
  BY <1>1, ResetsFit
<1>2. CASE ipc_m4_reset
  <2>1. UNCHANGED httpVars
    BY <1>2 DEF ipc_m4_reset
  <2> QED BY <1>2, <2>1, ResetsFit
<1>3. CASE drain_pending
  <2>1. h4' = [h4 EXCEPT !.pend = {}]
    BY <1>3 DEF drain_pending
  <2>2. HttpTyped'
    BY <1>0, <2>1 DEF HttpTyped
  <2>3. CASE UNCHANGED m4Vars
    BY <2>2, <2>3, HttpFits
  <2>4. CASE m4board_reset
    <3>1. /\ m4dir' = [dir |-> Root, box |-> FALSE, parent |-> Root, list |-> EmptyListing]
          /\ m4_close_all_sockets /\ UNCHANGED <<m4prog, m4fh, m4sd, m4rom>> /\ m4_dev_reset
      BY <2>4 DEF m4board_reset
    <3>2. DirTyped' /\ FilesTyped'
      BY <1>0, <3>1, DirMoves, SameCard, PathsOfPaths
    <3>3. Waiting' /\ PortsInv'
      BY <1>0, <3>1, ResetFits, CloseAll DEF Waiting
    <3> QED BY <1>0, <2>2, <3>1, <3>2, <3>3 DEF CardInv, CardTyped, Waiting
  <2> QED BY <1>3, <2>3, <2>4 DEF drain_pending
<1>4. CASE \E port \in MappedPorts : set_port_mapping(port) \/ remove_port_mapping(port)
  <2>1. PICK port \in MappedPorts : set_port_mapping(port) \/ remove_port_mapping(port)
    BY <1>4
  <2>2. port \in Nat \ {0}
    <3>1. m4prog \subseteq Commands
      BY <1>0 DEF CardTyped, Commands
    <3> QED BY <3>1, M4Assumption DEF MappedPorts
  <2>3. UNCHANGED <<m4prog, m4dev, fsVars, m4on, m4sock, m4rom, httpVars>>
    BY <2>1 DEF set_port_mapping, remove_port_mapping
  <2>4. CardFiles' /\ Waiting' /\ PortsInv'
    BY <1>0, <2>1, <2>2, <2>3, SetPort, SameFiles, SameDev DEF CardFiles
  <2> QED BY <1>0, <2>3, <2>4 DEF CardInv, CardTyped, CardFiles, Waiting, HttpTyped, httpVars
<1>5. CASE \E c \in m4prog : c.op = "cd" /\ ipc_m4_cd(c.a)
  <2>1. PICK c \in m4prog : c.op = "cd" /\ ipc_m4_cd(c.a)
    BY <1>5
  <2>2. c.a \in Args
    <3>1. c \in Commands
      BY <1>0, <2>1 DEF CardTyped, Commands
    <3> QED BY <2>1, <3>1, M4Assumption
  <2>3. UNCHANGED <<m4prog, m4dev, m4fh, m4sd, m4on, netVars, m4rom, httpVars>>
    BY <2>1 DEF ipc_m4_cd
  <2>4. resolve_path(c.a) \in SUBSET Paths /\ Root \in Paths /\ m4dir.parent \in Paths
        /\ m4dir.box \in BOOLEAN
    BY <1>0, <2>2, Resolved, PathsOfPaths DEF DirTyped
  <2>5. DirTyped'
    <3>1. CASE m4dir' = [m4dir EXCEPT !.dir = Root, !.box = FALSE, !.parent = Root]
      <4>1. m4dir' = [m4dir EXCEPT !.dir = Root, !.parent = Root, !.box = FALSE]
        BY <1>0, <3>1 DEF DirTyped
      <4> QED BY <1>0, <2>4, <4>1, DirMoves
    <3>2. CASE m4dir' = container_exit
      BY <1>0, <2>4, <3>2, DirMoves DEF container_exit
    <3>3. CASE \E p \in resolve_path(c.a) : m4dir' = [m4dir EXCEPT !.dir = p]
      BY <1>0, <2>4, <3>3, DirMoves
    <3> QED BY <2>1, <3>1, <3>2, <3>3 DEF ipc_m4_cd
  <2>6. FilesTyped' /\ Waiting' /\ PortsInv'
    BY <1>0, <2>3, SameCard, SameDev, SamePortsToo
  <2> QED BY <1>0, <2>3, <2>5, <2>6 DEF CardInv, CardTyped, Waiting, HttpTyped, httpVars
<1>6. CASE (ConfigBoard /\ UNCHANGED httpVars) \/ ipc_m4_wifi
  <2>1. UNCHANGED <<m4prog, m4dev, fsVars, netVars, m4rom, httpVars>>
    BY <1>6 DEF ConfigBoard, ipc_m4_wifi
  <2>2. CardFiles' /\ Waiting' /\ PortsInv'
    BY <1>0, <2>1, SameFiles, SameDev, SamePortsToo DEF CardFiles
  <2> QED BY <1>0, <2>1, <2>2 DEF CardInv, CardTyped, CardFiles, Waiting, HttpTyped, httpVars
<1> QED BY <1>1, <1>2, <1>3, <1>4, <1>5, <1>6 DEF Host

(* Every step of the board, its server and the host keeps the invariant.   *)
LEMMA CardStep == CardInv /\ [M4Next]_webVars => CardInv'
<1> SUFFICES ASSUME CardInv, [M4Next]_webVars PROVE CardInv'
  OBVIOUS
<1>1. HttpTyped
  BY DEF CardInv, CardTyped
<1>2. CASE UNCHANGED webVars
  <2>1. UNCHANGED m4Vars /\ HttpTyped'
    BY <1>1, <1>2 DEF webVars, httpVars, HttpTyped
  <2> QED BY <2>1, HttpFits
<1>3. CASE Guest \/ Host \/ Service \/ handle_request
  BY <1>3, GuestFits, HostFits, ServiceFits, RequestFits
<1>4. CASE /\ UNCHANGED m4Vars
           /\ \/ \E c \in Callers : start(c) \/ start_thread(c) \/ stop(c) \/ stop_join(c)
              \/ run_bind \/ run_exit \/ run_drop \/ parse_request \/ run_preview_end
              \/ run_accept \/ run_upgrade \/ run_preview_close
  BY <1>1, <1>4, CallsFit, HttpFits
<1> QED BY <1>2, <1>3, <1>4 DEF M4Next, Server, Call

(* A step of the bench is a step of the board or leaves it alone.           *)
LEMMA CardBench == [Next]_benchVars => [M4Next]_webVars
BY DEF Next, benchVars, webVars

(* The M4 board answers the command kicked last, and keeps to paths below   *)
(* the SD root, for any programs, cards and clients (m4_tick,               *)
(* latch_execute, resolve_path).                                            *)
THEOREM AnswersStayRight == Spec => [](AnswerIsForLastKick /\ M4TypeOK)
<1>1. Init => CardInv
  BY CardStarts DEF Init
<1>2. CardInv /\ [Next]_benchVars => CardInv'
  BY CardBench, CardStep
<1> QED BY <1>1, <1>2, CardGives, PTL DEF Spec

(* With the ports the user maps to apart from those programs are given, an  *)
(* automatic mapping is active only while a socket is on its port           *)
(* (cmd_netbind, cmd_netclose, set_port_mapping).                           *)
THEOREM CardStaysRight == ASSUME UserPortApart PROVE Spec => []CardRight
<1>1. Init => CardInv
  BY CardStarts DEF Init
<1>2. CardInv /\ [Next]_benchVars => CardInv'
  BY CardBench, CardStep
<1>3. CardInv => CardRight
  BY CardGives, PortsGive, UserPortApart DEF CardRight
<1> QED BY <1>1, <1>2, <1>3, PTL DEF Spec

-----------------------------------------------------------------------------
(* The serial pair: the card, the plotter and the driver.                   *)

(* What is on the wires, and what the devices hold.                         *)
Bytes == (UNION Streams) \cup {"ENQ"}
Syms == [s : {"free", "status", "cr", "host", "XOFF", "XON"}, n : Nat]
CardRec ==
  [plugged : BOOLEAN, lost : BOOLEAN, buf : Bytes \cup {Nothing}, shift : Bytes \cup {Nothing},
   fifo : Seq(Syms), err : BOOLEAN, tx : Nat]
PltRec ==
  [plugged : BOOLEAN, dropped : BOOLEAN, in : Seq(Bytes), resp : Seq(Syms),
   flow : {Nothing, "XOFF", "XON"}, stopped : BOOLEAN, shift : Seq(Syms)]
PenRec ==
  [pen : 0..2, down : BOOLEAN, line : BOOLEAN, scaled : BOOLEAN, label : BOOLEAN, len : {0, 1},
   segs : 0..MaxSegs, over : BOOLEAN]
GuestRec ==
  [drv : Drivers, text : Streams, stopped : BOOLEAN, credit : Nat, wait : {Nothing, "cr"},
   inlabel : BOOLEAN]
CardFits(c) == c \in CardRec /\ Len(c.fifo) <= FifoSize /\ (c.lost => c.err)
PlotterFits(p) ==
  p \in PltRec /\ Len(p.in) <= InBuf /\ Len(p.resp) <= RespSize /\ Len(p.shift) <= 1
WireTyped ==
  /\ CardFits(card) /\ PlotterFits(plt) /\ pen \in PenRec /\ guest \in GuestRec
  /\ guest.drv # "enq" => guest.credit = 0

(* With ENQ: one question at a time, no answer on the way while one is asked *)
(* or none is awaited, a number before its CR; and what is under way to the  *)
(* plotter, with what its answer still allows, fits its buffer.              *)
Without(s, S) == \A i \in 1..Len(s) : s[i].s \notin S
Ans == {"cr", "free"}
NonePending == Without(card.fifo, Ans) /\ Without(plt.shift, Ans) /\ Without(plt.resp, Ans)
NoQuery == \A i \in 1..Len(plt.in) : plt.in[i] # "OS"
Asks(x) == x \in {"ENQ", "OS"}
AskedOnce ==
  /\ Asks(card.buf) => ~Asks(card.shift) /\ NoQuery
  /\ Asks(card.shift) => card.buf = Nothing /\ NoQuery
  /\ \A i, j \in 1..Len(plt.in) : plt.in[i] = "OS" /\ plt.in[j] = "OS" => i = j
Awaited ==
  /\ Asks(card.buf) \/ Asks(card.shift) \/ ~NoQuery => guest.wait = "cr" /\ NonePending
  /\ guest.wait = Nothing => NonePending
CrLast(s) == \A i, j \in 1..Len(s) : i < j /\ s[i].s = "cr" => s[j].s \notin Ans
InOrder ==
  /\ CrLast(card.fifo) /\ CrLast(plt.resp)
  /\ Without(card.fifo, {"cr"}) \/ (Without(plt.shift, Ans) /\ Without(plt.resp, Ans))
  /\ Without(plt.shift, {"cr"}) \/ Without(plt.resp, Ans)
Weight(x) == IF x \in {Nothing, "ENQ"} THEN 0 ELSE 1
UnderWay == Weight(card.buf) + Weight(card.shift)
Kept(s) == \A i \in 1..Len(s) : s[i].s = "free" => s[i].n <= EnqMax /\ s[i].n + UnderWay <= in_free(plt)
Honest ==
  /\ ~plt.dropped /\ guest.credit <= EnqMax /\ guest.credit + UnderWay <= in_free(plt)
  /\ Kept(card.fifo) /\ Kept(plt.shift) /\ Kept(plt.resp)
EnqInv == guest.drv = "enq" => AskedOnce /\ Awaited /\ InOrder /\ Honest

(* The youngest flow character that has left the plotter says whether it has *)
(* stopped the driver; with none on the way the driver knows.               *)
Flows == {"XOFF", "XON"}
Says(x, halt) == x.s \in Flows => (x.s = "XOFF") = halt
FlowKnown ==
  /\ Without(plt.resp, Flows)
  /\ plt.flow # Nothing => (plt.flow = "XOFF") = plt.stopped
  /\ plt.flow = Nothing =>
       /\ \A i \in 1..Len(plt.shift) : Says(plt.shift[i], plt.stopped)
       /\ Without(plt.shift, Flows) =>
            /\ \A i \in 1..Len(card.fifo) :
                 (\A j \in 1..Len(card.fifo) : i < j => card.fifo[j].s \notin Flows)
                   => Says(card.fifo[i], plt.stopped)
            /\ Without(card.fifo, Flows) => guest.stopped = plt.stopped
FlowInv == guest.drv \in Polite => FlowKnown

WireInv == WireTyped /\ card.tx = NoObj /\ EnqInv /\ FlowInv
(* The host's configuration, its backend, and the two promises of the cable. *)
SifRec ==
  [enabled : BOOLEAN, type : Backends \cup {"null"}, made : Nat,
   backend : [id : Nat, kind : Backends \cup {Nothing, "null"}, open : BOOLEAN, waiting : Nat]]
PortsBenchInv ==
  WireTyped /\ guest.drv = "deaf" /\ PlotterOrBackend /\ sif \in SifRec

-----------------------------------------------------------------------------
(* What the sequences on the wires become.                                  *)

(* A byte that joins a queue is its last.                                  *)
LEMMA AppendIs ==
  ASSUME NEW T, NEW s \in Seq(T), NEW x \in T
  PROVE  /\ Append(s, x) \in Seq(T) /\ Len(Append(s, x)) = Len(s) + 1
         /\ \A i \in 1..Len(s) : Append(s, x)[i] = s[i]
         /\ Append(s, x)[Len(s) + 1] = x
OBVIOUS

(* A byte that leaves a queue was its first.                              *)
LEMMA TailIs ==
  ASSUME NEW T, NEW s \in Seq(T), s # <<>>
  PROVE  /\ Tail(s) \in Seq(T) /\ Len(Tail(s)) = Len(s) - 1 /\ Len(s) >= 1
         /\ Head(s) \in T /\ Head(s) = s[1]
         /\ \A i \in 1..Len(Tail(s)) : Tail(s)[i] = s[i + 1]
OBVIOUS

(* A queue cut short keeps its beginning.                                 *)
LEMMA CutIs ==
  ASSUME NEW T, NEW s \in Seq(T), NEW n \in 0..Len(s)
  PROVE  /\ SubSeq(s, 1, n) \in Seq(T) /\ Len(SubSeq(s, 1, n)) = n
         /\ \A i \in 1..n : SubSeq(s, 1, n)[i] = s[i]
OBVIOUS

(* Two queues in a row keep their bytes and their order.                   *)
LEMMA ConcatIs ==
  ASSUME NEW T, NEW s \in Seq(T), NEW u \in Seq(T)
  PROVE  /\ s \o u \in Seq(T) /\ Len(s \o u) = Len(s) + Len(u)
         /\ \A i \in 1..Len(s) : (s \o u)[i] = s[i]
         /\ \A i \in 1..Len(u) : (s \o u)[Len(s) + i] = u[i]
OBVIOUS

(* resp_push: what was there, then the answer and its CR as far as they fit. *)
Pushed(r, v, t) ==
  /\ t \in Seq(Syms) /\ Len(t) <= RespSize /\ Len(t) <= Len(r) + 2
  /\ \A i \in 1..Len(t) :
       /\ i <= Len(r) => t[i] = r[i]
       /\ i = Len(r) + 1 => t[i] = v
       /\ i = Len(r) + 2 => t[i] = Sym("cr", 0)

(* What resp_push does with an answer, all that is not the queue unchanged. *)
LEMMA PushIs ==
  ASSUME NEW p \in PltRec, NEW v \in Syms, NEW q, q = resp_push(p, Answer(v))
  PROVE  /\ q = [plugged |-> p.plugged, dropped |-> p.dropped, in |-> p.in, resp |-> q.resp,
                 flow |-> p.flow, stopped |-> p.stopped, shift |-> p.shift]
         /\ Pushed(p.resp, v, q.resp)
<1> DEFINE a == Answer(v)
           r == p.resp \o a
           n == IF Len(p.resp) + Len(a) > RespSize THEN RespSize ELSE Len(p.resp) + Len(a)
           t == SubSeq(r, 1, n)
<1>1. a \in Seq(Syms) /\ Len(a) = 2 /\ a[1] = v /\ a[2] = Sym("cr", 0)
  BY DEF Answer, Sym, Syms
<1>2. p.resp \in Seq(Syms) /\ Len(p.resp) \in Nat
  BY DEF PltRec
<1> HIDE DEF a
<1>3. r \in Seq(Syms) /\ Len(r) = Len(p.resp) + 2
      /\ (\A i \in 1..Len(p.resp) : r[i] = p.resp[i])
      /\ r[Len(p.resp) + 1] = v /\ r[Len(p.resp) + 2] = Sym("cr", 0)
  <2>1. /\ r \in Seq(Syms) /\ Len(r) = Len(p.resp) + Len(a)
        /\ \A i \in 1..Len(p.resp) : r[i] = p.resp[i]
        /\ \A i \in 1..Len(a) : r[Len(p.resp) + i] = a[i]
    <3> HIDE DEF n, t
    <3>1. p.resp \in Seq(Syms) /\ a \in Seq(Syms)
      BY <1>1, <1>2
    <3> QED BY <3>1, ConcatIs
  <2> HIDE DEF r
  <2>2. 1 \in 1..Len(a) /\ 2 \in 1..Len(a)
    BY <1>1
  <2> QED BY <1>1, <2>1, <2>2
<1>4. n \in 0..Len(r) /\ n <= RespSize
  <2>1. Len(r) = Len(p.resp) + 2 /\ Len(a) = 2 /\ Len(p.resp) \in Nat /\ RespSize \in Nat
    BY <1>1, <1>2, <1>3, SerialAssumption
  <2> HIDE DEF r
  <2> QED BY <2>1
<1>5. q = [p EXCEPT !.resp = t]
  BY DEF resp_push, a
<1> HIDE DEF r, n
<1>6. t \in Seq(Syms) /\ Len(t) = n /\ \A i \in 1..n : t[i] = r[i]
  BY <1>3, <1>4, CutIs
<1> HIDE DEF t
<1>7. q = [plugged |-> p.plugged, dropped |-> p.dropped, in |-> p.in, resp |-> t,
           flow |-> p.flow, stopped |-> p.stopped, shift |-> p.shift]
  BY <1>5 DEF PltRec
<1>8. q.resp = t
  BY <1>5 DEF PltRec
<1> QED BY <1>2, <1>3, <1>4, <1>6, <1>7, <1>8 DEF Pushed

-----------------------------------------------------------------------------
(* What each device makes of its records.                                   *)

(* No step of the card overfills its FIFO or hides a loss.                  *)
LEMMA CardKeeps ==
  ASSUME NEW c, CardFits(c)
  PROVE  /\ CardFits(chan_a_reset(c)) /\ chan_a_reset(c).tx = c.tx
         /\ CardFits(ResetCard(c)) /\ ResetCard(c).tx = NoObj
         /\ CardFits([c EXCEPT !.err = FALSE, !.lost = FALSE])
         /\ \A b \in Bytes : CardFits([c EXCEPT !.buf = b])
         /\ CardFits([c EXCEPT !.shift = c.buf, !.buf = Nothing])
         /\ CardFits([c EXCEPT !.shift = Nothing])
         /\ c.fifo # <<>> => CardFits([c EXCEPT !.fifo = Tail(@)])
         /\ \A x \in Syms : CardFits(fifo_push(c, x)) /\ fifo_push(c, x).tx = c.tx
<1>0. c \in CardRec /\ Len(c.fifo) <= FifoSize /\ (c.lost => c.err) /\ FifoSize \in Nat
      /\ c.fifo \in Seq(Syms) /\ Len(c.fifo) \in Nat
  BY SerialAssumption DEF CardFits, CardRec
<1>e. <<>> \in Seq(Syms) /\ Len(<<>>) = 0
  OBVIOUS
<1>1. CardFits(chan_a_reset(c)) /\ chan_a_reset(c).tx = c.tx
  <2> DEFINE d == chan_a_reset(c)
  <2>1. d \in CardRec /\ d.fifo = <<>> /\ d.lost = FALSE /\ d.tx = c.tx
    BY <1>0, <1>e DEF CardRec, chan_a_reset
  <2> QED BY <1>0, <1>e, <2>1 DEF CardFits
<1>2. CardFits(ResetCard(c)) /\ ResetCard(c).tx = NoObj
  <2> DEFINE d == ResetCard(c)
  <2>1. d \in CardRec /\ d.fifo = <<>> /\ d.lost = FALSE /\ d.tx = NoObj
    BY <1>0, <1>e DEF CardRec, ResetCard, NoObj
  <2> QED BY <1>0, <1>e, <2>1 DEF CardFits
<1>3. CardFits([c EXCEPT !.err = FALSE, !.lost = FALSE])
  BY <1>0 DEF CardFits, CardRec
<1>4. ASSUME NEW b \in Bytes PROVE CardFits([c EXCEPT !.buf = b])
  BY <1>0 DEF CardFits, CardRec
<1>5. CardFits([c EXCEPT !.shift = c.buf, !.buf = Nothing])
  BY <1>0 DEF CardFits, CardRec
<1>6. CardFits([c EXCEPT !.shift = Nothing])
  BY <1>0 DEF CardFits, CardRec
<1>7. c.fifo # <<>> => CardFits([c EXCEPT !.fifo = Tail(@)])
  BY <1>0, TailIs DEF CardFits, CardRec
<1>8. ASSUME NEW x \in Syms PROVE CardFits(fifo_push(c, x)) /\ fifo_push(c, x).tx = c.tx
  <2>1. CASE Len(c.fifo) >= FifoSize
    BY <1>0, <2>1 DEF CardFits, CardRec, fifo_push
  <2>2. CASE ~(Len(c.fifo) >= FifoSize)
    <3>1. Append(c.fifo, x) \in Seq(Syms) /\ Len(Append(c.fifo, x)) <= FifoSize
      BY <1>0, <2>2, AppendIs
    <3> QED BY <1>0, <2>2, <3>1 DEF CardFits, CardRec, fifo_push
  <2> QED BY <2>1, <2>2
<1> QED BY <1>1, <1>2, <1>3, <1>4, <1>5, <1>6, <1>7, <1>8

(* No HP-GL command breaks the page or selects a pen the plotter lacks.     *)
LEMMA PenKeeps ==
  ASSUME NEW g \in PenRec
  PROVE  /\ InitPen(g) \in PenRec /\ BlankPage(g) \in PenRec
         /\ \A c : parser_feed(g, c) \in PenRec
<1>0. MaxSegs \in Nat
  BY SerialAssumption
<1>1. ASSUME NEW h \in PenRec PROVE seg_push(h) \in PenRec
  <2>1. [h EXCEPT !.over = TRUE] \in PenRec
    BY DEF PenRec
  <2>2. ~(h.segs >= MaxSegs) => h.segs + 1 \in 0..MaxSegs
    BY <1>0 DEF PenRec
  <2>3. ASSUME NEW n \in 0..MaxSegs PROVE [h EXCEPT !.segs = n] \in PenRec
    BY DEF PenRec
  <2> QED BY <2>1, <2>2, <2>3 DEF seg_push
<1>2. \A h \in PenRec : move_to(h) \in PenRec /\ cmd_CI(h) \in PenRec /\ cmd_EA(h) \in PenRec /\ cmd_LB(h) \in PenRec
  BY <1>1 DEF move_to, cmd_CI, cmd_EA, cmd_LB
<1>3. /\ cmd_IN(g) \in PenRec /\ cmd_DF(g) \in PenRec /\ cmd_PU(g) \in PenRec
      /\ cmd_SP(g, 1) \in PenRec /\ cmd_SP(g, 9) \in PenRec
      /\ [g EXCEPT !.down = TRUE] \in PenRec /\ [g EXCEPT !.line = TRUE] \in PenRec
      /\ cmd_SC(g, TRUE) \in PenRec /\ cmd_SC(g, FALSE) \in PenRec
      /\ InitPen(g) \in PenRec /\ BlankPage(g) \in PenRec
  <2>g. ASSUME NEW h \in PenRec, NEW j \in 0..2, NEW k \in 0..MaxSegs
        PROVE  /\ [h EXCEPT !.pen = j, !.down = FALSE] \in PenRec
               /\ [h EXCEPT !.line = FALSE, !.scaled = FALSE] \in PenRec
               /\ [h EXCEPT !.label = FALSE, !.len = 0] \in PenRec
               /\ [h EXCEPT !.segs = k, !.over = FALSE] \in PenRec
    <3>1. [h EXCEPT !.pen = j, !.down = FALSE] \in PenRec
      BY DEF PenRec
    <3>2. [h EXCEPT !.line = FALSE, !.scaled = FALSE] \in PenRec
      BY DEF PenRec
    <3>3. [h EXCEPT !.label = FALSE, !.len = 0] \in PenRec
      BY DEF PenRec
    <3>4. [h EXCEPT !.segs = k, !.over = FALSE] \in PenRec
      BY DEF PenRec
    <3> QED BY <3>1, <3>2, <3>3, <3>4
  <2> DEFINE up == [g EXCEPT !.pen = 0, !.down = FALSE]
             solid == [up EXCEPT !.line = FALSE, !.scaled = FALSE]
  <2>h. 0 \in 0..MaxSegs /\ 0 \in 0..2
    BY <1>0
  <2>u. up \in PenRec /\ solid \in PenRec
    BY <2>g, <2>h
  <2>1. cmd_IN(g) \in PenRec
    <3>1. cmd_IN(g) = solid
      BY DEF cmd_IN
    <3> QED BY <2>u, <3>1
  <2>2. cmd_DF(g) \in PenRec
    BY DEF PenRec, cmd_DF
  <2>3. cmd_PU(g) \in PenRec
    BY DEF PenRec, cmd_PU
  <2>4. ASSUME NEW m \in Nat PROVE cmd_SP(g, m) \in PenRec
    <3>1. (IF m \in 0..2 THEN m ELSE 0) \in 0..2
      OBVIOUS
    <3>2. ASSUME NEW j \in 0..2 PROVE [g EXCEPT !.down = FALSE, !.pen = j] \in PenRec
      BY DEF PenRec
    <3> QED BY <3>1, <3>2 DEF cmd_SP
  <2>5. [g EXCEPT !.down = TRUE] \in PenRec /\ [g EXCEPT !.line = TRUE] \in PenRec
    BY DEF PenRec
  <2>6. cmd_SC(g, TRUE) \in PenRec
    BY DEF PenRec, cmd_SC
  <2>7. cmd_SC(g, FALSE) \in PenRec
    BY DEF PenRec, cmd_SC
  <2>8. InitPen(g) \in PenRec
    <3>1. InitPen(g) = [solid EXCEPT !.label = FALSE, !.len = 0]
      BY DEF InitPen
    <3> QED BY <2>g, <2>h, <2>u, <3>1
  <2>9. BlankPage(g) \in PenRec
    BY <2>g, <2>h DEF BlankPage
  <2> QED BY <2>1, <2>2, <2>3, <2>4, <2>5, <2>6, <2>7, <2>8, <2>9
<1>4. \A c : process_command(g, c) \in PenRec
  BY <1>2, <1>3 DEF process_command, cmd_PD
<1>5. \A h \in PenRec : /\ [h EXCEPT !.label = FALSE, !.len = 0] \in PenRec
                        /\ [h EXCEPT !.len = 1] \in PenRec
                        /\ [h EXCEPT !.label = TRUE, !.len = 0] \in PenRec
  BY DEF PenRec
<1> QED BY <1>2, <1>3, <1>4, <1>5 DEF parser_feed


(* What the plotter makes of ENQ: the answer, which promises no more than is *)
(* free.                                                                    *)
SameMain(p, q) ==
  q.plugged = p.plugged /\ q.dropped = p.dropped /\ q.in = p.in /\ q.shift = p.shift
SameFlow(p, q) == q.flow = p.flow /\ q.stopped = p.stopped
\* A plotter's answer to ENQ is the free room, and nothing else changes.
LEMMA EnqIs ==
  ASSUME NEW p, PlotterFits(p), NEW q, q = on_receive_byte(p, "ENQ")
  PROVE  /\ PlotterFits(q) /\ SameMain(p, q) /\ SameFlow(p, q)
         /\ \E n \in Nat : n <= EnqMax /\ n <= in_free(p) /\ Pushed(p.resp, Sym("free", n), q.resp)
<1>1. p \in PltRec /\ Len(p.in) \in Nat /\ Len(p.in) <= InBuf /\ InBuf \in Nat /\ EnqMax \in Nat
  BY SerialAssumption DEF PlotterFits, PltRec
<1> DEFINE n == IF in_free(p) < EnqMax THEN in_free(p) ELSE EnqMax
<1>2. n \in Nat /\ n <= EnqMax /\ n <= in_free(p)
  <2>1. in_free(p) \in Nat
    BY <1>1 DEF in_free
  <2> QED BY <1>1, <2>1
<1>3. Sym("free", n) \in Syms
  BY <1>2 DEF Sym, Syms
<1>4. q = resp_push(p, Answer(Sym("free", n)))
  BY DEF on_receive_byte
<1> HIDE DEF n
<1>5. q = [plugged |-> p.plugged, dropped |-> p.dropped, in |-> p.in, resp |-> q.resp,
           flow |-> p.flow, stopped |-> p.stopped, shift |-> p.shift]
      /\ Pushed(p.resp, Sym("free", n), q.resp)
  BY <1>1, <1>3, <1>4, PushIs
<1>6. SameMain(p, q) /\ SameFlow(p, q)
  BY <1>5 DEF SameMain, SameFlow
<1>7. q.resp \in Seq(Syms) /\ Len(q.resp) <= RespSize
  BY <1>5 DEF Pushed
<1>8. q \in PltRec
  BY <1>1, <1>5, <1>7 DEF PltRec
<1> QED BY <1>2, <1>5, <1>6, <1>7, <1>8 DEF PlotterFits, SameMain

(* And of any other byte: it joins the buffer while there is room, and may   *)
(* stop the driver.                                                         *)
LEMMA ByteIs ==
  ASSUME NEW p, PlotterFits(p), NEW b \in Bytes, b # "ENQ", NEW q, q = on_receive_byte(p, b)
  PROVE  /\ PlotterFits(q) /\ q.plugged = p.plugged /\ q.resp = p.resp /\ q.shift = p.shift
         /\ Len(p.in) < InBuf => q.in = Append(p.in, b) /\ q.dropped = p.dropped
         /\ SameFlow(p, q) \/ (q.flow = "XOFF" /\ q.stopped = TRUE)
<1> DEFINE t == IF Len(p.in) < InBuf THEN Append(p.in, b) ELSE p.in
           d == p.dropped \/ Len(p.in) >= InBuf
           r == [p EXCEPT !.in = t, !.dropped = d]
<1>1. p \in PltRec /\ Len(p.in) \in Nat /\ Len(p.in) <= InBuf /\ InBuf \in Nat /\ p.in \in Seq(Bytes)
      /\ Len(p.resp) <= RespSize /\ Len(p.shift) <= 1
  BY SerialAssumption DEF PlotterFits, PltRec
<1>2. t \in Seq(Bytes) /\ Len(t) <= InBuf
  BY <1>1, AppendIs
<1>3. d \in BOOLEAN /\ (Len(p.in) < InBuf => d = p.dropped)
  BY <1>1 DEF PltRec
<1>4. q = IF ~r.stopped /\ in_free(r) < XoffBelow THEN [r EXCEPT !.stopped = TRUE, !.flow = "XOFF"] ELSE r
  BY DEF on_receive_byte
<1>5. Len(p.in) < InBuf => t = Append(p.in, b)
  OBVIOUS
<1> HIDE DEF t, d
<1>6. r \in PltRec /\ r.in = t /\ r.dropped = d /\ r.plugged = p.plugged /\ r.resp = p.resp
      /\ r.shift = p.shift /\ SameFlow(p, r)
  BY <1>1, <1>2, <1>3 DEF PltRec, SameFlow
<1> HIDE DEF r
<1>7. CASE q = r
  BY <1>1, <1>2, <1>3, <1>5, <1>6, <1>7 DEF PlotterFits
<1>8. CASE q = [r EXCEPT !.stopped = TRUE, !.flow = "XOFF"]
  <2>1. q \in PltRec /\ q.in = t /\ q.dropped = d /\ q.plugged = p.plugged /\ q.resp = p.resp
        /\ q.shift = p.shift /\ q.flow = "XOFF" /\ q.stopped = TRUE
    BY <1>6, <1>8 DEF PltRec
  <2> QED BY <1>1, <1>2, <1>3, <1>5, <2>1 DEF PlotterFits
<1> QED BY <1>4, <1>7, <1>8

(* The byte that leaves the buffer: a query is answered, and the driver may  *)
(* go on.                                                                   *)
Drained(p) ==
  LET q == query_feed([p EXCEPT !.in = Tail(@)], Head(p.in))
  IN IF q.stopped /\ in_free(q) > XonAbove THEN [q EXCEPT !.stopped = FALSE, !.flow = "XON"] ELSE q
\* Draining takes one byte, answers it if it asks, and releases the sender.
LEMMA DrainIs ==
  ASSUME NEW p, PlotterFits(p), p.in # <<>>, NEW q, q = Drained(p)
  PROVE  /\ PlotterFits(q) /\ q.plugged = p.plugged /\ q.dropped = p.dropped /\ q.shift = p.shift
         /\ q.in = Tail(p.in)
         /\ IF Head(p.in) = "OS" THEN Pushed(p.resp, Sym("status", 0), q.resp) ELSE q.resp = p.resp
         /\ SameFlow(p, q) \/ (q.flow = "XON" /\ q.stopped = FALSE)
<1> DEFINE h == [p EXCEPT !.in = Tail(@)]
           r == query_feed(h, Head(p.in))
<1>1. p \in PltRec /\ Len(p.in) <= InBuf /\ InBuf \in Nat /\ p.in \in Seq(Bytes)
      /\ Len(p.resp) <= RespSize /\ Len(p.shift) <= 1
  BY SerialAssumption DEF PlotterFits, PltRec
<1>2. Tail(p.in) \in Seq(Bytes) /\ Len(Tail(p.in)) <= InBuf
  BY <1>1, TailIs
<1>3. h \in PltRec /\ h.in = Tail(p.in) /\ h.dropped = p.dropped /\ h.plugged = p.plugged
      /\ h.resp = p.resp /\ h.shift = p.shift /\ SameFlow(p, h)
  BY <1>1, <1>2 DEF PltRec, SameFlow
<1> HIDE DEF h
<1>4. /\ r \in PltRec /\ SameMain(h, r) /\ SameFlow(h, r) /\ Len(r.resp) <= RespSize
      /\ IF Head(p.in) = "OS" THEN Pushed(p.resp, Sym("status", 0), r.resp) ELSE r.resp = p.resp
  <2>1. CASE Head(p.in) = "OS"
    <3>1. Sym("status", 0) \in Syms
      BY DEF Sym, Syms
    <3>2. r = resp_push(h, Answer(Sym("status", 0)))
      BY <2>1 DEF query_feed
    <3>3. r = [plugged |-> h.plugged, dropped |-> h.dropped, in |-> h.in, resp |-> r.resp,
               flow |-> h.flow, stopped |-> h.stopped, shift |-> h.shift]
          /\ Pushed(h.resp, Sym("status", 0), r.resp)
      BY <1>3, <3>1, <3>2, PushIs
    <3> HIDE DEF r
    <3>4. r.resp \in Seq(Syms) /\ Len(r.resp) <= RespSize
      BY <3>3 DEF Pushed
    <3>5. r \in PltRec
      <4>1. /\ h.plugged \in BOOLEAN /\ h.dropped \in BOOLEAN /\ h.in \in Seq(Bytes)
            /\ h.flow \in {Nothing, "XOFF", "XON"} /\ h.stopped \in BOOLEAN /\ h.shift \in Seq(Syms)
        BY <1>3 DEF PltRec
      <4> QED BY <3>3, <3>4, <4>1 DEF PltRec
    <3>6. SameMain(h, r) /\ SameFlow(h, r)
      BY <3>3 DEF SameMain, SameFlow
    <3> QED BY <1>3, <2>1, <3>3, <3>4, <3>5, <3>6
  <2>2. CASE Head(p.in) # "OS"
    <3>1. r = h
      BY <2>2 DEF query_feed
    <3> QED BY <1>1, <1>3, <2>2, <3>1 DEF SameMain, SameFlow
  <2> QED BY <2>1, <2>2
<1>5. q = IF r.stopped /\ in_free(r) > XonAbove THEN [r EXCEPT !.stopped = FALSE, !.flow = "XON"] ELSE r
  BY DEF Drained, h
<1> HIDE DEF r
<1>6. CASE q = r
  BY <1>1, <1>2, <1>3, <1>4, <1>6 DEF PlotterFits, SameMain, SameFlow
<1>7. CASE q = [r EXCEPT !.stopped = FALSE, !.flow = "XON"]
  <2>1. q \in PltRec /\ q.in = r.in /\ q.dropped = r.dropped /\ q.plugged = r.plugged
        /\ q.resp = r.resp /\ q.shift = r.shift /\ q.flow = "XON" /\ q.stopped = FALSE
    BY <1>4, <1>7 DEF PltRec
  <2> QED BY <1>1, <1>2, <1>3, <1>4, <2>1 DEF PlotterFits, SameMain
<1> QED BY <1>5, <1>6, <1>7

-----------------------------------------------------------------------------
(* Each step of card, plotter and driver keeps the promises.                *)

WireKeeps == WireTyped /\ EnqInv /\ FlowInv
Calm == card'.tx = card.tx /\ plt'.plugged = plt.plugged /\ guest'.drv = guest.drv

(* A byte under way counts one, ENQ and an empty register nothing.         *)
LEMMA WeightIs ==
  /\ \A x : Weight(x) \in {0, 1}
  /\ Weight(Nothing) = 0 /\ Weight("ENQ") = 0 /\ \A x : x \notin {Nothing, "ENQ"} => Weight(x) = 1
BY DEF Weight

(* The fields of the records, for the arithmetic.                          *)
LEMMA WireFields ==
  ASSUME WireTyped
  PROVE  /\ card \in CardRec /\ plt \in PltRec /\ guest \in GuestRec
         /\ card.fifo \in Seq(Syms) /\ plt.shift \in Seq(Syms) /\ plt.resp \in Seq(Syms)
         /\ plt.in \in Seq(Bytes) /\ Len(plt.in) \in Nat /\ Len(plt.in) <= InBuf
         /\ Len(card.fifo) \in Nat /\ Len(plt.shift) \in Nat /\ Len(plt.shift) <= 1
         /\ Len(plt.resp) \in Nat /\ guest.credit \in Nat /\ InBuf \in Nat
         /\ in_free(plt) = InBuf - Len(plt.in)
         /\ card.buf \in Bytes \cup {Nothing} /\ card.shift \in Bytes \cup {Nothing}
BY SerialAssumption DEF WireTyped, CardFits, PlotterFits, CardRec, PltRec, GuestRec, in_free

(* Every symbol in a queue carries a number.                               *)
LEMMA NumberIs == \A s \in Seq(Syms) : \A i \in 1..Len(s) : s[i] \in Syms /\ s[i].n \in Nat
<1> TAKE s \in Seq(Syms)
<1> TAKE i \in 1..Len(s)
<1>1. s[i] \in Syms
  OBVIOUS
<1> QED BY <1>1 DEF Syms

(* The shifter takes the byte: what is under way stays the same.            *)
LEMMA StartFits == ASSUME WireKeeps, tx_start PROVE WireKeeps' /\ Calm
<1> USE DEF WireKeeps
<1>0. card.shift = Nothing /\ card' = [card EXCEPT !.shift = card.buf, !.buf = Nothing]
      /\ plt' = plt /\ pen' = pen /\ guest' = guest
  BY DEF tx_start
<1>1. card'.buf = Nothing /\ card'.shift = card.buf /\ card'.fifo = card.fifo /\ card'.tx = card.tx
  BY <1>0, WireFields DEF CardRec
<1>2. WireTyped'
  BY <1>0, CardKeeps DEF WireTyped
<1>3. UnderWay' = UnderWay
  BY <1>0, <1>1, WeightIs DEF UnderWay
<1>4. ASSUME guest.drv = "enq" PROVE (AskedOnce /\ Awaited /\ InOrder /\ Honest)'
  <2>0. AskedOnce /\ Awaited /\ InOrder /\ Honest
    BY <1>4 DEF EnqInv
  <2>1. ~Asks(Nothing)
    BY DEF Asks, Nothing
  <2>2. AskedOnce'
    BY <1>0, <1>1, <2>0, <2>1 DEF AskedOnce, NoQuery
  <2>3. Awaited'
    BY <1>0, <1>1, <2>0, <2>1 DEF Awaited, NoQuery, NonePending
  <2>4. InOrder'
    BY <1>0, <1>1, <2>0 DEF InOrder
  <2>5. Honest'
    BY <1>0, <1>1, <1>3, <2>0 DEF Honest, Kept
  <2> QED BY <2>2, <2>3, <2>4, <2>5
<1>5. EnqInv'
  BY <1>0, <1>4 DEF EnqInv
<1>6. FlowInv'
  BY <1>0, <1>1 DEF FlowInv, FlowKnown
<1> QED BY <1>0, <1>1, <1>2, <1>5, <1>6 DEF Calm

(* What a pushed answer adds to a queue.                                    *)
LEMMA AnswerAdds ==
  ASSUME NEW r \in Seq(Syms), NEW v \in Syms, v.s # "cr", NEW t, Pushed(r, v, t)
  PROVE  /\ \A i \in 1..Len(t) : (i \in 1..Len(r) /\ t[i] = r[i]) \/ t[i] = v \/ t[i] = Sym("cr", 0)
         /\ Without(r, Ans) => CrLast(t)
         /\ \A S : Without(r, S) /\ v.s \notin S /\ "cr" \notin S => Without(t, S)
<1>0. /\ Len(r) \in Nat /\ Len(t) \in Nat /\ Len(t) <= Len(r) + 2
      /\ \A i \in 1..Len(t) : /\ i <= Len(r) => t[i] = r[i]
                              /\ i = Len(r) + 1 => t[i] = v
                              /\ i = Len(r) + 2 => t[i] = Sym("cr", 0)
  <2>1. t \in Seq(Syms)
    BY DEF Pushed
  <2>2. Len(r) \in Nat /\ Len(t) \in Nat
    BY <2>1
  <2> QED BY <2>2 DEF Pushed
<1>1. \A i \in 1..Len(t) : i \in 1..Len(r) \/ i = Len(r) + 1 \/ i = Len(r) + 2
  BY <1>0
<1>2. \A i \in 1..Len(t) : (i \in 1..Len(r) /\ t[i] = r[i]) \/ t[i] = v \/ t[i] = Sym("cr", 0)
  BY <1>0, <1>1
<1>3. ASSUME Without(r, Ans), NEW i \in 1..Len(t), NEW j \in 1..Len(t), i < j, t[i].s = "cr" PROVE FALSE
  <2>1. i \notin 1..Len(r)
    BY <1>0, <1>3 DEF Without, Ans
  <2> QED BY <1>0, <1>1, <1>3, <2>1
<1>4. ASSUME NEW S, Without(r, S), v.s \notin S, "cr" \notin S PROVE Without(t, S)
  BY <1>2, <1>4 DEF Without, Sym
<1> QED BY <1>2, <1>3, <1>4 DEF CrLast

(* With the line as it was, what is known of the flow characters stays; a    *)
(* new one replaces what was known.                                         *)
LEMMA FlowStays ==
  ASSUME FlowInv, SameFlow(plt, plt'), plt'.shift = plt.shift, card'.fifo = card.fifo,
         guest'.stopped = guest.stopped, guest'.drv = guest.drv,
         Without(plt.resp, Flows) => Without(plt'.resp, Flows)
  PROVE  FlowInv'
<1>1. plt'.flow = plt.flow /\ plt'.stopped = plt.stopped
  BY DEF SameFlow
<1> QED BY <1>1 DEF FlowInv, FlowKnown

(* A flow character just made is all there is to know.                     *)
LEMMA FlowSaid ==
  ASSUME FlowInv, guest'.drv = guest.drv, Without(plt.resp, Flows) => Without(plt'.resp, Flows),
         \/ plt'.flow = "XOFF" /\ plt'.stopped = TRUE
         \/ plt'.flow = "XON" /\ plt'.stopped = FALSE
  PROVE  FlowInv'
<1>1. plt'.flow # Nothing /\ (plt'.flow = "XOFF") = plt'.stopped
  BY DEF Nothing
<1> QED BY <1>1 DEF FlowInv, FlowKnown

(* The stop bit: the byte is the plotter's.                                *)
LEMMA EndFits == ASSUME WireKeeps, tx_end PROVE WireKeeps' /\ Calm
<1> USE DEF WireKeeps
<1>0. card.shift # Nothing /\ card' = [card EXCEPT !.shift = Nothing]
      /\ plt' = (IF plt.plugged THEN on_receive_byte(plt, card.shift) ELSE plt)
      /\ pen' = pen /\ guest' = guest
  BY DEF tx_end
<1>1. card'.buf = card.buf /\ card'.shift = Nothing /\ card'.fifo = card.fifo /\ card'.tx = card.tx
  BY <1>0, WireFields DEF CardRec
<1>2. card.shift \in Bytes /\ PlotterFits(plt)
  BY <1>0, WireFields DEF WireTyped
<1>u. UnderWay = Weight(card.buf) + Weight(card.shift) /\ UnderWay' = Weight(card.buf)
  <2>1. UnderWay' = Weight(card.buf) + 0
    BY <1>1, WeightIs DEF UnderWay
  <2> QED BY <2>1, WeightIs DEF UnderWay
<1>n. ~Asks(Nothing)
  BY DEF Asks, Nothing
<1>t. ASSUME PlotterFits(plt') PROVE WireTyped'
  BY <1>0, <1>t, CardKeeps DEF WireTyped
<1>3. CASE ~plt.plugged
  <2>0. plt' = plt
    BY <1>0, <1>3
  <2>1. WireTyped'
    BY <1>2, <1>t, <2>0
  <2>2. ASSUME guest.drv = "enq" PROVE (AskedOnce /\ Awaited /\ InOrder /\ Honest)'
    <3>0. AskedOnce /\ Awaited /\ InOrder /\ Honest
      BY <2>2 DEF EnqInv
    <3>1. AskedOnce'
      BY <1>1, <1>n, <2>0, <3>0 DEF AskedOnce, NoQuery
    <3>2. Awaited'
      BY <1>0, <1>1, <1>n, <2>0, <3>0 DEF Awaited, NoQuery, NonePending
    <3>3. InOrder'
      BY <1>1, <2>0, <3>0 DEF InOrder
    <3>4. UnderWay' <= UnderWay /\ UnderWay \in Int /\ UnderWay' \in Int
      BY <1>u, WeightIs
    <3>5. Honest'
      <4>1. \A k \in Nat : k + UnderWay <= in_free(plt) => k + UnderWay' <= in_free(plt)
        BY <3>4, WireFields
      <4>2. \A s \in Seq(Syms) : \A i \in 1..Len(s) : s[i].n \in Nat
        BY NumberIs
      <4> QED BY <1>0, <1>1, <2>0, <3>0, <4>1, <4>2, WireFields DEF Honest, Kept
    <3> QED BY <3>1, <3>2, <3>3, <3>5
  <2>3. EnqInv'
    BY <1>0, <2>2 DEF EnqInv
  <2>4. FlowInv'
    BY <1>0, <1>1, <2>0 DEF FlowInv, FlowKnown
  <2> QED BY <1>0, <1>1, <2>0, <2>1, <2>3, <2>4 DEF Calm
<1>4. CASE plt.plugged /\ card.shift = "ENQ"
  <2>0. PlotterFits(plt') /\ SameMain(plt, plt') /\ SameFlow(plt, plt')
    BY <1>0, <1>2, <1>4, EnqIs
  <2>k. PICK k \in Nat : k <= EnqMax /\ k <= in_free(plt) /\ Pushed(plt.resp, Sym("free", k), plt'.resp)
    BY <1>0, <1>2, <1>4, EnqIs
  <2>m. plt'.plugged = plt.plugged /\ plt'.dropped = plt.dropped /\ plt'.in = plt.in /\ plt'.shift = plt.shift
    BY <2>0 DEF SameMain
  <2>s. Sym("free", k) \in Syms /\ Sym("free", k).s = "free" /\ Sym("free", k).n = k
        /\ Sym("cr", 0).s = "cr"
    BY DEF Sym, Syms
  <2>a. /\ \A i \in 1..Len(plt'.resp) :
             (i \in 1..Len(plt.resp) /\ plt'.resp[i] = plt.resp[i])
                \/ plt'.resp[i] = Sym("free", k) \/ plt'.resp[i] = Sym("cr", 0)
        /\ Without(plt.resp, Ans) => CrLast(plt'.resp)
        /\ \A S : Without(plt.resp, S) /\ "free" \notin S /\ "cr" \notin S => Without(plt'.resp, S)
    BY <2>k, <2>s, AnswerAdds, WireFields
  <2>1. WireTyped'
    BY <1>t, <2>0
  <2>2. ASSUME guest.drv = "enq" PROVE (AskedOnce /\ Awaited /\ InOrder /\ Honest)'
    <3>0. AskedOnce /\ Awaited /\ InOrder /\ Honest
      BY <2>2 DEF EnqInv
    <3>q. card.buf = Nothing /\ NoQuery /\ guest.wait = "cr" /\ NonePending
      BY <1>4, <3>0 DEF AskedOnce, Awaited, Asks
    <3>1. AskedOnce'
      BY <1>1, <1>n, <2>m, <3>0, <3>q DEF AskedOnce, NoQuery
    <3>2. Awaited'
      BY <1>0, <1>1, <1>n, <2>m, <3>0, <3>q DEF Awaited, NoQuery, Nothing
    <3>3. InOrder'
      <4>1. Without(card.fifo, {"cr"}) /\ Without(plt.shift, {"cr"})
        BY <3>q DEF NonePending, Without, Ans
      <4> QED BY <1>1, <2>a, <2>m, <3>0, <3>q, <4>1 DEF InOrder, NonePending
    <3>4. UnderWay = 0 /\ UnderWay' = 0
      BY <1>4, <1>u, <3>q, WeightIs
    <3>5. Honest'
      <4>1. in_free(plt') = in_free(plt)
        BY <2>m DEF in_free
      <4>2. Kept(card.fifo)' /\ Kept(plt.shift)'
        BY <1>1, <2>m, <3>0, <3>4, <4>1 DEF Honest, Kept
      <4>3. k + 0 <= in_free(plt)
        BY <2>k, WireFields
      <4>4. Kept(plt.resp)'
        <5> SUFFICES ASSUME NEW i \in 1..Len(plt'.resp), plt'.resp[i].s = "free"
                     PROVE  plt'.resp[i].n <= EnqMax /\ plt'.resp[i].n + UnderWay' <= in_free(plt')
          BY DEF Kept
        <5>1. CASE i \in 1..Len(plt.resp) /\ plt'.resp[i] = plt.resp[i]
          BY <3>0, <3>4, <4>1, <5>1 DEF Honest, Kept
        <5>2. CASE plt'.resp[i] = Sym("free", k)
          BY <2>k, <2>s, <3>4, <4>1, <4>3, <5>2
        <5> QED BY <2>a, <2>s, <5>1, <5>2
      <4> QED BY <1>0, <2>m, <3>0, <3>4, <4>1, <4>2, <4>4 DEF Honest
    <3> QED BY <3>1, <3>2, <3>3, <3>5
  <2>3. EnqInv'
    BY <1>0, <2>2 DEF EnqInv
  <2>4. FlowInv'
    <3>1. Without(plt.resp, Flows) => Without(plt'.resp, Flows)
      BY <2>a DEF Flows
    <3> QED BY <1>0, <1>1, <2>0, <2>m, <3>1, FlowStays
  <2> QED BY <1>0, <1>1, <2>m, <2>1, <2>3, <2>4 DEF Calm
<1>5. CASE plt.plugged /\ card.shift # "ENQ"
  <2>0. /\ PlotterFits(plt') /\ plt'.plugged = plt.plugged /\ plt'.resp = plt.resp
        /\ plt'.shift = plt.shift
        /\ Len(plt.in) < InBuf => plt'.in = Append(plt.in, card.shift) /\ plt'.dropped = plt.dropped
        /\ SameFlow(plt, plt') \/ (plt'.flow = "XOFF" /\ plt'.stopped = TRUE)
    <3>1. plt' = on_receive_byte(plt, card.shift)
      BY <1>0, <1>5
    <3> DEFINE b == card.shift
    <3>2. b \in Bytes /\ b # "ENQ" /\ plt' = on_receive_byte(plt, b) /\ PlotterFits(plt)
      BY <1>2, <1>5, <3>1
    <3> HIDE DEF b
    <3>3. /\ PlotterFits(plt') /\ plt'.plugged = plt.plugged /\ plt'.resp = plt.resp
          /\ plt'.shift = plt.shift
          /\ Len(plt.in) < InBuf => plt'.in = Append(plt.in, b) /\ plt'.dropped = plt.dropped
          /\ SameFlow(plt, plt') \/ (plt'.flow = "XOFF" /\ plt'.stopped = TRUE)
      BY ONLY <3>2, ByteIs
    <3> QED BY <3>3 DEF b
  <2>1. WireTyped'
    BY <1>t, <2>0
  <2>2. ASSUME guest.drv = "enq" PROVE (AskedOnce /\ Awaited /\ InOrder /\ Honest)'
    <3>0. AskedOnce /\ Awaited /\ InOrder /\ Honest
      BY <2>2 DEF EnqInv
    <3>w. Weight(card.shift) = 1
      BY <1>0, <1>5, WeightIs
    <3>f. Len(plt.in) < InBuf
      <4>1. guest.credit + UnderWay <= InBuf - Len(plt.in)
        BY <3>0, WireFields DEF Honest
      <4> QED BY <1>u, <3>w, <4>1, WireFields, WeightIs
    <3>i. plt'.in = Append(plt.in, card.shift) /\ plt'.dropped = plt.dropped
      BY <2>0, <3>f
    <3>a. /\ Len(plt'.in) = Len(plt.in) + 1 /\ plt'.in[Len(plt.in) + 1] = card.shift
          /\ \A i \in 1..Len(plt.in) : plt'.in[i] = plt.in[i]
      BY <1>2, <3>i, AppendIs, WireFields
    <3>b. \A i \in 1..Len(plt'.in) : i \in 1..Len(plt.in) \/ i = Len(plt.in) + 1
      BY <3>a, WireFields
    <3>c. NoQuery' => NoQuery /\ ~Asks(card.shift)
      <4>1. \A i \in 1..Len(plt.in) : i \in 1..Len(plt'.in)
        BY <3>a, WireFields
      <4>2. Len(plt.in) + 1 \in 1..Len(plt'.in)
        BY <3>a, WireFields
      <4> QED BY <1>5, <3>a, <4>1, <4>2 DEF NoQuery, Asks
    <3>d. NoQuery /\ ~Asks(card.shift) => NoQuery'
      BY <3>a, <3>b DEF NoQuery, Asks
    <3>1. AskedOnce'
      <4>1. \A i, j \in 1..Len(plt'.in) : plt'.in[i] = "OS" /\ plt'.in[j] = "OS" => i = j
        BY <3>0, <3>a, <3>b DEF AskedOnce, NoQuery, Asks
      <4>2. Asks(card.buf) => NoQuery'
        BY <3>0, <3>d DEF AskedOnce
      <4> QED BY <1>1, <1>n, <4>1, <4>2 DEF AskedOnce
    <3>2. Awaited'
      BY <1>0, <1>1, <1>n, <2>0, <3>0, <3>d DEF Awaited, NonePending
    <3>3. InOrder'
      BY <1>1, <2>0, <3>0 DEF InOrder
    <3>4. UnderWay = UnderWay' + 1 /\ UnderWay' \in Nat /\ in_free(plt') = in_free(plt) - 1
      <4>1. in_free(plt') = InBuf - (Len(plt.in) + 1)
        BY <3>a DEF in_free
      <4> QED BY <1>u, <3>w, <4>1, WireFields, WeightIs
    <3>5. Honest'
      <4>1. \A k \in Nat : k + UnderWay <= in_free(plt) => k + UnderWay' <= in_free(plt')
        BY <3>4, WireFields
      <4>2. \A s \in Seq(Syms) : \A i \in 1..Len(s) : s[i].n \in Nat
        BY NumberIs
      <4> QED BY <1>0, <1>1, <2>0, <3>0, <3>i, <4>1, <4>2, WireFields DEF Honest, Kept
    <3> QED BY <3>1, <3>2, <3>3, <3>5
  <2>3. EnqInv'
    BY <1>0, <2>2 DEF EnqInv
  <2>4. FlowInv'
    BY <1>0, <1>1, <2>0, FlowStays, FlowSaid
  <2> QED BY <1>0, <1>1, <2>0, <2>1, <2>3, <2>4 DEF Calm
<1> QED BY <1>3, <1>4, <1>5

(* The plotter's transmitter: a flow character that goes out is still the    *)
(* youngest, and an answer leaves its queue in order.                       *)
LEMMA SendFits == ASSUME WireKeeps, plt_tx_start PROVE WireKeeps' /\ Calm
<1> USE DEF WireKeeps
<1>0. plt.shift = <<>> /\ card' = card /\ pen' = pen /\ guest' = guest
  BY DEF plt_tx_start
<1>u. UnderWay' = UnderWay
  BY <1>0 DEF UnderWay
<1>p. plt \in PltRec /\ PlotterFits(plt)
  BY WireFields DEF WireTyped
<1>e. \A S : Without(<<>>, S)
  BY DEF Without
<1>1. CASE plt.flow # Nothing /\ plt' = [plt EXCEPT !.shift = <<Sym(plt.flow, 0)>>, !.flow = Nothing]
  <2> DEFINE x == Sym(plt.flow, 0)
  <2>x. x \in Syms /\ x.s = plt.flow /\ plt.flow \in Flows
    BY <1>1, <1>p DEF Sym, Syms, Flows, PltRec
  <2> HIDE DEF x
  <2>s. <<x>> \in Seq(Syms) /\ Len(<<x>>) = 1 /\ <<x>>[1] = x
    BY <2>x
  <2>1. /\ plt' \in PltRec /\ plt'.plugged = plt.plugged /\ plt'.dropped = plt.dropped
        /\ plt'.in = plt.in /\ plt'.resp = plt.resp /\ plt'.shift = <<x>> /\ plt'.flow = Nothing
        /\ plt'.stopped = plt.stopped
    BY <1>1, <1>p, <2>s DEF PltRec, x
  <2>2. WireTyped'
    BY <1>0, <1>p, <2>1, <2>s DEF WireTyped, PlotterFits
  <2>a. /\ \A S : plt.flow \notin S => Without(<<x>>, S)
        /\ plt.flow \notin Ans /\ plt.flow \notin {"cr"}
    BY <2>s, <2>x DEF Without, Ans, Flows
  <2>3. ASSUME guest.drv = "enq" PROVE (AskedOnce /\ Awaited /\ InOrder /\ Honest)'
    <3>0. AskedOnce /\ Awaited /\ InOrder /\ Honest
      BY <2>3 DEF EnqInv
    <3>1. AskedOnce'
      BY <1>0, <2>1, <3>0 DEF AskedOnce, NoQuery
    <3>2. Awaited'
      BY <1>0, <2>1, <2>a, <3>0 DEF Awaited, NoQuery, NonePending
    <3>3. InOrder'
      BY <1>0, <2>1, <2>a, <3>0 DEF InOrder
    <3>4. Honest'
      <4>1. in_free(plt') = in_free(plt)
        BY <2>1 DEF in_free
      <4>2. Kept(plt.shift)'
        BY <2>1, <2>s, <2>x DEF Kept, Flows
      <4> QED BY <1>0, <1>u, <2>1, <3>0, <4>1, <4>2 DEF Honest, Kept
    <3> QED BY <3>1, <3>2, <3>3, <3>4
  <2>4. EnqInv'
    BY <1>0, <2>3 DEF EnqInv
  <2>5. ASSUME guest.drv \in Polite PROVE FlowKnown'
    <3>1. FlowKnown
      BY <2>5 DEF FlowInv
    <3>2. (x.s = "XOFF") = plt.stopped
      BY <1>1, <2>x, <3>1 DEF FlowKnown
    <3>3. \A i \in 1..Len(plt'.shift) : Says(plt'.shift[i], plt'.stopped)
      BY <2>1, <2>s, <3>2 DEF Says
    <3>4. ~Without(plt.shift, Flows)'
      BY <2>1, <2>s, <2>x DEF Without
    <3> QED BY <2>1, <3>1, <3>3, <3>4 DEF FlowKnown
  <2>6. FlowInv'
    BY <1>0, <2>5 DEF FlowInv
  <2> QED BY <1>0, <2>1, <2>2, <2>4, <2>6 DEF Calm
<1>2. CASE plt.flow = Nothing /\ plt.resp # <<>>
           /\ plt' = [plt EXCEPT !.shift = <<Head(plt.resp)>>, !.resp = Tail(@)]
  <2> DEFINE x == Head(plt.resp)
  <2>x. /\ x \in Syms /\ x = plt.resp[1] /\ Tail(plt.resp) \in Seq(Syms) /\ 1 \in 1..Len(plt.resp)
        /\ Len(Tail(plt.resp)) = Len(plt.resp) - 1
        /\ \A i \in 1..Len(Tail(plt.resp)) : Tail(plt.resp)[i] = plt.resp[i + 1]
    BY <1>2, TailIs, WireFields
  <2>i. \A i \in 1..Len(Tail(plt.resp)) : i + 1 \in 1..Len(plt.resp) /\ 1 < i + 1
    BY <2>x, WireFields
  <2> HIDE DEF x
  <2>s. <<x>> \in Seq(Syms) /\ Len(<<x>>) = 1 /\ <<x>>[1] = x
    BY <2>x
  <2>1. /\ plt' \in PltRec /\ plt'.plugged = plt.plugged /\ plt'.dropped = plt.dropped
        /\ plt'.in = plt.in /\ plt'.resp = Tail(plt.resp) /\ plt'.shift = <<x>>
        /\ plt'.flow = plt.flow /\ plt'.stopped = plt.stopped
    BY <1>2, <1>p, <2>s, <2>x DEF PltRec, x
  <2>2. WireTyped'
    <3>1. Len(Tail(plt.resp)) <= RespSize
      BY <1>p, <2>x, SerialAssumption, WireFields DEF PlotterFits
    <3> QED BY <1>0, <1>p, <2>1, <2>s, <3>1 DEF WireTyped, PlotterFits
  <2>a. \A S : Without(plt.resp, S) => Without(<<x>>, S) /\ Without(Tail(plt.resp), S)
    BY <2>i, <2>s, <2>x DEF Without
  <2>3. ASSUME guest.drv = "enq" PROVE (AskedOnce /\ Awaited /\ InOrder /\ Honest)'
    <3>0. AskedOnce /\ Awaited /\ InOrder /\ Honest
      BY <2>3 DEF EnqInv
    <3>1. AskedOnce'
      BY <1>0, <2>1, <3>0 DEF AskedOnce, NoQuery
    <3>2. Awaited'
      BY <1>0, <2>1, <2>a, <3>0 DEF Awaited, NoQuery, NonePending
    <3>3. InOrder'
      <4>1. CrLast(plt.resp)
        BY <3>0 DEF InOrder
      <4>2. x.s = "cr" => Without(Tail(plt.resp), Ans)
        BY <2>i, <2>x, <4>1 DEF CrLast, Without
      <4>3. Without(<<x>>, {"cr"}) \/ Without(Tail(plt.resp), Ans)
        BY <2>s, <4>2 DEF Without
      <4>4. CrLast(Tail(plt.resp))
        <5> SUFFICES ASSUME NEW i \in 1..Len(Tail(plt.resp)), NEW j \in 1..Len(Tail(plt.resp)),
                            i < j, Tail(plt.resp)[i].s = "cr"
                     PROVE  Tail(plt.resp)[j].s \notin Ans
          BY DEF CrLast
        <5>1. i + 1 < j + 1
          BY <2>x, WireFields
        <5> QED BY <2>i, <2>x, <4>1, <5>1 DEF CrLast
      <4> QED BY <1>0, <2>1, <2>a, <3>0, <4>3, <4>4 DEF InOrder
    <3>4. Honest'
      <4>1. in_free(plt') = in_free(plt)
        BY <2>1 DEF in_free
      <4>2. Kept(plt.shift)' /\ Kept(plt.resp)'
        BY <1>u, <2>1, <2>i, <2>s, <2>x, <3>0, <4>1 DEF Honest, Kept
      <4> QED BY <1>0, <1>u, <2>1, <3>0, <4>1, <4>2 DEF Honest, Kept
    <3> QED BY <3>1, <3>2, <3>3, <3>4
  <2>4. EnqInv'
    BY <1>0, <2>3 DEF EnqInv
  <2>5. ASSUME guest.drv \in Polite PROVE FlowKnown'
    <3>1. FlowKnown
      BY <2>5 DEF FlowInv
    <3>2. Without(plt.resp, Flows)' /\ x.s \notin Flows
      BY <2>1, <2>a, <2>s, <3>1 DEF FlowKnown, Without
    <3>3. \A i \in 1..Len(plt'.shift) : Says(plt'.shift[i], plt'.stopped)
      BY <2>1, <2>s, <3>2 DEF Says
    <3>4. Without(plt.shift, Flows)
      BY <1>0, <1>e
    <3> QED BY <1>0, <1>2, <2>1, <3>1, <3>2, <3>3, <3>4 DEF FlowKnown
  <2>6. FlowInv'
    BY <1>0, <2>5 DEF FlowInv
  <2> QED BY <1>0, <2>1, <2>2, <2>4, <2>6 DEF Calm
<1> QED BY <1>1, <1>2 DEF plt_tx_start

(* The card's receiver: what was on the line is the youngest in the FIFO.   *)
LEMMA ArriveFits == ASSUME WireKeeps, rx_end PROVE WireKeeps' /\ Calm
<1> USE DEF WireKeeps
<1> DEFINE x == Head(plt.shift)
<1>0. plt.shift # <<>> /\ card' = fifo_push(card, x) /\ plt' = [plt EXCEPT !.shift = <<>>]
      /\ pen' = pen /\ guest' = guest
  BY DEF rx_end
<1>1. x \in Syms /\ x = plt.shift[1] /\ 1 \in 1..Len(plt.shift) /\ Len(plt.shift) = 1
  <2>1. x \in Syms /\ x = plt.shift[1] /\ Len(plt.shift) >= 1
    BY <1>0, TailIs, WireFields
  <2>2. Len(plt.shift) \in Nat /\ Len(plt.shift) <= 1
    BY WireFields
  <2> HIDE DEF x
  <2> DEFINE n == Len(plt.shift)
  <2>3. n \in Nat /\ n <= 1 /\ n >= 1
    BY <2>1, <2>2
  <2> HIDE DEF n
  <2>4. n = 1
    BY <2>3
  <2> QED BY <2>1, <2>4 DEF n
<1> HIDE DEF x
<1>y. <<>> \in Seq(Syms) /\ Len(<<>>) = 0
  OBVIOUS
<1>2. /\ plt' \in PltRec /\ plt'.plugged = plt.plugged /\ plt'.dropped = plt.dropped
      /\ plt'.in = plt.in /\ plt'.resp = plt.resp /\ plt'.shift = <<>> /\ plt'.flow = plt.flow
      /\ plt'.stopped = plt.stopped
  BY <1>0, <1>y, WireFields DEF PltRec
<1>3. WireTyped'
  <2>1. CardFits(card') /\ PlotterFits(plt')
    <3>1. CardFits(card')
      BY <1>0, <1>1, CardKeeps DEF WireTyped
    <3>2. PlotterFits(plt')
      BY <1>2, <1>y DEF WireTyped, PlotterFits
    <3> QED BY <3>1, <3>2
  <2> QED BY <1>0, <2>1 DEF WireTyped
<1>4. card'.buf = card.buf /\ card'.shift = card.shift /\ card'.tx = card.tx
  BY <1>0, WireFields DEF fifo_push, CardRec
<1>5. ASSUME guest.drv \in Polite
      PROVE  /\ Len(card'.fifo) = Len(card.fifo) + 1 /\ card'.fifo[Len(card.fifo) + 1] = x
             /\ \A i \in 1..Len(card.fifo) : card'.fifo[i] = card.fifo[i]
             /\ \A i \in 1..Len(card'.fifo) : i \in 1..Len(card.fifo) \/ i = Len(card.fifo) + 1
             /\ \A i \in 1..Len(card.fifo) : i \in 1..Len(card'.fifo) /\ i < Len(card.fifo) + 1
             /\ Len(card.fifo) + 1 \in 1..Len(card'.fifo)
  <2>1. Len(card.fifo) < FifoSize
    BY <1>5 DEF rx_end
  <2>2. card' = [card EXCEPT !.fifo = Append(@, x)]
    BY <1>0, <2>1, SerialAssumption, WireFields DEF fifo_push
  <2>3. card'.fifo = Append(card.fifo, x)
    BY <2>2, WireFields DEF CardRec
  <2>4. /\ Len(card'.fifo) = Len(card.fifo) + 1 /\ card'.fifo[Len(card.fifo) + 1] = x
        /\ \A i \in 1..Len(card.fifo) : card'.fifo[i] = card.fifo[i]
    BY <1>1, <2>3, AppendIs, WireFields
  <2> QED BY <2>4, WireFields
<1>6. ASSUME guest.drv \in Polite, NEW S
      PROVE  Without(card'.fifo, S) <=> Without(card.fifo, S) /\ Without(plt.shift, S)
  <2>1. Without(plt.shift, S) <=> x.s \notin S
    BY <1>1 DEF Without
  <2> QED BY <1>5, <1>6, <2>1 DEF Without
<1>e. \A S : Without(<<>>, S)
  BY DEF Without
<1>7. ASSUME guest.drv = "enq" PROVE (AskedOnce /\ Awaited /\ InOrder /\ Honest)'
  <2>0. AskedOnce /\ Awaited /\ InOrder /\ Honest /\ guest.drv \in Polite
    BY <1>7 DEF EnqInv, Polite
  <2>1. AskedOnce'
    BY <1>2, <1>4, <2>0 DEF AskedOnce, NoQuery
  <2>2. Awaited'
    BY <1>0, <1>2, <1>4, <1>6, <1>e, <2>0 DEF Awaited, NoQuery, NonePending
  <2>3. InOrder'
    <3>1. CrLast(card'.fifo)
      <4>1. CrLast(card.fifo) /\ (Without(card.fifo, {"cr"}) \/ Without(plt.shift, Ans))
        BY <2>0 DEF InOrder
      <4>2. ASSUME NEW i \in 1..Len(card.fifo), card.fifo[i].s = "cr" PROVE x.s \notin Ans
        BY <1>1, <4>1, <4>2 DEF Without
      <4>3. \A i \in 1..Len(card'.fifo) : ~(Len(card.fifo) + 1 < i)
        BY <1>5, <2>0, WireFields
      <4> QED BY <1>5, <2>0, <4>1, <4>2, <4>3 DEF CrLast
    <3>2. Without(card'.fifo, {"cr"}) \/ Without(plt.resp, Ans)
      BY <1>6, <2>0 DEF InOrder
    <3> QED BY <1>2, <1>e, <2>0, <3>1, <3>2 DEF InOrder
  <2>4. Honest'
    <3>1. in_free(plt') = in_free(plt) /\ UnderWay' = UnderWay
      BY <1>2, <1>4 DEF in_free, UnderWay
    <3>2. Kept(card.fifo)'
      BY <1>1, <1>5, <2>0, <3>1 DEF Honest, Kept
    <3>3. Kept(plt.shift)'
      BY <1>2 DEF Kept
    <3> QED BY <1>0, <1>2, <2>0, <3>1, <3>2, <3>3 DEF Honest, Kept
  <2> QED BY <2>1, <2>2, <2>3, <2>4
<1>8. EnqInv'
  BY <1>0, <1>7 DEF EnqInv
<1>9. ASSUME guest.drv \in Polite PROVE FlowKnown'
  <2>1. FlowKnown
    BY <1>9 DEF FlowInv
  <2>2. ASSUME plt.flow = Nothing, NEW i \in 1..Len(card'.fifo),
               \A j \in 1..Len(card'.fifo) : i < j => card'.fifo[j].s \notin Flows
        PROVE  Says(card'.fifo[i], plt.stopped)
    <3>1. CASE i = Len(card.fifo) + 1
      BY <1>1, <1>5, <1>9, <2>1, <2>2, <3>1 DEF FlowKnown
    <3>2. CASE i \in 1..Len(card.fifo)
      <4>1. x.s \notin Flows
        BY <1>5, <1>9, <2>2, <3>2
      <4>2. Without(plt.shift, Flows)
        BY <1>1, <4>1 DEF Without
      <4>3. \A j \in 1..Len(card.fifo) : i < j => card.fifo[j].s \notin Flows
        BY <1>5, <1>9, <2>2
      <4> QED BY <1>5, <1>9, <2>1, <2>2, <3>2, <4>2, <4>3 DEF FlowKnown
    <3> QED BY <1>5, <1>9, <3>1, <3>2
  <2>3. plt.flow = Nothing /\ Without(card'.fifo, Flows) => guest.stopped = plt.stopped
    BY <1>6, <1>9, <2>1 DEF FlowKnown
  <2> QED BY <1>0, <1>2, <2>1, <2>2, <2>3 DEF FlowKnown
<1>10. FlowInv'
  BY <1>0, <1>9 DEF FlowInv
<1> QED BY <1>0, <1>2, <1>3, <1>4, <1>8, <1>10 DEF Calm

(* The plotter's interpreter: a byte leaves the buffer, a query is answered. *)
LEMMA DrainFits == ASSUME WireKeeps, service_input PROVE WireKeeps' /\ Calm
<1> USE DEF WireKeeps
<1>0. plt.in # <<>> /\ plt' = Drained(plt) /\ pen' = parser_feed(pen, Head(plt.in))
      /\ card' = card /\ guest' = guest
  BY DEF service_input, Drained
<1>1. /\ PlotterFits(plt') /\ plt'.plugged = plt.plugged /\ plt'.dropped = plt.dropped
      /\ plt'.shift = plt.shift /\ plt'.in = Tail(plt.in)
      /\ IF Head(plt.in) = "OS" THEN Pushed(plt.resp, Sym("status", 0), plt'.resp) ELSE plt'.resp = plt.resp
      /\ SameFlow(plt, plt') \/ (plt'.flow = "XON" /\ plt'.stopped = FALSE)
  BY <1>0, DrainIs DEF WireTyped
<1>2. WireTyped'
  BY <1>0, <1>1, PenKeeps DEF WireTyped
<1>3. /\ Len(plt'.in) = Len(plt.in) - 1 /\ Head(plt.in) = plt.in[1] /\ 1 \in 1..Len(plt.in)
      /\ \A i \in 1..Len(plt'.in) : plt'.in[i] = plt.in[i + 1]
  BY <1>0, <1>1, TailIs, WireFields
<1>4. /\ \A i \in 1..Len(plt'.in) : i + 1 \in 1..Len(plt.in) /\ i + 1 # 1
      /\ \A i, j \in 1..Len(plt'.in) : i + 1 = j + 1 => i = j
  BY <1>3, WireFields
<1>s. Sym("status", 0) \in Syms /\ Sym("status", 0).s = "status" /\ Sym("cr", 0).s = "cr"
  BY DEF Sym, Syms
<1>a. /\ Head(plt.in) = "OS" /\ Without(plt.resp, Ans) => CrLast(plt'.resp)
      /\ \A S : Without(plt.resp, S) /\ "status" \notin S /\ "cr" \notin S => Without(plt'.resp, S)
      /\ Head(plt.in) = "OS" =>
           \A i \in 1..Len(plt'.resp) :
             (i \in 1..Len(plt.resp) /\ plt'.resp[i] = plt.resp[i]) \/ plt'.resp[i].s # "free"
  <2>1. CASE Head(plt.in) = "OS"
    <3>1. Pushed(plt.resp, Sym("status", 0), plt'.resp)
      BY <1>1, <2>1
    <3>2. /\ \A i \in 1..Len(plt'.resp) :
               (i \in 1..Len(plt.resp) /\ plt'.resp[i] = plt.resp[i])
                  \/ plt'.resp[i] = Sym("status", 0) \/ plt'.resp[i] = Sym("cr", 0)
          /\ Without(plt.resp, Ans) => CrLast(plt'.resp)
          /\ \A S : Without(plt.resp, S) /\ "status" \notin S /\ "cr" \notin S => Without(plt'.resp, S)
      BY <1>s, <3>1, AnswerAdds, WireFields
    <3> QED BY <1>s, <3>2
  <2>2. CASE Head(plt.in) # "OS"
    BY <1>1, <2>2
  <2> QED BY <2>1, <2>2
<1>5. ASSUME guest.drv = "enq" PROVE (AskedOnce /\ Awaited /\ InOrder /\ Honest)'
  <2>0. AskedOnce /\ Awaited /\ InOrder /\ Honest
    BY <1>5 DEF EnqInv
  <2>n. NoQuery => NoQuery'
    BY <1>3, <1>4 DEF NoQuery
  <2>1. AskedOnce'
    <3>1. \A i, j \in 1..Len(plt'.in) : plt'.in[i] = "OS" /\ plt'.in[j] = "OS" => i = j
      BY <1>3, <1>4, <2>0 DEF AskedOnce
    <3> QED BY <1>0, <2>0, <2>n, <3>1 DEF AskedOnce
  <2>2. in_free(plt') = in_free(plt) + 1 /\ UnderWay' = UnderWay
    <3>1. in_free(plt') = InBuf - (Len(plt.in) - 1)
      BY <1>3 DEF in_free
    <3> QED BY <1>0, <3>1, WireFields DEF UnderWay
  <2>u. UnderWay \in Nat /\ in_free(plt) \in Int
    BY WireFields, WeightIs DEF UnderWay
  <2>k. \A k \in Nat : k + UnderWay <= in_free(plt) => k + UnderWay <= in_free(plt) + 1
    BY <2>u
  <2>h. Kept(card.fifo)' /\ Kept(plt.shift)'
    BY <1>0, <1>1, <2>0, <2>2, <2>k, NumberIs, WireFields DEF Honest, Kept
  <2>3. CASE Head(plt.in) = "OS"
    <3>1. ~NoQuery /\ guest.wait = "cr" /\ NonePending /\ ~Asks(card.buf) /\ ~Asks(card.shift)
      <4>1. ~NoQuery
        BY <1>3, <2>3 DEF NoQuery
      <4> QED BY <2>0, <4>1 DEF AskedOnce, Awaited
    <3>2. NoQuery'
      BY <1>3, <1>4, <2>0, <2>3 DEF AskedOnce, NoQuery
    <3>3. Awaited'
      BY <1>0, <3>1, <3>2 DEF Awaited, Nothing
    <3>4. InOrder'
      <4>1. Without(card.fifo, {"cr"}) /\ Without(plt.shift, {"cr"})
        BY <3>1 DEF NonePending, Without, Ans
      <4> QED BY <1>0, <1>1, <1>a, <2>0, <2>3, <3>1, <4>1 DEF InOrder, NonePending
    <3>5. Honest'
      <4>1. Kept(plt.resp)'
        BY <1>a, <2>0, <2>2, <2>3, <2>k, NumberIs, WireFields DEF Honest, Kept
      <4> QED BY <1>0, <1>1, <2>0, <2>2, <2>h, <2>k, <4>1, WireFields DEF Honest
    <3> QED BY <2>1, <3>3, <3>4, <3>5
  <2>4. CASE Head(plt.in) # "OS"
    <3>1. plt'.resp = plt.resp
      BY <1>1, <2>4
    <3>2. Awaited'
      BY <1>0, <1>1, <2>0, <2>n, <3>1 DEF Awaited, NonePending
    <3>3. InOrder'
      BY <1>0, <1>1, <2>0, <3>1 DEF InOrder
    <3>4. Honest'
      <4>1. Kept(plt.resp)'
        BY <2>0, <2>2, <2>k, <3>1, NumberIs, WireFields DEF Honest, Kept
      <4> QED BY <1>0, <1>1, <2>0, <2>2, <2>h, <2>k, <4>1, WireFields DEF Honest
    <3> QED BY <2>1, <3>2, <3>3, <3>4
  <2> QED BY <2>3, <2>4
<1>6. EnqInv'
  BY <1>0, <1>5 DEF EnqInv
<1>7. FlowInv'
  <2>1. Without(plt.resp, Flows) => Without(plt'.resp, Flows)
    BY <1>a DEF Flows
  <2> QED BY <1>0, <1>1, <2>1, FlowStays, FlowSaid
<1> QED BY <1>0, <1>1, <1>2, <1>6, <1>7 DEF Calm

(* A cleared page disturbs no promise.                                     *)
LEMMA ClearFits == ASSUME WireKeeps, plotter_hp7470a_clear_page PROVE WireKeeps' /\ Calm
<1> USE DEF WireKeeps
<1>0. card' = card /\ plt' = plt /\ guest' = guest /\ pen' = BlankPage(pen)
  BY DEF plotter_hp7470a_clear_page
<1>1. WireTyped'
  BY <1>0, PenKeeps DEF WireTyped
<1>2. EnqInv'
  BY <1>0 DEF EnqInv, AskedOnce, Awaited, InOrder, Honest, Kept, NoQuery, NonePending, UnderWay
<1>3. FlowInv'
  BY <1>0 DEF FlowInv, FlowKnown
<1> QED BY <1>0, <1>1, <1>2, <1>3 DEF Calm

(* A DART command empties what only such a driver would miss.              *)
LEMMA DartFits == ASSUME WireKeeps, dart_ctrl_write PROVE WireKeeps' /\ Calm
<1> USE DEF WireKeeps
<1>0. guest.drv \notin Polite /\ plt' = plt /\ pen' = pen /\ guest' = guest
      /\ (card' = chan_a_reset(card) \/ card' = [card EXCEPT !.err = FALSE, !.lost = FALSE])
  BY DEF dart_ctrl_write
<1>1. CardFits(card') /\ card'.tx = card.tx
  <2>1. CASE card' = chan_a_reset(card)
    BY <2>1, CardKeeps DEF WireTyped
  <2>2. CASE card' = [card EXCEPT !.err = FALSE, !.lost = FALSE]
    <3>1. CardFits(card')
      BY <2>2, CardKeeps DEF WireTyped
    <3> QED BY <2>2, <3>1, WireFields DEF CardRec
  <2> QED BY <1>0, <2>1, <2>2
<1>2. WireTyped'
  BY <1>0, <1>1 DEF WireTyped
<1>3. EnqInv' /\ FlowInv'
  BY <1>0 DEF EnqInv, FlowInv, Polite
<1> QED BY <1>0, <1>1, <1>2, <1>3 DEF Calm

(* A driver that sends has heard all it asked for, and sends what it may.   *)
LEMMA DriverFits ==
  ASSUME WireKeeps, NEW b \in guest.text \cup {"ENQ"}, DriverSends(b)
  PROVE  WireKeeps' /\ Calm
<1> USE DEF WireKeeps
<1> DEFINE c == IF b = "ENQ" \/ guest.drv # "enq" THEN 0 ELSE guest.credit - 1
           w == IF b \in {"ENQ", "OS"} /\ guest.drv \in Polite THEN "cr" ELSE Nothing
           l == IF b \in {"LB", "ETX"} THEN b = "LB" ELSE guest.inlabel
<1>0. /\ card.buf = Nothing /\ (guest.drv \in Polite => guest.wait = Nothing)
      /\ card' = (IF card.plugged THEN [card EXCEPT !.buf = b] ELSE card)
      /\ plt' = plt /\ pen' = pen
      /\ guest' = [guest EXCEPT !.credit = c, !.wait = w, !.inlabel = l]
  BY DEF DriverSends, rr0_tx_empty, data_write
<1>e. guest.drv = "enq" => (b = "ENQ" <=> guest.credit = 0)
  BY DEF DriverSends
<1>b. b \in Bytes
  <2>1. guest.text \in Streams
    BY WireFields DEF GuestRec
  <2>2. ASSUME NEW t \in Streams, NEW x \in t PROVE x \in Bytes
    BY DEF Bytes
  <2>3. "ENQ" \in Bytes
    BY DEF Bytes
  <2> HIDE DEF c, w, l
  <2> QED BY <2>1, <2>2, <2>3
<1>1. /\ CardFits(card') /\ (card'.buf = b \/ card'.buf = Nothing) /\ card'.shift = card.shift
      /\ card'.fifo = card.fifo /\ card'.tx = card.tx
  <2>1. CASE card.plugged
    BY <1>0, <1>b, <2>1, CardKeeps, WireFields DEF WireTyped, CardRec
  <2>2. CASE ~card.plugged
    BY <1>0, <2>2 DEF WireTyped
  <2> QED BY <2>1, <2>2
<1>2. c \in Nat /\ w \in {Nothing, "cr"} /\ l \in BOOLEAN /\ (guest.drv # "enq" => c = 0)
  <2>1. guest.drv = "enq" /\ b # "ENQ" => guest.credit - 1 \in Nat
    BY <1>e, WireFields
  <2>2. l \in BOOLEAN
    BY WireFields DEF GuestRec
  <2> QED BY <2>1, <2>2
<1>3. guest.drv = "enq" => (w = "cr" <=> Asks(b)) /\ (b = "ENQ" => c = 0)
                           /\ (b # "ENQ" => c + 1 = guest.credit)
  BY <1>e, WireFields DEF Asks, Polite, Nothing
<1> HIDE DEF c, w, l
<1>4. /\ guest' \in GuestRec /\ guest'.drv = guest.drv /\ guest'.credit = c /\ guest'.wait = w
      /\ guest'.stopped = guest.stopped
  <2>1. guest \in GuestRec
    BY WireFields
  <2>2. guest' = [guest EXCEPT !.credit = c, !.wait = w, !.inlabel = l]
    BY <1>0
  <2>3. ASSUME NEW h, h = [guest EXCEPT !.credit = c, !.wait = w, !.inlabel = l]
        PROVE  /\ h \in GuestRec /\ h.drv = guest.drv /\ h.credit = c /\ h.wait = w
               /\ h.stopped = guest.stopped
    BY ONLY <1>2, <2>1, <2>3 DEF GuestRec
  <2> QED BY <2>2, <2>3
<1>5. WireTyped'
  BY <1>0, <1>1, <1>2, <1>4 DEF WireTyped
<1>n. ~Asks(Nothing)
  BY DEF Asks, Nothing
<1>6. ASSUME guest.drv = "enq" PROVE (AskedOnce /\ Awaited /\ InOrder /\ Honest)'
  <2>0. AskedOnce /\ Awaited /\ InOrder /\ Honest
    BY <1>6 DEF EnqInv
  <2>1. guest.wait = Nothing /\ NonePending /\ NoQuery /\ ~Asks(card.shift)
    BY <1>0, <1>6, <2>0 DEF Awaited, Polite, Nothing
  <2>2. AskedOnce'
    BY <1>0, <1>1, <1>n, <2>0, <2>1 DEF AskedOnce, NoQuery
  <2>3. Awaited'
    BY <1>0, <1>1, <1>3, <1>4, <1>6, <1>n, <2>1 DEF Awaited, NoQuery, NonePending
  <2>4. InOrder'
    BY <1>0, <1>1, <2>0 DEF InOrder
  <2>5. Honest'
    <3>1. Kept(card.fifo)' /\ Kept(plt.shift)' /\ Kept(plt.resp)'
      BY <1>0, <1>1, <2>1 DEF Kept, NonePending, Without, Ans
    <3>2. UnderWay = Weight(card.shift) /\ UnderWay' = Weight(card'.buf) + Weight(card.shift)
          /\ Weight(card.shift) \in {0, 1} /\ Weight(card'.buf) \in {0, 1}
          /\ (b = "ENQ" => Weight(card'.buf) = 0)
      BY <1>0, <1>1, WeightIs DEF UnderWay
    <3>3. guest.credit + UnderWay <= in_free(plt) /\ guest.credit <= EnqMax
      BY <2>0 DEF Honest
    <3>4. c <= guest.credit /\ c + UnderWay' <= guest.credit + UnderWay
      BY <1>2, <1>3, <1>6, <3>2, WireFields
    <3>5. c + UnderWay' <= in_free(plt) /\ c <= EnqMax
      <4>1. /\ c \in Int /\ guest.credit \in Int /\ UnderWay \in Int /\ UnderWay' \in Int
            /\ in_free(plt) \in Int /\ EnqMax \in Int
        <5>1. UnderWay \in Int /\ UnderWay' \in Int
          BY <3>2
        <5>2. in_free(plt) \in Int /\ guest.credit \in Int
          BY WireFields
        <5>3. EnqMax \in Int
          BY SerialAssumption
        <5> QED BY <1>2, <5>1, <5>2, <5>3
      <4> QED BY ONLY <3>3, <3>4, <4>1
    <3> QED BY <1>0, <1>4, <2>0, <3>1, <3>5 DEF Honest
  <2> QED BY <2>2, <2>3, <2>4, <2>5
<1>7. EnqInv'
  BY <1>4, <1>6 DEF EnqInv
<1>8. FlowInv'
  BY <1>0, <1>1, <1>4, FlowStays DEF SameFlow
<1> QED BY <1>0, <1>1, <1>4, <1>5, <1>7, <1>8 DEF Calm

(* A byte read leaves the FIFO in order: a number becomes the credit, a CR   *)
(* ends the wait, a flow character says what the plotter meant last.        *)
LEMMA PopFits == ASSUME WireKeeps, fifo_pop PROVE WireKeeps' /\ Calm
<1> USE DEF WireKeeps
<1> DEFINE x == Head(card.fifo)
           h == IF x.s \in {"XOFF", "XON"} THEN x.s = "XOFF" ELSE guest.stopped
           w == IF x.s = "cr" THEN Nothing ELSE guest.wait
           c == IF x.s = "free" /\ guest.drv = "enq" THEN x.n ELSE guest.credit
           t == Tail(card.fifo)
<1>0. /\ card.fifo # <<>> /\ card' = [card EXCEPT !.fifo = Tail(@)] /\ plt' = plt /\ pen' = pen
      /\ guest' = [guest EXCEPT !.stopped = h, !.wait = w, !.credit = c]
  BY DEF fifo_pop
<1>1. /\ x \in Syms /\ x = card.fifo[1] /\ t \in Seq(Syms) /\ Len(t) = Len(card.fifo) - 1
      /\ Len(card.fifo) >= 1 /\ \A i \in 1..Len(t) : t[i] = card.fifo[i + 1]
  BY <1>0, TailIs, WireFields
<1>2. /\ 1 \in 1..Len(card.fifo) /\ Len(t) \in Nat
      /\ \A i \in 1..Len(t) : i + 1 \in 1..Len(card.fifo) /\ 1 < i + 1
  BY <1>1, WireFields
<1>i. \A i, j \in 1..Len(t) : i < j => i + 1 < j + 1
  BY <1>2
<1>j. \A j \in 1..Len(card.fifo) : j = 1 \/ \E i \in 1..Len(t) : j = i + 1
  <2> SUFFICES ASSUME NEW j \in 1..Len(card.fifo), j # 1 PROVE \E i \in 1..Len(t) : j = i + 1
    OBVIOUS
  <2>1. j - 1 \in 1..Len(t) /\ j = (j - 1) + 1
    BY <1>1, <1>2, WireFields
  <2> QED BY <2>1
<1>3. h \in BOOLEAN /\ w \in {Nothing, "cr"} /\ c \in Nat
  BY <1>1, WireFields DEF GuestRec, Syms
<1>4. /\ guest' \in GuestRec /\ guest'.drv = guest.drv /\ guest'.credit = c /\ guest'.wait = w
      /\ guest'.stopped = h
  <2>1. guest \in GuestRec
    BY WireFields
  <2> HIDE DEF c, w, h
  <2>2. guest' = [guest EXCEPT !.stopped = h, !.wait = w, !.credit = c]
    BY <1>0
  <2>3. ASSUME NEW g, g = [guest EXCEPT !.stopped = h, !.wait = w, !.credit = c]
        PROVE  /\ g \in GuestRec /\ g.drv = guest.drv /\ g.credit = c /\ g.wait = w
               /\ g.stopped = h
    BY ONLY <1>3, <2>1, <2>3 DEF GuestRec
  <2> QED BY <2>2, <2>3
<1>5. /\ card'.buf = card.buf /\ card'.shift = card.shift /\ card'.fifo = t /\ card'.tx = card.tx
      /\ CardFits(card')
  BY <1>0, CardKeeps, WireFields DEF CardRec, WireTyped
<1>6. WireTyped'
  <2>1. guest.drv # "enq" => c = 0
    BY DEF WireTyped
  <2> QED BY <1>0, <1>4, <1>5, <2>1 DEF WireTyped
<1>a. \A S : Without(card.fifo, S) => Without(t, S) /\ x.s \notin S
  BY <1>1, <1>2 DEF Without
<1>b. \A S : Without(t, S) /\ x.s \notin S => Without(card.fifo, S)
  BY <1>1, <1>j DEF Without
<1>7. ASSUME guest.drv = "enq" PROVE (AskedOnce /\ Awaited /\ InOrder /\ Honest)'
  <2>0. AskedOnce /\ Awaited /\ InOrder /\ Honest
    BY <1>7 DEF EnqInv
  <2>1. AskedOnce'
    BY <1>0, <1>5, <2>0 DEF AskedOnce, NoQuery
  <2>2. NonePending => NonePending' /\ w = guest.wait
    BY <1>0, <1>5, <1>a DEF NonePending, Ans
  <2>3. CrLast(card.fifo)
    BY <2>0 DEF InOrder
  <2>4. x.s = "cr" => NonePending'
    <3>1. x.s = "cr" => Without(t, Ans)
      BY <1>1, <1>2, <2>3 DEF CrLast, Without
    <3>2. x.s = "cr" => ~Without(card.fifo, {"cr"})
      BY <1>a
    <3> QED BY <1>0, <1>5, <2>0, <3>1, <3>2 DEF InOrder, NonePending
  <2>5. Awaited'
    <3>1. w = Nothing => NonePending'
      BY <2>0, <2>2, <2>4 DEF Awaited
    <3>2. NoQuery' = NoQuery
      BY <1>0 DEF NoQuery
    <3> QED BY <1>4, <1>5, <2>0, <2>2, <3>1, <3>2 DEF Awaited
  <2>6. InOrder'
    <3>1. CrLast(t)
      <4> SUFFICES ASSUME NEW i \in 1..Len(t), NEW j \in 1..Len(t), i < j, t[i].s = "cr"
                   PROVE  t[j].s \notin Ans
        BY DEF CrLast
      <4>1. card.fifo[i + 1].s = "cr" /\ card.fifo[j + 1] = t[j] /\ i + 1 < j + 1
        BY <1>1, <1>i
      <4> QED BY <1>2, <2>3, <4>1 DEF CrLast
    <3> QED BY <1>0, <1>5, <1>a, <2>0, <3>1 DEF InOrder
  <2>7. Honest'
    <3>1. in_free(plt') = in_free(plt) /\ UnderWay' = UnderWay
      BY <1>0, <1>5 DEF UnderWay
    <3>2. Kept(card.fifo)'
      BY <1>1, <1>2, <1>5, <2>0, <3>1 DEF Honest, Kept
    <3>3. c <= EnqMax /\ c + UnderWay <= in_free(plt)
      BY <1>1, <1>2, <2>0 DEF Honest, Kept
    <3> QED BY <1>0, <1>4, <2>0, <3>1, <3>2, <3>3 DEF Honest, Kept
  <2> QED BY <2>1, <2>5, <2>6, <2>7
<1>8. EnqInv'
  BY <1>4, <1>7 DEF EnqInv
<1>9. ASSUME guest.drv \in Polite PROVE FlowKnown'
  <2>1. FlowKnown
    BY <1>9 DEF FlowInv
  <2>2. ASSUME plt.flow = Nothing, Without(plt.shift, Flows), NEW i \in 1..Len(t),
               \A j \in 1..Len(t) : i < j => t[j].s \notin Flows
        PROVE  Says(t[i], plt.stopped)
    <3>1. ASSUME NEW j \in 1..Len(card.fifo), i + 1 < j PROVE card.fifo[j].s \notin Flows
      <4>1. PICK k \in 1..Len(t) : j = k + 1
        BY <1>2, <1>j, <3>1
      <4>2. i < k
        BY <1>2, <3>1, <4>1
      <4> QED BY <1>1, <2>2, <4>1, <4>2
    <3> QED BY <1>1, <1>2, <2>1, <2>2, <3>1 DEF FlowKnown
  <2>3. ASSUME plt.flow = Nothing, Without(plt.shift, Flows), Without(t, Flows)
        PROVE  h = plt.stopped
    <3>1. CASE x.s \in Flows
      <4>1. ASSUME NEW j \in 1..Len(card.fifo), 1 < j PROVE card.fifo[j].s \notin Flows
        <5>1. PICK k \in 1..Len(t) : j = k + 1
          BY <1>j, <4>1
        <5> QED BY <1>1, <2>3, <5>1 DEF Without
      <4>2. Says(card.fifo[1], plt.stopped)
        BY <1>2, <2>1, <2>3, <4>1 DEF FlowKnown
      <4> QED BY <1>1, <3>1, <4>2 DEF Says, Flows
    <3>2. CASE x.s \notin Flows
      <4>1. guest.stopped = plt.stopped
        BY <1>b, <2>1, <2>3, <3>2 DEF FlowKnown
      <4> QED BY <3>2, <4>1 DEF Flows
    <3> QED BY <3>1, <3>2
  <2> QED BY <1>0, <1>4, <1>5, <2>1, <2>2, <2>3 DEF FlowKnown
<1>10. FlowInv'
  BY <1>4, <1>9 DEF FlowInv
<1> QED BY <1>0, <1>4, <1>5, <1>6, <1>8, <1>10 DEF Calm

(* With nothing on the way, nothing asked and no byte lost, all promises     *)
(* hold.                                                                    *)
Blank ==
  /\ card.buf = Nothing /\ card.shift = Nothing /\ card.fifo = <<>>
  /\ plt.in = <<>> /\ plt.resp = <<>> /\ plt.flow = Nothing /\ plt.stopped = FALSE /\ plt.shift = <<>>
  /\ guest.stopped = FALSE /\ guest.credit = 0 /\ guest.wait = Nothing
  /\ guest.drv = "enq" => ~plt.dropped

\* A serial line at rest keeps both of its promises.
LEMMA BlankFits == Blank => EnqInv /\ FlowInv
<1> SUFFICES ASSUME Blank PROVE EnqInv /\ FlowInv
  OBVIOUS
<1>e. Len(<<>>) = 0 /\ \A i : i \notin 1..0
  OBVIOUS
<1>n. ~Asks(Nothing)
  BY DEF Asks, Nothing
<1>w. Without(card.fifo, Flows) /\ Without(plt.resp, Flows) /\ NonePending /\ NoQuery
  BY <1>e DEF Blank, Without, NonePending, NoQuery
<1>1. AskedOnce /\ Awaited
  BY <1>e, <1>n, <1>w DEF Blank, AskedOnce, Awaited
<1>2. InOrder
  BY <1>e, <1>w DEF Blank, InOrder, CrLast, NonePending
<1>3. guest.drv = "enq" => Honest
  <2>1. UnderWay = 0 /\ in_free(plt) = InBuf /\ 0 + 0 <= InBuf /\ 0 <= EnqMax
    BY <1>e, SerialAssumption DEF Blank, UnderWay, Weight, in_free
  <2>2. Kept(<<>>)
    BY <1>e DEF Kept
  <2> QED BY <2>1, <2>2 DEF Blank, Honest
<1>4. FlowKnown
  BY <1>e, <1>w DEF Blank, FlowKnown
<1> QED BY <1>1, <1>2, <1>3, <1>4 DEF EnqInv, FlowInv

(* A machine reset leaves nothing on the way, and no hook.                  *)
LEMMA PairResetFits ==
  ASSUME WireKeeps, SerialReset
  PROVE  WireKeeps' /\ card'.tx = NoObj /\ plt'.plugged = plt.plugged /\ guest'.drv = guest.drv
<1>0. /\ card' = ResetCard(card) /\ plt' = Reset7470(plt) /\ pen' = InitPen(pen)
      /\ guest' = [guest EXCEPT !.stopped = FALSE, !.credit = 0, !.wait = Nothing, !.inlabel = FALSE]
  BY DEF SerialReset
<1>w. WireTyped /\ card \in CardRec /\ plt \in PltRec /\ guest \in GuestRec
  BY WireFields DEF WireKeeps
<1>e. <<>> \in Seq(Syms) /\ <<>> \in Seq(Bytes) /\ Len(<<>>) = 0
  OBVIOUS
<1>1. /\ CardFits(card') /\ card'.tx = NoObj
      /\ card'.buf = Nothing /\ card'.shift = Nothing /\ card'.fifo = <<>>
  <2>1. card'.buf = Nothing /\ card'.shift = Nothing /\ card'.fifo = <<>>
    BY <1>0, <1>w DEF CardRec, ResetCard
  <2> QED BY <1>0, <1>w, <2>1, CardKeeps DEF WireTyped
<1>2. /\ PlotterFits(plt') /\ plt'.plugged = plt.plugged /\ plt'.dropped = plt.dropped
      /\ plt'.in = <<>> /\ plt'.resp = <<>> /\ plt'.flow = Nothing /\ plt'.stopped = FALSE
      /\ plt'.shift = <<>>
  <2>1. plt' \in PltRec
    BY <1>0, <1>e, <1>w DEF PltRec, Reset7470
  <2>2. /\ plt'.plugged = plt.plugged /\ plt'.dropped = plt.dropped
        /\ plt'.in = <<>> /\ plt'.resp = <<>> /\ plt'.flow = Nothing /\ plt'.stopped = FALSE
        /\ plt'.shift = <<>>
    BY <1>0, <1>w DEF PltRec, Reset7470
  <2>3. 0 <= InBuf /\ 0 <= RespSize
    BY SerialAssumption
  <2> QED BY <1>e, <2>1, <2>2, <2>3 DEF PlotterFits
<1>3. /\ guest' \in GuestRec /\ guest'.drv = guest.drv /\ guest'.stopped = FALSE
      /\ guest'.credit = 0 /\ guest'.wait = Nothing
  BY <1>0, <1>w DEF GuestRec
<1>4. pen' \in PenRec
  BY <1>0, <1>w, PenKeeps DEF WireTyped
<1>5. WireTyped'
  BY <1>1, <1>2, <1>3, <1>4 DEF WireTyped
<1>6. Blank'
  BY <1>1, <1>2, <1>3 DEF Blank, WireKeeps, EnqInv, Honest
<1>7. (EnqInv /\ FlowInv)'
  BY <1>6, BlankFits, PTL
<1> QED BY <1>1, <1>2, <1>3, <1>5, <1>7 DEF WireKeeps

(* A tick of the pair, and every step that leaves the host alone.           *)
LEMMA WireStep ==
  ASSUME WireKeeps,
         wake_serial \/ fifo_pop \/ dart_ctrl_write \/ plotter_hp7470a_clear_page
           \/ (\E b \in guest.text \cup {"ENQ"} : DriverSends(b)) \/ UNCHANGED wireVars
  PROVE  WireKeeps' /\ Calm
<1>1. CASE UNCHANGED wireVars
  <2>1. card' = card /\ plt' = plt /\ pen' = pen /\ guest' = guest
    BY <1>1 DEF wireVars
  <2>2. WireTyped'
    BY <2>1 DEF WireKeeps, WireTyped
  <2>3. EnqInv'
    BY <2>1 DEF WireKeeps, EnqInv, AskedOnce, Awaited, InOrder, Honest, Kept, NoQuery, NonePending, UnderWay
  <2>4. FlowInv'
    BY <2>1 DEF WireKeeps, FlowInv, FlowKnown
  <2> QED BY <2>1, <2>2, <2>3, <2>4 DEF WireKeeps, Calm
<1> QED
  BY <1>1, StartFits, EndFits, SendFits, ArriveFits, DrainFits, PopFits, DartFits, ClearFits, DriverFits
  DEF wake_serial

(* On the wire bench no host is there to set the hook.                      *)
LEMMA WireBenchStep == WireInv /\ (WireNext \/ UNCHANGED wireVars) => WireInv'
<1> SUFFICES ASSUME WireInv, WireNext \/ UNCHANGED wireVars PROVE WireInv'
  OBVIOUS
<1>1. WireKeeps /\ card.tx = NoObj
  BY DEF WireInv, WireKeeps
<1>2. WireKeeps' /\ card'.tx = NoObj
  <2>1. CASE SerialReset
    BY <1>1, <2>1, PairResetFits
  <2>2. CASE wake_serial \/ fifo_pop \/ dart_ctrl_write \/ plotter_hp7470a_clear_page
               \/ (\E b \in guest.text \cup {"ENQ"} : DriverSends(b)) \/ UNCHANGED wireVars
    BY <1>1, <2>2, WireStep DEF Calm
  <2> QED BY <2>1, <2>2 DEF WireNext
<1> QED BY <1>2 DEF WireInv, WireKeeps

(* The top of a frame: the backend's bytes join the FIFO as far as they fit, *)
(* and the hook is set only for a cable without the plotter.                *)
LEMMA PourFits ==
  ASSUME NEW c, CardFits(c), NEW plot, sif \in SifRec
  PROVE  CardFits(sync_serial_backend(c, plot)) /\ sync_serial_backend(c, plot).tx = c.tx
<1> DEFINE n == sif.backend.waiting
           room == FifoSize - Len(c.fifo)
           k == IF n < room THEN n ELSE room
           u == [i \in 1..k |-> Sym("host", 0)]
           d == sync_serial_backend(c, plot)
<1>1. c \in CardRec /\ c.fifo \in Seq(Syms) /\ Len(c.fifo) \in Nat /\ Len(c.fifo) <= FifoSize
      /\ FifoSize \in Nat /\ (c.lost => c.err)
  BY SerialAssumption DEF CardFits, CardRec
<1>2. n \in Nat
  BY DEF SifRec
<1>3. room \in Nat /\ k \in Nat /\ k <= room /\ (n > room) \in BOOLEAN
  BY <1>1, <1>2
<1>4. d = c \/ d = [c EXCEPT !.fifo = @ \o u, !.err = @ \/ n > room, !.lost = @ \/ n > room]
  BY DEF sync_serial_backend
<1>5. Sym("host", 0) \in Syms
  BY DEF Sym, Syms
<1> HIDE DEF k
<1>6. u \in Seq(Syms) /\ Len(u) = k
  BY <1>3, <1>5
<1> HIDE DEF u
<1>7. c.fifo \o u \in Seq(Syms) /\ Len(c.fifo \o u) = Len(c.fifo) + k
  BY <1>1, <1>6, ConcatIs
<1>8. Len(c.fifo \o u) <= FifoSize
  BY <1>1, <1>3, <1>7
<1> DEFINE f == c.fifo \o u
           o == n > room
<1>9. CASE d = [c EXCEPT !.fifo = f, !.err = c.err \/ o, !.lost = c.lost \/ o]
  <2>1. f \in Seq(Syms) /\ Len(f) <= FifoSize /\ o \in BOOLEAN
    BY <1>3, <1>7, <1>8
  <2> HIDE DEF f, o, d
  <2> DEFINE er == c.err \/ o
             lo == c.lost \/ o
  <2>2. er \in BOOLEAN /\ lo \in BOOLEAN /\ (lo => er)
    BY <1>1
  <2>3. d = [c EXCEPT !.fifo = f, !.err = er, !.lost = lo]
    BY <1>9
  <2> HIDE DEF er, lo
  <2>4. d \in CardRec /\ d.fifo = f /\ d.err = er /\ d.lost = lo /\ d.tx = c.tx
    BY <1>1, <2>1, <2>2, <2>3 DEF CardRec
  <2> QED BY <2>1, <2>2, <2>4 DEF CardFits, d
<1> QED BY <1>4, <1>9

(* The whole of a frame's start keeps cable and backend apart.             *)
LEMMA SyncFits ==
  ASSUME PortsBenchInv, sync_peripheral_flags
  PROVE  PortsBenchInv'
<1> DEFINE plot == sif.enabled /\ sif.type = "plotter"
           c == [card EXCEPT !.plugged = sif.enabled, !.tx = serial_hook(plot)]
<1>0. /\ card' = sync_serial_backend(c, plot)
      /\ plt' = [plt EXCEPT !.plugged = plot] /\ pen' = pen /\ guest' = guest
      /\ sif' = (IF plot \/ ~sif.enabled THEN sif ELSE [sif EXCEPT !.backend.waiting = 0])
  BY DEF sync_peripheral_flags
<1>1. sif \in SifRec /\ WireTyped /\ plot \in BOOLEAN
  BY DEF PortsBenchInv
<1>2. serial_hook(plot) \in Nat /\ (plot => serial_hook(plot) = NoObj)
  BY <1>1 DEF serial_hook, NoObj, SifRec
<1> HIDE DEF plot
<1>3. CardFits(c) /\ c.tx = serial_hook(plot)
  <2>1. sif.enabled \in BOOLEAN
    BY <1>1 DEF SifRec
  <2> DEFINE e == sif.enabled
             x == serial_hook(plot)
  <2>2. e \in BOOLEAN /\ x \in Nat /\ CardFits(card)
    BY <1>1, <1>2, <2>1 DEF WireTyped
  <2> HIDE DEF e, x
  <2>3. ASSUME NEW d, d = [card EXCEPT !.plugged = e, !.tx = x]
        PROVE  CardFits(d) /\ d.tx = x
    BY ONLY <2>2, <2>3 DEF CardFits, CardRec
  <2> QED BY <2>3 DEF e, x
<1>4. CardFits(card') /\ card'.tx = serial_hook(plot)
  <2> HIDE DEF c
  <2> QED BY <1>0, <1>1, <1>3, PourFits
<1>5. PlotterFits(plt') /\ plt'.plugged = plot
  BY <1>0, <1>1 DEF WireTyped, PlotterFits, PltRec
<1>6. sif' \in SifRec
  <2>1. 0 \in Nat
    OBVIOUS
  <2> QED BY <1>0, <1>1, <2>1 DEF SifRec
<1>7. WireTyped'
  BY <1>0, <1>1, <1>4, <1>5 DEF WireTyped
<1> QED BY <1>0, <1>2, <1>4, <1>5, <1>6, <1>7 DEF PortsBenchInv, PlotterOrBackend

(* What the host does between two frames leaves the wires alone.            *)
LEMMA SetsFit ==
  ASSUME PortsBenchInv, set_config \/ apply_config \/ backend_receive \/ printer_tick \/ printer_file
  PROVE  PortsBenchInv'
<1>0. sif \in SifRec
  BY DEF PortsBenchInv
<1>1. card' = card /\ plt' = plt /\ pen' = pen /\ guest' = guest
  BY DEF set_config, apply_config, backend_receive, printer_tick, printer_file, wireVars
<1>2. sif' \in SifRec
  <2>1. CASE set_config
    <3>1. NoBackend \in [id : Nat, kind : Backends \cup {Nothing}, open : BOOLEAN, waiting : Nat]
      BY DEF NoBackend, NoObj
    <3>2. PICK e \in BOOLEAN, t \in Backends :
            sif' = [sif EXCEPT !.enabled = e, !.type = t, !.backend = NoBackend]
      BY <2>1 DEF set_config
    <3> QED BY <1>0, <3>1, <3>2 DEF SifRec
  <2>2. CASE apply_config
    <3>1. CASE sif' = sif
      BY <1>0, <3>1
    <3>2. CASE sif' # sif
      <4>1. PICK o \in backend_open(sif.type) :
              /\ sif.enabled
              /\ sif' = [sif EXCEPT !.made = @ + 1,
                                    !.backend = [id |-> sif.made + 1, kind |-> sif.type,
                                                 open |-> o, waiting |-> 0]]
        BY <2>2, <3>2 DEF apply_config
      <4>2. o \in BOOLEAN
        BY <4>1 DEF backend_open
      <4>3. sif.type \in Backends \cup {"null"} /\ sif.made + 1 \in Nat
        BY <1>0 DEF SifRec
      <4> QED BY <1>0, <4>1, <4>2, <4>3 DEF SifRec
    <3> QED BY <3>1, <3>2
  <2>3. CASE backend_receive
    <3>1. sif' = [sif EXCEPT !.backend.waiting = @ + 1]
      BY <2>3 DEF backend_receive
    <3> QED BY <1>0, <3>1 DEF SifRec
  <2>4. CASE printer_tick \/ printer_file
    BY <1>0, <2>4 DEF printer_tick, printer_file
  <2> QED BY <2>1, <2>2, <2>3, <2>4
<1>3. WireTyped'
  BY <1>1 DEF PortsBenchInv, WireTyped
<1> QED BY <1>1, <1>2, <1>3 DEF PortsBenchInv, PlotterOrBackend

(* On the ports bench the driver keeps to nothing, so the wires only have to *)
(* keep their types; the hook stays clear of the plotter.                   *)
LEMMA PortsBenchStep == PortsBenchInv /\ (HostPortsNext \/ UNCHANGED <<wireVars, hostVars>>) => PortsBenchInv'
<1> SUFFICES ASSUME PortsBenchInv, HostPortsNext \/ UNCHANGED <<wireVars, hostVars>> PROVE PortsBenchInv'
  OBVIOUS
<1>k. WireKeeps
  BY DEF WireKeeps, PortsBenchInv, EnqInv, FlowInv, Polite
<1>1. CASE set_config \/ apply_config \/ backend_receive \/ printer_tick \/ printer_file
  BY <1>1, SetsFit
<1>2. CASE sync_peripheral_flags
  BY <1>2, SyncFits
<1>3. CASE HostReset
  <2>1. SerialReset /\ sif' = sif
    BY <1>3 DEF HostReset
  <2>2. WireTyped' /\ card'.tx = NoObj /\ guest'.drv = guest.drv
    BY <1>k, <2>1, PairResetFits DEF WireKeeps
  <2> QED BY <2>1, <2>2 DEF PortsBenchInv, PlotterOrBackend
<1>4. CASE /\ \/ wake_serial \/ fifo_pop \/ dart_ctrl_write \/ (\E b \in guest.text : DriverSends(b))
              \/ UNCHANGED wireVars
           /\ UNCHANGED hostVars
  <2>1. WireKeeps' /\ Calm /\ sif' = sif
    <3>1. (\E b \in guest.text : DriverSends(b)) => \E b \in guest.text \cup {"ENQ"} : DriverSends(b)
      OBVIOUS
    <3> QED BY <1>k, <1>4, <3>1, WireStep DEF hostVars
  <2> QED BY <2>1 DEF PortsBenchInv, PlotterOrBackend, Calm, WireKeeps
<1> QED BY <1>1, <1>2, <1>3, <1>4 DEF HostPortsNext

(* Both benches begin with devices at rest.                                 *)
LEMMA SerialStarts ==
  ASSUME SerialInit, HostPortsInit
  PROVE  WireInv /\ (guest.drv = "deaf" => PortsBenchInv)
<1>e. <<>> \in Seq(Syms) /\ <<>> \in Seq(Bytes) /\ Len(<<>>) = 0
  OBVIOUS
<1>n. {FifoSize, InBuf, RespSize, MaxSegs} \subseteq Nat
  BY SerialAssumption
<1>1. CardFits(card) /\ card.tx = NoObj
  BY <1>e, <1>n DEF SerialInit, CardFits, CardRec, NoObj
<1>2. PlotterFits(plt)
  BY <1>e, <1>n DEF SerialInit, PlotterFits, PltRec
<1>3. pen \in PenRec
  BY <1>n DEF SerialInit, PenRec
<1>4. guest \in GuestRec /\ guest.credit = 0 /\ guest.stopped = FALSE /\ guest.wait = Nothing
  <2>1. guest \in [drv : Drivers, text : Streams, stopped : {FALSE}, credit : {0},
                   wait : {Nothing}, inlabel : {FALSE}]
    BY DEF SerialInit
  <2>2. ASSUME NEW g \in [drv : Drivers, text : Streams, stopped : {FALSE}, credit : {0},
                          wait : {Nothing}, inlabel : {FALSE}]
        PROVE  g \in GuestRec /\ g.credit = 0 /\ g.stopped = FALSE /\ g.wait = Nothing
    <3>1. g.drv \in Drivers /\ g.text \in Streams /\ g.credit = 0 /\ g.wait = Nothing
      BY ONLY <2>2
    <3>2. g.stopped = FALSE /\ g.inlabel = FALSE
      BY ONLY <2>2
    <3>3. /\ g.drv \in Drivers /\ g.text \in Streams /\ g.stopped \in BOOLEAN /\ g.credit \in Nat
          /\ g.wait \in {Nothing, "cr"} /\ g.inlabel \in BOOLEAN
      <4>1. g.credit \in Nat /\ g.wait \in {Nothing, "cr"}
        BY ONLY <3>1
      <4>2. g.stopped \in BOOLEAN /\ g.inlabel \in BOOLEAN
        BY ONLY <3>2
      <4> QED BY ONLY <3>1, <4>1, <4>2
    <3>4. g = [drv |-> g.drv, text |-> g.text, stopped |-> g.stopped, credit |-> g.credit,
               wait |-> g.wait, inlabel |-> g.inlabel]
      BY ONLY <2>2
    <3>5. g \in GuestRec
      BY ONLY <3>3, <3>4 DEF GuestRec
    <3> QED BY <3>1, <3>2, <3>5
  <2> QED BY <2>1, <2>2
<1>5. WireTyped
  BY <1>1, <1>2, <1>3, <1>4 DEF WireTyped
<1>6. Blank
  BY <1>4 DEF SerialInit, Blank
<1>7. sif \in SifRec
  BY DEF HostPortsInit, SifRec, NoBackend, NoObj
<1> QED BY <1>1, <1>5, <1>6, <1>7, BlankFits DEF WireInv, PortsBenchInv, PlotterOrBackend

(* What the invariants say of the properties the runs check.                *)
LEMMA SerialGives ==
  ASSUME WireKeeps, PlotterOrBackend
  PROVE  EnqIsHonest /\ FlowAgrees /\ PlotterOrBackend /\ LossIsFlagged /\ SerialTypeOK
<1>w. WireTyped /\ EnqInv /\ FlowInv
  BY DEF WireKeeps
<1>1. EnqIsHonest
  BY <1>w DEF EnqInv, Honest, EnqIsHonest
<1>2. FlowAgrees
  <2> SUFFICES ASSUME guest.drv \in Polite, ~FlowInFlight PROVE guest.stopped = plt.stopped
    BY DEF FlowAgrees
  <2>1. FlowKnown
    BY <1>w DEF FlowInv
  <2>2. plt.flow = Nothing /\ Without(plt.shift, Flows) /\ Without(card.fifo, Flows)
    BY DEF FlowInFlight, Without, Flows
  <2> QED BY <2>1, <2>2 DEF FlowKnown
<1>3. LossIsFlagged
  BY <1>w DEF LossIsFlagged, WireTyped, CardFits
<1>4. SerialTypeOK
  <2>1. /\ Len(card.fifo) <= FifoSize /\ Len(plt.in) <= InBuf /\ Len(plt.resp) <= RespSize
        /\ plt.flow \in {Nothing, "XOFF", "XON"}
    BY <1>w DEF WireTyped, CardFits, PlotterFits, PltRec
  <2>2. pen.pen \in 0..2 /\ pen.segs <= MaxSegs
    <3>1. pen.pen \in 0..2 /\ pen.segs \in 0..MaxSegs
      BY <1>w DEF WireTyped, PenRec
    <3> QED BY <3>1, SerialAssumption
  <2>3. guest.credit \in 0..EnqMax
    <3>1. guest.credit \in Nat /\ EnqMax \in Nat
      BY <1>w, WireFields, SerialAssumption
    <3>2. guest.drv = "enq" => guest.credit <= EnqMax
      BY <1>w DEF EnqInv, Honest
    <3>3. guest.drv # "enq" => guest.credit = 0
      BY <1>w DEF WireTyped
    <3> QED BY <3>1, <3>2, <3>3
  <2> QED BY <2>1, <2>2, <2>3 DEF SerialTypeOK
<1> QED BY <1>1, <1>2, <1>3, <1>4

(* Either bench moves the pair only by its own steps.                       *)
SerialInv == (bench = "wire" => WireInv) /\ (bench = "ports" => PortsBenchInv)
\* A step of the bench is a step of the wire or of the ports.
LEMMA SerialBench ==
  [Next]_benchVars =>
    /\ bench' = bench
    /\ bench = "wire" => WireNext \/ UNCHANGED wireVars
    /\ bench = "ports" => HostPortsNext \/ UNCHANGED <<wireVars, hostVars>>
BY DEF Next, benchVars

(* The serial pair and its ports stay right for every buffer and FIFO size, *)
(* text and driver: ENQ's answers are honest (on_receive_byte), both ends    *)
(* agree on XON/XOFF with none on the way (plt_tx_start), the plotter and a  *)
(* host backend never both get a byte (serial_hook), and a lost byte is      *)
(* flagged (fifo_push, sync_serial_backend).                                *)
THEOREM SerialStaysRight == Spec => []SerialRight
<1>1. Init => SerialInv
  BY SerialStarts DEF Init, SerialInv
<1>2. SerialInv /\ [Next]_benchVars => SerialInv'
  BY SerialBench, WireBenchStep, PortsBenchStep DEF SerialInv
<1>3. SerialInv => SerialRight
  <2> SUFFICES ASSUME SerialInv, bench \in {"wire", "ports"}
               PROVE  EnqIsHonest /\ FlowAgrees /\ PlotterOrBackend /\ LossIsFlagged /\ SerialTypeOK
    BY DEF SerialRight
  <2>1. CASE bench = "wire"
    BY <2>1, SerialGives DEF SerialInv, WireInv, WireKeeps, PlotterOrBackend
  <2>2. CASE bench = "ports"
    <3>1. WireKeeps /\ PlotterOrBackend
      BY <2>2 DEF SerialInv, PortsBenchInv, WireKeeps, EnqInv, FlowInv, Polite
    <3> QED BY <3>1, SerialGives
  <2> QED BY <2>1, <2>2
<1> QED BY <1>1, <1>2, <1>3, PTL DEF Spec

=============================================================================
