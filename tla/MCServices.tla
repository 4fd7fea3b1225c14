----------------------------- MODULE MCServices -----------------------------
(***************************************************************************)
(* The parts that serve a client, on one bench: the serial pair and its    *)
(* plotter, the M4 board and its web server, the keyboard and the          *)
(* autotype queue, the IPC server.  Each behaviour has one of them under   *)
(* power; the others keep still, so that the state spaces add up.          *)
(***************************************************************************)
EXTENDS HostPorts, M4Http, Keyboard, IpcServer

VARIABLE bench

benchVars == <<wireVars, hostVars, webVars, keyVars, ipcVars, bench>>

\* what the driver on the CPC may send, in pieces the plotter tells apart
MCStreams == {{}, {"OS", "PU"}, {"SP1", "PD"}, {"LB", "ETX"}}

\* M4 programs, each a few commands that meet in the same state
At4(p) == [abs |-> FALSE, rel |-> p]
Op4(o) == [op |-> o]
Open4(r, w, c, f) ==
  [op |-> "open", mode |-> [read |-> r, write |-> w, create |-> c], a |-> At4(<<f>>)]
FileProgram == {Open4(TRUE, FALSE, FALSE, "f"), Open4(FALSE, TRUE, TRUE, "g"),
                Open4(FALSE, FALSE, FALSE, "f"), [op |-> "close", h |-> 1]}
DirProgram == {[op |-> "cd", a |-> At4(<<"..">>)], [op |-> "cd", a |-> At4(<<"d.dsk">>)],
               [op |-> "cd", a |-> [abs |-> TRUE, rel |-> <<>>]], Op4("readdir"), Op4("dirsetargs")}
BoxProgram == {[op |-> "cd", a |-> At4(<<"d.dsk">>)], Open4(TRUE, FALSE, FALSE, "in"),
               [op |-> "write", h |-> 2], Op4("readsector")}
CardProgram == {[op |-> "erasefile", a |-> At4(<<"f">>)],
                [op |-> "rename", a |-> At4(<<"f">>), b |-> At4(<<"g">>)],
                [op |-> "copyfile", a |-> At4(<<"g">>), b |-> At4(<<"f">>)],
                [op |-> "httpget", a |-> At4(<<"g">>)]}
ReadProgram == {[op |-> "makedir", a |-> At4(<<"sub">>)], [op |-> "handle", h |-> 1],
                [op |-> "fsize", a |-> At4(<<"f">>)], Op4("query"), Op4("raw")}
MemProgram == {Op4("httpgetmem"), Op4("copybuf"), Op4("status"), [op |-> "wifipow", on |-> FALSE]}
NetProgram == {Op4("netsocket"), [op |-> "netclose", s |-> 1], [op |-> "netclose", s |-> 2],
               [op |-> "netbind", s |-> 1, port |-> 80], [op |-> "netbind", s |-> 2, port |-> 80]}
ServerProgram == {Op4("netsocket"), [op |-> "netclose", s |-> 1],
                  [op |-> "netbind", s |-> 1, port |-> 80], [op |-> "netlisten", s |-> 1],
                  [op |-> "netaccept", s |-> 1]}
ClientProgram == {Op4("netsocket"), [op |-> "netconnect", s |-> 1], [op |-> "netdata", s |-> 1]}
BoardProgram == {Op4("m4off"), Op4("board"), Op4("unknown")}
WebProgram == {}   \* only the web server's clients
MCPrograms == {FileProgram, DirProgram, BoxProgram, CardProgram, ReadProgram, MemProgram,
               NetProgram, ServerProgram, ClientProgram, BoardProgram, WebProgram}
MCServed == {WebProgram}
MCManaged == {BoardProgram, ClientProgram}
MCSdFiles == {<<"f">>, <<"d.dsk">>}
MCSdDirs == {<<"sub">>}
MCWebPaths == {<<"g">>}

\* texts to type: a letter twice, a shifted one, keys held over a pause and a command
Typed(t, k, shift) == [t |-> t, sc |-> <<k, shift>>]
MCTexts ==
  {<<Typed("char", "a", FALSE), Typed("char", "a", FALSE)>>,
   <<Typed("char", "a", TRUE), Typed("char", "a", FALSE)>>,
   <<Typed("press", "SHIFT", FALSE), [t |-> "pause", sc |-> NoKey],
     Typed("release", "SHIFT", FALSE), Typed("char", "a", FALSE), [t |-> "command", sc |-> NoKey]>>}

\* the commands an IPC client sends on each of its benches
ClientCommands ==
  [ctl |-> {"pause", "run", "reset", "load_sna", "wait", "query"},
   shots |-> {"repaint", "screenshot"},
   events |-> {"event", "event_off"},
   roms |-> {"rom_load", "rom_unload"}]
MCIpcCommands == UNION {ClientCommands[b] : b \in DOMAIN ClientCommands}
Sends(b) ==
  /\ ipc'.cmd \in {"none"} \cup ClientCommands[b]
  /\ \A i \in DOMAIN conn'.lines : conn'.lines[i] \in ClientCommands[b] \cup {"disconnect"}

Benches == {"wire", "ports", "m4", "host keys", "direct keys", "typing", "session"}
             \cup DOMAIN ClientCommands

Init ==
  /\ bench \in Benches
  /\ SerialInit /\ HostPortsInit
  /\ (guest.text # {} /\ guest.drv # "deaf") = (bench = "wire")
  /\ bench # "wire" => guest.text = {} /\ guest.drv = "deaf"
  /\ M4HttpInit /\ (bench # "m4" => m4prog = WebProgram)
  /\ KeyInit /\ (bench # "host keys" => kman.mode = "Direct")
  /\ IpcInit

Next ==
  /\ UNCHANGED bench
  /\ CASE bench = "wire" -> WireNext /\ UNCHANGED hostVars
       [] bench = "ports" -> HostPortsNext
       [] OTHER -> UNCHANGED <<wireVars, hostVars>>
  /\ IF bench = "m4" THEN M4Next ELSE UNCHANGED webVars
  /\ CASE bench = "host keys" -> HostKeyNext
       [] bench = "direct keys" -> DirectKeyNext
       [] bench = "typing" -> TypeNext
       [] bench = "session" -> SessionNext
       [] OTHER -> UNCHANGED keyVars
  /\ IF bench \in DOMAIN ClientCommands THEN IpcNext /\ Sends(bench) ELSE UNCHANGED ipcVars

Reads == bench \in {"host keys", "typing"}
Client == bench \in DOMAIN ClientCommands

(* A tick advances every part of the serial pair and a polite driver reads  *)
(* what arrives; the Z80 thread services the M4's mailbox in the cycle of   *)
(* the kick, and the web server's thread and a caller that waits for it run;*)
(* frames keep coming and the guest reads the whole keyboard in some of     *)
(* them; the IPC thread serves its client, frame after frame goes by and    *)
(* the main loop looks at repaints.                                         *)
Spec ==
  /\ Init /\ [][Next]_benchVars
  /\ WF_wireVars(bench = "wire" /\ Awake /\ tx_start)
  /\ WF_wireVars(bench = "wire" /\ Awake /\ tx_end)
  /\ WF_wireVars(bench = "wire" /\ Awake /\ plt_tx_start)
  /\ WF_wireVars(bench = "wire" /\ Awake /\ rx_end)
  /\ WF_wireVars(bench = "wire" /\ Awake /\ service_input)
  /\ WF_wireVars(bench = "wire" /\ guest.drv \in Polite /\ fifo_pop)
  /\ WF_webVars(bench = "m4" /\ Service)
  /\ WF_webVars(bench = "m4" /\ Server)
  /\ \A c \in Callers :
       WF_webVars(bench = "m4" /\ ~h4dead /\ (start_thread(c) \/ stop_join(c)) /\ UNCHANGED m4Vars)
  /\ SF_keyVars(Reads /\ publish_keyboard_snapshot)
  /\ SF_keyVars(Reads /\ FrameComplete(AllRows))
  /\ WF_ipcVars(Client /\ Serve /\ Sends(bench))
  /\ WF_ipcVars(Client /\ Frame /\ Sends(bench))
  /\ WF_ipcVars(Client /\ serve_repaint /\ Sends(bench))

-----------------------------------------------------------------------------
(* What holds at every moment on the serial side: ENQ's answers are honest, *)
(* both ends agree on XON/XOFF, the plotter and a host backend never both   *)
(* get a byte, and a lost byte is flagged (on_receive_byte, plt_tx_start,   *)
(* serial_hook).                                                            *)
SerialRight ==
  bench \in {"wire", "ports"} =>
    EnqIsHonest /\ FlowAgrees /\ PlotterOrBackend /\ LossIsFlagged /\ SerialTypeOK

(* The M4 answers the command kicked last, and shows a port mapping of its  *)
(* own as active only while a socket sits on the port (m4_tick,             *)
(* cmd_netclose).                                                           *)
CardRight == bench = "m4" => AnswerIsForLastKick /\ AutoMappingIsBound /\ M4TypeOK

(* A buffered tap is seen, text is typed in order, a replay shows the rows  *)
(* recorded (notify_scanned, tick, played_rows).                            *)
KeysRight == TapIsSeen /\ TypedInOrder /\ ReplayIsFaithful

(* A timer event is never late, and between commands the ROM board is what  *)
(* the table says (update_event_flags, cmd_rom_unload).                     *)
ClientRight == EventsOnTime /\ RomBoardIsTable

(* What a client is owed it gets: the plotter's XON or answer, the M4's     *)
(* answer, a key's release, the rest of a text, the next client's turn; and *)
(* a caller that stops the web server gets its thread back                  *)
(* (plotter_hp7470a_quiet, sync_m4_command, Due, tick, client_gone, run).   *)
Owed ==
  CASE bench = "wire" -> DriverOwed
    [] bench = "m4" -> IF m4prog \in Served THEN JoinOwed ELSE AnswerOwed
    [] bench = "host keys" -> ReleaseOwed
    [] bench = "typing" -> TextOwed
    [] bench \in DOMAIN ClientCommands -> TurnOwed
    [] OTHER -> FALSE

ServicesGoOn == Owed ~> ~Owed

=============================================================================
