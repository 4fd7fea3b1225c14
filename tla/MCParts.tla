------------------------------ MODULE MCParts ------------------------------
(***************************************************************************)
(* The parts that answer at once, on one bench: sound, boards, ports, media,*)
(* recorders and files, the user interface, the configuration and the      *)
(* tables of the debugger.  Each behaviour has one of them under power;    *)
(* the others keep still, so that the state spaces add up.                 *)
(***************************************************************************)
EXTENDS Sound, Expansions, Pointers, JoyPorts, Media, Recorders,
        DiscFiles, Slots, UiShell, UiOptions, UiMenus, Config, DevTools

VARIABLE bench

parkedVars ==
  <<soundVars, expVars, pointVars, joyVars, mediaVars, recVars, telVars,
    discVars, slotVars, shellVars, opt, menuVars, configVars, tableVars, searchVars, devVars>>
benchVars == <<parkedVars, bench>>

\* the registers the sound bench writes and the period or shape each byte stands for
MCPre == [tone |-> 1, env |-> 2]
MCRegOf == 0 :> "tone" @@ 11 :> "env" @@ 13 :> "shape" @@ 255 :> "port"
MCPeriodOf == 0 :> 0 @@ 11 :> 2 @@ 13 :> 0 @@ 255 :> 2

\* one IDE drive without an image, one of two sectors
MCSectors == [d \in {0, 1} |-> IF d = 0 THEN 0 ELSE 2]
MCPattern == <<1, 0, 1>>

\* a telnet client that types Enter, the start of an escape sequence, a letter
MCTyped == {<<"cr", "lf">>, <<"esc", "[">>, <<"A">>}

\* files on the command line: none, or three of every kind
File(e) == [ext |-> e, zip |-> FALSE, inner |-> ""]
Zipped(e) == [ext |-> "zip", zip |-> TRUE, inner |-> e]
MCArgs ==
  UNION {[1..n -> {File("dsk"), File("scp"), File("sna"), Zipped("dsk"), Zipped("cdt"), Zipped("-"), File("cpr")}] :
           n \in {0, 3}}

\* lines of a hand-written koncepcja.cfg: two sections, a repeated and an emptied key
MCFileLines ==
  {Header("s"), Header("t"), Pair("k", "b", FALSE), Pair("k", "b", TRUE), Pair("k", "", TRUE),
   Pair("l", "b", FALSE), Pair("u", "b", FALSE), NoteLine, BlankLine}

\* two cheats that share a byte
MCPokes == << << <<0, 5>>, <<1, 6>> >>, << <<2, 7>>, <<1, 8>> >> >>

\* byte patterns with one-byte and any-length wildcards (-1, -2); short globs and texts
MCPatterns == {<<5>>, <<-1, 5>>, <<5, -2, 7>>, <<-2, 5>>, <<5, -2>>}
MCHexTexts == {<<>>, <<5>>, <<5, 5>>, <<5, 7>>}
MCTracks == {-1, 1}
MCTextGlobs == UNION {[1..n -> {"a", "b", "?", "*"}] : n \in 1..3}
MCTexts_ == UNION {[1..n -> {"a", "b"}] : n \in 1..3}

Benches ==
  {"periods", "envelope", "ide", "box", "mouse", "gun", "pad", "controller", "stick", "media",
   "recorders", "telnet out", "telnet in", "disc files", "snapshot", "launch files",
   "shell", "dialog", "tray", "toast", "layout", "palette", "options",
   "menu", "vkb", "terminal", "look", "text", "session", "profile", "echo",
   "symbols", "areas", "pokes", "trace", "edit", "paint", "glob",
   "hex find", "hex cells", "silicon", "disc tools", "listing"}

\* A part that is not on the bench starts in one state only.
Init ==
  /\ bench \in Benches
  /\ SoundInit /\ ExpInit /\ PointInit /\ JoyInit /\ MediaInit /\ RecInit /\ TelInit
  /\ DiscInit /\ (bench # "disc files" => onfile = CHOOSE d \in BootDiscs : TRUE)
  /\ SlotsInit /\ (bench # "launch files" => argv.files = <<>>)
  /\ ShellInit /\ (bench # "shell" => ~ui.auto_pause) /\ ui.m4 = (bench = "dialog")
  /\ OptionsInit /\ (bench # "options" => opt.cpc["rate"] = 0)
  /\ MenusInit /\ (bench # "menu" => act.pinned /\ act.zip /\ act.mf2)
  /\ ConfigInit
  /\ CASE bench = "text" -> ini \in HandWritten
       [] bench = "session" -> ini \in SessionFiles
       [] OTHER -> ini = <<>>
  /\ SymInit /\ PokeInit /\ TraceInit
  /\ AreaInit /\ (bench # "areas" => \A i \in DOMAIN sizes : sizes[i] = 1)
  /\ SearchInit /\ (bench \notin {"edit", "paint", "hex find", "hex cells"} => \A i \in DOMAIN hmem : hmem[i] = 5)
  /\ HexInit /\ SiliconInit /\ DiscToolsInit /\ DexInit

MouseNext == MouseMotion \/ ipc_input_mouse \/ sf2_fifo_pop
GunNext == ipc_input_gun \/ amx_tick
PointCommon == ipc_drain_input \/ FrameInput \/ PointReset

\* A bench stops at the first failed write-back and the first packet lost: what is owed
\* after them is not checked.
BoardsNext ==
  /\ CASE bench = "periods" -> SoundNext /\ eclk' = Never
       [] bench = "envelope" -> SoundNext /\ \A g \in Gens : gen'[g].per = gen[g].per
       [] OTHER -> UNCHANGED soundVars
  /\ CASE bench = "ide" -> ~ide.logged /\ (ExpReset \/ IdeNext)
       [] bench = "box" -> ExpReset \/ BoxNext
       [] OTHER -> UNCHANGED expVars
  /\ CASE bench = "mouse" -> ~seen.lost /\ (PointCommon \/ MouseNext)
       [] bench = "gun" -> PointCommon \/ GunNext
       [] OTHER -> UNCHANGED pointVars
  /\ CASE bench = "pad" -> PadNext
       [] bench = "controller" -> ControllerNext
       [] bench = "stick" -> StickNext
       [] OTHER -> UNCHANGED joyVars

FilesNext ==
  /\ IF bench = "media" THEN MediaNext ELSE UNCHANGED mediaVars
  /\ IF bench = "recorders" THEN RecNext ELSE UNCHANGED recVars
  /\ CASE bench = "telnet out" -> TelNext /\ UNCHANGED tin
       [] bench = "telnet in" -> TelNext /\ tel'.n = 0
       [] OTHER -> UNCHANGED telVars
  /\ IF bench = "disc files" THEN DiscNext ELSE UNCHANGED discVars
  /\ CASE bench = "snapshot" -> SnapNext
       [] bench = "launch files" -> FileNext
       [] OTHER -> UNCHANGED slotVars

UiNext ==
  /\ CASE bench = "shell" -> ShellNext
       [] bench = "dialog" -> DialogNext
       [] bench = "tray" -> TrayNext
       [] bench = "toast" -> ToastNext
       [] bench = "layout" -> WorkNext
       [] bench = "palette" -> PalNext
       [] OTHER -> UNCHANGED shellVars
  /\ IF bench = "options" THEN OptionsNext ELSE UNCHANGED opt
  /\ CASE bench = "menu" -> ActNext
       [] bench = "vkb" -> VkNext
       [] bench = "terminal" -> TermNext
       [] bench = "look" -> LookNext
       [] OTHER -> UNCHANGED menuVars

TablesNext ==
  /\ CASE bench = "text" -> Rewrite
       [] bench = "session" -> SessionNext_
       [] bench = "profile" -> ProfileNext
       [] bench = "echo" -> EchoNext
       [] OTHER -> UNCHANGED configVars
  /\ IF bench = "symbols" THEN SymNext ELSE UNCHANGED symVars
  /\ CASE bench = "areas" -> AreaNext
       [] bench = "listing" -> DexNext
       [] OTHER -> UNCHANGED areaVars
  /\ IF bench = "pokes" THEN PokeNext ELSE UNCHANGED pokeVars
  /\ IF bench = "trace" THEN TraceNext ELSE UNCHANGED traceVars
  /\ CASE bench = "edit" -> EditNext
       [] bench = "paint" -> PaintNext
       [] bench = "glob" -> hans = NoAnswer /\ GlobNext
       [] bench = "hex find" -> FindNext
       [] bench = "hex cells" -> CellNext
       [] OTHER -> UNCHANGED searchVars
  /\ IF bench = "silicon" THEN silicon_window \/ silicon_written ELSE UNCHANGED sdisc
  /\ IF bench = "disc tools" THEN DiscToolsNext ELSE UNCHANGED <<dt, drives>>
  /\ bench \notin {"hex find", "hex cells"} => UNCHANGED hex
  /\ bench # "listing" => UNCHANGED dex

Next == UNCHANGED bench /\ BoardsNext /\ FilesNext /\ UiNext /\ TablesNext

Spec == Init /\ [][Next]_benchVars

\* What tells two states apart: the parked parts are where they began.
BenchView ==
  <<bench,
    CASE bench \in {"periods", "envelope"} -> soundVars
      [] bench \in {"ide", "box"} -> expVars
      [] bench \in {"mouse", "gun"} -> pointVars
      [] bench \in {"pad", "controller", "stick"} -> joyVars
      [] bench = "media" -> mediaVars
      [] bench = "recorders" -> recVars
      [] bench \in {"telnet out", "telnet in"} -> telVars
      [] bench = "disc files" -> discVars
      [] bench \in {"snapshot", "launch files"} -> slotVars
      [] bench \in {"shell", "dialog", "tray", "toast", "layout", "palette"} -> shellVars
      [] bench = "options" -> <<opt>>
      [] bench \in {"menu", "vkb", "terminal", "look"} -> menuVars
      [] bench \in {"text", "session", "profile", "echo"} -> configVars
      [] bench \in {"symbols", "areas", "pokes", "trace"} -> tableVars
      [] bench \in {"hex find", "hex cells"} -> <<hmem, hex>>
      [] bench = "silicon" -> <<sdisc>>
      [] bench = "disc tools" -> <<dt, drives>>
      [] bench = "listing" -> <<areas, dex>>
      [] OTHER -> searchVars>>

-----------------------------------------------------------------------------
(* The boards agree with the guest and the host: the sound chip draws the   *)
(* envelope of its shape, also when the fast tier skips ahead, an IDE       *)
(* transfer's address follows its count, written sectors reach the file,    *)
(* the mouse button the guest sees is the host's, and every joystick line   *)
(* down is accounted for (env_clock, psg_batch_skip, ide_do_write_commit,   *)
(* flush_sf2_ide, symbiface_mouse_update, pad_retarget, controller_closed). *)
BoardsRight ==
  /\ bench \in {"periods", "envelope"} => EnvelopeShape /\ SkipIsSteps
  /\ LbaTracksCount /\ WritesReachFile /\ ButtonsAgree /\ PortsRight

(* What leaves the machine is what was put in: recordings are whole, telnet *)
(* output keeps its order, a snapshot restores what it saved, and the files *)
(* of the command line are each in one slot (wav_stop, on_txt_output,       *)
(* snapshot_save, snapshot_load, fillSlots).                                *)
FilesRight == MediaTypeOK /\ RecordingIsWhole /\ TelnetInOrder /\ SlotsRight

(* The user interface keeps its word: nothing altered is thrown away        *)
(* unasked, the tray, the recent files, layouts and toasts are consistent,  *)
(* the options in force are the ones applied, a pinned tier stays (cleanExit,*)
(* RequestReset, imgui_toast, needs_restart, press_commit, DoTier).         *)
UiRight == ShellRight /\ OptionsRight /\ MenusRight

(* The host's records are right: the configuration, a disc image and the    *)
(* files on a CP/M disc read back what was written, symbols, listings,      *)
(* cheats and traces agree, a search finds exactly what matches, the        *)
(* developer tools show what is there and a late dialog acts where it was   *)
(* opened (saveToFile, dsk_load, find_free_blocks, mark, apply, record,     *)
(* match_recursive, disc_dialog, export_marked).                            *)
RecordsRight ==
  /\ bench \in {"text", "session", "profile", "echo"} => ConfigRight
  /\ FilesIntact /\ ImageReadsBack
  /\ bench \in {"symbols", "areas", "pokes", "trace"} => HostTablesRight
  /\ HostSearchRight
  /\ bench \in {"hex find", "hex cells", "silicon", "disc tools", "listing"} => DevToolsRight

=============================================================================
