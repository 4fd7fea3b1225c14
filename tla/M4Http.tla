------------------------------- MODULE M4Http -------------------------------
(* The web server of the M4 board (src/src/m4board_http.cpp) and the IPC
   commands that reach the board (`m4 ...` of src/src/koncepcja_ipc_server.cpp),
   beside the guest that drives the board. The server runs in a thread of its
   own and serves one client at a time; it changes the SD card and the current
   directory itself, and leaves reset, pause and NMI to the main thread, which
   drains them while the server runs. The window of the emulator and the IPC
   thread both start and stop the server.                                      *)
EXTENDS M4Board

CONSTANTS Served,     \* programs during which the server may be started
          Managed,    \* programs during which the user changes settings
          WebPaths    \* paths web clients name

ASSUME WebAssumption == WebPaths \subseteq Paths

Callers == {"ui", "ipc"}

VARIABLES h4,     \* running, thread, requests for the main thread
          h4call, \* where each caller is in start or stop
          h4dead  \* std::terminate

httpVars == <<h4, h4call, h4dead>>
webVars == <<m4Vars, httpVars>>

HttpInit ==
  /\ h4 = [running |-> FALSE, thread |-> "none", pend |-> {}, status |-> 0]
  /\ h4call = [c \in Callers |-> "no"]
  /\ h4dead = FALSE

M4HttpInit == M4Init /\ HttpInit

------------------------------------------------------------------------------
(* start() and stop().                                                         *)

start(c) ==
  /\ m4prog \in Served /\ h4call[c] = "no" /\ ~h4.running
  /\ h4call' = [h4call EXCEPT ![c] = "start"]
  /\ UNCHANGED <<h4, h4dead>>

(* Assigning a thread over one that was not joined ends the process.           *)
start_thread(c) ==
  /\ h4call[c] = "start"
  /\ h4call' = [h4call EXCEPT ![c] = "no"]
  /\ IF h4.thread = "none"
       THEN h4' = [h4 EXCEPT !.running = TRUE, !.thread = "binding"] /\ UNCHANGED h4dead
       ELSE h4dead' = TRUE /\ UNCHANGED h4

(* Joining a thread another caller is joining is undefined: it ends the process. *)
stop(c) ==
  /\ h4call[c] = "no"
  /\ h4.running \/ h4.thread # "none"
  /\ h4' = [h4 EXCEPT !.running = FALSE]
  /\ h4call' = [h4call EXCEPT ![c] = IF h4.thread = "none" THEN "no" ELSE "join"]
  /\ h4dead' = \E d \in Callers : h4call[d] = "join"

stop_join(c) ==
  /\ h4call[c] = "join"
  /\ h4.thread = "exited"
  /\ h4' = [h4 EXCEPT !.thread = "none"]
  /\ h4call' = [h4call EXCEPT ![c] = "no"]
  /\ UNCHANGED h4dead

------------------------------------------------------------------------------
(* run(): the server thread.                                                   *)

Thread(from, to) ==
  h4.thread = from /\ h4' = [h4 EXCEPT !.thread = to] /\ UNCHANGED <<h4call, h4dead>>

(* Ten ports from the configured one on; none free ends the thread.            *)
run_bind ==
  \/ Thread("binding", "idle")
  \/ /\ h4.thread = "binding"
     /\ h4' = [h4 EXCEPT !.thread = "exited", !.running = FALSE]
     /\ UNCHANGED <<h4call, h4dead>>

run_accept == h4.running /\ Thread("idle", "client")
run_exit == ~h4.running /\ Thread("idle", "exited")

(* A client that sends nothing is dropped after its receive timeout.           *)
run_drop == Thread("client", "idle")
parse_request == Thread("client", "idle")   \* a request line it cannot read
run_upgrade == Thread("client", "preview")

(* Mutant: the preview stream lasts as long as its client.                     *)
run_preview_end_by_client == FALSE /\ Thread("preview", "idle")

(* The preview stream ends with its client or with the server.                 *)
run_preview_end == ~h4.running /\ Thread("preview", "idle")

run_preview_close == Thread("preview", "idle")

Handled(status, req) ==
  /\ h4.thread = "client"
  /\ h4' = [h4 EXCEPT !.thread = "idle", !.pend = @ \union req, !.status = status]
  /\ UNCHANGED <<h4call, h4dead>>

(* Requests that only read the card, the board or the last preview.            *)
ReadOnly(found) == Handled(IF found THEN 200 ELSE 404, {}) /\ UNCHANGED m4Vars
build_dir_txt(p) == IsDir(p)
handle_page == ReadOnly(TRUE)
handle_files_api == \E p \in WebPaths \union {m4dir.dir} : ReadOnly(TRUE)
handle_download == \E p \in WebPaths : ReadOnly(IsFile(p))
handle_sd_file == \E p \in WebPaths : ReadOnly(IsFile(p) \/ build_dir_txt(p))
handle_status == ReadOnly(TRUE)
handle_preview == \E drawn \in BOOLEAN : ReadOnly(drawn)
handle_roms_api == ReadOnly(TRUE)

(* Answered by the main thread later; two pause toggles are one.               *)
handle_queue(what) == Handled(200, {what}) /\ UNCHANGED m4Vars

handle_upload(p) ==
  /\ Handled(200, {}) /\ p # Root /\ ~IsDir(p)
  /\ m4sd' = [files |-> m4sd.files \union {p},
              dirs |-> m4sd.dirs \union {SubSeq(p, 1, n) : n \in 0..(Len(p) - 1)}]
  /\ UNCHANGED <<m4prog, m4dev, m4dir, m4fh, m4on, netVars, m4rom>>

config_rm(p) ==
  /\ Handled(IF IsFile(p) THEN 200 ELSE 404, {})
  /\ m4sd' = [m4sd EXCEPT !.files = @ \ {p}]
  /\ UNCHANGED <<m4prog, m4dev, m4dir, m4fh, m4on, netVars, m4rom>>

config_mkdir(p) ==
  /\ Handled(200, {}) /\ ~IsFile(p)
  /\ m4sd' = [m4sd EXCEPT !.dirs = @ \union {SubSeq(p, 1, n) : n \in 0..Len(p)}]
  /\ UNCHANGED <<m4prog, m4dev, m4dir, m4fh, m4on, netVars, m4rom>>

(* The current directory becomes what the client named, a directory or not,
   inside a container or not.                                                  *)
config_cd(p) ==
  /\ Handled(302, {})
  /\ m4dir' = [m4dir EXCEPT !.dir = p]
  /\ UNCHANGED <<m4prog, m4dev, m4fh, m4sd, m4on, netVars, m4rom>>

handle_request ==
  \/ handle_page \/ handle_files_api \/ handle_download \/ handle_sd_file
  \/ handle_status \/ handle_preview \/ handle_roms_api
  \/ \E w \in {"reset", "pause", "nmi"} : handle_queue(w)
  \/ \E p \in WebPaths : handle_upload(p) \/ config_rm(p) \/ config_mkdir(p) \/ config_cd(p)

------------------------------------------------------------------------------
(* The main thread, each turn of its loop while the server runs.               *)

drain_pending ==
  /\ h4.running /\ h4.pend # {}
  /\ h4' = [h4 EXCEPT !.pend = {}]
  /\ IF "reset" \in h4.pend THEN m4board_reset ELSE UNCHANGED m4Vars
  /\ UNCHANGED <<h4call, h4dead>>

(* The user's port table: an active mapping keeps its flag.                    *)
set_port_mapping(port) ==
  LET old == {m \in m4map : m.cpc = port}
  IN /\ m4map' = {m \in m4map : m.cpc # port} \union
                 {[cpc |-> port, host |-> UserPort, user |-> TRUE,
                   active |-> \E m \in old : m.active]}
     /\ UNCHANGED <<m4prog, m4dev, fsVars, m4on, m4sock, m4rom, httpVars>>

remove_port_mapping(port) ==
  /\ \E m \in m4map : m.cpc = port
  /\ m4map' = {m \in m4map : m.cpc # port}
  /\ UNCHANGED <<m4prog, m4dev, fsVars, m4on, m4sock, m4rom, httpVars>>

------------------------------------------------------------------------------
(* IPC `m4 ...`, on the IPC thread while the guest runs.                       *)

ipc_m4_cd(a) ==
  /\ \/ a.abs /\ a.rel = Root
        /\ m4dir' = [m4dir EXCEPT !.dir = Root, !.box = FALSE, !.parent = Root]
     \/ a.rel = Escapes /\ in_container /\ m4dir' = container_exit
     \/ /\ ~in_container
        /\ \E p \in resolve_path(a) : IsDir(p) /\ m4dir' = [m4dir EXCEPT !.dir = p]
  /\ UNCHANGED <<m4prog, m4dev, m4fh, m4sd, m4on, netVars, m4rom, httpVars>>

(* m4board_cleanup and m4board_reset; the device on the bus is left alone.     *)
ipc_m4_reset ==
  /\ m4dir' = [dir |-> Root, box |-> FALSE, parent |-> Root, list |-> EmptyListing]
  /\ m4fh' = [h \in 0..3 |-> {}]
  /\ m4on' = [m4on EXCEPT !.wifi = TRUE]
  /\ m4_close_all_sockets
  /\ UNCHANGED <<m4prog, m4dev, m4sd, m4rom, httpVars>>

ipc_m4_wifi ==
  /\ m4on' = [m4on EXCEPT !.wifi = ~@]
  /\ UNCHANGED <<m4prog, m4dev, fsVars, netVars, m4rom, httpVars>>

------------------------------------------------------------------------------
Guest == (m4_data_write \/ latch_execute) /\ UNCHANGED httpVars
Service == ~h4dead /\ sync_m4_command /\ UNCHANGED httpVars

Server ==
  /\ ~h4dead
  /\ \/ (run_bind \/ run_exit \/ run_drop \/ parse_request \/ run_preview_end) /\ UNCHANGED m4Vars
     \/ handle_request

Call(c) == (start(c) \/ start_thread(c) \/ stop(c) \/ stop_join(c)) /\ UNCHANGED m4Vars

MappedPorts == {c.port : c \in {x \in m4prog : x.op = "netbind"}}

Host ==
  \/ m4board_reset /\ UNCHANGED httpVars
  \/ drain_pending
  \/ \E port \in MappedPorts : set_port_mapping(port) \/ remove_port_mapping(port)
  \/ \E c \in m4prog : c.op = "cd" /\ ipc_m4_cd(c.a)
  \/ ipc_m4_reset
  \/ m4prog \in Managed /\ (ToggleBoard \/ ConfigBoard) /\ UNCHANGED httpVars
  \/ m4prog \in Managed /\ ipc_m4_wifi

M4Next ==
  \/ ~h4dead /\ (Guest \/ Host)
  \/ Service
  \/ Server
  \/ ~h4dead /\ (run_accept \/ run_upgrade \/ run_preview_close) /\ UNCHANGED m4Vars
  \/ ~h4dead /\ \E c \in Callers : Call(c)

------------------------------------------------------------------------------
(* The board's and the server's variables have their types.                    *)
M4TypeOK ==
  /\ m4prog \in Programs
  /\ m4dev.acc \in {None, Short} \union Commands
  /\ m4dev.pending \in {None} \union Commands /\ m4dev.busy \in BOOLEAN
  /\ m4dir.dir \in Paths /\ m4dir.parent \in Paths /\ m4dir.box \in BOOLEAN
  /\ \A h \in 0..3 : m4fh[h] \subseteq Paths /\ Cardinality(m4fh[h]) <= 1
  /\ m4sd.files \subseteq Paths /\ m4sd.dirs \subseteq Paths
  /\ \A m \in m4map : m.user \in BOOLEAN /\ m.active \in BOOLEAN
  /\ m4rom \in {"loaded", "missing", "none"}
  /\ h4.thread \in {"none", "binding", "idle", "client", "preview", "exited"}

(* The response the guest reads when the board is not busy answers the command
   it kicked last, and a command that waits for the host keeps the window busy:
   kicks while one waits, resets, and a board switched off in between never
   show one command's answer as another's (m4.cpp latch_execute, m4_tick).     *)
AnswerIsForLastKick ==
  /\ m4dev.pending # None => m4dev.busy /\ m4dev.last = m4dev.pending
  /\ (~m4dev.busy /\ m4dev.response # NoAnswer) => m4dev.response.of = m4dev.last

(* A port mapping the board made itself is shown active only while a socket of
   the board sits on its host port, through binding, accepting, closing, reset
   and moves to the next free port (m4board.cpp cmd_netbind, cmd_netclose).    *)
AutoMappingIsBound ==
  \A m \in m4map : (m.active /\ ~m.user) => \E s \in Slots : m4sock[s].port = m.host

(* A kicked command is owed its answer, unless the board is switched off or
   the machine is reset first (subcycle_bridge.cpp sync_m4_command).           *)
AnswerOwed == m4dev.busy /\ m4on.enabled /\ ~h4dead

(* A caller of stop() is owed its thread's end, whatever client the server is
   serving (m4board_http.cpp run, stop).                                       *)
JoinOwed == ~h4dead /\ \E c \in Callers : h4call[c] = "join"
=============================================================================
