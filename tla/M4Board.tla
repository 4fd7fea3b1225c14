------------------------------ MODULE M4Board ------------------------------
(* The M4 expansion board: the device on the CPC bus (src/src/hw/m4.cpp), a
   mailbox that collects a command frame byte by byte and shows the guest its
   response window, and the board's service on the host (src/src/m4board.cpp):
   an SD card kept in a host directory, a DSK image entered as a directory, four
   file handles, sockets with their port mappings, and the WiFi switch.

   A path is the sequence of its names below the SD root; the bytes of files and
   packets are not modelled, only whether a command finds what it needs.        *)
EXTENDS Integers, Sequences, FiniteSets

CONSTANTS Programs,    \* sets of commands: what a guest program may send
          SdFiles,     \* files on the SD card at power on
          SdDirs,      \* directories on the SD card besides the root
          Slots,       \* socket slots, 1..MAX_SOCKETS
          BindTries,   \* ports C_NETBIND tries, 10 in the code
          MaxPort,     \* bound on the host ports a mapping drifts to
          TakenPorts,  \* host ports other programs hold
          UserPort     \* host port a user maps a CPC port to

Root == <<>>
None == [op |-> "none"]
Short == [op |-> "short"]   \* fewer than the three bytes of an opcode
NoAnswer == [of |-> None, st |-> "none", data |-> FALSE]
Commands == UNION Programs

VARIABLES m4prog,  \* the commands of the guest program that runs
          m4dev,   \* the mailbox of the device
          m4dir,   \* current directory, container, listing
          m4fh,    \* open_files
          m4sd,    \* files and directories of the SD card
          m4on,    \* board enabled, network_enabled
          m4sock,  \* sockets
          m4map,   \* port mappings
          m4rom    \* ROM image in the board's slot

fsVars == <<m4dir, m4fh, m4sd>>
netVars == <<m4sock, m4map>>
m4Vars == <<m4prog, m4dev, fsVars, m4on, netVars, m4rom>>

Closed == [st |-> "none", port |-> 0]
EmptyListing == [of |-> Root, left |-> 0, read |-> FALSE]

M4Init ==
  /\ m4prog \in Programs
  /\ m4dev = [acc |-> None, pending |-> None, busy |-> FALSE,
              response |-> NoAnswer, last |-> None]
  /\ m4dir = [dir |-> Root, box |-> FALSE, parent |-> Root, list |-> EmptyListing]
  /\ m4fh = [h \in 0..3 |-> {}]
  /\ m4sd = [files |-> SdFiles, dirs |-> SdDirs \union {Root}]
  /\ m4on = [enabled |-> TRUE, wifi |-> TRUE]
  /\ m4sock = [s \in Slots |-> Closed]
  /\ m4map = {}
  /\ m4rom = "loaded"

------------------------------------------------------------------------------
(* The device on the bus.                                                      *)

(* OUT &FE00: the third byte completes the opcode, later ones are arguments.   *)
m4_data_write ==
  /\ \/ m4dev.acc = None /\ m4dev' = [m4dev EXCEPT !.acc = Short]
     \/ m4dev.acc = Short /\ \E c \in m4prog : m4dev' = [m4dev EXCEPT !.acc = c]
  /\ UNCHANGED <<m4prog, fsVars, m4on, netVars, m4rom>>

(* OUT &FCxx: a whole frame becomes the pending command unless one waits.      *)
latch_execute ==
  /\ m4dev.acc # None
  /\ m4dev' = IF m4dev.pending # None \/ m4dev.acc = Short
                THEN [m4dev EXCEPT !.acc = None]
                ELSE [m4dev EXCEPT !.acc = None, !.pending = m4dev.acc,
                                   !.last = m4dev.acc, !.busy = TRUE]
  /\ UNCHANGED <<m4prog, fsVars, m4on, netVars, m4rom>>

(* Mutant: a reset that forgets the command waiting for the host.              *)
m4_dev_reset_keeps ==
  m4dev' = [m4dev EXCEPT !.acc = None, !.busy = FALSE, !.last = None,
                         !.response = NoAnswer]

m4_dev_reset ==
  m4dev' = [m4dev EXCEPT !.acc = None, !.busy = FALSE, !.last = None,
                         !.response = NoAnswer, !.pending = None]

------------------------------------------------------------------------------
(* Answering: m4board_execute has cleared the response before the command
   runs; sync_m4_command hands the new one to the device, which clears busy.   *)

(* Mutant: an error leaves the window busy.                                    *)
m4_complete_response_stuck(st, data) ==
  m4dev' = [m4dev EXCEPT !.pending = None, !.busy = (st = "error"),
                         !.response = [of |-> m4dev.pending, st |-> st, data |-> data]]

m4_complete_response(st, data) ==
  m4dev' = [m4dev EXCEPT !.pending = None, !.busy = FALSE,
                         !.response = [of |-> m4dev.pending, st |-> st, data |-> data]]

respond_ok == m4_complete_response("ok", FALSE)
respond_error == m4_complete_response("error", FALSE)
Respond(good) == IF good THEN respond_ok ELSE respond_error

in_container == m4dir.box

------------------------------------------------------------------------------
(* Paths and files.                                                            *)

Escapes == <<"..">>
Paths == Seq({"sub", "f", "g", "d.dsk", "in", "tmp"})
Args == [abs : BOOLEAN, rel : Paths \union {Escapes}]

(* What a command's bytes name: paths below the SD root, a CPC port.              *)
ASSUME M4Assumption ==
  /\ SdFiles \subseteq Paths /\ SdDirs \subseteq Paths
  /\ Slots \subseteq Nat /\ BindTries \in Nat /\ MaxPort \in Nat /\ UserPort \in Nat \ {0}
  /\ \A c \in Commands :
       /\ c.op \in {"cd", "open", "fsize", "erasefile", "makedir", "rename", "copyfile", "httpget"}
            => c.a \in Args
       /\ c.op \in {"rename", "copyfile"} => c.b \in Args
       /\ c.op = "netbind" => c.port \in Nat \ {0}
       /\ c.op \notin {"none", "short"}

DskName(p) == p # Root /\ p[Len(p)] = "d.dsk"

(* A host path below the SD root, or the empty set when the path leaves it.    *)
resolve_path(a) ==
  IF a.rel = Escapes
    THEN IF m4dir.dir = Root THEN {} ELSE {SubSeq(m4dir.dir, 1, Len(m4dir.dir) - 1)}
    ELSE {IF a.abs THEN a.rel ELSE m4dir.dir \o a.rel}

IsDir(p) == p \in m4sd.dirs
IsFile(p) == p \in m4sd.files
Creatable(p) == p # Root /\ SubSeq(p, 1, Len(p) - 1) \in m4sd.dirs /\ p \notin m4sd.dirs

container_exit == [m4dir EXCEPT !.dir = m4dir.parent, !.parent = Root, !.box = FALSE]

container_enter_dsk(p) ==
  [m4dir EXCEPT !.dir = m4dir.dir \o <<p[Len(p)]>>, !.parent = m4dir.dir, !.box = TRUE]

cmd_cd(a) ==
  /\ \/ /\ a.abs /\ a.rel = Root
        /\ m4dir' = [(IF in_container THEN container_exit ELSE m4dir) EXCEPT !.dir = Root]
        /\ respond_ok
     \/ /\ ~(a.abs /\ a.rel = Root) /\ in_container
        /\ m4dir' = IF a.rel = Escapes THEN container_exit ELSE m4dir
        /\ Respond(a.rel = Escapes)
     \/ /\ ~(a.abs /\ a.rel = Root) /\ ~in_container
        /\ \E p \in resolve_path(a) :
             \/ IsDir(p) /\ m4dir' = [m4dir EXCEPT !.dir = p] /\ respond_ok
             \/ IsFile(p) /\ DskName(p) /\ m4dir' = container_enter_dsk(p) /\ respond_ok
     \/ /\ ~in_container /\ ~(a.abs /\ a.rel = Root)
        /\ \A p \in resolve_path(a) : ~IsDir(p)
        /\ UNCHANGED m4dir /\ respond_error   \* no such directory, or a broken image
  /\ UNCHANGED <<m4fh, m4sd>>

(* The listing of a container or of the current directory; unreadable is empty. *)
dir_populate ==
  [of |-> m4dir.dir,
   left |-> IF in_container THEN 1
            ELSE Cardinality({p \in m4sd.files \union m4sd.dirs :
                                p # Root /\ SubSeq(p, 1, Len(p) - 1) = m4dir.dir}),
   read |-> FALSE]

cmd_dirsetargs ==
  /\ m4dir' = [m4dir EXCEPT !.list = dir_populate]
  /\ respond_ok
  /\ UNCHANGED <<m4fh, m4sd>>

(* An empty listing that was never read is fetched; past the end answers 2.    *)
cmd_readdir ==
  LET l == IF m4dir.list.left = 0 /\ ~m4dir.list.read THEN dir_populate ELSE m4dir.list
  IN /\ m4dir' = [m4dir EXCEPT !.list =
                    IF l.left = 0 THEN l ELSE [l EXCEPT !.left = @ - 1, !.read = TRUE]]
     /\ m4_complete_response(IF l.left = 0 THEN "end" ELSE "ok", FALSE)
     /\ UNCHANGED <<m4fh, m4sd>>

(* container_open_file: the file of the image is unpacked into a temporary.     *)
container_open_file(a) == IF a.rel = <<"in">> THEN {<<"tmp">>} ELSE {}

(* fopen of the path, or any file of the directory that matches the CPC name.   *)
try_open_cpc(a) == {p \in resolve_path(a) : IsFile(p)}

cmd_open(mode, a) ==
  LET \* The handle an open uses: 1 for reading, 2 for writing, else the first free.
      OpenHandle ==
        IF mode.write THEN {2}
        ELSE IF in_container \/ mode.read THEN {1}
        ELSE {h \in 0..3 : m4fh[h] = {} /\ \A g \in 0..(h - 1) : m4fh[g] # {}}
  IN
  /\ UNCHANGED m4dir
  /\ \/ in_container /\ mode.write /\ respond_error /\ UNCHANGED <<m4fh, m4sd>>
     \/ ~(in_container /\ mode.write) /\ OpenHandle = {}
        /\ respond_error /\ UNCHANGED <<m4fh, m4sd>>
     \/ \E h \in OpenHandle :
          /\ ~(in_container /\ mode.write)
          /\ LET create == mode.write /\ mode.create
                 found == IF in_container THEN container_open_file(a)
                          ELSE IF create THEN {p \in resolve_path(a) : Creatable(p)}
                          ELSE try_open_cpc(a)
             IN /\ m4fh' = [m4fh EXCEPT ![h] = found]  \* what it held is closed first
                /\ m4sd' = IF create THEN [m4sd EXCEPT !.files = @ \union found] ELSE m4sd
                /\ Respond(found # {})

cmd_close(h) ==
  /\ m4fh' = [m4fh EXCEPT ![h] = {}]
  /\ respond_ok
  /\ UNCHANGED <<m4dir, m4sd>>

HandleOp(h) == Respond(m4fh[h] # {}) /\ UNCHANGED fsVars
cmd_read(h) == HandleOp(h)
cmd_read2(h) == HandleOp(h)
cmd_seek(h) == HandleOp(h)
cmd_fstat(h) == HandleOp(h)
cmd_eof(h) == HandleOp(h)
cmd_ftell(h) == HandleOp(h)
cmd_write(h) == Respond(~in_container /\ m4fh[h] # {}) /\ UNCHANGED fsVars
cmd_write2(h) == cmd_write(h)
cmd_writesector == cmd_write(2)

(* Sectors come from the image, or from handle 1; a missing one reads as &E5.  *)
cmd_readsector ==
  /\ m4_complete_response(IF in_container \/ m4fh[1] # {} THEN "ok" ELSE "blank", FALSE)
  /\ UNCHANGED fsVars

cmd_fsize(a) ==
  /\ Respond(IF in_container THEN container_open_file(a) # {} ELSE try_open_cpc(a) # {})
  /\ UNCHANGED fsVars

(* remove() also takes an empty directory.                                     *)
cmd_erasefile(a) ==
  LET gone == IF in_container THEN {}
              ELSE {p \in resolve_path(a) : IsFile(p) \/ (IsDir(p) /\ p # Root /\
                       \A q \in m4sd.files \union m4sd.dirs :
                          q = Root \/ SubSeq(q, 1, Len(q) - 1) # p)}
  IN /\ m4sd' = [files |-> m4sd.files \ gone, dirs |-> m4sd.dirs \ gone]
     /\ Respond(gone # {})
     /\ UNCHANGED <<m4dir, m4fh>>

cmd_makedir(a) ==
  LET new == IF in_container THEN {}
             ELSE {p \in resolve_path(a) : ~IsFile(p)}
  IN /\ m4sd' = [m4sd EXCEPT !.dirs = @ \union new]
     /\ Respond(new # {})
     /\ UNCHANGED <<m4dir, m4fh>>

cmd_rename(old, to) ==
  LET from == IF in_container THEN {} ELSE {p \in resolve_path(old) : IsFile(p)}
      dest == {p \in resolve_path(to) : Creatable(p)}
      done == from # {} /\ dest # {}
  IN /\ m4sd' = IF done THEN [m4sd EXCEPT !.files = (@ \ from) \union dest] ELSE m4sd
     /\ Respond(done)
     /\ UNCHANGED <<m4dir, m4fh>>

(* Copies below the current directory; inside a container nothing is found.    *)
cmd_copyfile(a, to) ==
  LET from == {p \in resolve_path(a) : IsFile(p)}
      dest == {p \in resolve_path(to) : Creatable(p)}
      done == from # {} /\ dest # {}
  IN /\ m4sd' = IF done THEN [m4sd EXCEPT !.files = @ \union dest] ELSE m4sd
     /\ Respond(done)
     /\ UNCHANGED <<m4dir, m4fh>>

cmd_version == respond_ok /\ UNCHANGED fsVars
cmd_getpath == respond_ok /\ UNCHANGED fsVars
cmd_free == respond_ok /\ UNCHANGED fsVars

(* A download goes to a file of the card; a failed one removes what it began,
   and with it the file of that name that was there before.                    *)
cmd_httpget(a) ==
  LET dest == {p \in resolve_path(a) : Creatable(p)}
  IN /\ \/ m4on.wifi /\ dest # {} /\ respond_ok
           /\ m4sd' = [m4sd EXCEPT !.files = @ \union dest]
        \/ m4on.wifi /\ dest # {} /\ respond_error
           /\ m4sd' = [m4sd EXCEPT !.files = @ \ dest]
        \/ (~m4on.wifi \/ dest = {}) /\ respond_error /\ UNCHANGED m4sd
     /\ UNCHANGED <<m4dir, m4fh>>

(* Download into the response window; a full buffer is a success.              *)
cmd_httpgetmem ==
  /\ \/ m4on.wifi /\ m4_complete_response("ok", TRUE)
     \/ respond_error
  /\ UNCHANGED fsVars

(* Copies from the response, which m4board_execute has already cleared.        *)
cmd_copybuf == m4_complete_response("ok", FALSE) /\ UNCHANGED fsVars

(* No raw card and no formatting: a fixed refusal.                             *)
cmd_sdread == m4_complete_response("refused", FALSE) /\ UNCHANGED fsVars
cmd_sdwrite == m4_complete_response("refused", FALSE) /\ UNCHANGED fsVars
cmd_formattrack == respond_error /\ UNCHANGED fsVars

------------------------------------------------------------------------------
(* Sockets and port mappings.                                                  *)

resolve_host_port(port) ==
  IF \E m \in m4map : m.cpc = port THEN (CHOOSE m \in m4map : m.cpc = port).host ELSE port

Held == {m4sock[s].port : s \in Slots} \union TakenPorts

Usable(s) == m4on.wifi /\ s \in Slots /\ m4sock[s].st # "none"
SockAnswer(good) == m4_complete_response(IF good THEN "ok" ELSE "&FF", FALSE)

cmd_netsocket ==
  LET free == {s \in Slots : m4sock[s].st = "none"}
      s == CHOOSE x \in free : \A y \in free : x <= y
  IN /\ IF m4on.wifi /\ free # {}
          THEN m4sock' = [m4sock EXCEPT ![s] = [st |-> "open", port |-> 0]]
          ELSE UNCHANGED m4sock
     /\ IF m4on.wifi THEN SockAnswer(free # {}) ELSE respond_error
     /\ UNCHANGED m4map

(* Non-blocking: connected or in progress is a success, else &FF.              *)
cmd_netconnect(s) ==
  /\ \/ /\ Usable(s) /\ m4sock[s].st \in {"open", "bound"}
        /\ m4sock' = [m4sock EXCEPT ![s].st = "connected"] /\ SockAnswer(TRUE)
     \/ UNCHANGED m4sock /\ IF m4on.wifi THEN SockAnswer(FALSE) ELSE respond_error
  /\ UNCHANGED m4map

(* Mutant: closing a socket leaves its mapping marked active.                  *)
cmd_netclose_forgets(s) ==
  /\ m4sock' = [m4sock EXCEPT ![s] = Closed] /\ UNCHANGED m4map /\ respond_ok

cmd_netclose(s) ==
  LET bound == {m \in m4map : s \in Slots /\ m.active /\ m.host = m4sock[s].port}
  IN /\ m4sock' = [m4sock EXCEPT ![s] = Closed]
     /\ \/ bound = {} /\ UNCHANGED m4map
        \/ \E m \in bound :   \* the first in the table
             m4map' = (m4map \ {m}) \union {[m EXCEPT !.active = FALSE]}
     /\ respond_ok

cmd_netsend(s) ==
  /\ IF m4on.wifi THEN \E sent \in BOOLEAN : SockAnswer(Usable(s) /\ sent) ELSE respond_error
  /\ UNCHANGED netVars

(* Nothing received, a closed peer and an error all answer 0 bytes.             *)
cmd_netrecv(s) ==
  /\ IF m4on.wifi THEN SockAnswer(Usable(s)) ELSE respond_error
  /\ UNCHANGED netVars

cmd_nethostip ==
  /\ IF m4on.wifi THEN \E found \in BOOLEAN : SockAnswer(found) ELSE respond_error
  /\ UNCHANGED netVars

(* The first free host port from the mapped one on; the mapping follows it.    *)
cmd_netbind(s, port) ==
  LET host == resolve_host_port(port)
      free == {p \in host..(host + BindTries - 1) : p <= MaxPort /\ p \notin Held}
      p == CHOOSE x \in free : \A y \in free : x <= y
  IN IF Usable(s) /\ m4sock[s].st = "open" /\ free # {}
       THEN /\ m4sock' = [m4sock EXCEPT ![s] = [st |-> "bound", port |-> p]]
            /\ m4map' = {m \in m4map : m.cpc # port} \union
                        {[cpc |-> port, host |-> p, user |-> host # port, active |-> TRUE]}
            /\ SockAnswer(TRUE)
       ELSE /\ UNCHANGED netVars
            /\ IF m4on.wifi THEN SockAnswer(FALSE) ELSE respond_error

cmd_netlisten(s) ==
  /\ IF Usable(s) /\ m4sock[s].st \in {"open", "bound"}
       THEN m4sock' = [m4sock EXCEPT ![s].st = "listening"] /\ SockAnswer(TRUE)
       ELSE UNCHANGED m4sock /\ IF m4on.wifi THEN SockAnswer(FALSE) ELSE respond_error
  /\ UNCHANGED m4map

(* The accepted connection takes the listener's slot, on the same local port.  *)
cmd_netaccept(s) ==
  /\ \/ /\ Usable(s) /\ m4sock[s].st = "listening"
        /\ m4sock' = [m4sock EXCEPT ![s].st = "connected"] /\ SockAnswer(TRUE)
     \/ /\ UNCHANGED m4sock
        /\ IF ~m4on.wifi THEN respond_error
           ELSE m4_complete_response(IF Usable(s) THEN "waiting" ELSE "&FF", FALSE)
  /\ UNCHANGED m4map

m4_close_all_sockets ==
  /\ m4sock' = [s \in Slots |-> Closed]
  /\ m4map' = {[m EXCEPT !.active = FALSE] : m \in m4map}

------------------------------------------------------------------------------
(* Board commands.                                                             *)

cmd_netstat == respond_ok /\ UNCHANGED m4on       \* WiFi off, an address, or none
cmd_time == respond_ok /\ UNCHANGED m4on
cmd_getnetwork == respond_ok /\ UNCHANGED m4on
cmd_wifipow(on) == m4on' = [m4on EXCEPT !.wifi = on] /\ respond_ok
cmd_m4off == m4on' = [m4on EXCEPT !.enabled = FALSE] /\ respond_ok
cmd_nmi == respond_ok /\ UNCHANGED m4on           \* z80_mf2stop when one is fitted
cmd_config == respond_ok /\ UNCHANGED m4on
cmd_romcp == Respond(m4rom = "loaded") /\ UNCHANGED m4on
cmd_nothing == respond_ok /\ UNCHANGED m4on       \* upgrade, romlow, romsupdate, romwrite

BoardCommand(c) ==
  \/ c.op = "status" /\ (cmd_netstat \/ cmd_time \/ cmd_getnetwork)
  \/ c.op = "wifipow" /\ cmd_wifipow(c.on)
  \/ c.op = "m4off" /\ cmd_m4off
  \/ c.op = "board" /\ (cmd_nmi \/ cmd_config \/ cmd_romcp \/ cmd_nothing)
  \/ c.op = "unknown" /\ respond_error /\ UNCHANGED m4on

m4board_execute(c) ==
  LET FileCommand ==
        \/ c.op = "cd" /\ cmd_cd(c.a)
        \/ c.op = "readdir" /\ cmd_readdir
        \/ c.op = "dirsetargs" /\ cmd_dirsetargs
        \/ c.op = "open" /\ cmd_open(c.mode, c.a)
        \/ c.op = "close" /\ cmd_close(c.h)
        \/ c.op = "handle" /\ (cmd_read(c.h) \/ cmd_read2(c.h) \/ cmd_seek(c.h) \/ cmd_fstat(c.h)
                                \/ cmd_eof(c.h) \/ cmd_ftell(c.h))
        \/ c.op = "write" /\ (cmd_write(c.h) \/ cmd_write2(c.h) \/ cmd_writesector)
        \/ c.op = "readsector" /\ cmd_readsector
        \/ c.op = "fsize" /\ cmd_fsize(c.a)
        \/ c.op = "erasefile" /\ cmd_erasefile(c.a)
        \/ c.op = "makedir" /\ cmd_makedir(c.a)
        \/ c.op = "rename" /\ cmd_rename(c.a, c.b)
        \/ c.op = "copyfile" /\ cmd_copyfile(c.a, c.b)
        \/ c.op = "query" /\ (cmd_version \/ cmd_getpath \/ cmd_free)
        \/ c.op = "httpget" /\ cmd_httpget(c.a)
        \/ c.op = "httpgetmem" /\ cmd_httpgetmem
        \/ c.op = "copybuf" /\ cmd_copybuf
        \/ c.op = "raw" /\ (cmd_sdread \/ cmd_sdwrite \/ cmd_formattrack)
      NetCommand ==
        \/ c.op = "netsocket" /\ cmd_netsocket
        \/ c.op = "netconnect" /\ cmd_netconnect(c.s)
        \/ c.op = "netclose" /\ cmd_netclose(c.s)
        \/ c.op = "netdata" /\ (cmd_netsend(c.s) \/ cmd_netrecv(c.s) \/ cmd_nethostip)
        \/ c.op = "netbind" /\ cmd_netbind(c.s, c.port)
        \/ c.op = "netlisten" /\ cmd_netlisten(c.s)
        \/ c.op = "netaccept" /\ cmd_netaccept(c.s)
  IN
  /\ \/ FileCommand /\ UNCHANGED <<netVars, m4on>>
     \/ NetCommand /\ UNCHANGED <<fsVars, m4on>>
     \/ BoardCommand(c) /\ UNCHANGED <<fsVars, netVars>>
  /\ UNCHANGED <<m4prog, m4rom>>

(* The host's service, in the cycle of the kick and again once per frame. A
   disabled board leaves the command pending.                                  *)
sync_m4_command ==
  /\ m4on.enabled
  /\ m4dev.pending # None
  /\ m4board_execute(m4dev.pending)

(* emulator_reset: device and board together. open_files stay open, and a
   board switched off by C_M4OFF stays off.                                     *)
m4board_reset ==
  /\ m4_dev_reset
  /\ m4dir' = [dir |-> Root, box |-> FALSE, parent |-> Root, list |-> EmptyListing]
  /\ m4on' = [m4on EXCEPT !.wifi = TRUE]
  /\ m4_close_all_sockets
  /\ UNCHANGED <<m4prog, m4fh, m4sd, m4rom>>

(* emulator_init loads the board's ROM into its slot when the board is on, and
   emulator_shutdown takes it out again.                                       *)
m4board_load_rom(enabled) == m4rom' \in IF enabled THEN {"loaded", "missing"} ELSE {"none"}

(* The options dialog rebuilds the machine when the board was switched.        *)
ToggleBoard ==
  /\ m4on' = [enabled |-> ~m4on.enabled, wifi |-> TRUE]
  /\ m4board_load_rom(~m4on.enabled)
  /\ m4_dev_reset
  /\ m4dir' = [dir |-> Root, box |-> FALSE, parent |-> Root, list |-> EmptyListing]
  /\ m4_close_all_sockets
  /\ UNCHANGED <<m4prog, m4fh, m4sd>>

(* IPC `config set m4_board`: the flag alone.                                   *)
ConfigBoard ==
  /\ m4on' = [m4on EXCEPT !.enabled = ~@]
  /\ UNCHANGED <<m4prog, m4dev, fsVars, netVars, m4rom>>
=============================================================================
