----------------------------- MODULE DiscFiles -----------------------------
(* Host access to the files of a disc: src/src/disk_file_editor.cpp (a CP/M
   directory over the sectors of a t_drive), src/src/disk_sector_editor.cpp,
   src/src/disk_format.cpp and the `disk` commands of the IPC server, which call
   them without pausing the machine.

   The t_drive the editors work on is the host's own copy of the disc: the machine
   runs from the bytes it was given when the disc was inserted
   (src/src/subcycle_bridge.cpp).  Both copies and the image file are here.

   A block is what was last put into it, <<id, index>>: the index-th block of the
   id-th file written.  Sizes are in bytes of a small geometry.                     *)
EXTENDS Integers, Sequences, SequencesExt, FiniteSets, FiniteSetsExt

CONSTANTS FileNames,   \* CP/M names that parse_cpm_name accepts
          FileSizes,   \* bytes, the AMSDOS header included
          DirSlots,    \* CPM_DIR_ENTRIES
          NBlocks,     \* CPM_TOTAL_BLOCKS; 0 and 1 hold the directory
          Reach,       \* blocks whose sectors exist on a disc cut short
          PerExtent,   \* blocks per directory entry
          BlockBytes, RecordBytes,
          MaxPuts      \* bound: files written

VARIABLES disc,   \* the host's t_drive: directory, blocks, readable blocks, altered
          guest,  \* the machine's copy and its dirty flag
          onfile, \* the image file
          wrote,  \* history: name -> what is on the host's disc under that name
          puts, reply

discVars == <<disc, guest, onfile, wrote, puts, reply>>

FreeSlot == [user |-> "deleted", name |-> "", ext |-> 0, rc |-> 0, at |-> <<>>]
Filler == <<0, 0>>
BlankDir == [i \in 1..DirSlots |-> FreeSlot]
Blank == [dir |-> BlankDir, block |-> [b \in 0..(NBlocks - 1) |-> Filler], reach |-> NBlocks]

\* what a guest may have left: nothing, a file of user 1, or a label (user above 15)
GuestMade(user) ==
  [Blank EXCEPT !.dir[1] = [user |-> user, name |-> "guest", ext |-> 0,
                            rc |-> BlockBytes \div RecordBytes, at |-> <<3>>],
                !.block[3] = <<-1, 1>>]
BootDiscs == {Blank, [Blank EXCEPT !.reach = Reach], GuestMade("user1"), GuestMade("label")}

Live(e) == e.user \notin {"deleted", "label"}
Named(d, n) == {i \in 1..DirSlots : Live(d.dir[i]) /\ d.dir[i].name = n}
same_file(a, b) == a.user = b.user /\ a.name = b.name

(* --- disk_file_editor.cpp -------------------------------------------------------- *)
find_sector_data(d, b) == b < d.reach

\* extents of the file of entry e in the order of their numbers
Extents(d, e) ==
  SetToSortSeq({i \in 1..DirSlots : d.dir[i].user # "deleted" /\ same_file(d.dir[i], e)},
               LAMBDA i, j : d.dir[i].ext < d.dir[j].ext)

\* every extent but the last counts in full, the last by its record count
compute_file_size(d, e) ==
  LET x == Extents(d, e)
  IN  (Len(x) - 1) * PerExtent * BlockBytes + d.dir[x[Len(x)]].rc * RecordBytes

get_file_blocks(d, e) == FlattenSeq([i \in 1..Len(Extents(d, e)) |-> d.dir[Extents(d, e)[i]].at])

NoSuchFile == [ok |-> FALSE, bytes |-> 0, blocks |-> <<>>]

disk_read_file(d, n) ==
  IF Named(d, n) = {} THEN NoSuchFile
  ELSE LET e == d.dir[Min(Named(d, n))]
           size == compute_file_size(d, e)
           bs == get_file_blocks(d, e)
           used == Min({Len(bs), (size + BlockBytes - 1) \div BlockBytes})
       IN  IF \E i \in 1..used : ~find_sector_data(d, bs[i]) THEN NoSuchFile
           ELSE [ok |-> TRUE, bytes |-> Min({size, Len(bs) * BlockBytes}),
                 blocks |-> [i \in 1..used |-> d.block[bs[i]]]]

\* names of the lowest extents, one line per file
disk_list_files(d) ==
  {d.dir[i].name : i \in {j \in 1..DirSlots : Live(d.dir[j]) /\
     ~\E k \in 1..DirSlots : same_file(d.dir[k], d.dir[j]) /\ d.dir[k].ext < d.dir[j].ext}}

\* Mutant: files of other users are taken for free space
find_free_blocks_user0(d) ==
  SetToSortSeq({b \in 2..(NBlocks - 1) :
                  \A i \in 1..DirSlots : d.dir[i].user = "user0" => b \notin ToSet(d.dir[i].at)},
               LAMBDA a, b : a < b)

find_free_blocks(d) ==
  SetToSortSeq({b \in 2..(NBlocks - 1) :
                  \A i \in 1..DirSlots : Live(d.dir[i]) => b \notin ToSet(d.dir[i].at)},
               LAMBDA a, b : a < b)

find_free_dir_entries(d) ==
  SetToSortSeq({i \in 1..DirSlots : d.dir[i].user = "deleted"}, LAMBDA a, b : a < b)

Ceil(n, by) == (n + by - 1) \div by

disk_write_file(n, size) ==
  LET \* the entry of extent x (from 0) of the file, in the blocks used
      DirEntry(x, used) ==
        LET mine == SubSeq(used, x * PerExtent + 1, Min({Len(used), (x + 1) * PerExtent}))
            bytes == Min({Len(mine) * BlockBytes, size - x * PerExtent * BlockBytes})
        IN  [user |-> "user0", name |-> n, ext |-> x,
             rc |-> Min({Ceil(bytes, RecordBytes), (PerExtent * BlockBytes) \div RecordBytes}), at |-> mine]
      \* the data blocks are written first, up to one that cannot be; then the whole directory
      write_blocks(d, to) ==
        LET bad == {i \in 1..Len(to) : ~find_sector_data(d, to[i])}
            k == IF bad = {} THEN Len(to) ELSE Min(bad) - 1
        IN  [ok |-> bad = {},
             d |-> [d EXCEPT !.block = [b \in DOMAIN @ |->
                      IF \E i \in 1..k : to[i] = b
                      THEN <<puts + 1, CHOOSE i \in 1..k : to[i] = b>> ELSE @[b]]]]
      free == find_free_blocks(disc.d)
      need == Ceil(size, BlockBytes)
      slots == find_free_dir_entries(disc.d)
      extents == Ceil(need, PerExtent)
      bs == SubSeq(free, 1, need)
      w == write_blocks(disc.d, bs)
      refused == Named(disc.d, n) # {} \/ need > Len(free) \/ extents > Len(slots)
  IN  /\ puts < MaxPuts
      /\ puts' = puts + 1
      /\ \/ refused /\ reply' = "ERR" /\ UNCHANGED <<disc, wrote>>
         \/ /\ ~refused /\ ~w.ok
            /\ reply' = "ERR" /\ wrote' = wrote
            /\ disc' = [disc EXCEPT !.d = w.d, !.altered = @ \/ w.d # disc.d]
         \/ /\ ~refused /\ w.ok
            /\ reply' = "OK"
            /\ disc' = [d |-> [w.d EXCEPT !.dir = [i \in 1..DirSlots |->
                                 IF \E x \in 1..extents : slots[x] = i
                                 THEN DirEntry((CHOOSE x \in 1..extents : slots[x] = i) - 1, bs)
                                 ELSE @[i]]],
                        altered |-> TRUE]
            /\ wrote' = IF size = 0 THEN wrote
                        ELSE [k \in DOMAIN wrote \cup {n} |-> IF k = n THEN <<puts + 1, size>> ELSE wrote[k]]
      /\ UNCHANGED <<guest, onfile>>

\* every entry of that name goes, whatever its user
disk_delete_file(n) ==
  /\ IF Named(disc.d, n) = {} THEN reply' = "ERR" /\ UNCHANGED <<disc, wrote>>
     ELSE /\ reply' = "OK"
          /\ disc' = [d |-> [disc.d EXCEPT !.dir = [i \in 1..DirSlots |->
                               IF i \in Named(disc.d, n) THEN [@[i] EXCEPT !.user = "deleted"] ELSE @[i]]],
                      altered |-> TRUE]
          /\ wrote' = [k \in DOMAIN wrote \ {n} |-> wrote[k]]
  /\ UNCHANGED <<guest, onfile, puts>>

(* --- the sector editor, formatting, and the machine's side -------------------------- *)
\* a data sector of the size the header says; the directory's own sectors are left out
disk_sector_write(b) ==
  /\ IF ~find_sector_data(disc.d, b) THEN reply' = "ERR" /\ UNCHANGED <<disc, wrote>>
     ELSE /\ reply' = "OK"
          /\ disc' = [d |-> [disc.d EXCEPT !.block[b] = Filler], altered |-> TRUE]
          /\ wrote' = [k \in {n \in DOMAIN wrote :
                                \A i \in Named(disc.d, n) : b \notin ToSet(disc.d.dir[i].at)} |-> wrote[k]]
  /\ UNCHANGED <<guest, onfile, puts>>

disk_format_drive ==
  /\ disc' = [d |-> Blank, altered |-> TRUE]
  /\ wrote' = <<>> /\ reply' = "OK"
  /\ UNCHANGED <<guest, onfile, puts>>

History(d) == IF Named(d, "guest") = {} THEN <<>> ELSE [k \in {"guest"} |-> <<-1, BlockBytes>>]

\* file_load: the host parses the file, the machine gets its bytes at the frame boundary
file_load ==
  /\ disc' = [d |-> onfile, altered |-> FALSE]
  /\ guest' = [d |-> onfile, dirty |-> FALSE]
  /\ wrote' = History(onfile)
  /\ UNCHANGED <<onfile, puts, reply>>

guest_write ==
  /\ guest.d.block[2] # <<-2, 1>>
  /\ guest' = [d |-> [guest.d EXCEPT !.block[2] = <<-2, 1>>], dirty |-> TRUE]
  /\ UNCHANGED <<disc, onfile, wrote, puts, reply>>

\* the end of a frame: the UI's flag is the machine's
mirror_altered ==
  /\ disc' = [disc EXCEPT !.altered = guest.dirty]
  /\ UNCHANGED <<guest, onfile, wrote, puts, reply>>

\* a flush or `Save disk`: with the engine running, the machine's bytes are written
save_disk_to ==
  /\ onfile' = guest.d
  /\ guest' = [guest EXCEPT !.dirty = FALSE]
  /\ UNCHANGED <<disc, wrote, puts, reply>>

DiscInit ==
  /\ onfile \in BootDiscs
  /\ disc = [d |-> onfile, altered |-> FALSE]
  /\ guest = [d |-> onfile, dirty |-> FALSE]
  /\ wrote = History(onfile)
  /\ puts = 0 /\ reply = "none"

DiscNext ==
  \/ \E n \in FileNames, size \in FileSizes : disk_write_file(n, size)
  \/ \E n \in FileNames \cup {"guest"} : disk_delete_file(n)
  \/ \E b \in 2..3 : disk_sector_write(b)
  \/ disk_format_drive
  \/ file_load \/ guest_write \/ mirror_altered \/ save_disk_to

(* --- properties -------------------------------------------------------------------------- *)
(* Through any sequence of writes, deletions, refusals and failed writes, every file the
   host put on its disc is listed and reads back block for block with its length rounded
   up to records, and no two files share a block or use the directory's.                   *)
FilesIntact ==
  /\ \A n \in DOMAIN wrote :
       LET r == disk_read_file(disc.d, n)
           id == wrote[n][1]
       IN  /\ r.ok /\ n \in disk_list_files(disc.d)
           /\ r.blocks = [i \in 1..Ceil(wrote[n][2], BlockBytes) |-> <<id, i>>]
           /\ r.bytes = Ceil(wrote[n][2], RecordBytes) * RecordBytes
  /\ \A i, j \in 1..DirSlots :
       Live(disc.d.dir[i]) /\ Live(disc.d.dir[j]) /\ i # j =>
         ToSet(disc.d.dir[i].at) \cap (ToSet(disc.d.dir[j].at) \cup {0, 1}) = {}

=============================================================================
