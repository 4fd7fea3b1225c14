------------------------------- MODULE Config -------------------------------
(***************************************************************************)
(* The settings file: how Config reads it and writes it back, what a       *)
(* session loads from it and saves to it under command-line overrides,     *)
(* the machine profiles, and the filter for echoed launch files.           *)
(*                                                                         *)
(* A line of the file is a section header, a key with a value and perhaps  *)
(* a note behind it, a note of its own, or blank.  A value is a word;      *)
(* "w#x" stands for any value with a '#' inside, which reads back as "w".  *)
(*                                                                         *)
(* ini   the file's lines            text  the lines it had before a write *)
(* sess  the running session         prof  the profile manager             *)
(* echo  the launch-echo filter                                            *)
(***************************************************************************)
EXTENDS Integers, Sequences, SequencesExt, FiniteSets, TLC

CONSTANTS FileLines,      \* the lines a hand-written file is made of
          MaxIniLines,       \* bound: lines of a hand-written file
          MaxSaves,       \* bound: saves of one history
          Clock           \* bound: ticks after the launch; the filter's window is 1

VARIABLES ini, text, sess, prof, echo

configVars == <<ini, text, sess, prof, echo>>

None_ == "-"
Header(s) == [kind |-> "section", sec |-> s, key |-> "", val |-> "", note |-> FALSE]
Pair(k, v, n) == [kind |-> "pair", sec |-> "", key |-> k, val |-> v, note |-> n]
NoteLine == [kind |-> "note", sec |-> "", key |-> "", val |-> "", note |-> TRUE]
BlankLine == [kind |-> "blank", sec |-> "", key |-> "", val |-> "", note |-> FALSE]

-----------------------------------------------------------------------------
(* Reading: the later of two lines with one key wins; a key without a value*)
(* is no pair, unless a note follows, whose text is then the value.        *)

parseStream(lines) ==
  LET ValueRead(l) == IF l.val = "" THEN (IF l.note THEN "note" ELSE "")
                      ELSE IF l.val = "w#x" THEN "w" ELSE l.val
  IN
  FoldLeft(LAMBDA st, l :
             IF l.kind = "section" THEN [st EXCEPT !.sec = l.sec]
             ELSE IF l.kind # "pair" \/ ValueRead(l) = "" THEN st
             ELSE [st EXCEPT !.map = (<<st.sec, l.key>> :> ValueRead(l)) @@ @],
           [sec |-> "", map |-> <<>>], lines).map

find_in(map, p) == IF p \in DOMAIN map THEN map[p] ELSE None_

-----------------------------------------------------------------------------
(* Writing: the lines that were read are kept, their values rewritten; keys*)
(* the file does not have go to the end of the first such section.         *)

\* An empty value drops the note behind it: it would be read as the value.
rewrite_value(l, v) == [l EXCEPT !.val = v, !.note = l.note /\ v # ""]

flush(st) ==
  LET \* Where a section's new keys go: behind its last line that is not blank.
      LastText(buf) == LET full == {i \in 1..Len(buf) : buf[i].kind # "blank"} IN
                       IF full = {} THEN 0 ELSE CHOOSE i \in full : \A j \in full : j <= i
      new  == {p \in DOMAIN st.pending : p[1] = st.sec}
      rows == SetToSeq({Pair(p[2], st.pending[p], FALSE) : p \in new})
      at   == LastText(st.buf)
  IN [st EXCEPT !.out = @ \o SubSeq(st.buf, 1, at) \o rows \o SubSeq(st.buf, at + 1, Len(st.buf)),
                !.buf = <<>>, !.pending = [p \in DOMAIN st.pending \ new |-> st.pending[p]]]

\* Mutant: the first line with a key is rewritten, its repetitions are left.
put_line_once(map, st, l) ==
  IF l.kind = "section" THEN [flush(st) EXCEPT !.sec = l.sec, !.buf = <<l>>]
  ELSE LET p == <<st.sec, l.key>> IN
       IF l.kind = "pair" /\ p \in DOMAIN st.pending
       THEN [st EXCEPT !.buf = Append(@, rewrite_value(l, map[p])),
                       !.pending = [q \in DOMAIN st.pending \ {p} |-> st.pending[q]]]
       ELSE [st EXCEPT !.buf = Append(@, l)]

put_line(map, st, l) ==
  IF l.kind = "section" THEN [flush(st) EXCEPT !.sec = l.sec, !.buf = <<l>>]
  ELSE LET p == <<st.sec, l.key>> IN
       IF l.kind = "pair" /\ p \in DOMAIN map
       THEN [st EXCEPT !.buf = Append(@, rewrite_value(l, map[p])),
                       !.pending = [q \in DOMAIN st.pending \ {p} |-> st.pending[q]]]
       ELSE [st EXCEPT !.buf = Append(@, l)]

toStream(lines, map) ==
  LET NewSections(pending) ==
        FoldLeft(LAMBDA out, s : out \o <<Header(s)>>
                   \o SetToSeq({Pair(p[2], pending[p], FALSE) : p \in {q \in DOMAIN pending : q[1] = s}}),
                 <<>>, SetToSeq({p[1] : p \in DOMAIN pending}))
      st == flush(FoldLeft(LAMBDA s, l : put_line(map, s, l),
                           [out |-> <<>>, buf |-> <<>>, sec |-> "", pending |-> map], lines))
  IN st.out \o NewSections(st.pending)

-----------------------------------------------------------------------------
(* Overrides.  A setter that repeats what the command line said is an echo *)
(* of it and does not reach the file.                                      *)

setStringValue_echoes(conf, p, v) == [conf EXCEPT !.map = (p :> v) @@ @]

setStringValue(conf, p, v) ==
  IF find_in(conf.launch, p) = v THEN conf
  ELSE [conf EXCEPT !.map = (p :> v) @@ @,
                    !.launch = [q \in DOMAIN conf.launch \ {p} |-> conf.launch[q]]]

getValue(map, over, p, def) ==
  IF p \in DOMAIN over THEN over[p] ELSE IF p \in DOMAIN map THEN map[p] ELSE def

\* The settings: a number with a range, a path, a board and its disc image.
Speed == <<"system", "speed">>
SdPath == <<"peripheral", "m4_sd_path">>
Symbiface == <<"peripheral", "symbiface">>
IdeMaster == <<"peripheral", "ide_master">>

Settings == {Speed, SdPath, Symbiface, IdeMaster}

\* An image is attached only to a board that is there.
loadConfiguration(lines, over) ==
  LET read_clamped(v) == IF v \in {"4", "8"} THEN v ELSE "4"
      map == parseStream(lines)
      board == getValue(map, over, Symbiface, "0")
  IN (Speed :> read_clamped(getValue(map, over, Speed, "4")))
     @@ (SdPath :> getValue(map, over, SdPath, ""))
     @@ (Symbiface :> board)
     @@ (IdeMaster :> IF board = "1" THEN getValue(map, over, IdeMaster, "") ELSE "")

\* The file is read again, the overrides are set again, and every setting is
\* put in.
saveConfiguration(lines, over, live) ==
  LET conf == FoldSet(LAMBDA p, c : setStringValue(c, p, live[p]),
                      [map |-> parseStream(lines), launch |-> over], Settings)
  IN toStream(lines, conf.map)

-----------------------------------------------------------------------------
(* A session.  own: what the user chose in this session, if anything;      *)
(* ended: the overrides that a save has met with a different value.        *)

Launch ==
  /\ ~sess.on /\ sess.saves < MaxSaves
  /\ \E over \in {<<>>, Speed :> "8", SdPath :> "w"} :
       sess' = [sess EXCEPT !.on = TRUE, !.over = over, !.live = loadConfiguration(ini, over),
                            !.own = [p \in Settings |-> None_], !.found = parseStream(ini),
                            !.ended = {}]
  /\ UNCHANGED <<ini, text, prof, echo>>

Offered(p) == IF p = Speed THEN {"4", "8"} ELSE IF p = SdPath THEN {"v", "w"} ELSE {}

\* The Options dialog, or the M4 folder picker.
Choose_ ==
  /\ sess.on /\ \E p \in Settings, v \in {"4", "8", "v", "w"} :
       /\ v \in Offered(p) /\ v # sess.live[p]
       /\ sess' = [sess EXCEPT !.live[p] = v, !.own[p] = v]
  /\ UNCHANGED <<ini, text, prof, echo>>

\* The dialog's Save, or a file opened: the list of recent files saves too.
Save ==
  /\ sess.on /\ sess.saves < MaxSaves
  /\ text' = ini /\ ini' = saveConfiguration(ini, sess.over, sess.live)
  /\ sess' = [sess EXCEPT !.saves = @ + 1,
              !.ended = @ \cup {p \in DOMAIN sess.over : sess.live[p] # sess.over[p]}]
  /\ UNCHANGED <<prof, echo>>

\* The stream is opened for writing, which empties the file, and fails.
SaveFails ==
  /\ sess.on /\ sess.saves < MaxSaves
  /\ text' = ini /\ ini' = <<>>
  /\ sess' = [sess EXCEPT !.saves = @ + 1, !.torn = TRUE]
  /\ UNCHANGED <<prof, echo>>

Quit == sess.on /\ sess' = [sess EXCEPT !.on = FALSE] /\ UNCHANGED <<ini, text, prof, echo>>

SessionNext_ == Launch \/ Choose_ \/ Save \/ SaveFails \/ Quit

\* Any set of values put into any file, whatever its sections and repetitions.
Rewrite ==
  /\ sess.wrote = <<>>
  /\ \E sec \in {"s", "t"}, v, w \in {"", "a", "w#x"} :
       LET map == (<<sec, "k">> :> v) @@ (<<"s", "l">> :> w) @@ parseStream(ini) IN
       /\ ini' = toStream(ini, map)
       /\ sess' = [sess EXCEPT !.wrote = map]
  /\ text' = ini
  /\ UNCHANGED <<prof, echo>>

-----------------------------------------------------------------------------
(* Profiles.  A profile has a model and a RAM size; 100 is no size the     *)
(* machine comes in, and 9 no model.                                       *)

ProfileNames == {"cpc464", "mine", "../x"}
RamSizes == {64, 128}

valid_name(n) == n # "../x"
is_builtin(n) == n \in {"cpc464", "cpc6128"}
builtin_profile(n) == [model |-> IF n = "cpc464" THEN 0 ELSE 2, ram |-> IF n = "cpc464" THEN 64 ELSE 128]

sanitize_model_only(p) == [p EXCEPT !.model = IF @ > 3 THEN 3 ELSE @]

\* A RAM size becomes the largest one there is that is not above it.
sanitize(p) ==
  [model |-> IF p.model > 3 THEN 3 ELSE p.model,
   ram |-> IF p.ram \in RamSizes THEN p.ram
           ELSE CHOOSE r \in RamSizes : (r <= p.ram \/ r = 64)
                  /\ \A q \in RamSizes : q <= p.ram => q <= r]

NoProfile == [model |-> 99, ram |-> 99]

ProfileLoad ==
  /\ \E n \in ProfileNames :
       /\ valid_name(n) /\ (is_builtin(n) \/ prof.files[n] # NoProfile)
       /\ prof' = [prof EXCEPT !.live = sanitize(IF prof.files[n] # NoProfile THEN prof.files[n]
                                                 ELSE builtin_profile(n)),
                               !.current = n]
  /\ UNCHANGED <<ini, text, sess, echo>>

\* A write that fails leaves what it had written: here a profile with its
\* first field only, which reads back with the default for the others.
ProfileSave ==
  /\ \E n \in ProfileNames, ok \in BOOLEAN :
       /\ valid_name(n)
       /\ prof' = [prof EXCEPT !.files[n] = IF ok THEN prof.live ELSE [prof.live EXCEPT !.ram = 128],
                               !.current = IF ok THEN n ELSE @]
  /\ UNCHANGED <<ini, text, sess, echo>>

ProfileRemove ==
  /\ \E n \in ProfileNames :
       /\ valid_name(n) /\ ~is_builtin(n) /\ prof.files[n] # NoProfile
       /\ prof' = [prof EXCEPT !.files[n] = NoProfile, !.current = IF @ = n THEN None_ ELSE @]
  /\ UNCHANGED <<ini, text, sess, echo>>

\* A profile edited by hand.
ProfileEdited ==
  /\ \E n \in ProfileNames, m \in {2, 9}, r \in {64, 100, 128} :
       valid_name(n) /\ prof' = [prof EXCEPT !.files[n] = [model |-> m, ram |-> r]]
  /\ UNCHANGED <<ini, text, sess, echo>>

\* The machine set up in the Options dialog.
MachineChosen ==
  /\ \E m \in {0, 2}, r \in RamSizes : prof' = [prof EXCEPT !.live = [model |-> m, ram |-> r]]
  /\ UNCHANGED <<ini, text, sess, echo>>

ProfileNext == ProfileLoad \/ ProfileSave \/ ProfileRemove \/ ProfileEdited \/ MachineChosen

-----------------------------------------------------------------------------
(* The files of the command line come back as drops on some desktops.      *)

register_launch_files ==
  /\ echo.now = 0 /\ ~echo.armed
  /\ \E files \in SUBSET {"f", "g"} :
       echo' = [echo EXCEPT !.pending = files, !.armed = TRUE]
  /\ UNCHANGED <<ini, text, sess, prof>>

consume_late(e, f) == IF f \in e.pending THEN [e EXCEPT !.pending = @ \ {f}, !.last = "swallowed"]
                      ELSE [e EXCEPT !.last = "loaded"]

consume(e, f) ==
  IF e.pending = {} THEN [e EXCEPT !.last = "loaded"]
  ELSE IF e.now > 1 THEN [e EXCEPT !.pending = {}, !.last = "loaded"]
  ELSE IF f \in e.pending THEN [e EXCEPT !.pending = @ \ {f}, !.last = "swallowed"]
  ELSE [e EXCEPT !.last = "loaded"]

drop_is_launch_echo ==
  /\ echo.armed
  /\ \E f \in {"f", "g", "h"} :
       LET e == consume(echo, f) IN
       echo' = IF e.last = "swallowed" THEN [e EXCEPT !.eaten[f] = @ + 1, !.late = @ \/ echo.now > 1] ELSE e
  /\ UNCHANGED <<ini, text, sess, prof>>

EchoTick == echo.now < Clock /\ echo' = [echo EXCEPT !.now = @ + 1] /\ UNCHANGED <<ini, text, sess, prof>>

EchoNext == register_launch_files \/ drop_is_launch_echo \/ EchoTick

-----------------------------------------------------------------------------

HandWritten == UNION {[1..n -> FileLines] : n \in 0..MaxIniLines}

SessionFiles ==
  {<<Header("system"), Pair("speed", "4", TRUE), NoteLine, Header("peripheral"), Pair("m4_sd_path", "v", FALSE)>>,
   <<Header("peripheral"), Pair("ide_master", "i", FALSE), Pair("symbiface", "1", FALSE), BlankLine>>}

ConfigInit ==
  /\ ini \in HandWritten \cup SessionFiles
  /\ text = ini
  /\ sess = [on |-> FALSE, over |-> <<>>, live |-> <<>>, own |-> [p \in Settings |-> None_],
             found |-> <<>>, saves |-> 0, torn |-> FALSE, ended |-> {}, wrote |-> <<>>]
  /\ prof = [files |-> [n \in ProfileNames |-> NoProfile], current |-> None_,
             live |-> builtin_profile("cpc6128")]
  /\ echo = [pending |-> {}, armed |-> FALSE, now |-> 0, last |-> "", eaten |-> [f \in {"f", "g", "h"} |-> 0],
             late |-> FALSE]

-----------------------------------------------------------------------------
\* One session with its launch overrides, from a file with its own settings.
SessionSpec == ConfigInit /\ ini \in SessionFiles /\ [][SessionNext_]_configVars

(* Properties.                                                             *)

Plain(v) == v \notin {"", "w#x"}
Kept(lines) == SelectSeq(lines, LAMBDA l : l.kind \in {"note", "section"})

\* What was written is what is read: whatever sections and repeated keys the
\* file has, every value of the model reads back, an emptied key is gone, no
\* key appears that was not there, and notes and headers stay in their order.
ReadsBack ==
  LET back == parseStream(ini) IN
  /\ \A p \in DOMAIN sess.wrote : Plain(sess.wrote[p]) => find_in(back, p) = sess.wrote[p]
  /\ \A p \in DOMAIN sess.wrote : sess.wrote[p] = "" => p \notin DOMAIN back
  /\ sess.wrote # <<>> => DOMAIN back \subseteq DOMAIN sess.wrote /\ IsPrefix(Kept(text), Kept(ini))

\* A setting the user left alone is in the file what it was at the launch,
\* whatever the command line said and however often the session saves.
UntouchedKept ==
  sess.on /\ ~sess.torn =>
    \A p \in {Speed, SdPath} :
      sess.own[p] = None_ => find_in(parseStream(ini), p) \in
        {find_in(sess.found, p)} \cup (IF p = Speed /\ p \notin DOMAIN sess.found THEN {"4"} ELSE {})

\* A profile in force is one the machine can be built with, and the name shown
\* is that of a profile there is.
ProfileSound ==
  /\ prof.live.model <= 3 /\ prof.live.ram \in RamSizes
  /\ prof.current # None_ => is_builtin(prof.current) \/ prof.files[prof.current] # NoProfile

\* A drop is swallowed once per launch file, and only shortly after the launch.
EchoOnce == (\A f \in {"f", "g", "h"} : echo.eaten[f] <= 1) /\ ~echo.late

ConfigRight == ReadsBack /\ UntouchedKept /\ ProfileSound /\ EchoOnce

\* Once a value other than the override's was saved, the override protects the
\* key no longer: every later save writes what the user chose.
ProtectionEnds ==
  [][sess'.saves > sess.saves /\ ~sess'.torn
       => \A p \in sess.ended : find_in(parseStream(ini'), p) = sess.own[p]]_configVars

=============================================================================
