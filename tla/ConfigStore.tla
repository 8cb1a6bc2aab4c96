----------------------------- MODULE ConfigStore -----------------------------
(***************************************************************************)
(* The two files that outlive a session (config.c): "config", with the     *)
(* directory for songs and the preferred quality, and "playlists", with    *)
(* the URLs of the playlists opened so far.  Both are saved by one         *)
(* protocol: write NAME.tmp, remove NAME (on Windows only), rename NAME.tmp *)
(* to NAME.  s->lock is held from the change in memory to the end of the   *)
(* save, so saves never overlap; the session may die between any two steps *)
(* and the next one starts from what it finds.                             *)
(*                                                                         *)
(* What a file holds is what the loading function makes of it.  Titles and *)
(* lengths of playlists are left out: nothing depends on them, and titles  *)
(* hold neither tabs nor line ends (collapse_spaces).                      *)
(***************************************************************************)
EXTENDS Integers, Sequences

CONSTANTS
  Dir,          \* directories the user may choose
  Url,          \* playlist URLs
  Cut,          \* a directory or URL of which only the first bytes are left
  NoDir,        \* the empty out_dir
  Absent,       \* no file under the name
  QualityCount, \* QUALITY_COUNT, 5 in squidget.h
  MaxPlaylists, \* SQT_MAX_PLAYLISTS, 64 in squidget.h
  Windows,      \* whether rename() refuses an existing target
  DiskMayFill   \* whether fprintf and fclose may lose bytes

VARIABLES
  mode,      \* "off", "setup" (MODE_SETUP) or "main" (any other mode)
  outDir,    \* s->out_dir
  quality,   \* s->default_quality, -1 for none
  playlists, \* the URLs of s->playlists
  disk,      \* the two files
  tmp,       \* their NAME.tmp
  step,      \* the next step of the save in progress, or "idle"
  saving     \* the file it saves

vars == <<mode, outDir, quality, playlists, disk, tmp, step, saving>>
memory == <<outDir, quality, playlists>>

File == {"config", "playlists"}

\* What loading each file can find.
Contents(f) ==
  IF f = "config"
  THEN [dir : Dir \cup {Cut, NoDir}, quality : -1 .. QualityCount - 1]
  ELSE {s \in Seq(Url \cup {Cut}) : Len(s) <= MaxPlaylists}

ConfigStoreAssumption ==
  /\ QualityCount \in Nat \ {0}
  /\ MaxPlaylists \in Nat \ {0}
  /\ NoDir \notin Dir
  /\ Windows \in BOOLEAN
  /\ DiskMayFill \in BOOLEAN
  /\ \A f \in File : Absent \notin Contents(f)

ASSUME ConfigStoreAssumption

-------------------------------------------------------------------------------
\* An empty file, and a file that is not there, are read alike.
Blank(f) ==
  IF f = "config" THEN [dir |-> NoDir, quality |-> -1] ELSE << >>

Read(f) == IF disk[f] = Absent THEN Blank(f) ELSE disk[f]

\* What a save of f prints: all of it, from memory.
Memory(f) ==
  IF f = "config" THEN [dir |-> outDir, quality |-> quality] ELSE playlists

\* What is read from a file whose last bytes are missing: a cut directory or
\* URL is taken for a whole one, and atoi makes 0 of a cut "quality=".
CutsOfConfig ==
  [dir : {NoDir, Cut, outDir}, quality : {-1}]
    \cup IF quality >= 0 THEN {[dir |-> outDir, quality |-> 0]} ELSE {}

CutsOfPlaylists ==
  {SubSeq(playlists, 1, k) : k \in 0 .. Len(playlists)}
    \cup {Append(SubSeq(playlists, 1, k), Cut) : k \in 0 .. Len(playlists) - 1}

Cuts(f) == IF f = "config" THEN CutsOfConfig ELSE CutsOfPlaylists

-------------------------------------------------------------------------------
Init ==
  /\ mode = "off"
  /\ outDir = NoDir
  /\ quality = -1
  /\ playlists = << >>
  /\ disk = [f \in File |-> Absent]
  /\ tmp = [f \in File |-> Absent]
  /\ step = "idle"
  /\ saving = "config"

\* Mutant: the loop stops one entry early.
LoadPlaylists_OneLess ==
  LET found == Read("playlists") IN
  playlists' = SubSeq(found, 1, IF Len(found) < MaxPlaylists
                                THEN Len(found) ELSE MaxPlaylists - 1)

\* config_load_playlists reads at most MaxPlaylists lines.
LoadPlaylists ==
  LET found == Read("playlists") IN
  playlists' = SubSeq(found, 1, IF Len(found) < MaxPlaylists
                                THEN Len(found) ELSE MaxPlaylists)

\* main: without a directory in the file, the setup screen is shown.
Start ==
  /\ mode = "off"
  /\ outDir' = Read("config").dir
  /\ quality' = Read("config").quality
  /\ LoadPlaylists
  /\ mode' = IF outDir' # NoDir THEN "main" ELSE "setup"
  /\ UNCHANGED <<disk, tmp, step, saving>>

\* The user leaves, or a fatal signal ends the process wherever it is.
Stop ==
  /\ mode # "off"
  /\ mode' = "off"
  /\ outDir' = NoDir
  /\ quality' = -1
  /\ playlists' = << >>
  /\ step' = "idle"
  /\ UNCHANGED <<disk, tmp, saving>>

BeginSave(f) ==
  /\ step = "idle"
  /\ step' = "open"
  /\ saving' = f
  /\ UNCHANGED <<mode, disk, tmp>>

\* A preset or a folder of the picker is chosen on the setup screen.
ChooseDir(d) ==
  /\ mode = "setup"
  /\ BeginSave("config")
  /\ outDir' = d
  /\ UNCHANGED <<quality, playlists>>

\* Key s in the quality picker.
SaveQuality(q) ==
  /\ mode = "main"
  /\ BeginSave("config")
  /\ quality' = q
  /\ UNCHANGED <<outDir, playlists>>

Known(u) == \E i \in DOMAIN playlists : playlists[i] = u

\* Mutant: no test of SQT_MAX_PLAYLISTS.
AddPlaylist_NoLimit(u) ==
  /\ mode = "main"
  /\ BeginSave("playlists")
  /\ playlists' = IF Known(u) THEN playlists ELSE Append(playlists, u)
  /\ UNCHANGED <<outDir, quality>>

\* A playlist was read: it keeps its place in the history or gets a new one;
\* when there is none left it is refused.
AddPlaylist(u) ==
  /\ mode = "main"
  /\ Known(u) \/ Len(playlists) < MaxPlaylists
  /\ BeginSave("playlists")
  /\ playlists' = IF Known(u) THEN playlists ELSE Append(playlists, u)
  /\ UNCHANGED <<outDir, quality>>

-------------------------------------------------------------------------------
(* The steps of config_save and config_save_playlists.                     *)

\* Whatever became of the save, its caller goes on, and leaves the setup.
Return ==
  /\ step' = "idle"
  /\ mode' = "main"
  /\ UNCHANGED <<memory, saving>>

\* Mutant: NAME itself is written, not NAME.tmp.
OpenTmp_InPlace ==
  /\ step = "open"
  /\ disk' = [disk EXCEPT ![saving] = Blank(saving)]
  /\ step' = "write"
  /\ UNCHANGED <<mode, memory, tmp, saving>>

OpenTmp ==
  /\ step = "open"
  /\ tmp' = [tmp EXCEPT ![saving] = Blank(saving)]
  /\ step' = "write"
  /\ UNCHANGED <<mode, memory, disk, saving>>

\* Mutant: fopen is not checked, and NAME.tmp is renamed as it was found.
OpenFails_GoesOn ==
  /\ step = "open"
  /\ step' = IF Windows THEN "remove" ELSE "rename"
  /\ UNCHANGED <<mode, memory, disk, tmp, saving>>

\* No directory, or no permission: nothing is saved and nobody is told.
OpenFails ==
  /\ step = "open"
  /\ Return
  /\ UNCHANGED <<disk, tmp>>

\* The buffer of the stream is full before the last line is printed.
Flush ==
  /\ step = "write"
  /\ \E c \in Cuts(saving) : tmp' = [tmp EXCEPT ![saving] = c]
  /\ UNCHANGED <<mode, memory, disk, step, saving>>

\* fclose: its result, and those of fprintf, are ignored.
Close ==
  /\ step = "write"
  /\ \E c \in {Memory(saving)} \cup (IF DiskMayFill THEN Cuts(saving) ELSE {}) :
        tmp' = [tmp EXCEPT ![saving] = c]
  /\ step' = IF Windows THEN "remove" ELSE "rename"
  /\ UNCHANGED <<mode, memory, disk, saving>>

\* Windows only; another program that has the file open prevents it.
Remove ==
  /\ step = "remove"
  /\ disk' \in {disk, [disk EXCEPT ![saving] = Absent]}
  /\ step' = "rename"
  /\ UNCHANGED <<mode, memory, tmp, saving>>

Rename ==
  /\ step = "rename"
  /\ Windows => disk[saving] = Absent
  /\ disk' = [disk EXCEPT ![saving] = tmp[saving]]
  /\ tmp' = [tmp EXCEPT ![saving] = Absent]
  /\ Return

RenameFails ==
  /\ step = "rename"
  /\ Return
  /\ UNCHANGED <<disk, tmp>>

Save == \/ OpenTmp \/ OpenFails \/ Flush \/ Close
        \/ Remove \/ Rename \/ RenameFails

Next == \/ Start \/ Stop
        \/ \E d \in Dir : ChooseDir(d)
        \/ \E q \in 0 .. QualityCount - 1 : SaveQuality(q)
        \/ \E u \in Url : AddPlaylist(u)
        \/ Save

Spec == Init /\ [][Next]_vars

-------------------------------------------------------------------------------
(* Properties *)

\* Types.  The quality in use is always unset or one of the five, even when it
\* was read from a file cut anywhere: start_playlist_download indexes
\* QUALITY_LABELS with it (main.c:753).
TypeOK ==
  /\ mode \in {"off", "setup", "main"}
  /\ [dir |-> outDir, quality |-> quality] \in Contents("config")
  /\ playlists \in Contents("playlists")
  /\ DOMAIN disk = File /\ DOMAIN tmp = File
  /\ \A f \in File : {disk[f], tmp[f]} \subseteq Contents(f) \cup {Absent}
  /\ step \in {"idle", "open", "write", "remove", "rename"}
  /\ saving \in File

\* On any system, with any failure: a file only ever disappears or becomes what
\* the session saving it has in memory, at worst with its end missing; nothing
\* of an earlier save, or of a NAME.tmp that a dead session left behind, is
\* ever mixed into it.
OnlyFromMemory ==
  [][\A f \in File : disk'[f] # disk[f] =>
        disk'[f] \in {Absent, Memory(f)} \cup Cuts(f)]_vars

URLs(list) == {list[i] : i \in DOMAIN list}

\* Where no byte is lost and rename() replaces: through all sessions, however
\* they end, a kept directory and quality are never unset again, and the history
\* never loses a playlist, not even when it is full.
SettingsSurvive ==
  [][/\ Read("config").dir # NoDir => Read("config")'.dir # NoDir
     /\ Read("config").quality >= 0 => Read("config")'.quality >= 0
     /\ URLs(Read("playlists")) \subseteq URLs(Read("playlists")')]_vars

Register == INSTANCE SettingsRegister WITH
  Register <- File,
  kept <- [f \in File |-> Read(f)],
  known <- [f \in File |-> Memory(f)],
  running <- mode # "off"

\* Where no byte is lost and rename() replaces, the two files are registers: the
\* next session reads what an earlier one had in memory, whole, and a save that
\* fails or is cut off changes nothing.
ImplementsRegister == Register!Spec
===============================================================================
