-------------------------- MODULE ConfigStoreProofs --------------------------
(***************************************************************************)
(* Proofs about ConfigStore for any directories, URLs and limits: types,   *)
(* what a file may turn into on any system, and, where no byte is lost and *)
(* rename() replaces (Faultless), that nothing kept is forgotten and that  *)
(* the two files implement SettingsRegister.                               *)
(***************************************************************************)
EXTENDS ConfigStore, TLAPS

Faultless == ~Windows /\ ~DiskMayFill

\* The constants of ConfigStoreAssumption, once and for all.
LEMMA Constants ==
  /\ QualityCount \in Nat \ {0}
  /\ MaxPlaylists \in Nat \ {0}
  /\ NoDir \notin Dir
  /\ Windows \in BOOLEAN
  /\ DiskMayFill \in BOOLEAN
  /\ \A f \in File : Absent \notin Contents(f)
BY ConfigStoreAssumption DEF ConfigStoreAssumption

-------------------------------------------------------------------------------
(* The inductive invariant.                                                *)

\* Without a session there is nothing in memory and no save in progress.
Off ==
  mode = "off" => /\ step = "idle"
                  /\ outDir = NoDir
                  /\ quality = -1
                  /\ playlists = << >>

\* Once NAME.tmp is closed, it holds what is in memory: s->lock keeps the memory
\* as it was when it was printed.
Written ==
  step \in {"remove", "rename"} =>
    /\ tmp[saving] \in {Memory(saving)} \cup Cuts(saving)
    /\ ~DiskMayFill => tmp[saving] = Memory(saving)

OnlyWindowsRemoves == step = "remove" => Windows

IInv == TypeOK /\ Off /\ Written /\ OnlyWindowsRemoves

\* What a session has in memory includes what it found.
Remembered ==
  mode # "off" =>
    /\ Read("config").dir # NoDir => outDir # NoDir
    /\ Read("config").quality >= 0 => quality >= 0
    /\ URLs(Read("playlists")) \subseteq URLs(playlists)

-------------------------------------------------------------------------------
(* What the loading and saving functions read and print.                   *)

\* An empty file is a possible file.
LEMMA BlankIsContents ==
  ASSUME NEW f \in File
  PROVE  Blank(f) \in Contents(f)
<1>1. Blank("config") \in Contents("config")
  BY Constants DEF Blank, Contents
<1>2. Blank("playlists") = << >>
  BY DEF Blank
<1>3. << >> \in Seq(Url \cup {Cut}) /\ Len(<< >>) <= MaxPlaylists
  BY Constants
<1>4. << >> \in Contents("playlists")
  BY <1>3 DEF Contents
<1> QED
  BY <1>1, <1>2, <1>4 DEF File

\* Loading finds contents of the right kind, whether or not there is a file.
LEMMA ReadIsContents ==
  ASSUME TypeOK, NEW f \in File
  PROVE  Read(f) \in Contents(f)
BY BlankIsContents DEF Read, TypeOK

\* Memory is always fit to be printed.
LEMMA MemoryIsContents ==
  ASSUME TypeOK, NEW f \in File
  PROVE  Memory(f) \in Contents(f)
BY DEF Memory, TypeOK, File

\* The first entries of a list are a list.
LEMMA Prefix ==
  ASSUME NEW S, NEW s \in Seq(S), NEW k \in 0 .. Len(s)
  PROVE  /\ SubSeq(s, 1, k) \in Seq(S)
         /\ Len(SubSeq(s, 1, k)) = k
OBVIOUS

\* A file cut anywhere is still read as contents of the right kind.
LEMMA CutsAreContents ==
  ASSUME TypeOK, NEW f \in File
  PROVE  Cuts(f) \subseteq Contents(f)
<1>1. CutsOfConfig \subseteq Contents("config")
  BY Constants DEF CutsOfConfig, Contents, TypeOK
<1>2. CutsOfPlaylists \subseteq Contents("playlists")
  <2> SUFFICES ASSUME NEW c \in CutsOfPlaylists
               PROVE  c \in Contents("playlists")
    OBVIOUS
  <2>1. playlists \in Seq(Url \cup {Cut}) /\ Len(playlists) <= MaxPlaylists
        /\ Len(playlists) \in Nat /\ MaxPlaylists \in Nat
    BY Constants DEF TypeOK, Contents
  <2>2. CASE \E k \in 0 .. Len(playlists) : c = SubSeq(playlists, 1, k)
    BY <2>1, <2>2, Prefix DEF Contents
  <2>3. CASE \E k \in 0 .. Len(playlists) - 1 :
               c = Append(SubSeq(playlists, 1, k), Cut)
    <3>1. PICK k \in 0 .. Len(playlists) - 1 :
            c = Append(SubSeq(playlists, 1, k), Cut)
      BY <2>3
    <3>2. k \in 0 .. Len(playlists) /\ k + 1 <= MaxPlaylists
      BY <2>1
    <3>3. SubSeq(playlists, 1, k) \in Seq(Url \cup {Cut})
          /\ Len(SubSeq(playlists, 1, k)) = k
      BY <2>1, <3>2, Prefix
    <3>4. c \in Seq(Url \cup {Cut}) /\ Len(c) = k + 1
      BY <3>1, <3>3
    <3> QED
      BY <3>2, <3>4 DEF Contents
  <2> QED
    BY <2>2, <2>3 DEF CutsOfPlaylists
<1> QED
  BY <1>1, <1>2 DEF Cuts, File

\* Every entry of the file fits into memory: nothing is left behind by the limit.
LEMMA LoadsAll ==
  ASSUME TypeOK
  PROVE  LoadPlaylists <=> playlists' = Read("playlists")
<1> DEFINE found == Read("playlists")
<1>1. found \in Seq(Url \cup {Cut}) /\ Len(found) <= MaxPlaylists
  BY ReadIsContents DEF Contents, File
<1>2. Len(found) \in Nat /\ MaxPlaylists \in Nat
  BY <1>1, Constants
<1>3. (IF Len(found) < MaxPlaylists THEN Len(found) ELSE MaxPlaylists) = Len(found)
  BY <1>1, <1>2
<1>4. SubSeq(found, 1, Len(found)) = found
  BY <1>1
<1> QED
  BY <1>3, <1>4 DEF LoadPlaylists

-------------------------------------------------------------------------------
(* Each action preserves IInv.                                             *)

LEMMA InitIInv == Init => IInv
<1> SUFFICES ASSUME Init PROVE IInv
  OBVIOUS
<1>1. Blank("config") = [dir |-> NoDir, quality |-> -1] /\ Blank("playlists") = << >>
  BY DEF Blank
<1>2. [dir |-> outDir, quality |-> quality] \in Contents("config")
      /\ playlists \in Contents("playlists")
  BY <1>1, BlankIsContents DEF Init, File
<1>3. TypeOK
  BY <1>2 DEF Init, TypeOK, File
<1> QED
  BY <1>3 DEF Init, IInv, Off, Written, OnlyWindowsRemoves

\* What does not touch the files keeps their types.
LEMMA SameFiles ==
  ASSUME TypeOK, disk' = disk, tmp' = tmp
  PROVE  /\ DOMAIN disk' = File /\ DOMAIN tmp' = File
         /\ \A f \in File : {disk'[f], tmp'[f]} \subseteq Contents(f) \cup {Absent}
BY DEF TypeOK

\* A new NAME.tmp of the right kind keeps their types too.
LEMMA NewTmp ==
  ASSUME TypeOK, disk' = disk,
         NEW c \in Contents(saving) \cup {Absent}, tmp' = [tmp EXCEPT ![saving] = c]
  PROVE  /\ DOMAIN disk' = File /\ DOMAIN tmp' = File
         /\ \A f \in File : {disk'[f], tmp'[f]} \subseteq Contents(f) \cup {Absent}
         /\ tmp'[saving] = c
BY DEF TypeOK

\* Start: the session knows what is kept.
LEMMA StartIInv == IInv /\ Start => IInv'
<1> SUFFICES ASSUME IInv, Start PROVE IInv'
  OBVIOUS
<1> USE DEF IInv
<1>1. Read("config") \in Contents("config") /\ Read("playlists") \in Contents("playlists")
  BY ReadIsContents DEF File
<1>2. PICK d, q : Read("config") = [dir |-> d, quality |-> q]
  BY <1>1 DEF Contents
<1>3. [dir |-> outDir', quality |-> quality'] = Read("config")
  BY <1>2 DEF Start
<1>4. playlists' = Read("playlists")
  BY LoadsAll DEF Start
<1>5. disk' = disk /\ tmp' = tmp /\ step' = step /\ saving' = saving
  BY DEF Start
<1>6. mode' \in {"main", "setup"} /\ step = "idle"
  BY DEF Start, Off
<1>7. [dir |-> outDir', quality |-> quality'] \in Contents("config")
      /\ playlists' \in Contents("playlists")
  BY <1>1, <1>3, <1>4
<1>8. TypeOK'
  BY <1>5, <1>6, <1>7, SameFiles DEF TypeOK
<1> QED
  BY <1>5, <1>6, <1>8 DEF Off, Written, OnlyWindowsRemoves

\* Stop: memory is gone, the files are not.
LEMMA StopIInv == IInv /\ Stop => IInv'
<1> SUFFICES ASSUME IInv, Stop PROVE IInv'
  OBVIOUS
<1> USE DEF IInv
<1>1. Blank("config") = [dir |-> NoDir, quality |-> -1] /\ Blank("playlists") = << >>
  BY DEF Blank
<1>2. [dir |-> outDir', quality |-> quality'] \in Contents("config")
      /\ playlists' \in Contents("playlists")
  BY <1>1, BlankIsContents DEF Stop, File
<1>3. disk' = disk /\ tmp' = tmp /\ saving' = saving /\ step' = "idle" /\ mode' = "off"
  BY DEF Stop
<1>4. TypeOK'
  BY <1>2, <1>3, SameFiles DEF TypeOK
<1> QED
  BY <1>3, <1>4 DEF Stop, Off, Written, OnlyWindowsRemoves

\* A change in memory, of the right kind, and the beginning of a save.
LEMMA BeginIInv ==
  ASSUME IInv, mode # "off", NEW f \in File, BeginSave(f),
         [dir |-> outDir', quality |-> quality'] \in Contents("config"),
         playlists' \in Contents("playlists")
  PROVE  IInv'
<1> USE DEF IInv
<1>1. disk' = disk /\ tmp' = tmp /\ saving' = f /\ step' = "open" /\ mode' = mode
  BY DEF BeginSave
<1>2. TypeOK'
  BY <1>1, SameFiles DEF TypeOK
<1> QED
  BY <1>1, <1>2 DEF Off, Written, OnlyWindowsRemoves

LEMMA ChooseDirIInv == ASSUME IInv, NEW d \in Dir, ChooseDir(d) PROVE IInv'
<1>1. [dir |-> outDir', quality |-> quality'] \in Contents("config")
  BY DEF ChooseDir, IInv, TypeOK, Contents
<1>2. playlists' \in Contents("playlists")
  BY DEF ChooseDir, IInv, TypeOK
<1> QED
  BY <1>1, <1>2, BeginIInv DEF ChooseDir, File

LEMMA SaveQualityIInv ==
  ASSUME IInv, NEW q \in 0 .. QualityCount - 1, SaveQuality(q) PROVE IInv'
<1>1. [dir |-> outDir', quality |-> quality'] \in Contents("config")
  BY Constants DEF SaveQuality, IInv, TypeOK, Contents
<1>2. playlists' \in Contents("playlists")
  BY DEF SaveQuality, IInv, TypeOK
<1> QED
  BY <1>1, <1>2, BeginIInv DEF SaveQuality, File

LEMMA AddPlaylistIInv == ASSUME IInv, NEW u \in Url, AddPlaylist(u) PROVE IInv'
<1>1. [dir |-> outDir', quality |-> quality'] \in Contents("config")
  BY DEF AddPlaylist, IInv, TypeOK
<1>2. playlists \in Seq(Url \cup {Cut}) /\ Len(playlists) <= MaxPlaylists
  BY DEF IInv, TypeOK, Contents
<1>3. MaxPlaylists \in Nat
  BY Constants
<1>4. ASSUME Known(u) PROVE playlists' \in Contents("playlists")
  BY <1>4 DEF AddPlaylist, IInv, TypeOK
<1>5. ASSUME ~Known(u) PROVE playlists' \in Contents("playlists")
  <2>1. playlists' = Append(playlists, u) /\ Len(playlists) < MaxPlaylists
    BY <1>5 DEF AddPlaylist
  <2>2. playlists' \in Seq(Url \cup {Cut}) /\ Len(playlists') <= MaxPlaylists
    BY <1>2, <1>3, <2>1
  <2> QED
    BY <2>2 DEF Contents
<1> QED
  BY <1>1, <1>4, <1>5, BeginIInv DEF AddPlaylist, File

\* Memory during a save is what it was when the save began.
LEMMA SameMemory ==
  ASSUME UNCHANGED memory, NEW f
  PROVE  /\ outDir' = outDir /\ quality' = quality /\ playlists' = playlists
         /\ Memory(f)' = Memory(f)
         /\ Cuts(f)' = Cuts(f)
BY DEF memory, Memory, Cuts, CutsOfConfig, CutsOfPlaylists

\* The steps that only touch NAME.tmp, before it is closed.
LEMMA TmpIInv ==
  ASSUME IInv, step = "open" \/ step = "write",
         NEW c \in Contents(saving) \cup {Absent},
         tmp' = [tmp EXCEPT ![saving] = c],
         step' = "write" \/
           (step' = (IF Windows THEN "remove" ELSE "rename")
            /\ c \in {Memory(saving)} \cup Cuts(saving)
            /\ (~DiskMayFill => c = Memory(saving))),
         mode' = mode, disk' = disk, saving' = saving, UNCHANGED memory
  PROVE  IInv'
<1> USE DEF IInv
<1>1. outDir' = outDir /\ quality' = quality /\ playlists' = playlists
  BY SameMemory
<1>2. TypeOK'
  BY <1>1, NewTmp DEF TypeOK
<1>3. Off'
  BY DEF Off
<1>4. Memory(saving)' = Memory(saving) /\ Cuts(saving)' = Cuts(saving)
  BY SameMemory DEF Memory, Cuts, CutsOfConfig, CutsOfPlaylists, memory
<1>5. tmp'[saving'] = c
  BY NewTmp
<1>6. Written'
  BY <1>4, <1>5 DEF Written
<1>7. OnlyWindowsRemoves'
  BY DEF OnlyWindowsRemoves
<1> QED
  BY <1>2, <1>3, <1>6, <1>7

LEMMA OpenTmpIInv == IInv /\ OpenTmp => IInv'
<1> SUFFICES ASSUME IInv, OpenTmp PROVE IInv'
  OBVIOUS
<1>1. Blank(saving) \in Contents(saving)
  BY BlankIsContents DEF IInv, TypeOK
<1> QED
  BY <1>1, TmpIInv DEF OpenTmp

LEMMA FlushIInv == IInv /\ Flush => IInv'
<1> SUFFICES ASSUME IInv, Flush PROVE IInv'
  OBVIOUS
<1>1. PICK c \in Cuts(saving) : tmp' = [tmp EXCEPT ![saving] = c]
  BY DEF Flush
<1>2. c \in Contents(saving)
  BY <1>1, CutsAreContents DEF IInv, TypeOK
<1> QED
  BY <1>1, <1>2, TmpIInv DEF Flush

LEMMA CloseIInv == IInv /\ Close => IInv'
<1> SUFFICES ASSUME IInv, Close PROVE IInv'
  OBVIOUS
<1>1. PICK c \in {Memory(saving)} \cup (IF DiskMayFill THEN Cuts(saving) ELSE {}) :
        tmp' = [tmp EXCEPT ![saving] = c]
  BY DEF Close
<1>2. c \in {Memory(saving)} \cup Cuts(saving) /\ (~DiskMayFill => c = Memory(saving))
  BY <1>1
<1>3. c \in Contents(saving)
  BY <1>2, CutsAreContents, MemoryIsContents DEF IInv, TypeOK
<1> QED
  BY <1>1, <1>2, <1>3, TmpIInv DEF Close

LEMMA RemoveIInv == IInv /\ Remove => IInv'
<1> SUFFICES ASSUME IInv, Remove PROVE IInv'
  OBVIOUS
<1> USE DEF IInv
<1>1. outDir' = outDir /\ quality' = quality /\ playlists' = playlists
      /\ Memory(saving)' = Memory(saving) /\ Cuts(saving)' = Cuts(saving)
  BY SameMemory DEF Remove, memory, Memory, Cuts, CutsOfConfig, CutsOfPlaylists
<1>2. mode' = mode /\ tmp' = tmp /\ saving' = saving /\ step' = "rename" /\ step = "remove"
  BY DEF Remove
<1>3. DOMAIN disk' = File /\ \A f \in File : disk'[f] \in Contents(f) \cup {Absent}
  BY DEF Remove, TypeOK
<1>4. TypeOK'
  BY <1>1, <1>2, <1>3 DEF TypeOK
<1> QED
  BY <1>1, <1>2, <1>4 DEF Off, Written, OnlyWindowsRemoves

\* The end of a save, whatever became of it.
LEMMA ReturnIInv ==
  ASSUME IInv, Return,
         DOMAIN disk' = File, DOMAIN tmp' = File,
         \A f \in File : {disk'[f], tmp'[f]} \subseteq Contents(f) \cup {Absent}
  PROVE  IInv'
<1>1. outDir' = outDir /\ quality' = quality /\ playlists' = playlists
  BY DEF Return, memory
<1>2. mode' = "main" /\ saving' = saving /\ step' = "idle"
  BY DEF Return
<1>3. TypeOK'
  BY <1>1, <1>2 DEF IInv, TypeOK
<1> QED
  BY <1>2, <1>3 DEF IInv, Off, Written, OnlyWindowsRemoves

LEMMA FailsIInv == IInv /\ (OpenFails \/ RenameFails) => IInv'
BY ReturnIInv, SameFiles DEF OpenFails, RenameFails, IInv

LEMMA RenameIInv == IInv /\ Rename => IInv'
<1> SUFFICES ASSUME IInv, Rename PROVE IInv'
  OBVIOUS
<1>1. DOMAIN disk' = File /\ DOMAIN tmp' = File
  BY DEF Rename, IInv, TypeOK
<1>2. \A f \in File : {disk'[f], tmp'[f]} \subseteq Contents(f) \cup {Absent}
  BY DEF Rename, IInv, TypeOK
<1> QED
  BY <1>1, <1>2, ReturnIInv DEF Rename

LEMMA NextIInv == IInv /\ [Next]_vars => IInv'
<1> SUFFICES ASSUME IInv, [Next]_vars PROVE IInv'
  OBVIOUS
<1>1. CASE UNCHANGED vars
  <2>1. mode' = mode /\ outDir' = outDir /\ quality' = quality /\ playlists' = playlists
        /\ disk' = disk /\ tmp' = tmp /\ step' = step /\ saving' = saving
    BY <1>1 DEF vars
  <2> QED
    BY <2>1 DEF IInv, TypeOK, Off, Written, OnlyWindowsRemoves, Memory, Cuts,
               CutsOfConfig, CutsOfPlaylists
<1>2. CASE Next
  BY <1>2, StartIInv, StopIInv, ChooseDirIInv, SaveQualityIInv, AddPlaylistIInv,
     OpenTmpIInv, FlushIInv, CloseIInv, RemoveIInv, FailsIInv, RenameIInv
     DEF Next, Save
<1> QED
  BY <1>1, <1>2

\* IInv holds in every session on any system, with any failure.
THEOREM Invariance == Spec => []IInv
BY InitIInv, NextIInv, PTL DEF Spec

\* Types; in particular the quality in use is unset or one of the five, even
\* when it was read from a file cut anywhere.
THEOREM TypeCorrect == Spec => []TypeOK
<1>1. IInv => TypeOK
  BY DEF IInv
<1> QED
  BY Invariance, <1>1, PTL

-------------------------------------------------------------------------------
(* What a file may turn into.                                              *)

\* On any system, with any failure: a file only ever disappears or becomes what
\* the session saving it has in memory, at worst with its end missing.
THEOREM NoMixture == Spec => OnlyFromMemory
<1> DEFINE Prop == \A f \in File : disk'[f] # disk[f] =>
                      disk'[f] \in {Absent, Memory(f)} \cup Cuts(f)
<1>1. IInv /\ [Next]_vars => Prop
  <2> SUFFICES ASSUME IInv, [Next]_vars, NEW f \in File, disk'[f] # disk[f]
               PROVE  disk'[f] \in {Absent, Memory(f)} \cup Cuts(f)
    OBVIOUS
  <2>1. Remove \/ Rename
    BY DEF Next, Save, Start, Stop, ChooseDir, SaveQuality, AddPlaylist, BeginSave,
           OpenTmp, OpenFails, Flush, Close, RenameFails, vars
  <2>2. CASE Remove
    BY <2>2 DEF Remove, IInv, TypeOK
  <2>3. CASE Rename
    <3>1. f = saving /\ disk'[f] = tmp[saving]
      BY <2>3 DEF Rename, IInv, TypeOK
    <3> QED
      BY <2>3, <3>1 DEF Rename, IInv, Written
  <2> QED
    BY <2>1, <2>2, <2>3
<1> QED
  BY Invariance, <1>1, PTL DEF Spec, OnlyFromMemory, Prop

-------------------------------------------------------------------------------
(* Where no byte is lost and rename() replaces.                            *)

\* What is read depends on the file only.
LEMMA ReadSame == ASSUME disk' = disk, NEW f PROVE Read(f)' = Read(f)
BY DEF Read, Blank

\* A new session has in memory what is kept.
LEMMA StartKnows == ASSUME IInv, Start, NEW f \in File PROVE Memory(f)' = Read(f)
<1>1. Read("config") \in Contents("config")
  BY ReadIsContents DEF File, IInv
<1>2. PICK d, q : Read("config") = [dir |-> d, quality |-> q]
  BY <1>1 DEF Contents
<1>3. [dir |-> outDir', quality |-> quality'] = Read("config")
  BY <1>2 DEF Start
<1>4. playlists' = Read("playlists")
  BY LoadsAll DEF Start, IInv
<1> QED
  BY <1>3, <1>4 DEF Memory, File

\* A finished save keeps what is in memory, and concerns no other file.
LEMMA RenameKeeps ==
  ASSUME Faultless, IInv, Rename, NEW f \in File
  PROVE  Read(f)' = IF f = saving THEN Memory(f) ELSE Read(f)
<1>1. saving \in File /\ DOMAIN disk = File
  BY DEF IInv, TypeOK
<1>2. tmp[saving] = Memory(saving)
  BY DEF Faultless, IInv, Written, Rename
<1>3. tmp[saving] # Absent
  BY <1>1, <1>2, MemoryIsContents, Constants DEF IInv
<1>4. disk' = [disk EXCEPT ![saving] = tmp[saving]]
  BY DEF Rename
<1>5. CASE f = saving
  <2>1. disk'[f] = tmp[saving]
    BY <1>1, <1>4, <1>5
  <2>2. Read(f)' = disk'[f]
    BY <1>3, <2>1 DEF Read
  <2> QED
    BY <1>2, <1>5, <2>1, <2>2
<1>6. CASE f # saving
  <2>1. disk'[f] = disk[f]
    BY <1>1, <1>4, <1>6
  <2>2. Read(f)' = Read(f)
    BY <2>1 DEF Read, Blank
  <2> QED
    BY <1>6, <2>2
<1> QED
  BY <1>5, <1>6

\* Nothing but a finished save changes a file.
LEMMA OnlyRenames ==
  ASSUME Faultless, IInv, [Next]_vars
  PROVE  Rename \/ disk' = disk
BY DEF Faultless, IInv, OnlyWindowsRemoves, Next, Save, Start, Stop, ChooseDir,
       SaveQuality, AddPlaylist, BeginSave, OpenTmp, OpenFails, Flush, Close, Remove,
       RenameFails, vars

\* While nothing is lost, sessions only add to what they found.
LEMMA NextRemembers ==
  ASSUME Faultless, IInv, Remembered, [Next]_vars
  PROVE  Remembered'
<1>1. "config" \in File /\ "playlists" \in File
  BY DEF File
<1>2. CASE Start
  <2>1. Memory("config")' = Read("config") /\ Memory("playlists")' = Read("playlists")
    BY <1>1, <1>2, StartKnows
  <2>2. [dir |-> outDir', quality |-> quality'] = Read("config")
        /\ playlists' = Read("playlists")
    BY <2>1 DEF Memory
  <2>3. Read("config")' = Read("config") /\ Read("playlists")' = Read("playlists")
    BY <1>2, ReadSame DEF Start
  <2> QED
    BY <2>2, <2>3 DEF Remembered, URLs
<1>3. CASE Stop
  BY <1>3 DEF Stop, Remembered
<1>4. CASE Rename
  <2>1. mode # "off" /\ outDir' = outDir /\ quality' = quality /\ playlists' = playlists
    BY <1>4 DEF Rename, Return, memory, IInv, Off
  <2>2. Memory("config") = [dir |-> outDir, quality |-> quality]
        /\ Memory("playlists") = playlists
    BY DEF Memory
  <2>3. Read("config")' \in {Read("config"), [dir |-> outDir, quality |-> quality]}
        /\ Read("playlists")' \in {Read("playlists"), playlists}
    BY <1>1, <1>4, <2>2, RenameKeeps
  <2> QED
    BY <2>1, <2>3 DEF Remembered, URLs
<1>5. CASE mode # "off" /\ mode' # "off" /\ disk' = disk
  <2>1. Read("config")' = Read("config") /\ Read("playlists")' = Read("playlists")
    BY <1>5, ReadSame
  <2>2. ASSUME NEW d \in Dir, ChooseDir(d) PROVE Remembered'
    BY <1>5, <2>1, <2>2, Constants DEF ChooseDir, Remembered, URLs
  <2>3. ASSUME NEW q \in 0 .. QualityCount - 1, SaveQuality(q) PROVE Remembered'
    BY <1>5, <2>1, <2>3, Constants DEF SaveQuality, Remembered, URLs
  <2>4. ASSUME NEW u \in Url, AddPlaylist(u) PROVE Remembered'
    <3>1. playlists \in Seq(Url \cup {Cut})
      BY DEF IInv, TypeOK, Contents
    <3>2. URLs(playlists) \subseteq URLs(playlists')
      <4>1. playlists' = playlists \/ playlists' = Append(playlists, u)
        BY <2>4 DEF AddPlaylist
      <4> QED
        BY <3>1, <4>1 DEF URLs
    <3>3. URLs(playlists)' = URLs(playlists')
      BY DEF URLs
    <3>4. URLs(Read("playlists"))' = URLs(Read("playlists"))
      BY <2>1 DEF URLs
    <3> QED
      BY <1>5, <2>1, <2>4, <3>2, <3>3, <3>4 DEF AddPlaylist, Remembered
  <2>5. ASSUME UNCHANGED memory PROVE Remembered'
    BY <1>5, <2>1, <2>5 DEF memory, Remembered, URLs
  <2>6. UNCHANGED memory \/ (\E d \in Dir : ChooseDir(d))
        \/ (\E q \in 0 .. QualityCount - 1 : SaveQuality(q))
        \/ (\E u \in Url : AddPlaylist(u))
    BY <1>5 DEF Next, Save, Start, Stop, OpenTmp, OpenFails, Flush, Close, Remove,
                Rename, RenameFails, Return, vars, memory
  <2> QED
    BY <2>2, <2>3, <2>4, <2>5, <2>6
<1>6. CASE mode = "off" /\ mode' = "off"
  BY <1>6 DEF Remembered
<1>7. Start \/ Stop \/ Rename \/ (mode = "off" <=> mode' = "off")
  BY DEF IInv, Off, Next, Save, ChooseDir, SaveQuality, AddPlaylist, BeginSave, OpenTmp,
         OpenFails, Flush, Close, Remove, RenameFails, Return, vars
<1> QED
  BY <1>2, <1>3, <1>4, <1>5, <1>6, <1>7, OnlyRenames

\* Where no byte is lost and rename() replaces: a kept directory and quality are
\* never unset again, and the history never loses a playlist.
THEOREM NothingForgotten == Faultless => (Spec => SettingsSurvive)
<1> SUFFICES ASSUME Faultless PROVE Spec => SettingsSurvive
  OBVIOUS
<1> DEFINE Prop ==
      /\ Read("config").dir # NoDir => Read("config")'.dir # NoDir
      /\ Read("config").quality >= 0 => Read("config")'.quality >= 0
      /\ URLs(Read("playlists")) \subseteq URLs(Read("playlists")')
<1>1. Init => Remembered
  BY DEF Init, Remembered
<1>2. IInv /\ Remembered /\ [Next]_vars => Remembered'
  BY NextRemembers
<1>3. IInv /\ Remembered /\ [Next]_vars => Prop
  <2> SUFFICES ASSUME IInv, Remembered, [Next]_vars PROVE Prop
    OBVIOUS
  <2>1. CASE disk' = disk
    BY <2>1, ReadSame
  <2>2. CASE Rename
    <3>1. mode # "off" /\ "config" \in File /\ "playlists" \in File
      BY <2>2 DEF Rename, IInv, Off, File
    <3>2. Memory("config") = [dir |-> outDir, quality |-> quality]
          /\ Memory("playlists") = playlists
      BY DEF Memory
    <3>3. Read("config")' \in {Read("config"), [dir |-> outDir, quality |-> quality]}
          /\ Read("playlists")' \in {Read("playlists"), playlists}
      BY <2>2, <3>1, <3>2, RenameKeeps
    <3> QED
      BY <3>1, <3>3 DEF Remembered
  <2> QED
    BY <2>1, <2>2, OnlyRenames
<1> QED
  BY Invariance, <1>1, <1>2, <1>3, PTL DEF Spec, SettingsSurvive, Prop

-------------------------------------------------------------------------------
(* Refinement.                                                             *)

\* Every step is a step of the registers or invisible in them.
LEMMA RegisterStep ==
  ASSUME Faultless, IInv, [Next]_vars
  PROVE  [Register!Next]_(Register!vars)
<1> DEFINE kept == [f \in File |-> Read(f)]
           known == [f \in File |-> Memory(f)]
<1>1. CASE Start
  <2>1. kept' = kept
    BY <1>1, ReadSame DEF Start
  <2>2. known' = kept
    BY <1>1, StartKnows
  <2>3. mode = "off" /\ mode' # "off"
    BY <1>1 DEF Start
  <2>4. Register!Start
    BY <2>1, <2>2, <2>3 DEF Register!Start
  <2> QED
    BY <2>4 DEF Register!Next
<1>2. CASE Stop
  <2>1. kept' = kept
    BY <1>2, ReadSame DEF Stop
  <2>2. known' = [f \in File |-> Blank(f)]
    BY <1>2 DEF Stop, Memory, Blank
  <2>3. mode # "off" /\ mode' = "off"
    BY <1>2 DEF Stop
  <2>4. Register!Stop
    BY <2>1, <2>2, <2>3 DEF Register!Stop
  <2> QED
    BY <2>4 DEF Register!Next
<1>3. CASE Rename
  <2>1. saving \in File /\ mode # "off" /\ mode' # "off"
    BY <1>3 DEF Rename, Return, IInv, TypeOK, Off
  <2>2. kept' = [kept EXCEPT ![saving] = known[saving]]
    BY <1>3, <2>1, RenameKeeps
  <2>3. known' = known
    BY <1>3, SameMemory DEF Rename, Return
  <2>4. Register!Keep(saving)
    BY <2>1, <2>2, <2>3 DEF Register!Keep
  <2> QED
    BY <2>1, <2>4 DEF Register!Next
<1>4. ASSUME NEW f \in File, mode # "off", mode' # "off", disk' = disk,
             \A g \in File \ {f} : Memory(g)' = Memory(g)
      PROVE  Register!Change(f)
  <2>1. kept' = kept
    BY <1>4, ReadSame
  <2> QED
    BY <1>4, <2>1 DEF Register!Change
<1>5. ASSUME NEW d \in Dir, ChooseDir(d) PROVE Register!Change("config")
  BY <1>4, <1>5 DEF ChooseDir, BeginSave, Memory, File
<1>6. ASSUME NEW q \in 0 .. QualityCount - 1, SaveQuality(q) PROVE Register!Change("config")
  BY <1>4, <1>6 DEF SaveQuality, BeginSave, Memory, File
<1>7. ASSUME NEW u \in Url, AddPlaylist(u) PROVE Register!Change("playlists")
  BY <1>4, <1>7 DEF AddPlaylist, BeginSave, Memory, File
<1>8. ASSUME UNCHANGED memory, disk' = disk, mode # "off" <=> mode' # "off"
      PROVE  UNCHANGED Register!vars
  <2>1. kept' = kept
    BY <1>8, ReadSame
  <2>2. known' = known
    BY <1>8, SameMemory
  <2> QED
    BY <1>8, <2>1, <2>2 DEF Register!vars
<1>9. Start \/ Stop \/ Rename \/ (\E d \in Dir : ChooseDir(d))
      \/ (\E q \in 0 .. QualityCount - 1 : SaveQuality(q))
      \/ (\E u \in Url : AddPlaylist(u))
      \/ (UNCHANGED memory /\ (mode # "off" <=> mode' # "off"))
  BY DEF IInv, Off, Next, Save, OpenTmp, OpenFails, Flush, Close, Remove, RenameFails,
         Return, vars, memory
<1>10. "config" \in File /\ "playlists" \in File
  BY DEF File
<1> QED
  BY <1>1, <1>2, <1>3, <1>5, <1>6, <1>7, <1>8, <1>9, <1>10, OnlyRenames DEF Register!Next

\* Where no byte is lost and rename() replaces, the next session reads what an
\* earlier one had in memory, whole; a save that fails or is cut off changes
\* nothing.
THEOREM Refinement == Faultless => (Spec => ImplementsRegister)
<1> SUFFICES ASSUME Faultless PROVE Spec => ImplementsRegister
  OBVIOUS
<1>1. Init => Register!Init
  BY DEF Init, Register!Init, Read, Memory, Blank, File
<1>2. IInv /\ [Next]_vars => [Register!Next]_(Register!vars)
  BY RegisterStep
<1> QED
  BY Invariance, <1>1, <1>2, PTL DEF Spec, ImplementsRegister, Register!Spec

===============================================================================
