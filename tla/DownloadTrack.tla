---------------------------- MODULE DownloadTrack -----------------------------
(***************************************************************************)
(* download_track (download.c:604-739) by several pool workers in one      *)
(* directory: choose an output name, look the stream up, transfer it to    *)
(* NAME.sqtmp, sniff what came, rename it to a name of its type, tag it,   *)
(* and try again a few times when any of this fails.                       *)
(*                                                                         *)
(* Every system call that looks at or changes the directory is a step of   *)
(* its own, since another worker may come between.  A file is a sequence   *)
(* of parts; a worker that has a file open writes the next part at its own *)
(* position, wherever the file has been renamed to meanwhile, and into     *)
(* nothing once it has been removed.  Open files are therefore kept as the *)
(* path they are linked at.  Existence is only ever gained by names that   *)
(* are not temporary, so the loops that look for a free name are one step, *)
(* the test that ends them.                                                *)
(*                                                                         *)
(* There are two transfers.  That of curl tells every failure and removes  *)
(* its file; that of Windows looks at no status, read, write or close, and *)
(* returns the length that was announced, if one was.                      *)
(***************************************************************************)
EXTENDS Integers, Sequences

CONSTANTS
  Worker,        \* threads that run download_track: the pool's, or just one
  Track,         \* tracks of the batch
  Name,          \* sanitised texts "artist - title", as a file system compares them
  Media,         \* file types that are kept: flac, m4a, mp4, mp3, ogg
  Expected,      \* the type expected of the quality: quality_expected_ext
  NotMedia,      \* any type that is rejected: html, json, text, unknown
  None,          \* nothing: the owner of a hole, or of a file of an earlier run
  MaxCopies,     \* the last number tried for a name: 999
  Parts,         \* bound: into how many parts a transfer is cut
  TrackRetries,  \* SQUIDGET_TRACK_RETRIES
  Settings       \* bound: the names of the tracks, the system, and the paths that an
                 \* earlier run has left

\* " (2)" after the name, and perhaps another number put there by the rename.
Suffix == {<< >>} \cup {<<n>> : n \in 2 .. MaxCopies}
            \cup {<<n, m>> : n \in 2 .. MaxCopies, m \in 2 .. MaxCopies}
Path   == [name : Name, suffix : Suffix, ext : Media, tmp : BOOLEAN]

ASSUME DownloadTrackAssumption ==
  /\ Expected \in Media
  /\ NotMedia \notin Media
  /\ None \notin Track \cup Name
  /\ MaxCopies \in Nat \ {0, 1}
  /\ Parts \in Nat \ {0}
  /\ TrackRetries \in Nat
  /\ Settings \subseteq [nameOf : [Track -> Name], windows : BOOLEAN, old : SUBSET Path]

VARIABLES
  nameOf,    \* the name of each track
  windows,   \* the program is the one for Windows
  file,      \* the directory: what is in the file at each path
  link,      \* where the file that a worker writes is linked, if it still is
  pc,        \* where each worker is in download_track
  track,     \* its argument t
  fallback,  \* fallback_out, the path chosen first
  attempt,   \* attempt
  answer,    \* what the server sends this time
  pos,       \* parts written this time
  sniffed,   \* kind, as sniffed
  final,     \* final_path
  outcome,   \* history: what has become of each track
  saved,     \* history: the path a finished track was renamed to
  cut,       \* history: tracks some of whose bytes this attempt lost without a word
  met        \* history: names that two workers had in hand at once

given  == <<nameOf, windows>>
locals == <<track, fallback, attempt, answer, pos, sniffed, final>>
vars   == <<given, file, link, pc, locals, outcome, saved, cut, met>>

Kind    == Media \cup {NotMedia}
Cell(t, k) == [of |-> t, kind |-> k]
CellSet == [of : Track \cup {None}, kind : Kind]
Content == [1 .. Parts -> CellSet]

\* Bytes that are missing; they are not the beginning of a media file.
Hole   == Cell(None, NotMedia)
Empty  == [i \in 1 .. Parts |-> Hole]
Absent == << >>
Old(k) == [i \in 1 .. Parts |-> Cell(None, k)]
NoPath == [name |-> None, suffix |-> << >>, ext |-> Expected, tmp |-> FALSE]

Exists(p) == file[p] # Absent

\* snprintf "%s.sqtmp"
Tmp(p) == [p EXCEPT !.tmp = TRUE]
TmpOf(w) == Tmp(fallback[w])

Init ==
  /\ \E setting \in Settings :
       /\ nameOf = setting.nameOf /\ windows = setting.windows
       /\ file = [p \in Path |-> IF p \in setting.old THEN Old(p.ext) ELSE Absent]
  /\ link = [w \in Worker |-> {}]
  /\ pc = [w \in Worker |-> "idle"]
  /\ track = [w \in Worker |-> None]
  /\ fallback = [w \in Worker |-> NoPath]
  /\ attempt = [w \in Worker |-> 0]
  /\ answer = [w \in Worker |-> NotMedia]
  /\ pos = [w \in Worker |-> 0]
  /\ sniffed = [w \in Worker |-> NotMedia]
  /\ final = [w \in Worker |-> NoPath]
  /\ outcome = [t \in Track |-> "todo"]
  /\ saved = [t \in Track |-> NoPath]
  /\ cut = {} /\ met = {}

------------------------------------------------------------------------------
(* Names.                                                                  *)

Numbered(p, n) == IF n = 1 THEN p ELSE [p EXCEPT !.suffix = Append(@, n)]

\* Mutant: the number is not incremented until the name is free.
FirstFree_TakesFirst(p, n) == n = 1

\* n is the first number whose name is free; after the last one the loops of
\* build_out_path and path_with_ext_dedup end with its name, free or not.
FirstFree(p, n) ==
  /\ \A k \in 1 .. (n - 1) : Exists(Numbered(p, k))
  /\ n < MaxCopies => ~Exists(Numbered(p, n))

------------------------------------------------------------------------------
(* Files.                                                                  *)

\* Windows neither removes nor renames a file that is open.
Held(p, open) == windows /\ \E v \in Worker : p \in open[v]

\* remove(): a worker that has the file open goes on writing into nothing.
Remove(p, open) ==
  IF Held(p, open)
  THEN file' = file /\ link' = open
  ELSE /\ file' = [file EXCEPT ![p] = Absent]
       /\ link' = [v \in Worker |-> open[v] \ {p}]

\* rename(): nor does Windows put a file in the place of another.
Move(p, q) ==
  /\ ~Held(p, link) /\ (windows => ~Exists(q))
  /\ file' = [file EXCEPT ![p] = Absent, ![q] = file[p]]
  /\ link' = [v \in Worker |-> IF p \in link[v] THEN {q} ELSE link[v] \ {q}]

------------------------------------------------------------------------------
(* download_track up to the transfer.                                      *)

Goto(w, place) == pc' = [pc EXCEPT ![w] = place]

\* Neither ISRC nor title: there is nothing to look up.
NoMetadata(w, t) ==
  /\ pc[w] = "idle"
  /\ outcome[t] = "todo"
  /\ outcome' = [outcome EXCEPT ![t] = "failed"]
  /\ UNCHANGED <<file, link, pc, locals, saved, cut, met>>

\* The pool hands a track out once; build_out_path chooses its name.
BuildOutPath(w, t) ==
  /\ pc[w] = "idle"
  /\ outcome[t] = "todo"
  /\ \E n \in 1 .. MaxCopies :
       LET base == [name |-> nameOf[t], suffix |-> << >>, ext |-> Expected, tmp |-> FALSE]
       IN  /\ FirstFree(base, n)
           /\ fallback' = [fallback EXCEPT ![w] = Numbered(base, n)]
  /\ outcome' = [outcome EXCEPT ![t] = "busy"]
  /\ track' = [track EXCEPT ![w] = t]
  /\ attempt' = [attempt EXCEPT ![w] = 0]
  /\ met' = IF \E v \in Worker : pc[v] # "idle" /\ nameOf[track[v]] = nameOf[t]
            THEN met \cup {nameOf[t]} ELSE met
  /\ Goto(w, "lookup")
  /\ UNCHANGED <<file, link, answer, pos, sniffed, final, saved, cut>>

\* Mutant: one attempt too many.
RetryOrFail_OneMore(w) ==
  \/ /\ attempt[w] <= TrackRetries
     /\ attempt' = [attempt EXCEPT ![w] = @ + 1]
     /\ Goto(w, "lookup")
     /\ UNCHANGED outcome
  \/ /\ attempt[w] > TrackRetries
     /\ outcome' = [outcome EXCEPT ![track[w]] = "failed"]
     /\ Goto(w, "idle")
     /\ UNCHANGED attempt

\* Mutant: a failure is not counted.
RetryOrFail_NotCounted(w) == Goto(w, "lookup") /\ UNCHANGED <<attempt, outcome>>

\* After a failed look-up or transfer: the delay and the next turn, or -1.
RetryOrFail(w) ==
  \/ /\ attempt[w] < TrackRetries
     /\ attempt' = [attempt EXCEPT ![w] = @ + 1]
     /\ Goto(w, "lookup")
     /\ UNCHANGED outcome
  \/ /\ attempt[w] >= TrackRetries
     /\ outcome' = [outcome EXCEPT ![track[w]] = "failed"]
     /\ Goto(w, "idle")
     /\ UNCHANGED attempt

\* By ISRC, then by title: with a URL, or without.
LookUp(w) ==
  /\ pc[w] = "lookup"
  /\ \/ Goto(w, "open") /\ UNCHANGED <<attempt, outcome>>
     \/ RetryOrFail(w)
  /\ UNCHANGED <<file, link, track, fallback, answer, pos, sniffed, final, saved, cut, met>>

------------------------------------------------------------------------------
(* http_get_file_ex.                                                       *)

\* fopen "wb": an existing file is emptied, also under another writer.
Open(w) ==
  /\ pc[w] = "open"
  /\ file' = [file EXCEPT ![TmpOf(w)] = Empty]
  /\ link' = [link EXCEPT ![w] = {TmpOf(w)}]
  /\ \E k \in Kind : answer' = [answer EXCEPT ![w] = k]
  /\ pos' = [pos EXCEPT ![w] = 0]
  /\ cut' = cut \ {track[w]}
  /\ Goto(w, "transfer")
  /\ UNCHANGED <<track, fallback, attempt, sniffed, final, outcome, saved, met>>

\* No file, or no answer.  On Windows the file is opened after the answer came,
\* and the length that this announced is returned all the same.
OpenFails(w) ==
  /\ pc[w] = "open"
  /\ \/ Goto(w, "discard") /\ UNCHANGED cut
     \/ windows /\ Goto(w, "sniff") /\ cut' = cut \cup {track[w]}
  /\ UNCHANGED <<file, link, locals, outcome, saved, met>>

Write(w) ==
  /\ pc[w] = "transfer"
  /\ pos[w] < Parts
  /\ pos' = [pos EXCEPT ![w] = @ + 1]
  /\ file' = [p \in Path |->
                IF p \in link[w]
                THEN [file[p] EXCEPT ![pos[w] + 1] = Cell(track[w], answer[w])]
                ELSE file[p]]
  /\ UNCHANGED <<link, pc, track, fallback, attempt, answer, sniffed, final,
                 outcome, saved, cut, met>>

\* Windows: fwrite writes nothing, and is not looked at.
WriteLost(w) ==
  /\ windows
  /\ pc[w] = "transfer"
  /\ pos[w] < Parts
  /\ pos' = [pos EXCEPT ![w] = @ + 1]
  /\ cut' = cut \cup {track[w]}
  /\ UNCHANGED <<file, link, pc, track, fallback, attempt, answer, sniffed, final,
                 outcome, saved, met>>

Close(w) == link' = [link EXCEPT ![w] = {}]

TransferEnds(w) ==
  /\ pc[w] = "transfer"
  /\ pos[w] = Parts
  /\ Close(w)
  /\ Goto(w, "sniff")
  /\ UNCHANGED <<file, locals, outcome, saved, cut, met>>

\* The last bytes wait in the stdio buffer; fclose cannot write them, and its
\* result is not looked at.
LastBytesLost(w) ==
  /\ pc[w] = "transfer"
  /\ pos[w] = Parts - 1
  /\ Close(w)
  /\ cut' = cut \cup {track[w]}
  /\ Goto(w, "sniff")
  /\ UNCHANGED <<file, locals, outcome, saved, met>>

\* Windows: the connection breaks off, which looks like the end of the data.
TransferBreaks(w) ==
  /\ windows
  /\ pc[w] = "transfer"
  /\ pos[w] < Parts
  /\ Close(w)
  /\ cut' = cut \cup {track[w]}
  /\ Goto(w, "sniff")
  /\ UNCHANGED <<file, locals, outcome, saved, met>>

\* An answer of length 0 counts as failed and is left to the caller; so does on
\* Windows any answer that does not announce its length.
NoLength(w) ==
  /\ pc[w] = "transfer"
  /\ pos[w] = 0 \/ windows
  /\ Close(w)
  /\ Goto(w, "discard")
  /\ UNCHANGED <<file, locals, outcome, saved, cut, met>>

\* Mutant: the result of the transfer is not looked at.
TransferFails_Unnoticed(w) ==
  /\ pc[w] = "transfer"
  /\ Close(w)
  /\ Goto(w, "sniff")
  /\ UNCHANGED <<file, locals, outcome, saved, cut, met>>

\* An error of curl or of HTTP: http_get_file_ex removes the file, and the
\* caller will remove it again.
TransferFails(w) ==
  /\ ~windows
  /\ pc[w] = "transfer"
  /\ Remove(TmpOf(w), [link EXCEPT ![w] = {}])
  /\ Goto(w, "discard")
  /\ UNCHANGED <<locals, outcome, saved, cut, met>>

------------------------------------------------------------------------------
(* download_single_url after the transfer.                                 *)

\* Mutant: what was sniffed is not looked at.
Sniff_AcceptsAll(w) ==
  /\ pc[w] = "sniff"
  /\ Exists(TmpOf(w))
  /\ sniffed' = [sniffed EXCEPT ![w] =
                   IF file[TmpOf(w)][1].kind \in Media THEN file[TmpOf(w)][1].kind ELSE Expected]
  /\ Goto(w, "name")
  /\ UNCHANGED <<file, link, track, fallback, attempt, answer, pos, final,
                 outcome, saved, cut, met>>

\* Opens the path again, whatever is there by now.
Sniff(w) ==
  /\ pc[w] = "sniff"
  /\ Exists(TmpOf(w))
  /\ file[TmpOf(w)][1].kind \in Media
  /\ sniffed' = [sniffed EXCEPT ![w] = file[TmpOf(w)][1].kind]
  /\ Goto(w, "name")
  /\ UNCHANGED <<file, link, track, fallback, attempt, answer, pos, final,
                 outcome, saved, cut, met>>

\* No file, no media, or media sent with a textual content type.
Reject(w) ==
  /\ pc[w] = "sniff"
  /\ Goto(w, "discard")
  /\ UNCHANGED <<file, link, locals, outcome, saved, cut, met>>

\* path_with_ext_dedup
ChooseFinal(w) ==
  /\ pc[w] = "name"
  /\ \E n \in 1 .. MaxCopies :
       LET base == [fallback[w] EXCEPT !.ext = sniffed[w]]
       IN  /\ FirstFree(base, n)
           /\ final' = [final EXCEPT ![w] = Numbered(base, n)]
  /\ Goto(w, "rename")
  /\ UNCHANGED <<file, link, track, fallback, attempt, answer, pos, sniffed,
                 outcome, saved, cut, met>>

Rename(w) ==
  /\ pc[w] = "rename"
  /\ Exists(TmpOf(w))
  /\ Move(TmpOf(w), final[w])
  /\ saved' = [saved EXCEPT ![track[w]] = final[w]]
  /\ Goto(w, "tag")
  /\ UNCHANGED <<locals, outcome, cut, met>>

RenameFails(w) ==
  /\ pc[w] = "rename"
  /\ Goto(w, "discard")
  /\ UNCHANGED <<file, link, locals, outcome, saved, cut, met>>

\* Mutant: the temporary file of a rejected answer stays.
Discard_KeepsFile(w) ==
  /\ pc[w] = "discard"
  /\ RetryOrFail(w)
  /\ UNCHANGED <<file, link, track, fallback, answer, pos, sniffed, final, saved, cut, met>>

\* Every failure ends with remove(tmp_path), and the URL is forgotten.
Discard(w) ==
  /\ pc[w] = "discard"
  /\ Remove(TmpOf(w), link)
  /\ RetryOrFail(w)
  /\ UNCHANGED <<track, fallback, answer, pos, sniffed, final, saved, cut, met>>

\* Tagging replaces the file by one with the same audio, or leaves it; either
\* way download_track returns 0.
Tag(w) ==
  /\ pc[w] = "tag"
  /\ outcome' = [outcome EXCEPT ![track[w]] = "done"]
  /\ Goto(w, "idle")
  /\ UNCHANGED <<file, link, locals, saved, cut, met>>

------------------------------------------------------------------------------
Step(w) ==
  \/ \E t \in Track : NoMetadata(w, t) \/ BuildOutPath(w, t)
  \/ LookUp(w)
  \/ Open(w) \/ OpenFails(w)
  \/ Write(w) \/ WriteLost(w) \/ TransferEnds(w) \/ LastBytesLost(w)
  \/ TransferBreaks(w) \/ NoLength(w) \/ TransferFails(w)
  \/ Sniff(w) \/ Reject(w)
  \/ ChooseFinal(w) \/ Rename(w) \/ RenameFails(w)
  \/ Discard(w) \/ Tag(w)

Ended == \A t \in Track : outcome[t] \in {"done", "failed"}

Next == \/ UNCHANGED given /\ \E w \in Worker : Step(w)
        \/ Ended /\ UNCHANGED vars

Spec == Init /\ [][Next]_vars

\* Threads are scheduled, and a request ends (CURLOPT_TIMEOUT, 300 s).
Fairness == \A w \in Worker : WF_vars(UNCHANGED given /\ Step(w))

FairSpec == Spec /\ Fairness

------------------------------------------------------------------------------
(* Properties.                                                             *)

PlaceOf  == {"idle", "lookup", "open", "transfer", "sniff", "name", "rename", "discard", "tag"}
Outcomes == {"todo", "busy", "done", "failed"}

\* Every variable has its type; a number given to a name stays within bounds.
TypeOK ==
  /\ nameOf \in [Track -> Name] /\ windows \in BOOLEAN /\ met \in SUBSET Name
  /\ file \in [Path -> Content \cup {Absent}]
  /\ link \in [Worker -> SUBSET Path]
  /\ pc \in [Worker -> PlaceOf]
  /\ track \in [Worker -> Track \cup {None}]
  /\ fallback \in [Worker -> Path \cup {NoPath}]
  /\ attempt \in [Worker -> 0 .. TrackRetries]
  /\ answer \in [Worker -> Kind]
  /\ pos \in [Worker -> 0 .. Parts]
  /\ sniffed \in [Worker -> Kind]
  /\ final \in [Worker -> Path \cup {NoPath}]
  /\ outcome \in [Track -> Outcomes]
  /\ saved \in [Track -> Path \cup {NoPath}]
  /\ cut \in SUBSET Track

\* All of t, but for what was lost of it: its last bytes, or any on Windows.
IsWhole(c, t, k) ==
  \A i \in 1 .. Parts :
    c[i] = Cell(t, k) \/ (t \in cut /\ c[i].of = None /\ (i = Parts \/ windows))

\* A track reported as downloaded is a file with that track and nothing else,
\* in one piece, under the extension of what it is (download.c:456-525), from
\* the rename on and for ever after.  What may be missing is what fclose did not
\* write or, on Windows, what any part of the transfer lost (api.c:617-668).  The
\* exceptions: two workers had its name in hand at once, so that they share the
\* answer of build_out_path, the temporary file and all that follows; or another
\* track was renamed to its path, all the numbers for the name being taken.
SavedIsWhole ==
  \A t \in Track : outcome[t] = "done" /\ nameOf[t] \notin met =>
    \/ IsWhole(file[saved[t]], t, saved[t].ext)
    \/ \E u \in Track \ {t} : saved[u] = saved[t]

\* No error page is kept as a song: whatever stands under a final name begins
\* as a media file of the type its extension says (README.md:204), unless two
\* workers had the name in hand at once.
NamesTellTypes ==
  \A p \in Path : Exists(p) /\ ~p.tmp /\ p.name \notin met => file[p][1].kind = p.ext

\* Every file is accounted for: a temporary one belongs to a worker that will
\* rename or remove it, a final one to a track that was saved; the others were
\* there before, and a failed track leaves nothing, unless two workers had the
\* name in hand at once.
NothingLeftBehind ==
  \A p \in Path : Exists(p) /\ p.name \notin met =>
    \/ file[p] = Old(p.ext)
    \/ p.tmp /\ \E w \in Worker : pc[w] \in PlaceOf \ {"idle", "tag"} /\ TmpOf(w) = p
    \/ ~p.tmp /\ \E t \in Track : outcome[t] \in {"busy", "done"} /\ saved[t] = p

\* The names that the two loops give when all their numbers are taken.
LastName(p) == \E i \in DOMAIN p.suffix : p.suffix[i] = MaxCopies

\* No download touches a file that has its final name, of this run or of an
\* earlier one (download.c:407-415, 543-555), while there are numbers left.  The
\* name is looked for and taken in two steps: another worker takes it in between
\* only when the two have the same name in hand at once.
NothingOverwritten ==
  [][\A p \in Path :
       Exists(p) /\ ~p.tmp /\ ~LastName(p) /\ p.name \notin met => file'[p] = file[p]]_vars

\* The retries are counted: every track of the batch is downloaded or given up.
EveryTrackEnds == <>Ended
==============================================================================
