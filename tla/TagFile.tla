------------------------------- MODULE TagFile --------------------------------
(***************************************************************************)
(* The end of a download: tag_and_clean fetches the cover through a cache  *)
(* of files shared by all songs of an album, and sqt_tag writes the song   *)
(* anew beside itself (NAME.sqttmp) and puts the new file in its place.    *)
(* Several songs are at it at once, any step may fail, and the program may *)
(* be killed and started again.                                            *)
(*                                                                         *)
(* The files are those of SongFormat.  The songs of an album come in one    *)
(* form and have one cover, the case the cache is for; it is fetched in    *)
(* Chunks pieces.                                                          *)
(***************************************************************************)
EXTENDS SongFormat, FiniteSets

CONSTANTS
  Song,      \* the songs that were downloaded
  None,      \* no file, no open file
  Chunks,    \* the pieces of the cover
  Parallel   \* how many songs are worked on at a time: 1, or the pool's workers

TagFileAssumption ==
  /\ None \notin Song
  /\ \A f \in ServiceFiles : f # None /\ \A c \in SUBSET Chunk : Tagged(f, c) # None
  /\ Chunks \in Nat \ {0} /\ Chunk = 1 .. Chunks
  /\ Parallel \in Nat \ {0}

ASSUME TagFileAssumption

VARIABLES
  windows, \* the system the program was built for
  came,    \* the songs as they were downloaded
  song,    \* the songs now
  side,    \* their NAME.sqttmp
  coverAt, \* the file that has the cover's name in the cache; a file is named
           \* after the song that made it
  piece,   \* the pieces of the cover in each such file
  pc,      \* where the work on a song is
  fd,      \* the cover file it is writing to
  got,     \* how many pieces it has written
  hasPath, \* it has the name of a cover file (cover_tmp is set)
  pic,     \* the picture it read
  lost,    \* history: its last bytes were lost when NAME.sqttmp was closed
  spoilt   \* history: a transfer of the cover went wrong and nobody noticed

cover == <<coverAt, piece, fd, got, hasPath>>
vars == <<windows, came, song, side, cover, pc, pic, lost, spoilt>>

Ended  == {"tagged", "failed", "unnamed", "killed"}
Active == {s \in Song : pc[s] \notin Ended \cup {"waiting"}}

Init ==
  /\ windows \in BOOLEAN
  /\ \E f \in ServiceFiles : came = [s \in Song |-> f]
  /\ song = came
  /\ side = [s \in Song |-> None]
  /\ coverAt = None
  /\ piece = [s \in Song |-> {}]
  /\ pc = [s \in Song |-> "waiting"]
  /\ fd = [s \in Song |-> None]
  /\ got = [s \in Song |-> 0]
  /\ hasPath = [s \in Song |-> FALSE]
  /\ pic = [s \in Song |-> NoCover]
  /\ lost = [s \in Song |-> FALSE]
  /\ spoilt = FALSE

Goto(s, l) == pc' = [pc EXCEPT ![s] = l]

-------------------------------------------------------------------------------
(* The cover: fetch_cover_cached, http_get_file_ex.                        *)

files == <<windows, came, song, side, pic, lost>>

\* The cover is no longer this song's business.
HasCover(s, is) ==
  /\ hasPath' = [hasPath EXCEPT ![s] = is]
  /\ fd' = [fd EXCEPT ![s] = None]
  /\ got' = [got EXCEPT ![s] = 0]
  /\ Goto(s, "read")

\* tag_and_clean; a song may have no cover.
Start(s) ==
  /\ pc[s] = "waiting"
  /\ Cardinality(Active) < Parallel
  /\ \E l \in {"check", "read"} : Goto(s, l)
  /\ UNCHANGED <<files, cover, spoilt>>

\* dl_file_size(out_path) > 0
InCache == coverAt # None /\ piece[coverAt] # {}

CheckHit(s) ==
  /\ pc[s] = "check"
  /\ InCache
  /\ HasCover(s, TRUE)
  /\ UNCHANGED <<files, coverAt, piece, spoilt>>

CheckMiss(s) ==
  /\ pc[s] = "check"
  /\ ~InCache
  /\ Goto(s, "open")
  /\ UNCHANGED <<files, cover, spoilt>>

\* fopen(path, "wb") empties the file that is there, whoever writes to it.
Open(s) ==
  /\ pc[s] = "open"
  /\ LET file == IF coverAt = None THEN s ELSE coverAt
     IN  /\ coverAt' = file
         /\ piece' = [piece EXCEPT ![file] = {}]
         /\ fd' = [fd EXCEPT ![s] = file]
  /\ Goto(s, "fetch")
  /\ UNCHANGED <<files, got, hasPath, spoilt>>

\* The WinHTTP variant returns the announced length even then.
OpenFails(s) ==
  /\ pc[s] = "open"
  /\ \E is \in BOOLEAN : (is => windows) /\ HasCover(s, is)
  /\ UNCHANGED <<files, coverAt, piece, spoilt>>

\* Each writer has a position of its own in the file.
Fetch(s) ==
  /\ pc[s] = "fetch"
  /\ got[s] < Chunks
  /\ got' = [got EXCEPT ![s] = @ + 1]
  /\ piece' = [piece EXCEPT ![fd[s]] = @ \cup {got[s] + 1}]
  /\ UNCHANGED <<files, coverAt, fd, hasPath, pc, spoilt>>

\* Everything came; fclose is not checked, and the last piece may be lost.  The
\* WinHTTP variant fails if the length was not announced.
FetchEnds(s) ==
  /\ pc[s] = "fetch"
  /\ got[s] = Chunks
  /\ \/ UNCHANGED <<piece, spoilt>>
     \/ piece' = [piece EXCEPT ![fd[s]] = @ \ {Chunks}] /\ spoilt' = TRUE
  /\ \E is \in BOOLEAN : (windows \/ is) /\ HasCover(s, is)
  /\ UNCHANGED <<files, coverAt>>

\* An empty answer is no cover; the emptied file stays.
FetchedNothing(s) ==
  /\ pc[s] = "fetch"
  /\ got[s] = 0
  /\ spoilt' = TRUE
  /\ HasCover(s, FALSE)
  /\ UNCHANGED <<files, coverAt, piece>>

\* Mutant: the part that came stays in the cache.
CoverAfterFailure_Kept == coverAt

\* remove(path) takes the name away from whatever file has it.
CoverAfterFailure == IF windows THEN coverAt ELSE None

\* The transfer breaks off or is answered with an error.  The WinHTTP variant
\* leaves the file, and reports success if the length was announced.
FetchFails(s) ==
  /\ pc[s] = "fetch"
  /\ coverAt' = CoverAfterFailure
  /\ spoilt' = (spoilt \/ windows)
  /\ \E is \in BOOLEAN : (is => windows) /\ HasCover(s, is)
  /\ UNCHANGED <<files, piece>>

-------------------------------------------------------------------------------
(* The song: sqt_tag, flac_tag, m4a_tag.                                   *)

\* The song and the picture are read; a picture that is not there or empty is
\* left out.
Read(s) ==
  /\ pc[s] = "read"
  /\ pic' = [pic EXCEPT ![s] =
       IF hasPath[s] /\ coverAt # None THEN piece[coverAt] ELSE NoCover]
  /\ Goto(s, "open side")
  /\ UNCHANGED <<windows, came, song, side, cover, lost, spoilt>>

\* The song cannot be opened or read, or NAME.sqttmp cannot be opened.
GiveUp(s) ==
  /\ pc[s] \in {"read", "open side"}
  /\ Goto(s, "failed")
  /\ UNCHANGED <<files, cover, spoilt>>

OpenSide(s) ==
  /\ pc[s] = "open side"
  /\ side' = [side EXCEPT ![s] = <<>>]
  /\ Goto(s, "write")
  /\ UNCHANGED <<windows, came, song, cover, pic, lost, spoilt>>

\* The new head, and the audio streamed from the song.
Write(s) ==
  /\ pc[s] = "write"
  /\ side' = [side EXCEPT ![s] = Tagged(song[s], pic[s])]
  /\ Goto(s, "close")
  /\ UNCHANGED <<windows, came, song, cover, pic, lost, spoilt>>

\* Mutant: the part that was written stays.
AfterShortWrite_Stays(s) ==
  /\ Goto(s, "failed")
  /\ UNCHANGED side

\* Mutant: a failed write is not noticed.
AfterShortWrite_Goes(s) ==
  /\ Goto(s, IF windows THEN "remove" ELSE "rename")
  /\ UNCHANGED side

\* remove(tmp); return -1
AfterShortWrite(s) ==
  /\ Goto(s, "failed")
  /\ side' = [side EXCEPT ![s] = None]

WriteFails(s) ==
  /\ pc[s] = "write"
  /\ AfterShortWrite(s)
  /\ UNCHANGED <<windows, came, song, cover, pic, lost, spoilt>>

\* The result of fclose is not looked at: the end of the file may be lost.
Close(s) ==
  /\ pc[s] = "close"
  /\ \E cut \in BOOLEAN :
       /\ side' = [side EXCEPT ![s] = IF cut THEN Front(@) ELSE @]
       /\ lost' = [lost EXCEPT ![s] = cut]
  /\ Goto(s, IF windows THEN "remove" ELSE "rename")
  /\ UNCHANGED <<windows, came, song, cover, pic, spoilt>>

\* Windows only, where rename does not replace; a file in use stays.
RemoveSong(s) ==
  /\ pc[s] = "remove"
  /\ song' \in {song, [song EXCEPT ![s] = None]}
  /\ Goto(s, "rename")
  /\ UNCHANGED <<windows, came, side, cover, pic, lost, spoilt>>

Rename(s) ==
  /\ pc[s] = "rename"
  /\ windows => song[s] = None
  /\ song' = [song EXCEPT ![s] = side[s]]
  /\ side' = [side EXCEPT ![s] = None]
  /\ Goto(s, "tagged")
  /\ UNCHANGED <<windows, came, cover, pic, lost, spoilt>>

RenameFails(s) ==
  /\ pc[s] = "rename"
  /\ Goto(s, "unnamed")
  /\ UNCHANGED <<files, cover, spoilt>>

-------------------------------------------------------------------------------

\* The program is killed; songs that still wait belong to a later run of it.
Kill ==
  /\ Active # {}
  /\ spoilt' = (spoilt \/ \E s \in Song : pc[s] = "fetch")
  /\ pc' = [s \in Song |-> IF s \in Active THEN "killed" ELSE pc[s]]
  /\ fd' = [s \in Song |-> None]
  /\ got' = [s \in Song |-> 0]
  /\ UNCHANGED <<files, coverAt, piece, hasPath>>

Cover(s) == \/ Start(s) \/ CheckHit(s) \/ CheckMiss(s) \/ Open(s) \/ OpenFails(s)
            \/ Fetch(s) \/ FetchEnds(s) \/ FetchedNothing(s) \/ FetchFails(s)
Tag(s) == \/ Read(s) \/ GiveUp(s) \/ OpenSide(s) \/ Write(s) \/ WriteFails(s)
          \/ Close(s) \/ RemoveSong(s) \/ Rename(s) \/ RenameFails(s)

Next == Kill \/ \E s \in Song : Cover(s) \/ Tag(s)

Spec == Init /\ [][Next]_vars

-------------------------------------------------------------------------------
(* Properties *)

\* A song is absent only on Windows; a cover file is being written exactly while
\* its cover is fetched.
TypeOK ==
  /\ windows \in BOOLEAN
  /\ came \in [Song -> ServiceFiles]
  /\ pc \in [Song -> Ended \cup {"waiting", "check", "open", "fetch", "read", "open side",
                               "write", "close", "remove", "rename"}]
  /\ coverAt \in Song \cup {None}
  /\ piece \in [Song -> SUBSET Chunk]
  /\ fd \in [Song -> Song \cup {None}]
  /\ \A s \in Song : fd[s] # None <=> pc[s] = "fetch"
  /\ got \in [Song -> 0 .. Chunks]
  /\ hasPath \in [Song -> BOOLEAN]
  /\ pic \in [Song -> SUBSET Chunk]
  /\ lost \in [Song -> BOOLEAN]
  /\ spoilt \in BOOLEAN
  /\ DOMAIN song = Song /\ DOMAIN side = Song

IsSong(f) == f \notin {None, <<>>} /\ Plays(f)

\* The part of SongPlays that is about the formats alone: every file of a service
\* can be played, and so can what the tagger makes of it, with whatever part of a
\* cover.
KeepsPlaying ==
  \A f \in ServiceFiles : IsSong(f) /\ \A c \in SUBSET Chunk : IsSong(Tagged(f, c))

\* Where rename() replaces and no byte is lost when a file is closed, there is
\* never a moment, not even when the program is killed, at which a song cannot
\* be played: the positions in it and its "last" flags are right before and
\* after.
SongPlays == \A s \in Song : ~windows /\ ~lost[s] => IsSong(song[s])

\* A song that was tagged has the new tags and no others, except for an M4A
\* whose audio comes first (see README).
TagsTaken ==
  \A s \in Song :
    pc[s] = "tagged" /\ ~lost[s] =>
      IF IsFlac(song[s]) THEN FlacTags(song[s]) = {New}
      ELSE came[s][2].t = "moov" => M4aTags(song[s]) = <<New>>

\* Where rename() replaces, a tagging that fails leaves the song as it came, and
\* no NAME.sqttmp either, unless the very last step failed.
FailureLeavesNothing ==
  ~windows => \A s \in Song :
    /\ pc[s] \in {"failed", "unnamed"} => song[s] = came[s]
    /\ pc[s] = "failed" => side[s] = None

\* The cover a song gets is whole, unless somebody is just writing it into the
\* same file, or it was left there cut by a transfer that went wrong unnoticed.
CoverWhole ==
  [][\A s \in Song : pic'[s] # pic[s] =>
       pic'[s] = Chunk \/ spoilt \/ \E o \in Song : fd[o] # None /\ fd[o] = coverAt]_vars

\* "On any error the original file is left untouched (writes go to a .sqttmp
\* sidecar, then atomically renamed over the target only on success)" (tag.h:4).
UntouchedOnError ==
  \A s \in Song : pc[s] \in {"failed", "unnamed"} => song[s] = came[s]
===============================================================================
