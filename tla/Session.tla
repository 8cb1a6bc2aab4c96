------------------------------- MODULE Session --------------------------------
(***************************************************************************)
(* The interactive session: the key handlers of main, the start_*          *)
(* functions they call, and the results the background worker delivers     *)
(* into the same AppState (main.c:373-575, 664-757, 833-1282).             *)
(*                                                                         *)
(* A handler runs under s->lock and is one action.  The handlers that start*)
(* work unlock first: what they read or write after that, with the lock not*)
(* held, is in `op' and may meet the worker.  The worker's delivery holds  *)
(* the lock from Deliver to Publish; an unlocked access between the two is *)
(* a data race, and gets the old value, the new one or a torn one.         *)
(*                                                                         *)
(* Tasks are the ones of the TaskExecutor module, which TaskQueue is shown *)
(* to implement: first in, first out, one at a time.  Typing keeps only    *)
(* which playlist URL the query is, if any; the texts of the status line,  *)
(* the scroll offset and the picked quality are left out.                  *)
(***************************************************************************)
EXTENDS Integers, Sequences

CONSTANTS
  Url,          \* playlist URLs, and other texts a query may hold
  NoUrl,        \* the empty string
  Torn,         \* what a racing read of a result or of a URL may return
  MaxResults,   \* SQT_MAX_RESULTS
  MaxPlaylists, \* SQT_MAX_PLAYLISTS
  Capacity,     \* SQT_MAX_QUEUE
  Page,         \* rows of the list: s.rows less the header and the footer
  MaxTasks      \* bound: tasks pushed in one session

ASSUME SessionAssumption ==
  /\ NoUrl \notin Url /\ Torn \notin Url /\ Torn # NoUrl
  /\ (Url \cup {NoUrl, Torn}) \cap Int = {}
  /\ MaxResults \in Nat \ {0}
  /\ MaxPlaylists \in 1 .. MaxResults
  /\ Capacity \in Nat \ {0}
  /\ Page \in Int
  /\ MaxTasks \in Nat

\* Windows of six rows and more.  In smaller ones PgUp and PgDn take the cursor
\* out of the list (main.c:962, 973), and the next Enter reads what is before or
\* behind the array: what follows then is not modelled, and the theorems about
\* the session have this as their hypothesis.
RoomForARow == Page >= 1

VARIABLES
  mode,         \* s->mode
  prevMode,     \* s->prev_mode
  searchType,   \* s->search_type
  query,        \* s->query
  tracks,       \* s->tracks: for each slot the number of the task it came from
  trackCount,   \* s->track_count
  albums,       \* s->albums, in the same way
  albumCount,   \* s->album_count
  playlists,    \* s->playlists[0 .. playlist_count - 1], their urls
  currentUrl,   \* s->current_playlist_url
  currentIndex, \* s->current_playlist_index
  action,       \* s->album_action_cursor
  cursor,       \* s->cursor
  hasDefault,   \* s->default_quality >= 0
  op,           \* what the UI thread has still to do with the lock released
  pending,      \* tasks in the queue
  active,       \* the task the worker executes
  arriving,     \* results it holds under s->lock, not yet in place
  pushed,       \* history: tasks pushed
  chosen,       \* history: what the user had on the screen when confirming
  tracksOf,     \* history: the playlist whose tracks are in s->tracks, if any
  overtaken     \* history: results were delivered while op was unfinished

lists    == <<tracks, trackCount, albums, albumCount>>
playlist == <<playlists, currentUrl, currentIndex>>
worker   == <<pending, active, arriving>>
history  == <<pushed, chosen, tracksOf, overtaken>>

vars == <<mode, prevMode, searchType, query, lists, playlist, action, cursor,
          hasDefault, op, worker, history>>

Mode == {"SETUP", "SEARCH", "RESULTS", "QUALITY", "ALBUM_ACTION", "ALBUM_TRACKS",
         "PLAYLIST_TRACKS", "HELP"}
SearchType == {"SONGS", "ALBUMS", "PLAYLISTS"}
TaskKind   == {"SEARCH", "DOWNLOAD", "ALBUM_SEARCH", "ALBUM_TRACKS", "ALBUM_DOWNLOAD",
               "PLAYLIST_FETCH", "PLAYLIST_DOWNLOAD"}
Slot       == 0 .. (MaxResults - 1)

\* A result is known by the task that fetched it and its place in the list; a
\* playlist by its url.  A query needs no name.
Item(from, at) == [from |-> from, at |-> at]
NoItem         == Item(0, 0)
Task(kind, id, item) == [kind |-> kind, id |-> id, item |-> item]
NoTask         == Task("none", 0, NoItem)

Source  == Nat \cup Url \cup {NoUrl, Torn}
ItemSet == [from : Source, at : Nat]
TaskSet == [kind : TaskKind, id : Nat, item : ItemSet]

\* Continuations of the UI thread; "writes" are the picker's pending stores.
Op(do, item, writes) == [do |-> do, item |-> item, writes |-> writes]
Idle == Op("idle", NoItem, {})

\* Operations that touch what a delivery writes.
Exposed == {"askDownload", "openPicker", "askAlbum", "askBrowse", "askCurrent", "showTracks"}
OpName  == {"idle", "askSearch", "askAlbums", "askPlaylist"} \cup Exposed \cup TaskKind

\* The lock is held by the worker, which has this many results.
None == -1
Held == arriving # None

Init ==
  /\ mode \in {"SETUP", "SEARCH"} /\ prevMode = "SEARCH"
  /\ searchType = "SONGS"
  /\ query = NoUrl
  /\ tracks = [i \in Slot |-> 0] /\ trackCount = 0
  /\ albums = [i \in Slot |-> 0] /\ albumCount = 0
  /\ playlists \in {<< >>} \cup {<<u>> : u \in Url}
  /\ currentUrl = NoUrl /\ currentIndex = 0
  /\ action = 0 /\ cursor = 0
  /\ hasDefault \in BOOLEAN
  /\ op = Idle
  /\ pending = << >> /\ active = NoTask /\ arriving = None
  /\ pushed = 0 /\ chosen = NoItem /\ tracksOf = NoUrl /\ overtaken = FALSE

------------------------------------------------------------------------------
(* The key handlers: each is one section under s->lock.                    *)

Key(modes) == mode \in modes /\ op = Idle /\ ~Held

\* A key that may end in a new task.
Submit(modes) == Key(modes) /\ pushed < MaxTasks

\* The list that MODE_RESULTS shows.
ListLength == CASE searchType = "SONGS"     -> trackCount
                [] searchType = "ALBUMS"    -> albumCount
                [] searchType = "PLAYLISTS" -> Len(playlists)

\* Mutant: Down goes one row too far.
UpDown_OnePast(len) == {c \in {cursor - 1, cursor + 1} : c >= 0 /\ (c <= len \/ c < cursor)}

\* Where Up, Down, Home and PgUp, and then End and PgDn, take the cursor.
UpDown(len) == {c \in {cursor - 1, cursor + 1} : c >= 0 /\ (c < len \/ c < cursor)}

Jumps(len)  ==
  {0, IF cursor > Page THEN cursor - Page ELSE 0}
    \cup IF len > 0
         THEN {len - 1, IF cursor + Page < len THEN cursor + Page ELSE len - 1}
         ELSE {}

Navigate ==
  /\ \/ Key({"RESULTS"}) /\ cursor' \in UpDown(ListLength) \cup Jumps(ListLength)
     \/ Key({"ALBUM_TRACKS"}) /\ cursor' \in UpDown(trackCount) \cup Jumps(trackCount)
     \/ Key({"PLAYLIST_TRACKS"}) /\ cursor' \in UpDown(trackCount)
  /\ UNCHANGED <<mode, prevMode, searchType, query, lists, playlist, action,
                 hasDefault, op, worker, history>>

\* A printable character makes some text of the query and leaves the results,
\* Backspace leaves any text or none, Ctrl+U clears query and results.
TypeChar ==
  /\ Key({"SEARCH", "RESULTS"})
  /\ query' \in Url
  /\ mode' = "SEARCH"
  /\ UNCHANGED <<prevMode, searchType, lists, playlist, action, cursor,
                 hasDefault, op, worker, history>>

Backspace ==
  /\ Key({"SEARCH", "RESULTS"})
  /\ query # NoUrl
  /\ query' \in Url \cup {NoUrl}
  /\ UNCHANGED <<mode, prevMode, searchType, lists, playlist, action, cursor,
                 hasDefault, op, worker, history>>

ClearQuery ==
  /\ Key({"SEARCH", "RESULTS"})
  /\ query' = NoUrl
  /\ mode' = "SEARCH"
  /\ trackCount' = 0 /\ albumCount' = 0
  /\ cursor' = 0
  /\ UNCHANGED <<prevMode, searchType, tracks, albums, playlist, action,
                 hasDefault, op, worker, history>>

NextType(type) == CASE type = "SONGS"     -> "ALBUMS"
                    [] type = "ALBUMS"    -> "PLAYLISTS"
                    [] type = "PLAYLISTS" -> "SONGS"

Tab ==
  /\ Key({"SEARCH", "RESULTS"})
  /\ searchType' = NextType(searchType)
  /\ trackCount' = 0 /\ albumCount' = 0
  /\ mode' = IF searchType' = "PLAYLISTS" /\ playlists # << >> THEN "RESULTS" ELSE "SEARCH"
  /\ cursor' = 0
  /\ UNCHANGED <<prevMode, query, tracks, albums, playlist, action,
                 hasDefault, op, worker, history>>

OpenHelp ==
  /\ Key({"SEARCH", "RESULTS", "ALBUM_TRACKS"})
  /\ prevMode' = mode
  /\ mode' = "HELP"
  /\ UNCHANGED <<searchType, query, lists, playlist, action, cursor,
                 hasDefault, op, worker, history>>

CloseHelp ==
  /\ Key({"HELP"})
  /\ mode' = prevMode
  /\ UNCHANGED <<prevMode, searchType, query, lists, playlist, action, cursor,
                 hasDefault, op, worker, history>>

\* Enter on the setup screen, with a preset or with a folder from the picker.
ChooseFolder ==
  /\ Key({"SETUP"})
  /\ mode' = "SEARCH"
  /\ UNCHANGED <<prevMode, searchType, query, lists, playlist, action, cursor,
                 hasDefault, op, worker, history>>

Escape ==
  /\ \/ /\ Key({"QUALITY"})
        /\ mode' = IF prevMode = "ALBUM_TRACKS" THEN "ALBUM_TRACKS" ELSE "RESULTS"
        /\ UNCHANGED cursor
     \/ /\ Key({"ALBUM_ACTION"})
        /\ mode' = "RESULTS"
        /\ UNCHANGED cursor
     \/ /\ Key({"ALBUM_TRACKS", "PLAYLIST_TRACKS"})
        /\ mode' = "RESULTS"
        /\ cursor' = 0
  /\ UNCHANGED <<prevMode, searchType, query, lists, playlist, action,
                 hasDefault, op, worker, history>>

ChooseAction ==
  /\ Key({"ALBUM_ACTION"})
  /\ action' \in {0, 1}
  /\ UNCHANGED <<mode, prevMode, searchType, query, lists, playlist, cursor,
                 hasDefault, op, worker, history>>

------------------------------------------------------------------------------
(* Enter: the handlers that select something or start work.                *)

OnRow(type) == searchType = type /\ cursor < ListLength

\* With no row selected Enter is a search, whatever the mode.
EnterSearch ==
  /\ Submit({"SEARCH", "RESULTS"})
  /\ mode = "RESULTS" => cursor >= ListLength
  /\ op' = Op(CASE searchType = "SONGS"     -> "askSearch"
                [] searchType = "ALBUMS"    -> "askAlbums"
                [] searchType = "PLAYLISTS" -> "askPlaylist", NoItem, {})
  /\ UNCHANGED <<mode, prevMode, searchType, query, lists, playlist, action,
                 cursor, hasDefault, worker, history>>

\* A song, in the results or in an album: the picker, or the default quality.
EnterSong ==
  /\ \/ Submit({"RESULTS"}) /\ OnRow("SONGS")
     \/ Submit({"ALBUM_TRACKS"}) /\ cursor < trackCount
  /\ chosen' = Item(tracks[cursor], cursor)
  /\ op' = IF hasDefault
           THEN Op("askDownload", Item(0, cursor), {})
           ELSE Op("openPicker", Item(0, cursor), {"mode", "cursor"})
  /\ UNCHANGED <<mode, prevMode, searchType, query, lists, playlist, action, cursor,
                 hasDefault, worker, pushed, tracksOf, overtaken>>

\* The picker needs no quality of its own here: any tier will do.
EnterQuality ==
  /\ Submit({"QUALITY"})
  /\ mode' = IF prevMode = "ALBUM_TRACKS" THEN "ALBUM_TRACKS" ELSE "RESULTS"
  /\ op' = Op("askDownload", Item(0, cursor), {})
  /\ hasDefault' \in {hasDefault, TRUE}
  /\ UNCHANGED <<prevMode, searchType, query, lists, playlist, action, cursor,
                 worker, history>>

EnterAlbum ==
  /\ Key({"RESULTS"}) /\ OnRow("ALBUMS")
  /\ mode' = "ALBUM_ACTION"
  /\ action' = 0
  /\ UNCHANGED <<prevMode, searchType, query, lists, playlist, cursor,
                 hasDefault, op, worker, history>>

EnterPlaylist ==
  /\ Submit({"RESULTS"}) /\ OnRow("PLAYLISTS")
  /\ currentIndex' = cursor
  /\ query' = playlists[cursor + 1]
  /\ op' = Op("askPlaylist", NoItem, {})
  /\ UNCHANGED <<mode, prevMode, searchType, lists, playlists, currentUrl, action,
                 cursor, hasDefault, worker, history>>

\* What the picker of an album or a playlist shows as its title.
ShownPlaylist == searchType = "PLAYLISTS" /\ currentIndex < Len(playlists)
ShownInPicker == IF ShownPlaylist THEN Item(playlists[currentIndex + 1], 0)
                                  ELSE Item(albums[cursor], cursor)

\* Needs no task: the tracks of the playlist are already here.
Browses == searchType = "PLAYLISTS" /\ action = 1

EnterAction ==
  /\ Key({"ALBUM_ACTION"})
  /\ Browses \/ pushed < MaxTasks
  /\ mode' = "RESULTS"
  /\ chosen' = ShownInPicker
  /\ op' = IF searchType = "PLAYLISTS"
           THEN Op(IF Browses THEN "showTracks" ELSE "askCurrent", NoItem, {})
           ELSE Op(IF action = 0 THEN "askAlbum" ELSE "askBrowse", Item(0, cursor), {})
  /\ UNCHANGED <<prevMode, searchType, query, lists, playlist, action, cursor,
                 hasDefault, worker, pushed, tracksOf, overtaken>>

EnterPlaylistTrack ==
  /\ Submit({"PLAYLIST_TRACKS"})
  /\ cursor < trackCount
  /\ chosen' = Item(tracks[cursor], cursor)
  /\ op' = Op("askDownload", Item(0, cursor), {})
  /\ UNCHANGED <<mode, prevMode, searchType, query, lists, playlist, action, cursor,
                 hasDefault, worker, pushed, tracksOf, overtaken>>

\* The key `a': the url is copied before the lock is released.
DownloadAll ==
  /\ Submit({"PLAYLIST_TRACKS"})
  /\ chosen' = Item(tracksOf, 0)
  /\ op' = IF currentUrl = NoUrl THEN Idle
           ELSE Op("PLAYLIST_DOWNLOAD", Item(currentUrl, 0), {})
  /\ UNCHANGED <<mode, prevMode, searchType, query, lists, playlist, action, cursor,
                 hasDefault, worker, pushed, tracksOf, overtaken>>

------------------------------------------------------------------------------
(* What the UI thread does with the lock released.                         *)

\* The arriving list replaces tracks or albums.
ToTracks == active.kind \in {"SEARCH", "ALBUM_TRACKS", "PLAYLIST_FETCH"}
ToAlbums == active.kind = "ALBUM_SEARCH"

\* A racing read of a slot, a count or the url: old, new or torn.
ReadSlot(list, i, racing) ==
  {list[i]} \cup (IF Held /\ racing /\ i < arriving THEN {active.id, Torn} ELSE {})
ReadCount(count, racing) ==
  {count} \cup (IF Held /\ racing THEN {arriving} ELSE {})
ReadUrl ==
  {currentUrl} \cup (IF Held /\ active.kind = "PLAYLIST_FETCH" THEN {active.item.from, Torn}
                     ELSE {})

Push(kind, item) == op' = Op(kind, item, {})

\* do_search and do_album_search: the query is the UI thread's own.
AskSearch ==
  /\ op.do \in {"askSearch", "askAlbums"}
  /\ IF query = NoUrl THEN op' = Idle
     ELSE Push(IF op.do = "askSearch" THEN "SEARCH" ELSE "ALBUM_SEARCH", NoItem)
  /\ UNCHANGED <<mode, prevMode, searchType, query, lists, playlist, action, cursor,
                 hasDefault, worker, history>>

AskPlaylist ==
  /\ op.do = "askPlaylist"
  /\ IF query = NoUrl THEN op' = Idle ELSE Push("PLAYLIST_FETCH", Item(query, 0))
  /\ UNCHANGED <<mode, prevMode, searchType, query, lists, playlist, action, cursor,
                 hasDefault, worker, history>>

\* start_download: the index is tested and used on unlocked reads.
AskDownload ==
  /\ op.do = "askDownload"
  /\ \E count \in ReadCount(trackCount, ToTracks) :
       IF op.item.at >= count THEN op' = Idle
       ELSE \E from \in ReadSlot(tracks, op.item.at, ToTracks) :
              Push("DOWNLOAD", Item(from, op.item.at))
  /\ UNCHANGED <<mode, prevMode, searchType, query, lists, playlist, action, cursor,
                 hasDefault, worker, history>>

\* start_album_download and start_album_track_browse.
AskAlbum ==
  /\ op.do \in {"askAlbum", "askBrowse"}
  /\ \E count \in ReadCount(albumCount, ToAlbums) :
       IF op.item.at >= count THEN op' = Idle
       ELSE \E from \in ReadSlot(albums, op.item.at, ToAlbums) :
              Push(IF op.do = "askAlbum" THEN "ALBUM_DOWNLOAD" ELSE "ALBUM_TRACKS",
                   Item(from, op.item.at))
  /\ UNCHANGED <<mode, prevMode, searchType, query, lists, playlist, action, cursor,
                 hasDefault, worker, history>>

\* start_playlist_download, handed a pointer into the shared state.
AskCurrent ==
  /\ op.do = "askCurrent"
  /\ \E url \in ReadUrl :
       IF url = NoUrl THEN op' = Idle ELSE Push("PLAYLIST_DOWNLOAD", Item(url, 0))
  /\ UNCHANGED <<mode, prevMode, searchType, query, lists, playlist, action, cursor,
                 hasDefault, worker, history>>

\* open_quality_picker: two unlocked stores, in either order.
Stored(what) ==
  op' = IF op.writes = {what} THEN Idle ELSE [op EXCEPT !.writes = @ \ {what}]

StorePickerMode ==
  /\ op.do = "openPicker" /\ "mode" \in op.writes
  /\ prevMode' = mode
  /\ mode' = "QUALITY"
  /\ Stored("mode")
  /\ UNCHANGED <<searchType, query, lists, playlist, action, cursor,
                 hasDefault, worker, history>>

StorePickerCursor ==
  /\ op.do = "openPicker" /\ "cursor" \in op.writes
  /\ cursor' = op.item.at
  /\ Stored("cursor")
  /\ UNCHANGED <<mode, prevMode, searchType, query, lists, playlist, action,
                 hasDefault, worker, history>>

\* The lock is taken again, with the results there may be by then.
ShowTracks ==
  /\ op.do = "showTracks"
  /\ ~Held
  /\ mode' = "PLAYLIST_TRACKS"
  /\ cursor' = 0
  /\ op' = Idle
  /\ UNCHANGED <<prevMode, searchType, query, lists, playlist, action,
                 hasDefault, worker, history>>

\* push_task: the queue takes the task or is full.
PushTask ==
  /\ op.do \in TaskKind
  /\ ~Held
  /\ op' = Idle
  /\ \/ /\ Len(pending) < Capacity
        /\ pushed' = pushed + 1
        /\ pending' = Append(pending, Task(op.do, pushed + 1, op.item))
     \/ /\ Len(pending) >= Capacity
        /\ UNCHANGED <<pushed, pending>>
  /\ UNCHANGED <<mode, prevMode, searchType, query, lists, playlist, action, cursor,
                 hasDefault, active, arriving, chosen, tracksOf, overtaken>>

------------------------------------------------------------------------------
(* The worker.                                                             *)

PopTask ==
  /\ active = NoTask /\ pending # << >>
  /\ active' = Head(pending)
  /\ pending' = Tail(pending)
  /\ UNCHANGED <<mode, prevMode, searchType, query, lists, playlist, action, cursor,
                 hasDefault, op, arriving, history>>

\* A download of any kind, a playlist that could not be read or a failed
\* calloc: nothing is delivered.
FinishQuietly ==
  /\ active # NoTask /\ ~Held
  /\ active' = NoTask
  /\ UNCHANGED <<mode, prevMode, searchType, query, lists, playlist, action, cursor,
                 hasDefault, op, pending, arriving, history>>

\* The worker has n results and takes s->lock; a playlist needs one track.
Deliver ==
  /\ ~Held
  /\ ToTracks \/ ToAlbums
  /\ \E n \in 0 .. MaxResults :
       /\ active.kind = "PLAYLIST_FETCH" => n > 0
       /\ arriving' = n
  /\ overtaken' = (overtaken \/ op.do \in Exposed)
  /\ UNCHANGED <<mode, prevMode, searchType, query, lists, playlist, action, cursor,
                 hasDefault, op, pending, active, pushed, chosen, tracksOf>>

\* memcpy of the first n entries: the slots beyond keep what they had.
Filled(list) == [i \in Slot |-> IF i < arriving THEN active.id ELSE list[i]]

\* Mutant: the count only grows.
PublishTracks_CountGrows ==
  /\ Held /\ active.kind \in {"SEARCH", "ALBUM_TRACKS"}
  /\ tracks' = Filled(tracks) /\ trackCount' = IF arriving > trackCount THEN arriving ELSE trackCount
  /\ mode' = IF active.kind = "SEARCH" THEN "RESULTS" ELSE "ALBUM_TRACKS"
  /\ cursor' = 0
  /\ tracksOf' = NoUrl
  /\ active' = NoTask /\ arriving' = None
  /\ UNCHANGED <<prevMode, searchType, query, albums, albumCount, playlist, action,
                 hasDefault, op, pending, pushed, chosen, overtaken>>

\* Mutant: the screen stays where the user is.
PublishTracks_ScreenStays ==
  /\ Held /\ active.kind \in {"SEARCH", "ALBUM_TRACKS"}
  /\ tracks' = Filled(tracks) /\ trackCount' = arriving
  /\ mode' = mode
  /\ cursor' = 0
  /\ tracksOf' = NoUrl
  /\ active' = NoTask /\ arriving' = None
  /\ UNCHANGED <<prevMode, searchType, query, albums, albumCount, playlist, action,
                 hasDefault, op, pending, pushed, chosen, overtaken>>

PublishTracks ==
  /\ Held /\ active.kind \in {"SEARCH", "ALBUM_TRACKS"}
  /\ tracks' = Filled(tracks) /\ trackCount' = arriving
  /\ mode' = IF active.kind = "SEARCH" THEN "RESULTS" ELSE "ALBUM_TRACKS"
  /\ cursor' = 0
  /\ tracksOf' = NoUrl
  /\ active' = NoTask /\ arriving' = None
  /\ UNCHANGED <<prevMode, searchType, query, albums, albumCount, playlist, action,
                 hasDefault, op, pending, pushed, chosen, overtaken>>

PublishAlbums ==
  /\ Held /\ active.kind = "ALBUM_SEARCH"
  /\ albums' = Filled(albums) /\ albumCount' = arriving
  /\ mode' = "RESULTS"
  /\ cursor' = 0
  /\ active' = NoTask /\ arriving' = None
  /\ UNCHANGED <<prevMode, searchType, query, tracks, trackCount, playlist, action,
                 hasDefault, op, pending, history>>

\* The playlist's first place in the history, or the one after the last.
IsPlace(url, slot) ==
  /\ \A i \in 1 .. (slot - 1) : playlists[i] # url
  /\ slot <= Len(playlists) => playlists[slot] = url

\* Mutant: the index of the playlist in hand is not updated.
PublishPlaylist_IndexStays ==
  /\ Held /\ active.kind = "PLAYLIST_FETCH"
  /\ \E slot \in 1 .. (Len(playlists) + 1) :
       LET url == active.item.from
       IN  /\ IsPlace(url, slot)
           /\ IF slot > MaxPlaylists
              THEN UNCHANGED <<mode, cursor, action, tracks, trackCount, playlist, tracksOf>>
              ELSE /\ playlists' = IF slot > Len(playlists) THEN Append(playlists, url)
                                                            ELSE playlists
                   /\ tracks' = Filled(tracks) /\ trackCount' = arriving
                   /\ tracksOf' = url
                   /\ currentUrl' = url /\ UNCHANGED currentIndex
                   /\ action' = 0
                   /\ cursor' = slot - 1
                   /\ mode' = "ALBUM_ACTION"
  /\ active' = NoTask /\ arriving' = None
  /\ UNCHANGED <<prevMode, searchType, query, albums, albumCount, hasDefault,
                 op, pending, pushed, chosen, overtaken>>

PublishPlaylist ==
  /\ Held /\ active.kind = "PLAYLIST_FETCH"
  /\ \E slot \in 1 .. (Len(playlists) + 1) :
       LET url == active.item.from
       IN  /\ IsPlace(url, slot)
           /\ IF slot > MaxPlaylists
              THEN UNCHANGED <<mode, cursor, action, tracks, trackCount, playlist, tracksOf>>
              ELSE /\ playlists' = IF slot > Len(playlists) THEN Append(playlists, url)
                                                            ELSE playlists
                   /\ tracks' = Filled(tracks) /\ trackCount' = arriving
                   /\ tracksOf' = url
                   /\ currentUrl' = url /\ currentIndex' = slot - 1
                   /\ action' = 0
                   /\ cursor' = slot - 1
                   /\ mode' = "ALBUM_ACTION"
  /\ active' = NoTask /\ arriving' = None
  /\ UNCHANGED <<prevMode, searchType, query, albums, albumCount, hasDefault,
                 op, pending, pushed, chosen, overtaken>>

------------------------------------------------------------------------------
Handler ==
  \/ Navigate \/ TypeChar \/ Backspace \/ ClearQuery \/ Tab \/ OpenHelp \/ CloseHelp
  \/ ChooseFolder \/ Escape \/ ChooseAction
  \/ EnterSearch \/ EnterSong \/ EnterQuality \/ EnterAlbum \/ EnterPlaylist
  \/ EnterAction \/ EnterPlaylistTrack \/ DownloadAll

Unlocked ==
  \/ AskSearch \/ AskPlaylist \/ AskDownload \/ AskAlbum \/ AskCurrent
  \/ StorePickerMode \/ StorePickerCursor \/ ShowTracks \/ PushTask

Background ==
  \/ PopTask \/ FinishQuietly \/ Deliver
  \/ PublishTracks \/ PublishAlbums \/ PublishPlaylist

Next == Handler \/ Unlocked \/ Background

Spec == Init /\ [][Next]_vars

------------------------------------------------------------------------------
(* Properties.                                                             *)

ScreenTypes ==
  /\ mode \in Mode /\ prevMode \in Mode
  /\ searchType \in SearchType
  /\ query \in Url \cup {NoUrl}
  /\ action \in {0, 1}
  /\ cursor \in Slot
  /\ hasDefault \in BOOLEAN

ListTypes ==
  /\ tracks \in [Slot -> Nat] /\ trackCount \in 0 .. MaxResults
  /\ albums \in [Slot -> Nat] /\ albumCount \in 0 .. MaxResults
  /\ tracksOf \in Url \cup {NoUrl}

PlaylistTypes ==
  /\ playlists \in Seq(Url) /\ Len(playlists) <= MaxPlaylists
  /\ currentUrl \in Url \cup {NoUrl}
  /\ currentIndex \in Nat

OpTypes ==
  /\ op \in [do : OpName, item : ItemSet, writes : SUBSET {"mode", "cursor"}]
  /\ chosen \in ItemSet
  /\ overtaken \in BOOLEAN

WorkerTypes ==
  /\ pending \in Seq(TaskSet) /\ Len(pending) <= Capacity
  /\ active \in TaskSet \cup {NoTask}
  /\ arriving \in {None} \cup 0 .. MaxResults
  /\ pushed \in Nat

\* Every variable has its type: in particular the cursor never leaves the
\* arrays it indexes, and no count or history passes its array, although a
\* cursor may be past the end of the list on the screen.
TypeOK == ScreenTypes /\ ListTypes /\ PlaylistTypes /\ OpTypes /\ WorkerTypes

\* The rows a list offers come from one answer: a delivery replaces slots and
\* count together, and no row is left from an earlier, longer list
\* (main.c:384-386, 422-424, 447-449, 553-557).
ListIsOneAnswer ==
  /\ \A i, j \in 0 .. (trackCount - 1) : tracks[i] = tracks[j]
  /\ \A i, j \in 0 .. (albumCount - 1) : albums[i] = albums[j]

\* What the picker of a playlist names is what its first entry downloads: the
\* title comes from current_playlist_index (tui.c:820), the download from
\* current_playlist_url (main.c:1109), and the two are set apart.
PickerNamesItsPlaylist ==
  mode = "ALBUM_ACTION" /\ ShownPlaylist =>
    playlists[currentIndex + 1] = currentUrl /\ tracksOf = currentUrl

Downloads == {"DOWNLOAD", "ALBUM_DOWNLOAD", "ALBUM_TRACKS", "PLAYLIST_DOWNLOAD"}

\* A confirmed selection becomes a task for the very item that was on the
\* screen, through pickers, screen changes and everything the worker delivers
\* meanwhile; the one exception is a delivery between the unlock of a handler
\* and the end of its unlocked accesses (main.c:686-757, 889-901, 1101-1116).
SelectionHonoured ==
  op.do \in Downloads => op.item = chosen \/ overtaken

\* The track list of a playlist shows that playlist's tracks, and `a' downloads
\* it (main.c:1019-1024); again but for a delivery in the gap.
PlaylistScreenIsCurrent ==
  mode = "PLAYLIST_TRACKS" => tracksOf = currentUrl \/ overtaken

\* The picker of qualities is open on a row that exists, the one it was opened
\* for; the title it draws is tracks[cursor] without a test (tui.c:771).
PickerHasItsTrack ==
  mode = "QUALITY" /\ op = Idle =>
    \/ cursor < trackCount /\ Item(tracks[cursor], cursor) = chosen
    \/ overtaken

\* README.md:149-153 says: select a result, press Enter, pick a quality, and it is
\* downloaded.  Not so when results arrive between the unlock and the reads.
SelectionAlwaysHonoured ==
  op.do \in Downloads => op.item = chosen

\* README.md:157 says of a playlist URL that SquidGet opens a playlist track list
\* and lets one download a track or the whole playlist.  Not so when Tab has
\* moved on while the page was fetched: the picker opens as one for an album.
PlaylistOpensItsPicker ==
  [][mode' = "ALBUM_ACTION" /\ mode # "ALBUM_ACTION" /\ currentUrl' # currentUrl
       => searchType = "PLAYLISTS"]_vars

\* The queue the session sees is the serial executor: tasks are numbered as they
\* are pushed and taken up in that order, one at a time (main.c:356-372, 639-652).
\* TaskQueue shows that the ring, the flag and the threads are such an executor.
Completed == pushed - Len(pending) - (IF active = NoTask THEN 0 ELSE 1)

Executor ==
  INSTANCE TaskExecutor WITH
    MaxAccepted <- MaxTasks,
    accepted    <- pushed,
    pending     <- [i \in 1 .. Len(pending) |-> pending[i].id],
    active      <- active.id,
    completed   <- [i \in 1 .. Completed |-> i],
    open        <- "open"

UsesExecutor == Executor!Spec
==============================================================================
