----------------------------- MODULE SessionProofs ----------------------------
(***************************************************************************)
(* Proofs about Session for every size of the lists, of the history and of *)
(* the queue, and every number of tasks, in windows with room for at least *)
(* one row of a list (RoomForARow).                                        *)
(***************************************************************************)
EXTENDS Session, SequenceTheorems, TLAPS

------------------------------------------------------------------------------
(* Typing.                                                                 *)

\* A task or an operation that fetches a playlist carries a playlist url.
Fetches(kind, item) == kind = "PLAYLIST_FETCH" => item.from \in Url

\* What typing alone does not say: the urls to fetch are urls, indices under
\* way are indices of the arrays, and only a list-fetching task delivers.
WellFormed ==
  /\ Fetches(active.kind, active.item)
  /\ \A i \in 1 .. Len(pending) : Fetches(pending[i].kind, pending[i].item)
  /\ Fetches(op.do, op.item)
  /\ op.do \in {"askDownload", "openPicker", "askAlbum", "askBrowse"} => op.item.at \in Slot
  /\ Held => ToTracks \/ ToAlbums

TypeInv == TypeOK /\ WellFormed

LEMMA TypeInit == Init => TypeInv
  <1> SUFFICES ASSUME Init
               PROVE  TypeInv
    OBVIOUS
  <1> USE SessionAssumption DEF Init
  <1>1. NoItem \in ItemSet
    BY DEF NoItem, Item, ItemSet, Source
  <1>2. ScreenTypes
    BY DEF ScreenTypes, Mode, SearchType, Slot
  <1>3. ListTypes
    BY DEF ListTypes
  <1>4. PlaylistTypes
    <2>1. CASE playlists = << >>
      BY <2>1 DEF PlaylistTypes
    <2>2. ASSUME NEW u \in Url, playlists = <<u>>
          PROVE  PlaylistTypes
      BY <2>2 DEF PlaylistTypes
    <2> QED
      BY <2>1, <2>2
  <1>5. OpTypes
    BY <1>1 DEF OpTypes, Idle, Op, OpName
  <1>6. WorkerTypes
    BY DEF WorkerTypes
  <1>7. WellFormed
    <2>1. Len(pending) = 0
      OBVIOUS
    <2>2. Fetches(active.kind, active.item)
      BY DEF Fetches, NoTask, Task
    <2>3. op.do = "idle"
      BY DEF Idle, Op
    <2>4. ~Held
      BY DEF Held
    <2> QED
      BY <2>1, <2>2, <2>3, <2>4 DEF WellFormed, Fetches
  <1> QED
    BY <1>2, <1>3, <1>4, <1>5, <1>6, <1>7 DEF TypeInv, TypeOK

\* The cursor stays in the arrays: the navigation keys keep to the list, and a
\* delivery puts it on the first row or on the playlist's row.
LEMMA ScreenStep ==
  ASSUME RoomForARow, TypeInv, [Next]_vars
  PROVE  ScreenTypes'
  <1> USE SessionAssumption DEF RoomForARow, TypeInv, TypeOK, ScreenTypes
  <1>1. CASE Navigate
    <2>1. PICK len \in 0 .. MaxResults : cursor' \in UpDown(len) \cup Jumps(len)
      <3>1. ListLength \in 0 .. MaxResults
        BY DEF ListLength, ListTypes, PlaylistTypes, SearchType
      <3>2. trackCount \in 0 .. MaxResults
        BY DEF ListTypes
      <3> QED
        BY <1>1, <3>1, <3>2 DEF Navigate
    <2>2. cursor' \in Slot
      BY <2>1 DEF UpDown, Jumps, Slot
    <2> QED
      BY <1>1, <2>2 DEF Navigate
  <1>2. CASE TypeChar \/ Backspace \/ ClearQuery \/ Tab \/ OpenHelp \/ CloseHelp
             \/ ChooseFolder \/ Escape \/ ChooseAction
    <2>1. 0 \in Slot
      BY DEF Slot
    <2> QED
      BY <1>2, <2>1 DEF TypeChar, Backspace, ClearQuery, Tab, NextType, OpenHelp,
          CloseHelp, ChooseFolder, Escape, ChooseAction, Mode, SearchType
  <1>3. CASE EnterSearch \/ EnterSong \/ EnterQuality \/ EnterAlbum
             \/ EnterAction \/ EnterPlaylistTrack \/ DownloadAll
    BY <1>3 DEF EnterSearch, EnterSong, EnterQuality, EnterAlbum,
         EnterAction, EnterPlaylistTrack, DownloadAll, Mode
  <1>4. CASE EnterPlaylist
    <2>1. cursor + 1 \in 1 .. Len(playlists)
      BY <1>4 DEF EnterPlaylist, OnRow, ListLength, PlaylistTypes, Slot
    <2>2. playlists[cursor + 1] \in Url
      BY <2>1 DEF PlaylistTypes
    <2> QED
      BY <1>4, <2>2 DEF EnterPlaylist
  <1>5. CASE AskSearch \/ AskPlaylist \/ AskDownload \/ AskAlbum \/ AskCurrent \/ PushTask
    BY <1>5 DEF AskSearch, AskPlaylist, AskDownload, AskAlbum, AskCurrent, PushTask
  <1>6. CASE StorePickerMode \/ StorePickerCursor \/ ShowTracks
    <2>1. 0 \in Slot
      BY DEF Slot
    <2>2. StorePickerCursor => op.item.at \in Slot
      BY DEF StorePickerCursor, WellFormed
    <2> QED
      BY <1>6, <2>1, <2>2 DEF StorePickerMode, StorePickerCursor, ShowTracks, Mode
  <1>7. CASE PopTask \/ FinishQuietly \/ Deliver
    BY <1>7 DEF PopTask, FinishQuietly, Deliver
  <1>8. CASE PublishTracks \/ PublishAlbums
    <2>1. 0 \in Slot
      BY DEF Slot
    <2> QED
      BY <1>8, <2>1 DEF PublishTracks, PublishAlbums, Mode
  <1>9. CASE PublishPlaylist
    <2>1. \A slot \in 1 .. (Len(playlists) + 1) : slot <= MaxPlaylists => slot - 1 \in Slot
      BY DEF Slot, PlaylistTypes
    <2> QED
      BY <1>9, <2>1 DEF PublishPlaylist, PlaylistTypes, Mode
  <1>10. CASE UNCHANGED vars
    BY <1>10 DEF vars
  <1> QED
    BY <1>1, <1>2, <1>3, <1>4, <1>5, <1>6, <1>7, <1>8, <1>9, <1>10
    DEF Next, Handler, Unlocked, Background

\* Counts follow the deliveries, which bring no more than the arrays hold.
LEMMA ListStep ==
  ASSUME TypeInv, [Next]_vars
  PROVE  ListTypes'
  <1> USE SessionAssumption DEF TypeInv, TypeOK, ListTypes
  <1>1. Held => arriving \in 0 .. MaxResults
    BY DEF Held, WorkerTypes
  <1>2. Held => active.id \in Nat
    BY DEF WellFormed, ToTracks, ToAlbums, WorkerTypes, TaskSet, NoTask, Task
  <1>3. CASE PublishTracks \/ PublishAlbums
    <2>1. Filled(tracks) \in [Slot -> Nat] /\ Filled(albums) \in [Slot -> Nat]
      BY <1>2, <1>3 DEF PublishTracks, PublishAlbums, Filled
    <2>2. CASE PublishTracks
      BY <1>1, <2>1, <2>2 DEF PublishTracks
    <2>3. CASE PublishAlbums
      BY <1>1, <2>1, <2>3 DEF PublishAlbums, history
    <2> QED
      BY <1>3, <2>2, <2>3
  <1>4. CASE PublishPlaylist
    <2>1. active.item.from \in Url
      BY <1>4 DEF PublishPlaylist, WellFormed, Fetches
    <2>2. Filled(tracks) \in [Slot -> Nat]
      BY <1>2, <1>4 DEF PublishPlaylist, Filled
    <2> QED
      BY <1>1, <1>4, <2>1, <2>2 DEF PublishPlaylist
  <1>5. CASE ClearQuery \/ Tab
    BY <1>5 DEF ClearQuery, Tab, history
  <1>6. CASE UNCHANGED <<lists, tracksOf>>
    BY <1>6 DEF lists
  <1> QED
    BY <1>3, <1>4, <1>5, <1>6
    DEF Next, Handler, Unlocked, Background, vars, history,
        Navigate, TypeChar, Backspace, OpenHelp, CloseHelp, ChooseFolder, Escape,
        ChooseAction, EnterSearch, EnterSong, EnterQuality, EnterAlbum, EnterPlaylist,
        EnterAction, EnterPlaylistTrack, DownloadAll, AskSearch, AskPlaylist,
        AskDownload, AskAlbum, AskCurrent, StorePickerMode, StorePickerCursor,
        ShowTracks, PushTask, PopTask, FinishQuietly, Deliver

\* The history of playlists grows up to its limit.
LEMMA PlaylistStep ==
  ASSUME TypeInv, [Next]_vars
  PROVE  PlaylistTypes'
  <1> USE SessionAssumption DEF TypeInv, TypeOK, PlaylistTypes
  <1>1. CASE PublishPlaylist
    <2>1. active.item.from \in Url
      BY <1>1 DEF PublishPlaylist, WellFormed, Fetches
    <2>2. Append(playlists, active.item.from) \in Seq(Url)
          /\ Len(Append(playlists, active.item.from)) = Len(playlists) + 1
      BY <2>1
    <2> QED
      BY <1>1, <2>1, <2>2 DEF PublishPlaylist, playlist
  <1>2. CASE EnterPlaylist
    BY <1>2 DEF EnterPlaylist, ScreenTypes, Slot
  <1>3. CASE UNCHANGED playlist
    BY <1>3 DEF playlist
  <1> QED
    BY <1>1, <1>2, <1>3
    DEF Next, Handler, Unlocked, Background, vars,
        Navigate, TypeChar, Backspace, ClearQuery, Tab, OpenHelp, CloseHelp,
        ChooseFolder, Escape, ChooseAction, EnterSearch, EnterSong, EnterQuality,
        EnterAlbum, EnterAction, EnterPlaylistTrack, DownloadAll, AskSearch,
        AskPlaylist, AskDownload, AskAlbum, AskCurrent, StorePickerMode,
        StorePickerCursor, ShowTracks, PushTask, PopTask, FinishQuietly, Deliver,
        PublishTracks, PublishAlbums

\* The queue and the worker.
LEMMA WorkerStep ==
  ASSUME TypeInv, [Next]_vars
  PROVE  WorkerTypes'
  <1> USE SessionAssumption DEF TypeInv, TypeOK, WorkerTypes
  <1>1. CASE PushTask
    <2>1. CASE Len(pending) < Capacity /\ pushed' = pushed + 1
      <3>1. Task(op.do, pushed + 1, op.item) \in TaskSet
        BY <1>1 DEF PushTask, OpTypes, TaskSet, Task
      <3>2. pending' \in Seq(TaskSet) /\ Len(pending') = Len(pending) + 1
        BY <1>1, <2>1, <3>1 DEF PushTask
      <3> QED
        BY <1>1, <2>1, <3>2 DEF PushTask
    <2> QED
      BY <1>1, <2>1 DEF PushTask
  <1>2. CASE PopTask
    <2>1. Head(pending) \in TaskSet
          /\ Tail(pending) \in Seq(TaskSet) /\ Len(Tail(pending)) <= Len(pending)
      BY <1>2 DEF PopTask
    <2> QED
      BY <1>2, <2>1 DEF PopTask, history
  <1>3. CASE FinishQuietly \/ Deliver
    BY <1>3 DEF FinishQuietly, Deliver, history
  <1>4. CASE PublishTracks \/ PublishAlbums \/ PublishPlaylist
    BY <1>4 DEF PublishTracks, PublishAlbums, PublishPlaylist, history
  <1>5. CASE UNCHANGED <<worker, pushed>>
    BY <1>5 DEF worker
  <1> QED
    BY <1>1, <1>2, <1>3, <1>4, <1>5
    DEF Next, Handler, Unlocked, Background, vars, history,
        Navigate, TypeChar, Backspace, ClearQuery, Tab, OpenHelp, CloseHelp,
        ChooseFolder, Escape, ChooseAction, EnterSearch, EnterSong, EnterQuality,
        EnterAlbum, EnterPlaylist, EnterAction, EnterPlaylistTrack, DownloadAll,
        AskSearch, AskPlaylist, AskDownload, AskAlbum, AskCurrent, StorePickerMode,
        StorePickerCursor, ShowTracks

\* Operations and selections are items, whatever a racing read returns.
LEMMA OpStep ==
  ASSUME TypeInv, [Next]_vars
  PROVE  OpTypes'
  <1> USE SessionAssumption DEF TypeInv, TypeOK, OpTypes
  <1>1. \A do \in OpName, item \in ItemSet, writes \in SUBSET {"mode", "cursor"} :
           Op(do, item, writes) \in [do : OpName, item : ItemSet,
                                     writes : SUBSET {"mode", "cursor"}]
    BY DEF Op
  <1>2. /\ NoItem \in ItemSet
        /\ \A from \in Source, at \in Nat : Item(from, at) \in ItemSet
    BY DEF NoItem, Item, ItemSet, Source
  <1>3. Idle \in [do : OpName, item : ItemSet, writes : SUBSET {"mode", "cursor"}]
    BY <1>1, <1>2 DEF Idle, OpName
  <1>4. Nat \subseteq Source /\ Url \subseteq Source /\ NoUrl \in Source /\ Torn \in Source
    BY DEF Source
  <1>5. cursor \in Nat /\ 0 \in Nat /\ \A i \in Slot : tracks[i] \in Nat /\ albums[i] \in Nat
    BY DEF ScreenTypes, ListTypes, Slot
  <1>6. cursor \in Slot
    BY DEF ScreenTypes
  <1>7. CASE EnterSearch \/ EnterPlaylist
    <2>1. op' = Idle \/ \E do \in OpName : op' = Op(do, NoItem, {})
      BY <1>7 DEF EnterSearch, EnterPlaylist, OpName, ScreenTypes, SearchType
    <2>2. op' \in [do : OpName, item : ItemSet, writes : SUBSET {"mode", "cursor"}]
      BY <1>1, <1>2, <1>3, <2>1
    <2>3. chosen' = chosen /\ overtaken' = overtaken
      BY <1>7 DEF EnterSearch, EnterPlaylist, history
    <2> QED
      BY <2>2, <2>3
  <1>8. CASE EnterSong \/ EnterPlaylistTrack
    <2>1. \/ op' = Op("askDownload", Item(0, cursor), {})
          \/ op' = Op("openPicker", Item(0, cursor), {"mode", "cursor"})
      BY <1>8 DEF EnterSong, EnterPlaylistTrack
    <2>2. chosen' = Item(tracks[cursor], cursor) /\ overtaken' = overtaken
      BY <1>8 DEF EnterSong, EnterPlaylistTrack
    <2>3. "askDownload" \in OpName /\ "openPicker" \in OpName
      BY DEF OpName, Exposed
    <2>4. op' \in [do : OpName, item : ItemSet, writes : SUBSET {"mode", "cursor"}]
      BY <1>1, <1>2, <1>4, <1>5, <2>1, <2>3
    <2>5. chosen' \in ItemSet
      BY <1>2, <1>4, <1>5, <1>6, <2>2
    <2> QED
      BY <2>2, <2>4, <2>5
  <1>9. CASE EnterQuality
    BY <1>1, <1>2, <1>4, <1>5, <1>9 DEF EnterQuality, OpName, Exposed, history
  <1>10. CASE EnterAction
    <2>1. ShownInPicker \in ItemSet
      <3>1. CASE ShownPlaylist
        <4>1. playlists[currentIndex + 1] \in Url
          BY <3>1 DEF ShownPlaylist, PlaylistTypes
        <4> QED
          BY <1>2, <1>4, <1>5, <3>1, <4>1 DEF ShownInPicker
      <3>2. CASE ~ShownPlaylist
        BY <1>2, <1>4, <1>5, <1>6, <3>2 DEF ShownInPicker
      <3> QED
        BY <3>1, <3>2
    <2>2. \E do \in OpName, item \in ItemSet : op' = Op(do, item, {})
      <3>1. Item(0, cursor) \in ItemSet
        BY <1>2, <1>4, <1>5
      <3>2. \/ op' = Op("showTracks", NoItem, {}) \/ op' = Op("askCurrent", NoItem, {})
            \/ op' = Op("askAlbum", Item(0, cursor), {})
            \/ op' = Op("askBrowse", Item(0, cursor), {})
        BY <1>10 DEF EnterAction
      <3>3. {"showTracks", "askCurrent", "askAlbum", "askBrowse"} \subseteq OpName
        BY DEF OpName, Exposed
      <3> QED
        BY <1>2, <3>1, <3>2, <3>3
    <2>3. op' \in [do : OpName, item : ItemSet, writes : SUBSET {"mode", "cursor"}]
      BY ONLY <1>1, <2>2
    <2>4. chosen' = ShownInPicker /\ overtaken' = overtaken
      BY <1>10 DEF EnterAction
    <2> QED
      BY <2>1, <2>3, <2>4
  <1>11. CASE DownloadAll
    BY <1>1, <1>2, <1>3, <1>4, <1>5, <1>11
    DEF DownloadAll, OpName, TaskKind, ListTypes, PlaylistTypes
  <1>12. CASE AskSearch \/ AskPlaylist
    <2>1. op' = Idle \/ \E do \in OpName, item \in ItemSet : op' = Op(do, item, {})
      BY <1>2, <1>4, <1>5, <1>12
      DEF AskSearch, AskPlaylist, Push, OpName, TaskKind, ScreenTypes
    <2> QED
      BY <1>1, <1>3, <1>12, <2>1 DEF AskSearch, AskPlaylist, history
  <1>13. CASE AskDownload \/ AskAlbum
    <2>1. /\ op.item.at \in Slot
          /\ op.item.at \in Nat
      BY <1>13 DEF AskDownload, AskAlbum, WellFormed, Slot
    <2>2. active.id \in Nat
      BY DEF WorkerTypes, TaskSet, NoTask, Task
    <2>3. \A racing \in BOOLEAN : /\ ReadSlot(tracks, op.item.at, racing) \subseteq Source
                                  /\ ReadSlot(albums, op.item.at, racing) \subseteq Source
      BY <1>4, <1>5, <2>1, <2>2 DEF ReadSlot
    <2>4. ToTracks \in BOOLEAN /\ ToAlbums \in BOOLEAN
      BY DEF ToTracks, ToAlbums
    <2>5. op' = Idle \/ \E do \in OpName, from \in Source : op' = Op(do, Item(from, op.item.at), {})
      BY <1>13, <2>3, <2>4 DEF AskDownload, AskAlbum, Push, OpName, TaskKind
    <2> QED
      BY <1>1, <1>2, <1>3, <1>13, <2>1, <2>5 DEF AskDownload, AskAlbum, history
  <1>14. CASE AskCurrent
    <2>1. active.item.from \in Source
      BY <1>4, <1>5 DEF WorkerTypes, TaskSet, ItemSet, NoTask, Task, NoItem, Item
    <2>2. ReadUrl \subseteq Source
      BY <1>4, <2>1 DEF ReadUrl, PlaylistTypes
    <2>3. op' = Idle \/ \E from \in Source : op' = Op("PLAYLIST_DOWNLOAD", Item(from, 0), {})
      BY <1>14, <2>2 DEF AskCurrent, Push
    <2>4. "PLAYLIST_DOWNLOAD" \in OpName
      BY DEF OpName, TaskKind
    <2> QED
      BY <1>1, <1>2, <1>3, <1>5, <1>14, <2>3, <2>4 DEF AskCurrent, history
  <1>15. CASE StorePickerMode \/ StorePickerCursor
    <2>1. op' = Idle \/ \E what : op' = [op EXCEPT !.writes = @ \ {what}]
      BY <1>15 DEF StorePickerMode, StorePickerCursor, Stored
    <2> QED
      BY <1>3, <1>15, <2>1 DEF StorePickerMode, StorePickerCursor, history
  <1>16. CASE ShowTracks \/ PushTask
    BY <1>3, <1>16 DEF ShowTracks, PushTask, history
  <1>17. CASE Deliver
    BY <1>17 DEF Deliver
  <1>18. CASE UNCHANGED <<op, chosen, overtaken>>
    BY <1>18
  <1> QED
    BY <1>7, <1>8, <1>9, <1>10, <1>11, <1>12, <1>13, <1>14, <1>15, <1>16, <1>17, <1>18
    DEF Next, Handler, Unlocked, Background, vars, history,
        Navigate, TypeChar, Backspace, ClearQuery, Tab, OpenHelp, CloseHelp,
        ChooseFolder, Escape, ChooseAction, EnterAlbum, PopTask, FinishQuietly,
        PublishTracks, PublishAlbums, PublishPlaylist

LEMMA WellFormedStep ==
  ASSUME TypeInv, [Next]_vars
  PROVE  WellFormed'
  <1> USE SessionAssumption DEF TypeInv, TypeOK, Fetches, Held, ToTracks, ToAlbums
  <1> DEFINE Asked == /\ Fetches(op.do, op.item)
                      /\ op.do \in {"askDownload", "openPicker", "askAlbum", "askBrowse"}
                           => op.item.at \in Slot
             Worked == /\ Fetches(active.kind, active.item)
                       /\ \A i \in 1 .. Len(pending) : Fetches(pending[i].kind, pending[i].item)
                       /\ Held => ToTracks \/ ToAlbums
  <1>1. Asked /\ Worked
    BY DEF WellFormed
  <1>2. Asked'
    <2> USE DEF Asked, Op, Idle, NoItem, Item
    <2>1. cursor \in Slot /\ query \in Url \cup {NoUrl}
      BY DEF ScreenTypes
    <2>2. CASE EnterSearch \/ EnterPlaylist \/ EnterSong \/ EnterPlaylistTrack \/ EnterQuality
               \/ EnterAction \/ DownloadAll
      <3>1. CASE EnterSearch \/ EnterPlaylist
        BY <3>1 DEF EnterSearch, EnterPlaylist, ScreenTypes, SearchType
      <3>2. CASE EnterSong \/ EnterPlaylistTrack \/ EnterQuality
        <4>1. \/ op' = Op("askDownload", Item(0, cursor), {})
              \/ op' = Op("openPicker", Item(0, cursor), {"mode", "cursor"})
          BY <3>2 DEF EnterSong, EnterPlaylistTrack, EnterQuality
        <4> QED
          BY <2>1, <4>1
      <3>3. CASE EnterAction
        <4>1. \/ op' = Op("showTracks", NoItem, {}) \/ op' = Op("askCurrent", NoItem, {})
              \/ op' = Op("askAlbum", Item(0, cursor), {})
              \/ op' = Op("askBrowse", Item(0, cursor), {})
          BY <3>3 DEF EnterAction
        <4>2. Slot' = Slot /\ op'.do # "PLAYLIST_FETCH"
          BY <4>1 DEF Slot
        <4> QED
          BY <2>1, <4>1, <4>2
      <3>4. CASE DownloadAll
        BY <3>4 DEF DownloadAll
      <3> QED
        BY <2>2, <3>1, <3>2, <3>3, <3>4
    <2>3. CASE AskSearch \/ AskPlaylist \/ AskDownload \/ AskAlbum \/ AskCurrent
      BY <2>1, <2>3 DEF AskSearch, AskPlaylist, AskDownload, AskAlbum, AskCurrent, Push
    <2>4. CASE StorePickerMode \/ StorePickerCursor
      BY <1>1, <2>4 DEF StorePickerMode, StorePickerCursor, Stored, OpTypes
    <2>5. CASE ShowTracks \/ PushTask
      BY <2>5 DEF ShowTracks, PushTask
    <2>6. CASE UNCHANGED op
      BY <1>1, <2>6
    <2> QED
      BY <2>2, <2>3, <2>4, <2>5, <2>6
      DEF Next, Handler, Unlocked, Background, vars,
        Navigate, TypeChar, Backspace, ClearQuery, Tab, OpenHelp, CloseHelp,
        ChooseFolder, Escape, ChooseAction, EnterAlbum, PopTask, FinishQuietly, Deliver,
        PublishTracks, PublishAlbums, PublishPlaylist
  <1>3. Worked'
    <2> USE DEF WorkerTypes
    <2>1. CASE PushTask
      <3>1. CASE UNCHANGED pending
        BY <1>1, <2>1, <3>1 DEF PushTask
      <3>2. CASE pending' = Append(pending, Task(op.do, pushed + 1, op.item))
        <4>1. Task(op.do, pushed + 1, op.item) \in TaskSet
          BY <2>1 DEF PushTask, OpTypes, TaskSet, Task
        <4>2. Len(pending') = Len(pending) + 1
              /\ \A i \in 1 .. Len(pending) : pending'[i] = pending[i]
              /\ pending'[Len(pending) + 1] = Task(op.do, pushed + 1, op.item)
          BY <3>2, <4>1
        <4>3. Fetches(Task(op.do, pushed + 1, op.item).kind, Task(op.do, pushed + 1, op.item).item)
          BY <1>1 DEF Task
        <4>4. \A i \in 1 .. Len(pending') : i \in 1 .. Len(pending) \/ i = Len(pending) + 1
          BY <4>2
        <4> QED
          BY <1>1, <2>1, <4>2, <4>3, <4>4 DEF PushTask
      <3> QED
        BY <2>1, <3>1, <3>2 DEF PushTask
    <2>2. CASE PopTask
      <3>1. 1 \in 1 .. Len(pending) /\ Head(pending) = pending[1]
        BY <2>2 DEF PopTask
      <3>2. Len(Tail(pending)) = Len(pending) - 1
            /\ \A i \in 1 .. Len(Tail(pending)) : Tail(pending)[i] = pending[i + 1]
                                                  /\ i + 1 \in 1 .. Len(pending)
        BY <2>2 DEF PopTask
      <3>3. ~Held
        BY <1>1, <2>2 DEF PopTask, NoTask, Task
      <3> QED
        BY <1>1, <2>2, <3>1, <3>2, <3>3 DEF PopTask
    <2>3. CASE FinishQuietly \/ PublishTracks \/ PublishAlbums \/ PublishPlaylist
      BY <1>1, <2>3 DEF FinishQuietly, PublishTracks, PublishAlbums, PublishPlaylist,
          NoTask, Task
    <2>4. CASE Deliver
      BY <1>1, <2>4 DEF Deliver
    <2>5. CASE UNCHANGED worker
      BY <1>1, <2>5 DEF worker
    <2> QED
      BY <2>1, <2>2, <2>3, <2>4, <2>5
      DEF Next, Handler, Unlocked, Background, vars,
        Navigate, TypeChar, Backspace, ClearQuery, Tab, OpenHelp, CloseHelp,
        ChooseFolder, Escape, ChooseAction, EnterSearch, EnterSong, EnterQuality,
        EnterAlbum, EnterPlaylist, EnterAction, EnterPlaylistTrack, DownloadAll,
        AskSearch, AskPlaylist, AskDownload, AskAlbum, AskCurrent, StorePickerMode,
        StorePickerCursor, ShowTracks
  <1> QED
    BY <1>2, <1>3 DEF WellFormed

\* In a window with room for a row, every variable has its type in every reachable
\* state: no handler, no racing store and no delivery takes an index out of its
\* array, for any sizes of the arrays.  Without that room PgUp and PgDn do.
THEOREM TypeCorrect == RoomForARow => (Spec => []TypeOK)
  <1> SUFFICES ASSUME RoomForARow PROVE Spec => []TypeOK
    OBVIOUS
  <1>1. TypeInv /\ [Next]_vars => TypeInv'
    BY ScreenStep, ListStep, PlaylistStep, OpStep, WorkerStep, WellFormedStep
    DEF TypeInv, TypeOK
  <1>2. TypeInv => TypeOK
    BY DEF TypeInv
  <1> QED
    BY TypeInit, <1>1, <1>2, PTL DEF Spec

------------------------------------------------------------------------------
(* The inductive invariant for what the user sees and gets.                *)

\* An unlocked access that can meet a delivery has been noted.
GapState == Held /\ op.do \in Exposed => overtaken

\* The help screen goes back only to the screens it is opened from.
HelpState == mode = "HELP" => prevMode \in {"SEARCH", "RESULTS", "ALBUM_TRACKS"}

\* The picker of a playlist is open on the playlist fetched last.
PickerState ==
  mode = "ALBUM_ACTION" /\ searchType = "PLAYLISTS" =>
    /\ currentIndex < Len(playlists)
    /\ playlists[currentIndex + 1] = currentUrl
    /\ tracksOf = currentUrl

\* So is its track list, and the switch to it under way.
ScreenState ==
  mode = "PLAYLIST_TRACKS" \/ op.do = "showTracks" => tracksOf = currentUrl \/ overtaken

\* Where the chosen item is found at each stage of becoming a task.
OpState ==
  \/ overtaken
  \/ /\ op.do \in {"askDownload", "openPicker"} => Item(tracks[op.item.at], op.item.at) = chosen
     /\ op.do = "openPicker" => op.item.at < trackCount
     /\ op.do = "openPicker" /\ "cursor" \notin op.writes => cursor = op.item.at
     /\ op.do \in {"askAlbum", "askBrowse"} => Item(albums[op.item.at], op.item.at) = chosen
     /\ op.do = "askCurrent" => Item(currentUrl, 0) = chosen
     /\ op.do \in Downloads => op.item = chosen
     /\ mode = "QUALITY" => op.do \in {"idle", "openPicker"}
     /\ mode = "QUALITY" /\ op.do = "idle" =>
          cursor < trackCount /\ Item(tracks[cursor], cursor) = chosen

IInv ==
  /\ TypeInv
  /\ ListIsOneAnswer
  /\ GapState
  /\ HelpState
  /\ PickerState
  /\ ScreenState
  /\ OpState

\* What the handlers that end idle or busy look like to an invariant on op.
LEMMA IdleOp == Idle.do = "idle" /\ Idle.do \notin Exposed /\ Idle.do \notin Downloads
  BY DEF Idle, Op, Exposed, Downloads

LEMMA AnswerStep ==
  ASSUME TypeInv, ListIsOneAnswer, [Next]_vars
  PROVE  ListIsOneAnswer'
  <1> USE SessionAssumption DEF ListIsOneAnswer
  <1>1. Held => arriving \in 0 .. MaxResults
    BY DEF Held, TypeInv, TypeOK, WorkerTypes
  <1>2. CASE PublishTracks \/ PublishAlbums \/ PublishPlaylist
    <2>1. arriving \in 0 .. MaxResults
      BY <1>1, <1>2 DEF PublishTracks, PublishAlbums, PublishPlaylist
    <2>2. \A list : \A i \in 0 .. (arriving - 1) : Filled(list)[i] = active.id
      BY <2>1 DEF Filled, Slot
    <2> QED
      BY <1>2, <2>2 DEF PublishTracks, PublishAlbums, PublishPlaylist, lists
  <1>3. CASE ClearQuery \/ Tab
    BY <1>3 DEF ClearQuery, Tab
  <1>4. CASE UNCHANGED lists
    BY <1>4 DEF lists
  <1> QED
    BY <1>2, <1>3, <1>4
    DEF Next, Handler, Unlocked, Background, vars, history,
        Navigate, TypeChar, Backspace, OpenHelp, CloseHelp, ChooseFolder, Escape,
        ChooseAction, EnterSearch, EnterSong, EnterQuality, EnterAlbum, EnterPlaylist,
        EnterAction, EnterPlaylistTrack, DownloadAll, AskSearch, AskPlaylist,
        AskDownload, AskAlbum, AskCurrent, StorePickerMode, StorePickerCursor,
        ShowTracks, PushTask, PopTask, FinishQuietly, Deliver

\* A handler needs the lock, so an exposed operation begins without a delivery
\* under way; a delivery that begins during one is noted.
LEMMA GapStep ==
  ASSUME TypeInv, GapState, [Next]_vars
  PROVE  GapState'
  <1> USE IdleOp DEF GapState, Held
  <1>1. CASE Handler
    <2>1. ~Held /\ arriving' = arriving
      BY <1>1 DEF Handler, Key, Submit, worker, Navigate, TypeChar, Backspace, ClearQuery,
          Tab, OpenHelp, CloseHelp, ChooseFolder, Escape, ChooseAction, EnterSearch,
          EnterSong, EnterQuality, EnterAlbum, EnterPlaylist, EnterAction,
          EnterPlaylistTrack, DownloadAll
    <2> QED
      BY <2>1
  <1>2. CASE Unlocked
    <2>1. op'.do \in Exposed => op.do \in Exposed
      <3>1. CASE StorePickerMode \/ StorePickerCursor
        BY <3>1 DEF StorePickerMode, StorePickerCursor, Stored, Exposed
      <3>2. CASE AskSearch \/ AskPlaylist \/ AskDownload \/ AskAlbum \/ AskCurrent
        BY <3>2 DEF AskSearch, AskPlaylist, AskDownload, AskAlbum, AskCurrent, Push, Op, Exposed
      <3>3. CASE ShowTracks \/ PushTask
        BY <3>3 DEF ShowTracks, PushTask
      <3> QED
        BY <1>2, <3>1, <3>2, <3>3 DEF Unlocked
    <2>2. arriving' = arriving /\ overtaken' = overtaken
      BY <1>2 DEF Unlocked, worker, history, AskSearch, AskPlaylist, AskDownload, AskAlbum,
          AskCurrent, StorePickerMode, StorePickerCursor, ShowTracks, PushTask
    <2> QED
      BY <2>1, <2>2
  <1>3. CASE Background
    BY <1>3 DEF Background, history, PopTask, FinishQuietly, Deliver, PublishTracks,
        PublishAlbums, PublishPlaylist
  <1>4. CASE UNCHANGED vars
    BY <1>4 DEF vars, worker, history
  <1> QED
    BY <1>1, <1>2, <1>3, <1>4 DEF Next

LEMMA HelpStep ==
  ASSUME TypeInv, HelpState, [Next]_vars
  PROVE  HelpState'
  <1> USE DEF HelpState
  <1>1. CASE Handler
    BY <1>1 DEF Handler, Key, Submit, Navigate, TypeChar, Backspace, ClearQuery, Tab,
        OpenHelp, CloseHelp, ChooseFolder, Escape, ChooseAction, EnterSearch, EnterSong,
        EnterQuality, EnterAlbum, EnterPlaylist, EnterAction, EnterPlaylistTrack, DownloadAll
  <1>2. CASE Unlocked
    BY <1>2 DEF Unlocked, AskSearch, AskPlaylist, AskDownload, AskAlbum, AskCurrent,
        StorePickerMode, StorePickerCursor, ShowTracks, PushTask
  <1>3. CASE Background
    BY <1>3 DEF Background, PopTask, FinishQuietly, Deliver, PublishTracks,
        PublishAlbums, PublishPlaylist
  <1>4. CASE UNCHANGED vars
    BY <1>4 DEF vars
  <1> QED
    BY <1>1, <1>2, <1>3, <1>4 DEF Next

\* The picker opens for a playlist only with its answer, and nothing that sets
\* the index, the url or the tracks leaves it open (main.c:546-567, 907-913).
LEMMA PickerStep ==
  ASSUME TypeInv, HelpState, PickerState, [Next]_vars
  PROVE  PickerState'
  <1> USE DEF PickerState
  <1>1. CASE Navigate \/ TypeChar \/ Backspace \/ ClearQuery \/ ChooseFolder \/ ChooseAction
             \/ EnterSearch \/ EnterSong \/ EnterPlaylistTrack \/ DownloadAll
    BY <1>1 DEF Navigate, TypeChar, Backspace, ClearQuery, ChooseFolder, ChooseAction,
        EnterSearch, EnterSong, EnterPlaylistTrack, DownloadAll, playlist, history
  <1>2. CASE Tab \/ OpenHelp \/ Escape \/ EnterQuality \/ EnterPlaylist \/ EnterAction
    BY <1>2 DEF Tab, OpenHelp, Escape, EnterQuality, EnterPlaylist, EnterAction, Key, Submit
  <1>3. CASE CloseHelp
    BY <1>3 DEF CloseHelp, HelpState, Key
  <1>4. CASE EnterAlbum
    BY <1>4 DEF EnterAlbum, OnRow
  <1>5. CASE AskSearch \/ AskPlaylist \/ AskDownload \/ AskAlbum \/ AskCurrent
             \/ StorePickerMode \/ StorePickerCursor \/ ShowTracks \/ PushTask
    BY <1>5 DEF AskSearch, AskPlaylist, AskDownload, AskAlbum, AskCurrent, StorePickerMode,
        StorePickerCursor, ShowTracks, PushTask, playlist, history
  <1>6. CASE PopTask \/ FinishQuietly \/ Deliver
    BY <1>6 DEF PopTask, FinishQuietly, Deliver, playlist, history
  <1>7. CASE PublishTracks \/ PublishAlbums
    BY <1>7 DEF PublishTracks, PublishAlbums
  <1>8. CASE PublishPlaylist
    <2> DEFINE url == active.item.from
    <2>0. url \in Url /\ playlists \in Seq(Url) /\ searchType' = searchType
      BY <1>8 DEF PublishPlaylist, TypeInv, TypeOK, PlaylistTypes, WellFormed, Fetches
    <2>1. PICK slot \in 1 .. (Len(playlists) + 1) :
            /\ IsPlace(url, slot)
            /\ \/ UNCHANGED <<mode, playlist, tracksOf>>
               \/ /\ playlists' = IF slot > Len(playlists) THEN Append(playlists, url)
                                                           ELSE playlists
                  /\ tracksOf' = url /\ currentUrl' = url /\ currentIndex' = slot - 1
      BY <1>8 DEF PublishPlaylist
    <2>2. CASE UNCHANGED <<mode, playlist, tracksOf>>
      BY <2>0, <2>2 DEF playlist
    <2>3. CASE /\ playlists' = IF slot > Len(playlists) THEN Append(playlists, url)
                                                        ELSE playlists
               /\ tracksOf' = url /\ currentUrl' = url /\ currentIndex' = slot - 1
      <3>1. slot \in 1 .. Len(playlists') /\ playlists'[slot] = url
        <4>1. CASE slot > Len(playlists)
          BY <2>0, <2>3, <4>1
        <4>2. CASE slot <= Len(playlists)
          BY <2>0, <2>1, <2>3, <4>2 DEF IsPlace
        <4> QED
          BY <2>0, <4>1, <4>2
      <3>2. currentIndex' + 1 = slot /\ currentIndex' < Len(playlists')
        BY <2>3, <3>1
      <3> QED
        BY <2>3, <3>1, <3>2
    <2> QED
      BY <2>1, <2>2, <2>3
  <1>9. CASE UNCHANGED vars
    BY <1>9 DEF vars, playlist, history
  <1> QED
    BY <1>1, <1>2, <1>3, <1>4, <1>5, <1>6, <1>7, <1>8, <1>9
    DEF Next, Handler, Unlocked, Background

\* The track list of a playlist is entered from its picker; a delivery leaves it
\* or, in the gap, is noted (main.c:1104-1114).
LEMMA PlaylistScreenStep ==
  ASSUME TypeInv, GapState, HelpState, PickerState, ScreenState, [Next]_vars
  PROVE  ScreenState'
  <1> USE IdleOp DEF ScreenState
  <1>1. CASE Navigate \/ TypeChar \/ Backspace \/ ClearQuery \/ Tab \/ ChooseFolder
             \/ OpenHelp \/ Escape \/ ChooseAction \/ EnterAlbum
    BY <1>1 DEF Navigate, TypeChar, Backspace, ClearQuery, Tab, ChooseFolder, OpenHelp,
        Escape, ChooseAction, EnterAlbum, playlist, history, Key
  <1>2. CASE CloseHelp
    BY <1>2 DEF CloseHelp, HelpState, Key
  <1>3. CASE EnterSearch \/ EnterSong \/ EnterQuality \/ EnterPlaylist
    <2>1. mode' # "PLAYLIST_TRACKS"
      BY <1>3 DEF EnterSearch, EnterSong, EnterQuality, EnterPlaylist, Key, Submit
    <2>2. op'.do # "showTracks"
      <3>1. CASE EnterSearch \/ EnterPlaylist
        BY <3>1 DEF EnterSearch, EnterPlaylist, Op, TypeInv, TypeOK, ScreenTypes, SearchType
      <3>2. CASE EnterSong \/ EnterQuality
        <4>1. \/ op' = Op("askDownload", Item(0, cursor), {})
              \/ op' = Op("openPicker", Item(0, cursor), {"mode", "cursor"})
          BY <3>2 DEF EnterSong, EnterQuality
        <4> QED
          BY <4>1 DEF Op
      <3> QED
        BY <1>3, <3>1, <3>2
    <2> QED
      BY <2>1, <2>2
  <1>4. CASE EnterAction
    <2>1. CASE searchType = "PLAYLISTS"
      BY <1>4, <2>1 DEF EnterAction, Key, PickerState, playlist
    <2>2. CASE searchType # "PLAYLISTS"
      BY <1>4, <2>2 DEF EnterAction, Op
    <2> QED
      BY <2>1, <2>2
  <1>5. CASE EnterPlaylistTrack \/ DownloadAll
    BY <1>5 DEF EnterPlaylistTrack, DownloadAll, Key, Submit, playlist
  <1>6. CASE AskSearch \/ AskPlaylist \/ AskDownload \/ AskAlbum \/ AskCurrent
    <2>1. op'.do # "showTracks"
      BY <1>6 DEF AskSearch, AskPlaylist, AskDownload, AskAlbum, AskCurrent, Push, Op
    <2> QED
      BY <1>6, <2>1 DEF AskSearch, AskPlaylist, AskDownload, AskAlbum, AskCurrent,
          playlist, history
  <1>7. CASE StorePickerMode \/ StorePickerCursor
    <2>1. op'.do # "showTracks"
      <3>1. op' = Idle \/ \E what : op' = [op EXCEPT !.writes = @ \ {what}]
        BY <1>7 DEF StorePickerMode, StorePickerCursor, Stored
      <3>2. op.do = "openPicker"
        BY <1>7 DEF StorePickerMode, StorePickerCursor
      <3> QED
        BY <3>1, <3>2 DEF TypeInv, TypeOK, OpTypes
    <2>2. mode' # "PLAYLIST_TRACKS" \/ UNCHANGED <<mode, playlist, history>>
      BY <1>7 DEF StorePickerMode, StorePickerCursor
    <2> QED
      BY <2>1, <2>2 DEF playlist, history
  <1>8. CASE ShowTracks \/ PushTask
    BY <1>8 DEF ShowTracks, PushTask, playlist, history
  <1>9. CASE PopTask \/ FinishQuietly \/ Deliver
    BY <1>9 DEF PopTask, FinishQuietly, Deliver, playlist, history
  <1>10. CASE PublishTracks \/ PublishAlbums \/ PublishPlaylist
    <2>1. op.do = "showTracks" => overtaken /\ op' = op /\ overtaken' = overtaken
      BY <1>10 DEF PublishTracks, PublishAlbums, PublishPlaylist, GapState, Exposed, history
    <2>2. CASE op'.do = "showTracks"
      BY <1>10, <2>1, <2>2 DEF PublishTracks, PublishAlbums, PublishPlaylist, history
    <2>3. CASE op'.do # "showTracks"
      <3>1. \/ mode' # "PLAYLIST_TRACKS"
            \/ UNCHANGED <<mode, playlist, tracksOf>> /\ overtaken' = overtaken
        BY <1>10 DEF PublishTracks, PublishAlbums, PublishPlaylist
      <3> QED
        BY <2>3, <3>1 DEF playlist
    <2> QED
      BY <2>2, <2>3
  <1>11. CASE UNCHANGED vars
    BY <1>11 DEF vars, playlist, history
  <1> QED
    BY <1>1, <1>2, <1>3, <1>4, <1>5, <1>6, <1>7, <1>8, <1>9, <1>10, <1>11
    DEF Next, Handler, Unlocked, Background

\* Slots and counts that a racing read can return when no delivery is under way
\* are those of the lists themselves.
LEMMA QuietReads ==
  ASSUME GapState, ~overtaken, op.do \in Exposed
  PROVE  /\ ~Held
         /\ \A list, i, racing : ReadSlot(list, i, racing) = {list[i]}
         /\ \A count, racing : ReadCount(count, racing) = {count}
         /\ ReadUrl = {currentUrl}
  BY DEF GapState, ReadSlot, ReadCount, ReadUrl

\* The chosen item is kept from the key that chose it to the task, stage by
\* stage, as long as no delivery falls into a gap (main.c:686-757, 884-1191).
LEMMA SelectionStep ==
  ASSUME TypeInv, GapState, HelpState, PickerState, ScreenState, OpState, [Next]_vars
  PROVE  OpState'
  <1> USE IdleOp DEF Downloads, Exposed
  <1>1. CASE overtaken
    <2>1. overtaken' = overtaken \/ Deliver
      BY DEF Next, Handler, Unlocked, Background, vars, history,
        Navigate, TypeChar, Backspace, ClearQuery, Tab, OpenHelp, CloseHelp,
        ChooseFolder, Escape, ChooseAction, EnterSearch, EnterSong, EnterQuality,
        EnterAlbum, EnterPlaylist, EnterAction, EnterPlaylistTrack, DownloadAll,
        AskSearch, AskPlaylist, AskDownload, AskAlbum, AskCurrent, StorePickerMode,
        StorePickerCursor, ShowTracks, PushTask, PopTask, FinishQuietly,
        PublishTracks, PublishAlbums, PublishPlaylist
    <2>2. overtaken'
      BY <1>1, <2>1 DEF Deliver
    <2> QED
      BY <2>2 DEF OpState
  <1>2. CASE ~overtaken /\ (Navigate \/ TypeChar \/ Backspace \/ ClearQuery \/ Tab
                             \/ OpenHelp \/ CloseHelp \/ ChooseFolder \/ Escape
                             \/ ChooseAction \/ EnterAlbum)
    <2>1. op = Idle /\ op' = op
      BY <1>2 DEF Navigate, TypeChar, Backspace, ClearQuery, Tab, OpenHelp, CloseHelp,
          ChooseFolder, Escape, ChooseAction, EnterAlbum, Key
    <2>2. mode' # "QUALITY"
      BY <1>2 DEF Navigate, TypeChar, Backspace, ClearQuery, Tab, OpenHelp, CloseHelp,
          ChooseFolder, Escape, ChooseAction, EnterAlbum, Key, HelpState
    <2> QED
      BY <2>1, <2>2 DEF OpState
  <1>3. CASE ~overtaken /\ (EnterSearch \/ EnterPlaylist)
    <2>1. op'.do \in {"askSearch", "askAlbums", "askPlaylist"}
      BY <1>3 DEF EnterSearch, EnterPlaylist, Op, TypeInv, TypeOK, ScreenTypes, SearchType
    <2>2. mode' # "QUALITY"
      BY <1>3 DEF EnterSearch, EnterPlaylist, Submit, Key
    <2> QED
      BY <2>1, <2>2 DEF OpState
  <1>4. CASE ~overtaken /\ (EnterSong \/ EnterPlaylistTrack)
    <2>1. \/ op' = Op("askDownload", Item(0, cursor), {})
          \/ op' = Op("openPicker", Item(0, cursor), {"mode", "cursor"})
             /\ cursor < trackCount
      BY <1>4 DEF EnterSong, EnterPlaylistTrack, OnRow, ListLength
    <2>2. chosen' = Item(tracks[cursor], cursor) /\ tracks' = tracks /\ trackCount' = trackCount
      BY <1>4 DEF EnterSong, EnterPlaylistTrack, lists
    <2>3. /\ op'.do \in {"askDownload", "openPicker"}
          /\ op'.item.at = cursor
          /\ op'.do = "openPicker" => cursor < trackCount /\ "cursor" \in op'.writes
      BY <2>1 DEF Op, Item
    <2>4. mode' # "QUALITY"
      BY <1>4 DEF EnterSong, EnterPlaylistTrack, Submit, Key
    <2> QED
      BY <2>2, <2>3, <2>4 DEF OpState
  <1>5. CASE ~overtaken /\ EnterQuality
    <2>1. op' = Op("askDownload", Item(0, cursor), {})
      BY <1>5 DEF EnterQuality
    <2>2. op'.do = "askDownload" /\ op'.item.at = cursor
      BY <2>1 DEF Op, Item
    <2>3. Item(tracks[cursor], cursor) = chosen
      BY <1>5 DEF EnterQuality, Submit, Key, OpState
    <2>4. mode' # "QUALITY" /\ chosen' = chosen /\ tracks' = tracks
      BY <1>5 DEF EnterQuality, lists, history
    <2> QED
      BY <2>2, <2>3, <2>4 DEF OpState
  <1>6. CASE ~overtaken /\ EnterAction
    <2>0. mode' # "QUALITY"
      BY <1>6 DEF EnterAction
    <2>1. CASE searchType = "PLAYLISTS"
      <3>1. op' = Op("showTracks", NoItem, {}) \/ op' = Op("askCurrent", NoItem, {})
        BY <1>6, <2>1 DEF EnterAction
      <3>2. op'.do \in {"showTracks", "askCurrent"}
        BY <3>1 DEF Op
      <3>3. ShownInPicker = Item(currentUrl, 0)
        BY <1>6, <2>1 DEF EnterAction, Key, PickerState, ShownInPicker, ShownPlaylist
      <3>4. chosen' = Item(currentUrl, 0) /\ currentUrl' = currentUrl
        BY <1>6, <3>3 DEF EnterAction, playlist
      <3> QED
        BY <2>0, <3>2, <3>4 DEF OpState
    <2>2. CASE searchType # "PLAYLISTS"
      <3>1. op' = Op("askAlbum", Item(0, cursor), {}) \/ op' = Op("askBrowse", Item(0, cursor), {})
        BY <1>6, <2>2 DEF EnterAction
      <3>2. op'.do \in {"askAlbum", "askBrowse"} /\ op'.item.at = cursor
        BY <3>1 DEF Op, Item
      <3>3. chosen' = Item(albums[cursor], cursor) /\ albums' = albums
        BY <1>6, <2>2 DEF EnterAction, ShownInPicker, ShownPlaylist, lists
      <3> QED
        BY <2>0, <3>2, <3>3 DEF OpState
    <2> QED
      BY <2>1, <2>2
  <1>7. CASE ~overtaken /\ DownloadAll
    <2>1. tracksOf = currentUrl
      BY <1>7 DEF DownloadAll, Submit, Key, ScreenState
    <2>2. mode' # "QUALITY" /\ chosen' = Item(tracksOf, 0)
      BY <1>7 DEF DownloadAll, Submit, Key
    <2>3. op' = Idle \/ op' = Op("PLAYLIST_DOWNLOAD", Item(currentUrl, 0), {})
      BY <1>7 DEF DownloadAll
    <2>4. \/ op'.do = "idle"
          \/ op'.do = "PLAYLIST_DOWNLOAD" /\ op'.item = Item(currentUrl, 0)
      BY <2>3 DEF Op
    <2> QED
      BY <2>1, <2>2, <2>4 DEF OpState
  <1>8. CASE ~overtaken /\ (AskSearch \/ AskPlaylist)
    <2>1. op'.do \in {"idle", "SEARCH", "ALBUM_SEARCH", "PLAYLIST_FETCH"}
      BY <1>8 DEF AskSearch, AskPlaylist, Push, Op
    <2>2. mode' # "QUALITY"
      BY <1>8 DEF AskSearch, AskPlaylist, OpState
    <2> QED
      BY <2>1, <2>2 DEF OpState
  <1>9. CASE ~overtaken /\ (AskDownload \/ AskAlbum \/ AskCurrent)
    <2>1. mode' # "QUALITY" /\ chosen' = chosen
      BY <1>9 DEF AskDownload, AskAlbum, AskCurrent, OpState, history
    <2>2. op' = Idle \/ \E do \in Downloads : op' = Op(do, chosen, {})
      <3>1. CASE AskDownload
        <4>1. ReadSlot(tracks, op.item.at, ToTracks) = {tracks[op.item.at]}
          BY <1>9, <3>1, QuietReads DEF AskDownload
        <4>2. op' = Idle \/ op' = Op("DOWNLOAD", Item(tracks[op.item.at], op.item.at), {})
          BY <3>1, <4>1 DEF AskDownload, Push
        <4> QED
          BY <1>9, <3>1, <4>2 DEF AskDownload, OpState
      <3>2. CASE AskAlbum
        <4>1. ReadSlot(albums, op.item.at, ToAlbums) = {albums[op.item.at]}
          BY <1>9, <3>2, QuietReads DEF AskAlbum
        <4>2. op' = Idle \/ \E do \in Downloads :
                                 op' = Op(do, Item(albums[op.item.at], op.item.at), {})
          BY <3>2, <4>1 DEF AskAlbum, Push
        <4> QED
          BY <1>9, <3>2, <4>2 DEF AskAlbum, OpState
      <3>3. CASE AskCurrent
        <4>1. ReadUrl = {currentUrl}
          BY <1>9, <3>3, QuietReads DEF AskCurrent
        <4>2. op' = Idle \/ op' = Op("PLAYLIST_DOWNLOAD", Item(currentUrl, 0), {})
          BY <3>3, <4>1 DEF AskCurrent, Push
        <4> QED
          BY <1>9, <3>3, <4>2 DEF AskCurrent, OpState
      <3> QED
        BY <1>9, <3>1, <3>2, <3>3
    <2>3. op'.do = "idle" \/ (op'.do \in Downloads /\ op'.item = chosen)
      <3>1. op' = Idle => op'.do = "idle"
        OBVIOUS
      <3>2. CASE op' # Idle
        <4>1. PICK do \in Downloads : op' = Op(do, chosen, {})
          BY <2>2, <3>2
        <4>2. op'.do = do /\ op'.item = chosen
          BY ONLY <4>1 DEF Op
        <4> QED
          BY <4>2
      <3> QED
        BY <3>1, <3>2
    <2> QED
      BY <2>1, <2>3 DEF OpState
  <1>10. CASE ~overtaken /\ (StorePickerMode \/ StorePickerCursor)
    <2>1. /\ op.do = "openPicker" /\ op.item.at < trackCount
          /\ Item(tracks[op.item.at], op.item.at) = chosen
          /\ UNCHANGED <<tracks, trackCount, chosen>>
      BY <1>10 DEF StorePickerMode, StorePickerCursor, OpState, lists, history
    <2>2. CASE StorePickerMode
      <3>1. "mode" \in op.writes /\ Stored("mode") /\ cursor' = cursor
        BY <2>2 DEF StorePickerMode
      <3>2. CASE op' = Idle
        <4>1. op.writes = {"mode"}
          BY <2>1, <3>1, <3>2 DEF Stored, TypeInv, TypeOK, OpTypes
        <4>2. "cursor" \notin op.writes
          BY <4>1
        <4>3. cursor = op.item.at
          BY <1>10, <2>1, <4>2 DEF OpState
        <4> QED
          BY <2>1, <3>1, <3>2, <4>3 DEF OpState
      <3>3. CASE op' # Idle
        <4>1. op' = [op EXCEPT !.writes = @ \ {"mode"}]
          BY <3>1, <3>3 DEF Stored
        <4>2. /\ op'.do = "openPicker" /\ op'.item = op.item
              /\ "cursor" \in op.writes => "cursor" \in op'.writes
          BY <2>1, <4>1 DEF TypeInv, TypeOK, OpTypes
        <4> QED
          BY <1>10, <2>1, <3>1, <4>2 DEF OpState
      <3> QED
        BY <3>2, <3>3
    <2>3. CASE StorePickerCursor
      <3>1. Stored("cursor") /\ cursor' = op.item.at
        BY <2>3 DEF StorePickerCursor
      <3>2. CASE op' = Idle
        BY <2>1, <3>1, <3>2 DEF OpState
      <3>3. CASE op' # Idle
        <4>1. op' = [op EXCEPT !.writes = @ \ {"cursor"}]
          BY <3>1, <3>3 DEF Stored
        <4>2. op'.do = "openPicker" /\ op'.item = op.item
          BY <2>1, <4>1 DEF TypeInv, TypeOK, OpTypes
        <4> QED
          BY <2>1, <3>1, <4>2 DEF OpState
      <3> QED
        BY <3>2, <3>3
    <2> QED
      BY <1>10, <2>2, <2>3
  <1>11. CASE ~overtaken /\ (ShowTracks \/ PushTask)
    <2>1. op' = Idle
      BY <1>11 DEF ShowTracks, PushTask
    <2>2. mode' # "QUALITY"
      BY <1>11 DEF ShowTracks, PushTask, OpState, TaskKind
    <2> QED
      BY <2>1, <2>2 DEF OpState
  <1>12. CASE ~overtaken /\ (PopTask \/ FinishQuietly)
    <2>1. UNCHANGED <<mode, op, tracks, trackCount, albums, currentUrl, cursor, chosen>>
      BY <1>12 DEF PopTask, FinishQuietly, lists, playlist, history
    <2> QED
      BY <1>12, <2>1 DEF OpState
  <1>13. CASE ~overtaken /\ Deliver
    <2>1. UNCHANGED <<mode, op, tracks, trackCount, albums, currentUrl, cursor, chosen>>
      BY <1>13 DEF Deliver, lists, playlist
    <2> QED
      BY <1>13, <2>1 DEF OpState
  <1>14. CASE ~overtaken /\ (PublishTracks \/ PublishAlbums \/ PublishPlaylist)
    <2>1. op.do \notin Exposed /\ op' = op /\ chosen' = chosen
      BY <1>14 DEF PublishTracks, PublishAlbums, PublishPlaylist, GapState, history
    <2>2. mode' # "QUALITY" \/ UNCHANGED <<mode, cursor, tracks, trackCount>>
      <3>1. CASE PublishTracks \/ PublishAlbums
        BY <3>1 DEF PublishTracks, PublishAlbums
      <3>2. CASE PublishPlaylist
        BY <3>2 DEF PublishPlaylist
      <3> QED
        BY <1>14, <3>1, <3>2
    <2>3. op.do \in Downloads => op.item = chosen
      BY <1>14 DEF OpState
    <2>4. /\ mode = "QUALITY" => op.do \in {"idle", "openPicker"}
          /\ mode = "QUALITY" /\ op.do = "idle" =>
               cursor < trackCount /\ Item(tracks[cursor], cursor) = chosen
      BY <1>14 DEF OpState
    <2> QED
      BY <2>1, <2>2, <2>3, <2>4 DEF OpState
  <1>15. CASE UNCHANGED vars
    BY <1>15 DEF vars, lists, playlist, history, OpState
  <1> QED
    BY <1>1, <1>2, <1>3, <1>4, <1>5, <1>6, <1>7, <1>8, <1>9, <1>10, <1>11, <1>12, <1>13,
       <1>14, <1>15
    DEF Next, Handler, Unlocked, Background

LEMMA InvInit == Init => IInv
  <1> SUFFICES ASSUME Init
               PROVE  IInv
    OBVIOUS
  <1> USE DEF Init
  <1>1. TypeInv
    BY TypeInit
  <1>2. op.do = "idle" /\ ~Held
    BY IdleOp DEF Held
  <1>3. ListIsOneAnswer
    BY DEF ListIsOneAnswer
  <1>4. GapState /\ HelpState /\ PickerState /\ ScreenState
    BY <1>2 DEF GapState, HelpState, PickerState, ScreenState
  <1>5. OpState
    BY <1>2 DEF OpState, Downloads
  <1> QED
    BY <1>1, <1>3, <1>4, <1>5 DEF IInv

\* The inductive invariant holds in every reachable state.
THEOREM Invariance == RoomForARow => (Spec => []IInv)
  <1> SUFFICES ASSUME RoomForARow PROVE Spec => []IInv
    OBVIOUS
  <1>1. IInv /\ [Next]_vars => IInv'
    <2>1. TypeInv /\ [Next]_vars => TypeInv'
      BY ScreenStep, ListStep, PlaylistStep, OpStep, WorkerStep, WellFormedStep
      DEF TypeInv, TypeOK
    <2> QED
      BY <2>1, AnswerStep, GapStep, HelpStep, PickerStep, PlaylistScreenStep, SelectionStep
      DEF IInv
  <1> QED
    BY InvInit, <1>1, PTL DEF Spec

------------------------------------------------------------------------------
(* What the invariant says of the program.                                 *)

\* No screen ever shows rows of two answers, however long the lists.
THEOREM AnswersNotMixed == RoomForARow => (Spec => []ListIsOneAnswer)
  <1> SUFFICES ASSUME RoomForARow PROVE Spec => []ListIsOneAnswer
    OBVIOUS
  <1>0. Spec => []IInv
    BY Invariance
  <1>1. IInv => ListIsOneAnswer
    BY DEF IInv
  <1> QED
    BY <1>0, <1>1, PTL

\* The picker of a playlist names the playlist it downloads and browses.
THEOREM PickerCorrect == RoomForARow => (Spec => []PickerNamesItsPlaylist)
  <1> SUFFICES ASSUME RoomForARow PROVE Spec => []PickerNamesItsPlaylist
    OBVIOUS
  <1>0. Spec => []IInv
    BY Invariance
  <1>1. IInv => PickerNamesItsPlaylist
    BY DEF IInv, PickerState, PickerNamesItsPlaylist, ShownPlaylist
  <1> QED
    BY <1>0, <1>1, PTL

\* A confirmed selection becomes a task for that item, but for a delivery in a
\* handler's gap; with no bound on the tasks, the lists or the queue.
THEOREM SelectionCorrect == RoomForARow => (Spec => []SelectionHonoured)
  <1> SUFFICES ASSUME RoomForARow PROVE Spec => []SelectionHonoured
    OBVIOUS
  <1>0. Spec => []IInv
    BY Invariance
  <1>1. IInv => SelectionHonoured
    BY DEF IInv, OpState, SelectionHonoured
  <1> QED
    BY <1>0, <1>1, PTL

\* The track list of a playlist is the list of the playlist that `a' downloads.
THEOREM ScreenCorrect == RoomForARow => (Spec => []PlaylistScreenIsCurrent)
  <1> SUFFICES ASSUME RoomForARow PROVE Spec => []PlaylistScreenIsCurrent
    OBVIOUS
  <1>0. Spec => []IInv
    BY Invariance
  <1>1. IInv => PlaylistScreenIsCurrent
    BY DEF IInv, ScreenState, PlaylistScreenIsCurrent
  <1> QED
    BY <1>0, <1>1, PTL

\* The open picker of qualities stands on the row it was opened for.
THEOREM QualityPickerCorrect == RoomForARow => (Spec => []PickerHasItsTrack)
  <1> SUFFICES ASSUME RoomForARow PROVE Spec => []PickerHasItsTrack
    OBVIOUS
  <1>0. Spec => []IInv
    BY Invariance
  <1>1. IInv => PickerHasItsTrack
    BY IdleOp DEF IInv, OpState, PickerHasItsTrack
  <1> QED
    BY <1>0, <1>1, PTL
------------------------------------------------------------------------------
(* The queue of the session is the serial executor.                        *)

\* Operations that will not end in a task.
NoTaskAhead == {"idle", "openPicker", "showTracks"}

\* Tasks wait in the order of their numbers behind the one that runs, and what
\* the user has started was started below the bound on tasks.
QueueState ==
  /\ Len(pending) <= pushed
  /\ \A i \in 1 .. Len(pending) : pending[i].id = (pushed - Len(pending)) + i
  /\ active # NoTask => active.id = pushed - Len(pending) /\ active.id > 0
  /\ op.do \notin NoTaskAhead => pushed < MaxTasks

LEMMA QueueInit == Init => QueueState
  <1> SUFFICES ASSUME Init
               PROVE  QueueState
    OBVIOUS
  <1>1. Len(pending) = 0 /\ pushed = 0 /\ active = NoTask /\ op = Idle
    BY DEF Init
  <1> QED
    BY <1>1, IdleOp DEF QueueState, NoTaskAhead

\* A key starts a task only below the bound, and what follows pushes at most one.
LEMMA AheadStep ==
  ASSUME TypeInv, QueueState, [Next]_vars
  PROVE  (op.do \notin NoTaskAhead => pushed < MaxTasks)'
  <1> USE IdleOp DEF QueueState, NoTaskAhead, Op
  <1>1. CASE EnterSearch \/ EnterSong \/ EnterQuality \/ EnterPlaylist
             \/ EnterPlaylistTrack \/ DownloadAll
    BY <1>1 DEF EnterSearch, EnterSong, EnterQuality, EnterPlaylist, EnterPlaylistTrack,
         DownloadAll, Submit, history
  <1>2. CASE EnterAction
    BY <1>2 DEF EnterAction, Browses
  <1>3. CASE AskSearch \/ AskPlaylist \/ AskDownload \/ AskAlbum \/ AskCurrent
    <2>1. op.do \notin NoTaskAhead /\ pushed' = pushed
      BY <1>3 DEF AskSearch, AskPlaylist, AskDownload, AskAlbum, AskCurrent, history
    <2> QED
      BY <2>1
  <1>4. CASE StorePickerMode \/ StorePickerCursor
    <2>1. op'.do \in {"idle", "openPicker"}
      BY <1>4 DEF StorePickerMode, StorePickerCursor, Stored, TypeInv, TypeOK, OpTypes
    <2> QED
      BY <2>1
  <1>5. CASE ShowTracks \/ PushTask
    BY <1>5 DEF ShowTracks, PushTask
  <1>6. CASE UNCHANGED <<op, pushed>>
    BY <1>6
  <1> QED
    BY <1>1, <1>2, <1>3, <1>4, <1>5, <1>6
    DEF Next, Handler, Unlocked, Background, vars, history,
        Navigate, TypeChar, Backspace, ClearQuery, Tab, OpenHelp, CloseHelp,
        ChooseFolder, Escape, ChooseAction, EnterAlbum,
        PopTask, FinishQuietly, Deliver, PublishTracks, PublishAlbums, PublishPlaylist

\* The three kinds of step that the queue knows; all others leave it alone.
Pushes   == PushTask /\ pushed' = pushed + 1
Finishes == FinishQuietly \/ PublishTracks \/ PublishAlbums \/ PublishPlaylist
Queue    == <<pushed, pending, active>>

LEMMA QueueCases ==
  ASSUME TypeInv, [Next]_vars
  PROVE  Pushes \/ PopTask \/ Finishes \/ UNCHANGED Queue
  <1>1. PushTask => Pushes \/ UNCHANGED Queue
    BY DEF PushTask, Pushes, Queue
  <1>2. CASE Finishes \/ PopTask \/ PushTask
    BY <1>1, <1>2
  <1>3. CASE Deliver
    BY <1>3 DEF Deliver, Queue
  <1>4. CASE UNCHANGED Queue
    BY <1>4
  <1> QED
    BY <1>2, <1>3, <1>4
    DEF Next, Handler, Unlocked, Background, vars, history, worker, Queue, Finishes,
        Navigate, TypeChar, Backspace, ClearQuery, Tab, OpenHelp, CloseHelp,
        ChooseFolder, Escape, ChooseAction, EnterSearch, EnterSong, EnterQuality,
        EnterAlbum, EnterPlaylist, EnterAction, EnterPlaylistTrack, DownloadAll,
        AskSearch, AskPlaylist, AskDownload, AskAlbum, AskCurrent, StorePickerMode,
        StorePickerCursor, ShowTracks

\* A worker that finishes was running something, and says so only then.
LEMMA FinishStep ==
  ASSUME TypeInv, Finishes
  PROVE  /\ active # NoTask /\ active' = NoTask
         /\ pending' = pending /\ pushed' = pushed
  <1>1. PublishTracks \/ PublishAlbums \/ PublishPlaylist => active # NoTask
    BY DEF PublishTracks, PublishAlbums, PublishPlaylist, NoTask, Task
  <1> QED
    BY <1>1 DEF Finishes, FinishQuietly, PublishTracks, PublishAlbums, PublishPlaylist, history

LEMMA QueueStep ==
  ASSUME TypeInv, TypeInv', QueueState, [Next]_vars
  PROVE  QueueState'
  <1> USE DEF TypeInv, TypeOK, WorkerTypes
  <1>1. CASE Pushes
    <2> DEFINE t == Task(op.do, pushed + 1, op.item)
    <2>1. /\ pending' = Append(pending, t) /\ pushed' = pushed + 1 /\ active' = active
          /\ t.id = pushed + 1 /\ t \in TaskSet
      BY <1>1 DEF Pushes, PushTask, Task, TaskSet, OpTypes
    <2> HIDE DEF t
    <2>2. /\ Len(pending') = Len(pending) + 1
          /\ \A i \in 1 .. Len(pending) : pending'[i] = pending[i]
          /\ pending'[Len(pending) + 1] = t
      BY <2>1, AppendProperties
    <2>3. ASSUME NEW i \in 1 .. Len(pending')
          PROVE  pending'[i].id = (pushed' - Len(pending')) + i
      <3>1. pushed' - Len(pending') = pushed - Len(pending)
        BY <2>1, <2>2
      <3>2. CASE i \in 1 .. Len(pending)
        BY <2>2, <3>1, <3>2 DEF QueueState
      <3>3. CASE i = Len(pending) + 1
        BY <2>1, <2>2, <3>1, <3>3
      <3> QED
        BY <2>2, <3>2, <3>3
    <2> QED
      BY <2>1, <2>2, <2>3, AheadStep DEF QueueState
  <1>2. CASE PopTask
    <2>1. /\ pending # << >> /\ pushed' = pushed
          /\ active' = Head(pending) /\ pending' = Tail(pending)
      BY <1>2 DEF PopTask, history
    <2>2. /\ Len(pending) # 0 /\ Head(pending) = pending[1]
          /\ Len(pending') = Len(pending) - 1
          /\ \A i \in 1 .. Len(pending') : pending'[i] = pending[i + 1]
      BY <2>1, HeadTailProperties, EmptySeq
    <2>3. \A i \in 1 .. Len(pending') : pending'[i].id = (pushed' - Len(pending')) + i
      BY <2>1, <2>2 DEF QueueState
    <2>4. active'.id = pushed' - Len(pending') /\ active'.id > 0
      BY <2>1, <2>2 DEF QueueState
    <2> QED
      BY <2>1, <2>2, <2>3, <2>4, AheadStep DEF QueueState
  <1>3. CASE Finishes
    BY <1>3, FinishStep, AheadStep DEF QueueState
  <1>4. CASE UNCHANGED Queue
    BY <1>4, AheadStep DEF QueueState, Queue
  <1> QED
    BY <1>1, <1>2, <1>3, <1>4, QueueCases

\* What the executor sees, named as its variables are.
Waiting == [i \in 1 .. Len(pending) |-> pending[i].id]
Done    == [i \in 1 .. Completed |-> i]

LEMMA NumbersAppend ==
  ASSUME NEW n \in Nat
  PROVE  Append([i \in 1 .. n |-> i], n + 1) = [i \in 1 .. (n + 1) |-> i]
  <1> DEFINE s == [i \in 1 .. n |-> i]
             t == [i \in 1 .. (n + 1) |-> i]
  <1>1. s \in Seq(Nat) /\ t \in Seq(Nat) /\ Len(s) = n /\ Len(t) = n + 1
    OBVIOUS
  <1>2. /\ Append(s, n + 1) \in Seq(Nat)
        /\ Len(Append(s, n + 1)) = n + 1
        /\ \A i \in 1 .. n : Append(s, n + 1)[i] = s[i]
        /\ Append(s, n + 1)[n + 1] = n + 1
    BY <1>1, AppendProperties, n + 1 \in Nat
  <1>3. \A i \in 1 .. (n + 1) : Append(s, n + 1)[i] = t[i]
    BY <1>2
  <1> QED
    BY <1>1, <1>2, <1>3, SeqEqual

LEMMA IdsAreNumbers ==
  ASSUME NEW s \in Seq(TaskSet), NEW i \in 1 .. Len(s)
  PROVE  s[i].id \in Nat
  <1>1. s[i] \in TaskSet
    BY ElementOfSeq
  <1> QED
    BY <1>1 DEF TaskSet

\* The numbers of a queue, when a task joins and when one leaves.
LEMMA WaitingGrows ==
  ASSUME TypeInv, Pushes
  PROVE  Waiting' = Append(Waiting, pushed + 1)
  <1> USE DEF TypeInv, TypeOK, WorkerTypes
  <1> DEFINE t == Task(op.do, pushed + 1, op.item)
  <1>1. pending' = Append(pending, t) /\ t.id = pushed + 1 /\ t \in TaskSet
    BY DEF Pushes, PushTask, Task, TaskSet, OpTypes
  <1> HIDE DEF t
  <1>2. /\ pending' \in Seq(TaskSet) /\ Len(pending') = Len(pending) + 1
        /\ \A i \in 1 .. Len(pending) : pending'[i] = pending[i]
        /\ pending'[Len(pending) + 1] = t
    BY <1>1, AppendProperties
  <1>3. \A i \in 1 .. Len(pending) : pending[i].id \in Nat
    BY IdsAreNumbers
  <1>4. \A i \in 1 .. Len(pending') : pending'[i].id \in Nat
    BY <1>2, IdsAreNumbers
  <1>5. Waiting \in Seq(Nat) /\ Len(Waiting) = Len(pending)
    BY <1>3 DEF Waiting
  <1>6. Waiting' \in Seq(Nat) /\ Len(Waiting') = Len(pending')
    BY <1>2, <1>4 DEF Waiting
  <1>7. /\ Append(Waiting, pushed + 1) \in Seq(Nat)
        /\ Len(Append(Waiting, pushed + 1)) = Len(pending) + 1
        /\ \A i \in 1 .. Len(pending) : Append(Waiting, pushed + 1)[i] = Waiting[i]
        /\ Append(Waiting, pushed + 1)[Len(pending) + 1] = pushed + 1
    BY <1>5, AppendProperties, pushed + 1 \in Nat
  <1>8. \A i \in 1 .. Len(pending) : Waiting'[i] = Waiting[i]
    BY <1>2 DEF Waiting
  <1>9. Waiting'[Len(pending) + 1] = pushed + 1
    BY <1>1, <1>2 DEF Waiting
  <1>10. \A i \in 1 .. (Len(pending) + 1) : Waiting'[i] = Append(Waiting, pushed + 1)[i]
    BY <1>7, <1>8, <1>9
  <1> QED
    BY <1>2, <1>6, <1>7, <1>10, SeqEqual

LEMMA WaitingShrinks ==
  ASSUME TypeInv, PopTask
  PROVE  /\ Waiting # << >>
         /\ Head(Waiting) = Head(pending).id
         /\ Waiting' = Tail(Waiting)
  <1> USE DEF TypeInv, TypeOK, WorkerTypes
  <1>1. pending # << >> /\ pending' = Tail(pending)
    BY DEF PopTask
  <1>2. /\ Len(pending) \in Nat \ {0} /\ Head(pending) = pending[1]
        /\ pending' \in Seq(TaskSet) /\ Len(pending') = Len(pending) - 1
        /\ \A i \in 1 .. Len(pending') : pending'[i] = pending[i + 1]
    BY <1>1, HeadTailProperties, EmptySeq
  <1>3. \A i \in 1 .. Len(pending) : pending[i].id \in Nat
    BY IdsAreNumbers
  <1>4. Waiting \in Seq(Nat) /\ Len(Waiting) = Len(pending)
    BY <1>3 DEF Waiting
  <1>5. \A i \in 1 .. Len(pending') : pending'[i].id \in Nat
    BY <1>2, IdsAreNumbers
  <1>6. Waiting' \in Seq(Nat) /\ Len(Waiting') = Len(pending')
    BY <1>2, <1>5 DEF Waiting
  <1>7. Waiting # << >> /\ Head(Waiting) = Waiting[1]
    BY <1>2, <1>4
  <1>8. Head(Waiting) = Head(pending).id
    BY <1>2, <1>7 DEF Waiting
  <1>9. /\ Tail(Waiting) \in Seq(Nat) /\ Len(Tail(Waiting)) = Len(pending) - 1
        /\ \A i \in 1 .. (Len(pending) - 1) : Tail(Waiting)[i] = Waiting[i + 1]
    BY <1>4, <1>7, HeadTailProperties
  <1>10. \A i \in 1 .. (Len(pending) - 1) : Waiting'[i] = Tail(Waiting)[i]
    BY <1>2, <1>9 DEF Waiting
  <1> QED
    BY <1>2, <1>6, <1>7, <1>8, <1>9, <1>10, SeqEqual

\* Every step of the session is a step of the executor or leaves it alone.
LEMMA ExecutorStep ==
  ASSUME TypeInv, QueueState, [Next]_vars
  PROVE  [Executor!Next]_(Executor!vars)
  <1> USE DEF TypeInv, TypeOK, WorkerTypes, QueueState
  <1>1. NoTask.id = 0
    BY DEF NoTask, Task
  <1>2. CASE Pushes
    <2>1. /\ Len(pending) < Capacity /\ pushed' = pushed + 1 /\ active' = active
          /\ Len(pending') = Len(pending) + 1 /\ pushed < MaxTasks
      BY <1>2, AppendProperties DEF Pushes, PushTask, NoTaskAhead, TaskKind
    <2>2. Completed' = Completed
      BY <2>1 DEF Completed
    <2>3. Waiting' = Append(Waiting, pushed + 1)
      BY <1>2, WaitingGrows
    <2>4. Len(Waiting) = Len(pending)
      BY DEF Waiting
    <2> QED
      BY <2>1, <2>2, <2>3, <2>4 DEF Executor!Next, Executor!Accept, Waiting
  <1>3. CASE PopTask
    <2>1. /\ active = NoTask /\ pushed' = pushed /\ active' = Head(pending)
          /\ pending # << >> /\ pending' = Tail(pending)
      BY <1>3 DEF PopTask, history
    <2>2. Len(pending') = Len(pending) - 1 /\ Head(pending).id > 0
      BY <2>1, HeadTailProperties, EmptySeq
    <2>3. active' # NoTask
      BY <1>1, <2>1, <2>2
    <2>4. Completed' = Completed
      BY <2>1, <2>2, <2>3 DEF Completed
    <2> QED
      BY <1>1, <1>3, <2>1, <2>4, WaitingShrinks DEF Executor!Next, Executor!Begin, Waiting
  <1>4. CASE Finishes
    <2>1. /\ active # NoTask /\ active' = NoTask
          /\ pending' = pending /\ pushed' = pushed
      BY <1>4, FinishStep
    <2>2. /\ Completed \in Nat /\ active.id = Completed + 1 /\ active.id # 0
          /\ Completed' = Completed + 1
      BY <2>1 DEF Completed
    <2>3. Done' = Append(Done, active.id)
      <3>1. Done' = [i \in 1 .. (Completed + 1) |-> i]
        BY <2>2 DEF Done
      <3> HIDE DEF Completed
      <3>2. Append([i \in 1 .. Completed |-> i], Completed + 1) = [i \in 1 .. (Completed + 1) |-> i]
        BY <2>2, NumbersAppend
      <3> QED
        BY <2>2, <3>1, <3>2 DEF Done
    <2> QED
      BY <1>1, <2>1, <2>2, <2>3 DEF Executor!Next, Executor!Complete, Done
  <1>5. CASE UNCHANGED Queue
    BY <1>5 DEF Queue, Executor!vars, Completed
  <1> QED
    BY <1>2, <1>3, <1>4, <1>5, QueueCases

\* The queue the session uses is the serial executor that TaskQueue implements,
\* for any capacity and any number of tasks, whatever keys and results come.
THEOREM SessionUsesExecutor == RoomForARow => (Spec => UsesExecutor)
  <1> SUFFICES ASSUME RoomForARow PROVE Spec => UsesExecutor
    OBVIOUS
  <1>0. Spec => []IInv
    BY Invariance
  <1>1. Init => Executor!Init
    <2> SUFFICES ASSUME Init
                 PROVE  Executor!Init
      OBVIOUS
    <2>1. pushed = 0 /\ Len(pending) = 0 /\ active = NoTask
      BY DEF Init
    <2>2. active.id = 0 /\ Completed = 0
      BY <2>1 DEF NoTask, Task, Completed
    <2>3. [i \in 1 .. Len(pending) |-> pending[i].id] = << >>
      BY <2>1
    <2>4. [i \in 1 .. Completed |-> i] = << >>
      BY <2>2
    <2> QED
      BY <2>1, <2>2, <2>3, <2>4 DEF Executor!Init
  <1>2. TypeInv /\ TypeInv' /\ QueueState /\ [Next]_vars => QueueState'
    BY QueueStep
  <1>3. IInv => TypeInv
    BY DEF IInv
  <1>4. TypeInv /\ QueueState /\ [Next]_vars => [Executor!Next]_(Executor!vars)
    BY ExecutorStep
  <1> QED
    BY <1>0, QueueInit, <1>1, <1>2, <1>3, <1>4, PTL DEF Spec, UsesExecutor, Executor!Spec
==============================================================================
