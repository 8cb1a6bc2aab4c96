------------------------------- MODULE Terminal -------------------------------
(***************************************************************************)
(* The terminal: main's loop reads a key, acts on it and draws the screen, *)
(* while strokes come in pieces and together, the window changes its size, *)
(* and the worker delivers lists and retires.                              *)
(*                                                                         *)
(* Drawing takes two steps: under s->lock the rows are put into the frame  *)
(* buffer, which knows from a hash what each row showed last; then, without*)
(* the lock, the rows that differ are written.  A hash stands for its text *)
(* here, and the width of a window plays the part of its height.  The modes*)
(* are the first-run setup, the search line, a list of results and the     *)
(* picker that a fetched playlist opens; Session has the others.           *)
(***************************************************************************)
EXTENDS Keyboard, ListView

CONSTANTS
  Stroke,     \* what the user does, of DOMAIN Keys
  Height,     \* the heights of the window
  MaxList,    \* bound: the length of a list, and SQT_MAX_PLAYLISTS
  Kept,       \* the numbers of playlists that config_load may find
  MaxQuery,   \* sizeof(query) - 2
  MaxStrokes, \* bound: strokes
  MaxEvents   \* bound: strokes and changes of the size

TerminalAssumption ==
  /\ Stroke \subseteq DOMAIN Keys
  /\ Height \subseteq Nat \ {0, 1}
  /\ {MaxList, MaxStrokes, MaxEvents} \subseteq Nat
  /\ Kept \subseteq 0 .. MaxList
  /\ MaxQuery \in Nat \ {0}

ASSUME TerminalAssumption

VARIABLES
  line,    \* bytes that were typed and are not yet read
  rest,    \* the bytes tui_read_key keeps
  mode,    \* s->mode
  type,    \* s->search_type
  found,   \* s->track_count or s->album_count, that of the songs or albums shown
  saved,   \* s->playlist_count
  batch,   \* which of two contents the list has
  view,    \* s->cursor and s->scroll
  query,   \* s->query
  todo,    \* tasks that are queued or under way; what they ask for is not kept
  busy,    \* s->bg_running
  pc,      \* where main is
  dirty,   \* s->dirty
  resized, \* g_resize_pending
  height,  \* the size of the window
  rows,    \* s->rows
  fb,      \* s->fb: for each row its text and whether it is to be written
  display, \* what the window shows
  strokes, \* history: how many there were
  owed,    \* history: the keys that were meant and not acted on yet
  honest,  \* history: no key was acted on that was not owed
  whole,   \* history: every read took what it can tell
  touched, \* history: the size changed since it was last asked for
  missed,  \* history: it changed and changed back, and nothing was drawn anew
  sizes    \* history: the changes of the size; and whether it was ever tiny

input  == <<line, rest, strokes, owed, honest, whole>>
model  == <<mode, type, found, saved, batch, view, query, todo, busy>>
window == <<height, display, touched, sizes>>
lists  == <<type, found, saved>>
vars   == <<input, model, pc, dirty, resized, window, rows, fb, missed>>

Blank == [part |-> "blank"]   \* after A_CLR
Junk  == [part |-> "junk"]    \* what is left of the text when the size changes

All(text) == [i \in 0 .. height' - 1 |-> text]

NoBuffer == <<>>

SearchType == {"SONGS", "ALBUMS", "PLAYLISTS"}

\* list_len: the list of the type of search.
list_len == IF type = "PLAYLISTS" THEN saved ELSE found

\* The first run, or the search line with a query in it.
Init ==
  /\ line = <<>> /\ rest = <<>> /\ strokes = 0 /\ owed = <<>> /\ honest = TRUE /\ whole = TRUE
  /\ mode \in {"SETUP", "SEARCH"}
  /\ type = "SONGS" /\ found = 0 /\ saved \in Kept
  /\ batch = 0 /\ view = View(0, 0)
  /\ query = IF mode = "SETUP" THEN <<>> ELSE <<"x">>
  /\ todo = 0 /\ busy = FALSE
  /\ pc = "render" /\ dirty = TRUE /\ resized = FALSE
  /\ height \in Height /\ rows = height
  /\ fb = NoBuffer
  /\ display = [i \in 0 .. height - 1 |-> Blank]
  /\ touched = FALSE /\ missed = FALSE
  /\ sizes = [changes |-> 0, tiny |-> Vis(height) < 1]

-------------------------------------------------------------------------------
(* The user and the window                                                 *)

\* Whenever it happens, it shows at the next read.
Type ==
  /\ pc = "read"
  /\ strokes < MaxStrokes
  /\ strokes + sizes.changes < MaxEvents
  /\ strokes' = strokes + 1
  /\ \E s \in Stroke :
       /\ line' = line \o Bytes[s]
       /\ owed' = owed \o Keys[s]
  /\ UNCHANGED <<rest, honest, whole, model, pc, dirty, resized, window, rows, fb, missed>>

\* SIGWINCH; on_sigwinch.
Resize ==
  /\ pc # "quit"
  /\ strokes + sizes.changes < MaxEvents
  /\ height' \in Height \ {height}
  /\ display' = All(Junk)
  /\ resized' = TRUE
  /\ touched' = TRUE
  /\ sizes' = [changes |-> sizes.changes + 1, tiny |-> sizes.tiny \/ Vis(height') < 1]
  /\ UNCHANGED <<input, model, pc, dirty, rows, fb, missed>>

-------------------------------------------------------------------------------
(* The keys                                                                *)

\* A handler that ends with break is followed by tui_render, one that ends with
\* continue is not.
Break(draws)    == pc' = "render" /\ dirty' = (dirty \/ draws)
Continue(draws) == pc' = "read" /\ dirty' = (dirty \/ draws)

Navigation == {"UP", "DOWN", "HOME", "END", "PGUP", "PGDN"}

Navigate(key) ==
  /\ key \in Navigation /\ mode = "RESULTS"
  /\ Moves(key, view, list_len)
  /\ view' = Moved(key, view, list_len, Vis(rows))
  /\ Break(TRUE)
  /\ UNCHANGED <<mode, lists, batch, query, todo, busy>>

NextType == [SONGS |-> "ALBUMS", ALBUMS |-> "PLAYLISTS", PLAYLISTS |-> "SONGS"]

\* Another kind of search: the lists of songs and of albums are emptied, and
\* the one of the playlists comes up if there are any.
Tab(key) ==
  /\ mode \in {"SEARCH", "RESULTS"}
  /\ key = "TAB"
  /\ type' = NextType[type] /\ found' = 0
  /\ mode' = IF type' = "PLAYLISTS" /\ saved > 0 THEN "RESULTS" ELSE "SEARCH"
  /\ view' = View(0, 0)
  /\ Break(TRUE)
  /\ UNCHANGED <<saved, batch, query, todo, busy>>

\* The playlists stay.
Clear(key) ==
  /\ mode \in {"SEARCH", "RESULTS"}
  /\ key = "^U"
  /\ query' = <<>>
  /\ mode' = "SEARCH" /\ found' = 0 /\ view' = View(0, 0)
  /\ Break(TRUE)
  /\ UNCHANGED <<type, saved, batch, todo, busy>>

\* A plain character stands for any other.
Write(key) ==
  /\ mode \in {"SEARCH", "RESULTS"}
  /\ IsCharacter(key)
  /\ Len(query) < MaxQuery
  /\ mode' = "SEARCH"
  /\ query' = Append(query, IF key \in {"lead", "cont"} THEN key ELSE "x")
  /\ Break(TRUE)
  /\ UNCHANGED <<lists, batch, view, todo, busy>>

\* The last character, with all its bytes.
Erased(q) ==
  LET keep == {i \in 1 .. Len(q) - 1 : q[i + 1] # "cont" /\ \A j \in i + 2 .. Len(q) : q[j] = "cont"}
  IN  IF keep = {} THEN <<>>
      ELSE SubSeq(q, 1, CHOOSE i \in keep : \A j \in keep : j <= i)

Erase(key) ==
  /\ mode \in {"SEARCH", "RESULTS"}
  /\ key = "BACKSPACE" /\ query # <<>>
  /\ query' = Erased(query)
  /\ Break(TRUE)
  /\ UNCHANGED <<mode, lists, batch, view, todo, busy>>

\* The entry under the cursor: a download of the song, in the quality chosen
\* before, or the playlist, whose address becomes the query; without one, a
\* search for the query.
Picks == mode = "RESULTS" /\ view.cursor \in 0 .. list_len - 1

Submit(key) ==
  /\ mode \in {"SEARCH", "RESULTS"}
  /\ key = "ENTER"
  /\ ~(Picks /\ type = "ALBUMS")
  /\ LET asks == Picks \/ query # <<>>
     IN  /\ Continue(asks)
         /\ IF asks THEN todo' = todo + 1 /\ busy' = TRUE ELSE UNCHANGED <<todo, busy>>
  /\ query' = IF Picks /\ type = "PLAYLISTS" THEN <<"x">> ELSE query
  /\ UNCHANGED <<mode, lists, batch, view>>

\* The album under the cursor.
OpenPicker(key) ==
  /\ key = "ENTER"
  /\ Picks /\ type = "ALBUMS"
  /\ mode' = "PICKER"
  /\ Break(TRUE)
  /\ UNCHANGED <<lists, batch, view, query, todo, busy>>

\* The picker of a playlist or an album: back, or a download of all of it, unless
\* there is no such album; its other entry leads to a mode that is left to Session.
Choose(key) ==
  /\ mode = "PICKER"
  /\ \/ key = "ESCAPE" /\ Break(TRUE) /\ UNCHANGED <<todo, busy>>
     \/ key = "ENTER" /\ Continue(TRUE) /\ todo' = todo + 1 /\ busy' = TRUE
     \/ key = "ENTER" /\ type # "PLAYLISTS" /\ Continue(TRUE) /\ UNCHANGED <<todo, busy>>
  /\ mode' = "RESULTS"
  /\ UNCHANGED <<lists, batch, view, query>>

\* A preset folder.
SetUp(key) ==
  /\ mode = "SETUP"
  /\ key = "ENTER"
  /\ mode' = "SEARCH"
  /\ Break(TRUE)
  /\ UNCHANGED <<lists, batch, view, query, todo, busy>>

\* The marker of the setup or the picker moves, or stays.
Mark(key) ==
  /\ \/ mode = "SETUP" /\ key \notin {"ENTER", "^C"}
     \/ mode = "PICKER" /\ key \notin {"ENTER", "ESCAPE", "^C"}
  /\ \E moves \in BOOLEAN : Break(moves)
  /\ UNCHANGED model

Ignore(key) ==
  /\ mode \in {"SEARCH", "RESULTS"}
  /\ \/ key \in {"LEFT", "RIGHT", "ESCAPE", "CR", "ESC"}
     \/ key = "BACKSPACE" /\ query = <<>>
     \/ IsCharacter(key) /\ Len(query) >= MaxQuery
     \/ key \in Navigation /\ ~(mode = "RESULTS" /\ Moves(key, view, list_len))
  /\ Break(FALSE)
  /\ UNCHANGED model

Quit(key) ==
  /\ key = "^C"
  /\ pc' = "quit"
  /\ UNCHANGED <<model, dirty>>

Handle(key) ==
  \/ Navigate(key) \/ Tab(key) \/ Clear(key) \/ Write(key) \/ Erase(key) \/ Submit(key)
  \/ OpenPicker(key) \/ Choose(key) \/ SetUp(key) \/ Mark(key) \/ Ignore(key) \/ Quit(key)

-------------------------------------------------------------------------------
(* The loop                                                                *)

\* A read took what it can tell: one whole stroke, or characters and keys of a
\* byte each, of which the first is a character.
Tellable(buf, after) ==
  \/ (\E s \in Stroke : buf = Bytes[s]) /\ (after # <<>> => Head(after) \notin {"[", "O"})
  \/ Head(buf) \notin {"ESC", "CR", "DEL"} /\ ~Contains(buf, "ESC")

\* The keys that a broken escape sequence cannot give: it gives an Escape, and the
\* characters that were to follow it.
Certain == (Control \ {"ESCAPE"}) \cup {"x", "lead", "cont"}

\* The key is due: the next one while whole holds, and among those owed even when
\* it does not, unless it is what a broken sequence gives.
Take(key) ==
  /\ owed' = RemoveFirst(owed, key)
  /\ honest' = (/\ honest
                /\ whole' => owed # <<>> /\ Head(owed) = key
                /\ key \in Certain => Contains(owed, key))

Act(read) ==
  /\ rest' = read.rest
  /\ Take(read.key)
  /\ Handle(read.key)
  /\ UNCHANGED <<strokes, resized, window, rows, fb, missed>>

ReadRest ==
  /\ pc = "read" /\ rest # <<>>
  /\ UNCHANGED <<line, whole>>
  /\ Act([key |-> FromRest(Head(rest)), rest |-> Tail(rest)])

\* What has arrived by now is a part of what was typed.
Read ==
  /\ pc = "read" /\ rest = <<>>
  /\ \E n \in 1 .. Len(line) :
       LET buf == SubSeq(line, 1, n)
       IN  /\ line' = SubSeq(line, n + 1, Len(line))
           /\ whole' = (whole /\ Tellable(buf, line'))
           /\ Act(ReadKey(buf))

\* Mutant: the size is not looked at.
Redraws_Blind == busy

Redraws == busy \/ resized

\* Mutant: the change of the size is never taken note of.
Pending_Kept == resized

Pending == FALSE

\* A tenth of a second without a byte.  The spinner turns, of which all the
\* frames are one here.
Timeout ==
  /\ pc = "read" /\ rest = <<>> /\ line = <<>>
  /\ pc' = "render"
  /\ resized' = Pending
  /\ dirty' = (dirty \/ Redraws)
  /\ UNCHANGED <<input, model, window, rows, fb, missed>>

\* Mutant: the frame buffer is kept over the picker.
PickerBuffer_Kept == fb

PickerBuffer == NoBuffer

\* The entry of the setup that opens a folder picker: the terminal is given back
\* for it, with what was typed, and taken again as a new one.
PickFolder ==
  /\ pc = "read" /\ mode = "SETUP"
  /\ rest \o line # <<>>
  /\ Alone(Head(rest \o line)) = "ENTER"
  /\ line' = <<>>
  /\ rest' = IF rest = <<>> THEN <<>> ELSE Tail(rest)
  /\ whole' = (whole /\ Len(line) = IF rest = <<>> THEN 1 ELSE 0)
  /\ Take("ENTER")
  /\ mode' \in {"SETUP", "SEARCH"}
  /\ fb' = PickerBuffer
  /\ rows' = height
  /\ display' = [i \in 0 .. height - 1 |-> Blank]
  /\ touched' = FALSE /\ missed' = FALSE
  /\ dirty' = TRUE /\ pc' = "render"
  /\ UNCHANGED <<strokes, lists, batch, view, query, todo, busy, resized, height, sizes>>

-------------------------------------------------------------------------------
(* Drawing                                                                 *)

(* The text of a row is what it is made from, here: its wording, colours and *)
(* widths follow from that.                                                  *)

\* Every row has the colours of the type of search.
TopBorder        == [part |-> "top", type |-> type]
Header           == [part |-> "header", type |-> type, mode |-> mode]
BottomBorder     == [part |-> "bottom", type |-> type]
StatusBar        == [part |-> "status", type |-> type, mode |-> mode, todo |-> todo, batch |-> batch]
SearchBar(turns) == [part |-> "bar", type |-> type, mode |-> mode, query |-> query, spinner |-> turns]

SetupRow(r)  == [part |-> "setup", type |-> type, row |-> r]
ActionRow(r) == [part |-> "action", type |-> type, row |-> r, slot |-> view.cursor, batch |-> batch]
ItemRow(r)   ==
  LET i == view.scroll + r
  IN  IF i < list_len
      THEN [part |-> "item", type |-> type, item |-> i, batch |-> batch, selected |-> i = view.cursor]
      ELSE [part |-> "no item", type |-> type]

\* Row r of the list of the mode.
ListRow(r) == CASE mode = "SETUP" -> SetupRow(r) [] mode = "PICKER" -> ActionRow(r) [] OTHER -> ItemRow(r)

\* What is put on a row of the window, in order; a small window has rows that are
\* put twice.
PutOn(row, h) ==
  LET On(r, text) == IF r = row THEN <<text>> ELSE <<>>
  IN  On(0, TopBorder) \o On(1, SearchBar(busy)) \o On(2, Header)
        \o (IF row - 3 \in 0 .. Drawn(h) - 1 THEN <<ListRow(row - 3)>> ELSE <<>>)
        \o On(h - 2, BottomBorder) \o On(h - 1, StatusBar)

\* fb_put, for all that is put on a row that showed old before.
Put(old, texts) ==
  LET before == IF Len(texts) > 1 THEN texts[Len(texts) - 1] ELSE old.text
  IN  IF texts = <<>> THEN old
      ELSE [text |-> Last(texts), dirty |-> Last(texts) # before]

Fresh(h) == [i \in 0 .. h - 1 |-> [text |-> Blank, dirty |-> TRUE]]

\* tui_render, as far as its unlock: tui_resize, fb_ensure and the rows.
Compose ==
  /\ pc = "render"
  /\ IF ~dirty
     THEN pc' = "read" /\ UNCHANGED <<dirty, rows, window, fb, missed>>
     ELSE LET kept == fb # NoBuffer /\ DOMAIN fb = 0 .. height - 1
          IN  /\ pc' = "flush"
              /\ dirty' = FALSE
              /\ rows' = height
              /\ display' = IF rows = height THEN display ELSE [i \in 0 .. height - 1 |-> Blank]
              /\ fb' = LET old == IF kept THEN fb ELSE Fresh(height)
                       IN  [i \in 0 .. height - 1 |-> Put(old[i], PutOn(i, height))]
              /\ missed' = (kept /\ (missed \/ touched))
              /\ touched' = FALSE
              /\ UNCHANGED <<height, sizes>>
  /\ UNCHANGED <<input, model, resized>>

\* fb_flush, without the lock.
Flush ==
  /\ pc = "flush"
  /\ pc' = "read"
  /\ display' = [i \in 0 .. height - 1 |->
                   IF height # rows THEN Junk
                   ELSE IF fb[i].dirty THEN fb[i].text ELSE display[i]]
  /\ fb' = [i \in DOMAIN fb |-> [fb[i] EXCEPT !.dirty = FALSE]]
  /\ UNCHANGED <<input, model, dirty, resized, height, touched, sizes, rows, missed>>

-------------------------------------------------------------------------------
(* The worker                                                              *)

Served ==
  /\ todo > 0
  /\ todo' = todo - 1
  /\ dirty' = TRUE
  /\ UNCHANGED <<input, query, busy, pc, resized, window, rows, fb, missed>>

\* The answer of a search for songs or albums, of the type that is shown or of the
\* one that was shown when it was asked.
Deliver ==
  /\ Served
  /\ found' \in {found} \cup (IF type = "PLAYLISTS" THEN {} ELSE 0 .. MaxList)
  /\ batch' = 1 - batch /\ view' = View(0, 0)
  /\ mode' = "RESULTS"
  /\ UNCHANGED <<type, saved>>

\* A playlist that was fetched: the cursor goes to its place among the playlists,
\* whatever is shown by then, and its songs into the list of the songs.
DeliverPlaylist ==
  /\ Served
  /\ saved' \in {saved, saved + 1} /\ saved' <= MaxList
  /\ \E slot \in 0 .. saved' - 1 :
       /\ saved' > saved => slot = saved
       /\ view' = View(slot, 0)
  /\ found' \in (IF type = "SONGS" THEN 1 .. MaxList ELSE {found})
  /\ batch' = 1 - batch
  /\ mode' = "PICKER"
  /\ UNCHANGED type

\* A download that ended, or a task that failed: a message.
Report ==
  /\ Served
  /\ UNCHANGED <<lists, batch, view, mode>>

\* Nothing is drawn for it.
Retire ==
  /\ busy /\ todo = 0
  /\ busy' = FALSE
  /\ UNCHANGED <<input, mode, lists, batch, view, query, todo, pc, dirty, resized, window,
                 rows, fb, missed>>

-------------------------------------------------------------------------------

Main   == Read \/ ReadRest \/ PickFolder \/ Timeout \/ Compose \/ Flush
Worker == Deliver \/ DeliverPlaylist \/ Report \/ Retire
Next   == Type \/ Resize \/ Main \/ Worker

Spec == Init /\ [][Next]_vars /\ WF_vars(Main) /\ WF_vars(Worker)

-------------------------------------------------------------------------------
(* Properties                                                              *)

\* Everything has its type.
TypeOK ==
  /\ mode \in {"SETUP", "SEARCH", "RESULTS", "PICKER"}
  /\ type \in SearchType /\ {found, saved} \subseteq 0 .. MaxList
  /\ todo \in Nat /\ Len(query) <= MaxQuery
  /\ pc \in {"read", "render", "flush", "quit"}
  /\ {busy, dirty, resized, whole, touched, missed} \subseteq BOOLEAN
  /\ {height, rows} \subseteq Height
  /\ DOMAIN display = 0 .. height - 1

\* main.c and tui_read_key: however the bytes are cut into reads, no cursor key,
\* Enter, Backspace, Tab, control key or plain character is acted on that was not
\* typed (what is left of an Up is never a Down); what a broken sequence gives is
\* an Escape and characters of its own bytes, and those are acted on: of an Up
\* they are [ and A.  While every read takes whole strokes, or plain text with
\* one-byte keys after it, each key that was typed is acted on once, in the order
\* of typing, and no other.
KeysHonest ==
  /\ honest
  /\ whole /\ line = <<>> /\ rest = <<>> /\ pc # "quit" => owed = <<>>

\* main.c, the keys of a list: on a terminal with room for a row of the list, a
\* cursor key leaves a selection that was on the screen on the screen, and one
\* that moves the cursor down or home brings it there wherever it was.
SelectionVisible ==
  [][\A key \in Navigation :
       (Navigate(key) /\ ~sizes.tiny)
         => \/ OnScreen(view', Vis(rows))
            \/ key \in {"UP", "PGUP"} /\ ~OnScreen(view, Vis(rows))]_vars

Usable == view.cursor \in 0 .. (IF list_len = 0 THEN 0 ELSE list_len - 1)

\* main.c, the same keys and the deliveries: the first row shown is never before
\* the list, and the cursor stays on an entry of the list, or at 0 without one,
\* with two exceptions.  The window has been too small for a single entry (the
\* page is then zero or negative: PgDn goes up, and past the top, and PgUp past
\* the end); or a playlist was delivered after Tab had left the playlists, whose
\* place is then no entry of the list: from there a key moves back only.
CursorUsable ==
  [][/\ view'.scroll >= 0
     /\ \/ Usable' \/ sizes'.tiny
        \/ DeliverPlaylist /\ type # "PLAYLISTS"
        \/ ~Usable /\ view'.cursor <= view.cursor]_vars

\* The text of a row when all of it has been drawn.
Final(row) == Last(PutOn(row, rows))

Shown(row) ==
  \/ display[row] = Final(row)
  \/ /\ ~busy /\ Final(row).part = "bar"
     /\ display[row] = SearchBar(TRUE)

Shows == rows = height /\ \A row \in DOMAIN display : Shown(row)

\* tui_render, fb_put and fb_flush, with everything that sets s->dirty: when
\* nothing is marked to be drawn the window shows the state, though only rows
\* whose hash has changed are written, the worker changes the state between the
\* drawing and the writing, and the window its size.  Two things are excepted:
\* the spinner of a worker that has retired since, and a window whose size has
\* changed and changed back between two drawings.
ScreenTrue == pc = "read" /\ ~dirty /\ ~resized /\ ~missed => Shows

\* When the user and the window come to rest, every byte is read, the worker
\* retires, and nothing is left to be drawn; or the user has quit.
Settles ==
  <>(pc = "quit") \/ <>[](line = <<>> /\ rest = <<>> /\ ~busy /\ ~dirty /\ ~resized)
===============================================================================
