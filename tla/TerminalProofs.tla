---------------------------- MODULE TerminalProofs ----------------------------
(***************************************************************************)
(* Proofs about Terminal for every height of the window, every length of a *)
(* list and of a query, and any number of strokes, of any kind and cut in  *)
(* any way: types, the cursor on the list, the selection on the screen,    *)
(* the window that shows the state when nothing is marked to be drawn, and *)
(* keys that are acted on only if they were typed, but for what a broken   *)
(* escape sequence gives.                                                  *)
(***************************************************************************)
EXTENDS Terminal, SequenceTheorems, WellFoundedInduction, TLAPS

-------------------------------------------------------------------------------
(* Typing.                                                                 *)

Character == {"x", "lead", "cont"}

WindowTypes ==
  /\ mode \in {"SETUP", "SEARCH", "RESULTS", "PICKER"}
  /\ type \in SearchType /\ found \in 0 .. MaxList /\ saved \in 0 .. MaxList
  /\ todo \in Nat
  /\ pc \in {"read", "render", "flush", "quit"}
  /\ busy \in BOOLEAN /\ dirty \in BOOLEAN /\ resized \in BOOLEAN
  /\ whole \in BOOLEAN /\ touched \in BOOLEAN /\ missed \in BOOLEAN
  /\ height \in Height /\ rows \in Height
  /\ DOMAIN display = 0 .. height - 1
  /\ query \in Seq(Character) /\ Len(query) <= MaxQuery
  /\ view \in [cursor : Int, scroll : Int]
  /\ batch \in {0, 1}
  /\ sizes \in [changes : Nat, tiny : BOOLEAN]

LEMMA Limits ==
  /\ MaxList \in Nat /\ MaxQuery \in Nat \ {0} /\ Kept \subseteq 0 .. MaxList
  /\ \A h \in Height : h \in Nat /\ h >= 2
<1>1. {MaxList, MaxStrokes, MaxEvents} \subseteq Nat /\ MaxQuery \in Nat \ {0}
      /\ Kept \subseteq 0 .. MaxList /\ Height \subseteq Nat \ {0, 1}
  BY TerminalAssumption DEF TerminalAssumption
<1> QED
  BY <1>1

LEMMA GreatestBelow ==
  ASSUME NEW n \in Nat, NEW T \in SUBSET (1 .. n), T # {}
  PROVE  \E x \in T : \A y \in T : y <= x
<1> DEFINE U == {n - x : x \in T}
<1>1. U \in SUBSET Nat /\ U # {}
  <2>1. \A x \in T : n - x \in Nat
    OBVIOUS
  <2> QED
    BY <2>1
<1>2. PICK u \in U : \A w \in U : ~(<<w, u>> \in OpToRel(<, Nat))
  <2> HIDE DEF U
  <2> QED
    BY <1>1, NatLessThanWellFounded, WFMin
<1>3. PICK x \in T : u = n - x
  BY <1>2
<1>4. ASSUME NEW y \in T PROVE y <= x
  <2>1. n - y \in U
    OBVIOUS
  <2>2. n - y \in Nat /\ u \in Nat
    BY <1>1, <2>1
  <2>3. ~(n - y < u)
    BY <1>2, <2>1, <2>2 DEF OpToRel
  <2> QED
    BY <1>3, <2>3
<1> QED
  BY <1>4

\* What remains of a text is shorter.
LEMMA ErasedShorter ==
  ASSUME NEW q \in Seq(Character)
  PROVE  Erased(q) \in Seq(Character) /\ Len(Erased(q)) <= Len(q)
<1> DEFINE keep == {i \in 1 .. Len(q) - 1 : q[i + 1] # "cont" /\ \A j \in i + 2 .. Len(q) : q[j] = "cont"}
           last == CHOOSE i \in keep : \A j \in keep : j <= i
<1>1. Erased(q) = IF keep = {} THEN <<>> ELSE SubSeq(q, 1, last)
  BY DEF Erased
<1>2. keep \subseteq 1 .. Len(q) /\ Len(q) \in Nat
  OBVIOUS
<1>3. CASE keep = {}
  BY <1>1, <1>3
<1>4. CASE keep # {}
  <2> HIDE DEF keep
  <2>1. \E i \in keep : \A j \in keep : j <= i
    BY <1>2, <1>4, GreatestBelow
  <2>2. last \in 1 .. Len(q)
    BY <1>2, <2>1
  <2> HIDE DEF last
  <2>3. SubSeq(q, 1, last) \in Seq(Character) /\ Len(SubSeq(q, 1, last)) = last
    BY <2>2
  <2> QED
    BY <1>1, <1>4, <2>2, <2>3
<1> QED
  BY <1>3, <1>4

\* Where a cursor key takes the view.
LEMMA MovedType ==
  ASSUME NEW key \in Navigation, view \in [cursor : Int, scroll : Int], NEW l \in Nat, NEW vis \in Int
  PROVE  Moved(key, view, l, vis) \in [cursor : Int, scroll : Int]
BY DEF Moved, Navigation, Above, Below, View, PageDown

\* A key changes the state and asks for a drawing or not, and nothing else.
LEMMA KeyStep ==
  ASSUME Read \/ ReadRest
  PROVE  /\ pc = "read"
         /\ \E key : Handle(key)
         /\ whole' = whole \/ whole' \in BOOLEAN
         /\ UNCHANGED <<resized, window, rows, fb, missed>>
<1>1. CASE Read
  <2>1. PICK n \in 1 .. Len(line) :
          /\ whole' = (whole /\ Tellable(SubSeq(line, 1, n), line'))
          /\ Act(ReadKey(SubSeq(line, 1, n)))
    BY <1>1 DEF Read
  <2>2. Handle(ReadKey(SubSeq(line, 1, n)).key)
    BY <2>1 DEF Act
  <2>3. whole' \in BOOLEAN
    BY <2>1
  <2> QED
    BY <1>1, <2>1, <2>2, <2>3 DEF Read, Act
<1>2. CASE ReadRest
  <2>1. Act([key |-> FromRest(Head(rest)), rest |-> Tail(rest)])
    BY <1>2 DEF ReadRest
  <2>2. Handle(FromRest(Head(rest)))
    BY <2>1 DEF Act
  <2> QED
    BY <1>2, <2>1, <2>2 DEF ReadRest, Act
<1> QED
  BY <1>1, <1>2

LEMMA Answered ==
  ASSUME NEW draws, Break(draws) \/ Continue(draws)
  PROVE  pc' \in {"read", "render", "quit"} /\ dirty' \in BOOLEAN
BY DEF Break, Continue

LEMMA OneCharacter == <<"x">> \in Seq(Character) /\ Len(<<"x">>) = 1
BY DEF Character

LEMMA ListLengthType ==
  ASSUME WindowTypes
  PROVE  list_len \in Nat
BY Limits DEF WindowTypes, list_len

LEMMA HandleTypes ==
  ASSUME WindowTypes, NEW key, Handle(key)
  PROVE  /\ mode' \in {"SETUP", "SEARCH", "RESULTS", "PICKER"}
         /\ type' \in SearchType /\ found' \in 0 .. MaxList /\ saved' \in 0 .. MaxList
         /\ todo' \in Nat
         /\ query' \in Seq(Character) /\ Len(query') <= MaxQuery
         /\ view' \in [cursor : Int, scroll : Int]
         /\ batch' \in {0, 1}
         /\ busy' \in BOOLEAN
         /\ pc' \in {"read", "render", "quit"}
         /\ dirty' \in BOOLEAN
<1> USE Limits DEF WindowTypes, lists
<1>1. CASE Navigate(key)
  <2>1. Moved(key, view, list_len, Vis(rows)) \in [cursor : Int, scroll : Int]
    <3>1. rows \in Int /\ list_len \in Nat
      BY ListLengthType
    <3> QED
      BY <1>1, <3>1, MovedType DEF Navigate, Vis
  <2> QED
    BY <1>1, <2>1, Answered DEF Navigate
<1>2. CASE Tab(key)
  <2>1. view' \in [cursor : Int, scroll : Int] /\ mode' \in {"SEARCH", "RESULTS"} /\ type' \in SearchType
    BY <1>2 DEF Tab, View, SearchType, NextType
  <2>2. found' = 0 /\ UNCHANGED <<saved, batch, query, todo, busy>>
    BY <1>2, Zenon DEF Tab
  <2>3. Break(TRUE)
    BY <1>2, Zenon DEF Tab
  <2>4. pc' \in {"read", "render", "quit"} /\ dirty' \in BOOLEAN
    BY <2>3, Answered
  <2>5. found' \in 0 .. MaxList /\ saved' \in 0 .. MaxList
    BY <2>2
  <2> QED
    BY <2>1, <2>2, <2>4, <2>5
<1>3. CASE Clear(key)
  <2>1. view' \in [cursor : Int, scroll : Int]
    BY <1>3 DEF Clear, View
  <2>2. query' \in Seq(Character) /\ Len(query') <= MaxQuery
    BY <1>3 DEF Clear
  <2>3. mode' = "SEARCH" /\ found' \in 0 .. MaxList /\ UNCHANGED <<type, saved, batch, todo, busy>>
    BY <1>3 DEF Clear, Break
  <2>4. Break(TRUE)
    BY <1>3, Zenon DEF Clear
  <2> QED
    BY <2>1, <2>2, <2>3, <2>4, Answered
<1>4. CASE Write(key)
  <2>1. query' \in Seq(Character) /\ Len(query') <= MaxQuery
    BY <1>4 DEF Write, Character
  <2> QED
    BY <1>4, <2>1, Answered DEF Write
<1>5. CASE Erase(key)
  <2>1. query' \in Seq(Character) /\ Len(query') <= MaxQuery
    BY <1>5, ErasedShorter DEF Erase
  <2> QED
    BY <1>5, <2>1, Answered DEF Erase
<1>6. CASE Submit(key)
  <2>1. query' \in Seq(Character) /\ Len(query') <= MaxQuery
    <3>1. query' = query \/ query' = <<"x">>
      BY <1>6, Zenon DEF Submit
    <3>2. CASE query' = <<"x">>
      <4>1. Len(query') = 1 /\ query' \in Seq(Character)
        BY <3>2 DEF Character
      <4>2. 1 <= MaxQuery
        OBVIOUS
      <4> QED
        BY <4>1, <4>2
    <3> QED
      BY <3>1, <3>2
  <2>2. todo' \in Nat /\ busy' \in BOOLEAN
    BY <1>6 DEF Submit
  <2>3. \E asks : Continue(asks)
    BY <1>6, Zenon DEF Submit
  <2>4. UNCHANGED <<mode, lists, batch, view>>
    BY <1>6, Zenon DEF Submit
  <2> QED
    BY <2>1, <2>2, <2>3, <2>4, Answered
<1>7. CASE Choose(key)
  <2>1. mode' = "RESULTS" /\ UNCHANGED <<lists, batch, view, query>>
    BY <1>7, Zenon DEF Choose
  <2>3. \/ UNCHANGED <<todo, busy>>
        \/ todo' = todo + 1 /\ busy' = TRUE
    BY <1>7, Zenon DEF Choose
  <2>2. \E draws : Break(draws) \/ Continue(draws)
    BY <1>7, Zenon DEF Choose
  <2>4. UNCHANGED <<type, found, saved, batch, view, query>>
    BY <2>1
  <2>5. pc' \in {"read", "render", "quit"} /\ dirty' \in BOOLEAN
    BY <2>2, Answered
  <2>6. todo' \in Nat /\ busy' \in BOOLEAN
    <3>1. todo' = todo \/ todo' = todo + 1
      BY <2>3, Zenon
    <3>2. busy' = busy \/ busy' = TRUE
      BY <2>3, Zenon
    <3>3. todo' \in Nat
      BY <3>1
    <3>4. busy' \in BOOLEAN
      <4>1. busy \in BOOLEAN
        OBVIOUS
      <4> QED
        BY <3>2, <4>1, Zenon
    <3> QED
      BY <3>3, <3>4
  <2> QED
    BY <2>1, <2>4, <2>5, <2>6
<1>8. CASE SetUp(key)
  BY <1>8, Answered DEF SetUp
<1>9. CASE Mark(key) \/ Ignore(key)
  <2>1. (\E draws : Break(draws)) /\ UNCHANGED model
    BY <1>9 DEF Mark, Ignore
  <2> QED
    BY <2>1, Answered DEF model
<1>10. CASE Quit(key)
  BY <1>10 DEF Quit, model
<1>11. CASE OpenPicker(key)
  <2>1. Break(TRUE) /\ mode' = "PICKER" /\ UNCHANGED <<lists, batch, view, query, todo, busy>>
    BY <1>11, Zenon DEF OpenPicker
  <2> QED
    BY <2>1, Answered
<1> QED
  BY <1>1, <1>2, <1>3, <1>4, <1>5, <1>6, <1>7, <1>8, <1>9, <1>10, <1>11 DEF Handle

LEMMA WindowInit == Init => WindowTypes
<1> SUFFICES ASSUME Init PROVE WindowTypes
  OBVIOUS
<1> USE Limits DEF Init
<1>1. query \in Seq(Character) /\ Len(query) <= MaxQuery
  <2>1. query = <<>> \/ query = <<"x">>
    OBVIOUS
  <2>2. CASE query = <<"x">>
    BY <2>2, OneCharacter
  <2> QED
    BY <2>1, <2>2
<1>2. view \in [cursor : Int, scroll : Int] /\ sizes \in [changes : Nat, tiny : BOOLEAN]
  BY DEF View
<1>3. DOMAIN display = 0 .. height - 1 /\ rows \in Height /\ todo \in Nat
      /\ type \in SearchType /\ found \in 0 .. MaxList /\ saved \in 0 .. MaxList
  BY DEF SearchType
<1> QED
  BY <1>1, <1>2, <1>3 DEF WindowTypes

LEMMA WindowStep == WindowTypes /\ [Next]_vars => WindowTypes'
<1> SUFFICES ASSUME WindowTypes, [Next]_vars
             PROVE  WindowTypes'
  OBVIOUS
<1> USE Limits DEF WindowTypes, lists
<1>1. CASE Type
  BY <1>1 DEF Type, model, window
<1>2. CASE Resize
  <2>1. sizes' \in [changes : Nat, tiny : BOOLEAN]
    <3>1. (sizes.tiny \/ Vis(height') < 1) \in BOOLEAN /\ sizes.changes + 1 \in Nat
      OBVIOUS
    <3> QED
      BY <1>2, <3>1 DEF Resize
  <2>2. height' \in Height /\ DOMAIN display' = 0 .. height' - 1
    BY <1>2 DEF Resize, All
  <2> QED
    BY <1>2, <2>1, <2>2 DEF Resize, model, input
<1>3. CASE Read \/ ReadRest
  <2>1. PICK key : Handle(key)
    BY <1>3, KeyStep
  <2> QED
    BY <1>3, <2>1, KeyStep, HandleTypes DEF window
<1>4. CASE PickFolder
  <2>1. DOMAIN display' = 0 .. height' - 1
    BY <1>4 DEF PickFolder
  <2> QED
    BY <1>4, <2>1 DEF PickFolder
<1>5. CASE Timeout
  BY <1>5 DEF Timeout, Pending, Redraws, input, model, window
<1>6. CASE Compose
  <2>1. DOMAIN display' = 0 .. height' - 1 /\ height' = height
    BY <1>6 DEF Compose, window
  <2>2. missed' \in BOOLEAN /\ touched' \in BOOLEAN /\ dirty' \in BOOLEAN
    BY <1>6 DEF Compose, window
  <2> QED
    BY <1>6, <2>1, <2>2 DEF Compose, input, model, window
<1>7. CASE Flush
  <2>1. DOMAIN display' = 0 .. height' - 1
    BY <1>7 DEF Flush
  <2> QED
    BY <1>7, <2>1 DEF Flush, input, model
<1>8. CASE Deliver \/ Report
  <2>1. CASE Deliver
    <3>1. view' \in [cursor : Int, scroll : Int] /\ found' \in 0 .. MaxList /\ batch' \in {0, 1}
      BY <2>1 DEF Deliver, View
    <3> QED
      BY <2>1, <3>1 DEF Deliver, Served, input, window
  <2>2. CASE Report
    BY <2>2 DEF Report, Served, input, window
  <2> QED
    BY <1>8, <2>1, <2>2
<1>9. CASE DeliverPlaylist
  <2>1. view' \in [cursor : Int, scroll : Int] /\ found' \in 0 .. MaxList /\ saved' \in 0 .. MaxList
    BY <1>9 DEF DeliverPlaylist, View
  <2> QED
    BY <1>9, <2>1 DEF DeliverPlaylist, Served, input, window
<1>10. CASE Retire
  BY <1>10 DEF Retire, input, window
<1>11. CASE UNCHANGED vars
  BY <1>11 DEF vars, input, model, window
<1> QED
  BY <1>1, <1>2, <1>3, <1>4, <1>5, <1>6, <1>7, <1>8, <1>9, <1>10, <1>11 DEF Next, Main, Worker

\* All variables keep their types, for every size of the window and the lists.
THEOREM TypeCorrect == Spec => []TypeOK
<1>1. Spec => []WindowTypes
  BY WindowInit, WindowStep, PTL DEF Spec
<1>2. WindowTypes => TypeOK
  BY DEF WindowTypes, TypeOK
<1> QED
  BY <1>1, <1>2, PTL
-------------------------------------------------------------------------------
(* The cursor.                                                             *)

\* As long as the window has had room for a row of the list, the first row shown
\* is not below the cursor, and the cursor is on the list, or the list is shown
\* from its start: without that a step down or a jump to the end could leave the
\* cursor off the screen.
OnList ==
  /\ view.scroll >= 0
  /\ ~sizes.tiny => /\ Vis(height) >= 1 /\ Vis(rows) >= 1
                    /\ view.scroll <= view.cursor
                    /\ Usable \/ view.scroll = 0

\* The cursor keys: on the list before, they leave the cursor there; off it, they
\* move it back, and not the list.
LEMMA MovedOnList ==
  ASSUME NEW key \in Navigation, NEW v \in [cursor : Int, scroll : Int], NEW l \in Nat, NEW vis \in Int,
         Moves(key, v, l), v.scroll >= 0
  PROVE  /\ Moved(key, v, l, vis).scroll >= 0
         /\ (vis >= 1 /\ v.scroll <= v.cursor /\ v.cursor \in 0 .. (IF l = 0 THEN 0 ELSE l - 1))
              => /\ Moved(key, v, l, vis).scroll <= Moved(key, v, l, vis).cursor
                 /\ Moved(key, v, l, vis).cursor \in 0 .. (IF l = 0 THEN 0 ELSE l - 1)
         /\ (vis >= 1 /\ v.scroll = 0 /\ v.cursor >= 0 /\ v.cursor \notin 0 .. (IF l = 0 THEN 0 ELSE l - 1))
              => /\ Moved(key, v, l, vis).cursor \in 0 .. (IF l = 0 THEN 0 ELSE l - 1)
                      \/ Moved(key, v, l, vis).scroll = 0
                 /\ Moved(key, v, l, vis).cursor <= v.cursor
                 /\ Moved(key, v, l, vis).scroll <= Moved(key, v, l, vis).cursor
BY DEF Moves, Moved, Navigation, Above, Below, View, PageDown

\* The same keys: on the screen before, or moved down or home, it is on the screen.
LEMMA MovedOnScreen ==
  ASSUME NEW key \in Navigation, NEW v \in [cursor : Int, scroll : Int], NEW l \in Nat, NEW vis \in Int,
         Moves(key, v, l), v.scroll >= 0, vis >= 1, v.scroll <= v.cursor,
         v.cursor \in 0 .. (IF l = 0 THEN 0 ELSE l - 1) \/ v.scroll = 0
  PROVE  \/ OnScreen(Moved(key, v, l, vis), vis)
         \/ key \in {"UP", "PGUP"} /\ ~OnScreen(v, vis)
BY DEF Moves, Moved, Navigation, Above, Below, View, PageDown, OnScreen

LEMMA RoomOrTiny ==
  ASSUME NEW h \in Nat
  PROVE  Vis(h) < 1 \/ Vis(h) >= 1
BY DEF Vis

\* A playlist that was fetched is an entry of the playlists.
LEMMA SlotOnList ==
  ASSUME NEW n \in Nat, NEW slot \in 0 .. n - 1
  PROVE  slot >= 0 /\ slot \in 0 .. (IF n = 0 THEN 0 ELSE n - 1)
OBVIOUS

LEMMA OnListInit == Init => OnList
<1> SUFFICES ASSUME Init PROVE OnList
  OBVIOUS
<1>1. height \in Nat /\ rows = height
  BY Limits DEF Init
<1>2. sizes.tiny <=> Vis(height) < 1
  BY DEF Init
<1>3. view = View(0, 0)
  BY DEF Init
<1> QED
  BY <1>1, <1>2, <1>3 DEF OnList, Vis, View

\* Beside the invariant, what a step may do to the cursor.
CursorStep ==
  /\ view'.scroll >= 0
  /\ \/ Usable' \/ sizes'.tiny
     \/ DeliverPlaylist /\ type # "PLAYLISTS"
     \/ ~Usable /\ view'.cursor <= view.cursor

LEMMA OnListStep ==
  ASSUME WindowTypes, OnList, [Next]_vars
  PROVE  OnList' /\ CursorStep
<1> DEFINE Stays == UNCHANGED <<view, lists, rows, height, sizes>>
           Top == view' = View(0, 0) /\ UNCHANGED <<rows, height, sizes>>
<1>a. /\ list_len \in Nat /\ list_len' \in Nat /\ height \in Nat /\ rows \in Nat
      /\ view \in [cursor : Int, scroll : Int] /\ sizes.tiny \in BOOLEAN
  <2>1. list_len' \in Nat
    <3>1. WindowTypes'
      BY WindowStep
    <3> QED
      BY <3>1, Limits DEF WindowTypes, list_len
  <2> QED
    BY <2>1, ListLengthType, Limits DEF WindowTypes
<1>b. ASSUME UNCHANGED <<view, lists>> PROVE Usable' = Usable /\ (Usable' \/ (~Usable /\ view'.cursor <= view.cursor))
  <2>1. list_len' = list_len /\ view' = view
    BY <1>b DEF lists, list_len
  <2>2. view.cursor <= view.cursor
    BY <1>a
  <2> QED
    BY <2>1, <2>2 DEF Usable
<1>c. Stays => OnList' /\ CursorStep
  <2> SUFFICES ASSUME Stays PROVE OnList' /\ CursorStep
    OBVIOUS
  <2>1. Usable' = Usable /\ (Usable' \/ (~Usable /\ view'.cursor <= view.cursor))
    BY <1>b
  <2> QED
    BY <2>1 DEF OnList, CursorStep
<1>d. Top => OnList' /\ CursorStep
  <2> SUFFICES ASSUME Top PROVE OnList' /\ CursorStep
    OBVIOUS
  <2>1. view'.scroll = 0 /\ view'.cursor = 0
    BY DEF View
  <2>2. Usable'
    BY <1>a, <2>1 DEF Usable
  <2>3. rows' = rows /\ height' = height /\ sizes' = sizes
    OBVIOUS
  <2> QED
    BY <2>1, <2>2, <2>3 DEF OnList, CursorStep
<1>1. CASE Type \/ Timeout \/ Report \/ Retire
  <2>1. Stays
    BY <1>1 DEF Type, Timeout, Report, Retire, Served, model, window, lists
  <2> QED
    BY <1>c, <2>1
<1>2. CASE Resize
  <2>1. view' = view /\ lists' = lists /\ rows' = rows
    BY <1>2 DEF Resize, model, lists
  <2>2. height' \in Nat /\ (sizes'.tiny <=> sizes.tiny \/ Vis(height') < 1)
    <3>1. height' \in Height
      BY <1>2 DEF Resize
    <3>2. sizes'.tiny = (sizes.tiny \/ Vis(height') < 1)
      BY <1>2 DEF Resize
    <3> QED
      BY <3>1, <3>2, Limits
  <2>3. ~sizes'.tiny => ~sizes.tiny /\ Vis(height') >= 1
    <3>1. ~sizes'.tiny => ~sizes.tiny /\ ~(Vis(height') < 1)
      BY <2>2, Zenon
    <3>2. height' \in Nat
      BY <2>2
    <3>3. Vis(height') < 1 \/ Vis(height') >= 1
      BY <3>2, RoomOrTiny
    <3> QED
      BY <3>1, <3>3, Zenon
  <2>4. Usable' = Usable /\ (Usable' \/ (~Usable /\ view'.cursor <= view.cursor))
    BY <1>b, <2>1
  <2> QED
    BY <2>1, <2>3, <2>4 DEF OnList, CursorStep
<1>3. CASE Read \/ ReadRest
  <2>1. PICK key : Handle(key)
    BY <1>3, KeyStep
  <2>2. UNCHANGED <<rows, height, sizes>>
    BY <1>3, KeyStep DEF window
  <2>3. CASE Navigate(key)
    <3>1. key \in Navigation /\ Moves(key, view, list_len) /\ view' = Moved(key, view, list_len, Vis(rows))
          /\ lists' = lists
      BY <2>3 DEF Navigate
    <3>2. Vis(rows) \in Int
      BY <1>a DEF Vis
    <3>3. list_len' = list_len
      BY <3>1 DEF lists, list_len
    <3>4. view'.scroll >= 0
      BY <1>a, <3>1, <3>2, MovedOnList DEF OnList
    <3>5. CASE sizes.tiny
      BY <2>2, <3>4, <3>5 DEF OnList, CursorStep
    <3>6. CASE ~sizes.tiny
      <4>1. Vis(rows) >= 1 /\ view.scroll <= view.cursor /\ view.scroll >= 0 /\ (Usable \/ view.scroll = 0)
        BY <3>6 DEF OnList
      <4>2. CASE Usable
        <5>1. Usable' /\ view'.scroll <= view'.cursor
          BY <1>a, <3>1, <3>2, <3>3, <4>1, <4>2, MovedOnList DEF Usable
        <5> QED
          BY <2>2, <3>4, <5>1 DEF OnList, CursorStep
      <4>3. CASE ~Usable
        <5>1. view.scroll = 0 /\ view.cursor >= 0
          BY <1>a, <4>1, <4>3
        <5>2. (Usable' \/ view'.scroll = 0) /\ view'.cursor <= view.cursor /\ view'.scroll <= view'.cursor
          BY <1>a, <3>1, <3>2, <3>3, <4>1, <4>3, <5>1, MovedOnList DEF Usable
        <5> QED
          BY <2>2, <3>4, <4>3, <5>2 DEF OnList, CursorStep
      <4> QED
        BY <4>2, <4>3
    <3> QED
      BY <3>5, <3>6
  <2>4. CASE Tab(key) \/ Clear(key)
    <3>1. Top
      BY <2>2, <2>4, Zenon DEF Tab, Clear
    <3> QED
      BY <1>d, <3>1
  <2>5. CASE Write(key) \/ Erase(key) \/ Submit(key) \/ OpenPicker(key) \/ Choose(key) \/ SetUp(key)
             \/ Mark(key) \/ Ignore(key) \/ Quit(key)
    <3>1. UNCHANGED <<view, lists>>
      <4>1. CASE UNCHANGED model
        BY <4>1 DEF model, lists
      <4> QED
        BY <2>5, <4>1, Zenon DEF Write, Erase, Submit, OpenPicker, Choose, SetUp, Mark, Ignore, Quit
    <3> QED
      BY <1>c, <2>2, <3>1
  <2> QED
    BY <2>1, <2>3, <2>4, <2>5 DEF Handle
<1>4. CASE PickFolder \/ Compose \/ Flush
  <2>1. UNCHANGED <<view, lists, height, sizes>> /\ (rows' = height \/ rows' = rows)
    BY <1>4 DEF PickFolder, Compose, Flush, model, window, lists
  <2>2. Usable' = Usable /\ (Usable' \/ (~Usable /\ view'.cursor <= view.cursor))
    BY <1>b, <2>1
  <2> QED
    BY <1>a, <2>1, <2>2 DEF OnList, CursorStep
<1>5. CASE Deliver
  <2>1. Top
    BY <1>5 DEF Deliver, Served, window
  <2> QED
    BY <1>d, <2>1
<1>6. CASE DeliverPlaylist
  <2>1. PICK slot : slot \in 0 .. saved' - 1 /\ view' = View(slot, 0)
    BY <1>6 DEF DeliverPlaylist
  <2>2. UNCHANGED <<type, rows, height, sizes>>
    BY <1>6 DEF DeliverPlaylist, Served, window
  <2>3. saved' \in Nat
    BY <1>6, Limits DEF DeliverPlaylist, WindowTypes
  <2>4. view'.scroll = 0 /\ view'.cursor = slot
    BY <2>1 DEF View
  <2>7. slot >= 0 /\ slot \in 0 .. (IF saved' = 0 THEN 0 ELSE saved' - 1)
    BY <2>1, <2>3, SlotOnList
  <2>5. type = "PLAYLISTS" => Usable'
    <3>1. type = "PLAYLISTS" => list_len' = saved'
      BY <2>2 DEF list_len
    <3> QED
      BY <2>4, <2>7, <3>1, Zenon DEF Usable
  <2>6. OnList'
    BY <2>2, <2>4, <2>7 DEF OnList
  <2> QED
    BY <1>6, <2>4, <2>5, <2>6 DEF CursorStep
<1>7. CASE UNCHANGED vars
  <2>1. Stays
    BY <1>7 DEF vars, model, window, lists
  <2> QED
    BY <1>c, <2>1
<1> QED
  BY <1>1, <1>2, <1>3, <1>4, <1>5, <1>6, <1>7 DEF Next, Main, Worker

LEMMA OnListAlways == Spec => [](WindowTypes /\ OnList)
<1>1. Init => WindowTypes /\ OnList
  BY WindowInit, OnListInit
<1>2. WindowTypes /\ OnList /\ [Next]_vars => WindowTypes' /\ OnList'
  BY WindowStep, OnListStep
<1> QED
  BY <1>1, <1>2, PTL DEF Spec

\* The cursor stays on an entry of the list, or at 0 without one, until the window
\* has been too small for an entry, unless a playlist arrives while songs or albums
\* are shown, and then it moves back only; the first row shown is never before the
\* list (the handlers of MODE_RESULTS and the deliveries, main.c).
THEOREM CursorStaysUsable == Spec => CursorUsable
<1>1. WindowTypes /\ OnList /\ [Next]_vars => [CursorStep]_vars
  BY OnListStep
<1>2. Spec => [][CursorStep]_vars
  BY OnListAlways, <1>1, PTL DEF Spec
<1> QED
  BY <1>2 DEF CursorStep, CursorUsable

\* In a window with room for an entry no cursor key moves the selection off the
\* screen, for every height and every length of the list.
THEOREM SelectionStaysVisible == Spec => SelectionVisible
<1> DEFINE A == \A key \in Navigation :
                  (Navigate(key) /\ ~sizes.tiny)
                    => \/ OnScreen(view', Vis(rows))
                       \/ key \in {"UP", "PGUP"} /\ ~OnScreen(view, Vis(rows))
<1>1. WindowTypes /\ OnList => A
  <2> SUFFICES ASSUME WindowTypes, OnList, NEW key \in Navigation, Navigate(key), ~sizes.tiny
               PROVE  \/ OnScreen(view', Vis(rows))
                      \/ key \in {"UP", "PGUP"} /\ ~OnScreen(view, Vis(rows))
    OBVIOUS
  <2>1. Moves(key, view, list_len) /\ view' = Moved(key, view, list_len, Vis(rows))
    BY DEF Navigate
  <2>2. view \in [cursor : Int, scroll : Int] /\ list_len \in Nat /\ Vis(rows) \in Int
    BY ListLengthType, Limits DEF WindowTypes, Vis
  <2>3. view.scroll >= 0 /\ Vis(rows) >= 1 /\ view.scroll <= view.cursor
        /\ (view.cursor \in 0 .. (IF list_len = 0 THEN 0 ELSE list_len - 1) \/ view.scroll = 0)
    BY DEF OnList, Usable
  <2> QED
    BY <2>1, <2>2, <2>3, MovedOnScreen
<1> HIDE DEF A
<1>2. Spec => [][A]_vars
  BY OnListAlways, <1>1, PTL
<1> QED
  BY <1>2 DEF A, SelectionVisible
-------------------------------------------------------------------------------
(* What a row shows.                                                       *)

\* What is on top of a row in the end: the last rows are put last.
Covering(row, h) ==
  IF row = h - 1 THEN StatusBar
  ELSE IF row = h - 2 THEN BottomBorder
  ELSE IF row = 0 THEN TopBorder
  ELSE IF row = 1 THEN SearchBar(busy)
  ELSE IF row = 2 THEN Header
  ELSE ListRow(row - 3)

\* The two kinds of rows that are put first and last.
Inner(row, h) ==
  IF row = 0 THEN <<TopBorder>>
  ELSE IF row = 1 THEN <<SearchBar(busy)>>
  ELSE IF row = 2 THEN <<Header>>
  ELSE IF row - 3 \in 0 .. Drawn(h) - 1 THEN <<ListRow(row - 3)>>
  ELSE <<>>

Outer(row, h) ==
  IF row = h - 1 THEN <<StatusBar>> ELSE IF row = h - 2 THEN <<BottomBorder>> ELSE <<>>

InnerPart == {"top", "bar", "header", "setup", "action", "item", "no item"}
OuterPart == {"bottom", "status"}

LEMMA Joined ==
  ASSUME NEW a
  PROVE  /\ <<>> \o <<>> = <<>> /\ <<a>> \o <<>> = <<a>> /\ <<>> \o <<a>> = <<a>>
         /\ \A b : <<a>> \o <<b>> = <<a, b>>
<1>1. <<>> \o <<>> = <<>>
  OBVIOUS
<1>2. <<a>> \o <<>> = <<a>> /\ <<>> \o <<a>> = <<a>>
  <2>1. <<a>> \in Seq({a})
    OBVIOUS
  <2> QED
    BY <2>1, ConcatEmptySeq
<1>3. ASSUME NEW b PROVE <<a>> \o <<b>> = <<a, b>>
  <2>1. <<a>> \in Seq({a, b}) /\ b \in {a, b}
    OBVIOUS
  <2>2. Append(<<a>>, b) = <<a>> \o <<b>>
    BY <2>1, AppendIsConcat
  <2>3. Append(<<a>>, b) = <<a, b>>
    <3>1. Append(<<a>>, b) \in Seq({a, b}) /\ Len(Append(<<a>>, b)) = 2
      BY <2>1
    <3>2. Append(<<a>>, b)[1] = a /\ Append(<<a>>, b)[2] = b
      BY <2>1
    <3>3. <<a, b>> \in Seq({a, b}) /\ Len(<<a, b>>) = 2 /\ <<a, b>>[1] = a /\ <<a, b>>[2] = b
      OBVIOUS
    <3> DEFINE s == Append(<<a>>, b)
               t == <<a, b>>
               S == {a, b}
    <3>4. s \in Seq(S) /\ t \in Seq(S) /\ Len(s) = 2 /\ Len(t) = 2 /\ s[1] = t[1] /\ s[2] = t[2]
      BY <3>1, <3>2, <3>3
    <3> HIDE DEF s, t, S
    <3>5. \A i \in 1 .. Len(s) : s[i] = t[i]
      BY <3>4
    <3>6. s = t
      BY <3>4, <3>5, SeqEqual
    <3> QED
      BY <3>6 DEF s, t
  <2> QED
    BY <2>2, <2>3, Zenon
<1> QED
  BY <1>1, <1>2, <1>3

LEMMA PutOnIs ==
  ASSUME NEW h \in Nat, h >= 2, NEW row \in 0 .. h - 1
  PROVE  PutOn(row, h) = Inner(row, h) \o Outer(row, h)
<1> DEFINE On(r, text) == IF r = row THEN <<text>> ELSE <<>>
           list == IF row - 3 \in 0 .. Drawn(h) - 1 THEN <<ListRow(row - 3)>> ELSE <<>>
           front == ((On(0, TopBorder) \o On(1, SearchBar(busy))) \o On(2, Header)) \o list
<1>1. PutOn(row, h) = (front \o On(h - 2, BottomBorder)) \o On(h - 1, StatusBar)
  BY Zenon DEF PutOn
<1>2. row \in Int /\ h \in Int
  OBVIOUS
<1>3. front = Inner(row, h)
  <2> DEFINE top == TopBorder
             bar == SearchBar(busy)
             head == Header
             item == ListRow(row - 3)
             listed == row - 3 \in 0 .. Drawn(h) - 1
  <2>1. Inner(row, h) = IF row = 0 THEN <<top>> ELSE IF row = 1 THEN <<bar>> ELSE IF row = 2 THEN <<head>>
                        ELSE IF listed THEN <<item>> ELSE <<>>
    BY Zenon DEF Inner
  <2>2. front = (((IF 0 = row THEN <<top>> ELSE <<>>) \o (IF 1 = row THEN <<bar>> ELSE <<>>))
                   \o (IF 2 = row THEN <<head>> ELSE <<>>)) \o (IF listed THEN <<item>> ELSE <<>>)
    BY Zenon
  <2>3. row \in {0, 1, 2} => ~listed
    BY <1>2
  <2> HIDE DEF top, bar, head, item, listed, front
  <2>4. CASE row = 0
    BY <2>1, <2>2, <2>3, <2>4, Joined
  <2>5. CASE row = 1
    BY <2>1, <2>2, <2>3, <2>5, Joined
  <2>6. CASE row = 2
    BY <2>1, <2>2, <2>3, <2>6, Joined
  <2>7. CASE row \notin {0, 1, 2}
    BY <2>1, <2>2, <2>7, Joined
  <2> QED
    BY <2>4, <2>5, <2>6, <2>7
<1>4. \E a : Inner(row, h) = <<a>> \/ Inner(row, h) = <<>>
  BY Zenon DEF Inner
<1>5. PICK a : front = <<a>> \/ front = <<>>
  BY <1>3, <1>4
<1> DEFINE status == StatusBar
           bottom == BottomBorder
<1>6. Outer(row, h) = IF row = h - 1 THEN <<status>> ELSE IF row = h - 2 THEN <<bottom>> ELSE <<>>
  BY Zenon DEF Outer
<1>7. PutOn(row, h) = (front \o (IF h - 2 = row THEN <<bottom>> ELSE <<>>))
                         \o (IF h - 1 = row THEN <<status>> ELSE <<>>)
  BY <1>1, Zenon
<1> HIDE DEF front, status, bottom
<1>8. CASE row = h - 1
  <2>1. row # h - 2
    BY <1>2, <1>8
  <2>2. PutOn(row, h) = (front \o <<>>) \o <<status>> /\ Outer(row, h) = <<status>>
    BY <1>6, <1>7, <1>8, <2>1, Zenon
  <2>3. front \o <<>> = front
    BY <1>5, Joined, Zenon
  <2> QED
    BY <1>3, <2>2, <2>3, Zenon
<1>9. CASE row = h - 2
  <2>1. row # h - 1
    BY <1>2, <1>9
  <2>2. PutOn(row, h) = (front \o <<bottom>>) \o <<>> /\ Outer(row, h) = <<bottom>>
    BY <1>6, <1>7, <1>9, <2>1, Zenon
  <2>3. (front \o <<bottom>>) \o <<>> = front \o <<bottom>>
    <3>1. CASE front = <<a>>
      <4>1. <<a, bottom>> \in Seq({a, bottom})
        OBVIOUS
      <4>2. <<a, bottom>> \o <<>> = <<a, bottom>>
        BY <4>1, ConcatEmptySeq
      <4> QED
        BY <3>1, <4>2, Joined, Zenon
    <3>2. CASE front = <<>>
      BY <3>2, Joined, Zenon
    <3> QED
      BY <1>5, <3>1, <3>2
  <2> QED
    BY <1>3, <2>2, <2>3, Zenon
<1>10. CASE row # h - 1 /\ row # h - 2
  <2>1. PutOn(row, h) = (front \o <<>>) \o <<>> /\ Outer(row, h) = <<>>
    BY <1>6, <1>7, <1>10, Zenon
  <2>2. front \o <<>> = front
    BY <1>5, Joined, Zenon
  <2> QED
    BY <1>3, <2>1, <2>2, Zenon
<1> QED
  BY <1>8, <1>9, <1>10

\* Every row of a window is covered; what a row is given twice in a small one
\* differs, so that it is written.
LEMMA PutOnCovers ==
  ASSUME NEW h \in Nat, h >= 2, NEW row \in 0 .. h - 1
  PROVE  \/ PutOn(row, h) = <<Covering(row, h)>>
         \/ \E first : PutOn(row, h) = <<first, Covering(row, h)>> /\ first # Covering(row, h)
<1>1. PutOn(row, h) = Inner(row, h) \o Outer(row, h)
  BY PutOnIs
<1>2. \A r : ListRow(r).part \in InnerPart
  <2> SUFFICES ASSUME NEW r PROVE ListRow(r).part \in InnerPart
    OBVIOUS
  <2>1. ItemRow(r).part \in InnerPart
    BY DEF ItemRow, InnerPart
  <2>2. SetupRow(r).part \in InnerPart /\ ActionRow(r).part \in InnerPart
    BY DEF SetupRow, ActionRow, InnerPart
  <2> QED
    BY <2>1, <2>2, Zenon DEF ListRow
<1>3. TopBorder.part \in InnerPart /\ SearchBar(busy).part \in InnerPart /\ Header.part \in InnerPart
  BY DEF TopBorder, SearchBar, Header, InnerPart
<1>4. StatusBar.part \in OuterPart /\ BottomBorder.part \in OuterPart
  BY DEF StatusBar, BottomBorder, OuterPart
<1>5. InnerPart \cap OuterPart = {}
  BY DEF InnerPart, OuterPart
<1>6. Inner(row, h) = <<>> \/ \E a : Inner(row, h) = <<a>> /\ a.part \in InnerPart
  BY <1>2, <1>3, Zenon DEF Inner
<1>7. CASE row \in {h - 1, h - 2}
  <2>1. Outer(row, h) = <<Covering(row, h)>>
    BY <1>7, Zenon DEF Outer, Covering
  <2>2. Covering(row, h).part \in OuterPart
    BY <1>4, <1>7, Zenon DEF Covering
  <2>3. ASSUME NEW a, Inner(row, h) = <<a>>, a.part \in InnerPart
        PROVE  PutOn(row, h) = <<a, Covering(row, h)>> /\ a # Covering(row, h)
    <3>1. <<a>> \o <<Covering(row, h)>> = <<a, Covering(row, h)>>
      BY Joined, Zenon
    <3>2. a # Covering(row, h)
      BY <1>5, <2>2, <2>3, Zenon
    <3> QED
      BY <1>1, <2>1, <2>3, <3>1, <3>2, Zenon
  <2>4. CASE Inner(row, h) = <<>>
    BY <1>1, <2>1, <2>4, Joined, Zenon
  <2> QED
    BY <1>6, <2>3, <2>4, Zenon
<1>8. CASE row \notin {h - 1, h - 2}
  <2>1. Outer(row, h) = <<>>
    BY <1>8, Zenon DEF Outer
  <2>2. row \notin {0, 1, 2} => row - 3 \in 0 .. Drawn(h) - 1
    BY <1>8 DEF Drawn, Vis
  <2>3. Inner(row, h) = <<Covering(row, h)>>
    BY <1>8, <2>2, Zenon DEF Inner, Covering
  <2> QED
    BY <1>1, <2>1, <2>3, Joined, Zenon
<1> QED
  BY <1>7, <1>8

LEMMA CoveringNotBlank ==
  ASSUME NEW h \in Nat, h >= 2, NEW row \in 0 .. h - 1
  PROVE  Covering(row, h) # Blank
<1>1. \A r : ListRow(r).part # "blank"
  <2> SUFFICES ASSUME NEW r PROVE ListRow(r).part # "blank"
    OBVIOUS
  <2>1. ItemRow(r).part # "blank"
    BY DEF ItemRow
  <2>2. SetupRow(r).part # "blank" /\ ActionRow(r).part # "blank"
    BY DEF SetupRow, ActionRow
  <2> QED
    BY <2>1, <2>2, Zenon DEF ListRow
<1>2. /\ TopBorder.part # "blank" /\ SearchBar(busy).part # "blank" /\ Header.part # "blank"
      /\ StatusBar.part # "blank" /\ BottomBorder.part # "blank"
  BY DEF TopBorder, SearchBar, Header, StatusBar, BottomBorder
<1>3. Covering(row, h).part # "blank"
  BY <1>1, <1>2, Zenon DEF Covering
<1>4. Blank.part = "blank"
  BY DEF Blank
<1> QED
  BY <1>3, <1>4, Zenon

\* fb_put: the row has the last text, and is not written only if it had it before.
LEMMA PutIs ==
  ASSUME NEW h \in Nat, h >= 2, NEW row \in 0 .. h - 1, NEW old
  PROVE  LET new == Put(old, PutOn(row, h))
         IN  /\ new = [text |-> Covering(row, h), dirty |-> new.dirty]
             /\ new.dirty \in BOOLEAN
             /\ ~new.dirty => old.text = Covering(row, h)
<1> DEFINE c == Covering(row, h)
           p == PutOn(row, h)
<1>1. p = <<c>> \/ \E first : p = <<first, c>> /\ first # c
  BY PutOnCovers
<1> HIDE DEF c, p
<1>2. CASE p = <<c>>
  <2>1. Len(p) = 1 /\ p # <<>> /\ Last(p) = c
    BY <1>2 DEF Last
  <2> DEFINE d == c # old.text
  <2>2. ~(Len(p) > 1)
    BY <2>1
  <2>3. Put(old, p) = [text |-> c, dirty |-> d]
    BY <2>1, <2>2, Zenon DEF Put
  <2>4. d \in BOOLEAN /\ (~d => old.text = c)
    BY Zenon
  <2> HIDE DEF d
  <2>5. /\ Put(old, p) = [text |-> c, dirty |-> Put(old, p).dirty]
        /\ Put(old, p).dirty = d
    BY <2>3
  <2> QED
    BY <2>4, <2>5, Zenon DEF c, p
<1>3. ASSUME NEW first, p = <<first, c>>, first # c
      PROVE  Put(old, p) = [text |-> c, dirty |-> TRUE]
  <2>1. Len(p) = 2 /\ p # <<>> /\ Last(p) = c /\ p[1] = first
    BY <1>3 DEF Last
  <2>2. Len(p) > 1 /\ p[Len(p) - 1] = first
    BY <2>1
  <2>3. Put(old, p) = [text |-> c, dirty |-> c # first]
    BY <2>1, <2>2, Zenon DEF Put
  <2>4. (c # first) = TRUE
    BY <1>3, Zenon
  <2> QED
    BY <2>3, <2>4, Zenon
<1>4. CASE Put(old, p) = [text |-> c, dirty |-> TRUE]
  BY <1>4 DEF c, p
<1> QED
  BY <1>1, <1>2, <1>3, <1>4

LEMMA FinalIs ==
  \A row \in 0 .. rows - 1 : rows \in Nat /\ rows >= 2 => Final(row) = Covering(row, rows)
<1> SUFFICES ASSUME NEW row \in 0 .. rows - 1, rows \in Nat, rows >= 2
             PROVE  Final(row) = Covering(row, rows)
  OBVIOUS
<1> DEFINE c == Covering(row, rows)
           p == PutOn(row, rows)
<1>1. p = <<c>> \/ \E first : p = <<first, c>>
  BY PutOnCovers
<1> HIDE DEF c, p
<1>2. Last(p) = c
  BY <1>1 DEF Last
<1> QED
  BY <1>2 DEF Final, c, p

LEMMA FinalNext ==
  (\A row \in 0 .. rows - 1 : rows \in Nat /\ rows >= 2 => Final(row) = Covering(row, rows))'
BY FinalIs, PTL
-------------------------------------------------------------------------------
(* What the window shows.                                                  *)

\* The frame buffer is there before anything is read, a change of the size shows
\* in a flag until it is drawn, the rows of the buffer that are not to be written
\* are in the window, unless its size has changed since, and all of them are what
\* the state says, unless it is to be drawn anew.  Only together are they
\* inductive: what fb_put compares with is what fb_flush wrote.
Stands(i) ==
  \/ fb[i].text = Final(i)
  \/ ~busy /\ Final(i).part = "bar" /\ fb[i].text = SearchBar(TRUE)

SizeTold ==
  /\ ~touched => height = rows
  /\ touched => resized \/ dirty

Buffer ==
  /\ fb = NoBuffer => dirty /\ pc = "render"
  /\ fb = NoBuffer \/ DOMAIN fb = 0 .. rows - 1
  /\ \A i \in DOMAIN fb : /\ fb[i] = [text |-> fb[i].text, dirty |-> fb[i].dirty]
                          /\ fb[i].dirty \in BOOLEAN
                          /\ pc # "flush" => ~fb[i].dirty

Written == ~touched /\ ~missed => \A i \in DOMAIN fb : fb[i].dirty \/ display[i] = fb[i].text

UpToDate == ~dirty => \A i \in DOMAIN fb : Stands(i)

Redrawn == SizeTold /\ Buffer /\ Written /\ UpToDate

LEMMA RedrawnInit == Init => Redrawn
<1> SUFFICES ASSUME Init PROVE Redrawn
  OBVIOUS
<1>1. DOMAIN fb = {}
  BY DEF Init, NoBuffer
<1>2. dirty /\ pc = "render" /\ fb = NoBuffer /\ ~touched /\ height = rows
  BY DEF Init
<1> QED
  BY <1>1, <1>2 DEF Redrawn, SizeTold, Buffer, Written, UpToDate

\* A key that asks for no drawing has changed nothing.
LEMMA QuietKey ==
  ASSUME NEW key, Handle(key), pc = "read"
  PROVE  /\ dirty' \/ (~dirty /\ UNCHANGED model)
         /\ dirty => dirty'
<1>1. CASE Navigate(key) \/ Tab(key) \/ Clear(key) \/ Write(key) \/ Erase(key) \/ OpenPicker(key) \/ SetUp(key)
  <2>1. Break(TRUE)
    BY <1>1, Zenon DEF Navigate, Tab, Clear, Write, Erase, OpenPicker, SetUp
  <2>2. pc' = "render" /\ dirty'
    BY <2>1, Zenon DEF Break
  <2> QED
    BY <2>2
<1>2. CASE Choose(key)
  <2>1. Break(TRUE) \/ Continue(TRUE)
    BY <1>2, Zenon DEF Choose
  <2>2. (pc' = "render" \/ pc' = "read") /\ dirty'
    BY <2>1, Zenon DEF Break, Continue
  <2> QED
    BY <2>2
<1>3. CASE Mark(key) \/ Ignore(key)
  <2>1. PICK draws : Break(draws) /\ UNCHANGED model
    BY <1>3, Zenon DEF Mark, Ignore
  <2>2. pc' = "render" /\ dirty' = (dirty \/ draws)
    BY <2>1, Zenon DEF Break
  <2>3. dirty' \/ ~dirty
    BY <2>2, Zenon
  <2> QED
    BY <2>1, <2>2, <2>3, Zenon
<1>4. CASE Submit(key)
  <2> DEFINE asks == Picks \/ query # <<>>
  <2>1. /\ Continue(asks)
        /\ IF asks THEN todo' = todo + 1 /\ busy' = TRUE ELSE UNCHANGED <<todo, busy>>
        /\ query' = IF Picks /\ type = "PLAYLISTS" THEN <<"x">> ELSE query
        /\ UNCHANGED <<mode, lists, batch, view>>
    BY <1>4, Zenon DEF Submit
  <2>2. pc' = "read" /\ dirty' = (dirty \/ asks)
    BY <2>1, Zenon DEF Continue
  <2>3. asks \/ UNCHANGED model
    <3>1. Picks => asks
      OBVIOUS
    <3> HIDE DEF asks
    <3> SUFFICES ASSUME ~asks PROVE UNCHANGED model
      OBVIOUS
    <3>2. query' = query /\ UNCHANGED <<todo, busy>>
      BY <2>1, <3>1, Zenon
    <3>3. UNCHANGED <<type, found, saved>>
      BY <2>1 DEF lists
    <3> QED
      BY <2>1, <3>2, <3>3, Zenon DEF model
  <2> HIDE DEF asks
  <2>4. dirty' \/ (~dirty /\ ~asks)
    BY <2>2, Zenon
  <2> QED
    BY <2>2, <2>3, <2>4, Zenon
<1>5. CASE Quit(key)
  <2>1. pc' = "quit" /\ UNCHANGED model /\ dirty' = dirty
    BY <1>5, Zenon DEF Quit
  <2> QED
    BY <2>1, Zenon
<1> QED
  BY <1>1, <1>2, <1>3, <1>4, <1>5, Zenon DEF Handle

\* What is put on the rows depends on nothing else.
LEMMA FinalStays ==
  ASSUME UNCHANGED model, rows' = rows, NEW i
  PROVE  Final(i)' = Final(i)
BY DEF model, Final, PutOn, StatusBar, BottomBorder, TopBorder, SearchBar, Header, ListRow,
       SetupRow, ActionRow, ItemRow, list_len

\* A key, a stroke or a tenth of a second without one leaves the buffer alone.
LEMMA QuietStep ==
  ASSUME WindowTypes, Redrawn, UNCHANGED <<window, rows, fb, missed>>,
         pc = "flush" => pc' = "flush", fb # NoBuffer \/ pc' = pc,
         dirty => dirty', touched => resized' \/ dirty',
         dirty' \/ UNCHANGED model
  PROVE  Redrawn'
<1>1. SizeTold'
  BY DEF Redrawn, SizeTold, window
<1>2. Buffer'
  <2>1. fb' = NoBuffer => dirty' /\ pc' = "render"
    BY DEF Redrawn, Buffer
  <2>2. fb' = NoBuffer \/ DOMAIN fb' = 0 .. rows' - 1
    BY DEF Redrawn, Buffer
  <2>3. \A i \in DOMAIN fb' : /\ fb'[i] = [text |-> fb'[i].text, dirty |-> fb'[i].dirty]
                              /\ fb'[i].dirty \in BOOLEAN
                              /\ pc' # "flush" => ~fb'[i].dirty
    BY DEF Redrawn, Buffer
  <2> QED
    BY <2>1, <2>2, <2>3 DEF Buffer
<1>3. Written'
  BY DEF Redrawn, Written, window
<1>4. UpToDate'
  <2> SUFFICES ASSUME ~dirty', NEW i \in DOMAIN fb PROVE Stands(i)'
    BY DEF UpToDate
  <2>1. UNCHANGED model /\ ~dirty
    OBVIOUS
  <2>2. Final(i)' = Final(i) /\ busy' = busy /\ SearchBar(TRUE)' = SearchBar(TRUE)
    BY <2>1, FinalStays, Zenon DEF model, SearchBar
  <2>3. Stands(i)
    BY <2>1 DEF Redrawn, UpToDate
  <2> QED
    BY <2>2, <2>3, Zenon DEF Stands
<1> QED
  BY <1>1, <1>2, <1>3, <1>4 DEF Redrawn

LEMMA ResizeStep ==
  ASSUME WindowTypes, Redrawn, Resize
  PROVE  Redrawn'
<1>1. touched' /\ resized' /\ UNCHANGED <<model, pc, dirty, rows, fb, missed>>
  BY DEF Resize
<1>2. SizeTold'
  BY <1>1 DEF SizeTold
<1>3. Buffer'
  BY <1>1 DEF Redrawn, Buffer
<1>4. Written'
  BY <1>1 DEF Written
<1>5. UpToDate'
  <2> SUFFICES ASSUME ~dirty', NEW i \in DOMAIN fb PROVE Stands(i)'
    BY <1>1 DEF UpToDate
  <2>1. Final(i)' = Final(i) /\ busy' = busy /\ SearchBar(TRUE)' = SearchBar(TRUE)
    BY <1>1, FinalStays, Zenon DEF model, SearchBar
  <2>2. Stands(i)
    BY <1>1 DEF Redrawn, UpToDate
  <2> QED
    BY <1>1, <2>1, <2>2, Zenon DEF Stands
<1> QED
  BY <1>2, <1>3, <1>4, <1>5 DEF Redrawn

LEMMA PickFolderStep ==
  ASSUME PickFolder
  PROVE  Redrawn'
<1>1. /\ fb' = NoBuffer /\ rows' = height /\ height' = height
      /\ touched' = FALSE /\ dirty' = TRUE /\ pc' = "render"
  BY Zenon DEF PickFolder, PickerBuffer
<1>2. DOMAIN fb' = {}
  BY <1>1 DEF NoBuffer
<1> QED
  BY <1>1, <1>2 DEF Redrawn, SizeTold, Buffer, Written, UpToDate

\* The worker retires: only the spinner of the search line is behind.
LEMMA RetireStep ==
  ASSUME WindowTypes, Redrawn, Retire
  PROVE  Redrawn'
<1>1. /\ busy = TRUE /\ busy' = FALSE
      /\ UNCHANGED <<input, mode, type, found, saved, batch, view, query, todo, pc, dirty, resized,
                     window, rows, fb, missed>>
  BY DEF Retire, WindowTypes, lists
<1>2. SizeTold' /\ Written'
  BY <1>1 DEF Redrawn, SizeTold, Written, window
<1>3. Buffer'
  BY <1>1 DEF Redrawn, Buffer
<1>4. UpToDate'
  <2> SUFFICES ASSUME ~dirty', NEW i \in DOMAIN fb PROVE Stands(i)'
    BY <1>1 DEF UpToDate
  <2>1. i \in 0 .. rows - 1 /\ rows \in Nat /\ rows >= 2
    <3>1. DOMAIN NoBuffer = {}
      BY DEF NoBuffer
    <3> QED
      BY <3>1, Limits DEF Redrawn, Buffer, WindowTypes
  <2>2. fb[i].text = Final(i)
    <3>1. Stands(i)
      BY <1>1 DEF Redrawn, UpToDate
    <3> QED
      BY <1>1, <3>1, Zenon DEF Stands
  <2>3. Final(i) = Covering(i, rows)
    BY <2>1, FinalIs
  <2>4. Final(i)' = Covering(i, rows)'
    BY <1>1, <2>1, FinalNext
  <2>5. \/ Covering(i, rows)' = Covering(i, rows)
        \/ Covering(i, rows) = SearchBar(busy) /\ Covering(i, rows)' = SearchBar(busy)'
    <3>1. /\ StatusBar' = StatusBar /\ BottomBorder' = BottomBorder /\ TopBorder' = TopBorder
          /\ Header' = Header /\ ListRow(i - 3)' = ListRow(i - 3) /\ rows' = rows
      BY <1>1 DEF StatusBar, BottomBorder, TopBorder, Header, ListRow, SetupRow, ActionRow, ItemRow, list_len
    <3> QED
      BY <3>1, Zenon DEF Covering
  <2>6. CASE Covering(i, rows)' = Covering(i, rows)
    BY <1>1, <2>2, <2>3, <2>4, <2>6, Zenon DEF Stands
  <2>7. CASE Covering(i, rows) = SearchBar(busy) /\ Covering(i, rows)' = SearchBar(busy)'
    <3>1. SearchBar(busy)'.part = "bar" /\ SearchBar(TRUE)' = SearchBar(TRUE)
      BY <1>1 DEF SearchBar
    <3>2. fb'[i].text = SearchBar(TRUE)'
      BY <1>1, <2>2, <2>3, <2>7, <3>1, Zenon
    <3> QED
      BY <1>1, <2>4, <2>7, <3>1, <3>2, Zenon DEF Stands
  <2> QED
    BY <2>5, <2>6, <2>7
<1> QED
  BY <1>2, <1>3, <1>4 DEF Redrawn

\* tui_render as far as its unlock: a row that is not marked has its text.
LEMMA ComposeStep ==
  ASSUME WindowTypes, Redrawn, Compose
  PROVE  Redrawn'
<1>1. CASE ~dirty
  <2>1. pc = "render" /\ pc' = "read" /\ UNCHANGED <<dirty, rows, window, fb, missed, input, model, resized>>
    BY <1>1 DEF Compose
  <2>2. fb # NoBuffer
    BY <1>1 DEF Redrawn, Buffer
  <2> QED
    BY <2>1, <2>2, QuietStep DEF Redrawn, SizeTold, WindowTypes
<1>2. CASE dirty
  <2> DEFINE kept == fb # NoBuffer /\ DOMAIN fb = 0 .. height - 1
             old == IF kept THEN fb ELSE Fresh(height)
             new(i) == Put(old[i], PutOn(i, height))
  <2>1. /\ pc = "render" /\ pc' = "flush" /\ dirty' = FALSE /\ rows' = height
        /\ display' = IF rows = height THEN display ELSE [i \in 0 .. height - 1 |-> Blank]
        /\ fb' = [i \in 0 .. height - 1 |-> new(i)]
        /\ missed' = (kept /\ (missed \/ touched))
        /\ touched' = FALSE
        /\ height' = height /\ UNCHANGED model
    BY <1>2, Zenon DEF Compose
  <2>2. height \in Nat /\ height >= 2
    BY Limits DEF WindowTypes
  <2>3. \A i \in 0 .. height - 1 :
          /\ new(i) = [text |-> Covering(i, height), dirty |-> new(i).dirty]
          /\ new(i).dirty \in BOOLEAN
          /\ ~new(i).dirty => old[i].text = Covering(i, height)
    BY <2>2, PutIs
  <2> HIDE DEF new
  <2>4. DOMAIN fb' = 0 .. height - 1 /\ \A i \in 0 .. height - 1 : fb'[i] = new(i)
    BY <2>1
  <2>5. \A i \in 0 .. height - 1 : fb'[i].text = Covering(i, height)
    BY <2>3, <2>4
  <2>6. SizeTold'
    BY <2>1 DEF SizeTold
  <2>7. Buffer'
    <3>1. fb' # NoBuffer
      <4>1. DOMAIN NoBuffer = {}
        BY DEF NoBuffer
      <4>2. 0 \in DOMAIN fb'
        BY <2>2, <2>4
      <4> QED
        BY <4>1, <4>2
    <3>2. \A i \in DOMAIN fb' : /\ fb'[i] = [text |-> fb'[i].text, dirty |-> fb'[i].dirty]
                                /\ fb'[i].dirty \in BOOLEAN
      BY <2>3, <2>4
    <3> QED
      BY <2>1, <2>4, <3>1, <3>2 DEF Buffer
  <2>8. Written'
    <3> SUFFICES ASSUME ~missed', NEW i \in 0 .. height - 1, ~fb'[i].dirty
                 PROVE  display'[i] = fb'[i].text
      BY <2>4 DEF Written
    <3>1. old[i].text = Covering(i, height)
      BY <2>3, <2>4
    <3>2. CASE kept
      <4>1. ~missed /\ ~touched
        BY <2>1, <3>2, Zenon
      <4>2. rows = height
        BY <4>1 DEF Redrawn, SizeTold
      <4>3. ~fb[i].dirty
        BY <2>1, <3>2 DEF Redrawn, Buffer
      <4>4. display[i] = fb[i].text
        BY <3>2, <4>1, <4>3 DEF Redrawn, Written
      <4>5. display' = display
        BY <2>1, <4>2
      <4> QED
        BY <2>5, <3>1, <3>2, <4>4, <4>5
    <3>3. CASE ~kept
      <4>1. old[i].text = Blank
        BY <3>3 DEF Fresh
      <4> QED
        BY <2>2, <3>1, <4>1, CoveringNotBlank
    <3> QED
      BY <3>2, <3>3
  <2>9. UpToDate'
    <3> SUFFICES ASSUME NEW i \in 0 .. height - 1 PROVE Stands(i)'
      BY <2>4 DEF UpToDate
    <3>1. Final(i)' = Covering(i, rows)'
      BY <2>1, <2>2, FinalNext
    <3>2. Covering(i, rows)' = Covering(i, height)
      BY <2>1 DEF model, Covering, StatusBar, BottomBorder, TopBorder, SearchBar, Header, ListRow,
                  SetupRow, ActionRow, ItemRow, list_len
    <3> QED
      BY <2>5, <3>1, <3>2, Zenon DEF Stands
  <2> QED
    BY <2>6, <2>7, <2>8, <2>9 DEF Redrawn
<1> QED
  BY <1>1, <1>2

\* The fields of a row of the buffer.
LEMMA RowFields ==
  ASSUME NEW t, NEW e
  PROVE  /\ [text |-> t, dirty |-> e].text = t
         /\ [text |-> t, dirty |-> e].dirty = e
         /\ \A d : [[text |-> t, dirty |-> d] EXCEPT !.dirty = e] = [text |-> t, dirty |-> e]
OBVIOUS

\* fb_flush: the rows that differ are written, and then none does.
LEMMA FlushStep ==
  ASSUME WindowTypes, Redrawn, Flush
  PROVE  Redrawn'
<1>1. /\ pc = "flush" /\ pc' = "read"
      /\ display' = [i \in 0 .. height - 1 |->
                       IF height # rows THEN Junk ELSE IF fb[i].dirty THEN fb[i].text ELSE display[i]]
      /\ fb' = [i \in DOMAIN fb |-> [fb[i] EXCEPT !.dirty = FALSE]]
      /\ UNCHANGED <<model, dirty, resized, height, touched, rows, missed>>
  BY DEF Flush
<1>2. fb # NoBuffer /\ DOMAIN fb = 0 .. rows - 1
  BY <1>1 DEF Redrawn, Buffer
<1>3. rows \in Nat /\ rows >= 2
  BY Limits DEF WindowTypes
<1>4. DOMAIN fb' = 0 .. rows - 1
  BY <1>1, <1>2
<1>5. \A i \in 0 .. rows - 1 : fb'[i] = [text |-> fb[i].text, dirty |-> FALSE]
  <2> SUFFICES ASSUME NEW i \in 0 .. rows - 1 PROVE fb'[i] = [text |-> fb[i].text, dirty |-> FALSE]
    OBVIOUS
  <2> DEFINE c == fb[i]
  <2>1. c = [text |-> c.text, dirty |-> c.dirty]
    BY <1>2 DEF Redrawn, Buffer
  <2>2. fb'[i] = [c EXCEPT !.dirty = FALSE]
    BY <1>1, <1>2
  <2> HIDE DEF c
  <2>3. [c EXCEPT !.dirty = FALSE] = [text |-> c.text, dirty |-> FALSE]
    <3> DEFINE t == c.text
               d == c.dirty
    <3>1. c = [text |-> t, dirty |-> d]
      BY <2>1
    <3> HIDE DEF t, d
    <3> QED
      BY <3>1, RowFields, Zenon DEF t
  <2> QED
    BY <2>2, <2>3 DEF c
<1>6. \A i \in 0 .. rows - 1 : /\ fb'[i].text = fb[i].text /\ fb'[i].dirty = FALSE
                               /\ fb'[i] = [text |-> fb'[i].text, dirty |-> fb'[i].dirty]
  <2> SUFFICES ASSUME NEW i \in 0 .. rows - 1
               PROVE  /\ fb'[i].text = fb[i].text /\ fb'[i].dirty = FALSE
                      /\ fb'[i] = [text |-> fb'[i].text, dirty |-> fb'[i].dirty]
    OBVIOUS
  <2> DEFINE r == fb'[i]
             t == fb[i].text
  <2>1. r = [text |-> t, dirty |-> FALSE]
    BY <1>5
  <2> HIDE DEF r, t
  <2>2. r.text = t /\ r.dirty = FALSE
    BY <2>1, RowFields, Zenon
  <2>3. r = [text |-> r.text, dirty |-> r.dirty]
    BY <2>1, <2>2, Zenon
  <2> QED
    BY <2>2, <2>3 DEF r, t
<1>7. SizeTold'
  BY <1>1 DEF Redrawn, SizeTold
<1>8. Buffer'
  <2>1. fb' # NoBuffer
    <3>1. DOMAIN NoBuffer = {}
      BY DEF NoBuffer
    <3>2. 0 \in DOMAIN fb'
      BY <1>3, <1>4
    <3> QED
      BY <3>1, <3>2
  <2>2. \A i \in DOMAIN fb' : /\ fb'[i] = [text |-> fb'[i].text, dirty |-> fb'[i].dirty]
                              /\ fb'[i].dirty \in BOOLEAN
                              /\ ~fb'[i].dirty
    BY <1>4, <1>6
  <2> QED
    BY <1>1, <1>4, <2>1, <2>2 DEF Buffer
<1>9. Written'
  <2> SUFFICES ASSUME ~touched, ~missed, NEW i \in 0 .. rows - 1
               PROVE  display'[i] = fb'[i].text
    BY <1>1, <1>4 DEF Written
  <2>1. height = rows
    BY DEF Redrawn, SizeTold
  <2>2. display'[i] = IF fb[i].dirty THEN fb[i].text ELSE display[i]
    BY <1>1, <2>1
  <2>3. fb[i].dirty \/ display[i] = fb[i].text
    BY <1>2 DEF Redrawn, Written
  <2> QED
    <3>1. fb'[i].text = fb[i].text
      BY <1>6
    <3> QED
      BY <2>2, <2>3, <3>1, Zenon
<1>10. UpToDate'
  <2> SUFFICES ASSUME ~dirty, NEW i \in 0 .. rows - 1 PROVE Stands(i)'
    BY <1>1, <1>4 DEF UpToDate
  <2>1. Final(i)' = Final(i) /\ busy' = busy /\ SearchBar(TRUE)' = SearchBar(TRUE)
    BY <1>1, FinalStays, Zenon DEF model, SearchBar
  <2>2. Stands(i)
    BY <1>2 DEF Redrawn, UpToDate
  <2>3. fb'[i].text = fb[i].text
    BY <1>6
  <2> QED
    BY <2>1, <2>2, <2>3, Zenon DEF Stands
<1> QED
  BY <1>7, <1>8, <1>9, <1>10 DEF Redrawn

LEMMA RedrawnStep == WindowTypes /\ Redrawn /\ [Next]_vars => Redrawn'
<1> SUFFICES ASSUME WindowTypes, Redrawn, [Next]_vars
             PROVE  Redrawn'
  OBVIOUS
<1>a. touched => resized \/ dirty
  BY DEF Redrawn, SizeTold
<1>1. CASE Type \/ UNCHANGED vars
  <2>1. UNCHANGED <<window, rows, fb, missed, pc, dirty, resized, model>>
    BY <1>1 DEF Type, vars
  <2> QED
    BY <1>a, <2>1, QuietStep
<1>2. CASE Read \/ ReadRest
  <2>1. PICK key : Handle(key)
    BY <1>2, KeyStep
  <2>2. pc = "read" /\ UNCHANGED <<resized, window, rows, fb, missed>>
    BY <1>2, KeyStep
  <2>3. (dirty' \/ (~dirty /\ UNCHANGED model)) /\ (dirty => dirty')
    BY <2>1, <2>2, QuietKey
  <2>4. fb # NoBuffer
    BY <2>2 DEF Redrawn, Buffer
  <2> QED
    BY <1>a, <2>2, <2>3, <2>4, QuietStep
<1>3. CASE Timeout
  <2>1. pc = "read" /\ resized' = FALSE /\ dirty' = (dirty \/ (busy \/ resized))
        /\ UNCHANGED <<input, model, window, rows, fb, missed>>
    BY <1>3, Zenon DEF Timeout, Pending, Redraws
  <2>2. fb # NoBuffer
    BY <2>1 DEF Redrawn, Buffer
  <2>3. (dirty => dirty') /\ (resized => dirty')
    BY <2>1, Zenon
  <2> QED
    BY <1>a, <2>1, <2>2, <2>3, QuietStep
<1>4. CASE Deliver \/ DeliverPlaylist \/ Report
  <2>1. dirty' = TRUE /\ UNCHANGED <<pc, resized, window, rows, fb, missed>>
    BY <1>4 DEF Deliver, DeliverPlaylist, Report, Served
  <2> QED
    BY <2>1, QuietStep
<1> QED
  BY <1>1, <1>2, <1>3, <1>4, ResizeStep, PickFolderStep, RetireStep, ComposeStep, FlushStep
     DEF Next, Main, Worker

LEMMA RedrawnAlways == Spec => [](WindowTypes /\ Redrawn)
<1>1. Init => WindowTypes /\ Redrawn
  BY WindowInit, RedrawnInit
<1>2. WindowTypes /\ Redrawn /\ [Next]_vars => WindowTypes' /\ Redrawn'
  BY WindowStep, RedrawnStep
<1> QED
  BY <1>1, <1>2, PTL DEF Spec

\* When nothing is marked to be drawn the window shows the state, whatever the
\* worker and the window did between the drawing and the writing.
THEOREM ScreenStaysTrue == Spec => []ScreenTrue
<1>1. WindowTypes /\ Redrawn => ScreenTrue
  <2> SUFFICES ASSUME WindowTypes, Redrawn, pc = "read", ~dirty, ~resized, ~missed
               PROVE  Shows
    BY DEF ScreenTrue
  <2>1. ~touched /\ rows = height
    BY DEF Redrawn, SizeTold
  <2>2. DOMAIN fb = 0 .. rows - 1 /\ DOMAIN display = 0 .. rows - 1
    BY <2>1 DEF Redrawn, Buffer, WindowTypes
  <2>3. ASSUME NEW row \in DOMAIN display PROVE Shown(row)
    <3>1. display[row] = fb[row].text
      BY <2>1, <2>2 DEF Redrawn, Buffer, Written
    <3>2. Stands(row)
      BY <2>2 DEF Redrawn, UpToDate
    <3> QED
      BY <3>1, <3>2, Zenon DEF Stands, Shown
  <2> QED
    BY <2>1, <2>3 DEF Shows
<1> QED
  BY RedrawnAlways, <1>1, PTL
-------------------------------------------------------------------------------
(* The bytes of a key.                                                     *)

Byte == {"x", "lead", "cont", "TAB", "CR", "DEL", "^U", "ESC", "^C",
         "[", "O", "A", "B", "F", "1", "5", "6", "~"}

\* The keys that a stroke means.
Single == {"x", "lead", "cont", "TAB", "ENTER", "BACKSPACE", "^U", "^C"}
Sequence == {"UP", "DOWN", "PGUP", "PGDN", "HOME", "END"}
Meant  == Single \cup Sequence \cup {"ESCAPE"}

Unit(k) ==
  CASE k = "ENTER"     -> <<"CR">>
    [] k = "BACKSPACE" -> <<"DEL">>
    [] k = "ESCAPE"    -> <<"ESC">>
    [] k = "UP"        -> <<"ESC", "[", "A">>
    [] k = "DOWN"      -> <<"ESC", "[", "B">>
    [] k = "PGUP"      -> <<"ESC", "[", "5", "~">>
    [] k = "PGDN"      -> <<"ESC", "[", "6", "~">>
    [] k = "HOME"      -> <<"ESC", "[", "1", "~">>
    [] k = "END"       -> <<"ESC", "O", "F">>
    [] OTHER           -> <<k>>

\* The keys that one of their bytes tells, which no other key has, and the byte.
Told == {"UP", "DOWN", "PGUP", "PGDN", "HOME", "END", "TAB", "ENTER", "BACKSPACE", "^U", "^C",
         "x", "lead", "cont"}

Sign(k) ==
  CASE k = "ENTER"     -> "CR"
    [] k = "BACKSPACE" -> "DEL"
    [] k = "UP"        -> "A"
    [] k = "DOWN"      -> "B"
    [] k = "PGUP"      -> "5"
    [] k = "PGDN"      -> "6"
    [] k = "HOME"      -> "1"
    [] k = "END"       -> "F"
    [] OTHER           -> k

Dumb == {"ESC", "[", "O", "~"}

LEMMA SignFacts ==
  /\ \A k \in Told : Sign(k) \in Byte /\ Sign(k) \notin Dumb
  /\ \A k, c \in Told : Sign(k) = Sign(c) => k = c
BY DEF Sign, Told, Byte, Dumb

LEMMA SingleUnit ==
  ASSUME NEW k \in Single \cup {"ESCAPE"}
  PROVE  \E b \in Byte : /\ Unit(k) = <<b>>
                         /\ b \notin {"[", "O"}
                         /\ b = "ESC" <=> k = "ESCAPE"
                         /\ k # "ESCAPE" => FromRest(b) = k
                         /\ b \in Dumb \/ (k \in Told /\ b = Sign(k))
<1> DEFINE b == IF k = "ENTER" THEN "CR" ELSE IF k = "BACKSPACE" THEN "DEL"
                ELSE IF k = "ESCAPE" THEN "ESC" ELSE k
<1>1. Unit(k) = <<b>>
  BY DEF Unit, Single
<1>2. /\ b \in Byte /\ b \notin {"[", "O"} /\ (b = "ESC" <=> k = "ESCAPE")
      /\ k # "ESCAPE" => FromRest(b) = k
      /\ b \in Dumb \/ (k \in Told /\ b = Sign(k))
  BY DEF Byte, Single, FromRest, Dumb, Told, Sign
<1> QED
  BY <1>1, <1>2, Zenon

\* Three bytes or four, of which the third is the sign.
LEMMA SequenceUnit ==
  ASSUME NEW k \in Sequence
  PROVE  /\ k \in Told
         /\ \E b \in {"[", "O"} : Unit(k) \in {<<"ESC", b, Sign(k)>>, <<"ESC", b, Sign(k), "~">>}
<1>1. k \in Told
  BY DEF Sequence, Told
<1>2. CASE k = "UP"
  <2>1. Unit(k) = <<"ESC", "[", Sign(k)>>
    BY <1>2 DEF Unit, Sign
  <2> QED
    BY <1>1, <2>1, Zenon
<1>3. CASE k = "DOWN"
  <2>1. Unit(k) = <<"ESC", "[", Sign(k)>>
    BY <1>3 DEF Unit, Sign
  <2> QED
    BY <1>1, <2>1, Zenon
<1>4. CASE k = "PGUP"
  <2>1. Unit(k) = <<"ESC", "[", Sign(k), "~">>
    BY <1>4 DEF Unit, Sign
  <2> QED
    BY <1>1, <2>1, Zenon
<1>5. CASE k = "PGDN"
  <2>1. Unit(k) = <<"ESC", "[", Sign(k), "~">>
    BY <1>5 DEF Unit, Sign
  <2> QED
    BY <1>1, <2>1, Zenon
<1>6. CASE k = "HOME"
  <2>1. Unit(k) = <<"ESC", "[", Sign(k), "~">>
    BY <1>6 DEF Unit, Sign
  <2> QED
    BY <1>1, <2>1, Zenon
<1>7. CASE k = "END"
  <2>1. Unit(k) = <<"ESC", "O", Sign(k)>>
    BY <1>7 DEF Unit, Sign
  <2> QED
    BY <1>1, <2>1, Zenon
<1> QED
  BY <1>2, <1>3, <1>4, <1>5, <1>6, <1>7 DEF Sequence

\* A stroke sends one unit, or two of a byte each.
LEMMA StrokeUnits ==
  ASSUME NEW s \in Stroke
  PROVE  \/ \E k \in Meant : Keys[s] = <<k>> /\ Bytes[s] = Unit(k)
         \/ Keys[s] = <<"lead", "cont">> /\ Bytes[s] = <<"lead", "cont">>
<1>1. s \in {"text", "accent", "tab", "enter", "erase", "clear", "escape", "quit",
             "up", "down", "pgup", "pgdn", "home", "end"}
  <2>1. s \in DOMAIN Keys
    BY TerminalAssumption DEF TerminalAssumption
  <2> QED
    BY <2>1 DEF Keys
<1>2. CASE s = "accent"
  BY <1>2 DEF Keys, Bytes
<1> DEFINE Is(k) == Keys[s] = <<k>> /\ Bytes[s] = Unit(k)
<1>3. s = "text" => Is("x")
  BY DEF Keys, Bytes, Unit
<1>4. s = "tab" => Is("TAB")
  BY DEF Keys, Bytes, Unit
<1>5. s = "enter" => Is("ENTER")
  BY DEF Keys, Bytes, Unit
<1>6. s = "erase" => Is("BACKSPACE")
  BY DEF Keys, Bytes, Unit
<1>7. s = "clear" => Is("^U")
  BY DEF Keys, Bytes, Unit
<1>8. s = "escape" => Is("ESCAPE")
  BY DEF Keys, Bytes, Unit
<1>9. s = "quit" => Is("^C")
  BY DEF Keys, Bytes, Unit
<1>10. s = "up" => Is("UP")
  BY DEF Keys, Bytes, Unit
<1>11. s = "down" => Is("DOWN")
  BY DEF Keys, Bytes, Unit
<1>12. s = "pgup" => Is("PGUP")
  BY DEF Keys, Bytes, Unit
<1>13. s = "pgdn" => Is("PGDN")
  BY DEF Keys, Bytes, Unit
<1>14. s = "home" => Is("HOME")
  BY DEF Keys, Bytes, Unit
<1>15. s = "end" => Is("END")
  BY DEF Keys, Bytes, Unit
<1>16. {"x", "TAB", "ENTER", "BACKSPACE", "^U", "ESCAPE", "^C", "UP", "DOWN", "PGUP", "PGDN", "HOME", "END"}
         \subseteq Meant
  BY DEF Meant, Single, Sequence
<1> HIDE DEF Is
<1>17. s # "accent" => \E k \in Meant : Is(k)
  BY <1>1, <1>3, <1>4, <1>5, <1>6, <1>7, <1>8, <1>9, <1>10, <1>11, <1>12, <1>13, <1>14, <1>15, <1>16
<1> QED
  BY <1>2, <1>17, Zenon DEF Is

LEMMA ShortTuples ==
  ASSUME NEW S, NEW a \in S, NEW b \in S, NEW c \in S, NEW d \in S
  PROVE  /\ <<a>> \in Seq(S) /\ Len(<<a>>) = 1 /\ <<a>>[1] = a
         /\ <<a, b, c>> \in Seq(S) /\ <<a, b, c, d>> \in Seq(S)
OBVIOUS

\* What a unit is like, in terms of its bytes.
LEMMA UnitFacts ==
  ASSUME NEW k \in Meant
  PROVE  /\ Unit(k) \in Seq(Byte) /\ Len(Unit(k)) \in 1 .. 4
         /\ Unit(k)[1] \notin {"[", "O"}
         /\ Unit(k)[1] # "ESC" => k \in Single /\ Len(Unit(k)) = 1 /\ FromRest(Unit(k)[1]) = k
         /\ k \in Single => Unit(k)[1] # "ESC"
         /\ k = "ESCAPE" => Len(Unit(k)) = 1
         /\ k \in Sequence => /\ k \in Told /\ Len(Unit(k)) >= 3 /\ Unit(k)[1] = "ESC"
                              /\ Unit(k)[2] \in {"[", "O"} /\ Unit(k)[3] = Sign(k)
         /\ \A i \in 1 .. Len(Unit(k)) :
              \/ Unit(k)[i] \in Dumb
              \/ k \in Told /\ Unit(k)[i] = Sign(k) /\ i = IF k \in Sequence THEN 3 ELSE 1
<1>a. Sequence \cap (Single \cup {"ESCAPE"}) = {} /\ "ESCAPE" \notin Single
  BY DEF Sequence, Single
<1>b. {"ESC", "[", "O", "~"} \subseteq Byte /\ {"ESC", "[", "O", "~"} \subseteq Dumb
  BY DEF Byte, Dumb
<1>1. CASE k \in Single \cup {"ESCAPE"}
  <2>1. PICK b \in Byte : /\ Unit(k) = <<b>>
                          /\ b \notin {"[", "O"}
                          /\ b = "ESC" <=> k = "ESCAPE"
                          /\ k # "ESCAPE" => FromRest(b) = k
                          /\ b \in Dumb \/ (k \in Told /\ b = Sign(k))
    BY <1>1, SingleUnit
  <2> DEFINE u == Unit(k)
  <2>2. u \in Seq(Byte) /\ Len(u) = 1 /\ u[1] = b
    BY <2>1, ShortTuples, Zenon
  <2>3. b # "ESC" => k \in Single /\ FromRest(b) = k
    BY <1>1, <2>1, Zenon
  <2>4. k \notin Sequence /\ (k \in Single => b # "ESC")
    BY <1>1, <1>a, <2>1
  <2>5. b \in Dumb \/ (k \in Told /\ b = Sign(k))
    BY <2>1, Zenon
  <2> HIDE DEF u
  <2>6. \A i \in 1 .. Len(u) : i = 1
    BY <2>2
  <2> QED
    BY <2>1, <2>2, <2>3, <2>4, <2>5, <2>6 DEF u
<1>2. CASE k \in Sequence
  <2>1. PICK b \in {"[", "O"} : Unit(k) \in {<<"ESC", b, Sign(k)>>, <<"ESC", b, Sign(k), "~">>}
    BY <1>2, SequenceUnit
  <2>2. k \in Told /\ Sign(k) \in Byte /\ b \in Byte /\ b \in Dumb
    BY <1>2, <1>b, SequenceUnit, SignFacts
  <2> DEFINE u == Unit(k)
             e == Sign(k)
  <2>3. u = <<"ESC", b, e>> \/ u = <<"ESC", b, e, "~">>
    BY <2>1
  <2> HIDE DEF u, e
  <2>4. u \in Seq(Byte)
    <3>1. "ESC" \in Byte /\ b \in Byte /\ e \in Byte /\ "~" \in Byte
      BY <1>b, <2>2 DEF e
    <3>2. <<"ESC", b, e>> \in Seq(Byte) /\ <<"ESC", b, e, "~">> \in Seq(Byte)
      BY <3>1, ShortTuples
    <3> QED
      BY <2>3, <3>2, Zenon
  <2>5. (Len(u) = 3 \/ Len(u) = 4) /\ u[1] = "ESC" /\ u[2] = b /\ u[3] = e /\ (Len(u) = 4 => u[4] = "~")
    BY <2>3
  <2>6. \A i \in 1 .. Len(u) : u[i] \in Dumb \/ (u[i] = e /\ i = 3)
    BY <1>b, <2>2, <2>5
  <2> QED
    BY <1>2, <1>a, <2>2, <2>4, <2>5, <2>6 DEF u, e
<1> QED
  BY <1>1, <1>2 DEF Meant
-------------------------------------------------------------------------------
(* One read.                                                               *)

\* How many bytes a key takes off.
Gone(buf) == IF Len(buf) > 1 /\ buf[1] # "ESC" THEN 1 ELSE Len(buf)

\* t is s without its first d bytes, and perhaps without its last ones.
Off(s, t, d) == Len(t) + d <= Len(s) /\ \A i \in 1 .. Len(t) : t[i] = s[i + d]

LEMMA ByteTells ==
  ASSUME NEW b \in Byte
  PROVE  /\ FromRest(b) \in Told => b = Sign(FromRest(b))
         /\ FromRest(b) \in Certain => FromRest(b) \in Told
         /\ b \in Told => b = Sign(b)
         /\ b \in Certain => b \in Told
         /\ "ESCAPE" \notin Certain
         /\ b \notin {"CR", "DEL"} => FromRest(b) = b
BY DEF FromRest, Byte, Told, Certain, Sign, Control

LEMMA SequenceTells ==
  ASSUME NEW buf \in Seq(Byte), Len(buf) > 1, EscapeKey(buf) \in Certain
  PROVE  Len(buf) >= 3 /\ EscapeKey(buf) \in Told /\ buf[3] = Sign(EscapeKey(buf))
<1> DEFINE n == Len(buf)
<1>1. n \in Nat
  OBVIOUS
<1>2. "ESC" \notin Certain
  BY DEF Certain, Control
<1>3. CASE n >= 3 /\ buf[2] = "[" /\ buf[3] \in DOMAIN Arrow
  <2>1. EscapeKey(buf) = Arrow[buf[3]]
    <3>1. buf[2] # "O" /\ buf[3] \notin DOMAIN Numbered
      BY <1>3 DEF Arrow, Numbered
    <3> QED
      BY <1>3, <3>1, Zenon DEF EscapeKey
  <2> DEFINE b == buf[3]
  <2>2. b \in Byte /\ b \in {"A", "B", "C", "D"}
    BY <1>1, <1>3 DEF Arrow
  <2> HIDE DEF b
  <2>3. Arrow[b] \in Told /\ b = Sign(Arrow[b])
    <3>1. b = "A" \/ b = "B"
      BY <2>2 DEF Byte
    <3> QED
      BY <3>1 DEF Arrow, Told, Sign
  <2> QED
    BY <1>3, <2>1, <2>3 DEF b
<1>4. CASE /\ ~(n >= 3 /\ buf[2] = "[" /\ buf[3] \in DOMAIN Arrow)
           /\ n >= 4 /\ buf[2] = "[" /\ buf[3] \in DOMAIN Numbered /\ buf[4] = "~"
  <2> DEFINE b == buf[3]
  <2>1. b \in Byte /\ b \in {"1", "7", "4", "8", "5", "6"}
    BY <1>1, <1>4 DEF Numbered
  <2>2. b \notin DOMAIN Arrow
    BY <2>1 DEF Arrow
  <2>3. EscapeKey(buf) = Numbered[b]
    BY <1>4, <2>2, Zenon DEF EscapeKey
  <2> HIDE DEF b
  <2>4. Numbered[b] \in Told /\ b = Sign(Numbered[b])
    <3>1. b = "1" \/ b = "5" \/ b = "6"
      BY <2>1 DEF Byte
    <3> QED
      BY <3>1 DEF Numbered, Told, Sign
  <2> QED
    BY <1>1, <1>4, <2>3, <2>4 DEF b
<1>5. CASE n >= 3 /\ buf[2] = "O" /\ buf[3] \in DOMAIN AfterO
  <2> DEFINE b == buf[3]
  <2>1. b \in Byte /\ b \in {"A", "B", "C", "D", "H", "F"}
    BY <1>1, <1>5 DEF AfterO
  <2>2. EscapeKey(buf) = AfterO[b]
    BY <1>5, Zenon DEF EscapeKey
  <2> HIDE DEF b
  <2>3. AfterO[b] \in Told /\ b = Sign(AfterO[b])
    <3>1. b = "A" \/ b = "B" \/ b = "F"
      BY <2>1 DEF Byte
    <3> QED
      BY <3>1 DEF AfterO, Told, Sign
  <2> QED
    BY <1>5, <2>2, <2>3 DEF b
<1>6. CASE /\ ~(n >= 3 /\ buf[2] = "[" /\ buf[3] \in DOMAIN Arrow)
           /\ ~(n >= 4 /\ buf[2] = "[" /\ buf[3] \in DOMAIN Numbered /\ buf[4] = "~")
           /\ ~(n >= 3 /\ buf[2] = "O" /\ buf[3] \in DOMAIN AfterO)
  <2>1. EscapeKey(buf) = "ESC"
    BY <1>6, Zenon DEF EscapeKey
  <2> QED
    BY <1>2, <2>1
<1> QED
  BY <1>3, <1>4, <1>5, <1>6

LEMMA OneOrMore ==
  ASSUME NEW n \in Nat, n >= 1
  PROVE  (n = 1 \/ n > 1) /\ (n > 1 => n # 1)
OBVIOUS

\* A key that no broken sequence gives has its sign among the bytes that are taken
\* off.
LEMMA ReadTells ==
  ASSUME NEW buf \in Seq(Byte), buf # <<>>
  PROVE  /\ Gone(buf) \in 1 .. Len(buf)
         /\ ReadKey(buf).rest = SubSeq(buf, Gone(buf) + 1, Len(buf))
         /\ ReadKey(buf).key \in Certain =>
              /\ ReadKey(buf).key \in Told
              /\ \E i \in 1 .. Gone(buf) : buf[i] = Sign(ReadKey(buf).key)
<1>0. Len(buf) \in Nat /\ Len(buf) >= 1
  OBVIOUS
<1>1. Len(buf) \in Nat /\ Len(buf) >= 1 /\ buf[1] \in Byte /\ Head(buf) = buf[1]
  OBVIOUS
<1>2. CASE Len(buf) = 1
  <2>1. ReadKey(buf).key = Alone(buf[1]) /\ ReadKey(buf).rest = <<>>
    BY <1>1, <1>2 DEF ReadKey
  <2>2. Gone(buf) = 1
    BY <1>2 DEF Gone
  <2>3. SubSeq(buf, 2, 1) = <<>>
    OBVIOUS
  <2>4. Alone(buf[1]) = "ESCAPE" \/ Alone(buf[1]) = FromRest(buf[1])
    BY DEF Alone
  <2> QED
    BY <1>1, <1>2, <2>1, <2>2, <2>3, <2>4, ByteTells
<1>3. CASE Len(buf) > 1 /\ buf[1] # "ESC"
  <2>1. ReadKey(buf).key = buf[1] /\ ReadKey(buf).rest = Tail(buf)
    BY <1>1, <1>3 DEF ReadKey
  <2>2. Gone(buf) = 1
    BY <1>3 DEF Gone
  <2>3. Tail(buf) = SubSeq(buf, 2, Len(buf))
    BY <1>3
  <2> QED
    BY <1>1, <1>3, <2>1, <2>2, <2>3, ByteTells
<1>4. CASE Len(buf) > 1 /\ buf[1] = "ESC"
  <2>1. ReadKey(buf).key = EscapeKey(buf) /\ ReadKey(buf).rest = <<>>
    <3> DEFINE n == Len(buf)
               h == Head(buf)
    <3>1. n # 1 /\ h = "ESC"
      <4>1. n # 1
        BY <1>0, <1>4, OneOrMore
      <4>2. h = "ESC"
        BY <1>1, <1>4
      <4> QED
        BY <4>1, <4>2
    <3> HIDE DEF n, h
    <3>2. ReadKey(buf) = [key |-> EscapeKey(buf), rest |-> <<>>]
      BY <3>1, Zenon DEF ReadKey, n, h
    <3> QED
      BY <3>2
  <2>2. Gone(buf) = Len(buf)
    BY <1>4 DEF Gone
  <2>3. SubSeq(buf, Len(buf) + 1, Len(buf)) = <<>>
    BY <1>1
  <2>4. ReadKey(buf).key \in Certain =>
          Len(buf) >= 3 /\ EscapeKey(buf) \in Told /\ buf[3] = Sign(EscapeKey(buf))
    BY <1>4, <2>1, SequenceTells
  <2> QED
    BY <1>1, <2>1, <2>2, <2>3, <2>4
<1>5. Len(buf) = 1 \/ Len(buf) > 1
  BY <1>0, OneOrMore
<1> QED
  BY <1>2, <1>3, <1>4, <1>5, Zenon

\* A key that comes alone is that key.
LEMMA UnitRead ==
  ASSUME NEW k \in Meant
  PROVE  ReadKey(Unit(k)).key = k /\ Gone(Unit(k)) = Len(Unit(k))
<1> DEFINE u == Unit(k)
<1>1. u \in Seq(Byte) /\ Len(u) \in 1 .. 4 /\ u # <<>> /\ Head(u) = u[1]
  BY UnitFacts
<1>2. CASE k \in Single
  <2>1. Len(u) = 1 /\ u[1] # "ESC" /\ FromRest(u[1]) = k
    BY <1>2, UnitFacts
  <2>2. ReadKey(u).key = k
    BY <1>1, <2>1 DEF ReadKey, Alone
  <2> QED
    BY <2>1, <2>2 DEF Gone
<1>3. CASE k = "ESCAPE"
  <2>1. u = <<"ESC">>
    BY <1>3 DEF Unit
  <2>2. Len(u) = 1 /\ u[1] = "ESC"
    BY <2>1
  <2> HIDE DEF u
  <2>3. ReadKey(u).key = "ESCAPE"
    BY <1>1, <2>2 DEF ReadKey, Alone
  <2> QED
    BY <1>3, <2>2, <2>3 DEF Gone, u
<1>4. CASE k \in Sequence
  <2>1. Len(u) >= 3 /\ u[1] = "ESC" /\ u[2] \in {"[", "O"} /\ u[3] = Sign(k)
    BY <1>4, UnitFacts
  <2>2. ReadKey(u).key = EscapeKey(u)
    BY <1>1, <2>1 DEF ReadKey
  <2>3. EscapeKey(u) = k
    <3> DEFINE e == Sign(k)
    <3>1. CASE k \in {"UP", "DOWN"}
      <4>1. u[2] = "[" /\ e \in DOMAIN Arrow /\ Arrow[e] = k
        BY <3>1 DEF Unit, Sign, Arrow
      <4>2. u[2] # "O" /\ e \notin DOMAIN Numbered
        BY <3>1, <4>1 DEF Sign, Numbered
      <4> QED
        BY <2>1, <4>1, <4>2, Zenon DEF EscapeKey
    <3>2. CASE k \in {"PGUP", "PGDN", "HOME"}
      <4>1. u[2] = "[" /\ Len(u) = 4 /\ u[4] = "~" /\ e \in DOMAIN Numbered /\ Numbered[e] = k
            /\ e \notin DOMAIN Arrow
        BY <3>2 DEF Unit, Sign, Arrow, Numbered
      <4>2. Len(u) >= 4
        BY <4>1
      <4> QED
        BY <2>1, <4>1, <4>2, Zenon DEF EscapeKey
    <3>3. CASE k = "END"
      <4>1. u[2] = "O" /\ u[2] # "[" /\ e \in DOMAIN AfterO /\ AfterO[e] = k
        BY <3>3 DEF Unit, Sign, AfterO
      <4> QED
        BY <2>1, <4>1, Zenon DEF EscapeKey
    <3> QED
      BY <1>4, <3>1, <3>2, <3>3 DEF Sequence
  <2> QED
    BY <2>1, <2>2, <2>3 DEF Gone
<1> QED
  BY <1>2, <1>3, <1>4 DEF Meant

\* The units of two sequences that begin alike are one.
LEMMA SignApart ==
  ASSUME NEW k \in Sequence, NEW l \in Sequence, Unit(k)[3] = Unit(l)[3]
  PROVE  k = l
<1>1. k \in Meant /\ l \in Meant
  BY DEF Meant
<1>2. k \in Told /\ l \in Told /\ Sign(k) = Sign(l)
  BY <1>1, UnitFacts
<1> QED
  BY <1>2, SignFacts
-------------------------------------------------------------------------------
(* The signs that were typed and not read, and the keys that are owed.      *)

Places(q, e) == {i \in 1 .. Len(q) : q[i] = e}

Rising(g) == \A i, j \in DOMAIN g : i < j => g[i] < g[j]

\* Each sign of k among the bytes s has a k of its own among the keys o, in order.
Owing(s, o, k) == \E g \in [Places(s, Sign(k)) -> Places(o, k)] : Rising(g)

LEMMA LeastPlace ==
  ASSUME NEW T \in SUBSET Nat, T # {}
  PROVE  \E x \in T : \A y \in T : x <= y
<1>1. PICK x \in T : \A y \in T : ~(<<y, x>> \in OpToRel(<, Nat))
  BY NatLessThanWellFounded, WFMin
<1>2. ASSUME NEW y \in T PROVE x <= y
  <2>1. ~(y < x)
    BY <1>1 DEF OpToRel
  <2> QED
    BY <2>1
<1> QED
  BY <1>2

\* RemoveFirst takes away the first of the places of e.
LEMMA FirstRemoved ==
  ASSUME NEW S, NEW o \in Seq(S), NEW e, Contains(o, e)
  PROVE  \E f \in Places(o, e) :
           /\ \A i \in Places(o, e) : f <= i
           /\ RemoveFirst(o, e) \in Seq(S)
           /\ Len(RemoveFirst(o, e)) = Len(o) - 1
           /\ \A i \in 1 .. Len(o) - 1 : RemoveFirst(o, e)[i] = o[IF i < f THEN i ELSE i + 1]
<1> DEFINE I == {i \in 1 .. Len(o) : o[i] = e}
           f == Min(I)
<1>1. I # {} /\ I \in SUBSET Nat
  BY DEF Contains
<1>2. f \in I /\ \A i \in I : f <= i
  <2>1. \E x \in I : \A y \in I : x <= y
    BY <1>1, LeastPlace
  <2>2. \E x \in I : \A y \in I : x =< y
    BY <2>1
  <2> QED
    BY <2>2, Zenon DEF Min
<1>3. RemoveFirst(o, e) = SubSeq(o, 1, f - 1) \o SubSeq(o, f + 1, Len(o))
  BY <1>1, Zenon DEF RemoveFirst, Contains, SelectInSeq, RemoveAt
<1>4. f \in 1 .. Len(o) /\ Len(o) \in Nat
  BY <1>2
<1> DEFINE a == SubSeq(o, 1, f - 1)
           b == SubSeq(o, f + 1, Len(o))
<1> HIDE DEF I, f
<1>5. a \in Seq(S) /\ Len(a) = f - 1 /\ \A i \in 1 .. f - 1 : a[i] = o[i]
  BY <1>4
<1>6. b \in Seq(S) /\ Len(b) = Len(o) - f /\ \A i \in 1 .. Len(o) - f : b[i] = o[i + f]
  BY <1>4
<1> HIDE DEF a, b
<1>7. a \o b \in Seq(S) /\ Len(a \o b) = Len(o) - 1
  <2>1. a \o b \in Seq(S) /\ Len(a \o b) = Len(a) + Len(b)
    BY <1>5, <1>6
  <2>2. Len(a) + Len(b) = Len(o) - 1
    BY <1>4, <1>5, <1>6
  <2> QED
    BY <2>1, <2>2
<1>8. ASSUME NEW i \in 1 .. Len(o) - 1
      PROVE  (a \o b)[i] = o[IF i < f THEN i ELSE i + 1]
  <2>1. CASE i < f
    BY <1>4, <1>5, <1>6, <2>1
  <2>2. CASE ~(i < f)
    <3>1. (a \o b)[i] = b[i - (f - 1)]
      BY <1>4, <1>5, <1>6, <2>2
    <3>2. i - (f - 1) \in 1 .. Len(o) - f /\ i - (f - 1) + f = i + 1
      BY <1>4, <2>2
    <3> QED
      BY <1>6, <2>2, <3>1, <3>2
  <2> QED
    BY <2>1, <2>2
<1> QED
  BY <1>2, <1>3, <1>7, <1>8 DEF I, Places, a, b

\* Bytes that are gone leave the others in order.
LEMMA OwingOff ==
  ASSUME NEW s \in Seq(Byte), NEW t \in Seq(Byte), NEW d \in Nat, Off(s, t, d),
         NEW o, NEW k, Owing(s, o, k)
  PROVE  Owing(t, o, k)
<1> DEFINE A == Places(s, Sign(k))
           B == Places(t, Sign(k))
<1>1. PICK g \in [A -> Places(o, k)] : Rising(g)
  BY DEF Owing
<1>2. \A i \in B : i \in Nat /\ i + d \in A
  BY DEF Off, Places
<1>a. A \subseteq Nat
  BY DEF Places
<1> DEFINE h == [i \in B |-> g[i + d]]
<1> HIDE DEF A, B
<1>3. h \in [B -> Places(o, k)]
  BY <1>2
<1>4. Rising(h)
  BY <1>1, <1>2 DEF Rising
<1> QED
  BY <1>3, <1>4 DEF Owing, B

\* With a sign among them a key is taken off, and the first k can be.
LEMMA OwingTaken ==
  ASSUME NEW s \in Seq(Byte), NEW t \in Seq(Byte), NEW d \in Nat, Off(s, t, d),
         NEW o \in Seq(Meant), NEW k, Owing(s, o, k),
         NEW p \in 1 .. d, p <= Len(s), s[p] = Sign(k)
  PROVE  Contains(o, k) /\ Owing(t, RemoveFirst(o, k), k)
<1> DEFINE A == Places(s, Sign(k))
           B == Places(t, Sign(k))
           q == RemoveFirst(o, k)
<1>1. PICK g \in [A -> Places(o, k)] : Rising(g)
  BY DEF Owing
<1>2. p \in A /\ A \subseteq Nat
  BY DEF Places
<1>3. g[p] \in 1 .. Len(o) /\ o[g[p]] = k
  BY <1>1, <1>2 DEF Places
<1>4. Contains(o, k)
  BY <1>3 DEF Contains
<1>5. PICK f \in Places(o, k) :
        /\ \A i \in Places(o, k) : f <= i
        /\ q \in Seq(Meant) /\ Len(q) = Len(o) - 1
        /\ \A i \in 1 .. Len(o) - 1 : q[i] = o[IF i < f THEN i ELSE i + 1]
  BY <1>4, FirstRemoved
<1>6. ASSUME NEW i \in B PROVE i \in Nat /\ i + d \in A /\ p < i + d
  BY DEF Off, Places
<1> DEFINE h == [i \in B |-> g[i + d] - 1]
<1>7. Places(o, k) \subseteq 1 .. Len(o) /\ Len(o) \in Nat
  BY DEF Places
<1>8. ASSUME NEW i \in B PROVE h[i] \in Places(q, k)
  <2> DEFINE j == g[i + d]
  <2>1. j \in Places(o, k) /\ g[p] < j /\ f <= g[p] /\ g[p] \in Nat /\ f \in Nat
    <3> HIDE DEF A, B
    <3> QED
      BY <1>1, <1>2, <1>5, <1>6, <1>7 DEF Rising
  <2>2. j \in 1 .. Len(o) /\ o[j] = k
    BY <2>1 DEF Places
  <2> HIDE DEF j
  <2>3. j - 1 \in 1 .. Len(o) - 1 /\ ~(j - 1 < f) /\ (j - 1) + 1 = j
    BY <1>7, <2>1, <2>2
  <2>4. q[j - 1] = k
    BY <1>5, <2>2, <2>3
  <2>5. j - 1 \in Places(q, k)
    BY <1>5, <2>3, <2>4 DEF Places
  <2> QED
    BY <2>5 DEF j
<1>9. Rising(h)
  <2> SUFFICES ASSUME NEW i \in B, NEW j \in B, i < j PROVE h[i] < h[j]
    BY DEF Rising
  <2>1. g[i + d] < g[j + d] /\ g[i + d] \in Nat /\ g[j + d] \in Nat
    <3> HIDE DEF A, B
    <3> QED
      BY <1>1, <1>2, <1>6, <1>7 DEF Rising
  <2> QED
    BY <2>1
<1>10. h \in [B -> Places(q, k)]
  BY <1>8
<1> QED
  BY <1>4, <1>9, <1>10 DEF Owing

\* The loss of another key does not matter.
LEMMA OwingOther ==
  ASSUME NEW s \in Seq(Byte), NEW o \in Seq(Meant), NEW k, NEW e, e # k, Owing(s, o, k)
  PROVE  Owing(s, RemoveFirst(o, e), k)
<1>1. CASE ~Contains(o, e)
  BY <1>1 DEF RemoveFirst, Contains
<1>2. CASE Contains(o, e)
  <2> DEFINE A == Places(s, Sign(k))
             q == RemoveFirst(o, e)
  <2>1. PICK g \in [A -> Places(o, k)] : Rising(g)
    BY DEF Owing
  <2>2. PICK f \in Places(o, e) :
          /\ \A i \in Places(o, e) : f <= i
          /\ q \in Seq(Meant) /\ Len(q) = Len(o) - 1
          /\ \A i \in 1 .. Len(o) - 1 : q[i] = o[IF i < f THEN i ELSE i + 1]
    BY <1>2, FirstRemoved
  <2>3. Places(o, k) \subseteq 1 .. Len(o) /\ Len(o) \in Nat /\ f \in 1 .. Len(o) /\ o[f] = e
    BY DEF Places
  <2> DEFINE Shift(j) == IF j < f THEN j ELSE j - 1
             h == [i \in A |-> Shift(g[i])]
  <2>4. ASSUME NEW j \in Places(o, k) PROVE j # f /\ Shift(j) \in Places(q, k)
    <3>1. j \in 1 .. Len(o) /\ o[j] = k /\ j # f
      BY <2>3 DEF Places
    <3>2. CASE j < f
      BY <2>2, <2>3, <3>1, <3>2 DEF Places
    <3>3. CASE ~(j < f)
      <4>1. j - 1 \in 1 .. Len(o) - 1 /\ ~(j - 1 < f) /\ (j - 1) + 1 = j
        BY <2>3, <3>1, <3>3
      <4>2. q[j - 1] = k
        BY <2>2, <3>1, <4>1
      <4>3. j - 1 \in Places(q, k)
        BY <2>2, <4>1, <4>2 DEF Places
      <4> QED
        BY <3>1, <3>3, <4>3
    <3> QED
      BY <3>1, <3>2, <3>3
  <2>5. A \subseteq Nat
    BY DEF Places
  <2> HIDE DEF A
  <2>6. h \in [A -> Places(q, k)]
    BY <2>4
  <2>7. Rising(h)
    <3> SUFFICES ASSUME NEW i \in A, NEW j \in A, i < j PROVE h[i] < h[j]
      BY DEF Rising
    <3>1. g[i] < g[j] /\ g[i] \in Places(o, k) /\ g[j] \in Places(o, k)
      BY <2>1 DEF Rising
    <3>2. g[i] \in Nat /\ g[j] \in Nat /\ g[i] # f /\ g[j] # f /\ f \in Nat
      BY <2>3, <2>4, <3>1
    <3> QED
      BY <3>1, <3>2
  <2> QED
    BY <2>6, <2>7 DEF Owing, A
<1> QED
  BY <1>1, <1>2

\* A key that is typed with the bytes of its unit is owed.
LEMMA OwingTyped ==
  ASSUME NEW s \in Seq(Byte), NEW o \in Seq(Meant), NEW k \in Told, NEW m \in Meant, Owing(s, o, k)
  PROVE  Owing(s \o Unit(m), o \o <<m>>, k)
<1> DEFINE u == Unit(m)
           A == Places(s, Sign(k))
           B == Places(s \o u, Sign(k))
           at == IF m \in Sequence THEN 3 ELSE 1
<1>1. u \in Seq(Byte) /\ Len(u) \in Nat
      /\ \A i \in 1 .. Len(u) : u[i] \in Dumb \/ (m \in Told /\ u[i] = Sign(m) /\ i = at)
  BY UnitFacts
<1>2. PICK g \in [A -> Places(o, k)] : Rising(g)
  BY DEF Owing
<1>3. \A i \in 1 .. Len(u) : u[i] = Sign(k) => i = at /\ m = k
  BY <1>1, SignFacts
<1> HIDE DEF u
<1>4. s \o u \in Seq(Byte) /\ Len(s \o u) = Len(s) + Len(u)
      /\ Len(s) \in Nat /\ at \in Nat /\ at >= 1 /\ Len(o) \in Nat
  BY <1>1
<1>5. \A i \in 1 .. Len(s) + Len(u) : (s \o u)[i] = IF i <= Len(s) THEN s[i] ELSE u[i - Len(s)]
  BY <1>1
<1>6. \A i \in B : i \in A \/ (i = Len(s) + at /\ m = k)
  <2> SUFFICES ASSUME NEW i \in B, i \notin A PROVE i = Len(s) + at /\ m = k
    OBVIOUS
  <2>1. i \in 1 .. Len(s) + Len(u) /\ (s \o u)[i] = Sign(k)
    BY <1>4 DEF Places
  <2>2. ~(i <= Len(s))
    BY <1>4, <1>5, <2>1 DEF Places
  <2>3. i - Len(s) \in 1 .. Len(u) /\ u[i - Len(s)] = Sign(k)
    BY <1>1, <1>4, <1>5, <2>1, <2>2
  <2>4. i - Len(s) = at /\ m = k
    BY <1>3, <2>3
  <2> QED
    BY <1>4, <2>1, <2>4
<1>7. A \subseteq 1 .. Len(s) /\ Places(o, k) \subseteq 1 .. Len(o)
  BY DEF Places
<1> DEFINE h == [i \in B |-> IF i \in A THEN g[i] ELSE Len(o) + 1]
<1>8. Places(o, k) \subseteq Places(o \o <<m>>, k)
  BY DEF Places
<1>9. m = k => Len(o) + 1 \in Places(o \o <<m>>, k)
  BY DEF Places
<1> HIDE DEF A, B, at
<1>10. h \in [B -> Places(o \o <<m>>, k)]
  <2> SUFFICES ASSUME NEW i \in B PROVE h[i] \in Places(o \o <<m>>, k)
    OBVIOUS
  <2> QED
    BY <1>2, <1>6, <1>8, <1>9
<1>11. Rising(h)
  <2> SUFFICES ASSUME NEW i \in B, NEW j \in B, i < j PROVE h[i] < h[j]
    BY DEF Rising
  <2>1. CASE i \in A /\ j \in A
    BY <1>2, <2>1 DEF Rising
  <2>2. CASE i \in A /\ j \notin A
    <3>1. h[j] = Len(o) + 1 /\ h[i] = g[i] /\ g[i] \in 1 .. Len(o)
      BY <1>2, <1>7, <2>2
    <3> QED
      BY <1>4, <3>1
  <2>3. CASE i \notin A
    <3>1. i = Len(s) + at
      BY <1>6, <2>3
    <3>2. j \in A => FALSE
      BY <1>4, <1>7, <3>1
    <3>3. j = Len(s) + at
      BY <1>6, <3>2
    <3> QED
      BY <1>4, <3>1, <3>3
  <2> QED
    BY <2>1, <2>2, <2>3
<1> QED
  BY <1>10, <1>11 DEF Owing, B, u
-------------------------------------------------------------------------------
(* The bytes that spell the keys.                                          *)

\* The bytes of v stand in s from place p on.
Stand(s, p, v) == \A i \in 1 .. Len(v) : s[p + i - 1] = v[i]

\* s is the units of the keys o, one after the other: that of o[j] begins at u[j].
Spelled(s, o) ==
  \E u \in [1 .. Len(o) + 1 -> 1 .. Len(s) + 1] :
    /\ u[1] = 1 /\ u[Len(o) + 1] = Len(s) + 1 /\ Rising(u)
    /\ \A j \in 1 .. Len(o) : u[j + 1] = u[j] + Len(Unit(o[j])) /\ Stand(s, u[j], Unit(o[j]))

LEMMA NothingSpelled ==
  /\ Spelled(<<>>, <<>>)
  /\ \A o \in Seq(Meant) : Spelled(<<>>, o) => o = <<>>
<1>1. Spelled(<<>>, <<>>)
  <2> DEFINE u == [j \in 1 .. 1 |-> 1]
  <2>1. u \in [1 .. 0 + 1 -> 1 .. 0 + 1] /\ u[1] = 1 /\ u[0 + 1] = 0 + 1 /\ Rising(u)
    BY DEF Rising
  <2>2. Len(<<>>) = 0
    OBVIOUS
  <2>3. \A j \in 1 .. 0 : FALSE
    OBVIOUS
  <2> HIDE DEF u
  <2> QED
    BY <2>1, <2>2, <2>3 DEF Spelled
<1>2. ASSUME NEW o \in Seq(Meant), Spelled(<<>>, o), o # <<>> PROVE FALSE
  <2>0. Len(<<>>) = 0
    OBVIOUS
  <2>1. Len(o) \in Nat /\ Len(o) >= 1 /\ o[1] \in Meant
    BY <1>2
  <2>2. PICK u \in [1 .. Len(o) + 1 -> 1 .. 0 + 1] : u[1 + 1] = u[1] + Len(Unit(o[1]))
    BY <1>2, <2>0, <2>1 DEF Spelled
  <2>3. Len(Unit(o[1])) \in 1 .. 4
    BY <2>1, UnitFacts
  <2>4. u[1] = 1 /\ u[1 + 1] = 1
    BY <2>1, <2>2
  <2> QED
    BY <2>2, <2>3, <2>4
<1> QED
  BY <1>1, <1>2

LEMMA FourAtMost ==
  ASSUME NEW n \in 1 .. 4
  PROVE  n >= 1 /\ n \in Nat
OBVIOUS

\* A unit is put at the end.
LEMMA SpelledTyped ==
  ASSUME NEW s \in Seq(Byte), NEW o \in Seq(Meant), NEW m \in Meant, Spelled(s, o)
  PROVE  Spelled(s \o Unit(m), o \o <<m>>)
<1> DEFINE v == Unit(m)
           t == s \o v
           q == o \o <<m>>
           n == Len(o)
           l == Len(s)
<1>1. v \in Seq(Byte) /\ Len(v) \in 1 .. 4
  BY UnitFacts
<1>2. PICK u \in [1 .. n + 1 -> 1 .. l + 1] :
        /\ u[1] = 1 /\ u[n + 1] = l + 1 /\ Rising(u)
        /\ \A j \in 1 .. n : u[j + 1] = u[j] + Len(Unit(o[j])) /\ Stand(s, u[j], Unit(o[j]))
  BY DEF Spelled
<1>3. n \in Nat /\ l \in Nat
  OBVIOUS
<1>4. Len(q) = n + 1 /\ q[n + 1] = m /\ \A j \in 1 .. n : q[j] = o[j]
  OBVIOUS
<1> HIDE DEF v
<1>a. Len(v) >= 1 /\ Len(v) \in Nat
  BY <1>1, FourAtMost, Zenon
<1>5. Len(t) = l + Len(v) /\ (\A i \in 1 .. l : t[i] = s[i]) /\ (\A i \in 1 .. Len(v) : t[l + i] = v[i])
  BY <1>1
<1> DEFINE w == [j \in 1 .. n + 2 |-> IF j <= n + 1 THEN u[j] ELSE l + Len(v) + 1]
<1> HIDE DEF n, l, t, q
<1>6. w \in [1 .. n + 2 -> 1 .. l + Len(v) + 1]
  BY <1>1, <1>2, <1>3
<1>7. w[1] = 1 /\ w[n + 2] = l + Len(v) + 1 /\ w[n + 1] = l + 1
      /\ \A j \in 1 .. n : w[j] = u[j] /\ w[j + 1] = u[j + 1]
  BY <1>2, <1>3
<1> HIDE DEF w
<1>8. ASSUME NEW j \in 1 .. n + 1
      PROVE  w[j + 1] = w[j] + Len(Unit(q[j])) /\ Stand(t, w[j], Unit(q[j]))
  <2>1. CASE j = n + 1
    <3>1. w[j] = l + 1 /\ w[j + 1] = l + Len(v) + 1 /\ Unit(q[j]) = v
      BY <1>3, <1>4, <1>7, <2>1 DEF v
    <3>2. ASSUME NEW i \in 1 .. Len(v) PROVE t[l + 1 + i - 1] = v[i]
      <4>1. l + 1 + i - 1 = l + i
        BY <1>3
      <4> QED
        BY <1>5, <4>1
    <3>3. w[j + 1] = w[j] + Len(v)
      BY <1>1, <1>3, <3>1
    <3> QED
      BY <3>1, <3>2, <3>3 DEF Stand
  <2>2. CASE j \in 1 .. n
    <3> DEFINE x == Unit(o[j])
    <3>1. q[j] = o[j] /\ w[j] = u[j] /\ w[j + 1] = u[j + 1]
          /\ u[j + 1] = u[j] + Len(x) /\ Stand(s, u[j], x)
      BY <1>2, <1>4, <1>7, <2>2
    <3>2. u[j] \in 1 .. l + 1 /\ u[j + 1] \in 1 .. l + 1
      BY <1>2, <1>3, <2>2
    <3>3. Len(x) \in Nat
      BY <2>2, UnitFacts DEF n
    <3> HIDE DEF x
    <3>4. ASSUME NEW i \in 1 .. Len(x) PROVE t[u[j] + i - 1] = x[i]
      <4>1. u[j] + i - 1 \in 1 .. l
        BY <1>3, <3>1, <3>2, <3>3
      <4>2. s[u[j] + i - 1] = x[i]
        BY <3>1 DEF Stand
      <4> QED
        BY <1>5, <4>1, <4>2
    <3> QED
      BY <3>1, <3>4 DEF Stand, x
  <2> QED
    BY <1>3, <2>1, <2>2
<1>9. Len(q) + 1 = n + 2 /\ Len(t) + 1 = l + Len(v) + 1 /\ Len(q) = n + 1
  BY <1>3, <1>4, <1>5
<1>10. Spelled(t, q)
  <2>0. Rising(w)
    <3> SUFFICES ASSUME NEW i \in 1 .. n + 2, NEW j \in 1 .. n + 2, i < j PROVE w[i] < w[j]
      BY <1>6 DEF Rising
    <3>1. i \in 1 .. n + 1 /\ w[i] = u[i] /\ u[i] \in 1 .. l + 1
      BY <1>2, <1>3 DEF w
    <3>2. CASE j = n + 2
      <4>1. w[j] = l + Len(v) + 1 /\ Len(v) >= 1 /\ Len(v) \in Nat
        <5>1. w[n + 2] = l + Len(v) + 1
          BY <1>7
        <5> QED
          BY <1>a, <3>2, <5>1, Zenon
      <4> QED
        BY <1>3, <3>1, <4>1
    <3>3. CASE j # n + 2
      <4>1. j \in 1 .. n + 1 /\ w[j] = u[j]
        BY <1>2, <1>3, <3>3 DEF w
      <4> QED
        BY <1>2, <3>1, <4>1 DEF Rising
    <3> QED
      BY <3>2, <3>3
  <2>1. w \in [1 .. Len(q) + 1 -> 1 .. Len(t) + 1] /\ w[1] = 1 /\ w[Len(q) + 1] = Len(t) + 1
    BY <1>6, <1>7, <1>9
  <2>2. \A j \in 1 .. Len(q) : w[j + 1] = w[j] + Len(Unit(q[j])) /\ Stand(t, w[j], Unit(q[j]))
    BY <1>8, <1>9
  <2> QED
    BY <2>0, <2>1, <2>2 DEF Spelled
<1> QED
  BY <1>10 DEF t, q, v

\* The first unit is taken off the front.
LEMMA SpelledHead ==
  ASSUME NEW s \in Seq(Byte), NEW o \in Seq(Meant), Spelled(s, o), s # <<>>
  PROVE  /\ o # <<>> /\ o[1] \in Meant
         /\ Len(Unit(o[1])) <= Len(s) /\ \A i \in 1 .. Len(Unit(o[1])) : s[i] = Unit(o[1])[i]
         /\ Len(Unit(o[1])) < Len(s) => s[Len(Unit(o[1])) + 1] \notin {"[", "O"}
         /\ Spelled(SubSeq(s, Len(Unit(o[1])) + 1, Len(s)), Tail(o))
<1> DEFINE n == Len(o)
           l == Len(s)
           d == Len(Unit(o[1]))
           t == SubSeq(s, d + 1, l)
           q == Tail(o)
<1>1. PICK u \in [1 .. n + 1 -> 1 .. l + 1] :
        /\ u[1] = 1 /\ u[n + 1] = l + 1 /\ Rising(u)
        /\ \A j \in 1 .. n : u[j + 1] = u[j] + Len(Unit(o[j])) /\ Stand(s, u[j], Unit(o[j]))
  BY DEF Spelled
<1>2. n \in Nat /\ l \in Nat /\ l >= 1
  OBVIOUS
<1>3. n >= 1
  <2> SUFFICES ASSUME n = 0 PROVE FALSE
    BY <1>2
  <2>1. u[0 + 1] = 1
    BY <1>1
  <2> QED
    BY <1>1, <1>2, <2>1
<1>4. o # <<>> /\ o[1] \in Meant
  BY <1>3
<1>5. d \in 1 .. 4 /\ Unit(o[1])[1] \notin {"[", "O"}
  BY <1>4, UnitFacts
<1>6. q \in Seq(Meant) /\ Len(q) = n - 1 /\ \A j \in 1 .. n - 1 : q[j] = o[j + 1]
  BY <1>3
<1>7. 1 \in 1 .. n /\ 2 \in 1 .. n + 1
  BY <1>2, <1>3
<1> HIDE DEF n, l, d, q
<1>8. u[2] = 1 + d /\ u[2] \in 1 .. l + 1 /\ Stand(s, 1, Unit(o[1]))
  <2>1. u[1 + 1] = u[1] + Len(Unit(o[1])) /\ Stand(s, u[1], Unit(o[1]))
    BY <1>1, <1>7
  <2>2. u[2] \in 1 .. l + 1
    BY <1>1, <1>7
  <2> QED
    BY <1>1, <2>1, <2>2 DEF d
<1>9. d <= l /\ \A i \in 1 .. d : s[i] = Unit(o[1])[i]
  <2>1. d <= l
    BY <1>2, <1>5, <1>8
  <2>2. \A i \in 1 .. d : s[1 + i - 1] = Unit(o[1])[i]
    BY <1>8 DEF Stand, d
  <2>3. \A i \in 1 .. d : 1 + i - 1 = i
    BY <1>5
  <2> QED
    BY <2>1, <2>2, <2>3
<1>10. d < l => s[d + 1] \notin {"[", "O"}
  <2> SUFFICES ASSUME d < l PROVE s[d + 1] \notin {"[", "O"}
    OBVIOUS
  <2>1. n # 1
    <3> SUFFICES ASSUME n = 1 PROVE FALSE
      OBVIOUS
    <3>1. u[1 + 1] = l + 1
      BY <1>1
    <3> QED
      BY <1>2, <1>5, <1>8, <3>1
  <2>2. 2 \in 1 .. n
    BY <1>2, <1>3, <2>1
  <2>3. o[2] \in Meant
    BY <2>2 DEF n
  <2>4. Stand(s, u[2], Unit(o[2]))
    BY <1>1, <2>2
  <2>5. Len(Unit(o[2])) \in 1 .. 4 /\ Unit(o[2])[1] \notin {"[", "O"}
    BY <2>3, UnitFacts
  <2>6. s[u[2] + 1 - 1] = Unit(o[2])[1]
    BY <2>4, <2>5 DEF Stand
  <2>7. u[2] + 1 - 1 = d + 1
    BY <1>5, <1>8
  <2> QED
    BY <2>5, <2>6, <2>7
<1>11. Len(t) = l - d /\ \A i \in 1 .. l - d : t[i] = s[i + d]
  <2>1. SubSeq(s, d + 1, Len(s)) \in Seq(Byte) /\ Len(SubSeq(s, d + 1, Len(s))) = Len(s) - d
        /\ \A i \in 1 .. Len(s) - d : SubSeq(s, d + 1, Len(s))[i] = s[i + d]
    BY <1>2, <1>5, <1>9 DEF l
  <2> QED
    BY <2>1 DEF l
<1> HIDE DEF t
<1> DEFINE w == [j \in 1 .. n |-> u[j + 1] - d]
<1>12. ASSUME NEW j \in 1 .. n
       PROVE  /\ j + 1 \in 1 .. n + 1 /\ u[j + 1] \in 1 + d .. l + 1
              /\ w[j] = u[j + 1] - d /\ u[j + 1] - d \in 1 .. l - d + 1
  <2>1. j + 1 \in 1 .. n + 1 /\ u[j + 1] \in 1 .. l + 1 /\ w[j] = u[j + 1] - d
    BY <1>1, <1>2
  <2>2. j = 1 \/ 2 < j + 1
    BY <1>2
  <2>3. 2 < j + 1 => u[2] < u[j + 1]
    BY <1>1, <1>7, <2>1 DEF Rising
  <2> HIDE DEF w
  <2>4. u[j + 1] \in 1 + d .. l + 1
    BY <1>2, <1>5, <1>8, <2>1, <2>2, <2>3
  <2> QED
    BY <1>2, <1>5, <2>1, <2>4
<1>13. w \in [1 .. n -> 1 .. l - d + 1]
  <2> SUFFICES ASSUME NEW j \in 1 .. n PROVE u[j + 1] - d \in 1 .. l - d + 1
    OBVIOUS
  <2> QED
    BY <1>12
<1> HIDE DEF w
<1>14. Rising(w)
  <2> SUFFICES ASSUME NEW i \in 1 .. n, NEW j \in 1 .. n, i < j PROVE w[i] < w[j]
    BY <1>13 DEF Rising
  <2>1. i + 1 < j + 1
    BY <1>2
  <2>2. u[i + 1] < u[j + 1]
    BY <1>1, <1>12, <2>1 DEF Rising
  <2> QED
    BY <1>2, <1>5, <1>12, <2>2
<1>15. w[1] = 1 /\ w[n] = l - d + 1
  <2>1. 1 \in 1 .. n /\ n \in 1 .. n /\ 1 + 1 = 2
    BY <1>2, <1>3
  <2>2. w[1] = u[2] - d /\ w[n] = u[n + 1] - d
    BY <1>12, <2>1
  <2> QED
    BY <1>1, <1>2, <1>5, <1>8, <2>2
<1>16. ASSUME NEW j \in 1 .. n - 1
       PROVE  w[j + 1] = w[j] + Len(Unit(q[j])) /\ Stand(t, w[j], Unit(q[j]))
  <2> DEFINE x == Unit(q[j])
  <2>1. j \in 1 .. n /\ j + 1 \in 1 .. n /\ q[j] = o[j + 1]
    <3> HIDE DEF x
    <3>1. q[j] = o[j + 1]
      BY <1>6
    <3>2. j \in 1 .. n /\ j + 1 \in 1 .. n
      BY <1>2
    <3> QED
      BY <3>1, <3>2
  <2>2. w[j] = u[j + 1] - d /\ w[j + 1] = u[j + 1 + 1] - d
        /\ u[j + 1] \in 1 + d .. l + 1 /\ u[j + 1 + 1] \in 1 + d .. l + 1
    BY <1>12, <2>1
  <2>3. u[j + 1 + 1] = u[j + 1] + Len(x) /\ Stand(s, u[j + 1], x)
    BY <1>1, <2>1
  <2>4. Len(x) \in Nat
    <3>1. q[j] \in Meant
      BY <1>6
    <3> QED
      BY <3>1, UnitFacts
  <2> HIDE DEF x
  <2>5. ASSUME NEW i \in 1 .. Len(x) PROVE t[w[j] + i - 1] = x[i]
    <3> DEFINE p == w[j] + i - 1
    <3>1. p \in 1 .. l - d /\ p + d = u[j + 1] + i - 1
      <4> DEFINE a == u[j + 1]
                 b == u[j + 1 + 1]
      <4>1. a \in 1 + d .. l + 1 /\ b \in 1 + d .. l + 1 /\ b = a + Len(x) /\ w[j] = a - d
        BY <2>2, <2>3
      <4> HIDE DEF a, b
      <4>2. p = a - d + i - 1
        BY <4>1
      <4> HIDE DEF p
      <4>3. p \in 1 .. l - d /\ p + d = a + i - 1
        BY <1>2, <1>5, <2>4, <4>1, <4>2
      <4> QED
        BY <4>3 DEF a
    <3>2. t[p] = s[u[j + 1] + i - 1]
      <4> HIDE DEF p
      <4> QED
        BY <1>11, <3>1
    <3> QED
      BY <2>3, <3>2 DEF Stand
  <2>6. w[j + 1] = w[j] + Len(x)
    BY <1>2, <1>5, <2>2, <2>3, <2>4
  <2> QED
    BY <2>5, <2>6 DEF Stand, x
<1>17. Len(q) + 1 = n /\ Len(t) + 1 = l - d + 1
  BY <1>2, <1>3, <1>5, <1>6, <1>9, <1>11
<1>18. Spelled(t, q)
  <2>1. w \in [1 .. Len(q) + 1 -> 1 .. Len(t) + 1] /\ w[1] = 1 /\ w[Len(q) + 1] = Len(t) + 1
    BY <1>13, <1>15, <1>17
  <2>2. \A j \in 1 .. Len(q) : w[j + 1] = w[j] + Len(Unit(q[j])) /\ Stand(t, w[j], Unit(q[j]))
    BY <1>6, <1>16
  <2> QED
    BY <1>14, <2>1, <2>2 DEF Spelled
<1> QED
  BY <1>4, <1>9, <1>10, <1>18 DEF d, l, t, q
-------------------------------------------------------------------------------
(* A read of what it can tell.                                             *)

\* The bytes of one stroke, or plain ones with keys of a byte: the key is that
\* of the first unit, whose bytes are taken off, and no Escape is kept.
LEMMA ToldApart ==
  ASSUME NEW s \in Seq(Byte), NEW m \in Meant, NEW n \in 1 .. Len(s),
         Len(Unit(m)) <= Len(s), \A i \in 1 .. Len(Unit(m)) : s[i] = Unit(m)[i],
         Len(Unit(m)) < Len(s) => s[Len(Unit(m)) + 1] \notin {"[", "O"},
         Tellable(SubSeq(s, 1, n), SubSeq(s, n + 1, Len(s)))
  PROVE  LET buf == SubSeq(s, 1, n)
         IN  /\ ReadKey(buf).key = m /\ Gone(buf) = Len(Unit(m))
             /\ \A i \in Gone(buf) + 1 .. n : buf[i] # "ESC"
<1> DEFINE buf == SubSeq(s, 1, n)
           after == SubSeq(s, n + 1, Len(s))
           v == Unit(m)
           AsMeant == /\ ReadKey(buf).key = m /\ Gone(buf) = Len(v)
                      /\ \A i \in Gone(buf) + 1 .. n : buf[i] # "ESC"
<1> SUFFICES AsMeant
  OBVIOUS
<1>1. /\ v \in Seq(Byte) /\ Len(v) \in 1 .. 4
      /\ v[1] # "ESC" => m \in Single /\ Len(v) = 1 /\ FromRest(v[1]) = m
      /\ m \in Single => v[1] # "ESC"
      /\ m = "ESCAPE" => Len(v) = 1
      /\ m \in Sequence => Len(v) >= 3 /\ v[2] \in {"[", "O"}
  BY UnitFacts
<1>2. /\ n \in Nat /\ n >= 1 /\ Len(s) \in Nat /\ n <= Len(s)
  OBVIOUS
<1>3. /\ buf \in Seq(Byte) /\ Len(buf) = n /\ buf # <<>> /\ Head(buf) = buf[1]
      /\ \A i \in 1 .. n : buf[i] = s[i]
  BY <1>2
<1>4. n < Len(s) => after # <<>> /\ Head(after) = s[n + 1]
  <2> SUFFICES ASSUME n < Len(s) PROVE after # <<>> /\ Head(after) = s[n + 1]
    OBVIOUS
  <2>1. n + 1 \in 1 .. Len(s) /\ 1 \in 1 .. Len(s) - n
    BY <1>2
  <2>2. after \in Seq(Byte) /\ Len(after) = Len(s) - n /\ \A i \in 1 .. Len(s) - n : after[i] = s[n + i]
    BY <1>2, <2>1
  <2> HIDE DEF after
  <2>3. after # <<>> /\ Head(after) = after[1]
    BY <2>1, <2>2
  <2> QED
    BY <2>1, <2>2, <2>3
<1>5. \/ (\E k \in Stroke : buf = Bytes[k]) /\ (after # <<>> => Head(after) \notin {"[", "O"})
      \/ Head(buf) \notin {"ESC", "CR", "DEL"} /\ ~Contains(buf, "ESC")
  BY Zenon DEF Tellable
<1>6. s[1] = v[1] /\ buf[1] = v[1]
  BY <1>1, <1>2, <1>3
<1>7. n = 1 \/ n > 1
  BY <1>2, OneOrMore
<1>8. Len(v) <= Len(s) /\ (\A i \in 1 .. Len(v) : s[i] = v[i])
      /\ (Len(v) < Len(s) => s[Len(v) + 1] \notin {"[", "O"})
  OBVIOUS
<1> HIDE DEF buf, after, v
<1>9. CASE buf[1] # "ESC"
  <2>1. m \in Single /\ Len(v) = 1 /\ FromRest(buf[1]) = m
    BY <1>1, <1>6, <1>9
  <2>2. CASE n = 1
    <3>1. ReadKey(buf).key = Alone(buf[1]) /\ Gone(buf) = 1
      BY <1>3, <2>2 DEF ReadKey, Gone
    <3>2. Alone(buf[1]) = FromRest(buf[1])
      BY <1>9 DEF Alone
    <3>3. \A i \in Gone(buf) + 1 .. n : FALSE
      BY <2>2, <3>1
    <3> QED
      BY <2>1, <3>1, <3>2, <3>3
  <2>3. CASE n > 1
    <3>1. ReadKey(buf).key = buf[1] /\ Gone(buf) = 1
      BY <1>3, <1>9, <2>3 DEF ReadKey, Gone
    <3>2. buf[1] \notin {"CR", "DEL"} /\ \A i \in 1 .. n : buf[i] # "ESC"
      <4>1. CASE \E k \in Stroke : buf = Bytes[k]
        <5>1. PICK k \in Stroke : buf = Bytes[k]
          BY <4>1
        <5>2. ASSUME NEW e \in Meant, buf = Unit(e) PROVE FALSE
          <6>1. Len(buf) = 1
            BY <1>9, <5>2, UnitFacts
          <6> QED
            BY <1>3, <2>3, <6>1
        <5>3. buf = <<"lead", "cont">>
          BY <5>1, <5>2, StrokeUnits
        <5>4. Len(buf) = 2 /\ buf[1] = "lead" /\ buf[2] = "cont"
          BY <5>3
        <5> QED
          BY <1>3, <5>4
      <4>2. CASE Head(buf) \notin {"ESC", "CR", "DEL"} /\ ~Contains(buf, "ESC")
        BY <1>3, <4>2 DEF Contains
      <4> QED
        BY <1>5, <4>1, <4>2
    <3>3. FromRest(buf[1]) = buf[1]
      BY <3>2 DEF FromRest
    <3>4. \A i \in Gone(buf) + 1 .. n : i \in 1 .. n
      BY <1>2, <3>1
    <3> QED
      BY <2>1, <3>1, <3>2, <3>3, <3>4
  <2> QED
    BY <1>7, <2>2, <2>3
<1>10. CASE buf[1] = "ESC"
  <2>1. (\E k \in Stroke : buf = Bytes[k]) /\ (after # <<>> => Head(after) \notin {"[", "O"})
    BY <1>3, <1>5, <1>10
  <2>2. PICK k \in Stroke : buf = Bytes[k]
    BY <2>1
  <2>3. buf # <<"lead", "cont">>
    <3> SUFFICES ASSUME buf = <<"lead", "cont">> PROVE FALSE
      OBVIOUS
    <3>1. buf[1] = "lead"
      OBVIOUS
    <3> QED
      BY <1>10, <3>1
  <2>4. PICK e \in Meant : buf = Unit(e)
    BY <2>2, <2>3, StrokeUnits
  <2>5. /\ e \in Single => buf[1] # "ESC"
        /\ e = "ESCAPE" => n = 1
        /\ e \in Sequence => n >= 3 /\ buf[2] \in {"[", "O"} /\ buf[3] = Unit(e)[3]
    BY <1>3, <2>4, UnitFacts
  <2>6. m = "ESCAPE" \/ m \in Sequence
    BY <1>1, <1>6, <1>10 DEF Meant
  <2>7. e = "ESCAPE" \/ e \in Sequence
    BY <1>10, <2>5 DEF Meant
  <2>8. m = e
    <3>1. CASE e = "ESCAPE" /\ m \in Sequence
      <4>1. n = 1 /\ Len(v) >= 3 /\ v[2] \in {"[", "O"} /\ Len(v) \in Nat
        BY <1>1, <2>5, <3>1
      <4>2. 1 < Len(s) /\ s[2] = v[2]
        BY <1>2, <1>8, <4>1
      <4>3. after # <<>> /\ Head(after) = s[2]
        BY <1>4, <4>1, <4>2
      <4> QED
        BY <2>1, <4>1, <4>2, <4>3
    <3>2. CASE e \in Sequence /\ m = "ESCAPE"
      <4>1. n >= 3 /\ buf[2] \in {"[", "O"} /\ Len(v) = 1
        BY <1>1, <2>5, <3>2
      <4>2. s[2] = buf[2] /\ 1 < Len(s)
        BY <1>2, <1>3, <4>1
      <4>3. s[Len(v) + 1] = s[2]
        BY <4>1
      <4> QED
        BY <1>8, <4>1, <4>2, <4>3
    <3>3. CASE e \in Sequence /\ m \in Sequence
      <4>1. n >= 3 /\ buf[3] = Unit(e)[3] /\ Len(v) >= 3 /\ Len(v) \in Nat
        BY <1>1, <2>5, <3>3
      <4>2. s[3] = buf[3] /\ s[3] = v[3]
        BY <1>2, <1>3, <1>8, <4>1
      <4>3. Unit(m)[3] = Unit(e)[3]
        BY <4>1, <4>2 DEF v
      <4> QED
        BY <3>3, <4>3, SignApart
    <3> QED
      BY <2>6, <2>7, <3>1, <3>2, <3>3
  <2>9. buf = v
    BY <2>4, <2>8 DEF v
  <2>10. ReadKey(buf).key = m /\ Gone(buf) = Len(v)
    BY <2>9, UnitRead DEF v
  <2>11. \A i \in Gone(buf) + 1 .. n : FALSE
    BY <1>2, <1>3, <2>9, <2>10
  <2> QED
    BY <2>10, <2>11
<1> QED
  BY <1>9, <1>10
-------------------------------------------------------------------------------
(* Keys.                                                                   *)

\* What has arrived and is not read: each sign in it is owed a key; and while
\* every read took what it can tell it spells the keys that are owed, and no
\* Escape is among the bytes kept, which are taken one by one.
KeyInv ==
  /\ rest \in Seq(Byte) /\ line \in Seq(Byte) /\ owed \in Seq(Meant)
  /\ honest
  /\ \A k \in Told : Owing(rest \o line, owed, k)
  /\ whole => Spelled(rest \o line, owed) /\ \A i \in 1 .. Len(rest) : rest[i] # "ESC"

LEMMA KeyInvInit == Init => KeyInv
<1> SUFFICES ASSUME Init PROVE KeyInv
  OBVIOUS
<1>1. rest = <<>> /\ line = <<>> /\ owed = <<>> /\ honest
  BY DEF Init
<1>2. <<>> \in Seq(Byte) /\ <<>> \in Seq(Meant) /\ <<>> \o <<>> = <<>> /\ Len(<<>>) = 0
  OBVIOUS
<1>3. ASSUME NEW k PROVE Owing(<<>>, <<>>, k)
  <2> DEFINE g == [i \in {} |-> 0]
  <2>1. Places(<<>>, Sign(k)) = {} /\ Places(<<>>, k) = {}
    BY <1>2 DEF Places
  <2>2. g \in [{} -> {}] /\ Rising(g)
    BY DEF Rising
  <2> HIDE DEF g
  <2> QED
    BY <2>1, <2>2 DEF Owing
<1>4. \A i \in 1 .. 0 : FALSE
  OBVIOUS
<1> QED
  BY <1>1, <1>2, <1>3, <1>4, NothingSpelled DEF KeyInv

LEMMA TypeKeeps ==
  ASSUME KeyInv, Type
  PROVE  KeyInv'
<1> DEFINE s == rest \o line
<1>1. PICK k \in Stroke : line' = line \o Bytes[k] /\ owed' = owed \o Keys[k]
  BY DEF Type
<1>2. UNCHANGED <<rest, honest, whole>>
  BY DEF Type
<1>3. s \in Seq(Byte) /\ rest \in Seq(Byte) /\ line \in Seq(Byte) /\ owed \in Seq(Meant)
  BY DEF KeyInv
<1>4. ASSUME NEW e \in Meant, Keys[k] = <<e>>, Bytes[k] = Unit(e) PROVE KeyInv'
  <2>1. Unit(e) \in Seq(Byte)
    BY UnitFacts
  <2>2. line' \in Seq(Byte) /\ owed' \in Seq(Meant) /\ (rest \o line)' = s \o Unit(e)
    BY <1>1, <1>2, <1>3, <1>4, <2>1
  <2>3. \A c \in Told : Owing(s \o Unit(e), owed \o <<e>>, c)
    BY <1>3, OwingTyped DEF KeyInv
  <2>4. whole => Spelled(s \o Unit(e), owed \o <<e>>)
    BY <1>3, SpelledTyped DEF KeyInv
  <2>5. owed' = owed \o <<e>>
    BY <1>1, <1>4
  <2> HIDE DEF s
  <2> QED
    BY <1>2, <2>2, <2>3, <2>4, <2>5 DEF KeyInv
<1>5. ASSUME Keys[k] = <<"lead", "cont">>, Bytes[k] = <<"lead", "cont">> PROVE KeyInv'
  <2>1. "lead" \in Meant /\ "cont" \in Meant /\ Unit("lead") = <<"lead">> /\ Unit("cont") = <<"cont">>
    BY DEF Meant, Single, Unit
  <2> DEFINE t == s \o Unit("lead")
             q == owed \o <<"lead">>
  <2>2. t \in Seq(Byte) /\ q \in Seq(Meant)
    BY <1>3, <2>1, UnitFacts
  <2>3. \A c \in Told : Owing(t, q, c)
    BY <1>3, <2>1, OwingTyped DEF KeyInv
  <2>4. whole => Spelled(t, q)
    BY <1>3, <2>1, SpelledTyped DEF KeyInv
  <2>5. (rest \o line)' = t \o Unit("cont") /\ line' \in Seq(Byte)
    <3>1. "lead" \in Byte /\ "cont" \in Byte
      BY DEF Byte
    <3>2. line \o <<"lead", "cont">> \in Seq(Byte)
      BY <1>3, <3>1
    <3>3. rest \o (line \o <<"lead", "cont">>) = (s \o <<"lead">>) \o <<"cont">>
      <4> DEFINE a == <<"lead">>
                 b == <<"cont">>
      <4>1. <<"lead", "cont">> = a \o b /\ a \in Seq(Byte) /\ b \in Seq(Byte)
        BY <3>1
      <4> HIDE DEF a, b
      <4>2. rest \o (line \o (a \o b)) = ((rest \o line) \o a) \o b
        <5>1. line \o (a \o b) = (line \o a) \o b /\ line \o a \in Seq(Byte)
          BY <1>3, <4>1, ConcatAssociative, ConcatProperties
        <5>2. rest \o ((line \o a) \o b) = (rest \o (line \o a)) \o b
          <6> DEFINE c == line \o a
          <6>1. c \in Seq(Byte)
            BY <5>1
          <6> HIDE DEF c
          <6>2. (rest \o c) \o b = rest \o (c \o b)
            BY <1>3, <4>1, <6>1, ConcatAssociative
          <6> QED
            BY <6>2 DEF c
        <5>3. rest \o (line \o a) = (rest \o line) \o a
          BY <1>3, <4>1, ConcatAssociative
        <5> QED
          BY <5>1, <5>2, <5>3
      <4> QED
        BY <4>1, <4>2 DEF a, b, s
    <3> QED
      BY <1>1, <1>2, <1>5, <2>1, <3>2, <3>3
  <2>6. owed' = q \o <<"cont">> /\ owed' \in Seq(Meant)
    BY <1>1, <1>3, <1>5, <2>1
  <2> HIDE DEF t, q, s
  <2>7. \A c \in Told : Owing(t \o Unit("cont"), q \o <<"cont">>, c)
    BY <2>1, <2>2, <2>3, OwingTyped
  <2>8. whole => Spelled(t \o Unit("cont"), q \o <<"cont">>)
    BY <2>1, <2>2, <2>4, SpelledTyped
  <2> QED
    BY <1>2, <2>5, <2>6, <2>7, <2>8 DEF KeyInv
<1> QED
  BY <1>4, <1>5, StrokeUnits

\* A key is acted on, and the bytes it came from are gone.
LEMMA TakeKeeps ==
  ASSUME KeyInv, NEW key, Take(key),
         rest' \in Seq(Byte), line' \in Seq(Byte),
         NEW d \in Nat, Off(rest \o line, (rest \o line)', d),
         key \in Certain =>
           key \in Told /\ \E p \in 1 .. d : p <= Len(rest \o line) /\ (rest \o line)[p] = Sign(key),
         whole' => /\ whole /\ rest \o line # <<>> /\ owed # <<>> /\ owed[1] = key
                   /\ (rest \o line)' = SubSeq(rest \o line, Len(Unit(key)) + 1, Len(rest \o line))
                   /\ \A i \in 1 .. Len(rest') : rest'[i] # "ESC"
  PROVE  KeyInv'
<1> DEFINE s == rest \o line
           t == (rest \o line)'
<1>1. s \in Seq(Byte) /\ t \in Seq(Byte) /\ owed \in Seq(Meant)
  BY DEF KeyInv
<1>2. owed' = RemoveFirst(owed, key)
      /\ honest' = (/\ honest
                    /\ whole' => owed # <<>> /\ Head(owed) = key
                    /\ key \in Certain => Contains(owed, key))
  BY DEF Take
<1>3. \A k \in Told : Owing(s, owed, k)
  BY DEF KeyInv
<1>4. Off(s, t, d) /\ rest' \in Seq(Byte) /\ line' \in Seq(Byte)
  OBVIOUS
<1>5. key \in Certain => key \in Told /\ \E p \in 1 .. d : p <= Len(s) /\ s[p] = Sign(key)
  OBVIOUS
<1>6. whole' => /\ whole /\ s # <<>> /\ owed # <<>> /\ owed[1] = key
                /\ t = SubSeq(s, Len(Unit(key)) + 1, Len(s))
                /\ \A i \in 1 .. Len(rest') : rest'[i] # "ESC"
  OBVIOUS
<1>7. whole => Spelled(s, owed)
  BY DEF KeyInv
<1>8. honest
  BY DEF KeyInv
<1> HIDE DEF s, t
<1>9. owed' \in Seq(Meant)
  <2>1. CASE Contains(owed, key)
    BY <1>1, <1>2, <2>1, FirstRemoved
  <2>2. CASE ~Contains(owed, key)
    BY <1>1, <1>2, <2>2 DEF RemoveFirst, Contains
  <2> QED
    BY <2>1, <2>2
<1>10. key \in Certain => Contains(owed, key) /\ Owing(t, owed', key)
  <2> SUFFICES ASSUME key \in Certain PROVE Contains(owed, key) /\ Owing(t, owed', key)
    OBVIOUS
  <2>1. PICK p \in 1 .. d : p <= Len(s) /\ s[p] = Sign(key)
    BY <1>5
  <2>2. Owing(s, owed, key)
    BY <1>3, <1>5
  <2> QED
    BY <1>1, <1>2, <1>4, <2>1, <2>2, OwingTaken
<1>11. ASSUME NEW k \in Told PROVE Owing(t, owed', k)
  <2>1. CASE k = key
    <3>1. k \in Certain
      BY DEF Told, Certain, Control
    <3> QED
      BY <1>10, <2>1, <3>1
  <2>2. CASE k # key
    <3>1. Owing(t, owed, k)
      BY <1>1, <1>3, <1>4, OwingOff
    <3> QED
      BY <1>1, <1>2, <2>2, <3>1, OwingOther
  <2> QED
    BY <2>1, <2>2
<1>12. ASSUME whole' PROVE Spelled(t, owed') /\ Head(owed) = key
  <2>1. owed # <<>> /\ owed[1] = key /\ s # <<>> /\ Spelled(s, owed)
        /\ t = SubSeq(s, Len(Unit(owed[1])) + 1, Len(s))
    BY <1>6, <1>7, <1>12
  <2>2. Spelled(t, Tail(owed))
    BY <1>1, <2>1, SpelledHead
  <2>3. Head(owed) = key
    BY <1>1, <2>1
  <2>4. owed' = Tail(owed)
    <3>1. Len(owed) \in Nat /\ Len(owed) >= 1 /\ 1 \in Places(owed, key)
      <4>1. Len(owed) \in Nat /\ Len(owed) >= 1
        BY <1>1, <2>1
      <4> QED
        BY <2>1, <4>1 DEF Places
    <3>2. Contains(owed, key)
      BY <2>1, <3>1 DEF Contains
    <3>3. PICK f \in Places(owed, key) :
            /\ \A i \in Places(owed, key) : f <= i
            /\ Len(RemoveFirst(owed, key)) = Len(owed) - 1
            /\ \A i \in 1 .. Len(owed) - 1 : RemoveFirst(owed, key)[i] = owed[IF i < f THEN i ELSE i + 1]
      BY <1>1, <3>2, FirstRemoved
    <3>4. f = 1
      BY <3>1, <3>3 DEF Places
    <3>5. owed' \in Seq(Meant) /\ Len(owed') = Len(owed) - 1
          /\ \A i \in 1 .. Len(owed) - 1 : owed'[i] = owed[i + 1]
      BY <1>2, <1>9, <3>3, <3>4
    <3>6. Tail(owed) \in Seq(Meant) /\ Len(Tail(owed)) = Len(owed) - 1
          /\ \A i \in 1 .. Len(owed) - 1 : Tail(owed)[i] = owed[i + 1]
      BY <1>1, <2>1
    <3>7. Len(owed') = Len(Tail(owed)) /\ \A i \in 1 .. Len(owed') : owed'[i] = Tail(owed)[i]
      BY <3>5, <3>6
    <3> QED
      BY <3>5, <3>6, <3>7, SeqEqual
  <2> QED
    BY <2>2, <2>3, <2>4
<1>13. honest'
  <2>1. whole' => owed # <<>> /\ Head(owed) = key
    BY <1>6, <1>12
  <2> QED
    BY <1>2, <1>8, <1>10, <2>1
<1>14. whole' => \A i \in 1 .. Len(rest') : rest'[i] # "ESC"
  BY <1>6
<1> QED
  BY <1>4, <1>9, <1>11, <1>12, <1>13, <1>14 DEF KeyInv, t
LEMMA OneOff ==
  ASSUME NEW s \in Seq(Byte), s # <<>>
  PROVE  /\ SubSeq(s, 2, Len(s)) \in Seq(Byte) /\ Len(SubSeq(s, 2, Len(s))) = Len(s) - 1
         /\ \A i \in 1 .. Len(s) - 1 : SubSeq(s, 2, Len(s))[i] = s[i + 1]
         /\ Len(s) \in Nat /\ Len(s) >= 1
<1>1. Len(s) \in Nat /\ Len(s) >= 1
  OBVIOUS
<1> DEFINE l == Len(s)
<1>2. SubSeq(s, 2, l) \in Seq(Byte)
  BY <1>1
<1>3. Len(SubSeq(s, 2, l)) = l - 1
  <2>1. \A i \in 2 .. l : s[i] \in Byte
    BY <1>1
  <2>2. 2 \in Int /\ l \in Int
    BY <1>1
  <2>3. l >= 1
    BY <1>1
  <2> HIDE DEF l
  <2> DEFINE x == Len(SubSeq(s, 2, l))
  <2>4. x = IF 2 <= l THEN l - 2 + 1 ELSE 0
    BY <2>1, <2>2, SubSeqProperties
  <2> HIDE DEF x
  <2>5. x = l - 1
    BY <2>2, <2>3, <2>4
  <2> QED
    BY <2>5 DEF x
<1>4. ASSUME NEW i \in 1 .. l - 1 PROVE SubSeq(s, 2, l)[i] = s[i + 1]
  BY <1>1
<1> QED
  BY <1>1, <1>2, <1>3, <1>4

\* A byte that was kept, and is not Escape while every read took what it can tell.
LEMMA ReadRestKeeps ==
  ASSUME KeyInv, ReadRest
  PROVE  KeyInv'
<1> DEFINE b == rest[1]
           key == FromRest(b)
           s == rest \o line
           t == (rest \o line)'
<1>1. rest \in Seq(Byte) /\ line \in Seq(Byte) /\ owed \in Seq(Meant) /\ rest # <<>>
  BY DEF KeyInv, ReadRest
<1>2. Head(rest) = b /\ b \in Byte /\ Len(rest) \in Nat /\ Len(rest) >= 1
  BY <1>1
<1>3. rest' = Tail(rest) /\ line' = line /\ whole' = whole /\ Take(key)
  BY <1>2 DEF ReadRest, Act
<1>4. /\ s \in Seq(Byte) /\ Len(s) = Len(rest) + Len(line) /\ s[1] = b /\ s # <<>>
      /\ \A i \in 1 .. Len(rest) : s[i] = rest[i]
  BY <1>1, <1>2
<1>5. rest' \in Seq(Byte) /\ Len(rest') = Len(rest) - 1
      /\ \A i \in 1 .. Len(rest) - 1 : rest'[i] = rest[i + 1]
  BY <1>1, <1>3
<1>6. t = SubSeq(s, 2, Len(s))
  <2>1. t \in Seq(Byte) /\ Len(t) = Len(s) - 1
    BY <1>1, <1>2, <1>3, <1>4, <1>5
  <2>2. SubSeq(s, 2, Len(s)) \in Seq(Byte) /\ Len(SubSeq(s, 2, Len(s))) = Len(s) - 1
        /\ \A i \in 1 .. Len(s) - 1 : SubSeq(s, 2, Len(s))[i] = s[i + 1]
    BY <1>1, <1>2, <1>4, OneOff
  <2>3. ASSUME NEW i \in 1 .. Len(s) - 1 PROVE t[i] = s[i + 1]
    <3>1. t[i] = IF i <= Len(rest) - 1 THEN rest'[i] ELSE line[i - (Len(rest) - 1)]
      BY <1>1, <1>2, <1>3, <1>4, <1>5, ConcatProperties
    <3>2. s[i + 1] = IF i + 1 <= Len(rest) THEN rest[i + 1] ELSE line[i + 1 - Len(rest)]
      BY <1>1, <1>2, <1>4, ConcatProperties
    <3>3. i + 1 - Len(rest) = i - (Len(rest) - 1) /\ (i <= Len(rest) - 1 <=> i + 1 <= Len(rest))
      BY <1>2
    <3>4. i <= Len(rest) - 1 => rest'[i] = rest[i + 1]
      BY <1>2, <1>5
    <3> QED
      BY <3>1, <3>2, <3>3, <3>4
  <2> HIDE DEF s, t
  <2> QED
    BY <2>1, <2>2, <2>3, SeqEqual
<1> HIDE DEF s, t
<1>7. Off(s, t, 1)
  BY <1>4, <1>6, OneOff DEF Off
<1>8. key \in Certain =>
        key \in Told /\ \E p \in 1 .. 1 : p <= Len(s) /\ s[p] = Sign(key)
  <2> SUFFICES ASSUME key \in Certain
               PROVE  key \in Told /\ \E p \in 1 .. 1 : p <= Len(s) /\ s[p] = Sign(key)
    OBVIOUS
  <2>1. key \in Told /\ b = Sign(key)
    BY <1>2, ByteTells
  <2>2. 1 <= Len(s) /\ s[1] = Sign(key)
    BY <1>1, <1>2, <1>4, <2>1
  <2> QED
    BY <2>1, <2>2
<1>9. whole' => /\ whole /\ s # <<>> /\ owed # <<>> /\ owed[1] = key
                /\ t = SubSeq(s, Len(Unit(key)) + 1, Len(s))
                /\ \A i \in 1 .. Len(rest') : rest'[i] # "ESC"
  <2> SUFFICES ASSUME whole
               PROVE  /\ owed # <<>> /\ owed[1] = key
                      /\ t = SubSeq(s, Len(Unit(key)) + 1, Len(s))
                      /\ \A i \in 1 .. Len(rest') : rest'[i] # "ESC"
    BY <1>3, <1>4
  <2>1. Spelled(s, owed) /\ \A i \in 1 .. Len(rest) : rest[i] # "ESC"
    BY DEF KeyInv, s
  <2>2. owed # <<>> /\ owed[1] \in Meant /\ s[1] = Unit(owed[1])[1]
    <3>1. owed # <<>> /\ owed[1] \in Meant
          /\ \A i \in 1 .. Len(Unit(owed[1])) : s[i] = Unit(owed[1])[i]
      BY <1>1, <1>4, <2>1, SpelledHead
    <3>2. 1 \in 1 .. Len(Unit(owed[1]))
      BY <3>1, UnitFacts
    <3> QED
      BY <3>1, <3>2
  <2>3. b # "ESC"
    BY <1>2, <2>1
  <2>4. Len(Unit(owed[1])) = 1 /\ key = owed[1]
    BY <1>4, <2>2, <2>3, UnitFacts
  <2>5. ASSUME NEW i \in 1 .. Len(rest') PROVE rest'[i] # "ESC"
    BY <1>2, <1>5, <2>1
  <2> QED
    <3> HIDE DEF key
    <3>0. Len(Unit(key)) = 1
      BY <2>4, Zenon
    <3>1. Len(Unit(key)) + 1 = 2
      BY <3>0
    <3> QED
      BY <1>6, <2>2, <2>4, <2>5, <3>1
<1> QED
  BY <1>1, <1>3, <1>5, <1>7, <1>8, <1>9, TakeKeeps DEF s, t

\* What has arrived is a part of what was typed.
LEMMA ReadKeeps ==
  ASSUME KeyInv, Read
  PROVE  KeyInv'
<1>1. rest = <<>> /\ line \in Seq(Byte) /\ owed \in Seq(Meant)
  BY DEF KeyInv, Read
<1>2. PICK n \in 1 .. Len(line) :
        /\ line' = SubSeq(line, n + 1, Len(line))
        /\ whole' = (whole /\ Tellable(SubSeq(line, 1, n), SubSeq(line, n + 1, Len(line))))
        /\ rest' = ReadKey(SubSeq(line, 1, n)).rest
        /\ Take(ReadKey(SubSeq(line, 1, n)).key)
  BY Zenon DEF Read, Act
<1> DEFINE buf == SubSeq(line, 1, n)
           key == ReadKey(buf).key
           d == Gone(buf)
           t == (rest \o line)'
<1>3. /\ n \in Nat /\ n >= 1 /\ Len(line) \in Nat /\ n <= Len(line)
      /\ buf \in Seq(Byte) /\ Len(buf) = n /\ buf # <<>> /\ \A i \in 1 .. n : buf[i] = line[i]
  BY <1>1
<1>4. rest \o line = line /\ line # <<>>
  BY <1>1, <1>3
<1>5. /\ d \in 1 .. n /\ rest' = SubSeq(buf, d + 1, n)
      /\ key \in Certain =>
           key \in Told /\ \E i \in 1 .. d : buf[i] = Sign(key)
  <2> HIDE DEF buf
  <2> QED
    BY <1>2, <1>3, ReadTells DEF buf
<1> HIDE DEF buf, d
<1>6. rest' \in Seq(Byte) /\ Len(rest') = n - d /\ \A i \in 1 .. n - d : rest'[i] = buf[i + d]
  BY <1>3, <1>5
<1>7. line' \in Seq(Byte) /\ Len(line') = Len(line) - n /\ \A i \in 1 .. Len(line) - n : line'[i] = line[i + n]
  BY <1>1, <1>2, <1>3
<1>8. /\ t \in Seq(Byte) /\ Len(t) = Len(line) - d
      /\ \A i \in 1 .. Len(line) - d : t[i] = line[i + d]
  <2>1. t \in Seq(Byte) /\ Len(t) = (n - d) + (Len(line) - n)
        /\ \A i \in 1 .. (n - d) + (Len(line) - n) :
             t[i] = IF i <= n - d THEN rest'[i] ELSE line'[i - (n - d)]
    BY <1>6, <1>7, ConcatProperties
  <2> HIDE DEF t
  <2>2. (n - d) + (Len(line) - n) = Len(line) - d /\ d \in Nat
    BY <1>3, <1>5
  <2>3. ASSUME NEW i \in 1 .. Len(line) - d PROVE t[i] = line[i + d]
    <3>1. CASE i <= n - d
      <4>1. i \in 1 .. n - d /\ i + d \in 1 .. n
        BY <1>3, <2>2, <3>1
      <4> QED
        BY <1>3, <1>6, <2>1, <2>2, <3>1, <4>1
    <3>2. CASE ~(i <= n - d)
      <4>1. i - (n - d) \in 1 .. Len(line) - n /\ i - (n - d) + n = i + d
        BY <1>3, <2>2, <3>2
      <4> QED
        BY <1>7, <2>1, <2>2, <3>2, <4>1
    <3> QED
      BY <3>1, <3>2
  <2> QED
    BY <2>1, <2>2, <2>3
<1> HIDE DEF t
<1>9. t = SubSeq(line, d + 1, Len(line))
  <2>1. /\ SubSeq(line, d + 1, Len(line)) \in Seq(Byte) /\ Len(SubSeq(line, d + 1, Len(line))) = Len(line) - d
        /\ \A i \in 1 .. Len(line) - d : SubSeq(line, d + 1, Len(line))[i] = line[i + d]
    BY <1>1, <1>3, <1>5
  <2> QED
    BY <1>8, <2>1, SeqEqual
<1>10. Off(line, t, d) /\ d \in Nat
  BY <1>3, <1>5, <1>8 DEF Off
<1>11. key \in Certain =>
         key \in Told /\ \E p \in 1 .. d : p <= Len(line) /\ line[p] = Sign(key)
  <2> SUFFICES ASSUME key \in Certain
               PROVE  key \in Told /\ \E p \in 1 .. d : p <= Len(line) /\ line[p] = Sign(key)
    OBVIOUS
  <2>1. PICK p \in 1 .. d : buf[p] = Sign(key)
    BY <1>5
  <2>2. p \in 1 .. n /\ p <= Len(line)
    BY <1>3, <1>5
  <2>3. line[p] = Sign(key)
    BY <1>3, <2>1, <2>2
  <2> QED
    BY <1>5, <2>2, <2>3
<1>12. whole' => /\ whole /\ line # <<>> /\ owed # <<>> /\ owed[1] = key
                 /\ t = SubSeq(line, Len(Unit(key)) + 1, Len(line))
                 /\ \A i \in 1 .. Len(rest') : rest'[i] # "ESC"
  <2> SUFFICES ASSUME whole, Tellable(SubSeq(line, 1, n), SubSeq(line, n + 1, Len(line)))
               PROVE  /\ owed # <<>> /\ owed[1] = key
                      /\ t = SubSeq(line, Len(Unit(key)) + 1, Len(line))
                      /\ \A i \in 1 .. Len(rest') : rest'[i] # "ESC"
    BY <1>2, <1>4, Zenon
  <2>1. Spelled(line, owed)
    BY <1>4 DEF KeyInv
  <2> DEFINE m == owed[1]
  <2>2. /\ owed # <<>> /\ m \in Meant
        /\ Len(Unit(m)) <= Len(line) /\ \A i \in 1 .. Len(Unit(m)) : line[i] = Unit(m)[i]
        /\ Len(Unit(m)) < Len(line) => line[Len(Unit(m)) + 1] \notin {"[", "O"}
    BY <1>1, <1>4, <2>1, SpelledHead
  <2> HIDE DEF m
  <2>3. key = m /\ d = Len(Unit(m)) /\ \A i \in d + 1 .. n : buf[i] # "ESC"
    BY <1>1, <2>2, ToldApart DEF buf, d
  <2>4. ASSUME NEW i \in 1 .. Len(rest') PROVE rest'[i] # "ESC"
    <3>1. i \in 1 .. n - d /\ i + d \in d + 1 .. n
      BY <1>3, <1>5, <1>6
    <3> QED
      BY <1>6, <2>3, <3>1
  <2> QED
    BY <1>9, <2>2, <2>3, <2>4 DEF m
<1> QED
  BY <1>2, <1>4, <1>6, <1>7, <1>10, <1>11, <1>12, TakeKeeps DEF buf, t
\* The bytes of an Enter, after which what was typed is thrown away.
LEMMA PickFolderKeeps ==
  ASSUME KeyInv, PickFolder
  PROVE  KeyInv'
<1> DEFINE s == rest \o line
           t == (rest \o line)'
<1>1. s \in Seq(Byte) /\ rest \in Seq(Byte) /\ line \in Seq(Byte) /\ owed \in Seq(Meant)
  BY DEF KeyInv
<1>2. /\ s # <<>> /\ Alone(Head(s)) = "ENTER" /\ line' = <<>>
      /\ rest' = IF rest = <<>> THEN <<>> ELSE Tail(rest)
      /\ whole' = (whole /\ Len(line) = IF rest = <<>> THEN 1 ELSE 0)
      /\ Take("ENTER")
  BY DEF PickFolder
<1>3. Len(s) \in Nat /\ Len(s) >= 1 /\ s[1] \in Byte /\ Head(s) = s[1]
  <2> HIDE DEF s
  <2> QED
    BY <1>1, <1>2
<1>4. s[1] = "CR"
  BY <1>2, <1>3 DEF Alone, FromRest, Byte
<1>5. rest' \in Seq(Byte) /\ line' \in Seq(Byte) /\ t = rest'
  <2>1. rest' \in Seq(Byte)
    BY <1>1, <1>2
  <2>2. rest' \o <<>> = rest'
    BY <2>1, ConcatEmptySeq
  <2> QED
    BY <1>2, <2>1, <2>2
<1>6. ASSUME rest = <<>>
      PROVE  rest' = <<>> /\ s = line
  BY <1>1, <1>2, <1>6, ConcatEmptySeq
<1>7. ASSUME rest # <<>>
      PROVE  /\ Len(rest) \in Nat /\ Len(rest) >= 1
             /\ Len(rest') = Len(rest) - 1 /\ \A i \in 1 .. Len(rest) - 1 : rest'[i] = rest[i + 1]
             /\ Len(line) \in Nat /\ Len(s) = Len(rest) + Len(line)
             /\ \A i \in 1 .. Len(rest) : s[i] = rest[i]
  <2>1. Len(rest) \in Nat /\ Len(rest) >= 1 /\ Len(line) \in Nat
    BY <1>1, <1>7
  <2>2. Len(rest') = Len(rest) - 1 /\ \A i \in 1 .. Len(rest) - 1 : rest'[i] = rest[i + 1]
    BY <1>1, <1>2, <1>7
  <2>3. Len(s) = Len(rest) + Len(line) /\ \A i \in 1 .. Len(rest) : s[i] = rest[i]
    BY <1>1, <2>1
  <2> QED
    BY <2>1, <2>2, <2>3
<1>a. Len(<<>>) = 0
  OBVIOUS
<1> HIDE DEF s, t
<1>8. Off(s, t, 1)
  <2>1. CASE rest = <<>>
    <3>1. t = <<>> /\ \A i \in 1 .. 0 : FALSE
      BY <1>5, <1>6, <2>1
    <3> QED
      BY <1>3, <1>a, <3>1 DEF Off
  <2>2. CASE rest # <<>>
    <3>1. Len(t) + 1 <= Len(s)
      BY <1>5, <1>7, <2>2
    <3>2. ASSUME NEW i \in 1 .. Len(t) PROVE t[i] = s[i + 1]
      <4>1. i \in 1 .. Len(rest) - 1 /\ i + 1 \in 1 .. Len(rest)
        BY <1>5, <1>7, <2>2
      <4> QED
        BY <1>5, <1>7, <2>2, <4>1
    <3> QED
      BY <3>1, <3>2 DEF Off
  <2> QED
    BY <2>1, <2>2
<1>9. "ENTER" \in Told /\ "CR" = Sign("ENTER")
  BY DEF Told, Sign
<1>10. \E p \in 1 .. 1 : p <= Len(s) /\ s[p] = Sign("ENTER")
  <2>1. 1 <= Len(s) /\ s[1] = Sign("ENTER")
    BY <1>3, <1>4, <1>9
  <2> QED
    BY <2>1
<1>11. whole' => /\ whole /\ s # <<>> /\ owed # <<>> /\ owed[1] = "ENTER"
                 /\ t = SubSeq(s, Len(Unit("ENTER")) + 1, Len(s))
                 /\ \A i \in 1 .. Len(rest') : rest'[i] # "ESC"
  <2> SUFFICES ASSUME whole, Len(line) = IF rest = <<>> THEN 1 ELSE 0
               PROVE  /\ owed # <<>> /\ owed[1] = "ENTER"
                      /\ t = SubSeq(s, Len(Unit("ENTER")) + 1, Len(s))
                      /\ \A i \in 1 .. Len(rest') : rest'[i] # "ESC"
    BY <1>2
  <2>1. Spelled(s, owed) /\ \A i \in 1 .. Len(rest) : rest[i] # "ESC"
    BY DEF KeyInv, s
  <2> DEFINE m == owed[1]
  <2>2. owed # <<>> /\ m \in Meant /\ s[1] = Unit(m)[1]
    <3>1. owed # <<>> /\ m \in Meant /\ \A i \in 1 .. Len(Unit(m)) : s[i] = Unit(m)[i]
      BY <1>1, <1>2, <2>1, SpelledHead
    <3>2. 1 \in 1 .. Len(Unit(m))
      BY <3>1, UnitFacts
    <3> QED
      BY <3>1, <3>2
  <2> HIDE DEF m
  <2>3. m = "ENTER"
    <3>1. Unit(m)[1] # "ESC" /\ FromRest("CR") = "ENTER"
      BY <1>4, <2>2 DEF FromRest
    <3> QED
      BY <1>4, <2>2, <3>1, UnitFacts
  <2>4. Unit("ENTER") = <<"CR">> /\ Len(<<"CR">>) = 1
    BY DEF Unit
  <2>5. t = SubSeq(s, 2, Len(s)) /\ \A i \in 1 .. Len(rest') : rest'[i] # "ESC"
    <3>1. CASE rest = <<>>
      <4>1. Len(s) = 1 /\ t = <<>> /\ rest' = <<>>
        BY <1>5, <1>6, <3>1
      <4>2. SubSeq(s, 2, 1) = <<>> /\ \A i \in 1 .. 0 : FALSE
        BY <1>1
      <4> QED
        BY <1>a, <4>1, <4>2
    <3>2. CASE rest # <<>>
      <4>1. Len(t) = Len(s) - 1 /\ \A i \in 1 .. Len(s) - 1 : t[i] = s[i + 1]
        BY <1>5, <1>7, <1>8, <3>2 DEF Off
      <4>2. SubSeq(s, 2, Len(s)) \in Seq(Byte) /\ Len(SubSeq(s, 2, Len(s))) = Len(s) - 1
            /\ \A i \in 1 .. Len(s) - 1 : SubSeq(s, 2, Len(s))[i] = s[i + 1]
        BY <1>1, <1>2, OneOff
      <4>3. t \in Seq(Byte)
        BY <1>5
      <4>4. t = SubSeq(s, 2, Len(s))
        BY <4>1, <4>2, <4>3, SeqEqual
      <4>5. ASSUME NEW i \in 1 .. Len(rest') PROVE rest'[i] # "ESC"
        BY <1>7, <2>1, <3>2
      <4> QED
        BY <4>4, <4>5
    <3> QED
      BY <3>1, <3>2
  <2>6. Len(Unit("ENTER")) + 1 = 2
    <3> DEFINE n == Len(Unit("ENTER"))
    <3>1. n = 1
      BY <2>4, Zenon
    <3> HIDE DEF n
    <3>2. n + 1 = 2
      BY <3>1
    <3> QED
      BY <3>2 DEF n
  <2> QED
    BY <2>2, <2>3, <2>5, <2>6 DEF m
<1> QED
  BY <1>2, <1>5, <1>8, <1>9, <1>10, <1>11, TakeKeeps DEF s, t

LEMMA KeyInvStep == KeyInv /\ [Next]_vars => KeyInv'
<1> SUFFICES ASSUME KeyInv, [Next]_vars PROVE KeyInv'
  OBVIOUS
<1>1. ASSUME UNCHANGED input PROVE KeyInv'
  <2>1. UNCHANGED <<line, rest, owed, honest, whole>>
    BY <1>1 DEF input
  <2> QED
    BY <2>1 DEF KeyInv
<1>2. CASE Type
  BY <1>2, TypeKeeps
<1>3. CASE Read
  BY <1>3, ReadKeeps
<1>4. CASE ReadRest
  BY <1>4, ReadRestKeeps
<1>5. CASE PickFolder
  BY <1>5, PickFolderKeeps
<1>6. CASE Resize \/ Timeout \/ Compose \/ Flush
  BY <1>1, <1>6 DEF Resize, Timeout, Compose, Flush
<1>7. CASE Worker
  BY <1>1, <1>7 DEF Worker, Deliver, DeliverPlaylist, Report, Served, Retire
<1>8. CASE UNCHANGED vars
  BY <1>1, <1>8 DEF vars
<1> QED
  BY <1>2, <1>3, <1>4, <1>5, <1>6, <1>7, <1>8 DEF Next, Main

\* However the bytes of what is typed are cut into reads, no key is acted on that was
\* not typed, but for an Escape and the bytes of a broken escape sequence taken as
\* characters; and while every read takes what it can tell each key is acted on once,
\* in order.
THEOREM KeysStayHonest == Spec => []KeysHonest
<1>1. KeyInv => KeysHonest
  <2> SUFFICES ASSUME KeyInv, whole, line = <<>>, rest = <<>> PROVE owed = <<>>
    BY DEF KeysHonest, KeyInv
  <2>1. <<>> \o <<>> = <<>> /\ owed \in Seq(Meant)
    BY DEF KeyInv
  <2>2. Spelled(<<>>, owed)
    BY <2>1 DEF KeyInv
  <2> QED
    BY <2>1, <2>2, NothingSpelled
<1> QED
  BY KeyInvInit, KeyInvStep, <1>1, PTL DEF Spec
===============================================================================
