------------------------------- MODULE ListView -------------------------------
(***************************************************************************)
(* How the keys move the selection and the part of the list that is shown: *)
(* the handlers of MODE_RESULTS and MODE_ALBUM_TRACKS, which are alike.  A *)
(* view is a cursor and a scroll offset; vis is rows - HEADER_ROWS -       *)
(* FOOTER_ROWS - 1, which is not positive on a terminal of up to five rows.*)
(***************************************************************************)
EXTENDS Integers

Vis(rows) == rows - 5

\* The rows that tui_render draws of a list.
Drawn(rows) == IF Vis(rows) < 1 THEN 1 ELSE Vis(rows)

View(cursor, scroll) == [cursor |-> cursor, scroll |-> scroll]

\* Mutant: the last row is not counted.
Below_Late(c, scroll, vis) == View(c, IF c > scroll + vis THEN c - vis ELSE scroll)

\* The cursor goes to c; the list follows it down, or up.
Below(c, scroll, vis) == View(c, IF c >= scroll + vis THEN c - vis + 1 ELSE scroll)
Above(c, scroll)      == View(c, IF c < scroll THEN c ELSE scroll)

\* Mutant: PgDn does not stop at the end.
PageDown_Far(c, len, vis) == c + vis

PageDown(c, len, vis) == IF c + vis >= len THEN len - 1 ELSE c + vis

\* The keys that are acted on.
Moves(key, v, len) ==
  \/ key = "UP" /\ v.cursor > 0
  \/ key = "DOWN" /\ v.cursor < len - 1
  \/ key \in {"HOME", "PGUP"}
  \/ key \in {"END", "PGDN"} /\ len > 0

Moved(key, v, len, vis) ==
  CASE key = "UP"   -> Above(v.cursor - 1, v.scroll)
    [] key = "DOWN" -> Below(v.cursor + 1, v.scroll, vis)
    [] key = "HOME" -> View(0, 0)
    [] key = "END"  -> Below(len - 1, v.scroll, vis)
    [] key = "PGUP" -> Above(IF v.cursor > vis THEN v.cursor - vis ELSE 0, v.scroll)
    [] key = "PGDN" -> Below(PageDown(v.cursor, len, vis), v.scroll, vis)

OnScreen(v, vis) == v.scroll <= v.cursor /\ v.cursor < v.scroll + vis
===============================================================================
