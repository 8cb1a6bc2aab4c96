------------------------------- MODULE Keyboard -------------------------------
(***************************************************************************)
(* tui_read_key: how the bytes a terminal sends become keys.  A stroke is  *)
(* what the user does, and sends the bytes given here, each of which has a *)
(* name.  One read takes whatever has arrived: part of a stroke, or many.  *)
(***************************************************************************)
EXTENDS Integers, Sequences, SequencesExt

Bytes ==
  [text   |-> <<"x">>,    accent |-> <<"lead", "cont">>,  tab   |-> <<"TAB">>,
   enter  |-> <<"CR">>,   erase  |-> <<"DEL">>,           clear |-> <<"^U">>,
   escape |-> <<"ESC">>,  quit   |-> <<"^C">>,
   up     |-> <<"ESC", "[", "A">>,       down |-> <<"ESC", "[", "B">>,
   pgup   |-> <<"ESC", "[", "5", "~">>,  pgdn |-> <<"ESC", "[", "6", "~">>,
   home   |-> <<"ESC", "[", "1", "~">>,  end  |-> <<"ESC", "O", "F">>]

\* What each stroke is meant to be.
Keys ==
  [text   |-> <<"x">>,      accent |-> <<"lead", "cont">>,  tab   |-> <<"TAB">>,
   enter  |-> <<"ENTER">>,  erase  |-> <<"BACKSPACE">>,     clear |-> <<"^U">>,
   escape |-> <<"ESCAPE">>, quit   |-> <<"^C">>,
   up     |-> <<"UP">>,     down   |-> <<"DOWN">>,
   pgup   |-> <<"PGUP">>,   pgdn   |-> <<"PGDN">>,
   home   |-> <<"HOME">>,   end    |-> <<"END">>]

\* The keys that are not characters.
Control == {"UP", "DOWN", "LEFT", "RIGHT", "HOME", "END", "PGUP", "PGDN", "ENTER", "ESCAPE",
            "BACKSPACE", "TAB", "^U", "^C"}

\* key >= 32 && key < 256, which DEL is too.
IsCharacter(key) == key \notin Control \cup {"CR", "ESC"}

-------------------------------------------------------------------------------

\* Mutant: Enter is not told from its byte.
FromRest_Raw(byte) == IF byte = "DEL" THEN "BACKSPACE" ELSE byte

\* A byte that was left over from an earlier read; ESC stays a byte.
FromRest(byte) ==
  CASE byte = "DEL" -> "BACKSPACE"
    [] byte = "CR"  -> "ENTER"
    [] OTHER        -> byte

\* A byte that came alone.
Alone(byte) == IF byte = "ESC" THEN "ESCAPE" ELSE FromRest(byte)

\* What the last byte of a sequence, or its number, tells.
Arrow    == [A |-> "UP", B |-> "DOWN", C |-> "RIGHT", D |-> "LEFT"]
AfterO   == [A |-> "UP", B |-> "DOWN", C |-> "RIGHT", D |-> "LEFT", H |-> "HOME", F |-> "END"]
Numbered == [n \in {"1", "7", "4", "8", "5", "6"} |->
               CASE n \in {"1", "7"} -> "HOME"
                 [] n \in {"4", "8"} -> "END"
                 [] n = "5"          -> "PGUP"
                 [] n = "6"          -> "PGDN"]

\* The key of an escape sequence; whatever follows it in the same read is lost,
\* and so is a sequence that is not known or not whole.
EscapeKey(buf) ==
  LET n == Len(buf)
  IN  CASE n >= 3 /\ buf[2] = "[" /\ buf[3] \in DOMAIN Arrow -> Arrow[buf[3]]
        [] n >= 4 /\ buf[2] = "[" /\ buf[3] \in DOMAIN Numbered /\ buf[4] = "~" ->
             Numbered[buf[3]]
        [] n >= 3 /\ buf[2] = "O" /\ buf[3] \in DOMAIN AfterO -> AfterO[buf[3]]
        [] OTHER -> "ESC"

\* The key that a read gives, and the bytes kept for the next calls.
ReadKey(buf) ==
  CASE Len(buf) = 1 -> [key |-> Alone(Head(buf)), rest |-> <<>>]
    [] Len(buf) > 1 /\ Head(buf) # "ESC" -> [key |-> Head(buf), rest |-> Tail(buf)]
    [] OTHER -> [key |-> EscapeKey(buf), rest |-> <<>>]
===============================================================================
