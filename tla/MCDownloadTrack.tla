--------------------------- MODULE MCDownloadTrack ----------------------------
(***************************************************************************)
(* DownloadTrack on two systems, with tracks that have names of their own  *)
(* or all the same one, in directories an earlier run has left.            *)
(***************************************************************************)
EXTENDS DownloadTrack

OwnName == [t \in Track |-> t]
AnyName == CHOOSE n \in Name : TRUE
OneName == [t \in Track |-> AnyName]

\* The song was there already, or a session that was killed left a part of it.
Song(s, temporary) == [name |-> AnyName, suffix |-> s, ext |-> Expected, tmp |-> temporary]
Copies   == {Song(<< >>, FALSE)}
Partials == {Song(<< >>, TRUE)}

Few ==
  {[nameOf |-> OwnName, windows |-> FALSE, old |-> old] : old \in {Copies, Partials}}
    \cup {[nameOf |-> OwnName, windows |-> TRUE, old |-> Partials],
          [nameOf |-> OneName, windows |-> FALSE, old |-> {}]}
==============================================================================
