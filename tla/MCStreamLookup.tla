---------------------------- MODULE MCStreamLookup ----------------------------
(***************************************************************************)
(* StreamLookup with at most two services that give links, and searches    *)
(* that find one song or two, of eleven that differ in title, artist and   *)
(* length.                                                                 *)
(***************************************************************************)
EXTENDS LookupInstance, FiniteSets

Services == {"community", "musicdl", "gdstudio.xyz", "gdstudio.org", "custom"}

Kinds(service) ==
  {"none", "lossless", "any", "downgrade", "page"}
    \cup (CASE service = "community" -> {"off"}
            [] service = "custom"    -> {"off", "lucida", "lossy"}
            [] OTHER                 -> {"lossy"})

FewLive ==
  {w \in [Services -> UNION {Kinds(s) : s \in Services}] :
     /\ \A s \in Services : w[s] \in Kinds(s)
     /\ Cardinality({s \in Services : w[s] \notin {"off", "none", "lucida"}}) <= 2}

M(kind, hits, words) == [kind |-> kind, hits |-> hits, words |-> words]
C(title, artist, diff) == [title |-> title, artist |-> artist, diff |-> diff]

Same   == M("same", 3, 3)
Within == M("within", 3, 3)
Mixed  == M("words", 3, 3)   \* all the words, in another order
Two    == M("words", 2, 3)
One    == M("words", 1, 3)
Other  == M("words", 0, 3)
Blank  == M("blank", 0, 0)

Songs == {C(Same, Same, 1), C(Same, Same, 7), C(Same, Same, 40), C(Same, Same, -1),
          C(Within, Same, 0), C(Mixed, Mixed, 2), C(Two, One, 0), C(Same, Other, 0),
          C(Other, Same, 0), C(Blank, Same, 1), C(One, Two, 12)}

\* One song, or the right one, or one near in length, before or after another.
Right == {C(Same, Same, 1), C(Same, Same, 7)}
Lists == {<<a>> : a \in Songs} \cup {<<a, b>> : a \in Right, b \in Songs}
           \cup {<<a, b>> : a \in Songs, b \in Right}
===============================================================================
