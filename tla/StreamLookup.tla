----------------------------- MODULE StreamLookup -----------------------------
(***************************************************************************)
(* How download_track finds the stream of a song: it looks for the song's  *)
(* Qobuz ID by its ISRC, and by its title and artist, asks one service     *)
(* after another for a link to it, in one quality after another, and tries *)
(* to download what it was given; and all that again for each attempt.     *)
(*                                                                         *)
(* Any request may come to nothing, at most MaxLost times where there would*)
(* have been an answer.  ResolverGate has the pauses between the requests, *)
(* StreamCache the links that are kept (a song asks for its own once, and  *)
(* a link that fails is forgotten), DownloadTrack the transfer.            *)
(***************************************************************************)
EXTENDS Integers, Sequences

CONSTANTS
  Quality,      \* what may be asked for, of those zarz_quality_for_label gives
  Worlds,       \* what each service may be like: functions in [Service -> Manner]
  Answers,      \* what a search may find: non-empty sequences of candidates
  TrackRetries, \* SQUIDGET_TRACK_RETRIES
  MaxLost       \* bound: answers that are lost

Service == {"community", "musicdl", "gdstudio.xyz", "gdstudio.org", "custom"}
Public  == Service \ {"custom"}

\* A service is switched off, gives no link, links to streams that are or are not
\* lossless, or to both, as it is asked, links to a stream of one kind whatever
\* it is asked for, or gives a link to something else in its error page: the first
\* link in a body is taken, unseen.  A Lucida resolver is refused.
Manner == {"off", "none", "lossless", "lossy", "any", "upgrade", "downgrade", "page", "lucida"}

\* How a title or an artist compares with the one wanted, once match_normalize has
\* dropped what is no letter or digit of ASCII: the same; one part of the other;
\* hits of the wanted words (those of two letters and more) somewhere in it; or
\* blank: nothing is left of the one or of the other.
Matching == {m \in [kind : {"same", "within", "words", "blank"}, hits : Nat, words : Nat] :
               m.hits <= m.words}

Candidate == [title : Matching, artist : Matching, diff : Int]

StreamLookupAssumption ==
  /\ Quality \subseteq {"hi-res-max", "lossless", "high", "low", "dolby-atmos"}
  /\ Worlds \subseteq [Service -> Manner]
  /\ \A a \in Answers : a \in Seq(Candidate) /\ a # <<>>
  /\ {TrackRetries, MaxLost} \subseteq Nat

VARIABLES
  asked,   \* quality
  world,   \* what the services are like
  keys,    \* what the song can be looked up by: "isrc", "title"
  known,   \* those by which Qobuz has it
  strict,  \* SQUIDGET_STRICT_MATCH
  ready,   \* g_qobuz_cache_ready: IDs are kept, by "squidget playlist" alone
  pc,      \* where download_track is
  attempt, \* attempt
  key,     \* the lookup it is in
  ids,     \* the keys whose ID is kept
  answer,  \* what the search found
  step,    \* the request of the plan that is next
  stream,  \* what the link leads to
  lost     \* history: how many answers were lost

song == <<asked, world, keys, known, strict, ready>>
vars == <<song, pc, attempt, key, ids, answer, step, stream, lost>>

FirstKey == IF "isrc" \in keys THEN "isrc" ELSE "title"

Init ==
  /\ asked \in Quality /\ world \in Worlds
  /\ keys \in (SUBSET {"isrc", "title"}) \ {{}} /\ known \in SUBSET keys
  /\ strict \in BOOLEAN /\ ready \in BOOLEAN
  /\ pc = "search" /\ attempt = 0 /\ key = FirstKey
  /\ ids = {} /\ answer = <<>> /\ step = 1 /\ stream = "none" /\ lost = 0

Lose == lost < MaxLost /\ lost' = lost + 1

-------------------------------------------------------------------------------
(* The order of the requests                                               *)

\* qobuz_community_quality_label, and the other one after it; three passes.
Community(q) ==
  LET alts == IF q \in {"hi-res-max", "dolby-atmos"} THEN <<"24", "16">> ELSE <<"16", "24">>
  IN  alts \o alts \o alts

\* Mutant: the lossless label is taken for the next one.
Fallbacks_NextLabel(q) == IF q \in {"hi-res-max", "dolby-atmos"} THEN <<"27", "7", "6">> ELSE <<"5">>

\* qobuz_spotiflac_quality, spotiflac_quality_fallbacks
Fallbacks(q) ==
  CASE q \in {"hi-res-max", "dolby-atmos"} -> <<"27", "7", "6">>
    [] q = "lossless"                      -> <<"6">>
    [] OTHER                               -> <<"5">>

\* quality_fallbacks
CustomFallbacks(q) ==
  CASE q = "lossless"    -> <<"lossless", "high", "low">>
    [] q = "high"        -> <<"high", "lossless", "low">>
    [] q = "low"         -> <<"low", "high">>
    [] q = "dolby-atmos" -> <<"dolby-atmos", "hi-res-max", "lossless", "high", "low">>
    [] OTHER             -> <<"hi-res-max", "lossless", "high", "low">>

To(service, tags) == [i \in DOMAIN tags |-> [service |-> service, tag |-> tags[i]]]

Mirrors == <<"musicdl", "gdstudio.xyz", "gdstudio.org">>

\* Each quality is asked of each mirror before the next one is.
ToMirrors(tags) ==
  [i \in 1 .. 3 * Len(tags) |->
     [service |-> Mirrors[((i - 1) % 3) + 1], tag |-> tags[((i - 1) \div 3) + 1]]]

\* qobuz_try_direct_stream_resolvers
Direct(q) ==
  (IF world["community"] = "off" THEN <<>> ELSE To("community", Community(q)))
    \o ToMirrors(Fallbacks(q))

\* qobuz_resolve_id_via_configured_resolver: everything twice, then the resolver
\* of the environment.
Plan(q) ==
  Direct(q) \o Direct(q)
    \o (IF world["custom"] \in {"off", "lucida"} THEN <<>> ELSE To("custom", CustomFallbacks(q)))

Lossy == {"5", "high", "low"}

\* What the answer to a request links to.
Link(request) ==
  LET manner == world[request.service]
      kind   == IF request.tag \in Lossy THEN "lossy" ELSE "lossless"
  IN  CASE manner = "page"         -> "page"
        [] manner \in {kind, "any"} -> kind
        [] manner = "upgrade"      -> "lossless"
        [] manner = "downgrade"    -> "lossy"
        [] OTHER                   -> "none"

-------------------------------------------------------------------------------
(* The choice among what a search finds                                    *)

\* token_overlap_score
Overlap(match, most) ==
  CASE match.kind = "same"                     -> most
    [] match.kind = "within"                   -> (most * 3) \div 4
    [] match.kind = "words" /\ match.words > 0 -> (most * match.hits) \div match.words
    [] OTHER                                   -> 0

\* Mutant: a wrong duration costs nothing.
Timing_Kind(diff) == IF diff \in 0 .. 2 THEN 25 ELSE 0

\* -1: a duration is not known.
Timing(diff) ==
  CASE diff < 0         -> 0
    [] diff \in 0 .. 2  -> 25
    [] diff \in 3 .. 5  -> 18
    [] diff \in 6 .. 8  -> 10
    [] diff \in 9 .. 15 -> -10
    [] OTHER            -> -35

\* qobuz_match_score
Score(c) == Overlap(c.title, 50) + Overlap(c.artist, 25) + Timing(c.diff)

\* The first of the best.
Best(found) ==
  found[CHOOSE i \in DOMAIN found :
          /\ \A j \in DOMAIN found : Score(found[i]) >= Score(found[j])
          /\ \A j \in 1 .. i - 1 : Score(found[i]) > Score(found[j])]

Confident(c) == strict => Score(c) >= 55 /\ c.diff <= 8

-------------------------------------------------------------------------------

\* Another attempt, or the end.
Retry ==
  /\ IF attempt < TrackRetries
     THEN pc' = "search" /\ attempt' = attempt + 1 /\ key' = FirstKey
     ELSE pc' = "failed" /\ UNCHANGED <<attempt, key>>
  /\ step' = 1 /\ stream' = "none" /\ answer' = <<>>

\* Mutant: the title is looked up only for a song without ISRC.
Missed_Final == Retry

\* The lookup by this key gives no link.
Missed ==
  \/ /\ key = "isrc" /\ "title" \in keys
     /\ key' = "title" /\ pc' = "search"
     /\ step' = 1 /\ stream' = "none" /\ answer' = <<>>
     /\ UNCHANGED attempt
  \/ /\ ~(key = "isrc" /\ "title" \in keys)
     /\ Retry

\* qobuz_cache_get_id
IdKept ==
  /\ pc = "search" /\ key \in ids
  /\ pc' = "ask"
  /\ UNCHANGED <<song, attempt, key, ids, answer, step, stream, lost>>

SearchFinds ==
  /\ pc = "search" /\ key \in known \ ids
  /\ answer' \in Answers
  /\ pc' = "match"
  /\ UNCHANGED <<song, attempt, key, ids, step, stream, lost>>

SearchFails ==
  /\ pc = "search" /\ key \notin ids
  /\ IF key \in known THEN Lose ELSE UNCHANGED lost
  /\ Missed
  /\ UNCHANGED <<song, ids>>

\* By its ISRC the first that was found, by its title the best one.
Match ==
  /\ pc = "match"
  /\ IF key = "isrc" \/ Confident(Best(answer))
     THEN /\ ids' = IF ready THEN ids \cup {key} ELSE ids
          /\ pc' = "ask" /\ answer' = <<>>
          /\ UNCHANGED <<attempt, key, step, stream>>
     ELSE Missed /\ UNCHANGED ids
  /\ UNCHANGED <<song, lost>>

\* No link: the next request, or none is left.
NoLink ==
  /\ pc = "ask"
  /\ IF Link(Plan(asked)[step]) = "none" THEN UNCHANGED lost ELSE Lose
  /\ IF step < Len(Plan(asked))
     THEN step' = step + 1 /\ UNCHANGED <<pc, attempt, key, answer, stream>>
     ELSE Missed
  /\ UNCHANGED <<song, ids>>

GetLink ==
  /\ pc = "ask"
  /\ Link(Plan(asked)[step]) # "none"
  /\ stream' = Link(Plan(asked)[step])
  /\ pc' = "transfer"
  /\ UNCHANGED <<song, attempt, key, ids, answer, step, lost>>

Save ==
  /\ pc = "transfer" /\ stream # "page"
  /\ pc' = "saved"
  /\ UNCHANGED <<song, attempt, key, ids, answer, step, stream, lost>>

\* The link is no song, or the transfer breaks off.
TransferFails ==
  /\ pc = "transfer"
  /\ IF stream = "page" THEN UNCHANGED lost ELSE Lose
  /\ Retry
  /\ UNCHANGED <<song, ids>>

Next ==
  \/ IdKept \/ SearchFinds \/ SearchFails \/ Match \/ NoLink \/ GetLink \/ Save \/ TransferFails

Spec == Init /\ [][Next]_vars

-------------------------------------------------------------------------------
(* Properties                                                              *)

\* Everything has its type; the ID that is used or kept is that of a song that is
\* known by that key, and only a request of the plan is made.
TypeOK ==
  /\ asked \in Quality /\ world \in Worlds
  /\ keys \subseteq {"isrc", "title"} /\ known \subseteq keys /\ ids \subseteq known
  /\ strict \in BOOLEAN /\ ready \in BOOLEAN
  /\ pc \in {"search", "match", "ask", "transfer", "saved", "failed"}
  /\ attempt \in 0 .. TrackRetries /\ lost \in 0 .. MaxLost
  /\ key \in keys
  /\ pc \in {"match", "ask", "transfer"} => key \in known
  /\ pc = "match" => answer \in Answers
  /\ step \in DOMAIN Plan(asked)
  /\ stream \in {"none", "lossless", "lossy", "page"}

\* Qobuz has the song under a key that will not be refused, and the first service
\* to give a link gives one to a song.
Servable ==
  /\ "isrc" \in known \/ ("title" \in known /\ ~strict)
  /\ \E i \in DOMAIN Plan(asked) :
       /\ Link(Plan(asked)[i]) \in {"lossless", "lossy"}
       /\ \A j \in 1 .. i - 1 : Link(Plan(asked)[j]) = "none"

\* download.c:640-725 and api.c: whatever gets lost, and in whichever order the
\* services are alive or not, a song that can be had is given up only after each
\* of the TrackRetries + 1 attempts has lost an answer or a transfer of its own.
\* What hides it is a link that is no song: the attempts all begin with the same
\* service, and the later ones are never asked.
GivenUpOnlyForLosses == pc = "failed" /\ Servable => lost > TrackRetries

LosslessAsked == asked \in {"hi-res-max", "lossless", "dolby-atmos"}
HasLossless(service) == world[service] \in {"lossless", "any", "upgrade"}

\* api.c:2261-2290, 2302-2335: who asks for a lossless stream (README.md:196-197)
\* and is given a lossy one was let down by every public service that has the song
\* lossless: its answer was lost, and in the end two answers were.  The exception
\* is a public service that links to a lossy stream whatever it is asked for, whose
\* link is taken unseen: it stands in for all those that come after it, and after
\* a single loss for those before it.
LossyOnlyAsLastResort ==
  pc = "saved" /\ stream = "lossy" /\ LosslessAsked =>
    LET fooled == Plan(asked)[step].service \in {s \in Public : world[s] = "downgrade"}
    IN  \A i \in DOMAIN Direct(asked) :
          HasLossless(Direct(asked)[i].service) =>
            \/ fooled /\ (i < step => lost >= 1)
            \/ i < step /\ lost >= 2

\* The title and artist are those wanted, as far as they are compared.
Exact(c, most) == c.title.kind = "same" /\ c.artist.kind = "same" /\ c.diff \in 0 .. most

\* Each of the words wanted is found, in whichever order; seven of ten are; one is.
AllWords(match)  == match.kind = "same" \/ (match.kind = "words" /\ match.hits = match.words)
MostWords(match) == match.kind \in {"same", "within"}
                      \/ (match.kind = "words" /\ 10 * match.hits >= 7 * match.words)
AnyWord(match)   == match.kind \in {"same", "within"} \/ (match.kind = "words" /\ match.hits > 0)

\* api.c:2444-2494, 2553-2574: a song of this title and artist and, to two seconds,
\* of this length is passed over only for one before it that has all the words of
\* both and this length; to eight seconds, only for one that has most words of the
\* title and one of the artist, and is no less near in length.  (A title without an
\* ASCII letter or digit is like no other, itself included.)  Under
\* SQUIDGET_STRICT_MATCH none is taken whose length is known to differ by more, or
\* that has no word of the title.
RightSongChosen ==
  pc = "match" /\ key = "title" /\ Confident(Best(answer)) =>
    LET best == Best(answer)
    IN  /\ \A i \in DOMAIN answer : Exact(answer[i], 2) =>
             /\ AllWords(best.title) /\ AllWords(best.artist) /\ best.diff \in 0 .. 2
             /\ \E j \in 1 .. i : answer[j] = best
        /\ (\E i \in DOMAIN answer : Exact(answer[i], 8)) =>
             MostWords(best.title) /\ AnyWord(best.artist) /\ best.diff \in 0 .. 8
        /\ strict => best.diff <= 8 /\ AnyWord(best.title)
===============================================================================
