---------------------------- MODULE LookupInstance ----------------------------
(***************************************************************************)
(* StreamLookup under names that can stand beside those of StreamCache,    *)
(* which keeps what it finds: TLC checks it here, and StreamCacheProofs has*)
(* the proofs about both.                                                  *)
(***************************************************************************)
EXTENDS Integers

CONSTANTS Quality, Worlds, Answers, TrackRetries, MaxLost
VARIABLES asked, world, keys, known, strict, kept, at, attempt, key, ids, answer, step, stream, lost

\* The lookup; its pc and ready are called at and kept here.
Finder == INSTANCE StreamLookup WITH pc <- at, ready <- kept

ASSUME FinderAssumption == Finder!StreamLookupAssumption

FinderSpec == Finder!Spec

\* download.c:640-725 and api.c: a song that can be had is given up only after
\* each attempt has lost an answer or a transfer of its own.
GivenUpOnlyForLosses == Finder!GivenUpOnlyForLosses

\* api.c:2261-2290, 2302-2335: who asks for a lossless stream is given a lossy one
\* only when those that have it lossless lost their answers, or after a service
\* that links to a lossy stream whatever it is asked for.
LossyOnlyAsLastResort == Finder!LossyOnlyAsLastResort

\* api.c:2444-2494, 2553-2574: a song of this title, artist and length is passed
\* over only for one before it with all the words of both and this length.
RightSongChosen == Finder!RightSongChosen
===============================================================================
