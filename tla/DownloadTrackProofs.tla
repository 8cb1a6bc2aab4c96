-------------------------- MODULE DownloadTrackProofs --------------------------
(***************************************************************************)
(* Proofs about DownloadTrack, for any number of workers, tracks, parts    *)
(* and retries, on both systems, and whatever the names of the tracks are: *)
(* what is said of the files is said of the names that two workers never   *)
(* had in hand at once.                                                    *)
(***************************************************************************)
EXTENDS DownloadTrack, SequenceTheorems, TLAPS

\* What build_out_path gives: at most one number, and not a temporary file.
FirstPath == {p \in Path : p.suffix \in {<< >>} \cup {<<n>> : n \in 2 .. MaxCopies}
                           /\ p.tmp = FALSE}

\* A worker in download_track has a track and a name to go with it.
Placed(w) ==
  pc[w] # "idle" =>
    /\ track[w] \in Track
    /\ outcome[track[w]] = "busy"
    /\ fallback[w] \in FirstPath
    /\ fallback[w].name = nameOf[track[w]]

\* No track is in two hands.
OneEach ==
  \A v, w \in Worker :
    pc[v] # "idle" /\ pc[w] # "idle" /\ track[v] = track[w] => v = w

Typing == TypeOK /\ (\A w \in Worker : Placed(w)) /\ OneEach

\* The names of the rename are in place when it comes to them.
Named ==
  \A w \in Worker :
    /\ pc[w] \in {"name", "rename"} => sniffed[w] \in Media
    /\ pc[w] = "rename" => /\ final[w] \in Path /\ final[w].tmp = FALSE
                           /\ final[w].name = nameOf[track[w]]
                           /\ final[w].ext = sniffed[w]

USE DownloadTrackAssumption

LEMMA MaxCopiesNat == MaxCopies \in Nat /\ MaxCopies >= 2
  BY DEF Path

LEMMA AppendToNone ==
  ASSUME NEW s, s = << >>, NEW n \in Nat
  PROVE  Append(s, n) = <<n>>
  OBVIOUS

LEMMA AppendToOne ==
  ASSUME NEW s, NEW m \in Nat, s = <<m>>, NEW n \in Nat
  PROVE  Append(s, n) = <<m, n>>
<1> DEFINE t == Append(s, n)
           u == <<m, n>>
<1>1. s \in Seq(Nat) /\ Len(s) = 1 /\ s[1] = m
  OBVIOUS
<1>2. t \in Seq(Nat) /\ Len(t) = 2 /\ t[1] = m /\ t[2] = n
  BY <1>1, AppendProperties
<1>3. u \in Seq(Nat) /\ Len(u) = 2 /\ u[1] = m /\ u[2] = n
  OBVIOUS
<1> HIDE DEF t, u
<1>4. \A i \in 1 .. Len(t) : t[i] = u[i]
  BY <1>2, <1>3
<1>5. t = u
  BY <1>2, <1>3, <1>4, SeqEqual
<1> QED
  BY <1>5 DEF t, u

\* The names build_out_path may choose, and what it leaves of the base.
LEMMA NumberedFirst ==
  ASSUME NEW p \in FirstPath, p.suffix = << >>, NEW n \in 1 .. MaxCopies
  PROVE  /\ Numbered(p, n) \in FirstPath
         /\ Numbered(p, n).name = p.name
<1>1. CASE n = 1
  BY <1>1 DEF Numbered
<1>2. CASE n # 1
  <2>1. n \in 2 .. MaxCopies
    BY <1>2, MaxCopiesNat
  <2>2. Append(<< >>, n) = <<n>>
    OBVIOUS
  <2>3. Numbered(p, n) = [p EXCEPT !.suffix = <<n>>]
    BY <1>2, <2>2 DEF Numbered
  <2>4. <<n>> \in Suffix
    BY <2>1 DEF Suffix
  <2> QED
    BY <2>1, <2>3, <2>4 DEF FirstPath, Path
<1> QED
  BY <1>1, <1>2

\* The names path_with_ext_dedup may choose.
LEMMA NumberedFinal ==
  ASSUME NEW b \in FirstPath, NEW n \in 1 .. MaxCopies, NEW q, q = Numbered(b, n)
  PROVE  /\ q \in Path /\ q.tmp = FALSE
         /\ q.name = b.name /\ q.ext = b.ext
         /\ (n = MaxCopies => LastName(q))
<1>0. n \in Nat /\ 2 .. MaxCopies \subseteq Nat
  BY MaxCopiesNat
<1>1. CASE n = 1
  BY <1>1, MaxCopiesNat DEF Numbered, FirstPath
<1>2. CASE n # 1
  <2>1. n \in 2 .. MaxCopies
    BY <1>2, MaxCopiesNat
  <2>2. q = [b EXCEPT !.suffix = Append(b.suffix, n)]
    BY <1>2 DEF Numbered
  <2>3. CASE b.suffix = << >>
    <3>1. Append(b.suffix, n) = <<n>>
      BY <1>0, <2>3, AppendToNone
    <3>2. <<n>> \in Suffix
      BY <2>1 DEF Suffix
    <3>3. q \in Path /\ q.tmp = FALSE /\ q.name = b.name /\ q.ext = b.ext /\ q.suffix = <<n>>
      BY <2>2, <3>1, <3>2 DEF FirstPath, Path
    <3>4. 1 \in DOMAIN q.suffix /\ q.suffix[1] = n
      BY <3>3
    <3> QED
      BY <3>3, <3>4 DEF LastName
  <2>4. CASE b.suffix # << >>
    <3>1. PICK m \in 2 .. MaxCopies : b.suffix = <<m>>
      BY <2>4 DEF FirstPath
    <3>2. Append(b.suffix, n) = <<m, n>>
      BY <1>0, <3>1, AppendToOne
    <3>3. <<m, n>> \in Suffix
      BY <2>1, <3>1 DEF Suffix
    <3>4. q \in Path /\ q.tmp = FALSE /\ q.name = b.name /\ q.ext = b.ext /\ q.suffix = <<m, n>>
      BY <2>2, <3>2, <3>3 DEF FirstPath, Path
    <3>5. 2 \in DOMAIN q.suffix /\ q.suffix[2] = n
      BY <3>4
    <3> QED
      BY <3>4, <3>5 DEF LastName
  <2> QED
    BY <2>3, <2>4
<1> QED
  BY <1>1, <1>2

LEMMA TmpPath ==
  ASSUME NEW p \in Path
  PROVE  /\ Tmp(p) \in Path /\ Tmp(p).tmp = TRUE
         /\ Tmp(p).name = p.name /\ Tmp(p).ext = p.ext
  BY DEF Tmp, Path

LEMMA EmptyContent == Empty \in Content /\ \A k \in Media : Old(k) \in Content
  BY DEF Empty, Old, Content, Hole, Cell, CellSet, Kind

\* What BuildOutPath puts its number after.
LEMMA BasePath ==
  ASSUME NEW t \in Track,
         nameOf \in [Track -> Name],
         NEW b, b = [name |-> nameOf[t], suffix |-> << >>, ext |-> Expected, tmp |-> FALSE]
  PROVE  b \in FirstPath /\ b.suffix = << >> /\ b.name = nameOf[t]
  BY DEF FirstPath, Path, Suffix

\* The name BuildOutPath settles on.
LEMMA BuiltPath ==
  ASSUME NEW w \in Worker, NEW t \in Track, BuildOutPath(w, t),
         fallback \in [Worker -> Path \cup {NoPath}], nameOf \in [Track -> Name]
  PROVE  \E p \in FirstPath : /\ fallback' = [fallback EXCEPT ![w] = p]
                              /\ p.name = nameOf[t]
<1> DEFINE b == [name |-> nameOf[t], suffix |-> << >>, ext |-> Expected, tmp |-> FALSE]
<1>1. PICK n \in 1 .. MaxCopies : fallback' = [fallback EXCEPT ![w] = Numbered(b, n)]
  BY DEF BuildOutPath
<1>2. b \in FirstPath /\ b.suffix = << >> /\ b.name = nameOf[t]
  BY BasePath
<1> HIDE DEF b
<1>3. Numbered(b, n) \in FirstPath /\ Numbered(b, n).name = b.name
  BY <1>2, NumberedFirst
<1> QED
  BY <1>1, <1>2, <1>3

\* The name ChooseFinal settles on: free, or the last of its series.
LEMMA FinalPath ==
  ASSUME NEW w \in Worker, ChooseFinal(w), fallback[w] \in FirstPath, sniffed[w] \in Media
  PROVE  \E q \in Path : /\ final' = [final EXCEPT ![w] = q]
                         /\ q.tmp = FALSE /\ q.ext = sniffed[w]
                         /\ q.name = fallback[w].name
                         /\ ~Exists(q) \/ LastName(q)
<1> DEFINE base == [fallback[w] EXCEPT !.ext = sniffed[w]]
<1>1. PICK n \in 1 .. MaxCopies :
        FirstFree(base, n) /\ final' = [final EXCEPT ![w] = Numbered(base, n)]
  BY DEF ChooseFinal
<1>2. base \in FirstPath /\ base.ext = sniffed[w] /\ base.name = fallback[w].name
  BY DEF FirstPath, Path
<1> HIDE DEF base
<1>3. PICK q : q = Numbered(base, n)
  OBVIOUS
<1>4. /\ q \in Path /\ q.tmp = FALSE
      /\ q.name = base.name /\ q.ext = base.ext
      /\ (n = MaxCopies => LastName(q))
  BY <1>2, <1>3, NumberedFinal
<1>5. n < MaxCopies => ~Exists(q)
  BY <1>1, <1>3 DEF FirstFree
<1>6. n = MaxCopies \/ n < MaxCopies
  BY MaxCopiesNat
<1>7. final' = [final EXCEPT ![w] = q]
  BY <1>1, <1>3
<1> QED
  BY <1>2, <1>4, <1>5, <1>6, <1>7

------------------------------------------------------------------------------
(* Types.                                                                  *)

LEMMA InitTyping == Init => Typing
<1> SUFFICES ASSUME Init PROVE Typing
  OBVIOUS
<1>1. file \in [Path -> Content \cup {Absent}]
  <2>1. PICK setting \in Settings :
          file = [p \in Path |-> IF p \in setting.old THEN Old(p.ext) ELSE Absent]
    BY DEF Init
  <2>2. \A p \in Path : Old(p.ext) \in Content
    BY EmptyContent DEF Path
  <2> QED
    BY <2>1, <2>2
<1>2. nameOf \in [Track -> Name] /\ windows \in BOOLEAN
  BY DEF Init
<1>3. TypeOK
  BY <1>1, <1>2 DEF Init, TypeOK, Kind, PlaceOf, Outcomes
<1> QED
  BY <1>3 DEF Typing, Placed, OneEach, Init

\* A worker knows its files: the ones named in the steps it takes.
LEMMA OwnFile ==
  ASSUME Typing, NEW w \in Worker, pc[w] # "idle"
  PROVE  /\ TmpOf(w) \in Path /\ TmpOf(w).tmp = TRUE
         /\ TmpOf(w).name = nameOf[track[w]]
         /\ TmpOf(w).ext \in Media
         /\ fallback[w] \in Path
<1>1. fallback[w] \in Path /\ fallback[w].name = nameOf[track[w]]
  BY DEF Typing, Placed, FirstPath
<1> QED
  BY <1>1, TmpPath DEF TmpOf, Path

LEMMA RetryTypes ==
  ASSUME Typing, NEW w \in Worker, pc[w] # "idle", RetryOrFail(w)
  PROVE  /\ attempt' \in [Worker -> 0 .. TrackRetries]
         /\ outcome' \in [Track -> Outcomes]
         /\ pc' \in [Worker -> PlaceOf]
<1>1. CASE attempt[w] < TrackRetries /\ attempt' = [attempt EXCEPT ![w] = @ + 1]
           /\ Goto(w, "lookup") /\ UNCHANGED outcome
  BY <1>1 DEF Typing, TypeOK, Goto, PlaceOf
<1>2. CASE attempt[w] >= TrackRetries /\ outcome' = [outcome EXCEPT ![track[w]] = "failed"]
           /\ Goto(w, "idle") /\ UNCHANGED attempt
  BY <1>2 DEF Typing, TypeOK, Goto, PlaceOf, Outcomes, Placed
<1> QED
  BY <1>1, <1>2 DEF RetryOrFail

LEMMA RemoveTypes ==
  ASSUME Typing, NEW p \in Path, NEW open \in [Worker -> SUBSET Path], Remove(p, open)
  PROVE  /\ file' \in [Path -> Content \cup {Absent}]
         /\ link' \in [Worker -> SUBSET Path]
<1>1. CASE Held(p, open)
  BY <1>1 DEF Typing, TypeOK, Remove
<1>2. CASE ~Held(p, open)
  BY <1>2 DEF Typing, TypeOK, Remove
<1> QED
  BY <1>1, <1>2

\* A step of w that goes on with the same track leaves everybody placed.
LEMMA StillPlaced ==
  ASSUME Typing, NEW w \in Worker, pc[w] # "idle",
         NEW place \in PlaceOf, pc' = [pc EXCEPT ![w] = place],
         UNCHANGED <<track, fallback>>, nameOf' = nameOf,
         \/ UNCHANGED outcome
         \/ place = "idle" /\ \E end \in {"done", "failed"} :
                                outcome' = [outcome EXCEPT ![track[w]] = end]
  PROVE  (\A v \in Worker : Placed(v)') /\ OneEach'
<1>1. OneEach'
  BY DEF Typing, TypeOK, OneEach
<1>2. ASSUME NEW v \in Worker PROVE Placed(v)'
  <2>1. CASE UNCHANGED outcome
    BY <2>1 DEF Typing, TypeOK, Placed
  <2>2. CASE v = w /\ place = "idle"
    BY <2>2 DEF Typing, TypeOK, Placed
  <2>3. CASE v # w /\ \E end \in {"done", "failed"} :
                            outcome' = [outcome EXCEPT ![track[w]] = end]
    <3>1. pc'[v] # "idle" => track[v] # track[w]
      BY <2>3 DEF Typing, TypeOK, OneEach
    <3> QED
      BY <2>3, <3>1 DEF Typing, TypeOK, Placed
  <2> QED
    BY <2>1, <2>2, <2>3
<1> QED
  BY <1>1, <1>2

\* The same for the retry or failure that ends some of the steps.
LEMMA RetryPlaced ==
  ASSUME Typing, NEW w \in Worker, pc[w] # "idle", RetryOrFail(w),
         UNCHANGED <<track, fallback>>, nameOf' = nameOf
  PROVE  (\A v \in Worker : Placed(v)') /\ OneEach'
<1>1. CASE Goto(w, "lookup") /\ UNCHANGED outcome
  BY <1>1, StillPlaced DEF Goto, PlaceOf
<1>2. CASE outcome' = [outcome EXCEPT ![track[w]] = "failed"] /\ Goto(w, "idle")
  BY <1>2, StillPlaced DEF Goto, PlaceOf
<1> QED
  BY <1>1, <1>2 DEF RetryOrFail

LEMMA StutterTyping == Typing /\ UNCHANGED vars => Typing'
  BY DEF Typing, TypeOK, Placed, OneEach, vars, locals, given

LEMMA StepTyping ==
  ASSUME Typing, Named, nameOf' = nameOf, windows' = windows, NEW x \in Worker, Step(x)
  PROVE  Typing'
<1>t. TypeOK
  BY DEF Typing
<1>0. ASSUME NEW w \in Worker, NEW t \in Track, NoMetadata(w, t) PROVE Typing'
  <2>1. TypeOK'
    BY <1>t, <1>0 DEF TypeOK, NoMetadata, Outcomes, locals
  <2>2. \A v \in Worker : pc[v] # "idle" => track[v] # t
    BY <1>0 DEF Typing, Placed, NoMetadata
  <2>3. (\A v \in Worker : Placed(v)') /\ OneEach'
    BY <1>t, <1>0, <2>2 DEF Typing, TypeOK, Placed, OneEach, NoMetadata, locals
  <2> QED
    BY <2>1, <2>3 DEF Typing
<1>1. ASSUME NEW w \in Worker, NEW t \in Track, BuildOutPath(w, t) PROVE Typing'
  <2>1. PICK p \in FirstPath : fallback' = [fallback EXCEPT ![w] = p] /\ p.name = nameOf[t]
    BY <1>1, BuiltPath DEF Typing, TypeOK
  <2>2. p \in Path
    BY DEF FirstPath
  <2>7. met' \in SUBSET Name
    BY <1>1 DEF Typing, TypeOK, BuildOutPath
  <2>3. TypeOK'
    BY <1>1, <2>1, <2>2, <2>7 DEF Typing, TypeOK, BuildOutPath, Goto, PlaceOf, Outcomes
  <2>4. \A v \in Worker : v # w /\ pc[v] # "idle" => track[v] # t
    BY <1>1 DEF Typing, Placed, BuildOutPath
  <2>5. OneEach'
    BY <1>1, <2>4 DEF Typing, TypeOK, OneEach, BuildOutPath, Goto
  <2>6. ASSUME NEW v \in Worker PROVE Placed(v)'
    <3>1. CASE v = w
      BY <1>1, <2>1, <3>1 DEF Typing, TypeOK, Placed, BuildOutPath, Goto
    <3>2. CASE v # w
      BY <1>1, <2>1, <2>4, <3>2 DEF Typing, TypeOK, Placed, BuildOutPath, Goto
    <3> QED
      BY <3>1, <3>2
  <2> QED
    BY <2>3, <2>5, <2>6 DEF Typing
<1>2. ASSUME NEW w \in Worker, LookUp(w) PROVE Typing'
  <2>1. CASE Goto(w, "open") /\ UNCHANGED <<attempt, outcome>>
    <3>1. TypeOK'
      BY <1>2, <2>1 DEF Typing, TypeOK, LookUp, Goto, PlaceOf
    <3>2. (\A v \in Worker : Placed(v)') /\ OneEach'
      BY <1>2, <2>1, StillPlaced DEF LookUp, Goto, PlaceOf
    <3> QED
      BY <3>1, <3>2 DEF Typing
  <2>2. CASE RetryOrFail(w)
    <3>1. TypeOK'
      BY <1>2, <2>2, RetryTypes DEF Typing, TypeOK, LookUp
    <3>2. (\A v \in Worker : Placed(v)') /\ OneEach'
      BY <1>2, <2>2, RetryPlaced DEF LookUp
    <3> QED
      BY <3>1, <3>2 DEF Typing
  <2> QED
    BY <1>2, <2>1, <2>2 DEF LookUp
<1>3. ASSUME NEW w \in Worker, Open(w) PROVE Typing'
  <2>1. TmpOf(w) \in Path
    BY <1>3, OwnFile DEF Open
  <2>2. cut' \in SUBSET Track /\ file' \in [Path -> Content \cup {Absent}]
        /\ pc' \in [Worker -> PlaceOf]
    BY <1>3, <2>1, EmptyContent DEF Typing, TypeOK, Open, Goto, PlaceOf
  <2>5. /\ answer' \in [Worker -> Kind] /\ pos' \in [Worker -> 0 .. Parts]
        /\ link' \in [Worker -> SUBSET Path]
    BY <1>3, <2>1 DEF Typing, TypeOK, Open
  <2>6. UNCHANGED <<track, fallback, attempt, sniffed, final, outcome, saved, met>>
    BY <1>3 DEF Open
  <2>4. TypeOK'
    BY <1>t, <2>2, <2>5, <2>6 DEF TypeOK
  <2>3. (\A v \in Worker : Placed(v)') /\ OneEach'
    BY <1>3, StillPlaced DEF Open, Goto, PlaceOf
  <2> QED
    BY <2>4, <2>3 DEF Typing
<1>4. ASSUME NEW w \in Worker, Write(w) PROVE Typing'
  <2>1. Cell(track[w], answer[w]) \in CellSet /\ pos[w] + 1 \in 1 .. Parts
    BY <1>4 DEF Typing, TypeOK, Write, Placed, Cell, CellSet
  <2>2. ASSUME NEW p \in Path PROVE file'[p] \in Content \cup {Absent}
    <3>1. CASE file[p] \in Content
      BY <1>4, <2>1, <3>1 DEF Typing, TypeOK, Write, Content
    <3>2. CASE file[p] = Absent
      <4>1. [file[p] EXCEPT ![pos[w] + 1] = Cell(track[w], answer[w])] = Absent
        BY <3>2 DEF Absent
      <4> QED
        BY <1>4, <3>2, <4>1 DEF Typing, TypeOK, Write
    <3> QED
      BY <3>1, <3>2 DEF Typing, TypeOK
  <2>3. TypeOK'
    BY <1>4, <2>1, <2>2 DEF Typing, TypeOK, Write
  <2>4. (\A v \in Worker : Placed(v)') /\ OneEach'
    BY <1>4 DEF Typing, Placed, OneEach, Write
  <2> QED
    BY <2>3, <2>4 DEF Typing
<1>5. ASSUME NEW w \in Worker, NEW place \in PlaceOf, Goto(w, place), pc[w] # "idle",
             UNCHANGED <<file, track, fallback, attempt, answer, pos, outcome, met>>,
             \/ UNCHANGED <<saved, sniffed, final>>
             \/ UNCHANGED <<saved, final>> /\ \E k \in Kind : sniffed' = [sniffed EXCEPT ![w] = k]
             \/ UNCHANGED <<saved, sniffed>> /\ \E q \in Path : final' = [final EXCEPT ![w] = q],
             link' = link \/ link' = [link EXCEPT ![w] = {}],
             cut' = cut \/ cut' = cut \cup {track[w]}
      PROVE Typing'
  <2>1. pc' \in [Worker -> PlaceOf]
    BY <1>5 DEF Typing, TypeOK, Goto
  <2>2. saved' \in [Track -> Path \cup {NoPath}] /\ sniffed' \in [Worker -> Kind]
        /\ final' \in [Worker -> Path \cup {NoPath}]
    BY <1>5 DEF Typing, TypeOK
  <2>3. link' \in [Worker -> SUBSET Path]
    BY <1>5 DEF Typing, TypeOK
  <2>4. cut' \in SUBSET Track
    BY <1>5 DEF Typing, TypeOK, Placed
  <2>5. TypeOK'
    BY <1>5, <2>1, <2>2, <2>3, <2>4 DEF Typing, TypeOK
  <2>6. (\A v \in Worker : Placed(v)') /\ OneEach'
    BY <1>5, StillPlaced DEF Goto
  <2> QED
    BY <2>5, <2>6 DEF Typing
<1>6. ASSUME NEW w \in Worker, OpenFails(w) PROVE Typing'
  BY <1>5, <1>6 DEF OpenFails, PlaceOf, locals
<1>7. ASSUME NEW w \in Worker, TransferEnds(w) PROVE Typing'
  BY <1>5, <1>7 DEF TransferEnds, Close, PlaceOf, locals
<1>8. ASSUME NEW w \in Worker, LastBytesLost(w) PROVE Typing'
  BY <1>5, <1>8 DEF LastBytesLost, Close, PlaceOf, locals
<1>9. ASSUME NEW w \in Worker, NoLength(w) \/ TransferBreaks(w) PROVE Typing'
  BY <1>5, <1>9 DEF NoLength, TransferBreaks, Close, PlaceOf, locals
<1>18. ASSUME NEW w \in Worker, WriteLost(w) PROVE Typing'
  <2>1. pos[w] + 1 \in 0 .. Parts /\ cut' \in SUBSET Track
    BY <1>18 DEF Typing, TypeOK, WriteLost, Placed
  <2>2. TypeOK'
    BY <1>18, <2>1 DEF Typing, TypeOK, WriteLost
  <2>3. (\A v \in Worker : Placed(v)') /\ OneEach'
    BY <1>18 DEF Typing, Placed, OneEach, WriteLost
  <2> QED
    BY <2>2, <2>3 DEF Typing
<1>10. ASSUME NEW w \in Worker, TransferFails(w) PROVE Typing'
  <2>1. TmpOf(w) \in Path
    BY <1>10, OwnFile DEF TransferFails
  <2>2. [link EXCEPT ![w] = {}] \in [Worker -> SUBSET Path]
    BY <1>t DEF TypeOK
  <2>3. file' \in [Path -> Content \cup {Absent}] /\ link' \in [Worker -> SUBSET Path]
    BY <1>10, <2>1, <2>2, RemoveTypes DEF TransferFails
  <2>4. TypeOK'
    BY <1>t, <1>10, <2>3 DEF TypeOK, TransferFails, Goto, PlaceOf, locals
  <2>5. (\A v \in Worker : Placed(v)') /\ OneEach'
    BY <1>10, StillPlaced DEF TransferFails, Goto, PlaceOf, locals
  <2> QED
    BY <2>4, <2>5 DEF Typing
<1>11. ASSUME NEW w \in Worker, Sniff(w) PROVE Typing'
  BY <1>5, <1>11 DEF Sniff, PlaceOf, Kind
<1>12. ASSUME NEW w \in Worker, Reject(w) PROVE Typing'
  BY <1>5, <1>12 DEF Reject, PlaceOf, locals
<1>13. ASSUME NEW w \in Worker, ChooseFinal(w) PROVE Typing'
  <2>1. fallback[w] \in FirstPath /\ sniffed[w] \in Media
    BY <1>13 DEF Typing, Placed, Named, ChooseFinal
  <2>2. PICK q \in Path : final' = [final EXCEPT ![w] = q]
    BY <1>13, <2>1, FinalPath
  <2> QED
    BY <1>5, <1>13, <2>2 DEF ChooseFinal, PlaceOf
<1>14. ASSUME NEW w \in Worker, Rename(w) PROVE Typing'
  <2>1. TmpOf(w) \in Path /\ final[w] \in Path
    BY <1>14, OwnFile DEF Rename, Named
  <2>2. file' \in [Path -> Content \cup {Absent}]
    BY <1>t, <1>14, <2>1 DEF TypeOK, Rename, Move
  <2>3. link' \in [Worker -> SUBSET Path]
    <3>1. \A v \in Worker : link'[v] = {final[w]} \/ link'[v] = link[v] \ {final[w]}
      BY <1>14 DEF Rename, Move
    <3>2. \A v \in Worker : link'[v] \in SUBSET Path
      BY <1>t, <2>1, <3>1 DEF TypeOK
    <3> QED
      BY <1>14, <3>2 DEF Rename, Move
  <2>4. saved' \in [Track -> Path \cup {NoPath}]
    BY <1>t, <1>14, <2>1 DEF TypeOK, Rename
  <2>5. TypeOK'
    BY <1>t, <1>14, <2>2, <2>3, <2>4 DEF TypeOK, Rename, Goto, PlaceOf, locals
  <2>6. (\A v \in Worker : Placed(v)') /\ OneEach'
    BY <1>14, StillPlaced DEF Rename, Goto, PlaceOf, locals
  <2> QED
    BY <2>5, <2>6 DEF Typing
<1>15. ASSUME NEW w \in Worker, RenameFails(w) PROVE Typing'
  BY <1>5, <1>15 DEF RenameFails, PlaceOf, locals
<1>16. ASSUME NEW w \in Worker, Discard(w) PROVE Typing'
  <2>1. TmpOf(w) \in Path
    BY <1>16, OwnFile DEF Discard
  <2>2. link \in [Worker -> SUBSET Path]
    BY <1>t DEF TypeOK
  <2>3. file' \in [Path -> Content \cup {Absent}] /\ link' \in [Worker -> SUBSET Path]
    BY <1>16, <2>1, <2>2, RemoveTypes DEF Discard
  <2>4. TypeOK'
    BY <1>t, <1>16, <2>3, RetryTypes DEF TypeOK, Discard
  <2>5. (\A v \in Worker : Placed(v)') /\ OneEach'
    BY <1>16, RetryPlaced DEF Discard
  <2> QED
    BY <2>4, <2>5 DEF Typing
<1>17. ASSUME NEW w \in Worker, Tag(w) PROVE Typing'
  <2>1. TypeOK'
    BY <1>t, <1>17 DEF Typing, Placed, TypeOK, Tag, Goto, PlaceOf, Outcomes, locals
  <2>2. (\A v \in Worker : Placed(v)') /\ OneEach'
    BY <1>17, StillPlaced DEF Tag, Goto, PlaceOf, locals
  <2> QED
    BY <2>1, <2>2 DEF Typing
<1> QED
  BY <1>0, <1>1, <1>2, <1>3, <1>4, <1>6, <1>7, <1>8, <1>9, <1>10, <1>11, <1>12, <1>13,
     <1>14, <1>15, <1>16, <1>17, <1>18 DEF Step

LEMMA NextTyping == Typing /\ Named /\ [Next]_vars => Typing'
  BY StutterTyping, StepTyping DEF Next, given

\* Steps that lead elsewhere, or nowhere, leave the names in place.
LEMMA StillNamed ==
  ASSUME Typing, Named, NEW w \in Worker, UNCHANGED <<sniffed, final>>, nameOf' = nameOf,
         \/ UNCHANGED <<pc, track>>
         \/ /\ \E place \in PlaceOf \ {"name", "rename"} : pc' = [pc EXCEPT ![w] = place]
            /\ \A v \in Worker \ {w} : track'[v] = track[v]
  PROVE  Named'
  BY DEF Typing, TypeOK, Named

LEMMA RetryNamed ==
  ASSUME Typing, Named, NEW w \in Worker, RetryOrFail(w), UNCHANGED <<track, sniffed, final>>,
         nameOf' = nameOf
  PROVE  Named'
<1>1. \E place \in PlaceOf \ {"name", "rename"} : pc' = [pc EXCEPT ![w] = place]
  BY DEF RetryOrFail, Goto, PlaceOf
<1> QED
  BY <1>1, StillNamed

LEMMA StepNamed ==
  ASSUME Typing, Named, nameOf' = nameOf, NEW x \in Worker, Step(x)
  PROVE  Named'
<1>0. ASSUME NEW w \in Worker, NEW t \in Track, NoMetadata(w, t) PROVE Named'
  BY <1>0, StillNamed DEF NoMetadata, locals
<1>1. ASSUME NEW w \in Worker, NEW t \in Track, BuildOutPath(w, t) PROVE Named'
  <2>1. \A v \in Worker \ {w} : track'[v] = track[v]
    BY <1>1 DEF Typing, TypeOK, BuildOutPath
  <2> QED
    BY <1>1, <2>1, StillNamed DEF BuildOutPath, Goto, PlaceOf
<1>2. ASSUME NEW w \in Worker, LookUp(w) PROVE Named'
  <2>1. CASE Goto(w, "open")
    BY <1>2, <2>1, StillNamed DEF LookUp, Goto, PlaceOf
  <2>2. CASE RetryOrFail(w)
    BY <1>2, <2>2, RetryNamed DEF LookUp
  <2> QED
    BY <1>2, <2>1, <2>2 DEF LookUp
<1>3. ASSUME NEW w \in Worker, Discard(w) PROVE Named'
  BY <1>3, RetryNamed DEF Discard
<1>4. ASSUME NEW w \in Worker, Write(w) \/ WriteLost(w) PROVE Named'
  BY <1>4, StillNamed DEF Write, WriteLost
<1>5. ASSUME NEW w \in Worker, Open(w) \/ OpenFails(w) PROVE Named'
  BY <1>5, StillNamed DEF Open, OpenFails, Goto, PlaceOf, locals
<1>6. ASSUME NEW w \in Worker,
             \/ TransferEnds(w) \/ LastBytesLost(w) \/ TransferBreaks(w)
             \/ NoLength(w) \/ TransferFails(w)
      PROVE Named'
  BY <1>6, StillNamed
     DEF TransferEnds, LastBytesLost, TransferBreaks, NoLength, TransferFails, Goto, PlaceOf, locals
<1>7. ASSUME NEW w \in Worker, Reject(w) \/ Rename(w) \/ RenameFails(w) \/ Tag(w) PROVE Named'
  BY <1>7, StillNamed DEF Reject, Rename, RenameFails, Tag, Goto, PlaceOf, locals
<1>8. ASSUME NEW w \in Worker, Sniff(w) PROVE Named'
  BY <1>8 DEF Typing, TypeOK, Named, Sniff, Goto
<1>9. ASSUME NEW w \in Worker, ChooseFinal(w) PROVE Named'
  <2>1. fallback[w] \in FirstPath /\ sniffed[w] \in Media /\ fallback[w].name = nameOf[track[w]]
    BY <1>9 DEF Typing, Placed, Named, ChooseFinal
  <2>2. PICK q \in Path : /\ final' = [final EXCEPT ![w] = q]
                          /\ q.tmp = FALSE /\ q.ext = sniffed[w]
                          /\ q.name = fallback[w].name
    BY <1>9, <2>1, FinalPath
  <2> QED
    BY <1>9, <2>1, <2>2 DEF Typing, TypeOK, Named, ChooseFinal, Goto
<1> QED
  BY <1>0, <1>1, <1>2, <1>3, <1>4, <1>5, <1>6, <1>7, <1>8, <1>9 DEF Step

LEMMA NextNamed == Typing /\ Named /\ [Next]_vars => Named'
<1>1. Named /\ UNCHANGED vars => Named'
  BY DEF Named, vars, locals, given
<1> QED
  BY <1>1, StepNamed DEF Next, given

\* The output, temporary and final names are paths of the directory and the
\* attempts stay within the retries (download.c:604-739), whatever the names.
THEOREM TypeCorrect == Spec => []TypeOK
<1>1. Init => Typing /\ Named
  BY InitTyping DEF Init, Named
<1>2. Typing /\ Named /\ [Next]_vars => (Typing /\ Named)'
  BY NextTyping, NextNamed
<1>3. Typing => TypeOK
  BY DEF Typing
<1> QED
  BY <1>1, <1>2, <1>3, PTL DEF Spec

------------------------------------------------------------------------------
(* Who has what in hand.                                                   *)

\* A track has a path from the rename on.
Recorded ==
  /\ \A t \in Track :
       /\ outcome[t] = "todo" => saved[t] = NoPath
       /\ outcome[t] = "done" => saved[t] # NoPath
       /\ saved[t] # NoPath =>
            saved[t] \in Path /\ saved[t].tmp = FALSE /\ saved[t].name = nameOf[t]
  /\ \A w \in Worker :
       /\ pc[w] \notin {"idle", "tag"} => saved[track[w]] = NoPath
       /\ pc[w] = "tag" => saved[track[w]] # NoPath

\* A file is open in the transfer only, and goes by the name of the track.
Linked ==
  \A w \in Worker :
    /\ pc[w] # "transfer" => link[w] = {}
    /\ \A p \in link[w] : p.name = nameOf[track[w]]

\* Two workers with one name in hand have been noticed.
Noticed ==
  \A v, w \in Worker :
    v # w /\ pc[v] # "idle" /\ pc[w] # "idle" /\ nameOf[track[v]] = nameOf[track[w]]
      => nameOf[track[w]] \in met

Order == Recorded /\ Linked /\ Noticed

LEMMA NoPathIsNone == NoPath \notin Path
  BY DEF Path, NoPath

\* Steps in the middle of an attempt, or that end it without a song.
LEMMA StillRecorded ==
  ASSUME Typing, Recorded, NEW w \in Worker, pc[w] \notin {"idle", "tag"},
         NEW place \in PlaceOf \ {"tag"}, pc' = [pc EXCEPT ![w] = place],
         nameOf' = nameOf, UNCHANGED <<track, saved>>,
         \/ UNCHANGED outcome
         \/ outcome' = [outcome EXCEPT ![track[w]] = "failed"]
  PROVE  Recorded'
  BY DEF Typing, TypeOK, Placed, Recorded

LEMMA RetryRecorded ==
  ASSUME Typing, Recorded, NEW w \in Worker, pc[w] \notin {"idle", "tag"}, RetryOrFail(w),
         nameOf' = nameOf, UNCHANGED <<track, saved>>
  PROVE  Recorded'
<1>1. CASE Goto(w, "lookup") /\ UNCHANGED outcome
  BY <1>1, StillRecorded DEF Goto, PlaceOf
<1>2. CASE outcome' = [outcome EXCEPT ![track[w]] = "failed"] /\ Goto(w, "idle")
  BY <1>2, StillRecorded DEF Goto, PlaceOf
<1> QED
  BY <1>1, <1>2 DEF RetryOrFail

LEMMA StepRecorded ==
  ASSUME Typing, Named, Recorded, nameOf' = nameOf, NEW x \in Worker, Step(x)
  PROVE  Recorded'
<1>t. TypeOK
  BY DEF Typing
<1>1. ASSUME NEW w \in Worker, NEW t \in Track, NoMetadata(w, t) PROVE Recorded'
  <2>1. /\ outcome[t] = "todo" /\ outcome' = [outcome EXCEPT ![t] = "failed"]
        /\ pc' = pc /\ track' = track /\ saved' = saved
    BY <1>1 DEF NoMetadata, locals
  <2> QED
    BY <1>t, <2>1 DEF TypeOK, Recorded
<1>2. ASSUME NEW w \in Worker, NEW t \in Track, BuildOutPath(w, t) PROVE Recorded'
  <2>1. /\ outcome[t] = "todo" /\ outcome' = [outcome EXCEPT ![t] = "busy"]
        /\ pc' = [pc EXCEPT ![w] = "lookup"] /\ track' = [track EXCEPT ![w] = t]
        /\ saved' = saved
    BY <1>2 DEF BuildOutPath, Goto
  <2>2. saved[t] = NoPath
    BY <2>1 DEF Recorded
  <2> QED
    BY <1>t, <2>1, <2>2 DEF TypeOK, Recorded
<1>3. ASSUME NEW w \in Worker, LookUp(w) PROVE Recorded'
  <2>1. CASE Goto(w, "open") /\ UNCHANGED outcome
    BY <1>3, <2>1, StillRecorded DEF LookUp, Goto, PlaceOf
  <2>2. CASE RetryOrFail(w)
    BY <1>3, <2>2, RetryRecorded DEF LookUp
  <2> QED
    BY <1>3, <2>1, <2>2 DEF LookUp
<1>4. ASSUME NEW w \in Worker, Discard(w) PROVE Recorded'
  BY <1>4, RetryRecorded DEF Discard
<1>5. ASSUME NEW w \in Worker, Write(w) \/ WriteLost(w) PROVE Recorded'
  <2>1. pc' = pc /\ track' = track /\ saved' = saved /\ outcome' = outcome
    BY <1>5 DEF Write, WriteLost
  <2> QED
    BY <2>1 DEF Recorded
<1>6. ASSUME NEW w \in Worker, Open(w) \/ OpenFails(w) PROVE Recorded'
  BY <1>6, StillRecorded DEF Open, OpenFails, Goto, PlaceOf, locals
<1>7. ASSUME NEW w \in Worker,
             \/ TransferEnds(w) \/ LastBytesLost(w) \/ TransferBreaks(w)
             \/ NoLength(w) \/ TransferFails(w)
      PROVE Recorded'
  BY <1>7, StillRecorded
     DEF TransferEnds, LastBytesLost, TransferBreaks, NoLength, TransferFails, Goto, PlaceOf, locals
<1>8. ASSUME NEW w \in Worker, Sniff(w) \/ Reject(w) \/ ChooseFinal(w) \/ RenameFails(w)
      PROVE Recorded'
  BY <1>8, StillRecorded DEF Sniff, Reject, ChooseFinal, RenameFails, Goto, PlaceOf, locals
<1>9. ASSUME NEW w \in Worker, Rename(w) PROVE Recorded'
  <2>1. /\ final[w] \in Path /\ final[w].tmp = FALSE /\ final[w].name = nameOf[track[w]]
        /\ track[w] \in Track /\ outcome[track[w]] = "busy"
    BY <1>9 DEF Rename, Named, Typing, Placed
  <2>2. /\ pc[w] = "rename" /\ pc' = [pc EXCEPT ![w] = "tag"]
        /\ saved' = [saved EXCEPT ![track[w]] = final[w]]
        /\ track' = track /\ outcome' = outcome
    BY <1>9 DEF Rename, Goto, locals
  <2>3. \A v \in Worker \ {w} : pc[v] # "idle" => track[v] # track[w]
    BY <2>2 DEF Typing, OneEach
  <2>4. ASSUME NEW t \in Track
        PROVE  /\ outcome'[t] = "todo" => saved'[t] = NoPath
               /\ outcome'[t] = "done" => saved'[t] # NoPath
               /\ saved'[t] # NoPath =>
                    saved'[t] \in Path /\ saved'[t].tmp = FALSE /\ saved'[t].name = nameOf[t]
    BY <1>t, <2>1, <2>2, NoPathIsNone DEF TypeOK, Recorded
  <2>5. ASSUME NEW v \in Worker
        PROVE  /\ pc'[v] \notin {"idle", "tag"} => saved'[track[v]] = NoPath
               /\ pc'[v] = "tag" => saved'[track[v]] # NoPath
    <3>1. CASE v = w
      BY <1>t, <2>1, <2>2, <3>1, NoPathIsNone DEF TypeOK
    <3>2. CASE v # w
      <4>1. pc'[v] = pc[v] /\ (pc[v] # "idle" => saved'[track[v]] = saved[track[v]])
        BY <1>t, <2>2, <2>3, <3>2 DEF Typing, Placed, TypeOK
      <4> QED
        BY <4>1 DEF Recorded
    <3> QED
      BY <3>1, <3>2
  <2> QED
    BY <2>2, <2>4, <2>5 DEF Recorded
<1>10. ASSUME NEW w \in Worker, Tag(w) PROVE Recorded'
  <2>1. /\ pc[w] = "tag" /\ pc' = [pc EXCEPT ![w] = "idle"]
        /\ outcome' = [outcome EXCEPT ![track[w]] = "done"]
        /\ track' = track /\ saved' = saved
    BY <1>10 DEF Tag, Goto, locals
  <2>2. saved[track[w]] # NoPath /\ outcome[track[w]] = "busy"
    BY <2>1 DEF Recorded, Typing, Placed
  <2> QED
    BY <1>t, <2>1, <2>2 DEF TypeOK, Recorded
<1> QED
  BY <1>1, <1>2, <1>3, <1>4, <1>5, <1>6, <1>7, <1>8, <1>9, <1>10 DEF Step

\* Files are opened, closed, removed and renamed under the worker's own name.
LEMMA StepLinked ==
  ASSUME Typing, Named, Linked, nameOf' = nameOf, windows' = windows, NEW x \in Worker, Step(x)
  PROVE  Linked'
<1>t. TypeOK
  BY DEF Typing
<1>a. ASSUME NEW w \in Worker, pc[w] # "transfer", link' = link,
             \/ pc' = pc /\ track' = track
             \/ /\ \E place \in PlaceOf : pc' = [pc EXCEPT ![w] = place]
                /\ track' = track \/ \E t \in Track : track' = [track EXCEPT ![w] = t]
      PROVE Linked'
  <2>1. link[w] = {}
    BY <1>a DEF Linked
  <2>2. \A v \in Worker : v = w \/ (pc'[v] = pc[v] /\ track'[v] = track[v])
    BY <1>a, <1>t DEF TypeOK
  <2> QED
    BY <1>a, <2>1, <2>2 DEF Linked
<1>b. ASSUME NEW w \in Worker, link' = [link EXCEPT ![w] = {}], track' = track,
             \E place \in PlaceOf : pc' = [pc EXCEPT ![w] = place]
      PROVE Linked'
  BY <1>b, <1>t DEF TypeOK, Linked
<1>r. ASSUME RetryOrFail(x)
      PROVE \E place \in PlaceOf : pc' = [pc EXCEPT ![x] = place]
  BY <1>r DEF RetryOrFail, Goto, PlaceOf
<1>1. CASE \E t \in Track : NoMetadata(x, t)
  BY <1>1, <1>a DEF NoMetadata, locals
<1>2. CASE \E t \in Track : BuildOutPath(x, t)
  BY <1>2, <1>a DEF BuildOutPath, Goto, PlaceOf
<1>3. CASE LookUp(x)
  <2>1. pc[x] = "lookup" /\ link' = link /\ track' = track
    BY <1>3 DEF LookUp
  <2>2. \E place \in PlaceOf : pc' = [pc EXCEPT ![x] = place]
    BY <1>3, <1>r DEF LookUp, Goto, PlaceOf
  <2> QED
    BY <1>a, <2>1, <2>2
<1>4. CASE Open(x)
  <2>1. TmpOf(x).name = nameOf[track[x]]
    BY <1>4, OwnFile DEF Open
  <2>2. /\ link' = [link EXCEPT ![x] = {TmpOf(x)}] /\ track' = track
        /\ pc' = [pc EXCEPT ![x] = "transfer"]
    BY <1>4 DEF Open, Goto
  <2> QED
    BY <1>t, <2>1, <2>2 DEF TypeOK, Linked
<1>5. CASE OpenFails(x) \/ Reject(x) \/ RenameFails(x) \/ Tag(x)
  <2>1. pc[x] # "transfer" /\ link' = link /\ track' = track
    BY <1>5 DEF OpenFails, Reject, RenameFails, Tag, locals
  <2>2. \E place \in PlaceOf : pc' = [pc EXCEPT ![x] = place]
    BY <1>5 DEF OpenFails, Reject, RenameFails, Tag, Goto, PlaceOf
  <2> QED
    BY <1>a, <2>1, <2>2
<1>6. CASE Write(x) \/ WriteLost(x)
  <2>1. pc' = pc /\ track' = track /\ link' = link
    BY <1>6 DEF Write, WriteLost
  <2> QED
    BY <2>1 DEF Linked
<1>7. CASE TransferEnds(x) \/ LastBytesLost(x) \/ TransferBreaks(x) \/ NoLength(x)
  <2>1. link' = [link EXCEPT ![x] = {}] /\ track' = track
    BY <1>7 DEF TransferEnds, LastBytesLost, TransferBreaks, NoLength, Close, locals
  <2>2. \E place \in PlaceOf : pc' = [pc EXCEPT ![x] = place]
    BY <1>7 DEF TransferEnds, LastBytesLost, TransferBreaks, NoLength, Goto, PlaceOf
  <2> QED
    BY <1>b, <2>1, <2>2
<1>8. CASE TransferFails(x)
  <2>1. /\ track' = track /\ pc' = [pc EXCEPT ![x] = "discard"]
        /\ \A v \in Worker : link'[v] \subseteq link[v] /\ (v = x => link'[v] = {})
    BY <1>t, <1>8 DEF TypeOK, TransferFails, Remove, Goto, locals
  <2> QED
    BY <1>t, <2>1 DEF TypeOK, Linked
<1>9. CASE Sniff(x) \/ ChooseFinal(x)
  <2>1. pc[x] # "transfer" /\ link' = link /\ track' = track
    BY <1>9 DEF Sniff, ChooseFinal
  <2>2. \E place \in PlaceOf : pc' = [pc EXCEPT ![x] = place]
    BY <1>9 DEF Sniff, ChooseFinal, Goto, PlaceOf
  <2> QED
    BY <1>a, <2>1, <2>2
<1>10. CASE Rename(x)
  <2>1. TmpOf(x).name = nameOf[track[x]] /\ final[x].name = nameOf[track[x]]
    BY <1>10, OwnFile DEF Rename, Named
  <2>2. /\ pc[x] = "rename" /\ track' = track /\ pc' = [pc EXCEPT ![x] = "tag"]
        /\ link' = [v \in Worker |->
                      IF TmpOf(x) \in link[v] THEN {final[x]} ELSE link[v] \ {final[x]}]
    BY <1>10 DEF Rename, Move, Goto, locals
  <2>3. link[x] = {}
    BY <2>2 DEF Linked
  <2>4. ASSUME NEW v \in Worker
        PROVE  /\ pc'[v] # "transfer" => link'[v] = {}
               /\ \A p \in link'[v] : p.name = nameOf[track[v]]
    <3>1. pc'[v] # "transfer" => link[v] = {}
      BY <1>t, <2>2, <2>3 DEF TypeOK, Linked
    <3>2. \A p \in link[v] : p.name = nameOf[track[v]]
      BY DEF Linked
    <3> QED
      BY <2>1, <2>2, <3>1, <3>2
  <2> QED
    BY <2>2, <2>4 DEF Linked
<1>11. CASE Discard(x)
  <2>1. pc[x] = "discard" /\ track' = track /\ RetryOrFail(x)
        /\ \A v \in Worker : link'[v] \subseteq link[v]
    BY <1>11, <1>t DEF TypeOK, Discard, Remove
  <2>2. PICK place \in PlaceOf : pc' = [pc EXCEPT ![x] = place]
    BY <2>1, <1>r
  <2>3. link[x] = {}
    BY <2>1 DEF Linked
  <2> QED
    BY <1>t, <2>1, <2>2, <2>3 DEF TypeOK, Linked
<1> QED
  BY <1>1, <1>2, <1>3, <1>4, <1>5, <1>6, <1>7, <1>8, <1>9, <1>10, <1>11 DEF Step

LEMMA StepNoticed ==
  ASSUME Typing, Noticed, nameOf' = nameOf, NEW x \in Worker, Step(x)
  PROVE  Noticed'
<1>t. TypeOK
  BY DEF Typing
<1>1. ASSUME NEW t \in Track, BuildOutPath(x, t) PROVE Noticed'
  <2>1. /\ pc[x] = "idle" /\ track' = [track EXCEPT ![x] = t]
        /\ pc' = [pc EXCEPT ![x] = "lookup"]
        /\ met' = IF \E v \in Worker : pc[v] # "idle" /\ nameOf[track[v]] = nameOf[t]
                  THEN met \cup {nameOf[t]} ELSE met
    BY <1>1 DEF BuildOutPath, Goto
  <2>2. \A v \in Worker \ {x} : pc'[v] = pc[v] /\ track'[v] = track[v]
    BY <1>t, <2>1 DEF TypeOK
  <2>3. track'[x] = t
    BY <1>t, <2>1 DEF TypeOK
  <2>4. \A v \in Worker \ {x} : pc[v] # "idle" /\ nameOf[track[v]] = nameOf[t] => nameOf[t] \in met'
    BY <2>1
  <2>5. met \subseteq met'
    BY <2>1
  <2> QED
    BY <2>2, <2>3, <2>4, <2>5 DEF Noticed
<1>2. CASE ~\E t \in Track : BuildOutPath(x, t)
  <2>1. track' = track /\ met' = met /\ (pc[x] # "idle" \/ pc' = pc)
    BY <1>2 DEF Step, NoMetadata, LookUp, Open, OpenFails, Write, WriteLost, TransferEnds,
                LastBytesLost, TransferBreaks, NoLength, TransferFails, Sniff, Reject,
                ChooseFinal, Rename, RenameFails, Discard, Tag, locals
  <2>2. pc' = pc \/ \E place \in PlaceOf : pc' = [pc EXCEPT ![x] = place]
    BY <1>2 DEF Step, NoMetadata, LookUp, Open, OpenFails, Write, WriteLost, TransferEnds,
                LastBytesLost, TransferBreaks, NoLength, TransferFails, Sniff, Reject,
                ChooseFinal, Rename, RenameFails, Discard, Tag, RetryOrFail, Goto, PlaceOf
  <2> QED
    BY <1>t, <2>1, <2>2 DEF TypeOK, Noticed
<1> QED
  BY <1>1, <1>2

LEMMA NextOrder == Typing /\ Named /\ Order /\ [Next]_vars => Order'
<1>1. Order /\ UNCHANGED vars => Order'
  BY DEF Order, Recorded, Linked, Noticed, vars, locals, given
<1>2. ASSUME Typing, Named, Order, nameOf' = nameOf, windows' = windows,
             NEW w \in Worker, Step(w)
      PROVE  Order'
  BY <1>2, StepRecorded, StepLinked, StepNoticed DEF Order
<1> QED
  BY <1>1, <1>2 DEF Next, given

LEMMA InitOrder == Init => Order
  BY DEF Init, Order, Recorded, Linked, Noticed

------------------------------------------------------------------------------
(* The files of names that two workers never had in hand at once.          *)

\* The temporary file of a worker at each stage: in the transfer, what it has put
\* there; after it, all of the track but for what was lost, if it begins as media
\* at all; and what was sniffed.
Partial(w) ==
  /\ file[TmpOf(w)] \in Content
  /\ \A i \in 1 .. Parts :
       \/ i <= pos[w] /\ file[TmpOf(w)][i] = Cell(track[w], answer[w])
       \/ i <= pos[w] /\ file[TmpOf(w)][i] = Hole /\ windows /\ track[w] \in cut
       \/ i > pos[w] /\ file[TmpOf(w)][i] = Hole

Received(w) ==
  Exists(TmpOf(w)) =>
    /\ file[TmpOf(w)] \in Content
    /\ file[TmpOf(w)][1].kind \in Media =>
         IsWhole(file[TmpOf(w)], track[w], file[TmpOf(w)][1].kind)

Accepted(w) ==
  /\ file[TmpOf(w)] \in Content
  /\ file[TmpOf(w)][1].kind = sniffed[w]
  /\ IsWhole(file[TmpOf(w)], track[w], sniffed[w])

Unbegun(w) == ~Exists(TmpOf(w)) \/ file[TmpOf(w)] = Old(TmpOf(w).ext)

FileInv(w) ==
  pc[w] # "idle" /\ nameOf[track[w]] \notin met =>
    /\ pc[w] \in {"lookup", "open"} => Unbegun(w)
    /\ pc[w] = "transfer" => Partial(w) /\ link[w] = {TmpOf(w)}
    /\ pc[w] = "sniff" => Received(w)
    /\ pc[w] \in {"name", "rename"} => Accepted(w)
    /\ pc[w] = "rename" => ~Exists(final[w]) \/ LastName(final[w])
    /\ pc[w] = "tag" => ~Exists(TmpOf(w))

SavedInv(t) ==
  saved[t] # NoPath /\ nameOf[t] \notin met =>
    \/ file[saved[t]] \in Content /\ IsWhole(file[saved[t]], t, saved[t].ext)
    \/ \E u \in Track \ {t} : saved[u] = saved[t]

FilesInv ==
  /\ \A w \in Worker : FileInv(w)
  /\ \A t \in Track : SavedInv(t)
  /\ NamesTellTypes
  /\ NothingLeftBehind

\* The step concerns w and t: workers and tracks with other names see nothing of it.
Concerns(w, t) ==
  /\ pc[w] # "idle" => track[w] = t
  /\ pc'[w] # "idle" => track'[w] = t
  /\ nameOf' = nameOf /\ windows' = windows /\ met \subseteq met'
  /\ saved[t] # NoPath => saved'[t] = saved[t]
  /\ \A v \in Worker \ {w} :
       /\ pc[v] # "idle" => track[v] # t
       /\ pc'[v] = pc[v] /\ track'[v] = track[v] /\ fallback'[v] = fallback[v]
       /\ answer'[v] = answer[v] /\ pos'[v] = pos[v] /\ sniffed'[v] = sniffed[v]
       /\ final'[v] = final[v]
       /\ nameOf[track[v]] # nameOf[t] => link'[v] = link[v]
  /\ \A u \in Track \ {t} :
       /\ saved'[u] = saved[u] /\ outcome'[u] = outcome[u]
       /\ (u \in cut') = (u \in cut)
  /\ \A p \in Path : p.name # nameOf[t] => file'[p] = file[p]

\* Nobody else has the name of t in hand, now or after the step.
Alone(w, t) ==
  /\ nameOf[t] \notin met /\ nameOf[t] \notin met'
  /\ \A v \in Worker \ {w} : pc[v] # "idle" => nameOf[track[v]] # nameOf[t]

LEMMA ContentPresent == \A c \in Content : c # Absent
  BY DEF Content, Absent

LEMMA ConcernsRefused ==
  ASSUME Typing, nameOf' = nameOf, windows' = windows,
         NEW w \in Worker, NEW t \in Track, NoMetadata(w, t)
  PROVE  Concerns(w, t)
<1>1. /\ pc[w] = "idle" /\ outcome[t] = "todo" /\ outcome' = [outcome EXCEPT ![t] = "failed"]
      /\ file' = file /\ link' = link /\ pc' = pc /\ track' = track /\ fallback' = fallback
      /\ answer' = answer /\ pos' = pos /\ sniffed' = sniffed /\ final' = final
      /\ saved' = saved /\ cut' = cut /\ met' = met
  BY DEF NoMetadata, locals
<1>2. \A u \in Track \ {t} : outcome'[u] = outcome[u]
  BY <1>1 DEF Typing, TypeOK
<1>3. \A v \in Worker : pc[v] # "idle" => track[v] # t
  BY <1>1 DEF Typing, Placed
<1> QED
  BY <1>1, <1>2, <1>3 DEF Concerns

LEMMA ConcernsBuild ==
  ASSUME Typing, nameOf' = nameOf, windows' = windows,
         NEW w \in Worker, NEW t \in Track, BuildOutPath(w, t)
  PROVE  Concerns(w, t)
<1>t. TypeOK
  BY DEF Typing
<1>1. /\ pc[w] = "idle" /\ outcome[t] = "todo" /\ outcome' = [outcome EXCEPT ![t] = "busy"]
      /\ pc' = [pc EXCEPT ![w] = "lookup"] /\ track' = [track EXCEPT ![w] = t]
      /\ file' = file /\ link' = link /\ answer' = answer /\ pos' = pos
      /\ sniffed' = sniffed /\ final' = final /\ saved' = saved /\ cut' = cut
      /\ met \subseteq met'
  BY DEF BuildOutPath, Goto
<1>2. PICK p : fallback' = [fallback EXCEPT ![w] = p]
  BY DEF BuildOutPath
<1>3. \A v \in Worker : pc[v] # "idle" => track[v] # t
  BY <1>1 DEF Typing, Placed
<1>4. /\ track'[w] = t
      /\ \A v \in Worker \ {w} : pc'[v] = pc[v] /\ track'[v] = track[v] /\ fallback'[v] = fallback[v]
      /\ \A u \in Track \ {t} : outcome'[u] = outcome[u]
  BY <1>t, <1>1, <1>2 DEF TypeOK
<1> QED
  BY <1>1, <1>3, <1>4 DEF Concerns

\* All the steps after that stay with the worker's own track and file.
LEMMA ConcernsBusy ==
  ASSUME Typing, Named, Order, nameOf' = nameOf, windows' = windows,
         NEW w \in Worker, pc[w] # "idle", Step(w)
  PROVE  Concerns(w, track[w])
<1>t. TypeOK
  BY DEF Typing
<1>0. PICK t \in Track : t = track[w]
  BY DEF Typing, Placed
<1>1. PICK q \in Path : q = TmpOf(w) /\ q.name = nameOf[t]
  BY <1>0, OwnFile
<1>2. \A v \in Worker \ {w} : pc[v] # "idle" => track[v] # t
  BY <1>0 DEF Typing, OneEach
<1>3. ~\E u \in Track : NoMetadata(w, u) \/ BuildOutPath(w, u)
  BY DEF NoMetadata, BuildOutPath
<1>4. track' = track /\ fallback' = fallback /\ met' = met
  BY <1>3 DEF Step, LookUp, Open, OpenFails, Write, WriteLost, TransferEnds,
              LastBytesLost, TransferBreaks, NoLength, TransferFails, Sniff, Reject,
              ChooseFinal, Rename, RenameFails, Discard, Tag, locals
<1>5. \A v \in Worker \ {w} : pc'[v] = pc[v]
  <2>1. pc' = pc \/ \E place \in PlaceOf : pc' = [pc EXCEPT ![w] = place]
    BY <1>3 DEF Step, LookUp, Open, OpenFails, Write, WriteLost, TransferEnds,
                LastBytesLost, TransferBreaks, NoLength, TransferFails, Sniff, Reject,
                ChooseFinal, Rename, RenameFails, Discard, Tag, RetryOrFail, Goto, PlaceOf
  <2> QED
    BY <1>t, <2>1 DEF TypeOK
<1>6. \A u \in Track \ {t} : outcome'[u] = outcome[u]
  <2>1. outcome' = outcome \/ \E o \in Outcomes : outcome' = [outcome EXCEPT ![t] = o]
    BY <1>0, <1>3 DEF Step, LookUp, Open, OpenFails, Write, WriteLost, TransferEnds,
                LastBytesLost, TransferBreaks, NoLength, TransferFails, Sniff, Reject,
                ChooseFinal, Rename, RenameFails, Discard, Tag, RetryOrFail, Outcomes, locals
  <2> QED
    BY <1>t, <2>1 DEF TypeOK
<1>7. \A u \in Track \ {t} : (u \in cut') = (u \in cut)
  <2>1. cut' = cut \/ cut' = cut \cup {t} \/ cut' = cut \ {t}
    BY <1>0, <1>3 DEF Step, LookUp, Open, OpenFails, Write, WriteLost, TransferEnds,
                LastBytesLost, TransferBreaks, NoLength, TransferFails, Sniff, Reject,
                ChooseFinal, Rename, RenameFails, Discard, Tag
  <2> QED
    BY <2>1
<1>8. \A v \in Worker \ {w} : answer'[v] = answer[v] /\ pos'[v] = pos[v]
  <2>1. answer' = answer \/ \E k \in Kind : answer' = [answer EXCEPT ![w] = k]
    BY <1>3 DEF Step, LookUp, Open, OpenFails, Write, WriteLost, TransferEnds,
                LastBytesLost, TransferBreaks, NoLength, TransferFails, Sniff, Reject,
                ChooseFinal, Rename, RenameFails, Discard, Tag, locals
  <2>2. pos' = pos \/ \E n : pos' = [pos EXCEPT ![w] = n]
    BY <1>3 DEF Step, LookUp, Open, OpenFails, Write, WriteLost, TransferEnds,
                LastBytesLost, TransferBreaks, NoLength, TransferFails, Sniff, Reject,
                ChooseFinal, Rename, RenameFails, Discard, Tag, locals
  <2> QED
    BY <1>t, <2>1, <2>2 DEF TypeOK
<1>9. \A v \in Worker \ {w} : sniffed'[v] = sniffed[v] /\ final'[v] = final[v]
  <2>1. sniffed' = sniffed \/ \E k : sniffed' = [sniffed EXCEPT ![w] = k]
    BY <1>3 DEF Step, LookUp, Open, OpenFails, Write, WriteLost, TransferEnds,
                LastBytesLost, TransferBreaks, NoLength, TransferFails, Sniff, Reject,
                ChooseFinal, Rename, RenameFails, Discard, Tag, locals
  <2>2. final' = final \/ \E f : final' = [final EXCEPT ![w] = f]
    BY <1>3 DEF Step, LookUp, Open, OpenFails, Write, WriteLost, TransferEnds,
                LastBytesLost, TransferBreaks, NoLength, TransferFails, Sniff, Reject,
                ChooseFinal, Rename, RenameFails, Discard, Tag, locals
  <2> QED
    BY <1>t, <2>1, <2>2 DEF TypeOK
<1>10. /\ \A u \in Track \ {t} : saved'[u] = saved[u]
       /\ saved[t] # NoPath => saved'[t] = saved[t]
  <2>1. CASE Rename(w)
    <3>1. saved[t] = NoPath /\ saved' = [saved EXCEPT ![t] = final[w]]
      BY <1>0, <2>1 DEF Rename, Order, Recorded
    <3> QED
      BY <1>t, <3>1 DEF TypeOK
  <2>2. CASE ~Rename(w)
    <3>1. saved' = saved
      BY <1>3, <2>2 DEF Step, LookUp, Open, OpenFails, Write, WriteLost, TransferEnds,
                LastBytesLost, TransferBreaks, NoLength, TransferFails, Sniff, Reject,
                ChooseFinal, RenameFails, Discard, Tag
    <3> QED
      BY <3>1
  <2> QED
    BY <2>1, <2>2
<1>11. ASSUME NEW v \in Worker \ {w}, nameOf[track[v]] # nameOf[t] PROVE link'[v] = link[v]
  <2>0. \A p \in link[v] : p.name # nameOf[t]
    BY <1>11 DEF Order, Linked
  <2>1. q \notin link[v]
    BY <1>1, <2>0
  <2>2. CASE TransferFails(w) \/ Discard(w)
    <3>1. PICK open \in [Worker -> SUBSET Path] : Remove(q, open) /\ open[v] = link[v]
      <4>1. CASE TransferFails(w)
        <5>1. [link EXCEPT ![w] = {}] \in [Worker -> SUBSET Path]
              /\ [link EXCEPT ![w] = {}][v] = link[v]
          BY <1>t DEF TypeOK
        <5>2. Remove(q, [link EXCEPT ![w] = {}])
          BY <1>1, <4>1 DEF TransferFails
        <5> QED
          BY <5>1, <5>2
      <4>2. CASE Discard(w)
        BY <1>t, <1>1, <4>2 DEF TypeOK, Discard
      <4> QED
        BY <2>2, <4>1, <4>2
    <3>2. link'[v] = open[v] \/ link'[v] = open[v] \ {q}
      BY <3>1 DEF Remove
    <3> QED
      BY <2>1, <3>1, <3>2
  <2>3. CASE Rename(w)
    <3>1. final[w].name = nameOf[t]
      BY <1>0, <2>3 DEF Named, Rename
    <3>2. final[w] \notin link[v]
      BY <2>0, <3>1
    <3>3. link'[v] = IF q \in link[v] THEN {final[w]} ELSE link[v] \ {final[w]}
      BY <1>1, <2>3 DEF Rename, Move
    <3> QED
      BY <2>1, <3>2, <3>3
  <2>4. CASE ~(TransferFails(w) \/ Discard(w) \/ Rename(w))
    <3>1. link' = link \/ \E f : link' = [link EXCEPT ![w] = f]
      BY <1>3, <2>4 DEF Step, LookUp, Open, OpenFails, Write, WriteLost, TransferEnds,
                LastBytesLost, TransferBreaks, NoLength, Sniff, Reject,
                ChooseFinal, RenameFails, Tag, Close
    <3> QED
      BY <1>t, <3>1 DEF TypeOK
  <2> QED
    BY <2>2, <2>3, <2>4
<1>12. ASSUME NEW p \in Path, p.name # nameOf[t] PROVE file'[p] = file[p]
  <2>1. p # q
    BY <1>1, <1>12
  <2>2. CASE TransferFails(w) \/ Discard(w)
    <3>1. \E open : Remove(q, open)
      BY <1>1, <2>2 DEF TransferFails, Discard
    <3> QED
      BY <1>t, <2>1, <3>1 DEF TypeOK, Remove
  <2>3. CASE Rename(w)
    <3>1. final[w].name = nameOf[t]
      BY <1>0, <2>3 DEF Named, Rename
    <3>2. file' = [file EXCEPT ![q] = Absent, ![final[w]] = file[q]] /\ p # final[w]
      BY <1>1, <1>12, <2>3, <3>1 DEF Rename, Move
    <3> QED
      BY <1>t, <2>1, <3>2 DEF TypeOK
  <2>4. CASE Write(w)
    <3>1. p \notin link[w]
      BY <1>0, <1>12 DEF Order, Linked
    <3> QED
      BY <2>4, <3>1 DEF Write
  <2>5. CASE Open(w)
    BY <1>t, <1>1, <2>1, <2>5 DEF TypeOK, Open
  <2>6. CASE ~(TransferFails(w) \/ Discard(w) \/ Rename(w) \/ Write(w) \/ Open(w))
    BY <1>3, <2>6 DEF Step, LookUp, OpenFails, WriteLost, TransferEnds, LastBytesLost,
              TransferBreaks, NoLength, Sniff, Reject, ChooseFinal, RenameFails, Tag
  <2> QED
    BY <2>2, <2>3, <2>4, <2>5, <2>6
<1> QED
  BY <1>0, <1>2, <1>4, <1>5, <1>6, <1>7, <1>8, <1>9, <1>10, <1>11, <1>12 DEF Concerns

\* Another worker's files are what they were, if its name is another one.
LEMMA Others ==
  ASSUME Typing, Named, FilesInv, NEW w \in Worker, NEW t \in Track, Concerns(w, t),
         NEW v \in Worker \ {w}, pc[v] # "idle" => nameOf[track[v]] # nameOf[t]
  PROVE  FileInv(v)'
<1> SUFFICES ASSUME pc'[v] # "idle", nameOf'[track'[v]] \notin met' PROVE FileInv(v)'
  BY DEF FileInv
<1>1. /\ pc'[v] = pc[v] /\ track'[v] = track[v] /\ fallback'[v] = fallback[v]
      /\ answer'[v] = answer[v] /\ pos'[v] = pos[v] /\ sniffed'[v] = sniffed[v]
      /\ final'[v] = final[v] /\ TmpOf(v)' = TmpOf(v)
      /\ nameOf' = nameOf /\ windows' = windows
  BY DEF Concerns, TmpOf
<1>2. /\ pc[v] # "idle" /\ nameOf[track[v]] \notin met /\ FileInv(v)
      /\ nameOf[track[v]] # nameOf[t]
  BY <1>1 DEF Concerns, FilesInv
<1>3. TmpOf(v) \in Path /\ TmpOf(v).name = nameOf[track[v]] /\ track[v] \in Track
  BY <1>2, OwnFile DEF Typing, Placed
<1>4. file'[TmpOf(v)] = file[TmpOf(v)] /\ link'[v] = link[v]
      /\ (track[v] \in cut') = (track[v] \in cut)
  BY <1>2, <1>3 DEF Concerns
<1>5. pc[v] = "rename" => file'[final[v]] = file[final[v]]
  BY <1>2 DEF Concerns, Named
<1>6. /\ Partial(v)' = Partial(v) /\ Received(v)' = Received(v)
      /\ Accepted(v)' = Accepted(v) /\ Unbegun(v)' = Unbegun(v)
  BY <1>1, <1>4 DEF Partial, Received, Accepted, Unbegun, IsWhole, Exists
<1> QED
  BY <1>1, <1>2, <1>4, <1>5, <1>6 DEF FileInv, Exists

\* The song of another track is what it was, if its path is another one.
LEMMA OtherSongs ==
  ASSUME FilesInv, Order, NEW w \in Worker, NEW t \in Track, Concerns(w, t),
         NEW u \in Track \ {t}, saved[u] # NoPath => file'[saved[u]] = file[saved[u]]
  PROVE  SavedInv(u)'
<1> SUFFICES ASSUME saved'[u] # NoPath, nameOf'[u] \notin met'
             PROVE  \/ file'[saved'[u]] \in Content /\ IsWhole(file[saved[u]], u, saved[u].ext)'
                    \/ \E x \in Track \ {u} : saved'[x] = saved'[u]
  BY DEF SavedInv
<1>1. /\ saved'[u] = saved[u] /\ (u \in cut') = (u \in cut) /\ windows' = windows
      /\ nameOf[u] \notin met /\ SavedInv(u)
  BY DEF Concerns, FilesInv
<1>2. CASE file[saved[u]] \in Content /\ IsWhole(file[saved[u]], u, saved[u].ext)
  BY <1>1, <1>2 DEF IsWhole
<1>3. CASE \E x \in Track \ {u} : saved[x] = saved[u]
  <2>1. PICK x \in Track \ {u} : saved[x] = saved[u]
    BY <1>3
  <2>2. saved'[x] = saved[x]
    BY <1>1, <2>1 DEF Concerns
  <2> QED
    BY <1>1, <2>1, <2>2
<1> QED
  BY <1>1, <1>2, <1>3 DEF SavedInv

\* Of a name that two workers have in hand nothing is said.
LEMMA MetStep ==
  ASSUME Typing, Named, Order, FilesInv, NEW w \in Worker, NEW t \in Track, Concerns(w, t),
         nameOf[t] \in met'
  PROVE  FilesInv'
<1>0. nameOf' = nameOf /\ met \subseteq met'
  BY DEF Concerns
<1>1. ASSUME NEW v \in Worker PROVE FileInv(v)'
  <2>1. CASE v = w
    BY <1>0, <2>1 DEF Concerns, FileInv
  <2>2. CASE v # w /\ nameOf[track[v]] # nameOf[t]
    BY <2>2, Others
  <2>3. CASE v # w /\ nameOf[track[v]] = nameOf[t]
    BY <1>0, <2>3 DEF Concerns, FileInv
  <2> QED
    BY <2>1, <2>2, <2>3
<1>2. ASSUME NEW u \in Track PROVE SavedInv(u)'
  <2>1. CASE nameOf[u] = nameOf[t]
    BY <1>0, <2>1 DEF SavedInv
  <2>2. CASE nameOf[u] # nameOf[t]
    <3>1. saved[u] # NoPath => file'[saved[u]] = file[saved[u]]
      BY <2>2 DEF Order, Recorded, Concerns
    <3> QED
      BY <2>2, <3>1, OtherSongs
  <2> QED
    BY <2>1, <2>2
<1>3. NamesTellTypes'
  BY <1>0 DEF FilesInv, NamesTellTypes, Exists, Concerns
<1>4. NothingLeftBehind'
  <2> SUFFICES ASSUME NEW p \in Path, Exists(p)', p.name \notin met'
               PROVE  \/ file'[p] = Old(p.ext)
                      \/ p.tmp /\ \E v \in Worker :
                             pc'[v] \in PlaceOf \ {"idle", "tag"} /\ TmpOf(v)' = p
                      \/ ~p.tmp /\ \E u \in Track :
                             outcome'[u] \in {"busy", "done"} /\ saved'[u] = p
    BY DEF NothingLeftBehind
  <2>1. p.name # nameOf[t] /\ p.name \notin met /\ file'[p] = file[p] /\ Exists(p)
    BY <1>0 DEF Concerns, Exists
  <2>2. CASE file[p] = Old(p.ext)
    BY <2>1, <2>2
  <2>3. CASE p.tmp /\ \E v \in Worker :
               pc[v] \in PlaceOf \ {"idle", "tag"} /\ TmpOf(v) = p
    <3>1. PICK v \in Worker : pc[v] \in PlaceOf \ {"idle", "tag"} /\ TmpOf(v) = p
      BY <2>3
    <3>2. p.name = nameOf[track[v]]
      BY <3>1, OwnFile
    <3>3. v # w
      BY <2>1, <3>1, <3>2 DEF Concerns
    <3>4. pc'[v] = pc[v] /\ TmpOf(v)' = TmpOf(v)
      BY <3>3 DEF Concerns, TmpOf
    <3> QED
      BY <2>3, <3>1, <3>4
  <2>4. CASE ~p.tmp /\ \E u \in Track : outcome[u] \in {"busy", "done"} /\ saved[u] = p
    <3>1. PICK u \in Track : outcome[u] \in {"busy", "done"} /\ saved[u] = p
      BY <2>4
    <3>2. p.name = nameOf[u]
      BY <3>1, NoPathIsNone DEF Order, Recorded
    <3>3. outcome'[u] = outcome[u] /\ saved'[u] = saved[u]
      BY <2>1, <3>2 DEF Concerns
    <3> QED
      BY <2>4, <3>1, <3>3
  <2> QED
    BY <2>1, <2>2, <2>3, <2>4 DEF FilesInv, NothingLeftBehind
<1> QED
  BY <1>1, <1>2, <1>3, <1>4 DEF FilesInv

\* A step that touches no file but a temporary one, that of its worker.
LEMMA TmpStep ==
  ASSUME Typing, Named, Order, FilesInv,
         NEW w \in Worker, NEW t \in Track, Concerns(w, t), Alone(w, t),
         FileInv(w)', SavedInv(t)',
         NEW q \in Path, q.tmp = TRUE,
         \A p \in Path : p # q => file'[p] = file[p],
         UNCHANGED saved,
         outcome'[t] \in {"busy", "done"} \/ saved[t] = NoPath,
         pc[w] \notin {"idle", "tag"} => TmpOf(w) = q,
         \/ ~Exists(q)'
         \/ file'[q] = Old(q.ext)
         \/ pc'[w] \in PlaceOf \ {"idle", "tag"} /\ TmpOf(w)' = q
  PROVE  FilesInv'
<1>0. met \subseteq met'
  BY DEF Concerns
<1>1. \A v \in Worker : FileInv(v)'
  BY Others DEF Alone
<1>2. ASSUME NEW u \in Track PROVE SavedInv(u)'
  <2>1. CASE u = t
    BY <2>1
  <2>2. CASE u # t
    <3>1. saved[u] # NoPath => file'[saved[u]] = file[saved[u]]
      BY DEF Order, Recorded
    <3> QED
      BY <2>2, <3>1, OtherSongs
  <2> QED
    BY <2>1, <2>2
<1>3. NamesTellTypes'
  <2>1. \A p \in Path : ~p.tmp => file'[p] = file[p]
    OBVIOUS
  <2> QED
    BY <1>0, <2>1 DEF FilesInv, NamesTellTypes, Exists
<1>4. NothingLeftBehind'
  <2> SUFFICES ASSUME NEW p \in Path, Exists(p)', p.name \notin met'
               PROVE  \/ file'[p] = Old(p.ext)
                      \/ p.tmp /\ \E v \in Worker :
                             pc'[v] \in PlaceOf \ {"idle", "tag"} /\ TmpOf(v)' = p
                      \/ ~p.tmp /\ \E u \in Track :
                             outcome'[u] \in {"busy", "done"} /\ saved'[u] = p
    BY DEF NothingLeftBehind
  <2>1. CASE p = q
    BY <2>1
  <2>2. CASE p # q
    <3>1. file'[p] = file[p] /\ Exists(p) /\ p.name \notin met
      BY <1>0, <2>2 DEF Exists
    <3>2. CASE file[p] = Old(p.ext)
      BY <3>1, <3>2
    <3>3. CASE p.tmp /\ \E v \in Worker :
                 pc[v] \in PlaceOf \ {"idle", "tag"} /\ TmpOf(v) = p
      <4>1. PICK v \in Worker : pc[v] \in PlaceOf \ {"idle", "tag"} /\ TmpOf(v) = p
        BY <3>3
      <4>2. v # w
        BY <2>2, <4>1
      <4>3. pc'[v] = pc[v] /\ TmpOf(v)' = TmpOf(v)
        BY <4>2 DEF Concerns, TmpOf
      <4> QED
        BY <3>3, <4>1, <4>3
    <3>4. CASE ~p.tmp /\ \E u \in Track : outcome[u] \in {"busy", "done"} /\ saved[u] = p
      <4>1. PICK u \in Track : outcome[u] \in {"busy", "done"} /\ saved[u] = p
        BY <3>4
      <4>2. outcome'[u] \in {"busy", "done"}
        BY <4>1, NoPathIsNone DEF Concerns
      <4> QED
        BY <3>4, <4>1, <4>2
    <3> QED
      BY <3>1, <3>2, <3>3, <3>4 DEF FilesInv, NothingLeftBehind
  <2> QED
    BY <2>1, <2>2
<1> QED
  BY <1>1, <1>2, <1>3, <1>4 DEF FilesInv

LEMMA InitFiles == Init => FilesInv
<1> SUFFICES ASSUME Init PROVE FilesInv
  OBVIOUS
<1>1. PICK setting \in Settings :
        file = [p \in Path |-> IF p \in setting.old THEN Old(p.ext) ELSE Absent]
  BY DEF Init
<1>2. (\A w \in Worker : FileInv(w)) /\ (\A t \in Track : SavedInv(t))
  BY DEF Init, FileInv, SavedInv
<1>3. NothingLeftBehind
  BY <1>1 DEF NothingLeftBehind, Exists
<1>4. \A p \in Path : Old(p.ext)[1].kind = p.ext
  BY DEF Old, Cell
<1>5. NamesTellTypes
  BY <1>1, <1>4 DEF NamesTellTypes, Exists
<1> QED
  BY <1>2, <1>3, <1>5 DEF FilesInv

\* The worker is in download_track with track t and temporary file q, takes a step
\* of it, and has the name for itself.
InHand(w, t, q) ==
  /\ pc[w] # "idle" /\ t = track[w] /\ outcome[t] = "busy"
  /\ q = TmpOf(w) /\ q.tmp = TRUE /\ q.name = nameOf[t]
  /\ track' = track /\ fallback' = fallback /\ TmpOf(w)' = q
  /\ nameOf' = nameOf /\ windows' = windows /\ met' = met
  /\ Concerns(w, t) /\ Alone(w, t)

LEMMA HasInHand ==
  ASSUME Typing, Named, Order, nameOf' = nameOf, windows' = windows,
         NEW w \in Worker, pc[w] # "idle", Step(w), nameOf[track[w]] \notin met
  PROVE  \E t \in Track, q \in Path : InHand(w, t, q)
<1>1. TmpOf(w) \in Path /\ TmpOf(w).tmp = TRUE /\ TmpOf(w).name = nameOf[track[w]]
  BY OwnFile
<1>2. track[w] \in Track /\ outcome[track[w]] = "busy"
  BY DEF Typing, Placed
<1>3. Concerns(w, track[w])
  BY ConcernsBusy
<1>4. ~\E u \in Track : NoMetadata(w, u) \/ BuildOutPath(w, u)
  BY DEF NoMetadata, BuildOutPath
<1>5. track' = track /\ fallback' = fallback /\ met' = met
  BY <1>4 DEF Step, LookUp, Open, OpenFails, Write, WriteLost, TransferEnds,
              LastBytesLost, TransferBreaks, NoLength, TransferFails, Sniff, Reject,
              ChooseFinal, Rename, RenameFails, Discard, Tag, locals
<1>6. TmpOf(w)' = TmpOf(w)
  BY <1>5 DEF TmpOf
<1>7. Alone(w, track[w])
  BY <1>5 DEF Order, Noticed, Alone
<1>8. InHand(w, track[w], TmpOf(w))
  BY <1>1, <1>2, <1>3, <1>5, <1>6, <1>7 DEF InHand
<1> QED
  BY <1>1, <1>2, <1>8

\* No other worker has a file of that name open.
LEMMA NotOpenElsewhere ==
  ASSUME Order, NEW w \in Worker, NEW t \in Track, NEW q \in Path, InHand(w, t, q),
         NEW p, p.name = nameOf[t], NEW v \in Worker \ {w}
  PROVE  p \notin link[v]
<1>1. p \in link[v] => pc[v] = "transfer" /\ nameOf[track[v]] = nameOf[t]
  BY DEF Order, Linked
<1> QED
  BY <1>1 DEF InHand, Alone

LEMMA LinkOf ==
  ASSUME FilesInv, Order, NEW w \in Worker, NEW t \in Track, NEW q \in Path, InHand(w, t, q)
  PROVE  link[w] = IF pc[w] = "transfer" THEN {q} ELSE {}
<1>1. FileInv(w)
  BY DEF FilesInv
<1> QED
  BY <1>1 DEF FileInv, InHand, Alone, Order, Linked

LEMMA StutterFiles == FilesInv /\ UNCHANGED vars => FilesInv'
<1> SUFFICES ASSUME FilesInv, UNCHANGED vars PROVE FilesInv'
  OBVIOUS
<1>1. /\ file' = file /\ link' = link /\ pc' = pc /\ track' = track /\ fallback' = fallback
      /\ answer' = answer /\ pos' = pos /\ sniffed' = sniffed /\ final' = final
      /\ outcome' = outcome /\ saved' = saved /\ cut' = cut /\ met' = met
      /\ nameOf' = nameOf /\ windows' = windows
  BY DEF vars, locals, given
<1>2. ASSUME NEW w \in Worker PROVE FileInv(w)'
  <2>1. FileInv(w)
    BY DEF FilesInv
  <2>2. /\ Partial(w)' = Partial(w) /\ Received(w)' = Received(w)
        /\ Accepted(w)' = Accepted(w) /\ Unbegun(w)' = Unbegun(w)
    BY <1>1 DEF Partial, Received, Accepted, Unbegun, IsWhole, TmpOf, Exists
  <2> QED
    BY <1>1, <2>1, <2>2 DEF FileInv, TmpOf, Exists
<1>3. ASSUME NEW t \in Track PROVE SavedInv(t)'
  <2>1. SavedInv(t)
    BY DEF FilesInv
  <2> QED
    BY <1>1, <2>1 DEF SavedInv, IsWhole
<1>4. NamesTellTypes'
  BY <1>1 DEF FilesInv, NamesTellTypes, Exists
<1>5. NothingLeftBehind'
  BY <1>1 DEF FilesInv, NothingLeftBehind, Exists, TmpOf
<1> QED
  BY <1>2, <1>3, <1>4, <1>5 DEF FilesInv

\* Steps that leave the directory alone and the track busy.
LEMMA QuietStep ==
  ASSUME Typing, Named, Order, FilesInv,
         NEW w \in Worker, NEW t \in Track, NEW q \in Path, InHand(w, t, q),
         pc[w] \notin {"idle", "tag"}, pc'[w] \in PlaceOf \ {"idle", "tag"}, FileInv(w)',
         UNCHANGED <<file, saved>>
  PROVE  FilesInv'
<1>1. Concerns(w, t) /\ Alone(w, t) /\ TmpOf(w) = q /\ TmpOf(w)' = q /\ q.tmp = TRUE
  BY DEF InHand
<1>2. saved[t] = NoPath
  BY DEF Order, Recorded, InHand
<1>3. SavedInv(t)'
  BY <1>2 DEF SavedInv
<1> QED
  BY <1>1, <1>2, <1>3, TmpStep

\* Steps that end an attempt, with the temporary file gone or not begun.
LEMMA AttemptEnds ==
  ASSUME Typing, Named, Order, FilesInv,
         NEW w \in Worker, NEW t \in Track, NEW q \in Path, InHand(w, t, q),
         pc[w] \notin {"idle", "tag"}, RetryOrFail(w), UNCHANGED saved,
         \A p \in Path : p # q => file'[p] = file[p],
         file'[q] = Absent \/ file'[q] = Old(q.ext)
  PROVE  FilesInv'
<1>1. Concerns(w, t) /\ Alone(w, t) /\ TmpOf(w) = q /\ TmpOf(w)' = q /\ q.tmp = TRUE
  BY DEF InHand
<1>2. pc'[w] \in {"lookup", "idle"}
  BY DEF Typing, TypeOK, RetryOrFail, Goto
<1>3. saved[t] = NoPath
  BY DEF Order, Recorded, InHand
<1>4. SavedInv(t)'
  BY <1>3 DEF SavedInv
<1>5. ~Exists(q)' \/ file'[q] = Old(q.ext)
  BY DEF Exists
<1>6. FileInv(w)'
  BY <1>1, <1>2, <1>5 DEF FileInv, Unbegun
<1> QED
  BY <1>1, <1>3, <1>4, <1>5, <1>6, TmpStep

LEMMA RefusedFiles ==
  ASSUME Typing, Named, Order, FilesInv, NEW w \in Worker, NEW t \in Track,
         NoMetadata(w, t), Concerns(w, t)
  PROVE  FilesInv'
<1>1. /\ pc[w] = "idle" /\ outcome[t] = "todo" /\ outcome' = [outcome EXCEPT ![t] = "failed"]
      /\ file' = file /\ link' = link /\ pc' = pc /\ track' = track /\ fallback' = fallback
      /\ answer' = answer /\ pos' = pos /\ sniffed' = sniffed /\ final' = final
      /\ saved' = saved /\ cut' = cut /\ met' = met
      /\ nameOf' = nameOf /\ windows' = windows
  BY DEF NoMetadata, locals, Concerns
<1>2. saved[t] = NoPath /\ \A u \in Track \ {t} : outcome'[u] = outcome[u]
  BY <1>1 DEF Order, Recorded, Typing, TypeOK
<1>3. ASSUME NEW v \in Worker PROVE FileInv(v)'
  <2>1. FileInv(v)
    BY DEF FilesInv
  <2>2. /\ Partial(v)' = Partial(v) /\ Received(v)' = Received(v)
        /\ Accepted(v)' = Accepted(v) /\ Unbegun(v)' = Unbegun(v)
    BY <1>1 DEF Partial, Received, Accepted, Unbegun, IsWhole, TmpOf, Exists
  <2> QED
    BY <1>1, <2>1, <2>2 DEF FileInv, TmpOf, Exists
<1>4. ASSUME NEW u \in Track PROVE SavedInv(u)'
  <2>1. SavedInv(u)
    BY DEF FilesInv
  <2> QED
    BY <1>1, <2>1 DEF SavedInv, IsWhole
<1>5. NamesTellTypes'
  BY <1>1 DEF FilesInv, NamesTellTypes, Exists
<1>6. NothingLeftBehind'
  <2> SUFFICES ASSUME NEW p \in Path, Exists(p)', p.name \notin met'
               PROVE  \/ file'[p] = Old(p.ext)
                      \/ p.tmp /\ \E v \in Worker :
                             pc'[v] \in PlaceOf \ {"idle", "tag"} /\ TmpOf(v)' = p
                      \/ ~p.tmp /\ \E u \in Track :
                             outcome'[u] \in {"busy", "done"} /\ saved'[u] = p
    BY DEF NothingLeftBehind
  <2>1. \A u \in Track : saved[u] = p => u # t
    BY <1>2, NoPathIsNone
  <2>2. \A v \in Worker : TmpOf(v)' = TmpOf(v)
    BY <1>1 DEF TmpOf
  <2> QED
    BY <1>1, <1>2, <2>1, <2>2 DEF FilesInv, NothingLeftBehind, Exists
<1> QED
  BY <1>3, <1>4, <1>5, <1>6 DEF FilesInv

LEMMA BuildFiles ==
  ASSUME Typing, Named, Order, FilesInv, NEW w \in Worker, NEW t \in Track,
         BuildOutPath(w, t), Concerns(w, t), nameOf[t] \notin met'
  PROVE  FilesInv'
<1>t. TypeOK
  BY DEF Typing
<1>0. Alone(w, t)
  <2>1. met' = IF \E v \in Worker : pc[v] # "idle" /\ nameOf[track[v]] = nameOf[t]
               THEN met \cup {nameOf[t]} ELSE met
    BY DEF BuildOutPath
  <2>2. \A v \in Worker : pc[v] # "idle" => nameOf[track[v]] # nameOf[t]
    BY <2>1
  <2> QED
    BY <2>1, <2>2 DEF Alone
<1>1. PICK p \in FirstPath : fallback' = [fallback EXCEPT ![w] = p] /\ p.name = nameOf[t]
  <2>1. fallback \in [Worker -> Path \cup {NoPath}] /\ nameOf \in [Track -> Name]
    BY <1>t DEF TypeOK
  <2> QED
    BY <2>1, BuiltPath
<1>2. PICK q \in Path : q = Tmp(p) /\ q.tmp = TRUE /\ q.name = nameOf[t]
  <2>1. p \in Path
    BY DEF FirstPath
  <2> QED
    BY <1>1, <2>1, TmpPath
<1>3. TmpOf(w)' = q
  BY <1>t, <1>1, <1>2 DEF TmpOf, TypeOK
<1>4. /\ pc[w] = "idle" /\ pc' = [pc EXCEPT ![w] = "lookup"] /\ outcome[t] = "todo"
      /\ UNCHANGED <<file, saved>>
  BY DEF BuildOutPath, Goto
<1>5. file[q] = Absent \/ file[q] = Old(q.ext)
  <2>1. ASSUME NEW v \in Worker, pc[v] # "idle", TmpOf(v) = q PROVE FALSE
    <3>1. TmpOf(v).name = nameOf[track[v]] /\ v # w
      BY <1>4, <2>1, OwnFile
    <3> QED
      BY <1>0, <1>2, <2>1, <3>1 DEF Alone
  <2> QED
    BY <1>0, <1>2, <2>1 DEF FilesInv, NothingLeftBehind, Exists, Alone
<1>6. saved[t] = NoPath
  BY <1>4 DEF Order, Recorded
<1>7. SavedInv(t)'
  BY <1>4, <1>6 DEF SavedInv
<1>8. ~Exists(q)' \/ file'[q] = Old(q.ext)
  BY <1>4, <1>5 DEF Exists
<1>9. FileInv(w)'
  <2>1. pc'[w] = "lookup"
    BY <1>t, <1>4 DEF TypeOK
  <2> QED
    BY <1>3, <1>8, <2>1 DEF FileInv, Unbegun
<1>10. \A r \in Path : r # q => file'[r] = file[r]
  BY <1>4
<1> QED
  BY <1>0, <1>2, <1>4, <1>6, <1>7, <1>8, <1>9, <1>10, TmpStep

LEMMA LookUpFiles ==
  ASSUME Typing, Named, Order, FilesInv,
         NEW w \in Worker, NEW t \in Track, NEW q \in Path, InHand(w, t, q), LookUp(w)
  PROVE  FilesInv'
<1>1. /\ pc[w] = "lookup" /\ FileInv(w) /\ TmpOf(w) = q /\ TmpOf(w)' = q
      /\ nameOf[track[w]] \notin met
  BY DEF LookUp, FilesInv, InHand, Alone
<1>2. UNCHANGED <<file, saved>>
  BY DEF LookUp
<1>3. file[q] = Absent \/ file[q] = Old(q.ext)
  BY <1>1 DEF FileInv, Unbegun, Exists
<1>4. CASE Goto(w, "open")
  <2>1. pc'[w] = "open" /\ "open" \in PlaceOf
    BY <1>4 DEF Goto, Typing, TypeOK, PlaceOf
  <2>2. FileInv(w)'
    BY <1>1, <1>2, <1>3, <2>1 DEF FileInv, Unbegun, Exists
  <2> QED
    BY <1>1, <1>2, <2>1, <2>2, QuietStep
<1>5. CASE RetryOrFail(w)
  BY <1>1, <1>2, <1>3, <1>5, AttemptEnds
<1> QED
  BY <1>4, <1>5 DEF LookUp

\* What leaves the rest to Discard and touches no file.
LEMMA GiveUpFiles ==
  ASSUME Typing, Named, Order, FilesInv,
         NEW w \in Worker, NEW t \in Track, NEW q \in Path, InHand(w, t, q),
         \/ OpenFails(w) /\ Goto(w, "discard")
         \/ NoLength(w) \/ Reject(w) \/ RenameFails(w)
  PROVE  FilesInv'
<1>1. /\ pc[w] \in {"open", "transfer", "sniff", "rename"}
      /\ pc' = [pc EXCEPT ![w] = "discard"] /\ UNCHANGED <<file, saved>>
  BY DEF OpenFails, NoLength, Reject, RenameFails, Goto
<1>2. pc'[w] = "discard" /\ "discard" \in PlaceOf
  BY <1>1 DEF Typing, TypeOK, PlaceOf
<1>3. FileInv(w)'
  BY <1>2 DEF FileInv
<1> QED
  BY <1>1, <1>2, <1>3, QuietStep

\* Windows: the transfer counts although no file was opened; what is there is
\* nothing, or what an earlier run has left.
LEMMA UnopenedFiles ==
  ASSUME Typing, Named, Order, FilesInv,
         NEW w \in Worker, NEW t \in Track, NEW q \in Path, InHand(w, t, q),
         pc[w] = "open", windows, pc' = [pc EXCEPT ![w] = "sniff"], cut' = cut \cup {t},
         UNCHANGED <<file, saved>>
  PROVE  FilesInv'
<1>1. /\ FileInv(w) /\ TmpOf(w) = q /\ TmpOf(w)' = q /\ nameOf[track[w]] \notin met
      /\ track'[w] = t /\ windows'
  BY DEF FilesInv, InHand, Alone
<1>2. file[q] = Absent \/ file[q] = Old(q.ext)
  BY <1>1 DEF FileInv, Unbegun, Exists
<1>3. pc'[w] = "sniff" /\ "sniff" \in PlaceOf
  BY DEF Typing, TypeOK, PlaceOf
<1>4. \A k \in Media : Old(k) \in Content /\ \A i \in 1 .. Parts : Old(k)[i].of = None
  BY EmptyContent DEF Old, Cell
<1>5. q.ext \in Media
  BY DEF Path
<1>6. Received(w)'
  BY <1>1, <1>2, <1>4, <1>5 DEF Received, IsWhole, Exists
<1>7. FileInv(w)'
  BY <1>3, <1>6 DEF FileInv
<1> QED
  BY <1>3, <1>7, QuietStep

\* The other ways out of the transfer end with a file of its parts.
LEMMA EndFiles ==
  ASSUME Typing, Named, Order, FilesInv,
         NEW w \in Worker, NEW t \in Track, NEW q \in Path, InHand(w, t, q),
         TransferEnds(w) \/ LastBytesLost(w) \/ TransferBreaks(w)
  PROVE  FilesInv'
<1>0. pos[w] \in 0 .. Parts
  BY DEF Typing, TypeOK
<1>1. /\ pc[w] = "transfer" /\ pc' = [pc EXCEPT ![w] = "sniff"]
      /\ UNCHANGED <<file, saved, answer>>
      /\ cut \subseteq cut'
      /\ \/ pos[w] = Parts
         \/ pos[w] = Parts - 1 /\ t \in cut'
         \/ windows /\ t \in cut'
  BY DEF TransferEnds, LastBytesLost, TransferBreaks, Goto, locals, InHand
<1>2. /\ FileInv(w) /\ TmpOf(w) = q /\ TmpOf(w)' = q /\ track[w] = t /\ track'[w] = t
      /\ nameOf[track[w]] \notin met /\ windows' = windows
  BY DEF FilesInv, InHand, Alone
<1>3. Partial(w)
  BY <1>1, <1>2 DEF FileInv
<1>4. pc'[w] = "sniff" /\ "sniff" \in PlaceOf
  BY <1>1 DEF Typing, TypeOK, PlaceOf
<1>5. /\ Hole.kind \notin Media /\ Hole.of = None
      /\ Cell(t, answer[w]).kind = answer[w]
  BY DEF Hole, Cell
<1>6. file[q][1].kind \in Media => file[q][1].kind = answer[w]
  BY <1>2, <1>3, <1>5 DEF Partial
<1>7. ASSUME NEW i \in 1 .. Parts
      PROVE  \/ file[q][i] = Cell(t, answer[w])
             \/ t \in cut' /\ file[q][i].of = None /\ (i = Parts \/ windows)
  <2>1. CASE file[q][i] = Cell(t, answer[w])
    BY <2>1
  <2>2. CASE file[q][i] = Hole /\ windows /\ track[w] \in cut
    BY <1>1, <1>2, <1>5, <2>2
  <2>3. CASE i > pos[w] /\ file[q][i] = Hole
    <3>1. pos[w] # Parts /\ (pos[w] = Parts - 1 => i = Parts)
      BY <1>0, <2>3
    <3> QED
      BY <1>1, <1>5, <2>3, <3>1
  <2> QED
    BY <1>2, <1>3, <2>1, <2>2, <2>3 DEF Partial
<1>8. IsWhole(file[q], t, answer[w])'
  BY <1>1, <1>2, <1>7 DEF IsWhole
<1>9. Received(w)'
  <2>1. file'[q] \in Content
    BY <1>1, <1>2, <1>3 DEF Partial
  <2>2. file'[q][1].kind \in Media => IsWhole(file[q], t, file[q][1].kind)'
    BY <1>1, <1>6, <1>8 DEF IsWhole
  <2> QED
    BY <1>2, <2>1, <2>2 DEF Received, IsWhole
<1>10. FileInv(w)'
  BY <1>4, <1>9 DEF FileInv
<1> QED
  BY <1>1, <1>4, <1>10, QuietStep

LEMMA SniffFiles ==
  ASSUME Typing, Named, Order, FilesInv,
         NEW w \in Worker, NEW t \in Track, NEW q \in Path, InHand(w, t, q), Sniff(w)
  PROVE  FilesInv'
<1>1. /\ pc[w] = "sniff" /\ pc' = [pc EXCEPT ![w] = "name"]
      /\ UNCHANGED <<file, saved, cut>> /\ Exists(TmpOf(w))
      /\ file[TmpOf(w)][1].kind \in Media
      /\ sniffed' = [sniffed EXCEPT ![w] = file[TmpOf(w)][1].kind]
  BY DEF Sniff, Goto
<1>2. /\ FileInv(w) /\ TmpOf(w)' = TmpOf(w) /\ track' = track
      /\ nameOf[track[w]] \notin met /\ windows' = windows
  BY DEF FilesInv, InHand, Alone
<1>3. /\ sniffed'[w] = file[TmpOf(w)][1].kind /\ pc'[w] = "name" /\ "name" \in PlaceOf
  BY <1>1 DEF Typing, TypeOK, PlaceOf
<1>4. Received(w)
  BY <1>1, <1>2 DEF FileInv
<1>5. Accepted(w)'
  BY <1>1, <1>2, <1>3, <1>4 DEF Accepted, Received, IsWhole
<1>6. FileInv(w)'
  BY <1>3, <1>5 DEF FileInv
<1> QED
  BY <1>1, <1>3, <1>6, QuietStep

LEMMA ChooseFiles ==
  ASSUME Typing, Named, Order, FilesInv,
         NEW w \in Worker, NEW t \in Track, NEW q \in Path, InHand(w, t, q), ChooseFinal(w)
  PROVE  FilesInv'
<1>1. /\ pc[w] = "name" /\ pc' = [pc EXCEPT ![w] = "rename"]
      /\ UNCHANGED <<file, saved, cut, sniffed>>
  BY DEF ChooseFinal, Goto
<1>2. /\ FileInv(w) /\ TmpOf(w)' = TmpOf(w) /\ track' = track
      /\ nameOf[track[w]] \notin met /\ windows' = windows
  BY DEF FilesInv, InHand, Alone
<1>3. fallback[w] \in FirstPath /\ sniffed[w] \in Media
  BY <1>1 DEF Typing, Placed, Named
<1>4. PICK f \in Path : final' = [final EXCEPT ![w] = f] /\ (~Exists(f) \/ LastName(f))
  BY <1>3, FinalPath
<1>5. final'[w] = f /\ pc'[w] = "rename" /\ "rename" \in PlaceOf
  BY <1>1, <1>4 DEF Typing, TypeOK, PlaceOf
<1>6. Accepted(w)
  BY <1>1, <1>2 DEF FileInv
<1>7. Accepted(w)'
  BY <1>1, <1>2, <1>6 DEF Accepted, IsWhole
<1>8. (~Exists(final[w]) \/ LastName(final[w]))'
  BY <1>1, <1>4, <1>5 DEF Exists, LastName
<1>9. FileInv(w)'
  BY <1>5, <1>7, <1>8 DEF FileInv
<1> QED
  BY <1>1, <1>5, <1>9, QuietStep

\* The temporary file is not open elsewhere, so that it is removed.
LEMMA RemoveFiles ==
  ASSUME Typing, Order, NEW w \in Worker, NEW t \in Track, NEW q \in Path, InHand(w, t, q),
         NEW open \in [Worker -> SUBSET Path], open[w] = {},
         \A v \in Worker \ {w} : open[v] = link[v],
         Remove(q, open)
  PROVE  file'[q] = Absent /\ \A p \in Path : p # q => file'[p] = file[p]
<1>1. \A v \in Worker \ {w} : q \notin open[v]
  BY NotOpenElsewhere DEF InHand
<1>2. ~Held(q, open)
  BY <1>1 DEF Held
<1> QED
  BY <1>2 DEF Remove, Typing, TypeOK

LEMMA DiscardFiles ==
  ASSUME Typing, Named, Order, FilesInv,
         NEW w \in Worker, NEW t \in Track, NEW q \in Path, InHand(w, t, q), Discard(w)
  PROVE  FilesInv'
<1>1. pc[w] = "discard" /\ RetryOrFail(w) /\ UNCHANGED saved /\ Remove(q, link)
  BY DEF Discard, InHand
<1>2. link[w] = {} /\ link \in [Worker -> SUBSET Path]
  BY <1>1, LinkOf DEF Typing, TypeOK
<1>3. file'[q] = Absent /\ \A p \in Path : p # q => file'[p] = file[p]
  BY <1>1, <1>2, RemoveFiles
<1> QED
  BY <1>1, <1>3, AttemptEnds

LEMMA FailFiles ==
  ASSUME Typing, Named, Order, FilesInv,
         NEW w \in Worker, NEW t \in Track, NEW q \in Path, InHand(w, t, q), TransferFails(w)
  PROVE  FilesInv'
<1> DEFINE open == [link EXCEPT ![w] = {}]
<1>1. /\ pc[w] = "transfer" /\ pc' = [pc EXCEPT ![w] = "discard"] /\ UNCHANGED saved
      /\ Remove(q, open)
  BY DEF TransferFails, Goto, InHand
<1>2. /\ open \in [Worker -> SUBSET Path] /\ open[w] = {}
      /\ \A v \in Worker \ {w} : open[v] = link[v]
  BY DEF Typing, TypeOK
<1> HIDE DEF open
<1>3. file'[q] = Absent /\ \A p \in Path : p # q => file'[p] = file[p]
  BY <1>1, <1>2, RemoveFiles
<1>4. pc'[w] = "discard"
  BY <1>1 DEF Typing, TypeOK
<1>5. FileInv(w)'
  BY <1>4 DEF FileInv
<1>6. saved[t] = NoPath
  BY <1>1 DEF Order, Recorded, InHand
<1>7. SavedInv(t)'
  BY <1>1, <1>6 DEF SavedInv
<1>8. ~Exists(q)'
  BY <1>3 DEF Exists
<1>9. Concerns(w, t) /\ Alone(w, t) /\ TmpOf(w) = q /\ q.tmp = TRUE
  BY DEF InHand
<1> QED
  BY <1>1, <1>3, <1>5, <1>6, <1>7, <1>8, <1>9, TmpStep

LEMMA OpenFiles ==
  ASSUME Typing, Named, Order, FilesInv,
         NEW w \in Worker, NEW t \in Track, NEW q \in Path, InHand(w, t, q), Open(w)
  PROVE  FilesInv'
<1>t. TypeOK
  BY DEF Typing
<1>1. Concerns(w, t) /\ Alone(w, t) /\ TmpOf(w) = q /\ TmpOf(w)' = q /\ q.tmp = TRUE
  BY DEF InHand
<1>2. /\ pc' = [pc EXCEPT ![w] = "transfer"] /\ pc[w] = "open"
      /\ file' = [file EXCEPT ![q] = Empty] /\ link' = [link EXCEPT ![w] = {q}]
      /\ pos' = [pos EXCEPT ![w] = 0] /\ saved' = saved
  BY <1>1 DEF Open, Goto
<1>3. /\ pc'[w] = "transfer" /\ link'[w] = {q} /\ pos'[w] = 0 /\ file'[q] = Empty
      /\ \A p \in Path : p # q => file'[p] = file[p]
  BY <1>t, <1>2 DEF TypeOK
<1>4. saved[t] = NoPath
  BY <1>2 DEF Order, Recorded, InHand
<1>5. SavedInv(t)'
  BY <1>2, <1>4 DEF SavedInv
<1>6. Partial(w)'
  BY <1>1, <1>3, EmptyContent DEF Partial, Empty
<1>7. FileInv(w)'
  BY <1>1, <1>3, <1>6 DEF FileInv
<1>8. pc'[w] \in PlaceOf \ {"idle", "tag"}
  BY <1>3 DEF PlaceOf
<1> QED
  BY <1>1, <1>2, <1>3, <1>4, <1>5, <1>7, <1>8, TmpStep

LEMMA WriteFiles ==
  ASSUME Typing, Named, Order, FilesInv,
         NEW w \in Worker, NEW t \in Track, NEW q \in Path, InHand(w, t, q),
         Write(w) \/ WriteLost(w)
  PROVE  FilesInv'
<1>t. TypeOK
  BY DEF Typing
<1>1. /\ Concerns(w, t) /\ Alone(w, t) /\ TmpOf(w) = q /\ TmpOf(w)' = q /\ q.tmp = TRUE
      /\ track[w] = t /\ track'[w] = t /\ windows' = windows /\ nameOf[track[w]] \notin met
  BY DEF InHand, Alone
<1>2. PICK c \in CellSet : c = Cell(t, answer[w])
  BY <1>t DEF TypeOK, Cell, CellSet
<1>3. /\ pc[w] = "transfer" /\ pos[w] < Parts /\ pos' = [pos EXCEPT ![w] = pos[w] + 1]
      /\ UNCHANGED <<link, pc, answer, saved>> /\ cut \subseteq cut'
  BY DEF Write, WriteLost
<1>4. link[w] = {q}
  BY <1>3, LinkOf
<1>5. \/ /\ file'[q] = [file[q] EXCEPT ![pos[w] + 1] = c]
         /\ \A p \in Path : p # q => file'[p] = file[p]
      \/ file' = file /\ windows /\ t \in cut'
  BY <1>1, <1>2, <1>4 DEF Write, WriteLost
<1>6. pos'[w] = pos[w] + 1 /\ pos[w] \in Nat /\ pos[w] + 1 \in 1 .. Parts
  BY <1>t, <1>3 DEF TypeOK
<1>7. FileInv(w)
  BY DEF FilesInv
<1>8. saved[t] = NoPath /\ Partial(w)
  BY <1>1, <1>3, <1>7 DEF FileInv, Order, Recorded
<1>9. SavedInv(t)'
  BY <1>3, <1>8 DEF SavedInv
<1>10. Partial(w)'
  <2>1. /\ file[q] \in Content
        /\ \A i \in 1 .. Parts :
             \/ i <= pos[w] /\ file[q][i] = c
             \/ i <= pos[w] /\ file[q][i] = Hole /\ windows /\ t \in cut'
             \/ i > pos[w] /\ file[q][i] = Hole
    BY <1>1, <1>2, <1>3, <1>8 DEF Partial
  <2>2. file'[q] \in Content
    BY <1>5, <1>6, <2>1 DEF Content
  <2>3. ASSUME NEW i \in 1 .. Parts
        PROVE  \/ i <= pos[w] + 1 /\ file'[q][i] = c
               \/ i <= pos[w] + 1 /\ file'[q][i] = Hole /\ windows /\ t \in cut'
               \/ i > pos[w] + 1 /\ file'[q][i] = Hole
    <3>1. CASE i = pos[w] + 1
      <4>1. file'[q][i] = c \/ (file'[q][i] = Hole /\ windows /\ t \in cut')
        BY <1>5, <1>6, <2>1, <3>1 DEF Content
      <4> QED
        BY <1>6, <3>1, <4>1
    <3>2. CASE i # pos[w] + 1
      <4>1. file'[q][i] = file[q][i]
        BY <1>5, <1>6, <2>1, <3>2 DEF Content
      <4> QED
        BY <1>6, <2>1, <3>2, <4>1
    <3> QED
      BY <3>1, <3>2
  <2>4. c = Cell(track'[w], answer'[w])
    BY <1>1, <1>2, <1>3
  <2> QED
    BY <1>1, <1>6, <2>2, <2>3, <2>4 DEF Partial, Cell, Hole
<1>11. FileInv(w)'
  BY <1>1, <1>3, <1>4, <1>10 DEF FileInv
<1>12. pc'[w] \in PlaceOf \ {"idle", "tag"}
  BY <1>3 DEF PlaceOf
<1>13. \A p \in Path : p # q => file'[p] = file[p]
  BY <1>5
<1> QED
  BY <1>1, <1>3, <1>8, <1>9, <1>11, <1>12, <1>13, TmpStep

LEMMA TagFiles ==
  ASSUME Typing, Named, Order, FilesInv,
         NEW w \in Worker, NEW t \in Track, NEW q \in Path, InHand(w, t, q), Tag(w)
  PROVE  FilesInv'
<1>1. /\ Concerns(w, t) /\ Alone(w, t) /\ TmpOf(w) = q /\ TmpOf(w)' = q /\ q.tmp = TRUE
      /\ track[w] = t /\ nameOf' = nameOf /\ windows' = windows /\ met' = met
      /\ nameOf[t] \notin met
  BY DEF InHand, Alone
<1>2. /\ pc[w] = "tag" /\ pc' = [pc EXCEPT ![w] = "idle"]
      /\ outcome' = [outcome EXCEPT ![t] = "done"]
      /\ file' = file /\ saved' = saved /\ cut' = cut
  BY <1>1 DEF Tag, Goto, locals
<1>3. pc'[w] = "idle" /\ outcome'[t] = "done"
  BY <1>2 DEF Typing, TypeOK
<1>4. FileInv(w) /\ SavedInv(t)
  BY DEF FilesInv
<1>5. file[q] = Absent
  BY <1>1, <1>2, <1>4 DEF FileInv, Exists
<1>6. SavedInv(t)'
  BY <1>1, <1>2, <1>4 DEF SavedInv, IsWhole
<1>7. FileInv(w)'
  BY <1>3 DEF FileInv
<1>8. ~Exists(q)' /\ \A p \in Path : p # q => file'[p] = file[p]
  BY <1>2, <1>5 DEF Exists
<1> QED
  BY <1>1, <1>2, <1>3, <1>6, <1>7, <1>8, TmpStep

LEMMA RenameFiles ==
  ASSUME Typing, Named, Order, FilesInv,
         NEW w \in Worker, NEW t \in Track, NEW q \in Path, InHand(w, t, q), Rename(w)
  PROVE  FilesInv'
<1>t. TypeOK
  BY DEF Typing
<1>1. /\ Concerns(w, t) /\ Alone(w, t) /\ TmpOf(w) = q /\ TmpOf(w)' = q /\ q.tmp = TRUE
      /\ q.name = nameOf[t] /\ track[w] = t /\ track'[w] = t /\ outcome[t] = "busy"
      /\ nameOf' = nameOf /\ windows' = windows /\ met' = met /\ nameOf[t] \notin met
  BY DEF InHand, Alone
<1>2. PICK f \in Path : /\ f = final[w] /\ f.tmp = FALSE /\ f.name = nameOf[t]
                        /\ f.ext = sniffed[w]
  BY <1>1 DEF Named, Rename
<1>3. /\ pc[w] = "rename" /\ pc' = [pc EXCEPT ![w] = "tag"]
      /\ file' = [file EXCEPT ![q] = Absent, ![f] = file[q]]
      /\ saved' = [saved EXCEPT ![t] = f]
      /\ outcome' = outcome /\ cut' = cut
  BY <1>1, <1>2 DEF Rename, Move, Goto, locals
<1>4. q # f
  BY <1>1, <1>2
<1>5. /\ file'[q] = Absent /\ file'[f] = file[q]
      /\ \A p \in Path : p # q /\ p # f => file'[p] = file[p]
  BY <1>t, <1>3, <1>4 DEF TypeOK
<1>6. pc'[w] = "tag" /\ saved'[t] = f
  BY <1>t, <1>3 DEF TypeOK
<1>7. FileInv(w)
  BY DEF FilesInv
<1>8. /\ Accepted(w) /\ saved[t] = NoPath
      /\ ~Exists(f) \/ LastName(f)
  BY <1>1, <1>2, <1>3, <1>7 DEF FileInv, Order, Recorded
<1>9. /\ file[q] \in Content /\ file[q][1].kind = f.ext /\ IsWhole(file[q], t, f.ext)
  BY <1>1, <1>2, <1>8 DEF Accepted
<1>10. f # NoPath
  BY NoPathIsNone
<1>11. SavedInv(t)'
  <2>1. file'[f] \in Content
    BY <1>5, <1>9
  <2>2. IsWhole(file[saved[t]], t, saved[t].ext)'
    BY <1>1, <1>3, <1>5, <1>6, <1>9 DEF IsWhole
  <2> QED
    BY <1>6, <2>1, <2>2 DEF SavedInv
<1>12. FileInv(w)'
  <2>1. ~Exists(TmpOf(w))'
    BY <1>1, <1>5 DEF Exists
  <2> QED
    BY <1>6, <2>1 DEF FileInv
<1>13. \A v \in Worker : FileInv(v)'
  BY <1>1, <1>12, Others DEF Alone
<1>14. ASSUME NEW u \in Track \ {t} PROVE SavedInv(u)'
  <2>1. CASE saved[u] = f
    <3>1. saved'[u] = f /\ saved'[t] = f
      BY <1>1, <1>6, <2>1 DEF Concerns
    <3> QED
      BY <3>1 DEF SavedInv
  <2>2. CASE saved[u] # f
    <3>1. saved[u] # NoPath => file'[saved[u]] = file[saved[u]]
      BY <1>1, <1>5, <2>2 DEF Order, Recorded
    <3> QED
      BY <1>1, <3>1, OtherSongs
  <2> QED
    BY <2>1, <2>2
<1>15. NamesTellTypes'
  <2> SUFFICES ASSUME NEW p \in Path, Exists(p)', ~p.tmp, p.name \notin met'
               PROVE file'[p][1].kind = p.ext
    BY DEF NamesTellTypes
  <2>1. CASE p = f
    BY <1>5, <1>9, <2>1
  <2>2. CASE p # f
    <3>1. file'[p] = file[p]
      BY <1>1, <1>5, <2>2
    <3> QED
      BY <1>1, <3>1 DEF FilesInv, NamesTellTypes, Exists
  <2> QED
    BY <2>1, <2>2
<1>16. NothingLeftBehind'
  <2> SUFFICES ASSUME NEW p \in Path, Exists(p)', p.name \notin met'
               PROVE  \/ file'[p] = Old(p.ext)
                      \/ p.tmp /\ \E v \in Worker :
                             pc'[v] \in PlaceOf \ {"idle", "tag"} /\ TmpOf(v)' = p
                      \/ ~p.tmp /\ \E u \in Track :
                             outcome'[u] \in {"busy", "done"} /\ saved'[u] = p
    BY DEF NothingLeftBehind
  <2>1. CASE p = f
    <3>1. outcome'[t] = "busy" /\ saved'[t] = p /\ ~p.tmp
      BY <1>1, <1>2, <1>3, <1>6, <2>1
    <3> QED
      BY <3>1
  <2>2. CASE p = q
    BY <1>5, <2>2 DEF Exists
  <2>3. CASE p # f /\ p # q
    <3>1. file'[p] = file[p] /\ Exists(p) /\ p.name \notin met
      BY <1>1, <1>5, <2>3 DEF Exists
    <3>2. CASE file[p] = Old(p.ext)
      BY <3>1, <3>2
    <3>3. CASE p.tmp /\ \E v \in Worker :
                 pc[v] \in PlaceOf \ {"idle", "tag"} /\ TmpOf(v) = p
      <4>1. PICK v \in Worker : pc[v] \in PlaceOf \ {"idle", "tag"} /\ TmpOf(v) = p
        BY <3>3
      <4>2. v # w
        BY <1>1, <2>3, <4>1
      <4>3. pc'[v] = pc[v] /\ TmpOf(v)' = TmpOf(v)
        BY <1>1, <4>2 DEF Concerns, TmpOf
      <4> QED
        BY <3>3, <4>1, <4>3
    <3>4. CASE ~p.tmp /\ \E u \in Track : outcome[u] \in {"busy", "done"} /\ saved[u] = p
      <4>1. PICK u \in Track : outcome[u] \in {"busy", "done"} /\ saved[u] = p
        BY <3>4
      <4>2. u # t
        BY <1>8, <4>1, NoPathIsNone
      <4>3. outcome'[u] = outcome[u] /\ saved'[u] = saved[u]
        BY <1>1, <4>2 DEF Concerns
      <4> QED
        BY <3>4, <4>1, <4>3
    <3> QED
      BY <3>1, <3>2, <3>3, <3>4 DEF FilesInv, NothingLeftBehind
  <2> QED
    BY <2>1, <2>2, <2>3
<1> QED
  BY <1>11, <1>13, <1>14, <1>15, <1>16 DEF FilesInv

LEMMA StepFiles ==
  ASSUME Typing, Named, Order, FilesInv, nameOf' = nameOf, windows' = windows,
         NEW w \in Worker, Step(w)
  PROVE  FilesInv'
<1>1. CASE \E t \in Track : NoMetadata(w, t)
  BY <1>1, ConcernsRefused, RefusedFiles
<1>2. ASSUME NEW t \in Track, BuildOutPath(w, t) PROVE FilesInv'
  <2>1. Concerns(w, t)
    BY <1>2, ConcernsBuild
  <2> QED
    BY <1>2, <2>1, MetStep, BuildFiles
<1>3. CASE ~\E t \in Track : NoMetadata(w, t) \/ BuildOutPath(w, t)
  <2>1. pc[w] # "idle" /\ met' = met
    BY <1>3 DEF Step, LookUp, Open, OpenFails, Write, WriteLost, TransferEnds,
                LastBytesLost, TransferBreaks, NoLength, TransferFails, Sniff, Reject,
                ChooseFinal, Rename, RenameFails, Discard, Tag
  <2>2. CASE nameOf[track[w]] \in met
    <3>1. Concerns(w, track[w]) /\ track[w] \in Track
      BY <2>1, ConcernsBusy DEF Typing, Placed
    <3> QED
      BY <2>1, <2>2, <3>1, MetStep
  <2>3. CASE nameOf[track[w]] \notin met
    <3>1. PICK t \in Track, q \in Path : InHand(w, t, q)
      BY <2>1, <2>3, HasInHand
    <3>2. CASE OpenFails(w)
      <4>1. CASE Goto(w, "discard")
        BY <3>1, <3>2, <4>1, GiveUpFiles
      <4>2. CASE windows /\ Goto(w, "sniff") /\ cut' = cut \cup {track[w]}
        <5>1. /\ pc[w] = "open" /\ pc' = [pc EXCEPT ![w] = "sniff"]
              /\ cut' = cut \cup {t} /\ UNCHANGED <<file, saved>>
          BY <3>1, <3>2, <4>2 DEF OpenFails, Goto, InHand
        <5> QED
          BY <3>1, <4>2, <5>1, UnopenedFiles
      <4> QED
        BY <3>2, <4>1, <4>2 DEF OpenFails
    <3>3. CASE ~OpenFails(w)
      BY <1>3, <3>1, <3>3, LookUpFiles, OpenFiles, WriteFiles, EndFiles, GiveUpFiles,
         FailFiles, SniffFiles, ChooseFiles, RenameFiles, DiscardFiles, TagFiles DEF Step
    <3> QED
      BY <3>2, <3>3
  <2> QED
    BY <2>2, <2>3
<1> QED
  BY <1>1, <1>2, <1>3

LEMMA NextFiles == Typing /\ Named /\ Order /\ FilesInv /\ [Next]_vars => FilesInv'
  BY StutterFiles, StepFiles DEF Next, given

\* What keeps workers out of each other's files: a name that only one worker has in
\* hand is concerned by nobody else's steps (download.c:456-525, 530-557).
THEOREM Invariance == Spec => [](Typing /\ Named /\ Order /\ FilesInv)
<1>1. Init => Typing /\ Named /\ Order /\ FilesInv
  BY InitTyping, InitOrder, InitFiles DEF Init, Named
<1>2. Typing /\ Named /\ Order /\ FilesInv /\ [Next]_vars
      => (Typing /\ Named /\ Order /\ FilesInv)'
  BY NextTyping, NextNamed, NextOrder, NextFiles
<1> QED
  BY <1>1, <1>2, PTL DEF Spec

\* A downloaded track is a file with that track and nothing else, but for what
\* fclose or the transfer of Windows may have lost, unless its name was in two
\* hands or its last path was given again (api.c:617-668, 849, download.c:456-525).
THEOREM FilesWhole == Spec => []SavedIsWhole
<1>1. Order /\ FilesInv => SavedIsWhole
  BY DEF Order, Recorded, FilesInv, SavedInv, SavedIsWhole
<1> QED
  BY <1>1, Invariance, PTL

\* No error page stands under the name of a song, and every extension tells
\* what is in the file, unless two workers had the name in hand at once
\* (download.c:472-489).
THEOREM TypesTold == Spec => []NamesTellTypes
<1>1. FilesInv => NamesTellTypes
  BY DEF FilesInv
<1> QED
  BY <1>1, Invariance, PTL

\* Whatever fails, what it had put in the directory is removed, unless two
\* workers had the name in hand at once (download.c:465-510, 725-738).
THEOREM NothingLeft == Spec => []NothingLeftBehind
<1>1. FilesInv => NothingLeftBehind
  BY DEF FilesInv
<1> QED
  BY <1>1, Invariance, PTL

\* A file with a final name is only ever replaced when its series of names is
\* used up, or when two workers had the name in hand at once, so that one took it
\* after the other had looked (download.c:407-415, 543-555).
THEOREM NotOverwritten == Spec => NothingOverwritten
<1>1. ASSUME Typing, Named, Order, FilesInv, [Next]_vars,
             NEW p \in Path, Exists(p), ~p.tmp, ~LastName(p), p.name \notin met
      PROVE  file'[p] = file[p]
  <2>t. TypeOK
    BY <1>1 DEF Typing
  <2>1. CASE UNCHANGED file
    BY <2>1
  <2>2. ASSUME NEW w \in Worker, pc[w] # "idle", Step(w), nameOf' = nameOf, windows' = windows
        PROVE  file'[p] = file[p]
    <3>1. CASE p.name # nameOf[track[w]]
      BY <1>1, <2>2, <3>1, ConcernsBusy DEF Concerns
    <3>2. CASE p.name = nameOf[track[w]]
      <4>1. PICK t \in Track, q \in Path : InHand(w, t, q)
        BY <1>1, <2>2, <3>2, HasInHand
      <4>2. TmpOf(w) = q /\ q # p
        BY <1>1, <4>1 DEF InHand
      <4>3. CASE Open(w)
        BY <1>1, <2>t, <4>2, <4>3 DEF Open, TypeOK
      <4>4. CASE TransferFails(w) \/ Discard(w)
        <5>1. \E open : Remove(q, open)
          BY <4>2, <4>4 DEF TransferFails, Discard
        <5> QED
          BY <2>t, <4>2, <5>1 DEF Remove, TypeOK
      <4>5. CASE Write(w)
        <5>1. link[w] = {q}
          BY <1>1, <4>1, <4>5, LinkOf DEF Write
        <5> QED
          BY <4>2, <4>5, <5>1 DEF Write
      <4>6. CASE Rename(w)
        <5>1. FileInv(w) /\ pc[w] = "rename"
          BY <1>1, <4>6 DEF FilesInv, Rename
        <5>2. final[w] # p
          BY <1>1, <3>2, <5>1 DEF FileInv
        <5> QED
          BY <2>t, <4>2, <4>6, <5>2 DEF Rename, Move, TypeOK
      <4>7. CASE ~(Open(w) \/ TransferFails(w) \/ Discard(w) \/ Write(w) \/ Rename(w))
        BY <2>2, <4>7 DEF Step, NoMetadata, BuildOutPath, LookUp, OpenFails, WriteLost,
                  TransferEnds, LastBytesLost, TransferBreaks, NoLength, Sniff, Reject,
                  ChooseFinal, RenameFails, Tag
      <4> QED
        BY <4>3, <4>4, <4>5, <4>6, <4>7
    <3> QED
      BY <3>1, <3>2
  <2>3. ASSUME NEW w \in Worker, pc[w] = "idle", Step(w) PROVE UNCHANGED file
    BY <2>3 DEF Step, NoMetadata, BuildOutPath, LookUp, Open, OpenFails, Write, WriteLost,
              TransferEnds, LastBytesLost, TransferBreaks, NoLength, TransferFails, Sniff,
              Reject, ChooseFinal, Rename, RenameFails, Discard, Tag
  <2> QED
    BY <1>1, <2>1, <2>2, <2>3 DEF Next, vars, given
<1>2. Typing /\ Named /\ Order /\ FilesInv /\ [Next]_vars
      => [\A p \in Path : Exists(p) /\ ~p.tmp /\ ~LastName(p) /\ p.name \notin met
                            => file'[p] = file[p]]_vars
  BY <1>1
<1> QED
  BY Invariance, <1>2, PTL DEF Spec, NothingOverwritten
==============================================================================
