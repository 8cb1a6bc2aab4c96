---------------------------- MODULE TagFileProofs -----------------------------
(***************************************************************************)
(* What TagFile promises for any number of songs, any size of cover and    *)
(* FLAC files with any metadata blocks, of any number; M4A files have the  *)
(* two forms that tag.c assumes.                                           *)
(***************************************************************************)
EXTENDS TagFile, SequenceTheorems, WellFoundedInduction, TLAPS

Before == {"waiting", "check", "open", "fetch", "read", "open side"}

LEMMA ZeroIsACount == 0 \in 0 .. Chunks
BY TagFileAssumption DEF TagFileAssumption

LEMMA NextIsAPiece ==
  ASSUME NEW n \in 0 .. Chunks, n < Chunks
  PROVE  n + 1 \in 0 .. Chunks /\ n + 1 \in Chunk
<1>1. Chunks \in Nat /\ Chunk = 1 .. Chunks
  BY TagFileAssumption DEF TagFileAssumption
<1>2. n + 1 \in 0 .. Chunks /\ n + 1 \in 1 .. Chunks
  BY <1>1
<1> QED BY <1>1, <1>2

LEMMA PiecesAreCounted ==
  ASSUME NEW n \in Chunk PROVE n \in Nat /\ n > 0 /\ n <= Chunks
<1>1. Chunks \in Nat /\ Chunk = 1 .. Chunks
  BY TagFileAssumption DEF TagFileAssumption
<1>2. n \in 1 .. Chunks
  BY <1>1, Zenon
<1> QED BY <1>1, <1>2

LEMMA PieceCounts ==
  ASSUME TypeOK, NEW s \in Song PROVE got[s] \in Nat
<1>1. got[s] \in 0 .. Chunks
  BY DEF TypeOK
<1>2. Chunks \in Nat
  BY TagFileAssumption DEF TagFileAssumption
<1> QED BY <1>1, <1>2

\* Leaving the fetch keeps the types of what it touches.
LEMMA HasCoverTypes ==
  ASSUME TypeOK, NEW s \in Song, NEW is \in BOOLEAN, HasCover(s, is)
  PROVE  /\ pc' \in [Song -> Ended \cup {"waiting", "check", "open", "fetch", "read",
                        "open side", "write", "close", "remove", "rename"}]
         /\ hasPath' \in [Song -> BOOLEAN]
         /\ fd' \in [Song -> Song \cup {None}]
         /\ got' \in [Song -> 0 .. Chunks]
         /\ \A o \in Song : fd'[o] # None <=> pc'[o] = "fetch"
<1>1. /\ hasPath' \in [Song -> BOOLEAN]
      /\ fd' \in [Song -> Song \cup {None}]
      /\ pc' \in [Song -> Ended \cup {"waiting", "check", "open", "fetch", "read",
                     "open side", "write", "close", "remove", "rename"}]
  BY DEF HasCover, TypeOK, Goto
<1>2. got' \in [Song -> 0 .. Chunks]
  <2>1. got' = [got EXCEPT ![s] = 0] /\ got \in [Song -> 0 .. Chunks]
    BY DEF HasCover, TypeOK
  <2> QED BY <2>1, ZeroIsACount
<1>3. ASSUME NEW o \in Song PROVE fd'[o] # None <=> pc'[o] = "fetch"
  <2>1. CASE o = s
    BY <2>1 DEF HasCover, TypeOK, Goto
  <2>2. CASE o # s
    BY <2>2 DEF HasCover, TypeOK, Goto
  <2> QED BY <2>1, <2>2
<1> QED BY <1>1, <1>2, <1>3

\* Type correctness.
THEOREM TypeCorrect == Spec => []TypeOK
<1>1. Init => TypeOK
  <2> SUFFICES ASSUME Init PROVE TypeOK
    OBVIOUS
  <2>1. got \in [Song -> 0 .. Chunks]
    BY TagFileAssumption DEF Init, TagFileAssumption
  <2>2. came \in [Song -> ServiceFiles] /\ DOMAIN song = Song /\ DOMAIN side = Song
    BY DEF Init
  <2> QED BY <2>1, <2>2 DEF Init, TypeOK, NoCover, Ended
<1>2. TypeOK /\ [Next]_vars => TypeOK'
  <2> SUFFICES ASSUME TypeOK, [Next]_vars PROVE TypeOK'
    OBVIOUS
  <2> USE DEF TypeOK, Ended, Goto, files, cover
  <2>1. ASSUME Kill PROVE TypeOK'
    <3>1. got' \in [Song -> 0 .. Chunks]
      BY <2>1, ZeroIsACount DEF Kill
    <3>2. pc' \in [Song -> Ended \cup {"waiting", "check", "open", "fetch", "read",
                     "open side", "write", "close", "remove", "rename"}]
      BY <2>1 DEF Kill
    <3>3. \A o \in Song : fd'[o] # None <=> pc'[o] = "fetch"
      BY <2>1 DEF Kill, Active
    <3>4. /\ UNCHANGED <<windows, came, song, side, pic, lost, coverAt, piece, hasPath>>
          /\ fd' \in [Song -> Song \cup {None}] /\ spoilt' \in BOOLEAN
      BY <2>1 DEF Kill
    <3> QED BY <3>1, <3>2, <3>3, <3>4
  <2>2. ASSUME NEW s \in Song, Start(s) PROVE TypeOK'
    BY <2>2 DEF Start
  <2>3. ASSUME NEW s \in Song, CheckHit(s) PROVE TypeOK'
    <3>1. PICK is \in BOOLEAN : HasCover(s, is)
      BY <2>3 DEF CheckHit
    <3> HIDE DEF TypeOK
    <3>2. QED BY <3>1, <2>3, HasCoverTypes DEF CheckHit, TypeOK
  <2>4. ASSUME NEW s \in Song, CheckMiss(s) PROVE TypeOK'
    BY <2>4 DEF CheckMiss
  <2>5. ASSUME NEW s \in Song, Open(s) PROVE TypeOK'
    BY <2>5, TagFileAssumption DEF Open, TagFileAssumption
  <2>6. ASSUME NEW s \in Song, OpenFails(s) PROVE TypeOK'
    <3>1. PICK is \in BOOLEAN : HasCover(s, is)
      BY <2>6 DEF OpenFails
    <3> HIDE DEF TypeOK
    <3>2. QED BY <3>1, <2>6, HasCoverTypes DEF OpenFails, TypeOK
  <2>7. ASSUME NEW s \in Song, Fetch(s) PROVE TypeOK'
    <3>1. got[s] + 1 \in 0 .. Chunks /\ got[s] + 1 \in Chunk
      <4>1. got[s] \in 0 .. Chunks /\ got[s] < Chunks
        BY <2>7 DEF Fetch
      <4> QED BY <4>1, NextIsAPiece
    <3>2. fd[s] \in Song
      BY <2>7 DEF Fetch
    <3> QED BY <3>1, <3>2, <2>7 DEF Fetch
  <2>8. ASSUME NEW s \in Song, FetchEnds(s) PROVE TypeOK'
    <3>1. PICK is \in BOOLEAN : HasCover(s, is)
      BY <2>8 DEF FetchEnds
    <3>2. piece' \in [Song -> SUBSET Chunk] /\ spoilt' \in BOOLEAN
      BY <2>8 DEF FetchEnds
    <3>3. UNCHANGED <<windows, came, song, side, pic, lost, coverAt>>
      BY <2>8 DEF FetchEnds
    <3> HIDE DEF TypeOK
    <3>4. QED BY <3>1, <3>2, <3>3, HasCoverTypes DEF TypeOK
  <2>9. ASSUME NEW s \in Song, FetchedNothing(s) PROVE TypeOK'
    <3>1. PICK is \in BOOLEAN : HasCover(s, is)
      BY <2>9 DEF FetchedNothing
    <3> HIDE DEF TypeOK
    <3>2. QED BY <3>1, <2>9, HasCoverTypes DEF FetchedNothing, TypeOK
  <2>10. ASSUME NEW s \in Song, FetchFails(s) PROVE TypeOK'
    <3>1. PICK is \in BOOLEAN : HasCover(s, is)
      BY <2>10 DEF FetchFails
    <3> HIDE DEF TypeOK
    <3>2. QED BY <3>1, <2>10, HasCoverTypes DEF FetchFails, CoverAfterFailure, TypeOK
  <2>11. ASSUME NEW s \in Song, Tag(s) PROVE TypeOK'
    <3>1. CASE Read(s)
      BY <3>1 DEF Read, NoCover
    <3>2. CASE GiveUp(s)
      BY <3>2 DEF GiveUp
    <3>3. CASE OpenSide(s)
      BY <3>3 DEF OpenSide
    <3>4. CASE Write(s)
      BY <3>4 DEF Write
    <3>5. CASE WriteFails(s)
      BY <3>5 DEF WriteFails, AfterShortWrite
    <3>6. CASE Close(s)
      BY <3>6 DEF Close
    <3>7. CASE RemoveSong(s)
      BY <3>7 DEF RemoveSong
    <3>8. CASE Rename(s)
      BY <3>8 DEF Rename
    <3>9. CASE RenameFails(s)
      BY <3>9 DEF RenameFails
    <3> QED BY <2>11, <3>1, <3>2, <3>3, <3>4, <3>5, <3>6, <3>7, <3>8, <3>9 DEF Tag
  <2>12. CASE UNCHANGED vars
    BY <2>12 DEF vars
  <2> QED BY <2>1, <2>2, <2>3, <2>4, <2>5, <2>6, <2>7, <2>8, <2>9, <2>10, <2>11, <2>12
             DEF Next, Cover
<1> QED BY <1>1, <1>2, PTL DEF Spec

-------------------------------------------------------------------------------
(* FLAC files of any number of blocks                                      *)

Prefix == {<<>>} \cup {<<ID3(c)>> : c \in SUBSET Chunk}

\* The blocks of a file that can be played.
Ordered(blocks) ==
  /\ blocks \in Seq(Metadata) /\ blocks # <<>>
  /\ blocks[1].kind = "STREAMINFO"
  /\ \A i \in 1 .. Len(blocks) : blocks[i].last <=> i = Len(blocks)

FlacFile(prefix, blocks) == prefix \o <<Marker>> \o blocks \o <<Audio>>

\* A sequence of one element.
LEMMA Single ==
  ASSUME NEW x, NEW S, NEW s \in Seq(S), Len(s) = 1, s[1] = x
  PROVE  s = <<x>>
<1>1. x \in S
  OBVIOUS
<1>2. <<x>> \in Seq(S) /\ Len(<<x>>) = 1 /\ <<x>>[1] = x
  BY <1>1
<1>3. \A i \in 1 .. Len(s) : s[i] = <<x>>[i]
  BY <1>2
<1> QED BY <1>2, <1>3, SeqEqual, Zenon

LEMMA PrefixSize ==
  ASSUME NEW p \in Prefix
  PROVE  Len(p) \in {0, 1} /\ Len(p) + 1 \in {1, 2} /\ (Len(p) = 0 => p = <<>>)
         /\ (Len(p) = 1 => p[1].t = "ID3" /\ p # <<>>)
         /\ \E S : p \in Seq(S)
<1>1. CASE p = <<>>
  <2>1. p \in Seq({})
    BY <1>1
  <2> QED BY <1>1, <2>1
<1>2. CASE \E c \in SUBSET Chunk : p = <<ID3(c)>>
  <2>1. PICK c \in SUBSET Chunk : p = <<ID3(c)>>
    BY <1>2
  <2>2. p \in Seq({ID3(c)}) /\ Len(p) = 1 /\ p[1] = ID3(c)
    BY <2>1
  <2>3. p # <<>>
    BY <2>2
  <2> QED BY <2>2, <2>3 DEF ID3
<1> QED BY <1>1, <1>2 DEF Prefix

\* Where the parts of such a file are.
LEMMA PartsAt ==
  ASSUME NEW p \in Prefix, NEW blocks, Ordered(blocks)
  PROVE  LET f == FlacFile(p, blocks)
             m == Len(p) + 1
         IN  /\ Len(f) = m + Len(blocks) + 1
             /\ \E S : f \in Seq(S)
             /\ p # <<>> => f[1].t = "ID3"
             /\ f[m] = Marker
             /\ \A i \in 1 .. Len(blocks) : f[m + i] = blocks[i]
             /\ f[m + Len(blocks) + 1] = Audio
<1>1. PICK S : p \in Seq(S)
  BY PrefixSize
<1> DEFINE R == S \cup Metadata \cup {Marker, Audio}
<1>2. p \in Seq(R) /\ blocks \in Seq(R) /\ <<Marker>> \in Seq(R) /\ <<Audio>> \in Seq(R)
  <2>1. S \subseteq R /\ Metadata \subseteq R /\ Marker \in R /\ Audio \in R
    OBVIOUS
  <2>2. blocks \in Seq(Metadata)
    BY DEF Ordered
  <2> HIDE DEF R
  <2>3. p \in Seq(R) /\ blocks \in Seq(R)
    BY <1>1, <2>1, <2>2, SeqMonotonic
  <2> QED BY <2>1, <2>3
<1> HIDE DEF R
<1> DEFINE a == p \o <<Marker>>
           b == a \o blocks
<1>3. Len(p) \in Nat /\ Len(blocks) \in Nat
  BY <1>2
<1>4. a \in Seq(R) /\ Len(a) = Len(p) + 1 /\ a[Len(p) + 1] = Marker
      /\ \A i \in 1 .. Len(p) : a[i] = p[i]
  BY <1>2
<1>5. b \in Seq(R) /\ Len(b) = Len(a) + Len(blocks)
      /\ (\A i \in 1 .. Len(a) : b[i] = a[i])
      /\ \A i \in 1 .. Len(blocks) : b[Len(a) + i] = blocks[i]
  <2> HIDE DEF a
  <2> QED BY <1>2, <1>4
<1>6. FlacFile(p, blocks) = b \o <<Audio>>
  BY DEF FlacFile
<1> HIDE DEF a, b
<1>7. /\ FlacFile(p, blocks) \in Seq(R) /\ Len(FlacFile(p, blocks)) = Len(b) + 1
      /\ \A i \in 1 .. Len(b) : FlacFile(p, blocks)[i] = b[i]
      /\ FlacFile(p, blocks)[Len(b) + 1] = Audio
  BY <1>2, <1>5, <1>6
<1>8. p # <<>> => FlacFile(p, blocks)[1].t = "ID3"
  BY <1>3, <1>4, <1>5, <1>7, PrefixSize
<1>9. \A i \in 1 .. Len(blocks) : Len(p) + 1 + i \in 1 .. Len(b)
  BY <1>3, <1>4, <1>5
<1>10. FlacFile(p, blocks)[Len(p) + 1] = Marker
  BY <1>3, <1>4, <1>5, <1>7
<1>11. \A i \in 1 .. Len(blocks) : FlacFile(p, blocks)[Len(p) + 1 + i] = blocks[i]
  BY <1>3, <1>4, <1>5, <1>7, <1>9
<1> QED BY <1>3, <1>4, <1>5, <1>7, <1>8, <1>10, <1>11

\* What flac_tag finds in it, and a player.
LEMMA FlacRead ==
  ASSUME NEW p \in Prefix, NEW blocks, Ordered(blocks)
  PROVE  LET f == FlacFile(p, blocks)
         IN  /\ IsFlac(f) /\ FlacPlays(f) /\ f # <<>>
             /\ Blocks(f) = blocks /\ AfterBlocks(f) = <<Audio>>
<1> DEFINE f == FlacFile(p, blocks)
           n == Len(blocks)
           m == Len(p) + 1
<1>1. /\ n \in Nat \ {0} /\ m \in {1, 2}
      /\ \A i \in 1 .. n : blocks[i].last <=> i = n
      /\ blocks[1].kind = "STREAMINFO" /\ blocks \in Seq(Metadata)
  <2>1. blocks \in Seq(Metadata) /\ blocks # <<>>
    BY DEF Ordered
  <2>2. n \in Nat \ {0}
    BY <2>1
  <2>4. m \in {1, 2}
    BY PrefixSize, Zenon
  <2> QED BY <2>1, <2>2, <2>4 DEF Ordered
<1>2. /\ Len(f) = m + n + 1 /\ \E S : f \in Seq(S)
      /\ p # <<>> => f[1].t = "ID3"
      /\ f[m] = Marker
      /\ \A i \in 1 .. n : f[m + i] = blocks[i]
      /\ f[m + n + 1] = Audio
  BY PartsAt
<1> HIDE DEF f, n, m
<1>3. MarkerAt(f) = m
  <2>1. CASE p = <<>>
    BY <1>2, <2>1 DEF MarkerAt, Marker, m
  <2>2. CASE p # <<>>
    <3>1. Len(p) = 1
      BY <2>2, PrefixSize, Zenon
    <3>2. m = 2 /\ f[1].t = "ID3"
      BY <1>2, <2>2, <3>1 DEF m
    <3> QED BY <3>2 DEF MarkerAt
  <2> QED BY <2>1, <2>2
<1>4. LastBlock(f) = m + n
  <2> DEFINE Is(i) == f[i].last /\ \A j \in m + 1 .. i - 1 : ~f[j].last
  <2>1. ASSUME NEW i \in m + 1 .. m + n PROVE i - m \in 1 .. n /\ f[i] = blocks[i - m]
    <3>1. i - m \in 1 .. n /\ m + (i - m) = i
      BY <1>1
    <3>2. f[m + (i - m)] = blocks[i - m]
      BY <1>2, <3>1, Zenon
    <3> QED BY <3>1, <3>2
  <2>2. \A i \in m + 1 .. m + n : f[i].last <=> i = m + n
    BY <1>1, <2>1
  <2>3. m + n \in m + 1 .. Len(f) /\ Is(m + n)
    BY <1>1, <1>2, <2>2
  <2>4. ASSUME NEW i \in m + 1 .. Len(f), Is(i) PROVE i = m + n
    <3>1. CASE i < m + n
      BY <1>1, <2>2, <2>4, <3>1
    <3>2. CASE i > m + n
      <4>1. m + n \in m + 1 .. i - 1
        BY <1>1, <3>2
      <4> QED BY <2>3, <2>4, <4>1
    <3> QED BY <1>1, <1>2, <3>1, <3>2
  <2>5. LastBlock(f) = CHOOSE i \in m + 1 .. Len(f) : Is(i)
    BY <1>3 DEF LastBlock
  <2> HIDE DEF Is
  <2> QED BY <2>3, <2>4, <2>5
<1>5. Blocks(f) = blocks
  <2>1. Blocks(f) = SubSeq(f, m + 1, m + n)
    BY <1>3, <1>4 DEF Blocks
  <2>2. PICK S : f \in Seq(S)
    BY <1>2
  <2>3. /\ SubSeq(f, m + 1, m + n) \in Seq(S) /\ Len(SubSeq(f, m + 1, m + n)) = n
        /\ \A i \in 1 .. n : SubSeq(f, m + 1, m + n)[i] = f[m + 1 + i - 1]
    BY <1>1, <1>2, <2>2
  <2>4. \A i \in 1 .. n : SubSeq(f, m + 1, m + n)[i] = blocks[i]
    BY <1>1, <1>2, <2>3
  <2>5. blocks \in Seq(Metadata) /\ Len(blocks) = n /\ n \in Nat
    BY <1>1 DEF n
  <2>6. DOMAIN blocks = 1 .. n /\ DOMAIN SubSeq(f, m + 1, m + n) = 1 .. n
    BY <2>3, <2>5
  <2>7. /\ blocks = [i \in DOMAIN blocks |-> blocks[i]]
        /\ SubSeq(f, m + 1, m + n) = [i \in DOMAIN SubSeq(f, m + 1, m + n) |-> SubSeq(f, m + 1, m + n)[i]]
    BY <2>3, <2>5
  <2> QED BY <2>1, <2>4, <2>6, <2>7, Zenon
<1>6. AfterBlocks(f) = <<Audio>>
  <2>1. AfterBlocks(f) = SubSeq(f, m + n + 1, m + n + 1)
    BY <1>2, <1>4 DEF AfterBlocks
  <2>2. PICK S : f \in Seq(S)
    BY <1>2
  <2> DEFINE k == m + n + 1
  <2>3. k \in 1 .. Len(f) /\ Len(f) = k
    BY <1>1, <1>2
  <2> HIDE DEF k
  <2>4. SubSeq(f, k, k) = <<f[k]>>
    <3>1. SubSeq(f, k, k) \in Seq(S) /\ Len(SubSeq(f, k, k)) = 1 /\ SubSeq(f, k, k)[1] = f[k]
      BY <2>2, <2>3
    <3> QED BY <3>1, Single, Zenon
  <2> QED BY <1>2, <2>1, <2>4 DEF k
<1>7. IsFlac(f)
  BY <1>2, <1>3 DEF IsFlac, Marker
<1>8. FlacPlays(f)
  BY <1>1, <1>2, <1>3, <1>5, <1>6 DEF FlacPlays
<1>9. f # <<>>
  BY <1>1, <1>2
<1> QED BY <1>5, <1>6, <1>7, <1>8, <1>9 DEF f

LEMMA LeastNumber ==
  ASSUME NEW T \in SUBSET Nat, T # {}
  PROVE  \E x \in T : \A y \in T : x <= y
<1>1. PICK x \in T : \A y \in T : ~(<<y, x>> \in OpToRel(<, Nat))
  BY NatLessThanWellFounded, WFMin
<1>2. \A y \in T : <<y, x>> \in OpToRel(<, Nat) <=> y < x
  BY DEF OpToRel
<1>3. \A y \in T : ~(y < x)
  BY <1>1, <1>2
<1> QED
  BY <1>3

\* keep, of the first n blocks.
Keeps(g, blocks, n) ==
  g = [k \in 0 .. n |-> IF k = 0 THEN <<>> ELSE WithBlock(g[k - 1], blocks[k])]

\* There is such a function: were n the least number without, the one for n - 1
\* could be extended.
LEMMA KeepsExists ==
  ASSUME NEW blocks, NEW n \in Nat
  PROVE  \E g : Keeps(g, blocks, n)
<1> DEFINE T == {k \in Nat : ~\E g : Keeps(g, blocks, k)}
<1> SUFFICES ASSUME T # {} PROVE FALSE
  OBVIOUS
<1>1. PICK x \in T : \A y \in T : x <= y
  <2>1. T \in SUBSET Nat
    OBVIOUS
  <2> HIDE DEF T
  <2> QED BY <2>1, LeastNumber
<1>2. x \in Nat /\ ~\E g : Keeps(g, blocks, x)
  OBVIOUS
<1>3. CASE x = 0
  <2> DEFINE g == [k \in 0 .. 0 |-> <<>>]
  <2>1. g = [k \in 0 .. 0 |-> IF k = 0 THEN <<>> ELSE WithBlock(g[k - 1], blocks[k])]
    OBVIOUS
  <2>2. Keeps(g, blocks, 0)
    BY <2>1 DEF Keeps
  <2> QED BY <1>2, <1>3, <2>2
<1>4. CASE x # 0
  <2>1. x - 1 \in Nat /\ x - 1 < x
    BY <1>2, <1>4
  <2>2. x - 1 \notin T
    BY <1>1, <1>2, <2>1
  <2>3. PICK g : Keeps(g, blocks, x - 1)
    BY <2>1, <2>2
  <2> DEFINE h == [k \in 0 .. x |-> IF k < x THEN g[k] ELSE WithBlock(g[x - 1], blocks[x])]
  <2>4. ASSUME NEW k \in 0 .. x
        PROVE  h[k] = IF k = 0 THEN <<>> ELSE WithBlock(h[k - 1], blocks[k])
    <3>1. g = [i \in 0 .. x - 1 |-> IF i = 0 THEN <<>> ELSE WithBlock(g[i - 1], blocks[i])]
      BY <2>3 DEF Keeps
    <3>2. CASE k = x
      <4>1. h[k] = WithBlock(g[x - 1], blocks[x])
        BY <3>2
      <4>2. k - 1 \in 0 .. x /\ k - 1 < x /\ h[k - 1] = g[x - 1]
        BY <2>1, <3>2
      <4> HIDE DEF h
      <4> QED BY <1>4, <3>2, <4>1, <4>2
    <3>3. CASE k = 0
      <4>1. h[0] = g[0] /\ g[0] = <<>>
        BY <2>1, <3>1
      <4> QED BY <3>3, <4>1
    <3>4. CASE k # x /\ k # 0
      <4>1. k \in 0 .. x - 1 /\ k - 1 \in 0 .. x /\ k - 1 < x /\ k < x
        BY <2>1, <3>4
      <4>2. h[k] = g[k] /\ h[k - 1] = g[k - 1]
        BY <4>1
      <4>3. g[k] = WithBlock(g[k - 1], blocks[k])
        BY <3>1, <3>4, <4>1
      <4> HIDE DEF h
      <4> QED BY <3>4, <4>2, <4>3
    <3> QED BY <3>2, <3>3, <3>4
  <2>5. h = [k \in 0 .. x |-> h[k]]
    OBVIOUS
  <2> HIDE DEF h
  <2>6. h = [k \in 0 .. x |-> IF k = 0 THEN <<>> ELSE WithBlock(h[k - 1], blocks[k])]
    BY <2>4, <2>5
  <2>7. Keeps(h, blocks, x)
    BY <2>6 DEF Keeps
  <2> QED BY <1>2, <2>7
<1> QED BY <1>3, <1>4

\* A block that stays.
Staying == [t : {"block"}, kind : Kind \ {"VORBIS_COMMENT", "PICTURE"}, v : {Old, New},
            last : {FALSE}]

LEMMA WithBlockStays ==
  ASSUME NEW kept \in Seq(Staying), NEW block \in Metadata
  PROVE  /\ WithBlock(kept, block) \in Seq(Staying)
         /\ kept # <<>> => WithBlock(kept, block) # <<>> /\ WithBlock(kept, block)[1] = kept[1]
         /\ kept = <<>> /\ block.kind = "STREAMINFO" =>
              WithBlock(kept, block) # <<>> /\ WithBlock(kept, block)[1].kind = "STREAMINFO"
<1>1. MaxKept \in Nat \ {0}
  BY SongFormatAssumption DEF SongFormatAssumption
<1>2. CASE ~(IsKept(block) /\ Len(kept) < MaxKept)
  <2>1. WithBlock(kept, block) = kept
    BY <1>2, Zenon DEF WithBlock
  <2>2. kept = <<>> => Len(kept) < MaxKept
    BY <1>1
  <2>3. block.kind = "STREAMINFO" => IsKept(block)
    BY DEF IsKept
  <2> QED BY <1>2, <2>1, <2>2, <2>3
<1>3. CASE IsKept(block) /\ Len(kept) < MaxKept
  <2> DEFINE b == [block EXCEPT !.last = FALSE]
  <2>1. block \in Named /\ block.kind \notin {"VORBIS_COMMENT", "PICTURE"}
    <3>1. block.kind \notin {"VORBIS_COMMENT", "PICTURE"}
      BY <1>3, Zenon DEF IsKept
    <3>2. block \notin Picked
      BY <3>1 DEF Picked
    <3> QED BY <3>1, <3>2 DEF Metadata
  <2>2. b \in Staying /\ b.kind = block.kind
    BY <2>1 DEF Named, Staying
  <2>3. WithBlock(kept, block) = Append(kept, b)
    BY <1>3, Zenon DEF WithBlock
  <2> HIDE DEF b
  <2>4. Append(kept, b) \in Seq(Staying) /\ Append(kept, b) # <<>>
        /\ Len(Append(kept, b)) = Len(kept) + 1
        /\ (\A i \in 1 .. Len(kept) : Append(kept, b)[i] = kept[i])
        /\ Append(kept, b)[Len(kept) + 1] = b
    BY <2>2, AppendProperties
  <2>5. kept # <<>> => 1 \in 1 .. Len(kept)
    OBVIOUS
  <2>6. kept = <<>> => Len(kept) + 1 = 1
    OBVIOUS
  <2> QED BY <2>2, <2>3, <2>4, <2>5, <2>6
<1> QED BY <1>2, <1>3

\* What stays of the blocks of a file that can be played.
LEMMA KeepStays ==
  ASSUME NEW blocks, Ordered(blocks)
  PROVE  Keep(blocks) \in Seq(Staying) /\ Keep(blocks) # <<>> /\ Keep(blocks)[1].kind = "STREAMINFO"
<1>1. /\ blocks \in Seq(Metadata) /\ Len(blocks) \in Nat \ {0}
      /\ \A i \in 1 .. Len(blocks) : blocks[i] \in Metadata
      /\ blocks[1].kind = "STREAMINFO"
  <2>1. blocks \in Seq(Metadata) /\ blocks # <<>> /\ blocks[1].kind = "STREAMINFO"
    BY DEF Ordered
  <2> QED BY <2>1
<1> DEFINE n == Len(blocks)
           g == CHOOSE g : Keeps(g, blocks, n)
<1>2. Keep(blocks) = g[n]
  BY DEF Keep, Keeps
<1>3. Keeps(g, blocks, n)
  BY <1>1, KeepsExists
<1> HIDE DEF g, n
<1>4. /\ g[0] = <<>>
      /\ \A k \in 1 .. n : g[k] = WithBlock(g[k - 1], blocks[k])
  <2>1. g = [k \in 0 .. n |-> IF k = 0 THEN <<>> ELSE WithBlock(g[k - 1], blocks[k])]
    BY <1>3 DEF Keeps
  <2>2. n \in Nat
    BY <1>1 DEF n
  <2>3. 0 \in 0 .. n /\ \A k \in 1 .. n : k \in 0 .. n /\ k # 0
    BY <2>2
  <2> QED BY <2>1, <2>3
<1> DEFINE Good(s) == s \in Seq(Staying) /\ s # <<>> /\ s[1].kind = "STREAMINFO"
           T       == {k \in 1 .. n : ~Good(g[k])}
<1>5. T = {}
  <2> SUFFICES ASSUME T # {} PROVE FALSE
    OBVIOUS
  <2>1. PICK x \in T : \A y \in T : x <= y
    <3>1. T \in SUBSET Nat
      OBVIOUS
    <3> HIDE DEF T
    <3> QED BY <3>1, LeastNumber
  <2>2. x \in 1 .. n /\ ~Good(g[x])
    OBVIOUS
  <2>3. blocks[x] \in Metadata /\ g[x] = WithBlock(g[x - 1], blocks[x])
    BY <1>1, <1>4, <2>2 DEF n
  <2>4. CASE x = 1
    <3>1. <<>> \in Seq(Staying) /\ blocks[x].kind = "STREAMINFO" /\ g[x] = WithBlock(<<>>, blocks[x])
      BY <1>1, <1>4, <2>3, <2>4
    <3> QED BY <2>2, <2>3, <3>1, WithBlockStays
  <2>5. CASE x # 1
    <3>1. x - 1 \in 1 .. n /\ x - 1 < x
      BY <1>1, <2>2, <2>5 DEF n
    <3>2. x - 1 \notin T
      BY <2>1, <2>2, <3>1
    <3>3. Good(g[x - 1])
      BY <3>1, <3>2
    <3> HIDE DEF T
    <3> QED BY <2>2, <2>3, <3>3, WithBlockStays
  <2> QED BY <2>4, <2>5
<1>6. n \in 1 .. n
  BY <1>1 DEF n
<1> QED BY <1>2, <1>5, <1>6

\* The blocks that flac_tag writes, and the file.
NewBlocks(kept, c) ==
  kept \o <<Block("VORBIS_COMMENT", New, c = NoCover)>>
    \o (IF c = NoCover THEN <<>> ELSE <<Picture(c, TRUE)>>)

LEMMA BlockIs ==
  ASSUME NEW last \in BOOLEAN
  PROVE  LET v == Block("VORBIS_COMMENT", New, last)
         IN  v \in Metadata /\ v.kind = "VORBIS_COMMENT" /\ v.v = New /\ v.last = last
<1> DEFINE v == Block("VORBIS_COMMENT", New, last)
<1>1. v = [t |-> "block", kind |-> "VORBIS_COMMENT", v |-> New, last |-> last]
  BY DEF Block
<1>2. "VORBIS_COMMENT" \in Kind \ {"PICTURE"} /\ New \in {Old, New}
  BY DEF Kind
<1>3. v \in Named
  BY <1>1, <1>2 DEF Named
<1> QED BY <1>1, <1>3 DEF Metadata

LEMMA PictureIs ==
  ASSUME NEW c \in SUBSET Chunk, NEW last \in BOOLEAN
  PROVE  LET p == Picture(c, last)
         IN  p \in Metadata /\ p.kind = "PICTURE" /\ p.last = last
<1> DEFINE p == Picture(c, last)
<1>1. p = [t |-> "block", kind |-> "PICTURE", cover |-> c, last |-> last]
  BY DEF Picture
<1>2. p \in Picked
  BY <1>1 DEF Picked
<1> QED BY <1>1, <1>2 DEF Metadata

LEMMA StayingIs ==
  ASSUME NEW b \in Staying
  PROVE  b \in Metadata /\ b.kind # "VORBIS_COMMENT" /\ ~b.last
<1>1. b.last \in {FALSE} /\ b.kind # "VORBIS_COMMENT"
  BY DEF Staying
<1>2. b \in Named
  BY DEF Staying, Named
<1> QED BY <1>1, <1>2 DEF Metadata

LEMMA NewBlocksAre ==
  ASSUME NEW kept \in Seq(Staying), kept # <<>>, kept[1].kind = "STREAMINFO", NEW c \in SUBSET Chunk
  PROVE  /\ Ordered(NewBlocks(kept, c))
         /\ {b.v : b \in {b \in ToSet(NewBlocks(kept, c)) : b.kind = "VORBIS_COMMENT"}} = {New}
<1> DEFINE v == Block("VORBIS_COMMENT", New, c = NoCover)
           p == Picture(c, TRUE)
           n == Len(kept)
           a == kept \o <<v>>
           new == NewBlocks(kept, c)
<1>1. /\ v \in Metadata /\ v.kind = "VORBIS_COMMENT" /\ v.v = New
      /\ v.last <=> c = NoCover
  <2>1. (c = NoCover) \in BOOLEAN
    OBVIOUS
  <2>2. v \in Metadata /\ v.kind = "VORBIS_COMMENT" /\ v.v = New /\ v.last = (c = NoCover)
    BY <2>1, BlockIs, Zenon
  <2> QED BY <2>2, Zenon
<1>2. p \in Metadata /\ p.kind = "PICTURE" /\ p.last
  BY PictureIs, Zenon
<1>3. Staying \subseteq Metadata
  BY StayingIs, Zenon
<1>4. /\ kept \in Seq(Metadata) /\ n \in Nat \ {0}
      /\ \A i \in 1 .. n : kept[i].kind # "VORBIS_COMMENT" /\ ~kept[i].last
  <2>1. \A i \in 1 .. n : kept[i] \in Staying
    OBVIOUS
  <2>2. kept \in Seq(Metadata)
    BY <1>3, SeqMonotonic
  <2>3. n \in Nat \ {0}
    OBVIOUS
  <2>4. \A i \in 1 .. n : kept[i].kind # "VORBIS_COMMENT" /\ ~kept[i].last
    BY <2>1, StayingIs, Zenon
  <2> QED BY <2>2, <2>3, <2>4
<1> HIDE DEF v, p, n
<1>5. /\ a \in Seq(Metadata) /\ Len(a) = n + 1 /\ a[n + 1] = v
      /\ \A i \in 1 .. n : a[i] = kept[i]
  BY <1>1, <1>4 DEF n
<1> HIDE DEF a
<1>6. CASE c = NoCover
  <2>1. new = a
    BY <1>5, <1>6 DEF NewBlocks, a, v
  <2>2. DOMAIN new = 1 .. n + 1
    BY <1>4, <1>5, <2>1
  <2>3. \A i \in 1 .. n + 1 : new[i].last <=> i = n + 1
    BY <1>1, <1>4, <1>5, <1>6, <2>1
  <2>4. 1 \in 1 .. n /\ n + 1 \in 1 .. n + 1
    BY <1>4
  <2>5. Ordered(new)
    BY <1>4, <1>5, <2>1, <2>3, <2>4 DEF Ordered
  <2>6. \A i \in 1 .. n + 1 : new[i].kind = "VORBIS_COMMENT" => i = n + 1
    BY <1>4, <1>5, <2>1
  <2>7. {b \in ToSet(new) : b.kind = "VORBIS_COMMENT"} = {v}
    BY <1>1, <1>5, <2>1, <2>2, <2>4, <2>6 DEF ToSet
  <2> QED BY <1>1, <2>5, <2>7
<1>7. CASE c # NoCover
  <2>1. new = a \o <<p>>
    BY <1>7 DEF NewBlocks, a, v, p
  <2>2. /\ new \in Seq(Metadata) /\ Len(new) = n + 2 /\ new[n + 2] = p
        /\ \A i \in 1 .. n + 1 : new[i] = a[i]
    BY <1>2, <1>4, <1>5, <2>1
  <2>3. DOMAIN new = 1 .. n + 2
    BY <1>4, <2>2
  <2>4. \A i \in 1 .. n + 2 : i \in 1 .. n \/ i = n + 1 \/ i = n + 2
    BY <1>4
  <2>5. 1 \in 1 .. n /\ 1 \in 1 .. n + 1 /\ n + 1 \in 1 .. n + 2 /\ n + 1 \in 1 .. n + 1
        /\ \A i \in 1 .. n : i \in 1 .. n + 1 /\ i # n + 2
    BY <1>4
  <2>6. \A i \in 1 .. n + 2 : new[i].last <=> i = n + 2
    BY <1>1, <1>2, <1>4, <1>5, <1>7, <2>2, <2>4, <2>5
  <2>7. Ordered(new)
    BY <1>4, <1>5, <2>2, <2>5, <2>6 DEF Ordered
  <2>8. \A i \in 1 .. n + 2 : new[i].kind = "VORBIS_COMMENT" => i = n + 1
    BY <1>2, <1>4, <1>5, <2>2, <2>4, <2>5
  <2>9. new[n + 1] = v
    BY <1>5, <2>2, <2>5
  <2>10. {b \in ToSet(new) : b.kind = "VORBIS_COMMENT"} = {v}
    BY <1>1, <2>3, <2>5, <2>8, <2>9 DEF ToSet
  <2> QED BY <1>1, <2>7, <2>10
<1> QED BY <1>6, <1>7

\* Tagging makes a file that can be played of one that can, whatever blocks it
\* has and however many, with one comment block: the new one.
LEMMA FlacTagged ==
  ASSUME NEW p \in Prefix, NEW blocks, Ordered(blocks), NEW c \in SUBSET Chunk
  PROVE  LET tagged == TaggedFlac(FlacFile(p, blocks), c)
         IN  IsFlac(tagged) /\ FlacPlays(tagged) /\ tagged # <<>> /\ FlacTags(tagged) = {New}
<1> DEFINE f   == FlacFile(p, blocks)
           q   == IF c = NoCover THEN <<>> ELSE <<ID3(c)>>
           k   == Keep(blocks)
           v   == <<Block("VORBIS_COMMENT", New, c = NoCover)>>
           t   == IF c = NoCover THEN <<>> ELSE <<Picture(c, TRUE)>>
           new == NewBlocks(k, c)
<1>1. q \in Prefix
  BY DEF Prefix
<1>2. k \in Seq(Staying) /\ k # <<>> /\ k[1].kind = "STREAMINFO"
  BY KeepStays
<1>3. /\ Ordered(new)
      /\ {b.v : b \in {b \in ToSet(new) : b.kind = "VORBIS_COMMENT"}} = {New}
  <2> HIDE DEF k
  <2> QED BY <1>2, NewBlocksAre
<1>4. TaggedFlac(f, c) = q \o <<Marker>> \o k \o v \o t \o <<Audio>>
  <2>1. Blocks(f) = blocks /\ AfterBlocks(f) = <<Audio>>
    BY FlacRead
  <2>2. Kept(f) = k
    BY <2>1 DEF Kept
  <2> HIDE DEF f, k
  <2> QED BY <2>1, <2>2, Zenon DEF TaggedFlac
<1>5. TaggedFlac(f, c) = FlacFile(q, new)
  <2> DEFINE R == Staying \cup {Marker, Audio, ID3(c), Block("VORBIS_COMMENT", New, c = NoCover),
                                Picture(c, TRUE)}
  <2>1. q \in Seq(R) /\ <<Marker>> \in Seq(R) /\ v \in Seq(R) /\ t \in Seq(R) /\ <<Audio>> \in Seq(R)
    <3>1. Marker \in R /\ Audio \in R /\ ID3(c) \in R /\ Picture(c, TRUE) \in R
          /\ Block("VORBIS_COMMENT", New, c = NoCover) \in R
      OBVIOUS
    <3> HIDE DEF R
    <3>2. <<>> \in Seq(R) /\ \A x \in R : <<x>> \in Seq(R)
      OBVIOUS
    <3> QED BY <3>1, <3>2, Zenon
  <2>2. k \in Seq(R)
    <3>1. Staying \subseteq R
      OBVIOUS
    <3> HIDE DEF R, k
    <3> QED BY <1>2, <3>1, SeqMonotonic
  <2> DEFINE qm == q \o <<Marker>>
  <2> HIDE DEF R, q, v, t, k
  <2>3. qm \in Seq(R)
    BY <2>1
  <2>4. k \o v \in Seq(R) /\ (k \o v) \o t \in Seq(R)
    BY <2>1, <2>2
  <2> HIDE DEF qm
  <2>5. ((qm \o k) \o v) \o t = qm \o ((k \o v) \o t)
    <3>1. (qm \o k) \o v = qm \o (k \o v)
      BY <2>1, <2>2, <2>3, ConcatAssociative
    <3>2. (qm \o (k \o v)) \o t = qm \o ((k \o v) \o t)
      <4> DEFINE kv == k \o v
      <4>1. kv \in Seq(R) /\ qm \in Seq(R) /\ t \in Seq(R)
        BY <2>1, <2>3, <2>4
      <4> HIDE DEF kv
      <4>2. (qm \o kv) \o t = qm \o (kv \o t)
        BY <4>1, ConcatAssociative
      <4> QED BY <4>2, Zenon DEF kv
    <3> QED BY <3>1, <3>2
  <2>6. new = (k \o v) \o t
    BY Zenon DEF NewBlocks, v, t
  <2> QED BY <1>4, <2>5, <2>6, Zenon DEF FlacFile, qm
<1> HIDE DEF f, q, new
<1>6. /\ IsFlac(FlacFile(q, new)) /\ FlacPlays(FlacFile(q, new)) /\ FlacFile(q, new) # <<>>
      /\ Blocks(FlacFile(q, new)) = new
  BY <1>1, <1>3, FlacRead
<1>7. FlacTags(FlacFile(q, new)) = {New}
  BY <1>3, <1>6, Zenon DEF FlacTags
<1> QED BY <1>5, <1>6, <1>7 DEF f

\* The files of the services are such files.
LEMMA OldBlockIs ==
  ASSUME NEW kind \in Kind \ {"PICTURE"}, NEW last \in BOOLEAN
  PROVE  LET v == Block(kind, Old, last)
         IN  v \in Metadata /\ v.kind = kind /\ v.last = last
<1> DEFINE v == Block(kind, Old, last)
<1>1. v = [t |-> "block", kind |-> kind, v |-> Old, last |-> last]
  BY DEF Block
<1>2. v \in Named
  BY <1>1 DEF Named
<1> QED BY <1>1, <1>2 DEF Metadata

LEMMA ServiceFlac ==
  ASSUME NEW f \in FlacFiles
  PROVE  \E p \in Prefix : \E blocks : Ordered(blocks) /\ f = FlacFile(p, blocks)
<1>1. PICK p \in {<<>>, <<ID3(Chunk)>>}, own \in OwnBlocks :
        f = FlacWith(p, own)
  BY DEF FlacFiles
<1> DEFINE s == Block("STREAMINFO", Old, own = <<>>)
           blocks == <<s>> \o own
<1>2. p \in Prefix
  BY DEF Prefix
<1>3. s \in Metadata /\ s.kind = "STREAMINFO" /\ s.last = (own = <<>>)
  <2>1. "STREAMINFO" \in Kind \ {"PICTURE"} /\ (own = <<>>) \in BOOLEAN
    BY DEF Kind
  <2> QED BY <2>1, OldBlockIs, Zenon
<1>4. /\ own \in Seq(Metadata)
      /\ \A i \in 1 .. Len(own) : own[i].last <=> i = Len(own)
  BY SongFormatAssumption DEF SongFormatAssumption
<1> HIDE DEF s
<1>5. Ordered(blocks)
  <2>1. /\ blocks \in Seq(Metadata) /\ Len(blocks) = Len(own) + 1 /\ blocks[1] = s
        /\ \A i \in 1 .. Len(own) : blocks[i + 1] = own[i]
    BY <1>3, <1>4
  <2>2. Len(own) \in Nat /\ (own = <<>> <=> Len(own) = 0)
    BY <1>4
  <2>3. blocks # <<>>
    BY <2>1, <2>2
  <2> HIDE DEF blocks
  <2>4. ASSUME NEW i \in 1 .. Len(blocks) PROVE blocks[i].last <=> i = Len(blocks)
    <3>1. CASE i = 1
      <4>1. s.last <=> Len(own) = 0
        BY <1>3, <2>2, Zenon
      <4>2. blocks[i] = s /\ (i = Len(blocks) <=> Len(own) = 0)
        BY <2>1, <2>2, <3>1
      <4> QED BY <4>1, <4>2, Zenon
    <3>2. CASE i # 1
      <4>1. i - 1 \in 1 .. Len(own) /\ (i - 1) + 1 = i
        BY <2>1, <2>2, <3>2
      <4>2. blocks[i] = own[i - 1]
        BY <2>1, <4>1
      <4> QED BY <1>4, <2>1, <2>2, <4>1, <4>2
    <3> QED BY <3>1, <3>2
  <2> QED BY <1>3, <2>1, <2>3, <2>4 DEF Ordered
<1>6. f = FlacFile(p, blocks)
  <2> DEFINE R == Metadata \cup {Marker, Audio, ID3(Chunk)}
  <2>1. /\ p \in Seq(R) /\ <<Marker>> \in Seq(R) /\ <<s>> \in Seq(R) /\ own \in Seq(R)
        /\ <<Audio>> \in Seq(R)
    <3>1. Metadata \subseteq R /\ Marker \in R /\ Audio \in R /\ ID3(Chunk) \in R /\ s \in R
      BY <1>3
    <3> HIDE DEF R
    <3>2. <<>> \in Seq(R) /\ \A x \in R : <<x>> \in Seq(R)
      OBVIOUS
    <3>3. own \in Seq(R)
      BY <1>4, <3>1, SeqMonotonic
    <3> QED BY <3>1, <3>2, <3>3, Zenon
  <2> HIDE DEF R
  <2>2. <<Marker, s>> = <<Marker>> \o <<s>>
    OBVIOUS
  <2>3. p \o (<<Marker>> \o <<s>>) = (p \o <<Marker>>) \o <<s>>
    BY <2>1, ConcatAssociative
  <2>4. p \o <<Marker>> \in Seq(R)
    BY <2>1
  <2>5. ((p \o <<Marker>>) \o <<s>>) \o own = (p \o <<Marker>>) \o (<<s>> \o own)
    BY <2>1, <2>4, ConcatAssociative
  <2> QED BY <1>1, <2>2, <2>3, <2>5, Zenon DEF FlacFile, FlacWith, s
<1> QED BY <1>2, <1>5, <1>6

-------------------------------------------------------------------------------
(* M4A files                                                               *)

\* Short sequences, by name.
One(a)         == <<a>>
Two(a, b)      == <<a, b>>
Three(a, b, c) == <<a, b, c>>

LEMMA OneIs ==
  ASSUME NEW a, NEW R, a \in R
  PROVE  One(a) \in Seq(R) /\ Len(One(a)) = 1 /\ One(a)[1] = a
BY DEF One

LEMMA TwoIs ==
  ASSUME NEW a, NEW b, NEW R, a \in R, b \in R
  PROVE  Two(a, b) \in Seq(R) /\ Len(Two(a, b)) = 2 /\ Two(a, b)[1] = a /\ Two(a, b)[2] = b
BY DEF Two

LEMMA ThreeIs ==
  ASSUME NEW a, NEW b, NEW c, NEW R, a \in R, b \in R, c \in R
  PROVE  /\ Three(a, b, c) \in Seq(R) /\ Len(Three(a, b, c)) = 3
         /\ Three(a, b, c)[1] = a /\ Three(a, b, c)[2] = b /\ Three(a, b, c)[3] = c
BY DEF Three

LEMMA UpTo ==
  /\ \A i \in 1 .. 1 : i = 1
  /\ \A i \in 1 .. 2 : i = 1 \/ i = 2
  /\ \A i \in 1 .. 3 : i = 1 \/ i = 2 \/ i = 3
OBVIOUS

LEMMA Triple ==
  ASSUME NEW a, NEW b, NEW c
  PROVE  LET f == Three(a, b, c)
         IN  /\ Two(a, b) \o One(c) = f /\ One(a) \o Two(b, c) = f
             /\ Len(f) = 3 /\ DOMAIN f = 1 .. 3 /\ f # <<>>
             /\ f[1] = a /\ f[2] = b /\ f[3] = c
             /\ SubSeq(f, 3, 3) = One(c) /\ SubSeq(f, 2, 3) = Two(b, c)
<1> DEFINE R == {a, b, c}
           f == Three(a, b, c)
<1>1. a \in R /\ b \in R /\ c \in R
  OBVIOUS
<1> HIDE DEF R
<1>2. f \in Seq(R) /\ Len(f) = 3
  BY <1>1, ThreeIs
<1>3. f[1] = a /\ f[2] = b /\ f[3] = c
  BY <1>1, ThreeIs
<1> DEFINE ab == Two(a, b)
           bc == Two(b, c)
           aa == One(a)
           cc == One(c)
<1>4. /\ ab \in Seq(R) /\ Len(ab) = 2 /\ ab[1] = a /\ ab[2] = b
      /\ bc \in Seq(R) /\ Len(bc) = 2 /\ bc[1] = b /\ bc[2] = c
      /\ aa \in Seq(R) /\ Len(aa) = 1 /\ aa[1] = a
      /\ cc \in Seq(R) /\ Len(cc) = 1 /\ cc[1] = c
  BY <1>1, TwoIs, OneIs, Zenon
<1> HIDE DEF f, ab, bc, aa, cc
<1>5. DOMAIN f = 1 .. 3 /\ f # <<>>
  BY <1>2
<1>6. f \in Seq(R) /\ Len(f) = 3 /\ f[1] = a /\ f[2] = b /\ f[3] = c
  BY <1>2, <1>3
<1>7. ASSUME NEW s \in Seq(R), NEW t \in Seq(R), Len(s) + Len(t) = 3,
             \A i \in 1 .. 3 : f[i] = IF i <= Len(s) THEN s[i] ELSE t[i - Len(s)]
      PROVE  s \o t = f
  <2>1. s \o t \in Seq(R) /\ Len(s \o t) = Len(f)
    BY <1>6, <1>7, ConcatProperties
  <2>2. \A i \in 1 .. Len(s \o t) : (s \o t)[i] = f[i]
    BY <1>6, <1>7, <2>1, ConcatProperties
  <2> QED BY <1>6, <2>1, <2>2, SeqEqual
<1>8. ab \o cc = f
  <2>1. \A i \in 1 .. 3 : f[i] = IF i <= Len(ab) THEN ab[i] ELSE cc[i - Len(ab)]
    BY <1>6, <1>4, UpTo
  <2>2. Len(ab) + Len(cc) = 3
    BY <1>4
  <2> QED BY <1>4, <1>7, <2>1, <2>2, Zenon
<1>9. aa \o bc = f
  <2>1. \A i \in 1 .. 3 : f[i] = IF i <= Len(aa) THEN aa[i] ELSE bc[i - Len(aa)]
    BY <1>6, <1>4, UpTo
  <2>2. Len(aa) + Len(bc) = 3
    BY <1>4
  <2> QED BY <1>4, <1>7, <2>1, <2>2, Zenon
<1>10. ASSUME NEW m \in 1 .. 3
      PROVE  /\ SubSeq(f, m, 3) \in Seq(R) /\ Len(SubSeq(f, m, 3)) = 4 - m
             /\ \A i \in 1 .. 4 - m : SubSeq(f, m, 3)[i] = f[m + i - 1]
  <2>1. \A i \in m .. 3 : f[i] \in R
    BY <1>2
  <2> QED BY <2>1, SubSeqProperties
<1>11. SubSeq(f, 3, 3) = cc
  <2>1. SubSeq(f, 3, 3) \in Seq(R) /\ Len(SubSeq(f, 3, 3)) = 1 /\ SubSeq(f, 3, 3)[1] = c
    BY <1>6, <1>10
  <2>2. \A i \in 1 .. Len(SubSeq(f, 3, 3)) : SubSeq(f, 3, 3)[i] = cc[i]
    BY <1>4, <2>1, UpTo
  <2> QED BY <1>4, <2>1, <2>2, SeqEqual
<1>12. SubSeq(f, 2, 3) = bc
  <2>1. /\ SubSeq(f, 2, 3) \in Seq(R) /\ Len(SubSeq(f, 2, 3)) = 2
        /\ SubSeq(f, 2, 3)[1] = b /\ SubSeq(f, 2, 3)[2] = c
    BY <1>6, <1>10
  <2>2. \A i \in 1 .. Len(SubSeq(f, 2, 3)) : SubSeq(f, 2, 3)[i] = bc[i]
    BY <1>4, <2>1, UpTo
  <2> QED BY <1>4, <2>1, <2>2, SeqEqual
<1> QED BY <1>6, <1>5, <1>8, <1>9, <1>11, <1>12 DEF f, ab, bc, aa, cc

LEMMA Joined ==
  ASSUME NEW R, NEW t \in Seq(R), NEW u \in Seq(R)
  PROVE  /\ t \o u \in Seq(R) /\ Len(t \o u) = Len(t) + Len(u)
         /\ \A i \in 1 .. Len(t) : (t \o u)[i] = t[i]
         /\ \A i \in 1 .. Len(u) : (t \o u)[Len(t) + i] = u[i]
OBVIOUS

LEMMA FourOf ==
  ASSUME NEW R, NEW t \in Seq(R), NEW u \in Seq(R)
  PROVE  Len(t) = 3 /\ Len(u) = 1 =>
           /\ t \o u \in Seq(R) /\ Len(t \o u) = 4
           /\ (t \o u)[1] = t[1] /\ (t \o u)[2] = t[2] /\ (t \o u)[3] = t[3]
           /\ (t \o u)[4] = u[1]
<1> DEFINE s == t \o u
<1>1. /\ s \in Seq(R) /\ Len(s) = Len(t) + Len(u)
      /\ \A i \in 1 .. Len(t) : s[i] = t[i]
      /\ \A i \in 1 .. Len(u) : s[Len(t) + i] = u[i]
  BY Joined
<1> HIDE DEF s
<1> SUFFICES ASSUME Len(t) = 3, Len(u) = 1
             PROVE  s \in Seq(R) /\ Len(s) = 4 /\ s[1] = t[1] /\ s[2] = t[2] /\ s[3] = t[3] /\ s[4] = u[1]
  BY DEF s
<1>2. Len(s) = 4
  BY <1>1
<1>3. 1 \in 1 .. Len(t) /\ 2 \in 1 .. Len(t) /\ 3 \in 1 .. Len(t) /\ 1 \in 1 .. Len(u)
      /\ Len(t) + 1 = 4
  OBVIOUS
<1>4. s[1] = t[1] /\ s[2] = t[2] /\ s[3] = t[3] /\ s[4] = u[1]
  BY <1>1, <1>3, Zenon
<1> QED BY <1>1, <1>2, <1>4

LEMMA OneBox ==
  ASSUME NEW f, NEW type, NEW i \in Int, BoxesOf(f, type) = {i}
  PROVE  LastBox(f, type) = i /\ FirstBox(f, type) = i
BY DEF LastBox, FirstBox

\* The positions of the second and the third part.
LEMMA Positions ==
  ASSUME NEW f, f[1].size \in Int, f[2].size \in Int
  PROVE  Position(f, 2) = f[1].size /\ Position(f, 3) = f[1].size + f[2].size
<1> DEFINE Begins(g, i) == g = [j \in 1 .. i |-> IF j = 1 THEN 0 ELSE g[j - 1] + f[j - 1].size]
           sum == [j \in 1 .. 3 |-> IF j = 1 THEN 0 ELSE IF j = 2 THEN f[1].size
                                    ELSE f[1].size + f[2].size]
           sum2 == [j \in 1 .. 2 |-> IF j = 1 THEN 0 ELSE f[1].size]
           h == CHOOSE g : Begins(g, 3)
           h2 == CHOOSE g : Begins(g, 2)
<1>1. Begins(sum, 3) /\ Begins(sum2, 2)
  <2>1. ASSUME NEW j \in 1 .. 3
        PROVE  sum[j] = IF j = 1 THEN 0 ELSE sum[j - 1] + f[j - 1].size
    <3>1. j = 1 \/ j = 2 \/ j = 3
      OBVIOUS
    <3> QED BY <3>1
  <2>2. ASSUME NEW j \in 1 .. 2
        PROVE  sum2[j] = IF j = 1 THEN 0 ELSE sum2[j - 1] + f[j - 1].size
    <3>1. j = 1 \/ j = 2
      OBVIOUS
    <3> QED BY <3>1
  <2> QED BY <2>1, <2>2
<1>2. Position(f, 3) = h[3] /\ Position(f, 2) = h2[2]
  BY DEF Position
<1>3. Begins(h, 3) /\ Begins(h2, 2)
  <2> HIDE DEF Begins, sum, sum2
  <2> QED BY <1>1
<1> HIDE DEF h, h2, sum, sum2
<1>4. h[1] = 0 /\ h[2] = h[1] + f[1].size /\ h[3] = h[2] + f[2].size
  BY <1>3
<1>5. h2[1] = 0 /\ h2[2] = h2[1] + f[1].size
  BY <1>3
<1> QED BY <1>2, <1>4, <1>5

LEMMA MoovIs ==
  ASSUME NEW tags, NEW c, NEW at
  PROVE  LET moov == Moov(tags, c, at)
         IN  /\ moov.t = "moov" /\ moov.size = 2 + UdtaSize(tags, c)
             /\ moov.tags = tags /\ moov.at = at
BY DEF Moov

LEMMA UdtaSizeIs ==
  ASSUME NEW tags, NEW c
  PROVE  UdtaSize(tags, c) \in Nat
BY DEF UdtaSize

LEMMA TaggedM4aIs ==
  ASSUME NEW f, NEW c, NEW m \in Int, NEW d \in Int,
         LastBox(f, "moov") = m, LastBox(f, "mdat") = d, LastBox(f, "ftyp") = 1
  PROVE  LET size == Moov(<<New>>, c, 0).size
         IN  /\ m < d => TaggedM4a(f, c) =
                  Two(f[1], Moov(<<New>>, c, f[m].at + size - f[m].size)) \o SubSeq(f, d, Len(f))
             /\ d < m => TaggedM4a(f, c) =
                  One(f[1]) \o SubSeq(f, d, Len(f)) \o One(Moov(<<New>>, c, f[m].at))
<1> DEFINE size == Moov(<<New>>, c, 0).size
           moov == Moov(<<New>>, c, NewAt(f[m], m, d, size))
<1>1. NewTags(f[m].tags) = <<New>>
  BY DEF NewTags
<1>2. TaggedM4a(f, c) = IF m < d THEN Two(f[1], moov) \o SubSeq(f, d, Len(f))
                        ELSE One(f[1]) \o SubSeq(f, d, Len(f)) \o One(moov)
  BY <1>1, Zenon DEF TaggedM4a, One, Two
<1>3. m < d => NewAt(f[m], m, d, size) = f[m].at + size - f[m].size
  <2> HIDE DEF size
  <2> QED BY DEF NewAt
<1>4. d < m => NewAt(f[m], m, d, size) = f[m].at /\ ~(m < d)
  BY DEF NewAt
<1> QED BY <1>2, <1>3, <1>4, Zenon

\* A file whose moov comes first is played, and is still when it is tagged.
LEMMA MoovFirstTagged ==
  ASSUME NEW tags, NEW c
  PROVE  LET f == MoovFirst(tags)
             tagged == TaggedM4a(f, c)
         IN  /\ ~IsFlac(f) /\ M4aPlays(f) /\ f # <<>>
             /\ ~IsFlac(tagged) /\ M4aPlays(tagged) /\ tagged # <<>> /\ M4aTags(tagged) = <<New>>
<1>1. ASSUME NEW moov, moov.t = "moov", moov.size \in Int, moov.at = 1 + moov.size
      PROVE  LET f == Three(Ftyp, moov, Mdat)
             IN  /\ ~IsFlac(f) /\ M4aPlays(f) /\ f # <<>> /\ M4aTags(f) = moov.tags
                 /\ LastBox(f, "moov") = 2 /\ LastBox(f, "mdat") = 3 /\ LastBox(f, "ftyp") = 1
                 /\ SubSeq(f, 3, Len(f)) = One(Mdat) /\ f[1] = Ftyp /\ f[2] = moov
  <2> DEFINE f == Three(Ftyp, moov, Mdat)
  <2>1. /\ DOMAIN f = 1 .. 3 /\ f[1] = Ftyp /\ f[2] = moov /\ f[3] = Mdat /\ f # <<>>
        /\ Len(f) = 3 /\ SubSeq(f, 3, 3) = One(Mdat)
    BY Triple
  <2> HIDE DEF f
  <2>2. f[1].t = "ftyp" /\ f[2].t = "moov" /\ f[3].t = "mdat" /\ f[1].size = 1
    BY <1>1, <2>1 DEF Ftyp, Mdat
  <2>3. BoxesOf(f, "moov") = {2} /\ BoxesOf(f, "mdat") = {3} /\ BoxesOf(f, "ftyp") = {1}
    BY <2>1, <2>2 DEF BoxesOf
  <2>4. /\ LastBox(f, "moov") = 2 /\ LastBox(f, "mdat") = 3 /\ LastBox(f, "ftyp") = 1
        /\ FirstBox(f, "moov") = 2 /\ FirstBox(f, "mdat") = 3
    BY <2>3, OneBox
  <2>5. Position(f, 3) = 1 + moov.size
    BY <1>1, <2>1, <2>2, Positions
  <2>6. M4aPlays(f)
    BY <1>1, <2>1, <2>3, <2>4, <2>5 DEF M4aPlays
  <2>7. ~IsFlac(f)
    BY <2>2 DEF IsFlac, MarkerAt
  <2>8. M4aTags(f) = moov.tags
    BY <2>1, <2>4 DEF M4aTags
  <2> QED BY <2>1, <2>4, <2>6, <2>7, <2>8 DEF f
<1> DEFINE old == Moov(tags, NoCover, 1 + Moov(tags, NoCover, 0).size)
           f == MoovFirst(tags)
           size == Moov(<<New>>, c, 0).size
           new == Moov(<<New>>, c, old.at + size - old.size)
<1>2. old.t = "moov" /\ old.size \in Int /\ old.at = 1 + old.size
  BY MoovIs, UdtaSizeIs
<1>3. f = Three(Ftyp, old, Mdat)
  BY DEF MoovFirst, Three
<1>4. new.t = "moov" /\ new.size = size /\ size \in Int /\ new.at = 1 + new.size
      /\ new.tags = <<New>>
  <2>1. /\ new.t = "moov" /\ new.size = size /\ size \in Int /\ new.tags = <<New>>
        /\ new.at = old.at + size - old.size
    BY MoovIs, UdtaSizeIs
  <2> HIDE DEF new, old, size
  <2> QED BY <1>2, <2>1
<1> HIDE DEF f, old, size
<1>5. TaggedM4a(f, c) = Three(Ftyp, new, Mdat)
  <2>1. /\ LastBox(f, "moov") = 2 /\ LastBox(f, "mdat") = 3 /\ LastBox(f, "ftyp") = 1
        /\ SubSeq(f, 3, Len(f)) = One(Mdat) /\ f[1] = Ftyp /\ f[2] = old
    BY <1>1, <1>2, <1>3
  <2>2. 2 \in Int /\ 3 \in Int /\ 2 < 3
    OBVIOUS
  <2>3. TaggedM4a(f, c) = Two(f[1], Moov(<<New>>, c, f[2].at + size - f[2].size))
                            \o SubSeq(f, 3, Len(f))
    BY <2>1, <2>2, TaggedM4aIs, Zenon DEF size
  <2>4. TaggedM4a(f, c) = Two(Ftyp, new) \o One(Mdat)
    BY <2>1, <2>3, Zenon DEF new
  <2> HIDE DEF new
  <2>5. Two(Ftyp, new) \o One(Mdat) = Three(Ftyp, new, Mdat)
    BY Triple
  <2> QED BY <2>4, <2>5, Zenon
<1> HIDE DEF new
<1> QED BY <1>1, <1>2, <1>3, <1>4, <1>5 DEF f

\* So is one whose audio comes first.
LEMMA AudioFirstTagged ==
  ASSUME NEW tags, NEW c
  PROVE  LET f == AudioFirst(tags)
             tagged == TaggedM4a(f, c)
         IN  /\ ~IsFlac(f) /\ M4aPlays(f) /\ f # <<>> /\ f[2].t = "mdat"
             /\ ~IsFlac(tagged) /\ M4aPlays(tagged) /\ tagged # <<>>
<1> DEFINE old == Moov(tags, NoCover, 1)
           f == AudioFirst(tags)
           new == Moov(<<New>>, c, 1)
           tagged == TaggedM4a(f, c)
<1>1. old.t = "moov" /\ old.at = 1 /\ new.t = "moov" /\ Ftyp.t = "ftyp" /\ Mdat.t = "mdat"
      /\ Ftyp.size = 1 /\ Mdat.size = 3
  BY MoovIs DEF Ftyp, Mdat
<1>2. f = Three(Ftyp, Mdat, old)
  BY DEF AudioFirst, Three
<1> HIDE DEF old, f
<1>3. /\ DOMAIN f = 1 .. 3 /\ f[1] = Ftyp /\ f[2] = Mdat /\ f[3] = old /\ f # <<>> /\ Len(f) = 3
      /\ SubSeq(f, 2, 3) = Two(Mdat, old)
  BY <1>2, Triple
<1>4. BoxesOf(f, "moov") = {3} /\ BoxesOf(f, "mdat") = {2} /\ BoxesOf(f, "ftyp") = {1}
  BY <1>1, <1>3 DEF BoxesOf
<1>5. /\ LastBox(f, "moov") = 3 /\ LastBox(f, "mdat") = 2 /\ LastBox(f, "ftyp") = 1
      /\ FirstBox(f, "moov") = 3 /\ FirstBox(f, "mdat") = 2
  BY <1>4, OneBox
<1>6. M4aPlays(f)
  <2>1. Position(f, 2) = 1
    BY <1>1, <1>3, Positions
  <2> QED BY <1>1, <1>3, <1>4, <1>5, <2>1 DEF M4aPlays
<1>7. ~IsFlac(f)
  BY <1>1, <1>3 DEF IsFlac, MarkerAt
<1>8. tagged = Three(Ftyp, Mdat, old) \o One(new)
  <2>1. 2 \in Int /\ 3 \in Int /\ 2 < 3
    OBVIOUS
  <2>2. tagged = One(f[1]) \o SubSeq(f, 2, Len(f)) \o One(Moov(<<New>>, c, f[3].at))
    BY <1>5, <2>1, TaggedM4aIs, Zenon
  <2>3. tagged = One(Ftyp) \o Two(Mdat, old) \o One(new)
    BY <1>1, <1>3, <2>2, Zenon DEF new
  <2>4. One(Ftyp) \o Two(Mdat, old) = Three(Ftyp, Mdat, old)
    BY Triple
  <2> QED BY <2>3, <2>4, Zenon
<1> HIDE DEF tagged, new
<1>9. /\ DOMAIN tagged = 1 .. 4 /\ tagged[1] = Ftyp /\ tagged[2] = Mdat /\ tagged[3] = old
      /\ tagged[4] = new /\ tagged # <<>>
  <2> DEFINE R == {Ftyp, Mdat, old, new}
             t == Three(Ftyp, Mdat, old)
             u == One(new)
  <2>1. Ftyp \in R /\ Mdat \in R /\ old \in R /\ new \in R
    OBVIOUS
  <2> HIDE DEF R
  <2>2. t \in Seq(R) /\ Len(t) = 3 /\ u \in Seq(R) /\ Len(u) = 1
    BY <2>1, ThreeIs, OneIs
  <2>3. t[1] = Ftyp /\ t[2] = Mdat /\ t[3] = old /\ u[1] = new
    BY <2>1, ThreeIs, OneIs
  <2> HIDE DEF t, u
  <2>4. /\ t \o u \in Seq(R) /\ Len(t \o u) = 4
        /\ (t \o u)[1] = t[1] /\ (t \o u)[2] = t[2] /\ (t \o u)[3] = t[3]
        /\ (t \o u)[4] = u[1]
    BY <2>2, FourOf
  <2>5. DOMAIN (t \o u) = 1 .. 4 /\ t \o u # <<>>
    BY <2>4
  <2>6. tagged = t \o u
    BY <1>8, Zenon DEF t, u
  <2> QED BY <2>3, <2>4, <2>5, <2>6
<1>10. BoxesOf(tagged, "moov") = {3, 4} /\ BoxesOf(tagged, "mdat") = {2}
  BY <1>1, <1>9 DEF BoxesOf
<1>11. FirstBox(tagged, "moov") = 3 /\ FirstBox(tagged, "mdat") = 2
  BY <1>10 DEF FirstBox
<1>12. M4aPlays(tagged)
  <2>1. Position(tagged, 2) = 1
    BY <1>1, <1>9, Positions
  <2> QED BY <1>1, <1>9, <1>10, <1>11, <2>1 DEF M4aPlays
<1>13. ~IsFlac(tagged)
  BY <1>1, <1>9 DEF IsFlac, MarkerAt
<1> QED BY <1>1, <1>3, <1>6, <1>7, <1>9, <1>12, <1>13 DEF f, tagged

-------------------------------------------------------------------------------
(* Both formats                                                            *)

LEMMA NoneIsNoFile ==
  ASSUME NEW f \in ServiceFiles, NEW c \in SUBSET Chunk
  PROVE  f # None /\ Tagged(f, c) # None
BY TagFileAssumption DEF TagFileAssumption

LEMMA FlacService ==
  ASSUME NEW f \in FlacFiles, NEW c \in SUBSET Chunk
  PROVE  /\ Plays(f) /\ f # <<>> /\ Plays(Tagged(f, c)) /\ Tagged(f, c) # <<>>
         /\ IsFlac(Tagged(f, c)) /\ FlacTags(Tagged(f, c)) = {New}
<1>1. PICK p \in Prefix : \E blocks : Ordered(blocks) /\ f = FlacFile(p, blocks)
  BY ServiceFlac
<1>2. PICK blocks : Ordered(blocks) /\ f = FlacFile(p, blocks)
  BY <1>1
<1>3. IsFlac(f) /\ FlacPlays(f) /\ f # <<>>
  BY <1>2, FlacRead
<1>4. /\ IsFlac(TaggedFlac(f, c)) /\ FlacPlays(TaggedFlac(f, c)) /\ TaggedFlac(f, c) # <<>>
      /\ FlacTags(TaggedFlac(f, c)) = {New}
  BY <1>2, FlacTagged
<1>5. Tagged(f, c) = TaggedFlac(f, c)
  BY <1>3 DEF Tagged
<1> QED BY <1>3, <1>4, <1>5 DEF Plays

LEMMA M4aService ==
  ASSUME NEW f \in M4aFiles, NEW c \in SUBSET Chunk
  PROVE  /\ Plays(f) /\ f # <<>> /\ Plays(Tagged(f, c)) /\ Tagged(f, c) # <<>>
         /\ ~IsFlac(Tagged(f, c))
         /\ f[2].t = "moov" => M4aTags(Tagged(f, c)) = <<New>>
<1>1. PICK tags \in {<<>>, <<Old>>} : f \in {MoovFirst(tags), AudioFirst(tags)}
  BY DEF M4aFiles
<1>2. /\ ~IsFlac(f) /\ M4aPlays(f) /\ f # <<>>
      /\ ~IsFlac(TaggedM4a(f, c)) /\ M4aPlays(TaggedM4a(f, c)) /\ TaggedM4a(f, c) # <<>>
      /\ f[2].t = "moov" => M4aTags(TaggedM4a(f, c)) = <<New>>
  <2>1. CASE f = MoovFirst(tags)
    BY <2>1, MoovFirstTagged
  <2>2. CASE f = AudioFirst(tags)
    BY <2>2, AudioFirstTagged
  <2> QED BY <1>1, <2>1, <2>2
<1>3. Tagged(f, c) = TaggedM4a(f, c)
  BY <1>2 DEF Tagged
<1> QED BY <1>2, <1>3 DEF Plays

\* SongFormat: every file of a service can be played, and so can what the tagger
\* makes of it with any part of a cover; for FLAC whatever is left out when there
\* are more blocks than fit.
THEOREM FormatsKeepPlaying == KeepsPlaying
<1> SUFFICES ASSUME NEW f \in ServiceFiles
             PROVE  IsSong(f) /\ \A c \in SUBSET Chunk : IsSong(Tagged(f, c))
  BY DEF KeepsPlaying
<1>1. ASSUME NEW c \in SUBSET Chunk
      PROVE  Plays(f) /\ f # <<>> /\ Plays(Tagged(f, c)) /\ Tagged(f, c) # <<>>
  BY FlacService, M4aService DEF ServiceFiles
<1>2. Plays(f) /\ f # <<>> /\ f # None
  <2>1. {} \in SUBSET Chunk
    OBVIOUS
  <2> QED BY <1>1, <2>1, NoneIsNoFile
<1> QED BY <1>1, <1>2, NoneIsNoFile DEF IsSong

-------------------------------------------------------------------------------
(* The song                                                                *)

\* Where rename() replaces, the song is what came until NAME.sqttmp takes its
\* place, and that holds the tagged song whole, unless its end was lost.
OldUntilRenamed(s) ==
  /\ pc[s] # "tagged" => song[s] = came[s]
  /\ pc[s] \in Before \cup {"failed"} => side[s] = None
  /\ pc[s] = "close" => side[s] = Tagged(came[s], pic[s])
  /\ pc[s] = "rename" /\ ~lost[s] => side[s] = Tagged(came[s], pic[s])
  /\ pc[s] = "tagged" /\ ~lost[s] => song[s] = Tagged(came[s], pic[s])
  /\ pc[s] # "remove"

SongInv == ~windows => \A s \in Song : OldUntilRenamed(s)

\* A step of one song leaves the others alone.
LEMMA OthersStay ==
  ASSUME TypeOK, ~windows, NEW s \in Song, NEW o \in Song, o # s, OldUntilRenamed(o),
         Cover(s) \/ Tag(s)
  PROVE  OldUntilRenamed(o)'
<1> SUFFICES UNCHANGED <<came[o], song[o], side[o], pc[o], pic[o], lost[o]>>
  BY DEF OldUntilRenamed, Before
<1> USE DEF TypeOK, files, cover, Goto, HasCover
<1>1. CASE Cover(s)
  BY <1>1 DEF Cover, Start, CheckHit, CheckMiss, Open, OpenFails, Fetch, FetchEnds,
              FetchedNothing, FetchFails
<1>2. CASE Tag(s)
  BY <1>2 DEF Tag, Read, GiveUp, OpenSide, Write, WriteFails, AfterShortWrite, Close,
              RemoveSong, Rename, RenameFails
<1> QED BY <1>1, <1>2

\* What a step does to its own song.
LEMMA OwnStep ==
  ASSUME TypeOK, ~windows, NEW s \in Song, OldUntilRenamed(s), Cover(s) \/ Tag(s)
  PROVE  OldUntilRenamed(s)'
<1> USE DEF TypeOK, files, cover, Goto, OldUntilRenamed, Before
<1>1. CASE Cover(s)
  <2>1. /\ pc'[s] \in {"check", "open", "fetch", "read"}
        /\ pc[s] \in {"waiting", "check", "open", "fetch"}
    BY <1>1 DEF Cover, Start, CheckHit, CheckMiss, Open, OpenFails, Fetch, FetchEnds,
                FetchedNothing, FetchFails, HasCover
  <2>2. UNCHANGED <<windows, came, song, side, pic, lost>>
    BY <1>1 DEF Cover, Start, CheckHit, CheckMiss, Open, OpenFails, Fetch, FetchEnds,
                FetchedNothing, FetchFails
  <2> QED BY <2>1, <2>2
<1>2. CASE Read(s)
  BY <1>2 DEF Read
<1>3. CASE GiveUp(s)
  BY <1>3 DEF GiveUp
<1>4. CASE OpenSide(s)
  BY <1>4 DEF OpenSide
<1>5. CASE Write(s)
  BY <1>5 DEF Write
<1>6. CASE WriteFails(s)
  BY <1>6 DEF WriteFails, AfterShortWrite
<1>7. CASE Close(s)
  BY <1>7 DEF Close
<1>8. CASE RemoveSong(s)
  BY <1>8 DEF RemoveSong
<1>9. CASE Rename(s)
  BY <1>9 DEF Rename
<1>10. CASE RenameFails(s)
  BY <1>10 DEF RenameFails
<1> QED BY <1>1, <1>2, <1>3, <1>4, <1>5, <1>6, <1>7, <1>8, <1>9, <1>10 DEF Tag

LEMMA SongInvariant == Spec => []SongInv
<1>1. Init => SongInv
  BY DEF Init, SongInv, OldUntilRenamed, Before
<1>2. TypeOK /\ SongInv /\ [Next]_vars => SongInv'
  <2> SUFFICES ASSUME TypeOK, SongInv, [Next]_vars, ~windows', NEW o \in Song
               PROVE  OldUntilRenamed(o)'
    BY DEF SongInv
  <2>1. CASE UNCHANGED vars
    BY <2>1 DEF vars, SongInv, OldUntilRenamed, Before
  <2>2. CASE Kill
    <3>1. UNCHANGED <<windows, came, song, side, pic, lost>>
      BY <2>2 DEF Kill, files
    <3>2. pc'[o] \in {pc[o], "killed"} /\ (pc'[o] = "killed" => pc[o] # "tagged")
      BY <2>2 DEF Kill, Active, Ended, SongInv, OldUntilRenamed, TypeOK
    <3> QED BY <3>1, <3>2 DEF SongInv, OldUntilRenamed, Before
  <2>3. ASSUME NEW s \in Song, Cover(s) \/ Tag(s) PROVE OldUntilRenamed(o)'
    <3>1. windows' = windows
      <4>1. CASE Cover(s)
        BY <4>1 DEF Cover, Start, CheckHit, CheckMiss, Open, OpenFails, Fetch, FetchEnds,
                    FetchedNothing, FetchFails, files
      <4>2. CASE Tag(s)
        BY <4>2 DEF Tag, Read, GiveUp, OpenSide, Write, WriteFails, AfterShortWrite, Close,
                    RemoveSong, Rename, RenameFails, files
      <4> QED BY <2>3, <4>1, <4>2
    <3>2. ~windows /\ OldUntilRenamed(o)
      BY <3>1 DEF SongInv
    <3> QED BY <2>3, <3>2, OthersStay, OwnStep
  <2> QED BY <2>1, <2>2, <2>3 DEF Next
<1> QED BY <1>1, <1>2, TypeCorrect, PTL DEF Spec

\* A tagging that fails leaves the song as it came, for any number of songs.
THEOREM FailuresLeaveNothing == Spec => []FailureLeavesNothing
<1>1. SongInv => FailureLeavesNothing
  BY DEF SongInv, OldUntilRenamed, FailureLeavesNothing
<1> QED BY <1>1, SongInvariant, PTL

\* There is no moment without a song that plays, for any number of songs, any cover
\* and any sequences of blocks in the FLAC files that come (OwnBlocks): what
\* KeepsPlaying says of the formats, the steps carry through every interleaving,
\* failure and kill.
THEOREM SongsAlwaysPlay == Spec => []SongPlays
<1>1. TypeOK /\ SongInv => SongPlays
  <2> SUFFICES ASSUME TypeOK, SongInv, NEW s \in Song, ~windows, ~lost[s]
               PROVE  IsSong(song[s])
    BY DEF SongPlays
  <2>1. came[s] \in ServiceFiles /\ pic[s] \in SUBSET Chunk
    BY DEF TypeOK
  <2>2. IsSong(came[s]) /\ IsSong(Tagged(came[s], pic[s]))
    BY <2>1, FormatsKeepPlaying DEF KeepsPlaying
  <2>3. song[s] \in {came[s], Tagged(came[s], pic[s])}
    BY DEF SongInv, OldUntilRenamed
  <2> QED BY <2>2, <2>3
<1> QED BY <1>1, TypeCorrect, SongInvariant, PTL

\* On either system, a song that was tagged is what the tagger made of what came.
TagInv(s) ==
  /\ pc[s] \in Before \cup {"waiting", "write"} => song[s] = came[s]
  /\ pc[s] = "close" => side[s] = Tagged(came[s], pic[s])
  /\ pc[s] \in {"remove", "rename"} /\ ~lost[s] => side[s] = Tagged(came[s], pic[s])
  /\ pc[s] = "tagged" /\ ~lost[s] => song[s] = Tagged(came[s], pic[s])

LEMMA TagStep ==
  ASSUME TypeOK, NEW s \in Song, NEW o \in Song, TagInv(o), Cover(s) \/ Tag(s)
  PROVE  TagInv(o)'
<1>1. CASE o # s
  <2>1. UNCHANGED <<came[o], song[o], side[o], pc[o], pic[o], lost[o]>>
    <3> USE DEF TypeOK, files, cover, Goto, HasCover
    <3>1. CASE Cover(s)
      BY <1>1, <3>1 DEF Cover, Start, CheckHit, CheckMiss, Open, OpenFails, Fetch, FetchEnds,
                        FetchedNothing, FetchFails
    <3>2. CASE Read(s) \/ GiveUp(s) \/ OpenSide(s) \/ Write(s) \/ WriteFails(s) \/ Close(s)
      BY <1>1, <3>2 DEF Read, GiveUp, OpenSide, Write, WriteFails, AfterShortWrite, Close
    <3>3. CASE RemoveSong(s) \/ Rename(s) \/ RenameFails(s)
      BY <1>1, <3>3 DEF RemoveSong, Rename, RenameFails
    <3> QED BY <3>1, <3>2, <3>3 DEF Tag
  <2> QED BY <2>1 DEF TagInv
<1>2. CASE o = s
  <2> USE DEF TypeOK, files, cover, Goto, HasCover, TagInv, Before
  <2>1. CASE Cover(s)
    BY <1>2, <2>1 DEF Cover, Start, CheckHit, CheckMiss, Open, OpenFails, Fetch, FetchEnds,
                      FetchedNothing, FetchFails
  <2>2. CASE Read(s) \/ GiveUp(s) \/ OpenSide(s)
    BY <1>2, <2>2 DEF Read, GiveUp, OpenSide
  <2>3. CASE Write(s)
    BY <1>2, <2>3 DEF Write
  <2>4. CASE WriteFails(s)
    BY <1>2, <2>4 DEF WriteFails, AfterShortWrite
  <2>5. CASE Close(s)
    BY <1>2, <2>5 DEF Close
  <2>6. CASE RemoveSong(s)
    BY <1>2, <2>6 DEF RemoveSong
  <2>7. CASE Rename(s)
    BY <1>2, <2>7 DEF Rename
  <2>8. CASE RenameFails(s)
    BY <1>2, <2>8 DEF RenameFails
  <2> QED BY <2>1, <2>2, <2>3, <2>4, <2>5, <2>6, <2>7, <2>8 DEF Tag
<1> QED BY <1>1, <1>2

LEMMA TagInvariant == Spec => [](\A s \in Song : TagInv(s))
<1>1. Init => \A s \in Song : TagInv(s)
  BY DEF Init, TagInv, Before
<1>2. TypeOK /\ (\A s \in Song : TagInv(s)) /\ [Next]_vars => (\A s \in Song : TagInv(s))'
  <2> SUFFICES ASSUME TypeOK, \A s \in Song : TagInv(s), [Next]_vars, NEW o \in Song
               PROVE  TagInv(o)'
    OBVIOUS
  <2>1. CASE UNCHANGED vars
    BY <2>1 DEF vars, TagInv
  <2>2. CASE Kill
    <3>1. UNCHANGED <<came, song, side, pic, lost>>
      BY <2>2 DEF Kill, files
    <3>2. pc'[o] \in {pc[o], "killed"}
      BY <2>2 DEF Kill
    <3> QED BY <3>1, <3>2 DEF TagInv, Before
  <2>3. ASSUME NEW s \in Song, Cover(s) \/ Tag(s) PROVE TagInv(o)'
    BY <2>3, TagStep
  <2> QED BY <2>1, <2>2, <2>3 DEF Next
<1> QED BY <1>1, <1>2, TypeCorrect, PTL DEF Spec

\* A song that was tagged has the new tags and no others, on either system and
\* for any number of songs, except for an M4A whose audio comes first.
THEOREM TagsAreTaken == Spec => []TagsTaken
<1>1. TypeOK /\ (\A s \in Song : TagInv(s)) => TagsTaken
  <2> SUFFICES ASSUME TypeOK, NEW s \in Song, TagInv(s), pc[s] = "tagged", ~lost[s]
               PROVE  IF IsFlac(song[s]) THEN FlacTags(song[s]) = {New}
                      ELSE came[s][2].t = "moov" => M4aTags(song[s]) = <<New>>
    BY DEF TagsTaken
  <2>1. came[s] \in ServiceFiles /\ pic[s] \in SUBSET Chunk
    BY DEF TypeOK
  <2>2. song[s] = Tagged(came[s], pic[s])
    BY DEF TagInv
  <2>3. CASE came[s] \in FlacFiles
    BY <2>1, <2>2, <2>3, FlacService
  <2>4. CASE came[s] \in M4aFiles
    BY <2>1, <2>2, <2>4, M4aService
  <2> QED BY <2>1, <2>3, <2>4 DEF ServiceFiles
<1> QED BY <1>1, TagInvariant, TypeCorrect, PTL

-------------------------------------------------------------------------------
(* The cover                                                               *)

\* It has written all its pieces, as far as it is, and they are in the file.
AllThere(o, file) == fd[o] = file /\ \A n \in Chunk : n <= got[o] => n \in piece[file]

\* The cover in the cache is whole, or one of those who write to its file finds
\* there all the pieces it has written: the last one that opened it.
CoverInv ==
  coverAt # None /\ ~spoilt =>
    piece[coverAt] = Chunk \/ \E o \in Song : AllThere(o, coverAt)

\* Nothing is counted outside the fetch, and no picture is there before Read.
NothingYet ==
  \A s \in Song :
    /\ pc[s] # "fetch" => got[s] = 0
    /\ pc[s] \in {"waiting", "check", "open", "fetch", "read"} => pic[s] = NoCover

LEMMA CoverInvariant == Spec => [](NothingYet /\ CoverInv)
<1>1. Init => NothingYet /\ CoverInv
  BY DEF Init, NothingYet, CoverInv
<1>2. TypeOK /\ NothingYet /\ [Next]_vars => NothingYet'
  <2> SUFFICES ASSUME TypeOK, NothingYet, [Next]_vars PROVE NothingYet'
    OBVIOUS
  <2> USE DEF TypeOK, NothingYet, Goto, HasCover, files, cover
  <2>1. CASE UNCHANGED vars
    BY <2>1 DEF vars
  <2>2. CASE Kill
    BY <2>2 DEF Kill
  <2>3. ASSUME NEW s \in Song, Cover(s) PROVE NothingYet'
    BY <2>3 DEF Cover, Start, CheckHit, CheckMiss, Open, OpenFails, Fetch, FetchEnds,
                FetchedNothing, FetchFails
  <2>4. ASSUME NEW s \in Song, Tag(s) PROVE NothingYet'
    BY <2>4 DEF Tag, Read, GiveUp, OpenSide, Write, WriteFails, AfterShortWrite, Close,
                RemoveSong, Rename, RenameFails
  <2> QED BY <2>1, <2>2, <2>3, <2>4 DEF Next
<1>3. TypeOK /\ NothingYet /\ CoverInv /\ [Next]_vars => CoverInv'
  <2> DEFINE Good == piece[coverAt] = Chunk \/ \E o \in Song : AllThere(o, coverAt)
  <2> SUFFICES ASSUME TypeOK, NothingYet, CoverInv, [Next]_vars, coverAt' # None, ~spoilt'
               PROVE  Good'
    BY DEF CoverInv
  <2> USE DEF TypeOK
  <2> HIDE DEF Good
  <2>1. ASSUME UNCHANGED <<coverAt, piece, fd, got, spoilt>> PROVE Good'
    BY <2>1 DEF CoverInv, AllThere, Good
  <2>2. ASSUME NEW s \in Song, pc[s] # "fetch", UNCHANGED <<coverAt, piece, spoilt>>,
               NEW is \in BOOLEAN, HasCover(s, is)
        PROVE  Good'
    <3>1. CASE piece[coverAt] = Chunk
      BY <2>2, <3>1 DEF Good
    <3>2. ASSUME NEW o \in Song, AllThere(o, coverAt) PROVE AllThere(o, coverAt)'
      <4>1. o # s
        BY <2>2, <3>2 DEF AllThere
      <4> QED BY <2>2, <3>2, <4>1 DEF AllThere, HasCover
    <3> QED BY <2>2, <3>1, <3>2 DEF CoverInv, Good
  <2>3. CASE Kill
    <3>1. \A o \in Song : fd[o] = None
      BY <2>3 DEF Kill
    <3>2. UNCHANGED <<coverAt, piece>> /\ ~spoilt
      BY <2>3 DEF Kill, files
    <3> QED BY <3>1, <3>2 DEF CoverInv, AllThere, Good
  <2>4. ASSUME NEW s \in Song, Open(s) PROVE Good'
    <3>1. fd'[s] = coverAt' /\ got'[s] = 0
      BY <2>4 DEF Open, NothingYet
    <3>2. \A n \in Chunk : ~(n <= 0)
      <4> SUFFICES ASSUME NEW n \in Chunk PROVE ~(n <= 0)
        OBVIOUS
      <4>1. n \in Nat /\ n > 0
        BY PiecesAreCounted
      <4> HIDE DEF TypeOK
      <4> QED BY <4>1
    <3>3. AllThere(s, coverAt)'
      BY <3>1, <3>2 DEF AllThere
    <3> QED BY <3>3 DEF Good
  <2>5. ASSUME NEW s \in Song, Fetch(s) PROVE Good'
    <3>1. /\ UNCHANGED <<coverAt, fd, spoilt>> /\ fd[s] \in Song
          /\ piece' = [piece EXCEPT ![fd[s]] = @ \cup {got[s] + 1}]
          /\ got' = [got EXCEPT ![s] = @ + 1]
      BY <2>5 DEF Fetch
    <3>2. \A f \in Song : piece[f] \subseteq piece'[f] /\ piece'[f] \subseteq Chunk
      <4>1. got[s] \in 0 .. Chunks /\ got[s] < Chunks
        BY <2>5 DEF Fetch
      <4>2. got[s] + 1 \in Chunk
        BY <4>1, NextIsAPiece
      <4> QED BY <3>1, <4>2
    <3>3. CASE piece[coverAt] = Chunk
      BY <3>1, <3>2, <3>3 DEF Good
    <3>4. ASSUME NEW o \in Song, AllThere(o, coverAt) PROVE AllThere(o, coverAt)'
      <4>1. CASE o = s
        <5>1. \A n \in Chunk : n <= got'[s] => n <= got[s] \/ n = got[s] + 1
          <6>1. got[s] \in Nat /\ got'[s] = got[s] + 1
            BY <3>1, PieceCounts
          <6>2. \A n \in Chunk : n \in Nat
            BY PiecesAreCounted
          <6> HIDE DEF TypeOK
          <6> QED BY <6>1, <6>2
        <5> QED BY <3>1, <3>2, <3>4, <4>1, <5>1 DEF AllThere
      <4>2. CASE o # s
        BY <3>1, <3>2, <3>4, <4>2 DEF AllThere
      <4> QED BY <4>1, <4>2
    <3> QED BY <3>1, <3>3, <3>4 DEF CoverInv, Good
  <2>6. ASSUME NEW s \in Song, FetchEnds(s) PROVE Good'
    <3>1. PICK is \in BOOLEAN : HasCover(s, is)
      BY <2>6 DEF FetchEnds
    <3>2. UNCHANGED <<coverAt, piece, spoilt>> /\ got[s] = Chunks
      BY <2>6 DEF FetchEnds
    <3>3. CASE piece[coverAt] = Chunk
      BY <3>2, <3>3 DEF Good
    <3>4. ASSUME NEW o \in Song, AllThere(o, coverAt) PROVE Good'
      <4>1. CASE o = s
        <5>1. \A n \in Chunk : n <= Chunks
          BY PiecesAreCounted
        <5>2. piece[coverAt] \subseteq Chunk
          BY <3>2
        <5> QED BY <3>2, <3>4, <4>1, <5>1, <5>2 DEF AllThere, Good
      <4>2. CASE o # s
        BY <3>1, <3>2, <3>4, <4>2 DEF AllThere, Good, HasCover
      <4> QED BY <4>1, <4>2
    <3> QED BY <3>2, <3>3, <3>4 DEF CoverInv, Good
  <2>7. ASSUME NEW s \in Song, FetchFails(s) PROVE Good'
    BY <2>7 DEF FetchFails, CoverAfterFailure
  <2>8. ASSUME NEW s \in Song, Tag(s) PROVE Good'
    <3>1. UNCHANGED <<coverAt, piece, fd, got, spoilt>>
      BY <2>8 DEF Tag, Read, GiveUp, OpenSide, Write, WriteFails, AfterShortWrite, Close,
                  RemoveSong, Rename, RenameFails, cover
    <3> QED BY <2>1, <3>1
  <2>9. ASSUME NEW s \in Song, Start(s) \/ CheckMiss(s) PROVE Good'
    <3>1. UNCHANGED <<coverAt, piece, fd, got, spoilt>>
      BY <2>9 DEF Start, CheckMiss, cover
    <3> QED BY <2>1, <3>1
  <2>10. ASSUME NEW s \in Song, CheckHit(s) \/ OpenFails(s) PROVE Good'
    <3>1. PICK is \in BOOLEAN : HasCover(s, is)
      BY <2>10 DEF CheckHit, OpenFails
    <3>2. pc[s] # "fetch" /\ UNCHANGED <<coverAt, piece, spoilt>>
      BY <2>10 DEF CheckHit, OpenFails
    <3> QED BY <2>2, <3>1, <3>2
  <2>11. CASE UNCHANGED vars
    BY <2>1, <2>11 DEF vars, cover
  <2>12. ASSUME NEW s \in Song, FetchedNothing(s) PROVE Good'
    BY <2>12 DEF FetchedNothing
  <2> QED BY <2>3, <2>4, <2>5, <2>6, <2>7, <2>8, <2>9, <2>10, <2>11, <2>12 DEF Next, Cover
<1> QED BY <1>1, <1>2, <1>3, TypeCorrect, PTL DEF Spec

\* A song gets a whole cover, unless one of those two excuses holds, for any
\* number of songs, of workers and of pieces.
THEOREM CoversAreWhole == Spec => CoverWhole
<1>1. TypeOK /\ NothingYet /\ CoverInv /\ [Next]_vars =>
        [\A s \in Song : pic'[s] # pic[s] =>
           pic'[s] = Chunk \/ spoilt \/ \E o \in Song : fd[o] # None /\ fd[o] = coverAt]_vars
  <2> SUFFICES ASSUME TypeOK, NothingYet, CoverInv, [Next]_vars, NEW s \in Song,
                      pic'[s] # pic[s]
               PROVE  pic'[s] = Chunk \/ spoilt
                        \/ \E o \in Song : fd[o] # None /\ fd[o] = coverAt
    OBVIOUS
  <2>1. PICK r \in Song : Read(r)
    BY DEF Next, Cover, Tag, Kill, Start, CheckHit, CheckMiss, Open, OpenFails, Fetch,
           FetchEnds, FetchedNothing, FetchFails, GiveUp, OpenSide, Write, WriteFails,
           AfterShortWrite, Close, RemoveSong, Rename, RenameFails, files, vars
  <2>2. s = r
    <3>1. PICK c : pic' = [pic EXCEPT ![r] = c]
      BY <2>1 DEF Read
    <3> QED BY <3>1 DEF TypeOK
  <2>3. coverAt # None /\ pic'[s] = piece[coverAt]
    <3>1. pic'[s] = IF hasPath[s] /\ coverAt # None THEN piece[coverAt] ELSE NoCover
      BY <2>1, <2>2 DEF Read, TypeOK
    <3>2. pic[s] = NoCover
      BY <2>1, <2>2 DEF NothingYet, Read
    <3> QED BY <3>1, <3>2
  <2> QED BY <2>3 DEF CoverInv, AllThere
<1> QED BY <1>1, TypeCorrect, CoverInvariant, PTL DEF Spec, CoverWhole
===============================================================================
