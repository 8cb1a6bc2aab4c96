------------------------------ MODULE SongFormat ------------------------------
(***************************************************************************)
(* What tag.c makes of a FLAC or M4A file, and what a player reads in it.  *)
(*                                                                         *)
(* A file is a sequence of parts: for FLAC an optional ID3v2 tag, the      *)
(* marker, the metadata blocks with their "last" flags, and the audio; for *)
(* M4A its top-level boxes with their sizes.  The bytes inside a block, a  *)
(* box or a picture are abstracted to the name of what they are; the sizes *)
(* of boxes are kept, because moov holds the position of the audio.        *)
(***************************************************************************)
EXTENDS Integers, Sequences, SequencesExt

CONSTANTS
  Chunk,     \* the pieces a cover is fetched in
  MaxKept,   \* the FLAC blocks flac_tag has room for, 64
  OwnBlocks  \* what the services put between STREAMINFO and the audio: sequences of
             \* blocks, of any length

\* The tags the file came with, if any, and those this program writes.
Old == "old"
New == "new"

NoCover == {}

-------------------------------------------------------------------------------
(* FLAC *)

ID3(cover)         == [t |-> "ID3", cover |-> cover]
Marker             == [t |-> "fLaC"]
Block(kind, v, b)  == [t |-> "block", kind |-> kind, v |-> v, last |-> b]
Picture(cover, b)  == [t |-> "block", kind |-> "PICTURE", cover |-> cover, last |-> b]
Audio              == [t |-> "audio"]

\* A metadata block: a picture, or another of any kind there is.
Kind     == {"STREAMINFO", "PADDING", "APPLICATION", "SEEKTABLE", "VORBIS_COMMENT", "CUESHEET",
             "reserved", "PICTURE"}
Named    == [t : {"block"}, kind : Kind \ {"PICTURE"}, v : {Old, New}, last : BOOLEAN]
Picked   == [t : {"block"}, kind : {"PICTURE"}, cover : SUBSET Chunk, last : BOOLEAN]
Metadata == Named \cup Picked

\* Only the last block of a service's file is flagged.
SongFormatAssumption ==
  /\ MaxKept \in Nat \ {0}
  /\ \A own \in OwnBlocks : /\ own \in Seq(Metadata)
                            /\ \A i \in 1 .. Len(own) : own[i].last <=> i = Len(own)

ASSUME SongFormatAssumption

\* Mutant: the blocks of the services' own tags are carried over.
IsKept_Comments(block) == block.kind # "PICTURE"

IsKept(block) == block.kind \notin {"VORBIS_COMMENT", "PICTURE"}

\* Where "fLaC" is, after an ID3v2 tag that is skipped by the size it gives.
MarkerAt(f) == IF f[1].t = "ID3" THEN 2 ELSE 1

\* The number of the last block: the first one flagged, whatever follows it.
LastBlock(f) ==
  CHOOSE i \in MarkerAt(f) + 1 .. Len(f) :
    /\ f[i].last
    /\ \A j \in MarkerAt(f) + 1 .. i - 1 : ~f[j].last

Blocks(f) == SubSeq(f, MarkerAt(f) + 1, LastBlock(f))
AfterBlocks(f) == SubSeq(f, LastBlock(f) + 1, Len(f))

\* A block stays if there is room; the comment that follows them is never empty,
\* so none that stays is the last any more.
WithBlock(kept, block) ==
  IF IsKept(block) /\ Len(kept) < MaxKept THEN Append(kept, [block EXCEPT !.last = FALSE])
  ELSE kept

Keep(blocks) ==
  LET keep[n \in 0 .. Len(blocks)] ==
        IF n = 0 THEN <<>> ELSE WithBlock(keep[n - 1], blocks[n])
  IN  keep[Len(blocks)]

Kept(f) == Keep(Blocks(f))

\* flac_tag, from the file and the picture that could be read.
TaggedFlac(f, cover) ==
  LET bare == cover = NoCover
  IN  (IF bare THEN <<>> ELSE <<ID3(cover)>>) \o <<Marker>> \o Kept(f)
      \o <<Block("VORBIS_COMMENT", New, bare)>>
      \o (IF bare THEN <<>> ELSE <<Picture(cover, TRUE)>>)
      \o AfterBlocks(f)

\* What a player finds: STREAMINFO first, then blocks up to the last one, then
\* nothing but the audio.
FlacPlays(f) ==
  /\ f[MarkerAt(f)] = Marker
  /\ Blocks(f)[1].kind = "STREAMINFO"
  /\ AfterBlocks(f) = <<Audio>>

FlacTags(f) ==
  {block.v : block \in {b \in ToSet(Blocks(f)) : b.kind = "VORBIS_COMMENT"}}

-------------------------------------------------------------------------------
(* M4A *)

Ftyp == [t |-> "ftyp", size |-> 1]
Mdat == [t |-> "mdat", size |-> 3]
\* moov: its tags, the cover in them, and the position it gives for the audio.
UdtaSize(tags, cover) ==
  IF tags = <<>> THEN 0 ELSE IF cover = NoCover THEN 2 ELSE 3
Moov(tags, cover, at) ==
  [t |-> "moov", size |-> 2 + UdtaSize(tags, cover), tags |-> tags, at |-> at]

BoxesOf(f, type) == {i \in DOMAIN f : f[i].t = type}

\* The scan of the top-level boxes keeps the last one of each type.
LastBox(f, type) == CHOOSE i \in BoxesOf(f, type) : \A j \in BoxesOf(f, type) : j <= i

\* Where the i-th part begins.
Position(f, i) ==
  LET begin[j \in 1 .. i] == IF j = 1 THEN 0 ELSE begin[j - 1] + f[j - 1].size
  IN  begin[i]

\* The boxes of moov but udta, and a new udta.
NewTags(old) == <<New>>

\* patch_offsets: stco and co64, wherever they are nested, move by as much as
\* moov grew, if the audio is behind it.
NewAt(moov, m, d, size) ==
  IF m < d THEN moov.at + size - moov.size ELSE moov.at

\* m4a_tag: ftyp, then moov and everything from mdat on, in the order they had.
TaggedM4a(f, cover) ==
  LET m         == LastBox(f, "moov")
      d         == LastBox(f, "mdat")
      ftyp      == f[LastBox(f, "ftyp")]
      tags      == NewTags(f[m].tags)
      size      == Moov(tags, cover, 0).size
      moov      == Moov(tags, cover, NewAt(f[m], m, d, size))
      fromAudio == SubSeq(f, d, Len(f))
  IN  IF m < d THEN <<ftyp, moov>> \o fromAudio ELSE <<ftyp>> \o fromAudio \o <<moov>>

FirstBox(f, type) == CHOOSE i \in BoxesOf(f, type) : \A j \in BoxesOf(f, type) : i <= j

\* What a player finds: a moov, the first one, that says where mdat is.
M4aPlays(f) ==
  /\ f[1] = Ftyp
  /\ BoxesOf(f, "moov") # {} /\ BoxesOf(f, "mdat") # {}
  /\ f[FirstBox(f, "moov")].at = Position(f, FirstBox(f, "mdat"))

M4aTags(f) == f[FirstBox(f, "moov")].tags

-------------------------------------------------------------------------------
(* Both *)

IsFlac(f) == f[MarkerAt(f)].t = "fLaC"

\* sqt_tag looks at the first bytes, behind an ID3v2 tag.
Tagged(f, cover) == IF IsFlac(f) THEN TaggedFlac(f, cover) ELSE TaggedM4a(f, cover)

Plays(f) == IF IsFlac(f) THEN FlacPlays(f) ELSE M4aPlays(f)

\* The files a service sends.  For M4A they are the two orders that tag.c:628
\* assumes, with nothing between their three boxes.
FlacWith(prefix, own) ==
  prefix \o <<Marker, Block("STREAMINFO", Old, own = <<>>)>> \o own \o <<Audio>>

FlacFiles == {FlacWith(prefix, own) : prefix \in {<<>>, <<ID3(Chunk)>>}, own \in OwnBlocks}

MoovFirst(tags) ==
  LET size == 1 + Moov(tags, NoCover, 0).size
  IN  <<Ftyp, Moov(tags, NoCover, size), Mdat>>
AudioFirst(tags) == <<Ftyp, Mdat, Moov(tags, NoCover, 1)>>

M4aFiles == UNION {{MoovFirst(tags), AudioFirst(tags)} : tags \in {<<>>, <<Old>>}}

ServiceFiles == FlacFiles \cup M4aFiles
===============================================================================
