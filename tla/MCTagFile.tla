------------------------------ MODULE MCTagFile -------------------------------
\* The instance of TagFile that TLC checks: no song is told from another.  The
\* assumption is the part of SongPlays that is about the formats alone; it is
\* evaluated before every run.
EXTENDS TagFile

ASSUME KeepsPlaying

MCOwnBlocks ==
  {<<>>, <<Block("SEEKTABLE", Old, TRUE)>>,
   <<Block("SEEKTABLE", Old, FALSE), Block("PADDING", Old, TRUE)>>,
   <<Block("VORBIS_COMMENT", Old, FALSE), Picture(Chunk, TRUE)>>,
   <<Picture(Chunk, FALSE), Block("VORBIS_COMMENT", Old, FALSE), Block("SEEKTABLE", Old, TRUE)>>}

Symmetry == Permutations(Song)
===============================================================================
