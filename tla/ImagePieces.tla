----------------------------- MODULE ImagePieces -----------------------------
(* jmcomic's scrambled images: cut across into pieces and put together upside *)
(* down.  The client works out the number of pieces and draws them back.      *)
EXTENDS Integers

\* segmentationNum; digest is the last hexadecimal digit of an md5, as its
\* character code.
SegmentationNum(scrambleId, aid, digest) ==
    IF aid < scrambleId THEN 0
    ELSE IF aid < 268850 THEN 10
    ELSE 2 * (digest % (IF aid >= 421926 THEN 8 ELSE 10)) + 2

PieceAtWithoutRest(height, segments, i) ==  \* mutant: the first piece's rest does not move the others
    LET over == height % segments
        size == height \div segments
    IN  [from |-> height - size * (i + 1) - over, to |-> size * i,
         rows |-> IF i = 0 THEN size + over ELSE size]

\* The i-th piece, its rows and where they go; the first takes the rest as well.
PieceAt(height, segments, i) ==
    LET over == height % segments
        size == height \div segments
    IN  [from |-> height - size * (i + 1) - over,
         to   |-> size * i + (IF i = 0 THEN 0 ELSE over),
         rows |-> IF i = 0 THEN size + over ELSE size]

\* rearrangeImage: the source row each row shows, a later piece drawn over an
\* earlier one; -1 where nothing is drawn.
RearrangeImage(height, segments) ==
    LET covering(y) == {i \in 0 .. segments - 1 :
                          LET p == PieceAt(height, segments, i)
                          IN  p.to <= y /\ y < p.to + p.rows}
        shown(y) == LET last == CHOOSE i \in covering(y) : \A k \in covering(y) : k <= i
                        p == PieceAt(height, segments, last)
                    IN  p.from + (y - p.to)
    IN  [row \in 1 .. height |->
           IF segments = 0 THEN row - 1
           ELSE IF covering(row - 1) = {} THEN -1 ELSE shown(row - 1)]
-----------------------------------------------------------------------------
\* The piece of the scrambled image a row lies in, counted from the top: pieces of
\* one height, the last one longer by what is left over.
PieceOf(height, segments, row) ==
    LET size == height \div segments
    IN  IF segments = 0 THEN 0
        ELSE IF size * (segments - 1) <= row THEN segments - 1
        ELSE row \div size
===============================================================================
