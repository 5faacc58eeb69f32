--------------------------- MODULE MCQuadIndexed ---------------------------
(***************************************************************************)
(* The draws the quad index shader is checked on: lists and strips of one  *)
(* and of three quads, also with indices left over, for the three index    *)
(* sizes, with low and with high index values and a base vertex that makes *)
(* the sum wrap.                                                           *)
(***************************************************************************)
EXTENDS QuadIndexed

\* The numbers of indices of a draw, by is_strip: one quad, one quad and
\* indices left over, three quads.
Counts == <<{4, 6, 12}, {4, 5, 8}>>

\* The largest value of an index of the size index_shift selects, plus one.
Limit(shift) == 2^((WordBits \div 4) * 2^shift)

\* Index values that differ inside every quad: counting up from 1, and
\* counting down from the largest value of the index size.
IndexLists(shift, strip) ==
    UNION {{[k \in 1..n |-> k], [k \in 1..n |-> Limit(shift) - k]} :
              n \in Counts[strip + 1]}

TheDraws ==
    UNION {{[indices |-> indices, index_shift |-> shift, is_strip |-> strip,
             base_vertex |-> base] :
               indices \in IndexLists(shift, strip),
               base \in {0, 1, Word - 1}} : shift \in 0..2, strip \in 0..1}
=============================================================================
