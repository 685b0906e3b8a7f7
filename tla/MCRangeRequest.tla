--------------------------- MODULE MCRangeRequest ---------------------------
(* Files from empty to just over two chunks, headers with every pair of        *)
(* numbers up to past the end of the file.                                     *)
EXTENDS RangeRequest

Sizes == 0..7
Positions == 0..8

=============================================================================
