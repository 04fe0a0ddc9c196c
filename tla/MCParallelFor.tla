---------------------------- MODULE MCParallelFor ----------------------------
(* Small instances of ParallelFor for TLC.                                   *)
EXTENDS ParallelFor

\* Every count up to one that leaves the last worker without an item, and an
\* empty and a reversed range.
SmallBounds == {<<0, n>> : n \in 0..9} \cup {<<2, 7>>, <<3, 1>>}
=============================================================================
