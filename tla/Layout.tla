------------------------------- MODULE Layout -------------------------------
(***************************************************************************)
(* What a function writes to a stream, or reads from it, as the sequence   *)
(* of the sizes of the fields in bytes.                                    *)
(***************************************************************************)
EXTENDS Integers, Sequences, SequencesExt, FiniteSetsExt

Bytes(layout) == MapThenSumSet(LAMBDA size : size * Cardinality({i \in DOMAIN layout : layout[i] = size}), Range(layout))
\* A layout that is read as it is written.
Both(layout) == [write |-> layout, read |-> layout]
When(c, layout) == IF c THEN layout ELSE << >>
Times(n, layout) == [i \in 1 .. n * Len(layout) |-> layout[1 + ((i - 1) % Len(layout))]]
=============================================================================
