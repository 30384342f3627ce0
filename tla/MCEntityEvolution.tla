-------------------------- MODULE MCEntityEvolution --------------------------
(* Instances of EntityEvolution for TLC. *)
EXTENDS EntityEvolution, TLC

\* Two releases of evolution.json, the second one appending a version.
MCAppended == {{1}, {1, 2}}
\* A release that adds a version dated before the one it already has.
MCBackdated == {{2}, {1, 2}}
\* One release, and rows from before it.
MCSingle == {{1}}
MCBootFirst == {1}
MCBootSecond == {2}

\* Dates to the second, and dates in half seconds.
MCWhole == [d \in Dates |-> d]
MCHalf == [d \in Dates |-> d - (d % 2)]

MCSymmetry == Permutations(Writers)

=============================================================================
