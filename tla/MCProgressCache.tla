-------------------------- MODULE MCProgressCache --------------------------
(***************************************************************************)
(* Instances of ProgressCache for TLC.                                     *)
(***************************************************************************)
EXTENDS ProgressCache, TLC

CONSTANTS c1, c2

TwoCallers == {c1, c2}

OneCaller == {c1}

\* Two blocks of different size.
TwoBlocks == [i \in 1 .. 2 |-> i]

ThreeBlocks == [i \in 1 .. 3 |-> 1]

SomeLimits == {0, 2}

MoreLimits == {2, 3}

\* The callers do the same things.
CallerSymmetry == Permutations(Callers)
=============================================================================
