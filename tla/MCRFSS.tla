------------------------------- MODULE MCRFSS -------------------------------
(* Small instances of RFSS for TLC.                                        *)
EXTENDS RFSS, TLC

CONSTANTS c1, c2, c3, c4

Ad(site, f, a, x) == [Site |-> site, CCFreq |-> f, Active |-> a, Failed |-> x]

OneSite    == {1}
TwoSites   == {1, 2}
ThreeSites == {1, 2, 3}
\* 10 and 11 are the trunks' own channels, 20 to 22 the siblings'; 99 cannot be tuned.
SomeFreqs  == {10, 11, 20, 21, 22, 99}
InWindow   == SomeFreqs \ {99}

\* One sibling, every kind of broadcast of it.
AdsOne   == {Ad(1, 20, TRUE, FALSE), Ad(1, 20, FALSE, TRUE),
             Ad(1, 0, TRUE, FALSE), Ad(1, 99, TRUE, FALSE)}
\* Two siblings, one of which fails.
AdsTwo   == {Ad(1, 20, TRUE, FALSE), Ad(1, 20, FALSE, TRUE), Ad(2, 21, TRUE, FALSE)}
\* Three siblings that compete for room; one fails, one is not always resolved.
AdsThree == {Ad(1, 20, TRUE, FALSE), Ad(1, 20, FALSE, TRUE), Ad(2, 21, TRUE, FALSE),
             Ad(3, 22, TRUE, FALSE), Ad(3, 0, TRUE, FALSE)}
\* A sibling, and the second trunk's own channel as a neighbour announces it.
AdsSeed  == {Ad(1, 20, TRUE, FALSE), Ad(2, 11, TRUE, FALSE)}

OneTrunk  == <<10>>
TwoTrunks == <<10, 11>>

Pair == {c1, c2}
Pool == {c1, c2, c3}
Pool4 == {c1, c2, c3, c4}
Symmetry == Permutations(Pool)
Symmetry4 == Permutations(Pool4)
=============================================================================
