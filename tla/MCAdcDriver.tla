---------------------------- MODULE MCAdcDriver ----------------------------
(* Model values and symmetry for checking AdcDriver with TLC.              *)
EXTENDS AdcDriver, TLC

CONSTANTS f1, f2, f3

MCFile == {f1, f2, f3}
MCChannel == 0 .. 2

MCOneAtATime == [c \in MCChannel |-> 1]
MCTwoAtATime == [c \in MCChannel |-> 2]

\* Files are interchangeable and no property is a liveness property.
FileSymmetry == Permutations(MCFile)
=============================================================================
