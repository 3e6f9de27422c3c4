----------------------------- MODULE MCAdcModule -----------------------------
(* Model values and symmetry for checking AdcModule with TLC.              *)
EXTENDS AdcModule, TLC

CONSTANTS f1, f2, f3

MCFile == {f1, f2, f3}
MCChannel == 0 .. 2

\* The first channel is shared by any number of processes, the second is used
\* by one at a time, the third by two.
MCMaxOpen == <<1, 2>> @@ 0 :> 3

\* Files are interchangeable and no property is a liveness property.
FileSymmetry == Permutations(MCFile)
=============================================================================
