------------------------ MODULE MCMeasurementDevice ------------------------
(* Small instances of MeasurementDevice for TLC.                             *)
EXTENDS MeasurementDevice, TLC

\* Names are interchangeable, and so are the contents of spec.walks; UIDs are
\* not, their order decides the merge.
Symmetry == Permutations(Names) \cup Permutations(Walks)
=============================================================================
