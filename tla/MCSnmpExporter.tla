--------------------------- MODULE MCSnmpExporter ---------------------------
(* Small instances of the controller with its exporter for TLC.              *)
EXTENDS SnmpExporter, TLC

\* As in MCMeasurementDevice.
Symmetry == Permutations(Names) \cup Permutations(Walks)
=============================================================================
