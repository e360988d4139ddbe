----------------------------- MODULE MCStartup -----------------------------
(* Small instances of Startup for TLC.                                       *)
EXTENDS Startup

CONSTANTS ns1, ns2

Chart(w) == [pod |-> ns1, watch |-> w, claim |-> Right, location |-> Right,
             host |-> Right, port |-> Right]

\* The chart's two ways to watch one namespace.
MCInstalled == {Chart(ns1), Chart(ns2)}
=============================================================================
