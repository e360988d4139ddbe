----------------------------- MODULE MCOperator -----------------------------
(* Small instances of Operator for TLC.                                      *)
EXTENDS Operator

CONSTANTS d1, ns1, ns2

MCSpecs == {[type |-> "snmp", ip |-> "ip1", device |-> d1, extra |-> {}]}

Good == [pod |-> ns1, watch |-> Unset, claim |-> Right, location |-> Right,
         host |-> Right, port |-> Right]

\* Every pair of values for the namespaces, and every fault of one other
\* variable or of all of them.
MCEnvironments ==
    {[Good EXCEPT !.pod = p, !.watch = w] :
        p \in {Unset, Blank, AllNamespaces, ns1},
        w \in {Unset, Blank, Wrong, AllNamespaces, ns1, ns2}}
    \cup {[Good EXCEPT ![v] = x] : v \in {"claim", "location", "host", "port"}, x \in {Unset, Blank, Wrong}}
    \cup {[v \in DOMAIN Good |-> Wrong]}
=============================================================================
