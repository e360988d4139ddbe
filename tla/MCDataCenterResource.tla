------------------------ MODULE MCDataCenterResource ------------------------
(* Small instances of DataCenterResource for TLC.                            *)
EXTENDS DataCenterResource, TLC

CONSTANTS r1, r2

Root(f)     == [parents |-> <<>>, from |-> f, known |-> TRUE]
Child(p, f) == [parents |-> <<p>>, from |-> f, known |-> TRUE]

\* Two resources that can form a cycle, with coefficients from the ConfigMap.
MCSpecs == {Root("value")} \cup {Child(p, "configMap") : p \in Names}

\* Sound: neither the specs nor any definition tells the two names apart.
MCSymmetry == Permutations(Names)

\* A root, a child of r1, and one of an unknown type; no ConfigMap.
MCFamilySpecs ==
    {Root("value"), Child(r1, "value"), [Child(r1, "value") EXCEPT !.known = FALSE]}

\* Users who make r1 the root and r2 its child, in any order: few enough for
\* liveness to be checked together with a deletion and a fault.
FamilySpecs(n) == {s \in Specs : n = r1 <=> s.parents = <<>>}

\* Next, with the specs of the user's steps from FamilySpecs.
FamilyNext ==
    \/ \E n \in Names : \E s \in FamilySpecs(n) : UserCreate(n, s) \/ UserUpdate(n, s)
    \/ \E n \in Names : UserDelete(n)
    \/ ConfigMapChange \/ ConfigMapSync
    \/ \E n \in Names : CacheSync(n) \/ Resync(n) \/ Reconcile(n)
    \/ Step
    \/ ReconcileFails \/ PatchFails \/ Crash

FamilyFairSpec == Init /\ [][FamilyNext]_vars /\ Fairness

\* The parent relation alone.
MCGraphSpecs == {Root("value"), Child(r1, "value"), Child(r2, "value")}
=============================================================================
