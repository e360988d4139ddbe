---------------------------- MODULE ResourceGraph ----------------------------
(***************************************************************************)
(* The parent relation of the DataCenterResources, and what it means for a *)
(* resource to be valid in it: the reference that the search of            *)
(* internal/datacenterresource/validate.go is checked against, and that    *)
(* the DataCenterResource controller is modelled with.                     *)
(*                                                                         *)
(* A graph maps a name to the list of its parents, or to None when no      *)
(* resource has the name or the one that has it is being deleted.  own is  *)
(* the parent list of the resource under validation, as Reconcile read it. *)
(***************************************************************************)
EXTENDS Sequences, Functions

CONSTANTS Names, None

\* The parents of a name; a missing resource has none.
ParentsIn(graph, a) == IF graph[a] = None THEN {} ELSE Range(graph[a])

\* D holds the own parents and with every resource its parents.
Closed(own, graph, D) ==
    /\ Range(own) \subseteq D
    /\ \A a \in D : ParentsIn(graph, a) \subseteq D

\* The least such set: all that energy comes from.
Ancestors(own, graph) ==
    {a \in Names : \A D \in SUBSET Names : Closed(own, graph, D) => a \in D}

\* Ancestors that do not exist, and ancestors that have self as a parent.
Missing(own, graph) == {a \in Ancestors(own, graph) : graph[a] = None}

Closing(self, own, graph) ==
    {a \in Ancestors(own, graph) : self \in ParentsIn(graph, a)}
=============================================================================
