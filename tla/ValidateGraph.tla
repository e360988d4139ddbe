---------------------------- MODULE ValidateGraph ----------------------------
(***************************************************************************)
(* validateGraph of internal/datacenterresource/validate.go: the search of *)
(* a resource's ancestors that looks for missing resources and for cycles  *)
(* through the resource.  The code keeps one slice, queue, and an index,   *)
(* visited; here done is queue[0:visited] and todo is the rest.  One       *)
(* action is one turn of the loop, by the branch it takes.                 *)
(*                                                                         *)
(* The graph, the resource and its parents are chosen once, in Init, and   *)
(* never change: every behaviour is one call.                              *)
(***************************************************************************)
EXTENDS ResourceGraph

CONSTANT ParentLists        \* lists of parents a resource may have

ASSUME ParentListsAssumption == ParentLists \subseteq Seq(Names)
ASSUME NoneAssumption == None \notin ParentLists \cup Names

VARIABLES
    self, own, graph,       \* the arguments
    todo, done,             \* the search
    result                  \* None, or the values returned

input == <<self, own, graph>>
vars  == <<self, own, graph, todo, done, result>>

Results == [kind : {"ok"}, involved : {None}]
              \cup [kind : {"notFound", "cycle"}, involved : Names]

TypeOK ==
    /\ self \in Names
    /\ own \in ParentLists
    /\ graph \in [Names -> ParentLists \cup {None}]
    /\ todo \in Seq(Names) /\ done \in Seq(Names)
    /\ result \in Results \cup {None}

\* The list is read after the resource, so it may hold another version of it.
Init ==
    /\ self \in Names
    /\ own \in ParentLists
    /\ graph \in [Names -> ParentLists \cup {None}]
    /\ todo = own
    /\ done = <<>>
    /\ result = None

Searching == result = None /\ todo # <<>>

Current == Head(todo)

Seen == Current \in Range(done)

\* Mutant: a name seen before stays in the queue.
Skip_Keep ==
    /\ Searching
    /\ Seen
    /\ UNCHANGED vars

Skip ==
    /\ Searching
    /\ Seen
    /\ todo' = Tail(todo)
    /\ UNCHANGED <<input, done, result>>

\* Mutant: the error does not say which resource.
NotFound_NoName ==
    /\ Searching
    /\ ~Seen
    /\ graph[Current] = None
    /\ result' = [kind |-> "notFound", involved |-> None]
    /\ UNCHANGED <<input, todo, done>>

NotFound ==
    /\ Searching
    /\ ~Seen
    /\ graph[Current] = None
    /\ result' = [kind |-> "notFound", involved |-> Current]
    /\ UNCHANGED <<input, todo, done>>

\* Mutant: compare the ancestor itself with the resource, once it is reached.
ClosesCycle_Reached == Current = self /\ done # <<>>

ClosesCycle == self \in Range(graph[Current])

CycleDetected ==
    /\ Searching
    /\ ~Seen
    /\ graph[Current] # None
    /\ ClosesCycle
    /\ result' = [kind |-> "cycle", involved |-> Current]
    /\ UNCHANGED <<input, todo, done>>

Visit ==
    /\ Searching
    /\ ~Seen
    /\ graph[Current] # None
    /\ ~ClosesCycle
    /\ done' = Append(done, Current)
    /\ todo' = Tail(todo) \o graph[Current]
    /\ UNCHANGED <<input, result>>

Return ==
    /\ result = None
    /\ todo = <<>>
    /\ result' = [kind |-> "ok", involved |-> None]
    /\ UNCHANGED <<input, todo, done>>

Next == Skip \/ NotFound \/ CycleDetected \/ Visit \/ Return

Spec == Init /\ [][Next]_vars

FairSpec == Spec /\ WF_vars(Next)

-----------------------------------------------------------------------------
(* Properties.                                                              *)

\* validateGraph returns no error exactly when every ancestor exists and none
\* has the resource as a parent; then the visited resources are the ancestors,
\* and the resource is not one of them.  The one cycle it misses is that of a
\* resource that is its own parent while the list holds another version of it.
\* An error names an ancestor that is missing, or one that closes a cycle.
ResultExact ==
    result # None =>
        LET all == Ancestors(own, graph) IN
        CASE result.kind = "ok" ->
                /\ Range(done) = all
                /\ Missing(own, graph) = {} /\ Closing(self, own, graph) = {}
                /\ self \in all => self \in Range(own) /\ graph[self] # own
          [] result.kind = "notFound" -> result.involved \in Missing(own, graph)
          [] result.kind = "cycle" ->
                result.involved \in Closing(self, own, graph) /\ self \in all

\* The search returns, whatever cycles there are among the ancestors.
Terminates == <>(result # None)
=============================================================================
