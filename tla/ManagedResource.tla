--------------------------- MODULE ManagedResource ---------------------------
(***************************************************************************)
(* What each controller of the operator promises, whatever its steps: the  *)
(* contract between a custom resource and the artifact that is made from   *)
(* its spec (a generator file, a target file, recording rules).            *)
(*                                                                         *)
(* An artifact is shown only for a resource that holds the finalizer; a    *)
(* live resource keeps what is shown; Ready is claimed only when what is   *)
(* shown is what the current spec asks for, and stays true until the spec  *)
(* changes or a write that is cut short spoils the artifact; a resource    *)
(* goes only after its artifact.                                           *)
(*                                                                         *)
(* MeasurementDevice, PhysicalMeasurement and DataCenterResource each      *)
(* implement this specification under a refinement mapping of their own.   *)
(***************************************************************************)

CONSTANTS
    Ids,            \* the identities artifacts go by
    Contents,       \* what an artifact may show
    Spoils,         \* what a write that was cut short may leave of one
    None            \* no artifact, no resource

VARIABLES
    owner,          \* the life of the resource
    want,           \* what its current spec asks for
    shown,          \* the artifact
    ready           \* the resources that claim Ready for their current spec

vars == <<owner, want, shown, ready>>

Lives == {"absent", "unguarded", "guarded", "dying"}

TypeOK ==
    /\ owner \in [Ids -> Lives]
    /\ want \in [Ids -> Contents \cup {None}]
    /\ shown \in [Ids -> Contents \cup Spoils \cup {None}]
    /\ ready \subseteq Ids

Init ==
    /\ owner = [i \in Ids |-> "absent"]
    /\ want = [i \in Ids |-> None]
    /\ shown = [i \in Ids |-> None]
    /\ ready = {}

-----------------------------------------------------------------------------
(* Users.                                                                   *)

Create(i) ==
    /\ owner[i] = "absent"
    /\ owner' = [owner EXCEPT ![i] = "unguarded"]
    /\ \E c \in Contents : want' = [want EXCEPT ![i] = c]
    /\ UNCHANGED <<shown, ready>>

Edit(i) ==
    /\ owner[i] \in {"unguarded", "guarded"}
    /\ \E c \in Contents : want' = [want EXCEPT ![i] = c]
    /\ ready' = ready \ {i}
    /\ UNCHANGED <<owner, shown>>

\* An edit that moves the artifact to another place: what was shown stays where
\* it was, and this contract says nothing of it any more.
Move(i) ==
    /\ owner[i] \in {"unguarded", "guarded"}
    /\ \E c \in Contents : want' = [want EXCEPT ![i] = c]
    /\ ready' = ready \ {i}
    /\ shown' = [shown EXCEPT ![i] = None]
    /\ UNCHANGED owner

\* A resource that is deleted waits for its finalizer, if it has one.
Delete(i) ==
    /\ \/ /\ owner[i] = "guarded"
          /\ owner' = [owner EXCEPT ![i] = "dying"]
          /\ UNCHANGED want
       \/ /\ owner[i] = "unguarded"
          /\ owner' = [owner EXCEPT ![i] = "absent"]
          /\ want' = [want EXCEPT ![i] = None]
    /\ ready' = ready \ {i}
    /\ UNCHANGED shown

-----------------------------------------------------------------------------
(* The controller.                                                          *)

Protect(i) ==
    /\ owner[i] = "unguarded"
    /\ owner' = [owner EXCEPT ![i] = "guarded"]
    /\ UNCHANGED <<want, shown, ready>>

\* The artifacts of several resources may change at once.
MayShow(i, c) ==
    \/ c = None /\ owner[i] = "dying"
    \/ /\ c \in Contents \cup Spoils /\ owner[i] \in {"guarded", "dying"}
       /\ i \in ready => c \in {want[i]} \cup Spoils

Show ==
    /\ UNCHANGED <<owner, want, ready>>
    /\ \/ UNCHANGED shown
       \/ /\ shown' = [i \in Ids |-> shown'[i]]
          /\ \A i \in Ids : shown'[i] # shown[i] => MayShow(i, shown'[i])

Claim(i) ==
    /\ owner[i] = "guarded"
    /\ shown[i] = want[i]
    /\ ready' = ready \cup {i}
    /\ UNCHANGED <<owner, want, shown>>

Retract(i) ==
    /\ ready' = ready \ {i}
    /\ UNCHANGED <<owner, want, shown>>

Release(i) ==
    /\ owner[i] = "dying"
    /\ shown[i] = None
    /\ owner' = [owner EXCEPT ![i] = "absent"]
    /\ want' = [want EXCEPT ![i] = None]
    /\ UNCHANGED <<shown, ready>>

-----------------------------------------------------------------------------
Next ==
    \/ Show
    \/ \E i \in Ids : \/ Create(i) \/ Edit(i) \/ Move(i) \/ Delete(i)
                      \/ Protect(i) \/ Claim(i) \/ Retract(i) \/ Release(i)

Spec == Init /\ [][Next]_vars

\* What follows for a state: nothing is shown without a finalizer, and a
\* resource that claims Ready is shown as its spec asks, or spoilt.
Contract ==
    /\ \A i \in Ids : shown[i] # None => owner[i] \in {"guarded", "dying"}
    /\ \A i \in ready : owner[i] = "guarded" /\ shown[i] \in {want[i]} \cup Spoils
=============================================================================
