------------------------------ MODULE Operator ------------------------------
(***************************************************************************)
(* The operator process as a whole: the start of Startup composed with one *)
(* of the controllers it then runs, that of PhysicalMeasurement.  A crash  *)
(* is no longer one step: the process has to get through the validation of *)
(* its environment again, which dials Prometheus, before its caches list   *)
(* the API server and the controller goes on.  Users, devices and          *)
(* Prometheus do not wait for that.                                        *)
(***************************************************************************)
EXTENDS PhysicalMeasurement

CONSTANTS Namespaces, Unset, Blank, Wrong, Right, AllNamespaces,
          Environments, MaxUpgrades, MaxOutages, MaxKills

\* A namespace has a name: it is neither the empty string nor an unset variable,
\* and neither is a value a validator accepts.
ASSUME EnvironmentAssumption ==
    Blank \notin Namespaces \cup {AllNamespaces, Right} /\ Unset \notin Namespaces

VARIABLES env, up, phase, ret, errs, log, watched, used

Boot == INSTANCE Startup

boot  == <<env, up, phase, ret, errs, log, watched, used>>
ovars == <<vars, boot>>

\* The types of both parts.
OTypeOK == TypeOK /\ Boot!TypeOK

OInit == Init /\ Boot!Init

\* What the process held is lost.
Forget ==
    /\ pc' = "idle" /\ cur' = None
    /\ queue' = {} /\ timer' = {}
    /\ cache' = [n \in Names |-> None]
    /\ UNCHANGED <<store, spent>>

Dies == Boot!Kill /\ Forget

Replaced == \E e \in Environments : Boot!Upgrade(e) /\ Forget

\* Mutant: the objects that are there when the operator starts raise no event.
ListsResources_Quiet ==
    /\ Boot!CachesSynced
    /\ cache' = obj
    /\ UNCHANGED <<store, queue, timer, pc, cur, spent>>

\* The caches list the API server, and every measurement is queued.
ListsResources ==
    /\ Boot!CachesSynced
    /\ cache' = obj
    /\ queue' = {n \in Names : obj[n] # None}
    /\ UNCHANGED <<store, timer, pc, cur, spent>>

Boots == /\ \/ Boot!Start
            \/ Boot!ValidateNamespaces \/ Boot!ValidateVars \/ Boot!ValidateHostPort
            \/ Boot!Refuse \/ Boot!Accept
            \/ Boot!NewManager \/ Boot!CacheSyncTimeout
         /\ UNCHANGED vars

PrometheusChanges == (Boot!PrometheusStops \/ Boot!PrometheusStarts) /\ UNCHANGED vars

\* The controller works while the process runs.
Working == phase = "running" /\ UNCHANGED boot

ONext == \/ User /\ UNCHANGED boot
         \/ Working /\ Controller
         \/ Boots \/ ListsResources
         \/ Dies \/ Replaced \/ PrometheusChanges

\* As in Startup and PhysicalMeasurement: the kubelet restarts the process, the
\* process and a started run go on, the queue is FIFO, caches follow, timers
\* fire.  Users, faults and Prometheus owe nothing.
OFairness ==
    /\ WF_ovars(Boots \/ ListsResources)
    /\ WF_ovars(Working /\ Step)
    /\ \A n \in Names : /\ SF_ovars(Working /\ Reconcile(n))
                        /\ WF_ovars(Working /\ CacheSync(n))
                        /\ WF_ovars(Working /\ TimerFires(n))

OFairSpec == OInit /\ [][ONext]_ovars /\ OFairness

-----------------------------------------------------------------------------
(* Properties.                                                              *)

\* The controllers work only in a process whose environment is complete and
\* valid and whose caches hold the namespace of the exporter's Deployment, also
\* after an upgrade, a crash or an outage of Prometheus in the middle of
\* ValidateEnv.
RunsConfigured == Boot!RunsConfigured

\* The errors main logs before it exits name every variable a user has to
\* correct, also when several are wrong at once.
AllFaultsReported == Boot!AllFaultsReported

\* The operator comes up and stays up once its environment is right and
\* Prometheus answers (see Startup).
OperatorComesUp == Boot!OperatorComesUp

Available == Boot!Available /\ Boot!OwnNamespaceGranted

\* A measurement that exists for good and whose device exists for good becomes
\* and stays Ready once the operator can start: what happened to the resources
\* and to the device while the process was down or refused is not lost, and the
\* timer of Requeue makes up for the watch on devices the controller lacks.
MeasurementsServed ==
    \A n \in Names :
        <>[](/\ Available
             /\ obj[n] # None /\ ~obj[n].del /\ obj[n].spec.device \in devices \cup {None})
            => <>[]ReadyNow(n)

\* A measurement being deleted goes away once the operator can start, also when
\* it was deleted while the process was down, or its device never existed.
DeletionSurvivesRestart ==
    \A n \in Names, u \in 1 .. MaxCreations :
        <>[]Available =>
            ((obj[n] # None /\ obj[n].uid = u /\ obj[n].del) ~> (obj[n] = None \/ obj[n].uid # u))
=============================================================================
