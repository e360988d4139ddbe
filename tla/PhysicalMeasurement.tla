------------------------- MODULE PhysicalMeasurement -------------------------
(***************************************************************************)
(* The PhysicalMeasurement controller of the operator                      *)
(* (internal/controller/physicalmeasurement_controller.go): it waits for   *)
(* the MeasurementDevice a measurement refers to, and keeps one file_sd    *)
(* target file per measurement in the directory of its type, from which    *)
(* Prometheus reads what to scrape.                                        *)
(*                                                                         *)
(* The worker, its queue, its informer cache and the deferred patch are as *)
(* in MeasurementDevice.  Two things differ.  A missing device is not an   *)
(* error: the run ends with a timer (Requeue).  And no watch reports a     *)
(* device's coming or going.                                               *)
(*                                                                         *)
(* Abstractions.  A target file holds the address and the labels of its    *)
(* one target; the value of an additional label is "user".  Write is       *)
(* atomic (renameio), and no one else writes these files, so reading,      *)
(* comparing and writing one is a single step.                             *)
(***************************************************************************)
EXTENDS Naturals

CONSTANTS
    Names,              \* names a PhysicalMeasurement may have
    Devices,            \* names of MeasurementDevices
    Specs,              \* specs a user may write
    None,               \* no object, file, device
    MaxCreations,       \* bound on objects ever created
    MaxGeneration,      \* bound on metadata.generation
    MaxDeletions,       \* bound on measurements a user deletes
    MaxDepartures,      \* bound on devices that disappear
    MaxCrashes,         \* bound on crashes of the operator
    MaxFaults           \* bound on transient API and file errors

Types == {"snmp", "prometheus-exporter"}

LabelNames == {"__param_module", "__param_auth", "job", "type", "name", "instance"}

\* The spec; extra names the additional labels.  The CRD's validation rule
\* asks for a device when the type is snmp.
ASSUME SpecsAssumption ==
    \A s \in Specs : /\ s.type \in Types
                     /\ s.device \in Devices \cup {None}
                     /\ s.extra \subseteq LabelNames \cup {"rack"}
                     /\ s.type = "snmp" => s.device # None

ASSUME PMBoundsAssumption ==
    {MaxCreations, MaxGeneration, MaxDeletions, MaxDepartures, MaxCrashes, MaxFaults}
        \subseteq Nat

VARIABLES
    obj, cache,         \* the measurement stored under each name; its cached copy
    devices,            \* the MeasurementDevices in the informer cache
    target,             \* targets/<type>/<name>.json
    queue, timer,       \* the work queue; names AddAfter will put in it
    pc, cur,            \* the worker's step and the object in its memory
    retyped,            \* names of measurements whose type a user changed
    spent               \* how often each bounded event has happened

store == <<obj, devices, target, retyped>>
vars  == <<obj, cache, devices, target, queue, timer, pc, cur, retyped, spent>>

Conditions == {"Unknown", "True", "False"}

Object == [name : Names, uid : 1 .. MaxCreations, gen : Nat, spec : Specs,
           del : BOOLEAN, fin : BOOLEAN,
           ready : Conditions, validated : Conditions, applied : Conditions, observed : Nat]

Labels == {"idle", "remove", "validate", "target", "patchFinalizer", "patchStatus"}

TypeOK ==
    /\ obj \in [Names -> Object \cup {None}]
    /\ cache \in [Names -> Object \cup {None}]
    /\ devices \subseteq Devices
    /\ \A t \in Types, n \in Names :
          target[t][n] # None => DOMAIN target[t][n].labels \subseteq LabelNames \cup {"rack"}
    /\ queue \subseteq Names /\ timer \subseteq Names
    /\ pc \in Labels
    /\ cur \in Object \cup {None}
    /\ (pc = "idle") <=> (cur = None)
    /\ retyped \subseteq Names
    /\ spent \in [create : Nat, delete : Nat, depart : Nat, crash : Nat, fault : Nat]

Init ==
    /\ obj = [n \in Names |-> None] /\ cache = obj
    /\ devices \in SUBSET Devices
    /\ target = [t \in Types |-> [n \in Names |-> None]]
    /\ queue = {} /\ timer = {} /\ retyped = {}
    /\ pc = "idle" /\ cur = None
    /\ spent = [create |-> 0, delete |-> 0, depart |-> 0, crash |-> 0, fault |-> 0]

-----------------------------------------------------------------------------
(* Users, the API server and the caches (external).                         *)

worker == <<pc, cur, queue, timer>>

UserCreate(n, s) ==
    /\ obj[n] = None
    /\ spent.create < MaxCreations
    /\ spent' = [spent EXCEPT !.create = @ + 1]
    /\ obj' = [obj EXCEPT ![n] = [name |-> n, uid |-> spent.create + 1, gen |-> 1, spec |-> s,
                                  del |-> FALSE, fin |-> FALSE,
                                  ready |-> "Unknown", validated |-> "Unknown",
                                  applied |-> "Unknown", observed |-> 0]]
    /\ UNCHANGED <<cache, devices, target, retyped, worker>>

UserUpdate(n, s) ==
    /\ obj[n] # None
    /\ ~obj[n].del
    /\ s # obj[n].spec
    /\ obj[n].gen < MaxGeneration
    /\ obj' = [obj EXCEPT ![n].spec = s, ![n].gen = @ + 1]
    /\ retyped' = IF s.type # obj[n].spec.type THEN retyped \cup {n} ELSE retyped
    /\ UNCHANGED <<cache, devices, target, worker, spent>>

UserDelete(n) ==
    /\ obj[n] # None
    /\ ~obj[n].del
    /\ spent.delete < MaxDeletions
    /\ spent' = [spent EXCEPT !.delete = @ + 1]
    /\ obj' = [obj EXCEPT ![n] = IF obj[n].fin THEN [obj[n] EXCEPT !.del = TRUE, !.gen = @ + 1]
                                               ELSE None]
    /\ UNCHANGED <<cache, devices, target, retyped, worker>>

DeviceAppears(d) ==
    /\ d \notin devices
    /\ devices' = devices \cup {d}
    /\ UNCHANGED <<obj, cache, target, retyped, worker, spent>>

DeviceDisappears(d) ==
    /\ d \in devices
    /\ spent.depart < MaxDepartures
    /\ spent' = [spent EXCEPT !.depart = @ + 1]
    /\ devices' = devices \ {d}
    /\ UNCHANGED <<obj, cache, target, retyped, worker>>

\* SetupWithManager watches the measurements only.
CacheSync(n) ==
    /\ cache[n] # obj[n]
    /\ cache' = [cache EXCEPT ![n] = obj[n]]
    /\ queue' = queue \cup {n}
    /\ UNCHANGED <<store, timer, pc, cur, spent>>

\* An event without a change the model sees, as in MeasurementDevice.
Resync(n) ==
    /\ cache[n] # None
    /\ queue' = queue \cup {n}
    /\ UNCHANGED <<store, cache, timer, pc, cur, spent>>

\* EndpointRequeueDelay is over.
TimerFires(n) ==
    /\ n \in timer
    /\ timer' = timer \ {n}
    /\ queue' = queue \cup {n}
    /\ UNCHANGED <<store, cache, pc, cur, spent>>

-----------------------------------------------------------------------------
(* The reconciler.                                                          *)

\* Mutant: go on before the finalizer is stored.
FirstStep_NoStop(o) ==
    CASE o.del /\ o.fin  -> "remove"
      [] o.del /\ ~o.fin -> "patchStatus"
      [] ~o.del          -> "validate"

\* reconcileDeletion and ensureFinalizerIsSet decide from the object alone.
FirstStep(o) ==
    CASE o.del /\ o.fin   -> "remove"
      [] o.del /\ ~o.fin  -> "patchStatus"
      [] ~o.del /\ ~o.fin -> "patchFinalizer"
      [] ~o.del /\ o.fin  -> "validate"

Reconcile(n) ==
    /\ pc = "idle"
    /\ n \in queue
    /\ queue' = queue \ {n}
    /\ IF cache[n] = None
         THEN UNCHANGED <<pc, cur>>
         ELSE /\ cur' = [cache[n] EXCEPT !.ready = "Unknown", !.fin = cache[n].fin \/ ~cache[n].del]
              /\ pc' = FirstStep(cache[n])
    /\ UNCHANGED <<store, cache, timer, spent>>

\* getTargetFileSubdir: the directory is chosen by the type.
Subdir(o) == o.spec.type

\* The rest of reconcileDeletion: the file of the current type goes.
RemoveTargetFile ==
    /\ pc = "remove"
    /\ target' = [target EXCEPT ![Subdir(cur)][cur.name] = None]
    /\ cur' = [cur EXCEPT !.fin = FALSE]
    /\ pc' = "patchFinalizer"
    /\ UNCHANGED <<obj, cache, devices, retyped, queue, timer, spent>>

\* Mutants: stop and wait for a watch; put the device in the queue.
Requeue_Stop   == UNCHANGED timer
Requeue_Device == timer' = timer \cup {cur.spec.device}

Requeue == timer' = timer \cup {cur.name}

\* No device to look up, a device in the cache, or none: then try later.
ReconcileValidation ==
    /\ pc = "validate"
    /\ \/ /\ cur.spec.device \in devices \cup {None}
          /\ cur' = [cur EXCEPT !.validated = "True"]
          /\ pc' = "target"
          /\ UNCHANGED timer
       \/ /\ cur.spec.device \notin devices \cup {None}
          /\ cur' = [cur EXCEPT !.validated = "False"]
          /\ pc' = "patchStatus"
          /\ Requeue
    /\ UNCHANGED <<store, cache, queue, spent>>

DefaultLabels(o) ==
    IF o.spec.type = "prometheus-exporter"
      THEN [type |-> o.spec.type, name |-> o.name, instance |-> o.spec.ip]
      ELSE [type |-> "snmp", name |-> o.name, instance |-> o.spec.ip,
            __param_module |-> o.spec.device, __param_auth |-> o.spec.device,
            job |-> o.spec.device]

ExtraLabels(o) == [l \in o.spec.extra |-> "user"]

\* The labels of f, and those of g that f does not have.
Over(f, g) == [l \in DOMAIN f \cup DOMAIN g |-> IF l \in DOMAIN f THEN f[l] ELSE g[l]]

\* Mutant: an additional label replaces a default one.
TargetLabels_ExtraWins(o) == Over(ExtraLabels(o), DefaultLabels(o))

\* applyDefaultAndAdditionalLabels: the default labels win.
TargetLabels(o) == Over(DefaultLabels(o), ExtraLabels(o))

CreateFileSDTarget(o) == [ip |-> o.spec.ip, labels |-> TargetLabels(o)]

\* None is neither a measurement nor a target file.
ASSUME PMNoneAssumption ==
    /\ None \notin Object
    /\ \A q \in [name : Names, spec : Specs] : None # CreateFileSDTarget(q)

\* reconcileTargetFile and reconcileReady: the file is written when it is
\* missing or differs.
ReconcileTargetFile ==
    /\ pc = "target"
    /\ target' = [target EXCEPT ![Subdir(cur)][cur.name] = CreateFileSDTarget(cur)]
    /\ cur' = [cur EXCEPT !.applied = "True", !.ready = "True"]
    /\ pc' = "patchStatus"
    /\ UNCHANGED <<obj, cache, devices, retyped, queue, timer, spent>>

\* Mutant: the finalizer goes although the file could not be removed.
ReconcileFails_Released ==
    /\ pc \in {"remove", "validate", "target"}
    /\ spent.fault < MaxFaults
    /\ spent' = [spent EXCEPT !.fault = @ + 1]
    /\ cur' = [cur EXCEPT !.applied = "False", !.fin = pc # "remove"]
    /\ pc' = IF pc = "remove" THEN "patchFinalizer" ELSE "patchStatus"
    /\ queue' = queue \cup {cur.name}
    /\ UNCHANGED <<store, cache, timer>>

\* An error of the API server or of the volume: the step's condition is False
\* and the queue retries.
ReconcileFails ==
    /\ pc \in {"remove", "validate", "target"}
    /\ spent.fault < MaxFaults
    /\ spent' = [spent EXCEPT !.fault = @ + 1]
    /\ cur' = IF pc = "validate" THEN [cur EXCEPT !.validated = "False"]
                                 ELSE [cur EXCEPT !.applied = "False"]
    /\ pc' = "patchStatus"
    /\ queue' = queue \cup {cur.name}
    /\ UNCHANGED <<store, cache, timer>>

\* The two requests of the deferred patch, as in MeasurementDevice.
RetryMissing ==
    queue' = IF obj[cur.name] = None THEN queue \cup {cur.name} ELSE queue

RetryMissingStatus ==
    queue' = IF obj[cur.name] = None /\ ~(cur.del /\ ~cur.fin)
               THEN queue \cup {cur.name} ELSE queue

PatchFinalizer ==
    /\ pc = "patchFinalizer"
    /\ pc' = "patchStatus"
    /\ obj' = [obj EXCEPT ![cur.name] =
                 IF @ = None \/ (@.del /\ ~cur.fin) THEN None ELSE [@ EXCEPT !.fin = cur.fin]]
    /\ RetryMissing
    /\ UNCHANGED <<cache, devices, target, retyped, cur, timer, spent>>

StatusOf(o) == [o EXCEPT !.ready = cur.ready, !.validated = cur.validated,
                         !.applied = cur.applied, !.observed = cur.gen]

PatchStatus ==
    /\ pc = "patchStatus"
    /\ obj' = [obj EXCEPT ![cur.name] = IF @ = None THEN None ELSE StatusOf(@)]
    /\ RetryMissingStatus
    /\ pc' = "idle"
    /\ cur' = None
    /\ UNCHANGED <<cache, devices, target, retyped, timer, spent>>

\* An error of the patch replaces the Requeue of the run: the queue retries.
PatchFails ==
    /\ pc \in {"patchFinalizer", "patchStatus"}
    /\ spent.fault < MaxFaults
    /\ spent' = [spent EXCEPT !.fault = @ + 1]
    /\ queue' = queue \cup {cur.name}
    /\ pc' = IF pc = "patchFinalizer" THEN "patchStatus" ELSE "idle"
    /\ cur' = IF pc = "patchFinalizer" THEN cur ELSE None
    /\ UNCHANGED <<store, cache, timer>>

\* The operator restarts: timers are lost, every measurement is queued.
Crash ==
    /\ spent.crash < MaxCrashes
    /\ spent' = [spent EXCEPT !.crash = @ + 1]
    /\ cache' = obj
    /\ queue' = {n \in Names : obj[n] # None}
    /\ timer' = {} /\ pc' = "idle" /\ cur' = None
    /\ UNCHANGED store

-----------------------------------------------------------------------------
Step == \/ RemoveTargetFile \/ ReconcileValidation \/ ReconcileTargetFile
        \/ PatchFinalizer \/ PatchStatus

User == \/ \E n \in Names, s \in Specs : UserCreate(n, s) \/ UserUpdate(n, s)
        \/ \E n \in Names : UserDelete(n)
        \/ \E d \in Devices : DeviceAppears(d) \/ DeviceDisappears(d)

Controller == \/ \E n \in Names : CacheSync(n) \/ Resync(n) \/ TimerFires(n) \/ Reconcile(n)
              \/ Step
              \/ ReconcileFails \/ PatchFails

Next == User \/ Controller \/ Crash

Spec == Init /\ [][Next]_vars

-----------------------------------------------------------------------------
(* Properties.                                                              *)

ReadyNow(n) == obj[n] # None /\ obj[n].ready = "True" /\ obj[n].observed = obj[n].gen

\* A measurement that is Ready for its current generation has a target file in
\* the directory of its type; whatever additional labels the user chose, the
\* file scrapes the spec's address, says whose it is, and routes an SNMP scrape
\* to the module and the auth of the spec's device.  Neither a stale cache nor an earlier
\* measurement of the name makes it say otherwise.
ReadyMeansTargeted ==
    \A n \in Names : ReadyNow(n) =>
        LET s == obj[n].spec
            t == target[s.type][n] IN
        /\ t # None
        /\ t.ip = s.ip /\ t.labels["instance"] = s.ip
        /\ t.labels["name"] = n
        /\ s.type = "snmp" => /\ t.labels["__param_module"] = s.device
                              /\ t.labels["__param_auth"] = s.device

\* A target file belongs to a stored measurement that holds the finalizer:
\* Prometheus scrapes nothing for a measurement that is gone.  Measurements
\* whose type was changed are excepted.
TargetFilesOwned ==
    \A n \in Names \ retyped, t \in Types :
        target[t][n] # None => obj[n] # None /\ obj[n].fin

\* The contract of ManagedResource, for the address in the target file of each
\* name (ReadyMeansTargeted is about its labels).  A
\* measurement whose type was changed has moved its file (retyped).
Life(o) == IF o = None THEN "absent" ELSE IF o.del THEN "dying"
             ELSE IF o.fin THEN "guarded" ELSE "unguarded"

OwnerBar == [n \in Names |-> Life(obj[n])]
WantBar  == [n \in Names |-> IF obj[n] = None THEN None ELSE obj[n].spec.ip]
ShownBar == [n \in Names |->
               IF n \in retyped \/ \A t \in Types : target[t][n] = None THEN None
               ELSE target[CHOOSE t \in Types : target[t][n] # None][n].ip]
ReadyBar == {n \in Names \ retyped : ReadyNow(n)}

Contract == INSTANCE ManagedResource WITH
    Ids <- Names, Contents <- {s.ip : s \in Specs}, Spoils <- {},
    owner <- OwnerBar, want <- WantBar, shown <- ShownBar, ready <- ReadyBar

\* The controller implements the contract: Prometheus sees a target only while
\* its measurement holds the finalizer, what it sees of a Ready one is what the
\* spec says, and it loses no target of a measurement that lives.
ImplementsContract == Contract!Spec
=============================================================================
