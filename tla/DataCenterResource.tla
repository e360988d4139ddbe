-------------------------- MODULE DataCenterResource --------------------------
(***************************************************************************)
(* The DataCenterResource controller of the operator                       *)
(* (internal/controller/datacenterresource_controller.go): it validates a  *)
(* resource against the graph of resources in its informer cache, renders  *)
(* its expressions from ConfigMaps, keeps one file of recording rules per  *)
(* resource and makes Prometheus reload all of them.                       *)
(*                                                                         *)
(* The worker, its queue, its informer cache and the deferred patch are as *)
(* in MeasurementDevice.  The search of validateGraph is modelled by what  *)
(* ValidateGraph shows it to return.                                       *)
(*                                                                         *)
(* Abstractions.  A rule file holds the parents of its resource and where  *)
(* its expressions come from: the spec, or one version of the one          *)
(* ConfigMap, which may hold something that is not PromQL or lack the key. *)
(* A file cut short is one Prometheus refuses, or one it still loads: an   *)
(* empty file, or a part of the rules that is YAML.  The lists by          *)
(* the field indexes status.involvedResource and spec.parents are always   *)
(* empty: the operator registers no such index, so List fails and its      *)
(* error is dropped.                                                       *)
(* BuildRuleFile is never nil (a resource has an alias rule or an energy   *)
(* rule), so the branch for no rule file is left out.                      *)
(***************************************************************************)
EXTENDS ResourceGraph

CONSTANTS
    Specs,              \* specs a user may write
    Partial,            \* a rule file cut short that Prometheus refuses
    Short,              \* a rule file cut short that Prometheus loads
    Broken,             \* versions of the ConfigMap that are not PromQL
    Keyless,            \* versions of the ConfigMap without the key referred to
    MaxCreations,       \* bound on resources ever created
    MaxUpdates,         \* bound on changes of a spec
    MaxDeletions,       \* bound on resources a user deletes
    MaxVersions,        \* bound on changes of the ConfigMap
    MaxFaults           \* bound on crashes and transient API, file and network errors

\* known: the type is known and the additional labels have valid names.
ASSUME SpecsAssumption ==
    Specs \subseteq [parents : Seq(Names), from : {"value", "configMap"}, known : BOOLEAN]

ASSUME DCRBoundsAssumption ==
    /\ {MaxCreations, MaxUpdates, MaxDeletions, MaxVersions, MaxFaults} \subseteq Nat
    /\ Broken \subseteq Nat \ {0} /\ Keyless \subseteq Nat \ {0}
    /\ None \notin Names

VARIABLES
    obj, cache,         \* the resource stored under each name; its cached copy
    cm, cmCache,        \* the version of the ConfigMap, 0 when there is none; the cached one
    rule,               \* prometheus/rules/<name>.yml
    loaded,             \* the rules Prometheus runs
    queue, pc, cur,     \* the work queue; the worker's step and object
    spent               \* how often each bounded event has happened

api    == <<obj, cm>>
caches == <<cache, cmCache>>
worker == <<queue, pc, cur>>
vars   == <<obj, cache, cm, cmCache, rule, loaded, queue, pc, cur, spent>>

Conditions == {"Unknown", "True", "False"}

Object == [name : Names,
           uid : Nat,                       \* tells the resources of one name apart
           gen : Nat, spec : Specs, del : BOOLEAN, fin : BOOLEAN,
           ready : Conditions, validated : Conditions, applied : Conditions,
           readyGen : Nat,                  \* observedGeneration of the Ready condition
           observed : Nat,                  \* status.observedGeneration
           involved : Names \cup {None}]    \* status.involvedResource

RuleFile == [parents : Seq(Names), from : {"value", "configMap"}, version : Nat]

ASSUME DCRNoneAssumption ==
    /\ None \notin Object \cup RuleFile \cup {Partial, Short}
    /\ Partial \notin RuleFile /\ Short \notin RuleFile /\ Partial # Short
    /\ Short \notin Seq(Names)

TypeOK ==
    /\ obj \in [Names -> Object \cup {None}]
    /\ cache \in [Names -> Object \cup {None}]
    /\ cm \in Nat /\ cmCache \in Nat
    /\ rule \in [Names -> RuleFile \cup {None, Partial, Short}]
    /\ loaded \in [Names -> RuleFile \cup {None, Short}]
    /\ queue \subseteq Names
    /\ pc \in {"idle", "removeRule", "validate", "writeRule", "reload",
               "patchFinalizer", "patchStatus"}
    /\ cur \in Object \cup {None}
    /\ (pc = "idle") <=> (cur = None)
    /\ spent \in [create : Nat, update : Nat, delete : Nat, fault : Nat]

Init ==
    /\ obj = [n \in Names |-> None] /\ cache = obj
    /\ cm = 0 /\ cmCache = 0
    /\ rule = [n \in Names |-> None] /\ loaded = rule
    /\ queue = {} /\ pc = "idle" /\ cur = None
    /\ spent = [create |-> 0, update |-> 0, delete |-> 0, fault |-> 0]

-----------------------------------------------------------------------------
(* Users, the API server and the caches (external).                         *)

UserCreate(n, s) ==
    /\ obj[n] = None
    /\ spent.create < MaxCreations
    /\ spent' = [spent EXCEPT !.create = @ + 1]
    /\ obj' = [obj EXCEPT ![n] = [name |-> n, uid |-> spent.delete, gen |-> 1, spec |-> s,
                                  del |-> FALSE, fin |-> FALSE,
                                  ready |-> "Unknown", validated |-> "Unknown",
                                  applied |-> "Unknown", readyGen |-> 0, observed |-> 0,
                                  involved |-> None]]
    /\ UNCHANGED <<cm, caches, rule, loaded, worker>>

UserUpdate(n, s) ==
    /\ obj[n] # None
    /\ ~obj[n].del
    /\ s # obj[n].spec
    /\ spent.update < MaxUpdates
    /\ spent' = [spent EXCEPT !.update = @ + 1]
    /\ obj' = [obj EXCEPT ![n].spec = s, ![n].gen = @ + 1]
    /\ UNCHANGED <<cm, caches, rule, loaded, worker>>

UserDelete(n) ==
    /\ obj[n] # None
    /\ ~obj[n].del
    /\ spent.delete < MaxDeletions
    /\ spent' = [spent EXCEPT !.delete = @ + 1]
    /\ obj' = [obj EXCEPT ![n] = IF obj[n].fin THEN [obj[n] EXCEPT !.del = TRUE, !.gen = @ + 1]
                                               ELSE None]
    /\ UNCHANGED <<cm, caches, rule, loaded, worker>>

ConfigMapChange ==
    /\ cm < MaxVersions
    /\ cm' = cm + 1
    /\ UNCHANGED <<obj, caches, rule, loaded, worker, spent>>

CacheSync(n) ==
    /\ cache[n] # obj[n]
    /\ cache' = [cache EXCEPT ![n] = obj[n]]
    /\ queue' = queue \cup {n}
    /\ UNCHANGED <<api, cmCache, rule, loaded, pc, cur, spent>>

\* An event without a change the model sees, as in MeasurementDevice.
Resync(n) ==
    /\ cache[n] # None
    /\ queue' = queue \cup {n}
    /\ UNCHANGED <<api, caches, rule, loaded, pc, cur, spent>>

\* Mutant: the coefficients of the parents are forgotten.
ReferencesConfigMap_EnergyOnly(o) == o.spec.from = "configMap" /\ o.spec.parents = <<>>

\* dataCenterResourceReferencesConfigMap: in energyMetricFrom or in a parent's
\* coefficientFrom.
ReferencesConfigMap(o) == o.spec.from = "configMap"

\* The watch on ConfigMaps and dataCenterResourcesForConfigMap.
ConfigMapSync ==
    /\ cmCache # cm
    /\ cmCache' = cm
    /\ queue' = queue \cup {n \in Names : cache[n] # None /\ ReferencesConfigMap(cache[n])}
    /\ UNCHANGED <<api, cache, rule, loaded, pc, cur, spent>>

-----------------------------------------------------------------------------
(* The reconciler.                                                          *)

\* Mutant: the error is swallowed, nothing retries.
StepError_Swallowed == pc' = "patchStatus" /\ UNCHANGED queue

StepError == pc' = "patchStatus" /\ queue' = queue \cup {cur.name}

\* Mutant: go on before the finalizer is stored.
FirstStep_NoStop(o) ==
    CASE o.del /\ o.fin  -> "removeRule"
      [] o.del /\ ~o.fin -> "patchStatus"
      [] ~o.del          -> "validate"

\* reconcileDeletion and ensureFinalizerIsSet decide from the object alone.
FirstStep(o) ==
    CASE o.del /\ o.fin   -> "removeRule"
      [] o.del /\ ~o.fin  -> "patchStatus"
      [] ~o.del /\ ~o.fin -> "patchFinalizer"
      [] ~o.del /\ o.fin  -> "validate"

Reconcile(n) ==
    /\ pc = "idle"
    /\ n \in queue
    /\ queue' = queue \ {n}
    /\ IF cache[n] = None
         THEN UNCHANGED <<pc, cur>>
         ELSE /\ cur' = [cache[n] EXCEPT !.ready = "Unknown", !.readyGen = cache[n].gen,
                                         !.fin = cache[n].fin \/ ~cache[n].del]
              /\ pc' = FirstStep(cache[n])
    /\ UNCHANGED <<api, caches, rule, loaded, spent>>

\* Mutant: the file is removed and Prometheus goes on with its rules.
RemoveRule_NoReload ==
    /\ pc = "removeRule"
    /\ rule' = [rule EXCEPT ![cur.name] = None]
    /\ cur' = [cur EXCEPT !.fin = FALSE]
    /\ pc' = "patchFinalizer"
    /\ UNCHANGED <<api, caches, loaded, queue, spent>>

\* reconcileDeletion: deleteRuleFile.
RemoveRule ==
    /\ pc = "removeRule"
    /\ rule' = [rule EXCEPT ![cur.name] = None]
    /\ pc' = "reload"
    /\ UNCHANGED <<api, caches, loaded, queue, cur, spent>>

\* resourcesMap: the listed resources that are not being deleted.
CachedGraph == [n \in Names |-> IF cache[n] = None \/ cache[n].del THEN None
                                                                   ELSE cache[n].spec.parents]

\* Mutant: the walk does not look for the resource it started from.
Culprits_NoCycle == Missing(cur.spec.parents, CachedGraph)

Culprits == Missing(cur.spec.parents, CachedGraph)
               \cup Closing(cur.name, cur.spec.parents, CachedGraph)

\* Validate: a graph error names a culprit, a validator's error names no one.
ValidationFails ==
    /\ pc = "validate"
    /\ \/ \E c \in Culprits : cur' = [cur EXCEPT !.validated = "False", !.involved = c]
       \/ /\ Culprits = {} /\ ~cur.spec.known
          /\ cur' = [cur EXCEPT !.validated = "False", !.involved = None]
    /\ StepError
    /\ UNCHANGED <<api, caches, rule, loaded, spent>>

\* clearReferencedValidation: the patch is the difference to the cached copy.
\* It also sets status.observedGeneration (WithStatusObservedGeneration).
Cleared(m) ==
    [obj[m] EXCEPT !.involved = IF cache[m].involved # None THEN None ELSE @,
                   !.observed = IF cache[m].observed # cache[m].gen THEN cache[m].gen ELSE @]

\* The resources to clear: the visited ones and the one that was involved.
Nudged ==
    {m \in Names :
        /\ m \in Ancestors(cur.spec.parents, CachedGraph) \/ m = cur.involved
        /\ cache[m] # None
        /\ cache[m].validated = "False" \/ cur.validated = "False"}

ValidationSucceeds ==
    /\ pc = "validate"
    /\ Culprits = {} /\ cur.spec.known
    /\ obj' = [m \in Names |-> IF m \in Nudged /\ obj[m] # None THEN Cleared(m) ELSE obj[m]]
    /\ cur' = [cur EXCEPT !.validated = "True", !.involved = None]
    /\ pc' = "writeRule"
    /\ UNCHANGED <<cm, caches, rule, loaded, queue, spent>>

\* fetchFromConfigMap: the ConfigMap has to be there, and to have the key.
Resolvable == cur.spec.from = "configMap" => cmCache \notin {0} \cup Keyless

TemplateUnresolved ==
    /\ pc = "writeRule"
    /\ ~Resolvable
    /\ cur' = [cur EXCEPT !.applied = "False"]
    /\ StepError
    /\ UNCHANGED <<api, caches, rule, loaded, spent>>

\* Mutant: the file is built before the expressions are resolved.
BuildRuleFile_Unresolved == [parents |-> cur.spec.parents, from |-> cur.spec.from]

\* ResolvedExpressions and BuildRuleFile.
BuildRuleFile == [parents |-> cur.spec.parents, from |-> cur.spec.from,
                  version |-> IF cur.spec.from = "configMap" THEN cmCache ELSE 0]

WriteRule ==
    /\ pc = "writeRule"
    /\ Resolvable
    /\ rule' = [rule EXCEPT ![cur.name] = BuildRuleFile]
    /\ pc' = "reload"
    /\ UNCHANGED <<api, caches, loaded, queue, cur, spent>>

\* Prometheus refuses a file that is not YAML or not PromQL.
Loads(r) == r # Partial /\ (r \notin {None, Short} => r.version \notin Broken)

\* One file that Prometheus cannot load fails the reload of all.
Loadable == \A n \in Names : Loads(rule[n])

\* Mutant: the status code of the reload is not looked at.
ReloadPrometheus_AnyStatus ==
    /\ pc = "reload"
    /\ loaded' = IF Loadable THEN rule ELSE loaded
    /\ \/ /\ cur.del
          /\ cur' = [cur EXCEPT !.fin = FALSE]
          /\ pc' = "patchFinalizer"
       \/ /\ ~cur.del
          /\ cur' = [cur EXCEPT !.applied = "True", !.ready = "True", !.readyGen = cur.gen]
          /\ pc' = "patchStatus"
    /\ UNCHANGED <<api, caches, rule, queue, spent>>

\* reloadPrometheus; then reconcileDeletion removes the finalizer from the
\* object in memory, and Reconcile goes on to reconcileReady.
ReloadPrometheus ==
    /\ pc = "reload"
    /\ Loadable
    /\ loaded' = rule
    /\ \/ /\ cur.del
          /\ cur' = [cur EXCEPT !.fin = FALSE]
          /\ pc' = "patchFinalizer"
       \/ /\ ~cur.del
          /\ cur' = [cur EXCEPT !.applied = "True", !.ready = "True", !.readyGen = cur.gen]
          /\ pc' = "patchStatus"
    /\ UNCHANGED <<api, caches, rule, queue, spent>>

ReloadRejected ==
    /\ pc = "reload"
    /\ ~Loadable
    /\ cur' = [cur EXCEPT !.applied = "False"]
    /\ StepError
    /\ UNCHANGED <<api, caches, rule, loaded, spent>>

\* os.WriteFile truncates first: cut short, it leaves an empty file or a part.
MayBeCutShort ==
    \/ UNCHANGED rule
    \/ /\ pc = "writeRule" /\ Resolvable
       /\ \E c \in {Partial, Short} : rule' = [rule EXCEPT ![cur.name] = c]

\* A call of a step fails.  (Those of reconcileValidation drop their errors.)
ReconcileFails ==
    /\ pc \in {"removeRule", "writeRule", "reload"}
    /\ spent.fault < MaxFaults
    /\ spent' = [spent EXCEPT !.fault = @ + 1]
    /\ cur' = [cur EXCEPT !.applied = "False"]
    /\ StepError
    /\ MayBeCutShort
    /\ UNCHANGED <<api, caches, loaded>>

\* The two requests of the deferred patch, as in MeasurementDevice.
RetryMissing ==
    queue' = IF obj[cur.name] = None THEN queue \cup {cur.name} ELSE queue

RetryMissingStatus ==
    queue' = IF obj[cur.name] = None /\ ~(cur.del /\ ~cur.fin)
               THEN queue \cup {cur.name} ELSE queue

PatchFinalizer ==
    /\ pc = "patchFinalizer"
    /\ pc' = "patchStatus"
    /\ obj' = [obj EXCEPT ![cur.name] =
                 IF @ = None \/ (@.del /\ ~cur.fin) THEN None ELSE [@ EXCEPT !.fin = cur.fin]]
    /\ RetryMissing
    /\ UNCHANGED <<cm, caches, rule, loaded, cur, spent>>

StatusOf(o) == [o EXCEPT !.ready = cur.ready, !.validated = cur.validated,
                         !.applied = cur.applied, !.readyGen = cur.readyGen,
                         !.observed = cur.gen, !.involved = cur.involved]

PatchStatus ==
    /\ pc = "patchStatus"
    /\ obj' = [obj EXCEPT ![cur.name] = IF @ = None THEN None ELSE StatusOf(@)]
    /\ RetryMissingStatus
    /\ pc' = "idle"
    /\ cur' = None
    /\ UNCHANGED <<cm, caches, rule, loaded, spent>>

PatchFails ==
    /\ pc \in {"patchFinalizer", "patchStatus"}
    /\ spent.fault < MaxFaults
    /\ spent' = [spent EXCEPT !.fault = @ + 1]
    /\ queue' = queue \cup {cur.name}
    /\ pc' = IF pc = "patchFinalizer" THEN "patchStatus" ELSE "idle"
    /\ cur' = IF pc = "patchFinalizer" THEN cur ELSE None
    /\ UNCHANGED <<api, caches, rule, loaded>>

\* The operator restarts: the caches list the API server afresh and every
\* resource is queued.
Crash ==
    /\ spent.fault < MaxFaults
    /\ spent' = [spent EXCEPT !.fault = @ + 1]
    /\ cache' = obj /\ cmCache' = cm
    /\ queue' = {n \in Names : obj[n] # None}
    /\ pc' = "idle" /\ cur' = None
    /\ MayBeCutShort
    /\ UNCHANGED <<api, loaded>>

-----------------------------------------------------------------------------
Step == \/ RemoveRule \/ ValidationFails \/ ValidationSucceeds
        \/ TemplateUnresolved \/ WriteRule
        \/ ReloadPrometheus \/ ReloadRejected
        \/ PatchFinalizer \/ PatchStatus

Next == \/ \E n \in Names, s \in Specs : UserCreate(n, s) \/ UserUpdate(n, s)
        \/ \E n \in Names : UserDelete(n)
        \/ ConfigMapChange \/ ConfigMapSync
        \/ \E n \in Names : CacheSync(n) \/ Resync(n) \/ Reconcile(n)
        \/ Step
        \/ ReconcileFails \/ PatchFails \/ Crash

Spec == Init /\ [][Next]_vars

\* The queue is FIFO, a started run goes on, caches follow.
Fairness ==
    /\ WF_vars(Step) /\ WF_vars(ConfigMapSync)
    /\ \A n \in Names : SF_vars(Reconcile(n)) /\ WF_vars(CacheSync(n))

FairSpec == Spec /\ Fairness

-----------------------------------------------------------------------------
(* Properties.                                                              *)

\* The Ready condition is True and speaks of the generation the API server has.
ReadyNow(n) == obj[n] # None /\ obj[n].ready = "True" /\ obj[n].readyGen = obj[n].gen

Quiescent == queue = {} /\ pc = "idle" /\ cache = obj /\ cmCache = cm

\* The rules r are whole and those of the spec s.
RulesOf(r, s) == /\ r \notin {None, Partial, Short}
                 /\ r.parents = s.parents /\ r.from = s.from

\* A run for n is queued or under way.
Pending(n) == n \in queue \/ (cur # None /\ cur.name = n)

\* Prometheus runs the rules of the current spec of a Ready resource.  Neither a
\* reload that fails because of another resource's file, nor a stale cache,
\* nor a lost wake-up makes Ready lie.  A crash does for a time: a file cut short
\* may be taken up by the reload of another resource, but then a run
\* that mends the file is queued or under way.
ReadyMeansLoaded ==
    \A n \in Names : ReadyNow(n) =>
        \/ RulesOf(loaded[n], obj[n].spec)
        \/ loaded[n] = Short /\ Pending(n)

\* Nothing runs for a resource that is gone: a rule file, and a rule loaded by
\* Prometheus, belong to a stored resource that holds the finalizer.
RulesOwned ==
    \A n \in Names : (rule[n] # None \/ loaded[n] # None) => obj[n] # None /\ obj[n].fin

\* A Ready resource that refers to the ConfigMap runs with the version the cache
\* has, unless a run of it is queued or under way, however the events of
\* the ConfigMap and of the resource's own changes were ordered.  (The reference
\* is energyMetricFrom's or a coefficientFrom's own: ConfigMaps of
\* templateParameters are not watched.)
ConfigMapFollowed ==
    \A n \in Names : ReadyNow(n) /\ obj[n].spec.from = "configMap" /\ ~Pending(n)
        => loaded[n].version = cmCache

\* The contract of ManagedResource, for the parents in the rules of each name
\* that Prometheus runs.
Life(o) == IF o = None THEN "absent" ELSE IF o.del THEN "dying"
             ELSE IF o.fin THEN "guarded" ELSE "unguarded"

OwnerBar == [n \in Names |-> Life(obj[n])]
WantBar  == [n \in Names |-> IF obj[n] = None THEN None ELSE obj[n].spec.parents]
ShownBar == [n \in Names |-> IF loaded[n] \in {None, Short} THEN loaded[n] ELSE loaded[n].parents]
ReadyBar == {n \in Names : ReadyNow(n)}

Contract == INSTANCE ManagedResource WITH
    Ids <- Names, Contents <- {s.parents : s \in Specs}, Spoils <- {Short},
    owner <- OwnerBar, want <- WantBar, shown <- ShownBar, ready <- ReadyBar

\* The controller implements the contract, although one reload takes up or
\* drops the rules of several resources: Prometheus runs rules only for
\* resources that hold the finalizer, those of the current spec for a Ready one
\* (or what a write cut short left of them), and drops those of no resource that
\* lives.
ImplementsContract == Contract!Spec

\* No wake-up is lost: when nothing is left to do every resource is Ready for its
\* current spec, although the controller watches neither the parents of a
\* resource nor what blocked the reload of Prometheus.
SettledAtRest == Quiescent => \A n \in Names : obj[n] = None \/ ReadyNow(n)

\* The Ready resources form no cycle: every resource of a cycle would have been
\* validated against specs of the others that are still current, however the
\* edits and the lag of the cache were ordered.
ReadyAcyclic ==
    \A R \in (SUBSET {n \in Names : ReadyNow(n)}) \ {{}} :
        \E n \in R : \A p \in R : p \notin Range(obj[n].spec.parents)

StoredGraph == [n \in Names |-> IF obj[n] = None \/ obj[n].del THEN None ELSE obj[n].spec.parents]

\* The stored resource is valid among the stored resources, and its templates
\* can be resolved.
ValidNow(n) ==
    /\ obj[n] # None /\ ~obj[n].del /\ obj[n].spec.known
    /\ obj[n].spec.from = "configMap" => cm \notin {0} \cup Keyless
    /\ Missing(obj[n].spec.parents, StoredGraph) = {}
    /\ Closing(n, obj[n].spec.parents, StoredGraph) = {}

\* A file that Prometheus refuses is rewritten or removed by the next run of its
\* resource; one whose resource is no longer valid, or is written from a
\* ConfigMap that is not PromQL, blocks every reload for good.
Mendable ==
    \A m \in Names : ~Loads(rule[m]) =>
        \/ obj[m] # None /\ obj[m].del
        \/ ValidNow(m) /\ (obj[m].spec.from = "configMap" => cm \notin Broken)

\* A resource that is valid for good becomes and stays Ready, and Prometheus runs
\* its rules, in whatever order it and its parents were created and
\* validated, and whatever a write cut short left in any rule file, unless that
\* file's own resource cannot mend it.
ResourcesConverge ==
    \A n \in Names : <>[](ValidNow(n) /\ Mendable)
        => <>[](ReadyNow(n) /\ RulesOf(loaded[n], obj[n].spec))

\* "If a parent resource does not exist, the controller will not use the
\* resource in energy usage calculations": once a run has found that a parent
\* is missing and ended, and it still is, Prometheus runs no rule of the resource.
MissingParentUnused ==
    pc = "idle" => \A n \in Names :
        /\ obj[n] # None
        /\ obj[n].validated = "False"
        /\ obj[n].involved # None /\ obj[obj[n].involved] = None
        => loaded[n] = None
=============================================================================
