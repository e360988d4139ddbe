# TLA+ verification of the Chantico operator

Chantico is a Kubernetes operator that turns three custom resources into the
configuration of an SNMP exporter and of Prometheus.  This directory holds TLA+
modules of its three controllers, of the contract they share, of its graph
validation and of its start, the TLC configurations that check them on small
instances, and proofs for TLAPS.
Paths below are relative to the repository's root.  `PROJECT.json` maps every
definition that models code to the lines it models.

## 1. Inventory

### Components

| component | state it keeps | operations |
|---|---|---|
| MeasurementDevice controller (`internal/controller/measurementdevice_controller.go`) | objects with finalizer, conditions, `observedGeneration`, `configHash`; files `generator-<uid>.yaml`, `snmp-<uid>.yaml`, `snmp.yml`; one generator Job per device; the `config-hash` annotation of the exporter's Deployment | deletion, finalizer, generator file, generator Job, SNMP file, merge, exporter reload, deferred patch |
| SNMP configuration (`internal/snmp`) | none | `GenerateConfig`, merge of the per-device files, hash |
| SNMP generator and exporter (external; image and deployment in the repository) | the pod's input and output; the running configuration | a Job's pod reads the generator file, writes the SNMP file; a new annotation rolls the exporter, which reads `snmp.yml` when it starts |
| PhysicalMeasurement controller (`internal/controller/physicalmeasurement_controller.go`, `internal/physicalmeasurement`) | objects; one file-SD target file per measurement in the directory of its type | deletion, finalizer, validation of the device with requeue, target file, deferred patch |
| DataCenterResource controller (`internal/controller/datacenterresource_controller.go`, `internal/datacenterresource`) | objects; a rule file per resource; the rules Prometheus has loaded | deletion, finalizer, validation, nudging of the resources that failed because of this one, rule file, Prometheus reload, ConfigMap watch, deferred patch |
| Graph validation (`internal/datacenterresource/validate.go`) | the work list of one call | breadth-first search of the ancestors |
| Recording rules and templates (`internal/datacenterresource`) | none | expressions of a rule file from parents, values, templates |
| Reconcile steps (`internal/steps`) | none | runs steps in order; Continue, Stop, Error, Requeue |
| API types, conditions (`api/v1alpha1`) | none | fields, condition types |
| File store (`internal/filestore`) | the shared volume | atomic Write, Remove, ReadAll |
| Operator start and configuration (`cmd/operator`, `internal/configuration`) | the validated environment; the namespaces of the manager's caches | validation of the environment, dialling of Prometheus, exit or start of the manager |
| Postmortem, web application, error types, development tools | none that the system acts on | reports, pictures, wording, mocks |

### Interactions

A user's change reaches the API server; the informer cache follows later and
puts the name in the controller's work queue.  Each controller has one worker
(`MaxConcurrentReconciles: 1`), which reads the object *from the cache*, runs
the steps on that copy and writes finalizer and status back in a deferred
patch.  Between two calls anything may happen: a user edits or deletes the
object, a pod starts or ends, a cache moves on, the operator crashes.  The
process itself starts only when its environment is valid and Prometheus
answers, and the kubelet starts it again whenever it exits.  The
controllers meet in three places: a PhysicalMeasurement names a
MeasurementDevice (but does not watch it); the exporter serves the merge of all
devices; Prometheus loads the rule files of all DataCenterResources or none.

### What is hard

* Decisions are taken from objects that may be old (caches), and the write-back
  meets an object that may have moved on, or be another one of the same name.
* Files are written before statuses, so a crash or an error between any two
  steps leaves files and objects out of step.
* Finalizers have to cover every file, also when the object is deleted while
  the finalizer is being added.
* `Stop` ends a run without a timer: only an event can start the next.
* Some things no watch reports: the device of a measurement, the parents of a
  resource, a Secret.
* A generator Job outlives the object that asked for it, for a while.
* One unreadable fragment stops the merge (or the reload) for everybody.
* The exporter reads the file when its pod starts, not when the annotation is
  set; and the annotation is compared in a cached copy of the Deployment.
* Rule files are not written atomically: a crash leaves an empty file or a part,
  which Prometheus may refuse, or load.
* A process that dies while Prometheus is down cannot come back until it
  answers, and has then to make up for everything that happened meanwhile.

`PROJECT.json` lists these as hazards, each at the line where it bites, with
the properties that would catch it.

### What makes each component correct

* MeasurementDevice: Ready means generated from the current spec, merged and
  served; a deletion removes the device's files, module and served
  configuration before the finalizer goes; no file is left behind; every device
  converges; a failure or a crash never makes a reload forgotten.
* PhysicalMeasurement: a Ready measurement has the target file of its spec, its
  identifying labels cannot be overridden, no file is left behind, a
  measurement gets past a missing device when the device comes.
* Graph validation: the answer is the declarative one, and the search ends.
* DataCenterResource: Prometheus runs the rules of every Ready resource and
  nothing for one that is gone, follows the ConfigMap, and every valid resource
  becomes Ready whatever the order of creation; Ready resources form no cycle.
* Start: the operator runs only when it is fully configured, reports every
  fault of its environment at once, and comes up when it can.

All three controllers promise the same of the artifact they keep for a
resource (generator file, target file, rules): it is there only while the
resource holds the finalizer, Ready is claimed only while it is what the
current spec asks for, and the resource goes only after it.

## 2. Modules

| module | models |
|---|---|
| `MeasurementDevice` | the controller, its files, Jobs, pods, annotation |
| `SnmpExporter` | composes it with the Deployment's rollout and the running exporter |
| `PhysicalMeasurement` | the controller, its timer and target files |
| `ResourceGraph` | ancestors, missing parents and cycles, declaratively |
| `ValidateGraph` | the loop of `validateGraph`, one action per turn |
| `DataCenterResource` | the controller, rule files, Prometheus, the ConfigMap; uses `ResourceGraph` for the answer `ValidateGraph` is shown to give |
| `ManagedResource` | abstract: what a controller promises of a resource and its artifact; the three controllers' modules implement it |
| `Startup` | `ValidateEnv` and `main` under a kubelet that restarts the process |
| `Operator` | composes `Startup` with `PhysicalMeasurement`: the controller works only while the process runs |
| `MeasurementDeviceProofs`, `MeasurementDeviceReadyProofs` | theorems on `MeasurementDevice`: types, files and finalizers; Jobs, Ready, rest, the refinement and the exporter |
| `PhysicalMeasurementProofs`, `OperatorProofs` | theorems on `PhysicalMeasurement`, and on it under the process that starts and restarts |
| `ResourceGraphProofs`, `ValidateGraphProofs` | lemmas on ancestors and cycles; theorems on the search |
| `DataCenterResourceProofs` | theorems on `DataCenterResource` |
| `ManagedResourceProofs` | the theorem every implementation of the contract inherits |
| `MC...` | the instances TLC checks: sets of specs, symmetry |

### How a controller is modelled

`obj` is the API server, `cache` the informer cache, `queue` the work queue,
`pc` the step of Reconcile the worker is at, `cur` the object in its memory.
`Reconcile(n)` takes a name from the queue, reads the cache and takes the steps
that leave the process untouched (not found, deletion with or without the
finalizer, adding the finalizer).  Each step that calls the API server or
touches a file is an action with the name of its function.  `PatchFinalizer`
and `PatchStatus` are the two requests of the deferred patch; they go to
whatever object has the name by then.  If there is none the patch fails and the
name is queued again (`RetryMissing`); the patch of the status ignores that the
object is gone when this run removed the finalizer (`RetryMissingStatus`).
`ReconcileFails` is a step whose call returns an error;
`PatchFails` is a failed patch; `Crash` loses `cur`, the queue and the caches
and queues every object, as a restart does.  `UserCreate`, `UserUpdate`,
`UserDelete`, `CacheSync` are the API server and its watch; `Resync` is an event
with no change the model keeps (time stamps of conditions, resyncs, other fields).

Particular to each:

* **MeasurementDevice.**  A file holds a configuration (name, walks, version of
  the Secret), or is Empty, or Garbage (cut short: not YAML).  A generator pod
  reads its input (`PodLoad`), truncates its output (`PodTruncate`) and writes
  it (`PodWrite`), or fails at any point (`PodFail`); deleting its Job kills it
  some time later (`PodKill`).  `late` marks files a pod touched when its
  Job was no longer the device's current one.  The merge is two steps
  (`MergeRead`, `MergeWrite`) with the buffer `buf` between; the last file in
  the order of file names wins a module's name, as in `merge`.  `template` is the
  annotation of the Deployment, `templateCache` the one in the cached copy that
  `getSnmpExporterDeployment` reads; the copy follows some time
  (`TemplateCacheSync`) and, since the controller does not watch the Deployment,
  wakes nobody.  The history variable `misled` is TRUE when the last reload
  was left out although the Deployment had another annotation than the file's.
* **SnmpExporter.**  `ExporterRollout` starts a pod for the annotation of the
  Deployment; the pod reads `snmp.yml` as it is *then*.  `ExporterRestart` is a
  restart for another reason.
* **PhysicalMeasurement.**  `timer` holds the names `Requeue` will bring back.
  `DeviceAppears` and `DeviceDisappears` are the other controller's objects.
  Target files are kept per type and name, since the type names the directory;
  `retyped` marks measurements whose type was changed.  Labels are the union of
  the user's and the default ones, which win.
* **ValidateGraph.**  `todo` is the slice the code shortens and extends, `done`
  the visited list.  The graph is any function from names to parent lists or to
  nothing, and the resource's own list may differ from the one in the graph:
  the code reads the two at different times.
* **DataCenterResource.**  A rule file is the parents, the source of its
  expressions and the version of the ConfigMap they were taken from.  A crash or
  an error in `os.WriteFile` leaves `Partial`, which Prometheus refuses, or
  `Short`, which it loads (the empty file after the truncation, or a part that is
  YAML).  `Broken` is the set of ConfigMap versions that are not PromQL, `Keyless`
  those without the key.  `ReloadPrometheus` loads all files, or
  `ReloadRejected` none.  `Nudged`, `Cleared` are `clearReferencedValidation`,
  whose patches are one step with the validation: a crash between two of them
  is not distinguished, and no property looks at what they write.
* **Startup.**  A value of a variable is what the checks tell apart (unset,
  empty, refused, accepted; for namespaces the name and the sentinel `*`).
  `phase` is where `main` is; `errs` collects what `ValidateEnv` finds, with the
  nil entry of `validateNamespaces`; `log` is what the last refused process
  reported.  `ValidateHostPort` dials Prometheus, which comes and goes on its
  own.  `watched` is the namespaces every informer lists, `Granted` those in
  which the chart lets it.
* **Operator.**  A crash (`Dies`) or an upgrade (`Replaced`) loses queue, timers
  and caches; `ListsResources`, when the caches have synced, queues every
  measurement.  In between the process has to get through `Startup`, and users,
  devices and Prometheus go on.

### The contract and its refinements

`ManagedResource` has per identity the life of the resource (absent, without
finalizer, guarded by it, dying), what its spec wants, what its artifact shows,
and whether it claims Ready for its current spec.  Its actions are a user's
(`Create`, `Edit`, `Move`, `Delete`) and a controller's (`Protect`, `Show`,
`Claim`, `Retract`, `Release`).  Each controller's module has an instance
`Contract` and the property `ImplementsContract == Contract!Spec`:

| module | identity | artifact |
|---|---|---|
| `MeasurementDevice` | UID | the walks in the generator file; what a name's next device does is no concern of the former one's file |
| `PhysicalMeasurement` | name | the address in the target file of the current type; a change of the type is `Move`, since the old file stays (`retyped`) |
| `DataCenterResource` | name | the parents in the rules Prometheus runs; one reload changes several at once, hence `Show` does |

Steps of pods, caches, queues and failed calls are stutters, and so are the
many statuses that are not Ready.  `Spoils` is what a write that was cut short may
show in place of what a Ready resource wants: nothing for the two controllers
that write through the file store, `Short` for `DataCenterResource`.

### Abstractions

* Reasons, messages, time stamps and wording of conditions are left out, and
  so is the text of files and PromQL.
* SHA-256 is injective.
* The status patch writes the whole status.  The code sends the difference from
  the cached copy the run was given, so a run that ends with the very status it
  started from sends nothing, where the model writes that status again; the two
  differ only when the copy was behind the store.  A run on a new generation
  always differs from its copy (`observedGeneration` of the Ready condition),
  and a list of conditions is always sent whole.
* `BuildRuleFile` always has a rule to write (an alias rule for a root, an energy
  rule for the rest), so the controller's branch for no rule file is left out.
* One namespace for the resources, one Secret, one ConfigMap.
* An environment changes only with the pod: a host name that resolves goes on
  resolving.
* Time is absent: a timer fires some time, a retry comes some time.

## 3. Runs

Bounds are constants; those named `Max...` cap events of users and faults, and
nothing the controllers do by themselves is capped.  `CHECK_DEADLOCK FALSE`
everywhere: when all bounded events are spent and the controllers are done, the
system rests.

| run | checks | instance |
|---|---|---|
| `md_update` | `TypeOK`, `ReadyMeansConverged`, `ReloadNotForgotten`, `CurrentJobKept`, `SettledAtRest` | one device, two walks, two generations, one rotation, crash, failed call and pod failure |
| `md_pair` | `GeneratorFilesOwned`, `DeletionLeavesNothing`, `FinalizerGuardsCleanup`, `ImplementsContract` | one name and two UIDs: a device deleted and another of its name, a crash |
| `md_live` | `RolledOutServes`, `DevicesConverge`, `DeletionCompletes`, `ReadyIsServed`, `DeletedNotServed` | with the exporter; one device, deletion, one crash, one failed call |
| `pm_targets` | `TypeOK`, `ReadyMeansTargeted`, `TargetFilesOwned`, `ImplementsContract` | one name used by two measurements in turn, both types, clashing labels, crash, fault, device that comes and goes |
| `operator` | `OTypeOK`, `RunsConfigured`, `AllFaultsReported`, `OperatorComesUp`, `MeasurementsServed`, `DeletionSurvivesRestart` | one measurement, created and deleted at any time, its device; every pair of namespace values, every fault of one other variable and of all; one upgrade, one crash, one outage of Prometheus |
| `graph` | `TypeOK`, `ResultExact`, `Terminates` | every graph of three names with up to two parents each (repeated parents included), every own list |
| `dcr_rules` | `TypeOK`, `ConfigMapFollowed`, `SettledAtRest`, `ReadyAcyclic` | two resources, each a root or a child of either, an edit, a ConfigMap that comes, changes, breaks and loses its key |
| `dcr_live` | `RulesOwned`, `ReadyMeansLoaded`, `ImplementsContract`, `ResourcesConverge` | a parent and a child, created in any order, the child perhaps of unknown type; a deletion (and a name used again), a crash or a failed call, files cut short of both kinds |
| `exporter_aba` | `ExporterServesMerged` (violated) | one device, walks changed and changed back |
| `auth_rotation` | `ReadyMeansGenerated` (violated) | one device, one rotation |
| `missing_parent` | `MissingParentUnused` (violated) | two resources, one deletion |
| `watch_other` | `OtherNamespaceWatched` (violated) | the chart's two ways to watch one namespace; one crash, one outage |

The safety properties that are stated of a state at rest (`SettledAtRest`, and
`ConfigMapFollowed` of a resource for which no run is queued or under way) find
lost wake-ups without fairness: when nothing is queued, running or unseen, every
device is Ready or says that its generator Job failed, and every
DataCenterResource is Ready.  Nothing rests as long as a
resource is invalid, or a fragment of the merge cannot be parsed, since the
failed step is retried.  `ReloadNotForgotten` asks for no rest: whenever all
devices are Ready the annotation is that of the merged file, in the middle of a
run too, unless an old copy of the Deployment misled the last reload.  `RolledOutServes` carries this on to the running exporter: as soon as
it runs the current annotation it serves every Ready device and none that is
gone.

Why the bounds are enough: every property is about one object, or about one
object and one other that shares a file, a name or a reload with it: one name with
two UIDs in `md_pair` and `pm_targets`, two names in the runs of
DataCenterResource.  Two MeasurementDevices at once, with a deletion, are too
many states for TLC: what their Jobs and merges do to each other is in the
theorems, which are about any number of devices, and liveness is shown for one.  A stale decision needs an old version, in a
cache or in the worker's memory, and a new one in the store, hence two generations
(`md_update`); an annotation that misleads needs a content that comes back, which
`md_pair` has when a name is given up and `exporter_aba` with a third
generation.  Copies two versions behind, and more faults than one, are in the
theorems, which bound neither.  Three names make every shape
the search distinguishes: a cycle through the resource, one beside it, a
diamond, a missing ancestor, a self-loop.

`md_live` has no edit of the walks: with one, the composed instance is too large
for checking liveness.  Edits are in `md_update`, whose `SettledAtRest` and
`ReloadNotForgotten` show that none leaves the controller at rest with work
undone or a reload forgotten.  For the same reason the users of `dcr_live` make
one resource the root and the other its child (`FamilyNext`), without a ConfigMap;
edits, cycles and a ConfigMap that comes late are in `dcr_rules`, whose
`SettledAtRest` finds a lost wake-up.

Symmetry is used in runs of invariants and action properties only: names and
walks are interchangeable there (in `dcr_rules` because the specs are closed
under the exchange of the two names), UIDs are not (their order decides the
merge).

### Exceptions the properties make

* Files that a straggling generator pod touched (`late`): the controller deletes
  Jobs in the background and does not wait for their pods, so a pod can write
  its file after the cleanup has removed it, and the file stays.
* Measurements whose type was changed (`retyped`): the file in the directory of
  the old type stays.
* A SNMP file that is not YAML (`Unparsable`) stops the merge for all devices
  for as long as it is there; liveness is about the states without one.
* `RolledOutServes`, `ReadyIsServed` and `DeletedNotServed` except the first
  case of `exporter_aba` (`Raced`).
* They, `ReloadNotForgotten`, `FinalizerGuardsCleanup` and, for the annotation,
  `DeletionLeavesNothing` except a reload that an old copy of the
  Deployment suppressed (`misled`, the second case of `exporter_aba`): they say
  that nothing else makes a reload be missed.
* `ReadyMeansLoaded` excepts a file cut short that Prometheus loaded, and asks
  that a run which mends it is then queued or under way.  `os.WriteFile`
  (`datacenterresource_controller.go:286`) truncates first: a crash in a run for
  a Ready resource can leave an empty rule file, or a part that is YAML, which
  the reload of another resource loads in place of the rules.  The other
  controllers write through the file store, which renames a complete file into
  place.  `ResourcesConverge` excepts a file that Prometheus refuses and that its
  own resource cannot mend (`Mendable`), being invalid or made from a ConfigMap
  that is not PromQL: it blocks the reloads of all others for good, and so the
  deletion of a parent whose child's file is such a part.

Each is listed as a hazard.

### Fairness

* `Reconcile(n)` is strongly fair: the work queue is FIFO and the worker returns
  to it after every run, so a queued name cannot be passed over for ever even
  though the worker is busy with another one again and again.
* `Step` is weakly fair: a started run goes on, and its calls return.  The
  operator sets no time limit on them (the reload's `http.Post`,
  `datacenterresource_controller.go:372`, has none), so this is an assumption on
  the API server and on Prometheus, which answer or close the connection; one
  that did neither would hold the only worker for good.
* `CacheSync`, `JobCacheSync`, `ConfigMapSync`, `CollectJob`, `PodStep`,
  `ExporterRollout`: the API server's watches, garbage collection, the kubelet
  and the Deployment controller make progress.
* `TimerFires`: `RequeueAfter`.
* `Operator`: the process goes on and the kubelet starts it again (`Boots`,
  `ListsResources`); the controller's conditions hold of its steps while the
  process runs.  Prometheus owes nothing: `OperatorComesUp`,
  `MeasurementsServed` and `DeletionSurvivesRestart` are about behaviours in
  which the environment becomes right and Prometheus answers for good.
* Users, faults, crashes, `Resync` and `ExporterRestart` owe nothing: liveness
  may not lean on an accidental event.

A failed step puts the name back in the queue (rate-limited retry), which is
what makes `ResourcesConverge` true: no watch tells a child of its parent.

## 4. Findings

1. **exporter_aba** (`measurementdevice_controller.go:379`).  The reload
   compares the hash of `snmp.yml` with the annotation in a cached copy of the
   Deployment, which nobody watches, and reports "SNMP exporter is up to date
   with merged config." when they agree.  A file that changes and changes back
   leaves the exporter with the content in between, with every device Ready and
   nothing left to do, in two ways.
   * The pod of the first annotation starts while the file holds the other
     content, and reads that; the reload of the first content sets the first
     annotation again before the one in between is rolled out, so that pod is the
     one the Deployment asks for.  This is the shortest counterexample.
   * The reload of the first content finds the first annotation in a copy that
     has not followed the last patch, and patches nothing: the Deployment has,
     and rolls out, the annotation of the content in between.  (One step longer;
     TLC reports it when pods that read another content than their annotation
     says are left out by hand.)  Likewise a deletion that restores an earlier
     content drops its finalizer while the exporter still serves the device.
2. **auth_rotation** (`measurementdevice_controller.go:286`).  A rotated Secret
   rewrites the generator file, but the Job counts as current by the device's
   generation alone: the device is Ready ("True only when fully converged.",
   `api/v1alpha1/condition_types.go:6`) with an SNMP file made from the old
   Secret.
3. **missing_parent** (`datacenterresource_controller.go:217`).  The rules of a
   resource stay loaded when the controller finds that its parent is gone, while
   `docs/content/technical/custom-resources/graph.md:44` says that it "will not
   use the resource in energy usage calculations."
4. **watch_other** (`cmd/operator/main.go:70`).  To find the exporter's
   Deployment the operator's own namespace is added to the caches of every kind,
   but the chart grants the managed kinds and Jobs in the watched namespace only
   (`chart/templates/rbac.yaml:14`; in the own one Deployments and, for leader
   election, ConfigMaps).  With another namespace to watch the lists
   in the own one are forbidden, the caches never sync, and the operator exits
   again and again, while `docs/content/how-tos/how-to-install-chantico.md:49`
   offers this setting.  `OperatorComesUp` shows that the operator does come up
   with its own namespace or with all of them.

## 5. Proofs

All theorems hold for every value of the constants that satisfies the named
assumptions: any number of names, UIDs, walks, specs, and any bounds on users
and faults.  The assumptions say only that bounds are natural numbers
(`BoundsAssumption`, `PMBoundsAssumption`, `DCRBoundsAssumption`), that specs
have the shape the API types give them (`SpecsAssumption`,
`ParentListsAssumption`), and that the values which stand for "nothing", "cut
short" or "not set" are none of the real ones (`NoneAssumption`,
`HashAssumption`, `PMNoneAssumption`, `DCRNoneAssumption`,
`EnvironmentAssumption`).  Every run evaluates those of its module.

Every invariant, every action property and every refinement that a passing run
checks is stated by a theorem; TLC shows it on the instance of the run, the
theorem for all.

### The shape of the proofs

None of the invariants is inductive as it stands: the controllers decide from a
cached copy, and patches go by name to whatever object has it by then.  The
strengthenings all answer the same question, *what does an old copy still say
about the store?*

* A live copy with the finalizer means that the object is still stored, with the
  finalizer (`CacheInv`, `CurInv`): only a run on a copy that is being deleted
  takes it away.
* A copy being deleted means that the object still is, or is gone, and then
  whatever has taken its name has no finalizer yet, so the patch by name that
  drops the finalizer does no harm.
* A copy of the current generation has the current spec (`VersionInv`).
* Ready is never stored for a version younger than any copy that can still be
  worked on (`ReadyInv`): a later run cannot undo on the volume what an earlier
  one claimed.

The long proofs go in two steps: a lemma per action says what it does field by
field (`CreateFacts`, `LoadFacts`, ...) in terms a prover can use without the
records, and a lemma per invariant goes through the cases, one step per
conjunct.

### MeasurementDevice

`MeasurementDeviceProofs`:

* `TypeCorrect`: `Spec => []TypeOK`.  Inductive with `WorkerInv` (what the
  worker holds at each step), as `TypeInv`.
* `NoOrphanGeneratorFile`: `Spec => []GeneratorFilesOwned`, from `OwnerInv`: the
  facts above on copies; a run past `removeGenerator` has no generator file left
  for its UID; and the owner of every file is the stored device its UID was
  given to.
* `FinalizerWorks`: `Spec => FinalizerGuardsCleanup`, an action property, from
  `TypeInv`, `OwnerInv` and `ReloadInv` (a run about to drop the finalizer has
  just found, or set, the annotation of the merged file, or was misled).

`MeasurementDeviceReadyProofs` adds a tower of invariants, each inductive
relative to those before it:

* `GenerationInv`: copies are earlier versions (`VersionInv`), and a Job's
  generation is at most that of every copy of its device, stored, cached or in
  memory (`JobInv`).  It gives `CurrentJobSafe` (`CurrentJobKept`): a run that
  takes a Job for stale holds a newer version than the Job's, and the store holds
  no older one.
* `ClaimInv`: what a stored or a coming Ready says (above).  With it,
  `RefinesContract` (`ImplementsContract`): each action is mapped to the step of
  `ManagedResource` it makes for at most one UID, or to a stutter.
* `PodInv`: a pod whose Job was deleted, and a deleted Job that the cache still
  shows, are of a generation no run can still work on; so no two pods of a device
  are of one generation, and a cached result is the result.
* `RestInv`: for every device one of these is on its way: an entry in the queue,
  a run, an event the cache has not seen, or a Job that is not done; otherwise
  the last run has left it Ready or failed (`LastRunInv`, `AwakeInv`).  It gives
  `RestIsSettled` (`SettledAtRest`).
* `ContentInv`: what the files hold.  The generator file that the pod of the
  current generation reads is that of the current walks, the SNMP file of a
  finished current Job is what that pod wrote, and the hash is that of the file.
* `MergeInv`: every content that is on its way to the exporter (`buf`, `merged`,
  `template`) is *faithful*: it has the module of each Ready device and none of a
  device that is gone.  With `ContentInv` it gives `ReadyIsConverged`
  (`ReadyMeansConverged`), `NothingIsLeft` (`DeletionLeavesNothing`) and
  `ReloadIsDone` (`ReloadNotForgotten`): two contents that are faithful to
  devices which are all Ready are the same, so nothing can be left to reload.
  What it says of `template` it says unless `misled`: every reload makes the
  annotation that of the merged file or sets `misled`, and none but a reload
  changes either, so a missed reload is always one that an old copy of the
  Deployment suppressed.
* `RolledOutIsServed` (`RolledOutServes`) carries it to the composition with the
  exporter: `ESpec` implements `Spec`, a pod that started after the first reload
  has a configuration (`ExporterInv`), and unless it raced with a write this is
  the content of the annotation, which is faithful unless `misled`.  These are
  the two cases of the finding `exporter_aba`, so the theorem says that
  there is no other way to serve something else.

### PhysicalMeasurement and the operator's process

`PhysicalMeasurementProofs`: `TypeCorrect`; `NoOrphanTargetFile`
(`TargetFilesOwned`) from `OwnerInv`, where `FileInv` says in addition that a
file of a measurement whose type never changed lies in the directory that every
copy of the measurement names; `ReadyIsTargeted` (`ReadyMeansTargeted`) from
`TargetInv`; `RefinesContract`.

`OperatorProofs`, for the composed specification: `OperatorTypeCorrect`;
`WorksOnlyConfigured` (`RunsConfigured`) and `RefusalNamesEveryFault`
(`AllFaultsReported`) from `BootInv`, which says for each phase of `main` what
the collected errors and the returned values know of the environment;
`SafeAcrossRestarts`: `TargetFilesOwned` and `ReadyMeansTargeted` hold under any
interleaving of starts, refusals, crashes and outages, because what makes them
true is in the API server and on the volume and survives the loss of the
process (`ForgetKeeps`).

### Graph validation and DataCenterResource

`ValidateGraphProofs`, on every graph of any size: `SearchTypeCorrect`;
`ValidateGraphCorrect` (`ResultExact`).  `SearchInv`: what the search has reached
lies between the own parents and the ancestors (the least closed set), what it
has visited exists, does not close a cycle and has its parents reached; so when
the list is empty the visited set is closed and, being within the least closed
set, equal to it.

`DataCenterResourceProofs`:

* `TypeCorrect`; `NoOrphanRule` (`RulesOwned`) from `OwnerInv`, with the file and
  the loaded rules side by side (`RuleInv`): a rule that runs without a file is
  one of a resource being deleted.
* `ReadyIsLoaded` (`ReadyMeansLoaded`) from `LoadInv`: the file of a Ready
  resource is that of its spec, or cut short, and then a run that writes it again
  is queued or under way; so a reload takes up the rules of the spec or, in that
  case, what is left of them.
* `NoReadyCycle` (`ReadyAcyclic`).  A Ready resource is in the cache with the spec
  it is Ready for (`ReadyInv`), so the run that validates the last member of
  a would-be cycle sees all the others as they are; `AcyclicInv` says that the
  Ready resources together with the one the worker has just validated form no
  cycle, and `ResourceGraphProofs` that a cycle through that one makes it its
  own ancestor.
* `RestIsReady` (`SettledAtRest`) and `RestFollowsConfigMap`
  (`ConfigMapFollowed`) from `QueueInv` and `ConfigMapInv`: a resource that is
  neither queued nor worked on, and whose cached copy is the stored one, is
  Ready, and a Ready one runs with the version of the ConfigMap that the cache
  has.
* `RefinesContract`: a reload shows the rules of all resources at once, and hides
  those of the one being deleted.

### The contract

`ManagedResourceProofs`, without assumptions: `ContractHolds`,
`Spec => []Contract`.  Nothing is shown without a finalizer, and a claim of Ready
is true but for a write that was cut short.  Each controller has it through its refinement, which is proved.

### Only model-checked

* Liveness: `DevicesConverge`, `DeletionCompletes`, `ReadyIsServed`,
  `DeletedNotServed`, `OperatorComesUp`, `MeasurementsServed`,
  `DeletionSurvivesRestart`, `Terminates`, `ResourcesConverge`.  Fairness and
  ENABLED are out of the prover's reach.  The properties of states at rest, which
  are proved, are the part of convergence that needs no fairness.
* The four properties the code violates.

Facts by induction over data (what a recursive definition computes for every
input) are out of reach too; that is why `Ancestors` is defined as a least closed
set and the search as a state machine.

## 6. Not modelled

* Flags, TLS, metrics, webhook and health servers of the operator; leader
  election, whose lease keeps the old and the new pod of an upgrade from working
  at the same time (the Deployment has one replica, and the model follows the
  new pod).
* Text of rules and templates; template parameters (`internal/k8s/template.go`),
  whose ConfigMaps the watch of the controller does not follow; Secrets of
  DataCenterResources.
* "service IDs only on leaf nodes", which the comment on `validateGraph`
  (`internal/datacenterresource/validate.go:83`) still claims: the field
  `serviceId` was dropped (CHANGELOG, #265), the code checks nothing of the kind
  and `ErrorServiceDefinedOnParent` has no use left.
* The web application: each request lists the resources and renders them, and
  nothing is kept between requests.  Postmortem (nothing in the operator calls
  it), error wording, constants, mocks and load tests.
* Several namespaces with resources of one name.

## 7. Plan

Done, in this order: the MeasurementDevice controller (it holds most of the
state and every kind of failure), the exporter composed with it, the
PhysicalMeasurement controller, graph validation, the DataCenterResource
controller; theorems on the first and on the search; the contract of a managed
resource and the three refinements; the start of the operator, alone and
composed with a controller; what holds at rest; proofs of every invariant,
action property and refinement.

Left, most important first:

1. Composition of PhysicalMeasurement with MeasurementDevice (`devices` is then
   the other module's `obj`), and the lifetime of a module against the target
   files that use it.
2. The status patch as a difference; the patches of `clearReferencedValidation`
   as steps of their own.
