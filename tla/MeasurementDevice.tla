-------------------------- MODULE MeasurementDevice --------------------------
(***************************************************************************)
(* The MeasurementDevice controller of the operator                        *)
(* (internal/controller/measurementdevice_controller.go), the SNMP files   *)
(* it keeps on the shared volume, the generator Jobs it starts, and the    *)
(* SNMP exporter Deployment it rolls.                                      *)
(*                                                                         *)
(* One worker (MaxConcurrentReconciles: 1) takes a device's name from the  *)
(* work queue, reads the object from the informer cache and runs the steps *)
(* of Reconcile in order; pc names the step the worker is at and cur is    *)
(* the object in its memory, which the deferred patch writes back.  Every  *)
(* call that leaves the process (API server, file store) is a step of its  *)
(* own, so users, generator pods, cache updates, the exporter, and a crash *)
(* of the operator may come in between.                                    *)
(*                                                                         *)
(* Abstractions.  A file's content is what the properties tell apart: the  *)
(* configuration it holds, or Empty, or Garbage (not YAML).  SHA-256 is    *)
(* injective.  Reasons, messages and time stamps of conditions are left    *)
(* out; Resync stands for the events they cause.  All devices live in one  *)
(* namespace and read one Secret.  The API server, the Job controller, the *)
(* generator and the kubelet are external.                                 *)
(***************************************************************************)
EXTENDS Integers, FiniteSets

CONSTANTS
    Names,                  \* names a MeasurementDevice may have
    Uids,                   \* object UIDs; their order is the files' order
    Walks,                  \* contents of spec.walks
    None,                   \* no object, file, module, hash ...
    Empty,                  \* a file of length zero
    Garbage,                \* a file YAML cannot parse
    MaxGeneration,          \* bound on metadata.generation
    MaxRotations,           \* bound on changes of the Secret
    MaxDeletions,           \* bound on devices a user deletes
    MaxCrashes,             \* bound on crashes of the operator
    MaxFaults,              \* bound on transient API and file errors
    MaxPodFailures          \* bound on generator pods that fail by themselves

ASSUME BoundsAssumption ==
    /\ Uids \subseteq Nat
    /\ MaxGeneration \in Nat \ {0, 1}
    /\ {MaxRotations, MaxDeletions, MaxCrashes, MaxFaults, MaxPodFailures} \subseteq Nat

Conditions == {"Unknown", "True", "False"}

\* What a generator file and a per-device SNMP file hold: the device's module
\* under its name, made from its walks and one version of the Secret.
Config == [name : Names, walks : Walks, auth : 0 .. MaxRotations]

FileContent == Config \cup {None, Empty, Garbage}

\* The merged snmp.yml: the module stored under each name.
MergedContent == [Names -> Config \cup {None}]

\* snmp.Hash and the SHA-256 of reconcileSNMPFileContent.
Hash(content) == [sha256 |-> content]

Object == [name  : Names,
           uid   : Uids,
           gen   : Nat,
           walks : Walks,
           del   : BOOLEAN,     \* metadata.deletionTimestamp is set
           fin   : BOOLEAN,     \* SNMPUpdateFinalizer is present
           \* The status: three conditions, observedGeneration, configHash.
           ready : Conditions, generated : Conditions, applied : Conditions,
           observed : Nat,
           hash  : {Hash(c) : c \in FileContent} \cup {None}]

JobObject == [uid : Uids, gen : Nat,
              status : {"running", "complete", "failed"}]

Pod == [name : Names, uid : Uids, gen : Nat,
        step : {"pending", "loaded", "writing"}, in : Config \cup {None}]

ASSUME NoneAssumption ==
    /\ None \notin Names \cup Object \cup JobObject \cup Config \cup MergedContent
    /\ Empty \notin Config /\ Garbage \notin Config
    /\ Empty # None /\ Garbage # None /\ Empty # Garbage

ASSUME HashAssumption == \A m \in MergedContent : Hash(m) # None

VARIABLES
    \* The API server, and the operator's informer cache of it.
    obj,            \* the MeasurementDevice stored under each name
    job,            \* the Job stored under each name
    cache, jobCache,
    nameOf,         \* the name each UID was given out to
    auth,           \* the version of the Secret the devices refer to
    \* The shared volume.
    genFile,        \* generator-<uid>.yaml
    snmpFile,       \* snmp-<uid>.yaml
    merged,         \* snmp.yml; None stands for the chart's placeholder
    \* Generator pods and the exporter.
    pods,
    template,       \* config-hash annotation of the exporter's pod template
    templateCache,  \* the annotation in the cached copy of the Deployment
    \* The controller.
    queue, pc, cur,
    buf,            \* the merge held in memory between reading and writing
    \* Bookkeeping.
    late,           \* UIDs for which a straggling pod touched the SNMP file
    misled,         \* the last reload was left out because of an old cached annotation
    spent           \* how often each bounded event has happened

api      == <<obj, job, nameOf, auth>>
caches   == <<cache, jobCache, templateCache>>
files    == <<genFile, snmpFile, merged>>
worker   == <<queue, pc, cur, buf>>
vars     == <<obj, job, cache, jobCache, nameOf, auth, genFile, snmpFile, merged,
              pods, template, templateCache, misled, queue, pc, cur, buf, late, spent>>

Spendings == [delete : Nat, crash : Nat, fault : Nat, pod : Nat]

\* Where the worker can be: waiting, in a step of Reconcile, or in one of the
\* two requests of the deferred patch.
CleanupSteps == {"deleteJobs", "removeGenerator", "removeSnmp"}
ApplySteps   == {"mergeRead", "mergeWrite", "reload"}
DeviceSteps  == {"generatorFile", "generatorJob", "snmpContent"}
PatchSteps   == {"patchFinalizer", "patchStatus"}
Labels == {"idle"} \cup CleanupSteps \cup ApplySteps
             \cup DeviceSteps \cup PatchSteps

TypeOK ==
    /\ obj \in [Names -> Object \cup {None}]
    /\ job \in [Names -> JobObject \cup {None}]
    /\ cache \in [Names -> Object \cup {None}]
    /\ jobCache \in [Names -> JobObject \cup {None}]
    /\ nameOf \in [Uids -> Names \cup {None}]
    /\ auth \in 0 .. MaxRotations
    /\ genFile \in [Uids -> Config \cup {None}]
    /\ snmpFile \in [Uids -> FileContent]
    /\ merged \in MergedContent \cup {None}
    /\ pods \subseteq Pod
    /\ template \in {Hash(m) : m \in MergedContent} \cup {None}
    /\ templateCache \in {Hash(m) : m \in MergedContent} \cup {None}
    /\ misled \in BOOLEAN
    /\ queue \subseteq Names
    /\ pc \in Labels
    /\ cur \in Object \cup {None}
    /\ buf \in MergedContent \cup {None}
    /\ late \subseteq Uids
    /\ spent \in Spendings

Init ==
    /\ obj = [n \in Names |-> None] /\ cache = obj
    /\ job = [n \in Names |-> None] /\ jobCache = job
    /\ nameOf = [u \in Uids |-> None] /\ auth = 0
    /\ genFile = [u \in Uids |-> None] /\ snmpFile = [u \in Uids |-> None]
    /\ merged = None /\ template = None /\ templateCache = None /\ misled = FALSE
    /\ pods = {} /\ late = {}
    /\ queue = {} /\ pc = "idle" /\ cur = None /\ buf = None
    /\ spent = [delete |-> 0, crash |-> 0, fault |-> 0, pod |-> 0]

-----------------------------------------------------------------------------
(* Users and the API server (external).                                     *)

\* The device stored under the name n is the one with UID u.
Has(n, u) == obj[n] # None /\ obj[n].uid = u

\* A fresh object gets a new UID and generation 1, also under an old name.
UserCreate(n, u, w) ==
    /\ obj[n] = None
    /\ nameOf[u] = None
    /\ nameOf' = [nameOf EXCEPT ![u] = n]
    /\ obj' = [obj EXCEPT ![n] = [name |-> n, uid |-> u, gen |-> 1, walks |-> w,
                                  del |-> FALSE, fin |-> FALSE,
                                  ready |-> "Unknown", generated |-> "Unknown",
                                  applied |-> "Unknown", observed |-> 0, hash |-> None]]
    /\ UNCHANGED <<job, auth, caches, files, pods, template, misled, worker, late, spent>>

\* A change of the spec increments the generation.  The last generation is
\* kept for the deletion.
UserUpdate(n, w) ==
    /\ obj[n] # None
    /\ ~obj[n].del
    /\ w # obj[n].walks
    /\ obj[n].gen < MaxGeneration - 1
    /\ obj' = [obj EXCEPT ![n].walks = w, ![n].gen = @ + 1]
    /\ UNCHANGED <<job, nameOf, auth, caches, files, pods, template, misled, worker, late, spent>>

\* Without finalizers the object goes at once; with one the API server sets
\* the deletion timestamp (and increments the generation) and waits.
UserDelete(n) ==
    /\ obj[n] # None
    /\ ~obj[n].del
    /\ spent.delete < MaxDeletions
    /\ spent' = [spent EXCEPT !.delete = @ + 1]
    /\ obj' = [obj EXCEPT ![n] = IF obj[n].fin THEN [obj[n] EXCEPT !.del = TRUE, !.gen = @ + 1]
                                               ELSE None]
    /\ UNCHANGED <<job, nameOf, auth, caches, files, pods, template, misled, worker, late>>

\* The Secret that authFrom names changes; no device's generation does.
RotateAuth ==
    /\ auth < MaxRotations
    /\ auth' = auth + 1
    /\ UNCHANGED <<obj, job, nameOf, caches, files, pods, template, misled, worker, late, spent>>

\* The garbage collector removes a Job whose owner is gone.
CollectJob(n) ==
    /\ job[n] # None
    /\ ~Has(n, job[n].uid)
    /\ job' = [job EXCEPT ![n] = None]
    /\ UNCHANGED <<obj, nameOf, auth, caches, files, pods, template, misled, worker, late, spent>>

-----------------------------------------------------------------------------
(* Informer caches.  SetupWithManager watches the devices and the Jobs they *)
(* own; a change seen by a cache puts the device's name in the queue.  A    *)
(* Job has the name of its device.                                          *)

CacheSync(n) ==
    /\ cache[n] # obj[n]
    /\ cache' = [cache EXCEPT ![n] = obj[n]]
    /\ queue' = queue \cup {n}
    /\ UNCHANGED <<api, jobCache, templateCache, files, pods, template, misled,
                   pc, cur, buf, late, spent>>

\* Mutant: the owned Jobs are not watched.
JobCacheSync_NoWatch(n) ==
    /\ jobCache[n] # job[n]
    /\ jobCache' = [jobCache EXCEPT ![n] = job[n]]
    /\ UNCHANGED <<api, cache, templateCache, files, pods, template, misled,
                   queue, pc, cur, buf, late, spent>>

JobCacheSync(n) ==
    /\ jobCache[n] # job[n]
    /\ jobCache' = [jobCache EXCEPT ![n] = job[n]]
    /\ queue' = queue \cup {n}
    /\ UNCHANGED <<api, cache, templateCache, files, pods, template, misled,
                   pc, cur, buf, late, spent>>

\* The cached client starts an informer for the Deployment with the first Get.
\* The controller does not watch it: catching up wakes nobody.
TemplateCacheSync ==
    /\ templateCache # template
    /\ templateCache' = template
    /\ UNCHANGED <<api, cache, jobCache, files, pods, template, misled, worker, late, spent>>

\* An event that changes nothing the model sees: every run moves the Ready
\* condition to Unknown and back, so its patch may move a time stamp, and the
\* informers resync.  Such events may come at any time and need never come.
Resync(n) ==
    /\ cache[n] # None
    /\ queue' = queue \cup {n}
    /\ UNCHANGED <<api, caches, files, pods, template, misled, pc, cur, buf, late, spent>>

-----------------------------------------------------------------------------
(* Generator pods (external).  The Job of BuildGeneratorJob runs one pod    *)
(* and never retries it (BackoffLimit 0, RestartPolicy Never).  The pod     *)
(* reads the generator file, truncates the output file and writes it.       *)
(* Deleting a Job with background propagation does not wait for its pod.    *)

OwnJob(p) == job[p.name] # None /\ job[p.name].uid = p.uid /\ job[p.name].gen = p.gen

\* The pod outlived its Job, or its device is gone or on its way out.
Straggler(p) ==
    ~OwnJob(p) \/ ~Has(p.name, p.uid) \/ obj[p.name].del

NoteLate(p) == late' = IF Straggler(p) THEN late \cup {p.uid} ELSE late

PodEnds(p, result) ==
    /\ pods' = pods \ {p}
    /\ job' = IF OwnJob(p) THEN [job EXCEPT ![p.name].status = result] ELSE job

PodLoad(p) ==
    /\ p.step = "pending"
    /\ genFile[p.uid] # None
    /\ pods' = (pods \ {p}) \cup {[p EXCEPT !.step = "loaded", !.in = genFile[p.uid]]}
    /\ UNCHANGED <<api, caches, files, template, misled, worker, late, spent>>

PodNoInput(p) ==
    /\ p.step = "pending"
    /\ genFile[p.uid] = None
    /\ PodEnds(p, "failed")
    /\ UNCHANGED <<obj, nameOf, auth, caches, files, template, misled, worker, late, spent>>

PodTruncate(p) ==
    /\ p.step = "loaded"
    /\ pods' = (pods \ {p}) \cup {[p EXCEPT !.step = "writing"]}
    /\ snmpFile' = [snmpFile EXCEPT ![p.uid] = Empty]
    /\ NoteLate(p)
    /\ UNCHANGED <<api, caches, genFile, merged, template, misled, worker, spent>>

PodWrite(p) ==
    /\ p.step = "writing"
    /\ snmpFile' = [snmpFile EXCEPT ![p.uid] = p.in]
    /\ PodEnds(p, "complete")
    /\ NoteLate(p)
    /\ UNCHANGED <<obj, nameOf, auth, caches, genFile, merged, template, misled, worker, spent>>

\* The generator fails; in the middle of its write it may leave half a file.
PodFail(p) ==
    /\ spent.pod < MaxPodFailures
    /\ spent' = [spent EXCEPT !.pod = @ + 1]
    /\ PodEnds(p, "failed")
    /\ \/ p.step # "writing" /\ UNCHANGED <<snmpFile, late>>
       \/ /\ p.step = "writing"
          /\ \E c \in {Empty, Garbage} : snmpFile' = [snmpFile EXCEPT ![p.uid] = c]
          /\ NoteLate(p)
    /\ UNCHANGED <<obj, nameOf, auth, caches, genFile, merged, template, misled, worker>>

\* The kubelet stops a pod whose Job was deleted.
PodKill(p) ==
    /\ ~OwnJob(p)
    /\ pods' = pods \ {p}
    /\ UNCHANGED <<api, caches, files, template, misled, worker, late, spent>>

-----------------------------------------------------------------------------
(* The reconciler.  The results of a step (internal/steps): Continue goes   *)
(* to the next step; Stop and Error end the run, an Error also puts the     *)
(* name back in the queue; either way the deferred patch follows.  The      *)
(* finalizers are a request of their own, sent only when they changed.      *)

outside == <<obj, job, nameOf, auth, caches, files, pods, template, misled, late, spent>>

Continue(step) == pc' = step /\ UNCHANGED queue
Stop           == pc' = "patchStatus" /\ UNCHANGED queue

\* Mutant: the error is swallowed, nothing retries.
StepError_Swallowed == pc' = "patchStatus" /\ UNCHANGED queue

StepError      == pc' = "patchStatus" /\ queue' = queue \cup {cur.name}

SetGenerated(value) == cur' = [cur EXCEPT !.generated = value]
SetApplied(value)   == cur' = [cur EXCEPT !.applied = value]

\* Mutant: go on before the finalizer is stored.
FirstStep_NoStop(o) ==
    CASE o.del /\ o.fin  -> "deleteJobs"
      [] o.del /\ ~o.fin -> "patchStatus"
      [] ~o.del          -> "generatorFile"

\* Mutant: a cleanup that failed once is not tried again.
FirstStep_NoRetry(o) ==
    CASE o.del /\ o.fin /\ o.applied # "False" -> "deleteJobs"
      [] o.del /\ (o.fin => o.applied = "False") -> "patchStatus"
      [] ~o.del /\ ~o.fin -> "patchFinalizer"
      [] ~o.del /\ o.fin  -> "generatorFile"

\* reconcileDeletion and ensureFinalizerIsSet decide from the object alone:
\* clean up, stop, add the finalizer and stop, or go on.
FirstStep(o) ==
    CASE o.del /\ o.fin   -> "deleteJobs"
      [] o.del /\ ~o.fin  -> "patchStatus"
      [] ~o.del /\ ~o.fin -> "patchFinalizer"
      [] ~o.del /\ o.fin  -> "generatorFile"

\* Reconcile: Get from the cache (nothing to do when the device is gone), set
\* Ready to Unknown in memory and enter the steps.
Reconcile(n) ==
    /\ pc = "idle"
    /\ n \in queue
    /\ queue' = queue \ {n}
    /\ IF cache[n] = None
         THEN UNCHANGED <<pc, cur>>
         ELSE /\ cur' = [cache[n] EXCEPT !.ready = "Unknown", !.fin = cache[n].fin \/ ~cache[n].del]
              /\ pc' = FirstStep(cache[n])
    /\ UNCHANGED <<outside, buf>>

\* getOwnedJobs: the Jobs in the cache whose owner reference has the device's
\* UID.  createGeneratorJob names every Job after its device, so there is at
\* most one and the "more than one" error of reconcileSNMPGeneratorJob cannot
\* occur.
OwnedJob == jobCache[cur.name] # None /\ jobCache[cur.name].uid = cur.uid

\* Delete goes by name, and a Job that is already gone is no error.
DeleteJob == job' = [job EXCEPT ![cur.name] = None]

\* The parts of reconcileDeletion, each a call that a crash can separate.
DeleteOwnedJobs ==
    /\ pc = "deleteJobs"
    /\ IF OwnedJob THEN DeleteJob ELSE UNCHANGED job
    /\ Continue("removeGenerator")
    /\ UNCHANGED <<obj, nameOf, auth, caches, files, pods, template, misled, cur, buf, late, spent>>

RemoveGeneratorFile ==
    /\ pc = "removeGenerator"
    /\ genFile' = [genFile EXCEPT ![cur.uid] = None]
    /\ Continue("removeSnmp")
    /\ UNCHANGED <<api, caches, snmpFile, merged, pods, template, misled, cur, buf, late, spent>>

\* Mutant: the files are removed but not merged anew.
RemoveSnmpFile_NoMerge ==
    /\ pc = "removeSnmp"
    /\ snmpFile' = [snmpFile EXCEPT ![cur.uid] = None]
    /\ cur' = [cur EXCEPT !.fin = FALSE]
    /\ Continue("patchFinalizer")
    /\ UNCHANGED <<api, caches, genFile, merged, pods, template, misled, buf, late, spent>>

RemoveSnmpFile ==
    /\ pc = "removeSnmp"
    /\ snmpFile' = [snmpFile EXCEPT ![cur.uid] = None]
    /\ Continue("mergeRead")
    /\ UNCHANGED <<api, caches, genFile, merged, pods, template, misled, cur, buf, late, spent>>

\* Mutant: the auth section is forgotten.
DesiredGeneratorConfig_NoAuth == [name |-> cur.name, walks |-> cur.walks]

\* desiredGeneratorConfig: auth and module under the device's name.
DesiredGeneratorConfig == [name |-> cur.name, walks |-> cur.walks, auth |-> auth]

\* The file is written when it is missing or differs; Write is atomic.
ReconcileGeneratorFile ==
    /\ pc = "generatorFile"
    /\ genFile' = [genFile EXCEPT ![cur.uid] = DesiredGeneratorConfig]
    /\ SetGenerated("True")
    /\ Continue("generatorJob")
    /\ UNCHANGED <<api, caches, snmpFile, merged, pods, template, misled, buf, late, spent>>

\* createGeneratorJob: a Job with the device's name and the generation in an
\* annotation; AlreadyExists (the cache lags, or the Job of an earlier device
\* of that name is still there) is an error like any other.
CreateGeneratorJob ==
    /\ pc = "generatorJob"
    /\ ~OwnedJob
    /\ \/ /\ job[cur.name] = None
          /\ job' = [job EXCEPT ![cur.name] =
                       [uid |-> cur.uid, gen |-> cur.gen, status |-> "running"]]
          /\ pods' = pods \cup {[name |-> cur.name, uid |-> cur.uid, gen |-> cur.gen,
                                 step |-> "pending", in |-> None]}
          /\ SetGenerated("Unknown")
          /\ Stop
       \/ /\ job[cur.name] # None
          /\ SetGenerated("False")
          /\ StepError
          /\ UNCHANGED <<job, pods>>
    /\ UNCHANGED <<obj, nameOf, auth, caches, files, template, misled, buf, late, spent>>

\* Mutants: the generation is not compared; the observed one is compared.
StaleJob_Never    == FALSE
StaleJob_Observed == jobCache[cur.name].gen # cur.observed

\* jobGeneration(job) != GetGeneration().
StaleJob == jobCache[cur.name].gen # cur.gen

EvaluateStaleJob ==
    /\ pc = "generatorJob"
    /\ OwnedJob /\ StaleJob
    /\ DeleteJob
    /\ Stop
    /\ UNCHANGED <<obj, nameOf, auth, caches, files, pods, template, misled, cur, buf, late, spent>>

\* isJobSuccessful, isJobFailed, or still running.  A failed Job is not
\* retried: only a new generation replaces it.
EvaluateGeneratorJob ==
    /\ pc = "generatorJob"
    /\ OwnedJob /\ ~StaleJob
    /\ \/ /\ jobCache[cur.name].status = "complete"
          /\ SetGenerated("Unknown")
          /\ Continue("snmpContent")
       \/ /\ jobCache[cur.name].status = "failed"
          /\ SetGenerated("False")
          /\ Stop
       \/ /\ jobCache[cur.name].status = "running"
          /\ SetGenerated("Unknown")
          /\ Stop
    /\ UNCHANGED <<outside, buf>>

ReconcileSNMPFileContent ==
    /\ pc = "snmpContent"
    /\ IF snmpFile[cur.uid] = None
         THEN SetGenerated("False") /\ StepError
         ELSE /\ cur' = [cur EXCEPT !.hash = Hash(snmpFile[cur.uid]),
                                    !.generated = "True"]
              /\ Continue("mergeRead")
    /\ UNCHANGED <<outside, buf>>

\* readPerDeviceSnmpConfigs, sortedConfigs and merge: empty files are left
\* out, and where two files define one name the later file (UID) wins.
Fragments(n) == {u \in Uids : snmpFile[u] \in Config /\ snmpFile[u].name = n}

Latest(S, u) == \A v \in S : v <= u

MergedConfig ==
    [n \in Names |-> IF \E u \in Fragments(n) : Latest(Fragments(n), u)
                       THEN snmpFile[CHOOSE u \in Fragments(n) : Latest(Fragments(n), u)]
                       ELSE None]

\* A fragment that is not YAML fails the merge of every device.
MergeRead ==
    /\ pc = "mergeRead"
    /\ \/ /\ \A u \in Uids : snmpFile[u] # Garbage
          /\ buf' = MergedConfig
          /\ Continue("mergeWrite")
          /\ UNCHANGED cur
       \/ /\ \E u \in Uids : snmpFile[u] = Garbage
          /\ SetApplied("False")
          /\ StepError
          /\ UNCHANGED buf
    /\ UNCHANGED outside

\* Mutants: the reload is left out while deleting; an unchanged merged file is
\* taken for one that was reloaded.
MergeWrite_NoReload ==
    /\ pc = "mergeWrite"
    /\ merged' = buf
    /\ buf' = None
    /\ cur' = [cur EXCEPT !.fin = ~cur.del]
    /\ Continue(IF cur.del THEN "patchFinalizer" ELSE "reload")
    /\ UNCHANGED <<api, caches, genFile, snmpFile, pods, template, misled, late, spent>>

MergeWrite_UnchangedIsApplied ==
    /\ pc = "mergeWrite"
    /\ merged' = buf
    /\ buf' = None
    /\ IF merged = buf /\ ~cur.del
         THEN cur' = [cur EXCEPT !.ready = "True"] /\ Stop
         ELSE SetApplied("Unknown") /\ Continue("reload")
    /\ UNCHANGED <<api, caches, genFile, snmpFile, pods, template, misled, late, spent>>

MergeWrite ==
    /\ pc = "mergeWrite"
    /\ merged' = buf
    /\ buf' = None
    /\ SetApplied("Unknown")
    /\ Continue("reload")
    /\ UNCHANGED <<api, caches, genFile, snmpFile, pods, template, misled, late, spent>>

\* getSnmpExporterDeployment reads the Deployment through the cached client.
SeemsReloaded == templateCache = Hash(merged)

\* reconcileExporterReload with the annotation it leaves on the Deployment.
\* Then reconcileDeletion removes the finalizer from the object in memory, and
\* Reconcile goes on to reconcileReady.
ReloadTo(annotation) ==
    /\ pc = "reload"
    /\ template' = annotation
    /\ misled' = (SeemsReloaded /\ template # Hash(merged))
    /\ \/ /\ cur.del
          /\ cur' = [cur EXCEPT !.applied = "True", !.fin = FALSE]
          /\ Continue("patchFinalizer")
       \/ /\ ~cur.del
          /\ cur' = [cur EXCEPT !.applied = "True", !.ready = "True"]
          /\ Stop
    /\ UNCHANGED <<api, caches, files, pods, buf, late, spent>>

\* Mutant: the annotation is set on the copy the patch is compared with.
ReconcileExporterReload_NoPatch == ReloadTo(template)

\* The Deployment is patched unless the cached annotation is the file's hash.
ReconcileExporterReload == ReloadTo(IF SeemsReloaded THEN template ELSE Hash(merged))

\* A call of a step fails: the step's condition is False and the error makes
\* the queue retry the name.
ReconcileFails ==
    /\ pc \in CleanupSteps \cup ApplySteps \cup DeviceSteps
    /\ spent.fault < MaxFaults
    /\ spent' = [spent EXCEPT !.fault = @ + 1]
    /\ IF pc \in DeviceSteps THEN SetGenerated("False") ELSE SetApplied("False")
    /\ StepError
    /\ buf' = None
    /\ UNCHANGED <<api, caches, files, pods, template, misled, late>>

\* To patch a missing object is an error, which makes the queue retry the name.
RetryMissing ==
    queue' = IF obj[cur.name] = None THEN queue \cup {cur.name} ELSE queue

\* The patch of the status forgives it when this run removed the finalizer.
RetryMissingStatus ==
    queue' = IF obj[cur.name] = None /\ ~(cur.del /\ ~cur.fin)
               THEN queue \cup {cur.name} ELSE queue

\* The deferred patch carries neither UID nor resourceVersion: it changes
\* whatever object has the name.  The API server drops an object that is
\* being deleted with its last finalizer.
PatchFinalizer ==
    /\ pc = "patchFinalizer"
    /\ pc' = "patchStatus"
    /\ obj' = [obj EXCEPT ![cur.name] =
                 IF @ = None \/ (@.del /\ ~cur.fin) THEN None ELSE [@ EXCEPT !.fin = cur.fin]]
    /\ RetryMissing
    /\ UNCHANGED <<job, nameOf, auth, caches, files, pods, template, misled, cur, buf, late, spent>>

\* The stored object o with the status of the one in memory;
\* WithStatusObservedGeneration records the generation the run has seen.  (The
\* request is the difference to the copy the run was given; it is taken to
\* carry the whole status, which only this worker writes.)
\* Mutant: the generation of the stored object is recorded instead.
StatusOf_Unseen(o) == [o EXCEPT !.ready = cur.ready, !.generated = cur.generated,
                                !.applied = cur.applied, !.hash = cur.hash, !.observed = o.gen]

StatusOf(o) == [o EXCEPT !.ready = cur.ready, !.generated = cur.generated,
                         !.applied = cur.applied, !.hash = cur.hash, !.observed = cur.gen]

PatchStatus ==
    /\ pc = "patchStatus"
    /\ obj' = [obj EXCEPT ![cur.name] =
                 IF @ = None THEN None ELSE StatusOf(@)]
    /\ RetryMissingStatus
    /\ pc' = "idle"
    /\ cur' = None
    /\ UNCHANGED <<job, nameOf, auth, caches, files, pods, template, misled, buf, late, spent>>

PatchFails ==
    /\ pc \in PatchSteps
    /\ spent.fault < MaxFaults
    /\ spent' = [spent EXCEPT !.fault = @ + 1]
    /\ queue' = queue \cup {cur.name}
    /\ pc' = IF pc = "patchFinalizer" THEN "patchStatus" ELSE "idle"
    /\ cur' = IF pc = "patchFinalizer" THEN cur ELSE None
    /\ UNCHANGED <<api, caches, files, pods, template, misled, buf, late>>

\* The operator restarts: the run in progress is lost, the caches list the
\* API server afresh and every device and owned Job is queued.
Crash ==
    /\ spent.crash < MaxCrashes
    /\ spent' = [spent EXCEPT !.crash = @ + 1]
    /\ cache' = obj /\ jobCache' = job /\ templateCache' = template
    /\ queue' = {n \in Names : obj[n] # None \/ job[n] # None}
    /\ pc' = "idle" /\ cur' = None /\ buf' = None
    /\ UNCHANGED <<api, files, pods, template, misled, late>>

-----------------------------------------------------------------------------
User == \/ \E n \in Names, u \in Uids, w \in Walks : UserCreate(n, u, w)
        \/ \E n \in Names, w \in Walks : UserUpdate(n, w)
        \/ \E n \in Names : UserDelete(n)
        \/ RotateAuth

Step == \/ DeleteOwnedJobs \/ RemoveGeneratorFile \/ RemoveSnmpFile
        \/ ReconcileGeneratorFile
        \/ CreateGeneratorJob \/ EvaluateStaleJob \/ EvaluateGeneratorJob
        \/ ReconcileSNMPFileContent \/ MergeRead \/ MergeWrite
        \/ ReconcileExporterReload
        \/ PatchFinalizer \/ PatchStatus

PodStep == \E p \in pods : PodLoad(p) \/ PodNoInput(p) \/ PodTruncate(p) \/ PodWrite(p)

Cluster == \/ TemplateCacheSync
           \/ \E n \in Names : CacheSync(n) \/ JobCacheSync(n) \/ Resync(n) \/ CollectJob(n)

Fault == \/ ReconcileFails \/ PatchFails \/ Crash
         \/ \E p \in pods : PodFail(p) \/ PodKill(p)

Next == \/ User
        \/ \E n \in Names : Reconcile(n)
        \/ Step
        \/ PodStep
        \/ Cluster
        \/ Fault

Spec == Init /\ [][Next]_vars

-----------------------------------------------------------------------------
(* Properties.                                                              *)

\* The device reports Ready for the spec the API server holds.
ReadyNow(n) == /\ obj[n] # None
               /\ obj[n].ready = "True"
               /\ obj[n].observed = obj[n].gen

\* No straggling pod ever touched an SNMP file of a device of this name.
Clean(n) == \A u \in late : nameOf[u] # n

\* Nothing is left to do for the controller, its caches and the cluster.
Quiescent == /\ queue = {} /\ pc = "idle" /\ pods = {}
             /\ cache = obj /\ jobCache = job

\* No generator file outlives its device: a generator-<uid>.yaml on the volume
\* belongs to a stored device that still has the finalizer, whatever the lag
\* of the caches, the failures and the crashes between the steps of
\* reconcileDeletion.
GeneratorFilesOwned ==
    \A u \in Uids : genFile[u] # None => \E n \in Names : Has(n, u) /\ obj[n].fin

\* "True only when fully converged": a device that is Ready for its current
\* generation has a generated file made from its current walks, its configHash
\* is that of the file, and the merged file serves that module under its
\* name.  Files a straggling pod touched are excepted.
ReadyMeansConverged ==
    \A n \in Names : ReadyNow(n) /\ Clean(n) =>
        LET f == snmpFile[obj[n].uid] IN
        /\ f \in Config /\ f.name = n /\ f.walks = obj[n].walks
        /\ obj[n].hash = Hash(f)
        /\ merged # None /\ merged[n] = f

\* A device that is gone leaves nothing: its SNMP file is removed, and once no
\* device has the name the merged file and the exporter's annotation no longer
\* have a module under it.  Files a straggling pod touched are excepted, and for
\* the annotation a last reload that an old copy of the Deployment suppressed.
DeletionLeavesNothing ==
    /\ \A u \in Uids \ late :
          nameOf[u] # None /\ ~Has(nameOf[u], u) => snmpFile[u] = None
    /\ \A n \in Names : obj[n] = None /\ Clean(n) =>
          /\ merged # None => merged[n] = None
          /\ template # None /\ ~misled => template.sha256[n] = None

\* Whenever every device is Ready, the exporter's annotation is the hash of the
\* merged file, at rest or in the middle of a run: a failure or a crash between
\* reconcileMergedSNMPFile and reconcileExporterReload does not leave the
\* reload undone.  The one thing that does is a comparison with an old copy of
\* the Deployment.  (And a straggling pod: the merge that picks its file up may
\* be the last run of a controller that has no device left.)
ReloadNotForgotten ==
    merged # None /\ late = {} /\ ~misled /\ (\A n \in Names : obj[n] = None \/ ReadyNow(n))
        => template = Hash(merged)

GenerationFailed(n) ==
    /\ obj[n] # None /\ job[n] # None
    /\ job[n].uid = obj[n].uid /\ job[n].gen = obj[n].gen /\ job[n].status = "failed"
    /\ obj[n].generated = "False"

\* No wake-up is lost: when nothing is left to do, every device is Ready for
\* its current spec, or says that its generator Job failed.  Every run that
\* stopped to wait for a Job was woken, and every failed one was tried again
\* (one that a file which cannot be parsed keeps from merging, for ever).
SettledAtRest ==
    Quiescent => \A n \in Names : obj[n] = None \/ ReadyNow(n) \/ GenerationFailed(n)

\* The controller deletes no generator Job of the current generation of a
\* live device, however stale the caches it decides from.
CurrentJobKept ==
    [][\A n \in Names :
          job[n] # None /\ job'[n] = None /\ Has(n, job[n].uid) /\ ~obj[n].del
             => job[n].gen # obj[n].gen]_vars

\* A device leaves the API server through its finalizer only in a step that
\* finds the merged file written, the device's generator file gone, and the
\* exporter reloaded, or seemingly so by an old copy of the Deployment.
FinalizerGuardsCleanup ==
    [][\A n \in Names :
          obj[n] # None /\ obj[n].fin /\ obj'[n] = None
             => /\ genFile[obj[n].uid] = None
                /\ merged # None
                /\ template = Hash(merged) \/ misled]_vars

-----------------------------------------------------------------------------
(* The contract of ManagedResource, for the generator file of each UID.     *)

\* The stored device with the UID u.
Device(u) == IF nameOf[u] # None /\ Has(nameOf[u], u) THEN obj[nameOf[u]] ELSE None

Life(o) == IF o = None THEN "absent" ELSE IF o.del THEN "dying"
             ELSE IF o.fin THEN "guarded" ELSE "unguarded"

OwnerBar == [u \in Uids |-> Life(Device(u))]
WantBar  == [u \in Uids |-> IF Device(u) # None THEN Device(u).walks ELSE None]
ShownBar == [u \in Uids |-> IF genFile[u] # None THEN genFile[u].walks ELSE None]
ReadyBar == {u \in Uids : Device(u) # None /\ ReadyNow(nameOf[u])}

Contract == INSTANCE ManagedResource WITH
    Ids <- Uids, Contents <- Walks, Spoils <- {},
    owner <- OwnerBar, want <- WantBar, shown <- ShownBar, ready <- ReadyBar

\* The controller implements the contract: the generator file of a device is
\* written only under its finalizer, kept while the device lives, that of the
\* current walks whenever the device is Ready, and gone before the device is;
\* also across patches that go by name and meet another device of the name.
ImplementsContract == Contract!Spec

-----------------------------------------------------------------------------
(* Liveness.  The work queue is FIFO, so a queued name is processed over    *)
(* and over (strong fairness); a started run goes on; caches, pods, garbage *)
(* collection and rollouts make progress.  Users and faults owe nothing.    *)

Fairness ==
    /\ WF_vars(Step)
    /\ WF_vars(PodStep)
    /\ \A n \in Names : /\ SF_vars(Reconcile(n))
                        /\ WF_vars(CacheSync(n))
                        /\ WF_vars(JobCacheSync(n))
                        /\ WF_vars(CollectJob(n))

FairSpec == Spec /\ Fairness

\* A fragment that cannot be parsed stops the merge of every device.
Unparsable == \E u \in Uids : snmpFile[u] = Garbage

\* Once users and faults rest, every device becomes and stays Ready for its
\* current spec, or reports that its generator Job failed; no event is lost
\* between Stop and the watch that must wake the controller.
DevicesConverge ==
    \A n \in Names :
        <>[](obj[n] = None \/ ReadyNow(n) \/ GenerationFailed(n) \/ Unparsable)

\* A device being deleted goes away, crashes and failed calls on the way or not.
DeletionCompletes ==
    \A n \in Names, u \in Uids :
        (Has(n, u) /\ obj[n].del) ~> (~Has(n, u) \/ Unparsable)

\* A Ready device's SNMP file was generated from its current generator file.
ReadyMeansGenerated ==
    \A n \in Names : ReadyNow(n) /\ Clean(n) => snmpFile[obj[n].uid] = genFile[obj[n].uid]
=============================================================================
