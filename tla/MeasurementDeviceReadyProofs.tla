--------------------- MODULE MeasurementDeviceReadyProofs ---------------------
(***************************************************************************)
(* Proofs about what MeasurementDevice promises when it reports: Jobs are  *)
(* kept, Ready is true, nothing is left undone at rest, the controller     *)
(* implements ManagedResource, and the exporter it reloads serves what is  *)
(* Ready.  They build on the invariants of MeasurementDeviceProofs.        *)
(***************************************************************************)
EXTENDS MeasurementDeviceProofs, SnmpExporter

-----------------------------------------------------------------------------
(* What the actions do, field by field.                                     *)

SameIdentity(o, q) == o.name = q.name /\ o.uid = q.uid

SameVersion(o, q) == o.gen = q.gen /\ o.walks = q.walks /\ o.del = q.del

SameStatus(o, q) == o.ready = q.ready /\ o.generated = q.generated /\ o.hash = q.hash

OthersKept(n) == \A m \in Names : m # n => obj'[m] = obj[m]

\* The fields of a stored, a cached or a held device, and of Jobs and pods.
LEMMA ObjectTypes ==
    ASSUME TypeInv
    PROVE  /\ \A n \in Names : obj[n] # None =>
                 /\ obj[n].name \in Names /\ obj[n].uid \in Uids
                 /\ obj[n].gen \in Nat /\ obj[n].observed \in Nat
                 /\ obj[n].del \in BOOLEAN /\ obj[n].fin \in BOOLEAN /\ obj[n].walks \in Walks
           /\ \A n \in Names : cache[n] # None =>
                 /\ cache[n].name \in Names /\ cache[n].uid \in Uids /\ cache[n].gen \in Nat
                 /\ cache[n].del \in BOOLEAN /\ cache[n].fin \in BOOLEAN /\ cache[n].walks \in Walks
           /\ cur # None =>
                 /\ cur.name \in Names /\ cur.uid \in Uids /\ cur.gen \in Nat
                 /\ cur.del \in BOOLEAN /\ cur.fin \in BOOLEAN /\ cur.walks \in Walks
           /\ pc = "idle" <=> cur = None
           /\ \A n \in Names : job[n] # None => job[n].uid \in Uids /\ job[n].gen \in Nat
           /\ \A n \in Names : jobCache[n] # None => jobCache[n].uid \in Uids /\ jobCache[n].gen \in Nat
           /\ \A p \in pods : p \in Pod /\ p.name \in Names /\ p.uid \in Uids /\ p.gen \in Nat
  <1>1. \A o \in Object : /\ o.name \in Names /\ o.uid \in Uids /\ o.gen \in Nat /\ o.observed \in Nat
                          /\ o.del \in BOOLEAN /\ o.fin \in BOOLEAN /\ o.walks \in Walks
    BY DEF Object
  <1>2. \A j \in JobObject : j.uid \in Uids /\ j.gen \in Nat
    BY DEF JobObject
  <1>3. \A p \in Pod : p.name \in Names /\ p.uid \in Uids /\ p.gen \in Nat
    BY DEF Pod
  <1> QED
    BY <1>1, <1>2, <1>3 DEF TypeInv, TypeOK, WorkerInv

Created(n, u, w) ==
    /\ obj[n] = None /\ OthersKept(n)
    /\ nameOf[u] = None /\ nameOf'[u] = n /\ \A v \in Uids : v # u => nameOf'[v] = nameOf[v]
    /\ obj'[n] \in Object /\ obj'[n] # None
    /\ obj'[n].name = n /\ obj'[n].uid = u /\ obj'[n].gen = 1 /\ obj'[n].walks = w
    /\ obj'[n].del = FALSE /\ obj'[n].fin = FALSE
    /\ obj'[n].ready = "Unknown" /\ obj'[n].observed = 0
    /\ UNCHANGED <<job, cache, jobCache, genFile, snmpFile, merged, pods, template, misled, queue,
                   pc, cur, buf, late>>

LEMMA CreateFacts ==
    ASSUME TypeInv, NEW n \in Names, NEW u \in Uids, NEW w \in Walks, UserCreate(n, u, w)
    PROVE  Created(n, u, w)
  <1>1. obj'[n] = [name |-> n, uid |-> u, gen |-> 1, walks |-> w,
                   del |-> FALSE, fin |-> FALSE,
                   ready |-> "Unknown", generated |-> "Unknown",
                   applied |-> "Unknown", observed |-> 0, hash |-> None]
    BY DEF UserCreate, TypeInv, TypeOK
  <1>2. /\ obj'[n] \in Object
        /\ obj'[n].name = n /\ obj'[n].uid = u /\ obj'[n].gen = 1 /\ obj'[n].walks = w
        /\ obj'[n].del = FALSE /\ obj'[n].fin = FALSE
        /\ obj'[n].ready = "Unknown" /\ obj'[n].observed = 0
    BY <1>1 DEF Object, Conditions
  <1>3. nameOf'[u] = n /\ \A v \in Uids : v # u => nameOf'[v] = nameOf[v]
    BY DEF UserCreate, TypeInv, TypeOK
  <1>4. OthersKept(n)
    BY DEF UserCreate, TypeInv, TypeOK, OthersKept
  <1> QED
    BY <1>2, <1>3, <1>4, NoneAssumption DEF UserCreate, caches, files, worker, Created

Updated(n, w) ==
    /\ obj[n] \in Object /\ obj[n] # None /\ obj[n].del = FALSE /\ OthersKept(n)
    /\ obj'[n] \in Object /\ obj'[n] # None
    /\ SameIdentity(obj'[n], obj[n]) /\ SameStatus(obj'[n], obj[n])
    /\ obj'[n].observed = obj[n].observed
    /\ obj'[n].gen = obj[n].gen + 1 /\ obj'[n].walks = w
    /\ obj'[n].del = FALSE /\ obj'[n].fin = obj[n].fin
    /\ UNCHANGED <<job, nameOf, cache, jobCache, genFile, snmpFile, merged, pods, template, misled, queue,
                   pc, cur, buf, late>>

LEMMA UpdateFacts ==
    ASSUME TypeInv, NEW n \in Names, NEW w \in Walks, UserUpdate(n, w)
    PROVE  Updated(n, w)
  <1>1. obj[n] \in Object /\ obj[n].del = FALSE
    BY DEF UserUpdate, TypeInv, TypeOK, Object
  <1>2. obj'[n] = [obj[n] EXCEPT !.walks = w, !.gen = @ + 1]
    BY DEF UserUpdate, TypeInv, TypeOK
  <1>3. obj'[n] \in Object
    <2>1. \A v \in Walks : [obj[n] EXCEPT !.walks = v, !.gen = @ + 1] \in Object
      BY <1>1, FieldTypes
    <2> QED
      BY <1>2, <2>1
  <1>4. /\ SameIdentity(obj'[n], obj[n]) /\ SameStatus(obj'[n], obj[n])
        /\ obj'[n].observed = obj[n].observed
        /\ obj'[n].gen = obj[n].gen + 1 /\ obj'[n].walks = w
        /\ obj'[n].del = obj[n].del /\ obj'[n].fin = obj[n].fin
    BY <1>1, <1>2 DEF Object, SameIdentity, SameStatus
  <1>5. OthersKept(n)
    BY DEF UserUpdate, TypeInv, TypeOK, OthersKept
  <1> QED
    BY <1>1, <1>3, <1>4, <1>5, NoneAssumption DEF UserUpdate, caches, files, worker, Updated

Deleted(n) ==
    /\ obj[n] \in Object /\ obj[n] # None /\ obj[n].del = FALSE /\ OthersKept(n)
    /\ ~obj[n].fin => obj'[n] = None
    /\ obj[n].fin => /\ obj'[n] \in Object /\ obj'[n] # None
                     /\ SameIdentity(obj'[n], obj[n]) /\ SameStatus(obj'[n], obj[n])
                     /\ obj'[n].observed = obj[n].observed
                     /\ obj'[n].gen = obj[n].gen + 1 /\ obj'[n].walks = obj[n].walks
                     /\ obj'[n].del = TRUE /\ obj'[n].fin = TRUE
    /\ UNCHANGED <<job, nameOf, cache, jobCache, genFile, snmpFile, merged, pods, template, misled, queue,
                   pc, cur, buf, late>>

LEMMA DeleteFacts ==
    ASSUME TypeInv, NEW n \in Names, UserDelete(n)
    PROVE  Deleted(n)
  <1>1. obj[n] \in Object /\ obj[n].del = FALSE /\ obj[n].fin \in BOOLEAN
    BY DEF UserDelete, TypeInv, TypeOK, Object
  <1>2. obj'[n] = IF obj[n].fin THEN [obj[n] EXCEPT !.del = TRUE, !.gen = @ + 1] ELSE None
    BY DEF UserDelete, TypeInv, TypeOK
  <1>3. OthersKept(n)
    BY DEF UserDelete, TypeInv, TypeOK, OthersKept
  <1>4. ASSUME obj[n].fin PROVE /\ obj'[n] \in Object
                                /\ SameIdentity(obj'[n], obj[n]) /\ SameStatus(obj'[n], obj[n])
                                /\ obj'[n].observed = obj[n].observed
                                /\ obj'[n].gen = obj[n].gen + 1 /\ obj'[n].walks = obj[n].walks
                                /\ obj'[n].del = TRUE /\ obj'[n].fin = TRUE
    <2>1. obj'[n] \in Object
      BY <1>1, <1>2, <1>4, FieldTypes
    <2> QED
      BY <1>1, <1>2, <1>4, <2>1 DEF Object, SameIdentity, SameStatus
  <1> QED
    BY <1>1, <1>2, <1>3, <1>4, NoneAssumption DEF UserDelete, caches, files, worker, Deleted

Synced(n) ==
    /\ cache'[n] = obj[n] /\ \A m \in Names : m # n => cache'[m] = cache[m]
    /\ queue' = queue \cup {n}
    /\ UNCHANGED <<obj, job, nameOf, jobCache, genFile, snmpFile, merged, pods, template, misled,
                   pc, cur, buf, late>>

LEMMA SyncFacts ==
    ASSUME TypeInv, NEW n \in Names, CacheSync(n)
    PROVE  Synced(n)
  BY DEF CacheSync, TypeInv, TypeOK, api, files, Synced

JobSynced(n) ==
    /\ jobCache'[n] = job[n] /\ \A m \in Names : m # n => jobCache'[m] = jobCache[m]
    /\ queue' = queue \cup {n}
    /\ UNCHANGED <<obj, job, nameOf, cache, genFile, snmpFile, merged, pods, template, misled,
                   pc, cur, buf, late>>

LEMMA JobSyncFacts ==
    ASSUME TypeInv, NEW n \in Names, JobCacheSync(n)
    PROVE  JobSynced(n)
  BY DEF JobCacheSync, TypeInv, TypeOK, api, files, JobSynced


Loaded(n) ==
    /\ cache[n] \in Object /\ cache[n] # None /\ cur' \in Object /\ cur' # None
    /\ SameIdentity(cur', cache[n]) /\ SameVersion(cur', cache[n])
    /\ cur'.ready = "Unknown" /\ cur'.fin = (cache[n].fin \/ ~cache[n].del)
    /\ cache[n].del /\ cache[n].fin => pc' = "deleteJobs"
    /\ cache[n].del /\ ~cache[n].fin => pc' = "patchStatus"
    /\ ~cache[n].del /\ ~cache[n].fin => pc' = "patchFinalizer"
    /\ ~cache[n].del /\ cache[n].fin => pc' = "generatorFile"
    /\ pc = "idle" /\ queue' = queue \ {n}
    /\ UNCHANGED <<obj, job, nameOf, cache, jobCache, genFile, snmpFile, merged, pods, template, misled,
                   buf, late>>

LEMMA LoadFacts ==
    ASSUME TypeInv, NEW n \in Names, Reconcile(n), cache[n] # None
    PROVE  Loaded(n)
  <1>1. cache[n] \in Object
    BY DEF TypeInv, TypeOK
  <1>2. cur' = [cache[n] EXCEPT !.ready = "Unknown", !.fin = cache[n].fin \/ ~cache[n].del]
    BY DEF Reconcile
  <1>3. cache[n].fin \in BOOLEAN /\ cache[n].del \in BOOLEAN
    BY <1>1 DEF Object
  <1>4. cur' \in Object
    BY <1>1, <1>2, <1>3, FieldTypes
  <1>5. /\ SameIdentity(cur', cache[n]) /\ SameVersion(cur', cache[n])
        /\ cur'.ready = "Unknown" /\ cur'.fin = (cache[n].fin \/ ~cache[n].del)
    BY <1>1, <1>2 DEF Object, SameIdentity, SameVersion
  <1>6. /\ pc' = FirstStep(cache[n]) /\ pc = "idle" /\ queue' = queue \ {n}
        /\ UNCHANGED <<obj, job, nameOf, cache, jobCache, genFile, snmpFile, merged, pods, template, misled,
                       buf, late>>
    BY DEF Reconcile, outside, caches, files
  <1> QED
    BY <1>1, <1>3, <1>4, <1>5, <1>6, NoneAssumption DEF FirstStep, Loaded

\* The copy in memory stays that of the same version of the same device.
Holds ==
    /\ cur \in Object /\ cur # None /\ cur.name \in Names /\ cur.uid \in Uids
    /\ cur' \in Object /\ cur' # None
    /\ SameIdentity(cur', cur) /\ SameVersion(cur', cur)

\* What only the worker's own steps change, beside the files and Jobs.
WorksAlone == UNCHANGED <<obj, nameOf, cache, jobCache, late>>

\* A step that ends in an error: the name is queued again.
Failed ==
    /\ Holds /\ WorksAlone /\ cur'.ready = cur.ready
    /\ pc \in CleanupSteps \cup ApplySteps \cup DeviceSteps /\ pc' = "patchStatus"
    /\ queue' = queue \cup {cur.name}
    /\ UNCHANGED <<job, genFile, snmpFile, merged, pods, template, misled>>

\* The copy with another condition.
LEMMA ConditionFacts ==
    ASSUME TypeInv, pc # "idle", NEW v \in Conditions,
           SetGenerated(v) \/ SetApplied(v)
    PROVE  /\ Holds /\ cur'.ready = cur.ready /\ cur'.fin = cur.fin /\ cur'.hash = cur.hash
           /\ SetGenerated(v) => cur'.generated = v
  <1>1. cur \in Object /\ cur # None /\ cur.name \in Names /\ cur.uid \in Uids
    BY CurType, NoneAssumption
  <1>2. /\ [cur EXCEPT !.generated = v] \in Object
        /\ [cur EXCEPT !.applied = v] \in Object
    <2>1. /\ \A c \in Conditions : [cur EXCEPT !.generated = c] \in Object
          /\ \A c \in Conditions : [cur EXCEPT !.applied = c] \in Object
      BY <1>1, FieldTypes
    <2> QED
      BY <2>1
  <1>3. cur' \in Object /\ cur' # None
    BY <1>2, NoneAssumption DEF SetGenerated, SetApplied
  <1> QED
    BY <1>1, <1>3 DEF SetGenerated, SetApplied, Holds, SameIdentity, SameVersion, Object

LEMMA FailFacts ==
    ASSUME TypeInv,
           \/ ReconcileFails
           \/ CreateGeneratorJob /\ job[cur.name] # None
           \/ ReconcileSNMPFileContent /\ snmpFile[cur.uid] = None
           \/ MergeRead /\ \E u \in Uids : snmpFile[u] = Garbage
    PROVE  Failed
  <1>1. /\ pc \in CleanupSteps \cup ApplySteps \cup DeviceSteps /\ pc' = "patchStatus"
        /\ queue' = queue \cup {cur.name} /\ WorksAlone
        /\ UNCHANGED <<job, genFile, snmpFile, merged, pods, template, misled>>
    BY DEF ReconcileFails, CreateGeneratorJob, ReconcileSNMPFileContent, MergeRead, StepError,
           Stop, Continue, CleanupSteps, ApplySteps, DeviceSteps, WorksAlone, outside, api, caches, files
  <1>2. pc # "idle" /\ "False" \in Conditions
    BY <1>1 DEF CleanupSteps, ApplySteps, DeviceSteps, Conditions
  <1>3. SetGenerated("False") \/ SetApplied("False")
    BY DEF ReconcileFails, CreateGeneratorJob, ReconcileSNMPFileContent, MergeRead
  <1>4. Holds /\ cur'.ready = cur.ready
    BY <1>2, <1>3, ConditionFacts
  <1> QED
    BY <1>1, <1>4 DEF Failed

\* The Job under the name of the copy goes.
JobDropped ==
    /\ job'[cur.name] = None /\ \A m \in Names : m # cur.name => job'[m] = job[m]

\* The first part of a cleanup.
JobsDeleted ==
    /\ cur # None /\ cur.name \in Names /\ cur.uid \in Uids /\ WorksAlone
    /\ (OwnedJob /\ JobDropped) \/ UNCHANGED job
    /\ pc = "deleteJobs" /\ pc' = "removeGenerator"
    /\ UNCHANGED <<genFile, snmpFile, merged, pods, template, misled, queue, cur, buf>>

LEMMA DeleteJobsFacts ==
    ASSUME TypeInv, DeleteOwnedJobs
    PROVE  JobsDeleted
  <1>1. cur # None /\ cur.name \in Names /\ cur.uid \in Uids
    BY CurType, NoneAssumption DEF DeleteOwnedJobs
  <1>2. (OwnedJob /\ JobDropped) \/ UNCHANGED job
    BY <1>1 DEF DeleteOwnedJobs, DeleteJob, JobDropped, TypeInv, TypeOK
  <1> QED
    BY <1>1, <1>2 DEF DeleteOwnedJobs, Continue, JobsDeleted, WorksAlone, caches, files

\* The second part.
GeneratorRemoved ==
    /\ cur # None /\ cur.name \in Names /\ cur.uid \in Uids /\ WorksAlone
    /\ genFile'[cur.uid] = None /\ \A u \in Uids : u # cur.uid => genFile'[u] = genFile[u]
    /\ pc = "removeGenerator" /\ pc' = "removeSnmp"
    /\ UNCHANGED <<job, snmpFile, merged, pods, template, misled, queue, cur, buf>>

LEMMA RemoveGeneratorFacts ==
    ASSUME TypeInv, RemoveGeneratorFile
    PROVE  GeneratorRemoved
  <1>1. cur # None /\ cur.name \in Names /\ cur.uid \in Uids
    BY CurType, NoneAssumption DEF RemoveGeneratorFile
  <1> QED
    BY <1>1
       DEF RemoveGeneratorFile, Continue, GeneratorRemoved, WorksAlone, TypeInv, TypeOK, api,
           caches

\* The third.
SnmpRemoved ==
    /\ cur # None /\ cur.name \in Names /\ cur.uid \in Uids /\ WorksAlone
    /\ snmpFile'[cur.uid] = None /\ \A u \in Uids : u # cur.uid => snmpFile'[u] = snmpFile[u]
    /\ pc = "removeSnmp" /\ pc' = "mergeRead"
    /\ UNCHANGED <<job, genFile, merged, pods, template, misled, queue, cur, buf>>

LEMMA RemoveSnmpFacts ==
    ASSUME TypeInv, RemoveSnmpFile
    PROVE  SnmpRemoved
  <1>1. cur # None /\ cur.name \in Names /\ cur.uid \in Uids
    BY CurType, NoneAssumption DEF RemoveSnmpFile
  <1> QED
    BY <1>1 DEF RemoveSnmpFile, Continue, SnmpRemoved, WorksAlone, TypeInv, TypeOK, api, caches

\* The generator file of the copy is written.
FileWritten ==
    /\ Holds /\ WorksAlone /\ cur'.ready = cur.ready
    /\ genFile'[cur.uid] \in Config /\ genFile'[cur.uid] # None
    /\ genFile'[cur.uid].walks = cur.walks /\ genFile'[cur.uid].name = cur.name
    /\ \A u \in Uids : u # cur.uid => genFile'[u] = genFile[u]
    /\ pc = "generatorFile" /\ pc' = "generatorJob"
    /\ UNCHANGED <<job, snmpFile, merged, pods, template, misled, queue, buf>>

LEMMA WriteFacts ==
    ASSUME TypeInv, ReconcileGeneratorFile
    PROVE  FileWritten
  <1>1. pc = "generatorFile" /\ SetGenerated("True")
    BY DEF ReconcileGeneratorFile
  <1>2. Holds /\ cur'.ready = cur.ready
    <2>1. "True" \in Conditions
      BY DEF Conditions
    <2> QED
      BY <1>1, <2>1, ConditionFacts
  <1>3. genFile'[cur.uid] = [name |-> cur.name, walks |-> cur.walks, auth |-> auth]
    BY <1>2 DEF ReconcileGeneratorFile, DesiredGeneratorConfig, TypeInv, TypeOK, Holds
  <1>4. genFile'[cur.uid] \in Config /\ genFile'[cur.uid] # None
    BY <1>1, <1>2, <1>3, CurType, NoneAssumption DEF Config, TypeInv, TypeOK, Holds
  <1>5. \A u \in Uids : u # cur.uid => genFile'[u] = genFile[u]
    BY DEF ReconcileGeneratorFile, TypeInv, TypeOK
  <1> QED
    BY <1>1, <1>2, <1>3, <1>4, <1>5
       DEF ReconcileGeneratorFile, Continue, FileWritten, WorksAlone, api, caches


\* A Job and its pod are created for the copy.
NewPod == [name |-> cur.name, uid |-> cur.uid, gen |-> cur.gen, step |-> "pending", in |-> None]

JobCreated ==
    /\ Holds /\ WorksAlone /\ cur'.ready = cur.ready
    /\ ~OwnedJob /\ job[cur.name] = None
    /\ job'[cur.name] # None /\ job'[cur.name].uid = cur.uid /\ job'[cur.name].gen = cur.gen
    /\ job'[cur.name].status = "running"
    /\ \A m \in Names : m # cur.name => job'[m] = job[m]
    /\ pods' = pods \cup {NewPod} /\ NewPod \in Pod
    /\ NewPod.name = cur.name /\ NewPod.uid = cur.uid /\ NewPod.gen = cur.gen
    /\ NewPod.step = "pending"
    /\ pc = "generatorJob" /\ pc' = "patchStatus"
    /\ UNCHANGED <<genFile, snmpFile, merged, template, misled, queue, buf>>

LEMMA CreateJobFacts ==
    ASSUME TypeInv, CreateGeneratorJob, job[cur.name] = None
    PROVE  JobCreated
  <1>1. pc = "generatorJob" /\ SetGenerated("Unknown")
    BY DEF CreateGeneratorJob
  <1>2. Holds /\ cur'.ready = cur.ready
    <2>1. "Unknown" \in Conditions
      BY DEF Conditions
    <2> QED
      BY <1>1, <2>1, ConditionFacts
  <1>3. job'[cur.name] = [uid |-> cur.uid, gen |-> cur.gen, status |-> "running"]
    BY <1>2 DEF CreateGeneratorJob, TypeInv, TypeOK, Holds
  <1>4. /\ job'[cur.name] \in JobObject /\ job'[cur.name] # None
        /\ job'[cur.name].uid = cur.uid /\ job'[cur.name].gen = cur.gen
        /\ job'[cur.name].status = "running"
    BY <1>1, <1>3, CurType, NoneAssumption DEF JobObject
  <1>5. \A m \in Names : m # cur.name => job'[m] = job[m]
    BY DEF CreateGeneratorJob, TypeInv, TypeOK
  <1>6. /\ NewPod \in Pod
        /\ NewPod.name = cur.name /\ NewPod.uid = cur.uid /\ NewPod.gen = cur.gen
        /\ NewPod.step = "pending"
    BY <1>1, CurType DEF NewPod, Pod
  <1>7. pods' = pods \cup {NewPod}
    BY DEF CreateGeneratorJob, NewPod
  <1> QED
    BY <1>1, <1>2, <1>4, <1>5, <1>6, <1>7
       DEF CreateGeneratorJob, Stop, JobCreated, WorksAlone, caches, files

\* A Job of another generation is deleted, and the run ends.
StaleDropped ==
    /\ cur # None /\ cur.name \in Names /\ cur.uid \in Uids /\ WorksAlone
    /\ OwnedJob /\ StaleJob /\ JobDropped
    /\ pc = "generatorJob" /\ pc' = "patchStatus"
    /\ UNCHANGED <<genFile, snmpFile, merged, pods, template, misled, queue, cur, buf>>

LEMMA StaleFacts ==
    ASSUME TypeInv, EvaluateStaleJob
    PROVE  StaleDropped
  <1>1. cur # None /\ cur.name \in Names /\ cur.uid \in Uids
    BY CurType, NoneAssumption DEF EvaluateStaleJob
  <1>2. JobDropped
    BY <1>1 DEF EvaluateStaleJob, DeleteJob, JobDropped, TypeInv, TypeOK
  <1> QED
    BY <1>1, <1>2 DEF EvaluateStaleJob, Stop, StaleDropped, WorksAlone, caches, files

\* The Job of the copy's generation decides how the run goes on.
Evaluated ==
    /\ Holds /\ WorksAlone /\ cur'.ready = cur.ready
    /\ OwnedJob /\ ~StaleJob /\ pc = "generatorJob"
    /\ \/ jobCache[cur.name].status = "complete" /\ pc' = "snmpContent"
       \/ jobCache[cur.name].status = "failed" /\ pc' = "patchStatus" /\ cur'.generated = "False"
       \/ jobCache[cur.name].status = "running" /\ pc' = "patchStatus"
    /\ UNCHANGED <<job, genFile, snmpFile, merged, pods, template, misled, queue, buf>>

LEMMA EvaluateFacts ==
    ASSUME TypeInv, EvaluateGeneratorJob
    PROVE  Evaluated
  <1>1. pc # "idle" /\ "False" \in Conditions /\ "Unknown" \in Conditions
    BY DEF EvaluateGeneratorJob, Conditions
  <1>2. CASE SetGenerated("False") /\ jobCache[cur.name].status = "failed" /\ Stop
    <2>1. Holds /\ cur'.ready = cur.ready /\ cur'.generated = "False"
      BY <1>1, <1>2, ConditionFacts
    <2> QED
      BY <1>2, <2>1 DEF EvaluateGeneratorJob, Stop, Evaluated, WorksAlone, outside, caches, files
  <1>3. CASE /\ SetGenerated("Unknown")
             /\ \/ jobCache[cur.name].status = "complete" /\ Continue("snmpContent")
                \/ jobCache[cur.name].status = "running" /\ Stop
    <2>1. Holds /\ cur'.ready = cur.ready
      BY <1>1, <1>3, ConditionFacts
    <2> QED
      BY <1>3, <2>1
         DEF EvaluateGeneratorJob, Stop, Continue, Evaluated, WorksAlone, outside, caches, files
  <1> QED
    BY <1>2, <1>3 DEF EvaluateGeneratorJob

\* The SNMP file is there, and its hash is recorded.
ContentRead ==
    /\ Holds /\ WorksAlone /\ cur'.ready = cur.ready
    /\ cur'.hash = Hash(snmpFile[cur.uid]) /\ snmpFile[cur.uid] # None
    /\ pc = "snmpContent" /\ pc' = "mergeRead"
    /\ UNCHANGED <<job, genFile, snmpFile, merged, pods, template, misled, queue, buf>>

LEMMA ContentFacts ==
    ASSUME TypeInv, ReconcileSNMPFileContent, snmpFile[cur.uid] # None
    PROVE  ContentRead
  <1>1. cur \in Object /\ cur # None /\ cur.name \in Names /\ cur.uid \in Uids
    BY CurType, NoneAssumption DEF ReconcileSNMPFileContent
  <1>2. snmpFile[cur.uid] \in FileContent
    BY <1>1 DEF TypeInv, TypeOK
  <1>3. cur' = [cur EXCEPT !.hash = Hash(snmpFile[cur.uid]), !.generated = "True"]
    BY DEF ReconcileSNMPFileContent
  <1>4. cur' \in Object
    <2>1. \A c \in FileContent : [cur EXCEPT !.hash = Hash(c), !.generated = "True"] \in Object
      BY <1>1, FieldTypes
    <2> QED
      BY <1>2, <1>3, <2>1
  <1>5. /\ SameIdentity(cur', cur) /\ SameVersion(cur', cur) /\ cur'.ready = cur.ready
        /\ cur'.hash = Hash(snmpFile[cur.uid])
    BY <1>1, <1>3 DEF Object, SameIdentity, SameVersion
  <1> QED
    BY <1>1, <1>4, <1>5, NoneAssumption
       DEF ReconcileSNMPFileContent, Continue, ContentRead, Holds, WorksAlone, outside, caches, files

\* The SNMP files are read and merged in memory.
MergeReady ==
    /\ cur # None /\ cur.name \in Names /\ cur.uid \in Uids /\ WorksAlone
    /\ buf' = MergedConfig /\ pc = "mergeRead" /\ pc' = "mergeWrite"
    /\ UNCHANGED <<job, genFile, snmpFile, merged, pods, template, misled, queue, cur>>

LEMMA MergeReadFacts ==
    ASSUME TypeInv, MergeRead, ~\E u \in Uids : snmpFile[u] = Garbage
    PROVE  MergeReady
  <1>1. cur # None /\ cur.name \in Names /\ cur.uid \in Uids
    BY CurType, NoneAssumption DEF MergeRead
  <1> QED
    BY <1>1 DEF MergeRead, Continue, MergeReady, WorksAlone, outside, caches, files

\* The merged file is written.
MergeStored ==
    /\ Holds /\ WorksAlone /\ cur'.ready = cur.ready /\ cur'.hash = cur.hash
    /\ merged' = buf /\ buf # None /\ pc = "mergeWrite" /\ pc' = "reload"
    /\ UNCHANGED <<job, genFile, snmpFile, pods, template, misled, queue>>

LEMMA MergeWriteFacts ==
    ASSUME TypeInv, MergeWrite
    PROVE  MergeStored
  <1>1. pc = "mergeWrite" /\ SetApplied("Unknown")
    BY DEF MergeWrite
  <1>2. Holds /\ cur'.ready = cur.ready /\ cur'.hash = cur.hash
    <2>1. "Unknown" \in Conditions
      BY DEF Conditions
    <2> QED
      BY <1>1, <2>1, ConditionFacts
  <1> QED
    BY <1>1, <1>2 DEF MergeWrite, Continue, MergeStored, WorksAlone, TypeInv, WorkerInv, api, caches

\* The exporter's annotation is brought up to date, or seems to be.
Reloaded ==
    /\ Holds /\ WorksAlone /\ cur'.hash = cur.hash
    /\ pc = "reload" /\ merged # None /\ (template' = Hash(merged) \/ misled')
    /\ cur.del => pc' = "patchFinalizer" /\ cur'.fin = FALSE /\ cur'.ready = cur.ready
    /\ ~cur.del => pc' = "patchStatus" /\ cur'.ready = "True"
    /\ UNCHANGED <<job, genFile, snmpFile, merged, pods, queue, buf>>

LEMMA ReloadFacts ==
    ASSUME TypeInv, ReconcileExporterReload
    PROVE  Reloaded
  <1>1. pc = "reload" /\ merged # None
    BY DEF ReconcileExporterReload, ReloadTo, TypeInv, WorkerInv
  <1>2. cur \in Object /\ cur # None /\ cur.name \in Names /\ cur.uid \in Uids
    BY <1>1, CurType, NoneAssumption
  <1>3. cur' \in Object /\ cur' # None
    BY <1>2, FieldTypes, NoneAssumption DEF ReconcileExporterReload, ReloadTo
  <1>4. /\ SameIdentity(cur', cur) /\ SameVersion(cur', cur) /\ cur'.hash = cur.hash
        /\ cur.del => cur'.fin = FALSE /\ cur'.ready = cur.ready
        /\ ~cur.del => cur'.ready = "True"
    BY <1>2 DEF ReconcileExporterReload, ReloadTo, SameIdentity, SameVersion, Object
  <1>5. /\ cur.del => pc' = "patchFinalizer"
        /\ ~cur.del => pc' = "patchStatus"
    BY DEF ReconcileExporterReload, ReloadTo, Stop, Continue
  <1>6. template' = Hash(merged) \/ misled'
    BY DEF ReconcileExporterReload, ReloadTo
  <1>7. /\ WorksAlone
        /\ UNCHANGED <<job, genFile, snmpFile, merged, pods, queue, buf>>
    BY DEF ReconcileExporterReload, ReloadTo, Stop, Continue, WorksAlone, api, caches, files
  <1> QED
    BY <1>1, <1>2, <1>3, <1>4, <1>5, <1>6, <1>7 DEF Reloaded, Holds


\* The two requests of the deferred patch.
Finalized(n) ==
    /\ n = cur.name /\ cur # None /\ OthersKept(n)
    /\ obj[n] = None \/ (obj[n].del /\ ~cur.fin) => obj'[n] = None
    /\ obj[n] # None /\ ~(obj[n].del /\ ~cur.fin) =>
          /\ obj'[n] \in Object /\ obj'[n] # None
          /\ SameIdentity(obj'[n], obj[n]) /\ SameVersion(obj'[n], obj[n])
          /\ SameStatus(obj'[n], obj[n]) /\ obj'[n].observed = obj[n].observed
          /\ obj'[n].fin = cur.fin
    /\ queue' = IF obj[n] = None THEN queue \cup {n} ELSE queue
    /\ pc = "patchFinalizer" /\ pc' = "patchStatus"
    /\ UNCHANGED <<job, nameOf, cache, jobCache, genFile, snmpFile, merged, pods, template, misled,
                   cur, buf, late>>

LEMMA FinalizerFacts ==
    ASSUME TypeInv, NEW n, n = cur.name, PatchFinalizer
    PROVE  Finalized(n)
  <1>1. n \in Names /\ cur.fin \in BOOLEAN /\ cur # None
    BY CurType, NoneAssumption DEF PatchFinalizer
  <1>2. obj'[n] = IF obj[n] = None \/ (obj[n].del /\ ~cur.fin) THEN None
                  ELSE [obj[n] EXCEPT !.fin = cur.fin]
    BY <1>1 DEF PatchFinalizer, TypeInv, TypeOK
  <1>3. OthersKept(n)
    BY <1>1 DEF PatchFinalizer, TypeInv, TypeOK, OthersKept
  <1>4. ASSUME obj[n] # None, ~(obj[n].del /\ ~cur.fin)
        PROVE  /\ obj'[n] \in Object
               /\ SameIdentity(obj'[n], obj[n]) /\ SameVersion(obj'[n], obj[n])
               /\ SameStatus(obj'[n], obj[n]) /\ obj'[n].observed = obj[n].observed
               /\ obj'[n].fin = cur.fin
    <2>1. obj[n] \in Object
      BY <1>1, <1>4 DEF TypeInv, TypeOK
    <2>2. obj'[n] = [obj[n] EXCEPT !.fin = cur.fin]
      BY <1>2, <1>4
    <2>3. \A b \in BOOLEAN : [obj[n] EXCEPT !.fin = b] \in Object
      BY <2>1, FieldTypes
    <2>4. obj'[n] \in Object
      BY <1>1, <2>2, <2>3
    <2> QED
      BY <2>1, <2>2, <2>4 DEF Object, SameIdentity, SameVersion, SameStatus
  <1> QED
    BY <1>1, <1>2, <1>3, <1>4, NoneAssumption
       DEF PatchFinalizer, RetryMissing, Finalized, caches, files

Stored(n) ==
    /\ n = cur.name /\ cur # None /\ OthersKept(n)
    /\ obj[n] = None => obj'[n] = None
    /\ obj[n] # None =>
          /\ obj'[n] \in Object /\ obj'[n] # None
          /\ SameIdentity(obj'[n], obj[n]) /\ SameVersion(obj'[n], obj[n])
          /\ obj'[n].fin = obj[n].fin /\ SameStatus(obj'[n], cur)
          /\ obj'[n].observed = cur.gen
    /\ queue' = IF obj[n] = None /\ ~(cur.del /\ ~cur.fin) THEN queue \cup {n} ELSE queue
    /\ pc = "patchStatus" /\ pc' = "idle" /\ cur' = None
    /\ UNCHANGED <<job, nameOf, cache, jobCache, genFile, snmpFile, merged, pods, template, misled,
                   buf, late>>

LEMMA StatusFacts ==
    ASSUME TypeInv, NEW n, n = cur.name, PatchStatus
    PROVE  Stored(n)
  <1>1. n \in Names /\ cur \in Object /\ cur # None
    BY CurType, NoneAssumption DEF PatchStatus
  <1>2. obj'[n] = IF obj[n] = None THEN None ELSE StatusOf(obj[n])
    BY <1>1 DEF PatchStatus, TypeInv, TypeOK
  <1>3. OthersKept(n)
    BY <1>1 DEF PatchStatus, TypeInv, TypeOK, OthersKept
  <1>4. ASSUME obj[n] # None
        PROVE  /\ obj'[n] \in Object
               /\ SameIdentity(obj'[n], obj[n]) /\ SameVersion(obj'[n], obj[n])
               /\ obj'[n].fin = obj[n].fin /\ SameStatus(obj'[n], cur)
               /\ obj'[n].observed = cur.gen
    <2>1. obj[n] \in Object
      BY <1>1, <1>4 DEF TypeInv, TypeOK
    <2>2. obj'[n] = StatusOf(obj[n])
      BY <1>2, <1>4
    <2>3. StatusOf(obj[n]) \in Object
      BY <1>1, <2>1, FieldTypes DEF StatusOf
    <2> QED
      BY <2>1, <2>2, <2>3 DEF StatusOf, Object, SameIdentity, SameVersion, SameStatus
  <1> QED
    BY <1>1, <1>2, <1>3, <1>4, NoneAssumption
       DEF PatchStatus, RetryMissingStatus, Stored, caches, files

\* One of them fails: the name is queued again.
PatchFailed ==
    /\ cur # None /\ cur.name \in Names
    /\ pc = "patchFinalizer" => pc' = "patchStatus" /\ cur' = cur
    /\ pc # "patchFinalizer" => pc' = "idle" /\ cur' = None
    /\ pc \in PatchSteps /\ queue' = queue \cup {cur.name} /\ WorksAlone
    /\ UNCHANGED <<job, genFile, snmpFile, merged, pods, template, misled, buf>>

LEMMA PatchFailFacts ==
    ASSUME TypeInv, PatchFails
    PROVE  PatchFailed
  <1>1. cur # None /\ cur.name \in Names
    BY CurType, NoneAssumption DEF PatchFails, PatchSteps
  <1> QED
    BY <1>1 DEF PatchFails, PatchFailed, WorksAlone, api, caches, files

\* A restart: the caches are those of the API server, everything is queued.
Restarted ==
    /\ cache' = obj /\ jobCache' = job
    /\ \A n \in Names : obj[n] # None \/ job[n] # None => n \in queue'
    /\ pc' = "idle" /\ cur' = None
    /\ UNCHANGED <<obj, job, nameOf, genFile, snmpFile, merged, pods, template, misled, late>>

LEMMA CrashFacts ==
    ASSUME Crash
    PROVE  Restarted
  BY DEF Crash, Restarted, api, files

-----------------------------------------------------------------------------
(* Pods.                                                                    *)

PodsAlone ==
    UNCHANGED <<obj, nameOf, cache, jobCache, genFile, merged, template, misled, queue, pc, cur,
                buf>>

\* The pod p goes on as q.
Becomes(p, q) ==
    /\ p \in pods /\ pods' = (pods \ {p}) \cup {q}
    /\ q \in Pod /\ q.name = p.name /\ q.uid = p.uid /\ q.gen = p.gen

\* The SNMP file of the pod gets the content c.
Touches(p, c) ==
    /\ snmpFile'[p.uid] = c /\ \A u \in Uids : u # p.uid => snmpFile'[u] = snmpFile[u]
    /\ late' = IF Straggler(p) THEN late \cup {p.uid} ELSE late

Loads(p) ==
    /\ PodsAlone /\ UNCHANGED <<job, snmpFile, late>>
    /\ genFile[p.uid] # None
    /\ \E q \in Pod : Becomes(p, q) /\ q.step = "loaded" /\ q.in = genFile[p.uid]

Truncates(p) ==
    /\ PodsAlone /\ UNCHANGED job
    /\ Touches(p, Empty)
    /\ p.step = "loaded" /\ \E q \in Pod : Becomes(p, q) /\ q.step = "writing" /\ q.in = p.in

\* The pod ends, and its Job with the result r.
Ends(p, r) ==
    /\ PodsAlone /\ p \in pods /\ pods' = pods \ {p}
    /\ OwnJob(p) => /\ job'[p.name] # None /\ job'[p.name].uid = job[p.name].uid
                    /\ job'[p.name].gen = job[p.name].gen /\ job'[p.name].status = r
                    /\ \A m \in Names : m # p.name => job'[m] = job[m]
    /\ ~OwnJob(p) => job' = job

Succeeds(p) == Ends(p, "complete") /\ p.step = "writing" /\ Touches(p, p.in)

Breaks(p) == Ends(p, "failed") /\ \/ UNCHANGED <<snmpFile, late>>
                                  \/ Touches(p, Empty) \/ Touches(p, Garbage)

LEMMA EndFacts ==
    ASSUME TypeInv, NEW p \in pods, NEW r \in {"complete", "failed"}, PodEnds(p, r), PodsAlone
    PROVE  Ends(p, r)
  <1>1. p \in Pod /\ p.name \in Names
    BY DEF TypeInv, TypeOK, Pod
  <1>2. CASE OwnJob(p)
    <2>1. job'[p.name] = [job[p.name] EXCEPT !.status = r]
      BY <1>1, <1>2 DEF PodEnds, TypeInv, TypeOK
    <2>2. job[p.name] \in JobObject
      BY <1>1, <1>2 DEF OwnJob, TypeInv, TypeOK
    <2>3. job'[p.name] \in JobObject
      BY <2>1, <2>2 DEF JobObject
    <2>4. /\ job'[p.name].uid = job[p.name].uid /\ job'[p.name].gen = job[p.name].gen
          /\ job'[p.name].status = r
      BY <2>1, <2>2 DEF JobObject
    <2>5. \A m \in Names : m # p.name => job'[m] = job[m]
      BY <1>2 DEF PodEnds, TypeInv, TypeOK
    <2> QED
      BY <1>2, <2>3, <2>4, <2>5, NoneAssumption DEF PodEnds, Ends
  <1>3. CASE ~OwnJob(p)
    BY <1>3 DEF PodEnds, Ends
  <1> QED
    BY <1>2, <1>3

LEMMA PodFacts ==
    ASSUME TypeInv, NEW p \in pods
    PROVE  /\ PodLoad(p) => Loads(p)
           /\ PodTruncate(p) => Truncates(p)
           /\ PodWrite(p) => Succeeds(p)
           /\ PodNoInput(p) \/ PodFail(p) \/ PodKill(p) => Breaks(p)
  <1>1. p \in Pod /\ p.name \in Names /\ p.uid \in Uids
    BY DEF TypeInv, TypeOK, Pod
  <1>2. ASSUME PodLoad(p) PROVE Loads(p)
    <2> DEFINE q == [p EXCEPT !.step = "loaded", !.in = genFile[p.uid]]
    <2>1. /\ q \in Pod /\ q.name = p.name /\ q.uid = p.uid /\ q.gen = p.gen
          /\ q.step = "loaded" /\ q.in = genFile[p.uid]
      BY <1>1 DEF Pod, TypeInv, TypeOK
    <2>2. pods' = (pods \ {p}) \cup {q}
      BY <1>2 DEF PodLoad
    <2>3. PodsAlone /\ UNCHANGED <<job, snmpFile, late>> /\ genFile[p.uid] # None
      BY <1>2 DEF PodLoad, PodsAlone, api, caches, files, worker
    <2> HIDE DEF q
    <2> QED
      BY <2>1, <2>2, <2>3 DEF Loads, Becomes
  <1>3. ASSUME PodTruncate(p) PROVE Truncates(p)
    <2> DEFINE q == [p EXCEPT !.step = "writing"]
    <2>1. /\ q \in Pod /\ q.name = p.name /\ q.uid = p.uid /\ q.gen = p.gen
          /\ q.step = "writing" /\ q.in = p.in
      BY <1>1 DEF Pod
    <2>2. pods' = (pods \ {p}) \cup {q}
      BY <1>3 DEF PodTruncate
    <2>3. PodsAlone /\ UNCHANGED job /\ p.step = "loaded"
      BY <1>3 DEF PodTruncate, PodsAlone, api, caches, worker
    <2>4. Touches(p, Empty)
      BY <1>1, <1>3 DEF PodTruncate, NoteLate, Touches, TypeInv, TypeOK
    <2> HIDE DEF q
    <2> QED
      BY <2>1, <2>2, <2>3, <2>4 DEF Truncates, Becomes
  <1>4. ASSUME PodWrite(p) PROVE Succeeds(p)
    <2>1. PodsAlone /\ p.step = "writing"
      BY <1>4 DEF PodWrite, PodsAlone, caches, worker
    <2>2. Ends(p, "complete")
      BY <1>4, <2>1, EndFacts DEF PodWrite
    <2>3. Touches(p, p.in)
      BY <1>1, <1>4 DEF PodWrite, NoteLate, Touches, TypeInv, TypeOK
    <2> QED
      BY <2>1, <2>2, <2>3 DEF Succeeds
  <1>5. ASSUME PodNoInput(p) \/ PodFail(p) PROVE Breaks(p)
    <2>1. PodsAlone
      BY <1>5 DEF PodNoInput, PodFail, PodsAlone, caches, files, worker
    <2>2. Ends(p, "failed")
      BY <1>5, <2>1, EndFacts DEF PodNoInput, PodFail
    <2>3. UNCHANGED <<snmpFile, late>> \/ Touches(p, Empty) \/ Touches(p, Garbage)
      BY <1>1, <1>5 DEF PodNoInput, PodFail, NoteLate, Touches, TypeInv, TypeOK, files
    <2> QED
      BY <2>2, <2>3 DEF Breaks
  <1>6. ASSUME PodKill(p) PROVE Breaks(p)
    BY <1>6 DEF PodKill, Breaks, Ends, PodsAlone, api, caches, files, worker
  <1> QED
    BY <1>2, <1>3, <1>4, <1>5, <1>6

\* The garbage collector takes the Job of a device that is gone.
Collected(n) ==
    /\ job[n] # None /\ ~Has(n, job[n].uid)
    /\ job'[n] = None /\ \A m \in Names : m # n => job'[m] = job[m]
    /\ UNCHANGED <<obj, nameOf, cache, jobCache, genFile, snmpFile, merged, pods, template, misled, queue,
                   pc, cur, buf, late>>

LEMMA CollectFacts ==
    ASSUME TypeInv, NEW n \in Names, CollectJob(n)
    PROVE  Collected(n)
  BY DEF CollectJob, Collected, TypeInv, TypeOK, caches, files, worker


\* A step that none of the invariants below notices: an event without a change,
\* a queued name that is no longer cached, a rotation of the Secret, a new copy
\* of the Deployment.
Quiet ==
    /\ UNCHANGED <<obj, job, nameOf, cache, jobCache, genFile, snmpFile, merged, pods, template, misled,
                   pc, cur, buf, late>>
    /\ \A n \in queue : n \in queue' \/ cache[n] = None

\* Every step of the system is one of those described above.
LEMMA StepCases ==
    ASSUME TypeInv, [Next]_vars
    PROVE  \/ \E n \in Names, u \in Uids, w \in Walks : Created(n, u, w)
           \/ \E n \in Names, w \in Walks : Updated(n, w)
           \/ \E n \in Names : Deleted(n) \/ Synced(n) \/ JobSynced(n) \/ Collected(n) \/ Loaded(n)
           \/ \E p \in pods : Loads(p) \/ Truncates(p) \/ Succeeds(p) \/ Breaks(p)
           \/ JobsDeleted \/ GeneratorRemoved \/ SnmpRemoved
           \/ FileWritten \/ JobCreated \/ StaleDropped \/ Evaluated \/ ContentRead
           \/ MergeReady \/ MergeStored \/ Reloaded \/ Failed
           \/ \E n \in Names : Finalized(n) \/ Stored(n)
           \/ PatchFailed \/ Restarted \/ Quiet
  <1> DEFINE Goal ==
           \/ \E n \in Names, u \in Uids, w \in Walks : Created(n, u, w)
           \/ \E n \in Names, w \in Walks : Updated(n, w)
           \/ \E n \in Names : Deleted(n) \/ Synced(n) \/ JobSynced(n) \/ Collected(n) \/ Loaded(n)
           \/ \E p \in pods : Loads(p) \/ Truncates(p) \/ Succeeds(p) \/ Breaks(p)
           \/ JobsDeleted \/ GeneratorRemoved \/ SnmpRemoved
           \/ FileWritten \/ JobCreated \/ StaleDropped \/ Evaluated \/ ContentRead
           \/ MergeReady \/ MergeStored \/ Reloaded \/ Failed
           \/ \E n \in Names : Finalized(n) \/ Stored(n)
           \/ PatchFailed \/ Restarted \/ Quiet
  <1>1. ASSUME NEW n \in Names, NEW u \in Uids, NEW w \in Walks, UserCreate(n, u, w) PROVE Goal
    <2>1. Created(n, u, w)
      BY <1>1, CreateFacts
    <2> QED
      BY <2>1
  <1>2. ASSUME NEW n \in Names, NEW w \in Walks, UserUpdate(n, w) PROVE Goal
    <2>1. Updated(n, w)
      BY <1>2, UpdateFacts
    <2> QED
      BY <2>1
  <1>3. ASSUME NEW n \in Names, UserDelete(n) PROVE Goal
    <2>1. Deleted(n)
      BY <1>3, DeleteFacts
    <2> QED
      BY <2>1
  <1>4. ASSUME RotateAuth PROVE Goal
    <2>1. Quiet
      BY <1>4 DEF RotateAuth, Quiet, caches, files, worker
    <2> QED
      BY <2>1
  <1>5. ASSUME NEW n \in Names, CacheSync(n) \/ JobCacheSync(n) \/ CollectJob(n) PROVE Goal
    <2>1. Synced(n) \/ JobSynced(n) \/ Collected(n)
      BY <1>5, SyncFacts, JobSyncFacts, CollectFacts
    <2> QED
      BY <2>1
  <1>6. ASSUME NEW n \in Names, Resync(n) PROVE Goal
    <2>1. Quiet
      BY <1>6 DEF Resync, Quiet, api, caches, files
    <2> QED
      BY <2>1
  <1>6a. ASSUME TemplateCacheSync PROVE Goal
    <2>1. Quiet
      BY <1>6a DEF TemplateCacheSync, Quiet, api, files, worker
    <2> QED
      BY <2>1
  <1>7. ASSUME NEW n \in Names, Reconcile(n) PROVE Goal
    <2>1. CASE cache[n] # None
      <3>1. Loaded(n)
        BY <1>7, <2>1, LoadFacts
      <3> QED
        BY <3>1
    <2>2. CASE cache[n] = None
      <3>1. Quiet
        BY <1>7, <2>2 DEF Reconcile, Quiet, outside, caches, files
      <3> QED
        BY <3>1
    <2> QED
      BY <2>1, <2>2
  <1>8. ASSUME PodStep \/ \E p \in pods : PodFail(p) \/ PodKill(p) PROVE Goal
    <2>1. PICK p \in pods : \/ PodLoad(p) \/ PodTruncate(p) \/ PodWrite(p)
                            \/ PodNoInput(p) \/ PodFail(p) \/ PodKill(p)
      BY <1>8 DEF PodStep
    <2>2. Loads(p) \/ Truncates(p) \/ Succeeds(p) \/ Breaks(p)
      BY <2>1, PodFacts
    <2> QED
      BY <2>2
  <1>9. ASSUME DeleteOwnedJobs \/ RemoveGeneratorFile \/ RemoveSnmpFile PROVE Goal
    BY <1>9, DeleteJobsFacts, RemoveGeneratorFacts, RemoveSnmpFacts
  <1>10. ASSUME ReconcileGeneratorFile \/ EvaluateStaleJob \/ EvaluateGeneratorJob PROVE Goal
    BY <1>10, WriteFacts, StaleFacts, EvaluateFacts
  <1>11. ASSUME CreateGeneratorJob PROVE Goal
    BY <1>11, CreateJobFacts, FailFacts
  <1>12. ASSUME ReconcileSNMPFileContent PROVE Goal
    BY <1>12, ContentFacts, FailFacts
  <1>13. ASSUME MergeRead PROVE Goal
    BY <1>13, MergeReadFacts, FailFacts
  <1>14. ASSUME MergeWrite \/ ReconcileExporterReload \/ ReconcileFails PROVE Goal
    BY <1>14, MergeWriteFacts, ReloadFacts, FailFacts
  <1>15. ASSUME PatchFinalizer \/ PatchStatus PROVE Goal
    <2>1. PICK n \in Names : n = cur.name
      BY <1>15, CurType DEF PatchFinalizer, PatchStatus
    <2>2. Finalized(n) \/ Stored(n)
      BY <1>15, <2>1, FinalizerFacts, StatusFacts
    <2> QED
      BY <2>2
  <1>16. ASSUME PatchFails \/ Crash PROVE Goal
    BY <1>16, PatchFailFacts, CrashFacts
  <1>17. ASSUME UNCHANGED vars PROVE Goal
    <2>1. Quiet
      BY <1>17 DEF vars, Quiet
    <2> QED
      BY <2>1
  <1> HIDE DEF Goal
  <1>18. ASSUME User PROVE Goal
    BY <1>1, <1>2, <1>3, <1>4, <1>18 DEF User
  <1>19. ASSUME Cluster PROVE Goal
    BY <1>5, <1>6, <1>6a, <1>19 DEF Cluster
  <1>20. ASSUME Step PROVE Goal
    BY <1>9, <1>10, <1>11, <1>12, <1>13, <1>14, <1>15, <1>20 DEF Step
  <1>21. ASSUME Fault PROVE Goal
    BY <1>8, <1>14, <1>16, <1>21 DEF Fault
  <1>22. Goal
    BY <1>7, <1>8, <1>17, <1>18, <1>19, <1>20, <1>21 DEF Next
  <1> QED
    BY <1>22 DEF Goal


-----------------------------------------------------------------------------
(* Jobs.  That no current Job is deleted is decided from a cached Job and a *)
(* cached device.  GenerationInv adds how old they may be: a copy of a      *)
(* device is never newer than a later one, a Job is never of a later        *)
(* generation than any copy, and a cached Job is the stored one or one      *)
(* that has been deleted.                                                   *)

\* What an older copy says of a later one, if both are of one device.
Version(copy, o) ==
    copy.uid = o.uid => /\ copy.gen <= o.gen
                        /\ copy.gen = o.gen => copy.walks = o.walks /\ copy.del = o.del

VersionInv ==
    /\ \A n \in Names : cache[n] # None /\ obj[n] # None => Version(cache[n], obj[n])
    /\ cur # None /\ obj[cur.name] # None => Version(cur, obj[cur.name])
    /\ cur # None /\ cache[cur.name] # None => Version(cur, cache[cur.name])

\* The worker is in the steps for a device that lives.
Working == pc \in DeviceSteps \cup ApplySteps /\ ~cur.del

\* The cache knows that device, with its finalizer.
KnownInv ==
    Working => /\ cache[cur.name] # None
               /\ cache[cur.name].uid = cur.uid /\ cache[cur.name].fin

JobInv ==
    \A n \in Names : job[n] # None =>
        /\ nameOf[job[n].uid] = n
        /\ Has(n, job[n].uid) => obj[n].fin /\ job[n].gen <= obj[n].gen
        /\ cache[n] # None /\ cache[n].uid = job[n].uid
              => cache[n].fin /\ job[n].gen <= cache[n].gen
        /\ cur # None /\ cur.name = n /\ cur.uid = job[n].uid => job[n].gen <= cur.gen

JobCacheInv ==
    \A n \in Names : job[n] # None /\ jobCache[n] # None /\ jobCache[n].uid = job[n].uid =>
        jobCache[n].gen = job[n].gen

GenerationInv == VersionInv /\ KnownInv /\ JobInv /\ JobCacheInv

\* Every step keeps the order of copies and Jobs.
LEMMA GenerationStep == TypeInv /\ OwnerInv /\ GenerationInv /\ [Next]_vars => GenerationInv'
  <1> SUFFICES ASSUME TypeInv, OwnerInv, GenerationInv, [Next]_vars PROVE GenerationInv'
    OBVIOUS
  <1> USE ObjectTypes, NoneAssumption DEF GenerationInv
  <1>1. ASSUME NEW n \in Names, NEW u \in Uids, NEW w \in Walks, Created(n, u, w) PROVE GenerationInv'
    BY <1>1 DEF Created, OthersKept, VersionInv, Version, OwnerInv, NameInv, KnownInv, Working,
                DeviceSteps, ApplySteps, JobInv, Has, JobCacheInv
  <1>2. ASSUME NEW n \in Names, NEW w \in Walks, Updated(n, w) PROVE GenerationInv'
    BY <1>2 DEF Updated, OthersKept, SameIdentity, SameStatus, VersionInv, Version, KnownInv,
                Working, DeviceSteps, ApplySteps, JobInv, Has, JobCacheInv
  <1>3. ASSUME NEW n \in Names, Deleted(n) PROVE GenerationInv'
    BY <1>3 DEF Deleted, OthersKept, SameIdentity, SameStatus, VersionInv, Version, KnownInv,
                Working, DeviceSteps, ApplySteps, JobInv, Has, JobCacheInv
  <1>4. ASSUME NEW n \in Names, Synced(n) PROVE GenerationInv'
    BY <1>4 DEF Synced, VersionInv, Version, KnownInv, Working, OwnerInv, CurInv, DeviceSteps,
                ApplySteps, Has, JobInv, JobCacheInv
  <1>5. ASSUME NEW n \in Names, JobSynced(n) PROVE GenerationInv'
    BY <1>5 DEF JobSynced, VersionInv, KnownInv, Working, DeviceSteps, ApplySteps, JobInv, Has,
                JobCacheInv
  <1>6. ASSUME NEW n \in Names, Collected(n) PROVE GenerationInv'
    BY <1>6 DEF Collected, VersionInv, KnownInv, Working, DeviceSteps, ApplySteps, JobInv, Has,
                JobCacheInv
  <1>7. ASSUME NEW n \in Names, Loaded(n) PROVE GenerationInv'
    BY <1>7 DEF Loaded, SameIdentity, SameVersion, VersionInv, Version, OwnerInv, NameInv, KnownInv,
                Working, DeviceSteps, ApplySteps, JobInv, Has, JobCacheInv
  <1>8. ASSUME NEW p \in pods, Loads(p) PROVE GenerationInv'
    BY <1>8 DEF Loads, PodsAlone, Becomes, VersionInv, KnownInv, Working, DeviceSteps, ApplySteps,
                JobInv, Has, JobCacheInv
  <1>9. ASSUME NEW p \in pods, Truncates(p) PROVE GenerationInv'
    BY <1>9 DEF Truncates, PodsAlone, Becomes, Touches, VersionInv, KnownInv, Working, DeviceSteps,
                ApplySteps, JobInv, Has, JobCacheInv
  <1>10. ASSUME NEW p \in pods, Succeeds(p) PROVE GenerationInv'
    <2> USE <1>10 DEF Succeeds, Ends, PodsAlone
    <2>0. p.name \in Names
      OBVIOUS
    <2>1. VersionInv' /\ KnownInv'
      BY DEF VersionInv, KnownInv, Working, DeviceSteps, ApplySteps
    <2>2. JobInv'
      BY <2>0 DEF JobInv, OwnJob, Has
    <2>3. JobCacheInv'
      BY <2>0 DEF JobCacheInv, OwnJob
    <2> QED
      BY <2>1, <2>2, <2>3
  <1>11. ASSUME NEW p \in pods, Breaks(p) PROVE GenerationInv'
    <2> USE <1>11 DEF Breaks, Ends, PodsAlone
    <2>0. p.name \in Names
      OBVIOUS
    <2>1. VersionInv' /\ KnownInv'
      BY DEF VersionInv, KnownInv, Working, DeviceSteps, ApplySteps
    <2>2. JobInv'
      BY <2>0 DEF JobInv, OwnJob, Has
    <2>3. JobCacheInv'
      BY <2>0 DEF JobCacheInv, OwnJob
    <2> QED
      BY <2>1, <2>2, <2>3
  <1>12. ASSUME JobsDeleted PROVE GenerationInv'
    BY <1>12 DEF JobsDeleted, JobDropped, WorksAlone, VersionInv, KnownInv, Working, DeviceSteps,
        ApplySteps, JobInv, Has, JobCacheInv
  <1>13. ASSUME GeneratorRemoved PROVE GenerationInv'
    BY <1>13 DEF GeneratorRemoved, WorksAlone, VersionInv, KnownInv, Working, DeviceSteps,
        ApplySteps, JobInv, Has, JobCacheInv
  <1>14. ASSUME SnmpRemoved PROVE GenerationInv'
    BY <1>14 DEF SnmpRemoved, WorksAlone, VersionInv, KnownInv, Working, OwnerInv, CleanupInv,
        CleanupSteps, JobInv, Has, JobCacheInv
  <1>15. ASSUME FileWritten PROVE GenerationInv'
    BY <1>15 DEF FileWritten, Holds, WorksAlone, SameIdentity, SameVersion, VersionInv, Version,
        KnownInv, Working, DeviceSteps, ApplySteps, JobInv, Has, JobCacheInv
  <1>16. ASSUME JobCreated PROVE GenerationInv'
    <2> USE <1>16 DEF JobCreated, Holds, WorksAlone, SameIdentity, SameVersion
    <2>1. VersionInv' /\ KnownInv' /\ JobCacheInv'
      BY DEF VersionInv, Version, KnownInv, Working, DeviceSteps, ApplySteps, JobCacheInv, OwnedJob
    <2>2. JobInv'
      BY DEF JobInv, VersionInv, Version, KnownInv, Working, OwnerInv, NameInv, CurInv, CleanupInv,
             DeviceSteps, Has
    <2> QED
      BY <2>1, <2>2
  <1>17. ASSUME StaleDropped PROVE GenerationInv'
    BY <1>17 DEF StaleDropped, JobDropped, WorksAlone, VersionInv, KnownInv, Working, DeviceSteps,
        ApplySteps, JobInv, Has, JobCacheInv
  <1>18. ASSUME Evaluated PROVE GenerationInv'
    BY <1>18 DEF Evaluated, Holds, WorksAlone, SameIdentity, SameVersion, VersionInv, Version,
        KnownInv, Working, DeviceSteps, ApplySteps, JobInv, Has, JobCacheInv
  <1>19. ASSUME ContentRead PROVE GenerationInv'
    BY <1>19 DEF ContentRead, Holds, WorksAlone, SameIdentity, SameVersion, VersionInv, Version,
        KnownInv, Working, DeviceSteps, ApplySteps, JobInv, Has, JobCacheInv
  <1>20. ASSUME MergeReady PROVE GenerationInv'
    BY <1>20 DEF MergeReady, WorksAlone, VersionInv, KnownInv, Working, DeviceSteps, ApplySteps,
        JobInv, Has, JobCacheInv
  <1>21. ASSUME MergeStored PROVE GenerationInv'
    BY <1>21 DEF MergeStored, Holds, WorksAlone, SameIdentity, SameVersion, VersionInv, Version,
        KnownInv, Working, DeviceSteps, ApplySteps, JobInv, Has, JobCacheInv
  <1>22. ASSUME Reloaded PROVE GenerationInv'
    BY <1>22 DEF Reloaded, Holds, WorksAlone, SameIdentity, SameVersion, VersionInv, Version,
        KnownInv, Working, DeviceSteps, ApplySteps, JobInv, Has, JobCacheInv
  <1>23. ASSUME Failed PROVE GenerationInv'
    BY <1>23 DEF Failed, Holds, WorksAlone, SameIdentity, SameVersion, VersionInv, Version,
        KnownInv, Working, DeviceSteps, ApplySteps, JobInv, Has, JobCacheInv
  <1>24. ASSUME NEW n \in Names, Finalized(n) PROVE GenerationInv'
    BY <1>24 DEF Finalized, OthersKept, SameIdentity, SameVersion, SameStatus, VersionInv, Version,
        KnownInv, Working, DeviceSteps, ApplySteps, JobInv, OwnerInv, CurInv, CleanupInv, Has,
        JobCacheInv
  <1>25. ASSUME NEW n \in Names, Stored(n) PROVE GenerationInv'
    BY <1>25 DEF Stored, OthersKept, SameIdentity, SameVersion, SameStatus, VersionInv, Version,
        KnownInv, Working, DeviceSteps, ApplySteps, JobInv, Has, JobCacheInv
  <1>26. ASSUME PatchFailed PROVE GenerationInv'
    BY <1>26 DEF PatchFailed, WorksAlone, VersionInv, KnownInv, Working, DeviceSteps, ApplySteps,
        JobInv, Has, JobCacheInv
  <1>27. ASSUME Restarted PROVE GenerationInv'
    BY <1>27 DEF Restarted, VersionInv, Version, KnownInv, Working, DeviceSteps, ApplySteps, JobInv,
        Has, JobCacheInv
  <1>28. ASSUME Quiet PROVE GenerationInv'
    BY <1>28 DEF Quiet, VersionInv, KnownInv, Working, DeviceSteps, ApplySteps, JobInv, Has,
        JobCacheInv
  <1> QED
    BY StepCases, <1>1, <1>2, <1>3, <1>4, <1>5, <1>6, <1>7, <1>8, <1>9, <1>10, <1>11, <1>12, <1>13,
       <1>14, <1>15, <1>16, <1>17, <1>18, <1>19, <1>20, <1>21, <1>22, <1>23, <1>24, <1>25, <1>26,
       <1>27, <1>28

LEMMA InvInit == Init => TypeInv /\ OwnerInv /\ ReloadInv
  BY TypeInit, OwnerInit DEF Init, ReloadInv

LEMMA GenerationInit == Init => GenerationInv
  BY DEF Init, GenerationInv, VersionInv, KnownInv, JobInv, JobCacheInv, Working, DeviceSteps,
         ApplySteps

\* A step that deletes the Job of a live device deletes one that is out of date.
LEMMA JobKept ==
    ASSUME TypeInv, OwnerInv, GenerationInv, [Next]_vars,
           NEW n \in Names, job[n] # None, job'[n] = None, Has(n, job[n].uid), ~obj[n].del
    PROVE  job[n].gen # obj[n].gen
  <1> USE ObjectTypes
  <1>1. ASSUME JobsDeleted PROVE FALSE
    <2>1. n = cur.name /\ cur.del
      BY <1>1 DEF JobsDeleted, JobDropped, OwnerInv, CleanupInv, CleanupSteps
    <2>2. obj[n].fin
      BY DEF GenerationInv, JobInv
    <2> QED
      BY <1>1, <2>1, <2>2 DEF JobsDeleted, OwnerInv, CurInv, Has
  <1>2. ASSUME StaleDropped PROVE job[n].gen # obj[n].gen
    <2>1. n = cur.name /\ ~cur.del
      BY <1>2 DEF StaleDropped, JobDropped, OwnerInv, CleanupInv, DeviceSteps
    <2>2. Has(n, cur.uid) /\ job[n].uid = cur.uid
      BY <1>2, <2>1 DEF StaleDropped, OwnerInv, CurInv, DeviceSteps, Has
    <2>3. jobCache[n].gen = job[n].gen /\ jobCache[n].gen # cur.gen
      BY <1>2, <2>1, <2>2 DEF StaleDropped, OwnedJob, StaleJob, GenerationInv, JobCacheInv
    <2>4. job[n].gen <= cur.gen /\ cur.gen <= obj[n].gen
      BY <1>2, <2>1, <2>2 DEF StaleDropped, GenerationInv, JobInv, VersionInv, Version, Has
    <2> QED
      BY <1>2, <2>1, <2>3, <2>4 DEF StaleDropped
  <1>3. ASSUME NEW m \in Names, Collected(m) PROVE FALSE
    BY <1>3 DEF Collected
  <1>4. ASSUME NEW p \in pods, Succeeds(p) \/ Breaks(p) PROVE FALSE
    <2>1. p.name \in Names
      OBVIOUS
    <2> QED
      BY <1>4, <2>1 DEF Succeeds, Breaks, Ends, OwnJob
  <1>5. ASSUME JobCreated PROVE FALSE
    BY <1>5 DEF JobCreated
  <1>6. CASE job' = job
    BY <1>6
  <1>7. ASSUME NEW m \in Names,
                Deleted(m) \/ Synced(m) \/ JobSynced(m) \/ Loaded(m) \/ Finalized(m) \/ Stored(m)
        PROVE  job' = job
    BY <1>7 DEF Deleted, Synced, JobSynced, Loaded, Finalized, Stored
  <1>8. ASSUME NEW m \in Names, NEW u \in Uids, NEW w \in Walks, Created(m, u, w) PROVE job' = job
    BY <1>8 DEF Created
  <1>9. ASSUME NEW p \in pods, Loads(p) \/ Truncates(p) PROVE job' = job
    BY <1>9 DEF Loads, Truncates
  <1>10. ASSUME \/ GeneratorRemoved \/ SnmpRemoved \/ FileWritten \/ Evaluated \/ ContentRead
                \/ MergeReady \/ MergeStored \/ Reloaded \/ Failed \/ PatchFailed \/ Restarted \/ Quiet
         PROVE  job' = job
    BY <1>10 DEF GeneratorRemoved, SnmpRemoved, FileWritten, Evaluated, ContentRead, MergeReady,
         MergeStored, Reloaded, Failed, PatchFailed, Restarted, Quiet
  <1>11. ASSUME NEW m \in Names, NEW w \in Walks, Updated(m, w) PROVE job' = job
    BY <1>11 DEF Updated
  <1> QED
    BY StepCases, <1>1, <1>2, <1>3, <1>4, <1>5, <1>6, <1>7, <1>8, <1>9, <1>10, <1>11

\* The controller deletes no generator Job of the current generation of a live
\* device, however stale the caches it decides from.
THEOREM CurrentJobSafe == Spec => CurrentJobKept
  <1>1. Init => TypeInv /\ OwnerInv /\ GenerationInv
    BY InvInit, GenerationInit
  <1>2. TypeInv /\ OwnerInv /\ GenerationInv /\ [Next]_vars
           => [\A n \in Names :
                 job[n] # None /\ job'[n] = None /\ Has(n, job[n].uid) /\ ~obj[n].del
                    => job[n].gen # obj[n].gen]_vars
    BY JobKept
  <1> QED
    BY <1>1, <1>2, TypeStep, OwnerStep, GenerationStep, PTL DEF Spec, CurrentJobKept


-----------------------------------------------------------------------------
(* Ready.  A device that is Ready for its current spec was reported so by a *)
(* run on that spec; no later run can be on an older one, since the cache   *)
(* the run read from does not go back.                                      *)

\* The run is about to report Ready.
Reports == pc = "patchStatus" /\ cur.ready = "True"

ReadyInv ==
    \A n \in Names : ReadyNow(n) =>
        /\ ~obj[n].del /\ obj[n].fin
        /\ genFile[obj[n].uid] # None /\ genFile[obj[n].uid].walks = obj[n].walks
        /\ cache[n] # None /\ cache[n].uid = obj[n].uid /\ cache[n].gen = obj[n].gen
        /\ cur # None /\ cur.name = n => cur.uid = obj[n].uid /\ cur.gen = obj[n].gen

\* A report of an earlier device of the name is never one of Ready.
ObservedInv ==
    \A n \in Names : obj[n] # None /\ obj[n].ready = "True" => obj[n].observed <= obj[n].gen

ReportInv ==
    /\ cur # None /\ cur.ready = "True" => pc = "patchStatus" /\ ~cur.del
    /\ Reports => /\ Has(cur.name, cur.uid) /\ obj[cur.name].fin
                  /\ cache[cur.name] # None /\ cache[cur.name].uid = cur.uid
    /\ (Working /\ pc # "generatorFile") \/ Reports
          => genFile[cur.uid] # None /\ genFile[cur.uid].walks = cur.walks

ClaimInv == ReadyInv /\ ObservedInv /\ ReportInv

\* Every step keeps what a device says and what a run is about to say true.
LEMMA ClaimStep == TypeInv /\ OwnerInv /\ GenerationInv /\ ClaimInv /\ [Next]_vars => ClaimInv'
  <1> SUFFICES ASSUME TypeInv, OwnerInv, GenerationInv, ClaimInv, [Next]_vars PROVE ClaimInv'
    OBVIOUS
  <1> USE ObjectTypes, NoneAssumption DEF ClaimInv
  <1>1. ASSUME NEW n \in Names, NEW u \in Uids, NEW w \in Walks, Created(n, u, w) PROVE ClaimInv'
    BY <1>1 DEF Created, OthersKept, ReadyInv, ReadyNow, ObservedInv, ReportInv, Reports, Has,
                Working, DeviceSteps, ApplySteps
  <1>2. ASSUME NEW n \in Names, NEW w \in Walks, Updated(n, w) PROVE ClaimInv'
    BY <1>2 DEF Updated, OthersKept, SameIdentity, SameStatus, ReadyInv, ObservedInv, ReadyNow,
                ReportInv, Reports, Has, Working, DeviceSteps, ApplySteps
  <1>3. ASSUME NEW n \in Names, Deleted(n) PROVE ClaimInv'
    BY <1>3 DEF Deleted, OthersKept, SameIdentity, SameStatus, ReadyInv, ObservedInv, ReadyNow,
                ReportInv, Reports, Has, Working, DeviceSteps, ApplySteps
  <1>4. ASSUME NEW n \in Names, Synced(n) PROVE ClaimInv'
    BY <1>4 DEF Synced, ReadyInv, ReadyNow, ObservedInv, ReportInv, Reports, Has, Working,
                DeviceSteps, ApplySteps
  <1>5. ASSUME NEW n \in Names, JobSynced(n) PROVE ClaimInv'
    BY <1>5 DEF JobSynced, ReadyInv, ReadyNow, ObservedInv, ReportInv, Reports, Has, Working,
                DeviceSteps, ApplySteps
  <1>6. ASSUME NEW n \in Names, Collected(n) PROVE ClaimInv'
    BY <1>6 DEF Collected, ReadyInv, ReadyNow, ObservedInv, ReportInv, Reports, Has, Working,
                DeviceSteps, ApplySteps
  <1>7. ASSUME NEW n \in Names, Loaded(n) PROVE ClaimInv'
    BY <1>7 DEF Loaded, SameIdentity, SameVersion, ReadyInv, ReadyNow, OwnerInv, NameInv,
                ObservedInv, ReportInv, Reports, Has, Working, DeviceSteps, ApplySteps
  <1>8. ASSUME NEW p \in pods, Loads(p) PROVE ClaimInv'
    BY <1>8 DEF Loads, PodsAlone, Becomes, ReadyInv, ReadyNow, ObservedInv, ReportInv, Reports, Has,
                Working, DeviceSteps, ApplySteps
  <1>9. ASSUME NEW p \in pods, Truncates(p) PROVE ClaimInv'
    BY <1>9 DEF Truncates, PodsAlone, Becomes, Touches, ReadyInv, ReadyNow, ObservedInv, ReportInv,
                Reports, Has, Working, DeviceSteps, ApplySteps
  <1>10. ASSUME NEW p \in pods, Succeeds(p) PROVE ClaimInv'
    BY <1>10 DEF Succeeds, Ends, PodsAlone, Touches, ReadyInv, ReadyNow, ObservedInv, ReportInv,
        Reports, Has, Working, DeviceSteps, ApplySteps
  <1>11. ASSUME NEW p \in pods, Breaks(p) PROVE ClaimInv'
    BY <1>11 DEF Breaks, Ends, PodsAlone, Touches, ReadyInv, ReadyNow, ObservedInv, ReportInv,
        Reports, Has, Working, DeviceSteps, ApplySteps
  <1>12. ASSUME JobsDeleted PROVE ClaimInv'
    BY <1>12 DEF JobsDeleted, JobDropped, WorksAlone, ReadyInv, ReadyNow, ObservedInv, ReportInv,
        Reports, Has, Working, DeviceSteps, ApplySteps
  <1>13. ASSUME GeneratorRemoved PROVE ClaimInv'
    BY <1>13 DEF GeneratorRemoved, WorksAlone, ReadyInv, ReadyNow, OwnerInv, NameInv, CurInv,
        CleanupInv, CleanupSteps, Has, ObservedInv, ReportInv, Reports, Working, DeviceSteps,
        ApplySteps
  <1>14. ASSUME SnmpRemoved PROVE ClaimInv'
    BY <1>14 DEF SnmpRemoved, WorksAlone, ReadyInv, ReadyNow, ObservedInv, ReportInv, OwnerInv,
        CleanupInv, Working, Reports, CleanupSteps
  <1>15. ASSUME FileWritten PROVE ClaimInv'
    BY <1>15 DEF FileWritten, Holds, WorksAlone, SameIdentity, SameVersion, ReadyInv, ReadyNow,
        OwnerInv, NameInv, GenerationInv, VersionInv, Version, ObservedInv, ReportInv, Reports, Has
  <1>16. ASSUME JobCreated PROVE ClaimInv'
    BY <1>16 DEF JobCreated, Holds, WorksAlone, SameIdentity, SameVersion, ReadyInv, ReadyNow,
        ObservedInv, ReportInv, Reports, Has, Working, DeviceSteps, ApplySteps
  <1>17. ASSUME StaleDropped PROVE ClaimInv'
    BY <1>17 DEF StaleDropped, JobDropped, WorksAlone, ReadyInv, ReadyNow, ObservedInv, ReportInv,
        Reports, Has, Working, DeviceSteps, ApplySteps
  <1>18. ASSUME Evaluated PROVE ClaimInv'
    BY <1>18 DEF Evaluated, Holds, WorksAlone, SameIdentity, SameVersion, ReadyInv, ReadyNow,
        ObservedInv, ReportInv, Reports, Has, Working, DeviceSteps, ApplySteps
  <1>19. ASSUME ContentRead PROVE ClaimInv'
    BY <1>19 DEF ContentRead, Holds, WorksAlone, SameIdentity, SameVersion, ReadyInv, ReadyNow,
        ObservedInv, ReportInv, Reports, Has, Working, DeviceSteps, ApplySteps
  <1>20. ASSUME MergeReady PROVE ClaimInv'
    BY <1>20 DEF MergeReady, WorksAlone, ReadyInv, ReadyNow, ObservedInv, ReportInv, Reports, Has,
        Working, DeviceSteps, ApplySteps
  <1>21. ASSUME MergeStored PROVE ClaimInv'
    BY <1>21 DEF MergeStored, Holds, WorksAlone, SameIdentity, SameVersion, ReadyInv, ReadyNow,
        ObservedInv, ReportInv, Reports, Has, Working, DeviceSteps, ApplySteps
  <1>22. ASSUME Reloaded PROVE ClaimInv'
    <2> USE <1>22 DEF Reloaded, Holds, WorksAlone, SameIdentity, SameVersion
    <2>1. ReadyInv' /\ ObservedInv'
      BY DEF ReadyInv, ReadyNow, ObservedInv
    <2>2. ReportInv'
      BY DEF ReportInv, OwnerInv, CurInv, GenerationInv, KnownInv, Working, Reports, ApplySteps, Has
    <2> QED
      BY <2>1, <2>2
  <1>23. ASSUME Failed PROVE ClaimInv'
    BY <1>23 DEF Failed, Holds, WorksAlone, SameIdentity, SameVersion, ReadyInv, ReadyNow,
        ObservedInv, ReportInv, Reports, Has, Working, DeviceSteps, ApplySteps
  <1>24. ASSUME NEW n \in Names, Finalized(n) PROVE ClaimInv'
    BY <1>24 DEF Finalized, OthersKept, SameIdentity, SameVersion, SameStatus, ReadyInv, ReadyNow,
        OwnerInv, CleanupInv, ObservedInv, ReportInv, Reports, Has, Working, DeviceSteps, ApplySteps
  <1>25. ASSUME NEW n \in Names, Stored(n) PROVE ClaimInv'
    <2> USE <1>25 DEF Stored, OthersKept, SameIdentity, SameVersion, SameStatus
    <2>1. ASSUME NEW m \in Names, m # n, ReadyNow(m)'
          PROVE  ReadyNow(m) /\ obj'[m] = obj[m]
      BY <2>1 DEF ReadyNow
    <2>2. ASSUME ReadyNow(n)'
          PROVE  /\ Reports /\ Has(n, cur.uid) /\ obj[n].gen = cur.gen
                 /\ obj'[n].uid = cur.uid /\ obj'[n].gen = cur.gen /\ obj'[n].del = obj[n].del
                 /\ obj'[n].walks = obj[n].walks /\ obj'[n].fin = obj[n].fin
      BY <2>2 DEF ReadyNow, ReportInv, Reports, Has
    <2>3. ASSUME ReadyNow(n)'
          PROVE  /\ ~obj[n].del /\ obj[n].fin /\ obj[n].walks = cur.walks
                 /\ genFile[cur.uid] # None /\ genFile[cur.uid].walks = cur.walks
                 /\ cache[n] # None /\ cache[n].uid = cur.uid /\ cache[n].gen = cur.gen
      BY <2>2, <2>3 DEF ReportInv, Reports, Has, GenerationInv, VersionInv, Version
    <2>4. ReadyInv'
      BY <2>1, <2>2, <2>3 DEF ReadyInv
    <2>5. ObservedInv'
      BY DEF ObservedInv, ReportInv, GenerationInv, VersionInv, Version, Reports, Has
    <2>6. ReportInv'
      BY DEF ReportInv, Reports, Has, Working, DeviceSteps, ApplySteps
    <2> QED
      BY <2>4, <2>5, <2>6
  <1>26. ASSUME PatchFailed PROVE ClaimInv'
    BY <1>26 DEF PatchFailed, WorksAlone, ReadyInv, ReadyNow, ObservedInv, ReportInv, Reports, Has,
        Working, DeviceSteps, ApplySteps
  <1>27. ASSUME Restarted PROVE ClaimInv'
    BY <1>27 DEF Restarted, ReadyInv, ReadyNow, ObservedInv, ReportInv, Reports, Has, Working,
        DeviceSteps, ApplySteps
  <1>28. ASSUME Quiet PROVE ClaimInv'
    BY <1>28 DEF Quiet, ReadyInv, ReadyNow, ObservedInv, ReportInv, Reports, Has, Working,
        DeviceSteps, ApplySteps
  <1> QED
    BY StepCases, <1>1, <1>2, <1>3, <1>4, <1>5, <1>6, <1>7, <1>8, <1>9, <1>10, <1>11, <1>12, <1>13,
       <1>14, <1>15, <1>16, <1>17, <1>18, <1>19, <1>20, <1>21, <1>22, <1>23, <1>24, <1>25, <1>26,
       <1>27, <1>28

LEMMA ClaimInit == Init => ClaimInv
  BY DEF Init, ClaimInv, ReadyInv, ObservedInv, ReportInv, ReadyNow, Working, Reports, DeviceSteps,
         ApplySteps

LEMMA MDInvariant == Spec => [](TypeInv /\ OwnerInv /\ GenerationInv /\ ClaimInv)
  <1>1. Init => TypeInv /\ OwnerInv /\ GenerationInv /\ ClaimInv
    BY InvInit, GenerationInit, ClaimInit
  <1> QED
    BY <1>1, TypeStep, OwnerStep, GenerationStep, ClaimStep, PTL DEF Spec

-----------------------------------------------------------------------------
(* Refinement.  Every step of the controller is a step of the contract that *)
(* ManagedResource states for the generator file of each UID, or leaves it  *)
(* unchanged.                                                               *)

WantOf(o) == IF o # None THEN o.walks ELSE None

ReadyOf(o) == o # None /\ o.ready = "True" /\ o.observed = o.gen

\* What the mapping says of one UID.
LEMMA BarFacts ==
    ASSUME NEW u \in Uids
    PROVE  /\ OwnerBar[u] = Life(Device(u)) /\ WantBar[u] = WantOf(Device(u))
           /\ ShownBar[u] = IF genFile[u] # None THEN genFile[u].walks ELSE None
           /\ u \in ReadyBar <=> ReadyOf(Device(u))
  <1>1. u \in ReadyBar <=> ReadyOf(Device(u))
    BY DEF ReadyBar, ReadyOf, Device, ReadyNow
  <1> QED
    BY <1>1 DEF OwnerBar, WantBar, WantOf, ShownBar

\* A step that touches the device of one UID, and no generator file, changes the
\* mapped state of that UID only.
OnlyDevice(u) == \A v \in Uids : v # u => Device(v)' = Device(v)

LEMMA BarsFollow ==
    ASSUME NEW u \in Uids, OnlyDevice(u), UNCHANGED genFile
    PROVE  /\ OwnerBar' = [OwnerBar EXCEPT ![u] = Life(Device(u)')]
           /\ WantBar' = [WantBar EXCEPT ![u] = WantOf(Device(u)')]
           /\ Life(Device(u)') = Life(Device(u)) => OwnerBar' = OwnerBar
           /\ WantOf(Device(u)') = WantOf(Device(u)) => WantBar' = WantBar
           /\ (ReadyOf(Device(u)') <=> ReadyOf(Device(u))) => ReadyBar' = ReadyBar
           /\ ~ReadyOf(Device(u)') => ReadyBar' = ReadyBar \ {u}
           /\ ReadyOf(Device(u)') => ReadyBar' = ReadyBar \cup {u}
           /\ ShownBar' = ShownBar
  <1>1. OwnerBar' = [OwnerBar EXCEPT ![u] = Life(Device(u)')]
    BY DEF OwnerBar, OnlyDevice
  <1>2. WantBar' = [WantBar EXCEPT ![u] = WantOf(Device(u)')]
    BY DEF WantBar, WantOf, OnlyDevice
  <1>3. Life(Device(u)') = Life(Device(u)) => OwnerBar' = OwnerBar
    BY <1>1 DEF OwnerBar
  <1>4. WantOf(Device(u)') = WantOf(Device(u)) => WantBar' = WantBar
    BY <1>2 DEF WantBar, WantOf
  <1>5. \A v \in Uids : v \in ReadyBar' <=> ReadyOf(Device(v)')
    BY DEF ReadyBar, ReadyOf, Device, ReadyNow
  <1>6. ReadyBar \subseteq Uids /\ ReadyBar' \subseteq Uids
    BY DEF ReadyBar
  <1>7. \A v \in Uids : v # u => (v \in ReadyBar' <=> v \in ReadyBar)
    BY <1>5, BarFacts DEF OnlyDevice
  <1>8. /\ (ReadyOf(Device(u)') <=> ReadyOf(Device(u))) => ReadyBar' = ReadyBar
        /\ ~ReadyOf(Device(u)') => ReadyBar' = ReadyBar \ {u}
        /\ ReadyOf(Device(u)') => ReadyBar' = ReadyBar \cup {u}
    BY <1>5, <1>6, <1>7, BarFacts
  <1>9. ShownBar' = ShownBar
    BY DEF ShownBar
  <1> QED
    BY <1>1, <1>2, <1>3, <1>4, <1>8, <1>9

\* A step that changes the device stored under one name, or removes it.
LEMMA DeviceStep ==
    ASSUME TypeInv, OwnerInv, NEW n \in Names, NEW u \in Uids, obj[n] # None, u = obj[n].uid,
           OthersKept(n), UNCHANGED nameOf, obj'[n] = None \/ obj'[n].uid = u
    PROVE  Device(u) = obj[n] /\ Device(u)' = obj'[n] /\ OnlyDevice(u)
  <1>1. nameOf[u] = n
    BY DEF OwnerInv, NameInv
  <1>2. n # None
    BY NoneAssumption
  <1>3. Device(u) = obj[n] /\ Device(u)' = obj'[n]
    BY <1>1, <1>2 DEF Device, Has
  <1>4. ASSUME NEW v \in Uids, v # u PROVE Device(v)' = Device(v)
    <2>1. CASE nameOf[v] = n
      BY <1>4, <2>1 DEF Device, Has
    <2>2. CASE nameOf[v] # n
      BY <1>4, <2>2 DEF Device, Has, OthersKept, TypeInv, TypeOK
    <2> QED
      BY <2>1, <2>2
  <1> QED
    BY <1>3, <1>4 DEF OnlyDevice

LEMMA MappedInit == Init => Contract!Init
  <1> SUFFICES ASSUME Init PROVE Contract!Init
    OBVIOUS
  <1>1. \A u \in Uids : Device(u) = None
    BY DEF Init, Device
  <1> QED
    BY <1>1 DEF Init, Contract!Init, OwnerBar, WantBar, ShownBar, ReadyBar, Life


\* A step that leaves devices and generator files alone.
LEMMA MappedStutter ==
    ASSUME UNCHANGED <<obj, nameOf, genFile>>
    PROVE  UNCHANGED Contract!vars
  <1>1. UNCHANGED OwnerBar
    BY DEF OwnerBar, Device, Has
  <1>2. UNCHANGED WantBar
    BY DEF WantBar, Device, Has
  <1>3. UNCHANGED ShownBar
    BY DEF ShownBar
  <1>4. UNCHANGED ReadyBar
    BY DEF ReadyBar, Device, Has, ReadyNow
  <1> QED
    BY <1>1, <1>2, <1>3, <1>4 DEF Contract!vars

\* The UID is new, so the contract's resource was absent, also where the name
\* is an old one.
LEMMA CreateMaps ==
    ASSUME TypeInv, OwnerInv, NEW n \in Names, NEW u \in Uids, NEW w \in Walks, Created(n, u, w)
    PROVE  Contract!Create(u)
  <1>1. n # None
    BY NoneAssumption
  <1>2. Device(u) = None /\ Device(u)' = obj'[n]
    BY <1>1 DEF Created, Device, Has
  <1>3. ASSUME NEW v \in Uids, v # u PROVE Device(v)' = Device(v)
    <2>1. nameOf'[v] = nameOf[v]
      BY <1>3 DEF Created
    <2>2. CASE nameOf[v] = n
      BY <1>3, <2>1, <2>2 DEF Device, Has, Created
    <2>3. CASE nameOf[v] # n
      BY <2>1, <2>3 DEF Device, Has, Created, OthersKept, TypeInv, TypeOK
    <2> QED
      BY <2>2, <2>3
  <1>4. OnlyDevice(u)
    BY <1>3 DEF OnlyDevice
  <1>5. /\ Life(Device(u)) = "absent" /\ Life(Device(u)') = "unguarded"
        /\ WantOf(Device(u)') = w /\ ~ReadyOf(Device(u)) /\ ~ReadyOf(Device(u)')
    BY <1>2 DEF Created, Life, WantOf, ReadyOf
  <1>6. /\ OwnerBar' = [OwnerBar EXCEPT ![u] = "unguarded"]
        /\ WantBar' = [WantBar EXCEPT ![u] = w]
        /\ ReadyBar' = ReadyBar /\ ShownBar' = ShownBar
    BY <1>4, <1>5, BarsFollow DEF Created
  <1> QED
    BY <1>5, <1>6, BarFacts DEF Contract!Create

\* A new generation is not the one that was observed.
LEMMA UpdateMaps ==
    ASSUME TypeInv, OwnerInv, ClaimInv, NEW n \in Names, NEW w \in Walks, Updated(n, w)
    PROVE  \E u \in Uids : Contract!Edit(u)
  <1> USE ObjectTypes
  <1>1. PICK u \in Uids : u = obj[n].uid
    BY DEF Updated
  <1>2. Device(u) = obj[n] /\ Device(u)' = obj'[n] /\ OnlyDevice(u)
    BY <1>1, DeviceStep DEF Updated, SameIdentity
  <1>3. /\ Life(obj'[n]) = Life(obj[n]) /\ Life(obj[n]) \in {"guarded", "unguarded"}
        /\ WantOf(obj'[n]) = w
    BY DEF Updated, Life, WantOf
  <1>4. ~ReadyOf(obj'[n])
    BY DEF Updated, ReadyOf, SameStatus, ClaimInv, ObservedInv
  <1>5. /\ OwnerBar' = OwnerBar /\ WantBar' = [WantBar EXCEPT ![u] = w]
        /\ ReadyBar' = ReadyBar \ {u} /\ ShownBar' = ShownBar
    BY <1>2, <1>3, <1>4, BarsFollow DEF Updated
  <1>6. Contract!Edit(u)
    BY <1>2, <1>3, <1>5, BarFacts DEF Contract!Edit
  <1> QED
    BY <1>6

LEMMA DeleteMaps ==
    ASSUME TypeInv, OwnerInv, ClaimInv, NEW n \in Names, Deleted(n)
    PROVE  \E u \in Uids : Contract!Delete(u)
  <1> USE ObjectTypes
  <1>1. PICK u \in Uids : u = obj[n].uid
    BY DEF Deleted
  <1>2. Device(u) = obj[n] /\ Device(u)' = obj'[n] /\ OnlyDevice(u)
    BY <1>1, DeviceStep DEF Deleted, SameIdentity
  <1>3. ~ReadyOf(obj'[n])
    BY DEF Deleted, ReadyOf, SameStatus, ClaimInv, ObservedInv
  <1>4. /\ OwnerBar' = [OwnerBar EXCEPT ![u] = Life(obj'[n])]
        /\ WantBar' = [WantBar EXCEPT ![u] = WantOf(obj'[n])]
        /\ WantOf(obj'[n]) = WantOf(obj[n]) => WantBar' = WantBar
        /\ ReadyBar' = ReadyBar \ {u} /\ ShownBar' = ShownBar
    BY <1>2, <1>3, BarsFollow DEF Deleted
  <1>5. CASE obj[n].fin
    <2>1. Life(obj[n]) = "guarded" /\ Life(obj'[n]) = "dying" /\ WantOf(obj'[n]) = WantOf(obj[n])
      BY <1>5 DEF Deleted, Life, WantOf
    <2> QED
      BY <1>2, <1>4, <2>1, BarFacts DEF Contract!Delete
  <1>6. CASE ~obj[n].fin
    <2>1. Life(obj[n]) = "unguarded" /\ Life(obj'[n]) = "absent" /\ WantOf(obj'[n]) = None
      BY <1>6 DEF Deleted, Life, WantOf
    <2> QED
      BY <1>2, <1>4, <2>1, BarFacts DEF Contract!Delete
  <1> QED
    BY <1>5, <1>6

\* A step that touches the generator file of one UID.
LEMMA ShowOne ==
    ASSUME NEW u \in Uids, UNCHANGED <<obj, nameOf>>, \A v \in Uids : v # u => genFile'[v] = genFile[v],
           Contract!MayShow(u, ShownBar'[u])
    PROVE  Contract!Show
  <1>1. UNCHANGED OwnerBar
    BY DEF OwnerBar, Device, Has
  <1>2. UNCHANGED WantBar
    BY DEF WantBar, Device, Has
  <1>3. UNCHANGED ReadyBar
    BY DEF ReadyBar, Device, Has, ReadyNow
  <1>4. \A v \in Uids : v # u => ShownBar'[v] = ShownBar[v]
    BY DEF ShownBar
  <1>5. ShownBar' = [v \in Uids |-> ShownBar'[v]]
    BY DEF ShownBar
  <1> QED
    BY <1>1, <1>2, <1>3, <1>4, <1>5 DEF Contract!Show

LEMMA WriteMaps ==
    ASSUME TypeInv, OwnerInv, GenerationInv, ClaimInv, FileWritten
    PROVE  Contract!Show
  <1> USE ObjectTypes
  <1>1. PICK u \in Uids, n \in Names : u = cur.uid /\ n = cur.name
    BY DEF FileWritten, Holds
  <1>2. Has(n, u) /\ obj[n].fin /\ nameOf[u] = n /\ ~cur.del
    BY <1>1 DEF FileWritten, OwnerInv, NameInv, CleanupInv, CurInv, DeviceSteps
  <1>3. Device(u) = obj[n]
    BY <1>2, NoneAssumption DEF Device
  <1>4. ShownBar'[u] = cur.walks /\ cur.walks \in Walks
    BY <1>1 DEF FileWritten, ShownBar
  <1>5. ReadyOf(obj[n]) => cur.walks = obj[n].walks
    BY <1>1, <1>2 DEF FileWritten, Holds, ReadyOf, ReadyNow, ClaimInv, ReadyInv, GenerationInv,
                      VersionInv, Version, Has
  <1>6. Life(obj[n]) \in {"guarded", "dying"} /\ obj[n] # None
    BY <1>2 DEF Life, Has
  <1>7. Contract!MayShow(u, ShownBar'[u])
    BY <1>3, <1>4, <1>5, <1>6, BarFacts DEF Contract!MayShow, WantOf
  <1> QED
    BY <1>1, <1>7, ShowOne DEF FileWritten, WorksAlone

LEMMA RemoveMaps ==
    ASSUME TypeInv, OwnerInv, GeneratorRemoved
    PROVE  Contract!Show \/ UNCHANGED Contract!vars
  <1> USE ObjectTypes
  <1>1. PICK u \in Uids, n \in Names : u = cur.uid /\ n = cur.name
    BY DEF GeneratorRemoved
  <1>2. cur.del /\ nameOf[u] = n
    BY <1>1 DEF GeneratorRemoved, OwnerInv, NameInv, CleanupInv, CleanupSteps
  <1>3. CASE genFile[u] = None
    <2>1. UNCHANGED <<OwnerBar, WantBar, ReadyBar>>
      <3>1. UNCHANGED OwnerBar
        BY DEF GeneratorRemoved, WorksAlone, OwnerBar, Device, Has
      <3>2. UNCHANGED WantBar
        BY DEF GeneratorRemoved, WorksAlone, WantBar, Device, Has
      <3>3. UNCHANGED ReadyBar
        BY DEF GeneratorRemoved, WorksAlone, ReadyBar, Device, Has, ReadyNow
      <3> QED
        BY <3>1, <3>2, <3>3
    <2>2. UNCHANGED ShownBar
      <3>1. \A v \in Uids : genFile'[v] = genFile[v]
        BY <1>1, <1>3 DEF GeneratorRemoved
      <3> QED
        BY <3>1 DEF ShownBar
    <2> QED
      BY <2>1, <2>2 DEF Contract!vars
  <1>4. CASE genFile[u] # None
    <2>1. Has(n, u) /\ obj[n].del
      BY <1>1, <1>2, <1>4 DEF GeneratorRemoved, OwnerInv, FileInv, CurInv
    <2>2. Device(u) = obj[n] /\ Life(obj[n]) = "dying"
      BY <1>2, <2>1, NoneAssumption DEF Device, Life, Has
    <2>3. ShownBar'[u] = None
      BY <1>1 DEF GeneratorRemoved, ShownBar
    <2>4. Contract!MayShow(u, ShownBar'[u])
      BY <2>2, <2>3, BarFacts DEF Contract!MayShow
    <2> QED
      BY <1>1, <2>4, ShowOne DEF GeneratorRemoved, WorksAlone
  <1> QED
    BY <1>3, <1>4

\* Setting the finalizer is Protect, removing it Release; the object the patch
\* meets may be another device of the name, whose finalizer it then confirms.
LEMMA FinalizeMaps ==
    ASSUME TypeInv, TypeInv', OwnerInv, ClaimInv, NEW n \in Names, Finalized(n)
    PROVE  (\E u \in Uids : Contract!Protect(u) \/ Contract!Release(u)) \/ UNCHANGED Contract!vars
  <1> USE ObjectTypes
  <1>1. /\ n = cur.name /\ cur # None /\ (cur.fin <=> ~cur.del) /\ UNCHANGED genFile
    BY DEF Finalized, OwnerInv, CleanupInv
  <1>2. CASE obj[n] = None
    <2>1. \A m \in Names : obj'[m] = obj[m]
      BY <1>2 DEF Finalized, OthersKept
    <2>2. UNCHANGED obj
      <3>1. obj' \in [Names -> Object \cup {None}]
        BY DEF TypeInv, TypeOK
      <3> QED
        BY <2>1, <3>1 DEF TypeInv, TypeOK
    <2> QED
      BY <2>2, MappedStutter DEF Finalized
  <1>3. CASE obj[n] # None
    <2>1. PICK u \in Uids : u = obj[n].uid
      BY <1>3
    <2>2. Device(u) = obj[n] /\ Device(u)' = obj'[n] /\ OnlyDevice(u)
      BY <1>3, <2>1, DeviceStep DEF Finalized, SameIdentity
    <2>3. CASE obj[n].del /\ ~cur.fin
      <3>1. /\ Life(obj[n]) = "dying" /\ Life(obj'[n]) = "absent" /\ WantOf(obj'[n]) = None
            /\ ~ReadyOf(obj'[n])
        BY <1>3, <2>3 DEF Finalized, Life, WantOf, ReadyOf
      <3>2. ~ReadyOf(obj[n])
        BY <2>3 DEF ReadyOf, ReadyNow, ClaimInv, ReadyInv
      <3>3. obj[n].fin /\ cur.uid = u
        BY <1>1, <1>3, <2>1, <2>3 DEF OwnerInv, ObjectInv, CurInv
      <3>4. ShownBar[u] = None
        BY <1>1, <2>3, <3>3, BarFacts DEF Finalized, OwnerInv, CleanupInv
      <3>5. /\ OwnerBar' = [OwnerBar EXCEPT ![u] = "absent"]
            /\ WantBar' = [WantBar EXCEPT ![u] = None]
            /\ ReadyBar' = ReadyBar /\ ShownBar' = ShownBar
        BY <1>1, <2>2, <3>1, <3>2, BarsFollow
      <3>6. Contract!Release(u)
        BY <2>2, <3>1, <3>4, <3>5, BarFacts DEF Contract!Release
      <3> QED
        BY <3>6
    <2>4. CASE ~(obj[n].del /\ ~cur.fin)
      <3>1. /\ obj'[n] # None /\ obj'[n].fin = cur.fin /\ obj'[n].del = obj[n].del
            /\ WantOf(obj'[n]) = WantOf(obj[n]) /\ (ReadyOf(obj'[n]) <=> ReadyOf(obj[n]))
        BY <1>3, <2>4 DEF Finalized, SameVersion, SameStatus, WantOf, ReadyOf
      <3>2. WantBar' = WantBar /\ ReadyBar' = ReadyBar /\ ShownBar' = ShownBar
        BY <1>1, <2>2, <3>1, BarsFollow
      <3>3. CASE Life(obj'[n]) = Life(obj[n])
        <4>1. OwnerBar' = OwnerBar
          BY <1>1, <2>2, <3>3, BarsFollow
        <4> QED
          BY <3>2, <4>1 DEF Contract!vars
      <3>4. CASE Life(obj'[n]) # Life(obj[n])
        <4>1. ~cur.fin => ~obj[n].fin
          BY <1>1, <1>3, <2>4 DEF OwnerInv, CurInv, Has
        <4>2. Life(obj[n]) = "unguarded" /\ Life(obj'[n]) = "guarded"
          BY <1>3, <3>1, <3>4, <4>1 DEF Life
        <4>3. OwnerBar' = [OwnerBar EXCEPT ![u] = "guarded"]
          BY <1>1, <2>2, <4>2, BarsFollow
        <4>4. Contract!Protect(u)
          BY <2>2, <3>2, <4>2, <4>3, BarFacts DEF Contract!Protect
        <4> QED
          BY <4>4
      <3> QED
        BY <3>3, <3>4
    <2> QED
      BY <2>3, <2>4
  <1> QED
    BY <1>2, <1>3

\* Storing the status is Claim or Retract.
LEMMA StatusMaps ==
    ASSUME TypeInv, TypeInv', OwnerInv, GenerationInv, ClaimInv, NEW n \in Names, Stored(n)
    PROVE  (\E u \in Uids : Contract!Claim(u) \/ Contract!Retract(u)) \/ UNCHANGED Contract!vars
  <1> USE ObjectTypes
  <1>1. CASE obj[n] = None
    <2>1. \A m \in Names : obj'[m] = obj[m]
      BY <1>1 DEF Stored, OthersKept
    <2>2. UNCHANGED obj
      <3>1. obj' \in [Names -> Object \cup {None}]
        BY DEF TypeInv, TypeOK
      <3> QED
        BY <2>1, <3>1 DEF TypeInv, TypeOK
    <2> QED
      BY <2>2, MappedStutter DEF Stored
  <1>2. CASE obj[n] # None
    <2>1. PICK u \in Uids : u = obj[n].uid
      BY <1>2
    <2>2. Device(u) = obj[n] /\ Device(u)' = obj'[n] /\ OnlyDevice(u)
      BY <1>2, <2>1, DeviceStep DEF Stored, SameIdentity
    <2>3. Life(obj'[n]) = Life(obj[n]) /\ WantOf(obj'[n]) = WantOf(obj[n])
      BY <1>2 DEF Stored, SameVersion, Life, WantOf
    <2>4. UNCHANGED <<OwnerBar, WantBar, ShownBar>>
      BY <2>2, <2>3, BarsFollow DEF Stored
    <2>5. CASE ~ReadyOf(obj'[n])
      <3>1. ReadyBar' = ReadyBar \ {u}
        BY <2>2, <2>5, BarsFollow DEF Stored
      <3>2. Contract!Retract(u)
        BY <2>4, <3>1 DEF Contract!Retract
      <3> QED
        BY <3>2
    <2>6. CASE ReadyOf(obj'[n])
      <3>1. cur.ready = "True" /\ cur.gen = obj[n].gen /\ n = cur.name /\ pc = "patchStatus"
        BY <1>2, <2>6 DEF Stored, ReadyOf, SameStatus, SameVersion
      <3>2. Has(n, cur.uid) /\ obj[n].fin /\ ~cur.del /\ genFile[cur.uid] # None
              /\ genFile[cur.uid].walks = cur.walks
        BY <1>2, <3>1 DEF Stored, ClaimInv, ReportInv, Reports
      <3>3. u = cur.uid /\ cur.walks = obj[n].walks /\ ~obj[n].del
        BY <1>2, <2>1, <3>1, <3>2 DEF Stored, GenerationInv, VersionInv, Version, Has
      <3>4. ReadyBar' = ReadyBar \cup {u}
        BY <2>2, <2>6, BarsFollow DEF Stored
      <3>5. OwnerBar[u] = "guarded" /\ ShownBar[u] = WantBar[u]
        BY <1>2, <2>2, <3>2, <3>3, BarFacts DEF Life, WantOf
      <3>6. Contract!Claim(u)
        BY <2>4, <3>4, <3>5 DEF Contract!Claim
      <3> QED
        BY <3>6
    <2> QED
      BY <2>5, <2>6
  <1> QED
    BY <1>1, <1>2

\* User steps map to user steps of the contract, a change of a generator file
\* to Show, the two patches to Protect, Release, Claim or Retract, all else to
\* nothing.
LEMMA MappedStep ==
    TypeInv /\ OwnerInv /\ GenerationInv /\ ClaimInv /\ [Next]_vars => [Contract!Next]_(Contract!vars)
  <1> SUFFICES ASSUME TypeInv, OwnerInv, GenerationInv, ClaimInv, [Next]_vars
               PROVE  Contract!Next \/ UNCHANGED Contract!vars
    OBVIOUS
  <1>0. TypeInv'
    BY TypeStep
  <1>1. ASSUME NEW n \in Names, NEW u \in Uids, NEW w \in Walks, Created(n, u, w) PROVE Contract!Next
    BY <1>1, CreateMaps DEF Contract!Next
  <1>2. ASSUME NEW n \in Names, NEW w \in Walks, Updated(n, w) PROVE Contract!Next
    BY <1>2, UpdateMaps DEF Contract!Next
  <1>3. ASSUME NEW n \in Names, Deleted(n) PROVE Contract!Next
    BY <1>3, DeleteMaps DEF Contract!Next
  <1>4. ASSUME FileWritten PROVE Contract!Next
    BY <1>4, WriteMaps DEF Contract!Next
  <1>5. ASSUME GeneratorRemoved PROVE Contract!Next \/ UNCHANGED Contract!vars
    BY <1>5, RemoveMaps DEF Contract!Next
  <1>6. ASSUME NEW n \in Names, Finalized(n) PROVE Contract!Next \/ UNCHANGED Contract!vars
    BY <1>0, <1>6, FinalizeMaps DEF Contract!Next
  <1>7. ASSUME NEW n \in Names, Stored(n) PROVE Contract!Next \/ UNCHANGED Contract!vars
    BY <1>0, <1>7, StatusMaps DEF Contract!Next
  <1>8. ASSUME NEW n \in Names, Synced(n) \/ JobSynced(n) \/ Collected(n) \/ Loaded(n)
        PROVE  UNCHANGED Contract!vars
    BY <1>8, MappedStutter DEF Synced, JobSynced, Collected, Loaded
  <1>9. ASSUME NEW p \in pods, Loads(p) \/ Truncates(p) \/ Succeeds(p) \/ Breaks(p)
        PROVE  UNCHANGED Contract!vars
    BY <1>9, MappedStutter DEF Loads, Truncates, Succeeds, Breaks, Ends, PodsAlone
  <1>10. ASSUME JobsDeleted \/ SnmpRemoved \/ JobCreated \/ StaleDropped \/ Evaluated \/ ContentRead
                   \/ MergeReady \/ MergeStored \/ Reloaded \/ Failed \/ PatchFailed \/ Restarted \/ Quiet
         PROVE  UNCHANGED Contract!vars
    BY <1>10, MappedStutter
       DEF JobsDeleted, SnmpRemoved, JobCreated, StaleDropped, Evaluated, ContentRead, MergeReady,
           MergeStored, Reloaded, Failed, PatchFailed, Restarted, Quiet, WorksAlone
  <1> QED
    BY StepCases, <1>1, <1>2, <1>3, <1>4, <1>5, <1>6, <1>7, <1>8, <1>9, <1>10

\* The controller implements the contract of ManagedResource, for any number of
\* devices, names and contents: the patches that go by name never give a device
\* a finalizer, a release or a Ready that is not its own.
THEOREM RefinesContract == Spec => ImplementsContract
  BY MDInvariant, MappedInit, MappedStep, PTL DEF Spec, ImplementsContract, Contract!Spec


-----------------------------------------------------------------------------
(* Pods.  Deleting a Job leaves its pod behind, and a Job may be deleted    *)
(* while the cache still shows it.  Such a pod or Job is of no generation   *)
(* that a run can still work on, so no two pods are of one generation and   *)
(* each Job ends with the result of its own pod.                            *)

\* No live copy of the device with UID u is of generation g or an older one.
Dead(n, u, g) ==
    /\ Has(n, u) /\ ~obj[n].del => g < obj[n].gen
    /\ cache[n] # None /\ cache[n].uid = u /\ ~cache[n].del => g < cache[n].gen
    /\ Working /\ cur.name = n /\ cur.uid = u => g < cur.gen

MadeForInv ==
    /\ \A p \in pods : nameOf[p.uid] = p.name
    /\ \A n \in Names : jobCache[n] # None => nameOf[jobCache[n].uid] = n

PodJobInv ==
    \A p \in pods : /\ OwnJob(p) => job[p.name].status = "running"
                    /\ ~OwnJob(p) => Dead(p.name, p.uid, p.gen)

PodsApart == \A p, q \in pods : p.uid = q.uid /\ p.gen = q.gen => p = q

GoneJobInv ==
    \A n \in Names :
        jobCache[n] # None /\ ~(job[n] # None /\ job[n].uid = jobCache[n].uid)
           => Dead(n, jobCache[n].uid, jobCache[n].gen)

\* A cached result is the result.
ResultInv ==
    \A n \in Names :
        job[n] # None /\ jobCache[n] # None /\ jobCache[n].uid = job[n].uid
           /\ jobCache[n].status # "running"
           => job[n].status = jobCache[n].status

PodInv == MadeForInv /\ PodJobInv /\ PodsApart /\ GoneJobInv /\ ResultInv

\* Every step keeps pods apart and what is left of deleted Jobs dead.
LEMMA PodInvStep == TypeInv /\ OwnerInv /\ GenerationInv /\ PodInv /\ [Next]_vars => PodInv'
  <1> SUFFICES ASSUME TypeInv, OwnerInv, GenerationInv, PodInv, [Next]_vars PROVE PodInv'
    OBVIOUS
  <1> USE ObjectTypes, NoneAssumption DEF PodInv
  <1>1. ASSUME NEW n \in Names, NEW u \in Uids, NEW w \in Walks, Created(n, u, w) PROVE PodInv'
    BY <1>1 DEF Created, OthersKept, MadeForInv, PodJobInv, OwnJob, Dead, Working, Has, PodsApart,
                GoneJobInv, ResultInv
  <1>2. ASSUME NEW n \in Names, NEW w \in Walks, Updated(n, w) PROVE PodInv'
    BY <1>2 DEF Updated, OthersKept, SameIdentity, SameStatus, MadeForInv, PodJobInv, OwnJob, Dead,
                Has, Working, DeviceSteps, ApplySteps, PodsApart, GoneJobInv, ResultInv
  <1>3. ASSUME NEW n \in Names, Deleted(n) PROVE PodInv'
    BY <1>3 DEF Deleted, OthersKept, SameIdentity, SameStatus, MadeForInv, PodJobInv, OwnJob, Dead,
                Has, Working, DeviceSteps, ApplySteps, PodsApart, GoneJobInv, ResultInv
  <1>4. ASSUME NEW n \in Names, Synced(n) PROVE PodInv'
    BY <1>4 DEF Synced, MadeForInv, PodJobInv, OwnJob, Dead, Has, Working, DeviceSteps, ApplySteps,
                PodsApart, GoneJobInv, ResultInv
  <1>5. ASSUME NEW n \in Names, JobSynced(n) PROVE PodInv'
    BY <1>5 DEF JobSynced, MadeForInv, JobInv, GenerationInv, PodJobInv, OwnJob, Dead, Has, Working,
                DeviceSteps, ApplySteps, PodsApart, GoneJobInv, ResultInv
  <1>6. ASSUME NEW n \in Names, Collected(n) PROVE PodInv'
    <2> USE <1>6 DEF Collected
    <2>1. MadeForInv' /\ PodsApart' /\ ResultInv'
      BY DEF MadeForInv, PodsApart, ResultInv
    <2>2. PodJobInv'
      BY DEF PodJobInv, OwnJob, Dead, OwnerInv, CacheInv, CurInv, GenerationInv, JobInv, Working,
             DeviceSteps, ApplySteps, Has
    <2>3. GoneJobInv'
      BY DEF GoneJobInv, Dead, OwnerInv, CacheInv, CurInv, GenerationInv, JobInv, Working,
             DeviceSteps, ApplySteps, Has
    <2> QED
      BY <2>1, <2>2, <2>3
  <1>7. ASSUME NEW n \in Names, Loaded(n) PROVE PodInv'
    BY <1>7 DEF Loaded, SameIdentity, SameVersion, MadeForInv, PodJobInv, OwnJob, Dead, OwnerInv,
                NameInv, Working, Has, PodsApart, GoneJobInv, ResultInv
  <1>8. ASSUME NEW p \in pods, Loads(p) PROVE PodInv'
    BY <1>8 DEF Loads, PodsAlone, Becomes, MadeForInv, PodJobInv, OwnJob, Dead, Has, Working,
                DeviceSteps, ApplySteps, PodsApart, GoneJobInv, ResultInv
  <1>9. ASSUME NEW p \in pods, Truncates(p) PROVE PodInv'
    BY <1>9 DEF Truncates, PodsAlone, Becomes, Touches, MadeForInv, PodJobInv, OwnJob, Dead, Has,
                Working, DeviceSteps, ApplySteps, PodsApart, GoneJobInv, ResultInv
  <1>10. ASSUME NEW p \in pods, Succeeds(p) PROVE PodInv'
    BY <1>10 DEF Succeeds, Ends, PodsAlone, Touches, MadeForInv, PodJobInv, PodsApart, OwnJob, Dead,
        Working, Has, GoneJobInv, DeviceSteps, ApplySteps, ResultInv
  <1>11. ASSUME NEW p \in pods, Breaks(p) PROVE PodInv'
    BY <1>11 DEF Breaks, Ends, PodsAlone, Touches, MadeForInv, PodJobInv, PodsApart, OwnJob, Dead,
        Working, Has, GoneJobInv, DeviceSteps, ApplySteps, ResultInv
  <1>12. ASSUME JobsDeleted PROVE PodInv'
    <2> USE <1>12 DEF JobsDeleted, JobDropped, WorksAlone
    <2>1. MadeForInv' /\ PodsApart' /\ ResultInv'
      BY DEF MadeForInv, PodsApart, ResultInv
    <2>2. PodJobInv'
      BY DEF PodJobInv, OwnJob, Dead, OwnerInv, CacheInv, CurInv, CleanupInv, GenerationInv, JobInv,
             Working, CleanupSteps, Has
    <2>3. GoneJobInv'
      <3>1. ~Working /\ ~Working'
        BY DEF Working, DeviceSteps, ApplySteps
      <3>2. ASSUME NEW n \in Names, jobCache[n] # None,
                   Dead(n, jobCache[n].uid, jobCache[n].gen)
            PROVE  Dead(n, jobCache[n].uid, jobCache[n].gen)'
        BY <3>1, <3>2 DEF Dead, Has
      <3>3. ASSUME OwnedJob
            PROVE  Dead(cur.name, jobCache[cur.name].uid, jobCache[cur.name].gen)
        BY <3>1, <3>3 DEF Dead, OwnedJob, OwnerInv, CleanupInv, CurInv, CleanupSteps
      <3> QED
        BY <3>2, <3>3 DEF GoneJobInv
    <2> QED
      BY <2>1, <2>2, <2>3
  <1>13. ASSUME GeneratorRemoved PROVE PodInv'
    BY <1>13 DEF GeneratorRemoved, WorksAlone, MadeForInv, PodJobInv, OwnJob, Dead, Has, Working,
        DeviceSteps, ApplySteps, PodsApart, GoneJobInv, ResultInv
  <1>14. ASSUME SnmpRemoved PROVE PodInv'
    BY <1>14 DEF SnmpRemoved, WorksAlone, MadeForInv, PodJobInv, OwnJob, Dead, OwnerInv, CleanupInv,
        Working, CleanupSteps, Has, PodsApart, GoneJobInv, ResultInv
  <1>15. ASSUME FileWritten PROVE PodInv'
    BY <1>15 DEF FileWritten, Holds, WorksAlone, SameIdentity, SameVersion, MadeForInv, PodJobInv,
        OwnJob, Dead, Has, Working, DeviceSteps, ApplySteps, PodsApart, GoneJobInv, ResultInv
  <1>16. ASSUME JobCreated PROVE PodInv'
    <2> USE <1>16 DEF JobCreated, Holds, WorksAlone, SameIdentity, SameVersion
    <2>1. MadeForInv' /\ PodJobInv' /\ GoneJobInv' /\ ResultInv'
      BY DEF MadeForInv, OwnerInv, NameInv, PodJobInv, OwnJob, Dead, Has, Working, DeviceSteps,
             ApplySteps, GoneJobInv, ResultInv, OwnedJob
    <2>2. PodsApart'
      BY DEF PodsApart, PodJobInv, OwnJob, Dead, MadeForInv, OwnerInv, NameInv, CleanupInv, Working,
             DeviceSteps
    <2> QED
      BY <2>1, <2>2
  <1>17. ASSUME StaleDropped PROVE PodInv'
    <2> USE <1>17 DEF StaleDropped, JobDropped, WorksAlone
    <2>1. /\ cur.name \in Names /\ Working
          /\ jobCache[cur.name].uid = cur.uid /\ jobCache[cur.name].gen # cur.gen
      BY DEF OwnedJob, StaleJob, Working, DeviceSteps, OwnerInv, CleanupInv
    <2>2. jobCache[cur.name].gen < cur.gen
      BY <2>1 DEF GoneJobInv, Dead, OwnedJob, GenerationInv, JobInv, JobCacheInv
    <2>3. Dead(cur.name, cur.uid, jobCache[cur.name].gen)
      BY <2>1, <2>2 DEF Dead, OwnedJob, GenerationInv, VersionInv, Version, Has, Working
    <2>4. \A n \in Names, u \in Uids, g \in Nat : Dead(n, u, g) => Dead(n, u, g)'
      BY DEF Dead, Has, Working, DeviceSteps, ApplySteps
    <2>5. \A u \in Uids, g \in Nat : u # cur.uid => Dead(cur.name, u, g)
      BY <2>1 DEF Dead, Has, Working, GenerationInv, KnownInv, OwnerInv, CurInv
    <2>6. MadeForInv' /\ PodsApart' /\ ResultInv'
      BY DEF MadeForInv, PodsApart, ResultInv
    <2>7. PodJobInv'
      <3>1. \A p \in pods : ~OwnJob(p)' => Dead(p.name, p.uid, p.gen)
        BY <2>1, <2>3, <2>5 DEF PodJobInv, OwnJob, OwnedJob, GenerationInv, JobCacheInv
      <3> QED
        BY <2>4, <3>1 DEF PodJobInv, OwnJob
    <2>8. GoneJobInv'
      <3>1. \A n \in Names : jobCache[n] # None /\ (job[n] # None => job[n].uid # jobCache[n].uid)
                => Dead(n, jobCache[n].uid, jobCache[n].gen)
        BY DEF GoneJobInv
      <3> QED
        BY <2>1, <2>3, <2>4, <3>1 DEF GoneJobInv
    <2> QED
      BY <2>6, <2>7, <2>8
  <1>18. ASSUME Evaluated PROVE PodInv'
    BY <1>18 DEF Evaluated, Holds, WorksAlone, SameIdentity, SameVersion, MadeForInv, PodJobInv,
        OwnJob, Dead, Has, Working, DeviceSteps, ApplySteps, PodsApart, GoneJobInv, ResultInv
  <1>19. ASSUME ContentRead PROVE PodInv'
    BY <1>19 DEF ContentRead, Holds, WorksAlone, SameIdentity, SameVersion, MadeForInv, PodJobInv,
        OwnJob, Dead, Has, Working, DeviceSteps, ApplySteps, PodsApart, GoneJobInv, ResultInv
  <1>20. ASSUME MergeReady PROVE PodInv'
    BY <1>20 DEF MergeReady, WorksAlone, MadeForInv, PodJobInv, OwnJob, Dead, Has, Working,
        DeviceSteps, ApplySteps, PodsApart, GoneJobInv, ResultInv
  <1>21. ASSUME MergeStored PROVE PodInv'
    BY <1>21 DEF MergeStored, Holds, WorksAlone, SameIdentity, SameVersion, MadeForInv, PodJobInv,
        OwnJob, Dead, Has, Working, DeviceSteps, ApplySteps, PodsApart, GoneJobInv, ResultInv
  <1>22. ASSUME Reloaded PROVE PodInv'
    BY <1>22 DEF Reloaded, Holds, WorksAlone, SameIdentity, SameVersion, MadeForInv, PodJobInv,
        OwnJob, Dead, Has, Working, DeviceSteps, ApplySteps, PodsApart, GoneJobInv, ResultInv
  <1>23. ASSUME Failed PROVE PodInv'
    BY <1>23 DEF Failed, Holds, WorksAlone, SameIdentity, SameVersion, MadeForInv, PodJobInv,
        OwnJob, Dead, Has, Working, DeviceSteps, ApplySteps, PodsApart, GoneJobInv, ResultInv
  <1>24. ASSUME NEW n \in Names, Finalized(n) PROVE PodInv'
    BY <1>24 DEF Finalized, OthersKept, SameIdentity, SameVersion, SameStatus, MadeForInv,
        PodJobInv, OwnJob, Dead, Has, Working, DeviceSteps, ApplySteps, PodsApart, GoneJobInv,
        ResultInv
  <1>25. ASSUME NEW n \in Names, Stored(n) PROVE PodInv'
    BY <1>25 DEF Stored, OthersKept, SameIdentity, SameVersion, SameStatus, MadeForInv, PodJobInv,
        OwnJob, Dead, Has, Working, DeviceSteps, ApplySteps, PodsApart, GoneJobInv, ResultInv
  <1>26. ASSUME PatchFailed PROVE PodInv'
    BY <1>26 DEF PatchFailed, WorksAlone, MadeForInv, PodJobInv, OwnJob, Dead, Has, Working,
        DeviceSteps, ApplySteps, PodsApart, GoneJobInv, ResultInv
  <1>27. ASSUME Restarted PROVE PodInv'
    BY <1>27 DEF Restarted, MadeForInv, JobInv, GenerationInv, PodJobInv, OwnJob, Dead, Has,
        Working, DeviceSteps, ApplySteps, PodsApart, GoneJobInv, ResultInv
  <1>28. ASSUME Quiet PROVE PodInv'
    BY <1>28 DEF Quiet, MadeForInv, PodJobInv, OwnJob, Dead, Has, Working, DeviceSteps, ApplySteps,
        PodsApart, GoneJobInv, ResultInv
  <1> QED
    BY StepCases, <1>1, <1>2, <1>3, <1>4, <1>5, <1>6, <1>7, <1>8, <1>9, <1>10, <1>11, <1>12, <1>13,
       <1>14, <1>15, <1>16, <1>17, <1>18, <1>19, <1>20, <1>21, <1>22, <1>23, <1>24, <1>25, <1>26,
       <1>27, <1>28

LEMMA PodInvInit == Init => PodInv
  BY DEF Init, PodInv, MadeForInv, PodJobInv, PodsApart, GoneJobInv, ResultInv


-----------------------------------------------------------------------------
(* Rest.  A device that is not settled has something that will wake or      *)
(* feed its next run: a queued name, a change no cache has seen, a run in   *)
(* progress, or a pod that will end its Job.                                *)

\* The Job of the device's current generation.
CurrentJob(n) ==
    /\ obj[n] # None /\ job[n] # None
    /\ job[n].uid = obj[n].uid /\ job[n].gen = obj[n].gen

\* The Job cache will see a change.  (That of a Job it never saw, of a device
\* that is gone, may be undone by the garbage collector.)
JobPending(n) == jobCache[n] # job[n] /\ (jobCache[n] # None \/ Has(n, job[n].uid))

\* The cache has all that a run decides from; it may lag behind with the status.
UpToDate(n) ==
    /\ cache[n] # None /\ obj[n] # None
    /\ cache[n].uid = obj[n].uid /\ cache[n].gen = obj[n].gen
    /\ cache[n].del = obj[n].del /\ cache[n].fin = obj[n].fin

\* There will be another run for the name.
Noticed(n) == n \in queue \/ JobPending(n) \/ ~UpToDate(n)

CacheFinInv == \A n \in Names : cache[n] # None /\ cache[n].del => cache[n].fin

RunningInv ==
    \A n \in Names : job[n] # None /\ job[n].status = "running" =>
        \E p \in pods : p.name = n /\ OwnJob(p)

\* What a run that nothing follows is going to leave.
LastRunInv ==
    \A n \in Names : cur # None /\ cur.name = n /\ obj[n] # None /\ ~Noticed(n) =>
        /\ cur.uid = obj[n].uid /\ cur.gen = obj[n].gen /\ cur.del = obj[n].del
        /\ pc = "patchFinalizer" => cur.del \/ ~obj[n].fin
        /\ pc = "patchStatus" =>
              \/ cur.ready = "True"
              \/ CurrentJob(n) /\ job[n].status = "running"
              \/ CurrentJob(n) /\ job[n].status = "failed" /\ cur.generated = "False"

AwakeInv ==
    \A n \in Names :
        \/ obj[n] = None \/ ReadyNow(n) \/ GenerationFailed(n)
        \/ n \in queue \/ JobPending(n) \/ cache[n] # obj[n]
        \/ cur # None /\ cur.name = n
        \/ CurrentJob(n) /\ job[n].status = "running"

RestInv == CacheFinInv /\ RunningInv /\ LastRunInv /\ AwakeInv

\* No step loses a wake-up.
LEMMA RestStep ==
    TypeInv /\ OwnerInv /\ GenerationInv /\ ClaimInv /\ PodInv /\ RestInv /\ [Next]_vars => RestInv'
  <1> SUFFICES ASSUME TypeInv, OwnerInv, GenerationInv, ClaimInv, PodInv, RestInv, [Next]_vars
           PROVE RestInv'
    OBVIOUS
  <1> USE ObjectTypes, NoneAssumption DEF RestInv
  <1>1. ASSUME NEW n \in Names, NEW u \in Uids, NEW w \in Walks, Created(n, u, w) PROVE RestInv'
    BY <1>1 DEF Created, OthersKept, CacheFinInv, RunningInv, OwnJob, LastRunInv, Noticed,
                JobPending, UpToDate, CurrentJob, OwnerInv, NameInv, Has, AwakeInv, ReadyNow,
                GenerationFailed
  <1>2. ASSUME NEW n \in Names, NEW w \in Walks, Updated(n, w) PROVE RestInv'
    <2> USE <1>2 DEF Updated, OthersKept, SameIdentity, SameStatus
    <2>1. CacheFinInv' /\ RunningInv'
      BY DEF CacheFinInv, RunningInv, OwnJob
    <2>2. LastRunInv'
      BY DEF LastRunInv, Noticed, JobPending, UpToDate, CurrentJob, GenerationInv, VersionInv,
             Version, Has
    <2>3. AwakeInv'
      BY DEF AwakeInv, ReadyNow, GenerationFailed, JobPending, CurrentJob, GenerationInv,
             VersionInv, Version, Has
    <2> QED
      BY <2>1, <2>2, <2>3
  <1>3. ASSUME NEW n \in Names, Deleted(n) PROVE RestInv'
    <2> USE <1>3 DEF Deleted, OthersKept, SameIdentity, SameStatus
    <2>1. CacheFinInv' /\ RunningInv'
      BY DEF CacheFinInv, RunningInv, OwnJob
    <2>2. LastRunInv'
      BY DEF LastRunInv, Noticed, JobPending, UpToDate, CurrentJob, GenerationInv, VersionInv,
             Version, Has
    <2>3. AwakeInv'
      BY DEF AwakeInv, ReadyNow, GenerationFailed, JobPending, CurrentJob, GenerationInv,
             VersionInv, Version, Has
    <2> QED
      BY <2>1, <2>2, <2>3
  <1>4. ASSUME NEW n \in Names, Synced(n) PROVE RestInv'
    BY <1>4 DEF Synced, CacheFinInv, OwnerInv, ObjectInv, RunningInv, OwnJob, LastRunInv, Noticed,
                JobPending, UpToDate, CurrentJob, Has, AwakeInv, ReadyNow, GenerationFailed
  <1>5. ASSUME NEW n \in Names, JobSynced(n) PROVE RestInv'
    BY <1>5 DEF JobSynced, CacheFinInv, RunningInv, OwnJob, LastRunInv, Noticed, JobPending,
                UpToDate, CurrentJob, Has, AwakeInv, ReadyNow, GenerationFailed
  <1>6. ASSUME NEW n \in Names, Collected(n) PROVE RestInv'
    BY <1>6 DEF Collected, CacheFinInv, RunningInv, OwnJob, LastRunInv, Noticed, JobPending,
                UpToDate, CurrentJob, Has, AwakeInv, ReadyNow, GenerationFailed
  <1>7. ASSUME NEW n \in Names, Loaded(n) PROVE RestInv'
    <2> USE <1>7 DEF Loaded, SameIdentity, SameVersion
    <2>1. CacheFinInv' /\ RunningInv' /\ AwakeInv'
      BY DEF CacheFinInv, RunningInv, OwnJob, AwakeInv, ReadyNow, GenerationFailed, JobPending,
             CurrentJob, OwnerInv, NameInv, Has
    <2>2. LastRunInv'
      <3>1. pc' # "patchStatus" /\ (pc' = "patchFinalizer" => ~cache[n].fin)
        BY DEF CacheFinInv
      <3>2. cur'.name = n /\ cur'.uid = cache[n].uid /\ cur'.gen = cache[n].gen /\ cur'.del = cache[n].del
        BY DEF OwnerInv, NameInv
      <3>3. \A m \in Names : ~Noticed(m)' => UpToDate(m)
        BY DEF Noticed, UpToDate
      <3> QED
        BY <3>1, <3>2, <3>3 DEF LastRunInv, UpToDate
    <2> QED
      BY <2>1, <2>2
  <1>8. ASSUME NEW p \in pods, Loads(p) PROVE RestInv'
    BY <1>8 DEF Loads, PodsAlone, Becomes, CacheFinInv, RunningInv, OwnJob, LastRunInv, Noticed,
                JobPending, UpToDate, CurrentJob, Has, AwakeInv, ReadyNow, GenerationFailed
  <1>9. ASSUME NEW p \in pods, Truncates(p) PROVE RestInv'
    BY <1>9 DEF Truncates, PodsAlone, Becomes, Touches, CacheFinInv, RunningInv, OwnJob, LastRunInv,
                Noticed, JobPending, UpToDate, CurrentJob, Has, AwakeInv, ReadyNow, GenerationFailed
  <1>10. ASSUME NEW p \in pods, Succeeds(p) PROVE RestInv'
    <2> USE <1>10 DEF Succeeds, Ends, PodsAlone, Touches
    <2>1. CacheFinInv' /\ RunningInv'
      BY DEF CacheFinInv, RunningInv, OwnJob
    <2>2. LastRunInv'
      BY DEF LastRunInv, Noticed, JobPending, UpToDate, CurrentJob, PodInv, PodJobInv, ResultInv,
             OwnJob, Has
    <2>3. AwakeInv'
      BY DEF AwakeInv, ReadyNow, GenerationFailed, JobPending, CurrentJob, PodInv, PodJobInv,
             ResultInv, OwnJob, Has
    <2> QED
      BY <2>1, <2>2, <2>3
  <1>11. ASSUME NEW p \in pods, Breaks(p) PROVE RestInv'
    <2> USE <1>11 DEF Breaks, Ends, PodsAlone, Touches
    <2>1. CacheFinInv' /\ RunningInv'
      BY DEF CacheFinInv, RunningInv, OwnJob
    <2>2. LastRunInv'
      BY DEF LastRunInv, Noticed, JobPending, UpToDate, CurrentJob, PodInv, PodJobInv, ResultInv,
             OwnJob, Has
    <2>3. AwakeInv'
      BY DEF AwakeInv, ReadyNow, GenerationFailed, JobPending, CurrentJob, PodInv, PodJobInv,
             ResultInv, OwnJob, Has
    <2> QED
      BY <2>1, <2>2, <2>3
  <1>12. ASSUME JobsDeleted PROVE RestInv'
    BY <1>12 DEF JobsDeleted, JobDropped, WorksAlone, CacheFinInv, RunningInv, OwnJob, LastRunInv,
        Noticed, JobPending, UpToDate, Has, OwnedJob, AwakeInv, ReadyNow, GenerationFailed,
        CurrentJob
  <1>13. ASSUME GeneratorRemoved PROVE RestInv'
    BY <1>13 DEF GeneratorRemoved, WorksAlone, CacheFinInv, RunningInv, OwnJob, LastRunInv, Noticed,
        JobPending, UpToDate, CurrentJob, Has, AwakeInv, ReadyNow, GenerationFailed
  <1>14. ASSUME SnmpRemoved PROVE RestInv'
    BY <1>14 DEF SnmpRemoved, WorksAlone, CacheFinInv, RunningInv, OwnJob, LastRunInv, Noticed,
        JobPending, UpToDate, CurrentJob, Has, AwakeInv, ReadyNow, GenerationFailed
  <1>15. ASSUME FileWritten PROVE RestInv'
    BY <1>15 DEF FileWritten, Holds, WorksAlone, SameIdentity, SameVersion, CacheFinInv, RunningInv,
        OwnJob, LastRunInv, Noticed, JobPending, UpToDate, CurrentJob, Has, AwakeInv, ReadyNow,
        GenerationFailed
  <1>16. ASSUME JobCreated PROVE RestInv'
    BY <1>16 DEF JobCreated, Holds, WorksAlone, SameIdentity, SameVersion, CacheFinInv, RunningInv,
        OwnJob, LastRunInv, Noticed, JobPending, UpToDate, Has, OwnedJob, AwakeInv, ReadyNow,
        GenerationFailed, CurrentJob
  <1>17. ASSUME StaleDropped PROVE RestInv'
    BY <1>17 DEF StaleDropped, JobDropped, WorksAlone, CacheFinInv, RunningInv, OwnJob, LastRunInv,
        Noticed, JobPending, OwnedJob, AwakeInv, ReadyNow, GenerationFailed, CurrentJob, Has
  <1>18. ASSUME Evaluated PROVE RestInv'
    BY <1>18 DEF Evaluated, Holds, WorksAlone, SameIdentity, SameVersion, CacheFinInv, RunningInv,
        OwnJob, LastRunInv, Noticed, JobPending, UpToDate, CurrentJob, OwnedJob, StaleJob, AwakeInv,
        ReadyNow, GenerationFailed, Has
  <1>19. ASSUME ContentRead PROVE RestInv'
    BY <1>19 DEF ContentRead, Holds, WorksAlone, SameIdentity, SameVersion, CacheFinInv, RunningInv,
        OwnJob, LastRunInv, Noticed, JobPending, UpToDate, CurrentJob, Has, AwakeInv, ReadyNow,
        GenerationFailed
  <1>20. ASSUME MergeReady PROVE RestInv'
    BY <1>20 DEF MergeReady, WorksAlone, CacheFinInv, RunningInv, OwnJob, LastRunInv, Noticed,
        JobPending, UpToDate, CurrentJob, Has, AwakeInv, ReadyNow, GenerationFailed
  <1>21. ASSUME MergeStored PROVE RestInv'
    BY <1>21 DEF MergeStored, Holds, WorksAlone, SameIdentity, SameVersion, CacheFinInv, RunningInv,
        OwnJob, LastRunInv, Noticed, JobPending, UpToDate, CurrentJob, Has, AwakeInv, ReadyNow,
        GenerationFailed
  <1>22. ASSUME Reloaded PROVE RestInv'
    BY <1>22 DEF Reloaded, Holds, WorksAlone, SameIdentity, SameVersion, CacheFinInv, RunningInv,
        OwnJob, LastRunInv, Noticed, JobPending, UpToDate, CurrentJob, Has, AwakeInv, ReadyNow,
        GenerationFailed
  <1>23. ASSUME Failed PROVE RestInv'
    BY <1>23 DEF Failed, Holds, WorksAlone, SameIdentity, SameVersion, CacheFinInv, RunningInv,
        OwnJob, LastRunInv, Noticed, JobPending, UpToDate, CurrentJob, Has, AwakeInv, ReadyNow,
        GenerationFailed
  <1>24. ASSUME NEW n \in Names, Finalized(n) PROVE RestInv'
    <2> USE <1>24 DEF Finalized, OthersKept, SameIdentity, SameVersion, SameStatus
    <2>1. CacheFinInv' /\ RunningInv' /\ AwakeInv'
      BY DEF CacheFinInv, RunningInv, OwnJob, AwakeInv, ReadyNow, GenerationFailed, JobPending,
             CurrentJob, Has
    <2>2. LastRunInv'
      BY DEF LastRunInv, Noticed, JobPending, UpToDate, OwnerInv, ObjectInv, CacheInv, CurInv,
             CleanupInv, Has
    <2> QED
      BY <2>1, <2>2
  <1>25. ASSUME NEW n \in Names, Stored(n) PROVE RestInv'
    <2> USE <1>25 DEF Stored, OthersKept, SameIdentity, SameVersion, SameStatus
    <2>1. CacheFinInv' /\ RunningInv' /\ LastRunInv'
      BY DEF CacheFinInv, RunningInv, OwnJob, LastRunInv
    <2>2. AwakeInv'
      BY DEF AwakeInv, LastRunInv, ReadyNow, GenerationFailed, Noticed, JobPending, UpToDate,
             CurrentJob, Has
    <2> QED
      BY <2>1, <2>2
  <1>26. ASSUME PatchFailed PROVE RestInv'
    BY <1>26 DEF PatchFailed, WorksAlone, CacheFinInv, RunningInv, OwnJob, LastRunInv, Noticed,
        JobPending, UpToDate, CurrentJob, Has, AwakeInv, ReadyNow, GenerationFailed
  <1>27. ASSUME Restarted PROVE RestInv'
    BY <1>27 DEF Restarted, CacheFinInv, OwnerInv, ObjectInv, RunningInv, OwnJob, LastRunInv,
        AwakeInv
  <1>28. ASSUME Quiet PROVE RestInv'
    BY <1>28 DEF Quiet, CacheFinInv, RunningInv, OwnJob, LastRunInv, Noticed, JobPending, UpToDate,
        CurrentJob, Has, AwakeInv, ReadyNow, GenerationFailed
  <1> QED
    BY StepCases, <1>1, <1>2, <1>3, <1>4, <1>5, <1>6, <1>7, <1>8, <1>9, <1>10, <1>11, <1>12, <1>13,
       <1>14, <1>15, <1>16, <1>17, <1>18, <1>19, <1>20, <1>21, <1>22, <1>23, <1>24, <1>25, <1>26,
       <1>27, <1>28

LEMMA RestInit == Init => RestInv
  BY DEF Init, RestInv, CacheFinInv, RunningInv, LastRunInv, AwakeInv

LEMMA RestInvariant ==
    Spec => [](TypeInv /\ OwnerInv /\ GenerationInv /\ ClaimInv /\ PodInv /\ RestInv)
  BY InvInit, GenerationInit, ClaimInit, PodInvInit, RestInit,
     TypeStep, OwnerStep, GenerationStep, ClaimStep, PodInvStep, RestStep, PTL DEF Spec

\* No wake-up is lost: at rest every device is Ready for its current spec, or
\* says that its generator Job failed; for any number of devices, faults,
\* crashes and late pods.
THEOREM RestIsSettled == Spec => []SettledAtRest
  <1>1. ASSUME TypeInv, RestInv PROVE SettledAtRest
    <2> SUFFICES ASSUME Quiescent, NEW n \in Names, obj[n] # None
                 PROVE  ReadyNow(n) \/ GenerationFailed(n)
      BY DEF SettledAtRest
    <2>1. cur = None
      BY <1>1 DEF Quiescent, TypeInv, WorkerInv
    <2>2. job[n] # None => job[n].status # "running"
      BY <1>1 DEF Quiescent, RestInv, RunningInv
    <2> QED
      BY <1>1, <2>1, <2>2 DEF Quiescent, RestInv, AwakeInv, JobPending, CurrentJob
  <1> QED
    BY <1>1, RestInvariant, PTL


-----------------------------------------------------------------------------
(* Contents.  A pod of the current generation was started after the         *)
(* generator file of that generation was written, and reads it; while its   *)
(* Job is complete nobody but a straggler touches the SNMP file; and no run *)
(* gets past a Job that is not complete, since a complete Job of the run's  *)
(* generation in the cache is still stored.                                 *)

LEMMA FileTypes ==
    ASSUME TypeInv
    PROVE  /\ \A u \in Uids : genFile[u] # None => genFile[u] \in Config
           /\ \A u \in Uids : snmpFile[u] \in Config \cup {None, Empty, Garbage}
           /\ \A p \in pods : p.in # None => p.in \in Config
           /\ \A u \in Uids : nameOf[u] # None => nameOf[u] \in Names
  <1>1. \A p \in Pod : p.in \in Config \cup {None}
    BY DEF Pod
  <1> QED
    BY <1>1 DEF TypeInv, TypeOK, FileContent

\* Files hold the module of the device they were made for.
FileNameInv ==
    /\ \A u \in Uids : snmpFile[u] # None => nameOf[u] # None
    /\ \A u \in Uids : snmpFile[u] \in Config => snmpFile[u].name = nameOf[u]
    /\ \A u \in Uids : genFile[u] # None => genFile[u].name = nameOf[u]
    /\ \A p \in pods : p.step # "pending" => p.in \in Config /\ p.in.name = p.name
    /\ \A u \in late : nameOf[u] # None

\* What was made for the current generation is of its walks.
Fits(c, o) == c \in Config /\ c.walks = o.walks

InputInv ==
    \A n \in Names : CurrentJob(n) /\ ~obj[n].del => Fits(genFile[obj[n].uid], obj[n])

LoadedInv ==
    \A p \in pods, n \in Names :
        p.name = n /\ OwnJob(p) /\ p.step # "pending" /\ CurrentJob(n) /\ ~obj[n].del
           => p.in.walks = obj[n].walks

\* The generator Job of the current generation is complete.
Done(n) == CurrentJob(n) /\ job[n].status = "complete"

OutputInv ==
    \A n \in Names : Done(n) /\ ~obj[n].del /\ obj[n].uid \notin late
                        => Fits(snmpFile[obj[n].uid], obj[n])

\* Past the Job: reading the content, applying it, or about to report Ready.
PastJob == Reports \/ (Working /\ pc \notin {"generatorFile", "generatorJob"})

DoneInv ==
    /\ \A n \in Names : ReadyNow(n) => Done(n)
    /\ PastJob => (cur.gen = obj[cur.name].gen => Done(cur.name))

HashInv ==
    /\ \A n \in Names : ReadyNow(n) /\ obj[n].uid \notin late
                           => obj[n].hash = Hash(snmpFile[obj[n].uid])
    /\ PastJob /\ pc # "snmpContent" /\ cur.uid \notin late
          => (cur.gen = obj[cur.name].gen => cur.hash = Hash(snmpFile[cur.uid]))

\* An SNMP file that no straggler touched is that of a device with finalizer.
SnmpInv ==
    /\ \A u \in Uids \ late : snmpFile[u] # None =>
          nameOf[u] # None /\ Has(nameOf[u], u) /\ obj[nameOf[u]].fin
    /\ pc \in ApplySteps \cup {"patchFinalizer"} /\ cur.del /\ cur.uid \notin late
          => snmpFile[cur.uid] = None

ContentInv == FileNameInv /\ InputInv /\ LoadedInv /\ OutputInv /\ DoneInv /\ HashInv /\ SnmpInv

\* Every step keeps the files what their owners say they are.
LEMMA ContentStep ==
    TypeInv /\ OwnerInv /\ GenerationInv /\ ClaimInv /\ PodInv /\ ContentInv
    /\ [Next]_vars => ContentInv'
  <1> SUFFICES ASSUME TypeInv, OwnerInv, GenerationInv, ClaimInv, PodInv, ContentInv, [Next]_vars
           PROVE ContentInv'
    OBVIOUS
  <1> USE ObjectTypes, FileTypes, NoneAssumption DEF ContentInv
  <1>1. ASSUME NEW n \in Names, NEW u \in Uids, NEW w \in Walks, Created(n, u, w) PROVE ContentInv'
    <2> USE <1>1 DEF Created, OthersKept
    <2>1. FileNameInv'
      <3>1. snmpFile[u] = None /\ genFile[u] = None /\ u \notin late
        BY DEF FileNameInv, OwnerInv, FileInv
      <3>2. late \subseteq Uids /\ \A p \in pods : p.uid # u
        BY DEF PodInv, MadeForInv, TypeInv, TypeOK
      <3> QED
        BY <3>1, <3>2 DEF FileNameInv
    <2>2. InputInv' /\ LoadedInv' /\ OutputInv' /\ SnmpInv'
      BY DEF InputInv, CurrentJob, JobInv, GenerationInv, LoadedInv, OwnJob, OutputInv, Done,
             SnmpInv, Has
    <2>3. DoneInv'
      BY DEF DoneInv, PastJob, Done, CurrentJob, OwnerInv, CurInv, ClaimInv, ReportInv, ReadyNow,
             Reports, Working, DeviceSteps, ApplySteps, Has
    <2>4. HashInv'
      BY DEF HashInv, PastJob, OwnerInv, CurInv, ClaimInv, ReportInv, ReadyNow, Reports, Working,
             DeviceSteps, ApplySteps, Has
    <2> QED
      BY <2>1, <2>2, <2>3, <2>4
  <1>2. ASSUME NEW n \in Names, NEW w \in Walks, Updated(n, w) PROVE ContentInv'
    <2> USE <1>2 DEF Updated, OthersKept, SameIdentity, SameStatus
    <2>1. FileNameInv' /\ InputInv' /\ LoadedInv' /\ OutputInv' /\ SnmpInv'
      BY DEF FileNameInv, InputInv, CurrentJob, JobInv, GenerationInv, Has, LoadedInv, OwnJob,
             OutputInv, Done, SnmpInv
    <2>2. DoneInv'
      BY DEF DoneInv, PastJob, Done, CurrentJob, OwnerInv, CurInv, GenerationInv, VersionInv,
             Version, ClaimInv, ObservedInv, ReportInv, ReadyNow, Reports, Working, DeviceSteps,
             ApplySteps, Has
    <2>3. HashInv'
      BY DEF HashInv, PastJob, OwnerInv, CurInv, GenerationInv, VersionInv, Version, ClaimInv,
             ObservedInv, ReportInv, ReadyNow, Reports, Working, DeviceSteps, ApplySteps, Has
    <2> QED
      BY <2>1, <2>2, <2>3
  <1>3. ASSUME NEW n \in Names, Deleted(n) PROVE ContentInv'
    <2> USE <1>3 DEF Deleted, OthersKept, SameIdentity, SameStatus
    <2>1. FileNameInv' /\ InputInv' /\ LoadedInv' /\ OutputInv' /\ SnmpInv'
      BY DEF FileNameInv, InputInv, CurrentJob, LoadedInv, OwnJob, OutputInv, Done, SnmpInv, Has
    <2>2. DoneInv'
      BY DEF DoneInv, PastJob, Done, CurrentJob, OwnerInv, CurInv, GenerationInv, VersionInv,
             Version, ClaimInv, ObservedInv, ReportInv, ReadyNow, Reports, Working, DeviceSteps,
             ApplySteps, Has
    <2>3. HashInv'
      BY DEF HashInv, PastJob, OwnerInv, CurInv, GenerationInv, VersionInv, Version, ClaimInv,
             ObservedInv, ReportInv, ReadyNow, Reports, Working, DeviceSteps, ApplySteps, Has
    <2> QED
      BY <2>1, <2>2, <2>3
  <1>4. ASSUME NEW n \in Names, Synced(n) PROVE ContentInv'
    BY <1>4 DEF Synced, FileNameInv, InputInv, CurrentJob, LoadedInv, OwnJob, OutputInv, Done,
                DoneInv, PastJob, Reports, ReadyNow, Working, DeviceSteps, ApplySteps, HashInv,
                SnmpInv, Has
  <1>5. ASSUME NEW n \in Names, JobSynced(n) PROVE ContentInv'
    BY <1>5 DEF JobSynced, FileNameInv, InputInv, CurrentJob, LoadedInv, OwnJob, OutputInv, Done,
                DoneInv, PastJob, Reports, ReadyNow, Working, DeviceSteps, ApplySteps, HashInv,
                SnmpInv, Has
  <1>6. ASSUME NEW n \in Names, Collected(n) PROVE ContentInv'
    BY <1>6 DEF Collected, FileNameInv, InputInv, CurrentJob, LoadedInv, OwnJob, OutputInv, Done,
                DoneInv, PastJob, ReadyNow, Reports, Working, DeviceSteps, ApplySteps, Has, HashInv,
                SnmpInv
  <1>7. ASSUME NEW n \in Names, Loaded(n) PROVE ContentInv'
    BY <1>7 DEF Loaded, SameIdentity, SameVersion, FileNameInv, InputInv, CurrentJob, LoadedInv,
                OwnJob, OutputInv, Done, DoneInv, PastJob, Reports, ReadyNow, Working, DeviceSteps,
                ApplySteps, HashInv, SnmpInv, Has
  <1>8. ASSUME NEW p \in pods, Loads(p) PROVE ContentInv'
    BY <1>8 DEF Loads, PodsAlone, Becomes, FileNameInv, PodInv, MadeForInv, InputInv, CurrentJob,
                LoadedInv, Fits, OwnJob, OutputInv, Done, DoneInv, PastJob, Reports, ReadyNow,
                Working, DeviceSteps, ApplySteps, HashInv, SnmpInv, Has
  <1>9. ASSUME NEW p \in pods, Truncates(p) PROVE ContentInv'
    <2> USE <1>9 DEF Truncates, PodsAlone, Becomes, Touches
    <2>1. FileNameInv' /\ InputInv' /\ LoadedInv' /\ OutputInv' /\ DoneInv' /\ SnmpInv'
      BY DEF FileNameInv, PodInv, MadeForInv, InputInv, CurrentJob, LoadedInv, OwnJob, OutputInv,
             Done, Straggler, PodJobInv, OwnerInv, NameInv, Has, DoneInv, PastJob, Reports,
             ReadyNow, Working, DeviceSteps, ApplySteps, SnmpInv, JobInv, CurInv, GenerationInv
    <2>2. HashInv'
      BY DEF HashInv, DoneInv, PastJob, Done, Straggler, PodInv, PodJobInv, OwnerInv, NameInv,
             ReadyNow, Reports, Working, DeviceSteps, ApplySteps, Has
    <2> QED
      BY <2>1, <2>2
  <1>10. ASSUME NEW p \in pods, Succeeds(p) PROVE ContentInv'
    <2> USE <1>10 DEF Succeeds, Ends, PodsAlone, Touches
    <2>1. FileNameInv' /\ InputInv' /\ LoadedInv'
      BY DEF FileNameInv, PodInv, MadeForInv, InputInv, CurrentJob, OwnJob, LoadedInv
    <2>2. OutputInv'
      <3> SUFFICES ASSUME NEW n \in Names, Done(n)', ~obj[n].del, obj[n].uid \notin late'
                   PROVE  Fits(snmpFile'[obj[n].uid], obj[n])
        BY DEF OutputInv, Fits
      <3>1. CASE p.name = n /\ OwnJob(p)
        BY <3>1 DEF Done, CurrentJob, OwnJob, LoadedInv, FileNameInv, Fits
      <3>2. CASE ~(p.name = n /\ OwnJob(p))
        <4>1. p.uid # obj[n].uid
          BY <3>2 DEF Straggler, PodInv, MadeForInv, OwnerInv, NameInv, Done, CurrentJob
        <4>2. Done(n)
          BY <3>2 DEF Done, CurrentJob, OwnJob
        <4> QED
          BY <4>1, <4>2 DEF OutputInv, Done, CurrentJob
      <3> QED
        BY <3>1, <3>2
    <2>3. DoneInv' /\ SnmpInv'
      BY DEF DoneInv, PastJob, Reports, ReadyNow, Done, CurrentJob, Working, DeviceSteps,
             ApplySteps, SnmpInv, Straggler, OwnJob, JobInv, OwnerInv, NameInv, CurInv,
             GenerationInv, Has
    <2>4. HashInv'
      BY DEF HashInv, DoneInv, PastJob, Done, Straggler, PodInv, PodJobInv, OwnerInv, NameInv,
             ReadyNow, Reports, Working, DeviceSteps, ApplySteps, Has
    <2> QED
      BY <2>1, <2>2, <2>3, <2>4
  <1>11. ASSUME NEW p \in pods, Breaks(p) PROVE ContentInv'
    <2> USE <1>11 DEF Breaks, Ends, PodsAlone, Touches
    <2>1. FileNameInv' /\ InputInv' /\ LoadedInv'
      BY DEF FileNameInv, PodInv, MadeForInv, InputInv, CurrentJob, OwnJob, LoadedInv
    <2>2. OutputInv' /\ SnmpInv'
      BY DEF OutputInv, Done, Straggler, CurrentJob, OwnerInv, NameInv, Has, SnmpInv, OwnJob,
             JobInv, CurInv, GenerationInv, ApplySteps
    <2>3. DoneInv'
      BY DEF DoneInv, PastJob, Done, CurrentJob, PodInv, PodJobInv, ReadyNow, Reports, Working,
             DeviceSteps, ApplySteps
    <2>4. HashInv'
      BY DEF HashInv, DoneInv, PastJob, Done, Straggler, PodInv, PodJobInv, OwnerInv, NameInv,
             ReadyNow, Reports, Working, DeviceSteps, ApplySteps, Has
    <2> QED
      BY <2>1, <2>2, <2>3, <2>4
  <1>12. ASSUME JobsDeleted PROVE ContentInv'
    <2> USE <1>12 DEF JobsDeleted, JobDropped, WorksAlone
    <2>1. FileNameInv' /\ InputInv' /\ LoadedInv' /\ OutputInv' /\ HashInv' /\ SnmpInv'
      BY DEF FileNameInv, InputInv, CurrentJob, LoadedInv, OwnJob, OutputInv, Done, HashInv,
             PastJob, Reports, ReadyNow, Working, DeviceSteps, ApplySteps, SnmpInv, Has
    <2>2. DoneInv'
      BY DEF DoneInv, PastJob, Done, CurrentJob, OwnerInv, CleanupInv, GenerationInv, VersionInv,
             Version, ClaimInv, ReadyInv, ReadyNow, Reports, Working, CleanupSteps
    <2> QED
      BY <2>1, <2>2
  <1>13. ASSUME GeneratorRemoved PROVE ContentInv'
    BY <1>13 DEF GeneratorRemoved, WorksAlone, FileNameInv, InputInv, CurrentJob, OwnerInv, NameInv,
        CurInv, CleanupInv, CleanupSteps, Has, LoadedInv, OwnJob, OutputInv, Done, DoneInv, PastJob,
        Reports, ReadyNow, Working, DeviceSteps, ApplySteps, HashInv, SnmpInv
  <1>14. ASSUME SnmpRemoved PROVE ContentInv'
    BY <1>14 DEF SnmpRemoved, WorksAlone, FileNameInv, InputInv, CurrentJob, LoadedInv, OwnJob,
        OutputInv, Done, OwnerInv, NameInv, CurInv, CleanupInv, CleanupSteps, Has, DoneInv, PastJob,
        ReadyNow, Reports, Working, HashInv, ClaimInv, ReadyInv, SnmpInv
  <1>15. ASSUME FileWritten PROVE ContentInv'
    <2> USE <1>15 DEF FileWritten, Holds, WorksAlone, SameIdentity, SameVersion
    <2>1. FileNameInv' /\ LoadedInv' /\ OutputInv' /\ DoneInv' /\ HashInv' /\ SnmpInv'
      BY DEF FileNameInv, OwnerInv, NameInv, LoadedInv, OwnJob, CurrentJob, OutputInv, Done,
             DoneInv, PastJob, Reports, ReadyNow, HashInv, SnmpInv, Has, ApplySteps
    <2>2. InputInv'
      <3>1. ASSUME NEW n \in Names, CurrentJob(n), obj[n].uid = cur.uid
            PROVE  cur.walks = obj[n].walks
        <4>1. n = cur.name
          BY <3>1 DEF CurrentJob, OwnerInv, NameInv
        <4>2. obj[n].gen <= cur.gen
          BY <3>1, <4>1 DEF CurrentJob, GenerationInv, JobInv
        <4>3. cur.gen <= obj[n].gen /\ (cur.gen = obj[n].gen => cur.walks = obj[n].walks)
          BY <3>1, <4>1 DEF CurrentJob, GenerationInv, VersionInv, Version
        <4> QED
          BY <3>1, <4>2, <4>3 DEF CurrentJob
      <3> QED
        BY <3>1 DEF InputInv, Fits, CurrentJob
    <2> QED
      BY <2>1, <2>2
  <1>16. ASSUME JobCreated PROVE ContentInv'
    <2> USE <1>16 DEF JobCreated, Holds, WorksAlone, SameIdentity, SameVersion
    <2>1. FileNameInv' /\ InputInv' /\ OutputInv' /\ HashInv' /\ SnmpInv'
      BY DEF FileNameInv, InputInv, Fits, CurrentJob, ReportInv, GenerationInv, VersionInv, Version,
             ClaimInv, Working, DeviceSteps, OutputInv, Done, HashInv, PastJob, ReadyNow, Reports,
             ApplySteps, SnmpInv, Has
    <2>2. LoadedInv'
      <3>1. Working
        BY DEF Working, DeviceSteps, OwnerInv, CleanupInv
      <3>2. \A p \in pods : ~(p.name = cur.name /\ p.uid = cur.uid /\ p.gen = cur.gen)
        BY <3>1 DEF PodInv, PodJobInv, OwnJob, Dead
      <3>3. \A p \in pods : OwnJob(p)' => OwnJob(p) /\ p.name # cur.name
        BY <3>2 DEF OwnJob
      <3> QED
        BY <3>3 DEF LoadedInv, CurrentJob
    <2>3. DoneInv'
      BY DEF DoneInv, PastJob, Done, CurrentJob, ClaimInv, ReportInv, ReadyNow, Reports, Working,
             DeviceSteps, ApplySteps
    <2> QED
      BY <2>1, <2>2, <2>3
  <1>17. ASSUME StaleDropped PROVE ContentInv'
    <2> USE <1>17 DEF StaleDropped, JobDropped, WorksAlone
    <2>1. FileNameInv' /\ InputInv' /\ LoadedInv' /\ OutputInv' /\ HashInv' /\ SnmpInv'
      BY DEF FileNameInv, InputInv, CurrentJob, LoadedInv, OwnJob, OutputInv, Done, HashInv,
             PastJob, ClaimInv, ReportInv, ReadyNow, Reports, Working, DeviceSteps, ApplySteps,
             SnmpInv, Has
    <2>2. DoneInv'
      BY DEF DoneInv, PastJob, Done, CurrentJob, OwnedJob, StaleJob, JobCacheInv, GenerationInv,
             ClaimInv, ReadyInv, ReportInv, ReadyNow, Reports, Working, DeviceSteps, ApplySteps
    <2> QED
      BY <2>1, <2>2
  <1>18. ASSUME Evaluated PROVE ContentInv'
    <2> USE <1>18 DEF Evaluated, Holds, WorksAlone, SameIdentity, SameVersion
    <2>1. FileNameInv' /\ InputInv' /\ LoadedInv' /\ OutputInv' /\ HashInv' /\ SnmpInv'
      BY DEF FileNameInv, InputInv, CurrentJob, LoadedInv, OwnJob, OutputInv, Done, HashInv,
             PastJob, ClaimInv, ReportInv, ReadyNow, Reports, Working, DeviceSteps, ApplySteps,
             SnmpInv, Has
    <2>2. DoneInv'
      BY DEF DoneInv, PastJob, Done, GoneJobInv, ResultInv, Dead, CurrentJob, PodInv, OwnedJob,
             StaleJob, JobCacheInv, OwnerInv, CurInv, GenerationInv, ClaimInv, ReportInv, ReadyNow,
             Reports, Working, DeviceSteps, ApplySteps, Has
    <2> QED
      BY <2>1, <2>2
  <1>19. ASSUME ContentRead PROVE ContentInv'
    BY <1>19 DEF ContentRead, Holds, WorksAlone, SameIdentity, SameVersion, FileNameInv, InputInv,
        CurrentJob, LoadedInv, OwnJob, OutputInv, Done, DoneInv, PastJob, Reports, ReadyNow,
        Working, DeviceSteps, ApplySteps, HashInv, SnmpInv, OwnerInv, CleanupInv, Has
  <1>20. ASSUME MergeReady PROVE ContentInv'
    BY <1>20 DEF MergeReady, WorksAlone, FileNameInv, InputInv, CurrentJob, LoadedInv, OwnJob,
        OutputInv, Done, DoneInv, PastJob, Reports, ReadyNow, Working, DeviceSteps, ApplySteps,
        HashInv, SnmpInv, Has
  <1>21. ASSUME MergeStored PROVE ContentInv'
    BY <1>21 DEF MergeStored, Holds, WorksAlone, SameIdentity, SameVersion, FileNameInv, InputInv,
        CurrentJob, LoadedInv, OwnJob, OutputInv, Done, DoneInv, PastJob, Reports, ReadyNow,
        Working, DeviceSteps, ApplySteps, HashInv, SnmpInv, Has
  <1>22. ASSUME Reloaded PROVE ContentInv'
    BY <1>22 DEF Reloaded, Holds, WorksAlone, SameIdentity, SameVersion, FileNameInv, InputInv,
        CurrentJob, LoadedInv, OwnJob, OutputInv, Done, DoneInv, PastJob, Reports, ReadyNow,
        Working, DeviceSteps, ApplySteps, HashInv, SnmpInv, Has
  <1>23. ASSUME Failed PROVE ContentInv'
    <2> USE <1>23 DEF Failed, Holds, WorksAlone, SameIdentity, SameVersion
    <2>1. FileNameInv' /\ InputInv' /\ LoadedInv' /\ OutputInv' /\ HashInv' /\ SnmpInv'
      BY DEF FileNameInv, InputInv, CurrentJob, LoadedInv, OwnJob, OutputInv, Done, HashInv,
             PastJob, ClaimInv, ReportInv, ReadyNow, Reports, Working, DeviceSteps, ApplySteps,
             CleanupSteps, SnmpInv, Has
    <2>2. DoneInv'
      BY DEF DoneInv, PastJob, Done, CurrentJob, ClaimInv, ReportInv, ReadyNow, Reports, Working,
             DeviceSteps, ApplySteps
    <2> QED
      BY <2>1, <2>2
  <1>24. ASSUME NEW n \in Names, Finalized(n) PROVE ContentInv'
    <2> USE <1>24 DEF Finalized, OthersKept, SameIdentity, SameVersion, SameStatus
    <2>1. FileNameInv' /\ InputInv' /\ LoadedInv'
      BY DEF FileNameInv, InputInv, Fits, CurrentJob, LoadedInv, OwnJob
    <2>2. OutputInv' /\ HashInv' /\ SnmpInv'
      BY DEF OutputInv, Fits, Done, CurrentJob, HashInv, PastJob, ClaimInv, ReportInv, ReadyNow,
             Reports, Working, DeviceSteps, ApplySteps, SnmpInv, OwnerInv, CurInv, CleanupInv, Has
    <2>3. DoneInv'
      BY DEF DoneInv, PastJob, Done, CurrentJob, ClaimInv, ReportInv, ReadyNow, Reports, Working,
             DeviceSteps, ApplySteps
    <2> QED
      BY <2>1, <2>2, <2>3
  <1>25. ASSUME NEW n \in Names, Stored(n) PROVE ContentInv'
    <2> USE <1>25 DEF Stored, OthersKept, SameIdentity, SameVersion, SameStatus
    <2>1. FileNameInv' /\ InputInv' /\ LoadedInv' /\ OutputInv'
      BY DEF FileNameInv, InputInv, Fits, CurrentJob, LoadedInv, OwnJob, OutputInv, Done
    <2>2. DoneInv' /\ HashInv' /\ SnmpInv'
      BY DEF DoneInv, PastJob, Reports, ReadyNow, Done, CurrentJob, Working, DeviceSteps,
             ApplySteps, HashInv, ClaimInv, ReportInv, Has, SnmpInv
    <2> QED
      BY <2>1, <2>2
  <1>26. ASSUME PatchFailed PROVE ContentInv'
    <2> USE <1>26 DEF PatchFailed, WorksAlone
    <2>1. FileNameInv' /\ InputInv' /\ LoadedInv' /\ OutputInv' /\ HashInv' /\ SnmpInv'
      BY DEF FileNameInv, InputInv, CurrentJob, LoadedInv, OwnJob, OutputInv, Done, HashInv,
             PastJob, ClaimInv, ReportInv, ReadyNow, Reports, Working, DeviceSteps, ApplySteps,
             SnmpInv, Has
    <2>2. DoneInv'
      BY DEF DoneInv, PastJob, Done, CurrentJob, ClaimInv, ReportInv, ReadyNow, Reports, Working,
             DeviceSteps, ApplySteps
    <2> QED
      BY <2>1, <2>2
  <1>27. ASSUME Restarted PROVE ContentInv'
    BY <1>27 DEF Restarted, FileNameInv, InputInv, CurrentJob, LoadedInv, OwnJob, OutputInv, Done,
        DoneInv, PastJob, Reports, ReadyNow, Working, DeviceSteps, ApplySteps, HashInv, SnmpInv, Has
  <1>28. ASSUME Quiet PROVE ContentInv'
    BY <1>28 DEF Quiet, FileNameInv, InputInv, CurrentJob, LoadedInv, OwnJob, OutputInv, Done,
        DoneInv, PastJob, Reports, ReadyNow, Working, DeviceSteps, ApplySteps, HashInv, SnmpInv, Has
  <1> QED
    BY StepCases, <1>1, <1>2, <1>3, <1>4, <1>5, <1>6, <1>7, <1>8, <1>9, <1>10, <1>11, <1>12, <1>13,
       <1>14, <1>15, <1>16, <1>17, <1>18, <1>19, <1>20, <1>21, <1>22, <1>23, <1>24, <1>25, <1>26,
       <1>27, <1>28

LEMMA ContentInit == Init => ContentInv
  BY NoneAssumption
     DEF Init, ContentInv, FileNameInv, InputInv, LoadedInv, OutputInv, DoneInv, HashInv, SnmpInv,
         PastJob, Reports, Working, DeviceSteps, ApplySteps, CurrentJob, Done, ReadyNow

-----------------------------------------------------------------------------
(* The merged file.  A merge serves every device that is Ready and has      *)
(* nothing of a name that no device with a finalizer has, and so does the   *)
(* annotation of the exporter.  Since no step but a report makes a device   *)
(* Ready, and none but the release of its finalizer makes it go, it is      *)
(* enough that the run which does so has its own device right.              *)

Faithful(x) ==
    \A n \in Names : Clean(n) =>
        /\ ReadyNow(n) => x[n] = snmpFile[obj[n].uid]
        /\ obj[n] = None \/ ~obj[n].fin => x[n] = None

\* The same for the device of the run, which is not Ready or gone yet.
Ours(x) ==
    Clean(cur.name) =>
        /\ cur.del => x[cur.name] = None
        /\ ~cur.del /\ cur.gen = obj[cur.name].gen => x[cur.name] = snmpFile[cur.uid]

\* The run is about to report Ready or to release the finalizer.
Applied == Reports \/ (pc = "patchFinalizer" /\ cur.del)

BufferInv == pc = "mergeWrite" => Faithful(buf) /\ Ours(buf)

MergedInv ==
    /\ merged # None => Faithful(merged)
    /\ pc = "reload" \/ Applied => merged # None /\ Ours(merged)
    /\ \A n \in Names : ReadyNow(n) => merged # None

\* The annotation is left out of it while the last reload was suppressed.
TemplateInv ==
    ~misled =>
        /\ template # None => Faithful(template.sha256)
        /\ Applied => template # None /\ Ours(template.sha256)
        /\ \A n \in Names : ReadyNow(n) => template # None

\* No finalizer is released before the first reload.
FirstReloadInv ==
    template = None /\ ~misled =>
        /\ \A n \in Names : cache[n] # None /\ cache[n].fin => Has(n, cache[n].uid) /\ obj[n].fin
        /\ pc \in CleanupSteps \cup DeviceSteps \cup ApplySteps
              => Has(cur.name, cur.uid) /\ obj[cur.name].fin
        /\ merged # None => \E n \in Names : obj[n] # None /\ obj[n].fin

MergeInv == BufferInv /\ MergedInv /\ TemplateInv /\ FirstReloadInv

\* Of a name that no straggler touched, at most one SNMP file has a module: that
\* of the stored device.  It is the one the merge takes.
LEMMA MergedFacts ==
    ASSUME TypeInv, ContentInv, NEW n \in Names, Clean(n)
    PROVE  /\ \A u \in Fragments(n) : Has(n, u) /\ obj[n].fin /\ MergedConfig[n] = snmpFile[u]
           /\ Fragments(n) = {} => MergedConfig[n] = None
  <1> DEFINE S == Fragments(n)
  <1>1. ASSUME NEW u \in S PROVE u \in Uids /\ Has(n, u) /\ obj[n].fin
    <2>1. u \in Uids /\ snmpFile[u] \in Config /\ snmpFile[u].name = n /\ snmpFile[u] # None
      BY NoneAssumption DEF Fragments
    <2>2. nameOf[u] = n /\ u \notin late
      BY <2>1 DEF ContentInv, FileNameInv, Clean
    <2> QED
      BY <2>1, <2>2 DEF ContentInv, SnmpInv
  <1>2. \A u, v \in S : u = v
    BY <1>1 DEF Has
  <1>3. \A u \in S : Latest(S, u)
    <2>1. \A u \in S : u \in Nat
      BY <1>1, BoundsAssumption
    <2> HIDE DEF S
    <2> QED
      BY <1>2, <2>1 DEF Latest
  <1>4. MergedConfig[n] = IF \E u \in S : Latest(S, u)
                            THEN snmpFile[CHOOSE u \in S : Latest(S, u)] ELSE None
    BY DEF MergedConfig
  <1> HIDE DEF S
  <1>5. ASSUME NEW u \in S PROVE MergedConfig[n] = snmpFile[u]
    <2>1. (CHOOSE v \in S : Latest(S, v)) \in S
      BY <1>3, <1>5
    <2>2. (CHOOSE v \in S : Latest(S, v)) = u
      BY <1>2, <1>5, <2>1
    <2> QED
      BY <1>3, <1>4, <1>5, <2>2
  <1>6. S = {} => MergedConfig[n] = None
    BY <1>4
  <1> QED
    BY <1>1, <1>5, <1>6 DEF S

\* What is read is right for every device, and for that of the run.
LEMMA MergeIsFaithful ==
    ASSUME TypeInv, OwnerInv, GenerationInv, ClaimInv, ContentInv, pc = "mergeRead"
    PROVE  Faithful(MergedConfig) /\ Ours(MergedConfig)
  <1> USE ObjectTypes, NoneAssumption
  <1>1. ASSUME NEW n \in Names, Clean(n), Has(n, obj[n].uid), Done(n), ~obj[n].del
        PROVE  MergedConfig[n] = snmpFile[obj[n].uid]
    <2>1. obj[n].uid \in Uids /\ nameOf[obj[n].uid] = n
      BY <1>1 DEF Has, OwnerInv, NameInv
    <2>2. snmpFile[obj[n].uid] \in Config
      BY <1>1, <2>1 DEF ContentInv, OutputInv, Fits, Clean
    <2>3. obj[n].uid \in Fragments(n)
      BY <2>1, <2>2 DEF ContentInv, FileNameInv, Fragments
    <2> QED
      BY <1>1, <2>3, MergedFacts
  <1>2. ASSUME NEW n \in Names, Clean(n), ReadyNow(n)
        PROVE  MergedConfig[n] = snmpFile[obj[n].uid]
    <2>1. Has(n, obj[n].uid) /\ Done(n) /\ ~obj[n].del
      BY <1>2 DEF ReadyNow, Has, ContentInv, DoneInv, ClaimInv, ReadyInv
    <2> QED
      BY <1>1, <1>2, <2>1
  <1>3. ASSUME NEW n \in Names, Clean(n), obj[n] = None \/ ~obj[n].fin
        PROVE  MergedConfig[n] = None
    BY <1>3, MergedFacts DEF Has
  <1>4. PICK m \in Names : m = cur.name
    BY DEF TypeInv, TypeOK, WorkerInv, Object
  <1>5. ASSUME Clean(m), cur.del PROVE MergedConfig[m] = None
    <2>1. cur.uid \in Uids /\ nameOf[cur.uid] = m /\ cur # None
      BY <1>4 DEF OwnerInv, NameInv
    <2>2. snmpFile[cur.uid] = None
      BY <1>5, <2>1 DEF ContentInv, SnmpInv, Clean, ApplySteps
    <2>3. \A u \in Fragments(m) : u # cur.uid
      BY <2>2 DEF Fragments
    <2>4. Fragments(m) = {}
      BY <1>4, <1>5, <2>1, <2>3, MergedFacts DEF OwnerInv, CurInv, Has
    <2> QED
      BY <1>5, <2>4, MergedFacts
  <1>6. ASSUME Clean(m), ~cur.del, cur.gen = obj[m].gen PROVE MergedConfig[m] = snmpFile[cur.uid]
    <2>1. Working /\ cur # None
      BY <1>6 DEF Working, ApplySteps
    <2>2. Has(m, cur.uid) /\ Done(m)
      BY <1>4, <1>6, <2>1 DEF OwnerInv, CurInv, Working, ContentInv, DoneInv, PastJob
    <2>3. ~obj[m].del
      BY <1>4, <1>6, <2>1, <2>2 DEF GenerationInv, VersionInv, Version, Has
    <2> QED
      BY <1>1, <1>6, <2>2, <2>3 DEF Has
  <1> QED
    BY <1>2, <1>3, <1>4, <1>5, <1>6 DEF Faithful, Ours

\* Every step keeps the merged file and the annotation faithful.
LEMMA MergeStep ==
    TypeInv /\ OwnerInv /\ GenerationInv /\ ClaimInv /\ PodInv /\ ContentInv /\ MergeInv
    /\ [Next]_vars => MergeInv'
  <1> SUFFICES ASSUME TypeInv, OwnerInv, GenerationInv, ClaimInv, PodInv, ContentInv, MergeInv, [Next]_vars
           PROVE MergeInv'
    OBVIOUS
  <1> USE ObjectTypes, FileTypes, NoneAssumption DEF MergeInv
  <1>1. ASSUME NEW n \in Names, NEW u \in Uids, NEW w \in Walks, Created(n, u, w) PROVE MergeInv'
    <2> USE <1>1 DEF Created, OthersKept
    <2>1. \A m \in Names : Clean(m)' => Clean(m)
      BY DEF Clean, ContentInv, FileNameInv, TypeInv, TypeOK
    <2>2. cur # None => cur.name \in Names /\ (cur.name = n => ~Working /\ ~Reports)
      BY DEF Working, OwnerInv, CurInv, ClaimInv, ReportInv, Has
    <2>3. BufferInv'
      BY <2>1, <2>2 DEF BufferInv, Faithful, Ours, ReadyNow, Working, ApplySteps, OwnerInv, CurInv
    <2>4. MergedInv'
      BY <2>1, <2>2 DEF MergedInv, Faithful, Ours, Applied, ReadyNow, Reports, Working, ApplySteps,
                        OwnerInv, CurInv
    <2>5. TemplateInv'
      BY <2>1, <2>2 DEF TemplateInv, Faithful, Ours, Applied, ReadyNow, Reports, OwnerInv, CurInv
    <2>6. FirstReloadInv'
      BY DEF FirstReloadInv, Has, CleanupSteps, DeviceSteps, ApplySteps
    <2> QED
      BY <2>3, <2>4, <2>5, <2>6
  <1>2. ASSUME NEW n \in Names, NEW w \in Walks, Updated(n, w) PROVE MergeInv'
    <2> USE <1>2 DEF Updated, OthersKept, SameIdentity, SameStatus
    <2>1. BufferInv'
      BY DEF BufferInv, Faithful, Ours, Clean, OwnerInv, CurInv, GenerationInv, VersionInv, Version,
             ClaimInv, ObservedInv, ReadyNow, ApplySteps, Has
    <2>2. MergedInv'
      BY DEF MergedInv, Faithful, Ours, Applied, Clean, OwnerInv, CurInv, GenerationInv, VersionInv,
             Version, ClaimInv, ObservedInv, ReportInv, ReadyNow, Reports, ApplySteps, Has
    <2>3. TemplateInv'
      BY DEF TemplateInv, Faithful, Ours, Applied, Clean, GenerationInv, VersionInv, Version,
             ClaimInv, ObservedInv, ReportInv, ReadyNow, Reports, Has
    <2>4. FirstReloadInv'
      BY DEF FirstReloadInv, Has, CleanupSteps, DeviceSteps, ApplySteps
    <2> QED
      BY <2>1, <2>2, <2>3, <2>4
  <1>3. ASSUME NEW n \in Names, Deleted(n) PROVE MergeInv'
    <2> USE <1>3 DEF Deleted, OthersKept, SameIdentity, SameStatus
    <2>1. BufferInv'
      BY DEF BufferInv, Faithful, Ours, Clean, OwnerInv, CurInv, GenerationInv, VersionInv, Version,
             ClaimInv, ObservedInv, ReadyNow, ApplySteps, Has
    <2>2. MergedInv'
      BY DEF MergedInv, Faithful, Ours, Applied, Clean, OwnerInv, CurInv, GenerationInv, VersionInv,
             Version, ClaimInv, ObservedInv, ReportInv, ReadyNow, Reports, ApplySteps, Has
    <2>3. TemplateInv'
      BY DEF TemplateInv, Faithful, Ours, Applied, Clean, GenerationInv, VersionInv, Version,
             ClaimInv, ObservedInv, ReportInv, ReadyNow, Reports, Has
    <2>4. FirstReloadInv'
      BY DEF FirstReloadInv, Has, CleanupSteps, DeviceSteps, ApplySteps
    <2> QED
      BY <2>1, <2>2, <2>3, <2>4
  <1>4. ASSUME NEW n \in Names, Synced(n) PROVE MergeInv'
    BY <1>4 DEF Synced, BufferInv, Faithful, Ours, Clean, ReadyNow, MergedInv, Applied, Reports,
                TemplateInv, FirstReloadInv, Has
  <1>5. ASSUME NEW n \in Names, JobSynced(n) PROVE MergeInv'
    BY <1>5 DEF JobSynced, BufferInv, Faithful, Ours, Clean, ReadyNow, MergedInv, Applied, Reports,
                TemplateInv, FirstReloadInv, Has
  <1>6. ASSUME NEW n \in Names, Collected(n) PROVE MergeInv'
    BY <1>6 DEF Collected, BufferInv, Faithful, Ours, Clean, ReadyNow, MergedInv, Applied, Reports,
                TemplateInv, FirstReloadInv, Has
  <1>7. ASSUME NEW n \in Names, Loaded(n) PROVE MergeInv'
    BY <1>7 DEF Loaded, SameIdentity, SameVersion, BufferInv, MergedInv, Applied, Reports, Faithful,
                Ours, Clean, ReadyNow, TemplateInv, FirstReloadInv, OwnerInv, NameInv, DeviceSteps,
                ApplySteps, CleanupSteps, Has
  <1>8. ASSUME NEW p \in pods, Loads(p) PROVE MergeInv'
    BY <1>8 DEF Loads, PodsAlone, Becomes, BufferInv, Faithful, Ours, Clean, ReadyNow, MergedInv,
                Applied, Reports, TemplateInv, FirstReloadInv, Has
  <1>9. ASSUME NEW p \in pods, Truncates(p) PROVE MergeInv'
    <2> USE <1>9 DEF Truncates, PodsAlone, Becomes, Touches
    <2>1. BufferInv'
      BY DEF BufferInv, Faithful, Ours, Clean, ContentInv, DoneInv, PastJob, Done, Straggler,
             PodInv, PodJobInv, MadeForInv, OwnerInv, NameInv, ReadyNow, Working, ApplySteps
    <2>2. MergedInv'
      BY DEF MergedInv, Faithful, Ours, Applied, Clean, ContentInv, DoneInv, PastJob, Done,
             Straggler, PodInv, PodJobInv, MadeForInv, OwnerInv, NameInv, ReadyNow, Reports,
             Working, ApplySteps
    <2>3. TemplateInv'
      BY DEF TemplateInv, Faithful, Ours, Applied, Clean, ContentInv, DoneInv, PastJob, Done,
             Straggler, PodInv, PodJobInv, MadeForInv, OwnerInv, NameInv, ReadyNow, Reports
    <2>4. FirstReloadInv'
      BY DEF FirstReloadInv, Has
    <2> QED
      BY <2>1, <2>2, <2>3, <2>4
  <1>10. ASSUME NEW p \in pods, Succeeds(p) PROVE MergeInv'
    <2> USE <1>10 DEF Succeeds, Ends, PodsAlone, Touches
    <2>1. BufferInv'
      BY DEF BufferInv, Faithful, Ours, Clean, ContentInv, DoneInv, PastJob, Done, Straggler,
             PodInv, PodJobInv, MadeForInv, OwnerInv, NameInv, ReadyNow, Working, ApplySteps
    <2>2. MergedInv'
      BY DEF MergedInv, Faithful, Ours, Applied, Clean, ContentInv, DoneInv, PastJob, Done,
             Straggler, PodInv, PodJobInv, MadeForInv, OwnerInv, NameInv, ReadyNow, Reports,
             Working, ApplySteps
    <2>3. TemplateInv'
      BY DEF TemplateInv, Faithful, Ours, Applied, Clean, ContentInv, DoneInv, PastJob, Done,
             Straggler, PodInv, PodJobInv, MadeForInv, OwnerInv, NameInv, ReadyNow, Reports
    <2>4. FirstReloadInv'
      BY DEF FirstReloadInv, Has
    <2> QED
      BY <2>1, <2>2, <2>3, <2>4
  <1>11. ASSUME NEW p \in pods, Breaks(p) PROVE MergeInv'
    <2> USE <1>11 DEF Breaks, Ends, PodsAlone, Touches
    <2>1. BufferInv'
      BY DEF BufferInv, Faithful, Ours, Clean, ContentInv, DoneInv, PastJob, Done, Straggler,
             PodInv, PodJobInv, MadeForInv, OwnerInv, NameInv, ReadyNow, Working, ApplySteps
    <2>2. MergedInv'
      BY DEF MergedInv, Faithful, Ours, Applied, Clean, ContentInv, DoneInv, PastJob, Done,
             Straggler, PodInv, PodJobInv, MadeForInv, OwnerInv, NameInv, ReadyNow, Reports,
             Working, ApplySteps
    <2>3. TemplateInv'
      BY DEF TemplateInv, Faithful, Ours, Applied, Clean, ContentInv, DoneInv, PastJob, Done,
             Straggler, PodInv, PodJobInv, MadeForInv, OwnerInv, NameInv, ReadyNow, Reports
    <2>4. FirstReloadInv'
      BY DEF FirstReloadInv, Has
    <2> QED
      BY <2>1, <2>2, <2>3, <2>4
  <1>12. ASSUME JobsDeleted PROVE MergeInv'
    BY <1>12 DEF JobsDeleted, JobDropped, WorksAlone, BufferInv, MergedInv, Applied, Reports,
        Faithful, Ours, Clean, ReadyNow, TemplateInv, FirstReloadInv, Has, CleanupSteps,
        DeviceSteps, ApplySteps
  <1>13. ASSUME GeneratorRemoved PROVE MergeInv'
    BY <1>13 DEF GeneratorRemoved, WorksAlone, BufferInv, MergedInv, Applied, Reports, Faithful,
        Ours, Clean, ReadyNow, TemplateInv, FirstReloadInv, Has, CleanupSteps, DeviceSteps,
        ApplySteps
  <1>14. ASSUME SnmpRemoved PROVE MergeInv'
    <2> USE <1>14 DEF SnmpRemoved, WorksAlone
    <2>1. BufferInv' /\ FirstReloadInv'
      BY DEF BufferInv, FirstReloadInv, Has, CleanupSteps, DeviceSteps, ApplySteps
    <2>2. MergedInv'
      BY DEF MergedInv, Faithful, Applied, Clean, OwnerInv, CleanupInv, ClaimInv, ReadyInv,
             ReadyNow, Reports, CleanupSteps
    <2>3. TemplateInv'
      BY DEF TemplateInv, Faithful, Applied, Clean, OwnerInv, CleanupInv, ClaimInv, ReadyInv,
             ReadyNow, Reports, CleanupSteps
    <2> QED
      BY <2>1, <2>2, <2>3
  <1>15. ASSUME FileWritten PROVE MergeInv'
    BY <1>15 DEF FileWritten, Holds, WorksAlone, SameIdentity, SameVersion, BufferInv, MergedInv,
        Applied, Reports, Faithful, Ours, Clean, ReadyNow, TemplateInv, FirstReloadInv, Has,
        CleanupSteps, DeviceSteps, ApplySteps
  <1>16. ASSUME JobCreated PROVE MergeInv'
    BY <1>16 DEF JobCreated, Holds, WorksAlone, SameIdentity, SameVersion, BufferInv, MergedInv,
        Faithful, Applied, Clean, ClaimInv, ReportInv, ReadyNow, Reports, TemplateInv,
        FirstReloadInv, Has, CleanupSteps, DeviceSteps, ApplySteps
  <1>17. ASSUME StaleDropped PROVE MergeInv'
    BY <1>17 DEF StaleDropped, JobDropped, WorksAlone, BufferInv, MergedInv, Faithful, Applied,
        Clean, ClaimInv, ReportInv, ReadyNow, Reports, TemplateInv, FirstReloadInv, Has,
        CleanupSteps, DeviceSteps, ApplySteps
  <1>18. ASSUME Evaluated PROVE MergeInv'
    BY <1>18 DEF Evaluated, Holds, WorksAlone, SameIdentity, SameVersion, BufferInv, MergedInv,
        Faithful, Applied, Clean, ClaimInv, ReportInv, ReadyNow, Reports, TemplateInv,
        FirstReloadInv, Has, CleanupSteps, DeviceSteps, ApplySteps
  <1>19. ASSUME ContentRead PROVE MergeInv'
    BY <1>19 DEF ContentRead, Holds, WorksAlone, SameIdentity, SameVersion, BufferInv, MergedInv,
        Applied, Reports, Faithful, Ours, Clean, ReadyNow, TemplateInv, FirstReloadInv, Has,
        CleanupSteps, DeviceSteps, ApplySteps
  <1>20. ASSUME MergeReady PROVE MergeInv'
    <2> USE <1>20 DEF MergeReady, WorksAlone
    <2>1. BufferInv'
      BY MergeIsFaithful DEF BufferInv, Faithful, Ours, Clean, ReadyNow
    <2>2. MergedInv' /\ TemplateInv' /\ FirstReloadInv'
      BY DEF MergedInv, Applied, Reports, Faithful, Ours, Clean, ReadyNow, TemplateInv,
             FirstReloadInv, Has, CleanupSteps, DeviceSteps, ApplySteps
    <2> QED
      BY <2>1, <2>2
  <1>21. ASSUME MergeStored PROVE MergeInv'
    BY <1>21 DEF MergeStored, Holds, WorksAlone, SameIdentity, SameVersion, BufferInv, MergedInv,
        Faithful, Ours, Clean, ReadyNow, TemplateInv, Applied, Reports, FirstReloadInv, Has,
        CleanupSteps, DeviceSteps, ApplySteps
  <1>22. ASSUME Reloaded PROVE MergeInv'
    <2> USE <1>22 DEF Reloaded, Holds, WorksAlone, SameIdentity, SameVersion
    <2>1. BufferInv' /\ MergedInv'
      BY DEF BufferInv, MergedInv, Applied, Reports, Faithful, Ours, Clean, ReadyNow
    <2>2. TemplateInv'
      <3> SUFFICES ASSUME ~misled' PROVE TemplateInv'
        BY DEF TemplateInv
      <3>1. template' # None /\ template'.sha256 = merged
        BY HashAssumption DEF Hash, TypeInv, TypeOK
      <3> QED
        BY <3>1
           DEF TemplateInv, MergedInv, Faithful, Ours, Applied, Clean, ContentInv, FileNameInv,
               DoneInv, PastJob, Done, Straggler, CurrentJob, PodInv, PodJobInv, OwnJob,
               MadeForInv, OwnerInv, NameInv, CacheInv, CurInv, CleanupInv, GenerationInv,
               VersionInv, Version, ClaimInv, ReadyInv, ObservedInv, ReportInv, ReadyNow, Reports,
               Working, DeviceSteps, ApplySteps, CleanupSteps, PatchSteps, Has
    <2>3. FirstReloadInv'
      <3>1. misled' \/ template' # None
        BY HashAssumption DEF TypeInv, TypeOK
      <3> QED
        BY <3>1 DEF FirstReloadInv
    <2> QED
      BY <2>1, <2>2, <2>3
  <1>23. ASSUME Failed PROVE MergeInv'
    BY <1>23 DEF Failed, Holds, WorksAlone, SameIdentity, SameVersion, BufferInv, MergedInv,
        Faithful, Ours, Applied, Clean, ClaimInv, ReportInv, ReadyNow, Reports, TemplateInv,
        FirstReloadInv, Has
  <1>24. ASSUME NEW n \in Names, Finalized(n) PROVE MergeInv'
    <2> USE <1>24 DEF Finalized, OthersKept, SameIdentity, SameVersion, SameStatus
    <2>1. BufferInv' /\ FirstReloadInv'
      BY DEF BufferInv, FirstReloadInv, TemplateInv, Applied, OwnerInv, CleanupInv, DeviceSteps,
             ApplySteps, CleanupSteps, Has
    <2>2. MergedInv'
      BY DEF MergedInv, Faithful, Ours, Applied, Clean, OwnerInv, CleanupInv, ClaimInv, ReportInv,
             ReadyNow, Reports
    <2>3. TemplateInv'
      BY DEF TemplateInv, Faithful, Ours, Applied, Clean, OwnerInv, CleanupInv, ClaimInv, ReportInv,
             ReadyNow, Reports
    <2> QED
      BY <2>1, <2>2, <2>3
  <1>25. ASSUME NEW n \in Names, Stored(n) PROVE MergeInv'
    <2> USE <1>25 DEF Stored, OthersKept, SameIdentity, SameVersion, SameStatus
    <2>1. BufferInv' /\ MergedInv' /\ FirstReloadInv'
      BY DEF BufferInv, MergedInv, Faithful, Ours, Applied, Clean, ClaimInv, ReportInv, ReadyNow,
             Reports, Has, FirstReloadInv, CleanupSteps, DeviceSteps, ApplySteps
    <2>2. TemplateInv'
      BY DEF TemplateInv, MergedInv, Faithful, Ours, Applied, Clean, ClaimInv, ReportInv, ReadyNow,
             Reports, Has
    <2> QED
      BY <2>1, <2>2
  <1>26. ASSUME PatchFailed PROVE MergeInv'
    BY <1>26 DEF PatchFailed, WorksAlone, BufferInv, MergedInv, Faithful, Applied, Clean, ClaimInv,
        ReportInv, ReadyNow, Reports, TemplateInv, FirstReloadInv, Has, CleanupSteps, DeviceSteps,
        ApplySteps
  <1>27. ASSUME Restarted PROVE MergeInv'
    BY <1>27 DEF Restarted, BufferInv, MergedInv, Applied, Reports, Faithful, Ours, Clean, ReadyNow,
        TemplateInv, FirstReloadInv, Has, CleanupSteps, DeviceSteps, ApplySteps
  <1>28. ASSUME Quiet PROVE MergeInv'
    BY <1>28 DEF Quiet, BufferInv, Faithful, Ours, Clean, ReadyNow, MergedInv, Applied, Reports,
        TemplateInv, FirstReloadInv, Has
  <1> QED
    BY StepCases, <1>1, <1>2, <1>3, <1>4, <1>5, <1>6, <1>7, <1>8, <1>9, <1>10, <1>11, <1>12, <1>13,
       <1>14, <1>15, <1>16, <1>17, <1>18, <1>19, <1>20, <1>21, <1>22, <1>23, <1>24, <1>25, <1>26,
       <1>27, <1>28

LEMMA MergeInit == Init => MergeInv
  BY DEF Init, MergeInv, BufferInv, MergedInv, TemplateInv, FirstReloadInv, Applied, Reports,
         ReadyNow, CleanupSteps, DeviceSteps, ApplySteps

LEMMA FullInvariant ==
    Spec => [](TypeInv /\ OwnerInv /\ GenerationInv /\ ClaimInv /\ PodInv /\ ContentInv /\ MergeInv)
  BY InvInit, GenerationInit, ClaimInit, PodInvInit, ContentInit, MergeInit,
     TypeStep, OwnerStep, GenerationStep, ClaimStep, PodInvStep, ContentStep, MergeStep, PTL DEF Spec

\* Ready means converged: whatever the lag of the caches and the order of runs,
\* pods and edits, a device that is Ready for its current generation has an
\* SNMP file made from its current walks, its hash, and its module in the
\* merged file.
THEOREM ReadyIsConverged == Spec => []ReadyMeansConverged
  <1>1. ASSUME TypeInv, OwnerInv, ClaimInv, ContentInv, MergeInv PROVE ReadyMeansConverged
    <2> USE ObjectTypes
    <2> SUFFICES ASSUME NEW n \in Names, ReadyNow(n), Clean(n)
                 PROVE  /\ snmpFile[obj[n].uid] \in Config
                        /\ snmpFile[obj[n].uid].name = n
                        /\ snmpFile[obj[n].uid].walks = obj[n].walks
                        /\ obj[n].hash = Hash(snmpFile[obj[n].uid])
                        /\ merged # None /\ merged[n] = snmpFile[obj[n].uid]
      BY DEF ReadyMeansConverged
    <2>1. obj[n] # None /\ obj[n].uid \in Uids /\ nameOf[obj[n].uid] = n /\ ~obj[n].del
      BY <1>1 DEF ReadyNow, OwnerInv, NameInv, ClaimInv, ReadyInv
    <2>2. obj[n].uid \notin late
      BY <2>1 DEF Clean
    <2>3. Fits(snmpFile[obj[n].uid], obj[n])
      BY <1>1, <2>1, <2>2 DEF ContentInv, DoneInv, OutputInv
    <2>4. obj[n].hash = Hash(snmpFile[obj[n].uid])
      BY <1>1, <2>2 DEF ContentInv, HashInv
    <2>5. snmpFile[obj[n].uid].name = n
      BY <1>1, <2>1, <2>3 DEF ContentInv, FileNameInv, Fits
    <2>6. merged # None /\ merged[n] = snmpFile[obj[n].uid]
      BY <1>1 DEF MergeInv, MergedInv, TemplateInv, Faithful
    <2> QED
      BY <2>3, <2>4, <2>5, <2>6 DEF Fits
  <1> QED
    BY <1>1, FullInvariant, PTL

\* A deletion leaves nothing, whatever fails and whenever the operator restarts
\* in the middle of it: no SNMP file of a device that is gone, and no module of
\* a name that nobody has in the merged file, nor, unless an old copy of the
\* Deployment suppressed the last reload, in the exporter's annotation.
THEOREM NothingIsLeft == Spec => []DeletionLeavesNothing
  <1>1. ASSUME ContentInv, MergeInv PROVE DeletionLeavesNothing
    <2>1. \A u \in Uids \ late : nameOf[u] # None /\ ~Has(nameOf[u], u) => snmpFile[u] = None
      BY <1>1 DEF ContentInv, SnmpInv
    <2>2. ASSUME NEW n \in Names, obj[n] = None, Clean(n)
          PROVE  /\ merged # None => merged[n] = None
                 /\ template # None /\ ~misled => template.sha256[n] = None
      BY <1>1, <2>2 DEF MergeInv, MergedInv, TemplateInv, Faithful
    <2> QED
      BY <2>1, <2>2 DEF DeletionLeavesNothing
  <1> QED
    BY <1>1, FullInvariant, PTL

\* The reload is not forgotten, unless it was misled: two contents that are
\* faithful to devices which are all Ready are the same, so the annotation is
\* that of the merged file.
THEOREM ReloadIsDone == Spec => []ReloadNotForgotten
  <1>1. ASSUME TypeInv, MergeInv PROVE ReloadNotForgotten
    <2> SUFFICES ASSUME merged # None, late = {}, ~misled,
                        \A n \in Names : obj[n] = None \/ ReadyNow(n)
                 PROVE  template = Hash(merged)
      BY DEF ReloadNotForgotten
    <2>1. template # None
      BY <1>1 DEF MergeInv, TemplateInv, FirstReloadInv, ReadyNow
    <2>2. PICK m \in MergedContent : template = Hash(m)
      BY <1>1, <2>1 DEF TypeInv, TypeOK
    <2>3. template.sha256 = m /\ merged \in MergedContent
      BY <1>1, <2>2 DEF Hash, TypeInv, TypeOK
    <2>4. \A n \in Names : Clean(n)
      BY DEF Clean
    <2>5. \A n \in Names : merged[n] = m[n]
      BY <1>1, <2>1, <2>3, <2>4 DEF MergeInv, MergedInv, TemplateInv, Faithful
    <2>6. merged = m
      BY <2>3, <2>5 DEF MergedContent
    <2> QED
      BY <2>2, <2>6
  <1> QED
    BY <1>1, FullInvariant, PTL

-----------------------------------------------------------------------------
(* The exporter.                                                            *)

\* A pod serves a file that was there when it started, and an annotation is
\* that of a file: once there is a merged file, there always is.
ExporterInv ==
    /\ exporter \in [ann : {Hash(m) : m \in MergedContent} \cup {None},
                     config : MergedContent \cup {None}]
    /\ template # None => merged # None
    /\ exporter.ann # None => merged # None /\ exporter.config # None

LEMMA MergedStays ==
    ASSUME TypeInv, [Next]_vars
    PROVE  /\ merged # None => merged' # None
           /\ template' # template => merged # None
  <1>1. CASE UNCHANGED <<merged, template>>
    BY <1>1
  <1>2. ASSUME MergeWrite PROVE merged' # None /\ template' = template
    BY <1>2 DEF MergeWrite, TypeInv, WorkerInv
  <1>3. ASSUME ReconcileExporterReload PROVE merged # None /\ merged' = merged
    BY <1>3 DEF ReconcileExporterReload, ReloadTo, TypeInv, WorkerInv, files
  <1>4. ASSUME User \/ Cluster \/ PodStep \/ Fault PROVE UNCHANGED <<merged, template>>
    BY <1>4 DEF User, UserCreate, UserUpdate, UserDelete, RotateAuth, Cluster, CacheSync,
         JobCacheSync, TemplateCacheSync, Resync, CollectJob, PodStep, PodLoad, PodNoInput, PodTruncate, PodWrite,
         Fault, ReconcileFails, PatchFails, Crash, PodFail, PodKill, files
  <1>5. ASSUME NEW n \in Names, Reconcile(n) PROVE UNCHANGED <<merged, template>>
    BY <1>5 DEF Reconcile, outside, files
  <1>6. ASSUME Step, ~MergeWrite, ~ReconcileExporterReload PROVE UNCHANGED <<merged, template>>
    BY <1>6 DEF Step, DeleteOwnedJobs, RemoveGeneratorFile, RemoveSnmpFile, ReconcileGeneratorFile,
         CreateGeneratorJob, EvaluateStaleJob, EvaluateGeneratorJob, ReconcileSNMPFileContent,
         MergeRead, PatchFinalizer, PatchStatus, outside, files
  <1>7. CASE UNCHANGED vars
    BY <1>1, <1>7 DEF vars, files
  <1> QED
    BY <1>1, <1>2, <1>3, <1>4, <1>5, <1>6, <1>7 DEF Next

LEMMA ExporterStep == TypeInv /\ ExporterInv /\ [ENext]_evars => ExporterInv'
  <1> SUFFICES ASSUME TypeInv, ExporterInv, [ENext]_evars PROVE ExporterInv'
    OBVIOUS
  <1> USE NoneAssumption DEF ExporterInv
  <1>1. CASE Next /\ UNCHANGED exporter
    BY <1>1, MergedStays
  <1>2. CASE ExporterRollout \/ ExporterRestart
    <2>1. /\ template \in {Hash(m) : m \in MergedContent} \cup {None}
          /\ merged \in MergedContent \cup {None} /\ UNCHANGED <<merged, template>>
      BY <1>2 DEF ExporterRollout, ExporterRestart, TypeInv, TypeOK, vars, files
    <2>2. CASE ExporterRollout
      BY <2>1, <2>2 DEF ExporterRollout
    <2>3. CASE ExporterRestart
      BY <2>1, <2>3 DEF ExporterRestart
    <2> QED
      BY <1>2, <2>2, <2>3
  <1>3. CASE UNCHANGED evars
    BY <1>3 DEF evars, vars, files
  <1> QED
    BY <1>1, <1>2, <1>3 DEF ENext

\* What the exporter serves is what its annotation says, the annotation is
\* the current one, and that one is faithful to every device unless the last
\* reload was misled: so a Ready device is served and one that is gone is not.
THEOREM RolledOutIsServed == ESpec => []RolledOutServes
  <1>1. EInit => Init /\ ExporterInv
    BY NoneAssumption DEF EInit, Init, ExporterInv
  <1>2. [ENext]_evars => [Next]_vars
    BY DEF ENext, evars, ExporterRollout, ExporterRestart
  <1>3. ASSUME TypeInv, MergeInv, ExporterInv PROVE RolledOutServes
    <2> SUFFICES ASSUME exporter.ann = template, ~Raced, ~misled, NEW n \in Names, Clean(n)
                 PROVE  /\ ReadyNow(n) => Served(n)
                        /\ obj[n] = None => exporter.config = None \/ exporter.config[n] = None
      BY DEF RolledOutServes
    <2>1. exporter.config # None => template # None /\ template.sha256 = exporter.config
      BY <1>3, HashAssumption DEF Raced, Hash, ExporterInv
    <2>2. ASSUME ReadyNow(n) PROVE Served(n)
      <3>1. template # None /\ exporter.config # None
        BY <1>3, <2>2 DEF MergeInv, TemplateInv, ExporterInv
      <3> QED
        BY <1>3, <2>1, <2>2, <3>1 DEF MergeInv, TemplateInv, Faithful, Served, ReadyNow
    <2>3. ASSUME obj[n] = None, exporter.config # None PROVE exporter.config[n] = None
      BY <1>3, <2>1, <2>3 DEF MergeInv, TemplateInv, Faithful
    <2> QED
      BY <2>2, <2>3
  <1>4. ESpec => Spec
    BY <1>1, <1>2, PTL DEF ESpec, Spec
  <1>5. ESpec => []ExporterInv
    <2>1. ESpec => []TypeInv
      BY <1>4, FullInvariant, PTL
    <2> QED
      BY <1>1, <2>1, ExporterStep, PTL DEF ESpec
  <1> QED
    BY <1>3, <1>4, <1>5, FullInvariant, PTL
=============================================================================
