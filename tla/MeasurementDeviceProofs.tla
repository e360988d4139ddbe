----------------------- MODULE MeasurementDeviceProofs -----------------------
(***************************************************************************)
(* Proofs about MeasurementDevice for every number of devices, UIDs and    *)
(* generations, and however many crashes, failures and rotations.          *)
(***************************************************************************)
EXTENDS MeasurementDevice, TLAPS

\* What the worker holds at each step: an object while it runs, a merge to
\* write, a merged file to hash.
WorkerInv ==
    /\ pc = "idle" <=> cur = None
    /\ pc = "mergeWrite" => buf # None
    /\ pc = "reload" => merged # None

\* Every device is stored, cached and held in memory under its own name.
NameInv ==
    /\ \A n \in Names : obj[n] # None => obj[n].name = n /\ nameOf[obj[n].uid] = n
    /\ \A n \in Names : cache[n] # None => cache[n].name = n /\ nameOf[cache[n].uid] = n
    /\ cur # None => nameOf[cur.uid] = cur.name

\* An object being deleted has the finalizer, or it would be gone.
ObjectInv == \A n \in Names : obj[n] # None /\ obj[n].del => obj[n].fin

\* What a cached device says about the stored one.  A live device with the
\* finalizer is still stored, with the finalizer.  A device being deleted is
\* still being deleted, or gone; and whatever has taken its name has no
\* finalizer yet.
CacheInv ==
    \A n \in Names : cache[n] # None =>
        /\ cache[n].fin /\ ~cache[n].del => Has(n, cache[n].uid) /\ obj[n].fin
        /\ cache[n].del /\ Has(n, cache[n].uid) => obj[n].del
        /\ cache[n].del /\ obj[n] # None /\ obj[n].uid # cache[n].uid => ~obj[n].fin

\* The same for the device in the worker's memory.
CurInv ==
    cur # None =>
        /\ ~cur.del /\ pc \in DeviceSteps \cup ApplySteps => Has(cur.name, cur.uid) /\ obj[cur.name].fin
        /\ cur.del /\ Has(cur.name, cur.uid) => obj[cur.name].del
        /\ cur.del /\ obj[cur.name] # None /\ obj[cur.name].uid # cur.uid => ~obj[cur.name].fin
        /\ cur.del /\ cache[cur.name] # None /\ cache[cur.name].uid = cur.uid => cache[cur.name].del
        /\ ~cur.del /\ cache[cur.name] # None /\ cache[cur.name].del
              => Has(cur.name, cache[cur.name].uid)

\* How far the worker is with a deletion.
CleanupInv ==
    /\ pc \in CleanupSteps => cur.del
    /\ pc \in DeviceSteps => ~cur.del
    /\ pc = "patchFinalizer" => (cur.fin <=> ~cur.del)
    /\ pc \in ApplySteps \cup {"removeSnmp", "patchFinalizer"} /\ cur.del => genFile[cur.uid] = None

\* GeneratorFilesOwned with the name of the owner.
FileInv ==
    \A u \in Uids : genFile[u] # None =>
        nameOf[u] # None /\ Has(nameOf[u], u) /\ obj[nameOf[u]].fin

TypeInv == TypeOK /\ WorkerInv

OwnerInv == NameInv /\ ObjectInv /\ CacheInv /\ CurInv /\ CleanupInv /\ FileInv

-----------------------------------------------------------------------------
(* Types.                                                                   *)

\* Changing fields of a device in memory or in the store keeps its type.
LEMMA FieldTypes ==
    ASSUME NEW o \in Object, NEW q \in Object
    PROVE  /\ \A v \in Conditions : [o EXCEPT !.generated = v] \in Object
           /\ \A v \in Conditions : [o EXCEPT !.applied = v] \in Object
           /\ \A b \in BOOLEAN : [o EXCEPT !.fin = b] \in Object
           /\ [o EXCEPT !.del = TRUE, !.gen = @ + 1] \in Object
           /\ \A w \in Walks : [o EXCEPT !.walks = w, !.gen = @ + 1] \in Object
           /\ \A b \in BOOLEAN : [o EXCEPT !.ready = "Unknown", !.fin = b] \in Object
           /\ [o EXCEPT !.applied = "True", !.fin = FALSE] \in Object
           /\ [o EXCEPT !.applied = "True", !.ready = "True"] \in Object
           /\ \A c \in FileContent : [o EXCEPT !.hash = Hash(c), !.generated = "True"] \in Object
           /\ [o EXCEPT !.ready = q.ready, !.generated = q.generated,
                        !.applied = q.applied, !.hash = q.hash, !.observed = q.gen] \in Object
  <1>1. \A v \in Conditions : [o EXCEPT !.generated = v] \in Object
    BY DEF Object
  <1>2. \A v \in Conditions : [o EXCEPT !.applied = v] \in Object
    BY DEF Object
  <1>3. \A b \in BOOLEAN : [o EXCEPT !.fin = b] \in Object
    BY DEF Object
  <1>0. /\ o.gen \in Nat
        /\ o.gen + 1 \in Nat
    BY DEF Object
  <1>4. [o EXCEPT !.del = TRUE, !.gen = @ + 1] \in Object
    <2>1. \A g \in Nat : [o EXCEPT !.del = TRUE, !.gen = g] \in Object
      BY DEF Object
    <2> QED BY <2>1, <1>0
  <1>5. \A w \in Walks : [o EXCEPT !.walks = w, !.gen = @ + 1] \in Object
    <2>1. \A w \in Walks, g \in Nat : [o EXCEPT !.walks = w, !.gen = g] \in Object
      BY DEF Object
    <2> QED BY <2>1, <1>0
  <1>6. \A b \in BOOLEAN : [o EXCEPT !.ready = "Unknown", !.fin = b] \in Object
    BY DEF Object, Conditions
  <1>7. [o EXCEPT !.applied = "True", !.fin = FALSE] \in Object
    BY DEF Object, Conditions
  <1>8. [o EXCEPT !.applied = "True", !.ready = "True"] \in Object
    BY DEF Object, Conditions
  <1>9. \A c \in FileContent : [o EXCEPT !.hash = Hash(c), !.generated = "True"] \in Object
    BY DEF Object, Conditions
  <1>10. [o EXCEPT !.ready = q.ready, !.generated = q.generated,
                   !.applied = q.applied, !.hash = q.hash, !.observed = q.gen] \in Object
    BY DEF Object
  <1> QED
    BY <1>1, <1>2, <1>3, <1>4, <1>5, <1>6, <1>7, <1>8, <1>9, <1>10

LEMMA SpentTypes ==
    ASSUME spent \in Spendings
    PROVE  /\ [spent EXCEPT !.delete = @ + 1] \in Spendings
           /\ [spent EXCEPT !.crash = @ + 1] \in Spendings
           /\ [spent EXCEPT !.fault = @ + 1] \in Spendings
           /\ [spent EXCEPT !.pod = @ + 1] \in Spendings
  <1>1. \A k \in Nat : /\ [spent EXCEPT !.delete = k] \in Spendings
                       /\ [spent EXCEPT !.crash = k] \in Spendings
                       /\ [spent EXCEPT !.fault = k] \in Spendings
                       /\ [spent EXCEPT !.pod = k] \in Spendings
    BY DEF Spendings
  <1>2. /\ spent.delete + 1 \in Nat /\ spent.crash + 1 \in Nat
        /\ spent.fault + 1 \in Nat /\ spent.pod + 1 \in Nat
    BY DEF Spendings
  <1> QED
    BY <1>1, <1>2

\* While the worker runs it holds an object.
LEMMA CurType ==
    ASSUME TypeInv, pc # "idle"
    PROVE  /\ cur \in Object
           /\ cur.name \in Names /\ cur.uid \in Uids /\ cur.gen \in Nat /\ cur.walks \in Walks
           /\ cur.del \in BOOLEAN /\ cur.fin \in BOOLEAN
  <1>1. cur \in Object
    BY DEF TypeInv, TypeOK, WorkerInv
  <1> QED
    BY <1>1 DEF Object

\* Every step keeps the types, and what the worker holds at each step.
LEMMA TypeStep == TypeInv /\ [Next]_vars => TypeInv'
  <1> SUFFICES ASSUME TypeInv, [Next]_vars PROVE TypeInv'
    OBVIOUS
  <1> USE NoneAssumption DEF TypeInv, TypeOK, WorkerInv
  <1>1. ASSUME NEW n \in Names, NEW u \in Uids, NEW w \in Walks, UserCreate(n, u, w) PROVE TypeInv'
    BY <1>1 DEF UserCreate, Object, Conditions, caches, files, worker
  <1>2. ASSUME NEW n \in Names, NEW w \in Walks, UserUpdate(n, w) PROVE TypeInv'
    BY <1>2, FieldTypes DEF UserUpdate, caches, files, worker
  <1>3. ASSUME NEW n \in Names, UserDelete(n) PROVE TypeInv'
    BY <1>3, SpentTypes, FieldTypes DEF UserDelete, caches, files, worker
  <1>4. ASSUME RotateAuth PROVE TypeInv'
    BY <1>4, BoundsAssumption DEF RotateAuth, caches, files, worker
  <1>5. ASSUME NEW n \in Names, CollectJob(n) PROVE TypeInv'
    BY <1>5 DEF CollectJob, caches, files, worker
  <1>6. ASSUME NEW n \in Names, CacheSync(n) PROVE TypeInv'
    BY <1>6 DEF CacheSync, api, files
  <1>7. ASSUME NEW n \in Names, JobCacheSync(n) PROVE TypeInv'
    BY <1>7 DEF JobCacheSync, api, files
  <1>7a. ASSUME NEW n \in Names, Resync(n) PROVE TypeInv'
    BY <1>7a DEF Resync, api, caches, files
  <1>8. ASSUME NEW p \in pods, PodLoad(p) PROVE TypeInv'
    BY <1>8 DEF PodLoad, Pod, api, caches, files, worker
  <1>9. ASSUME NEW p \in pods, PodNoInput(p) PROVE TypeInv'
    BY <1>9 DEF PodNoInput, PodEnds, OwnJob, Pod, JobObject, caches, files, worker
  <1>10. ASSUME NEW p \in pods, PodTruncate(p) PROVE TypeInv'
    BY <1>10 DEF PodTruncate, NoteLate, Pod, FileContent, api, caches, worker
  <1>11. ASSUME NEW p \in pods, PodWrite(p) PROVE TypeInv'
    BY <1>11 DEF PodWrite, PodEnds, OwnJob, NoteLate, Pod, JobObject, FileContent, caches, worker
  <1>12. ASSUME NEW p \in pods, PodFail(p) PROVE TypeInv'
    BY <1>12, SpentTypes
       DEF PodFail, PodEnds, OwnJob, NoteLate, Pod, JobObject, FileContent, caches, worker
  <1>13. ASSUME NEW p \in pods, PodKill(p) PROVE TypeInv'
    BY <1>13 DEF PodKill, api, caches, files, worker
  <1>14. ASSUME NEW n \in Names, Reconcile(n) PROVE TypeInv'
    <2>1. CASE cache[n] = None
      BY <1>14, <2>1 DEF Reconcile, outside, caches, files
    <2>2. CASE cache[n] # None
      <3>1. cache[n] \in Object
        BY <2>2
      <3>2. cur' \in Object
        BY <1>14, <2>2, <3>1, FieldTypes DEF Reconcile
      <3>3. pc' \in {"deleteJobs", "patchStatus", "patchFinalizer", "generatorFile"}
        BY <1>14, <2>2, <3>1 DEF Reconcile, FirstStep, Object
      <3> QED
        BY <1>14, <2>2, <3>2, <3>3
           DEF Reconcile, outside, caches, files, Labels, CleanupSteps, DeviceSteps, PatchSteps
    <2> QED
      BY <2>1, <2>2
  <1>15. ASSUME DeleteOwnedJobs PROVE TypeInv'
    BY <1>15, CurType
       DEF DeleteOwnedJobs, DeleteJob, Continue, Labels, CleanupSteps, ApplySteps, DeviceSteps,
           PatchSteps, caches, files
  <1>16. ASSUME RemoveGeneratorFile PROVE TypeInv'
    BY <1>16, CurType
       DEF RemoveGeneratorFile, Continue, Labels, CleanupSteps, ApplySteps, DeviceSteps,
           PatchSteps, api, caches
  <1>17. ASSUME RemoveSnmpFile PROVE TypeInv'
    BY <1>17, CurType
       DEF RemoveSnmpFile, Continue, Labels, CleanupSteps, ApplySteps, DeviceSteps, PatchSteps,
           FileContent, api, caches
  <1>18. ASSUME ReconcileGeneratorFile PROVE TypeInv'
    <2>1. cur \in Object
      BY <1>18, CurType DEF ReconcileGeneratorFile
    <2>2. cur' \in Object
      BY <1>18, <2>1, FieldTypes DEF ReconcileGeneratorFile, SetGenerated, Conditions
    <2> QED
      BY <1>18, <2>2, CurType
         DEF ReconcileGeneratorFile, DesiredGeneratorConfig, Continue, Config, Labels,
             CleanupSteps, ApplySteps, DeviceSteps, PatchSteps, api, caches
  <1>19. ASSUME CreateGeneratorJob PROVE TypeInv'
    <2>1. cur \in Object
      BY <1>19, CurType DEF CreateGeneratorJob
    <2>2. cur' \in Object
      BY <1>19, <2>1, FieldTypes DEF CreateGeneratorJob, SetGenerated, Conditions
    <2> QED
      BY <1>19, <2>2, CurType
         DEF CreateGeneratorJob, Stop, StepError, JobObject, Pod, Labels, CleanupSteps, ApplySteps,
             DeviceSteps, PatchSteps, caches, files
  <1>20. ASSUME EvaluateStaleJob PROVE TypeInv'
    BY <1>20, CurType
       DEF EvaluateStaleJob, DeleteJob, Stop, Labels, CleanupSteps, ApplySteps, DeviceSteps,
           PatchSteps, caches, files
  <1>21. ASSUME EvaluateGeneratorJob PROVE TypeInv'
    <2>1. cur \in Object
      BY <1>21, CurType DEF EvaluateGeneratorJob
    <2>2. cur' \in Object
      BY <1>21, <2>1, FieldTypes DEF EvaluateGeneratorJob, SetGenerated, Conditions
    <2> QED
      BY <1>21, <2>2, CurType
         DEF EvaluateGeneratorJob, Stop, Continue, Labels, CleanupSteps, ApplySteps, DeviceSteps,
             PatchSteps, outside, caches, files
  <1>22. ASSUME ReconcileSNMPFileContent PROVE TypeInv'
    <2>1. cur \in Object
      BY <1>22, CurType DEF ReconcileSNMPFileContent
    <2>2. cur' \in Object
      <3>1. snmpFile[cur.uid] \in FileContent
        BY <2>1 DEF Object
      <3>2. /\ [cur EXCEPT !.generated = "False"] \in Object
            /\ [cur EXCEPT !.hash = Hash(snmpFile[cur.uid]), !.generated = "True"] \in Object
        BY <2>1, <3>1, FieldTypes DEF Conditions
      <3> QED
        BY <1>22, <3>2 DEF ReconcileSNMPFileContent, SetGenerated
    <2> QED
      BY <1>22, <2>2, CurType
         DEF ReconcileSNMPFileContent, StepError, Continue, Labels, CleanupSteps, ApplySteps,
             DeviceSteps, PatchSteps, outside, caches, files
  <1>23. ASSUME MergeRead PROVE TypeInv'
    <2>1. cur \in Object
      BY <1>23, CurType DEF MergeRead
    <2>2. cur' \in Object
      BY <1>23, <2>1, FieldTypes DEF MergeRead, SetApplied, Conditions
    <2>3. MergedConfig \in MergedContent
      BY DEF MergedConfig, Fragments, MergedContent
    <2> QED
      BY <1>23, <2>2, <2>3, CurType
         DEF MergeRead, StepError, Continue, Labels, CleanupSteps, ApplySteps, DeviceSteps,
             PatchSteps, outside, caches, files
  <1>24. ASSUME MergeWrite PROVE TypeInv'
    <2>1. cur \in Object
      BY <1>24, CurType DEF MergeWrite
    <2>2. cur' \in Object
      BY <1>24, <2>1, FieldTypes DEF MergeWrite, SetApplied, Conditions
    <2> QED
      BY <1>24, <2>2, CurType
         DEF MergeWrite, Continue, Labels, CleanupSteps, ApplySteps, DeviceSteps, PatchSteps, api,
             caches
  <1>25. ASSUME ReconcileExporterReload PROVE TypeInv'
    <2>1. cur \in Object
      BY <1>25, CurType DEF ReconcileExporterReload, ReloadTo
    <2>2. cur' \in Object
      BY <1>25, <2>1, FieldTypes DEF ReconcileExporterReload, ReloadTo
    <2> QED
      BY <1>25, <2>2, CurType
         DEF ReconcileExporterReload, ReloadTo, Stop, Continue, Labels, CleanupSteps, ApplySteps,
             DeviceSteps, PatchSteps, api, caches, files
  <1>26. ASSUME ReconcileFails PROVE TypeInv'
    <2>1. cur \in Object
      BY <1>26, CurType DEF ReconcileFails, CleanupSteps, ApplySteps, DeviceSteps
    <2>2. cur' \in Object
      BY <1>26, <2>1, FieldTypes
         DEF ReconcileFails, SetGenerated, SetApplied, Conditions, CleanupSteps, ApplySteps,
             DeviceSteps
    <2> QED
      BY <1>26, <2>2, SpentTypes, CurType
         DEF ReconcileFails, StepError, Labels, CleanupSteps, ApplySteps, DeviceSteps, PatchSteps,
             api, caches, files
  <1>27. ASSUME PatchFinalizer PROVE TypeInv'
    BY <1>27, FieldTypes, CurType
       DEF PatchFinalizer, RetryMissing, Labels, CleanupSteps, ApplySteps, DeviceSteps, PatchSteps,
           caches, files
  <1>28. ASSUME PatchStatus PROVE TypeInv'
    BY <1>28, FieldTypes, CurType
       DEF PatchStatus, RetryMissingStatus, StatusOf, Labels, CleanupSteps, ApplySteps, DeviceSteps,
           PatchSteps, caches, files
  <1>29. ASSUME PatchFails PROVE TypeInv'
    BY <1>29, CurType, SpentTypes
       DEF PatchFails, Labels, CleanupSteps, ApplySteps, DeviceSteps, PatchSteps, api, caches,
           files
  <1>30. ASSUME Crash PROVE TypeInv'
    BY <1>30, SpentTypes DEF Crash, Labels, api, files
  <1>31. CASE UNCHANGED vars
    BY <1>31 DEF vars
  <1>32. ASSUME TemplateCacheSync PROVE TypeInv'
    BY <1>32 DEF TemplateCacheSync, api, files, worker
  <1> QED
    BY <1>32, <1>1, <1>2, <1>3, <1>4, <1>5, <1>6, <1>7, <1>7a, <1>8, <1>9, <1>10, <1>11, <1>12,
       <1>13, <1>14, <1>15, <1>16, <1>17, <1>18, <1>19, <1>20, <1>21, <1>22, <1>23, <1>24, <1>25,
       <1>26, <1>27, <1>28, <1>29, <1>30, <1>31
       DEF Next, User, Step, PodStep, Cluster, Fault

LEMMA TypeInit == Init => TypeInv
  <1> SUFFICES ASSUME Init PROVE TypeInv
    OBVIOUS
  <1>1. misled \in BOOLEAN
    BY DEF Init
  <1>2. spent \in Spendings
    BY DEF Init, Spendings
  <1>3. obj \in [Names -> Object \cup {None}] /\ job \in [Names -> JobObject \cup {None}]
    BY DEF Init
  <1>4. cache \in [Names -> Object \cup {None}] /\ jobCache \in [Names -> JobObject \cup {None}]
    BY <1>3 DEF Init
  <1>5. nameOf \in [Uids -> Names \cup {None}] /\ auth \in 0 .. MaxRotations
    BY BoundsAssumption DEF Init
  <1>6. genFile \in [Uids -> Config \cup {None}] /\ snmpFile \in [Uids -> FileContent]
    BY DEF Init, FileContent
  <1>7. pc \in Labels
    BY DEF Init, Labels
  <1> QED
    BY <1>1, <1>2, <1>3, <1>4, <1>5, <1>6, <1>7 DEF Init, TypeInv, TypeOK, WorkerInv

\* Types: the state of the controller, the volume and the cluster stays well
\* formed, whatever the order of users, caches, pods, errors and crashes.
THEOREM TypeCorrect == Spec => []TypeOK
  <1>1. TypeInv => TypeOK
    BY DEF TypeInv
  <1> QED
    BY <1>1, TypeInit, TypeStep, PTL DEF Spec

-----------------------------------------------------------------------------
(* Generator files.  GeneratorFilesOwned is not inductive: whether a file   *)
(* may be written, or a finalizer dropped, is decided from a cached object  *)
(* that may be old.  OwnerInv adds what an old object still says.           *)

\* OwnerInv speaks of the store, the cache, the generator files and the worker.
LEMMA OwnerFrame ==
    ASSUME OwnerInv, UNCHANGED <<obj, cache, nameOf, genFile, pc, cur>>
    PROVE  OwnerInv'
  BY DEF OwnerInv, NameInv, ObjectInv, CacheInv, CurInv, CleanupInv, FileInv, Has

LEMMA OwnerStep == TypeInv /\ OwnerInv /\ [Next]_vars => OwnerInv'
  <1> SUFFICES ASSUME TypeInv, OwnerInv, [Next]_vars PROVE OwnerInv'
    OBVIOUS
  <1> USE NoneAssumption
  <1>1. ASSUME NEW n \in Names, NEW u \in Uids, NEW w \in Walks, UserCreate(n, u, w) PROVE OwnerInv'
    BY <1>1
       DEF UserCreate, OwnerInv, NameInv, ObjectInv, CacheInv, CurInv, CleanupInv, FileInv, Has,
           TypeInv, TypeOK, WorkerInv, Object, CleanupSteps, ApplySteps, DeviceSteps, PatchSteps,
           caches, files, worker
  <1>2. ASSUME NEW n \in Names, NEW w \in Walks, UserUpdate(n, w) PROVE OwnerInv'
    BY <1>2
       DEF UserUpdate, OwnerInv, NameInv, ObjectInv, CacheInv, CurInv, CleanupInv, FileInv, Has,
           TypeInv, TypeOK, WorkerInv, Object, caches, files, worker
  <1>3. ASSUME NEW n \in Names, UserDelete(n) PROVE OwnerInv'
    <2>1. \A m \in Names : m # n => obj'[m] = obj[m]
      BY <1>3 DEF UserDelete, TypeInv, TypeOK
    <2>2. obj[n] \in Object /\ ~obj[n].del
      BY <1>3 DEF UserDelete, TypeInv, TypeOK
    <2>3. obj[n].fin => /\ obj'[n] # None
                        /\ obj'[n].name = obj[n].name /\ obj'[n].uid = obj[n].uid
                        /\ obj'[n].fin /\ obj'[n].del
      <3> HAVE obj[n].fin
      <3>1. obj'[n] = [obj[n] EXCEPT !.del = TRUE, !.gen = @ + 1]
        BY <1>3 DEF UserDelete, TypeInv, TypeOK
      <3>2. obj'[n] \in Object
        BY <2>2, <3>1, FieldTypes
      <3> QED
        BY <2>2, <3>1, <3>2 DEF Object
    <2>4. ~obj[n].fin => obj'[n] = None
      BY <1>3 DEF UserDelete, TypeInv, TypeOK
    <2> QED
      BY <1>3, <2>1, <2>2, <2>3, <2>4
         DEF UserDelete, OwnerInv, NameInv, ObjectInv, CacheInv, CurInv, CleanupInv, FileInv, Has,
             TypeInv, TypeOK, WorkerInv, Object, caches, files, worker
  <1>4. ASSUME RotateAuth PROVE OwnerInv'
    BY <1>4, OwnerFrame
       DEF RotateAuth, caches, files, worker
  <1>5. ASSUME NEW n \in Names, CollectJob(n) PROVE OwnerInv'
    BY <1>5, OwnerFrame
       DEF CollectJob, caches, files, worker
  <1>6. ASSUME NEW n \in Names, CacheSync(n) PROVE OwnerInv'
    BY <1>6
       DEF CacheSync, OwnerInv, NameInv, ObjectInv, CacheInv, CurInv, CleanupInv, FileInv, Has,
           TypeInv, TypeOK, WorkerInv, Object, api, files
  <1>7. ASSUME NEW n \in Names, JobCacheSync(n) PROVE OwnerInv'
    BY <1>7, OwnerFrame
       DEF JobCacheSync, api, files
  <1>7a. ASSUME NEW n \in Names, Resync(n) PROVE OwnerInv'
    BY <1>7a, OwnerFrame
       DEF Resync, api, caches, files
  <1>8. ASSUME NEW p \in pods, PodLoad(p) PROVE OwnerInv'
    BY <1>8, OwnerFrame
       DEF PodLoad, api, caches, files, worker
  <1>9. ASSUME NEW p \in pods, PodNoInput(p) PROVE OwnerInv'
    BY <1>9, OwnerFrame
       DEF PodNoInput, caches, files, worker
  <1>10. ASSUME NEW p \in pods, PodTruncate(p) PROVE OwnerInv'
    BY <1>10, OwnerFrame
       DEF PodTruncate, api, caches, worker
  <1>11. ASSUME NEW p \in pods, PodWrite(p) PROVE OwnerInv'
    BY <1>11, OwnerFrame
       DEF PodWrite, caches, worker
  <1>12. ASSUME NEW p \in pods, PodFail(p) PROVE OwnerInv'
    BY <1>12, OwnerFrame
       DEF PodFail, caches, worker
  <1>13. ASSUME NEW p \in pods, PodKill(p) PROVE OwnerInv'
    BY <1>13, OwnerFrame
       DEF PodKill, api, caches, files, worker
  <1>14. ASSUME NEW n \in Names, Reconcile(n) PROVE OwnerInv'
    <2>1. CASE cache[n] = None
      BY <1>14, <2>1, OwnerFrame DEF Reconcile, outside, caches, files
    <2>2. CASE cache[n] # None
      <3>1. cache[n] \in Object
        BY <2>2 DEF TypeInv, TypeOK
      <3>2. /\ cur' # None
            /\ cur'.name = n /\ cur'.uid = cache[n].uid /\ cur'.del = cache[n].del
            /\ cur'.fin = (cache[n].fin \/ ~cache[n].del)
        <4>1. cur' = [cache[n] EXCEPT !.ready = "Unknown", !.fin = cache[n].fin \/ ~cache[n].del]
          BY <1>14, <2>2 DEF Reconcile
        <4>2. cur' \in Object
          BY <3>1, <4>1, FieldTypes
        <4> QED
          BY <2>2, <3>1, <4>1, <4>2 DEF Object, OwnerInv, NameInv
      <3>3. /\ cache[n].del /\ cache[n].fin   => pc' = "deleteJobs"
            /\ cache[n].del /\ ~cache[n].fin  => pc' = "patchStatus"
            /\ ~cache[n].del /\ ~cache[n].fin => pc' = "patchFinalizer"
            /\ ~cache[n].del /\ cache[n].fin  => pc' = "generatorFile"
        BY <1>14, <2>2, <3>1 DEF Reconcile, FirstStep, Object
      <3>4. UNCHANGED <<obj, cache, nameOf, genFile>>
        BY <1>14 DEF Reconcile, outside, caches, files
      <3>5. (NameInv /\ ObjectInv /\ CacheInv /\ FileInv)'
        BY <2>2, <3>2, <3>4 DEF OwnerInv, NameInv, ObjectInv, CacheInv, FileInv, Has
      <3>6. CurInv'
        BY <2>2, <3>1, <3>2, <3>3, <3>4
           DEF OwnerInv, CacheInv, CurInv, Has, Object, CleanupSteps, ApplySteps, DeviceSteps
      <3>7. CleanupInv'
        BY <3>1, <3>2, <3>3 DEF CleanupInv, Object, CleanupSteps, ApplySteps, DeviceSteps
      <3> QED
        BY <3>5, <3>6, <3>7 DEF OwnerInv
    <2> QED
      BY <2>1, <2>2
  <1>15. ASSUME DeleteOwnedJobs PROVE OwnerInv'
    BY <1>15, CurType
       DEF DeleteOwnedJobs, Continue, OwnerInv, NameInv, ObjectInv, CacheInv, CurInv, CleanupInv,
           FileInv, Has, TypeInv, TypeOK, WorkerInv, CleanupSteps, ApplySteps, DeviceSteps,
           PatchSteps, caches, files
  <1>16. ASSUME RemoveGeneratorFile PROVE OwnerInv'
    BY <1>16, CurType
       DEF RemoveGeneratorFile, Continue, OwnerInv, NameInv, ObjectInv, CacheInv, CurInv,
           CleanupInv, FileInv, Has, TypeInv, TypeOK, WorkerInv, CleanupSteps, ApplySteps,
           DeviceSteps, PatchSteps, api, caches
  <1>17. ASSUME RemoveSnmpFile PROVE OwnerInv'
    BY <1>17, CurType
       DEF RemoveSnmpFile, Continue, OwnerInv, NameInv, ObjectInv, CacheInv, CurInv, CleanupInv,
           FileInv, Has, TypeInv, TypeOK, WorkerInv, CleanupSteps, ApplySteps, DeviceSteps,
           PatchSteps, api, caches
  <1>18. ASSUME ReconcileGeneratorFile PROVE OwnerInv'
    BY <1>18, CurType
       DEF ReconcileGeneratorFile, SetGenerated, Continue, OwnerInv, NameInv, ObjectInv, CacheInv,
           CurInv, CleanupInv, FileInv, Has, TypeInv, TypeOK, WorkerInv, Object, CleanupSteps,
           ApplySteps, DeviceSteps, PatchSteps, api, caches
  <1>19. ASSUME CreateGeneratorJob PROVE OwnerInv'
    BY <1>19, CurType
       DEF CreateGeneratorJob, SetGenerated, Stop, StepError, OwnerInv, NameInv, ObjectInv,
           CacheInv, CurInv, CleanupInv, FileInv, Has, TypeInv, TypeOK, WorkerInv, Object,
           CleanupSteps, ApplySteps, DeviceSteps, PatchSteps, caches, files
  <1>20. ASSUME EvaluateStaleJob PROVE OwnerInv'
    BY <1>20, CurType
       DEF EvaluateStaleJob, Stop, OwnerInv, NameInv, ObjectInv, CacheInv, CurInv, CleanupInv,
           FileInv, Has, TypeInv, TypeOK, WorkerInv, CleanupSteps, ApplySteps, DeviceSteps,
           PatchSteps, caches, files
  <1>21. ASSUME EvaluateGeneratorJob PROVE OwnerInv'
    BY <1>21, CurType
       DEF EvaluateGeneratorJob, SetGenerated, Stop, Continue, OwnerInv, NameInv, ObjectInv,
           CacheInv, CurInv, CleanupInv, FileInv, Has, TypeInv, TypeOK, WorkerInv, Object,
           CleanupSteps, ApplySteps, DeviceSteps, PatchSteps, outside, caches, files
  <1>22. ASSUME ReconcileSNMPFileContent PROVE OwnerInv'
    <2>1. cur' # None /\ cur'.name = cur.name /\ cur'.uid = cur.uid /\ cur'.del = cur.del
      BY <1>22, CurType, TypeStep
         DEF ReconcileSNMPFileContent, SetGenerated, StepError, Continue, Object, TypeInv,
             WorkerInv
    <2> QED
      BY <1>22, <2>1, CurType
         DEF ReconcileSNMPFileContent, StepError, Continue, OwnerInv, NameInv, ObjectInv, CacheInv,
             CurInv, CleanupInv, FileInv, Has, TypeInv, TypeOK, WorkerInv, CleanupSteps, ApplySteps,
             DeviceSteps, PatchSteps, outside, caches, files
  <1>23. ASSUME MergeRead PROVE OwnerInv'
    BY <1>23, CurType
       DEF MergeRead, SetApplied, StepError, Continue, OwnerInv, NameInv, ObjectInv, CacheInv,
           CurInv, CleanupInv, FileInv, Has, TypeInv, TypeOK, WorkerInv, Object, CleanupSteps,
           ApplySteps, DeviceSteps, PatchSteps, outside, caches, files
  <1>24. ASSUME MergeWrite PROVE OwnerInv'
    BY <1>24, CurType
       DEF MergeWrite, SetApplied, Continue, OwnerInv, NameInv, ObjectInv, CacheInv, CurInv,
           CleanupInv, FileInv, Has, TypeInv, TypeOK, WorkerInv, Object, CleanupSteps, ApplySteps,
           DeviceSteps, PatchSteps, api, caches
  <1>25. ASSUME ReconcileExporterReload PROVE OwnerInv'
    <2>1. /\ cur' # None /\ cur'.name = cur.name /\ cur'.uid = cur.uid /\ cur'.del = cur.del
          /\ cur.del => ~cur'.fin
      BY <1>25, CurType, TypeStep
         DEF ReconcileExporterReload, ReloadTo, Stop, Continue, Object, TypeInv, WorkerInv
    <2>2. pc' = IF cur.del THEN "patchFinalizer" ELSE "patchStatus"
      BY <1>25 DEF ReconcileExporterReload, ReloadTo, Stop, Continue
    <2> QED
      BY <1>25, <2>1, <2>2, CurType
         DEF ReconcileExporterReload, ReloadTo, OwnerInv, NameInv, ObjectInv, CacheInv, CurInv,
             CleanupInv, FileInv, Has, TypeInv, TypeOK, WorkerInv, CleanupSteps, ApplySteps,
             DeviceSteps, PatchSteps, api, caches, files
  <1>26. ASSUME ReconcileFails PROVE OwnerInv'
    BY <1>26, CurType
       DEF ReconcileFails, SetGenerated, SetApplied, StepError, OwnerInv, NameInv, ObjectInv,
           CacheInv, CurInv, CleanupInv, FileInv, Has, TypeInv, TypeOK, WorkerInv, Object,
           CleanupSteps, ApplySteps, DeviceSteps, PatchSteps, api, caches, files
  <1>27. ASSUME PatchFinalizer PROVE OwnerInv'
    BY <1>27, CurType
       DEF PatchFinalizer, OwnerInv, NameInv, ObjectInv, CacheInv, CurInv, CleanupInv, FileInv, Has,
           TypeInv, TypeOK, WorkerInv, Object, CleanupSteps, ApplySteps, DeviceSteps, PatchSteps,
           caches, files
  <1>28. ASSUME PatchStatus PROVE OwnerInv'
    <2>1. \A m \in Names : /\ obj'[m] # None <=> obj[m] # None
                           /\ obj[m] # None => /\ obj'[m].name = obj[m].name /\ obj'[m].uid = obj[m].uid
                                               /\ obj'[m].fin = obj[m].fin /\ obj'[m].del = obj[m].del
      <3> SUFFICES ASSUME NEW m \in Names
                   PROVE  /\ obj'[m] # None <=> obj[m] # None
                          /\ obj[m] # None => /\ obj'[m].name = obj[m].name /\ obj'[m].uid = obj[m].uid
                                              /\ obj'[m].fin = obj[m].fin /\ obj'[m].del = obj[m].del
        OBVIOUS
      <3>1. CASE obj[m] = None \/ m # cur.name
        BY <1>28, <3>1 DEF PatchStatus, TypeInv, TypeOK
      <3>2. CASE obj[m] # None /\ m = cur.name
        <4>1. obj'[m] = StatusOf(obj[m])
          BY <1>28, <3>2 DEF PatchStatus, TypeInv, TypeOK
        <4>2. obj[m] \in Object /\ cur \in Object
          BY <1>28, <3>2, CurType DEF PatchStatus, TypeInv, TypeOK
        <4>3. obj'[m] \in Object
          <5>1. \A o, q \in Object :
                   [o EXCEPT !.ready = q.ready, !.generated = q.generated,
                             !.applied = q.applied, !.hash = q.hash, !.observed = q.gen] \in Object
            BY FieldTypes
          <5> QED
            BY <4>1, <4>2, <5>1 DEF StatusOf
        <4> QED
          BY <3>2, <4>1, <4>2, <4>3 DEF StatusOf, Object
      <3> QED
        BY <3>1, <3>2
    <2> QED
      BY <1>28, <2>1, CurType
         DEF PatchStatus, OwnerInv, NameInv, ObjectInv, CacheInv, CurInv, CleanupInv, FileInv, Has,
             TypeInv, TypeOK, Object, CleanupSteps, ApplySteps, DeviceSteps, PatchSteps, caches,
             files
  <1>29. ASSUME PatchFails PROVE OwnerInv'
    BY <1>29, CurType
       DEF PatchFails, OwnerInv, NameInv, ObjectInv, CacheInv, CurInv, CleanupInv, FileInv, Has,
           TypeInv, TypeOK, WorkerInv, CleanupSteps, ApplySteps, DeviceSteps, PatchSteps, api,
           caches, files
  <1>30. ASSUME Crash PROVE OwnerInv'
    BY <1>30
       DEF Crash, OwnerInv, NameInv, ObjectInv, CacheInv, CurInv, CleanupInv, FileInv, Has, TypeInv,
           TypeOK, WorkerInv, CleanupSteps, ApplySteps, DeviceSteps, PatchSteps, api, files
  <1>31. CASE UNCHANGED vars
    BY <1>31, OwnerFrame DEF vars
  <1>32. ASSUME TemplateCacheSync PROVE OwnerInv'
    BY <1>32, OwnerFrame DEF TemplateCacheSync, api, files, worker
  <1> QED
    BY <1>32, <1>1, <1>2, <1>3, <1>4, <1>5, <1>6, <1>7, <1>7a, <1>8, <1>9, <1>10, <1>11, <1>12,
       <1>13, <1>14, <1>15, <1>16, <1>17, <1>18, <1>19, <1>20, <1>21, <1>22, <1>23, <1>24, <1>25,
       <1>26, <1>27, <1>28, <1>29, <1>30, <1>31
       DEF Next, User, Step, PodStep, Cluster, Fault

LEMMA OwnerInit == Init => OwnerInv
  BY DEF Init, OwnerInv, NameInv, ObjectInv, CacheInv, CurInv, CleanupInv, FileInv,
         CleanupSteps, ApplySteps, DeviceSteps

\* No generator file outlives its device: a generator-<uid>.yaml on the volume
\* belongs to a stored device that still has the finalizer.
THEOREM NoOrphanGeneratorFile == Spec => []GeneratorFilesOwned
  <1>1. Init => TypeInv /\ OwnerInv
    BY TypeInit, OwnerInit
  <1>2. TypeInv /\ OwnerInv => GeneratorFilesOwned
    BY DEF TypeInv, TypeOK, OwnerInv, FileInv, GeneratorFilesOwned
  <1> QED
    BY <1>1, <1>2, TypeStep, OwnerStep, PTL DEF Spec

-----------------------------------------------------------------------------
(* The finalizer.                                                           *)

\* When a run is about to drop the finalizer, the merged file is written and
\* the exporter's annotation is its hash, or an old copy of it said so.
ReloadInv ==
    pc = "patchFinalizer" /\ cur.del => merged # None /\ (template = Hash(merged) \/ misled)

\* The steps that change what ReloadInv speaks of, or enter "patchFinalizer".
LEMMA ReloadStep == TypeInv /\ OwnerInv /\ ReloadInv /\ [Next]_vars => ReloadInv'
  <1> SUFFICES ASSUME TypeInv, OwnerInv, ReloadInv, [Next]_vars PROVE ReloadInv'
    OBVIOUS
  <1>1. CASE UNCHANGED <<pc, cur, merged, template, misled>>
    BY <1>1 DEF ReloadInv
  <1>2. CASE pc' # "patchFinalizer"
    BY <1>2 DEF ReloadInv
  <1>3. ASSUME NEW n \in Names, Reconcile(n) PROVE ReloadInv'
    <2>1. CASE cache[n] = None
      BY <1>3, <2>1, <1>1 DEF Reconcile, outside, files
    <2>2. CASE cache[n] # None
      <3>1. cache[n] \in Object
        BY <2>2 DEF TypeInv, TypeOK
      <3>2. cur' = [cache[n] EXCEPT !.ready = "Unknown", !.fin = cache[n].fin \/ ~cache[n].del]
        BY <1>3, <2>2 DEF Reconcile
      <3>3. cur'.del = cache[n].del
        BY <3>1, <3>2 DEF Object
      <3>4. pc' = "patchFinalizer" => ~cache[n].del
        BY <1>3, <2>2, <3>1 DEF Reconcile, FirstStep, Object
      <3> QED
        BY <3>3, <3>4 DEF ReloadInv
    <2> QED
      BY <2>1, <2>2
  <1>4. ASSUME ReconcileExporterReload PROVE ReloadInv'
    <2>1. merged' = merged /\ merged # None
      BY <1>4 DEF ReconcileExporterReload, ReloadTo, TypeInv, WorkerInv, files
    <2>2. template' = Hash(merged) \/ misled'
      BY <1>4 DEF ReconcileExporterReload, ReloadTo
    <2> QED
      BY <2>1, <2>2 DEF ReloadInv
  <1>5. ASSUME User PROVE ReloadInv'
    BY <1>1, <1>5 DEF User, UserCreate, UserUpdate, UserDelete, RotateAuth, files, worker
  <1>6. ASSUME Cluster PROVE ReloadInv'
    BY <1>1, <1>6
       DEF Cluster, CacheSync, JobCacheSync, TemplateCacheSync, Resync, CollectJob, caches, files,
           worker
  <1>7. ASSUME PodStep PROVE ReloadInv'
    BY <1>1, <1>7 DEF PodStep, PodLoad, PodNoInput, PodTruncate, PodWrite, files, worker
  <1>8. ASSUME Fault PROVE ReloadInv'
    BY <1>1, <1>2, <1>8 DEF Fault, ReconcileFails, StepError, PatchFails, PatchSteps, Crash,
         PodFail, PodKill, files, worker
  <1>9. ASSUME Step PROVE ReloadInv'
    BY <1>2, <1>4, <1>9 DEF Step, DeleteOwnedJobs, RemoveGeneratorFile, RemoveSnmpFile,
         ReconcileGeneratorFile, CreateGeneratorJob, EvaluateStaleJob, EvaluateGeneratorJob,
         ReconcileSNMPFileContent, MergeRead, MergeWrite, PatchFinalizer, PatchStatus,
         Continue, Stop, StepError
  <1>10. CASE UNCHANGED vars
    BY <1>1, <1>10 DEF vars
  <1> QED
    BY <1>3, <1>5, <1>6, <1>7, <1>8, <1>9, <1>10 DEF Next

\* A device with the finalizer leaves the API server only by PatchFinalizer,
\* and the object that leaves is the one the run has cleaned up.
LEMMA LeavesClean ==
    ASSUME TypeInv, OwnerInv, ReloadInv, [Next]_vars,
           NEW n \in Names, obj[n] # None, obj[n].fin, obj'[n] = None
    PROVE  /\ genFile[obj[n].uid] = None
           /\ merged # None /\ (template = Hash(merged) \/ misled)
  <1> USE NoneAssumption
  <1>1. obj[n] \in Object
    BY DEF TypeInv, TypeOK
  <1>2. CASE obj' = obj
    BY <1>2
  <1>3. CASE PatchFinalizer
    <2>1. n = cur.name /\ obj[n].del /\ ~cur.fin
      <3>1. cur.name \in Names /\ cur.fin \in BOOLEAN
        BY <1>3, CurType DEF PatchFinalizer
      <3>2. [obj[n] EXCEPT !.fin = cur.fin] # None
        <4>1. \A b \in BOOLEAN : [obj[n] EXCEPT !.fin = b] \in Object
          BY <1>1, FieldTypes
        <4> QED
          BY <3>1, <4>1
      <3>3. n = cur.name
        BY <1>3, <3>1 DEF PatchFinalizer, TypeInv, TypeOK
      <3>4. obj'[n] = IF obj[n] = None \/ (obj[n].del /\ ~cur.fin)
                        THEN None ELSE [obj[n] EXCEPT !.fin = cur.fin]
        BY <1>3, <3>3 DEF PatchFinalizer, TypeInv, TypeOK
      <3> QED
        BY <3>2, <3>3, <3>4
    <2>2. cur.del
      BY <1>3, <2>1, CurType DEF PatchFinalizer, OwnerInv, CleanupInv
    <2>3. obj[n].uid = cur.uid
      BY <1>3, <2>1, <2>2, CurType DEF PatchFinalizer, OwnerInv, CurInv
    <2> QED
      BY <1>3, <2>2, <2>3 DEF PatchFinalizer, OwnerInv, CleanupInv, ReloadInv
  <1>4. ASSUME NEW m \in Names, NEW u \in Uids, NEW w \in Walks, UserCreate(m, u, w) PROVE FALSE
    BY <1>4 DEF UserCreate, TypeInv, TypeOK
  <1>5. ASSUME NEW m \in Names, NEW w \in Walks, UserUpdate(m, w) PROVE FALSE
    BY <1>1, <1>5, FieldTypes DEF UserUpdate, TypeInv, TypeOK
  <1>6. ASSUME NEW m \in Names, UserDelete(m) PROVE FALSE
    <2>1. [obj[n] EXCEPT !.del = TRUE, !.gen = @ + 1] # None
      BY <1>1, FieldTypes
    <2>2. m = n
      BY <1>6 DEF UserDelete, TypeInv, TypeOK
    <2>3. obj'[n] = [obj[n] EXCEPT !.del = TRUE, !.gen = @ + 1]
      BY <1>6, <2>2 DEF UserDelete, TypeInv, TypeOK
    <2> QED
      BY <2>1, <2>3
  <1>7. ASSUME PatchStatus PROVE FALSE
    <2>1. \A o, q \in Object :
             [o EXCEPT !.ready = q.ready, !.generated = q.generated,
                       !.applied = q.applied, !.hash = q.hash, !.observed = q.gen] \in Object
      BY FieldTypes
    <2> QED
      <3>1. cur \in Object
        BY <1>7, CurType DEF PatchStatus
      <3>2. StatusOf(obj[n]) # None
        BY <1>1, <2>1, <3>1 DEF StatusOf
      <3>3. obj'[n] = obj[n] \/ obj'[n] = StatusOf(obj[n])
        BY <1>7 DEF PatchStatus, TypeInv, TypeOK
      <3> QED
        BY <3>2, <3>3
  <1>8. ASSUME NEW m \in Names, Reconcile(m) PROVE obj' = obj
    BY <1>8 DEF Reconcile, outside
  <1>9. ASSUME Cluster \/ PodStep \/ Fault \/ RotateAuth PROVE obj' = obj
    BY <1>9 DEF Cluster, CacheSync, JobCacheSync, TemplateCacheSync, Resync, CollectJob, PodStep,
         PodLoad, PodNoInput, PodTruncate, PodWrite, Fault, ReconcileFails, PatchFails, Crash, PodFail, PodKill,
         RotateAuth, api
  <1>10. ASSUME Step PROVE obj' = obj \/ PatchFinalizer \/ PatchStatus
    BY <1>10 DEF Step, DeleteOwnedJobs, RemoveGeneratorFile, RemoveSnmpFile,
         ReconcileGeneratorFile, CreateGeneratorJob, EvaluateStaleJob, EvaluateGeneratorJob,
         ReconcileSNMPFileContent, MergeRead, MergeWrite, ReconcileExporterReload, ReloadTo,
         outside, api
  <1>11. CASE UNCHANGED vars
    BY <1>2, <1>11 DEF vars
  <1> QED
    BY <1>2, <1>3, <1>4, <1>5, <1>6, <1>7, <1>8, <1>9, <1>10, <1>11 DEF Next, User

\* The finalizer does its work: a device leaves the API server through its
\* finalizer only when its generator file is gone, the merged file has been
\* written, and the exporter's annotation is the hash of that file unless the
\* run was misled by an old copy of the Deployment.
THEOREM FinalizerWorks == Spec => FinalizerGuardsCleanup
  <1>1. Init => TypeInv /\ OwnerInv /\ ReloadInv
    BY TypeInit, OwnerInit DEF Init, ReloadInv
  <1>2. TypeInv /\ OwnerInv /\ ReloadInv /\ [Next]_vars
           => [\A n \in Names :
                 obj[n] # None /\ obj[n].fin /\ obj'[n] = None
                    => /\ genFile[obj[n].uid] = None
                       /\ merged # None
                       /\ template = Hash(merged) \/ misled]_vars
    BY LeavesClean
  <1> QED
    BY <1>1, <1>2, TypeStep, OwnerStep, ReloadStep, PTL DEF Spec, FinalizerGuardsCleanup
=============================================================================
