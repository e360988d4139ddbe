---------------------- MODULE PhysicalMeasurementProofs ----------------------
(***************************************************************************)
(* Proofs about PhysicalMeasurement for every set of measurements, devices *)
(* and specs, and however many edits, deletions, crashes and failures.     *)
(***************************************************************************)
EXTENDS PhysicalMeasurement, TLAPS

\* What a target file may hold.
TargetFile == {CreateFileSDTarget(q) : q \in [name : Names, spec : Specs]}

TypeInv == TypeOK /\ target \in [Types -> [Names -> TargetFile \cup {None}]]

\* The object stored under n is the one with this UID.
Has(n, u) == obj[n] # None /\ obj[n].uid = u

\* Every measurement is stored and cached under its own name, and UIDs are
\* given out in order: an object created next is none of those seen so far.
NameInv ==
    /\ \A n \in Names : obj[n] # None => obj[n].name = n /\ obj[n].uid <= spent.create
    /\ \A n \in Names : cache[n] # None => cache[n].name = n /\ cache[n].uid <= spent.create
    /\ cur # None => cur.uid <= spent.create

\* An object being deleted has the finalizer, or it would be gone.
ObjectInv == \A n \in Names : obj[n] # None /\ obj[n].del => obj[n].fin

\* What a cached measurement says about the stored one.
CacheInv ==
    \A n \in Names : cache[n] # None =>
        /\ cache[n].fin /\ ~cache[n].del => Has(n, cache[n].uid) /\ obj[n].fin
        /\ cache[n].del /\ Has(n, cache[n].uid) => obj[n].del
        /\ cache[n].del /\ obj[n] # None /\ obj[n].uid # cache[n].uid => ~obj[n].fin

\* The same for the measurement in the worker's memory.
CurInv ==
    cur # None =>
        /\ ~cur.del /\ (pc \in {"validate", "target"} \/ cur.ready = "True")
              => Has(cur.name, cur.uid) /\ obj[cur.name].fin
        /\ cur.del /\ Has(cur.name, cur.uid) => obj[cur.name].del
        /\ cur.del /\ obj[cur.name] # None /\ obj[cur.name].uid # cur.uid => ~obj[cur.name].fin
        /\ cur.del /\ cache[cur.name] # None /\ cache[cur.name].uid = cur.uid => cache[cur.name].del
        /\ ~cur.del /\ cache[cur.name] # None /\ cache[cur.name].del
              => Has(cur.name, cache[cur.name].uid)

\* How far the worker is with a deletion.
CleanupInv ==
    /\ pc = "remove" => cur.del
    /\ pc \in {"validate", "target"} => ~cur.del
    /\ pc = "patchFinalizer" => (cur.fin <=> ~cur.del)
    /\ pc = "patchFinalizer" /\ cur.del /\ cur.name \notin retyped
          => \A t \in Types : target[t][cur.name] = None

\* A file lies in the directory of its measurement's type, and no copy of a
\* measurement whose type never changed has another type.
FileInv ==
    \A n \in Names \ retyped :
        /\ \A t \in Types : target[t][n] # None =>
              obj[n] # None /\ obj[n].fin /\ obj[n].spec.type = t
        /\ cache[n] # None /\ Has(n, cache[n].uid) => cache[n].spec.type = obj[n].spec.type
        /\ cur # None /\ cur.name = n /\ Has(n, cur.uid) => cur.spec.type = obj[n].spec.type

OwnerInv == NameInv /\ ObjectInv /\ CacheInv /\ CurInv /\ CleanupInv /\ FileInv

\* A copy is an earlier version of the stored object, or that version itself.
Version(copy, o) ==
    copy.uid = o.uid => /\ copy.gen <= o.gen
                        /\ copy.gen = o.gen => copy.spec = o.spec /\ copy.del = o.del

VersionInv ==
    /\ \A n \in Names : cache[n] # None /\ obj[n] # None => Version(cache[n], obj[n])
    /\ cur # None /\ obj[cur.name] # None => Version(cur, obj[cur.name])

\* What Ready says, stored or about to be stored: a later run starts from a
\* version no older than the one Ready was set for.
ReadyInv ==
    \A n \in Names : obj[n] # None /\ obj[n].ready = "True" =>
        /\ obj[n].fin /\ obj[n].observed <= obj[n].gen
        /\ cache[n] # None => cache[n].uid = obj[n].uid /\ obj[n].observed <= cache[n].gen
        /\ cur # None /\ cur.name = n /\ ~cur.del => cur.uid = obj[n].uid /\ obj[n].observed <= cur.gen
        /\ obj[n].observed = obj[n].gen =>
              ~obj[n].del /\ target[obj[n].spec.type][n] = CreateFileSDTarget(obj[n])

CurReadyInv ==
    cur # None =>
        /\ cur.ready = "True" => /\ pc = "patchStatus" /\ ~cur.del
                                 /\ target[cur.spec.type][cur.name] = CreateFileSDTarget(cur)
        /\ pc \in {"validate", "target"} \/ cur.ready = "True" =>
              cache[cur.name] # None /\ cache[cur.name].uid = cur.uid /\ cur.gen <= cache[cur.name].gen

TargetInv == VersionInv /\ ReadyInv /\ CurReadyInv

-----------------------------------------------------------------------------
(* Types.                                                                   *)

Spendings == [create : Nat, delete : Nat, depart : Nat, crash : Nat, fault : Nat]

\* Changing fields of a measurement in memory or in the store keeps its type.
LEMMA FieldTypes ==
    ASSUME NEW o \in Object, NEW q \in Object
    PROVE  /\ \A v \in Conditions : [o EXCEPT !.validated = v] \in Object
           /\ \A v \in Conditions : [o EXCEPT !.applied = v] \in Object
           /\ \A b \in BOOLEAN : [o EXCEPT !.fin = b] \in Object
           /\ [o EXCEPT !.del = TRUE, !.gen = @ + 1] \in Object
           /\ \A s \in Specs : [o EXCEPT !.spec = s, !.gen = @ + 1] \in Object
           /\ \A b \in BOOLEAN : [o EXCEPT !.ready = "Unknown", !.fin = b] \in Object
           /\ [o EXCEPT !.applied = "True", !.ready = "True"] \in Object
           /\ [o EXCEPT !.ready = q.ready, !.validated = q.validated,
                        !.applied = q.applied, !.observed = q.gen] \in Object
  <1>0. o.gen + 1 \in Nat
    BY DEF Object
  <1>1. \A v \in Conditions : [o EXCEPT !.validated = v] \in Object
    BY DEF Object
  <1>2. \A v \in Conditions : [o EXCEPT !.applied = v] \in Object
    BY DEF Object
  <1>3. \A b \in BOOLEAN : [o EXCEPT !.fin = b] \in Object
    BY DEF Object
  <1>4. [o EXCEPT !.del = TRUE, !.gen = @ + 1] \in Object
    <2>1. \A g \in Nat : [o EXCEPT !.del = TRUE, !.gen = g] \in Object
      BY DEF Object
    <2> QED BY <2>1, <1>0
  <1>5. \A s \in Specs : [o EXCEPT !.spec = s, !.gen = @ + 1] \in Object
    <2>1. \A s \in Specs, g \in Nat : [o EXCEPT !.spec = s, !.gen = g] \in Object
      BY DEF Object
    <2> QED BY <2>1, <1>0
  <1>6. \A b \in BOOLEAN : [o EXCEPT !.ready = "Unknown", !.fin = b] \in Object
    BY DEF Object, Conditions
  <1>7. [o EXCEPT !.applied = "True", !.ready = "True"] \in Object
    BY DEF Object, Conditions
  <1>8. [o EXCEPT !.ready = q.ready, !.validated = q.validated,
                  !.applied = q.applied, !.observed = q.gen] \in Object
    BY DEF Object
  <1> QED
    BY <1>1, <1>2, <1>3, <1>4, <1>5, <1>6, <1>7, <1>8

LEMMA SpentTypes ==
    ASSUME spent \in Spendings
    PROVE  /\ [spent EXCEPT !.create = @ + 1] \in Spendings
           /\ [spent EXCEPT !.delete = @ + 1] \in Spendings
           /\ [spent EXCEPT !.depart = @ + 1] \in Spendings
           /\ [spent EXCEPT !.crash = @ + 1] \in Spendings
           /\ [spent EXCEPT !.fault = @ + 1] \in Spendings
  <1>1. \A k \in Nat : /\ [spent EXCEPT !.create = k] \in Spendings
                       /\ [spent EXCEPT !.delete = k] \in Spendings
                       /\ [spent EXCEPT !.depart = k] \in Spendings
                       /\ [spent EXCEPT !.crash = k] \in Spendings
                       /\ [spent EXCEPT !.fault = k] \in Spendings
    BY DEF Spendings
  <1>2. /\ spent.create + 1 \in Nat /\ spent.delete + 1 \in Nat /\ spent.depart + 1 \in Nat
        /\ spent.crash + 1 \in Nat /\ spent.fault + 1 \in Nat
    BY DEF Spendings
  <1> QED
    BY <1>1, <1>2

\* The labels of a target file are the default ones and the additional ones,
\* and the default ones win.
LEMMA LabelTypes ==
    ASSUME NEW o, o.name \in Names, o.spec \in Specs
    PROVE  /\ CreateFileSDTarget(o) \in TargetFile
           /\ CreateFileSDTarget(o) # None
           /\ CreateFileSDTarget(o).ip = o.spec.ip
           /\ DOMAIN CreateFileSDTarget(o).labels \subseteq LabelNames \cup {"rack"}
           /\ CreateFileSDTarget(o).labels["instance"] = o.spec.ip
           /\ CreateFileSDTarget(o).labels["name"] = o.name
           /\ o.spec.type = "snmp" =>
                 /\ CreateFileSDTarget(o).labels["__param_module"] = o.spec.device
                 /\ CreateFileSDTarget(o).labels["__param_auth"] = o.spec.device
  <1> DEFINE q == [name |-> o.name, spec |-> o.spec]
             L == DefaultLabels(o)
             T == TargetLabels(o)
  <1>1. q.name = o.name /\ q.spec = o.spec
    OBVIOUS
  <1>2. CreateFileSDTarget(o) = CreateFileSDTarget(q)
    BY <1>1 DEF CreateFileSDTarget, TargetLabels, DefaultLabels, ExtraLabels, Over
  <1>3. CreateFileSDTarget(q) \in TargetFile
    BY DEF TargetFile
  <1>4. CreateFileSDTarget(o) # None
    BY <1>2, PMNoneAssumption
  <1>5. CreateFileSDTarget(o).ip = o.spec.ip /\ CreateFileSDTarget(o).labels = T
    BY DEF CreateFileSDTarget
  <1>6. T = [x \in DOMAIN L \cup o.spec.extra |-> IF x \in DOMAIN L THEN L[x] ELSE ExtraLabels(o)[x]]
    BY DEF TargetLabels, ExtraLabels, Over
  <1>7. /\ "instance" \in DOMAIN L /\ L["instance"] = o.spec.ip
        /\ "name" \in DOMAIN L /\ L["name"] = o.name
        /\ DOMAIN L \subseteq LabelNames
    BY DEF DefaultLabels, LabelNames
  <1>8. o.spec.type = "snmp" =>
           /\ "__param_module" \in DOMAIN L /\ L["__param_module"] = o.spec.device
           /\ "__param_auth" \in DOMAIN L /\ L["__param_auth"] = o.spec.device
    BY DEF DefaultLabels
  <1>9. o.spec.extra \subseteq LabelNames \cup {"rack"}
    BY SpecsAssumption
  <1> QED
    BY <1>2, <1>3, <1>4, <1>5, <1>6, <1>7, <1>8, <1>9

\* While the worker runs it holds a measurement.
LEMMA CurType ==
    ASSUME TypeInv, pc # "idle"
    PROVE  /\ cur \in Object /\ cur # None
           /\ cur.name \in Names /\ cur.gen \in Nat /\ cur.spec \in Specs /\ cur.spec.type \in Types
           /\ cur.del \in BOOLEAN /\ cur.fin \in BOOLEAN
  <1>1. cur \in Object
    BY DEF TypeInv, TypeOK
  <1> QED
    BY <1>1, SpecsAssumption, PMNoneAssumption DEF Object

\* Every step keeps the types, and what the worker holds at each step.
LEMMA TypeStep == TypeInv /\ [Next]_vars => TypeInv'
  <1> SUFFICES ASSUME TypeInv, [Next]_vars PROVE TypeInv'
    OBVIOUS
  <1> USE PMNoneAssumption DEF TypeInv
  <1>0. ASSUME target' \in [Types -> [Names -> TargetFile \cup {None}]]
        PROVE  \A t \in Types, n \in Names :
                  target'[t][n] # None => DOMAIN target'[t][n].labels \subseteq LabelNames \cup {"rack"}
    <2>1. \A f \in TargetFile : DOMAIN f.labels \subseteq LabelNames \cup {"rack"}
      BY LabelTypes DEF TargetFile
    <2> QED
      BY <1>0, <2>1
  <1>1. ASSUME NEW n \in Names, NEW s \in Specs, UserCreate(n, s) PROVE TypeInv'
    <2>1. spent' \in Spendings
      BY <1>1, SpentTypes DEF UserCreate, TypeOK, Spendings
    <2>2. spent.create + 1 \in 1 .. MaxCreations
      BY <1>1, PMBoundsAssumption DEF UserCreate, TypeOK
    <2> QED
      BY <1>1, <2>1, <2>2 DEF UserCreate, TypeOK, Object, Conditions, worker, Spendings
  <1>2. ASSUME NEW n \in Names, NEW s \in Specs, UserUpdate(n, s) PROVE TypeInv'
    <2>1. [obj[n] EXCEPT !.spec = s, !.gen = @ + 1] \in Object
      BY <1>2, FieldTypes DEF UserUpdate, TypeOK
    <2>2. obj' = [obj EXCEPT ![n] = [obj[n] EXCEPT !.spec = s, !.gen = @ + 1]]
      BY <1>2 DEF UserUpdate, TypeOK
    <2> QED
      BY <1>2, <2>1, <2>2 DEF UserUpdate, TypeOK, worker
  <1>3. ASSUME NEW n \in Names, UserDelete(n) PROVE TypeInv'
    <2>1. spent' \in Spendings
      BY <1>3, SpentTypes DEF UserDelete, TypeOK, Spendings
    <2> QED
      BY <1>3, <2>1, FieldTypes DEF UserDelete, TypeOK, worker, Spendings
  <1>4. ASSUME NEW d \in Devices, DeviceAppears(d) PROVE TypeInv'
    BY <1>4 DEF DeviceAppears, TypeOK, worker
  <1>5. ASSUME NEW d \in Devices, DeviceDisappears(d) PROVE TypeInv'
    BY <1>5, SpentTypes DEF DeviceDisappears, TypeOK, worker, Spendings
  <1>6. ASSUME NEW n \in Names, CacheSync(n) PROVE TypeInv'
    BY <1>6 DEF CacheSync, TypeOK, store
  <1>7. ASSUME NEW n \in Names, Resync(n) \/ TimerFires(n) PROVE TypeInv'
    BY <1>7 DEF Resync, TimerFires, TypeOK, store
  <1>8. ASSUME NEW n \in Names, Reconcile(n) PROVE TypeInv'
    <2>1. CASE cache[n] = None
      BY <1>8, <2>1 DEF Reconcile, TypeOK, store
    <2>2. CASE cache[n] # None
      <3>1. cache[n] \in Object
        BY <2>2 DEF TypeOK
      <3>2. cur' \in Object
        BY <1>8, <2>2, <3>1, FieldTypes DEF Reconcile, TypeOK
      <3>3. pc' \in {"remove", "patchStatus", "patchFinalizer", "validate"}
        BY <1>8, <2>2, <3>1 DEF Reconcile, FirstStep, Object
      <3> QED
        BY <1>8, <2>2, <3>2, <3>3 DEF Reconcile, TypeOK, store, Labels
    <2> QED
      BY <2>1, <2>2
  <1>9. ASSUME RemoveTargetFile PROVE TypeInv'
    <2>1. cur' \in Object
      BY <1>9, CurType, FieldTypes DEF RemoveTargetFile
    <2>2. target' \in [Types -> [Names -> TargetFile \cup {None}]]
      BY <1>9, CurType DEF RemoveTargetFile, Subdir
    <2> QED
      BY <1>9, <1>0, <2>1, <2>2 DEF RemoveTargetFile, TypeOK, Labels
  <1>10. ASSUME ReconcileValidation PROVE TypeInv'
    <2>1. cur \in Object
      BY <1>10, CurType DEF ReconcileValidation
    <2>2. cur' \in Object
      BY <1>10, <2>1, FieldTypes DEF ReconcileValidation, Conditions
    <2> QED
      BY <1>10, <2>2, CurType DEF ReconcileValidation, Requeue, TypeOK, Labels, store
  <1>11. ASSUME ReconcileTargetFile PROVE TypeInv'
    <2>1. cur' \in Object
      BY <1>11, CurType, FieldTypes DEF ReconcileTargetFile
    <2>2. CreateFileSDTarget(cur) \in TargetFile
      BY <1>11, CurType, LabelTypes DEF ReconcileTargetFile
    <2>3. target' \in [Types -> [Names -> TargetFile \cup {None}]]
      BY <1>11, <2>2, CurType DEF ReconcileTargetFile, Subdir
    <2> QED
      BY <1>11, <1>0, <2>1, <2>3 DEF ReconcileTargetFile, TypeOK, Labels
  <1>12. ASSUME ReconcileFails PROVE TypeInv'
    <2>1. cur \in Object
      BY <1>12, CurType DEF ReconcileFails
    <2>2. cur' \in Object
      BY <1>12, <2>1, FieldTypes DEF ReconcileFails, Conditions
    <2>3. spent' \in Spendings
      BY <1>12, SpentTypes DEF ReconcileFails, TypeOK, Spendings
    <2> QED
      BY <1>12, <2>2, <2>3, CurType DEF ReconcileFails, TypeOK, Labels, store, Spendings
  <1>13. ASSUME PatchFinalizer PROVE TypeInv'
    BY <1>13, CurType, FieldTypes DEF PatchFinalizer, RetryMissing, TypeOK, Labels
  <1>14. ASSUME PatchStatus PROVE TypeInv'
    <2>1. \A o \in Object : StatusOf(o) \in Object
      BY <1>14, CurType, FieldTypes DEF PatchStatus, StatusOf
    <2> QED
      BY <1>14, <2>1, CurType DEF PatchStatus, RetryMissingStatus, TypeOK, Labels
  <1>15. ASSUME PatchFails PROVE TypeInv'
    <2>1. spent' \in Spendings
      BY <1>15, SpentTypes DEF PatchFails, TypeOK, Spendings
    <2> QED
      BY <1>15, <2>1, CurType DEF PatchFails, TypeOK, Labels, store, Spendings
  <1>16. ASSUME Crash PROVE TypeInv'
    <2>1. spent' \in Spendings
      BY <1>16, SpentTypes DEF Crash, TypeOK, Spendings
    <2> QED
      BY <1>16, <2>1 DEF Crash, TypeOK, Labels, store, Spendings
  <1>17. CASE UNCHANGED vars
    BY <1>17 DEF vars, TypeOK
  <1> QED
    BY <1>1, <1>2, <1>3, <1>4, <1>5, <1>6, <1>7, <1>8, <1>9, <1>10, <1>11, <1>12, <1>13, <1>14,
       <1>15, <1>16, <1>17 DEF Next, User, Controller, Step

LEMMA TypeInit == Init => TypeInv
  BY DEF Init, TypeInv, TypeOK, Labels

\* Types: the state of the controller and of the target directories stays well
\* formed, and only names of measurements are ever queued or timed.
THEOREM TypeCorrect == Spec => []TypeOK
  <1>1. TypeInv => TypeOK
    BY DEF TypeInv
  <1> QED
    BY <1>1, TypeInit, TypeStep, PTL DEF Spec

-----------------------------------------------------------------------------
(* What each action does to the objects, field by field.                    *)

SameIdentity(o, q) == o.name = q.name /\ o.uid = q.uid
SameVersion(o, q)  == o.gen = q.gen /\ o.spec = q.spec /\ o.del = q.del
SameClaim(o, q)    == o.ready = q.ready /\ o.observed = q.observed

OthersKept(n) == \A m \in Names : m # n => obj'[m] = obj[m]

Created(n, s) ==
    /\ obj[n] = None /\ OthersKept(n)
    /\ obj'[n] \in Object /\ obj'[n] # None
    /\ obj'[n].name = n /\ obj'[n].uid = spent.create + 1 /\ obj'[n].gen = 1
    /\ obj'[n].spec = s /\ obj'[n].del = FALSE /\ obj'[n].fin = FALSE
    /\ obj'[n].ready = "Unknown"
    /\ spent.create \in Nat /\ spent'.create = spent.create + 1
    /\ UNCHANGED <<cache, target, pc, cur, retyped>>

LEMMA CreateFacts ==
    ASSUME TypeInv, NEW n \in Names, NEW s \in Specs, UserCreate(n, s)
    PROVE  Created(n, s)
  <1>1. TypeInv'
    BY TypeStep DEF Next, User
  <1>2. obj'[n] = [name |-> n, uid |-> spent.create + 1, gen |-> 1, spec |-> s,
                   del |-> FALSE, fin |-> FALSE,
                   ready |-> "Unknown", validated |-> "Unknown",
                   applied |-> "Unknown", observed |-> 0]
    BY DEF UserCreate, TypeInv, TypeOK
  <1>3. obj'[n] \in Object
    <2>1. spent.create + 1 \in 1 .. MaxCreations
      BY PMBoundsAssumption DEF UserCreate, TypeInv, TypeOK
    <2> QED
      BY <1>2, <2>1 DEF Object, Conditions
  <1> QED
    BY <1>2, <1>3, PMNoneAssumption DEF UserCreate, TypeInv, TypeOK, OthersKept, worker, Created

Updated(n, s) ==
    /\ obj[n] \in Object /\ obj[n] # None /\ obj[n].del = FALSE /\ OthersKept(n)
    /\ obj'[n] \in Object /\ obj'[n] # None
    /\ SameIdentity(obj'[n], obj[n]) /\ SameClaim(obj'[n], obj[n])
    /\ obj'[n].gen = obj[n].gen + 1 /\ obj'[n].spec = s
    /\ obj'[n].del = FALSE /\ obj'[n].fin = obj[n].fin
    /\ retyped' = IF s.type # obj[n].spec.type THEN retyped \cup {n} ELSE retyped
    /\ UNCHANGED <<cache, target, pc, cur, spent>>

LEMMA UpdateFacts ==
    ASSUME TypeInv, NEW n \in Names, NEW s \in Specs, UserUpdate(n, s)
    PROVE  Updated(n, s)
  <1>1. obj[n] \in Object /\ obj[n].del = FALSE
    BY DEF UserUpdate, TypeInv, TypeOK, Object
  <1>2. obj'[n] = [obj[n] EXCEPT !.spec = s, !.gen = @ + 1]
    BY DEF UserUpdate, TypeInv, TypeOK
  <1>3. obj'[n] \in Object
    BY <1>1, <1>2, FieldTypes
  <1>4. /\ SameIdentity(obj'[n], obj[n]) /\ SameClaim(obj'[n], obj[n])
        /\ obj'[n].gen = obj[n].gen + 1 /\ obj'[n].spec = s
        /\ obj'[n].del = obj[n].del /\ obj'[n].fin = obj[n].fin
    BY <1>1, <1>2 DEF Object, SameIdentity, SameClaim
  <1>5. OthersKept(n)
    BY DEF UserUpdate, TypeInv, TypeOK, OthersKept
  <1> QED
    BY <1>1, <1>3, <1>4, <1>5, PMNoneAssumption DEF UserUpdate, worker, Updated

Deleted(n) ==
    /\ obj[n] \in Object /\ obj[n] # None /\ obj[n].del = FALSE /\ OthersKept(n)
    /\ ~obj[n].fin => obj'[n] = None
    /\ obj[n].fin => /\ obj'[n] \in Object /\ obj'[n] # None
                     /\ SameIdentity(obj'[n], obj[n]) /\ SameClaim(obj'[n], obj[n])
                     /\ obj'[n].gen = obj[n].gen + 1 /\ obj'[n].spec = obj[n].spec
                     /\ obj'[n].del = TRUE /\ obj'[n].fin = TRUE
    /\ spent'.create = spent.create
    /\ UNCHANGED <<cache, target, pc, cur, retyped>>

LEMMA DeleteFacts ==
    ASSUME TypeInv, NEW n \in Names, UserDelete(n)
    PROVE  Deleted(n)
  <1>1. obj[n] \in Object /\ obj[n].del = FALSE /\ obj[n].fin \in BOOLEAN
    BY DEF UserDelete, TypeInv, TypeOK, Object
  <1>2. obj'[n] = IF obj[n].fin THEN [obj[n] EXCEPT !.del = TRUE, !.gen = @ + 1] ELSE None
    BY DEF UserDelete, TypeInv, TypeOK
  <1>3. OthersKept(n)
    BY DEF UserDelete, TypeInv, TypeOK, OthersKept
  <1>4. ASSUME obj[n].fin PROVE /\ obj'[n] \in Object
                                /\ SameIdentity(obj'[n], obj[n]) /\ SameClaim(obj'[n], obj[n])
                                /\ obj'[n].gen = obj[n].gen + 1 /\ obj'[n].spec = obj[n].spec
                                /\ obj'[n].del = TRUE /\ obj'[n].fin = TRUE
    <2>1. obj'[n] \in Object
      BY <1>1, <1>2, <1>4, FieldTypes
    <2> QED
      BY <1>1, <1>2, <1>4, <2>1 DEF Object, SameIdentity, SameClaim
  <1>5. spent'.create = spent.create
    BY DEF UserDelete, TypeInv, TypeOK
  <1> QED
    BY <1>1, <1>2, <1>3, <1>4, <1>5, PMNoneAssumption DEF UserDelete, worker, Deleted

Loaded(n) ==
    /\ cache[n] \in Object /\ cur' \in Object /\ cur' # None
    /\ SameIdentity(cur', cache[n]) /\ SameVersion(cur', cache[n])
    /\ cur'.ready = "Unknown" /\ cur'.fin = (cache[n].fin \/ ~cache[n].del)
    /\ cache[n].del /\ cache[n].fin => pc' = "remove"
    /\ cache[n].del /\ ~cache[n].fin => pc' = "patchStatus"
    /\ ~cache[n].del /\ ~cache[n].fin => pc' = "patchFinalizer"
    /\ ~cache[n].del /\ cache[n].fin => pc' = "validate"

LEMMA LoadFacts ==
    ASSUME TypeInv, NEW n \in Names, Reconcile(n), cache[n] # None
    PROVE  Loaded(n)
  <1>1. cache[n] \in Object
    BY DEF TypeInv, TypeOK
  <1>2. cur' = [cache[n] EXCEPT !.ready = "Unknown", !.fin = cache[n].fin \/ ~cache[n].del]
    BY DEF Reconcile
  <1>3. cache[n].fin \in BOOLEAN /\ cache[n].del \in BOOLEAN
    BY <1>1 DEF Object
  <1>4. cur' \in Object
    BY <1>1, <1>2, <1>3, FieldTypes
  <1>5. /\ SameIdentity(cur', cache[n]) /\ SameVersion(cur', cache[n])
        /\ cur'.ready = "Unknown" /\ cur'.fin = (cache[n].fin \/ ~cache[n].del)
    BY <1>1, <1>2 DEF Object, SameIdentity, SameVersion
  <1>6. pc' = FirstStep(cache[n])
    BY DEF Reconcile
  <1> QED
    BY <1>1, <1>3, <1>4, <1>5, <1>6, PMNoneAssumption DEF FirstStep, Loaded

LEMMA FinalizerFacts ==
    ASSUME TypeInv, PatchFinalizer
    PROVE  LET n == cur.name IN
           /\ OthersKept(n)
           /\ obj[n] = None \/ (obj[n].del /\ ~cur.fin) => obj'[n] = None
           /\ obj[n] # None /\ ~(obj[n].del /\ ~cur.fin) =>
                 /\ obj'[n] \in Object /\ obj'[n] # None
                 /\ SameIdentity(obj'[n], obj[n]) /\ SameVersion(obj'[n], obj[n])
                 /\ SameClaim(obj'[n], obj[n]) /\ obj'[n].fin = cur.fin
  <1> DEFINE n == cur.name
  <1>1. n \in Names /\ cur.fin \in BOOLEAN
    BY CurType DEF PatchFinalizer
  <1>2. obj'[n] = IF obj[n] = None \/ (obj[n].del /\ ~cur.fin) THEN None
                  ELSE [obj[n] EXCEPT !.fin = cur.fin]
    BY <1>1 DEF PatchFinalizer, TypeInv, TypeOK
  <1>3. OthersKept(n)
    BY <1>1 DEF PatchFinalizer, TypeInv, TypeOK, OthersKept
  <1>4. ASSUME obj[n] # None, ~(obj[n].del /\ ~cur.fin)
        PROVE  /\ obj'[n] \in Object
               /\ SameIdentity(obj'[n], obj[n]) /\ SameVersion(obj'[n], obj[n])
               /\ SameClaim(obj'[n], obj[n]) /\ obj'[n].fin = cur.fin
    <2>1. obj[n] \in Object
      BY <1>1, <1>4 DEF TypeInv, TypeOK
    <2>2. obj'[n] = [obj[n] EXCEPT !.fin = cur.fin]
      BY <1>2, <1>4
    <2>3. obj'[n] \in Object
      BY <1>1, <2>1, <2>2, FieldTypes
    <2> QED
      BY <2>1, <2>2, <2>3 DEF Object, SameIdentity, SameVersion, SameClaim
  <1> QED
    BY <1>2, <1>3, <1>4, PMNoneAssumption

LEMMA StatusFacts ==
    ASSUME TypeInv, PatchStatus
    PROVE  LET n == cur.name IN
           /\ OthersKept(n)
           /\ obj[n] = None => obj'[n] = None
           /\ obj[n] # None =>
                 /\ obj'[n] \in Object /\ obj'[n] # None
                 /\ SameIdentity(obj'[n], obj[n]) /\ SameVersion(obj'[n], obj[n])
                 /\ obj'[n].fin = obj[n].fin
                 /\ obj'[n].ready = cur.ready /\ obj'[n].observed = cur.gen
  <1> DEFINE n == cur.name
  <1>1. n \in Names /\ cur \in Object
    BY CurType DEF PatchStatus
  <1>2. obj'[n] = IF obj[n] = None THEN None ELSE StatusOf(obj[n])
    BY <1>1 DEF PatchStatus, TypeInv, TypeOK
  <1>3. OthersKept(n)
    BY <1>1 DEF PatchStatus, TypeInv, TypeOK, OthersKept
  <1>4. ASSUME obj[n] # None
        PROVE  /\ obj'[n] \in Object
               /\ SameIdentity(obj'[n], obj[n]) /\ SameVersion(obj'[n], obj[n])
               /\ obj'[n].fin = obj[n].fin
               /\ obj'[n].ready = cur.ready /\ obj'[n].observed = cur.gen
    <2>1. obj[n] \in Object
      BY <1>1, <1>4 DEF TypeInv, TypeOK
    <2>2. obj'[n] = StatusOf(obj[n])
      BY <1>2, <1>4
    <2>3. obj'[n] \in Object
      BY <1>1, <2>1, <2>2, FieldTypes DEF StatusOf
    <2> QED
      BY <2>1, <2>2, <2>3 DEF StatusOf, Object, SameIdentity, SameVersion
  <1> QED
    BY <1>2, <1>3, <1>4, PMNoneAssumption

\* The steps that only change conditions of the measurement in memory, and the
\* two that change its file.
LEMMA StepFacts ==
    ASSUME TypeInv, RemoveTargetFile \/ ReconcileValidation \/ ReconcileTargetFile \/ ReconcileFails
    PROVE  /\ cur \in Object /\ cur # None /\ cur' \in Object /\ cur' # None
           /\ SameIdentity(cur', cur) /\ SameVersion(cur', cur)
           /\ pc' = "patchFinalizer" => pc = "remove" /\ RemoveTargetFile /\ cur'.fin = FALSE
           /\ pc' \in {"patchFinalizer", "patchStatus", "target"}
           /\ pc' = "target" => pc = "validate"
           /\ cur'.ready = cur.ready \/ (ReconcileTargetFile /\ pc' = "patchStatus" /\ cur'.ready = "True")
           /\ UNCHANGED <<obj, cache, retyped>> /\ spent'.create = spent.create
  <1> USE PMNoneAssumption DEF SameIdentity, SameVersion
  <1>1. cur \in Object
    BY CurType DEF RemoveTargetFile, ReconcileValidation, ReconcileTargetFile, ReconcileFails
  <1>2. CASE RemoveTargetFile
    <2>1. cur' \in Object
      BY <1>1, <1>2, FieldTypes DEF RemoveTargetFile
    <2> QED
      BY <1>1, <1>2, <2>1 DEF RemoveTargetFile, Object
  <1>3. CASE ReconcileValidation
    <2>1. cur' \in Object
      BY <1>1, <1>3, FieldTypes DEF ReconcileValidation, Conditions
    <2> QED
      BY <1>1, <1>3, <2>1 DEF ReconcileValidation, Object, store
  <1>4. CASE ReconcileTargetFile
    <2>1. cur' \in Object
      BY <1>1, <1>4, FieldTypes DEF ReconcileTargetFile
    <2> QED
      BY <1>1, <1>4, <2>1 DEF ReconcileTargetFile, Object
  <1>5. CASE ReconcileFails
    <2>1. cur' \in Object
      BY <1>1, <1>5, FieldTypes DEF ReconcileFails, Conditions
    <2>2. spent'.create = spent.create
      BY <1>5 DEF ReconcileFails, TypeInv, TypeOK
    <2> QED
      BY <1>1, <1>5, <2>1, <2>2 DEF ReconcileFails, Object, store
  <1> QED
    BY <1>2, <1>3, <1>4, <1>5

-----------------------------------------------------------------------------
(* Target files.  TargetFilesOwned is not inductive: whether a file may be  *)
(* written or left behind depends on what the worker's copy, taken from a   *)
(* stale cache, still says of the stored measurement.                       *)

\* The fields of a stored, a cached or a held measurement.
LEMMA ObjectTypes ==
    ASSUME TypeInv
    PROVE  /\ \A n \in Names : obj[n] # None =>
                 /\ obj[n].uid \in Nat /\ obj[n].gen \in Nat /\ obj[n].observed \in Nat
                 /\ obj[n].del \in BOOLEAN /\ obj[n].fin \in BOOLEAN
                 /\ obj[n].spec \in Specs /\ obj[n].spec.type \in Types
           /\ \A n \in Names : cache[n] # None =>
                 /\ cache[n].uid \in Nat /\ cache[n].gen \in Nat
                 /\ cache[n].del \in BOOLEAN /\ cache[n].fin \in BOOLEAN /\ cache[n].spec \in Specs
           /\ cur # None =>
                 /\ cur.name \in Names /\ cur.uid \in Nat /\ cur.gen \in Nat
                 /\ cur.del \in BOOLEAN /\ cur.fin \in BOOLEAN
                 /\ cur.spec \in Specs /\ cur.spec.type \in Types
           /\ spent.create \in Nat
  <1>1. \A o \in Object : /\ o.name \in Names /\ o.uid \in Nat /\ o.gen \in Nat /\ o.observed \in Nat
                          /\ o.del \in BOOLEAN /\ o.fin \in BOOLEAN
                          /\ o.spec \in Specs /\ o.spec.type \in Types
    BY SpecsAssumption, PMBoundsAssumption DEF Object
  <1> QED
    BY <1>1 DEF TypeInv, TypeOK

\* OwnerInv depends on these variables only.
LEMMA OwnerFrame ==
    ASSUME TypeInv, OwnerInv, UNCHANGED <<obj, cache, target, pc, cur, retyped>>,
           spent'.create = spent.create
    PROVE  OwnerInv'
  BY DEF OwnerInv, NameInv, ObjectInv, CacheInv, CurInv, CleanupInv, FileInv, Has

LEMMA OwnerStep == TypeInv /\ OwnerInv /\ [Next]_vars => OwnerInv'
  <1> SUFFICES ASSUME TypeInv, OwnerInv, [Next]_vars PROVE OwnerInv'
    OBVIOUS
  <1>0. TypeInv'
    BY TypeStep
  <1> USE ObjectTypes
  <1>1. ASSUME NEW n \in Names, NEW s \in Specs, UserCreate(n, s) PROVE OwnerInv'
    <2>0. Created(n, s)
      BY <1>1, CreateFacts
    <2>1. NameInv'
      BY <2>0 DEF Created, OwnerInv, Has, OthersKept, NameInv
    <2>2. ObjectInv'
      BY <2>0 DEF Created, OwnerInv, Has, OthersKept, ObjectInv, NameInv
    <2>3. CacheInv'
      BY <2>0 DEF Created, OwnerInv, Has, OthersKept, CacheInv, NameInv
    <2>4. CurInv'
      BY <2>0 DEF Created, OwnerInv, Has, OthersKept, CurInv, NameInv
    <2>5. CleanupInv'
      BY <2>0 DEF Created, OwnerInv, Has, OthersKept, CleanupInv, NameInv
    <2>6. FileInv'
      BY <2>0 DEF Created, OwnerInv, Has, OthersKept, FileInv, NameInv
    <2> QED
      BY <2>1, <2>2, <2>3, <2>4, <2>5, <2>6 DEF OwnerInv
  <1>2. ASSUME NEW n \in Names, NEW s \in Specs, UserUpdate(n, s) PROVE OwnerInv'
    <2>0. Updated(n, s)
      BY <1>2, UpdateFacts
    <2>1. NameInv'
      BY <2>0 DEF Updated, OwnerInv, Has, OthersKept, SameIdentity, NameInv
    <2>2. ObjectInv'
      BY <2>0 DEF Updated, OwnerInv, Has, OthersKept, SameIdentity, ObjectInv, NameInv
    <2>3. CacheInv'
      BY <2>0 DEF Updated, OwnerInv, Has, OthersKept, SameIdentity, CacheInv, NameInv
    <2>4. CurInv'
      BY <2>0 DEF Updated, OwnerInv, Has, OthersKept, SameIdentity, CurInv, NameInv
    <2>5. CleanupInv'
      BY <2>0 DEF Updated, OwnerInv, Has, OthersKept, SameIdentity, CleanupInv, NameInv
    <2>6. FileInv'
      BY <2>0 DEF Updated, OwnerInv, Has, OthersKept, SameIdentity, FileInv, NameInv
    <2> QED
      BY <2>1, <2>2, <2>3, <2>4, <2>5, <2>6 DEF OwnerInv
  <1>3. ASSUME NEW n \in Names, UserDelete(n) PROVE OwnerInv'
    <2>0. Deleted(n)
      BY <1>3, DeleteFacts
    <2>1. NameInv'
      BY <2>0 DEF Deleted, OwnerInv, Has, OthersKept, SameIdentity, NameInv
    <2>2. ObjectInv'
      BY <2>0 DEF Deleted, OwnerInv, Has, OthersKept, SameIdentity, ObjectInv, NameInv
    <2>3. CacheInv'
      BY <2>0 DEF Deleted, OwnerInv, Has, OthersKept, SameIdentity, CacheInv, NameInv
    <2>4. CurInv'
      BY <2>0 DEF Deleted, OwnerInv, Has, OthersKept, SameIdentity, CurInv, NameInv, CacheInv
    <2>5. CleanupInv'
      BY <2>0 DEF Deleted, OwnerInv, Has, OthersKept, SameIdentity, CleanupInv, NameInv
    <2>6. FileInv'
      BY <2>0 DEF Deleted, OwnerInv, Has, OthersKept, SameIdentity, FileInv, NameInv
    <2> QED
      BY <2>1, <2>2, <2>3, <2>4, <2>5, <2>6 DEF OwnerInv
  <1>4. ASSUME NEW d \in Devices, DeviceAppears(d) \/ DeviceDisappears(d) PROVE OwnerInv'
    BY <1>4, OwnerFrame DEF DeviceAppears, DeviceDisappears, worker, TypeInv, TypeOK
  <1>5. ASSUME NEW n \in Names, CacheSync(n) PROVE OwnerInv'
    BY <1>5
       DEF CacheSync, store, TypeInv, TypeOK, OwnerInv, NameInv, ObjectInv, CacheInv, CurInv,
           CleanupInv, FileInv, Has
  <1>6. ASSUME NEW n \in Names, Resync(n) \/ TimerFires(n) PROVE OwnerInv'
    BY <1>6, OwnerFrame DEF Resync, TimerFires, store
  <1>7. ASSUME NEW n \in Names, Reconcile(n) PROVE OwnerInv'
    <2>1. CASE cache[n] = None
      BY <1>7, <2>1, OwnerFrame DEF Reconcile, store
    <2>2. CASE cache[n] # None
      <3>0. Loaded(n)
        BY <1>7, <2>2, LoadFacts
      <3>1. NameInv'
        BY <1>7, <2>2, <3>0
           DEF Loaded, Reconcile, store, OwnerInv, Has, SameIdentity, SameVersion, NameInv
      <3>2. ObjectInv'
        BY <1>7, <2>2, <3>0
           DEF Loaded, Reconcile, store, OwnerInv, Has, SameIdentity, SameVersion, ObjectInv
      <3>3. CacheInv'
        BY <1>7, <2>2, <3>0
           DEF Loaded, Reconcile, store, OwnerInv, Has, SameIdentity, SameVersion, CacheInv
      <3>4. CurInv'
        BY <1>7, <2>2, <3>0
           DEF Loaded, Reconcile, store, OwnerInv, Has, SameIdentity, SameVersion, CurInv, NameInv,
               CacheInv, ObjectInv
      <3>5. CleanupInv'
        BY <1>7, <2>2, <3>0
           DEF Loaded, Reconcile, store, OwnerInv, Has, SameIdentity, SameVersion, CleanupInv,
               NameInv, CacheInv, ObjectInv
      <3>6. FileInv'
        BY <1>7, <2>2, <3>0
           DEF Loaded, Reconcile, store, OwnerInv, Has, SameIdentity, SameVersion, FileInv,
               NameInv, CacheInv, ObjectInv
      <3> QED
        BY <3>1, <3>2, <3>3, <3>4, <3>5, <3>6 DEF OwnerInv
    <2> QED
      BY <2>1, <2>2
  <1>8. ASSUME RemoveTargetFile PROVE OwnerInv'
    BY <1>8, StepFacts
       DEF RemoveTargetFile, Subdir, TypeInv, OwnerInv, NameInv, ObjectInv, CacheInv, CurInv,
           CleanupInv, FileInv, Has, SameIdentity, SameVersion
  <1>9. ASSUME ReconcileValidation PROVE OwnerInv'
    BY <1>9, StepFacts
       DEF ReconcileValidation, store, OwnerInv, NameInv, ObjectInv, CacheInv, CurInv, CleanupInv,
           FileInv, Has, SameIdentity, SameVersion
  <1>10. ASSUME ReconcileTargetFile PROVE OwnerInv'
    BY <1>10, StepFacts
       DEF ReconcileTargetFile, Subdir, TypeInv, OwnerInv, NameInv, ObjectInv, CacheInv, CurInv,
           CleanupInv, FileInv, Has, SameIdentity, SameVersion
  <1>11. ASSUME ReconcileFails PROVE OwnerInv'
    BY <1>11, StepFacts
       DEF ReconcileFails, store, OwnerInv, NameInv, ObjectInv, CacheInv, CurInv, CleanupInv,
           FileInv, Has, SameIdentity, SameVersion
  <1>12. ASSUME PatchFinalizer PROVE OwnerInv'
    BY <1>12, FinalizerFacts, CurType
       DEF PatchFinalizer, OwnerInv, NameInv, ObjectInv, CacheInv, CurInv, CleanupInv, FileInv,
           Has, OthersKept, SameIdentity, SameVersion
  <1>13. ASSUME PatchStatus PROVE OwnerInv'
    BY <1>13, StatusFacts, CurType
       DEF PatchStatus, OwnerInv, NameInv, ObjectInv, CacheInv, CurInv, CleanupInv, FileInv, Has,
           OthersKept, SameIdentity, SameVersion
  <1>14. ASSUME PatchFails PROVE OwnerInv'
    BY <1>14, CurType
       DEF PatchFails, store, TypeInv, TypeOK, OwnerInv, NameInv, ObjectInv, CacheInv, CurInv,
           CleanupInv, FileInv, Has
  <1>15. ASSUME Crash PROVE OwnerInv'
    BY <1>15
       DEF Crash, store, TypeInv, TypeOK, OwnerInv, NameInv, ObjectInv, CacheInv, CurInv,
           CleanupInv, FileInv, Has
  <1>16. CASE UNCHANGED vars
    BY <1>16, OwnerFrame DEF vars
  <1> QED
    BY <1>1, <1>2, <1>3, <1>4, <1>5, <1>6, <1>7, <1>8, <1>9, <1>10, <1>11, <1>12, <1>13, <1>14,
       <1>15, <1>16 DEF Next, User, Controller, Step

LEMMA OwnedByInv == OwnerInv => TargetFilesOwned
  BY DEF OwnerInv, FileInv, TargetFilesOwned

\* No target file outlives its measurement: Prometheus scrapes only what a
\* stored measurement with the finalizer asks for.
THEOREM NoOrphanTargetFile == Spec => []TargetFilesOwned
  <1>1. Init => OwnerInv
    BY DEF Init, OwnerInv, NameInv, ObjectInv, CacheInv, CurInv, CleanupInv, FileInv, Has
  <1> QED
    BY <1>1, OwnedByInv, TypeInit, TypeStep, OwnerStep, PTL DEF Spec

-----------------------------------------------------------------------------
(* Readiness.  Whether Ready still holds when it is stored depends on which *)
(* version of the measurement the run worked on, and whether it holds later *)
(* on which version a later run will start from.                            *)

LEMMA TargetFrame ==
    ASSUME TargetInv, UNCHANGED <<obj, cache, target, pc, cur>>
    PROVE  TargetInv'
  BY DEF TargetInv, VersionInv, ReadyInv, CurReadyInv, Version

\* Two measurements with the same name and spec have the same target file.
LEMMA SameTarget ==
    ASSUME NEW o, NEW q, o.name = q.name, o.spec = q.spec
    PROVE  CreateFileSDTarget(o) = CreateFileSDTarget(q)
  BY DEF CreateFileSDTarget, TargetLabels, DefaultLabels, ExtraLabels, Over

LEMMA TargetStep == TypeInv /\ OwnerInv /\ TargetInv /\ [Next]_vars => TargetInv'
  <1> SUFFICES ASSUME TypeInv, OwnerInv, TargetInv, [Next]_vars PROVE TargetInv'
    OBVIOUS
  <1> USE ObjectTypes DEF TargetInv
  <1>1. ASSUME NEW n \in Names, NEW s \in Specs, UserCreate(n, s) PROVE TargetInv'
    <2>0. Created(n, s)
      BY <1>1, CreateFacts
    <2>1. VersionInv'
      BY <2>0 DEF Created, OthersKept, VersionInv, Version, OwnerInv, NameInv
    <2>2. ReadyInv'
      BY <2>0 DEF Created, OthersKept, ReadyInv
    <2>3. CurReadyInv'
      BY <2>0 DEF Created, CurReadyInv
    <2> QED
      BY <2>1, <2>2, <2>3
  <1>2. ASSUME NEW n \in Names, NEW s \in Specs, UserUpdate(n, s) PROVE TargetInv'
    <2>0. Updated(n, s)
      BY <1>2, UpdateFacts
    <2>1. VersionInv'
      BY <2>0 DEF Updated, OthersKept, SameIdentity, VersionInv, Version
    <2>2. ReadyInv'
      <3>1. obj'[n].ready = "True" => obj'[n].observed # obj'[n].gen
        <4>1. obj[n] # None /\ obj[n].gen \in Nat /\ obj[n].observed \in Nat
          BY <2>0 DEF Updated
        <4>2. obj[n].ready = "True" => obj[n].observed <= obj[n].gen
          BY <4>1 DEF ReadyInv
        <4> QED
          BY <2>0, <4>1, <4>2 DEF Updated, SameClaim
      <3> QED
        BY <2>0, <3>1 DEF Updated, OthersKept, SameIdentity, SameClaim, ReadyInv
    <2>3. CurReadyInv'
      BY <2>0 DEF Updated, CurReadyInv
    <2> QED
      BY <2>1, <2>2, <2>3
  <1>3. ASSUME NEW n \in Names, UserDelete(n) PROVE TargetInv'
    <2>0. Deleted(n)
      BY <1>3, DeleteFacts
    <2>1. VersionInv'
      BY <2>0 DEF Deleted, OthersKept, SameIdentity, VersionInv, Version
    <2>2. ReadyInv'
      <3>1. obj'[n] # None /\ obj'[n].ready = "True" => obj'[n].observed # obj'[n].gen
        BY <2>0 DEF Deleted, SameClaim, ReadyInv
      <3> QED
        BY <2>0, <3>1 DEF Deleted, OthersKept, SameIdentity, SameClaim, ReadyInv
    <2>3. CurReadyInv'
      BY <2>0 DEF Deleted, CurReadyInv
    <2> QED
      BY <2>1, <2>2, <2>3
  <1>4. ASSUME NEW d \in Devices, DeviceAppears(d) \/ DeviceDisappears(d) PROVE TargetInv'
    BY <1>4, TargetFrame DEF DeviceAppears, DeviceDisappears, worker
  <1>5. ASSUME NEW n \in Names, CacheSync(n) PROVE TargetInv'
    <2>1. VersionInv'
      BY <1>5 DEF CacheSync, store, TypeInv, TypeOK, VersionInv, Version
    <2>2. ReadyInv'
      BY <1>5 DEF CacheSync, store, TypeInv, TypeOK, ReadyInv, VersionInv, Version
    <2>3. CurReadyInv'
      BY <1>5
         DEF CacheSync, store, TypeInv, TypeOK, CurReadyInv, VersionInv, Version, OwnerInv, CurInv,
             CleanupInv, Has
    <2> QED
      BY <2>1, <2>2, <2>3
  <1>6. ASSUME NEW n \in Names, Resync(n) \/ TimerFires(n) PROVE TargetInv'
    BY <1>6, TargetFrame DEF Resync, TimerFires, store
  <1>7. ASSUME NEW n \in Names, Reconcile(n) PROVE TargetInv'
    <2>1. CASE cache[n] = None
      BY <1>7, <2>1, TargetFrame DEF Reconcile, store
    <2>2. CASE cache[n] # None
      <3>0. Loaded(n) /\ UNCHANGED <<obj, cache, target>>
        BY <1>7, <2>2, LoadFacts DEF Reconcile, store
      <3>1. VersionInv'
        BY <2>2, <3>0 DEF Loaded, VersionInv, Version, SameIdentity, SameVersion, OwnerInv, NameInv
      <3>2. ReadyInv'
        BY <2>2, <3>0 DEF Loaded, ReadyInv, SameIdentity, SameVersion, OwnerInv, NameInv
      <3>3. CurReadyInv'
        BY <2>2, <3>0 DEF Loaded, CurReadyInv, SameIdentity, SameVersion, OwnerInv, NameInv
      <3> QED
        BY <3>1, <3>2, <3>3
    <2> QED
      BY <2>1, <2>2
  <1>8. ASSUME RemoveTargetFile PROVE TargetInv'
    <2>1. VersionInv'
      BY <1>8, StepFacts DEF RemoveTargetFile, VersionInv, Version, SameIdentity, SameVersion
    <2>2. ReadyInv'
      <3>1. cur.del /\ cur.name \in Names /\ cur # None
        BY <1>8, CurType DEF RemoveTargetFile, OwnerInv, CleanupInv
      <3>2. \A m \in Names, t \in Types : m # cur.name => target'[t][m] = target[t][m]
        BY <1>8, CurType DEF RemoveTargetFile, Subdir, TypeInv
      <3>3. LET n == cur.name IN
               obj[n] # None /\ obj[n].ready = "True" => obj[n].observed # obj[n].gen
        BY <3>1 DEF OwnerInv, CurInv, Has, ReadyInv
      <3>4. UNCHANGED <<obj, cache>> /\ cur'.name = cur.name /\ cur'.del = cur.del
        BY <1>8, StepFacts DEF SameIdentity, SameVersion
      <3> QED
        BY <3>1, <3>2, <3>3, <3>4 DEF ReadyInv
    <2>3. CurReadyInv'
      BY <1>8, StepFacts DEF RemoveTargetFile, CurReadyInv, OwnerInv, CleanupInv
    <2> QED
      BY <2>1, <2>2, <2>3
  <1>9. ASSUME ReconcileValidation \/ ReconcileFails PROVE TargetInv'
    <2>0. /\ cur # None /\ cur' # None /\ cur'.name = cur.name /\ cur'.uid = cur.uid
          /\ cur'.gen = cur.gen /\ cur'.del = cur.del /\ cur'.spec = cur.spec
          /\ UNCHANGED <<obj, cache>>
      BY <1>9, StepFacts DEF SameIdentity, SameVersion
    <2>1. UNCHANGED target /\ cur.ready # "True" /\ cur'.ready = cur.ready
      <3>1. UNCHANGED target /\ pc \in {"remove", "validate", "target"}
        BY <1>9 DEF ReconcileValidation, ReconcileFails, store
      <3>2. cur \in Object
        BY <1>9, StepFacts
      <3>3. cur'.ready = cur.ready
        BY <1>9, <3>2 DEF ReconcileValidation, ReconcileFails, Object
      <3> QED
        BY <2>0, <3>1, <3>3 DEF CurReadyInv
    <2>2. VersionInv'
      BY <1>9, StepFacts DEF VersionInv, Version, SameIdentity, SameVersion
    <2>3. ReadyInv'
      BY <2>0, <2>1 DEF ReadyInv
    <2>4. CurReadyInv'
      BY <1>9, <2>1, StepFacts DEF CurReadyInv, SameIdentity, SameVersion
    <2> QED
      BY <2>2, <2>3, <2>4
  <1>10. ASSUME ReconcileTargetFile PROVE TargetInv'
    <2> DEFINE n == cur.name
    <2>1. /\ n \in Names /\ cur # None /\ cur.spec.type \in Types /\ ~cur.del
          /\ Has(n, cur.uid) /\ obj[n].fin
      BY <1>10, CurType DEF ReconcileTargetFile, OwnerInv, CleanupInv, CurInv
    <2>2. /\ target'[cur.spec.type][n] = CreateFileSDTarget(cur)
          /\ \A m \in Names, t \in Types : m # n \/ t # cur.spec.type => target'[t][m] = target[t][m]
      BY <1>10, <2>1 DEF ReconcileTargetFile, Subdir, TypeInv
    <2>3. VersionInv'
      BY <1>10, StepFacts DEF VersionInv, Version, SameIdentity, SameVersion
    <2>4. ReadyInv'
      <3>1. ASSUME obj[n].ready = "True", obj[n].observed = obj[n].gen
            PROVE  obj[n].spec = cur.spec /\ target'[obj[n].spec.type][n] = CreateFileSDTarget(obj[n])
        <4>1. cur.gen = obj[n].gen /\ cur.uid = obj[n].uid
          BY <2>1, <3>1 DEF ReadyInv, VersionInv, Version, Has
        <4>2. cur.spec = obj[n].spec /\ obj[n].name = n
          BY <2>1, <4>1 DEF VersionInv, Version, Has, OwnerInv, NameInv
        <4> QED
          BY <2>2, <4>2, SameTarget
      <3> QED
        BY <1>10, <2>1, <2>2, <3>1, StepFacts DEF ReadyInv, SameIdentity, SameVersion
    <2>5. CurReadyInv'
      <3>1. cache[n] # None /\ cache[n].uid = cur.uid /\ cur.gen <= cache[n].gen
        BY <1>10, <2>1 DEF ReconcileTargetFile, CurReadyInv
      <3>2. CreateFileSDTarget(cur') = CreateFileSDTarget(cur)
        BY <1>10, StepFacts, SameTarget DEF SameIdentity, SameVersion
      <3> QED
        BY <1>10, <2>1, <2>2, <3>1, <3>2, StepFacts
           DEF ReconcileTargetFile, CurReadyInv, SameIdentity, SameVersion
    <2> QED
      BY <2>3, <2>4, <2>5

  <1>11. ASSUME PatchFinalizer PROVE TargetInv'
    <2> DEFINE n == cur.name
    <2>1. /\ n \in Names /\ cur # None /\ cur.ready # "True"
          /\ (cur.fin <=> ~cur.del) /\ UNCHANGED <<cache, target, cur>> /\ pc' = "patchStatus"
      BY <1>11, CurType DEF PatchFinalizer, OwnerInv, CleanupInv, CurReadyInv
    <2>2. VersionInv'
      BY <1>11, <2>1, FinalizerFacts DEF OthersKept, VersionInv, Version, SameIdentity, SameVersion
    <2>3. ReadyInv'
      <3>1. ASSUME obj'[n] # None, obj'[n].ready = "True"
            PROVE  obj[n] # None /\ obj[n].ready = "True" /\ obj[n].fin /\ cur.fin
        <4>1. /\ obj[n] # None /\ obj[n].ready = "True"
              /\ ~(obj[n].del /\ ~cur.fin)
          BY <1>11, <2>1, <3>1, FinalizerFacts DEF SameClaim
        <4>2. obj[n].fin
          BY <2>1, <4>1 DEF ReadyInv
        <4>3. CASE cur.del
          BY <2>1, <4>1, <4>2, <4>3 DEF OwnerInv, CurInv, Has
        <4> QED
          BY <2>1, <4>1, <4>2, <4>3
      <3>2. ASSUME obj[n] # None, obj'[n] # None
            PROVE  CreateFileSDTarget(obj'[n]) = CreateFileSDTarget(obj[n])
        BY <1>11, <2>1, <3>2, FinalizerFacts, SameTarget DEF SameIdentity, SameVersion
      <3> QED
        BY <1>11, <2>1, <3>1, <3>2, FinalizerFacts
           DEF OthersKept, ReadyInv, SameIdentity, SameVersion, SameClaim
    <2>4. CurReadyInv'
      BY <2>1 DEF CurReadyInv
    <2> QED
      BY <2>2, <2>3, <2>4
  <1>12. ASSUME PatchStatus PROVE TargetInv'
    <2> DEFINE n == cur.name
    <2>1. n \in Names /\ cur # None /\ UNCHANGED <<cache, target>> /\ cur' = None
      BY <1>12, CurType DEF PatchStatus
    <2>2. VersionInv'
      BY <1>12, <2>1, StatusFacts DEF OthersKept, VersionInv, Version, SameIdentity, SameVersion
    <2>3. ReadyInv'
      <3>1. ASSUME obj'[n] # None, obj'[n].ready = "True"
            PROVE  /\ obj'[n].fin /\ obj'[n].observed <= obj'[n].gen
                   /\ cache[n] # None /\ cache[n].uid = obj'[n].uid
                   /\ obj'[n].observed <= cache[n].gen
                   /\ obj'[n].observed = obj'[n].gen =>
                         ~obj'[n].del /\ target[obj'[n].spec.type][n] = CreateFileSDTarget(obj'[n])
        <4>1. /\ obj[n] # None /\ cur.ready = "True" /\ obj'[n].observed = cur.gen
              /\ SameIdentity(obj'[n], obj[n]) /\ SameVersion(obj'[n], obj[n]) /\ obj'[n].fin = obj[n].fin
          BY <1>12, <2>1, <3>1, StatusFacts
        <4>2. ~cur.del /\ Has(n, cur.uid) /\ obj[n].fin
          BY <2>1, <4>1 DEF CurReadyInv, OwnerInv, CurInv
        <4>3. cache[n] # None /\ cache[n].uid = cur.uid /\ cur.gen <= cache[n].gen
          BY <2>1, <4>1 DEF CurReadyInv
        <4>4. ASSUME cur.gen = obj[n].gen
              PROVE  ~obj[n].del /\ target[obj[n].spec.type][n] = CreateFileSDTarget(obj'[n])
          <5>1. cur.spec = obj[n].spec /\ obj[n].name = n /\ ~obj[n].del
            BY <2>1, <4>2, <4>4 DEF VersionInv, Version, Has, OwnerInv, NameInv
          <5>2. CreateFileSDTarget(obj'[n]) = CreateFileSDTarget(cur)
            BY <4>1, <5>1, SameTarget DEF SameIdentity, SameVersion
          <5> QED
            BY <2>1, <4>1, <5>1, <5>2 DEF CurReadyInv
        <4>5. cur.gen <= obj[n].gen
          BY <2>1, <4>2 DEF VersionInv, Version, Has
        <4> QED
          BY <4>1, <4>2, <4>3, <4>4, <4>5 DEF SameIdentity, SameVersion, Has
      <3> QED
        BY <1>12, <2>1, <3>1, StatusFacts DEF OthersKept, ReadyInv
    <2>4. CurReadyInv'
      BY <2>1 DEF CurReadyInv
    <2> QED
      BY <2>2, <2>3, <2>4
  <1>13. ASSUME PatchFails PROVE TargetInv'
    BY <1>13, CurType DEF PatchFails, store, VersionInv, Version, ReadyInv, CurReadyInv
  <1>14. ASSUME Crash PROVE TargetInv'
    BY <1>14 DEF Crash, store, VersionInv, Version, ReadyInv, CurReadyInv
  <1>15. CASE UNCHANGED vars
    BY <1>15, TargetFrame DEF vars
  <1> QED
    BY <1>1, <1>2, <1>3, <1>4, <1>5, <1>6, <1>7, <1>8, <1>9, <1>10, <1>11, <1>12, <1>13, <1>14,
       <1>15 DEF Next, User, Controller, Step

LEMMA PMInvariant == Spec => [](TypeInv /\ OwnerInv /\ TargetInv)
  <1>1. Init => OwnerInv
    BY DEF Init, OwnerInv, NameInv, ObjectInv, CacheInv, CurInv, CleanupInv, FileInv, Has
  <1>2. Init => TargetInv
    BY DEF Init, TargetInv, VersionInv, ReadyInv, CurReadyInv
  <1> QED
    BY <1>1, <1>2, TypeInit, TypeStep, OwnerStep, TargetStep, PTL DEF Spec

LEMMA TargetedByInv == TypeInv /\ OwnerInv /\ TargetInv => ReadyMeansTargeted
  <1> SUFFICES ASSUME TypeInv, OwnerInv, TargetInv, NEW n \in Names, ReadyNow(n)
               PROVE  LET s == obj[n].spec
                          t == target[s.type][n] IN
                      /\ t # None
                      /\ t.ip = s.ip /\ t.labels["instance"] = s.ip
                      /\ t.labels["name"] = n
                      /\ s.type = "snmp" => /\ t.labels["__param_module"] = s.device
                                            /\ t.labels["__param_auth"] = s.device
    BY DEF ReadyMeansTargeted
  <1>1. obj[n].name = n /\ obj[n].spec \in Specs
    BY ObjectTypes DEF ReadyNow, OwnerInv, NameInv
  <1>2. target[obj[n].spec.type][n] = CreateFileSDTarget(obj[n])
    BY DEF ReadyNow, TargetInv, ReadyInv
  <1> QED
    BY <1>1, <1>2, LabelTypes

\* Ready is true: a measurement that is Ready for its current generation is
\* scraped as its spec says, whatever versions the worker has seen.
THEOREM ReadyIsTargeted == Spec => []ReadyMeansTargeted
  BY TargetedByInv, PMInvariant, PTL

-----------------------------------------------------------------------------
(* Refinement.  Every step of the controller is a step of the contract that *)
(* ManagedResource states, or leaves it unchanged.                          *)

Addresses == {s.ip : s \in Specs}

WantOf(o) == IF o = None THEN None ELSE o.spec.ip

\* A step that touches the object of one name changes the mapped state of that
\* name only.
LEMMA BarsFollow ==
    ASSUME NEW n \in Names, OthersKept(n)
    PROVE  /\ OwnerBar' = [OwnerBar EXCEPT ![n] = Life(obj'[n])]
           /\ WantBar' = [WantBar EXCEPT ![n] = WantOf(obj'[n])]
           /\ UNCHANGED retyped =>
                 /\ (ReadyNow(n)' <=> ReadyNow(n)) => ReadyBar' = ReadyBar
                 /\ n \in retyped => ReadyBar' = ReadyBar
                 /\ ~ReadyNow(n)' => ReadyBar' = ReadyBar \ {n}
                 /\ ReadyNow(n)' /\ n \notin retyped => ReadyBar' = ReadyBar \cup {n}
           /\ UNCHANGED <<retyped, target>> => ShownBar' = ShownBar
  <1>1. OwnerBar' = [OwnerBar EXCEPT ![n] = Life(obj'[n])]
    BY DEF OwnerBar, OthersKept
  <1>2. WantBar' = [WantBar EXCEPT ![n] = WantOf(obj'[n])]
    BY DEF WantBar, WantOf, OthersKept
  <1>3. \A m \in Names : m # n => (ReadyNow(m)' <=> ReadyNow(m))
    BY DEF OthersKept, ReadyNow
  <1>4. ASSUME UNCHANGED retyped
        PROVE  /\ (ReadyNow(n)' <=> ReadyNow(n)) => ReadyBar' = ReadyBar
               /\ n \in retyped => ReadyBar' = ReadyBar
               /\ ~ReadyNow(n)' => ReadyBar' = ReadyBar \ {n}
               /\ ReadyNow(n)' /\ n \notin retyped => ReadyBar' = ReadyBar \cup {n}
    BY <1>3, <1>4 DEF ReadyBar
  <1>5. UNCHANGED <<retyped, target>> => ShownBar' = ShownBar
    BY DEF ShownBar
  <1> QED
    BY <1>1, <1>2, <1>4, <1>5

\* What is shown of n when the target directories hold f.
ShownIn(f, n) == IF \A t \in Types : f[t][n] = None THEN None
                 ELSE f[CHOOSE t \in Types : f[t][n] # None][n].ip

\* A measurement has at most one file, and that file is shown.
LEMMA ShownFile ==
    ASSUME NEW f, NEW n, \A t, u \in Types : f[t][n] # None /\ f[u][n] # None => t = u
    PROVE  /\ \A t \in Types : f[t][n] # None => ShownIn(f, n) = f[t][n].ip
           /\ (\A t \in Types : f[t][n] = None) => ShownIn(f, n) = None
  <1>1. ASSUME NEW t \in Types, f[t][n] # None PROVE ShownIn(f, n) = f[t][n].ip
    <2>1. (CHOOSE u \in Types : f[u][n] # None) = t
      BY <1>1
    <2> QED
      BY <1>1, <2>1 DEF ShownIn
  <1> QED
    BY <1>1 DEF ShownIn

\* What the mapping says of one object.
LEMMA LifeFacts ==
    ASSUME NEW n \in Names
    PROVE  /\ OwnerBar[n] = Life(obj[n]) /\ WantBar[n] = WantOf(obj[n])
           /\ ShownBar[n] = IF n \in retyped THEN None ELSE ShownIn(target, n)
           /\ n \in ReadyBar <=> n \notin retyped /\ ReadyNow(n)
  BY DEF OwnerBar, WantBar, WantOf, ShownBar, ShownIn, ReadyBar

LEMMA MappedInit == Init => Contract!Init
  BY DEF Init, Contract!Init, OwnerBar, WantBar, ShownBar, ReadyBar, Life, ReadyNow

\* A step that writes or removes the file of one name is a Show step.
LEMMA FileStepShows ==
    ASSUME TypeInv, OwnerInv, OwnerInv', TypeInv', UNCHANGED <<obj, retyped>>,
           NEW n \in Names, NEW t \in Types,
           target' = [target EXCEPT ![t][n] = target'[t][n]],
           n \in retyped \/ target'[t][n] = target[t][n]
              \/ (target'[t][n] = None /\ Life(obj[n]) = "dying")
              \/ (/\ target'[t][n] # None /\ target'[t][n].ip \in Addresses
                  /\ Life(obj[n]) \in {"guarded", "dying"}
                  /\ ReadyNow(n) => target'[t][n].ip = WantOf(obj[n]))
    PROVE  Contract!Show
  <1>1. UNCHANGED <<OwnerBar, WantBar, ReadyBar>>
    BY DEF OwnerBar, WantBar, ReadyBar, ReadyNow
  <1>2. \A m \in Names, u \in Types : m # n \/ u # t => target'[u][m] = target[u][m]
    BY DEF TypeInv
  <1>3. ASSUME NEW m \in Names, ShownBar'[m] # ShownBar[m]
        PROVE  Contract!MayShow(m, ShownBar'[m])
    <2>0. /\ m \notin retyped
          /\ ShownBar[m] = ShownIn(target, m) /\ ShownBar'[m] = ShownIn(target', m)
      BY <1>3 DEF ShownBar, ShownIn
    <2>1. /\ \A v, u \in Types : target[v][m] # None /\ target[u][m] # None => v = u
          /\ \A v, u \in Types : target'[v][m] # None /\ target'[u][m] # None => v = u
      BY <2>0 DEF OwnerInv, FileInv
    <2>2. /\ \A u \in Types : target[u][m] # None => ShownBar[m] = target[u][m].ip
          /\ (\A u \in Types : target[u][m] = None) => ShownBar[m] = None
      BY <2>0, <2>1, ShownFile
    <2>3. /\ \A u \in Types : target'[u][m] # None => ShownBar'[m] = target'[u][m].ip
          /\ (\A u \in Types : target'[u][m] = None) => ShownBar'[m] = None
      BY <2>0, <2>1, ShownFile
    <2>4. m = n /\ target'[t][n] # target[t][n]
      BY <1>2, <1>3, <2>2, <2>3
    <2>5. CASE target'[t][n] = None
      <3>1. \A u \in Types : target'[u][n] = None
        BY <1>2, <2>1, <2>4, <2>5
      <3>2. ShownBar'[n] = None
        BY <2>3, <2>4, <3>1
      <3>3. OwnerBar[n] = "dying"
        BY <2>0, <2>4, <2>5, LifeFacts
      <3> QED
        BY <2>4, <3>2, <3>3 DEF Contract!MayShow
    <2>6. CASE target'[t][n] # None
      <3>1. ShownBar'[n] = target'[t][n].ip
        BY <2>3, <2>4, <2>6
      <3>2. /\ ShownBar'[n] \in Addresses /\ OwnerBar[n] \in {"guarded", "dying"}
            /\ n \in ReadyBar => ShownBar'[n] = WantBar[n]
        BY <2>0, <2>4, <2>6, <3>1, LifeFacts
      <3> QED
        BY <2>4, <3>2 DEF Contract!MayShow, Addresses
    <2> QED
      BY <2>5, <2>6
  <1>4. ShownBar' = [m \in Names |-> ShownBar'[m]]
    BY DEF ShownBar
  <1> QED
    BY <1>1, <1>3, <1>4 DEF Contract!Show

\* User steps map to user steps of the contract; writing and removing files maps
\* to Show, the two patches to Protect, Release, Claim, Retract or nothing.
LEMMA MappedStep ==
    TypeInv /\ OwnerInv /\ TargetInv /\ [Next]_vars => [Contract!Next]_(Contract!vars)
  <1> SUFFICES ASSUME TypeInv, OwnerInv, TargetInv, [Next]_vars
               PROVE  Contract!Next \/ UNCHANGED Contract!vars
    OBVIOUS
  <1> USE ObjectTypes, LifeFacts
  <1>0. TypeInv' /\ OwnerInv'
    BY TypeStep, OwnerStep
  <1>1. ASSUME NEW n \in Names, NEW s \in Specs, UserCreate(n, s) PROVE Contract!Create(n)
    <2>0. Created(n, s)
      BY <1>1, CreateFacts
    <2>1. Life(obj[n]) = "absent" /\ Life(obj'[n]) = "unguarded" /\ WantOf(obj'[n]) = s.ip
      BY <2>0 DEF Created, Life, WantOf
    <2>2. ~ReadyNow(n) /\ ~ReadyNow(n)'
      BY <2>0 DEF Created, ReadyNow
    <2>3. /\ OwnerBar' = [OwnerBar EXCEPT ![n] = "unguarded"] /\ WantBar' = [WantBar EXCEPT ![n] = s.ip]
          /\ ReadyBar' = ReadyBar /\ ShownBar' = ShownBar
      BY <2>0, <2>1, <2>2, BarsFollow DEF Created
    <2> QED
      BY <2>1, <2>3 DEF Contract!Create
  <1>2. ASSUME NEW n \in Names, NEW s \in Specs, UserUpdate(n, s)
        PROVE  Contract!Edit(n) \/ Contract!Move(n)
    <2>0. Updated(n, s)
      BY <1>2, UpdateFacts
    <2>1. /\ Life(obj'[n]) = Life(obj[n]) /\ Life(obj[n]) \in {"guarded", "unguarded"}
          /\ WantOf(obj'[n]) = s.ip
      BY <2>0 DEF Updated, Life, WantOf
    <2>2. ~ReadyNow(n)'
      <3>1. obj[n] # None /\ obj[n].gen \in Nat /\ obj[n].observed \in Nat
        BY <2>0 DEF Updated
      <3>2. obj[n].ready = "True" => obj[n].observed <= obj[n].gen
        BY <3>1 DEF TargetInv, ReadyInv
      <3> QED
        BY <2>0, <3>1, <3>2 DEF Updated, ReadyNow, SameClaim
    <2>3. OwnerBar' = OwnerBar /\ WantBar' = [WantBar EXCEPT ![n] = s.ip]
      <3>1. /\ OwnerBar' = [OwnerBar EXCEPT ![n] = Life(obj[n])]
            /\ WantBar' = [WantBar EXCEPT ![n] = s.ip]
        BY <2>0, <2>1, BarsFollow DEF Updated
      <3> QED
        BY <3>1 DEF OwnerBar
    <2>4. CASE s.type = obj[n].spec.type
      <3>1. ReadyBar' = ReadyBar \ {n} /\ ShownBar' = ShownBar
        BY <2>0, <2>2, <2>4, BarsFollow DEF Updated
      <3> QED
        BY <2>1, <2>3, <3>1 DEF Contract!Edit
    <2>5. CASE s.type # obj[n].spec.type
      <3>1. retyped' = retyped \cup {n} /\ UNCHANGED target
        BY <2>0, <2>5 DEF Updated
      <3>2. \A m \in Names : m # n => (ReadyNow(m)' <=> ReadyNow(m))
        BY <2>0 DEF Updated, OthersKept, ReadyNow
      <3>3. ReadyBar' = ReadyBar \ {n}
        BY <3>1, <3>2 DEF ReadyBar
      <3>4. ShownBar' = [ShownBar EXCEPT ![n] = None]
        BY <3>1 DEF ShownBar
      <3> QED
        BY <2>1, <2>3, <3>3, <3>4 DEF Contract!Move
    <2> QED
      BY <2>4, <2>5
  <1>3. ASSUME NEW n \in Names, UserDelete(n) PROVE Contract!Delete(n)
    <2>0. Deleted(n)
      BY <1>3, DeleteFacts
    <2>2. ~ReadyNow(n)'
      <3>1. obj[n] # None /\ obj[n].gen \in Nat /\ obj[n].observed \in Nat
        BY <2>0 DEF Deleted
      <3>2. obj[n].ready = "True" => obj[n].observed <= obj[n].gen
        BY <3>1 DEF TargetInv, ReadyInv
      <3> QED
        BY <2>0, <3>1, <3>2 DEF Deleted, ReadyNow, SameClaim
    <2>3. /\ OwnerBar' = [OwnerBar EXCEPT ![n] = Life(obj'[n])]
          /\ WantBar' = [WantBar EXCEPT ![n] = WantOf(obj'[n])]
          /\ ReadyBar' = ReadyBar \ {n} /\ ShownBar' = ShownBar
      BY <2>0, <2>2, BarsFollow DEF Deleted
    <2>4. CASE obj[n].fin
      <3>1. Life(obj[n]) = "guarded" /\ Life(obj'[n]) = "dying" /\ WantOf(obj'[n]) = WantOf(obj[n])
        BY <2>0, <2>4 DEF Deleted, Life, WantOf
      <3>2. WantBar' = WantBar
        BY <2>3, <3>1 DEF WantBar, WantOf
      <3> QED
        BY <2>3, <3>1, <3>2 DEF Contract!Delete
    <2>5. CASE ~obj[n].fin
      <3>1. Life(obj[n]) = "unguarded" /\ Life(obj'[n]) = "absent" /\ WantOf(obj'[n]) = None
        BY <2>0, <2>5 DEF Deleted, Life, WantOf
      <3> QED
        BY <2>3, <3>1 DEF Contract!Delete
    <2> QED
      BY <2>0, <2>4, <2>5 DEF Deleted
  <1>4. ASSUME UNCHANGED <<obj, target, retyped>> PROVE UNCHANGED Contract!vars
    BY <1>4 DEF Contract!vars, OwnerBar, WantBar, ShownBar, ReadyBar, ReadyNow
  <1>5. ASSUME NEW d \in Devices, DeviceAppears(d) \/ DeviceDisappears(d) PROVE UNCHANGED Contract!vars
    BY <1>4, <1>5 DEF DeviceAppears, DeviceDisappears
  <1>6. ASSUME NEW n \in Names, CacheSync(n) \/ Resync(n) \/ TimerFires(n) \/ Reconcile(n)
        PROVE  UNCHANGED Contract!vars
    BY <1>4, <1>6 DEF CacheSync, Resync, TimerFires, Reconcile, store
  <1>7. ASSUME ReconcileValidation \/ ReconcileFails \/ PatchFails \/ Crash PROVE UNCHANGED Contract!vars
    BY <1>4, <1>7 DEF ReconcileValidation, ReconcileFails, PatchFails, Crash, store
  <1>8. ASSUME RemoveTargetFile PROVE Contract!Show
    <2> DEFINE n == cur.name
               t == Subdir(cur)
    <2>1. n \in Names /\ t \in Types /\ cur.del /\ cur # None
      BY <1>8, CurType DEF RemoveTargetFile, Subdir, OwnerInv, CleanupInv
    <2>2. target' = [target EXCEPT ![t][n] = target'[t][n]] /\ target'[t][n] = None
      BY <1>8, <2>1 DEF RemoveTargetFile, TypeInv
    <2>3. n \in retyped \/ target'[t][n] = target[t][n] \/ Life(obj[n]) = "dying"
      BY <2>1, <2>2 DEF OwnerInv, FileInv, CurInv, Has, Life
    <2>4. UNCHANGED <<obj, retyped>>
      BY <1>8 DEF RemoveTargetFile
    <2> QED
      BY <1>0, <2>1, <2>2, <2>3, <2>4, FileStepShows
  <1>9. ASSUME ReconcileTargetFile PROVE Contract!Show
    <2> DEFINE n == cur.name
               t == Subdir(cur)
    <2>1. /\ n \in Names /\ t \in Types /\ cur.spec \in Specs /\ cur # None
          /\ ~cur.del /\ Has(n, cur.uid) /\ obj[n].fin
      BY <1>9, CurType DEF ReconcileTargetFile, Subdir, OwnerInv, CleanupInv, CurInv
    <2>2. /\ target' = [target EXCEPT ![t][n] = target'[t][n]]
          /\ target'[t][n] = CreateFileSDTarget(cur)
      BY <1>9, <2>1 DEF ReconcileTargetFile, TypeInv
    <2>3. target'[t][n] # None /\ target'[t][n].ip = cur.spec.ip /\ cur.spec.ip \in Addresses
      BY <2>1, <2>2, LabelTypes DEF Addresses
    <2>4. Life(obj[n]) \in {"guarded", "dying"}
      BY <2>1 DEF Life, Has
    <2>5. ASSUME ReadyNow(n) PROVE cur.spec.ip = WantOf(obj[n])
      <3>1. cur.gen = obj[n].gen /\ cur.uid = obj[n].uid
        BY <2>1, <2>5 DEF ReadyNow, TargetInv, ReadyInv, VersionInv, Version, Has
      <3> QED
        BY <2>1, <3>1 DEF TargetInv, VersionInv, Version, Has, WantOf
    <2>6. UNCHANGED <<obj, retyped>>
      BY <1>9 DEF ReconcileTargetFile
    <2> QED
      BY <1>0, <2>1, <2>2, <2>3, <2>4, <2>5, <2>6, FileStepShows

  <1>10. ASSUME PatchFinalizer PROVE Contract!Next \/ UNCHANGED Contract!vars
    <2>0. PICK n \in Names : n = cur.name
      BY <1>10, CurType DEF PatchFinalizer
    <2>1. /\ n = cur.name /\ cur # None /\ (cur.fin <=> ~cur.del) /\ UNCHANGED <<target, retyped>>
          /\ OthersKept(n)
      BY <1>10, <2>0, CurType, FinalizerFacts DEF PatchFinalizer, OwnerInv, CleanupInv
    <2>2. CASE obj'[n] # None /\ obj'[n].fin = obj[n].fin /\ obj[n] # None
      <3>1. /\ Life(obj'[n]) = Life(obj[n]) /\ WantOf(obj'[n]) = WantOf(obj[n])
            /\ (ReadyNow(n)' <=> ReadyNow(n))
        BY <1>10, <2>1, <2>2, FinalizerFacts DEF Life, WantOf, ReadyNow, SameVersion, SameClaim
      <3>2. /\ OwnerBar' = [OwnerBar EXCEPT ![n] = Life(obj[n])]
            /\ WantBar' = [WantBar EXCEPT ![n] = WantOf(obj[n])]
            /\ ReadyBar' = ReadyBar /\ ShownBar' = ShownBar
        BY <2>1, <3>1, BarsFollow
      <3>3. OwnerBar' = OwnerBar /\ WantBar' = WantBar
        <4>1. OwnerBar' = OwnerBar
          BY <3>2 DEF OwnerBar
        <4>2. WantBar' = WantBar
          BY <3>2 DEF WantBar, WantOf
        <4> QED
          BY <4>1, <4>2
      <3> QED
        BY <3>2, <3>3 DEF Contract!vars
    <2>3. CASE obj[n] # None /\ ~obj[n].fin /\ cur.fin
      <3>0. obj[n].del = FALSE
        BY <2>1, <2>3 DEF OwnerInv, ObjectInv
      <3>1. /\ Life(obj[n]) = "unguarded" /\ Life(obj'[n]) = "guarded"
            /\ WantOf(obj'[n]) = WantOf(obj[n]) /\ (ReadyNow(n)' <=> ReadyNow(n))
        BY <1>10, <2>1, <2>3, <3>0, FinalizerFacts
           DEF Life, WantOf, ReadyNow, SameVersion, SameClaim
      <3>2. /\ OwnerBar' = [OwnerBar EXCEPT ![n] = "guarded"]
            /\ WantBar' = [WantBar EXCEPT ![n] = WantOf(obj[n])]
            /\ ReadyBar' = ReadyBar /\ ShownBar' = ShownBar
        BY <2>1, <3>1, BarsFollow
      <3>3. WantBar' = WantBar
        BY <3>2 DEF WantBar, WantOf
      <3> QED
        BY <2>1, <3>1, <3>2, <3>3 DEF Contract!Next, Contract!Protect
    <2>4. CASE obj[n] # None /\ obj[n].del /\ ~cur.fin
      <3>1. /\ Life(obj[n]) = "dying" /\ Life(obj'[n]) = "absent" /\ WantOf(obj'[n]) = None
            /\ ~ReadyNow(n)'
        BY <1>10, <2>1, <2>4, FinalizerFacts DEF Life, WantOf, ReadyNow
      <3>2. ~ReadyNow(n)
        BY <2>1, <2>4 DEF ReadyNow, TargetInv, ReadyInv
      <3>3. /\ OwnerBar' = [OwnerBar EXCEPT ![n] = "absent"] /\ WantBar' = [WantBar EXCEPT ![n] = None]
            /\ ReadyBar' = ReadyBar /\ ShownBar' = ShownBar
        BY <2>1, <3>1, <3>2, BarsFollow
      <3>4. ShownBar[n] = None
        <4>1. n \notin retyped => \A t \in Types : target[t][n] = None
          BY <1>10, <2>1, <2>4 DEF PatchFinalizer, OwnerInv, CleanupInv
        <4> QED
          BY <2>1, <4>1 DEF ShownBar
      <3> QED
        BY <2>1, <3>1, <3>3, <3>4 DEF Contract!Next, Contract!Release
    <2>5. CASE obj[n] = None
      <3>1. obj' = obj
        BY <1>10, <2>1, <2>5 DEF PatchFinalizer, TypeInv, TypeOK
      <3> QED
        BY <1>4, <2>1, <3>1
    <2>6. CASE obj[n] # None /\ ~obj[n].del /\ ~cur.fin
      <3>1. ~obj[n].fin
        BY <2>1, <2>6 DEF OwnerInv, CurInv, Has
      <3> QED
        BY <1>10, <2>1, <2>2, <2>6, <3>1, FinalizerFacts
    <2>7. CASE obj[n] # None /\ obj[n].fin /\ cur.fin
      BY <1>10, <2>1, <2>2, <2>7, FinalizerFacts
    <2> QED
      BY <2>1, <2>3, <2>4, <2>5, <2>6, <2>7
  <1>11. ASSUME PatchStatus PROVE Contract!Next \/ UNCHANGED Contract!vars
    <2>0. PICK n \in Names : n = cur.name
      BY <1>11, CurType DEF PatchStatus
    <2>1. n = cur.name /\ cur # None /\ OthersKept(n) /\ UNCHANGED <<target, retyped>>
      BY <1>11, <2>0, CurType, StatusFacts DEF PatchStatus
    <2>2. CASE obj[n] = None
      <3>1. obj' = obj
        BY <1>11, <2>1, <2>2 DEF PatchStatus, TypeInv, TypeOK
      <3> QED
        BY <1>4, <2>1, <3>1
    <2>3. CASE obj[n] # None
      <3>1. Life(obj'[n]) = Life(obj[n]) /\ WantOf(obj'[n]) = WantOf(obj[n])
        BY <1>11, <2>1, <2>3, StatusFacts DEF Life, WantOf, SameVersion
      <3>2. /\ OwnerBar' = [OwnerBar EXCEPT ![n] = Life(obj[n])]
            /\ WantBar' = [WantBar EXCEPT ![n] = WantOf(obj[n])]
            /\ ShownBar' = ShownBar
        BY <2>1, <3>1, BarsFollow
      <3>3. OwnerBar' = OwnerBar /\ WantBar' = WantBar
        <4>1. OwnerBar' = OwnerBar
          BY <3>2 DEF OwnerBar
        <4>2. WantBar' = WantBar
          BY <3>2 DEF WantBar, WantOf
        <4> QED
          BY <4>1, <4>2
      <3>4. CASE ~ReadyNow(n)'
        <4>1. ReadyBar' = ReadyBar \ {n}
          BY <2>1, <3>4, BarsFollow
        <4> QED
          BY <2>1, <3>2, <3>3, <4>1 DEF Contract!Next, Contract!Retract
      <3>5. CASE n \in retyped
        <4>1. ReadyBar' = ReadyBar
          BY <2>1, <3>5, BarsFollow
        <4> QED
          BY <3>2, <3>3, <4>1 DEF Contract!vars
      <3>6. CASE ReadyNow(n)' /\ n \notin retyped
        <4>1. ReadyBar' = ReadyBar \cup {n}
          BY <2>1, <3>6, BarsFollow
        <4>2. /\ cur.ready = "True" /\ cur.gen = obj[n].gen
          BY <1>11, <2>1, <2>3, <3>6, StatusFacts DEF ReadyNow, SameVersion
        <4>3. ~cur.del /\ Has(n, cur.uid) /\ obj[n].fin
          BY <2>1, <4>2 DEF TargetInv, CurReadyInv, OwnerInv, CurInv
        <4>4. cur.spec = obj[n].spec /\ ~obj[n].del
          BY <2>1, <4>2, <4>3 DEF TargetInv, VersionInv, Version, Has
        <4>5. target[cur.spec.type][n] = CreateFileSDTarget(cur)
          BY <2>1, <4>2 DEF TargetInv, CurReadyInv
        <4>6. ShownBar[n] = WantBar[n]
          <5>1. target[cur.spec.type][n] # None /\ target[cur.spec.type][n].ip = cur.spec.ip
            BY <2>1, <4>5, LabelTypes
          <5>2. \A t, u \in Types : target[t][n] # None /\ target[u][n] # None => t = u
            BY <2>1, <3>6 DEF OwnerInv, FileInv
          <5>3. ShownIn(target, n) = cur.spec.ip
            BY <2>1, <5>1, <5>2, ShownFile
          <5> QED
            BY <2>1, <2>3, <3>6, <4>4, <5>3 DEF WantOf
        <4>7. OwnerBar[n] = "guarded"
          BY <2>1, <2>3, <4>3, <4>4 DEF Life
        <4> QED
          BY <2>1, <3>2, <3>3, <4>1, <4>6, <4>7 DEF Contract!Next, Contract!Claim
      <3> QED
        BY <3>4, <3>5, <3>6
    <2> QED
      BY <2>2, <2>3
  <1>12. CASE UNCHANGED vars
    BY <1>4, <1>12 DEF vars
  <1> QED
    BY <1>1, <1>2, <1>3, <1>5, <1>6, <1>7, <1>8, <1>9, <1>10, <1>11, <1>12
       DEF Next, User, Controller, Step, Contract!Next

\* The controller implements the contract of ManagedResource, for any number of
\* measurements and specs: a target is shown only under the finalizer, Ready is
\* claimed only for what is shown, and an object goes only after its target.
THEOREM RefinesContract == Spec => ImplementsContract
  BY PMInvariant, MappedInit, MappedStep, PTL DEF Spec, ImplementsContract, Contract!Spec
=============================================================================
