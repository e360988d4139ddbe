---------------------- MODULE DataCenterResourceProofs ----------------------
(***************************************************************************)
(* Proofs about DataCenterResource for every set of resources and specs,   *)
(* and however many edits, deletions, ConfigMap versions, crashes and      *)
(* failures.                                                               *)
(***************************************************************************)
EXTENDS DataCenterResource, ResourceGraphProofs

Has(n, u) == obj[n] # None /\ obj[n].uid = u

SameIdentity(o, q) == o.name = q.name /\ o.uid = q.uid
SameVersion(o, q)  == o.gen = q.gen /\ o.spec = q.spec /\ o.del = q.del
SameClaim(o, q)    == o.ready = q.ready /\ o.readyGen = q.readyGen

\* The worker runs for n.
Runs(n) == cur # None /\ cur.name = n

-----------------------------------------------------------------------------
(* Inductive invariants.                                                    *)

\* Every resource is stored and cached under its own name.
NameInv ==
    /\ \A n \in Names : obj[n] # None => obj[n].name = n
    /\ \A n \in Names : cache[n] # None => cache[n].name = n

\* A copy of a resource that was stored under n, ordered among the resources
\* that had the name: the next one to be created is none of those seen so far.
OldCopy(n, u) == IF obj[n] = None THEN u < spent.delete ELSE u <= obj[n].uid

UidInv ==
    /\ \A n \in Names : obj[n] # None =>
          /\ obj[n].uid <= spent.delete
          /\ obj[n].del => obj[n].uid < spent.delete
    /\ \A n \in Names : cache[n] # None => OldCopy(n, cache[n].uid)
    /\ cur # None => OldCopy(cur.name, cur.uid)

\* An object being deleted has the finalizer, or it would be gone.
ObjectInv ==
    /\ \A n \in Names : obj[n] # None /\ obj[n].del => obj[n].fin
    /\ \A n \in Names : cache[n] # None /\ cache[n].del => cache[n].fin

\* What a cached resource says about the stored one.
CacheInv ==
    \A n \in Names : cache[n] # None =>
        /\ cache[n].fin /\ ~cache[n].del => Has(n, cache[n].uid) /\ obj[n].fin
        /\ cache[n].del /\ Has(n, cache[n].uid) => obj[n].del
        /\ cache[n].del /\ obj[n] # None /\ obj[n].uid # cache[n].uid => ~obj[n].fin

\* The same for the resource in the worker's memory.
CurInv ==
    cur # None =>
        /\ ~cur.del /\ (pc \in {"validate", "writeRule", "reload"} \/ cur.ready = "True")
              => Has(cur.name, cur.uid) /\ obj[cur.name].fin
        /\ cur.del /\ Has(cur.name, cur.uid) => obj[cur.name].del
        /\ cur.del /\ obj[cur.name] # None /\ obj[cur.name].uid # cur.uid => ~obj[cur.name].fin
        /\ cur.del /\ cache[cur.name] # None /\ cache[cur.name].uid = cur.uid => cache[cur.name].del
        /\ ~cur.del /\ cache[cur.name] # None /\ cache[cur.name].del
              => Has(cur.name, cache[cur.name].uid)

\* How far the worker is with a deletion.
CleanupInv ==
    /\ pc = "removeRule" => cur.del
    /\ pc \in {"validate", "writeRule"} => ~cur.del
    /\ pc = "reload" /\ cur.del => rule[cur.name] = None
    /\ pc = "patchFinalizer" => (cur.fin <=> ~cur.del)
    /\ pc = "patchFinalizer" /\ cur.del => rule[cur.name] = None /\ loaded[cur.name] = None

\* RulesOwned; and a file is only ever removed for a resource being deleted.
RuleInv ==
    /\ RulesOwned
    /\ \A n \in Names : loaded[n] # None /\ rule[n] = None => obj[n].del
    /\ \A n \in Names : rule[n] \notin {None, Partial, Short} => \E s \in Specs : rule[n].parents = s.parents

OwnerInv == NameInv /\ UidInv /\ ObjectInv /\ CacheInv /\ CurInv /\ CleanupInv /\ RuleInv

\* A copy is an earlier version of the stored object, or that version itself.
Version(copy, o) ==
    copy.uid = o.uid => /\ copy.gen <= o.gen
                        /\ copy.gen = o.gen => copy.spec = o.spec /\ copy.del = o.del

VersionInv ==
    /\ \A n \in Names : cache[n] # None /\ obj[n] # None => Version(cache[n], obj[n])
    /\ cur # None /\ obj[cur.name] # None => Version(cur, obj[cur.name])

\* What Ready says, stored or about to be stored.
ReadyInv ==
    \A n \in Names : obj[n] # None /\ obj[n].ready = "True" =>
        /\ obj[n].fin /\ obj[n].readyGen <= obj[n].gen
        /\ cache[n] # None /\ cache[n].uid = obj[n].uid /\ obj[n].readyGen <= cache[n].gen
        /\ Runs(n) /\ ~cur.del => cur.uid = obj[n].uid /\ obj[n].readyGen <= cur.gen
        /\ obj[n].readyGen = obj[n].gen =>
              /\ ~obj[n].del
              /\ RulesOf(loaded[n], obj[n].spec) \/ (loaded[n] = Short /\ Pending(n))
              /\ RulesOf(rule[n], obj[n].spec) \/ (rule[n] \in {Partial, Short} /\ Pending(n))

CurReadyInv ==
    cur # None =>
        /\ pc = "reload" /\ ~cur.del => RulesOf(rule[cur.name], cur.spec)
        /\ cur.ready = "True" => /\ pc = "patchStatus" /\ ~cur.del /\ cur.readyGen = cur.gen
                                 /\ RulesOf(loaded[cur.name], cur.spec)
                                 /\ loaded[cur.name] = rule[cur.name]
        /\ ~cur.del /\ (pc \in {"validate", "writeRule", "reload"} \/ cur.ready = "True") =>
              cache[cur.name] # None /\ cache[cur.name].uid = cur.uid /\ cur.gen <= cache[cur.name].gen

LoadInv == VersionInv /\ ReadyInv /\ CurReadyInv

\* The resources that are Ready, and the one the worker has validated.
Validated(n) ==
    /\ Runs(n) /\ Has(n, cur.uid) /\ cur.gen = obj[n].gen
    /\ ~cur.del /\ (pc \in {"writeRule", "reload"} \/ cur.ready = "True")

Sound == {n \in Names : ReadyNow(n) \/ Validated(n)}

StoredParents == [n \in Names |-> obj[n].spec.parents]

AcyclicInv == NoCycle(Sound, StoredParents)

\* Who is not in the queue has nothing left to do, or is being worked on.
QueueInv ==
    /\ cur # None /\ cur.name \notin queue =>
          cache[cur.name] # None /\ SameIdentity(cur, cache[cur.name]) /\ SameVersion(cur, cache[cur.name])
    /\ pc = "patchFinalizer" /\ ~cur.del /\ cur.name \notin queue => ~cache[cur.name].fin
    /\ pc = "patchStatus" /\ cur.name \notin queue /\ cur.ready # "True" /\ Has(cur.name, cur.uid) =>
          obj[cur.name].fin # cache[cur.name].fin
    /\ \A n \in Names : obj[n] # None /\ n \notin queue /\ ~Runs(n) /\ cache[n] = obj[n] => ReadyNow(n)

\* Nor has its ConfigMap changed since.
ConfigMapInv ==
    /\ \A n \in Names : ReadyNow(n) /\ obj[n].spec.from = "configMap" /\ n \notin queue /\ ~Runs(n) =>
          loaded[n].version = cmCache /\ rule[n] = loaded[n]
    /\ cur # None /\ cur.name \notin queue /\ cur.spec.from = "configMap" /\ ~cur.del
          /\ (pc = "reload" \/ cur.ready = "True") => rule[cur.name].version = cmCache


-----------------------------------------------------------------------------
(* Types.                                                                   *)

Spendings == [create : Nat, update : Nat, delete : Nat, fault : Nat]

\* Changing fields of a resource in memory or in the store keeps its type.
LEMMA FieldTypes ==
    ASSUME NEW o \in Object, NEW q \in Object
    PROVE  /\ \A v \in Conditions : [o EXCEPT !.applied = v] \in Object
           /\ \A v \in Conditions, i \in Names \cup {None} :
                 [o EXCEPT !.validated = v, !.involved = i] \in Object
           /\ \A b \in BOOLEAN : [o EXCEPT !.fin = b] \in Object
           /\ [o EXCEPT !.del = TRUE, !.gen = @ + 1] \in Object
           /\ \A s \in Specs : [o EXCEPT !.spec = s, !.gen = @ + 1] \in Object
           /\ \A b \in BOOLEAN, g \in Nat :
                 [o EXCEPT !.ready = "Unknown", !.readyGen = g, !.fin = b] \in Object
           /\ [o EXCEPT !.applied = "True", !.ready = "True", !.readyGen = o.gen] \in Object
           /\ \A i \in Names \cup {None}, g \in Nat :
                 [o EXCEPT !.involved = i, !.observed = g] \in Object
           /\ [o EXCEPT !.ready = q.ready, !.validated = q.validated, !.applied = q.applied,
                        !.readyGen = q.readyGen, !.observed = q.gen, !.involved = q.involved]
                 \in Object
  <1>0. o.gen + 1 \in Nat
    BY DEF Object
  <1>1. \A v \in Conditions : [o EXCEPT !.applied = v] \in Object
    BY DEF Object
  <1>2. \A v \in Conditions, i \in Names \cup {None} :
           [o EXCEPT !.validated = v, !.involved = i] \in Object
    BY DEF Object
  <1>3. \A b \in BOOLEAN : [o EXCEPT !.fin = b] \in Object
    BY DEF Object
  <1>4. [o EXCEPT !.del = TRUE, !.gen = @ + 1] \in Object
    <2>1. \A g \in Nat : [o EXCEPT !.del = TRUE, !.gen = g] \in Object
      BY DEF Object
    <2> QED BY <2>1, <1>0
  <1>5. \A s \in Specs : [o EXCEPT !.spec = s, !.gen = @ + 1] \in Object
    <2>1. \A s \in Specs, g \in Nat : [o EXCEPT !.spec = s, !.gen = g] \in Object
      BY DEF Object
    <2> QED BY <2>1, <1>0
  <1>6. \A b \in BOOLEAN, g \in Nat :
           [o EXCEPT !.ready = "Unknown", !.readyGen = g, !.fin = b] \in Object
    BY DEF Object, Conditions
  <1>7. [o EXCEPT !.applied = "True", !.ready = "True", !.readyGen = o.gen] \in Object
    BY DEF Object, Conditions
  <1>8. \A i \in Names \cup {None}, g \in Nat : [o EXCEPT !.involved = i, !.observed = g] \in Object
    BY DEF Object
  <1>9. [o EXCEPT !.ready = q.ready, !.validated = q.validated, !.applied = q.applied,
                  !.readyGen = q.readyGen, !.observed = q.gen, !.involved = q.involved] \in Object
    BY DEF Object
  <1> QED
    BY <1>1, <1>2, <1>3, <1>4, <1>5, <1>6, <1>7, <1>8, <1>9

LEMMA SpentTypes ==
    ASSUME spent \in Spendings
    PROVE  /\ [spent EXCEPT !.create = @ + 1] \in Spendings
           /\ [spent EXCEPT !.update = @ + 1] \in Spendings
           /\ [spent EXCEPT !.delete = @ + 1] \in Spendings
           /\ [spent EXCEPT !.fault = @ + 1] \in Spendings
  <1>1. \A k \in Nat : /\ [spent EXCEPT !.create = k] \in Spendings
                       /\ [spent EXCEPT !.update = k] \in Spendings
                       /\ [spent EXCEPT !.delete = k] \in Spendings
                       /\ [spent EXCEPT !.fault = k] \in Spendings
    BY DEF Spendings
  <1>2. /\ spent.create + 1 \in Nat /\ spent.update + 1 \in Nat
        /\ spent.delete + 1 \in Nat /\ spent.fault + 1 \in Nat
    BY DEF Spendings
  <1> QED
    BY <1>1, <1>2

\* While the worker runs it holds a resource.
LEMMA CurType ==
    ASSUME TypeOK, pc # "idle"
    PROVE  /\ cur \in Object /\ cur # None
           /\ cur.name \in Names /\ cur.gen \in Nat /\ cur.spec \in Specs
           /\ cur.spec.parents \in Seq(Names) /\ cur.spec.from \in {"value", "configMap"}
           /\ cur.del \in BOOLEAN /\ cur.fin \in BOOLEAN
  <1>1. cur \in Object
    BY DEF TypeOK
  <1> QED
    BY <1>1, SpecsAssumption, DCRNoneAssumption DEF Object

\* The graph that validateGraph is given, and whom it may name.
LEMMA GraphType ==
    ASSUME TypeOK
    PROVE  /\ CachedGraph \in [Names -> Seq(Names) \cup {None}]
           /\ pc = "validate" => Culprits \subseteq Names
  <1>1. \A n \in Names : cache[n] # None => cache[n].spec.parents \in Seq(Names)
    BY SpecsAssumption DEF TypeOK, Object
  <1>2. CachedGraph \in [Names -> Seq(Names) \cup {None}]
    BY <1>1 DEF CachedGraph
  <1> QED
    BY <1>2 DEF Culprits, Missing, Closing, Ancestors

\* Clearing a resource keeps its type.
LEMMA ClearedType ==
    ASSUME TypeOK, NEW m \in Names, obj[m] # None, cache[m] # None
    PROVE  Cleared(m) \in Object
  <1>1. obj[m] \in Object /\ cache[m] \in Object
    BY DEF TypeOK
  <1> DEFINE i == IF cache[m].involved # None THEN None ELSE obj[m].involved
             g == IF cache[m].observed # cache[m].gen THEN cache[m].gen ELSE obj[m].observed
  <1>2. i \in Names \cup {None} /\ g \in Nat
    BY <1>1 DEF Object
  <1>3. Cleared(m) = [obj[m] EXCEPT !.involved = i, !.observed = g]
    BY DEF Cleared
  <1>4. \A j \in Names \cup {None}, h \in Nat : [obj[m] EXCEPT !.involved = j, !.observed = h] \in Object
    BY <1>1, FieldTypes
  <1> HIDE DEF i, g
  <1> QED
    BY <1>2, <1>3, <1>4

\* Every step keeps the types, and what the worker holds at each step.
LEMMA TypeStep == TypeOK /\ [Next]_vars => TypeOK'
  <1> SUFFICES ASSUME TypeOK, [Next]_vars PROVE TypeOK'
    OBVIOUS
  <1> USE DCRNoneAssumption
  <1>1. ASSUME NEW n \in Names, NEW s \in Specs, UserCreate(n, s) PROVE TypeOK'
    <2>1. spent' \in Spendings
      BY <1>1, SpentTypes DEF UserCreate, TypeOK, Spendings
    <2> QED
      BY <1>1, <2>1 DEF UserCreate, TypeOK, Object, Conditions, caches, worker, Spendings
  <1>2. ASSUME NEW n \in Names, NEW s \in Specs, UserUpdate(n, s) PROVE TypeOK'
    <2>1. [obj[n] EXCEPT !.spec = s, !.gen = @ + 1] \in Object
      BY <1>2, FieldTypes DEF UserUpdate, TypeOK
    <2>2. obj' = [obj EXCEPT ![n] = [obj[n] EXCEPT !.spec = s, !.gen = @ + 1]]
      BY <1>2 DEF UserUpdate, TypeOK
    <2>3. spent' \in Spendings
      BY <1>2, SpentTypes DEF UserUpdate, TypeOK, Spendings
    <2> QED
      BY <1>2, <2>1, <2>2, <2>3 DEF UserUpdate, TypeOK, caches, worker, Spendings
  <1>3. ASSUME NEW n \in Names, UserDelete(n) PROVE TypeOK'
    <2>1. spent' \in Spendings
      BY <1>3, SpentTypes DEF UserDelete, TypeOK, Spendings
    <2> QED
      BY <1>3, <2>1, FieldTypes DEF UserDelete, TypeOK, caches, worker, Spendings
  <1>4. ASSUME ConfigMapChange \/ ConfigMapSync PROVE TypeOK'
    BY <1>4 DEF ConfigMapChange, ConfigMapSync, TypeOK, api, caches, worker
  <1>5. ASSUME NEW n \in Names, CacheSync(n) \/ Resync(n) PROVE TypeOK'
    BY <1>5 DEF CacheSync, Resync, TypeOK, api, caches
  <1>6. ASSUME NEW n \in Names, Reconcile(n) PROVE TypeOK'
    <2>1. CASE cache[n] = None
      BY <1>6, <2>1 DEF Reconcile, TypeOK, api, caches
    <2>2. CASE cache[n] # None
      <3>1. cache[n] \in Object
        BY <2>2 DEF TypeOK
      <3>2. cur' \in Object
        <4>1. cache[n].gen \in Nat /\ cache[n].fin \in BOOLEAN /\ cache[n].del \in BOOLEAN
          BY <3>1 DEF Object
        <4> QED
          BY <1>6, <2>2, <3>1, <4>1, FieldTypes DEF Reconcile
      <3>3. pc' \in {"removeRule", "patchStatus", "patchFinalizer", "validate"}
        BY <1>6, <2>2, <3>1 DEF Reconcile, FirstStep, Object
      <3> QED
        BY <1>6, <2>2, <3>2, <3>3 DEF Reconcile, TypeOK, api, caches
    <2> QED
      BY <2>1, <2>2
  <1>7. ASSUME RemoveRule PROVE TypeOK'
    BY <1>7, CurType DEF RemoveRule, TypeOK, api, caches
  <1>8. ASSUME ValidationFails PROVE TypeOK'
    <2>1. PICK i \in Names \cup {None} : cur' = [cur EXCEPT !.validated = "False", !.involved = i]
      BY <1>8, GraphType DEF ValidationFails
    <2>2. cur \in Object
      BY <1>8, CurType DEF ValidationFails
    <2>3. cur' \in Object
      BY <2>1, <2>2, FieldTypes DEF Conditions
    <2> QED
      BY <1>8, <2>3, CurType DEF ValidationFails, StepError, TypeOK, api, caches
  <1>9. ASSUME ValidationSucceeds PROVE TypeOK'
    <2>1. cur' \in Object
      BY <1>9, CurType, FieldTypes DEF ValidationSucceeds, Conditions
    <2>2. obj' \in [Names -> Object \cup {None}]
      BY <1>9, ClearedType DEF ValidationSucceeds, Nudged, TypeOK
    <2> QED
      BY <1>9, <2>1, <2>2 DEF ValidationSucceeds, TypeOK, caches
  <1>10. ASSUME TemplateUnresolved \/ ReloadRejected PROVE TypeOK'
    <2>1. cur' \in Object
      BY <1>10, CurType, FieldTypes DEF TemplateUnresolved, ReloadRejected, Conditions
    <2> QED
      BY <1>10, <2>1, CurType DEF TemplateUnresolved, ReloadRejected, StepError, TypeOK, api, caches
  <1>11. ASSUME WriteRule PROVE TypeOK'
    <2>1. BuildRuleFile \in RuleFile
      BY <1>11, CurType DEF WriteRule, BuildRuleFile, RuleFile, TypeOK
    <2> QED
      BY <1>11, <2>1, CurType DEF WriteRule, TypeOK, api, caches
  <1>12. ASSUME ReloadPrometheus PROVE TypeOK'
    <2>1. cur' \in Object
      BY <1>12, CurType, FieldTypes DEF ReloadPrometheus
    <2>2. loaded' \in [Names -> RuleFile \cup {None, Short}]
      BY <1>12 DEF ReloadPrometheus, Loadable, Loads, TypeOK
    <2> QED
      BY <1>12, <2>1, <2>2 DEF ReloadPrometheus, TypeOK, api, caches
  <1>13. ASSUME ReconcileFails PROVE TypeOK'
    <2>1. cur' \in Object
      BY <1>13, CurType, FieldTypes DEF ReconcileFails, Conditions
    <2>2. spent' \in Spendings
      BY <1>13, SpentTypes DEF ReconcileFails, TypeOK, Spendings
    <2>3. rule' \in [Names -> RuleFile \cup {None, Partial, Short}]
      BY <1>13, CurType DEF ReconcileFails, MayBeCutShort, TypeOK
    <2> QED
      BY <1>13, <2>1, <2>2, <2>3, CurType
         DEF ReconcileFails, StepError, TypeOK, api, caches, Spendings
  <1>14. ASSUME PatchFinalizer PROVE TypeOK'
    BY <1>14, CurType, FieldTypes DEF PatchFinalizer, RetryMissing, TypeOK, caches
  <1>15. ASSUME PatchStatus PROVE TypeOK'
    <2>1. \A o \in Object : StatusOf(o) \in Object
      BY <1>15, CurType, FieldTypes DEF PatchStatus, StatusOf
    <2> QED
      BY <1>15, <2>1, CurType DEF PatchStatus, RetryMissingStatus, TypeOK, caches
  <1>16. ASSUME PatchFails PROVE TypeOK'
    <2>1. spent' \in Spendings
      BY <1>16, SpentTypes DEF PatchFails, TypeOK, Spendings
    <2> QED
      BY <1>16, <2>1, CurType DEF PatchFails, TypeOK, api, caches, Spendings
  <1>17. ASSUME Crash PROVE TypeOK'
    <2>1. spent' \in Spendings
      BY <1>17, SpentTypes DEF Crash, TypeOK, Spendings
    <2>2. rule' \in [Names -> RuleFile \cup {None, Partial, Short}]
      BY <1>17, CurType DEF Crash, MayBeCutShort, TypeOK
    <2> QED
      BY <1>17, <2>1, <2>2 DEF Crash, TypeOK, api, Spendings
  <1>18. CASE UNCHANGED vars
    BY <1>18 DEF vars, TypeOK
  <1> QED
    BY <1>1, <1>2, <1>3, <1>4, <1>5, <1>6, <1>7, <1>8, <1>9, <1>10, <1>11, <1>12, <1>13, <1>14,
       <1>15, <1>16, <1>17, <1>18 DEF Next, Step

\* Types: the state of the controller and of Prometheus stays well formed, and
\* what Prometheus runs is never a file it refuses.
THEOREM TypeCorrect == Spec => []TypeOK
  <1>1. Init => TypeOK
    BY DEF Init, TypeOK
  <1> QED
    BY <1>1, TypeStep, PTL DEF Spec

-----------------------------------------------------------------------------
(* What each action does to the resources, field by field.                  *)

OthersKept(n) == \A m \in Names : m # n => obj'[m] = obj[m]

Created(n, s) ==
    /\ obj[n] = None /\ OthersKept(n)
    /\ obj'[n] \in Object /\ obj'[n] # None
    /\ obj'[n].name = n /\ obj'[n].uid = spent.delete /\ obj'[n].gen = 1
    /\ obj'[n].spec = s /\ obj'[n].del = FALSE /\ obj'[n].fin = FALSE
    /\ obj'[n].ready = "Unknown" /\ obj'[n].readyGen = 0
    /\ spent'.delete = spent.delete
    /\ UNCHANGED <<cache, cmCache, rule, loaded, queue, pc, cur>>

LEMMA CreateFacts ==
    ASSUME TypeOK, NEW n \in Names, NEW s \in Specs, UserCreate(n, s)
    PROVE  Created(n, s)
  <1>1. obj'[n] = [name |-> n, uid |-> spent.delete, gen |-> 1, spec |-> s,
                   del |-> FALSE, fin |-> FALSE,
                   ready |-> "Unknown", validated |-> "Unknown",
                   applied |-> "Unknown", readyGen |-> 0, observed |-> 0,
                   involved |-> None]
    BY DEF UserCreate, TypeOK
  <1>2. spent'.delete = spent.delete /\ spent.delete \in Nat
    BY DEF UserCreate, TypeOK
  <1>3. obj'[n] \in Object
    BY <1>1, <1>2 DEF Object, Conditions
  <1> QED
    BY <1>1, <1>2, <1>3, DCRNoneAssumption
       DEF UserCreate, TypeOK, OthersKept, caches, worker, Created

Updated(n, s) ==
    /\ obj[n] \in Object /\ obj[n] # None /\ obj[n].del = FALSE /\ OthersKept(n)
    /\ obj'[n] \in Object /\ obj'[n] # None
    /\ SameIdentity(obj'[n], obj[n]) /\ SameClaim(obj'[n], obj[n])
    /\ obj'[n].gen = obj[n].gen + 1 /\ obj'[n].spec = s
    /\ obj'[n].del = FALSE /\ obj'[n].fin = obj[n].fin
    /\ spent'.delete = spent.delete
    /\ UNCHANGED <<cache, cmCache, rule, loaded, queue, pc, cur>>

LEMMA UpdateFacts ==
    ASSUME TypeOK, NEW n \in Names, NEW s \in Specs, UserUpdate(n, s)
    PROVE  Updated(n, s)
  <1>1. obj[n] \in Object /\ obj[n].del = FALSE
    BY DEF UserUpdate, TypeOK, Object
  <1>2. obj'[n] = [obj[n] EXCEPT !.spec = s, !.gen = @ + 1]
    BY DEF UserUpdate, TypeOK
  <1>3. obj'[n] \in Object
    BY <1>1, <1>2, FieldTypes
  <1>4. /\ SameIdentity(obj'[n], obj[n]) /\ SameClaim(obj'[n], obj[n])
        /\ obj'[n].gen = obj[n].gen + 1 /\ obj'[n].spec = s
        /\ obj'[n].del = obj[n].del /\ obj'[n].fin = obj[n].fin
    BY <1>1, <1>2 DEF Object, SameIdentity, SameClaim
  <1>5. OthersKept(n)
    BY DEF UserUpdate, TypeOK, OthersKept
  <1>6. spent'.delete = spent.delete
    BY DEF UserUpdate, TypeOK
  <1> QED
    BY <1>1, <1>3, <1>4, <1>5, <1>6, DCRNoneAssumption DEF UserUpdate, caches, worker, Updated

Deleted(n) ==
    /\ obj[n] \in Object /\ obj[n] # None /\ obj[n].del = FALSE /\ OthersKept(n)
    /\ ~obj[n].fin => obj'[n] = None
    /\ obj[n].fin => /\ obj'[n] \in Object /\ obj'[n] # None
                     /\ SameIdentity(obj'[n], obj[n]) /\ SameClaim(obj'[n], obj[n])
                     /\ obj'[n].gen = obj[n].gen + 1 /\ obj'[n].spec = obj[n].spec
                     /\ obj'[n].del = TRUE /\ obj'[n].fin = TRUE
    /\ spent.delete \in Nat /\ spent'.delete = spent.delete + 1
    /\ UNCHANGED <<cache, cmCache, rule, loaded, queue, pc, cur>>

LEMMA DeleteFacts ==
    ASSUME TypeOK, NEW n \in Names, UserDelete(n)
    PROVE  Deleted(n)
  <1>1. obj[n] \in Object /\ obj[n].del = FALSE /\ obj[n].fin \in BOOLEAN
    BY DEF UserDelete, TypeOK, Object
  <1>2. obj'[n] = IF obj[n].fin THEN [obj[n] EXCEPT !.del = TRUE, !.gen = @ + 1] ELSE None
    BY DEF UserDelete, TypeOK
  <1>3. OthersKept(n)
    BY DEF UserDelete, TypeOK, OthersKept
  <1>4. ASSUME obj[n].fin PROVE /\ obj'[n] \in Object
                                /\ SameIdentity(obj'[n], obj[n]) /\ SameClaim(obj'[n], obj[n])
                                /\ obj'[n].gen = obj[n].gen + 1 /\ obj'[n].spec = obj[n].spec
                                /\ obj'[n].del = TRUE /\ obj'[n].fin = TRUE
    <2>1. obj'[n] \in Object
      BY <1>1, <1>2, <1>4, FieldTypes
    <2> QED
      BY <1>1, <1>2, <1>4, <2>1 DEF Object, SameIdentity, SameClaim
  <1>5. spent.delete \in Nat /\ spent'.delete = spent.delete + 1
    BY DEF UserDelete, TypeOK
  <1> QED
    BY <1>1, <1>2, <1>3, <1>4, <1>5, DCRNoneAssumption DEF UserDelete, caches, worker, Deleted

Loaded(n) ==
    /\ cache[n] \in Object /\ cur' \in Object /\ cur' # None
    /\ SameIdentity(cur', cache[n]) /\ SameVersion(cur', cache[n])
    /\ cur'.ready = "Unknown" /\ cur'.fin = (cache[n].fin \/ ~cache[n].del)
    /\ cache[n].del /\ cache[n].fin => pc' = "removeRule"
    /\ cache[n].del /\ ~cache[n].fin => pc' = "patchStatus"
    /\ ~cache[n].del /\ ~cache[n].fin => pc' = "patchFinalizer"
    /\ ~cache[n].del /\ cache[n].fin => pc' = "validate"
    /\ pc = "idle" /\ queue' = queue \ {n}
    /\ spent'.delete = spent.delete
    /\ UNCHANGED <<obj, cache, cmCache, rule, loaded>>

LEMMA LoadFacts ==
    ASSUME TypeOK, NEW n \in Names, Reconcile(n), cache[n] # None
    PROVE  Loaded(n)
  <1>1. cache[n] \in Object
    BY DEF TypeOK
  <1>2. cur' = [cache[n] EXCEPT !.ready = "Unknown", !.readyGen = cache[n].gen,
                                !.fin = cache[n].fin \/ ~cache[n].del]
    BY DEF Reconcile
  <1>3. cache[n].fin \in BOOLEAN /\ cache[n].del \in BOOLEAN /\ cache[n].gen \in Nat
    BY <1>1 DEF Object
  <1>4. cur' \in Object
    BY <1>1, <1>2, <1>3, FieldTypes
  <1>5. /\ SameIdentity(cur', cache[n]) /\ SameVersion(cur', cache[n])
        /\ cur'.ready = "Unknown" /\ cur'.fin = (cache[n].fin \/ ~cache[n].del)
    BY <1>1, <1>2 DEF Object, SameIdentity, SameVersion
  <1>6. pc' = FirstStep(cache[n]) /\ pc = "idle" /\ queue' = queue \ {n}
        /\ UNCHANGED <<obj, cache, cmCache, rule, loaded, spent>>
    BY DEF Reconcile, api, caches
  <1> QED
    BY <1>1, <1>3, <1>4, <1>5, <1>6, DCRNoneAssumption DEF FirstStep, Loaded

\* The copy in memory stays that of the same version of the same resource.
Holds ==
    /\ cur \in Object /\ cur # None /\ cur.name \in Names
    /\ cur' \in Object /\ cur' # None
    /\ SameIdentity(cur', cur) /\ SameVersion(cur', cur)
    /\ spent'.delete = spent.delete
    /\ UNCHANGED <<cache, cmCache>>

\* A step that ends in an error: the name is queued again, and the rule file may
\* have been cut short.
Failed ==
    /\ Holds /\ cur'.ready = cur.ready
    /\ pc \in {"removeRule", "validate", "writeRule", "reload"} /\ pc' = "patchStatus"
    /\ queue' = queue \cup {cur.name}
    /\ UNCHANGED <<obj, loaded>>
    /\ \A m \in Names : \/ rule'[m] = rule[m]
                        \/ m = cur.name /\ pc = "writeRule" /\ rule'[m] \in {Partial, Short}

LEMMA FailFacts ==
    ASSUME TypeOK, ValidationFails \/ TemplateUnresolved \/ ReloadRejected \/ ReconcileFails
    PROVE  Failed
  <1> USE DCRNoneAssumption DEF SameIdentity, SameVersion, Holds, Failed
  <1>1. cur \in Object /\ cur # None /\ cur.name \in Names
    BY CurType DEF ValidationFails, TemplateUnresolved, ReloadRejected, ReconcileFails
  <1>2. CASE ValidationFails
    <2>1. PICK i \in Names \cup {None} : cur' = [cur EXCEPT !.validated = "False", !.involved = i]
      BY <1>2, GraphType DEF ValidationFails
    <2>2. cur' \in Object
      BY <1>1, <2>1, FieldTypes DEF Conditions
    <2> QED
      BY <1>1, <1>2, <2>1, <2>2 DEF ValidationFails, StepError, Object, api, caches
  <1>3. CASE TemplateUnresolved \/ ReloadRejected
    <2>1. cur' = [cur EXCEPT !.applied = "False"]
      BY <1>3 DEF TemplateUnresolved, ReloadRejected
    <2>2. cur' \in Object
      BY <1>1, <2>1, FieldTypes DEF Conditions
    <2> QED
      BY <1>1, <1>3, <2>1, <2>2
         DEF TemplateUnresolved, ReloadRejected, StepError, Object, api, caches
  <1>4. CASE ReconcileFails
    <2>1. cur' = [cur EXCEPT !.applied = "False"]
      BY <1>4 DEF ReconcileFails
    <2>2. cur' \in Object
      BY <1>1, <2>1, FieldTypes DEF Conditions
    <2>3. spent'.delete = spent.delete
      BY <1>4 DEF ReconcileFails, TypeOK
    <2>4. \A m \in Names : \/ rule'[m] = rule[m]
                           \/ m = cur.name /\ pc = "writeRule" /\ rule'[m] \in {Partial, Short}
      BY <1>4 DEF ReconcileFails, MayBeCutShort, TypeOK
    <2> QED
      BY <1>1, <1>4, <2>1, <2>2, <2>3, <2>4 DEF ReconcileFails, StepError, Object, api, caches
  <1> QED
    BY <1>2, <1>3, <1>4

\* A validation that succeeds may clear what other resources say of theirs; a
\* resource that it changes has a cache behind it.
Accepted ==
    /\ Holds /\ cur'.ready = cur.ready
    /\ pc = "validate" /\ pc' = "writeRule" /\ Culprits = {}
    /\ UNCHANGED <<queue, rule, loaded>>
    /\ \A m \in Names :
          \/ obj'[m] = obj[m]
          \/ /\ obj[m] \in Object /\ obj[m] # None /\ obj'[m] \in Object /\ obj'[m] # None
             /\ SameIdentity(obj'[m], obj[m]) /\ SameVersion(obj'[m], obj[m])
             /\ SameClaim(obj'[m], obj[m]) /\ obj'[m].fin = obj[m].fin
             /\ cache[m] # obj'[m]

LEMMA AcceptFacts ==
    ASSUME TypeOK, ValidationSucceeds
    PROVE  Accepted
  <1>1. cur \in Object /\ cur # None /\ cur.name \in Names
    BY CurType DEF ValidationSucceeds
  <1>2. cur' = [cur EXCEPT !.validated = "True", !.involved = None]
    BY DEF ValidationSucceeds
  <1>3. cur' \in Object
    BY <1>1, <1>2, FieldTypes DEF Conditions
  <1>4. Holds /\ cur'.ready = cur.ready
    BY <1>1, <1>2, <1>3, DCRNoneAssumption
       DEF ValidationSucceeds, Holds, SameIdentity, SameVersion, Object, caches
  <1>5. ASSUME NEW m \in Names, obj'[m] # obj[m]
        PROVE  /\ obj[m] \in Object /\ obj[m] # None /\ obj'[m] \in Object /\ obj'[m] # None
               /\ SameIdentity(obj'[m], obj[m]) /\ SameVersion(obj'[m], obj[m])
               /\ SameClaim(obj'[m], obj[m]) /\ obj'[m].fin = obj[m].fin
               /\ cache[m] # obj'[m]
    <2>1. m \in Nudged /\ obj[m] # None /\ obj'[m] = Cleared(m)
      BY <1>5 DEF ValidationSucceeds
    <2>2. cache[m] # None /\ cache[m] \in Object /\ obj[m] \in Object
      BY <2>1 DEF Nudged, TypeOK
    <2>3. obj'[m] \in Object /\ obj'[m] # None
      BY <2>1, <2>2, ClearedType, DCRNoneAssumption
    <2>4. /\ SameIdentity(obj'[m], obj[m]) /\ SameVersion(obj'[m], obj[m])
          /\ SameClaim(obj'[m], obj[m]) /\ obj'[m].fin = obj[m].fin
          /\ obj'[m].involved = IF cache[m].involved # None THEN None ELSE obj[m].involved
          /\ obj'[m].observed = IF cache[m].observed # cache[m].gen THEN cache[m].gen
                                                                    ELSE obj[m].observed
      BY <2>1, <2>2 DEF Cleared, Object, SameIdentity, SameVersion, SameClaim
    <2>5. \A o \in Object : [o EXCEPT !.involved = o.involved, !.observed = o.observed] = o
      BY DEF Object
    <2>6. ASSUME cache[m].involved = None, cache[m].observed = cache[m].gen PROVE FALSE
      <3>1. obj'[m] = [obj[m] EXCEPT !.involved = obj[m].involved, !.observed = obj[m].observed]
        BY <2>1, <2>6 DEF Cleared
      <3> QED
        BY <1>5, <2>2, <2>5, <3>1
    <2>7. cache[m] # obj'[m]
      BY <2>4, <2>6
    <2> QED
      BY <2>1, <2>2, <2>3, <2>4, <2>7
  <1> QED
    BY <1>4, <1>5 DEF ValidationSucceeds, Accepted

\* A reload takes up all rule files, for a resource that lives or one that is
\* being deleted.
Reloaded ==
    /\ Holds /\ pc = "reload" /\ Loadable /\ loaded' = rule
    /\ cur.del => pc' = "patchFinalizer" /\ cur'.fin = FALSE /\ cur'.ready = cur.ready
    /\ ~cur.del => pc' = "patchStatus" /\ cur'.ready = "True" /\ cur'.readyGen = cur.gen
    /\ UNCHANGED <<obj, rule, queue>>

LEMMA ReloadFacts ==
    ASSUME TypeOK, ReloadPrometheus
    PROVE  Reloaded
  <1>1. cur \in Object /\ cur # None /\ cur.name \in Names
    BY CurType DEF ReloadPrometheus
  <1>2. cur' \in Object /\ cur' # None
    BY <1>1, FieldTypes, DCRNoneAssumption DEF ReloadPrometheus
  <1> QED
    BY <1>1, <1>2
       DEF ReloadPrometheus, Reloaded, Holds, SameIdentity, SameVersion, Object, api, caches

\* The two requests of the deferred patch.
Finalized(n) ==
    /\ n = cur.name /\ cur # None /\ OthersKept(n)
    /\ obj[n] = None \/ (obj[n].del /\ ~cur.fin) => obj'[n] = None
    /\ obj[n] # None /\ ~(obj[n].del /\ ~cur.fin) =>
          /\ obj'[n] \in Object /\ obj'[n] # None
          /\ SameIdentity(obj'[n], obj[n]) /\ SameVersion(obj'[n], obj[n])
          /\ SameClaim(obj'[n], obj[n]) /\ obj'[n].fin = cur.fin
    /\ queue' = IF obj[n] = None THEN queue \cup {n} ELSE queue
    /\ pc = "patchFinalizer" /\ pc' = "patchStatus"
    /\ spent'.delete = spent.delete
    /\ UNCHANGED <<cache, cmCache, rule, loaded, cur>>

LEMMA FinalizerFacts ==
    ASSUME TypeOK, NEW n, n = cur.name, PatchFinalizer
    PROVE  Finalized(n)
  <1>1. n \in Names /\ cur.fin \in BOOLEAN /\ cur # None
    BY CurType DEF PatchFinalizer
  <1>2. obj'[n] = IF obj[n] = None \/ (obj[n].del /\ ~cur.fin) THEN None
                  ELSE [obj[n] EXCEPT !.fin = cur.fin]
    BY <1>1 DEF PatchFinalizer, TypeOK
  <1>3. OthersKept(n)
    BY <1>1 DEF PatchFinalizer, TypeOK, OthersKept
  <1>4. ASSUME obj[n] # None, ~(obj[n].del /\ ~cur.fin)
        PROVE  /\ obj'[n] \in Object
               /\ SameIdentity(obj'[n], obj[n]) /\ SameVersion(obj'[n], obj[n])
               /\ SameClaim(obj'[n], obj[n]) /\ obj'[n].fin = cur.fin
    <2>1. obj[n] \in Object
      BY <1>1, <1>4 DEF TypeOK
    <2>2. obj'[n] = [obj[n] EXCEPT !.fin = cur.fin]
      BY <1>2, <1>4
    <2>3. \A b \in BOOLEAN : [obj[n] EXCEPT !.fin = b] \in Object
      BY <2>1, FieldTypes
    <2>4. obj'[n] \in Object
      BY <1>1, <2>2, <2>3
    <2> QED
      BY <2>1, <2>2, <2>4 DEF Object, SameIdentity, SameVersion, SameClaim
  <1> QED
    BY <1>1, <1>2, <1>3, <1>4, DCRNoneAssumption DEF PatchFinalizer, RetryMissing, Finalized, caches

Stored(n) ==
    /\ n = cur.name /\ cur # None /\ OthersKept(n)
    /\ obj[n] = None => obj'[n] = None
    /\ obj[n] # None =>
          /\ obj'[n] \in Object /\ obj'[n] # None
          /\ SameIdentity(obj'[n], obj[n]) /\ SameVersion(obj'[n], obj[n])
          /\ obj'[n].fin = obj[n].fin /\ SameClaim(obj'[n], cur)
    /\ queue' = IF obj[n] = None /\ ~(cur.del /\ ~cur.fin) THEN queue \cup {n} ELSE queue
    /\ pc = "patchStatus" /\ pc' = "idle" /\ cur' = None
    /\ spent'.delete = spent.delete
    /\ UNCHANGED <<cache, cmCache, rule, loaded>>

LEMMA StatusFacts ==
    ASSUME TypeOK, NEW n, n = cur.name, PatchStatus
    PROVE  Stored(n)
  <1>1. n \in Names /\ cur \in Object /\ cur # None
    BY CurType DEF PatchStatus
  <1>2. obj'[n] = IF obj[n] = None THEN None ELSE StatusOf(obj[n])
    BY <1>1 DEF PatchStatus, TypeOK
  <1>3. OthersKept(n)
    BY <1>1 DEF PatchStatus, TypeOK, OthersKept
  <1>4. ASSUME obj[n] # None
        PROVE  /\ obj'[n] \in Object
               /\ SameIdentity(obj'[n], obj[n]) /\ SameVersion(obj'[n], obj[n])
               /\ obj'[n].fin = obj[n].fin /\ SameClaim(obj'[n], cur)
    <2>1. obj[n] \in Object
      BY <1>1, <1>4 DEF TypeOK
    <2>2. obj'[n] = StatusOf(obj[n])
      BY <1>2, <1>4
    <2>3. StatusOf(obj[n]) \in Object
      BY <1>1, <2>1, FieldTypes DEF StatusOf
    <2> QED
      BY <2>1, <2>2, <2>3 DEF StatusOf, Object, SameIdentity, SameVersion, SameClaim
  <1> QED
    BY <1>1, <1>2, <1>3, <1>4, DCRNoneAssumption DEF PatchStatus, RetryMissingStatus, Stored, caches

\* A restart: the caches are those of the API server, all resources are queued.
Restarted ==
    /\ cache' = obj /\ queue' = {n \in Names : obj[n] # None}
    /\ pc' = "idle" /\ cur' = None
    /\ spent'.delete = spent.delete
    /\ UNCHANGED <<obj, loaded>>
    /\ \A m \in Names : \/ rule'[m] = rule[m]
                        \/ /\ cur # None /\ m = cur.name
                           /\ pc = "writeRule" /\ rule'[m] \in {Partial, Short}

LEMMA CrashFacts ==
    ASSUME TypeOK, Crash
    PROVE  Restarted
  <1>1. \A m \in Names : \/ rule'[m] = rule[m]
                         \/ /\ cur # None /\ m = cur.name
                            /\ pc = "writeRule" /\ rule'[m] \in {Partial, Short}
    BY CurType DEF Crash, MayBeCutShort, TypeOK
  <1>2. spent'.delete = spent.delete
    BY DEF Crash, TypeOK
  <1> QED
    BY <1>1, <1>2 DEF Crash, Restarted, api

-----------------------------------------------------------------------------
(* Rules.  RulesOwned is not inductive: whether a file may be written or     *)
(* left behind depends on what the worker's copy, taken from a stale cache, *)
(* still says of the stored resource.                                       *)

\* The fields of a stored, a cached or a held resource.
LEMMA ObjectTypes ==
    ASSUME TypeOK
    PROVE  /\ \A n \in Names : obj[n] # None =>
                 /\ obj[n].uid \in Nat /\ obj[n].gen \in Nat /\ obj[n].readyGen \in Nat
                 /\ obj[n].del \in BOOLEAN /\ obj[n].fin \in BOOLEAN
                 /\ obj[n].spec \in Specs
           /\ \A n \in Names : cache[n] # None =>
                 /\ cache[n].uid \in Nat /\ cache[n].gen \in Nat
                 /\ cache[n].del \in BOOLEAN /\ cache[n].fin \in BOOLEAN /\ cache[n].spec \in Specs
           /\ cur # None =>
                 /\ cur.name \in Names /\ cur.uid \in Nat /\ cur.gen \in Nat
                 /\ cur.del \in BOOLEAN /\ cur.fin \in BOOLEAN /\ cur.spec \in Specs
           /\ spent.delete \in Nat
  <1>1. \A o \in Object : /\ o.name \in Names /\ o.uid \in Nat /\ o.gen \in Nat /\ o.readyGen \in Nat
                          /\ o.del \in BOOLEAN /\ o.fin \in BOOLEAN /\ o.spec \in Specs
    BY DEF Object
  <1> QED
    BY <1>1 DEF TypeOK

\* OwnerInv depends on these variables only.
LEMMA OwnerFrame ==
    ASSUME OwnerInv, UNCHANGED <<obj, cache, rule, loaded, pc, cur>>,
           spent'.delete = spent.delete
    PROVE  OwnerInv'
  <1>1. NameInv' /\ UidInv' /\ ObjectInv'
    BY DEF OwnerInv, NameInv, UidInv, ObjectInv, OldCopy
  <1>2. CacheInv' /\ CurInv' /\ CleanupInv' /\ RuleInv'
    BY DEF OwnerInv, CacheInv, CurInv, CleanupInv, RuleInv, RulesOwned, Has
  <1> QED
    BY <1>1, <1>2 DEF OwnerInv

LEMMA OwnerCreate ==
    ASSUME TypeOK, OwnerInv, NEW n \in Names, NEW s \in Specs, Created(n, s)
    PROVE  OwnerInv'
  <1> USE ObjectTypes DEF Created, OwnerInv, Has, OthersKept
  <1>1. NameInv'
    BY DEF NameInv
  <1>2. UidInv'
    BY DEF NameInv, UidInv, OldCopy
  <1>3. ObjectInv'
    BY DEF ObjectInv
  <1>4. CacheInv'
    BY DEF CacheInv, UidInv, OldCopy
  <1>5. CurInv'
    BY DEF CurInv, CacheInv, UidInv, OldCopy
  <1>6. CleanupInv'
    BY DEF CleanupInv
  <1>7. RuleInv'
    BY DEF RuleInv, RulesOwned
  <1> QED
    BY <1>1, <1>2, <1>3, <1>4, <1>5, <1>6, <1>7

LEMMA OwnerUpdate ==
    ASSUME TypeOK, OwnerInv, NEW n \in Names, NEW s \in Specs, Updated(n, s)
    PROVE  OwnerInv'
  <1> USE ObjectTypes DEF Updated, OwnerInv, Has, OthersKept, SameIdentity
  <1>1. NameInv'
    BY DEF NameInv
  <1>2. UidInv'
    BY DEF UidInv, OldCopy
  <1>3. ObjectInv'
    BY DEF ObjectInv
  <1>4. CacheInv'
    BY DEF CacheInv
  <1>5. CurInv'
    BY DEF CurInv
  <1>6. CleanupInv'
    BY DEF CleanupInv
  <1>7. RuleInv'
    BY DEF RuleInv, RulesOwned
  <1> QED
    BY <1>1, <1>2, <1>3, <1>4, <1>5, <1>6, <1>7

LEMMA OwnerDelete ==
    ASSUME TypeOK, OwnerInv, NEW n \in Names, Deleted(n)
    PROVE  OwnerInv'
  <1> USE ObjectTypes DEF Deleted, OwnerInv, Has, OthersKept, SameIdentity
  <1>1. NameInv'
    BY DEF NameInv
  <1>2. UidInv'
    BY DEF UidInv, OldCopy
  <1>3. ObjectInv'
    BY DEF ObjectInv
  <1>4. CacheInv'
    BY DEF CacheInv
  <1>5. CurInv'
    BY DEF CurInv, CacheInv, NameInv
  <1>6. CleanupInv'
    BY DEF CleanupInv
  <1>7. RuleInv'
    BY DEF RuleInv, RulesOwned
  <1> QED
    BY <1>1, <1>2, <1>3, <1>4, <1>5, <1>6, <1>7

LEMMA OwnerLoad ==
    ASSUME TypeOK, OwnerInv, NEW n \in Names, cache[n] # None, Loaded(n)
    PROVE  OwnerInv'
  <1> USE ObjectTypes DEF Loaded, OwnerInv, Has, SameIdentity, SameVersion
  <1>0. cur'.name = n
    BY DEF NameInv
  <1>1. NameInv'
    BY DEF NameInv
  <1>2. UidInv'
    BY <1>0 DEF UidInv, OldCopy
  <1>3. ObjectInv' /\ CacheInv'
    BY DEF ObjectInv, CacheInv
  <1>5. CurInv'
    BY <1>0 DEF CurInv, CacheInv, ObjectInv
  <1>6. CleanupInv'
    BY <1>0 DEF CleanupInv
  <1>7. RuleInv'
    BY DEF RuleInv, RulesOwned
  <1> QED
    BY <1>1, <1>2, <1>3, <1>5, <1>6, <1>7

LEMMA OwnerSync ==
    ASSUME TypeOK, OwnerInv, NEW n \in Names, cache' = [cache EXCEPT ![n] = obj[n]],
           UNCHANGED <<obj, rule, loaded, pc, cur, spent>>
    PROVE  OwnerInv'
  <1> USE ObjectTypes DEF OwnerInv, Has
  <1>0. cache'[n] = obj[n] /\ \A m \in Names : m # n => cache'[m] = cache[m]
    BY DEF TypeOK
  <1>1. NameInv'
    BY <1>0 DEF NameInv
  <1>2. UidInv'
    BY <1>0 DEF UidInv, OldCopy
  <1>3. ObjectInv' /\ CacheInv'
    BY <1>0 DEF ObjectInv, CacheInv
  <1>5. CurInv'
    BY <1>0 DEF CurInv
  <1>6. CleanupInv' /\ RuleInv'
    BY DEF CleanupInv, RuleInv, RulesOwned
  <1> QED
    BY <1>1, <1>2, <1>3, <1>5, <1>6

\* The steps of a run before its patch.
LEMMA OwnerRemove ==
    ASSUME TypeOK, OwnerInv, RemoveRule
    PROVE  OwnerInv'
  <1> USE ObjectTypes DEF OwnerInv, Has
  <1>0. /\ cur # None /\ cur.name \in Names /\ pc = "removeRule" /\ pc' = "reload" /\ cur.del
        /\ rule'[cur.name] = None /\ \A m \in Names : m # cur.name => rule'[m] = rule[m]
        /\ UNCHANGED <<obj, cache, loaded, cur, spent>>
    BY CurType DEF RemoveRule, TypeOK, api, caches, CleanupInv
  <1>1. NameInv' /\ UidInv' /\ ObjectInv' /\ CacheInv'
    BY <1>0 DEF NameInv, UidInv, OldCopy, ObjectInv, CacheInv
  <1>2. CurInv'
    BY <1>0 DEF CurInv
  <1>3. CleanupInv'
    BY <1>0 DEF CleanupInv
  <1>4. RuleInv'
    BY <1>0 DEF RuleInv, RulesOwned, CurInv
  <1> QED
    BY <1>1, <1>2, <1>3, <1>4

LEMMA OwnerFail ==
    ASSUME TypeOK, OwnerInv, Failed
    PROVE  OwnerInv'
  <1> USE ObjectTypes DEF OwnerInv, Has, Failed, Holds, SameIdentity, SameVersion
  <1>1. NameInv' /\ UidInv' /\ ObjectInv' /\ CacheInv'
    BY DEF NameInv, UidInv, OldCopy, ObjectInv, CacheInv
  <1>2. CurInv'
    BY DEF CurInv
  <1>3. CleanupInv'
    BY DEF CleanupInv
  <1>4. RuleInv'
    BY DCRNoneAssumption DEF RuleInv, RulesOwned, CurInv, CleanupInv
  <1> QED
    BY <1>1, <1>2, <1>3, <1>4

LEMMA OwnerAccept ==
    ASSUME TypeOK, OwnerInv, Accepted
    PROVE  OwnerInv'
  <1> USE ObjectTypes DEF OwnerInv, Has, Accepted, Holds, SameIdentity, SameVersion
  <1>1. \A m \in Names : /\ (obj'[m] = None) <=> (obj[m] = None)
                         /\ obj[m] # None => /\ obj'[m].uid = obj[m].uid /\ obj'[m].name = obj[m].name
                                             /\ obj'[m].del = obj[m].del /\ obj'[m].fin = obj[m].fin
    OBVIOUS
  <1> HIDE DEF Accepted
  <1>2. /\ cur # None /\ cur' # None /\ cur.name \in Names /\ cur'.name = cur.name /\ cur'.uid = cur.uid
        /\ cur'.del = cur.del /\ cur'.ready = cur.ready /\ pc = "validate" /\ pc' = "writeRule"
        /\ UNCHANGED <<cache, rule, loaded>> /\ spent'.delete = spent.delete
    BY DEF Accepted
  <1>3. NameInv' /\ UidInv' /\ ObjectInv'
    BY <1>1, <1>2 DEF NameInv, UidInv, OldCopy, ObjectInv
  <1>4. CacheInv'
    BY <1>1, <1>2 DEF CacheInv
  <1>5. CurInv'
    BY <1>1, <1>2 DEF CurInv
  <1>6. CleanupInv'
    BY <1>1, <1>2 DEF CleanupInv
  <1>7. RuleInv'
    BY <1>1, <1>2 DEF RuleInv, RulesOwned
  <1> QED
    BY <1>3, <1>4, <1>5, <1>6, <1>7

LEMMA OwnerWrite ==
    ASSUME TypeOK, OwnerInv, WriteRule
    PROVE  OwnerInv'
  <1> USE ObjectTypes DEF OwnerInv, Has
  <1>1. /\ cur # None /\ cur.name \in Names /\ pc = "writeRule" /\ pc' = "reload" /\ ~cur.del
        /\ rule'[cur.name] = BuildRuleFile /\ \A m \in Names : m # cur.name => rule'[m] = rule[m]
        /\ UNCHANGED <<obj, cache, loaded, cur, spent>>
    BY CurType DEF WriteRule, TypeOK, api, caches, CleanupInv
  <1>2. BuildRuleFile.parents = cur.spec.parents /\ cur.spec \in Specs /\ BuildRuleFile # None
    <2>1. BuildRuleFile \in RuleFile
      BY <1>1, CurType DEF BuildRuleFile, RuleFile, TypeOK
    <2> QED
      BY <1>1, <2>1, CurType, DCRNoneAssumption DEF BuildRuleFile
  <1>3. NameInv' /\ UidInv' /\ ObjectInv' /\ CacheInv'
    BY <1>1 DEF NameInv, UidInv, OldCopy, ObjectInv, CacheInv
  <1>4. CurInv'
    BY <1>1 DEF CurInv
  <1>5. CleanupInv'
    BY <1>1 DEF CleanupInv
  <1>6. RuleInv'
    BY <1>1, <1>2 DEF RuleInv, RulesOwned, CurInv
  <1> QED
    BY <1>3, <1>4, <1>5, <1>6

LEMMA OwnerReload ==
    ASSUME TypeOK, OwnerInv, Reloaded
    PROVE  OwnerInv'
  <1> USE ObjectTypes DEF OwnerInv, Has, Reloaded, Holds, SameIdentity, SameVersion
  <1>1. NameInv' /\ UidInv' /\ ObjectInv' /\ CacheInv'
    BY DEF NameInv, UidInv, OldCopy, ObjectInv, CacheInv
  <1>2. CurInv'
    BY DEF CurInv
  <1>3. CleanupInv'
    BY DEF CleanupInv
  <1>4. RuleInv'
    BY DEF RuleInv, RulesOwned
  <1> QED
    BY <1>1, <1>2, <1>3, <1>4

\* The patch, and the end of a run.
LEMMA OwnerFinalize ==
    ASSUME TypeOK, OwnerInv, NEW n \in Names, Finalized(n)
    PROVE  OwnerInv'
  <1> USE ObjectTypes DEF OwnerInv, Has, Finalized, OthersKept, SameIdentity, SameVersion
  <1>1. NameInv'
    BY DEF NameInv
  <1>2. UidInv'
    BY DEF UidInv, OldCopy
  <1>3. ObjectInv'
    BY DEF ObjectInv, CleanupInv
  <1>4. CacheInv'
    BY DEF CacheInv, CurInv, CleanupInv
  <1>5. CurInv'
    BY DEF CurInv, CleanupInv
  <1>6. CleanupInv'
    BY DEF CleanupInv
  <1>7. RuleInv'
    BY DEF RuleInv, RulesOwned, CurInv, CleanupInv
  <1> QED
    BY <1>1, <1>2, <1>3, <1>4, <1>5, <1>6, <1>7

LEMMA OwnerStatus ==
    ASSUME TypeOK, OwnerInv, NEW n \in Names, Stored(n)
    PROVE  OwnerInv'
  <1> USE ObjectTypes DEF OwnerInv, Has, Stored, OthersKept, SameIdentity, SameVersion
  <1>1. NameInv' /\ UidInv' /\ ObjectInv'
    BY DEF NameInv, UidInv, OldCopy, ObjectInv
  <1>2. CacheInv'
    BY DEF CacheInv
  <1>3. CurInv' /\ CleanupInv'
    BY DEF CurInv, CleanupInv
  <1>4. RuleInv'
    BY DEF RuleInv, RulesOwned
  <1> QED
    BY <1>1, <1>2, <1>3, <1>4

LEMMA OwnerPatchFails ==
    ASSUME TypeOK, OwnerInv, PatchFails
    PROVE  OwnerInv'
  <1> USE ObjectTypes DEF OwnerInv, Has
  <1>0. /\ pc' \in {"patchStatus", "idle"} /\ cur' \in {cur, None}
        /\ UNCHANGED <<obj, cache, rule, loaded>> /\ spent'.delete = spent.delete
    BY DEF PatchFails, TypeOK, api, caches
  <1>1. NameInv' /\ UidInv' /\ ObjectInv' /\ CacheInv'
    BY <1>0 DEF NameInv, UidInv, OldCopy, ObjectInv, CacheInv
  <1>2. CurInv' /\ CleanupInv' /\ RuleInv'
    BY <1>0 DEF CurInv, CleanupInv, RuleInv, RulesOwned
  <1> QED
    BY <1>1, <1>2

LEMMA OwnerCrash ==
    ASSUME TypeOK, OwnerInv, Restarted
    PROVE  OwnerInv'
  <1> USE ObjectTypes DEF OwnerInv, Has, Restarted
  <1>1. NameInv' /\ UidInv' /\ ObjectInv' /\ CacheInv'
    BY DEF NameInv, UidInv, OldCopy, ObjectInv, CacheInv
  <1>2. CurInv' /\ CleanupInv'
    BY DEF CurInv, CleanupInv
  <1>3. RuleInv'
    BY DCRNoneAssumption DEF RuleInv, RulesOwned, CurInv, CleanupInv
  <1> QED
    BY <1>1, <1>2, <1>3

LEMMA OwnerStep == TypeOK /\ OwnerInv /\ [Next]_vars => OwnerInv'
  <1> SUFFICES ASSUME TypeOK, OwnerInv, [Next]_vars PROVE OwnerInv'
    OBVIOUS
  <1>1. ASSUME NEW n \in Names, NEW s \in Specs, UserCreate(n, s) PROVE OwnerInv'
    BY <1>1, CreateFacts, OwnerCreate
  <1>2. ASSUME NEW n \in Names, NEW s \in Specs, UserUpdate(n, s) PROVE OwnerInv'
    BY <1>2, UpdateFacts, OwnerUpdate
  <1>3. ASSUME NEW n \in Names, UserDelete(n) PROVE OwnerInv'
    BY <1>3, DeleteFacts, OwnerDelete
  <1>4. ASSUME ConfigMapChange \/ ConfigMapSync PROVE OwnerInv'
    BY <1>4, OwnerFrame DEF ConfigMapChange, ConfigMapSync, api, caches, worker
  <1>5. ASSUME NEW n \in Names, CacheSync(n) PROVE OwnerInv'
    BY <1>5, OwnerSync DEF CacheSync, api
  <1>6. ASSUME NEW n \in Names, Resync(n) PROVE OwnerInv'
    BY <1>6, OwnerFrame DEF Resync, api, caches
  <1>7. ASSUME NEW n \in Names, Reconcile(n) PROVE OwnerInv'
    <2>1. CASE cache[n] = None
      BY <1>7, <2>1, OwnerFrame DEF Reconcile, api, caches
    <2>2. CASE cache[n] # None
      BY <1>7, <2>2, LoadFacts, OwnerLoad
    <2> QED
      BY <2>1, <2>2
  <1>8. ASSUME RemoveRule PROVE OwnerInv'
    BY <1>8, OwnerRemove
  <1>9. ASSUME ValidationFails \/ TemplateUnresolved \/ ReloadRejected \/ ReconcileFails PROVE OwnerInv'
    BY <1>9, FailFacts, OwnerFail
  <1>10. ASSUME ValidationSucceeds PROVE OwnerInv'
    BY <1>10, AcceptFacts, OwnerAccept
  <1>11. ASSUME WriteRule PROVE OwnerInv'
    BY <1>11, OwnerWrite
  <1>12. ASSUME ReloadPrometheus PROVE OwnerInv'
    BY <1>12, ReloadFacts, OwnerReload
  <1>13. ASSUME PatchFinalizer PROVE OwnerInv'
    <2>1. PICK n \in Names : n = cur.name
      BY <1>13, CurType DEF PatchFinalizer
    <2> QED
      BY <1>13, <2>1, FinalizerFacts, OwnerFinalize
  <1>14. ASSUME PatchStatus PROVE OwnerInv'
    <2>1. PICK n \in Names : n = cur.name
      BY <1>14, CurType DEF PatchStatus
    <2> QED
      BY <1>14, <2>1, StatusFacts, OwnerStatus
  <1>15. ASSUME PatchFails PROVE OwnerInv'
    BY <1>15, OwnerPatchFails
  <1>16. ASSUME Crash PROVE OwnerInv'
    BY <1>16, CrashFacts, OwnerCrash
  <1>17. CASE UNCHANGED vars
    BY <1>17, OwnerFrame DEF vars
  <1> QED
    BY <1>1, <1>2, <1>3, <1>4, <1>5, <1>6, <1>7, <1>8, <1>9, <1>10, <1>11, <1>12, <1>13, <1>14,
       <1>15, <1>16, <1>17 DEF Next, Step

LEMMA OwnerInit == Init => OwnerInv
  BY DEF Init, OwnerInv, NameInv, UidInv, ObjectInv, CacheInv, CurInv, CleanupInv, RuleInv,
         RulesOwned

LEMMA TypeInit == Init => TypeOK
  BY DEF Init, TypeOK

\* Nothing runs for a resource that is gone, however many resources there are
\* and however stale the copies the controller works on: every rule file and
\* every rule loaded by Prometheus has a stored resource with the finalizer.
THEOREM NoOrphanRule == Spec => []RulesOwned
  <1>1. OwnerInv => RulesOwned
    BY DEF OwnerInv, RuleInv
  <1> QED
    BY <1>1, TypeInit, TypeStep, OwnerInit, OwnerStep, PTL DEF Spec

-----------------------------------------------------------------------------
(* Readiness.  Whether Ready still holds when it is stored depends on which *)
(* version of the resource the run worked on, and whether it holds later on *)
(* which version a later run will start from.                               *)

LEMMA LoadFrame ==
    ASSUME LoadInv, UNCHANGED <<obj, cache, rule, loaded, pc, cur>>,
           \A m \in Names : m \in queue /\ cache[m] # None => m \in queue'
    PROVE  LoadInv'
  BY DEF LoadInv, VersionInv, ReadyInv, CurReadyInv, Version, RulesOf, Pending, Runs

LEMMA LoadCreate ==
    ASSUME TypeOK, OwnerInv, LoadInv, NEW n \in Names, NEW s \in Specs, Created(n, s)
    PROVE  LoadInv'
  <1> USE ObjectTypes DEF Created, OthersKept, LoadInv
  <1>1. VersionInv'
    BY DEF VersionInv, Version, OwnerInv, UidInv, OldCopy
  <1>2. ReadyInv'
    BY DEF ReadyInv, Pending, Runs
  <1>3. CurReadyInv'
    BY DEF CurReadyInv
  <1> QED
    BY <1>1, <1>2, <1>3

LEMMA LoadUpdate ==
    ASSUME TypeOK, OwnerInv, LoadInv, NEW n \in Names, NEW s \in Specs, Updated(n, s)
    PROVE  LoadInv'
  <1> USE ObjectTypes DEF Updated, OthersKept, LoadInv, SameIdentity, SameClaim
  <1>1. VersionInv'
    BY DEF VersionInv, Version
  <1>2. ReadyInv'
    BY DEF ReadyInv, Pending, Runs
  <1>3. CurReadyInv'
    BY DEF CurReadyInv
  <1> QED
    BY <1>1, <1>2, <1>3

LEMMA LoadDelete ==
    ASSUME TypeOK, OwnerInv, LoadInv, NEW n \in Names, Deleted(n)
    PROVE  LoadInv'
  <1> USE ObjectTypes DEF Deleted, OthersKept, LoadInv, SameIdentity, SameClaim
  <1>1. VersionInv'
    BY DEF VersionInv, Version
  <1>2. ReadyInv'
    BY DEF ReadyInv, Pending, Runs
  <1>3. CurReadyInv'
    BY DEF CurReadyInv
  <1> QED
    BY <1>1, <1>2, <1>3

LEMMA LoadSync ==
    ASSUME TypeOK, OwnerInv, LoadInv, NEW n \in Names, cache' = [cache EXCEPT ![n] = obj[n]],
           queue \subseteq queue', UNCHANGED <<obj, rule, loaded, pc, cur>>
    PROVE  LoadInv'
  <1> USE ObjectTypes DEF LoadInv
  <1>0. cache'[n] = obj[n] /\ \A m \in Names : m # n => cache'[m] = cache[m]
    BY DEF TypeOK
  <1>1. VersionInv'
    BY <1>0 DEF VersionInv, Version
  <1>2. ReadyInv'
    BY <1>0 DEF ReadyInv, Pending, Runs
  <1>3. CurReadyInv'
    BY <1>0 DEF CurReadyInv, VersionInv, Version, OwnerInv, CurInv, Has
  <1> QED
    BY <1>1, <1>2, <1>3

LEMMA LoadLoad ==
    ASSUME TypeOK, OwnerInv, LoadInv, NEW n \in Names, cache[n] # None, Loaded(n)
    PROVE  LoadInv'
  <1> USE ObjectTypes DEF Loaded, LoadInv, SameIdentity, SameVersion
  <1>0. cur'.name = n /\ cur = None
    BY DEF OwnerInv, NameInv, TypeOK
  <1>1. VersionInv'
    BY <1>0 DEF VersionInv, Version
  <1>2. ReadyInv'
    BY <1>0 DEF ReadyInv, Pending, Runs
  <1>3. CurReadyInv'
    BY <1>0 DEF CurReadyInv
  <1> QED
    BY <1>1, <1>2, <1>3

LEMMA LoadRemove ==
    ASSUME TypeOK, OwnerInv, LoadInv, RemoveRule
    PROVE  LoadInv'
  <1> USE ObjectTypes DEF LoadInv
  <1>0. /\ cur # None /\ cur.name \in Names /\ pc = "removeRule" /\ pc' = "reload" /\ cur.del
        /\ \A m \in Names : m # cur.name => rule'[m] = rule[m]
        /\ UNCHANGED <<obj, cache, loaded, cur, queue>>
    BY CurType DEF RemoveRule, TypeOK, api, caches, OwnerInv, CleanupInv
  <1>1. VersionInv'
    BY <1>0 DEF VersionInv, Version
  <1>2. ReadyInv'
    BY <1>0 DEF ReadyInv, Pending, Runs, OwnerInv, CurInv, Has
  <1>3. CurReadyInv'
    BY <1>0 DEF CurReadyInv
  <1> QED
    BY <1>1, <1>2, <1>3

LEMMA LoadFail ==
    ASSUME TypeOK, OwnerInv, LoadInv, Failed
    PROVE  LoadInv'
  <1> USE ObjectTypes DEF LoadInv, Failed, Holds, SameIdentity, SameVersion
  <1>1. VersionInv'
    BY DEF VersionInv, Version
  <1>2. ReadyInv'
    BY DEF ReadyInv, Pending, Runs
  <1>3. CurReadyInv'
    BY DEF CurReadyInv
  <1> QED
    BY <1>1, <1>2, <1>3

LEMMA LoadAccept ==
    ASSUME TypeOK, OwnerInv, LoadInv, Accepted
    PROVE  LoadInv'
  <1> USE ObjectTypes DEF LoadInv
  <1>1. \A m \in Names : /\ (obj'[m] = None) <=> (obj[m] = None)
                         /\ obj[m] # None => /\ obj'[m].uid = obj[m].uid /\ obj'[m].fin = obj[m].fin
                                             /\ SameVersion(obj'[m], obj[m]) /\ SameClaim(obj'[m], obj[m])
    BY DEF Accepted, SameIdentity, SameVersion, SameClaim
  <1>2. /\ cur # None /\ cur' # None /\ cur.name \in Names /\ cur'.name = cur.name /\ cur'.uid = cur.uid
        /\ SameVersion(cur', cur) /\ cur'.ready = cur.ready /\ pc = "validate" /\ pc' = "writeRule"
        /\ UNCHANGED <<cache, rule, loaded, queue>>
    BY DEF Accepted, Holds, SameIdentity
  <1>3. VersionInv'
    BY <1>1, <1>2 DEF VersionInv, Version, SameVersion
  <1>4. ReadyInv'
    BY <1>1, <1>2 DEF ReadyInv, Pending, Runs, SameVersion, SameClaim
  <1>5. CurReadyInv'
    BY <1>2 DEF CurReadyInv, SameVersion
  <1> QED
    BY <1>3, <1>4, <1>5

\* The file that a run writes is that of the spec the run worked on.
LEMMA WrittenRule ==
    ASSUME TypeOK, OwnerInv, WriteRule
    PROVE  /\ cur # None /\ cur.name \in Names /\ pc = "writeRule" /\ pc' = "reload" /\ ~cur.del
           /\ RulesOf(rule'[cur.name], cur.spec)
           /\ \A m \in Names : m # cur.name => rule'[m] = rule[m]
           /\ UNCHANGED <<obj, cache, loaded, cur, queue>>
  <1>1. /\ cur # None /\ cur.name \in Names /\ pc = "writeRule" /\ pc' = "reload" /\ ~cur.del
        /\ rule'[cur.name] = BuildRuleFile /\ \A m \in Names : m # cur.name => rule'[m] = rule[m]
        /\ UNCHANGED <<obj, cache, loaded, cur, queue>>
    BY CurType DEF WriteRule, TypeOK, api, caches, OwnerInv, CleanupInv
  <1>2. BuildRuleFile \in RuleFile
    BY <1>1, CurType DEF BuildRuleFile, RuleFile, TypeOK
  <1>3. RulesOf(BuildRuleFile, cur.spec)
    BY <1>2, DCRNoneAssumption DEF BuildRuleFile, RulesOf
  <1> QED
    BY <1>1, <1>3

LEMMA LoadWrite ==
    ASSUME TypeOK, OwnerInv, LoadInv, WriteRule
    PROVE  LoadInv'
  <1> USE ObjectTypes DEF LoadInv
  <1>1. VersionInv'
    BY WrittenRule DEF VersionInv, Version
  <1>2. ReadyInv'
    <2>1. ASSUME obj[cur.name] # None, obj[cur.name].ready = "True",
                 obj[cur.name].readyGen = obj[cur.name].gen
          PROVE  cur.spec = obj[cur.name].spec
      BY <2>1, WrittenRule DEF ReadyInv, VersionInv, Version, Runs
    <2> QED
      BY <2>1, WrittenRule DEF ReadyInv, Pending, Runs
  <1>3. CurReadyInv'
    BY WrittenRule DEF CurReadyInv
  <1> QED
    BY <1>1, <1>2, <1>3

\* All rules are reloaded: those of a Ready resource stay what they should be.
LEMMA LoadReload ==
    ASSUME TypeOK, OwnerInv, LoadInv, Reloaded
    PROVE  LoadInv'
  <1> USE ObjectTypes DEF LoadInv
  <1>0. /\ cur # None /\ cur.name \in Names /\ cur' # None /\ cur'.name = cur.name /\ cur'.uid = cur.uid
        /\ SameVersion(cur', cur) /\ pc = "reload" /\ loaded' = rule
        /\ \A m \in Names : rule[m] # Partial
        /\ UNCHANGED <<obj, cache, rule, queue>>
    BY DEF Reloaded, Holds, Loadable, Loads, SameIdentity
  <1>1. VersionInv'
    BY <1>0 DEF VersionInv, Version, SameVersion
  <1>2. ReadyInv'
    BY <1>0, DCRNoneAssumption DEF ReadyInv, Pending, Runs, SameVersion, RulesOf
  <1>3. CurReadyInv'
    BY <1>0 DEF Reloaded, CurReadyInv, SameVersion
  <1> QED
    BY <1>1, <1>2, <1>3

LEMMA LoadFinalize ==
    ASSUME TypeOK, OwnerInv, LoadInv, NEW n \in Names, Finalized(n)
    PROVE  LoadInv'
  <1> USE ObjectTypes DEF LoadInv
  <1>1. VersionInv'
    BY DEF Finalized, OthersKept, VersionInv, Version, SameIdentity, SameVersion
  <1>2. ASSUME obj'[n] # None, obj'[n].ready = "True"
        PROVE  /\ obj[n] # None /\ obj[n].ready = "True" /\ obj[n].fin /\ cur.fin
               /\ obj'[n].fin /\ obj'[n].uid = obj[n].uid
               /\ SameVersion(obj'[n], obj[n]) /\ SameClaim(obj'[n], obj[n])
    <2>1. /\ obj[n] # None /\ ~(obj[n].del /\ ~cur.fin) /\ obj'[n].fin = cur.fin
          /\ obj'[n].uid = obj[n].uid /\ cur # None /\ cur.name = n /\ pc = "patchFinalizer"
          /\ SameVersion(obj'[n], obj[n]) /\ SameClaim(obj'[n], obj[n])
      BY <1>2 DEF Finalized, SameIdentity
    <2>2. obj[n].ready = "True"
      BY <1>2, <2>1 DEF SameClaim
    <2>3. obj[n].fin
      BY <2>1, <2>2 DEF ReadyInv
    <2>4. cur.fin
      BY <2>1, <2>3 DEF OwnerInv, CurInv, CleanupInv, Has
    <2> QED
      BY <2>1, <2>2, <2>3, <2>4
  <1>3. ReadyInv'
    <2>1. ASSUME NEW m \in Names, m # n, obj'[m] # None, obj'[m].ready = "True"
          PROVE  obj'[m] = obj[m]
      BY <2>1 DEF Finalized, OthersKept
    <2>2. queue \subseteq queue' /\ UNCHANGED <<cache, rule, loaded, cur>>
      BY DEF Finalized
    <2> QED
      BY <1>2, <2>1, <2>2 DEF ReadyInv, Pending, Runs, SameVersion, SameClaim
  <1>4. CurReadyInv'
    BY DEF Finalized, CurReadyInv
  <1> QED
    BY <1>1, <1>3, <1>4

LEMMA LoadStatus ==
    ASSUME TypeOK, OwnerInv, LoadInv, NEW n \in Names, Stored(n)
    PROVE  LoadInv'
  <1> USE ObjectTypes DEF LoadInv
  <1>1. VersionInv'
    BY DEF Stored, OthersKept, VersionInv, Version, SameIdentity, SameVersion
  <1>2. ASSUME obj'[n] # None, obj'[n].ready = "True"
        PROVE  /\ obj'[n].fin /\ obj'[n].readyGen <= obj'[n].gen
               /\ cache[n] # None /\ cache[n].uid = obj'[n].uid /\ obj'[n].readyGen <= cache[n].gen
               /\ obj'[n].readyGen = obj'[n].gen =>
                     ~obj'[n].del /\ RulesOf(loaded[n], obj'[n].spec) /\ RulesOf(rule[n], obj'[n].spec)
    <2>1. /\ obj[n] # None /\ cur # None /\ cur.name = n /\ pc = "patchStatus"
          /\ obj'[n].fin = obj[n].fin /\ obj'[n].uid = obj[n].uid
          /\ SameVersion(obj'[n], obj[n]) /\ SameClaim(obj'[n], cur)
      BY <1>2 DEF Stored, SameIdentity
    <2>2. /\ cur.ready = "True" /\ ~cur.del /\ cur.readyGen = cur.gen
          /\ RulesOf(loaded[n], cur.spec) /\ RulesOf(rule[n], cur.spec)
          /\ cache[n] # None /\ cache[n].uid = cur.uid /\ cur.gen <= cache[n].gen
      BY <1>2, <2>1 DEF CurReadyInv, SameClaim, RulesOf
    <2>3. obj[n].uid = cur.uid /\ obj[n].fin
      BY <2>1, <2>2 DEF OwnerInv, CurInv, Has
    <2>4. /\ cur.gen <= obj[n].gen
          /\ cur.gen = obj[n].gen => cur.spec = obj[n].spec /\ cur.del = obj[n].del
      BY <2>1, <2>3 DEF VersionInv, Version
    <2> QED
      BY <2>1, <2>2, <2>3, <2>4 DEF SameVersion, SameClaim
  <1>3. ReadyInv'
    <2>1. ASSUME NEW m \in Names, m # n, obj'[m] # None, obj'[m].ready = "True"
          PROVE  obj'[m] = obj[m]
      BY <2>1 DEF Stored, OthersKept
    <2>2. /\ cur' = None /\ cur.name = n /\ queue \subseteq queue'
          /\ UNCHANGED <<cache, rule, loaded>>
      BY DEF Stored
    <2> QED
      BY <1>2, <2>1, <2>2 DEF ReadyInv, Pending, Runs
  <1>4. CurReadyInv'
    BY DEF Stored, CurReadyInv
  <1> QED
    BY <1>1, <1>3, <1>4

LEMMA LoadPatchFails ==
    ASSUME TypeOK, OwnerInv, LoadInv, PatchFails
    PROVE  LoadInv'
  <1> USE ObjectTypes DEF LoadInv
  <1>0. /\ \/ cur' = cur /\ pc = "patchFinalizer" /\ pc' = "patchStatus"
           \/ cur' = None
        /\ queue' = queue \cup {cur.name}
        /\ UNCHANGED <<obj, cache, rule, loaded>>
    BY DEF PatchFails, api, caches
  <1>1. VersionInv' /\ ReadyInv'
    BY <1>0 DEF VersionInv, Version, ReadyInv, Pending, Runs
  <1>2. CurReadyInv'
    BY <1>0 DEF CurReadyInv
  <1> QED
    BY <1>1, <1>2

LEMMA LoadCrash ==
    ASSUME TypeOK, OwnerInv, LoadInv, Restarted
    PROVE  LoadInv'
  <1> USE ObjectTypes DEF LoadInv, Restarted
  <1>1. VersionInv' /\ CurReadyInv'
    BY DEF VersionInv, Version, CurReadyInv
  <1>2. ReadyInv'
    BY DEF ReadyInv, Pending, Runs
  <1> QED
    BY <1>1, <1>2

LEMMA LoadStep == TypeOK /\ OwnerInv /\ LoadInv /\ [Next]_vars => LoadInv'
  <1> SUFFICES ASSUME TypeOK, OwnerInv, LoadInv, [Next]_vars PROVE LoadInv'
    OBVIOUS
  <1>1. ASSUME NEW n \in Names, NEW s \in Specs, UserCreate(n, s) PROVE LoadInv'
    BY <1>1, CreateFacts, LoadCreate
  <1>2. ASSUME NEW n \in Names, NEW s \in Specs, UserUpdate(n, s) PROVE LoadInv'
    BY <1>2, UpdateFacts, LoadUpdate
  <1>3. ASSUME NEW n \in Names, UserDelete(n) PROVE LoadInv'
    BY <1>3, DeleteFacts, LoadDelete
  <1>4. ASSUME ConfigMapChange \/ ConfigMapSync PROVE LoadInv'
    BY <1>4, LoadFrame DEF ConfigMapChange, ConfigMapSync, api, caches, worker
  <1>5. ASSUME NEW n \in Names, CacheSync(n) PROVE LoadInv'
    BY <1>5, LoadSync DEF CacheSync, api
  <1>6. ASSUME NEW n \in Names, Resync(n) PROVE LoadInv'
    BY <1>6, LoadFrame DEF Resync, api, caches
  <1>7. ASSUME NEW n \in Names, Reconcile(n) PROVE LoadInv'
    <2>1. CASE cache[n] = None
      BY <1>7, <2>1, LoadFrame DEF Reconcile, api, caches
    <2>2. CASE cache[n] # None
      BY <1>7, <2>2, LoadFacts, LoadLoad
    <2> QED
      BY <2>1, <2>2
  <1>8. ASSUME RemoveRule PROVE LoadInv'
    BY <1>8, LoadRemove
  <1>9. ASSUME ValidationFails \/ TemplateUnresolved \/ ReloadRejected \/ ReconcileFails PROVE LoadInv'
    BY <1>9, FailFacts, LoadFail
  <1>10. ASSUME ValidationSucceeds PROVE LoadInv'
    BY <1>10, AcceptFacts, LoadAccept
  <1>11. ASSUME WriteRule PROVE LoadInv'
    BY <1>11, LoadWrite
  <1>12. ASSUME ReloadPrometheus PROVE LoadInv'
    BY <1>12, ReloadFacts, LoadReload
  <1>13. ASSUME PatchFinalizer PROVE LoadInv'
    <2>1. PICK n \in Names : n = cur.name
      BY <1>13, CurType DEF PatchFinalizer
    <2> QED
      BY <1>13, <2>1, FinalizerFacts, LoadFinalize
  <1>14. ASSUME PatchStatus PROVE LoadInv'
    <2>1. PICK n \in Names : n = cur.name
      BY <1>14, CurType DEF PatchStatus
    <2> QED
      BY <1>14, <2>1, StatusFacts, LoadStatus
  <1>15. ASSUME PatchFails PROVE LoadInv'
    BY <1>15, LoadPatchFails
  <1>16. ASSUME Crash PROVE LoadInv'
    BY <1>16, CrashFacts, LoadCrash
  <1>17. CASE UNCHANGED vars
    BY <1>17, LoadFrame DEF vars
  <1> QED
    BY <1>1, <1>2, <1>3, <1>4, <1>5, <1>6, <1>7, <1>8, <1>9, <1>10, <1>11, <1>12, <1>13, <1>14,
       <1>15, <1>16, <1>17 DEF Next, Step

LEMMA LoadInit == Init => LoadInv
  BY DEF Init, LoadInv, VersionInv, ReadyInv, CurReadyInv

LEMMA LoadedByInv == LoadInv => ReadyMeansLoaded
  BY DEF LoadInv, ReadyInv, ReadyMeansLoaded, ReadyNow

\* Prometheus runs the rules of the current spec of every resource that is Ready
\* for its current generation, although each reload takes up the files of all
\* resources and each run works on a copy that may be stale; the one exception, a
\* file cut short that another resource's reload took up, has a run that mends it
\* queued or under way.
THEOREM ReadyIsLoaded == Spec => []ReadyMeansLoaded
  BY LoadedByInv, TypeInit, TypeStep, OwnerInit, OwnerStep, LoadInit, LoadStep, PTL DEF Spec

-----------------------------------------------------------------------------
(* Cycles.  The Ready resources are validated at different times, against a *)
(* cache that lags.  What excludes a cycle is that a resource which is      *)
(* Ready now is cached with its current spec, so that the one validated     *)
(* last is validated against all the others.                                *)

\* No step but a validation makes a resource sound, or changes one that stays so.
Shrinks == \A m \in Names : (ReadyNow(m) \/ Validated(m))' =>
              (ReadyNow(m) \/ Validated(m)) /\ obj'[m].spec = obj[m].spec

LEMMA ShrinksAcyclic ==
    ASSUME AcyclicInv, Shrinks
    PROVE  AcyclicInv'
  <1>1. Sound' \in SUBSET Sound
    BY DEF Shrinks, Sound
  <1>2. \A m \in Sound' : StoredParents'[m] = StoredParents[m]
    BY DEF Shrinks, Sound, StoredParents
  <1> QED
    BY <1>1, <1>2, NoCycleSubset DEF AcyclicInv

\* A resource that is Ready now is not being deleted, and its cached copy is
\* of the current version.
LEMMA ReadyIsCached ==
    ASSUME TypeOK, LoadInv, NEW m \in Names, ReadyNow(m)
    PROVE  cache[m] # None /\ ~cache[m].del /\ cache[m].spec = obj[m].spec
  <1>1. /\ obj[m] # None /\ ~obj[m].del /\ cache[m] # None /\ cache[m].uid = obj[m].uid
        /\ obj[m].gen <= cache[m].gen
    BY DEF ReadyNow, LoadInv, ReadyInv
  <1>2. cache[m].gen <= obj[m].gen /\ (cache[m].gen = obj[m].gen =>
                                          cache[m].spec = obj[m].spec /\ cache[m].del = obj[m].del)
    BY <1>1 DEF LoadInv, VersionInv, Version
  <1> QED
    BY <1>1, <1>2, ObjectTypes

LEMMA AcyclicAccept ==
    ASSUME TypeOK, OwnerInv, LoadInv, AcyclicInv, Accepted
    PROVE  AcyclicInv'
  <1>1. PICK n \in Names : n = cur.name
    BY DEF Accepted, Holds
  <1>2. /\ cur # None /\ ~cur.del /\ pc = "validate" /\ pc' = "writeRule"
        /\ cur'.name = cur.name /\ cur'.uid = cur.uid /\ SameVersion(cur', cur)
        /\ cur.ready # "True" /\ cur'.ready = cur.ready
    BY DEF Accepted, Holds, SameIdentity, OwnerInv, CleanupInv, LoadInv, CurReadyInv
  <1>3. \A m \in Names : /\ (obj'[m] = None) <=> (obj[m] = None)
                         /\ obj[m] # None => /\ obj'[m].uid = obj[m].uid
                                             /\ SameVersion(obj'[m], obj[m]) /\ SameClaim(obj'[m], obj[m])
    BY DEF Accepted, SameIdentity, SameVersion, SameClaim
  <1>4. \A m \in Names : /\ ReadyNow(m)' <=> ReadyNow(m)
                         /\ ~Validated(m)
                         /\ Validated(m)' => m = n /\ Has(n, cur.uid) /\ cur.gen = obj[n].gen
    BY <1>1, <1>2, <1>3 DEF ReadyNow, Validated, Runs, Has, SameVersion, SameClaim
  <1>5. \A m \in Sound \cup Sound' : obj[m] # None
    BY <1>3, <1>4 DEF Sound, ReadyNow, Validated, Has
  <1>6. \A m \in Sound \cup Sound' : StoredParents'[m] = StoredParents[m]
    BY <1>3, <1>5 DEF StoredParents, SameVersion, Sound
  <1>7. CASE Sound' \in SUBSET Sound
    BY <1>6, <1>7, NoCycleSubset DEF AcyclicInv
  <1>8. CASE Sound' \notin SUBSET Sound
    <2>1. Sound' \in SUBSET (Sound \cup {n}) /\ Validated(n)'
      BY <1>4, <1>8 DEF Sound
    <2>2. Has(n, cur.uid) /\ cur.gen = obj[n].gen
      BY <1>4, <2>1
    <2>3. cur.spec = obj[n].spec /\ ~obj[n].del
      BY <1>1, <1>2, <2>2 DEF LoadInv, VersionInv, Version, Has
    <2>4. cache[n] # None /\ cache[n].uid = cur.uid /\ cur.gen <= cache[n].gen
      BY <1>1, <1>2 DEF LoadInv, CurReadyInv
    <2>5. cache[n].spec = obj[n].spec /\ ~cache[n].del
      <3>1. cache[n].gen <= obj[n].gen /\ (cache[n].gen = obj[n].gen =>
                                          cache[n].spec = obj[n].spec /\ cache[n].del = obj[n].del)
        BY <2>2, <2>4 DEF LoadInv, VersionInv, Version, Has
      <3> QED
        BY <2>2, <2>3, <2>4, <3>1, ObjectTypes DEF Has
    <2> DEFINE g == CachedGraph
    <2>6. g[n] = cur.spec.parents /\ StoredParents[n] = g[n] /\ g[n] \in Seq(Names)
      BY <1>2, <2>3, <2>4, <2>5, CurType DEF CachedGraph, StoredParents
    <2>7. \A m \in Sound : g[m] = StoredParents[m]
      <3>1. \A m \in Sound : ReadyNow(m) /\ m \in Names
        BY <1>4 DEF Sound
      <3>2. \A m \in Sound : cache[m] # None /\ ~cache[m].del /\ cache[m].spec = obj[m].spec
        BY <3>1, ReadyIsCached
      <3> QED
        BY <3>1, <3>2 DEF CachedGraph, StoredParents
    <2>8. Missing(g[n], g) = {} /\ Closing(n, g[n], g) = {}
      BY <1>1, <2>6 DEF Accepted, Culprits
    <2>9. g \in [Names -> Seq(Names) \cup {None}] /\ Sound \in SUBSET Names
      BY GraphType DEF Sound
    <2> HIDE DEF g
    <2>10. NoCycle(Sound \cup {n}, StoredParents)
      BY <2>6, <2>7, <2>8, <2>9, ValidAddsNoCycle DEF AcyclicInv
    <2> QED
      BY <1>6, <2>1, <2>10, NoCycleSubset DEF AcyclicInv
  <1> QED
    BY <1>7, <1>8

LEMMA AcyclicStep == TypeOK /\ OwnerInv /\ LoadInv /\ AcyclicInv /\ [Next]_vars => AcyclicInv'
  <1> SUFFICES ASSUME TypeOK, OwnerInv, LoadInv, AcyclicInv, [Next]_vars PROVE AcyclicInv'
    OBVIOUS
  <1> USE ObjectTypes DEF Shrinks
  <1>1. ASSUME NEW n \in Names, NEW s \in Specs, UserCreate(n, s) PROVE Shrinks
    <2>1. Created(n, s)
      BY <1>1, CreateFacts
    <2> QED
      BY <2>1 DEF Created, OthersKept, ReadyNow, Validated, Has, Runs, OwnerInv, UidInv, OldCopy
  <1>2. ASSUME NEW n \in Names, NEW s \in Specs, UserUpdate(n, s) PROVE Shrinks
    <2>1. Updated(n, s)
      BY <1>2, UpdateFacts
    <2>2. ~ReadyNow(n)'
      BY <2>1 DEF Updated, ReadyNow, SameClaim, LoadInv, ReadyInv
    <2>3. ~Validated(n)'
      BY <2>1 DEF Updated, Validated, Has, Runs, SameIdentity, LoadInv, VersionInv, Version
    <2> QED
      BY <2>1, <2>2, <2>3 DEF Updated, OthersKept, ReadyNow, Validated, Has, Runs
  <1>3. ASSUME NEW n \in Names, UserDelete(n) PROVE Shrinks
    <2>1. Deleted(n)
      BY <1>3, DeleteFacts
    <2>2. ~ReadyNow(n)'
      BY <2>1 DEF Deleted, ReadyNow, SameClaim, LoadInv, ReadyInv
    <2>3. ~Validated(n)'
      BY <2>1 DEF Deleted, Validated, Has, Runs, SameIdentity, LoadInv, VersionInv, Version
    <2> QED
      BY <2>1, <2>2, <2>3 DEF Deleted, OthersKept, ReadyNow, Validated, Has, Runs
  <1>4. ASSUME UNCHANGED <<obj, pc, cur>> PROVE Shrinks
    BY <1>4 DEF ReadyNow, Validated, Has, Runs
  <1>5. ASSUME ConfigMapChange \/ ConfigMapSync PROVE Shrinks
    BY <1>4, <1>5 DEF ConfigMapChange, ConfigMapSync, api, caches, worker
  <1>6. ASSUME NEW n \in Names, CacheSync(n) \/ Resync(n) PROVE Shrinks
    BY <1>4, <1>6 DEF CacheSync, Resync, api
  <1>7. ASSUME NEW n \in Names, Reconcile(n) PROVE Shrinks
    <2>1. CASE cache[n] = None
      BY <1>4, <1>7, <2>1 DEF Reconcile, api
    <2>2. CASE cache[n] # None
      <3>1. Loaded(n)
        BY <1>7, <2>2, LoadFacts
      <3>2. pc' \notin {"writeRule", "reload"} /\ cur'.ready # "True" /\ UNCHANGED obj
        BY <2>2, <3>1 DEF Loaded
      <3> QED
        BY <3>2 DEF ReadyNow, Validated, Has, Runs
    <2> QED
      BY <2>1, <2>2
  <1>8. ASSUME RemoveRule PROVE Shrinks
    BY <1>8, CurType DEF RemoveRule, api, ReadyNow, Validated, OwnerInv, CleanupInv
  <1>9. ASSUME ValidationFails \/ TemplateUnresolved \/ ReloadRejected \/ ReconcileFails PROVE Shrinks
    <2>1. Failed
      BY <1>9, FailFacts
    <2>2. cur.ready # "True"
      BY <2>1 DEF Failed, Holds, LoadInv, CurReadyInv
    <2> QED
      BY <2>1, <2>2 DEF Failed, ReadyNow, Validated
  <1>10. ASSUME ValidationSucceeds PROVE AcyclicInv'
    BY <1>10, AcceptFacts, AcyclicAccept
  <1>11. ASSUME WriteRule PROVE Shrinks
    BY <1>11 DEF WriteRule, api, ReadyNow, Validated, Has, Runs
  <1>12. ASSUME ReloadPrometheus PROVE Shrinks
    <2>1. Reloaded
      BY <1>12, ReloadFacts
    <2> QED
      BY <2>1 DEF Reloaded, Holds, SameIdentity, SameVersion, ReadyNow, Validated, Has, Runs
  <1>13. ASSUME PatchFinalizer PROVE Shrinks
    <2>1. PICK n \in Names : n = cur.name
      BY <1>13, CurType DEF PatchFinalizer
    <2>2. Finalized(n)
      BY <1>13, <2>1, FinalizerFacts
    <2>3. cur.ready # "True" /\ pc' = "patchStatus" /\ UNCHANGED cur
      BY <2>2 DEF Finalized, LoadInv, CurReadyInv
    <2> QED
      BY <2>2, <2>3 DEF Finalized, OthersKept, ReadyNow, Validated, SameVersion, SameClaim
  <1>14. ASSUME PatchStatus PROVE Shrinks
    <2>1. PICK n \in Names : n = cur.name
      BY <1>14, CurType DEF PatchStatus
    <2>2. Stored(n)
      BY <1>14, <2>1, StatusFacts
    <2>3. ASSUME ReadyNow(n)' PROVE Validated(n) /\ obj'[n].spec = obj[n].spec
      <3>1. /\ obj[n] # None /\ cur # None /\ cur.name = n
            /\ SameVersion(obj'[n], obj[n]) /\ SameClaim(obj'[n], cur)
        BY <2>2, <2>3 DEF Stored, ReadyNow
      <3>2. cur.ready = "True" /\ ~cur.del /\ cur.gen = obj[n].gen
        BY <2>3, <3>1 DEF ReadyNow, SameVersion, SameClaim, LoadInv, CurReadyInv
      <3>3. Has(n, cur.uid)
        BY <3>1, <3>2 DEF OwnerInv, CurInv
      <3> QED
        BY <3>1, <3>2, <3>3 DEF Validated, Runs, SameVersion
    <2>4. \A m \in Names : ~Validated(m)'
      BY <2>2 DEF Stored, Validated, Runs
    <2> QED
      BY <2>2, <2>3, <2>4 DEF Stored, OthersKept, ReadyNow
  <1>15. ASSUME PatchFails PROVE Shrinks
    <2>1. /\ UNCHANGED obj /\ pc' \in {"patchStatus", "idle"}
          /\ cur' = None \/ (cur' = cur /\ pc = "patchFinalizer")
      BY <1>15 DEF PatchFails, api
    <2>2. cur' # None => cur'.ready # "True"
      BY <2>1 DEF LoadInv, CurReadyInv
    <2> QED
      BY <2>1, <2>2 DEF ReadyNow, Validated, Runs
  <1>16. ASSUME Crash PROVE Shrinks
    BY <1>16 DEF Crash, api, ReadyNow, Validated, Runs
  <1>17. CASE UNCHANGED vars
    BY <1>4, <1>17, ShrinksAcyclic DEF vars
  <1> HIDE DEF Shrinks
  <1> QED
    BY <1>1, <1>2, <1>3, <1>5, <1>6, <1>7, <1>8, <1>9, <1>10, <1>11, <1>12, <1>13, <1>14,
       <1>15, <1>16, <1>17, ShrinksAcyclic DEF Next, Step

LEMMA AcyclicInit == Init => AcyclicInv
  BY DEF Init, AcyclicInv, NoCycle, Sound, ReadyNow, Validated, Runs

\* The Ready resources form no cycle, for any number of resources and any
\* graph, although each is validated alone and against a cache that lags.
THEOREM NoReadyCycle == Spec => []ReadyAcyclic
  <1>1. AcyclicInv => ReadyAcyclic
    <2> SUFFICES ASSUME AcyclicInv, NEW R \in (SUBSET {n \in Names : ReadyNow(n)}) \ {{}}
                 PROVE  \E n \in R : \A p \in R : p \notin Range(obj[n].spec.parents)
      BY DEF ReadyAcyclic
    <2>1. R \in SUBSET Sound /\ R # {} /\ R \in SUBSET Names
      BY DEF Sound
    <2>2. PICK n \in R : \A p \in R : p \notin Range(StoredParents[n])
      BY <2>1 DEF AcyclicInv, NoCycle
    <2> QED
      BY <2>1, <2>2 DEF StoredParents
  <1> QED
    BY <1>1, TypeInit, TypeStep, OwnerInit, OwnerStep, LoadInit, LoadStep, AcyclicInit, AcyclicStep,
       PTL DEF Spec

-----------------------------------------------------------------------------
(* Rest.  Both properties of a state at rest need to know, in every state,  *)
(* what a resource that is not in the queue still waits for.                *)

RestInv == QueueInv /\ ConfigMapInv

\* More in the queue asks for less.
LEMMA RestFrame ==
    ASSUME RestInv, UNCHANGED <<obj, cache, cmCache, rule, loaded, pc, cur>>, queue \subseteq queue'
    PROVE  RestInv'
  BY DEF RestInv, QueueInv, ConfigMapInv, Runs, Has, ReadyNow, SameIdentity, SameVersion

LEMMA RestCreate ==
    ASSUME TypeOK, OwnerInv, LoadInv, RestInv, NEW n \in Names, NEW s \in Specs, Created(n, s)
    PROVE  RestInv'
  <1> USE ObjectTypes DEF Created, OthersKept, RestInv, Runs
  <1>1. cache[n] # obj'[n]
    BY DEF OwnerInv, UidInv, OldCopy
  <1>2. cur # None /\ cur.name = n => cur.uid # obj'[n].uid
    BY DEF OwnerInv, UidInv, OldCopy
  <1>3. pc # "idle" => cur # None
    BY DEF TypeOK
  <1>4. QueueInv'
    BY <1>1, <1>2, <1>3 DEF QueueInv, ReadyNow, Has, SameIdentity, SameVersion
  <1>5. ConfigMapInv'
    BY DEF ConfigMapInv, ReadyNow
  <1> QED
    BY <1>4, <1>5

LEMMA RestUpdate ==
    ASSUME TypeOK, OwnerInv, LoadInv, RestInv, NEW n \in Names, NEW s \in Specs, Updated(n, s)
    PROVE  RestInv'
  <1> USE ObjectTypes DEF Updated, OthersKept, RestInv, Runs, SameIdentity, SameClaim
  <1>1. cache[n] # obj'[n]
    BY DEF LoadInv, VersionInv, Version
  <1>2. ~ReadyNow(n)'
    BY DEF ReadyNow, LoadInv, ReadyInv
  <1>3. pc # "idle" => cur # None
    BY DEF TypeOK
  <1>4. QueueInv'
    BY <1>1, <1>3 DEF QueueInv, ReadyNow, Has, SameVersion
  <1>5. ConfigMapInv'
    BY <1>2 DEF ConfigMapInv, ReadyNow
  <1> QED
    BY <1>4, <1>5

LEMMA RestDelete ==
    ASSUME TypeOK, OwnerInv, LoadInv, RestInv, NEW n \in Names, Deleted(n)
    PROVE  RestInv'
  <1> USE ObjectTypes DEF Deleted, OthersKept, RestInv, Runs, SameIdentity, SameClaim
  <1>1. obj'[n] # None => cache[n] # obj'[n]
    BY DEF LoadInv, VersionInv, Version
  <1>2. ~ReadyNow(n)'
    BY DEF ReadyNow, LoadInv, ReadyInv
  <1>3. pc # "idle" => cur # None
    BY DEF TypeOK
  <1>4. QueueInv'
    BY <1>1, <1>3 DEF QueueInv, ReadyNow, Has, SameVersion
  <1>5. ConfigMapInv'
    BY <1>2 DEF ConfigMapInv, ReadyNow
  <1> QED
    BY <1>4, <1>5

LEMMA RestSync ==
    ASSUME TypeOK, RestInv, NEW n \in Names, CacheSync(n)
    PROVE  RestInv'
  <1> USE ObjectTypes DEF RestInv, Runs
  <1>0. /\ \A m \in Names : m # n => cache'[m] = cache[m]
        /\ queue' = queue \cup {n} /\ UNCHANGED <<obj, cmCache, rule, loaded, pc, cur>>
    BY DEF CacheSync, TypeOK, api
  <1>1. QueueInv'
    BY <1>0 DEF QueueInv, ReadyNow, Has, SameIdentity, SameVersion, TypeOK
  <1>2. ConfigMapInv'
    BY <1>0 DEF ConfigMapInv, ReadyNow
  <1> QED
    BY <1>1, <1>2

\* The watch on ConfigMaps finds every resource that is Ready with one, because
\* such a resource is cached with its current spec.
LEMMA RestConfigMap ==
    ASSUME TypeOK, LoadInv, RestInv, ConfigMapSync
    PROVE  RestInv'
  <1> USE ObjectTypes DEF RestInv, Runs
  <1>0. /\ \A m \in Names : cache[m] # None /\ cache[m].spec.from = "configMap" => m \in queue'
        /\ queue \subseteq queue' /\ UNCHANGED <<obj, cache, rule, loaded, pc, cur>>
    BY DEF ConfigMapSync, ReferencesConfigMap, api
  <1>1. QueueInv'
    BY <1>0 DEF QueueInv, ReadyNow, Has, SameIdentity, SameVersion
  <1>2. \A m \in Names : ReadyNow(m) /\ obj[m].spec.from = "configMap" => m \in queue'
    BY <1>0, ReadyIsCached
  <1>3. cur # None /\ cur.spec.from = "configMap" => cur.name \in queue'
    BY <1>0 DEF QueueInv, SameVersion
  <1>4. ConfigMapInv'
    BY <1>0, <1>2, <1>3 DEF ConfigMapInv, ReadyNow
  <1> QED
    BY <1>1, <1>4

LEMMA RestLoad ==
    ASSUME TypeOK, OwnerInv, RestInv, NEW n \in Names, cache[n] # None, Loaded(n)
    PROVE  RestInv'
  <1> USE ObjectTypes DEF Loaded, RestInv, Runs
  <1>0. cur'.name = n /\ cur = None
    BY DEF OwnerInv, NameInv, SameIdentity, TypeOK
  <1>1. QueueInv'
    BY <1>0 DEF QueueInv, ReadyNow, OwnerInv, ObjectInv, SameIdentity, SameVersion
  <1>2. ConfigMapInv'
    BY <1>0 DEF ConfigMapInv, ReadyNow
  <1> QED
    BY <1>1, <1>2

LEMMA RestDrop ==
    ASSUME TypeOK, LoadInv, RestInv, NEW n \in Names, cache[n] = None, Reconcile(n)
    PROVE  RestInv'
  <1>0. /\ cur = None /\ queue' = queue \ {n} /\ pc = "idle"
        /\ UNCHANGED <<obj, cache, cmCache, rule, loaded, pc, cur>>
    BY DEF Reconcile, TypeOK, api, caches
  <1>1. ~ReadyNow(n)
    BY ReadyIsCached
  <1> QED
    BY <1>0, <1>1 DEF RestInv, QueueInv, ConfigMapInv, Runs, ReadyNow

LEMMA RestRemove ==
    ASSUME TypeOK, OwnerInv, RestInv, RemoveRule
    PROVE  RestInv'
  <1> USE ObjectTypes DEF RestInv, Runs
  <1>0. /\ cur # None /\ cur.name \in Names /\ pc = "removeRule" /\ pc' = "reload" /\ cur.del
        /\ \A m \in Names : m # cur.name => rule'[m] = rule[m]
        /\ UNCHANGED <<obj, cache, cmCache, loaded, cur, queue>>
    BY CurType DEF RemoveRule, TypeOK, api, caches, OwnerInv, CleanupInv
  <1>1. QueueInv'
    BY <1>0 DEF QueueInv, ReadyNow, SameIdentity, SameVersion
  <1>2. ConfigMapInv'
    BY <1>0 DEF ConfigMapInv, ReadyNow
  <1> QED
    BY <1>1, <1>2

LEMMA RestFail ==
    ASSUME TypeOK, RestInv, Failed
    PROVE  RestInv'
  <1> USE ObjectTypes DEF RestInv, Runs, Failed, Holds, SameIdentity
  <1>1. QueueInv'
    BY DEF QueueInv, ReadyNow
  <1>2. ConfigMapInv'
    BY DEF ConfigMapInv, ReadyNow
  <1> QED
    BY <1>1, <1>2

LEMMA RestAccept ==
    ASSUME TypeOK, LoadInv, RestInv, Accepted
    PROVE  RestInv'
  <1> USE ObjectTypes DEF RestInv, Runs
  <1>1. \A m \in Names : /\ (obj'[m] = None) <=> (obj[m] = None)
                         /\ obj[m] # None => /\ SameVersion(obj'[m], obj[m]) /\ SameClaim(obj'[m], obj[m])
                                             /\ obj'[m] = obj[m] \/ cache[m] # obj'[m]
    BY DEF Accepted, SameVersion, SameClaim
  <1>2. /\ cur # None /\ cur' # None /\ cur.name \in Names /\ SameIdentity(cur', cur)
        /\ SameVersion(cur', cur) /\ cur'.ready = cur.ready /\ cur.ready # "True"
        /\ pc = "validate" /\ pc' = "writeRule"
        /\ UNCHANGED <<cache, cmCache, rule, loaded, queue>>
    BY DEF Accepted, Holds, LoadInv, CurReadyInv
  <1>3. \A m \in Names : ReadyNow(m)' <=> ReadyNow(m)
    BY <1>1 DEF ReadyNow, SameVersion, SameClaim
  <1>4. QueueInv'
    BY <1>1, <1>2, <1>3 DEF QueueInv, SameIdentity, SameVersion
  <1>5. ConfigMapInv'
    <2>1. \A m \in Names : ReadyNow(m) => obj'[m].spec = obj[m].spec
      BY <1>1 DEF ReadyNow, SameVersion
    <2> QED
      BY <1>2, <1>3, <2>1 DEF ConfigMapInv, SameIdentity, SameVersion
  <1> QED
    BY <1>4, <1>5

LEMMA RestWrite ==
    ASSUME TypeOK, OwnerInv, RestInv, WriteRule
    PROVE  RestInv'
  <1> USE ObjectTypes DEF RestInv, Runs
  <1>1. UNCHANGED <<queue, cmCache>>
    BY DEF WriteRule, caches
  <1>2. cur.spec.from = "configMap" => rule'[cur.name].version = cmCache
    BY CurType DEF WriteRule, BuildRuleFile, TypeOK
  <1>3. QueueInv'
    BY <1>1, WrittenRule DEF QueueInv, ReadyNow, SameIdentity, SameVersion
  <1>4. ConfigMapInv'
    BY <1>1, <1>2, WrittenRule DEF ConfigMapInv, ReadyNow
  <1> QED
    BY <1>3, <1>4

LEMMA RestReload ==
    ASSUME TypeOK, RestInv, Reloaded
    PROVE  RestInv'
  <1> USE ObjectTypes DEF RestInv, Runs, Reloaded, Holds, SameIdentity, SameVersion
  <1>1. QueueInv'
    BY DEF QueueInv, ReadyNow
  <1>2. ConfigMapInv'
    BY DEF ConfigMapInv, ReadyNow
  <1> QED
    BY <1>1, <1>2

LEMMA RestFinalize ==
    ASSUME TypeOK, OwnerInv, LoadInv, RestInv, NEW n \in Names, Finalized(n)
    PROVE  RestInv'
  <1> USE ObjectTypes DEF RestInv, Runs
  <1>1. /\ n = cur.name /\ cur # None /\ OthersKept(n) /\ queue \subseteq queue'
        /\ pc = "patchFinalizer" /\ pc' = "patchStatus" /\ cur.ready # "True"
        /\ UNCHANGED <<cache, cmCache, rule, loaded, cur>>
    BY DEF Finalized, LoadInv, CurReadyInv
  <1>2. ASSUME n \notin queue, Has(n, cur.uid)' PROVE obj'[n].fin # cache[n].fin
    <2>1. /\ obj[n] # None /\ ~(obj[n].del /\ ~cur.fin) /\ obj[n].uid = cur.uid /\ obj'[n].fin = cur.fin
      BY <1>2 DEF Finalized, Has, SameIdentity
    <2>2. ~cur.del /\ cur.fin
      BY <1>1, <2>1 DEF OwnerInv, CurInv, CleanupInv, Has
    <2>3. ~cache[n].fin /\ cache[n] # None
      BY <1>1, <1>2, <2>2 DEF QueueInv
    <2> QED
      BY <2>1, <2>2, <2>3
  <1>3. QueueInv'
    BY <1>1, <1>2 DEF QueueInv, ReadyNow, OthersKept, SameIdentity, SameVersion
  <1>4. ConfigMapInv'
    BY <1>1 DEF ConfigMapInv, ReadyNow, OthersKept
  <1> QED
    BY <1>3, <1>4

LEMMA RestStatus ==
    ASSUME TypeOK, OwnerInv, LoadInv, RestInv, NEW n \in Names, Stored(n)
    PROVE  RestInv'
  <1> USE ObjectTypes DEF RestInv, Runs
  <1>1. /\ n = cur.name /\ cur # None /\ OthersKept(n) /\ queue \subseteq queue'
        /\ pc = "patchStatus" /\ pc' = "idle" /\ cur' = None
        /\ UNCHANGED <<cache, cmCache, rule, loaded>>
    BY DEF Stored
  <1>2. ASSUME obj'[n] # None, n \notin queue, cache[n] = obj'[n] PROVE ReadyNow(n)'
    <2>1. /\ obj[n] # None /\ obj'[n].uid = obj[n].uid /\ obj'[n].fin = obj[n].fin
          /\ SameVersion(obj'[n], obj[n]) /\ SameClaim(obj'[n], cur)
      BY <1>2 DEF Stored, SameIdentity
    <2>2. SameIdentity(cur, cache[n]) /\ SameVersion(cur, cache[n])
      BY <1>1, <1>2 DEF QueueInv
    <2>3. Has(n, cur.uid)
      BY <1>2, <2>1, <2>2 DEF Has, SameIdentity
    <2>4. cur.ready = "True"
      BY <1>1, <1>2, <2>1, <2>3 DEF QueueInv
    <2>5. cur.readyGen = cur.gen
      BY <1>1, <2>4 DEF LoadInv, CurReadyInv
    <2> QED
      BY <1>2, <2>1, <2>2, <2>4, <2>5 DEF ReadyNow, SameVersion, SameClaim
  <1>3. QueueInv'
    BY <1>1, <1>2 DEF QueueInv, ReadyNow, OthersKept
  <1>4. ASSUME ReadyNow(n)', n \notin queue, obj'[n].spec.from = "configMap"
        PROVE  loaded[n].version = cmCache /\ rule[n] = loaded[n]
    <2>1. /\ obj[n] # None /\ obj'[n].uid = obj[n].uid
          /\ SameVersion(obj'[n], obj[n]) /\ SameClaim(obj'[n], cur)
      BY <1>4 DEF Stored, SameIdentity, ReadyNow
    <2>2. cur.ready = "True" /\ ~cur.del /\ cur.gen = obj[n].gen /\ loaded[n] = rule[n]
      BY <1>1, <1>4, <2>1 DEF LoadInv, CurReadyInv, ReadyNow, SameVersion, SameClaim
    <2>3. cur.uid = obj[n].uid
      BY <1>1, <2>2 DEF OwnerInv, CurInv, Has
    <2>4. cur.spec = obj'[n].spec
      BY <1>1, <2>1, <2>2, <2>3 DEF LoadInv, VersionInv, Version, SameVersion
    <2> QED
      BY <1>1, <1>4, <2>2, <2>4 DEF ConfigMapInv
  <1>5. ConfigMapInv'
    BY <1>1, <1>4 DEF ConfigMapInv, ReadyNow, OthersKept
  <1> QED
    BY <1>3, <1>5

LEMMA RestPatchFails ==
    ASSUME TypeOK, LoadInv, RestInv, PatchFails
    PROVE  RestInv'
  <1> USE ObjectTypes DEF RestInv, Runs
  <1>0. /\ cur # None /\ cur.name \in Names /\ queue' = queue \cup {cur.name}
        /\ cur' = cur \/ cur' = None
        /\ pc' \in {"patchStatus", "idle"}
        /\ pc' = "patchStatus" => cur' = cur
        /\ UNCHANGED <<obj, cache, cmCache, rule, loaded>>
    BY CurType DEF PatchFails, api, caches
  <1>1. QueueInv'
    BY <1>0 DEF QueueInv, ReadyNow
  <1>2. ConfigMapInv'
    BY <1>0 DEF ConfigMapInv, ReadyNow
  <1> QED
    BY <1>1, <1>2

LEMMA RestCrash ==
    ASSUME TypeOK, RestInv, Restarted
    PROVE  RestInv'
  BY DEF Restarted, RestInv, QueueInv, ConfigMapInv, ReadyNow

LEMMA RestStep == TypeOK /\ OwnerInv /\ LoadInv /\ RestInv /\ [Next]_vars => RestInv'
  <1> SUFFICES ASSUME TypeOK, OwnerInv, LoadInv, RestInv, [Next]_vars PROVE RestInv'
    OBVIOUS
  <1>1. ASSUME NEW n \in Names, NEW s \in Specs, UserCreate(n, s) PROVE RestInv'
    BY <1>1, CreateFacts, RestCreate
  <1>2. ASSUME NEW n \in Names, NEW s \in Specs, UserUpdate(n, s) PROVE RestInv'
    BY <1>2, UpdateFacts, RestUpdate
  <1>3. ASSUME NEW n \in Names, UserDelete(n) PROVE RestInv'
    BY <1>3, DeleteFacts, RestDelete
  <1>4. ASSUME ConfigMapChange PROVE RestInv'
    BY <1>4, RestFrame DEF ConfigMapChange, caches, worker
  <1>5. ASSUME ConfigMapSync PROVE RestInv'
    BY <1>5, RestConfigMap
  <1>6. ASSUME NEW n \in Names, CacheSync(n) PROVE RestInv'
    BY <1>6, RestSync
  <1>7. ASSUME NEW n \in Names, Resync(n) PROVE RestInv'
    BY <1>7, RestFrame DEF Resync, api, caches
  <1>8. ASSUME NEW n \in Names, Reconcile(n) PROVE RestInv'
    <2>1. CASE cache[n] = None
      BY <1>8, <2>1, RestDrop
    <2>2. CASE cache[n] # None
      BY <1>8, <2>2, LoadFacts, RestLoad
    <2> QED
      BY <2>1, <2>2
  <1>9. ASSUME RemoveRule PROVE RestInv'
    BY <1>9, RestRemove
  <1>10. ASSUME ValidationFails \/ TemplateUnresolved \/ ReloadRejected \/ ReconcileFails PROVE RestInv'
    BY <1>10, FailFacts, RestFail
  <1>11. ASSUME ValidationSucceeds PROVE RestInv'
    BY <1>11, AcceptFacts, RestAccept
  <1>12. ASSUME WriteRule PROVE RestInv'
    BY <1>12, RestWrite
  <1>13. ASSUME ReloadPrometheus PROVE RestInv'
    BY <1>13, ReloadFacts, RestReload
  <1>14. ASSUME PatchFinalizer PROVE RestInv'
    <2>1. PICK n \in Names : n = cur.name
      BY <1>14, CurType DEF PatchFinalizer
    <2> QED
      BY <1>14, <2>1, FinalizerFacts, RestFinalize
  <1>15. ASSUME PatchStatus PROVE RestInv'
    <2>1. PICK n \in Names : n = cur.name
      BY <1>15, CurType DEF PatchStatus
    <2> QED
      BY <1>15, <2>1, StatusFacts, RestStatus
  <1>16. ASSUME PatchFails PROVE RestInv'
    BY <1>16, RestPatchFails
  <1>17. ASSUME Crash PROVE RestInv'
    BY <1>17, CrashFacts, RestCrash
  <1>18. CASE UNCHANGED vars
    BY <1>18, RestFrame DEF vars
  <1> QED
    BY <1>1, <1>2, <1>3, <1>4, <1>5, <1>6, <1>7, <1>8, <1>9, <1>10, <1>11, <1>12, <1>13, <1>14,
       <1>15, <1>16, <1>17, <1>18 DEF Next, Step

LEMMA DCRInvariant == Spec => [](TypeOK /\ OwnerInv /\ LoadInv /\ RestInv)
  <1>1. Init => RestInv
    BY DEF Init, RestInv, QueueInv, ConfigMapInv, ReadyNow
  <1> QED
    BY <1>1, TypeInit, TypeStep, OwnerInit, OwnerStep, LoadInit, LoadStep, RestStep, PTL DEF Spec

\* No wake-up is lost, for any number of resources: at rest every resource is
\* Ready for its current spec.  Every other end of a run queues the name again,
\* or changes the stored resource, so that its event is still to come.
THEOREM RestIsReady == Spec => []SettledAtRest
  <1>1. TypeOK /\ RestInv => SettledAtRest
    BY DEF TypeOK, RestInv, QueueInv, SettledAtRest, Quiescent, Runs
  <1> QED
    BY <1>1, DCRInvariant, PTL

\* No change of the ConfigMap is lost: a Ready resource that refers to it and has
\* no run queued or under way runs with the version the cache has, although a
\* change may arrive while the resource is worked on, or before its new spec
\* reaches the cache.
THEOREM RestFollowsConfigMap == Spec => []ConfigMapFollowed
  <1>1. TypeOK /\ RestInv => ConfigMapFollowed
    BY DEF TypeOK, RestInv, ConfigMapInv, ConfigMapFollowed, Pending, Runs
  <1> QED
    BY <1>1, DCRInvariant, PTL

-----------------------------------------------------------------------------
(* Refinement.  Every step of the controller is a step of the contract that *)
(* ManagedResource states, or leaves it unchanged.                          *)

WantOf(o) == IF o = None THEN None ELSE o.spec.parents

\* A step that touches the resource of one name, and no rules that Prometheus
\* runs, changes the mapped state of that name only.
LEMMA BarsFollow ==
    ASSUME NEW n \in Names, OthersKept(n), UNCHANGED loaded
    PROVE  /\ OwnerBar' = [OwnerBar EXCEPT ![n] = Life(obj'[n])]
           /\ WantBar' = [WantBar EXCEPT ![n] = WantOf(obj'[n])]
           /\ Life(obj'[n]) = Life(obj[n]) => OwnerBar' = OwnerBar
           /\ WantOf(obj'[n]) = WantOf(obj[n]) => WantBar' = WantBar
           /\ (ReadyNow(n)' <=> ReadyNow(n)) => ReadyBar' = ReadyBar
           /\ ~ReadyNow(n)' => ReadyBar' = ReadyBar \ {n}
           /\ ReadyNow(n)' => ReadyBar' = ReadyBar \cup {n}
           /\ ShownBar' = ShownBar
  <1>1. OwnerBar' = [OwnerBar EXCEPT ![n] = Life(obj'[n])]
    BY DEF OwnerBar, OthersKept
  <1>2. WantBar' = [WantBar EXCEPT ![n] = WantOf(obj'[n])]
    BY DEF WantBar, WantOf, OthersKept
  <1>3. Life(obj'[n]) = Life(obj[n]) => OwnerBar' = OwnerBar
    BY <1>1 DEF OwnerBar
  <1>4. WantOf(obj'[n]) = WantOf(obj[n]) => WantBar' = WantBar
    BY <1>2 DEF WantBar, WantOf
  <1>5. \A m \in Names : m # n => (ReadyNow(m)' <=> ReadyNow(m))
    BY DEF OthersKept, ReadyNow
  <1>6. /\ (ReadyNow(n)' <=> ReadyNow(n)) => ReadyBar' = ReadyBar
        /\ ~ReadyNow(n)' => ReadyBar' = ReadyBar \ {n}
        /\ ReadyNow(n)' => ReadyBar' = ReadyBar \cup {n}
    BY <1>5 DEF ReadyBar
  <1>7. ShownBar' = ShownBar
    BY DEF ShownBar
  <1> QED
    BY <1>1, <1>2, <1>3, <1>4, <1>6, <1>7

\* What the mapping says of one resource.
LEMMA LifeFacts ==
    ASSUME NEW n \in Names
    PROVE  /\ OwnerBar[n] = Life(obj[n]) /\ WantBar[n] = WantOf(obj[n])
           /\ ShownBar[n] = IF loaded[n] \in {None, Short} THEN loaded[n] ELSE loaded[n].parents
           /\ n \in ReadyBar <=> ReadyNow(n)
  BY DEF OwnerBar, WantBar, WantOf, ShownBar, ReadyBar

LEMMA MappedInit == Init => Contract!Init
  BY DEF Init, Contract!Init, OwnerBar, WantBar, ShownBar, ReadyBar, Life, ReadyNow

\* A reload shows or drops the rules of all resources at once, and each change
\* is one that the contract allows.
LEMMA ReloadShows ==
    ASSUME TypeOK, OwnerInv, LoadInv, Reloaded
    PROVE  Contract!Show
  <1>1. UNCHANGED <<OwnerBar, WantBar, ReadyBar>>
    BY DEF Reloaded, OwnerBar, WantBar, ReadyBar, ReadyNow
  <1>2. ASSUME NEW m \in Names, ShownBar'[m] # ShownBar[m]
        PROVE  Contract!MayShow(m, ShownBar'[m])
    <2>1. ShownBar'[m] = IF rule[m] \in {None, Short} THEN rule[m] ELSE rule[m].parents
      BY DEF Reloaded, ShownBar
    <2>2. CASE rule[m] = None
      <3>1. loaded[m] # None
        BY <1>2, <2>1, <2>2, LifeFacts
      <3>2. Life(obj[m]) = "dying"
        BY <2>2, <3>1 DEF OwnerInv, RuleInv, RulesOwned, Life
      <3> QED
        BY <2>1, <2>2, <3>2, LifeFacts DEF Contract!MayShow
    <2>3. CASE rule[m] # None
      <3>1. rule[m] # Partial
        BY <2>3 DEF Reloaded, Loadable, Loads
      <3>2. Life(obj[m]) \in {"guarded", "dying"} /\ obj[m] # None
        BY <2>3 DEF OwnerInv, RuleInv, RulesOwned, Life
      <3>3. CASE rule[m] = Short
        BY <2>1, <3>2, <3>3, LifeFacts DEF Contract!MayShow
      <3>4. CASE rule[m] # Short
        <4>1. \E s \in Specs : rule[m].parents = s.parents
          BY <2>3, <3>1, <3>4 DEF OwnerInv, RuleInv
        <4>2. ReadyNow(m) => rule[m].parents = WantOf(obj[m])
          BY <3>1, <3>2, <3>4 DEF ReadyNow, LoadInv, ReadyInv, RulesOf, WantOf
        <4> QED
          BY <2>1, <2>3, <3>2, <3>4, <4>1, <4>2, LifeFacts DEF Contract!MayShow
      <3> QED
        BY <3>3, <3>4
    <2> QED
      BY <2>2, <2>3
  <1>3. ShownBar' = [m \in Names |-> ShownBar'[m]]
    BY DEF ShownBar
  <1> QED
    BY <1>1, <1>2, <1>3 DEF Contract!Show

\* Setting the finalizer is Protect, removing it Release.
LEMMA FinalizeMaps ==
    ASSUME TypeOK, OwnerInv, LoadInv, NEW n \in Names, Finalized(n)
    PROVE  Contract!Protect(n) \/ Contract!Release(n) \/ UNCHANGED Contract!vars
  <1> USE ObjectTypes, LifeFacts
  <1>1. /\ n = cur.name /\ cur # None /\ (cur.fin <=> ~cur.del) /\ OthersKept(n) /\ UNCHANGED loaded
    BY DEF Finalized, OwnerInv, CleanupInv
  <1>2. CASE obj'[n] # None /\ obj[n] # None /\ obj'[n].fin = obj[n].fin
    <2>1. /\ Life(obj'[n]) = Life(obj[n]) /\ WantOf(obj'[n]) = WantOf(obj[n])
          /\ (ReadyNow(n)' <=> ReadyNow(n))
      BY <1>2 DEF Finalized, Life, WantOf, ReadyNow, SameVersion, SameClaim
    <2> QED
      BY <1>1, <2>1, BarsFollow DEF Contract!vars
  <1>3. CASE obj[n] # None /\ ~obj[n].fin /\ cur.fin
    <2>1. obj[n].del = FALSE
      BY <1>3 DEF OwnerInv, ObjectInv
    <2>2. /\ Life(obj[n]) = "unguarded" /\ Life(obj'[n]) = "guarded"
          /\ WantOf(obj'[n]) = WantOf(obj[n]) /\ (ReadyNow(n)' <=> ReadyNow(n))
      BY <1>3, <2>1 DEF Finalized, Life, WantOf, ReadyNow, SameVersion, SameClaim
    <2> QED
      BY <1>1, <2>2, BarsFollow DEF Contract!Protect
  <1>4. CASE obj[n] # None /\ obj[n].del /\ ~cur.fin
    <2>1. /\ Life(obj[n]) = "dying" /\ Life(obj'[n]) = "absent" /\ WantOf(obj'[n]) = None
          /\ ~ReadyNow(n)'
      BY <1>4 DEF Finalized, Life, WantOf, ReadyNow
    <2>2. ~ReadyNow(n)
      BY <1>4 DEF ReadyNow, LoadInv, ReadyInv
    <2>3. ShownBar[n] = None
      BY <1>1, <1>4 DEF Finalized, OwnerInv, CleanupInv
    <2> QED
      BY <1>1, <2>1, <2>2, <2>3, BarsFollow DEF Contract!Release
  <1>5. CASE obj[n] = None
    <2>1. obj'[n] = None
      BY <1>5 DEF Finalized
    <2>2. ReadyNow(n)' <=> ReadyNow(n)
      BY <1>5, <2>1 DEF ReadyNow
    <2> QED
      BY <1>1, <1>5, <2>1, <2>2, BarsFollow DEF Contract!vars
  <1>6. CASE obj[n] # None /\ ~obj[n].del /\ ~cur.fin
    <2>1. ~obj[n].fin
      BY <1>1, <1>6 DEF OwnerInv, CurInv, Has
    <2> QED
      BY <1>1, <1>2, <1>6, <2>1 DEF Finalized
  <1>7. CASE obj[n] # None /\ obj[n].fin /\ cur.fin
    BY <1>1, <1>2, <1>7 DEF Finalized
  <1> QED
    BY <1>3, <1>4, <1>5, <1>6, <1>7

\* Storing the status is Claim or Retract.
LEMMA StatusMaps ==
    ASSUME TypeOK, OwnerInv, LoadInv, NEW n \in Names, Stored(n)
    PROVE  Contract!Claim(n) \/ Contract!Retract(n)
  <1> USE ObjectTypes, LifeFacts
  <1>1. /\ n = cur.name /\ cur # None /\ OthersKept(n) /\ UNCHANGED loaded
    BY DEF Stored
  <1>2. Life(obj'[n]) = Life(obj[n]) /\ WantOf(obj'[n]) = WantOf(obj[n])
    BY DEF Stored, Life, WantOf, SameVersion
  <1>3. OwnerBar' = OwnerBar /\ WantBar' = WantBar /\ ShownBar' = ShownBar
    BY <1>1, <1>2, BarsFollow
  <1>4. CASE ~ReadyNow(n)'
    BY <1>1, <1>3, <1>4, BarsFollow DEF Contract!Retract
  <1>5. CASE ReadyNow(n)'
    <2>1. /\ obj[n] # None /\ SameVersion(obj'[n], obj[n]) /\ SameClaim(obj'[n], cur)
      BY <1>5 DEF Stored, ReadyNow
    <2>2. /\ cur.ready = "True" /\ ~cur.del /\ cur.gen = obj[n].gen /\ RulesOf(loaded[n], cur.spec)
      BY <1>1, <1>5, <2>1 DEF LoadInv, CurReadyInv, ReadyNow, SameVersion, SameClaim
    <2>3. Has(n, cur.uid) /\ obj[n].fin
      BY <1>1, <2>2 DEF OwnerInv, CurInv
    <2>4. cur.spec = obj[n].spec /\ ~obj[n].del
      BY <1>1, <2>2, <2>3 DEF LoadInv, VersionInv, Version, Has
    <2>5. ShownBar[n] = WantBar[n] /\ OwnerBar[n] = "guarded"
      BY <2>1, <2>2, <2>3, <2>4 DEF RulesOf, WantOf, Life
    <2> QED
      BY <1>1, <1>3, <1>5, <2>5, BarsFollow DEF Contract!Claim
  <1> QED
    BY <1>4, <1>5

\* User steps map to user steps of the contract, a reload to Show, the two
\* patches to Protect, Release, Claim or Retract, all else to nothing.
LEMMA MappedStep ==
    TypeOK /\ OwnerInv /\ LoadInv /\ [Next]_vars => [Contract!Next]_(Contract!vars)
  <1> SUFFICES ASSUME TypeOK, OwnerInv, LoadInv, [Next]_vars
               PROVE  Contract!Next \/ UNCHANGED Contract!vars
    OBVIOUS
  <1> USE ObjectTypes, LifeFacts
  <1>1. ASSUME NEW n \in Names, NEW s \in Specs, UserCreate(n, s) PROVE Contract!Create(n)
    <2>0. Created(n, s) /\ UNCHANGED loaded
      BY <1>1, CreateFacts DEF UserCreate
    <2>1. Life(obj[n]) = "absent" /\ Life(obj'[n]) = "unguarded" /\ WantOf(obj'[n]) = s.parents
      BY <2>0 DEF Created, Life, WantOf
    <2>2. ~ReadyNow(n) /\ ~ReadyNow(n)'
      BY <2>0 DEF Created, ReadyNow
    <2>3. /\ OwnerBar' = [OwnerBar EXCEPT ![n] = "unguarded"]
          /\ WantBar' = [WantBar EXCEPT ![n] = s.parents]
          /\ ReadyBar' = ReadyBar /\ ShownBar' = ShownBar
      BY <2>0, <2>1, <2>2, BarsFollow DEF Created
    <2> QED
      BY <2>1, <2>3 DEF Contract!Create
  <1>2. ASSUME NEW n \in Names, NEW s \in Specs, UserUpdate(n, s) PROVE Contract!Edit(n)
    <2>0. Updated(n, s) /\ UNCHANGED loaded
      BY <1>2, UpdateFacts DEF UserUpdate
    <2>1. /\ Life(obj'[n]) = Life(obj[n]) /\ Life(obj[n]) \in {"guarded", "unguarded"}
          /\ WantOf(obj'[n]) = s.parents
      BY <2>0 DEF Updated, Life, WantOf
    <2>2. ~ReadyNow(n)'
      BY <2>0 DEF Updated, ReadyNow, SameClaim, LoadInv, ReadyInv
    <2>3. /\ OwnerBar' = OwnerBar /\ WantBar' = [WantBar EXCEPT ![n] = s.parents]
          /\ ReadyBar' = ReadyBar \ {n} /\ ShownBar' = ShownBar
      BY <2>0, <2>1, <2>2, BarsFollow DEF Updated
    <2> QED
      BY <2>1, <2>3 DEF Contract!Edit
  <1>3. ASSUME NEW n \in Names, UserDelete(n) PROVE Contract!Delete(n)
    <2>0. Deleted(n) /\ UNCHANGED loaded
      BY <1>3, DeleteFacts DEF UserDelete
    <2>1. ~ReadyNow(n)'
      BY <2>0 DEF Deleted, ReadyNow, SameClaim, LoadInv, ReadyInv
    <2>2. /\ OwnerBar' = [OwnerBar EXCEPT ![n] = Life(obj'[n])]
          /\ WantBar' = [WantBar EXCEPT ![n] = WantOf(obj'[n])]
          /\ WantOf(obj'[n]) = WantOf(obj[n]) => WantBar' = WantBar
          /\ ReadyBar' = ReadyBar \ {n} /\ ShownBar' = ShownBar
      BY <2>0, <2>1, BarsFollow DEF Deleted
    <2>3. CASE obj[n].fin
      <3>1. Life(obj[n]) = "guarded" /\ Life(obj'[n]) = "dying" /\ WantOf(obj'[n]) = WantOf(obj[n])
        BY <2>0, <2>3 DEF Deleted, Life, WantOf
      <3> QED
        BY <2>2, <3>1 DEF Contract!Delete
    <2>4. CASE ~obj[n].fin
      <3>1. Life(obj[n]) = "unguarded" /\ Life(obj'[n]) = "absent" /\ WantOf(obj'[n]) = None
        BY <2>0, <2>4 DEF Deleted, Life, WantOf
      <3> QED
        BY <2>2, <3>1 DEF Contract!Delete
    <2> QED
      BY <2>3, <2>4
  <1>4. ASSUME UNCHANGED <<obj, loaded>> PROVE UNCHANGED Contract!vars
    BY <1>4 DEF Contract!vars, OwnerBar, WantBar, ShownBar, ReadyBar, ReadyNow
  <1>5. ASSUME ConfigMapChange \/ ConfigMapSync PROVE UNCHANGED Contract!vars
    BY <1>4, <1>5 DEF ConfigMapChange, ConfigMapSync, api
  <1>6. ASSUME NEW n \in Names, CacheSync(n) \/ Resync(n) \/ Reconcile(n) PROVE UNCHANGED Contract!vars
    BY <1>4, <1>6 DEF CacheSync, Resync, Reconcile, api
  <1>7. ASSUME RemoveRule \/ ValidationFails \/ TemplateUnresolved \/ WriteRule \/ ReloadRejected
                  \/ ReconcileFails \/ PatchFails \/ Crash
        PROVE  UNCHANGED Contract!vars
    BY <1>4, <1>7 DEF RemoveRule, ValidationFails, TemplateUnresolved, WriteRule, ReloadRejected,
                      ReconcileFails, PatchFails, Crash, api
  <1>8. ASSUME ValidationSucceeds PROVE UNCHANGED Contract!vars
    <2>0. Accepted
      BY <1>8, AcceptFacts
    <2>1. UNCHANGED loaded
      BY <2>0 DEF Accepted
    <2>2. \A m \in Names : /\ Life(obj'[m]) = Life(obj[m]) /\ WantOf(obj'[m]) = WantOf(obj[m])
                           /\ ReadyNow(m)' <=> ReadyNow(m)
      BY <2>0 DEF Accepted, SameVersion, SameClaim, Life, WantOf, ReadyNow
    <2>3. OwnerBar' = OwnerBar
      BY <2>2 DEF OwnerBar
    <2>4. WantBar' = WantBar
      BY <2>2 DEF WantBar, WantOf
    <2>5. ReadyBar' = ReadyBar
      BY <2>2 DEF ReadyBar
    <2>6. ShownBar' = ShownBar
      BY <2>1 DEF ShownBar
    <2> QED
      BY <2>3, <2>4, <2>5, <2>6 DEF Contract!vars
  <1>9. ASSUME ReloadPrometheus PROVE Contract!Show
    BY <1>9, ReloadFacts, ReloadShows
  <1>10. ASSUME PatchFinalizer
         PROVE  (\E n \in Names : Contract!Protect(n) \/ Contract!Release(n)) \/ UNCHANGED Contract!vars
    <2>1. PICK n \in Names : n = cur.name
      BY <1>10, CurType DEF PatchFinalizer
    <2> QED
      BY <1>10, <2>1, FinalizerFacts, FinalizeMaps
  <1>11. ASSUME PatchStatus PROVE \E n \in Names : Contract!Claim(n) \/ Contract!Retract(n)
    <2>1. PICK n \in Names : n = cur.name
      BY <1>11, CurType DEF PatchStatus
    <2> QED
      BY <1>11, <2>1, StatusFacts, StatusMaps
  <1>12. CASE UNCHANGED vars
    BY <1>4, <1>12 DEF vars
  <1> QED
    BY <1>1, <1>2, <1>3, <1>5, <1>6, <1>7, <1>8, <1>9, <1>10, <1>11, <1>12
       DEF Next, Step, Contract!Next

\* The controller implements the contract of ManagedResource, for any number of
\* resources and specs, although one reload takes up the rules of all.
THEOREM RefinesContract == Spec => ImplementsContract
  BY DCRInvariant, MappedInit, MappedStep, PTL DEF Spec, ImplementsContract, Contract!Spec
=============================================================================
