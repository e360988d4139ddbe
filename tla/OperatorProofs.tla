--------------------------- MODULE OperatorProofs ---------------------------
(***************************************************************************)
(* Proofs about the operator as a process: its start, and what the         *)
(* controller of PhysicalMeasurement guarantees when it is composed with   *)
(* that start, for all environments, namespaces and measurements.          *)
(***************************************************************************)
EXTENDS Operator, PhysicalMeasurementProofs

\* The list holds an error that names the variable.
Reports(list, v) == \E e \in list : e.var = v /\ e.kind # "nil"

\* The namespaces ValidateEnv returns when it finds nothing wrong with them.
NamespacesStored ==
    /\ env.pod \in Namespaces /\ ret["pod"] = env.pod
    /\ env.watch \in Namespaces \cup {AllNamespaces, Unset}
    /\ ret["watch"] = IF env.watch = Unset THEN env.pod ELSE env.watch

\* Before the table of variables has been walked through: every fault of the
\* namespaces is in the list, and without one both are stored.
NamespacesDone ==
    /\ env.pod \notin Namespaces => Reports(errs, "pod")
    /\ env.watch \notin Namespaces \cup {AllNamespaces, Unset} => Reports(errs, "watch")
    /\ errs = {} => NamespacesStored

\* After it: the same for every variable.
VarsDone ==
    /\ NamespacesDone
    /\ \A v \in Boot!Plain : env[v] # Right => Reports(errs, v)
    /\ errs = {} => \A v \in Boot!Plain : ret[v] = Right

\* What the process knows of its environment at each phase of main, and what
\* the last process that was refused has logged.
BootInv ==
    /\ phase \in {"backoff", "namespaces"} => errs = {}
    /\ phase = "vars" => NamespacesDone
    /\ phase \in {"dial", "decide"} => VarsDone
    /\ phase \in {"manager", "sync", "running"} =>
          NamespacesStored /\ \A v \in Boot!Plain : env[v] = Right /\ ret[v] = Right
    /\ phase \in {"sync", "running"} => watched = Boot!ConfigureWatchNamespace
    /\ log # {} => \A v \in Boot!Faulty(env) : Reports(log, v)

-----------------------------------------------------------------------------
(* Types.                                                                   *)

OTypeInv == TypeInv /\ Boot!TypeOK

LEMMA UsedTypes ==
    ASSUME used \in [upgrade : Nat, outage : Nat, kill : Nat]
    PROVE  /\ [used EXCEPT !.upgrade = @ + 1] \in [upgrade : Nat, outage : Nat, kill : Nat]
           /\ [used EXCEPT !.outage = @ + 1] \in [upgrade : Nat, outage : Nat, kill : Nat]
           /\ [used EXCEPT !.kill = @ + 1] \in [upgrade : Nat, outage : Nat, kill : Nat]
  <1>1. \A k \in Nat : /\ [used EXCEPT !.upgrade = k] \in [upgrade : Nat, outage : Nat, kill : Nat]
                       /\ [used EXCEPT !.outage = k] \in [upgrade : Nat, outage : Nat, kill : Nat]
                       /\ [used EXCEPT !.kill = k] \in [upgrade : Nat, outage : Nat, kill : Nat]
    OBVIOUS
  <1>2. used.upgrade + 1 \in Nat /\ used.outage + 1 \in Nat /\ used.kill + 1 \in Nat
    OBVIOUS
  <1> QED
    BY <1>1, <1>2

\* A complaint is about a variable, and about one that is not accepted.
LEMMA ComplaintFacts ==
    ASSUME NEW v \in Boot!Vars, NEW x, NEW accepted
    PROVE  /\ Boot!Complaint(v, x, accepted) \subseteq Boot!Error
           /\ x \in accepted => Boot!Complaint(v, x, accepted) = {}
           /\ x \notin accepted => Reports(Boot!Complaint(v, x, accepted), v)
  <1>1. CASE x \in accepted
    BY <1>1 DEF Boot!Complaint
  <1>2. CASE x \notin accepted
    <2> DEFINE kind == CASE x = Unset -> "unset"
                         [] x = Blank -> "empty"
                         [] x \notin {Unset, Blank} -> IF v = "host" THEN "connect" ELSE "invalid"
    <2>1. kind \in {"unset", "empty", "invalid", "connect"}
      OBVIOUS
    <2>2. Boot!Complaint(v, x, accepted) = {[var |-> v, kind |-> kind]}
      BY <1>2 DEF Boot!Complaint
    <2> HIDE DEF kind
    <2> QED
      BY <1>2, <2>1, <2>2 DEF Boot!Error, Reports
  <1> QED
    BY <1>1, <1>2

\* What lookupNamespace says of the two namespaces.
LEMMA NamespaceErrors ==
    /\ Boot!PodErr \subseteq Boot!Error /\ Boot!WatchErr \subseteq Boot!Error
    /\ Boot!PodErr = {} <=> env.pod \in Namespaces
    /\ Boot!WatchErr = {} <=> env.watch \in Namespaces \cup {AllNamespaces}
    /\ Boot!PodErr # {} => Reports(Boot!PodErr, "pod")
    /\ Boot!WatchErr # {} => Reports(Boot!WatchErr, "watch")
  <1>1. "pod" \in Boot!Vars /\ "watch" \in Boot!Vars
    BY DEF Boot!Vars
  <1>2. /\ Boot!PodErr \subseteq Boot!Error
        /\ env.pod \in Namespaces => Boot!PodErr = {}
        /\ env.pod \notin Namespaces => Reports(Boot!PodErr, "pod")
    BY <1>1, ComplaintFacts DEF Boot!PodErr
  <1>3. /\ Boot!WatchErr \subseteq Boot!Error
        /\ env.watch \in Namespaces \cup {AllNamespaces} => Boot!WatchErr = {}
        /\ env.watch \notin Namespaces \cup {AllNamespaces} => Reports(Boot!WatchErr, "watch")
    BY <1>1, ComplaintFacts DEF Boot!WatchErr
  <1> QED
    BY <1>2, <1>3 DEF Reports

\* Losing the memory of the process keeps the types.
LEMMA ForgetTypes == TypeInv /\ Forget => TypeInv'
  BY DEF TypeInv, TypeOK, Forget, store, Labels

LEMMA ListTypes == TypeInv /\ ListsResources => TypeInv'
  BY DEF TypeInv, TypeOK, ListsResources, store

LEMMA BootTypes ==
    ASSUME Boot!TypeOK, BootInv, Boot!World \/ Boot!Kill \/ Boot!Progress
    PROVE  Boot!TypeOK'
  <1> USE DEF Boot!TypeOK, Boot!Phases
  <1>0. ASSUME Boot!Fresh PROVE /\ ret' \in [Boot!Vars -> Namespaces \cup {AllNamespaces, Right, Blank}]
                                /\ errs' \subseteq Boot!Error /\ watched' \subseteq Namespaces
    BY <1>0 DEF Boot!Fresh, Boot!Zero
  <1>1. ASSUME NEW e \in Environments, Boot!Upgrade(e) PROVE Boot!TypeOK'
    BY <1>0, <1>1, UsedTypes DEF Boot!Upgrade
  <1>2. ASSUME Boot!PrometheusStops \/ Boot!PrometheusStarts PROVE Boot!TypeOK'
    BY <1>2, UsedTypes DEF Boot!PrometheusStops, Boot!PrometheusStarts
  <1>3. ASSUME Boot!Kill PROVE Boot!TypeOK'
    BY <1>0, <1>3, UsedTypes DEF Boot!Kill
  <1>4. ASSUME Boot!Start \/ Boot!Refuse \/ Boot!CacheSyncTimeout PROVE Boot!TypeOK'
    BY <1>0, <1>4 DEF Boot!Start, Boot!Refuse, Boot!CacheSyncTimeout
  <1>5. ASSUME Boot!ValidateNamespaces PROVE Boot!TypeOK'
    <2>2. [var |-> "watch", kind |-> "nil"] \in Boot!Error
      BY DEF Boot!Error, Boot!Vars
    <2>3. errs' \subseteq Boot!Error
      BY <1>5, <2>2, NamespaceErrors DEF Boot!ValidateNamespaces
    <2>4. ret' \in [Boot!Vars -> Namespaces \cup {AllNamespaces, Right, Blank}]
      <3>1. CASE UNCHANGED ret
        BY <3>1
      <3>2. CASE Boot!PodErr = {} /\ (Boot!WatchErr = {} \/ env.watch = Unset)
        BY <1>5, <3>1, <3>2, NamespaceErrors DEF Boot!ValidateNamespaces
      <3> QED
        BY <1>5, <3>1, <3>2 DEF Boot!ValidateNamespaces
    <2> QED
      BY <1>5, <2>3, <2>4 DEF Boot!ValidateNamespaces
  <1>6. ASSUME Boot!ValidateVars PROVE Boot!TypeOK'
    <2>1. UNION {Boot!Complaint(v, env[v], {Right}) : v \in Boot!Plain} \subseteq Boot!Error
      <3>1. \A v \in Boot!Plain : Boot!Complaint(v, env[v], {Right}) \subseteq Boot!Error
        BY ComplaintFacts DEF Boot!Plain, Boot!Vars
      <3> QED
        BY <3>1
    <2> QED
      BY <1>6, <2>1 DEF Boot!ValidateVars
  <1>7. ASSUME Boot!ValidateHostPort PROVE Boot!TypeOK'
    <2>1. [var |-> "address", kind |-> "connect"] \in Boot!Error
      BY DEF Boot!Error
    <2> QED
      BY <1>7, <2>1 DEF Boot!ValidateHostPort
  <1>8. ASSUME Boot!Accept \/ Boot!CachesSynced PROVE Boot!TypeOK'
    BY <1>8 DEF Boot!Accept, Boot!CachesSynced
  <1>9. ASSUME Boot!NewManager PROVE Boot!TypeOK'
    BY <1>9, EnvironmentAssumption
       DEF Boot!NewManager, Boot!ConfigureWatchNamespace, BootInv, NamespacesStored
  <1> QED
    BY <1>1, <1>2, <1>3, <1>4, <1>5, <1>6, <1>7, <1>8, <1>9 DEF Boot!World, Boot!Progress

-----------------------------------------------------------------------------
(* The start.                                                               *)

\* A complaint for every variable of the table that is not right, and for no
\* other.
LEMMA PlainErrors ==
    LET found == UNION {Boot!Complaint(v, env[v], {Right}) : v \in Boot!Plain} IN
    \A v \in Boot!Plain : env[v] # Right => Reports(found, v)
  <1> DEFINE found == UNION {Boot!Complaint(v, env[v], {Right}) : v \in Boot!Plain}
  <1> SUFFICES ASSUME NEW v \in Boot!Plain, env[v] # Right PROVE Reports(found, v)
    OBVIOUS
  <1>1. Reports(Boot!Complaint(v, env[v], {Right}), v)
    BY ComplaintFacts DEF Boot!Plain, Boot!Vars
  <1>2. Boot!Complaint(v, env[v], {Right}) \subseteq found
    OBVIOUS
  <1> QED
    BY <1>1, <1>2 DEF Reports

LEMMA BootStep ==
    ASSUME Boot!TypeOK, BootInv, Boot!World \/ Boot!Kill \/ Boot!Progress
    PROVE  BootInv'
  <1>1. ASSUME NEW e \in Environments, Boot!Upgrade(e) PROVE BootInv'
    BY <1>1 DEF Boot!Upgrade, Boot!Fresh, BootInv
  <1>2. ASSUME Boot!PrometheusStops \/ Boot!PrometheusStarts PROVE BootInv'
    BY <1>2 DEF Boot!PrometheusStops, Boot!PrometheusStarts, BootInv, NamespacesDone, VarsDone,
         NamespacesStored, Boot!ConfigureWatchNamespace, Boot!Faulty
  <1>3. ASSUME Boot!Kill \/ Boot!Start \/ Boot!CacheSyncTimeout PROVE BootInv'
    BY <1>3 DEF Boot!Kill, Boot!Start, Boot!CacheSyncTimeout, Boot!Fresh, BootInv, Boot!Faulty
  <1>4. ASSUME Boot!ValidateNamespaces PROVE BootInv'
    <2>1. NamespacesDone'
      <3>1. CASE Boot!PodErr # {}
        <4>1. Reports(errs', "pod")
          BY <1>4, <3>1, NamespaceErrors DEF Boot!ValidateNamespaces, Reports
        <4>2. Boot!WatchErr # {} => Reports(errs', "watch")
          BY <1>4, <3>1, NamespaceErrors DEF Boot!ValidateNamespaces, Reports
        <4>3. errs' # {} /\ UNCHANGED env
          BY <1>4, <4>1 DEF Boot!ValidateNamespaces, Reports
        <4> QED
          BY <4>1, <4>2, <4>3, NamespaceErrors DEF NamespacesDone
      <3>2. CASE Boot!PodErr = {} /\ (Boot!WatchErr = {} \/ env.watch = Unset)
        <4>1. /\ ret' = [ret EXCEPT !.pod = env.pod,
                                    !.watch = IF env.watch = Unset THEN env.pod ELSE env.watch]
              /\ UNCHANGED <<env, errs>>
          BY <1>4, <3>2 DEF Boot!ValidateNamespaces
        <4>2. ret'["pod"] = env.pod /\ ret'["watch"] = IF env.watch = Unset THEN env.pod ELSE env.watch
          BY <4>1 DEF Boot!TypeOK, Boot!Vars
        <4> QED
          BY <3>2, <4>1, <4>2, NamespaceErrors DEF NamespacesDone, NamespacesStored
      <3>3. CASE Boot!PodErr = {} /\ Boot!WatchErr # {} /\ env.watch # Unset
        <4>1. errs' = Boot!WatchErr /\ UNCHANGED env
          BY <1>4, <3>3 DEF Boot!ValidateNamespaces
        <4> QED
          BY <3>3, <4>1, NamespaceErrors DEF NamespacesDone
      <3> QED
        BY <3>1, <3>2, <3>3
    <2> QED
      BY <1>4, <2>1 DEF Boot!ValidateNamespaces, BootInv, Boot!Faulty
  <1>5. ASSUME Boot!ValidateVars PROVE BootInv'
    <2> DEFINE found == UNION {Boot!Complaint(v, env[v], {Right}) : v \in Boot!Plain}
    <2>1. NamespacesDone /\ errs' = errs \cup found /\ UNCHANGED env
      BY <1>5 DEF Boot!ValidateVars, BootInv
    <2>2. \A v \in Boot!Plain : env[v] # Right => Reports(found, v)
      BY PlainErrors
    <2> HIDE DEF found
    <2>3. /\ \A v \in Boot!Vars : v \notin Boot!Plain => ret'[v] = ret[v]
          /\ \A v \in Boot!Plain : env[v] = Right => ret'[v] = Right
          /\ "pod" \in Boot!Vars /\ "pod" \notin Boot!Plain
          /\ "watch" \in Boot!Vars /\ "watch" \notin Boot!Plain
      BY <1>5 DEF Boot!ValidateVars, Boot!Vars, Boot!Plain
    <2>4. NamespacesDone'
      BY <2>1, <2>3 DEF NamespacesDone, NamespacesStored, Reports
    <2>5. VarsDone'
      BY <2>1, <2>2, <2>3, <2>4 DEF VarsDone, Reports
    <2> QED
      BY <1>5, <2>5 DEF Boot!ValidateVars, BootInv, Boot!Faulty
  <1>6. ASSUME Boot!ValidateHostPort PROVE BootInv'
    <2>1. VarsDone'
      <3>1. CASE UNCHANGED <<ret, errs>>
        BY <1>6, <3>1 DEF Boot!ValidateHostPort, BootInv, VarsDone, NamespacesDone, NamespacesStored
      <3>2. CASE errs' = errs \cup {[var |-> "address", kind |-> "connect"]}
        BY <1>6, <3>2 DEF Boot!ValidateHostPort, BootInv, VarsDone, NamespacesDone, Reports
      <3> QED
        BY <1>6, <3>1, <3>2 DEF Boot!ValidateHostPort
    <2> QED
      BY <1>6, <2>1 DEF Boot!ValidateHostPort, BootInv, Boot!Faulty
  <1>7. ASSUME Boot!Refuse PROVE BootInv'
    <2>1. \A v \in Boot!Faulty(env) : Reports(errs, v)
      BY <1>7 DEF Boot!Refuse, BootInv, VarsDone, NamespacesDone, Boot!Faulty
    <2> QED
      BY <1>7, <2>1 DEF Boot!Refuse, Boot!Fresh, BootInv, Boot!Faulty
  <1>8. ASSUME Boot!Accept PROVE BootInv'
    <2>1. NamespacesStored /\ \A v \in Boot!Plain : env[v] = Right /\ ret[v] = Right
      BY <1>8 DEF Boot!Accept, BootInv, VarsDone, NamespacesDone, Reports
    <2> QED
      BY <1>8, <2>1 DEF Boot!Accept, BootInv, NamespacesStored, Boot!Faulty
  <1>9. ASSUME Boot!NewManager PROVE BootInv'
    BY <1>9
       DEF Boot!NewManager, Boot!ConfigureWatchNamespace, BootInv, NamespacesStored, Boot!Faulty
  <1>10. ASSUME Boot!CachesSynced PROVE BootInv'
    BY <1>10
       DEF Boot!CachesSynced, Boot!ConfigureWatchNamespace, BootInv, NamespacesStored, Boot!Faulty
  <1> QED
    BY <1>1, <1>2, <1>3, <1>4, <1>5, <1>6, <1>7, <1>8, <1>9, <1>10 DEF Boot!World, Boot!Progress

-----------------------------------------------------------------------------
(* The composition.                                                         *)

PMInv == TypeInv /\ OwnerInv /\ TargetInv

\* What the controller keeps in memory and in its caches may be lost: what
\* makes the target files right is in the API server and on the volume.
LEMMA ForgetKeeps == PMInv /\ Forget => PMInv'
  <1> SUFFICES ASSUME PMInv, Forget PROVE PMInv'
    OBVIOUS
  <1>1. TypeInv'
    BY ForgetTypes DEF PMInv
  <1>2. OwnerInv'
    BY DEF PMInv, TypeInv, TypeOK, Forget, store, OwnerInv, NameInv, ObjectInv, CacheInv, CurInv,
         CleanupInv, FileInv, Has
  <1>3. TargetInv'
    BY DEF PMInv, Forget, store, TargetInv, VersionInv, ReadyInv, CurReadyInv
  <1> QED
    BY <1>1, <1>2, <1>3 DEF PMInv

\* Nor does it matter when the caches are filled again, as long as no run is
\* under way.
LEMMA ListKeeps == PMInv /\ cur = None /\ ListsResources => PMInv'
  <1> SUFFICES ASSUME PMInv, cur = None, ListsResources PROVE PMInv'
    OBVIOUS
  <1>0. pc = "idle"
    BY DEF PMInv, TypeInv, TypeOK
  <1>1. TypeInv'
    BY ListTypes DEF PMInv
  <1>2. OwnerInv'
    BY <1>0, ObjectTypes
       DEF PMInv, ListsResources, store, OwnerInv, NameInv, ObjectInv, CacheInv, CurInv,
           CleanupInv, FileInv, Has
  <1>3. TargetInv'
    BY ObjectTypes
       DEF PMInv, ListsResources, store, TargetInv, VersionInv, Version, ReadyInv, CurReadyInv
  <1> QED
    BY <1>1, <1>2, <1>3 DEF PMInv

\* A process that does not work yet holds no measurement.
DownInv == phase # "running" => cur = None

OInv == PMInv /\ Boot!TypeOK /\ BootInv /\ DownInv

\* BootInv depends on the variables of the start only.
LEMMA BootFrame == Boot!TypeOK /\ BootInv /\ UNCHANGED boot => Boot!TypeOK' /\ BootInv'
  BY DEF boot, Boot!TypeOK, BootInv, NamespacesDone, VarsDone, NamespacesStored,
         Boot!ConfigureWatchNamespace, Boot!Faulty

LEMMA PMStep == PMInv /\ [Next]_vars => PMInv'
  BY TypeStep, OwnerStep, TargetStep DEF PMInv

LEMMA OStep == OInv /\ [ONext]_ovars => OInv'
  <1> SUFFICES ASSUME OInv, [ONext]_ovars PROVE OInv'
    OBVIOUS
  <1> USE DEF OInv
  <1>1. ASSUME User, UNCHANGED boot PROVE OInv'
    <2>1. PMInv'
      BY <1>1, PMStep DEF Next
    <2>2. cur' = cur /\ phase' = phase
      BY <1>1
         DEF User, UserCreate, UserUpdate, UserDelete, DeviceAppears, DeviceDisappears, worker,
             boot
    <2> QED
      BY <1>1, <2>1, <2>2, BootFrame DEF DownInv
  <1>2. ASSUME Working, Controller PROVE OInv'
    <2>1. PMInv'
      BY <1>2, PMStep DEF Next
    <2>2. phase' = "running"
      BY <1>2 DEF Working, boot
    <2> QED
      BY <1>2, <2>1, <2>2, BootFrame DEF DownInv, Working
  <1>3. ASSUME Boots PROVE OInv'
    <2>1. PMInv'
      BY <1>3, PMStep DEF Boots
    <2>2. Boot!TypeOK' /\ BootInv'
      BY <1>3, BootTypes, BootStep DEF Boots, Boot!Progress
    <2>3. phase # "running" /\ cur' = cur
      BY <1>3
         DEF Boots, vars, Boot!Start, Boot!ValidateNamespaces, Boot!ValidateVars,
             Boot!ValidateHostPort, Boot!Refuse, Boot!Accept, Boot!NewManager,
             Boot!CacheSyncTimeout
    <2> QED
      BY <2>1, <2>2, <2>3 DEF DownInv
  <1>4. ASSUME ListsResources PROVE OInv'
    <2>1. cur = None /\ phase' = "running"
      BY <1>4 DEF ListsResources, Boot!CachesSynced, DownInv
    <2>2. PMInv'
      BY <1>4, <2>1, ListKeeps
    <2>3. Boot!TypeOK' /\ BootInv'
      BY <1>4, BootTypes, BootStep DEF ListsResources, Boot!Progress
    <2> QED
      BY <2>1, <2>2, <2>3 DEF DownInv
  <1>5. ASSUME Dies \/ Replaced PROVE OInv'
    <2>1. Forget /\ (Boot!Kill \/ Boot!World)
      BY <1>5 DEF Dies, Replaced, Boot!World
    <2>2. cur' = None
      BY <2>1 DEF Forget
    <2> QED
      BY <2>1, <2>2, ForgetKeeps, BootTypes, BootStep DEF DownInv
  <1>6. ASSUME PrometheusChanges PROVE OInv'
    <2>1. PMInv'
      BY <1>6, PMStep DEF PrometheusChanges
    <2>2. Boot!TypeOK' /\ BootInv'
      BY <1>6, BootTypes, BootStep DEF PrometheusChanges, Boot!World
    <2>3. phase' = phase /\ cur' = cur
      BY <1>6 DEF PrometheusChanges, Boot!PrometheusStops, Boot!PrometheusStarts, vars
    <2> QED
      BY <2>1, <2>2, <2>3 DEF DownInv
  <1>7. CASE UNCHANGED ovars
    <2>1. UNCHANGED vars /\ UNCHANGED boot
      BY <1>7 DEF ovars
    <2> QED
      BY <2>1, PMStep, BootFrame DEF DownInv, vars, boot
  <1> QED
    BY <1>1, <1>2, <1>3, <1>4, <1>5, <1>6, <1>7 DEF ONext

LEMMA OperatorInvariant == OFairSpec => []OInv
  <1>1. OInit => OInv
    <2> SUFFICES ASSUME OInit PROVE OInv
      OBVIOUS
    <2>1. TypeInv
      BY TypeInit DEF OInit
    <2>2. OwnerInv
      BY DEF OInit, Init, OwnerInv, NameInv, ObjectInv, CacheInv, CurInv, CleanupInv, FileInv, Has
    <2>3. TargetInv
      BY DEF OInit, Init, TargetInv, VersionInv, ReadyInv, CurReadyInv
    <2>4. Boot!TypeOK
      BY DEF OInit, Boot!Init, Boot!TypeOK, Boot!Zero, Boot!Phases
    <2>5. BootInv /\ DownInv
      BY DEF OInit, Init, Boot!Init, BootInv, DownInv
    <2> QED
      BY <2>1, <2>2, <2>3, <2>4, <2>5 DEF OInv, PMInv
  <1> QED
    BY <1>1, OStep, PTL DEF OFairSpec

\* Types: both parts of the process stay well formed, also when it dies, is
\* upgraded or is refused.
THEOREM OperatorTypeCorrect == OFairSpec => []OTypeOK
  <1>1. OInv => OTypeOK
    BY DEF OInv, PMInv, TypeInv, OTypeOK
  <1> QED
    BY <1>1, OperatorInvariant, PTL

\* The controllers work only with a valid environment, a complete configuration
\* and caches that hold the operator's own namespace.
THEOREM WorksOnlyConfigured == OFairSpec => []RunsConfigured
  <1>1. OInv => RunsConfigured
    <2> SUFFICES ASSUME OInv, phase = "running"
                 PROVE  /\ Boot!Faulty(env) = {}
                        /\ \A v \in Boot!Vars : ret[v] # Blank
                        /\ env.pod \in watched
                        /\ env.watch \in Namespaces => env.watch \in watched
      BY DEF RunsConfigured, Boot!RunsConfigured
    <2>1. /\ NamespacesStored /\ \A v \in Boot!Plain : env[v] = Right /\ ret[v] = Right
          /\ watched = Boot!ConfigureWatchNamespace
      BY DEF OInv, BootInv
    <2>2. Boot!Faulty(env) = {}
      BY <2>1 DEF NamespacesStored, Boot!Faulty
    <2>3. \A v \in Boot!Vars : v \in Boot!Plain \/ v = "pod" \/ v = "watch"
      BY DEF Boot!Vars, Boot!Plain
    <2>4. \A v \in Boot!Vars : ret[v] # Blank
      BY <2>1, <2>3, EnvironmentAssumption DEF NamespacesStored
    <2>5. env.pod \in watched /\ (env.watch \in Namespaces => env.watch \in watched)
      BY <2>1, EnvironmentAssumption DEF NamespacesStored, Boot!ConfigureWatchNamespace
    <2> QED
      BY <2>2, <2>4, <2>5
  <1> QED
    BY <1>1, OperatorInvariant, PTL

\* A refused start reports every variable that has to be corrected.
THEOREM RefusalNamesEveryFault == OFairSpec => []AllFaultsReported
  <1>1. OInv => AllFaultsReported
    BY DEF OInv, BootInv, Reports, AllFaultsReported, Boot!AllFaultsReported
  <1> QED
    BY <1>1, OperatorInvariant, PTL

\* Composed with a start that may be refused, a process that dies at any step
\* and caches that are empty until they have listed the API server, the
\* controller still leaves no orphan target file, and Ready still means that the
\* measurement is scraped as its spec says.
THEOREM SafeAcrossRestarts == OFairSpec => [](TargetFilesOwned /\ ReadyMeansTargeted)
  <1>1. OInv => TargetFilesOwned /\ ReadyMeansTargeted
    BY OwnedByInv, TargetedByInv DEF OInv, PMInv
  <1> QED
    BY <1>1, OperatorInvariant, PTL
=============================================================================
