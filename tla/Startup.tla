------------------------------ MODULE Startup ------------------------------
(***************************************************************************)
(* The start of the operator: the validation of its environment            *)
(* (internal/configuration/configuration.go) and the set-up of its manager *)
(* (cmd/operator/main.go), under a kubelet that starts the container again *)
(* whenever the process exits.                                             *)
(*                                                                         *)
(* The environment is that of the pod template: it changes only with the   *)
(* pod.  Prometheus comes and goes on its own, and the process dials it    *)
(* once, while it validates.                                               *)
(*                                                                         *)
(* Abstractions.  A value is what the checks tell apart: not set, empty,   *)
(* refused by its validator, or accepted; of namespaces the name too.      *)
(* Flags, logging, the metrics and webhook servers and the health checks   *)
(* are left out; of the manager there is what its caches need to start.    *)
(* The permissions are those the chart grants for this environment         *)
(* (chart/templates/rbac.yaml).                                            *)
(***************************************************************************)
EXTENDS Naturals

CONSTANTS
    Namespaces,         \* namespaces of the cluster
    Unset,              \* the variable is not set
    Blank,              \* it is the empty string; also the zero value of a field
    Wrong,              \* a value its validator refuses
    Right,              \* a value its validator accepts
    AllNamespaces,      \* the sentinel "*"
    Environments,       \* the environments a user may install
    MaxUpgrades,        \* bound on changes of the environment
    MaxOutages,         \* bound on outages of Prometheus
    MaxKills            \* bound on crashes of the running operator

Vars == {"pod", "watch", "claim", "location", "host", "port"}

\* The variables of ValidateEnv's table, which validateVar looks at.
Plain == {"claim", "location", "host", "port"}

VARIABLES
    env,                \* the environment of the container
    up,                 \* Prometheus accepts connections
    phase,              \* where main is; "backoff" between two processes
    ret,                \* ValidatedEnv as far as it is filled in
    errs,               \* what the validation found in this process
    log,                \* what the last process that was refused reported
    watched,            \* the namespaces of the manager's caches
    used                \* how often each bounded event has happened

bootVars == <<env, up, phase, ret, errs, log, watched, used>>

Phases == {"backoff", "namespaces", "vars", "dial", "decide", "manager", "sync", "running"}

\* UnsetError, EmptyError, InvalidError, ConnectError, or an entry that is nil.
Error == [var  : Vars \cup {"address"},
          kind : {"unset", "empty", "invalid", "connect", "nil"}]

Zero == [v \in Vars |-> Blank]

TypeOK ==
    /\ env \in Environments
    /\ up \in BOOLEAN
    /\ phase \in Phases
    /\ ret \in [Vars -> Namespaces \cup {AllNamespaces, Right, Blank}]
    /\ errs \subseteq Error /\ log \subseteq Error
    /\ watched \subseteq Namespaces
    /\ used \in [upgrade : Nat, outage : Nat, kill : Nat]

Init ==
    /\ env \in Environments
    /\ up \in BOOLEAN
    /\ phase = "backoff"
    /\ ret = Zero /\ errs = {} /\ log = {} /\ watched = {}
    /\ used = [upgrade |-> 0, outage |-> 0, kill |-> 0]

-----------------------------------------------------------------------------
(* The world around the process (external).                                 *)

Fresh == ret' = Zero /\ errs' = {} /\ watched' = {}

\* helm upgrade: a new pod with another environment.  The model follows the new
\* one; that the old pod goes on until the new one is ready is left out, since
\* only the one that holds the lease works.
Upgrade(e) ==
    /\ e # env
    /\ used.upgrade < MaxUpgrades
    /\ used' = [used EXCEPT !.upgrade = @ + 1]
    /\ env' = e
    /\ phase' = "backoff" /\ log' = {}
    /\ Fresh
    /\ UNCHANGED up

PrometheusStops ==
    /\ up
    /\ used.outage < MaxOutages
    /\ used' = [used EXCEPT !.outage = @ + 1]
    /\ up' = FALSE
    /\ UNCHANGED <<env, phase, ret, errs, log, watched>>

PrometheusStarts ==
    /\ ~up
    /\ up' = TRUE
    /\ UNCHANGED <<env, phase, ret, errs, log, watched, used>>

Kill ==
    /\ phase = "running"
    /\ used.kill < MaxKills
    /\ used' = [used EXCEPT !.kill = @ + 1]
    /\ phase' = "backoff"
    /\ Fresh
    /\ UNCHANGED <<env, up, log>>

\* The kubelet starts the container.
Start ==
    /\ phase = "backoff"
    /\ phase' = "namespaces"
    /\ Fresh
    /\ UNCHANGED <<env, up, log, used>>

-----------------------------------------------------------------------------
(* ValidateEnv.                                                             *)

\* The complaint about the value of a variable; none of them is about one that
\* its validator accepts.
Complaint(v, value, accepted) ==
    IF value \in accepted THEN {}
    ELSE {[var |-> v, kind |-> CASE value = Unset -> "unset"
                                 [] value = Blank -> "empty"
                                 [] value \notin {Unset, Blank} ->
                                       IF v = "host" THEN "connect" ELSE "invalid"]}

\* lookupNamespace for the two variables: the sentinel is for the second only.
PodErr   == Complaint("pod", env.pod, Namespaces)
WatchErr == Complaint("watch", env.watch, Namespaces \cup {AllNamespaces})

\* Mutant: the first error is enough.
ValidateNamespaces_FailFast ==
    /\ phase = "namespaces"
    /\ phase' = "vars"
    /\ \/ /\ PodErr # {}
          /\ errs' = PodErr
          /\ UNCHANGED ret
       \/ /\ PodErr = {} /\ (WatchErr = {} \/ env.watch = Unset)
          /\ ret' = [ret EXCEPT !.pod = env.pod,
                                !.watch = IF env.watch = Unset THEN env.pod ELSE env.watch]
          /\ UNCHANGED errs
       \/ /\ PodErr = {} /\ WatchErr # {} /\ env.watch # Unset
          /\ errs' = WatchErr
          /\ UNCHANGED ret
    /\ UNCHANGED <<env, up, log, watched, used>>

\* Mutant: an unset variable is left empty.
ValidateNamespaces_NoDefault ==
    /\ phase = "namespaces"
    /\ phase' = "vars"
    /\ IF PodErr = {} /\ (WatchErr = {} \/ env.watch = Unset)
         THEN /\ ret' = [ret EXCEPT !.pod = env.pod,
                                    !.watch = IF env.watch = Unset THEN Blank ELSE env.watch]
              /\ UNCHANGED errs
         ELSE errs' = PodErr \cup WatchErr /\ UNCHANGED ret
    /\ UNCHANGED <<env, up, log, watched, used>>

\* Both errors when the first is one, even if there is no second; the second
\* variable defaults to the first when it is not set.
ValidateNamespaces ==
    /\ phase = "namespaces"
    /\ phase' = "vars"
    /\ \/ /\ PodErr # {}
          /\ errs' = PodErr \cup (IF WatchErr = {} THEN {[var |-> "watch", kind |-> "nil"]}
                                                 ELSE WatchErr)
          /\ UNCHANGED ret
       \/ /\ PodErr = {} /\ (WatchErr = {} \/ env.watch = Unset)
          /\ ret' = [ret EXCEPT !.pod = env.pod,
                                !.watch = IF env.watch = Unset THEN env.pod ELSE env.watch]
          /\ UNCHANGED errs
       \/ /\ PodErr = {} /\ WatchErr # {} /\ env.watch # Unset
          /\ errs' = WatchErr
          /\ UNCHANGED ret
    /\ UNCHANGED <<env, up, log, watched, used>>

\* The loop over the table with validateVar: a variable that passes is stored,
\* one that does not is an error, and the loop goes on.
ValidateVars ==
    /\ phase = "vars"
    /\ phase' = "dial"
    /\ ret' = [v \in Vars |-> IF v \in Plain /\ env[v] = Right THEN Right ELSE ret[v]]
    /\ errs' = errs \cup UNION {Complaint(v, env[v], {Right}) : v \in Plain}
    /\ UNCHANGED <<env, up, log, watched, used>>

\* The address is dialled when both parts of it are there; when Prometheus does
\* not answer neither is kept.
ValidateHostPort ==
    /\ phase = "dial"
    /\ phase' = "decide"
    /\ IF ret.host # Blank /\ ret.port # Blank /\ ~up
         THEN /\ ret' = [ret EXCEPT !.host = Blank, !.port = Blank]
              /\ errs' = errs \cup {[var |-> "address", kind |-> "connect"]}
         ELSE UNCHANGED <<ret, errs>>
    /\ UNCHANGED <<env, up, log, watched, used>>

-----------------------------------------------------------------------------
(* main.                                                                    *)

\* Any entry of the list, even a nil one, ends the process.
Refuse ==
    /\ phase = "decide"
    /\ errs # {}
    /\ phase' = "backoff"
    /\ log' = errs
    /\ Fresh
    /\ UNCHANGED <<env, up, used>>

Accept ==
    /\ phase = "decide"
    /\ errs = {}
    /\ phase' = "manager"
    /\ UNCHANGED <<env, up, ret, errs, log, watched, used>>

\* Mutant: the namespace of the exporter's Deployment is left out.
ConfigureWatchNamespace_WatchOnly ==
    IF ret.watch = AllNamespaces THEN Namespaces ELSE {ret.watch}

\* Mutant: the sentinel is taken for the name of a namespace.
ConfigureWatchNamespace_Sentinel == {ret.watch, ret.pod}

\* configureWatchNamespace: the namespaces all informers of the manager list.
ConfigureWatchNamespace ==
    IF ret.watch = AllNamespaces THEN Namespaces ELSE {ret.watch, ret.pod}

\* NewManager, SetupWithManager of the three controllers.
NewManager ==
    /\ phase = "manager"
    /\ phase' = "sync"
    /\ watched' = ConfigureWatchNamespace
    /\ UNCHANGED <<env, up, ret, errs, log, used>>

\* The namespaces in which the chart lets the operator list what it manages:
\* the watched one, or all of them.
Granted == IF env.watch = AllNamespaces THEN Namespaces
           ELSE {IF env.watch = Unset THEN env.pod ELSE env.watch}

\* mgr.Start: the controllers wait for the lease and until their caches have
\* listed every namespace, then they work.
CachesSynced ==
    /\ phase = "sync"
    /\ watched \subseteq Granted
    /\ phase' = "running"
    /\ UNCHANGED <<env, up, ret, errs, log, watched, used>>

\* A list that is forbidden never succeeds: the wait times out, mgr.Start
\* returns the error, and the process exits.
CacheSyncTimeout ==
    /\ phase = "sync"
    /\ ~(watched \subseteq Granted)
    /\ phase' = "backoff"
    /\ Fresh
    /\ UNCHANGED <<env, up, log, used>>

-----------------------------------------------------------------------------
World == \/ \E e \in Environments : Upgrade(e)
         \/ PrometheusStops \/ PrometheusStarts

Progress == \/ Start
            \/ ValidateNamespaces \/ ValidateVars \/ ValidateHostPort
            \/ Refuse \/ Accept \/ NewManager
            \/ CachesSynced \/ CacheSyncTimeout

Next == World \/ Kill \/ Progress

Spec == Init /\ [][Next]_bootVars

\* The process goes on, and the kubelet starts it again when it has exited.
FairSpec == Spec /\ WF_bootVars(Progress)

-----------------------------------------------------------------------------
(* Properties.                                                              *)

\* The variables a user has to correct: the watched namespace may be left out.
Faulty(e) ==
    {v \in Plain : e[v] # Right}
        \cup (IF e.pod \in Namespaces THEN {} ELSE {"pod"})
        \cup (IF e.watch \in Namespaces \cup {AllNamespaces, Unset} THEN {} ELSE {"watch"})

\* The operator works only with a complete and valid environment, and in its
\* namespaces is the one the exporter's Deployment lives in, whatever it
\* watches; an outage of Prometheus while it validates does not let it start
\* with half an address.
RunsConfigured ==
    phase = "running" =>
        /\ Faulty(env) = {}
        /\ \A v \in Vars : ret[v] # Blank
        /\ env.pod \in watched
        /\ env.watch \in Namespaces => env.watch \in watched

\* One refused start is enough to correct the environment: it reports every
\* faulty variable, not only the first, also when both namespaces are wrong.
AllFaultsReported ==
    log # {} => \A v \in Faulty(env) : \E e \in log : e.var = v /\ e.kind # "nil"

\* The environment is right, and Prometheus can be reached.
Available == Faulty(env) = {} /\ up

\* The operator's own namespace is among those it has permissions for.
OwnNamespaceGranted == env.pod \in Granted

\* Once the environment is right and Prometheus answers for good, the operator
\* works for good, whatever it was refused for before.
OperatorComesUp ==
    <>[](Available /\ OwnNamespaceGranted) => <>[](phase = "running")

\* "If you want it to watch resources in a different namespace, you can
\* override the controller.watchNamespace value": an operator that is installed
\* with another namespace to watch comes to watch it.
OtherNamespaceWatched ==
    <>[](Available /\ env.watch \in Namespaces) => <>[](phase = "running")
=============================================================================
