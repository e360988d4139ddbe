---------------------------- MODULE SnmpExporter ----------------------------
(***************************************************************************)
(* The MeasurementDevice controller composed with the SNMP exporter it     *)
(* reloads.  The exporter is a Deployment (external to the operator): a    *)
(* changed annotation of its pod template starts a new pod.  A pod mounts  *)
(* snmp.yml by subPath (chart/templates/snmp.yaml), so it serves what the  *)
(* file held when the pod started and never sees a later write.            *)
(*                                                                         *)
(* Two copies of the merged configuration meet here: the file, and the     *)
(* exporter's memory.  The controller does not compare them: it compares   *)
(* the hash of the file with the annotation in its copy of the Deployment. *)
(***************************************************************************)
EXTENDS MeasurementDevice

VARIABLE exporter           \* the running pod: its annotation, what it loaded

evars == <<vars, exporter>>

EInit ==
    /\ Init
    /\ exporter = [ann |-> None, config |-> None]

\* The Deployment controller replaces the pod when the template changed.
ExporterRollout ==
    /\ exporter.ann # template
    /\ exporter' = [exporter EXCEPT !.ann = template, !.config = merged]
    /\ UNCHANGED vars

\* The pod is restarted in its place: the same annotation, a fresh read.
ExporterRestart ==
    /\ exporter' = [exporter EXCEPT !.config = merged]
    /\ UNCHANGED vars

ENext == \/ Next /\ UNCHANGED exporter
         \/ ExporterRollout
         \/ ExporterRestart

ESpec == EInit /\ [][ENext]_evars

EFairSpec == ESpec /\ Fairness /\ WF_evars(ExporterRollout)

-----------------------------------------------------------------------------
AllReady == \A n \in Names : obj[n] = None \/ ReadyNow(n)

\* "SNMP exporter is up to date with merged config": when nothing is left to
\* do, every device is Ready and the rollout is over, the pod serves what the
\* merged file holds.  (Straggling pods excepted, as for ReloadNotForgotten.)
ExporterServesMerged ==
    Quiescent /\ AllReady /\ late = {} /\ merged # None /\ exporter.ann = template
        => exporter.config = merged

\* The running exporter serves the device's generated module.
Served(n) == /\ obj[n] # None /\ exporter.config # None
             /\ exporter.config[n] = snmpFile[obj[n].uid]

\* The pod serves something else than its annotation says: snmp.yml changed
\* between the patch of the Deployment and the start of the pod.  The file's
\* change sets a new annotation, unless the file changes back first.
Raced == exporter.config # None /\ exporter.ann # Hash(exporter.config)

\* A rollout of the current annotation makes it true: a Ready device's module is
\* served as generated, and no module of a device that is gone.  Raced pods,
\* files a straggling pod touched and a last reload that an old copy of the
\* Deployment suppressed are excepted.  It takes the controller to merge before
\* it reloads, and to reload before it reports or lets go.
RolledOutServes ==
    exporter.ann = template /\ ~Raced /\ ~misled =>
        \A n \in Names : Clean(n) =>
            /\ ReadyNow(n) => Served(n)
            /\ obj[n] = None => exporter.config = None \/ exporter.config[n] = None

\* A device's module is served once the device is Ready for good: what the
\* user sees as Ready reaches the running exporter without another event.
ReadyIsServed ==
    \A n \in Names : <>[](ReadyNow(n) /\ Clean(n) /\ ~Raced /\ ~misled) => <>[]Served(n)

\* The exporter stops serving the module of a device that is gone for good:
\* reconcileDeletion reloads it before the finalizer goes.
DeletedNotServed ==
    \A n \in Names : <>[](obj[n] = None /\ Clean(n) /\ ~Raced /\ ~misled)
                        => <>[](exporter.config = None \/ exporter.config[n] = None)
=============================================================================
