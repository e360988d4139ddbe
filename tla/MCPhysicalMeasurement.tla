----------------------- MODULE MCPhysicalMeasurement -----------------------
(* Small instances of PhysicalMeasurement for TLC.                           *)
EXTENDS PhysicalMeasurement

CONSTANT d1

\* Both types, two addresses, additional labels that clash with default ones
\* and one that does not.
MCSpecs == {[type |-> "snmp", ip |-> "ip1", device |-> d1, extra |-> {}],
            [type |-> "snmp", ip |-> "ip2", device |-> d1, extra |-> {"name", "rack"}],
            [type |-> "prometheus-exporter", ip |-> "ip1", device |-> None, extra |-> {"instance"}]}
=============================================================================
