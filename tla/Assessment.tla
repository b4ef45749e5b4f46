----------------------------- MODULE Assessment -----------------------------
(***************************************************************************)
(* What the program concludes: thresholds.py and services/check.py from    *)
(* the ports a collection observed, diagnostics.py from the ports and from *)
(* the inventory and the audit log, services/topology.py from these        *)
(* findings.  Titles, evidence and advice are wording and left out; a      *)
(* finding is its severity and what it is about.                           *)
(***************************************************************************)
EXTENDS Integers, Sequences, FiniteSets, SequencesExt, FiniteSetsExt

LOW_SPEED_CONNECTED_THRESHOLD_MBPS == 1000
HIGH_ERROR_COUNTER_THRESHOLD       == 1000

\* A port without a numeric speed (-1) is not slow.
IsLowSpeed(row) ==
  row.state = "connected" /\ row.mbps >= 0 /\ row.mbps < LOW_SPEED_CONNECTED_THRESHOLD_MBPS
HasHighErrors(row) == row.errors >= HIGH_ERROR_COUNTER_THRESHOLD
IsDisabled(row)    == row.state \in {"disabled", "errdisabled"}
HasEndpoint(row)   == row.ips # {} \/ row.macs # {}
HasNeighbor(row)   == row.neighbor # ""

\* build_interface_findings
InterfaceFindings(ports) ==
  [low_speed   |-> {p \in DOMAIN ports : IsLowSpeed(ports[p])},
   disabled    |-> {p \in DOMAIN ports : IsDisabled(ports[p])},
   high_errors |-> {p \in DOMAIN ports : HasHighErrors(ports[p])}]

\* The ports that show an endpoint, and those that show a neighbour.
EndpointPorts(ports) == {p \in DOMAIN ports : HasEndpoint(ports[p])}
NeighborPorts(ports) == {p \in DOMAIN ports : HasNeighbor(ports[p])}

\* summarize_ports
Summary(ports) ==
  LET findings == InterfaceFindings(ports)
  IN  [total       |-> Cardinality(DOMAIN ports),
       low_speed   |-> Cardinality(findings.low_speed),
       disabled    |-> Cardinality(findings.disabled),
       high_errors |-> Cardinality(findings.high_errors),
       endpoints   |-> Cardinality(EndpointPorts(ports))]

CheckKeys == {"low_speed", "high_errors", "uplink_lacp_trunk", "ip_mac_port", "topology_mismatch"}

\* build_check_items
CheckItems(success, ports) ==
  LET findings == InterfaceFindings(ports)
      judged(warned) == IF DOMAIN ports = {} THEN "unknown" ELSE IF warned # {} THEN "warn" ELSE "ok"
  IN  IF ~success THEN [key \in CheckKeys |-> "fail"]
      ELSE [low_speed   |-> judged(findings.low_speed),
            high_errors |-> judged(findings.high_errors),
            uplink_lacp_trunk |-> "not_evaluated",
            ip_mac_port       |-> IF EndpointPorts(ports) # {} THEN "ok" ELSE "unknown",
            topology_mismatch |-> IF NeighborPorts(ports) # {} THEN "ok" ELSE "unknown"]

-----------------------------------------------------------------------------
Severities == {"info", "warning", "critical"}
Rank(severity) ==
  CASE severity = "critical" -> 3 [] severity = "warning" -> 2 [] severity = "info" -> 1 [] OTHER -> 0

\* _recent_failed_events
FailedEvents(device, events) ==
  {i \in DOMAIN events : events[i].device = device /\ ~events[i].ok}

RiskSeverity(severity) == IF severity \in Severities THEN severity ELSE "warning"
KnownRisks(device, risks) == {r \in risks : r.device = device}

\* assess_device_risks: what inventory, known risks and audit log say.
Assess(device, access, mismatch, risks, events) ==
  LET found ==
        (IF access \in {"telnet", "unknown"} THEN {[severity |-> "warning", about |-> access]} ELSE {})
          \cup (IF mismatch THEN {[severity |-> "warning", about |-> "hostname"]} ELSE {})
          \cup {[severity |-> RiskSeverity(r.severity), about |-> r.about] : r \in KnownRisks(device, risks)}
          \cup (IF FailedEvents(device, events) # {}
                THEN {[severity |-> "warning", about |-> "failures"]} ELSE {})
  IN  IF found = {} THEN {[severity |-> "info", about |-> "none"]} ELSE found

\* _highest_severity
Highest(findings) ==
  LET ranked == {Rank(f.severity) : f \in findings} \cup {1}
  IN  CHOOSE s \in Severities : Rank(s) = Max(ranked)

\* read_audit_events: the last records of the log.
Recent(events, limit) == SubSeq(events, Max({1, Len(events) - limit + 1}), Len(events))
=============================================================================
