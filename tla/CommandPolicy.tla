--------------------------- MODULE CommandPolicy ---------------------------
(***************************************************************************)
(* policy.py and write_policy.py: what may be sent to a device.  A command *)
(* is a pair of its first word and the rest of its line, since the policy  *)
(* compares whole lines and blocks by first words; letter case and the     *)
(* stripping of blanks are left out.  Purposes have underscores here where *)
(* the source has hyphens.                                                 *)
(***************************************************************************)
EXTENDS Naturals, Sequences, SequencesExt

CONSTANTS
  Interfaces,   \* interface names a change may be asked for
  Physical      \* those that INTERFACE_PATTERN matches

ASSUME PolicyAssumption == Physical \subseteq Interfaces

Quiet   == <<"terminal", "length 0">>
Show(x) == <<"show", x>>

\* Mutant: the plans do not turn paging off.
ReadingPaged(tables) == [i \in DOMAIN tables |-> Show(tables[i])]
Reading(tables)      == <<Quiet>> \o [i \in DOMAIN tables |-> Show(tables[i])]

EndpointTables == <<"interfaces description", "mac address-table", "ip arp">>

\* Mutant: the descriptions are asked before the statuses.
CommonPurposesSwapped ==
  [endpoints      |-> Reading(EndpointTables),
   port_endpoints |-> Reading(EndpointTables \o <<"interfaces status">>),
   interfaces     |-> Reading(<<"interfaces description", "interfaces status",
                                "interfaces counters errors">>)]

CommonPurposes ==
  [endpoints      |-> Reading(EndpointTables),
   port_endpoints |-> Reading(<<"interfaces status">> \o EndpointTables),
   interfaces     |-> Reading(<<"interfaces status", "interfaces counters errors",
                                "interfaces description">>)]

READ_ONLY_COMMANDS ==
  [cisco |->
     [baseline       |-> Reading(<<"version", "ip interface brief", "interfaces description">>),
      endpoints      |-> CommonPurposes.endpoints,
      port_endpoints |-> CommonPurposes.port_endpoints,
      interfaces     |-> CommonPurposes.interfaces,
      topology       |-> Reading(<<"cdp neighbors", "cdp neighbors detail",
                                   "lldp neighbors", "lldp neighbors detail">>),
      switching      |-> Reading(<<"etherchannel summary", "interfaces trunk", "spanning-tree",
                                   "mac address-table", "ip arp", "vlan brief">>)],
   arista |->
     [baseline       |-> Reading(<<"hostname", "version", "interfaces status",
                                   "interfaces description">>),
      endpoints      |-> CommonPurposes.endpoints,
      port_endpoints |-> CommonPurposes.port_endpoints,
      interfaces     |-> CommonPurposes.interfaces,
      topology       |-> Reading(<<"lldp neighbors", "lldp neighbors detail">>),
      security_logs  |-> Reading(<<"logging", "users">>),
      switching      |-> Reading(<<"port-channel summary", "interfaces switchport", "vlan",
                                   "spanning-tree", "mac address-table", "ip arp">>)]]

\* The first words of BLOCKED_COMMAND_START.
BlockedWords ==
  {"configure", "conf", "interface", "shutdown", "reload", "erase", "delete", "replace",
   "vlan", "spanning-tree", "switchport", "channel-group", "router", "ip route", "write",
   "copy", "enable", "disable", "commit", "request", "bash", "run"}

Vendors == DOMAIN READ_ONLY_COMMANDS
AllowedPurposes(vendor) ==
  IF vendor \in Vendors THEN DOMAIN READ_ONLY_COMMANDS[vendor] ELSE {}
AllowedCommands(vendor) ==
  UNION {ToSet(READ_ONLY_COMMANDS[vendor][p]) : p \in AllowedPurposes(vendor)}

\* validate_commands raises unless this holds.
Valid(vendor, commands) ==
  /\ vendor \in Vendors
  /\ \A c \in ToSet(commands) : c[1] \notin BlockedWords /\ c \in AllowedCommands(vendor)

\* build_command_plan: a plan, or none where the source raises.
Plans(vendor, purpose) ==
  {READ_ONLY_COMMANDS[vendor][p] : p \in {purpose} \cap AllowedPurposes(vendor)}

-----------------------------------------------------------------------------
(* The plans of a CHECK and the one session they are combined into.        *)
CheckPurposes(vendor) ==
  SelectSeq(<<"interfaces", "endpoints", "topology", "switching">>,
            LAMBDA p : p \in AllowedPurposes(vendor))
CheckPlans(vendor) ==
  LET purposes == CheckPurposes(vendor)
  IN  [i \in DOMAIN purposes |-> READ_ONLY_COMMANDS[vendor][purposes[i]]]

\* _unique_commands: each command once, where it first occurs.
UniqueCommands(plans) ==
  LET commands == FlattenSeq(plans)
      seen[n \in 0..Len(commands)] ==
        IF n = 0 THEN <<>>
        ELSE LET before == seen[n - 1]
             IN  IF commands[n] \in ToSet(before) THEN before ELSE Append(before, commands[n])
  IN  seen[Len(commands)]

-----------------------------------------------------------------------------
(* Changes: a plan that writes, prepared for two principals, never sent.   *)
AdminStates == {<<"shutdown", "">>, <<"no", "shutdown">>}
ChangeCommands(i, state) == << <<"configure", "terminal">>, <<"interface", i>>, state, <<"end", "">> >>

DistinctApprover(operator, approver) ==
  /\ operator.role = "operator"
  /\ approver.role = "approver"
  /\ operator.id # approver.id

\* prepare_interface_admin_change raises unless this holds.
MayPropose(i, state, operator, approver) ==
  DistinctApprover(operator, approver) /\ i \in Physical /\ state \in AdminStates
Proposal(i, state, operator, approver) ==
  [interface |-> i, desired |-> state, operator |-> operator.id, approver |-> approver.id,
   commands |-> ChangeCommands(i, state), status |-> "approved-not-executed"]
=============================================================================
