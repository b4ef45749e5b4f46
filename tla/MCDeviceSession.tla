--------------------------- MODULE MCDeviceSession ---------------------------
(* A small device for DeviceSession: three ports and their tables.         *)
EXTENDS DeviceSession, TLC

Row(port, second, words) ==
  [Token("text", port) EXCEPT !.second = second, !.words = words, !.interface = TRUE]
StatusRow(port, state, mbps, words, errors) ==
  [Row(port, state, words) EXCEPT !.state = state, !.mbps = mbps, !.errors = errors]
MacRow(vlan, port, mac) == [Row(vlan, mac, 4) EXCEPT !.interface = FALSE, !.port = port, !.mac = mac]

\* The second status row has eight words and a VLAN above 1000; the
\* description of Gi2 reads as a status.
MCTables ==
  <<"show", "interfaces status">> :>
     <<StatusRow("Gi1", "connected", 100, 7, 0), StatusRow("Gi2", "connected", 1000, 8, 1001)>> @@
  <<"show", "interfaces counters errors">> :>
     <<[Row("Gi1", "0", 8) EXCEPT !.errors = 1000], [Row("Gi2", "0", 8) EXCEPT !.errors = 999]>> @@
  <<"show", "interfaces description">> :> <<StatusRow("Gi2", "disabled", NoSpeed, 7, 0)>> @@
  <<"show", "mac address-table">> :> <<MacRow("10", "Gi1", "m1")>> @@
  <<"show", "ip arp">> :> <<[MacRow("Internet", "Vl10", "m1") EXCEPT !.ip = "10.0.0.1", !.words = 6]>> @@
  <<"show", "lldp neighbors">> :> <<Row("Gi2", "core", 4)>>

MCMotd == <<[Row("Authorized", "use", 3) EXCEPT !.interface = FALSE]>>

Staff == {[id |-> "kim", role |-> "operator"], [id |-> "kim", role |-> "approver"],
          [id |-> "lee", role |-> "approver"]}

\* The change proposals that the staff can make: those of kim approved by lee.
Proposals ==
  {Proposal(c[1], c[2], c[3], c[4]) :
     c \in {d \in Interfaces \X AdminStates \X Staff \X Staff : MayPropose(d[1], d[2], d[3], d[4])}}

MCOffers ==
  {<<commands>> : commands \in Plans("cisco", "interfaces") \cup Plans("cisco", "port_endpoints")}
    \cup {CheckPlans("cisco")}
    \cup {<<proposal.commands>> : proposal \in Proposals}
=============================================================================
