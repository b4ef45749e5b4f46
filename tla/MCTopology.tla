---------------------------- MODULE MCTopology ----------------------------
(* Two devices, neighbours known by address, by name or id in another      *)
(* spelling or not at all, and reference files of up to three rows, one    *)
(* about an unknown source, one without a status.                          *)
EXTENDS Topology, TLC

MCInventory == <<[id |-> "a", ip |-> "ip1", name |-> "core"],
                 [id |-> "b", ip |-> "ip2", name |-> "access"]>>

MCNeighbors == {[name |-> "Access", ip |-> ""], [name |-> "sw", ip |-> "ip2"],
                [name |-> "B", ip |-> ""], [name |-> "", ip |-> "ip1"],
                [name |-> "sw", ip |-> "ip9"], [name |-> "", ip |-> "ip9"]}

Row(source, name, ip, status, lacp) ==
  [source |-> source, name |-> name, ip |-> ip, status |-> status, lacp |-> lacp]

MCReferences ==
  SeqOf({Row("a", "access", "ip2", "confirmed", FALSE), Row("a", "sw", "", "ip-not-set", FALSE),
         Row("a", "SW", "ip9", "confirmed", TRUE), Row("z", "core", "", "confirmed", FALSE),
         Row("z", "sw", "", "", FALSE)}, 3)

Texts   == {"a", "b", "ip1", "ip2", "ip9", "core", "access", "Access", "sw", "SW", "B", ""}
MCLower == [t \in Texts |->
              CASE t = "Access" -> "access" [] t = "SW" -> "sw" [] t = "B" -> "b" [] OTHER -> t]
=============================================================================
