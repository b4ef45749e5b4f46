------------------------------ MODULE Topology ------------------------------
(***************************************************************************)
(* services/topology.py: the links of /topology.  The reference file and   *)
(* the neighbours in the latest observations become a list of edges, each  *)
(* matched against the inventory; _merge_edges then walks the list and     *)
(* gathers the edges of one source, target and kind.  A step is one turn   *)
(* of its loop.                                                            *)
(*                                                                         *)
(* The inventory is searched without regard to case, while the label of a  *)
(* neighbour that is not found is compared as it stands.  The interfaces a *)
(* link joins are the positions of its members in the list; the final      *)
(* sort, which only arranges the answer, is left out.                      *)
(***************************************************************************)
EXTENDS Naturals, FiniteSets, Sequences, SequencesExt

CONSTANTS
  Inventory,   \* the devices in the order of the file: [id, ip, name]
  References,  \* reference files: sequences of [source, name, ip, status, lacp]
  Neighbors,   \* what a port may report of its neighbour: [name, ip]
  Lower,       \* Lower[text]: the text stripped and in lower case
  PortCount,   \* ports of all devices that see a neighbour: a bound
  None

Ids     == {Inventory[i].id : i \in DOMAIN Inventory}
Managed == {"live-managed", "reference-managed"}

\* What the latest observations say, device by device and port by port: the
\* neighbour n seen at Inventory[at].  "" stands for a missing name or address.
\* Ports that report neither, and rows that do not begin with the name of an
\* interface, are skipped and not listed here.
Sightings ==
  {s \in SeqOf([at : DOMAIN Inventory, n : Neighbors], PortCount) :
     \A i, j \in DOMAIN s : i < j => s[i].at <= s[j].at}

\* A neighbour outside the inventory is known by its name or address: where that
\* text is the id of a device the merge takes it for that device.  The status of
\* a reference row does not begin with "live" and is none of the managed ones.
ASSUME TopologyAssumption ==
  /\ PortCount \in Nat
  /\ Inventory \in Seq(ToSet(Inventory)) /\ None \notin Ids /\ "" \notin Ids
  /\ \A n \in Neighbors : (n.name # "" \/ n.ip # "") /\ n.ip \notin Ids
  /\ \A rows \in References : /\ rows \in Seq(ToSet(rows))
                             /\ \A i \in DOMAIN rows : rows[i].status \notin Managed

VARIABLES
  edges,   \* the edges found: reference edges, then live ones by device
  next,    \* the edge the loop looks at
  groups,  \* grouped: [status, members] in the order of first appearance
  links    \* the link_type of each group, once the loop is over

topoVars == <<edges, next, groups, links>>

-----------------------------------------------------------------------------
(***************************************************************************)
(* The edges.                                                              *)
(***************************************************************************)
\* A later device takes the place of an earlier one with the same key.
Indexed(key, value) == {i \in DOMAIN Inventory : value # "" /\ Lower[Inventory[i][key]] = Lower[value]}
DeviceAt(hits)      == Inventory[CHOOSE i \in hits : \A j \in hits : j <= i].id

Match(n) ==
  LET byIp == Indexed("ip", n.ip)  byName == Indexed("name", n.name)  byId == Indexed("id", n.name)
  IN  IF byIp # {} THEN DeviceAt(byIp)
      ELSE IF byName # {} THEN DeviceAt(byName)
      ELSE IF byId # {} THEN DeviceAt(byId) ELSE None

\* Mutant: a confirmed row is taken as unmanaged before its target is looked at.
EdgeStatusUnmatched(status, target) ==
  IF status = "confirmed" THEN "reference-unmanaged"
  ELSE IF target # None THEN "reference-managed" ELSE status

EdgeStatus(status, target) ==
  IF target # None THEN "reference-managed"
  ELSE IF status = "confirmed" THEN "reference-unmanaged"
  ELSE IF status = "" THEN "reference" ELSE status

ReferenceEdge(row) ==
  [source |-> row.source, target |-> Match(row), label |-> row.name, kind |-> "reference",
   status |-> EdgeStatus(row.status, Match(row)), lacp |-> row.lacp]

LiveEdge(d, n) ==
  [source |-> d, target |-> Match(n), label |-> IF n.name # "" THEN n.name ELSE n.ip,
   kind |-> "live", lacp |-> FALSE,
   status |-> IF Match(n) # None THEN "live-managed" ELSE "live-unmanaged"]

Mapped(s, Op(_)) == [i \in DOMAIN s |-> Op(s[i])]

ReferenceEdges(rows) == Mapped(rows, ReferenceEdge)
LiveEdges(observed)  == Mapped(observed, LAMBDA s : LiveEdge(Inventory[s.at].id, s.n))

-----------------------------------------------------------------------------
(***************************************************************************)
(* The merge.                                                              *)
(***************************************************************************)
\* Mutant: edges whose target is not in the inventory share the key None.
KeyOfManaged(e) == <<e.source, e.target, e.kind>>

Key(e) == <<e.source, IF e.target # None THEN e.target ELSE e.label, e.kind>>

KeyOf(g) == Key(edges[Head(g.members)])

TopoInit ==
  /\ \E rows \in References, observed \in Sightings :
       edges = ReferenceEdges(rows) \o LiveEdges(observed)
  /\ next = 1
  /\ groups = <<>>
  /\ links = <<>>

Grouped(e) == \E i \in DOMAIN groups : KeyOf(groups[i]) = Key(e)

NewGroup ==
  /\ next \in DOMAIN edges
  /\ ~Grouped(edges[next])
  /\ groups' = Append(groups, [status |-> edges[next].status, members |-> <<next>>])
  /\ next' = next + 1
  /\ UNCHANGED <<edges, links>>

\* Only a live edge changes the status of its group.
JoinGroup ==
  /\ next \in DOMAIN edges
  /\ \E i \in DOMAIN groups :
       /\ KeyOf(groups[i]) = Key(edges[next])
       /\ groups' = [groups EXCEPT
            ![i].members = Append(@, next),
            ![i].status = IF edges[next].kind = "live" THEN edges[next].status ELSE @]
  /\ next' = next + 1
  /\ UNCHANGED <<edges, links>>

LinkType(g) ==
  IF Len(g.members) > 1 \/ edges[Head(g.members)].lacp THEN "port-channel" ELSE "link"

TypeLinks ==
  /\ next = Len(edges) + 1 /\ links = <<>>
  /\ links' = Mapped(groups, LinkType)
  /\ UNCHANGED <<edges, next, groups>>

TopoNext == NewGroup \/ JoinGroup \/ TypeLinks

TopoSpec == TopoInit /\ [][TopoNext]_topoVars

-----------------------------------------------------------------------------
\* The sets of edges that one link of the answer should stand for, said at once:
\* same source, same kind, and the same device at the far end or, where the
\* inventory knows none, a neighbour that shows the same name.
SameLink(e, f) ==
  /\ e.source = f.source /\ e.kind = f.kind /\ e.target = f.target
  /\ e.target = None => e.label = f.label

\* The links are the classes of the edges read so far: no port disappears, none
\* is in two links, and a device found by its address, its name or its id is one
\* far end, while neighbours outside the inventory are told apart by name.
LinksAreClasses ==
  /\ {ToSet(groups[i].members) : i \in DOMAIN groups} =
       {{j \in 1..(next - 1) : SameLink(edges[i], edges[j])} : i \in 1..(next - 1)}
  /\ \A i, j \in DOMAIN groups : i # j =>
       ToSet(groups[i].members) \cap ToSet(groups[j].members) = {}

\* A link is shown as managed exactly if its far end is a device of the
\* inventory, whatever the merge and the order of the edges made of its status.
StatusFollowsTarget ==
  \A i \in DOMAIN groups : \A j \in ToSet(groups[i].members) :
    groups[i].status \in Managed <=> edges[j].target \in Ids
=============================================================================
