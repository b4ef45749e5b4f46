--------------------------- MODULE TopologyProofs ---------------------------
(***************************************************************************)
(* Proofs about Topology, for any inventory, reference file and number of  *)
(* sightings: the links are the classes of the edges, and a link is shown  *)
(* as managed exactly if its far end is a device of the inventory.         *)
(***************************************************************************)
EXTENDS Topology, WellFoundedInduction, SequenceTheorems, TLAPS

Group == [status : {edges[i].status : i \in DOMAIN edges}, members : Seq(Nat \ {0})]

\* What the match and the two sources of edges make sure of.
EdgeOK(e) ==
  /\ e.target \in Ids \cup {None}
  /\ e.target = None => e.label \notin Ids
  /\ e.status \in Managed <=> e.target \in Ids

EdgesOK == Len(edges) \in Nat /\ DOMAIN edges = 1..Len(edges) /\ \A i \in DOMAIN edges : EdgeOK(edges[i])

First(i) == Head(groups[i].members)

\* The groups are the classes of the edges behind the loop, each known by its
\* first member, and have the status of an edge to the same far end.
GroupsOK ==
  /\ next \in 1..(Len(edges) + 1)
  /\ groups \in Seq(Group)
  /\ \A i \in DOMAIN groups :
       /\ groups[i].members # <<>> /\ First(i) \in 1..(next - 1)
       /\ ToSet(groups[i].members) = {j \in 1..(next - 1) : SameLink(edges[First(i)], edges[j])}
       /\ groups[i].status \in Managed <=> edges[First(i)].target \in Ids
  /\ \A i, k \in DOMAIN groups : i # k => ~SameLink(edges[First(i)], edges[First(k)])
  /\ \A j \in 1..(next - 1) : \E i \in DOMAIN groups : SameLink(edges[First(i)], edges[j])

TopoInv == EdgesOK /\ GroupsOK

-----------------------------------------------------------------------------
(***************************************************************************)
(* A set of positions has a last one, so that DeviceAt finds a device.     *)
(***************************************************************************)
LEMMA LeastOne == ASSUME NEW T \in SUBSET Nat, T # {} PROVE \E x \in T : \A y \in T : x <= y
  <1> DEFINE R == {ss \in Nat \X Nat : ss[1] < ss[2]}
  <1>1. IsWellFoundedOn(R, Nat)
    BY NatLessThanWellFounded DEF OpToRel
  <1>2. \E x \in T : \A y \in T : ~(<<y, x>> \in R)
    BY <1>1, WFMin
  <1>3. \A x, y \in T : <<y, x>> \notin R => x <= y
    OBVIOUS
  <1> HIDE DEF R
  <1>4. PICK x \in T : \A y \in T : <<y, x>> \notin R
    BY <1>2
  <1> QED BY <1>3, <1>4

LEMMA LastOne ==
  ASSUME NEW n \in Nat, NEW T \in SUBSET (1..n), T # {}
  PROVE  \E x \in T : \A y \in T : y <= x
  <1> DEFINE U == {n - i : i \in T}
  <1>1. \A i \in T : n - i \in Nat
    OBVIOUS
  <1>2. U \subseteq Nat
    BY <1>1
  <1>3. PICK i \in T : TRUE
    OBVIOUS
  <1>4. n - i \in U
    OBVIOUS
  <1>5. U \in SUBSET Nat /\ U # {}
    BY <1>2, <1>4
  <1>6. PICK u \in U : \A v \in U : u <= v
    BY <1>5, LeastOne
  <1>7. PICK x \in T : u = n - x
    OBVIOUS
  <1>8. \A y \in T : n - y \in U
    OBVIOUS
  <1>9. \A y \in T : y <= x
    BY <1>6, <1>7, <1>8
  <1> QED BY <1>9

LEMMA InventoryPositions == Len(Inventory) \in Nat /\ DOMAIN Inventory = 1..Len(Inventory)
  <1>1. Inventory \in Seq(ToSet(Inventory))
    BY TopologyAssumption
  <1> QED BY <1>1, LenProperties

LEMMA DeviceFound ==
  ASSUME NEW hits \in SUBSET DOMAIN Inventory, hits # {} PROVE DeviceAt(hits) \in Ids
  <1>1. \E i \in hits : \A j \in hits : j <= i
    BY InventoryPositions, LastOne
  <1>2. (CHOOSE i \in hits : \A j \in hits : j <= i) \in hits
    BY <1>1
  <1> QED BY <1>2 DEF DeviceAt, Ids

LEMMA MatchFacts ==
  ASSUME NEW n
  PROVE  /\ Match(n) \in Ids \cup {None}
         /\ Match(n) = None => n.name \notin Ids
  <1>1. \A key, value : Indexed(key, value) \in SUBSET DOMAIN Inventory
    BY DEF Indexed
  <1>2. Match(n) \in Ids \cup {None}
    BY <1>1, DeviceFound DEF Match
  <1>3. ASSUME Match(n) = None PROVE n.name \notin Ids
    <2>1. Indexed("id", n.name) = {}
      BY <1>1, <1>3, DeviceFound, TopologyAssumption DEF Match
    <2>2. n.name = "" \/ \A i \in DOMAIN Inventory : Inventory[i]["id"] # n.name
      BY <2>1 DEF Indexed
    <2> QED BY <2>2, TopologyAssumption DEF Ids
  <1> QED BY <1>2, <1>3

LEMMA ReferenceEdgeOK ==
  ASSUME NEW rows \in References, NEW i \in DOMAIN rows PROVE EdgeOK(ReferenceEdge(rows[i]))
  <1> DEFINE row == rows[i]  e == ReferenceEdge(row)
  <1>1. row.status \notin Managed /\ None \notin Ids
    BY TopologyAssumption
  <1>2. /\ e.target = Match(row) /\ e.label = row.name
        /\ e.status = EdgeStatus(row.status, Match(row))
    BY DEF ReferenceEdge
  <1>3. Match(row) \in Ids \cup {None} /\ (Match(row) = None => row.name \notin Ids)
    BY MatchFacts
  <1>4. EdgeStatus(row.status, Match(row)) \in Managed <=> Match(row) # None
    BY <1>1 DEF EdgeStatus, Managed
  <1> QED BY <1>1, <1>2, <1>3, <1>4 DEF EdgeOK

LEMMA LiveEdgeOK == ASSUME NEW d, NEW n \in Neighbors PROVE EdgeOK(LiveEdge(d, n))
  <1> DEFINE e == LiveEdge(d, n)
  <1>1. n.ip \notin Ids /\ None \notin Ids
    BY TopologyAssumption
  <1>2. /\ e.target = Match(n) /\ e.label = (IF n.name # "" THEN n.name ELSE n.ip)
        /\ e.status = (IF Match(n) # None THEN "live-managed" ELSE "live-unmanaged")
    BY DEF LiveEdge
  <1>3. Match(n) \in Ids \cup {None} /\ (Match(n) = None => n.name \notin Ids)
    BY MatchFacts
  <1>4. e.status \in Managed <=> Match(n) # None
    BY <1>2 DEF Managed
  <1> QED BY <1>1, <1>2, <1>3, <1>4 DEF EdgeOK

-----------------------------------------------------------------------------
(***************************************************************************)
(* The edges are found, and stay as they are.                              *)
(***************************************************************************)
LEMMA EdgesFound == TopoInit => EdgesOK
  <1> SUFFICES ASSUME NEW rows \in References, NEW seen \in Sightings,
                      edges = ReferenceEdges(rows) \o LiveEdges(seen)
               PROVE  EdgesOK
    BY DEF TopoInit
  <1> DEFINE s == ReferenceEdges(rows)  t == LiveEdges(seen)
             S == {s[i] : i \in DOMAIN s} \cup {t[i] : i \in DOMAIN t}
  <1>1. Len(rows) \in Nat /\ DOMAIN rows = 1..Len(rows)
    <2>1. rows \in Seq(ToSet(rows))
      BY TopologyAssumption
    <2> QED BY <2>1, LenProperties
  <1>2. \E m \in Nat : seen \in [1..m -> [at : DOMAIN Inventory, n : Neighbors]]
    <2> DEFINE Sighting == [at : DOMAIN Inventory, n : Neighbors]
    <2>1. seen \in UNION {[1..m -> Sighting] : m \in 0..PortCount}
      BY DEF Sightings, SeqOf
    <2>2. 0..PortCount \subseteq Nat
      OBVIOUS
    <2> HIDE DEF Sighting
    <2>3. \E m \in 0..PortCount : seen \in [1..m -> Sighting]
      BY <2>1
    <2>4. \E m \in Nat : seen \in [1..m -> Sighting]
      BY <2>2, <2>3
    <2> QED BY <2>4 DEF Sighting
  <1>3. DOMAIN s = 1..Len(rows) /\ \A i \in DOMAIN s : EdgeOK(s[i])
    BY <1>1, ReferenceEdgeOK DEF ReferenceEdges, Mapped
  <1>4. \E m \in Nat : DOMAIN t = 1..m /\ \A i \in DOMAIN t : EdgeOK(t[i])
    BY <1>2, LiveEdgeOK DEF LiveEdges, Mapped
  <1>5. s \in Seq(S) /\ t \in Seq(S)
    <2>1. s = [i \in DOMAIN s |-> s[i]] /\ t = [i \in DOMAIN t |-> t[i]]
      BY DEF ReferenceEdges, LiveEdges, Mapped
    <2>2. s \in [DOMAIN s -> S] /\ t \in [DOMAIN t -> S]
      BY <2>1
    <2> HIDE DEF s, t, S
    <2>3. s \in [1..Len(rows) -> S]
      BY <1>3, <2>2
    <2>4. PICK m \in Nat : t \in [1..m -> S]
      BY <1>4, <2>2
    <2> QED BY <1>1, <2>3, <2>4, SeqDef
  <1>6. \A e \in S : EdgeOK(e)
    BY <1>3, <1>4
  <1>7. edges \in Seq(S)
    BY <1>5, ConcatProperties
  <1> HIDE DEF S
  <1>8. Len(edges) \in Nat /\ DOMAIN edges = 1..Len(edges) /\ \A i \in DOMAIN edges : edges[i] \in S
    BY <1>7
  <1>9. \A i \in DOMAIN edges : EdgeOK(edges[i])
    BY <1>6, <1>8
  <1> QED BY <1>8, <1>9 DEF EdgesOK

-----------------------------------------------------------------------------
(***************************************************************************)
(* The merge.                                                              *)
(***************************************************************************)
LEMMA AppendedSet ==
  ASSUME NEW S, NEW s \in Seq(S), NEW e \in S
  PROVE  /\ Append(s, e) \in Seq(S) /\ Append(s, e) # <<>>
         /\ ToSet(Append(s, e)) = ToSet(s) \cup {e}
         /\ s # <<>> => Head(Append(s, e)) = Head(s)
  <1>1. DOMAIN s = 1..Len(s) /\ Len(s) \in Nat
    OBVIOUS
  <1>2. /\ Append(s, e) \in Seq(S) /\ Append(s, e) # <<>> /\ Len(Append(s, e)) = Len(s) + 1
        /\ \A i \in 1..Len(s) : Append(s, e)[i] = s[i]
        /\ Append(s, e)[Len(s) + 1] = e
    BY AppendProperties
  <1>3. DOMAIN Append(s, e) = 1..(Len(s) + 1)
    BY <1>2
  <1>4. ToSet(Append(s, e)) = ToSet(s) \cup {e}
    <2>1. ASSUME NEW x \in ToSet(Append(s, e)) PROVE x \in ToSet(s) \cup {e}
      BY <1>1, <1>2, <1>3 DEF ToSet
    <2>2. ASSUME NEW x \in ToSet(s) \cup {e} PROVE x \in ToSet(Append(s, e))
      <3>1. CASE x = e
        BY <1>1, <1>2, <1>3, <3>1 DEF ToSet
      <3>2. CASE x \in ToSet(s)
        <4>1. PICK i \in 1..Len(s) : x = s[i]
          BY <1>1, <3>2 DEF ToSet
        <4>2. i \in 1..(Len(s) + 1) /\ Append(s, e)[i] = x
          BY <1>1, <1>2, <4>1
        <4> QED BY <1>3, <4>2 DEF ToSet
      <3> QED BY <3>1, <3>2
    <2> QED BY <2>1, <2>2
  <1> QED BY <1>2, <1>4, HeadTailAppend

\* The key of the merge tells exactly the links apart.
LEMMA KeyIsClass ==
  ASSUME EdgesOK, NEW i \in DOMAIN edges, NEW j \in DOMAIN edges
  PROVE  Key(edges[i]) = Key(edges[j]) <=> SameLink(edges[i], edges[j])
  <1> DEFINE e == edges[i]  f == edges[j]
             far(d) == IF d.target # None THEN d.target ELSE d.label
  <1>1. Key(e) = Key(f) <=> e.source = f.source /\ far(e) = far(f) /\ e.kind = f.kind
    BY DEF Key
  <1>2. EdgeOK(e) /\ EdgeOK(f) /\ None \notin Ids
    BY TopologyAssumption DEF EdgesOK
  <1>3. far(e) = far(f) <=> e.target = f.target /\ (e.target = None => e.label = f.label)
    BY <1>2 DEF EdgeOK
  <1> QED BY <1>1, <1>3 DEF SameLink

LEMMA LinkFacts ==
  ASSUME EdgesOK
  PROVE  /\ \A i \in DOMAIN edges : SameLink(edges[i], edges[i])
         /\ \A i, j \in DOMAIN edges : SameLink(edges[i], edges[j]) => SameLink(edges[j], edges[i])
         /\ \A i, j, k \in DOMAIN edges :
              SameLink(edges[i], edges[j]) /\ SameLink(edges[j], edges[k]) => SameLink(edges[i], edges[k])
  BY DEF SameLink

LEMMA TopoInitInv == TopoInit => TopoInv
  <1> SUFFICES ASSUME TopoInit PROVE TopoInv
    OBVIOUS
  <1>1. EdgesOK
    BY EdgesFound
  <1>2. next = 1 /\ groups = <<>>
    BY DEF TopoInit
  <1>3. GroupsOK
    BY <1>1, <1>2 DEF GroupsOK, EdgesOK
  <1> QED BY <1>1, <1>3 DEF TopoInv

\* What a step that leaves the edges alone leaves alone.
LEMMA EdgesStay ==
  ASSUME TopoInv, edges' = edges
  PROVE  /\ EdgesOK' /\ EdgesOK /\ GroupsOK /\ Group' = Group
         /\ 1..(next - 1) \subseteq DOMAIN edges
  <1>1. EdgesOK /\ GroupsOK
    BY DEF TopoInv
  <1>2. EdgesOK'
    BY <1>1 DEF EdgesOK, EdgeOK
  <1>3. Group' = Group
    BY DEF Group
  <1>4. 1..(next - 1) \subseteq DOMAIN edges
    BY <1>1 DEF EdgesOK, GroupsOK
  <1> QED BY <1>1, <1>2, <1>3, <1>4

LEMMA NewGroupInv == TopoInv /\ NewGroup => TopoInv'
  <1> SUFFICES ASSUME TopoInv, NewGroup PROVE TopoInv'
    OBVIOUS
  <1> PICK n : n = Len(groups)
    OBVIOUS
  <1> DEFINE e == edges[next]
             g == [status |-> e.status, members |-> <<next>>]
  <1>0. /\ next \in DOMAIN edges /\ ~Grouped(e) /\ edges' = edges /\ next' = next + 1
        /\ groups' = Append(groups, g)
    BY DEF NewGroup
  <1>1. /\ EdgesOK' /\ EdgesOK /\ GroupsOK /\ Group' = Group /\ 1..(next - 1) \subseteq DOMAIN edges
    BY <1>0, EdgesStay
  <1>2. /\ next \in Nat \ {0} /\ next' \in 1..(Len(edges) + 1) /\ groups \in Seq(Group)
        /\ 1..(next' - 1) = (1..(next - 1)) \cup {next} /\ next \notin 1..(next - 1)
    BY <1>0, <1>1 DEF GroupsOK, EdgesOK
  <1>3. g \in Group
    <2>1. <<next>> \in Seq(Nat \ {0})
      BY <1>2
    <2> QED BY <1>0, <2>1 DEF Group
  <1>4. /\ groups' \in Seq(Group) /\ DOMAIN groups = 1..n /\ n \in Nat /\ DOMAIN groups' = 1..(n + 1)
        /\ \A i \in DOMAIN groups : groups'[i] = groups[i]
        /\ groups'[n + 1] = g
    <2>1. groups' \in Seq(Group) /\ Len(groups') = n + 1 /\ DOMAIN groups = 1..n /\ n \in Nat
      BY <1>0, <1>2, <1>3, AppendProperties
    <2>2. (\A i \in 1..n : groups'[i] = groups[i]) /\ groups'[n + 1] = g
      BY <1>0, <1>2, <1>3, AppendProperties
    <2> QED BY <2>1, <2>2
  <1>5. g.status = e.status /\ g.members # <<>> /\ Head(g.members) = next /\ ToSet(g.members) = {next}
    BY DEF ToSet
  <1>6. \A i \in DOMAIN groups : First(i)' = First(i) /\ First(i) \in 1..(next - 1)
    BY <1>1, <1>4 DEF GroupsOK, First
  <1>7. First(n + 1)' = next
    BY <1>4, <1>5 DEF First
  <1>8. \A i \in DOMAIN groups : ~SameLink(edges[First(i)], e)
    BY <1>0, <1>1, <1>6, KeyIsClass DEF Grouped, KeyOf, First
  <1>9. \A j \in 1..(next - 1) : ~SameLink(edges[j], e) /\ ~SameLink(e, edges[j])
    <2> TAKE j \in 1..(next - 1)
    <2>1. PICK i \in DOMAIN groups : SameLink(edges[First(i)], edges[j])
      BY <1>1 DEF GroupsOK
    <2> QED BY <1>0, <1>1, <1>6, <1>8, <2>1, LinkFacts DEF First
  <1> HIDE DEF e, g
  <1>10. ASSUME NEW i \in DOMAIN groups'
         PROVE  /\ groups'[i].members # <<>> /\ First(i)' \in 1..(next' - 1)
                /\ ToSet(groups'[i].members) = {j \in 1..(next' - 1) : SameLink(edges'[First(i)'], edges'[j])}
                /\ groups'[i].status \in Managed <=> edges'[First(i)'].target \in Ids
    <2>1. CASE i = n + 1
      <3>1. SameLink(edges[next], edges[next]) /\ e = edges[next]
        BY <1>0, <1>1, LinkFacts DEF e
      <3>2. {next} = {j \in 1..(next' - 1) : SameLink(edges[next], edges[j])}
        BY <1>2, <1>9, <3>1
      <3>3. e.status \in Managed <=> e.target \in Ids
        BY <1>0, <1>1, <3>1 DEF EdgesOK, EdgeOK
      <3> QED BY <1>0, <1>2, <1>4, <1>5, <1>7, <2>1, <3>1, <3>2, <3>3
    <2>2. CASE i \in DOMAIN groups
      <3>1. /\ groups[i].members # <<>>
            /\ groups[i].status \in Managed <=> edges[First(i)].target \in Ids
            /\ ToSet(groups[i].members) = {j \in 1..(next - 1) : SameLink(edges[First(i)], edges[j])}
        BY <1>1, <2>2 DEF GroupsOK
      <3>2. ~SameLink(edges[First(i)], edges[next])
        BY <1>8, <2>2 DEF e
      <3>3. groups'[i] = groups[i] /\ First(i)' = First(i) /\ First(i) \in 1..(next - 1)
        BY <1>4, <1>6, <2>2
      <3>4. {j \in 1..(next' - 1) : SameLink(edges[First(i)], edges[j])} = ToSet(groups[i].members)
        BY <1>2, <3>1, <3>2
      <3> QED BY <1>0, <1>2, <3>1, <3>3, <3>4
    <2> QED BY <1>4, <2>1, <2>2
  <1>11. \A i, k \in DOMAIN groups' : i # k => ~SameLink(edges'[First(i)'], edges'[First(k)'])
    <2> SUFFICES ASSUME NEW i \in DOMAIN groups', NEW k \in DOMAIN groups', i # k
                 PROVE  ~SameLink(edges[First(i)'], edges[First(k)'])
      BY <1>0
    <2>1. CASE i \in DOMAIN groups /\ k \in DOMAIN groups
      BY <1>1, <1>6, <2>1 DEF GroupsOK
    <2>2. CASE i = n + 1 /\ k \in DOMAIN groups
      BY <1>6, <1>7, <1>9, <2>2 DEF e
    <2>3. CASE k = n + 1 /\ i \in DOMAIN groups
      BY <1>6, <1>7, <1>9, <2>3 DEF e
    <2> QED BY <1>4, <2>1, <2>2, <2>3
  <1>12. \A j \in 1..(next' - 1) : \E i \in DOMAIN groups' : SameLink(edges'[First(i)'], edges'[j])
    <2> TAKE j \in 1..(next' - 1)
    <2>1. CASE j = next
      <3>1. n + 1 \in DOMAIN groups' /\ SameLink(edges[next], edges[next])
        BY <1>0, <1>1, <1>4, LinkFacts
      <3> QED BY <1>0, <1>7, <2>1, <3>1
    <2>2. CASE j \in 1..(next - 1)
      <3>1. PICK i \in DOMAIN groups : SameLink(edges[First(i)], edges[j])
        BY <1>1, <2>2 DEF GroupsOK
      <3>2. i \in DOMAIN groups'
        BY <1>4
      <3> QED BY <1>0, <1>6, <3>1, <3>2
    <2> QED BY <1>2, <2>1, <2>2
  <1>13. GroupsOK'
    BY <1>0, <1>1, <1>2, <1>4, <1>10, <1>11, <1>12 DEF GroupsOK
  <1> QED BY <1>1, <1>13 DEF TopoInv

LEMMA JoinGroupInv == TopoInv /\ JoinGroup => TopoInv'
  <1> SUFFICES ASSUME TopoInv, JoinGroup PROVE TopoInv'
    OBVIOUS
  <1> DEFINE e == edges[next]
  <1>0. next \in DOMAIN edges /\ edges' = edges /\ next' = next + 1
    BY DEF JoinGroup
  <1>1. /\ EdgesOK' /\ EdgesOK /\ GroupsOK /\ Group' = Group /\ 1..(next - 1) \subseteq DOMAIN edges
    BY <1>0, EdgesStay
  <1>2. /\ next \in Nat \ {0} /\ next' \in 1..(Len(edges) + 1) /\ groups \in Seq(Group)
        /\ 1..(next' - 1) = (1..(next - 1)) \cup {next} /\ next \notin 1..(next - 1)
    BY <1>0, <1>1 DEF GroupsOK, EdgesOK
  <1>3. PICK k \in DOMAIN groups :
          /\ KeyOf(groups[k]) = Key(e)
          /\ groups' = [groups EXCEPT
               ![k].members = Append(@, next),
               ![k].status = IF edges[next].kind = "live" THEN edges[next].status ELSE @]
    BY DEF JoinGroup
  <1>4. PICK g : g = groups'[k]
    OBVIOUS
  <1>5. groups[k] \in Group /\ groups[k].members \in Seq(Nat \ {0})
    <2>1. groups[k] \in Group
      BY <1>2, <1>3
    <2> QED BY <2>1 DEF Group
  <1>6. /\ g = [status |-> IF e.kind = "live" THEN e.status ELSE groups[k].status,
                members |-> Append(groups[k].members, next)]
        /\ DOMAIN groups' = DOMAIN groups
        /\ \A i \in DOMAIN groups : i # k => groups'[i] = groups[i]
    BY <1>3, <1>4, <1>5 DEF Group
  <1>7. /\ groups[k].members # <<>> /\ First(k) \in 1..(next - 1)
        /\ ToSet(groups[k].members) = {j \in 1..(next - 1) : SameLink(edges[First(k)], edges[j])}
    BY <1>1, <1>3 DEF GroupsOK
  <1>8. /\ g.members \in Seq(Nat \ {0}) /\ g.members # <<>>
        /\ ToSet(g.members) = ToSet(groups[k].members) \cup {next}
        /\ Head(g.members) = First(k)
    <2>1. next \in Nat \ {0} /\ g.members = Append(groups[k].members, next)
      BY <1>2, <1>6
    <2>2. /\ Append(groups[k].members, next) \in Seq(Nat \ {0}) /\ Append(groups[k].members, next) # <<>>
          /\ ToSet(Append(groups[k].members, next)) = ToSet(groups[k].members) \cup {next}
          /\ Head(Append(groups[k].members, next)) = Head(groups[k].members)
      <3>1. PICK m : m = groups[k].members
        OBVIOUS
      <3>2. m \in Seq(Nat \ {0}) /\ m # <<>>
        BY <1>5, <1>7, <3>1
      <3>3. /\ Append(m, next) \in Seq(Nat \ {0}) /\ Append(m, next) # <<>>
            /\ ToSet(Append(m, next)) = ToSet(m) \cup {next}
            /\ Head(Append(m, next)) = Head(m)
        <4> DEFINE S == Nat \ {0}
        <4>1. m \in Seq(S) /\ next \in S
          BY <2>1, <3>2
        <4> HIDE DEF S
        <4>2. /\ Append(m, next) \in Seq(S) /\ Append(m, next) # <<>>
              /\ ToSet(Append(m, next)) = ToSet(m) \cup {next}
              /\ m # <<>> => Head(Append(m, next)) = Head(m)
          BY <4>1, AppendedSet, Zenon
        <4> QED BY <3>2, <4>2 DEF S
      <3> QED BY <3>1, <3>3
    <2> QED BY <2>1, <2>2 DEF First
  <1>9. groups' \in Seq(Group)
    <2>1. g \in Group
      <3>1. g.status \in {edges[i].status : i \in DOMAIN edges}
        BY <1>0, <1>5, <1>6 DEF Group
      <3> QED BY <1>6, <1>8, <3>1 DEF Group
    <2>2. groups' = [groups EXCEPT ![k] = g]
      <3>1. groups' = [i \in DOMAIN groups |-> groups'[i]]
        BY <1>3
      <3> QED BY <1>4, <1>6, <3>1
    <2>3. k \in 1..Len(groups)
      BY <1>2, <1>3
    <2> HIDE DEF Group
    <2>4. [groups EXCEPT ![k] = g] \in Seq(Group)
      BY <1>2, <2>1, <2>3, ExceptSeq
    <2> QED BY <2>2, <2>4
  <1>10. \A i \in DOMAIN groups : First(i)' = First(i) /\ First(i) \in 1..(next - 1)
    <2> TAKE i \in DOMAIN groups
    <2>1. First(i) \in 1..(next - 1)
      BY <1>1 DEF GroupsOK
    <2>2. CASE i = k
      BY <1>4, <1>8, <2>1, <2>2 DEF First
    <2>3. CASE i # k
      BY <1>6, <2>1, <2>3 DEF First
    <2> QED BY <2>2, <2>3
  <1>11. SameLink(edges[First(k)], edges[next])
    BY <1>0, <1>1, <1>3, <1>7, KeyIsClass DEF KeyOf, First
  <1>12. ASSUME NEW i \in DOMAIN groups, i # k PROVE ~SameLink(edges[First(i)], edges[next])
    <2>1. ~SameLink(edges[First(i)], edges[First(k)])
      BY <1>1, <1>3, <1>12 DEF GroupsOK
    <2> QED BY <1>0, <1>1, <1>7, <1>10, <1>11, <2>1, LinkFacts
  <1> HIDE DEF e
  <1>13. ASSUME NEW i \in DOMAIN groups'
         PROVE  /\ groups'[i].members # <<>> /\ First(i)' \in 1..(next' - 1)
                /\ ToSet(groups'[i].members) = {j \in 1..(next' - 1) : SameLink(edges'[First(i)'], edges'[j])}
                /\ groups'[i].status \in Managed <=> edges'[First(i)'].target \in Ids
    <2>0. /\ i \in DOMAIN groups /\ First(i)' = First(i) /\ First(i) \in 1..(next - 1)
          /\ groups[i].members # <<>>
          /\ groups[i].status \in Managed <=> edges[First(i)].target \in Ids
          /\ ToSet(groups[i].members) = {j \in 1..(next - 1) : SameLink(edges[First(i)], edges[j])}
      BY <1>1, <1>6, <1>10 DEF GroupsOK
    <2>1. CASE i = k
      <3>1. {j \in 1..(next' - 1) : SameLink(edges[First(k)], edges[j])} = ToSet(groups[k].members) \cup {next}
        BY <1>2, <1>7, <1>11
      <3>2. edges[next].status \in Managed <=> edges[next].target \in Ids
        BY <1>0, <1>1 DEF EdgesOK, EdgeOK
      <3>3. edges[next].target = edges[First(k)].target
        BY <1>11 DEF SameLink
      <3>4. g.status \in Managed <=> edges[First(k)].target \in Ids
        BY <1>6, <2>0, <2>1, <3>2, <3>3 DEF e
      <3> QED BY <1>0, <1>2, <1>4, <1>8, <2>0, <2>1, <3>1, <3>4
    <2>2. CASE i # k
      <3>1. {j \in 1..(next' - 1) : SameLink(edges[First(i)], edges[j])} = ToSet(groups[i].members)
        BY <1>2, <1>12, <2>0, <2>2
      <3> QED BY <1>0, <1>2, <1>6, <2>0, <2>2, <3>1
    <2> QED BY <2>1, <2>2
  <1>14. \A i, j \in DOMAIN groups' : i # j => ~SameLink(edges'[First(i)'], edges'[First(j)'])
    BY <1>0, <1>1, <1>6, <1>10 DEF GroupsOK
  <1>15. \A j \in 1..(next' - 1) : \E i \in DOMAIN groups' : SameLink(edges'[First(i)'], edges'[j])
    <2> TAKE j \in 1..(next' - 1)
    <2>1. PICK i \in DOMAIN groups : SameLink(edges[First(i)], edges[j])
      <3>1. CASE j = next
        BY <1>3, <1>11, <3>1
      <3>2. CASE j \in 1..(next - 1)
        BY <1>1, <3>2 DEF GroupsOK
      <3> QED BY <1>2, <3>1, <3>2
    <2> QED BY <1>0, <1>6, <1>10, <2>1
  <1>16. GroupsOK'
    BY <1>0, <1>1, <1>2, <1>9, <1>13, <1>14, <1>15 DEF GroupsOK
  <1> QED BY <1>1, <1>16 DEF TopoInv

LEMMA TopoStepInv == TopoInv /\ [TopoNext]_topoVars => TopoInv'
  <1> SUFFICES ASSUME TopoInv, [TopoNext]_topoVars PROVE TopoInv'
    OBVIOUS
  <1>1. CASE NewGroup
    BY <1>1, NewGroupInv
  <1>2. CASE JoinGroup
    BY <1>2, JoinGroupInv
  <1>3. CASE TypeLinks \/ UNCHANGED topoVars
    <2>1. edges' = edges /\ next' = next /\ groups' = groups
      BY <1>3 DEF TypeLinks, topoVars
    <2>2. EdgesOK' /\ GroupsOK /\ Group' = Group
      BY <2>1, EdgesStay
    <2>3. GroupsOK'
      BY <2>1, <2>2 DEF GroupsOK, First
    <2> QED BY <2>2, <2>3 DEF TopoInv
  <1> QED BY <1>1, <1>2, <1>3 DEF TopoNext

LEMMA TopoInvariance == TopoSpec => []TopoInv
  BY TopoInitInv, TopoStepInv, PTL DEF TopoSpec

-----------------------------------------------------------------------------
\* No port disappears from the answer or is in two links, and each link has all
\* edges to its far end, for any inventory, reference file and observations
\* (topology.py _merge_edges, _match_device).
THEOREM LinksAreTheClasses == TopoSpec => []LinksAreClasses
  <1>1. ASSUME TopoInv PROVE LinksAreClasses
    <2>0. EdgesOK /\ GroupsOK /\ 1..(next - 1) \subseteq DOMAIN edges
      <3>1. EdgesOK /\ GroupsOK
        BY <1>1 DEF TopoInv
      <3>2. next \in 1..(Len(edges) + 1) /\ Len(edges) \in Nat /\ DOMAIN edges = 1..Len(edges)
        BY <3>1 DEF EdgesOK, GroupsOK
      <3> QED BY <3>1, <3>2
    <2> DEFINE class(i) == {j \in 1..(next - 1) : SameLink(edges[i], edges[j])}
    <2>1. \A i \in DOMAIN groups : ToSet(groups[i].members) = class(First(i)) /\ First(i) \in 1..(next - 1)
      BY <2>0 DEF GroupsOK
    <2>2. \A j \in 1..(next - 1) : \E i \in DOMAIN groups : class(First(i)) = class(j)
      <3> TAKE j \in 1..(next - 1)
      <3>1. PICK i \in DOMAIN groups : SameLink(edges[First(i)], edges[j])
        BY <2>0 DEF GroupsOK
      <3>2. class(First(i)) = class(j)
        BY <2>0, <2>1, <3>1, LinkFacts
      <3> QED BY <3>2
    <2>3. \A i, k \in DOMAIN groups : i # k => class(First(i)) \cap class(First(k)) = {}
      <3> SUFFICES ASSUME NEW i \in DOMAIN groups, NEW k \in DOMAIN groups, i # k,
                          NEW j \in class(First(i)) \cap class(First(k))
                   PROVE  FALSE
        OBVIOUS
      <3>1. SameLink(edges[First(i)], edges[j]) /\ SameLink(edges[First(k)], edges[j]) /\ j \in 1..(next - 1)
        OBVIOUS
      <3>2. SameLink(edges[First(i)], edges[First(k)])
        BY <2>0, <2>1, <3>1, LinkFacts
      <3> QED BY <2>0, <3>2 DEF GroupsOK
    <2>4. {ToSet(groups[i].members) : i \in DOMAIN groups} = {class(i) : i \in 1..(next - 1)}
      <3> HIDE DEF class
      <3> QED BY <2>1, <2>2
    <2>5. \A i, j \in DOMAIN groups : i # j =>
            ToSet(groups[i].members) \cap ToSet(groups[j].members) = {}
      <3> HIDE DEF class
      <3> QED BY <2>1, <2>3
    <2> QED BY <2>4, <2>5 DEF LinksAreClasses
  <1> QED BY <1>1, TopoInvariance, PTL

\* A link is shown as managed exactly if its far end is in the inventory,
\* whatever the order of the edges and their own statuses (topology.py
\* _merge_edges, _edge_status).
THEOREM StatusTellsTarget == TopoSpec => []StatusFollowsTarget
  <1>1. ASSUME TopoInv PROVE StatusFollowsTarget
    <2>0. GroupsOK
      BY <1>1 DEF TopoInv
    <2> SUFFICES ASSUME NEW i \in DOMAIN groups, NEW j \in ToSet(groups[i].members)
                 PROVE  groups[i].status \in Managed <=> edges[j].target \in Ids
      BY DEF StatusFollowsTarget
    <2>1. SameLink(edges[First(i)], edges[j])
      BY <2>0 DEF GroupsOK
    <2>2. groups[i].status \in Managed <=> edges[First(i)].target \in Ids
      BY <2>0 DEF GroupsOK
    <2> QED BY <2>1, <2>2 DEF SameLink
  <1> QED BY <1>1, TopoInvariance, PTL
=============================================================================
