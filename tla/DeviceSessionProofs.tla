------------------------ MODULE DeviceSessionProofs ------------------------
(***************************************************************************)
(* Proofs about CommandPolicy and DeviceSession, for any vendor, any plans *)
(* a caller may offer, any tables, any device and any number of timers.    *)
(* In this order: what the recursive definitions compute, what the policy  *)
(* allows, what reaches the device's shell (SesInv), types (TypeInv), why  *)
(* an obedient device never pages (QuietInv), why each header has the      *)
(* answer to its command as long as no timer has fired (SyncInv), and why  *)
(* text under a wrong header makes up no status (StatusInv).               *)
(***************************************************************************)
EXTENDS DeviceSession, SequenceTheorems, FiniteSetTheorems, WellFoundedInduction, TLAPS

-----------------------------------------------------------------------------
(* Recursive definitions: what a plan list is flattened and combined to.   *)
LEMMA LeastOne == ASSUME NEW T \in SUBSET Nat, T # {} PROVE \E x \in T : \A y \in T : x <= y
  <1> DEFINE R == {ss \in Nat \X Nat : ss[1] < ss[2]}
  <1>1. IsWellFoundedOn(R, Nat)
    BY NatLessThanWellFounded DEF OpToRel
  <1>2. \E x \in T : \A y \in T : ~(<<y, x>> \in R)
    BY <1>1, WFMin
  <1>3. \A x, y \in T : <<y, x>> \notin R => x <= y
    OBVIOUS
  <1> HIDE DEF R
  <1>4. PICK x \in T : \A y \in T : <<y, x>> \notin R
    BY <1>2
  <1> QED BY <1>3, <1>4

\* Induction up to N, for a set of numbers.
LEMMA Climb ==
  ASSUME NEW N \in Nat, NEW S, 0 \in S, \A n \in 1..N : n - 1 \in S => n \in S
  PROVE  \A n \in 0..N : n \in S
  <1> DEFINE Bad == {n \in 0..N : n \notin S}
  <1> SUFFICES ASSUME Bad # {} PROVE FALSE
    OBVIOUS
  <1>1. Bad \in SUBSET Nat
    OBVIOUS
  <1>2. PICK n \in Bad : \A k \in Bad : n <= k
    <2> HIDE DEF Bad
    <2> QED BY <1>1, LeastOne
  <1>3. n \in 1..N /\ n - 1 \in 0..N /\ n - 1 \in Nat
    OBVIOUS
  <1>4. n - 1 \notin Bad
    <2> HIDE DEF Bad
    <2> QED BY <1>2, <1>3
  <1> QED BY <1>3, <1>4

\* A function that is defined by recursion on 0..N exists.
Runs(N, V, base, G) == {f \in [0..N -> V] : f[0] = base /\ \A n \in 1..N : f[n] = G[n][f[n - 1]]}

LEMMA Recursion ==
  ASSUME NEW N \in Nat, NEW V, NEW base \in V, NEW G \in [1..N -> [V -> V]]
  PROVE  Runs(N, V, base, G) # {}
  <1> DEFINE Up(m, f) == f[0] = base /\ \A n \in 1..m : f[n] = G[n][f[n - 1]]
             S == {m \in 0..N : \E f \in [0..m -> V] : Up(m, f)}
  <1>1. 0 \in S
    <2>1. [n \in 0..0 |-> base] \in [0..0 -> V] /\ Up(0, [n \in 0..0 |-> base])
      OBVIOUS
    <2>2. 0 \in 0..N
      OBVIOUS
    <2> HIDE DEF Up
    <2> QED BY <2>1, <2>2
  <1>2. ASSUME NEW m \in 1..N, m - 1 \in S PROVE m \in S
    <2>1. PICK f \in [0..(m - 1) -> V] : Up(m - 1, f)
      BY <1>2
    <2> DEFINE v == G[m][f[m - 1]]
               g == [n \in 0..m |-> IF n = m THEN v ELSE f[n]]
    <2>2. v \in V
      <3>1. f[m - 1] \in V
        OBVIOUS
      <3>2. G[m] \in [V -> V]
        OBVIOUS
      <3> QED BY <3>1, <3>2
    <2>3. g \in [0..m -> V] /\ g[m] = v /\ \A n \in 0..(m - 1) : g[n] = f[n]
      BY <2>2
    <2> HIDE DEF g
    <2>4. g[0] = base
      BY <2>1, <2>3
    <2>5. ASSUME NEW n \in 1..m PROVE g[n] = G[n][g[n - 1]]
      <3>1. n - 1 \in 0..(m - 1) /\ (n = m \/ n \in 1..(m - 1))
        OBVIOUS
      <3> QED BY <2>1, <2>3, <3>1
    <2>6. Up(m, g)
      BY <2>4, <2>5
    <2> HIDE DEF Up
    <2> QED BY <2>3, <2>6
  <1> HIDE DEF S
  <1>4. \A m \in 1..N : m - 1 \in S => m \in S
    BY <1>2
  <1>3. N \in S
    <2> HIDE DEF Up
    <2>1. N \in 0..N
      OBVIOUS
    <2> QED BY <1>1, <1>4, <2>1, Climb
  <1> QED BY <1>3 DEF S, Runs

\* A list of lists is flattened one after the other.
LEMMA FlattenRuns ==
  ASSUME NEW T, NEW seqs \in Seq(Seq(T))
  PROVE  \E f \in [0..Len(seqs) -> Seq(T)] :
           /\ f[0] = <<>> /\ \A n \in 1..Len(seqs) : f[n] = f[n - 1] \o seqs[n]
           /\ FlattenSeq(seqs) = f[Len(seqs)]
  <1> DEFINE L == Len(seqs)
             G == [n \in 1..L |-> [v \in Seq(T) |-> v \o seqs[n]]]
  <1>1. L \in Nat /\ DOMAIN seqs = 1..L /\ \A i \in 1..L : seqs[i] \in Seq(T)
    BY LenProperties, ElementOfSeq
  <1>2. /\ \A n \in 1..L : \A v \in Seq(T) : G[n][v] = v \o seqs[n]
        /\ G \in [1..L -> [Seq(T) -> Seq(T)]]
    BY <1>1, ConcatProperties
  <1> HIDE DEF G, L
  <1>3. PICK f \in [0..L -> Seq(T)] : f[0] = <<>> /\ \A n \in 1..L : f[n] = G[n][f[n - 1]]
    <2> DEFINE V == Seq(T)
               nil == <<>>
    <2>1. nil \in V
      BY EmptySeq
    <2>2. L \in Nat /\ G \in [1..L -> [V -> V]]
      BY <1>1, <1>2
    <2> HIDE DEF V, nil
    <2>3. Runs(L, V, nil, G) # {}
      BY <2>1, <2>2, Recursion
    <2> QED BY <2>3 DEF V, nil, Runs
  <1>4. ASSUME NEW n \in 1..L PROVE f[n] = f[n - 1] \o seqs[n]
    <2> DEFINE v == f[n - 1]
    <2>1. v \in Seq(T) /\ f[n] = G[n][v]
      <3>1. n - 1 \in 0..L
        BY <1>1
      <3> QED BY <1>3, <3>1
    <2> HIDE DEF v
    <2>2. f[n] = v \o seqs[n]
      BY <1>2, <2>1
    <2> QED BY <2>2 DEF v
  <1>5. ASSUME L # 0 PROVE f[1] = seqs[1]
    <2>1. 1 \in 1..L /\ 1 - 1 = 0
      BY <1>1, <1>5
    <2>2. f[1] = f[0] \o seqs[1]
      BY <1>4, <2>1
    <2>3. seqs[1] \in Seq(T) /\ f[0] = <<>>
      BY <1>1, <1>3, <2>1
    <2> QED BY <2>2, <2>3, ConcatEmptySeq
  <1>6. CASE L = 0
    <2>1. seqs = <<>> /\ FlattenSeq(seqs) = seqs
      BY <1>1, <1>6, EmptySeq DEF FlattenSeq, L
    <2> QED BY <1>3, <1>4, <1>6, <2>1 DEF L
  <1>7. CASE L # 0
    <2> DEFINE Next(h, i) == IF i = 1 THEN seqs[i] ELSE h[i - 1] \o seqs[i]
               flatten == CHOOSE h : h = [i \in 1..L |-> Next(h, i)]
               g == [i \in 1..L |-> f[i]]
    <2>1. FlattenSeq(seqs) = flatten[L]
      BY <1>7 DEF FlattenSeq, L
    <2>2. ASSUME NEW i \in 1..L PROVE g[i] = Next(g, i)
      <3> HIDE DEF g
      <3>1. CASE i = 1
        BY <1>7, <1>5, <3>1 DEF g, Next
      <3>2. CASE i # 1
        <4>1. i - 1 \in 1..L
          BY <1>1, <3>2
        <4>2. g[i - 1] = f[i - 1] /\ g[i] = f[i]
          BY <4>1 DEF g
        <4> QED BY <1>4, <3>2, <4>2 DEF Next
      <3> QED BY <3>1, <3>2
    <2>3. g = [i \in 1..L |-> Next(g, i)]
      <3>1. g = [i \in 1..L |-> g[i]]
        OBVIOUS
      <3> HIDE DEF g, Next
      <3> QED BY <2>2, <3>1
    <2> HIDE DEF g, Next
    <2>4. flatten = [i \in 1..L |-> Next(flatten, i)]
      BY <2>3, Zenon DEF flatten
    <2> HIDE DEF flatten
    <2>5. \A i \in 1..L : flatten[i] = Next(flatten, i)
      BY <2>4
    <2> DEFINE S == {0} \cup {i \in 1..L : flatten[i] = f[i]}
    <2>6. ASSUME NEW i \in 1..L, i - 1 \in S PROVE i \in S
      <3>1. CASE i = 1
        BY <1>7, <1>5, <2>5, <3>1 DEF Next
      <3>2. CASE i # 1
        <4>1. flatten[i - 1] = f[i - 1]
          BY <2>6, <3>2
        <4>2. flatten[i] = flatten[i - 1] \o seqs[i]
          BY <2>5, <3>2 DEF Next
        <4> QED BY <1>4, <4>1, <4>2
      <3> QED BY <3>1, <3>2
    <2>7. L \in S
      <3>1. 0 \in S /\ L \in 0..L /\ \A i \in 1..L : i - 1 \in S => i \in S
        BY <1>1, <2>6
      <3> HIDE DEF S
      <3> QED BY <1>1, <3>1, Climb
    <2>8. FlattenSeq(seqs) = f[L]
      BY <1>7, <2>1, <2>7
    <2> QED BY <1>3, <1>4, <2>8 DEF L
  <1> QED BY <1>6, <1>7

LEMMA AppendLines ==
  ASSUME NEW T, NEW s \in Seq(T), NEW x \in T
  PROVE  /\ Append(s, x) \in Seq(T) /\ ToSet(Append(s, x)) = ToSet(s) \cup {x}
         /\ Len(s) \in Nat /\ DOMAIN s = 1..Len(s)
         /\ Len(Append(s, x)) = Len(s) + 1 /\ DOMAIN Append(s, x) = 1..(Len(s) + 1)
         /\ \A i \in 1..Len(s) : Append(s, x)[i] = s[i]
         /\ Append(s, x)[Len(s) + 1] = x
  <1> DEFINE w == Append(s, x)
             m == Len(s)
  <1>1. /\ w \in Seq(T) /\ Len(w) = m + 1
        /\ \A i \in 1..m : w[i] = s[i]
        /\ w[m + 1] = x
    BY AppendProperties
  <1>2. m \in Nat /\ DOMAIN s = 1..m
    BY LenProperties
  <1> HIDE DEF w, m
  <1>3. DOMAIN w = 1..(m + 1)
    BY <1>1, LenProperties
  <1>4. 1..(m + 1) = (1..m) \cup {m + 1}
    BY <1>2
  <1>5. ToSet(w) = {w[i] : i \in 1..m} \cup {w[m + 1]}
    BY <1>3, <1>4 DEF ToSet
  <1>6. {w[i] : i \in 1..m} = {s[i] : i \in 1..m}
    BY <1>1
  <1>7. ToSet(w) = ToSet(s) \cup {x}
    BY <1>1, <1>2, <1>5, <1>6 DEF ToSet
  <1> QED BY <1>1, <1>2, <1>3, <1>7 DEF w, m

LEMMA ConcatLines ==
  ASSUME NEW T, NEW s \in Seq(T), NEW t \in Seq(T)
  PROVE  ToSet(s \o t) = ToSet(s) \cup ToSet(t)
  <1> DEFINE u == s \o t
             m == Len(s)
             n == Len(t)
  <1>1. m \in Nat /\ n \in Nat /\ DOMAIN s = 1..m /\ DOMAIN t = 1..n
    BY LenProperties
  <1>2. /\ u \in Seq(T) /\ Len(u) = m + n
        /\ \A i \in 1..(m + n) : u[i] = IF i <= m THEN s[i] ELSE t[i - m]
    BY ConcatProperties
  <1> HIDE DEF u, m, n
  <1>3. DOMAIN u = 1..(m + n)
    BY <1>2, LenProperties
  <1>4. ASSUME NEW i \in 1..(m + n) PROVE u[i] \in ToSet(s) \cup ToSet(t)
    <2>1. CASE i <= m
      <3>1. i \in DOMAIN s /\ u[i] = s[i]
        BY <1>1, <1>2, <2>1
      <3> QED BY <3>1 DEF ToSet
    <2>2. CASE ~(i <= m)
      <3>1. i - m \in 1..n
        BY <1>1, <2>2
      <3>2. i - m \in DOMAIN t /\ u[i] = t[i - m]
        BY <1>1, <1>2, <2>2, <3>1
      <3> QED BY <3>2 DEF ToSet
    <2> QED BY <2>1, <2>2
  <1>5. ASSUME NEW i \in 1..m PROVE s[i] \in ToSet(u)
    <2>1. i \in 1..(m + n) /\ i <= m
      BY <1>1
    <2> QED BY <1>2, <1>3, <2>1 DEF ToSet
  <1>6. ASSUME NEW i \in 1..n PROVE t[i] \in ToSet(u)
    <2>1. m + i \in 1..(m + n) /\ ~(m + i <= m) /\ (m + i) - m = i
      BY <1>1
    <2>2. u[m + i] = t[i]
      BY <1>2, <2>1
    <2> QED BY <1>3, <2>1, <2>2 DEF ToSet
  <1>7. \A x \in ToSet(u) : x \in ToSet(s) \cup ToSet(t)
    BY <1>3, <1>4 DEF ToSet
  <1>8. \A x \in ToSet(s) \cup ToSet(t) : x \in ToSet(u)
    BY <1>1, <1>5, <1>6 DEF ToSet
  <1> QED BY <1>7, <1>8 DEF u

Begins(s, t) == Len(t) <= Len(s) /\ \A i \in 1..Len(t) : s[i] = t[i]

\* What is flattened has the elements of all lists and begins with the first.
LEMMA FlattenIs ==
  ASSUME NEW T, NEW seqs \in Seq(Seq(T))
  PROVE  /\ FlattenSeq(seqs) \in Seq(T)
         /\ ToSet(FlattenSeq(seqs)) = UNION {ToSet(seqs[i]) : i \in 1..Len(seqs)}
         /\ seqs # <<>> => Begins(FlattenSeq(seqs), seqs[1])
         /\ seqs = <<>> => FlattenSeq(seqs) = <<>>
  <1> DEFINE L == Len(seqs)
  <1>1. PICK f \in [0..L -> Seq(T)] :
          /\ f[0] = <<>> /\ \A n \in 1..L : f[n] = f[n - 1] \o seqs[n]
          /\ FlattenSeq(seqs) = f[L]
    BY FlattenRuns
  <1>2. L \in Nat /\ \A i \in 1..L : seqs[i] \in Seq(T)
    BY LenProperties, ElementOfSeq
  <1>3. seqs = <<>> <=> L = 0
    BY <1>2, EmptySeq
  <1> HIDE DEF L
  <1> DEFINE S == {n \in 0..L : ToSet(f[n]) = UNION {ToSet(seqs[i]) : i \in 1..n}}
             B == {0} \cup {n \in 1..L : Begins(f[n], seqs[1])}
  <1>4. 0 \in S
    <2>1. ToSet(f[0]) = {} /\ 1..0 = {} /\ 0 \in 0..L
      BY <1>1, <1>2 DEF ToSet
    <2> QED BY <2>1
  <1>5. ASSUME NEW n \in 1..L, n - 1 \in S PROVE n \in S
    <2>1. n - 1 \in 0..L /\ n \in 0..L /\ 1..n = (1..(n - 1)) \cup {n}
      BY <1>2
    <2>2. f[n - 1] \in Seq(T) /\ seqs[n] \in Seq(T) /\ f[n] = f[n - 1] \o seqs[n]
      BY <1>1, <1>2, <2>1
    <2>3. ToSet(f[n]) = ToSet(f[n - 1]) \cup ToSet(seqs[n])
      BY <2>2, ConcatLines
    <2>4. ToSet(f[n - 1]) = UNION {ToSet(seqs[i]) : i \in 1..(n - 1)}
      BY <1>5
    <2>5. UNION {ToSet(seqs[i]) : i \in 1..n} = (UNION {ToSet(seqs[i]) : i \in 1..(n - 1)}) \cup ToSet(seqs[n])
      BY <2>1
    <2>6. ToSet(f[n]) = UNION {ToSet(seqs[i]) : i \in 1..n}
      BY <2>3, <2>4, <2>5
    <2> QED BY <2>1, <2>6
  <1>6. ASSUME NEW n \in 1..L, n - 1 \in B PROVE n \in B
    <2> DEFINE u == f[n - 1]
               v == seqs[n]
               t == seqs[1]
               m == Len(t)
    <2>1. n - 1 \in 0..L /\ 1 \in 1..L
      BY <1>2
    <2>2. u \in Seq(T) /\ v \in Seq(T) /\ f[n] = u \o v /\ t \in Seq(T) /\ m \in Nat
      BY <1>1, <1>2, <2>1, LenProperties
    <2>3. /\ Len(u \o v) = Len(u) + Len(v) /\ Len(u) \in Nat /\ Len(v) \in Nat
          /\ \A i \in 1..(Len(u) + Len(v)) : (u \o v)[i] = IF i <= Len(u) THEN u[i] ELSE v[i - Len(u)]
      BY <2>2, ConcatProperties, LenProperties
    <2>4. CASE n = 1
      <3>1. u = <<>> /\ v = t
        BY <1>1, <2>4
      <3>2. f[n] = t
        BY <2>2, <3>1, ConcatEmptySeq
      <3> QED BY <2>2, <3>2 DEF Begins
    <2>5. CASE n # 1
      <3>1. Begins(u, t)
        BY <1>6, <2>5
      <3> HIDE DEF u, v, t
      <3>2. m <= Len(u) /\ \A i \in 1..m : u[i] = t[i]
        BY <3>1 DEF Begins
      <3>3. \A i \in 1..m : i \in 1..(Len(u) + Len(v)) /\ i <= Len(u)
        BY <2>2, <2>3, <3>2
      <3>4. m <= Len(u \o v) /\ \A i \in 1..m : (u \o v)[i] = t[i]
        BY <2>2, <2>3, <3>2, <3>3
      <3>5. Begins(f[n], t)
        BY <2>2, <3>4 DEF Begins
      <3> QED BY <3>5 DEF t
    <2> QED BY <2>4, <2>5
  <1>7. L \in S /\ L \in B
    <2>1. 0 \in B /\ L \in 0..L
      BY <1>2
    <2> HIDE DEF S, B
    <2>2. \A n \in 1..L : n - 1 \in S => n \in S
      BY <1>5
    <2>3. \A n \in 1..L : n - 1 \in B => n \in B
      BY <1>6
    <2> QED BY <1>2, <1>4, <2>1, <2>2, <2>3, Climb
  <1>8. f[L] \in Seq(T)
    BY <1>1, <1>2
  <1>9. ToSet(f[L]) = UNION {ToSet(seqs[i]) : i \in 1..L}
    BY <1>7
  <1>10. L # 0 => Begins(f[L], seqs[1])
    BY <1>7
  <1>11. L = 0 => f[L] = <<>>
    BY <1>1
  <1> QED BY <1>1, <1>3, <1>8, <1>9, <1>10, <1>11 DEF L

\* The combined plan is collected command by command.
Collects(flat, f) ==
  /\ f[0] = <<>>
  /\ \A n \in 1..Len(flat) :
       f[n] = IF flat[n] \in ToSet(f[n - 1]) THEN f[n - 1] ELSE Append(f[n - 1], flat[n])

LEMMA UniqueRuns ==
  ASSUME NEW T, NEW plans \in Seq(Seq(T))
  PROVE  \E f \in [0..Len(FlattenSeq(plans)) -> Seq(T)] :
           Collects(FlattenSeq(plans), f) /\ UniqueCommands(plans) = f[Len(FlattenSeq(plans))]
  <1> DEFINE flat == FlattenSeq(plans)
             L == Len(flat)
             G == [n \in 1..L |-> [v \in Seq(T) |-> IF flat[n] \in ToSet(v) THEN v ELSE Append(v, flat[n])]]
             Next(f, n) == IF n = 0 THEN <<>>
                           ELSE LET before == f[n - 1]
                                IN  IF flat[n] \in ToSet(before) THEN before ELSE Append(before, flat[n])
             seen == CHOOSE f : f = [n \in 0..L |-> Next(f, n)]
  <1>0. flat \in Seq(T) /\ L \in Nat /\ DOMAIN flat = 1..L /\ \A i \in 1..L : flat[i] \in T
    BY FlattenIs, LenProperties, ElementOfSeq
  <1>1. UniqueCommands(plans) = seen[L]
    BY DEF UniqueCommands
  <1> HIDE DEF flat
  <1>2. /\ G \in [1..L -> [Seq(T) -> Seq(T)]]
        /\ \A n \in 1..L : \A v \in Seq(T) :
             G[n][v] = IF flat[n] \in ToSet(v) THEN v ELSE Append(v, flat[n])
    BY <1>0, AppendProperties
  <1> HIDE DEF L, G, Next, seen
  <1>3. PICK f \in [0..L -> Seq(T)] : f[0] = <<>> /\ \A n \in 1..L : f[n] = G[n][f[n - 1]]
    <2> DEFINE V == Seq(T)
               nil == <<>>
    <2>1. nil \in V
      BY EmptySeq
    <2>2. L \in Nat
      BY <1>0
    <2>3. G \in [1..L -> [V -> V]]
      BY <1>2
    <2> HIDE DEF V, nil
    <2>4. Runs(L, V, nil, G) # {}
      BY <2>1, <2>2, <2>3, Recursion
    <2> QED BY <2>4 DEF V, nil, Runs
  <1>4. seen = [n \in 0..L |-> Next(seen, n)] /\ f = [n \in 0..L |-> Next(f, n)]
    <2>1. ASSUME NEW n \in 0..L PROVE f[n] = Next(f, n)
      <3>1. CASE n = 0
        BY <1>3, <3>1 DEF Next
      <3>2. CASE n # 0
        <4>1. n \in 1..L /\ n - 1 \in 0..L
          BY <1>0, <3>2
        <4> DEFINE v == f[n - 1]
        <4>2. v \in Seq(T) /\ f[n] = G[n][v]
          BY <1>3, <4>1
        <4>3. Next(f, n) = IF flat[n] \in ToSet(v) THEN v ELSE Append(v, flat[n])
          BY <3>2 DEF Next
        <4> HIDE DEF v
        <4> QED BY <1>2, <4>1, <4>2, <4>3
      <3> QED BY <3>1, <3>2
    <2>2. f = [n \in 0..L |-> Next(f, n)]
      <3>1. f = [n \in 0..L |-> f[n]]
        BY <1>3
      <3> QED BY <2>1, <3>1
    <2>3. seen = [n \in 0..L |-> Next(seen, n)]
      BY <2>2, Zenon DEF seen
    <2> QED BY <2>2, <2>3
  <1>5. \A n \in 0..L : seen[n] = Next(seen, n)
    BY <1>4
  <1>6. seen[0] = <<>>
    <2>1. 0 \in 0..L
      BY <1>0
    <2> QED BY <1>5, <2>1 DEF Next
  <1>7. ASSUME NEW n \in 1..L
        PROVE  seen[n] = IF flat[n] \in ToSet(seen[n - 1]) THEN seen[n - 1] ELSE Append(seen[n - 1], flat[n])
    <2>1. n \in 0..L /\ n # 0
      BY <1>0
    <2> QED BY <1>5, <2>1 DEF Next
  <1> DEFINE S == {n \in 0..L : seen[n] \in Seq(T)}
  <1>8. \A n \in 0..L : n \in S
    <2>1. 0 \in S
      <3> DEFINE nil == <<>>
      <3>1. 0 \in 0..L /\ nil \in Seq(T) /\ seen[0] = nil
        BY <1>0, <1>6, EmptySeq
      <3> HIDE DEF nil
      <3> QED BY <3>1
    <2>2. ASSUME NEW n \in 1..L, n - 1 \in S PROVE n \in S
      <3> DEFINE v == seen[n - 1]
                 x == flat[n]
      <3>1. n \in 0..L /\ v \in Seq(T) /\ x \in T
        BY <1>0, <2>2
      <3>2. seen[n] = v \/ seen[n] = Append(v, x)
        BY <1>7
      <3> HIDE DEF v, x
      <3>3. Append(v, x) \in Seq(T)
        BY <3>1, AppendProperties
      <3> QED BY <3>1, <3>2, <3>3
    <2> HIDE DEF S
    <2> QED BY <1>0, <2>1, <2>2, Climb
  <1>9. seen \in [0..L -> Seq(T)]
    <2>1. \A n \in 0..L : seen[n] \in Seq(T)
      BY <1>8
    <2> DEFINE g == [n \in 0..L |-> Next(seen, n)]
    <2>2. DOMAIN g = 0..L /\ g = [n \in 0..L |-> g[n]]
      OBVIOUS
    <2>3. seen = g
      BY <1>4
    <2> HIDE DEF g
    <2> QED BY <2>1, <2>2, <2>3
  <1>10. Collects(flat, seen)
    BY <1>6, <1>7 DEF Collects, L
  <1> QED BY <1>1, <1>9, <1>10 DEF flat, L

\* The combined plan: the commands of the plans, each once, the first one first.
LEMMA UniqueIs ==
  ASSUME NEW T, NEW plans \in Seq(Seq(T))
  PROVE  /\ UniqueCommands(plans) \in Seq(T)
         /\ ToSet(UniqueCommands(plans)) = ToSet(FlattenSeq(plans))
         /\ FlattenSeq(plans) # <<>> =>
              UniqueCommands(plans) # <<>> /\ UniqueCommands(plans)[1] = FlattenSeq(plans)[1]
  <1> DEFINE flat == FlattenSeq(plans)
             L == Len(flat)
  <1>0. flat \in Seq(T) /\ L \in Nat /\ DOMAIN flat = 1..L /\ \A i \in 1..L : flat[i] \in T
    BY FlattenIs, LenProperties, ElementOfSeq
  <1>1. PICK seen \in [0..L -> Seq(T)] : Collects(flat, seen) /\ UniqueCommands(plans) = seen[L]
    BY UniqueRuns
  <1> HIDE DEF flat, L
  <1>5. /\ seen[0] = <<>>
        /\ \A n \in 1..L :
             seen[n] = IF flat[n] \in ToSet(seen[n - 1]) THEN seen[n - 1] ELSE Append(seen[n - 1], flat[n])
    BY <1>1 DEF Collects, L
  <1> DEFINE OK(n, v) == /\ v \in Seq(T)
                         /\ ToSet(v) = {flat[i] : i \in 1..n}
                         /\ n > 0 => Len(v) > 0 /\ v[1] = flat[1]
             S == {n \in 0..L : OK(n, seen[n])}
  <1>6. 0 \in S
    <2>1. 0 \in 0..L
      BY <1>0
    <2>2. seen[0] = <<>>
      BY <1>5
    <2>3. ToSet(<<>>) = {} /\ <<>> \in Seq(T)
      BY EmptySeq DEF ToSet
    <2>4. {flat[i] : i \in 1..0} = {}
      OBVIOUS
    <2>5. OK(0, <<>>)
      BY <2>3, <2>4
    <2> HIDE DEF OK
    <2> QED BY <2>1, <2>2, <2>5
  <1>7. ASSUME NEW n \in 1..L, n - 1 \in S PROVE n \in S
    <2> DEFINE v == seen[n - 1]
               x == flat[n]
    <2>0. n \in Nat /\ n > 0 /\ n \in 0..L /\ n # 0 /\ x \in T /\ n - 1 \in Nat
      BY <1>0
    <2>1. seen[n] = IF x \in ToSet(v) THEN v ELSE Append(v, x)
      BY <1>5
    <2>2. OK(n - 1, v)
      BY <1>7
    <2>3. {flat[i] : i \in 1..n} = {flat[i] : i \in 1..(n - 1)} \cup {x}
      <3>1. 1..n = 1..(n - 1) \cup {n}
        BY <2>0
      <3> QED BY <3>1
    <2> HIDE DEF v, x
    <2>4. Len(v) \in Nat /\ (n = 1 => Len(v) = 0) /\ (Len(v) = 0 => ToSet(v) = {}) /\ DOMAIN v = 1..Len(v)
      <3>1. Len(v) \in Nat /\ DOMAIN v = 1..Len(v)
        BY <2>2, LenProperties
      <3>2. n = 1 => ToSet(v) = {}
        <4>1. n = 1 => 1..(n - 1) = {}
          OBVIOUS
        <4> QED BY <2>2, <4>1
      <3>3. Len(v) # 0 => v[1] \in ToSet(v)
        BY <3>1 DEF ToSet
      <3>4. Len(v) = 0 => ToSet(v) = {}
        BY <3>1 DEF ToSet
      <3> QED BY <3>1, <3>2, <3>3, <3>4
    <2>5. CASE x \in ToSet(v)
      <3>1. ToSet(v) = {flat[i] : i \in 1..n}
        BY <2>2, <2>3, <2>5
      <3>2. Len(v) > 0 /\ v[1] = flat[1]
        BY <2>0, <2>2, <2>4, <2>5
      <3>3. OK(n, v)
        BY <2>2, <3>1, <3>2
      <3> HIDE DEF OK
      <3> QED BY <2>0, <2>1, <2>5, <3>3
    <2>6. CASE x \notin ToSet(v)
      <3> DEFINE w == Append(v, x)
      <3>1. /\ w \in Seq(T) /\ Len(w) = Len(v) + 1 /\ DOMAIN w = 1..(Len(v) + 1)
            /\ \A i \in 1..Len(v) : w[i] = v[i]
            /\ w[Len(v) + 1] = x
            /\ ToSet(w) = ToSet(v) \cup {x}
        BY <2>0, <2>2, AppendLines
      <3> HIDE DEF w
      <3>2. ToSet(w) = ToSet(v) \cup {x}
        BY <3>1
      <3>3. ToSet(w) = {flat[i] : i \in 1..n}
        BY <2>2, <2>3, <3>2
      <3>4. Len(w) > 0 /\ w[1] = flat[1]
        <4>1. CASE n = 1
          BY <2>4, <3>1, <4>1 DEF x
        <4>2. CASE n # 1
          BY <2>0, <2>2, <2>4, <3>1, <4>2
        <4> QED BY <4>1, <4>2
      <3>5. seen[n] = w
        BY <2>1, <2>6 DEF w
      <3>6. OK(n, w)
        BY <3>1, <3>3, <3>4
      <3> HIDE DEF OK
      <3> QED BY <2>0, <3>5, <3>6
    <2> QED BY <2>5, <2>6
  <1>8. L \in S
    <2> HIDE DEF S
    <2>1. \A n \in 1..L : n - 1 \in S => n \in S
      BY <1>7
    <2>2. L \in 0..L
      BY <1>0
    <2> QED BY <1>0, <1>6, <2>1, <2>2, Climb
  <1>9. OK(L, seen[L])
    BY <1>8
  <1>10. ToSet(flat) = {flat[i] : i \in 1..L}
    BY <1>0 DEF ToSet
  <1>11. flat # <<>> => L > 0
    BY <1>0, EmptySeq DEF L
  <1>12. seen[L] # <<>> \/ Len(seen[L]) = 0
    BY EmptySeq
  <1> QED BY <1>0, <1>1, <1>9, <1>10, <1>11, <1>12 DEF flat

\* What comes before a command in the list of all comes before it in the plan.
Ordered(v, c, E) == \A k \in 1..Len(v) : v[k] = c => \A j \in 1..(k - 1) : v[j] \in E

LEMMA UniqueOrder ==
  ASSUME NEW T, NEW plans \in Seq(Seq(T)), NEW E, NEW c, c \notin E,
         NEW m \in 1..Len(FlattenSeq(plans)), FlattenSeq(plans)[m] = c,
         \A i \in 1..(m - 1) : FlattenSeq(plans)[i] \in E
  PROVE  Ordered(UniqueCommands(plans), c, E)
  <1> DEFINE flat == FlattenSeq(plans)
             L == Len(flat)
  <1>0. /\ flat \in Seq(T) /\ L \in Nat /\ \A i \in 1..L : flat[i] \in T
        /\ m \in 1..L /\ flat[m] = c /\ \A i \in 1..(m - 1) : flat[i] \in E
    BY FlattenIs, LenProperties, ElementOfSeq
  <1>1. PICK seen \in [0..L -> Seq(T)] : Collects(flat, seen) /\ UniqueCommands(plans) = seen[L]
    BY UniqueRuns
  <1> HIDE DEF flat, L
  <1>2. /\ seen[0] = <<>>
        /\ \A n \in 1..L :
             seen[n] = IF flat[n] \in ToSet(seen[n - 1]) THEN seen[n - 1] ELSE Append(seen[n - 1], flat[n])
    BY <1>1 DEF Collects, L
  <1> DEFINE OK(n, v) == /\ Ordered(v, c, E)
                         /\ n < m => ToSet(v) \subseteq E
                         /\ n >= m => c \in ToSet(v)
             S == {n \in 0..L : OK(n, seen[n])}
  <1>3. 0 \in S
    <2>1. 0 \in 0..L /\ 0 < m /\ m \in Nat
      BY <1>0
    <2>2. ToSet(<<>>) = {} /\ Len(<<>>) = 0
      BY DEF ToSet
    <2>3. OK(0, <<>>)
      BY <2>1, <2>2 DEF Ordered
    <2> HIDE DEF OK
    <2> QED BY <1>2, <2>1, <2>3
  <1>4. ASSUME NEW n \in 1..L, n - 1 \in S PROVE n \in S
    <2> DEFINE v == seen[n - 1]
               x == flat[n]
    <2>1. v \in Seq(T) /\ x \in T /\ n \in 0..L /\ n \in Nat /\ m \in Nat
      <3>1. n - 1 \in 0..L
        BY <1>0
      <3> QED BY <1>0, <1>1, <3>1
    <2>2. seen[n] = IF x \in ToSet(v) THEN v ELSE Append(v, x)
      BY <1>2
    <2>3. OK(n - 1, v)
      BY <1>4
    <2>4. (n < m => x \in E) /\ (n = m => x = c)
      <3>1. n < m => n \in 1..(m - 1)
        BY <2>1
      <3> QED BY <1>0, <3>1
    <2> HIDE DEF v, x
    <2>5. CASE x \in ToSet(v)
      <3>1. OK(n, v)
        <4>1. n < m => ToSet(v) \subseteq E
          BY <2>1, <2>3
        <4>2. n >= m => c \in ToSet(v)
          BY <2>1, <2>3, <2>4, <2>5
        <4> QED BY <2>3, <4>1, <4>2
      <3> HIDE DEF OK
      <3> QED BY <2>1, <2>2, <2>5, <3>1
    <2>6. CASE x \notin ToSet(v)
      <3> DEFINE w == Append(v, x)
                 k == Len(v)
      <3>1. /\ ToSet(w) = ToSet(v) \cup {x} /\ k \in Nat /\ DOMAIN v = 1..k /\ Len(w) = k + 1
            /\ \A i \in 1..k : w[i] = v[i]
            /\ w[k + 1] = x
        BY <2>1, AppendLines
      <3> HIDE DEF w, k
      <3>2. (n < m => ToSet(w) \subseteq E) /\ (n >= m => c \in ToSet(w))
        BY <2>1, <2>3, <2>4, <3>1
      <3>3. ASSUME NEW i \in 1..(k + 1), w[i] = c, NEW j \in 1..(i - 1) PROVE w[j] \in E
        <4>1. CASE i # k + 1
          <5>1. i \in 1..k /\ j \in 1..k
            BY <3>1, <4>1
          <5> QED BY <2>3, <3>1, <3>3, <5>1 DEF Ordered, k
        <4>2. CASE i = k + 1
          <5>1. x = c /\ j \in 1..k
            BY <3>1, <3>3, <4>2
          <5>2. n <= m
            BY <2>1, <2>3, <2>6, <5>1
          <5>3. n - 1 < m
            BY <2>1, <5>2
          <5>4. v[j] \in ToSet(v)
            BY <3>1, <5>1 DEF ToSet
          <5> QED BY <2>3, <3>1, <5>1, <5>3, <5>4
        <4> QED BY <4>1, <4>2
      <3>4. Ordered(w, c, E)
        BY <3>1, <3>3 DEF Ordered
      <3>5. OK(n, w)
        BY <3>2, <3>4
      <3>6. seen[n] = w
        BY <2>2, <2>6 DEF w
      <3> HIDE DEF OK
      <3> QED BY <2>1, <3>5, <3>6
    <2> QED BY <2>5, <2>6
  <1>5. L \in S
    <2> HIDE DEF S
    <2>1. \A n \in 1..L : n - 1 \in S => n \in S
      BY <1>4
    <2>2. L \in 0..L
      BY <1>0
    <2> QED BY <1>0, <1>3, <2>1, <2>2, Climb
  <1> QED BY <1>1, <1>5

-----------------------------------------------------------------------------
(* The policy.                                                             *)
IsRead(c) == c = Quiet \/ \E x : c = Show(x)

\* What a plan may ask before the statuses.
Early            == {Quiet, Show("version"), Show("hostname")}
EarlyStatuses(s) == StatusTable \in ToSet(s) =>
                      \E m \in DOMAIN s : s[m] = StatusTable /\ \A i \in 1..(m - 1) : s[i] \in Early
EarlyTables(t)   == \/ \A i \in DOMAIN t : t[i] # "interfaces status"
                    \/ \E m \in DOMAIN t : /\ t[m] = "interfaces status"
                                          /\ \A i \in 1..(m - 1) : t[i] \in {"version", "hostname"}
ReadPlan(s) ==
  s # <<>> /\ s \in Seq(ToSet(s)) /\ s[1] = Quiet /\ (\A c \in ToSet(s) : IsRead(c)) /\ EarlyStatuses(s)

IsSeq(t) == \E T : t \in Seq(T)

LEMMA Tuples ==
  ASSUME NEW a, NEW b, NEW c, NEW d, NEW e, NEW f
  PROVE  /\ IsSeq(<<a, b>>) /\ IsSeq(<<a, b, c>>) /\ IsSeq(<<a, b, c, d>>)
         /\ IsSeq(<<a, b, c, d, e, f>>)
  <1>1. <<a, b>> \in Seq({a, b}) /\ <<a, b, c>> \in Seq({a, b, c})
    OBVIOUS
  <1>2. <<a, b, c, d>> \in Seq({a, b, c, d})
    OBVIOUS
  <1>3. <<a, b, c, d, e, f>> \in Seq({a, b, c, d, e, f})
    OBVIOUS
  <1> QED BY <1>1, <1>2, <1>3 DEF IsSeq

\* The tables of a plan: no statuses, or none but harmless ones before them.
LEMMA TupleOrders ==
  ASSUME NEW a, NEW b, NEW c, NEW d, NEW e, NEW f
  PROVE  LET status == "interfaces status"
         IN  /\ status \notin {a, b}             => EarlyTables(<<a, b>>)
             /\ status \notin {a, b, c}          => EarlyTables(<<a, b, c>>)
             /\ status \notin {a, b, c, d}       => EarlyTables(<<a, b, c, d>>)
             /\ status \notin {a, b, c, d, e, f} => EarlyTables(<<a, b, c, d, e, f>>)
             /\ EarlyTables(<<status, a, b>>)
             /\ {a, b} \subseteq {"version", "hostname"} => EarlyTables(<<a, b, status, c>>)
  <1> DEFINE status == "interfaces status"
  <1>1. status \notin {a, b} => EarlyTables(<<a, b>>)
    <2>1. DOMAIN <<a, b>> = 1..2 /\ \A i \in 1..2 : <<a, b>>[i] \in {a, b}
      OBVIOUS
    <2> QED BY <2>1, Zenon DEF EarlyTables
  <1>2. status \notin {a, b, c} => EarlyTables(<<a, b, c>>)
    <2>1. DOMAIN <<a, b, c>> = 1..3 /\ \A i \in 1..3 : <<a, b, c>>[i] \in {a, b, c}
      OBVIOUS
    <2> QED BY <2>1, Zenon DEF EarlyTables
  <1>3. status \notin {a, b, c, d} => EarlyTables(<<a, b, c, d>>)
    <2>1. DOMAIN <<a, b, c, d>> = 1..4 /\ \A i \in 1..4 : <<a, b, c, d>>[i] \in {a, b, c, d}
      OBVIOUS
    <2> QED BY <2>1, Zenon DEF EarlyTables
  <1>4. status \notin {a, b, c, d, e, f} => EarlyTables(<<a, b, c, d, e, f>>)
    <2>1. DOMAIN <<a, b, c, d, e, f>> = 1..6 /\ \A i \in 1..6 : <<a, b, c, d, e, f>>[i] \in {a, b, c, d, e, f}
      OBVIOUS
    <2> QED BY <2>1, Zenon DEF EarlyTables
  <1>5. EarlyTables(<<status, a, b>>)
    <2> DEFINE t == <<status, a, b>>
    <2>1. DOMAIN t = 1..3 /\ t[1] = status
      OBVIOUS
    <2> HIDE DEF t
    <2>2. 1 \in 1..3 /\ 1..(1 - 1) = {}
      OBVIOUS
    <2>3. 1 \in DOMAIN t /\ \A i \in 1..(1 - 1) : t[i] \in {"version", "hostname"}
      BY <2>1, <2>2
    <2>4. EarlyTables(t)
      BY <2>1, <2>3, Zenon DEF EarlyTables
    <2> QED BY <2>4 DEF t
  <1>6. ASSUME {a, b} \subseteq {"version", "hostname"} PROVE EarlyTables(<<a, b, status, c>>)
    <2> DEFINE t == <<a, b, status, c>>
    <2>1. DOMAIN t = 1..4 /\ t[3] = status /\ t[1] = a /\ t[2] = b
      OBVIOUS
    <2> HIDE DEF t
    <2>2. 3 \in 1..4 /\ \A i \in 1..(3 - 1) : i = 1 \/ i = 2
      OBVIOUS
    <2>3. \A i \in 1..(3 - 1) : t[i] \in {"version", "hostname"}
      BY <1>6, <2>1, <2>2
    <2>4. EarlyTables(t)
      BY <2>1, <2>2, <2>3, Zenon DEF EarlyTables
    <2> QED BY <2>4 DEF t
  <1> QED BY <1>1, <1>2, <1>3, <1>4, <1>5, <1>6

LEMMA ReadingIs ==
  ASSUME NEW t, IsSeq(t), EarlyTables(t)
  PROVE  ReadPlan(Reading(t)) /\ \A i \in DOMAIN t : Show(t[i]) \in ToSet(Reading(t))
  <1> DEFINE shows == [i \in DOMAIN t |-> Show(t[i])]
             C == {Quiet} \cup {Show(t[i]) : i \in DOMAIN t}
             first == <<Quiet>>
             s == first \o shows
  <1>0. Len(t) \in Nat /\ DOMAIN t = 1..Len(t)
    BY LenProperties DEF IsSeq
  <1>1. Quiet \in C /\ (\A i \in DOMAIN t : Show(t[i]) \in C) /\ \A c \in C : IsRead(c)
    BY DEF IsRead
  <1> HIDE DEF C
  <1>2. shows \in Seq(C) /\ Len(shows) = Len(t)
    <2>1. shows \in [1..Len(t) -> C]
      BY <1>0, <1>1
    <2> HIDE DEF shows
    <2> QED BY <1>0, <2>1, LenProperties
  <1>3. first \in Seq(C) /\ Len(first) = 1 /\ first[1] = Quiet
    BY <1>1
  <1> HIDE DEF shows, first
  <1>4. /\ s \in Seq(C) /\ Len(s) = 1 + Len(t)
        /\ \A i \in 1..(1 + Len(t)) : s[i] = IF i <= 1 THEN first[i] ELSE shows[i - 1]
    <2>1. /\ s \in Seq(C) /\ Len(s) = Len(first) + Len(shows)
          /\ \A i \in 1..(Len(first) + Len(shows)) :
               s[i] = IF i <= Len(first) THEN first[i] ELSE shows[i - Len(first)]
      BY <1>2, <1>3, ConcatProperties
    <2> QED BY <1>2, <1>3, <2>1
  <1> HIDE DEF s
  <1>5. DOMAIN s = 1..(1 + Len(t)) /\ s[1] = Quiet
    BY <1>0, <1>3, <1>4, LenProperties
  <1>6. \A i \in 1..Len(s) : s[i] \in C
    BY <1>4, ElementOfSeq
  <1>7. ToSet(s) \subseteq C
    BY <1>4, <1>5, <1>6 DEF ToSet
  <1>8. s \in Seq(ToSet(s))
    <2>1. \A i \in DOMAIN s : s[i] \in ToSet(s)
      BY DEF ToSet
    <2>2. s = [i \in 1..Len(s) |-> s[i]]
      BY <1>4, <1>5
    <2>3. \A i \in 1..Len(s) : s[i] \in ToSet(s)
      BY <1>4, <1>5, <2>1
    <2>4. Len(s) \in Nat
      BY <1>4, LenProperties
    <2> QED BY <2>2, <2>3, <2>4
  <1>9. s # <<>>
    BY <1>0, <1>4
  <1>10. \A i \in DOMAIN t : i + 1 \in DOMAIN s /\ s[i + 1] = Show(t[i])
    <2>1. \A i \in DOMAIN t : shows[i] = Show(t[i])
      BY DEF shows
    <2>2. \A i \in DOMAIN t : i + 1 \in 1..(1 + Len(t)) /\ ~(i + 1 <= 1) /\ (i + 1) - 1 = i
      BY <1>0
    <2> QED BY <1>4, <1>5, <2>1, <2>2
  <1>11. \A i \in DOMAIN t : Show(t[i]) \in ToSet(s)
    BY <1>10 DEF ToSet
  <1>12. EarlyStatuses(s)
    <2>1. CASE \A i \in DOMAIN t : t[i] # "interfaces status"
      <3>1. StatusTable # Quiet /\ \A i \in DOMAIN t : Show(t[i]) # StatusTable
        BY <2>1 DEF StatusTable, Quiet, Show
      <3>2. \A i \in DOMAIN s : i = 1 \/ (i - 1 \in DOMAIN t /\ (i - 1) + 1 = i)
        BY <1>0, <1>5
      <3>3. \A i \in DOMAIN s : s[i] # StatusTable
        BY <1>5, <1>10, <3>1, <3>2
      <3> QED BY <3>3 DEF EarlyStatuses, ToSet
    <2>2. CASE \E m \in DOMAIN t : t[m] = "interfaces status" /\ \A i \in 1..(m - 1) : t[i] \in {"version", "hostname"}
      <3>1. PICK m \in DOMAIN t : t[m] = "interfaces status" /\ \A i \in 1..(m - 1) : t[i] \in {"version", "hostname"}
        BY <2>2
      <3>2. m + 1 \in DOMAIN s /\ s[m + 1] = StatusTable
        BY <1>10, <3>1 DEF Show, StatusTable
      <3>3. ASSUME NEW i \in 1..((m + 1) - 1) PROVE s[i] \in Early
        <4>1. CASE i = 1
          BY <1>5, <4>1 DEF Early
        <4>2. CASE i # 1
          <5>0. m \in 1..Len(t) /\ m \in Nat /\ Len(t) \in Nat /\ i \in 1..m
            <6>1. m \in 1..Len(t) /\ m \in Nat
              BY <1>0
            <6>2. (m + 1) - 1 = m
              BY <6>1
            <6> QED BY <1>0, <6>1, <6>2
          <5>1. i - 1 \in 1..(m - 1) /\ i - 1 \in DOMAIN t /\ (i - 1) + 1 = i
            BY <1>0, <4>2, <5>0
          <5>2. s[i] = Show(t[i - 1])
            BY <1>10, <5>1
          <5>3. t[i - 1] \in {"version", "hostname"}
            BY <3>1, <5>1
          <5> QED BY <5>2, <5>3 DEF Early
        <4> QED BY <4>1, <4>2
      <3> QED BY <3>2, <3>3 DEF EarlyStatuses
    <2> QED BY <2>1, <2>2 DEF EarlyTables
  <1>13. ReadPlan(s)
    BY <1>1, <1>5, <1>7, <1>8, <1>9, <1>12 DEF ReadPlan
  <1> QED BY <1>11, <1>13 DEF Reading, s, first, shows

\* Every plan of the table turns paging off first and then only shows.
LEMMA PlansRead ==
  ASSUME NEW vendor \in Vendors, NEW p \in AllowedPurposes(vendor)
  PROVE  /\ ReadPlan(READ_ONLY_COMMANDS[vendor][p])
         /\ p = "interfaces" => StatusTable \in ToSet(READ_ONLY_COMMANDS[vendor][p])
  <1> HIDE DEF ReadPlan
  <1>1. /\ IsSeq(EndpointTables) /\ EarlyTables(EndpointTables)
        /\ IsSeq(<<"interfaces status">> \o EndpointTables) /\ EarlyTables(<<"interfaces status">> \o EndpointTables)
    <2> DEFINE T == {"interfaces status", "interfaces description", "mac address-table", "ip arp"}
               u == <<"interfaces status">>
               w == u \o EndpointTables
    <2>1. EndpointTables \in Seq(T) /\ Len(EndpointTables) = 3
      BY DEF EndpointTables
    <2>2. EarlyTables(EndpointTables)
      BY TupleOrders DEF EndpointTables
    <2>3. u \in Seq(T) /\ Len(u) = 1 /\ u[1] = "interfaces status"
      OBVIOUS
    <2> HIDE DEF u
    <2>4. w \in Seq(T) /\ Len(w) = 4 /\ w[1] = "interfaces status"
      <3> DEFINE e == EndpointTables
      <3>1. e \in Seq(T) /\ Len(e) = 3
        BY <2>1
      <3> HIDE DEF e, T
      <3>2. /\ u \o e \in Seq(T) /\ Len(u \o e) = Len(u) + Len(e)
            /\ \A i \in 1..(Len(u) + Len(e)) : (u \o e)[i] = IF i <= Len(u) THEN u[i] ELSE e[i - Len(u)]
        BY <2>3, <3>1, ConcatProperties
      <3>3. Len(u) + Len(e) = 4 /\ 1 \in 1..4 /\ 1 <= Len(u)
        <4>1. Len(u) = 1 /\ Len(e) = 3
          BY <2>3, <3>1, Zenon
        <4>2. 1 \in 1..4
          OBVIOUS
        <4> HIDE DEF w
        <4> QED BY <4>1, <4>2
      <3>4. w = u \o e
        BY DEF e
      <3> HIDE DEF w
      <3> QED BY <2>3, <3>1, <3>2, <3>3, <3>4
    <2> HIDE DEF w
    <2>5. DOMAIN w = 1..4
      <3> HIDE DEF T
      <3> QED BY <2>4, LenProperties
    <2>6. EarlyTables(w)
      <3>1. 1 \in DOMAIN w /\ \A i \in 1..(1 - 1) : w[i] \in {"version", "hostname"}
        BY <2>5
      <3> QED BY <2>4, <3>1 DEF EarlyTables
    <2> QED BY <2>1, <2>2, <2>4, <2>6 DEF IsSeq, u, w
  <1>2. /\ ReadPlan(CommonPurposes.endpoints)
        /\ ReadPlan(CommonPurposes.port_endpoints)
        /\ ReadPlan(CommonPurposes.interfaces)
        /\ StatusTable \in ToSet(CommonPurposes.interfaces)
    <2>1. /\ CommonPurposes.endpoints = Reading(EndpointTables)
          /\ CommonPurposes.port_endpoints = Reading(<<"interfaces status">> \o EndpointTables)
          /\ CommonPurposes.interfaces = Reading(<<"interfaces status", "interfaces counters errors",
                                                   "interfaces description">>)
      BY DEF CommonPurposes
    <2> DEFINE t == <<"interfaces status", "interfaces counters errors", "interfaces description">>
    <2>2. IsSeq(t) /\ EarlyTables(t) /\ 1 \in DOMAIN t /\ t[1] = "interfaces status"
      <3>1. IsSeq(t) /\ EarlyTables(t)
        BY Tuples, TupleOrders
      <3>2. DOMAIN t = 1..3 /\ t[1] = "interfaces status"
        OBVIOUS
      <3>3. 1 \in 1..3
        OBVIOUS
      <3> QED BY <3>1, <3>2, <3>3, Zenon
    <2> HIDE DEF t
    <2>3. ReadPlan(Reading(t)) /\ StatusTable \in ToSet(Reading(t))
      <3>1. Show(t[1]) = StatusTable
        BY <2>2 DEF Show, StatusTable
      <3> QED BY <2>2, <3>1, ReadingIs
    <2>4. ReadPlan(Reading(EndpointTables)) /\ ReadPlan(Reading(<<"interfaces status">> \o EndpointTables))
      BY <1>1, ReadingIs
    <2> QED BY <2>1, <2>3, <2>4 DEF t
  <1>3. CASE vendor = "cisco"
    <2> DEFINE R == READ_ONLY_COMMANDS["cisco"]
    <2>1. DOMAIN R = {"baseline", "endpoints", "port_endpoints", "interfaces", "topology", "switching"}
      BY DEF READ_ONLY_COMMANDS
    <2>2. R["baseline"] = Reading(<<"version", "ip interface brief", "interfaces description">>)
      BY DEF READ_ONLY_COMMANDS
    <2>3. R["endpoints"] = CommonPurposes.endpoints
      BY DEF READ_ONLY_COMMANDS
    <2>4. R["port_endpoints"] = CommonPurposes.port_endpoints
      BY DEF READ_ONLY_COMMANDS
    <2>5. R["interfaces"] = CommonPurposes.interfaces
      BY DEF READ_ONLY_COMMANDS
    <2>6. R["topology"] = Reading(<<"cdp neighbors", "cdp neighbors detail",
                                   "lldp neighbors", "lldp neighbors detail">>)
      BY DEF READ_ONLY_COMMANDS
    <2>7. R["switching"] = Reading(<<"etherchannel summary", "interfaces trunk", "spanning-tree",
                                   "mac address-table", "ip arp", "vlan brief">>)
      BY DEF READ_ONLY_COMMANDS
    <2> HIDE DEF R
    <2>8. ReadPlan(R["baseline"]) /\ ReadPlan(R["topology"]) /\ ReadPlan(R["switching"])
      BY <2>2, <2>6, <2>7, ReadingIs, Tuples, TupleOrders
    <2>10. p \in DOMAIN R
      BY <1>3 DEF AllowedPurposes, R
    <2> QED BY <1>2, <1>3, <2>1, <2>3, <2>4, <2>5, <2>8, <2>10 DEF R
  <1>4. CASE vendor = "arista"
    <2> DEFINE R == READ_ONLY_COMMANDS["arista"]
    <2>1. DOMAIN R = {"baseline", "endpoints", "port_endpoints", "interfaces", "topology",
                      "security_logs", "switching"}
      BY DEF READ_ONLY_COMMANDS
    <2>2. R["baseline"] = Reading(<<"hostname", "version", "interfaces status",
                                   "interfaces description">>)
      BY DEF READ_ONLY_COMMANDS
    <2>3. R["endpoints"] = CommonPurposes.endpoints
      BY DEF READ_ONLY_COMMANDS
    <2>4. R["port_endpoints"] = CommonPurposes.port_endpoints
      BY DEF READ_ONLY_COMMANDS
    <2>5. R["interfaces"] = CommonPurposes.interfaces
      BY DEF READ_ONLY_COMMANDS
    <2>6. R["topology"] = Reading(<<"lldp neighbors", "lldp neighbors detail">>)
      BY DEF READ_ONLY_COMMANDS
    <2>7. R["security_logs"] = Reading(<<"logging", "users">>)
      BY DEF READ_ONLY_COMMANDS
    <2>8. R["switching"] = Reading(<<"port-channel summary", "interfaces switchport", "vlan",
                                   "spanning-tree", "mac address-table", "ip arp">>)
      BY DEF READ_ONLY_COMMANDS
    <2> HIDE DEF R
    <2>10. /\ ReadPlan(R["baseline"]) /\ ReadPlan(R["topology"])
           /\ ReadPlan(R["security_logs"]) /\ ReadPlan(R["switching"])
      BY <2>2, <2>6, <2>7, <2>8, ReadingIs, Tuples, TupleOrders
    <2>11. p \in DOMAIN R
      BY <1>4 DEF AllowedPurposes, R
    <2> QED BY <1>2, <1>4, <2>1, <2>3, <2>4, <2>5, <2>10, <2>11 DEF R
  <1>5. vendor \in {"cisco", "arista"}
    BY DEF Vendors, READ_ONLY_COMMANDS
  <1> QED BY <1>3, <1>4, <1>5

LEMMA AllowedRead == ASSUME NEW vendor, NEW c \in AllowedCommands(vendor) PROVE IsRead(c)
  <1>1. PICK p \in AllowedPurposes(vendor) : c \in ToSet(READ_ONLY_COMMANDS[vendor][p])
    BY DEF AllowedCommands
  <1>2. vendor \in Vendors
    BY <1>1 DEF AllowedPurposes
  <1> QED BY <1>1, <1>2, PlansRead DEF ReadPlan

LEMMA ReadsAre ==
  ASSUME NEW c, IsRead(c)
  PROVE  c[1] \notin BlockedWords /\ c \notin {User, Password, Exit, Space}
  <1>1. c[1] \in {"terminal", "show"}
    <2>1. CASE c = Quiet
      BY <2>1 DEF Quiet
    <2>2. CASE \E x : c = Show(x)
      <3>1. PICK x : c = <<"show", x>>
        BY <2>2 DEF Show
      <3> QED BY <3>1
    <2> QED BY <2>1, <2>2 DEF IsRead
  <1>2. {"terminal", "show"} \cap BlockedWords = {}
    BY DEF BlockedWords
  <1>3. User[1] = "user" /\ Password[1] = "password" /\ Exit[1] = "exit" /\ Space[1] = "space"
    BY DEF User, Password, Exit, Space
  <1> QED BY <1>1, <1>2, <1>3

\* Every plan that build_command_plan returns passes validate_commands, and it
\* turns paging off before anything else: the tables of policy.py allow no
\* command that their own list of blocked words rejects.
THEOREM PlansPassTheirPolicy ==
  \A vendor, purpose : \A commands \in Plans(vendor, purpose) :
    Valid(vendor, commands) /\ Head(commands) = Quiet
  <1> SUFFICES ASSUME NEW vendor, NEW purpose, NEW commands \in Plans(vendor, purpose)
               PROVE  Valid(vendor, commands) /\ Head(commands) = Quiet
    OBVIOUS
  <1>1. PICK p \in AllowedPurposes(vendor) : commands = READ_ONLY_COMMANDS[vendor][p]
    BY DEF Plans
  <1>2. vendor \in Vendors
    BY <1>1 DEF AllowedPurposes
  <1>3. ReadPlan(commands)
    BY <1>1, <1>2, PlansRead
  <1>4. ToSet(commands) \subseteq AllowedCommands(vendor)
    BY <1>1 DEF AllowedCommands
  <1>5. Head(commands) = Quiet
    <2>1. commands \in Seq(ToSet(commands)) /\ commands # <<>> /\ commands[1] = Quiet
      BY <1>3 DEF ReadPlan
    <2> QED BY <2>1
  <1>6. \A c \in ToSet(commands) : c[1] \notin BlockedWords
    BY <1>3, ReadsAre DEF ReadPlan
  <1> QED BY <1>2, <1>4, <1>5, <1>6 DEF Valid

LEMMA SingleIsValid ==
  ASSUME NEW commands, Valid(Vendor, commands), NEW c \in ToSet(commands)
  PROVE  Valid(Vendor, <<c>>)
  BY DEF Valid, ToSet

\* No plan that write_policy.py builds passes validate_commands, for any vendor,
\* interface and state: a change cannot be sent through the collector.
THEOREM ChangesAreNeverValid ==
  \A vendor, i, state : ~Valid(vendor, ChangeCommands(i, state))
  <1> SUFFICES ASSUME NEW vendor, NEW i, NEW state, Valid(vendor, ChangeCommands(i, state))
               PROVE  FALSE
    OBVIOUS
  <1>1. <<"configure", "terminal">> \in ToSet(ChangeCommands(i, state))
    <2>1. ASSUME NEW a, NEW b, NEW c, NEW d PROVE a \in ToSet(<<a, b, c, d>>)
      <3> DEFINE t == <<a, b, c, d>>
      <3>1. DOMAIN t = 1..4 /\ t[1] = a
        OBVIOUS
      <3>2. 1 \in 1..4
        OBVIOUS
      <3> QED BY <3>1, <3>2, Zenon DEF ToSet
    <2> QED BY <2>1, Zenon DEF ChangeCommands
  <1>2. "configure" \notin BlockedWords
    BY <1>1 DEF Valid
  <1> QED BY <1>2 DEF BlockedWords

LEMMA SeqWithin ==
  ASSUME NEW T, NEW s \in Seq(T), NEW L, ToSet(s) \subseteq L
  PROVE  s \in Seq(L)
  <1>1. Len(s) \in Nat /\ DOMAIN s = 1..Len(s)
    BY LenProperties
  <1>2. \A i \in 1..Len(s) : s[i] \in L
    BY <1>1 DEF ToSet
  <1>3. s = [i \in 1..Len(s) |-> s[i]]
    BY <1>1
  <1> QED BY <1>1, <1>2, <1>3

\* What a caller hands over is a list of lists, and the first of them, if it
\* passes the policy, asks the statuses early, or is the only one.
LEMMA OfferIs ==
  ASSUME NEW o \in Offers
  PROVE  /\ o # <<>> /\ \E T : o \in Seq(Seq(T))
         /\ Valid(Vendor, o[1]) => ReadPlan(o[1]) /\ (StatusTable \in ToSet(o[1]) \/ Len(o) = 1)
  <1> HIDE DEF ReadPlan
  <1>1. ASSUME NEW v \in Vendors, NEW p, NEW commands \in Plans(v, p)
        PROVE  /\ ReadPlan(commands) /\ commands \in Seq(ToSet(commands))
               /\ p = "interfaces" => StatusTable \in ToSet(commands)
    <2>1. p \in AllowedPurposes(v) /\ commands = READ_ONLY_COMMANDS[v][p]
      BY <1>1 DEF Plans
    <2> QED BY <2>1, PlansRead DEF ReadPlan
  <1>2. ASSUME NEW c, NEW T, c \in Seq(T), o = <<c>>
        PROVE  o # <<>> /\ o \in Seq(Seq(T)) /\ o[1] = c /\ Len(o) = 1
    <2> DEFINE V == Seq(T)
    <2>1. c \in V
      BY <1>2
    <2> HIDE DEF V
    <2>2. <<c>> \in Seq(V) /\ <<c>> # <<>> /\ <<c>>[1] = c /\ Len(<<c>>) = 1
      BY <2>1
    <2> QED BY <1>2, <2>2 DEF V
  <1>3. CASE \E v \in Vendors : \E p \in AllowedPurposes(v) : \E commands \in Plans(v, p) : o = <<commands>>
    <2>1. PICK v, p, commands : v \in Vendors /\ commands \in Plans(v, p) /\ o = <<commands>>
      BY <1>3
    <2>2. ReadPlan(commands) /\ commands \in Seq(ToSet(commands))
      BY <1>1, <2>1
    <2> QED BY <1>2, <2>1, <2>2
  <1>4. CASE \E v \in Vendors :
               /\ o \in Seq(ToSet(o)) \ {<<>>} /\ o[1] \in Plans(v, "interfaces")
               /\ \A commands \in ToSet(o) : \E p \in AllowedPurposes(v) : commands \in Plans(v, p)
    <2>1. PICK v \in Vendors :
            /\ o \in Seq(ToSet(o)) \ {<<>>} /\ o[1] \in Plans(v, "interfaces")
            /\ \A commands \in ToSet(o) : \E p \in AllowedPurposes(v) : commands \in Plans(v, p)
      BY <1>4
    <2>2. ReadPlan(o[1]) /\ StatusTable \in ToSet(o[1])
      BY <1>1, <2>1
    <2> DEFINE T == UNION {ToSet(c) : c \in ToSet(o)}
    <2>3. ASSUME NEW c \in ToSet(o) PROVE c \in Seq(T)
      <3>1. c \in Seq(ToSet(c)) /\ ToSet(c) \subseteq T
        BY <1>1, <2>1
      <3> HIDE DEF T
      <3> QED BY <3>1, SeqWithin
    <2> HIDE DEF T
    <2>4. ToSet(o) \subseteq Seq(T)
      BY <2>3
    <2> DEFINE V == Seq(T)
    <2>5. o \in Seq(V)
      <3>1. ToSet(o) \subseteq V
        BY <2>4
      <3> HIDE DEF V
      <3> QED BY <2>1, <3>1, SeqWithin
    <2> QED BY <2>1, <2>2, <2>5
  <1>5. CASE \E x \in Interfaces, state \in AdminStates : o = <<ChangeCommands(x, state)>>
    <2>1. PICK x, state : o = <<ChangeCommands(x, state)>>
      BY <1>5
    <2> DEFINE c == ChangeCommands(x, state)
    <2>2. ASSUME NEW e, NEW f, NEW g, NEW h PROVE <<e, f, g, h>> \in Seq({e, f, g, h})
      OBVIOUS
    <2>3. \E T : c \in Seq(T)
      BY <2>2, Zenon DEF ChangeCommands
    <2>4. ~Valid(Vendor, c)
      BY ChangesAreNeverValid
    <2> HIDE DEF c
    <2>5. o = <<c>>
      BY <2>1 DEF c
    <2> QED BY <1>2, <2>3, <2>4, <2>5
  <1> QED BY <1>3, <1>4, <1>5, OffersAssumption

\* The lines that may be typed.
Logins == {User, Password, Exit, Space}
Lines  == Logins \cup UNION {ToSet(UniqueCommands(o)) : o \in Offers}

\* What is known of a combined plan: if it passes the policy it turns paging off
\* first and asks the statuses early.
LEMMA PlanFacts ==
  ASSUME NEW o \in Offers
  PROVE  /\ UniqueCommands(o) \in Seq(Lines)
         /\ Valid(Vendor, UniqueCommands(o)) =>
              /\ UniqueCommands(o) # <<>> => UniqueCommands(o)[1] = Quiet
              /\ Ordered(UniqueCommands(o), StatusTable, Early)
  <1> DEFINE u == UniqueCommands(o)
             flat == FlattenSeq(o)
             plan1 == o[1]
  <1>1. PICK T : o \in Seq(Seq(T))
    BY OfferIs
  <1>2. u \in Seq(T) /\ ToSet(u) = ToSet(flat) /\ (flat # <<>> => u # <<>> /\ u[1] = flat[1])
    BY <1>1, UniqueIs
  <1>3. u \in Seq(Lines)
    <2>1. ToSet(u) \subseteq Lines
      BY DEF Lines
    <2> HIDE DEF u
    <2> QED BY <1>2, <2>1, SeqWithin
  <1> SUFFICES ASSUME Valid(Vendor, u)
               PROVE  (u # <<>> => u[1] = Quiet) /\ Ordered(u, StatusTable, Early)
    BY <1>3
  <1>4. /\ o # <<>> /\ 1 \in 1..Len(o)
        /\ flat \in Seq(T) /\ ToSet(flat) = UNION {ToSet(o[i]) : i \in 1..Len(o)}
        /\ Begins(flat, plan1)
    <2>1. o # <<>> /\ flat \in Seq(T) /\ ToSet(flat) = UNION {ToSet(o[i]) : i \in 1..Len(o)} /\ Begins(flat, plan1)
      BY <1>1, OfferIs, FlattenIs
    <2>2. 1 \in 1..Len(o)
      <3> DEFINE V == Seq(T)
      <3>1. o \in Seq(V)
        BY <1>1
      <3> HIDE DEF V
      <3>2. Len(o) \in Nat /\ Len(o) # 0
        BY <2>1, <3>1, LenProperties, EmptySeq
      <3> QED BY <3>2
    <2> QED BY <2>1, <2>2
  <1>5. ToSet(plan1) \subseteq ToSet(u)
    BY <1>2, <1>4
  <1>6. Valid(Vendor, plan1)
    BY <1>5 DEF Valid
  <1>7. ReadPlan(plan1) /\ (StatusTable \in ToSet(plan1) \/ Len(o) = 1)
    BY <1>6, OfferIs
  <1> HIDE DEF u, flat, plan1
  <1>8. plan1 # <<>> /\ plan1 \in Seq(ToSet(plan1)) /\ plan1[1] = Quiet /\ EarlyStatuses(plan1)
    BY <1>7 DEF ReadPlan
  <1>9. Len(plan1) \in Nat /\ Len(plan1) # 0 /\ DOMAIN plan1 = 1..Len(plan1) /\ Len(flat) \in Nat
    BY <1>4, <1>8, LenProperties, EmptySeq
  <1>10. Len(plan1) <= Len(flat) /\ \A i \in 1..Len(plan1) : flat[i] = plan1[i]
    BY <1>4 DEF Begins
  <1>11. u[1] = Quiet
    <2>1. 1 \in 1..Len(plan1) /\ Len(flat) # 0
      BY <1>9, <1>10
    <2>2. flat # <<>>
      BY <2>1
    <2> QED BY <1>2, <1>8, <1>10, <2>1, <2>2
  <1>12. Ordered(u, StatusTable, Early)
    <2>1. CASE StatusTable \in ToSet(plan1)
      <3>1. PICK m \in DOMAIN plan1 : plan1[m] = StatusTable /\ \A i \in 1..(m - 1) : plan1[i] \in Early
        BY <1>8, <2>1 DEF EarlyStatuses
      <3>2. m \in 1..Len(flat) /\ m \in 1..Len(plan1) /\ \A i \in 1..(m - 1) : i \in 1..Len(plan1)
        BY <1>9, <1>10
      <3>3. flat[m] = StatusTable /\ \A i \in 1..(m - 1) : flat[i] \in Early
        BY <1>10, <3>1, <3>2
      <3>4. StatusTable \notin Early
        BY DEF StatusTable, Early, Quiet, Show
      <3> QED BY <1>1, <3>2, <3>3, <3>4, UniqueOrder DEF u, flat
    <2>2. CASE StatusTable \notin ToSet(plan1) /\ Len(o) = 1
      <3>1. ToSet(flat) = ToSet(plan1)
        BY <1>4, <2>2 DEF plan1
      <3>2. StatusTable \notin ToSet(u)
        BY <1>2, <2>2, <3>1
      <3>3. \A k \in 1..Len(u) : u[k] # StatusTable
        BY <1>2, <3>2, LenProperties DEF ToSet
      <3> QED BY <3>3 DEF Ordered
    <2> QED BY <1>7, <2>1, <2>2
  <1> QED BY <1>11, <1>12

-----------------------------------------------------------------------------
(* The session.                                                            *)
Allowed(line) == line \in Logins \/ Valid(Vendor, <<line>>)
AllowedLines  == {line \in ToSet(plan) \cup Logins : Allowed(line)}

\* The validated plan is the only source of the commands that are typed.
SesInv ==
  /\ plan \in Seq(Lines)
  /\ next \in Nat \ {0}
  /\ pc \notin {"offered", "done"} => Valid(Vendor, plan)
  /\ typed \in Seq(AllowedLines)
  /\ taken \in Seq(AllowedLines)
  /\ \A line \in ToSet(taken) : line # Space /\ Allowed(line)

LEMMA LoginsAllowed == Logins \subseteq AllowedLines /\ {User, Password, Exit, Space} = Logins
  BY DEF Logins, AllowedLines, Allowed

\* A command of a validated plan may be typed.
LEMMA PlanAllowed ==
  ASSUME plan \in Seq(Lines), Valid(Vendor, plan), NEW n \in Nat \ {0}, n <= Len(plan)
  PROVE  plan[n] \in AllowedLines
  <1>1. n \in DOMAIN plan
    BY LenProperties
  <1>2. plan[n] \in ToSet(plan)
    BY <1>1 DEF ToSet
  <1>3. Valid(Vendor, <<plan[n]>>)
    BY <1>2, SingleIsValid
  <1> QED BY <1>2, <1>3 DEF AllowedLines, Allowed

LEMMA SesInitInv == SesInit => SesInv
  <1> SUFFICES ASSUME SesInit PROVE SesInv
    OBVIOUS
  <1>1. plan \in Seq(Lines)
    BY PlanFacts DEF SesInit
  <1>2. pc = "offered" /\ next = 1 /\ typed = <<>> /\ taken = <<>>
    BY DEF SesInit
  <1>3. ToSet(taken) = {}
    BY <1>2 DEF ToSet
  <1> QED BY <1>1, <1>2, <1>3, EmptySeq DEF SesInv

\* The device takes what was typed and adds it to what it has taken.
LEMMA DeviceInv == ASSUME SesInv, Device PROVE SesInv'
  <1> USE DEF SesInv, Takes, scriptVars
  <1>0. UNCHANGED <<plan, next, pc>> /\ AllowedLines' = AllowedLines
    BY DEF Device, Say, TakeSpace, TakeName, TakePassword, TakeCommand, AllowedLines, Allowed
  <1>1. CASE UNCHANGED <<typed, taken>>
    BY <1>0, <1>1
  <1>2. CASE typed # <<>> /\ typed' = Tail(typed) /\ UNCHANGED taken
    <2>1. Tail(typed) \in Seq(AllowedLines)
      BY <1>2, HeadTailProperties
    <2> QED BY <1>0, <1>2, <2>1
  <1>3. CASE \E line \in ToSet(typed) : TakeCommand(line)
    <2>1. PICK line \in ToSet(typed) : TakeCommand(line)
      BY <1>3
    <2>2. /\ typed # <<>> /\ line = Head(typed) /\ typed' = Tail(typed) /\ line # Space
          /\ taken' = Append(taken, line)
      BY <2>1 DEF TakeCommand
    <2>3. /\ Tail(typed) \in Seq(AllowedLines)
          /\ Head(typed) \in AllowedLines
      BY <2>2, HeadTailProperties
    <2>4. line \in AllowedLines /\ Allowed(line)
      BY <2>2, <2>3 DEF AllowedLines
    <2>5. /\ taken' \in Seq(AllowedLines)
          /\ Len(taken) \in Nat /\ Len(taken') = Len(taken) + 1
          /\ \A i \in 1..Len(taken) : taken'[i] = taken[i]
          /\ taken'[Len(taken) + 1] = line
      BY <2>2, <2>4, AppendProperties
    <2>6. ASSUME NEW l \in ToSet(taken') PROVE l \in ToSet(taken) \/ l = line
      <3>1. PICK i \in 1..Len(taken') : l = taken'[i]
        BY <2>5, <2>6, LenProperties DEF ToSet
      <3>2. CASE i \in 1..Len(taken)
        BY <2>5, <3>1, <3>2, LenProperties DEF ToSet
      <3>3. CASE i = Len(taken) + 1
        BY <2>5, <3>1, <3>3
      <3> QED BY <2>5, <3>2, <3>3
    <2>7. \A l \in ToSet(taken') : l # Space /\ Allowed(l)
      BY <2>2, <2>4, <2>6
    <2> QED BY <1>0, <2>2, <2>3, <2>5, <2>7
  <1> QED BY <1>1, <1>2, <1>3 DEF Device, Say, TakeSpace, TakeName, TakePassword

LEMMA TypeKeeps ==
  ASSUME typed \in Seq(AllowedLines), NEW line \in AllowedLines, Type(line)
  PROVE  typed' \in Seq(AllowedLines)
  BY AppendProperties DEF Type

\* The next command of a validated plan, or the exit, is typed.
LEMMA SendKeeps ==
  ASSUME SesInv, Valid(Vendor, plan), NEW n \in Nat \ {0}, SendCommand(n)
  PROVE  typed' \in Seq(AllowedLines)
  <1>1. typed \in Seq(AllowedLines) /\ Exit \in AllowedLines
    BY LoginsAllowed DEF SesInv, Logins
  <1>2. CASE n <= Len(plan)
    BY <1>1, <1>2, PlanAllowed, TypeKeeps DEF SendCommand, SesInv
  <1>3. CASE ~(n <= Len(plan))
    BY <1>1, <1>3, TypeKeeps DEF SendCommand
  <1> QED BY <1>2, <1>3

LEMMA ScriptInv == ASSUME SesInv, Script PROVE SesInv'
  <1>0. /\ typed \in Seq(AllowedLines)
        /\ {User, Password, Exit, Space} \subseteq AllowedLines
    BY LoginsAllowed DEF SesInv
  <1>1. ASSUME UNCHANGED <<plan, taken>>, next' \in Nat \ {0},
               pc' \notin {"offered", "done"} => Valid(Vendor, plan),
               typed' \in Seq(AllowedLines)
        PROVE  SesInv'
    <2>1. AllowedLines' = AllowedLines
      BY <1>1 DEF AllowedLines, Allowed
    <2> QED BY <1>1, <2>1 DEF SesInv, Allowed
  <1>2. CASE Accept \/ Refuse \/ Receive
    BY <1>0, <1>1, <1>2 DEF SesInv, Accept, Refuse, Receive, Running, deviceVars
  <1>3. CASE Banner \/ Name \/ Blind \/ Login \/ Command \/ NextPage
    <2>1. /\ UNCHANGED <<plan, taken>>
          /\ Valid(Vendor, plan)
          /\ next' \in {next, next + 1}
      BY <1>3 DEF SesInv, Over, deviceVars, Banner, Name, Blind, Login, Command, NextPage
    <2>2. typed' \in Seq(AllowedLines)
      <3>1. CASE \E line \in {User, Password} : Type(line)
        BY <1>0, <3>1, TypeKeeps
      <3>2. CASE UNCHANGED typed
        BY <1>0, <3>2
      <3>3. CASE SendCommand(1) \/ SendCommand(next + 1)
        <4>1. 1 \in Nat \ {0} /\ next + 1 \in Nat \ {0}
          BY DEF SesInv
        <4> QED BY <2>1, <3>3, <4>1, SendKeeps
      <3>4. CASE typed' = <<Space>>
        BY <1>0, <3>4
      <3> QED BY <1>3, <3>1, <3>2, <3>3, <3>4 DEF Banner, Name, Blind, Login, Command, NextPage, Fail
    <2> QED BY <1>1, <2>1, <2>2 DEF SesInv
  <1> QED BY <1>2, <1>3 DEF Script

LEMMA SesStepInv == SesInv /\ [SesNext]_sesVars => SesInv'
  <1> SUFFICES ASSUME SesInv, [SesNext]_sesVars PROVE SesInv'
    OBVIOUS
  <1>1. CASE UNCHANGED sesVars
    BY <1>1 DEF sesVars, scriptVars, deviceVars, SesInv, AllowedLines, Allowed
  <1>2. CASE Hangup \/ Kill \/ Break
    BY <1>2 DEF Hangup, Kill, Break, Running, scriptVars, deviceVars, SesInv, AllowedLines, Allowed
  <1> QED BY <1>1, <1>2, DeviceInv, ScriptInv DEF SesNext

\* Whatever plans were offered, however the login went and whichever timers
\* fired, a device's shell has taken only commands of its vendor's allowlist
\* and misplaced login lines (telnet.py run, validate_commands, and the script).
THEOREM ShellTakesReadOnly == SesSpec => []OnlyReadOnly
  <1>1. SesInv => OnlyReadOnly
    BY DEF SesInv, OnlyReadOnly, Allowed, Logins
  <1> QED BY <1>1, SesInitInv, SesStepInv, PTL DEF SesSpec

-----------------------------------------------------------------------------
(* Types.                                                                  *)
Texts   == Dialogue \cup {Echo(line) : line \in Lines} \cup ToSet(Motd)
             \cup UNION {ToSet(Tables[c]) : c \in DOMAIN Tables}
Section == [cmd : ToSet(plan), text : Seq(Texts)]
LoggingIn == pc \in {"offered", "banner", "name", "blind", "login"}

\* SesTypeOK, with the text that is under way and where in the plan the script is.
TypeInv ==
  /\ SesTypeOK
  /\ got \in Seq(Texts) /\ said \in Seq(Texts) /\ saying \in Seq(Texts) /\ held \in Seq(Texts)
  /\ sections \in Seq(Section)
  /\ LoggingIn => next = 1
  /\ pc \in {"command", "page"} => next <= Len(plan)
  /\ pc # "done" => Len(sections) = next - 1 /\ outcome = "none"

DialogueKinds == {word.kind : word \in Dialogue}

\* What the device prints of its own accord has no word of the dialogue in it.
LEMMA TextIs ==
  ASSUME NEW text \in {Motd} \cup {Tables[c] : c \in DOMAIN Tables}
  PROVE  text \in Seq(Texts) /\ \A i \in 1..Len(text) : text[i].kind \notin DialogueKinds
  <1>1. text \in Seq(ToSet(text)) /\ \A line \in ToSet(text) : line.kind \notin DialogueKinds
    BY SessionAssumption DEF DialogueKinds
  <1>2. ToSet(text) \subseteq Texts
    BY DEF Texts
  <1> HIDE DEF Texts
  <1>3. text \in Seq(Texts)
    BY <1>1, <1>2, SeqWithin
  <1>4. \A i \in 1..Len(text) : text[i] \in ToSet(text)
    BY <1>1, LenProperties DEF ToSet
  <1> QED BY <1>1, <1>3, <1>4

LEMMA TableIs ==
  ASSUME NEW c
  PROVE  Table(c) \in Seq(Texts) /\ \A i \in 1..Len(Table(c)) : Table(c)[i].kind \notin DialogueKinds
  <1>1. CASE c \in DOMAIN Tables
    <2>1. Table(c) = Tables[c]
      BY <1>1 DEF Table
    <2> QED BY <1>1, <2>1, TextIs
  <1>2. CASE c \notin DOMAIN Tables
    BY <1>2, EmptySeq DEF Table
  <1> QED BY <1>1, <1>2

LEMMA TokenTexts ==
  /\ Dialogue \subseteq Texts /\ {Prompt, AskUser, AskPass, Rejected, More} = Dialogue
  /\ \A line \in Lines : Echo(line) \in Texts
  /\ \A x \in Texts : <<x>> \in Seq(Texts)
  /\ <<Rejected, AskUser>> \in Seq(Texts) /\ <<>> \in Seq(Texts)
  /\ \A m : Greeting(m) \in Seq(Texts)
  <1>1. /\ Dialogue \subseteq Texts /\ {Prompt, AskUser, AskPass, Rejected, More} = Dialogue
        /\ \A line \in Lines : Echo(line) \in Texts
    BY DEF Texts, Dialogue
  <1>2. \A x \in Texts : <<x>> \in Seq(Texts)
    OBVIOUS
  <1>3. <<Rejected, AskUser>> \in Seq(Texts) /\ <<>> \in Seq(Texts)
    BY <1>1
  <1>4. ASSUME NEW m PROVE Greeting(m) \in Seq(Texts)
    <2>1. Motd \in Seq(Texts)
      BY TextIs
    <2>2. <<AskUser>> \in Seq(Texts) /\ <<AskPass>> \in Seq(Texts) /\ <<Prompt>> \in Seq(Texts)
      BY <1>1, <1>2
    <2> QED BY <2>1, <2>2, ConcatProperties DEF Greeting
  <1> QED BY <1>1, <1>2, <1>3, <1>4

LEMMA MinIs == ASSUME NEW a \in Int, NEW b \in Int PROVE Min({a, b}) = IF a <= b THEN a ELSE b
  BY DEF Min

LEMMA FiresIs == ASSUME SesTypeOK, Fires PROVE late' \in 0..MaxTimers /\ late' # 0
  <1>1. MaxTimers \in Nat \ {0} /\ late \in 0..MaxTimers
    BY SessionAssumption DEF SesTypeOK
  <1>2. late' = Min({late + 1, MaxTimers})
    BY DEF Fires
  <1>3. late + 1 \in Int /\ MaxTimers \in Int
    BY <1>1
  <1>4. late' = IF late + 1 <= MaxTimers THEN late + 1 ELSE MaxTimers
    BY <1>2, <1>3, MinIs
  <1> QED BY <1>1, <1>4

LEMMA OverIs ==
  ASSUME SesTypeOK, NEW label, Over(label)
  PROVE  /\ late' \in 0..MaxTimers
         /\ (Awaited /\ late' = late) \/ late' # 0
  <1>1. late \in 0..MaxTimers
    BY DEF SesTypeOK
  <1>2. CASE Awaited /\ UNCHANGED late
    BY <1>1, <1>2
  <1>3. CASE Fires
    BY <1>3, FiresIs
  <1> QED BY <1>2, <1>3 DEF Over

LEMMA BannerIs ==
  ASSUME SesTypeOK, Banner
  PROVE  /\ pc = "banner" /\ UNCHANGED <<plan, deviceVars, next, sections>> /\ said' = <<>>
         /\ late' \in 0..MaxTimers
         /\ (Awaited /\ late' = late) \/ late' # 0
         /\ \/ \E line \in {User, Password} : Type(line) /\ \E label \in {"name", "login", "blind"} : Await(label)
            \/ UNCHANGED typed /\ Await("login")
            \/ SendCommand(1)
  <1>1. late \in 0..MaxTimers
    BY DEF SesTypeOK
  <1>2. CASE Awaited /\ UNCHANGED late
    BY <1>1, <1>2 DEF Banner
  <1>3. CASE Fires
    BY <1>3, FiresIs DEF Banner
  <1> QED BY <1>2, <1>3 DEF Banner

LEMMA TypeInit == SesInit => TypeInv
  <1> SUFFICES ASSUME SesInit PROVE TypeInv
    OBVIOUS
  <1>1. Len(plan) \in Nat
    BY PlanFacts, LenProperties DEF SesInit
  <1>2. /\ plan \in {UniqueCommands(o) : o \in Offers}
        /\ pc = "offered" /\ next = 1 /\ got = <<>> /\ sections = <<>> /\ outcome = "none" /\ late = 0
        /\ mode \in {"user", "pass", "shell"} /\ saying = Greeting(mode) /\ held = <<>> /\ said = <<>>
    BY DEF SesInit
  <1>3. accepts \in BOOLEAN /\ obeys \in BOOLEAN /\ paging \in BOOLEAN /\ paged \in BOOLEAN
    BY DEF SesInit
  <1>4. SesTypeOK
    <2>1. 0 \in 0..MaxTimers
      BY SessionAssumption
    <2>2. next \in 1..(Len(plan) + 1)
      BY <1>1, <1>2
    <2> QED BY <1>2, <1>3, <2>1, <2>2 DEF SesTypeOK
  <1>5. /\ got \in Seq(Texts) /\ said \in Seq(Texts) /\ saying \in Seq(Texts) /\ held \in Seq(Texts)
        /\ sections \in Seq(Section) /\ Len(sections) = 0
    BY <1>2, TokenTexts, EmptySeq
  <1> QED BY <1>2, <1>4, <1>5 DEF TypeInv

\* What the device takes has been typed.
LEMMA TakenLine == ASSUME SesInv, NEW line, Takes(line) PROVE line \in Lines /\ line \in AllowedLines
  <1>1. typed # <<>> /\ Head(typed) = line /\ typed \in Seq(AllowedLines) /\ plan \in Seq(Lines)
    BY DEF Takes, SesInv
  <1>2. line \in AllowedLines
    BY <1>1, HeadTailProperties
  <1>3. ToSet(plan) \subseteq Lines
    BY <1>1, ElementOfSeq, LenProperties DEF ToSet
  <1> QED BY <1>2, <1>3 DEF AllowedLines, Lines

\* The device: what it prints is text, and the script is where it was.
LEMMA DeviceType == ASSUME SesInv, TypeInv, Device \/ Hangup PROVE TypeInv'
  <1>0. /\ got \in Seq(Texts) /\ said \in Seq(Texts) /\ saying \in Seq(Texts) /\ held \in Seq(Texts)
        /\ {accepts, obeys, paging, paged} \subseteq BOOLEAN
        /\ mode \in {"user", "pass", "shell", "more", "closed"}
    BY DEF TypeInv, SesTypeOK
  <1>1. ASSUME UNCHANGED <<plan, scriptVars, accepts, obeys>>, paging' \in BOOLEAN, paged' \in BOOLEAN,
               mode' \in {"user", "pass", "shell", "more", "closed"},
               said' \in Seq(Texts), saying' \in Seq(Texts), held' \in Seq(Texts)
        PROVE  TypeInv'
    <2>1. Section' = Section
      BY <1>1 DEF Section
    <2>2. SesTypeOK'
      BY <1>1, <1>0 DEF TypeInv, SesTypeOK, scriptVars
    <2> QED BY <1>1, <2>1, <2>2 DEF TypeInv, LoggingIn, scriptVars
  <1>2. CASE Say
    <2>1. Head(saying) \in Texts /\ Tail(saying) \in Seq(Texts)
      BY <1>0, <1>2, HeadTailProperties DEF Say
    <2>2. said' \in Seq(Texts) /\ saying' \in Seq(Texts)
      BY <1>0, <1>2, <2>1, AppendProperties DEF Say
    <2> QED BY <1>0, <1>1, <1>2, <2>2 DEF Say
  <1>3. CASE TakeSpace
    <2>1. saying' \in Seq(Texts)
      BY <1>0, <1>3, TokenTexts, ConcatProperties DEF TakeSpace
    <2> QED BY <1>0, <1>1, <1>3, <2>1, TokenTexts DEF TakeSpace, Takes
  <1>4. ASSUME NEW line, TakeName(line) PROVE TypeInv'
    <2>1. saying' \in Seq(Texts) /\ mode' \in {"pass", "shell", "user"}
      BY <1>4, TokenTexts DEF TakeName
    <2> QED BY <1>0, <1>1, <1>4, <2>1 DEF TakeName, Takes
  <1>5. ASSUME NEW line, TakePassword(line) PROVE TypeInv'
    <2>1. saying' \in Seq(Texts) /\ mode' \in {"shell", "user"}
      BY <1>5, TokenTexts DEF TakePassword
    <2> QED BY <1>0, <1>1, <1>5, <2>1 DEF TakePassword, Takes
  <1>6. ASSUME NEW line, TakeCommand(line) PROVE TypeInv'
    <2> DEFINE t == Table(line)
               first == SubSeq(t, 1, PageSize)
               rest == SubSeq(t, PageSize + 1, Len(t))
    <2>0. t \in Seq(Texts) /\ Len(t) \in Nat /\ PageSize \in Nat \ {0}
      BY TableIs, LenProperties, SessionAssumption
    <2> HIDE DEF t
    <2>1. \A i \in 1..Len(t) : t[i] \in Texts
      BY <2>0, ElementOfSeq
    <2>2. rest \in Seq(Texts)
      <3>1. \A i \in (PageSize + 1)..Len(t) : t[i] \in Texts
        BY <2>0, <2>1
      <3> QED BY <2>0, <3>1, SubSeqProperties
    <2>3. Len(t) > PageSize => first \in Seq(Texts)
      <3> SUFFICES ASSUME Len(t) > PageSize PROVE first \in Seq(Texts)
        OBVIOUS
      <3>1. \A i \in 1..PageSize : t[i] \in Texts
        BY <2>0, <2>1
      <3> QED BY <2>0, <3>1, SubSeqProperties
    <2>4. /\ <<Echo(line)>> \o t \o <<Prompt>> \in Seq(Texts)
          /\ Len(t) > PageSize => <<Echo(line)>> \o first \o <<More>> \in Seq(Texts)
      <3>1. <<Echo(line)>> \in Seq(Texts) /\ <<Prompt>> \in Seq(Texts) /\ <<More>> \in Seq(Texts)
        <4>1. line \in Lines
          BY <1>6, TakenLine DEF TakeCommand
        <4> QED BY <4>1, TokenTexts
      <3> HIDE DEF first
      <3>2. ASSUME NEW u \in Seq(Texts), NEW v \in Seq(Texts) PROVE <<Echo(line)>> \o u \o v \in Seq(Texts)
        BY <3>1, ConcatProperties
      <3> QED BY <2>0, <2>3, <3>1, <3>2
    <2>5. /\ mode = "shell" /\ UNCHANGED <<plan, scriptVars, accepts, obeys, said>>
          /\ paging' = (paging /\ ~(obeys /\ line = Quiet))
          /\ paged' = (paged \/ (paging /\ Len(t) > PageSize))
          /\ \/ /\ Len(t) > PageSize /\ mode' = "more"
                /\ saying' = <<Echo(line)>> \o first \o <<More>> /\ held' = rest
             \/ saying' = <<Echo(line)>> \o t \o <<Prompt>> /\ UNCHANGED <<mode, held>>
      BY <1>6 DEF TakeCommand, Takes, t
    <2>6. saying' \in Seq(Texts) /\ held' \in Seq(Texts) /\ mode' \in {"user", "pass", "shell", "more", "closed"}
      BY <1>0, <2>2, <2>4, <2>5
    <2>7. paging' \in BOOLEAN /\ paged' \in BOOLEAN
      BY <2>5
    <2> QED BY <1>0, <1>1, <2>5, <2>6, <2>7
  <1>7. CASE Hangup
    BY <1>0, <1>1, <1>7, TokenTexts DEF Hangup
  <1> QED BY <1>2, <1>3, <1>4, <1>5, <1>6, <1>7 DEF Device

LEMMA PlanLen == ASSUME TypeInv PROVE plan \in Seq(Lines) /\ Len(plan) \in Nat
  BY PlanFacts, LenProperties DEF TypeInv, SesTypeOK

\* Sending a command leads to the wait for its answer, the exit to the end.
LEMMA SendIs ==
  ASSUME NEW n, SendCommand(n)
  PROVE  \/ n <= Len(plan) /\ Type(plan[n]) /\ pc' = "command" /\ got' = <<>> /\ outcome' = outcome
         \/ ~(n <= Len(plan)) /\ Type(Exit) /\ pc' = "done" /\ got' = <<>> /\ outcome' = "ok"
  BY DEF SendCommand, Await

LEMMA ScriptType == ASSUME TypeInv, Script \/ Kill \/ Break PROVE TypeInv'
  <1>0. /\ got \in Seq(Texts) /\ said \in Seq(Texts) /\ saying \in Seq(Texts) /\ held \in Seq(Texts)
        /\ sections \in Seq(Section) /\ <<>> \in Seq(Texts)
        /\ Len(plan) \in Nat /\ next \in 1..(Len(plan) + 1) /\ late \in 0..MaxTimers
        /\ outcome \in {"none", "refused", "ok", "failed", "timeout"}
        /\ SesTypeOK
    BY PlanLen, TokenTexts DEF TypeInv, SesTypeOK
  <1>1. ASSUME UNCHANGED <<plan, deviceVars>>, said' \in Seq(Texts), got' \in Seq(Texts),
               late' \in 0..MaxTimers
        PROVE  /\ Section' = Section
               /\ saying' \in Seq(Texts) /\ held' \in Seq(Texts)
               /\ plan' \in {UniqueCommands(o) : o \in Offers}
               /\ mode' \in {"user", "pass", "shell", "more", "closed"}
               /\ late' \in 0..MaxTimers /\ {accepts', obeys', paging', paged'} \subseteq BOOLEAN
    BY <1>0, <1>1 DEF Section, SesTypeOK, deviceVars
  \* The waits in which the place in the plan does not change.
  <1>2. ASSUME UNCHANGED <<plan, deviceVars, next, sections>>, said' \in Seq(Texts), got' \in Seq(Texts),
               late' \in 0..MaxTimers,
               \/ pc # "done" /\ outcome' = outcome
                  /\ \/ LoggingIn /\ pc' \in {"banner", "name", "blind", "login"}
                     \/ pc' \in {"command", "page"} /\ next <= Len(plan)
               \/ pc' = "done" /\ outcome' \in {"refused", "ok", "failed", "timeout"}
        PROVE  TypeInv'
    <2>1. SesTypeOK'
      <3>1. /\ pc' \in {"offered", "banner", "name", "blind", "login", "command", "page", "done"}
            /\ outcome' \in {"none", "refused", "ok", "failed", "timeout"}
        BY <1>0, <1>2
      <3>2. next' \in 1..(Len(plan') + 1) /\ \A i \in DOMAIN sections' : sections'[i].cmd = plan'[i]
        BY <1>0, <1>2 DEF SesTypeOK
      <3> QED BY <1>1, <1>2, <3>1, <3>2 DEF SesTypeOK
    <2> QED BY <1>0, <1>1, <1>2, <2>1 DEF TypeInv, LoggingIn
  <1>3. CASE Accept
    <2>1. pc = "offered" /\ pc' = "banner" /\ UNCHANGED <<plan, deviceVars, next, sections, said, got, late, outcome>>
      BY <1>3 DEF Accept
    <2> QED BY <1>0, <1>2, <2>1 DEF LoggingIn
  <1>4. CASE Refuse
    <2>1. pc' = "done" /\ outcome' = "refused" /\ UNCHANGED <<plan, deviceVars, next, sections, said, got, late>>
      BY <1>4 DEF Refuse
    <2> QED BY <1>0, <1>2, <2>1
  <1>5. CASE Break
    <2>1. pc' = "done" /\ outcome' = "failed" /\ UNCHANGED <<plan, deviceVars, next, sections, said, got, late>>
      BY <1>5 DEF Break
    <2> QED BY <1>0, <1>2, <2>1
  <1>6. CASE Kill
    <2>1. /\ pc' = "done" /\ outcome' = "timeout" /\ sections' = <<>>
          /\ UNCHANGED <<plan, deviceVars, next, said, got, late>>
      BY <1>6 DEF Kill
    <2>2. sections' \in Seq(Section) /\ DOMAIN sections' = {}
      BY <2>1, EmptySeq
    <2>3. SesTypeOK'
      BY <1>0, <1>1, <2>1, <2>2 DEF SesTypeOK
    <2> QED BY <1>0, <1>1, <2>1, <2>2, <2>3 DEF TypeInv, LoggingIn
  <1>7. CASE Receive
    <2>1. /\ UNCHANGED <<plan, pc, next, sections, outcome, late, deviceVars>>
          /\ got' = got \o said /\ said' = <<>> /\ Running
      BY <1>7 DEF Receive
    <2>2. got' \in Seq(Texts)
      BY <1>0, <2>1, ConcatProperties
    <2>3. SesTypeOK'
      BY <1>0, <1>1, <2>1, <2>2 DEF SesTypeOK
    <2> QED BY <1>0, <1>1, <2>1, <2>2, <2>3 DEF TypeInv, LoggingIn
  <1>8. CASE Banner \/ Name \/ Blind \/ Login
    <2>1. /\ UNCHANGED <<plan, deviceVars, next, sections>> /\ said' \in Seq(Texts)
          /\ late' \in 0..MaxTimers /\ pc \in {"banner", "name", "blind", "login"}
      <3>1. CASE Banner
        BY <1>0, <3>1, BannerIs
      <3>2. CASE Name \/ Blind \/ Login
        BY <1>0, <3>2, OverIs DEF Name, Blind, Login, Over
      <3> QED BY <1>8, <3>1, <3>2
    <2>2. next = 1
      BY <2>1 DEF TypeInv, LoggingIn
    <2>3. CASE SendCommand(1)
      BY <1>0, <1>2, <2>1, <2>2, <2>3, SendIs
    <2>4. CASE Fail
      BY <1>0, <1>2, <2>1, <2>4 DEF Fail
    <2>5. CASE Await("name") \/ Await("login") \/ Await("blind")
      BY <1>0, <1>2, <2>1, <2>5 DEF Await, LoggingIn
    <2> QED BY <1>8, <2>3, <2>4, <2>5 DEF Banner, Name, Blind, Login
  <1>9. CASE NextPage
    <2>1. /\ UNCHANGED <<plan, deviceVars, next, sections, said>> /\ late' \in 0..MaxTimers
          /\ pc \in {"command", "page"} /\ Await("page")
      BY <1>0, <1>9, OverIs DEF NextPage, Over
    <2>2. next <= Len(plan)
      BY <2>1 DEF TypeInv
    <2> QED BY <1>0, <1>2, <2>1, <2>2 DEF Await
  <1>10. CASE Command
    <2>1. /\ UNCHANGED <<plan, deviceVars, said>> /\ late' \in 0..MaxTimers /\ pc = "command"
          /\ sections' = Append(sections, [cmd |-> plan[next], text |-> got])
          /\ next' = next + 1 /\ SendCommand(next + 1)
      BY <1>0, <1>10, OverIs DEF Command, Over
    <2>2. next <= Len(plan) /\ Len(sections) = next - 1 /\ outcome = "none"
      BY <2>1 DEF TypeInv
    <2> DEFINE r == [cmd |-> plan[next], text |-> got]
    <2>3. r \in Section
      <3>1. next \in DOMAIN plan
        BY <1>0, <2>2, PlanLen, LenProperties
      <3> QED BY <1>0, <3>1 DEF Section, ToSet
    <2>4. r.cmd = plan[next]
      OBVIOUS
    <2> HIDE DEF r
    <2>5. /\ sections' \in Seq(Section) /\ Len(sections') = next
          /\ \A i \in 1..(next - 1) : sections'[i] = sections[i]
          /\ sections'[next] = r
      BY <1>0, <2>1, <2>2, <2>3, AppendProperties DEF r
    <2>6. DOMAIN sections' = 1..next /\ DOMAIN sections = 1..(next - 1)
      BY <1>0, <2>2, <2>5, LenProperties
    <2>7. \A i \in DOMAIN sections' : sections'[i].cmd = plan[i]
      <3> SUFFICES ASSUME NEW i \in 1..next PROVE sections'[i].cmd = plan[i]
        BY <2>6
      <3>1. CASE i = next
        BY <2>4, <2>5, <3>1
      <3>2. CASE i # next
        <4>1. i \in 1..(next - 1)
          BY <1>0, <3>2
        <4> QED BY <2>5, <2>6, <4>1 DEF TypeInv, SesTypeOK
      <3> QED BY <3>1, <3>2
    <2>8. next' \in 1..(Len(plan) + 1)
      BY <1>0, <2>1, <2>2
    <2>9. /\ got' = <<>>
          /\ \/ next' <= Len(plan) /\ pc' = "command" /\ outcome' = "none"
             \/ pc' = "done" /\ outcome' = "ok"
      BY <2>1, <2>2, SendIs
    <2>10. SesTypeOK'
      BY <1>0, <1>1, <2>1, <2>7, <2>8, <2>9 DEF SesTypeOK
    <2>11. Section' = Section /\ Len(sections') = next' - 1
      BY <1>0, <2>1, <2>5 DEF Section
    <2> QED BY <1>0, <1>1, <2>1, <2>5, <2>9, <2>10, <2>11 DEF TypeInv, LoggingIn
  <1> QED BY <1>3, <1>4, <1>5, <1>6, <1>7, <1>8, <1>9, <1>10 DEF Script

LEMMA TypeStep == SesInv /\ TypeInv /\ [SesNext]_sesVars => TypeInv'
  <1> SUFFICES ASSUME SesInv, TypeInv, [SesNext]_sesVars PROVE TypeInv'
    OBVIOUS
  <1>1. CASE UNCHANGED sesVars
    BY <1>1 DEF sesVars, scriptVars, deviceVars, TypeInv, SesTypeOK, Section, LoggingIn
  <1> QED BY <1>1, DeviceType, ScriptType DEF SesNext

\* The script is always at a place in the plan that it can be at, and what it has
\* printed so far stands, header by header, under the commands of the plan in
\* their order, whatever text came late and whichever timers fired.
THEOREM SessionTypeCorrect == SesSpec => []SesTypeOK
  <1>1. TypeInv => SesTypeOK
    BY DEF TypeInv
  <1> QED BY <1>1, SesInitInv, SesStepInv, TypeInit, TypeStep, PTL DEF SesSpec

-----------------------------------------------------------------------------
(* Pages.                                                                  *)
NoLogin(s)    == User \notin ToSet(s) /\ Password \notin ToSet(s)
LoginFirst(s) == \A i, j \in DOMAIN s : i < j /\ s[j] \in {User, Password} => s[i] \in {User, Password}
QuietFirst(s) == \A i \in DOMAIN s : s[i] \in Logins \/ \E j \in 1..i : s[j] = Quiet

\* A device that took the command which turns paging off for a name or a
\* password: no name and no password is typed to it any more.
LockedOut == mode \in {"user", "pass"} /\ NoLogin(typed) /\ pc \in {"command", "page", "done"}

\* While a device that obeys still pages, no table can be asked of it: the
\* command that turns paging off is typed before every other, or it is locked out.
QuietInv ==
  /\ LoggingIn => ToSet(typed) \subseteq {User, Password}
  /\ LoginFirst(typed)
  /\ paged => ~obeys
  /\ mode = "more" => paged
  /\ obeys /\ paging /\ mode # "closed" =>
       LockedOut \/ (QuietFirst(typed) /\ (pc \in {"command", "page"} => Quiet \in ToSet(typed)))

LEMMA QuietIsNoLogin == Quiet \notin Logins /\ Quiet \notin {User, Password}
  <1>1. IsRead(Quiet)
    BY DEF IsRead
  <1> QED BY <1>1, ReadsAre DEF Logins

LEMMA LoginTables == ASSUME NEW l \in Logins \cup {Quiet} PROVE Table(l) = <<>> /\ Len(Table(l)) = 0
  <1>1. l \notin DOMAIN Tables
    <2>1. DOMAIN Tables \subseteq AllowedCommands(Vendor) \ {Quiet}
      BY SessionAssumption
    <2>2. l \in AllowedCommands(Vendor) => l \notin Logins
      BY AllowedRead, ReadsAre DEF Logins
    <2> QED BY <2>1, <2>2
  <1>2. Table(l) = <<>>
    BY <1>1 DEF Table
  <1> QED BY <1>2

LEMMA PlanCommands ==
  ASSUME plan \in Seq(Lines), Valid(Vendor, plan), NEW n \in 1..Len(plan)
  PROVE  plan[n] \in AllowedCommands(Vendor) /\ plan[n] \notin Logins
  <1>1. plan[n] \in ToSet(plan)
    BY LenProperties DEF ToSet
  <1>2. plan[n] \in AllowedCommands(Vendor)
    BY <1>1 DEF Valid
  <1> QED BY <1>2, AllowedRead, ReadsAre DEF Logins

LEMMA TailIs ==
  ASSUME NEW S, NEW s \in Seq(S), s # <<>>, LoginFirst(s)
  PROVE  /\ LoginFirst(Tail(s)) /\ ToSet(Tail(s)) \subseteq ToSet(s) /\ Head(s) \in ToSet(s)
         /\ Head(s) \notin {User, Password} => NoLogin(Tail(s))
         /\ Head(s) # Quiet /\ QuietFirst(s) => Head(s) \in Logins /\ QuietFirst(Tail(s))
         /\ Head(s) # Quiet /\ Quiet \in ToSet(s) => Quiet \in ToSet(Tail(s))
  <1> DEFINE t == Tail(s)
             n == Len(s)
  <1>1. n \in Nat /\ n > 0 /\ DOMAIN s = 1..n /\ Head(s) = s[1]
    BY LenProperties, EmptySeq
  <1>2. t \in Seq(S) /\ Len(t) = n - 1 /\ \A i \in 1..(n - 1) : t[i] = s[i + 1]
    BY HeadTailProperties
  <1> HIDE DEF t, n
  <1>3. DOMAIN t = 1..(n - 1)
    BY <1>2, LenProperties
  <1>4. /\ \A i \in 1..(n - 1) : i + 1 \in 1..n /\ t[i] = s[i + 1]
        /\ \A i \in 1..n : i = 1 \/ (i - 1 \in 1..(n - 1) /\ s[i] = t[i - 1])
    <2>1. \A i \in 1..(n - 1) : i + 1 \in 1..n /\ t[i] = s[i + 1]
      BY <1>1, <1>2
    <2>2. ASSUME NEW i \in 1..n, i # 1 PROVE i - 1 \in 1..(n - 1) /\ s[i] = t[i - 1]
      <3>1. i - 1 \in 1..(n - 1) /\ (i - 1) + 1 = i
        BY <1>1, <2>2
      <3> QED BY <1>2, <3>1
    <2> QED BY <2>1, <2>2
  <1>5. LoginFirst(t)
    <2> SUFFICES ASSUME NEW i \in 1..(n - 1), NEW j \in 1..(n - 1), i < j, t[j] \in {User, Password}
                 PROVE  t[i] \in {User, Password}
      BY <1>3 DEF LoginFirst
    <2>1. i + 1 < j + 1
      OBVIOUS
    <2> QED BY <1>1, <1>4, <2>1 DEF LoginFirst
  <1>6. ToSet(t) \subseteq ToSet(s) /\ Head(s) \in ToSet(s)
    BY <1>1, <1>3, <1>4 DEF ToSet
  <1>7. ASSUME Head(s) \notin {User, Password} PROVE NoLogin(t)
    <2> SUFFICES ASSUME NEW j \in 1..(n - 1), t[j] \in {User, Password} PROVE FALSE
      BY <1>3 DEF ToSet, NoLogin
    <2>1. 1 < j + 1 /\ j + 1 \in 1..n /\ s[j + 1] \in {User, Password} /\ 1 \in 1..n
      BY <1>1, <1>4
    <2> QED BY <1>1, <1>7, <2>1 DEF LoginFirst
  <1>8. ASSUME Head(s) # Quiet, QuietFirst(s) PROVE Head(s) \in Logins /\ QuietFirst(t)
    <2>1. Head(s) \in Logins
      <3>1. 1 \in DOMAIN s /\ \A j \in 1..1 : j = 1
        BY <1>1
      <3> QED BY <1>1, <1>8, <3>1 DEF QuietFirst
    <2>2. ASSUME NEW i \in 1..(n - 1) PROVE t[i] \in Logins \/ \E j \in 1..i : t[j] = Quiet
      <3>1. i + 1 \in DOMAIN s /\ t[i] = s[i + 1]
        BY <1>1, <1>4
      <3>2. CASE s[i + 1] \in Logins
        BY <3>1, <3>2
      <3>3. CASE \E j \in 1..(i + 1) : s[j] = Quiet
        <4>1. PICK j \in 1..(i + 1) : s[j] = Quiet
          BY <3>3
        <4>2. j # 1 /\ j \in 1..n
          BY <1>1, <1>8, <4>1
        <4>3. j - 1 \in 1..i /\ t[j - 1] = Quiet
          BY <1>4, <4>1, <4>2
        <4> QED BY <4>3
      <3> QED BY <1>8, <3>1, <3>2, <3>3 DEF QuietFirst
    <2> QED BY <1>3, <2>1, <2>2 DEF QuietFirst
  <1>9. ASSUME Head(s) # Quiet, Quiet \in ToSet(s) PROVE Quiet \in ToSet(t)
    <2>1. PICK i \in 1..n : s[i] = Quiet
      BY <1>1, <1>9 DEF ToSet
    <2>2. i # 1
      BY <1>1, <1>9, <2>1
    <2> QED BY <1>3, <1>4, <2>1, <2>2 DEF ToSet
  <1> QED BY <1>5, <1>6, <1>7, <1>8, <1>9 DEF t

LEMMA AppendIs ==
  ASSUME NEW S, NEW s \in Seq(S), NEW x \in S, LoginFirst(s)
  PROVE  /\ ToSet(Append(s, x)) = ToSet(s) \cup {x}
         /\ x \notin {User, Password} \/ ToSet(s) \subseteq {User, Password} => LoginFirst(Append(s, x))
         /\ QuietFirst(s) /\ (x \in Logins \cup {Quiet} \/ Quiet \in ToSet(s)) => QuietFirst(Append(s, x))
  <1> DEFINE t == Append(s, x)
             n == Len(s)
  <1>1. n \in Nat /\ DOMAIN s = 1..n
    BY LenProperties
  <1>2. t \in Seq(S) /\ Len(t) = n + 1 /\ (\A i \in 1..n : t[i] = s[i]) /\ t[n + 1] = x
    BY AppendProperties
  <1> HIDE DEF t, n
  <1>3. DOMAIN t = 1..(n + 1)
    BY <1>2, LenProperties
  <1>4. \A i \in 1..(n + 1) : i \in 1..n \/ i = n + 1
    BY <1>1
  <1>5. \A i \in 1..n : i \in 1..(n + 1)
    BY <1>1
  <1>6. ToSet(t) = ToSet(s) \cup {x}
    <2>1. \A y \in ToSet(t) : y \in ToSet(s) \/ y = x
      BY <1>1, <1>2, <1>3, <1>4 DEF ToSet
    <2>2. ToSet(s) \subseteq ToSet(t)
      BY <1>1, <1>2, <1>3, <1>5 DEF ToSet
    <2>3. n + 1 \in DOMAIN t
      BY <1>1, <1>3
    <2>4. x \in ToSet(t)
      BY <1>2, <2>3 DEF ToSet
    <2> QED BY <2>1, <2>2, <2>4
  <1>7. ASSUME x \notin {User, Password} \/ ToSet(s) \subseteq {User, Password} PROVE LoginFirst(t)
    <2> SUFFICES ASSUME NEW i \in 1..(n + 1), NEW j \in 1..(n + 1), i < j, t[j] \in {User, Password}
                 PROVE  t[i] \in {User, Password}
      BY <1>3 DEF LoginFirst
    <2>1. i \in 1..n /\ t[i] = s[i] /\ s[i] \in ToSet(s)
      <3>1. i \in 1..n
        BY <1>1
      <3> QED BY <1>1, <1>2, <3>1 DEF ToSet
    <2>2. CASE j \in 1..n
      <3>1. s[j] \in {User, Password}
        BY <1>2, <2>2
      <3> QED BY <1>1, <2>1, <2>2, <3>1 DEF LoginFirst
    <2>3. CASE j = n + 1
      BY <1>2, <1>7, <2>1, <2>3
    <2> QED BY <1>4, <2>2, <2>3
  <1>8. ASSUME QuietFirst(s), x \in Logins \cup {Quiet} \/ Quiet \in ToSet(s) PROVE QuietFirst(t)
    <2> SUFFICES ASSUME NEW i \in 1..(n + 1) PROVE t[i] \in Logins \/ \E j \in 1..i : t[j] = Quiet
      BY <1>3 DEF QuietFirst
    <2>1. CASE i \in 1..n
      <3>1. t[i] = s[i] /\ \A j \in 1..i : j \in 1..n /\ t[j] = s[j]
        BY <1>1, <1>2, <2>1
      <3> QED BY <1>1, <1>8, <2>1, <3>1 DEF QuietFirst
    <2>2. CASE i = n + 1
      <3>1. CASE x \in Logins
        BY <1>2, <2>2, <3>1
      <3>2. CASE x = Quiet
        <4>1. i \in 1..i /\ t[i] = Quiet
          BY <1>1, <1>2, <2>2, <3>2
        <4> QED BY <4>1
      <3>3. CASE Quiet \in ToSet(s)
        <4>1. PICK j \in 1..n : s[j] = Quiet
          BY <1>1, <3>3 DEF ToSet
        <4>2. j \in 1..i /\ t[j] = Quiet
          BY <1>1, <1>2, <2>2, <4>1
        <4> QED BY <4>2
      <3> QED BY <1>8, <3>1, <3>2, <3>3
    <2> QED BY <1>4, <2>1, <2>2
  <1> QED BY <1>6, <1>7, <1>8 DEF t

LEMMA QuietInit == SesInit => QuietInv
  <1> SUFFICES ASSUME SesInit PROVE QuietInv
    OBVIOUS
  <1>1. typed = <<>> /\ pc = "offered" /\ paged = FALSE /\ mode \in {"user", "pass", "shell"}
    BY DEF SesInit
  <1>2. DOMAIN typed = {} /\ ToSet(typed) = {}
    BY <1>1 DEF ToSet
  <1>3. LoginFirst(typed) /\ QuietFirst(typed)
    BY <1>2 DEF LoginFirst, QuietFirst
  <1> QED BY <1>1, <1>2, <1>3 DEF QuietInv

LEMMA DeviceQuiet == ASSUME SesInv, TypeInv, QuietInv, Device \/ Hangup PROVE QuietInv'
  <1>0. /\ typed \in Seq(AllowedLines) /\ LoginFirst(typed)
        /\ pc \in {"offered", "banner", "name", "blind", "login", "command", "page", "done"}
        /\ UNCHANGED <<pc, obeys>>
        /\ LoggingIn' = LoggingIn
    <2>1. UNCHANGED <<pc, obeys>>
      BY DEF Device, Say, TakeSpace, TakeName, TakePassword, TakeCommand, Takes, Hangup, scriptVars
    <2> QED BY <2>1 DEF SesInv, TypeInv, SesTypeOK, QuietInv, LoggingIn
  <1> DEFINE Asked == QuietFirst(typed) /\ (pc \in {"command", "page"} => Quiet \in ToSet(typed))
  <1>1. CASE Say
    BY <1>0, <1>1 DEF Say, QuietInv, LockedOut
  <1>2. CASE Hangup
    BY <1>0, <1>2 DEF Hangup, QuietInv
  <1>3. ASSUME NEW line, Takes(line)
        PROVE  /\ typed' = Tail(typed) /\ LoginFirst(typed') /\ line \in ToSet(typed)
               /\ LoggingIn' => ToSet(typed') \subseteq {User, Password}
               /\ line \notin {User, Password} => NoLogin(typed')
               /\ NoLogin(typed) => NoLogin(typed') /\ line \notin {User, Password}
               /\ Asked /\ line # Quiet => line \in Logins /\ Asked'
               /\ line = Quiet => NoLogin(typed') /\ pc' \in {"command", "page", "done"}
    <2>1. typed # <<>> /\ Head(typed) = line /\ typed' = Tail(typed)
      BY <1>3 DEF Takes
    <2>2. /\ LoginFirst(typed') /\ ToSet(typed') \subseteq ToSet(typed) /\ line \in ToSet(typed)
          /\ line \notin {User, Password} => NoLogin(typed')
          /\ line # Quiet /\ QuietFirst(typed) => line \in Logins /\ QuietFirst(typed')
          /\ line # Quiet /\ Quiet \in ToSet(typed) => Quiet \in ToSet(typed')
      BY <1>0, <2>1, TailIs
    <2>3. LoggingIn => ToSet(typed) \subseteq {User, Password}
      BY DEF QuietInv
    <2>4. line = Quiet => ~LoggingIn
      BY <2>2, <2>3, QuietIsNoLogin
    <2>5. NoLogin(typed) => NoLogin(typed') /\ line \notin {User, Password}
      BY <2>2 DEF NoLogin
    <2> QED BY <1>0, <2>1, <2>2, <2>3, <2>4, <2>5, QuietIsNoLogin DEF LoggingIn
  <1>4. ASSUME NEW line, TakeName(line) \/ TakePassword(line) PROVE QuietInv'
    <2>1. /\ Takes(line) /\ mode \in {"user", "pass"} /\ UNCHANGED <<paging, paged>>
          /\ mode' \in {"user", "pass", "shell"}
          /\ line \notin {User, Password} => mode' \in {"user", "pass"}
      BY <1>4 DEF TakeName, TakePassword
    <2>2. ASSUME obeys', paging', mode' # "closed"
          PROVE  LockedOut' \/ Asked'
      <3>1. LockedOut \/ Asked
        BY <1>0, <2>1, <2>2 DEF QuietInv
      <3>2. CASE line = Quiet
        BY <1>3, <2>1, <3>2, QuietIsNoLogin DEF LockedOut
      <3>3. CASE Asked /\ line # Quiet
        BY <1>3, <2>1, <3>3
      <3>4. CASE LockedOut
        <4>1. line \notin {User, Password}
          BY <1>3, <2>1, <3>4 DEF LockedOut
        <4> QED BY <1>0, <1>3, <2>1, <3>4, <4>1 DEF LockedOut
      <3> QED BY <3>1, <3>2, <3>3, <3>4
    <2> QED BY <1>0, <1>3, <2>1, <2>2 DEF QuietInv
  <1>5. ASSUME NEW line, TakeCommand(line) PROVE QuietInv'
    <2>1. Takes(line) /\ mode = "shell"
      BY <1>5 DEF TakeCommand
    <2> DEFINE stops == paging /\ Len(Table(line)) > PageSize
    <2>2. /\ paging' = (paging /\ ~(obeys /\ line = Quiet))
          /\ paged' = (paged \/ stops)
          /\ IF stops THEN mode' = "more" ELSE mode' = mode
      BY <1>5 DEF TakeCommand
    <2>3. obeys /\ paging => Asked
      BY <2>1 DEF QuietInv, LockedOut
    <2>4. obeys => ~stops
      <3> SUFFICES ASSUME obeys, paging PROVE ~(Len(Table(line)) > PageSize)
        OBVIOUS
      <3>1. line \in Logins \cup {Quiet}
        BY <1>3, <2>1, <2>3
      <3> QED BY <3>1, LoginTables, SessionAssumption
    <2> HIDE DEF stops
    <2>5. paged => ~obeys
      BY DEF QuietInv
    <2>6. paged' => ~obeys'
      BY <1>0, <2>2, <2>4, <2>5
    <2>7. mode' = "more" => paged'
      BY <2>1, <2>2
    <2>8. ASSUME obeys', paging', mode' # "closed" PROVE Asked'
      <3>1. Asked /\ line # Quiet
        BY <1>0, <2>2, <2>3, <2>8
      <3> QED BY <1>3, <2>1, <3>1
    <2> QED BY <1>3, <2>1, <2>6, <2>7, <2>8 DEF QuietInv
  <1>6. CASE TakeSpace
    <2>1. Takes(Space) /\ mode \in {"shell", "more"} /\ mode' = "shell" /\ UNCHANGED <<paging, paged>>
      BY <1>6 DEF TakeSpace
    <2>2. Space # Quiet
      BY QuietIsNoLogin DEF Logins
    <2>3. ASSUME obeys', paging', mode' # "closed" PROVE Asked'
      <3>1. Asked
        BY <1>0, <2>1, <2>3 DEF QuietInv, LockedOut
      <3> QED BY <1>3, <2>1, <2>2, <3>1
    <2> QED BY <1>0, <1>3, <2>1, <2>3 DEF QuietInv
  <1> QED BY <1>1, <1>2, <1>4, <1>5, <1>6 DEF Device

LEMMA ScriptQuiet == ASSUME SesInv, TypeInv, QuietInv, Script \/ Kill \/ Break PROVE QuietInv'
  <1>0. /\ typed \in Seq(AllowedLines) /\ LoginFirst(typed)
        /\ pc \in {"offered", "banner", "name", "blind", "login", "command", "page", "done"}
        /\ (paged => ~obeys) /\ (mode = "more" => paged)
        /\ LoggingIn => ToSet(typed) \subseteq {User, Password}
        /\ obeys /\ paging /\ mode # "closed" =>
             LockedOut \/ (QuietFirst(typed) /\ (pc \in {"command", "page"} => Quiet \in ToSet(typed)))
        /\ {User, Password, Exit, Space} \subseteq AllowedLines
        /\ plan \in Seq(Lines) /\ Len(plan) \in Nat /\ next \in Nat \ {0}
    BY LoginsAllowed, LenProperties DEF SesInv, TypeInv, SesTypeOK, QuietInv, Logins
  <1>1. QuietFirst(typed) \/ ~(ToSet(typed) \subseteq {User, Password})
    <2> SUFFICES ASSUME ToSet(typed) \subseteq {User, Password} PROVE QuietFirst(typed)
      OBVIOUS
    <2>1. \A i \in DOMAIN typed : typed[i] \in {User, Password}
      BY DEF ToSet
    <2> QED BY <2>1 DEF QuietFirst, Logins
  <1>2. ASSUME UNCHANGED deviceVars, LoginFirst(typed'),
               LoggingIn' => ToSet(typed') \subseteq {User, Password},
               obeys /\ paging /\ mode # "closed" =>
                 LockedOut' \/ (QuietFirst(typed') /\ (pc' \in {"command", "page"} => Quiet \in ToSet(typed')))
        PROVE  QuietInv'
    BY <1>0, <1>2 DEF QuietInv, deviceVars
  \* Nothing is typed: the collection ends, or text is received.
  <1>3. ASSUME UNCHANGED <<deviceVars, typed>>, pc' \in {pc, "done"} \/ (pc = "offered" /\ pc' = "banner")
        PROVE  QuietInv'
    BY <1>0, <1>1, <1>2, <1>3 DEF LoggingIn, LockedOut, deviceVars
  \* The script logs in.
  <1>4. ASSUME UNCHANGED deviceVars, LoggingIn, LoggingIn', NEW line \in {User, Password}, Type(line)
        PROVE  QuietInv'
    <2>1. CASE mode = "closed"
      BY <1>0, <1>2, <1>4, <2>1 DEF Type
    <2>2. CASE mode # "closed"
      <3>1. typed' = Append(typed, line) /\ ToSet(typed) \subseteq {User, Password} /\ QuietFirst(typed)
        BY <1>0, <1>1, <1>4, <2>2 DEF Type
      <3>2. ToSet(typed') = ToSet(typed) \cup {line} /\ LoginFirst(typed') /\ QuietFirst(typed')
        BY <1>0, <3>1, AppendIs DEF Logins
      <3> QED BY <1>2, <1>4, <3>1, <3>2 DEF LoggingIn
    <2> QED BY <2>1, <2>2
  \* The script sends a command.
  <1>5. ASSUME UNCHANGED deviceVars, NEW n \in Nat \ {0}, SendCommand(n), Valid(Vendor, plan),
               (LoggingIn /\ n = 1) \/ pc = "command"
        PROVE  QuietInv'
    <2>1. /\ ~LoggingIn' /\ pc' \in {"command", "done"}
          /\ \/ n <= Len(plan) /\ Type(plan[n])
             \/ ~(n <= Len(plan)) /\ Type(Exit) /\ pc' = "done"
      BY <1>5, SendIs DEF LoggingIn
    <2>2. CASE mode = "closed"
      BY <1>0, <1>2, <2>1, <2>2, <1>5 DEF Type
    <2>3. CASE mode # "closed"
      <3>1. PICK line \in AllowedLines :
              /\ typed' = Append(typed, line) /\ line \notin {User, Password}
              /\ (line \in Logins /\ pc' = "done") \/ (n = 1 /\ line = Quiet) \/ pc = "command"
        <4>1. CASE n <= Len(plan) /\ Type(plan[n])
          <5>1. plan[n] \in AllowedLines /\ plan[n] \notin Logins
            BY <1>0, <1>5, <4>1, PlanAllowed, PlanCommands
          <5>2. n = 1 => plan[n] = Quiet
            <6>1. plan # <<>>
              BY <1>0, <4>1, <1>5
            <6>2. PICK o \in Offers : plan = UniqueCommands(o)
              BY DEF TypeInv, SesTypeOK
            <6>3. plan[1] = Quiet
              BY <1>5, <6>1, <6>2, PlanFacts
            <6> QED BY <6>3
          <5> QED BY <1>5, <2>3, <4>1, <5>1, <5>2 DEF Type, Logins
        <4>2. CASE Type(Exit) /\ pc' = "done"
          <5>1. Exit \notin {User, Password}
            BY DEF Exit, User, Password
          <5>2. Exit \in AllowedLines /\ Exit \in Logins
            BY <1>0 DEF Logins
          <5> HIDE DEF Logins
          <5>3. typed' = Append(typed, Exit)
            BY <2>3, <4>2 DEF Type
          <5> QED BY <4>2, <5>1, <5>2, <5>3
        <4> QED BY <2>1, <4>1, <4>2
      <3>2. /\ ToSet(typed') = ToSet(typed) \cup {line} /\ LoginFirst(typed')
            /\ QuietFirst(typed) /\ (line \in Logins \cup {Quiet} \/ Quiet \in ToSet(typed)) => QuietFirst(typed')
        BY <1>0, <3>1, AppendIs
      <3>3. ASSUME obeys /\ paging
            PROVE  LockedOut' \/ (QuietFirst(typed') /\ (pc' \in {"command", "page"} => Quiet \in ToSet(typed')))
        <4>1. CASE LockedOut /\ pc = "command"
          BY <1>5, <2>1, <3>1, <3>2, <4>1 DEF LockedOut, NoLogin, deviceVars
        <4>2. CASE pc = "command" /\ QuietFirst(typed) /\ Quiet \in ToSet(typed)
          BY <3>2, <4>2
        <4>3. CASE LoggingIn /\ n = 1
          <5>1. QuietFirst(typed) /\ pc # "command"
            BY <1>0, <1>1, <4>3 DEF LoggingIn
          <5> QED BY <3>1, <3>2, <5>1
        <4> QED BY <1>0, <1>5, <2>3, <3>3, <4>1, <4>2, <4>3
      <3> QED BY <1>2, <1>5, <2>1, <3>2, <3>3
    <2> QED BY <2>2, <2>3
  <1>6. CASE Accept \/ Refuse \/ Receive \/ Kill \/ Break
    BY <1>3, <1>6 DEF Accept, Refuse, Receive, Kill, Break
  <1>7. CASE Banner \/ Name \/ Blind \/ Login
    <2>1. /\ UNCHANGED deviceVars /\ pc \in {"banner", "name", "blind", "login"} /\ LoggingIn
          /\ Valid(Vendor, plan)
      BY <1>7 DEF Banner, Name, Blind, Login, Over, LoggingIn, SesInv
    <2>2. CASE SendCommand(1)
      BY <1>5, <2>1, <2>2
    <2>3. CASE Fail
      BY <1>3, <2>1, <2>3 DEF Fail
    <2>4. CASE /\ Type(User) \/ Type(Password)
               /\ Await("name") \/ Await("login") \/ Await("blind")
      <3>1. LoggingIn'
        BY <2>4 DEF Await, LoggingIn
      <3> QED BY <1>4, <2>1, <2>4, <3>1
    <2>5. CASE UNCHANGED typed /\ Await("login")
      <3>1. LoggingIn'
        BY <2>5 DEF Await, LoggingIn
      <3> QED BY <1>0, <1>1, <1>2, <2>1, <2>5, <3>1 DEF LoggingIn, LockedOut, Await
    <2> QED BY <1>7, <2>2, <2>3, <2>4, <2>5 DEF Banner, Name, Blind, Login
  <1>8. CASE Command
    <2>1. UNCHANGED deviceVars /\ pc = "command" /\ Valid(Vendor, plan) /\ SendCommand(next + 1)
      BY <1>8 DEF Command, Over, SesInv
    <2>2. next + 1 \in Nat \ {0}
      BY <1>0
    <2> QED BY <1>5, <2>1, <2>2
  <1>9. CASE NextPage
    <2>1. /\ UNCHANGED deviceVars /\ pc \in {"command", "page"} /\ pc' = "page"
          /\ \/ UNCHANGED typed
             \/ typed = <<>> /\ typed' = <<Space>>
      BY <1>9 DEF NextPage, Over, Await
    <2>2. CASE UNCHANGED typed
      BY <1>0, <1>2, <2>1, <2>2 DEF LoggingIn, LockedOut, deviceVars
    <2>3. CASE typed = <<>> /\ typed' = <<Space>>
      <3>1. DOMAIN typed' = {1} /\ typed'[1] = Space /\ Space \notin {User, Password}
        <4>1. Space \notin {User, Password}
          BY DEF Space, User, Password
        <4> QED BY <2>3, <4>1
      <3>2. ToSet(typed) = {} /\ ToSet(typed') = {Space}
        BY <2>3, <3>1 DEF ToSet
      <3>3. LoginFirst(typed')
        BY <3>1 DEF LoginFirst
      <3> QED BY <1>0, <1>2, <2>1, <3>1, <3>2, <3>3 DEF LoggingIn, LockedOut, NoLogin, deviceVars
    <2> QED BY <2>1, <2>2, <2>3
  <1> QED BY <1>6, <1>7, <1>8, <1>9 DEF Script

LEMMA QuietStep == SesInv /\ TypeInv /\ QuietInv /\ [SesNext]_sesVars => QuietInv'
  <1> SUFFICES ASSUME SesInv, TypeInv, QuietInv, [SesNext]_sesVars PROVE QuietInv'
    OBVIOUS
  <1>1. CASE UNCHANGED sesVars
    BY <1>1 DEF sesVars, scriptVars, deviceVars, QuietInv, LoggingIn, LockedOut
  <1> QED BY <1>1, DeviceQuiet, ScriptQuiet DEF SesNext

\* A device that obeys never stops at a page, whatever the login lines it took
\* for commands, and whichever of its prompts took the script's commands for a
\* name or a password: the plans turn paging off before they ask for a table
\* (policy.py READ_ONLY_COMMANDS, telnet.py run and the script).
THEOREM ObedientDeviceNeverPages == SesSpec => []PagedOnlyIfDisobeyed
  <1>1. QuietInv => PagedOnlyIfDisobeyed
    BY DEF QuietInv, PagedOnlyIfDisobeyed
  <1> QED BY <1>1, SesInitInv, SesStepInv, TypeInit, TypeStep, QuietInit, QuietStep, PTL DEF SesSpec

-----------------------------------------------------------------------------
(* Answers.                                                                *)
Answer(c)    == <<Echo(c)>> \o Table(c) \o <<Prompt>>
FirstPage(c) == <<Echo(c)>> \o SubSeq(Table(c), 1, PageSize) \o <<More>>

Reply(text, m) == [text |-> text, mode |-> m]

\* What the device may answer to the wait in progress, and its mode after that.
Replies ==
  IF pc \in {"offered", "banner"} THEN {Reply(Greeting(m), m) : m \in {"user", "pass", "shell"}}
  ELSE IF pc = "name"
       THEN {Reply(<<AskPass>>, "pass"), Reply(<<Prompt>>, "shell"), Reply(<<Rejected, AskUser>>, "user")}
  ELSE IF pc = "login" THEN {Reply(<<Prompt>>, "shell"), Reply(<<Rejected, AskUser>>, "user")}
  ELSE {Reply(Answer(plan[next]), "shell")}
         \cup (IF Len(Table(plan[next])) > PageSize THEN {Reply(FirstPage(plan[next]), "more")} ELSE {})

\* The device has taken the line and printed its answer, or a part of it at which
\* the connection was lost; or it has the line still to take.
Joined(g, s, y) == (g \o s) \o y
Heard(r) ==
  \/ mode = r.mode /\ typed = <<>> /\ Joined(got, said, saying) = r.text
  \/ mode = "closed" /\ saying = <<>> /\ \E rest \in Seq(Texts) : Joined(got, said, rest) = r.text
Sent(line, m) == mode = m /\ typed = <<line>> /\ got = <<>> /\ said = <<>> /\ saying = <<>>
Asked ==
  \/ pc = "name" /\ Sent(User, "user")
  \/ pc = "login" /\ Sent(Password, "pass")
  \/ pc = "command" /\ Sent(plan[next], "shell")

Answered == \A i \in DOMAIN sections : sections[i] = [cmd |-> plan[i], text |-> Answer(plan[i])]

Waits ==
  pc \in {"offered", "banner", "name", "login", "command"} => Asked \/ \E r \in Replies : Heard(r)

\* As long as no timer has fired the script and the device are in step.
SyncInv ==
  late = 0 =>
    /\ Waits
    /\ pc # "blind"
    /\ pc # "done" \/ outcome = "ok" => Answered
    /\ outcome = "ok" => Len(sections) = Len(plan)

LEMMA Kinds ==
  /\ Prompt.kind = "prompt" /\ (\A line : Echo(line).kind = "echo") /\ AskUser.kind = "askuser" /\ AskPass.kind = "askpass"
  /\ Rejected.kind = "rejected" /\ More.kind = "more"
  BY DEF Prompt, Echo, AskUser, AskPass, Rejected, More, Token

LEMMA Spoken == DialogueKinds = {"prompt", "askuser", "askpass", "rejected", "more"}
  BY Kinds DEF DialogueKinds, Dialogue

LEMMA TableKinds ==
  ASSUME NEW c, NEW i \in 1..Len(Table(c))
  PROVE  Table(c)[i].kind \notin {"prompt", "askuser", "askpass", "rejected", "more"}
  BY TableIs, Spoken

\* Only the last line of a greeting is of the dialogue.
LEMMA GreetingIs ==
  ASSUME NEW m \in {"user", "pass", "shell"}
  PROVE  /\ Greeting(m) \in Seq(Texts) /\ Len(Greeting(m)) \in Nat \ {0}
         /\ Greeting(m)[Len(Greeting(m))].kind =
              (IF m = "user" THEN "askuser" ELSE IF m = "pass" THEN "askpass" ELSE "prompt")
         /\ \A i \in 1..Len(Greeting(m)) : i # Len(Greeting(m)) => Greeting(m)[i].kind \notin DialogueKinds
  <1> DEFINE word == IF m = "user" THEN AskUser ELSE IF m = "pass" THEN AskPass ELSE Prompt
             w == <<word>>
             n == Len(Motd)
             g == Motd \o w
  <1>1. Greeting(m) = g
    BY DEF Greeting
  <1>2. word \in Texts
    BY TokenTexts
  <1>3. word.kind = IF m = "user" THEN "askuser" ELSE IF m = "pass" THEN "askpass" ELSE "prompt"
    BY Kinds
  <1> HIDE DEF word
  <1>4. w \in Seq(Texts) /\ Len(w) = 1 /\ w[1] = word
    BY <1>2
  <1>5. Motd \in Seq(Texts) /\ n \in Nat /\ \A i \in 1..n : Motd[i].kind \notin DialogueKinds
    BY TextIs, LenProperties
  <1> HIDE DEF w, n
  <1>6. /\ g \in Seq(Texts) /\ Len(g) = n + Len(w)
        /\ \A i \in 1..(n + Len(w)) : g[i] = IF i <= n THEN Motd[i] ELSE w[i - n]
    BY <1>4, <1>5, ConcatProperties DEF n
  <1> HIDE DEF g
  <1>7. Len(g) = n + 1 /\ n + 1 \in Nat \ {0}
    BY <1>4, <1>5, <1>6
  <1>8. g[n + 1] = word
    <2>1. n + 1 \in 1..(n + Len(w)) /\ ~(n + 1 <= n) /\ (n + 1) - n = 1
      BY <1>4, <1>5
    <2> QED BY <1>4, <1>6, <2>1
  <1>9. ASSUME NEW i \in 1..(n + 1), i # n + 1 PROVE g[i].kind \notin DialogueKinds
    <2>1. i \in 1..n /\ i <= n /\ i \in 1..(n + Len(w))
      BY <1>4, <1>5, <1>9
    <2>2. g[i] = Motd[i]
      BY <1>6, <2>1
    <2> QED BY <1>5, <2>1, <2>2
  <1> QED BY <1>1, <1>3, <1>6, <1>7, <1>8, <1>9

\* An answer is ended by a prompt, a page by its own prompt, and neither has one
\* before its end.
LEMMA Framed ==
  ASSUME NEW x \in Texts, NEW y \in Texts, NEW t \in Seq(Texts), x.kind \notin {"prompt", "more"},
         \A i \in 1..Len(t) : t[i].kind \notin {"prompt", "more"}
  PROVE  /\ <<x>> \o t \o <<y>> \in Seq(Texts) /\ Len(<<x>> \o t \o <<y>>) = Len(t) + 2
         /\ (<<x>> \o t \o <<y>>)[Len(t) + 2] = y
         /\ \A i \in 1..(Len(t) + 2) : i # Len(t) + 2 => (<<x>> \o t \o <<y>>)[i].kind \notin {"prompt", "more"}
  <1> DEFINE a == <<x>>
             b == <<y>>
             u == a \o t
             v == u \o b
             n == Len(t)
  <1>1. /\ a \in Seq(Texts) /\ Len(a) = 1 /\ a[1] = x
        /\ b \in Seq(Texts) /\ Len(b) = 1 /\ b[1] = y
        /\ n \in Nat /\ \A i \in 1..n : t[i].kind \notin {"prompt", "more"}
    BY LenProperties
  <1> HIDE DEF a, b, n
  <1>2. /\ u \in Seq(Texts) /\ Len(u) = n + 1
        /\ \A i \in 1..(n + 1) : u[i] = IF i <= 1 THEN a[i] ELSE t[i - 1]
    <2>1. /\ u \in Seq(Texts) /\ Len(u) = Len(a) + Len(t)
          /\ \A i \in 1..(Len(a) + Len(t)) : u[i] = IF i <= Len(a) THEN a[i] ELSE t[i - Len(a)]
      BY <1>1, ConcatProperties
    <2>2. Len(a) + Len(t) = n + 1
      BY <1>1 DEF n
    <2> HIDE DEF u
    <2> QED BY <1>1, <2>1, <2>2
  <1> HIDE DEF u
  <1>3. /\ v \in Seq(Texts) /\ Len(v) = n + 2
        /\ \A i \in 1..(n + 2) : v[i] = IF i <= n + 1 THEN u[i] ELSE b[i - (n + 1)]
    <2>1. /\ v \in Seq(Texts) /\ Len(v) = Len(u) + Len(b)
          /\ \A i \in 1..(Len(u) + Len(b)) : v[i] = IF i <= Len(u) THEN u[i] ELSE b[i - Len(u)]
      BY <1>1, <1>2, ConcatProperties
    <2>2. Len(u) + Len(b) = n + 2
      BY <1>1, <1>2
    <2> HIDE DEF v
    <2> QED BY <1>1, <1>2, <2>1, <2>2
  <1> HIDE DEF v
  <1>4. v[n + 2] = y
    <2>1. n + 2 \in 1..(n + 2) /\ ~(n + 2 <= n + 1) /\ (n + 2) - (n + 1) = 1
      BY <1>1
    <2> QED BY <1>1, <1>3, <2>1
  <1>5. ASSUME NEW i \in 1..(n + 2), i # n + 2 PROVE v[i].kind \notin {"prompt", "more"}
    <2>1. i \in 1..(n + 1) /\ i <= n + 1 /\ v[i] = u[i]
      <3>1. i \in 1..(n + 1) /\ i <= n + 1
        BY <1>1, <1>5
      <3> QED BY <1>3, <3>1
    <2>2. CASE i = 1
      BY <1>1, <1>2, <2>1, <2>2
    <2>3. CASE i # 1
      <3>1. i - 1 \in 1..n /\ ~(i <= 1)
        BY <1>1, <2>1, <2>3
      <3>2. u[i] = t[i - 1]
        BY <1>2, <2>1, <3>1
      <3>3. t[i - 1].kind \notin {"prompt", "more"}
        BY <1>1, <3>1
      <3> QED BY <2>1, <3>2, <3>3
    <2> QED BY <2>2, <2>3
  <1> QED BY <1>3, <1>4, <1>5 DEF v, u, a, b, n

LEMMA AnswerIs ==
  ASSUME NEW c \in Lines
  PROVE  /\ Answer(c) \in Seq(Texts) /\ Len(Answer(c)) \in Nat \ {0}
         /\ Answer(c)[Len(Answer(c))].kind = "prompt"
         /\ \A i \in 1..Len(Answer(c)) : i # Len(Answer(c)) => Answer(c)[i].kind \notin {"prompt", "more"}
  <1> DEFINE t == Table(c)
  <1>1. t \in Seq(Texts) /\ Len(t) \in Nat /\ \A i \in 1..Len(t) : t[i].kind \notin {"prompt", "more"}
    BY TableIs, TableKinds, LenProperties
  <1>2. Echo(c) \in Texts /\ Prompt \in Texts /\ Echo(c).kind \notin {"prompt", "more"}
    BY TokenTexts, Kinds
  <1>3. Answer(c) = <<Echo(c)>> \o t \o <<Prompt>>
    BY DEF Answer
  <1> HIDE DEF t
  <1>4. \A y \in Texts :
          LET s == <<Echo(c)>> \o t \o <<y>>
          IN  /\ s \in Seq(Texts) /\ Len(s) = Len(t) + 2 /\ s[Len(t) + 2] = y
              /\ \A i \in 1..(Len(t) + 2) : i # Len(t) + 2 => s[i].kind \notin {"prompt", "more"}
    BY <1>1, <1>2, Framed
  <1> DEFINE u == <<Echo(c)>> \o t \o <<Prompt>>
  <1>5. /\ u \in Seq(Texts) /\ Len(u) = Len(t) + 2 /\ u[Len(t) + 2] = Prompt
        /\ \A i \in 1..(Len(t) + 2) : i # Len(t) + 2 => u[i].kind \notin {"prompt", "more"}
    BY <1>2, <1>4
  <1> HIDE DEF u
  <1>6. Len(t) + 2 \in Nat \ {0}
    BY <1>1
  <1> QED BY <1>3, <1>5, <1>6, Kinds DEF u

LEMMA FirstPageIs ==
  ASSUME NEW c \in Lines, Len(Table(c)) > PageSize
  PROVE  /\ FirstPage(c) \in Seq(Texts) /\ Len(FirstPage(c)) \in Nat \ {0}
         /\ FirstPage(c)[Len(FirstPage(c))].kind = "more"
         /\ \A i \in 1..Len(FirstPage(c)) : i # Len(FirstPage(c)) => FirstPage(c)[i].kind \notin {"prompt", "more"}
  <1> DEFINE t == Table(c)
             s == SubSeq(t, 1, PageSize)
  <1>1. t \in Seq(Texts) /\ Len(t) \in Nat /\ \A i \in 1..Len(t) : t[i].kind \notin {"prompt", "more"}
    BY TableIs, TableKinds, LenProperties
  <1>2. PageSize \in Nat \ {0} /\ PageSize < Len(t)
    BY SessionAssumption
  <1> HIDE DEF t
  <1>3. \A i \in 1..PageSize : i \in 1..Len(t) /\ t[i] \in Texts
    BY <1>1, <1>2, ElementOfSeq
  <1>4. s \in Seq(Texts) /\ Len(s) = PageSize /\ \A i \in 1..PageSize : s[i] = t[i]
    <2>1. /\ s \in Seq(Texts) /\ Len(s) = IF 1 <= PageSize THEN PageSize - 1 + 1 ELSE 0
          /\ \A i \in 1..(PageSize - 1 + 1) : s[i] = t[1 + i - 1]
      BY <1>2, <1>3, SubSeqProperties
    <2>2. PageSize - 1 + 1 = PageSize /\ \A i \in 1..PageSize : 1 + i - 1 = i
      BY <1>2
    <2> QED BY <1>2, <2>1, <2>2
  <1>5. \A i \in 1..Len(s) : s[i].kind \notin {"prompt", "more"}
    BY <1>1, <1>3, <1>4
  <1>6. Echo(c) \in Texts /\ More \in Texts /\ Echo(c).kind \notin {"prompt", "more"}
    BY TokenTexts, Kinds
  <1>7. FirstPage(c) = <<Echo(c)>> \o s \o <<More>>
    BY DEF FirstPage, s, t
  <1> HIDE DEF s
  <1> QED BY <1>2, <1>4, <1>5, <1>6, <1>7, Framed, Kinds

\* The text that has been printed grows by what has still to be printed.
LEMMA Moved ==
  ASSUME NEW T, NEW g \in Seq(T), NEW s \in Seq(T), NEW y \in Seq(T), y # <<>>
  PROVE  Joined(g, Append(s, Head(y)), Tail(y)) = Joined(g, s, y)
  <1> DEFINE h == <<Head(y)>>
             z == Tail(y)
             gs == g \o s
  <1>1. Head(y) \in T /\ z \in Seq(T) /\ h \in Seq(T)
    BY HeadTailProperties
  <1>2. y = h \o z
    <2>1. Len(y) \in Nat /\ Len(y) # 0 /\ Head(y) = y[1]
      BY LenProperties, EmptySeq
    <2>2. 1 \in 1..Len(y) /\ Len(y) \in 1..Len(y) /\ 1 + 1 = 2
      BY <2>1
    <2>3. SubSeq(y, 1, Len(y)) = <<y[1]>> \o SubSeq(y, 1 + 1, Len(y))
      BY <2>2, SubSeqRecursiveFirst
    <2>4. SubSeq(y, 1, Len(y)) = y /\ z = SubSeq(y, 2, Len(y))
      BY SubSeqFull, TailIsSubSeq
    <2> QED BY <2>1, <2>2, <2>3, <2>4
  <1>3. Append(s, Head(y)) = s \o h
    BY <1>1, AppendIsConcat
  <1> HIDE DEF h, z
  <1>4. g \o (s \o h) = gs \o h
    BY <1>1, ConcatAssociative
  <1>5. gs \in Seq(T)
    BY ConcatProperties
  <1> HIDE DEF gs
  <1>6. (gs \o h) \o z = gs \o (h \o z)
    BY <1>1, <1>5, ConcatAssociative
  <1>7. (g \o Append(s, Head(y))) \o z = gs \o y
    BY <1>2, <1>3, <1>4, <1>6
  <1> QED BY <1>7 DEF gs, z, Joined

LEMMA NextLine == ASSUME TypeInv, pc \in {"command", "page"} PROVE plan[next] \in Lines
  <1>1. plan \in Seq(Lines) /\ next \in 1..Len(plan)
    BY PlanLen DEF TypeInv, SesTypeOK
  <1> QED BY <1>1, ElementOfSeq

LEMMA RepliesAre ==
  ASSUME TypeInv, pc \in {"offered", "banner", "name", "login", "command"}, NEW r \in Replies
  PROVE  r.text \in Seq(Texts)
  <1> DEFINE c == plan[next]
  <1>1. \A text, m : Reply(text, m).text = text
    BY DEF Reply
  <1> HIDE DEF c
  <1>2. \/ \E m : r.text = Greeting(m)
        \/ r.text \in {<<AskPass>>, <<Prompt>>, <<Rejected, AskUser>>}
        \/ c \in Lines /\ r.text = Answer(c)
        \/ c \in Lines /\ Len(Table(c)) > PageSize /\ r.text = FirstPage(c)
    BY <1>1, NextLine DEF Replies, c
  <1>3. \A m : Greeting(m) \in Seq(Texts)
    BY TokenTexts
  <1>4. /\ <<AskPass>> \in Seq(Texts) /\ <<Prompt>> \in Seq(Texts) /\ <<Rejected, AskUser>> \in Seq(Texts)
    BY TokenTexts
  <1>5. /\ c \in Lines => Answer(c) \in Seq(Texts)
        /\ c \in Lines /\ Len(Table(c)) > PageSize => FirstPage(c) \in Seq(Texts)
    BY AnswerIs, FirstPageIs
  <1>6. CASE \E m : r.text = Greeting(m)
    BY <1>3, <1>6
  <1>7. CASE r.text \in {<<AskPass>>, <<Prompt>>, <<Rejected, AskUser>>}
    BY <1>4, <1>7
  <1> QED BY <1>2, <1>5, <1>6, <1>7

\* A reply goes on being heard as it is printed and received, or is cut off.
LEMMA HeardKept ==
  ASSUME TypeInv, NEW r, r.text \in Seq(Texts), Heard(r), Say \/ Hangup \/ Receive
  PROVE  Heard(r)'
  <1>0. got \in Seq(Texts) /\ said \in Seq(Texts) /\ saying \in Seq(Texts)
    BY DEF TypeInv
  <1>1. CASE Say
    <2>1. /\ saying # <<>> /\ said' = Append(said, Head(saying)) /\ saying' = Tail(saying)
          /\ UNCHANGED <<got, mode, typed>>
      BY <1>1 DEF Say, scriptVars
    <2>2. Joined(got, Append(said, Head(saying)), Tail(saying)) = Joined(got, said, saying)
      <3>1. saying # <<>>
        BY <2>1
      <3> QED BY <1>0, <3>1, Moved
    <2>3. mode = r.mode /\ typed = <<>> /\ Joined(got, said, saying) = r.text
      BY <2>1 DEF Heard
    <2> QED BY <2>1, <2>2, <2>3 DEF Heard
  <1>2. CASE Hangup
    <2>1. mode # "closed" /\ mode' = "closed" /\ saying' = <<>> /\ UNCHANGED <<got, said, typed>>
      BY <1>2 DEF Hangup, scriptVars
    <2>2. Joined(got, said, saying) = r.text
      BY <2>1 DEF Heard
    <2>3. \E rest \in Seq(Texts) : Joined(got', said', rest) = r.text
      BY <1>0, <2>1, <2>2
    <2> QED BY <2>1, <2>3 DEF Heard
  <1>3. CASE Receive
    <2>1. got' = got \o said /\ said' = <<>> /\ UNCHANGED <<mode, saying, typed>>
      BY <1>3 DEF Receive, deviceVars
    <2>2. got' \o said' = got \o said
      <3>1. got \o said \in Seq(Texts)
        BY <1>0, ConcatProperties
      <3> QED BY <2>1, <3>1, ConcatEmptySeq
    <2> QED BY <2>1, <2>2 DEF Heard, Joined
  <1> QED BY <1>1, <1>2, <1>3

\* What has been received is the first part of the reply.
LEMMA GotIs ==
  ASSUME TypeInv, NEW r, r.text \in Seq(Texts), Heard(r)
  PROVE  /\ Len(got) \in Nat /\ Len(r.text) \in Nat /\ Len(got) <= Len(r.text) /\ DOMAIN got = 1..Len(got)
         /\ \A i \in 1..Len(got) : got[i] = r.text[i]
         /\ Len(got) = Len(r.text) =>
              got = r.text /\ said = <<>> /\ saying = <<>> /\ (mode = "closed" \/ (mode = r.mode /\ typed = <<>>))
  <1>1. got \in Seq(Texts) /\ said \in Seq(Texts) /\ saying \in Seq(Texts)
    BY DEF TypeInv
  <1>2. PICK rest \in Seq(Texts) :
          /\ (got \o said) \o rest = r.text
          /\ \/ mode = r.mode /\ typed = <<>> /\ rest = saying
             \/ mode = "closed" /\ saying = <<>>
    BY <1>1 DEF Heard, Joined
  <1> DEFINE gs == got \o said
             t == r.text
  <1>3. /\ gs \in Seq(Texts) /\ Len(gs) = Len(got) + Len(said)
        /\ \A i \in 1..(Len(got) + Len(said)) : gs[i] = IF i <= Len(got) THEN got[i] ELSE said[i - Len(got)]
    BY <1>1, ConcatProperties
  <1>4. gs \o rest = t
    BY <1>2
  <1> HIDE DEF gs, t
  <1>5. /\ Len(t) = Len(gs) + Len(rest)
        /\ \A i \in 1..(Len(gs) + Len(rest)) : t[i] = IF i <= Len(gs) THEN gs[i] ELSE rest[i - Len(gs)]
    <2>1. rest \in Seq(Texts) /\ gs \in Seq(Texts)
      BY <1>2, <1>3
    <2>2. /\ Len(gs \o rest) = Len(gs) + Len(rest)
          /\ \A i \in 1..(Len(gs) + Len(rest)) :
               (gs \o rest)[i] = IF i <= Len(gs) THEN gs[i] ELSE rest[i - Len(gs)]
      BY <2>1, ConcatProperties
    <2> QED BY <1>4, <2>2
  <1>6. Len(got) \in Nat /\ Len(said) \in Nat /\ Len(rest) \in Nat /\ DOMAIN got = 1..Len(got)
    BY <1>1, <1>2, LenProperties
  <1>7. Len(t) \in Nat /\ Len(got) <= Len(t)
    BY <1>3, <1>5, <1>6
  <1>8. ASSUME NEW i \in 1..Len(got) PROVE got[i] = t[i]
    <2>1. i \in 1..(Len(got) + Len(said)) /\ i \in 1..(Len(gs) + Len(rest)) /\ i <= Len(gs) /\ i <= Len(got)
      BY <1>3, <1>6
    <2>2. t[i] = gs[i]
      BY <1>5, <2>1
    <2>3. gs[i] = got[i]
      BY <1>3, <2>1
    <2> QED BY <2>2, <2>3
  <1>9. ASSUME Len(got) = Len(t) PROVE got = t /\ said = <<>> /\ rest = <<>>
    <2>1. Len(said) = 0 /\ Len(rest) = 0
      BY <1>3, <1>5, <1>6, <1>9
    <2>2. said = <<>> /\ rest = <<>>
      BY <1>1, <1>2, <2>1, EmptySeq
    <2>3. gs = got
      BY <1>1, <2>2, ConcatEmptySeq DEF gs
    <2>4. t = gs
      BY <1>3, <1>4, <2>2, ConcatEmptySeq
    <2> QED BY <2>2, <2>3, <2>4
  <1> QED BY <1>2, <1>6, <1>7, <1>8, <1>9 DEF t

\* A line of the text received which only ends the reply shows that all of it came.
LEMMA Ended ==
  ASSUME TypeInv, NEW r, r.text \in Seq(Texts), Heard(r), NEW i \in DOMAIN got,
         \A j \in 1..Len(r.text) : j # Len(r.text) => r.text[j].kind # got[i].kind
  PROVE  got = r.text /\ said = <<>> /\ saying = <<>> /\ (mode = "closed" \/ (mode = r.mode /\ typed = <<>>))
  <1>1. /\ Len(got) \in Nat /\ Len(r.text) \in Nat /\ Len(got) <= Len(r.text) /\ DOMAIN got = 1..Len(got)
        /\ \A k \in 1..Len(got) : got[k] = r.text[k]
    BY GotIs
  <1>2. i \in 1..Len(got) /\ i \in 1..Len(r.text)
    BY <1>1
  <1>3. i = Len(r.text)
    BY <1>1, <1>2
  <1>4. Len(got) = Len(r.text)
    BY <1>1, <1>2, <1>3
  <1> QED BY <1>4, GotIs

LEMMA RepliesIs ==
  /\ pc \in {"offered", "banner"} => Replies = {Reply(Greeting(m), m) : m \in {"user", "pass", "shell"}}
  /\ pc = "name" => Replies = {Reply(<<AskPass>>, "pass"), Reply(<<Prompt>>, "shell"),
                               Reply(<<Rejected, AskUser>>, "user")}
  /\ pc = "login" => Replies = {Reply(<<Prompt>>, "shell"), Reply(<<Rejected, AskUser>>, "user")}
  /\ pc = "command" =>
       /\ Reply(Answer(plan[next]), "shell") \in Replies
       /\ \A r \in Replies :
            \/ r = Reply(Answer(plan[next]), "shell")
            \/ Len(Table(plan[next])) > PageSize /\ r = Reply(FirstPage(plan[next]), "more")
  BY DEF Replies

LEMMA SyncInit == SesInit => SyncInv
  <1> SUFFICES ASSUME SesInit PROVE SyncInv
    OBVIOUS
  <1>1. /\ pc = "offered" /\ got = <<>> /\ said = <<>> /\ typed = <<>> /\ outcome = "none" /\ sections = <<>>
        /\ mode \in {"user", "pass", "shell"} /\ saying = Greeting(mode)
    BY DEF SesInit
  <1> DEFINE r == Reply(Greeting(mode), mode)
  <1>2. r \in Replies
    BY <1>1, RepliesIs
  <1>3. r.text = Greeting(mode) /\ r.mode = mode
    BY DEF Reply
  <1> HIDE DEF r
  <1>4. Joined(got, said, saying) = Greeting(mode)
    <2>1. Greeting(mode) \in Seq(Texts) /\ got \in Seq(Texts)
      BY <1>1, TokenTexts
    <2>2. got \o said = got
      BY <1>1, <2>1, ConcatEmptySeq
    <2>3. got \o saying = saying
      BY <1>1, <2>1, ConcatEmptySeq
    <2> QED BY <1>1, <2>2, <2>3 DEF Joined
  <1>5. Heard(r)
    BY <1>1, <1>3, <1>4 DEF Heard
  <1>6. Answered
    BY <1>1 DEF Answered
  <1> QED BY <1>1, <1>2, <1>5, <1>6 DEF SyncInv, Waits

\* What the wait and the plan say of the reply stays as they stay.
LEMMA RepliesKept == ASSUME UNCHANGED <<pc, plan, next>> PROVE Replies' = Replies
  BY DEF Replies

\* The device has printed nothing yet of what it says next, or is cut off before it.
LEMMA Printed ==
  ASSUME NEW r, r.text \in Seq(Texts), got' = <<>>, said' = <<>>, typed' = <<>>,
         mode' = r.mode, saying' = r.text
  PROVE  Heard(r)'
  BY ConcatEmptySeq, EmptySeq DEF Heard, Joined

LEMMA Cut ==
  ASSUME NEW r, r.text \in Seq(Texts), got' = <<>>, said' = <<>>, mode' = "closed", saying' = <<>>
  PROVE  Heard(r)'
  <1>1. Joined(got', said', r.text) = r.text
    BY ConcatEmptySeq, EmptySeq DEF Joined
  <1> QED BY <1>1 DEF Heard

LEMMA DeviceSync == ASSUME SesInv, TypeInv, SyncInv, Device \/ Hangup PROVE SyncInv'
  <1>1. UNCHANGED <<plan, pc, next, got, sections, outcome, late>>
    BY DEF Device, Say, TakeSpace, TakeName, TakePassword, TakeCommand, Takes, Hangup, scriptVars
  <1>2. Replies' = Replies
    BY <1>1, RepliesKept
  <1> SUFFICES ASSUME late = 0, pc \in {"offered", "banner", "name", "login", "command"}
               PROVE  Asked' \/ \E r \in Replies : Heard(r)'
    BY <1>1, <1>2 DEF SyncInv, Waits, Answered
  <1>3. CASE \E r \in Replies : Heard(r)
    <2>1. PICK r \in Replies : Heard(r)
      BY <1>3
    <2>2. r.text \in Seq(Texts)
      BY RepliesAre
    <2>3. typed = <<>> \/ mode = "closed"
      BY <2>1 DEF Heard
    <2>4. Say \/ Hangup
      BY <2>3 DEF Device, TakeSpace, TakeName, TakePassword, TakeCommand, Takes
    <2>5. Heard(r)'
      BY <2>1, <2>2, <2>4, HeardKept
    <2> QED BY <2>5
  <1>4. CASE Asked
    <2>1. saying = <<>> /\ got = <<>> /\ said = <<>> /\ mode \in {"user", "pass", "shell"}
      BY <1>4 DEF Asked, Sent
    <2>2. ~Say
      BY <2>1 DEF Say
    <2>3. got' = <<>>
      BY <1>1, <2>1
    <2>4. CASE Hangup
      <3>1. PICK r \in Replies : TRUE
        BY <1>4, RepliesIs DEF Asked
      <3>2. r.text \in Seq(Texts)
        BY RepliesAre
      <3>3. said' = <<>> /\ mode' = "closed" /\ saying' = <<>>
        BY <2>1, <2>4 DEF Hangup
      <3>4. Heard(r)'
        BY <2>3, <3>2, <3>3, Cut
      <3> QED BY <3>4
    <2>5. ASSUME NEW line, Takes(line)
          PROVE  said' = <<>> /\ typed' = <<>> /\ typed = <<line>>
      <3>1. PICK l : typed = <<l>>
        BY <1>4 DEF Asked, Sent
      <3>2. typed # <<>> /\ Head(typed) = line /\ typed' = Tail(typed) /\ said' = said
        BY <2>5 DEF Takes
      <3> QED BY <2>1, <3>1, <3>2
    <2>6. CASE pc = "name"
      <3>1. mode = "user"
        BY <1>4, <2>6 DEF Asked, Sent
      <3>2. CASE \E line : TakeName(line)
        <4>1. PICK line : TakeName(line)
          BY <3>2
        <4>2. /\ Takes(line)
              /\ \/ mode' = "pass" /\ saying' = <<AskPass>>
                 \/ mode' = "shell" /\ saying' = <<Prompt>>
                 \/ mode' = "user" /\ saying' = <<Rejected, AskUser>>
          BY <4>1 DEF TakeName
        <4>3. PICK r \in Replies : r.mode = mode' /\ r.text = saying'
          <5>1. /\ Reply(<<AskPass>>, "pass") \in Replies
                /\ Reply(<<Prompt>>, "shell") \in Replies
                /\ Reply(<<Rejected, AskUser>>, "user") \in Replies
            BY <2>6, RepliesIs
          <5> QED BY <4>2, <5>1 DEF Reply
        <4>4. Heard(r)'
          BY <2>3, <2>5, <4>2, <4>3, RepliesAre, Printed
        <4> QED BY <4>4
      <3> QED BY <2>2, <2>4, <3>1, <3>2 DEF Device, TakeSpace, TakePassword, TakeCommand
    <2>7. CASE pc = "login"
      <3>1. mode = "pass"
        BY <1>4, <2>7 DEF Asked, Sent
      <3>2. CASE \E line : TakePassword(line)
        <4>1. PICK line : TakePassword(line)
          BY <3>2
        <4>2. /\ Takes(line)
              /\ \/ mode' = "shell" /\ saying' = <<Prompt>>
                 \/ mode' = "user" /\ saying' = <<Rejected, AskUser>>
          BY <4>1 DEF TakePassword
        <4>3. PICK r \in Replies : r.mode = mode' /\ r.text = saying'
          <5>1. /\ Reply(<<Prompt>>, "shell") \in Replies
                /\ Reply(<<Rejected, AskUser>>, "user") \in Replies
            BY <2>7, RepliesIs
          <5> QED BY <4>2, <5>1 DEF Reply
        <4>4. Heard(r)'
          BY <2>3, <2>5, <4>2, <4>3, RepliesAre, Printed
        <4> QED BY <4>4
      <3> QED BY <2>2, <2>4, <3>1, <3>2 DEF Device, TakeSpace, TakeName, TakeCommand
    <2>8. CASE pc = "command"
      <3>1. mode = "shell" /\ typed = <<plan[next]>>
        BY <1>4, <2>8 DEF Asked, Sent
      <3>2. ~TakeSpace
        <4>1. plan \in Seq(Lines) /\ Valid(Vendor, plan) /\ next \in 1..Len(plan)
          BY <2>8, PlanLen DEF SesInv, TypeInv
        <4>2. plan[next] # Space
          BY <4>1, PlanCommands DEF Logins
        <4>3. Takes(Space) => plan[next] = Space
          BY <2>5, <3>1
        <4> QED BY <4>2, <4>3 DEF TakeSpace
      <3>3. CASE \E line : TakeCommand(line)
        <4>1. PICK line : TakeCommand(line)
          BY <3>3
        <4>2. Takes(line)
          BY <4>1 DEF TakeCommand
        <4>3. line = plan[next]
          BY <2>5, <3>1, <4>2
        <4>4. \/ Len(Table(line)) > PageSize /\ mode' = "more" /\ saying' = FirstPage(line)
              \/ mode' = "shell" /\ saying' = Answer(line)
          BY <4>1 DEF TakeCommand, FirstPage, Answer
        <4>5. PICK r \in Replies : r.mode = mode' /\ r.text = saying'
          <5>1. Reply(Answer(line), "shell") \in Replies
            BY <2>8, <4>3, RepliesIs
          <5>2. Len(Table(line)) > PageSize => Reply(FirstPage(line), "more") \in Replies
            BY <2>8, <4>3 DEF Replies
          <5> QED BY <4>4, <5>1, <5>2 DEF Reply
        <4>6. Heard(r)'
          BY <2>3, <2>5, <4>2, <4>5, RepliesAre, Printed
        <4> QED BY <4>6
      <3> QED BY <2>2, <2>4, <3>1, <3>2, <3>3 DEF Device, TakeName, TakePassword
    <2> QED BY <1>4, <2>6, <2>7, <2>8 DEF Asked
  <1> QED BY <1>3, <1>4 DEF SyncInv, Waits

\* A reply of one line has come whole once anything of it has come.
LEMMA OneLine ==
  ASSUME TypeInv, NEW r, NEW x \in Texts, r.text = <<x>>, Heard(r), got # <<>>
  PROVE  got = <<x>> /\ said = <<>> /\ saying = <<>> /\ (mode = "closed" \/ (mode = r.mode /\ typed = <<>>))
  <1>1. r.text \in Seq(Texts) /\ Len(r.text) = 1
    OBVIOUS
  <1>2. Len(got) \in Nat /\ Len(got) # 0
    BY LenProperties, EmptySeq DEF TypeInv
  <1>3. Len(got) = Len(r.text)
    <2>1. Len(got) <= Len(r.text)
      BY <1>1, GotIs
    <2>2. \A n \in Nat : n # 0 /\ n <= 1 => n = 1
      OBVIOUS
    <2> QED BY <1>1, <1>2, <2>1, <2>2, Zenon
  <1>4. got = r.text /\ said = <<>> /\ saying = <<>> /\ (mode = "closed" \/ (mode = r.mode /\ typed = <<>>))
    BY <1>1, <1>3, GotIs
  <1>5. got = <<x>>
    BY <1>4, Zenon
  <1> QED BY <1>4, <1>5

\* A line is typed to a device that has printed its reply, or that has hung up.
LEMMA Sending ==
  ASSUME TypeInv, UNCHANGED <<plan, deviceVars>>, got' = <<>>, said' = <<>>, saying = <<>>,
         NEW m, mode = "closed" \/ (mode = m /\ typed = <<>>), NEW line \in Lines, Type(line),
         \/ pc' = "name" /\ m = "user" /\ line = User
         \/ pc' = "login" /\ m = "pass" /\ line = Password
         \/ pc' = "command" /\ m = "shell" /\ line = plan'[next']
  PROVE  Asked' \/ \E r \in Replies' : Heard(r)'
  <1>1. CASE mode = "closed"
    <2>1. PICK r \in Replies' : r.text \in Seq(Texts)
      <3>1. /\ pc' = "name" => Reply(<<AskPass>>, "pass") \in Replies'
            /\ pc' = "login" => Reply(<<Prompt>>, "shell") \in Replies'
            /\ pc' = "command" => Reply(Answer(plan'[next']), "shell") \in Replies'
        BY DEF Replies
      <3>2. \A text, q : Reply(text, q).text = text
        BY DEF Reply
      <3>3. /\ <<AskPass>> \in Seq(Texts) /\ <<Prompt>> \in Seq(Texts)
            /\ pc' = "command" => Answer(plan'[next']) \in Seq(Texts)
        BY TokenTexts, AnswerIs
      <3> QED BY <3>1, <3>2, <3>3
    <2>2. r.text \in Seq(Texts)
      BY <2>1
    <2>3. said' = <<>> /\ mode' = "closed" /\ saying' = <<>>
      BY <1>1 DEF deviceVars
    <2>4. Heard(r)'
      BY <2>2, <2>3, Cut
    <2> QED BY <2>1, <2>4
  <1>2. CASE mode # "closed"
    <2>1. typed = <<>> /\ mode = m
      BY <1>2
    <2>2. typed' = Append(typed, line)
      BY <1>2 DEF Type
    <2>3. typed' = <<line>>
      BY <2>1, <2>2
    <2>4. mode' = m /\ said' = <<>> /\ saying' = <<>> /\ got' = <<>>
      BY <2>1 DEF deviceVars
    <2>5. CASE pc' = "command" /\ m = "shell" /\ line = plan'[next']
      BY <2>3, <2>4, <2>5 DEF Asked, Sent
    <2>6. CASE pc' = "name" /\ m = "user" /\ line = User
      BY <2>3, <2>4, <2>6 DEF Asked, Sent
    <2>7. CASE pc' = "login" /\ m = "pass" /\ line = Password
      BY <2>3, <2>4, <2>7 DEF Asked, Sent
    <2> QED BY <2>5, <2>6, <2>7
  <1> QED BY <1>1, <1>2

\* A refusal is recognised by its first line.
LEMMA Refused ==
  ASSUME TypeInv, got # <<>>, NEW r, r = Reply(<<Rejected, AskUser>>, "user"), Heard(r)
  PROVE  Has(got, "rejected")
  <1>1. r.text = <<Rejected, AskUser>> /\ r.text \in Seq(Texts)
    BY TokenTexts DEF Reply
  <1>2. Len(got) \in Nat /\ Len(got) # 0
    BY LenProperties, EmptySeq DEF TypeInv
  <1>3. 1 \in DOMAIN got /\ got[1] = Rejected
    <2>1. DOMAIN got = 1..Len(got) /\ \A i \in 1..Len(got) : got[i] = r.text[i]
      BY <1>1, GotIs
    <2> QED BY <1>1, <1>2, <2>1
  <1> QED BY <1>3, Kinds DEF Has

\* A step of the script before its first command.
LEMMA LoginSync ==
  ASSUME TypeInv, SyncInv, late = 0, late' = 0, Awaited, Banner \/ Name \/ Blind \/ Login
  PROVE  \/ Fail
         \/ /\ pc' = "login" \/ pc' = "name"
            /\ outcome' = outcome
            /\ Asked' \/ \E r \in Replies' : Heard(r)'
         \/ /\ SendCommand(1)
            /\ 1 <= Len(plan) => Asked' \/ \E r \in Replies' : Heard(r)'
  <1>1. /\ UNCHANGED <<plan, deviceVars, next, sections>> /\ pc # "blind" /\ next = 1
        /\ pc \in {"banner", "name", "login"}
    BY DEF Banner, Name, Blind, Login, Over, SyncInv, TypeInv, LoggingIn
  <1>2. got # <<>>
    BY DEF Awaited, AtPrompt, Has
  <1>3. ~Asked
    BY <1>2 DEF Asked, Sent
  <1>4. PICK r \in Replies : Heard(r)
    BY <1>1, <1>3 DEF SyncInv, Waits
  <1>5. AskUser \in Texts /\ AskPass \in Texts /\ Prompt \in Texts /\ User \in Lines /\ Password \in Lines
    BY TokenTexts DEF Lines, Logins
  <1>6. ASSUME said' = <<>>, saying = <<>>, mode = "closed" \/ (mode = "shell" /\ typed = <<>>),
               SendCommand(1), 1 <= Len(plan)
        PROVE  Asked' \/ \E q \in Replies' : Heard(q)'
    <2>1. Type(plan[1]) /\ pc' = "command" /\ got' = <<>>
      BY <1>6, SendIs
    <2>2. plan[1] = plan'[next'] /\ plan[1] \in Lines
      <3>1. plan \in Seq(Lines) /\ 1 \in 1..Len(plan)
        BY <1>6, PlanLen
      <3> QED BY <1>1, <3>1, ElementOfSeq
    <2> QED BY <1>1, <1>6, <2>1, <2>2, Sending
  <1>7. CASE pc = "banner"
    <2>1. PICK m \in {"user", "pass", "shell"} : r = Reply(Greeting(m), m)
      BY <1>4, <1>7, RepliesIs
    <2>2. r.text = Greeting(m) /\ r.mode = m /\ r.text \in Seq(Texts)
      BY <2>1, GreetingIs DEF Reply
    <2>3. /\ got = Greeting(m) /\ said = <<>> /\ saying = <<>>
          /\ mode = "closed" \/ (mode = m /\ typed = <<>>)
      <3>1. PICK i \in DOMAIN got : got[i].kind \in {"askuser", "askpass", "prompt"}
        <4>1. AtPrompt(got) => Len(got) \in DOMAIN got /\ got[Len(got)].kind = "prompt"
          BY <1>2, LenProperties, EmptySeq DEF AtPrompt, Last, TypeInv
        <4> QED BY <1>7, <4>1 DEF Awaited, Has
      <3>2. \A j \in 1..Len(r.text) : j # Len(r.text) => r.text[j].kind # got[i].kind
        BY <2>2, <3>1, GreetingIs, Spoken
      <3> QED BY <1>4, <2>2, <3>1, <3>2, Ended
    <2>4. /\ Has(got, "askuser") => m = "user"
          /\ Has(got, "askpass") => m = "pass"
          /\ AtPrompt(got) => m = "shell"
      <3> DEFINE g == Greeting(m)
      <3>1. /\ g \in Seq(Texts) /\ Len(g) \in Nat \ {0}
            /\ g[Len(g)].kind = IF m = "user" THEN "askuser" ELSE IF m = "pass" THEN "askpass" ELSE "prompt"
            /\ \A i \in 1..Len(g) : i # Len(g) => g[i].kind \notin DialogueKinds
        BY GreetingIs
      <3>2. got = g
        BY <2>3
      <3> HIDE DEF g
      <3>3. DOMAIN got = 1..Len(g)
        BY <3>1, <3>2, LenProperties
      <3> QED BY <3>1, <3>2, <3>3, Spoken DEF Has, AtPrompt, Last
    <2>5. Banner
      BY <1>7 DEF Banner, Name, Blind, Login, Over
    <2>6. got \o said = got
      BY <2>3, ConcatEmptySeq DEF TypeInv
    <2>7. /\ said' = <<>>
          /\ \/ Has(got, "askuser") /\ Type(User) /\ Await("name")
             \/ Has(got, "askpass") /\ Type(Password) /\ Await("login")
             \/ AtPrompt(got) /\ SendCommand(1)
      BY <1>2, <1>7, <2>5, <2>6 DEF Banner, Awaited
    <2>8. CASE Has(got, "askuser") /\ Type(User) /\ Await("name")
      BY <1>1, <1>5, <2>3, <2>4, <2>7, <2>8, Sending DEF Await
    <2>9. CASE Has(got, "askpass") /\ Type(Password) /\ Await("login")
      BY <1>1, <1>5, <2>3, <2>4, <2>7, <2>9, Sending DEF Await
    <2>10. CASE AtPrompt(got) /\ SendCommand(1)
      BY <1>6, <2>3, <2>4, <2>7, <2>10
    <2> QED BY <2>7, <2>8, <2>9, <2>10
  <1>8. CASE pc = "name"
    <2>1. said' = said
      BY <1>8 DEF Banner, Name, Blind, Login, Over
    <2>2. CASE r = Reply(<<AskPass>>, "pass")
      <3>1. r.text = <<AskPass>> /\ r.mode = "pass"
        BY <2>2 DEF Reply
      <3>2. got = <<AskPass>> /\ said = <<>> /\ saying = <<>> /\ (mode = "closed" \/ (mode = "pass" /\ typed = <<>>))
        BY <1>2, <1>4, <1>5, <3>1, OneLine
      <3>3. Has(got, "askpass") /\ ~Has(got, "rejected")
        <4>1. DOMAIN got = {1} /\ got[1] = AskPass
          BY <3>2
        <4> QED BY <4>1, Kinds DEF Has
      <3>4. Type(Password) /\ Await("login")
        BY <1>8, <3>3 DEF Banner, Name, Blind, Login, Over
      <3> QED BY <1>1, <1>5, <2>1, <3>2, <3>4, Sending DEF Await
    <2>3. CASE r = Reply(<<Prompt>>, "shell")
      <3>1. r.text = <<Prompt>> /\ r.mode = "shell"
        BY <2>3 DEF Reply
      <3>2. got = <<Prompt>> /\ said = <<>> /\ saying = <<>> /\ (mode = "closed" \/ (mode = "shell" /\ typed = <<>>))
        BY <1>2, <1>4, <1>5, <3>1, OneLine
      <3>3. AtPrompt(got) /\ ~Has(got, "askpass") /\ ~Has(got, "rejected")
        <4>1. \A x : Last(<<x>>) = x /\ DOMAIN <<x>> = {1} /\ <<x>>[1] = x
          BY DEF Last
        <4> QED BY <1>2, <3>2, <4>1, Kinds DEF Has, AtPrompt
      <3>4. SendCommand(1)
        BY <1>8, <3>3 DEF Banner, Name, Blind, Login, Over
      <3> QED BY <1>6, <2>1, <3>2, <3>4
    <2>4. CASE r = Reply(<<Rejected, AskUser>>, "user")
      <3>1. Has(got, "rejected")
        BY <1>2, <1>4, <2>4, Refused
      <3> QED BY <1>8, <3>1 DEF Banner, Name, Blind, Login, Over
    <2> QED BY <1>4, <1>8, <2>2, <2>3, <2>4, RepliesIs
  <1>9. CASE pc = "login"
    <2>1. (IF Has(got, "askpass") \/ Has(got, "rejected") THEN Fail ELSE SendCommand(1)) /\ said' = said
      BY <1>9 DEF Banner, Name, Blind, Login, Over
    <2>2. CASE r = Reply(<<Prompt>>, "shell")
      <3>1. r.text = <<Prompt>> /\ r.mode = "shell"
        BY <2>2 DEF Reply
      <3>2. said = <<>> /\ saying = <<>> /\ (mode = "closed" \/ (mode = "shell" /\ typed = <<>>))
        BY <1>2, <1>4, <1>5, <3>1, OneLine
      <3> QED BY <1>6, <2>1, <3>2
    <2>3. CASE r = Reply(<<Rejected, AskUser>>, "user")
      <3>1. Has(got, "rejected")
        BY <1>2, <1>4, <2>3, Refused
      <3> QED BY <2>1, <3>1
    <2> QED BY <1>4, <1>9, <2>2, <2>3, RepliesIs
  <1> QED BY <1>1, <1>7, <1>8, <1>9

\* A command is ended by its prompt, and has then been answered in full.
LEMMA CommandSync ==
  ASSUME TypeInv, SyncInv, late = 0, late' = 0, Awaited, Command
  PROVE  /\ got = Answer(plan[next]) /\ Answered'
         /\ next + 1 <= Len(plan) => Asked' \/ \E r \in Replies' : Heard(r)'
  <1>1. /\ UNCHANGED <<plan, deviceVars, said>> /\ pc = "command" /\ ~Has(got, "more")
        /\ sections' = Append(sections, [cmd |-> plan[next], text |-> got])
        /\ next' = next + 1 /\ SendCommand(next + 1)
    BY DEF Command, Over
  <1>2. got # <<>> /\ Last(got).kind = "prompt"
    BY <1>1 DEF Awaited, AtPrompt
  <1>3. ~Asked
    BY <1>2 DEF Asked, Sent
  <1>4. PICK r \in Replies : Heard(r)
    BY <1>1, <1>3 DEF SyncInv, Waits
  <1>5. r.text \in Seq(Texts) /\ plan[next] \in Lines
    BY <1>1, RepliesAre, NextLine
  <1> DEFINE n == Len(got)
  <1>6. n \in Nat /\ n # 0 /\ DOMAIN got = 1..n /\ got[n].kind = "prompt"
    BY <1>2, LenProperties, EmptySeq DEF TypeInv, Last
  <1> HIDE DEF n
  <1>7. n \in DOMAIN got
    BY <1>6
  <1>8. /\ Len(r.text) \in Nat /\ n <= Len(r.text)
        /\ \A i \in 1..n : got[i] = r.text[i]
    BY <1>4, <1>5, GotIs DEF n
  <1>9. r = Reply(Answer(plan[next]), "shell")
    <2>1. SUFFICES ASSUME Len(Table(plan[next])) > PageSize, r = Reply(FirstPage(plan[next]), "more")
                   PROVE  FALSE
      BY <1>1, <1>4, RepliesIs
    <2> DEFINE c == plan[next]
               t == FirstPage(c)
    <2>2. r.text = t
      BY <2>1 DEF Reply
    <2>3. /\ t[Len(t)].kind = "more"
          /\ \A i \in 1..Len(t) : i # Len(t) => t[i].kind # "prompt"
      BY <1>5, <2>1, FirstPageIs
    <2> HIDE DEF t
    <2>4. n \in 1..Len(t) /\ got[n] = t[n]
      BY <1>6, <1>8, <2>2
    <2> QED BY <1>6, <2>3, <2>4
  <1>10. r.text = Answer(plan[next]) /\ r.mode = "shell"
    BY <1>9 DEF Reply
  <1>11. \A j \in 1..Len(r.text) : j # Len(r.text) => r.text[j].kind # got[n].kind
    <2> DEFINE t == Answer(plan[next])
    <2>1. \A j \in 1..Len(t) : j # Len(t) => t[j].kind # "prompt"
      BY <1>5, AnswerIs
    <2> HIDE DEF t
    <2> QED BY <1>6, <1>10, <2>1 DEF t
  <1>12. got = r.text /\ said = <<>> /\ saying = <<>> /\ (mode = "closed" \/ (mode = "shell" /\ typed = <<>>))
    BY <1>4, <1>5, <1>7, <1>10, <1>11, Ended
  <1>13. got = Answer(plan[next])
    BY <1>10, <1>12
  <1>14. Answered'
    <2> DEFINE x == [cmd |-> plan[next], text |-> got]
               k == Len(sections)
    <2>1. sections \in Seq(Section) /\ k = next - 1 /\ next \in Nat \ {0} /\ Answered
      BY <1>1, PlanLen DEF TypeInv, SesTypeOK, SyncInv
    <2>2. x = [cmd |-> plan[next], text |-> Answer(plan[next])]
      BY <1>13
    <2>3. sections' = Append(sections, x)
      BY <1>1
    <2>4. x \in Section
      <3>1. next \in DOMAIN plan
        BY <1>1, PlanLen, LenProperties DEF TypeInv, SesTypeOK
      <3> QED BY <3>1 DEF Section, ToSet, TypeInv
    <2> HIDE DEF x
    <2>5. /\ sections' \in Seq(Section) /\ Len(sections') = k + 1
          /\ \A i \in 1..k : sections'[i] = sections[i]
          /\ sections'[k + 1] = x
      BY <2>1, <2>3, <2>4, AppendProperties
    <2>6. DOMAIN sections = 1..k /\ k \in Nat
      BY <2>1, LenProperties
    <2> HIDE DEF k
    <2>7. DOMAIN sections' = 1..(k + 1)
      BY <2>5, LenProperties
    <2>8. ASSUME NEW i \in 1..(k + 1) PROVE sections'[i] = [cmd |-> plan[i], text |-> Answer(plan[i])]
      <3>1. CASE i = k + 1
        <4>1. i = next
          BY <2>1, <2>6, <3>1
        <4> QED BY <2>2, <2>5, <3>1, <4>1
      <3>2. CASE i # k + 1
        <4>1. i \in 1..k
          BY <2>6, <3>2
        <4> QED BY <2>1, <2>5, <2>6, <4>1 DEF Answered
      <3> QED BY <3>1, <3>2
    <2> QED BY <1>1, <2>7, <2>8 DEF Answered
  <1>15. ASSUME next + 1 <= Len(plan) PROVE Asked' \/ \E q \in Replies' : Heard(q)'
    <2>1. Type(plan[next + 1]) /\ pc' = "command" /\ got' = <<>>
      BY <1>1, <1>15, SendIs
    <2>2. plan[next + 1] = plan'[next'] /\ plan[next + 1] \in Lines
      <3>1. plan \in Seq(Lines) /\ next + 1 \in 1..Len(plan)
        BY <1>15, PlanLen DEF TypeInv, SesTypeOK
      <3> QED BY <1>1, <3>1, ElementOfSeq
    <2> QED BY <1>1, <1>12, <2>1, <2>2, Sending
  <1> QED BY <1>13, <1>14, <1>15

LEMMA ScriptSync == ASSUME TypeInv, TypeInv', SyncInv, Script \/ Kill \/ Break PROVE SyncInv'
  <1> SUFFICES ASSUME late' = 0
               PROVE  /\ Waits'
                      /\ pc' # "blind"
                      /\ pc' # "done" \/ outcome' = "ok" => Answered'
                      /\ outcome' = "ok" => Len(sections') = Len(plan')
    BY DEF SyncInv
  <1>0. late \in Nat /\ SesTypeOK /\ (pc # "done" => outcome = "none" /\ Len(sections) = next - 1)
    BY SessionAssumption DEF TypeInv, SesTypeOK
  <1>1. CASE Accept
    <2>1. pc = "offered" /\ pc' = "banner"
          /\ UNCHANGED <<plan, next, got, sections, outcome, late, deviceVars, typed, said>>
      BY <1>1 DEF Accept
    <2>2. Replies' = Replies
      BY <2>1 DEF Replies
    <2>3. PICK r \in Replies : Heard(r)
      BY <2>1 DEF SyncInv, Waits, Asked
    <2>4. Heard(r)'
      BY <2>1, <2>3 DEF Heard, deviceVars
    <2>5. Waits'
      BY <2>2, <2>4 DEF Waits
    <2> QED BY <1>0, <2>1, <2>5 DEF SyncInv, Answered
  <1>2. CASE Refuse \/ Kill \/ Break
    <2>1. pc' = "done" /\ outcome' # "ok"
      BY <1>2 DEF Refuse, Kill, Break
    <2> QED BY <2>1 DEF Waits
  <1>3. CASE Receive
    <2>1. UNCHANGED <<plan, pc, next, sections, outcome, late, deviceVars, typed>> /\ said # <<>> /\ pc # "done"
      BY <1>3 DEF Receive, Running
    <2>2. Replies' = Replies
      BY <2>1, RepliesKept
    <2>3. ASSUME pc \in {"offered", "banner", "name", "login", "command"}
          PROVE  \E r \in Replies : Heard(r)'
      <3>1. ~Asked
        BY <2>1 DEF Asked, Sent
      <3>2. PICK r \in Replies : Heard(r)
        BY <2>1, <2>3, <3>1 DEF SyncInv, Waits
      <3>3. Heard(r)'
        BY <1>3, <2>3, <3>2, RepliesAre, HeardKept
      <3> QED BY <3>3
    <2>4. Waits'
      BY <2>1, <2>2, <2>3 DEF Waits
    <2> QED BY <1>0, <2>1, <2>4 DEF SyncInv, Answered
  <1>4. ASSUME NEW label, Over(label)
        PROVE  late = 0 /\ Awaited /\ pc = label /\ UNCHANGED <<plan, deviceVars, said>>
    <2>1. Awaited /\ late' = late
      BY <1>0, <1>4, OverIs
    <2> QED BY <1>4, <2>1 DEF Over
  <1>5. CASE Banner \/ Name \/ Blind \/ Login
    <2>1. /\ late = 0 /\ Awaited /\ UNCHANGED <<plan, next, sections>>
          /\ pc \in {"banner", "name", "blind", "login"}
      <3>1. CASE Banner
        BY <1>0, <3>1, BannerIs
      <3>2. CASE Name \/ Blind \/ Login
        BY <1>4, <3>2 DEF Name, Blind, Login
      <3> QED BY <1>5, <3>1, <3>2
    <2>2. Answered' /\ outcome = "none" /\ next = 1 /\ Len(sections) = 0
      BY <1>0, <2>1 DEF SyncInv, Answered, TypeInv, LoggingIn
    <2>3. \/ Fail
          \/ (pc' = "login" \/ pc' = "name") /\ outcome' = outcome /\ (Asked' \/ \E r \in Replies' : Heard(r)')
          \/ SendCommand(1) /\ (1 <= Len(plan) => Asked' \/ \E r \in Replies' : Heard(r)')
      BY <1>5, <2>1, LoginSync
    <2>4. CASE Fail
      BY <2>4 DEF Fail, Waits
    <2>5. CASE (pc' = "login" \/ pc' = "name") /\ outcome' = outcome /\ (Asked' \/ \E r \in Replies' : Heard(r)')
      BY <2>2, <2>5 DEF Waits
    <2>6. CASE SendCommand(1) /\ (1 <= Len(plan) => Asked' \/ \E r \in Replies' : Heard(r)')
      <3>1. CASE 1 <= Len(plan)
        <4>1. pc' = "command" /\ outcome' = "none"
          BY <2>2, <2>6, <3>1, SendIs
        <4> QED BY <2>2, <2>6, <3>1, <4>1 DEF Waits
      <3>2. CASE ~(1 <= Len(plan))
        <4>1. pc' = "done" /\ Len(plan) = 0
          BY <2>6, <3>2, SendIs, PlanLen
        <4> QED BY <2>1, <2>2, <4>1 DEF Waits
      <3> QED BY <3>1, <3>2
    <2> QED BY <2>3, <2>4, <2>5, <2>6
  <1>6. CASE Command
    <2>1. late = 0 /\ Awaited /\ pc = "command" /\ plan' = plan /\ SendCommand(next + 1) /\ outcome = "none"
      BY <1>0, <1>4, <1>6 DEF Command
    <2>2. Answered' /\ (next + 1 <= Len(plan) => Asked' \/ \E r \in Replies' : Heard(r)')
      BY <1>6, <2>1, CommandSync
    <2>3. CASE next + 1 <= Len(plan)
      <3>1. pc' = "command" /\ outcome' = "none"
        BY <2>1, <2>3, SendIs
      <3> QED BY <2>2, <2>3, <3>1 DEF Waits
    <2>4. CASE ~(next + 1 <= Len(plan))
      <3>1. pc' = "done"
        BY <2>1, <2>4, SendIs
      <3>2. Len(sections') = Len(plan)
        <4>1. next \in Nat \ {0} /\ next <= Len(plan) /\ Len(plan) \in Nat
          BY <2>1, PlanLen DEF TypeInv, SesTypeOK
        <4>2. Len(sections') = next
          <5>1. Len(sections) = next - 1 /\ sections \in Seq(Section)
            BY <1>0, <2>1 DEF TypeInv
          <5>2. next \in DOMAIN plan /\ got \in Seq(Texts)
            BY <4>1, PlanLen, LenProperties DEF TypeInv
          <5>3. [cmd |-> plan[next], text |-> got] \in Section
            BY <5>2 DEF Section, ToSet
          <5>4. sections' = Append(sections, [cmd |-> plan[next], text |-> got])
            BY <1>6 DEF Command
          <5>5. Len(sections') = Len(sections) + 1
            BY <5>1, <5>3, <5>4, AppendProperties
          <5> QED BY <4>1, <5>1, <5>5
        <4> QED BY <2>4, <4>1, <4>2
      <3> QED BY <2>1, <2>2, <3>1, <3>2 DEF Waits
    <2> QED BY <2>3, <2>4
  <1>7. CASE NextPage
    <2>1. /\ late = 0 /\ UNCHANGED <<plan, next, sections, outcome>> /\ pc' = "page"
          /\ pc \in {"command", "page"}
      BY <1>4, <1>7 DEF NextPage, Await
    <2> QED BY <1>0, <2>1 DEF SyncInv, Waits, Answered
  <1> QED BY <1>1, <1>2, <1>3, <1>5, <1>6, <1>7 DEF Script

LEMMA SyncStep == SesInv /\ TypeInv /\ TypeInv' /\ SyncInv /\ [SesNext]_sesVars => SyncInv'
  <1> SUFFICES ASSUME SesInv, TypeInv, TypeInv', SyncInv, [SesNext]_sesVars PROVE SyncInv'
    OBVIOUS
  <1>1. CASE UNCHANGED sesVars
    BY <1>1 DEF sesVars, scriptVars, deviceVars, SyncInv, Waits, Asked, Sent, Heard, Replies, Answered
  <1> QED BY <1>1, DeviceSync, ScriptSync DEF SesNext

\* A collection that succeeds before any timer of the script has fired has under
\* each header of the plan the whole answer to that command and nothing else,
\* however the device's text was cut up on its way (the Wait-For loops of the
\* script, and telnet.py run).
THEOREM AnswersStandUnderTheirHeaders == SesSpec => []SectionsAreAnswers
  <1>1. TypeInv /\ SyncInv => SectionsAreAnswers
    <2> SUFFICES ASSUME TypeInv, SyncInv, outcome = "ok", late = 0 PROVE sections = Complete
      BY DEF SectionsAreAnswers
    <2>1. Answered /\ Len(sections) = Len(plan) /\ sections \in Seq(Section)
      BY DEF SyncInv, TypeInv
    <2>2. DOMAIN sections = DOMAIN plan
      BY <2>1, PlanLen, LenProperties
    <2>3. \A i \in DOMAIN plan : sections[i] = [cmd |-> plan[i], text |-> Answer(plan[i])]
      BY <2>1, <2>2 DEF Answered
    <2>4. sections = [i \in DOMAIN sections |-> sections[i]]
      BY <2>1
    <2>5. Complete = [i \in DOMAIN plan |-> [cmd |-> plan[i], text |-> Answer(plan[i])]]
      BY DEF Complete, Answer
    <2> QED BY <2>2, <2>3, <2>4, <2>5
  <1>2. SesInit => SesInv /\ TypeInv /\ SyncInv
    BY SesInitInv, TypeInit, SyncInit
  <1>3. (SesInv /\ TypeInv /\ SyncInv) /\ [SesNext]_sesVars => (SesInv /\ TypeInv /\ SyncInv)'
    BY SesStepInv, TypeStep, SyncStep
  <1> QED BY <1>1, <1>2, <1>3, PTL DEF SesSpec

-----------------------------------------------------------------------------
(* Statuses.                                                               *)
\* A line that reads as a status is one of the device's table of statuses.
Honest(line)     == line.first # "Port" /\ line.state # Absent => line \in ToSet(Table(StatusTable))
AllHonest(text)  == \A line \in ToSet(text) : Honest(line)
AllClean(lines)  == \A c \in ToSet(lines) : AllHonest(Table(c))

\* The statuses have still to be asked, or their answer to be awaited.
ToCome == pc # "done" /\ \E k \in next..Len(plan) : plan[k] = StatusTable

\* Until then all that is under way and all that is typed is harmless.
StatusInv ==
  /\ \A i \in DOMAIN sections : sections[i].cmd = StatusTable => AllHonest(sections[i].text)
  /\ ToCome => AllHonest(got) /\ AllHonest(said) /\ AllHonest(saying) /\ AllHonest(held) /\ AllClean(typed)

LEMMA WordsAreHonest ==
  /\ \A word \in Dialogue : Honest(word) /\ AllHonest(<<word>>)
  /\ \A line : Honest(Echo(line)) /\ AllHonest(<<Echo(line)>>)
  /\ AllHonest(<<>>) /\ AllHonest(<<Rejected, AskUser>>)
  /\ AllHonest(Motd)
  <1>1. \A word \in Dialogue : word.state = Absent
    <2>1. \A kind, first : Token(kind, first).state = Absent
      BY DEF Token
    <2> QED BY <2>1 DEF Dialogue, Prompt, AskUser, AskPass, Rejected, More
  <1>2. \A line : Echo(line).state = Absent
    BY DEF Echo, Token
  <1>3. \A x : ToSet(<<x>>) = {x}
    BY DEF ToSet
  <1>4. ToSet(<<>>) = {} /\ ToSet(<<Rejected, AskUser>>) = {Rejected, AskUser} /\ {Rejected, AskUser} \subseteq Dialogue
    BY DEF ToSet, Dialogue
  <1>5. StatusRows(Motd) = {}
    BY TablesAssumption
  <1>6. AllHonest(Motd)
    BY <1>5 DEF AllHonest, Honest, StatusRows
  <1> QED BY <1>1, <1>2, <1>3, <1>4, <1>6 DEF AllHonest, Honest

LEMMA EarlyIsClean ==
  ASSUME NEW c \in Logins \cup Early \cup {StatusTable}
  PROVE  AllHonest(Table(c))
  <1>1. CASE c \in Logins \cup {Quiet}
    <2>1. Table(c) = <<>>
      BY <1>1, LoginTables
    <2> QED BY <2>1, WordsAreHonest
  <1>2. CASE c = StatusTable
    BY <1>2 DEF AllHonest, Honest
  <1>3. CASE c \in {Show("version"), Show("hostname")}
    <2>1. CASE c \in DOMAIN Tables
      <3>1. StatusRows(Tables[c]) = {}
        BY <1>3, <2>1, TablesAssumption
      <3> QED BY <2>1, <3>1 DEF Table, AllHonest, Honest, StatusRows
    <2>2. CASE c \notin DOMAIN Tables
      <3>1. Table(c) = <<>>
        BY <2>2 DEF Table
      <3> QED BY <3>1, WordsAreHonest
    <2> QED BY <2>1, <2>2
  <1> QED BY <1>1, <1>2, <1>3 DEF Early

\* What a plan that passes the policy asks up to the statuses.
LEMMA AskedBefore ==
  ASSUME TypeInv, Valid(Vendor, plan), NEW k \in 1..Len(plan), plan[k] = StatusTable, NEW n \in 1..k
  PROVE  AllHonest(Table(plan[n]))
  <1>1. PICK o \in Offers : plan = UniqueCommands(o)
    BY DEF TypeInv, SesTypeOK
  <1>2. Ordered(plan, StatusTable, Early)
    BY <1>1, PlanFacts
  <1>3. n = k \/ n \in 1..(k - 1)
    BY PlanLen
  <1>4. plan[n] \in Early \cup {StatusTable}
    BY <1>2, <1>3 DEF Ordered
  <1> QED BY <1>4, EarlyIsClean

LEMMA HonestConcat ==
  ASSUME NEW s \in Seq(Texts), NEW t \in Seq(Texts), AllHonest(s), AllHonest(t)
  PROVE  AllHonest(s \o t)
  BY ConcatLines DEF AllHonest

LEMMA StatusInit == SesInit => StatusInv
  <1> SUFFICES ASSUME SesInit PROVE StatusInv
    OBVIOUS
  <1>1. /\ got = <<>> /\ said = <<>> /\ held = <<>> /\ typed = <<>> /\ sections = <<>>
        /\ saying = Greeting(mode)
    BY DEF SesInit
  <1>2. AllHonest(Greeting(mode))
    <2>1. Motd \in Seq(Texts) /\ AllHonest(Motd)
      BY TextIs, WordsAreHonest
    <2>2. \A word \in Dialogue : <<word>> \in Seq(Texts) /\ AllHonest(<<word>>)
      BY TokenTexts, WordsAreHonest
    <2>3. \A word \in Dialogue : AllHonest(Motd \o <<word>>)
      BY <2>1, <2>2, HonestConcat
    <2> QED BY <2>3, TokenTexts DEF Greeting
  <1>3. AllClean(typed) /\ DOMAIN sections = {}
    BY <1>1 DEF AllClean, ToSet
  <1> QED BY <1>1, <1>2, <1>3, WordsAreHonest DEF StatusInv

LEMMA HeadTailLines ==
  ASSUME NEW T, NEW s \in Seq(T), s # <<>>
  PROVE  ToSet(Tail(s)) \subseteq ToSet(s) /\ Head(s) \in ToSet(s)
  <1>1. Len(s) \in Nat /\ Len(s) # 0 /\ DOMAIN s = 1..Len(s) /\ Head(s) = s[1]
    BY LenProperties, EmptySeq
  <1>2. DOMAIN Tail(s) = 1..(Len(s) - 1) /\ \A i \in 1..(Len(s) - 1) : Tail(s)[i] = s[i + 1]
    BY HeadTailProperties, LenProperties
  <1>3. 1 \in DOMAIN s /\ \A i \in 1..(Len(s) - 1) : i + 1 \in DOMAIN s
    BY <1>1
  <1> QED BY <1>1, <1>2, <1>3 DEF ToSet

LEMMA SubLines ==
  ASSUME NEW T, NEW s \in Seq(T), NEW m \in 1..(Len(s) + 1), NEW n \in 0..Len(s)
  PROVE  SubSeq(s, m, n) \in Seq(T) /\ ToSet(SubSeq(s, m, n)) \subseteq ToSet(s)
  <1> DEFINE u == SubSeq(s, m, n)
             l == Len(s)
  <1>1. l \in Nat /\ DOMAIN s = 1..l /\ \A i \in m..n : i \in 1..l
    BY LenProperties
  <1>2. \A i \in m..n : s[i] \in T
    BY <1>1, ElementOfSeq
  <1>3. /\ u \in Seq(T) /\ Len(u) = IF m <= n THEN n - m + 1 ELSE 0
        /\ \A i \in 1..(n - m + 1) : u[i] = s[m + i - 1]
    BY <1>1, <1>2, SubSeqProperties
  <1> HIDE DEF u, l
  <1>4. ASSUME NEW i \in DOMAIN u PROVE u[i] \in ToSet(s)
    <2>1. i \in 1..Len(u)
      BY <1>3, LenProperties
    <2>2. i \in 1..(n - m + 1) /\ m + i - 1 \in m..n
      BY <1>1, <1>3, <2>1
    <2> QED BY <1>1, <1>3, <2>2 DEF ToSet
  <1> QED BY <1>3, <1>4 DEF ToSet, u

LEMMA DeviceStatus == ASSUME SesInv, TypeInv, StatusInv, Device \/ Hangup PROVE StatusInv'
  <1>1. UNCHANGED <<plan, pc, next, got, sections>>
    BY DEF Device, Say, TakeSpace, TakeName, TakePassword, TakeCommand, Takes, Hangup, scriptVars
  <1> SUFFICES ASSUME ToCome
               PROVE  AllHonest(said') /\ AllHonest(saying') /\ AllHonest(held') /\ AllClean(typed')
    BY <1>1 DEF StatusInv, ToCome
  <1>2. /\ AllHonest(said) /\ AllHonest(saying) /\ AllHonest(held) /\ AllClean(typed)
        /\ said \in Seq(Texts) /\ saying \in Seq(Texts) /\ held \in Seq(Texts) /\ typed \in Seq(AllowedLines)
    BY DEF StatusInv, TypeInv, SesInv
  <1>3. CASE Say
    <2>1. saying # <<>> /\ said' = Append(said, Head(saying)) /\ saying' = Tail(saying) /\ UNCHANGED <<held, typed>>
      BY <1>3 DEF Say
    <2>2. ToSet(Tail(saying)) \subseteq ToSet(saying) /\ Head(saying) \in ToSet(saying) /\ Head(saying) \in Texts
      BY <1>2, <2>1, HeadTailLines, HeadTailProperties
    <2>3. ToSet(said') = ToSet(said) \cup {Head(saying)}
      BY <1>2, <2>1, <2>2, AppendLines
    <2> QED BY <1>2, <2>1, <2>2, <2>3 DEF AllHonest
  <1>4. ASSUME NEW line, Takes(line)
        PROVE  UNCHANGED said /\ AllClean(typed') /\ AllHonest(Table(line)) /\ line \in Lines
    <2>1. typed # <<>> /\ Head(typed) = line /\ typed' = Tail(typed) /\ UNCHANGED said
      BY <1>4 DEF Takes
    <2>2. ToSet(Tail(typed)) \subseteq ToSet(typed) /\ line \in ToSet(typed)
      BY <1>2, <2>1, HeadTailLines
    <2> QED BY <1>2, <1>4, <2>1, <2>2, TakenLine DEF AllClean
  <1>5. CASE Hangup
    BY <1>2, <1>5, WordsAreHonest DEF Hangup
  <1>6. ASSUME NEW line, TakeName(line) \/ TakePassword(line)
        PROVE  AllHonest(said') /\ AllHonest(saying') /\ AllHonest(held') /\ AllClean(typed')
    <2>1. /\ Takes(line) /\ UNCHANGED held
          /\ saying' \in {<<AskPass>>, <<Prompt>>, <<Rejected, AskUser>>}
      BY <1>6 DEF TakeName, TakePassword
    <2>2. AskPass \in Dialogue /\ Prompt \in Dialogue
      BY DEF Dialogue
    <2>3. AllHonest(saying')
      BY <2>1, <2>2, WordsAreHonest
    <2> QED BY <1>2, <1>4, <2>1, <2>3
  <1>7. CASE TakeSpace
    <2>1. Takes(Space) /\ held' = <<>> /\ (saying' = held \o <<Prompt>> \/ saying' = <<>>)
      BY <1>7 DEF TakeSpace
    <2>2. AllHonest(held \o <<Prompt>>)
      <3>1. Prompt \in Dialogue
        BY DEF Dialogue
      <3>2. <<Prompt>> \in Seq(Texts) /\ AllHonest(<<Prompt>>)
        BY <3>1, TokenTexts, WordsAreHonest
      <3> QED BY <1>2, <3>2, HonestConcat
    <2> QED BY <1>2, <1>4, <2>1, <2>2, WordsAreHonest
  <1>8. ASSUME NEW line, TakeCommand(line)
        PROVE  AllHonest(said') /\ AllHonest(saying') /\ AllHonest(held') /\ AllClean(typed')
    <2> DEFINE t == Table(line)
               first == SubSeq(t, 1, PageSize)
               rest == SubSeq(t, PageSize + 1, Len(t))
    <2>1. Takes(line)
      BY <1>8 DEF TakeCommand
    <2>2. /\ \/ Len(t) > PageSize /\ saying' = <<Echo(line)>> \o first \o <<More>> /\ held' = rest
             \/ saying' = <<Echo(line)>> \o t \o <<Prompt>> /\ held' = held
      BY <1>8 DEF TakeCommand
    <2>3. t \in Seq(Texts) /\ Len(t) \in Nat /\ PageSize \in Nat \ {0} /\ AllHonest(t)
      BY <1>4, <2>1, TableIs, LenProperties, SessionAssumption
    <2> HIDE DEF t
    <2>4. ASSUME Len(t) > PageSize
          PROVE  first \in Seq(Texts) /\ AllHonest(first) /\ AllHonest(rest)
      <3>1. 1 \in 1..(Len(t) + 1) /\ PageSize \in 0..Len(t) /\ PageSize + 1 \in 1..(Len(t) + 1) /\ Len(t) \in 0..Len(t)
        BY <2>3, <2>4
      <3> QED BY <2>3, <3>1, SubLines DEF AllHonest
    <2> HIDE DEF first, rest
    <2>5. ASSUME NEW u \in Seq(Texts), AllHonest(u), NEW word \in Dialogue
          PROVE  AllHonest(<<Echo(line)>> \o u \o <<word>>)
      <3> DEFINE e == <<Echo(line)>>
                 w == <<word>>
                 eu == e \o u
      <3>1. e \in Seq(Texts) /\ w \in Seq(Texts) /\ AllHonest(e) /\ AllHonest(w)
        BY <1>4, <2>1, TokenTexts, WordsAreHonest
      <3> HIDE DEF e, w
      <3>2. eu \in Seq(Texts) /\ AllHonest(eu)
        BY <2>5, <3>1, HonestConcat, ConcatProperties
      <3> HIDE DEF eu
      <3>3. AllHonest(eu \o w)
        BY <3>1, <3>2, HonestConcat
      <3> QED BY <3>3 DEF eu, e, w
    <2>6. More \in Dialogue /\ Prompt \in Dialogue
      BY DEF Dialogue
    <2>7. AllHonest(saying') /\ AllHonest(held')
      BY <1>2, <2>2, <2>3, <2>4, <2>5, <2>6
    <2> QED BY <1>2, <1>4, <2>1, <2>7
  <1> QED BY <1>3, <1>5, <1>6, <1>7, <1>8 DEF Device

\* What is typed before the statuses have been answered is harmless.
LEMMA TypingIsClean ==
  ASSUME typed \in Seq(AllowedLines), AllClean(typed), NEW line \in AllowedLines, AllHonest(Table(line)), Type(line)
  PROVE  AllClean(typed')
  <1>1. CASE mode = "closed"
    BY <1>1 DEF Type
  <1>2. CASE mode # "closed"
    <2>1. typed' = Append(typed, line)
      BY <1>2 DEF Type
    <2>2. ToSet(typed') = ToSet(typed) \cup {line}
      BY <2>1, AppendLines
    <2> QED BY <2>2 DEF AllClean
  <1> QED BY <1>1, <1>2

LEMMA ScriptStatus == ASSUME SesInv, TypeInv, StatusInv, Script \/ Kill \/ Break PROVE StatusInv'
  <1>0. /\ got \in Seq(Texts) /\ said \in Seq(Texts) /\ typed \in Seq(AllowedLines)
        /\ {User, Password, Exit, Space} \subseteq AllowedLines /\ {User, Password, Exit, Space} = Logins
        /\ Len(plan) \in Nat /\ next \in Nat \ {0} /\ plan \in Seq(Lines)
        /\ AllHonest(<<>>)
    BY LoginsAllowed, PlanLen, WordsAreHonest DEF TypeInv, SesInv
  <1>1. ASSUME pc' = "done", sections' \in {sections, <<>>} PROVE StatusInv'
    <2>1. DOMAIN <<>> = {} /\ ~ToCome'
      BY <1>1 DEF ToCome
    <2> QED BY <1>1, <2>1 DEF StatusInv
  \* The sections, the place in the plan and what the device has to print are kept.
  <1>2. ASSUME UNCHANGED <<plan, next, sections, deviceVars>>, pc # "done",
               ToCome => AllHonest(got') /\ AllHonest(said') /\ AllClean(typed')
        PROVE  StatusInv'
    BY <1>2 DEF StatusInv, ToCome, deviceVars
  <1>3. CASE Accept
    BY <1>2, <1>3 DEF Accept, StatusInv
  <1>4. CASE Refuse \/ Kill \/ Break
    BY <1>1, <1>4 DEF Refuse, Kill, Break
  <1>5. CASE Receive
    <2>1. /\ UNCHANGED <<plan, next, sections, deviceVars, typed>> /\ pc # "done"
          /\ got' = got \o said /\ said' = <<>>
      BY <1>5 DEF Receive, Running
    <2>2. ASSUME ToCome PROVE AllHonest(got \o said)
      BY <1>0, <2>2, HonestConcat DEF StatusInv
    <2> QED BY <1>0, <1>2, <2>1, <2>2 DEF StatusInv
  <1>6. ASSUME ToCome, NEW line \in Logins, Type(line) PROVE AllClean(typed')
    BY <1>0, <1>6, EarlyIsClean, TypingIsClean DEF StatusInv
  <1>7. ASSUME ToCome, Valid(Vendor, plan), NEW n \in Nat \ {0}, SendCommand(n),
               pc' # "done" => \E k \in n..Len(plan) : plan[k] = StatusTable
        PROVE  pc' # "done" => AllClean(typed')
    <2> SUFFICES ASSUME pc' # "done" PROVE AllClean(typed')
      OBVIOUS
    <2>1. PICK k \in n..Len(plan) : plan[k] = StatusTable
      BY <1>7
    <2>2. k \in 1..Len(plan) /\ n \in 1..k /\ n <= Len(plan)
      BY <1>0, <2>1
    <2>3. Type(plan[n])
      BY <1>7, <2>2, SendIs
    <2>4. plan[n] \in AllowedLines
      BY <1>0, <1>7, <2>2, PlanAllowed
    <2>5. AllHonest(Table(plan[n]))
      BY <1>7, <2>1, <2>2, AskedBefore
    <2> QED BY <1>0, <1>7, <2>3, <2>4, <2>5, TypingIsClean DEF StatusInv
  <1>8. CASE Banner \/ Name \/ Blind \/ Login
    <2>1. /\ UNCHANGED <<plan, next, sections, deviceVars>> /\ pc # "done" /\ next = 1
          /\ said' \in {said, <<>>} /\ Valid(Vendor, plan)
      BY <1>8 DEF Banner, Name, Blind, Login, Over, TypeInv, LoggingIn, SesInv
    <2>2. ASSUME ToCome PROVE AllHonest(said')
      BY <1>0, <2>1, <2>2 DEF StatusInv
    <2>3. CASE Fail
      BY <1>1, <2>1, <2>3 DEF Fail
    <2>4. CASE SendCommand(1)
      <3>1. got' = <<>>
        BY <2>4, SendIs
      <3>2. ASSUME ToCome, pc' # "done" PROVE AllClean(typed')
        <4>1. \E k \in 1..Len(plan) : plan[k] = StatusTable
          BY <2>1, <3>2 DEF ToCome
        <4>2. 1 \in Nat \ {0}
          OBVIOUS
        <4> QED BY <1>7, <2>1, <2>4, <3>2, <4>1, <4>2
      <3>3. CASE pc' = "done"
        BY <1>1, <2>1, <3>3
      <3>4. CASE pc' # "done"
        BY <1>0, <1>2, <2>1, <2>2, <3>1, <3>2, <3>4
      <3> QED BY <3>3, <3>4
    <2>5. CASE /\ UNCHANGED typed \/ Type(User) \/ Type(Password)
               /\ Await("name") \/ Await("login") \/ Await("blind")
      <3>1. got' = <<>>
        BY <2>5 DEF Await
      <3>2. ASSUME ToCome PROVE AllClean(typed')
        <4>1. CASE UNCHANGED typed
          BY <3>2, <4>1 DEF StatusInv
        <4> QED BY <1>0, <1>6, <2>5, <3>2, <4>1
      <3> QED BY <1>0, <1>2, <2>1, <2>2, <3>1, <3>2
    <2> QED BY <1>8, <2>3, <2>4, <2>5 DEF Banner, Name, Blind, Login
  <1>9. CASE NextPage
    <2>1. /\ UNCHANGED <<plan, next, sections, deviceVars, said>> /\ pc # "done" /\ got' = <<>>
          /\ typed' = typed \/ typed' = <<Space>>
      BY <1>9 DEF NextPage, Over, Await
    <2>2. ASSUME ToCome PROVE AllClean(typed')
      <3>1. ToSet(<<Space>>) = {Space}
        BY DEF ToSet
      <3>2. AllHonest(Table(Space))
        BY <1>0, EarlyIsClean
      <3> QED BY <2>1, <2>2, <3>1, <3>2 DEF StatusInv, AllClean
    <2> QED BY <1>0, <1>2, <2>1, <2>2 DEF StatusInv
  <1>10. CASE Command
    <2>1. /\ UNCHANGED <<plan, deviceVars, said>> /\ pc = "command" /\ next' = next + 1
          /\ sections' = Append(sections, [cmd |-> plan[next], text |-> got])
          /\ SendCommand(next + 1) /\ Valid(Vendor, plan) /\ next <= Len(plan)
      BY <1>10 DEF Command, Over, SesInv, TypeInv
    <2>2. plan[next] = StatusTable => AllHonest(got)
      <3>1. next \in next..Len(plan)
        BY <1>0, <2>1
      <3> QED BY <2>1, <3>1 DEF StatusInv, ToCome
    <2>3. \A i \in DOMAIN sections' : sections'[i].cmd = StatusTable => AllHonest(sections'[i].text)
      <3> DEFINE r == [cmd |-> plan[next], text |-> got]
      <3>1. r \in Section
        <4>1. next \in DOMAIN plan
          BY <1>0, <2>1, LenProperties
        <4> QED BY <1>0, <4>1 DEF Section, ToSet
      <3>2. r.cmd = StatusTable => AllHonest(r.text)
        BY <2>2
      <3>3. sections' = Append(sections, r) /\ sections \in Seq(Section)
        BY <2>1 DEF TypeInv
      <3> HIDE DEF r
      <3>4. /\ Len(sections) \in Nat /\ DOMAIN sections = 1..Len(sections)
            /\ DOMAIN sections' = 1..(Len(sections) + 1)
            /\ \A i \in 1..Len(sections) : sections'[i] = sections[i]
            /\ sections'[Len(sections) + 1] = r
        BY <3>1, <3>3, AppendLines
      <3>5. \A i \in 1..(Len(sections) + 1) : i \in 1..Len(sections) \/ i = Len(sections) + 1
        BY <3>4
      <3> QED BY <3>2, <3>4, <3>5 DEF StatusInv
    <2>4. ASSUME ToCome'
          PROVE  AllHonest(got') /\ AllHonest(said') /\ AllHonest(saying') /\ AllHonest(held') /\ AllClean(typed')
      <3>1. PICK k \in (next + 1)..Len(plan) : plan[k] = StatusTable
        BY <2>1, <2>4 DEF ToCome
      <3>2. k \in next..Len(plan) /\ next + 1 \in Nat \ {0}
        BY <1>0
      <3>3. ToCome /\ pc' # "done"
        BY <2>1, <2>4, <3>1, <3>2 DEF ToCome
      <3>4. AllClean(typed')
        BY <1>7, <2>1, <3>1, <3>2, <3>3
      <3>5. got' = <<>>
        BY <2>1, SendIs
      <3> QED BY <1>0, <2>1, <3>3, <3>4, <3>5 DEF StatusInv, deviceVars
    <2> QED BY <2>3, <2>4 DEF StatusInv
  <1> QED BY <1>3, <1>4, <1>5, <1>8, <1>9, <1>10 DEF Script

LEMMA StatusStep == SesInv /\ TypeInv /\ StatusInv /\ [SesNext]_sesVars => StatusInv'
  <1> SUFFICES ASSUME SesInv, TypeInv, StatusInv, [SesNext]_sesVars PROVE StatusInv'
    OBVIOUS
  <1>1. CASE UNCHANGED sesVars
    BY <1>1 DEF sesVars, scriptVars, deviceVars, StatusInv, ToCome
  <1> QED BY <1>1, DeviceStatus, ScriptStatus DEF SesNext

-----------------------------------------------------------------------------
(* Findings.                                                               *)
LEMMA GreatestOne ==
  ASSUME NEW n \in Nat, NEW T \in SUBSET (1..n), T # {}
  PROVE  Max(T) \in T
  <1> DEFINE R == {n - x : x \in T}
  <1>1. \A x \in T : x \in Int /\ n - x \in Nat /\ n - x \in R
    OBVIOUS
  <1>2. \A y \in R : \E x \in T : y = n - x
    OBVIOUS
  <1> HIDE DEF R
  <1>3. R \in SUBSET Nat /\ R # {}
    BY <1>1, <1>2
  <1>4. PICK y \in R : \A z \in R : y <= z
    BY <1>3, LeastOne
  <1>5. PICK x \in T : y = n - x
    BY <1>2
  <1>6. ASSUME NEW z \in T PROVE x >= z
    <2>1. n - x <= n - z
      BY <1>1, <1>4, <1>5
    <2> QED BY <1>1, <2>1
  <1>7. \E m \in T : \A z \in T : m >= z
    BY <1>6
  <1> QED BY <1>7, Zenon DEF Max

\* A text under a header is of lines that the sections under it have.
LEMMA SectionTextIs ==
  ASSUME NEW X \in Seq(Section), NEW cmd
  PROVE  /\ SectionText(X, cmd) \in Seq(Texts)
         /\ \A line \in ToSet(SectionText(X, cmd)) :
              /\ line \in Texts /\ cmd \in ToSet(plan)
              /\ \E i \in DOMAIN X : X[i].cmd = cmd /\ line \in ToSet(X[i].text)
         /\ \A i \in DOMAIN X : X[i].cmd = cmd => ToSet(X[i].text) \subseteq ToSet(SectionText(X, cmd))
  <1> DEFINE s == [i \in DOMAIN X |-> IF X[i].cmd = cmd THEN X[i].text ELSE <<>>]
             n == Len(X)
  <1>1. n \in Nat /\ DOMAIN X = 1..n /\ \A i \in 1..n : X[i] \in Section
    BY LenProperties, ElementOfSeq
  <1>2. \A i \in 1..n : X[i].cmd \in ToSet(plan) /\ X[i].text \in Seq(Texts)
    BY <1>1 DEF Section
  <1>3. /\ \A i \in 1..n : s[i] = IF X[i].cmd = cmd THEN X[i].text ELSE <<>>
        /\ s = [i \in 1..n |-> s[i]]
    BY <1>1
  <1>4. SectionText(X, cmd) = FlattenSeq(s)
    BY DEF SectionText
  <1> HIDE DEF s, n
  <1>5. \A i \in 1..n : s[i] \in Seq(Texts)
    BY <1>2, <1>3, EmptySeq
  <1>6. s \in Seq(Seq(Texts)) /\ Len(s) = n
    BY <1>1, <1>3, <1>5
  <1>7. FlattenSeq(s) \in Seq(Texts) /\ ToSet(FlattenSeq(s)) = UNION {ToSet(s[i]) : i \in 1..n}
    BY <1>6, FlattenIs
  <1>8. ASSUME NEW line \in ToSet(FlattenSeq(s))
        PROVE  /\ line \in Texts /\ cmd \in ToSet(plan)
               /\ \E i \in DOMAIN X : X[i].cmd = cmd /\ line \in ToSet(X[i].text)
    <2>1. PICK i \in 1..n : line \in ToSet(s[i])
      BY <1>7
    <2>2. ToSet(<<>>) = {}
      BY DEF ToSet
    <2>3. X[i].cmd = cmd /\ s[i] = X[i].text
      BY <1>3, <2>1, <2>2
    <2>4. \A j \in DOMAIN s[i] : s[i][j] \in Texts
      BY <1>5, LenProperties, ElementOfSeq
    <2>5. line \in Texts
      BY <2>1, <2>4 DEF ToSet
    <2> QED BY <1>1, <1>2, <2>1, <2>3, <2>5
  <1>9. ASSUME NEW i \in DOMAIN X, X[i].cmd = cmd PROVE ToSet(X[i].text) \subseteq ToSet(FlattenSeq(s))
    <2>1. i \in 1..n /\ s[i] = X[i].text
      BY <1>1, <1>3, <1>9
    <2> QED BY <1>7, <2>1
  <1> QED BY <1>4, <1>7, <1>8, <1>9

LEMMA LastRowIs ==
  ASSUME NEW T, NEW text \in Seq(T), NEW rows \in SUBSET ToSet(text), NEW p \in PortsIn(rows)
  PROVE  LastRow(text, rows, p) \in rows /\ LastRow(text, rows, p).first = p
  <1> DEFINE S == {i \in DOMAIN text : text[i] \in rows /\ text[i].first = p}
  <1>1. Len(text) \in Nat /\ DOMAIN text = 1..Len(text)
    BY LenProperties
  <1>2. S # {}
    <2>1. PICK row \in rows : row.first = p
      BY DEF PortsIn
    <2>2. PICK i \in DOMAIN text : text[i] = row
      BY <2>1 DEF ToSet
    <2> QED BY <2>1, <2>2
  <1>3. S \in SUBSET (1..Len(text))
    BY <1>1
  <1>4. LastRow(text, rows, p) = text[Max(S)]
    BY DEF LastRow
  <1>5. Max(S) \in S
    <2> HIDE DEF S
    <2> QED BY <1>1, <1>2, <1>3, GreatestOne
  <1> QED BY <1>4, <1>5

\* What the parsers make of the sections, as far as the statuses go.
StatusFoundIn(X) == StatusRows(SectionText(X, StatusTable))

LEMMA ParsedIs ==
  ASSUME NEW X
  PROVE  LET ports == ParsePorts(X)
         IN  /\ PortsIn(StatusFoundIn(X)) \subseteq DOMAIN ports
             /\ \A p \in DOMAIN ports :
                  IF p \in PortsIn(StatusFoundIn(X))
                  THEN /\ ports[p].state = LastRow(SectionText(X, StatusTable), StatusFoundIn(X), p).state
                       /\ ports[p].mbps = LastRow(SectionText(X, StatusTable), StatusFoundIn(X), p).mbps
                  ELSE ports[p].state = Absent
  BY DEF ParsePorts, StatusFoundIn

\* The sections of a complete answer.
LEMMA CompleteSections ==
  ASSUME TypeInv
  PROVE  /\ Complete \in Seq(Section) /\ DOMAIN Complete = DOMAIN plan
         /\ \A i \in DOMAIN plan : Complete[i] = [cmd |-> plan[i], text |-> Answer(plan[i])]
  <1>1. plan \in Seq(Lines) /\ Len(plan) \in Nat /\ DOMAIN plan = 1..Len(plan)
    BY PlanLen, LenProperties
  <1>2. \A i \in DOMAIN plan : Complete[i] = [cmd |-> plan[i], text |-> Answer(plan[i])] /\ Complete[i] \in Section
    <2>1. ASSUME NEW i \in DOMAIN plan PROVE [cmd |-> plan[i], text |-> Answer(plan[i])] \in Section
      <3>1. plan[i] \in Lines
        BY <1>1, ElementOfSeq
      <3> QED BY <3>1, AnswerIs DEF Section, ToSet
    <2>2. Complete = [i \in DOMAIN plan |-> [cmd |-> plan[i], text |-> Answer(plan[i])]]
      BY DEF Complete, Answer
    <2> QED BY <2>1, <2>2
  <1>3. DOMAIN Complete = DOMAIN plan /\ Complete = [i \in DOMAIN plan |-> Complete[i]]
    BY DEF Complete
  <1> QED BY <1>1, <1>2, <1>3

LEMMA CompleteIs ==
  ASSUME TypeInv, NEW c \in DOMAIN Tables, c \in Lines
  PROVE  /\ Complete \in Seq(Section)
         /\ c \in ToSet(plan) => ToSet(Tables[c]) \subseteq ToSet(SectionText(Complete, c))
         /\ \A line \in ToSet(SectionText(Complete, c)) : line \in ToSet(Tables[c]) \/ line \in {Echo(c), Prompt}
  <1>1. /\ Complete \in Seq(Section) /\ DOMAIN Complete = DOMAIN plan
        /\ \A i \in DOMAIN plan : Complete[i] = [cmd |-> plan[i], text |-> Answer(plan[i])]
    BY CompleteSections
  <1>2. ToSet(Answer(c)) = ToSet(Tables[c]) \cup {Echo(c), Prompt}
    <2> DEFINE e == <<Echo(c)>>
               t == Table(c)
               z == <<Prompt>>
               u == e \o t
    <2>1. t \in Seq(Texts) /\ t = Tables[c]
      BY TableIs DEF Table
    <2>2. e \in Seq(Texts) /\ z \in Seq(Texts) /\ ToSet(e) = {Echo(c)} /\ ToSet(z) = {Prompt}
      BY TokenTexts DEF ToSet
    <2>3. Answer(c) = u \o z
      BY DEF Answer
    <2> HIDE DEF e, t, z
    <2>4. u \in Seq(Texts) /\ ToSet(u) = ToSet(e) \cup ToSet(t)
      BY <2>1, <2>2, ConcatLines, ConcatProperties
    <2> HIDE DEF u
    <2>5. ToSet(u \o z) = ToSet(u) \cup ToSet(z)
      BY <2>2, <2>4, ConcatLines
    <2> QED BY <2>1, <2>2, <2>3, <2>4, <2>5
  <1>3. ASSUME c \in ToSet(plan) PROVE ToSet(Tables[c]) \subseteq ToSet(SectionText(Complete, c))
    <2>1. PICK i \in DOMAIN plan : plan[i] = c
      BY <1>3 DEF ToSet
    <2>2. i \in DOMAIN Complete /\ Complete[i].cmd = c /\ Complete[i].text = Answer(c)
      BY <1>1, <2>1
    <2>3. ToSet(Answer(c)) \subseteq ToSet(SectionText(Complete, c))
      BY <1>1, <2>2, SectionTextIs
    <2> QED BY <1>2, <2>3
  <1>4. ASSUME NEW line \in ToSet(SectionText(Complete, c)) PROVE line \in ToSet(Tables[c]) \/ line \in {Echo(c), Prompt}
    <2>1. PICK i \in DOMAIN Complete : Complete[i].cmd = c /\ line \in ToSet(Complete[i].text)
      BY <1>1, SectionTextIs
    <2>2. Complete[i].text = Answer(c)
      BY <1>1, <2>1
    <2> QED BY <1>2, <2>1, <2>2
  <1> QED BY <1>1, <1>3, <1>4

\* A status that was found stands in the complete answer too.
LEMMA StatusFound ==
  ASSUME TypeInv, StatusInv, NEW p \in DOMAIN ParsePorts(sections), ParsePorts(sections)[p].state # Absent
  PROVE  /\ p \in DOMAIN ParsePorts(Complete)
         /\ ParsePorts(Complete)[p].state = ParsePorts(sections)[p].state
         /\ ParsePorts(Complete)[p].mbps = ParsePorts(sections)[p].mbps
  <1> DEFINE c == StatusTable
             text(X) == SectionText(X, c)
             row == LastRow(text(sections), StatusFoundIn(sections), p)
             other == LastRow(text(Complete), StatusFoundIn(Complete), p)
  <1>1. sections \in Seq(Section)
    BY DEF TypeInv
  <1>2. /\ p \in PortsIn(StatusFoundIn(sections))
        /\ ParsePorts(sections)[p].state = row.state /\ ParsePorts(sections)[p].mbps = row.mbps
    BY ParsedIs
  <1>3. text(sections) \in Seq(Texts) /\ StatusFoundIn(sections) \in SUBSET ToSet(text(sections))
    BY <1>1, SectionTextIs DEF StatusFoundIn, StatusRows
  <1>4. row \in StatusFoundIn(sections) /\ row.first = p
    BY <1>2, <1>3, LastRowIs
  <1>5. row \in ToSet(text(sections)) /\ row.first # "Port" /\ row.state # Absent
    BY <1>4 DEF StatusFoundIn, StatusRows
  <1> HIDE DEF row, other
  <1>6. c \in ToSet(plan) /\ \E i \in DOMAIN sections : sections[i].cmd = c /\ row \in ToSet(sections[i].text)
    BY <1>1, <1>5, SectionTextIs
  <1>7. row \in ToSet(Table(c))
    BY <1>5, <1>6 DEF StatusInv, AllHonest, Honest
  <1>8. c \in DOMAIN Tables /\ row \in ToSet(Tables[c]) /\ c \in Lines
    <2>1. ToSet(<<>>) = {}
      BY DEF ToSet
    <2>2. ToSet(plan) \subseteq Lines
      BY PlanLen, ElementOfSeq, LenProperties DEF ToSet
    <2> QED BY <1>6, <1>7, <2>1, <2>2 DEF Table
  <1>9. Complete \in Seq(Section) /\ row \in ToSet(text(Complete))
    BY <1>6, <1>8, CompleteIs
  <1>10. row \in StatusFoundIn(Complete) /\ p \in PortsIn(StatusFoundIn(Complete))
    BY <1>4, <1>5, <1>9 DEF StatusFoundIn, StatusRows, PortsIn
  <1>11. text(Complete) \in Seq(Texts) /\ StatusFoundIn(Complete) \in SUBSET ToSet(text(Complete))
    BY <1>9, SectionTextIs DEF StatusFoundIn, StatusRows
  <1>12. other \in StatusFoundIn(Complete) /\ other.first = p
    BY <1>10, <1>11, LastRowIs DEF other
  <1>13. other \in ToSet(text(Complete)) /\ other.first # "Port" /\ other.state # Absent
    BY <1>12 DEF StatusFoundIn, StatusRows
  <1>14. other \in ToSet(Tables[c])
    <2>1. Echo(c).state = Absent /\ Prompt.state = Absent
      BY DEF Echo, Prompt, Token
    <2> QED BY <1>8, <1>13, <2>1, CompleteIs
  <1>15. other = row
    <2>1. row \in StatusRows(Tables[c]) /\ other \in StatusRows(Tables[c])
      BY <1>5, <1>8, <1>13, <1>14 DEF StatusRows
    <2> QED BY <1>4, <1>8, <1>12, <2>1, TablesAssumption
  <1>16. /\ p \in DOMAIN ParsePorts(Complete)
         /\ ParsePorts(Complete)[p].state = other.state /\ ParsePorts(Complete)[p].mbps = other.mbps
    BY <1>10, ParsedIs DEF other
  <1> QED BY <1>2, <1>15, <1>16

LEMMA RowPortsFinite ==
  ASSUME NEW T, NEW text \in Seq(T), NEW rows \in SUBSET ToSet(text)
  PROVE  IsFiniteSet(PortsIn(rows))
  <1> DEFINE n == Len(text)
             P == {text[i].first : i \in 1..n}
             f == [i \in 1..n |-> text[i].first]
  <1>1. n \in Nat /\ DOMAIN text = 1..n
    BY LenProperties
  <1> HIDE DEF n
  <1>2. f \in Surjection(1..n, P)
    BY DEF Surjection
  <1>3. IsFiniteSet(1..n)
    BY <1>1, FS_Interval
  <1>4. PortsIn(rows) \subseteq P
    BY <1>1 DEF PortsIn, ToSet
  <1> HIDE DEF P, f
  <1>5. IsFiniteSet(P)
    BY <1>2, <1>3, FS_Surjection
  <1> QED BY <1>4, <1>5, FS_Subset

\* What is found of the statuses in the sections is found in the complete answer.
LEMMA FindingsHold ==
  ASSUME TypeInv, StatusInv
  PROVE  LET found  == InterfaceFindings(ParsePorts(sections))
             judged == InterfaceFindings(ParsePorts(Complete))
         IN  /\ found.low_speed \subseteq judged.low_speed /\ IsFiniteSet(judged.low_speed)
             /\ found.disabled \subseteq judged.disabled /\ IsFiniteSet(judged.disabled)
  <1> DEFINE ports == ParsePorts(sections)
             all   == ParsePorts(Complete)
  <1>1. \A p \in DOMAIN ports : ports[p].state # Absent =>
          p \in DOMAIN all /\ all[p].state = ports[p].state /\ all[p].mbps = ports[p].mbps
    BY StatusFound
  <1>2. \A p \in DOMAIN all : all[p].state # Absent => p \in PortsIn(StatusFoundIn(Complete))
    BY ParsedIs
  <1> HIDE DEF ports, all
  <1>3. "connected" # Absent /\ "disabled" # Absent /\ "errdisabled" # Absent
    BY DEF Absent
  <1>4. {p \in DOMAIN ports : IsLowSpeed(ports[p])} \subseteq {p \in DOMAIN all : IsLowSpeed(all[p])}
    BY <1>1, <1>3 DEF IsLowSpeed
  <1>5. {p \in DOMAIN ports : IsDisabled(ports[p])} \subseteq {p \in DOMAIN all : IsDisabled(all[p])}
    BY <1>1, <1>3 DEF IsDisabled
  <1>6. /\ {p \in DOMAIN all : IsLowSpeed(all[p])} \subseteq PortsIn(StatusFoundIn(Complete))
        /\ {p \in DOMAIN all : IsDisabled(all[p])} \subseteq PortsIn(StatusFoundIn(Complete))
    BY <1>2, <1>3 DEF IsLowSpeed, IsDisabled
  <1>7. IsFiniteSet(PortsIn(StatusFoundIn(Complete)))
    <2>1. Complete \in Seq(Section)
      BY CompleteSections
    <2>2. SectionText(Complete, StatusTable) \in Seq(Texts)
      BY <2>1, SectionTextIs
    <2> QED BY <2>2, RowPortsFinite DEF StatusFoundIn, StatusRows
  <1>8. /\ IsFiniteSet({p \in DOMAIN all : IsLowSpeed(all[p])})
        /\ IsFiniteSet({p \in DOMAIN all : IsDisabled(all[p])})
    BY <1>6, <1>7, FS_Subset
  <1> QED BY <1>4, <1>5, <1>8 DEF InterfaceFindings, ports, all

\* Whichever timers fired and however the login went: a port that is reported
\* as slow or disabled is so in the complete answer, no count of these is too
\* high, and a CHECK warns of no other low speed (policy.py READ_ONLY_COMMANDS
\* and its order, the script, parse_collection_ports, thresholds.py and
\* build_check_items).
THEOREM ReportedStatusesAreTrue == SesSpec => []StatusesAreTrue
  <1>1. TypeInv /\ StatusInv => StatusesAreTrue
    <2> SUFFICES ASSUME TypeInv, StatusInv PROVE StatusesAreTrue
      OBVIOUS
    <2> DEFINE ports == ParsePorts(sections)
               all   == ParsePorts(Complete)
               F     == InterfaceFindings(ports)
               A     == InterfaceFindings(all)
    <2>1. /\ F.low_speed \subseteq A.low_speed /\ IsFiniteSet(A.low_speed)
          /\ F.disabled \subseteq A.disabled /\ IsFiniteSet(A.disabled)
      BY FindingsHold
    <2>2. A.low_speed \subseteq DOMAIN all
      BY DEF InterfaceFindings
    <2>3. /\ Summary(ports).low_speed = Cardinality(F.low_speed)
          /\ Summary(ports).disabled = Cardinality(F.disabled)
          /\ Summary(all).low_speed = Cardinality(A.low_speed)
          /\ Summary(all).disabled = Cardinality(A.disabled)
      BY DEF Summary
    <2>4. /\ Report(TRUE, sections).findings = F /\ Report(TRUE, Complete).findings = A
          /\ Report(TRUE, sections).summary = Summary(ports) /\ Report(TRUE, Complete).summary = Summary(all)
          /\ Report(TRUE, sections).items = CheckItems(TRUE, ports)
          /\ Report(TRUE, Complete).items = CheckItems(TRUE, all)
      BY DEF Report
    <2>5. CheckItems(TRUE, ports).low_speed = "warn" => F.low_speed # {}
      BY DEF CheckItems
    <2>6. DOMAIN all # {} /\ A.low_speed # {} => CheckItems(TRUE, all).low_speed = "warn"
      BY DEF CheckItems
    <2> HIDE DEF ports, all, F, A
    <2>7. /\ Cardinality(F.low_speed) <= Cardinality(A.low_speed)
          /\ Cardinality(F.disabled) <= Cardinality(A.disabled)
      BY <2>1, FS_Subset
    <2>8. \A what \in {"low_speed", "disabled"} :
            F[what] \subseteq A[what] /\ Summary(ports)[what] <= Summary(all)[what]
      BY <2>1, <2>3, <2>7
    <2>9. CheckItems(TRUE, ports).low_speed = "warn" => CheckItems(TRUE, all).low_speed = "warn"
      BY <2>1, <2>2, <2>5, <2>6
    <2> QED BY <2>4, <2>8, <2>9 DEF StatusesAreTrue
  <1>2. SesInit => SesInv /\ TypeInv /\ StatusInv
    BY SesInitInv, TypeInit, StatusInit
  <1>3. (SesInv /\ TypeInv /\ StatusInv) /\ [SesNext]_sesVars => (SesInv /\ TypeInv /\ StatusInv)'
    BY SesStepInv, TypeStep, StatusStep
  <1> QED BY <1>1, <1>2, <1>3, PTL DEF SesSpec
=============================================================================
