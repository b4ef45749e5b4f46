----------------------- MODULE ObservationStoreProofs -----------------------
(***************************************************************************)
(* Proofs about ObservationStore, for any number of request threads and of *)
(* calls, any clock and any failure between two writes: what the files     *)
(* hold, that the index is in order and names only files that are there,   *)
(* and that a call that runs alone leaves everything in place.             *)
(***************************************************************************)
EXTENDS ObservationStore, SequenceTheorems, WellFoundedInduction, TLAPS

Places == {"idle", "raw_open", "raw_written", "latest_open", "latest_written",
           "history_open", "history_written", "index_read", "index_open"}
PastHistory == {"history_open", "history_written", "index_read", "index_open"}

Files(D) == {Absent, Emptied, Garbled} \cup {Written(d) : d \in D}

Ordered(s) ==
  \A i, k \in 1..Len(s) : i < k => Time(s[i]) >= Time(s[k]) /\ s[i].id # s[k].id

\* The runs whose raw file has been opened, and those whose history file has
\* been opened too; the lists that may stand in the index.
Started == {r \in Runs : Time(r) <= clock /\ raw[r.id] # Absent}
Stored  == {r \in Started : history[r.id] # Absent}
Lists   == {s \in Seq(Stored) : Ordered(s)}

\* A raw or history file is never taken away, a call that is under way has
\* opened its own, and what a call writes names only such files.
StoreInv ==
  /\ clock \in 1..MaxTime /\ stores \in 0..MaxStores
  /\ pc \in [Writers -> Places]
  /\ run \in [Writers -> Started \cup {NoRun}]
  /\ \A w \in Writers : IF Busy(w) THEN run[w] \in Started ELSE run[w] = NoRun
  /\ \A w \in Writers : pc[w] \in PastHistory => run[w] \in Stored
  /\ records \in [Writers -> Lists]
  /\ raw \in [RunIds -> Files(Runs)]
  /\ history \in [RunIds -> Files(Runs)]
  /\ latest \in Files(Started)
  /\ index \in Files(Lists)
  /\ completed \subseteq Runs

-----------------------------------------------------------------------------
(***************************************************************************)
(* Kept: a recursive function, so that what it is and what it keeps is     *)
(* shown by the least position at which it would be otherwise.             *)
(***************************************************************************)
LEMMA LeastOne == ASSUME NEW T \in SUBSET Nat, T # {} PROVE \E x \in T : \A y \in T : x <= y
  <1> DEFINE R == {ss \in Nat \X Nat : ss[1] < ss[2]}
  <1>1. IsWellFoundedOn(R, Nat)
    BY NatLessThanWellFounded DEF OpToRel
  <1>2. \E x \in T : \A y \in T : ~(<<y, x>> \in R)
    BY <1>1, WFMin
  <1>3. \A x, y \in T : <<y, x>> \notin R => x <= y
    OBVIOUS
  <1> HIDE DEF R
  <1>4. PICK x \in T : \A y \in T : <<y, x>> \notin R
    BY <1>2
  <1> QED BY <1>3, <1>4

\* Kept is what its recursive function builds: there is such a function.
LEMMA KeptUpto ==
  ASSUME NEW s, NEW S, Len(s) \in Nat
  PROVE  \E f : /\ Kept(s, S) = f[Len(s)]
                /\ f = [n \in 0..Len(s) |->
                          IF n = 0 THEN <<>>
                          ELSE IF s[n] \in S THEN Append(f[n - 1], s[n]) ELSE f[n - 1]]
  <1> DEFINE Next(f, n) == IF n = 0 THEN <<>>
                           ELSE IF s[n] \in S THEN Append(f[n - 1], s[n]) ELSE f[n - 1]
             Upto(f, m) == f = [n \in 0..m |-> Next(f, n)]
             Bad == {m \in 0..Len(s) : ~\E f : Upto(f, m)}
             upto == CHOOSE f : Upto(f, Len(s))
  <1>1. Bad = {}
    <2> SUFFICES ASSUME Bad # {} PROVE FALSE
      OBVIOUS
    <2>1. Bad \in SUBSET Nat
      OBVIOUS
    <2> HIDE DEF Bad
    <2>2. PICK m \in Bad : \A k \in Bad : m <= k
      BY <2>1, LeastOne
    <2> USE DEF Bad
    <2>3. CASE m = 0
      <3> DEFINE g == [n \in 0..0 |-> <<>>]
      <3>1. Upto(g, 0)
        OBVIOUS
      <3> QED BY <2>2, <2>3, <3>1
    <2>4. CASE m # 0
      <3>1. m - 1 \in 0..Len(s) /\ m - 1 \notin Bad /\ m \in Nat \ {0}
        <4>1. m \in 0..Len(s)
          OBVIOUS
        <4> HIDE DEF Bad
        <4> QED BY <4>1, <2>2, <2>4
      <3>2. PICK f : Upto(f, m - 1)
        BY <3>1
      <3> DEFINE g == [n \in 0..m |-> IF n < m THEN f[n] ELSE Next(f, m)]
      <3>3. ASSUME NEW n \in 0..m PROVE g[n] = Next(g, n)
        <4>1. n = 0 \/ n - 1 \in 0..(m - 1)
          BY <3>1
        <4>2. \A k \in 0..(m - 1) : g[k] = f[k] /\ f[k] = Next(f, k)
          <5>1. ASSUME NEW k \in 0..(m - 1) PROVE g[k] = f[k]
            BY <3>1
          <5>2. ASSUME NEW k \in 0..(m - 1) PROVE f[k] = Next(f, k)
            <6> HIDE DEF Next, g
            <6> QED BY <3>2
          <5> QED BY <5>1, <5>2
        <4>3. Next(g, n) = Next(f, n)
          BY <4>1, <4>2
        <4>4. CASE n = m
          BY <4>3, <4>4, <3>1
        <4>5. CASE n # m
          <5>1. n \in 0..(m - 1) /\ g[n] = f[n]
            BY <3>1, <4>5
          <5> QED BY <4>2, <4>3, <5>1
        <4> QED BY <4>4, <4>5
      <3>4. Upto(g, m)
        BY <3>3
      <3> QED BY <2>2, <3>4
    <2> QED BY <2>3, <2>4
  <1>2. Upto(upto, Len(s))
    <2>1. Len(s) \in 0..Len(s)
      OBVIOUS
    <2>2. \E f : Upto(f, Len(s))
      BY <1>1, <2>1
    <2> QED BY <2>2
  <1>3. Kept(s, S) = upto[Len(s)]
    BY DEF Kept
  <1> QED BY <1>2, <1>3

\* What Kept keeps, and that it keeps it in order.
LEMMA KeptIs ==
  ASSUME NEW T, NEW s \in Seq(T), NEW S
  PROVE  /\ Kept(s, S) \in Seq(T)
         /\ ToSet(Kept(s, S)) = ToSet(s) \cap S
         /\ \A i, k \in 1..Len(Kept(s, S)) : i < k =>
              \E a, b \in 1..Len(s) : a < b /\ Kept(s, S)[i] = s[a] /\ Kept(s, S)[k] = s[b]
  <1>0. Len(s) \in Nat /\ DOMAIN s = 1..Len(s) /\ \A i \in 1..Len(s) : s[i] \in T
    BY LenProperties, ElementOfSeq
  <1>1. PICK f : /\ Kept(s, S) = f[Len(s)]
                 /\ f = [n \in 0..Len(s) |->
                          IF n = 0 THEN <<>>
                          ELSE IF s[n] \in S THEN Append(f[n - 1], s[n]) ELSE f[n - 1]]
    BY <1>0, KeptUpto
  <1>2. /\ f[0] = <<>>
        /\ \A n \in 1..Len(s) : f[n] = IF s[n] \in S THEN Append(f[n - 1], s[n]) ELSE f[n - 1]
    <2> DEFINE Next(n) == IF n = 0 THEN <<>>
                          ELSE IF s[n] \in S THEN Append(f[n - 1], s[n]) ELSE f[n - 1]
    <2>1. ASSUME NEW n \in 0..Len(s) PROVE f[n] = Next(n)
      <3>1. f = [j \in 0..Len(s) |-> Next(j)]
        BY <1>1
      <3> HIDE DEF Next
      <3> QED BY <3>1
    <2> QED BY <2>1, <1>0
  <1> DEFINE OK(n) == /\ f[n] \in Seq(T)
                      /\ \A i \in 1..Len(f[n]) : f[n][i] \in S /\ \E a \in 1..n : f[n][i] = s[a]
                      /\ \A a \in 1..n : s[a] \in S => \E i \in 1..Len(f[n]) : f[n][i] = s[a]
                      /\ \A i, k \in 1..Len(f[n]) : i < k =>
                           \E a, b \in 1..n : a < b /\ f[n][i] = s[a] /\ f[n][k] = s[b]
             Bad == {n \in 0..Len(s) : ~OK(n)}
  <1>3. OK(0)
    BY <1>2
  <1>4. ASSUME NEW n \in 1..Len(s), OK(n - 1) PROVE OK(n)
    <2>0. n - 1 \in Nat /\ n \in Nat /\ \A a \in 1..n : a = n \/ a \in 1..(n - 1)
      BY <1>0
    <2>1. CASE s[n] \notin S
      <3>1. f[n] = f[n - 1]
        BY <1>2, <2>1
      <3> QED BY <1>4, <2>0, <2>1, <3>1
    <2>2. CASE s[n] \in S
      <3> DEFINE g == f[n - 1]
                 h == f[n]
      <3>1. h = Append(g, s[n])
        BY <1>2, <2>2
      <3>2. g \in Seq(T) /\ s[n] \in T /\ Len(g) \in Nat
        BY <1>0, <1>4, LenProperties
      <3>3. /\ h \in Seq(T) /\ Len(h) = Len(g) + 1
            /\ \A i \in 1..Len(g) : h[i] = g[i]
            /\ h[Len(g) + 1] = s[n]
        BY <3>1, <3>2, AppendProperties
      <3>4. \A i \in 1..Len(h) : i \in 1..Len(g) \/ i = Len(g) + 1
        BY <3>2, <3>3
      <3>5. /\ \A i \in 1..Len(g) : g[i] \in S /\ \E a \in 1..(n - 1) : g[i] = s[a]
            /\ \A a \in 1..(n - 1) : s[a] \in S => \E i \in 1..Len(g) : g[i] = s[a]
            /\ \A i, k \in 1..Len(g) : i < k =>
                 \E a, b \in 1..(n - 1) : a < b /\ g[i] = s[a] /\ g[k] = s[b]
        BY <1>4
      <3> HIDE DEF g, h
      <3>6. ASSUME NEW i \in 1..Len(h) PROVE h[i] \in S /\ \E a \in 1..n : h[i] = s[a]
        <4>1. CASE i \in 1..Len(g)
          <5>1. PICK a \in 1..(n - 1) : g[i] = s[a]
            BY <3>5, <4>1
          <5>2. a \in 1..n /\ h[i] = g[i] /\ g[i] \in S
            BY <2>0, <3>3, <3>5, <4>1
          <5> QED BY <5>1, <5>2
        <4>2. CASE i = Len(g) + 1
          BY <2>0, <2>2, <3>3, <4>2
        <4> QED BY <3>4, <4>1, <4>2
      <3>7. ASSUME NEW a \in 1..n, s[a] \in S PROVE \E i \in 1..Len(h) : h[i] = s[a]
        <4>1. CASE a = n
          <5>1. Len(g) + 1 \in 1..Len(h)
            BY <3>2, <3>3
          <5> QED BY <3>3, <4>1, <5>1
        <4>2. CASE a \in 1..(n - 1)
          <5>1. PICK i \in 1..Len(g) : g[i] = s[a]
            BY <3>5, <3>7, <4>2
          <5>2. i \in 1..Len(h) /\ h[i] = g[i]
            BY <3>2, <3>3
          <5> QED BY <5>1, <5>2
        <4> QED BY <2>0, <4>1, <4>2
      <3>8. ASSUME NEW i \in 1..Len(h), NEW k \in 1..Len(h), i < k
            PROVE  \E a, b \in 1..n : a < b /\ h[i] = s[a] /\ h[k] = s[b]
        <4>1. i \in 1..Len(g) /\ h[i] = g[i]
          BY <3>2, <3>3, <3>8
        <4>2. CASE k \in 1..Len(g)
          <5>1. PICK a, b \in 1..(n - 1) : a < b /\ g[i] = s[a] /\ g[k] = s[b]
            BY <3>5, <3>8, <4>1, <4>2
          <5>2. a \in 1..n /\ b \in 1..n /\ h[k] = g[k]
            BY <2>0, <3>3, <4>2
          <5> QED BY <4>1, <5>1, <5>2
        <4>3. CASE k = Len(g) + 1
          <5>1. PICK a \in 1..(n - 1) : g[i] = s[a]
            BY <3>5, <4>1
          <5>2. a \in 1..n /\ n \in 1..n /\ a < n
            BY <2>0
          <5> QED BY <3>3, <4>1, <4>3, <5>1, <5>2
        <4> QED BY <3>4, <4>2, <4>3
      <3> QED BY <3>3, <3>6, <3>7, <3>8 DEF h
    <2> QED BY <2>1, <2>2
  <1> HIDE DEF OK
  <1>5. Bad = {}
    <2> SUFFICES ASSUME Bad # {} PROVE FALSE
      OBVIOUS
    <2>1. Bad \in SUBSET Nat
      OBVIOUS
    <2>2. PICK n \in Bad : \A k \in Bad : n <= k
      <3> HIDE DEF Bad
      <3> QED BY <2>1, LeastOne
    <2>3. n \in 0..Len(s) /\ ~OK(n)
      OBVIOUS
    <2>4. n \in 1..Len(s)
      BY <1>3, <2>3
    <2>5. n - 1 \in 0..Len(s) /\ n - 1 \notin Bad
      <3> HIDE DEF Bad
      <3> QED BY <2>2, <2>4, <1>0
    <2> QED BY <1>4, <2>3, <2>4, <2>5
  <1>6. OK(Len(s))
    <2>1. Len(s) \in 0..Len(s)
      BY <1>0
    <2> QED BY <1>5, <2>1
  <1> DEFINE t == Kept(s, S)
  <1>7. /\ t \in Seq(T)
        /\ \A i \in 1..Len(t) : t[i] \in S /\ \E a \in 1..Len(s) : t[i] = s[a]
        /\ \A a \in 1..Len(s) : s[a] \in S => \E i \in 1..Len(t) : t[i] = s[a]
        /\ \A i, k \in 1..Len(t) : i < k =>
             \E a, b \in 1..Len(s) : a < b /\ t[i] = s[a] /\ t[k] = s[b]
    <2>1. t = f[Len(s)]
      BY <1>1
    <2> HIDE DEF t
    <2> QED BY <2>1, <1>6 DEF OK
  <1> HIDE DEF t
  <1>8. DOMAIN t = 1..Len(t)
    BY <1>7, LenProperties
  <1>9. ToSet(t) = ToSet(s) \cap S
    <2>1. ToSet(t) = {t[i] : i \in 1..Len(t)} /\ ToSet(s) = {s[a] : a \in 1..Len(s)}
      BY <1>0, <1>8 DEF ToSet
    <2>2. ASSUME NEW x \in ToSet(t) PROVE x \in ToSet(s) \cap S
      BY <1>7, <2>1, <2>2
    <2>3. ASSUME NEW x \in ToSet(s) \cap S PROVE x \in ToSet(t)
      BY <1>7, <2>1, <2>3
    <2> QED BY <2>2, <2>3
  <1> QED BY <1>7, <1>9 DEF t

-----------------------------------------------------------------------------
(* The update of the index.                                                *)
LEMMA RunTypes == \A r \in Runs : r.id \in RunIds /\ Time(r) \in 1..MaxTime
  BY DEF Runs, RunIds, Time

LEMMA KeptOrdered ==
  ASSUME NEW s \in Seq(Runs), NEW S, Ordered(s)
  PROVE  Ordered(Kept(s, S))
  <1> SUFFICES ASSUME NEW i \in 1..Len(Kept(s, S)), NEW k \in 1..Len(Kept(s, S)), i < k
               PROVE  /\ Time(Kept(s, S)[i]) >= Time(Kept(s, S)[k])
                      /\ Kept(s, S)[i].id # Kept(s, S)[k].id
    BY DEF Ordered
  <1>1. PICK a, b \in 1..Len(s) : a < b /\ Kept(s, S)[i] = s[a] /\ Kept(s, S)[k] = s[b]
    BY KeptIs
  <1> QED BY <1>1 DEF Ordered

LEMMA InsertedIs ==
  ASSUME NEW T \in SUBSET Runs, NEW s \in Seq(T), NEW r \in T, Ordered(s),
         \A x \in ToSet(s) : x.id # r.id
  PROVE  /\ Inserted(s, r) \in Seq(T)
         /\ Ordered(Inserted(s, r))
         /\ ToSet(Inserted(s, r)) = ToSet(s) \cup {r}
         /\ Newer(s, r) = {} => Inserted(s, r) # <<>> /\ Head(Inserted(s, r)) = r
  <1> DEFINE new == Kept(s, Newer(s, r))
             old == Kept(s, ToSet(s) \ Newer(s, r))
             u   == Inserted(s, r)
             n   == Len(new)
  <1>1. /\ new \in Seq(T) /\ ToSet(new) = Newer(s, r) /\ Ordered(new)
        /\ old \in Seq(T) /\ ToSet(old) = ToSet(s) \ Newer(s, r) /\ Ordered(old)
    <2>1. s \in Seq(Runs)
      BY SeqMonotonic
    <2>2. ToSet(s) \cap Newer(s, r) = Newer(s, r)
      BY DEF Newer
    <2>3. ToSet(s) \cap (ToSet(s) \ Newer(s, r)) = ToSet(s) \ Newer(s, r)
      OBVIOUS
    <2>4. new \in Seq(T) /\ ToSet(new) = ToSet(s) \cap Newer(s, r)
      BY KeptIs
    <2>5. old \in Seq(T) /\ ToSet(old) = ToSet(s) \cap (ToSet(s) \ Newer(s, r))
      BY KeptIs
    <2>6. Ordered(new) /\ Ordered(old)
      BY <2>1, KeptOrdered
    <2> HIDE DEF new, old
    <2> QED BY <2>2, <2>3, <2>4, <2>5, <2>6
  <1>2. u = (new \o <<r>>) \o old
    BY DEF Inserted
  <1> HIDE DEF new, old, u
  <1>3. /\ n \in Nat /\ Len(old) \in Nat
        /\ DOMAIN new = 1..n /\ DOMAIN old = 1..Len(old)
    BY <1>1, LenProperties
  <1>4. <<r>> \in Seq(T) /\ Len(<<r>>) = 1 /\ <<r>>[1] = r
    OBVIOUS
  <1>5. /\ new \o <<r>> \in Seq(T) /\ Len(new \o <<r>>) = n + 1
        /\ \A i \in 1..n : (new \o <<r>>)[i] = new[i]
        /\ (new \o <<r>>)[n + 1] = r
    <2> HIDE DEF n
    <2>1. /\ new \o <<r>> \in Seq(T) /\ Len(new \o <<r>>) = n + 1
          /\ \A i \in 1..(n + 1) : (new \o <<r>>)[i] = IF i <= n THEN new[i] ELSE <<r>>[i - n]
      BY <1>1, <1>4, ConcatProperties DEF n
    <2> QED BY <1>3, <1>4, <2>1
  <1>6. /\ u \in Seq(T) /\ Len(u) = n + 1 + Len(old)
        /\ \A i \in 1..n : u[i] = new[i]
        /\ u[n + 1] = r
        /\ \A i \in (n + 2)..(n + 1 + Len(old)) : u[i] = old[i - (n + 1)]
    <2> DEFINE v == new \o <<r>>
    <2> HIDE DEF n, v
    <2>1. v \in Seq(T) /\ Len(v) = n + 1 /\ u = v \o old
      BY <1>2, <1>5 DEF v
    <2>2. /\ u \in Seq(T) /\ Len(u) = n + 1 + Len(old)
          /\ \A i \in 1..(n + 1 + Len(old)) : u[i] = IF i <= n + 1 THEN v[i] ELSE old[i - (n + 1)]
      <3>1. /\ v \o old \in Seq(T) /\ Len(v \o old) = Len(v) + Len(old)
            /\ \A i \in 1..(Len(v) + Len(old)) :
                 (v \o old)[i] = IF i <= Len(v) THEN v[i] ELSE old[i - Len(v)]
        BY <1>1, <2>1, ConcatProperties
      <3> QED BY <2>1, <3>1
    <2> QED BY <1>3, <1>5, <2>2 DEF v
  <1> HIDE DEF n
  <1>7. /\ \A i \in 1..n : new[i] \in Newer(s, r)
        /\ \A i \in 1..Len(old) : old[i] \in ToSet(s) \ Newer(s, r)
    BY <1>1, <1>3 DEF ToSet
  <1>8. ToSet(s) \subseteq Runs /\ \A x \in ToSet(s) : Time(x) \in Int /\ Time(r) \in Int
    <2>1. ToSet(s) \subseteq T
      BY LenProperties, ElementOfSeq DEF ToSet
    <2> QED BY <2>1, RunTypes
  <1>9. Ordered(u)
    <2> SUFFICES ASSUME NEW i \in 1..Len(u), NEW k \in 1..Len(u), i < k
                 PROVE  Time(u[i]) >= Time(u[k]) /\ u[i].id # u[k].id
      BY DEF Ordered
    <2>1. \A j \in 1..Len(u) : \/ j \in 1..n \/ j = n + 1
                               \/ j \in (n + 2)..(n + 1 + Len(old)) /\ j - (n + 1) \in 1..Len(old)
      BY <1>3, <1>6
    <2>2. \A x \in Newer(s, r) : x \in ToSet(s) /\ Time(x) > Time(r)
      BY DEF Newer
    <2>3. \A x \in ToSet(s) \ Newer(s, r) : Time(x) <= Time(r)
      BY <1>8 DEF Newer
    <2>4. \A x, y : Time(x) # Time(y) => x.id # y.id
      BY DEF Time
    <2>5. CASE i \in 1..n /\ k \in 1..n
      BY <1>1, <1>6, <2>5 DEF Ordered, n
    <2>6. CASE i \in 1..n /\ k = n + 1
      BY <1>6, <1>7, <1>8, <2>2, <2>4, <2>6
    <2>7. CASE i \in 1..n /\ k \in (n + 2)..(n + 1 + Len(old))
      <3>1. u[i] \in Newer(s, r) /\ u[k] \in ToSet(s) \ Newer(s, r)
        BY <1>3, <1>6, <1>7, <2>1, <2>7
      <3> QED BY <1>8, <2>2, <2>3, <2>4, <3>1
    <2>8. CASE i = n + 1 /\ k \in (n + 2)..(n + 1 + Len(old))
      <3>1. u[i] = r /\ u[k] \in ToSet(s) \ Newer(s, r)
        BY <1>3, <1>6, <1>7, <2>1, <2>8
      <3> QED BY <1>8, <2>3, <3>1
    <2>9. CASE i \in (n + 2)..(n + 1 + Len(old)) /\ k \in (n + 2)..(n + 1 + Len(old))
      <3>1. /\ i - (n + 1) \in 1..Len(old) /\ k - (n + 1) \in 1..Len(old) /\ i - (n + 1) < k - (n + 1)
            /\ u[i] = old[i - (n + 1)] /\ u[k] = old[k - (n + 1)]
        BY <1>3, <1>6, <2>9
      <3> QED BY <1>1, <3>1 DEF Ordered
    <2> QED BY <1>3, <2>1, <2>5, <2>6, <2>7, <2>8, <2>9
  <1>10. ToSet(u) = ToSet(s) \cup {r}
    <2>1. DOMAIN u = 1..(n + 1 + Len(old))
      BY <1>6, LenProperties
    <2>2. ASSUME NEW x \in ToSet(u) PROVE x \in ToSet(s) \cup {r}
      <3>1. PICK i \in 1..(n + 1 + Len(old)) : x = u[i]
        BY <2>1, <2>2 DEF ToSet
      <3>2. i \in 1..n \/ i = n + 1 \/ (i \in (n + 2)..(n + 1 + Len(old)) /\ i - (n + 1) \in 1..Len(old))
        BY <1>3
      <3> QED BY <1>6, <1>7, <3>1, <3>2 DEF Newer
    <2>3. r \in ToSet(u)
      <3>1. n + 1 \in DOMAIN u
        BY <1>3, <2>1
      <3> QED BY <1>6, <3>1 DEF ToSet
    <2>4. ASSUME NEW x \in Newer(s, r) PROVE x \in ToSet(u)
      <3>1. PICK i \in 1..n : x = new[i]
        BY <1>1, <1>3, <2>4 DEF ToSet
      <3>2. i \in DOMAIN u /\ u[i] = x
        BY <1>3, <1>6, <2>1, <3>1
      <3> QED BY <3>2 DEF ToSet
    <2>5. ASSUME NEW x \in ToSet(s) \ Newer(s, r) PROVE x \in ToSet(u)
      <3>1. PICK i \in 1..Len(old) : x = old[i]
        BY <1>1, <1>3, <2>5 DEF ToSet
      <3> DEFINE k == i + (n + 1)
      <3>2. k \in (n + 2)..(n + 1 + Len(old)) /\ k - (n + 1) = i
        BY <1>3
      <3>3. k \in DOMAIN u /\ u[k] = x
        BY <1>3, <1>6, <2>1, <3>1, <3>2
      <3> QED BY <3>3 DEF ToSet
    <2> QED BY <2>2, <2>3, <2>4, <2>5
  <1>11. ASSUME Newer(s, r) = {} PROVE u # <<>> /\ Head(u) = r
    <2>1. n = 0
      BY <1>3, <1>7, <1>11
    <2> QED BY <1>3, <1>6, <2>1
  <1> QED BY <1>6, <1>9, <1>10, <1>11 DEF u

\* The list keeps every other run, has the new one, and has it first if none
\* is newer.
LEMMA UpdatedIs ==
  ASSUME NEW T \in SUBSET Runs, NEW s \in Seq(T), NEW r \in T, Ordered(s)
  PROVE  /\ Updated(s, r) \in Seq(T)
         /\ Ordered(Updated(s, r))
         /\ ToSet(Updated(s, r)) = {x \in ToSet(s) : x.id # r.id} \cup {r}
         /\ (\A x \in ToSet(s) : Time(x) <= Time(r)) =>
              Updated(s, r) # <<>> /\ Head(Updated(s, r)) = r
  <1> DEFINE S    == {x \in ToSet(s) : x.id # r.id}
             rest == Kept(s, S)
  <1>1. s \in Seq(Runs)
    BY SeqMonotonic
  <1>2. rest \in Seq(T) /\ ToSet(rest) = S /\ Ordered(rest)
    BY <1>1, KeptIs, KeptOrdered
  <1>3. Updated(s, r) = Inserted(rest, r)
    BY DEF Updated
  <1>4. \A x \in ToSet(rest) : x.id # r.id
    BY <1>2
  <1>5. ASSUME \A x \in ToSet(s) : Time(x) <= Time(r) PROVE Newer(rest, r) = {}
    <2>1. ToSet(s) \subseteq Runs
      BY <1>1, LenProperties, ElementOfSeq DEF ToSet
    <2>2. \A x \in ToSet(s) : Time(x) \in Int /\ Time(r) \in Int
      BY <2>1, RunTypes
    <2> QED BY <1>2, <1>5, <2>2 DEF Newer
  <1> HIDE DEF rest
  <1> QED BY <1>2, <1>3, <1>4, <1>5, InsertedIs

-----------------------------------------------------------------------------
(***************************************************************************)
(* The files.                                                              *)
(***************************************************************************)
LEMMA FileFacts ==
  /\ Emptied # Absent /\ Garbled # Absent /\ \A d : Written(d) # Absent
  /\ ~Readable(Absent) /\ ~Readable(Emptied) /\ ~Readable(Garbled)
  /\ \A d : Readable(Written(d)) /\ Written(d).data = d
  BY DEF File, Absent, Emptied, Garbled, Written, Readable

LEMMA FillIs ==
  ASSUME NEW f, NEW D, NEW d \in D, NEW g \in Fill(f, d)
  PROVE  g \in Files(D) /\ g # Absent /\ (g = Written(d) \/ g = Garbled)
  BY FileFacts DEF Fill, Files

LEMMA FillEmptied == ASSUME NEW d, NEW g \in Fill(Emptied, d) PROVE g = Written(d)
  BY DEF Fill, Emptied, File

LEMMA FileIs ==
  ASSUME NEW D, NEW f \in Files(D)
  PROVE  /\ f.kind \in {"absent", "empty", "garbled", "written"}
         /\ Readable(f) => f.data \in D
  BY DEF Files, Absent, Emptied, Garbled, Written, File, Readable

LEMMA FilesGrow == ASSUME NEW D, NEW E, D \subseteq E PROVE Files(D) \subseteq Files(E)
  BY DEF Files

LEMMA EmptyList == <<>> \in Lists
  BY EmptySeq DEF Lists, Ordered

LEMMA IndexRecordsIs == ASSUME NEW f \in Files(Lists) PROVE IndexRecords(f) \in Lists
  BY FileFacts, EmptyList DEF Files, IndexRecords

\* What has been stored stays so while time goes on and no file goes away.
LEMMA StoredGrows ==
  ASSUME clock \in Int, clock' \in Int, clock <= clock',
         \A id \in RunIds : raw[id] # Absent => raw'[id] # Absent,
         \A id \in RunIds : history[id] # Absent => history'[id] # Absent
  PROVE  Started \subseteq Started' /\ Stored \subseteq Stored' /\ Lists \subseteq Lists'
  <1>1. ASSUME NEW r \in Started PROVE r \in Started'
    <2>1. r \in Runs /\ r.id \in RunIds /\ Time(r) \in Int
      BY RunTypes DEF Started
    <2> QED BY <2>1 DEF Started
  <1>2. ASSUME NEW r \in Stored PROVE r \in Stored'
    <2>1. r \in Started /\ r.id \in RunIds
      BY RunTypes DEF Stored, Started
    <2> QED BY <1>1, <2>1 DEF Stored
  <1>3. Seq(Stored) \subseteq Seq(Stored')
    BY <1>2, SeqMonotonic
  <1> QED BY <1>1, <1>2, <1>3 DEF Lists, Ordered

LEMMA StoreInitInv == StoreInit => StoreInv
  <1> SUFFICES ASSUME StoreInit PROVE StoreInv
    OBVIOUS
  <1>1. \A w \in Writers : ~Busy(w) /\ pc[w] \notin PastHistory
    BY DEF StoreInit, Busy, PastHistory
  <1> QED BY <1>1, EmptyList, StoreAssumption DEF StoreInit, StoreInv, Files, Places

\* A step in which one call goes on from one place to the next.
LEMMA CallStep ==
  ASSUME StoreInv, NEW w \in Writers, NEW from \in Places \ {"idle"}, NEW to \in Places \ {"idle"},
         Step(w, from, to), UNCHANGED <<clock, stores, run, completed>>,
         raw' \in [RunIds -> Files(Runs)], history' \in [RunIds -> Files(Runs)],
         \A id \in RunIds : raw[id] # Absent => raw'[id] # Absent,
         \A id \in RunIds : history[id] # Absent => history'[id] # Absent,
         to \in PastHistory => run[w] \in Stored',
         records' \in [Writers -> Lists'], latest' \in Files(Started'), index' \in Files(Lists')
  PROVE  StoreInv'
  <1>1. Started \subseteq Started' /\ Stored \subseteq Stored'
    <2>1. clock \in Int /\ clock' = clock
      BY DEF StoreInv
    <2> QED BY <2>1, StoredGrows
  <1>2. /\ pc' \in [Writers -> Places] /\ pc[w] = from /\ pc'[w] = to
        /\ \A v \in Writers \ {w} : pc'[v] = pc[v]
    BY DEF Step, StoreInv
  <1>3. run' \in [Writers -> Started' \cup {NoRun}]
    BY <1>1 DEF StoreInv
  <1>4. \A v \in Writers : IF Busy(v)' THEN run'[v] \in Started' ELSE run'[v] = NoRun
    BY <1>1, <1>2 DEF StoreInv, Busy
  <1>5. \A v \in Writers : pc'[v] \in PastHistory => run'[v] \in Stored'
    BY <1>1, <1>2 DEF StoreInv
  <1> QED BY <1>2, <1>3, <1>4, <1>5 DEF StoreInv

\* A step in which one call is left.
LEMMA CallEnds ==
  ASSUME StoreInv, NEW w \in Writers, pc' = [pc EXCEPT ![w] = "idle"], Finish(w),
         UNCHANGED <<clock, stores, raw, history, latest>>,
         index' \in Files(Lists), completed' \subseteq Runs
  PROVE  StoreInv'
  <1>1. Started' = Started /\ Stored' = Stored /\ Lists' = Lists
    BY DEF Started, Stored, Lists
  <1>2. /\ pc' \in [Writers -> Places] /\ pc'[w] = "idle" /\ run'[w] = NoRun
        /\ \A v \in Writers \ {w} : pc'[v] = pc[v] /\ run'[v] = run[v]
    BY DEF Finish, StoreInv, Places
  <1>3. run' \in [Writers -> Started \cup {NoRun}] /\ records' \in [Writers -> Lists]
    BY EmptyList DEF Finish, StoreInv
  <1>4. \A v \in Writers : IF Busy(v)' THEN run'[v] \in Started ELSE run'[v] = NoRun
    BY <1>2 DEF StoreInv, Busy
  <1>5. \A v \in Writers : pc'[v] \in PastHistory => run'[v] \in Stored
    BY <1>2 DEF StoreInv, PastHistory
  <1> QED BY <1>1, <1>2, <1>3, <1>4, <1>5 DEF StoreInv

LEMMA TickInv == ASSUME StoreInv, Tick PROVE StoreInv'
  <1>1. /\ clock \in 1..MaxTime /\ clock' \in 1..MaxTime /\ clock <= clock'
        /\ UNCHANGED <<stores, pc, run, records, raw, history, latest, index, completed>>
    BY StoreAssumption DEF Tick, StoreInv, files, ghosts
  <1>2. Started \subseteq Started' /\ Stored \subseteq Stored' /\ Lists \subseteq Lists'
    BY <1>1, StoredGrows
  <1>3. latest' \in Files(Started') /\ index' \in Files(Lists')
    BY <1>1, <1>2, FilesGrow DEF StoreInv
  <1>4. run' \in [Writers -> Started' \cup {NoRun}] /\ records' \in [Writers -> Lists']
    BY <1>1, <1>2 DEF StoreInv
  <1> QED BY <1>1, <1>2, <1>3, <1>4 DEF StoreInv, Busy

LEMMA BeginInv == ASSUME StoreInv, NEW w \in Writers, NEW p \in Purposes, Begin(w, p) PROVE StoreInv'
  <1> DEFINE id == <<clock, p>>
             r  == [id |-> id, call |-> stores + 1]
  <1>1. /\ clock \in 1..MaxTime /\ stores \in 0..MaxStores /\ stores < MaxStores /\ clock' = clock
        /\ stores' = stores + 1 /\ run' = [run EXCEPT ![w] = r] /\ raw' = [raw EXCEPT ![id] = Emptied]
        /\ UNCHANGED <<records, history, latest, index, completed>>
        /\ pc[w] = "idle" /\ pc' = [pc EXCEPT ![w] = "raw_open"]
    BY DEF Begin, Step, StoreInv
  <1>2. id \in RunIds /\ stores' \in 1..MaxStores /\ r \in Runs /\ r.id = id /\ Time(r) = clock
    BY <1>1, StoreAssumption DEF RunIds, Runs, Time
  <1> HIDE DEF r, id
  <1>3. raw' \in [RunIds -> Files(Runs)] /\ \A i \in RunIds : raw[i] # Absent => raw'[i] # Absent
    BY <1>1, <1>2, FileFacts DEF StoreInv, Files
  <1>4. Started \subseteq Started' /\ Stored \subseteq Stored' /\ Lists \subseteq Lists'
    BY <1>1, <1>3, StoredGrows
  <1>5. r \in Started'
    <2>1. raw'[id] = Emptied
      BY <1>1, <1>2 DEF StoreInv
    <2> QED BY <1>1, <1>2, <2>1, FileFacts DEF Started
  <1>6. latest' \in Files(Started') /\ index' \in Files(Lists')
    BY <1>1, <1>4, FilesGrow DEF StoreInv
  <1>7. /\ run' \in [Writers -> Started' \cup {NoRun}] /\ records' \in [Writers -> Lists']
        /\ pc' \in [Writers -> Places]
    BY <1>1, <1>4, <1>5 DEF StoreInv, Places
  <1>8. /\ \A v \in Writers \ {w} : pc'[v] = pc[v] /\ run'[v] = run[v]
        /\ pc'[w] = "raw_open" /\ run'[w] = r
    BY <1>1 DEF StoreInv
  <1>9. \A v \in Writers : IF Busy(v)' THEN run'[v] \in Started' ELSE run'[v] = NoRun
    BY <1>4, <1>5, <1>8 DEF StoreInv, Busy
  <1>10. \A v \in Writers : pc'[v] \in PastHistory => run'[v] \in Stored'
    BY <1>4, <1>8 DEF StoreInv, PastHistory
  <1> QED BY <1>1, <1>2, <1>3, <1>6, <1>7, <1>9, <1>10 DEF StoreInv

\* What a call may write about itself.
LEMMA MeIs ==
  ASSUME StoreInv, NEW w \in Writers, Busy(w)
  PROVE  /\ run[w] \in Started /\ run[w] \in Runs /\ Me(w) \in RunIds
         /\ raw[Me(w)] # Absent
  BY RunTypes DEF StoreInv, Started, Me

LEMMA StepInv == ASSUME StoreInv, NEW w \in Writers, Store(w) PROVE StoreInv'
  <1>0. /\ raw \in [RunIds -> Files(Runs)] /\ history \in [RunIds -> Files(Runs)]
        /\ records \in [Writers -> Lists] /\ latest \in Files(Started) /\ index \in Files(Lists)
        /\ completed \subseteq Runs
    BY DEF StoreInv
  <1>e. \A D : Emptied \in Files(D)
    BY DEF Files
  <1>a. ASSUME UNCHANGED <<clock, raw, history>> PROVE Started' = Started /\ Stored' = Stored /\ Lists' = Lists
    BY <1>a DEF Started, Stored, Lists
  <1>1. CASE RawFill(w)
    <2>1. /\ Step(w, "raw_open", "raw_written") /\ Busy(w)
          /\ UNCHANGED <<clock, stores, run, records, history, latest, index, completed>>
      BY <1>1 DEF RawFill, Step, Busy, ghosts
    <2>2. PICK f \in Fill(raw[Me(w)], run[w]) : raw' = [raw EXCEPT ![Me(w)] = f]
      BY <1>1 DEF RawFill
    <2>3. f \in Files(Runs) /\ f # Absent
      BY <2>1, MeIs, FillIs
    <2>4. raw' \in [RunIds -> Files(Runs)] /\ \A id \in RunIds : raw[id] # Absent => raw'[id] # Absent
      BY <1>0, <2>2, <2>3
    <2>5. Started \subseteq Started' /\ Lists \subseteq Lists'
      BY <2>1, <2>4, StoredGrows DEF StoreInv
    <2>6. records' \in [Writers -> Lists'] /\ latest' \in Files(Started') /\ index' \in Files(Lists')
      BY <1>0, <2>1, <2>5, FilesGrow
    <2>7. {"raw_open", "raw_written"} \subseteq Places \ {"idle"} /\ "raw_written" \notin PastHistory
      BY DEF Places, PastHistory
    <2> QED BY <1>0, <2>1, <2>4, <2>6, <2>7, CallStep
  <1>2. CASE LatestOpen(w) \/ LatestFill(w)
    <2>1. /\ Busy(w) /\ UNCHANGED <<clock, stores, run, records, raw, history, index, completed>>
          /\ Step(w, "raw_written", "latest_open") \/ Step(w, "latest_open", "latest_written")
      BY <1>2 DEF LatestOpen, LatestFill, Step, Busy, ghosts
    <2>2. latest' \in Files(Started)
      BY <1>e, <1>2, <2>1, MeIs, FillIs DEF LatestOpen, LatestFill
    <2>3. /\ {"raw_written", "latest_open", "latest_written"} \subseteq Places \ {"idle"}
          /\ "latest_open" \notin PastHistory /\ "latest_written" \notin PastHistory
      BY DEF Places, PastHistory
    <2>4. raw' = raw /\ history' = history /\ records' = records /\ index' = index
      BY <2>1
    <2>5. Started' = Started /\ Lists' = Lists
      BY <1>a, <2>1
    <2> QED BY <1>0, <2>1, <2>2, <2>3, <2>4, <2>5, CallStep
  <1>3. CASE HistoryOpen(w) \/ HistoryFill(w)
    <2>1. /\ Busy(w) /\ UNCHANGED <<clock, stores, run, records, raw, latest, index, completed>>
          /\ Step(w, "latest_written", "history_open") \/ Step(w, "history_open", "history_written")
      BY <1>3 DEF HistoryOpen, HistoryFill, Step, Busy, ghosts
    <2>2. PICK f \in Files(Runs) : f # Absent /\ history' = [history EXCEPT ![Me(w)] = f]
      BY <1>e, <1>3, <2>1, FileFacts, MeIs, FillIs DEF HistoryOpen, HistoryFill
    <2>3. /\ history' \in [RunIds -> Files(Runs)] /\ history'[Me(w)] = f
          /\ \A id \in RunIds : history[id] # Absent => history'[id] # Absent
      BY <1>0, <2>1, <2>2, MeIs
    <2>4. Started \subseteq Started' /\ Lists \subseteq Lists'
      BY <2>1, <2>3, StoredGrows DEF StoreInv
    <2>5. records' \in [Writers -> Lists'] /\ latest' \in Files(Started') /\ index' \in Files(Lists')
      BY <1>0, <2>1, <2>4, FilesGrow
    <2>6. run[w] \in Stored'
      BY <2>1, <2>2, <2>3, <2>4, MeIs DEF Stored, Me
    <2>7. {"latest_written", "history_open", "history_written"} \subseteq Places \ {"idle"}
      BY DEF Places
    <2> QED BY <1>0, <2>1, <2>3, <2>5, <2>6, <2>7, CallStep
  <1>4. CASE IndexRead(w)
    <2>1. /\ Step(w, "history_written", "index_read")
          /\ records' = [records EXCEPT ![w] = Updated(IndexRecords(index), run[w])]
          /\ UNCHANGED <<clock, stores, run, raw, history, latest, index, completed>>
      BY <1>4 DEF IndexRead, files, ghosts
    <2>2. run[w] \in Stored
      BY <2>1 DEF Step, StoreInv, PastHistory
    <2>3. Updated(IndexRecords(index), run[w]) \in Lists
      <3>1. IndexRecords(index) \in Seq(Stored) /\ Ordered(IndexRecords(index))
        BY <1>0, IndexRecordsIs DEF Lists
      <3>2. Stored \in SUBSET Runs
        BY DEF Stored, Started
      <3> QED BY <2>2, <3>1, <3>2, UpdatedIs DEF Lists
    <2>4. records' \in [Writers -> Lists]
      BY <1>0, <2>1, <2>3
    <2>5. {"history_written", "index_read"} \subseteq Places \ {"idle"}
      BY DEF Places
    <2>6. Started' = Started /\ Stored' = Stored /\ Lists' = Lists
      BY <1>a, <2>1
    <2>7. raw' = raw /\ history' = history /\ latest' = latest /\ index' = index
      BY <2>1
    <2> QED BY <1>0, <2>1, <2>2, <2>4, <2>5, <2>6, <2>7, CallStep
  <1>5. CASE IndexOpen(w)
    <2>1. /\ Step(w, "index_read", "index_open") /\ index' = Emptied
          /\ UNCHANGED <<clock, stores, run, raw, history, latest, records, completed>>
      BY <1>5 DEF IndexOpen, files, ghosts
    <2>2. run[w] \in Stored
      BY <2>1 DEF Step, StoreInv, PastHistory
    <2>3. {"index_read", "index_open"} \subseteq Places \ {"idle"}
      BY DEF Places
    <2>4. Started' = Started /\ Stored' = Stored /\ Lists' = Lists
      BY <1>a, <2>1
    <2>5. raw' = raw /\ history' = history /\ latest' = latest /\ records' = records
      BY <2>1
    <2> QED BY <1>0, <1>e, <2>1, <2>2, <2>3, <2>4, <2>5, CallStep
  <1>6. CASE IndexFill(w)
    <2>1. /\ pc[w] = "index_open" /\ pc' = [pc EXCEPT ![w] = "idle"] /\ Finish(w)
          /\ index' \in Fill(index, records[w]) /\ completed' = completed \cup {run[w]}
          /\ UNCHANGED <<clock, stores, raw, history, latest>>
      BY <1>6 DEF IndexFill, Step
    <2>2. run[w] \in Runs
      BY <2>1, MeIs DEF Busy
    <2>3. index' \in Files(Lists)
      BY <1>0, <2>1, FillIs
    <2> QED BY <1>0, <2>1, <2>2, <2>3, CallEnds
  <1> QED BY <1>1, <1>2, <1>3, <1>4, <1>5, <1>6 DEF Store

LEMMA StoreNextInv == StoreInv /\ [StoreNext]_storeVars => StoreInv'
  <1> SUFFICES ASSUME StoreInv, [StoreNext]_storeVars PROVE StoreInv'
    OBVIOUS
  <1>1. ASSUME NEW w \in Writers, Fail(w) PROVE StoreInv'
    BY <1>1, CallEnds DEF Fail, files, ghosts, StoreInv
  <1>2. CASE UNCHANGED storeVars
    BY <1>2 DEF storeVars, files, ghosts, StoreInv, Started, Stored, Lists, Busy
  <1> QED BY <1>1, <1>2, TickInv, BeginInv, StepInv DEF StoreNext

LEMMA StoreInvariant == StoreSpec => []StoreInv
  BY StoreInitInv, StoreNextInv, PTL DEF StoreSpec

\* The files, the clock and the calls are as they should be, however many calls
\* overlap and wherever they fail.
THEOREM StoreTypeCorrect == StoreSpec => []StoreTypeOK
  <1>1. StoreInv => StoreTypeOK
    <2> SUFFICES ASSUME StoreInv PROVE StoreTypeOK
      OBVIOUS
    <2>1. Started \subseteq Runs /\ Stored \subseteq Runs
      BY DEF Started, Stored
    <2>2. Lists \subseteq Seq(Runs)
      BY <2>1, SeqMonotonic DEF Lists
    <2>3. /\ \A id \in RunIds : raw[id] \in Files(Runs) /\ history[id] \in Files(Runs)
          /\ latest \in Files(Started) /\ index \in Files(Lists)
      BY DEF StoreInv
    <2>4. run \in [Writers -> Runs \cup {NoRun}] /\ records \in [Writers -> Seq(Runs)]
      BY <2>1, <2>2 DEF StoreInv
    <2>5. /\ \A id \in RunIds : raw[id].kind \in {"absent", "empty", "garbled", "written"}
          /\ \A id \in RunIds : Readable(history[id]) => history[id].data \in Runs
      BY <2>3, FileIs
    <2>6. (Readable(latest) => latest.data \in Runs) /\ (Readable(index) => index.data \in Seq(Runs))
      <3>1. (Readable(latest) => latest.data \in Started) /\ (Readable(index) => index.data \in Lists)
        BY <2>3, FileIs
      <3> QED BY <2>1, <2>2, <3>1
    <2> QED BY <2>4, <2>5, <2>6 DEF StoreInv, StoreTypeOK, Places
  <1> QED BY <1>1, StoreInvariant, PTL

\* The index a reader gets is newest first and has a run_id once, whatever
\* updates were lost or garbled (observations.py _update_observation_index).
THEOREM IndexStaysInOrder == StoreSpec => []IndexInOrder
  <1>1. StoreInv => IndexInOrder
    BY IndexRecordsIs DEF StoreInv, IndexInOrder, Lists, Ordered
  <1> QED BY <1>1, StoreInvariant, PTL

\* An index entry never dangles: its raw and its history file are on disk, also
\* after a crash between two writes.
THEOREM IndexNeverDangles == StoreSpec => []IndexedFilesExist
  <1>1. StoreInv => IndexedFilesExist
    <2> SUFFICES ASSUME StoreInv PROVE IndexedFilesExist
      OBVIOUS
    <2>1. IndexRecords(index) \in Seq(Stored)
      BY IndexRecordsIs DEF StoreInv, Lists
    <2>2. \A i \in 1..Len(IndexRecords(index)) : IndexRecords(index)[i] \in Stored
      BY <2>1, ElementOfSeq
    <2> QED BY <2>2 DEF IndexedFilesExist, Stored, Started
  <1> QED BY <1>1, StoreInvariant, PTL

\* The raw output behind the record that readers are shown is on disk, however
\* many calls overlap and wherever they fail (observations.py
\* store_collection_observation).
THEOREM ShownRecordHasRaw == StoreSpec => []LatestHasRaw
  <1>1. StoreInv => LatestHasRaw
    BY FileFacts DEF StoreInv, LatestHasRaw, Files, Started
  <1> QED BY <1>1, StoreInvariant, PTL

-----------------------------------------------------------------------------
(***************************************************************************)
(* A call that runs alone.                                                 *)
(***************************************************************************)
Mine(w) == Written(run[w])

\* How far the call of w has come, when no other call has overlapped it.
Progress(w) ==
  /\ raw[Me(w)] = IF pc[w] = "raw_open" THEN Emptied ELSE Mine(w)
  /\ pc[w] = "latest_open" => latest = Emptied
  /\ pc[w] \in PastHistory \cup {"latest_written"} => latest = Mine(w)
  /\ pc[w] = "history_open" => history[Me(w)] = Emptied
  /\ pc[w] \in PastHistory \ {"history_open"} => history[Me(w)] = Mine(w)
  /\ pc[w] \notin {"index_read", "index_open"} =>
       /\ before[w] = ToSet(IndexRecords(index))
       /\ \A r \in before[w] : Time(r) <= Time(run[w])
  /\ pc[w] \in {"index_read", "index_open"} =>
       /\ records[w] # <<>> /\ Head(records[w]) = run[w]
       /\ \A r \in before[w] : r.id # Me(w) => r \in ToSet(records[w])
  /\ pc[w] = "index_open" => index = Emptied

Alone(w) == (\A v \in Writers \ {w} : ~Busy(v)) /\ Progress(w)

AloneInv ==
  /\ DOMAIN alone = Writers /\ DOMAIN before = Writers
  /\ \A w \in Writers : alone[w] /\ Busy(w) => Alone(w)

LEMMA AloneInit == StoreInit => AloneInv
  BY DEF StoreInit, AloneInv, Busy

\* A step of the call that runs alone.
LEMMA AloneStep ==
  ASSUME StoreInv, AloneInv, NEW w \in Writers, Store(w), alone[w], Busy(w)'
  PROVE  Alone(w)'
  <1>1. /\ Busy(w) /\ Alone(w) /\ UNCHANGED <<run, alone, before>> /\ Me(w)' = Me(w)
        /\ DOMAIN pc = Writers /\ DOMAIN records = Writers
        /\ DOMAIN raw = RunIds /\ DOMAIN history = RunIds /\ Me(w) \in RunIds
    <2>1. Busy(w) /\ UNCHANGED <<run, alone, before>>
      BY DEF Store, RawFill, LatestOpen, LatestFill, HistoryOpen, HistoryFill, IndexRead, IndexOpen,
             IndexFill, Step, Busy, files, ghosts, StoreInv
    <2> QED BY <2>1, MeIs DEF AloneInv, Me, StoreInv
  <1>2. \A v \in Writers \ {w} : ~Busy(v)'
    <2>1. \E to \in Places : pc' = [pc EXCEPT ![w] = to]
      BY DEF Store, RawFill, LatestOpen, LatestFill, HistoryOpen, HistoryFill, IndexRead, IndexOpen,
             IndexFill, Step, Places
    <2> QED BY <1>1, <2>1 DEF Alone, Busy
  <1>3. Progress(w)'
    <2> USE DEF Progress, Alone, Mine, PastHistory
    <2>1. CASE RawFill(w)
      BY <1>1, <2>1, FillEmptied DEF RawFill, Step
    <2>2. CASE LatestOpen(w)
      BY <1>1, <2>2 DEF LatestOpen, Step
    <2>3. CASE LatestFill(w)
      BY <1>1, <2>3, FillEmptied DEF LatestFill, Step
    <2>4. CASE HistoryOpen(w)
      BY <1>1, <2>4 DEF HistoryOpen, Step
    <2>5. CASE HistoryFill(w)
      BY <1>1, <2>5, FillEmptied DEF HistoryFill, Step
    <2>6. CASE IndexRead(w)
      <3> DEFINE s == IndexRecords(index)
      <3>1. /\ pc[w] = "history_written" /\ pc'[w] = "index_read"
            /\ records'[w] = Updated(s, run[w])
            /\ UNCHANGED <<raw, history, latest, index>>
        BY <1>1, <2>6 DEF IndexRead, Step, files
      <3>2. s \in Seq(Stored) /\ Ordered(s) /\ run[w] \in Stored
        BY <3>1, IndexRecordsIs DEF StoreInv, Lists
      <3>3. Stored \in SUBSET Runs
        BY DEF Stored, Started
      <3>4. before[w] = ToSet(s) /\ \A r \in ToSet(s) : Time(r) <= Time(run[w])
        BY <1>1, <3>1
      <3> HIDE DEF s
      <3>5. /\ ToSet(Updated(s, run[w])) = {x \in ToSet(s) : x.id # Me(w)} \cup {run[w]}
            /\ Updated(s, run[w]) # <<>> /\ Head(Updated(s, run[w])) = run[w]
        BY <3>2, <3>3, <3>4, UpdatedIs DEF Me
      <3>6. \A r \in before[w] : r.id # Me(w) => r \in ToSet(records'[w])
        BY <3>1, <3>4, <3>5
      <3> QED BY <1>1, <3>1, <3>5, <3>6
    <2>7. CASE IndexOpen(w)
      BY <1>1, <2>7 DEF IndexOpen, Step
    <2>8. CASE IndexFill(w)
      BY <1>1, <2>8 DEF IndexFill, Step, Busy
    <2> QED BY <2>1, <2>2, <2>3, <2>4, <2>5, <2>6, <2>7, <2>8 DEF Store
  <1> QED BY <1>2, <1>3 DEF Alone

\* A call that begins while no other is under way.
LEMMA AloneBegin ==
  ASSUME StoreInv, NEW w \in Writers, NEW p \in Purposes, Begin(w, p), alone'[w], DOMAIN before = Writers
  PROVE  Alone(w)'
  <1> DEFINE r == [id |-> <<clock, p>>, call |-> stores + 1]
  <1>1. /\ pc' = [pc EXCEPT ![w] = "raw_open"] /\ run' = [run EXCEPT ![w] = r]
        /\ raw' = [raw EXCEPT ![r.id] = Emptied] /\ index' = index
        /\ before' = [before EXCEPT ![w] = ToSet(IndexRecords(index))]
        /\ alone' = [v \in Writers |-> IF v = w THEN \A u \in Writers : ~Busy(u) ELSE FALSE]
    BY DEF Begin, Step
  <1>2. r.id \in RunIds /\ Time(r) = clock
    BY DEF RunIds, Time, StoreInv
  <1> HIDE DEF r
  <1>3. \A v \in Writers \ {w} : ~Busy(v)'
    BY <1>1 DEF Busy, StoreInv
  <1>4. pc'[w] = "raw_open" /\ run'[w] = r /\ raw'[r.id] = Emptied /\ before'[w] = ToSet(IndexRecords(index'))
    BY <1>1, <1>2 DEF StoreInv
  <1>5. \A x \in ToSet(IndexRecords(index)) : Time(x) <= clock
    <2>1. IndexRecords(index) \in Seq(Stored)
      BY IndexRecordsIs DEF StoreInv, Lists
    <2>2. ToSet(IndexRecords(index)) \subseteq Stored
      BY <2>1, LenProperties, ElementOfSeq DEF ToSet
    <2> QED BY <2>2 DEF Stored, Started
  <1> QED BY <1>1, <1>2, <1>3, <1>4, <1>5 DEF Alone, Progress, Me, PastHistory

LEMMA AloneNext == StoreInv /\ AloneInv /\ [StoreNext]_storeVars => AloneInv'
  <1> SUFFICES ASSUME StoreInv, AloneInv, [StoreNext]_storeVars PROVE AloneInv'
    OBVIOUS
  <1>1. ASSUME UNCHANGED <<pc, run, records, raw, history, latest, index, alone, before>> PROVE AloneInv'
    BY <1>1 DEF AloneInv, Alone, Progress, Busy, Me, Mine
  <1>2. ASSUME NEW w \in Writers, NEW p \in Purposes, Begin(w, p) PROVE AloneInv'
    <2>1. /\ alone' = [v \in Writers |-> IF v = w THEN \A u \in Writers : ~Busy(u) ELSE FALSE]
          /\ DOMAIN before' = Writers
      BY <1>2 DEF Begin, AloneInv
    <2> QED BY <1>2, <2>1, AloneBegin DEF AloneInv
  <1>3. ASSUME NEW w \in Writers, Store(w) PROVE AloneInv'
    <2>1. /\ Busy(w) /\ UNCHANGED <<alone, before>>
          /\ \E to \in Places : pc' = [pc EXCEPT ![w] = to]
      BY <1>3 DEF Store, RawFill, LatestOpen, LatestFill, HistoryOpen, HistoryFill, IndexRead, IndexOpen,
             IndexFill, Step, Busy, Places, files, ghosts
    <2>2. ASSUME NEW v \in Writers, alone'[v], Busy(v)' PROVE Alone(v)'
      <3>1. v = w
        <4> SUFFICES ASSUME v # w PROVE FALSE
          OBVIOUS
        <4>1. Busy(v) /\ alone[v]
          BY <2>1, <2>2 DEF Busy, StoreInv
        <4> QED BY <2>1, <4>1 DEF AloneInv, Alone
      <3> QED BY <1>3, <2>1, <2>2, <3>1, AloneStep
    <2> QED BY <2>1, <2>2 DEF AloneInv
  <1>4. ASSUME NEW w \in Writers, Fail(w) PROVE AloneInv'
    <2>1. Busy(w) /\ UNCHANGED <<alone, before>> /\ pc' = [pc EXCEPT ![w] = "idle"]
      BY <1>4 DEF Fail, files, ghosts
    <2>2. ASSUME NEW v \in Writers, alone'[v], Busy(v)' PROVE FALSE
      <3>1. v # w /\ Busy(v) /\ alone[v]
        BY <2>1, <2>2 DEF Busy, StoreInv
      <3> QED BY <2>1, <3>1 DEF AloneInv, Alone
    <2> QED BY <2>1, <2>2 DEF AloneInv
  <1>5. CASE Tick
    BY <1>1, <1>5 DEF Tick, files, ghosts
  <1>6. CASE UNCHANGED storeVars
    BY <1>1, <1>6 DEF storeVars, files, ghosts
  <1> QED BY <1>2, <1>3, <1>4, <1>5, <1>6 DEF StoreNext

\* A call that no other overlapped leaves its three records and an index that
\* has it first and has lost nothing, whatever earlier failures left behind
\* (observations.py store_collection_observation).
THEOREM AloneStoreCompletes == StoreSpec => AloneStoreIsComplete
  <1>1. StoreInv /\ AloneInv /\ [StoreNext]_storeVars =>
          [\A w \in Writers :
             alone[w] /\ run[w] \in completed' \ completed =>
               /\ latest' = Written(run[w])
               /\ raw'[Me(w)] = Written(run[w])
               /\ history'[Me(w)] = Written(run[w])
               /\ Readable(index')
               /\ index'.data # <<>> /\ Head(index'.data) = run[w]
               /\ \A r \in before[w] : r.id # Me(w) => r \in ToSet(index'.data)]_storeVars
    <2> SUFFICES ASSUME StoreInv, AloneInv, StoreNext, NEW w \in Writers,
                        alone[w], run[w] \in completed' \ completed
                 PROVE  /\ latest' = Written(run[w]) /\ raw'[Me(w)] = Written(run[w])
                        /\ history'[Me(w)] = Written(run[w])
                        /\ Readable(index')
                        /\ index'.data # <<>> /\ Head(index'.data) = run[w]
                        /\ \A r \in before[w] : r.id # Me(w) => r \in ToSet(index'.data)
      OBVIOUS
    <2>1. PICK v \in Writers : IndexFill(v)
      BY DEF StoreNext, Tick, Begin, Store, RawFill, LatestOpen, LatestFill, HistoryOpen, HistoryFill,
             IndexRead, IndexOpen, Fail, files, ghosts
    <2>2. /\ pc[v] = "index_open" /\ completed' = completed \cup {run[v]}
          /\ index' \in Fill(index, records[v]) /\ UNCHANGED <<raw, history, latest>>
      BY <2>1 DEF IndexFill, Step
    <2>3. run[w] = run[v] /\ run[v] \in Runs /\ Busy(v)
      BY <2>2, MeIs DEF Busy
    <2>4. Busy(w)
      <3>1. NoRun \notin Runs
        BY StoreAssumption DEF Runs, NoRun
      <3> QED BY <2>3, <3>1 DEF StoreInv
    <2>5. v = w /\ Progress(w)
      BY <2>3, <2>4 DEF AloneInv, Alone
    <2>6. index' = Written(records[w])
      BY <2>2, <2>5, FillEmptied DEF Progress
    <2>7. Readable(index') /\ index'.data = records[w]
      BY <2>6, FileFacts
    <2> QED BY <2>2, <2>5, <2>7 DEF Progress, Mine, PastHistory
  <1> QED BY <1>1, AloneInit, AloneNext, StoreInitInv, StoreNextInv, PTL DEF StoreSpec, AloneStoreIsComplete
====
