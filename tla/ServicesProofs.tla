-------------------------- MODULE ServicesProofs --------------------------
(***************************************************************************)
(* Proofs about parts of MCServices.  The parts share no state, so what    *)
(* holds of a part on its own holds of PartsSpec.                          *)
(***************************************************************************)
EXTENDS MCServices, FiniteSetTheorems, FunctionTheorems, SequenceTheorems, WellFoundedInduction, TLAPS

----------------------------------------------------------------------------
(* A step of any part is a step of a given part or leaves that part alone. *)

LEMMA PartsAreApart ==
    ASSUME [PartsNext]_allVars
    PROVE  /\ [Next]_vars
           /\ L!Next \/ UNCHANGED linkVars
           /\ (part = "storage" /\ S!Next) \/ UNCHANGED storageVars
           /\ P!Next \/ UNCHANGED tuneVars
<1>1. CASE PartsNext
  BY <1>1 DEF PartsNext, RunFaults, RunLink, RunMessages, RunStorage, RunTables, RunTune, RunCatalog, RunCodegen
<1>2. CASE UNCHANGED allVars
  BY <1>2 DEF allVars
<1> QED BY <1>1, <1>2

----------------------------------------------------------------------------
(* Storage: every step is one of StorageMap, or a stutter.                 *)

StoredEntry == [key : Keys, value : S!Value]
KeyedOnce(s) == \A i, j \in 1 .. Len(s) : s[i].key = s[j].key => i = j
StoreInv == data \in Seq(StoredEntry) /\ KeyedOnce(data) /\ Len(data) <= Slots

\* The map that list s of entries stands for.
Where(s, k) ==
    LET at == {i \in DOMAIN s : s[i].key = k} IN IF at = {} THEN 0 ELSE Min(at)
MapOf(s) == [k \in {s[i].key : i \in DOMAIN s} |-> s[Where(s, k)].value]

LEMMA ContentsAreMap ==
    /\ S!contents = MapOf(data) /\ S!contents' = MapOf(data')
    /\ \A k : S!Position(k) = Where(data, k)
BY DEF S!contents, S!Position, S!Min, Min, MapOf, Where

LEMMA WhereIs ==
    ASSUME NEW s \in Seq(StoredEntry), KeyedOnce(s)
    PROVE  /\ \A k : Where(s, k) = 0 <=> k \notin {s[i].key : i \in 1 .. Len(s)}
           /\ \A i \in 1 .. Len(s) : Where(s, s[i].key) = i
<1>1. Len(s) \in Nat
  OBVIOUS
<1>2. ASSUME NEW i \in 1 .. Len(s)
      PROVE  Where(s, s[i].key) = i
  <2>1. {j \in DOMAIN s : s[j].key = s[i].key} = {i}
    <3>1. DOMAIN s = 1 .. Len(s)
      OBVIOUS
    <3> QED BY <3>1 DEF KeyedOnce
  <2>2. Min({i}) = i
    BY <1>1 DEF Min
  <2> QED BY <2>1, <2>2 DEF Where
<1>3. ASSUME NEW k, k \notin {s[i].key : i \in 1 .. Len(s)}
      PROVE  Where(s, k) = 0
  <2>1. {j \in DOMAIN s : s[j].key = k} = {}
    BY <1>3
  <2> QED BY <2>1 DEF Where
<1>4. \A i \in 1 .. Len(s) : Where(s, s[i].key) # 0
  BY <1>1, <1>2, SMTT(30)
<1> QED BY <1>2, <1>3, <1>4

LEMMA MapOfIs ==
    ASSUME NEW s \in Seq(StoredEntry), KeyedOnce(s)
    PROVE  /\ MapOf(s) = [k \in DOMAIN MapOf(s) |-> MapOf(s)[k]]
           /\ DOMAIN MapOf(s) = {s[i].key : i \in 1 .. Len(s)}
           /\ \A i \in 1 .. Len(s) : MapOf(s)[s[i].key] = s[i].value
           /\ Cardinality(DOMAIN MapOf(s)) = Len(s)
<1>1. DOMAIN s = 1 .. Len(s) /\ Len(s) \in Nat
  OBVIOUS
<1>2. DOMAIN MapOf(s) = {s[i].key : i \in 1 .. Len(s)} /\ MapOf(s) = [k \in DOMAIN MapOf(s) |-> MapOf(s)[k]]
  BY <1>1 DEF MapOf
<1>3. \A i \in 1 .. Len(s) : MapOf(s)[s[i].key] = s[i].value
  BY <1>1, WhereIs DEF MapOf
<1>4. Cardinality(DOMAIN MapOf(s)) = Len(s)
  <2> DEFINE f == [i \in 1 .. Len(s) |-> s[i].key]
  <2>1. f \in Surjection(1 .. Len(s), DOMAIN MapOf(s))
    BY <1>2 DEF Surjection
  <2>2. f \in Injection(1 .. Len(s), DOMAIN MapOf(s))
    BY <1>2 DEF Injection, IsInjective, KeyedOnce
  <2>3. f \in Bijection(1 .. Len(s), DOMAIN MapOf(s))
    BY <2>1, <2>2 DEF Bijection
  <2> QED BY <1>1, <2>3, FS_CountingElements DEF ExistsBijection
<1> QED BY <1>2, <1>3, <1>4, Zenon

\* Two lists that have the same entries stand for the same map.
LEMMA MapOfReplaced ==
    ASSUME NEW s \in Seq(StoredEntry), KeyedOnce(s), NEW p \in 1 .. Len(s), NEW v \in S!Value
    PROVE  LET r == [s EXCEPT ![p].value = v]
           IN /\ r \in Seq(StoredEntry) /\ KeyedOnce(r) /\ Len(r) = Len(s)
              /\ MapOf(r) = [x \in DOMAIN MapOf(s) \cup {s[p].key} |-> IF x = s[p].key THEN v ELSE MapOf(s)[x]]
<1> DEFINE r == [s EXCEPT ![p].value = v]
<1>1. /\ r \in Seq(StoredEntry) /\ Len(r) = Len(s)
      /\ \A i \in 1 .. Len(s) : r[i].key = s[i].key /\ r[i].value = IF i = p THEN v ELSE s[i].value
  <2> DEFINE e == [s[p] EXCEPT !.value = v]
  <2>1. s[p] \in StoredEntry
    OBVIOUS
  <2>2. e \in StoredEntry /\ e.key = s[p].key /\ e.value = v
    BY <2>1 DEF StoredEntry
  <2>3. r = [s EXCEPT ![p] = e]
    OBVIOUS
  <2> HIDE DEF e
  <2> QED BY <2>2, <2>3, ExceptSeq
<1> HIDE DEF r
<1>2. KeyedOnce(r)
  BY <1>1 DEF KeyedOnce
<1>3. /\ DOMAIN MapOf(r) = {s[i].key : i \in 1 .. Len(s)} /\ DOMAIN MapOf(s) = {s[i].key : i \in 1 .. Len(s)}
      /\ MapOf(r) = [k \in DOMAIN MapOf(r) |-> MapOf(r)[k]]
      /\ \A i \in 1 .. Len(s) : MapOf(r)[s[i].key] = r[i].value /\ MapOf(s)[s[i].key] = s[i].value
  <2>1. \A i \in 1 .. Len(s) : MapOf(r)[r[i].key] = r[i].value
    BY <1>1, <1>2, MapOfIs
  <2>2. DOMAIN MapOf(r) = {r[i].key : i \in 1 .. Len(s)} /\ MapOf(r) = [k \in DOMAIN MapOf(r) |-> MapOf(r)[k]]
    BY <1>1, <1>2, MapOfIs
  <2>3. {r[i].key : i \in 1 .. Len(s)} = {s[i].key : i \in 1 .. Len(s)}
    BY <1>1
  <2> QED BY <1>1, <2>1, <2>2, <2>3, MapOfIs
<1>4. \A i \in 1 .. Len(s) : s[i].key = s[p].key <=> i = p
  BY DEF KeyedOnce
<1>5. MapOf(r) = [x \in DOMAIN MapOf(s) \cup {s[p].key} |-> IF x = s[p].key THEN v ELSE MapOf(s)[x]]
  <2>1. DOMAIN MapOf(r) = DOMAIN MapOf(s) \cup {s[p].key}
    BY <1>3
  <2>2. \A x \in DOMAIN MapOf(r) : MapOf(r)[x] = IF x = s[p].key THEN v ELSE MapOf(s)[x]
    BY <1>1, <1>3, <1>4
  <2> QED BY <1>3, <2>1, <2>2
<1> QED BY <1>1, <1>2, <1>5 DEF r

LEMMA MapOfAppended ==
    ASSUME NEW s \in Seq(StoredEntry), KeyedOnce(s), NEW k \in Keys, k \notin DOMAIN MapOf(s), NEW v \in S!Value
    PROVE  LET r == Append(s, S!Entry(k, v))
           IN /\ r \in Seq(StoredEntry) /\ KeyedOnce(r) /\ Len(r) = Len(s) + 1
              /\ MapOf(r) = [x \in DOMAIN MapOf(s) \cup {k} |-> IF x = k THEN v ELSE MapOf(s)[x]]
<1> DEFINE r == Append(s, S!Entry(k, v))
           n == Len(s)
<1>1. n \in Nat /\ S!Entry(k, v) \in StoredEntry /\ S!Entry(k, v).key = k /\ S!Entry(k, v).value = v
  BY DEF S!Entry, StoredEntry
<1>2. /\ r \in Seq(StoredEntry) /\ Len(r) = n + 1
      /\ r[n + 1].key = k /\ r[n + 1].value = v
      /\ \A i \in 1 .. n : r[i] = s[i]
  BY <1>1
<1>3. \A i \in 1 .. n + 1 : i \in 1 .. n \/ i = n + 1
  BY <1>1
<1>4. /\ DOMAIN MapOf(s) = {s[i].key : i \in 1 .. n}
      /\ \A i \in 1 .. n : MapOf(s)[s[i].key] = s[i].value
  BY MapOfIs
<1> HIDE DEF r, n
<1>5. KeyedOnce(r)
  BY <1>1, <1>2, <1>3, <1>4 DEF KeyedOnce, n
<1>6. /\ DOMAIN MapOf(r) = {r[i].key : i \in 1 .. n + 1}
      /\ MapOf(r) = [x \in DOMAIN MapOf(r) |-> MapOf(r)[x]]
      /\ \A i \in 1 .. n + 1 : MapOf(r)[r[i].key] = r[i].value
  BY <1>2, <1>5, MapOfIs
<1>7. DOMAIN MapOf(r) = DOMAIN MapOf(s) \cup {k}
  BY <1>1, <1>2, <1>3, <1>4, <1>6
<1>8. \A x \in DOMAIN MapOf(r) : MapOf(r)[x] = IF x = k THEN v ELSE MapOf(s)[x]
  BY <1>1, <1>2, <1>3, <1>4, <1>6
<1> QED BY <1>2, <1>5, <1>6, <1>7, <1>8, ZenonT(30) DEF r, n

LEMMA MapOfRemoved ==
    ASSUME NEW s \in Seq(StoredEntry), KeyedOnce(s), NEW p \in 1 .. Len(s)
    PROVE  LET r == RemoveAt(s, p)
           IN /\ r \in Seq(StoredEntry) /\ KeyedOnce(r) /\ Len(r) = Len(s) - 1
              /\ MapOf(r) = [x \in DOMAIN MapOf(s) \ {s[p].key} |-> MapOf(s)[x]]
<1> DEFINE r == RemoveAt(s, p)
           n == Len(s)
<1>1. n \in Nat \ {0} /\ p \in 1 .. n
  OBVIOUS
<1>2. /\ r \in Seq(StoredEntry) /\ Len(r) = n - 1
      /\ \A i \in 1 .. n - 1 : r[i] = IF i < p THEN s[i] ELSE s[i + 1]
  <2> DEFINE a == SubSeq(s, 1, p - 1)  b == SubSeq(s, p + 1, n)
  <2>1. /\ a \in Seq(StoredEntry) /\ Len(a) = p - 1 /\ \A i \in 1 .. p - 1 : a[i] = s[i]
    BY <1>1
  <2>2. /\ b \in Seq(StoredEntry) /\ Len(b) = n - p /\ \A i \in 1 .. n - p : b[i] = s[p + i]
    BY <1>1
  <2>3. r = a \o b
    BY DEF RemoveAt
  <2> HIDE DEF a, b, n, r
  <2>4. r \in Seq(StoredEntry) /\ Len(r) = (p - 1) + (n - p)
        /\ \A i \in 1 .. (p - 1) + (n - p) : r[i] = IF i <= p - 1 THEN a[i] ELSE b[i - (p - 1)]
    BY <2>1, <2>2, <2>3, ConcatProperties
  <2>5. (p - 1) + (n - p) = n - 1
    BY <1>1
  <2>6. \A i \in 1 .. n - 1 : i < p => i \in 1 .. p - 1 /\ i <= p - 1
    BY <1>1
  <2>7. \A i \in 1 .. n - 1 : ~(i < p) => i - (p - 1) \in 1 .. n - p /\ p + (i - (p - 1)) = i + 1 /\ ~(i <= p - 1)
    BY <1>1
  <2> QED BY <2>1, <2>2, <2>4, <2>5, <2>6, <2>7
<1>3. /\ DOMAIN MapOf(s) = {s[i].key : i \in 1 .. n}
      /\ \A i \in 1 .. n : MapOf(s)[s[i].key] = s[i].value
      /\ \A i, j \in 1 .. n : s[i].key = s[j].key => i = j
  BY MapOfIs DEF KeyedOnce
<1> HIDE DEF r, n
<1>4. KeyedOnce(r)
  <2> SUFFICES ASSUME NEW i \in 1 .. n - 1, NEW j \in 1 .. n - 1, r[i].key = r[j].key PROVE i = j
    BY <1>2 DEF KeyedOnce
  <2>1. i \in 1 .. n /\ i + 1 \in 1 .. n /\ j \in 1 .. n /\ j + 1 \in 1 .. n
    BY <1>1
  <2>2. (i < p => r[i] = s[i]) /\ (~(i < p) => r[i] = s[i + 1])
        /\ (j < p => r[j] = s[j]) /\ (~(j < p) => r[j] = s[j + 1])
    BY <1>2
  <2>3. CASE i < p /\ j < p
    BY <1>3, <2>1, <2>2, <2>3
  <2>4. CASE i < p /\ ~(j < p)
    <3>1. i = j + 1
      BY <1>3, <2>1, <2>2, <2>4
    <3> QED BY <1>1, <2>4, <3>1
  <2>5. CASE ~(i < p) /\ j < p
    <3>1. i + 1 = j
      BY <1>3, <2>1, <2>2, <2>5
    <3> QED BY <1>1, <2>5, <3>1
  <2>6. CASE ~(i < p) /\ ~(j < p)
    <3>1. i + 1 = j + 1
      BY <1>3, <2>1, <2>2, <2>6
    <3> QED BY <1>1, <3>1
  <2> QED BY <2>3, <2>4, <2>5, <2>6
<1>5. /\ DOMAIN MapOf(r) = {r[i].key : i \in 1 .. n - 1}
      /\ MapOf(r) = [x \in DOMAIN MapOf(r) |-> MapOf(r)[x]]
      /\ \A i \in 1 .. n - 1 : MapOf(r)[r[i].key] = r[i].value
  BY <1>2, <1>4, MapOfIs
<1>6. \A i \in 1 .. n - 1 : \E j \in 1 .. n : j # p /\ r[i] = s[j]
  <2> SUFFICES ASSUME NEW i \in 1 .. n - 1 PROVE \E j \in 1 .. n : j # p /\ r[i] = s[j]
    OBVIOUS
  <2>1. i \in 1 .. n /\ i + 1 \in 1 .. n
    BY <1>1
  <2> QED BY <1>1, <1>2, <2>1
<1>7. \A j \in 1 .. n : j # p => \E i \in 1 .. n - 1 : r[i] = s[j]
  <2> SUFFICES ASSUME NEW j \in 1 .. n, j # p PROVE \E i \in 1 .. n - 1 : r[i] = s[j]
    OBVIOUS
  <2>1. CASE j < p
    BY <1>1, <1>2, <2>1
  <2>2. CASE j > p
    <3>1. j - 1 \in 1 .. n - 1 /\ ~(j - 1 < p) /\ (j - 1) + 1 = j
      BY <1>1, <2>2
    <3> QED BY <1>2, <3>1
  <2> QED BY <1>1, <2>1, <2>2
<1>8. DOMAIN MapOf(r) = DOMAIN MapOf(s) \ {s[p].key}
  <2>1. ASSUME NEW i \in 1 .. n - 1
        PROVE  r[i].key \in DOMAIN MapOf(s) \ {s[p].key}
    <3>1. PICK j \in 1 .. n : j # p /\ r[i] = s[j]
      BY <1>6
    <3> QED BY <1>1, <1>3, <3>1
  <2>2. ASSUME NEW j \in 1 .. n, s[j].key # s[p].key
        PROVE  s[j].key \in DOMAIN MapOf(r)
    <3>1. PICK i \in 1 .. n - 1 : r[i] = s[j]
      BY <1>7, <2>2
    <3> QED BY <1>5, <3>1
  <2> QED BY <1>3, <1>5, <2>1, <2>2, SMTT(30)
<1>9. \A x \in DOMAIN MapOf(r) : MapOf(r)[x] = MapOf(s)[x]
  BY <1>3, <1>5, <1>6
<1> QED BY <1>2, <1>4, <1>5, <1>8, <1>9 DEF r, n

LEMMA SameCardinality == \A X : S!Map!Cardinality(X) = Cardinality(X)
BY DEF S!Map!Cardinality, Cardinality

LEMMA StoreStep ==
    ASSUME StoreInv, NEW k \in Keys, NEW v \in S!Value, S!Store(k, v)
    PROVE  StoreInv' /\ S!Map!Write(k, v)
<1> DEFINE m == MapOf(data)
<1>1. S!contents = m /\ S!contents' = MapOf(data') /\ S!Position(k) = Where(data, k)
  BY ContentsAreMap
<1>2. data \in Seq(StoredEntry) /\ KeyedOnce(data) /\ Len(data) \in Nat /\ Len(data) <= Slots /\ Slots \in Nat
  BY StoreAssumption DEF StoreInv, S!StorageAssumption
<1>3. /\ DOMAIN m = {data[i].key : i \in 1 .. Len(data)}
      /\ Cardinality(DOMAIN m) = Len(data)
      /\ S!Position(k) = 0 <=> k \notin DOMAIN m
      /\ \A i \in 1 .. Len(data) : data[i].key = k => S!Position(k) = i
  BY <1>1, <1>2, MapOfIs, WhereIs
<1> HIDE DEF m
<1>4. /\ StoreInv'
      /\ IF v.length <= Room /\ (k \in DOMAIN m \/ Cardinality(DOMAIN m) < Slots)
         THEN /\ MapOf(data') = [x \in DOMAIN m \cup {k} |-> IF x = k THEN v ELSE m[x]]
              /\ result' = S!Ok(None)
         ELSE result' = S!Error("WriteFailed") /\ MapOf(data') = m
  <2>1. /\ v.length > Room <=> ~(v.length <= Room)
        /\ Len(data) >= Slots <=> ~(Len(data) < Slots)
    <3>1. v.length \in Nat /\ Room \in Nat
      BY StoreAssumption DEF S!Value, S!StorageAssumption
    <3> QED BY <1>2, <3>1
  <2>2. CASE ~(v.length <= Room) \/ (k \notin DOMAIN m /\ ~(Len(data) < Slots))
    <3>1. v.length > Room \/ (S!Position(k) = 0 /\ Len(data) >= Slots)
      BY <1>3, <2>1, <2>2, Zenon
    <3>2. result' = S!Error("WriteFailed") /\ data' = data
      BY <3>1, SMTT(30) DEF S!Store
    <3>3. ~(v.length <= Room /\ (k \in DOMAIN m \/ Cardinality(DOMAIN m) < Slots))
      BY <1>3, <2>2, Zenon
    <3>4. StoreInv' /\ MapOf(data') = m
      BY <1>2, <3>2 DEF StoreInv, m
    <3> QED BY <3>2, <3>3, <3>4
  <2>3. CASE v.length <= Room /\ (k \in DOMAIN m \/ Len(data) < Slots)
    <3>1. ~(v.length > Room \/ (S!Position(k) = 0 /\ Len(data) >= Slots))
      BY <1>3, <2>1, <2>3, Zenon
    <3>2. /\ result' = S!Ok(None)
          /\ data' = IF S!Position(k) # 0 THEN [data EXCEPT ![S!Position(k)].value = v]
                     ELSE Append(data, S!Entry(k, v))
      BY <3>1, SMTT(30) DEF S!Store
    <3>3. v.length <= Room /\ (k \in DOMAIN m \/ Cardinality(DOMAIN m) < Slots)
      BY <1>3, <2>3, Zenon
    <3>4. CASE k \in DOMAIN m
      <4>1. PICK p \in 1 .. Len(data) : data[p].key = k
        BY <1>3, <3>4, ZenonT(30)
      <4>2. S!Position(k) = p /\ p # 0
        BY <1>2, <1>3, <4>1, Zenon
      <4>3. data' = [data EXCEPT ![p].value = v]
        BY <3>2, <4>2
      <4>4. /\ data' \in Seq(StoredEntry) /\ KeyedOnce(data') /\ Len(data') = Len(data)
            /\ MapOf(data') = [x \in DOMAIN m \cup {k} |-> IF x = k THEN v ELSE m[x]]
        <5>1. /\ data' \in Seq(StoredEntry) /\ KeyedOnce(data') /\ Len(data') = Len(data)
              /\ MapOf(data') = [x \in DOMAIN m \cup {data[p].key} |-> IF x = data[p].key THEN v ELSE m[x]]
          BY <1>2, <4>3, MapOfReplaced DEF m
        <5> QED BY <4>1, <5>1, Zenon
      <4>5. StoreInv'
        BY <1>2, <4>4 DEF StoreInv
      <4> QED BY <3>2, <3>3, <4>4, <4>5
    <3>5. CASE k \notin DOMAIN m
      <4>1. S!Position(k) = 0 /\ Len(data) < Slots
        BY <1>3, <2>3, <3>5, Zenon
      <4>2. data' = Append(data, S!Entry(k, v))
        BY <3>2, <4>1
      <4>3. /\ data' \in Seq(StoredEntry) /\ KeyedOnce(data') /\ Len(data') = Len(data) + 1
            /\ MapOf(data') = [x \in DOMAIN m \cup {k} |-> IF x = k THEN v ELSE m[x]]
        BY <1>2, <3>5, <4>2, MapOfAppended DEF m
      <4>4. StoreInv'
        BY <1>2, <4>1, <4>3 DEF StoreInv
      <4> QED BY <3>2, <3>3, <4>3, <4>4
    <3> QED BY <3>4, <3>5
  <2> QED BY <2>2, <2>3
<1>5. S!Map!Ok(None) = S!Ok(None) /\ S!Map!Error("WriteFailed") = S!Error("WriteFailed")
  BY DEF S!Map!Ok, S!Map!Error, S!Ok, S!Error
<1>6. S!contents' = S!contents <=> MapOf(data') = m
  BY <1>1
<1>7. CASE v.length <= Room /\ (k \in DOMAIN m \/ Cardinality(DOMAIN m) < Slots)
  <2>1. S!contents' = [x \in DOMAIN m \cup {k} |-> IF x = k THEN v ELSE m[x]] /\ result' = S!Ok(None)
    BY <1>1, <1>4, <1>7
  <2>2. S!contents = m
    BY <1>1
  <2>3. S!Map!Write(k, v)
    BY <1>5, <1>7, <2>1, <2>2, SameCardinality DEF S!Map!Write
  <2> QED BY <1>4, <2>3
<1>8. CASE ~(v.length <= Room /\ (k \in DOMAIN m \/ Cardinality(DOMAIN m) < Slots))
  <2>1. S!contents' = S!contents /\ result' = S!Error("WriteFailed")
    BY <1>4, <1>6, <1>8
  <2>2. S!contents = m
    BY <1>1
  <2>3. S!Map!Write(k, v)
    BY <1>5, <1>8, <2>1, <2>2, SameCardinality DEF S!Map!Write
  <2> QED BY <1>4, <2>3
<1> QED BY <1>7, <1>8

LEMMA ReadStep ==
    ASSUME StoreInv, NEW k \in Keys, NEW size, result' = S!Fetched(k, size), data' = data
    PROVE  StoreInv' /\ S!Map!Read(k, size)
<1>1. S!contents = MapOf(data) /\ S!contents' = S!contents /\ S!Position(k) = Where(data, k)
  BY ContentsAreMap
<1>2. data \in Seq(StoredEntry) /\ KeyedOnce(data)
  BY DEF StoreInv
<1>3. StoreInv'
  BY DEF StoreInv
<1>4. CASE k \notin DOMAIN MapOf(data)
  <2>1. S!Position(k) = 0
    BY <1>1, <1>2, <1>4, MapOfIs, WhereIs
  <2> QED BY <1>1, <1>3, <1>4, <2>1 DEF S!Fetched, S!Map!Read, S!Map!Error, S!Error
<1>5. CASE k \in DOMAIN MapOf(data)
  <2>0. DOMAIN MapOf(data) = {data[i].key : i \in 1 .. Len(data)}
    BY <1>2, MapOfIs
  <2>1. PICK i \in 1 .. Len(data) : data[i].key = k
    BY <1>5, <2>0
  <2>2. S!Position(k) = i /\ i # 0 /\ MapOf(data)[k] = data[i].value
    <3>1. Where(data, k) = i /\ MapOf(data)[k] = data[i].value
      BY <1>2, <2>1, MapOfIs, WhereIs
    <3> QED BY <1>1, <1>2, <3>1
  <2> QED BY <1>1, <1>3, <1>5, <2>2 DEF S!Fetched, S!Map!Read, S!Map!Ok, S!Ok
<1> QED BY <1>4, <1>5

LEMMA EraseStep ==
    ASSUME StoreInv, NEW k \in Keys, S!Erase(k)
    PROVE  StoreInv' /\ S!Map!Erase(k)
<1> DEFINE m == MapOf(data)
<1>1. S!contents = m /\ S!contents' = MapOf(data') /\ S!Position(k) = Where(data, k)
  BY ContentsAreMap
<1>2. data \in Seq(StoredEntry) /\ KeyedOnce(data) /\ Len(data) \in Nat /\ Len(data) <= Slots /\ Slots \in Nat
  BY StoreAssumption DEF StoreInv, S!StorageAssumption
<1> HIDE DEF m
<1>4. CASE k \notin DOMAIN m
  <2>1. S!Position(k) = 0
    BY <1>1, <1>2, <1>4, MapOfIs, WhereIs DEF m
  <2>2. result' = S!Error("ReadFailed") /\ data' = data
    BY <2>1 DEF S!Erase
  <2>3. StoreInv' /\ S!contents' = S!contents
    BY <1>1, <2>2 DEF StoreInv, m
  <2> QED BY <1>1, <1>4, <2>2, <2>3 DEF S!Map!Erase, S!Map!Error, S!Error
<1>5. CASE k \in DOMAIN m
  <2>0. DOMAIN m = {data[i].key : i \in 1 .. Len(data)}
    BY <1>2, MapOfIs DEF m
  <2>1. PICK p \in 1 .. Len(data) : data[p].key = k
    BY <1>5, <2>0
  <2>2. S!Position(k) = p /\ p # 0
    BY <1>1, <1>2, <2>1, WhereIs
  <2>3. data' = RemoveAt(data, p) /\ result' = S!Ok(None)
    BY <2>2 DEF S!Erase, RemoveAt
  <2>4. /\ data' \in Seq(StoredEntry) /\ KeyedOnce(data') /\ Len(data') = Len(data) - 1
        /\ MapOf(data') = [x \in DOMAIN m \ {k} |-> m[x]]
    BY <1>2, <2>1, <2>3, MapOfRemoved DEF m
  <2>5. StoreInv'
    BY <1>2, <2>4 DEF StoreInv
  <2> QED BY <1>1, <1>5, <2>3, <2>4, <2>5 DEF S!Map!Erase, S!Map!Restrict, S!Map!Ok, S!Ok
<1> QED BY <1>4, <1>5

LEMMA StorageStep ==
    ASSUME StoreInv, S!Next
    PROVE  StoreInv' /\ S!Map!Next
<1>1. ASSUME NEW k \in Keys, NEW v \in S!Value, S!Write(k, v)
      PROVE  StoreInv' /\ S!Map!Next
  <2>1. StoreInv' /\ S!Map!Write(k, v)
    BY <1>1, StoreStep DEF S!Write
  <2>2. v \in S!Map!Data
    BY DEF S!Map!Data, S!Value
  <2> QED BY <2>1, <2>2 DEF S!Map!Next
<1>2. ASSUME NEW k \in Keys, NEW size \in Lengths, S!Read(k, size)
      PROVE  StoreInv' /\ S!Map!Next
  <2>1. StoreInv' /\ S!Map!Read(k, size)
    BY <1>2, ReadStep DEF S!Read
  <2> QED BY <2>1 DEF S!Map!Next
<1>3. ASSUME NEW k \in Keys, S!Erase(k)
      PROVE  StoreInv' /\ S!Map!Next
  <2>1. StoreInv' /\ S!Map!Erase(k)
    BY <1>3, EraseStep
  <2> QED BY <2>1 DEF S!Map!Next
<1>4. ASSUME NEW w \in Writer, S!SaveLtft(w)
      PROVE  StoreInv' /\ S!Map!Next
  <2>1. LtftKey \in Keys /\ [length |-> LtftLength, by |-> w] \in S!Value
    BY StoreAssumption DEF S!StorageAssumption, S!Value
  <2>2. StoreInv' /\ S!Map!Write(LtftKey, [length |-> LtftLength, by |-> w])
    BY <1>4, <2>1, StoreStep DEF S!SaveLtft
  <2>3. [length |-> LtftLength, by |-> w] \in S!Map!Data
    BY <2>1 DEF S!Map!Data, S!Value
  <2> QED BY <2>1, <2>2, <2>3 DEF S!Map!Next
<1>5. CASE S!LoadLtft
  <2>1. LtftKey \in Keys /\ LtftLength \in Lengths
    BY StoreAssumption DEF S!StorageAssumption
  <2>2. StoreInv' /\ S!Map!Read(LtftKey, LtftLength)
    BY <1>5, <2>1, ReadStep DEF S!LoadLtft
  <2> QED BY <2>1, <2>2 DEF S!Map!Next
<1>6. CASE S!Clear
  <2>1. data' = <<>> /\ result' = None
    BY <1>6 DEF S!Clear
  <2>2. S!contents' = S!Map!Empty
    BY <2>1, ContentsAreMap DEF MapOf, S!Map!Empty
  <2>3. StoreInv'
    BY <2>1, StoreAssumption DEF StoreInv, KeyedOnce, S!StorageAssumption
  <2> QED BY <2>1, <2>2, <2>3 DEF S!Map!Next, S!Map!Clear
<1> QED BY <1>1, <1>2, <1>3, <1>4, <1>5, <1>6 DEF S!Next

\* The list of entries is a map, at its limits too: an erased key has no older data behind it, a full
\* store takes new data for a key it has, and a refused call changes nothing (MemoryStorage and
\* LtftStorage, engine-core/src/storage.rs).
THEOREM StorageKeepsPromise == PartsSpec => StorageIsAMap
<1>1. PartsInit => StoreInv /\ S!Map!Init
  <2> SUFFICES ASSUME PartsInit PROVE StoreInv /\ S!Map!Init
    OBVIOUS
  <2>1. data = <<>> /\ result = None
    BY DEF PartsInit, S!Init
  <2>2. S!contents = S!Map!Empty
    BY <2>1, ContentsAreMap DEF MapOf, S!Map!Empty
  <2> QED BY <2>1, <2>2, StoreAssumption DEF StoreInv, KeyedOnce, S!StorageAssumption, S!Map!Init
<1>2. StoreInv /\ [PartsNext]_allVars => StoreInv' /\ [part = "storage" /\ S!Map!Next]_<<S!contents, result>>
  <2> SUFFICES ASSUME StoreInv, [PartsNext]_allVars
               PROVE  StoreInv' /\ [part = "storage" /\ S!Map!Next]_<<S!contents, result>>
    OBVIOUS
  <2>1. CASE part = "storage" /\ S!Next
    BY <2>1, StorageStep
  <2>2. CASE UNCHANGED storageVars
    <3>1. data' = data /\ result' = result
      BY <2>2 DEF storageVars
    <3>2. S!contents' = S!contents
      BY <3>1, ContentsAreMap
    <3> QED BY <3>1, <3>2 DEF StoreInv
  <2> QED BY <2>1, <2>2, PartsAreApart
<1> QED BY <1>1, <1>2, PTL DEF PartsSpec, StorageIsAMap

----------------------------------------------------------------------------
(* Link: what is on the line is some request made so far, and an answer    *)
(* bears the sequence number of its request.                               *)

LEMMA LeastOfSet ==
    ASSUME NEW X \in SUBSET Nat, X # {}
    PROVE  \E m \in X : \A n \in X : m <= n
<1> DEFINE up_to == {0 .. n : n \in X}
<1>1. up_to \subseteq FiniteSubsetsOf(Nat)
  <2> SUFFICES ASSUME NEW n \in X PROVE 0 .. n \in FiniteSubsetsOf(Nat)
    OBVIOUS
  <2>1. n \in Int /\ 0 \in Int /\ 0 .. n \subseteq Nat
    OBVIOUS
  <2>2. IsFiniteSet(0 .. n)
    BY <2>1, FS_Interval
  <2> QED BY <2>1, <2>2 DEF FiniteSubsetsOf
<1>2. \E x \in up_to : \A y \in up_to : ~(<<y, x>> \in StrictSubsetOrdering(Nat))
  <2>1. up_to # {}
    OBVIOUS
  <2>2. IsWellFoundedOn(StrictSubsetOrdering(Nat), FiniteSubsetsOf(Nat))
    BY FS_StrictSubsetOrderingWellFounded
  <2> HIDE DEF up_to
  <2> QED BY <1>1, <2>1, <2>2, WFMin
<1>3. PICK m \in X : \A n \in X : ~(<<0 .. n, 0 .. m>> \in StrictSubsetOrdering(Nat))
  BY <1>2
<1>4. \A n \in X : n < m => <<0 .. n, 0 .. m>> \in StrictSubsetOrdering(Nat)
  <2> SUFFICES ASSUME NEW n \in X, n < m PROVE <<0 .. n, 0 .. m>> \in StrictSubsetOrdering(Nat)
    OBVIOUS
  <2>1. 0 .. n \subseteq Nat /\ 0 .. m \subseteq Nat /\ 0 .. n \subseteq 0 .. m /\ m \in 0 .. m /\ m \notin 0 .. n
    OBVIOUS
  <2> QED BY <2>1 DEF StrictSubsetOrdering
<1>5. \A n \in X : ~(n < m)
  BY <1>3, <1>4
<1>6. \A n \in X : n \in Nat /\ m \in Nat
  OBVIOUS
<1>7. \A n \in Nat : m \in Nat /\ ~(n < m) => m <= n
  OBVIOUS
<1> QED BY <1>5, <1>6, <1>7

\* Two requests with one sequence number are at least SeqNumbers apart.
LEMMA OneNumberEach ==
    ASSUME NEW r \in Nat \ {0}, NEW q \in Nat \ {0}, r <= q, q < r + SeqNumbers,
           L!SeqOfRequest(r) = L!SeqOfRequest(q)
    PROVE  r = q
<1> DEFINE n == SeqNumbers
           a == (r - 1) \div n  b == (q - 1) \div n
           k == b - a
<1>1. n \in Nat \ {0} /\ r - 1 \in Nat /\ q - 1 \in Nat
  BY LineAssumption DEF L!LinkAssumption
<1>2. (r - 1) % n = (q - 1) % n /\ (r - 1) % n \in 0 .. n - 1
  BY <1>1 DEF L!SeqOfRequest
<1>3. a \in Int /\ b \in Int /\ r - 1 = n * a + ((r - 1) % n) /\ q - 1 = n * b + ((q - 1) % n)
  BY <1>1
<1>4. k \in Int /\ q - r = n * k
  BY <1>1, <1>2, <1>3
<1>5. \A d \in Int : d >= 1 => n * d >= n
  BY <1>1
<1>6. \A d \in Int : d <= -1 => n * d <= -n
  BY <1>1
<1>7. n * 0 = 0
  BY <1>1
<1> HIDE DEF k, n
<1>8. k >= 1 => n * k >= n
  BY <1>4, <1>5
<1>9. k <= -1 => n * k <= -n
  BY <1>4, <1>6
<1>10. q - r < n /\ q - r >= 0
  BY <1>1 DEF n
<1>11. ~(k >= 1) /\ ~(k <= -1)
  <2> DEFINE x == n * k
  <2>1. x = q - r
    BY <1>4
  <2> HIDE DEF x
  <2> QED BY <1>1, <1>8, <1>9, <1>10, <2>1 DEF x
<1>12. k = 0
  BY <1>4, <1>11
<1> QED BY <1>4, <1>7, <1>12

ItemTo(k) == [of : 1 .. k, part : {"head", "tail"}, good : BOOLEAN] \cup {L!Zero}
AnswerFrame == [seq : Nat, of : Nat \cup {None}, n : Nat, last : BOOLEAN]
FrameTo(k) == {f \in AnswerFrame : f.of # None => f.of \in 1 .. k /\ f.seq = L!SeqOfRequest(f.of)}

LineInv ==
    /\ sent \in Nat /\ sent <= MaxRequests /\ pushes \in Nat /\ asking \in {None, sent}
    /\ down \in Seq(ItemTo(sent)) /\ rx \in Seq(ItemTo(sent)) /\ up \in Seq(FrameTo(sent))
    /\ defrag.buffer \in Seq(FrameTo(sent))

\* No answer is SeqNumbers requests late or more.
Timely == \A i \in DOMAIN up : up[i].of # None => sent < up[i].of + SeqNumbers

LEMMA SequenceParts ==
    ASSUME NEW A, NEW s \in Seq(A), NEW i \in 1 .. Len(s) + 1
    PROVE  /\ SubSeq(s, i, Len(s)) \in Seq(A) /\ SubSeq(s, i + 1, Len(s)) \in Seq(A)
           /\ SubSeq(s, 1, i - 1) \in Seq(A)
           /\ i \in 1 .. Len(s) => SubSeq(s, 1, i) \in Seq(A)
<1>1. Len(s) \in Nat /\ i \in Nat \ {0}
  OBVIOUS
<1>2. SubSeq(s, i, Len(s)) \in Seq(A) /\ SubSeq(s, i + 1, Len(s)) \in Seq(A)
  BY <1>1
<1>3. SubSeq(s, 1, i - 1) \in Seq(A)
  BY <1>1
<1> QED BY <1>1, <1>2, <1>3

LEMMA LineParts ==
    ASSUME NEW A, NEW s \in Seq(A)
    PROVE  /\ \A i \in DOMAIN s : L!RemoveAt(s, i) \in Seq(A)
           /\ \A i \in 1 .. Len(s) + 1 : \A e \in A : L!InsertAt(s, i, e) \in Seq(A)
<1>1. DOMAIN s = 1 .. Len(s) /\ Len(s) \in Nat
  OBVIOUS
<1>2. \A i \in 1 .. Len(s) + 1 : /\ SubSeq(s, i, Len(s)) \in Seq(A) /\ SubSeq(s, i + 1, Len(s)) \in Seq(A)
                                 /\ SubSeq(s, 1, i - 1) \in Seq(A)
  BY SequenceParts
<1>3. \A i \in 1 .. Len(s) : i \in 1 .. Len(s) + 1
  BY <1>1
<1>4. ASSUME NEW i \in 1 .. Len(s)
      PROVE  L!RemoveAt(s, i) \in Seq(A)
  <2>1. SubSeq(s, 1, i - 1) \in Seq(A) /\ SubSeq(s, i + 1, Len(s)) \in Seq(A)
    BY <1>2, <1>3
  <2> QED BY <2>1, ConcatProperties DEF L!RemoveAt
<1>5. ASSUME NEW i \in 1 .. Len(s) + 1, NEW e \in A
      PROVE  L!InsertAt(s, i, e) \in Seq(A)
  <2>1. SubSeq(s, 1, i - 1) \in Seq(A) /\ SubSeq(s, i, Len(s)) \in Seq(A) /\ <<e>> \in Seq(A)
    BY <1>2
  <2>2. SubSeq(s, 1, i - 1) \o <<e>> \in Seq(A)
    BY <2>1, ConcatProperties
  <2> QED BY <2>1, <2>2, ConcatProperties DEF L!InsertAt
<1> QED BY <1>1, <1>4, <1>5

LEMMA MoreRequests ==
    ASSUME NEW k \in Nat, NEW j \in Nat, k <= j
    PROVE  /\ \A s \in Seq(ItemTo(k)) : s \in Seq(ItemTo(j))
           /\ \A s \in Seq(FrameTo(k)) : s \in Seq(FrameTo(j))
<1>1. 1 .. k \subseteq 1 .. j
  OBVIOUS
<1>2. ItemTo(k) \subseteq ItemTo(j)
  BY <1>1 DEF ItemTo
<1>3. FrameTo(k) \subseteq FrameTo(j)
  BY <1>1 DEF FrameTo
<1> HIDE DEF ItemTo, FrameTo
<1>4. ASSUME NEW A, NEW B, A \subseteq B, NEW s \in Seq(A)
      PROVE  s \in Seq(B)
  BY <1>4
<1> QED BY <1>2, <1>3, <1>4

LEMMA SendSteps ==
    ASSUME LineInv, L!Send \/ L!SendPartly
    PROVE  LineInv'
<1>0. sent' <= MaxRequests
  <2>1. sent \in Nat /\ MaxRequests \in Nat /\ sent < MaxRequests /\ sent' = sent + 1
    BY LineAssumption DEF LineInv, L!LinkAssumption, L!Send, L!SendPartly
  <2> QED BY <2>1
<1>1. /\ sent \in Nat /\ sent' = sent + 1 /\ sent + 1 \in 1 .. sent + 1
      /\ UNCHANGED <<rx, up, pushes, defrag, answered>>
      /\ asking' \in {None, sent + 1}
  BY DEF LineInv, L!Send, L!SendPartly, L!client
<1>2. L!Pieces(sent + 1) \in Seq(ItemTo(sent + 1)) /\ Head(L!Pieces(sent + 1)) \in ItemTo(sent + 1)
  <2>1. \A g \in {"head", "tail"} : [of |-> sent + 1, part |-> g, good |-> TRUE] \in ItemTo(sent + 1)
    BY <1>1 DEF ItemTo
  <2>2. L!Zero \in ItemTo(sent + 1)
    BY DEF ItemTo
  <2> HIDE DEF ItemTo
  <2> QED BY <2>1, <2>2 DEF L!Pieces
<1>3. /\ down \in Seq(ItemTo(sent + 1)) /\ rx \in Seq(ItemTo(sent + 1)) /\ up \in Seq(FrameTo(sent + 1))
      /\ defrag.buffer \in Seq(FrameTo(sent + 1))
  <2>1. sent + 1 \in Nat /\ sent <= sent + 1
    BY <1>1
  <2> QED BY <1>1, <2>1, MoreRequests DEF LineInv
<1>4. down' \in Seq(ItemTo(sent + 1))
  <2>1. CASE L!Send
    BY <1>2, <1>3, <2>1, ConcatProperties DEF L!Send
  <2>2. CASE L!SendPartly
    BY <1>2, <1>3, <2>2, AppendProperties DEF L!SendPartly
  <2> QED BY <2>1, <2>2
<1> QED BY <1>0, <1>1, <1>3, <1>4 DEF LineInv

LEMMA LineSteps ==
    ASSUME LineInv, L!LoseDown \/ L!GarbleDown \/ L!StrayZero \/ L!LoseUp
    PROVE  LineInv'
<1> DEFINE I == ItemTo(sent)  F == FrameTo(sent)
<1>1. down \in Seq(I) /\ up \in Seq(F) /\ L!Zero \in I
  BY DEF LineInv, ItemTo
<1>2. UNCHANGED <<sent, asking, answered, defrag, rx, pushes>>
  BY DEF L!LoseDown, L!GarbleDown, L!StrayZero, L!LoseUp, L!host, L!client
<1> HIDE DEF I, F
<1>3. CASE L!LoseDown
  <2>1. down' \in Seq(I) /\ up' = up
    BY <1>1, <1>3, LineParts DEF L!LoseDown
  <2> QED BY <1>2, <2>1 DEF LineInv, I
<1>4. CASE L!GarbleDown
  <2>1. PICK i \in DOMAIN down : down[i] # L!Zero /\ down' = [down EXCEPT ![i].good = FALSE]
    BY <1>4 DEF L!GarbleDown
  <2>2. [down[i] EXCEPT !.good = FALSE] \in I
    <3>1. down[i] \in I
      BY <1>1
    <3>2. down[i] \in [of : 1 .. sent, part : {"head", "tail"}, good : BOOLEAN]
      BY <2>1, <3>1 DEF I, ItemTo
    <3> QED BY <3>2 DEF I, ItemTo
  <2>3. down' = [down EXCEPT ![i] = [down[i] EXCEPT !.good = FALSE]]
    BY <2>1
  <2>4. down' \in Seq(I)
    BY <1>1, <2>2, <2>3, ExceptSeq
  <2>5. up' = up
    BY <1>4 DEF L!GarbleDown
  <2> QED BY <1>2, <2>4, <2>5 DEF LineInv, I
<1>5. CASE L!StrayZero
  <2>1. down' \in Seq(I) /\ up' = up
    BY <1>1, <1>5, LineParts DEF L!StrayZero
  <2> QED BY <1>2, <2>1 DEF LineInv, I
<1>6. CASE L!LoseUp
  <2>1. up' \in Seq(F) /\ down' = down
    BY <1>1, <1>6, LineParts DEF L!LoseUp
  <2> QED BY <1>2, <2>1 DEF LineInv, F
<1> QED BY <1>3, <1>4, <1>5, <1>6

LEMMA ReadFromLine ==
    ASSUME LineInv, NEW k \in DOMAIN down, L!Read(k)
    PROVE  LineInv'
<1> DEFINE I == ItemTo(sent)
<1>1. down \in Seq(I) /\ rx \in Seq(I)
  BY DEF LineInv
<1>2. UNCHANGED <<sent, asking, answered, defrag, up, pushes>>
  BY DEF L!Read, L!host, L!client
<1> HIDE DEF I
<1>3. k \in 1 .. Len(down) /\ k \in 1 .. Len(down) + 1
  BY <1>1
<1>4. SubSeq(down, 1, k) \in Seq(I) /\ SubSeq(down, k + 1, Len(down)) \in Seq(I)
  BY <1>1, <1>3, SequenceParts
<1>5. rx' \in Seq(I) /\ down' \in Seq(I)
  BY <1>1, <1>4, ConcatProperties DEF L!Read
<1> QED BY <1>2, <1>5 DEF LineInv, I

LEMMA DeviceSteps ==
    ASSUME LineInv, L!TakeFrame \/ L!TakeLegacy \/ L!Push
    PROVE  LineInv'
<1> DEFINE I == ItemTo(sent)  F == FrameTo(sent)
<1>1. down \in Seq(I) /\ rx \in Seq(I) /\ up \in Seq(F) /\ sent \in Nat /\ pushes \in Nat
  BY DEF LineInv
<1>2. UNCHANGED <<sent, asking, answered, defrag, down>>
  BY DEF L!TakeFrame, L!TakeLegacy, L!Push, L!host, L!client
<1>3. CASE L!TakeFrame
  <2> DEFINE at == L!Min(L!Zeros(rx))
             r == rx[1].of
  <2>1. at \in 1 .. Len(rx)
    <3>1. L!Zeros(rx) \in SUBSET Nat /\ L!Zeros(rx) \subseteq 1 .. Len(rx) /\ L!Zeros(rx) # {}
      BY <1>1, <1>3 DEF L!TakeFrame, L!Busy, L!Zeros
    <3>2. \E m \in L!Zeros(rx) : \A n \in L!Zeros(rx) : m <= n
      BY <3>1, LeastOfSet
    <3> QED BY <3>1, <3>2 DEF L!Min
  <2>2. /\ rx' = SubSeq(rx, at + 1, Len(rx)) /\ pushes' = pushes
        /\ \/ UNCHANGED up
           \/ SubSeq(rx, 1, at) = L!Pieces(r) /\ \E size \in Fragments : up' = up \o L!Answer(r, size)
    BY <1>3 DEF L!TakeFrame
  <2> HIDE DEF at, I, F
  <2>3. rx' \in Seq(I)
    BY <1>1, <2>1, <2>2, SequenceParts
  <2>4. ASSUME SubSeq(rx, 1, at) = L!Pieces(r)
        PROVE  r \in 1 .. sent
    <3>1. rx[1] \in I /\ SubSeq(rx, 1, at)[1] = rx[1]
      BY <1>1, <2>1
    <3>2. rx[1].part = "head"
      <4>1. L!Pieces(r)[1].part = "head"
        BY DEF L!Pieces
      <4> QED BY <2>4, <3>1, <4>1
    <3>3. rx[1] \in [of : 1 .. sent, part : {"head", "tail"}, good : BOOLEAN]
      BY <3>1, <3>2 DEF I, ItemTo, L!Zero
    <3> QED BY <3>3
  <2>5. ASSUME r \in 1 .. sent, NEW size \in Fragments
        PROVE  L!Answer(r, size) \in Seq(F)
    <3>1. size \in Nat
      BY LineAssumption DEF L!LinkAssumption
    <3>2. L!SeqOfRequest(r) \in Nat
      <4>1. SeqNumbers \in Nat \ {0} /\ r - 1 \in Nat
        BY <1>1, <2>5, LineAssumption DEF L!LinkAssumption
      <4> QED BY <4>1 DEF L!SeqOfRequest
    <3>3. r \in Nat
      BY <1>1, <2>5
    <3>4. \A i \in 1 .. size : [seq |-> L!SeqOfRequest(r), of |-> r, n |-> i, last |-> i = size] \in F
      BY <2>5, <3>1, <3>2, <3>3 DEF F, FrameTo, AnswerFrame
    <3> QED BY <3>1, <3>4 DEF L!Answer
  <2>6. up' \in Seq(F)
    BY <1>1, <2>2, <2>4, <2>5, ConcatProperties
  <2> QED BY <1>2, <2>2, <2>3, <2>6 DEF LineInv, F, I
<1>4. CASE L!TakeLegacy
  <2>1. rx' = <<>> /\ up' = up /\ pushes' = pushes
    BY <1>4 DEF L!TakeLegacy
  <2> QED BY <1>2, <2>1 DEF LineInv
<1>5. CASE L!Push
  <2>1. /\ rx' = rx /\ pushes' = pushes + 1
        /\ up' = Append(up, [seq |-> pushes, of |-> None, n |-> 1, last |-> TRUE])
    BY <1>5 DEF L!Push
  <2>2. [seq |-> pushes, of |-> None, n |-> 1, last |-> TRUE] \in F
    BY <1>1 DEF FrameTo, AnswerFrame
  <2> HIDE DEF F
  <2>3. up' \in Seq(F) /\ pushes' \in Nat
    BY <1>1, <2>1, <2>2, AppendProperties
  <2> QED BY <1>2, <2>1, <2>3 DEF LineInv, F
<1> QED BY <1>3, <1>4, <1>5

LEMMA ReceiveStep ==
    ASSUME LineInv, L!Receive
    PROVE  /\ LineInv'
           /\ L!AnswersMatch /\ Timely => L!AnswersMatch'
<1> DEFINE F == FrameTo(sent)
           f == Head(up)
           m == L!Feed(f).message
<1>1. /\ up \in Seq(F) /\ defrag.buffer \in Seq(F) /\ sent \in Nat /\ asking \in {None, sent}
      /\ up # <<>> /\ f \in F /\ f = up[1] /\ 1 \in DOMAIN up
  BY DEF LineInv, L!Receive
<1>2. UNCHANGED <<sent, down, rx, pushes>>
  BY DEF L!Receive
<1> HIDE DEF F, f
<1>3. up' = Tail(up) /\ up' \in Seq(F)
  BY <1>1, HeadTailProperties DEF L!Receive
<1>4. /\ L!Feed(f).defrag.buffer \in Seq(F)
      /\ m # <<>> => m \in Seq(F) /\ Len(m) \in Nat \ {0} /\ m[Len(m)] = f
  <2>1. <<>> \in Seq(F) /\ <<f>> \in Seq(F) /\ Len(<<f>>) = 1 /\ <<f>>[1] = f
    BY <1>1
  <2> DEFINE all == Append(defrag.buffer, f)
  <2>2. all \in Seq(F) /\ Len(all) = Len(defrag.buffer) + 1 /\ all[Len(all)] = f /\ Len(defrag.buffer) \in Nat
    BY <1>1, AppendProperties
  <2> HIDE DEF all
  <2>3. m \in {<<>>, <<f>>, all} /\ L!Feed(f).defrag.buffer \in {<<>>, all}
    <3>1. \/ L!Feed(f) = [defrag |-> L!Reset, message |-> <<f>>]
          \/ L!Feed(f) = [defrag |-> L!Reset, message |-> <<>>]
          \/ L!Feed(f) = [defrag |-> L!Reset, message |-> all]
          \/ L!Feed(f) = [defrag |-> [seq |-> f.seq, buffer |-> all], message |-> <<>>]
      BY DEF L!Feed, all
    <3> QED BY <3>1 DEF L!Reset
  <2> HIDE DEF m
  <2>4. L!Feed(f).defrag.buffer \in Seq(F)
    BY <2>1, <2>2, <2>3
  <2>5. CASE m = <<f>>
    BY <2>1, <2>4, <2>5
  <2>6. CASE m = all
    <3>1. Len(all) \in Nat \ {0}
      BY <2>2
    <3> QED BY <2>2, <2>4, <2>6, <3>1
  <2> QED BY <2>3, <2>4, <2>5, <2>6
<1>5. defrag'.buffer \in Seq(F)
  BY <1>4 DEF L!Receive, f
<1>6. /\ asking' \in {None, sent}
      /\ L!AnswersMatch /\ Timely => L!AnswersMatch'
  <2>1. CASE UNCHANGED <<asking, answered>>
    BY <1>1, <2>1 DEF L!AnswersMatch
  <2>2. CASE ~UNCHANGED <<asking, answered>>
    <3>1. /\ m # <<>> /\ m[1].of # None /\ L!Accepts(m)
          /\ answered' = [request |-> asking, answer |-> IF L!Complete(m) THEN m[1].of ELSE None]
          /\ asking' = None
      BY <2>2 DEF L!Receive, f
    <3>2. /\ m \in Seq(F) /\ Len(m) \in DOMAIN m /\ m[Len(m)] = f
          /\ asking = sent /\ f.seq = L!SeqOfRequest(sent)
      BY <1>1, <1>4, <3>1 DEF L!Accepts
    <3>3. CASE ~L!Complete(m)
      BY <3>1, <3>3 DEF L!AnswersMatch
    <3>4. CASE L!Complete(m) /\ Timely
      <4>1. f.of = m[1].of
        BY <3>2, <3>4 DEF L!Complete
      <4>2. f.of \in 1 .. sent /\ f.seq = L!SeqOfRequest(f.of)
        BY <1>1, <3>1, <4>1 DEF F, FrameTo
      <4>3. sent < f.of + SeqNumbers
        BY <1>1, <3>1, <3>4, <4>1 DEF Timely
      <4>4. f.of = sent
        <5>1. f.of \in Nat \ {0} /\ sent \in Nat \ {0} /\ f.of <= sent
          BY <1>1, <4>2
        <5> QED BY <3>2, <4>2, <4>3, <5>1, OneNumberEach
      <4> QED BY <3>1, <3>2, <3>4, <4>1, <4>4 DEF L!AnswersMatch
    <3> QED BY <3>1, <3>3, <3>4
  <2> QED BY <2>1, <2>2
<1>7. sent <= MaxRequests
  BY DEF LineInv
<1> QED BY <1>1, <1>2, <1>3, <1>5, <1>6, <1>7 DEF LineInv, F

LEMMA GiveUpStep ==
    ASSUME LineInv, L!GiveUp
    PROVE  LineInv'
<1>1. asking' = None /\ UNCHANGED <<sent, pushes, down, rx, up, defrag, answered>>
  BY DEF L!GiveUp, L!client
<1> QED BY <1>1 DEF LineInv

LEMMA LinkStep ==
    ASSUME LineInv, [PartsNext]_allVars
    PROVE  /\ LineInv'
           /\ L!AnswersMatch /\ Timely => L!AnswersMatch'
<1>1. CASE L!Next
  <2>1. LineInv'
    BY <1>1, SendSteps, LineSteps, ReadFromLine, DeviceSteps, ReceiveStep, GiveUpStep DEF L!Next
  <2>2. CASE L!Receive
    BY <2>1, <2>2, ReceiveStep
  <2>3. CASE ~L!Receive
    <3>1. answered' = answered
      BY <1>1, <2>3 DEF L!Next, L!Send, L!SendPartly, L!GiveUp, L!LoseDown, L!GarbleDown, L!StrayZero, L!LoseUp,
                        L!Read, L!TakeFrame, L!TakeLegacy, L!Push, L!host
    <3> QED BY <2>1, <3>1 DEF L!AnswersMatch
  <2> QED BY <2>2, <2>3
<1>2. CASE UNCHANGED linkVars
  BY <1>2 DEF linkVars, LineInv, L!AnswersMatch
<1> QED BY <1>1, <1>2, PartsAreApart

LEMMA LinkInit == PartsInit => LineInv /\ L!AnswersMatch
BY LineAssumption DEF PartsInit, L!Init, LineInv, L!AnswersMatch, L!LinkAssumption

\* round_trip returns the device's answer to its own request or an error, whatever the line damages
\* and however often the application gives up, as long as the sequence numbers do not come round
\* while an answer is on its way (RdpClient::round_trip, Defragmenter, frame.rs).
THEOREM AnswersAreOwn == PartsSpec /\ []Timely => []AnswersMatch
<1>1. PartsInit => LineInv /\ L!AnswersMatch
  BY LinkInit
<1>2. LineInv /\ L!AnswersMatch /\ Timely /\ [PartsNext]_allVars => (LineInv /\ L!AnswersMatch)'
  BY LinkStep
<1>3. L!AnswersMatch => AnswersMatch
  BY DEF AnswersMatch
<1> QED BY <1>1, <1>2, <1>3, PTL DEF PartsSpec

\* In a session of no more requests than there are sequence numbers no answer can be that late, and
\* round_trip returns the answer to its own request without a proviso (RdpClient::send_payload).
THEOREM AnswersAreOwnUntilTheWrap ==
    ASSUME MaxRequests <= SeqNumbers
    PROVE  PartsSpec => []AnswersMatch
<1>1. PartsInit => LineInv /\ L!AnswersMatch
  BY LinkInit
<1>2. LineInv => Timely
  <2> SUFFICES ASSUME LineInv, NEW i \in DOMAIN up, up[i].of # None
               PROVE  sent < up[i].of + SeqNumbers
    BY DEF Timely
  <2>1. up[i] \in FrameTo(sent) /\ sent \in Nat /\ sent <= MaxRequests
    BY DEF LineInv
  <2>2. up[i].of \in 1 .. sent
    BY <2>1 DEF FrameTo
  <2>3. MaxRequests \in Nat /\ SeqNumbers \in Nat
    BY LineAssumption DEF L!LinkAssumption
  <2> QED BY <2>1, <2>2, <2>3
<1>3. LineInv /\ L!AnswersMatch /\ [PartsNext]_allVars => (LineInv /\ L!AnswersMatch)'
  BY <1>2, LinkStep
<1>4. L!AnswersMatch => AnswersMatch
  BY DEF AnswersMatch
<1> QED BY <1>1, <1>3, <1>4, PTL DEF PartsSpec

----------------------------------------------------------------------------
(* Frames in a stream: D are the items that end a frame, and the frames    *)
(* are given by W, the <<r, k, n, e>> such that e is the k-th of the n     *)
(* items of a frame of r.  A frame is good if it lies whole in the stream  *)
(* and begins where the one before it ends.                                *)

Framing(W, D) ==
    /\ \A r, k, n, e : <<r, k, n, e>> \in W => k \in Nat /\ n \in Nat /\ (e \in D <=> k = n)
    /\ \A r, q, n, m, e : <<r, 1, n, e>> \in W /\ <<q, 1, m, e>> \in W => r = q
Starts(s, i, D) == i = 1 \/ s[i - 1] \in D
Lies(s, i, j, r, W, D) ==
    /\ i \in 1 .. Len(s) /\ j \in i .. Len(s) /\ Starts(s, i, D)
    /\ \A k \in i .. j : <<r, k - i + 1, j - i + 1, s[k]>> \in W
Good(s, W, D) == {r \in Nat : \E i, j \in 1 .. Len(s) : Lies(s, i, j, r, W, D)}
\* What is written next is joined to what is there.
Open(s, D) == s # <<>> /\ s[Len(s)] \notin D

LEMMA FrameEnds ==
    ASSUME NEW A, NEW s \in Seq(A), NEW W, NEW D, Framing(W, D), NEW i, NEW j, NEW r, Lies(s, i, j, r, W, D)
    PROVE  /\ i \in 1 .. Len(s) /\ j \in i .. Len(s)
           /\ s[j] \in D /\ \A k \in i .. j - 1 : s[k] \notin D
<1>1. i \in 1 .. Len(s) /\ j \in i .. Len(s) /\ Len(s) \in Nat
  BY DEF Lies
<1>2. \A k \in i .. j : s[k] \in D <=> k - i + 1 = j - i + 1
  <2> SUFFICES ASSUME NEW k \in i .. j PROVE s[k] \in D <=> k - i + 1 = j - i + 1
    OBVIOUS
  <2> DEFINE m == k - i + 1  n == j - i + 1
  <2>1. <<r, m, n, s[k]>> \in W
    BY DEF Lies
  <2> HIDE DEF m, n
  <2>2. s[k] \in D <=> m = n
    BY <2>1 DEF Framing
  <2> QED BY <2>2 DEF m, n
<1> QED BY <1>1, <1>2

\* Two frames do not overlap.
LEMMA FramesApart ==
    ASSUME NEW A, NEW s \in Seq(A), NEW W, NEW D, Framing(W, D), NEW i, NEW j, NEW r, Lies(s, i, j, r, W, D),
           NEW p, NEW q, NEW t, Lies(s, p, q, t, W, D), NEW n \in i .. j, n \in p .. q
    PROVE  r = t /\ i = p
<1>1. /\ i \in 1 .. Len(s) /\ j \in i .. Len(s) /\ s[j] \in D /\ \A k \in i .. j - 1 : s[k] \notin D
      /\ p \in 1 .. Len(s) /\ q \in p .. Len(s) /\ s[q] \in D /\ \A k \in p .. q - 1 : s[k] \notin D
      /\ Len(s) \in Nat
  BY FrameEnds
<1>2. Starts(s, i, D) /\ Starts(s, p, D)
  BY DEF Lies
<1>3. i = p
  <2>1. ~(p > i)
    <3>1. p > i => p - 1 \in i .. j - 1 /\ p # 1
      BY <1>1
    <3> QED BY <1>1, <1>2, <3>1 DEF Starts
  <2>2. ~(i > p)
    <3>1. i > p => i - 1 \in p .. q - 1 /\ i # 1
      BY <1>1
    <3> QED BY <1>1, <1>2, <3>1 DEF Starts
  <2> QED BY <1>1, <2>1, <2>2
<1>4. <<r, 1, j - i + 1, s[i]>> \in W /\ <<t, 1, q - p + 1, s[i]>> \in W
  <2>1. i \in i .. j /\ p \in p .. q /\ i - i + 1 = 1 /\ p - p + 1 = 1
    BY <1>1
  <2> QED BY <1>3, <2>1 DEF Lies
<1> QED BY <1>3, <1>4 DEF Framing

\* The items from i to j of s are found again in t, by d further on, at the start of a frame.
Moved(s, i, j, t, d, D) ==
    /\ d \in Int /\ i + d >= 1 /\ j + d <= Len(t) /\ Starts(t, i + d, D)
    /\ \A k \in i .. j : t[k + d] = s[k]

LEMMA FrameMoved ==
    ASSUME NEW A, NEW s \in Seq(A), NEW t \in Seq(A), NEW W, NEW D, NEW i, NEW j, NEW r \in Nat,
           Lies(s, i, j, r, W, D), NEW d, Moved(s, i, j, t, d, D)
    PROVE  r \in Good(t, W, D)
<1>1. /\ i \in 1 .. Len(s) /\ j \in i .. Len(s) /\ Len(s) \in Nat /\ Len(t) \in Nat
      /\ d \in Int /\ i + d >= 1 /\ j + d <= Len(t) /\ Starts(t, i + d, D) /\ \A k \in i .. j : t[k + d] = s[k]
  BY DEF Lies, Moved
<1> DEFINE p == i + d  q == j + d
<1>2. p \in 1 .. Len(t) /\ q \in p .. Len(t) /\ q \in 1 .. Len(t)
  BY <1>1
<1>3. ASSUME NEW k \in p .. q
      PROVE  <<r, k - p + 1, q - p + 1, t[k]>> \in W
  <2>1. k - d \in i .. j /\ (k - d) + d = k /\ (k - d) - i + 1 = k - p + 1 /\ j - i + 1 = q - p + 1
    BY <1>1
  <2>2. t[k] = s[k - d]
    BY <1>1, <2>1
  <2>3. <<r, (k - d) - i + 1, j - i + 1, s[k - d]>> \in W
    BY <2>1 DEF Lies
  <2> QED BY <2>1, <2>2, <2>3
<1>4. Lies(t, p, q, r, W, D)
  BY <1>1, <1>2, <1>3 DEF Lies
<1> QED BY <1>2, <1>4 DEF Good

LEMMA GoodGrows ==
    ASSUME NEW A, NEW s \in Seq(A), NEW t \in Seq(A), NEW W, NEW D, Len(s) <= Len(t),
           \A k \in 1 .. Len(s) : t[k] = s[k]
    PROVE  Good(s, W, D) \subseteq Good(t, W, D)
<1> SUFFICES ASSUME NEW r \in Good(s, W, D) PROVE r \in Good(t, W, D)
  OBVIOUS
<1>1. PICK i \in 1 .. Len(s), j \in 1 .. Len(s) : Lies(s, i, j, r, W, D)
  BY DEF Good
<1>2. r \in Nat /\ Len(s) \in Nat /\ Len(t) \in Nat
  BY DEF Good
<1>3. Starts(t, i, D)
  <2>1. i # 1 => i - 1 \in 1 .. Len(s)
    BY <1>2
  <2> QED BY <1>1, <2>1 DEF Lies, Starts
<1>4. Moved(s, i, j, t, 0, D)
  BY <1>2, <1>3 DEF Moved
<1> QED BY <1>1, <1>2, <1>4, FrameMoved

\* A frame written where none is open is good.
LEMMA FrameAdded ==
    ASSUME NEW A, NEW s \in Seq(A), NEW f \in Seq(A), NEW t, t = s \o f, NEW W, NEW D, NEW r \in Nat,
           Len(f) # 0, \A k \in 1 .. Len(f) : <<r, k, Len(f), f[k]>> \in W,
           ~Open(s, D)
    PROVE  r \in Good(t, W, D)
<1>1. /\ t \in Seq(A) /\ Len(t) = Len(s) + Len(f) /\ Len(s) \in Nat /\ Len(f) \in Nat \ {0}
      /\ \A k \in 1 .. Len(t) : t[k] = IF k <= Len(s) THEN s[k] ELSE f[k - Len(s)]
  BY ConcatProperties
<1> DEFINE p == Len(s) + 1  q == Len(t)
<1>2. p \in 1 .. Len(t) /\ q \in p .. Len(t) /\ q \in 1 .. Len(t)
  BY <1>1
<1>3. Starts(t, p, D)
  <2>1. CASE s = <<>>
    BY <2>1 DEF Starts
  <2>2. CASE s # <<>>
    <3>1. s[Len(s)] \in D /\ Len(s) \in 1 .. Len(t) /\ p - 1 = Len(s)
      BY <1>1, <2>2 DEF Open
    <3>2. t[Len(s)] = s[Len(s)]
      BY <1>1, <3>1
    <3> QED BY <3>1, <3>2 DEF Starts
  <2> QED BY <2>1, <2>2
<1>4. ASSUME NEW k \in p .. q
      PROVE  <<r, k - p + 1, q - p + 1, t[k]>> \in W
  <2>1. k - p + 1 \in 1 .. Len(f) /\ k - p + 1 = k - Len(s) /\ q - p + 1 = Len(f) /\ k \in 1 .. Len(t) /\ ~(k <= Len(s))
    BY <1>1
  <2>2. t[k] = f[k - Len(s)]
    BY <1>1, <2>1
  <2> QED BY <2>1, <2>2
<1>5. Lies(t, p, q, r, W, D)
  BY <1>2, <1>3, <1>4 DEF Lies
<1> QED BY <1>2, <1>5 DEF Good


\* How t comes from s by what happens to its n-th item, or to its first n.
Removed(s, n, t) ==
    /\ n \in 1 .. Len(s) /\ Len(t) = Len(s) - 1
    /\ \A k \in 1 .. Len(t) : t[k] = IF k < n THEN s[k] ELSE s[k + 1]
Inserted(s, n, t) ==
    /\ n \in 1 .. Len(s) + 1 /\ Len(t) = Len(s) + 1
    /\ \A k \in 1 .. Len(t) : k # n => t[k] = IF k < n THEN s[k] ELSE s[k - 1]
Changed(s, n, t) ==
    /\ n \in 1 .. Len(s) /\ Len(t) = Len(s)
    /\ \A k \in 1 .. Len(s) : k # n => t[k] = s[k]
Dropped(s, n, t) ==
    /\ n \in 1 .. Len(s) /\ Len(t) = Len(s) - n
    /\ \A k \in 1 .. Len(t) : t[k] = s[k + n]

\* What was good in s and is no longer good in t.
LosesTwo(s, t, W, D) ==
    \E x, y : /\ Good(s, W, D) \subseteq Good(t, W, D) \cup {x, y}
              /\ Open(t, D) /\ ~Open(s, D) => Good(s, W, D) \subseteq Good(t, W, D) \cup {x}
LosesOne(s, t, W, D) ==
    /\ \E x : Good(s, W, D) \subseteq Good(t, W, D) \cup {x}
    /\ Open(t, D) => Open(s, D)

\* Of the two items that a frame needs, none of its own and the one before it, one was lost: at most
\* two frames needed it.
LEMMA ItemLost ==
    ASSUME NEW A, NEW s \in Seq(A), NEW t \in Seq(A), NEW n, Removed(s, n, t),
           NEW W, NEW D, Framing(W, D)
    PROVE  LosesTwo(s, t, W, D)
<1> DEFINE Hit(r) == \E i, j \in 1 .. Len(s) : Lies(s, i, j, r, W, D) /\ n \in i .. j
           Joined(r) == \E j \in 1 .. Len(s) : Lies(s, n + 1, j, r, W, D)
           x == CHOOSE r : Hit(r)
           y == CHOOSE r : Joined(r)
<1>1. /\ Len(s) \in Nat /\ Len(t) \in Nat /\ n \in Nat \ {0} /\ n <= Len(s)
      /\ Len(t) = Len(s) - 1 /\ \A k \in 1 .. Len(t) : t[k] = IF k < n THEN s[k] ELSE s[k + 1]
  BY DEF Removed
<1>2. \A r : Hit(r) => r = x
  <2> SUFFICES ASSUME NEW r, NEW q, Hit(r), Hit(q) PROVE r = q
    OBVIOUS
  <2> QED BY FramesApart
<1>3. \A r : Joined(r) => r = y
  <2> SUFFICES ASSUME NEW r, NEW q, Joined(r), Joined(q) PROVE r = q
    OBVIOUS
  <2>1. PICK j \in 1 .. Len(s), m \in 1 .. Len(s) : Lies(s, n + 1, j, r, W, D) /\ Lies(s, n + 1, m, q, W, D)
    OBVIOUS
  <2>2. n + 1 \in n + 1 .. j /\ n + 1 \in n + 1 .. m
    BY <1>1, <2>1 DEF Lies
  <2> QED BY <2>1, <2>2, FramesApart
<1> HIDE DEF x, y
<1>4. ASSUME NEW r \in Good(s, W, D), ~Hit(r), ~Joined(r)
      PROVE  r \in Good(t, W, D)
  <2>1. PICK i \in 1 .. Len(s), j \in 1 .. Len(s) : Lies(s, i, j, r, W, D)
    BY <1>4 DEF Good
  <2>2. r \in Nat /\ j \in i .. Len(s) /\ Starts(s, i, D)
    BY <2>1 DEF Good, Lies
  <2>3. n \notin i .. j /\ i # n + 1
    BY <1>4, <2>1
  <2>4. CASE j < n
    <3> DEFINE d == 0
    <3>1. i + d >= 1 /\ j + d <= Len(t) /\ d \in Int
      BY <1>1, <2>2, <2>4
    <3>2. Starts(t, i + d, D)
      BY <1>1, <2>2, <2>4 DEF Starts
    <3>3. \A k \in i .. j : t[k + d] = s[k]
      BY <1>1, <2>2, <2>4
    <3> HIDE DEF d
    <3>4. Moved(s, i, j, t, d, D)
      BY <3>1, <3>2, <3>3 DEF Moved
    <3> QED BY <2>1, <2>2, <3>4, FrameMoved
  <2>5. CASE i > n + 1
    <3> DEFINE d == (-1)
    <3>1. i + d >= 1 /\ j + d <= Len(t) /\ d \in Int
      BY <1>1, <2>2, <2>5
    <3>2. Starts(t, i + d, D)
      <4>1. i # 1 /\ i - 2 \in 1 .. Len(t) /\ ~(i - 2 < n) /\ i - 2 + 1 = i - 1 /\ (i - 1) - 1 = i - 2
        BY <1>1, <2>2, <2>5
      <4>2. t[i - 2] = s[i - 1]
        BY <1>1, <4>1
      <4> QED BY <2>2, <4>1, <4>2 DEF Starts
    <3>3. \A k \in i .. j : t[k + d] = s[k]
      <4> SUFFICES ASSUME NEW k \in i .. j PROVE t[k + d] = s[k]
        OBVIOUS
      <4>1. k + d \in 1 .. Len(t) /\ ~(k + d < n) /\ k + d + 1 = k
        BY <1>1, <2>2, <2>5
      <4> QED BY <1>1, <4>1
    <3> HIDE DEF d
    <3>4. Moved(s, i, j, t, d, D)
      BY <3>1, <3>2, <3>3 DEF Moved
    <3> QED BY <2>1, <2>2, <3>4, FrameMoved
  <2> QED BY <1>1, <2>2, <2>3, <2>4, <2>5
<1>5. ASSUME Open(t, D), ~Open(s, D), NEW r
      PROVE  ~Joined(r)
  <2>1. Len(t) \in 1 .. Len(t) /\ t[Len(t)] \notin D
    BY <1>1, <1>5 DEF Open
  <2>2. s[Len(s)] \in D
    BY <1>1, <1>5 DEF Open
  <2>3. n = Len(s)
    BY <1>1, <2>1, <2>2
  <2> QED BY <1>1, <2>3 DEF Lies
<1> HIDE DEF Hit, Joined
<1>6. Good(s, W, D) \subseteq Good(t, W, D) \cup {x, y}
  BY <1>2, <1>3, <1>4
<1>7. Open(t, D) /\ ~Open(s, D) => Good(s, W, D) \subseteq Good(t, W, D) \cup {x}
  BY <1>2, <1>4, <1>5
<1> QED BY <1>6, <1>7 DEF LosesTwo

\* An item that ends frames was put in: the frame it came into is lost.
LEMMA ItemInserted ==
    ASSUME NEW A, NEW s \in Seq(A), NEW t \in Seq(A), NEW n, Inserted(s, n, t),
           NEW W, NEW D, Framing(W, D), t[n] \in D
    PROVE  LosesOne(s, t, W, D)
<1> DEFINE Hit(r) == \E i, j \in 1 .. Len(s) : Lies(s, i, j, r, W, D) /\ n \in i .. j
           x == CHOOSE r : Hit(r)
<1>1. /\ Len(s) \in Nat /\ Len(t) \in Nat /\ n \in Nat \ {0} /\ n <= Len(s) + 1
      /\ Len(t) = Len(s) + 1 /\ \A k \in 1 .. Len(t) : k # n => t[k] = IF k < n THEN s[k] ELSE s[k - 1]
  BY DEF Inserted
<1>2. \A r : Hit(r) => r = x
  <2> SUFFICES ASSUME NEW r, NEW q, Hit(r), Hit(q) PROVE r = q
    OBVIOUS
  <2> QED BY FramesApart
<1> HIDE DEF x
<1>3. ASSUME NEW r \in Good(s, W, D), ~Hit(r)
      PROVE  r \in Good(t, W, D)
  <2>1. PICK i \in 1 .. Len(s), j \in 1 .. Len(s) : Lies(s, i, j, r, W, D)
    BY <1>3 DEF Good
  <2>2. r \in Nat /\ j \in i .. Len(s) /\ Starts(s, i, D)
    BY <2>1 DEF Good, Lies
  <2>3. n \notin i .. j
    BY <1>3, <2>1
  <2>4. CASE j < n
    <3> DEFINE d == 0
    <3>1. i + d >= 1 /\ j + d <= Len(t) /\ d \in Int
      BY <1>1, <2>2, <2>4
    <3>2. Starts(t, i + d, D)
      <4>1. i + d = i /\ (i # 1 => i - 1 \in 1 .. Len(t) /\ i - 1 # n /\ i - 1 < n)
        BY <1>1, <2>2, <2>4
      <4>2. i # 1 => t[i - 1] = s[i - 1]
        BY <1>1, <4>1
      <4> HIDE DEF d
      <4> QED BY <2>2, <4>1, <4>2 DEF Starts
    <3>3. \A k \in i .. j : t[k + d] = s[k]
      BY <1>1, <2>2, <2>4
    <3> HIDE DEF d
    <3>4. Moved(s, i, j, t, d, D)
      BY <3>1, <3>2, <3>3 DEF Moved
    <3> QED BY <2>1, <2>2, <3>4, FrameMoved
  <2>5. CASE i > n \/ i = n
    <3> DEFINE d == 1
    <3>1. i + d >= 1 /\ j + d <= Len(t) /\ d \in Int
      BY <1>1, <2>2
    <3>2. Starts(t, i + d, D)
      <4>1. (i + 1) - 1 = i /\ i \in 1 .. Len(t) /\ (i # n => i # 1 /\ ~(i < n))
        BY <1>1, <2>2, <2>5
      <4>2. i # n => t[i] = s[i - 1]
        BY <1>1, <4>1
      <4> QED BY <2>2, <4>1, <4>2 DEF Starts
    <3>3. \A k \in i .. j : t[k + d] = s[k]
      <4> SUFFICES ASSUME NEW k \in i .. j PROVE t[k + d] = s[k]
        OBVIOUS
      <4>1. k + d \in 1 .. Len(t) /\ k + d # n /\ ~(k + d < n) /\ (k + d) - 1 = k
        BY <1>1, <2>2, <2>5
      <4> QED BY <1>1, <4>1
    <3> HIDE DEF d
    <3>4. Moved(s, i, j, t, d, D)
      BY <3>1, <3>2, <3>3 DEF Moved
    <3> QED BY <2>1, <2>2, <3>4, FrameMoved
  <2> QED BY <1>1, <2>2, <2>3, <2>4, <2>5
<1> HIDE DEF Hit
<1>4. Open(t, D) => Open(s, D)
  <2> SUFFICES ASSUME Open(t, D) PROVE Open(s, D)
    OBVIOUS
  <2>1. Len(t) \in 1 .. Len(t) /\ t[Len(t)] \notin D /\ Len(t) # n
    BY <1>1 DEF Open
  <2>2. ~(Len(t) < n) /\ Len(t) - 1 = Len(s) /\ Len(s) # 0
    BY <1>1, <2>1
  <2>3. t[Len(t)] = s[Len(s)]
    BY <1>1, <2>1, <2>2
  <2> QED BY <2>1, <2>2, <2>3 DEF Open
<1>5. Good(s, W, D) \subseteq Good(t, W, D) \cup {x}
  BY <1>2, <1>3
<1> QED BY <1>4, <1>5 DEF LosesOne

\* An item that ends no frame was changed, and still ends none: its own frame is lost.
LEMMA ItemChanged ==
    ASSUME NEW A, NEW s \in Seq(A), NEW t \in Seq(A), NEW n, Changed(s, n, t),
           NEW W, NEW D, Framing(W, D), s[n] \notin D, t[n] \notin D
    PROVE  LosesOne(s, t, W, D)
<1> DEFINE Hit(r) == \E i, j \in 1 .. Len(s) : Lies(s, i, j, r, W, D) /\ n \in i .. j
           x == CHOOSE r : Hit(r)
<1>1. /\ Len(s) \in Nat /\ Len(t) \in Nat /\ n \in Nat \ {0} /\ n <= Len(s)
      /\ Len(t) = Len(s) /\ \A k \in 1 .. Len(s) : k # n => t[k] = s[k]
  BY DEF Changed
<1>2. \A r : Hit(r) => r = x
  <2> SUFFICES ASSUME NEW r, NEW q, Hit(r), Hit(q) PROVE r = q
    OBVIOUS
  <2> QED BY FramesApart
<1> HIDE DEF x
<1>3. ASSUME NEW r \in Good(s, W, D), ~Hit(r)
      PROVE  r \in Good(t, W, D)
  <2>1. PICK i \in 1 .. Len(s), j \in 1 .. Len(s) : Lies(s, i, j, r, W, D)
    BY <1>3 DEF Good
  <2>2. r \in Nat /\ j \in i .. Len(s) /\ Starts(s, i, D)
    BY <2>1 DEF Good, Lies
  <2>3. n \notin i .. j
    BY <1>3, <2>1
  <2> DEFINE d == 0
  <2>4. i + d >= 1 /\ j + d <= Len(t) /\ d \in Int
    BY <1>1, <2>2
  <2>5. Starts(t, i + d, D)
    <3>1. i # 1 => i - 1 \in 1 .. Len(s)
      BY <1>1, <2>2
    <3> QED BY <1>1, <2>2, <3>1 DEF Starts
  <2>6. \A k \in i .. j : t[k + d] = s[k]
    BY <1>1, <2>2, <2>3
  <2> HIDE DEF d
  <2>7. Moved(s, i, j, t, d, D)
    BY <2>4, <2>5, <2>6 DEF Moved
  <2> QED BY <2>1, <2>2, <2>7, FrameMoved
<1> HIDE DEF Hit
<1>4. Open(t, D) => Open(s, D)
  BY <1>1 DEF Open
<1>5. Good(s, W, D) \subseteq Good(t, W, D) \cup {x}
  BY <1>2, <1>3
<1> QED BY <1>4, <1>5 DEF LosesOne

\* The items up to the n-th were taken, none before it an end: only a frame at the front can be gone.
LEMMA ItemsTaken ==
    ASSUME NEW A, NEW s \in Seq(A), NEW t \in Seq(A), NEW n, Dropped(s, n, t),
           NEW W, NEW D, Framing(W, D), \A k \in 1 .. n - 1 : s[k] \notin D
    PROVE  /\ \A r \in Good(s, W, D) : r \in Good(t, W, D) \/ \E j \in n .. Len(s) : Lies(s, 1, j, r, W, D)
           /\ Open(t, D) => Open(s, D)
<1>1. /\ Len(s) \in Nat /\ Len(t) \in Nat /\ n \in Nat \ {0} /\ n <= Len(s)
      /\ Len(t) = Len(s) - n /\ \A k \in 1 .. Len(t) : t[k] = s[k + n]
  BY DEF Dropped
<1>2. ASSUME NEW r \in Good(s, W, D)
      PROVE  r \in Good(t, W, D) \/ \E j \in n .. Len(s) : Lies(s, 1, j, r, W, D)
  <2>1. PICK i \in 1 .. Len(s), j \in 1 .. Len(s) : Lies(s, i, j, r, W, D)
    BY <1>2 DEF Good
  <2>2. r \in Nat /\ j \in i .. Len(s) /\ Starts(s, i, D) /\ s[j] \in D
    <3>1. s[j] \in D
      BY <2>1, FrameEnds
    <3> QED BY <2>1, <3>1 DEF Good, Lies
  <2>3. CASE i = 1
    <3>1. j \in n .. Len(s)
      BY <1>1, <2>2
    <3> QED BY <2>1, <2>3, <3>1
  <2>4. CASE i # 1
    <3>1. s[i - 1] \in D /\ i - 1 \in Nat \ {0}
      BY <2>2, <2>4 DEF Starts
    <3>2. i - 1 >= n
      BY <1>1, <3>1
    <3> DEFINE d == (-n)
    <3>3. i + d >= 1 /\ j + d <= Len(t) /\ d \in Int
      BY <1>1, <2>2, <3>2
    <3>4. Starts(t, i + d, D)
      <4>1. i - n # 1 => (i - n) - 1 \in 1 .. Len(t) /\ ((i - n) - 1) + n = i - 1
        BY <1>1, <2>2, <3>2
      <4> QED BY <1>1, <3>1, <4>1 DEF Starts
    <3>5. \A k \in i .. j : t[k + d] = s[k]
      <4> SUFFICES ASSUME NEW k \in i .. j PROVE t[k + d] = s[k]
        OBVIOUS
      <4>1. k + d \in 1 .. Len(t) /\ (k + d) + n = k
        BY <1>1, <2>2, <3>2
      <4> QED BY <1>1, <4>1
    <3> HIDE DEF d
    <3>6. Moved(s, i, j, t, d, D)
      BY <3>3, <3>4, <3>5 DEF Moved
    <3> QED BY <2>1, <2>2, <3>6, FrameMoved
  <2> QED BY <2>3, <2>4
<1>3. Open(t, D) => Open(s, D)
  <2> SUFFICES ASSUME Open(t, D) PROVE Open(s, D)
    OBVIOUS
  <2>1. Len(t) \in 1 .. Len(t) /\ t[Len(t)] \notin D /\ Len(t) + n = Len(s)
    BY <1>1 DEF Open
  <2> QED BY <1>1, <2>1 DEF Open
<1> QED BY <1>2, <1>3

----------------------------------------------------------------------------
(* The two ways of the line as such streams.                               *)

LEMMA ConcatIs ==
    ASSUME NEW A, NEW s \in Seq(A), NEW t \in Seq(A)
    PROVE  /\ s \o t \in Seq(A) /\ Len(s \o t) = Len(s) + Len(t)
           /\ \A k \in 1 .. Len(s \o t) : (s \o t)[k] = IF k <= Len(s) THEN s[k] ELSE t[k - Len(s)]
BY ConcatProperties

LEMMA RemovedFrom ==
    ASSUME NEW A, NEW p \in Seq(A), NEW s \in Seq(A), NEW i \in DOMAIN s, NEW t, t = p \o L!RemoveAt(s, i)
    PROVE  t \in Seq(A) /\ Removed(p \o s, Len(p) + i, t)
<1> DEFINE u == p \o s  n == Len(p) + i  a == SubSeq(s, 1, i - 1)  b == SubSeq(s, i + 1, Len(s))  r == a \o b
<1>1. i \in 1 .. Len(s) /\ Len(s) \in Nat /\ Len(p) \in Nat
  OBVIOUS
<1>2. a \in Seq(A) /\ Len(a) = i - 1 /\ \A k \in 1 .. i - 1 : a[k] = s[k]
  BY <1>1
<1>3. b \in Seq(A) /\ Len(b) = Len(s) - i /\ \A k \in 1 .. Len(s) - i : b[k] = s[k + i]
  BY <1>1
<1> HIDE DEF a, b
<1>4. /\ r \in Seq(A) /\ Len(r) = Len(s) - 1
      /\ \A k \in 1 .. Len(r) : r[k] = IF k < i THEN s[k] ELSE s[k + 1]
  <2>1. r \in Seq(A) /\ Len(r) = Len(a) + Len(b) /\ \A k \in 1 .. Len(r) : r[k] = IF k <= Len(a) THEN a[k] ELSE b[k - Len(a)]
    BY <1>2, <1>3, ConcatIs
  <2> HIDE DEF r
  <2>2. Len(r) = Len(s) - 1 /\ Len(a) = i - 1
    BY <1>1, <1>2, <1>3, <2>1
  <2>3. ASSUME NEW k \in 1 .. Len(r) PROVE r[k] = IF k < i THEN s[k] ELSE s[k + 1]
    <3>1. CASE k < i
      BY <1>1, <1>2, <2>1, <3>1
    <3>2. CASE ~(k < i)
      <4>1. k - Len(a) \in 1 .. Len(s) - i /\ (k - Len(a)) + i = k + 1 /\ ~(k <= Len(a))
        BY <1>1, <2>2, <3>2
      <4> QED BY <1>3, <2>1, <3>2, <4>1
    <3> QED BY <3>1, <3>2
  <2> QED BY <2>1, <2>2, <2>3
<1>5. t = p \o r
  BY DEF L!RemoveAt, r, a, b
<1> HIDE DEF r
<1>6. /\ u \in Seq(A) /\ Len(u) = Len(p) + Len(s)
      /\ \A k \in 1 .. Len(u) : u[k] = IF k <= Len(p) THEN p[k] ELSE s[k - Len(p)]
  BY ConcatIs
<1>7. /\ t \in Seq(A) /\ Len(t) = Len(p) + Len(r)
      /\ \A k \in 1 .. Len(t) : t[k] = IF k <= Len(p) THEN p[k] ELSE r[k - Len(p)]
  <2>1. r \in Seq(A)
    BY <1>4
  <2> QED BY <1>5, <2>1, ConcatIs
<1> HIDE DEF u
<1>8. ASSUME NEW k \in 1 .. Len(t) PROVE t[k] = IF k < n THEN u[k] ELSE u[k + 1]
  <2>1. CASE k <= Len(p)
    BY <1>1, <1>6, <1>7, <2>1
  <2>2. CASE ~(k <= Len(p))
    <3>1. k - Len(p) \in 1 .. Len(r) /\ t[k] = r[k - Len(p)] /\ (k < n <=> k - Len(p) < i)
      BY <1>1, <1>4, <1>7, <2>2
    <3>2. k \in 1 .. Len(u) /\ u[k] = s[k - Len(p)]
      BY <1>1, <1>4, <1>6, <1>7, <2>2
    <3>3. k + 1 \in 1 .. Len(u) /\ ~(k + 1 <= Len(p)) /\ (k + 1) - Len(p) = (k - Len(p)) + 1
      BY <1>1, <1>4, <1>6, <1>7, <2>2
    <3>4. u[k + 1] = s[(k - Len(p)) + 1]
      BY <1>6, <3>3
    <3> QED BY <1>4, <3>1, <3>2, <3>4
  <2> QED BY <2>1, <2>2
<1>9. n \in 1 .. Len(u) /\ Len(t) = Len(u) - 1
  BY <1>1, <1>4, <1>6, <1>7
<1>10. t \in Seq(A) /\ u \in Seq(A) /\ \A k \in 1 .. Len(t) : t[k] = IF k < n THEN u[k] ELSE u[k + 1]
  BY <1>6, <1>7, <1>8
<1> HIDE DEF n
<1>11. t \in Seq(A) /\ Removed(u, n, t)
  BY <1>9, <1>10 DEF Removed
<1> QED BY <1>11 DEF u, n

\* In t, the concatenation of p and s has e before the i-th of s.
InsertedBehind(p, s, i, t, e) == Inserted(p \o s, Len(p) + i, t) /\ t[Len(p) + i] = e

LEMMA InsertedInto ==
    ASSUME NEW A, NEW p \in Seq(A), NEW s \in Seq(A), NEW i \in 1 .. Len(s) + 1, NEW e \in A,
           NEW t, t = p \o L!InsertAt(s, i, e)
    PROVE  t \in Seq(A) /\ InsertedBehind(p, s, i, t, e)
<1> DEFINE u == p \o s  n == Len(p) + i  a == SubSeq(s, 1, i - 1)  b == SubSeq(s, i, Len(s))
           c == a \o <<e>>  r == c \o b
<1>1. i \in Nat \ {0} /\ i <= Len(s) + 1 /\ Len(s) \in Nat /\ Len(p) \in Nat
  OBVIOUS
<1>2. a \in Seq(A) /\ Len(a) = i - 1 /\ \A k \in 1 .. i - 1 : a[k] = s[k]
  BY <1>1
<1>3. b \in Seq(A) /\ Len(b) = Len(s) - i + 1 /\ \A k \in 1 .. Len(s) - i + 1 : b[k] = s[k + i - 1]
  BY <1>1
<1> HIDE DEF a, b
<1>4. c \in Seq(A) /\ Len(c) = i /\ c[i] = e /\ \A k \in 1 .. i - 1 : c[k] = s[k]
  <2>1. c = Append(a, e)
    BY <1>2
  <2> DEFINE d == Append(a, e)
  <2>2. d \in Seq(A) /\ Len(d) = Len(a) + 1 /\ d[Len(a) + 1] = e /\ \A k \in 1 .. Len(a) : d[k] = a[k]
    <3>1. a \in Seq(A)
      BY <1>2
    <3> QED BY <3>1, AppendProperties
  <2>3. c = d /\ Len(a) + 1 = i
    BY <1>1, <1>2, <2>1
  <2> HIDE DEF d, c
  <2> QED BY <1>2, <2>2, <2>3
<1> HIDE DEF c
<1>5. /\ r \in Seq(A) /\ Len(r) = Len(s) + 1 /\ r[i] = e
      /\ \A k \in 1 .. Len(r) : k # i => r[k] = IF k < i THEN s[k] ELSE s[k - 1]
  <2>1. r \in Seq(A) /\ Len(r) = Len(c) + Len(b) /\ \A k \in 1 .. Len(r) : r[k] = IF k <= Len(c) THEN c[k] ELSE b[k - Len(c)]
    BY <1>3, <1>4, ConcatIs
  <2> HIDE DEF r
  <2>2. Len(r) = Len(s) + 1 /\ i \in 1 .. Len(r)
    BY <1>1, <1>3, <1>4, <2>1
  <2>3. ASSUME NEW k \in 1 .. Len(r), k # i PROVE r[k] = IF k < i THEN s[k] ELSE s[k - 1]
    <3>1. CASE k < i
      BY <1>1, <1>4, <2>1, <3>1
    <3>2. CASE ~(k < i)
      <4>1. k - Len(c) \in 1 .. Len(s) - i + 1 /\ (k - Len(c)) + i - 1 = k - 1 /\ ~(k <= Len(c))
        BY <1>1, <1>4, <2>2, <2>3, <3>2
      <4> QED BY <1>3, <2>1, <3>2, <4>1
    <3> QED BY <3>1, <3>2
  <2> QED BY <1>1, <1>4, <2>1, <2>2, <2>3
<1>6. t = p \o r
  BY DEF L!InsertAt, r, c, a, b
<1> HIDE DEF r
<1>7. /\ u \in Seq(A) /\ Len(u) = Len(p) + Len(s)
      /\ \A k \in 1 .. Len(u) : u[k] = IF k <= Len(p) THEN p[k] ELSE s[k - Len(p)]
  BY ConcatIs
<1>8. /\ t \in Seq(A) /\ Len(t) = Len(p) + Len(r)
      /\ \A k \in 1 .. Len(t) : t[k] = IF k <= Len(p) THEN p[k] ELSE r[k - Len(p)]
  <2>1. r \in Seq(A)
    BY <1>5
  <2> QED BY <1>6, <2>1, ConcatIs
<1> HIDE DEF u
<1>9. n \in 1 .. Len(t) /\ ~(n <= Len(p)) /\ n - Len(p) = i
  BY <1>1, <1>5, <1>8
<1>10. ASSUME NEW k \in 1 .. Len(t), k # n PROVE t[k] = IF k < n THEN u[k] ELSE u[k - 1]
  <2>1. CASE k <= Len(p)
    BY <1>1, <1>7, <1>8, <2>1
  <2>2. CASE ~(k <= Len(p))
    <3>1. k - Len(p) \in 1 .. Len(r) /\ k - Len(p) # i /\ t[k] = r[k - Len(p)] /\ (k < n <=> k - Len(p) < i)
      BY <1>1, <1>5, <1>8, <1>10, <2>2
    <3>2. CASE k < n
      <4>1. k \in 1 .. Len(u) /\ u[k] = s[k - Len(p)]
        BY <1>1, <1>5, <1>7, <1>8, <2>2, <3>2
      <4> QED BY <1>5, <3>1, <3>2, <4>1
    <3>3. CASE ~(k < n)
      <4>1. k - 1 \in 1 .. Len(u) /\ ~(k - 1 <= Len(p)) /\ (k - 1) - Len(p) = (k - Len(p)) - 1
        BY <1>1, <1>5, <1>7, <1>8, <1>10, <2>2, <3>3
      <4>2. u[k - 1] = s[(k - Len(p)) - 1]
        BY <1>7, <4>1
      <4> QED BY <1>5, <3>1, <3>3, <4>2
    <3> QED BY <3>2, <3>3
  <2> QED BY <2>1, <2>2
<1>11. t[n] = e
  BY <1>5, <1>8, <1>9
<1>12. n \in 1 .. Len(u) + 1 /\ Len(t) = Len(u) + 1 /\ t \in Seq(A) /\ u \in Seq(A)
  BY <1>1, <1>5, <1>7, <1>8
<1>13. \A k \in 1 .. Len(t) : k # n => t[k] = IF k < n THEN u[k] ELSE u[k - 1]
  BY <1>10
<1> HIDE DEF n
<1>14. t \in Seq(A) /\ Inserted(u, n, t) /\ t[n] = e
  BY <1>11, <1>12, <1>13 DEF Inserted
<1> QED BY <1>14 DEF u, n, InsertedBehind

\* To the device and to the client, from the first item not yet dealt with to the last one written.
ToDevice == rx \o down
ToClient == defrag.buffer \o up
Ends == {L!Zero}
RequestParts == {<<r, k, 3, L!Pieces(r)[k]>> : r \in Nat, k \in 1 .. 3}
Lasts == {f \in AnswerFrame : f.last}
AnswerParts ==
    {<<r, k, n, [seq |-> L!SeqOfRequest(r), of |-> r, n |-> k, last |-> k = n]>> :
        r \in Nat \ {0}, k \in Nat, n \in Fragments}

BufferInv ==
    /\ defrag.seq = None <=> defrag.buffer = <<>>
    /\ \A i \in DOMAIN defrag.buffer : ~defrag.buffer[i].last /\ defrag.buffer[i].seq = defrag.seq

\* RequestParts whose answer will not come, whatever follows; one more is lost at each end that is open.
Lost == L!Unanswered \ (Good(ToDevice, RequestParts, Ends) \cup Good(ToClient, AnswerParts, Lasts))
Joined(s, D) == IF Open(s, D) THEN 1 ELSE 0
Joins == Joined(ToDevice, Ends) + Joined(ToClient, Lasts)
Paid == receiver = "simulator" => Cardinality(Lost) + Joins <= 2 * damage + Cardinality(cancelled)
DamageInv == LineInv /\ BufferInv /\ damage \in Nat /\ cancelled \subseteq 1 .. sent /\ Paid

LEMMA LinkCardinality == \A X : L!Cardinality(X) = Cardinality(X)
BY DEF L!Cardinality, Cardinality

LEMMA RequestsFramed == Framing(RequestParts, Ends)
<1>1. ASSUME NEW r, NEW k, NEW n, NEW e, <<r, k, n, e>> \in RequestParts
      PROVE  r \in Nat /\ k \in 1 .. 3 /\ n = 3 /\ e = L!Pieces(r)[k]
  BY <1>1 DEF RequestParts
<1>2. ASSUME NEW r \in Nat, NEW k \in 1 .. 3
      PROVE  (L!Pieces(r)[k] = L!Zero <=> k = 3) /\ (k = 1 => L!Pieces(r)[k].of = r)
  <2>1. CASE k = 1
    <3>1. L!Pieces(r)[1] = [of |-> r, part |-> "head", good |-> TRUE]
      BY DEF L!Pieces
    <3>2. L!Pieces(r)[1].part # L!Zero.part
      BY <3>1 DEF L!Zero
    <3> QED BY <2>1, <3>1, <3>2
  <2>2. CASE k = 2
    <3>1. L!Pieces(r)[2] = [of |-> r, part |-> "tail", good |-> TRUE]
      BY DEF L!Pieces
    <3>2. L!Pieces(r)[2].part # L!Zero.part
      BY <3>1 DEF L!Zero
    <3> QED BY <2>2, <3>2
  <2>3. CASE k = 3
    BY <2>3 DEF L!Pieces
  <2> QED BY <2>1, <2>2, <2>3
<1>3. ASSUME NEW r, NEW k, NEW n, NEW e, <<r, k, n, e>> \in RequestParts
      PROVE  k \in Nat /\ n \in Nat /\ (e \in Ends <=> k = n)
  BY <1>1, <1>2, <1>3 DEF Ends
<1>4. ASSUME NEW r, NEW q, NEW n, NEW m, NEW e, <<r, 1, n, e>> \in RequestParts, <<q, 1, m, e>> \in RequestParts
      PROVE  r = q
  <2>1. r \in Nat /\ q \in Nat /\ e = L!Pieces(r)[1] /\ e = L!Pieces(q)[1] /\ 1 \in 1 .. 3
    BY <1>1, <1>4
  <2>2. L!Pieces(r)[1].of = r /\ L!Pieces(q)[1].of = q
    BY <1>2, <2>1
  <2> QED BY <2>1, <2>2
<1> QED BY <1>3, <1>4 DEF Framing

LEMMA AnswerIs ==
    ASSUME NEW r, NEW k, NEW n, NEW e, <<r, k, n, e>> \in AnswerParts
    PROVE  /\ r \in Nat \ {0} /\ k \in Nat /\ n \in Nat /\ e \in AnswerFrame
           /\ e.seq = L!SeqOfRequest(r) /\ e.of = r /\ e.n = k /\ (e.last <=> k = n)
<1>1. PICK q \in Nat \ {0}, j \in Nat, m \in Fragments :
          <<r, k, n, e>> = <<q, j, m, [seq |-> L!SeqOfRequest(q), of |-> q, n |-> j, last |-> j = m]>>
  BY DEF AnswerParts
<1>2. r = q /\ k = j /\ n = m /\ e = [seq |-> L!SeqOfRequest(r), of |-> r, n |-> k, last |-> k = n]
  BY <1>1
<1>3. r \in Nat \ {0} /\ k \in Nat /\ n \in Nat
  BY <1>2, LineAssumption DEF L!LinkAssumption
<1>4. L!SeqOfRequest(r) \in Nat
  <2>1. SeqNumbers \in Nat \ {0} /\ r - 1 \in Nat
    BY <1>3, LineAssumption DEF L!LinkAssumption
  <2> QED BY <2>1 DEF L!SeqOfRequest
<1>5. e \in AnswerFrame
  BY <1>2, <1>3, <1>4 DEF AnswerFrame
<1> QED BY <1>2, <1>3, <1>5

LEMMA AnswersFramed == Framing(AnswerParts, Lasts)
<1>1. ASSUME NEW r, NEW k, NEW n, NEW e, <<r, k, n, e>> \in AnswerParts
      PROVE  k \in Nat /\ n \in Nat /\ (e \in Lasts <=> k = n)
  BY <1>1, AnswerIs DEF Lasts
<1>2. ASSUME NEW r, NEW q, NEW n, NEW m, NEW e, <<r, 1, n, e>> \in AnswerParts, <<q, 1, m, e>> \in AnswerParts
      PROVE  r = q
  BY <1>2, AnswerIs
<1> QED BY <1>1, <1>2, ZenonT(30) DEF Framing

LEMMA FewMore ==
    ASSUME NEW X, IsFiniteSet(X), NEW Y, NEW x, NEW y, Y \subseteq X \cup {x, y}
    PROVE  /\ IsFiniteSet(Y) /\ Cardinality(X) \in Nat /\ Cardinality(Y) \in Nat
           /\ Cardinality(Y) <= Cardinality(X) + 2
           /\ Y \subseteq X \cup {x} => Cardinality(Y) <= Cardinality(X) + 1
           /\ Y \subseteq X => Cardinality(Y) <= Cardinality(X)
<1> DEFINE X1 == X \cup {x}  X2 == X1 \cup {y}
<1>1. IsFiniteSet(X1) /\ Cardinality(X1) \in {Cardinality(X), Cardinality(X) + 1} /\ Cardinality(X) \in Nat
  BY FS_AddElement, FS_CardinalityType
<1>2. IsFiniteSet(X2) /\ Cardinality(X2) \in {Cardinality(X1), Cardinality(X1) + 1}
  <2> HIDE DEF X1
  <2> QED BY <1>1, FS_AddElement
<1>3. Y \subseteq X2
  OBVIOUS
<1>4. IsFiniteSet(Y) /\ Cardinality(Y) <= Cardinality(X2)
  BY <1>2, <1>3, FS_Subset
<1>5. Cardinality(Y) \in Nat
  BY <1>4, FS_CardinalityType
<1>6. Y \subseteq X \cup {x} => Cardinality(Y) <= Cardinality(X1)
  BY <1>1, FS_Subset
<1>7. Y \subseteq X => Cardinality(Y) <= Cardinality(X)
  BY FS_Subset
<1> HIDE DEF X1, X2
<1> QED BY <1>1, <1>2, <1>4, <1>5, <1>6, <1>7

LEMMA StreamTypes ==
    ASSUME LineInv
    PROVE  ToDevice \in Seq(ItemTo(sent)) /\ ToClient \in Seq(FrameTo(sent))
BY ConcatIs DEF LineInv, ToDevice, ToClient

LEMMA CountsTypes ==
    ASSUME LineInv, cancelled \subseteq 1 .. sent
    PROVE  /\ IsFiniteSet(Lost) /\ Cardinality(Lost) \in Nat
           /\ IsFiniteSet(cancelled) /\ Cardinality(cancelled) \in Nat
<1>1. IsFiniteSet(1 .. sent)
  <2>1. 1 \in Int /\ sent \in Int
    BY DEF LineInv
  <2> QED BY <2>1, FS_Interval
<1>2. Lost \subseteq 1 .. sent
  BY DEF Lost, L!Unanswered
<1> QED BY <1>1, <1>2, FS_Subset, FS_CardinalityType

LEMMA JoinsType == Joins \in Nat
BY DEF Joins, Joined

\* A damage pays for two frames, or for one and an end left open.
LEMMA DamagePays ==
    ASSUME DamageInv, receiver' = receiver, cancelled' = cancelled, damage' = damage + 1,
           NEW x, NEW y, Lost' \subseteq Lost \cup {x, y}, Joins' \in Nat,
           Joins' <= Joins \/ (Joins' <= Joins + 1 /\ Lost' \subseteq Lost \cup {x})
    PROVE  Paid'
<1>1. IsFiniteSet(Lost) /\ Cardinality(Lost) \in Nat /\ Cardinality(cancelled) \in Nat /\ damage \in Nat /\ Joins \in Nat
  BY CountsTypes, JoinsType DEF DamageInv
<1>2. /\ Cardinality(Lost') \in Nat /\ Cardinality(Lost') <= Cardinality(Lost) + 2
      /\ Lost' \subseteq Lost \cup {x} => Cardinality(Lost') <= Cardinality(Lost) + 1
  BY <1>1, FewMore
<1> DEFINE l == Cardinality(Lost)  m == Cardinality(Lost')  c == Cardinality(cancelled)
           j == Joins  k == Joins'
<1>3. receiver = "simulator" => l + j <= 2 * damage + c
  BY DEF DamageInv, Paid
<1>4. /\ l \in Nat /\ m \in Nat /\ c \in Nat /\ m <= l + 2 /\ (k <= j \/ (k <= j + 1 /\ m <= l + 1))
      /\ j \in Nat /\ k \in Nat /\ damage \in Nat
  BY <1>1, <1>2
<1> HIDE DEF l, m, c, j, k
<1>5. receiver = "simulator" => m + k <= 2 * (damage + 1) + c
  BY <1>3, <1>4
<1> QED BY <1>5 DEF Paid, m, c, k

\* Without damage an end that is closed pays for the frame joined to it.
LEMMA JoinPays ==
    ASSUME DamageInv, receiver' = receiver, cancelled' = cancelled, damage' = damage,
           NEW x, Lost' \subseteq Lost \cup {x}, Joins' \in Nat,
           Joins' + 1 <= Joins \/ (Joins' <= Joins /\ Lost' \subseteq Lost)
    PROVE  Paid'
<1>1. IsFiniteSet(Lost) /\ Cardinality(Lost) \in Nat /\ Cardinality(cancelled) \in Nat /\ damage \in Nat /\ Joins \in Nat
  BY CountsTypes, JoinsType DEF DamageInv
<1>2. /\ Cardinality(Lost') \in Nat /\ Cardinality(Lost') <= Cardinality(Lost) + 1
      /\ Lost' \subseteq Lost => Cardinality(Lost') <= Cardinality(Lost)
  <2>1. Lost' \subseteq Lost \cup {x, x}
    OBVIOUS
  <2> QED BY <1>1, <2>1, FewMore
<1> DEFINE l == Cardinality(Lost)  m == Cardinality(Lost')  c == Cardinality(cancelled)
           j == Joins  k == Joins'
<1>3. receiver = "simulator" => l + j <= 2 * damage + c
  BY DEF DamageInv, Paid
<1>4. /\ l \in Nat /\ m \in Nat /\ c \in Nat /\ m <= l + 1 /\ (k + 1 <= j \/ (k <= j /\ m <= l))
      /\ j \in Nat /\ k \in Nat /\ damage \in Nat
  BY <1>1, <1>2
<1> HIDE DEF l, m, c, j, k
<1>5. receiver = "simulator" => m + k <= 2 * damage + c
  BY <1>3, <1>4
<1> QED BY <1>5 DEF Paid, m, c, k

LEMMA LoseSteps ==
    ASSUME DamageInv, L!LoseDown \/ L!LoseUp
    PROVE  DamageInv'
<1>1. LineInv /\ LineInv'
  BY LineSteps DEF DamageInv
<1>2. /\ UNCHANGED <<receiver, sent, got, cancelled, defrag, rx>> /\ damage' = damage + 1
  BY DEF L!LoseDown, L!LoseUp, L!Damage, L!host, L!client
<1>3. (BufferInv /\ damage \in Nat /\ cancelled \subseteq 1 .. sent)'
  BY <1>2 DEF DamageInv, BufferInv
<1>4. Joins' \in Nat
  BY DEF Joins, Joined
<1>5. L!Unanswered' = L!Unanswered
  BY <1>2 DEF L!Unanswered
<1>6. CASE L!LoseDown
  <2>1. PICK i \in DOMAIN down : down' = L!RemoveAt(down, i)
    BY <1>6 DEF L!LoseDown
  <2> DEFINE n == Len(rx) + i
  <2>2. ToDevice' \in Seq(ItemTo(sent)) /\ ToDevice \in Seq(ItemTo(sent)) /\ Removed(ToDevice, n, ToDevice')
    <3>1. rx \in Seq(ItemTo(sent)) /\ down \in Seq(ItemTo(sent))
      BY DEF DamageInv, LineInv
    <3>2. ToDevice' = rx \o L!RemoveAt(down, i)
      BY <1>2, <2>1 DEF ToDevice
    <3>3. ToDevice' \in Seq(ItemTo(sent)) /\ Removed(rx \o down, Len(rx) + i, ToDevice')
      BY <3>1, <3>2, RemovedFrom
    <3> QED BY <1>1, <3>3, StreamTypes DEF ToDevice
  <2> HIDE DEF n
  <2>3. PICK x, y : /\ Good(ToDevice, RequestParts, Ends) \subseteq Good(ToDevice', RequestParts, Ends) \cup {x, y}
                    /\ Open(ToDevice', Ends) /\ ~Open(ToDevice, Ends) =>
                           Good(ToDevice, RequestParts, Ends) \subseteq Good(ToDevice', RequestParts, Ends) \cup {x}
    <3>1. LosesTwo(ToDevice, ToDevice', RequestParts, Ends)
      BY <2>2, ItemLost, RequestsFramed
    <3> QED BY <3>1 DEF LosesTwo
  <2>4. ToClient' = ToClient /\ Ends' = Ends /\ Lasts' = Lasts /\ RequestParts' = RequestParts /\ AnswerParts' = AnswerParts
    BY <1>2, <1>6 DEF ToClient, L!LoseDown
  <2>5. /\ Lost' \subseteq Lost \cup {x, y}
        /\ Open(ToDevice', Ends) /\ ~Open(ToDevice, Ends) => Lost' \subseteq Lost \cup {x}
    BY <1>5, <2>3, <2>4 DEF Lost
  <2>6. Joins' <= Joins \/ (Joins' <= Joins + 1 /\ Lost' \subseteq Lost \cup {x})
    BY <2>4, <2>5 DEF Joins, Joined
  <2> QED BY <1>1, <1>2, <1>3, <1>4, <2>5, <2>6, DamagePays DEF DamageInv
<1>7. CASE L!LoseUp
  <2>1. PICK i \in DOMAIN up : up' = L!RemoveAt(up, i)
    BY <1>7 DEF L!LoseUp
  <2> DEFINE n == Len(defrag.buffer) + i
  <2>2. ToClient' \in Seq(FrameTo(sent)) /\ ToClient \in Seq(FrameTo(sent)) /\ Removed(ToClient, n, ToClient')
    <3>1. defrag.buffer \in Seq(FrameTo(sent)) /\ up \in Seq(FrameTo(sent))
      BY DEF DamageInv, LineInv
    <3>2. ToClient' = defrag.buffer \o L!RemoveAt(up, i)
      BY <1>2, <2>1 DEF ToClient
    <3>3. ToClient' \in Seq(FrameTo(sent)) /\ Removed(defrag.buffer \o up, Len(defrag.buffer) + i, ToClient')
      BY <3>1, <3>2, RemovedFrom
    <3> QED BY <1>1, <3>3, StreamTypes DEF ToClient
  <2> HIDE DEF n
  <2>3. PICK x, y : /\ Good(ToClient, AnswerParts, Lasts) \subseteq Good(ToClient', AnswerParts, Lasts) \cup {x, y}
                    /\ Open(ToClient', Lasts) /\ ~Open(ToClient, Lasts) =>
                           Good(ToClient, AnswerParts, Lasts) \subseteq Good(ToClient', AnswerParts, Lasts) \cup {x}
    <3>1. LosesTwo(ToClient, ToClient', AnswerParts, Lasts)
      BY <2>2, ItemLost, AnswersFramed
    <3> QED BY <3>1 DEF LosesTwo
  <2>4. ToDevice' = ToDevice /\ Ends' = Ends /\ Lasts' = Lasts /\ RequestParts' = RequestParts /\ AnswerParts' = AnswerParts
    BY <1>2, <1>7 DEF ToDevice, L!LoseUp
  <2>5. /\ Lost' \subseteq Lost \cup {x, y}
        /\ Open(ToClient', Lasts) /\ ~Open(ToClient, Lasts) => Lost' \subseteq Lost \cup {x}
    BY <1>5, <2>3, <2>4 DEF Lost
  <2>6. Joins' <= Joins \/ (Joins' <= Joins + 1 /\ Lost' \subseteq Lost \cup {x})
    BY <2>4, <2>5 DEF Joins, Joined
  <2> QED BY <1>1, <1>2, <1>3, <1>4, <2>5, <2>6, DamagePays DEF DamageInv
<1> QED BY <1>6, <1>7 DEF LosesTwo

LEMMA DisturbSteps ==
    ASSUME DamageInv, L!GarbleDown \/ L!StrayZero
    PROVE  DamageInv'
<1>1. LineInv /\ LineInv' /\ rx \in Seq(ItemTo(sent)) /\ down \in Seq(ItemTo(sent))
  BY LineSteps DEF DamageInv, LineInv
<1>2. /\ UNCHANGED <<receiver, sent, got, cancelled, defrag, rx, up>> /\ damage' = damage + 1
  BY DEF L!GarbleDown, L!StrayZero, L!Damage, L!host, L!client
<1>3. (BufferInv /\ damage \in Nat /\ cancelled \subseteq 1 .. sent)'
  BY <1>2 DEF DamageInv, BufferInv
<1>4. Joins' \in Nat
  BY DEF Joins, Joined
<1>5. L!Unanswered' = L!Unanswered
  BY <1>2 DEF L!Unanswered
<1>6. ToClient' = ToClient /\ Ends' = Ends /\ Lasts' = Lasts /\ RequestParts' = RequestParts /\ AnswerParts' = AnswerParts
  BY <1>2 DEF ToClient
<1>7. ASSUME LosesOne(ToDevice, ToDevice', RequestParts, Ends)
      PROVE  Paid'
  <2>1. PICK x : Good(ToDevice, RequestParts, Ends) \subseteq Good(ToDevice', RequestParts, Ends) \cup {x}
    BY <1>7 DEF LosesOne
  <2>2. Lost' \subseteq Lost \cup {x, x}
    BY <1>5, <1>6, <2>1 DEF Lost
  <2>3. Joins' <= Joins
    BY <1>6, <1>7 DEF Joins, Joined, LosesOne
  <2> QED BY <1>2, <1>4, <2>2, <2>3, DamagePays
<1>8. CASE L!GarbleDown
  <2>1. PICK i \in DOMAIN down : down[i] # L!Zero /\ down' = [down EXCEPT ![i].good = FALSE]
    BY <1>8 DEF L!GarbleDown
  <2> DEFINE n == Len(rx) + i
  <2>2. /\ i \in 1 .. Len(down) /\ Len(down) \in Nat /\ Len(rx) \in Nat
        /\ down' \in Seq(ItemTo(sent)) /\ Len(down') = Len(down)
        /\ down'[i] # L!Zero /\ \A k \in 1 .. Len(down) : k # i => down'[k] = down[k]
    <3>1. down' \in Seq(ItemTo(sent))
      BY <1>1, <1>2 DEF LineInv
    <3>2. down[i] \in [of : 1 .. sent, part : {"head", "tail"}, good : BOOLEAN]
      BY <1>1, <2>1 DEF ItemTo
    <3>3. down'[i] = [down[i] EXCEPT !.good = FALSE]
      BY <1>1, <2>1
    <3>4. down'[i].part \in {"head", "tail"} /\ L!Zero.part = "zero"
      BY <3>2, <3>3 DEF L!Zero
    <3>5. down'[i] # L!Zero
      BY <3>4
    <3>6. DOMAIN down' = DOMAIN down /\ \A k \in DOMAIN down : k # i => down'[k] = down[k]
      BY <1>1, <2>1
    <3> QED BY <1>1, <3>1, <3>5, <3>6
  <2>3. /\ ToDevice \in Seq(ItemTo(sent)) /\ Len(ToDevice) = Len(rx) + Len(down)
        /\ \A k \in 1 .. Len(ToDevice) : ToDevice[k] = IF k <= Len(rx) THEN rx[k] ELSE down[k - Len(rx)]
    BY <1>1, ConcatIs DEF ToDevice
  <2>4. /\ ToDevice' \in Seq(ItemTo(sent)) /\ Len(ToDevice') = Len(rx) + Len(down)
        /\ \A k \in 1 .. Len(ToDevice') : ToDevice'[k] = IF k <= Len(rx) THEN rx[k] ELSE down'[k - Len(rx)]
    <3>1. ToDevice' = rx \o down'
      BY <1>2 DEF ToDevice
    <3>2. down' \in Seq(ItemTo(sent))
      BY <2>2
    <3>3. /\ rx \o down' \in Seq(ItemTo(sent)) /\ Len(rx \o down') = Len(rx) + Len(down')
          /\ \A k \in 1 .. Len(rx \o down') : (rx \o down')[k] = IF k <= Len(rx) THEN rx[k] ELSE down'[k - Len(rx)]
      BY <1>1, <3>2, ConcatIs
    <3> QED BY <2>2, <3>1, <3>3
  <2>5. n \in 1 .. Len(ToDevice) /\ Len(ToDevice') = Len(ToDevice) /\ ~(n <= Len(rx)) /\ n - Len(rx) = i
    BY <2>2, <2>3, <2>4
  <2>6. ToDevice[n] \notin Ends /\ ToDevice'[n] \notin Ends
    BY <2>1, <2>2, <2>3, <2>4, <2>5 DEF Ends
  <2>7. ASSUME NEW k \in 1 .. Len(ToDevice), k # n
        PROVE  ToDevice'[k] = ToDevice[k]
    <3>1. ~(k <= Len(rx)) => k - Len(rx) \in 1 .. Len(down) /\ k - Len(rx) # i
      BY <2>2, <2>3, <2>7
    <3> QED BY <2>2, <2>3, <2>4, <2>5, <3>1
  <2> HIDE DEF n
  <2>8. Changed(ToDevice, n, ToDevice')
    BY <2>5, <2>7 DEF Changed
  <2>9. LosesOne(ToDevice, ToDevice', RequestParts, Ends)
    BY <2>3, <2>4, <2>6, <2>8, ItemChanged, RequestsFramed
  <2> QED BY <1>1, <1>3, <1>7, <2>9 DEF DamageInv
<1>9. CASE L!StrayZero
  <2>1. PICK i \in 1 .. Len(down) + 1 : down' = L!InsertAt(down, i, L!Zero)
    BY <1>9 DEF L!StrayZero
  <2> DEFINE n == Len(rx) + i
  <2>2. ToDevice' \in Seq(ItemTo(sent)) /\ Inserted(ToDevice, n, ToDevice') /\ ToDevice'[n] = L!Zero
    <3>1. L!Zero \in ItemTo(sent)
      BY DEF ItemTo
    <3>2. ToDevice' = rx \o L!InsertAt(down, i, L!Zero)
      BY <1>2, <2>1 DEF ToDevice
    <3>3. ToDevice' \in Seq(ItemTo(sent)) /\ InsertedBehind(rx, down, i, ToDevice', L!Zero)
      BY <1>1, <2>1, <3>1, <3>2, InsertedInto
    <3> QED BY <3>3 DEF ToDevice, InsertedBehind
  <2>3. ToDevice'[n] \in Ends
    BY <2>2 DEF Ends
  <2> HIDE DEF n
  <2>4. LosesOne(ToDevice, ToDevice', RequestParts, Ends)
    BY <1>1, <2>2, <2>3, StreamTypes, ItemInserted, RequestsFramed
  <2> QED BY <1>1, <1>3, <1>7, <2>4 DEF DamageInv
<1> QED BY <1>8, <1>9

LEMMA StreamGrows ==
    ASSUME NEW A, NEW s \in Seq(A), NEW f \in Seq(A), NEW t, t = s \o f, NEW W, NEW D
    PROVE  /\ t \in Seq(A) /\ Good(s, W, D) \subseteq Good(t, W, D)
           /\ Len(f) # 0 /\ f[Len(f)] \in D => ~Open(t, D)
<1>1. /\ t \in Seq(A) /\ Len(t) = Len(s) + Len(f) /\ Len(s) \in Nat /\ Len(f) \in Nat
      /\ \A k \in 1 .. Len(t) : t[k] = IF k <= Len(s) THEN s[k] ELSE f[k - Len(s)]
  BY ConcatIs
<1>2. Len(s) <= Len(t) /\ \A k \in 1 .. Len(s) : t[k] = s[k]
  BY <1>1
<1>3. Good(s, W, D) \subseteq Good(t, W, D)
  BY <1>1, <1>2, GoodGrows
<1>4. ASSUME Len(f) # 0, f[Len(f)] \in D
      PROVE  ~Open(t, D)
  <2>1. Len(t) \in 1 .. Len(t) /\ ~(Len(t) <= Len(s)) /\ Len(t) - Len(s) = Len(f)
    BY <1>1, <1>4
  <2>2. t[Len(t)] = f[Len(f)]
    BY <1>1, <2>1
  <2> QED BY <1>4, <2>2 DEF Open
<1> QED BY <1>1, <1>3, <1>4

Begins(s, f) == \A k \in 1 .. Len(f) : s[k] = f[k]

LEMMA FrontDropped ==
    ASSUME NEW A, NEW f \in Seq(A), NEW t \in Seq(A), Len(f) # 0, NEW s, s = f \o t
    PROVE  s \in Seq(A) /\ Dropped(s, Len(f), t) /\ Begins(s, f)
<1>1. /\ s \in Seq(A) /\ Len(s) = Len(f) + Len(t) /\ Len(t) \in Nat /\ Len(f) \in Nat
      /\ \A k \in 1 .. Len(s) : s[k] = IF k <= Len(f) THEN f[k] ELSE t[k - Len(f)]
  BY ConcatIs
<1>2. Len(f) \in 1 .. Len(s) /\ Len(t) = Len(s) - Len(f) /\ \A k \in 1 .. Len(f) : s[k] = f[k]
  BY <1>1
<1>3. ASSUME NEW k \in 1 .. Len(t)
      PROVE  t[k] = s[k + Len(f)]
  <2>1. k + Len(f) \in 1 .. Len(s) /\ ~(k + Len(f) <= Len(f)) /\ (k + Len(f)) - Len(f) = k
    BY <1>1
  <2> QED BY <1>1, <2>1
<1> QED BY <1>1, <1>2, <1>3 DEF Dropped, Begins

LEMMA GiveUpOrRead ==
    ASSUME DamageInv, L!GiveUp \/ (\E k \in DOMAIN down : L!Read(k)) \/ UNCHANGED linkVars
    PROVE  DamageInv'
<1>1. UNCHANGED <<receiver, sent, got, cancelled, defrag, up, damage>>
  BY DEF L!GiveUp, L!Read, L!host, L!client, linkVars
<1>2. LineInv /\ LineInv'
  <2>1. CASE UNCHANGED linkVars
    BY <2>1 DEF DamageInv, linkVars, LineInv
  <2> QED BY <2>1, GiveUpStep, ReadFromLine DEF DamageInv
<1>3. (BufferInv /\ damage \in Nat /\ cancelled \subseteq 1 .. sent)'
  BY <1>1 DEF DamageInv, BufferInv
<1>4. ToDevice' = ToDevice
  <2>1. CASE UNCHANGED <<rx, down>>
    BY <2>1 DEF ToDevice
  <2>2. CASE \E k \in DOMAIN down : L!Read(k)
    <3>1. PICK k \in DOMAIN down : L!Read(k)
      BY <2>2
    <3>2. rx \in Seq(ItemTo(sent)) /\ down \in Seq(ItemTo(sent)) /\ k \in 1 .. Len(down) /\ Len(down) \in Nat
      BY <1>2 DEF LineInv
    <3> DEFINE a == SubSeq(down, 1, k)  b == SubSeq(down, k + 1, Len(down))
    <3>3. rx' = rx \o a /\ down' = b
      BY <3>1 DEF L!Read
    <3>4. a \in Seq(ItemTo(sent)) /\ b \in Seq(ItemTo(sent))
      BY <3>2, SequenceParts
    <3>5. a \o b = SubSeq(down, 1, Len(down))
      <4>1. 1 \in 1 .. Len(down) + 1 /\ k \in 1 - 1 .. Len(down) /\ Len(down) \in k .. Len(down)
        BY <3>2
      <4> QED BY <3>2, <4>1, ConcatAdjacentSubSeq
    <3>6. a \o b = down
      BY <3>2, <3>5, SubSeqFull
    <3> HIDE DEF a, b
    <3>7. (rx \o a) \o b = rx \o (a \o b)
      <4>1. rx \in Seq(ItemTo(sent))
        BY <3>2
      <4> QED BY <3>4, <4>1, ConcatAssociative
    <3> QED BY <3>3, <3>6, <3>7 DEF ToDevice
  <2>3. UNCHANGED <<rx, down>> \/ \E k \in DOMAIN down : L!Read(k)
    BY DEF L!GiveUp, linkVars
  <2> QED BY <2>1, <2>2, <2>3
<1>5. ToClient' = ToClient /\ Ends' = Ends /\ Lasts' = Lasts /\ RequestParts' = RequestParts /\ AnswerParts' = AnswerParts
  BY <1>1 DEF ToClient
<1>6. Lost' = Lost /\ Joins' = Joins
  BY <1>1, <1>4, <1>5 DEF Lost, L!Unanswered, Joins
<1>7. Paid'
  BY <1>1, <1>6 DEF DamageInv, Paid
<1> QED BY <1>2, <1>3, <1>7 DEF DamageInv

LEMMA SendDamage ==
    ASSUME DamageInv, L!Send \/ L!SendPartly
    PROVE  DamageInv'
<1> DEFINE r == sent + 1  I == ItemTo(r)
<1>1. LineInv /\ LineInv' /\ sent \in Nat /\ r \in Nat /\ r \notin 1 .. sent /\ 1 .. r = (1 .. sent) \cup {r}
  BY SendSteps DEF DamageInv, LineInv
<1>2. UNCHANGED <<receiver, got, defrag, up, rx, damage>> /\ sent' = r
  BY DEF L!Send, L!SendPartly, L!client
<1>3. rx \in Seq(I) /\ down \in Seq(I) /\ down' \in Seq(I)
  <2>1. sent <= r
    BY <1>1
  <2> QED BY <1>1, <1>2, <2>1, MoreRequests DEF LineInv
<1>4. cancelled' \subseteq 1 .. r /\ r \notin cancelled /\ damage' \in Nat /\ BufferInv'
  BY <1>1, <1>2 DEF DamageInv, BufferInv, L!Send, L!SendPartly
<1>5. Joins' \in Nat
  BY DEF Joins, Joined
<1>6. ToClient' = ToClient /\ Ends' = Ends /\ Lasts' = Lasts /\ RequestParts' = RequestParts /\ AnswerParts' = AnswerParts
  BY <1>2 DEF ToClient
<1>7. ASSUME NEW f \in Seq(I), down' = down \o f
      PROVE  /\ ToDevice \in Seq(I) /\ ToDevice' = ToDevice \o f
             /\ Good(ToDevice, RequestParts, Ends) \subseteq Good(ToDevice', RequestParts, Ends)
             /\ Len(f) # 0 /\ f[Len(f)] \in Ends => ~Open(ToDevice', Ends)
  <2>1. ToDevice \in Seq(I)
    BY <1>3, ConcatIs DEF ToDevice
  <2>2. ToDevice' = ToDevice \o f
    BY <1>2, <1>3, <1>7, ConcatAssociative DEF ToDevice
  <2> HIDE DEF I
  <2> QED BY <2>1, <2>2, StreamGrows
<1> HIDE DEF I
<1>8. CASE L!Send
  <2> DEFINE f == L!Pieces(r)
  <2>1. f \in Seq(I) /\ Len(f) = 3 /\ f[3] \in Ends
    <3>1. \A g \in {"head", "tail"} : [of |-> r, part |-> g, good |-> TRUE] \in I
      BY <1>1 DEF ItemTo, I
    <3>2. L!Zero \in I
      BY DEF ItemTo, I
    <3> QED BY <3>1, <3>2 DEF L!Pieces, Ends
  <2>2. \A k \in 1 .. 3 : <<r, k, 3, f[k]>> \in RequestParts
    BY <1>1 DEF RequestParts
  <2>3. down' = down \o f /\ cancelled' = cancelled
    BY <1>8 DEF L!Send
  <2> HIDE DEF f, r
  <2>4. /\ ToDevice \in Seq(I) /\ ToDevice' = ToDevice \o f
        /\ Good(ToDevice, RequestParts, Ends) \subseteq Good(ToDevice', RequestParts, Ends)
        /\ ~Open(ToDevice', Ends)
    <3>1. /\ ToDevice \in Seq(I) /\ ToDevice' = ToDevice \o f
          /\ Good(ToDevice, RequestParts, Ends) \subseteq Good(ToDevice', RequestParts, Ends)
          /\ Len(f) # 0 /\ f[Len(f)] \in Ends => ~Open(ToDevice', Ends)
      BY <1>7, <2>1, <2>3
    <3>2. Len(f) # 0 /\ f[Len(f)] \in Ends
      BY <2>1
    <3> QED BY <3>1, <3>2
  <2>5. ~Open(ToDevice, Ends) => r \in Good(ToDevice', RequestParts, Ends)
    <3>1. /\ ToDevice \in Seq(I) /\ f \in Seq(I) /\ ToDevice' = ToDevice \o f /\ r \in Nat /\ Len(f) # 0
          /\ \A k \in 1 .. Len(f) : <<r, k, Len(f), f[k]>> \in RequestParts
      BY <1>1, <2>1, <2>2, <2>4
    <3> QED BY <3>1, FrameAdded
  <2>6. L!Unanswered' \subseteq L!Unanswered \cup {r}
    BY <1>1, <1>2, <2>3 DEF L!Unanswered
  <2>7. Lost' \subseteq Lost \cup {r} /\ (~Open(ToDevice, Ends) => Lost' \subseteq Lost)
    BY <1>6, <2>4, <2>5, <2>6 DEF Lost
  <2>8. Joins' + 1 <= Joins \/ (Joins' <= Joins /\ Lost' \subseteq Lost)
    BY <1>6, <2>4, <2>7 DEF Joins, Joined
  <2>9. Paid'
    BY <1>2, <1>5, <2>3, <2>7, <2>8, JoinPays
  <2> QED BY <1>1, <1>2, <1>4, <2>9 DEF DamageInv
<1>9. CASE L!SendPartly
  <2> DEFINE e == Head(L!Pieces(r))
  <2>1. e \in I
    BY <1>1 DEF L!Pieces, ItemTo, I
  <2>2. down' = Append(down, e) /\ cancelled' = cancelled \cup {r}
    BY <1>9 DEF L!SendPartly
  <2> HIDE DEF e, r
  <2>3. <<e>> \in Seq(I) /\ down' = down \o <<e>>
    BY <1>3, <2>1, <2>2, AppendIsConcat
  <2>4. Good(ToDevice, RequestParts, Ends) \subseteq Good(ToDevice', RequestParts, Ends)
    BY <1>7, <2>3
  <2>5. L!Unanswered' \subseteq L!Unanswered
    BY <1>1, <1>2, <2>2 DEF L!Unanswered
  <2>6. Lost' \subseteq Lost
    BY <1>6, <2>4, <2>5 DEF Lost
  <2>7. Joins' <= Joins + 1
    BY <1>6 DEF Joins, Joined
  <2>8. IsFiniteSet(Lost) /\ IsFiniteSet(cancelled) /\ Cardinality(Lost) \in Nat /\ Cardinality(cancelled) \in Nat
    BY <1>1, CountsTypes DEF DamageInv
  <2>9. Cardinality(Lost') \in Nat /\ Cardinality(Lost') <= Cardinality(Lost)
    BY <2>6, <2>8, FS_Subset, FS_CardinalityType
  <2>10. Cardinality(cancelled') = Cardinality(cancelled) + 1
    BY <1>4, <2>2, <2>8, FS_AddElement
  <2>11. Joins \in Nat /\ damage \in Nat
    BY JoinsType DEF DamageInv
  <2> DEFINE l == Cardinality(Lost)  m == Cardinality(Lost')  c == Cardinality(cancelled)  j == Joins  k == Joins'
  <2>12. l \in Nat /\ m \in Nat /\ c \in Nat /\ j \in Nat /\ k \in Nat /\ m <= l /\ k <= j + 1 /\ damage \in Nat
    BY <1>5, <2>7, <2>8, <2>9, <2>11
  <2>13. receiver = "simulator" => l + j <= 2 * damage + c
    BY DEF DamageInv, Paid
  <2> HIDE DEF l, m, c, j, k
  <2>14. receiver = "simulator" => m + k <= 2 * damage + (c + 1)
    BY <2>12, <2>13
  <2>15. Paid'
    BY <1>2, <2>10, <2>14 DEF Paid, m, k, c
  <2> QED BY <1>1, <1>2, <1>4, <2>15 DEF DamageInv
<1> QED BY <1>8, <1>9

\* The device takes the first frame of what it has read: only that one can be gone, and then its
\* answer is under way.
LEMMA TakeFrameDamage ==
    ASSUME DamageInv, L!TakeFrame
    PROVE  DamageInv'
<1> DEFINE I == ItemTo(sent)  F == FrameTo(sent)
           at == L!Min(L!Zeros(rx))
           q == rx[1].of
           front == SubSeq(rx, 1, at)
           rest == SubSeq(rx, at + 1, Len(rx))
           Whole == at > 1 /\ front = L!Pieces(q)
<1>1. /\ LineInv /\ LineInv' /\ rx \in Seq(I) /\ down \in Seq(I) /\ up \in Seq(F) /\ Len(rx) \in Nat
      /\ defrag.buffer \in Seq(F) /\ ToClient \in Seq(F) /\ sent \in Nat
  BY DeviceSteps, StreamTypes DEF DamageInv, LineInv
<1>2. UNCHANGED <<receiver, sent, got, cancelled, defrag, down, damage>>
  BY DEF L!TakeFrame, L!host, L!client
<1>3. (BufferInv /\ damage \in Nat /\ cancelled \subseteq 1 .. sent)'
  BY <1>2 DEF DamageInv, BufferInv
<1>4. at \in 1 .. Len(rx) /\ rx[at] = L!Zero /\ \A k \in 1 .. at - 1 : rx[k] # L!Zero
  <2>1. L!Zeros(rx) \in SUBSET Nat /\ L!Zeros(rx) = {k \in 1 .. Len(rx) : rx[k] = L!Zero}
    BY <1>1 DEF L!Zeros
  <2>2. L!Zeros(rx) # {}
    BY DEF L!TakeFrame, L!Busy
  <2>3. \E m \in L!Zeros(rx) : \A k \in L!Zeros(rx) : m <= k
    BY <2>1, <2>2, LeastOfSet
  <2>4. at \in L!Zeros(rx) /\ \A k \in L!Zeros(rx) : at <= k
    BY <2>3 DEF L!Min
  <2> HIDE DEF at
  <2>5. \A k \in 1 .. at - 1 : k \in 1 .. Len(rx) /\ ~(at <= k)
    BY <1>1, <2>1, <2>4
  <2> QED BY <2>1, <2>4, <2>5
<1>5. /\ rx' = rest
      /\ IF Whole THEN \E size \in Fragments : up' = up \o L!Answer(q, size) ELSE up' = up
  BY DEF L!TakeFrame
<1> HIDE DEF at, I, F
<1>6. front \in Seq(I) /\ rest \in Seq(I) /\ Len(front) = at /\ front \o rest = rx /\ \A k \in 1 .. at : front[k] = rx[k]
  <2>1. front \in Seq(I) /\ rest \in Seq(I)
    BY <1>1, <1>4, SequenceParts
  <2>2. front \o rest = SubSeq(rx, 1, Len(rx))
    <3>1. 1 \in 1 .. Len(rx) + 1 /\ at \in 1 - 1 .. Len(rx) /\ Len(rx) \in at .. Len(rx)
      BY <1>1, <1>4
    <3> QED BY <1>1, <3>1, ConcatAdjacentSubSeq
  <2>3. Len(front) = at /\ \A k \in 1 .. at : front[k] = rx[k]
    BY <1>1, <1>4
  <2> QED BY <1>1, <2>1, <2>2, <2>3, SubSeqFull
<1> HIDE DEF front, rest
<1>7. /\ ToDevice' \in Seq(I) /\ ToDevice \in Seq(I) /\ Dropped(ToDevice, at, ToDevice')
      /\ \A k \in 1 .. at : ToDevice[k] = rx[k]
  <2>1. ToDevice' = rest \o down /\ ToDevice' \in Seq(I)
    <3>1. rest \o down \in Seq(I)
      BY <1>1, <1>6, ConcatIs
    <3> QED BY <1>2, <1>5, <3>1 DEF ToDevice
  <2>2. ToDevice = front \o (rest \o down)
    <3>1. front \in Seq(I) /\ rest \in Seq(I) /\ down \in Seq(I)
      BY <1>1, <1>6
    <3>2. (front \o rest) \o down = front \o (rest \o down)
      BY <3>1, ConcatAssociative
    <3> QED BY <1>6, <3>2 DEF ToDevice
  <2>3. Len(front) # 0 /\ front \in Seq(I) /\ ToDevice = front \o ToDevice'
    BY <1>4, <1>6, <2>1, <2>2
  <2>4. ToDevice \in Seq(I) /\ Dropped(ToDevice, Len(front), ToDevice') /\ Begins(ToDevice, front)
    BY <2>1, <2>3, FrontDropped
  <2> QED BY <1>6, <2>1, <2>4 DEF Begins
<1>8. \A k \in 1 .. at - 1 : ToDevice[k] \notin Ends
  BY <1>4, <1>7 DEF Ends
<1>9. /\ \A r \in Good(ToDevice, RequestParts, Ends) :
             \/ r \in Good(ToDevice', RequestParts, Ends)
             \/ \E j \in at .. Len(ToDevice) : Lies(ToDevice, 1, j, r, RequestParts, Ends)
      /\ Open(ToDevice', Ends) => Open(ToDevice, Ends)
  BY <1>7, <1>8, ItemsTaken, RequestsFramed
<1>10. ASSUME NEW r \in Nat, NEW j \in at .. Len(ToDevice), Lies(ToDevice, 1, j, r, RequestParts, Ends)
       PROVE  Whole /\ q = r
  <2>1. j \in 1 .. Len(ToDevice) /\ \A k \in 1 .. j - 1 : ToDevice[k] \notin Ends
    BY <1>7, <1>10, FrameEnds, RequestsFramed
  <2>2. ToDevice[at] \in Ends
    BY <1>4, <1>7 DEF Ends
  <2>3. j = at
    BY <1>4, <1>10, <2>1, <2>2
  <2>4. \A k \in 1 .. at : <<r, k - 1 + 1, at - 1 + 1, ToDevice[k]>> \in RequestParts
    BY <1>10, <2>3 DEF Lies
  <2>5. \A k \in 1 .. at : at = 3 /\ rx[k] = L!Pieces(r)[k]
    <3> SUFFICES ASSUME NEW k \in 1 .. at PROVE at = 3 /\ rx[k] = L!Pieces(r)[k]
      OBVIOUS
    <3>1. <<r, k - 1 + 1, at - 1 + 1, rx[k]>> \in RequestParts
      BY <1>7, <2>4
    <3>2. k - 1 + 1 = k /\ at - 1 + 1 = at
      BY <1>4
    <3>3. <<r, k, at, rx[k]>> \in RequestParts
      BY <3>1, <3>2
    <3> QED BY <3>3 DEF RequestParts
  <2>6. at = 3 /\ 1 \in 1 .. at
    BY <1>4, <2>5
  <2>7. q = r
    <3>1. rx[1] = L!Pieces(r)[1]
      BY <2>5, <2>6
    <3>2. L!Pieces(r)[1].of = r
      BY DEF L!Pieces
    <3> QED BY <3>1, <3>2
  <2>8. front = L!Pieces(r)
    <3>1. \A k \in 1 .. 3 : front[k] = L!Pieces(r)[k] /\ front[k] \in I
      <4> SUFFICES ASSUME NEW k \in 1 .. 3 PROVE front[k] = L!Pieces(r)[k] /\ front[k] \in I
        OBVIOUS
      <4>1. k \in 1 .. at /\ k \in 1 .. Len(front)
        BY <1>6, <2>6
      <4>2. front[k] = rx[k] /\ rx[k] = L!Pieces(r)[k]
        BY <1>6, <2>5, <4>1
      <4>3. front[k] \in I
        BY <1>6, <4>1
      <4> QED BY <4>2, <4>3
    <3>2. L!Pieces(r)[1] \in I /\ L!Pieces(r)[2] \in I /\ L!Pieces(r)[3] \in I
      BY <3>1
    <3>3. L!Pieces(r) = <<L!Pieces(r)[1], L!Pieces(r)[2], L!Pieces(r)[3]>>
      BY DEF L!Pieces
    <3>4. L!Pieces(r) \in Seq(I) /\ Len(L!Pieces(r)) = 3
      <4> DEFINE x == L!Pieces(r)[1]  y == L!Pieces(r)[2]  z == L!Pieces(r)[3]
      <4>1. x \in I /\ y \in I /\ z \in I /\ L!Pieces(r) = <<x, y, z>>
        BY <3>2, <3>3
      <4> HIDE DEF x, y, z
      <4> QED BY <4>1
    <3>5. Len(front) = Len(L!Pieces(r)) /\ \A k \in 1 .. Len(front) : front[k] = L!Pieces(r)[k]
      BY <1>6, <2>6, <3>1, <3>4
    <3> QED BY <1>6, <3>4, <3>5, SeqEqual
  <2> QED BY <2>6, <2>7, <2>8
<1>11. Ends' = Ends /\ Lasts' = Lasts /\ RequestParts' = RequestParts /\ AnswerParts' = AnswerParts /\ L!Unanswered' = L!Unanswered
  BY <1>2 DEF L!Unanswered
<1>12. Joins' \in Nat
  BY DEF Joins, Joined
<1> DEFINE GD == Good(ToDevice, RequestParts, Ends)
           GC == Good(ToClient, AnswerParts, Lasts)
<1>13. CASE ~Whole
  <2>1. ToClient' = ToClient
    BY <1>2, <1>5, <1>13 DEF ToClient
  <2>2. GD \subseteq GD'
    BY <1>9, <1>10, <1>11, <1>13 DEF Good
  <2>3. Lost' \subseteq Lost
    BY <1>11, <2>1, <2>2 DEF Lost
  <2>4. Joins' <= Joins
    BY <1>9, <1>11, <2>1 DEF Joins, Joined
  <2>5. Paid'
    BY <1>2, <1>12, <2>3, <2>4, JoinPays
  <2> QED BY <1>1, <1>3, <2>5 DEF DamageInv
<1>14. CASE Whole
  <2>1. PICK size \in Fragments : up' = up \o L!Answer(q, size)
    BY <1>5, <1>14
  <2>2. q \in 1 .. sent
    <3>1. rx[1] \in I /\ rx[1] # L!Zero
      BY <1>1, <1>4, <1>14
    <3>2. rx[1] \in [of : 1 .. sent, part : {"head", "tail"}, good : BOOLEAN]
      BY <3>1 DEF I, ItemTo
    <3> QED BY <3>2
  <2> DEFINE a == L!Answer(q, size)
  <2>3. size \in Nat \ {0} /\ q \in Nat \ {0} /\ L!SeqOfRequest(q) \in Nat
    <3>1. size \in Nat \ {0} /\ q \in Nat \ {0}
      BY <1>1, <2>2, LineAssumption DEF L!LinkAssumption
    <3>2. SeqNumbers \in Nat \ {0} /\ q - 1 \in Nat
      BY <3>1, LineAssumption DEF L!LinkAssumption
    <3> QED BY <3>1, <3>2 DEF L!SeqOfRequest
  <2>4. \A k \in 1 .. size : [seq |-> L!SeqOfRequest(q), of |-> q, n |-> k, last |-> k = size] \in F
    BY <2>2, <2>3 DEF F, FrameTo, AnswerFrame
  <2>5. a \in Seq(F) /\ Len(a) = size
        /\ \A k \in 1 .. size : a[k] = [seq |-> L!SeqOfRequest(q), of |-> q, n |-> k, last |-> k = size]
    BY <2>3, <2>4 DEF L!Answer
  <2>6. \A k \in 1 .. size : <<q, k, size, a[k]>> \in AnswerParts
    <3> SUFFICES ASSUME NEW k \in 1 .. size PROVE <<q, k, size, a[k]>> \in AnswerParts
      OBVIOUS
    <3>1. a[k] = [seq |-> L!SeqOfRequest(q), of |-> q, n |-> k, last |-> k = size]
      BY <2>5
    <3>2. q \in Nat \ {0} /\ k \in Nat /\ size \in Fragments
      BY <2>3
    <3> HIDE DEF a, q
    <3> QED BY <3>1, <3>2 DEF AnswerParts
  <2>7. a[size] \in Lasts
    <3>1. <<q, size, size, a[size]>> \in AnswerParts
      BY <2>3, <2>6
    <3> QED BY <3>1, AnswerIs DEF Lasts
  <2> HIDE DEF a, q, Whole
  <2>8. ToClient' = ToClient \o a
    <3>1. defrag.buffer \in Seq(F) /\ up \in Seq(F) /\ a \in Seq(F)
      BY <1>1, <2>5
    <3>2. (defrag.buffer \o up) \o a = defrag.buffer \o (up \o a)
      <4> DEFINE b == defrag.buffer
      <4>1. b \in Seq(F)
        BY <3>1
      <4> HIDE DEF b
      <4>2. (b \o up) \o a = b \o (up \o a)
        BY <3>1, <4>1, ConcatAssociative
      <4> QED BY <4>2 DEF b
    <3> QED BY <1>2, <2>1, <3>2 DEF ToClient, a
  <2>9. GC \subseteq GC' /\ ~Open(ToClient', Lasts)
    <3>1. Len(a) # 0 /\ a[Len(a)] \in Lasts
      BY <2>3, <2>5, <2>7
    <3>2. ToClient \in Seq(F) /\ a \in Seq(F)
      BY <1>1, <2>5
    <3>3. /\ Good(ToClient, AnswerParts, Lasts) \subseteq Good(ToClient', AnswerParts, Lasts)
          /\ ~Open(ToClient', Lasts)
      BY <2>8, <3>1, <3>2, StreamGrows
    <3> QED BY <1>11, <3>3
  <2>10. ~Open(ToClient, Lasts) => q \in GC'
    <3>1. Len(a) # 0 /\ \A k \in 1 .. Len(a) : <<q, k, Len(a), a[k]>> \in AnswerParts
      BY <2>3, <2>5, <2>6
    <3>2. q \in Nat /\ ToClient \in Seq(F) /\ a \in Seq(F)
      BY <1>1, <2>3, <2>5
    <3>3. ~Open(ToClient, Lasts) => q \in Good(ToClient', AnswerParts, Lasts)
      BY <2>8, <3>1, <3>2, FrameAdded
    <3> QED BY <1>11, <3>3
  <2>11. GD \subseteq GD' \cup {q}
    BY <1>9, <1>10, <1>11 DEF Good
  <2>12. Lost' \subseteq Lost \cup {q} /\ (~Open(ToClient, Lasts) => Lost' \subseteq Lost)
    BY <1>11, <2>9, <2>10, <2>11 DEF Lost
  <2>13. Joins' + 1 <= Joins \/ (Joins' <= Joins /\ Lost' \subseteq Lost)
    BY <1>9, <1>11, <2>9, <2>12 DEF Joins, Joined
  <2>14. Paid'
    BY <1>2, <1>12, <2>12, <2>13, JoinPays
  <2> QED BY <1>1, <1>3, <2>14 DEF DamageInv
<1> QED BY <1>13, <1>14

LEMMA LegacyDamage ==
    ASSUME DamageInv, L!TakeLegacy
    PROVE  DamageInv'
<1>1. LineInv'
  BY DeviceSteps DEF DamageInv
<1>2. UNCHANGED <<receiver, sent, cancelled, defrag, damage>> /\ receiver = "firmware"
  BY DEF L!TakeLegacy, L!AtLegacy, L!host, L!client
<1>3. (BufferInv /\ damage \in Nat /\ cancelled \subseteq 1 .. sent)'
  BY <1>2 DEF DamageInv, BufferInv
<1>4. Paid'
  BY <1>2 DEF Paid
<1> QED BY <1>1, <1>3, <1>4 DEF DamageInv

\* A frame of its own is an end: it closes the way to the client.
LEMMA PushDamage ==
    ASSUME DamageInv, L!Push
    PROVE  DamageInv'
<1> DEFINE F == FrameTo(sent)
           e == [seq |-> pushes, of |-> None, n |-> 1, last |-> TRUE]
           b == defrag.buffer
<1>1. LineInv /\ LineInv' /\ up \in Seq(F) /\ b \in Seq(F) /\ ToClient \in Seq(F)
  BY DeviceSteps, StreamTypes DEF DamageInv, LineInv
<1>2. UNCHANGED <<receiver, sent, got, cancelled, defrag, rx, down, damage>> /\ up' = Append(up, e)
  BY DEF L!Push, L!host, L!client
<1>3. (BufferInv /\ damage \in Nat /\ cancelled \subseteq 1 .. sent)'
  BY <1>2 DEF DamageInv, BufferInv
<1>4. e \in F /\ e \in Lasts
  <2>1. pushes \in Nat
    BY DEF DamageInv, LineInv
  <2> QED BY <2>1 DEF F, FrameTo, AnswerFrame, Lasts
<1>5. ToDevice' = ToDevice /\ Ends' = Ends /\ Lasts' = Lasts /\ RequestParts' = RequestParts /\ AnswerParts' = AnswerParts
  BY <1>2 DEF ToDevice
<1>6. L!Unanswered' = L!Unanswered
  BY <1>2 DEF L!Unanswered
<1> HIDE DEF e, F
<1>7. <<e>> \in Seq(F) /\ up' = up \o <<e>>
  BY <1>1, <1>2, <1>4, AppendIsConcat
<1>8. ToClient' = ToClient \o <<e>>
  <2>1. ToClient' = b \o up' /\ ToClient = b \o up
    BY <1>2 DEF ToClient
  <2> HIDE DEF b
  <2>2. (b \o up) \o <<e>> = b \o (up \o <<e>>)
    BY <1>1, <1>7, ConcatAssociative
  <2> QED BY <1>7, <2>1, <2>2
<1>9. Good(ToClient, AnswerParts, Lasts) \subseteq Good(ToClient', AnswerParts, Lasts) /\ ~Open(ToClient', Lasts)
  <2> DEFINE g == <<e>>
  <2>1. Len(g) # 0 /\ g[Len(g)] \in Lasts /\ g \in Seq(F) /\ ToClient' = ToClient \o g
    BY <1>4, <1>7, <1>8
  <2> HIDE DEF g
  <2> QED BY <1>1, <2>1, StreamGrows
<1>10. Lost' \subseteq Lost
  BY <1>5, <1>6, <1>9 DEF Lost
<1>11. Joins' <= Joins /\ Joins' \in Nat
  BY <1>5, <1>9 DEF Joins, Joined
<1>12. Paid'
  BY <1>2, <1>10, <1>11, JoinPays
<1> QED BY <1>1, <1>3, <1>12 DEF DamageInv

\* The client takes a frame.  It joins the ones kept before it, or they all go: a good answer goes
\* only when it is complete.
LEMMA ReceiveDamage ==
    ASSUME DamageInv, L!Receive
    PROVE  DamageInv'
<1> DEFINE F == FrameTo(sent)
           f == Head(up)
           b == defrag.buffer
           t == Tail(up)
           all == Append(b, f)
           n == Len(all)
           fed == L!Feed(f)
           m == fed.message
           Joining == ~L!Whole(f) /\ defrag.seq \in {None, f.seq} /\ ~f.last
           GC == Good(ToClient, AnswerParts, Lasts)
<1>1. /\ LineInv /\ LineInv' /\ BufferInv /\ up \in Seq(F) /\ up # <<>> /\ b \in Seq(F) /\ ToClient \in Seq(F)
  BY ReceiveStep, StreamTypes DEF DamageInv, LineInv, L!Receive
<1>2. /\ UNCHANGED <<receiver, sent, cancelled, rx, down, damage>> /\ up' = t /\ defrag' = fed.defrag
      /\ IF m = <<>> \/ m[1].of = None THEN got' = got
         ELSE got' = IF L!Complete(m) THEN got \cup {m[1].of} ELSE got
  BY DEF L!Receive
<1>3. /\ \/ fed = [defrag |-> L!Reset, message |-> <<f>>] /\ L!Whole(f)
         \/ fed = [defrag |-> L!Reset, message |-> <<>>] /\ ~L!Whole(f) /\ defrag.seq \notin {None, f.seq}
         \/ fed = [defrag |-> L!Reset, message |-> all] /\ ~L!Whole(f) /\ f.last
         \/ fed = [defrag |-> [seq |-> f.seq, buffer |-> all], message |-> <<>>] /\ Joining
      /\ Joining => fed = [defrag |-> [seq |-> f.seq, buffer |-> all], message |-> <<>>]
  BY DEF L!Feed
<1>4. f \in F /\ t \in Seq(F) /\ up = <<f>> \o t
  <2>1. f \in F /\ t \in Seq(F) /\ Len(t) = Len(up) - 1 /\ \A i \in 1 .. Len(t) : t[i] = up[i + 1]
    BY <1>1, HeadTailProperties
  <2>2. f = up[1] /\ Len(up) \in Nat \ {0}
    BY <1>1
  <2> HIDE DEF F, f, t
  <2> DEFINE g == <<f>>
  <2>3. g \in Seq(F) /\ Len(g) = 1 /\ g[1] = f
    BY <2>1
  <2> HIDE DEF g
  <2>4. /\ g \o t \in Seq(F) /\ Len(g \o t) = Len(up)
        /\ \A k \in 1 .. Len(g \o t) : (g \o t)[k] = IF k <= 1 THEN g[k] ELSE t[k - 1]
    <3>1. /\ g \o t \in Seq(F) /\ Len(g \o t) = Len(g) + Len(t)
          /\ \A k \in 1 .. Len(g \o t) : (g \o t)[k] = IF k <= Len(g) THEN g[k] ELSE t[k - Len(g)]
      <4>1. g \in Seq(F) /\ t \in Seq(F)
        BY <2>1, <2>3
      <4> QED BY <4>1, ConcatIs
    <3>2. Len(g) + Len(t) = Len(up)
      BY <2>1, <2>2, <2>3
    <3> QED BY <2>3, <3>1, <3>2
  <2>5. \A k \in 1 .. Len(up) : (g \o t)[k] = up[k]
    <3> SUFFICES ASSUME NEW k \in 1 .. Len(up) PROVE (g \o t)[k] = up[k]
      OBVIOUS
    <3>1. CASE k = 1
      BY <2>2, <2>3, <2>4, <3>1
    <3>2. CASE k # 1
      <4>1. k - 1 \in 1 .. Len(t) /\ ~(k <= 1) /\ (k - 1) + 1 = k
        BY <2>1, <2>2, <3>2
      <4>2. t[k - 1] = up[(k - 1) + 1]
        BY <2>1, <4>1
      <4> QED BY <2>4, <4>1, <4>2
    <3> QED BY <3>1, <3>2
  <2>6. up = g \o t
    BY <1>1, <2>4, <2>5, SeqEqual
  <2> QED BY <2>1, <2>6 DEF g
<1>5. f.seq \in Nat /\ f.seq # None
  <2>1. f.seq \in Nat
    BY <1>4 DEF F, FrameTo, AnswerFrame
  <2> QED BY <2>1, LineAssumption DEF L!LinkAssumption
<1>6. /\ defrag.seq = None <=> b = <<>>
      /\ \A i \in 1 .. Len(b) : ~b[i].last /\ b[i].seq = defrag.seq
      /\ ToClient = b \o up
  BY <1>1 DEF BufferInv, ToClient
<1> HIDE DEF F, f, b, t, fed, m
<1>7. /\ all \in Seq(F) /\ n = Len(b) + 1 /\ Len(b) \in Nat /\ all # <<>> /\ all[n] = f
      /\ \A i \in 1 .. Len(b) : all[i] = b[i]
      /\ all = b \o <<f>> /\ <<f>> \in Seq(F)
  BY <1>1, <1>4, AppendProperties, AppendIsConcat
<1> HIDE DEF all
<1>8. ToClient = all \o t
  <2> DEFINE g == <<f>>
  <2>1. g \in Seq(F) /\ all = b \o g /\ up = g \o t
    BY <1>4, <1>7
  <2> HIDE DEF g
  <2>2. (b \o g) \o t = b \o (g \o t)
    BY <1>1, <1>4, <2>1, ConcatAssociative
  <2> QED BY <1>6, <2>1, <2>2
<1>9. ToDevice' = ToDevice /\ Ends' = Ends /\ Lasts' = Lasts /\ RequestParts' = RequestParts /\ AnswerParts' = AnswerParts
  BY <1>2 DEF ToDevice
<1>10. got \subseteq got' /\ Joins' \in Nat
  BY <1>2 DEF Joins, Joined
<1>11. CASE Joining
  <2>1. defrag' = [seq |-> f.seq, buffer |-> all] /\ m = <<>>
    BY <1>2, <1>3, <1>11 DEF m
  <2>2. \A i \in 1 .. n : ~all[i].last /\ all[i].seq = f.seq
    <3> SUFFICES ASSUME NEW i \in 1 .. n PROVE ~all[i].last /\ all[i].seq = f.seq
      OBVIOUS
    <3>1. CASE i = n
      BY <1>7, <1>11, <3>1
    <3>2. CASE i # n
      <4>1. i \in 1 .. Len(b) /\ all[i] = b[i]
        BY <1>7, <3>2
      <4>2. b # <<>> /\ ~b[i].last /\ b[i].seq = defrag.seq
        <5>1. Len(b) # 0
          BY <1>7, <4>1
        <5> QED BY <1>6, <4>1, <5>1
      <4>3. defrag.seq = f.seq
        BY <1>6, <1>11, <4>2
      <4> QED BY <4>1, <4>2, <4>3
    <3> QED BY <3>1, <3>2
  <2>3. BufferInv'
    <3>1. defrag'.seq = f.seq /\ defrag'.buffer = all /\ DOMAIN all = 1 .. n
      BY <1>7, <2>1
    <3> QED BY <1>5, <1>7, <2>2, <3>1 DEF BufferInv
  <2>4. ToClient' = ToClient /\ got' = got
    <3>1. ToClient' = all \o t
      BY <1>2, <2>1 DEF ToClient
    <3> QED BY <1>2, <1>8, <2>1, <3>1
  <2>5. Lost' = Lost /\ Joins' = Joins
    BY <1>2, <1>9, <2>4 DEF Lost, L!Unanswered, Joins
  <2>6. Paid'
    BY <1>2, <2>5 DEF DamageInv, Paid
  <2> QED BY <1>1, <1>2, <2>3, <2>6 DEF DamageInv
<1>12. CASE ~Joining
  <2>1. defrag' = L!Reset
    BY <1>2, <1>3, <1>12
  <2>2. BufferInv'
    BY <2>1 DEF BufferInv, L!Reset
  <2>3. ToClient' = t
    <3>1. ToClient' = <<>> \o t
      BY <1>2, <2>1 DEF ToClient, L!Reset
    <3> QED BY <1>4, <3>1
  <2>4. Dropped(ToClient, n, t) /\ \A k \in 1 .. n : ToClient[k] = all[k]
    <3>1. Dropped(ToClient, n, t) /\ Begins(ToClient, all)
      <4>1. n # 0 /\ all \in Seq(F) /\ t \in Seq(F)
        BY <1>4, <1>7
      <4> QED BY <1>8, <4>1, FrontDropped
    <3> QED BY <3>1 DEF Begins
  <2>5. \A k \in 1 .. n - 1 : ToClient[k] \notin Lasts
    <3> SUFFICES ASSUME NEW k \in 1 .. n - 1 PROVE ToClient[k] \notin Lasts
      OBVIOUS
    <3>1. k \in 1 .. n /\ k \in 1 .. Len(b)
      BY <1>7
    <3>2. ToClient[k] = b[k] /\ ~b[k].last
      BY <1>1, <1>6, <1>7, <2>4, <3>1
    <3> QED BY <3>2 DEF Lasts
  <2>6. /\ \A r \in GC : r \in GC' \/ \E j \in n .. Len(ToClient) : Lies(ToClient, 1, j, r, AnswerParts, Lasts)
        /\ Open(ToClient', Lasts) => Open(ToClient, Lasts)
    <3>1. /\ \A r \in Good(ToClient, AnswerParts, Lasts) :
                 \/ r \in Good(t, AnswerParts, Lasts)
                 \/ \E j \in n .. Len(ToClient) : Lies(ToClient, 1, j, r, AnswerParts, Lasts)
          /\ Open(t, Lasts) => Open(ToClient, Lasts)
      BY <1>1, <1>4, <2>4, <2>5, ItemsTaken, AnswersFramed
    <3> QED BY <1>9, <2>3, <3>1
  <2>7. ASSUME NEW r, NEW j \in n .. Len(ToClient), Lies(ToClient, 1, j, r, AnswerParts, Lasts)
        PROVE  r \in got'
    <3>1. ASSUME NEW k \in 1 .. n
          PROVE  /\ r \in Nat \ {0} /\ all[k].seq = L!SeqOfRequest(r) /\ all[k].of = r /\ all[k].n = k
                 /\ all[k].last <=> k = j
      <4>1. k \in 1 .. j /\ k - 1 + 1 = k /\ j - 1 + 1 = j
        BY <1>7
      <4>2. <<r, k - 1 + 1, j - 1 + 1, ToClient[k]>> \in AnswerParts
        BY <2>7, <4>1 DEF Lies
      <4>3. <<r, k, j, all[k]>> \in AnswerParts
        BY <2>4, <4>1, <4>2
      <4> QED BY <4>3, AnswerIs
    <3>2. /\ 1 \in 1 .. n /\ n \in 1 .. n /\ r # None
          /\ f.seq = L!SeqOfRequest(r) /\ f.of = r /\ f.n = n /\ (f.last <=> n = j)
      <4>1. 1 \in 1 .. n /\ n \in 1 .. n
        BY <1>7
      <4>2. r \in Nat
        BY <3>1, <4>1
      <4> QED BY <1>7, <3>1, <4>1, <4>2, LineAssumption DEF L!LinkAssumption
    <3>3. CASE L!Whole(f)
      <4>1. m = <<f>>
        BY <1>3, <3>3 DEF m
      <4>2. f.n = 1
        BY <3>3 DEF L!Whole
      <4>3. m # <<>> /\ m[1] = f /\ DOMAIN m = {1}
        BY <4>1
      <4>4. L!Complete(m)
        BY <4>2, <4>3 DEF L!Complete
      <4> QED BY <1>2, <3>2, <4>3, <4>4
    <3>4. CASE ~L!Whole(f) /\ defrag.seq \notin {None, f.seq}
      <4>1. b # <<>>
        BY <1>1, <1>6, <3>4
      <4>2. 1 \in 1 .. Len(b)
        BY <1>1, <1>7, <4>1
      <4>3. b[1].seq = defrag.seq /\ b[1].seq = f.seq
        <5>1. b[1].seq = defrag.seq /\ all[1] = b[1]
          BY <1>6, <1>7, <4>2
        <5>2. all[1].seq = f.seq
          BY <3>1, <3>2
        <5> QED BY <5>1, <5>2
      <4> QED BY <3>4, <4>3
    <3>5. CASE ~L!Whole(f) /\ defrag.seq \in {None, f.seq}
      <4>1. m = all
        BY <1>3, <1>12, <3>5 DEF m
      <4>2. m # <<>> /\ DOMAIN m = 1 .. n
        BY <1>7, <4>1
      <4>3. \A k \in 1 .. n : m[k].of = r /\ m[k].n = k
        BY <3>1, <4>1
      <4>4. L!Complete(m)
        BY <3>2, <4>2, <4>3 DEF L!Complete
      <4> QED BY <1>2, <3>2, <4>2, <4>3, <4>4
    <3> QED BY <3>3, <3>4, <3>5
  <2>8. \A r \in GC : r \in GC' \/ r \in got'
    BY <2>6, <2>7
  <2>9. Lost' \subseteq Lost
    BY <1>2, <1>9, <1>10, <2>8 DEF Lost, L!Unanswered
  <2>10. Joins' <= Joins
    BY <1>9, <2>6 DEF Joins, Joined
  <2>11. Paid'
    BY <1>2, <1>10, <2>9, <2>10, JoinPays
  <2> QED BY <1>1, <1>2, <2>2, <2>11 DEF DamageInv
<1> QED BY <1>11, <1>12

LEMMA DamageStep == DamageInv /\ [PartsNext]_allVars => DamageInv'
<1> SUFFICES ASSUME DamageInv, [PartsNext]_allVars PROVE DamageInv'
  OBVIOUS
<1>1. L!Next \/ UNCHANGED linkVars
  BY PartsAreApart
<1>2. CASE UNCHANGED linkVars
  BY <1>2, GiveUpOrRead
<1>3. CASE L!Next
  BY <1>3, LoseSteps, DisturbSteps, GiveUpOrRead, SendDamage, TakeFrameDamage, LegacyDamage, PushDamage, ReceiveDamage
     DEF L!Next
<1> QED BY <1>1, <1>2, <1>3

LEMMA DamageInit == PartsInit => DamageInv
<1> SUFFICES ASSUME PartsInit PROVE DamageInv
  OBVIOUS
<1>1. LineInv
  BY LinkInit
<1>2. /\ sent = 0 /\ cancelled = {} /\ damage = 0 /\ down = <<>> /\ rx = <<>> /\ up = <<>>
      /\ defrag.seq = None /\ defrag.buffer = <<>>
  BY DEF PartsInit, L!Init
<1>3. BufferInv /\ damage \in Nat /\ cancelled \subseteq 1 .. sent
  BY <1>2 DEF BufferInv
<1>4. ToDevice = <<>> /\ ToClient = <<>>
  BY <1>2 DEF ToDevice, ToClient
<1>5. Joins = 0
  BY <1>4 DEF Joins, Joined, Open
<1>6. Lost = {}
  <2>1. 1 .. sent = {}
    BY <1>2
  <2> QED BY <2>1 DEF Lost, L!Unanswered
<1>7. Cardinality(Lost) = 0 /\ Cardinality(cancelled) = 0
  BY <1>2, <1>6, FS_EmptySet
<1>8. Paid
  BY <1>2, <1>5, <1>7 DEF Paid
<1> QED BY <1>1, <1>3, <1>8 DEF DamageInv

\* When nothing is left to do no frame is whole, and what is lost is what is unanswered.
LEMMA QuietLost ==
    ASSUME DamageInv, receiver = "simulator", L!Quiet
    PROVE  Lost = L!Unanswered
<1> DEFINE I == ItemTo(sent)  F == FrameTo(sent)  b == defrag.buffer
<1>1. ToDevice \in Seq(I) /\ ToClient \in Seq(F) /\ rx \in Seq(I) /\ b \in Seq(F) /\ BufferInv
  BY StreamTypes DEF DamageInv, LineInv
<1>2. down = <<>> /\ up = <<>> /\ L!Zeros(rx) = {}
  BY DEF L!Quiet, L!Busy, L!AtLegacy
<1>3. \A k \in 1 .. Len(ToDevice) : ToDevice[k] \notin Ends
  <2>1. ToDevice = rx
    BY <1>1, <1>2 DEF ToDevice
  <2>2. DOMAIN rx = 1 .. Len(rx)
    BY <1>1
  <2> QED BY <1>2, <2>1, <2>2 DEF L!Zeros, Ends
<1>4. \A k \in 1 .. Len(ToClient) : ToClient[k] \notin Lasts
  <2>1. ToClient = b
    BY <1>1, <1>2 DEF ToClient
  <2>2. DOMAIN b = 1 .. Len(b)
    BY <1>1
  <2> QED BY <1>1, <2>1, <2>2 DEF BufferInv, Lasts
<1> HIDE DEF I, F, b
<1>5. Good(ToDevice, RequestParts, Ends) = {}
  <2> SUFFICES ASSUME NEW r, NEW i, NEW j, Lies(ToDevice, i, j, r, RequestParts, Ends)
               PROVE  FALSE
    BY DEF Good
  <2>1. i \in 1 .. Len(ToDevice) /\ j \in i .. Len(ToDevice) /\ ToDevice[j] \in Ends
    BY <1>1, FrameEnds, RequestsFramed
  <2>2. j \in 1 .. Len(ToDevice)
    BY <2>1
  <2> QED BY <1>3, <2>1, <2>2
<1>6. Good(ToClient, AnswerParts, Lasts) = {}
  <2> SUFFICES ASSUME NEW r, NEW i, NEW j, Lies(ToClient, i, j, r, AnswerParts, Lasts)
               PROVE  FALSE
    BY DEF Good
  <2>1. i \in 1 .. Len(ToClient) /\ j \in i .. Len(ToClient) /\ ToClient[j] \in Lasts
    BY <1>1, FrameEnds, AnswersFramed
  <2>2. j \in 1 .. Len(ToClient)
    BY <2>1
  <2> QED BY <1>4, <2>1, <2>2
<1> QED BY <1>5, <1>6 DEF Lost

\* Whatever the line damages, in whatever order and interleaving, when everything under way has been
\* dealt with, each damage has cost at most two requests or answers and each write broken off at most
\* one more, for the simulator's receive loop (sim/serve.rs, cobs.rs, Defragmenter).
THEOREM DamageStaysContained == PartsSpec => []DamageIsContained
<1>1. PartsInit => DamageInv
  BY DamageInit
<1>2. DamageInv /\ [PartsNext]_allVars => DamageInv'
  BY DamageStep
<1>3. DamageInv => DamageIsContained
  <2> SUFFICES ASSUME DamageInv, receiver = "simulator", L!Quiet
               PROVE  L!Cardinality(L!Unanswered) <= 2 * damage + L!Cardinality(cancelled)
    BY DEF DamageIsContained, L!DamageIsContained, L!Contained
  <2>1. Lost = L!Unanswered
    BY QuietLost
  <2>2. Cardinality(Lost) + Joins <= 2 * damage + Cardinality(cancelled)
    BY DEF DamageInv, Paid
  <2>3. Cardinality(Lost) \in Nat /\ Cardinality(cancelled) \in Nat /\ damage \in Nat /\ Joins \in Nat
    BY CountsTypes, JoinsType DEF DamageInv
  <2> DEFINE l == Cardinality(Lost)  c == Cardinality(cancelled)
  <2>4. l + Joins <= 2 * damage + c /\ l \in Nat /\ c \in Nat
    BY <2>2, <2>3
  <2> HIDE DEF l, c
  <2>5. l <= 2 * damage + c
    BY <2>3, <2>4
  <2> QED BY <2>1, <2>5, LinkCardinality DEF l, c
<1> QED BY <1>1, <1>2, <1>3, PTL DEF PartsSpec

----------------------------------------------------------------------------
(* Faults: what a sequence of messages says last of a fault.               *)

Tells(e, c) == e.kind \in {"FaultSet", "FaultCleared"} /\ e.code = c

\* No entry of s that is the last one about c says anything but that c is active exactly if b.
Right(s, c, b) ==
    \A i \in About(s, c) : (\E j \in About(s, c) : j > i) \/ (s[i].kind = "FaultSet" <=> b)
Silent(s, c) == About(s, c) = {}

LEMMA SaidByConcat ==
    ASSUME NEW A, NEW s \in Seq(A), NEW t \in Seq(A), NEW c, NEW b \in BOOLEAN
    PROVE  /\ Silent(s \o t, c) <=> Silent(s, c) /\ Silent(t, c)
           /\ Right(s \o t, c, b) <=> Right(t, c, b) /\ (Silent(t, c) => Right(s, c, b))
<1> DEFINE r == s \o t
           m == Len(s)  n == Len(t)
<1>1. /\ m \in Nat /\ n \in Nat
      /\ DOMAIN s = 1 .. m /\ DOMAIN t = 1 .. n /\ DOMAIN r = 1 .. m + n
  BY ConcatProperties
<1>2. /\ \A i \in 1 .. m : r[i] = s[i]
      /\ \A i \in 1 .. n : r[m + i] = t[i]
  <2>1. \A i \in 1 .. m + n : r[i] = IF i <= m THEN s[i] ELSE t[i - m]
    BY ConcatProperties
  <2>2. \A i \in 1 .. m : i \in 1 .. m + n /\ i <= m
    BY <1>1
  <2>3. \A i \in 1 .. n : m + i \in 1 .. m + n /\ ~(m + i <= m) /\ (m + i) - m = i
    BY <1>1
  <2> HIDE DEF r, m, n
  <2> QED BY <2>1, <2>2, <2>3
<1> HIDE DEF r, m, n
<1>3. /\ \A i \in 1 .. m : i \in About(r, c) <=> i \in About(s, c)
      /\ \A i \in 1 .. n : m + i \in About(r, c) <=> i \in About(t, c)
  <2>1. \A i \in 1 .. m : i \in 1 .. m + n
    BY <1>1
  <2>2. \A i \in 1 .. n : m + i \in 1 .. m + n
    BY <1>1
  <2> QED BY <1>1, <1>2, <2>1, <2>2 DEF About
<1>4. /\ About(r, c) \subseteq 1 .. m + n /\ About(s, c) \subseteq 1 .. m /\ About(t, c) \subseteq 1 .. n
  BY <1>1 DEF About
<1>5. \A i \in 1 .. m + n : i \in 1 .. m \/ \E j \in 1 .. n : i = m + j
  <2> SUFFICES ASSUME NEW i \in 1 .. m + n, i \notin 1 .. m PROVE \E j \in 1 .. n : i = m + j
    OBVIOUS
  <2>1. i - m \in 1 .. n /\ i = m + (i - m)
    BY <1>1
  <2> QED BY <2>1
<1>6. Silent(r, c) <=> Silent(s, c) /\ Silent(t, c)
  BY <1>3, <1>4, <1>5 DEF Silent
<1>7. ASSUME Right(r, c, b) PROVE Right(t, c, b) /\ (Silent(t, c) => Right(s, c, b))
  <2>1. ASSUME NEW i \in About(t, c)
        PROVE  (\E j \in About(t, c) : j > i) \/ (t[i].kind = "FaultSet" <=> b)
    <3>1. i \in 1 .. n /\ m + i \in About(r, c) /\ r[m + i] = t[i]
      BY <1>2, <1>3, <1>4
    <3>2. CASE r[m + i].kind = "FaultSet" <=> b
      BY <3>1, <3>2
    <3>3. ASSUME NEW j \in About(r, c), j > m + i PROVE \E k \in About(t, c) : k > i
      <4>1. j \notin 1 .. m
        BY <1>1, <3>1, <3>3
      <4>2. PICK k \in 1 .. n : j = m + k
        BY <1>4, <1>5, <4>1
      <4>3. k \in About(t, c) /\ k > i
        BY <1>1, <1>3, <3>1, <3>3, <4>2
      <4> QED BY <4>3
    <3> QED BY <1>7, <3>1, <3>2, <3>3 DEF Right
  <2>2. ASSUME Silent(t, c), NEW i \in About(s, c)
        PROVE  (\E j \in About(s, c) : j > i) \/ (s[i].kind = "FaultSet" <=> b)
    <3>1. i \in 1 .. m /\ i \in About(r, c) /\ r[i] = s[i]
      BY <1>2, <1>3, <1>4
    <3>2. CASE r[i].kind = "FaultSet" <=> b
      BY <3>1, <3>2
    <3>3. ASSUME NEW j \in About(r, c), j > i PROVE j \in About(s, c)
      BY <1>3, <1>4, <1>5, <2>2 DEF Silent
    <3> QED BY <1>7, <3>1, <3>2, <3>3 DEF Right
  <2> QED BY <2>1, <2>2 DEF Right
<1>8. ASSUME Right(t, c, b), Silent(t, c) => Right(s, c, b) PROVE Right(r, c, b)
  <2> SUFFICES ASSUME NEW i \in About(r, c)
               PROVE  (\E j \in About(r, c) : j > i) \/ (r[i].kind = "FaultSet" <=> b)
    BY DEF Right
  <2>1. CASE i \in 1 .. m
    <3>1. i \in About(s, c) /\ r[i] = s[i]
      BY <1>2, <1>3, <2>1
    <3>2. CASE Silent(t, c)
      <4>1. CASE s[i].kind = "FaultSet" <=> b
        BY <3>1, <4>1
      <4>2. CASE \E j \in About(s, c) : j > i
        BY <1>3, <1>4, <4>2
      <4> QED BY <1>8, <3>1, <3>2, <4>1, <4>2 DEF Right
    <3>3. CASE ~Silent(t, c)
      <4>1. PICK k \in About(t, c) : TRUE
        BY <3>3 DEF Silent
      <4>2. k \in 1 .. n /\ m + k \in About(r, c)
        BY <1>3, <1>4
      <4>3. m + k > i
        BY <1>1, <2>1, <4>2
      <4> QED BY <4>2, <4>3
    <3> QED BY <3>2, <3>3
  <2>2. CASE i \notin 1 .. m
    <3>1. PICK k \in 1 .. n : i = m + k
      BY <1>4, <1>5, <2>2
    <3>2. k \in About(t, c) /\ r[i] = t[k]
      BY <1>2, <1>3, <3>1
    <3>3. CASE t[k].kind = "FaultSet" <=> b
      BY <3>2, <3>3
    <3>4. ASSUME NEW j \in About(t, c), j > k PROVE m + j \in About(r, c) /\ m + j > i
      BY <1>1, <1>3, <1>4, <3>1, <3>4
    <3> QED BY <1>8, <3>2, <3>3, <3>4 DEF Right
  <2> QED BY <2>1, <2>2
<1> QED BY <1>6, <1>7, <1>8 DEF r

LEMMA SaidByOne ==
    ASSUME NEW e, NEW c, NEW b \in BOOLEAN
    PROVE  /\ Silent(<<e>>, c) <=> ~Tells(e, c)
           /\ Right(<<e>>, c, b) <=> (Tells(e, c) => (e.kind = "FaultSet" <=> b))
<1>1. About(<<e>>, c) = IF Tells(e, c) THEN {1} ELSE {}
  BY DEF About, Tells
<1>2. ~(1 > 1)
  OBVIOUS
<1> QED BY <1>1, <1>2 DEF Silent, Right

LEMMA SaidByAppend ==
    ASSUME NEW A, NEW s \in Seq(A), NEW e \in A, NEW c, NEW b \in BOOLEAN
    PROVE  /\ Silent(Append(s, e), c) <=> Silent(s, c) /\ ~Tells(e, c)
           /\ Right(Append(s, e), c, b) <=> IF Tells(e, c) THEN (e.kind = "FaultSet" <=> b) ELSE Right(s, c, b)
<1>1. Append(s, e) = s \o <<e>> /\ <<e>> \in Seq(A)
  BY AppendIsConcat
<1> DEFINE r == s \o <<e>>  o == <<e>>
<1>2. /\ Silent(r, c) <=> Silent(s, c) /\ Silent(o, c)
      /\ Right(r, c, b) <=> Right(o, c, b) /\ (Silent(o, c) => Right(s, c, b))
  BY <1>1, SaidByConcat, ZenonT(30)
<1>3. /\ Silent(o, c) <=> ~Tells(e, c)
      /\ Right(o, c, b) <=> (Tells(e, c) => (e.kind = "FaultSet" <=> b))
  BY SaidByOne
<1>4. Append(s, e) = r
  BY <1>1
<1> HIDE DEF r, o
<1> QED BY <1>2, <1>3, <1>4

LEMMA SaidByTail ==
    ASSUME NEW A, NEW s \in Seq(A), s # <<>>, NEW c, NEW b \in BOOLEAN
    PROVE  /\ Silent(s, c) <=> Silent(Tail(s), c) /\ ~Tells(Head(s), c)
           /\ Right(s, c, b) <=> /\ Right(Tail(s), c, b)
                                 /\ Silent(Tail(s), c) /\ Tells(Head(s), c) => (Head(s).kind = "FaultSet" <=> b)
<1>1. s = <<Head(s)>> \o Tail(s) /\ <<Head(s)>> \in Seq(A) /\ Tail(s) \in Seq(A)
  <2>1. Head(s) \in A /\ Tail(s) \in Seq(A)
    BY HeadTailProperties
  <2>2. s = <<Head(s)>> \o Tail(s)
    OBVIOUS
  <2> QED BY <2>1, <2>2
<1> DEFINE h == Head(s)  t == Tail(s)  o == <<h>>
<1>2. /\ Silent(o \o t, c) <=> Silent(o, c) /\ Silent(t, c)
      /\ Right(o \o t, c, b) <=> Right(t, c, b) /\ (Silent(t, c) => Right(o, c, b))
  BY <1>1, SaidByConcat, ZenonT(30)
<1>3. /\ Silent(o, c) <=> ~Tells(h, c)
      /\ Right(o, c, b) <=> (Tells(h, c) => (h.kind = "FaultSet" <=> b))
  BY SaidByOne
<1>4. s = o \o t
  BY <1>1
<1> HIDE DEF h, t, o
<1>5. /\ Silent(s, c) <=> Silent(o, c) /\ Silent(t, c)
      /\ Right(s, c, b) <=> Right(t, c, b) /\ (Silent(t, c) => Right(o, c, b))
  BY <1>2, <1>4, Zenon
<1>6. /\ Silent(s, c) <=> Silent(t, c) /\ ~Tells(h, c)
      /\ Right(s, c, b) <=> /\ Right(t, c, b)
                            /\ Silent(t, c) /\ Tells(h, c) => (h.kind = "FaultSet" <=> b)
  BY <1>3, <1>5
<1> QED BY <1>6 DEF h, t

----------------------------------------------------------------------------
(* The store: what its operations do to the active faults and the codes.   *)

LEMMA ActiveAfterSet ==
    ASSUME records \in Seq(Record), NEW c \in Code, NEW on \in BOOLEAN
    PROVE  LET r == SetActive(c, on)
           IN /\ r \in Seq(Record) /\ DOMAIN r = DOMAIN records
              /\ \A i \in DOMAIN records : r[i].code = records[i].code
              /\ ActiveIn(r) = IF on /\ c \in Codes(records) THEN ActiveIn(records) \cup {c}
                               ELSE ActiveIn(records) \ {c}
<1> DEFINE r == SetActive(c, on)
<1>1. DOMAIN records = 1 .. Len(records) /\ Len(records) \in Nat
  OBVIOUS
<1>2. \A i \in DOMAIN records : records[i] \in Record
  OBVIOUS
<1>3. /\ DOMAIN r = DOMAIN records
      /\ \A i \in DOMAIN records :
            /\ r[i] \in Record /\ r[i].code = records[i].code
            /\ r[i].active = IF records[i].code = c THEN on ELSE records[i].active
  BY <1>2 DEF SetActive, Record
<1>4. r \in Seq(Record)
  BY <1>1, <1>3 DEF SetActive
<1> HIDE DEF r
<1>5. \A x : x \in ActiveIn(r) <=> \E i \in DOMAIN records : r[i].active /\ r[i].code = x
  BY <1>3 DEF ActiveIn
<1>6. \A x : x \in ActiveIn(records) <=> \E i \in DOMAIN records : records[i].active /\ records[i].code = x
  BY DEF ActiveIn
<1>7. \A x : x \in Codes(records) <=> \E i \in DOMAIN records : records[i].code = x
  BY DEF Codes
<1>8. \A x : x # c => (x \in ActiveIn(r) <=> x \in ActiveIn(records))
  BY <1>3, <1>5, <1>6
<1>9. c \in ActiveIn(r) <=> on /\ c \in Codes(records)
  BY <1>3, <1>5, <1>7
<1>10. ActiveIn(r) = IF on /\ c \in Codes(records) THEN ActiveIn(records) \cup {c}
                     ELSE ActiveIn(records) \ {c}
  BY <1>8, <1>9
<1> QED BY <1>3, <1>4, <1>10 DEF r

LEMMA ActiveAfterAppend ==
    ASSUME records \in Seq(Record), NEW c \in Code
    PROVE  LET r == Append(records, [code |-> c, active |-> TRUE])
           IN /\ r \in Seq(Record)
              /\ \A i \in DOMAIN records : i \in DOMAIN r /\ r[i] = records[i]
              /\ ActiveIn(r) = ActiveIn(records) \cup {c} /\ c \in Codes(r)
<1> DEFINE e == [code |-> c, active |-> TRUE]
           r == Append(records, e)  n == Len(records)
<1>1. e \in Record /\ e.code = c /\ e.active
  BY DEF Record
<1> HIDE DEF e
<1>2. /\ r \in Seq(Record) /\ n \in Nat
      /\ DOMAIN records = 1 .. n /\ DOMAIN r = 1 .. n + 1
      /\ r[n + 1] = e /\ \A i \in 1 .. n : r[i] = records[i]
  BY <1>1, AppendProperties
<1> HIDE DEF r, n
<1>3. \A i \in 1 .. n + 1 : i \in 1 .. n \/ i = n + 1
  BY <1>2
<1>4. n + 1 \in 1 .. n + 1 /\ \A i \in 1 .. n : i \in 1 .. n + 1
  BY <1>2
<1>5. \A x : x \in ActiveIn(r) <=> \E i \in 1 .. n + 1 : r[i].active /\ r[i].code = x
  BY <1>2 DEF ActiveIn
<1>6. \A x : x \in ActiveIn(records) <=> \E i \in 1 .. n : records[i].active /\ records[i].code = x
  BY <1>2 DEF ActiveIn
<1>7. ActiveIn(r) = ActiveIn(records) \cup {c}
  BY <1>1, <1>2, <1>3, <1>4, <1>5, <1>6
<1>8. c \in Codes(r)
  BY <1>1, <1>2, <1>4 DEF Codes
<1> QED BY <1>2, <1>4, <1>7, <1>8 DEF r, e

\* Places in an ordered finite set are a bijection.
LEMMA PlaceIsOnto ==
    ASSUME NEW n \in Nat, NEW K \in SUBSET (1 .. n)
    PROVE  LET place(k) == Cardinality({j \in K : j <= k})
           IN /\ Cardinality(K) \in Nat
              /\ \A k \in K : place(k) \in 1 .. Cardinality(K)
              /\ \A k, l \in K : place(k) = place(l) => k = l
              /\ \A i \in 1 .. Cardinality(K) : \E k \in K : place(k) = i
<1> DEFINE upTo(k) == {j \in K : j <= k}
           f == [k \in K |-> Cardinality(upTo(k))]
           N == Cardinality(K)
<1>1. IsFiniteSet(K) /\ N \in Nat
  <2>1. IsFiniteSet(1 .. n)
    BY FS_Interval
  <2>2. IsFiniteSet(K)
    BY <2>1, FS_Subset
  <2> QED BY <2>2, FS_CardinalityType
<1>2. \A k \in K : IsFiniteSet(upTo(k)) /\ Cardinality(upTo(k)) \in Nat /\ Cardinality(upTo(k)) <= N
  <2> SUFFICES ASSUME NEW k \in K
               PROVE  IsFiniteSet(upTo(k)) /\ Cardinality(upTo(k)) \in Nat /\ Cardinality(upTo(k)) <= N
    OBVIOUS
  <2>1. upTo(k) \in SUBSET K
    OBVIOUS
  <2>2. IsFiniteSet(upTo(k)) /\ Cardinality(upTo(k)) <= N
    BY <1>1, <2>1, FS_Subset
  <2> QED BY <2>2, FS_CardinalityType
<1>3. \A k \in K : f[k] \in 1 .. N
  <2> SUFFICES ASSUME NEW k \in K PROVE f[k] \in 1 .. N
    OBVIOUS
  <2>1. k \in upTo(k)
    OBVIOUS
  <2>2. Cardinality(upTo(k)) # 0
    BY <1>2, <2>1, FS_EmptySet
  <2>3. f[k] = Cardinality(upTo(k)) /\ f[k] \in Nat /\ f[k] <= N /\ f[k] # 0
    BY <1>2, <2>2
  <2> HIDE DEF f, N
  <2> QED BY <1>1, <2>3
<1>4. ASSUME NEW k \in K, NEW l \in K, k < l, f[k] = f[l]
      PROVE  FALSE
  <2>1. upTo(k) \in SUBSET upTo(l) /\ l \in upTo(l) /\ l \notin upTo(k)
    <3>1. k \in Nat /\ l \in Nat /\ \A j \in K : j \in Nat
      OBVIOUS
    <3>2. \A j \in Nat : j <= k => j <= l
      BY <1>4, <3>1
    <3>3. l <= l /\ ~(l <= k)
      BY <1>4, <3>1
    <3> QED BY <3>1, <3>2, <3>3
  <2>2. Cardinality(upTo(l)) = Cardinality(upTo(k))
    BY <1>4
  <2>3. IsFiniteSet(upTo(l))
    BY <1>2
  <2> HIDE DEF upTo
  <2>4. upTo(l) = upTo(k)
    BY <2>1, <2>2, <2>3, FS_Subset
  <2> QED BY <2>1, <2>4
<1>5. \A k, l \in K : f[k] = f[l] => k = l
  <2> SUFFICES ASSUME NEW k \in K, NEW l \in K, f[k] = f[l], k # l PROVE FALSE
    OBVIOUS
  <2>1. k < l \/ l < k
    OBVIOUS
  <2> QED BY <1>4, <2>1
<1>6. f \in Injection(K, 1 .. N)
  <2>1. f \in [K -> 1 .. N]
    BY <1>3
  <2> HIDE DEF f
  <2> QED BY <1>5, <2>1, Fun_IsInj
<1>7. f \in Surjection(K, 1 .. N)
  <2>1. IsFiniteSet(1 .. N) /\ Cardinality(1 .. N) = N
    <3>1. 1 \in Int /\ N \in Int
      BY <1>1
    <3>2. IsFiniteSet(1 .. N) /\ Cardinality(1 .. N) = IF 1 > N THEN 0 ELSE N - 1 + 1
      BY <3>1, FS_Interval
    <3> HIDE DEF N
    <3> QED BY <1>1, <3>2
  <2> HIDE DEF f
  <2> QED BY <1>6, <2>1, FS_Injection
<1>8. \A i \in 1 .. N : \E k \in K : f[k] = i
  <2> HIDE DEF f
  <2> QED BY <1>7, Fun_SurjectionProperties
<1> QED BY <1>1, <1>3, <1>5, <1>8

\* The records that stay are exactly those of Kept(mask).
LEMMA ActiveAfterClear ==
    ASSUME records \in Seq(Record), NEW mask
    PROVE  /\ ClearMask(mask) \in Seq(Record)
           /\ ActiveIn(ClearMask(mask)) = ActiveIn(records)
           /\ \A c \in Codes(records) \ Codes(ClearMask(mask)) :
                 \E i \in mask : i \in DOMAIN records /\ records[i].code = c
<1> DEFINE K == Kept(mask)
           N == Cardinality(K)
           place(k) == Cardinality({j \in K : j <= k})
           At(i) == CHOOSE k \in K : place(k) = i
           r == ClearMask(mask)
<1>1. DOMAIN records = 1 .. Len(records) /\ Len(records) \in Nat /\ \A i \in DOMAIN records : records[i] \in Record
  OBVIOUS
<1>2. K \in SUBSET (1 .. Len(records)) /\ K \in SUBSET DOMAIN records
  BY <1>1 DEF Kept
<1>3. /\ N \in Nat
      /\ \A k \in K : place(k) \in 1 .. N
      /\ \A k, l \in K : place(k) = place(l) => k = l
      /\ \A i \in 1 .. N : \E k \in K : place(k) = i
  <2> HIDE DEF K
  <2> QED BY <1>1, <1>2, PlaceIsOnto
<1>4. r = [i \in 1 .. N |-> records[At(i)]]
  BY DEF ClearMask
<1> HIDE DEF K, N, place, r
<1>5. \A i \in 1 .. N : At(i) \in K /\ place(At(i)) = i
  BY <1>3
<1>6. \A k \in K : At(place(k)) = k
  <2> SUFFICES ASSUME NEW k \in K PROVE At(place(k)) = k
    OBVIOUS
  <2>1. place(k) \in 1 .. N
    BY <1>3
  <2>2. At(place(k)) \in K /\ place(At(place(k))) = place(k)
    BY <1>5, <2>1
  <2> HIDE DEF At
  <2> QED BY <1>3, <2>2
<1> HIDE DEF At
<1>7. r \in Seq(Record) /\ DOMAIN r = 1 .. N
  BY <1>1, <1>2, <1>3, <1>4, <1>5
<1>8. \A i \in DOMAIN r : At(i) \in K /\ At(i) \in DOMAIN records /\ r[i] = records[At(i)]
  BY <1>2, <1>4, <1>5, <1>7
<1>9. \A k \in K : place(k) \in DOMAIN r /\ r[place(k)] = records[k]
  BY <1>3, <1>4, <1>6, <1>7
<1>10. \A i \in DOMAIN records : i \in K <=> records[i].active \/ i \notin mask
  BY DEF K, Kept
<1>11. ActiveIn(r) = ActiveIn(records)
  <2>1. \A x : x \in ActiveIn(r) <=> \E i \in DOMAIN r : r[i].active /\ r[i].code = x
    BY DEF ActiveIn
  <2>2. \A x : x \in ActiveIn(records) <=> \E i \in DOMAIN records : records[i].active /\ records[i].code = x
    BY DEF ActiveIn
  <2>3. \A x : x \in ActiveIn(r) => x \in ActiveIn(records)
    BY <1>8, <2>1, <2>2
  <2>4. \A x : x \in ActiveIn(records) => x \in ActiveIn(r)
    BY <1>9, <1>10, <2>1, <2>2
  <2> QED BY <2>3, <2>4
<1>12. ASSUME NEW c \in Codes(records) \ Codes(r)
       PROVE  \E i \in mask : i \in DOMAIN records /\ records[i].code = c
  <2>1. PICK i \in DOMAIN records : records[i].code = c
    BY <1>12 DEF Codes
  <2>2. i \notin K
    BY <1>9, <1>12, <2>1 DEF Codes
  <2> QED BY <1>10, <2>1, <2>2
<1> QED BY <1>7, <1>11, <1>12 DEF r

----------------------------------------------------------------------------
(* Faults: the invariant.                                                  *)

Message == Event \cup [kind : {"Faults"}, faults : Seq(Record)] \cup [kind : {"Cleared"}]
IsReply(m) == m.kind \in {"Faults", "Cleared"}
NoReply(s) == \A i \in DOMAIN s : ~IsReply(s[i])
NoAnswer(s) == \A i \in DOMAIN s : s[i].kind # "Faults"
\* The records of list s are at their places in list r too.
AtPlaces(s, r) == \A i \in DOMAIN s : i \in DOMAIN r /\ r[i].code = s[i].code

ListsInv ==
    /\ records \in Seq(Record)
    /\ queue \in Seq(Event) /\ events \in Seq(Event) /\ toHost \in Seq(Message)
    /\ ActiveIn(records) = present \ refused
\* One question at a time, and an answer is under way only while the client waits.
ExchangeInv ==
    /\ \A i, j \in DOMAIN toHost : IsReply(toHost[i]) /\ IsReply(toHost[j]) => i = j
    /\ toDevice # None => NoReply(toHost) /\ waiting
    /\ NoReply(toHost) \/ waiting
\* Records keep their places until a request to clear, for which the last answer was used up.
PlacesInv ==
    /\ snapshot # None => AtPlaces(snapshot, records)
    /\ \A i \in DOMAIN toHost : toHost[i].kind = "Faults" => AtPlaces(toHost[i].faults, records)
    /\ toDevice # None /\ toDevice.op = "ClearFaults" =>
          /\ snapshot = <<>>
          /\ \A i \in toDevice.mask : i \in DOMAIN records /\ records[i].code \in toDevice.meant
\* The last word about a fault is right, and where there is none what the host holds is.  The queue
\* is right by itself, whatever it dropped: that is what the next answer builds on.
Follows(c) ==
    LET b == c \in ActiveIn(records) IN
    /\ Right(queue, c, b)
    /\ c \notin missed /\ Silent(queue, c) =>
          /\ Right(toHost, c, b)
          /\ Silent(toHost, c) => Right(events, c, b)
          /\ Silent(toHost, c) /\ Silent(events, c) =>
                /\ \A i \in DOMAIN toHost : toHost[i].kind = "Faults" => (c \in ActiveIn(toHost[i].faults) <=> b)
                /\ NoAnswer(toHost) /\ snapshot # None => (c \in view <=> b)
FaultInv == ListsInv /\ ExchangeInv /\ PlacesInv /\ \A c \in Code : Follows(c)

LEMMA PlacesOfAppend ==
    ASSUME NEW A, NEW s \in Seq(A), NEW e \in A
    PROVE  /\ Append(s, e) \in Seq(A)
           /\ \A i \in DOMAIN s : i \in DOMAIN Append(s, e) /\ Append(s, e)[i] = s[i]
           /\ \A i \in DOMAIN Append(s, e) :
                 (i \in DOMAIN s /\ Append(s, e)[i] = s[i]) \/ (i = Len(s) + 1 /\ Append(s, e)[i] = e)
           /\ Len(s) + 1 \in DOMAIN Append(s, e) /\ Append(s, e)[Len(s) + 1] = e
<1>1. Len(s) \in Nat /\ DOMAIN s = 1 .. Len(s)
  OBVIOUS
<1>2. /\ Append(s, e) \in Seq(A) /\ DOMAIN Append(s, e) = 1 .. Len(s) + 1
      /\ Append(s, e)[Len(s) + 1] = e
      /\ \A i \in 1 .. Len(s) : Append(s, e)[i] = s[i]
  BY AppendProperties
<1>3. \A i \in 1 .. Len(s) + 1 : i \in 1 .. Len(s) \/ i = Len(s) + 1
  BY <1>1
<1>4. Len(s) + 1 \in 1 .. Len(s) + 1 /\ \A i \in 1 .. Len(s) : i \in 1 .. Len(s) + 1
  BY <1>1
<1> QED BY <1>1, <1>2, <1>3, <1>4

LEMMA PlacesOfTail ==
    ASSUME NEW A, NEW s \in Seq(A), s # <<>>
    PROVE  /\ Tail(s) \in Seq(A) /\ Head(s) \in A /\ Head(s) = s[1] /\ 1 \in DOMAIN s
           /\ \A i \in DOMAIN Tail(s) : i + 1 \in DOMAIN s /\ i + 1 # 1 /\ Tail(s)[i] = s[i + 1] /\ i \in Nat
           /\ \A i \in DOMAIN s : i = 1 \/ (i - 1 \in DOMAIN Tail(s) /\ Tail(s)[i - 1] = s[i])
<1>1. Len(s) \in Nat \ {0} /\ DOMAIN s = 1 .. Len(s) /\ Head(s) = s[1]
  OBVIOUS
<1>2. /\ Tail(s) \in Seq(A) /\ Head(s) \in A /\ DOMAIN Tail(s) = 1 .. Len(s) - 1
      /\ \A i \in 1 .. Len(s) - 1 : Tail(s)[i] = s[i + 1]
  BY HeadTailProperties
<1>3. \A i \in 1 .. Len(s) - 1 : i + 1 \in 1 .. Len(s) /\ i + 1 # 1 /\ i \in Nat
  BY <1>1
<1>4. \A i \in 1 .. Len(s) : i = 1 \/ (i - 1 \in 1 .. Len(s) - 1 /\ (i - 1) + 1 = i)
  BY <1>1
<1>5. 1 \in 1 .. Len(s)
  BY <1>1
<1> QED BY <1>1, <1>2, <1>3, <1>4, <1>5

LEMMA PushedWord ==
    ASSUME queue \in Seq(Event), NEW e \in Event, Push(e)
    PROVE  /\ queue' \in Seq(Event)
           /\ \A c \in Code : \A b \in BOOLEAN :
                 /\ Tells(e, c) => ~Silent(queue', c) /\ (Right(queue', c, b) <=> (e.kind = "FaultSet" <=> b))
                 /\ ~Tells(e, c) => /\ Right(queue, c, b) => Right(queue', c, b)
                                    /\ Silent(queue', c) /\ c \notin missed' => Silent(queue, c) /\ c \notin missed
<1> DEFINE full == Len(queue) = MaxEvents
           q == IF full THEN Tail(queue) ELSE queue
           lost == Head(queue)
<1>1. /\ queue' = Append(q, e)
      /\ missed' = IF full /\ lost.kind # "Knock" /\ About(queue', lost.code) = {}
                   THEN missed \cup {lost.code} ELSE missed
  BY DEF Push
<1>2. full => queue # <<>>
  <2>1. MaxEvents # 0 /\ Len(<<>>) = 0
    BY FaultAssumption
  <2> QED BY <2>1
<1>3. q \in Seq(Event) /\ (full => lost \in Event /\ q = Tail(queue)) /\ (~full => q = queue)
  BY <1>2, HeadTailProperties
<1>4. queue' \in Seq(Event)
  BY <1>1, <1>3, AppendProperties
<1> HIDE DEF q, full, lost
<1>5. ASSUME NEW c \in Code, NEW b \in BOOLEAN
      PROVE  /\ Tells(e, c) => ~Silent(queue', c) /\ (Right(queue', c, b) <=> (e.kind = "FaultSet" <=> b))
             /\ ~Tells(e, c) => /\ Right(queue, c, b) => Right(queue', c, b)
                                /\ Silent(queue', c) /\ c \notin missed' => Silent(queue, c) /\ c \notin missed
  <2>1. /\ Silent(queue', c) <=> Silent(q, c) /\ ~Tells(e, c)
        /\ Right(queue', c, b) <=> IF Tells(e, c) THEN (e.kind = "FaultSet" <=> b) ELSE Right(q, c, b)
    BY <1>1, <1>3, SaidByAppend
  <2>2. CASE ~full
    BY <1>1, <1>3, <2>1, <2>2
  <2>3. CASE full
    <3>1. /\ Silent(queue, c) <=> Silent(q, c) /\ ~Tells(lost, c)
          /\ Right(queue, c, b) => Right(q, c, b)
      <4>1. /\ Silent(queue, c) <=> Silent(Tail(queue), c) /\ ~Tells(Head(queue), c)
            /\ Right(queue, c, b) <=> /\ Right(Tail(queue), c, b)
                                      /\ Silent(Tail(queue), c) /\ Tells(Head(queue), c)
                                         => (Head(queue).kind = "FaultSet" <=> b)
        BY <1>2, <2>3, SaidByTail
      <4>2. q = Tail(queue)
        BY <1>3, <2>3
      <4> QED BY <4>1, <4>2 DEF lost
    <3>2. ASSUME Silent(queue', c), c \notin missed' PROVE ~Tells(lost, c) /\ c \notin missed
      <4>1. lost.kind # "Knock" /\ About(queue', lost.code) = {} => lost.code \in missed'
        BY <1>1, <2>3
      <4>2. c \notin missed
        BY <1>1, <3>2
      <4>3. Tells(lost, c) => lost.code = c /\ lost.kind # "Knock"
        BY DEF Tells
      <4> QED BY <3>2, <4>1, <4>2, <4>3 DEF Silent
    <3> QED BY <2>1, <3>1, <3>2
  <2> QED BY <2>2, <2>3
<1> QED BY <1>4, <1>5

\* Steps of the control loop: records come to the end of the list, and events to the end of the queue.
LEMMA ControlStep ==
    ASSUME FaultInv, UNCHANGED <<link, host>>,
           records' \in Seq(Record), ActiveIn(records') = present' \ refused', queue' \in Seq(Event),
           \A i \in DOMAIN records : i \in DOMAIN records' /\ records'[i].code = records[i].code,
           \A c \in Code :
              LET b == c \in ActiveIn(records')
              IN  /\ Right(queue', c, b)
                  /\ Silent(queue', c) /\ c \notin missed' =>
                        Silent(queue, c) /\ c \notin missed /\ (b <=> c \in ActiveIn(records))
    PROVE  FaultInv'
<1>1. UNCHANGED <<toDevice, toHost, connected, waiting, events, snapshot, view>>
  BY DEF link, host
<1>2. ListsInv'
  BY <1>1 DEF FaultInv, ListsInv
<1>3. ExchangeInv'
  BY <1>1 DEF FaultInv, ExchangeInv, NoReply
<1>4. PlacesInv'
  <2>1. \A s : AtPlaces(s, records) => AtPlaces(s, records')
    BY DEF AtPlaces
  <2>2. snapshot' # None => AtPlaces(snapshot', records')
    BY <1>1, <2>1 DEF FaultInv, PlacesInv
  <2>3. \A i \in DOMAIN toHost' : toHost'[i].kind = "Faults" => AtPlaces(toHost'[i].faults, records')
    BY <1>1, <2>1 DEF FaultInv, PlacesInv
  <2>4. toDevice' # None /\ toDevice'.op = "ClearFaults" =>
          /\ snapshot' = <<>>
          /\ \A i \in toDevice'.mask : i \in DOMAIN records' /\ records'[i].code \in toDevice'.meant
    BY <1>1 DEF FaultInv, PlacesInv
  <2> QED BY <2>2, <2>3, <2>4 DEF PlacesInv, AtPlaces
<1>5. ASSUME NEW c \in Code
      PROVE  Follows(c)'
  <2> DEFINE b == c \in ActiveIn(records)
  <2>1. Follows(c)
    BY DEF FaultInv
  <2>2. CASE Silent(queue', c) /\ c \notin missed'
    <3>1. Silent(queue, c) /\ c \notin missed /\ (c \in ActiveIn(records') <=> b)
      BY <2>2
    <3>2. b' <=> b
      BY <3>1
    <3>3. Right(queue', c, b')
      OBVIOUS
    <3> QED BY <1>1, <2>1, <3>1, <3>2, <3>3 DEF Follows, NoAnswer, Right, Silent, About
  <2>3. CASE ~(Silent(queue', c) /\ c \notin missed')
    BY <2>3 DEF Follows, Silent, Right, About
  <2> QED BY <2>2, <2>3
<1> QED BY <1>2, <1>3, <1>4, <1>5 DEF FaultInv

LEMMA NoteFaultStep ==
    ASSUME FaultInv, NEW c \in Code, NoteFault(c)
    PROVE  FaultInv'
<1> DEFINE e == [kind |-> "FaultSet", code |-> c]
           r == Raise(c)
           on == ActiveIn(records)
<1>1. /\ records \in Seq(Record) /\ queue \in Seq(Event) /\ on = present \ refused
      /\ \A d \in Code : Right(queue, d, d \in on)
  BY DEF FaultInv, ListsInv, Follows
<1>2. /\ records' = r.records /\ UNCHANGED <<link, host>>
      /\ IF r.tell THEN Push(e) ELSE UNCHANGED <<queue, missed>>
      /\ present' = present \cup {c}
      /\ refused' = IF c \in Codes(records') THEN refused \ {c} ELSE refused \cup {c}
  BY DEF NoteFault
<1>3. e \in Event /\ \A d : Tells(e, d) <=> d = c
  BY DEF Event, Tells
<1> HIDE DEF e
<1>4. /\ records' \in Seq(Record)
      /\ \A i \in DOMAIN records : i \in DOMAIN records' /\ records'[i].code = records[i].code
      /\ \/ ActiveIn(records') = on \cup {c} /\ c \in Codes(records') /\ (r.tell \/ c \in on)
         \/ records' = records /\ ~r.tell /\ c \notin Codes(records)
  <2>1. CASE c \in Codes(records)
    <3>1. records' = SetActive(c, TRUE) /\ (r.tell <=> c \notin on)
      BY <1>2, <2>1 DEF Raise
    <3>2. /\ records' \in Seq(Record) /\ DOMAIN records' = DOMAIN records
          /\ \A i \in DOMAIN records : records'[i].code = records[i].code
          /\ ActiveIn(records') = on \cup {c}
      BY <1>1, <2>1, <3>1, ActiveAfterSet
    <3>3. c \in Codes(records')
      BY <2>1, <3>2 DEF Codes
    <3> QED BY <3>1, <3>2, <3>3
  <2>2. CASE c \notin Codes(records) /\ Len(records) < MaxFaults
    <3>1. records' = Append(records, [code |-> c, active |-> TRUE]) /\ r.tell
      BY <1>2, <2>2 DEF Raise
    <3> QED BY <1>1, <3>1, ActiveAfterAppend
  <2>3. CASE c \notin Codes(records) /\ ~(Len(records) < MaxFaults)
    <3>1. records' = records /\ ~r.tell
      BY <1>2, <2>3 DEF Raise
    <3> QED BY <1>1, <2>3, <3>1
  <2> QED BY <2>1, <2>2, <2>3
<1>5. Codes(records) = {records[i].code : i \in DOMAIN records} /\ on \subseteq Codes(records)
  BY DEF Codes, ActiveIn
<1>6. ActiveIn(records') = present' \ refused'
  BY <1>1, <1>2, <1>4, <1>5
<1> HIDE DEF r, on
<1>7. CASE r.tell
  <2>1. Push(e) /\ ActiveIn(records') = on \cup {c}
    BY <1>2, <1>4, <1>7
  <2>2. e.kind = "FaultSet"
    BY DEF e
  <2>3. queue' \in Seq(Event)
    BY <1>1, <1>3, <2>1, PushedWord
  <2>4. ASSUME NEW d \in Code
        PROVE  LET b == d \in ActiveIn(records')
               IN  /\ Right(queue', d, b)
                   /\ Silent(queue', d) /\ d \notin missed' =>
                         Silent(queue, d) /\ d \notin missed /\ (b <=> d \in on)
    <3> DEFINE b == d \in ActiveIn(records')
    <3>1. b \in BOOLEAN
      OBVIOUS
    <3>2. /\ Tells(e, d) => ~Silent(queue', d) /\ (Right(queue', d, b) <=> (e.kind = "FaultSet" <=> b))
          /\ ~Tells(e, d) => /\ Right(queue, d, b) => Right(queue', d, b)
                             /\ Silent(queue', d) /\ d \notin missed' => Silent(queue, d) /\ d \notin missed
      <4> HIDE DEF b
      <4> QED BY <1>1, <1>3, <2>1, <3>1, PushedWord
    <3>3. CASE d = c
      BY <1>3, <2>1, <2>2, <3>2, <3>3
    <3>4. CASE d # c
      <4>1. b <=> d \in on
        BY <2>1, <3>4
      <4>2. ~Tells(e, d)
        BY <1>3, <3>4
      <4>3. Right(queue, d, b)
        BY <1>1, <4>1
      <4> QED BY <3>2, <4>1, <4>2, <4>3
    <3> QED BY <3>3, <3>4
  <2> QED BY <1>2, <1>4, <1>6, <2>3, <2>4, ControlStep DEF on
<1>8. CASE ~r.tell
  <2>1. queue' = queue /\ missed' = missed
    BY <1>2, <1>8
  <2>2. ActiveIn(records') = on
    BY <1>4, <1>8 DEF on
  <2> QED BY <1>1, <1>2, <1>4, <1>6, <2>1, <2>2, ControlStep DEF on
<1> QED BY <1>7, <1>8

LEMMA NoteFaultClearedStep ==
    ASSUME FaultInv, NEW c \in Code, NoteFaultCleared(c)
    PROVE  FaultInv'
<1> DEFINE e == [kind |-> "FaultCleared", code |-> c]
           on == ActiveIn(records)
<1>1. /\ records \in Seq(Record) /\ queue \in Seq(Event) /\ on = present \ refused
      /\ \A d \in Code : Right(queue, d, d \in on)
  BY DEF FaultInv, ListsInv, Follows
<1>2. /\ records' = SetActive(c, FALSE) /\ UNCHANGED <<link, host>>
      /\ IF c \in on THEN Push(e) ELSE UNCHANGED <<queue, missed>>
      /\ present' = present \ {c} /\ refused' = refused \ {c}
  BY DEF NoteFaultCleared
<1>3. e \in Event /\ e.kind # "FaultSet" /\ \A d : Tells(e, d) <=> d = c
  BY DEF Event, Tells
<1> HIDE DEF e
<1>4. /\ records' \in Seq(Record) /\ DOMAIN records' = DOMAIN records
      /\ \A i \in DOMAIN records : records'[i].code = records[i].code
      /\ ActiveIn(records') = on \ {c}
  BY <1>1, <1>2, ActiveAfterSet
<1>5. ActiveIn(records') = present' \ refused'
  BY <1>1, <1>2, <1>4
<1> HIDE DEF on
<1>6. CASE c \in on
  <2>1. Push(e) /\ queue' \in Seq(Event)
    BY <1>1, <1>2, <1>3, <1>6, PushedWord
  <2>2. ASSUME NEW d \in Code
        PROVE  LET b == d \in ActiveIn(records')
               IN  /\ Right(queue', d, b)
                   /\ Silent(queue', d) /\ d \notin missed' =>
                         Silent(queue, d) /\ d \notin missed /\ (b <=> d \in on)
    <3> DEFINE b == d \in ActiveIn(records')
    <3>1. b \in BOOLEAN
      OBVIOUS
    <3>2. /\ Tells(e, d) => ~Silent(queue', d) /\ (Right(queue', d, b) <=> (e.kind = "FaultSet" <=> b))
          /\ ~Tells(e, d) => /\ Right(queue, d, b) => Right(queue', d, b)
                             /\ Silent(queue', d) /\ d \notin missed' => Silent(queue, d) /\ d \notin missed
      <4> HIDE DEF b
      <4> QED BY <1>1, <1>3, <2>1, <3>1, PushedWord
    <3>3. CASE d = c
      BY <1>3, <1>4, <3>2, <3>3
    <3>4. CASE d # c
      <4>1. (b <=> d \in on) /\ ~Tells(e, d)
        BY <1>3, <1>4, <3>4
      <4>2. Right(queue, d, b)
        BY <1>1, <4>1
      <4> QED BY <3>2, <4>1, <4>2
    <3> QED BY <3>3, <3>4
  <2> QED BY <1>2, <1>4, <1>5, <2>1, <2>2, ControlStep DEF on
<1>7. CASE c \notin on
  <2>1. queue' = queue /\ missed' = missed /\ ActiveIn(records') = on
    BY <1>2, <1>4, <1>7
  <2> QED BY <1>1, <1>2, <1>4, <1>5, <2>1, ControlStep DEF on
<1> QED BY <1>6, <1>7

LEMMA NoteKnockStep ==
    ASSUME FaultInv, NoteKnock
    PROVE  FaultInv'
<1> DEFINE e == [kind |-> "Knock"]
           on == ActiveIn(records)
<1>1. /\ records \in Seq(Record) /\ queue \in Seq(Event) /\ on = present \ refused
      /\ \A d \in Code : Right(queue, d, d \in on)
  BY DEF FaultInv, ListsInv, Follows
<1>2. Push(e) /\ UNCHANGED <<records, present, refused, link, host>>
  BY DEF NoteKnock
<1>3. e \in Event /\ \A d : ~Tells(e, d)
  BY DEF Event, Tells
<1> HIDE DEF e, on
<1>4. queue' \in Seq(Event)
  BY <1>1, <1>2, <1>3, PushedWord
<1>5. ASSUME NEW d \in Code
      PROVE  /\ Right(queue', d, d \in on)
             /\ Silent(queue', d) /\ d \notin missed' => Silent(queue, d) /\ d \notin missed
  <2> DEFINE b == d \in on
  <2>1. b \in BOOLEAN /\ Right(queue, d, b)
    BY <1>1
  <2>2. /\ Right(queue, d, b) => Right(queue', d, b)
        /\ Silent(queue', d) /\ d \notin missed' => Silent(queue, d) /\ d \notin missed
    <3> HIDE DEF b
    <3> QED BY <1>1, <1>2, <1>3, <2>1, PushedWord
  <2> QED BY <2>1, <2>2
<1>6. ActiveIn(records') = on /\ records' = records /\ on = present' \ refused' /\ UNCHANGED <<link, host>>
  BY <1>1, <1>2 DEF on
<1> QED BY <1>1, <1>4, <1>5, <1>6, ControlStep DEF on

\* Steps after which the host has nothing, or had nothing before.
LEMMA ConnectSteps ==
    ASSUME FaultInv, Connect \/ Disconnect
    PROVE  FaultInv'
<1>1. CASE Connect
  <2>1. UNCHANGED <<control, toDevice, toHost, waiting, events, snapshot, view>>
    BY <1>1 DEF Connect, host
  <2> QED BY <2>1, SMTT(30) DEF control, FaultInv, ListsInv, ExchangeInv, PlacesInv, Follows, NoReply, NoAnswer, Right,
                      Silent, About, AtPlaces
<1>2. CASE Disconnect
  <2>1. /\ UNCHANGED <<records, queue, present, refused, missed>>
        /\ toDevice' = None /\ toHost' = <<>> /\ events' = <<>> /\ snapshot' = None
    BY <1>2 DEF Disconnect, control
  <2>2. ListsInv' /\ ExchangeInv' /\ PlacesInv'
    BY <2>1 DEF FaultInv, ListsInv, ExchangeInv, PlacesInv, NoReply
  <2>3. ASSUME NEW c \in Code PROVE Follows(c)'
    <3>1. Right(queue, c, c \in ActiveIn(records))
      BY DEF FaultInv, Follows
    <3>2. Right(<<>>, c, c \in ActiveIn(records))
      BY DEF Right, About
    <3> QED BY <2>1, <3>1, <3>2 DEF Follows, Right, Silent, About
  <2> QED BY <2>2, <2>3 DEF FaultInv
<1> QED BY <1>1, <1>2

LEMMA GetFaultsStep ==
    ASSUME FaultInv, GetFaults
    PROVE  FaultInv'
<1> DEFINE a == [kind |-> "Faults", faults |-> records]
<1>1. /\ toDevice' = None /\ toHost' = Append(toHost, a) /\ missed' = {c \in missed : Undelivered(c)}
      /\ toDevice # None /\ UNCHANGED <<records, queue, present, refused, waiting, events, snapshot, view>>
  BY DEF GetFaults, host
<1>2. /\ records \in Seq(Record) /\ toHost \in Seq(Message) /\ events \in Seq(Event) /\ queue \in Seq(Event)
      /\ NoReply(toHost) /\ waiting
  BY <1>1 DEF FaultInv, ListsInv, ExchangeInv
<1>3. a \in Message /\ a.kind = "Faults" /\ a.faults = records /\ \A c : ~Tells(a, c)
  BY <1>2 DEF Message, Tells
<1> HIDE DEF a
<1>4. /\ toHost' \in Seq(Message)
      /\ \A i \in DOMAIN toHost' : (i \in DOMAIN toHost /\ toHost'[i] = toHost[i])
                                   \/ (i = Len(toHost) + 1 /\ toHost'[i] = a)
      /\ Len(toHost) + 1 \in DOMAIN toHost' /\ toHost'[Len(toHost) + 1] = a
  BY <1>1, <1>2, <1>3, PlacesOfAppend
<1>5. \A i \in DOMAIN toHost' : IsReply(toHost'[i]) => i = Len(toHost) + 1 /\ toHost'[i] = a
  BY <1>2, <1>4 DEF NoReply
<1>6. \A i \in DOMAIN toHost' : toHost'[i].kind = "Faults" => toHost'[i].faults = records
  BY <1>3, <1>5 DEF IsReply
<1>7. ListsInv'
  BY <1>1, <1>4 DEF FaultInv, ListsInv
<1>8. ExchangeInv'
  BY <1>1, <1>2, <1>5 DEF ExchangeInv
<1>9. PlacesInv'
  <2>1. snapshot' # None => AtPlaces(snapshot', records')
    BY <1>1 DEF FaultInv, PlacesInv
  <2>2. AtPlaces(records, records')
    BY <1>1 DEF AtPlaces
  <2> QED BY <1>1, <1>6, <2>1, <2>2 DEF PlacesInv, AtPlaces
<1>10. ASSUME NEW c \in Code PROVE Follows(c)'
  <2> DEFINE b == c \in ActiveIn(records)
  <2>1. b \in BOOLEAN /\ Follows(c)
    BY DEF FaultInv
  <2>2. /\ Silent(toHost', c) <=> Silent(toHost, c)
        /\ Right(toHost', c, b) <=> Right(toHost, c, b)
    <3> HIDE DEF b
    <3> QED BY <1>1, <1>2, <1>3, <2>1, SaidByAppend
  <2>3. /\ Silent(toHost, c) => Right(toHost, c, b)
        /\ Silent(events, c) => Right(events, c, b)
    BY DEF Silent, Right
  <2>4. c \in missed /\ c \notin missed' => Silent(toHost, c) /\ Silent(events, c)
    BY <1>1 DEF Undelivered, Silent
  <2>5. ~NoAnswer(toHost')
    BY <1>3, <1>4 DEF NoAnswer
  <2>6. \A i \in DOMAIN toHost' : toHost'[i].kind = "Faults" => (c \in ActiveIn(toHost'[i].faults) <=> b)
    BY <1>6
  <2>7. Right(queue, c, b) /\ (c \notin missed /\ Silent(queue, c) =>
                                 Right(toHost, c, b) /\ (Silent(toHost, c) => Right(events, c, b)))
    BY <2>1 DEF Follows
  <2>8. c \notin missed' /\ Silent(queue, c) =>
           /\ Right(toHost', c, b)
           /\ Silent(toHost', c) => Right(events, c, b)
    <3> HIDE DEF b
    <3> QED BY <1>1, <2>2, <2>3, <2>4, <2>7
  <2> QED BY <1>1, <2>5, <2>6, <2>7, <2>8 DEF Follows, Silent, Right, About, NoAnswer
<1> QED BY <1>7, <1>8, <1>9, <1>10 DEF FaultInv

LEMMA ClearFaultsStep ==
    ASSUME FaultInv, ClearFaults
    PROVE  /\ FaultInv' /\ Codes(records) \ Codes(records') \subseteq toDevice.meant
           /\ ActiveIn(records') = ActiveIn(records)
<1> DEFINE a == [kind |-> "Cleared"]
<1>1. /\ toDevice # None /\ toDevice.op = "ClearFaults" /\ toDevice' = None
      /\ records' = ClearMask(toDevice.mask) /\ toHost' = Append(toHost, a)
      /\ UNCHANGED <<queue, present, refused, missed, waiting, events, snapshot, view>>
  BY DEF ClearFaults, host
<1>2. /\ records \in Seq(Record) /\ toHost \in Seq(Message) /\ NoReply(toHost) /\ waiting
      /\ snapshot = <<>> /\ \A i \in toDevice.mask : records[i].code \in toDevice.meant
  BY <1>1 DEF FaultInv, ListsInv, ExchangeInv, PlacesInv
<1>3. a \in Message /\ a.kind = "Cleared" /\ \A c : ~Tells(a, c)
  BY DEF Message, Tells
<1> HIDE DEF a
<1>4. /\ records' \in Seq(Record) /\ ActiveIn(records') = ActiveIn(records)
      /\ Codes(records) \ Codes(records') \subseteq toDevice.meant
  <2>1. /\ records' \in Seq(Record) /\ ActiveIn(records') = ActiveIn(records)
        /\ \A c \in Codes(records) \ Codes(records') :
              \E i \in toDevice.mask : i \in DOMAIN records /\ records[i].code = c
    BY <1>1, <1>2, ActiveAfterClear
  <2> QED BY <1>2, <2>1
<1>5. /\ toHost' \in Seq(Message)
      /\ \A i \in DOMAIN toHost' : (i \in DOMAIN toHost /\ toHost'[i] = toHost[i])
                                   \/ (i = Len(toHost) + 1 /\ toHost'[i] = a)
  BY <1>1, <1>2, <1>3, PlacesOfAppend
<1>6. /\ \A i \in DOMAIN toHost' : IsReply(toHost'[i]) => i = Len(toHost) + 1 /\ toHost'[i] = a
      /\ NoAnswer(toHost) /\ NoAnswer(toHost')
  BY <1>2, <1>3, <1>5 DEF NoReply, NoAnswer, IsReply
<1>7. ListsInv'
  BY <1>1, <1>4, <1>5 DEF FaultInv, ListsInv
<1>8. ExchangeInv'
  BY <1>1, <1>2, <1>6 DEF ExchangeInv
<1>9. PlacesInv'
  BY <1>1, <1>2, <1>6 DEF PlacesInv, AtPlaces, NoAnswer
<1>10. ASSUME NEW c \in Code PROVE Follows(c)'
  <2> DEFINE b == c \in ActiveIn(records)
  <2>1. b \in BOOLEAN /\ Follows(c)
    BY DEF FaultInv
  <2>2. /\ Silent(toHost', c) <=> Silent(toHost, c)
        /\ Right(toHost', c, b) <=> Right(toHost, c, b)
    <3> HIDE DEF b
    <3> QED BY <1>1, <1>2, <1>3, <2>1, SaidByAppend
  <2>3. b' <=> b
    BY <1>4
  <2> QED BY <1>1, <1>4, <1>6, <2>1, <2>2 DEF Follows, Silent, Right, About, NoAnswer
<1> QED BY <1>4, <1>7, <1>8, <1>9, <1>10 DEF FaultInv

LEMMA PollEventStep ==
    ASSUME FaultInv, PollEvent
    PROVE  FaultInv'
<1> DEFINE e == Head(queue)
<1>1. /\ queue # <<>> /\ toHost' = Append(toHost, e) /\ queue' = Tail(queue)
      /\ UNCHANGED <<records, present, refused, missed, toDevice, waiting, events, snapshot, view>>
  BY DEF PollEvent, host
<1>2. /\ records \in Seq(Record) /\ queue \in Seq(Event) /\ toHost \in Seq(Message)
      /\ queue' \in Seq(Event) /\ e \in Event
  BY <1>1, HeadTailProperties DEF FaultInv, ListsInv
<1>3. e \in Message /\ ~IsReply(e) /\ e.kind # "Faults"
  BY <1>2 DEF Message, Event, IsReply
<1>4. /\ toHost' \in Seq(Message)
      /\ \A i \in DOMAIN toHost' : (i \in DOMAIN toHost /\ toHost'[i] = toHost[i]) \/ toHost'[i] = e
      /\ \A i \in DOMAIN toHost : i \in DOMAIN toHost' /\ toHost'[i] = toHost[i]
  <2> HIDE DEF e
  <2> QED BY <1>1, <1>2, <1>3, PlacesOfAppend
<1> HIDE DEF e
<1>5. ListsInv'
  BY <1>1, <1>2, <1>4 DEF FaultInv, ListsInv
<1>6. ExchangeInv'
  <2>1. \A i \in DOMAIN toHost' : IsReply(toHost'[i]) => i \in DOMAIN toHost /\ toHost'[i] = toHost[i]
    BY <1>3, <1>4
  <2> QED BY <1>1, <2>1 DEF FaultInv, ExchangeInv, NoReply
<1>7. \A i \in DOMAIN toHost' : toHost'[i].kind = "Faults" => i \in DOMAIN toHost /\ toHost'[i] = toHost[i]
  BY <1>3, <1>4
<1>8. PlacesInv'
  BY <1>1, <1>7 DEF FaultInv, PlacesInv, AtPlaces
<1>9. ASSUME NEW c \in Code PROVE Follows(c)'
  <2> DEFINE b == c \in ActiveIn(records)
  <2>1. b \in BOOLEAN /\ Follows(c)
    BY DEF FaultInv
  <2>2. /\ Silent(toHost', c) <=> Silent(toHost, c) /\ ~Tells(e, c)
        /\ Right(toHost', c, b) <=> IF Tells(e, c) THEN (e.kind = "FaultSet" <=> b) ELSE Right(toHost, c, b)
    <3> HIDE DEF b
    <3> QED BY <1>1, <1>2, <1>3, <2>1, SaidByAppend
  <2>3. /\ Silent(queue, c) <=> Silent(queue', c) /\ ~Tells(e, c)
        /\ Right(queue, c, b) <=> /\ Right(queue', c, b)
                                  /\ Silent(queue', c) /\ Tells(e, c) => (e.kind = "FaultSet" <=> b)
    <3> HIDE DEF b
    <3> QED BY <1>1, <1>2, <2>1, SaidByTail DEF e
  <2>4. NoAnswer(toHost') => NoAnswer(toHost)
    BY <1>4 DEF NoAnswer
  <2>5. /\ Right(queue, c, b)
        /\ c \notin missed /\ Silent(queue, c) =>
              /\ Right(toHost, c, b)
              /\ Silent(toHost, c) => Right(events, c, b)
              /\ Silent(toHost, c) /\ Silent(events, c) =>
                    /\ \A i \in DOMAIN toHost : toHost[i].kind = "Faults" => (c \in ActiveIn(toHost[i].faults) <=> b)
                    /\ NoAnswer(toHost) /\ snapshot # None => (c \in view <=> b)
    BY <2>1 DEF Follows
  <2>6. /\ Right(queue', c, b)
        /\ c \notin missed /\ Silent(queue', c) =>
              /\ Right(toHost', c, b)
              /\ Silent(toHost', c) => Right(events, c, b)
              /\ Silent(toHost', c) /\ Silent(events, c) =>
                    /\ \A i \in DOMAIN toHost' : toHost'[i].kind = "Faults" => (c \in ActiveIn(toHost'[i].faults) <=> b)
                    /\ NoAnswer(toHost') /\ snapshot # None => (c \in view <=> b)
    <3> HIDE DEF b
    <3> QED BY <1>7, <2>2, <2>3, <2>4, <2>5
  <2> QED BY <1>1, <2>6 DEF Follows, Silent, Right, About, NoAnswer
<1> QED BY <1>5, <1>6, <1>8, <1>9 DEF FaultInv

LEMMA AskSteps ==
    ASSUME FaultInv, AskFaults \/ AskClear
    PROVE  FaultInv'
<1>1. /\ UNCHANGED <<records, queue, present, refused, missed, toHost, events, view>>
      /\ ~waiting /\ waiting' = TRUE
      /\ snapshot' # None => snapshot # None
  BY DEF AskFaults, AskClear, Ask, control
<1>2. NoReply(toHost)
  BY <1>1 DEF FaultInv, ExchangeInv
<1>3. ListsInv'
  BY <1>1 DEF FaultInv, ListsInv
<1>4. ExchangeInv'
  BY <1>1, <1>2 DEF FaultInv, ExchangeInv, NoReply
<1>5. PlacesInv'
  <2>1. \A i \in DOMAIN toHost : toHost[i].kind # "Faults"
    BY <1>2 DEF NoReply, IsReply
  <2>2. CASE AskFaults
    <3>1. toDevice' = [op |-> "GetFaults"] /\ snapshot' = snapshot
      BY <2>2 DEF AskFaults, Ask
    <3>2. toDevice'.op # "ClearFaults"
      BY <3>1
    <3> QED BY <1>1, <3>1, <3>2 DEF FaultInv, PlacesInv, AtPlaces
  <2>3. CASE AskClear
    <3>1. PICK mask \in SUBSET DOMAIN snapshot :
             /\ snapshot # None /\ snapshot' = <<>>
             /\ toDevice' = [op |-> "ClearFaults", mask |-> mask, meant |-> {snapshot[i].code : i \in mask}]
      BY <2>3 DEF AskClear, Ask
    <3>2. \A i \in mask : i \in DOMAIN records /\ records[i].code = snapshot[i].code
      BY <3>1 DEF FaultInv, PlacesInv, AtPlaces
    <3>3. \A i \in toDevice'.mask : i \in DOMAIN records /\ records[i].code \in toDevice'.meant
      BY <3>1, <3>2
    <3>4. \A r : AtPlaces(<<>>, r)
      BY DEF AtPlaces
    <3> QED BY <1>1, <2>1, <3>1, <3>3, <3>4 DEF PlacesInv, AtPlaces
  <2> QED BY <2>2, <2>3
<1>6. ASSUME NEW c \in Code PROVE Follows(c)'
  <2>1. Follows(c)
    BY DEF FaultInv
  <2> QED BY <1>1, <2>1 DEF Follows, Silent, Right, About, NoAnswer
<1> QED BY <1>3, <1>4, <1>5, <1>6 DEF FaultInv

\* The client takes a message: what it leaves is where it was, one place nearer.
LEMMA ReceiveSteps ==
    ASSUME FaultInv, ReceiveFaults \/ ReceiveCleared \/ ReceiveEvent
    PROVE  FaultInv'
<1> DEFINE h == Head(toHost)
<1>1. /\ toHost # <<>> /\ toHost' = Tail(toHost)
      /\ UNCHANGED <<records, queue, present, refused, missed, toDevice>>
  BY DEF ReceiveFaults, ReceiveCleared, ReceiveEvent, control
<1>2. /\ records \in Seq(Record) /\ queue \in Seq(Event) /\ events \in Seq(Event) /\ toHost \in Seq(Message)
  BY DEF FaultInv, ListsInv
<1>3. /\ toHost' \in Seq(Message) /\ h \in Message /\ h = toHost[1] /\ 1 \in DOMAIN toHost
      /\ \A i \in DOMAIN toHost' : i + 1 \in DOMAIN toHost /\ i + 1 # 1 /\ toHost'[i] = toHost[i + 1] /\ i \in Nat
      /\ \A i \in DOMAIN toHost : i = 1 \/ (i - 1 \in DOMAIN toHost' /\ toHost'[i - 1] = toHost[i])
  BY <1>1, <1>2, PlacesOfTail
<1> HIDE DEF h
<1>4. /\ IsReply(h) => NoReply(toHost') /\ NoAnswer(toHost') /\ toDevice = None
      /\ h.kind # "Faults" => (NoAnswer(toHost') => NoAnswer(toHost))
      /\ ~IsReply(h) => (NoReply(toHost') <=> NoReply(toHost))
      /\ \A i, j \in DOMAIN toHost' : IsReply(toHost'[i]) /\ IsReply(toHost'[j]) => i = j
  <2>1. \A i, j \in DOMAIN toHost : IsReply(toHost[i]) /\ IsReply(toHost[j]) => i = j
    BY DEF FaultInv, ExchangeInv
  <2>2. IsReply(h) => NoReply(toHost')
    BY <1>3, <2>1 DEF NoReply
  <2>3. NoReply(toHost') => NoAnswer(toHost')
    BY DEF NoReply, NoAnswer, IsReply
  <2>4. IsReply(h) => toDevice = None
    BY <1>3 DEF FaultInv, ExchangeInv, NoReply
  <2>5. h.kind # "Faults" => (NoAnswer(toHost') => NoAnswer(toHost))
    BY <1>3 DEF NoAnswer
  <2>6. ~IsReply(h) => (NoReply(toHost') <=> NoReply(toHost))
    BY <1>3 DEF NoReply
  <2>7. ASSUME NEW i \in DOMAIN toHost', NEW j \in DOMAIN toHost', IsReply(toHost'[i]), IsReply(toHost'[j])
        PROVE  i = j
    <3>1. i + 1 = j + 1 /\ i \in Nat /\ j \in Nat
      BY <1>3, <2>1, <2>7
    <3> QED BY <3>1
  <2> QED BY <2>2, <2>3, <2>4, <2>5, <2>6, <2>7
<1>5. \A i \in DOMAIN toHost' : toHost'[i].kind = "Faults" => AtPlaces(toHost'[i].faults, records)
  BY <1>3 DEF FaultInv, PlacesInv
<1>6. ASSUME NEW c \in Code, NEW b \in BOOLEAN
      PROVE  /\ Silent(toHost, c) <=> Silent(toHost', c) /\ ~Tells(h, c)
             /\ Right(toHost, c, b) <=> /\ Right(toHost', c, b)
                                        /\ Silent(toHost', c) /\ Tells(h, c) => (h.kind = "FaultSet" <=> b)
  BY <1>1, <1>2, SaidByTail DEF h
<1>7. \A c : IsReply(h) => ~Tells(h, c)
  BY DEF IsReply, Tells
<1>8. CASE ReceiveFaults
  <2>1. /\ h.kind = "Faults" /\ waiting' = FALSE /\ snapshot' = h.faults /\ view' = ActiveIn(h.faults)
        /\ events' = events /\ IsReply(h)
    BY <1>8 DEF ReceiveFaults, h, IsReply
  <2>2. ListsInv'
    BY <1>1, <1>3, <2>1 DEF FaultInv, ListsInv
  <2>3. ExchangeInv'
    BY <1>1, <1>4, <2>1 DEF ExchangeInv
  <2>4. PlacesInv'
    <3>1. AtPlaces(h.faults, records)
      BY <1>3, <2>1 DEF FaultInv, PlacesInv
    <3> QED BY <1>1, <1>4, <1>5, <2>1, <3>1 DEF PlacesInv, AtPlaces
  <2>5. ASSUME NEW c \in Code PROVE Follows(c)'
    <3> DEFINE b == c \in ActiveIn(records)
    <3>1. b \in BOOLEAN /\ Follows(c)
      BY DEF FaultInv
    <3>2. (Silent(toHost, c) <=> Silent(toHost', c)) /\ (Right(toHost, c, b) <=> Right(toHost', c, b))
      <4> HIDE DEF b
      <4> QED BY <1>6, <1>7, <2>1, <3>1
    <3>3. c \notin missed /\ Silent(queue, c) /\ Silent(toHost, c) /\ Silent(events, c)
             => (c \in ActiveIn(h.faults) <=> b)
      BY <1>3, <2>1, <3>1 DEF Follows
    <3> QED BY <1>1, <1>4, <2>1, <3>1, <3>2, <3>3 DEF Follows, Silent, Right, About, NoAnswer
  <2> QED BY <2>2, <2>3, <2>4, <2>5 DEF FaultInv
<1>9. CASE ReceiveCleared
  <2>1. /\ h.kind = "Cleared" /\ waiting' = FALSE /\ IsReply(h) /\ UNCHANGED <<events, snapshot, view>>
    BY <1>9 DEF ReceiveCleared, h, IsReply
  <2>2. ListsInv'
    BY <1>1, <1>3, <2>1 DEF FaultInv, ListsInv
  <2>3. ExchangeInv'
    BY <1>1, <1>4, <2>1 DEF ExchangeInv
  <2>4. PlacesInv'
    BY <1>1, <1>4, <1>5, <2>1 DEF FaultInv, PlacesInv, AtPlaces
  <2>5. ASSUME NEW c \in Code PROVE Follows(c)'
    <3> DEFINE b == c \in ActiveIn(records)
    <3>1. b \in BOOLEAN /\ Follows(c)
      BY DEF FaultInv
    <3>2. (Silent(toHost, c) <=> Silent(toHost', c)) /\ (Right(toHost, c, b) <=> Right(toHost', c, b))
      <4> HIDE DEF b
      <4> QED BY <1>6, <1>7, <2>1, <3>1
    <3>3. NoAnswer(toHost') /\ NoAnswer(toHost)
      BY <1>4, <2>1
    <3> QED BY <1>1, <2>1, <3>1, <3>2, <3>3 DEF Follows, Silent, Right, About, NoAnswer
  <2> QED BY <2>2, <2>3, <2>4, <2>5 DEF FaultInv
<1>10. CASE ReceiveEvent
  <2>1. /\ ~IsReply(h) /\ events' = Append(events, h) /\ UNCHANGED <<waiting, snapshot, view>>
    BY <1>10 DEF ReceiveEvent, h, IsReply
  <2>2. h \in Event
    BY <1>3, <2>1 DEF Message, IsReply
  <2>3. ListsInv'
    <3>1. events' \in Seq(Event)
      BY <1>2, <2>1, <2>2, AppendProperties
    <3> QED BY <1>1, <1>3, <3>1 DEF FaultInv, ListsInv
  <2>4. ExchangeInv'
    BY <1>1, <1>4, <2>1 DEF FaultInv, ExchangeInv
  <2>5. PlacesInv'
    BY <1>1, <1>5, <2>1 DEF FaultInv, PlacesInv, AtPlaces
  <2>6. ASSUME NEW c \in Code PROVE Follows(c)'
    <3> DEFINE b == c \in ActiveIn(records)
    <3>1. b \in BOOLEAN /\ Follows(c)
      BY DEF FaultInv
    <3>2. /\ Silent(toHost, c) <=> Silent(toHost', c) /\ ~Tells(h, c)
          /\ Right(toHost, c, b) <=> /\ Right(toHost', c, b)
                                     /\ Silent(toHost', c) /\ Tells(h, c) => (h.kind = "FaultSet" <=> b)
      <4> HIDE DEF b
      <4> QED BY <1>6, <3>1
    <3>3. /\ Silent(events', c) <=> Silent(events, c) /\ ~Tells(h, c)
          /\ Right(events', c, b) <=> IF Tells(h, c) THEN (h.kind = "FaultSet" <=> b) ELSE Right(events, c, b)
      <4> HIDE DEF b
      <4> QED BY <1>2, <2>1, <2>2, <3>1, SaidByAppend
    <3>4. NoAnswer(toHost') => NoAnswer(toHost)
      BY <1>4, <2>1 DEF IsReply
    <3>5. /\ Right(queue, c, b)
          /\ c \notin missed /\ Silent(queue, c) =>
                /\ Right(toHost, c, b)
                /\ Silent(toHost, c) => Right(events, c, b)
                /\ Silent(toHost, c) /\ Silent(events, c) =>
                      /\ \A i \in DOMAIN toHost : toHost[i].kind = "Faults" => (c \in ActiveIn(toHost[i].faults) <=> b)
                      /\ NoAnswer(toHost) /\ snapshot # None => (c \in view <=> b)
      BY <3>1 DEF Follows
    <3>6. c \notin missed /\ Silent(queue, c) =>
             /\ Right(toHost', c, b)
             /\ Silent(toHost', c) => Right(events', c, b)
             /\ Silent(toHost', c) /\ Silent(events', c) =>
                   /\ \A i \in DOMAIN toHost' : toHost'[i].kind = "Faults" => (c \in ActiveIn(toHost'[i].faults) <=> b)
                   /\ NoAnswer(toHost') /\ snapshot # None => (c \in view <=> b)
      <4> HIDE DEF b
      <4> QED BY <1>3, <3>2, <3>3, <3>4, <3>5
    <3>7. UNCHANGED <<records, queue, missed, snapshot, view>>
      BY <1>1, <2>1
    <3> QED BY <3>5, <3>6, <3>7 DEF Follows, Silent, Right, About, NoAnswer
  <2> QED BY <2>3, <2>4, <2>5, <2>6 DEF FaultInv
<1> QED BY <1>8, <1>9, <1>10

LEMMA TryNextEventStep ==
    ASSUME FaultInv, TryNextEvent
    PROVE  FaultInv'
<1> DEFINE h == Head(events)
<1>1. /\ events # <<>> /\ events' = Tail(events) /\ ~waiting
      /\ view' = (IF snapshot = None THEN view ELSE Applied(view, h))
      /\ UNCHANGED <<records, queue, present, refused, missed, toDevice, toHost, waiting, snapshot>>
  BY DEF TryNextEvent, control, link
<1>2. /\ records \in Seq(Record) /\ events \in Seq(Event) /\ NoReply(toHost)
  BY <1>1 DEF FaultInv, ListsInv, ExchangeInv
<1>3. events' \in Seq(Event) /\ h \in Event
  BY <1>1, <1>2, HeadTailProperties
<1> HIDE DEF h
<1>4. ListsInv'
  BY <1>1, <1>3 DEF FaultInv, ListsInv
<1>5. ExchangeInv'
  BY <1>1 DEF FaultInv, ExchangeInv, NoReply
<1>6. PlacesInv'
  BY <1>1 DEF FaultInv, PlacesInv, AtPlaces
<1>7. ASSUME NEW c \in Code PROVE Follows(c)'
  <2> DEFINE b == c \in ActiveIn(records)
  <2>1. b \in BOOLEAN /\ Follows(c)
    BY DEF FaultInv
  <2>2. /\ Silent(events, c) <=> Silent(events', c) /\ ~Tells(h, c)
        /\ Right(events, c, b) <=> /\ Right(events', c, b)
                                   /\ Silent(events', c) /\ Tells(h, c) => (h.kind = "FaultSet" <=> b)
    <3> HIDE DEF b
    <3> QED BY <1>1, <1>2, <2>1, SaidByTail DEF h
  <2>3. NoAnswer(toHost)
    BY <1>2 DEF NoReply, NoAnswer, IsReply
  <2>4. snapshot # None => (c \in view' <=> IF Tells(h, c) THEN h.kind = "FaultSet" ELSE c \in view)
    BY <1>1 DEF Applied, Tells
  <2>5. /\ Right(queue, c, b)
        /\ c \notin missed /\ Silent(queue, c) =>
              /\ Right(toHost, c, b)
              /\ Silent(toHost, c) => Right(events, c, b)
              /\ Silent(toHost, c) /\ Silent(events, c) => (snapshot # None => (c \in view <=> b))
    BY <2>1, <2>3 DEF Follows
  <2>6. c \notin missed /\ Silent(queue, c) =>
           /\ Right(toHost, c, b)
           /\ Silent(toHost, c) => Right(events', c, b)
           /\ Silent(toHost, c) /\ Silent(events', c) => (snapshot # None => (c \in view' <=> b))
    <3> HIDE DEF b
    <3> QED BY <2>2, <2>4, <2>5
  <2>7. UNCHANGED <<records, queue, missed, toHost, snapshot>>
    BY <1>1
  <2> QED BY <2>3, <2>5, <2>6, <2>7 DEF Follows, Silent, Right, About, NoAnswer
<1> QED BY <1>4, <1>5, <1>6, <1>7 DEF FaultInv

LEMMA FaultStep ==
    ASSUME FaultInv, [Next]_vars
    PROVE  FaultInv'
<1>1. CASE Next
  <2>1. CASE \E c \in Code : NoteFault(c) \/ NoteFaultCleared(c)
    BY <2>1, NoteFaultStep, NoteFaultClearedStep
  <2>2. CASE ClearFaults
    BY <2>2, ClearFaultsStep
  <2> QED BY <1>1, <2>1, <2>2, NoteKnockStep, ConnectSteps, GetFaultsStep, PollEventStep, AskSteps,
             ReceiveSteps, TryNextEventStep DEF Next
<1>2. CASE UNCHANGED vars
  <2>1. UNCHANGED <<control, link, host>>
    BY <1>2 DEF vars
  <2> QED BY <2>1, SMTT(30) DEF control, link, host, FaultInv, ListsInv, ExchangeInv, PlacesInv, Follows, NoReply, NoAnswer,
                      Right, Silent, About, AtPlaces
<1> QED BY <1>1, <1>2

LEMMA FaultInit == PartsInit => FaultInv
<1> SUFFICES ASSUME PartsInit PROVE FaultInv
  OBVIOUS
<1>1. /\ records = <<>> /\ queue = <<>> /\ events = <<>> /\ toHost = <<>>
      /\ present = {} /\ refused = {} /\ toDevice = None /\ snapshot = None
  BY DEF PartsInit, Init
<1>2. ListsInv /\ ExchangeInv /\ PlacesInv
  BY <1>1 DEF ListsInv, ExchangeInv, PlacesInv, ActiveIn, NoReply
<1>3. \A c \in Code : Follows(c)
  BY <1>1 DEF Follows, Right, About
<1> QED BY <1>2, <1>3 DEF FaultInv

LEMMA LastOfSet ==
    ASSUME NEW n \in Nat, NEW X \in SUBSET (1 .. n), X # {}
    PROVE  Max(X) \in X /\ \A i \in X : ~(i > Max(X))
<1> DEFINE Y == {n - i : i \in X}
<1>1. Y \in SUBSET Nat /\ Y # {}
  <2>1. \A i \in 1 .. n : n - i \in Nat
    OBVIOUS
  <2> QED BY <2>1
<1>2. PICK y \in Y : \A z \in Y : y <= z
  BY <1>1, LeastOfSet
<1>3. PICK m \in X : y = n - m
  OBVIOUS
<1>4. \A i \in X : n - m <= n - i
  BY <1>2, <1>3
<1>5. \A i \in 1 .. n : m \in Nat /\ (n - m <= n - i => m >= i)
  OBVIOUS
<1>6. \A i \in X : m >= i
  BY <1>4, <1>5
<1>7. Max(X) \in X /\ \A i \in X : Max(X) >= i
  BY <1>6 DEF Max
<1>8. \A i, k \in 1 .. n : k >= i => ~(i > k)
  OBVIOUS
<1> QED BY <1>7, <1>8

LEMMA SilentOnThree ==
    ASSUME NEW A, NEW s \in Seq(A), NEW t \in Seq(A), NEW u \in Seq(A), NEW c,
           NEW all, all = s \o t \o u
    PROVE  /\ all \in Seq(A)
           /\ Silent(all, c) <=> Silent(s, c) /\ Silent(t, c) /\ Silent(u, c)
<1> DEFINE early == s \o t
<1>1. Silent(early, c) <=> Silent(s, c) /\ Silent(t, c)
  BY SaidByConcat
<1>2. early \in Seq(A) /\ all = early \o u
  BY ConcatProperties
<1> HIDE DEF early
<1>3. Silent(early \o u, c) <=> Silent(early, c) /\ Silent(u, c)
  BY <1>2, SaidByConcat
<1>4. all \in Seq(A)
  BY <1>2, ConcatProperties
<1> QED BY <1>1, <1>2, <1>3, <1>4

LEMMA FollowsIsEnough ==
    ASSUME FaultInv
    PROVE  HostFollowsFaults
<1> SUFFICES ASSUME Knows, NEW c \in Code, c \notin missed
             PROVE  WillHold(c) <=> c \in present \ refused
  BY DEF HostFollowsFaults
<1> DEFINE b == c \in ActiveIn(records)
           told == About(Pending, c)
<1>1. /\ b \in BOOLEAN /\ (b <=> c \in present \ refused)
      /\ Follows(c)
  BY DEF FaultInv, ListsInv
<1>2. events \in Seq(Message) /\ toHost \in Seq(Message) /\ queue \in Seq(Message)
  <2>1. Event \subseteq Message
    BY DEF Message
  <2>2. events \in Seq(Event) /\ queue \in Seq(Event) /\ toHost \in Seq(Message)
    BY DEF FaultInv, ListsInv
  <2> QED BY <2>1, <2>2
<1>3. Right(queue, c, b) /\ (Silent(queue, c) => Right(toHost, c, b) /\ (Silent(toHost, c) => Right(events, c, b)))
  BY <1>1 DEF Follows
<1>4. Pending = events \o toHost \o queue
  BY DEF Pending
<1>5. Pending \in Seq(Message) /\ (Silent(Pending, c) <=> Silent(events, c) /\ Silent(toHost, c) /\ Silent(queue, c))
  BY <1>2, <1>4, SilentOnThree
<1>6. Right(Pending, c, b)
  <2> DEFINE s == events  t == toHost  u == queue  all == Pending
  <2>1. /\ b \in BOOLEAN /\ s \in Seq(Message) /\ t \in Seq(Message) /\ u \in Seq(Message)
        /\ all = s \o t \o u
    BY <1>2, <1>4
  <2>2. Right(u, c, b) /\ (Silent(u, c) => Right(t, c, b) /\ (Silent(t, c) => Right(s, c, b)))
    BY <1>3
  <2> DEFINE early == s \o t
  <2> HIDE DEF b, s, t, u, all
  <2>3. Right(early, c, b) <=> Right(t, c, b) /\ (Silent(t, c) => Right(s, c, b))
    BY <2>1, SaidByConcat
  <2>4. early \in Seq(Message) /\ all = early \o u
    BY <2>1, ConcatProperties
  <2> HIDE DEF early
  <2>5. Right(early \o u, c, b) <=> Right(u, c, b) /\ (Silent(u, c) => Right(early, c, b))
    BY <2>1, <2>4, SaidByConcat
  <2>6. Right(all, c, b)
    BY <2>2, <2>3, <2>4, <2>5
  <2> QED BY <2>6 DEF all
<1>7. CASE told # {}
  <2>1. told \subseteq 1 .. Len(Pending) /\ Len(Pending) \in Nat
    BY <1>5 DEF About
  <2>2. Max(told) \in told /\ \A i \in told : ~(i > Max(told))
    <3> HIDE DEF told
    <3> QED BY <1>7, <2>1, LastOfSet
  <2>3. Pending[Max(told)].kind = "FaultSet" <=> b
    BY <1>6, <2>2 DEF Right
  <2>4. WillHold(c) <=> Pending[Max(told)].kind = "FaultSet"
    BY <1>7 DEF WillHold
  <2> QED BY <1>1, <2>3, <2>4
<1>8. CASE told = {}
  <2>1. Silent(events, c) /\ Silent(toHost, c) /\ Silent(queue, c)
    BY <1>5, <1>8 DEF Silent
  <2>2. WillHold(c) <=> c \in Base
    BY <1>8 DEF WillHold
  <2>3. /\ \A i \in DOMAIN toHost : toHost[i].kind = "Faults" => (c \in ActiveIn(toHost[i].faults) <=> b)
        /\ NoAnswer(toHost) /\ snapshot # None => (c \in view <=> b)
    BY <1>1, <2>1 DEF Follows
  <2>4. CASE Answers = {}
    <3>1. NoAnswer(toHost) /\ snapshot # None /\ Base = view
      BY <2>4 DEF Answers, NoAnswer, Knows, Base
    <3> QED BY <1>1, <2>2, <2>3, <3>1
  <2>5. CASE Answers # {}
    <3>1. Answers \subseteq 1 .. Len(toHost) /\ Len(toHost) \in Nat
      BY <1>2 DEF Answers
    <3>2. Max(Answers) \in Answers
      BY <2>5, <3>1, LastOfSet
    <3>3. Max(Answers) \in DOMAIN toHost /\ toHost[Max(Answers)].kind = "Faults"
      BY <3>2 DEF Answers
    <3>4. Base = ActiveIn(toHost[Max(Answers)].faults)
      BY <2>5 DEF Base
    <3> QED BY <1>1, <2>2, <2>3, <3>3, <3>4
  <2> QED BY <2>4, <2>5
<1> QED BY <1>7, <1>8

\* A host that has asked for the faults and follows the events knows every fault the control loop
\* sees, once what is under way has arrived, except one the store had no room for and one whose
\* last event the queue dropped: across reconnections, crossing answers and cleared records
\* (FaultStore and EventQueue of faults.rs, RdpClient).
THEOREM HostIsToldOfFaults == PartsSpec => []HostFollowsFaults
<1>1. FaultInv /\ [PartsNext]_allVars => FaultInv'
  BY FaultStep, PartsAreApart
<1> QED BY <1>1, FaultInit, FollowsIsEnough, PTL DEF PartsSpec

\* Clearing by place takes away the records the host meant and no active one: places are stable
\* until a request to clear, and that uses the host's answer up (FaultStore::clear_mask).
THEOREM ClearIsMeant == PartsSpec => ClearHitsWhatWasMeant
<1>1. FaultInv /\ [PartsNext]_allVars => FaultInv'
  BY FaultStep, PartsAreApart
<1>2. FaultInv /\ [PartsNext]_allVars =>
         [ClearFaults => /\ Codes(records) \ Codes(records') \subseteq toDevice.meant
                         /\ ActiveIn(records') = ActiveIn(records)]_vars
  BY ClearFaultsStep
<1> QED BY <1>1, <1>2, FaultInit, PTL DEF PartsSpec, ClearHitsWhatWasMeant

----------------------------------------------------------------------------
(* The page of the older protocol: what has been read or written of a call *)
(* so far is a beginning of what it asks for.                              *)

\* Page p after the first n bytes of call c are written.
Written(p, c, n) == [i \in 1 .. PageSize |-> IF i - 1 \in c.offset .. c.offset + n - 1 THEN c.data[i - c.offset] ELSE p[i]]
Granted == response # None /\ response.code = 0
Done(c) == IF Granted THEN c.pos + P!Chunk(c) ELSE c.pos

TuneTypes ==
    /\ tune \in [1 .. PageSize -> P!Byte] /\ before \in [1 .. PageSize -> P!Byte]
    /\ factor \in Nat \ {0} /\ image \in Seq(P!Byte)
    /\ command \in P!Call \cup {None} /\ last \in P!Call \cup {None}
    /\ request \in P!Command \cup {None} /\ response \in P!Response \cup {None}
    /\ ended \in {"ok", "EcuError", None}

\* The call under way.
CallInv ==
    command # None =>
        /\ command.pos <= command.size /\ (command.op = "crc_check" => command.pos = 0)
        /\ command.pos > 0 => command.offset + command.pos <= PageSize
        /\ command.op = "write_chunk" =>
              Len(command.data) = command.size /\ tune = Written(before, command, Done(command))
        /\ command.op # "write_chunk" =>
              image = SubSeq(tune, command.offset + 1, command.offset + command.pos)

\* What is on the line between the two ends belongs to it.
WireInv ==
    /\ request # None =>
          /\ command # None /\ response = None
          /\ request.op = command.op /\ request.offset = command.offset + command.pos
          /\ request.length = P!Chunk(command)
          /\ command.op = "write_chunk" =>
                request.data = SubSeq(command.data, command.pos + 1, command.pos + P!Chunk(command))
    /\ response # None => command # None
    /\ Granted =>
          /\ command.offset + command.pos + P!Chunk(command) <= PageSize
          /\ command.op # "write_chunk" =>
                response.data = SubSeq(tune, command.offset + command.pos + 1,
                                       command.offset + command.pos + P!Chunk(command))

\* The call that ended last.
EndInv ==
    command = None =>
        /\ ended = "ok" => last # None
        /\ ended = "ok" /\ last.op # "write_chunk" =>
              image = SubSeq(tune, last.offset + 1, last.offset + last.size)
        /\ ended # None /\ last # None /\ last.op = "write_chunk" =>
              tune = Written(before, last, IF ended = "ok" THEN last.size ELSE last.pos)

TuneInv == TuneTypes /\ CallInv /\ WireInv /\ EndInv

LEMMA PageNumbers ==
    /\ PageSize \in Nat /\ Factors \subseteq Nat \ {0} /\ Offsets \subseteq Nat /\ Sizes \subseteq Nat
    /\ None \notin P!Call /\ None \notin P!Command /\ None \notin P!Response /\ None \notin Nat \X Nat
    /\ None # "ok" /\ None # "EcuError"
BY PageAssumption DEF P!Parameters

\* A chunk is never more than is left, and at most the call is done with it.
LEMMA ChunkOK ==
    ASSUME NEW c \in P!Call, c.pos <= c.size, c.op = "crc_check" => c.pos = 0, factor \in Nat \ {0}
    PROVE  P!Chunk(c) \in Nat /\ c.pos + P!Chunk(c) <= c.size /\ (c.op = "crc_check" => P!Chunk(c) = c.size)
<1> DEFINE left == c.size - c.pos
<1>1. c.size \in Nat /\ c.pos \in Nat /\ left \in Nat /\ factor \in Nat
  BY DEF P!Call
<1>2. P!Min({factor, left}) \in {factor, left} /\ P!Min({factor, left}) <= left
  <2>1. \E x \in {factor, left} : \A y \in {factor, left} : x <= y
    BY <1>1
  <2> QED BY <2>1 DEF P!Min
<1>3. P!Min({factor, left}) \in Nat /\ c.pos + P!Min({factor, left}) <= c.size
  BY <1>1, <1>2
<1> QED BY <1>1, <1>3 DEF P!Chunk

\* What differs between two pages lies between the first and the last place where they differ.
LEMMA DifferenceOK ==
    ASSUME NEW a \in [1 .. PageSize -> P!Byte], NEW b \in [1 .. PageSize -> P!Byte]
    PROVE  LET d == P!FirstDiffRange(a, b) IN
           b = [i \in DOMAIN a |-> IF d # None /\ i - 1 \in d[1] .. d[2] - 1 THEN b[i] ELSE a[i]]
<1> DEFINE D == {i \in 1 .. PageSize : a[i] # b[i]}
           d == P!FirstDiffRange(a, b)
<1>1. Len(a) = PageSize /\ Len(b) = PageSize /\ P!Min({PageSize, PageSize}) = PageSize
  <2>1. P!Min({PageSize, PageSize}) \in {PageSize, PageSize}
    <3>1. \E x \in {PageSize, PageSize} : \A y \in {PageSize, PageSize} : x <= y
      BY PageNumbers
    <3> QED BY <3>1 DEF P!Min
  <2> QED BY <2>1, PageNumbers
<1>2. d = IF D = {} THEN None ELSE <<P!Min(D) - 1, P!Max(D)>>
  BY <1>1 DEF P!FirstDiffRange
<1>3. /\ \A i \in 1 .. PageSize : i \notin D => a[i] = b[i]
      /\ DOMAIN a = 1 .. PageSize /\ b = [i \in 1 .. PageSize |-> b[i]]
  OBVIOUS
<1> DEFINE Same(e) == b = [i \in DOMAIN a |-> IF e # None /\ i - 1 \in e[1] .. e[2] - 1 THEN b[i] ELSE a[i]]
<1> HIDE DEF d, D
<1>4. ASSUME D = {} PROVE Same(d)
  BY <1>2, <1>3, <1>4
<1>5. ASSUME D # {} PROVE Same(d)
  <2>1. \A i \in D : P!Min(D) \in D /\ P!Max(D) \in D /\ P!Min(D) <= i /\ i <= P!Max(D)
    <3>1. D \in SUBSET Nat /\ D \in SUBSET (1 .. PageSize)
      BY PageNumbers DEF D
    <3>2. \E x \in D : \A y \in D : x <= y
      BY <1>5, <3>1, LeastOfSet
    <3>3. Max(D) \in D /\ \A i \in D : ~(i > Max(D))
      BY <1>5, <3>1, PageNumbers, LastOfSet
    <3>4. P!Max(D) = Max(D)
      BY DEF P!Max, Max
    <3>5. \A i, j \in D : ~(i > j) => i <= j
      BY <3>1, PageNumbers
    <3>6. P!Min(D) \in D /\ \A y \in D : P!Min(D) <= y
      BY <3>2 DEF P!Min
    <3> QED BY <3>3, <3>4, <3>5, <3>6
  <2>2. P!Min(D) \in Nat /\ P!Max(D) \in Nat /\ P!Min(D) - 1 \in Nat
    <3>1. D \in SUBSET (1 .. PageSize)
      BY DEF D
    <3>2. P!Min(D) \in D /\ P!Max(D) \in D
      BY <1>5, <2>1
    <3>3. P!Min(D) \in 1 .. PageSize /\ P!Max(D) \in 1 .. PageSize
      BY <3>1, <3>2
    <3> QED BY <3>3, PageNumbers
  <2>3. d # None /\ d[1] = P!Min(D) - 1 /\ d[2] = P!Max(D)
    <3>1. <<P!Min(D) - 1, P!Max(D)>> \in Nat \X Nat
      BY <2>2
    <3> QED BY <1>2, <1>5, <3>1, PageNumbers
  <2>4. \A i \in 1 .. PageSize : i - 1 \in d[1] .. d[2] - 1 \/ a[i] = b[i]
    <3> SUFFICES ASSUME NEW i \in D PROVE i - 1 \in d[1] .. d[2] - 1
      BY <1>3
    <3>1. i \in 1 .. PageSize
      BY DEF D
    <3> QED BY <2>1, <2>2, <2>3, <3>1, PageNumbers
  <2> QED BY <1>3, <2>3, <2>4
<1>6. Same(d)
  BY <1>4, <1>5
<1> QED BY <1>6 DEF d

LEMMA TuneInit == PartsInit => TuneInv
<1> SUFFICES ASSUME PartsInit PROVE TuneInv
  OBVIOUS
<1>1. /\ tune = [i \in 1 .. PageSize |-> 0] /\ before = tune /\ factor \in Factors
      /\ command = None /\ request = None /\ response = None /\ image = <<>> /\ ended = None /\ last = None
  BY DEF PartsInit, P!Init
<1> QED BY <1>1, PageNumbers DEF TuneInv, TuneTypes, CallInv, WireInv, EndInv, P!Byte, Granted

LEMMA StartStep ==
    ASSUME TuneInv, NEW op \in P!Reading \cup {"write_chunk"}, NEW offset \in Nat, NEW size \in Nat,
           NEW bytes \in Seq(P!Byte), op = "write_chunk" => Len(bytes) = size, P!Start(op, offset, size, bytes)
    PROVE  TuneInv'
<1> DEFINE c == [op |-> op, offset |-> offset, size |-> size, data |-> bytes, pos |-> 0]
<1>1. /\ command = None /\ command' = c /\ image' = <<>> /\ ended' = None /\ before' = tune
      /\ tune' = tune /\ factor' = factor /\ request' = request /\ response' = response /\ last' = last
  BY DEF P!Start
<1>2. c \in P!Call /\ c.op = op /\ c.offset = offset /\ c.size = size /\ c.data = bytes /\ c.pos = 0
  BY DEF P!Call
<1>3. command' # None
  BY <1>1, <1>2, PageNumbers
<1> HIDE DEF c
<1>4. request = None /\ response = None
  BY <1>1 DEF TuneInv, WireInv
<1>5. TuneTypes'
  BY <1>1, <1>2 DEF TuneInv, TuneTypes
<1>6. CallInv'
  <2>1. ~Granted'
    BY <1>1, <1>4 DEF Granted
  <2>2. tune = Written(tune, c, 0)
    <3>1. \A i \in 1 .. PageSize : ~(i - 1 \in c.offset .. c.offset + 0 - 1)
      BY <1>2, PageNumbers
    <3> QED BY <3>1 DEF Written, TuneInv, TuneTypes
  <2>3. Done(command)' = 0
    BY <1>1, <1>2, <2>1 DEF Done
  <2>4. SubSeq(tune, c.offset + 1, c.offset + c.pos) = <<>>
    BY <1>2
  <2>5. Written(before, command, Done(command))' = Written(tune, c, 0)
    BY <1>1, <2>3 DEF Written
  <2> QED BY <1>1, <1>2, <2>2, <2>4, <2>5 DEF CallInv
<1>7. WireInv' /\ EndInv'
  BY <1>1, <1>3, <1>4 DEF WireInv, EndInv, Granted
<1> QED BY <1>5, <1>6, <1>7 DEF TuneInv

\* The data of the chunk under way.
LEMMA WriteData ==
    ASSUME TuneTypes, CallInv, command # None, command.op = "write_chunk"
    PROVE  LET part1 == SubSeq(command.data, command.pos + 1, command.pos + P!Chunk(command)) IN
           /\ part1 \in Seq(P!Byte)
           /\ \A i \in 1 .. P!Chunk(command) :
                 part1[i] = command.data[command.pos + i] /\ part1[i] \in P!Byte
<1> DEFINE ch == P!Chunk(command)
           part1 == SubSeq(command.data, command.pos + 1, command.pos + ch)
<1>1. command \in P!Call /\ Len(command.data) = command.size
  BY DEF TuneTypes, CallInv
<1>2. /\ command.pos \in Nat /\ command.size \in Nat /\ command.data \in Seq(P!Byte)
  BY <1>1 DEF P!Call
<1>3. ch \in Nat /\ command.pos + ch <= command.size
  BY <1>1, ChunkOK DEF TuneTypes, CallInv
<1> HIDE DEF ch
<1>4. \A i \in command.pos + 1 .. command.pos + ch : command.data[i] \in P!Byte
  BY <1>1, <1>2, <1>3
<1>5. /\ part1 \in Seq(P!Byte)
      /\ \A i \in 1 .. (command.pos + ch) - (command.pos + 1) + 1 : part1[i] = command.data[(command.pos + 1) + i - 1]
  <2>1. command.pos + 1 \in Int /\ command.pos + ch \in Int
    BY <1>2, <1>3
  <2> HIDE DEF part1
  <2> QED BY <1>4, <2>1, SubSeqProperties DEF part1
<1> HIDE DEF part1
<1>6. /\ (command.pos + ch) - (command.pos + 1) + 1 = ch
      /\ \A i \in 1 .. ch : (command.pos + 1) + i - 1 = command.pos + i
  BY <1>2, <1>3
<1>7. \A i \in 1 .. ch : part1[i] = command.data[command.pos + i] /\ part1[i] \in P!Byte
  <2>1. \A i \in 1 .. ch : command.pos + i \in command.pos + 1 .. command.pos + ch
    BY <1>2, <1>3
  <2> QED BY <1>4, <1>5, <1>6, <2>1
<1> QED BY <1>5, <1>7 DEF part1, ch

LEMMA SendStep ==
    ASSUME TuneInv, P!Send
    PROVE  TuneInv'
<1> DEFINE r == [op |-> command.op, offset |-> P!Place(command), length |-> P!Chunk(command),
                 data |-> IF command.op = "write_chunk"
                          THEN SubSeq(command.data, command.pos + 1, command.pos + P!Chunk(command)) ELSE <<>>]
<1>1. /\ command # None /\ request = None /\ response = None /\ request' = r
      /\ tune' = tune /\ factor' = factor /\ command' = command /\ response' = response /\ image' = image
      /\ ended' = ended /\ before' = before /\ last' = last
  BY DEF P!Send
<1>2. command \in P!Call /\ P!Chunk(command) \in Nat /\ P!Chunk(command)' = P!Chunk(command)
  BY <1>1, ChunkOK DEF TuneInv, TuneTypes, CallInv, P!Chunk
<1>3. /\ r \in P!Command /\ r.op = command.op /\ r.offset = command.offset + command.pos
      /\ r.length = P!Chunk(command)
      /\ command.op = "write_chunk" =>
             r.data = SubSeq(command.data, command.pos + 1, command.pos + P!Chunk(command))
  <2>1. /\ command.op \in P!Reading \cup {"write_chunk"} /\ command.offset \in Nat /\ command.pos \in Nat
        /\ command.data \in Seq(P!Byte)
    BY <1>2 DEF P!Call
  <2>2. command.op = "write_chunk" =>
           SubSeq(command.data, command.pos + 1, command.pos + P!Chunk(command)) \in Seq(P!Byte)
    BY <1>1, <1>2, WriteData DEF TuneInv
  <2>3. r.data \in Seq(P!Byte)
    BY <2>2
  <2>4. P!Place(command) \in Nat /\ P!Place(command) = command.offset + command.pos
    BY <2>1 DEF P!Place
  <2>5. \A o \in P!Reading \cup {"write_chunk"}, a \in Nat, n \in Nat, d \in Seq(P!Byte) :
           [op |-> o, offset |-> a, length |-> n, data |-> d] \in P!Command
    BY DEF P!Command
  <2>6. r \in P!Command
    BY <1>2, <2>1, <2>3, <2>4, <2>5
  <2> QED BY <2>4, <2>6
<1> HIDE DEF r
<1>4. TuneTypes'
  BY <1>1, <1>3 DEF TuneInv, TuneTypes
<1>5. CallInv'
  BY <1>1, <1>2 DEF TuneInv, CallInv, Done, Granted, Written
<1>6. WireInv'
  BY <1>1, <1>2, <1>3 DEF TuneInv, WireInv, Granted
<1>7. EndInv'
  BY <1>1 DEF TuneInv, EndInv
<1> QED BY <1>4, <1>5, <1>6, <1>7 DEF TuneInv

\* Pages are sequences, and what lies within them too.
LEMMA PageIsSeq ==
    ASSUME NEW p \in [1 .. PageSize -> P!Byte]
    PROVE  /\ p \in Seq(P!Byte) /\ Len(p) = PageSize
           /\ \A m \in Nat, n \in Nat : n <= PageSize => SubSeq(p, m + 1, n) \in Seq(P!Byte)
<1>1. p \in Seq(P!Byte) /\ Len(p) = PageSize
  BY PageNumbers
<1>2. ASSUME NEW m \in Nat, NEW n \in Nat, n <= PageSize PROVE SubSeq(p, m + 1, n) \in Seq(P!Byte)
  <2>1. \A i \in m + 1 .. n : p[i] \in P!Byte
    BY <1>2, PageNumbers
  <2>2. m + 1 \in Int /\ n \in Int
    OBVIOUS
  <2> QED BY <2>1, <2>2, SubSeqProperties
<1> QED BY <1>1, <1>2

LEMMA HandleStep ==
    ASSUME TuneInv, P!Handle
    PROVE  TuneInv'
<1> DEFINE c == command  ch == P!Chunk(command)  at == c.offset + c.pos
<1>1. /\ request # None /\ response = None /\ request' = None
      /\ factor' = factor /\ command' = command /\ image' = image /\ ended' = ended /\ before' = before /\ last' = last
  BY DEF P!Handle
<1>2. /\ TuneTypes /\ CallInv /\ command # None
      /\ request.op = c.op /\ request.offset = at /\ request.length = ch
      /\ c.op = "write_chunk" => request.data = SubSeq(c.data, c.pos + 1, c.pos + ch)
  BY <1>1 DEF TuneInv, WireInv
<1>3. /\ c \in P!Call /\ c.offset \in Nat /\ c.pos \in Nat /\ c.op \in P!Reading \cup {"write_chunk"}
      /\ at \in Nat /\ ch \in Nat
  <2>1. c \in P!Call
    BY <1>2 DEF TuneTypes
  <2>2. c.offset \in Nat /\ c.pos \in Nat /\ c.op \in P!Reading \cup {"write_chunk"}
    BY <2>1 DEF P!Call
  <2>3. ch \in Nat
    BY <1>2, <2>1, ChunkOK DEF TuneTypes, CallInv
  <2> QED BY <2>1, <2>2, <2>3
<1>4. P!Chunk(command)' = ch /\ ~Granted
  BY <1>1, PageNumbers DEF P!Chunk, Granted
<1>5. EndInv'
  BY <1>1, <1>2 DEF EndInv
<1>6. CASE ~P!InPage(request)
  <2>1. response' = [code |-> 1, data |-> <<>>] /\ tune' = tune
    BY <1>1, <1>6 DEF P!Handle, P!Rejected
  <2>2. response'.code = 1 /\ response' \in P!Response /\ ~Granted'
    BY <2>1 DEF P!Response, P!Ok, P!Rejected, Granted
  <2>3. TuneTypes'
    BY <1>1, <1>2, <2>1, <2>2 DEF TuneTypes
  <2>4. CallInv'
    BY <1>1, <1>2, <1>4, <2>1, <2>2 DEF CallInv, Done, Written
  <2>5. WireInv'
    BY <1>1, <1>2, <2>2 DEF WireInv
  <2> QED BY <1>5, <2>3, <2>4, <2>5 DEF TuneInv
<1>7. CASE P!InPage(request) /\ request.op \in P!Reading
  <2>1. /\ response' = [code |-> 0, data |-> SubSeq(tune, at + 1, at + ch)] /\ tune' = tune
        /\ at + ch <= PageSize
    BY <1>1, <1>2, <1>7 DEF P!Handle, P!InPage, P!Ok
  <2>2. SubSeq(tune, at + 1, at + ch) \in Seq(P!Byte)
    <3>1. at + ch \in Nat /\ tune \in [1 .. PageSize -> P!Byte]
      BY <1>2, <1>3 DEF TuneTypes
    <3> HIDE DEF at, ch
    <3> QED BY <1>3, <2>1, <3>1, PageIsSeq
  <2>3. /\ response'.code = 0 /\ response' \in P!Response /\ Granted'
        /\ response'.data = SubSeq(tune, at + 1, at + ch)
    <3>1. \A d \in Seq(P!Byte) : [code |-> 0, data |-> d] \in P!Response
      BY DEF P!Response, P!Ok, P!Rejected
    <3>2. response' \in P!Response
      BY <2>1, <2>2, <3>1
    <3>3. response' # None
      BY <3>2, PageNumbers
    <3> QED BY <2>1, <3>2, <3>3 DEF Granted
  <2>4. c.op # "write_chunk"
    BY <1>2, <1>7 DEF P!Reading
  <2>5. TuneTypes'
    BY <1>1, <1>2, <2>1, <2>3 DEF TuneTypes
  <2>6. CallInv'
    BY <1>1, <1>2, <2>1, <2>4 DEF CallInv
  <2>7. WireInv'
    BY <1>1, <1>2, <1>4, <2>1, <2>3 DEF WireInv
  <2> QED BY <1>5, <2>5, <2>6, <2>7 DEF TuneInv
<1>8. CASE P!InPage(request) /\ request.op \notin P!Reading
  <2>1. /\ response' = [code |-> 0, data |-> <<>>] /\ at + ch <= PageSize
        /\ tune' = [i \in DOMAIN tune |-> IF i - 1 \in at .. at + ch - 1 THEN request.data[i - at] ELSE tune[i]]
    BY <1>1, <1>2, <1>8 DEF P!Handle, P!InPage, P!Ok
  <2>2. c.op = "write_chunk"
    BY <1>2, <1>3, <1>8 DEF P!Reading
  <2>3. response'.code = 0 /\ response' \in P!Response /\ Granted'
    <3>1. \A d \in Seq(P!Byte) : [code |-> 0, data |-> d] \in P!Response
      BY DEF P!Response, P!Ok, P!Rejected
    <3>2. response' \in P!Response
      <4>1. <<>> \in Seq(P!Byte)
        OBVIOUS
      <4> QED BY <2>1, <3>1, <4>1
    <3>3. response' # None
      BY <3>2, PageNumbers
    <3> QED BY <2>1, <3>2, <3>3 DEF Granted
  <2>4. /\ tune \in [1 .. PageSize -> P!Byte] /\ tune = Written(before, c, c.pos)
    BY <1>2, <1>4, <2>2 DEF TuneTypes, CallInv, Done
  <2>5. /\ request.data \in Seq(P!Byte)
        /\ \A i \in 1 .. ch : request.data[i] = c.data[c.pos + i] /\ request.data[i] \in P!Byte
    BY <1>2, <2>2, WriteData
  <2>6. ASSUME NEW i \in 1 .. PageSize
        PROVE  /\ tune'[i] = IF i - 1 \in c.offset .. c.offset + (c.pos + ch) - 1 THEN c.data[i - c.offset] ELSE before[i]
               /\ tune'[i] \in P!Byte
    <3>1. CASE i - 1 \in at .. at + ch - 1
      <4>1. i - at \in 1 .. ch /\ c.pos + (i - at) = i - c.offset /\ i - 1 \in c.offset .. c.offset + (c.pos + ch) - 1
        BY <1>3, <3>1, PageNumbers
      <4>2. tune'[i] = c.data[i - c.offset] /\ tune'[i] \in P!Byte
        BY <2>1, <2>4, <2>5, <3>1, <4>1
      <4> QED BY <4>1, <4>2
    <3>2. CASE i - 1 \notin at .. at + ch - 1
      <4>1. tune'[i] = tune[i]
        BY <2>1, <2>4, <3>2
      <4>2. tune[i] = IF i - 1 \in c.offset .. c.offset + c.pos - 1 THEN c.data[i - c.offset] ELSE before[i]
        BY <2>4 DEF Written
      <4>3. i - 1 \in c.offset .. c.offset + (c.pos + ch) - 1 <=> i - 1 \in c.offset .. c.offset + c.pos - 1
        BY <1>3, <3>2, PageNumbers
      <4> QED BY <2>4, <4>1, <4>2, <4>3
    <3> QED BY <3>1, <3>2
  <2>7. tune' = Written(before, c, c.pos + ch) /\ tune' \in [1 .. PageSize -> P!Byte]
    BY <2>1, <2>4, <2>6 DEF Written
  <2>8. TuneTypes'
    BY <1>1, <1>2, <2>3, <2>7 DEF TuneTypes
  <2>9. CallInv'
    <3>1. Done(command)' = c.pos + ch
      BY <1>1, <1>4, <2>3 DEF Done
    <3>2. tune' = Written(before, command, Done(command))'
      BY <1>1, <2>7, <3>1 DEF Written
    <3> QED BY <1>1, <1>2, <2>2, <3>2 DEF CallInv
  <2>10. WireInv'
    BY <1>1, <1>2, <1>4, <2>1, <2>2, <2>3 DEF WireInv
  <2> QED BY <1>5, <2>8, <2>9, <2>10 DEF TuneInv
<1> QED BY <1>6, <1>7, <1>8

LEMMA ReceivePageStep ==
    ASSUME TuneInv, P!Receive
    PROVE  TuneInv'
<1> DEFINE c == command  ch == P!Chunk(command)  at == c.offset + c.pos
<1>1. /\ response # None /\ response' = None
      /\ tune' = tune /\ factor' = factor /\ request' = request /\ before' = before
  BY DEF P!Receive
<1>2. TuneTypes /\ CallInv /\ WireInv /\ command # None /\ request = None /\ ~Granted'
  BY <1>1 DEF TuneInv, WireInv, Granted
<1>3. /\ c \in P!Call /\ c.offset \in Nat /\ c.pos \in Nat /\ c.size \in Nat
      /\ c.op \in P!Reading \cup {"write_chunk"} /\ c.data \in Seq(P!Byte)
      /\ ch \in Nat /\ c.pos + ch <= c.size /\ (c.op = "crc_check" => c.pos + ch = c.size)
  <2>1. c \in P!Call
    BY <1>2 DEF TuneTypes
  <2>2. /\ c.offset \in Nat /\ c.pos \in Nat /\ c.op \in P!Reading \cup {"write_chunk"} /\ c.data \in Seq(P!Byte)
        /\ c.size \in Nat
    BY <2>1 DEF P!Call
  <2>3. ch \in Nat /\ c.pos + ch <= c.size /\ (c.op = "crc_check" => ch = c.size /\ c.pos = 0)
    BY <1>2, <2>1, ChunkOK DEF TuneTypes, CallInv
  <2> QED BY <2>1, <2>2, <2>3
<1>4. CASE response.code # 0
  <2>1. command' = None /\ last' = c /\ ended' = "EcuError" /\ image' = image
    BY <1>4 DEF P!Receive, P!Ok, P!End
  <2>2. c.op = "write_chunk" => tune = Written(before, c, c.pos)
    BY <1>2, <1>4 DEF CallInv, Done, Granted
  <2>3. TuneTypes'
    BY <1>1, <1>2, <1>3, <2>1 DEF TuneTypes
  <2>4. CallInv' /\ WireInv'
    BY <1>1, <1>2, <2>1 DEF CallInv, WireInv
  <2>5. EndInv'
    BY <1>1, <2>1, <2>2 DEF EndInv, Written
  <2> QED BY <2>3, <2>4, <2>5 DEF TuneInv
<1>5. CASE response.code = 0
  <2>1. Granted /\ image' = image \o response.data
    BY <1>1, <1>5 DEF P!Receive, P!Ok, Granted
  <2>2. image' \in Seq(P!Byte)
    <3>1. image \in Seq(P!Byte) /\ response \in P!Response
      BY <1>1, <1>2 DEF TuneTypes
    <3>2. response.data \in Seq(P!Byte)
      BY <3>1 DEF P!Response
    <3> QED BY <2>1, <3>1, <3>2
  <2>3. /\ at + ch <= PageSize
        /\ c.op # "write_chunk" => image' = SubSeq(tune, c.offset + 1, c.offset + (c.pos + ch))
    <3>1. at + ch <= PageSize /\ (c.op # "write_chunk" => response.data = SubSeq(tune, at + 1, at + ch))
      BY <1>2, <2>1 DEF WireInv
    <3>2. c.op # "write_chunk" => image = SubSeq(tune, c.offset + 1, at)
      BY <1>2 DEF CallInv
    <3>3. tune \in Seq(P!Byte) /\ Len(tune) = PageSize
      BY <1>2, PageIsSeq DEF TuneTypes
    <3>4. /\ c.offset + 1 \in 1 .. Len(tune) + 1 /\ at \in (c.offset + 1) - 1 .. Len(tune)
          /\ at + ch \in at .. Len(tune) /\ at + ch = c.offset + (c.pos + ch)
      BY <1>3, <3>1, <3>3, PageNumbers
    <3>5. SubSeq(tune, c.offset + 1, at) \o SubSeq(tune, at + 1, at + ch) = SubSeq(tune, c.offset + 1, at + ch)
      <4> HIDE DEF at, ch
      <4> QED BY <3>3, <3>4, ConcatAdjacentSubSeq
    <3> QED BY <2>1, <3>1, <3>2, <3>4, <3>5
  <2>4. c.op = "write_chunk" => tune = Written(before, c, c.pos + ch) /\ Len(c.data) = c.size
    BY <1>2, <2>1 DEF CallInv, Done
  <2>5. CASE c.pos + ch = c.size
    <3>1. command' = None /\ last' = c /\ ended' = "ok"
      BY <1>5, <2>5 DEF P!Receive, P!Ok, P!End
    <3>2. TuneTypes'
      BY <1>1, <1>2, <1>3, <2>2, <3>1 DEF TuneTypes
    <3>3. CallInv' /\ WireInv'
      BY <1>1, <1>2, <3>1 DEF CallInv, WireInv
    <3>4. EndInv'
      <4>1. last' # None
        BY <1>2, <3>1
      <4>2. tune' = tune /\ before' = before
        BY <1>1
      <4> QED BY <2>3, <2>4, <2>5, <3>1, <4>1, <4>2 DEF EndInv, Written
    <3> QED BY <3>2, <3>3, <3>4 DEF TuneInv
  <2>6. CASE c.pos + ch # c.size
    <3>1. command' = [c EXCEPT !.pos = c.pos + ch] /\ ended' = ended /\ last' = last
      BY <1>5, <2>6 DEF P!Receive, P!Ok
    <3>2. /\ command'.op = c.op /\ command'.offset = c.offset /\ command'.size = c.size /\ command'.data = c.data
          /\ command'.pos = c.pos + ch /\ command' \in P!Call
      BY <1>3, <3>1 DEF P!Call
    <3>3. TuneTypes'
      BY <1>1, <1>2, <2>2, <3>1, <3>2 DEF TuneTypes
    <3>4. CallInv'
      <4>1. Done(command)' = c.pos + ch
        BY <1>2, <3>2 DEF Done
      <4>2. c.op = "write_chunk" => tune' = Written(before, command, Done(command))'
        BY <1>1, <2>4, <3>2, <4>1 DEF Written
      <4>3. c.offset + (c.pos + ch) <= PageSize
        BY <1>3, <2>3, PageNumbers
      <4> QED BY <1>1, <1>3, <2>3, <2>4, <2>6, <3>2, <4>2, <4>3 DEF CallInv
    <3>5. command' # None
      BY <3>2, PageNumbers
    <3>6. WireInv' /\ EndInv'
      BY <1>1, <1>2, <3>5 DEF WireInv, EndInv
    <3> QED BY <3>3, <3>4, <3>6 DEF TuneInv
  <2> QED BY <2>5, <2>6
<1> QED BY <1>4, <1>5

LEMMA TuneStep == TuneInv /\ [PartsNext]_allVars => TuneInv'
<1> SUFFICES ASSUME TuneInv, [PartsNext]_allVars PROVE TuneInv'
  OBVIOUS
<1>1. CASE UNCHANGED tuneVars
  <2>1. /\ tune' = tune /\ factor' = factor /\ command' = command /\ request' = request /\ response' = response
        /\ image' = image /\ ended' = ended /\ before' = before /\ last' = last
    BY <1>1 DEF tuneVars
  <2>2. P!Chunk(command)' = P!Chunk(command) /\ (Granted' <=> Granted)
    BY <2>1 DEF P!Chunk, Granted
  <2>3. Done(command)' = Done(command)
    BY <2>1, <2>2 DEF Done
  <2>4. Written(before, command, Done(command))' = Written(before, command, Done(command))
    BY <2>1, <2>3 DEF Written
  <2>5. TuneTypes'
    BY <2>1 DEF TuneInv, TuneTypes
  <2>6. CallInv'
    BY <2>1, <2>4 DEF TuneInv, CallInv
  <2>7. WireInv'
    BY <2>1, <2>2 DEF TuneInv, WireInv
  <2>8. EndInv'
    BY <2>1 DEF TuneInv, EndInv, Written
  <2> QED BY <2>5, <2>6, <2>7, <2>8 DEF TuneInv
<1>0. /\ P!Reading \cup {"write_chunk"} = {"read_image", "crc_check", "write_chunk"}
      /\ <<>> \in Seq(P!Byte) /\ 0 \in Nat /\ Sizes \subseteq Nat
  BY PageNumbers DEF P!Reading
<1>2. ASSUME NEW size \in Sizes, P!ReadImage(size) PROVE TuneInv'
  <2>1. P!Start("read_image", 0, size, <<>>)
    BY <1>2 DEF P!ReadImage
  <2> QED BY <1>0, <2>1, StartStep, "read_image" # "write_chunk"
<1>3. ASSUME NEW offset \in Offsets, NEW size \in Sizes, P!CrcCheck(offset, size) PROVE TuneInv'
  <2>1. P!Start("crc_check", offset, size, <<>>)
    BY <1>3 DEF P!CrcCheck
  <2>2. offset \in Nat
    BY PageNumbers
  <2> QED BY <1>0, <2>1, <2>2, StartStep, "crc_check" # "write_chunk"
<1>4. ASSUME NEW offset \in Offsets, NEW size \in Sizes, NEW bytes \in [1 .. size -> P!Byte],
             P!WriteChunk(offset, bytes)
      PROVE TuneInv'
  <2>1. offset \in Nat /\ size \in Nat
    BY PageNumbers
  <2>2. bytes \in Seq(P!Byte) /\ Len(bytes) = size
    BY <2>1
  <2>3. P!Start("write_chunk", offset, size, bytes)
    BY <1>4, <2>2 DEF P!WriteChunk
  <2> QED BY <1>0, <2>1, <2>2, <2>3, StartStep
<1> QED BY <1>1, <1>2, <1>3, <1>4, SendStep, HandleStep, ReceivePageStep, PartsAreApart DEF P!Next

\* A page read in chunks is the page, and one written in chunks holds what was written and what was
\* there before, all of it or up to the chunk that was refused (client.rs, image.rs, comms/mod.rs).
THEOREM PageKept == PartsSpec => [](P!PageIsAsWritten)
<1>1. TuneInv => P!PageIsAsWritten
  <2> SUFFICES ASSUME TuneInv PROVE P!PageIsAsWritten
    OBVIOUS
  <2>1. P!ReadIsPage
    BY DEF TuneInv, EndInv, P!ReadIsPage, P!Reading
  <2>2. ended # None => P!WriteIsPrefix
    <3>1. DOMAIN tune = 1 .. PageSize
      BY DEF TuneInv, TuneTypes
    <3> QED BY <3>1 DEF TuneInv, EndInv, Written, P!WriteIsPrefix
  <2>3. P!DifferenceIsAll
    BY DifferenceOK DEF TuneInv, TuneTypes, P!DifferenceIsAll
  <2> QED BY <2>1, <2>2, <2>3 DEF P!PageIsAsWritten
<1>2. TuneInv /\ [PartsNext]_allVars => TuneInv'
  BY TuneStep
<1> QED BY <1>1, <1>2, TuneInit, PTL DEF PartsSpec

=============================================================================
