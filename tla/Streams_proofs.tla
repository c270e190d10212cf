--------------------------- MODULE Streams_proofs ---------------------------
(***************************************************************************)
(* Proofs about Streams.                                                   *)
(***************************************************************************)
EXTENDS Streams, FiniteSetTheorems, TLAPS

-----------------------------------------------------------------------------
(* The rank of x in S, as Sorted counts it. *)
Rank(S, x) == Cardinality({y \in S : y < x})

(* Rank is injective on a finite set of numbers and lies below its cardinality. *)
LEMMA RankOrder ==
  ASSUME NEW S \in SUBSET Int, IsFiniteSet(S), NEW x \in S, NEW z \in S
  PROVE  /\ Rank(S, x) \in 0..(Cardinality(S) - 1)
         /\ x < z => Rank(S, x) < Rank(S, z)
PROOF
  <1> DEFINE A(u) == {y \in S : y < u}
  <1>1. ASSUME NEW u \in S
        PROVE  /\ IsFiniteSet(A(u)) /\ Cardinality(A(u)) \in Nat
               /\ Cardinality(A(u)) < Cardinality(S)
    <2>1. A(u) \in SUBSET S /\ u \notin A(u)  BY <1>1
    <2>2. IsFiniteSet(A(u)) /\ Cardinality(A(u)) <= Cardinality(S)
          /\ (Cardinality(S) = Cardinality(A(u)) => S = A(u))
      BY <2>1, FS_Subset
    <2>3. Cardinality(A(u)) \in Nat /\ Cardinality(S) \in Nat  BY <2>2, FS_CardinalityType
    <2> QED  BY <2>1, <2>2, <2>3, <1>1
  <1>2. Cardinality(S) \in Nat  BY FS_CardinalityType
  <1>3. ASSUME x < z  PROVE Cardinality(A(x)) < Cardinality(A(z))
    <2>1. A(x) \in SUBSET A(z) /\ x \in A(z) /\ x \notin A(x)
      <3>1. \A y \in S : y \in Int  OBVIOUS
      <3>2. \A y \in S : y < x => y < z  BY <1>3, <3>1
      <3>3. x \in A(z) /\ x \notin A(x)  BY <1>3, <3>1
      <3>4. A(x) \subseteq A(z)  BY <3>2
      <3> QED  BY <3>3, <3>4
    <2>2. Cardinality(A(x)) <= Cardinality(A(z)) /\ (Cardinality(A(z)) = Cardinality(A(x)) => A(z) = A(x))
      BY <2>1, <1>1, FS_Subset
    <2> QED  BY <2>1, <2>2, <1>1
  <1> HIDE DEF A
  <1>4. Rank(S, x) = Cardinality(A(x)) /\ Rank(S, z) = Cardinality(A(z))  BY DEF Rank, A
  <1> QED  BY <1>1, <1>2, <1>3, <1>4

(* Sorted(S) lists the members of S, each once and in order. *)
LEMMA SortedList ==
  ASSUME NEW S \in SUBSET Int, IsFiniteSet(S)
  PROVE  /\ Sorted(S) \in Seq(S) /\ Len(Sorted(S)) = Cardinality(S) /\ Cardinality(S) \in Nat
         /\ \A x \in S : \E i \in 1..Len(Sorted(S)) : Sorted(S)[i] = x
         /\ \A i, j \in 1..Len(Sorted(S)) : i < j => Sorted(S)[i] < Sorted(S)[j]
PROOF
  <1> DEFINE N == Cardinality(S)
             f == [x \in S |-> Rank(S, x) + 1]
             s == Sorted(S)
  <1>1. N \in Nat  BY FS_CardinalityType
  <1>2. \A x \in S : Rank(S, x) + 1 \in 1..N  BY <1>1, RankOrder
  <1>3. f \in [S -> 1..N]  BY <1>2
  <1>4. \A x, z \in S : f[x] = f[z] => x = z
    <2> SUFFICES ASSUME NEW x \in S, NEW z \in S, x # z PROVE f[x] # f[z]  OBVIOUS
    <2>1. x < z \/ z < x  OBVIOUS
    <2>2. Rank(S, x) < Rank(S, z) \/ Rank(S, z) < Rank(S, x)  BY <2>1, RankOrder
    <2>3. Rank(S, x) \in Int /\ Rank(S, z) \in Int  BY <1>1, RankOrder
    <2> QED  BY <2>2, <2>3
  <1>5. f \in Injection(S, 1..N)  BY <1>3, <1>4 DEF Injection, IsInjective
  <1>6. IsFiniteSet(1..N) /\ Cardinality(1..N) = N  BY <1>1, FS_Interval
  <1>7. f \in Surjection(S, 1..N)
    <2> HIDE DEF f
    <2> QED BY <1>5, <1>6, FS_Injection
  <1>8. \A i \in 1..N : \E x \in S : Rank(S, x) = i - 1
    <2> SUFFICES ASSUME NEW i \in 1..N PROVE \E x \in S : Rank(S, x) = i - 1  OBVIOUS
    <2>1. PICK x \in S : f[x] = i  BY <1>7 DEF Surjection
    <2>2. Rank(S, x) \in Int  BY <1>1, RankOrder
    <2> QED  BY <2>1, <2>2, <1>1
  <1>9. s = [i \in 1..N |-> CHOOSE x \in S : Rank(S, x) = i - 1]  BY DEF Sorted, Rank
  <1>10. \A i \in 1..N : s[i] \in S /\ Rank(S, s[i]) = i - 1  BY <1>8, <1>9
  <1>11. s \in [1..N -> S]  BY <1>9, <1>10
  <1>12. s \in Seq(S) /\ Len(s) = N  BY <1>11, <1>1
  <1>13. ASSUME NEW x \in S PROVE \E i \in 1..N : s[i] = x
    <2>1. f[x] \in 1..N /\ f[x] = Rank(S, x) + 1  BY <1>3
    <2>2. s[f[x]] \in S /\ Rank(S, s[f[x]]) = Rank(S, x)
      <3> HIDE DEF f, s
      <3> QED BY <2>1, <1>10, RankOrder, <1>1
    <2>3. f[s[f[x]]] = f[x]  BY <2>2
    <2>4. s[f[x]] = x  BY <2>2, <2>3, <1>4
    <2> QED  BY <2>1, <2>4
  <1>14. ASSUME NEW i \in 1..N, NEW j \in 1..N, i < j PROVE s[i] < s[j]
    <2>1. s[i] \in S /\ s[j] \in S /\ Rank(S, s[i]) < Rank(S, s[j])  BY <1>10, <1>14, <1>1
    <2>2. Rank(S, s[i]) \in Int /\ Rank(S, s[j]) \in Int  BY <1>10, <1>1
    <2>3. s[i] # s[j]  BY <2>1, <2>2
    <2>4. \A x, z \in S : x < z => Rank(S, x) < Rank(S, z)  BY RankOrder
    <2> HIDE DEF s
    <2>5. ASSUME s[j] < s[i] PROVE FALSE
      <3>1. Rank(S, s[j]) < Rank(S, s[i])  BY <2>1, <2>4, <2>5
      <3> HIDE DEF N
      <3> QED  BY <3>1, <2>1, <2>2
    <2>6. s[i] \in Int /\ s[j] \in Int  BY <2>1
    <2> QED  BY <2>3, <2>5, <2>6
  <1> HIDE DEF s
  <1>15. N = Cardinality(S)  OBVIOUS
  <1> HIDE DEF N
  <1>16. \A x \in S : \E i \in 1..Len(s) : s[i] = x  BY <1>12, <1>13
  <1>17. \A i, j \in 1..Len(s) : i < j => s[i] < s[j]  BY <1>12, <1>14
  <1> QED  BY <1>1, <1>12, <1>15, <1>16, <1>17 DEF s

(* An interval is sorted from its first number on. *)
LEMMA SortedInterval ==
  ASSUME NEW a \in Int, NEW b \in Int, a <= b + 1
  PROVE  Sorted(a..b) = [i \in 1..(b - a + 1) |-> a + i - 1]
PROOF
  <1>1. Cardinality(a..b) = b - a + 1  BY FS_Interval
  <1>2. ASSUME NEW x \in a..b PROVE Cardinality({y \in a..b : y < x}) = x - a
    <2>1. {y \in a..b : y < x} = a..(x - 1)  OBVIOUS
    <2>2. PICK c \in Int : c = x - 1  OBVIOUS
    <2>3. Cardinality(a..c) = IF a > c THEN 0 ELSE c - a + 1  BY FS_Interval
    <2>4. Cardinality(a..c) = x - a  BY <2>2, <2>3
    <2> QED  BY <2>1, <2>2, <2>4
  <1>3. ASSUME NEW i \in 1..(b - a + 1)
        PROVE  (CHOOSE x \in a..b : Cardinality({y \in a..b : y < x}) = i - 1) = a + i - 1
    <2>1. a + i - 1 \in a..b /\ (a + i - 1) - a = i - 1  OBVIOUS
    <2>2. \A x \in a..b : Cardinality({y \in a..b : y < x}) = i - 1 <=> x = a + i - 1
      BY <1>2
    <2> QED  BY <2>1, <2>2
  <1> QED  BY <1>1, <1>3 DEF Sorted

(* Take returns a prefix, of one item when the count is one. *)
LEMMA TakePrefix ==
  ASSUME NEW S, NEW s \in Seq(S), NEW o \in Option(Nat)
  PROVE  /\ Take(s, o) \in Seq(S) /\ Len(Take(s, o)) <= Len(s)
         /\ \A i \in 1..Len(Take(s, o)) : Take(s, o)[i] = s[i]
         /\ (o = Some(1) /\ s # <<>>) => Len(Take(s, o)) = 1
PROOF
  <1>1. CASE o = None  BY <1>1 DEF Take, None, Some
  <1>2. CASE o # None
    <2>1. PICK n \in Nat : o = <<n>>
      <3>1. o \in Seq(Nat) /\ Len(o) <= 1 /\ o # <<>>  BY <1>2 DEF Option, None
      <3>2. Len(o) \in Nat /\ Len(o) # 0  BY <3>1
      <3>3. Len(o) = 1
        <4>1. PICK l \in Nat : l = Len(o)  BY <3>2
        <4>2. l <= 1 /\ l # 0  BY <3>1, <3>2, <4>1
        <4> QED  BY <4>1, <4>2
      <3>4. o[1] \in Nat /\ o = <<o[1]>>  BY <3>1, <3>3
      <3> QED  BY <3>4
    <2>2. PICK k : k = Min({n, Len(s)})  OBVIOUS
    <2>3. k \in {n, Len(s)} /\ k <= n /\ k <= Len(s)
      <3>1. \E x \in {n, Len(s)} : \A y \in {n, Len(s)} : x =< y  BY <2>1
      <3> QED  BY <3>1, <2>2 DEF Min
    <2>4. Take(s, o) = SubSeq(s, 1, k)  BY <1>2, <2>1, <2>2 DEF Take
    <2>5. k \in Nat /\ Len(s) \in Nat  BY <2>3, <2>1
    <2>6. SubSeq(s, 1, k) \in Seq(S) /\ Len(SubSeq(s, 1, k)) = k
          /\ \A i \in 1..k : SubSeq(s, 1, k)[i] = s[i]
      BY <2>3, <2>5
    <2>7. (o = Some(1) /\ s # <<>>) => k = 1
      <3> SUFFICES ASSUME o = Some(1), s # <<>> PROVE k = 1  OBVIOUS
      <3>1. n = 1  BY <2>1 DEF Some
      <3>2. Len(s) # 0  OBVIOUS
      <3> QED  BY <3>1, <3>2, <2>3, <2>5
    <2> QED  BY <2>3, <2>4, <2>5, <2>6, <2>7
  <1> QED  BY <1>1, <1>2

(* The first members of a set of numbers: what is left out comes after them. *)
LEMMA TakeSorted ==
  ASSUME NEW S \in SUBSET Int, IsFiniteSet(S), NEW o \in Option(Nat),
         NEW t, t = Take(Sorted(S), o)
  PROVE  /\ t \in Seq(S) /\ ToSet(t) \subseteq S
         /\ \A x \in S \ ToSet(t) : t # <<>> => x > t[Len(t)]
         /\ t # <<>> => t[Len(t)] \in ToSet(t) /\ \A x \in ToSet(t) : x <= t[Len(t)]
         /\ (o = Some(1) /\ S # {}) => t # <<>>
         /\ o = None => ToSet(t) = S
PROOF
  <1> DEFINE s == Sorted(S)
  <1>1. /\ s \in Seq(S) /\ Len(s) = Cardinality(S) /\ Cardinality(S) \in Nat
        /\ \A x \in S : \E i \in 1..Len(s) : s[i] = x
        /\ \A i, j \in 1..Len(s) : i < j => s[i] < s[j]
    BY SortedList
  <1>2. t = Take(s, o)  OBVIOUS
  <1> HIDE DEF s
  <1>3. /\ t \in Seq(S) /\ Len(t) <= Len(s) /\ Len(t) \in Nat /\ Len(s) \in Nat
        /\ \A i \in 1..Len(t) : t[i] = s[i]
        /\ (o = Some(1) /\ s # <<>>) => Len(t) = 1
    BY <1>1, <1>2, TakePrefix
  <1>4. DOMAIN t = 1..Len(t)  BY <1>3
  <1>5. ToSet(t) = {t[i] : i \in 1..Len(t)}  BY <1>4 DEF ToSet
  <1>6. ToSet(t) \subseteq S  BY <1>3, <1>5
  <1>7. \A x \in S : x \in Int  OBVIOUS
  <1>8. ASSUME NEW x \in S \ ToSet(t), t # <<>> PROVE x > t[Len(t)]
    <2>1. PICK i \in 1..Len(s) : s[i] = x  BY <1>1
    <2>2. i \notin 1..Len(t)  BY <2>1, <1>3, <1>5, <1>8
    <2>3. Len(t) \in 1..Len(s) /\ Len(t) < i  BY <2>2, <1>3, <1>8
    <2>4. s[Len(t)] < s[i] /\ s[Len(t)] = t[Len(t)]  BY <2>3, <1>1, <1>3
    <2> QED  BY <2>1, <2>4, <1>7, <1>1, <2>3
  <1>9. ASSUME t # <<>> PROVE t[Len(t)] \in ToSet(t) /\ \A x \in ToSet(t) : x <= t[Len(t)]
    <2>1. Len(t) \in 1..Len(t)  BY <1>3, <1>9
    <2>2. ASSUME NEW i \in 1..Len(t) PROVE t[i] <= t[Len(t)]
      <3>1. i = Len(t) \/ i < Len(t)  BY <1>3
      <3>2. t[i] \in S /\ t[Len(t)] \in S  BY <1>3, <2>1
      <3>3. i < Len(t) => t[i] < t[Len(t)]  BY <1>1, <1>3, <2>1
      <3>4. t[i] \in Int /\ t[Len(t)] \in Int  BY <3>2, <1>7
      <3>5. i = Len(t) => t[i] = t[Len(t)]  OBVIOUS
      <3> QED  BY <3>1, <3>3, <3>4, <3>5
    <2> QED  BY <2>1, <2>2, <1>5
  <1>10. (o = Some(1) /\ S # {}) => t # <<>>
    <2> SUFFICES ASSUME o = Some(1), S # {} PROVE t # <<>>  OBVIOUS
    <2>1. PICK x \in S : TRUE  OBVIOUS
    <2>2. PICK i \in 1..Len(s) : s[i] = x  BY <1>1
    <2>3. Len(s) # 0  BY <2>2, <1>3
    <2>4. s # <<>>  BY <2>3
    <2>5. Len(t) = 1  BY <2>4, <1>3
    <2>6. ASSUME t = <<>> PROVE FALSE  BY <2>5, <2>6
    <2> QED  BY <2>6
  <1>11. o = None => ToSet(t) = S
    <2> SUFFICES ASSUME o = None PROVE ToSet(t) = S  OBVIOUS
    <2>1. t = s  BY <1>2 DEF Take
    <2> QED  BY <2>1, <1>1, <1>5, <1>6
  <1> QED  BY <1>3, <1>6, <1>8, <1>9, <1>10, <1>11

-----------------------------------------------------------------------------
(* A concatenation: its length, its items and the set of them. *)
IsCat(u, s, t) ==
  /\ Len(u) = Len(s) + Len(t) /\ Len(s) \in Nat /\ Len(t) \in Nat
  /\ \A i \in 1..Len(s) : u[i] = s[i]
  /\ \A i \in (Len(s) + 1)..(Len(s) + Len(t)) : u[i] = t[i - Len(s)]
  /\ ToSet(u) = ToSet(s) \cup ToSet(t)

LEMMA Cat ==
  ASSUME NEW A, NEW s \in Seq(A), NEW B, NEW t \in Seq(B)
  PROVE  s \o t \in Seq(A \cup B) /\ IsCat(s \o t, s, t)
PROOF
  <1>1. s \in Seq(A \cup B) /\ t \in Seq(A \cup B)  OBVIOUS
  <1>2. s \o t \in Seq(A \cup B) /\ Len(s \o t) = Len(s) + Len(t) /\ Len(s) \in Nat /\ Len(t) \in Nat
    BY <1>1
  <1>3. \A i \in 1..Len(s) : (s \o t)[i] = s[i]  BY <1>1
  <1>4. \A i \in (Len(s) + 1)..(Len(s) + Len(t)) : (s \o t)[i] = t[i - Len(s)]  BY <1>1
  <1>5. ASSUME NEW i \in 1..Len(t) PROVE (s \o t)[Len(s) + i] = t[i]
    <2>1. Len(s) + i \in (Len(s) + 1)..(Len(s) + Len(t)) /\ (Len(s) + i) - Len(s) = i  BY <1>2
    <2>2. (s \o t)[Len(s) + i] = t[(Len(s) + i) - Len(s)]  BY <2>1, <1>4
    <2> QED  BY <2>1, <2>2
  <1>6. DOMAIN s = 1..Len(s) /\ DOMAIN t = 1..Len(t) /\ DOMAIN (s \o t) = 1..(Len(s) + Len(t))
    BY <1>1, <1>2
  <1>7. ToSet(s) \cup ToSet(t) \subseteq ToSet(s \o t)
    <2>1. ASSUME NEW i \in 1..Len(s) PROVE s[i] \in ToSet(s \o t)
      <3>1. i \in 1..(Len(s) + Len(t)) /\ s[i] = (s \o t)[i]  BY <1>2, <1>3
      <3> QED  BY <3>1, <1>6 DEF ToSet
    <2>2. ASSUME NEW i \in 1..Len(t) PROVE t[i] \in ToSet(s \o t)
      <3>1. Len(s) + i \in 1..(Len(s) + Len(t)) /\ t[i] = (s \o t)[Len(s) + i]  BY <1>2, <1>5
      <3> QED  BY <3>1, <1>6 DEF ToSet
    <2> QED  BY <2>1, <2>2, <1>6 DEF ToSet
  <1>8. ToSet(s \o t) \subseteq ToSet(s) \cup ToSet(t)
    <2>1. ASSUME NEW i \in 1..(Len(s) + Len(t)) PROVE (s \o t)[i] \in ToSet(s) \cup ToSet(t)
      <3>1. CASE i \in 1..Len(s)  BY <3>1, <1>3, <1>6 DEF ToSet
      <3>2. CASE i \notin 1..Len(s)
        <4>1. i \in (Len(s) + 1)..(Len(s) + Len(t)) /\ i - Len(s) \in 1..Len(t)  BY <3>2, <1>2
        <4> QED  BY <4>1, <1>4, <1>6 DEF ToSet
      <3> QED  BY <3>1, <3>2
    <2> QED  BY <2>1, <1>6 DEF ToSet
  <1> QED  BY <1>2, <1>3, <1>4, <1>7, <1>8 DEF IsCat

(* Two sequences with the same length and items are the same. *)
LEMMA SameSeq ==
  ASSUME NEW A, NEW s \in Seq(A), NEW B, NEW t \in Seq(B), Len(s) = Len(t),
         \A i \in 1..Len(s) : s[i] = t[i]
  PROVE  s = t
PROOF
  <1>1. s \in [1..Len(s) -> A] /\ t \in [1..Len(s) -> B]  OBVIOUS
  <1> QED  BY <1>1

(* The arguments written for a sequence. *)
LEMMA ArgsSeq ==
  ASSUME NEW A, NEW s \in Seq(A)
  PROVE  /\ Args(s) \in Seq({<<"arg", x>> : x \in A}) /\ Len(Args(s)) = Len(s)
         /\ \A i \in 1..Len(s) : Args(s)[i] = <<"arg", s[i]>>
PROOF
  <1>1. Len(s) \in Nat /\ DOMAIN s = 1..Len(s) /\ \A i \in 1..Len(s) : s[i] \in A  OBVIOUS
  <1>2. Args(s) \in [1..Len(s) -> {<<"arg", x>> : x \in A}]  BY <1>1 DEF Args
  <1> QED  BY <1>1, <1>2 DEF Args

(* The items of a command, by position. *)
IsCommand(cmd, name, xs, os, ys) ==
  LET p == Len(xs)
      q == Len(os)
      r == Len(ys)
  IN /\ p \in Nat /\ q \in Nat /\ r \in Nat
     /\ Len(cmd) = 1 + p + q + r /\ DOMAIN cmd = 1..(1 + p + q + r)
     /\ cmd[1] = <<name>>
     /\ \A i \in 2..(1 + p) : cmd[i] = <<"arg", xs[i - 1]>>
     /\ \A i \in (2 + p)..(1 + p + q) : cmd[i] = os[i - 1 - p]
     /\ \A i \in (2 + p + q)..(1 + p + q + r) : cmd[i] = <<"arg", ys[i - 1 - p - q]>>
     /\ ToSet(cmd) = {<<name>>} \cup ToSet(Args(xs)) \cup ToSet(os) \cup ToSet(Args(ys))

LEMMA CommandItems ==
  ASSUME NEW name, NEW A, NEW xs \in Seq(A), NEW O, NEW os \in Seq(O), NEW B, NEW ys \in Seq(B)
  PROVE  IsCommand(Command(name, xs, os, ys), name, xs, os, ys)
PROOF
  <1> DEFINE c1 == <<<<name>>>>
             c2 == c1 \o Args(xs)
             c3 == c2 \o os
             c4 == c3 \o Args(ys)
             X == {<<"arg", x>> : x \in A}
             Y == {<<"arg", x>> : x \in B}
             p == Len(xs)
             q == Len(os)
             r == Len(ys)
  <1>1. c1 \in Seq({<<name>>}) /\ Len(c1) = 1 /\ c1[1] = <<name>> /\ ToSet(c1) = {<<name>>}
    BY DEF ToSet
  <1>2. Args(xs) \in Seq(X) /\ Len(Args(xs)) = p /\ \A i \in 1..p : Args(xs)[i] = <<"arg", xs[i]>>
    BY ArgsSeq
  <1>3. Args(ys) \in Seq(Y) /\ Len(Args(ys)) = r /\ \A i \in 1..r : Args(ys)[i] = <<"arg", ys[i]>>
    BY ArgsSeq
  <1>4. p \in Nat /\ q \in Nat /\ r \in Nat  OBVIOUS
  <1> HIDE DEF c1, X, Y, p, q, r
  <1>5. /\ c2 \in Seq({<<name>>} \cup X) /\ Len(c2) = 1 + p
        /\ c2[1] = <<name>> /\ \A i \in 2..(1 + p) : c2[i] = Args(xs)[i - 1]
        /\ ToSet(c2) = {<<name>>} \cup ToSet(Args(xs))
    <2>1. c2 \in Seq({<<name>>} \cup X) /\ IsCat(c2, c1, Args(xs))  BY <1>1, <1>2, Cat
    <2> QED  BY <2>1, <1>1, <1>2, <1>4 DEF IsCat
  <1> HIDE DEF c2
  <1>6. /\ c3 \in Seq(({<<name>>} \cup X) \cup O) /\ Len(c3) = 1 + p + q
        /\ \A i \in 1..(1 + p) : c3[i] = c2[i]
        /\ \A i \in (2 + p)..(1 + p + q) : c3[i] = os[i - (1 + p)]
        /\ ToSet(c3) = ToSet(c2) \cup ToSet(os)
    <2>1. c3 \in Seq(({<<name>>} \cup X) \cup O) /\ IsCat(c3, c2, os)  BY <1>5, Cat
    <2>2. Len(os) = q  BY DEF q
    <2> QED  BY <2>1, <2>2, <1>5, <1>4 DEF IsCat
  <1> HIDE DEF c3
  <1>7. /\ c4 \in Seq((({<<name>>} \cup X) \cup O) \cup Y) /\ Len(c4) = 1 + p + q + r
        /\ \A i \in 1..(1 + p + q) : c4[i] = c3[i]
        /\ \A i \in (2 + p + q)..(1 + p + q + r) : c4[i] = Args(ys)[i - (1 + p + q)]
        /\ ToSet(c4) = ToSet(c3) \cup ToSet(Args(ys))
    <2>1. c4 \in Seq((({<<name>>} \cup X) \cup O) \cup Y) /\ IsCat(c4, c3, Args(ys))  BY <1>6, <1>3, Cat
    <2> QED  BY <2>1, <1>6, <1>3, <1>4 DEF IsCat
  <1> HIDE DEF c4
  <1>8. c4 = Command(name, xs, os, ys)  BY DEF Command, c1, c2, c3, c4
  <1>9. c4[1] = <<name>>  BY <1>4, <1>5, <1>6, <1>7
  <1>10. ASSUME NEW i \in 2..(1 + p) PROVE c4[i] = <<"arg", xs[i - 1]>>
    <2>1. i \in 1..(1 + p) /\ i \in 1..(1 + p + q) /\ i - 1 \in 1..p  BY <1>4
    <2> QED  BY <2>1, <1>2, <1>5, <1>6, <1>7
  <1>11. ASSUME NEW i \in (2 + p)..(1 + p + q) PROVE c4[i] = os[i - 1 - p]
    <2>1. i \in 1..(1 + p + q) /\ i - (1 + p) = i - 1 - p  BY <1>4
    <2>2. c4[i] = c3[i] /\ c3[i] = os[i - (1 + p)]  BY <2>1, <1>6, <1>7
    <2> QED  BY <2>1, <2>2
  <1>12. ASSUME NEW i \in (2 + p + q)..(1 + p + q + r) PROVE c4[i] = <<"arg", ys[i - 1 - p - q]>>
    <2>1. i - (1 + p + q) \in 1..r /\ i - (1 + p + q) = i - 1 - p - q  BY <1>4
    <2>2. c4[i] = Args(ys)[i - (1 + p + q)]  BY <1>7
    <2> QED  BY <2>1, <2>2, <1>3
  <1>13. ToSet(c4) = {<<name>>} \cup ToSet(Args(xs)) \cup ToSet(os) \cup ToSet(Args(ys))
    BY <1>5, <1>6, <1>7
  <1>14. DOMAIN c4 = 1..(1 + p + q + r)  BY <1>7
  <1> QED  BY <1>4, <1>7, <1>8, <1>9, <1>10, <1>11, <1>12, <1>13, <1>14 DEF p, q, r, IsCommand

(* What the server finds in a command: the arguments in order, the options by keyword. *)
ItemsOf(os, w) == {x \in ToSet(os) : x[1] = w}

IsSeq(s) == s \in Seq(ToSet(s))
IsOptions(os) == IsSeq(os) /\ \A x \in ToSet(os) : x[1] # "arg"

Finds(cmd, name, xs, os, ys) ==
  /\ cmd[1][1] = name
  /\ ArgsOf(cmd) = xs \o ys
  /\ OptionsAfter(Len(xs), cmd)
  /\ os = <<>> => \A n : OptionsAfter(n, cmd)
  /\ \A w : (w # name /\ w # "arg") => Items(cmd, w) = ItemsOf(os, w)
  /\ (xs = <<>> /\ os # <<>>) => cmd[Len(cmd) - Len(ys)] = os[Len(os)]

LEMMA CommandFinds ==
  ASSUME NEW name, NEW xs, IsSeq(xs), NEW os, IsOptions(os), NEW ys, IsSeq(ys)
  PROVE  Finds(Command(name, xs, os, ys), name, xs, os, ys)
PROOF
  <1> DEFINE A == ToSet(xs)
             O == ToSet(os)
             B == ToSet(ys)
  <1>0. xs \in Seq(A) /\ os \in Seq(O) /\ ys \in Seq(B) /\ \A x \in O : x[1] # "arg"
    BY DEF IsSeq, IsOptions
  <1> HIDE DEF A, O, B
  <1> DEFINE cmd == Command(name, xs, os, ys)
             p == Len(xs)
             q == Len(os)
             r == Len(ys)
             opts == (p + 2)..(p + 1 + q)
  <1>1. /\ p \in Nat /\ q \in Nat /\ r \in Nat
        /\ Len(cmd) = 1 + p + q + r /\ DOMAIN cmd = 1..(1 + p + q + r)
        /\ cmd[1] = <<name>>
        /\ \A i \in 2..(1 + p) : cmd[i] = <<"arg", xs[i - 1]>>
        /\ \A i \in (2 + p)..(1 + p + q) : cmd[i] = os[i - 1 - p]
        /\ \A i \in (2 + p + q)..(1 + p + q + r) : cmd[i] = <<"arg", ys[i - 1 - p - q]>>
        /\ ToSet(cmd) = {<<name>>} \cup ToSet(Args(xs)) \cup ToSet(os) \cup ToSet(Args(ys))
    <2>1. IsCommand(cmd, name, xs, os, ys)  BY <1>0, CommandItems
    <2> HIDE DEF cmd
    <2> QED  BY <2>1 DEF IsCommand
  <1>2. /\ DOMAIN os = 1..q /\ \A i \in 1..q : os[i] \in O
        /\ DOMAIN xs = 1..p /\ \A i \in 1..p : xs[i] \in A
        /\ DOMAIN ys = 1..r /\ \A i \in 1..r : ys[i] \in B
    BY <1>0
  <1>3. xs \o ys \in Seq(A \cup B) /\ IsCat(xs \o ys, xs, ys)  BY <1>0, Cat
  <1>p. q = 0 => os = <<>>  BY <1>0
  <1>q. q = Len(os) /\ p = Len(xs) /\ r = Len(ys)  OBVIOUS
  <1> HIDE DEF cmd, p, q, r
  <1>4. OptionsAt(cmd) = opts
    <2>1. ASSUME NEW i \in 2..(1 + p + q + r), i \notin opts PROVE cmd[i][1] = "arg"
      <3>1. i \in 2..(1 + p) \/ i \in (2 + p + q)..(1 + p + q + r)  BY <2>1, <1>1
      <3> QED  BY <3>1, <1>1
    <2>2. ASSUME NEW i \in opts PROVE i \in 2..(1 + p + q + r) /\ cmd[i][1] # "arg"
      <3>1. i \in (2 + p)..(1 + p + q) /\ i - 1 - p \in 1..q /\ i \in 2..(1 + p + q + r)  BY <1>1
      <3>2. cmd[i] = os[i - 1 - p] /\ os[i - 1 - p] \in O  BY <3>1, <1>1, <1>2
      <3> QED  BY <3>1, <3>2, <1>0
    <2> QED  BY <2>1, <2>2, <1>1 DEF OptionsAt
  <1>5. Cardinality(opts) = q
    <2>1. PICK a \in Int, b \in Int : a = p + 2 /\ b = p + 1 + q  BY <1>1
    <2>2. Cardinality(a..b) = IF a > b THEN 0 ELSE b - a + 1  BY FS_Interval
    <2> QED  BY <2>1, <2>2, <1>1
  <1>6. ArgsOf(cmd) = xs \o ys
    <2> DEFINE at(i) == IF \E j \in opts : j <= i + 1 THEN i + 1 + q ELSE i + 1
    <2>1. ArgsOf(cmd) = [i \in 1..(p + r) |-> cmd[at(i)][2]]
      <3>1. Len(cmd) - 1 - q = p + r  BY <1>1
      <3> QED  BY <3>1, <1>4, <1>5 DEF ArgsOf
    <2>2. ASSUME NEW i \in 1..(p + r) PROVE cmd[at(i)][2] = (xs \o ys)[i]
      <3>1. CASE i <= p
        <4>1. ~\E j \in opts : j <= i + 1  BY <3>1, <1>1
        <4>2. at(i) = i + 1  BY <4>1
        <4>3. i + 1 \in 2..(1 + p) /\ (i + 1) - 1 = i /\ i \in 1..p  BY <3>1, <1>1
        <4>4. cmd[i + 1] = <<"arg", xs[i]>>  BY <4>3, <1>1
        <4>5. (xs \o ys)[i] = xs[i]  BY <4>3, <1>3, <1>q DEF IsCat
        <4> QED  BY <4>2, <4>4, <4>5
      <3>2. CASE i > p
        <4>1. at(i) = i + 1 + q
          <5>1. CASE q = 0
            <6>1. ~\E j \in opts : j <= i + 1  BY <5>1, <1>1
            <6> QED  BY <6>1, <5>1, <1>1
          <5>2. CASE q # 0
            <6>1. p + 2 \in opts /\ p + 2 <= i + 1  BY <5>2, <3>2, <1>1
            <6> QED  BY <6>1
          <5> QED  BY <5>1, <5>2
        <4>2. i + 1 + q \in (2 + p + q)..(1 + p + q + r) /\ (i + 1 + q) - 1 - p - q = i - p
              /\ i \in (p + 1)..(p + r)
          BY <3>2, <1>1
        <4>3. cmd[i + 1 + q] = <<"arg", ys[i - p]>>
          <5>1. cmd[i + 1 + q] = <<"arg", ys[(i + 1 + q) - 1 - p - q]>>  BY <4>2, <1>1
          <5> QED  BY <5>1, <4>2
        <4>4. (xs \o ys)[i] = ys[i - p]  BY <4>2, <1>3, <1>q DEF IsCat
        <4> QED  BY <4>1, <4>3, <4>4
      <3>3. i <= p \/ i > p  BY <1>1
      <3> HIDE DEF at
      <3> QED  BY <3>1, <3>2, <3>3
    <2>3. xs \o ys \in [1..(p + r) -> A \cup B]
      <3>1. Len(xs \o ys) = p + r  BY <1>3, <1>q DEF IsCat
      <3>2. PICK u : u = xs \o ys  OBVIOUS
      <3>3. u \in Seq(A \cup B) /\ Len(u) = p + r  BY <3>1, <3>2, <1>3
      <3>4. u \in [1..(p + r) -> A \cup B]  BY <3>3
      <3> QED  BY <3>2, <3>4
    <2> HIDE DEF at
    <2> QED  BY <2>1, <2>2, <2>3
  <1>7. OptionsAfter(Len(xs), cmd)  BY <1>4, <1>5, <1>q DEF OptionsAfter
  <1>8. ASSUME os = <<>> PROVE \A n : OptionsAfter(n, cmd)
    <2>1. q = 0  BY <1>8, <1>q
    <2>2. opts = {}  BY <2>1, <1>1
    <2> QED  BY <2>2, <1>4 DEF OptionsAfter
  <1>9. ASSUME NEW w, w # name, w # "arg" PROVE Items(cmd, w) = ItemsOf(os, w)
    <2>1. \A x \in ToSet(Args(xs)) \cup ToSet(Args(ys)) : x[1] = "arg"  BY DEF ToSet, Args
    <2>2. \A x \in {<<name>>} : x[1] = name  OBVIOUS
    <2> QED  BY <2>1, <2>2, <1>1, <1>9 DEF Items, ItemsOf
  <1>10. ASSUME xs = <<>>, os # <<>> PROVE cmd[Len(cmd) - Len(ys)] = os[Len(os)]
    <2>1. p = 0  BY <1>10, <1>q
    <2>2. q # 0  BY <1>10, <1>p
    <2>3. 1 + q \in (2 + p)..(1 + p + q) /\ (1 + q) - 1 - p = q /\ Len(cmd) - r = 1 + q
      BY <2>1, <2>2, <1>1
    <2>4. cmd[1 + q] = os[(1 + q) - 1 - p]  BY <2>3, <1>1
    <2> QED  BY <2>3, <2>4, <1>q
  <1>11. cmd[1][1] = name  BY <1>1
  <1>12. cmd = Command(name, xs, os, ys)  BY DEF cmd
  <1> QED  BY <1>6, <1>7, <1>8, <1>9, <1>10, <1>11, <1>12 DEF Finds

(* Sequences and options, put together. *)
LEMMA SeqCat ==
  ASSUME NEW s, IsSeq(s), NEW t, IsSeq(t)
  PROVE  IsSeq(s \o t) /\ IsCat(s \o t, s, t)
PROOF
  <1>1. s \o t \in Seq(ToSet(s) \cup ToSet(t)) /\ IsCat(s \o t, s, t)  BY Cat DEF IsSeq
  <1> QED  BY <1>1 DEF IsSeq, IsCat

LEMMA OptionsCat ==
  ASSUME NEW s, IsOptions(s), NEW t, IsOptions(t)
  PROVE  IsOptions(s \o t) /\ \A w : ItemsOf(s \o t, w) = ItemsOf(s, w) \cup ItemsOf(t, w)
PROOF
  <1>1. IsSeq(s \o t) /\ IsCat(s \o t, s, t)  BY SeqCat DEF IsOptions
  <1>2. ToSet(s \o t) = ToSet(s) \cup ToSet(t)  BY <1>1 DEF IsCat
  <1> QED  BY <1>1, <1>2 DEF IsOptions, ItemsOf

LEMMA SeqIsSeq ==
  ASSUME NEW A, NEW s \in Seq(A)
  PROVE  IsSeq(s) /\ ToSet(s) \subseteq A
PROOF
  <1>1. Len(s) \in Nat /\ DOMAIN s = 1..Len(s) /\ s \in [1..Len(s) -> A]  OBVIOUS
  <1>2. s \in [1..Len(s) -> ToSet(s)]  BY <1>1 DEF ToSet
  <1>3. ToSet(s) \subseteq A  BY <1>1 DEF ToSet
  <1>4. s \in Seq(ToSet(s))  BY <1>1, <1>2
  <1> QED  BY <1>3, <1>4 DEF IsSeq

LEMMA ShortSeqs ==
  /\ IsSeq(<<>>) /\ ToSet(<<>>) = {}
  /\ \A a : IsSeq(<<a>>) /\ ToSet(<<a>>) = {a}
  /\ \A a, b : IsSeq(<<a, b>>)
  /\ \A a, b, c : IsSeq(<<a, b, c>>)
  /\ \A a, b, c, d : IsSeq(<<a, b, c, d>>)
  /\ \A a, b, c, d, e : IsSeq(<<a, b, c, d, e>>)
PROOF
  <1>1. IsSeq(<<>>) /\ ToSet(<<>>) = {}  BY DEF IsSeq, ToSet
  <1>2. ASSUME NEW a PROVE IsSeq(<<a>>) /\ ToSet(<<a>>) = {a}  BY DEF IsSeq, ToSet
  <1>3. ASSUME NEW a, NEW b PROVE IsSeq(<<a, b>>)
    <2>1. <<a, b>> \in Seq({a, b})  OBVIOUS
    <2> QED  BY <2>1, SeqIsSeq
  <1>4. ASSUME NEW a, NEW b, NEW c PROVE IsSeq(<<a, b, c>>)
    <2>1. <<a, b, c>> \in Seq({a, b, c})  OBVIOUS
    <2> QED  BY <2>1, SeqIsSeq
  <1>5. ASSUME NEW a, NEW b, NEW c, NEW d PROVE IsSeq(<<a, b, c, d>>)
    <2>1. <<a, b, c, d>> \in Seq({a, b, c, d})  OBVIOUS
    <2> QED  BY <2>1, SeqIsSeq
  <1>6. ASSUME NEW a, NEW b, NEW c, NEW d, NEW e PROVE IsSeq(<<a, b, c, d, e>>)
    <2>1. <<a, b, c, d, e>> \in Seq({a, b, c, d, e})  OBVIOUS
    <2> QED  BY <2>1, SeqIsSeq
  <1> QED  BY <1>1, <1>2, <1>3, <1>4, <1>5, <1>6

(* The items of each kind of option. *)
IsOption(o) == o = <<>> \/ \E x : o = <<x>>

LEMMA OptionIsOption ==
  ASSUME NEW S, NEW o \in Option(S)
  PROVE  IsOption(o) /\ IsSeq(o) /\ (o # <<>> => o[1] \in S /\ o = <<o[1]>>)
PROOF
  <1>1. o \in Seq(S) /\ Len(o) <= 1  BY DEF Option
  <1>2. IsSeq(o)  BY <1>1, SeqIsSeq
  <1>3. CASE Len(o) = 0  BY <1>1, <1>2, <1>3 DEF IsOption
  <1>4. CASE Len(o) = 1
    <2>1. o[1] \in S /\ o = <<o[1]>>  BY <1>1, <1>4
    <2> QED  BY <2>1, <1>2 DEF IsOption
  <1> QED  BY <1>1, <1>3, <1>4

LEMMA ValueOptions ==
  ASSUME NEW word, word # "arg", NEW o, IsOption(o)
  PROVE  /\ IsOptions(Value(word, o))
         /\ \A w : ItemsOf(Value(word, o), w) = IF w = word /\ o # <<>> THEN {<<word, o[1]>>} ELSE {}
PROOF
  <1>1. CASE o = <<>>
    <2>1. Value(word, o) = <<>>  BY <1>1 DEF Value
    <2> QED  BY <2>1, <1>1, ShortSeqs DEF IsOptions, ItemsOf
  <1>2. CASE o # <<>>
    <2>1. PICK x : o = <<x>>  BY <1>2 DEF IsOption
    <2>2. Value(word, o) = <<<<word, x>>>>  BY <2>1 DEF Value
    <2>3. IsSeq(Value(word, o)) /\ ToSet(Value(word, o)) = {<<word, x>>}  BY <2>2, ShortSeqs
    <2>4. x = o[1]  BY <2>1
    <2> QED  BY <2>3, <2>4, <1>2 DEF IsOptions, ItemsOf
  <1> QED  BY <1>1, <1>2

LEMMA ItemOptions ==
  ASSUME NEW x, x[1] # "arg"
  PROVE  IsOptions(<<x>>) /\ \A w : ItemsOf(<<x>>, w) = IF w = x[1] THEN {x} ELSE {}
PROOF  BY ShortSeqs DEF IsOptions, ItemsOf

LEMMA EmptyOptions == IsOptions(<<>>) /\ \A w : ItemsOf(<<>>, w) = {}
PROOF  BY ShortSeqs DEF IsOptions, ItemsOf

LEMMA FlagOptions ==
  ASSUME NEW on \in BOOLEAN, NEW word, word # "arg"
  PROVE  /\ IsOptions(Flag(on, word))
         /\ \A w : ItemsOf(Flag(on, word), w) = IF w = word /\ on THEN {<<word>>} ELSE {}
PROOF
  <1>1. <<word>>[1] = word  OBVIOUS
  <1>2. CASE on  BY <1>1, <1>2, ItemOptions DEF Flag
  <1>3. CASE ~on  BY <1>3, EmptyOptions DEF Flag
  <1> QED  BY <1>2, <1>3

(* What the server binds an option to. *)
LEMMA OptFound ==
  ASSUME NEW cmd, NEW word, NEW o, IsOption(o),
         Items(cmd, word) = IF o # <<>> THEN {<<word, o[1]>>} ELSE {}
  PROVE  Opt(cmd, word) = o
PROOF
  <1>1. CASE o = <<>>  BY <1>1 DEF Opt, Has, None
  <1>2. CASE o # <<>>
    <2>1. PICK x : o = <<x>>  BY <1>2 DEF IsOption
    <2>2. Items(cmd, word) = {<<word, x>>}  BY <1>2, <2>1
    <2>3. Item(cmd, word) = <<word, x>>  BY <2>2 DEF Item
    <2> QED  BY <2>1, <2>2, <2>3 DEF Opt, Has, Some
  <1> QED  BY <1>1, <1>2

LEMMA HasFound ==
  ASSUME NEW cmd, NEW word, NEW on \in BOOLEAN, NEW x, Items(cmd, word) = IF on THEN {x} ELSE {}
  PROVE  Has(cmd, word) = on
PROOF  BY DEF Has

(* The alternating words of a sequence of pairs are those pairs. *)
LEMMA FlattenedPairs ==
  ASSUME NEW A, NEW B, NEW ps \in Seq(A \X B)
  PROVE  /\ IsSeq(Flattened(ps)) /\ Len(Flattened(ps)) = 2 * Len(ps)
         /\ \A i \in 1..Len(ps) : /\ Flattened(ps)[2 * i - 1] = ps[i][1]
                                  /\ Flattened(ps)[2 * i] = ps[i][2]
         /\ ToSet(Flattened(ps)) \subseteq A \cup B
         /\ Alternating(Flattened(ps)) = ps
PROOF
  <1> DEFINE n == Len(ps)
             s == Flattened(ps)
  <1>1. n \in Nat /\ \A i \in 1..n : ps[i] \in A \X B  OBVIOUS
  <1>2. \A i \in 1..n : ps[i][1] \in A /\ ps[i][2] \in B /\ ps[i] = <<ps[i][1], ps[i][2]>>  BY <1>1
  <1>3. ps \in [1..n -> A \X B]  OBVIOUS
  <1> HIDE DEF n
  <1>4. s = [m \in 1..(2 * n) |-> IF m % 2 = 1 THEN ps[(m + 1) \div 2][1] ELSE ps[m \div 2][2]]
    BY DEF Flattened, n
  <1>5. ASSUME NEW m \in 1..(2 * n) PROVE s[m] \in A \cup B
    <2>1. CASE m % 2 = 1
      <3>1. (m + 1) \div 2 \in 1..n  BY <2>1, <1>1
      <3> QED  BY <2>1, <3>1, <1>2, <1>4
    <2>2. CASE m % 2 # 1
      <3>1. m \div 2 \in 1..n  BY <2>2, <1>1
      <3> QED  BY <2>2, <3>1, <1>2, <1>4
    <2> QED  BY <2>1, <2>2
  <1>6. s \in [1..(2 * n) -> A \cup B] /\ 2 * n \in Nat  BY <1>1, <1>4, <1>5
  <1>7. s \in Seq(A \cup B) /\ Len(s) = 2 * n  BY <1>6
  <1>8. IsSeq(s) /\ ToSet(s) \subseteq A \cup B
    <2> HIDE DEF s
    <2> QED  BY <1>7, SeqIsSeq
  <1>9. ASSUME NEW i \in 1..n PROVE s[2 * i - 1] = ps[i][1] /\ s[2 * i] = ps[i][2]
    <2>1. 2 * i - 1 \in 1..(2 * n) /\ 2 * i \in 1..(2 * n)  BY <1>1
    <2>2. (2 * i - 1) % 2 = 1 /\ ((2 * i - 1) + 1) \div 2 = i  BY <1>1
    <2>3. (2 * i) % 2 # 1 /\ (2 * i) \div 2 = i  BY <1>1
    <2> QED  BY <2>1, <2>2, <2>3, <1>4
  <1>10. Alternating(s) = ps
    <2>1. Len(s) \div 2 = n  BY <1>1, <1>7
    <2>2. Alternating(s) = [i \in 1..n |-> <<s[2*i - 1], s[2*i]>>]  BY <2>1 DEF Alternating
    <2>3. \A i \in 1..n : Alternating(s)[i] = ps[i]  BY <2>2, <1>2, <1>9
    <2> HIDE DEF s
    <2>4. Alternating(s) = [i \in 1..n |-> Alternating(s)[i]]  BY <2>2
    <2> QED  BY <2>3, <2>4, <1>3
  <1> QED  BY <1>7, <1>8, <1>9, <1>10 DEF n

-----------------------------------------------------------------------------
(* A command of the shape the server expects is understood, not refused. *)
LEMMA Accepted ==
  ASSUME NEW cmd, NEW name, NEW xs, IsSeq(xs), NEW os, IsOptions(os), NEW ys, IsSeq(ys),
         Finds(cmd, name, xs, os, ys),
         name = "XADD" => Len(xs) = 1 \/ os = <<>>,
         name = "XPENDING" => Len(xs) = 2 \/ os = <<>>,
         name \in {"XREAD", "XREADGROUP"} => xs = <<>> /\ os # <<>> /\ os[Len(os)] = <<"STREAMS">>,
         name \notin {"XADD", "XPENDING", "XREAD", "XREADGROUP"} => ys = <<>>
  PROVE  /\ Parse(cmd) = Understood(cmd) /\ cmd[1][1] = name
         /\ ArgsOf(cmd) = xs \o ys
         /\ ys = <<>> => ArgsOf(cmd) = xs
         /\ xs = <<>> => ArgsOf(cmd) = ys
         /\ \A w : (w # name /\ w # "arg") => Items(cmd, w) = ItemsOf(os, w)
PROOF
  <1>1. /\ cmd[1][1] = name
        /\ ArgsOf(cmd) = xs \o ys
        /\ OptionsAfter(Len(xs), cmd)
        /\ os = <<>> => \A n : OptionsAfter(n, cmd)
        /\ \A w : (w # name /\ w # "arg") => Items(cmd, w) = ItemsOf(os, w)
        /\ (xs = <<>> /\ os # <<>>) => cmd[Len(cmd) - Len(ys)] = os[Len(os)]
    BY DEF Finds
  <1>2. xs \in Seq(ToSet(xs)) /\ ys \in Seq(ToSet(ys))  BY DEF IsSeq
  <1>3. ys = <<>> => xs \o ys = xs
    <2>1. ys = <<>> => \A u \in Seq(ToSet(xs)) : u \o ys = u  OBVIOUS
    <2> QED  BY <2>1, <1>2
  <1>4. xs = <<>> => xs \o ys = ys
    <2>1. xs = <<>> => \A u \in Seq(ToSet(ys)) : xs \o u = u  OBVIOUS
    <2> QED  BY <2>1, <1>2
  <1>5. WellFormed(cmd)
    <2>1. CASE name = "XADD"  BY <2>1, <1>1 DEF WellFormed
    <2>2. CASE name = "XPENDING"  BY <2>2, <1>1 DEF WellFormed
    <2>3. CASE name \in {"XREAD", "XREADGROUP"}
      <3>1. xs = <<>> /\ os # <<>> /\ os[Len(os)] = <<"STREAMS">> /\ Len(xs) = 0  BY <2>3
      <3>2. ArgsOf(cmd) = ys /\ cmd[Len(cmd) - Len(ys)][1] = "STREAMS"  BY <3>1, <1>1, <1>4
      <3>3. OptionsAfter(0, cmd)  BY <3>1, <1>1
      <3> QED  BY <2>3, <3>2, <3>3, <1>1 DEF WellFormed
    <2>4. CASE name \notin {"XADD", "XPENDING", "XREAD", "XREADGROUP"}
      <3>1. ArgsOf(cmd) = xs  BY <2>4, <1>1, <1>3
      <3>2. OptionsAfter(Len(ArgsOf(cmd)), cmd)  BY <3>1, <1>1
      <3> QED  BY <2>4, <3>2, <1>1 DEF WellFormed
    <2> QED  BY <2>1, <2>2, <2>3, <2>4
  <1> QED  BY <1>1, <1>3, <1>4, <1>5 DEF Parse

(* The command the server understands: its name, its arguments and its options. *)
Understands(cmd, name, args, os) ==
  /\ Parse(cmd) = Understood(cmd) /\ cmd[1][1] = name /\ ArgsOf(cmd) = args
  /\ \A w : (w # name /\ w # "arg") => Items(cmd, w) = ItemsOf(os, w)

LEMMA UnderstandsPlain ==
  ASSUME NEW name, NEW xs, IsSeq(xs), NEW os, IsOptions(os),
         name \in {"XADD", "XPENDING"} => os = <<>>, name \notin {"XREAD", "XREADGROUP"}
  PROVE  Understands(Command(name, xs, os, <<>>), name, xs, os)
PROOF
  <1>1. PICK ys : ys = <<>>  OBVIOUS
  <1>2. PICK cmd : cmd = Command(name, xs, os, ys)  OBVIOUS
  <1>3. IsSeq(ys)  BY <1>1, ShortSeqs
  <1>4. Finds(cmd, name, xs, os, ys)  BY <1>2, <1>3, CommandFinds
  <1>5. /\ Parse(cmd) = Understood(cmd) /\ cmd[1][1] = name /\ ArgsOf(cmd) = xs
        /\ \A w : (w # name /\ w # "arg") => Items(cmd, w) = ItemsOf(os, w)
    BY <1>1, <1>3, <1>4, Accepted
  <1> QED  BY <1>1, <1>2, <1>5 DEF Understands

LEMMA UnderstandsStreams ==
  ASSUME NEW name \in {"XREAD", "XREADGROUP"}, NEW os, IsOptions(os), NEW ys, IsSeq(ys)
  PROVE  Understands(Command(name, <<>>, os \o <<<<"STREAMS">>>>, ys), name, ys, os \o <<<<"STREAMS">>>>)
PROOF
  <1>1. PICK xs : xs = <<>>  OBVIOUS
  <1>2. PICK last : last = <<<<"STREAMS">>>>  OBVIOUS
  <1>3. PICK all : all = os \o last  OBVIOUS
  <1>4. PICK cmd : cmd = Command(name, xs, all, ys)  OBVIOUS
  <1>5. IsSeq(xs)  BY <1>1, ShortSeqs
  <1>6. IsOptions(last)
    <2>1. PICK x : x = <<"STREAMS">>  OBVIOUS
    <2>2. IsOptions(<<x>>)  BY <2>1, ItemOptions
    <2> QED  BY <2>1, <2>2, <1>2
  <1>7. IsOptions(all)  BY <1>3, <1>6, OptionsCat
  <1>8. all # <<>> /\ all[Len(all)] = <<"STREAMS">>
    <2>1. IsCat(all, os, last)  BY <1>3, <1>6, SeqCat DEF IsOptions
    <2>2. Len(last) = 1 /\ last[1] = <<"STREAMS">>  BY <1>2
    <2>3. Len(all) = Len(os) + 1 /\ Len(os) \in Nat  BY <2>1, <2>2 DEF IsCat
    <2>4. all[Len(os) + 1] = last[(Len(os) + 1) - Len(os)]  BY <2>1, <2>2, <2>3 DEF IsCat
    <2>5. (Len(os) + 1) - Len(os) = 1  BY <2>3
    <2>6. Len(all) # 0  BY <2>3
    <2> QED  BY <2>2, <2>3, <2>4, <2>5, <2>6
  <1>9. Finds(cmd, name, xs, all, ys)  BY <1>4, <1>5, <1>7, CommandFinds
  <1>10. /\ Parse(cmd) = Understood(cmd) /\ cmd[1][1] = name /\ ArgsOf(cmd) = ys
         /\ \A w : (w # name /\ w # "arg") => Items(cmd, w) = ItemsOf(all, w)
    BY <1>1, <1>5, <1>7, <1>8, <1>9, Accepted
  <1> QED  BY <1>1, <1>2, <1>3, <1>4, <1>10 DEF Understands

LEMMA UnderstandsLate ==
  ASSUME NEW name \in {"XADD", "XPENDING"}, NEW xs, IsSeq(xs), NEW os, IsOptions(os), NEW ys, IsSeq(ys),
         Len(xs) = IF name = "XADD" THEN 1 ELSE 2
  PROVE  Understands(Command(name, xs, os, ys), name, xs \o ys, os)
PROOF
  <1>1. PICK cmd : cmd = Command(name, xs, os, ys)  OBVIOUS
  <1>2. Finds(cmd, name, xs, os, ys)  BY <1>1, CommandFinds
  <1>3. /\ Parse(cmd) = Understood(cmd) /\ cmd[1][1] = name /\ ArgsOf(cmd) = xs \o ys
        /\ \A w : (w # name /\ w # "arg") => Items(cmd, w) = ItemsOf(os, w)
    BY <1>2, Accepted
  <1> QED  BY <1>1, <1>3 DEF Understands

(* The parts of a concatenation. *)
IsJoin(u, s, t) ==
  /\ SubSeq(u, Len(s) + 1, Len(u)) = t /\ SubSeq(u, 1, Len(s)) = s
  /\ Len(u) = Len(s) + Len(t) /\ Len(s) \in Nat /\ Len(t) \in Nat
  /\ \A i \in 1..Len(s) : u[i] = s[i]

LEMMA CatParts ==
  ASSUME NEW s, IsSeq(s), NEW t, IsSeq(t)
  PROVE  IsSeq(s \o t) /\ IsJoin(s \o t, s, t)
PROOF
  <1>1. PICK u : u = s \o t  OBVIOUS
  <1>2. IsSeq(u) /\ IsCat(u, s, t)  BY <1>1, SeqCat
  <1>3. /\ Len(u) = Len(s) + Len(t) /\ Len(s) \in Nat /\ Len(t) \in Nat
        /\ \A i \in 1..Len(s) : u[i] = s[i]
        /\ \A i \in (Len(s) + 1)..(Len(s) + Len(t)) : u[i] = t[i - Len(s)]
    BY <1>2 DEF IsCat
  <1>4. u \in Seq(ToSet(u)) /\ s \in Seq(ToSet(s)) /\ t \in Seq(ToSet(t))  BY <1>2 DEF IsSeq
  <1>5. SubSeq(u, Len(s) + 1, Len(u)) = t
    <2>1. PICK v : v = SubSeq(u, Len(s) + 1, Len(u))  OBVIOUS
    <2>2. v \in Seq(ToSet(u)) /\ Len(v) = Len(t)  BY <2>1, <1>3, <1>4
    <2>3. ASSUME NEW i \in 1..Len(t) PROVE v[i] = t[i]
      <3>1. v[i] = u[Len(s) + 1 + i - 1]  BY <2>1, <1>3, <1>4
      <3>2. Len(s) + 1 + i - 1 \in (Len(s) + 1)..(Len(s) + Len(t)) /\ (Len(s) + 1 + i - 1) - Len(s) = i
        BY <1>3
      <3> QED  BY <3>1, <3>2, <1>3
    <2> QED  BY <2>1, <2>2, <2>3, <1>4, SameSeq
  <1>6. SubSeq(u, 1, Len(s)) = s
    <2>1. PICK v : v = SubSeq(u, 1, Len(s))  OBVIOUS
    <2>2. v \in Seq(ToSet(u)) /\ Len(v) = Len(s)  BY <2>1, <1>3, <1>4
    <2>3. \A i \in 1..Len(s) : v[i] = s[i]  BY <2>1, <1>3, <1>4
    <2> QED  BY <2>1, <2>2, <2>3, <1>4, SameSeq
  <1> QED  BY <1>1, <1>2, <1>3, <1>5, <1>6 DEF IsJoin

(* What the server binds an option to, in a command it understands. *)
Carries(os, word, o) == ItemsOf(os, word) = IF o # <<>> THEN {<<word, o[1]>>} ELSE {}
Flags(os, word, on) == ItemsOf(os, word) = IF on THEN {<<word>>} ELSE {}

LEMMA OptIn ==
  ASSUME NEW cmd, NEW name, NEW args, NEW os, Understands(cmd, name, args, os),
         NEW word, word # name, word # "arg", NEW o, IsOption(o), Carries(os, word, o)
  PROVE  Opt(cmd, word) = o
PROOF
  <1>1. Items(cmd, word) = IF o # <<>> THEN {<<word, o[1]>>} ELSE {}  BY DEF Understands, Carries
  <1> QED  BY <1>1, OptFound

LEMMA HasIn ==
  ASSUME NEW cmd, NEW name, NEW args, NEW os, Understands(cmd, name, args, os),
         NEW word, word # name, word # "arg", NEW on \in BOOLEAN, Flags(os, word, on)
  PROVE  Has(cmd, word) = on
PROOF
  <1>1. Items(cmd, word) = IF on THEN {<<word>>} ELSE {}  BY DEF Understands, Flags
  <1> QED  BY <1>1, HasFound

-----------------------------------------------------------------------------
(* The server reads from the command of each method the arguments of the request. *)

(* XLEN: its key. *)
LEMMA MeansLen ==
  ASSUME NEW r \in [method : {"xlen"}, cmd : {"XLEN"}, key : {k1, k2}]
  PROVE  Parse(Encode(r)) = [cmd |-> r.cmd, key |-> r.key]
PROOF
  <1> DEFINE xs == <<r.key>>
             os == <<>>
             cmd == Command("XLEN", xs, os, <<>>)
  <1>1. Encode(r) = cmd  BY DEF Encode, xlen
  <1>3. IsOptions(os)  BY EmptyOptions
  <1>4. IsSeq(xs) /\ Len(xs) = 1 /\ xs[1] = r.key  BY ShortSeqs
  <1> HIDE DEF xs, os
  <1>5. Understands(cmd, "XLEN", xs, os)  BY <1>3, <1>4, UnderstandsPlain
  <1>6. r.cmd = "XLEN"  OBVIOUS
  <1> HIDE DEF cmd
  <1>8. Understood(cmd) = [cmd |-> r.cmd, key |-> r.key]
    BY <1>4, <1>5, <1>6 DEF Understands, Understood
  <1> QED  BY <1>1, <1>5, <1>8 DEF Understands

(* XINFO GROUPS: its key. *)
LEMMA MeansInfoGroups ==
  ASSUME NEW r \in [method : {"xinfo_groups"}, cmd : {"XINFO_GROUPS"}, key : {k1}]
  PROVE  Parse(Encode(r)) = [cmd |-> r.cmd, key |-> r.key]
PROOF
  <1> DEFINE xs == <<r.key>>
             os == <<>>
             cmd == Command("XINFO_GROUPS", xs, os, <<>>)
  <1>1. Encode(r) = cmd  BY DEF Encode, xinfo
  <1>3. IsOptions(os)  BY EmptyOptions
  <1>4. IsSeq(xs) /\ Len(xs) = 1 /\ xs[1] = r.key  BY ShortSeqs
  <1> HIDE DEF xs, os
  <1>5. Understands(cmd, "XINFO_GROUPS", xs, os)  BY <1>3, <1>4, UnderstandsPlain
  <1>6. r.cmd = "XINFO_GROUPS"  OBVIOUS
  <1> HIDE DEF cmd
  <1>8. Understood(cmd) = [cmd |-> r.cmd, key |-> r.key]
    BY <1>4, <1>5, <1>6 DEF Understands, Understood
  <1> QED  BY <1>1, <1>5, <1>8 DEF Understands

(* XDEL: its key and ids. *)
LEMMA MeansDel ==
  ASSUME NEW r \in [method : {"xdel"}, cmd : {"XDEL"}, key : {k1}, ids : Seq(Nat)]
  PROVE  Parse(Encode(r)) = [cmd |-> r.cmd, key |-> r.key, ids |-> r.ids]
PROOF
  <1> DEFINE pre == <<r.key>>
             xs == pre \o r.ids
             os == <<>>
             cmd == Command("XDEL", xs, os, <<>>)
  <1>1. Encode(r) = cmd  BY DEF Encode, xdel
  <1>2. IsSeq(r.ids)
    <2>1. r.ids \in Seq(Nat)  OBVIOUS
    <2>2. IsSeq(r.ids)  BY <2>1, SeqIsSeq
    <2> QED  BY <2>1, <2>2
  <1>3. IsOptions(os)  BY EmptyOptions
  <1>4. /\ IsSeq(xs) /\ SubSeq(xs, 2, Len(xs)) = r.ids
        /\ xs[1] = r.key
    <2>1. IsSeq(pre) /\ Len(pre) = 1 /\ pre[1] = r.key  BY ShortSeqs
    <2> HIDE DEF pre
    <2>2. IsSeq(xs) /\ IsJoin(xs, pre, r.ids)  BY <2>1, <1>2, CatParts
    <2> HIDE DEF xs
    <2> QED  BY <2>1, <2>2 DEF IsJoin
  <1> HIDE DEF xs, os
  <1>5. Understands(cmd, "XDEL", xs, os)  BY <1>3, <1>4, UnderstandsPlain
  <1>6. r.cmd = "XDEL"  OBVIOUS
  <1> HIDE DEF cmd
  <1>8. Understood(cmd) = [cmd |-> r.cmd, key |-> r.key, ids |-> r.ids]
    BY <1>4, <1>5, <1>6 DEF Understands, Understood
  <1> QED  BY <1>1, <1>5, <1>8 DEF Understands

(* XRANGE: start before end. *)
LEMMA MeansRange ==
  ASSUME NEW r \in RangeSet("xrange", "XRANGE")
  PROVE  Parse(Encode(r)) = [cmd |-> r.cmd, key |-> r.key, start |-> r.start, end |-> r.end]
PROOF
  <1> DEFINE xs == <<r.key, r.start, r.end>>
             os == <<>>
             cmd == Command("XRANGE", xs, os, <<>>)
  <1>1. Encode(r) = cmd  BY DEF Encode, xrange, RangeSet
  <1>3. IsOptions(os)  BY EmptyOptions
  <1>4. IsSeq(xs) /\ Len(xs) = 3 /\ xs[1] = r.key /\ xs[2] = r.start /\ xs[3] = r.end  BY ShortSeqs
  <1> HIDE DEF xs, os
  <1>5. Understands(cmd, "XRANGE", xs, os)  BY <1>3, <1>4, UnderstandsPlain
  <1>6. r.cmd = "XRANGE"  BY DEF RangeSet
  <1> HIDE DEF cmd
  <1>8. Understood(cmd) = [cmd |-> r.cmd, key |-> r.key, start |-> r.start, end |-> r.end]
    BY <1>4, <1>5, <1>6 DEF Understands, Understood
  <1> QED  BY <1>1, <1>5, <1>8 DEF Understands

(* XREVRANGE: end before start. *)
LEMMA MeansRevRange ==
  ASSUME NEW r \in RangeSet("xrevrange", "XREVRANGE")
  PROVE  Parse(Encode(r)) = [cmd |-> r.cmd, key |-> r.key, end |-> r.end, start |-> r.start]
PROOF
  <1> DEFINE xs == <<r.key, r.end, r.start>>
             os == <<>>
             cmd == Command("XREVRANGE", xs, os, <<>>)
  <1>1. Encode(r) = cmd  BY DEF Encode, xrevrange, RangeSet
  <1>3. IsOptions(os)  BY EmptyOptions
  <1>4. IsSeq(xs) /\ Len(xs) = 3 /\ xs[1] = r.key /\ xs[2] = r.end /\ xs[3] = r.start  BY ShortSeqs
  <1> HIDE DEF xs, os
  <1>5. Understands(cmd, "XREVRANGE", xs, os)  BY <1>3, <1>4, UnderstandsPlain
  <1>6. r.cmd = "XREVRANGE"  BY DEF RangeSet
  <1> HIDE DEF cmd
  <1>8. Understood(cmd) = [cmd |-> r.cmd, key |-> r.key, end |-> r.end, start |-> r.start]
    BY <1>4, <1>5, <1>6 DEF Understands, Understood
  <1> QED  BY <1>1, <1>5, <1>8 DEF Understands

(* XGROUP CREATE: whether it makes the stream. *)
LEMMA MeansCreate ==
  ASSUME NEW r \in CreateSet("xgroup_create", {None})
  PROVE  Parse(Encode(r)) = [cmd |-> r.cmd, key |-> r.key, group |-> r.group, id |-> r.id,
           make_stream |-> r.make_stream, entries_read |-> r.entries_read]
PROOF
  <1> DEFINE xs == <<r.key, r.group, r.id>>
             v1 == Flag(r.make_stream, "MKSTREAM")
             os == v1
             cmd == Command("XGROUP_CREATE", xs, os, <<>>)
  <1>1. Encode(r) = cmd  BY DEF Encode, xgroup_create, CreateSet
  <1>2. IsOption(r.entries_read) /\ r.make_stream \in BOOLEAN
    <2>1. r.entries_read \in {None}  BY DEF CreateSet
    <2>2. IsOption(r.entries_read)  BY <2>1 DEF IsOption, None
    <2>3. r.make_stream \in BOOLEAN  BY DEF CreateSet
    <2> QED  BY <2>1, <2>2, <2>3
  <1>3. /\ IsOptions(os)
        /\ Flags(os, "MKSTREAM", r.make_stream)
        /\ Carries(os, "ENTRIESREAD", r.entries_read)
    <2>1. /\ IsOptions(v1)
          /\ \A w : ItemsOf(v1, w) = IF w = "MKSTREAM" /\ r.make_stream THEN {<<"MKSTREAM">>} ELSE {}
      BY <1>2, FlagOptions
    <2>2. r.entries_read = <<>>  BY DEF CreateSet, None
    <2> HIDE DEF v1
    <2> QED  BY <2>1, <2>2 DEF Carries, Flags
  <1>4. IsSeq(xs) /\ Len(xs) = 3 /\ xs[1] = r.key /\ xs[2] = r.group /\ xs[3] = r.id  BY ShortSeqs
  <1> HIDE DEF xs, os
  <1>5. Understands(cmd, "XGROUP_CREATE", xs, os)  BY <1>3, <1>4, UnderstandsPlain
  <1>6. r.cmd = "XGROUP_CREATE"  BY DEF CreateSet
  <1> HIDE DEF cmd
  <1>7. Has(cmd, "MKSTREAM") = r.make_stream /\ Opt(cmd, "ENTRIESREAD") = r.entries_read
    <2>1. Has(cmd, "MKSTREAM") = r.make_stream  BY <1>2, <1>3, <1>5, HasIn
    <2>2. Opt(cmd, "ENTRIESREAD") = r.entries_read  BY <1>2, <1>3, <1>5, OptIn
    <2> QED  BY <2>1, <2>2
  <1>8. Understood(cmd) = [cmd |-> r.cmd, key |-> r.key, group |-> r.group, id |-> r.id,
          make_stream |-> r.make_stream, entries_read |-> r.entries_read]
    BY <1>4, <1>5, <1>6, <1>7 DEF Understands, Understood
  <1> QED  BY <1>1, <1>5, <1>8 DEF Understands

(* XGROUP CREATE with options. *)
LEMMA MeansCreateOptions ==
  ASSUME NEW r \in CreateSet("xgroup_create_options", Option(Nat))
  PROVE  Parse(Encode(r)) = [cmd |-> r.cmd, key |-> r.key, group |-> r.group, id |-> r.id,
           make_stream |-> r.make_stream, entries_read |-> r.entries_read]
PROOF
  <1> DEFINE xs == <<r.key, r.group, r.id>>
             v1 == Flag(r.make_stream, "MKSTREAM")
             v2 == Value("ENTRIESREAD", r.entries_read)
             os == v1 \o v2
             cmd == Command("XGROUP_CREATE", xs, os, <<>>)
  <1>1. Encode(r) = cmd  BY DEF Encode, xgroup_create_options, StreamGroupCreateOptions, CreateSet
  <1>2. IsOption(r.entries_read) /\ r.make_stream \in BOOLEAN
    <2>1. r.entries_read \in Option(Nat)  BY DEF CreateSet
    <2>2. IsOption(r.entries_read)  BY <2>1, OptionIsOption
    <2>3. r.make_stream \in BOOLEAN  BY DEF CreateSet
    <2> QED  BY <2>1, <2>2, <2>3
  <1>3. /\ IsOptions(os)
        /\ Flags(os, "MKSTREAM", r.make_stream)
        /\ Carries(os, "ENTRIESREAD", r.entries_read)
    <2>1. /\ IsOptions(v1)
          /\ \A w : ItemsOf(v1, w) = IF w = "MKSTREAM" /\ r.make_stream THEN {<<"MKSTREAM">>} ELSE {}
      BY <1>2, FlagOptions
    <2>2. /\ IsOptions(v2)
          /\ \A w : ItemsOf(v2, w) = IF w = "ENTRIESREAD" /\ r.entries_read # <<>> THEN {<<"ENTRIESREAD", r.entries_read[1]>>} ELSE {}
      BY <1>2, ValueOptions
    <2> HIDE DEF v1, v2
    <2>3. IsOptions(os) /\ \A w : ItemsOf(os, w) = ItemsOf(v1, w) \cup ItemsOf(v2, w)
      BY <2>1, <2>2, OptionsCat
    <2> HIDE DEF os
    <2> QED  BY <2>3, <2>1, <2>2 DEF Carries, Flags
  <1>4. IsSeq(xs) /\ Len(xs) = 3 /\ xs[1] = r.key /\ xs[2] = r.group /\ xs[3] = r.id  BY ShortSeqs
  <1> HIDE DEF xs, os
  <1>5. Understands(cmd, "XGROUP_CREATE", xs, os)  BY <1>3, <1>4, UnderstandsPlain
  <1>6. r.cmd = "XGROUP_CREATE"  BY DEF CreateSet
  <1> HIDE DEF cmd
  <1>7. Has(cmd, "MKSTREAM") = r.make_stream /\ Opt(cmd, "ENTRIESREAD") = r.entries_read
    <2>1. Has(cmd, "MKSTREAM") = r.make_stream  BY <1>2, <1>3, <1>5, HasIn
    <2>2. Opt(cmd, "ENTRIESREAD") = r.entries_read  BY <1>2, <1>3, <1>5, OptIn
    <2> QED  BY <2>1, <2>2
  <1>8. Understood(cmd) = [cmd |-> r.cmd, key |-> r.key, group |-> r.group, id |-> r.id,
          make_stream |-> r.make_stream, entries_read |-> r.entries_read]
    BY <1>4, <1>5, <1>6, <1>7 DEF Understands, Understood
  <1> QED  BY <1>1, <1>5, <1>8 DEF Understands

(* XGROUP DESTROY: key and group. *)
LEMMA MeansDestroy ==
  ASSUME NEW r \in [method : {"xgroup_destroy"}, cmd : {"XGROUP_DESTROY"}, key : {k1}, group : {g}]
  PROVE  Parse(Encode(r)) = [cmd |-> r.cmd, key |-> r.key, group |-> r.group]
PROOF
  <1> DEFINE xs == <<r.key, r.group>>
             os == <<>>
             cmd == Command("XGROUP_DESTROY", xs, os, <<>>)
  <1>1. Encode(r) = cmd  BY DEF Encode, xgroup_destroy
  <1>3. IsOptions(os)  BY EmptyOptions
  <1>4. IsSeq(xs) /\ Len(xs) = 2 /\ xs[1] = r.key /\ xs[2] = r.group  BY ShortSeqs
  <1> HIDE DEF xs, os
  <1>5. Understands(cmd, "XGROUP_DESTROY", xs, os)  BY <1>3, <1>4, UnderstandsPlain
  <1>6. r.cmd = "XGROUP_DESTROY"  OBVIOUS
  <1> HIDE DEF cmd
  <1>7. ArgsOf(cmd) = xs /\ Len(xs) <= 2 /\ ~(Len(xs) > 2)
    <2>1. ArgsOf(cmd) = xs  BY <1>5 DEF Understands
    <2>2. Len(xs) = 2  BY <1>4
    <2> QED  BY <2>1, <2>2
  <1>8. Understood(cmd) = [cmd |-> r.cmd, key |-> r.key, group |-> r.group]
    BY <1>4, <1>5, <1>6, <1>7 DEF Understands, Understood
  <1> QED  BY <1>1, <1>5, <1>8 DEF Understands

(* XGROUP CREATECONSUMER: key, group and consumer. *)
LEMMA MeansCreateConsumer ==
  ASSUME NEW r \in ConsumerSet("xgroup_create_consumer", "XGROUP_CREATECONSUMER")
  PROVE  Parse(Encode(r)) = [cmd |-> r.cmd, key |-> r.key, group |-> r.group, consumer |-> r.consumer]
PROOF
  <1> DEFINE xs == <<r.key, r.group, r.consumer>>
             os == <<>>
             cmd == Command("XGROUP_CREATECONSUMER", xs, os, <<>>)
  <1>1. Encode(r) = cmd  BY DEF Encode, xgroup_consumer, ConsumerSet
  <1>3. IsOptions(os)  BY EmptyOptions
  <1>4. IsSeq(xs) /\ Len(xs) = 3 /\ xs[1] = r.key /\ xs[2] = r.group /\ xs[3] = r.consumer  BY ShortSeqs
  <1> HIDE DEF xs, os
  <1>5. Understands(cmd, "XGROUP_CREATECONSUMER", xs, os)  BY <1>3, <1>4, UnderstandsPlain
  <1>6. r.cmd = "XGROUP_CREATECONSUMER"  BY DEF ConsumerSet
  <1> HIDE DEF cmd
  <1>8. Understood(cmd) = [cmd |-> r.cmd, key |-> r.key, group |-> r.group, consumer |-> r.consumer]
    BY <1>4, <1>5, <1>6 DEF Understands, Understood
  <1> QED  BY <1>1, <1>5, <1>8 DEF Understands

(* XGROUP DELCONSUMER: key, group and consumer. *)
LEMMA MeansDelConsumer ==
  ASSUME NEW r \in ConsumerSet("xgroup_del_consumer", "XGROUP_DELCONSUMER")
  PROVE  Parse(Encode(r)) = [cmd |-> r.cmd, key |-> r.key, group |-> r.group, consumer |-> r.consumer]
PROOF
  <1> DEFINE xs == <<r.key, r.group, r.consumer>>
             os == <<>>
             cmd == Command("XGROUP_DELCONSUMER", xs, os, <<>>)
  <1>1. Encode(r) = cmd  BY DEF Encode, xgroup_consumer, ConsumerSet
  <1>3. IsOptions(os)  BY EmptyOptions
  <1>4. IsSeq(xs) /\ Len(xs) = 3 /\ xs[1] = r.key /\ xs[2] = r.group /\ xs[3] = r.consumer  BY ShortSeqs
  <1> HIDE DEF xs, os
  <1>5. Understands(cmd, "XGROUP_DELCONSUMER", xs, os)  BY <1>3, <1>4, UnderstandsPlain
  <1>6. r.cmd = "XGROUP_DELCONSUMER"  BY DEF ConsumerSet
  <1> HIDE DEF cmd
  <1>8. Understood(cmd) = [cmd |-> r.cmd, key |-> r.key, group |-> r.group, consumer |-> r.consumer]
    BY <1>4, <1>5, <1>6 DEF Understands, Understood
  <1> QED  BY <1>1, <1>5, <1>8 DEF Understands

(* XGROUP SETID: the id and the entries read. *)
LEMMA MeansGroupSetId ==
  ASSUME NEW r \in [method : {"xgroup_set_id"}, cmd : {"XGROUP_SETID"}, key : {k1}, group : {g}, id : 0..MaxId,
                entries_read : Option(Nat)]
  PROVE  Parse(Encode(r)) = [cmd |-> r.cmd, key |-> r.key, group |-> r.group, id |-> r.id,
           entries_read |-> r.entries_read]
PROOF
  <1> DEFINE xs == <<r.key, r.group, r.id>>
             v1 == Value("ENTRIESREAD", r.entries_read)
             os == v1
             cmd == Command("XGROUP_SETID", xs, os, <<>>)
  <1>1. Encode(r) = cmd  BY DEF Encode, xgroup_set_id
  <1>2. IsOption(r.entries_read)
    <2>1. r.entries_read \in Option(Nat)  OBVIOUS
    <2>2. IsOption(r.entries_read)  BY <2>1, OptionIsOption
    <2> QED  BY <2>1, <2>2
  <1>3. /\ IsOptions(os)
        /\ Carries(os, "ENTRIESREAD", r.entries_read)
    <2>1. /\ IsOptions(v1)
          /\ \A w : ItemsOf(v1, w) = IF w = "ENTRIESREAD" /\ r.entries_read # <<>> THEN {<<"ENTRIESREAD", r.entries_read[1]>>} ELSE {}
      BY <1>2, ValueOptions
    <2> HIDE DEF v1
    <2> QED  BY <2>1 DEF Carries, Flags
  <1>4. IsSeq(xs) /\ Len(xs) = 3 /\ xs[1] = r.key /\ xs[2] = r.group /\ xs[3] = r.id  BY ShortSeqs
  <1> HIDE DEF xs, os
  <1>5. Understands(cmd, "XGROUP_SETID", xs, os)  BY <1>3, <1>4, UnderstandsPlain
  <1>6. r.cmd = "XGROUP_SETID"  OBVIOUS
  <1> HIDE DEF cmd
  <1>7. Opt(cmd, "ENTRIESREAD") = r.entries_read  BY <1>2, <1>3, <1>5, OptIn
  <1>8. Understood(cmd) = [cmd |-> r.cmd, key |-> r.key, group |-> r.group, id |-> r.id,
          entries_read |-> r.entries_read]
    BY <1>4, <1>5, <1>6, <1>7 DEF Understands, Understood
  <1> QED  BY <1>1, <1>5, <1>8 DEF Understands

(* XSETID: the id, the entries added and the largest id deleted. *)
LEMMA MeansSetId ==
  ASSUME NEW r \in [method : {"xsetid"}, cmd : {"XSETID"}, key : {k1}, id : 0..MaxId, entries_added : Option(Nat),
                max_deleted_id : Option(Nat)]
  PROVE  Parse(Encode(r)) = [cmd |-> r.cmd, key |-> r.key, id |-> r.id, entries_added |-> r.entries_added,
           max_deleted_id |-> r.max_deleted_id]
PROOF
  <1> DEFINE xs == <<r.key, r.id>>
             v1 == Value("ENTRIESADDED", r.entries_added)
             v2 == Value("MAXDELETEDID", r.max_deleted_id)
             os == v1 \o v2
             cmd == Command("XSETID", xs, os, <<>>)
  <1>1. Encode(r) = cmd  BY DEF Encode, xsetid
  <1>2. IsOption(r.entries_added) /\ IsOption(r.max_deleted_id)
    <2>1. r.entries_added \in Option(Nat) /\ r.max_deleted_id \in Option(Nat)  OBVIOUS
    <2>2. IsOption(r.entries_added)  BY <2>1, OptionIsOption
    <2>3. IsOption(r.max_deleted_id)  BY <2>1, OptionIsOption
    <2> QED  BY <2>1, <2>2, <2>3
  <1>3. /\ IsOptions(os)
        /\ Carries(os, "ENTRIESADDED", r.entries_added)
        /\ Carries(os, "MAXDELETEDID", r.max_deleted_id)
    <2>1. /\ IsOptions(v1)
          /\ \A w : ItemsOf(v1, w) = IF w = "ENTRIESADDED" /\ r.entries_added # <<>> THEN {<<"ENTRIESADDED", r.entries_added[1]>>} ELSE {}
      BY <1>2, ValueOptions
    <2>2. /\ IsOptions(v2)
          /\ \A w : ItemsOf(v2, w) = IF w = "MAXDELETEDID" /\ r.max_deleted_id # <<>> THEN {<<"MAXDELETEDID", r.max_deleted_id[1]>>} ELSE {}
      BY <1>2, ValueOptions
    <2> HIDE DEF v1, v2
    <2>3. IsOptions(os) /\ \A w : ItemsOf(os, w) = ItemsOf(v1, w) \cup ItemsOf(v2, w)
      BY <2>1, <2>2, OptionsCat
    <2> HIDE DEF os
    <2> QED  BY <2>3, <2>1, <2>2 DEF Carries, Flags
  <1>4. IsSeq(xs) /\ Len(xs) = 2 /\ xs[1] = r.key /\ xs[2] = r.id  BY ShortSeqs
  <1> HIDE DEF xs, os
  <1>5. Understands(cmd, "XSETID", xs, os)  BY <1>3, <1>4, UnderstandsPlain
  <1>6. r.cmd = "XSETID"  OBVIOUS
  <1> HIDE DEF cmd
  <1>7. Opt(cmd, "ENTRIESADDED") = r.entries_added /\ Opt(cmd, "MAXDELETEDID") = r.max_deleted_id
    <2>1. Opt(cmd, "ENTRIESADDED") = r.entries_added  BY <1>2, <1>3, <1>5, OptIn
    <2>2. Opt(cmd, "MAXDELETEDID") = r.max_deleted_id  BY <1>2, <1>3, <1>5, OptIn
    <2> QED  BY <2>1, <2>2
  <1>8. Understood(cmd) = [cmd |-> r.cmd, key |-> r.key, id |-> r.id, entries_added |-> r.entries_added,
          max_deleted_id |-> r.max_deleted_id]
    BY <1>4, <1>5, <1>6, <1>7 DEF Understands, Understood
  <1> QED  BY <1>1, <1>5, <1>8 DEF Understands

(* XACK: key, group and ids. *)
LEMMA MeansAck ==
  ASSUME NEW r \in [method : {"xack"}, cmd : {"XACK"}, key : {k1}, group : {g}, ids : Seq(Nat)]
  PROVE  Parse(Encode(r)) = [cmd |-> r.cmd, key |-> r.key, group |-> r.group, ids |-> r.ids]
PROOF
  <1> DEFINE pre == <<r.key, r.group>>
             xs == pre \o r.ids
             os == <<>>
             cmd == Command("XACK", xs, os, <<>>)
  <1>1. Encode(r) = cmd  BY DEF Encode, xack
  <1>2. IsSeq(r.ids)
    <2>1. r.ids \in Seq(Nat)  OBVIOUS
    <2>2. IsSeq(r.ids)  BY <2>1, SeqIsSeq
    <2> QED  BY <2>1, <2>2
  <1>3. IsOptions(os)  BY EmptyOptions
  <1>4. /\ IsSeq(xs) /\ SubSeq(xs, 3, Len(xs)) = r.ids
        /\ xs[1] = r.key /\ xs[2] = r.group
    <2>1. IsSeq(pre) /\ Len(pre) = 2 /\ pre[1] = r.key /\ pre[2] = r.group  BY ShortSeqs
    <2> HIDE DEF pre
    <2>2. IsSeq(xs) /\ IsJoin(xs, pre, r.ids)  BY <2>1, <1>2, CatParts
    <2> HIDE DEF xs
    <2> QED  BY <2>1, <2>2 DEF IsJoin
  <1> HIDE DEF xs, os
  <1>5. Understands(cmd, "XACK", xs, os)  BY <1>3, <1>4, UnderstandsPlain
  <1>6. r.cmd = "XACK"  OBVIOUS
  <1> HIDE DEF cmd
  <1>8. Understood(cmd) = [cmd |-> r.cmd, key |-> r.key, group |-> r.group, ids |-> r.ids]
    BY <1>4, <1>5, <1>6 DEF Understands, Understood
  <1> QED  BY <1>1, <1>5, <1>8 DEF Understands

(* XPENDING, the summary: key and group. *)
LEMMA MeansPending ==
  ASSUME NEW r \in [method : {"xpending"}, cmd : {"XPENDING"}, key : {k1}, group : {g}]
  PROVE  Parse(Encode(r)) = [cmd |-> r.cmd, key |-> r.key, group |-> r.group]
PROOF
  <1> DEFINE xs == <<r.key, r.group>>
             os == <<>>
             cmd == Command("XPENDING", xs, os, <<>>)
  <1>1. Encode(r) = cmd  BY DEF Encode, xpending
  <1>3. IsOptions(os)  BY EmptyOptions
  <1>4. IsSeq(xs) /\ Len(xs) = 2 /\ xs[1] = r.key /\ xs[2] = r.group  BY ShortSeqs
  <1> HIDE DEF xs, os
  <1>5. Understands(cmd, "XPENDING", xs, os)  BY <1>3, <1>4, UnderstandsPlain DEF os
  <1>6. r.cmd = "XPENDING"  OBVIOUS
  <1> HIDE DEF cmd
  <1>7. ArgsOf(cmd) = xs /\ Len(xs) <= 2 /\ ~(Len(xs) > 2)
    <2>1. ArgsOf(cmd) = xs  BY <1>5 DEF Understands
    <2>2. Len(xs) = 2  BY <1>4
    <2> QED  BY <2>1, <2>2
  <1>8. Understood(cmd) = [cmd |-> r.cmd, key |-> r.key, group |-> r.group]
    BY <1>4, <1>5, <1>6, <1>7 DEF Understands, Understood
  <1> QED  BY <1>1, <1>5, <1>8 DEF Understands

(* XINFO CONSUMERS: key and group. *)
LEMMA MeansInfoConsumers ==
  ASSUME NEW r \in [method : {"xinfo_consumers"}, cmd : {"XINFO_CONSUMERS"}, key : {k1}, group : {g}]
  PROVE  Parse(Encode(r)) = [cmd |-> r.cmd, key |-> r.key, group |-> r.group]
PROOF
  <1> DEFINE xs == <<r.key, r.group>>
             os == <<>>
             cmd == Command("XINFO_CONSUMERS", xs, os, <<>>)
  <1>1. Encode(r) = cmd  BY DEF Encode, xinfo_consumers
  <1>3. IsOptions(os)  BY EmptyOptions
  <1>4. IsSeq(xs) /\ Len(xs) = 2 /\ xs[1] = r.key /\ xs[2] = r.group  BY ShortSeqs
  <1> HIDE DEF xs, os
  <1>5. Understands(cmd, "XINFO_CONSUMERS", xs, os)  BY <1>3, <1>4, UnderstandsPlain
  <1>6. r.cmd = "XINFO_CONSUMERS"  OBVIOUS
  <1> HIDE DEF cmd
  <1>7. ArgsOf(cmd) = xs /\ Len(xs) <= 2 /\ ~(Len(xs) > 2)
    <2>1. ArgsOf(cmd) = xs  BY <1>5 DEF Understands
    <2>2. Len(xs) = 2  BY <1>4
    <2> QED  BY <2>1, <2>2
  <1>8. Understood(cmd) = [cmd |-> r.cmd, key |-> r.key, group |-> r.group]
    BY <1>4, <1>5, <1>6, <1>7 DEF Understands, Understood
  <1> QED  BY <1>1, <1>5, <1>8 DEF Understands

(* XINFO STREAM: not the full one. *)
LEMMA MeansInfoStream ==
  ASSUME NEW r \in InfoSet("xinfo_stream", FALSE, {None})
  PROVE  Parse(Encode(r)) = [cmd |-> r.cmd, key |-> r.key, full |-> r.full, count |-> r.count]
PROOF
  <1> DEFINE xs == <<r.key>>
             os == <<>>
             cmd == Command("XINFO_STREAM", xs, os, <<>>)
  <1>1. Encode(r) = cmd  BY DEF Encode, xinfo, InfoSet
  <1>2. IsOption(r.count) /\ r.full \in BOOLEAN
    <2>1. r.count \in {None}  BY DEF InfoSet
    <2>2. IsOption(r.count)  BY <2>1 DEF IsOption, None
    <2>3. r.full \in BOOLEAN  BY DEF InfoSet
    <2> QED  BY <2>1, <2>2, <2>3
  <1>3. /\ IsOptions(os)
        /\ Flags(os, "FULL", r.full)
        /\ Carries(os, "COUNT", r.count)
    <2>1. r.count = <<>> /\ ~r.full  BY DEF InfoSet, None
    <2> QED  BY <2>1, EmptyOptions DEF Carries, Flags
  <1>4. IsSeq(xs) /\ Len(xs) = 1 /\ xs[1] = r.key  BY ShortSeqs
  <1> HIDE DEF xs, os
  <1>5. Understands(cmd, "XINFO_STREAM", xs, os)  BY <1>3, <1>4, UnderstandsPlain
  <1>6. r.cmd = "XINFO_STREAM"  BY DEF InfoSet
  <1> HIDE DEF cmd
  <1>7. Has(cmd, "FULL") = r.full /\ Opt(cmd, "COUNT") = r.count
    <2>1. Has(cmd, "FULL") = r.full  BY <1>2, <1>3, <1>5, HasIn
    <2>2. Opt(cmd, "COUNT") = r.count  BY <1>2, <1>3, <1>5, OptIn
    <2> QED  BY <2>1, <2>2
  <1>8. Understood(cmd) = [cmd |-> r.cmd, key |-> r.key, full |-> r.full, count |-> r.count]
    BY <1>4, <1>5, <1>6, <1>7 DEF Understands, Understood
  <1> QED  BY <1>1, <1>5, <1>8 DEF Understands

(* XINFO STREAM FULL: the full one, and the count. *)
LEMMA MeansInfoStreamFull ==
  ASSUME NEW r \in InfoSet("xinfo_stream_full", TRUE, Option(Nat))
  PROVE  Parse(Encode(r)) = [cmd |-> r.cmd, key |-> r.key, full |-> r.full, count |-> r.count]
PROOF
  <1> DEFINE xs == <<r.key>>
             v1 == <<<<"FULL">>>>
             v2 == Value("COUNT", r.count)
             os == v1 \o v2
             cmd == Command("XINFO_STREAM", xs, os, <<>>)
  <1>1. Encode(r) = cmd  BY DEF Encode, xinfo_stream_full, InfoSet
  <1>2. IsOption(r.count) /\ r.full \in BOOLEAN
    <2>1. r.count \in Option(Nat)  BY DEF InfoSet
    <2>2. IsOption(r.count)  BY <2>1, OptionIsOption
    <2>3. r.full \in BOOLEAN  BY DEF InfoSet
    <2> QED  BY <2>1, <2>2, <2>3
  <1>3. /\ IsOptions(os)
        /\ Carries(os, "COUNT", r.count)
        /\ Flags(os, "FULL", r.full)
    <2>1. /\ IsOptions(v1)
          /\ \A w : ItemsOf(v1, w) = IF w = "FULL" THEN {<<"FULL">>} ELSE {}
      <3>1. PICK x : x = <<"FULL">>  OBVIOUS
      <3>2. IsOptions(<<x>>) /\ \A w : ItemsOf(<<x>>, w) = IF w = x[1] THEN {x} ELSE {}  BY <3>1, ItemOptions
      <3> QED  BY <3>1, <3>2
    <2>2. /\ IsOptions(v2)
          /\ \A w : ItemsOf(v2, w) = IF w = "COUNT" /\ r.count # <<>> THEN {<<"COUNT", r.count[1]>>} ELSE {}
      BY <1>2, ValueOptions
    <2>3. r.full  BY DEF InfoSet, None
    <2> HIDE DEF v1, v2
    <2>4. IsOptions(os) /\ \A w : ItemsOf(os, w) = ItemsOf(v1, w) \cup ItemsOf(v2, w)
      BY <2>1, <2>2, OptionsCat
    <2> HIDE DEF os
    <2> QED  BY <2>4, <2>1, <2>2, <2>3 DEF Carries, Flags
  <1>4. IsSeq(xs) /\ Len(xs) = 1 /\ xs[1] = r.key  BY ShortSeqs
  <1> HIDE DEF xs, os
  <1>5. Understands(cmd, "XINFO_STREAM", xs, os)  BY <1>3, <1>4, UnderstandsPlain
  <1>6. r.cmd = "XINFO_STREAM"  BY DEF InfoSet
  <1> HIDE DEF cmd
  <1>7. Opt(cmd, "COUNT") = r.count /\ Has(cmd, "FULL") = r.full
    <2>1. Opt(cmd, "COUNT") = r.count  BY <1>2, <1>3, <1>5, OptIn
    <2>2. Has(cmd, "FULL") = r.full  BY <1>2, <1>3, <1>5, HasIn
    <2> QED  BY <2>1, <2>2
  <1>8. Understood(cmd) = [cmd |-> r.cmd, key |-> r.key, full |-> r.full, count |-> r.count]
    BY <1>4, <1>5, <1>6, <1>7 DEF Understands, Understood
  <1> QED  BY <1>1, <1>5, <1>8 DEF Understands

(* XCLAIM: the group before the consumer, the ids and every option. *)
LEMMA MeansClaim ==
  ASSUME NEW r \in ClaimSet("xclaim", FALSE) \cup ClaimSet("xclaim_justid", TRUE)
  PROVE  Parse(Encode(r)) = [cmd |-> r.cmd, key |-> r.key, group |-> r.group, consumer |-> r.consumer,
           min_idle |-> r.min_idle, ids |-> r.ids, idle |-> r.idle,
           idle_unix_time |-> r.idle_unix_time, justid |-> r.justid, retry_count |-> r.retry_count,
           is_force |-> r.is_force]
PROOF
  <1> DEFINE pre == <<r.key, r.group, r.consumer, r.min_idle>>
             xs == pre \o r.ids
             v1 == Value("IDLE", r.idle)
             v2 == Value("TIME", r.idle_unix_time)
             v3 == Value("RETRYCOUNT", r.retry_count)
             v4 == Flag(r.is_force, "FORCE")
             v5 == Flag(r.justid, "JUSTID")
             os == (((v1 \o v2) \o v3) \o v4) \o v5
             cmd == Command("XCLAIM", xs, os, <<>>)
  <1>1. Encode(r) = cmd  BY DEF Encode, xclaim, StreamClaimOptions, ClaimSet
  <1>2. IsOption(r.idle) /\ IsOption(r.idle_unix_time) /\ IsOption(r.retry_count) /\ r.is_force \in BOOLEAN /\ r.justid \in BOOLEAN /\ IsSeq(r.ids)
    <2>1. r.idle \in Option(0..1) /\ r.idle_unix_time \in {None} /\ r.retry_count \in Option(Nat) /\ r.ids \in Seq(Nat)  BY DEF ClaimSet
    <2>2. IsOption(r.idle)  BY <2>1, OptionIsOption
    <2>3. IsOption(r.idle_unix_time)  BY <2>1 DEF IsOption, None
    <2>4. IsOption(r.retry_count)  BY <2>1, OptionIsOption
    <2>5. IsSeq(r.ids)  BY <2>1, SeqIsSeq
    <2>6. r.is_force \in BOOLEAN /\ r.justid \in BOOLEAN  BY DEF ClaimSet
    <2> QED  BY <2>1, <2>2, <2>3, <2>4, <2>5, <2>6
  <1>3. /\ IsOptions(os)
        /\ Carries(os, "IDLE", r.idle)
        /\ Carries(os, "TIME", r.idle_unix_time)
        /\ Carries(os, "RETRYCOUNT", r.retry_count)
        /\ Flags(os, "FORCE", r.is_force)
        /\ Flags(os, "JUSTID", r.justid)
    <2>1. /\ IsOptions(v1)
          /\ \A w : ItemsOf(v1, w) = IF w = "IDLE" /\ r.idle # <<>> THEN {<<"IDLE", r.idle[1]>>} ELSE {}
      BY <1>2, ValueOptions
    <2>2. /\ IsOptions(v2)
          /\ \A w : ItemsOf(v2, w) = IF w = "TIME" /\ r.idle_unix_time # <<>> THEN {<<"TIME", r.idle_unix_time[1]>>} ELSE {}
      BY <1>2, ValueOptions
    <2>3. /\ IsOptions(v3)
          /\ \A w : ItemsOf(v3, w) = IF w = "RETRYCOUNT" /\ r.retry_count # <<>> THEN {<<"RETRYCOUNT", r.retry_count[1]>>} ELSE {}
      BY <1>2, ValueOptions
    <2>4. /\ IsOptions(v4)
          /\ \A w : ItemsOf(v4, w) = IF w = "FORCE" /\ r.is_force THEN {<<"FORCE">>} ELSE {}
      BY <1>2, FlagOptions
    <2>5. /\ IsOptions(v5)
          /\ \A w : ItemsOf(v5, w) = IF w = "JUSTID" /\ r.justid THEN {<<"JUSTID">>} ELSE {}
      BY <1>2, FlagOptions
    <2> HIDE DEF v1, v2, v3, v4, v5
    <2>6. IsOptions(v1 \o v2) /\ \A w : ItemsOf(v1 \o v2, w) = ItemsOf(v1, w) \cup ItemsOf(v2, w)
      BY <2>1, <2>2, OptionsCat
    <2>7. IsOptions((v1 \o v2) \o v3) /\ \A w : ItemsOf((v1 \o v2) \o v3, w) = ItemsOf(v1, w) \cup ItemsOf(v2, w) \cup ItemsOf(v3, w)
      BY <2>6, <2>3, OptionsCat
    <2>8. IsOptions(((v1 \o v2) \o v3) \o v4) /\ \A w : ItemsOf(((v1 \o v2) \o v3) \o v4, w) = ItemsOf(v1, w) \cup ItemsOf(v2, w) \cup ItemsOf(v3, w) \cup ItemsOf(v4, w)
      BY <2>7, <2>4, OptionsCat
    <2>9. IsOptions(os) /\ \A w : ItemsOf(os, w) = ItemsOf(v1, w) \cup ItemsOf(v2, w) \cup ItemsOf(v3, w) \cup ItemsOf(v4, w) \cup ItemsOf(v5, w)
      BY <2>8, <2>5, OptionsCat
    <2> HIDE DEF os
    <2> QED  BY <2>9, <2>1, <2>2, <2>3, <2>4, <2>5 DEF Carries, Flags
  <1>4. /\ IsSeq(xs) /\ SubSeq(xs, 5, Len(xs)) = r.ids
        /\ xs[1] = r.key /\ xs[2] = r.group /\ xs[3] = r.consumer /\ xs[4] = r.min_idle
    <2>1. IsSeq(pre) /\ Len(pre) = 4 /\ pre[1] = r.key /\ pre[2] = r.group /\ pre[3] = r.consumer /\ pre[4] = r.min_idle  BY ShortSeqs
    <2> HIDE DEF pre
    <2>2. IsSeq(xs) /\ IsJoin(xs, pre, r.ids)  BY <2>1, <1>2, CatParts
    <2> HIDE DEF xs
    <2> QED  BY <2>1, <2>2 DEF IsJoin
  <1> HIDE DEF xs, os
  <1>5. Understands(cmd, "XCLAIM", xs, os)  BY <1>3, <1>4, UnderstandsPlain
  <1>6. r.cmd = "XCLAIM"  BY DEF ClaimSet
  <1> HIDE DEF cmd
  <1>7. Opt(cmd, "IDLE") = r.idle /\ Opt(cmd, "TIME") = r.idle_unix_time /\ Opt(cmd, "RETRYCOUNT") = r.retry_count /\ Has(cmd, "FORCE") = r.is_force /\ Has(cmd, "JUSTID") = r.justid
    <2>1. Opt(cmd, "IDLE") = r.idle  BY <1>2, <1>3, <1>5, OptIn
    <2>2. Opt(cmd, "TIME") = r.idle_unix_time  BY <1>2, <1>3, <1>5, OptIn
    <2>3. Opt(cmd, "RETRYCOUNT") = r.retry_count  BY <1>2, <1>3, <1>5, OptIn
    <2>4. Has(cmd, "FORCE") = r.is_force  BY <1>2, <1>3, <1>5, HasIn
    <2>5. Has(cmd, "JUSTID") = r.justid  BY <1>2, <1>3, <1>5, HasIn
    <2> QED  BY <2>1, <2>2, <2>3, <2>4, <2>5
  <1>8. Understood(cmd) = [cmd |-> r.cmd, key |-> r.key, group |-> r.group, consumer |-> r.consumer,
          min_idle |-> r.min_idle, ids |-> r.ids, idle |-> r.idle,
          idle_unix_time |-> r.idle_unix_time, justid |-> r.justid, retry_count |-> r.retry_count,
          is_force |-> r.is_force]
    BY <1>4, <1>5, <1>6, <1>7 DEF Understands, Understood
  <1> QED  BY <1>1, <1>5, <1>8 DEF Understands

(* XAUTOCLAIM: the consumer, the start and both options. *)
LEMMA MeansAutoClaim ==
  ASSUME NEW r \in AutoClaimSet("xautoclaim", FALSE) \cup AutoClaimSet("xautoclaim_justid", TRUE)
  PROVE  Parse(Encode(r)) = [cmd |-> r.cmd, key |-> r.key, group |-> r.group, consumer |-> r.consumer,
           min_idle |-> r.min_idle, start |-> r.start, count |-> r.count, justid |-> r.justid]
PROOF
  <1> DEFINE xs == <<r.key, r.group, r.consumer, r.min_idle, r.start>>
             v1 == Value("COUNT", r.count)
             v2 == Flag(r.justid, "JUSTID")
             os == v1 \o v2
             cmd == Command("XAUTOCLAIM", xs, os, <<>>)
  <1>1. Encode(r) = cmd  BY DEF Encode, xautoclaim, AutoClaimSet, Count
  <1>2. IsOption(r.count) /\ r.justid \in BOOLEAN
    <2>1. r.count \in Option(Nat \ {0})  BY DEF AutoClaimSet, Count
    <2>2. IsOption(r.count)  BY <2>1, OptionIsOption
    <2>3. r.justid \in BOOLEAN  BY DEF AutoClaimSet, Count
    <2> QED  BY <2>1, <2>2, <2>3
  <1>3. /\ IsOptions(os)
        /\ Carries(os, "COUNT", r.count)
        /\ Flags(os, "JUSTID", r.justid)
    <2>1. /\ IsOptions(v1)
          /\ \A w : ItemsOf(v1, w) = IF w = "COUNT" /\ r.count # <<>> THEN {<<"COUNT", r.count[1]>>} ELSE {}
      BY <1>2, ValueOptions
    <2>2. /\ IsOptions(v2)
          /\ \A w : ItemsOf(v2, w) = IF w = "JUSTID" /\ r.justid THEN {<<"JUSTID">>} ELSE {}
      BY <1>2, FlagOptions
    <2> HIDE DEF v1, v2
    <2>3. IsOptions(os) /\ \A w : ItemsOf(os, w) = ItemsOf(v1, w) \cup ItemsOf(v2, w)
      BY <2>1, <2>2, OptionsCat
    <2> HIDE DEF os
    <2> QED  BY <2>3, <2>1, <2>2 DEF Carries, Flags
  <1>4. IsSeq(xs) /\ Len(xs) = 5 /\ xs[1] = r.key /\ xs[2] = r.group /\ xs[3] = r.consumer /\ xs[4] = r.min_idle /\ xs[5] = r.start  BY ShortSeqs
  <1> HIDE DEF xs, os
  <1>5. Understands(cmd, "XAUTOCLAIM", xs, os)  BY <1>3, <1>4, UnderstandsPlain
  <1>6. r.cmd = "XAUTOCLAIM"  BY DEF AutoClaimSet, Count
  <1> HIDE DEF cmd
  <1>7. Opt(cmd, "COUNT") = r.count /\ Has(cmd, "JUSTID") = r.justid
    <2>1. Opt(cmd, "COUNT") = r.count  BY <1>2, <1>3, <1>5, OptIn
    <2>2. Has(cmd, "JUSTID") = r.justid  BY <1>2, <1>3, <1>5, HasIn
    <2> QED  BY <2>1, <2>2
  <1>8. Understood(cmd) = [cmd |-> r.cmd, key |-> r.key, group |-> r.group, consumer |-> r.consumer,
          min_idle |-> r.min_idle, start |-> r.start, count |-> r.count, justid |-> r.justid]
    BY <1>4, <1>5, <1>6, <1>7 DEF Understands, Understood
  <1> QED  BY <1>1, <1>5, <1>8 DEF Understands

(* An option keeps its type in a larger set. *)
LEMMA OptionMono ==
  ASSUME NEW S, NEW T, S \subseteq T, NEW o \in Option(S)
  PROVE  o \in Option(T)
PROOF
  <1>1. o \in Seq(S) /\ Len(o) <= 1  BY DEF Option
  <1>2. o \in Seq(T)  BY <1>1
  <1> QED  BY <1>1, <1>2 DEF Option

LEMMA NoneIsOption == \A S : None \in Option(S) /\ IsOption(None) /\ None = <<>>
PROOF  BY DEF Option, None, IsOption

(* The trim option the server reads from its item. *)
LEMMA TrimFound ==
  ASSUME NEW cmd, NEW t \in TrimSet({"MAXLEN", "MINID"}, Option(Nat)), NEW mark,
         t.exact <=> mark # "~",
         Items(cmd, t.strategy) = {<<t.strategy, mark, t.threshold>>},
         t.strategy = "MINID" => Items(cmd, "MAXLEN") = {},
         Opt(cmd, "LIMIT") = t.limit
  PROVE  TrimOf(cmd) = Some(t)
PROOF
  <1> DEFINE s == t.strategy
  <1>1. s \in {"MAXLEN", "MINID"} /\ t.exact \in BOOLEAN /\ t.threshold \in Nat /\ t.limit \in Option(Nat)
        /\ t = [strategy |-> t.strategy, exact |-> t.exact, threshold |-> t.threshold, limit |-> t.limit]
    BY DEF TrimSet
  <1>2. (IF Has(cmd, "MAXLEN") THEN "MAXLEN" ELSE "MINID") = s /\ Has(cmd, s)  BY <1>1 DEF Has
  <1>3. Item(cmd, s) = <<s, mark, t.threshold>>  BY DEF Item
  <1>4. (Item(cmd, s)[2] # "~") = t.exact /\ Item(cmd, s)[3] = t.threshold  BY <1>1, <1>3
  <1> HIDE DEF s
  <1>5. TrimOf(cmd) = Some([strategy |-> s, exact |-> Item(cmd, s)[2] # "~", threshold |-> Item(cmd, s)[3],
                            limit |-> Opt(cmd, "LIMIT")])
    BY <1>2 DEF TrimOf
  <1> QED  BY <1>1, <1>4, <1>5 DEF s

(* XTRIM: the strategy, whether it is exact and the threshold. *)
LEMMA MeansTrim ==
  ASSUME NEW r \in TrimCallSet("xtrim_maxlen", "MAXLEN") \cup TrimCallSet("xtrim_minid", "MINID")
  PROVE  Parse(Encode(r)) = [cmd |-> r.cmd, key |-> r.key, trim |-> r.trim]
PROOF
  <1> DEFINE t == r.trim[1]
             mark == IF t.exact THEN "no_mark" ELSE "~"
             item == <<t.strategy, mark, t.threshold>>
             xs == <<r.key>>
             os == <<item>>
             cmd == Command("XTRIM", xs, os, <<>>)
  <1>1. r.trim \in Option(TrimSet({"MAXLEN", "MINID"}, {None})) /\ r.trim # <<>> /\ r.cmd = "XTRIM"
    <2>1. CASE r \in TrimCallSet("xtrim_maxlen", "MAXLEN")
      <3>1. r.trim \in Option(TrimSet({"MAXLEN"}, {None})) /\ r.trim # <<>> /\ r.cmd = "XTRIM"
        BY <2>1 DEF TrimCallSet, None
      <3>2. TrimSet({"MAXLEN"}, {None}) \subseteq TrimSet({"MAXLEN", "MINID"}, {None})  BY DEF TrimSet
      <3> QED  BY <3>1, <3>2, OptionMono
    <2>2. CASE r \in TrimCallSet("xtrim_minid", "MINID")
      <3>1. r.trim \in Option(TrimSet({"MINID"}, {None})) /\ r.trim # <<>> /\ r.cmd = "XTRIM"
        BY <2>2 DEF TrimCallSet, None
      <3>2. TrimSet({"MINID"}, {None}) \subseteq TrimSet({"MAXLEN", "MINID"}, {None})  BY DEF TrimSet
      <3> QED  BY <3>1, <3>2, OptionMono
    <2> QED  BY <2>1, <2>2
  <1>2. t \in TrimSet({"MAXLEN", "MINID"}, {None}) /\ r.trim = <<t>>  BY <1>1, OptionIsOption
  <1>3. t.strategy = IF r.method = "xtrim_maxlen" THEN "MAXLEN" ELSE "MINID"
    <2>1. CASE r \in TrimCallSet("xtrim_maxlen", "MAXLEN")
      <3>1. r.trim \in Option(TrimSet({"MAXLEN"}, {None})) /\ r.method = "xtrim_maxlen"  BY <2>1 DEF TrimCallSet
      <3>2. t \in TrimSet({"MAXLEN"}, {None})  BY <3>1, <1>1, OptionIsOption
      <3> HIDE DEF t
      <3> QED  BY <3>1, <3>2 DEF TrimSet
    <2>2. CASE r \in TrimCallSet("xtrim_minid", "MINID")
      <3>1. r.trim \in Option(TrimSet({"MINID"}, {None})) /\ r.method = "xtrim_minid"  BY <2>2 DEF TrimCallSet
      <3>2. t \in TrimSet({"MINID"}, {None})  BY <3>1, <1>1, OptionIsOption
      <3> HIDE DEF t
      <3> QED  BY <3>1, <3>2 DEF TrimSet
    <2> QED  BY <2>1, <2>2
  <1>4. Encode(r) = cmd
    <2>1. r.method \in {"xtrim_maxlen", "xtrim_minid"}  BY DEF TrimCallSet
    <2>2. Encode(r) = XTrim(t.strategy, r)  BY <2>1, <1>3 DEF Encode, xtrim_maxlen, xtrim_minid
    <2> QED  BY <2>2 DEF XTrim
  <1> HIDE DEF t
  <1>5. /\ t.strategy \in {"MAXLEN", "MINID"} /\ t.limit = <<>> /\ t.exact \in BOOLEAN
        /\ t \in TrimSet({"MAXLEN", "MINID"}, Option(Nat))
    <2>1. t.strategy \in {"MAXLEN", "MINID"} /\ t.limit = None /\ t.exact \in BOOLEAN  BY <1>2 DEF TrimSet
    <2>2. {None} \subseteq Option(Nat)  BY NoneIsOption
    <2>3. t \in TrimSet({"MAXLEN", "MINID"}, Option(Nat))  BY <1>2, <2>2 DEF TrimSet
    <2> QED  BY <2>1, <2>3, NoneIsOption
  <1>6. item[1] = t.strategy /\ (t.exact <=> mark # "~")  BY <1>5
  <1> HIDE DEF mark
  <1>7. IsOptions(os) /\ \A w : ItemsOf(os, w) = IF w = t.strategy THEN {item} ELSE {}
    <2>1. item[1] # "arg"  BY <1>5, <1>6
    <2> HIDE DEF item
    <2> QED  BY <2>1, <1>6, ItemOptions
  <1>8. IsSeq(xs) /\ xs[1] = r.key  BY ShortSeqs
  <1> HIDE DEF xs, os, item
  <1>9. Understands(cmd, "XTRIM", xs, os)  BY <1>7, <1>8, UnderstandsPlain
  <1> HIDE DEF cmd
  <1>10. TrimOf(cmd) = Some(t)
    <2>1. Carries(os, "LIMIT", <<>>) /\ IsOption(<<>>)  BY <1>5, <1>7 DEF Carries, IsOption
    <2>2. Opt(cmd, "LIMIT") = t.limit
      <3>1. PICK o : o = <<>>  OBVIOUS
      <3>2. Carries(os, "LIMIT", o) /\ IsOption(o)  BY <2>1, <3>1
      <3>3. Opt(cmd, "LIMIT") = o  BY <3>2, <1>9, OptIn
      <3> QED  BY <3>1, <3>3, <1>5
    <2>3. \A w \in {"MAXLEN", "MINID"} : Items(cmd, w) = IF w = t.strategy THEN {item} ELSE {}
      BY <1>7, <1>9 DEF Understands
    <2>4. Items(cmd, t.strategy) = {<<t.strategy, mark, t.threshold>>}  BY <2>3, <1>5 DEF item
    <2>5. t.strategy = "MINID" => Items(cmd, "MAXLEN") = {}  BY <2>3
    <2> QED  BY <2>2, <2>4, <2>5, <1>5, <1>6, TrimFound
  <1>11. Understood(cmd) = [cmd |-> r.cmd, key |-> r.key, trim |-> r.trim]
    BY <1>1, <1>2, <1>8, <1>9, <1>10 DEF Understands, Understood, Some
  <1> QED  BY <1>4, <1>9, <1>11 DEF Understands

(* XREAD: every key with its id, and both options. *)
LEMMA MeansRead ==
  ASSUME NEW r \in ReadSet
  PROVE  Parse(Encode(r)) = [cmd |-> r.cmd, keys |-> r.keys, ids |-> r.ids, count |-> r.count,
           block_ms |-> r.block_ms]
PROOF
  <1> DEFINE v1 == Value("BLOCK", r.block_ms)
             v2 == Value("COUNT", r.count)
             v3 == <<<<"STREAMS">>>>
             os == (v1 \o v2) \o v3
             ys == r.keys \o r.ids
             cmd == Command("XREAD", <<>>, os, ys)
  <1>1. Encode(r) = cmd  BY DEF Encode, xread, StreamReadOptions, ReadSet
  <1>2. IsOption(r.block_ms) /\ IsOption(r.count) /\ IsSeq(r.keys) /\ IsSeq(r.ids)
        /\ Len(r.keys) = Len(r.ids) /\ r.cmd = "XREAD"
    <2>1. /\ r.block_ms \in Option(Nat) /\ r.count \in Option(Nat \ {0})
          /\ r.keys \in Seq({k1, k2}) /\ r.ids \in Seq(Nat)
          /\ Len(r.keys) = Len(r.ids) /\ r.cmd = "XREAD"
      BY DEF ReadSet, Count
    <2>2. IsOption(r.block_ms) /\ IsOption(r.count)  BY <2>1, OptionIsOption
    <2>3. IsSeq(r.keys) /\ IsSeq(r.ids)  BY <2>1, SeqIsSeq
    <2> QED  BY <2>1, <2>2, <2>3
  <1>3. IsOptions(v1 \o v2) /\ IsOptions(os) /\ Carries(os, "BLOCK", r.block_ms) /\ Carries(os, "COUNT", r.count)
    <2>1. /\ IsOptions(v1)
          /\ \A w : ItemsOf(v1, w) = IF w = "BLOCK" /\ r.block_ms # <<>> THEN {<<"BLOCK", r.block_ms[1]>>} ELSE {}
      BY <1>2, ValueOptions
    <2>2. /\ IsOptions(v2)
          /\ \A w : ItemsOf(v2, w) = IF w = "COUNT" /\ r.count # <<>> THEN {<<"COUNT", r.count[1]>>} ELSE {}
      BY <1>2, ValueOptions
    <2>3. IsOptions(v3) /\ \A w : ItemsOf(v3, w) = IF w = "STREAMS" THEN {<<"STREAMS">>} ELSE {}
      <3>1. PICK x : x = <<"STREAMS">>  OBVIOUS
      <3>2. IsOptions(<<x>>) /\ \A w : ItemsOf(<<x>>, w) = IF w = x[1] THEN {x} ELSE {}  BY <3>1, ItemOptions
      <3> QED  BY <3>1, <3>2
    <2> HIDE DEF v1, v2, v3
    <2>4. IsOptions(v1 \o v2) /\ \A w : ItemsOf(v1 \o v2, w) = ItemsOf(v1, w) \cup ItemsOf(v2, w)
      BY <2>1, <2>2, OptionsCat
    <2>5. IsOptions(os) /\ \A w : ItemsOf(os, w) = ItemsOf(v1, w) \cup ItemsOf(v2, w) \cup ItemsOf(v3, w)
      BY <2>4, <2>3, OptionsCat
    <2> HIDE DEF os
    <2> QED  BY <2>4, <2>5, <2>1, <2>2, <2>3 DEF Carries
  <1>4. IsSeq(ys) /\ IsJoin(ys, r.keys, r.ids)  BY <1>2, CatParts
  <1>5. Understands(cmd, "XREAD", ys, os)
    <2> HIDE DEF v1, v2, ys
    <2> QED  BY <1>3, <1>4, UnderstandsStreams
  <1> HIDE DEF os, ys, cmd
  <1>6. Opt(cmd, "BLOCK") = r.block_ms /\ Opt(cmd, "COUNT") = r.count
    <2>1. Opt(cmd, "BLOCK") = r.block_ms  BY <1>2, <1>3, <1>5, OptIn
    <2>2. Opt(cmd, "COUNT") = r.count  BY <1>2, <1>3, <1>5, OptIn
    <2> QED  BY <2>1, <2>2
  <1>7. /\ SubSeq(ys, 1, Len(ys) \div 2) = r.keys
        /\ SubSeq(ys, (Len(ys) \div 2) + 1, Len(ys)) = r.ids
    <2>1. /\ SubSeq(ys, Len(r.keys) + 1, Len(ys)) = r.ids /\ SubSeq(ys, 1, Len(r.keys)) = r.keys
          /\ Len(ys) = Len(r.keys) + Len(r.ids) /\ Len(r.keys) \in Nat
      BY <1>4 DEF IsJoin
    <2>2. PICK n \in Nat : n = Len(r.keys)  BY <2>1
    <2>3. Len(ys) = 2 * n  BY <2>1, <2>2, <1>2
    <2>4. (2 * n) \div 2 = n  OBVIOUS
    <2>5. Len(ys) \div 2 = Len(r.keys)  BY <2>2, <2>3, <2>4
    <2> QED  BY <2>1, <2>5
  <1>8. Understood(cmd) = [cmd |-> r.cmd, keys |-> r.keys, ids |-> r.ids, count |-> r.count,
          block_ms |-> r.block_ms]
    BY <1>2, <1>5, <1>6, <1>7 DEF Understands, Understood
  <1> QED  BY <1>1, <1>5, <1>8 DEF Understands

(* XREADGROUP: the group before the consumer, the id of the key, and every option. *)
LEMMA MeansReadGroup ==
  ASSUME NEW r \in ReadGroupSet
  PROVE  Parse(Encode(r)) = [cmd |-> r.cmd, keys |-> r.keys, ids |-> r.ids, group |-> r.group,
           consumer |-> r.consumer, count |-> r.count, block_ms |-> r.block_ms, no_ack |-> r.no_ack]
PROOF
  <1> DEFINE v1 == <<<<"GROUP", r.group, r.consumer>>>>
             v2 == Value("BLOCK", r.block_ms)
             v3 == Value("COUNT", r.count)
             v4 == Flag(r.no_ack, "NOACK")
             v5 == <<<<"STREAMS">>>>
             o1 == v1 \o ((v2 \o v3) \o v4)
             os == o1 \o v5
             ys == r.keys \o r.ids
             cmd == Command("XREADGROUP", <<>>, os, ys)
  <1>1. Encode(r) = cmd
    BY DEF Encode, xreadgroup, StreamReadGroupOptions, StreamReadOptions, ReadGroupSet
  <1>2. IsOption(r.block_ms) /\ IsOption(r.count) /\ IsSeq(r.keys) /\ IsSeq(r.ids)
        /\ r.cmd = "XREADGROUP" /\ r.no_ack \in BOOLEAN /\ Len(r.keys) = 1 /\ Len(r.ids) = 1
    <2>1. /\ r.block_ms \in Option(Nat) /\ r.count \in Option(Nat \ {0})
          /\ r.keys = <<k1>> /\ r.ids \in Seq(Nat \cup {New}) /\ r.cmd = "XREADGROUP"
          /\ Len(r.ids) = 1
      BY DEF ReadGroupSet, Count
    <2>2. IsOption(r.block_ms) /\ IsOption(r.count)  BY <2>1, OptionIsOption
    <2>3. IsSeq(r.ids)  BY <2>1, SeqIsSeq
    <2>4. IsSeq(r.keys) /\ Len(r.keys) = 1  BY <2>1, ShortSeqs
    <2>5. r.no_ack \in BOOLEAN  BY DEF ReadGroupSet
    <2> QED  BY <2>1, <2>2, <2>3, <2>4, <2>5
  <1>3. /\ IsOptions(o1) /\ Carries(os, "BLOCK", r.block_ms) /\ Carries(os, "COUNT", r.count)
        /\ Flags(os, "NOACK", r.no_ack) /\ ItemsOf(os, "GROUP") = {<<"GROUP", r.group, r.consumer>>}
    <2>1. /\ IsOptions(v1)
          /\ \A w : ItemsOf(v1, w) = IF w = "GROUP" THEN {<<"GROUP", r.group, r.consumer>>} ELSE {}
      <3>1. PICK x : x = <<"GROUP", r.group, r.consumer>>  OBVIOUS
      <3>2. x[1] = "GROUP"  BY <3>1
      <3>3. IsOptions(<<x>>) /\ \A w : ItemsOf(<<x>>, w) = IF w = x[1] THEN {x} ELSE {}  BY <3>2, ItemOptions
      <3> QED  BY <3>1, <3>2, <3>3
    <2>2. /\ IsOptions(v2)
          /\ \A w : ItemsOf(v2, w) = IF w = "BLOCK" /\ r.block_ms # <<>> THEN {<<"BLOCK", r.block_ms[1]>>} ELSE {}
      BY <1>2, ValueOptions
    <2>3. /\ IsOptions(v3)
          /\ \A w : ItemsOf(v3, w) = IF w = "COUNT" /\ r.count # <<>> THEN {<<"COUNT", r.count[1]>>} ELSE {}
      BY <1>2, ValueOptions
    <2>4. /\ IsOptions(v4)
          /\ \A w : ItemsOf(v4, w) = IF w = "NOACK" /\ r.no_ack THEN {<<"NOACK">>} ELSE {}
      BY <1>2, FlagOptions
    <2>5. IsOptions(v5) /\ \A w : ItemsOf(v5, w) = IF w = "STREAMS" THEN {<<"STREAMS">>} ELSE {}
      <3>1. PICK x : x = <<"STREAMS">>  OBVIOUS
      <3>2. IsOptions(<<x>>) /\ \A w : ItemsOf(<<x>>, w) = IF w = x[1] THEN {x} ELSE {}  BY <3>1, ItemOptions
      <3> QED  BY <3>1, <3>2
    <2> HIDE DEF v1, v2, v3, v4, v5
    <2>6. IsOptions(v2 \o v3) /\ \A w : ItemsOf(v2 \o v3, w) = ItemsOf(v2, w) \cup ItemsOf(v3, w)
      BY <2>2, <2>3, OptionsCat
    <2>7. /\ IsOptions((v2 \o v3) \o v4)
          /\ \A w : ItemsOf((v2 \o v3) \o v4, w) = ItemsOf(v2, w) \cup ItemsOf(v3, w) \cup ItemsOf(v4, w)
      BY <2>6, <2>4, OptionsCat
    <2>8. /\ IsOptions(o1)
          /\ \A w : ItemsOf(o1, w) = ItemsOf(v1, w) \cup ItemsOf(v2, w) \cup ItemsOf(v3, w) \cup ItemsOf(v4, w)
      BY <2>7, <2>1, OptionsCat
    <2> HIDE DEF o1
    <2>9. \A w : ItemsOf(os, w) = ItemsOf(o1, w) \cup ItemsOf(v5, w)  BY <2>8, <2>5, OptionsCat
    <2> HIDE DEF os
    <2> QED  BY <2>8, <2>9, <2>1, <2>2, <2>3, <2>4, <2>5 DEF Carries, Flags
  <1>4. IsSeq(ys) /\ IsJoin(ys, r.keys, r.ids)  BY <1>2, CatParts
  <1>5. Understands(cmd, "XREADGROUP", ys, os)
    <2> HIDE DEF o1, ys
    <2> QED  BY <1>3, <1>4, UnderstandsStreams
  <1> HIDE DEF os, ys, cmd
  <1>6. /\ Opt(cmd, "BLOCK") = r.block_ms /\ Opt(cmd, "COUNT") = r.count /\ Has(cmd, "NOACK") = r.no_ack
        /\ Item(cmd, "GROUP") = <<"GROUP", r.group, r.consumer>>
    <2>1. Opt(cmd, "BLOCK") = r.block_ms  BY <1>2, <1>3, <1>5, OptIn
    <2>2. Opt(cmd, "COUNT") = r.count  BY <1>2, <1>3, <1>5, OptIn
    <2>3. Has(cmd, "NOACK") = r.no_ack  BY <1>2, <1>3, <1>5, HasIn
    <2>4. Items(cmd, "GROUP") = {<<"GROUP", r.group, r.consumer>>}  BY <1>3, <1>5 DEF Understands
    <2>5. Item(cmd, "GROUP") = <<"GROUP", r.group, r.consumer>>  BY <2>4 DEF Item
    <2> QED  BY <2>1, <2>2, <2>3, <2>5
  <1>7. /\ SubSeq(ys, 1, Len(ys) \div 2) = r.keys
        /\ SubSeq(ys, (Len(ys) \div 2) + 1, Len(ys)) = r.ids
    <2>1. /\ SubSeq(ys, Len(r.keys) + 1, Len(ys)) = r.ids /\ SubSeq(ys, 1, Len(r.keys)) = r.keys
          /\ Len(ys) = Len(r.keys) + Len(r.ids) /\ Len(r.keys) \in Nat
      BY <1>4 DEF IsJoin
    <2>2. Len(ys) \div 2 = 1  BY <2>1, <1>2
    <2> QED  BY <2>1, <2>2, <1>2
  <1>8. Item(cmd, "GROUP")[2] = r.group /\ Item(cmd, "GROUP")[3] = r.consumer  BY <1>6
  <1>9. Understood(cmd) = [cmd |-> r.cmd, keys |-> r.keys, ids |-> r.ids, group |-> r.group,
          consumer |-> r.consumer, count |-> r.count, block_ms |-> r.block_ms, no_ack |-> r.no_ack]
    <2>1. Opt(cmd, "BLOCK") = r.block_ms /\ Opt(cmd, "COUNT") = r.count /\ Has(cmd, "NOACK") = r.no_ack
      BY <1>6
    <2> QED  BY <2>1, <1>2, <1>5, <1>7, <1>8 DEF Understands, Understood
  <1> QED  BY <1>1, <1>5, <1>9 DEF Understands

(* Concatenation is associative. *)
Associates(s, t, u) == s \o (t \o u) = (s \o t) \o u

LEMMA CatAssoc ==
  ASSUME NEW s, IsSeq(s), NEW t, IsSeq(t), NEW u, IsSeq(u)
  PROVE  Associates(s, t, u)
PROOF
  <1>1. PICK tu : tu = t \o u  OBVIOUS
  <1>2. PICK st : st = s \o t  OBVIOUS
  <1>3. IsSeq(tu) /\ IsCat(tu, t, u)  BY <1>1, SeqCat
  <1>4. IsSeq(st) /\ IsCat(st, s, t)  BY <1>2, SeqCat
  <1>5. PICK a : a = s \o tu  OBVIOUS
  <1>6. PICK b : b = st \o u  OBVIOUS
  <1>7. IsSeq(a) /\ IsCat(a, s, tu)  BY <1>3, <1>5, SeqCat
  <1>8. IsSeq(b) /\ IsCat(b, st, u)  BY <1>4, <1>6, SeqCat
  <1>9. PICK l \in Nat, m \in Nat, n \in Nat : l = Len(s) /\ m = Len(t) /\ n = Len(u)
    BY <1>3, <1>4 DEF IsCat
  <1>10. Len(tu) = m + n /\ Len(st) = l + m /\ Len(a) = l + m + n /\ Len(b) = l + m + n
    BY <1>3, <1>4, <1>7, <1>8, <1>9 DEF IsCat
  <1>11. ASSUME NEW i \in 1..(l + m + n) PROVE a[i] = b[i]
    <2>1. CASE i \in 1..l
      <3>1. a[i] = s[i]  BY <2>1, <1>7, <1>9 DEF IsCat
      <3>2. i \in 1..(l + m)  BY <2>1
      <3>3. b[i] = st[i]  BY <3>2, <1>8, <1>10 DEF IsCat
      <3>4. st[i] = s[i]  BY <2>1, <1>4, <1>9 DEF IsCat
      <3> QED  BY <3>1, <3>3, <3>4
    <2>2. CASE i \in (l + 1)..(l + m)
      <3>1. i - l \in 1..m /\ i \in (l + 1)..(l + (m + n)) /\ i \in 1..(l + m)  BY <2>2
      <3>2. a[i] = tu[i - l]  BY <3>1, <1>7, <1>9, <1>10 DEF IsCat
      <3>3. tu[i - l] = t[i - l]  BY <3>1, <1>3, <1>9 DEF IsCat
      <3>4. b[i] = st[i]  BY <3>1, <1>8, <1>10 DEF IsCat
      <3>5. st[i] = t[i - l]  BY <2>2, <1>4, <1>9 DEF IsCat
      <3> QED  BY <3>2, <3>3, <3>4, <3>5
    <2>3. CASE i \in (l + m + 1)..(l + m + n)
      <3>1. i - l \in (m + 1)..(m + n) /\ i \in (l + 1)..(l + (m + n)) /\ (i - l) - m = i - (l + m)
        BY <2>3
      <3>2. a[i] = tu[i - l]  BY <3>1, <1>7, <1>9, <1>10 DEF IsCat
      <3>3. tu[i - l] = u[(i - l) - m]  BY <3>1, <1>3, <1>9 DEF IsCat
      <3>4. b[i] = u[i - (l + m)]  BY <2>3, <1>8, <1>9, <1>10 DEF IsCat
      <3> QED  BY <3>1, <3>2, <3>3, <3>4
    <2> QED  BY <2>1, <2>2, <2>3
  <1>12. a \in Seq(ToSet(a)) /\ b \in Seq(ToSet(b))  BY <1>7, <1>8 DEF IsSeq
  <1>13. a = b  BY <1>10, <1>11, <1>12, SameSeq
  <1> QED  BY <1>1, <1>2, <1>5, <1>6, <1>13 DEF Associates

LEMMA ShortCats ==
  /\ \A a, b : <<a>> \o <<b>> = <<a, b>>
  /\ \A a, b, c, d, e : <<a, b>> \o <<c, d, e>> = <<a, b, c, d, e>>
PROOF
  <1>1. ASSUME NEW a, NEW b PROVE <<a>> \o <<b>> = <<a, b>>
    <2>1. <<a>> \in Seq({a, b}) /\ <<b>> \in Seq({a, b}) /\ <<a, b>> \in Seq({a, b})  OBVIOUS
    <2>2. PICK u : u = <<a>> \o <<b>>  OBVIOUS
    <2>3. u \in Seq({a, b}) /\ Len(u) = 2 /\ u[1] = a /\ u[2] = b  BY <2>1, <2>2
    <2>4. \A i \in 1..Len(u) : u[i] = <<a, b>>[i]  BY <2>3
    <2>5. u = <<a, b>>  BY <2>1, <2>3, <2>4
    <2> QED  BY <2>2, <2>5
  <1>2. ASSUME NEW a, NEW b, NEW c, NEW d, NEW e
        PROVE  <<a, b>> \o <<c, d, e>> = <<a, b, c, d, e>>
    <2>1. PICK S : S = {a, b, c, d, e}  OBVIOUS
    <2>2. <<a, b>> \in Seq(S) /\ <<c, d, e>> \in Seq(S) /\ <<a, b, c, d, e>> \in Seq(S)  BY <2>1
    <2>3. PICK u : u = <<a, b>> \o <<c, d, e>>  OBVIOUS
    <2>4. u \in Seq(S) /\ Len(u) = 5 /\ u[1] = a /\ u[2] = b /\ u[3] = c /\ u[4] = d /\ u[5] = e
      BY <2>2, <2>3
    <2>5. u = <<a, b, c, d, e>>  BY <2>2, <2>4
    <2> QED  BY <2>3, <2>5
  <1> QED  BY <1>1, <1>2

(* XPENDING with a range: the bounds, the count, and the consumer if there is one. *)
LEMMA MeansPendingRange ==
  ASSUME NEW r \in PendingRangeSet
  PROVE  Parse(Encode(r)) = [cmd |-> r.cmd, key |-> r.key, group |-> r.group, idle |-> r.idle,
           start |-> r.start, end |-> r.end, count |-> r.count, consumer |-> r.consumer]
PROOF
  <1> DEFINE xs == <<r.key, r.group>>
             mid == <<r.start, r.end, r.count>>
             ys == mid \o r.consumer
             pre == <<r.key, r.group, r.start, r.end, r.count>>
             os == Value("IDLE", r.idle)
             cmd == Command("XPENDING", xs, os, ys)
  <1>1. Encode(r) = cmd  BY DEF Encode, xpending_range, PendingRangeSet
  <1>2. IsOption(r.idle) /\ IsSeq(r.consumer) /\ r.cmd = "XPENDING"
    <2>1. r.idle \in Option(Nat) /\ r.consumer \in Option(Consumer) /\ r.cmd = "XPENDING"
      BY DEF PendingRangeSet
    <2> QED  BY <2>1, OptionIsOption
  <1>3. IsOptions(os) /\ Carries(os, "IDLE", r.idle)
    <2>1. /\ IsOptions(os)
          /\ \A w : ItemsOf(os, w) = IF w = "IDLE" /\ r.idle # <<>> THEN {<<"IDLE", r.idle[1]>>} ELSE {}
      BY <1>2, ValueOptions
    <2> QED  BY <2>1 DEF Carries
  <1>4. IsSeq(xs) /\ IsSeq(mid) /\ IsSeq(pre) /\ Len(xs) = 2 /\ xs \o mid = pre
    BY ShortSeqs, ShortCats
  <1>5. /\ Len(pre) = 5 /\ pre[1] = r.key /\ pre[2] = r.group /\ pre[3] = r.start /\ pre[4] = r.end
        /\ pre[5] = r.count
    OBVIOUS
  <1> HIDE DEF xs, mid, pre, os
  <1>6. IsSeq(ys) /\ xs \o ys = pre \o r.consumer
    <2>1. IsSeq(ys)  BY <1>2, <1>4, SeqCat
    <2>2. Associates(xs, mid, r.consumer)  BY <1>2, <1>4, CatAssoc
    <2> QED  BY <2>1, <2>2, <1>4 DEF Associates
  <1> HIDE DEF ys
  <1>7. Understands(cmd, "XPENDING", xs \o ys, os)  BY <1>3, <1>4, <1>6, UnderstandsLate
  <1> DEFINE a == pre \o r.consumer
  <1>8. IsJoin(a, pre, r.consumer)  BY <1>2, <1>4, CatParts
  <1>9. Understands(cmd, "XPENDING", a, os)  BY <1>6, <1>7
  <1> HIDE DEF a, cmd
  <1>10. /\ a[1] = r.key /\ a[2] = r.group /\ a[3] = r.start /\ a[4] = r.end /\ a[5] = r.count
         /\ SubSeq(a, 6, Len(a)) = r.consumer /\ Len(a) > 2 /\ ~(Len(a) <= 2)
    BY <1>5, <1>8 DEF IsJoin
  <1>11. Opt(cmd, "IDLE") = r.idle  BY <1>2, <1>3, <1>9, OptIn
  <1>12. ArgsOf(cmd) = a  BY <1>9 DEF Understands
  <1>13. Understood(cmd) = [cmd |-> r.cmd, key |-> r.key, group |-> r.group, idle |-> r.idle,
           start |-> r.start, end |-> r.end, count |-> r.count, consumer |-> r.consumer]
    BY <1>2, <1>9, <1>10, <1>11, <1>12 DEF Understands, Understood
  <1> QED  BY <1>1, <1>9, <1>13 DEF Understands

(* The arguments of XADD: key, id and fields. *)
LEMMA AddArgs ==
  ASSUME NEW cmd, NEW r, r.fields \in Seq(STRING \X STRING),
         ArgsOf(cmd) = <<r.key, r.id>> \o Flattened(r.fields)
  PROVE  LET a == ArgsOf(cmd) IN
           a[1] = r.key /\ a[2] = r.id /\ Alternating(SubSeq(a, 3, Len(a))) = r.fields
PROOF
  <1> DEFINE pre == <<r.key, r.id>>
             f == Flattened(r.fields)
  <1>1. PICK a : a = ArgsOf(cmd)  OBVIOUS
  <1>2. IsSeq(pre) /\ Len(pre) = 2 /\ pre[1] = r.key /\ pre[2] = r.id  BY ShortSeqs
  <1>3. IsSeq(f) /\ Alternating(f) = r.fields  BY FlattenedPairs
  <1>4. a = pre \o f  BY <1>1
  <1> HIDE DEF pre, f
  <1>5. IsJoin(a, pre, f)  BY <1>2, <1>3, <1>4, CatParts
  <1>6. a[1] = r.key /\ a[2] = r.id /\ SubSeq(a, 3, Len(a)) = f  BY <1>2, <1>5 DEF IsJoin
  <1> QED  BY <1>1, <1>3, <1>6

(* XADD: the id and the fields in pairs. *)
LEMMA MeansAdd ==
  ASSUME NEW r \in AddSet("xadd", {TRUE}, {None})
  PROVE  Parse(Encode(r)) = [cmd |-> r.cmd, key |-> r.key, id |-> r.id, fields |-> r.fields,
           make_stream |-> r.make_stream, trim |-> r.trim]
PROOF
  <1> DEFINE pre == <<r.key, r.id>>
             f == Flattened(r.fields)
             xs == pre \o f
             os == <<>>
             cmd == Command("XADD", xs, os, <<>>)
  <1>1. Encode(r) = cmd  BY DEF Encode, xadd, AddSet
  <1>2. /\ r.fields \in Seq(STRING \X STRING) /\ r.cmd = "XADD" /\ r.make_stream = TRUE /\ r.trim = None
    BY DEF AddSet
  <1>3. IsOptions(os) /\ \A w : ItemsOf(os, w) = {}  BY EmptyOptions
  <1>4. IsSeq(xs)
    <2>1. IsSeq(pre)  BY ShortSeqs
    <2>2. IsSeq(f)  BY <1>2, FlattenedPairs
    <2> HIDE DEF pre, f
    <2> QED  BY <2>1, <2>2, SeqCat
  <1>5. Understands(cmd, "XADD", xs, os)
    <2>1. os = <<>>  OBVIOUS
    <2> HIDE DEF xs, os
    <2> QED  BY <2>1, <1>3, <1>4, UnderstandsPlain
  <1> HIDE DEF cmd, os
  <1>6. LET a == ArgsOf(cmd) IN
          a[1] = r.key /\ a[2] = r.id /\ Alternating(SubSeq(a, 3, Len(a))) = r.fields
    <2>1. ArgsOf(cmd) = <<r.key, r.id>> \o Flattened(r.fields)  BY <1>5 DEF Understands
    <2> QED  BY <2>1, <1>2, AddArgs
  <1>7. \A w \in {"NOMKSTREAM", "MAXLEN", "MINID", "LIMIT"} : Items(cmd, w) = {}
    BY <1>3, <1>5 DEF Understands
  <1>8. (~Has(cmd, "NOMKSTREAM")) = r.make_stream /\ TrimOf(cmd) = r.trim
    BY <1>2, <1>7 DEF Has, TrimOf
  <1>9. cmd[1][1] = "XADD" /\ Parse(cmd) = Understood(cmd)  BY <1>5 DEF Understands
  <1>10. Understood(cmd) = [cmd |-> r.cmd, key |-> r.key, id |-> r.id, fields |-> r.fields,
           make_stream |-> r.make_stream, trim |-> r.trim]
    BY <1>2, <1>6, <1>8, <1>9 DEF Understood
  <1> QED  BY <1>1, <1>9, <1>10

(* XADD with options: the options between the key and the id. *)
LEMMA MeansAddOptions ==
  ASSUME NEW r \in AddSet("xadd_options", BOOLEAN, Option(TrimSet({"MAXLEN", "MINID"}, Option(Nat))))
  PROVE  Parse(Encode(r)) = [cmd |-> r.cmd, key |-> r.key, id |-> r.id, fields |-> r.fields,
           make_stream |-> r.make_stream, trim |-> r.trim]
PROOF
  <1> DEFINE xs == <<r.key>>
             mid == <<r.id>>
             f == Flattened(r.fields)
             ys == mid \o f
             pre == <<r.key, r.id>>
             v1 == Flag(~r.make_stream, "NOMKSTREAM")
             v2 == IF r.trim = None THEN <<>> ELSE StreamTrimOptions(r.trim[1])
             os == v1 \o v2
             t == r.trim[1]
             mark == IF t.exact THEN "=" ELSE "~"
             item == <<t.strategy, mark, t.threshold>>
             cmd == Command("XADD", xs, os, ys)
  <1>1. Encode(r) = cmd  BY DEF Encode, xadd_options, StreamAddOptions, AddSet
  <1>2. /\ r.fields \in Seq(STRING \X STRING) /\ r.cmd = "XADD"
        /\ r.trim \in Option(TrimSet({"MAXLEN", "MINID"}, Option(Nat)))
    BY DEF AddSet
  <1>3. r.make_stream \in BOOLEAN  BY DEF AddSet
  <1>4. r.trim # None => t \in TrimSet({"MAXLEN", "MINID"}, Option(Nat)) /\ r.trim = <<t>>
    BY <1>2, OptionIsOption, NoneIsOption
  <1>5. /\ IsOptions(v1)
        /\ \A w : ItemsOf(v1, w) = IF w = "NOMKSTREAM" /\ ~r.make_stream THEN {<<"NOMKSTREAM">>} ELSE {}
    <2>1. (~r.make_stream) \in BOOLEAN  BY <1>3
    <2> QED  BY <2>1, FlagOptions
  <1>6. ASSUME r.trim # None
        PROVE  /\ t.strategy \in {"MAXLEN", "MINID"} /\ IsOption(t.limit) /\ t.exact \in BOOLEAN
               /\ IsOptions(v2) /\ Carries(v2, "LIMIT", t.limit) /\ ItemsOf(v2, "NOMKSTREAM") = {}
               /\ \A w \in {"MAXLEN", "MINID"} : ItemsOf(v2, w) = IF w = t.strategy THEN {item} ELSE {}
    <2>1. t.strategy \in {"MAXLEN", "MINID"} /\ t.limit \in Option(Nat) /\ t.exact \in BOOLEAN
      <3> HIDE DEF t
      <3> QED  BY <1>4, <1>6 DEF TrimSet
    <2>2. IsOption(t.limit)  BY <2>1, OptionIsOption
    <2> DEFINE l == Value("LIMIT", t.limit)
               i1 == <<item>>
    <2>3. v2 = i1 \o l  BY <1>6 DEF StreamTrimOptions
    <2> HIDE DEF v2
    <2>4. IsOptions(l) /\ \A w : ItemsOf(l, w) = IF w = "LIMIT" /\ t.limit # <<>> THEN {<<"LIMIT", t.limit[1]>>} ELSE {}
      <3> HIDE DEF t
      <3> QED  BY <2>2, ValueOptions
    <2>5. IsOptions(i1) /\ \A w : ItemsOf(i1, w) = IF w = t.strategy THEN {item} ELSE {}
      <3> HIDE DEF t, mark
      <3>1. item[1] = t.strategy /\ item[1] # "arg"  BY <2>1
      <3> HIDE DEF item
      <3> QED  BY <3>1, ItemOptions
    <2> HIDE DEF l, i1, t, item
    <2>6. IsOptions(v2) /\ \A w : ItemsOf(v2, w) = ItemsOf(i1, w) \cup ItemsOf(l, w)
      BY <2>3, <2>4, <2>5, OptionsCat
    <2> QED  BY <2>1, <2>2, <2>4, <2>5, <2>6 DEF Carries
  <1>7. r.trim = None => IsOptions(v2) /\ \A w : ItemsOf(v2, w) = {}  BY EmptyOptions
  <1> HIDE DEF v1, v2, t, item, mark
  <1>8. IsOptions(os) /\ \A w : ItemsOf(os, w) = ItemsOf(v1, w) \cup ItemsOf(v2, w)
    BY <1>5, <1>6, <1>7, OptionsCat
  <1> HIDE DEF os
  <1>9. IsSeq(xs) /\ IsSeq(mid) /\ Len(xs) = 1 /\ xs \o mid = pre  BY ShortSeqs, ShortCats
  <1>10. IsSeq(f)  BY <1>2, FlattenedPairs
  <1> HIDE DEF xs, mid, f, pre
  <1>11. IsSeq(ys) /\ xs \o ys = pre \o f
    <2>1. IsSeq(ys)  BY <1>9, <1>10, SeqCat
    <2>2. Associates(xs, mid, f)  BY <1>9, <1>10, CatAssoc
    <2> QED  BY <2>1, <2>2, <1>9 DEF Associates
  <1> HIDE DEF ys
  <1>12. Understands(cmd, "XADD", xs \o ys, os)  BY <1>8, <1>9, <1>11, UnderstandsLate
  <1> HIDE DEF cmd
  <1>13. LET a == ArgsOf(cmd) IN
           a[1] = r.key /\ a[2] = r.id /\ Alternating(SubSeq(a, 3, Len(a))) = r.fields
    <2>1. ArgsOf(cmd) = <<r.key, r.id>> \o Flattened(r.fields)  BY <1>11, <1>12 DEF Understands, pre, f
    <2> QED  BY <2>1, <1>2, AddArgs
  <1>14. \A w \in {"NOMKSTREAM", "MAXLEN", "MINID", "LIMIT"} : Items(cmd, w) = ItemsOf(v1, w) \cup ItemsOf(v2, w)
    BY <1>8, <1>12 DEF Understands
  <1>15. (~Has(cmd, "NOMKSTREAM")) = r.make_stream
    <2>1. ItemsOf(v2, "NOMKSTREAM") = {}  BY <1>6, <1>7
    <2>2. Items(cmd, "NOMKSTREAM") = IF ~r.make_stream THEN {<<"NOMKSTREAM">>} ELSE {}
      BY <2>1, <1>5, <1>14
    <2>3. Has(cmd, "NOMKSTREAM") <=> ~r.make_stream  BY <2>2 DEF Has
    <2>4. Has(cmd, "NOMKSTREAM") \in BOOLEAN  BY DEF Has
    <2> QED  BY <2>3, <2>4, <1>3
  <1>16. TrimOf(cmd) = r.trim
    <2>1. \A w \in {"MAXLEN", "MINID", "LIMIT"} : Items(cmd, w) = ItemsOf(v2, w)  BY <1>5, <1>14
    <2>2. CASE r.trim = None
      <3>1. \A w \in {"MAXLEN", "MINID"} : Items(cmd, w) = {}  BY <2>1, <2>2, <1>7
      <3> QED  BY <3>1, <2>2 DEF Has, TrimOf
    <2>3. CASE r.trim # None
      <3>1. Items(cmd, "LIMIT") = IF t.limit # <<>> THEN {<<"LIMIT", t.limit[1]>>} ELSE {}
        BY <2>1, <2>3, <1>6 DEF Carries
      <3>2. Opt(cmd, "LIMIT") = t.limit  BY <3>1, <2>3, <1>6, OptFound
      <3>3. \A w \in {"MAXLEN", "MINID"} : Items(cmd, w) = IF w = t.strategy THEN {item} ELSE {}
        BY <2>1, <2>3, <1>6
      <3>4. Items(cmd, t.strategy) = {<<t.strategy, mark, t.threshold>>}  BY <3>3, <2>3, <1>6 DEF item
      <3>5. t.strategy = "MINID" => Items(cmd, "MAXLEN") = {}  BY <3>3
      <3>6. t.exact <=> mark # "~"  BY <2>3, <1>6 DEF mark
      <3>7. TrimOf(cmd) = Some(t)  BY <3>2, <3>4, <3>5, <3>6, <2>3, <1>4, TrimFound
      <3> QED  BY <3>7, <2>3, <1>4 DEF Some
    <2> QED  BY <2>2, <2>3
  <1>17. cmd[1][1] = "XADD" /\ Parse(cmd) = Understood(cmd)  BY <1>12 DEF Understands
  <1>18. Understood(cmd) = [cmd |-> r.cmd, key |-> r.key, id |-> r.id, fields |-> r.fields,
           make_stream |-> r.make_stream, trim |-> r.trim]
    BY <1>2, <1>13, <1>15, <1>16, <1>17 DEF Understood
  <1> QED  BY <1>1, <1>17, <1>18

-----------------------------------------------------------------------------
(* The conversions of a single value undo its encoding. *)
LEMMA Scalars ==
  /\ \A x : to_string(Bulk(x)) = x /\ to_bytes(Bulk(x)) = x
  /\ \A x : to_opt_string(Bulk(x)) = Some(x) /\ to_opt_bytes(Bulk(x)) = Some(x)
  /\ \A x : to_i64(Integer(x)) = x /\ to_i64(Bulk(x)) = x
  /\ \A x : Bulk(x) # Nil /\ Array(x) # Nil /\ Map(x) # Nil
  /\ to_opt_string(Nil) = None /\ to_opt_bytes(Nil) = None
  /\ \A x : IsI64(Integer(x)) /\ IsI64(Bulk(x)) /\ IsText(Bulk(x)) /\ IsBytes(Bulk(x))
PROOF
  <1>1. ASSUME NEW x PROVE IsI64(Integer(x)) /\ IsI64(Bulk(x)) /\ IsText(Bulk(x)) /\ IsBytes(Bulk(x))
    BY DEF IsI64, IsText, IsBytes, Integer, Bulk
  <1>2. ASSUME NEW x PROVE to_string(Bulk(x)) = x /\ to_bytes(Bulk(x)) = x
    <2>1. Bulk(x).tag = "BulkString" /\ Bulk(x).v = x  BY DEF Bulk
    <2>2. Bulk(x) # Okay  BY <2>1 DEF Okay
    <2>3. to_string(Bulk(x)) = x  BY <2>1, <2>2 DEF to_string, IsI64
    <2> QED  BY <2>1, <2>3 DEF to_bytes
  <1>3. ASSUME NEW x PROVE Bulk(x) # Nil /\ Array(x) # Nil /\ Map(x) # Nil
    <2>1. Bulk(x).tag # Nil.tag /\ Array(x).tag # Nil.tag /\ Map(x).tag # Nil.tag  BY DEF Bulk, Array, Map, Nil
    <2> QED  BY <2>1
  <1>4. ASSUME NEW x PROVE to_opt_string(Bulk(x)) = Some(x) /\ to_opt_bytes(Bulk(x)) = Some(x)
    BY <1>2, <1>3, <1>1 DEF to_opt_string, to_opt_bytes
  <1>5. ASSUME NEW x PROVE to_i64(Integer(x)) = x /\ to_i64(Bulk(x)) = x  BY DEF to_i64, IsI64, Integer, Bulk
  <1>6. to_opt_string(Nil) = None /\ to_opt_bytes(Nil) = None
    <2>1. ~IsText(Nil) /\ ~IsBytes(Nil)  BY DEF IsBytes, IsText, IsI64, Nil, Okay
    <2> QED  BY <2>1 DEF to_opt_string, to_opt_bytes
  <1> QED  BY <1>2, <1>3, <1>4, <1>5, <1>6, <1>1

(* What keeps the arrays of n items keeps all of them, and drops a leading Nil. *)
LEMMA KeptArrays ==
  ASSUME NEW n, NEW S, NEW s \in Seq(S), \A i \in 1..Len(s) : IsArray(s[i], n)
  PROVE  /\ Kept(s, LAMBDA e : IsArray(e, n)) = s
         /\ Kept(<<Nil>> \o s, LAMBDA e : IsArray(e, n)) = s
PROOF
  <1> DEFINE l == Len(s)
  <1>0. l \in Nat /\ DOMAIN s = 1..l /\ s \in [1..l -> S]  OBVIOUS
  <1>1. Kept(s, LAMBDA e : IsArray(e, n)) = s
    <2>1. {i \in DOMAIN s : IsArray(s[i], n)} = 1..l  BY <1>0
    <2>2. Sorted(1..l) = [i \in 1..l |-> i]
      <3>1. Sorted(1..l) = [i \in 1..(l - 1 + 1) |-> 1 + i - 1]  BY <1>0, SortedInterval
      <3>2. l - 1 + 1 = l /\ \A i \in 1..l : 1 + i - 1 = i  BY <1>0
      <3> QED  BY <3>1, <3>2
    <2> HIDE DEF l
    <2> QED  BY <2>1, <2>2, <1>0 DEF Kept
  <1>2. Kept(<<Nil>> \o s, LAMBDA e : IsArray(e, n)) = s
    <2> DEFINE u == <<Nil>> \o s
    <2>1. DOMAIN u = 1..(l + 1) /\ u[1] = Nil /\ \A i \in 2..(l + 1) : u[i] = s[i - 1]
      <3>1. <<Nil>> \in Seq({Nil}) /\ Len(<<Nil>>) = 1 /\ <<Nil>>[1] = Nil  OBVIOUS
      <3>2. PICK x : x = <<Nil>>  OBVIOUS
      <3>3. x \o s \in Seq({Nil} \cup S) /\ IsCat(x \o s, x, s)  BY <3>1, <3>2, Cat
      <3>4. Len(x \o s) = l + 1  BY <3>1, <3>2, <3>3, <1>0 DEF IsCat
      <3>5. DOMAIN (x \o s) = 1..(l + 1)  BY <3>3, <3>4
      <3>6. (x \o s)[1] = Nil /\ \A i \in 2..(l + 1) : (x \o s)[i] = s[i - 1]
        BY <3>1, <3>2, <3>3, <1>0 DEF IsCat
      <3> QED  BY <3>2, <3>5, <3>6
    <2> HIDE DEF u, l
    <2>2. ~IsArray(Nil, n)  BY DEF IsArray, Nil
    <2>3. {i \in DOMAIN u : IsArray(u[i], n)} = 2..(l + 1)
      <3>1. ASSUME NEW i \in 2..(l + 1) PROVE IsArray(u[i], n)
        <4>1. i - 1 \in 1..l  BY <1>0
        <4>2. IsArray(s[i - 1], n)  BY <4>1 DEF l
        <4> QED  BY <4>2, <2>1
      <3> QED  BY <3>1, <2>1, <2>2, <1>0
    <2>4. Sorted(2..(l + 1)) = [i \in 1..l |-> i + 1]
      <3>1. PICK b \in Int : b = l + 1  BY <1>0
      <3>2. Sorted(2..b) = [i \in 1..(b - 2 + 1) |-> 2 + i - 1]  BY <3>1, <1>0, SortedInterval
      <3>3. b - 2 + 1 = l /\ \A i \in 1..l : 2 + i - 1 = i + 1  BY <3>1, <1>0
      <3> QED  BY <3>1, <3>2, <3>3
    <2>5. Kept(u, LAMBDA e : IsArray(e, n)) = [i \in 1..l |-> u[i + 1]]  BY <2>3, <2>4 DEF Kept
    <2>6. \A i \in 1..l : u[i + 1] = s[i]
      <3> SUFFICES ASSUME NEW i \in 1..l PROVE u[i + 1] = s[i]  OBVIOUS
      <3>1. i + 1 \in 2..(l + 1) /\ (i + 1) - 1 = i  BY <1>0
      <3> QED  BY <3>1, <2>1
    <2>7. Kept(u, LAMBDA e : IsArray(e, n)) = s  BY <2>5, <2>6, <1>0
    <2> QED  BY <2>7 DEF u
  <1> QED  BY <1>1, <1>2

(* A function on 1..n is a sequence of length n. *)
LEMMA FcnSeq ==
  ASSUME NEW n \in Nat, NEW T, NEW s \in [1..n -> T]
  PROVE  s \in Seq(T) /\ Len(s) = n
PROOF  OBVIOUS

(* A reply of pairs, as a map or as an array of arrays, with or without a leading Nil. *)
LEMMA PairsDecoded ==
  ASSUME NEW V, NEW W, NEW ps \in Seq(V \X W)
  PROVE  /\ \A resp3 \in BOOLEAN : PairsOf(Pairs(ps, resp3)) = ps
         /\ PairsOf(Array(<<Nil>> \o Pairs(ps, FALSE).v)) = ps
         /\ \A resp3 \in BOOLEAN : Pairs(ps, resp3).tag \in {"Map", "Array"}
PROOF
  <1> DEFINE as == Each(Array, ps)
  <1>0. Len(ps) \in Nat /\ DOMAIN ps = 1..Len(ps) /\ \A i \in 1..Len(ps) : ps[i] \in V \X W  OBVIOUS
  <1>1. as = [i \in 1..Len(ps) |-> Array(ps[i])]  BY <1>0 DEF Each
  <1>2. as \in Seq({Array(p) : p \in V \X W}) /\ Len(as) = Len(ps)
    <2>1. PICK n \in Nat : n = Len(ps)  BY <1>0
    <2>2. PICK T : T = {Array(p) : p \in V \X W}  OBVIOUS
    <2>3. as \in [1..n -> T]  BY <1>0, <1>1, <2>1, <2>2
    <2> HIDE DEF as
    <2>4. as \in Seq(T) /\ Len(as) = n  BY <2>3, FcnSeq
    <2> QED  BY <2>1, <2>2, <2>4
  <1>3. \A i \in 1..Len(as) : IsArray(as[i], 2) /\ as[i].v = ps[i]
    <2> SUFFICES ASSUME NEW i \in 1..Len(ps) PROVE IsArray(as[i], 2) /\ as[i].v = ps[i]  BY <1>2
    <2>1. as[i] = Array(ps[i])  BY <1>1
    <2>2. Len(ps[i]) = 2
      <3>1. PICK a \in V, b \in W : ps[i] = <<a, b>>  BY <1>0
      <3> QED  BY <3>1
    <2>3. Array(ps[i]).tag = "Array" /\ Array(ps[i]).v = ps[i]  BY DEF Array
    <2> HIDE DEF as
    <2> QED  BY <2>1, <2>2, <2>3 DEF IsArray
  <1> HIDE DEF as
  <1>4. Kept(as, LAMBDA e : IsArray(e, 2)) = as /\ Kept(<<Nil>> \o as, LAMBDA e : IsArray(e, 2)) = as
    BY <1>2, <1>3, KeptArrays
  <1>5. Each(LAMBDA p : p.v, as) = ps
    <2>1. DOMAIN as = 1..Len(ps)  BY <1>1
    <2>2. Each(LAMBDA p : p.v, as) = [i \in 1..Len(ps) |-> ps[i]]  BY <2>1, <1>2, <1>3 DEF Each
    <2> QED  BY <2>2, <1>0
  <1>6. PairsOf(Array(as)) = ps
    <2>1. Array(as) # Nil /\ Array(as).tag = "Array" /\ Array(as).v = as  BY Scalars DEF Array
    <2> QED  BY <2>1, <1>4, <1>5 DEF PairsOf
  <1>7. PairsOf(Array(<<Nil>> \o as)) = ps
    <2>1. PICK u : u = <<Nil>> \o as  OBVIOUS
    <2>2. Array(u) # Nil /\ Array(u).tag = "Array" /\ Array(u).v = u  BY Scalars DEF Array
    <2>3. Kept(u, LAMBDA e : IsArray(e, 2)) = as  BY <2>1, <1>4
    <2>4. PairsOf(Array(u)) = ps  BY <2>2, <2>3, <1>5 DEF PairsOf
    <2> QED  BY <2>1, <2>4
  <1>8. PairsOf(Map(ps)) = ps
    <2>1. Map(ps) # Nil /\ Map(ps).tag = "Map" /\ Map(ps).v = ps  BY Scalars DEF Map
    <2> QED  BY <2>1 DEF PairsOf
  <1>9. Pairs(ps, TRUE) = Map(ps) /\ Pairs(ps, FALSE) = Array(as) /\ Array(as).v = as
    BY DEF Pairs, as, Array
  <1>10. Map(ps).tag = "Map" /\ Array(as).tag = "Array"  BY DEF Map, Array
  <1> QED  BY <1>6, <1>7, <1>8, <1>9, <1>10

(* The fields of an entry, whether they come in pairs, flat, or not at all. *)
LEMMA FieldsDecoded ==
  ASSUME NEW A, NEW B, NEW fs \in Seq(A \X B), NEW resp3 \in BOOLEAN
  PROVE  /\ parse_fields(FieldsValue(fs, resp3)) = fs
         /\ All(IsField, FieldPairs(FieldsValue(fs, resp3)))
PROOF
  <1>0. Len(fs) \in Nat /\ DOMAIN fs = 1..Len(fs) /\ fs \in [1..Len(fs) -> A \X B]
        /\ \A i \in 1..Len(fs) : fs[i] = <<fs[i][1], fs[i][2]>>
    <2>1. \A i \in 1..Len(fs) : fs[i] \in A \X B  OBVIOUS
    <2> QED  BY <2>1
  <1>1. CASE fs = <<>>
    <2>1. FieldsValue(fs, resp3) = Nil  BY <1>1 DEF FieldsValue
    <2>2. Nil.tag # "Array"  BY DEF Nil
    <2>3. FieldPairs(Nil) = <<>>  BY <2>2 DEF FieldPairs
    <2>4. parse_fields(Nil) = <<>> /\ All(IsField, FieldPairs(Nil))
      BY <2>3 DEF parse_fields, TryEach, All, Each
    <2> QED  BY <2>1, <2>4, <1>1
  <1>2. CASE fs # <<>> /\ resp3
    <2> DEFINE bs == Each(Bulks, fs)
               v == Array(bs)
    <2>1. FieldsValue(fs, resp3) = v  BY <1>2 DEF FieldsValue
    <2>2. v # Nil /\ v.tag = "Array" /\ v.v = bs  BY Scalars DEF Array
    <2>3. bs = [i \in 1..Len(fs) |-> Bulks(fs[i])]  BY <1>0 DEF Each
    <2>4. ASSUME NEW i \in 1..Len(fs)
          PROVE  IsArray(bs[i], 2) /\ bs[i].v[1] = Bulk(fs[i][1]) /\ bs[i].v[2] = Bulk(fs[i][2])
      <3>1. PICK a, b : fs[i] = <<a, b>>  BY <1>0
      <3>2. Each(Bulk, <<a, b>>) = <<Bulk(a), Bulk(b)>>  BY DEF Each
      <3>3. bs[i] = Array(<<Bulk(a), Bulk(b)>>)  BY <2>3, <3>1, <3>2 DEF Bulks
      <3>4. fs[i][1] = a /\ fs[i][2] = b  BY <3>1
      <3> QED  BY <3>3, <3>4 DEF IsArray, Array
    <2>5. DOMAIN bs = 1..Len(fs)  BY <2>3
    <2> HIDE DEF bs, v
    <2>6. \A i \in DOMAIN v.v : IsArray(v.v[i], 2)  BY <2>2, <2>4, <2>5
    <2>7. Each(LAMBDA p : p.v, bs) = [i \in 1..Len(fs) |-> bs[i].v]  BY <2>5 DEF Each
    <2>8. FieldPairs(v) = [i \in 1..Len(fs) |-> bs[i].v]  BY <2>2, <2>6, <2>7 DEF FieldPairs, All
    <2>9. All(IsField, FieldPairs(v))  BY <2>4, <2>8, Scalars DEF All, IsField
    <2>10. parse_fields(v) = Each(LAMBDA p : <<to_bytes(p[1]), to_bytes(p[2])>>, FieldPairs(v))
      BY <2>9 DEF parse_fields, TryEach
    <2>11. parse_fields(v) = [i \in 1..Len(fs) |-> <<to_bytes(bs[i].v[1]), to_bytes(bs[i].v[2])>>]
      BY <2>10, <2>8 DEF Each
    <2>12. \A i \in 1..Len(fs) : <<to_bytes(bs[i].v[1]), to_bytes(bs[i].v[2])>> = fs[i]
      BY <2>4, <1>0, Scalars
    <2> QED  BY <2>1, <2>11, <2>12, <2>9, <1>0
  <1>3. CASE fs # <<>> /\ ~resp3
    <2> DEFINE fl == Flattened(fs)
               bs == Each(Bulk, fl)
               v == Array(bs)
    <2>1. FieldsValue(fs, resp3) = v  BY <1>3 DEF FieldsValue, Bulks
    <2>2. v # Nil /\ v.tag = "Array" /\ v.v = bs  BY Scalars DEF Array
    <2>3. /\ IsSeq(fl) /\ Len(fl) = 2 * Len(fs)
          /\ \A i \in 1..Len(fs) : fl[2 * i - 1] = fs[i][1] /\ fl[2 * i] = fs[i][2]
      BY FlattenedPairs
    <2>4. DOMAIN fl = 1..(2 * Len(fs))  BY <2>3 DEF IsSeq
    <2> HIDE DEF fl
    <2>5. bs = [i \in 1..(2 * Len(fs)) |-> Bulk(fl[i])] /\ 2 * Len(fs) \in Nat  BY <2>4, <1>0 DEF Each
    <2>6. Len(bs) = 2 * Len(fs)
      <3>1. bs \in [1..(2 * Len(fs)) -> {Bulk(fl[i]) : i \in 1..(2 * Len(fs))}]  BY <2>5
      <3> HIDE DEF bs
      <3> QED  BY <3>1, <2>5
    <2>7. Len(fs) # 0  BY <1>3
    <2>8. 1 \in DOMAIN bs /\ ~IsArray(bs[1], 2)
      <3>1. 1 \in 1..(2 * Len(fs))  BY <2>7, <1>0
      <3>2. bs[1] = Bulk(fl[1]) /\ 1 \in DOMAIN bs  BY <3>1, <2>5
      <3>3. Bulk(fl[1]).tag # "Array"  BY DEF Bulk
      <3> HIDE DEF bs
      <3> QED  BY <3>2, <3>3 DEF IsArray
    <2> HIDE DEF bs, v
    <2>9. ~\A i \in DOMAIN v.v : IsArray(v.v[i], 2)  BY <2>2, <2>8
    <2>10. FieldPairs(v) = Alternating(v.v)  BY <2>2, <2>9 DEF FieldPairs, All
    <2>11. (2 * Len(fs)) \div 2 = Len(fs)
      <3>1. \A n \in Nat : (2 * n) \div 2 = n  OBVIOUS
      <3> QED  BY <3>1, <1>0
    <2>12. Alternating(bs) = [i \in 1..Len(fs) |-> <<bs[2 * i - 1], bs[2 * i]>>]
      BY <2>6, <2>11 DEF Alternating
    <2>13. All(IsField, FieldPairs(v))
      <3>1. FieldPairs(v) = [i \in 1..Len(fs) |-> <<bs[2 * i - 1], bs[2 * i]>>]  BY <2>2, <2>10, <2>12
      <3>2. ASSUME NEW i \in 1..Len(fs) PROVE IsField(<<bs[2 * i - 1], bs[2 * i]>>)
        <4>1. 2 * i - 1 \in 1..(2 * Len(fs)) /\ 2 * i \in 1..(2 * Len(fs))  BY <1>0
        <4>2. bs[2 * i - 1] = Bulk(fl[2 * i - 1]) /\ bs[2 * i] = Bulk(fl[2 * i])  BY <4>1, <2>5
        <4> QED  BY <4>2, Scalars DEF IsField
      <3> QED  BY <3>1, <3>2 DEF All
    <2>14. parse_fields(v) = [i \in 1..Len(fs) |-> <<to_bytes(bs[2 * i - 1]), to_bytes(bs[2 * i])>>]
      <3>1. FieldPairs(v) = [i \in 1..Len(fs) |-> <<bs[2 * i - 1], bs[2 * i]>>]  BY <2>2, <2>10, <2>12
      <3> QED  BY <3>1, <2>13 DEF parse_fields, TryEach, Each
    <2>15. ASSUME NEW i \in 1..Len(fs) PROVE <<to_bytes(bs[2 * i - 1]), to_bytes(bs[2 * i])>> = fs[i]
      <3>1. 2 * i - 1 \in 1..(2 * Len(fs)) /\ 2 * i \in 1..(2 * Len(fs))  BY <1>0
      <3>2. bs[2 * i - 1] = Bulk(fs[i][1]) /\ bs[2 * i] = Bulk(fs[i][2])  BY <3>1, <2>3, <2>5
      <3> QED  BY <3>2, <1>0, Scalars
    <2> QED  BY <2>1, <2>14, <2>15, <2>13, <1>0
  <1> QED  BY <1>1, <1>2, <1>3

(* Entries: an id and fields each, as a range, a claim or a read returns them. *)
EntrySet == Id \X Seq({"f", "h"} \X Nat)

LEMMA EntriesDecoded ==
  ASSUME NEW es \in Seq(EntrySet)
  PROVE  /\ \A resp3 \in BOOLEAN : /\ parse_entries(EntriesValue(es, resp3)) = es
                                   /\ IsEntries(EntriesValue(es, resp3))
         /\ parse_entries(Array(<<Nil>> \o EntriesValue(es, FALSE).v)) = es
         /\ IsEntries(Array(<<Nil>> \o EntriesValue(es, FALSE).v))
PROOF
  <1>0. Len(es) \in Nat /\ DOMAIN es = 1..Len(es) /\ es \in [1..Len(es) -> EntrySet]
        /\ \A i \in 1..Len(es) : es[i] = <<es[i][1], es[i][2]>> /\ es[i][2] \in Seq({"f", "h"} \X Nat)
    <2>1. \A i \in 1..Len(es) : es[i] \in EntrySet  OBVIOUS
    <2> QED  BY <2>1 DEF EntrySet
  <1> DEFINE ps(resp3) == Each(LAMBDA e : <<Bulk(e[1]), FieldsValue(e[2], resp3)>>, es)
             V == {Bulk(es[i][1]) : i \in 1..Len(es)}
             W(resp3) == {FieldsValue(es[i][2], resp3) : i \in 1..Len(es)}
             Entry(p) == <<to_string(p[1]), parse_fields(p[2])>>
  <1>1. ASSUME NEW resp3 \in BOOLEAN
        PROVE  /\ ps(resp3) \in Seq(V \X W(resp3)) /\ EntriesValue(es, resp3) = Pairs(ps(resp3), resp3)
               /\ Each(Entry, ps(resp3)) = es /\ All(IsEntry, ps(resp3))
    <2>1. ps(resp3) = [i \in 1..Len(es) |-> <<Bulk(es[i][1]), FieldsValue(es[i][2], resp3)>>]
      BY <1>0 DEF Each
    <2>2. ps(resp3) \in [1..Len(es) -> V \X W(resp3)]
      <3>1. \A i \in 1..Len(es) : Bulk(es[i][1]) \in V /\ FieldsValue(es[i][2], resp3) \in W(resp3)  OBVIOUS
      <3> HIDE DEF V, W, ps
      <3> QED  BY <2>1, <3>1
    <2>3. EntriesValue(es, resp3) = Pairs(ps(resp3), resp3)  BY DEF EntriesValue
    <2>4. ASSUME NEW i \in 1..Len(es) PROVE Entry(ps(resp3)[i]) = es[i]
      <3>1. ps(resp3)[i] = <<Bulk(es[i][1]), FieldsValue(es[i][2], resp3)>>  BY <2>1
      <3>2. to_string(Bulk(es[i][1])) = es[i][1]  BY Scalars
      <3>3. parse_fields(FieldsValue(es[i][2], resp3)) = es[i][2]  BY <1>0, FieldsDecoded
      <3> HIDE DEF ps
      <3> QED  BY <3>1, <3>2, <3>3, <1>0
    <2>5. ASSUME NEW i \in 1..Len(es) PROVE IsEntry(ps(resp3)[i])
      <3>1. ps(resp3)[i] = <<Bulk(es[i][1]), FieldsValue(es[i][2], resp3)>>  BY <2>1
      <3>2. All(IsField, FieldPairs(FieldsValue(es[i][2], resp3)))  BY <1>0, FieldsDecoded
      <3>3. PICK f : f = FieldsValue(es[i][2], resp3)  OBVIOUS
      <3>4. IsText(Bulk(es[i][1]))  BY Scalars
      <3> HIDE DEF ps
      <3> QED  BY <3>1, <3>2, <3>3, <3>4 DEF IsEntry
    <2>6. DOMAIN ps(resp3) = 1..Len(es)  BY <2>1
    <2>7. All(IsEntry, ps(resp3))
      <3> HIDE DEF ps
      <3> QED  BY <2>6, <2>5 DEF All
    <2> HIDE DEF ps, V, W
    <2>8. ps(resp3) \in Seq(V \X W(resp3))  BY <2>2, <1>0, FcnSeq
    <2>9. Each(Entry, ps(resp3)) = [i \in 1..Len(es) |-> Entry(ps(resp3)[i])]  BY <2>6 DEF Each
    <2> HIDE DEF Entry
    <2>10. Each(Entry, ps(resp3)) = [i \in 1..Len(es) |-> es[i]]  BY <2>4, <2>9
    <2> QED  BY <2>3, <2>8, <2>10, <2>7, <1>0
  <1> HIDE DEF ps, V, W
  <1>2. \A v : (v.tag \in {"Nil", "Map", "Array"} /\ (PairsOf(v) = ps(TRUE) \/ PairsOf(v) = ps(FALSE)))
               => parse_entries(v) = es /\ IsEntries(v)
    <2> TAKE v
    <2> HAVE v.tag \in {"Nil", "Map", "Array"} /\ (PairsOf(v) = ps(TRUE) \/ PairsOf(v) = ps(FALSE))
    <2>1. All(IsEntry, ps(TRUE)) /\ All(IsEntry, ps(FALSE))  BY <1>1
    <2>2. IsEntries(v)  BY <2>1 DEF IsEntries
    <2>3. parse_entries(v) = Each(Entry, PairsOf(v))  BY <2>2 DEF parse_entries
    <2> HIDE DEF Entry
    <2>4. Each(Entry, ps(TRUE)) = es /\ Each(Entry, ps(FALSE)) = es  BY <1>1
    <2> QED  BY <2>3, <2>4, <2>2
  <1> HIDE DEF Entry
  <1>3. ASSUME NEW resp3 \in BOOLEAN
        PROVE  parse_entries(EntriesValue(es, resp3)) = es /\ IsEntries(EntriesValue(es, resp3))
    <2>1. PICK v : v = EntriesValue(es, resp3)  OBVIOUS
    <2>2. ps(resp3) \in Seq(V \X W(resp3)) /\ v = Pairs(ps(resp3), resp3)  BY <2>1, <1>1
    <2>3. PairsOf(v) = ps(resp3) /\ v.tag \in {"Map", "Array"}  BY <2>2, PairsDecoded
    <2>4. PairsOf(v) = ps(TRUE) \/ PairsOf(v) = ps(FALSE)  BY <2>3
    <2>5. parse_entries(v) = es /\ IsEntries(v)  BY <2>3, <2>4, <1>2
    <2> QED  BY <2>1, <2>5
  <1>4. /\ parse_entries(Array(<<Nil>> \o EntriesValue(es, FALSE).v)) = es
        /\ IsEntries(Array(<<Nil>> \o EntriesValue(es, FALSE).v))
    <2>1. PICK w : w = Array(<<Nil>> \o EntriesValue(es, FALSE).v)  OBVIOUS
    <2>2. ps(FALSE) \in Seq(V \X W(FALSE)) /\ w = Array(<<Nil>> \o Pairs(ps(FALSE), FALSE).v)  BY <2>1, <1>1
    <2>3. PairsOf(w) = ps(FALSE)  BY <2>2, PairsDecoded
    <2>4. w.tag = "Array"  BY <2>1 DEF Array
    <2>5. parse_entries(w) = es /\ IsEntries(w)  BY <2>3, <2>4, <1>2
    <2> QED  BY <2>1, <2>5
  <1> QED  BY <1>3, <1>4

(* Claimed entries, with the Nil an old server puts among them. *)
LEMMA ClaimedDecoded ==
  ASSUME NEW es \in Seq(EntrySet), NEW resp3 \in BOOLEAN
  PROVE  parse_entries(ClaimedValue(es, resp3)) = es /\ IsEntries(ClaimedValue(es, resp3))
PROOF  BY EntriesDecoded DEF ClaimedValue

(* The streams of a read. *)
LEMMA StreamsDecoded ==
  ASSUME NEW K, NEW ss \in Seq(K \X Seq(EntrySet)), NEW resp3 \in BOOLEAN
  PROVE  parse_stream_read(AsValue("streams", ss, resp3)) = ss
PROOF
  <1>0. Len(ss) \in Nat /\ DOMAIN ss = 1..Len(ss) /\ ss \in [1..Len(ss) -> K \X Seq(EntrySet)]
        /\ \A i \in 1..Len(ss) : ss[i] = <<ss[i][1], ss[i][2]>> /\ ss[i][2] \in Seq(EntrySet)
    <2>1. \A i \in 1..Len(ss) : ss[i] \in K \X Seq(EntrySet)  OBVIOUS
    <2> QED  BY <2>1
  <1> DEFINE ps == Each(LAMBDA s : <<Bulk(s[1]), EntriesValue(s[2], resp3)>>, ss)
             V == {Bulk(ss[i][1]) : i \in 1..Len(ss)}
             W == {EntriesValue(ss[i][2], resp3) : i \in 1..Len(ss)}
             Entry(p) == <<to_bytes(p[1]), parse_entries(p[2])>>
  <1>1. CASE ss = <<>>
    <2>1. AsValue("streams", ss, resp3) = Nil  BY <1>1 DEF AsValue
    <2>2. Nil.tag = "Nil"  BY DEF Nil
    <2>3. PairsOf(Nil) = <<>>  BY <2>2 DEF PairsOf
    <2>4. All(IsStream, <<>>)  BY DEF All
    <2>5. parse_stream_read(Nil) = Each(Entry, <<>>)
      BY <2>2, <2>3, <2>4 DEF parse_stream_read, TryEach
    <2>6. Each(Entry, <<>>) = <<>>  BY DEF Each
    <2> QED  BY <2>1, <2>5, <2>6, <1>1
  <1>2. CASE ss # <<>>
    <2>1. ps = [i \in 1..Len(ss) |-> <<Bulk(ss[i][1]), EntriesValue(ss[i][2], resp3)>>]  BY <1>0 DEF Each
    <2>2. ps \in [1..Len(ss) -> V \X W]
      <3>1. \A i \in 1..Len(ss) : Bulk(ss[i][1]) \in V /\ EntriesValue(ss[i][2], resp3) \in W  OBVIOUS
      <3> HIDE DEF V, W, ps
      <3> QED  BY <2>1, <3>1
    <2>3. AsValue("streams", ss, resp3) = Pairs(ps, resp3)  BY <1>2 DEF AsValue
    <2>4. ASSUME NEW i \in 1..Len(ss) PROVE Entry(ps[i]) = ss[i]
      <3>1. ps[i] = <<Bulk(ss[i][1]), EntriesValue(ss[i][2], resp3)>>  BY <2>1
      <3>2. to_bytes(Bulk(ss[i][1])) = ss[i][1]  BY Scalars
      <3>3. parse_entries(EntriesValue(ss[i][2], resp3)) = ss[i][2]  BY <1>0, EntriesDecoded
      <3> HIDE DEF ps
      <3> QED  BY <3>1, <3>2, <3>3, <1>0
    <2>5. DOMAIN ps = 1..Len(ss)  BY <2>1
    <2> HIDE DEF ps, V, W
    <2>6. ps \in Seq(V \X W)  BY <2>2, <1>0, FcnSeq
    <2>7. PairsOf(Pairs(ps, resp3)) = ps /\ Pairs(ps, resp3).tag \in {"Map", "Array"}  BY <2>6, PairsDecoded
    <2>8. All(IsStream, ps)
      <3>1. ASSUME NEW i \in 1..Len(ss) PROVE IsStream(ps[i])
        <4>1. ps[i] = <<Bulk(ss[i][1]), EntriesValue(ss[i][2], resp3)>>  BY <2>1
        <4>2. IsEntries(EntriesValue(ss[i][2], resp3))  BY <1>0, EntriesDecoded
        <4>3. IsBytes(Bulk(ss[i][1]))  BY Scalars
        <4> QED  BY <4>1, <4>2, <4>3 DEF IsStream
      <3> QED  BY <2>5, <3>1 DEF All
    <2>9. parse_stream_read(Pairs(ps, resp3)) = Each(Entry, ps)
      BY <2>7, <2>8 DEF parse_stream_read, TryEach
    <2>10. Each(Entry, ps) = [i \in 1..Len(ss) |-> Entry(ps[i])]  BY <2>5 DEF Each
    <2> HIDE DEF Entry
    <2>11. Each(Entry, ps) = [i \in 1..Len(ss) |-> ss[i]]  BY <2>4, <2>10
    <2> QED  BY <2>3, <2>9, <2>11, <1>0
  <1> QED  BY <1>1, <1>2

(* Ids. *)
LEMMA IdsDecoded ==
  ASSUME NEW A, NEW s \in Seq(A)
  PROVE  collect_strings(Bulks(s)) = s /\ IsStrings(Bulks(s))
PROOF
  <1>1. DOMAIN s = 1..Len(s) /\ s \in [1..Len(s) -> A]  OBVIOUS
  <1>2. PICK b : b = Each(Bulk, s)  OBVIOUS
  <1>3. DOMAIN b = 1..Len(s) /\ \A i \in 1..Len(s) : b[i] = Bulk(s[i])  BY <1>1, <1>2 DEF Each
  <1>4. Array(b) # Nil /\ Array(b).tag = "Array" /\ Array(b).v = b  BY Scalars DEF Array
  <1>5. ListOf(Array(b)) = b  BY <1>4 DEF ListOf
  <1>6. All(IsText, b)  BY <1>3, Scalars DEF All
  <1>7. collect_strings(Array(b)) = Each(to_string, b)  BY <1>5, <1>6 DEF collect_strings, TryEach
  <1>8. Each(to_string, b) = [i \in 1..Len(s) |-> to_string(b[i])]  BY <1>3 DEF Each
  <1>9. \A i \in 1..Len(s) : to_string(b[i]) = s[i]  BY <1>3, Scalars
  <1> QED  BY <1>1, <1>2, <1>7, <1>8, <1>9, <1>5, <1>6 DEF Bulks, IsStrings

(* A boolean, as RESP3 has it or as the numbers 0 and 1. *)
LEMMA BoolDecoded ==
  ASSUME NEW b \in BOOLEAN, NEW resp3 \in BOOLEAN
  PROVE  to_bool(AsValue("bool", b, resp3)) = b
PROOF
  <1>1. CASE resp3
    <2>1. AsValue("bool", b, resp3) = Boolean(b)  BY <1>1 DEF AsValue
    <2>2. Boolean(b).tag = "Boolean" /\ (Boolean(b).v = b)  BY DEF Boolean
    <2> QED  BY <2>1, <2>2 DEF to_bool
  <1>2. CASE ~resp3
    <2>1. AsValue("bool", b, resp3) = Integer(IF b THEN 1 ELSE 0)  BY <1>2 DEF AsValue
    <2>2. \A n : to_bool(Integer(n)) = (n # 0)
      <3> TAKE n
      <3>1. Integer(n).tag = "Int" /\ Integer(n).v = n  BY DEF Integer
      <3> QED  BY <3>1 DEF to_bool
    <2>3. b = TRUE \/ b = FALSE  OBVIOUS
    <2>4. CASE b = TRUE
      <3>1. AsValue("bool", b, resp3) = Integer(1)  BY <2>1, <2>4
      <3>2. to_bool(Integer(1)) = TRUE
        <4>1. to_bool(Integer(1)) = (1 # 0)  BY <2>2
        <4>2. (1 # 0) = TRUE  OBVIOUS
        <4> QED  BY <4>1, <4>2
      <3> QED  BY <3>1, <3>2, <2>4
    <2>5. CASE b = FALSE
      <3>1. AsValue("bool", b, resp3) = Integer(0)  BY <2>1, <2>5
      <3>2. to_bool(Integer(0)) = FALSE  BY <2>2
      <3> QED  BY <3>1, <3>2, <2>5
    <2> QED  BY <2>3, <2>4, <2>5
  <1> QED  BY <1>1, <1>2

(* Two short concatenations. *)
LEMMA ShortJoins ==
  /\ \A a, b, y : <<a, b>> \o <<y>> = <<a, b, y>>
  /\ \A x, a, b, y : <<x>> \o <<a, b, y>> = <<x, a, b, y>>
PROOF
  <1>1. \A a, b, y : <<a, b>> \o <<y>> = <<a, b, y>>
    <2> TAKE a, b, y
    <2>1. <<a, b>> \in Seq({a, b}) /\ Len(<<a, b>>) = 2 /\ <<a, b>>[1] = a /\ <<a, b>>[2] = b  OBVIOUS
    <2>2. <<y>> \in Seq({y}) /\ Len(<<y>>) = 1 /\ <<y>>[1] = y  OBVIOUS
    <2>3. PICK s, t : s = <<a, b>> /\ t = <<y>>  OBVIOUS
    <2>4. s \o t \in Seq({a, b} \cup {y}) /\ IsCat(s \o t, s, t)  BY <2>1, <2>2, <2>3, Cat
    <2>5. Len(s \o t) = 3 /\ (s \o t)[1] = a /\ (s \o t)[2] = b /\ (s \o t)[3] = y
      BY <2>1, <2>2, <2>3, <2>4 DEF IsCat
    <2>6. PICK u : u = s \o t  OBVIOUS
    <2>7. u \in Seq({a, b} \cup {y}) /\ Len(u) = 3 /\ u[1] = a /\ u[2] = b /\ u[3] = y  BY <2>4, <2>5, <2>6
    <2>8. u = <<a, b, y>>  BY <2>7
    <2> QED  BY <2>3, <2>6, <2>8
  <1>2. \A x, a, b, y : <<x>> \o <<a, b, y>> = <<x, a, b, y>>
    <2> TAKE x, a, b, y
    <2>1. <<x>> \in Seq({x}) /\ Len(<<x>>) = 1 /\ <<x>>[1] = x  OBVIOUS
    <2>2. /\ <<a, b, y>> \in Seq({a, b, y}) /\ Len(<<a, b, y>>) = 3
          /\ <<a, b, y>>[1] = a /\ <<a, b, y>>[2] = b /\ <<a, b, y>>[3] = y
      OBVIOUS
    <2>3. PICK s, t : s = <<x>> /\ t = <<a, b, y>>  OBVIOUS
    <2>4. s \o t \in Seq({x} \cup {a, b, y}) /\ IsCat(s \o t, s, t)  BY <2>1, <2>2, <2>3, Cat
    <2>5. Len(s \o t) = 4 /\ (s \o t)[1] = x /\ (s \o t)[2] = a /\ (s \o t)[3] = b /\ (s \o t)[4] = y
      BY <2>1, <2>2, <2>3, <2>4 DEF IsCat
    <2>6. PICK u : u = s \o t  OBVIOUS
    <2>7. u \in Seq({x} \cup {a, b, y}) /\ Len(u) = 4 /\ u[1] = x /\ u[2] = a /\ u[3] = b /\ u[4] = y
      BY <2>4, <2>5, <2>6
    <2>8. u = <<x, a, b, y>>  BY <2>7
    <2> QED  BY <2>3, <2>6, <2>8
  <1> QED  BY <1>1, <1>2

(* A page of XAUTOCLAIM: two items from an old server, three from a later one. *)
IsPage(c, es, is, ds, resp3) ==
  /\ parse_autoclaim(AsValue("autoclaim", <<c, es, ds>>, resp3)) = <<c, es, ds>>
  /\ parse_autoclaim_justid(AsValue("autoclaim_ids", <<c, is, ds>>, resp3)) = <<c, is, ds>>

LEMMA AutoclaimDecoded ==
  ASSUME NEW c, NEW es \in Seq(EntrySet), NEW A, NEW is \in Seq(A), NEW B, NEW ds \in Seq(B),
         old \in BOOLEAN, old => ds = <<>>, NEW resp3 \in BOOLEAN
  PROVE  IsPage(c, es, is, ds, resp3)
PROOF
  <1> DEFINE deleted == IF old THEN <<>> ELSE <<Bulks(ds)>>
  <1>1. ASSUME NEW it, NEW v, v = Array(<<Bulk(c), it>> \o deleted)
        PROVE  /\ IsArray(v, 2) \/ (IsArray(v, 3) /\ IsStrings(v.v[3]))
               /\ v.v[2] = it /\ to_string(v.v[1]) = c /\ IsText(v.v[1])
               /\ (IF Len(v.v) = 3 THEN collect_strings(v.v[3]) ELSE <<>>) = ds
    <2>1. v.tag = "Array" /\ v.v = <<Bulk(c), it>> \o deleted  BY <1>1 DEF Array
    <2>2. to_string(Bulk(c)) = c /\ IsText(Bulk(c))  BY Scalars
    <2>3. CASE old
      <3>1. v.v = <<Bulk(c), it>>  BY <2>1, <2>3
      <3>2. Len(v.v) = 2  BY <3>1
      <3> HIDE DEF deleted
      <3> QED  BY <2>1, <2>2, <3>1, <3>2, <2>3 DEF IsArray
    <2>4. CASE ~old
      <3>1. PICK x : x = Bulks(ds)  OBVIOUS
      <3>2. deleted = <<x>>  BY <2>4, <3>1
      <3>3. PICK y : y = Bulk(c)  OBVIOUS
      <3>4. v.v = <<Bulk(c), it, x>>
        <4> HIDE DEF deleted
        <4> QED  BY <2>1, <3>2, <3>3, ShortJoins
      <3>5. Len(v.v) = 3 /\ v.v[3] = x /\ v.v[2] = it /\ v.v[1] = Bulk(c)  BY <3>4
      <3>6. collect_strings(x) = ds /\ IsStrings(x)  BY <3>1, IdsDecoded
      <3> HIDE DEF deleted
      <3> QED  BY <2>1, <2>2, <3>5, <3>6 DEF IsArray
    <2> QED  BY <2>3, <2>4
  <1>2. parse_autoclaim(AsValue("autoclaim", <<c, es, ds>>, resp3)) = <<c, es, ds>>
    <2>1. PICK it : it = ClaimedValue(es, resp3)  OBVIOUS
    <2>2. PICK v : v = AsValue("autoclaim", <<c, es, ds>>, resp3)  OBVIOUS
    <2>3. v = Array(<<Bulk(c), it>> \o deleted)
      <3>1. PICK w : w = <<c, es, ds>>  OBVIOUS
      <3>2. w[1] = c /\ w[2] = es /\ w[3] = ds  BY <3>1
      <3>3. v = AsValue("autoclaim", w, resp3)  BY <3>1, <2>2
      <3> QED  BY <3>2, <3>3, <2>1 DEF AsValue
    <2> HIDE DEF deleted
    <2>4. parse_entries(it) = es /\ IsEntries(it)  BY <2>1, ClaimedDecoded
    <2>5. /\ IsArray(v, 2) \/ (IsArray(v, 3) /\ IsStrings(v.v[3]))
          /\ v.v[2] = it /\ to_string(v.v[1]) = c /\ IsText(v.v[1])
          /\ (IF Len(v.v) = 3 THEN collect_strings(v.v[3]) ELSE <<>>) = ds
      BY <2>3, <1>1
    <2>6. parse_autoclaim(v) = <<to_string(v.v[1]), parse_entries(v.v[2]),
                                 IF Len(v.v) = 3 THEN collect_strings(v.v[3]) ELSE <<>>>>
      BY <2>4, <2>5 DEF parse_autoclaim, Autoclaim
    <2>7. parse_autoclaim(v) = <<c, es, ds>>  BY <2>4, <2>5, <2>6
    <2> QED  BY <2>2, <2>7
  <1>3. parse_autoclaim_justid(AsValue("autoclaim_ids", <<c, is, ds>>, resp3)) = <<c, is, ds>>
    <2>1. PICK it : it = Bulks(is)  OBVIOUS
    <2>2. PICK v : v = AsValue("autoclaim_ids", <<c, is, ds>>, resp3)  OBVIOUS
    <2>3. v = Array(<<Bulk(c), it>> \o deleted)
      <3>1. PICK w : w = <<c, is, ds>>  OBVIOUS
      <3>2. w[1] = c /\ w[2] = is /\ w[3] = ds  BY <3>1
      <3>3. v = AsValue("autoclaim_ids", w, resp3)  BY <3>1, <2>2
      <3> QED  BY <3>2, <3>3, <2>1 DEF AsValue
    <2> HIDE DEF deleted
    <2>4. collect_strings(it) = is /\ IsStrings(it)  BY <2>1, IdsDecoded
    <2>5. /\ IsArray(v, 2) \/ (IsArray(v, 3) /\ IsStrings(v.v[3]))
          /\ v.v[2] = it /\ to_string(v.v[1]) = c /\ IsText(v.v[1])
          /\ (IF Len(v.v) = 3 THEN collect_strings(v.v[3]) ELSE <<>>) = ds
      BY <2>3, <1>1
    <2>6. parse_autoclaim_justid(v) = <<to_string(v.v[1]), collect_strings(v.v[2]),
                                        IF Len(v.v) = 3 THEN collect_strings(v.v[3]) ELSE <<>>>>
      BY <2>4, <2>5 DEF parse_autoclaim_justid, Autoclaim
    <2>7. parse_autoclaim_justid(v) = <<c, is, ds>>  BY <2>4, <2>5, <2>6
    <2> QED  BY <2>2, <2>7
  <1> QED  BY <1>2, <1>3 DEF IsPage

(* The summary of what is pending. *)
IsSummary(view, n, a, b, cs) ==
  /\ n = 0 => cs = <<>>
  /\ view = [count |-> n, min_id |-> IF n = 0 THEN None ELSE Some(a),
             max_id |-> IF n = 0 THEN None ELSE Some(b), consumers |-> cs]

LEMMA SummaryDecoded ==
  ASSUME NEW n \in Nat, NEW a, NEW b, NEW C, NEW cs \in Seq(C \X Nat), NEW resp3 \in BOOLEAN,
         NEW view, IsSummary(view, n, a, b, cs)
  PROVE  parse_xpending_summary(AsValue("summary", view, resp3)) = view
PROOF
  <1> USE DEF IsSummary
  <1>0. view.count = n /\ view.consumers = cs  OBVIOUS
  <1>1. CASE n = 0
    <2>1. view = [count |-> 0, min_id |-> None, max_id |-> None, consumers |-> <<>>]  BY <1>1
    <2>2. PICK v : v = Array(<<Integer(0)>> \o <<Nil, Nil, Nil>>)  OBVIOUS
    <2>3. AsValue("summary", view, resp3) = v  BY <1>0, <1>1, <2>2 DEF AsValue
    <2>4. v.v = <<Integer(0), Nil, Nil, Nil>> /\ v.tag = "Array" /\ v # Nil
      <3>1. PICK x, y : x = Integer(0) /\ y = Nil  OBVIOUS
      <3>2. v = Array(<<x, y, y, y>>)  BY <2>2, <3>1, ShortJoins
      <3>3. v.v = <<x, y, y, y>> /\ v.tag = "Array"  BY <3>2 DEF Array
      <3>4. v # Nil  BY <3>2, Scalars
      <3> QED  BY <3>1, <3>3, <3>4
    <2>5. IsArray(v, 4) /\ v.v[1] = Integer(0) /\ v.v[2] = Nil /\ v.v[3] = Nil /\ v.v[4].tag # "Array"
      BY <2>4 DEF IsArray, Nil
    <2>6. parse_xpending_summary(v) = [count |-> 0, min_id |-> None, max_id |-> None, consumers |-> <<>>]
      <3>1. to_i64(v.v[1]) = 0 /\ to_opt_bytes(v.v[2]) = None /\ to_opt_bytes(v.v[3]) = None  BY <2>5, Scalars
      <3>2. IsI64(v.v[1])  BY <2>5, Scalars
      <3>3. Consumers(v.v[4]) = <<>>  BY <2>5 DEF Consumers
      <3>4. All(LAMBDA p : IsBytes(p[1]) /\ IsI64(p[2]), <<>>)  BY DEF All
      <3>5. Each(LAMBDA p : <<to_bytes(p[1]), to_i64(p[2])>>, <<>>) = <<>>  BY DEF Each
      <3> QED  BY <2>4, <2>5, <3>1, <3>2, <3>3, <3>4, <3>5 DEF parse_xpending_summary
    <2> QED  BY <2>1, <2>3, <2>6
  <1>2. CASE n # 0
    <2> DEFINE ps == [i \in 1..Len(cs) |-> <<Bulk(cs[i][1]), Bulk(cs[i][2])>>]
               V == {Bulk(cs[i][1]) : i \in 1..Len(cs)}
               W == {Bulk(cs[i][2]) : i \in 1..Len(cs)}
               Owner(p) == <<to_bytes(p[1]), to_i64(p[2])>>
    <2>1. Len(cs) \in Nat /\ DOMAIN cs = 1..Len(cs) /\ cs \in [1..Len(cs) -> C \X Nat]
          /\ \A i \in 1..Len(cs) : cs[i] = <<cs[i][1], cs[i][2]>>
      <3>1. \A i \in 1..Len(cs) : cs[i] \in C \X Nat  OBVIOUS
      <3> QED  BY <3>1
    <2>2. ps \in Seq(V \X W)
      <3>1. \A i \in 1..Len(cs) : Bulk(cs[i][1]) \in V /\ Bulk(cs[i][2]) \in W  OBVIOUS
      <3> HIDE DEF V, W
      <3>2. ps \in [1..Len(cs) -> V \X W]  BY <3>1
      <3> HIDE DEF ps
      <3> QED  BY <3>2, <2>1, FcnSeq
    <2>3. \A x, y : Each(Bulk, <<x, y>>) = <<Bulk(x), Bulk(y)>>  BY DEF Each
    <2>4. PICK w : w = Array(Each(LAMBDA c : Bulks(c), cs))  OBVIOUS
    <2>5. w = Pairs(ps, FALSE)
      <3>1. Each(LAMBDA c : Bulks(c), cs) = [i \in 1..Len(cs) |-> Bulks(cs[i])]  BY <2>1 DEF Each
      <3>2. ASSUME NEW i \in 1..Len(cs) PROVE Bulks(cs[i]) = Array(ps[i])
        <4>1. PICK x, y : cs[i] = <<x, y>> /\ cs[i][1] = x /\ cs[i][2] = y  BY <2>1
        <4>2. ps[i] = <<Bulk(x), Bulk(y)>>  BY <4>1
        <4> HIDE DEF ps
        <4> QED  BY <4>1, <4>2, <2>3 DEF Bulks
      <3>3. Each(Array, ps) = [i \in 1..Len(cs) |-> Array(ps[i])]
        <4>1. DOMAIN ps = 1..Len(cs)  OBVIOUS
        <4> HIDE DEF ps
        <4> QED  BY <4>1 DEF Each
      <3> HIDE DEF ps
      <3>4. [i \in 1..Len(cs) |-> Bulks(cs[i])] = [i \in 1..Len(cs) |-> Array(ps[i])]  BY <3>2
      <3> QED  BY <3>1, <3>3, <3>4, <2>4 DEF Pairs
    <2>6. PairsOf(w) = ps /\ w.tag = "Array"
      <3> HIDE DEF ps, V, W
      <3>1. \A r \in BOOLEAN : PairsOf(Pairs(ps, r)) = ps  BY <2>2, PairsDecoded
      <3>2. PairsOf(w) = ps  BY <3>1, <2>5
      <3>3. w.tag = "Array"  BY <2>4 DEF Array
      <3> QED  BY <3>2, <3>3
    <2>7. Each(Owner, ps) = cs
      <3>1. DOMAIN ps = 1..Len(cs) /\ \A i \in 1..Len(cs) : ps[i] = <<Bulk(cs[i][1]), Bulk(cs[i][2])>>  OBVIOUS
      <3> HIDE DEF ps
      <3>2. \A i \in 1..Len(cs) : Owner(ps[i]) = cs[i]  BY <3>1, <2>1, Scalars
      <3>3. Each(Owner, ps) = [i \in 1..Len(cs) |-> Owner(ps[i])]  BY <3>1 DEF Each
      <3> HIDE DEF Owner
      <3> QED  BY <3>2, <3>3, <2>1
    <2>8. All(LAMBDA p : IsBytes(p[1]) /\ IsI64(p[2]), ps)
      <3>1. DOMAIN ps = 1..Len(cs) /\ \A i \in 1..Len(cs) : ps[i] = <<Bulk(cs[i][1]), Bulk(cs[i][2])>>  OBVIOUS
      <3> HIDE DEF ps
      <3> QED  BY <3>1, Scalars DEF All
    <2>9. PICK v : v = AsValue("summary", view, resp3)  OBVIOUS
    <2>10. v = Array(<<Integer(n)>> \o <<Bulk(a), Bulk(b), w>>)
      <3>1. view.min_id = <<a>> /\ view.max_id = <<b>>  BY <1>2 DEF Some
      <3>2. view.min_id[1] = a /\ view.max_id[1] = b  BY <3>1
      <3> QED  BY <1>0, <1>2, <2>4, <2>9, <3>2 DEF AsValue
    <2>11. v.v = <<Integer(n), Bulk(a), Bulk(b), w>> /\ v.tag = "Array" /\ v # Nil
      <3>1. PICK x, y, z : x = Integer(n) /\ y = Bulk(a) /\ z = Bulk(b)  OBVIOUS
      <3>2. v = Array(<<x, y, z, w>>)  BY <2>10, <3>1, ShortJoins
      <3>3. v.v = <<x, y, z, w>> /\ v.tag = "Array"  BY <3>2 DEF Array
      <3>4. v # Nil  BY <3>2, Scalars
      <3> QED  BY <3>1, <3>3, <3>4
    <2>12. IsArray(v, 4) /\ v.v[1] = Integer(n) /\ v.v[2] = Bulk(a) /\ v.v[3] = Bulk(b) /\ v.v[4] = w
      BY <2>11 DEF IsArray
    <2>13. to_i64(v.v[1]) = n /\ to_opt_bytes(v.v[2]) = Some(a) /\ to_opt_bytes(v.v[3]) = Some(b)  BY <2>12, Scalars
    <2>14. parse_xpending_summary(v) = [count |-> n, min_id |-> Some(a), max_id |-> Some(b), consumers |-> cs]
      <3> HIDE DEF ps
      <3>1. parse_xpending_summary(v) =
              [count |-> to_i64(v.v[1]), min_id |-> to_opt_bytes(v.v[2]), max_id |-> to_opt_bytes(v.v[3]),
               consumers |-> Each(Owner, PairsOf(w))]
        <4>1. Consumers(v.v[4]) = ps  BY <2>6, <2>12 DEF Consumers
        <4>2. All(LAMBDA p : IsBytes(p[1]) /\ IsI64(p[2]), ps)  BY <2>8
        <4>3. IsI64(v.v[1]) /\ IsBytes(v.v[2]) /\ IsBytes(v.v[3])  BY <2>12, Scalars
        <4> QED  BY <2>6, <2>11, <2>12, <4>1, <4>2, <4>3 DEF parse_xpending_summary
      <3> HIDE DEF Owner
      <3> QED  BY <3>1, <2>6, <2>7, <2>13
    <2> QED  BY <1>2, <2>9, <2>14
  <1> QED  BY <1>1, <1>2

(* The pending entries of a range. *)
LEMMA RangeDecoded ==
  ASSUME NEW A, NEW C, NEW es \in Seq([id : A, consumer : C, idle_ms : Nat, delivery_count : Nat]),
         NEW resp3 \in BOOLEAN
  PROVE  parse_xpending_range(AsValue("range", es, resp3)) = es
PROOF
  <1> DEFINE Item4(e) == Array(<<Bulk(e.id), Bulk(e.consumer), Integer(e.idle_ms), Integer(e.delivery_count)>>)
             Read(e) == [id |-> to_bytes(e.v[1]), consumer |-> to_bytes(e.v[2]),
                         idle_ms |-> to_i64(e.v[3]), delivery_count |-> to_i64(e.v[4])]
             Readable(e) == IsBytes(e.v[1]) /\ IsBytes(e.v[2]) /\ IsI64(e.v[3]) /\ IsI64(e.v[4])
             as == [i \in 1..Len(es) |-> Item4(es[i])]
  <1>1. Len(es) \in Nat /\ DOMAIN es = 1..Len(es)
        /\ \A i \in 1..Len(es) : es[i] \in [id : A, consumer : C, idle_ms : Nat, delivery_count : Nat]
    <2>1. PICK T : T = [id : A, consumer : C, idle_ms : Nat, delivery_count : Nat]  OBVIOUS
    <2>2. es \in Seq(T)  BY <2>1
    <2>3. Len(es) \in Nat /\ DOMAIN es = 1..Len(es) /\ \A i \in 1..Len(es) : es[i] \in T  BY <2>2
    <2> QED  BY <2>1, <2>3
  <1>2. AsValue("range", es, resp3) = Array(as)
    <2>1. AsValue("range", es, resp3) = Array(Each(Item4, es))  BY DEF AsValue
    <2>2. Each(Item4, es) = as  BY <1>1 DEF Each
    <2> HIDE DEF as, Item4
    <2> QED  BY <2>1, <2>2
  <1>3. ASSUME NEW i \in 1..Len(es) PROVE IsArray(as[i], 4) /\ Read(as[i]) = es[i] /\ Readable(as[i])
    <2>1. PICK w : w = <<Bulk(es[i].id), Bulk(es[i].consumer), Integer(es[i].idle_ms), Integer(es[i].delivery_count)>>
      OBVIOUS
    <2>2. as[i] = Array(w)  BY <2>1
    <2>3. as[i].tag = "Array" /\ as[i].v = w  BY <2>2 DEF Array
    <2> HIDE DEF as
    <2>4. Len(w) = 4 /\ w[1] = Bulk(es[i].id) /\ w[2] = Bulk(es[i].consumer) /\ w[3] = Integer(es[i].idle_ms)
          /\ w[4] = Integer(es[i].delivery_count)
      BY <2>1
    <2>5. IsArray(as[i], 4)  BY <2>3, <2>4 DEF IsArray
    <2>6. to_bytes(w[1]) = es[i].id /\ to_bytes(w[2]) = es[i].consumer /\ to_i64(w[3]) = es[i].idle_ms
          /\ to_i64(w[4]) = es[i].delivery_count
      BY <2>4, Scalars
    <2>7. Read(as[i]) = [id |-> es[i].id, consumer |-> es[i].consumer, idle_ms |-> es[i].idle_ms,
                         delivery_count |-> es[i].delivery_count]
      BY <2>3, <2>6
    <2>8. es[i] = [id |-> es[i].id, consumer |-> es[i].consumer, idle_ms |-> es[i].idle_ms,
                   delivery_count |-> es[i].delivery_count]
      BY <1>1
    <2>9. Readable(as[i])  BY <2>3, <2>4, Scalars
    <2> HIDE DEF Read, Readable
    <2> QED  BY <2>5, <2>7, <2>8, <2>9
  <1>4. as \in Seq({Item4(es[i]) : i \in 1..Len(es)}) /\ Len(as) = Len(es)
    <2> HIDE DEF Item4
    <2>1. as \in [1..Len(es) -> {Item4(es[i]) : i \in 1..Len(es)}]  OBVIOUS
    <2> HIDE DEF as
    <2>2. PICK T : T = {Item4(es[i]) : i \in 1..Len(es)}  OBVIOUS
    <2>3. as \in [1..Len(es) -> T]  BY <2>1, <2>2
    <2>4. as \in Seq(T) /\ Len(as) = Len(es)  BY <2>3, <1>1, FcnSeq
    <2> QED  BY <2>2, <2>4
  <1>5. DOMAIN as = 1..Len(es)  OBVIOUS
  <1> HIDE DEF as, Item4
  <1>6. Kept(as, LAMBDA e : IsArray(e, 4)) = as  BY <1>3, <1>4, KeptArrays
  <1>7. Array(as) # Nil /\ Array(as).tag = "Array" /\ Array(as).v = as  BY Scalars DEF Array
  <1>8. All(Readable, as)
    <2> HIDE DEF Readable
    <2> QED  BY <1>3, <1>5 DEF All
  <1>9. parse_xpending_range(Array(as)) = Each(Read, as)
    BY <1>6, <1>7, <1>8 DEF parse_xpending_range, TryEach
  <1>10. Each(Read, as) = [i \in 1..Len(es) |-> Read(as[i])]  BY <1>5 DEF Each
  <1> HIDE DEF Read
  <1>11. Each(Read, as) = [i \in 1..Len(es) |-> es[i]]  BY <1>3, <1>10
  <1>12. es = [i \in 1..Len(es) |-> es[i]]
    <2>1. PICK T : T = [id : A, consumer : C, idle_ms : Nat, delivery_count : Nat]  OBVIOUS
    <2>2. es \in Seq(T)  BY <2>1
    <2> QED  BY <2>2
  <1> QED  BY <1>2, <1>9, <1>11, <1>12

(* Fields and values, and lists of them. *)
LEMMA InfoDecoded ==
  ASSUME NEW K, NEW W, NEW ps \in Seq(K \X W), NEW resp3 \in BOOLEAN
  PROVE  /\ parse_field_value_map(InfoValue(ps, resp3)) = ps
         /\ IsStructured(InfoValue(ps, resp3))
PROOF
  <1> DEFINE kv == [i \in 1..Len(ps) |-> <<Bulk(ps[i][1]), ps[i][2]>>]
             V == {Bulk(ps[i][1]) : i \in 1..Len(ps)}
             Read(p) == <<to_bytes(p[1]), p[2]>>
  <1>1. Len(ps) \in Nat /\ DOMAIN ps = 1..Len(ps) /\ ps \in [1..Len(ps) -> K \X W]
        /\ \A i \in 1..Len(ps) : ps[i] = <<ps[i][1], ps[i][2]>> /\ ps[i][2] \in W
    <2>1. \A i \in 1..Len(ps) : ps[i] \in K \X W  OBVIOUS
    <2> QED  BY <2>1
  <1>2. InfoValue(ps, resp3) = IF resp3 THEN Map(kv) ELSE Array(Flattened(kv))
    <2>1. Each(LAMBDA p : <<Bulk(p[1]), p[2]>>, ps) = kv  BY <1>1 DEF Each
    <2> HIDE DEF kv
    <2> QED  BY <2>1 DEF InfoValue
  <1>3. kv \in Seq(V \X W)
    <2>1. \A i \in 1..Len(ps) : Bulk(ps[i][1]) \in V  OBVIOUS
    <2> HIDE DEF V
    <2>2. kv \in [1..Len(ps) -> V \X W]  BY <2>1, <1>1
    <2> HIDE DEF kv
    <2> QED  BY <2>2, <1>1, FcnSeq
  <1>4. DOMAIN kv = 1..Len(ps) /\ \A i \in 1..Len(ps) : kv[i] = <<Bulk(ps[i][1]), ps[i][2]>>  OBVIOUS
  <1> HIDE DEF kv, V
  <1>5. Each(Read, kv) = ps
    <2>1. \A i \in 1..Len(ps) : Read(kv[i]) = ps[i]  BY <1>4, <1>1, Scalars
    <2>2. Each(Read, kv) = [i \in 1..Len(ps) |-> Read(kv[i])]  BY <1>4 DEF Each
    <2> HIDE DEF Read
    <2> QED  BY <2>1, <2>2, <1>1
  <1>6. All(LAMBDA p : IsBytes(p[1]), kv)  BY <1>4, Scalars DEF All
  <1>7. parse_field_value_map(Map(kv)) = Each(Read, kv) /\ IsStructured(Map(kv))
    <2>1. Map(kv) # Nil /\ Map(kv).tag = "Map" /\ Map(kv).v = kv  BY Scalars DEF Map
    <2>2. Structured(Map(kv)) = kv  BY <2>1 DEF Structured
    <2>3. IsStructured(Map(kv))  BY <1>6, <2>1, <2>2 DEF IsStructured
    <2> QED  BY <2>2, <2>3 DEF parse_field_value_map
  <1>8. parse_field_value_map(Array(Flattened(kv))) = Each(Read, kv) /\ IsStructured(Array(Flattened(kv)))
    <2>1. PICK f : f = Flattened(kv)  OBVIOUS
    <2>2. Alternating(f) = kv  BY <1>3, <2>1, FlattenedPairs
    <2>3. Array(f) # Nil /\ Array(f).tag = "Array" /\ Array(f).v = f  BY Scalars DEF Array
    <2>4. Structured(Array(f)) = kv  BY <2>2, <2>3 DEF Structured
    <2>5. IsStructured(Array(f))  BY <1>6, <2>3, <2>4 DEF IsStructured
    <2>6. parse_field_value_map(Array(f)) = Each(Read, kv)  BY <2>4, <2>5 DEF parse_field_value_map
    <2> QED  BY <2>1, <2>5, <2>6
  <1> HIDE DEF Read
  <1> QED  BY <1>2, <1>5, <1>7, <1>8

LEMMA InfosDecoded ==
  ASSUME NEW K, NEW W, NEW D, NEW is \in [D -> Seq(K \X W)], NEW resp3 \in BOOLEAN
  PROVE  parse_list_of_maps(AsValue("infos", is, resp3)) = is
PROOF
  <1> DEFINE as == [i \in D |-> InfoValue(is[i], resp3)]
  <1>1. AsValue("infos", is, resp3) = Array(as)
    <2>1. Each(LAMBDA i : InfoValue(i, resp3), is) = as  BY DEF Each
    <2> HIDE DEF as
    <2> QED  BY <2>1 DEF AsValue
  <1>2. DOMAIN as = D /\ \A i \in D : as[i] = InfoValue(is[i], resp3)  OBVIOUS
  <1> HIDE DEF as
  <1>3. \A i \in D : parse_field_value_map(as[i]) = is[i] /\ IsStructured(as[i])
    <2> TAKE i \in D
    <2>1. is[i] \in Seq(K \X W)  OBVIOUS
    <2> QED  BY <2>1, <1>2, InfoDecoded
  <1>4. Array(as) # Nil /\ Array(as).tag = "Array" /\ Array(as).v = as  BY Scalars DEF Array
  <1>5. All(IsStructured, as)  BY <1>2, <1>3 DEF All
  <1>6. parse_list_of_maps(Array(as)) = Each(parse_field_value_map, as)
    BY <1>4, <1>5 DEF parse_list_of_maps, TryEach
  <1>7. Each(parse_field_value_map, as) = [i \in D |-> parse_field_value_map(as[i])]  BY <1>2 DEF Each
  <1> QED  BY <1>1, <1>3, <1>6, <1>7

-----------------------------------------------------------------------------
(***************************************************************************)
(* What a call needs from an answer of the server: the method decodes it   *)
(* as what was answered, and the entries it shows are entries.             *)
(***************************************************************************)
Decodes(method, kind, view) ==
  \A resp3 \in BOOLEAN : Decode(method, AsValue(kind, view, resp3)) = view
Answers(method, res) ==
  res.kind # "error" => Decodes(method, res.kind, res.view) /\ IdsIn(method, res.view) \subseteq Id

LEMMA NoIds ==
  ASSUME NEW method, method \notin {"xreadgroup", "xclaim", "xautoclaim"}, NEW view
  PROVE  IdsIn(method, view) = {}
PROOF
  <1>1. DOMAIN <<>> = {}  OBVIOUS
  <1> QED  BY <1>1 DEF IdsIn

LEMMA EntryIds ==
  ASSUME NEW es \in Seq(EntrySet)
  PROVE  {es[i][1] : i \in {j \in DOMAIN es : es[j][2] # <<>>}} \subseteq Id
PROOF
  <1>1. DOMAIN es = 1..Len(es) /\ \A i \in 1..Len(es) : es[i] \in EntrySet  OBVIOUS
  <1>2. \A e \in EntrySet : e[1] \in Id  BY DEF EntrySet
  <1> QED  BY <1>1, <1>2

LEMMA AnswersError ==
  ASSUME NEW method PROVE Answers(method, Error)
PROOF  BY DEF Answers, Error, Reply

LEMMA AnswersOpt ==
  ASSUME NEW method \in {"xadd", "xadd_options"}, NEW d, NEW x
  PROVE  Answers(method, Reply(d, "opt", None)) /\ Answers(method, Reply(d, "opt", Some(x)))
PROOF
  <1>1. \A resp3 \in BOOLEAN : AsValue("opt", None, resp3) = Nil /\ AsValue("opt", Some(x), resp3) = Bulk(x)
    <2>1. Some(x) # None /\ Some(x)[1] = x  BY DEF Some, None
    <2> QED  BY <2>1 DEF AsValue
  <1>2. to_opt_string(Nil) = None /\ to_opt_string(Bulk(x)) = Some(x)  BY Scalars
  <1>3. \A v : Decode(method, v) = to_opt_string(v)  BY DEF Decode
  <1>4. Decodes(method, "opt", None) /\ Decodes(method, "opt", Some(x))  BY <1>1, <1>2, <1>3 DEF Decodes
  <1>5. \A v : IdsIn(method, v) = {}  BY NoIds
  <1> QED  BY <1>4, <1>5 DEF Answers, Reply

LEMMA AnswersInt ==
  ASSUME NEW method \in {"xlen", "xdel", "xtrim_maxlen", "xtrim_minid", "xack", "xgroup_del_consumer"}, NEW d, NEW n
  PROVE  Answers(method, Reply(d, "int", n))
PROOF
  <1>1. \A resp3 \in BOOLEAN : AsValue("int", n, resp3) = Integer(n)  BY DEF AsValue
  <1>2. to_i64(Integer(n)) = n  BY Scalars
  <1>3. \A v : Decode(method, v) = to_i64(v)  BY DEF Decode
  <1>4. Decodes(method, "int", n)  BY <1>1, <1>2, <1>3 DEF Decodes
  <1>5. IdsIn(method, n) = {}  BY NoIds
  <1> QED  BY <1>4, <1>5 DEF Answers, Reply

LEMMA AnswersBool ==
  ASSUME NEW method \in {"xgroup_destroy", "xgroup_create_consumer"}, NEW d, NEW b \in BOOLEAN
  PROVE  Answers(method, Reply(d, "bool", b))
PROOF
  <1>1. \A resp3 \in BOOLEAN : to_bool(AsValue("bool", b, resp3)) = b  BY BoolDecoded
  <1>2. \A v : Decode(method, v) = to_bool(v)  BY DEF Decode
  <1>3. Decodes(method, "bool", b)  BY <1>1, <1>2 DEF Decodes
  <1>4. IdsIn(method, b) = {}  BY NoIds
  <1> QED  BY <1>3, <1>4 DEF Answers, Reply

LEMMA AnswersUnit ==
  ASSUME NEW method \in {"xgroup_create", "xgroup_create_options", "xgroup_set_id", "xsetid"}, NEW d
  PROVE  Answers(method, Reply(d, "unit", None))
PROOF
  <1>1. \A v : Decode(method, v) = None  BY DEF Decode, to_unit
  <1>2. Decodes(method, "unit", None)  BY <1>1 DEF Decodes
  <1>3. IdsIn(method, None) = {}  BY NoIds
  <1> QED  BY <1>2, <1>3 DEF Answers, Reply

LEMMA AnswersEntries ==
  ASSUME NEW method \in {"xrange", "xrevrange", "xclaim"}, NEW d, NEW es \in Seq(EntrySet)
  PROVE  Answers(method, Reply(d, "entries", es)) /\ Answers(method, Reply(d, "claimed", es))
PROOF
  <1>1. \A v : Decode(method, v) = parse_entries(v)  BY DEF Decode
  <1>2. Decodes(method, "entries", es)
    <2>1. \A resp3 \in BOOLEAN : AsValue("entries", es, resp3) = EntriesValue(es, resp3)  BY DEF AsValue
    <2> QED  BY <1>1, <2>1, EntriesDecoded DEF Decodes
  <1>3. Decodes(method, "claimed", es)
    <2>1. \A resp3 \in BOOLEAN : AsValue("claimed", es, resp3) = ClaimedValue(es, resp3)  BY DEF AsValue
    <2> QED  BY <1>1, <2>1, ClaimedDecoded DEF Decodes
  <1>4. IdsIn(method, es) \subseteq Id
    <2>1. CASE method = "xclaim"
      <3>1. IdsIn(method, es) = {es[i][1] : i \in {j \in DOMAIN es : es[j][2] # <<>>}}  BY <2>1 DEF IdsIn
      <3> QED  BY <3>1, EntryIds
    <2>2. CASE method # "xclaim"
      <3>1. IdsIn(method, es) = {}  BY <2>2, NoIds
      <3> QED  BY <3>1
    <2> QED  BY <2>1, <2>2
  <1> QED  BY <1>2, <1>3, <1>4 DEF Answers, Reply

LEMMA AnswersIds ==
  ASSUME NEW d, NEW A, NEW s \in Seq(A)
  PROVE  Answers("xclaim_justid", Reply(d, "ids", s))
PROOF
  <1>1. \A v : Decode("xclaim_justid", v) = collect_strings(v)  BY DEF Decode
  <1>2. \A resp3 \in BOOLEAN : AsValue("ids", s, resp3) = Bulks(s)  BY DEF AsValue
  <1>3. Decodes("xclaim_justid", "ids", s)  BY <1>1, <1>2, IdsDecoded DEF Decodes
  <1>4. IdsIn("xclaim_justid", s) = {}  BY NoIds
  <1> QED  BY <1>3, <1>4 DEF Answers, Reply

LEMMA AnswersStreams ==
  ASSUME NEW method \in {"xread", "xreadgroup"}, NEW d, NEW K, NEW ss \in Seq(K \X Seq(EntrySet))
  PROVE  Answers(method, Reply(d, "streams", ss))
PROOF
  <1>1. \A v : Decode(method, v) = parse_stream_read(v)  BY DEF Decode
  <1>2. Decodes(method, "streams", ss)  BY <1>1, StreamsDecoded DEF Decodes
  <1>3. IdsIn(method, ss) \subseteq Id
    <2>1. CASE method = "xreadgroup" /\ ss # <<>>
      <3>1. Len(ss) \in Nat /\ Len(ss) # 0 /\ \A i \in 1..Len(ss) : ss[i] \in K \X Seq(EntrySet)  BY <2>1
      <3>2. ss[1] \in K \X Seq(EntrySet)  BY <3>1
      <3>3. PICK es \in Seq(EntrySet) : ss[1][2] = es  BY <3>2
      <3>4. IdsIn(method, ss) = {es[i][1] : i \in {j \in DOMAIN es : es[j][2] # <<>>}}  BY <2>1, <3>3 DEF IdsIn
      <3> QED  BY <3>4, EntryIds
    <2>2. CASE method = "xreadgroup" /\ ss = <<>>
      <3>1. DOMAIN <<>> = {}  OBVIOUS
      <3>2. IdsIn(method, ss) = {}  BY <2>2, <3>1 DEF IdsIn
      <3> QED  BY <3>2
    <2>3. CASE method # "xreadgroup"
      <3>1. IdsIn(method, ss) = {}  BY <2>3, NoIds
      <3> QED  BY <3>1
    <2> QED  BY <2>1, <2>2, <2>3
  <1> QED  BY <1>2, <1>3 DEF Answers, Reply

LEMMA AnswersAutoClaim ==
  ASSUME NEW d, NEW c, NEW es \in Seq(EntrySet), NEW A, NEW is \in Seq(A), NEW B, NEW ds \in Seq(B),
         old \in BOOLEAN, old => ds = <<>>
  PROVE  /\ Answers("xautoclaim", Reply(d, "autoclaim", <<c, es, ds>>))
         /\ Answers("xautoclaim_justid", Reply(d, "autoclaim_ids", <<c, is, ds>>))
PROOF
  <1>1. \A v : Decode("xautoclaim", v) = parse_autoclaim(v)  BY DEF Decode
  <1>2. \A v : Decode("xautoclaim_justid", v) = parse_autoclaim_justid(v)  BY DEF Decode
  <1>3. Decodes("xautoclaim", "autoclaim", <<c, es, ds>>)
    <2> SUFFICES ASSUME NEW resp3 \in BOOLEAN
                 PROVE  parse_autoclaim(AsValue("autoclaim", <<c, es, ds>>, resp3)) = <<c, es, ds>>
      BY <1>1 DEF Decodes
    <2>1. IsPage(c, es, is, ds, resp3)  BY AutoclaimDecoded
    <2> QED  BY <2>1 DEF IsPage
  <1>4. Decodes("xautoclaim_justid", "autoclaim_ids", <<c, is, ds>>)
    <2> SUFFICES ASSUME NEW resp3 \in BOOLEAN
                 PROVE  parse_autoclaim_justid(AsValue("autoclaim_ids", <<c, is, ds>>, resp3)) = <<c, is, ds>>
      BY <1>2 DEF Decodes
    <2>1. IsPage(c, es, is, ds, resp3)  BY AutoclaimDecoded
    <2> QED  BY <2>1 DEF IsPage
  <1>5. IdsIn("xautoclaim", <<c, es, ds>>) \subseteq Id
    <2>1. PICK w : w = <<c, es, ds>>  OBVIOUS
    <2>2. w[2] = es  BY <2>1
    <2>3. IdsIn("xautoclaim", w) = {es[i][1] : i \in {j \in DOMAIN es : es[j][2] # <<>>}}  BY <2>2 DEF IdsIn
    <2> QED  BY <2>1, <2>3, EntryIds
  <1>6. IdsIn("xautoclaim_justid", <<c, is, ds>>) = {}  BY NoIds
  <1>7. PICK u, w : u = <<c, es, ds>> /\ w = <<c, is, ds>>  OBVIOUS
  <1>8. Answers("xautoclaim", Reply(d, "autoclaim", u))  BY <1>3, <1>5, <1>7 DEF Answers, Reply
  <1>9. Answers("xautoclaim_justid", Reply(d, "autoclaim_ids", w))  BY <1>4, <1>6, <1>7 DEF Answers, Reply
  <1> QED  BY <1>7, <1>8, <1>9

LEMMA AnswersInfo ==
  ASSUME NEW method \in {"xinfo_stream", "xinfo_stream_full"}, NEW d, NEW K, NEW W, NEW ps \in Seq(K \X W)
  PROVE  Answers(method, Reply(d, "info", ps))
PROOF
  <1>1. \A v : Decode(method, v) = parse_field_value_map(v)  BY DEF Decode
  <1>2. \A resp3 \in BOOLEAN : AsValue("info", ps, resp3) = InfoValue(ps, resp3)  BY DEF AsValue
  <1>3. Decodes(method, "info", ps)  BY <1>1, <1>2, InfoDecoded DEF Decodes
  <1>4. IdsIn(method, ps) = {}  BY NoIds
  <1> QED  BY <1>3, <1>4 DEF Answers, Reply

LEMMA AnswersInfos ==
  ASSUME NEW method \in {"xinfo_groups", "xinfo_consumers"}, NEW d, NEW K, NEW W, NEW D,
         NEW is \in [D -> Seq(K \X W)]
  PROVE  Answers(method, Reply(d, "infos", is))
PROOF
  <1>1. \A v : Decode(method, v) = parse_list_of_maps(v)  BY DEF Decode
  <1>2. Decodes(method, "infos", is)  BY <1>1, InfosDecoded DEF Decodes
  <1>3. IdsIn(method, is) = {}  BY NoIds
  <1> QED  BY <1>2, <1>3 DEF Answers, Reply

LEMMA AnswersSummary ==
  ASSUME NEW d, NEW n \in Nat, NEW a, NEW b, NEW C, NEW cs \in Seq(C \X Nat),
         NEW view, IsSummary(view, n, a, b, cs)
  PROVE  Answers("xpending", Reply(d, "summary", view))
PROOF
  <1>1. \A v : Decode("xpending", v) = parse_xpending_summary(v)  BY DEF Decode
  <1>2. Decodes("xpending", "summary", view)
    <2> SUFFICES ASSUME NEW resp3 \in BOOLEAN
                 PROVE  parse_xpending_summary(AsValue("summary", view, resp3)) = view
      BY <1>1 DEF Decodes
    <2> QED  BY SummaryDecoded
  <1>3. IdsIn("xpending", view) = {}  BY NoIds
  <1> QED  BY <1>2, <1>3 DEF Answers, Reply

LEMMA AnswersRange ==
  ASSUME NEW d, NEW A, NEW C, NEW es \in Seq([id : A, consumer : C, idle_ms : Nat, delivery_count : Nat])
  PROVE  Answers("xpending_range", Reply(d, "range", es))
PROOF
  <1>1. \A v : Decode("xpending_range", v) = parse_xpending_range(v)  BY DEF Decode
  <1>2. Decodes("xpending_range", "range", es)  BY <1>1, RangeDecoded DEF Decodes
  <1>3. IdsIn("xpending_range", es) = {}  BY NoIds
  <1> QED  BY <1>2, <1>3 DEF Answers, Reply
-----------------------------------------------------------------------------
(* The states of the server. *)
PendingSet == [owner : Consumer, idle : 0..1, n : 0..MaxDeliveries]
PelSet == UNION {[D -> PendingSet] : D \in SUBSET Id}
GroupSet == [exists : BOOLEAN, last : 0..MaxId, pel : PelSet, consumers : SUBSET Consumer]
DbSet == [next : 1..(MaxId + 1), entries : [{k1, k2} -> SUBSET Id], exists : BOOLEAN, group : GroupSet]

LEMMA IdSets ==
  ASSUME NEW S \in SUBSET Id
  PROVE  IsFiniteSet(S) /\ S \in SUBSET Int /\ Cardinality(S) \in Nat
PROOF
  <1>1. MaxId \in Nat  BY StreamsAssumption
  <1>2. IsFiniteSet(Id)  BY <1>1, FS_Interval DEF Id
  <1>3. IsFiniteSet(S)  BY <1>2, FS_Subset
  <1> QED  BY <1>1, <1>3, FS_CardinalityType DEF Id

LEMMA PelParts ==
  ASSUME NEW p \in PelSet
  PROVE  /\ DOMAIN p \subseteq Id /\ p \in [DOMAIN p -> PendingSet]
         /\ \A i \in DOMAIN p : p[i] \in PendingSet
         /\ \A i \in DOMAIN p : p[i].owner \in Consumer /\ p[i].idle \in 0..1 /\ p[i].n \in 0..MaxDeliveries
PROOF
  <1>1. PICK D \in SUBSET Id : p \in [D -> PendingSet]  BY DEF PelSet
  <1>2. DOMAIN p = D /\ \A i \in D : p[i] \in PendingSet  BY <1>1
  <1>3. \A x \in PendingSet : x.owner \in Consumer /\ x.idle \in 0..1 /\ x.n \in 0..MaxDeliveries  BY DEF PendingSet
  <1> QED  BY <1>1, <1>2, <1>3

LEMMA PelIn ==
  ASSUME NEW D \in SUBSET Id, NEW p \in [D -> PendingSet]
  PROVE  p \in PelSet
PROOF  BY DEF PelSet

LEMMA DbParts ==
  ASSUME NEW d \in DbSet
  PROVE  /\ d.next \in 1..(MaxId + 1) /\ d.entries \in [{k1, k2} -> SUBSET Id] /\ d.entries[k1] \in SUBSET Id
         /\ d.exists \in BOOLEAN /\ d.group \in GroupSet
         /\ d.group.exists \in BOOLEAN /\ d.group.last \in 0..MaxId /\ d.group.pel \in PelSet
         /\ d.group.consumers \in SUBSET Consumer
PROOF
  <1>1. d.next \in 1..(MaxId + 1) /\ d.entries \in [{k1, k2} -> SUBSET Id] /\ d.group \in GroupSet  BY DEF DbSet
  <1>2. d.exists \in BOOLEAN  BY DEF DbSet
  <1>3. d.group.last \in 0..MaxId /\ d.group.pel \in PelSet /\ d.group.consumers \in SUBSET Consumer
    BY <1>1 DEF GroupSet
  <1>4. d.group.exists \in BOOLEAN  BY <1>1 DEF GroupSet
  <1> QED  BY <1>1, <1>2, <1>3, <1>4

(* The entries the server shows. *)
LEMMA FieldsTyped ==
  ASSUME NEW i \in Id PROVE Fields(i) \in Seq({"f", "h"} \X Nat)
PROOF
  <1>1. i \in Nat  BY StreamsAssumption DEF Id
  <1>2. <<"f", i>> \in {"f", "h"} \X Nat /\ <<"h", i>> \in {"f", "h"} \X Nat  BY <1>1
  <1>3. PICK x, y \in {"f", "h"} \X Nat : x = <<"f", i>> /\ y = <<"h", i>>  BY <1>2
  <1>4. <<x>> \in Seq({"f", "h"} \X Nat) /\ <<x, y>> \in Seq({"f", "h"} \X Nat)  OBVIOUS
  <1>5. Fields(i) = <<x>> \/ Fields(i) = <<x, y>>  BY <1>3 DEF Fields
  <1> QED  BY <1>4, <1>5

LEMMA EntriesTyped ==
  ASSUME NEW s \in Seq(Id)
  PROVE  /\ Entries(s) \in Seq(EntrySet)
         /\ [i \in DOMAIN s |-> <<s[i], Fields(s[i])>>] \in Seq(EntrySet)
PROOF
  <1>1. Len(s) \in Nat /\ DOMAIN s = 1..Len(s) /\ \A i \in 1..Len(s) : s[i] \in Id  OBVIOUS
  <1>2. \A x \in Id : <<x, Fields(x)>> \in EntrySet /\ <<x, <<>>>> \in EntrySet
    <2>1. <<>> \in Seq({"f", "h"} \X Nat)  OBVIOUS
    <2> QED  BY <2>1, FieldsTyped DEF EntrySet
  <1>3. PICK e : e = Entries(s)  OBVIOUS
  <1>4. e \in [1..Len(s) -> EntrySet]
    <2>1. \A i \in 1..Len(s) : <<s[i], IF s[i] \in db.entries[k1] THEN Fields(s[i]) ELSE <<>>>> \in EntrySet
      BY <1>1, <1>2
    <2> QED  BY <1>1, <1>3, <2>1 DEF Entries
  <1>5. PICK f : f = [i \in DOMAIN s |-> <<s[i], Fields(s[i])>>]  OBVIOUS
  <1>6. f \in [1..Len(s) -> EntrySet]
    <2>1. \A i \in 1..Len(s) : <<s[i], Fields(s[i])>> \in EntrySet  BY <1>1, <1>2
    <2> QED  BY <1>1, <1>5, <2>1
  <1>7. e \in Seq(EntrySet) /\ f \in Seq(EntrySet)  BY <1>1, <1>4, <1>6, FcnSeq
  <1> QED  BY <1>3, <1>5, <1>7

(* Ids in order, and as many as asked for. *)
LEMMA SortedIds ==
  ASSUME NEW S \in SUBSET Id
  PROVE  Sorted(S) \in Seq(Id) /\ \A o \in Option(Nat) : Take(Sorted(S), o) \in Seq(Id)
PROOF
  <1>1. IsFiniteSet(S) /\ S \in SUBSET Int  BY IdSets
  <1>2. Sorted(S) \in Seq(S)  BY <1>1, SortedList
  <1>3. \A o \in Option(Nat) : Take(Sorted(S), o) \in Seq(S)  BY <1>2, TakePrefix
  <1>4. \A s \in Seq(S) : s \in Seq(Id)  OBVIOUS
  <1> QED  BY <1>2, <1>3, <1>4

-----------------------------------------------------------------------------
(* The calls that only read: the server stays as it is and the answer decodes. *)
Reads(method, m) == Executed(m).db = db /\ Answers(method, Executed(m))

LEMMA ReadsLen ==
  ASSUME NEW m, m.cmd = "XLEN" PROVE Reads("xlen", m)
PROOF
  <1>1. Executed(m) = Reply(db, "int", Cardinality(db.entries[m.key]))  BY DEF Executed
  <1> QED  BY <1>1, AnswersInt DEF Reads, Reply

LEMMA ReadsRange ==
  ASSUME db \in DbSet, NEW m, NEW method,
         (m.cmd = "XRANGE" /\ method = "xrange") \/ (m.cmd = "XREVRANGE" /\ method = "xrevrange")
  PROVE  Reads(method, m)
PROOF
  <1>1. PICK s : s = Sorted({i \in db.entries[k1] : m.start <= i /\ i <= m.end})  OBVIOUS
  <1>2. s \in Seq(Id)
    <2>1. {i \in db.entries[k1] : m.start <= i /\ i <= m.end} \in SUBSET Id  BY DbParts
    <2> QED  BY <1>1, <2>1, SortedIds
  <1>3. Reverse(s) \in Seq(Id)
    <2>1. PICK n \in Nat : n = Len(s) /\ \A i \in 1..n : s[i] \in Id  BY <1>2
    <2>2. \A i \in 1..n : (n - i) + 1 \in 1..n  BY <2>1
    <2>3. PICK t : t = Reverse(s)  OBVIOUS
    <2>4. t = [i \in 1..n |-> s[(n - i) + 1]]  BY <2>1, <2>3 DEF Reverse
    <2>5. t \in [1..n -> Id]  BY <2>1, <2>2, <2>4
    <2> QED  BY <2>3, <2>5, FcnSeq
  <1>4. PICK t \in Seq(Id) : t = IF m.cmd = "XRANGE" THEN s ELSE Reverse(s)  BY <1>2, <1>3
  <1>5. Executed(m) = Reply(db, "entries", Entries(t))  BY <1>1, <1>4 DEF Executed
  <1>6. PICK es \in Seq(EntrySet) : es = Entries(t)  BY EntriesTyped
  <1>7. Answers(method, Reply(db, "entries", es))  BY AnswersEntries
  <1> QED  BY <1>5, <1>6, <1>7 DEF Reads, Reply

LEMMA ReadsRead ==
  ASSUME db \in DbSet, NEW m, m.cmd = "XREAD", m.keys \in Seq({k1, k2}), m.count \in Option(Nat)
  PROVE  Reads("xread", m)
PROOF
  <1> DEFINE ids(j) == Take(Sorted({i \in db.entries[m.keys[j]] : i > m.ids[j]}), m.count)
             shown(j) == <<m.keys[j], [i \in DOMAIN ids(j) |-> <<ids(j)[i], Fields(ids(j)[i])>>]>>
             T == {k1, k2} \X Seq(EntrySet)
  <1>1. PICK J : J = DOMAIN m.keys /\ J \in SUBSET Int /\ IsFiniteSet(J) /\ \A j \in J : m.keys[j] \in {k1, k2}
    <2>1. PICK n \in Nat : n = Len(m.keys)  OBVIOUS
    <2>2. DOMAIN m.keys = 1..n /\ \A j \in 1..n : m.keys[j] \in {k1, k2}  BY <2>1
    <2>3. IsFiniteSet(1..n) /\ 1..n \in SUBSET Int  BY <2>1, FS_Interval
    <2> QED  BY <2>2, <2>3
  <1>2. \A j \in J : shown(j) \in T
    <2> TAKE j \in J
    <2>1. PICK S : S = {i \in db.entries[m.keys[j]] : i > m.ids[j]}  OBVIOUS
    <2>2. m.keys[j] \in {k1, k2} /\ db.entries \in [{k1, k2} -> SUBSET Id]  BY <1>1, DbParts
    <2>3. S \in SUBSET Id  BY <2>1, <2>2
    <2>4. PICK t \in Seq(Id) : t = ids(j)  BY <2>1, <2>3, SortedIds
    <2>5. PICK e \in Seq(EntrySet) : e = [i \in DOMAIN t |-> <<t[i], Fields(t[i])>>]  BY EntriesTyped
    <2>6. shown(j) = <<m.keys[j], e>>  BY <2>4, <2>5
    <2> HIDE DEF shown
    <2> QED  BY <2>2, <2>6
  <1>3. PICK K : K = {j \in DOMAIN m.keys : ids(j) # <<>>}  OBVIOUS
  <1>4. K \subseteq J  BY <1>1, <1>3
  <1>5. PICK s : s = Sorted(K)  OBVIOUS
  <1>6. s \in Seq(K)
    <2>1. IsFiniteSet(K) /\ K \in SUBSET Int  BY <1>1, <1>4, FS_Subset
    <2> QED  BY <1>5, <2>1, SortedList
  <1>7. Executed(m) = Reply(db, "streams", Each(shown, s))  BY <1>3, <1>5 DEF Executed
  <1> HIDE DEF shown, T
  <1>8. PICK ss : ss = Each(shown, s)  OBVIOUS
  <1>9. ss \in Seq(T)
    <2>1. PICK n \in Nat : n = Len(s) /\ DOMAIN s = 1..n /\ \A i \in 1..n : s[i] \in K  BY <1>6
    <2>2. ss = [i \in 1..n |-> shown(s[i])]  BY <1>8, <2>1 DEF Each
    <2>3. ss \in [1..n -> T]  BY <2>1, <2>2, <1>2, <1>4
    <2> QED  BY <2>3, FcnSeq
  <1>10. Answers("xread", Reply(db, "streams", ss))  BY <1>9, AnswersStreams DEF T
  <1> QED  BY <1>7, <1>8, <1>10 DEF Reads, Reply

(* A finite set as a sequence. *)
LEMMA SetSeq ==
  ASSUME NEW S, IsFiniteSet(S)
  PROVE  SetToSeq(S) \in Seq(S) /\ (S = {} => SetToSeq(S) = <<>>)
PROOF
  <1>1. Cardinality(S) \in Nat /\ ExistsBijection(1..Cardinality(S), S)  BY FS_CardinalityType
  <1>2. PICK n \in Nat : n = Cardinality(S)  BY <1>1
  <1>3. \E f \in [1..n -> S] : IsInjective(f)  BY <1>1, <1>2 DEF ExistsBijection, Bijection, Injection
  <1>4. PICK s : s = SetToSeq(S)  OBVIOUS
  <1>5. s \in [1..n -> S]  BY <1>2, <1>3, <1>4 DEF SetToSeq
  <1>6. s \in Seq(S)  BY <1>5, FcnSeq
  <1>7. S = {} => s = <<>>
    <2> HAVE S = {}
    <2>1. n = 0  BY <1>2, FS_EmptySet
    <2>2. Len(s) = 0  BY <1>5, <2>1, FcnSeq
    <2> QED  BY <1>6, <2>2
  <1> QED  BY <1>4, <1>6, <1>7

LEMMA ReadsPending ==
  ASSUME db \in DbSet, NEW m, m.cmd = "XPENDING", "start" \notin DOMAIN m
  PROVE  Reads("xpending", m)
PROOF
  <1> DEFINE D == DOMAIN Pel
             owned(c) == Cardinality({i \in DOMAIN Pel : Pel[i].owner = c})
             O == {Pel[i].owner : i \in DOMAIN Pel}
  <1>1. Executed(m) = Reply(db, "summary", PendingSummary)  BY DEF Executed
  <1>2. D \in SUBSET Id  BY DbParts, PelParts DEF Pel
  <1>3. IsFiniteSet(D) /\ D \in SUBSET Int /\ Cardinality(D) \in Nat  BY <1>2, IdSets
  <1>4. PICK ids : ids = Sorted(DOMAIN Pel)  OBVIOUS
  <1>5. ids \in Seq(D) /\ Len(ids) = Cardinality(D)  BY <1>3, <1>4, SortedList
  <1>6. PICK n \in Nat : n = Len(ids)  BY <1>3, <1>5
  <1>7. ids = <<>> <=> n = 0  BY <1>5, <1>6
  <1>8. IsFiniteSet(O)
    <2>1. PICK f : f = [i \in D |-> Pel[i].owner]  OBVIOUS
    <2>2. f \in Surjection(D, O)  BY <2>1 DEF Surjection
    <2> QED  BY <2>2, <1>3, FS_Surjection
  <1>9. PICK owners : owners = SetToSeq(O)  OBVIOUS
  <1>10. owners \in Seq(O) /\ (O = {} => owners = <<>>)
    <2> HIDE DEF O
    <2> QED  BY <1>8, <1>9, SetSeq
  <1>11. PICK cs : cs = [i \in DOMAIN owners |-> <<owners[i], owned(owners[i])>>]  OBVIOUS
  <1>12. cs \in Seq(O \X Nat) /\ (n = 0 => cs = <<>>)
    <2>1. \A c : owned(c) \in Nat
      <3> TAKE c
      <3>1. {i \in DOMAIN Pel : Pel[i].owner = c} \in SUBSET Id  BY <1>2
      <3> QED  BY <3>1, IdSets
    <2> HIDE DEF owned
    <2>2. n = 0 => O = {}
      <3> HAVE n = 0
      <3>1. D = {}  BY <1>3, <1>5, <1>6, FS_EmptySet
      <3> QED  BY <3>1
    <2> HIDE DEF O
    <2>3. PICK l \in Nat : l = Len(owners) /\ DOMAIN owners = 1..l /\ \A i \in 1..l : owners[i] \in O  BY <1>10
    <2>4. cs \in [1..l -> O \X Nat]  BY <2>1, <2>3, <1>11
    <2>5. cs \in Seq(O \X Nat) /\ Len(cs) = l  BY <2>4, FcnSeq
    <2>6. n = 0 => l = 0  BY <2>2, <2>3, <1>10
    <2>7. l = 0 => cs = <<>>  BY <2>5
    <2> QED  BY <2>5, <2>6, <2>7
  <1>13. IsSummary(PendingSummary, n, ids[1], ids[Len(ids)], cs)
    <2> HIDE DEF O
    <2>1. PendingSummary = [count |-> Len(ids), min_id |-> IF ids = <<>> THEN None ELSE Some(ids[1]),
                            max_id |-> IF ids = <<>> THEN None ELSE Some(ids[Len(ids)]), consumers |-> cs]
      BY <1>4, <1>9, <1>11 DEF PendingSummary, O
    <2> QED  BY <2>1, <1>6, <1>7, <1>12 DEF IsSummary
  <1> HIDE DEF O
  <1>14. PICK a, b : a = ids[1] /\ b = ids[Len(ids)]  OBVIOUS
  <1>15. PICK v : v = PendingSummary  OBVIOUS
  <1>16. IsSummary(v, n, a, b, cs)  BY <1>13, <1>14, <1>15
  <1>17. Answers("xpending", Reply(db, "summary", v))  BY <1>12, <1>16, AnswersSummary
  <1> QED  BY <1>1, <1>15, <1>17 DEF Reads, Reply

LEMMA ReadsPendingRange ==
  ASSUME db \in DbSet, NEW m, m.cmd = "XPENDING", "start" \in DOMAIN m, m.count \in Nat
  PROVE  Reads("xpending_range", m)
PROOF
  <1> DEFINE S == {i \in DOMAIN Pel :
                     /\ m.start <= i /\ i <= m.end
                     /\ m.idle # None => Pel[i].idle >= m.idle[1]
                     /\ m.consumer # None => Pel[i].owner = m.consumer[1]}
             R == [id : Id, consumer : Consumer, idle_ms : Nat, delivery_count : Nat]
  <1>1. Executed(m) = Reply(db, "range", PendingRange(m))  BY DEF Executed
  <1>2. PICK t : t = Take(Sorted(S), Some(m.count))  OBVIOUS
  <1>3. PICK v : v = PendingRange(m)  OBVIOUS
  <1>4. v = [j \in DOMAIN t |-> [id |-> t[j], consumer |-> Pel[t[j]].owner,
                                 idle_ms |-> Pel[t[j]].idle, delivery_count |-> Pel[t[j]].n]]
    BY <1>2, <1>3 DEF PendingRange
  <1>5. DOMAIN Pel \subseteq Id /\ \A i \in DOMAIN Pel : /\ Pel[i].owner \in Consumer /\ Pel[i].idle \in 0..1
                                                        /\ Pel[i].n \in 0..MaxDeliveries
    BY DbParts, PelParts DEF Pel
  <1>6. S \in SUBSET DOMAIN Pel  OBVIOUS
  <1> HIDE DEF S
  <1>7. t \in Seq(S)
    <2>1. Some(m.count) \in Option(Nat)
      <3>1. <<m.count>> \in Seq(Nat) /\ Len(<<m.count>>) = 1  OBVIOUS
      <3> QED  BY <3>1 DEF Some, Option
    <2>2. IsFiniteSet(S) /\ S \in SUBSET Int  BY <1>5, <1>6, IdSets
    <2> QED  BY <1>2, <2>1, <2>2, TakeSorted
  <1>8. v \in Seq(R)
    <2>1. PICK l \in Nat : l = Len(t) /\ DOMAIN t = 1..l /\ \A i \in 1..l : t[i] \in S  BY <1>7
    <2>2. \A i \in DOMAIN Pel : Pel[i].idle \in Nat /\ Pel[i].n \in Nat
      BY <1>5, StreamsAssumption
    <2>3. \A i \in 1..l : t[i] \in DOMAIN Pel  BY <2>1, <1>6
    <2>4. \A j \in 1..l : [id |-> t[j], consumer |-> Pel[t[j]].owner,
                           idle_ms |-> Pel[t[j]].idle, delivery_count |-> Pel[t[j]].n] \in R
      BY <2>2, <2>3, <1>5
    <2> HIDE DEF R
    <2>5. v \in [1..l -> R]  BY <2>1, <2>4, <1>4
    <2> QED  BY <2>5, FcnSeq
  <1>9. Answers("xpending_range", Reply(db, "range", v))  BY <1>8, AnswersRange
  <1> QED  BY <1>1, <1>3, <1>9 DEF Reads, Reply

LEMMA ReadsInfoStream ==
  ASSUME NEW m, m.cmd = "XINFO_STREAM", NEW method \in {"xinfo_stream", "xinfo_stream_full"}
  PROVE  Reads(method, m)
PROOF
  <1>1. CASE ~db.exists
    <2>1. Executed(m) = Error  BY <1>1 DEF Executed
    <2> QED  BY <2>1, AnswersError DEF Reads, Error, Reply
  <1>2. CASE db.exists
    <2>1. PICK a, b : a = Integer(Cardinality(db.entries[k1])) /\ b = Integer(IF db.group.exists THEN 1 ELSE 0)  OBVIOUS
    <2>2. PICK ps : ps = <<<<"length", a>>, <<"groups", b>>>>  OBVIOUS
    <2>3. Executed(m) = Reply(db, "info", ps)  BY <1>2, <2>1, <2>2 DEF Executed
    <2>4. ps \in Seq({"length", "groups"} \X {a, b})
      <3>1. PICK x, y \in {"length", "groups"} \X {a, b} : x = <<"length", a>> /\ y = <<"groups", b>>  OBVIOUS
      <3>2. ps = <<x, y>>  BY <2>2, <3>1
      <3> QED  BY <3>2
    <2>5. Answers(method, Reply(db, "info", ps))  BY <2>4, AnswersInfo
    <2> QED  BY <2>3, <2>5 DEF Reads, Reply
  <1> QED  BY <1>1, <1>2

LEMMA ReadsInfoGroups ==
  ASSUME NEW m, m.cmd = "XINFO_GROUPS"
  PROVE  Reads("xinfo_groups", m)
PROOF
  <1>1. CASE ~db.exists
    <2>1. Executed(m) = Error  BY <1>1 DEF Executed
    <2> QED  BY <2>1, AnswersError DEF Reads, Error, Reply
  <1>2. CASE db.exists
    <2>1. PICK a, b : a = Bulk(g) /\ b = Integer(Cardinality(DOMAIN Pel))  OBVIOUS
    <2>2. PICK ps : ps = GroupInfo  OBVIOUS
    <2>3. ps \in Seq({"name", "pending"} \X {a, b})
      <3>1. PICK x, y \in {"name", "pending"} \X {a, b} : x = <<"name", a>> /\ y = <<"pending", b>>  OBVIOUS
      <3>2. ps = <<x, y>>  BY <2>1, <2>2, <3>1 DEF GroupInfo
      <3> QED  BY <3>2
    <2>4. PICK is : is = IF db.group.exists THEN <<ps>> ELSE <<>>  OBVIOUS
    <2>5. Executed(m) = Reply(db, "infos", is)  BY <1>2, <2>2, <2>4 DEF Executed
    <2>6. PICK T : T = {"name", "pending"} \X {a, b}  OBVIOUS
    <2>7. is \in [DOMAIN is -> Seq(T)]
      <3>1. ps \in Seq(T)  BY <2>3, <2>6
      <3>2. <<ps>> \in [1..1 -> Seq(T)] /\ <<>> \in [{} -> Seq(T)]  BY <3>1
      <3> QED  BY <3>1, <3>2, <2>4
    <2>8. Answers("xinfo_groups", Reply(db, "infos", is))  BY <2>6, <2>7, AnswersInfos
    <2> QED  BY <2>5, <2>8 DEF Reads, Reply
  <1> QED  BY <1>1, <1>2

LEMMA ReadsInfoConsumers ==
  ASSUME NEW m, m.cmd = "XINFO_CONSUMERS"
  PROVE  Reads("xinfo_consumers", m)
PROOF
  <1>1. PICK s : s = SetToSeq(db.group.consumers)  OBVIOUS
  <1>2. PICK is : is = Each(ConsumerInfo, s)  OBVIOUS
  <1>3. Executed(m) = Reply(db, "infos", is)  BY <1>1, <1>2 DEF Executed
  <1> DEFINE W == {Bulk(s[i]) : i \in DOMAIN s}
                  \cup {Integer(Cardinality({j \in DOMAIN Pel : Pel[j].owner = s[i]})) : i \in DOMAIN s}
  <1>4. PICK T : T = {"name", "pending"} \X W  OBVIOUS
  <1>5. \A i \in DOMAIN s : ConsumerInfo(s[i]) \in Seq(T)
    <2> TAKE i \in DOMAIN s
    <2>1. PICK a, b : a = Bulk(s[i]) /\ b = Integer(Cardinality({j \in DOMAIN Pel : Pel[j].owner = s[i]}))  OBVIOUS
    <2>2. a \in W /\ b \in W  BY <2>1
    <2> HIDE DEF W
    <2>3. PICK x, y \in T : x = <<"name", a>> /\ y = <<"pending", b>>  BY <2>2, <1>4
    <2>4. ConsumerInfo(s[i]) = <<x, y>>  BY <2>1, <2>3 DEF ConsumerInfo
    <2> QED  BY <2>4
  <1> HIDE DEF W
  <1>6. is \in [DOMAIN s -> Seq(T)]
    <2>1. is = [i \in DOMAIN s |-> ConsumerInfo(s[i])]  BY <1>2 DEF Each
    <2> QED  BY <2>1, <1>5
  <1>7. Answers("xinfo_consumers", Reply(db, "infos", is))  BY <1>4, <1>6, AnswersInfos
  <1> QED  BY <1>3, <1>7 DEF Reads, Reply

-----------------------------------------------------------------------------
(***************************************************************************)
(* The inductive invariant.  An entry the group is past is pending or      *)
(* settled (NothingLost).  Ids can be lowered again by XSETID, so the ids  *)
(* not given out yet that the group is already past must be settled too.   *)
(* A target of a sweep is claimed, or idle and not before the cursor.      *)
(***************************************************************************)
Accounted(d, s) ==
  /\ d \in DbSet
  /\ d.entries[k1] \subseteq 1..(d.next - 1)
  /\ d.next..d.group.last \subseteq s
  /\ d.group.exists => \A i \in d.entries[k1] : i <= d.group.last => i \in DOMAIN d.group.pel \cup s

SweptFor(c, s, pel) ==
  /\ s.phase = "on" => \A i \in s.targets :
       i \in DOMAIN pel /\ (pel[i].owner = c \/ (pel[i].idle >= 1 /\ i >= s.cursor))
  /\ s.phase = "done" => \A i \in s.targets \cap DOMAIN pel : pel[i].owner = c

Swept(sw, pel) == \A c \in Consumer : SweptFor(c, sw[c], pel)

SweepSet == [phase : {"off", "on", "done"}, cursor : 0..MaxId, targets : SUBSET Id]

IInv ==
  /\ old \in BOOLEAN /\ settled \subseteq Id /\ sweep \in [Consumer -> SweepSet]
  /\ Accounted(db, settled)
  /\ Swept(sweep, Pel)

(* What a call gives up, and what it must leave behind. *)
Risk(r, res) == IF res.kind # "error" THEN RiskedBy(r, res.db) ELSE {}

Effect(r, res) ==
  /\ Answers(r.method, res)
  /\ res.db.next <= MaxId + 1 => /\ Risk(r, res) \subseteq Id
                                 /\ Accounted(res.db, settled \cup Risk(r, res))
Risky == {"xreadgroup", "xgroup_del_consumer", "xgroup_create", "xgroup_create_options", "xgroup_set_id", "xsetid"}

LEMMA AccountedMore ==
  ASSUME NEW d, NEW s, Accounted(d, s), NEW t, s \subseteq t
  PROVE  Accounted(d, t)
PROOF  BY DEF Accounted

LEMMA NoRisk ==
  ASSUME NEW r, r.method \notin Risky, NEW res
  PROVE  Risk(r, res) = {}
PROOF
  <1>1. RiskedBy(r, res.db) = {}  BY DEF RiskedBy, Risky
  <1> QED  BY <1>1 DEF Risk

LEMMA EffectError ==
  ASSUME Accounted(db, settled), NEW r
  PROVE  Effect(r, Error)
PROOF
  <1>1. Error.kind = "error" /\ Error.db = db  BY DEF Error, Reply
  <1>2. Risk(r, Error) = {}  BY <1>1 DEF Risk
  <1>3. Accounted(db, settled \cup {})  BY AccountedMore
  <1> QED  BY <1>1, <1>2, <1>3, AnswersError DEF Effect

LEMMA EffectReads ==
  ASSUME Accounted(db, settled), NEW r, NEW m, Reads(r.method, m), r.method \notin Risky
  PROVE  Effect(r, Executed(m))
PROOF
  <1>1. Risk(r, Executed(m)) = {}  BY NoRisk
  <1>2. Accounted(db, settled \cup {})  BY AccountedMore
  <1> QED  BY <1>1, <1>2 DEF Effect, Reads

(* A call without risk has the effect when it leaves the server accounted for. *)
LEMMA EffectSafe ==
  ASSUME NEW r, r.method \notin Risky, NEW res, Answers(r.method, res),
         res.db.next <= MaxId + 1 => Accounted(res.db, settled)
  PROVE  Effect(r, res)
PROOF
  <1>1. Risk(r, res) = {}  BY NoRisk
  <1>2. res.db.next <= MaxId + 1 => Accounted(res.db, settled \cup {})  BY AccountedMore
  <1> QED  BY <1>1, <1>2 DEF Effect

LEMMA TrimmedPart ==
  ASSUME NEW S, NEW t, t.exact \in BOOLEAN, t.strategy \in {"MAXLEN", "MINID"}
  PROVE  Trimmed(S, t) \subseteq S
PROOF
  <1>1. CASE ~t.exact  BY <1>1 DEF Trimmed
  <1>2. CASE t.exact /\ t.strategy = "MINID"  BY <1>2 DEF Trimmed
  <1>3. CASE t.exact /\ t.strategy = "MAXLEN"  BY <1>3 DEF Trimmed
  <1> QED  BY <1>1, <1>2, <1>3

LEMMA EffectAdd ==
  ASSUME Accounted(db, settled), NEW r, r.method \in {"xadd", "xadd_options"},
         NEW m, m.cmd = "XADD", m.make_stream \in BOOLEAN,
         m.trim = None \/ (m.trim[1].exact \in BOOLEAN /\ m.trim[1].strategy \in {"MAXLEN", "MINID"})
  PROVE  Effect(r, Executed(m))
PROOF
  <1>1. Executed(m) = Add(m)  BY DEF Executed
  <1>2. CASE Add(m) = Error  BY <1>1, <1>2, EffectError
  <1>3. CASE Add(m) = Reply(db, "opt", None)
    <2>1. PICK method \in {"xadd", "xadd_options"} : method = r.method  OBVIOUS
    <2>2. Answers(method, Reply(db, "opt", None)) /\ Answers(method, Reply(db, "opt", Some(0)))  BY AnswersOpt
    <2>3. Reads(r.method, m)  BY <1>1, <1>3, <2>1, <2>2 DEF Reads, Reply
    <2> QED  BY <2>3, EffectReads DEF Risky
  <1> DEFINE S == db.entries[k1] \cup {db.next}
             T == IF m.trim = None THEN S ELSE Trimmed(S, m.trim[1])
             d == [db EXCEPT !.next = @ + 1, !.entries[k1] = T, !.exists = TRUE]
  <1>4. CASE Add(m) = Reply(d, "opt", Some(db.next))
    <2>1. T \subseteq db.entries[k1] \cup {db.next}  BY TrimmedPart
    <2> HIDE DEF T
    <2>2. db \in DbSet  BY DEF Accounted
    <2>3. d.next = db.next + 1 /\ d.entries[k1] = T /\ d.group = db.group  BY <2>2 DEF DbSet
    <2>4. ASSUME d.next <= MaxId + 1 PROVE Accounted(d, settled)
      <3>1. MaxId \in Nat  BY StreamsAssumption
      <3>2. /\ db.next \in 1..(MaxId + 1) /\ db.entries \in [{k1, k2} -> SUBSET Id] /\ db.entries[k1] \in SUBSET Id
            /\ db.group \in GroupSet /\ db.group.last \in 0..MaxId
        BY <2>2, DbParts
      <3>3. db.next \in 1..MaxId /\ db.next + 1 \in 1..(MaxId + 1)  BY <3>1, <3>2, <2>3, <2>4
      <3>4. T \in SUBSET Id  BY <2>1, <3>2, <3>3 DEF Id
      <3>5. d \in DbSet  BY <2>2, <3>3, <3>4 DEF DbSet
      <3> HIDE DEF d
      <3>6. d.entries[k1] \subseteq 1..(d.next - 1)  BY <2>1, <2>3, <3>1, <3>2 DEF Accounted
      <3>7. d.next..d.group.last \subseteq settled  BY <2>3, <3>2 DEF Accounted
      <3>8. ASSUME d.group.exists, NEW i \in T, i <= d.group.last PROVE i \in DOMAIN d.group.pel \cup settled
        <4>1. CASE i \in db.entries[k1]  BY <4>1, <3>8, <2>3 DEF Accounted
        <4>2. CASE i = db.next
          <5>1. db.next \in db.next..db.group.last  BY <4>2, <3>8, <2>3, <3>2
          <5> QED  BY <5>1, <4>2 DEF Accounted
        <4> QED  BY <4>1, <4>2, <2>1
      <3> QED  BY <3>5, <3>6, <3>7, <3>8, <2>3 DEF Accounted
    <2>5. PICK e : e = d  OBVIOUS
    <2>6. Answers(r.method, Reply(e, "opt", Some(db.next)))  BY AnswersOpt
    <2>7. PICK res : res = Reply(e, "opt", Some(db.next))  OBVIOUS
    <2>8. res.db = e  BY <2>7 DEF Reply
    <2> HIDE DEF d
    <2>9. Effect(r, res)  BY <2>4, <2>5, <2>6, <2>7, <2>8, EffectSafe DEF Risky
    <2> QED  BY <2>5, <2>7, <2>9, <1>1, <1>4
  <1>5. Add(m) = Error \/ Add(m) = Reply(db, "opt", None) \/ Add(m) = Reply(d, "opt", Some(db.next))
    BY DEF Add
  <1> QED  BY <1>2, <1>3, <1>4, <1>5

LEMMA EffectDeleted ==
  ASSUME Accounted(db, settled), NEW r, r.method \in {"xdel", "xtrim_maxlen", "xtrim_minid"},
         NEW S
  PROVE  Effect(r, Deleted(S))
PROOF
  <1> DEFINE T == db.entries[k1] \ S
             d == [db EXCEPT !.entries[k1] = @ \ S]
  <1>1. db \in DbSet  BY DEF Accounted
  <1>2. db.entries \in [{k1, k2} -> SUBSET Id]  BY <1>1, DbParts
  <1>3. T \in SUBSET Id /\ T \subseteq db.entries[k1]  BY <1>2
  <1>4. d = [db EXCEPT !.entries[k1] = T]  BY <1>1, <1>2 DEF DbSet
  <1> HIDE DEF T
  <1>5. d.next = db.next /\ d.entries[k1] = T /\ d.group = db.group  BY <1>1, <1>4 DEF DbSet
  <1>6. d \in DbSet  BY <1>1, <1>3, <1>4 DEF DbSet
  <1> HIDE DEF d
  <1>7. Accounted(d, settled)  BY <1>3, <1>5, <1>6 DEF Accounted
  <1>8. PICK e, n : e = d /\ n = Cardinality(S \cap db.entries[k1])  OBVIOUS
  <1>9. PICK res : res = Reply(e, "int", n)  OBVIOUS
  <1>10. Answers(r.method, res)  BY <1>9, AnswersInt
  <1>11. res.db = e  BY <1>9 DEF Reply
  <1>12. Effect(r, res)  BY <1>7, <1>8, <1>10, <1>11, EffectSafe DEF Risky
  <1> QED  BY <1>8, <1>9, <1>12 DEF Deleted, d

(* A server with another group. *)
LEMMA WithGroup ==
  ASSUME db \in DbSet, NEW gr \in GroupSet, NEW d, d = [db EXCEPT !.group = gr]
  PROVE  d \in DbSet /\ d.next = db.next /\ d.entries = db.entries /\ d.group = gr
PROOF  BY DEF DbSet

LEMMA GroupParts ==
  ASSUME NEW gr \in GroupSet, NEW e \in BOOLEAN, NEW l \in 0..MaxId, NEW p \in PelSet, NEW C \in SUBSET Consumer
  PROVE  /\ [gr EXCEPT !.last = l] \in GroupSet /\ [gr EXCEPT !.last = l].last = l
         /\ [gr EXCEPT !.last = l].pel = gr.pel /\ [gr EXCEPT !.last = l].exists = gr.exists
         /\ [gr EXCEPT !.consumers = C] \in GroupSet /\ [gr EXCEPT !.consumers = C].last = gr.last
         /\ [gr EXCEPT !.consumers = C].pel = gr.pel /\ [gr EXCEPT !.consumers = C].exists = gr.exists
         /\ [gr EXCEPT !.pel = p] \in GroupSet /\ [gr EXCEPT !.pel = p].last = gr.last
         /\ [gr EXCEPT !.pel = p].pel = p /\ [gr EXCEPT !.pel = p].exists = gr.exists
PROOF  BY DEF GroupSet

LEMMA NoGroupTyped ==
  NoGroup \in GroupSet /\ NoGroup.last = 0 /\ NoGroup.exists = FALSE
PROOF
  <1>1. <<>> \in PelSet
    <2>1. <<>> \in [{} -> PendingSet] /\ {} \in SUBSET Id  OBVIOUS
    <2> QED  BY <2>1, PelIn
  <1>2. 0 \in 0..MaxId  BY StreamsAssumption
  <1>3. NoGroup \in GroupSet  BY <1>1, <1>2 DEF NoGroup, GroupSet
  <1>4. NoGroup.last = 0  BY DEF NoGroup
  <1>5. NoGroup.exists = FALSE  BY DEF NoGroup
  <1> QED  BY <1>3, <1>4, <1>5

(* Without entries or pending ones lost, another pending list or consumers change nothing. *)
LEMMA AccountedPel ==
  ASSUME NEW s, Accounted(db, s), NEW d \in DbSet, d.next = db.next, d.entries[k1] = db.entries[k1],
         d.group.last = db.group.last, d.group.exists = db.group.exists,
         \A i \in DOMAIN Pel : i \in DOMAIN d.group.pel \/ i \in s \/ i \notin db.entries[k1]
  PROVE  Accounted(d, s)
PROOF
  <1>1. d.entries[k1] \subseteq 1..(d.next - 1) /\ d.next..d.group.last \subseteq s  BY DEF Accounted
  <1>2. ASSUME d.group.exists, NEW i \in d.entries[k1], i <= d.group.last
        PROVE  i \in DOMAIN d.group.pel \cup s
    <2>1. i \in DOMAIN db.group.pel \cup s  BY <1>2 DEF Accounted
    <2> QED  BY <2>1, <1>2 DEF Pel
  <1> QED  BY <1>1, <1>2 DEF Accounted

LEMMA RiskSet ==
  ASSUME NEW r, r.method \in {"xgroup_create", "xgroup_create_options", "xgroup_set_id"}, NEW res,
         res.kind # "error"
  PROVE  Risk(r, res) = 1..r.id
PROOF
  <1>1. RiskedBy(r, res.db) = 1..r.id  BY DEF RiskedBy
  <1> QED  BY <1>1 DEF Risk

LEMMA AccountedUpTo ==
  ASSUME Accounted(db, settled), NEW id \in 0..MaxId, NEW d \in DbSet, d.next = db.next,
         d.entries[k1] = db.entries[k1], d.group.last = id
  PROVE  1..id \subseteq Id /\ Accounted(d, settled \cup 1..id)
PROOF
  <1>1. MaxId \in Nat  BY StreamsAssumption
  <1>2. db.next \in 1..(MaxId + 1) /\ db.entries[k1] \subseteq Id  BY DbParts DEF Accounted
  <1>3. 1..id \subseteq Id  BY <1>1 DEF Id
  <1>4. d.next..d.group.last \subseteq 1..id  BY <1>1, <1>2
  <1>5. \A i \in d.entries[k1] : i <= d.group.last => i \in 1..id  BY <1>1, <1>2 DEF Id
  <1>6. d.entries[k1] \subseteq 1..(d.next - 1)  BY DEF Accounted
  <1> QED  BY <1>3, <1>4, <1>5, <1>6 DEF Accounted

LEMMA EffectCreate ==
  ASSUME Accounted(db, settled), NEW r, r.method \in {"xgroup_create", "xgroup_create_options"},
         r.id \in 0..MaxId, NEW m, m.cmd = "XGROUP_CREATE", m.id = r.id
  PROVE  Effect(r, Executed(m))
PROOF
  <1> DEFINE gr == [NoGroup EXCEPT !.exists = TRUE, !.last = m.id]
             d == [db EXCEPT !.exists = TRUE, !.group = gr]
  <1>1. Executed(m) = Error \/ Executed(m) = Reply(d, "unit", None)  BY DEF Executed
  <1>2. CASE Executed(m) = Error  BY <1>2, EffectError
  <1>3. CASE Executed(m) = Reply(d, "unit", None)
    <2>1. PICK n \in GroupSet : n = NoGroup  BY NoGroupTyped
    <2>2. gr = [n EXCEPT !.exists = TRUE, !.last = m.id]  BY <2>1
    <2>3. gr \in GroupSet /\ gr.last = r.id  BY <2>1, <2>2 DEF GroupSet
    <2> HIDE DEF gr
    <2>4. db \in DbSet  BY DEF Accounted
    <2>5. d \in DbSet /\ d.next = db.next /\ d.entries = db.entries /\ d.group = gr  BY <2>3, <2>4 DEF DbSet
    <2> HIDE DEF d
    <2>6. PICK e : e = d  OBVIOUS
    <2>7. PICK res : res = Reply(e, "unit", None)  OBVIOUS
    <2>8. res.db = e /\ res.kind # "error"  BY <2>7 DEF Reply
    <2>9. Risk(r, res) = 1..r.id  BY <2>8, RiskSet
    <2>10. 1..r.id \subseteq Id /\ Accounted(e, settled \cup 1..r.id)  BY <2>3, <2>5, <2>6, AccountedUpTo
    <2>11. Answers(r.method, res)  BY <2>7, AnswersUnit
    <2>12. Effect(r, res)  BY <2>8, <2>9, <2>10, <2>11 DEF Effect
    <2> QED  BY <2>6, <2>7, <2>12, <1>3
  <1> QED  BY <1>1, <1>2, <1>3

LEMMA EffectGroupSetId ==
  ASSUME Accounted(db, settled), NEW r, r.method = "xgroup_set_id", r.id \in 0..MaxId,
         NEW m, m.cmd = "XGROUP_SETID", m.id = r.id
  PROVE  Effect(r, Executed(m))
PROOF
  <1> DEFINE gr == [db.group EXCEPT !.last = m.id]
             d == [db EXCEPT !.group = gr]
  <1>1. db \in DbSet /\ db.group \in GroupSet  BY DbParts DEF Accounted
  <1>2. Executed(m) = Reply([db EXCEPT !.group.last = m.id], "unit", None)  BY DEF Executed
  <1>3. [db EXCEPT !.group.last = m.id] = d  BY <1>1 DEF DbSet
  <1>4. gr \in GroupSet /\ gr.last = r.id  BY <1>1 DEF GroupSet
  <1> HIDE DEF gr
  <1>5. PICK e : e = d  OBVIOUS
  <1>6. e \in DbSet /\ e.next = db.next /\ e.entries = db.entries /\ e.group = gr  BY <1>1, <1>4, <1>5, WithGroup
  <1> HIDE DEF d
  <1>7. PICK res : res = Reply(e, "unit", None)  OBVIOUS
  <1>8. res.db = e /\ res.kind # "error"  BY <1>7 DEF Reply
  <1>9. Risk(r, res) = 1..r.id  BY <1>8, RiskSet
  <1>10. 1..r.id \subseteq Id /\ Accounted(e, settled \cup 1..r.id)  BY <1>4, <1>6, AccountedUpTo
  <1>11. Answers(r.method, res)  BY <1>7, AnswersUnit
  <1>12. Effect(r, res)  BY <1>8, <1>9, <1>10, <1>11 DEF Effect
  <1> QED  BY <1>2, <1>3, <1>5, <1>7, <1>12

LEMMA EffectDestroy ==
  ASSUME Accounted(db, settled), NEW r, r.method = "xgroup_destroy", NEW m, m.cmd = "XGROUP_DESTROY"
  PROVE  Effect(r, Executed(m))
PROOF
  <1>1. db \in DbSet /\ db.group.exists \in BOOLEAN /\ db.next \in 1..(MaxId + 1)  BY DbParts DEF Accounted
  <1>2. PICK b \in BOOLEAN : b = db.group.exists  BY <1>1
  <1>3. NoGroup \in GroupSet /\ NoGroup.last = 0 /\ NoGroup.exists = FALSE  BY NoGroupTyped
  <1>4. PICK gr \in GroupSet : gr = NoGroup  BY <1>3
  <1>5. PICK d : d = [db EXCEPT !.group = gr]  OBVIOUS
  <1>6. d \in DbSet /\ d.next = db.next /\ d.entries = db.entries /\ d.group = gr  BY <1>1, <1>5, WithGroup
  <1>7. Accounted(d, settled)
    <2>1. d.next..d.group.last \subseteq settled
      <3>1. MaxId \in Nat  BY StreamsAssumption
      <3> QED  BY <3>1, <1>1, <1>3, <1>4, <1>6
    <2>2. ~d.group.exists  BY <1>3, <1>4, <1>6
    <2> QED  BY <2>1, <2>2, <1>6 DEF Accounted
  <1>8. Executed(m) = Reply(d, "bool", b)  BY <1>2, <1>4, <1>5 DEF Executed
  <1>9. Answers(r.method, Reply(d, "bool", b))  BY AnswersBool
  <1>10. PICK res : res = Reply(d, "bool", b)  OBVIOUS
  <1>11. res.db = d  BY <1>10 DEF Reply
  <1>12. Effect(r, res)  BY <1>7, <1>9, <1>10, <1>11, EffectSafe DEF Risky
  <1> QED  BY <1>8, <1>10, <1>12

LEMMA EffectCreateConsumer ==
  ASSUME Accounted(db, settled), NEW r, r.method = "xgroup_create_consumer",
         NEW m, m.cmd = "XGROUP_CREATECONSUMER", m.consumer \in Consumer
  PROVE  Effect(r, Executed(m))
PROOF
  <1>1. db \in DbSet /\ db.group \in GroupSet /\ db.group.consumers \in SUBSET Consumer  BY DbParts DEF Accounted
  <1>2. PICK C \in SUBSET Consumer : C = db.group.consumers \cup {m.consumer}  BY <1>1
  <1>3. PICK gr : gr = [db.group EXCEPT !.consumers = C]  OBVIOUS
  <1>4. gr \in GroupSet /\ gr.last = db.group.last /\ gr.pel = db.group.pel  BY <1>1, <1>3 DEF GroupSet
  <1>5. gr.exists = db.group.exists  BY <1>1, <1>3 DEF GroupSet
  <1>6. PICK d : d = [db EXCEPT !.group = gr]  OBVIOUS
  <1>7. d \in DbSet /\ d.next = db.next /\ d.entries = db.entries /\ d.group = gr  BY <1>1, <1>4, <1>6, WithGroup
  <1>8. Accounted(d, settled)  BY <1>4, <1>5, <1>7, AccountedPel DEF Pel
  <1>9. PICK b \in BOOLEAN : b = (m.consumer \notin db.group.consumers)  OBVIOUS
  <1>10. [db EXCEPT !.group.consumers = @ \cup {m.consumer}] = d  BY <1>1, <1>2, <1>3, <1>6 DEF DbSet, GroupSet
  <1>11. Executed(m) = Reply(d, "bool", b)
    <2>1. Executed(m) = Reply([db EXCEPT !.group.consumers = @ \cup {m.consumer}], "bool",
                              m.consumer \notin db.group.consumers)
      BY DEF Executed
    <2> QED  BY <2>1, <1>9, <1>10
  <1>12. Answers(r.method, Reply(d, "bool", b))  BY AnswersBool
  <1>13. PICK res : res = Reply(d, "bool", b)  OBVIOUS
  <1>14. res.db = d  BY <1>13 DEF Reply
  <1>15. Effect(r, res)  BY <1>8, <1>12, <1>13, <1>14, EffectSafe DEF Risky
  <1> QED  BY <1>11, <1>13, <1>15

LEMMA EffectDelConsumer ==
  ASSUME Accounted(db, settled), NEW r, r.method = "xgroup_del_consumer",
         NEW m, m.cmd = "XGROUP_DELCONSUMER", m.consumer = r.consumer
  PROVE  Effect(r, Executed(m))
PROOF
  <1>1. db \in DbSet /\ db.group \in GroupSet /\ db.group.consumers \in SUBSET Consumer /\ Pel \in PelSet
    BY DbParts DEF Accounted, Pel
  <1>2. DOMAIN Pel \subseteq Id /\ \A i \in DOMAIN Pel : Pel[i] \in PendingSet  BY <1>1, PelParts
  <1>3. PICK C \in SUBSET Consumer : C = db.group.consumers \ {m.consumer}  BY <1>1
  <1>4. PICK lost : lost = {i \in DOMAIN Pel : Pel[i].owner = m.consumer}  OBVIOUS
  <1>5. PICK p : p = Without(Pel, lost)  OBVIOUS
  <1>6. p \in [DOMAIN Pel \ lost -> PendingSet] /\ DOMAIN p = DOMAIN Pel \ lost  BY <1>2, <1>5 DEF Without
  <1>7. p \in PelSet
    <2>1. PICK D \in SUBSET Id : D = DOMAIN Pel \ lost  BY <1>2
    <2> QED  BY <2>1, <1>6, PelIn
  <1>8. PICK gr : gr = [db.group EXCEPT !.pel = p, !.consumers = C]  OBVIOUS
  <1>9. gr \in GroupSet /\ gr.last = db.group.last /\ gr.pel = p  BY <1>1, <1>7, <1>8 DEF GroupSet
  <1>10. gr.exists = db.group.exists  BY <1>1, <1>8 DEF GroupSet
  <1>11. PICK d : d = [db EXCEPT !.group = gr]  OBVIOUS
  <1>12. d \in DbSet /\ d.next = db.next /\ d.entries = db.entries /\ d.group = gr  BY <1>1, <1>9, <1>11, WithGroup
  <1>13. [WithPel(p) EXCEPT !.group.consumers = @ \ {m.consumer}] = d
    BY <1>1, <1>3, <1>8, <1>11 DEF DbSet, GroupSet, WithPel
  <1>14. Executed(m) = Reply(d, "int", Cardinality(lost))
    <2>1. Executed(m) = Reply([WithPel(Without(Pel, lost)) EXCEPT !.group.consumers = @ \ {m.consumer}],
                              "int", Cardinality(lost))
      BY <1>4 DEF Executed
    <2> QED  BY <2>1, <1>5, <1>13
  <1>15. PICK res : res = Reply(d, "int", Cardinality(lost))  OBVIOUS
  <1>16. res.db = d /\ res.kind # "error"  BY <1>15 DEF Reply
  <1>17. Risk(r, res) = lost
    <2>1. RiskedBy(r, res.db) = {i \in DOMAIN Pel : Pel[i].owner = r.consumer}  BY DEF RiskedBy
    <2> QED  BY <2>1, <1>4, <1>16 DEF Risk
  <1>18. lost \subseteq Id  BY <1>2, <1>4
  <1>19. Accounted(d, settled \cup lost)
    <2>1. PICK s : s = settled \cup lost  OBVIOUS
    <2>2. Accounted(db, s)  BY <2>1, AccountedMore
    <2>3. \A i \in DOMAIN Pel : i \in DOMAIN d.group.pel \/ i \in s  BY <2>1, <1>6, <1>9, <1>12
    <2>4. Accounted(d, s)  BY <2>2, <2>3, <1>9, <1>10, <1>12, AccountedPel
    <2> QED  BY <2>1, <2>4
  <1>20. Answers(r.method, res)  BY <1>15, AnswersInt
  <1>21. Effect(r, res)  BY <1>16, <1>17, <1>18, <1>19, <1>20 DEF Effect
  <1> QED  BY <1>14, <1>15, <1>21

LEMMA EffectSetId ==
  ASSUME Accounted(db, settled), NEW r, r.method = "xsetid", r.id \in 0..MaxId,
         NEW m, m.cmd = "XSETID", m.id = r.id
  PROVE  Effect(r, Executed(m))
PROOF
  <1> DEFINE d == [db EXCEPT !.next = m.id + 1]
  <1>0. MaxId \in Nat  BY StreamsAssumption
  <1>1. CASE ~db.exists \/ \E i \in db.entries[k1] : i > m.id
    <2>1. Executed(m) = Error  BY <1>1 DEF Executed
    <2> QED  BY <2>1, EffectError
  <1>2. CASE ~(~db.exists \/ \E i \in db.entries[k1] : i > m.id)
    <2>1. Executed(m) = Reply(d, "unit", None)  BY <1>2 DEF Executed
    <2>2. db \in DbSet  BY DEF Accounted
    <2>3. db.next \in 1..(MaxId + 1) /\ db.group.last \in 0..MaxId /\ db.entries[k1] \subseteq Id  BY <2>2, DbParts
    <2>4. r.id + 1 \in 1..(MaxId + 1)  BY <1>0
    <2>5. d \in DbSet /\ d.next = r.id + 1 /\ d.entries = db.entries /\ d.group = db.group
      BY <2>2, <2>4 DEF DbSet
    <2> HIDE DEF d
    <2>6. PICK e : e = d  OBVIOUS
    <2>7. PICK res : res = Reply(e, "unit", None)  OBVIOUS
    <2>8. res.db = e /\ res.kind # "error"  BY <2>7 DEF Reply
    <2>9. PICK s : s = (r.id + 1)..db.group.last  OBVIOUS
    <2>10. Risk(r, res) = s
      <3>1. RiskedBy(r, res.db) = (r.id + 1)..db.group.last  BY DEF RiskedBy
      <3> QED  BY <3>1, <2>8, <2>9 DEF Risk
    <2>11. s \subseteq Id  BY <2>3, <2>9, <1>0 DEF Id
    <2>12. Accounted(e, settled \cup s)
      <3>1. e.entries[k1] \subseteq 1..(e.next - 1)
        <4>1. \A i \in db.entries[k1] : i \in 1..MaxId /\ ~(i > r.id)  BY <1>2, <2>3 DEF Id
        <4>2. e.entries[k1] = db.entries[k1] /\ e.next - 1 = r.id  BY <2>5, <2>6
        <4> QED  BY <4>1, <4>2, <1>0
      <3>2. e.next..e.group.last \subseteq settled \cup s  BY <2>5, <2>6, <2>9
      <3>3. e.group.exists => \A i \in e.entries[k1] : i <= e.group.last => i \in DOMAIN e.group.pel \cup settled
        BY <2>5, <2>6 DEF Accounted
      <3> QED  BY <3>1, <3>2, <3>3, <2>5, <2>6 DEF Accounted
    <2>13. Answers(r.method, res)  BY <2>7, AnswersUnit
    <2>14. Effect(r, res)  BY <2>8, <2>10, <2>11, <2>12, <2>13 DEF Effect
    <2> QED  BY <2>1, <2>6, <2>7, <2>14
  <1> QED  BY <1>1, <1>2

LEMMA EffectAck ==
  ASSUME Accounted(db, settled), NEW r, r.method = "xack", NEW m, m.cmd = "XACK", ToSet(m.ids) \subseteq settled
  PROVE  Effect(r, Executed(m))
PROOF
  <1>1. db \in DbSet /\ db.group \in GroupSet /\ Pel \in PelSet  BY DbParts DEF Accounted, Pel
  <1>2. DOMAIN Pel \subseteq Id /\ \A i \in DOMAIN Pel : Pel[i] \in PendingSet  BY <1>1, PelParts
  <1>3. PICK acked : acked = ToSet(m.ids)  OBVIOUS
  <1>4. PICK p : p = Without(Pel, acked)  OBVIOUS
  <1>5. p \in [DOMAIN Pel \ acked -> PendingSet] /\ DOMAIN p = DOMAIN Pel \ acked  BY <1>2, <1>4 DEF Without
  <1>6. p \in PelSet
    <2>1. PICK D \in SUBSET Id : D = DOMAIN Pel \ acked  BY <1>2
    <2> QED  BY <2>1, <1>5, PelIn
  <1>7. PICK gr : gr = [db.group EXCEPT !.pel = p]  OBVIOUS
  <1>8. gr \in GroupSet /\ gr.last = db.group.last /\ gr.pel = p  BY <1>1, <1>6, <1>7 DEF GroupSet
  <1>9. gr.exists = db.group.exists  BY <1>1, <1>7 DEF GroupSet
  <1>10. PICK d : d = [db EXCEPT !.group = gr]  OBVIOUS
  <1>11. d \in DbSet /\ d.next = db.next /\ d.entries = db.entries /\ d.group = gr  BY <1>1, <1>8, <1>10, WithGroup
  <1>12. WithPel(p) = d  BY <1>1, <1>7, <1>10 DEF DbSet, WithPel
  <1>13. PICK n : n = Cardinality(ToSet(m.ids) \cap DOMAIN Pel)  OBVIOUS
  <1>14. Executed(m) = Reply(d, "int", n)  BY <1>3, <1>4, <1>12, <1>13 DEF Executed
  <1>15. Accounted(d, settled)  BY <1>3, <1>5, <1>8, <1>9, <1>11, AccountedPel
  <1>16. PICK res : res = Reply(d, "int", n)  OBVIOUS
  <1>17. res.db = d  BY <1>16 DEF Reply
  <1>18. Answers(r.method, res)  BY <1>16, AnswersInt
  <1>19. Effect(r, res)  BY <1>15, <1>17, <1>18, EffectSafe DEF Risky
  <1> QED  BY <1>14, <1>16, <1>19

(* The record of a pending entry. *)
LEMMA PendingTyped ==
  ASSUME NEW c \in Consumer, NEW idle \in 0..1, NEW n \in Nat
  PROVE  Pending(c, idle, n) \in PendingSet /\ Pending(c, idle, n).owner = c
PROOF
  <1>1. MaxDeliveries \in Nat  BY StreamsAssumption
  <1>2. Min({n, MaxDeliveries}) \in 0..MaxDeliveries
    <2>1. PICK x : x = Min({n, MaxDeliveries})  OBVIOUS
    <2>2. \E y \in {n, MaxDeliveries} : \A z \in {n, MaxDeliveries} : y <= z
      <3>1. CASE n <= MaxDeliveries  BY <1>1, <3>1
      <3>2. CASE MaxDeliveries <= n  BY <1>1, <3>2
      <3> QED  BY <1>1, <3>1, <3>2
    <2>3. x \in {n, MaxDeliveries} /\ \A z \in {n, MaxDeliveries} : x <= z  BY <2>1, <2>2 DEF Min
    <2>4. x \in 0..MaxDeliveries  BY <1>1, <2>3
    <2> QED  BY <2>1, <2>4
  <1> QED  BY <1>2 DEF Pending, PendingSet

LEMMA DeliveriesTyped ==
  ASSUME Pel \in PelSet, NEW m, NEW i
  PROVE  Deliveries(m, i) \in Nat
PROOF
  <1>1. MaxDeliveries \in Nat  BY StreamsAssumption
  <1>2. i \in DOMAIN Pel => Pel[i].n \in 0..MaxDeliveries  BY PelParts
  <1>3. i \in DOMAIN Pel => Pel[i].n \in Nat  BY <1>1, <1>2
  <1>4. PICK x : x = Pel[i].n  OBVIOUS
  <1> QED  BY <1>3, <1>4 DEF Deliveries

(* Ids that change owner leave the list only when they are deleted. *)
ClaimedDb(p, c) == [[WithPel(p) EXCEPT !.group.consumers = @ \cup {c}] EXCEPT !.exists = TRUE]

LEMMA ClaimedPel ==
  ASSUME Accounted(db, settled), NEW c \in Consumer, NEW D \in SUBSET Id,
         \A i \in DOMAIN Pel : i \in D \/ i \notin db.entries[k1],
         NEW p \in [D -> PendingSet], NEW d, d = ClaimedDb(p, c)
  PROVE  Accounted(d, settled) /\ d.group.pel = p
PROOF
  <1>1. db \in DbSet /\ db.group \in GroupSet /\ db.group.consumers \in SUBSET Consumer /\ Pel \in PelSet
    BY DbParts DEF Accounted, Pel
  <1>3. PICK C \in SUBSET Consumer : C = db.group.consumers \cup {c}  BY <1>1
  <1>4. DOMAIN p = D  OBVIOUS
  <1>5. p \in PelSet  BY PelIn
  <1>6. PICK gr : gr = [db.group EXCEPT !.pel = p, !.consumers = C]  OBVIOUS
  <1>7. gr \in GroupSet /\ gr.last = db.group.last /\ gr.pel = p  BY <1>1, <1>5, <1>6 DEF GroupSet
  <1>8. gr.exists = db.group.exists  BY <1>1, <1>6 DEF GroupSet
  <1>9. d = [db EXCEPT !.group = gr, !.exists = TRUE]  BY <1>1, <1>3, <1>6 DEF DbSet, GroupSet, WithPel, ClaimedDb
  <1>10. d \in DbSet /\ d.next = db.next /\ d.entries = db.entries /\ d.group = gr  BY <1>1, <1>7, <1>9 DEF DbSet
  <1>11. \A i \in DOMAIN Pel : i \in DOMAIN d.group.pel \/ i \in settled \/ i \notin db.entries[k1]
    BY <1>4, <1>7, <1>10
  <1>12. Accounted(d, settled)  BY <1>7, <1>8, <1>10, <1>11, AccountedPel
  <1> QED  BY <1>7, <1>10, <1>12

LEMMA EffectClaim ==
  ASSUME Accounted(db, settled), old \in BOOLEAN, NEW r, NEW m, m.cmd = "XCLAIM", m.consumer \in Consumer,
         m.justid \in BOOLEAN, r.method = IF m.justid THEN "xclaim_justid" ELSE "xclaim",
         m.idle \in Option(0..1), m.retry_count \in Option(Nat)
  PROVE  Effect(r, Executed(m))
PROOF
  <1> DEFINE ids == {i \in ToSet(m.ids) : \/ i \in DOMAIN Pel /\ Pel[i].idle >= m.min_idle
                                          \/ m.is_force /\ i \notin DOMAIN Pel /\ i \in db.entries[k1]}
             n(i) == IF m.retry_count # None THEN m.retry_count[1] ELSE Deliveries(m, i)
             idle == IF m.idle # None THEN m.idle[1] ELSE 0
             gone == IF old THEN {} ELSE ids \ db.entries[k1]
             p == [i \in (DOMAIN Pel \cup ids) \ gone |->
                     IF i \in ids THEN Pending(m.consumer, idle, n(i)) ELSE Pel[i]]
             d == ClaimedDb(p, m.consumer)
             shown == Sorted(IF old /\ m.justid THEN ids ELSE ids \cap db.entries[k1])
  <1>1. Executed(m) = Reply(d, IF m.justid THEN "ids" ELSE "claimed", IF m.justid THEN shown ELSE Entries(shown))
    BY DEF Executed, Claim, Claimed, ClaimedDb
  <1>2. db \in DbSet /\ Pel \in PelSet /\ db.entries[k1] \in SUBSET Id  BY DbParts DEF Accounted, Pel
  <1>3. DOMAIN Pel \subseteq Id /\ \A i \in DOMAIN Pel : Pel[i] \in PendingSet  BY <1>2, PelParts
  <1>4. ids \in SUBSET Id  BY <1>2, <1>3
  <1>5. \A i : n(i) \in Nat
    <2> TAKE i
    <2>1. Deliveries(m, i) \in Nat  BY <1>2, DeliveriesTyped
    <2>2. m.retry_count # None => m.retry_count[1] \in Nat  BY DEF Option, None
    <2> QED  BY <2>1, <2>2
  <1>6. idle \in 0..1  BY DEF Option, None
  <1> HIDE DEF ids, n, idle
  <1>7. gone \cap db.entries[k1] = {}  OBVIOUS
  <1> HIDE DEF gone
  <1>8. p \in [(DOMAIN Pel \cup ids) \ gone -> PendingSet]
    <2>1. \A i : Pending(m.consumer, idle, n(i)) \in PendingSet  BY <1>5, <1>6, PendingTyped
    <2> QED  BY <2>1, <1>3
  <1> HIDE DEF p
  <1>9. PICK e : e = d  OBVIOUS
  <1>10. Accounted(e, settled)
    <2>0. PICK c \in Consumer : c = m.consumer  OBVIOUS
    <2>1. PICK D, q : D = (DOMAIN Pel \cup ids) \ gone /\ q = p  OBVIOUS
    <2>2. q \in [D -> PendingSet] /\ e = ClaimedDb(q, c)  BY <2>0, <2>1, <1>8, <1>9
    <2>3. D \in SUBSET Id /\ \A i \in DOMAIN Pel : i \in D \/ i \notin db.entries[k1]  BY <2>1, <1>3, <1>4, <1>7
    <2>4. Accounted(e, settled) /\ e.group.pel = q  BY <2>2, <2>3, ClaimedPel
    <2> QED  BY <2>4
  <1> HIDE DEF d
  <1>11. PICK s : s = shown  OBVIOUS
  <1>12. s \in Seq(Id)
    <2>1. PICK S \in SUBSET Id : S = IF old /\ m.justid THEN ids ELSE ids \cap db.entries[k1]  BY <1>4
    <2> QED  BY <2>1, <1>11, SortedIds
  <1> HIDE DEF shown
  <1>13. PICK es \in Seq(EntrySet) : es = Entries(s)  BY <1>12, EntriesTyped
  <1>14. CASE m.justid
    <2>1. PICK res : res = Reply(e, "ids", s)  OBVIOUS
    <2>2. Executed(m) = res  BY <2>1, <1>1, <1>9, <1>11, <1>14
    <2>3. res.db = e  BY <2>1 DEF Reply
    <2>4. r.method = "xclaim_justid"  BY <1>14
    <2>5. Answers(r.method, res)  BY <2>1, <2>4, <1>12, AnswersIds
    <2>6. Effect(r, res)  BY <2>3, <2>4, <2>5, <1>10, EffectSafe DEF Risky
    <2> QED  BY <2>2, <2>6
  <1>15. CASE ~m.justid
    <2>1. PICK res : res = Reply(e, "claimed", es)  OBVIOUS
    <2>2. Executed(m) = res  BY <2>1, <1>1, <1>9, <1>11, <1>13, <1>15
    <2>3. res.db = e  BY <2>1 DEF Reply
    <2>4. r.method = "xclaim"  BY <1>15
    <2>5. Answers("xclaim", Reply(e, "entries", es)) /\ Answers("xclaim", Reply(e, "claimed", es))
      BY AnswersEntries
    <2>6. Effect(r, res)  BY <2>1, <2>3, <2>4, <2>5, <1>10, EffectSafe DEF Risky
    <2> QED  BY <2>2, <2>6
  <1> QED  BY <1>14, <1>15

(* What a page of a sweep leaves unclaimed is at the returned cursor or behind it. *)
Paged(m, res) ==
  /\ res.view[1] \in 0..MaxId
  /\ m.count = Some(1) =>
       \A i \in DOMAIN Pel \cap DOMAIN res.db.group.pel :
         (i >= m.start /\ Pel[i].idle >= m.min_idle /\ res.db.group.pel[i].owner # m.consumer)
           => res.view[1] # 0 /\ i >= res.view[1]

LEMMA EffectAutoClaim ==
  ASSUME Accounted(db, settled), old \in BOOLEAN, NEW r, NEW m, m.cmd = "XAUTOCLAIM", m.consumer \in Consumer,
         m.justid \in BOOLEAN, r.method = IF m.justid THEN "xautoclaim_justid" ELSE "xautoclaim",
         m.count \in Option(Nat)
  PROVE  Effect(r, Executed(m)) /\ Paged(m, Executed(m))
PROOF
  <1> DEFINE cand == {i \in DOMAIN Pel : i >= m.start /\ Pel[i].idle >= m.min_idle}
             ids == Take(Sorted(cand), m.count)
             rest == {i \in DOMAIN Pel : ids # <<>> /\ i > ids[Len(ids)]}
             cursor == IF rest = {} THEN 0 ELSE Sorted(rest)[1]
             gone == ToSet(ids) \ db.entries[k1]
             kept == Sorted(ToSet(ids) \ gone)
             shown == IF m.justid /\ old THEN ids ELSE kept
             left == IF old THEN {} ELSE ToSet(ids) \ db.entries[k1]
             p == [i \in (DOMAIN Pel \cup ToSet(ids)) \ left |->
                     IF i \in ToSet(ids) THEN Pending(m.consumer, 0, Deliveries(m, i)) ELSE Pel[i]]
             d == ClaimedDb(p, m.consumer)
             deleted == IF old THEN <<>> ELSE Sorted(gone)
             items == IF m.justid THEN shown ELSE Entries(shown)
             kind == IF m.justid THEN "autoclaim_ids" ELSE "autoclaim"
  <1>1. Executed(m) = Reply(d, kind, <<cursor, items, deleted>>)
    BY DEF Executed, AutoClaim, Claimed, ClaimedDb
  <1>2. db \in DbSet /\ Pel \in PelSet /\ db.entries[k1] \in SUBSET Id  BY DbParts DEF Accounted, Pel
  <1>3. DOMAIN Pel \subseteq Id /\ \A i \in DOMAIN Pel : Pel[i] \in PendingSet  BY <1>2, PelParts
  <1>4. cand \subseteq DOMAIN Pel /\ \A i \in DOMAIN Pel : (i >= m.start /\ Pel[i].idle >= m.min_idle) => i \in cand
    OBVIOUS
  <1> HIDE DEF cand
  <1>5. IsFiniteSet(cand) /\ cand \in SUBSET Int  BY <1>3, <1>4, IdSets
  <1>6. PICK t : t = ids  OBVIOUS
  <1>7. /\ t \in Seq(cand) /\ ToSet(t) \subseteq cand
        /\ \A x \in cand \ ToSet(t) : t # <<>> => x > t[Len(t)]
        /\ t # <<>> => t[Len(t)] \in ToSet(t)
        /\ (m.count = Some(1) /\ cand # {}) => t # <<>>
    BY <1>5, <1>6, TakeSorted
  <1>8. t \in Seq(Id) /\ ToSet(t) \in SUBSET Id  BY <1>3, <1>4, <1>7
  <1>9. PICK R : R = {i \in DOMAIN Pel : t # <<>> /\ i > t[Len(t)]}  OBVIOUS
  <1>10. R \in SUBSET Id /\ R = rest  BY <1>3, <1>6, <1>9
  <1>11. PICK cu : cu = cursor  OBVIOUS
  <1>12. cu = IF R = {} THEN 0 ELSE Sorted(R)[1]  BY <1>10, <1>11
  <1>13. cu \in 0..MaxId /\ \A i \in R : cu # 0 /\ i >= cu
    <2>1. MaxId \in Nat  BY StreamsAssumption
    <2>2. CASE R = {}  BY <2>1, <2>2, <1>12
    <2>3. CASE R # {}
      <3>1. PICK s : s = Sorted(R)  OBVIOUS
      <3>2. IsFiniteSet(R) /\ R \in SUBSET Int  BY <1>10, IdSets
      <3>3. /\ s \in Seq(R) /\ \A x \in R : \E i \in 1..Len(s) : s[i] = x
            /\ \A i, j \in 1..Len(s) : i < j => s[i] < s[j]
        BY <3>1, <3>2, SortedList
      <3>4. PICK l \in Nat : l = Len(s) /\ \A i \in 1..l : s[i] \in R  BY <3>3
      <3>5. l >= 1  BY <2>3, <3>3, <3>4
      <3>6. s[1] \in R /\ cu = s[1]  BY <2>3, <3>1, <3>4, <3>5, <1>12
      <3>7. cu \in 1..MaxId  BY <3>6, <1>10 DEF Id
      <3>8. ASSUME NEW i \in R PROVE i >= cu
        <4>1. PICK j \in 1..l : s[j] = i  BY <3>3, <3>4
        <4>2. j = 1 \/ 1 < j  BY <4>1
        <4>3. 1 < j => s[1] < s[j]  BY <4>1, <3>3, <3>4, <3>5
        <4>4. i \in Int /\ cu \in Int  BY <3>2, <3>6
        <4> QED  BY <4>1, <4>2, <4>3, <4>4, <3>6
      <3> QED  BY <3>7, <3>8, <2>1
    <2> QED  BY <2>2, <2>3
  <1> HIDE DEF ids
  <1>14. PICK T \in SUBSET Id : T = ToSet(t)  BY <1>8
  <1>15. T = ToSet(ids)  BY <1>6, <1>14
  <1> HIDE DEF rest, cursor
  <1>16. PICK L : L = left  OBVIOUS
  <1>17. L \cap db.entries[k1] = {} /\ L \subseteq T  BY <1>15, <1>16
  <1>18. PICK q : q = p  OBVIOUS
  <1>19. q = [i \in (DOMAIN Pel \cup T) \ L |->
                IF i \in T THEN Pending(m.consumer, 0, Deliveries(m, i)) ELSE Pel[i]]
    BY <1>15, <1>16, <1>18
  <1>20. PICK D : D = (DOMAIN Pel \cup T) \ L  OBVIOUS
  <1>21. \A i : Pending(m.consumer, 0, Deliveries(m, i)) \in PendingSet
                /\ Pending(m.consumer, 0, Deliveries(m, i)).owner = m.consumer
    <2> TAKE i
    <2>1. PICK n \in Nat : n = Deliveries(m, i)  BY <1>2, DeliveriesTyped
    <2>2. Pending(m.consumer, 0, n) \in PendingSet /\ Pending(m.consumer, 0, n).owner = m.consumer  BY PendingTyped
    <2> QED  BY <2>1, <2>2
  <1>22. q \in [D -> PendingSet] /\ \A i \in D : i \in T => q[i].owner = m.consumer
    <2>1. q \in [D -> PendingSet]  BY <1>3, <1>19, <1>20, <1>21
    <2>2. \A i \in D : i \in T => q[i] = Pending(m.consumer, 0, Deliveries(m, i))  BY <1>19, <1>20
    <2> QED  BY <2>1, <2>2, <1>21
  <1>23. PICK e : e = d  OBVIOUS
  <1> HIDE DEF p, left
  <1>24. PICK c \in Consumer : c = m.consumer  OBVIOUS
  <1>25. e = ClaimedDb(q, c)  BY <1>18, <1>23, <1>24
  <1> HIDE DEF d
  <1>26. Accounted(e, settled) /\ e.group.pel = q
    <2>1. D \in SUBSET Id /\ \A i \in DOMAIN Pel : i \in D \/ i \notin db.entries[k1]
      BY <1>3, <1>14, <1>17, <1>20
    <2> QED  BY <2>1, <1>22, <1>25, ClaimedPel
  <1>27. PICK G \in SUBSET Id : G = T \ db.entries[k1]  BY <1>14
  <1>28. Sorted(G) \in Seq(Id) /\ Sorted(T \ G) \in Seq(Id)
    <2>1. PICK H \in SUBSET Id : H = T \ G  BY <1>14
    <2> QED  BY <2>1, SortedIds
  <1>29. PICK ds : ds = deleted  OBVIOUS
  <1>30. ds \in Seq(Id) /\ (old => ds = <<>>)
    <2>1. gone = G  BY <1>15, <1>27
    <2> HIDE DEF gone
    <2>2. ds = IF old THEN <<>> ELSE Sorted(G)  BY <2>1, <1>29
    <2> QED  BY <2>2, <1>28
  <1> HIDE DEF deleted
  <1>31. PICK sh : sh = shown  OBVIOUS
  <1>32. sh \in Seq(Id)
    <2>1. gone = G /\ ids = t /\ ToSet(ids) = T  BY <1>6, <1>15, <1>27
    <2>2. kept = Sorted(T \ G)  BY <2>1
    <2> HIDE DEF kept
    <2>3. sh = t \/ sh = kept  BY <2>1, <1>31
    <2> QED  BY <2>2, <2>3, <1>8, <1>28
  <1> HIDE DEF shown
  <1>33. PICK es \in Seq(EntrySet) : es = Entries(sh)  BY <1>32, EntriesTyped
  <1>34. PICK w : w = <<cu, IF m.justid THEN sh ELSE es, ds>>  OBVIOUS
  <1>35. Executed(m) = Reply(e, kind, w)
    <2>1. items = IF m.justid THEN sh ELSE es  BY <1>31, <1>33
    <2> HIDE DEF items, kind
    <2> QED  BY <2>1, <1>1, <1>11, <1>23, <1>29, <1>34
  <1> HIDE DEF items
  <1>36. PICK res : res = Reply(e, kind, w)  OBVIOUS
  <1>37. res.db = e /\ res.view = w  BY <1>36 DEF Reply
  <1>38. w[1] = cu  BY <1>34
  <1>39. Answers("xautoclaim", Reply(e, "autoclaim", <<cu, es, ds>>))
         /\ Answers("xautoclaim_justid", Reply(e, "autoclaim_ids", <<cu, sh, ds>>))
    BY <1>30, <1>32, AnswersAutoClaim
  <1>40. Answers(r.method, res)
    <2>1. CASE m.justid
      <3>1. res = Reply(e, "autoclaim_ids", <<cu, sh, ds>>)  BY <2>1, <1>34, <1>36
      <3>2. r.method = "xautoclaim_justid"  BY <2>1
      <3> HIDE DEF kind
      <3> QED  BY <3>1, <3>2, <1>39
    <2>2. CASE ~m.justid
      <3>1. res = Reply(e, "autoclaim", <<cu, es, ds>>)  BY <2>2, <1>34, <1>36
      <3>2. r.method = "xautoclaim"  BY <2>2
      <3> HIDE DEF kind
      <3> QED  BY <3>1, <3>2, <1>39
    <2> QED  BY <2>1, <2>2
  <1>41. Effect(r, res)  BY <1>26, <1>37, <1>40, EffectSafe DEF Risky
  <1>42. Paged(m, res)
    <2>1. res.view[1] = cu /\ res.db.group.pel = q  BY <1>26, <1>37, <1>38
    <2>2. ASSUME m.count = Some(1), NEW i \in DOMAIN Pel, i \in DOMAIN q, i >= m.start, Pel[i].idle >= m.min_idle,
                 q[i].owner # m.consumer
          PROVE  cu # 0 /\ i >= cu
      <3>1. i \in cand  BY <2>2, <1>4
      <3>2. i \in D  BY <2>2, <1>22
      <3>3. i \notin ToSet(t)  BY <2>2, <3>2, <1>14, <1>22
      <3>4. t # <<>>  BY <2>2, <3>1, <1>7
      <3>5. i > t[Len(t)]  BY <3>1, <3>3, <3>4, <1>7
      <3>6. i \in R  BY <3>4, <3>5, <1>9
      <3> QED  BY <3>6, <1>13
    <2> QED  BY <2>1, <2>2, <1>13 DEF Paged
  <1> HIDE DEF kind
  <1> QED  BY <1>35, <1>36, <1>41, <1>42

LEMMA EffectReadGroup ==
  ASSUME Accounted(db, settled), NEW r, r.method = "xreadgroup", NEW m, m.cmd = "XREADGROUP",
         m.consumer \in Consumer, m.count \in Option(Nat), m.no_ack \in BOOLEAN, m.no_ack = r.no_ack
  PROVE  Effect(r, Executed(m))
PROOF
  <1> DEFINE mine == {i \in DOMAIN Pel : Pel[i].owner = m.consumer /\ i > m.ids[1]}
             new == {i \in db.entries[k1] : i > db.group.last}
             src == IF m.ids[1] = New THEN new ELSE mine
             ids == Take(Sorted(src), m.count)
             got == ToSet(ids)
             pel == [i \in DOMAIN Pel \cup got |->
                       IF i \notin got THEN Pel[i]
                       ELSE Pending(m.consumer, 0, IF i \in DOMAIN Pel THEN Pel[i].n + 1 ELSE 1)]
             last == IF m.ids[1] = New /\ ids # <<>> THEN ids[Len(ids)] ELSE db.group.last
             p == IF m.ids[1] = New /\ m.no_ack THEN Pel ELSE pel
             d == [db EXCEPT !.group.consumers = @ \cup {m.consumer},
                      !.group.last = IF m.ids[1] = New /\ ids # <<>> THEN ids[Len(ids)] ELSE @,
                      !.group.pel = IF m.ids[1] = New /\ m.no_ack THEN @ ELSE pel]
             view == IF m.ids[1] = New /\ ids = <<>> THEN <<>> ELSE <<<<k1, Entries(ids)>>>>
  <1>1. Executed(m) = Reply(d, "streams", view)
    BY DEF Executed, ReadGroup
  <1>2. /\ db \in DbSet /\ Pel \in PelSet /\ db.entries[k1] \in SUBSET Id /\ db.group \in GroupSet
        /\ db.group.last \in 0..MaxId /\ db.group.consumers \in SUBSET Consumer /\ db.next \in 1..(MaxId + 1)
    BY DbParts DEF Accounted, Pel
  <1>3. DOMAIN Pel \subseteq Id /\ \A i \in DOMAIN Pel : Pel[i] \in PendingSet /\ Pel[i].n \in 0..MaxDeliveries
    BY <1>2, PelParts
  <1>4. MaxId \in Nat /\ MaxDeliveries \in Nat  BY StreamsAssumption
  <1>5. PICK S : S = src  OBVIOUS
  <1>6. /\ m.ids[1] = New => S = {i \in db.entries[k1] : i > db.group.last}
        /\ S \in SUBSET Id
    BY <1>2, <1>3, <1>5
  <1>7. PICK t : t = Take(Sorted(S), m.count) /\ t = ids  BY <1>5
  <1>8. /\ t \in Seq(S) /\ ToSet(t) \subseteq S
        /\ \A x \in S \ ToSet(t) : t # <<>> => x > t[Len(t)]
        /\ t # <<>> => t[Len(t)] \in ToSet(t)
    <2>1. IsFiniteSet(S) /\ S \in SUBSET Int  BY <1>6, IdSets
    <2> QED  BY <2>1, <1>7, TakeSorted
  <1>9. t \in Seq(Id) /\ ToSet(t) \in SUBSET Id  BY <1>6, <1>8
  <1>10. PICK T \in SUBSET Id : T = ToSet(t)  BY <1>9
  <1> HIDE DEF src
  <1>11. got = T  BY <1>7, <1>10
  <1> HIDE DEF ids
  <1>12. PICK l : l = last  OBVIOUS
  <1>13. l = IF m.ids[1] = New /\ t # <<>> THEN t[Len(t)] ELSE db.group.last  BY <1>7, <1>12
  <1>14. l \in 0..MaxId
    <2>1. \A i \in Id : i \in 0..MaxId  BY <1>4 DEF Id
    <2> QED  BY <2>1, <1>2, <1>8, <1>9, <1>13
  <1> HIDE DEF got
  <1>15. pel \in [DOMAIN Pel \cup T -> PendingSet]
    <2>1. ASSUME NEW i PROVE Pending(m.consumer, 0, IF i \in DOMAIN Pel THEN Pel[i].n + 1 ELSE 1) \in PendingSet
      <3>1. PICK n : n = IF i \in DOMAIN Pel THEN Pel[i].n + 1 ELSE 1  OBVIOUS
      <3>2. n \in Nat  BY <3>1, <1>3, <1>4
      <3>3. Pending(m.consumer, 0, n) \in PendingSet /\ Pending(m.consumer, 0, n).owner = m.consumer
        BY <3>2, PendingTyped
      <3> QED  BY <3>1, <3>3
    <2> QED  BY <2>1, <1>3, <1>11
  <1>16. pel \in PelSet /\ DOMAIN pel = DOMAIN Pel \cup T
    <2>1. PICK D \in SUBSET Id : D = DOMAIN Pel \cup T  BY <1>3
    <2> HIDE DEF pel
    <2> QED  BY <2>1, <1>15, PelIn
  <1> HIDE DEF pel
  <1>17. PICK q : q = p  OBVIOUS
  <1>18. /\ q \in PelSet /\ DOMAIN Pel \subseteq DOMAIN q
         /\ ~(m.ids[1] = New /\ m.no_ack) => T \subseteq DOMAIN q
    BY <1>2, <1>16, <1>17
  <1>19. PICK C \in SUBSET Consumer : C = db.group.consumers \cup {m.consumer}  BY <1>2
  <1>20. PICK gr : gr = [db.group EXCEPT !.consumers = C, !.last = l, !.pel = q]  OBVIOUS
  <1>21. gr \in GroupSet /\ gr.last = l /\ gr.pel = q  BY <1>2, <1>14, <1>18, <1>20 DEF GroupSet
  <1>22. gr.exists = db.group.exists  BY <1>2, <1>20 DEF GroupSet
  <1>23. PICK e : e = [db EXCEPT !.group = gr]  OBVIOUS
  <1>24. e \in DbSet /\ e.next = db.next /\ e.entries = db.entries /\ e.group = gr  BY <1>2, <1>21, <1>23, WithGroup
  <1>25. d = e
    <2>1. d = [db EXCEPT !.group.consumers = db.group.consumers \cup {m.consumer}, !.group.last = last, !.group.pel = p]
      BY <1>2 DEF DbSet, GroupSet, Pel
    <2> HIDE DEF d, last, p
    <2>2. d = [db EXCEPT !.group.consumers = C, !.group.last = l, !.group.pel = q]  BY <2>1, <1>12, <1>17, <1>19
    <2> QED  BY <2>2, <1>2, <1>20, <1>23 DEF DbSet, GroupSet
  <1> HIDE DEF d, last, p
  <1>26. PICK v : v = view  OBVIOUS
  <1>27. v \in Seq({k1} \X Seq(EntrySet))
    <2>1. PICK es \in Seq(EntrySet) : es = Entries(t)  BY <1>9, EntriesTyped
    <2>2. PICK x \in {k1} \X Seq(EntrySet) : x = <<k1, es>>  OBVIOUS
    <2>3. v = <<>> \/ v = <<x>>  BY <2>1, <2>2, <1>7, <1>26
    <2>4. <<>> \in Seq({k1} \X Seq(EntrySet)) /\ <<x>> \in Seq({k1} \X Seq(EntrySet))  OBVIOUS
    <2> QED  BY <2>3, <2>4
  <1> HIDE DEF view
  <1>28. PICK res : res = Reply(e, "streams", v)  OBVIOUS
  <1>29. res.db = e /\ res.kind # "error"  BY <1>28 DEF Reply
  <1>30. Answers(r.method, res)  BY <1>27, <1>28, AnswersStreams
  <1>31. PICK s : s = Risk(r, res)  OBVIOUS
  <1>32. s = IF r.no_ack THEN {i \in Id : db.group.last < i /\ i <= l} ELSE {}
    <2>1. RiskedBy(r, res.db) = IF r.no_ack THEN {i \in Id : db.group.last < i /\ i <= res.db.group.last} ELSE {}
      BY DEF RiskedBy
    <2>2. res.db.group.last = l  BY <1>21, <1>24, <1>29
    <2> QED  BY <2>1, <2>2, <1>29, <1>31 DEF Risk
  <1>33. s \subseteq Id  BY <1>32
  <1>34. Accounted(e, settled \cup s)
    <2>1. e.entries[k1] = db.entries[k1] /\ e.group.last = l /\ e.group.pel = q /\ e.next = db.next
      BY <1>21, <1>24
    <2>2. e.group.exists = db.group.exists  BY <1>22, <1>24
    <2>3. e.entries[k1] \subseteq 1..(e.next - 1)  BY <2>1 DEF Accounted
    <2>4. e.next..e.group.last \subseteq settled
      <3>1. CASE l = db.group.last  BY <3>1, <2>1 DEF Accounted
      <3>2. CASE l # db.group.last
        <4>1. l \in T /\ m.ids[1] = New  BY <3>2, <1>8, <1>10, <1>13
        <4>2. l \in db.entries[k1]  BY <4>1, <1>6, <1>8, <1>10
        <4>3. l \in 1..(db.next - 1)  BY <4>2 DEF Accounted
        <4>4. db.next..l = {}  BY <4>3, <1>2, <1>4
        <4> QED  BY <4>4, <2>1
      <3> QED  BY <3>1, <3>2
    <2>5. ASSUME db.group.exists, NEW i \in db.entries[k1], i <= l
          PROVE  i \in DOMAIN q \cup (settled \cup s)
      <3>1. i \in Int /\ i \in Id /\ l \in Int /\ db.group.last \in Int  BY <1>2, <1>4, <1>14 DEF Id
      <3>2. CASE i <= db.group.last
        <4>1. i \in DOMAIN Pel \cup settled  BY <2>5, <3>2 DEF Accounted, Pel
        <4> QED  BY <4>1, <1>18
      <3>3. CASE i > db.group.last
        <4>1. m.ids[1] = New /\ t # <<>> /\ l = t[Len(t)]  BY <2>5, <3>1, <3>3, <1>13
        <4>2. i \in S  BY <4>1, <3>3, <1>6
        <4>3. i \in T
          <5> SUFFICES ASSUME i \notin T PROVE FALSE  OBVIOUS
          <5>1. i > l  BY <4>1, <4>2, <1>8, <1>10
          <5> QED  BY <5>1, <2>5, <3>1
        <4>4. CASE m.no_ack
          <5>1. i \in s  BY <4>4, <3>1, <3>3, <2>5, <1>32
          <5> QED  BY <5>1
        <4>5. CASE ~m.no_ack  BY <4>5, <4>3, <1>18
        <4> QED  BY <4>4, <4>5
      <3> QED  BY <3>1, <3>2, <3>3
    <2>6. e.group.exists => \A i \in e.entries[k1] : i <= e.group.last => i \in DOMAIN e.group.pel \cup (settled \cup s)
      BY <2>1, <2>2, <2>5
    <2> QED  BY <2>3, <2>4, <2>6, <1>24 DEF Accounted
  <1>35. Effect(r, res)  BY <1>29, <1>30, <1>31, <1>33, <1>34 DEF Effect
  <1> QED  BY <1>1, <1>25, <1>26, <1>28, <1>35

-----------------------------------------------------------------------------
(***************************************************************************)
(* Every request of every method: the server reads from the command what   *)
(* the request says, the method decodes the answer, and the server is      *)
(* accounted for afterwards.                                               *)
(***************************************************************************)
Served(r) ==
  LET m == Parse(Encode(r))
  IN /\ m = [f \in DOMAIN m |-> r[f]]
     /\ Answers(r.method, Serve(m))
     /\ (r.method = "xack" => ToSet(r.ids) \subseteq settled) => Effect(r, Serve(m))

LEMMA ServeCases ==
  ASSUME NEW m PROVE Serve(m) = Error \/ Serve(m) = Executed(m)
PROOF  BY DEF Serve

LEMMA ServedBy ==
  ASSUME Accounted(db, settled), NEW r, NEW m, m = Parse(Encode(r)), m = [f \in DOMAIN m |-> r[f]],
         Effect(r, Executed(m))
  PROVE  Served(r)
PROOF
  <1>1. Effect(r, Serve(m))
    <2>1. CASE Serve(m) = Error  BY <2>1, EffectError
    <2>2. CASE Serve(m) = Executed(m)  BY <2>2
    <2> QED  BY <2>1, <2>2, ServeCases
  <1>2. Answers(r.method, Serve(m))  BY <1>1 DEF Effect
  <1> QED  BY <1>1, <1>2 DEF Served

LEMMA CountOption ==
  ASSUME NEW o \in Count PROVE o \in Option(Nat)
PROOF
  <1>1. Nat \ {0} \subseteq Nat  OBVIOUS
  <1> QED  BY <1>1, OptionMono DEF Count

LEMMA ServedLen ==
  ASSUME Accounted(db, settled), NEW r \in [method : {"xlen"}, cmd : {"XLEN"}, key : {k1, k2}]
  PROVE  Served(r)
PROOF
  <1>1. PICK m : m = Parse(Encode(r))  OBVIOUS
  <1>2. m = [cmd |-> r.cmd, key |-> r.key]  BY <1>1, MeansLen
  <1>3. m = [f \in DOMAIN m |-> r[f]]  BY <1>2
  <1>4. m.cmd = "XLEN" /\ r.method = "xlen"  BY <1>2
  <1>5. r.method \notin Risky  BY <1>2 DEF Risky
  <1>6. Reads(r.method, m)  BY <1>4, <1>5, ReadsLen
  <1>7. Effect(r, Executed(m))  BY <1>4, <1>5, <1>6, EffectReads
  <1> QED  BY <1>1, <1>3, <1>7, ServedBy

LEMMA ServedInfoGroups ==
  ASSUME Accounted(db, settled), NEW r \in [method : {"xinfo_groups"}, cmd : {"XINFO_GROUPS"}, key : {k1}]
  PROVE  Served(r)
PROOF
  <1>1. PICK m : m = Parse(Encode(r))  OBVIOUS
  <1>2. m = [cmd |-> r.cmd, key |-> r.key]  BY <1>1, MeansInfoGroups
  <1>3. m = [f \in DOMAIN m |-> r[f]]  BY <1>2
  <1>4. m.cmd = "XINFO_GROUPS" /\ r.method = "xinfo_groups"  BY <1>2
  <1>5. r.method \notin Risky  BY <1>2 DEF Risky
  <1>6. Reads(r.method, m)  BY <1>4, <1>5, ReadsInfoGroups
  <1>7. Effect(r, Executed(m))  BY <1>4, <1>5, <1>6, EffectReads
  <1> QED  BY <1>1, <1>3, <1>7, ServedBy

LEMMA ServedDel ==
  ASSUME Accounted(db, settled), NEW r \in [method : {"xdel"}, cmd : {"XDEL"}, key : {k1}, ids : Seq(Nat)]
  PROVE  Served(r)
PROOF
  <1>1. PICK m : m = Parse(Encode(r))  OBVIOUS
  <1>2. m = [cmd |-> r.cmd, key |-> r.key, ids |-> r.ids]  BY <1>1, MeansDel
  <1>3. m = [f \in DOMAIN m |-> r[f]]  BY <1>2
  <1>4. m.cmd = "XDEL" /\ r.method = "xdel"  BY <1>2
  <1>5. PICK S : S = ToSet(m.ids)  OBVIOUS
  <1>6. Executed(m) = Deleted(S)  BY <1>4, <1>5 DEF Executed
  <1>7. Effect(r, Deleted(S))  BY <1>4, EffectDeleted
  <1>8. Effect(r, Executed(m))  BY <1>6, <1>7
  <1> QED  BY <1>1, <1>3, <1>8, ServedBy

LEMMA ServedRange ==
  ASSUME Accounted(db, settled), NEW r \in RangeSet("xrange", "XRANGE")
  PROVE  Served(r)
PROOF
  <1>1. PICK m : m = Parse(Encode(r))  OBVIOUS
  <1>2. m = [cmd |-> r.cmd, key |-> r.key, start |-> r.start, end |-> r.end]  BY <1>1, MeansRange
  <1>3. m = [f \in DOMAIN m |-> r[f]]  BY <1>2
  <1>4. m.cmd = "XRANGE" /\ r.method = "xrange"  BY <1>2 DEF RangeSet
  <1>5. db \in DbSet  BY <1>2 DEF Accounted
  <1>6. r.method \notin Risky  BY <1>2 DEF RangeSet, Risky
  <1>7. Reads(r.method, m)  BY <1>4, <1>5, <1>6, ReadsRange
  <1>8. Effect(r, Executed(m))  BY <1>4, <1>5, <1>6, <1>7, EffectReads
  <1> QED  BY <1>1, <1>3, <1>8, ServedBy

LEMMA ServedRevRange ==
  ASSUME Accounted(db, settled), NEW r \in RangeSet("xrevrange", "XREVRANGE")
  PROVE  Served(r)
PROOF
  <1>1. PICK m : m = Parse(Encode(r))  OBVIOUS
  <1>2. m = [cmd |-> r.cmd, key |-> r.key, end |-> r.end, start |-> r.start]  BY <1>1, MeansRevRange
  <1>3. m = [f \in DOMAIN m |-> r[f]]  BY <1>2
  <1>4. m.cmd = "XREVRANGE" /\ r.method = "xrevrange"  BY <1>2 DEF RangeSet
  <1>5. db \in DbSet  BY <1>2 DEF Accounted
  <1>6. r.method \notin Risky  BY <1>2 DEF RangeSet, Risky
  <1>7. Reads(r.method, m)  BY <1>4, <1>5, <1>6, ReadsRange
  <1>8. Effect(r, Executed(m))  BY <1>4, <1>5, <1>6, <1>7, EffectReads
  <1> QED  BY <1>1, <1>3, <1>8, ServedBy

LEMMA ServedCreate ==
  ASSUME Accounted(db, settled), NEW r \in CreateSet("xgroup_create", {None})
  PROVE  Served(r)
PROOF
  <1>1. PICK m : m = Parse(Encode(r))  OBVIOUS
  <1>2. m = [cmd |-> r.cmd, key |-> r.key, group |-> r.group, id |-> r.id, make_stream |-> r.make_stream,
            entries_read |-> r.entries_read]  BY <1>1, MeansCreate
  <1>3. m = [f \in DOMAIN m |-> r[f]]  BY <1>2
  <1>4. m.cmd = "XGROUP_CREATE" /\ r.method = "xgroup_create" /\ r.id \in 0..MaxId /\ m.id = r.id  BY <1>2 DEF CreateSet
  <1>5. Effect(r, Executed(m))  BY <1>4, EffectCreate
  <1> QED  BY <1>1, <1>3, <1>5, ServedBy

LEMMA ServedCreateOptions ==
  ASSUME Accounted(db, settled), NEW r \in CreateSet("xgroup_create_options", Option(Nat))
  PROVE  Served(r)
PROOF
  <1>1. PICK m : m = Parse(Encode(r))  OBVIOUS
  <1>2. m = [cmd |-> r.cmd, key |-> r.key, group |-> r.group, id |-> r.id, make_stream |-> r.make_stream,
            entries_read |-> r.entries_read]  BY <1>1, MeansCreateOptions
  <1>3. m = [f \in DOMAIN m |-> r[f]]  BY <1>2
  <1>4. m.cmd = "XGROUP_CREATE" /\ r.method = "xgroup_create_options" /\ r.id \in 0..MaxId /\ m.id = r.id  BY <1>2 DEF CreateSet
  <1>5. Effect(r, Executed(m))  BY <1>4, EffectCreate
  <1> QED  BY <1>1, <1>3, <1>5, ServedBy

LEMMA ServedDestroy ==
  ASSUME Accounted(db, settled), NEW r \in [method : {"xgroup_destroy"}, cmd : {"XGROUP_DESTROY"}, key : {k1}, group : {g}]
  PROVE  Served(r)
PROOF
  <1>1. PICK m : m = Parse(Encode(r))  OBVIOUS
  <1>2. m = [cmd |-> r.cmd, key |-> r.key, group |-> r.group]  BY <1>1, MeansDestroy
  <1>3. m = [f \in DOMAIN m |-> r[f]]  BY <1>2
  <1>4. m.cmd = "XGROUP_DESTROY" /\ r.method = "xgroup_destroy"  BY <1>2
  <1>5. Effect(r, Executed(m))  BY <1>4, EffectDestroy
  <1> QED  BY <1>1, <1>3, <1>5, ServedBy

LEMMA ServedCreateConsumer ==
  ASSUME Accounted(db, settled), NEW r \in ConsumerSet("xgroup_create_consumer", "XGROUP_CREATECONSUMER")
  PROVE  Served(r)
PROOF
  <1>1. PICK m : m = Parse(Encode(r))  OBVIOUS
  <1>2. m = [cmd |-> r.cmd, key |-> r.key, group |-> r.group, consumer |-> r.consumer]  BY <1>1, MeansCreateConsumer
  <1>3. m = [f \in DOMAIN m |-> r[f]]  BY <1>2
  <1>4. m.cmd = "XGROUP_CREATECONSUMER" /\ r.method = "xgroup_create_consumer" /\ m.consumer \in Consumer  BY <1>2 DEF ConsumerSet
  <1>5. Effect(r, Executed(m))  BY <1>4, EffectCreateConsumer
  <1> QED  BY <1>1, <1>3, <1>5, ServedBy

LEMMA ServedDelConsumer ==
  ASSUME Accounted(db, settled), NEW r \in ConsumerSet("xgroup_del_consumer", "XGROUP_DELCONSUMER")
  PROVE  Served(r)
PROOF
  <1>1. PICK m : m = Parse(Encode(r))  OBVIOUS
  <1>2. m = [cmd |-> r.cmd, key |-> r.key, group |-> r.group, consumer |-> r.consumer]  BY <1>1, MeansDelConsumer
  <1>3. m = [f \in DOMAIN m |-> r[f]]  BY <1>2
  <1>4. m.cmd = "XGROUP_DELCONSUMER" /\ r.method = "xgroup_del_consumer" /\ m.consumer = r.consumer  BY <1>2 DEF ConsumerSet
  <1>5. Effect(r, Executed(m))  BY <1>4, EffectDelConsumer
  <1> QED  BY <1>1, <1>3, <1>5, ServedBy

LEMMA ServedGroupSetId ==
  ASSUME Accounted(db, settled), NEW r \in [method : {"xgroup_set_id"}, cmd : {"XGROUP_SETID"}, key : {k1}, group : {g}, id : 0..MaxId,
                entries_read : Option(Nat)]
  PROVE  Served(r)
PROOF
  <1>1. PICK m : m = Parse(Encode(r))  OBVIOUS
  <1>2. m = [cmd |-> r.cmd, key |-> r.key, group |-> r.group, id |-> r.id, entries_read |-> r.entries_read]  BY <1>1, MeansGroupSetId
  <1>3. m = [f \in DOMAIN m |-> r[f]]  BY <1>2
  <1>4. m.cmd = "XGROUP_SETID" /\ r.method = "xgroup_set_id" /\ r.id \in 0..MaxId /\ m.id = r.id  BY <1>2
  <1>5. Effect(r, Executed(m))  BY <1>4, EffectGroupSetId
  <1> QED  BY <1>1, <1>3, <1>5, ServedBy

LEMMA ServedSetId ==
  ASSUME Accounted(db, settled), NEW r \in [method : {"xsetid"}, cmd : {"XSETID"}, key : {k1}, id : 0..MaxId, entries_added : Option(Nat),
                max_deleted_id : Option(Nat)]
  PROVE  Served(r)
PROOF
  <1>1. PICK m : m = Parse(Encode(r))  OBVIOUS
  <1>2. m = [cmd |-> r.cmd, key |-> r.key, id |-> r.id, entries_added |-> r.entries_added,
            max_deleted_id |-> r.max_deleted_id]  BY <1>1, MeansSetId
  <1>3. m = [f \in DOMAIN m |-> r[f]]  BY <1>2
  <1>4. m.cmd = "XSETID" /\ r.method = "xsetid" /\ r.id \in 0..MaxId /\ m.id = r.id  BY <1>2
  <1>5. Effect(r, Executed(m))  BY <1>4, EffectSetId
  <1> QED  BY <1>1, <1>3, <1>5, ServedBy

LEMMA ServedPending ==
  ASSUME Accounted(db, settled), NEW r \in [method : {"xpending"}, cmd : {"XPENDING"}, key : {k1}, group : {g}]
  PROVE  Served(r)
PROOF
  <1>1. PICK m : m = Parse(Encode(r))  OBVIOUS
  <1>2. m = [cmd |-> r.cmd, key |-> r.key, group |-> r.group]  BY <1>1, MeansPending
  <1>3. m = [f \in DOMAIN m |-> r[f]]  BY <1>2
  <1>4. m.cmd = "XPENDING" /\ r.method = "xpending" /\ "start" \notin DOMAIN m  BY <1>2
  <1>5. db \in DbSet  BY <1>2 DEF Accounted
  <1>6. r.method \notin Risky  BY <1>2 DEF Risky
  <1>7. Reads(r.method, m)  BY <1>4, <1>5, <1>6, ReadsPending
  <1>8. Effect(r, Executed(m))  BY <1>4, <1>5, <1>6, <1>7, EffectReads
  <1> QED  BY <1>1, <1>3, <1>8, ServedBy

LEMMA ServedInfoConsumers ==
  ASSUME Accounted(db, settled), NEW r \in [method : {"xinfo_consumers"}, cmd : {"XINFO_CONSUMERS"}, key : {k1}, group : {g}]
  PROVE  Served(r)
PROOF
  <1>1. PICK m : m = Parse(Encode(r))  OBVIOUS
  <1>2. m = [cmd |-> r.cmd, key |-> r.key, group |-> r.group]  BY <1>1, MeansInfoConsumers
  <1>3. m = [f \in DOMAIN m |-> r[f]]  BY <1>2
  <1>4. m.cmd = "XINFO_CONSUMERS" /\ r.method = "xinfo_consumers"  BY <1>2
  <1>5. r.method \notin Risky  BY <1>2 DEF Risky
  <1>6. Reads(r.method, m)  BY <1>4, <1>5, ReadsInfoConsumers
  <1>7. Effect(r, Executed(m))  BY <1>4, <1>5, <1>6, EffectReads
  <1> QED  BY <1>1, <1>3, <1>7, ServedBy

LEMMA ServedInfoStream ==
  ASSUME Accounted(db, settled), NEW r \in InfoSet("xinfo_stream", FALSE, {None})
  PROVE  Served(r)
PROOF
  <1>1. PICK m : m = Parse(Encode(r))  OBVIOUS
  <1>2. m = [cmd |-> r.cmd, key |-> r.key, full |-> r.full, count |-> r.count]  BY <1>1, MeansInfoStream
  <1>3. m = [f \in DOMAIN m |-> r[f]]  BY <1>2
  <1>4. m.cmd = "XINFO_STREAM" /\ r.method = "xinfo_stream"  BY <1>2 DEF InfoSet
  <1>5. r.method \notin Risky  BY <1>2 DEF InfoSet, Risky
  <1>6. Reads(r.method, m)  BY <1>4, <1>5, ReadsInfoStream
  <1>7. Effect(r, Executed(m))  BY <1>4, <1>5, <1>6, EffectReads
  <1> QED  BY <1>1, <1>3, <1>7, ServedBy

LEMMA ServedInfoStreamFull ==
  ASSUME Accounted(db, settled), NEW r \in InfoSet("xinfo_stream_full", TRUE, Option(Nat))
  PROVE  Served(r)
PROOF
  <1>1. PICK m : m = Parse(Encode(r))  OBVIOUS
  <1>2. m = [cmd |-> r.cmd, key |-> r.key, full |-> r.full, count |-> r.count]  BY <1>1, MeansInfoStreamFull
  <1>3. m = [f \in DOMAIN m |-> r[f]]  BY <1>2
  <1>4. m.cmd = "XINFO_STREAM" /\ r.method = "xinfo_stream_full"  BY <1>2 DEF InfoSet
  <1>5. r.method \notin Risky  BY <1>2 DEF InfoSet, Risky
  <1>6. Reads(r.method, m)  BY <1>4, <1>5, ReadsInfoStream
  <1>7. Effect(r, Executed(m))  BY <1>4, <1>5, <1>6, EffectReads
  <1> QED  BY <1>1, <1>3, <1>7, ServedBy

LEMMA ServedClaim ==
  ASSUME Accounted(db, settled), old \in BOOLEAN, NEW r \in ClaimSet("xclaim", FALSE) \cup ClaimSet("xclaim_justid", TRUE)
  PROVE  Served(r)
PROOF
  <1>1. PICK m : m = Parse(Encode(r))  OBVIOUS
  <1>2. m = [cmd |-> r.cmd, key |-> r.key, group |-> r.group, consumer |-> r.consumer, min_idle |-> r.min_idle,
            ids |-> r.ids, idle |-> r.idle, idle_unix_time |-> r.idle_unix_time,
            justid |-> r.justid, retry_count |-> r.retry_count, is_force |-> r.is_force]  BY <1>1, MeansClaim
  <1>3. m = [f \in DOMAIN m |-> r[f]]  BY <1>2
  <1>4. m.cmd = "XCLAIM" /\ m.consumer \in Consumer /\ m.idle \in Option(0..1) /\ m.retry_count \in Option(Nat)  BY <1>2 DEF ClaimSet
  <1>5. (r.method = "xclaim" /\ m.justid = FALSE) \/ (r.method = "xclaim_justid" /\ m.justid = TRUE)  BY <1>2 DEF ClaimSet
  <1>6. Effect(r, Executed(m))  BY <1>4, <1>5, EffectClaim
  <1> QED  BY <1>1, <1>3, <1>6, ServedBy

LEMMA ServedAutoClaim ==
  ASSUME Accounted(db, settled), old \in BOOLEAN, NEW r \in AutoClaimSet("xautoclaim", FALSE) \cup AutoClaimSet("xautoclaim_justid", TRUE)
  PROVE  Served(r)
PROOF
  <1>1. PICK m : m = Parse(Encode(r))  OBVIOUS
  <1>2. m = [cmd |-> r.cmd, key |-> r.key, group |-> r.group, consumer |-> r.consumer, min_idle |-> r.min_idle,
            start |-> r.start, count |-> r.count, justid |-> r.justid]  BY <1>1, MeansAutoClaim
  <1>3. m = [f \in DOMAIN m |-> r[f]]  BY <1>2
  <1>4. m.cmd = "XAUTOCLAIM" /\ m.consumer \in Consumer /\ m.count \in Count  BY <1>2 DEF AutoClaimSet
  <1>5. m.count \in Option(Nat)  BY <1>2, <1>4, CountOption
  <1>6. (r.method = "xautoclaim" /\ m.justid = FALSE) \/ (r.method = "xautoclaim_justid" /\ m.justid = TRUE)  BY <1>2 DEF AutoClaimSet
  <1>7. Effect(r, Executed(m))  BY <1>4, <1>5, <1>6, EffectAutoClaim
  <1> QED  BY <1>1, <1>3, <1>7, ServedBy

LEMMA ServedTrim ==
  ASSUME Accounted(db, settled), NEW r \in TrimCallSet("xtrim_maxlen", "MAXLEN") \cup TrimCallSet("xtrim_minid", "MINID")
  PROVE  Served(r)
PROOF
  <1>1. PICK m : m = Parse(Encode(r))  OBVIOUS
  <1>2. m = [cmd |-> r.cmd, key |-> r.key, trim |-> r.trim]  BY <1>1, MeansTrim
  <1>3. m = [f \in DOMAIN m |-> r[f]]  BY <1>2
  <1>4. m.cmd = "XTRIM" /\ r.method \in {"xdel", "xtrim_maxlen", "xtrim_minid"}  BY <1>2 DEF TrimCallSet
  <1>5. PICK S : S = db.entries[k1] \ Trimmed(db.entries[k1], m.trim[1])  OBVIOUS
  <1>6. Executed(m) = Deleted(S)  BY <1>4, <1>5 DEF Executed
  <1>7. Effect(r, Deleted(S))  BY <1>4, EffectDeleted
  <1>8. Effect(r, Executed(m))  BY <1>6, <1>7
  <1> QED  BY <1>1, <1>3, <1>8, ServedBy

LEMMA ServedRead ==
  ASSUME Accounted(db, settled), NEW r \in ReadSet
  PROVE  Served(r)
PROOF
  <1>1. PICK m : m = Parse(Encode(r))  OBVIOUS
  <1>2. m = [cmd |-> r.cmd, keys |-> r.keys, ids |-> r.ids, count |-> r.count, block_ms |-> r.block_ms]  BY <1>1, MeansRead
  <1>3. m = [f \in DOMAIN m |-> r[f]]  BY <1>2
  <1>4. m.cmd = "XREAD" /\ r.method = "xread" /\ m.keys \in Seq({k1, k2}) /\ m.count \in Count  BY <1>2 DEF ReadSet
  <1>5. m.count \in Option(Nat)  BY <1>2, <1>4, CountOption
  <1>6. db \in DbSet  BY <1>2 DEF Accounted
  <1>7. r.method \notin Risky  BY <1>2 DEF ReadSet, Risky
  <1>8. Reads(r.method, m)  BY <1>4, <1>5, <1>6, <1>7, ReadsRead
  <1>9. Effect(r, Executed(m))  BY <1>4, <1>5, <1>6, <1>7, <1>8, EffectReads
  <1> QED  BY <1>1, <1>3, <1>9, ServedBy

LEMMA ServedReadGroup ==
  ASSUME Accounted(db, settled), NEW r \in ReadGroupSet
  PROVE  Served(r)
PROOF
  <1>1. PICK m : m = Parse(Encode(r))  OBVIOUS
  <1>2. m = [cmd |-> r.cmd, keys |-> r.keys, ids |-> r.ids, group |-> r.group, consumer |-> r.consumer,
            count |-> r.count, block_ms |-> r.block_ms, no_ack |-> r.no_ack]  BY <1>1, MeansReadGroup
  <1>3. m = [f \in DOMAIN m |-> r[f]]  BY <1>2
  <1>4. m.cmd = "XREADGROUP" /\ r.method = "xreadgroup" /\ m.consumer \in Consumer /\ m.count \in Count  BY <1>2 DEF ReadGroupSet
  <1>5. m.count \in Option(Nat)  BY <1>2, <1>4, CountOption
  <1>6. m.no_ack \in BOOLEAN  BY <1>2 DEF ReadGroupSet
  <1>7. m.no_ack = r.no_ack  BY <1>2
  <1>8. Effect(r, Executed(m))  BY <1>4, <1>5, <1>6, <1>7, EffectReadGroup
  <1> QED  BY <1>1, <1>3, <1>8, ServedBy

LEMMA ServedPendingRange ==
  ASSUME Accounted(db, settled), NEW r \in PendingRangeSet
  PROVE  Served(r)
PROOF
  <1>1. PICK m : m = Parse(Encode(r))  OBVIOUS
  <1>2. m = [cmd |-> r.cmd, key |-> r.key, group |-> r.group, idle |-> r.idle, start |-> r.start,
            end |-> r.end, count |-> r.count, consumer |-> r.consumer]  BY <1>1, MeansPendingRange
  <1>3. m = [f \in DOMAIN m |-> r[f]]  BY <1>2
  <1>4. m.cmd = "XPENDING" /\ r.method = "xpending_range" /\ "start" \in DOMAIN m /\ m.count \in Nat  BY <1>2 DEF PendingRangeSet
  <1>5. db \in DbSet  BY <1>2 DEF Accounted
  <1>6. r.method \notin Risky  BY <1>2 DEF PendingRangeSet, Risky
  <1>7. Reads(r.method, m)  BY <1>4, <1>5, <1>6, ReadsPendingRange
  <1>8. Effect(r, Executed(m))  BY <1>4, <1>5, <1>6, <1>7, EffectReads
  <1> QED  BY <1>1, <1>3, <1>8, ServedBy

LEMMA ServedAdd ==
  ASSUME Accounted(db, settled), NEW r \in AddSet("xadd", {TRUE}, {None})
  PROVE  Served(r)
PROOF
  <1>1. PICK m : m = Parse(Encode(r))  OBVIOUS
  <1>2. m = [cmd |-> r.cmd, key |-> r.key, id |-> r.id, fields |-> r.fields, make_stream |-> r.make_stream,
            trim |-> r.trim]  BY <1>1, MeansAdd
  <1>3. m = [f \in DOMAIN m |-> r[f]]  BY <1>2
  <1>4. m.cmd = "XADD" /\ r.method = "xadd" /\ m.trim = None  BY <1>2 DEF AddSet
  <1>5. m.make_stream \in BOOLEAN  BY <1>2 DEF AddSet
  <1>6. Effect(r, Executed(m))  BY <1>4, <1>5, EffectAdd
  <1> QED  BY <1>1, <1>3, <1>6, ServedBy

LEMMA ServedAddOptions ==
  ASSUME Accounted(db, settled), NEW r \in AddSet("xadd_options", BOOLEAN, Option(TrimSet({"MAXLEN", "MINID"}, Option(Nat))))
  PROVE  Served(r)
PROOF
  <1>1. PICK m : m = Parse(Encode(r))  OBVIOUS
  <1>2. m = [cmd |-> r.cmd, key |-> r.key, id |-> r.id, fields |-> r.fields, make_stream |-> r.make_stream,
            trim |-> r.trim]  BY <1>1, MeansAddOptions
  <1>3. m = [f \in DOMAIN m |-> r[f]]  BY <1>2
  <1>4. m.cmd = "XADD" /\ r.method = "xadd_options"  BY <1>2 DEF AddSet
  <1>5. m.trim \in Option(TrimSet({"MAXLEN", "MINID"}, Option(Nat)))  BY <1>2 DEF AddSet
  <1>6. m.make_stream \in BOOLEAN  BY <1>2 DEF AddSet
  <1>7. m.trim = None \/ (m.trim[1].exact \in BOOLEAN /\ m.trim[1].strategy \in {"MAXLEN", "MINID"})
    <2>1. PICK T : T = TrimSet({"MAXLEN", "MINID"}, Option(Nat))  OBVIOUS
    <2>2. m.trim = <<>> \/ m.trim[1] \in T  BY <2>1, <1>5 DEF Option
    <2>3. \A x \in T : x.exact \in BOOLEAN  BY <2>1 DEF TrimSet
    <2>4. \A x \in T : x.strategy \in {"MAXLEN", "MINID"}  BY <2>1 DEF TrimSet
    <2> QED  BY <2>2, <2>3, <2>4 DEF None
  <1>8. Effect(r, Executed(m))  BY <1>4, <1>5, <1>6, <1>7, EffectAdd
  <1> QED  BY <1>1, <1>3, <1>8, ServedBy

LEMMA ServedAck ==
  ASSUME Accounted(db, settled), NEW r \in [method : {"xack"}, cmd : {"XACK"}, key : {k1}, group : {g}, ids : Seq(Nat)]
  PROVE  Served(r)
PROOF
  <1>1. PICK m : m = Parse(Encode(r))  OBVIOUS
  <1>2. m = [cmd |-> r.cmd, key |-> r.key, group |-> r.group, ids |-> r.ids]  BY <1>1, MeansAck
  <1>3. m = [f \in DOMAIN m |-> r[f]]  BY <1>2
  <1>4. m.cmd = "XACK" /\ r.method = "xack" /\ m.ids = r.ids  BY <1>2
  <1>5. (r.method = "xack" => ToSet(r.ids) \subseteq settled) => Effect(r, Executed(m))  BY <1>4, EffectAck
  <1>6. Answers(r.method, Executed(m))
    <2>1. PICK d, n : d = WithPel(Without(Pel, ToSet(m.ids))) /\ n = Cardinality(ToSet(m.ids) \cap DOMAIN Pel)
      OBVIOUS
    <2>2. Executed(m) = Reply(d, "int", n)  BY <2>1, <1>4 DEF Executed
    <2>3. Answers("xack", Reply(d, "int", n))  BY AnswersInt
    <2> QED  BY <2>2, <2>3, <1>4
  <1>7. Answers(r.method, Serve(m)) /\
        ((r.method = "xack" => ToSet(r.ids) \subseteq settled) => Effect(r, Serve(m)))
    <2>1. CASE Serve(m) = Error  BY <2>1, EffectError, AnswersError
    <2>2. CASE Serve(m) = Executed(m)  BY <2>2, <1>5, <1>6
    <2> QED  BY <2>1, <2>2, ServeCases
  <1> QED  BY <1>1, <1>3, <1>7 DEF Served

LEMMA ServedAll ==
  ASSUME Accounted(db, settled), old \in BOOLEAN, NEW r \in StreamRequest
  PROVE  Served(r)
PROOF
  <1>1. CASE r \in AddSet("xadd", {TRUE}, {None})  BY <1>1, ServedAdd
  <1>2. CASE r \in AddSet("xadd_options", BOOLEAN, Option(TrimSet({"MAXLEN", "MINID"}, Option(Nat))))  BY <1>2, ServedAddOptions
  <1>3. CASE r \in [method : {"xlen"}, cmd : {"XLEN"}, key : {k1, k2}]  BY <1>3, ServedLen
  <1>4. CASE r \in [method : {"xdel"}, cmd : {"XDEL"}, key : {k1}, ids : Seq(Nat)]  BY <1>4, ServedDel
  <1>5. CASE r \in (TrimCallSet("xtrim_maxlen", "MAXLEN") \cup TrimCallSet("xtrim_minid", "MINID"))  BY <1>5, ServedTrim
  <1>6. CASE r \in RangeSet("xrange", "XRANGE")  BY <1>6, ServedRange
  <1>7. CASE r \in RangeSet("xrevrange", "XREVRANGE")  BY <1>7, ServedRevRange
  <1>8. CASE r \in ReadSet  BY <1>8, ServedRead
  <1>9. CASE r \in ReadGroupSet  BY <1>9, ServedReadGroup
  <1>10. CASE r \in CreateSet("xgroup_create", {None})  BY <1>10, ServedCreate
  <1>11. CASE r \in CreateSet("xgroup_create_options", Option(Nat))  BY <1>11, ServedCreateOptions
  <1>12. CASE r \in [method : {"xgroup_destroy"}, cmd : {"XGROUP_DESTROY"}, key : {k1}, group : {g}]  BY <1>12, ServedDestroy
  <1>13. CASE r \in ConsumerSet("xgroup_create_consumer", "XGROUP_CREATECONSUMER")  BY <1>13, ServedCreateConsumer
  <1>14. CASE r \in ConsumerSet("xgroup_del_consumer", "XGROUP_DELCONSUMER")  BY <1>14, ServedDelConsumer
  <1>15. CASE r \in [method : {"xgroup_set_id"}, cmd : {"XGROUP_SETID"}, key : {k1}, group : {g}, id : 0..MaxId,
                    entries_read : Option(Nat)]  BY <1>15, ServedGroupSetId
  <1>16. CASE r \in [method : {"xsetid"}, cmd : {"XSETID"}, key : {k1}, id : 0..MaxId, entries_added : Option(Nat),
                    max_deleted_id : Option(Nat)]  BY <1>16, ServedSetId
  <1>17. CASE r \in [method : {"xack"}, cmd : {"XACK"}, key : {k1}, group : {g}, ids : Seq(Nat)]  BY <1>17, ServedAck
  <1>18. CASE r \in (ClaimSet("xclaim", FALSE) \cup ClaimSet("xclaim_justid", TRUE))  BY <1>18, ServedClaim
  <1>19. CASE r \in (AutoClaimSet("xautoclaim", FALSE) \cup AutoClaimSet("xautoclaim_justid", TRUE))  BY <1>19, ServedAutoClaim
  <1>20. CASE r \in [method : {"xpending"}, cmd : {"XPENDING"}, key : {k1}, group : {g}]  BY <1>20, ServedPending
  <1>21. CASE r \in PendingRangeSet  BY <1>21, ServedPendingRange
  <1>22. CASE r \in InfoSet("xinfo_stream", FALSE, {None})  BY <1>22, ServedInfoStream
  <1>23. CASE r \in InfoSet("xinfo_stream_full", TRUE, Option(Nat))  BY <1>23, ServedInfoStreamFull
  <1>24. CASE r \in [method : {"xinfo_groups"}, cmd : {"XINFO_GROUPS"}, key : {k1}]  BY <1>24, ServedInfoGroups
  <1>25. CASE r \in [method : {"xinfo_consumers"}, cmd : {"XINFO_CONSUMERS"}, key : {k1}, group : {g}]  BY <1>25, ServedInfoConsumers
  <1> QED  BY <1>1, <1>2, <1>3, <1>4, <1>5, <1>6, <1>7, <1>8, <1>9, <1>10, <1>11, <1>12, <1>13, <1>14,
               <1>15, <1>16, <1>17, <1>18, <1>19, <1>20, <1>21, <1>22, <1>23, <1>24, <1>25 DEF StreamRequest

LEMMA PagesAreRequests ==
  ASSUME NEW c \in Consumer, NEW n \in 0..MaxId, NEW b \in BOOLEAN
  PROVE  /\ Page(c, n, b) \in AutoClaimSet("xautoclaim", FALSE) \cup AutoClaimSet("xautoclaim_justid", TRUE)
         /\ Page(c, n, b) \in StreamRequest
PROOF
  <1>1. n \in Nat  BY StreamsAssumption
  <1>2. Some(1) \in Count
    <2>1. 1 \in Nat \ {0}  OBVIOUS
    <2>2. PICK S : S = Nat \ {0}  OBVIOUS
    <2>3. <<1>> \in Seq(S) /\ Len(<<1>>) = 1  BY <2>1, <2>2
    <2> QED  BY <2>2, <2>3 DEF Count, Option, Some
  <1>3. Page(c, n, TRUE) \in AutoClaimSet("xautoclaim_justid", TRUE)  BY <1>1, <1>2 DEF Page, AutoClaimSet
  <1>4. Page(c, n, FALSE) \in AutoClaimSet("xautoclaim", FALSE)  BY <1>1, <1>2 DEF Page, AutoClaimSet
  <1>5. b = TRUE \/ b = FALSE  OBVIOUS
  <1>6. Page(c, n, b) \in AutoClaimSet("xautoclaim", FALSE) \cup AutoClaimSet("xautoclaim_justid", TRUE)
    BY <1>3, <1>4, <1>5
  <1> QED  BY <1>6 DEF StreamRequest

LEMMA RequestsTyped ==
  AllRequests \subseteq StreamRequest
PROOF
  <1> SUFFICES ASSUME NEW r \in AllRequests PROVE r \in StreamRequest  OBVIOUS
  <1> DEFINE A == UNION {Requests[c] : c \in Consumer}
             B == {Page(c, n, b) : c \in Sweeper, n \in 0..MaxId, b \in BOOLEAN}
  <1>1. AllRequests = Queries \cup A \cup B  BY DEF AllRequests
  <1>2. CASE r \in Queries  BY <1>2, StreamsAssumption
  <1>3. CASE r \in A
    <2>1. PICK c \in Consumer : r \in Requests[c]  BY <1>3
    <2>2. Requests[c] \in SUBSET StreamRequest  BY StreamsAssumption
    <2> QED  BY <2>1, <2>2
  <1>4. CASE r \in B
    <2>1. PICK c \in Sweeper, n \in 0..MaxId, b \in BOOLEAN : r = Page(c, n, b)  BY <1>4
    <2>2. c \in Consumer  BY StreamsAssumption
    <2>3. Page(c, n, b) \in StreamRequest  BY <2>2, PagesAreRequests
    <2> QED  BY <2>1, <2>3
  <1> HIDE DEF A, B
  <1> QED  BY <1>2, <1>3, <1>4, <1>1

(* The page of a sweep, when it is served. *)
LEMMA PageServed ==
  ASSUME Accounted(db, settled), old \in BOOLEAN, NEW c \in Consumer, NEW n \in 0..MaxId, NEW b \in BOOLEAN,
         NEW m, m = Parse(Encode(Page(c, n, b))), Serve(m).kind # "error"
  PROVE  /\ Serve(m).view[1] \in 0..MaxId
         /\ \A i \in DOMAIN Pel \cap DOMAIN Serve(m).db.group.pel :
              (i >= n /\ Pel[i].idle >= 1 /\ Serve(m).db.group.pel[i].owner # c)
                => Serve(m).view[1] # 0 /\ i >= Serve(m).view[1]
PROOF
  <1>1. PICK r : r = Page(c, n, b)  OBVIOUS
  <1>2. r \in AutoClaimSet("xautoclaim", FALSE) \cup AutoClaimSet("xautoclaim_justid", TRUE)
    BY <1>1, PagesAreRequests
  <1>3. m = [cmd |-> r.cmd, key |-> r.key, group |-> r.group, consumer |-> r.consumer,
             min_idle |-> r.min_idle, start |-> r.start, count |-> r.count, justid |-> r.justid]
    BY <1>1, <1>2, MeansAutoClaim
  <1>4. m.cmd = "XAUTOCLAIM" /\ m.consumer \in Consumer /\ m.count \in Count
    <2>1. r.cmd = "XAUTOCLAIM" /\ r.consumer \in Consumer /\ r.count \in Count  BY <1>2 DEF AutoClaimSet
    <2> QED  BY <2>1, <1>3
  <1>5. m.count \in Option(Nat)  BY <1>4, CountOption
  <1>6. (r.method = "xautoclaim" /\ m.justid = FALSE) \/ (r.method = "xautoclaim_justid" /\ m.justid = TRUE)
    <2>1. \/ r.method = "xautoclaim" /\ r.justid = FALSE
          \/ r.method = "xautoclaim_justid" /\ r.justid = TRUE
      BY <1>2 DEF AutoClaimSet
    <2> QED  BY <2>1, <1>3
  <1>7. Paged(m, Executed(m))  BY <1>4, <1>5, <1>6, EffectAutoClaim
  <1>8. Serve(m) = Executed(m)
    <2>1. Error.kind = "error"  BY DEF Error, Reply
    <2> QED  BY <2>1, ServeCases
  <1>9. m.consumer = c /\ m.start = n /\ m.min_idle = 1 /\ m.count = Some(1)  BY <1>1, <1>3 DEF Page
  <1> QED  BY <1>7, <1>8, <1>9 DEF Paged

-----------------------------------------------------------------------------
(* The initial state, and each kind of step. *)
LEMMA InitIInv == Init => IInv
PROOF
  <1> SUFFICES ASSUME Init PROVE IInv  OBVIOUS
  <1>1. MaxId \in Nat \ {0}  BY StreamsAssumption
  <1>2. old \in BOOLEAN /\ settled \subseteq Id  BY DEF Init
  <1>3. NoSweep \in SweepSet /\ NoSweep.phase = "off"  BY <1>1 DEF NoSweep, SweepSet
  <1>4. sweep \in [Consumer -> SweepSet] /\ \A c \in Consumer : sweep[c].phase = "off"  BY <1>3 DEF Init
  <1>5. Swept(sweep, Pel)  BY <1>4 DEF Swept, SweptFor
  <1>6. PICK gr \in GroupSet : gr = NoGroup  BY NoGroupTyped
  <1>7. gr.last = 0 /\ gr.exists = FALSE  BY <1>6, NoGroupTyped
  <1>8. PICK es : es = [k \in {k1, k2} |-> IF k = k1 THEN {} ELSE {1}]  OBVIOUS
  <1>9. es \in [{k1, k2} -> SUBSET Id] /\ es[k1] = {}  BY <1>1, <1>8 DEF Id
  <1>10. db = [next |-> 1, entries |-> es, exists |-> FALSE, group |-> gr]  BY <1>6, <1>8 DEF Init, EmptyDb
  <1>11. 1 \in 1..(MaxId + 1)  BY <1>1
  <1>12. db \in DbSet  BY <1>9, <1>10, <1>11 DEF DbSet
  <1>13. db.next = 1 /\ db.entries[k1] = {} /\ db.group = gr  BY <1>9, <1>10
  <1>14. db.next..db.group.last = {}  BY <1>7, <1>13
  <1>15. Accounted(db, settled)  BY <1>12, <1>13, <1>14 DEF Accounted
  <1> QED  BY <1>2, <1>4, <1>5, <1>15 DEF IInv

(* A sweep goes on with the targets nobody else touched; the others end. *)
Onward(x, pel) ==
  IF sweep[x].phase = "on" THEN [sweep[x] EXCEPT !.targets = StillTargets(x, pel)] ELSE NoSweep

LEMMA OnwardKeeps ==
  ASSUME IInv, NEW x \in Consumer, NEW pel
  PROVE  Onward(x, pel) \in SweepSet /\ SweptFor(x, Onward(x, pel), pel)
PROOF
  <1>1. sweep[x] \in SweepSet /\ SweptFor(x, sweep[x], Pel)  BY DEF IInv, Swept
  <1>2. CASE sweep[x].phase = "on"
    <2>1. StillTargets(x, pel) \subseteq sweep[x].targets  BY DEF StillTargets
    <2>2. PICK T \in SUBSET sweep[x].targets : T = StillTargets(x, pel)  BY <2>1
    <2>3. PICK s : s = [sweep[x] EXCEPT !.targets = T]  OBVIOUS
    <2>4. T \in SUBSET Id  BY <1>1 DEF SweepSet
    <2>5. s \in SweepSet /\ s.targets = T /\ s.phase = "on" /\ s.cursor = sweep[x].cursor
      BY <1>1, <1>2, <2>3, <2>4 DEF SweepSet
    <2>6. ASSUME NEW i \in T
          PROVE  i \in DOMAIN pel /\ (pel[i].owner = x \/ (pel[i].idle >= 1 /\ i >= s.cursor))
      <3>1. i \in DOMAIN pel /\ (pel[i].owner = x \/ (pel[i].owner = Pel[i].owner /\ pel[i].idle >= 1))
        BY <2>2, <2>6 DEF StillTargets
      <3>2. Pel[i].owner = x \/ i >= sweep[x].cursor  BY <1>1, <1>2 DEF SweptFor
      <3> QED  BY <3>1, <3>2, <2>5
    <2>7. SweptFor(x, s, pel)  BY <2>5, <2>6 DEF SweptFor
    <2> QED  BY <1>2, <2>2, <2>3, <2>5, <2>7 DEF Onward
  <1>3. CASE sweep[x].phase # "on"
    <2>1. 0 \in 0..MaxId  BY StreamsAssumption
    <2>2. NoSweep \in SweepSet /\ NoSweep.phase = "off"  BY <2>1 DEF NoSweep, SweepSet
    <2> QED  BY <1>3, <2>2 DEF Onward, SweptFor
  <1> QED  BY <1>2, <1>3

(* The page of a sweep whose reply arrives moves the cursor past what was claimed. *)
LEMMA PageKeeps ==
  ASSUME IInv, NEW x \in Consumer, sweep[x].phase = "on", NEW pel, NEW v \in 0..MaxId,
         \A i \in DOMAIN Pel \cap DOMAIN pel :
           (i >= sweep[x].cursor /\ Pel[i].idle >= 1 /\ pel[i].owner # x) => v # 0 /\ i >= v,
         NEW s, s = [Onward(x, pel) EXCEPT !.cursor = v, !.phase = IF v = 0 THEN "done" ELSE "on"]
  PROVE  s \in SweepSet /\ SweptFor(x, s, pel)
PROOF
  <1>1. PICK o : o = Onward(x, pel)  OBVIOUS
  <1>2. o \in SweepSet /\ SweptFor(x, o, pel)  BY <1>1, OnwardKeeps
  <1>3. s \in SweepSet /\ s.targets = o.targets /\ s.cursor = v /\ s.phase = IF v = 0 THEN "done" ELSE "on"
    BY <1>1, <1>2 DEF SweepSet
  <1>4. SweptFor(x, sweep[x], Pel) /\ sweep[x] \in SweepSet  BY DEF IInv, Swept
  <1>5. o.targets = StillTargets(x, pel)  BY <1>1, <1>4 DEF Onward, SweepSet
  <1>6. ASSUME NEW i \in s.targets
        PROVE  i \in DOMAIN pel /\ (pel[i].owner = x \/ (v # 0 /\ pel[i].idle >= 1 /\ i >= v))
    <2>1. i \in sweep[x].targets /\ i \in DOMAIN pel
          /\ (pel[i].owner = x \/ (pel[i].owner = Pel[i].owner /\ pel[i].idle >= 1))
      BY <1>3, <1>5, <1>6 DEF StillTargets
    <2>2. i \in DOMAIN Pel /\ (Pel[i].owner = x \/ (Pel[i].idle >= 1 /\ i >= sweep[x].cursor))
      BY <2>1, <1>4 DEF SweptFor
    <2> QED  BY <2>1, <2>2
  <1> QED  BY <1>3, <1>6 DEF SweptFor

(* One call, whether its reply arrives or not. *)
LEMMA ExchangeKeeps ==
  ASSUME IInv, NEW c \in Consumer, NEW r \in AllRequests, NEW arrives \in BOOLEAN, NEW page \in BOOLEAN,
         r.method = "xack" => ToSet(r.ids) \subseteq settled,
         page => sweep[c].phase = "on" /\ \E b \in BOOLEAN : r = Page(c, sweep[c].cursor, b),
         Exchange(c, r, arrives, page)
  PROVE  IInv'
PROOF
  <1>1. old \in BOOLEAN /\ Accounted(db, settled) /\ settled \subseteq Id  BY DEF IInv
  <1>2. r \in StreamRequest  BY RequestsTyped
  <1>3. Served(r)  BY <1>1, <1>2, ServedAll
  <1>4. PICK m : m = Parse(Encode(r))  OBVIOUS
  <1>5. PICK res : res = Serve(m)  OBVIOUS
  <1>6. Answers(r.method, res) /\ Effect(r, res)  BY <1>3, <1>4, <1>5 DEF Served
  <1>7. Meaning[r] = m  BY <1>4 DEF Meaning
  <1>8. PICK result : result = Decode(r.method, AsValue(res.kind, res.view, ~old))  OBVIOUS
  <1>9. PICK got \in BOOLEAN : got = (arrives /\ res.kind # "error")  OBVIOUS
  <1>10. /\ res.db.next <= MaxId + 1
         /\ db' = res.db
         /\ settled' = settled \cup (IF got THEN IdsIn(r.method, result) ELSE {})
                               \cup (IF res.kind # "error" THEN RiskedBy(r, res.db) ELSE {})
         /\ sweep' = [x \in Consumer |->
              IF x = c /\ page /\ got
              THEN [Onward(x, res.db.group.pel) EXCEPT !.cursor = result[1],
                                                       !.phase = IF result[1] = 0 THEN "done" ELSE "on"]
              ELSE Onward(x, res.db.group.pel)]
         /\ old' = old
    BY <1>5, <1>7, <1>8, <1>9 DEF Exchange, Onward
  <1>11. res.kind # "error" => result = res.view /\ IdsIn(r.method, res.view) \subseteq Id
    <2>1. (~old) \in BOOLEAN  BY <1>1
    <2> QED  BY <2>1, <1>6, <1>8 DEF Answers, Decodes
  <1>12. PICK given \in SUBSET Id : given = IF got THEN IdsIn(r.method, result) ELSE {}
    <2>1. CASE got  BY <2>1, <1>9, <1>11
    <2>2. CASE ~got  BY <2>2
    <2> QED  BY <2>1, <2>2
  <1>13. Risk(r, res) \subseteq Id /\ Accounted(res.db, settled \cup Risk(r, res))  BY <1>6, <1>10 DEF Effect
  <1>14. PICK s : s = settled \cup given \cup Risk(r, res)  OBVIOUS
  <1>15. settled' = s  BY <1>10, <1>12, <1>14 DEF Risk
  <1>16. s \subseteq Id  BY <1>1, <1>12, <1>13, <1>14
  <1>17. Accounted(res.db, s)
    <2>1. PICK t : t = settled \cup Risk(r, res)  OBVIOUS
    <2>2. t \subseteq s  BY <2>1, <1>14
    <2> QED  BY <2>1, <2>2, <1>13, AccountedMore
  <1>18. PICK pel : pel = res.db.group.pel  OBVIOUS
  <1>19. ASSUME NEW x \in Consumer PROVE sweep'[x] \in SweepSet /\ SweptFor(x, sweep'[x], pel)
    <2>1. CASE ~(x = c /\ page /\ got)
      <3>1. sweep'[x] = Onward(x, pel)  BY <2>1, <1>10, <1>18
      <3> QED  BY <3>1, OnwardKeeps
    <2>2. CASE x = c /\ page /\ got
      <3>1. PICK b \in BOOLEAN : r = Page(c, sweep[c].cursor, b)  BY <2>2
      <3>2. PICK n \in 0..MaxId : n = sweep[c].cursor  BY DEF IInv, SweepSet
      <3>3. res.kind # "error" /\ result = res.view  BY <2>2, <1>9, <1>11
      <3>4. /\ Serve(m).view[1] \in 0..MaxId
            /\ \A i \in DOMAIN Pel \cap DOMAIN Serve(m).db.group.pel :
                 (i >= n /\ Pel[i].idle >= 1 /\ Serve(m).db.group.pel[i].owner # c)
                   => Serve(m).view[1] # 0 /\ i >= Serve(m).view[1]
        BY <3>1, <3>2, <3>3, <1>1, <1>4, <1>5, PageServed
      <3>5. PICK v \in 0..MaxId : v = result[1]  BY <3>3, <3>4, <1>5
      <3>6. \A i \in DOMAIN Pel \cap DOMAIN pel :
              (i >= sweep[c].cursor /\ Pel[i].idle >= 1 /\ pel[i].owner # c) => v # 0 /\ i >= v
        BY <3>2, <3>3, <3>4, <3>5, <1>5, <1>18
      <3>7. PICK w : w = [Onward(c, pel) EXCEPT !.cursor = v, !.phase = IF v = 0 THEN "done" ELSE "on"]
        OBVIOUS
      <3>8. sweep'[x] = w  BY <2>2, <3>5, <3>7, <1>10, <1>18
      <3>9. w \in SweepSet /\ SweptFor(c, w, pel)  BY <2>2, <3>6, <3>7, PageKeeps
      <3> QED  BY <2>2, <3>8, <3>9
    <2> QED  BY <2>1, <2>2
  <1>20. sweep' \in [Consumer -> SweepSet]
    <2>1. sweep' = [x \in Consumer |-> sweep'[x]]  BY <1>10
    <2> QED  BY <2>1, <1>19
  <1>21. Accounted(db, settled)'  BY <1>10, <1>15, <1>17 DEF Accounted
  <1>22. Swept(sweep, Pel)'
    <2>1. Pel' = pel  BY <1>10, <1>18 DEF Pel
    <2> QED  BY <2>1, <1>19 DEF Swept, SweptFor
  <1> QED  BY <1>1, <1>10, <1>15, <1>16, <1>20, <1>21, <1>22 DEF IInv

LEMMA SweepStartKeeps ==
  ASSUME IInv, NEW c \in Consumer, SweepStart(c) PROVE IInv'
PROOF
  <1>1. db' = db /\ settled' = settled /\ old' = old  BY DEF SweepStart
  <1>2. 0 \in 0..MaxId /\ MaxId \in Nat  BY StreamsAssumption
  <1>3. DOMAIN Pel \subseteq Id  BY DbParts, PelParts DEF IInv, Accounted, Pel
  <1>4. PICK T \in SUBSET Id : T = {i \in DOMAIN Pel : Pel[i].idle >= 1}  BY <1>3
  <1>5. PICK s : s = [phase |-> "on", cursor |-> 0, targets |-> T]  OBVIOUS
  <1>6. s \in SweepSet /\ s.phase = "on" /\ s.targets = T /\ s.cursor = 0  BY <1>2, <1>5 DEF SweepSet
  <1>7. sweep' = [sweep EXCEPT ![c] = s] /\ sweep \in [Consumer -> SweepSet]  BY <1>4, <1>5 DEF SweepStart, IInv
  <1>8. SweptFor(c, s, Pel)  BY <1>2, <1>4, <1>6 DEF SweptFor, Id
  <1>9. Swept(sweep, Pel)'
    <2>1. Pel' = Pel  BY <1>1 DEF Pel
    <2>2. ASSUME NEW x \in Consumer PROVE SweptFor(x, sweep'[x], Pel)
      <3>1. CASE x = c  BY <3>1, <1>7, <1>8
      <3>2. CASE x # c
        <4>1. sweep'[x] = sweep[x]  BY <3>2, <1>7
        <4> QED  BY <4>1 DEF IInv, Swept
      <3> QED  BY <3>1, <3>2
    <2> QED  BY <2>1, <2>2 DEF Swept, SweptFor
  <1>10. Accounted(db, settled)'  BY <1>1 DEF IInv, Accounted
  <1> QED  BY <1>1, <1>6, <1>7, <1>9, <1>10 DEF IInv

LEMMA TickKeeps ==
  ASSUME IInv, Tick PROVE IInv'
PROOF
  <1>1. Accounted(db, settled) /\ Swept(sweep, Pel)  BY DEF IInv
  <1>2. db \in DbSet /\ db.group \in GroupSet /\ Pel \in PelSet  BY <1>1, DbParts DEF Accounted, Pel
  <1>3. DOMAIN Pel \in SUBSET Id /\ \A i \in DOMAIN Pel : Pel[i] \in PendingSet  BY <1>2, PelParts DEF PendingSet
  <1>4. PICK p : p = [i \in DOMAIN Pel |-> [Pel[i] EXCEPT !.idle = 1]]  OBVIOUS
  <1>5. DOMAIN p = DOMAIN Pel
        /\ \A i \in DOMAIN Pel : p[i] \in PendingSet /\ p[i].owner = Pel[i].owner /\ p[i].idle = 1
    BY <1>3, <1>4 DEF PendingSet
  <1>6. p \in PelSet
    <2>1. p \in [DOMAIN Pel -> PendingSet]  BY <1>4, <1>5
    <2>2. PICK D \in SUBSET Id : D = DOMAIN Pel  BY <1>3
    <2> QED  BY <2>1, <2>2, PelIn
  <1>7. PICK gr : gr = [db.group EXCEPT !.pel = p]  OBVIOUS
  <1>8. gr \in GroupSet /\ gr.last = db.group.last /\ gr.pel = p  BY <1>2, <1>6, <1>7 DEF GroupSet
  <1>9. gr.exists = db.group.exists  BY <1>2, <1>7 DEF GroupSet
  <1>10. PICK d : d = [db EXCEPT !.group = gr]  OBVIOUS
  <1>11. d \in DbSet /\ d.next = db.next /\ d.entries = db.entries /\ d.group = gr
    BY <1>2, <1>8, <1>10, WithGroup
  <1>12. db' = d  BY <1>2, <1>4, <1>7, <1>10 DEF Tick, WithPel, DbSet
  <1>13. PICK s : s = settled  OBVIOUS
  <1>14. Accounted(db, s)  BY <1>1, <1>13
  <1>15. Accounted(d, s)  BY <1>14, <1>5, <1>8, <1>9, <1>11, AccountedPel
  <1>16. old' = old /\ settled' = settled /\ sweep' = sweep  BY DEF Tick
  <1>17. Accounted(db, settled)'  BY <1>12, <1>13, <1>15, <1>16 DEF Accounted
  <1>18. Swept(sweep, Pel)'
    <2>1. Pel' = p  BY <1>8, <1>11, <1>12 DEF Pel
    <2>2. Swept(sweep, p)  BY <1>1, <1>5 DEF Swept, SweptFor
    <2> QED  BY <2>1, <2>2, <1>16 DEF Swept, SweptFor
  <1> QED  BY <1>16, <1>17, <1>18 DEF IInv

LEMMA NextKeeps ==
  ASSUME IInv, [Next]_vars PROVE IInv'
PROOF
  <1>1. Sweeper \subseteq Consumer  BY StreamsAssumption
  <1>2. ASSUME NEW c \in Consumer, NEW r \in AllRequests, NEW arrives \in BOOLEAN, Call(c, r, arrives)
        PROVE  IInv'
    <2>1. (r.method = "xack" => ToSet(r.ids) \subseteq settled) /\ Exchange(c, r, arrives, FALSE)
      BY <1>2 DEF Call
    <2>2. FALSE \in BOOLEAN  OBVIOUS
    <2>3. FALSE => sweep[c].phase = "on" /\ \E b \in BOOLEAN : r = Page(c, sweep[c].cursor, b)  OBVIOUS
    <2> QED  BY <2>1, <2>2, <2>3, ExchangeKeeps
  <1>3. CASE \E c \in Consumer, arrives \in BOOLEAN : \E r \in Requests[c] : Call(c, r, arrives)
    <2>1. PICK c \in Consumer, arrives \in BOOLEAN : \E r \in Requests[c] : Call(c, r, arrives)  BY <1>3
    <2>2. PICK r \in Requests[c] : Call(c, r, arrives)  BY <2>1
    <2>3. r \in AllRequests  BY DEF AllRequests
    <2> QED  BY <2>2, <2>3, <1>2
  <1>4. CASE \E c \in Sweeper, r \in Queries : Call(c, r, TRUE)
    <2>1. PICK c \in Sweeper, r \in Queries : Call(c, r, TRUE)  BY <1>4
    <2>2. r \in AllRequests /\ c \in Consumer /\ TRUE \in BOOLEAN  BY <1>1 DEF AllRequests
    <2> QED  BY <2>1, <2>2, <1>2
  <1>5. ASSUME NEW c \in Sweeper, SweepStart(c) PROVE IInv'  BY <1>1, <1>5, SweepStartKeeps
  <1>6. ASSUME NEW c \in Sweeper, NEW justid \in BOOLEAN, NEW arrives \in BOOLEAN, SweepPage(c, justid, arrives)
        PROVE  IInv'
    <2>1. c \in Consumer  BY <1>1
    <2>2. sweep[c].cursor \in 0..MaxId  BY <2>1 DEF IInv, SweepSet
    <2>3. PICK r : r = Page(c, sweep[c].cursor, justid)  OBVIOUS
    <2>4. r \in AllRequests  BY <2>2, <2>3 DEF AllRequests
    <2>5. sweep[c].phase = "on" /\ Exchange(c, r, arrives, TRUE)  BY <2>3, <1>6 DEF SweepPage
    <2>6. r.method # "xack"
      <3>1. r.method = IF justid THEN "xautoclaim_justid" ELSE "xautoclaim"  BY <2>3 DEF Page
      <3> QED  BY <3>1
    <2>7. r.method = "xack" => ToSet(r.ids) \subseteq settled  BY <2>6
    <2>8. TRUE => sweep[c].phase = "on" /\ \E b \in BOOLEAN : r = Page(c, sweep[c].cursor, b)  BY <2>3, <2>5
    <2>9. TRUE \in BOOLEAN  OBVIOUS
    <2> QED  BY <2>1, <2>4, <2>5, <2>7, <2>8, <2>9, ExchangeKeeps
  <1>7. CASE Tick  BY <1>7, TickKeeps
  <1>8. CASE UNCHANGED vars
    <2>1. old' = old /\ db' = db /\ settled' = settled /\ sweep' = sweep  BY <1>8 DEF vars
    <2> QED  BY <2>1 DEF IInv, Accounted, Swept, SweptFor, Pel
  <1> QED  BY <1>3, <1>4, <1>5, <1>6, <1>7, <1>8 DEF Next

(* Every reachable state satisfies the inductive invariant. *)
THEOREM Inductive == Spec => []IInv
PROOF
  <1>1. IInv /\ [Next]_vars => IInv'  BY NextKeeps
  <1> QED  BY <1>1, InitIInv, PTL DEF Spec
-----------------------------------------------------------------------------
(***************************************************************************)
(* TypeOK: whatever the consumers call and whichever replies are lost, the *)
(* ids, owners and delivery counts the methods of stream.rs name stay      *)
(* those of the stream and of the consumers of its group.                  *)
(***************************************************************************)
THEOREM TypeCorrect == Spec => []TypeOK
PROOF
  <1>1. IInv => TypeOK
    <2> SUFFICES ASSUME IInv PROVE TypeOK  OBVIOUS
    <2>1. db \in DbSet  BY DEF IInv, Accounted
    <2>2. /\ db.next \in 1..(MaxId + 1) /\ db.entries[k1] \subseteq Id
          /\ db.group.last \in 0..MaxId /\ db.group.consumers \subseteq Consumer /\ Pel \in PelSet
      BY <2>1, DbParts DEF Pel
    <2>3. db.exists \in BOOLEAN  BY <2>1 DEF DbSet
    <2>4. DOMAIN Pel \subseteq Id /\ \A i \in DOMAIN Pel : Pel[i] \in PendingSet  BY <2>2, PelParts
    <2> QED  BY <2>2, <2>3, <2>4 DEF TypeOK, IInv, SweepSet, PendingSet
  <1> QED  BY <1>1, Inductive, PTL

(***************************************************************************)
(* NothingLost: an entry the group is past is pending or settled, though   *)
(* any reply of xreadgroup, xclaim or xautoclaim may be lost, xsetid may   *)
(* lower the next id and deleted entries leave the pending list.           *)
(***************************************************************************)
THEOREM NothingIsLost == Spec => []NothingLost
PROOF
  <1>1. IInv => NothingLost  BY DEF IInv, Accounted, NothingLost, Pel
  <1> QED  BY <1>1, Inductive, PTL

(***************************************************************************)
(* SweepIsComplete: paging xautoclaim or xautoclaim_justid until the       *)
(* cursor is 0 claims every entry that was idle at the start and that no   *)
(* one else touched, with any number of consumers and of lost replies.     *)
(***************************************************************************)
THEOREM SweepsAreComplete == Spec => []SweepIsComplete
PROOF
  <1>1. IInv => SweepIsComplete  BY DEF IInv, Swept, SweptFor, SweepIsComplete
  <1> QED  BY <1>1, Inductive, PTL

(***************************************************************************)
(* TypedCall: for arguments of every length and value the types of         *)
(* stream.rs allow, the server reads from the encoded command exactly the  *)
(* request, and the method's parser returns what the server answered,      *)
(* under RESP2 and RESP3, from an old and a new server, in every state.    *)
(***************************************************************************)
THEOREM CallsAreTyped == Spec => []TypedCall
PROOF
  <1>1. IInv => TypedCall
    <2> SUFFICES ASSUME IInv, NEW r \in AllRequests
                 PROVE  /\ Meaning[r] = [f \in DOMAIN Meaning[r] |-> r[f]]
                        /\ Serve(Meaning[r]).kind # "error" => \A resp3 \in BOOLEAN :
                             Decode(r.method, AsValue(Serve(Meaning[r]).kind, Serve(Meaning[r]).view, resp3))
                               = Serve(Meaning[r]).view
      BY DEF TypedCall
    <2>1. Served(r)
      <3>1. r \in StreamRequest  BY RequestsTyped
      <3>2. Accounted(db, settled) /\ old \in BOOLEAN  BY DEF IInv
      <3> QED  BY <3>1, <3>2, ServedAll
    <2>2. PICK m : m = Parse(Encode(r))  OBVIOUS
    <2>3. Meaning[r] = m  BY <2>2 DEF Meaning
    <2>4. m = [f \in DOMAIN m |-> r[f]] /\ Answers(r.method, Serve(m))  BY <2>1, <2>2 DEF Served
    <2>5. PICK res : res = Serve(m)  OBVIOUS
    <2>6. res.kind # "error" => \A resp3 \in BOOLEAN :
            Decode(r.method, AsValue(res.kind, res.view, resp3)) = res.view
      BY <2>4, <2>5 DEF Answers, Decodes
    <2> QED  BY <2>3, <2>4, <2>5, <2>6
  <1> QED  BY <1>1, Inductive, PTL
=============================================================================
