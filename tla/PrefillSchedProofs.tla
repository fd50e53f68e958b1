------------------------- MODULE PrefillSchedProofs -------------------------
(***************************************************************************)
(* Proofs about the prefill scheduler, for any requests, budgets, interval *)
(* and number of steps in flight: no request is lost between the queues,   *)
(* the waiting ones stay in order of arrival, a deferred step keeps to the *)
(* short budget and buys a decode, and no step is spent on a request that  *)
(* the step before finishes.                                               *)
(***************************************************************************)
EXTENDS PrefillSched, FiniteSetTheorems, SequenceTheorems, WellFoundedInduction, TLAPS

-----------------------------------------------------------------------------
(* Induction over a set of natural numbers.                                *)
LEMMA FromZero ==
  ASSUME NEW N \in Nat, NEW G, 0 \in G, \A n \in 0 .. N - 1 : n \in G => n + 1 \in G
  PROVE  N \in G
<1> DEFINE Bad == {n \in Nat : n \in 0 .. N /\ n \notin G}
<1>1. SUFFICES ASSUME Bad # {} PROVE FALSE
  OBVIOUS
<1>2. PICK m \in Bad : \A n \in Bad : ~(<<n, m>> \in OpToRel(<, Nat))
  BY <1>1, NatLessThanWellFounded, WFMin
<1>3. m \in 0 .. N /\ m \notin G /\ \A n \in Nat : n < m => n \notin Bad
  BY <1>2 DEF OpToRel
<1>4. m # 0 /\ m - 1 \in 0 .. N - 1 /\ m - 1 \in Nat /\ m - 1 < m /\ (m - 1) + 1 = m
  BY <1>3
<1>5. m - 1 \in G /\ (m - 1) + 1 \in G
  BY <1>3, <1>4
<1> QED
  BY <1>3, <1>4, <1>5

(* The same for the finite sets: what holds of the empty set, and of a set *)
(* when it holds of it without one of its elements, holds of all of them.  *)
LEMMA FromEmpty ==
  ASSUME NEW S, IsFiniteSet(S), NEW G,
         {} \in G,
         \A s \in SUBSET S : s # {} /\ (\A x \in s : s \ {x} \in G) => s \in G
  PROVE  \A s \in SUBSET S : s \in G
<1> DEFINE Sized == {n \in Nat : \A s \in SUBSET S : Cardinality(s) <= n => s \in G}
<1>1. \A s \in SUBSET S : IsFiniteSet(s) /\ Cardinality(s) \in Nat
  BY FS_Subset, FS_CardinalityType
<1>2. 0 \in Sized
  <2> SUFFICES ASSUME NEW s \in SUBSET S, Cardinality(s) <= 0 PROVE s \in G
    OBVIOUS
  <2>1. Cardinality(s) = 0
    BY <1>1
  <2>2. s = {}
    BY <1>1, <2>1, FS_EmptySet
  <2> QED
    BY <2>2
<1>3. ASSUME NEW n \in Nat, n \in Sized PROVE n + 1 \in Sized
  <2> SUFFICES ASSUME NEW s \in SUBSET S, Cardinality(s) <= n + 1 PROVE s \in G
    OBVIOUS
  <2>1. CASE s = {}
    BY <2>1
  <2>2. CASE s # {}
    <3>1. ASSUME NEW x \in s PROVE s \ {x} \in G
      <4>1. Cardinality(s \ {x}) = Cardinality(s) - 1
        BY <1>1, FS_RemoveElement
      <4>2. Cardinality(s \ {x}) <= n
        BY <1>1, <4>1
      <4>3. s \ {x} \in SUBSET S
        OBVIOUS
      <4> QED
        BY <1>3, <4>2, <4>3
    <3> QED
      BY <2>2, <3>1
  <2> QED
    BY <2>1, <2>2
<1> HIDE DEF Sized
<1>4. ASSUME NEW n \in Nat PROVE n \in Sized
  BY <1>2, <1>3, FromZero
<1>5. ASSUME NEW s \in SUBSET S PROVE s \in G
  <2>1. Cardinality(s) \in Nat /\ Cardinality(s) <= Cardinality(s)
    BY <1>1
  <2>2. Cardinality(s) \in Sized
    BY <1>4, <2>1
  <2> QED
    BY <2>1, <2>2 DEF Sized
<1> QED
  BY <1>5

-----------------------------------------------------------------------------
(* Sums over a set of requests.                                            *)

Pick(s) == CHOOSE x \in s : TRUE
SumOf(f, g, s) == IF s = {} THEN 0 ELSE f[Pick(s)] + g[s \ {Pick(s)}]
Sums(f, S, g) == g = [s \in SUBSET S |-> SumOf(f, g, s)]

LEMMA SumUnfolds == ASSUME NEW f, NEW S PROVE SumFunctionOnSet(f, S) = (CHOOSE g : Sums(f, S, g))[S]
  BY DEF SumFunctionOnSet, FoldFunctionOnSet, MapThenFoldSet, SumOf, Sums, Pick

LEMMA PickIn == ASSUME NEW s, s # {} PROVE Pick(s) \in s
  BY DEF Pick

(* There are such sums, on the sets up to any size.                        *)
LEMMA SumsExist ==
  ASSUME NEW f, NEW S, IsFiniteSet(S)
  PROVE  \E g : Sums(f, S, g)
<1> DEFINE Small(n) == {s \in SUBSET S : Cardinality(s) <= n}
           Part(g, n) == g = [s \in Small(n) |-> SumOf(f, g, s)]
           G == {n \in Nat : \E g : Part(g, n)}
<1>1. \A s \in SUBSET S : IsFiniteSet(s) /\ Cardinality(s) \in Nat
  BY FS_Subset, FS_CardinalityType
<1>2. ASSUME NEW n \in Nat, NEW s \in Small(n + 1), s # {} PROVE s \ {Pick(s)} \in Small(n)
  <2>1. Cardinality(s \ {Pick(s)}) = Cardinality(s) - 1
    BY <1>1, <1>2, PickIn, FS_RemoveElement
  <2>2. Cardinality(s \ {Pick(s)}) <= n
    BY <1>1, <2>1
  <2> QED
    BY <2>2
<1>3. 0 \in G
  <2>1. \A s \in Small(0) : s = {}
    BY <1>1, FS_EmptySet
  <2> DEFINE g == [s \in Small(0) |-> 0]
  <2>2. \A s \in Small(0) : SumOf(f, g, s) = 0
    BY <2>1 DEF SumOf
  <2>3. Part(g, 0)
    BY <2>2
  <2> QED
    BY <2>3
<1>4. ASSUME NEW n \in Nat, n \in G PROVE n + 1 \in G
  <2>1. PICK g : Part(g, n)
    BY <1>4
  <2> DEFINE m == n + 1
             h == [s \in Small(m) |-> SumOf(f, g, s)]
  <2> HIDE DEF Small, G
  <2>2. ASSUME NEW s \in Small(m) PROVE SumOf(f, g, s) = SumOf(f, h, s)
    <3>1. CASE s = {}
      BY <3>1 DEF SumOf
    <3>2. CASE s # {}
      <4> DEFINE t == s \ {Pick(s)}
      <4>1. t \in Small(n)
        BY <1>2, <3>2
      <4>2. t \in Small(m)
        BY <4>1, <1>1 DEF Small
      <4>3. g[t] = SumOf(f, g, t)
        BY <2>1, <4>1
      <4>4. h[t] = SumOf(f, g, t)
        BY <4>2
      <4> HIDE DEF h, m
      <4> QED
        BY <3>2, <4>3, <4>4 DEF SumOf
    <3> QED
      BY <3>1, <3>2
  <2>3. h = [s \in Small(m) |-> SumOf(f, h, s)]
    BY <2>2
  <2> HIDE DEF h
  <2>4. Part(h, n + 1)
    BY <2>3
  <2> QED
    BY <2>4 DEF G
<1> HIDE DEF G
<1>5. Cardinality(S) \in Nat
  BY FS_CardinalityType
<1>6. Cardinality(S) \in G
  BY <1>3, <1>4, <1>5, FromZero
<1>7. PICK g : Part(g, Cardinality(S))
  BY <1>6 DEF G
<1>8. Small(Cardinality(S)) = SUBSET S
  BY FS_Subset, FS_CardinalityType
<1> QED
  BY <1>7, <1>8 DEF Sums

(* They are the same whatever set they are part of.                        *)
LEMMA SumsAgree ==
  ASSUME NEW f, NEW S, NEW T \in SUBSET S, IsFiniteSet(S),
         NEW g, Sums(f, S, g), NEW h, Sums(f, T, h)
  PROVE  g[T] = h[T]
<1> DEFINE G == {s \in SUBSET T : g[s] = h[s]}
<1>1. \A s \in SUBSET T : g[s] = SumOf(f, g, s) /\ h[s] = SumOf(f, h, s)
  BY DEF Sums
<1>2. {} \in G
  BY <1>1 DEF SumOf
<1>3. ASSUME NEW s \in SUBSET T, s # {}, \A x \in s : s \ {x} \in G PROVE s \in G
  BY <1>1, <1>3, PickIn DEF SumOf
<1>4. IsFiniteSet(T)
  BY FS_Subset
<1> HIDE DEF G
<1>5. T \in G
  BY <1>2, <1>3, <1>4, FromEmpty
<1> QED
  BY <1>5 DEF G

(* The sum over a set is that without one of its elements, and it.         *)
SumTable(f, S, g) ==
  /\ g \in [SUBSET S -> Nat]
  /\ \A s \in SUBSET S : SumFunctionOnSet(f, s) = g[s]
  /\ g[{}] = 0
  /\ \A s \in SUBSET S : \A x \in s : g[s] = f[x] + g[s \ {x}]

LEMMA SumSets ==
  ASSUME NEW S, IsFiniteSet(S), NEW f \in [S -> Nat]
  PROVE  \E g : SumTable(f, S, g)
<1>1. PICK g : Sums(f, S, g)
  BY SumsExist
<1>2. ASSUME NEW s \in SUBSET S PROVE SumFunctionOnSet(f, s) = g[s]
  <2>1. IsFiniteSet(s)
    BY FS_Subset
  <2>2. Sums(f, s, CHOOSE h : Sums(f, s, h))
    BY <2>1, SumsExist
  <2>3. g[s] = (CHOOSE h : Sums(f, s, h))[s]
    BY <1>1, <2>2, SumsAgree
  <2> QED
    BY <2>3, SumUnfolds
<1>3. \A s \in SUBSET S : g[s] = SumOf(f, g, s)
  BY <1>1 DEF Sums
<1>4. g[{}] = 0
  BY <1>3 DEF SumOf
<1>5. \A s \in SUBSET S : g[s] \in Nat
  <2> DEFINE G == {s \in SUBSET S : g[s] \in Nat}
  <2>1. {} \in G
    BY <1>4
  <2>2. ASSUME NEW s \in SUBSET S, s # {}, \A x \in s : s \ {x} \in G PROVE s \in G
    <3>1. Pick(s) \in s /\ f[Pick(s)] \in Nat /\ g[s \ {Pick(s)}] \in Nat
      BY <2>2, PickIn
    <3> QED
      BY <1>3, <2>2, <3>1 DEF SumOf
  <2> HIDE DEF G
  <2>3. \A s \in SUBSET S : s \in G
    BY <2>1, <2>2, FromEmpty
  <2> QED
    BY <2>3 DEF G
<1>6. \A s \in SUBSET S : \A x \in s : g[s] = f[x] + g[s \ {x}]
  <2> DEFINE G == {s \in SUBSET S : \A x \in s : g[s] = f[x] + g[s \ {x}]}
  <2>1. {} \in G
    OBVIOUS
  <2>2. ASSUME NEW s \in SUBSET S, s # {}, \A x \in s : s \ {x} \in G PROVE s \in G
    <3> SUFFICES ASSUME NEW x \in s PROVE g[s] = f[x] + g[s \ {x}]
      OBVIOUS
    <3> DEFINE c == Pick(s)
    <3>1. c \in s /\ g[s] = f[c] + g[s \ {c}]
      BY <1>3, <2>2, PickIn DEF SumOf
    <3>2. CASE x = c
      BY <3>1, <3>2
    <3>3. CASE x # c
      <4> DEFINE u == s \ {c, x}
      <4>1. s \ {c} \in G /\ x \in s \ {c} /\ (s \ {c}) \ {x} = u
        BY <2>2, <3>1, <3>3
      <4>2. s \ {x} \in G /\ c \in s \ {x} /\ (s \ {x}) \ {c} = u
        BY <2>2, <3>1, <3>3
      <4>3. g[s \ {c}] = f[x] + g[u]
        BY <4>1
      <4>4. g[s \ {x}] = f[c] + g[u]
        BY <4>2
      <4>5. f[x] \in Nat /\ f[c] \in Nat /\ g[u] \in Nat
        BY <1>5, <3>1
      <4> HIDE DEF u, c
      <4> QED
        BY <3>1, <4>3, <4>4, <4>5
    <3> QED
      BY <3>2, <3>3
  <2> HIDE DEF G
  <2>3. \A s \in SUBSET S : s \in G
    BY <2>1, <2>2, FromEmpty
  <2> QED
    BY <2>3 DEF G
<1>7. g \in [SUBSET S -> Nat]
  <2>1. g = [s \in SUBSET S |-> SumOf(f, g, s)]
    BY <1>1 DEF Sums
  <2>2. \A s \in SUBSET S : SumOf(f, g, s) \in Nat
    BY <1>3, <1>5
  <2> QED
    BY <2>1, <2>2
<1> QED
  BY <1>2, <1>4, <1>6, <1>7 DEF SumTable

LEMMA ReqsFinite == IsFiniteSet(Reqs)
  BY SchedAssumption

LEMMA SumNat ==
  ASSUME NEW f \in [Reqs -> Nat], NEW A \in SUBSET Reqs
  PROVE  SumFunctionOnSet(f, A) \in Nat
<1>1. PICK g : SumTable(f, Reqs, g)
  BY SumSets, ReqsFinite
<1> QED
  BY <1>1 DEF SumTable

LEMMA SumWithout ==
  ASSUME NEW f \in [Reqs -> Nat], NEW A \in SUBSET Reqs, NEW r \in A
  PROVE  SumFunctionOnSet(f, A) = f[r] + SumFunctionOnSet(f, A \ {r})
<1>1. PICK g : SumTable(f, Reqs, g)
  BY SumSets, ReqsFinite
<1>2. A \ {r} \in SUBSET Reqs
  OBVIOUS
<1> QED
  BY <1>1, <1>2 DEF SumTable

(* Requests outside the set do not count.                                  *)
LEMMA SumSame ==
  ASSUME NEW f \in [Reqs -> Nat], NEW h \in [Reqs -> Nat], NEW A \in SUBSET Reqs,
         \A r \in A : f[r] = h[r]
  PROVE  SumFunctionOnSet(f, A) = SumFunctionOnSet(h, A)
<1>1. PICK g : SumTable(f, Reqs, g)
  BY SumSets, ReqsFinite
<1>2. PICK k : SumTable(h, Reqs, k)
  BY SumSets, ReqsFinite
<1> DEFINE G == {s \in SUBSET A : g[s] = k[s]}
<1>3. {} \in G
  BY <1>1, <1>2 DEF SumTable
<1>4. ASSUME NEW s \in SUBSET A, s # {}, \A x \in s : s \ {x} \in G PROVE s \in G
  <2>1. PICK x \in s : TRUE
    BY <1>4
  <2>2. s \in SUBSET Reqs /\ f[x] = h[x] /\ g[s \ {x}] = k[s \ {x}]
    BY <1>4, <2>1
  <2>3. g[s] = f[x] + g[s \ {x}]
    BY <1>1, <2>2, <2>1 DEF SumTable
  <2>4. k[s] = h[x] + k[s \ {x}]
    BY <1>2, <2>2, <2>1 DEF SumTable
  <2> QED
    BY <2>2, <2>3, <2>4
<1>5. IsFiniteSet(A)
  BY ReqsFinite, FS_Subset
<1> HIDE DEF G
<1>6. A \in G
  BY <1>3, <1>4, <1>5, FromEmpty
<1> QED
  BY <1>1, <1>2, <1>6 DEF G, SumTable

(* A request that has nothing may be left out, and gets v.                 *)
LEMMA SumDrop ==
  ASSUME NEW f \in [Reqs -> Nat], NEW A \in SUBSET Reqs, NEW r \in Reqs, f[r] = 0
  PROVE  SumFunctionOnSet(f, A \ {r}) = SumFunctionOnSet(f, A)
<1>1. CASE r \in A
  <2>1. A \ {r} \in SUBSET Reqs
    OBVIOUS
  <2> QED
    BY <1>1, <2>1, SumWithout, SumNat
<1>2. CASE r \notin A
  <2>1. A \ {r} = A
    BY <1>2
  <2> QED
    BY <2>1
<1> QED
  BY <1>1, <1>2

Puts(f, r, v, h) == r \in Reqs /\ f[r] = 0 /\ v \in Nat /\ h = [f EXCEPT ![r] = v]
PutSum(f, r, v, h, A) ==
  h \in [Reqs -> Nat] /\ SumFunctionOnSet(h, A) = SumFunctionOnSet(f, A) + (IF r \in A THEN v ELSE 0)

LEMMA SumPut ==
  ASSUME NEW f \in [Reqs -> Nat], NEW A \in SUBSET Reqs, NEW r, NEW v, NEW h, Puts(f, r, v, h)
  PROVE  PutSum(f, r, v, h, A)
<1> USE DEF Puts, PutSum
<1> DEFINE B == A \ {r}
<1>1. h \in [Reqs -> Nat] /\ h[r] = v /\ \A q \in Reqs : q # r => h[q] = f[q]
  OBVIOUS
<1>2. B \in SUBSET Reqs /\ r \notin B
  OBVIOUS
<1>3. SumFunctionOnSet(f, B) = SumFunctionOnSet(f, A)
  BY SumDrop
<1>4. \A q \in B : h[q] = f[q]
  BY <1>1, <1>2
<1>5. SumFunctionOnSet(h, B) = SumFunctionOnSet(f, B)
  BY <1>1, <1>2, <1>4, SumSame
<1>6. CASE r \in A
  <2>1. SumFunctionOnSet(h, A) = h[r] + SumFunctionOnSet(h, B)
    BY <1>1, <1>6, SumWithout
  <2>2. SumFunctionOnSet(f, A) \in Nat
    BY SumNat
  <2>3. SumFunctionOnSet(h, A) = SumFunctionOnSet(f, A) + v
    BY <1>1, <1>3, <1>5, <2>1, <2>2
  <2> QED
    BY <1>1, <1>6, <2>3
<1>7. CASE r \notin A
  <2>1. B = A
    BY <1>7
  <2>2. SumFunctionOnSet(f, A) \in Nat
    BY SumNat
  <2>3. SumFunctionOnSet(h, A) = SumFunctionOnSet(f, A)
    BY <1>5, <2>1
  <2> QED
    BY <1>1, <1>7, <2>2, <2>3
<1> QED
  BY <1>6, <1>7

LEMMA SumNothing ==
  ASSUME NEW A \in SUBSET Reqs
  PROVE  SumFunctionOnSet(Nothing, A) = 0 /\ Nothing \in [Reqs -> Nat]
<1>1. Nothing \in [Reqs -> Nat] /\ \A r \in Reqs : Nothing[r] = 0
  BY DEF Nothing
<1>2. PICK g : SumTable(Nothing, Reqs, g)
  BY SumSets, ReqsFinite, <1>1
<1> DEFINE G == {s \in SUBSET Reqs : g[s] = 0}
<1>3. {} \in G
  BY <1>2 DEF SumTable
<1>4. ASSUME NEW s \in SUBSET Reqs, s # {}, \A x \in s : s \ {x} \in G PROVE s \in G
  <2>1. PICK x \in s : TRUE
    BY <1>4
  <2>2. Nothing[x] = 0 /\ g[s \ {x}] = 0 /\ g[s] = Nothing[x] + g[s \ {x}]
    BY <1>1, <1>2, <1>4, <2>1 DEF SumTable
  <2> QED
    BY <2>2
<1> HIDE DEF G
<1>5. A \in G
  BY <1>3, <1>4, ReqsFinite, FromEmpty
<1> QED
  BY <1>1, <1>2, <1>5 DEF G, SumTable

-----------------------------------------------------------------------------
(* Queues.  No request is in one twice.                                    *)
Distinct(s) == \A i, j \in DOMAIN s : s[i] = s[j] => i = j

LEMMA InQueue ==
  ASSUME NEW s \in Seq(Reqs)
  PROVE  /\ DOMAIN s = 1 .. Len(s) /\ Len(s) \in Nat
         /\ \A i \in 1 .. Len(s) : s[i] \in Reqs
         /\ \A r : r \in ToSet(s) <=> \E i \in 1 .. Len(s) : s[i] = r
         /\ ToSet(s) \subseteq Reqs
<1>1. DOMAIN s = 1 .. Len(s) /\ Len(s) \in Nat /\ \A i \in 1 .. Len(s) : s[i] \in Reqs
  OBVIOUS
<1> QED
  BY <1>1 DEF ToSet

LEMMA NoQueue == ToSet(<<>>) = {} /\ Distinct(<<>>) /\ <<>> \in Seq(Reqs)
  BY DEF ToSet, Distinct

LEMMA AppendQueue ==
  ASSUME NEW s \in Seq(Reqs), NEW r \in Reqs, r \notin ToSet(s), Distinct(s)
  PROVE  /\ Append(s, r) \in Seq(Reqs) /\ ToSet(Append(s, r)) = ToSet(s) \cup {r}
         /\ Distinct(Append(s, r)) /\ Len(Append(s, r)) = Len(s) + 1
<1> DEFINE t == Append(s, r)
<1>1. t \in Seq(Reqs) /\ Len(t) = Len(s) + 1 /\ t[Len(s) + 1] = r /\ \A i \in 1 .. Len(s) : t[i] = s[i]
  OBVIOUS
<1> HIDE DEF t
<1>2. ToSet(t) = ToSet(s) \cup {r}
  <2>1. \A q : q \in ToSet(t) => q \in ToSet(s) \cup {r}
    BY <1>1, InQueue
  <2>2. \A q \in ToSet(s) : q \in ToSet(t)
    <3> SUFFICES ASSUME NEW q \in ToSet(s) PROVE q \in ToSet(t)
      OBVIOUS
    <3>1. PICK i \in 1 .. Len(s) : s[i] = q
      BY InQueue
    <3>2. i \in 1 .. Len(t) /\ t[i] = q
      BY <1>1, <3>1, InQueue
    <3> QED
      BY <1>1, <3>2, InQueue
  <2>3. r \in ToSet(t)
    <3>1. Len(s) + 1 \in 1 .. Len(t)
      BY <1>1, InQueue
    <3> QED
      BY <1>1, <3>1, InQueue
  <2> QED
    BY <2>1, <2>2, <2>3
<1>3. Distinct(t)
  <2> SUFFICES ASSUME NEW i \in 1 .. Len(t), NEW j \in 1 .. Len(t), t[i] = t[j] PROVE i = j
    BY <1>1, InQueue DEF Distinct
  <2>1. \A k \in 1 .. Len(s) : s[k] \in ToSet(s) /\ s[k] # r
    BY InQueue
  <2>2. CASE i \in 1 .. Len(s) /\ j \in 1 .. Len(s)
    BY <1>1, <2>2, InQueue DEF Distinct
  <2>3. CASE i \notin 1 .. Len(s) \/ j \notin 1 .. Len(s)
    <3>1. i = Len(s) + 1 \/ j = Len(s) + 1
      BY <1>1, <2>3, InQueue
    <3>2. (i \in 1 .. Len(s) \/ i = Len(s) + 1) /\ (j \in 1 .. Len(s) \/ j = Len(s) + 1)
      BY <1>1, InQueue
    <3> QED
      BY <1>1, <2>1, <3>1, <3>2
  <2> QED
    BY <2>2, <2>3
<1> QED
  BY <1>1, <1>2, <1>3 DEF t

LEMMA TailQueue ==
  ASSUME NEW s \in Seq(Reqs), s # <<>>, Distinct(s)
  PROVE  /\ Tail(s) \in Seq(Reqs) /\ ToSet(Tail(s)) = ToSet(s) \ {Head(s)}
         /\ Distinct(Tail(s)) /\ Head(s) \in ToSet(s) /\ Head(s) = s[1] /\ Head(s) \in Reqs
         /\ Len(s) \in Nat \ {0} /\ Len(Tail(s)) = Len(s) - 1
         /\ \A i \in 1 .. Len(Tail(s)) : Tail(s)[i] = s[i + 1]
<1> DEFINE t == Tail(s)
<1>1. /\ t \in Seq(Reqs) /\ Len(t) = Len(s) - 1 /\ Len(s) \in Nat \ {0}
      /\ \A i \in 1 .. Len(s) - 1 : t[i] = s[i + 1]
      /\ Head(s) = s[1]
  OBVIOUS
<1>2. 1 \in 1 .. Len(s)
  BY <1>1
<1>3. Head(s) \in ToSet(s) /\ Head(s) \in Reqs
  BY <1>1, <1>2, InQueue
<1> HIDE DEF t
<1>4. Distinct(t)
  <2> SUFFICES ASSUME NEW i \in 1 .. Len(t), NEW j \in 1 .. Len(t), t[i] = t[j] PROVE i = j
    BY <1>1, InQueue DEF Distinct
  <2>1. i + 1 \in 1 .. Len(s) /\ j + 1 \in 1 .. Len(s) /\ s[i + 1] = s[j + 1]
    BY <1>1
  <2>2. i + 1 = j + 1
    BY <2>1, InQueue DEF Distinct
  <2> QED
    BY <2>2
<1>5. ASSUME NEW q PROVE q \in ToSet(t) <=> q \in ToSet(s) \ {s[1]}
  <2>1. ASSUME q \in ToSet(t) PROVE q \in ToSet(s) \ {s[1]}
    <3>1. PICK i \in 1 .. Len(t) : t[i] = q
      BY <1>1, <2>1, InQueue
    <3>2. i + 1 \in 1 .. Len(s) /\ s[i + 1] = q /\ i + 1 # 1
      BY <1>1, <3>1
    <3> QED
      BY <1>2, <3>2, InQueue DEF Distinct
  <2>2. ASSUME q \in ToSet(s), q # s[1] PROVE q \in ToSet(t)
    <3>1. PICK i \in 1 .. Len(s) : s[i] = q
      BY <2>2, InQueue
    <3>2. i - 1 \in 1 .. Len(t) /\ t[i - 1] = q
      BY <1>1, <2>2, <3>1
    <3> QED
      BY <1>1, <3>2, InQueue
  <2> QED
    BY <2>1, <2>2
<1> QED
  BY <1>1, <1>3, <1>4, <1>5 DEF t

(* SetAside.                                                               *)
LEMMA AsideQueue ==
  ASSUME NEW s \in Seq(Reqs), NEW r \in Reqs, r \notin ToSet(s), Distinct(s)
  PROVE  /\ <<r>> \o s \in Seq(Reqs) /\ ToSet(<<r>> \o s) = ToSet(s) \cup {r} /\ Distinct(<<r>> \o s)
         /\ Len(<<r>> \o s) = Len(s) + 1 /\ (<<r>> \o s)[1] = r
         /\ \A i \in 2 .. Len(s) + 1 : (<<r>> \o s)[i] = s[i - 1]
<1> DEFINE t == <<r>> \o s
<1>1. t \in Seq(Reqs) /\ Len(t) = Len(s) + 1 /\ t[1] = r /\ Len(s) \in Nat
  OBVIOUS
<1>2. \A i \in 2 .. Len(s) + 1 : t[i] = s[i - 1]
  OBVIOUS
<1> HIDE DEF t
<1>3. ToSet(t) = ToSet(s) \cup {r}
  <2>1. ASSUME NEW q \in ToSet(t) PROVE q \in ToSet(s) \cup {r}
    <3>1. PICK i \in 1 .. Len(t) : t[i] = q
      BY <1>1, InQueue
    <3>2. i = 1 \/ (i \in 2 .. Len(s) + 1 /\ i - 1 \in 1 .. Len(s))
      BY <1>1
    <3> QED
      BY <1>1, <1>2, <3>1, <3>2, InQueue
  <2>2. ASSUME NEW q \in ToSet(s) PROVE q \in ToSet(t)
    <3>1. PICK i \in 1 .. Len(s) : s[i] = q
      BY InQueue
    <3>2. i + 1 \in 2 .. Len(s) + 1 /\ (i + 1) - 1 = i /\ i + 1 \in 1 .. Len(t)
      BY <1>1
    <3>3. t[i + 1] = q
      BY <1>2, <3>1, <3>2
    <3> QED
      BY <1>1, <3>2, <3>3, InQueue
  <2>3. r \in ToSet(t)
    <3>1. 1 \in 1 .. Len(t)
      BY <1>1
    <3> QED
      BY <1>1, <3>1, InQueue
  <2> QED
    BY <2>1, <2>2, <2>3
<1>4. Distinct(t)
  <2> SUFFICES ASSUME NEW i \in 1 .. Len(t), NEW j \in 1 .. Len(t), t[i] = t[j] PROVE i = j
    BY <1>1, InQueue DEF Distinct
  <2>1. \A k \in 1 .. Len(s) : s[k] # r
    BY InQueue
  <2>2. /\ i = 1 \/ (i \in 2 .. Len(s) + 1 /\ i - 1 \in 1 .. Len(s))
        /\ j = 1 \/ (j \in 2 .. Len(s) + 1 /\ j - 1 \in 1 .. Len(s))
    BY <1>1
  <2>3. CASE i = 1 \/ j = 1
    BY <1>1, <1>2, <2>1, <2>2, <2>3
  <2>4. CASE i # 1 /\ j # 1
    <3>1. i - 1 \in 1 .. Len(s) /\ j - 1 \in 1 .. Len(s) /\ s[i - 1] = s[j - 1]
      BY <1>2, <2>2, <2>4
    <3>2. i - 1 = j - 1
      BY <3>1, InQueue DEF Distinct
    <3> QED
      BY <3>2
  <2> QED
    BY <2>3, <2>4
<1> QED
  BY <1>1, <1>2, <1>3, <1>4 DEF t

(* Unfinished.                                                             *)
KeptOf(queue, end, kept, n) ==
  CASE n = 0 -> <<>>
    [] n > 0 /\ end[queue[n]] = "no" -> Append(kept[n - 1], queue[n])
    [] OTHER -> kept[n - 1]
Keeps(queue, end, N, kept) == kept = [n \in 0 .. N |-> KeptOf(queue, end, kept, n)]

LEMMA KeepsExist ==
  ASSUME NEW queue, NEW end, NEW N \in Nat
  PROVE  \E kept : Keeps(queue, end, N, kept)
<1> DEFINE G == {m \in Nat : \E kept : Keeps(queue, end, m, kept)}
<1>1. 0 \in G
  <2> DEFINE g == [n \in 0 .. 0 |-> <<>>]
  <2>1. \A n \in 0 .. 0 : KeptOf(queue, end, g, n) = <<>>
    BY DEF KeptOf
  <2>2. g = [n \in 0 .. 0 |-> KeptOf(queue, end, g, n)]
    BY <2>1
  <2> HIDE DEF g
  <2> QED
    BY <2>2 DEF Keeps
<1>2. ASSUME NEW m \in Nat, m \in G PROVE m + 1 \in G
  <2>1. PICK g : Keeps(queue, end, m, g)
    BY <1>2
  <2> DEFINE h == [n \in 0 .. m + 1 |-> KeptOf(queue, end, g, n)]
  <2>2. ASSUME NEW n \in 0 .. m + 1 PROVE KeptOf(queue, end, g, n) = KeptOf(queue, end, h, n)
    <3>1. CASE n = 0
      BY <3>1 DEF KeptOf
    <3>2. CASE n > 0
      <4>1. n - 1 \in 0 .. m /\ n - 1 \in 0 .. m + 1
        BY <3>2
      <4>2. h[n - 1] = KeptOf(queue, end, g, n - 1)
        BY <4>1
      <4>3. g[n - 1] = KeptOf(queue, end, g, n - 1)
        BY <2>1, <4>1 DEF Keeps
      <4> HIDE DEF h
      <4> QED
        BY <3>2, <4>2, <4>3 DEF KeptOf
    <3> QED
      BY <3>1, <3>2
  <2>3. h = [n \in 0 .. m + 1 |-> KeptOf(queue, end, h, n)]
    BY <2>2
  <2> HIDE DEF h
  <2>4. Keeps(queue, end, m + 1, h)
    BY <2>3 DEF Keeps
  <2> QED
    BY <2>4
<1> HIDE DEF G
<1>3. N \in G
  BY <1>1, <1>2, FromZero
<1> QED
  BY <1>3 DEF G

LEMMA UnfinishedUnfolds ==
  ASSUME NEW queue, NEW end, Len(queue) \in Nat
  PROVE  \E kept : Keeps(queue, end, Len(queue), kept) /\ Unfinished(queue, end) = kept[Len(queue)]
<1> DEFINE f == CHOOSE kept : Keeps(queue, end, Len(queue), kept)
<1>1. Keeps(queue, end, Len(queue), f)
  BY KeepsExist, Zenon
<1>2. Unfinished(queue, end) = f[Len(queue)]
  BY DEF Unfinished, Keeps, KeptOf
<1> QED
  BY <1>1, <1>2

LEMMA UnfinishedQueue ==
  ASSUME NEW s \in Seq(Reqs), NEW end, Distinct(s)
  PROVE  /\ Unfinished(s, end) \in Seq(Reqs) /\ Distinct(Unfinished(s, end))
         /\ ToSet(Unfinished(s, end)) = {r \in ToSet(s) : end[r] = "no"}
<1>1. PICK kept : Keeps(s, end, Len(s), kept) /\ Unfinished(s, end) = kept[Len(s)]
  BY UnfinishedUnfolds, InQueue
<1> DEFINE G == {n \in 0 .. Len(s) :
                   /\ kept[n] \in Seq(Reqs) /\ Distinct(kept[n])
                   /\ \A r : r \in ToSet(kept[n]) <=> \E i \in 1 .. n : s[i] = r /\ end[r] = "no"}
<1>2. \A n \in 0 .. Len(s) : kept[n] = KeptOf(s, end, kept, n)
  BY <1>1 DEF Keeps
<1>3. 0 \in G
  <2>1. kept[0] = <<>>
    BY <1>2, InQueue DEF KeptOf
  <2>2. 0 \in 0 .. Len(s) /\ 1 .. 0 = {}
    BY InQueue
  <2> QED
    BY <2>1, <2>2, NoQueue
<1>4. ASSUME NEW m \in 0 .. Len(s) - 1, m \in G PROVE m + 1 \in G
  <2> DEFINE n == m + 1
  <2>1. /\ n \in 0 .. Len(s) /\ n \in 1 .. Len(s) /\ n > 0 /\ n # 0 /\ n - 1 = m
        /\ \A i \in 1 .. n : i \in 1 .. m \/ i = n
        /\ \A i \in 1 .. m : i \in 1 .. n /\ i \in 1 .. Len(s) /\ i # n
    BY InQueue
  <2>2. /\ kept[m] \in Seq(Reqs) /\ Distinct(kept[m])
        /\ \A r : r \in ToSet(kept[m]) <=> \E i \in 1 .. m : s[i] = r /\ end[r] = "no"
    BY <1>4
  <2>3. s[n] \in Reqs
    BY <2>1, InQueue
  <2> HIDE DEF n, G
  <2>4. CASE end[s[n]] = "no"
    <3>1. kept[n] = Append(kept[m], s[n])
      BY <1>2, <2>1, <2>4 DEF KeptOf
    <3>2. s[n] \notin ToSet(kept[m])
      BY <2>1, <2>2, InQueue DEF Distinct
    <3>3. kept[n] \in Seq(Reqs) /\ Distinct(kept[n]) /\ ToSet(kept[n]) = ToSet(kept[m]) \cup {s[n]}
      BY <2>2, <2>3, <3>1, <3>2, AppendQueue
    <3>4. n \in G
      BY <2>1, <2>2, <2>4, <3>3 DEF G
    <3> QED
      BY <3>4 DEF n
  <2>5. CASE end[s[n]] # "no"
    <3>1. kept[n] = kept[m]
      BY <1>2, <2>1, <2>5 DEF KeptOf
    <3>2. n \in G
      BY <2>1, <2>2, <2>5, <3>1 DEF G
    <3> QED
      BY <3>2 DEF n
  <2> QED
    BY <2>4, <2>5
<1>5. Len(s) \in G
  <2> HIDE DEF G
  <2> QED
    BY <1>3, <1>4, FromZero, InQueue
<1>6. ToSet(kept[Len(s)]) = {r \in ToSet(s) : end[r] = "no"}
  BY <1>5, InQueue
<1> QED
  BY <1>1, <1>5, <1>6

(* The requests that were set aside, in front of the others again.         *)
LEMMA RestoreQueue ==
  ASSUME NEW d \in Seq(Reqs), NEW w \in Seq(Reqs), Distinct(d), Distinct(w),
         ToSet(d) \cap ToSet(w) = {}
  PROVE  /\ Reverse(d) \o w \in Seq(Reqs)
         /\ ToSet(Reverse(d) \o w) = ToSet(d) \cup ToSet(w)
         /\ Distinct(Reverse(d) \o w)
         /\ Len(Reverse(d) \o w) = Len(d) + Len(w)
         /\ \A i \in 1 .. Len(d) + Len(w) :
              (Reverse(d) \o w)[i] = IF i <= Len(d) THEN d[Len(d) - i + 1] ELSE w[i - Len(d)]
<1> DEFINE v == Reverse(d)
           t == v \o w
           n == Len(d)
<1>1. n \in Nat /\ Len(w) \in Nat /\ \A i \in 1 .. n : d[i] \in Reqs /\ (n - i) + 1 \in 1 .. n
  BY InQueue
<1>2. v = [i \in 1 .. n |-> d[(n - i) + 1]]
  BY DEF Reverse
<1>3. v \in Seq(Reqs) /\ Len(v) = n /\ \A i \in 1 .. n : v[i] = d[(n - i) + 1]
  <2>1. v \in [1 .. n -> Reqs]
    BY <1>1, <1>2
  <2> HIDE DEF v
  <2>2. v \in Seq(Reqs)
    BY <1>1, <2>1
  <2>3. Len(v) = n
    BY <1>1, <2>1, <2>2
  <2> QED
    BY <1>2, <2>2, <2>3
<1> HIDE DEF v, n
<1>4. t \in Seq(Reqs) /\ Len(t) = n + Len(w)
  <2>1. v \in Seq(Reqs) /\ Len(v) = n
    BY <1>3
  <2>2. v \o w \in Seq(Reqs) /\ Len(v \o w) = Len(v) + Len(w)
    BY <2>1
  <2> QED
    BY <2>1, <2>2
<1>5. \A i \in 1 .. n + Len(w) : t[i] = IF i <= n THEN v[i] ELSE w[i - n]
  BY <1>1, <1>3
<1>6. \A i \in 1 .. n + Len(w) : t[i] = IF i <= n THEN d[n - i + 1] ELSE w[i - n]
  <2> SUFFICES ASSUME NEW i \in 1 .. n + Len(w), i <= n PROVE v[i] = d[n - i + 1]
    BY <1>5
  <2>1. i \in 1 .. n /\ n - i + 1 = (n - i) + 1
    BY <1>1
  <2> QED
    BY <1>3, <2>1
<1> HIDE DEF t
<1>7. ToSet(t) = ToSet(d) \cup ToSet(w)
  <2>1. ASSUME NEW q \in ToSet(t) PROVE q \in ToSet(d) \cup ToSet(w)
    <3>1. PICK i \in 1 .. n + Len(w) : t[i] = q
      BY <1>4, InQueue
    <3>2. CASE i <= n
      <4>1. n - i + 1 \in 1 .. n /\ d[n - i + 1] = q
        BY <1>1, <1>6, <3>1, <3>2
      <4> QED
        BY <4>1, InQueue DEF n
    <3>3. CASE ~(i <= n)
      <4>1. i - n \in 1 .. Len(w) /\ w[i - n] = q
        BY <1>1, <1>6, <3>1, <3>3
      <4> QED
        BY <4>1, InQueue
    <3> QED
      BY <3>2, <3>3
  <2>2. ASSUME NEW q \in ToSet(d) PROVE q \in ToSet(t)
    <3>1. PICK i \in 1 .. n : d[i] = q
      BY InQueue DEF n
    <3> DEFINE j == n - i + 1
    <3>2. j \in 1 .. n + Len(w) /\ j <= n /\ n - j + 1 = i
      BY <1>1
    <3> HIDE DEF j
    <3>3. t[j] = q
      BY <1>6, <3>1, <3>2
    <3> QED
      BY <1>4, <3>2, <3>3, InQueue
  <2>3. ASSUME NEW q \in ToSet(w) PROVE q \in ToSet(t)
    <3>1. PICK i \in 1 .. Len(w) : w[i] = q
      BY InQueue
    <3> DEFINE j == n + i
    <3>2. j \in 1 .. n + Len(w) /\ ~(j <= n) /\ j - n = i
      BY <1>1
    <3> HIDE DEF j
    <3>3. t[j] = q
      BY <1>6, <3>1, <3>2
    <3> QED
      BY <1>4, <3>2, <3>3, InQueue
  <2> QED
    BY <2>1, <2>2, <2>3
<1>8. Distinct(t)
  <2> SUFFICES ASSUME NEW i \in 1 .. n + Len(w), NEW j \in 1 .. n + Len(w), t[i] = t[j] PROVE i = j
    BY <1>4, InQueue DEF Distinct
  <2>1. \A k \in 1 .. n + Len(w) : k <= n => n - k + 1 \in 1 .. n /\ d[n - k + 1] \in ToSet(d)
    BY <1>1, InQueue DEF n
  <2>2. \A k \in 1 .. n + Len(w) : ~(k <= n) => k - n \in 1 .. Len(w) /\ w[k - n] \in ToSet(w)
    BY <1>1, InQueue
  <2>3. CASE i <= n /\ j <= n
    <3> DEFINE a == n - i + 1
               b == n - j + 1
    <3>1. a \in 1 .. n /\ b \in 1 .. n /\ d[a] = d[b]
      BY <1>6, <2>1, <2>3
    <3>2. a = b
      BY <3>1, InQueue DEF Distinct, n
    <3> QED
      BY <1>1, <3>2
  <2>4. CASE ~(i <= n) /\ ~(j <= n)
    <3>1. i - n = j - n
      BY <1>6, <2>2, <2>4, InQueue DEF Distinct
    <3> QED
      BY <1>1, <3>1
  <2>5. CASE (i <= n) # (j <= n)
    BY <1>6, <2>1, <2>2, <2>5
  <2> QED
    BY <2>3, <2>4, <2>5
<1> QED
  BY <1>4, <1>6, <1>7, <1>8 DEF t, v, n

-----------------------------------------------------------------------------
(* The inductive invariant, in parts.                                      *)

(* Types: TypeOK, but for the bound of the placeholders, which is a matter *)
(* of the ledger below; and no step has chosen more than the token budget. *)
Types ==
  /\ waiting \in Seq(Reqs) /\ running \in Seq(Reqs) /\ arrived \in Seq(Reqs) /\ deferred \in Seq(Reqs)
  /\ computed \in [Reqs -> Nat] /\ \A r \in Reqs : computed[r] <= Prompt[r]
  /\ outputs \in [Reqs -> Nat] /\ \A r \in Reqs : outputs[r] <= MaxTokens[r]
  /\ placeholders \in [Reqs -> Nat]
  /\ ended \in [Reqs -> {"no", "length", "stop"}]
  /\ inflight \in Seq([Reqs -> 0 .. Drafts + 1]) /\ Len(inflight) <= MaxInFlight
  /\ current \in 0 .. Interval - 1
  /\ latched \in BOOLEAN /\ defer \in BOOLEAN
  /\ phase \in {"idle", "running", "waiting", "end"}
  /\ index \in 1 .. Len(running) + 1
  /\ chosen \in [Reqs -> Nat] /\ SumFunctionOnSet(chosen, Reqs) <= TokenBudget
  /\ shortUsed \in 0 .. ShortTokens

(* The queues hold every request that has arrived and not ended, once.     *)
Alive == {r \in ToSet(arrived) : ended[r] = "no"}
Queues ==
  /\ Distinct(arrived) /\ Distinct(waiting) /\ Distinct(running) /\ Distinct(deferred)
  /\ ToSet(waiting) \cap ToSet(running) = {} /\ ToSet(waiting) \cap ToSet(deferred) = {}
  /\ ToSet(running) \cap ToSet(deferred) = {}
  /\ ToSet(waiting) \cup ToSet(running) \cup ToSet(deferred) = Alive
  /\ \A r \in Reqs : r \notin ToSet(arrived) => ended[r] = "no"

(* The requests that were set aside and those behind them wait in order of *)
(* arrival: glm_deferred holds them the other way round.                   *)
Order ==
  /\ \A i, j \in DOMAIN waiting : i < j => ArrivedBefore(waiting[i], waiting[j])
  /\ \A i, j \in DOMAIN deferred : i < j => ArrivedBefore(deferred[j], deferred[i])
  /\ \A i \in DOMAIN deferred, j \in DOMAIN waiting : ArrivedBefore(deferred[i], waiting[j])

(* What a step has not begun with, and what it does not begin without.     *)
Phases ==
  /\ phase = "idle" => chosen = Nothing /\ index = 1 /\ defer = FALSE /\ deferred = <<>>
  /\ phase = "running" => deferred = <<>>
  /\ phase # "idle" => Len(inflight) < MaxInFlight

(* A step schedules running requests, each once, and none that the step in *)
(* flight may finish.                                                      *)
Choosing ==
  /\ \A r \in Reqs : chosen[r] > 0 => r \in ToSet(running)
  /\ phase = "running" => \A i \in index .. Len(running) : chosen[running[i]] = 0
  /\ \A r \in Reqs : chosen[r] > 0 /\ ~IsPrefillChunk(r) =>
       chosen[r] <= Drafts + 1 /\ ~Holds(r) /\ ~SurelyDone(r)

(* Prompts first: a request decodes when its prompt is computed.           *)
Progress ==
  /\ \A r \in Reqs : r \notin ToSet(running) /\ ended[r] = "no" => computed[r] = 0
  /\ \A r \in Reqs : IsPrefillChunk(r) =>
       outputs[r] = 0 /\ placeholders[r] = 0 /\ \A i \in 1 .. Len(inflight) : inflight[i][r] = 0
  /\ \A r \in Reqs \ Unbounded : ended[r] = "no" => outputs[r] < MaxTokens[r]
  /\ \A r \in Unbounded : ended[r] # "length"

(* The ledger of a request: how many tokens the first steps in flight may  *)
(* give it.  All of them are its placeholders; and a step that does not    *)
(* come next is in flight only if those before it may not finish it.       *)
Ledger(sum, r) ==
  /\ sum \in [0 .. Len(inflight) -> Nat]
  /\ sum[0] = 0 /\ sum[Len(inflight)] = placeholders[r]
  /\ \A k \in 1 .. Len(inflight) : sum[k] = sum[k - 1] + inflight[k][r]
  /\ \A i, j \in 0 .. Len(inflight) :
       i <= j => sum[i] <= sum[j] /\ sum[j] - sum[i] <= (j - i) * (Drafts + 1)
  /\ EndDrain /\ r \notin Structured \cup Unbounded =>
       \A k \in 2 .. Len(inflight) : inflight[k][r] > 0 => outputs[r] + sum[k - 1] < MaxTokens[r]
Ledgers ==
  /\ \A r \in Reqs : ended[r] = "no" => \E sum : Ledger(sum, r)
  /\ \A r \in Reqs : placeholders[r] <= MaxInFlight * (Drafts + 1)

Inv == Types /\ Queues /\ Phases /\ Choosing /\ Progress /\ Ledgers

-----------------------------------------------------------------------------
LEMMA Constants ==
  /\ Structured \subseteq Reqs /\ Unbounded \subseteq Reqs
  /\ Interval \in Nat \ {0} /\ ShortTokens \in Nat /\ Drafts \in Nat /\ MaxRunning \in Nat \ {0}
  /\ MaxInFlight \in Nat \ {0} /\ TokenBudget \in Nat \ {0} /\ ShortTokens < TokenBudget
  /\ EndDrain \in BOOLEAN /\ WhenQueued \in BOOLEAN /\ CanFill \in BOOLEAN
  /\ \A r \in Reqs : /\ Prompt[r] \in Nat \ {0} /\ MaxTokens[r] \in Nat \ {0}
                     /\ Cached[r] \in Nat /\ Cached[r] < Prompt[r]
  BY SchedAssumption

(* The types of what is kept of one request, and of what is in flight.     *)
LEMMA FieldTypes ==
  ASSUME Types, NEW r \in Reqs
  PROVE  /\ computed[r] \in Nat /\ outputs[r] \in Nat /\ placeholders[r] \in Nat /\ chosen[r] \in Nat
         /\ computed[r] <= Prompt[r] /\ outputs[r] <= MaxTokens[r]
         /\ ended[r] \in {"no", "length", "stop"}
<1>1. computed \in [Reqs -> Nat] /\ \A q \in Reqs : computed[q] <= Prompt[q]
  BY DEF Types
<1>2. outputs \in [Reqs -> Nat] /\ \A q \in Reqs : outputs[q] <= MaxTokens[q]
  BY DEF Types
<1>3. placeholders \in [Reqs -> Nat] /\ chosen \in [Reqs -> Nat] /\ ended \in [Reqs -> {"no", "length", "stop"}]
  BY DEF Types
<1> QED
  BY <1>1, <1>2, <1>3

LEMMA InFlightTypes ==
  ASSUME Types
  PROVE  /\ inflight \in Seq([Reqs -> 0 .. Drafts + 1]) /\ Len(inflight) \in Nat
         /\ \A i \in 1 .. Len(inflight) : inflight[i] \in [Reqs -> 0 .. Drafts + 1]
<1>1. inflight \in Seq([Reqs -> 0 .. Drafts + 1])
  BY DEF Types
<1> QED
  BY <1>1

LEMMA LeastIs == ASSUME NEW a \in Int, NEW b \in Int PROVE Least(a, b) \in {a, b} /\ Least(a, b) <= a /\ Least(a, b) <= b
  BY DEF Least

LEMMA BudgetIs ==
  ASSUME Types
  PROVE  Budget = TokenBudget - SumFunctionOnSet(chosen, Reqs) /\ Budget \in 0 .. TokenBudget
<1>1. chosen \in [Reqs -> Nat] /\ SumFunctionOnSet(chosen, Reqs) <= TokenBudget
  BY DEF Types
<1>2. SumFunctionOnSet(chosen, Reqs) \in Nat
  BY <1>1, SumNat
<1>3. Budget = TokenBudget - SumFunctionOnSet(chosen, Reqs)
  BY <1>1 DEF Budget, SumFunction
<1> QED
  BY <1>1, <1>2, <1>3, Constants

-----------------------------------------------------------------------------
(* What the actions do, in the terms of the proofs.                        *)

(* The oldest step returns.                                                *)
Accepts(r) ==
  \/ /\ ended[r] # "no" \/ inflight[1][r] = 0
     /\ outputs'[r] = outputs[r] /\ ended'[r] = ended[r] /\ placeholders'[r] = placeholders[r]
  \/ /\ ended[r] = "no" /\ inflight[1][r] > 0 /\ r \in Unbounded
     /\ outputs'[r] = outputs[r] /\ ended'[r] \in {"no", "stop"}
     /\ placeholders'[r] = placeholders[r] - inflight[1][r]
  \/ /\ ended[r] = "no" /\ inflight[1][r] > 0 /\ r \notin Unbounded
     /\ \E a \in 1 .. inflight[1][r] : outputs'[r] = Least(outputs[r] + a, MaxTokens[r])
     /\ ended'[r] \in IF outputs'[r] = MaxTokens[r] THEN {"length"} ELSE {"no", "stop"}
     /\ placeholders'[r] = placeholders[r] - inflight[1][r]

LEMMA ReturnSteps ==
  ASSUME Types, Return
  PROVE  /\ inflight # <<>> /\ Len(inflight) \in Nat \ {0} /\ inflight[1] \in [Reqs -> 0 .. Drafts + 1]
         /\ inflight' = Tail(inflight) /\ inflight' \in Seq([Reqs -> 0 .. Drafts + 1])
         /\ Len(inflight') = Len(inflight) - 1
         /\ \A k \in 1 .. Len(inflight) - 1 : inflight'[k] = inflight[k + 1]
         /\ \A r \in Reqs : Accepts(r)
         /\ \A r \in Reqs : ended[r] # "no" => ended'[r] = ended[r]
         /\ DOMAIN outputs' = Reqs /\ DOMAIN placeholders' = Reqs /\ DOMAIN ended' = Reqs
         /\ outputs' = [r \in Reqs |-> outputs'[r]] /\ placeholders' = [r \in Reqs |-> placeholders'[r]]
         /\ ended' = [r \in Reqs |-> ended'[r]]
<1>1. /\ inflight # <<>> /\ Len(inflight) \in Nat \ {0}
      /\ Head(inflight) = inflight[1] /\ inflight[1] \in [Reqs -> 0 .. Drafts + 1]
      /\ inflight' = Tail(inflight) /\ inflight' \in Seq([Reqs -> 0 .. Drafts + 1])
      /\ Len(inflight') = Len(inflight) - 1
      /\ \A k \in 1 .. Len(inflight) - 1 : inflight'[k] = inflight[k + 1]
  <2>1. inflight \in Seq([Reqs -> 0 .. Drafts + 1]) /\ inflight # <<>> /\ inflight' = Tail(inflight)
    BY DEF Types, Return
  <2>2. Len(inflight) \in Nat \ {0} /\ Head(inflight) = inflight[1] /\ inflight[1] \in [Reqs -> 0 .. Drafts + 1]
    BY <2>1
  <2>3. /\ Tail(inflight) \in Seq([Reqs -> 0 .. Drafts + 1]) /\ Len(Tail(inflight)) = Len(inflight) - 1
        /\ \A k \in 1 .. Len(inflight) - 1 : Tail(inflight)[k] = inflight[k + 1]
    BY <2>1
  <2> QED
    BY <2>1, <2>2, <2>3
<1> DEFINE step == Head(inflight)
           out == {r \in Reqs : step[r] > 0 /\ ended[r] = "no"}
           counted == out \ Unbounded
<1>2. PICK accepted \in [out -> 1 .. Drafts + 1], stop \in SUBSET out :
        /\ \A r \in out : accepted[r] <= step[r]
        /\ outputs' = [r \in Reqs |-> IF r \in counted THEN Least(outputs[r] + accepted[r], MaxTokens[r])
                                      ELSE outputs[r]]
        /\ placeholders' = [r \in Reqs |-> placeholders[r] - (IF r \in out THEN step[r] ELSE 0)]
        /\ ended' = [r \in Reqs |-> CASE r \in counted /\ outputs'[r] = MaxTokens[r] -> "length"
                                      [] r \in stop /\ outputs'[r] < MaxTokens[r] -> "stop"
                                      [] OTHER -> ended[r]]
  BY Zenon DEF Return
<1>3. DOMAIN outputs' = Reqs /\ DOMAIN placeholders' = Reqs /\ DOMAIN ended' = Reqs
  BY <1>2
<1>7. /\ outputs' = [r \in Reqs |-> outputs'[r]] /\ placeholders' = [r \in Reqs |-> placeholders'[r]]
      /\ ended' = [r \in Reqs |-> ended'[r]]
  BY <1>2
<1>4. ASSUME NEW r \in Reqs PROVE Accepts(r) /\ (ended[r] # "no" => ended'[r] = ended[r])
  <2>1. /\ step[r] \in 0 .. Drafts + 1 /\ outputs[r] \in Nat /\ placeholders[r] \in Nat
        /\ ended[r] \in {"no", "length", "stop"} /\ outputs[r] <= MaxTokens[r]
        /\ MaxTokens[r] \in Nat \ {0}
    BY <1>1, Constants DEF Types
  <2>2. /\ outputs'[r] = IF r \in counted THEN Least(outputs[r] + accepted[r], MaxTokens[r]) ELSE outputs[r]
        /\ placeholders'[r] = placeholders[r] - (IF r \in out THEN step[r] ELSE 0)
        /\ ended'[r] = CASE r \in counted /\ outputs'[r] = MaxTokens[r] -> "length"
                         [] r \in stop /\ outputs'[r] < MaxTokens[r] -> "stop"
                         [] OTHER -> ended[r]
    BY <1>2
  <2>3. CASE r \notin out
    <3>1. ended[r] # "no" \/ step[r] = 0
      BY <2>1, <2>3
    <3>2. placeholders'[r] = placeholders[r] /\ outputs'[r] = outputs[r]
      BY <2>1, <2>2, <2>3
    <3>3. ended'[r] = ended[r]
      BY <2>2, <2>3
    <3> QED
      BY <3>1, <3>2, <3>3 DEF Accepts
  <2>4. CASE r \in out /\ r \in Unbounded
    <3>1. ended[r] = "no" /\ step[r] > 0
      BY <2>4
    <3>2. outputs'[r] = outputs[r] /\ placeholders'[r] = placeholders[r] - step[r]
      BY <2>2, <2>4
    <3>3. ended'[r] \in {"no", "stop"}
      BY <2>2, <2>4
    <3> QED
      BY <3>1, <3>2, <3>3, <2>4 DEF Accepts
  <2>5. CASE r \in out /\ r \notin Unbounded
    <3>1. ended[r] = "no" /\ step[r] > 0
      BY <2>5
    <3>2. accepted[r] \in 1 .. step[r]
      BY <1>2, <2>1, <2>5, Constants
    <3>3. outputs'[r] = Least(outputs[r] + accepted[r], MaxTokens[r]) /\ placeholders'[r] = placeholders[r] - step[r]
      BY <2>2, <2>5
    <3>5. accepted[r] \in Nat /\ outputs'[r] \in Nat /\ outputs'[r] <= MaxTokens[r]
      BY <2>1, <3>2, <3>3, LeastIs DEF Least
    <3>6. ASSUME outputs'[r] = MaxTokens[r] PROVE ended'[r] = "length"
      BY <2>1, <2>2, <2>5, <3>5, <3>6
    <3>7. ASSUME outputs'[r] # MaxTokens[r] PROVE ended'[r] \in {"no", "stop"}
      BY <2>2, <2>5, <3>1, <3>7
    <3>4. ended'[r] \in IF outputs'[r] = MaxTokens[r] THEN {"length"} ELSE {"no", "stop"}
      BY <3>6, <3>7
    <3> QED
      BY <3>1, <3>2, <3>3, <3>4, <2>5 DEF Accepts
  <2> QED
    BY <2>3, <2>4, <2>5
<1> QED
  BY <1>1, <1>3, <1>4, <1>7

(* The running loop leaves a request out, or chooses a chunk of its prompt *)
(* or a decode step.                                                       *)
LeavesOut(r) ==
  /\ chosen' = chosen /\ shortUsed' = shortUsed
  /\ IF IsPrefillChunk(r) THEN defer ELSE Holds(r) \/ SurelyDone(r)
ChoosesChunk(r) ==
  /\ IsPrefillChunk(r)
  /\ \E v \in Nat : /\ v <= Prompt[r] - computed[r] /\ v <= Budget
                    /\ chosen' = [chosen EXCEPT ![r] = v]
  /\ IF defer THEN /\ AdmitShort(Prompt[r] - computed[r])
                   /\ shortUsed' = shortUsed + (Prompt[r] - computed[r])
     ELSE shortUsed' = shortUsed
ChoosesDecode(r) ==
  /\ ~IsPrefillChunk(r) /\ ~Holds(r) /\ ~SurelyDone(r)
  /\ \E v \in Nat \ {0} : /\ v <= Drafts + 1 /\ v <= Budget
                          /\ chosen' = [chosen EXCEPT ![r] = v]
  /\ shortUsed' = shortUsed

LEMMA RunningSteps ==
  ASSUME Types, ScheduleRunning
  PROVE  /\ index \in 1 .. Len(running) /\ running[index] \in Reqs /\ running[index] \in ToSet(running)
         /\ Budget > 0 /\ index' = index + 1
         /\ \/ LeavesOut(running[index]) \/ ChoosesChunk(running[index]) \/ ChoosesDecode(running[index])
<1> DEFINE r == running[index]
           remaining == Prompt[r] - computed[r]
<1>1. index \in 1 .. Len(running) /\ Budget > 0
  BY DEF Types, ScheduleRunning
<1>2. r \in Reqs /\ r \in ToSet(running)
  <2>1. running \in Seq(Reqs)
    BY DEF Types
  <2> QED
    BY <1>1, <2>1, InQueue
<1>3. IF IsPrefillChunk(r)
      THEN IF defer /\ ~AdmitShort(remaining)
           THEN Skip
           ELSE /\ chosen' = [chosen EXCEPT ![r] = Least(remaining, Budget)]
                /\ shortUsed' = IF defer THEN shortUsed + remaining ELSE shortUsed
                /\ index' = index + 1
      ELSE IF Holds(r) \/ SurelyDone(r)
           THEN Skip
           ELSE /\ chosen' = [chosen EXCEPT ![r] = Least(1 + Drafts, Budget)]
                /\ index' = index + 1
                /\ UNCHANGED shortUsed
  BY DEF ScheduleRunning
<1>4. /\ computed[r] \in Nat /\ Prompt[r] \in Nat /\ computed[r] <= Prompt[r]
      /\ Budget \in Nat /\ remaining \in Nat /\ Drafts \in Nat /\ 1 + Drafts = Drafts + 1
      /\ 1 + Drafts \in Nat /\ 1 + Drafts > 0
  <2>1. computed \in [Reqs -> Nat] /\ computed[r] <= Prompt[r]
    BY <1>2 DEF Types
  <2>2. Budget \in Nat /\ Drafts \in Nat /\ Prompt[r] \in Nat
    BY <1>2, Constants, BudgetIs
  <2> HIDE DEF r
  <2> QED
    BY <1>2, <2>1, <2>2
<1> HIDE DEF r, remaining
<1>5. ASSUME IsPrefillChunk(r), defer /\ ~AdmitShort(remaining)
      PROVE  index' = index + 1 /\ LeavesOut(r)
  <2>1. Skip
    BY <1>3, <1>5
  <2> QED
    BY <2>1, <1>5 DEF Skip, LeavesOut
<1>6. ASSUME IsPrefillChunk(r), ~(defer /\ ~AdmitShort(remaining))
      PROVE  index' = index + 1 /\ ChoosesChunk(r)
  <2> DEFINE v == Least(remaining, Budget)
  <2>1. v \in Nat /\ v <= remaining /\ v <= Budget
    BY <1>4, LeastIs DEF Least
  <2>2. /\ chosen' = [chosen EXCEPT ![r] = v] /\ index' = index + 1
        /\ shortUsed' = IF defer THEN shortUsed + remaining ELSE shortUsed
    BY <1>3, <1>6
  <2> HIDE DEF v
  <2> QED
    BY <1>6, <2>1, <2>2 DEF ChoosesChunk, remaining
<1>7. ASSUME ~IsPrefillChunk(r), Holds(r) \/ SurelyDone(r)
      PROVE  index' = index + 1 /\ LeavesOut(r)
  <2>1. Skip
    BY <1>3, <1>7
  <2> QED
    BY <2>1, <1>7 DEF Skip, LeavesOut
<1>8. ASSUME ~IsPrefillChunk(r), ~(Holds(r) \/ SurelyDone(r))
      PROVE  index' = index + 1 /\ ChoosesDecode(r)
  <2> DEFINE v == Least(1 + Drafts, Budget)
  <2>1. v \in Nat \ {0} /\ v <= Drafts + 1 /\ v <= Budget
    BY <1>1, <1>4 DEF Least
  <2>2. chosen' = [chosen EXCEPT ![r] = v] /\ index' = index + 1 /\ shortUsed' = shortUsed
    BY <1>3, <1>8
  <2> HIDE DEF v
  <2> QED
    BY <1>8, <2>1, <2>2 DEF ChoosesDecode
<1>9. index' = index + 1 /\ (LeavesOut(r) \/ ChoosesChunk(r) \/ ChoosesDecode(r))
  BY <1>5, <1>6, <1>7, <1>8
<1> QED
  BY <1>1, <1>2, <1>9 DEF r

(* The waiting loop admits the request at the front.                       *)
Admits(r, c, v) ==
  /\ r = Head(waiting) /\ r \in ToSet(waiting) /\ r \in Reqs /\ waiting # <<>>
  /\ c \in Nat /\ c < Prompt[r] /\ v \in Nat /\ v <= Prompt[r] - c /\ v <= Budget
  /\ chosen' = [chosen EXCEPT ![r] = v] /\ computed' = [computed EXCEPT ![r] = c]
  /\ running' = Append(running, r) /\ waiting' = Tail(waiting)
  /\ IF defer /\ c < Prompt[r] - 1
     THEN AdmitShort(Prompt[r] - c) /\ shortUsed' = shortUsed + (Prompt[r] - c)
     ELSE shortUsed' = shortUsed

LEMMA AdmitSteps ==
  ASSUME Types, AdmitWaiting
  PROVE  \E r, c, v : Admits(r, c, v)
<1> DEFINE r == Head(waiting)
<1>1. waiting \in Seq(Reqs) /\ waiting # <<>> /\ waiting' = Tail(waiting)
  BY DEF Types, AdmitWaiting, MayAdmit
<1>2. r \in Reqs /\ r = waiting[1] /\ 1 \in 1 .. Len(waiting)
  BY <1>1
<1>3. r \in ToSet(waiting)
  BY <1>1, <1>2, InQueue
<1>4. PICK c \in {0, Cached[r]} :
        /\ ~TooLong(r, c)
        /\ shortUsed' = IF defer /\ c < Prompt[r] - 1 THEN shortUsed + Prompt[r] - c ELSE shortUsed
        /\ chosen' = [chosen EXCEPT ![r] = Least(Prompt[r] - c, Budget)]
        /\ computed' = [computed EXCEPT ![r] = c]
        /\ running' = Append(running, r)
  BY DEF AdmitWaiting
<1> DEFINE v == Least(Prompt[r] - c, Budget)
<1>5. c \in Nat /\ c < Prompt[r] /\ Prompt[r] \in Nat /\ Budget \in Nat /\ shortUsed \in Nat
  <2>1. shortUsed \in Nat
    BY Constants DEF Types
  <2>2. Budget \in Nat /\ Prompt[r] \in Nat /\ Cached[r] \in Nat /\ Cached[r] < Prompt[r] /\ 0 < Prompt[r]
    BY <1>2, Constants, BudgetIs
  <2> QED
    BY <2>1, <2>2
<1>6. v \in Nat /\ v <= Prompt[r] - c /\ v <= Budget
  BY <1>5 DEF Least
<1>7. IF defer /\ c < Prompt[r] - 1
      THEN AdmitShort(Prompt[r] - c) /\ shortUsed' = shortUsed + (Prompt[r] - c)
      ELSE shortUsed' = shortUsed
  <2>1. shortUsed + Prompt[r] - c = shortUsed + (Prompt[r] - c)
    BY <1>5
  <2> QED
    BY <1>4, <2>1 DEF TooLong
<1> HIDE DEF r, v
<1>8. Admits(r, c, v)
  BY <1>1, <1>2, <1>3, <1>4, <1>5, <1>6, <1>7 DEF Admits, r, v
<1> QED
  BY <1>8

-----------------------------------------------------------------------------
(* The queues.                                                             *)
QueueTypes == waiting \in Seq(Reqs) /\ running \in Seq(Reqs) /\ arrived \in Seq(Reqs) /\ deferred \in Seq(Reqs)

(* A request that does not run gets no tokens from any step in flight.     *)
LEMMA OnlyRunningGet ==
  ASSUME Types, Progress, NEW r \in Reqs, r \notin ToSet(running), ended[r] = "no"
  PROVE  IsPrefillChunk(r) /\ \A i \in 1 .. Len(inflight) : inflight[i][r] = 0
<1>1. computed[r] = 0 /\ Prompt[r] > 0
  BY Constants DEF Progress
<1>2. IsPrefillChunk(r)
  BY <1>1 DEF IsPrefillChunk
<1> QED
  BY <1>2 DEF Progress

LEMMA ArriveQueues ==
  ASSUME Types, Queues, NEW r \in Reqs, Arrive(r)
  PROVE  QueueTypes' /\ Queues'
<1>1. /\ r \notin ToSet(arrived) /\ arrived' = Append(arrived, r) /\ waiting' = Append(waiting, r)
      /\ UNCHANGED <<running, deferred, ended>>
  BY DEF Arrive
<1>2. r \notin ToSet(waiting) /\ r \notin ToSet(running) /\ r \notin ToSet(deferred) /\ ended[r] = "no"
  BY <1>1 DEF Queues, Alive
<1>3. waiting' \in Seq(Reqs) /\ ToSet(waiting') = ToSet(waiting) \cup {r} /\ Distinct(waiting')
  BY <1>1, <1>2, AppendQueue DEF Types, Queues
<1>4. arrived' \in Seq(Reqs) /\ ToSet(arrived') = ToSet(arrived) \cup {r} /\ Distinct(arrived')
  BY <1>1, AppendQueue DEF Types, Queues
<1>5. running' = running /\ deferred' = deferred /\ ended' = ended
  BY <1>1
<1>6. ToSet(waiting') \cup ToSet(running') \cup ToSet(deferred') = Alive'
  BY <1>2, <1>3, <1>4, <1>5 DEF Queues, Alive
<1>7. QueueTypes'
  BY <1>3, <1>4, <1>5 DEF QueueTypes, Types
<1> QED
  BY <1>2, <1>3, <1>4, <1>5, <1>6, <1>7 DEF Queues

LEMMA ReturnQueues ==
  ASSUME Types, Queues, Progress, Return
  PROVE  QueueTypes' /\ Queues'
<1>1. running' = Unfinished(running, ended') /\ waiting' = waiting /\ arrived' = arrived /\ deferred' = deferred
  BY DEF Return
<1>2. running \in Seq(Reqs) /\ Distinct(running)
  BY DEF Types, Queues
<1>3. /\ running' \in Seq(Reqs) /\ Distinct(running')
      /\ ToSet(running') = {r \in ToSet(running) : ended'[r] = "no"}
  BY <1>1, <1>2, UnfinishedQueue
<1>4. /\ \A r \in Reqs : Accepts(r) /\ (ended[r] # "no" => ended'[r] = ended[r])
      /\ Len(inflight) \in Nat \ {0}
  BY ReturnSteps
<1>5. ASSUME NEW r \in Reqs, r \notin ToSet(running) PROVE ended'[r] = ended[r]
  <2>1. CASE ended[r] = "no"
    <3>1. inflight[1][r] = 0
      BY <1>4, <1>5, <2>1, OnlyRunningGet
    <3> QED
      BY <1>4, <3>1 DEF Accepts
  <2> QED
    BY <2>1, <1>4
<1>6. ToSet(waiting) \subseteq Reqs /\ ToSet(deferred) \subseteq Reqs /\ ToSet(arrived) \subseteq Reqs
  BY InQueue DEF Types
<1>7. ToSet(waiting') \cup ToSet(running') \cup ToSet(deferred') = Alive'
  <2>1. \A r \in ToSet(waiting) \cup ToSet(deferred) : r \in ToSet(arrived) /\ ended'[r] = "no"
    BY <1>5, <1>6 DEF Queues, Alive
  <2>2. \A r \in ToSet(running) : r \in ToSet(arrived)
    BY DEF Queues, Alive
  <2>3. \A r \in ToSet(arrived) : ended'[r] = "no" => ended[r] = "no"
    BY <1>4, <1>6
  <2>4. \A r \in ToSet(arrived) : ended[r] = "no" => r \in ToSet(waiting) \cup ToSet(running) \cup ToSet(deferred)
    BY DEF Queues, Alive
  <2>5. Alive' = {r \in ToSet(arrived) : ended'[r] = "no"}
    BY <1>1 DEF Alive
  <2> QED
    BY <1>1, <1>3, <2>1, <2>2, <2>3, <2>4, <2>5
<1>8. \A r \in Reqs : r \notin ToSet(arrived') => ended'[r] = "no"
  <2> SUFFICES ASSUME NEW r \in Reqs, r \notin ToSet(arrived) PROVE ended'[r] = "no"
    BY <1>1
  <2>1. ended[r] = "no" /\ r \notin ToSet(running)
    BY DEF Queues, Alive
  <2> QED
    BY <2>1, <1>5
<1>9. QueueTypes'
  BY <1>1, <1>3 DEF QueueTypes, Types
<1> QED
  BY <1>1, <1>3, <1>7, <1>8, <1>9 DEF Queues

LEMMA DeferQueues ==
  ASSUME Types, Queues, DeferWaiting
  PROVE  QueueTypes' /\ Queues'
<1> DEFINE r == Head(waiting)
<1>1. UNCHANGED <<running, arrived, ended>> /\ waiting # <<>>
  BY DEF DeferWaiting, MayAdmit, requests
<1>2. CASE waiting' = waiting /\ deferred' = deferred
  BY <1>1, <1>2 DEF QueueTypes, Types, Queues, Alive
<1>3. CASE waiting' = Tail(waiting) /\ deferred' = SetAside(r)
  <2>1. /\ waiting' \in Seq(Reqs) /\ ToSet(waiting') = ToSet(waiting) \ {r} /\ Distinct(waiting')
        /\ r \in ToSet(waiting) /\ r \in Reqs
    BY <1>1, <1>3, TailQueue DEF Types, Queues
  <2>2. r \notin ToSet(deferred) /\ r \notin ToSet(running)
    BY <2>1 DEF Queues
  <2>3. deferred \in Seq(Reqs) /\ Distinct(deferred)
    BY DEF Types, Queues
  <2> HIDE DEF r
  <2>4. deferred' \in Seq(Reqs) /\ ToSet(deferred') = ToSet(deferred) \cup {r} /\ Distinct(deferred')
    BY <1>3, <2>1, <2>2, <2>3, AsideQueue DEF SetAside
  <2>5. running' = running /\ arrived' = arrived /\ ended' = ended
    BY <1>1
  <2>6. ToSet(waiting') \cup ToSet(running') \cup ToSet(deferred') = Alive'
    BY <2>1, <2>4, <2>5 DEF Queues, Alive
  <2>7. QueueTypes'
    BY <2>1, <2>4, <2>5 DEF QueueTypes, Types
  <2>8. /\ ToSet(waiting') \cap ToSet(running') = {} /\ ToSet(waiting') \cap ToSet(deferred') = {}
        /\ ToSet(running') \cap ToSet(deferred') = {}
    BY <2>1, <2>2, <2>4, <2>5 DEF Queues
  <2> QED
    BY <2>1, <2>4, <2>5, <2>6, <2>7, <2>8 DEF Queues
<1> QED
  BY <1>2, <1>3 DEF DeferWaiting

LEMMA AdmitQueues ==
  ASSUME Types, Queues, AdmitWaiting
  PROVE  QueueTypes' /\ Queues'
<1>1. PICK r, c, v : Admits(r, c, v)
  BY AdmitSteps
<1>2. r = Head(waiting) /\ r \in Reqs /\ waiting # <<>> /\ running' = Append(running, r) /\ waiting' = Tail(waiting)
  BY <1>1 DEF Admits
<1>3. arrived' = arrived /\ deferred' = deferred /\ ended' = ended
  BY DEF AdmitWaiting
<1>4. /\ waiting' \in Seq(Reqs) /\ ToSet(waiting') = ToSet(waiting) \ {r} /\ Distinct(waiting')
      /\ r \in ToSet(waiting)
  BY <1>2, TailQueue DEF Types, Queues
<1>5. r \notin ToSet(deferred) /\ r \notin ToSet(running)
  BY <1>4 DEF Queues
<1>6. running' \in Seq(Reqs) /\ ToSet(running') = ToSet(running) \cup {r} /\ Distinct(running')
  BY <1>2, <1>5, AppendQueue DEF Types, Queues
<1>7. ToSet(waiting') \cup ToSet(running') \cup ToSet(deferred') = Alive'
  BY <1>3, <1>4, <1>6 DEF Queues, Alive
<1>8. QueueTypes'
  BY <1>3, <1>4, <1>6 DEF QueueTypes, Types
<1>9. /\ ToSet(waiting') \cap ToSet(running') = {} /\ ToSet(waiting') \cap ToSet(deferred') = {}
      /\ ToSet(running') \cap ToSet(deferred') = {}
  BY <1>3, <1>4, <1>5, <1>6 DEF Queues
<1> QED
  BY <1>3, <1>4, <1>6, <1>7, <1>8, <1>9 DEF Queues

LEMMA EndQueues ==
  ASSUME Types, Queues, EndStep
  PROVE  QueueTypes' /\ Queues'
<1>1. /\ waiting' = Reverse(deferred) \o waiting /\ deferred' = <<>>
      /\ running' = running /\ arrived' = arrived /\ ended' = ended
  BY DEF EndStep, RestoreDeferred
<1>2. /\ waiting' \in Seq(Reqs) /\ ToSet(waiting') = ToSet(deferred) \cup ToSet(waiting) /\ Distinct(waiting')
  <2>1. /\ deferred \in Seq(Reqs) /\ waiting \in Seq(Reqs) /\ Distinct(deferred) /\ Distinct(waiting)
        /\ ToSet(deferred) \cap ToSet(waiting) = {}
    BY DEF Types, Queues
  <2> QED
    BY <1>1, <2>1, RestoreQueue
<1>3. deferred' \in Seq(Reqs) /\ ToSet(deferred') = {} /\ Distinct(deferred')
  BY <1>1, NoQueue
<1>4. ToSet(waiting') \cup ToSet(running') \cup ToSet(deferred') = Alive'
  BY <1>1, <1>2, <1>3 DEF Queues, Alive
<1>5. QueueTypes'
  BY <1>1, <1>2, <1>3 DEF QueueTypes, Types
<1>6. /\ ToSet(waiting') \cap ToSet(running') = {} /\ ToSet(waiting') \cap ToSet(deferred') = {}
      /\ ToSet(running') \cap ToSet(deferred') = {}
  BY <1>1, <1>2, <1>3 DEF Queues
<1> QED
  BY <1>1, <1>2, <1>3, <1>4, <1>5, <1>6 DEF Queues

LEMMA StepQueues ==
  ASSUME Types, Queues, Progress, [Next]_vars
  PROVE  QueueTypes' /\ Queues'
<1>1. ASSUME UNCHANGED <<waiting, running, arrived, deferred, ended>> PROVE QueueTypes' /\ Queues'
  BY <1>1 DEF QueueTypes, Types, Queues, Alive
<1>2. ASSUME NEW r \in Reqs, Arrive(r) PROVE QueueTypes' /\ Queues'
  BY <1>2, ArriveQueues
<1>3. CASE Return
  BY <1>3, ReturnQueues
<1>4. CASE DeferWaiting
  BY <1>4, DeferQueues
<1>5. CASE AdmitWaiting
  BY <1>5, AdmitQueues
<1>6. CASE EndStep
  BY <1>6, EndQueues
<1>7. CASE BeginStep
  BY <1>7, <1>1 DEF BeginStep, requests
<1>8. CASE ScheduleRunning
  BY <1>8, <1>1 DEF ScheduleRunning, requests
<1>9. CASE RunningDone \/ NoRoom \/ WaitingDone
  BY <1>9, <1>1 DEF RunningDone, NoRoom, WaitingDone, requests
<1>10. CASE UNCHANGED vars
  BY <1>10, <1>1 DEF vars, requests
<1> QED
  BY <1>2, <1>3, <1>4, <1>5, <1>6, <1>7, <1>8, <1>9, <1>10 DEF Next, Schedule

-----------------------------------------------------------------------------
(* The types.                                                              *)

(* What the next step may give a request is among its placeholders.        *)
LEMMA FirstInLedger ==
  ASSUME Types, Ledgers, NEW r \in Reqs, ended[r] = "no", Len(inflight) > 0
  PROVE  inflight[1][r] <= placeholders[r]
<1>1. PICK sum : Ledger(sum, r)
  BY DEF Ledgers
<1>2. Len(inflight) \in Nat /\ 1 \in 1 .. Len(inflight) /\ 1 - 1 = 0
  BY DEF Types
<1>3. inflight[1] \in [Reqs -> 0 .. Drafts + 1]
  BY <1>2, InFlightTypes
<1>4. sum[1] = 0 + inflight[1][r] /\ inflight[1][r] \in Int
  BY <1>1, <1>2, <1>3 DEF Ledger
<1>5. sum[1] <= sum[Len(inflight)]
  <2>1. 1 \in 0 .. Len(inflight) /\ Len(inflight) \in 0 .. Len(inflight) /\ 1 <= Len(inflight)
    BY <1>2
  <2> QED
    BY <1>1, <2>1 DEF Ledger
<1> QED
  BY <1>1, <1>4, <1>5 DEF Ledger

(* A request is chosen once, and not before it is looked at.               *)
LEMMA LooksOnce ==
  ASSUME Types, Choosing, ScheduleRunning
  PROVE  chosen[running[index]] = 0
<1>1. index \in 1 .. Len(running) /\ phase = "running"
  BY RunningSteps DEF ScheduleRunning
<1>2. index \in index .. Len(running)
  BY <1>1
<1> QED
  BY <1>1, <1>2 DEF Choosing

LEMMA WaitersUnchosen ==
  ASSUME Types, Queues, Choosing, NEW r \in ToSet(waiting)
  PROVE  r \in Reqs /\ chosen[r] = 0 /\ r \notin ToSet(running) /\ ended[r] = "no"
<1>1. r \in Reqs
  BY InQueue DEF Types
<1>2. r \notin ToSet(running) /\ ended[r] = "no"
  BY DEF Queues, Alive
<1>3. chosen[r] \in Nat
  BY <1>1 DEF Types
<1> QED
  BY <1>1, <1>2, <1>3 DEF Choosing

(* A request that had nothing gets at most the rest of the budget.         *)
LEMMA ChoiceTypes ==
  ASSUME Types, NEW r \in Reqs, chosen[r] = 0, NEW v \in Nat, v <= Budget,
         chosen' = [chosen EXCEPT ![r] = v]
  PROVE  /\ chosen' \in [Reqs -> Nat] /\ SumFunctionOnSet(chosen', Reqs) <= TokenBudget
         /\ SumFunctionOnSet(chosen', Reqs) = SumFunctionOnSet(chosen, Reqs) + v
         /\ chosen'[r] = v /\ \A q \in Reqs : q # r => chosen'[q] = chosen[q]
<1>1. chosen \in [Reqs -> Nat]
  BY DEF Types
<1>2. /\ chosen' \in [Reqs -> Nat]
      /\ SumFunctionOnSet(chosen', Reqs) = SumFunctionOnSet(chosen, Reqs) + v
  <2>1. Reqs \in SUBSET Reqs
    OBVIOUS
  <2>2. Puts(chosen, r, v, chosen')
    BY DEF Puts
  <2>3. PutSum(chosen, r, v, chosen', Reqs)
    BY <1>1, <2>1, <2>2, SumPut
  <2> QED
    BY <2>3 DEF PutSum
<1>3. SumFunctionOnSet(chosen, Reqs) \in Nat
  BY <1>1, SumNat
<1>4. SumFunctionOnSet(chosen', Reqs) <= TokenBudget
  BY <1>2, <1>3, BudgetIs, Constants
<1> QED
  BY <1>1, <1>2, <1>4

(* The end of schedule: what the step may generate for each request.       *)
Gen == [r \in Reqs |-> IF chosen[r] > 0 THEN Generates(r) ELSE 0]

LEMMA EndSteps ==
  ASSUME Types, Choosing, EndStep
  PROVE  /\ Gen \in [Reqs -> 0 .. Drafts + 1]
         /\ \A r \in Reqs : Gen[r] > 0 => chosen[r] > 0
         /\ \A r \in Reqs : IsPrefillChunk(r) /\ Gen[r] > 0 => computed[r] + chosen[r] = Prompt[r]
         /\ placeholders' = [r \in Reqs |-> placeholders[r] + Gen[r]]
         /\ inflight' = Append(inflight, Gen) /\ inflight' \in Seq([Reqs -> 0 .. Drafts + 1])
         /\ Len(inflight') = Len(inflight) + 1 /\ Len(inflight) \in Nat
         /\ inflight'[Len(inflight) + 1] = Gen
         /\ \A k \in 1 .. Len(inflight) : inflight'[k] = inflight[k]
         /\ computed' = [r \in Reqs |-> Least(computed[r] + chosen[r], Prompt[r])]
<1>1. ASSUME NEW r \in Reqs
      PROVE  /\ Gen[r] \in 0 .. Drafts + 1 /\ (Gen[r] > 0 => chosen[r] > 0)
             /\ IsPrefillChunk(r) /\ Gen[r] > 0 => computed[r] + chosen[r] = Prompt[r]
  <2>1. /\ chosen[r] \in Nat /\ Drafts \in Nat /\ computed[r] \in Nat /\ Prompt[r] \in Nat
        /\ computed[r] <= Prompt[r]
    BY Constants DEF Types
  <2>2. Gen[r] = IF chosen[r] > 0 THEN Generates(r) ELSE 0
    BY DEF Gen
  <2>3. CASE chosen[r] > 0 /\ ~IsPrefillChunk(r)
    <3>1. Generates(r) = chosen[r]
      BY <2>1, <2>3 DEF Generates, IsPrefillChunk
    <3>2. chosen[r] <= Drafts + 1
      BY <2>3 DEF Choosing
    <3> QED
      BY <2>1, <2>2, <2>3, <3>1, <3>2
  <2>4. CASE chosen[r] > 0 /\ IsPrefillChunk(r)
    <3>1. Generates(r) = IF computed[r] + chosen[r] = Prompt[r] THEN 1 ELSE 0
      BY <2>4 DEF Generates
    <3> QED
      BY <2>1, <2>2, <2>4, <3>1
  <2>5. CASE ~(chosen[r] > 0)
    BY <2>1, <2>2, <2>5
  <2> QED
    BY <2>3, <2>4, <2>5
<1>2. Gen \in [Reqs -> 0 .. Drafts + 1]
  BY <1>1 DEF Gen
<1>3. /\ placeholders' = [r \in Reqs |-> placeholders[r] + Gen[r]] /\ inflight' = Append(inflight, Gen)
      /\ computed' = [r \in Reqs |-> Least(computed[r] + chosen[r], Prompt[r])]
  BY DEF EndStep, Gen
<1>4. inflight \in Seq([Reqs -> 0 .. Drafts + 1])
  BY DEF Types
<1>5. /\ Append(inflight, Gen) \in Seq([Reqs -> 0 .. Drafts + 1])
      /\ Len(Append(inflight, Gen)) = Len(inflight) + 1 /\ Len(inflight) \in Nat
      /\ Append(inflight, Gen)[Len(inflight) + 1] = Gen
      /\ \A k \in 1 .. Len(inflight) : Append(inflight, Gen)[k] = inflight[k]
  BY <1>2, <1>4
<1> QED
  BY <1>1, <1>2, <1>3, <1>5

LEMMA ReturnTypes ==
  ASSUME Types, Queues, Phases, Progress, Ledgers, Return
  PROVE  Types'
<1>1. QueueTypes'
  BY ReturnQueues
<1>2. /\ Len(inflight) \in Nat \ {0} /\ inflight[1] \in [Reqs -> 0 .. Drafts + 1]
      /\ inflight' \in Seq([Reqs -> 0 .. Drafts + 1]) /\ Len(inflight') = Len(inflight) - 1
      /\ \A r \in Reqs : Accepts(r)
      /\ outputs' = [r \in Reqs |-> outputs'[r]] /\ placeholders' = [r \in Reqs |-> placeholders'[r]]
      /\ ended' = [r \in Reqs |-> ended'[r]]
  BY ReturnSteps
<1>3. ASSUME NEW r \in Reqs
      PROVE  /\ outputs'[r] \in Nat /\ outputs'[r] <= MaxTokens[r] /\ placeholders'[r] \in Nat
             /\ ended'[r] \in {"no", "length", "stop"}
  <2>5. inflight[1][r] \in 0 .. Drafts + 1 /\ Drafts \in Nat
    BY <1>2, Constants
  <2>1. /\ outputs[r] \in Nat /\ placeholders[r] \in Nat /\ outputs[r] <= MaxTokens[r]
        /\ MaxTokens[r] \in Nat /\ ended[r] \in {"no", "length", "stop"} /\ inflight[1][r] \in Nat
    <3>1. MaxTokens[r] \in Nat
      BY Constants
    <3>2. inflight[1][r] \in Nat
      BY <2>5
    <3> QED
      BY <3>1, <3>2, FieldTypes
  <2>2. ended[r] = "no" => inflight[1][r] <= placeholders[r]
    BY <1>2, FirstInLedger
  <2>3. \A a \in Nat : Least(outputs[r] + a, MaxTokens[r]) \in Nat /\ Least(outputs[r] + a, MaxTokens[r]) <= MaxTokens[r]
    BY <2>1 DEF Least
  <2>4. Accepts(r)
    BY <1>2
  <2> QED
    BY <2>1, <2>2, <2>3, <2>4 DEF Accepts
<1>4. /\ outputs' \in [Reqs -> Nat] /\ placeholders' \in [Reqs -> Nat]
      /\ ended' \in [Reqs -> {"no", "length", "stop"}]
  BY <1>2, <1>3
<1>5. UNCHANGED <<computed, arrived, waiting, current, latched, phase, index, defer, chosen, shortUsed, deferred>>
  BY DEF Return
<1>6. index' \in 1 .. Len(running') + 1
  <2>1. index' = 1
    BY <1>5 DEF Return, Phases
  <2>2. Len(running') \in Nat
    BY <1>1, InQueue DEF QueueTypes
  <2> QED
    BY <2>1, <2>2
<1>7. Len(inflight') <= MaxInFlight
  <2>1. Len(inflight') = Len(inflight) - 1 /\ Len(inflight) \in Nat
    BY <1>2
  <2>2. Len(inflight) <= MaxInFlight /\ MaxInFlight \in Nat
    BY Constants DEF Types
  <2> QED
    BY <2>1, <2>2
<1> QED
  BY <1>1, <1>2, <1>3, <1>4, <1>5, <1>6, <1>7 DEF Types, QueueTypes

LEMMA RunningTypes ==
  ASSUME Types, Choosing, ScheduleRunning
  PROVE  Types'
<1> DEFINE r == running[index]
<1>1. /\ index \in 1 .. Len(running) /\ r \in Reqs /\ index' = index + 1 /\ Budget > 0
      /\ LeavesOut(r) \/ ChoosesChunk(r) \/ ChoosesDecode(r)
  BY RunningSteps
<1>2. chosen[r] = 0
  BY LooksOnce
<1>3. UNCHANGED <<requests, waiting, running, inflight, current, latched, phase, defer, deferred>>
  BY DEF ScheduleRunning
<1>4. index' \in 1 .. Len(running) + 1
  <2>1. Len(running) \in Nat
    BY InQueue DEF Types
  <2> QED
    BY <1>1, <2>1
<1> HIDE DEF r
<1>5. chosen' \in [Reqs -> Nat] /\ SumFunctionOnSet(chosen', Reqs) <= TokenBudget
  <2>1. CASE LeavesOut(r)
    BY <2>1 DEF LeavesOut, Types
  <2>2. CASE ChoosesChunk(r) \/ ChoosesDecode(r)
    <3>1. PICK v \in Nat : v <= Budget /\ chosen' = [chosen EXCEPT ![r] = v]
      BY <2>2 DEF ChoosesChunk, ChoosesDecode
    <3> QED
      BY <1>1, <1>2, <3>1, ChoiceTypes
  <2> QED
    BY <1>1, <2>1, <2>2
<1>6. shortUsed' \in 0 .. ShortTokens
  <2>1. shortUsed \in 0 .. ShortTokens /\ computed[r] \in Nat /\ Prompt[r] \in Nat /\ ShortTokens \in Nat
    BY <1>1, Constants DEF Types
  <2>2. CASE shortUsed' = shortUsed
    BY <2>1, <2>2
  <2>3. CASE /\ AdmitShort(Prompt[r] - computed[r])
             /\ shortUsed' = shortUsed + (Prompt[r] - computed[r])
    BY <2>1, <2>3 DEF AdmitShort
  <2> QED
    BY <1>1, <2>2, <2>3 DEF LeavesOut, ChoosesChunk, ChoosesDecode
<1> QED
  BY <1>3, <1>4, <1>5, <1>6 DEF Types, requests

LEMMA AdmitTypes ==
  ASSUME Types, Queues, Choosing, AdmitWaiting
  PROVE  Types'
<1>1. QueueTypes'
  BY AdmitQueues
<1>2. PICK r, c, v : Admits(r, c, v)
  BY AdmitSteps
<1>3. UNCHANGED <<outputs, placeholders, ended, arrived, inflight, current, latched, phase, index, defer, deferred>>
  BY DEF AdmitWaiting
<1>4. r \in Reqs /\ chosen[r] = 0
  BY <1>2, WaitersUnchosen DEF Admits
<1>5. chosen' \in [Reqs -> Nat] /\ SumFunctionOnSet(chosen', Reqs) <= TokenBudget
  <2>1. v \in Nat /\ v <= Budget /\ chosen' = [chosen EXCEPT ![r] = v]
    BY <1>2 DEF Admits
  <2> QED
    BY <1>4, <2>1, ChoiceTypes
<1>6. computed' \in [Reqs -> Nat] /\ \A q \in Reqs : computed'[q] <= Prompt[q]
  <2>1. c \in Nat /\ c < Prompt[r] /\ computed' = [computed EXCEPT ![r] = c]
    BY <1>2 DEF Admits
  <2>2. computed \in [Reqs -> Nat] /\ \A q \in Reqs : computed[q] <= Prompt[q]
    BY DEF Types
  <2>3. Prompt[r] \in Nat
    BY <1>4, Constants
  <2>4. computed' \in [Reqs -> Nat]
    BY <1>4, <2>1, <2>2
  <2>5. \A q \in Reqs : computed'[q] = IF q = r THEN c ELSE computed[q]
    BY <2>1, <2>2
  <2> QED
    BY <2>1, <2>2, <2>3, <2>4, <2>5
<1>7. shortUsed' \in 0 .. ShortTokens
  <2>1. shortUsed \in 0 .. ShortTokens /\ c \in Nat /\ Prompt[r] \in Nat /\ ShortTokens \in Nat
    BY <1>2, <1>4, Constants DEF Types, Admits
  <2>2. CASE shortUsed' = shortUsed
    BY <2>1, <2>2
  <2>3. CASE AdmitShort(Prompt[r] - c) /\ shortUsed' = shortUsed + (Prompt[r] - c)
    BY <2>1, <2>3 DEF AdmitShort
  <2> QED
    BY <1>2, <2>2, <2>3 DEF Admits
<1>8. index' \in 1 .. Len(running') + 1
  <2>1. running' = Append(running, r) /\ index' = index
    BY <1>2, <1>3 DEF Admits
  <2>2. running \in Seq(Reqs) /\ index \in 1 .. Len(running) + 1
    BY DEF Types
  <2>3. Len(Append(running, r)) = Len(running) + 1 /\ Len(running) \in Nat
    BY <1>4, <2>2
  <2> QED
    BY <2>1, <2>2, <2>3
<1> QED
  BY <1>1, <1>3, <1>5, <1>6, <1>7, <1>8 DEF Types, QueueTypes

LEMMA EndTypes ==
  ASSUME Types, Queues, Phases, Choosing, EndStep
  PROVE  Types'
<1>1. QueueTypes'
  BY EndQueues
<1>2. /\ Gen \in [Reqs -> 0 .. Drafts + 1] /\ placeholders' = [r \in Reqs |-> placeholders[r] + Gen[r]]
      /\ inflight' \in Seq([Reqs -> 0 .. Drafts + 1]) /\ Len(inflight') = Len(inflight) + 1
      /\ Len(inflight) \in Nat
      /\ computed' = [r \in Reqs |-> Least(computed[r] + chosen[r], Prompt[r])]
  BY EndSteps
<1>3. phase = "end" /\ UNCHANGED <<outputs, ended, arrived, running, current, shortUsed>>
      /\ phase' = "idle" /\ index' = 1 /\ defer' = FALSE /\ chosen' = Nothing
  BY DEF EndStep
<1>4. Len(inflight') <= MaxInFlight
  <2>1. Len(inflight) < MaxInFlight
    BY <1>3 DEF Phases
  <2>2. MaxInFlight \in Nat /\ Len(inflight) \in Nat /\ Len(inflight') = Len(inflight) + 1
    BY <1>2, Constants
  <2> QED
    BY <2>1, <2>2
<1>5. placeholders' \in [Reqs -> Nat]
  <2>1. ASSUME NEW r \in Reqs PROVE placeholders[r] + Gen[r] \in Nat
    <3>1. Drafts \in Nat /\ Gen \in [Reqs -> 0 .. Drafts + 1]
      BY <1>2, Constants
    <3>2. Gen[r] \in Nat
      BY <3>1
    <3> QED
      BY <3>2, FieldTypes
  <2> QED
    BY <1>2, <2>1
<1>6. computed' \in [Reqs -> Nat] /\ \A r \in Reqs : computed'[r] <= Prompt[r]
  <2>1. ASSUME NEW r \in Reqs
        PROVE  /\ Least(computed[r] + chosen[r], Prompt[r]) \in Nat
               /\ Least(computed[r] + chosen[r], Prompt[r]) <= Prompt[r]
    <3>1. computed[r] \in Nat /\ chosen[r] \in Nat /\ Prompt[r] \in Nat
      BY Constants DEF Types
    <3> QED
      BY <3>1 DEF Least
  <2> QED
    BY <1>2, <2>1
<1>7. latched' \in BOOLEAN
  BY DEF EndStep, Types
<1>8. chosen' \in [Reqs -> Nat] /\ SumFunctionOnSet(chosen', Reqs) <= TokenBudget
  <2>1. Reqs \in SUBSET Reqs
    OBVIOUS
  <2> QED
    BY <1>3, <2>1, SumNothing, Constants
<1>9. index' \in 1 .. Len(running') + 1
  <2>1. Len(running') \in Nat
    BY <1>1, InQueue DEF QueueTypes
  <2> QED
    BY <1>3, <2>1
<1> QED
  BY <1>1, <1>2, <1>3, <1>4, <1>5, <1>6, <1>7, <1>8, <1>9 DEF Types, QueueTypes

LEMMA StepTypes ==
  ASSUME Types, Queues, Phases, Choosing, Progress, Ledgers, [Next]_vars
  PROVE  Types'
<1>0. QueueTypes'
  BY StepQueues
<1>1. ASSUME NEW r \in Reqs, Arrive(r) PROVE Types'
  BY <1>0, <1>1 DEF Arrive, Types, QueueTypes
<1>2. CASE Return
  BY <1>2, ReturnTypes
<1>3. CASE BeginStep
  <2>1. current' \in 0 .. Interval - 1
    BY <1>3, Constants DEF BeginStep, Types
  <2>2. defer' \in BOOLEAN
    BY <1>3 DEF BeginStep, DeferPrefills
  <2>3. shortUsed' \in 0 .. ShortTokens
    BY <1>3, Constants DEF BeginStep
  <2> QED
    BY <1>3, <2>1, <2>2, <2>3 DEF BeginStep, Types, requests
<1>4. CASE ScheduleRunning
  BY <1>4, RunningTypes
<1>5. CASE RunningDone \/ NoRoom \/ WaitingDone
  BY <1>5 DEF RunningDone, NoRoom, WaitingDone, requests, Types
<1>6. CASE DeferWaiting
  BY <1>0, <1>6 DEF DeferWaiting, requests, Types, QueueTypes
<1>7. CASE AdmitWaiting
  BY <1>7, AdmitTypes
<1>8. CASE EndStep
  BY <1>8, EndTypes
<1>9. CASE UNCHANGED vars
  BY <1>9 DEF vars, requests, Types
<1> QED
  BY <1>1, <1>2, <1>3, <1>4, <1>5, <1>6, <1>7, <1>8, <1>9 DEF Next, Schedule

-----------------------------------------------------------------------------
(* The phases, what a step chooses, and the progress of a request.         *)

LEMMA StepPhases ==
  ASSUME Types, Phases, [Next]_vars
  PROVE  Phases'
<1>1. ASSUME NEW r \in Reqs, Arrive(r) PROVE Phases'
  BY <1>1 DEF Arrive, Phases, Nothing
<1>2. CASE Return
  <2>1. phase = "idle" /\ UNCHANGED <<phase, index, defer, chosen, deferred>>
    BY <1>2 DEF Return
  <2> QED
    BY <2>1 DEF Phases, Nothing
<1>3. CASE BeginStep
  BY <1>3 DEF BeginStep, Phases, Nothing
<1>4. CASE ScheduleRunning
  BY <1>4 DEF ScheduleRunning, Phases, Nothing
<1>5. CASE RunningDone \/ NoRoom \/ WaitingDone
  BY <1>5 DEF RunningDone, NoRoom, WaitingDone, Phases, Nothing
<1>6. CASE DeferWaiting
  BY <1>6 DEF DeferWaiting, Phases, Nothing
<1>7. CASE AdmitWaiting
  BY <1>7 DEF AdmitWaiting, Phases, Nothing
<1>8. CASE EndStep
  BY <1>8 DEF EndStep, Phases, Nothing
<1>9. CASE UNCHANGED vars
  BY <1>9 DEF vars, requests, Phases, Nothing
<1> QED
  BY <1>1, <1>2, <1>3, <1>4, <1>5, <1>6, <1>7, <1>8, <1>9 DEF Next, Schedule

LEMMA RunningChoice ==
  ASSUME Types, Queues, Choosing, ScheduleRunning
  PROVE  Choosing'
<1> DEFINE r == running[index]
<1>1. /\ index \in 1 .. Len(running) /\ r \in Reqs /\ r \in ToSet(running) /\ index' = index + 1
      /\ LeavesOut(r) \/ ChoosesChunk(r) \/ ChoosesDecode(r)
  BY RunningSteps
<1>2. chosen[r] = 0
  BY LooksOnce
<1>3. UNCHANGED <<computed, outputs, placeholders, running, phase>> /\ phase = "running"
  BY DEF ScheduleRunning, requests
<1>4. running \in Seq(Reqs) /\ Distinct(running) /\ chosen \in [Reqs -> Nat] /\ Len(running) \in Nat
  BY InQueue DEF Types, Queues
<1>5. \A i \in index' .. Len(running) : i \in index .. Len(running) /\ i \in 1 .. Len(running) /\ i # index
  BY <1>1, <1>4
<1>6. \A i \in index' .. Len(running) : running[i] # r /\ running[i] \in Reqs /\ chosen[running[i]] = 0
  <2>1. \A i \in index' .. Len(running) : chosen[running[i]] = 0
    BY <1>3, <1>5 DEF Choosing
  <2>2. \A i \in index' .. Len(running) : running[i] # r
    BY <1>1, <1>4, <1>5, InQueue DEF Distinct
  <2> QED
    BY <2>1, <2>2, <1>4, <1>5, InQueue
<1> HIDE DEF r
<1>7. CASE LeavesOut(r)
  <2>1. chosen' = chosen
    BY <1>7 DEF LeavesOut
  <2> QED
    BY <1>3, <1>6, <2>1 DEF Choosing, IsPrefillChunk, Holds, SurelyDone
<1>8. ASSUME NEW v \in Nat, chosen' = [chosen EXCEPT ![r] = v],
             IsPrefillChunk(r) \/ (v <= Drafts + 1 /\ ~Holds(r) /\ ~SurelyDone(r))
      PROVE  Choosing'
  <2>1. chosen'[r] = v /\ \A q \in Reqs : q # r => chosen'[q] = chosen[q]
    BY <1>1, <1>4, <1>8
  <2>2. \A q \in Reqs : chosen'[q] > 0 => q \in ToSet(running')
    BY <1>1, <1>3, <2>1 DEF Choosing
  <2>3. \A i \in index' .. Len(running') : chosen'[running'[i]] = 0
    BY <1>3, <1>6, <2>1
  <2>4. ASSUME NEW q \in Reqs, chosen'[q] > 0, ~IsPrefillChunk(q)'
        PROVE  chosen'[q] <= Drafts + 1 /\ ~Holds(q)' /\ ~SurelyDone(q)'
    <3>1. /\ IsPrefillChunk(q)' <=> IsPrefillChunk(q)
          /\ Holds(q)' <=> Holds(q)
          /\ SurelyDone(q)' <=> SurelyDone(q)
      BY <1>3 DEF IsPrefillChunk, Holds, SurelyDone
    <3>2. CASE q = r
      BY <1>8, <2>1, <2>4, <3>1, <3>2
    <3>3. CASE q # r
      BY <2>1, <2>4, <3>1, <3>3 DEF Choosing
    <3> QED
      BY <3>2, <3>3
  <2> QED
    BY <2>2, <2>3, <2>4 DEF Choosing
<1>9. CASE ChoosesChunk(r)
  BY <1>8, <1>9 DEF ChoosesChunk
<1>10. CASE ChoosesDecode(r)
  BY <1>8, <1>10 DEF ChoosesDecode
<1> QED
  BY <1>1, <1>7, <1>9, <1>10

LEMMA AdmitChoice ==
  ASSUME Types, Queues, Choosing, AdmitWaiting
  PROVE  Choosing'
<1>1. PICK r, c, v : Admits(r, c, v)
  BY AdmitSteps
<1>2. /\ r \in Reqs /\ r \in ToSet(waiting) /\ c \in Nat /\ c < Prompt[r]
      /\ chosen' = [chosen EXCEPT ![r] = v] /\ computed' = [computed EXCEPT ![r] = c]
      /\ running' = Append(running, r)
  BY <1>1 DEF Admits
<1>3. phase = "waiting" /\ UNCHANGED <<outputs, placeholders, phase>>
  BY DEF AdmitWaiting
<1>4. chosen \in [Reqs -> Nat] /\ computed \in [Reqs -> Nat] /\ running \in Seq(Reqs) /\ Distinct(running)
  BY DEF Types, Queues
<1>5. r \notin ToSet(running)
  BY <1>2 DEF Queues
<1>6. ToSet(running') = ToSet(running) \cup {r}
  BY <1>2, <1>4, <1>5, AppendQueue
<1>7. /\ \A q \in Reqs : q # r => chosen'[q] = chosen[q] /\ computed'[q] = computed[q]
      /\ computed'[r] = c
  BY <1>2, <1>4
<1>8. IsPrefillChunk(r)'
  BY <1>2, <1>7 DEF IsPrefillChunk
<1>9. ASSUME NEW q \in Reqs, chosen'[q] > 0, ~IsPrefillChunk(q)'
      PROVE  chosen'[q] <= Drafts + 1 /\ ~Holds(q)' /\ ~SurelyDone(q)'
  <2>1. q # r
    BY <1>8, <1>9
  <2>2. computed'[q] = computed[q] /\ chosen'[q] = chosen[q] /\ outputs' = outputs /\ placeholders' = placeholders
    BY <1>3, <1>7, <2>1
  <2>3. /\ IsPrefillChunk(q)' <=> IsPrefillChunk(q)
        /\ Holds(q)' <=> Holds(q)
        /\ SurelyDone(q)' <=> SurelyDone(q)
    BY <2>2 DEF IsPrefillChunk, Holds, SurelyDone
  <2> QED
    BY <1>9, <2>2, <2>3 DEF Choosing
<1>10. \A q \in Reqs : chosen'[q] > 0 => q \in ToSet(running')
  BY <1>6, <1>7 DEF Choosing
<1> QED
  BY <1>3, <1>9, <1>10 DEF Choosing

LEMMA StepChoosing ==
  ASSUME Types, Queues, Phases, Choosing, [Next]_vars
  PROVE  Choosing'
<1>1. ASSUME chosen' = Nothing, phase' # "running" \/ UNCHANGED <<running, index>> PROVE Choosing'
  <2>1. \A r \in Reqs : chosen'[r] = 0
    BY <1>1 DEF Nothing
  <2>2. CASE UNCHANGED <<running, index>>
    <3>1. \A i \in index' .. Len(running') : i \in 1 .. Len(running) /\ running'[i] = running[i]
      BY <2>2, InQueue DEF Types
    <3>2. \A i \in index' .. Len(running') : running'[i] \in Reqs
      BY <3>1, InQueue DEF Types
    <3> QED
      BY <2>1, <3>2 DEF Choosing
  <2>3. CASE phase' # "running"
    BY <2>1, <2>3 DEF Choosing
  <2> QED
    BY <1>1, <2>2, <2>3
<1>2. CASE (\E r \in Reqs : Arrive(r)) \/ Return \/ BeginStep
  <2>1. phase = "idle" /\ chosen' = chosen /\ (phase' # "running" \/ UNCHANGED <<running, index>>)
    BY <1>2 DEF Arrive, Return, BeginStep
  <2> QED
    BY <1>1, <2>1 DEF Phases
<1>3. CASE EndStep
  BY <1>1, <1>3 DEF EndStep
<1>4. CASE ScheduleRunning
  BY <1>4, RunningChoice
<1>5. CASE AdmitWaiting
  BY <1>5, AdmitChoice
<1>6. CASE RunningDone \/ NoRoom \/ WaitingDone \/ DeferWaiting
  <2>1. UNCHANGED <<computed, outputs, placeholders, running, chosen>> /\ phase' # "running"
    BY <1>6 DEF RunningDone, NoRoom, WaitingDone, DeferWaiting, requests
  <2> QED
    BY <2>1 DEF Choosing, IsPrefillChunk, Holds, SurelyDone
<1>7. CASE UNCHANGED vars
  <2>1. UNCHANGED <<computed, outputs, placeholders, running, chosen, phase, index>>
    BY <1>7 DEF vars, requests
  <2> QED
    BY <2>1 DEF Choosing, IsPrefillChunk, Holds, SurelyDone
<1> QED
  BY <1>2, <1>3, <1>4, <1>5, <1>6, <1>7 DEF Next, Schedule

LEMMA ReturnProgress ==
  ASSUME Types, Queues, Progress, Return
  PROVE  Progress'
<1>1. /\ Len(inflight) \in Nat \ {0} /\ Len(inflight') = Len(inflight) - 1
      /\ \A k \in 1 .. Len(inflight) - 1 : inflight'[k] = inflight[k + 1]
      /\ \A r \in Reqs : Accepts(r) /\ (ended[r] # "no" => ended'[r] = ended[r])
      /\ inflight[1] \in [Reqs -> 0 .. Drafts + 1]
  BY ReturnSteps
<1>2. computed' = computed /\ running' = Unfinished(running, ended')
  BY DEF Return
<1>3. ToSet(running') = {r \in ToSet(running) : ended'[r] = "no"}
  BY <1>2, UnfinishedQueue DEF Types, Queues
<1>4. \A r \in Reqs : r \notin ToSet(running') /\ ended'[r] = "no" => computed'[r] = 0
  BY <1>1, <1>2, <1>3 DEF Progress
<1>5. ASSUME NEW r \in Reqs, IsPrefillChunk(r)'
      PROVE  outputs'[r] = 0 /\ placeholders'[r] = 0 /\ \A i \in 1 .. Len(inflight') : inflight'[i][r] = 0
  <2>1. IsPrefillChunk(r)
    BY <1>2, <1>5 DEF IsPrefillChunk
  <2>2. outputs[r] = 0 /\ placeholders[r] = 0 /\ \A i \in 1 .. Len(inflight) : inflight[i][r] = 0
    BY <2>1 DEF Progress
  <2>3. inflight[1][r] = 0 /\ Accepts(r)
    BY <1>1, <2>2
  <2>4. outputs'[r] = 0 /\ placeholders'[r] = 0
    BY <2>2, <2>3 DEF Accepts
  <2>5. \A i \in 1 .. Len(inflight') : i + 1 \in 1 .. Len(inflight) /\ inflight'[i] = inflight[i + 1]
    BY <1>1
  <2> QED
    BY <2>2, <2>4, <2>5
<1>6. ASSUME NEW r \in Reqs \ Unbounded, ended'[r] = "no" PROVE outputs'[r] < MaxTokens[r]
  <2>1. ended[r] = "no" /\ outputs[r] < MaxTokens[r] /\ Accepts(r)
    BY <1>1, <1>6 DEF Progress
  <2>2. outputs[r] \in Nat /\ MaxTokens[r] \in Nat /\ inflight[1][r] \in 0 .. Drafts + 1 /\ Drafts \in Nat
    BY <1>1, Constants DEF Types
  <2> QED
    BY <1>6, <2>1, <2>2 DEF Accepts, Least
<1>7. \A r \in Unbounded : ended'[r] # "length"
  BY <1>1, Constants DEF Progress, Accepts
<1> QED
  BY <1>4, <1>5, <1>6, <1>7 DEF Progress

LEMMA AdmitProgress ==
  ASSUME Types, Queues, Progress, AdmitWaiting
  PROVE  Progress'
<1>1. PICK r, c, v : Admits(r, c, v)
  BY AdmitSteps
<1>2. /\ r \in Reqs /\ r \in ToSet(waiting) /\ computed' = [computed EXCEPT ![r] = c]
      /\ running' = Append(running, r)
  BY <1>1 DEF Admits
<1>3. UNCHANGED <<outputs, placeholders, ended, inflight>>
  BY DEF AdmitWaiting
<1>4. r \notin ToSet(running) /\ ended[r] = "no"
  BY <1>2 DEF Queues, Alive
<1>5. ToSet(running') = ToSet(running) \cup {r}
  BY <1>2, <1>4, AppendQueue DEF Types, Queues
<1>6. \A q \in Reqs : q # r => computed'[q] = computed[q]
  BY <1>2 DEF Types
<1>7. IsPrefillChunk(r)
  BY <1>2, <1>4, OnlyRunningGet
<1>8. \A q \in Reqs : IsPrefillChunk(q)' => IsPrefillChunk(q)
  BY <1>6, <1>7 DEF IsPrefillChunk
<1> QED
  BY <1>3, <1>5, <1>6, <1>8 DEF Progress

LEMMA EndProgress ==
  ASSUME Types, Queues, Choosing, Progress, EndStep
  PROVE  Progress'
<1>1. /\ Gen \in [Reqs -> 0 .. Drafts + 1]
      /\ \A r \in Reqs : IsPrefillChunk(r) /\ Gen[r] > 0 => computed[r] + chosen[r] = Prompt[r]
      /\ placeholders' = [r \in Reqs |-> placeholders[r] + Gen[r]]
      /\ Len(inflight') = Len(inflight) + 1 /\ Len(inflight) \in Nat
      /\ inflight'[Len(inflight) + 1] = Gen
      /\ \A k \in 1 .. Len(inflight) : inflight'[k] = inflight[k]
      /\ computed' = [r \in Reqs |-> Least(computed[r] + chosen[r], Prompt[r])]
  BY EndSteps
<1>2. UNCHANGED <<outputs, ended, running>>
  BY DEF EndStep
<1>3. ASSUME NEW r \in Reqs
      PROVE  /\ computed[r] \in Nat /\ chosen[r] \in Nat /\ Prompt[r] \in Nat \ {0} /\ computed[r] <= Prompt[r]
             /\ computed'[r] = Least(computed[r] + chosen[r], Prompt[r])
             /\ placeholders'[r] = placeholders[r] + Gen[r] /\ Gen[r] \in Nat
  <2>1. computed[r] \in Nat /\ chosen[r] \in Nat /\ Prompt[r] \in Nat \ {0} /\ computed[r] <= Prompt[r]
    BY Constants DEF Types
  <2>2. Gen[r] \in 0 .. Drafts + 1 /\ Drafts \in Nat
    BY <1>1, Constants
  <2> QED
    BY <1>1, <2>1, <2>2
<1>4. ASSUME NEW r \in Reqs, r \notin ToSet(running'), ended'[r] = "no" PROVE computed'[r] = 0
  <2>1. computed[r] = 0 /\ ~(chosen[r] > 0)
    BY <1>2, <1>4 DEF Progress, Choosing
  <2> QED
    BY <1>3, <2>1 DEF Least
<1>5. ASSUME NEW r \in Reqs, IsPrefillChunk(r)'
      PROVE  outputs'[r] = 0 /\ placeholders'[r] = 0 /\ \A i \in 1 .. Len(inflight') : inflight'[i][r] = 0
  <2>1. computed[r] + chosen[r] < Prompt[r] /\ computed[r] < Prompt[r]
    BY <1>3, <1>5 DEF IsPrefillChunk, Least
  <2>2. IsPrefillChunk(r) /\ Gen[r] = 0
    BY <1>1, <1>3, <2>1 DEF IsPrefillChunk
  <2>3. outputs[r] = 0 /\ placeholders[r] = 0 /\ \A i \in 1 .. Len(inflight) : inflight[i][r] = 0
    BY <2>2 DEF Progress
  <2>4. placeholders'[r] = 0
    <3>1. placeholders'[r] = placeholders[r] + Gen[r]
      BY <1>3
    <3> QED
      BY <2>2, <2>3, <3>1
  <2>5. ASSUME NEW i \in 1 .. Len(inflight') PROVE inflight'[i][r] = 0
    <3>1. CASE i = Len(inflight) + 1
      BY <1>1, <2>2, <3>1
    <3>2. CASE i # Len(inflight) + 1
      <4>1. i \in 1 .. Len(inflight)
        BY <1>1, <3>2
      <4> QED
        BY <1>1, <2>3, <4>1
    <3> QED
      BY <3>1, <3>2
  <2> QED
    BY <1>2, <2>3, <2>4, <2>5
<1> QED
  BY <1>2, <1>4, <1>5 DEF Progress

LEMMA StepProgress ==
  ASSUME Types, Queues, Choosing, Progress, [Next]_vars
  PROVE  Progress'
<1>1. CASE Return
  BY <1>1, ReturnProgress
<1>2. CASE AdmitWaiting
  BY <1>2, AdmitProgress
<1>3. CASE EndStep
  BY <1>3, EndProgress
<1>4. ASSUME UNCHANGED <<computed, outputs, placeholders, ended, running, inflight>> PROVE Progress'
  BY <1>4 DEF Progress, IsPrefillChunk
<1>5. ASSUME NEW r \in Reqs, Arrive(r) PROVE Progress'
  BY <1>4, <1>5 DEF Arrive
<1>6. CASE BeginStep \/ ScheduleRunning \/ RunningDone \/ NoRoom \/ WaitingDone \/ DeferWaiting
  BY <1>4, <1>6 DEF BeginStep, ScheduleRunning, RunningDone, NoRoom, WaitingDone, DeferWaiting, requests
<1>7. CASE UNCHANGED vars
  BY <1>4, <1>7 DEF vars, requests
<1> QED
  BY <1>1, <1>2, <1>3, <1>5, <1>6, <1>7 DEF Next, Schedule

-----------------------------------------------------------------------------
(* The ledgers.                                                            *)

LEMMA Times ==
  ASSUME NEW a \in Nat, NEW d \in Nat
  PROVE  (a + 1) * d = a * d + d /\ a * d \in Nat
  OBVIOUS

LEMMA TimesMore ==
  ASSUME NEW a \in Nat, NEW b \in Nat, a <= b, NEW d \in Nat
  PROVE  a * d <= b * d
  OBVIOUS

LEMMA TokenType ==
  ASSUME NEW f, f \in [Reqs -> 0 .. Drafts + 1], NEW r \in Reqs
  PROVE  f[r] \in Nat /\ f[r] <= Drafts + 1 /\ Drafts \in Nat
<1>1. Drafts \in Nat
  BY Constants
<1> QED
  BY <1>1

(* A ledger without its first step.                                        *)
LEMMA LedgerTail ==
  ASSUME Types, Progress, Return, NEW r \in Reqs, ended'[r] = "no", NEW sum, Ledger(sum, r)
  PROVE  \E new : Ledger(new, r)'
<1> DEFINE n == Len(inflight)
           m == Len(inflight')
<1>1. /\ n \in Nat \ {0} /\ m = n - 1 /\ inflight[1] \in [Reqs -> 0 .. Drafts + 1]
      /\ \A k \in 1 .. n - 1 : inflight'[k] = inflight[k + 1]
      /\ Accepts(r) /\ (ended[r] # "no" => ended'[r] = ended[r])
      /\ inflight' \in Seq([Reqs -> 0 .. Drafts + 1])
  BY ReturnSteps
<1>2. /\ sum \in [0 .. n -> Nat] /\ sum[0] = 0 /\ sum[n] = placeholders[r]
      /\ \A k \in 1 .. n : sum[k] = sum[k - 1] + inflight[k][r]
      /\ \A i, j \in 0 .. n : i <= j => sum[i] <= sum[j] /\ sum[j] - sum[i] <= (j - i) * (Drafts + 1)
  BY DEF Ledger
<1> HIDE DEF n, m
<1>12. PICK new : new = [k \in 0 .. m |-> sum[k + 1] - sum[1]]
  OBVIOUS
<1>3. /\ m \in Nat /\ \A k \in 0 .. m : k + 1 \in 0 .. n /\ sum[k + 1] \in Nat /\ 1 <= k + 1
      /\ 1 \in 0 .. n /\ 1 \in 1 .. n /\ n \in 0 .. n /\ 0 \in 0 .. n /\ sum[1] \in Nat /\ sum[n] \in Nat
  <2>1. n \in Nat \ {0} /\ m = n - 1 /\ sum \in [0 .. n -> Nat]
    BY <1>1, <1>2
  <2>2. m \in Nat /\ 1 \in 0 .. n /\ 1 \in 1 .. n /\ n \in 0 .. n /\ 0 \in 0 .. n
    BY <2>1
  <2>3. \A k \in 0 .. m : k + 1 \in 0 .. n /\ 1 <= k + 1
    BY <2>1
  <2> QED
    BY <2>1, <2>2, <2>3
<1>4. sum[1] = inflight[1][r] /\ inflight[1][r] \in Nat
  <2>1. inflight[1][r] \in Nat
    BY <1>1, TokenType
  <2>2. sum[1] = sum[1 - 1] + inflight[1][r] /\ 1 - 1 = 0
    BY <1>2, <1>3
  <2> QED
    BY <1>2, <2>1, <2>2
<1>5. new \in [0 .. m -> Nat] /\ \A k \in 0 .. m : new[k] = sum[k + 1] - sum[1]
  <2>1. \A k \in 0 .. m : sum[1] <= sum[k + 1]
    BY <1>2, <1>3
  <2>2. \A k \in 0 .. m : sum[k + 1] - sum[1] \in Nat
    BY <1>3, <2>1
  <2> QED
    BY <1>12, <2>2
<1>6. placeholders'[r] = placeholders[r] - inflight[1][r] /\ ended[r] = "no"
  <2>1. placeholders[r] \in Nat /\ inflight[1][r] \in Nat
    BY <1>4, FieldTypes
  <2> QED
    BY <1>1, <2>1 DEF Accepts
<1>7. new[0] = 0 /\ new[m] = placeholders'[r]
  <2>1. 0 \in 0 .. m /\ m \in 0 .. m /\ m + 1 = n /\ 0 + 1 = 1
    BY <1>1, <1>3
  <2>2. new[0] = sum[1] - sum[1] /\ new[m] = sum[n] - sum[1]
    BY <1>5, <2>1
  <2> QED
    BY <1>2, <1>3, <1>4, <1>6, <2>2
<1>8. ASSUME NEW k \in 1 .. m PROVE new[k] = new[k - 1] + inflight'[k][r]
  <2>1. /\ k \in 0 .. m /\ k - 1 \in 0 .. m /\ (k - 1) + 1 = k /\ k + 1 \in 1 .. n /\ (k + 1) - 1 = k
        /\ k \in 1 .. n - 1 /\ k \in 0 .. n
    BY <1>1, <1>3
  <2>2. new[k] = sum[k + 1] - sum[1] /\ new[k - 1] = sum[k] - sum[1]
    BY <1>5, <2>1
  <2>3. sum[k + 1] = sum[k] + inflight[k + 1][r]
    BY <1>2, <2>1
  <2>4. inflight'[k] = inflight[k + 1]
    BY <1>1, <2>1
  <2>5. inflight'[k] \in [Reqs -> 0 .. Drafts + 1]
    BY <1>1 DEF m
  <2>6. inflight[k + 1][r] \in Nat
    BY <2>4, <2>5, TokenType
  <2>7. sum[k] \in Nat /\ sum[1] \in Nat /\ inflight[k + 1][r] \in Nat
    BY <1>2, <1>3, <2>1, <2>6
  <2> QED
    BY <2>2, <2>3, <2>4, <2>7
<1>9. ASSUME NEW i \in 0 .. m, NEW j \in 0 .. m, i <= j
      PROVE  new[i] <= new[j] /\ new[j] - new[i] <= (j - i) * (Drafts + 1)
  <2>1. i + 1 \in 0 .. n /\ j + 1 \in 0 .. n /\ i + 1 <= j + 1 /\ (j + 1) - (i + 1) = j - i
    BY <1>3, <1>9
  <2>2. sum[i + 1] <= sum[j + 1] /\ sum[j + 1] - sum[i + 1] <= ((j + 1) - (i + 1)) * (Drafts + 1)
    BY <1>2, <2>1
  <2>3. new[i] = sum[i + 1] - sum[1] /\ new[j] = sum[j + 1] - sum[1]
    BY <1>5
  <2>4. sum[i + 1] \in Nat /\ sum[j + 1] \in Nat /\ sum[1] \in Nat
    BY <1>3
  <2>5. sum[j + 1] - sum[i + 1] <= (j - i) * (Drafts + 1)
    BY <2>1, <2>2
  <2>6. new[j] - new[i] = sum[j + 1] - sum[i + 1] /\ new[i] <= new[j]
    BY <2>2, <2>3, <2>4
  <2> QED
    BY <2>5, <2>6
<1>10. ASSUME EndDrain, r \notin Structured \cup Unbounded, NEW k \in 2 .. m, inflight'[k][r] > 0
       PROVE  outputs'[r] + new[k - 1] < MaxTokens[r]
  <2>1. /\ k + 1 \in 2 .. n /\ (k + 1) - 1 = k /\ k - 1 \in 0 .. m /\ (k - 1) + 1 = k /\ k \in 1 .. n - 1
        /\ k \in 0 .. n
    BY <1>1, <1>3
  <2>2. inflight[k + 1][r] > 0
    BY <1>1, <1>10, <2>1
  <2>3. outputs[r] + sum[k] < MaxTokens[r]
    BY <1>10, <2>1, <2>2 DEF Ledger, n
  <2>4. outputs[r] \in Nat /\ MaxTokens[r] \in Nat /\ sum[k] \in Nat /\ sum[1] \in Nat /\ inflight[1][r] \in Nat
    <3>1. MaxTokens[r] \in Nat /\ outputs[r] \in Nat
      BY Constants, FieldTypes
    <3>2. sum[k] \in Nat /\ sum[1] \in Nat
      BY <1>2, <1>3, <2>1
    <3> QED
      BY <1>4, <3>1, <3>2
  <2>5. outputs'[r] <= outputs[r] + sum[1] /\ outputs'[r] \in Nat
    <3>1. Accepts(r)
      BY <1>1
    <3>2. outputs'[r] = outputs[r] \/ \E a \in 1 .. inflight[1][r] : outputs'[r] = Least(outputs[r] + a, MaxTokens[r])
      BY <3>1 DEF Accepts
    <3>3. CASE outputs'[r] = outputs[r]
      BY <1>4, <2>4, <3>3
    <3>4. CASE \E a \in 1 .. inflight[1][r] : outputs'[r] = Least(outputs[r] + a, MaxTokens[r])
      <4>1. PICK a \in 1 .. inflight[1][r] : outputs'[r] = Least(outputs[r] + a, MaxTokens[r])
        BY <3>4
      <4>2. a \in Nat /\ a <= sum[1]
        BY <1>4, <2>4
      <4>3. outputs'[r] \in {outputs[r] + a, MaxTokens[r]} /\ outputs'[r] <= outputs[r] + a
        BY <2>4, <4>1, <4>2, LeastIs
      <4> QED
        BY <2>4, <4>2, <4>3
    <3> QED
      BY <3>2, <3>3, <3>4
  <2>6. new[k - 1] = sum[k] - sum[1]
    BY <1>5, <2>1
  <2> QED
    BY <2>3, <2>4, <2>5, <2>6
<1>11. Ledger(new, r)'
  BY <1>5, <1>7, <1>8, <1>9, <1>10 DEF Ledger, m
<1> QED
  BY <1>11

(* A ledger with a step more.                                              *)
LEMMA LedgerMore ==
  ASSUME Types, Queues, Phases, Choosing, Progress, EndStep, NEW r \in Reqs, ended[r] = "no",
         NEW sum, Ledger(sum, r)
  PROVE  \E new : Ledger(new, r)'
<1> DEFINE n == Len(inflight)
           m == Len(inflight')
           D == Drafts + 1
<1>1. /\ n \in Nat /\ m = n + 1 /\ Gen \in [Reqs -> 0 .. D]
      /\ inflight'[n + 1] = Gen /\ \A k \in 1 .. n : inflight'[k] = inflight[k]
      /\ placeholders' = [q \in Reqs |-> placeholders[q] + Gen[q]]
      /\ Gen[r] > 0 => chosen[r] > 0
  BY EndSteps
<1>2. /\ sum \in [0 .. n -> Nat] /\ sum[0] = 0 /\ sum[n] = placeholders[r]
      /\ \A k \in 1 .. n : sum[k] = sum[k - 1] + inflight[k][r]
      /\ \A i, j \in 0 .. n : i <= j => sum[i] <= sum[j] /\ sum[j] - sum[i] <= (j - i) * D
  BY DEF Ledger
<1>3. outputs' = outputs
  BY DEF EndStep
<1>4. D \in Nat /\ Gen[r] \in 0 .. D /\ Gen[r] \in Nat
  <2>1. D \in Nat
    BY Constants
  <2> HIDE DEF D
  <2> QED
    BY <1>1, <2>1
<1> HIDE DEF n, m, D
<1>12. PICK new : new = [k \in 0 .. m |-> IF k <= n THEN sum[k] ELSE sum[n] + Gen[r]]
  OBVIOUS
<1>5. /\ \A k \in 0 .. n : k \in 0 .. m /\ k <= n /\ sum[k] \in Nat
      /\ m \in 0 .. m /\ m \in Nat /\ ~(m <= n) /\ n \in 0 .. n /\ 0 \in 0 .. n
      /\ \A k \in 0 .. m : k \in 0 .. n \/ k = m
  <2>1. n \in Nat /\ m = n + 1 /\ sum \in [0 .. n -> Nat]
    BY <1>1, <1>2
  <2>2. m \in 0 .. m /\ m \in Nat /\ ~(m <= n) /\ n \in 0 .. n /\ 0 \in 0 .. n
    BY <2>1
  <2>3. \A k \in 0 .. n : k \in 0 .. m /\ k <= n
    BY <2>1
  <2>4. \A k \in 0 .. m : k \in 0 .. n \/ k = m
    BY <2>1
  <2> QED
    BY <2>1, <2>2, <2>3, <2>4
<1>6. new \in [0 .. m -> Nat] /\ new[m] = sum[n] + Gen[r] /\ \A k \in 0 .. n : new[k] = sum[k]
  <2>1. \A k \in 0 .. m : (IF k <= n THEN sum[k] ELSE sum[n] + Gen[r]) \in Nat
    BY <1>4, <1>5
  <2> QED
    BY <1>5, <1>12, <2>1
<1>7. new[0] = 0 /\ new[m] = placeholders'[r]
  BY <1>1, <1>2, <1>5, <1>6
<1>8. ASSUME NEW k \in 1 .. m PROVE new[k] = new[k - 1] + inflight'[k][r]
  <2>1. CASE k = m
    <3>1. k - 1 = n /\ new[k - 1] = sum[n] /\ inflight'[k] = Gen
      BY <1>1, <1>5, <1>6, <2>1
    <3> QED
      BY <1>6, <2>1, <3>1
  <2>2. CASE k # m
    <3>1. k \in 1 .. n /\ k \in 0 .. n /\ k - 1 \in 0 .. n
      BY <1>1, <2>2
    <3> QED
      BY <1>1, <1>2, <1>6, <3>1
  <2> QED
    BY <2>1, <2>2
<1>9. ASSUME NEW i \in 0 .. m, NEW j \in 0 .. m, i <= j
      PROVE  new[i] <= new[j] /\ new[j] - new[i] <= (j - i) * D
  <2>1. CASE i \in 0 .. n /\ j \in 0 .. n
    BY <1>2, <1>6, <1>9, <2>1
  <2>2. CASE i = m /\ j = m
    <3>1. j - i = 0 /\ 0 * D = 0 /\ new[j] \in Nat /\ new[j] - new[i] = 0
      BY <1>4, <1>5, <1>6, <2>2
    <3> QED
      BY <2>2, <3>1
  <2>3. CASE i \in 0 .. n /\ j = m
    <3> DEFINE a == n - i
    <3>1. a \in Nat /\ j - i = a + 1
      BY <1>1, <1>5, <2>3
    <3>2. sum[i] <= sum[n] /\ sum[n] - sum[i] <= a * D
      BY <1>2, <1>5, <2>3
    <3>3. (a + 1) * D = a * D + D /\ a * D \in Nat
      BY <1>4, <3>1, Times
    <3>4. new[i] = sum[i] /\ new[j] = sum[n] + Gen[r] /\ sum[i] \in Nat /\ sum[n] \in Nat /\ Gen[r] \in 0 .. D
      BY <1>4, <1>5, <1>6, <2>3
    <3> DEFINE p == a * D
    <3>5. p \in Nat /\ sum[n] - sum[i] <= p /\ (j - i) * D = p + D
      BY <3>1, <3>2, <3>3
    <3> HIDE DEF p, a
    <3> QED
      BY <1>4, <3>2, <3>4, <3>5
  <2>4. CASE i = m /\ j \in 0 .. n
    BY <1>1, <1>9, <2>4
  <2> QED
    BY <1>5, <2>1, <2>2, <2>3, <2>4
<1>10. ASSUME EndDrain, r \notin Structured \cup Unbounded, NEW k \in 2 .. m, inflight'[k][r] > 0
       PROVE  outputs'[r] + new[k - 1] < MaxTokens[r]
  <2>1. CASE k = m
    <3>6. k - 1 = n /\ inflight'[k] = Gen
      BY <1>1, <1>5, <2>1
    <3>7. new[n] = sum[n] /\ sum[n] = placeholders[r]
      BY <1>2, <1>5, <1>6
    <3>1. k - 1 = n /\ new[k - 1] = placeholders[r] /\ Gen[r] > 0
      BY <1>10, <3>6, <3>7
    <3>2. chosen[r] > 0
      BY <1>1, <3>1
    <3>3. outputs[r] < MaxTokens[r] /\ outputs[r] \in Nat /\ placeholders[r] \in Nat /\ MaxTokens[r] \in Nat
      BY <1>10, Constants DEF Progress, Types
    <3>4. CASE IsPrefillChunk(r)
      <4>1. placeholders[r] = 0
        BY <3>4 DEF Progress
      <4> QED
        BY <1>3, <3>1, <3>3, <4>1
    <3>5. CASE ~IsPrefillChunk(r)
      <4>1. ~Holds(r)
        BY <3>2, <3>5 DEF Choosing
      <4>2. ~(placeholders[r] > 0) \/ ~(outputs[r] + placeholders[r] >= MaxTokens[r])
        BY <1>10, <3>5, <4>1 DEF Holds
      <4> QED
        BY <1>3, <3>1, <3>3, <4>2
    <3> QED
      BY <3>4, <3>5
  <2>2. CASE k # m
    <3>1. k \in 2 .. n /\ k \in 1 .. n /\ k - 1 \in 0 .. n
      BY <1>1, <2>2
    <3>2. inflight[k][r] > 0
      BY <1>1, <1>10, <3>1
    <3>3. outputs[r] + sum[k - 1] < MaxTokens[r]
      BY <1>10, <3>1, <3>2 DEF Ledger, n
    <3> QED
      BY <1>3, <1>6, <3>1, <3>3
  <2> QED
    BY <2>1, <2>2
<1>11. Ledger(new, r)'
  BY <1>6, <1>7, <1>8, <1>9, <1>10 DEF Ledger, m, D
<1> QED
  BY <1>11

(* The placeholders are bounded by the steps in flight.                    *)
LEMMA LedgerBound ==
  ASSUME NEW n \in Nat, n <= MaxInFlight, NEW s \in Nat, s <= (n - 0) * (Drafts + 1)
  PROVE  s <= MaxInFlight * (Drafts + 1)
<1> DEFINE D == Drafts + 1
<1>1. MaxInFlight \in Nat /\ D \in Nat /\ n - 0 = n
  BY Constants
<1>2. s <= n * D
  BY <1>1
<1> HIDE DEF D
<1>3. n * D <= MaxInFlight * D /\ n * D \in Nat /\ MaxInFlight * D \in Nat
  BY <1>1, TimesMore, Times
<1>4. s <= MaxInFlight * D
  BY <1>2, <1>3
<1> QED
  BY <1>4 DEF D

LEMMA StepLedgers ==
  ASSUME Inv, [Next]_vars, Types'
  PROVE  Ledgers'
<1> USE DEF Inv
<1>1. ASSUME UNCHANGED <<outputs, placeholders, ended, inflight>> PROVE Ledgers'
  BY <1>1 DEF Ledgers, Ledger
<1>2. CASE Return
  <2>1. ASSUME NEW r \in Reqs, ended'[r] = "no" PROVE \E sum : Ledger(sum, r)'
    <3>1. ended[r] = "no"
      BY <1>2, <2>1, ReturnSteps
    <3>2. PICK sum : Ledger(sum, r)
      BY <3>1 DEF Ledgers
    <3> QED
      BY <1>2, <2>1, <3>2, LedgerTail
  <2>2. ASSUME NEW r \in Reqs PROVE placeholders'[r] <= MaxInFlight * (Drafts + 1)
    <3>1. Accepts(r) /\ inflight[1] \in [Reqs -> 0 .. Drafts + 1]
      BY <1>2, ReturnSteps
    <3>5. inflight[1][r] \in Nat
      BY <3>1, TokenType
    <3>2. inflight[1][r] \in Nat /\ placeholders[r] \in Nat
      BY <3>5 DEF Types
    <3>3. placeholders'[r] <= placeholders[r] /\ placeholders'[r] \in Int
      BY <3>1, <3>2 DEF Accepts
    <3>4. placeholders[r] <= MaxInFlight * (Drafts + 1) /\ MaxInFlight * (Drafts + 1) \in Int
      BY Constants DEF Ledgers
    <3> QED
      BY <3>2, <3>3, <3>4
  <2> QED
    BY <2>1, <2>2 DEF Ledgers
<1>3. CASE EndStep
  <2>0. ended' = ended
    BY <1>3 DEF EndStep
  <2>1. ASSUME NEW r \in Reqs, ended'[r] = "no" PROVE \E sum : Ledger(sum, r)'
    <3>1. ended[r] = "no"
      BY <2>0, <2>1
    <3>2. PICK sum : Ledger(sum, r)
      BY <3>1 DEF Ledgers
    <3> QED
      BY <1>3, <3>1, <3>2, LedgerMore
  <2>2. ASSUME NEW r \in Reqs PROVE placeholders'[r] <= MaxInFlight * (Drafts + 1)
    <3>1. CASE ended[r] = "no"
      <4>1. PICK sum : Ledger(sum, r)'
        BY <2>0, <2>1, <3>1
      <4> DEFINE n == Len(inflight')
      <4>2. n \in Nat /\ n <= MaxInFlight /\ placeholders'[r] \in Nat
        BY DEF Types
      <4>3. /\ sum[0] = 0 /\ sum[n] = placeholders'[r]
            /\ \A i, j \in 0 .. n : i <= j => sum[j] - sum[i] <= (j - i) * (Drafts + 1)
        BY <4>1 DEF Ledger
      <4> HIDE DEF n
      <4>4. 0 \in 0 .. n /\ n \in 0 .. n /\ 0 <= n
        BY <4>2
      <4>5. sum[n] - sum[0] <= (n - 0) * (Drafts + 1)
        BY <4>3, <4>4
      <4>6. placeholders'[r] <= (n - 0) * (Drafts + 1)
        BY <4>2, <4>3, <4>5
      <4> QED
        BY <4>2, <4>6, LedgerBound
    <3>2. CASE ended[r] # "no"
      <4>1. ~(chosen[r] > 0)
        BY <3>2 DEF Choosing, Queues, Alive
      <4>2. Gen \in [Reqs -> 0 .. Drafts + 1] /\ (Gen[r] > 0 => chosen[r] > 0)
            /\ placeholders' = [q \in Reqs |-> placeholders[q] + Gen[q]]
        BY <1>3, EndSteps
      <4>5. Gen[r] \in Nat
        BY <4>2, TokenType
      <4>3. Gen[r] = 0 /\ placeholders[r] \in Nat
        BY <4>1, <4>2, <4>5, FieldTypes
      <4>4. placeholders'[r] = placeholders[r]
        BY <4>2, <4>3
      <4> QED
        BY <4>4 DEF Ledgers
    <3> QED
      BY <3>1, <3>2
  <2> QED
    BY <2>1, <2>2 DEF Ledgers
<1>4. ASSUME NEW r \in Reqs, Arrive(r) PROVE Ledgers'
  BY <1>1, <1>4 DEF Arrive
<1>5. CASE BeginStep \/ ScheduleRunning \/ RunningDone \/ NoRoom \/ WaitingDone \/ DeferWaiting \/ AdmitWaiting
  <2>1. UNCHANGED <<outputs, placeholders, ended, inflight>>
    BY <1>5 DEF BeginStep, ScheduleRunning, RunningDone, NoRoom, WaitingDone, DeferWaiting, AdmitWaiting, requests
  <2> QED
    BY <1>1, <2>1
<1>6. CASE UNCHANGED vars
  BY <1>1, <1>6 DEF vars, requests
<1> QED
  BY <1>2, <1>3, <1>4, <1>5, <1>6 DEF Next, Schedule

(* A request that ends by length leaves nothing behind in flight.          *)
LEMMA StepWasted ==
  ASSUME Inv, EndDrain, NoStepWasted, [Next]_vars
  PROVE  NoStepWasted'
<1> USE DEF Inv
<1>1. ASSUME UNCHANGED <<ended, inflight>> PROVE NoStepWasted'
  BY <1>1 DEF NoStepWasted
<1>2. CASE Return
  <2>1. /\ Len(inflight) \in Nat \ {0} /\ Len(inflight') = Len(inflight) - 1
        /\ \A k \in 1 .. Len(inflight) - 1 : inflight'[k] = inflight[k + 1]
        /\ \A r \in Reqs : Accepts(r) /\ (ended[r] # "no" => ended'[r] = ended[r])
        /\ inflight \in Seq([Reqs -> 0 .. Drafts + 1]) /\ inflight' \in Seq([Reqs -> 0 .. Drafts + 1])
    BY <1>2, ReturnSteps DEF Types
  <2>2. DOMAIN inflight = 1 .. Len(inflight) /\ DOMAIN inflight' = 1 .. Len(inflight) - 1
    BY <2>1
  <2> SUFFICES ASSUME NEW r \in Reqs \ Structured, ended'[r] = "length", NEW i \in 1 .. Len(inflight) - 1
               PROVE  inflight'[i][r] = 0
    BY <2>2 DEF NoStepWasted
  <2> DEFINE k == i + 1
  <2>3. /\ k \in 2 .. Len(inflight) /\ k \in 1 .. Len(inflight) /\ k - 1 \in 0 .. Len(inflight) /\ 1 <= k - 1
        /\ 1 \in 0 .. Len(inflight) /\ 1 \in 1 .. Len(inflight) /\ inflight'[i] = inflight[k]
        /\ inflight[k] \in [Reqs -> 0 .. Drafts + 1] /\ inflight[1] \in [Reqs -> 0 .. Drafts + 1]
    <3>0. Len(inflight) \in Nat \ {0}
      BY <2>1
    <3>1. /\ k \in 2 .. Len(inflight) /\ k \in 1 .. Len(inflight) /\ k - 1 \in 0 .. Len(inflight) /\ 1 <= k - 1
          /\ 1 \in 0 .. Len(inflight) /\ 1 \in 1 .. Len(inflight)
      BY <3>0
    <3>2. inflight'[i] = inflight[k]
      BY <2>1
    <3> HIDE DEF k
    <3>3. inflight \in Seq([Reqs -> 0 .. Drafts + 1]) /\ k \in 1 .. Len(inflight)
      BY <2>1, <3>1
    <3>4. inflight[k] \in [Reqs -> 0 .. Drafts + 1]
      BY <3>3
    <3>5. inflight \in Seq([Reqs -> 0 .. Drafts + 1]) /\ 1 \in 1 .. Len(inflight)
      BY <2>1, <3>1
    <3>6. inflight[1] \in [Reqs -> 0 .. Drafts + 1]
      BY <3>5
    <3> QED
      BY <3>1, <3>2, <3>4, <3>6
  <2> HIDE DEF k
  <2>4. CASE ended[r] # "no"
    <3>1. ended[r] = "length"
      BY <2>1, <2>4
    <3> QED
      BY <2>2, <2>3, <3>1 DEF NoStepWasted
  <2>5. CASE ended[r] = "no"
    <3>1. PICK sum : Ledger(sum, r)
      BY <2>5 DEF Ledgers
    <3>2. r \notin Unbounded /\ inflight[1][r] > 0
          /\ \E a \in 1 .. inflight[1][r] : outputs'[r] = Least(outputs[r] + a, MaxTokens[r])
      BY <2>1, <2>5 DEF Accepts
    <3>3. outputs'[r] = MaxTokens[r]
      BY <2>1, <2>5 DEF Accepts
    <3>8. inflight[1][r] \in Nat /\ inflight[k][r] \in Nat
      BY <2>3, TokenType
    <3>4. /\ outputs[r] \in Nat /\ MaxTokens[r] \in Nat
          /\ inflight[1][r] \in Nat /\ inflight[k][r] \in Nat
      BY <3>8, Constants DEF Types
    <3>5. outputs[r] + inflight[1][r] >= MaxTokens[r]
      BY <3>2, <3>3, <3>4 DEF Least
    <3>6. sum[1] = inflight[1][r] /\ sum[1] <= sum[k - 1] /\ sum[k - 1] \in Nat
      <4>3. sum[0] = 0 /\ \A j \in 1 .. Len(inflight) : sum[j] = sum[j - 1] + inflight[j][r]
        BY <3>1 DEF Ledger
      <4>4. 1 \in 1 .. Len(inflight)
        BY <2>3
      <4>5. sum[1] = sum[1 - 1] + inflight[1][r]
        BY <4>3, <4>4
      <4>1. sum[1] = sum[0] + inflight[1][r] /\ sum[0] = 0
        BY <4>3, <4>5
      <4>2. sum[1] <= sum[k - 1] /\ sum[k - 1] \in Nat
        BY <2>3, <3>1 DEF Ledger
      <4> QED
        BY <3>4, <4>1, <4>2
    <3>7. inflight[k][r] > 0 => outputs[r] + sum[k - 1] < MaxTokens[r]
      BY <2>3, <3>1, <3>2 DEF Ledger
    <3> QED
      BY <2>3, <3>4, <3>5, <3>6, <3>7
  <2> QED
    BY <2>4, <2>5
<1>3. CASE EndStep
  <2>1. /\ Gen \in [Reqs -> 0 .. Drafts + 1] /\ \A r \in Reqs : Gen[r] > 0 => chosen[r] > 0
        /\ Len(inflight') = Len(inflight) + 1 /\ Len(inflight) \in Nat
        /\ inflight'[Len(inflight) + 1] = Gen
        /\ \A k \in 1 .. Len(inflight) : inflight'[k] = inflight[k]
        /\ inflight \in Seq([Reqs -> 0 .. Drafts + 1]) /\ inflight' \in Seq([Reqs -> 0 .. Drafts + 1])
    BY <1>3, EndSteps DEF Types
  <2>2. DOMAIN inflight = 1 .. Len(inflight) /\ DOMAIN inflight' = 1 .. Len(inflight) + 1 /\ ended' = ended
    BY <1>3, <2>1 DEF EndStep
  <2> SUFFICES ASSUME NEW r \in Reqs \ Structured, ended[r] = "length", NEW i \in 1 .. Len(inflight) + 1
               PROVE  inflight'[i][r] = 0
    BY <2>2 DEF NoStepWasted
  <2>3. ~(chosen[r] > 0)
    BY DEF Choosing, Queues, Alive
  <2>4. Gen[r] = 0
    BY <2>1, <2>3, Constants
  <2>5. CASE i = Len(inflight) + 1
    BY <2>1, <2>4, <2>5
  <2>6. CASE i # Len(inflight) + 1
    <3>1. i \in 1 .. Len(inflight)
      BY <2>1, <2>6
    <3> QED
      BY <2>1, <2>2, <3>1 DEF NoStepWasted
  <2> QED
    BY <2>5, <2>6
<1>4. ASSUME NEW r \in Reqs, Arrive(r) PROVE NoStepWasted'
  BY <1>1, <1>4 DEF Arrive
<1>5. CASE BeginStep \/ ScheduleRunning \/ RunningDone \/ NoRoom \/ WaitingDone \/ DeferWaiting \/ AdmitWaiting
  <2>1. UNCHANGED <<ended, inflight>>
    BY <1>5 DEF BeginStep, ScheduleRunning, RunningDone, NoRoom, WaitingDone, DeferWaiting, AdmitWaiting, requests
  <2> QED
    BY <1>1, <2>1
<1>6. CASE UNCHANGED vars
  BY <1>1, <1>6 DEF vars, requests
<1> QED
  BY <1>2, <1>3, <1>4, <1>5, <1>6 DEF Next, Schedule

-----------------------------------------------------------------------------
(* The order of the waiting requests.                                      *)

(* Orders(a, w, d): the requests set aside, last one first, and the waiting *)
(* ones behind them are in the order of a.                                 *)
Before(a, q, r) == \E k, l \in DOMAIN a : k < l /\ a[k] = q /\ a[l] = r
Orders(a, w, d) ==
  /\ \A i, j \in 1 .. Len(w) : i < j => Before(a, w[i], w[j])
  /\ \A i, j \in 1 .. Len(d) : i < j => Before(a, d[j], d[i])
  /\ \A i \in 1 .. Len(d), j \in 1 .. Len(w) : Before(a, d[i], w[j])

LEMMA OrderIs ==
  ASSUME QueueTypes
  PROVE  Order <=> Orders(arrived, waiting, deferred)
<1>1. DOMAIN waiting = 1 .. Len(waiting) /\ DOMAIN deferred = 1 .. Len(deferred)
  BY DEF QueueTypes
<1> QED
  BY <1>1 DEF Order, Orders, ArrivedBefore, Before

LEMMA AppendKeeps ==
  ASSUME NEW a \in Seq(Reqs), NEW s \in Reqs, NEW q, NEW r, Before(a, q, r)
  PROVE  Before(Append(a, s), q, r)
<1>1. PICK k \in DOMAIN a, l \in DOMAIN a : k < l /\ a[k] = q /\ a[l] = r
  BY DEF Before
<1>2. DOMAIN a = 1 .. Len(a) /\ Len(a) \in Nat /\ DOMAIN Append(a, s) = 1 .. Len(a) + 1
  OBVIOUS
<1>3. \A i \in 1 .. Len(a) : Append(a, s)[i] = a[i] /\ i \in 1 .. Len(a) + 1
  BY <1>2
<1> QED
  BY <1>1, <1>2, <1>3 DEF Before

LEMMA AppendLast ==
  ASSUME NEW a \in Seq(Reqs), NEW r \in Reqs, NEW q \in ToSet(a)
  PROVE  Before(Append(a, r), q, r)
<1>1. PICK i \in 1 .. Len(a) : a[i] = q
  BY InQueue
<1>2. /\ Len(a) \in Nat /\ DOMAIN Append(a, r) = 1 .. Len(a) + 1
      /\ Append(a, r)[i] = q /\ Append(a, r)[Len(a) + 1] = r
  BY <1>1
<1>3. i \in 1 .. Len(a) + 1 /\ Len(a) + 1 \in 1 .. Len(a) + 1 /\ i < Len(a) + 1
  BY <1>1, <1>2
<1> QED
  BY <1>2, <1>3 DEF Before

(* A request arrives behind all others.                                    *)
LEMMA ArriveOrder ==
  ASSUME NEW a \in Seq(Reqs), NEW w \in Seq(Reqs), NEW r \in Reqs, ToSet(w) \subseteq ToSet(a), Orders(a, w, <<>>)
  PROVE  Orders(Append(a, r), Append(w, r), <<>>)
<1> DEFINE v == Append(w, r)
<1>1. Len(w) \in Nat /\ Len(v) = Len(w) + 1 /\ v[Len(w) + 1] = r /\ \A i \in 1 .. Len(w) : v[i] = w[i]
  OBVIOUS
<1> HIDE DEF v
<1>2. ASSUME NEW i \in 1 .. Len(v), NEW j \in 1 .. Len(v), i < j
      PROVE  Before(Append(a, r), v[i], v[j])
  <2>1. i \in 1 .. Len(w) /\ v[i] = w[i]
    BY <1>1, <1>2
  <2>2. CASE j = Len(w) + 1
    <3>1. v[i] \in ToSet(a)
      BY <2>1, InQueue
    <3> QED
      BY <1>1, <2>2, <3>1, AppendLast
  <2>3. CASE j # Len(w) + 1
    <3>1. j \in 1 .. Len(w) /\ v[j] = w[j]
      BY <1>1, <2>3
    <3>2. Before(a, w[i], w[j])
      BY <1>2, <2>1, <3>1 DEF Orders
    <3> QED
      BY <2>1, <3>1, <3>2, AppendKeeps
  <2> QED
    BY <2>2, <2>3
<1>3. Len(<<>>) = 0
  OBVIOUS
<1> QED
  BY <1>2, <1>3 DEF Orders, v

(* The front of the queue is set aside, in front of those set aside before, *)
(* or leaves it.                                                           *)
LEMMA AsideOrder ==
  ASSUME NEW a, NEW w \in Seq(Reqs), NEW d \in Seq(Reqs), w # <<>>, Orders(a, w, d)
  PROVE  Orders(a, Tail(w), <<Head(w)>> \o d) /\ Orders(a, Tail(w), d)
<1> DEFINE t == Tail(w)
           e == <<Head(w)>> \o d
<1>1. /\ Len(w) \in Nat \ {0} /\ Len(t) = Len(w) - 1 /\ \A i \in 1 .. Len(t) : t[i] = w[i + 1]
      /\ Len(d) \in Nat
  OBVIOUS
<1>2. Len(e) = Len(d) + 1 /\ e[1] = w[1] /\ \A i \in 2 .. Len(d) + 1 : e[i] = d[i - 1]
  OBVIOUS
<1> HIDE DEF t, e
<1>3. \A i \in 1 .. Len(t) : i + 1 \in 1 .. Len(w) /\ 1 < i + 1 /\ 1 \in 1 .. Len(w)
  BY <1>1
<1>4. \A i \in 1 .. Len(e) : i = 1 \/ (i \in 2 .. Len(d) + 1 /\ i - 1 \in 1 .. Len(d))
  BY <1>1, <1>2
<1>5. \A i, j \in 1 .. Len(t) : i < j => Before(a, t[i], t[j])
  <2> SUFFICES ASSUME NEW i \in 1 .. Len(t), NEW j \in 1 .. Len(t), i < j
               PROVE  Before(a, t[i], t[j])
    OBVIOUS
  <2>1. i + 1 \in 1 .. Len(w) /\ j + 1 \in 1 .. Len(w) /\ i + 1 < j + 1
    BY <1>1
  <2>2. Before(a, w[i + 1], w[j + 1])
    BY <2>1 DEF Orders
  <2> QED
    BY <1>1, <2>2
<1>6. \A i \in 1 .. Len(d), j \in 1 .. Len(t) : Before(a, d[i], t[j])
  BY <1>1, <1>3 DEF Orders
<1>7. \A i \in 1 .. Len(e), j \in 1 .. Len(t) : Before(a, e[i], t[j])
  <2> SUFFICES ASSUME NEW i \in 1 .. Len(e), NEW j \in 1 .. Len(t)
               PROVE  Before(a, e[i], t[j])
    OBVIOUS
  <2>1. CASE i = 1
    <3>1. Before(a, w[1], w[j + 1])
      BY <1>3 DEF Orders
    <3> QED
      BY <1>1, <1>2, <2>1, <3>1
  <2>2. CASE i \in 2 .. Len(d) + 1 /\ i - 1 \in 1 .. Len(d)
    BY <1>2, <1>6, <2>2
  <2> QED
    BY <1>4, <2>1, <2>2
<1>8. \A i, j \in 1 .. Len(e) : i < j => Before(a, e[j], e[i])
  <2> SUFFICES ASSUME NEW i \in 1 .. Len(e), NEW j \in 1 .. Len(e), i < j
               PROVE  Before(a, e[j], e[i])
    OBVIOUS
  <2>1. j \in 2 .. Len(d) + 1 /\ j - 1 \in 1 .. Len(d) /\ e[j] = d[j - 1]
    BY <1>1, <1>2
  <2>2. CASE i = 1
    <3>1. Before(a, d[j - 1], w[1])
      BY <1>1, <2>1 DEF Orders
    <3> QED
      BY <1>2, <2>1, <2>2, <3>1
  <2>3. CASE i \in 2 .. Len(d) + 1 /\ i - 1 \in 1 .. Len(d)
    <3>1. i - 1 < j - 1 /\ e[i] = d[i - 1]
      BY <1>2, <2>3
    <3>2. Before(a, d[j - 1], d[i - 1])
      BY <2>1, <2>3, <3>1 DEF Orders
    <3> QED
      BY <2>1, <3>1, <3>2
  <2> QED
    BY <1>4, <2>2, <2>3
<1>9. \A i, j \in 1 .. Len(d) : i < j => Before(a, d[j], d[i])
  BY DEF Orders
<1>10. Orders(a, t, e) /\ Orders(a, t, d)
  BY <1>5, <1>6, <1>7, <1>8, <1>9 DEF Orders
<1> QED
  BY <1>10 DEF t, e

(* Those set aside go back to the front.                                   *)
LEMMA RestoreOrder ==
  ASSUME NEW a, NEW w \in Seq(Reqs), NEW d \in Seq(Reqs), Orders(a, w, d),
         Distinct(d), Distinct(w), ToSet(d) \cap ToSet(w) = {}
  PROVE  Orders(a, Reverse(d) \o w, <<>>)
<1> DEFINE t == Reverse(d) \o w
           n == Len(d)
<1>1. /\ Len(t) = n + Len(w)
      /\ \A i \in 1 .. n + Len(w) : t[i] = IF i <= n THEN d[n - i + 1] ELSE w[i - n]
  BY RestoreQueue
<1>2. n \in Nat /\ Len(w) \in Nat
  OBVIOUS
<1> HIDE DEF t
<1>3. ASSUME NEW i \in 1 .. Len(t), NEW j \in 1 .. Len(t), i < j
      PROVE  Before(a, t[i], t[j])
  <2>1. CASE j <= n
    <3>1. /\ n - j + 1 \in 1 .. n /\ n - i + 1 \in 1 .. n /\ n - j + 1 < n - i + 1
          /\ t[i] = d[n - i + 1] /\ t[j] = d[n - j + 1]
      BY <1>1, <1>2, <1>3, <2>1
    <3> QED
      BY <3>1 DEF Orders
  <2>2. CASE i <= n /\ ~(j <= n)
    <3>1. n - i + 1 \in 1 .. n /\ j - n \in 1 .. Len(w) /\ t[i] = d[n - i + 1] /\ t[j] = w[j - n]
      BY <1>1, <1>2, <1>3, <2>2
    <3> QED
      BY <3>1 DEF Orders
  <2>3. CASE ~(i <= n)
    <3>1. /\ i - n \in 1 .. Len(w) /\ j - n \in 1 .. Len(w) /\ i - n < j - n
          /\ t[i] = w[i - n] /\ t[j] = w[j - n]
      BY <1>1, <1>2, <1>3, <2>3
    <3> QED
      BY <3>1 DEF Orders
  <2> QED
    BY <2>1, <2>2, <2>3
<1>4. Len(<<>>) = 0
  OBVIOUS
<1> QED
  BY <1>3, <1>4 DEF Orders, t

LEMMA StepOrder ==
  ASSUME Inv, Order, [Next]_vars
  PROVE  Order'
<1>1. QueueTypes /\ Queues /\ Types
  BY DEF Inv, Types, QueueTypes
<1>2. QueueTypes'
  BY StepQueues DEF Inv
<1>3. Orders(arrived, waiting, deferred)
  BY <1>1, OrderIs
<1>4. /\ arrived \in Seq(Reqs) /\ waiting \in Seq(Reqs) /\ deferred \in Seq(Reqs)
      /\ Distinct(waiting) /\ Distinct(deferred)
      /\ ToSet(waiting) \cap ToSet(deferred) = {} /\ ToSet(waiting) \subseteq ToSet(arrived)
  BY <1>1 DEF QueueTypes, Queues, Alive
<1> SUFFICES Orders(arrived', waiting', deferred')
  <2>1. DOMAIN waiting' = 1 .. Len(waiting') /\ DOMAIN deferred' = 1 .. Len(deferred')
    BY <1>2 DEF QueueTypes
  <2> QED
    BY <2>1 DEF Order, Orders, ArrivedBefore, Before
<1>5. ASSUME NEW r \in Reqs, Arrive(r) PROVE Orders(arrived', waiting', deferred')
  <2>1. /\ arrived' = Append(arrived, r) /\ waiting' = Append(waiting, r)
        /\ deferred = <<>> /\ deferred' = <<>>
    BY <1>5 DEF Arrive, Inv, Phases
  <2>2. Orders(arrived, waiting, <<>>)
    BY <1>3, <2>1
  <2>3. Orders(Append(arrived, r), Append(waiting, r), <<>>)
    BY <1>4, <2>2, ArriveOrder
  <2> QED
    BY <2>1, <2>3
<1>6. CASE DeferWaiting
  <2>1. arrived' = arrived /\ waiting # <<>>
    BY <1>6 DEF DeferWaiting, MayAdmit, requests
  <2>2. \/ waiting' = waiting /\ deferred' = deferred
        \/ waiting' = Tail(waiting) /\ deferred' = <<Head(waiting)>> \o deferred
    BY <1>6 DEF DeferWaiting, SetAside
  <2>3. Orders(arrived, Tail(waiting), <<Head(waiting)>> \o deferred)
    BY <1>3, <1>4, <2>1, AsideOrder
  <2> QED
    BY <1>3, <2>1, <2>2, <2>3
<1>7. CASE AdmitWaiting
  <2>1. arrived' = arrived /\ waiting # <<>> /\ waiting' = Tail(waiting) /\ deferred' = deferred
    BY <1>7 DEF AdmitWaiting, MayAdmit
  <2>2. Orders(arrived, Tail(waiting), deferred)
    BY <1>3, <1>4, <2>1, AsideOrder
  <2> QED
    BY <2>1, <2>2
<1>8. CASE EndStep
  <2>1. arrived' = arrived /\ waiting' = Reverse(deferred) \o waiting /\ deferred' = <<>>
    BY <1>8 DEF EndStep, RestoreDeferred
  <2>2. ToSet(deferred) \cap ToSet(waiting) = {}
    BY <1>4
  <2>3. Orders(arrived, Reverse(deferred) \o waiting, <<>>)
    BY <1>3, <1>4, <2>2, RestoreOrder
  <2> QED
    BY <2>1, <2>3
<1>9. CASE Return \/ BeginStep \/ ScheduleRunning \/ RunningDone \/ NoRoom \/ WaitingDone \/ UNCHANGED vars
  <2>1. UNCHANGED <<arrived, waiting, deferred>>
    BY <1>9 DEF Return, BeginStep, ScheduleRunning, RunningDone, NoRoom, WaitingDone, vars, requests
  <2> QED
    BY <1>3, <2>1
<1> QED
  BY <1>5, <1>6, <1>7, <1>8, <1>9 DEF Next, Schedule
-----------------------------------------------------------------------------
(* What a deferred step spends on prompts, and what it decodes.            *)

(* The tokens chosen for prompts are in the short budget.                  *)
Long == {r \in Reqs : Prompt[r] - computed[r] > 1}
Spends == defer => SumFunctionOnSet(chosen, Long) <= shortUsed

(* The running loop of a deferred step has chosen a decode, or it has      *)
(* chosen nothing but short prompts and a request that decodes is still to *)
(* come; after that loop, a decode is chosen.                              *)
Decodes == \E r \in Reqs : chosen[r] > 0 /\ ~IsPrefillChunk(r)
DecodeToCome == \E i \in index .. Len(running) : ~IsPrefillChunk(running[i]) /\ ~Holds(running[i])
Buys == defer =>
  \/ phase = "idle"
  \/ Decodes
  \/ phase = "running" /\ SumFunctionOnSet(chosen, Reqs) <= shortUsed /\ DecodeToCome

(* A chunk of a prompt, or the prompt of a request that is admitted, is in *)
(* the short budget: before, the request had nothing chosen.               *)
LEMMA StepSpends ==
  ASSUME Inv, Spends, [Next]_vars
  PROVE  Spends'
<1>1. /\ Types /\ Queues /\ Phases /\ Choosing
      /\ chosen \in [Reqs -> Nat] /\ shortUsed \in Nat /\ Long \in SUBSET Reqs
      /\ SumFunctionOnSet(chosen, Long) \in Nat
      /\ \A r \in Reqs : computed[r] \in Nat /\ Prompt[r] \in Nat /\ computed[r] <= Prompt[r]
  <2>1. Types /\ Queues /\ Phases /\ Choosing
    BY DEF Inv
  <2>2. chosen \in [Reqs -> Nat] /\ shortUsed \in Nat /\ Long \in SUBSET Reqs
        /\ \A r \in Reqs : computed[r] \in Nat /\ Prompt[r] \in Nat /\ computed[r] <= Prompt[r]
    BY <2>1, Constants DEF Types, Long
  <2> QED
    BY <2>1, <2>2, SumNat
<1>2. CASE BeginStep
  <2>1. chosen = Nothing /\ chosen' = chosen /\ shortUsed' = 0 /\ computed' = computed
    BY <1>1, <1>2 DEF BeginStep, Phases, requests
  <2>2. Long' = Long
    BY <2>1 DEF Long
  <2>3. SumFunctionOnSet(chosen, Long) = 0
    BY <1>1, <2>1, SumNothing
  <2> QED
    BY <2>1, <2>2, <2>3 DEF Spends
<1>3. CASE ScheduleRunning
  <2> DEFINE r == running[index]
  <2>1. /\ r \in Reqs /\ chosen[r] = 0
        /\ LeavesOut(r) \/ ChoosesChunk(r) \/ ChoosesDecode(r)
    BY <1>1, <1>3, RunningSteps, LooksOnce
  <2>2. computed' = computed /\ defer' = defer
    BY <1>3 DEF ScheduleRunning, requests
  <2>3. Long' = Long
    BY <2>2 DEF Long
  <2> HIDE DEF r
  <2>4. CASE LeavesOut(r)
    <3>1. chosen' = chosen /\ shortUsed' = shortUsed
      BY <2>4 DEF LeavesOut
    <3> QED
      BY <2>2, <2>3, <3>1 DEF Spends
  <2>5. CASE ChoosesChunk(r)
    <3>1. PICK v \in Nat : v <= Prompt[r] - computed[r] /\ chosen' = [chosen EXCEPT ![r] = v]
      BY <2>5 DEF ChoosesChunk
    <3>2. defer => shortUsed' = shortUsed + (Prompt[r] - computed[r])
      BY <2>5 DEF ChoosesChunk
    <3>3. Puts(chosen, r, v, chosen')
      BY <2>1, <3>1 DEF Puts
    <3>4. PutSum(chosen, r, v, chosen', Long)
      BY <1>1, <3>3, SumPut
    <3>5. SumFunctionOnSet(chosen', Long) <= SumFunctionOnSet(chosen, Long) + v
      BY <1>1, <3>1, <3>4 DEF PutSum
    <3>6. ASSUME defer PROVE SumFunctionOnSet(chosen', Long) <= shortUsed'
      <4>1. SumFunctionOnSet(chosen, Long) <= shortUsed /\ shortUsed' = shortUsed + (Prompt[r] - computed[r])
        BY <3>2, <3>6 DEF Spends
      <4>2. SumFunctionOnSet(chosen', Long) \in Nat
        BY <1>1, <3>1, <3>4 DEF PutSum
      <4> QED
        BY <1>1, <2>1, <3>1, <3>5, <4>1, <4>2
    <3> QED
      BY <2>2, <2>3, <3>6 DEF Spends
  <2>6. CASE ChoosesDecode(r)
    <3>1. PICK v \in Nat \ {0} : chosen' = [chosen EXCEPT ![r] = v]
      BY <2>6 DEF ChoosesDecode
    <3>2. shortUsed' = shortUsed /\ ~IsPrefillChunk(r)
      BY <2>6 DEF ChoosesDecode
    <3>3. Puts(chosen, r, v, chosen') /\ r \notin Long
      BY <1>1, <2>1, <3>1, <3>2 DEF Puts, Long, IsPrefillChunk
    <3>4. PutSum(chosen, r, v, chosen', Long)
      BY <1>1, <3>3, SumPut
    <3>5. SumFunctionOnSet(chosen', Long) = SumFunctionOnSet(chosen, Long)
      BY <1>1, <3>3, <3>4 DEF PutSum
    <3> QED
      BY <2>2, <2>3, <3>2, <3>5 DEF Spends
  <2> QED
    BY <2>1, <2>4, <2>5, <2>6
<1>4. CASE AdmitWaiting
  <2>1. PICK r, c, v : Admits(r, c, v)
    BY <1>1, <1>4, AdmitSteps
  <2>2. /\ r \in Reqs /\ r \in ToSet(waiting) /\ c \in Nat /\ c < Prompt[r] /\ v \in Nat /\ v <= Prompt[r] - c
        /\ chosen' = [chosen EXCEPT ![r] = v] /\ computed' = [computed EXCEPT ![r] = c]
    BY <2>1 DEF Admits
  <2>3. defer' = defer
    BY <1>4 DEF AdmitWaiting
  <2>4. chosen[r] = 0
    <3>1. r \notin ToSet(running)
      BY <1>1, <2>2 DEF Queues
    <3> QED
      BY <1>1, <2>2, <3>1 DEF Choosing
  <2>5. Long' \in SUBSET Reqs /\ Long' \ {r} = Long \ {r} /\ (r \in Long' <=> Prompt[r] - c > 1)
    BY <1>1, <2>2 DEF Long, Types
  <2> DEFINE L == Long'
  <2>6. SumFunctionOnSet(chosen, L) = SumFunctionOnSet(chosen, Long)
    <3>1. SumFunctionOnSet(chosen, L \ {r}) = SumFunctionOnSet(chosen, L)
      BY <1>1, <2>2, <2>4, <2>5, SumDrop
    <3>2. SumFunctionOnSet(chosen, Long \ {r}) = SumFunctionOnSet(chosen, Long)
      BY <1>1, <2>2, <2>4, SumDrop
    <3> QED
      BY <2>5, <3>1, <3>2
  <2>7. PutSum(chosen, r, v, chosen', L)
    <3>1. Puts(chosen, r, v, chosen')
      BY <2>2, <2>4 DEF Puts
    <3> QED
      BY <1>1, <2>5, <3>1, SumPut
  <2>8. SumFunctionOnSet(chosen', L) = SumFunctionOnSet(chosen, Long) + (IF r \in L THEN v ELSE 0)
    BY <2>6, <2>7 DEF PutSum
  <2>9. ASSUME defer PROVE SumFunctionOnSet(chosen', L) <= shortUsed'
    <3>1. SumFunctionOnSet(chosen, Long) <= shortUsed
      BY <2>9 DEF Spends
    <3>2. Prompt[r] \in Nat
      BY <1>1, <2>2
    <3>3. CASE r \in L
      <4>1. c < Prompt[r] - 1
        BY <2>2, <2>5, <3>2, <3>3
      <4>2. shortUsed' = shortUsed + (Prompt[r] - c)
        BY <2>1, <2>9, <4>1 DEF Admits
      <4>3. SumFunctionOnSet(chosen', L) = SumFunctionOnSet(chosen, Long) + v
        BY <2>8, <3>3
      <4> HIDE DEF L
      <4> QED
        BY <1>1, <2>2, <3>1, <3>2, <4>2, <4>3
    <3>4. CASE r \notin L
      <4>1. ~(c < Prompt[r] - 1)
        BY <2>2, <2>5, <3>2, <3>4
      <4>2. shortUsed' = shortUsed
        BY <2>1, <4>1 DEF Admits
      <4>3. SumFunctionOnSet(chosen', L) = SumFunctionOnSet(chosen, Long)
        BY <1>1, <2>8, <3>4
      <4> QED
        BY <3>1, <4>2, <4>3
    <3> QED
      BY <3>3, <3>4
  <2> QED
    BY <2>3, <2>9 DEF Spends
<1>5. CASE EndStep
  BY <1>5 DEF EndStep, Spends
<1>6. CASE Return \/ \E r \in Reqs : Arrive(r)
  <2>1. defer' = defer /\ phase = "idle"
    BY <1>6 DEF Return, Arrive
  <2> QED
    BY <1>1, <2>1 DEF Phases, Spends
<1>7. CASE RunningDone \/ DeferWaiting \/ NoRoom \/ WaitingDone \/ UNCHANGED vars
  <2>1. UNCHANGED <<chosen, computed, shortUsed, defer>>
    BY <1>7 DEF RunningDone, DeferWaiting, NoRoom, WaitingDone, vars, requests
  <2> QED
    BY <2>1 DEF Spends, Long
<1> QED
  BY <1>2, <1>3, <1>4, <1>5, <1>6, <1>7 DEF Next, Schedule

(* With end drain and no structured output, the running loop leaves a      *)
(* decode out only if it is held: the ones that deferred the prefills are  *)
(* scheduled, and nothing but short prompts is scheduled before.           *)
LEMMA StepBuys ==
  ASSUME EndDrain, Structured = {}, Inv, Buys, [Next]_vars
  PROVE  Buys'
<1>1. /\ Types /\ Queues /\ Phases /\ Choosing
      /\ chosen \in [Reqs -> Nat] /\ shortUsed \in 0 .. ShortTokens /\ shortUsed \in Nat /\ Reqs \in SUBSET Reqs
      /\ running \in Seq(Reqs) /\ Len(running) \in Nat
      /\ SumFunctionOnSet(chosen, Reqs) \in Nat
      /\ \A r \in Reqs : computed[r] \in Nat /\ Prompt[r] \in Nat /\ computed[r] <= Prompt[r]
  <2>1. Types /\ Queues /\ Phases /\ Choosing
    BY DEF Inv
  <2>2. chosen \in [Reqs -> Nat] /\ shortUsed \in 0 .. ShortTokens /\ running \in Seq(Reqs)
        /\ \A r \in Reqs : computed[r] \in Nat /\ Prompt[r] \in Nat /\ computed[r] <= Prompt[r]
    BY <2>1, Constants DEF Types
  <2>3. shortUsed \in Nat /\ Len(running) \in Nat /\ Reqs \in SUBSET Reqs
    BY <2>2, Constants
  <2> QED
    BY <2>1, <2>2, <2>3, SumNat
<1>2. CASE BeginStep
  <2>1. /\ chosen = Nothing /\ chosen' = chosen /\ shortUsed' = 0 /\ index = 1 /\ index' = index
        /\ phase' = "running" /\ running' = running /\ defer' = DeferPrefills(CadenceThrottles)
        /\ UNCHANGED <<computed, outputs, placeholders>>
    BY <1>1, <1>2 DEF BeginStep, Phases, requests
  <2>2. SumFunctionOnSet(chosen', Reqs) = 0
    BY <1>1, <2>1, SumNothing
  <2>3. ASSUME defer' PROVE DecodeToCome'
    <3>1. PICK r \in ToSet(running) : ~IsPrefillChunk(r) /\ ~Holds(r)
      BY <2>1, <2>3 DEF DeferPrefills
    <3>2. PICK i \in 1 .. Len(running) : running[i] = r
      BY <1>1, InQueue
    <3> QED
      BY <2>1, <3>1, <3>2 DEF DecodeToCome, IsPrefillChunk, Holds
  <2> QED
    BY <2>1, <2>2, <2>3 DEF Buys
<1>3. CASE ScheduleRunning
  <2> DEFINE r == running[index]
  <2>1. /\ r \in Reqs /\ chosen[r] = 0 /\ index \in 1 .. Len(running) /\ index' = index + 1
        /\ LeavesOut(r) \/ ChoosesChunk(r) \/ ChoosesDecode(r)
    BY <1>1, <1>3, RunningSteps, LooksOnce
  <2>2. UNCHANGED <<computed, outputs, placeholders, running, defer, phase>> /\ phase = "running"
    BY <1>3 DEF ScheduleRunning, requests
  <2>3. ASSUME defer, ~Decodes
        PROVE  SumFunctionOnSet(chosen, Reqs) <= shortUsed /\ DecodeToCome
    BY <2>2, <2>3 DEF Buys
  <2>4. ASSUME DecodeToCome, IsPrefillChunk(r) \/ Holds(r) PROVE DecodeToCome'
    <3>1. PICK i \in index .. Len(running) : ~IsPrefillChunk(running[i]) /\ ~Holds(running[i])
      BY <2>4 DEF DecodeToCome
    <3>2. i # index
      BY <2>4, <3>1
    <3>3. i \in index' .. Len(running)
      BY <1>1, <2>1, <3>1, <3>2
    <3> QED
      BY <2>2, <3>1, <3>3 DEF DecodeToCome, IsPrefillChunk, Holds
  <2> HIDE DEF r
  <2>5. CASE LeavesOut(r)
    <3>1. chosen' = chosen /\ shortUsed' = shortUsed
      BY <2>5 DEF LeavesOut
    <3>2. SurelyDone(r) /\ ~IsPrefillChunk(r) => Holds(r)
      <4>1. outputs[r] \in Nat /\ placeholders[r] \in Nat /\ MaxTokens[r] \in Nat
        BY <1>1, <2>1, Constants DEF Types
      <4> QED
        BY <4>1 DEF SurelyDone, Holds
    <3>3. IsPrefillChunk(r) \/ Holds(r)
      BY <2>5, <3>2 DEF LeavesOut
    <3>4. Decodes => Decodes'
      BY <2>2, <3>1 DEF Decodes, IsPrefillChunk
    <3> QED
      BY <2>2, <2>3, <2>4, <3>1, <3>3, <3>4 DEF Buys
  <2>6. CASE ChoosesChunk(r)
    <3>1. PICK v \in Nat : v <= Prompt[r] - computed[r] /\ chosen' = [chosen EXCEPT ![r] = v]
      BY <2>6 DEF ChoosesChunk
    <3>2. IsPrefillChunk(r) /\ (defer => shortUsed' = shortUsed + (Prompt[r] - computed[r]))
      BY <2>6 DEF ChoosesChunk
    <3>3. PutSum(chosen, r, v, chosen', Reqs)
      <4>1. Puts(chosen, r, v, chosen')
        BY <2>1, <3>1 DEF Puts
      <4> QED
        BY <1>1, <4>1, SumPut
    <3>4. SumFunctionOnSet(chosen', Reqs) = SumFunctionOnSet(chosen, Reqs) + v
      BY <2>1, <3>3 DEF PutSum
    <3>5. Decodes => Decodes'
      <4> SUFFICES ASSUME NEW q \in Reqs, chosen[q] > 0, ~IsPrefillChunk(q) PROVE Decodes'
        BY DEF Decodes
      <4>1. q # r
        BY <3>2
      <4>2. chosen'[q] = chosen[q]
        BY <1>1, <3>1, <4>1
      <4> QED
        BY <2>2, <4>2 DEF Decodes, IsPrefillChunk
    <3>6. ASSUME defer, ~Decodes
          PROVE  SumFunctionOnSet(chosen', Reqs) <= shortUsed' /\ DecodeToCome'
      <4>1. SumFunctionOnSet(chosen, Reqs) <= shortUsed /\ DecodeToCome'
        BY <2>3, <2>4, <3>2, <3>6
      <4>2. shortUsed' = shortUsed + (Prompt[r] - computed[r])
        BY <3>2, <3>6
      <4> QED
        BY <1>1, <2>1, <3>1, <3>4, <4>1, <4>2
    <3> QED
      BY <2>2, <3>5, <3>6 DEF Buys
  <2>7. CASE ChoosesDecode(r)
    <3>1. PICK v \in Nat \ {0} : chosen' = [chosen EXCEPT ![r] = v]
      BY <2>7 DEF ChoosesDecode
    <3>2. chosen'[r] > 0
      <4>1. chosen'[r] = v
        BY <1>1, <2>1, <3>1
      <4> QED
        BY <4>1
    <3>3. ~IsPrefillChunk(r)
      BY <2>7 DEF ChoosesDecode
    <3>4. Decodes'
      BY <2>1, <2>2, <3>2, <3>3 DEF Decodes, IsPrefillChunk
    <3> QED
      BY <3>4 DEF Buys
  <2> QED
    BY <2>1, <2>5, <2>6, <2>7
<1>4. CASE RunningDone
  <2>1. UNCHANGED <<chosen, computed, defer>> /\ phase = "running" /\ (index > Len(running) \/ Budget = 0)
    BY <1>4 DEF RunningDone, requests
  <2>2. Decodes => Decodes'
    BY <2>1 DEF Decodes, IsPrefillChunk
  <2>3. ASSUME defer PROVE Decodes
    <3> SUFFICES ASSUME SumFunctionOnSet(chosen, Reqs) <= shortUsed, DecodeToCome PROVE FALSE
      BY <2>1, <2>3 DEF Buys
    <3>1. ~(index > Len(running))
      <4>1. PICK i \in index .. Len(running) : TRUE
        BY DEF DecodeToCome
      <4>2. index \in Nat
        BY <1>1 DEF Types
      <4> QED
        BY <1>1, <4>1, <4>2
    <3>2. Budget > 0
      <4>1. Budget = TokenBudget - SumFunctionOnSet(chosen, Reqs)
        BY <1>1, BudgetIs
      <4>2. TokenBudget \in Nat /\ ShortTokens \in Nat /\ ShortTokens < TokenBudget
        BY Constants
      <4> QED
        BY <1>1, <4>1, <4>2
    <3> QED
      BY <2>1, <3>1, <3>2
  <2> QED
    BY <2>1, <2>2, <2>3 DEF Buys
<1>5. CASE AdmitWaiting
  <2>1. PICK r, c, v : Admits(r, c, v)
    BY <1>1, <1>5, AdmitSteps
  <2>2. /\ r \in Reqs /\ r \in ToSet(waiting)
        /\ chosen' = [chosen EXCEPT ![r] = v] /\ computed' = [computed EXCEPT ![r] = c]
    BY <2>1 DEF Admits
  <2>3. defer' = defer /\ phase = "waiting"
    BY <1>5 DEF AdmitWaiting
  <2>4. ~(chosen[r] > 0)
    <3>1. r \notin ToSet(running)
      BY <1>1, <2>2 DEF Queues
    <3> QED
      BY <1>1, <2>2, <3>1 DEF Choosing
  <2>5. Decodes => Decodes'
    <3> SUFFICES ASSUME NEW q \in Reqs, chosen[q] > 0, ~IsPrefillChunk(q) PROVE Decodes'
      BY DEF Decodes
    <3>1. q # r
      BY <2>4
    <3>2. chosen'[q] = chosen[q] /\ computed'[q] = computed[q]
      BY <1>1, <2>2, <3>1 DEF Types
    <3> QED
      BY <3>2 DEF Decodes, IsPrefillChunk
  <2> QED
    BY <2>3, <2>5 DEF Buys
<1>6. CASE EndStep
  BY <1>6 DEF EndStep, Buys
<1>7. CASE Return \/ \E r \in Reqs : Arrive(r)
  <2>1. defer' = defer /\ phase = "idle"
    BY <1>7 DEF Return, Arrive
  <2> QED
    BY <1>1, <2>1 DEF Phases, Buys
<1>8. CASE DeferWaiting \/ NoRoom \/ WaitingDone
  <2>1. UNCHANGED <<chosen, computed, defer>> /\ phase = "waiting"
    BY <1>8 DEF DeferWaiting, NoRoom, WaitingDone, requests
  <2>2. Decodes => Decodes'
    BY <2>1 DEF Decodes, IsPrefillChunk
  <2> QED
    BY <2>1, <2>2 DEF Buys
<1>9. CASE UNCHANGED vars
  BY <1>9 DEF vars, requests, Buys, Decodes, DecodeToCome, IsPrefillChunk, Holds
<1> QED
  BY <1>2, <1>3, <1>4, <1>5, <1>6, <1>7, <1>8, <1>9 DEF Next, Schedule
-----------------------------------------------------------------------------
(* The theorems.                                                           *)
LEMMA InitInv == Init => Inv /\ Order /\ NoStepWasted
<1> SUFFICES ASSUME Init PROVE Inv /\ Order /\ NoStepWasted
  OBVIOUS
<1> USE DEF Init
<1>1. ToSet(<<>>) = {} /\ Distinct(<<>>) /\ <<>> \in Seq(Reqs) /\ Len(<<>>) = 0
  BY NoQueue
<1>2. Nothing \in [Reqs -> Nat] /\ SumFunctionOnSet(Nothing, Reqs) = 0 /\ \A r \in Reqs : Nothing[r] = 0
  <2>1. Reqs \in SUBSET Reqs
    OBVIOUS
  <2> QED
    BY <2>1, SumNothing DEF Nothing
<1>3. Types
  <2>1. 0 <= TokenBudget /\ index \in 1 .. Len(running) + 1 /\ current \in 0 .. Interval - 1
        /\ shortUsed \in 0 .. ShortTokens /\ Len(inflight) <= MaxInFlight
    BY <1>1, Constants
  <2>2. inflight \in Seq([Reqs -> 0 .. Drafts + 1])
    OBVIOUS
  <2>3. \A r \in Reqs : computed[r] <= Prompt[r] /\ outputs[r] <= MaxTokens[r]
    BY <1>2, Constants
  <2>4. ended \in [Reqs -> {"no", "length", "stop"}]
    OBVIOUS
  <2> QED
    BY <1>1, <1>2, <2>1, <2>2, <2>3, <2>4 DEF Types
<1>4. Queues
  <2>1. Alive = {}
    BY <1>1 DEF Alive
  <2> QED
    BY <1>1, <2>1 DEF Queues
<1>5. Phases /\ Choosing
  BY <1>1, <1>2 DEF Phases, Choosing
<1>6. Progress
  BY <1>1, <1>2, Constants DEF Progress
<1>7. Ledgers
  <2>1. ASSUME NEW r \in Reqs PROVE \E sum : Ledger(sum, r)
    <3>1. PICK sum : sum = [k \in 0 .. 0 |-> 0]
      OBVIOUS
    <3>2. sum \in [0 .. 0 -> Nat] /\ \A i \in 0 .. 0 : sum[i] = 0 /\ i = 0
      BY <3>1
    <3>3. \A i, j \in 0 .. 0 : sum[i] <= sum[j] /\ sum[j] - sum[i] <= (j - i) * (Drafts + 1)
      <4>1. 0 * (Drafts + 1) = 0 /\ 0 - 0 = 0
        BY Constants
      <4> QED
        BY <3>2, <4>1
    <3>4. Ledger(sum, r)
      BY <1>1, <1>2, <3>2, <3>3 DEF Ledger
    <3> QED
      BY <3>4
  <2>2. MaxInFlight * (Drafts + 1) \in Nat
    BY Constants, Times
  <2> QED
    BY <1>2, <2>1, <2>2 DEF Ledgers
<1>8. Order
  BY <1>1 DEF Order
<1>9. NoStepWasted
  BY <1>1 DEF NoStepWasted
<1> QED
  BY <1>3, <1>4, <1>5, <1>6, <1>7, <1>8, <1>9 DEF Inv

LEMMA NextInv == Inv /\ [Next]_vars => Inv'
<1> SUFFICES ASSUME Inv, [Next]_vars PROVE Inv'
  OBVIOUS
<1>1. Types /\ Queues /\ Phases /\ Choosing /\ Progress /\ Ledgers
  BY DEF Inv
<1>2. Types'
  BY <1>1, StepTypes
<1>3. Ledgers'
  BY <1>2, StepLedgers
<1>4. Queues' /\ Phases' /\ Choosing' /\ Progress'
  BY <1>1, StepQueues, StepPhases, StepChoosing, StepProgress
<1> QED
  BY <1>2, <1>3, <1>4 DEF Inv

LEMMA InvHolds == Spec => []Inv
  BY InitInv, NextInv, PTL DEF Spec

(* Every variable has its type: in particular no step chooses more tokens  *)
(* than max_num_batched_tokens, no deferred one more than                  *)
(* GLM_PREFILL_SHORT_TOKENS for prompts, and the placeholders of a request *)
(* are what the steps in flight may give it.                               *)
THEOREM TypesHold == Spec => []TypeOK
<1>1. Inv => TypeOK
  <2> SUFFICES ASSUME Inv PROVE TypeOK
    OBVIOUS
  <2> USE DEF Inv
  <2>1. placeholders \in [Reqs -> 0 .. MaxInFlight * (Drafts + 1)]
    <3>1. MaxInFlight * (Drafts + 1) \in Nat
      BY Constants, Times
    <3> DEFINE M == MaxInFlight * (Drafts + 1)
    <3>2. \A r \in Reqs : placeholders[r] <= M
      BY DEF Ledgers
    <3> HIDE DEF M
    <3>3. placeholders \in [Reqs -> 0 .. M]
      BY <3>1, <3>2 DEF Types, M
    <3> QED
      BY <3>3 DEF M
  <2>2. Budget >= 0
    BY BudgetIs, Constants
  <2>3. chosen \in [Reqs -> 0 .. TokenBudget]
    <3>1. chosen \in [Reqs -> Nat] /\ SumFunctionOnSet(chosen, Reqs) <= TokenBudget /\ TokenBudget \in Nat
      BY Constants DEF Types
    <3>2. ASSUME NEW r \in Reqs PROVE chosen[r] <= TokenBudget
      <4>1. Reqs \in SUBSET Reqs /\ Reqs \ {r} \in SUBSET Reqs
        OBVIOUS
      <4>2. SumFunctionOnSet(chosen, Reqs) = chosen[r] + SumFunctionOnSet(chosen, Reqs \ {r})
        BY <3>1, <4>1, SumWithout
      <4>3. SumFunctionOnSet(chosen, Reqs \ {r}) \in Nat
        BY <3>1, <4>1, SumNat
      <4> QED
        BY <3>1, <4>2, <4>3
    <3> QED
      BY <3>1, <3>2
  <2> QED
    BY <2>1, <2>2, <2>3 DEF Types, TypeOK
<1> QED
  BY <1>1, InvHolds, PTL

(* However the prefills are deferred, set aside and admitted past one      *)
(* another, a request that has arrived is in exactly one of the queues     *)
(* until it ends.                                                          *)
THEOREM NothingIsLost == Spec => []NothingLost
<1>1. Inv => NothingLost
  <2> SUFFICES ASSUME Inv, NEW r \in Reqs
               PROVE  Cardinality({i \in DOMAIN (waiting \o running \o deferred) :
                                     (waiting \o running \o deferred)[i] = r})
                        = IF r \in ToSet(arrived) /\ ended[r] = "no" THEN 1 ELSE 0
    BY DEF NothingLost
  <2> DEFINE s == waiting \o running \o deferred
             a == Len(waiting)
             b == Len(waiting) + Len(running)
             N == Len(waiting) + Len(running) + Len(deferred)
             here == {i \in DOMAIN s : s[i] = r}
  <2>1. /\ waiting \in Seq(Reqs) /\ running \in Seq(Reqs) /\ deferred \in Seq(Reqs)
        /\ Queues
    BY DEF Inv, Types
  <2>2. Len(waiting) \in Nat /\ Len(running) \in Nat /\ Len(deferred) \in Nat
    BY <2>1
  <2>3. s \in Seq(Reqs) /\ DOMAIN s = 1 .. N
    <3>1. s \in Seq(Reqs) /\ Len(s) = N
      BY <2>1
    <3> HIDE DEF s, N
    <3> QED
      BY <3>1
  <2>4. /\ \A i \in 1 .. a : s[i] = waiting[i]
        /\ \A i \in a + 1 .. b : s[i] = running[i - a] /\ i - a \in 1 .. Len(running)
        /\ \A i \in b + 1 .. N : s[i] = deferred[i - b] /\ i - b \in 1 .. Len(deferred)
        /\ \A i \in 1 .. N : i \in 1 .. a \/ i \in a + 1 .. b \/ i \in b + 1 .. N
    BY <2>1, <2>2
  <2>5. /\ \A i \in 1 .. Len(waiting) : i \in 1 .. N
        /\ \A i \in 1 .. Len(running) : i + a \in 1 .. N /\ i + a \in a + 1 .. b /\ (i + a) - a = i
        /\ \A i \in 1 .. Len(deferred) : i + b \in 1 .. N /\ i + b \in b + 1 .. N /\ (i + b) - b = i
    BY <2>2
  <2>6. a \in Nat /\ b \in Nat /\ N \in Nat
    BY <2>2
  <2> HIDE DEF s, a, b, N
  <2>7. ASSUME NEW i \in here, NEW j \in here PROVE i = j
    <3>1. i \in 1 .. N /\ j \in 1 .. N /\ s[i] = r /\ s[j] = r
      BY <2>3
    <3>2. /\ i \in 1 .. a => r \in ToSet(waiting) /\ waiting[i] = r /\ i \in 1 .. Len(waiting)
          /\ i \in a + 1 .. b => r \in ToSet(running) /\ running[i - a] = r /\ i - a \in 1 .. Len(running)
          /\ i \in b + 1 .. N => r \in ToSet(deferred) /\ deferred[i - b] = r /\ i - b \in 1 .. Len(deferred)
      BY <2>1, <2>4, <3>1, InQueue DEF a
    <3>3. /\ j \in 1 .. a => r \in ToSet(waiting) /\ waiting[j] = r /\ j \in 1 .. Len(waiting)
          /\ j \in a + 1 .. b => r \in ToSet(running) /\ running[j - a] = r /\ j - a \in 1 .. Len(running)
          /\ j \in b + 1 .. N => r \in ToSet(deferred) /\ deferred[j - b] = r /\ j - b \in 1 .. Len(deferred)
      BY <2>1, <2>4, <3>1, InQueue DEF a
    <3>4. /\ ~(r \in ToSet(waiting) /\ r \in ToSet(running)) /\ ~(r \in ToSet(waiting) /\ r \in ToSet(deferred))
          /\ ~(r \in ToSet(running) /\ r \in ToSet(deferred))
      BY <2>1 DEF Queues
    <3>5. CASE i \in 1 .. a
      <4>1. j \in 1 .. a
        BY <2>4, <3>1, <3>2, <3>3, <3>4, <3>5
      <4> QED
        BY <2>1, <3>2, <3>3, <3>5, <4>1, InQueue DEF Queues, Distinct
    <3>6. CASE i \in a + 1 .. b
      <4>1. j \in a + 1 .. b
        BY <2>4, <3>1, <3>2, <3>3, <3>4, <3>6
      <4>2. i - a = j - a
        BY <2>1, <3>2, <3>3, <3>6, <4>1, InQueue DEF Queues, Distinct
      <4> QED
        BY <2>6, <3>1, <4>2
    <3>7. CASE i \in b + 1 .. N
      <4>1. j \in b + 1 .. N
        BY <2>4, <3>1, <3>2, <3>3, <3>4, <3>7
      <4>2. i - b = j - b
        BY <2>1, <3>2, <3>3, <3>7, <4>1, InQueue DEF Queues, Distinct
      <4> QED
        BY <2>6, <3>1, <4>2
    <3> QED
      BY <2>4, <3>1, <3>5, <3>6, <3>7
  <2>8. CASE r \in ToSet(arrived) /\ ended[r] = "no"
    <3>1. r \in ToSet(waiting) \/ r \in ToSet(running) \/ r \in ToSet(deferred)
      BY <2>1, <2>8 DEF Queues, Alive
    <3>2. \E i \in 1 .. N : s[i] = r
      <4>1. CASE r \in ToSet(waiting)
        <5>1. PICK i \in 1 .. Len(waiting) : waiting[i] = r
          BY <2>1, <4>1, InQueue
        <5>2. i \in 1 .. N /\ i \in 1 .. a
          BY <2>5 DEF a
        <5> QED
          BY <2>4, <5>1, <5>2
      <4>2. CASE r \in ToSet(running)
        <5>1. PICK i \in 1 .. Len(running) : running[i] = r
          BY <2>1, <4>2, InQueue
        <5>2. i + a \in 1 .. N /\ i + a \in a + 1 .. b /\ (i + a) - a = i
          BY <2>5
        <5>3. s[i + a] = running[(i + a) - a]
          BY <2>4, <5>2
        <5> QED
          BY <5>1, <5>2, <5>3
      <4>3. CASE r \in ToSet(deferred)
        <5>1. PICK i \in 1 .. Len(deferred) : deferred[i] = r
          BY <2>1, <4>3, InQueue
        <5>2. i + b \in 1 .. N /\ i + b \in b + 1 .. N /\ (i + b) - b = i
          BY <2>5
        <5>3. s[i + b] = deferred[(i + b) - b]
          BY <2>4, <5>2
        <5> QED
          BY <5>1, <5>2, <5>3
      <4> QED
        BY <3>1, <4>1, <4>2, <4>3
    <3>3. PICK i \in 1 .. N : s[i] = r
      BY <3>2
    <3>4. here = {i}
      BY <2>3, <2>7, <3>3
    <3>5. Cardinality(here) = 1
      BY <3>4, FS_Singleton
    <3> QED
      BY <2>8, <3>5 DEF s
  <2>9. CASE ~(r \in ToSet(arrived) /\ ended[r] = "no")
    <3>1. r \notin ToSet(waiting) /\ r \notin ToSet(running) /\ r \notin ToSet(deferred)
      BY <2>1, <2>9 DEF Queues, Alive
    <3>2. ASSUME NEW i \in 1 .. N PROVE s[i] # r
      <4>1. CASE i \in 1 .. a
        BY <2>1, <2>4, <3>1, <4>1, InQueue DEF a
      <4>2. CASE i \in a + 1 .. b
        BY <2>1, <2>4, <3>1, <4>2, InQueue
      <4>3. CASE i \in b + 1 .. N
        BY <2>1, <2>4, <3>1, <4>3, InQueue
      <4> QED
        BY <2>4, <4>1, <4>2, <4>3
    <3>3. here = {}
      BY <2>3, <3>2
    <3>4. Cardinality(here) = 0
      BY <3>3, FS_EmptySet
    <3> QED
      BY <2>9, <3>4 DEF s
  <2> QED
    BY <2>8, <2>9
<1> QED
  BY <1>1, InvHolds, PTL

(* With end drain, a request that ends by length has no later step in      *)
(* flight, whatever the drafts, the placeholders and the number of steps   *)
(* in flight are.                                                          *)
THEOREM NoStepIsWasted == ASSUME EndDrain PROVE Spec => []NoStepWasted
<1>1. Init => Inv /\ NoStepWasted
  BY InitInv
<1>2. (Inv /\ NoStepWasted) /\ [Next]_vars => (Inv /\ NoStepWasted)'
  BY NextInv, StepWasted
<1> QED
  BY <1>1, <1>2, PTL DEF Spec

(* The short prompts may pass the long ones, but the waiting queue stays   *)
(* in order of arrival: what a step sets aside it puts back in front.      *)
THEOREM OrderIsKept == Spec => []WaitInOrder
<1>1. Init => Inv /\ Order
  BY InitInv
<1>2. (Inv /\ Order) /\ [Next]_vars => (Inv /\ Order)'
  BY NextInv, StepOrder
<1>3. Order => WaitInOrder
  BY DEF Order, WaitInOrder, InOrder
<1> QED
  BY <1>1, <1>2, <1>3, PTL DEF Spec

(* A deferred step spends at most GLM_PREFILL_SHORT_TOKENS on prompts,     *)
(* whatever the requests, the budget and the steps in flight are.          *)
THEOREM ShortBudgetHolds == Spec => []ShortBudget
<1>1. Init => Inv /\ Spends
  BY InitInv DEF Init, Spends
<1>2. (Inv /\ Spends) /\ [Next]_vars => (Inv /\ Spends)'
  BY NextInv, StepSpends
<1>3. Inv /\ Spends => ShortBudget
  <2> SUFFICES ASSUME Inv, defer, SumFunctionOnSet(chosen, Long) <= shortUsed
               PROVE  SumFunctionOnSet(chosen, Long) <= ShortTokens
    BY DEF Spends, ShortBudget, Long
  <2>1. chosen \in [Reqs -> Nat] /\ shortUsed \in 0 .. ShortTokens /\ Long \in SUBSET Reqs
    BY DEF Inv, Types, Long
  <2>2. SumFunctionOnSet(chosen, Long) \in Nat /\ ShortTokens \in Nat
    BY <2>1, SumNat, Constants
  <2> QED
    BY <2>1, <2>2
<1> QED
  BY <1>1, <1>2, <1>3, PTL DEF Spec

(* With end drain and without structured output, what a deferral costs the *)
(* prompts is bounded, and it buys a decode.  Both hypotheses are needed:  *)
(* without them a request that the step in flight finishes for certain is  *)
(* left out by the running loop and still makes DeferPrefills defer.       *)
THEOREM DeferralIsSound == ASSUME EndDrain, Structured = {} PROVE Spec => []DeferralSound
<1>1. Init => Inv /\ Buys
  BY InitInv DEF Init, Buys
<1>2. (Inv /\ Buys) /\ [Next]_vars => (Inv /\ Buys)'
  BY NextInv, StepBuys
<1>3. Buys => DeferredStepDecodes
  BY DEF Buys, Decodes, DeferredStepDecodes
<1> QED
  BY <1>1, <1>2, <1>3, ShortBudgetHolds, PTL DEF Spec, DeferralSound
=============================================================================
