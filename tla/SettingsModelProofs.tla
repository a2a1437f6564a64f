------------------------ MODULE SettingsModelProofs ------------------------
(***************************************************************************)
(* The settings for any documents, names and languages, and any length of a *)
(* run.  Settings in use are always in normal form, whatever document they   *)
(* were read from and however the panel changed them: that is the inductive  *)
(* invariant.  What is serialized of a normal form reads back as it was, and  *)
(* what is read from any accepted document gives an application the scrolling  *)
(* the document asks for.                                                    *)
(*                                                                         *)
(* Both rest on what Keep does to a sequence: it keeps the order, and with it  *)
(* the first element of a kind.  That a finite set of numbers can be put in   *)
(* order is proved by induction on its size, through the set of the sizes it   *)
(* holds for.                                                                *)
(***************************************************************************)
EXTENDS SettingsModel, FiniteSetTheorems, WellFoundedInduction, TLAPS

-----------------------------------------------------------------------------
(* Numbers, and a finite set of them in order.                              *)

LEMMA Least ==
  ASSUME NEW T \in SUBSET Nat, T # {}
  PROVE  \E x \in T : \A y \in T : x <= y
<1> DEFINE R == OpToRel(<, Nat)
<1>1. IsWellFoundedOn(R, Nat)
  BY NatLessThanWellFounded
<1>2. \A x, y \in Nat : x < y => <<x, y>> \in R
  BY DEF OpToRel
<1> HIDE DEF R
<1>3. PICK x \in T : \A y \in T : ~ (<<y, x>> \in R)
  BY <1>1, WFMin
<1>4. \A y \in T : ~ (y < x)
  BY <1>2, <1>3, Zenon
<1> HIDE <1>2, <1>3
<1>5. QED
  BY <1>4

LEMMA FirstIs ==
  ASSUME NEW T \in SUBSET Nat, T # {}
  PROVE  First(T) \in T /\ \A y \in T : First(T) <= y
BY Least DEF First

LEMMA Induction ==
  ASSUME NEW S, 0 \in S, \A n \in Nat : n \in S => n + 1 \in S
  PROVE  Nat \subseteq S
<1>1. SUFFICES ASSUME Nat \ S # {} PROVE FALSE
  OBVIOUS
<1>2. PICK x \in Nat \ S : \A y \in Nat \ S : x <= y
  BY <1>1, Least
<1>3. x - 1 \in S
  BY <1>2
<1>4. QED
  BY <1>2, <1>3

Rises(f, n) == \A i, j \in 1..n : i < j => f[i] < f[j]

\* By induction on the size: the least element goes first.
LEMMA SomeAscent ==
  ASSUME NEW S \in SUBSET Nat, IsFiniteSet(S)
  PROVE  \E f \in [1..Cardinality(S) -> S] : Rises(f, Cardinality(S))
<1> DEFINE Arranged(n) == \A T \in SUBSET Nat : IsFiniteSet(T) /\ Cardinality(T) = n =>
                            \E f \in [1..n -> T] : Rises(f, n)
           All == {n \in Nat : Arranged(n)}
<1>1. 0 \in All
  <2>1. ASSUME NEW T \in SUBSET Nat PROVE \E f \in [1..0 -> T] : Rises(f, 0)
    <3>1. [i \in 1..0 |-> 0] \in [1..0 -> T] /\ Rises([i \in 1..0 |-> 0], 0)
      BY DEF Rises
    <3>2. QED
      BY <3>1
  <2>2. QED
    BY <2>1
<1>2. ASSUME NEW n \in Nat, Arranged(n) PROVE Arranged(n + 1)
  <2> SUFFICES ASSUME NEW T \in SUBSET Nat, IsFiniteSet(T), Cardinality(T) = n + 1
               PROVE  \E f \in [1..(n + 1) -> T] : Rises(f, n + 1)
    OBVIOUS
  <2>1. T # {}
    BY FS_EmptySet
  <2>2. PICK x \in T : \A y \in T : x <= y
    BY <2>1, Least
  <2>3. IsFiniteSet(T \ {x}) /\ Cardinality(T \ {x}) = n
    <3>1. Cardinality(T \ {x}) = Cardinality(T) - 1 /\ IsFiniteSet(T \ {x})
      BY FS_RemoveElement, Zenon
    <3>2. QED
      BY <3>1
  <2>4. PICK g \in [1..n -> T \ {x}] : Rises(g, n)
    BY <1>2, <2>3
  <2> DEFINE f == [i \in 1..(n + 1) |-> IF i = 1 THEN x ELSE g[i - 1]]
  <2>5. \A i \in 1..n : g[i] \in T /\ g[i] > x
    <3>1. \A i \in 1..n : g[i] \in T /\ g[i] # x
      BY <2>4
    <3>2. x \in Nat /\ \A y \in T : y \in Nat
      OBVIOUS
    <3> SUFFICES ASSUME NEW i \in 1..n PROVE g[i] \in T /\ g[i] > x
      OBVIOUS
    <3>3. g[i] \in T /\ g[i] # x /\ g[i] \in Nat /\ x <= g[i]
      BY <2>2, <3>1, <3>2
    <3>4. QED
      BY <3>2, <3>3
  <2>6. f \in [1..(n + 1) -> T]
    BY <2>5
  <2>7. Rises(f, n + 1)
    <3> SUFFICES ASSUME NEW i \in 1..(n + 1), NEW j \in 1..(n + 1), i < j PROVE f[i] < f[j]
      BY DEF Rises
    <3>1. f[j] = g[j - 1] /\ j - 1 \in 1..n
      OBVIOUS
    <3>2. CASE i = 1
      <4>1. f[i] = x
        BY <3>2
      <4>2. g[j - 1] > x /\ g[j - 1] \in Nat
        BY <2>5, <3>1
      <4> HIDE DEF f
      <4>3. QED
        BY <3>1, <4>1, <4>2
    <3>3. CASE i # 1
      <4>1. f[i] = g[i - 1] /\ i - 1 \in 1..n /\ i - 1 < j - 1
        BY <3>3
      <4> HIDE DEF f
      <4>2. QED
        BY <2>4, <3>1, <4>1 DEF Rises
    <3>4. QED
      BY <3>2, <3>3
  <2> HIDE DEF f
  <2>8. QED
    BY <2>6, <2>7
<1> HIDE DEF Arranged
<1>3. \A n \in Nat : n \in All => n + 1 \in All
  BY <1>2
<1>4. Nat \subseteq All
  <2> HIDE DEF All
  <2>1. QED
    BY <1>1, <1>3, Induction
<1>5. Cardinality(S) \in Nat /\ Arranged(Cardinality(S))
  BY <1>4, FS_CardinalityType
<1>6. QED
  BY <1>5 DEF Arranged

\* Ascending enumerates the set: as many positions as elements, and none twice.
LEMMA AscendingIs ==
  ASSUME NEW S \in SUBSET Nat, IsFiniteSet(S)
  PROVE  /\ Cardinality(S) \in Nat
         /\ Ascending(S) \in [1..Cardinality(S) -> S]
         /\ Rises(Ascending(S), Cardinality(S))
         /\ \A x \in S : \E i \in 1..Cardinality(S) : Ascending(S)[i] = x
<1> DEFINE n == Cardinality(S)
           f == Ascending(S)
<1>1. n \in Nat
  BY FS_CardinalityType
<1>2. f \in [1..n -> S] /\ Rises(f, n)
  BY SomeAscent DEF Ascending, Rises
<1> HIDE DEF f
<1>3. f \in Injection(1..n, S)
  <2> HIDE DEF n
  <2>1. ASSUME NEW i \in 1..n, NEW j \in 1..n, f[i] = f[j] PROVE i = j
    <3>1. f[i] \in Nat /\ f[j] \in Nat
      BY <1>2
    <3>2. ~ (i < j) /\ ~ (j < i)
      BY <1>2, <2>1, <3>1 DEF Rises
    <3>3. QED
      BY <1>1, <3>2
  <2>2. QED
    BY <1>2, <2>1 DEF Injection, IsInjective
<1>4. IsFiniteSet(1..n) /\ Cardinality(1..n) = n
  BY <1>1, FS_Interval
<1>5. f \in Surjection(1..n, S)
  BY <1>1, <1>3, <1>4, FS_Injection
<1>6. QED
  BY <1>1, <1>2, <1>5 DEF f, Surjection

\* The least position that held another number would have to hold a smaller one.
LEMMA AscendingInterval ==
  ASSUME NEW n \in Nat
  PROVE  Ascending(1..n) = [i \in 1..n |-> i]
<1> DEFINE f == Ascending(1..n)
           wrong == {i \in 1..n : f[i] # i}
<1>1. IsFiniteSet(1..n) /\ Cardinality(1..n) = n
  BY FS_Interval
<1>2. /\ f \in [1..n -> 1..n]
      /\ Rises(f, n)
      /\ \A x \in 1..n : \E i \in 1..n : f[i] = x
  <2>1. 1..n \in SUBSET Nat
    OBVIOUS
  <2>2. QED
    BY <1>1, <2>1, AscendingIs
<1> HIDE DEF f
<1>3. wrong = {}
  <2>1. SUFFICES ASSUME wrong # {} PROVE FALSE
    OBVIOUS
  <2>2. PICK i \in wrong : \A j \in wrong : i <= j
    <3>1. wrong \in SUBSET Nat
      OBVIOUS
    <3> HIDE DEF wrong
    <3>2. QED
      BY <2>1, <3>1, Least
  <2>3. PICK k \in 1..n : f[k] = i
    BY <1>2
  <2>4. \A j \in 1..(i - 1) : f[j] = j
    BY <2>2
  <2>5. CASE k < i
    BY <2>2, <2>3, <2>4, <2>5
  <2>6. CASE k >= i
    <3>1. k > i
      BY <2>2, <2>3, <2>6
    <3>2. f[i] < i
      BY <1>2, <2>2, <2>3, <3>1 DEF Rises
    <3>3. f[i] \in 1..n /\ f[f[i]] = f[i]
      BY <1>2, <2>2, <2>4, <3>2
    <3>4. f[f[i]] < f[i]
      BY <1>2, <2>2, <3>2, <3>3 DEF Rises
    <3>5. QED
      BY <3>3, <3>4
  <2>7. QED
    BY <2>2, <2>5, <2>6
<1>4. f = [i \in 1..n |-> i]
  BY <1>2, <1>3
<1>5. QED
  BY <1>4 DEF f

\* There is one way to enumerate a set in order: at the first place where two differ,
\* one of them would have to come back to the smaller number later.
LEMMA AscentIs ==
  ASSUME NEW S \in SUBSET Nat, IsFiniteSet(S), NEW m \in Nat, NEW f \in [1..m -> S],
         Rises(f, m), \A x \in S : \E i \in 1..m : f[i] = x
  PROVE  m = Cardinality(S) /\ f = Ascending(S)
<1> DEFINE g == Ascending(S)
           wrong == {i \in 1..m : f[i] # g[i]}
<1>1. m = Cardinality(S)
  <2>1. ASSUME NEW i \in 1..m, NEW j \in 1..m, f[i] = f[j] PROVE i = j
    <3>1. f[i] \in Nat /\ f[j] \in Nat
      OBVIOUS
    <3>2. ~ (i < j) /\ ~ (j < i)
      BY <2>1, <3>1 DEF Rises
    <3>3. QED
      BY <3>2
  <2>2. f \in Injection(1..m, S) /\ f \in Surjection(1..m, S)
    BY <2>1 DEF Injection, IsInjective, Surjection
  <2>3. IsFiniteSet(1..m) /\ Cardinality(1..m) = m
    BY FS_Interval
  <2>4. QED
    BY <2>2, <2>3, FS_Surjection
<1>2. g \in [1..m -> S] /\ Rises(g, m) /\ \A x \in S : \E i \in 1..m : g[i] = x
  BY <1>1, AscendingIs
<1> HIDE DEF g
<1>3. wrong = {}
  <2>1. SUFFICES ASSUME wrong # {} PROVE FALSE
    OBVIOUS
  <2>2. PICK i \in wrong : \A j \in wrong : i <= j
    <3>1. wrong \in SUBSET Nat
      OBVIOUS
    <3> HIDE DEF wrong
    <3>2. QED
      BY <2>1, <3>1, Least
  <2>3. i \in 1..m /\ f[i] # g[i] /\ f[i] \in S /\ g[i] \in S /\ f[i] \in Nat /\ g[i] \in Nat
    BY <1>2
  <2>4. \A j \in 1..m : j < i => f[j] = g[j]
    BY <2>2
  <2>5. CASE f[i] < g[i]
    <3>1. PICK k \in 1..m : g[k] = f[i]
      BY <1>2, <2>3
    <3>2. k < i
      BY <1>2, <2>3, <2>5, <3>1 DEF Rises
    <3>3. f[k] = f[i]
      BY <2>4, <3>1, <3>2
    <3>4. f[k] < f[i]
      BY <2>3, <3>2 DEF Rises
    <3>5. QED
      BY <2>3, <3>3, <3>4
  <2>6. CASE g[i] < f[i]
    <3>1. PICK k \in 1..m : f[k] = g[i]
      BY <2>3
    <3>2. k < i
      BY <2>3, <2>6, <3>1 DEF Rises
    <3>3. g[k] = g[i]
      BY <2>4, <3>1, <3>2
    <3>4. g[k] < g[i]
      BY <1>2, <2>3, <3>2 DEF Rises
    <3>5. QED
      BY <2>3, <3>3, <3>4
  <2>7. QED
    BY <2>3, <2>5, <2>6
<1>4. f = g
  BY <1>2, <1>3
<1>5. QED
  BY <1>1, <1>4 DEF g

-----------------------------------------------------------------------------
(* Parts of a sequence.                                                     *)

LEMMA Positions ==
  ASSUME NEW n \in Nat, NEW P \in SUBSET (1..n)
  PROVE  /\ P \in SUBSET Nat /\ IsFiniteSet(P) /\ Cardinality(P) \in Nat
         /\ Cardinality(P) <= n
<1>1. IsFiniteSet(1..n) /\ Cardinality(1..n) = n
  BY FS_Interval
<1>2. IsFiniteSet(P) /\ Cardinality(P) <= Cardinality(1..n)
  BY <1>1, FS_Subset, Zenon
<1>3. QED
  BY <1>1, <1>2, FS_CardinalityType

\* Keep has the elements at the positions, each once, in their order.
LEMMA KeepIs ==
  ASSUME NEW S, NEW s \in Seq(S), NEW P \in SUBSET (DOMAIN s)
  PROVE  \E m \in Nat : \E order \in [1..m -> P] :
           /\ Rises(order, m)
           /\ \A i \in P : \E k \in 1..m : order[k] = i
           /\ Keep(s, P) = [k \in 1..m |-> s[order[k]]]
           /\ Keep(s, P) \in Seq(S)
<1>1. DOMAIN s = 1..Len(s) /\ Len(s) \in Nat /\ s \in [1..Len(s) -> S]
  OBVIOUS
<1>2. P \in SUBSET Nat /\ IsFiniteSet(P) /\ Cardinality(P) \in Nat
  BY <1>1, Positions
<1> DEFINE m == Cardinality(P)
           order == Ascending(P)
<1>3. /\ m \in Nat
      /\ order \in [1..m -> P]
      /\ Rises(order, m)
      /\ \A i \in P : \E k \in 1..m : order[k] = i
  BY <1>2, AscendingIs
<1>4. Keep(s, P) = [k \in 1..m |-> s[order[k]]]
  BY DEF Keep
<1> HIDE DEF m, order
<1>5. Keep(s, P) \in [1..m -> S]
  BY <1>1, <1>3, <1>4
<1>6. Keep(s, P) \in Seq(S)
  BY <1>3, <1>5
<1>7. QED
  BY <1>3, <1>4, <1>6

\* Whoever keeps everything changes nothing.
LEMMA KeepAll ==
  ASSUME NEW S, NEW s \in Seq(S)
  PROVE  Keep(s, DOMAIN s) = s
<1>1. DOMAIN s = 1..Len(s) /\ Len(s) \in Nat /\ s = [k \in 1..Len(s) |-> s[k]]
  OBVIOUS
<1>2. Cardinality(1..Len(s)) = Len(s)
  BY <1>1, FS_Interval
<1>3. Ascending(1..Len(s)) = [k \in 1..Len(s) |-> k]
  BY <1>1, AscendingInterval
<1>4. Keep(s, DOMAIN s) = [k \in 1..Len(s) |-> s[Ascending(1..Len(s))[k]]]
  BY <1>1, <1>2 DEF Keep
<1>5. Keep(s, DOMAIN s) = [k \in 1..Len(s) |-> s[k]]
  BY <1>3, <1>4
<1>6. QED
  BY <1>1, <1>5

-----------------------------------------------------------------------------
(* Normal form.                                                             *)

NormalMotion == [scale : 1..40, easing : BOOLEAN]
NormalKey == {Key(base) : base \in Nat \ {0}}
NormalProfile == [executable : NormalKey, enabled : BOOLEAN, compatibility_mode : BOOLEAN,
                  motion : NormalMotion]
KnownLanguage == {"en", "zh-CN", "system"}
NormalSettings ==
  [enabled : BOOLEAN, motion : NormalMotion, start_with_windows : BOOLEAN,
   ui_language : KnownLanguage, excluded_apps : Seq(NormalKey), profiles : Seq(NormalProfile)]

\* No two profiles of one application.
OneProfileEach(profiles) ==
  \A i, j \in DOMAIN profiles : i # j => profiles[i].executable # profiles[j].executable

Normal(s) ==
  /\ s \in NormalSettings
  /\ s.excluded_apps = Sorted(Range(s.excluded_apps))
  /\ OneProfileEach(s.profiles)

LEMMA FiniteImage ==
  ASSUME NEW S, IsFiniteSet(S), NEW f, DOMAIN f = S
  PROVE  IsFiniteSet({f[x] : x \in S})
<1> DEFINE g == [x \in S |-> f[x]]
           T == {f[x] : x \in S}
<1>1. g \in Surjection(S, T)
  BY DEF Surjection
<1> HIDE DEF g
<1>2. QED
  BY <1>1, FS_Surjection

LEMMA FiniteRange ==
  ASSUME NEW S, NEW s \in Seq(S)
  PROVE  IsFiniteSet(Range(s)) /\ Range(s) \in SUBSET S
<1>1. DOMAIN s = 1..Len(s) /\ Len(s) \in Nat /\ s \in [1..Len(s) -> S]
  OBVIOUS
<1>2. IsFiniteSet(DOMAIN s)
  BY <1>1, FS_Interval
<1>3. IsFiniteSet({s[i] : i \in DOMAIN s})
  BY <1>2, FiniteImage
<1>4. QED
  BY <1>1, <1>3 DEF Range

\* A list in normal form holds every key of the set, in their order.
LEMMA SortedIs ==
  ASSUME NEW K \in SUBSET NormalKey, IsFiniteSet(K)
  PROVE  Sorted(K) \in Seq(NormalKey) /\ Range(Sorted(K)) = K
<1> DEFINE B == {key.base : key \in K}
           n == Cardinality(B)
           f == Ascending(B)
<1>1. \A key \in K : key.base \in Nat \ {0} /\ key = Key(key.base)
  BY DEF NormalKey, Key
<1>2. B \in SUBSET Nat
  BY <1>1
<1>3. IsFiniteSet(B)
  <2> DEFINE g == [key \in K |-> key.base]
  <2>1. {g[key] : key \in K} = B
    OBVIOUS
  <2>2. DOMAIN g = K
    OBVIOUS
  <2> HIDE DEF g, B
  <2>3. QED
    BY <2>1, <2>2, FiniteImage
<1>4. n \in Nat /\ f \in [1..n -> B] /\ \A x \in B : \E i \in 1..n : f[i] = x
  <2> HIDE DEF B
  <2>1. QED
    BY <1>2, <1>3, AscendingIs
<1>5. Sorted(K) = [i \in 1..n |-> Key(f[i])]
  BY DEF Sorted
<1>6. \A x \in B : Key(x) \in K /\ Key(x) \in NormalKey
  BY <1>1
<1> HIDE DEF n, f
<1>7. Sorted(K) \in [1..n -> NormalKey]
  <2> HIDE DEF B
  <2>1. QED
    BY <1>4, <1>5, <1>6
<1>8. Range(Sorted(K)) \subseteq K
  <2> HIDE DEF B
  <2>1. QED
    BY <1>4, <1>5, <1>6 DEF Range
<1>9. ASSUME NEW key \in K PROVE key \in Range(Sorted(K))
  <2>1. PICK i \in 1..n : f[i] = key.base
    BY <1>4
  <2>2. Sorted(K)[i] = key
    BY <1>1, <1>5, <2>1
  <2>3. QED
    BY <1>5, <2>2 DEF Range
<1>10. Sorted(K) \in Seq(NormalKey)
  BY <1>4, <1>7
<1>11. QED
  BY <1>8, <1>9, <1>10

\* A list whose numbers rise is in normal form,
LEMMA RisingSorted ==
  ASSUME NEW keys \in Seq(NormalKey), Rises([i \in DOMAIN keys |-> keys[i].base], Len(keys))
  PROVE  keys = Sorted(Range(keys))
<1> DEFINE m == Len(keys)
           f == [i \in DOMAIN keys |-> keys[i].base]
           B == {key.base : key \in Range(keys)}
<1>1. DOMAIN keys = 1..m /\ m \in Nat /\ \A i \in 1..m : keys[i] \in NormalKey
  OBVIOUS
<1>2. \A i \in 1..m : keys[i].base \in Nat \ {0} /\ keys[i] = Key(keys[i].base)
  BY <1>1 DEF NormalKey, Key
<1>3. B = {f[i] : i \in 1..m}
  BY <1>1 DEF Range
<1>4. B \in SUBSET Nat /\ f \in [1..m -> B] /\ \A x \in B : \E i \in 1..m : f[i] = x
  BY <1>1, <1>2, <1>3
<1>5. IsFiniteSet(B)
  <2>1. IsFiniteSet(1..m)
    BY <1>1, FS_Interval
  <2>2. f \in Surjection(1..m, B)
    BY <1>4 DEF Surjection
  <2>3. QED
    BY <2>1, <2>2, FS_Surjection
<1>6. Rises(f, m)
  OBVIOUS
<1>7. \A i \in 1..m : f[i] = keys[i].base
  BY <1>1
<1> HIDE DEF f, m
<1>8. m = Cardinality(B) /\ f = Ascending(B)
  <2> HIDE DEF B
  <2>1. QED
    BY <1>1, <1>4, <1>5, <1>6, AscentIs
<1>9. Sorted(Range(keys)) = [i \in 1..m |-> Key(f[i])]
  BY <1>8, Zenon DEF Sorted
<1>10. keys = [i \in 1..m |-> keys[i]]
  BY DEF m
<1>11. \A i \in 1..m : Key(f[i]) = keys[i]
  BY <1>2, <1>7
<1>12. QED
  BY <1>9, <1>10, <1>11, Zenon

\* the numbers of a list in normal form rise,
LEMMA SortedRises ==
  ASSUME NEW keys \in Seq(NormalKey), keys = Sorted(Range(keys))
  PROVE  Rises([i \in DOMAIN keys |-> keys[i].base], Len(keys))
<1> DEFINE B == {key.base : key \in Range(keys)}
           n == Cardinality(B)
           f == Ascending(B)
<1>1. DOMAIN keys = 1..Len(keys) /\ Len(keys) \in Nat /\ \A i \in DOMAIN keys : keys[i] \in NormalKey
  OBVIOUS
<1>2. IsFiniteSet(B)
  <2> DEFINE g == [i \in DOMAIN keys |-> keys[i].base]
  <2>1. g \in Surjection(1..Len(keys), B)
    BY <1>1 DEF Range, Surjection
  <2>2. IsFiniteSet(1..Len(keys))
    BY <1>1, FS_Interval
  <2> HIDE DEF g
  <2>3. QED
    BY <2>1, <2>2, FS_Surjection
<1>3. B \in SUBSET Nat
  <2>1. \A i \in DOMAIN keys : keys[i].base \in Nat
    BY <1>1 DEF NormalKey, Key
  <2>2. QED
    BY <2>1 DEF Range
<1>4. n \in Nat /\ f \in [1..n -> B] /\ Rises(f, n)
  <2> HIDE DEF B
  <2>1. QED
    BY <1>2, <1>3, AscendingIs
<1>5. Sorted(Range(keys)) = [i \in 1..n |-> Key(f[i])]
  BY DEF Sorted
<1> HIDE DEF f, n, B
<1>6. keys = [i \in 1..n |-> Key(f[i])]
  BY <1>5
<1>7. DOMAIN keys = 1..n
  BY <1>6
<1>8. Len(keys) = n
  <2>1. \A a, b \in Nat : 1..a = 1..b => a = b
    <3>1. ASSUME NEW a \in Nat, NEW b \in Nat, 1..a = 1..b PROVE ~ (a < b)
      <4>1. a < b => b \in 1..b /\ b \notin 1..a
        OBVIOUS
      <4>2. QED
        BY <3>1, <4>1
    <3>2. \A a, b \in Nat : ~ (a < b) /\ ~ (b < a) => a = b
      OBVIOUS
    <3>3. QED
      BY <3>1, <3>2
  <2>2. 1..Len(keys) = 1..n
    BY <1>1, <1>7
  <2>3. QED
    BY <1>1, <1>4, <2>1, <2>2, Zenon
<1>9. \A i \in 1..n : keys[i].base = f[i]
  <2>1. \A i \in 1..n : keys[i] = Key(f[i])
    BY <1>6
  <2>2. \A a : Key(a).base = a
    BY DEF Key
  <2>3. QED
    BY <2>1, <2>2, Zenon
<1>10. QED
  BY <1>4, <1>7, <1>8, <1>9 DEF Rises

\* and what is kept of such a list is one again, since Keep keeps the order.
LEMMA KeptSorted ==
  ASSUME NEW keys \in Seq(NormalKey), keys = Sorted(Range(keys)), NEW P \in SUBSET (DOMAIN keys)
  PROVE  Keep(keys, P) \in Seq(NormalKey) /\ Keep(keys, P) = Sorted(Range(Keep(keys, P)))
<1> DEFINE kept == Keep(keys, P)
<1>0. PICK m \in Nat : \E order \in [1..m -> P] :
        /\ Rises(order, m)
        /\ \A i \in P : \E k \in 1..m : order[k] = i
        /\ kept = [k \in 1..m |-> keys[order[k]]]
        /\ kept \in Seq(NormalKey)
  BY KeepIs, Zenon
<1>1. PICK order \in [1..m -> P] :
        Rises(order, m) /\ kept = [k \in 1..m |-> keys[order[k]]] /\ kept \in Seq(NormalKey)
  BY <1>0
<1>2. DOMAIN keys = 1..Len(keys) /\ Len(keys) \in Nat
  OBVIOUS
<1>3. \A i, j \in 1..Len(keys) : i < j => keys[i].base < keys[j].base
  BY <1>2, SortedRises DEF Rises
<1> HIDE DEF kept
<1>4. DOMAIN kept = 1..m /\ Len(kept) = m
  BY <1>1
<1>5. ASSUME NEW i \in 1..m, NEW j \in 1..m, i < j PROVE kept[i].base < kept[j].base
  <2>1. order[i] \in 1..Len(keys) /\ order[j] \in 1..Len(keys)
    BY <1>1, <1>2
  <2>2. order[i] < order[j]
    BY <1>1, <1>5 DEF Rises
  <2>3. kept[i] = keys[order[i]] /\ kept[j] = keys[order[j]]
    BY <1>1
  <2>4. QED
    BY <1>3, <2>1, <2>2, <2>3
<1>6. Rises([i \in DOMAIN kept |-> kept[i].base], Len(kept))
  BY <1>4, <1>5 DEF Rises
<1>7. QED
  BY <1>1, <1>6, RisingSorted DEF kept

\* What the readers hand to NormalizeCollection.
RawProfile == [executable : AnyName, enabled : BOOLEAN, compatibility_mode : BOOLEAN,
               motion : NormalMotion]
RawSettings ==
  [enabled : BOOLEAN, motion : NormalMotion, start_with_windows : BOOLEAN,
   ui_language : Language, excluded_apps : Seq(AnyName), profiles : Seq(RawProfile)]

LEMMA MotionNormalized ==
  ASSUME NEW motion \in [scale : Int, easing : BOOLEAN]
  PROVE  /\ NormalizeMotionSettings(motion) \in NormalMotion
         /\ motion \in NormalMotion => NormalizeMotionSettings(motion) = motion
BY DEF NormalMotion, NormalizeMotionSettings

LEMMA KeyNormalized ==
  ASSUME NEW name \in AnyName
  PROVE  NormalizeExecutableKey(name) = Key(name.base) /\ name.base \in Nat
BY DEF AnyName, Key, NormalizeExecutableKey

LEMMA KeysDiffer ==
  ASSUME NEW a, NEW b, Key(a) = Key(b)
  PROVE  a = b
BY Zenon DEF Key

LEMMA NormalKeyIs ==
  ASSUME NEW key \in NormalKey
  PROVE  key \in AnyName /\ NormalizeExecutableKey(key) = key /\ key # NoKey
<1>1. PICK base \in Nat \ {0} : key = Key(base)
  BY DEF NormalKey
<1>2. key = [base |-> base, spelling |-> "plain"]
  BY <1>1 DEF Key
<1>3. key \in AnyName /\ key.base = base
  BY <1>2 DEF AnyName, Spelling
<1>4. NormalizeExecutableKey(key) = key
  BY <1>1, <1>3, KeyNormalized
<1>5. key # NoKey
  BY <1>1, KeysDiffer DEF NoKey
<1>6. QED
  BY <1>3, <1>4, <1>5

\* Whatever the spelling and the order, the list holds the keys of the names.
LEMMA ExcludedNormalized ==
  ASSUME NEW names \in Seq(AnyName)
  PROVE  /\ NormalizedExcluded(names) \in Seq(NormalKey)
         /\ Range(NormalizedExcluded(names))
              = {Key(names[i].base) : i \in DOMAIN names} \ {NoKey}
         /\ NormalizedExcluded(names) = Sorted(Range(NormalizedExcluded(names)))
<1> DEFINE all == {NormalizeExecutableKey(names[i]) : i \in DOMAIN names}
           keys == all \ {NoKey}
<1>1. DOMAIN names = 1..Len(names) /\ Len(names) \in Nat /\ \A i \in DOMAIN names : names[i] \in AnyName
  OBVIOUS
<1>2. \A i \in DOMAIN names : NormalizeExecutableKey(names[i]) = Key(names[i].base)
                                /\ names[i].base \in Nat
  BY <1>1, KeyNormalized
<1>3. all = {Key(names[i].base) : i \in DOMAIN names}
  BY <1>2
<1>4. IsFiniteSet(all)
  <2> DEFINE f == [i \in DOMAIN names |-> NormalizeExecutableKey(names[i])]
  <2>1. all = {f[i] : i \in DOMAIN names} /\ DOMAIN f = DOMAIN names
    OBVIOUS
  <2>2. IsFiniteSet(DOMAIN names)
    BY <1>1, FS_Interval
  <2> HIDE DEF f, all
  <2>3. QED
    BY <2>1, <2>2, FiniteImage
<1>5. IsFiniteSet(keys)
  <2> HIDE DEF all
  <2>1. QED
    BY <1>4, FS_RemoveElement
<1>6. keys \subseteq NormalKey
  <2> SUFFICES ASSUME NEW i \in DOMAIN names, Key(names[i].base) # NoKey
               PROVE  Key(names[i].base) \in NormalKey
    BY <1>3
  <2>1. names[i].base \in Nat /\ names[i].base # 0
    BY <1>2 DEF NoKey
  <2>2. QED
    BY <2>1 DEF NormalKey
<1>7. NormalizedExcluded(names) = Sorted(keys)
  BY DEF NormalizedExcluded
<1> HIDE DEF all
<1>8. Sorted(keys) \in Seq(NormalKey) /\ Range(Sorted(keys)) = keys
  BY <1>5, <1>6, SortedIs
<1>9. QED
  BY <1>3, <1>7, <1>8

\* A list in normal form stays as it is.
LEMMA ExcludedFixed ==
  ASSUME NEW names \in Seq(NormalKey), names = Sorted(Range(names))
  PROVE  NormalizedExcluded(names) = names
<1>1. \A i \in DOMAIN names : names[i] \in NormalKey
  OBVIOUS
<1>2. \A i \in DOMAIN names : NormalizeExecutableKey(names[i]) = names[i] /\ names[i] # NoKey
  BY <1>1, NormalKeyIs
<1>3. {NormalizeExecutableKey(names[i]) : i \in DOMAIN names} \ {NoKey} = Range(names)
  BY <1>2 DEF Range
<1>4. QED
  BY <1>3, Zenon DEF NormalizedExcluded

-----------------------------------------------------------------------------
(* Profiles in normal form.                                                 *)

LEMMA ProfileNormalized ==
  ASSUME NEW profile \in RawProfile
  PROVE  /\ NormalizedProfile(profile) =
              [profile EXCEPT !.executable = Key(profile.executable.base)]
         /\ profile.executable.base \in Nat
<1>1. profile.executable \in AnyName /\ profile.motion \in NormalMotion
  BY DEF RawProfile
<1>2. NormalizeExecutableKey(profile.executable) = Key(profile.executable.base)
      /\ profile.executable.base \in Nat
  BY <1>1, KeyNormalized
<1>3. NormalizeMotionSettings(profile.motion) = profile.motion
  BY <1>1, MotionNormalized DEF NormalMotion
<1>4. NormalizedProfile(profile) = [[profile EXCEPT !.executable = Key(profile.executable.base)]
                                      EXCEPT !.motion = profile.motion]
  BY <1>2, <1>3 DEF NormalizedProfile
<1> DEFINE new == [profile EXCEPT !.executable = Key(profile.executable.base)]
<1>5. new.motion = profile.motion /\ [new EXCEPT !.motion = new.motion] = new
  BY DEF RawProfile
<1>6. QED
  BY <1>2, <1>4, <1>5

LEMMA NormalProfileIs ==
  ASSUME NEW profile \in NormalProfile
  PROVE  /\ profile \in RawProfile
         /\ NormalizedProfile(profile) = profile
         /\ profile.executable # NoKey
<1>1. profile.executable \in NormalKey
  BY DEF NormalProfile
<1>2. profile.executable \in AnyName /\ profile.executable # NoKey
      /\ NormalizeExecutableKey(profile.executable) = profile.executable
  BY <1>1, NormalKeyIs
<1>3. profile \in RawProfile
  BY <1>2 DEF NormalProfile, RawProfile
<1>4. Key(profile.executable.base) = profile.executable
  BY <1>2, KeyNormalized
<1>5. NormalizedProfile(profile) = [profile EXCEPT !.executable = profile.executable]
  BY <1>3, <1>4, ProfileNormalized
<1>6. [profile EXCEPT !.executable = profile.executable] = profile
  BY DEF NormalProfile
<1>7. QED
  BY <1>2, <1>3, <1>5, <1>6

Normals(profiles) == [i \in DOMAIN profiles |-> NormalizedProfile(profiles[i])]

Kept(profiles) ==
  {i \in DOMAIN profiles :
     /\ Normals(profiles)[i].executable # NoKey
     /\ \A j \in 1..(i - 1) :
          Normals(profiles)[j].executable # Normals(profiles)[i].executable}

LEMMA NormalizedProfilesIs ==
  ASSUME NEW profiles
  PROVE  NormalizedProfiles(profiles) = Keep(Normals(profiles), Kept(profiles))
BY Zenon DEF NormalizedProfiles, Normals, Kept

\* Of each application at most one profile is left, under its key.
LEMMA ProfilesNormalized ==
  ASSUME NEW profiles \in Seq(RawProfile)
  PROVE  /\ NormalizedProfiles(profiles) \in Seq(NormalProfile)
         /\ OneProfileEach(NormalizedProfiles(profiles))
<1> DEFINE normal == Normals(profiles)
           P == Kept(profiles)
<1>1. DOMAIN profiles = 1..Len(profiles) /\ Len(profiles) \in Nat
      /\ \A i \in DOMAIN profiles : profiles[i] \in RawProfile
  OBVIOUS
<1>2. ASSUME NEW i \in DOMAIN profiles
      PROVE  /\ normal[i] = [profiles[i] EXCEPT !.executable = Key(profiles[i].executable.base)]
             /\ profiles[i].executable.base \in Nat
  BY <1>1, ProfileNormalized DEF Normals
<1>3. \E S : normal \in Seq(S)
  <2> DEFINE S == {normal[i] : i \in DOMAIN profiles}
  <2>1. normal \in [1..Len(profiles) -> S]
    BY <1>1 DEF Normals
  <2> HIDE DEF S, normal
  <2>2. normal \in Seq(S)
    BY <1>1, <2>1
  <2>3. QED
    BY <2>2
<1>4. DOMAIN normal = DOMAIN profiles /\ P \in SUBSET (DOMAIN normal)
  BY DEF Normals, Kept
<1>5. \A i \in P : normal[i].executable # NoKey
                    /\ \A j \in 1..(i - 1) : normal[j].executable # normal[i].executable
  BY DEF Kept
<1>6. ASSUME NEW i \in P
      PROVE  normal[i] \in NormalProfile
  <2>1. i \in DOMAIN profiles
    BY <1>4
  <2>2. normal[i] = [profiles[i] EXCEPT !.executable = Key(profiles[i].executable.base)]
        /\ profiles[i].executable.base \in Nat /\ profiles[i] \in RawProfile
    BY <1>1, <1>2, <2>1
  <2>3. normal[i].executable = Key(profiles[i].executable.base)
    BY <2>2 DEF RawProfile
  <2>4. Key(profiles[i].executable.base) \in NormalKey
    BY <1>5, <2>2, <2>3 DEF NormalKey, NoKey
  <2>5. QED
    BY <2>2, <2>4 DEF RawProfile, NormalProfile
<1> HIDE DEF normal, P
<1>7. PICK S : normal \in Seq(S)
  BY <1>3
<1>8. PICK m \in Nat, order \in UNION {[1..n -> P] : n \in Nat} :
        /\ order \in [1..m -> P]
        /\ Rises(order, m)
        /\ Keep(normal, P) = [k \in 1..m |-> normal[order[k]]]
  <2>1. \E m \in Nat : \E order \in [1..m -> P] :
           /\ Rises(order, m)
           /\ \A i \in P : \E k \in 1..m : order[k] = i
           /\ Keep(normal, P) = [k \in 1..m |-> normal[order[k]]]
           /\ Keep(normal, P) \in Seq(S)
    BY <1>4, <1>7, KeepIs, Zenon
  <2>2. QED
    BY <2>1
<1> DEFINE N == Keep(normal, P)
<1>9. N \in [1..m -> NormalProfile]
  BY <1>6, <1>8
<1>10. N \in Seq(NormalProfile)
  <2> HIDE DEF N
  <2>1. QED
    BY <1>8, <1>9
<1>11. ASSUME NEW i \in 1..m, NEW j \in 1..m, i < j
       PROVE  N[i].executable # N[j].executable
  <2>1. order[i] \in P /\ order[j] \in P /\ order[i] < order[j]
    BY <1>8, <1>11 DEF Rises
  <2>2. order[i] \in 1..(order[j] - 1)
    BY <1>1, <1>4, <2>1
  <2>3. N[i] = normal[order[i]] /\ N[j] = normal[order[j]]
    BY <1>8
  <2>4. QED
    BY <1>5, <2>1, <2>2, <2>3
<1>12. OneProfileEach(N)
  <2>1. DOMAIN N = 1..m
    BY <1>8
  <2> HIDE DEF N
  <2> SUFFICES ASSUME NEW i \in 1..m, NEW j \in 1..m, i # j
               PROVE  N[i].executable # N[j].executable
    BY <2>1 DEF OneProfileEach
  <2>2. i < j \/ j < i
    BY <1>8
  <2>3. QED
    BY <1>11, <2>2
<1>13. NormalizedProfiles(profiles) = N
  BY NormalizedProfilesIs DEF normal, P
<1>14. QED
  BY <1>10, <1>12, <1>13

\* Profiles in normal form stay as they are, in their order.
LEMMA ProfilesFixed ==
  ASSUME NEW profiles \in Seq(NormalProfile), OneProfileEach(profiles)
  PROVE  NormalizedProfiles(profiles) = profiles
<1>1. DOMAIN profiles = 1..Len(profiles) /\ Len(profiles) \in Nat
      /\ \A i \in DOMAIN profiles : profiles[i] \in NormalProfile
  OBVIOUS
<1>2. \A i \in DOMAIN profiles : NormalizedProfile(profiles[i]) = profiles[i]
                                   /\ profiles[i].executable # NoKey
  BY <1>1, NormalProfileIs
<1>3. Normals(profiles) = profiles
  BY <1>1, <1>2 DEF Normals
<1>4. Kept(profiles) = DOMAIN profiles
  <2>1. ASSUME NEW i \in DOMAIN profiles, NEW j \in 1..(i - 1)
        PROVE  profiles[j].executable # profiles[i].executable
    BY <1>1 DEF OneProfileEach
  <2>2. QED
    BY <1>2, <1>3, <2>1 DEF Kept
<1>5. QED
  BY <1>3, <1>4, KeepAll, NormalizedProfilesIs

-----------------------------------------------------------------------------
(* Settings in normal form.                                                 *)

LEMMA LanguageNormalized ==
  ASSUME NEW language
  PROVE  /\ NormalizeUiLanguage(language) \in KnownLanguage
         /\ language \in KnownLanguage => NormalizeUiLanguage(language) = language
BY DEF KnownLanguage, NormalizeUiLanguage

LEMMA CollectionIs ==
  ASSUME NEW s \in RawSettings
  PROVE  NormalizeCollection(s) =
           [enabled |-> s.enabled, motion |-> s.motion,
            start_with_windows |-> s.start_with_windows,
            ui_language |-> NormalizeUiLanguage(s.ui_language),
            excluded_apps |-> NormalizedExcluded(s.excluded_apps),
            profiles |-> NormalizedProfiles(s.profiles)]
<1> DEFINE language == NormalizeUiLanguage(s.ui_language)
           excluded == NormalizedExcluded(s.excluded_apps)
           profiles == NormalizedProfiles(s.profiles)
<1>1. NormalizeCollection(s) = [s EXCEPT !.ui_language = language,
                                         !.excluded_apps = excluded, !.profiles = profiles]
  BY Zenon DEF NormalizeCollection
<1> HIDE DEF language, excluded, profiles
<1>2. s = [enabled |-> s.enabled, motion |-> s.motion,
           start_with_windows |-> s.start_with_windows, ui_language |-> s.ui_language,
           excluded_apps |-> s.excluded_apps, profiles |-> s.profiles]
  BY DEF RawSettings
<1>3. QED
  BY <1>1, <1>2 DEF language, excluded, profiles

\* NormalizeCollection makes a normal form of whatever was read ...
LEMMA CollectionNormal ==
  ASSUME NEW s \in RawSettings
  PROVE  Normal(NormalizeCollection(s))
<1> DEFINE n == NormalizeCollection(s)
<1>1. /\ s.enabled \in BOOLEAN /\ s.motion \in NormalMotion /\ s.start_with_windows \in BOOLEAN
      /\ s.excluded_apps \in Seq(AnyName) /\ s.profiles \in Seq(RawProfile)
  BY DEF RawSettings
<1>2. NormalizeUiLanguage(s.ui_language) \in KnownLanguage
  BY LanguageNormalized
<1>3. /\ NormalizedExcluded(s.excluded_apps) \in Seq(NormalKey)
      /\ NormalizedExcluded(s.excluded_apps) = Sorted(Range(NormalizedExcluded(s.excluded_apps)))
  BY <1>1, ExcludedNormalized
<1>4. /\ NormalizedProfiles(s.profiles) \in Seq(NormalProfile)
      /\ OneProfileEach(NormalizedProfiles(s.profiles))
  BY <1>1, ProfilesNormalized
<1>5. /\ n.excluded_apps = NormalizedExcluded(s.excluded_apps)
      /\ n.profiles = NormalizedProfiles(s.profiles)
  BY CollectionIs
<1>6. n \in NormalSettings
  BY <1>1, <1>2, <1>3, <1>4, CollectionIs DEF NormalSettings
<1>7. QED
  BY <1>3, <1>4, <1>5, <1>6, Zenon DEF Normal

LEMMA NormalIsRaw ==
  ASSUME NEW s, Normal(s)
  PROVE  s \in RawSettings
<1>1. /\ s \in NormalSettings
      /\ s.excluded_apps \in Seq(NormalKey) /\ s.profiles \in Seq(NormalProfile)
      /\ s.ui_language \in Language
  <2>1. s \in NormalSettings
    BY DEF Normal
  <2>2. /\ s.excluded_apps \in Seq(NormalKey) /\ s.profiles \in Seq(NormalProfile)
        /\ s.ui_language \in KnownLanguage
    BY <2>1 DEF NormalSettings
  <2>3. s.ui_language \in Language
    BY <2>2, LanguageAssumption DEF KnownLanguage, LanguageAssumption
  <2>4. QED
    BY <2>1, <2>2, <2>3
<1>2. NormalKey \subseteq AnyName
  BY NormalKeyIs
<1>3. NormalProfile \subseteq RawProfile
  BY NormalProfileIs
<1>4. s.excluded_apps \in Seq(AnyName) /\ s.profiles \in Seq(RawProfile)
  BY <1>1, <1>2, <1>3
<1>5. QED
  BY <1>1, <1>4 DEF NormalSettings, RawSettings

\* ... and leaves a normal form alone.
LEMMA CollectionFixed ==
  ASSUME NEW s, Normal(s)
  PROVE  NormalizeCollection(s) = s
<1>1. s \in NormalSettings /\ s \in RawSettings
  BY NormalIsRaw DEF Normal
<1>2. NormalizedExcluded(s.excluded_apps) = s.excluded_apps
  <2>1. s.excluded_apps \in Seq(NormalKey) /\ s.excluded_apps = Sorted(Range(s.excluded_apps))
    BY DEF Normal, NormalSettings
  <2>2. QED
    BY <2>1, ExcludedFixed
<1>3. NormalizedProfiles(s.profiles) = s.profiles
  <2>1. s.profiles \in Seq(NormalProfile) /\ OneProfileEach(s.profiles)
    BY DEF Normal, NormalSettings
  <2>2. QED
    BY <2>1, ProfilesFixed
<1>4. NormalizeUiLanguage(s.ui_language) = s.ui_language
  BY <1>1, LanguageNormalized DEF NormalSettings
<1>5. NormalizeCollection(s) =
        [enabled |-> s.enabled, motion |-> s.motion,
         start_with_windows |-> s.start_with_windows, ui_language |-> s.ui_language,
         excluded_apps |-> s.excluded_apps, profiles |-> s.profiles]
  BY <1>1, <1>2, <1>3, <1>4, CollectionIs
<1>6. QED
  BY <1>1, <1>5 DEF NormalSettings

-----------------------------------------------------------------------------
(* Readers: of the right type whatever they read, and faithful to what they   *)
(* could have written.                                                       *)

LEMMA ReadIs ==
  ASSUME NEW S, Odd \notin S, NEW value \in OrOdd(S), NEW fallback \in S
  PROVE  /\ Read(value, fallback) \in S
         /\ value \in S => Read(value, fallback) = value
BY DEF OrOdd, Read

LEMMA ReadMotionIs ==
  ASSUME NEW value \in OrOdd(AnyMotion), NEW fallback \in NormalMotion
  PROVE  /\ ReadMotion(value, fallback) \in NormalMotion
         /\ value \in NormalMotion => ReadMotion(value, fallback) = value
<1>1. NormalMotion \subseteq [scale : Int, easing : BOOLEAN]
  BY DEF NormalMotion
<1>2. CASE value = Odd
  <2>1. ReadMotion(value, fallback) = NormalizeMotionSettings(fallback)
    BY <1>2 DEF ReadMotion
  <2>2. value \notin NormalMotion
    <3>1. Odd \notin AnyMotion
      BY OddAssumption DEF OddAssumption
    <3>2. NormalMotion \subseteq AnyMotion
      BY DEF NormalMotion, AnyMotion, OrOdd
    <3>3. QED
      BY <1>2, <3>1, <3>2
  <2>3. QED
    BY <1>1, <2>1, <2>2, MotionNormalized
<1>3. CASE value \in AnyMotion
  <2> DEFINE read == [scale |-> Read(value.scale, fallback.scale),
                      easing |-> Read(value.easing, fallback.easing)]
  <2>1. ReadMotion(value, fallback) = NormalizeMotionSettings(read)
    BY <1>3, OddAssumption DEF OddAssumption, ReadMotion
  <2>2. value.scale \in OrOdd(Int) /\ value.easing \in OrOdd(BOOLEAN)
        /\ fallback.scale \in Int /\ fallback.easing \in BOOLEAN
    BY <1>3 DEF AnyMotion, NormalMotion
  <2>3. Odd \notin Int /\ Odd \notin BOOLEAN
    BY OddAssumption DEF OddAssumption
  <2>4. Read(value.scale, fallback.scale) \in Int
        /\ (value.scale \in Int => Read(value.scale, fallback.scale) = value.scale)
    BY <2>2, <2>3, ReadIs
  <2>5. Read(value.easing, fallback.easing) \in BOOLEAN
        /\ (value.easing \in BOOLEAN => Read(value.easing, fallback.easing) = value.easing)
    BY <2>2, <2>3, ReadIs
  <2>6. read \in [scale : Int, easing : BOOLEAN]
    BY <2>4, <2>5
  <2>7. value \in NormalMotion => read = value
    BY <2>4, <2>5 DEF NormalMotion
  <2> HIDE DEF read
  <2>8. QED
    BY <2>1, <2>6, <2>7, MotionNormalized
<1>4. QED
  BY <1>2, <1>3 DEF OrOdd

LEMMA ElementsIs ==
  ASSUME NEW S, NEW array \in OrOdd(Seq(OrOdd(S)))
  PROVE  Elements(array) \in Seq(S)
<1> DEFINE values == Read(array, <<>>)
           P == {i \in DOMAIN values : values[i] # Odd}
<1>1. values \in Seq(OrOdd(S))
  BY DEF Read, OrOdd
<1>2. Elements(array) = Keep(values, P)
  BY DEF Elements
<1>3. P \in SUBSET (DOMAIN values) /\ \A i \in P : values[i] # Odd
  OBVIOUS
<1>4. \A i \in P : values[i] \in OrOdd(S)
  BY <1>1
<1> HIDE DEF values, P
<1>5. \E m \in Nat : \E order \in [1..m -> P] :
        /\ Rises(order, m)
        /\ \A i \in P : \E k \in 1..m : order[k] = i
        /\ Keep(values, P) = [k \in 1..m |-> values[order[k]]]
        /\ Keep(values, P) \in Seq(OrOdd(S))
  BY <1>1, <1>3, KeepIs, Zenon
<1>6. \A i \in P : values[i] \in S
  BY <1>3, <1>4 DEF OrOdd
<1>7. QED
  BY <1>2, <1>5, <1>6

LEMMA ElementsAll ==
  ASSUME NEW S, NEW array \in Seq(S), Odd \notin S, array # Odd
  PROVE  Elements(array) = array
<1>1. Read(array, <<>>) = array
  BY DEF Read
<1>2. {i \in DOMAIN array : array[i] # Odd} = DOMAIN array
  <2>1. \A i \in DOMAIN array : array[i] \in S
    OBVIOUS
  <2>2. QED
    BY <2>1
<1>3. Elements(array) = Keep(array, {i \in DOMAIN array : array[i] # Odd})
  BY <1>1, Zenon DEF Elements
<1>4. QED
  BY <1>2, <1>3, KeepAll

LEMMA ReadProfileIs ==
  ASSUME NEW value \in AnyProfile, NEW motion \in NormalMotion
  PROVE  /\ ReadProfile(value, motion) \in RawProfile
         /\ value \in NormalProfile => ReadProfile(value, motion) = value
<1>1. Odd \notin BOOLEAN /\ Odd \notin AnyName
  BY OddAssumption DEF OddAssumption
<1>2. /\ value.executable \in OrOdd(AnyName) /\ value.enabled \in OrOdd(BOOLEAN)
      /\ value.compatibility_mode \in OrOdd(BOOLEAN) /\ value.motion \in OrOdd(AnyMotion)
  BY DEF AnyProfile
<1>3. NoKey \in AnyName
  BY DEF NoKey, Key, AnyName, Spelling
<1> DEFINE executable == Read(value.executable, NoKey)
           enabled == Read(value.enabled, TRUE)
           compatible == Read(value.compatibility_mode, FALSE)
           moved == ReadMotion(value.motion, motion)
<1>4. executable \in AnyName /\ (value.executable \in AnyName => executable = value.executable)
  BY <1>1, <1>2, <1>3, ReadIs
<1>5. enabled \in BOOLEAN /\ (value.enabled \in BOOLEAN => enabled = value.enabled)
  BY <1>1, <1>2, ReadIs
<1>6. compatible \in BOOLEAN
      /\ (value.compatibility_mode \in BOOLEAN => compatible = value.compatibility_mode)
  BY <1>1, <1>2, ReadIs
<1>7. moved \in NormalMotion /\ (value.motion \in NormalMotion => moved = value.motion)
  BY <1>2, ReadMotionIs
<1>8. ReadProfile(value, motion) = [executable |-> executable, enabled |-> enabled,
                                    compatibility_mode |-> compatible, motion |-> moved]
  BY DEF ReadProfile
<1> HIDE DEF executable, enabled, compatible, moved
<1>9. ReadProfile(value, motion) \in RawProfile
  BY <1>4, <1>5, <1>6, <1>7, <1>8 DEF RawProfile
<1>10. ASSUME value \in NormalProfile PROVE ReadProfile(value, motion) = value
  <2>1. value \in RawProfile
    BY <1>10, NormalProfileIs
  <2>2. /\ value.executable \in AnyName /\ value.enabled \in BOOLEAN
        /\ value.compatibility_mode \in BOOLEAN /\ value.motion \in NormalMotion
    BY <2>1 DEF RawProfile
  <2>3. QED
    BY <1>4, <1>5, <1>6, <1>7, <1>8, <2>1, <2>2 DEF RawProfile
<1>11. QED
  BY <1>9, <1>10

-----------------------------------------------------------------------------
(* Reading and writing a document.                                          *)

\* What ParseSettings has read before it brings it to normal form.
Motion(document) == ReadMotion(document.motion, DefaultSettings.motion)

System(document) == Read(document.system, [start_with_windows |-> Odd, ui_language |-> Odd])

ReadProfiles(values, motion) == [i \in DOMAIN values |-> ReadProfile(values[i], motion)]

Raw(document) ==
  [enabled |-> Read(document.enabled, DefaultSettings.enabled),
   motion |-> Motion(document),
   start_with_windows |-> Read(System(document).start_with_windows, DefaultSettings.start_with_windows),
   ui_language |-> Read(System(document).ui_language, DefaultSettings.ui_language),
   excluded_apps |-> Elements(document.excluded_apps),
   profiles |-> ReadProfiles(Elements(document.profiles), Motion(document))]

LEMMA ParseIs ==
  ASSUME NEW document
  PROVE  ParseSettings(document) = NormalizeCollection(Raw(document))
BY Zenon DEF ParseSettings, Raw, Motion, System, ReadProfiles

LEMMA DefaultsNormal == Normal(DefaultSettings)
<1> DEFINE d == DefaultSettings
<1>1. d = [enabled |-> TRUE, motion |-> [scale |-> 10, easing |-> TRUE],
           start_with_windows |-> FALSE, ui_language |-> "system",
           excluded_apps |-> <<>>, profiles |-> <<>>]
  BY DEF DefaultSettings
<1> HIDE DEF d
<1>2. d \in NormalSettings
  BY <1>1 DEF NormalSettings, NormalMotion, KnownLanguage
<1>3. d.excluded_apps = <<>> /\ d.profiles = <<>>
  BY <1>1
<1>4. Range(<<>>) = {}
  BY DEF Range
<1>5. <<>> = Sorted({})
  <2>1. {key.base : key \in {}} = {} /\ Cardinality({}) = 0
    BY FS_EmptySet
  <2>2. Sorted({}) = [n \in 1..0 |-> Key(Ascending({})[n])]
    BY <2>1 DEF Sorted
  <2>3. QED
    BY <2>2
<1>6. OneProfileEach(<<>>)
  BY DEF OneProfileEach
<1>7. QED
  BY <1>2, <1>3, <1>4, <1>5, <1>6 DEF Normal, d

LEMMA DefaultMotion ==
  DefaultSettings.motion \in NormalMotion /\ DefaultSettings.enabled = TRUE
    /\ DefaultSettings.start_with_windows = FALSE /\ DefaultSettings.ui_language = "system"
BY DEF DefaultSettings, NormalMotion

LEMMA MembersIs ==
  ASSUME NEW document \in AnyDocument
  PROVE  /\ document.schema_version \in OrOdd(Int) /\ document.enabled \in OrOdd(BOOLEAN)
         /\ document.motion \in OrOdd(AnyMotion) /\ document.system \in OrOdd(AnySystem)
         /\ document.excluded_apps \in OrOdd(Seq(OrOdd(AnyName)))
         /\ document.profiles \in OrOdd(Seq(OrOdd(AnyProfile)))
BY DEF AnyDocument

LEMMA ReadProfilesIs ==
  ASSUME NEW values \in Seq(AnyProfile), NEW motion \in NormalMotion
  PROVE  ReadProfiles(values, motion) \in Seq(RawProfile)
<1>1. DOMAIN values = 1..Len(values) /\ Len(values) \in Nat
      /\ \A i \in DOMAIN values : values[i] \in AnyProfile
  OBVIOUS
<1>2. \A i \in DOMAIN values : ReadProfile(values[i], motion) \in RawProfile
  BY <1>1, ReadProfileIs
<1>3. ReadProfiles(values, motion) \in [1..Len(values) -> RawProfile]
  BY <1>1, <1>2 DEF ReadProfiles
<1>4. QED
  BY <1>1, <1>3

LEMMA RawIs ==
  ASSUME NEW document \in AnyDocument
  PROVE  Raw(document) \in RawSettings /\ Motion(document) \in NormalMotion
<1>1. Odd \notin BOOLEAN /\ Odd \notin Language
  BY OddAssumption DEF OddAssumption
<1>2. "system" \in Language
  BY LanguageAssumption DEF LanguageAssumption
<1>3. Motion(document) \in NormalMotion
  BY MembersIs, DefaultMotion, ReadMotionIs DEF Motion
<1>4. System(document).start_with_windows \in OrOdd(BOOLEAN)
      /\ System(document).ui_language \in OrOdd(Language)
  <2>1. System(document) \in AnySystem
    BY MembersIs DEF System, Read, OrOdd, AnySystem
  <2>2. QED
    BY <2>1 DEF AnySystem
<1>5. Read(document.enabled, DefaultSettings.enabled) \in BOOLEAN
  BY <1>1, MembersIs, DefaultMotion, ReadIs
<1>6. Read(System(document).start_with_windows, DefaultSettings.start_with_windows) \in BOOLEAN
  BY <1>1, <1>4, DefaultMotion, ReadIs
<1>7. Read(System(document).ui_language, DefaultSettings.ui_language) \in Language
  BY <1>1, <1>2, <1>4, DefaultMotion, ReadIs
<1>8. Elements(document.excluded_apps) \in Seq(AnyName)
  BY MembersIs, ElementsIs
<1>9. Elements(document.profiles) \in Seq(AnyProfile)
  BY MembersIs, ElementsIs
<1>10. ReadProfiles(Elements(document.profiles), Motion(document)) \in Seq(RawProfile)
  BY <1>3, <1>9, ReadProfilesIs
<1>11. QED
  BY <1>3, <1>5, <1>6, <1>7, <1>8, <1>10 DEF Raw, RawSettings

\* Any document parses to a normal form.
LEMMA ParsedNormal ==
  ASSUME NEW document \in AnyDocument
  PROVE  Normal(ParseSettings(document))
BY RawIs, CollectionNormal, ParseIs

LEMMA NormalIs ==
  ASSUME NEW s, Normal(s)
  PROVE  /\ s.enabled \in BOOLEAN /\ s.motion \in NormalMotion /\ s.start_with_windows \in BOOLEAN
         /\ s.ui_language \in KnownLanguage
         /\ s.excluded_apps \in Seq(NormalKey) /\ s.profiles \in Seq(NormalProfile)
         /\ s = [enabled |-> s.enabled, motion |-> s.motion,
                 start_with_windows |-> s.start_with_windows, ui_language |-> s.ui_language,
                 excluded_apps |-> s.excluded_apps, profiles |-> s.profiles]
<1>1. s \in NormalSettings
  BY DEF Normal
<1>2. QED
  BY <1>1 DEF NormalSettings

LEMMA Serialized ==
  ASSUME NEW s, Normal(s)
  PROVE  SerializeSettings(s) =
           [schema_version |-> 2, enabled |-> s.enabled, motion |-> s.motion,
            system |-> [start_with_windows |-> s.start_with_windows, ui_language |-> s.ui_language],
            excluded_apps |-> s.excluded_apps, profiles |-> s.profiles]
<1>1. NormalizeCollection(s) = s
  BY CollectionFixed
<1>2. NormalizeMotionSettings(s.motion) = s.motion
  <2>1. s.motion \in NormalMotion
    BY NormalIs
  <2>2. s.motion \in [scale : Int, easing : BOOLEAN]
    BY <2>1 DEF NormalMotion
  <2>3. QED
    BY <2>1, <2>2, MotionNormalized
<1>3. QED
  BY <1>1, <1>2, Zenon DEF SerializeSettings

LEMMA NormalIsAny ==
  ASSUME NEW s, Normal(s)
  PROVE  /\ s.motion \in AnyMotion
         /\ s.excluded_apps \in Seq(AnyName) /\ s.excluded_apps \in Seq(OrOdd(AnyName))
         /\ s.profiles \in Seq(AnyProfile) /\ s.profiles \in Seq(OrOdd(AnyProfile))
         /\ s.ui_language \in Language
<1>1. s \in RawSettings /\ s.excluded_apps \in Seq(AnyName) /\ s.profiles \in Seq(RawProfile)
      /\ s.motion \in NormalMotion /\ s.ui_language \in Language
  BY NormalIsRaw DEF RawSettings
<1>2. NormalMotion \subseteq AnyMotion
  BY DEF NormalMotion, AnyMotion, OrOdd
<1>3. RawProfile \subseteq AnyProfile
  BY <1>2 DEF RawProfile, AnyProfile, OrOdd
<1>4. s.profiles \in Seq(AnyProfile)
  BY <1>1, <1>3
<1>5. AnyName \subseteq OrOdd(AnyName) /\ AnyProfile \subseteq OrOdd(AnyProfile)
  BY DEF OrOdd
<1>6. s.profiles \in Seq(OrOdd(AnyProfile)) /\ s.excluded_apps \in Seq(OrOdd(AnyName))
  BY <1>1, <1>4, <1>5
<1>7. QED
  BY <1>1, <1>2, <1>4, <1>6

LEMMA SerializedIsDocument ==
  ASSUME NEW s, Normal(s)
  PROVE  SerializeSettings(s) \in AnyDocument /\ Accepted(SerializeSettings(s))
<1> DEFINE system == [start_with_windows |-> s.start_with_windows, ui_language |-> s.ui_language]
<1>1. system \in AnySystem
  BY NormalIs, NormalIsAny DEF AnySystem, OrOdd
<1> HIDE DEF system
<1>2. /\ s.enabled \in OrOdd(BOOLEAN) /\ s.motion \in OrOdd(AnyMotion)
      /\ system \in OrOdd(AnySystem) /\ 2 \in OrOdd(Int)
      /\ s.excluded_apps \in OrOdd(Seq(OrOdd(AnyName)))
      /\ s.profiles \in OrOdd(Seq(OrOdd(AnyProfile)))
  BY <1>1, NormalIs, NormalIsAny DEF OrOdd
<1>3. SerializeSettings(s) =
        [schema_version |-> 2, enabled |-> s.enabled, motion |-> s.motion, system |-> system,
         excluded_apps |-> s.excluded_apps, profiles |-> s.profiles]
  BY Serialized DEF system
<1>4. SerializeSettings(s) \in AnyDocument
  BY <1>2, <1>3 DEF AnyDocument
<1>5. SerializeSettings(s) # Odd /\ 2 # Odd
  BY <1>4, OddAssumption DEF OddAssumption
<1>6. SerializeSettings(s).schema_version = 2 /\ 2 \div 2 = 1
  BY <1>3
<1>7. QED
  BY <1>4, <1>5, <1>6 DEF Accepted

\* What is serialized of a normal form parses to the same settings.
LEMMA ReadBack ==
  ASSUME NEW s, Normal(s)
  PROVE  ParseSettings(SerializeSettings(s)) = s
<1> DEFINE document == SerializeSettings(s)
           system == [start_with_windows |-> s.start_with_windows, ui_language |-> s.ui_language]
<1>1. /\ Odd \notin BOOLEAN /\ Odd \notin Language /\ Odd \notin AnySystem
      /\ Odd \notin AnyName /\ Odd \notin AnyProfile
      /\ Odd \notin Seq(OrOdd(AnyName)) /\ Odd \notin Seq(OrOdd(AnyProfile))
  BY OddAssumption DEF OddAssumption
<1>2. /\ document.enabled = s.enabled /\ document.motion = s.motion /\ document.system = system
      /\ document.excluded_apps = s.excluded_apps /\ document.profiles = s.profiles
  BY Serialized
<1> HIDE DEF document
<1>3. Motion(document) = s.motion
  BY <1>2, NormalIs, NormalIsAny, DefaultMotion, ReadMotionIs DEF Motion, OrOdd
<1>4. System(document) = system
  <2>1. system \in AnySystem
    BY NormalIs, NormalIsAny DEF AnySystem, OrOdd
  <2>2. QED
    BY <1>1, <1>2, <2>1 DEF System, Read
<1>5. Read(system.start_with_windows, DefaultSettings.start_with_windows) = s.start_with_windows
  BY <1>1, NormalIs DEF Read
<1>6. Read(system.ui_language, DefaultSettings.ui_language) = s.ui_language
  BY <1>1, NormalIsAny DEF Read
<1>7. Read(document.enabled, DefaultSettings.enabled) = s.enabled
  BY <1>1, <1>2, NormalIs DEF Read
<1>8. Elements(document.excluded_apps) = s.excluded_apps
  <2>1. s.excluded_apps \in Seq(AnyName) /\ s.excluded_apps # Odd
    BY <1>1, NormalIsAny
  <2>2. QED
    BY <1>1, <1>2, <2>1, ElementsAll
<1>9. Elements(document.profiles) = s.profiles
  <2>1. s.profiles \in Seq(AnyProfile) /\ s.profiles # Odd
    BY <1>1, NormalIsAny
  <2>2. QED
    BY <1>1, <1>2, <2>1, ElementsAll
<1>10. ReadProfiles(s.profiles, s.motion) = s.profiles
  <2>1. DOMAIN s.profiles = 1..Len(s.profiles) /\ \A i \in DOMAIN s.profiles :
          s.profiles[i] \in NormalProfile /\ s.profiles[i] \in AnyProfile
    BY NormalIs, NormalIsAny
  <2>2. \A i \in DOMAIN s.profiles : ReadProfile(s.profiles[i], s.motion) = s.profiles[i]
    BY <2>1, NormalIs, ReadProfileIs
  <2>3. s.profiles = [i \in DOMAIN s.profiles |-> s.profiles[i]]
    BY NormalIs
  <2>4. QED
    BY <2>2, <2>3 DEF ReadProfiles
<1>11. Raw(document) =
         [enabled |-> s.enabled, motion |-> s.motion,
          start_with_windows |-> s.start_with_windows, ui_language |-> s.ui_language,
          excluded_apps |-> s.excluded_apps, profiles |-> s.profiles]
  BY <1>3, <1>4, <1>5, <1>6, <1>7, <1>8, <1>9, <1>10 DEF Raw
<1>12. Raw(document) = s
  BY <1>11, NormalIs
<1>13. QED
  BY <1>12, CollectionFixed, ParseIs DEF document

-----------------------------------------------------------------------------
(* The life of a file.                                                      *)

IInv ==
  /\ file \in OrOdd(AnyDocument)
  /\ settings # Stopped => Normal(settings)

LEMMA InitIInv == Init => IInv
BY DocumentAssumption DEF Init, IInv, DocumentAssumption

\* The panel's own changes keep the normal form they never pass through
\* NormalizeCollection for: a control holds one of the values that are normal,
LEMMA ControlChanged ==
  ASSUME IInv, ChangeControl \/ HandleSlider \/ ApplyPreset
  PROVE  Normal(settings')
<1> USE DEF NormalSettings
<1>1. Normal(settings)
  BY DEF IInv, InPanel, ChangeControl, HandleSlider, ApplyPreset
<1>2. settings \in NormalSettings /\ settings.motion \in NormalMotion
  BY <1>1 DEF Normal
<1>3. CASE settings' = [settings EXCEPT !.enabled = ~@]
  <2>1. (~settings.enabled) \in BOOLEAN
    BY <1>2
  <2>2. settings' \in NormalSettings
    BY <1>2, <1>3, <2>1
  <2>3. settings'.excluded_apps = settings.excluded_apps /\ settings'.profiles = settings.profiles
    BY <1>2, <1>3
  <2>4. QED
    BY <1>1, <2>2, <2>3, Zenon DEF Normal
<1>4. CASE settings' = [settings EXCEPT !.start_with_windows = ~@]
  <2>1. (~settings.start_with_windows) \in BOOLEAN
    BY <1>2
  <2>2. settings' \in NormalSettings
    BY <1>2, <1>4, <2>1
  <2>3. settings'.excluded_apps = settings.excluded_apps /\ settings'.profiles = settings.profiles
    BY <1>2, <1>4
  <2>4. QED
    BY <1>1, <2>2, <2>3, Zenon DEF Normal
<1>5. CASE \E language \in KnownLanguage : settings' = [settings EXCEPT !.ui_language = language]
  <2>1. settings' \in NormalSettings
    BY <1>2, <1>5
  <2>2. settings'.excluded_apps = settings.excluded_apps /\ settings'.profiles = settings.profiles
    BY <1>2, <1>5
  <2>3. QED
    BY <1>1, <2>1, <2>2, Zenon DEF Normal
<1>6. CASE \E motion \in NormalMotion : settings' = [settings EXCEPT !.motion = motion]
  <2>1. settings' \in NormalSettings
    BY <1>2, <1>6
  <2>2. settings'.excluded_apps = settings.excluded_apps /\ settings'.profiles = settings.profiles
    BY <1>2, <1>6
  <2>3. QED
    BY <1>1, <2>1, <2>2, Zenon DEF Normal
<1>7. ASSUME settings' = [settings EXCEPT !.motion.easing = ~@]
      PROVE  \E motion \in NormalMotion : settings' = [settings EXCEPT !.motion = motion]
  <2>1. [settings.motion EXCEPT !.easing = ~@] \in NormalMotion
    BY <1>2 DEF NormalMotion
  <2>2. settings' = [settings EXCEPT !.motion = [settings.motion EXCEPT !.easing = ~@]]
    BY <1>7, Zenon
  <2>3. QED
    BY <2>1, <2>2, Zenon
<1>8. ASSUME NEW tenths \in 1..40, settings' = [settings EXCEPT !.motion.scale = tenths]
      PROVE  \E motion \in NormalMotion : settings' = [settings EXCEPT !.motion = motion]
  <2>1. [settings.motion EXCEPT !.scale = tenths] \in NormalMotion
    BY <1>2 DEF NormalMotion
  <2>2. settings' = [settings EXCEPT !.motion = [settings.motion EXCEPT !.scale = tenths]]
    BY <1>8, Zenon
  <2>3. QED
    BY <2>1, <2>2, Zenon
<1>9. CASE HandleSlider
  <2>1. PICK tenths \in 1..40 : settings' = [settings EXCEPT !.motion.scale = tenths]
    BY <1>9, Zenon DEF HandleSlider, Change
  <2>2. QED
    BY <1>6, <1>8, <2>1
<1>10. CASE ApplyPreset
  <2>1. PICK tenths \in {9, 10, 11} :
          settings' = [settings EXCEPT !.motion = [scale |-> tenths, easing |-> TRUE]]
    BY <1>10, Zenon DEF ApplyPreset, Change
  <2>2. [scale |-> tenths, easing |-> TRUE] \in NormalMotion
    BY DEF NormalMotion
  <2>3. QED
    BY <1>6, <2>1, <2>2
<1>11. CASE ChangeControl
  <2>1. \/ settings' = [settings EXCEPT !.enabled = ~@]
        \/ settings' = [settings EXCEPT !.start_with_windows = ~@]
        \/ settings' = [settings EXCEPT !.motion.easing = ~@]
        \/ \E language \in KnownLanguage : settings' = [settings EXCEPT !.ui_language = language]
    <3>1. KnownLanguage = {"system", "en", "zh-CN"}
      BY DEF KnownLanguage
    <3>2. QED
      BY <1>11, <3>1, Zenon DEF ChangeControl, Change
  <2>2. QED
    BY <1>3, <1>4, <1>5, <1>6, <1>7, <2>1, Zenon
<1>12. QED
  BY <1>9, <1>10, <1>11

\* a new key is sorted in,
LEMMA ExcludedApplicationAdded ==
  ASSUME IInv, AddExcludedApplication
  PROVE  Normal(settings')
<1>1. PICK name \in Name :
        /\ NormalizeExecutableKey(name) # NoKey
        /\ settings' = [settings EXCEPT !.excluded_apps =
                          Sorted(Range(settings.excluded_apps) \cup {NormalizeExecutableKey(name)})]
  BY Zenon DEF AddExcludedApplication, Change
<1> DEFINE key == NormalizeExecutableKey(name)
           keys == Range(settings.excluded_apps) \cup {key}
<1>2. Normal(settings)
  BY DEF IInv, InPanel, AddExcludedApplication
<1>3. name \in AnyName
  BY NameAssumption DEF NameAssumption
<1>4. key \in NormalKey
  <2>1. key = Key(name.base) /\ name.base \in Nat /\ key # NoKey
    BY <1>1, <1>3, KeyNormalized
  <2> HIDE DEF key
  <2>2. QED
    BY <2>1 DEF NoKey, NormalKey
<1>5. IsFiniteSet(Range(settings.excluded_apps)) /\ Range(settings.excluded_apps) \subseteq NormalKey
  BY <1>2, NormalIs, FiniteRange
<1> HIDE DEF key
<1>6. IsFiniteSet(keys) /\ keys \subseteq NormalKey
  BY <1>4, <1>5, FS_AddElement
<1> DEFINE excluded == Sorted(keys)
<1>7. excluded \in Seq(NormalKey) /\ Range(excluded) = keys
  <2> HIDE DEF keys
  <2>1. QED
    BY <1>6, SortedIs
<1>8. settings' = [settings EXCEPT !.excluded_apps = excluded]
  BY <1>1, Zenon DEF key
<1>9. excluded = Sorted(Range(excluded))
  BY <1>7, Zenon
<1> HIDE DEF excluded
<1>10. settings \in NormalSettings /\ OneProfileEach(settings.profiles)
  BY <1>2 DEF Normal
<1>11. /\ settings' \in NormalSettings
       /\ settings'.excluded_apps = excluded /\ settings'.profiles = settings.profiles
  BY <1>7, <1>8, <1>10 DEF NormalSettings
<1>12. QED
  BY <1>9, <1>10, <1>11, Zenon DEF Normal

\* an erased one leaves the others in their order,
LEMMA ExcludedApplicationRemoved ==
  ASSUME IInv, RemoveExcludedApplication
  PROVE  Normal(settings')
<1>1. Normal(settings)
  BY DEF IInv, InPanel, RemoveExcludedApplication
<1>2. /\ settings \in NormalSettings /\ settings.excluded_apps \in Seq(NormalKey)
      /\ settings.excluded_apps = Sorted(Range(settings.excluded_apps))
      /\ OneProfileEach(settings.profiles)
  BY <1>1, NormalIs DEF Normal
<1>3. PICK i \in DOMAIN settings.excluded_apps :
        settings' = [settings EXCEPT !.excluded_apps =
                       Keep(settings.excluded_apps, DOMAIN settings.excluded_apps \ {i})]
  BY Zenon DEF RemoveExcludedApplication, Change
<1> DEFINE excluded == Keep(settings.excluded_apps, DOMAIN settings.excluded_apps \ {i})
<1>4. excluded \in Seq(NormalKey) /\ excluded = Sorted(Range(excluded))
  <2>1. (DOMAIN settings.excluded_apps \ {i}) \in SUBSET (DOMAIN settings.excluded_apps)
    OBVIOUS
  <2>2. QED
    BY <1>2, <2>1, KeptSorted
<1>5. settings' = [settings EXCEPT !.excluded_apps = excluded]
  BY <1>3
<1> HIDE DEF excluded
<1>6. /\ settings' \in NormalSettings
      /\ settings'.excluded_apps = excluded /\ settings'.profiles = settings.profiles
  BY <1>2, <1>4, <1>5 DEF NormalSettings
<1>7. QED
  BY <1>2, <1>4, <1>6, Zenon DEF Normal

\* the new profile is the only one of its key,
LEMMA ProfileAdded ==
  ASSUME IInv, AddProfile
  PROVE  Normal(settings')
<1>1. PICK name \in Name :
        /\ NormalizeExecutableKey(name) # NoKey
        /\ \A i \in DOMAIN settings.profiles :
             settings.profiles[i].executable # NormalizeExecutableKey(name)
        /\ settings' = [settings EXCEPT !.profiles =
             Append(@, [executable |-> NormalizeExecutableKey(name), enabled |-> TRUE,
                        compatibility_mode |-> FALSE, motion |-> settings.motion])]
  BY Zenon DEF AddProfile, Change
<1> DEFINE key == NormalizeExecutableKey(name)
           profile == [executable |-> key, enabled |-> TRUE, compatibility_mode |-> FALSE,
                       motion |-> settings.motion]
           profiles == Append(settings.profiles, profile)
<1>2. Normal(settings)
  BY DEF IInv, InPanel, AddProfile
<1>3. name \in AnyName
  BY NameAssumption DEF NameAssumption
<1>4. key \in NormalKey
  <2>1. key = Key(name.base) /\ name.base \in Nat /\ key # NoKey
    BY <1>1, <1>3, KeyNormalized
  <2> HIDE DEF key
  <2>2. QED
    BY <2>1 DEF NoKey, NormalKey
<1>5. /\ settings \in NormalSettings /\ settings.motion \in NormalMotion
      /\ settings.profiles \in Seq(NormalProfile) /\ OneProfileEach(settings.profiles)
      /\ settings.excluded_apps = Sorted(Range(settings.excluded_apps))
  BY <1>2, NormalIs DEF Normal
<1>6. settings' = [settings EXCEPT !.profiles = profiles]
  BY <1>1, Zenon
<1>7. \A i \in DOMAIN settings.profiles : settings.profiles[i].executable # key
  BY <1>1
<1> HIDE DEF key
<1>8. profile \in NormalProfile /\ profile.executable = key
  BY <1>4, <1>5 DEF NormalProfile
<1> HIDE DEF profile
<1>9. /\ profiles \in Seq(NormalProfile)
      /\ DOMAIN profiles = 1..(Len(settings.profiles) + 1) /\ Len(settings.profiles) \in Nat
      /\ DOMAIN settings.profiles = 1..Len(settings.profiles)
      /\ profiles[Len(settings.profiles) + 1] = profile
      /\ \A i \in 1..Len(settings.profiles) : profiles[i] = settings.profiles[i]
  BY <1>5, <1>8
<1> HIDE DEF profiles
<1>10. OneProfileEach(profiles)
  <2> SUFFICES ASSUME NEW i \in DOMAIN profiles, NEW j \in DOMAIN profiles, i # j
               PROVE  profiles[i].executable # profiles[j].executable
    BY DEF OneProfileEach
  <2>1. CASE i \in DOMAIN settings.profiles /\ j \in DOMAIN settings.profiles
    BY <1>5, <1>9, <2>1 DEF OneProfileEach
  <2>2. CASE i \in DOMAIN settings.profiles /\ j = Len(settings.profiles) + 1
    BY <1>7, <1>8, <1>9, <2>2
  <2>3. CASE j \in DOMAIN settings.profiles /\ i = Len(settings.profiles) + 1
    BY <1>7, <1>8, <1>9, <2>3
  <2>4. QED
    BY <1>9, <2>1, <2>2, <2>3
<1>11. /\ settings' \in NormalSettings
       /\ settings'.profiles = profiles /\ settings'.excluded_apps = settings.excluded_apps
  BY <1>5, <1>6, <1>9 DEF NormalSettings
<1>12. QED
  BY <1>5, <1>10, <1>11, Zenon DEF Normal

\* and no two of what is left of the profiles share one;
LEMMA ProfileRemoved ==
  ASSUME IInv, RemoveProfile
  PROVE  Normal(settings')
<1>1. Normal(settings)
  BY DEF IInv, InPanel, RemoveProfile
<1>2. /\ settings \in NormalSettings /\ settings.profiles \in Seq(NormalProfile)
      /\ settings.excluded_apps = Sorted(Range(settings.excluded_apps))
      /\ OneProfileEach(settings.profiles)
  BY <1>1, NormalIs DEF Normal
<1>3. PICK i \in DOMAIN settings.profiles :
        settings' = [settings EXCEPT !.profiles =
                       Keep(settings.profiles, DOMAIN settings.profiles \ {i})]
  BY Zenon DEF RemoveProfile, Change
<1> DEFINE P == DOMAIN settings.profiles \ {i}
           profiles == Keep(settings.profiles, P)
<1>4. PICK m \in Nat : \E order \in [1..m -> P] :
        /\ Rises(order, m)
        /\ \A p \in P : \E k \in 1..m : order[k] = p
        /\ profiles = [k \in 1..m |-> settings.profiles[order[k]]]
        /\ profiles \in Seq(NormalProfile)
  <2>1. P \in SUBSET (DOMAIN settings.profiles)
    OBVIOUS
  <2> HIDE DEF P
  <2>2. QED
    BY <1>2, <2>1, KeepIs, Zenon
<1>5. PICK order \in [1..m -> P] :
        /\ Rises(order, m) /\ profiles = [k \in 1..m |-> settings.profiles[order[k]]]
        /\ profiles \in Seq(NormalProfile)
  BY <1>4
<1>6. settings' = [settings EXCEPT !.profiles = profiles]
  BY <1>3
<1> HIDE DEF profiles
<1>7. OneProfileEach(profiles)
  <2> SUFFICES ASSUME NEW j \in 1..m, NEW k \in 1..m, j # k
               PROVE  profiles[j].executable # profiles[k].executable
    BY <1>5 DEF OneProfileEach
  <2>1. order[j] \in Nat /\ order[k] \in Nat
    BY <1>2, <1>5
  <2>2. order[j] # order[k]
    BY <1>5, <2>1 DEF Rises
  <2>3. order[j] \in DOMAIN settings.profiles /\ order[k] \in DOMAIN settings.profiles
    BY <1>5
  <2>4. QED
    BY <1>2, <1>5, <2>2, <2>3 DEF OneProfileEach
<1>8. /\ settings' \in NormalSettings
      /\ settings'.profiles = profiles /\ settings'.excluded_apps = settings.excluded_apps
  BY <1>2, <1>5, <1>6 DEF NormalSettings
<1>9. QED
  BY <1>2, <1>7, <1>8, Zenon DEF Normal

\* the boxes of a profile leave its key,
LEMMA ProfileExchanged ==
  ASSUME Normal(settings), NEW i \in DOMAIN settings.profiles, NEW new \in NormalProfile,
         new.executable = settings.profiles[i].executable,
         settings' = [settings EXCEPT !.profiles = [settings.profiles EXCEPT ![i] = new]]
  PROVE  Normal(settings')
<1> DEFINE profiles == [settings.profiles EXCEPT ![i] = new]
<1>1. /\ settings \in NormalSettings
      /\ settings.profiles \in Seq(NormalProfile) /\ OneProfileEach(settings.profiles)
      /\ settings.excluded_apps = Sorted(Range(settings.excluded_apps))
  BY NormalIs DEF Normal
<1>2. /\ profiles \in Seq(NormalProfile) /\ DOMAIN profiles = DOMAIN settings.profiles
      /\ \A k \in DOMAIN profiles : profiles[k].executable = settings.profiles[k].executable
  BY <1>1
<1> HIDE DEF profiles
<1>3. OneProfileEach(profiles)
  BY <1>1, <1>2 DEF OneProfileEach
<1>4. settings' = [settings EXCEPT !.profiles = profiles]
  BY DEF profiles
<1>5. /\ settings' \in NormalSettings
      /\ settings'.profiles = profiles /\ settings'.excluded_apps = settings.excluded_apps
  BY <1>1, <1>2, <1>4 DEF NormalSettings
<1>6. QED
  BY <1>1, <1>3, <1>5, Zenon DEF Normal

LEMMA ProfileBoxChanged ==
  ASSUME IInv, UpdateProfileBox
  PROVE  Normal(settings')
<1>1. Normal(settings)
  BY DEF IInv, InPanel, UpdateProfileBox
<1>2. PICK i \in DOMAIN settings.profiles :
        \/ settings' = [settings EXCEPT !.profiles[i].enabled = ~@]
        \/ settings' = [settings EXCEPT !.profiles[i].compatibility_mode = ~@]
        \/ settings' = [settings EXCEPT !.profiles[i].motion.easing = ~@]
  BY Zenon DEF UpdateProfileBox, Change
<1> DEFINE old == settings.profiles[i]
           off == [old EXCEPT !.enabled = ~@]
           mode == [old EXCEPT !.compatibility_mode = ~@]
           eased == [old EXCEPT !.motion.easing = ~@]
<1>3. old \in NormalProfile /\ old.motion \in NormalMotion
  <2>1. settings.profiles \in Seq(NormalProfile)
    BY <1>1, NormalIs
  <2>2. old \in NormalProfile
    BY <2>1
  <2>3. QED
    BY <2>2 DEF NormalProfile
<1>4. off \in NormalProfile /\ off.executable = old.executable
  BY <1>3 DEF NormalProfile
<1>5. mode \in NormalProfile /\ mode.executable = old.executable
  BY <1>3 DEF NormalProfile
<1>6. eased \in NormalProfile /\ eased.executable = old.executable
  <2>1. [old.motion EXCEPT !.easing = ~@] \in NormalMotion
    BY <1>3 DEF NormalMotion
  <2>2. eased = [old EXCEPT !.motion = [old.motion EXCEPT !.easing = ~@]]
    BY Zenon
  <2> HIDE DEF eased
  <2>3. QED
    BY <1>3, <2>1, <2>2 DEF NormalProfile
<1>7. \E new \in {off, mode, eased} :
        settings' = [settings EXCEPT !.profiles = [settings.profiles EXCEPT ![i] = new]]
  BY <1>2, Zenon
<1> HIDE DEF off, mode, eased
<1>8. QED
  BY <1>1, <1>4, <1>5, <1>6, <1>7, ProfileExchanged

\* and the new number is in its range.
LEMMA ProfileUpdated ==
  ASSUME IInv, UpdateProfileFromEditor
  PROVE  Normal(settings')
<1>1. PICK i \in DOMAIN settings.profiles, scale \in Number :
        settings' = [settings EXCEPT !.profiles[i].motion =
          NormalizeMotionSettings([settings.profiles[i].motion EXCEPT !.scale = scale])]
  BY Zenon DEF UpdateProfileFromEditor, Change
<1> DEFINE old == settings.profiles[i]
           motion == NormalizeMotionSettings([old.motion EXCEPT !.scale = scale])
           new == [old EXCEPT !.motion = motion]
<1>2. Normal(settings)
  BY DEF IInv, InPanel, UpdateProfileFromEditor
<1>3. old \in NormalProfile /\ old.motion \in NormalMotion
  <2>1. settings.profiles \in Seq(NormalProfile)
    BY <1>2, NormalIs
  <2>2. old \in NormalProfile
    BY <2>1
  <2>3. QED
    BY <2>2 DEF NormalProfile
<1>4. motion \in NormalMotion
  <2>1. [old.motion EXCEPT !.scale = scale] \in [scale : Int, easing : BOOLEAN]
    BY <1>3, NumberAssumption DEF NormalMotion, NumberAssumption
  <2> HIDE DEF old
  <2>2. QED
    BY <2>1, MotionNormalized
<1>5. settings' = [settings EXCEPT !.profiles = [settings.profiles EXCEPT ![i] = new]]
  BY <1>1, Zenon
<1> HIDE DEF motion
<1>6. new \in NormalProfile /\ new.executable = old.executable
  BY <1>3, <1>4 DEF NormalProfile
<1> HIDE DEF new
<1>7. QED
  BY <1>2, <1>5, <1>6, ProfileExchanged

LEMMA NextIInv == IInv /\ [Next]_vars => IInv'
<1> SUFFICES ASSUME IInv, [Next]_vars PROVE IInv'
  OBVIOUS
<1>1. CASE EditFile
  BY <1>1, DocumentAssumption DEF IInv, EditFile, DocumentAssumption
<1>2. CASE Load
  <2>1. ASSUME Accepted(file) PROVE Normal(ParseSettings(file))
    <3>1. file \in AnyDocument
      BY <2>1 DEF Accepted, IInv, OrOdd
    <3>2. QED
      BY <3>1, ParsedNormal
  <2>2. Normal(settings')
    BY <1>2, <2>1, DefaultsNormal DEF Load
  <2>3. file' = file
    BY <1>2 DEF Load
  <2>4. QED
    BY <2>2, <2>3 DEF IInv
<1>3. CASE Exit
  BY <1>3 DEF IInv, Exit
<1>4. CASE Save
  <2>1. Normal(settings) /\ file' = SerializeSettings(settings) /\ settings' = settings
    BY <1>4 DEF IInv, Save
  <2>2. file' \in OrOdd(AnyDocument)
    BY <2>1, SerializedIsDocument DEF OrOdd
  <2>3. QED
    BY <2>1, <2>2 DEF IInv
<1>5. CASE UNCHANGED vars
  BY <1>5 DEF vars, IInv
<1>6. ASSUME Normal(settings'), file' = file PROVE IInv'
  BY <1>6 DEF IInv
<1>7. CASE ChangeControl \/ HandleSlider \/ ApplyPreset
  BY <1>6, <1>7, ControlChanged DEF ChangeControl, HandleSlider, ApplyPreset, Change
<1>8. CASE AddExcludedApplication
  BY <1>6, <1>8, ExcludedApplicationAdded DEF AddExcludedApplication, Change
<1>9. CASE RemoveExcludedApplication
  BY <1>6, <1>9, ExcludedApplicationRemoved DEF RemoveExcludedApplication, Change
<1>10. CASE AddProfile
  BY <1>6, <1>10, ProfileAdded DEF AddProfile, Change
<1>11. CASE RemoveProfile
  BY <1>6, <1>11, ProfileRemoved DEF RemoveProfile, Change
<1>12. CASE UpdateProfileBox
  BY <1>6, <1>12, ProfileBoxChanged DEF UpdateProfileBox, Change
<1>13. CASE UpdateProfileFromEditor
  BY <1>6, <1>13, ProfileUpdated DEF UpdateProfileFromEditor, Change
<1>14. QED
  BY <1>1, <1>2, <1>3, <1>4, <1>5, <1>7, <1>8, <1>9, <1>10, <1>11, <1>12, <1>13, Zenon DEF Next

\* Settings in use are in normal form, and the file is a document, at any time.
LEMMA Invariance == Spec => []IInv
BY InitIInv, NextIInv, PTL DEF Spec

(* RoundTrip for any documents: settings in use are saved, sent and loaded without a  *)
(* change, down to the order of the profiles (settings.cpp:169, 215; the engine and the *)
(* panel exchange them in this form).                                                *)
THEOREM SettingsSurvive == Spec => []RoundTrip
<1>1. IInv => RoundTrip
  BY SerializedIsDocument, ReadBack, Zenon DEF IInv, RoundTrip
<1>2. QED
  BY <1>1, Invariance, PTL

-----------------------------------------------------------------------------
(* The numbers.                                                             *)

Clamp(n) == IF n < 1 THEN 1 ELSE IF n > 40 THEN 40 ELSE n

\* The nearest number in range is the one NormalizeMotionSettings takes.
LEMMA NearestIs ==
  ASSUME NEW asked \in Int
  PROVE  Nearest(asked) = Clamp(asked)
<1>1. Clamp(asked) \in 1..40
  BY DEF Clamp
<1>2. ASSUME NEW other \in 1..40
      PROVE  Distance(asked, Clamp(asked)) <= Distance(asked, other)
  BY DEF Clamp, Distance
<1>3. ASSUME NEW tenths \in 1..40, Distance(asked, tenths) <= Distance(asked, Clamp(asked))
      PROVE  tenths = Clamp(asked)
  BY <1>3 DEF Clamp, Distance
<1>4. /\ Nearest(asked) \in 1..40
      /\ \A other \in 1..40 : Distance(asked, Nearest(asked)) <= Distance(asked, other)
  BY <1>1, <1>2, Zenon DEF Nearest
<1>5. QED
  BY <1>1, <1>3, <1>4

\* A motion's number is its own if it gives one, else the fallback's.
LEMMA ScaleRead ==
  ASSUME NEW value \in OrOdd(AnyMotion), NEW fallback \in NormalMotion
  PROVE  ReadMotion(value, fallback).scale =
           IF value # Odd /\ value.scale # Odd THEN Clamp(value.scale) ELSE fallback.scale
<1>1. NormalizeMotionSettings(fallback) = fallback
  <2>1. fallback \in [scale : Int, easing : BOOLEAN]
    BY DEF NormalMotion
  <2>2. QED
    BY <2>1, MotionNormalized
<1>2. CASE value = Odd
  BY <1>1, <1>2 DEF ReadMotion
<1>3. CASE value # Odd
  <2> DEFINE read == [scale |-> Read(value.scale, fallback.scale),
                      easing |-> Read(value.easing, fallback.easing)]
  <2>1. ReadMotion(value, fallback) = NormalizeMotionSettings(read)
    BY <1>3 DEF ReadMotion
  <2>2. NormalizeMotionSettings(read).scale = Clamp(Read(value.scale, fallback.scale))
    BY DEF NormalizeMotionSettings, Clamp
  <2>3. fallback.scale \in 1..40
    BY DEF NormalMotion
  <2>4. Clamp(fallback.scale) = fallback.scale
    BY <2>3 DEF Clamp
  <2>5. Read(value.scale, fallback.scale) =
          IF value.scale # Odd THEN value.scale ELSE fallback.scale
    BY DEF Read
  <2> HIDE DEF read
  <2>6. QED
    BY <1>3, <2>1, <2>2, <2>4, <2>5
<1>4. QED
  BY <1>2, <1>3

IsGiven(motion) == motion # Odd /\ motion.scale # Odd

LEMMA OneGiven ==
  ASSUME NEW v
  PROVE  FirstGiven(<<v>>) = IF IsGiven(v) THEN v.scale ELSE 10
<1> DEFINE given == {i \in DOMAIN <<v>> : <<v>>[i] # Odd /\ <<v>>[i].scale # Odd}
<1>1. FirstGiven(<<v>>) = IF given = {} THEN 10 ELSE <<v>>[First(given)].scale
  BY DEF FirstGiven
<1>2. DOMAIN <<v>> = {1} /\ <<v>>[1] = v
  OBVIOUS
<1>3. CASE IsGiven(v)
  <2>1. given = {1}
    BY <1>2, <1>3 DEF IsGiven
  <2>2. First({1}) = 1
    BY FirstIs
  <2> HIDE DEF given
  <2>3. QED
    BY <1>1, <1>2, <1>3, <2>1, <2>2
<1>4. CASE ~ IsGiven(v)
  <2>1. given = {}
    BY <1>2, <1>4 DEF IsGiven
  <2> HIDE DEF given
  <2>2. QED
    BY <1>1, <1>4, <2>1
<1>5. QED
  BY <1>3, <1>4

LEMMA TwoGiven ==
  ASSUME NEW v, NEW w
  PROVE  FirstGiven(<<v, w>>) =
           IF IsGiven(v) THEN v.scale ELSE IF IsGiven(w) THEN w.scale ELSE 10
<1> DEFINE given == {i \in DOMAIN <<v, w>> : <<v, w>>[i] # Odd /\ <<v, w>>[i].scale # Odd}
<1>1. FirstGiven(<<v, w>>) = IF given = {} THEN 10 ELSE <<v, w>>[First(given)].scale
  BY DEF FirstGiven
<1>2. DOMAIN <<v, w>> = {1, 2} /\ <<v, w>>[1] = v /\ <<v, w>>[2] = w
  OBVIOUS
<1>3. given \subseteq {1, 2} /\ (1 \in given <=> IsGiven(v)) /\ (2 \in given <=> IsGiven(w))
  BY <1>2 DEF IsGiven
<1> HIDE DEF given
<1>4. given # {} => First(given) \in given /\ \A j \in given : First(given) <= j
  BY <1>3, FirstIs
<1>5. CASE IsGiven(v)
  <2>1. First(given) = 1
    <3>1. 1 \in given
      BY <1>3, <1>5
    <3>2. First(given) \in {1, 2} /\ First(given) <= 1
      BY <1>3, <1>4, <3>1
    <3>3. QED
      BY <3>2
  <2>2. QED
    BY <1>1, <1>2, <1>3, <1>5, <2>1
<1>6. CASE ~ IsGiven(v) /\ IsGiven(w)
  <2>1. First(given) = 2
    BY <1>3, <1>4, <1>6
  <2>2. QED
    BY <1>1, <1>2, <1>3, <1>6, <2>1
<1>7. CASE ~ IsGiven(v) /\ ~ IsGiven(w)
  <2>1. given = {}
    BY <1>3, <1>7
  <2>2. QED
    BY <1>1, <1>7, <2>1
<1>8. QED
  BY <1>5, <1>6, <1>7

-----------------------------------------------------------------------------
(* The first element of a kind.                                             *)

\* The positions in a sequence of the elements in a set.
Where(s, T) == {i \in DOMAIN s : s[i] \in T}

LEMMA WhereIs ==
  ASSUME NEW S, NEW s \in Seq(S), NEW T
  PROVE  /\ Where(s, T) \in SUBSET Nat
         /\ \A i : i \in Where(s, T) <=> i \in DOMAIN s /\ s[i] \in T
         /\ Where(s, T) # {} =>
              /\ First(Where(s, T)) \in Where(s, T)
              /\ \A i \in Where(s, T) : First(Where(s, T)) <= i
<1>1. DOMAIN s \in SUBSET Nat
  OBVIOUS
<1>2. Where(s, T) \in SUBSET Nat /\ \A i : i \in Where(s, T) <=> i \in DOMAIN s /\ s[i] \in T
  BY <1>1 DEF Where
<1>3. QED
  BY <1>2, FirstIs

\* If the first element of a kind is kept, it is still the first.
LEMMA KeepFirst ==
  ASSUME NEW S, NEW s \in Seq(S), NEW P \in SUBSET (DOMAIN s), NEW T,
         Where(s, T) # {} => First(Where(s, T)) \in P
  PROVE  /\ Where(s, T) = {} <=> Where(Keep(s, P), T) = {}
         /\ Where(s, T) # {} =>
              Keep(s, P)[First(Where(Keep(s, P), T))] = s[First(Where(s, T))]
<1> DEFINE W == Where(s, T)
           V == Where(Keep(s, P), T)
<1>1. PICK m \in Nat : \E order \in [1..m -> P] :
           /\ Rises(order, m)
           /\ \A i \in P : \E k \in 1..m : order[k] = i
           /\ Keep(s, P) = [k \in 1..m |-> s[order[k]]]
           /\ Keep(s, P) \in Seq(S)
  BY KeepIs, Zenon
<1>2. PICK order \in [1..m -> P] :
           /\ Rises(order, m)
           /\ \A i \in P : \E k \in 1..m : order[k] = i
           /\ Keep(s, P) = [k \in 1..m |-> s[order[k]]]
           /\ Keep(s, P) \in Seq(S)
  BY <1>1
<1>3. /\ W \in SUBSET Nat
      /\ \A i : i \in W <=> i \in DOMAIN s /\ s[i] \in T
      /\ W # {} => First(W) \in W /\ \A i \in W : First(W) <= i
  BY WhereIs
<1>4. /\ V \in SUBSET Nat
      /\ \A k : k \in V <=> k \in DOMAIN Keep(s, P) /\ Keep(s, P)[k] \in T
      /\ V # {} => First(V) \in V /\ \A k \in V : First(V) <= k
  BY <1>2, WhereIs
<1>5. W # {} => First(W) \in P
  OBVIOUS
<1> HIDE DEF W, V
<1>6. V \in SUBSET (1..m) /\ \A k \in 1..m : k \in V <=> order[k] \in W
  <2>1. DOMAIN Keep(s, P) = 1..m /\ \A k \in 1..m : Keep(s, P)[k] = s[order[k]]
    BY <1>2
  <2>2. \A k \in 1..m : order[k] \in DOMAIN s
    BY <1>2
  <2>3. QED
    BY <1>3, <1>4, <2>1, <2>2
<1>7. CASE W = {}
  BY <1>6, <1>7 DEF W, V
<1>8. CASE W # {}
  <2> DEFINE i == First(W)
  <2>1. i \in W /\ \A j \in W : i <= j
    BY <1>3, <1>8
  <2>2. PICK k \in 1..m : order[k] = i
    BY <1>2, <1>5, <1>8
  <2>3. k \in V
    BY <1>6, <2>1, <2>2
  <2>4. ASSUME NEW l \in V PROVE k <= l
    <3>1. l \in 1..m /\ order[l] \in W
      BY <1>6
    <3>2. order[k] <= order[l]
      BY <2>1, <2>2, <3>1
    <3>3. ~ (l < k)
      <4>1. SUFFICES ASSUME l < k PROVE FALSE
        OBVIOUS
      <4>2. order[l] < order[k] /\ order[l] \in Nat /\ order[k] \in Nat
        BY <1>2, <1>3, <2>1, <2>2, <3>1, <4>1 DEF Rises
      <4>3. QED
        BY <3>2, <4>2
    <3>4. QED
      BY <3>1, <3>3
  <2>5. First(V) = k
    <3>1. First(V) \in V /\ First(V) <= k
      BY <1>4, <2>3
    <3>2. k <= First(V) /\ First(V) \in 1..m
      BY <1>6, <2>4, <3>1
    <3>3. QED
      BY <3>1, <3>2
  <2>6. Keep(s, P)[k] = s[i]
    BY <1>2, <2>2
  <2>7. QED
    BY <1>8, <2>3, <2>5, <2>6 DEF W, V
<1>9. QED
  BY <1>7, <1>8

\* What is skipped as being of another type is not the first of anything.
LEMMA ElementsFirst ==
  ASSUME NEW S, Odd \notin S, NEW array \in OrOdd(Seq(OrOdd(S))), NEW T \in SUBSET S
  PROVE  /\ Where(Read(array, <<>>), T) = {} <=> Where(Elements(array), T) = {}
         /\ Where(Read(array, <<>>), T) # {} =>
              Elements(array)[First(Where(Elements(array), T))]
                = Read(array, <<>>)[First(Where(Read(array, <<>>), T))]
<1> DEFINE values == Read(array, <<>>)
           P == {i \in DOMAIN values : values[i] # Odd}
<1>1. values \in Seq(OrOdd(S))
  BY DEF Read, OrOdd
<1>2. Elements(array) = Keep(values, P)
  BY DEF Elements
<1>3. P \in SUBSET (DOMAIN values)
  OBVIOUS
<1>4. Where(values, T) \subseteq P
  BY DEF Where
<1> HIDE DEF values, P
<1>5. Where(values, T) # {} => First(Where(values, T)) \in P
  BY <1>1, <1>4, WhereIs
<1>6. /\ Where(values, T) = {} <=> Where(Keep(values, P), T) = {}
      /\ Where(values, T) # {} =>
           Keep(values, P)[First(Where(Keep(values, P), T))] = values[First(Where(values, T))]
  BY <1>1, <1>3, <1>5, KeepFirst
<1>7. QED
  BY <1>2, <1>6 DEF values

\* The profiles of one application.
Owned(base) == {profile \in RawProfile : profile.executable.base = base}

\* The profile that is left of an application is the first it had.
LEMMA NormalizedFirst ==
  ASSUME NEW profiles \in Seq(RawProfile), NEW base \in Nat \ {0}
  PROVE  /\ Where(profiles, Owned(base)) = {}
              <=> Where(NormalizedProfiles(profiles), Owned(base)) = {}
         /\ Where(profiles, Owned(base)) # {} =>
              NormalizedProfiles(profiles)[First(Where(NormalizedProfiles(profiles), Owned(base)))]
                = NormalizedProfile(profiles[First(Where(profiles, Owned(base)))])
<1> DEFINE normal == Normals(profiles)
           P == Kept(profiles)
           W == Where(profiles, Owned(base))
<1>1. DOMAIN profiles = 1..Len(profiles) /\ Len(profiles) \in Nat
      /\ \A i \in DOMAIN profiles : profiles[i] \in RawProfile
  OBVIOUS
<1>2. DOMAIN normal = DOMAIN profiles /\ P \in SUBSET (DOMAIN normal)
      /\ \A i \in DOMAIN profiles : normal[i] = NormalizedProfile(profiles[i])
  BY DEF Normals, Kept
<1>3. P = {i \in DOMAIN profiles : normal[i].executable # NoKey
             /\ \A j \in 1..(i - 1) : normal[j].executable # normal[i].executable}
  BY DEF Kept
<1>4. NormalizedProfiles(profiles) = Keep(normal, P)
  BY NormalizedProfilesIs
<1> HIDE DEF normal, P
<1>5. ASSUME NEW i \in DOMAIN profiles
      PROVE  /\ normal[i] \in RawProfile
             /\ normal[i].executable = Key(profiles[i].executable.base)
             /\ normal[i].executable.base = profiles[i].executable.base
  <2>1. normal[i] = [profiles[i] EXCEPT !.executable = Key(profiles[i].executable.base)]
        /\ profiles[i] \in RawProfile /\ profiles[i].executable.base \in Nat
    BY <1>1, <1>2, ProfileNormalized
  <2> DEFINE key == Key(profiles[i].executable.base)
  <2>2. key \in AnyName /\ key.base = profiles[i].executable.base
    BY <2>1 DEF Key, AnyName, Spelling
  <2> HIDE DEF key
  <2>3. normal[i] \in RawProfile /\ normal[i].executable = key
    BY <2>1, <2>2 DEF RawProfile, key
  <2>4. QED
    BY <2>2, <2>3 DEF key
<1>6. normal \in Seq(RawProfile)
  <2>1. normal \in [1..Len(profiles) -> RawProfile]
    <3>1. \A i \in 1..Len(profiles) : normal[i] \in RawProfile
      BY <1>1, <1>5
    <3>2. QED
      BY <1>1, <3>1 DEF normal, Normals
  <2>2. QED
    BY <1>1, <2>1
<1>7. Where(normal, Owned(base)) = W
  <2>1. \A i \in DOMAIN profiles : normal[i] \in Owned(base) <=> profiles[i] \in Owned(base)
    BY <1>1, <1>5 DEF Owned
  <2>2. QED
    BY <1>2, <2>1 DEF Where
<1>8. /\ W \in SUBSET Nat
      /\ \A i : i \in W <=> i \in DOMAIN profiles /\ profiles[i] \in Owned(base)
      /\ W # {} => First(W) \in W /\ \A i \in W : First(W) <= i
  BY WhereIs
<1> HIDE DEF W
<1>9. ASSUME W # {} PROVE First(W) \in P
  <2>1. First(W) \in DOMAIN profiles /\ First(W) \in Nat
        /\ profiles[First(W)].executable.base = base
    BY <1>8, <1>9 DEF Owned
  <2>2. normal[First(W)].executable = Key(base) /\ Key(base) # NoKey
    BY <1>5, <2>1, KeysDiffer DEF NoKey
  <2>3. ASSUME NEW j \in 1..(First(W) - 1)
        PROVE  normal[j].executable # normal[First(W)].executable
    <3>1. j \in DOMAIN profiles /\ ~ (First(W) <= j)
      BY <1>1, <2>1
    <3>2. profiles[j].executable.base # base
      BY <1>1, <1>8, <1>9, <3>1 DEF Owned
    <3>3. normal[j].executable = Key(profiles[j].executable.base)
      BY <1>5, <3>1
    <3>4. QED
      BY <2>2, <3>2, <3>3, KeysDiffer, Zenon
  <2>4. QED
    BY <1>3, <2>1, <2>2, <2>3
<1>10. /\ W = {} <=> Where(Keep(normal, P), Owned(base)) = {}
       /\ W # {} => Keep(normal, P)[First(Where(Keep(normal, P), Owned(base)))] = normal[First(W)]
  <2>1. Where(normal, Owned(base)) # {} => First(Where(normal, Owned(base))) \in P
    BY <1>7, <1>9
  <2>2. QED
    BY <1>2, <1>6, <1>7, <2>1, KeepFirst
<1>11. W # {} => First(W) \in DOMAIN profiles
  BY <1>8
<1>12. QED
  BY <1>2, <1>4, <1>10, <1>11 DEF W

-----------------------------------------------------------------------------
(* The rules of an application, in the document and in what is read from it.  *)

LEMMA ParsedIs ==
  ASSUME NEW document \in AnyDocument
  PROVE  LET s == ParseSettings(document)
             raw == Raw(document)
         IN /\ raw \in RawSettings /\ Normal(s)
            /\ s.enabled = raw.enabled /\ s.motion = raw.motion
            /\ s.excluded_apps = NormalizedExcluded(raw.excluded_apps)
            /\ s.profiles = NormalizedProfiles(raw.profiles)
<1>1. Raw(document) \in RawSettings
  BY RawIs
<1>2. ParseSettings(document) =
           [enabled |-> Raw(document).enabled, motion |-> Raw(document).motion,
            start_with_windows |-> Raw(document).start_with_windows,
            ui_language |-> NormalizeUiLanguage(Raw(document).ui_language),
            excluded_apps |-> NormalizedExcluded(Raw(document).excluded_apps),
            profiles |-> NormalizedProfiles(Raw(document).profiles)]
  BY <1>1, CollectionIs, ParseIs
<1>3. Normal(ParseSettings(document))
  BY ParsedNormal
<1>4. QED
  BY <1>1, <1>2, <1>3

LEMMA RawMembers ==
  ASSUME NEW document \in AnyDocument
  PROVE  /\ Raw(document).enabled = IF document.enabled = FALSE THEN FALSE ELSE TRUE
         /\ Raw(document).motion = Motion(document)
         /\ Raw(document).excluded_apps = Elements(document.excluded_apps)
         /\ Raw(document).profiles = ReadProfiles(Elements(document.profiles), Motion(document))
<1>1. Read(document.enabled, TRUE) = IF document.enabled = FALSE THEN FALSE ELSE TRUE
  <2>1. document.enabled \in OrOdd(BOOLEAN)
    BY MembersIs
  <2>2. Odd # FALSE
    BY OddAssumption DEF OddAssumption
  <2>3. CASE document.enabled = Odd
    BY <2>2, <2>3 DEF Read
  <2>4. CASE document.enabled \in BOOLEAN
    <3>1. document.enabled # Odd
      BY <2>4, OddAssumption DEF OddAssumption
    <3>2. Read(document.enabled, TRUE) = document.enabled
      BY <3>1 DEF Read
    <3>3. QED
      BY <2>4, <3>2
  <2>5. QED
    BY <2>1, <2>3, <2>4 DEF OrOdd
<1>2. Raw(document).enabled = Read(document.enabled, TRUE)
  BY DefaultMotion DEF Raw
<1>3. QED
  BY <1>1, <1>2 DEF Raw

\* The executables named in an array, whatever else is in it.
NamesKey(array, base) ==
  \E i \in DOMAIN Read(array, <<>>) :
    Read(array, <<>>)[i] # Odd /\ Read(array, <<>>)[i].base = base

LEMMA ExcludedIs ==
  ASSUME NEW array \in OrOdd(Seq(OrOdd(AnyName))), NEW base \in Nat \ {0}
  PROVE  Key(base) \in Range(NormalizedExcluded(Elements(array))) <=> NamesKey(array, base)
<1> DEFINE T == {name \in AnyName : name.base = base}
           names == Elements(array)
           values == Read(array, <<>>)
<1>1. names \in Seq(AnyName)
  BY ElementsIs
<1>2. Range(NormalizedExcluded(names)) = {Key(names[i].base) : i \in DOMAIN names} \ {NoKey}
  BY <1>1, ExcludedNormalized
<1>3. Key(base) # NoKey
  BY KeysDiffer DEF NoKey
<1>4. Key(base) \in Range(NormalizedExcluded(names)) <=> Where(names, T) # {}
  <2>1. \A i \in DOMAIN names : names[i] \in AnyName
    BY <1>1
  <2> HIDE DEF names
  <2>2. Key(base) \in Range(NormalizedExcluded(names))
          <=> \E i \in DOMAIN names : Key(base) = Key(names[i].base)
    BY <1>2, <1>3
  <2>3. \A i \in DOMAIN names : Key(base) = Key(names[i].base) <=> names[i].base = base
    BY KeysDiffer, Zenon
  <2>4. Where(names, T) # {} <=> \E i \in DOMAIN names : names[i].base = base
    BY <2>1 DEF Where
  <2>5. QED
    BY <2>2, <2>3, <2>4
<1>5. Where(names, T) = {} <=> Where(values, T) = {}
  <2>1. Odd \notin AnyName
    BY OddAssumption DEF OddAssumption
  <2>2. T \in SUBSET AnyName
    OBVIOUS
  <2> HIDE DEF T
  <2>3. QED
    BY <2>1, <2>2, ElementsFirst
<1>6. NamesKey(array, base) <=> Where(values, T) # {}
  <2>1. values \in Seq(OrOdd(AnyName))
    BY DEF Read, OrOdd
  <2>2. \A i \in DOMAIN values : values[i] \in OrOdd(AnyName)
    BY <2>1
  <2>3. Odd \notin AnyName
    BY OddAssumption DEF OddAssumption
  <2>4. \A i \in DOMAIN values : values[i] \in T <=> values[i] # Odd /\ values[i].base = base
    BY <2>2, <2>3 DEF OrOdd
  <2> HIDE DEF T
  <2>5. QED
    BY <2>4 DEF Where, NamesKey
<1>7. QED
  BY <1>4, <1>5, <1>6

\* The profiles a document has for a key.
RuleOf(base) ==
  {profile \in AnyProfile : profile.executable # Odd /\ profile.executable.base = base}

LEMMA ProfileOfRule ==
  ASSUME NEW profile \in AnyProfile, NEW motion \in NormalMotion, NEW base \in Nat \ {0}
  PROVE  ReadProfile(profile, motion) \in Owned(base) <=> profile \in RuleOf(base)
<1>1. ReadProfile(profile, motion) \in RawProfile
  BY ReadProfileIs
<1>2. ReadProfile(profile, motion).executable = Read(profile.executable, NoKey)
  BY DEF ReadProfile
<1>3. NoKey.base = 0
  BY DEF NoKey, Key
<1>4. QED
  BY <1>1, <1>2, <1>3 DEF Owned, RuleOf, Read

\* The first rule of the document is the application's profile in the settings.
LEMMA RuleIs ==
  ASSUME NEW array \in OrOdd(Seq(OrOdd(AnyProfile))), NEW motion \in NormalMotion,
         NEW base \in Nat \ {0}
  PROVE  LET profiles == NormalizedProfiles(ReadProfiles(Elements(array), motion))
             values == Read(array, <<>>)
         IN /\ Where(values, RuleOf(base)) = {} <=> Where(profiles, Owned(base)) = {}
            /\ Where(values, RuleOf(base)) # {} =>
                 /\ values[First(Where(values, RuleOf(base)))] \in RuleOf(base)
                 /\ profiles[First(Where(profiles, Owned(base)))] =
                      NormalizedProfile(ReadProfile(values[First(Where(values, RuleOf(base)))], motion))
<1> DEFINE elements == Elements(array)
           read == ReadProfiles(elements, motion)
           profiles == NormalizedProfiles(read)
           values == Read(array, <<>>)
           W == Where(elements, RuleOf(base))
<1>1. elements \in Seq(AnyProfile)
  BY ElementsIs
<1>2. read \in Seq(RawProfile)
  BY <1>1, ReadProfilesIs
<1>3. /\ Where(values, RuleOf(base)) = {} <=> W = {}
      /\ Where(values, RuleOf(base)) # {} => elements[First(W)] = values[First(Where(values, RuleOf(base)))]
  <2>1. Odd \notin AnyProfile
    BY OddAssumption DEF OddAssumption
  <2>2. RuleOf(base) \in SUBSET AnyProfile
    BY DEF RuleOf
  <2>3. QED
    BY <2>1, <2>2, ElementsFirst
<1>4. Where(read, Owned(base)) = W
  <2>1. \A i \in DOMAIN elements : elements[i] \in AnyProfile
    BY <1>1
  <2>2. DOMAIN read = DOMAIN elements
        /\ \A i \in DOMAIN elements : read[i] = ReadProfile(elements[i], motion)
    BY DEF ReadProfiles
  <2> HIDE DEF elements, read
  <2>3. \A i \in DOMAIN elements : read[i] \in Owned(base) <=> elements[i] \in RuleOf(base)
    BY <2>1, <2>2, ProfileOfRule
  <2>4. QED
    BY <2>2, <2>3 DEF Where
<1>5. /\ Where(read, Owned(base)) = {} <=> Where(profiles, Owned(base)) = {}
      /\ Where(read, Owned(base)) # {} =>
           profiles[First(Where(profiles, Owned(base)))]
             = NormalizedProfile(read[First(Where(read, Owned(base)))])
  <2> HIDE DEF read
  <2>1. QED
    BY <1>2, NormalizedFirst
<1>6. W # {} => /\ First(W) \in DOMAIN elements
                /\ elements[First(W)] \in RuleOf(base)
  <2> HIDE DEF elements
  <2>1. QED
    BY <1>1, WhereIs
<1>7. \A i \in DOMAIN elements : read[i] = ReadProfile(elements[i], motion)
  BY DEF ReadProfiles
<1> HIDE DEF elements, read, profiles, values, W
<1>8. /\ Where(values, RuleOf(base)) = {} <=> Where(profiles, Owned(base)) = {}
      /\ Where(values, RuleOf(base)) # {} =>
           /\ values[First(Where(values, RuleOf(base)))] \in RuleOf(base)
           /\ profiles[First(Where(profiles, Owned(base)))] =
                NormalizedProfile(ReadProfile(values[First(Where(values, RuleOf(base)))], motion))
  BY <1>3, <1>4, <1>5, <1>6, <1>7
<1>9. QED
  BY <1>8, Zenon DEF elements, read, profiles, values

-----------------------------------------------------------------------------
(* The policy, case by case.                                                *)

LEMMA ExcludedDone ==
  ASSUME NEW s, NEW name, NormalizeExecutableKey(name) \in Range(s.excluded_apps)
  PROVE  Done(s, name) = 0
BY DEF Done, ResolveAppPolicy, PassThrough

LEMMA OffDone ==
  ASSUME NEW s, NEW name, s.enabled = FALSE
  PROVE  Done(s, name) = 0
<1>1. ResolveAppPolicy(s, name).smooth_enabled = FALSE
  BY DEF ResolveAppPolicy, PassThrough, ProfilePolicy, GlobalPolicy
<1>2. QED
  BY <1>1 DEF Done

LEMMA GlobalDone ==
  ASSUME NEW s, Normal(s), NEW name,
         NormalizeExecutableKey(name) \notin Range(s.excluded_apps),
         ProfilesOf(s, NormalizeExecutableKey(name)) = {}, s.enabled = TRUE
  PROVE  Done(s, name) = s.motion.scale
<1>1. s.motion \in NormalMotion
  BY NormalIs
<1>2. s.motion \in [scale : Int, easing : BOOLEAN]
  BY <1>1 DEF NormalMotion
<1>3. NormalizeMotionSettings(s.motion) = s.motion
  BY <1>1, <1>2, MotionNormalized
<1>4. ResolveAppPolicy(s, name) = GlobalPolicy(s)
  BY Zenon DEF ResolveAppPolicy
<1>5. QED
  BY <1>3, <1>4 DEF Done, GlobalPolicy

LEMMA ProfileDone ==
  ASSUME NEW s, Normal(s), NEW name,
         NormalizeExecutableKey(name) \notin Range(s.excluded_apps),
         ProfilesOf(s, NormalizeExecutableKey(name)) # {}, s.enabled = TRUE,
         NEW profile \in NormalProfile,
         profile = s.profiles[First(ProfilesOf(s, NormalizeExecutableKey(name)))]
  PROVE  Done(s, name) =
           IF profile.enabled /\ ~ profile.compatibility_mode THEN profile.motion.scale ELSE 0
<1>1. profile.motion \in NormalMotion /\ profile.enabled \in BOOLEAN
      /\ profile.compatibility_mode \in BOOLEAN
  BY DEF NormalProfile
<1>2. profile.motion \in [scale : Int, easing : BOOLEAN]
  BY <1>1 DEF NormalMotion
<1>3. NormalizeMotionSettings(profile.motion) = profile.motion
  BY <1>1, <1>2, MotionNormalized
<1>4. ResolveAppPolicy(s, name) = ProfilePolicy(s, profile)
  BY Zenon DEF ResolveAppPolicy
<1>5. ProfilePolicy(s, profile).motion = profile.motion
  BY <1>3 DEF ProfilePolicy
<1>6. ProfilePolicy(s, profile).smooth_enabled
        = (s.enabled /\ profile.enabled /\ ~ profile.compatibility_mode)
  BY DEF ProfilePolicy
<1>7. CASE profile.enabled /\ ~ profile.compatibility_mode
  <2>1. ProfilePolicy(s, profile).smooth_enabled = TRUE
    BY <1>6, <1>7
  <2>2. QED
    BY <1>4, <1>5, <1>7, <2>1 DEF Done
<1>8. CASE ~ (profile.enabled /\ ~ profile.compatibility_mode)
  <2>1. ProfilePolicy(s, profile).smooth_enabled = FALSE
    BY <1>6, <1>8
  <2>2. QED
    BY <1>4, <1>8, <2>1 DEF Done
<1>9. QED
  BY <1>7, <1>8

LEMMA ProfilesOfKey ==
  ASSUME NEW s, Normal(s), NEW base \in Nat
  PROVE  ProfilesOf(s, Key(base)) = Where(s.profiles, Owned(base))
<1>1. s.profiles \in Seq(NormalProfile)
  BY NormalIs
<1>2. \A i \in DOMAIN s.profiles : s.profiles[i] \in NormalProfile
  BY <1>1
<1>3. ASSUME NEW i \in DOMAIN s.profiles
      PROVE  NormalizeExecutableKey(s.profiles[i].executable) = Key(base)
               <=> s.profiles[i] \in Owned(base)
  <2>1. s.profiles[i] \in RawProfile
    BY <1>2, NormalProfileIs
  <2>2. s.profiles[i].executable \in AnyName
    BY <2>1 DEF RawProfile
  <2>3. NormalizeExecutableKey(s.profiles[i].executable) = Key(s.profiles[i].executable.base)
    BY <2>2, KeyNormalized
  <2>4. Key(s.profiles[i].executable.base) = Key(base) <=> s.profiles[i].executable.base = base
    BY KeysDiffer, Zenon
  <2>5. QED
    BY <2>1, <2>3, <2>4 DEF Owned
<1>4. QED
  BY <1>3 DEF ProfilesOf, Where

\* What a document asks of an application, case by case.
LEMMA AskedIs ==
  ASSUME NEW document \in AnyDocument, NEW name \in AnyName
  PROVE  LET values == Read(document.profiles, <<>>)
             rules == Where(values, RuleOf(name.base))
             rule == values[First(rules)]
         IN Asked(document, name) =
              IF document.enabled = FALSE \/ NamesKey(document.excluded_apps, name.base) THEN 0
              ELSE IF rules = {} THEN Nearest(FirstGiven(<<document.motion>>))
              ELSE IF rule.compatibility_mode = TRUE \/ rule.enabled = FALSE THEN 0
              ELSE Nearest(FirstGiven(<<rule.motion, document.motion>>))
<1> DEFINE values == Read(document.profiles, <<>>)
<1>1. values \in Seq(OrOdd(AnyProfile))
  BY MembersIs DEF Read, OrOdd
<1>2. \A i \in DOMAIN values : values[i] \in OrOdd(AnyProfile)
  BY <1>1
<1>3. Odd \notin AnyProfile
  BY OddAssumption DEF OddAssumption
<1> HIDE DEF values
<1>4. {i \in DOMAIN values : values[i] # Odd /\ Same(values[i].executable, name)}
        = Where(values, RuleOf(name.base))
  BY <1>2, <1>3 DEF Same, RuleOf, Where, OrOdd
<1>5. (\E i \in DOMAIN Read(document.excluded_apps, <<>>) :
         Same(Read(document.excluded_apps, <<>>)[i], name))
        <=> NamesKey(document.excluded_apps, name.base)
  BY Zenon DEF Same, NamesKey
<1> DEFINE rules == {i \in DOMAIN values : values[i] # Odd /\ Same(values[i].executable, name)}
<1>6. Asked(document, name) =
        IF \/ document.enabled = FALSE
           \/ \E i \in DOMAIN Read(document.excluded_apps, <<>>) :
                Same(Read(document.excluded_apps, <<>>)[i], name)
        THEN 0
        ELSE IF rules = {} THEN Nearest(FirstGiven(<<document.motion>>))
        ELSE IF values[First(rules)].compatibility_mode = TRUE \/ values[First(rules)].enabled = FALSE
        THEN 0
        ELSE Nearest(FirstGiven(<<values[First(rules)].motion, document.motion>>))
  BY Zenon DEF Asked, values
<1>7. rules = Where(values, RuleOf(name.base))
  BY <1>4
<1> HIDE DEF rules
<1>8. QED
  BY <1>5, <1>6, <1>7, Zenon DEF values

\* The cases of the reference against the cases of ResolveAppPolicy.
LEMMA AcceptedIsDone ==
  ASSUME NEW document \in AnyDocument, NEW name \in AnyName, name.base # 0
  PROVE  Done(ParseSettings(document), name) = Asked(document, name)
<1> DEFINE s == ParseSettings(document)
           base == name.base
           key == NormalizeExecutableKey(name)
           values == Read(document.profiles, <<>>)
           W == Where(values, RuleOf(base))
           rule == values[First(W)]
           V == Where(s.profiles, Owned(base))
           motion == Motion(document)
           given == FirstGiven(<<document.motion>>)
<1>1. base \in Nat \ {0} /\ key = Key(base)
  BY KeyNormalized
<1>2. /\ Raw(document) \in RawSettings /\ Normal(s)
      /\ s.enabled = Raw(document).enabled /\ s.motion = Raw(document).motion
      /\ s.excluded_apps = NormalizedExcluded(Raw(document).excluded_apps)
      /\ s.profiles = NormalizedProfiles(Raw(document).profiles)
  BY ParsedIs, Zenon
<1>3. /\ s.enabled = IF document.enabled = FALSE THEN FALSE ELSE TRUE
      /\ s.motion = motion
      /\ s.excluded_apps = NormalizedExcluded(Elements(document.excluded_apps))
      /\ s.profiles = NormalizedProfiles(ReadProfiles(Elements(document.profiles), motion))
  BY <1>2, RawMembers, Zenon
<1>4. motion \in NormalMotion /\ document.motion \in OrOdd(AnyMotion)
  BY RawIs, MembersIs
<1>5. key \in Range(s.excluded_apps) <=> NamesKey(document.excluded_apps, base)
  <2>1. document.excluded_apps \in OrOdd(Seq(OrOdd(AnyName)))
    BY MembersIs
  <2>2. QED
    BY <1>1, <1>3, <2>1, ExcludedIs
<1>6. /\ W = {} <=> V = {}
      /\ W # {} => /\ rule \in RuleOf(base)
                   /\ s.profiles[First(V)] = NormalizedProfile(ReadProfile(rule, motion))
  <2>1. document.profiles \in OrOdd(Seq(OrOdd(AnyProfile)))
    BY MembersIs
  <2>2. /\ W = {} <=> Where(NormalizedProfiles(ReadProfiles(Elements(document.profiles), motion)), Owned(base)) = {}
        /\ W # {} =>
             /\ rule \in RuleOf(base)
             /\ NormalizedProfiles(ReadProfiles(Elements(document.profiles), motion))
                  [First(Where(NormalizedProfiles(ReadProfiles(Elements(document.profiles), motion)), Owned(base)))]
                  = NormalizedProfile(ReadProfile(rule, motion))
    BY <1>1, <1>4, <2>1, RuleIs
  <2>3. QED
    BY <1>3, <2>2, Zenon
<1>7. Asked(document, name) =
        IF document.enabled = FALSE \/ NamesKey(document.excluded_apps, base) THEN 0
        ELSE IF W = {} THEN Nearest(given)
        ELSE IF rule.compatibility_mode = TRUE \/ rule.enabled = FALSE THEN 0
        ELSE Nearest(FirstGiven(<<rule.motion, document.motion>>))
  BY AskedIs, Zenon
<1>8. ProfilesOf(s, key) = V
  BY <1>1, <1>2, ProfilesOfKey
\* The document's own motion.
<1>9. Nearest(given) = motion.scale
  <2>1. given = IF IsGiven(document.motion) THEN document.motion.scale ELSE 10
    BY OneGiven
  <2>2. motion.scale = IF IsGiven(document.motion) THEN Clamp(document.motion.scale) ELSE 10
    <3>1. DefaultSettings.motion.scale = 10
      BY DEF DefaultSettings
    <3>2. QED
      BY <1>4, <3>1, DefaultMotion, ScaleRead DEF Motion, IsGiven
  <2>3. given \in Int /\ Clamp(10) = 10
    BY <1>4, <2>1 DEF IsGiven, OrOdd, AnyMotion, Clamp
  <2> HIDE DEF given, motion
  <2>4. QED
    BY <2>1, <2>2, <2>3, NearestIs
<1> HIDE DEF s, key, values, W, rule, V, motion, given
<1>10. CASE document.enabled = FALSE
  <2>1. Asked(document, name) = 0
    BY <1>7, <1>10
  <2>2. s.enabled = FALSE
    BY <1>3, <1>10
  <2>3. Done(s, name) = 0
    BY <2>2, OffDone
  <2>4. QED
    BY <2>1, <2>3 DEF s
<1>11. CASE NamesKey(document.excluded_apps, base)
  <2>1. Asked(document, name) = 0
    BY <1>7, <1>11
  <2>2. Done(s, name) = 0
    BY <1>5, <1>11, ExcludedDone DEF key
  <2>3. QED
    BY <2>1, <2>2 DEF s
<1>12. CASE document.enabled # FALSE /\ ~ NamesKey(document.excluded_apps, base) /\ W = {}
  <2>1. Asked(document, name) = Nearest(given)
    BY <1>7, <1>12, Zenon
  <2>2. Done(s, name) = s.motion.scale
    BY <1>2, <1>3, <1>5, <1>6, <1>8, <1>12, GlobalDone DEF key
  <2>3. QED
    BY <1>3, <1>9, <2>1, <2>2 DEF s
<1>13. CASE document.enabled # FALSE /\ ~ NamesKey(document.excluded_apps, base) /\ W # {}
  <2> DEFINE profile == s.profiles[First(V)]
             read == ReadProfile(rule, motion)
  <2>1. rule \in AnyProfile /\ rule.executable # Odd
    BY <1>6, <1>13 DEF RuleOf
  <2>2. /\ rule.enabled \in OrOdd(BOOLEAN) /\ rule.compatibility_mode \in OrOdd(BOOLEAN)
        /\ rule.motion \in OrOdd(AnyMotion)
    BY <2>1 DEF AnyProfile
  <2>3. read \in RawProfile
    BY <1>4, <2>1, ReadProfileIs
  <2>4. profile = [read EXCEPT !.executable = Key(read.executable.base)]
    BY <1>6, <1>13, <2>3, ProfileNormalized
  <2>5. /\ profile.enabled = Read(rule.enabled, TRUE)
        /\ profile.compatibility_mode = Read(rule.compatibility_mode, FALSE)
        /\ profile.motion = ReadMotion(rule.motion, motion)
    <3>1. /\ profile.enabled = read.enabled /\ profile.motion = read.motion
          /\ profile.compatibility_mode = read.compatibility_mode
      <4> HIDE DEF profile, read
      <4>1. QED
        BY <2>3, <2>4 DEF RawProfile
    <3>2. /\ read.enabled = Read(rule.enabled, TRUE)
          /\ read.compatibility_mode = Read(rule.compatibility_mode, FALSE)
          /\ read.motion = ReadMotion(rule.motion, motion)
      BY DEF ReadProfile
    <3>3. QED
      BY <3>1, <3>2, Zenon
  <2>6. profile \in NormalProfile
    <3>1. s.profiles \in Seq(NormalProfile) /\ First(V) \in DOMAIN s.profiles
      BY <1>2, <1>6, <1>13, NormalIs, WhereIs DEF V
    <3>2. QED
      BY <3>1
  <2> HIDE DEF profile, read
  <2>7. Done(s, name) =
          IF profile.enabled /\ ~ profile.compatibility_mode THEN profile.motion.scale ELSE 0
    BY <1>2, <1>3, <1>5, <1>6, <1>8, <1>13, <2>6, ProfileDone DEF key, profile
  <2>8. profile.enabled /\ ~ profile.compatibility_mode
          <=> ~ (rule.compatibility_mode = TRUE \/ rule.enabled = FALSE)
    <3>1. Odd # TRUE /\ Odd # FALSE
      BY OddAssumption DEF OddAssumption
    <3>2. profile.enabled <=> rule.enabled # FALSE
      BY <2>2, <2>5, <3>1 DEF OrOdd, Read
    <3>3. profile.compatibility_mode <=> rule.compatibility_mode = TRUE
      BY <2>2, <2>5, <3>1 DEF OrOdd, Read
    <3>4. QED
      BY <3>2, <3>3
  <2>9. Nearest(FirstGiven(<<rule.motion, document.motion>>)) = profile.motion.scale
    <3> DEFINE two == FirstGiven(<<rule.motion, document.motion>>)
    <3>1. two = IF IsGiven(rule.motion) THEN rule.motion.scale ELSE given
      BY OneGiven, TwoGiven DEF given
    <3>2. profile.motion.scale = IF IsGiven(rule.motion) THEN Clamp(rule.motion.scale) ELSE motion.scale
      BY <1>4, <2>2, <2>5, ScaleRead DEF IsGiven
    <3>3. IsGiven(rule.motion) => rule.motion.scale \in Int
      BY <2>2 DEF IsGiven, OrOdd, AnyMotion
    <3> HIDE DEF two
    <3>4. QED
      BY <1>9, <3>1, <3>2, <3>3, NearestIs DEF two
  <2>10. QED
    BY <1>7, <1>13, <2>7, <2>8, <2>9, Zenon DEF s
<1>14. QED
  BY <1>10, <1>11, <1>12, <1>13 DEF s

(* AskedIsDone for any documents and names: exclusion before profile before global    *)
(* motion, the first rule of an application, any spelling, the nearest number in range *)
(* (docs/architecture.md:42; settings.cpp:62, 238).                                   *)
THEOREM RulesAreFollowed == Spec => []AskedIsDone
<1>1. IInv => AskedIsDone
  <2> SUFFICES ASSUME IInv, Accepted(file), NEW name \in Name, name.base # 0
               PROVE  Done(ParseSettings(file), name) = Asked(file, name)
    BY DEF AskedIsDone
  <2>1. file \in AnyDocument
    BY DEF IInv, Accepted, OrOdd
  <2>2. name \in AnyName
    BY NameAssumption DEF NameAssumption
  <2>3. QED
    BY <2>1, <2>2, AcceptedIsDone
<1>2. QED
  BY <1>1, Invariance, PTL
=============================================================================
