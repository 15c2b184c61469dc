-------------------------- MODULE CatalogAPIProofs --------------------------
(***************************************************************************)
(* Proofs about CatalogAPI, for every set of cards, ids and requests.      *)
(*                                                                         *)
(* First lists: what FlattenSeq makes of a list of lists, and how many     *)
(* items of a kind it holds.  Then capabilities: those the parsers make    *)
(* are canonical, and a canonical one survives its row, save for a name    *)
(* that was derived.  Then the tables: an agent type was made from the     *)
(* card it is shown with, whoever wrote it last (CatalogInv).              *)
(***************************************************************************)
EXTENDS CatalogAPI, FiniteSetTheorems, WellFoundedInduction, TLAPS

-----------------------------------------------------------------------------
(* Lists *)

\* Induction over the natural numbers, for sets.
LEMMA InductiveSet ==
    ASSUME NEW S \in SUBSET Nat, 0 \in S, \A n \in S : n + 1 \in S
    PROVE  S = Nat
<1>. DEFINE R == OpToRel(<, Nat)
            Bad == Nat \ S
<1>1. SUFFICES ASSUME Bad # {} PROVE FALSE
  OBVIOUS
<1>2. IsWellFoundedOn(R, Nat)
  BY NatLessThanWellFounded
<1>3. PICK x \in Bad : \A y \in Bad : ~(<<y, x>> \in R)
  <2>. HIDE DEF R
  <2>. QED
    BY <1>1, <1>2, WFMin
<1>4. x - 1 \in Nat /\ x - 1 < x /\ x = (x - 1) + 1
  OBVIOUS
<1>5. x - 1 \notin Bad
  BY <1>3, <1>4 DEF OpToRel
<1>. QED
  BY <1>4, <1>5

\* The function that FlattenSeq chooses.
Flattens(f, ss, n) ==
    f = [i \in 1 .. n |-> IF i = 1 THEN ss[i] ELSE f[i - 1] \o ss[i]]

\* There is such a function.
LEMMA FlattenExists ==
    ASSUME NEW ss, NEW n \in Nat
    PROVE  \E f : Flattens(f, ss, n)
<1>. DEFINE S == {m \in Nat : \E f : Flattens(f, ss, m)}
<1>1. 0 \in S
  <2>. DEFINE f == [i \in 1 .. 0 |-> 0]
  <2>1. Flattens(f, ss, 0)
    BY DEF Flattens
  <2>. QED
    BY <2>1
<1>2. ASSUME NEW m \in S
      PROVE  m + 1 \in S
  <2>1. PICK f : Flattens(f, ss, m)
    OBVIOUS
  <2>. DEFINE g == [i \in 1 .. m + 1 |->
                      IF i = 1 THEN ss[i] ELSE f[i - 1] \o ss[i]]
  <2>2. ASSUME NEW i \in 1 .. m
        PROVE  g[i] = f[i]
    <3>1. f[i] = IF i = 1 THEN ss[i] ELSE f[i - 1] \o ss[i]
      BY <2>1, Zenon DEF Flattens
    <3>2. i \in 1 .. m + 1
      BY <1>2
    <3>3. g[i] = IF i = 1 THEN ss[i] ELSE f[i - 1] \o ss[i]
      BY <3>2, Zenon
    <3>. QED
      BY <3>1, <3>3, Zenon
  <2>3. ASSUME NEW i \in 1 .. m + 1, i # 1
        PROVE  g[i - 1] = f[i - 1]
    <3>1. i - 1 \in 1 .. m
      BY <1>2, <2>3
    <3>. HIDE DEF g
    <3>. QED
      BY <2>2, <3>1
  <2>4. Flattens(g, ss, m + 1)
    <3>1. ASSUME NEW i \in 1 .. m + 1
          PROVE  (IF i = 1 THEN ss[i] ELSE f[i - 1] \o ss[i])
                    = (IF i = 1 THEN ss[i] ELSE g[i - 1] \o ss[i])
      <4>. HIDE DEF g
      <4>. QED
        BY <2>3, Zenon
    <3>. DEFINE h == [i \in 1 .. m + 1 |-> IF i = 1 THEN ss[i] ELSE g[i - 1] \o ss[i]]
    <3>2. g = h
      BY <3>1, Zenon
    <3>. QED
      BY <3>2, Zenon DEF Flattens
  <2>. QED
    BY <2>4
<1>3. S = Nat
  <2>. HIDE DEF S
  <2>1. S \in SUBSET Nat
    BY DEF S
  <2>. QED
    BY <1>1, <1>2, <2>1, InductiveSet
<1>. QED
  BY <1>3

\* FlattenSeq of a list that is not empty is the last value of that function.
LEMMA FlattenIs ==
    ASSUME NEW ss, Len(ss) \in Nat, Len(ss) # 0
    PROVE  \E f : Flattens(f, ss, Len(ss)) /\ FlattenSeq(ss) = f[Len(ss)]
<1>. DEFINE flatten[i \in 1 .. Len(ss)] == IF i = 1 THEN ss[i] ELSE flatten[i - 1] \o ss[i]
<1>1. FlattenSeq(ss) = flatten[Len(ss)]
  BY DEF FlattenSeq
<1>2. \E f : f = [i \in 1 .. Len(ss) |-> IF i = 1 THEN ss[i] ELSE f[i - 1] \o ss[i]]
  BY FlattenExists DEF Flattens
<1>3. flatten = [i \in 1 .. Len(ss) |-> IF i = 1 THEN ss[i] ELSE flatten[i - 1] \o ss[i]]
  BY <1>2, Zenon DEF flatten
<1>. QED
  BY <1>1, <1>3 DEF Flattens

IsList(s) == s \in Seq(ToSet(s))

\* A function whose domain is 1 .. n is a list.
LEMMA ListOf ==
    ASSUME NEW s, NEW n \in Nat, DOMAIN s = 1 .. n, s = [i \in 1 .. n |-> s[i]]
    PROVE  IsList(s) /\ Len(s) = n
<1>1. \A i \in 1 .. n : s[i] \in ToSet(s)
  BY DEF ToSet
<1>2. s \in [1 .. n -> ToSet(s)]
  BY <1>1
<1>. QED
  BY <1>2 DEF IsList

\* What there is to know of a list.
LEMMA ListFacts ==
    ASSUME NEW s, IsList(s)
    PROVE  Len(s) \in Nat /\ DOMAIN s = 1 .. Len(s)
BY DEF IsList

\* Two lists in a row.
LEMMA CatList ==
    ASSUME NEW s, NEW t, IsList(s), IsList(t)
    PROVE  /\ IsList(s \o t)
           /\ Len(s \o t) = Len(s) + Len(t)
           /\ \A i \in 1 .. Len(s) : (s \o t)[i] = s[i]
           /\ \A i \in 1 .. Len(t) : (s \o t)[Len(s) + i] = t[i]
           /\ ToSet(s \o t) \subseteq ToSet(s) \cup ToSet(t)
<1>. DEFINE S == ToSet(s) \cup ToSet(t)
            u == s \o t
<1>1. s \in Seq(S) /\ t \in Seq(S)
  <2>1. s \in Seq(ToSet(s)) /\ t \in Seq(ToSet(t))
    BY DEF IsList
  <2>. HIDE DEF S
  <2>2. ToSet(s) \subseteq S /\ ToSet(t) \subseteq S
    BY DEF S
  <2>. QED
    BY <2>1, <2>2
<1>2. /\ u \in Seq(S)
      /\ Len(u) = Len(s) + Len(t)
      /\ \A i \in 1 .. Len(s) : u[i] = s[i]
      /\ \A i \in 1 .. Len(t) : u[Len(s) + i] = t[i]
  <2>. HIDE DEF S
  <2>. QED
    BY <1>1
<1>3. ToSet(u) \subseteq S
  <2>. HIDE DEF S, u
  <2>. QED
    BY <1>2 DEF ToSet
<1>4. IsList(u)
  <2>. HIDE DEF S, u
  <2>1. Len(u) \in Nat /\ DOMAIN u = 1 .. Len(u) /\ u = [i \in 1 .. Len(u) |-> u[i]]
    BY <1>2
  <2>. QED
    BY <2>1, ListOf
<1>. QED
  BY <1>2, <1>3, <1>4

\* The empty list and that of one element.
LEMMA ShortLists ==
    /\ IsList(<<>>) /\ Len(<<>>) = 0 /\ ToSet(<<>>) = {}
    /\ \A x : IsList(<<x>>) /\ Len(<<x>>) = 1 /\ ToSet(<<x>>) = {x}
<1>1. IsList(<<>>) /\ Len(<<>>) = 0 /\ ToSet(<<>>) = {}
  BY DEF IsList, ToSet
<1>2. ASSUME NEW x
      PROVE  IsList(<<x>>) /\ Len(<<x>>) = 1 /\ ToSet(<<x>>) = {x}
  <2>1. ToSet(<<x>>) = {x}
    BY DEF ToSet
  <2>. QED
    BY <2>1 DEF IsList
<1>. QED
  BY <1>1, <1>2

\* Flattening lists makes a list of their elements.
LEMMA FlattenList ==
    ASSUME NEW ss, IsList(ss), \A i \in DOMAIN ss : IsList(ss[i])
    PROVE  /\ IsList(FlattenSeq(ss))
           /\ \A x \in ToSet(FlattenSeq(ss)) : \E i \in DOMAIN ss : x \in ToSet(ss[i])
<1>1. Len(ss) \in Nat /\ DOMAIN ss = 1 .. Len(ss)
  BY ListFacts
<1>2. CASE Len(ss) = 0
  <2>1. FlattenSeq(ss) = ss
    BY <1>2 DEF FlattenSeq
  <2>. QED
    BY <1>1, <1>2, <2>1 DEF ToSet
<1>3. CASE Len(ss) # 0
  <2>1. PICK f : Flattens(f, ss, Len(ss)) /\ FlattenSeq(ss) = f[Len(ss)]
    BY <1>1, <1>3, FlattenIs
  <2>. DEFINE Ok(i) == /\ IsList(f[i])
                       /\ \A x \in ToSet(f[i]) : \E j \in DOMAIN ss : x \in ToSet(ss[j])
              S == {m \in Nat : m + 1 \in 1 .. Len(ss) => Ok(m + 1)}
  <2>2. 0 \in S
    <3>1. 1 \in 1 .. Len(ss)
      BY <1>1, <1>3
    <3>2. f[1] = ss[1]
      BY <2>1, <3>1, Zenon DEF Flattens
    <3>. QED
      BY <1>1, <3>1, <3>2
  <2>3. ASSUME NEW m \in S
        PROVE  m + 1 \in S
    <3>1. SUFFICES ASSUME (m + 1) + 1 \in 1 .. Len(ss) PROVE Ok((m + 1) + 1)
      OBVIOUS
    <3>2. m + 1 \in 1 .. Len(ss) /\ (m + 1) + 1 # 1 /\ ((m + 1) + 1) - 1 = m + 1
      BY <1>1, <3>1
    <3>3. f[(m + 1) + 1] = f[m + 1] \o ss[(m + 1) + 1]
      <4>1. f[(m + 1) + 1] = f[((m + 1) + 1) - 1] \o ss[(m + 1) + 1]
        BY <2>1, <3>1, <3>2, Zenon DEF Flattens
      <4>. QED
        BY <3>2, <4>1
    <3>4. Ok(m + 1)
      BY <3>2
    <3>5. IsList(ss[(m + 1) + 1])
      BY <1>1, <3>1
    <3>6. /\ IsList(f[m + 1] \o ss[(m + 1) + 1])
          /\ ToSet(f[m + 1] \o ss[(m + 1) + 1]) \subseteq ToSet(f[m + 1]) \cup ToSet(ss[(m + 1) + 1])
      BY <3>4, <3>5, CatList
    <3>. QED
      BY <1>1, <3>1, <3>3, <3>4, <3>6
  <2>4. S = Nat
    <3>. HIDE DEF S
    <3>1. S \in SUBSET Nat
      BY DEF S
    <3>. QED
      BY <2>2, <2>3, <3>1, InductiveSet
  <2>5. Ok(Len(ss))
    <3>1. PICK m \in Nat : Len(ss) = m + 1 /\ m + 1 \in 1 .. Len(ss)
      <4>. DEFINE n == Len(ss)
      <4>1. n \in Nat /\ n # 0
        BY <1>1, <1>3
      <4>. HIDE DEF n
      <4>2. n - 1 \in Nat /\ n = (n - 1) + 1 /\ (n - 1) + 1 \in 1 .. n
        BY <4>1
      <4>. QED
        BY <4>2 DEF n
    <3>2. m \in S
      BY <2>4
    <3>. QED
      BY <3>1, <3>2
  <2>. QED
    BY <2>1, <2>5
<1>. QED
  BY <1>2, <1>3

\* The places of a list where there is a capability of that kind.
Places(s, kind) == {k \in DOMAIN s : s[k].kind = kind}

\* They are finitely many.
LEMMA PlacesFinite ==
    ASSUME NEW s, IsList(s), NEW kind
    PROVE  /\ IsFiniteSet(Places(s, kind))
           /\ CountOfKind(s, kind) = Cardinality(Places(s, kind))
           /\ CountOfKind(s, kind) \in Nat
<1>1. IsFiniteSet(1 .. Len(s))
  BY ListFacts, FS_Interval
<1>2. Places(s, kind) \subseteq 1 .. Len(s)
  BY ListFacts DEF Places
<1>3. IsFiniteSet(Places(s, kind))
  BY <1>1, <1>2, FS_Subset
<1>4. CountOfKind(s, kind) = Cardinality(Places(s, kind))
  BY DEF CountOfKind, Places
<1>. QED
  BY <1>3, <1>4, FS_CardinalityType

\* In two lists in a row, the counts add up.
LEMMA CatCount ==
    ASSUME NEW s, NEW t, IsList(s), IsList(t), NEW kind
    PROVE  CountOfKind(s \o t, kind) = CountOfKind(s, kind) + CountOfKind(t, kind)
<1>. DEFINE u == s \o t
            P == Places(s, kind)
            Q == Places(t, kind)
            R == {k \in Places(u, kind) : k > Len(s)}
<1>1. /\ IsList(u) /\ Len(u) = Len(s) + Len(t)
      /\ \A i \in 1 .. Len(s) : u[i] = s[i]
      /\ \A i \in 1 .. Len(t) : u[Len(s) + i] = t[i]
  BY CatList
<1>2. /\ Len(s) \in Nat /\ DOMAIN s = 1 .. Len(s)
      /\ Len(t) \in Nat /\ DOMAIN t = 1 .. Len(t)
      /\ DOMAIN u = 1 .. Len(u)
  BY <1>1, ListFacts
<1>. HIDE DEF u
<1>3. Places(u, kind) = P \cup R /\ P \cap R = {}
  <2>. DEFINE n == Len(s)
              m == Len(t)
  <2>1. n \in Nat /\ m \in Nat /\ DOMAIN s = 1 .. n /\ DOMAIN u = 1 .. n + m
    BY <1>1, <1>2
  <2>2. \A i \in 1 .. n : u[i] = s[i]
    BY <1>1
  <2>. HIDE DEF n, m
  <2>3. ASSUME NEW k \in Places(u, kind), ~(k > n)
        PROVE  k \in P
    BY <2>1, <2>2, <2>3 DEF Places
  <2>4. ASSUME NEW k \in P
        PROVE  k \in Places(u, kind) /\ ~(k > n)
    BY <2>1, <2>2 DEF Places
  <2>. QED
    BY <2>3, <2>4 DEF n
<1>4. ExistsBijection(Q, R)
  <2>. DEFINE n == Len(s)
              m == Len(t)
              f == [k \in Q |-> n + k]
  <2>1. n \in Nat /\ m \in Nat /\ DOMAIN t = 1 .. m /\ DOMAIN u = 1 .. n + m
    BY <1>1, <1>2
  <2>2. \A i \in 1 .. m : u[n + i] = t[i]
    BY <1>1
  <2>3. R = {k \in Places(u, kind) : k > n}
    OBVIOUS
  <2>. HIDE DEF n, m, R
  <2>4. ASSUME NEW k \in Q
        PROVE  k \in 1 .. m /\ n + k \in R
    BY <2>1, <2>2, <2>3 DEF Places
  <2>5. ASSUME NEW k \in R
        PROVE  k - n \in Q /\ k = n + (k - n)
    <3>1. k \in 1 .. n + m /\ k > n /\ u[k].kind = kind
      BY <2>1, <2>3 DEF Places
    <3>2. k - n \in 1 .. m /\ k = n + (k - n)
      BY <2>1, <3>1
    <3>3. u[k] = t[k - n]
      BY <2>2, <3>2
    <3>. QED
      BY <2>1, <3>1, <3>2, <3>3 DEF Places
  <2>6. f \in [Q -> R]
    BY <2>4
  <2>7. \A a, b \in Q : f[a] = f[b] => a = b
    BY <2>1, <2>4
  <2>8. \A k \in R : \E a \in Q : f[a] = k
    BY <2>5
  <2>9. f \in Bijection(Q, R)
    <3>. HIDE DEF f, Q
    <3>. QED
      BY <2>6, <2>7, <2>8 DEF Bijection, Injection, Surjection, IsInjective
  <2>. QED
    BY <2>9 DEF ExistsBijection
<1>5. IsFiniteSet(P) /\ IsFiniteSet(Q)
  BY PlacesFinite
<1>6. IsFiniteSet(R) /\ Cardinality(R) = Cardinality(Q)
  <2>. HIDE DEF Q, R
  <2>. QED
    BY <1>4, <1>5, FS_Bijection
<1>7. Cardinality(P \cup R) = Cardinality(P) + Cardinality(R) - Cardinality(P \cap R)
  <2>. HIDE DEF P, R
  <2>. QED
    BY <1>5, <1>6, FS_Union
<1>8. Cardinality(P \cap R) = 0
  BY <1>3, FS_EmptySet
<1>9. /\ CountOfKind(u, kind) = Cardinality(P \cup R)
      /\ CountOfKind(s, kind) = Cardinality(P) /\ Cardinality(P) \in Nat
      /\ CountOfKind(t, kind) = Cardinality(Q) /\ Cardinality(Q) \in Nat
  <2>1. CountOfKind(u, kind) = Cardinality(Places(u, kind))
    BY <1>1, PlacesFinite
  <2>2. CountOfKind(s, kind) = Cardinality(P) /\ CountOfKind(s, kind) \in Nat
    BY PlacesFinite
  <2>3. CountOfKind(t, kind) = Cardinality(Q) /\ CountOfKind(t, kind) \in Nat
    BY PlacesFinite
  <2>. QED
    BY <1>3, <2>1, <2>2, <2>3
<1>. HIDE DEF P, Q, R
<1>10. CountOfKind(u, kind) = CountOfKind(s, kind) + CountOfKind(t, kind)
  BY <1>6, <1>7, <1>8, <1>9
<1>. QED
  BY <1>10 DEF u

\* What is not in a list is not counted.
LEMMA CountNone ==
    ASSUME NEW s, NEW kind, \A x \in ToSet(s) : x.kind # kind
    PROVE  CountOfKind(s, kind) = 0
<1>1. {k \in DOMAIN s : s[k].kind = kind} = {}
  BY DEF ToSet
<1>. QED
  BY <1>1, FS_EmptySet DEF CountOfKind

\* A list of nothing else is counted by its length.
LEMMA CountAll ==
    ASSUME NEW s, IsList(s), NEW kind, \A x \in ToSet(s) : x.kind = kind
    PROVE  CountOfKind(s, kind) = Len(s)
<1>1. {k \in DOMAIN s : s[k].kind = kind} = 1 .. Len(s)
  BY ListFacts DEF ToSet
<1>2. Cardinality(1 .. Len(s)) = Len(s)
  <2>. DEFINE n == Len(s)
  <2>1. n \in Nat
    BY ListFacts
  <2>. HIDE DEF n
  <2>2. Cardinality(1 .. n) = n
    BY <2>1, FS_Interval
  <2>. QED
    BY <2>2 DEF n
<1>. QED
  BY <1>1, <1>2 DEF CountOfKind

\* If each list has one capability of a kind, the flattened list has as many as there
\* are lists.
LEMMA FlattenCount ==
    ASSUME NEW ss, IsList(ss), NEW kind,
           \A i \in DOMAIN ss : IsList(ss[i]) /\ CountOfKind(ss[i], kind) = 1
    PROVE  CountOfKind(FlattenSeq(ss), kind) = Len(ss)
<1>1. Len(ss) \in Nat /\ DOMAIN ss = 1 .. Len(ss)
  BY ListFacts
<1>2. CASE Len(ss) = 0
  <2>1. FlattenSeq(ss) = ss
    BY <1>2 DEF FlattenSeq
  <2>2. ToSet(ss) = {}
    BY <1>1, <1>2 DEF ToSet
  <2>. QED
    BY <1>2, <2>1, <2>2, CountNone
<1>3. CASE Len(ss) # 0
  <2>1. PICK f : Flattens(f, ss, Len(ss)) /\ FlattenSeq(ss) = f[Len(ss)]
    BY <1>1, <1>3, FlattenIs
  <2>. DEFINE Ok(i) == IsList(f[i]) /\ CountOfKind(f[i], kind) = i
              S == {m \in Nat : m + 1 \in 1 .. Len(ss) => Ok(m + 1)}
  <2>2. 0 \in S
    <3>1. 1 \in 1 .. Len(ss)
      BY <1>1, <1>3
    <3>2. f[1] = ss[1]
      BY <2>1, <3>1, Zenon DEF Flattens
    <3>. QED
      BY <1>1, <3>1, <3>2
  <2>3. ASSUME NEW m \in S
        PROVE  m + 1 \in S
    <3>1. SUFFICES ASSUME (m + 1) + 1 \in 1 .. Len(ss) PROVE Ok((m + 1) + 1)
      OBVIOUS
    <3>2. m + 1 \in 1 .. Len(ss) /\ (m + 1) + 1 # 1 /\ ((m + 1) + 1) - 1 = m + 1
      BY <1>1, <3>1
    <3>3. f[(m + 1) + 1] = f[m + 1] \o ss[(m + 1) + 1]
      <4>1. f[(m + 1) + 1] = f[((m + 1) + 1) - 1] \o ss[(m + 1) + 1]
        BY <2>1, <3>1, <3>2, Zenon DEF Flattens
      <4>. QED
        BY <3>2, <4>1
    <3>4. Ok(m + 1)
      BY <3>2
    <3>5. IsList(ss[(m + 1) + 1]) /\ CountOfKind(ss[(m + 1) + 1], kind) = 1
      BY <1>1, <3>1
    <3>6. /\ IsList(f[m + 1] \o ss[(m + 1) + 1])
          /\ CountOfKind(f[m + 1] \o ss[(m + 1) + 1], kind)
               = CountOfKind(f[m + 1], kind) + CountOfKind(ss[(m + 1) + 1], kind)
      BY <3>4, <3>5, CatList, CatCount
    <3>. QED
      BY <3>3, <3>4, <3>5, <3>6
  <2>4. S = Nat
    <3>. HIDE DEF S
    <3>1. S \in SUBSET Nat
      BY DEF S
    <3>. QED
      BY <2>2, <2>3, <3>1, InductiveSet
  <2>5. Ok(Len(ss))
    <3>1. PICK m \in Nat : Len(ss) = m + 1 /\ m + 1 \in 1 .. Len(ss)
      <4>. DEFINE n == Len(ss)
      <4>1. n \in Nat /\ n # 0
        BY <1>1, <1>3
      <4>. HIDE DEF n
      <4>2. n - 1 \in Nat /\ n = (n - 1) + 1 /\ (n - 1) + 1 \in 1 .. n
        BY <4>1
      <4>. QED
        BY <4>2 DEF n
    <3>2. m \in S
      BY <2>4
    <3>. QED
      BY <3>1, <3>2
  <2>. QED
    BY <2>1, <2>5
<1>. QED
  BY <1>2, <1>3
-----------------------------------------------------------------------------
(* Capabilities, their rows and back *)

\* A capability as the parsers make it: a name only if its kind has one.
Canonical(cap) ==
    /\ cap = [kind |-> cap.kind, name |-> cap.name, alt |-> cap.alt, detail |-> cap.detail,
              schemes |-> cap.schemes, ref |-> cap.ref]
    /\ cap.kind \in NamedKinds \/ cap.name = NoName

\* What is read back from the row of such a capability: all but perhaps the name is as
\* it was, and a row made of it again is the same row.
LEMMA CapabilityKept ==
    ASSUME NEW cap, Canonical(cap)
    PROVE  LET back == rowToCapability(capabilityToRow(cap))
           IN  /\ capabilityToRow(back) = capabilityToRow(cap)
               /\ back.kind = cap.kind /\ back.detail = cap.detail /\ back.ref = cap.ref
               /\ cap.kind \notin NamedKinds => back = cap
<1>. DEFINE kind == cap.kind
            name == cap.name
            other == FallbackName(cap.alt, cap.schemes, cap.ref)
            With(n) == [kind |-> cap.kind, name |-> n, alt |-> cap.alt, detail |-> cap.detail,
                        schemes |-> cap.schemes, ref |-> cap.ref]
<1>1. cap = With(cap.name)
  BY DEF Canonical
<1>2. \A n : capabilityToRow(With(n)) = With(IF n # NoName THEN n ELSE other)
  BY DEF capabilityToRow, RowName
<1>3. \A n : rowToCapability(With(n)) = With(IF cap.kind \in NamedKinds THEN n ELSE NoName)
  BY DEF rowToCapability
<1>4. cap.kind \in NamedKinds \/ cap.name = NoName
  BY DEF Canonical
<1>5. /\ \A n : /\ With(n).kind = cap.kind
               /\ With(n).detail = cap.detail /\ With(n).ref = cap.ref
  OBVIOUS
<1>. HIDE DEF With, other
<1>6. CASE cap.kind \in NamedKinds
  <2>. DEFINE row == capabilityToRow(cap)
  <2>1. row = With(IF cap.name # NoName THEN cap.name ELSE other)
    BY <1>1, <1>2
  <2>2. rowToCapability(row) = row
    BY <1>3, <1>6, <2>1
  <2>3. capabilityToRow(row) = row
    BY <1>2, <2>1
  <2>. QED
    BY <1>5, <1>6, <2>1, <2>2, <2>3
<1>7. CASE cap.kind \notin NamedKinds
  <2>1. rowToCapability(capabilityToRow(cap)) = cap
    BY <1>1, <1>2, <1>3, <1>4, <1>7
  <2>. QED
    BY <2>1
<1>. QED
  BY <1>6, <1>7

AllCanonical(caps) == IsList(caps) /\ \A cap \in ToSet(caps) : Canonical(cap)

\* Capabilities that are stored and loaded.
Back(caps) == LoadCapabilities(RowsOf(caps))

\* Storing what was loaded gives the rows that were stored before, and nothing that an
\* entry is shown with has changed.
LEMMA RowsKept ==
    ASSUME NEW caps, AllCanonical(caps)
    PROVE  /\ RowsOf(Back(caps)) = RowsOf(caps)
           /\ DOMAIN Back(caps) = DOMAIN caps
           /\ \A i \in DOMAIN caps :
                 /\ Back(caps)[i].kind = caps[i].kind
                 /\ Back(caps)[i].detail = caps[i].detail
                 /\ Back(caps)[i].ref = caps[i].ref
                 /\ caps[i].kind \notin NamedKinds => Back(caps)[i] = caps[i]
<1>1. Back(caps) = [i \in DOMAIN caps |-> rowToCapability(capabilityToRow(caps[i]))]
  BY DEF Back, LoadCapabilities, RowsOf, Each
<1>2. ASSUME NEW i \in DOMAIN caps
      PROVE  Canonical(caps[i])
  BY DEF AllCanonical, ToSet
<1>3. RowsOf(Back(caps)) = [i \in DOMAIN caps |-> capabilityToRow(Back(caps)[i])]
  BY <1>1 DEF RowsOf, Each
<1>4. RowsOf(caps) = [i \in DOMAIN caps |-> capabilityToRow(caps[i])]
  BY DEF RowsOf, Each
<1>5. ASSUME NEW i \in DOMAIN caps
      PROVE  /\ capabilityToRow(Back(caps)[i]) = capabilityToRow(caps[i])
             /\ Back(caps)[i].kind = caps[i].kind
             /\ Back(caps)[i].detail = caps[i].detail
             /\ Back(caps)[i].ref = caps[i].ref
             /\ caps[i].kind \notin NamedKinds => Back(caps)[i] = caps[i]
  BY <1>1, <1>2, CapabilityKept
<1>. QED
  BY <1>1, <1>3, <1>4, <1>5

\* For each capability of a kind there is one in what is loaded, and the other way
\* round, with the same fields.
LEMMA KindsBack ==
    ASSUME NEW caps, AllCanonical(caps), NEW kind
    PROVE  /\ \A x \in OfKind(caps, kind) :
                 \E y \in OfKind(Back(caps), kind) : y.detail = x.detail /\ y.ref = x.ref
           /\ \A y \in OfKind(Back(caps), kind) :
                 \E x \in OfKind(caps, kind) : y.detail = x.detail /\ y.ref = x.ref
           /\ kind \notin NamedKinds => OfKind(Back(caps), kind) = OfKind(caps, kind)
           /\ CountOfKind(Back(caps), kind) = CountOfKind(caps, kind)
<1>. DEFINE back == Back(caps)
<1>1. /\ DOMAIN back = DOMAIN caps
      /\ \A i \in DOMAIN caps :
            /\ back[i].kind = caps[i].kind
            /\ back[i].detail = caps[i].detail
            /\ back[i].ref = caps[i].ref
            /\ caps[i].kind \notin NamedKinds => back[i] = caps[i]
  BY RowsKept
<1>. HIDE DEF back
<1>2. ASSUME NEW x \in OfKind(caps, kind)
      PROVE  \E y \in OfKind(back, kind) : y.detail = x.detail /\ y.ref = x.ref
  <2>1. PICK i \in DOMAIN caps : x = caps[i] /\ caps[i].kind = kind
    BY DEF OfKind, ToSet
  <2>2. back[i] \in OfKind(back, kind)
    BY <1>1, <2>1 DEF OfKind, ToSet
  <2>. QED
    BY <1>1, <2>1, <2>2
<1>3. ASSUME NEW y \in OfKind(back, kind)
      PROVE  \E x \in OfKind(caps, kind) : y.detail = x.detail /\ y.ref = x.ref
  <2>1. PICK i \in DOMAIN caps : y = back[i] /\ back[i].kind = kind
    BY <1>1 DEF OfKind, ToSet
  <2>2. caps[i] \in OfKind(caps, kind)
    BY <1>1, <2>1 DEF OfKind, ToSet
  <2>. QED
    BY <1>1, <2>1, <2>2
<1>4. ASSUME kind \notin NamedKinds
      PROVE  OfKind(back, kind) = OfKind(caps, kind)
  <2>1. ASSUME NEW i \in DOMAIN caps, back[i].kind = kind \/ caps[i].kind = kind
        PROVE  back[i] = caps[i]
    BY <1>1, <1>4, <2>1
  <2>2. ASSUME NEW x \in OfKind(caps, kind)
        PROVE  x \in OfKind(back, kind)
    <3>1. PICK i \in DOMAIN caps : x = caps[i] /\ caps[i].kind = kind
      BY DEF OfKind, ToSet
    <3>. QED
      BY <1>1, <2>1, <3>1 DEF OfKind, ToSet
  <2>3. ASSUME NEW y \in OfKind(back, kind)
        PROVE  y \in OfKind(caps, kind)
    <3>1. PICK i \in DOMAIN caps : y = back[i] /\ back[i].kind = kind
      BY <1>1 DEF OfKind, ToSet
    <3>. QED
      BY <1>1, <2>1, <3>1 DEF OfKind, ToSet
  <2>. QED
    BY <2>2, <2>3
<1>5. CountOfKind(back, kind) = CountOfKind(caps, kind)
  <2>1. {k \in DOMAIN back : back[k].kind = kind} = {k \in DOMAIN caps : caps[k].kind = kind}
    BY <1>1
  <2>. QED
    BY <2>1 DEF CountOfKind
<1>. QED
  BY <1>2, <1>3, <1>4, <1>5 DEF back

\* The summary of what an entry asks of its callers is that of its card.
LEMMA SummaryKept ==
    ASSUME NEW caps, AllCanonical(caps)
    PROVE  /\ AuthSummary(Back(caps)) = AuthSummary(caps)
           /\ SecurityDetail(Back(caps)).requirements = SecurityDetail(caps).requirements
<1>. DEFINE scheme == "a2a.security_scheme"
            requirement == "a2a.security_requirement"
            A == OfKind(caps, scheme)
            B == OfKind(Back(caps), scheme)
            TypeOf(d) == IF d[1] = "http" /\ d[2] # "" THEN d ELSE <<d[1]>>
<1>1. /\ \A x \in A : \E y \in B : y.detail = x.detail
      /\ \A y \in B : \E x \in A : y.detail = x.detail
  BY KindsBack
<1>2. OfKind(Back(caps), requirement) = OfKind(caps, requirement)
  BY KindsBack DEF NamedKinds
<1>3. A = {} <=> B = {}
  BY <1>1
<1>4. {TypeOf(s.detail) : s \in A} = {TypeOf(s.detail) : s \in B}
  <2>. HIDE DEF A, B, TypeOf
  <2>. QED
    BY <1>1
<1>. QED
  BY <1>2, <1>3, <1>4 DEF AuthSummary, SecurityDetail
-----------------------------------------------------------------------------
(* What the parsers make of a card *)

\* One canonical capability or none.
LEMMA WhereCanonical ==
    ASSUME NEW kept, NEW cap, Canonical(cap)
    PROVE  AllCanonical(Where(kept, cap)) /\ ToSet(Where(kept, cap)) \subseteq {cap}
BY ShortLists DEF Where, AllCanonical

\* A list of canonical capabilities, item by item.
LEMMA EachCanonical ==
    ASSUME NEW s, IsList(s), NEW caps, DOMAIN caps = DOMAIN s,
           caps = [i \in DOMAIN s |-> caps[i]], \A i \in DOMAIN s : Canonical(caps[i])
    PROVE  AllCanonical(caps) /\ Len(caps) = Len(s)
<1>1. Len(s) \in Nat /\ DOMAIN s = 1 .. Len(s)
  BY ListFacts
<1>2. IsList(caps) /\ Len(caps) = Len(s)
  BY <1>1, ListOf
<1>. QED
  BY <1>2 DEF AllCanonical, ToSet

\* Lists of canonical capabilities in a row.
LEMMA CatCanonical ==
    ASSUME NEW s, NEW t, AllCanonical(s), AllCanonical(t)
    PROVE  AllCanonical(s \o t)
BY CatList DEF AllCanonical

\* A list of lists of canonical capabilities, flattened.
LEMMA FlattenCanonical ==
    ASSUME NEW s, IsList(s), NEW ss, DOMAIN ss = DOMAIN s,
           ss = [i \in DOMAIN s |-> ss[i]], \A i \in DOMAIN s : AllCanonical(ss[i])
    PROVE  /\ AllCanonical(FlattenSeq(ss))
           /\ \A x \in ToSet(FlattenSeq(ss)) : \E i \in DOMAIN s : x \in ToSet(ss[i])
<1>1. Len(s) \in Nat /\ DOMAIN s = 1 .. Len(s)
  BY ListFacts
<1>2. IsList(ss)
  BY <1>1, ListOf
<1>3. \A i \in DOMAIN ss : IsList(ss[i])
  BY DEF AllCanonical
<1>4. /\ IsList(FlattenSeq(ss))
      /\ \A x \in ToSet(FlattenSeq(ss)) : \E i \in DOMAIN ss : x \in ToSet(ss[i])
  BY <1>2, <1>3, FlattenList
<1>. QED
  BY <1>4 DEF AllCanonical

\* What the parsers build is canonical.
LEMMA CapabilityCanonical ==
    /\ \A kind, name, alt, detail :
          kind \in NamedKinds \/ name = NoName =>
             /\ Canonical(Capability(kind, name, alt, detail))
             /\ Capability(kind, name, alt, detail).kind = kind
    /\ \A r, skill : /\ Canonical(Requirement(r, skill))
                      /\ Requirement(r, skill).kind = "a2a.security_requirement"
<1>1. ASSUME NEW kind, NEW name, NEW alt, NEW detail, kind \in NamedKinds \/ name = NoName
      PROVE  /\ Canonical(Capability(kind, name, alt, detail))
             /\ Capability(kind, name, alt, detail).kind = kind
  BY <1>1 DEF Canonical, Capability
<1>2. ASSUME NEW r, NEW skill
      PROVE  /\ Canonical(Requirement(r, skill))
             /\ Requirement(r, skill).kind = "a2a.security_requirement"
  BY DEF Requirement, Canonical
<1>. QED
  BY <1>1, <1>2

\* The requirements of a card or a skill.
LEMMA RequirementsCanonical ==
    ASSUME NEW reqlist, IsList(reqlist), NEW skill
    PROVE  /\ AllCanonical(Requirements(reqlist, skill))
           /\ \A x \in ToSet(Requirements(reqlist, skill)) : x.kind = "a2a.security_requirement"
<1>. DEFINE ss == [i \in DOMAIN reqlist |-> Where(reqlist[i].ok, Requirement(reqlist[i], skill))]
<1>1. Requirements(reqlist, skill) = FlattenSeq(ss)
  BY DEF Requirements, Each
<1>2. \A i \in DOMAIN reqlist : /\ AllCanonical(ss[i])
                               /\ \A x \in ToSet(ss[i]) : x.kind = "a2a.security_requirement"
  BY CapabilityCanonical, WhereCanonical
<1>3. DOMAIN ss = DOMAIN reqlist /\ ss = [i \in DOMAIN reqlist |-> ss[i]]
  OBVIOUS
<1>. HIDE DEF ss
<1>. QED
  BY <1>1, <1>2, <1>3, FlattenCanonical

\* Lists whose capabilities are all of one kind
OfOneKind(caps, kind) == AllCanonical(caps) /\ \A x \in ToSet(caps) : x.kind = kind

\* How they count.
LEMMA OneKindCounts ==
    ASSUME NEW caps, NEW kind, OfOneKind(caps, kind)
    PROVE  /\ CountOfKind(caps, kind) = Len(caps)
           /\ \A other : other # kind => CountOfKind(caps, other) = 0
<1>1. IsList(caps)
  BY DEF OfOneKind, AllCanonical
<1>. QED
  BY <1>1, CountAll, CountNone DEF OfOneKind

\* The skills of a card, each with its requirements.
LEMMA SkillCapsCanonical ==
    ASSUME NEW c \in Cards
    PROVE  /\ AllCanonical(SkillCaps(c))
           /\ CountOfKind(SkillCaps(c), "a2a.skill") = Len(c.skills)
           /\ \A kind : kind \notin {"a2a.skill", "a2a.security_requirement"} =>
                 CountOfKind(SkillCaps(c), kind) = 0
<1>. DEFINE skills == c.skills
            skill(i) == Capability("a2a.skill", Name(skills[i].name), <<>>, <<>>)
            asks(i) == Requirements(skills[i].reqs, skills[i].name)
            ss == [i \in DOMAIN skills |-> <<skill(i)>> \o asks(i)]
<1>1. SkillCaps(c) = FlattenSeq(ss)
  BY DEF SkillCaps, Each
<1>2. IsList(skills)
  BY CardAssumption DEF IsList
<1>3. ASSUME NEW i \in DOMAIN skills
      PROVE  /\ AllCanonical(ss[i])
             /\ \A x \in ToSet(ss[i]) : x.kind \in {"a2a.skill", "a2a.security_requirement"}
             /\ CountOfKind(ss[i], "a2a.skill") = 1
  <2>1. IsList(skills[i].reqs)
    <3>1. skills[i] \in ToSet(c.skills)
      BY DEF ToSet
    <3>. QED
      BY <3>1, CardAssumption DEF IsList
  <2>2. AllCanonical(asks(i)) /\ \A x \in ToSet(asks(i)) : x.kind = "a2a.security_requirement"
    BY <2>1, RequirementsCanonical
  <2>3. Canonical(skill(i)) /\ skill(i).kind = "a2a.skill"
    BY CapabilityCanonical DEF NamedKinds
  <2>. HIDE DEF skill, asks
  <2>4. OfOneKind(<<skill(i)>>, "a2a.skill") /\ Len(<<skill(i)>>) = 1
    BY <2>3, ShortLists DEF OfOneKind, AllCanonical
  <2>5. OfOneKind(asks(i), "a2a.security_requirement")
    BY <2>2 DEF OfOneKind
  <2>6. /\ CountOfKind(<<skill(i)>>, "a2a.skill") = 1
        /\ CountOfKind(asks(i), "a2a.skill") = 0
    BY <2>4, <2>5, OneKindCounts
  <2>7. IsList(<<skill(i)>>) /\ IsList(asks(i))
    BY <2>4, <2>5 DEF OfOneKind, AllCanonical
  <2>8. CountOfKind(<<skill(i)>> \o asks(i), "a2a.skill") = 1
    BY <2>6, <2>7, CatCount
  <2>9. AllCanonical(<<skill(i)>> \o asks(i))
    BY <2>4, <2>5, CatCanonical DEF OfOneKind
  <2>10. \A x \in ToSet(<<skill(i)>> \o asks(i)) :
            x.kind \in {"a2a.skill", "a2a.security_requirement"}
    <3>1. ToSet(<<skill(i)>> \o asks(i)) \subseteq ToSet(<<skill(i)>>) \cup ToSet(asks(i))
      BY <2>7, CatList
    <3>. QED
      BY <2>4, <2>5, <3>1 DEF OfOneKind
  <2>11. ss[i] = <<skill(i)>> \o asks(i)
    BY Zenon
  <2>. QED
    BY <2>8, <2>9, <2>10, <2>11, Zenon
<1>4. DOMAIN ss = DOMAIN skills /\ ss = [i \in DOMAIN skills |-> ss[i]]
  BY Zenon
<1>. HIDE DEF ss
<1>5. /\ AllCanonical(FlattenSeq(ss))
      /\ \A x \in ToSet(FlattenSeq(ss)) : \E i \in DOMAIN skills : x \in ToSet(ss[i])
  BY <1>2, <1>3, <1>4, FlattenCanonical
<1>6. IsList(ss) /\ Len(ss) = Len(skills)
  BY <1>2, <1>4, ListFacts, ListOf
<1>7. CountOfKind(FlattenSeq(ss), "a2a.skill") = Len(skills)
  BY <1>3, <1>4, <1>6, FlattenCount DEF AllCanonical
<1>8. \A x \in ToSet(FlattenSeq(ss)) : x.kind \in {"a2a.skill", "a2a.security_requirement"}
  BY <1>3, <1>5
<1>9. \A kind : kind \notin {"a2a.skill", "a2a.security_requirement"} =>
         CountOfKind(FlattenSeq(ss), kind) = 0
  BY <1>8, CountNone
<1>. QED
  BY <1>1, <1>5, <1>7, <1>9

\* Extensions, interfaces and signatures.
LEMMA MetaCapsCanonical ==
    ASSUME NEW c \in Cards
    PROVE  /\ AllCanonical(MetaCaps(c))
           /\ CountOfKind(MetaCaps(c), "a2a.skill") = 0
           /\ CountOfKind(MetaCaps(c), "a2a.extension") = Len(c.extensions)
           /\ CountOfKind(MetaCaps(c), "a2a.interface") = Len(c.interfaces)
<1>. DEFINE E == [i \in DOMAIN c.extensions |->
                    Capability("a2a.extension", NoName, <<c.extensions[i]>>, <<>>)]
            I == [i \in DOMAIN c.interfaces |->
                    Capability("a2a.interface", NoName, <<c.interfaces[i].url>>,
                               <<c.interfaces[i].binding>>)]
            S == [i \in DOMAIN c.signatures |->
                    Capability("a2a.signature", NoName, <<c.signatures[i].algorithm>>,
                               <<c.signatures[i].key>>)]
<1>1. MetaCaps(c) = E \o I \o S
  BY DEF MetaCaps, Each
<1>2. IsList(c.extensions) /\ IsList(c.interfaces) /\ IsList(c.signatures)
  BY CardAssumption DEF IsList
<1>3. OfOneKind(E, "a2a.extension") /\ Len(E) = Len(c.extensions)
  <2>1. /\ DOMAIN E = DOMAIN c.extensions /\ E = [i \in DOMAIN c.extensions |-> E[i]]
        /\ \A i \in DOMAIN c.extensions : Canonical(E[i]) /\ E[i].kind = "a2a.extension"
    BY CapabilityCanonical
  <2>. HIDE DEF E
  <2>. QED
    BY <1>2, <2>1, EachCanonical DEF OfOneKind, ToSet
<1>4. OfOneKind(I, "a2a.interface") /\ Len(I) = Len(c.interfaces)
  <2>1. /\ DOMAIN I = DOMAIN c.interfaces /\ I = [i \in DOMAIN c.interfaces |-> I[i]]
        /\ \A i \in DOMAIN c.interfaces : Canonical(I[i]) /\ I[i].kind = "a2a.interface"
    BY CapabilityCanonical
  <2>. HIDE DEF I
  <2>. QED
    BY <1>2, <2>1, EachCanonical DEF OfOneKind, ToSet
<1>5. OfOneKind(S, "a2a.signature")
  <2>1. /\ DOMAIN S = DOMAIN c.signatures /\ S = [i \in DOMAIN c.signatures |-> S[i]]
        /\ \A i \in DOMAIN c.signatures : Canonical(S[i]) /\ S[i].kind = "a2a.signature"
    BY CapabilityCanonical
  <2>. HIDE DEF S
  <2>. QED
    BY <1>2, <2>1, EachCanonical DEF OfOneKind, ToSet
<1>. HIDE DEF E, I, S
<1>6. AllCanonical(E) /\ AllCanonical(I) /\ AllCanonical(S)
  BY <1>3, <1>4, <1>5 DEF OfOneKind
<1>7. AllCanonical(E \o I) /\ AllCanonical(E \o I \o S)
  BY <1>6, CatCanonical
<1>8. ASSUME NEW kind
      PROVE  CountOfKind(E \o I \o S, kind)
                = (CountOfKind(E, kind) + CountOfKind(I, kind)) + CountOfKind(S, kind)
  BY <1>6, <1>7, CatCount DEF AllCanonical
<1>9. Len(c.extensions) \in Nat /\ Len(c.interfaces) \in Nat
  BY <1>2, ListFacts
<1>10. /\ CountOfKind(E, "a2a.extension") = Len(c.extensions)
       /\ CountOfKind(E, "a2a.interface") = 0 /\ CountOfKind(E, "a2a.skill") = 0
  BY <1>3, OneKindCounts
<1>11. /\ CountOfKind(I, "a2a.interface") = Len(c.interfaces)
       /\ CountOfKind(I, "a2a.extension") = 0 /\ CountOfKind(I, "a2a.skill") = 0
  BY <1>4, OneKindCounts
<1>12. /\ CountOfKind(S, "a2a.interface") = 0
       /\ CountOfKind(S, "a2a.extension") = 0 /\ CountOfKind(S, "a2a.skill") = 0
  BY <1>5, OneKindCounts
<1>. QED
  BY <1>1, <1>7, <1>8, <1>9, <1>10, <1>11, <1>12

\* Security schemes.
LEMMA SecurityCapsCanonical ==
    ASSUME NEW c \in Cards
    PROVE  OfOneKind(SecurityCaps(c), "a2a.security_scheme")
<1>. DEFINE list == c.schemes
            kind == "a2a.security_scheme"
<1>1. IsList(list)
  BY CardAssumption DEF IsList
<1>2. \A name, s : Canonical(SchemeCap(name, s)) /\ SchemeCap(name, s).kind = kind
  BY CapabilityCanonical DEF SchemeCap, NamedKinds
<1>3. CASE c.form = "map"
  <2>. DEFINE ss == [i \in DOMAIN list |-> Where(list[i].type \notin {NoType, ""},
                                                SchemeCap(Name(list[i].name), list[i]))]
  <2>1. SecurityCaps(c) = FlattenSeq(ss)
    BY <1>3 DEF SecurityCaps, Each
  <2>2. ASSUME NEW i \in DOMAIN list
        PROVE  AllCanonical(ss[i]) /\ \A x \in ToSet(ss[i]) : x.kind = kind
    <3>. DEFINE cap == SchemeCap(Name(list[i].name), list[i])
    <3>1. Canonical(cap) /\ cap.kind = kind
      BY <1>2
    <3>. DEFINE kept == list[i].type \notin {NoType, ""}
    <3>2. ss[i] = Where(kept, cap)
      BY Zenon
    <3>. HIDE DEF cap, kept, ss
    <3>. QED
      BY <3>1, <3>2, WhereCanonical
  <2>3. DOMAIN ss = DOMAIN list /\ ss = [i \in DOMAIN list |-> ss[i]]
    BY Zenon
  <2>. HIDE DEF ss
  <2>. QED
    BY <1>1, <2>1, <2>2, <2>3, FlattenCanonical DEF OfOneKind
<1>4. CASE c.form = "array"
  <2>. DEFINE ss == [i \in DOMAIN list |->
                       Where(list[i].type # NoType,
                             SchemeCap([Name(list[i].type) EXCEPT !.index = i], list[i]))]
  <2>1. SecurityCaps(c) = FlattenSeq(ss)
    BY <1>4 DEF SecurityCaps
  <2>2. ASSUME NEW i \in DOMAIN list
        PROVE  AllCanonical(ss[i]) /\ \A x \in ToSet(ss[i]) : x.kind = kind
    <3>. DEFINE cap == SchemeCap([Name(list[i].type) EXCEPT !.index = i], list[i])
    <3>1. Canonical(cap) /\ cap.kind = kind
      BY <1>2
    <3>2. ss[i] = Where(list[i].type # NoType, cap)
      BY Zenon
    <3>. HIDE DEF cap, ss
    <3>. QED
      BY <3>1, <3>2, WhereCanonical
  <2>3. DOMAIN ss = DOMAIN list /\ ss = [i \in DOMAIN list |-> ss[i]]
    BY Zenon
  <2>. HIDE DEF ss
  <2>. QED
    BY <1>1, <2>1, <2>2, <2>3, FlattenCanonical DEF OfOneKind
<1>5. CASE c.form \notin {"map", "array"}
  <2>1. SecurityCaps(c) = <<>>
    BY <1>5 DEF SecurityCaps
  <2>. QED
    BY <2>1, ShortLists DEF OfOneKind, AllCanonical
<1>. QED
  BY <1>3, <1>4, <1>5

\* All of an A2A card: the counts are those of the preview.
LEMMA ParseA2ACanonical ==
    ASSUME NEW c \in Cards
    PROVE  /\ AllCanonical(ParseA2A(c).caps)
           /\ CountOfKind(ParseA2A(c).caps, "a2a.skill") = Len(c.skills)
           /\ CountOfKind(ParseA2A(c).caps, "a2a.extension") = Len(c.extensions)
           /\ CountOfKind(ParseA2A(c).caps, "a2a.interface") = Len(c.interfaces)
<1>. DEFINE A == SkillCaps(c)
            B == MetaCaps(c)
            S == SecurityCaps(c)
            R == Requirements(c.reqs, "")
<1>1. ParseA2A(c).caps = A \o B \o S \o R
  BY DEF ParseA2A
<1>2. /\ AllCanonical(A)
      /\ CountOfKind(A, "a2a.skill") = Len(c.skills)
      /\ CountOfKind(A, "a2a.extension") = 0
      /\ CountOfKind(A, "a2a.interface") = 0
  BY SkillCapsCanonical
<1>3. /\ AllCanonical(B)
      /\ CountOfKind(B, "a2a.skill") = 0
      /\ CountOfKind(B, "a2a.extension") = Len(c.extensions)
      /\ CountOfKind(B, "a2a.interface") = Len(c.interfaces)
  BY MetaCapsCanonical
<1>4. OfOneKind(S, "a2a.security_scheme")
  BY SecurityCapsCanonical
<1>5. OfOneKind(R, "a2a.security_requirement")
  <2>1. IsList(c.reqs)
    BY CardAssumption DEF IsList
  <2>. QED
    BY <2>1, RequirementsCanonical DEF OfOneKind
<1>6. Len(c.skills) \in Nat /\ Len(c.extensions) \in Nat /\ Len(c.interfaces) \in Nat
  <2>1. IsList(c.skills) /\ IsList(c.extensions) /\ IsList(c.interfaces)
    BY CardAssumption DEF IsList
  <2>. QED
    BY <2>1, ListFacts
<1>. HIDE DEF A, B, S, R
<1>7. ASSUME NEW kind \in {"a2a.skill", "a2a.extension", "a2a.interface"}
      PROVE  CountOfKind(S, kind) = 0 /\ CountOfKind(R, kind) = 0
  BY <1>4, <1>5, OneKindCounts
<1>8. AllCanonical(A \o B) /\ AllCanonical(A \o B \o S) /\ AllCanonical(A \o B \o S \o R)
  <2>1. AllCanonical(S) /\ AllCanonical(R)
    BY <1>4, <1>5 DEF OfOneKind
  <2>2. AllCanonical(A \o B)
    BY <1>2, <1>3, CatCanonical
  <2>3. AllCanonical(A \o B \o S)
    BY <2>1, <2>2, CatCanonical
  <2>. QED
    BY <2>1, <2>2, <2>3, CatCanonical
<1>9. ASSUME NEW kind
      PROVE  CountOfKind(A \o B \o S \o R, kind)
                = ((CountOfKind(A, kind) + CountOfKind(B, kind)) + CountOfKind(S, kind))
                     + CountOfKind(R, kind)
  <2>1. /\ IsList(A) /\ IsList(B) /\ IsList(S) /\ IsList(R)
        /\ IsList(A \o B) /\ IsList(A \o B \o S)
    BY <1>2, <1>3, <1>4, <1>5, <1>8 DEF OfOneKind, AllCanonical
  <2>2. CountOfKind(A \o B, kind) = CountOfKind(A, kind) + CountOfKind(B, kind)
    BY <2>1, CatCount
  <2>3. CountOfKind(A \o B \o S, kind) = CountOfKind(A \o B, kind) + CountOfKind(S, kind)
    BY <2>1, CatCount
  <2>4. CountOfKind(A \o B \o S \o R, kind)
           = CountOfKind(A \o B \o S, kind) + CountOfKind(R, kind)
    BY <2>1, CatCount
  <2>. QED
    BY <2>2, <2>3, <2>4
<1>. QED
  BY <1>1, <1>2, <1>3, <1>6, <1>7, <1>8, <1>9

\* All of an MCP card.
LEMMA ParseMCPCanonical ==
    ASSUME NEW c \in Cards
    PROVE  AllCanonical(ParseMCP(c).caps)
<1>. DEFINE T == [i \in DOMAIN c.tools |-> Capability("mcp.tool", Name(c.tools[i]), <<>>, <<>>)]
            R == [i \in DOMAIN c.resources |->
                    Capability("mcp.resource", Name(c.resources[i].name),
                               <<c.resources[i].uri>>, <<>>)]
            P == [i \in DOMAIN c.prompts |->
                    Capability("mcp.prompt", Name(c.prompts[i]), <<>>, <<>>)]
<1>1. ParseMCP(c).caps = T \o R \o P
  BY DEF ParseMCP, Each
<1>2. IsList(c.tools) /\ IsList(c.resources) /\ IsList(c.prompts)
  BY CardAssumption DEF IsList
<1>3. AllCanonical(T)
  <2>1. /\ DOMAIN T = DOMAIN c.tools /\ T = [i \in DOMAIN c.tools |-> T[i]]
        /\ \A i \in DOMAIN c.tools : Canonical(T[i])
    BY CapabilityCanonical DEF NamedKinds
  <2>. HIDE DEF T
  <2>. QED
    BY <1>2, <2>1, EachCanonical
<1>4. AllCanonical(R)
  <2>1. /\ DOMAIN R = DOMAIN c.resources /\ R = [i \in DOMAIN c.resources |-> R[i]]
        /\ \A i \in DOMAIN c.resources : Canonical(R[i])
    BY CapabilityCanonical DEF NamedKinds
  <2>. HIDE DEF R
  <2>. QED
    BY <1>2, <2>1, EachCanonical
<1>5. AllCanonical(P)
  <2>1. /\ DOMAIN P = DOMAIN c.prompts /\ P = [i \in DOMAIN c.prompts |-> P[i]]
        /\ \A i \in DOMAIN c.prompts : Canonical(P[i])
    BY CapabilityCanonical DEF NamedKinds
  <2>. HIDE DEF P
  <2>. QED
    BY <1>2, <2>1, EachCanonical
<1>. HIDE DEF T, R, P
<1>6. AllCanonical(T \o R)
  BY <1>3, <1>4, CatCanonical
<1>. QED
  BY <1>1, <1>5, <1>6, CatCanonical

-----------------------------------------------------------------------------
(* The inductive invariant *)

IsFunction(f, S) == f = [x \in S |-> f[x]]

EntryRow == [source : Sources, status : Statuses]

TablesOK ==
    /\ entries \in [Ids -> EntryRow \cup {None}]
    /\ types \in [Ids -> TypeRows \cup {None}]
    /\ shown \in [Ids -> Cards \cup {None}]
    /\ IsFunction(cards, Ids)
    /\ IsFunction(reqs, Actors)
    /\ faults \in 0 .. MaxFaults

\* Where the agent type comes from: the card it is shown with, or a body that has no
\* card.
MadeFrom(t, c) ==
    \/ /\ c = None
       /\ \E body \in Flat : /\ body.endpoint # "" /\ body.protocol \in Protocols
                              /\ t = Stored(FlatRequest(body))
    \/ /\ c \in Cards
       /\ \E p \in Parsers, source \in Sources :
              Parse(p, c).ok /\ t = Stored(Parsed("create", p, source, c))

TypesOK ==
    \A i \in Ids :
        /\ Exists(i) => Known(i)
        /\ cards[i] # None => Known(i)
        /\ Known(i) => /\ MadeFrom(types[i], shown[i])
                       /\ types[i].provider \subseteq providers
                       /\ UniqueRows(types[i].rows)
        /\ Exists(i) /\ entries[i].source = "config" => types[i].provider = {}

\* A request that has parsed a card; a provider is there before the type is created.
ParsedOK(q) ==
    \E p \in Parsers, c \in Cards, stage \in {"provider", "newProvider", "create"} :
        /\ Parse(p, c).ok
        /\ reqs[q] = Parsed(stage, p, IF q = Manager THEN "config" ELSE "push", c)
        /\ stage = "create" /\ q # Manager => Parse(p, c).provider \subseteq providers

FlatOK(q) ==
    /\ q # Manager
    /\ \E body \in Flat : /\ body.endpoint # "" /\ body.protocol \in Protocols
                           /\ reqs[q] = FlatRequest(body)

CardOK(q) ==
    \E i \in Ids, c \in Cards : Known(i) /\ reqs[q] = [at |-> "card", id |-> i, card |-> c]

Hops == 0 .. MaxRedirects - 1

FetchOK(q) ==
    \E hops \in Hops, body \in Imports :
        \/ reqs[q] = [at |-> "dial", hops |-> hops, body |-> body]
        \/ reqs[q] = [at |-> "connected", hops |-> hops, body |-> body, address |-> "public"]

\* The manager holds a copy of an entry that came from discovery, with a type parsed
\* from a card or with the type that it has.
SaveOK(q) ==
    /\ q = Manager
    /\ \E i \in Ids, e \in EntryRow :
          /\ e.source = "config"
          /\ Known(i)
          /\ ~(Exists(i) /\ entries[i].source = "push")
          /\ \/ /\ types[i].provider = {}
                /\ reqs[q] = [at |-> "save", id |-> i, entry |-> e, type |-> Loaded(types[i]),
                              card |-> None, source |-> "config"]
             \/ \E p \in Parsers, c \in Cards :
                   /\ Parse(p, c).ok
                   /\ reqs[q] = [at |-> "save", id |-> i, entry |-> e, type |-> Parse(p, c),
                                 card |-> c, source |-> "config"]

RequestOK(q) == ParsedOK(q) \/ FlatOK(q) \/ CardOK(q) \/ FetchOK(q) \/ SaveOK(q)

RequestsOK == \A q \in Actors : reqs[q] # Idle => RequestOK(q)

\* The card of an entry that came through the API, stored or about to be, is the one
\* that its type was made from.
CardsOwned ==
    \A i \in Ids :
        Exists(i) /\ entries[i].source = "push" =>
            /\ cards[i] # None => cards[i].card = shown[i]
            /\ \A q \in Actors : At(q, "card") /\ reqs[q].id = i => reqs[q].card = shown[i]

CatalogInv == TablesOK /\ TypesOK /\ RequestsOK /\ CardsOwned

-----------------------------------------------------------------------------
(* Facts that the steps share *)

\* What Parse returns names its parser, and has an endpoint if the card is accepted.
LEMMA ParseFacts ==
    ASSUME NEW p \in Parsers, NEW c
    PROVE  /\ Parse(p, c).protocol = p /\ p \in Protocols
           /\ Parse(p, c).ok => Parse(p, c).endpoint # ""
BY DEF Parse, Parsers, ParseA2A, ParseMCP, ValidateMCP, Protocols

\* Capabilities of a card are canonical, whoever parses it.
LEMMA ParseCanonical ==
    ASSUME NEW p \in Parsers, NEW c \in Cards
    PROVE  AllCanonical(Parse(p, c).caps)
BY ParseA2ACanonical, ParseMCPCanonical DEF Parse

\* At which step a request may be what.
LEMMA StageFacts ==
    ASSUME RequestsOK, NEW q \in Actors
    PROVE  /\ At(q, "provider") => ParsedOK(q)
           /\ At(q, "newProvider") => ParsedOK(q)
           /\ At(q, "create") => ParsedOK(q) \/ FlatOK(q)
           /\ At(q, "card") => CardOK(q)
           /\ At(q, "dial") => FetchOK(q)
           /\ At(q, "connected") => FetchOK(q)
           /\ At(q, "save") => SaveOK(q)
<1>1. reqs[q] # Idle => RequestOK(q)
  BY DEF RequestsOK
<1>2. ParsedOK(q) => reqs[q].at \in {"provider", "newProvider", "create"}
  BY DEF ParsedOK, Parsed
<1>3. FlatOK(q) => reqs[q].at = "create"
  <2>1. \A body : FlatRequest(body).at = "create"
    BY DEF FlatRequest
  <2>. QED
    BY <2>1 DEF FlatOK
<1>4. CardOK(q) => reqs[q].at = "card"
  BY DEF CardOK
<1>5. FetchOK(q) => reqs[q].at \in {"dial", "connected"}
  BY DEF FetchOK
<1>6. SaveOK(q) => reqs[q].at = "save"
  <2>1. \A i, e, t, c : [at |-> "save", id |-> i, entry |-> e, type |-> t, card |-> c,
                         source |-> "config"].at = "save"
    OBVIOUS
  <2>. QED
    BY <2>1, Zenon DEF SaveOK
<1>. QED
  BY <1>1, <1>2, <1>3, <1>4, <1>5, <1>6 DEF At, RequestOK

\* What an agent type is that was made from a card or a body.
LEMMA MadeFromFacts ==
    ASSUME NEW t, NEW c, MadeFrom(t, c)
    PROVE  /\ t \in TypeRows /\ t # None
           /\ t.protocol \in Protocols /\ t.endpoint # ""
<1>1. CASE \E body \in Flat : /\ body.endpoint # "" /\ body.protocol \in Protocols
                              /\ t = Stored(FlatRequest(body))
  <2>1. PICK body \in Flat : /\ body.endpoint # "" /\ body.protocol \in Protocols
                             /\ t = Stored(FlatRequest(body))
    BY <1>1
  <2>2. t \in TypeRows
    <3>1. t \in FlatRows
      BY <2>1, Zenon DEF FlatRows
    <3>. QED
      BY <3>1 DEF TypeRows
  <2>. QED
    BY <2>1, <2>2, NoneAssumption DEF Stored, FlatRequest
<1>2. CASE /\ c \in Cards
           /\ \E p \in Parsers, source \in Sources :
                  Parse(p, c).ok /\ t = Stored(Parsed("create", p, source, c))
  <2>1. PICK p \in Parsers, source \in Sources :
           Parse(p, c).ok /\ t = Stored(Parsed("create", p, source, c))
    BY <1>2
  <2>2. t \in TypeRows
    BY <1>2, <2>1 DEF TypeRows, CardRows
  <2>3. t.protocol = Parse(p, c).protocol /\ t.endpoint = Parse(p, c).endpoint
    BY <2>1 DEF Stored, Parsed
  <2>. QED
    BY <2>1, <2>2, <2>3, NoneAssumption, ParseFacts
<1>. QED
  BY <1>1, <1>2 DEF MadeFrom

\* Loading an agent type and saving it as one without provider writes what is there.
LEMMA LoadedIsStored ==
    ASSUME NEW t, NEW c, MadeFrom(t, c), t.provider = {},
           NEW req, req.type = Loaded(t), req.source = "config"
    PROVE  Stored(req) = t
<1>1. PICK caps : /\ t.rows = RowsOf(caps) /\ AllCanonical(caps)
                  /\ t = [protocol |-> t.protocol, endpoint |-> t.endpoint,
                          version |-> t.version, spec |-> t.spec,
                          provider |-> t.provider, rows |-> t.rows]
  <2>1. CASE \E body \in Flat : t = Stored(FlatRequest(body))
    <3>1. AllCanonical(<<>>)
      BY ShortLists DEF AllCanonical
    <3>2. PICK body \in Flat : t = Stored(FlatRequest(body))
      BY <2>1
    <3>3. t.rows = RowsOf(<<>>)
      BY <3>2 DEF Stored, FlatRequest
    <3>. QED
      BY <3>1, <3>2, <3>3 DEF Stored
  <2>2. CASE c \in Cards /\ \E p \in Parsers, source \in Sources :
                               t = Stored(Parsed("create", p, source, c))
    <3>1. PICK p \in Parsers, source \in Sources : t = Stored(Parsed("create", p, source, c))
      BY <2>2
    <3>2. t.rows = RowsOf(Parse(p, c).caps)
      BY <3>1 DEF Stored, Parsed
    <3>. QED
      BY <2>2, <3>1, <3>2, ParseCanonical DEF Stored
  <2>. QED
    BY <2>1, <2>2 DEF MadeFrom
<1>2. RowsOf(LoadCapabilities(t.rows)) = t.rows
  BY <1>1, RowsKept DEF Back
<1>3. Stored(req) = [protocol |-> t.protocol, endpoint |-> t.endpoint,
                     version |-> t.version, spec |-> t.spec,
                     provider |-> {}, rows |-> RowsOf(LoadCapabilities(t.rows))]
  BY DEF Stored, Loaded
<1>. QED
  BY <1>1, <1>2, <1>3

-----------------------------------------------------------------------------
(* The steps *)

\* Empty tables and no requests.
LEMMA InitCatalog == CatalogInit => CatalogInv
<1>. SUFFICES ASSUME CatalogInit PROVE CatalogInv
  OBVIOUS
<1>1. /\ \A i \in Ids : entries[i] = None /\ types[i] = None /\ cards[i] = None
      /\ \A q \in Actors : reqs[q] = Idle
  BY DEF CatalogInit
<1>2. TablesOK
  BY CatalogAPIAssumption DEF CatalogInit, TablesOK, IsFunction
<1>. QED
  BY <1>1, <1>2 DEF CatalogInv, TypesOK, RequestsOK, CardsOwned, Exists, Known

\* A request that stays as it is fits still, if what it refers to is still there.
LEMMA OtherRequestFits ==
    ASSUME NEW r \in Actors, RequestOK(r), reqs'[r] = reqs[r],
           providers \subseteq providers',
           \A i \in Ids : Known(i) => types'[i] # None,
           r = Manager =>
              \A i \in Ids :
                 Known(i) => /\ types'[i] = types[i]
                             /\ entries'[i] # None /\ entries'[i].source = "push" =>
                                   Exists(i) /\ entries[i].source = "push"
    PROVE  RequestOK(r)'
<1>1. ASSUME ParsedOK(r) PROVE ParsedOK(r)'
  BY <1>1 DEF ParsedOK
<1>2. ASSUME FlatOK(r) PROVE FlatOK(r)'
  BY <1>2 DEF FlatOK
<1>3. ASSUME CardOK(r) PROVE CardOK(r)'
  BY <1>3 DEF CardOK, Known
<1>4. ASSUME FetchOK(r) PROVE FetchOK(r)'
  BY <1>4 DEF FetchOK
<1>5. ASSUME SaveOK(r) PROVE SaveOK(r)'
  <2>1. r = Manager
    BY <1>5 DEF SaveOK
  <2>2. PICK i \in Ids, e \in EntryRow :
          /\ e.source = "config"
          /\ Known(i)
          /\ ~(Exists(i) /\ entries[i].source = "push")
          /\ \/ /\ types[i].provider = {}
                /\ reqs[r] = [at |-> "save", id |-> i, entry |-> e, type |-> Loaded(types[i]),
                              card |-> None, source |-> "config"]
             \/ \E p \in Parsers, c \in Cards :
                   /\ Parse(p, c).ok
                   /\ reqs[r] = [at |-> "save", id |-> i, entry |-> e, type |-> Parse(p, c),
                                 card |-> c, source |-> "config"]
    BY <1>5, Zenon DEF SaveOK
  <2>3. /\ types'[i] = types[i] /\ types'[i] # None
        /\ ~(entries'[i] # None /\ entries'[i].source = "push")
    BY <2>1, <2>2 DEF Known
  <2>4. \/ /\ types'[i].provider = {}
           /\ reqs'[r] = [at |-> "save", id |-> i, entry |-> e, type |-> Loaded(types'[i]),
                          card |-> None, source |-> "config"]
        \/ \E p \in Parsers, c \in Cards :
              /\ Parse(p, c).ok
              /\ reqs'[r] = [at |-> "save", id |-> i, entry |-> e, type |-> Parse(p, c),
                             card |-> c, source |-> "config"]
    BY <2>2, <2>3, Zenon
  <2>. QED
    BY <2>1, <2>2, <2>3, <2>4, Zenon DEF SaveOK, Known, Exists, Loaded
<1>. QED
  BY <1>1, <1>2, <1>3, <1>4, <1>5 DEF RequestOK

\* A step that changes nothing but one request, which does not get to storing a card.
LEMMA RequestStep ==
    ASSUME CatalogInv, NEW q \in Actors, NEW v, reqs' = [reqs EXCEPT ![q] = v],
           UNCHANGED tables, faults' \in 0 .. MaxFaults,
           v = Idle \/ (ParsedOK(q) \/ FlatOK(q) \/ FetchOK(q) \/ SaveOK(q))'
    PROVE  CatalogInv'
<1>1. /\ entries' = entries /\ types' = types /\ providers' = providers
      /\ cards' = cards /\ shown' = shown
  BY DEF tables
<1>2. IsFunction(reqs, Actors)
  BY DEF CatalogInv, TablesOK
<1>3. IsFunction(reqs', Actors) /\ reqs'[q] = v /\ \A r \in Actors : r # q => reqs'[r] = reqs[r]
  BY <1>2 DEF IsFunction
<1>4. TablesOK'
  BY <1>1, <1>3 DEF CatalogInv, TablesOK, IsFunction
<1>5. TypesOK'
  BY <1>1 DEF CatalogInv, TypesOK, Exists, Known
<1>6. RequestsOK'
  <2>. SUFFICES ASSUME NEW r \in Actors, reqs'[r] # Idle
                PROVE  RequestOK(r)'
    BY DEF RequestsOK
  <2>1. CASE r = q
    BY <1>3, <2>1 DEF RequestOK
  <2>2. CASE r # q
    <3>1. RequestOK(r) /\ reqs'[r] = reqs[r]
      BY <1>3, <2>2 DEF CatalogInv, RequestsOK
    <3>. QED
      BY <1>1, <3>1, OtherRequestFits DEF Known, Exists
  <2>. QED
    BY <2>1, <2>2
<1>7. ~At(q, "card")'
  <2>1. CASE v = Idle
    BY <1>3, <2>1 DEF At
  <2>2. CASE ParsedOK(q)'
    BY <2>2 DEF ParsedOK, Parsed, At
  <2>3. CASE FlatOK(q)'
    <3>1. \A body : FlatRequest(body).at = "create"
      BY DEF FlatRequest
    <3>. QED
      BY <2>3, <3>1 DEF FlatOK, At
  <2>4. CASE FetchOK(q)'
    BY <2>4 DEF FetchOK, At
  <2>5. CASE SaveOK(q)'
    <3>1. \A i, e, t, c : [at |-> "save", id |-> i, entry |-> e, type |-> t, card |-> c,
                           source |-> "config"].at = "save"
      OBVIOUS
    <3>2. reqs'[q].at = "save"
      BY <2>5, <3>1, Zenon DEF SaveOK
    <3>. QED
      BY <3>2 DEF At
  <2>. QED
    BY <2>1, <2>2, <2>3, <2>4, <2>5
<1>8. CardsOwned'
  <2>. SUFFICES ASSUME NEW i \in Ids, entries'[i] # None, entries'[i].source = "push"
                PROVE  /\ cards'[i] # None => cards'[i].card = shown'[i]
                       /\ \A r \in Actors :
                             At(r, "card")' /\ reqs'[r].id = i => reqs'[r].card = shown'[i]
    BY DEF CardsOwned, Exists
  <2>1. /\ cards[i] # None => cards[i].card = shown[i]
        /\ \A r \in Actors : At(r, "card") /\ reqs[r].id = i => reqs[r].card = shown[i]
    BY <1>1 DEF CatalogInv, CardsOwned, Exists
  <2>2. ASSUME NEW r \in Actors, At(r, "card")', reqs'[r].id = i
        PROVE  reqs'[r].card = shown'[i]
    <3>1. r # q
      BY <1>7, <2>2
    <3>. QED
      BY <1>1, <1>3, <2>1, <2>2, <3>1 DEF At
  <2>. QED
    BY <1>1, <2>1, <2>2
<1>. QED
  BY <1>4, <1>5, <1>6, <1>8 DEF CatalogInv

\* The source that is written for what an actor has parsed.
SourceOf(q) == IF q = Manager THEN "config" ELSE "push"

\* A card has been parsed, and its provider is there if it is to be created next.
LEMMA NowParsed ==
    ASSUME CatalogInv, NEW q \in Actors, NEW p \in Parsers, NEW c \in Cards, Parse(p, c).ok,
           NEW stage \in {"provider", "newProvider", "create"},
           reqs' = [reqs EXCEPT ![q] = Parsed(stage, p, SourceOf(q), c)],
           stage = "create" /\ q # Manager => Parse(p, c).provider \subseteq providers'
    PROVE  ParsedOK(q)'
<1>1. reqs'[q] = Parsed(stage, p, SourceOf(q), c)
  BY DEF CatalogInv, TablesOK, IsFunction
<1>. QED
  BY <1>1 DEF ParsedOK, SourceOf

\* Moving on with a parsed card.
LEMMA GotoParsed ==
    ASSUME CatalogInv, NEW q \in Actors, NEW at, NEW p, NEW source, NEW c, NEW stage,
           reqs[q] = Parsed(at, p, source, c), Goto(q, stage)
    PROVE  reqs' = [reqs EXCEPT ![q] = Parsed(stage, p, source, c)]
<1>1. [reqs[q] EXCEPT !.at = stage] = Parsed(stage, p, source, c)
  BY DEF Parsed
<1>2. reqs' = [reqs EXCEPT ![q] = [reqs[q] EXCEPT !.at = stage]]
  BY DEF Goto
<1>. QED
  BY <1>1, <1>2

\* A manager is no request.
LEMMA RequestActor ==
    ASSUME NEW q \in Reqs
    PROVE  q \in Actors /\ q # Manager /\ SourceOf(q) = "push"
BY CatalogAPIAssumption DEF Actors, SourceOf

\* RegisterAgentCard preserves the invariant.
LEMMA RegisterFits ==
    ASSUME CatalogInv, NEW q \in Reqs, NEW c \in Cards, RegisterAgentCard(q, c)
    PROVE  CatalogInv'
<1>1. /\ q \in Actors /\ q # Manager
      /\ reqs' = [reqs EXCEPT ![q] = Parsed("provider", "a2a", SourceOf(q), c)]
      /\ "a2a" \in Parsers /\ Parse("a2a", c).ok
  BY RequestActor DEF RegisterAgentCard, Accepts, Go
<1>2. ParsedOK(q)'
  BY <1>1, NowParsed
<1>3. UNCHANGED tables /\ faults' \in 0 .. MaxFaults
  BY DEF RegisterAgentCard, CatalogInv, TablesOK
<1>. QED
  BY <1>1, <1>2, <1>3, RequestStep

\* FetchCard preserves the invariant, whatever protocol it finds.
LEMMA FetchFits ==
    ASSUME CatalogInv, NEW q \in Reqs, NEW c \in Cards, FetchCard(q, c)
    PROVE  CatalogInv'
<1>1. UNCHANGED tables /\ faults' \in 0 .. MaxFaults /\ q \in Actors /\ q # Manager
  BY RequestActor DEF FetchCard, CatalogInv, TablesOK
<1>. DEFINE protocol == IF reqs[q].body.protocol # "" THEN reqs[q].body.protocol
                        ELSE DetectProtocol(reqs[q].body.path, c)
<1>2. IF Accepts(protocol, c)
      THEN Go(q, Parsed("provider", protocol, "push", c))
      ELSE Return(q)
  BY DEF FetchCard
<1>. HIDE DEF protocol
<1>3. CASE Accepts(protocol, c)
  <2>1. protocol \in Parsers /\ Parse(protocol, c).ok
    BY <1>3 DEF Accepts
  <2>2. reqs' = [reqs EXCEPT ![q] = Parsed("provider", protocol, SourceOf(q), c)]
    BY <1>2, <1>3, RequestActor DEF Go
  <2>3. ParsedOK(q)'
    BY <1>1, <2>1, <2>2, NowParsed
  <2>. QED
    BY <1>1, <2>2, <2>3, RequestStep
<1>4. CASE ~Accepts(protocol, c)
  BY <1>1, <1>2, <1>4, RequestStep DEF Return
<1>. QED
  BY <1>3, <1>4

\* CreateEntry preserves the invariant.
LEMMA CreateEntryFits ==
    ASSUME CatalogInv, NEW q \in Reqs, NEW body \in Flat, CreateEntry(q, body)
    PROVE  CatalogInv'
<1>1. /\ UNCHANGED tables /\ faults' \in 0 .. MaxFaults /\ q \in Actors /\ q # Manager
      /\ body.endpoint # "" /\ body.protocol \in Protocols
      /\ reqs' = [reqs EXCEPT ![q] = FlatRequest(body)]
  BY RequestActor DEF CreateEntry, CatalogInv, TablesOK, Go
<1>2. reqs'[q] = FlatRequest(body)
  BY <1>1 DEF CatalogInv, TablesOK, IsFunction
<1>3. FlatOK(q)'
  BY <1>1, <1>2, Zenon DEF FlatOK
<1>. QED
  BY <1>1, <1>3, RequestStep

\* UpsertProvider preserves the invariant: on to creation only with the provider there.
LEMMA UpsertProviderFits ==
    ASSUME CatalogInv, NEW q \in Reqs, UpsertProvider(q)
    PROVE  CatalogInv'
<1>1. UNCHANGED tables /\ q \in Actors /\ q # Manager /\ SourceOf(q) = "push"
  BY RequestActor DEF UpsertProvider
<1>2. faults' \in 0 .. MaxFaults
  BY CatalogAPIAssumption DEF UpsertProvider, CatalogInv, TablesOK
<1>3. PICK p \in Parsers, c \in Cards, at \in {"provider", "newProvider", "create"} :
          Parse(p, c).ok /\ reqs[q] = Parsed(at, p, SourceOf(q), c)
  BY <1>1, StageFacts DEF UpsertProvider, CatalogInv, ParsedOK, SourceOf
<1>4. reqs[q].type.provider = Parse(p, c).provider
  BY <1>3 DEF Parsed
<1>5. PICK stage \in {"newProvider", "create"} :
          /\ Goto(q, stage)
          /\ stage = "create" => Parse(p, c).provider \subseteq providers
  BY <1>4 DEF UpsertProvider
<1>6. reqs' = [reqs EXCEPT ![q] = Parsed(stage, p, SourceOf(q), c)]
  BY <1>1, <1>3, <1>5, GotoParsed
<1>7. ParsedOK(q)'
  BY <1>1, <1>3, <1>5, <1>6, NowParsed DEF tables
<1>. QED
  BY <1>1, <1>2, <1>6, <1>7, RequestStep

\* Abort preserves the invariant.
LEMMA AbortFits ==
    ASSUME CatalogInv, NEW q \in Actors, Abort(q)
    PROVE  CatalogInv'
<1>1. UNCHANGED tables /\ reqs' = [reqs EXCEPT ![q] = Idle]
  BY DEF Abort, Return
<1>2. faults' \in 0 .. MaxFaults
  BY CatalogAPIAssumption DEF Abort, CatalogInv, TablesOK
<1>. QED
  BY <1>1, <1>2, RequestStep

\* ImportCatalogEntry preserves the invariant.
LEMMA ImportFits ==
    ASSUME CatalogInv, NEW q \in Reqs, NEW body \in Imports, ImportCatalogEntry(q, body)
    PROVE  CatalogInv'
<1>1. /\ UNCHANGED tables /\ faults' \in 0 .. MaxFaults /\ q \in Actors
      /\ reqs' = [reqs EXCEPT ![q] = [at |-> "dial", hops |-> 0, body |-> body]]
  BY RequestActor DEF ImportCatalogEntry, CatalogInv, TablesOK, Go
<1>2. 0 \in Hops
  BY CatalogAPIAssumption DEF Hops
<1>3. FetchOK(q)'
  BY <1>1, <1>2 DEF FetchOK, CatalogInv, TablesOK, IsFunction
<1>. QED
  BY <1>1, <1>3, RequestStep

\* What a request that fetches a card has.
LEMMA FetchFacts ==
    ASSUME CatalogInv, NEW q \in Actors, At(q, "dial") \/ At(q, "connected")
    PROVE  reqs[q].hops \in Hops /\ reqs[q].body \in Imports
<1>1. FetchOK(q)
  BY StageFacts DEF CatalogInv
<1>2. PICK hops \in Hops, body \in Imports :
        \/ reqs[q] = [at |-> "dial", hops |-> hops, body |-> body]
        \/ reqs[q] = [at |-> "connected", hops |-> hops, body |-> body, address |-> "public"]
  BY <1>1, Zenon DEF FetchOK
<1>. QED
  BY <1>2

\* Dial preserves the invariant: it goes on with a public address only.
LEMMA DialFits ==
    ASSUME CatalogInv, NEW q \in Reqs, NEW address \in Addresses, Dial(q, address)
    PROVE  CatalogInv'
<1>1. UNCHANGED tables /\ faults' \in 0 .. MaxFaults /\ q \in Actors
  BY RequestActor DEF Dial, CatalogInv, TablesOK
<1>2. CASE DialAllowed(address)
  <2>1. address = "public"
    BY <1>2 DEF DialAllowed, Addresses
  <2>2. PICK hops \in Hops, body \in Imports :
           reqs[q].hops = hops /\ reqs[q].body = body
    BY <1>1, FetchFacts DEF Dial
  <2>. DEFINE v == [at |-> "connected", hops |-> hops, body |-> body, address |-> "public"]
  <2>3. reqs' = [reqs EXCEPT ![q] = v]
    BY <1>2, <2>1, <2>2 DEF Dial, Go
  <2>4. reqs'[q] = v
    BY <1>1, <2>3 DEF CatalogInv, TablesOK, IsFunction
  <2>5. FetchOK(q)'
    BY <2>4, Zenon DEF FetchOK
  <2>. QED
    BY <1>1, <2>3, <2>5, RequestStep
<1>3. CASE ~DialAllowed(address)
  BY <1>1, <1>3, RequestStep DEF Dial, Return
<1>. QED
  BY <1>2, <1>3

\* Redirect preserves the invariant: it counts up to the limit.
LEMMA RedirectFits ==
    ASSUME CatalogInv, NEW q \in Reqs, NEW u \in Imports, Redirect(q, u)
    PROVE  CatalogInv'
<1>1. UNCHANGED tables /\ faults' \in 0 .. MaxFaults /\ q \in Actors
  BY RequestActor DEF Redirect, CatalogInv, TablesOK
<1>2. PICK hops \in Hops, body \in Imports :
         reqs[q].hops = hops /\ reqs[q].body = body
  BY <1>1, FetchFacts DEF Redirect
<1>. DEFINE v == [at |-> "dial", hops |-> hops + 1, body |-> body]
<1>3. \/ hops + 1 < MaxRedirects /\ reqs' = [reqs EXCEPT ![q] = v]
      \/ reqs' = [reqs EXCEPT ![q] = Idle]
  BY <1>2 DEF Redirect, Go, Return
<1>4. CASE hops + 1 < MaxRedirects /\ reqs' = [reqs EXCEPT ![q] = v]
  <2>1. hops + 1 \in Hops
    BY <1>4, CatalogAPIAssumption DEF Hops
  <2>2. reqs'[q] = v
    BY <1>1, <1>4 DEF CatalogInv, TablesOK, IsFunction
  <2>3. FetchOK(q)'
    BY <2>1, <2>2, Zenon DEF FetchOK
  <2>. QED
    BY <1>1, <1>4, <2>3, RequestStep
<1>5. CASE reqs' = [reqs EXCEPT ![q] = Idle]
  BY <1>1, <1>5, RequestStep
<1>. QED
  BY <1>3, <1>4, <1>5

\* DiscoverCard preserves the invariant: the manager takes a copy of no pushed entry.
LEMMA DiscoverFits ==
    ASSUME CatalogInv, NEW p \in Parsers, NEW c \in Cards, DiscoverCard(p, c)
    PROVE  CatalogInv'
<1>1. /\ UNCHANGED tables /\ faults' \in 0 .. MaxFaults /\ Manager \in Actors
      /\ SourceOf(Manager) = "config" /\ Parse(p, c).ok
  BY DEF DiscoverCard, CatalogInv, TablesOK, Actors, SourceOf
<1>2. CASE Go(Manager, Parsed("create", p, "config", c))
  <2>1. reqs' = [reqs EXCEPT ![Manager] = Parsed("create", p, SourceOf(Manager), c)]
    BY <1>1, <1>2 DEF Go
  <2>2. ParsedOK(Manager)'
    BY <1>1, <2>1, NowParsed
  <2>. QED
    BY <1>1, <2>1, <2>2, RequestStep
<1>3. ASSUME NEW i \in FindByEndpoint(Parse(p, c).endpoint), ~SkipsPushed(i),
             Go(Manager, [at |-> "save", id |-> i, entry |-> entries[i],
                          type |-> Parse(p, c), card |-> c, source |-> "config"])
      PROVE  CatalogInv'
  <2>. DEFINE v == [at |-> "save", id |-> i, entry |-> entries[i],
                    type |-> Parse(p, c), card |-> c, source |-> "config"]
  <2>1. i \in Ids /\ Exists(i)
    BY DEF FindByEndpoint
  <2>2. entries[i] \in EntryRow /\ Known(i)
    BY <2>1 DEF CatalogInv, TablesOK, TypesOK, Exists
  <2>3. entries[i].source = "config" /\ ~(Exists(i) /\ entries[i].source = "push")
    BY <1>3, <2>2 DEF EntryRow, Sources, SkipsPushed
  <2>4. reqs' = [reqs EXCEPT ![Manager] = v]
    BY <1>3 DEF Go
  <2>5. reqs'[Manager] = v
    BY <1>1, <2>4 DEF CatalogInv, TablesOK, IsFunction
  <2>6. entries' = entries /\ types' = types
    BY <1>1 DEF tables
  <2>7. SaveOK(Manager)'
    BY <1>1, <2>1, <2>2, <2>3, <2>5, <2>6, Zenon DEF SaveOK, Known, Exists
  <2>. QED
    BY <1>1, <2>4, <2>7, RequestStep
<1>. QED
  BY <1>2, <1>3 DEF DiscoverCard

\* MarkDown preserves the invariant.
LEMMA MarkDownFits ==
    ASSUME CatalogInv, NEW i \in Ids, MarkDown(i)
    PROVE  CatalogInv'
<1>. DEFINE e == [entries[i] EXCEPT !.status = "offline"]
            v == [at |-> "save", id |-> i, entry |-> e, type |-> Loaded(types[i]),
                  card |-> None, source |-> "config"]
<1>1. /\ UNCHANGED tables /\ faults' \in 0 .. MaxFaults /\ Manager \in Actors
      /\ Exists(i) /\ entries[i].source = "config"
  BY DEF MarkDown, CatalogInv, TablesOK, Actors, List
<1>2. entries[i] \in EntryRow /\ Known(i) /\ types[i].provider = {}
  BY <1>1 DEF CatalogInv, TablesOK, TypesOK, Exists
<1>3. e \in EntryRow /\ e.source = "config"
  BY <1>1, <1>2 DEF EntryRow, Statuses
<1>. HIDE DEF e
<1>4. reqs' = [reqs EXCEPT ![Manager] = v]
  BY DEF MarkDown, Go, e
<1>5. reqs'[Manager] = v
  BY <1>1, <1>4 DEF CatalogInv, TablesOK, IsFunction
<1>6. entries' = entries /\ types' = types
  BY <1>1 DEF tables
<1>7. ~(Exists(i) /\ entries[i].source = "push")
  BY <1>1
<1>8. SaveOK(Manager)'
  BY <1>1, <1>2, <1>3, <1>5, <1>6, <1>7, Zenon DEF SaveOK, Known, Exists, Loaded
<1>. QED
  BY <1>1, <1>4, <1>8, RequestStep

\* A step that changes nothing but entries, and no source of one.
LEMMA EntriesStep ==
    ASSUME CatalogInv, UNCHANGED <<types, providers, cards, reqs, faults, shown>>,
           entries' \in [Ids -> EntryRow \cup {None}],
           \A i \in Ids : entries'[i] # None =>
                             Exists(i) /\ entries'[i].source = entries[i].source
    PROVE  CatalogInv'
<1>1. TablesOK'
  BY DEF CatalogInv, TablesOK, IsFunction
<1>2. TypesOK'
  BY DEF CatalogInv, TypesOK, Exists, Known
<1>3. RequestsOK'
  <2>. SUFFICES ASSUME NEW r \in Actors, reqs'[r] # Idle
                PROVE  RequestOK(r)'
    BY DEF RequestsOK
  <2>1. RequestOK(r)
    BY DEF CatalogInv, RequestsOK
  <2>. QED
    BY <2>1, OtherRequestFits DEF Known, Exists
<1>4. CardsOwned'
  BY DEF CatalogInv, CardsOwned, Exists, At
<1>. QED
  BY <1>1, <1>2, <1>3, <1>4 DEF CatalogInv

\* DeleteEntry preserves the invariant.
LEMMA DeleteFits ==
    ASSUME CatalogInv, NEW i \in Ids, DeleteEntry(i)
    PROVE  CatalogInv'
<1>1. entries' = [entries EXCEPT ![i] = None] /\ entries \in [Ids -> EntryRow \cup {None}]
  BY DEF DeleteEntry, CatalogInv, TablesOK
<1>2. /\ entries' \in [Ids -> EntryRow \cup {None}]
      /\ \A j \in Ids : entries'[j] # None => Exists(j) /\ entries'[j].source = entries[j].source
  BY <1>1 DEF Exists
<1>. QED
  BY <1>2, EntriesStep DEF DeleteEntry

\* SetStatus preserves the invariant.
LEMMA SetStatusFits ==
    ASSUME CatalogInv, NEW i \in Ids, NEW status \in Reached, SetStatus(i, status)
    PROVE  CatalogInv'
<1>. DEFINE e == [entries[i] EXCEPT !.status = status]
<1>1. /\ entries' = [entries EXCEPT ![i] = e] /\ entries \in [Ids -> EntryRow \cup {None}]
      /\ Exists(i) /\ entries[i] \in EntryRow
  BY DEF SetStatus, CatalogInv, TablesOK, Exists
<1>2. e \in EntryRow /\ e.source = entries[i].source
  BY <1>1, CatalogAPIAssumption DEF EntryRow
<1>. HIDE DEF e
<1>3. /\ entries' \in [Ids -> EntryRow \cup {None}]
      /\ \A j \in Ids : entries'[j] # None => Exists(j) /\ entries'[j].source = entries[j].source
  BY <1>1, <1>2 DEF Exists
<1>. QED
  BY <1>3, EntriesStep DEF SetStatus

\* InsertProvider preserves the invariant: nothing that refers to a provider loses it.
LEMMA InsertProviderFits ==
    ASSUME CatalogInv, NEW q \in Reqs, InsertProvider(q)
    PROVE  CatalogInv'
<1>1. /\ q \in Actors /\ q # Manager /\ SourceOf(q) = "push"
      /\ entries' = entries /\ types' = types /\ cards' = cards /\ shown' = shown
      /\ faults' = faults /\ faults \in 0 .. MaxFaults
  BY RequestActor DEF InsertProvider, CatalogInv, TablesOK
<1>2. PICK p \in Parsers, c \in Cards, at \in {"provider", "newProvider", "create"} :
          Parse(p, c).ok /\ reqs[q] = Parsed(at, p, SourceOf(q), c)
  BY <1>1, StageFacts DEF InsertProvider, CatalogInv, ParsedOK, SourceOf
<1>3. reqs[q].type.provider = Parse(p, c).provider
  BY <1>2 DEF Parsed
<1>4. CASE Return(q) /\ UNCHANGED providers
  BY <1>1, <1>4, RequestStep DEF Return, tables
<1>5. CASE providers' = providers \cup Parse(p, c).provider /\ Goto(q, "create")
  <2>1. reqs' = [reqs EXCEPT ![q] = Parsed("create", p, SourceOf(q), c)]
    BY <1>1, <1>2, <1>5, GotoParsed
  <2>2. ParsedOK(q)'
    BY <1>1, <1>2, <1>5, <2>1, NowParsed
  <2>3. /\ IsFunction(reqs', Actors) /\ reqs'[q].at = "create"
        /\ \A r \in Actors : r # q => reqs'[r] = reqs[r]
    BY <1>1, <2>1 DEF CatalogInv, TablesOK, IsFunction, Parsed
  <2>4. TablesOK'
    BY <1>1, <2>3 DEF CatalogInv, TablesOK, IsFunction
  <2>5. TypesOK'
    BY <1>1, <1>5 DEF CatalogInv, TypesOK, Exists, Known
  <2>6. RequestsOK'
    <3>. SUFFICES ASSUME NEW r \in Actors, reqs'[r] # Idle
                  PROVE  RequestOK(r)'
      BY DEF RequestsOK
    <3>1. CASE r = q
      BY <2>2, <3>1 DEF RequestOK
    <3>2. CASE r # q
      <4>1. RequestOK(r) /\ reqs'[r] = reqs[r]
        BY <2>3, <3>2 DEF CatalogInv, RequestsOK
      <4>. QED
        BY <1>1, <1>5, <4>1, OtherRequestFits DEF Known, Exists
    <3>. QED
      BY <3>1, <3>2
  <2>7. CardsOwned'
    <3>1. ASSUME NEW r \in Actors, At(r, "card")'
          PROVE  At(r, "card") /\ reqs'[r] = reqs[r]
      BY <2>3, <3>1 DEF At
    <3>. QED
      BY <1>1, <3>1 DEF CatalogInv, CardsOwned, Exists
  <2>. QED
    BY <2>4, <2>5, <2>6, <2>7 DEF CatalogInv
<1>. QED
  BY <1>3, <1>4, <1>5 DEF InsertProvider

\* StoreCard preserves the invariant: the card goes to the type that was made from it.
LEMMA StoreCardFits ==
    ASSUME CatalogInv, NEW q \in Actors, StoreCard(q)
    PROVE  CatalogInv'
<1>1. /\ entries' = entries /\ types' = types /\ providers' = providers
      /\ shown' = shown /\ faults' = faults
      /\ IsFunction(reqs, Actors) /\ IsFunction(cards, Ids)
      /\ reqs' = [reqs EXCEPT ![q] = Idle]
  BY DEF StoreCard, CatalogInv, TablesOK, Return
<1>2. PICK i \in Ids, c \in Cards :
         Known(i) /\ reqs[q] = [at |-> "card", id |-> i, card |-> c]
  BY StageFacts DEF StoreCard, CatalogInv, CardOK
<1>. DEFINE row == [card |-> c, truncated |-> c.long]
<1>3. cards' = [cards EXCEPT ![i] = row]
  BY <1>2 DEF StoreCard
<1>4. /\ IsFunction(cards', Ids) /\ cards'[i] = row
      /\ \A j \in Ids : j # i => cards'[j] = cards[j]
      /\ IsFunction(reqs', Actors) /\ reqs'[q] = Idle
      /\ \A r \in Actors : r # q => reqs'[r] = reqs[r]
  BY <1>1, <1>3 DEF IsFunction
<1>5. row.card = c
  OBVIOUS
<1>. HIDE DEF row
<1>6. TablesOK'
  BY <1>1, <1>4 DEF CatalogInv, TablesOK, IsFunction
<1>7. TypesOK'
  <2>. SUFFICES ASSUME NEW j \in Ids
                PROVE  cards'[j] # None => Known(j)
    BY <1>1 DEF CatalogInv, TypesOK, Exists, Known
  <2>1. CASE j = i
    BY <1>2, <2>1
  <2>2. CASE j # i
    BY <1>4, <2>2 DEF CatalogInv, TypesOK
  <2>. QED
    BY <2>1, <2>2
<1>8. RequestsOK'
  <2>. SUFFICES ASSUME NEW r \in Actors, reqs'[r] # Idle
                PROVE  RequestOK(r)'
    BY DEF RequestsOK
  <2>1. RequestOK(r) /\ reqs'[r] = reqs[r]
    BY <1>4 DEF CatalogInv, RequestsOK
  <2>. QED
    BY <1>1, <2>1, OtherRequestFits DEF Known, Exists
<1>9. CardsOwned'
  <2>. SUFFICES ASSUME NEW j \in Ids, entries[j] # None, entries[j].source = "push"
                PROVE  /\ cards'[j] # None => cards'[j].card = shown[j]
                       /\ \A r \in Actors :
                             At(r, "card")' /\ reqs'[r].id = j => reqs'[r].card = shown[j]
    BY <1>1 DEF CardsOwned, Exists
  <2>1. /\ cards[j] # None => cards[j].card = shown[j]
        /\ \A r \in Actors : At(r, "card") /\ reqs[r].id = j => reqs[r].card = shown[j]
    BY DEF CatalogInv, CardsOwned, Exists
  <2>2. cards'[j] # None => cards'[j].card = shown[j]
    <3>1. CASE j = i
      <4>1. c = shown[i]
        BY <1>2, <2>1, <3>1 DEF StoreCard
      <4>. QED
        BY <1>4, <1>5, <3>1, <4>1
    <3>2. CASE j # i
      BY <1>4, <2>1, <3>2
    <3>. QED
      BY <3>1, <3>2
  <2>3. ASSUME NEW r \in Actors, At(r, "card")', reqs'[r].id = j
        PROVE  reqs'[r].card = shown[j]
    BY <1>4, <2>1, <2>3 DEF At
  <2>. QED
    BY <2>2, <2>3
<1>. QED
  BY <1>6, <1>7, <1>8, <1>9 DEF CatalogInv

\* A step that writes an agent type, its entry and the card it is shown with: either a
\* new one, or one that the manager saves over what came from discovery.
LEMMA WriteStep ==
    ASSUME CatalogInv, NEW q \in Actors, NEW i \in Ids, NEW t, NEW e \in EntryRow, NEW c, NEW v,
           types' = [types EXCEPT ![i] = t], entries' = [entries EXCEPT ![i] = e],
           shown' = [shown EXCEPT ![i] = c], reqs' = [reqs EXCEPT ![q] = v],
           UNCHANGED <<providers, cards, faults>>,
           MadeFrom(t, c), t.provider \subseteq providers, UniqueRows(t.rows),
           e.source = "config" => t.provider = {},
           v = Idle \/ (c \in Cards /\ v = [at |-> "card", id |-> i, card |-> c]),
           ~Known(i) \/ (q = Manager /\ e.source = "config")
    PROVE  CatalogInv'
<1>1. /\ entries \in [Ids -> EntryRow \cup {None}]
      /\ types \in [Ids -> TypeRows \cup {None}]
      /\ shown \in [Ids -> Cards \cup {None}]
      /\ IsFunction(cards, Ids) /\ IsFunction(reqs, Actors) /\ faults \in 0 .. MaxFaults
  BY DEF CatalogInv, TablesOK
<1>2. t \in TypeRows /\ t # None
  BY MadeFromFacts
<1>3. c \in Cards \cup {None}
  BY DEF MadeFrom
<1>4. /\ types'[i] = t /\ entries'[i] = e /\ shown'[i] = c /\ reqs'[q] = v
      /\ \A j \in Ids : j # i => /\ types'[j] = types[j] /\ entries'[j] = entries[j]
                                 /\ shown'[j] = shown[j]
      /\ \A r \in Actors : r # q => reqs'[r] = reqs[r]
      /\ IsFunction(reqs', Actors)
  BY <1>1 DEF IsFunction
<1>5. TablesOK'
  <2>1. /\ entries' \in [Ids -> EntryRow \cup {None}]
        /\ types' \in [Ids -> TypeRows \cup {None}]
        /\ shown' \in [Ids -> Cards \cup {None}]
    BY <1>1, <1>2, <1>3
  <2>. QED
    BY <1>1, <1>4, <2>1 DEF TablesOK, IsFunction
<1>6. TypesOK'
  <2>. SUFFICES ASSUME NEW j \in Ids
                PROVE  /\ entries'[j] # None => types'[j] # None
                       /\ cards[j] # None => types'[j] # None
                       /\ types'[j] # None => /\ MadeFrom(types'[j], shown'[j])
                                              /\ types'[j].provider \subseteq providers
                                              /\ UniqueRows(types'[j].rows)
                       /\ entries'[j] # None /\ entries'[j].source = "config"
                             => types'[j].provider = {}
    BY DEF TypesOK, Exists, Known
  <2>1. CASE j = i
    BY <1>2, <1>4, <2>1
  <2>2. CASE j # i
    BY <1>4, <2>2 DEF CatalogInv, TypesOK, Exists, Known
  <2>. QED
    BY <2>1, <2>2
<1>7. RequestsOK'
  <2>. SUFFICES ASSUME NEW r \in Actors, reqs'[r] # Idle
                PROVE  RequestOK(r)'
    BY DEF RequestsOK
  <2>1. CASE r = q
    <3>1. c \in Cards /\ reqs'[q] = [at |-> "card", id |-> i, card |-> c]
      BY <1>4, <2>1
    <3>2. CardOK(q)'
      BY <1>2, <1>4, <3>1, Zenon DEF CardOK, Known
    <3>. QED
      BY <2>1, <3>2 DEF RequestOK
  <2>2. CASE r # q
    <3>1. RequestOK(r) /\ reqs'[r] = reqs[r]
      BY <1>4, <2>2 DEF CatalogInv, RequestsOK
    <3>2. \A j \in Ids : Known(j) => types'[j] # None
      BY <1>2, <1>4 DEF Known
    <3>3. r = Manager =>
             \A j \in Ids :
                Known(j) => /\ types'[j] = types[j]
                            /\ entries'[j] # None /\ entries'[j].source = "push" =>
                                  Exists(j) /\ entries[j].source = "push"
      BY <1>4, <2>2 DEF Exists
    <3>. QED
      BY <3>1, <3>2, <3>3, OtherRequestFits
  <2>. QED
    BY <2>1, <2>2
<1>8. CardsOwned'
  <2>. SUFFICES ASSUME NEW j \in Ids, entries'[j] # None, entries'[j].source = "push"
                PROVE  /\ cards[j] # None => cards[j].card = shown'[j]
                       /\ \A r \in Actors :
                             At(r, "card")' /\ reqs'[r].id = j => reqs'[r].card = shown'[j]
    BY DEF CardsOwned, Exists
  <2>1. CASE j = i
    <3>1. ~Known(i)
      BY <1>4, <2>1
    <3>2. cards[i] = None
      BY <3>1 DEF CatalogInv, TypesOK
    <3>3. ASSUME NEW r \in Actors, At(r, "card")', reqs'[r].id = i
          PROVE  reqs'[r].card = shown'[i]
      <4>1. CASE r = q
        BY <1>4, <3>3, <4>1 DEF At
      <4>2. CASE r # q
        <5>1. At(r, "card") /\ reqs[r].id = i
          BY <1>4, <3>3, <4>2 DEF At
        <5>2. PICK k \in Ids, d \in Cards :
                 Known(k) /\ reqs[r] = [at |-> "card", id |-> k, card |-> d]
          BY <5>1, StageFacts DEF CatalogInv, CardOK
        <5>. QED
          BY <3>1, <5>1, <5>2
      <4>. QED
        BY <4>1, <4>2
    <3>. QED
      BY <2>1, <3>2, <3>3
  <2>2. CASE j # i
    <3>1. /\ cards[j] # None => cards[j].card = shown[j]
          /\ \A r \in Actors : At(r, "card") /\ reqs[r].id = j => reqs[r].card = shown[j]
      BY <1>4, <2>2 DEF CatalogInv, CardsOwned, Exists
    <3>2. ASSUME NEW r \in Actors, At(r, "card")', reqs'[r].id = j
          PROVE  reqs'[r].card = shown'[j]
      <4>1. r # q
        BY <1>4, <2>2, <3>2 DEF At
      <4>. QED
        BY <1>4, <2>2, <3>1, <3>2, <4>1 DEF At
    <3>. QED
      BY <1>4, <2>2, <3>1, <3>2
  <2>. QED
    BY <2>1, <2>2
<1>. QED
  BY <1>5, <1>6, <1>7, <1>8 DEF CatalogInv

\* What is written for a parsed card does not depend on how far the request has come,
\* and has a provider only if it came through the API.
LEMMA StoredParsed ==
    ASSUME NEW p, NEW c, NEW source, NEW req, req.type = Parse(p, c), req.source = source
    PROVE  /\ Stored(req) = Stored(Parsed("create", p, source, c))
           /\ Stored(req).provider = IF source = "push" THEN Parse(p, c).provider ELSE {}
BY DEF Stored, Parsed

\* What is created: an agent type made from the card, with its provider there.
LEMMA CreateFacts ==
    ASSUME CatalogInv, NEW q \in Actors, At(q, "create")
    PROVE  LET t == Stored(reqs[q])
           IN  /\ MadeFrom(t, reqs[q].card) /\ t.provider \subseteq providers
               /\ reqs[q].source \in Sources
               /\ reqs[q].source = "config" => t.provider = {}
<1>1. ParsedOK(q) \/ FlatOK(q)
  BY StageFacts DEF CatalogInv
<1>2. CASE ParsedOK(q)
  <2>1. PICK p \in Parsers, c \in Cards, stage \in {"provider", "newProvider", "create"} :
           /\ Parse(p, c).ok
           /\ reqs[q] = Parsed(stage, p, SourceOf(q), c)
           /\ stage = "create" /\ q # Manager => Parse(p, c).provider \subseteq providers
    BY <1>2 DEF ParsedOK, SourceOf
  <2>2. /\ reqs[q].at = stage /\ reqs[q].type = Parse(p, c) /\ reqs[q].card = c
        /\ reqs[q].source = SourceOf(q) /\ SourceOf(q) \in Sources
    BY <2>1 DEF Parsed, SourceOf, Sources
  <2>3. /\ Stored(reqs[q]) = Stored(Parsed("create", p, SourceOf(q), c))
        /\ Stored(reqs[q]).provider =
              IF SourceOf(q) = "push" THEN Parse(p, c).provider ELSE {}
    BY <2>2, StoredParsed
  <2>4. MadeFrom(Stored(reqs[q]), c)
    BY <2>1, <2>2, <2>3 DEF MadeFrom
  <2>. QED
    BY <2>1, <2>2, <2>3, <2>4 DEF At, SourceOf
<1>3. CASE FlatOK(q)
  <2>1. PICK body \in Flat : /\ body.endpoint # "" /\ body.protocol \in Protocols
                             /\ reqs[q] = FlatRequest(body)
    BY <1>3, Zenon DEF FlatOK
  <2>2. \A b : /\ FlatRequest(b).card = None /\ FlatRequest(b).source = "push"
               /\ Stored(FlatRequest(b)).provider = {}
    BY DEF Stored, FlatRequest
  <2>3. reqs[q].card = None /\ reqs[q].source = "push"
    BY <2>1, <2>2
  <2>4. Stored(reqs[q]).provider = {}
    BY <2>1, <2>2
  <2>5. MadeFrom(Stored(reqs[q]), None)
    BY <2>1, Zenon DEF MadeFrom
  <2>. QED
    BY <2>3, <2>4, <2>5 DEF Sources
<1>. QED
  BY <1>1, <1>2, <1>3

\* Create preserves the invariant.
LEMMA CreateFits ==
    ASSUME CatalogInv, NEW q \in Actors, Create(q)
    PROVE  CatalogInv'
<1>. DEFINE t == Stored(reqs[q])
            card == reqs[q].card
            source == reqs[q].source
<1>1. At(q, "create") /\ providers' = providers /\ cards' = cards /\ faults' = faults
  BY DEF Create
<1>2. CASE KeyTaken(t, None) \/ ~UniqueRows(t.rows)
  <2>1. /\ reqs' = [reqs EXCEPT ![q] = Idle]
        /\ UNCHANGED tables /\ faults' \in 0 .. MaxFaults
    BY <1>1, <1>2 DEF Create, Return, tables, CatalogInv, TablesOK
  <2>. QED
    BY <2>1, RequestStep
<1>3. CASE ~KeyTaken(t, None) /\ UniqueRows(t.rows)
  <2>. DEFINE e == [source |-> source, status |-> "registered"]
  <2>1. PICK i \in {j \in Ids : ~Known(j)} :
           /\ types' = [types EXCEPT ![i] = t]
           /\ entries' = [entries EXCEPT ![i] = e]
           /\ shown' = [shown EXCEPT ![i] = card]
           /\ IF card = None THEN Return(q)
              ELSE Go(q, [at |-> "card", id |-> i, card |-> card])
    BY <1>3 DEF Create
  <2>2. /\ MadeFrom(t, card) /\ t.provider \subseteq providers /\ source \in Sources
        /\ source = "config" => t.provider = {}
    BY <1>1, CreateFacts
  <2>3. e \in EntryRow /\ e.source = source
    BY <2>2 DEF EntryRow, Statuses
  <2>4. card = None \/ card \in Cards
    BY <2>2 DEF MadeFrom
  <2>. HIDE DEF t, e, card, source
  <2>5. PICK v : /\ reqs' = [reqs EXCEPT ![q] = v]
                 /\ \/ v = Idle
                    \/ card \in Cards /\ v = [at |-> "card", id |-> i, card |-> card]
    BY <2>1, <2>4 DEF Return, Go
  <2>6. i \in Ids /\ ~Known(i)
    OBVIOUS
  <2>. QED
    BY <1>1, <1>3, <2>1, <2>2, <2>3, <2>5, <2>6, WriteStep
<1>. QED
  BY <1>2, <1>3

\* Update preserves the invariant: with a card, type and card go together; without one
\* the type is written as it was loaded and is, as nobody else changes it, still there.
LEMMA UpdateFits ==
    ASSUME CatalogInv, NEW q \in Actors, Update(q)
    PROVE  CatalogInv'
<1>. DEFINE t == Stored(reqs[q])
            card == reqs[q].card
<1>1. At(q, "save") /\ providers' = providers /\ cards' = cards /\ faults' = faults
  BY DEF Update
<1>2. CASE KeyTaken(t, reqs[q].id) \/ ~UniqueRows(t.rows)
  <2>1. /\ reqs' = [reqs EXCEPT ![q] = Idle]
        /\ UNCHANGED tables /\ faults' \in 0 .. MaxFaults
    BY <1>1, <1>2 DEF Update, Return, tables, CatalogInv, TablesOK
  <2>. QED
    BY <2>1, RequestStep
<1>3. CASE ~KeyTaken(t, reqs[q].id) /\ UniqueRows(t.rows)
  <2>1. q = Manager /\ SaveOK(q)
    BY <1>1, StageFacts DEF CatalogInv, SaveOK
  <2>2. PICK i \in Ids, e \in EntryRow :
          /\ e.source = "config"
          /\ Known(i)
          /\ \/ /\ types[i].provider = {}
                /\ reqs[q] = [at |-> "save", id |-> i, entry |-> e, type |-> Loaded(types[i]),
                              card |-> None, source |-> "config"]
             \/ \E p \in Parsers, c \in Cards :
                   /\ Parse(p, c).ok
                   /\ reqs[q] = [at |-> "save", id |-> i, entry |-> e, type |-> Parse(p, c),
                                 card |-> c, source |-> "config"]
    BY <2>1, Zenon DEF SaveOK
  <2>. DEFINE Save(ty, c) == [at |-> "save", id |-> i, entry |-> e, type |-> ty,
                              card |-> c, source |-> "config"]
  <2>3. \A ty, c : /\ Save(ty, c).id = i /\ Save(ty, c).entry = e /\ Save(ty, c).type = ty
                   /\ Save(ty, c).card = c /\ Save(ty, c).source = "config"
    OBVIOUS
  <2>4. CASE /\ types[i].provider = {}
             /\ reqs[q] = [at |-> "save", id |-> i, entry |-> e, type |-> Loaded(types[i]),
                           card |-> None, source |-> "config"]
    <3>1. /\ reqs[q].id = i /\ reqs[q].entry = e /\ reqs[q].type = Loaded(types[i])
          /\ card = None /\ reqs[q].source = "config"
      <4>1. reqs[q] = Save(Loaded(types[i]), None)
        BY <2>4
      <4>. HIDE DEF Save
      <4>. QED
        BY <2>3, <4>1
    <3>2. /\ MadeFrom(types[i], shown[i]) /\ types[i].provider \subseteq providers
          /\ UniqueRows(types[i].rows)
      BY <2>2 DEF CatalogInv, TypesOK
    <3>3. t = types[i]
      BY <2>4, <3>1, <3>2, LoadedIsStored
    <3>4. /\ types' = [types EXCEPT ![i] = t] /\ entries' = [entries EXCEPT ![i] = e]
          /\ shown' = shown /\ reqs' = [reqs EXCEPT ![q] = Idle]
      BY <1>3, <3>1 DEF Update, Return
    <3>5. shown' = [shown EXCEPT ![i] = shown[i]]
      BY <3>4 DEF CatalogInv, TablesOK
    <3>. HIDE DEF t, card
    <3>. QED
      BY <1>1, <2>1, <2>2, <2>4, <3>2, <3>3, <3>4, <3>5, WriteStep
  <2>5. ASSUME NEW p \in Parsers, NEW c \in Cards, Parse(p, c).ok,
               reqs[q] = [at |-> "save", id |-> i, entry |-> e, type |-> Parse(p, c),
                          card |-> c, source |-> "config"]
        PROVE  CatalogInv'
    <3>1. /\ reqs[q].id = i /\ reqs[q].entry = e /\ reqs[q].type = Parse(p, c)
          /\ card = c /\ reqs[q].source = "config"
      <4>1. reqs[q] = Save(Parse(p, c), c)
        BY <2>5
      <4>. HIDE DEF Save
      <4>. QED
        BY <2>3, <4>1
    <3>2. t = Stored(Parsed("create", p, "config", c)) /\ t.provider = {}
      BY <3>1, StoredParsed
    <3>3. MadeFrom(t, c)
      BY <2>5, <3>2 DEF MadeFrom, Sources
    <3>4. c # None
      BY NoneAssumption
    <3>5. /\ types' = [types EXCEPT ![i] = t] /\ entries' = [entries EXCEPT ![i] = e]
          /\ shown' = [shown EXCEPT ![i] = c]
          /\ reqs' = [reqs EXCEPT ![q] = [at |-> "card", id |-> i, card |-> c]]
      BY <1>3, <3>1, <3>4 DEF Update, Go
    <3>. HIDE DEF t, card
    <3>. QED
      BY <1>1, <1>3, <2>1, <2>2, <3>2, <3>3, <3>5, WriteStep
  <2>. QED
    BY <2>2, <2>4, <2>5, Zenon
<1>. QED
  BY <1>2, <1>3

\* Every step preserves the invariant.
LEMMA StepCatalog == CatalogInv /\ [CatalogNext]_apiVars => CatalogInv'
<1>. SUFFICES ASSUME CatalogInv, [CatalogNext]_apiVars PROVE CatalogInv'
  OBVIOUS
<1>1. ASSUME NEW q \in Reqs, Handler(q) PROVE CatalogInv'
  BY <1>1, RegisterFits, FetchFits, CreateEntryFits, ImportFits, RedirectFits, DialFits,
     UpsertProviderFits, InsertProviderFits DEF Handler
<1>2. ASSUME NEW q \in Actors, Create(q) \/ Update(q) \/ StoreCard(q) \/ Abort(q)
      PROVE  CatalogInv'
  BY <1>2, CreateFits, UpdateFits, StoreCardFits, AbortFits
<1>3. ASSUME NEW i \in Ids, \/ DeleteEntry(i)
                            \/ MarkDown(i)
                            \/ \E status \in Reached : SetStatus(i, status)
      PROVE  CatalogInv'
  BY <1>3, DeleteFits, MarkDownFits, SetStatusFits
<1>4. ASSUME NEW c \in Cards, NEW p \in Parsers, DiscoverCard(p, c) PROVE CatalogInv'
  BY <1>4, DiscoverFits
<1>5. ASSUME UNCHANGED apiVars PROVE CatalogInv'
  <2>1. \A i \in Ids : entries'[i] = entries[i]
    BY <1>5 DEF apiVars
  <2>2. entries' \in [Ids -> EntryRow \cup {None}]
    BY <1>5 DEF apiVars, CatalogInv, TablesOK
  <2>. QED
    BY <1>5, <2>1, <2>2, EntriesStep DEF apiVars, Exists
<1>. QED
  BY <1>1, <1>2, <1>3, <1>4, <1>5 DEF CatalogNext

\* The invariant of requests, tables and cards holds in every reachable state.
THEOREM CatalogInvariance == CatalogSpec => []CatalogInv
BY InitCatalog, StepCatalog, PTL DEF CatalogSpec

-----------------------------------------------------------------------------
(* The properties *)

\* Every entry has its agent type, which has a protocol, an endpoint, its provider and
\* distinct rows of capabilities, and no card is left without a type.
THEOREM CatalogTypeCorrect == CatalogSpec => []CatalogTypeOK
<1>1. ASSUME CatalogInv PROVE CatalogTypeOK
  <2>1. ASSUME NEW i \in Ids
        PROVE  /\ Exists(i) => /\ entries[i].source \in Sources
                               /\ entries[i].status \in Statuses
                               /\ Known(i)
               /\ Known(i) => /\ types[i].protocol \in Protocols
                              /\ types[i].endpoint # ""
                              /\ types[i].provider \subseteq providers
                              /\ UniqueRows(types[i].rows)
               /\ cards[i] # None => Known(i)
    <3>1. ASSUME Exists(i)
          PROVE  entries[i].source \in Sources /\ entries[i].status \in Statuses
      BY <1>1, <3>1 DEF CatalogInv, TablesOK, Exists, EntryRow
    <3>2. ASSUME Known(i)
          PROVE  types[i].protocol \in Protocols /\ types[i].endpoint # ""
      <4>1. MadeFrom(types[i], shown[i])
        BY <1>1, <3>2 DEF CatalogInv, TypesOK
      <4>. QED
        BY <4>1, MadeFromFacts
    <3>. QED
      BY <1>1, <3>1, <3>2 DEF CatalogInv, TypesOK
  <2>. QED
    BY <1>1, <2>1 DEF CatalogTypeOK, CatalogInv, TablesOK
<1>. QED
  BY <1>1, CatalogInvariance, PTL

\* What is stored of an agent type that was made from a card.
LEMMA MadeFromCard ==
    ASSUME NEW t, NEW c, MadeFrom(t, c), c # None
    PROVE  /\ c \in Cards /\ t.protocol \in Parsers
           /\ t.spec = Parse(t.protocol, c).spec
           /\ t.rows = RowsOf(Parse(t.protocol, c).caps)
<1>1. PICK p \in Parsers, source \in Sources :
         c \in Cards /\ t = Stored(Parsed("create", p, source, c))
  BY DEF MadeFrom
<1>2. /\ t.protocol = Parse(p, c).protocol /\ t.spec = Parse(p, c).spec
      /\ t.rows = RowsOf(Parse(p, c).caps)
  BY <1>1 DEF Stored, Parsed
<1>. QED
  BY <1>1, <1>2, ParseFacts

\* What an entry shows of its capabilities is what its card says, however often rows
\* were replaced by discovery or written back as they were loaded.
THEOREM ShownAsInCardHolds == CatalogSpec => []ShownAsInCard
<1>1. ASSUME CatalogInv PROVE ShownAsInCard
  <2>. SUFFICES ASSUME NEW i \in Ids, Exists(i), shown[i] # None
                PROVE  LET t == Parse(types[i].protocol, shown[i])
                           caps == Capabilities(i)
                           counts == [spec |-> types[i].spec,
                                      skills |-> CountOfKind(caps, "a2a.skill"),
                                      extensions |-> CountOfKind(caps, "a2a.extension"),
                                      interfaces |-> CountOfKind(caps, "a2a.interface")]
                       IN  /\ types[i].rows = RowsOf(t.caps)
                           /\ AuthSummary(caps) = AuthSummary(t.caps)
                           /\ SecurityDetail(caps).requirements = SecurityDetail(t.caps).requirements
                           /\ types[i].protocol = "a2a" => counts = PreviewA2A(shown[i])
    BY Zenon DEF ShownAsInCard
  <2>. DEFINE c == shown[i]
              p == types[i].protocol
              made == Parse(p, c).caps
  <2>1. MadeFrom(types[i], c)
    BY <1>1 DEF CatalogInv, TypesOK
  <2>2. /\ c \in Cards /\ p \in Parsers /\ types[i].spec = Parse(p, c).spec
        /\ types[i].rows = RowsOf(made)
    BY <2>1, MadeFromCard
  <2>3. AllCanonical(made)
    BY <2>2, ParseCanonical
  <2>4. Capabilities(i) = Back(made)
    BY <2>2 DEF Capabilities, Back
  <2>5. /\ AuthSummary(Back(made)) = AuthSummary(made)
        /\ SecurityDetail(Back(made)).requirements = SecurityDetail(made).requirements
    BY <2>3, SummaryKept
  <2>6. \A kind : CountOfKind(Back(made), kind) = CountOfKind(made, kind)
    <3>. HIDE DEF made
    <3>. QED
      BY <2>3, KindsBack
  <2>7. ASSUME p = "a2a"
        PROVE  [spec |-> types[i].spec,
                skills |-> CountOfKind(Back(made), "a2a.skill"),
                extensions |-> CountOfKind(Back(made), "a2a.extension"),
                interfaces |-> CountOfKind(Back(made), "a2a.interface")] = PreviewA2A(c)
    <3>1. made = ParseA2A(c).caps /\ types[i].spec = ParseA2A(c).spec
      BY <2>2, <2>7 DEF Parse
    <3>2. ParseA2A(c).spec = SpecVersion(c)
      BY DEF ParseA2A
    <3>3. /\ CountOfKind(made, "a2a.skill") = Len(c.skills)
          /\ CountOfKind(made, "a2a.extension") = Len(c.extensions)
          /\ CountOfKind(made, "a2a.interface") = Len(c.interfaces)
      BY <2>2, <3>1, ParseA2ACanonical
    <3>. HIDE DEF made
    <3>. QED
      BY <2>6, <3>1, <3>2, <3>3 DEF PreviewA2A
  <2>. QED
    BY <2>2, <2>4, <2>5, <2>7
<1>. QED
  BY <1>1, CatalogInvariance, PTL

\* The raw card of an entry that came through the API is the one it was made from.
THEOREM RawCardIsItsOwnHolds == CatalogSpec => []RawCardIsItsOwn
<1>1. ASSUME CatalogInv PROVE RawCardIsItsOwn
  BY <1>1 DEF CatalogInv, CardsOwned, RawCardIsItsOwn, GetEntryCard, GetCard
<1>. QED
  BY <1>1, CatalogInvariance, PTL

\* What is listed as a capability is found again with its agent, with a snippet.
THEOREM ListedCanBeOpenedHolds == CatalogSpec => []ListedCanBeOpened
<1>1. ASSUME CatalogInv PROVE ListedCanBeOpened
  <2>. SUFFICES ASSUME NEW item \in ListCapabilities
                PROVE  LET agents == GetCapabilityAgents(item[1], item[2])
                       IN  item[3] \in DOMAIN agents /\ agents[item[3]] # {}
    BY Zenon DEF ListedCanBeOpened
  <2>1. PICK i \in Ids :
           /\ Exists(i)
           /\ \E r \in ToSet(types[i].rows) :
                 r.kind \in DiscoverableKinds /\ item = <<r.kind, r.name, i>>
    BY DEF ListCapabilities
  <2>2. PICK r \in ToSet(types[i].rows) :
           Exists(i) /\ r.kind \in DiscoverableKinds /\ item = <<r.kind, r.name, i>>
    BY <2>1
  <2>3. PICK k \in DOMAIN types[i].rows : r = types[i].rows[k]
    BY DEF ToSet
  <2>4. r \in OfKind(Capabilities(i), r.kind)
    <3>1. Capabilities(i) = [j \in DOMAIN types[i].rows |-> rowToCapability(types[i].rows[j])]
      BY DEF Capabilities, LoadCapabilities, Each
    <3>2. rowToCapability(r) = r
      BY <2>2 DEF rowToCapability, DiscoverableKinds, NamedKinds
    <3>. QED
      BY <2>3, <3>1, <3>2 DEF OfKind, ToSet
  <2>5. r \in Snippet(Capabilities(i), r.kind, r.name)
    BY <2>2, <2>4 DEF Snippet, DiscoverableKinds, NamedKinds
  <2>6. i \in ListAgentsByCapability(r.kind, r.name)
    BY <2>2 DEF ListAgentsByCapability
  <2>7. item[1] = r.kind /\ item[2] = r.name /\ item[3] = i
    BY <2>2
  <2>. QED
    BY <2>5, <2>6, <2>7 DEF GetCapabilityAgents
<1>. QED
  BY <1>1, CatalogInvariance, PTL

\* An import is connected to a public address only, after fewer redirects than allowed.
THEOREM ConnectsToPublicHolds == CatalogSpec => []ConnectsToPublic
<1>1. ASSUME CatalogInv PROVE ConnectsToPublic
  <2>. SUFFICES ASSUME NEW q \in Reqs, At(q, "connected")
                PROVE  reqs[q].address = "public" /\ reqs[q].hops < MaxRedirects
    BY DEF ConnectsToPublic
  <2>1. q \in Actors
    BY DEF Actors
  <2>2. FetchOK(q)
    BY <1>1, <2>1, StageFacts DEF CatalogInv
  <2>3. PICK hops \in Hops, body \in Imports :
           reqs[q] = [at |-> "connected", hops |-> hops, body |-> body, address |-> "public"]
    BY <2>2 DEF FetchOK, At
  <2>. QED
    BY <2>3, CatalogAPIAssumption DEF Hops
<1>. QED
  BY <1>1, CatalogInvariance, PTL
=============================================================================
