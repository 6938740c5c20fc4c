----------------------------- MODULE LintProofs -----------------------------
(***************************************************************************)
(* Proofs about LintWalk, for any files that are syntax trees and whatever *)
(* the other rules say or throw: names are looked up lexically             *)
(* (NamesLookedUpLexically), a chain of assertions is reported once        *)
(* (ChainsReportedOnce), and the copies reported in a reducer are those of *)
(* its accumulator (CopiesOfAccumulatorReported).                          *)
(***************************************************************************)
EXTENDS LintWalk, FiniteSetTheorems, WellFoundedInduction, TLAPS

-----------------------------------------------------------------------------
(* Numbers                                                                 *)

LEMMA LeastNumber ==
  ASSUME NEW S, S \subseteq Nat, S # {}
  PROVE  \E m \in S : \A n \in S : m <= n
<1>. DEFINE R == {p \in Nat \X Nat : p[1] < p[2]}
<1>1. OpToRel(<, Nat) = R
  BY DEF OpToRel
<1>2. IsWellFoundedOn(R, Nat)
  BY <1>1, NatLessThanWellFounded
<1>3. PICK m \in S : \A n \in S : <<n, m>> \notin R
  <2>. HIDE DEF R
  <2>. QED
    BY <1>2, WFMin
<1>4. \A n \in S : ~(n < m)
  BY <1>3
<1>. QED
  BY <1>4

LEMMA GreatestNumber ==
  ASSUME NEW S, NEW bound \in Nat, S \subseteq 0 .. bound, S # {}
  PROVE  \E m \in S : \A n \in S : n <= m
<1>. DEFINE T == {bound - n : n \in S}
<1>1. T \subseteq Nat
  <2>. SUFFICES ASSUME NEW n \in S PROVE bound - n \in Nat
    OBVIOUS
  <2>1. n \in 0 .. bound
    OBVIOUS
  <2>. QED
    BY <2>1
<1>1a. T # {}
  OBVIOUS
<1>2. PICK t \in T : \A u \in T : t <= u
  BY <1>1, <1>1a, LeastNumber
<1>3. PICK m \in S : t = bound - m
  BY <1>2
<1>4. ASSUME NEW n \in S PROVE n <= m
  <2>1. bound - m <= bound - n
    BY <1>2, <1>3
  <2>. QED
    BY <2>1
<1>. QED
  BY <1>4

LEMMA Induction ==
  ASSUME NEW S, 0 \in S, \A n \in Nat : n \in S => n + 1 \in S
  PROVE  Nat \subseteq S
<1>. DEFINE T == Nat \ S
<1>. SUFFICES ASSUME T # {} PROVE FALSE
  OBVIOUS
<1>1. PICK m \in T : \A n \in T : m <= n
  BY LeastNumber
<1>2. m \in Nat /\ m # 0
  BY <1>1
<1>3. m - 1 \in Nat /\ (m - 1) + 1 = m
  BY <1>2
<1>4. m - 1 \notin T
  BY <1>1, <1>3
<1>. QED
  BY <1>1, <1>3, <1>4

LEMMA MaxIsGreatest ==
  ASSUME NEW S, NEW bound \in Nat, S \subseteq 0 .. bound, S # {}
  PROVE  Max(S) \in S /\ \A n \in S : n <= Max(S)
<1>1. \E m \in S : \A n \in S : m >= n
  BY GreatestNumber
<1>. QED
  BY <1>1 DEF Max

LEMMA MinOfOne ==
  ASSUME NEW i \in Nat
  PROVE  Min({i}) = i
  BY DEF Min

-----------------------------------------------------------------------------
(* A function on the naturals can be defined step by step.                 *)

UpTo(k, g, D, base, next) ==
  g \in [0 .. k -> D] /\ g[0] = base /\ \A i \in 0 .. k - 1 : g[i + 1] = next[g[i]]

LEMMA RecursionUpTo ==
  ASSUME NEW D, NEW base \in D, NEW next \in [D -> D], NEW k \in Nat
  PROVE  \E g : UpTo(k, g, D, base, next)
<1>. DEFINE S == {n \in Nat : \E g : UpTo(n, g, D, base, next)}
<1>1. 0 \in S
  <2>. DEFINE g == [i \in 0 .. 0 |-> base]
  <2>1. UpTo(0, g, D, base, next)
    BY DEF UpTo
  <2>. QED
    BY <2>1
<1>2. ASSUME NEW n \in Nat, n \in S PROVE n + 1 \in S
  <2>1. PICK g : UpTo(n, g, D, base, next)
    BY <1>2
  <2>2. g \in [0 .. n -> D] /\ g[0] = base /\ \A i \in 0 .. n - 1 : g[i + 1] = next[g[i]]
    BY <2>1 DEF UpTo
  <2>. DEFINE last == next[g[n]]
              h == [i \in 0 .. n + 1 |-> IF i = n + 1 THEN last ELSE g[i]]
  <2>3. last \in D
    BY <2>2
  <2>. HIDE DEF last
  <2>4. h \in [0 .. n + 1 -> D] /\ h[0] = base
    BY <2>2, <2>3
  <2>5. ASSUME NEW i \in 0 .. n PROVE h[i + 1] = next[h[i]]
    <3>1. h[i] = g[i]
      OBVIOUS
    <3>2. CASE i = n
      BY <3>1, <3>2 DEF last
    <3>3. CASE i # n
      <4>1. i \in 0 .. n - 1 /\ i + 1 \in 0 .. n + 1 /\ i + 1 # n + 1
        BY <3>3
      <4>2. h[i + 1] = g[i + 1]
        BY <4>1
      <4>. QED
        BY <2>2, <3>1, <4>1, <4>2
    <3>. QED
      BY <3>2, <3>3
  <2>6. (n + 1) - 1 = n
    OBVIOUS
  <2>. HIDE DEF h
  <2>7. UpTo(n + 1, h, D, base, next)
    BY <2>4, <2>5, <2>6 DEF UpTo
  <2>. QED
    BY <2>7
<1>. HIDE DEF S
<1>3. k \in S
  BY <1>1, <1>2, Induction
<1>. QED
  BY <1>3 DEF S

LEMMA Recursion ==
  ASSUME NEW D, NEW base \in D, NEW next \in [D -> D]
  PROVE  \E f \in [Nat -> D] : f[0] = base /\ \A i \in Nat : f[i + 1] = next[f[i]]
<1>. DEFINE Good(k, g) == UpTo(k, g, D, base, next)
            upTo(k) == CHOOSE g : Good(k, g)
            f == [k \in Nat |-> upTo(k)[k]]
<1>1. \A k \in Nat : Good(k, upTo(k))
  BY RecursionUpTo
<1>2. ASSUME NEW k \in Nat, NEW g, NEW h, Good(k, g), Good(k + 1, h)
      PROVE  \A i \in 0 .. k : g[i] = h[i]
  <2>. DEFINE S == {i \in Nat : i <= k => g[i] = h[i]}
  <2>1. 0 \in S
    BY <1>2 DEF UpTo
  <2>2. ASSUME NEW i \in Nat, i \in S PROVE i + 1 \in S
    <3>. SUFFICES ASSUME i + 1 <= k PROVE g[i + 1] = h[i + 1]
      OBVIOUS
    <3>1. i \in 0 .. k - 1 /\ i \in 0 .. (k + 1) - 1 /\ g[i] = h[i]
      BY <2>2
    <3>. QED
      BY <1>2, <3>1 DEF UpTo
  <2>3. Nat \subseteq S
    <3>. HIDE DEF S
    <3>. QED
      BY <2>1, <2>2, Induction
  <2>. QED
    BY <2>3
<1>3. ASSUME NEW k \in Nat PROVE upTo(k)[k] \in D /\ upTo(k + 1)[k + 1] = next[upTo(k)[k]]
  <2>1. Good(k, upTo(k)) /\ Good(k + 1, upTo(k + 1))
    BY <1>1
  <2>. HIDE DEF upTo
  <2>2. upTo(k)[k] = upTo(k + 1)[k] /\ k \in 0 .. k /\ k \in 0 .. (k + 1) - 1
    BY <1>2, <2>1
  <2>. QED
    BY <2>1, <2>2 DEF UpTo
<1>4. upTo(0)[0] = base
  BY <1>1 DEF UpTo
<1>. HIDE DEF upTo
<1>5. f \in [Nat -> D] /\ f[0] = base /\ \A i \in Nat : f[i + 1] = next[f[i]]
  <2>1. f \in [Nat -> D] /\ f[0] = base
    BY <1>3, <1>4
  <2>2. ASSUME NEW i \in Nat PROVE f[i + 1] = next[f[i]]
    <3>1. f[i] = upTo(i)[i] /\ f[i + 1] = upTo(i + 1)[i + 1]
      OBVIOUS
    <3>. QED
      BY <1>3, <3>1
  <2>. QED
    BY <2>1, <2>2
<1>. HIDE DEF f
<1>. QED
  BY <1>5

-----------------------------------------------------------------------------
(* Paths                                                                   *)

LEMMA Ups ==
  ASSUME NEW S, NEW n \in Seq(S), NEW k \in 0 .. Len(n)
  PROVE  /\ Up(n, k) \in Seq(S) /\ Len(Up(n, k)) = k
         /\ \A i \in 1 .. k : Up(n, k)[i] = n[i]
  BY DEF Up

LEMMA SameSequence ==
  ASSUME NEW S, NEW m \in Seq(S), NEW n \in Seq(S), Len(m) = Len(n),
         \A i \in 1 .. Len(m) : m[i] = n[i]
  PROVE  m = n
  OBVIOUS

LEMMA UpOfAll ==
  ASSUME NEW S, NEW n \in Seq(S)
  PROVE  Up(n, Len(n)) = n /\ Up(n, 0) = <<>>
<1>1. Up(n, Len(n)) = n
  <2>1. Len(n) \in 0 .. Len(n)
    OBVIOUS
  <2>. QED
    BY <2>1, Ups, SameSequence
<1>2. Up(n, 0) = <<>>
  <2>1. 0 \in 0 .. Len(n)
    OBVIOUS
  <2>2. Len(Up(n, 0)) = 0 /\ Up(n, 0) \in Seq(S)
    BY <2>1, Ups
  <2>. QED
    BY <2>2
<1>. QED
  BY <1>1, <1>2

LEMMA UpOfUp ==
  ASSUME NEW S, NEW n \in Seq(S), NEW k \in 0 .. Len(n), NEW j \in 0 .. k
  PROVE  Up(Up(n, k), j) = Up(n, j)
<1>1. Up(n, k) \in Seq(S) /\ Len(Up(n, k)) = k /\ j \in 0 .. Len(Up(n, k)) /\ j \in 0 .. Len(n)
  BY Ups
<1>2. Up(Up(n, k), j) \in Seq(S) /\ Len(Up(Up(n, k), j)) = j
      /\ \A i \in 1 .. j : Up(Up(n, k), j)[i] = Up(n, k)[i]
  BY <1>1, Ups
<1>3. Up(n, j) \in Seq(S) /\ Len(Up(n, j)) = j /\ \A i \in 1 .. j : Up(n, j)[i] = n[i]
  BY <1>1, Ups
<1>4. \A i \in 1 .. j : Up(n, k)[i] = n[i]
  <2>1. \A i \in 1 .. j : i \in 1 .. k
    OBVIOUS
  <2>2. \A i \in 1 .. k : Up(n, k)[i] = n[i]
    BY Ups
  <2>. QED
    BY <2>1, <2>2
<1>. QED
  BY <1>2, <1>3, <1>4, SameSequence

(* A path is one step below its parent.                                    *)
LEMMA UpAppend ==
  ASSUME NEW S, NEW n \in Seq(S), NEW k \in 1 .. Len(n)
  PROVE  Up(n, k) = Append(Up(n, k - 1), n[k]) /\ n[k] \in S
<1>1. k - 1 \in 0 .. Len(n) /\ k \in 0 .. Len(n) /\ n[k] \in S
  OBVIOUS
<1>2. /\ Up(n, k - 1) \in Seq(S) /\ Len(Up(n, k - 1)) = k - 1
      /\ \A i \in 1 .. k - 1 : Up(n, k - 1)[i] = n[i]
  BY <1>1, Ups
<1>3. /\ Up(n, k) \in Seq(S) /\ Len(Up(n, k)) = k
      /\ \A i \in 1 .. k : Up(n, k)[i] = n[i]
  BY <1>1, Ups
<1>4. /\ Append(Up(n, k - 1), n[k]) \in Seq(S)
      /\ Len(Append(Up(n, k - 1), n[k])) = k
      /\ \A i \in 1 .. k : Append(Up(n, k - 1), n[k])[i] = n[i]
  <2>. DEFINE u == Up(n, k - 1)
              x == n[k]
  <2>1. u \in Seq(S) /\ Len(u) = k - 1 /\ x \in S /\ \A i \in 1 .. k - 1 : u[i] = n[i]
    BY <1>1, <1>2
  <2>. HIDE DEF u
  <2>2. \A i \in 1 .. k : Append(u, x)[i] = IF i = k THEN x ELSE u[i]
    BY <2>1
  <2>. QED
    BY <2>1, <2>2 DEF u
<1>. QED
  BY <1>1, <1>3, <1>4, SameSequence

LEMMA UpOfAppend ==
  ASSUME NEW S, NEW n \in Seq(S), NEW x \in S
  PROVE  /\ Append(n, x) \in Seq(S) /\ Len(Append(n, x)) = Len(n) + 1
         /\ Append(n, x)[Len(n) + 1] = x
         /\ \A i \in 1 .. Len(n) : Append(n, x)[i] = n[i]
         /\ \A k \in 0 .. Len(n) : Up(Append(n, x), k) = Up(n, k)
<1>. DEFINE a == Append(n, x)
<1>1. /\ a \in Seq(S) /\ Len(a) = Len(n) + 1 /\ a[Len(n) + 1] = x
      /\ \A i \in 1 .. Len(n) : a[i] = n[i]
  OBVIOUS
<1>. HIDE DEF a
<1>2. ASSUME NEW k \in 0 .. Len(n) PROVE Up(a, k) = Up(n, k)
  <2>1. k \in 0 .. Len(a)
    BY <1>1
  <2>2. Up(a, k) \in Seq(S) /\ Len(Up(a, k)) = k /\ \A i \in 1 .. k : Up(a, k)[i] = a[i]
    BY <1>1, <2>1, Ups
  <2>3. Up(n, k) \in Seq(S) /\ Len(Up(n, k)) = k /\ \A i \in 1 .. k : Up(n, k)[i] = n[i]
    BY Ups
  <2>4. \A i \in 1 .. k : Up(a, k)[i] = Up(n, k)[i]
    <3>1. \A i \in 1 .. k : i \in 1 .. Len(n)
      OBVIOUS
    <3>. QED
      BY <1>1, <2>2, <2>3, <3>1
  <2>. QED
    BY <2>2, <2>3, <2>4, SameSequence
<1>. QED
  BY <1>1, <1>2 DEF a

LEMMA PrefixIsUp ==
  ASSUME NEW S, NEW m \in Seq(S), NEW n \in Seq(S)
  PROVE  IsPrefix(m, n) <=> Len(m) <= Len(n) /\ m = Up(n, Len(m))
<1>1. SubSeq(m, 1, Len(m)) = m
  BY UpOfAll DEF Up
<1>. QED
  BY <1>1 DEF IsPrefix, Up

-----------------------------------------------------------------------------
(* Syntax trees                                                            *)

Steps == Nat \ {0}

LEMMA TreeFacts ==
  ASSUME IsSyntaxTree(file)
  PROVE  /\ IsFiniteSet(Nodes) /\ Nodes \subseteq Seq(Steps)
         /\ <<>> \in Nodes /\ None \notin Nodes
         /\ \A n \in Nodes : /\ file[n].kids \in Nat
                            /\ \A i \in 1 .. file[n].kids : Append(n, i) \in Nodes
         /\ \A n \in Nodes : n # <<>> => /\ Up(n, Len(n) - 1) \in Nodes
                                       /\ n[Len(n)] <= file[Up(n, Len(n) - 1)].kids
  BY DEF IsSyntaxTree, Nodes, Steps

LEMMA TypeFacts ==
  ASSUME IsSyntaxTree(file), NEW n \in Nodes
  PROVE  /\ TypeOf(n) = "Program" <=> n = <<>>
         /\ TypeOf(n) \in {"Program", "TSTypeReference"} => HeldAs(n, "typeParameters") = {}
         /\ TypeOf(n) = "ParenthesizedExpression" => /\ file[n].kids = 1
                                                     /\ HeldAs(n, "expression") = {1}
         /\ TypeOf(n) \in Assertions => \E i \in 1 .. file[n].kids : HeldAs(n, "expression") = {i}
  BY DEF IsSyntaxTree, Nodes, TypeOf, RoleOf, HeldAs

(* Everything above a node is a node.                                      *)
LEMMA UpIsNode ==
  ASSUME IsSyntaxTree(file), NEW n \in Nodes, NEW k \in 0 .. Len(n)
  PROVE  Up(n, k) \in Nodes
<1>. DEFINE S == {d \in Nat : d <= Len(n) => Up(n, Len(n) - d) \in Nodes}
<1>1. n \in Seq(Steps) /\ Len(n) \in Nat
  BY TreeFacts
<1>2. 0 \in S
  <2>1. Up(n, Len(n) - 0) = n
    BY <1>1, UpOfAll
  <2>. QED
    BY <2>1
<1>3. ASSUME NEW d \in Nat, d \in S PROVE d + 1 \in S
  <2>. SUFFICES ASSUME d + 1 <= Len(n) PROVE Up(n, Len(n) - (d + 1)) \in Nodes
    OBVIOUS
  <2>. DEFINE j == Len(n) - d
              u == Up(n, j)
  <2>1. j \in 1 .. Len(n) /\ j - 1 = Len(n) - (d + 1) /\ u \in Nodes
    BY <1>1, <1>3
  <2>2. u \in Seq(Steps) /\ Len(u) = j
    <3>1. j \in 0 .. Len(n)
      BY <2>1
    <3>. HIDE DEF j
    <3>. QED
      BY <1>1, <3>1, Ups
  <2>3. u # <<>>
    BY <2>1, <2>2
  <2>4. Up(u, j - 1) \in Nodes
    BY <2>1, <2>2, <2>3, TreeFacts
  <2>5. Up(u, j - 1) = Up(n, j - 1)
    BY <1>1, <2>1, UpOfUp
  <2>. QED
    BY <2>1, <2>4, <2>5
<1>4. Nat \subseteq S
  <2>. HIDE DEF S
  <2>. QED
    BY <1>2, <1>3, Induction
<1>5. Len(n) - k \in S /\ Len(n) - (Len(n) - k) = k /\ Len(n) - k <= Len(n)
  BY <1>1, <1>4
<1>. QED
  BY <1>5

LEMMA AncestorsAreNodes ==
  ASSUME IsSyntaxTree(file), NEW n \in Nodes
  PROVE  /\ Ancestors(n) \subseteq Nodes
         /\ n # <<>> => <<>> \in Ancestors(n)
<1>1. n \in Seq(Steps)
  BY TreeFacts
<1>2. Ancestors(n) \subseteq Nodes
  <2>. SUFFICES ASSUME NEW k \in 0 .. Len(n) - 1 PROVE Up(n, k) \in Nodes
    BY DEF Ancestors
  <2>1. k \in 0 .. Len(n)
    BY <1>1
  <2>. QED
    BY <2>1, UpIsNode
<1>3. ASSUME n # <<>> PROVE <<>> \in Ancestors(n)
  <2>1. 0 \in 0 .. Len(n) - 1
    BY <1>1, <1>3
  <2>2. Up(n, 0) = <<>>
    BY <1>1, UpOfAll
  <2>. QED
    BY <2>1, <2>2 DEF Ancestors
<1>. QED
  BY <1>2, <1>3

(* Of nodes on one path, the deepest is one of them.                       *)
LEMMA DeepestIsOne ==
  ASSUME NEW S, NEW n \in Seq(S), NEW ns, ns # {}, ns \subseteq {Up(n, k) : k \in 0 .. Len(n)}
  PROVE  Deepest(ns) \in ns /\ \A a \in ns : Len(a) <= Len(Deepest(ns))
<1>. DEFINE L == {Len(a) : a \in ns}
<1>1. \A a \in ns : Len(a) \in 0 .. Len(n)
  <2>. SUFFICES ASSUME NEW a \in ns PROVE Len(a) \in 0 .. Len(n)
    OBVIOUS
  <2>1. PICK k \in 0 .. Len(n) : a = Up(n, k)
    OBVIOUS
  <2>. QED
    BY <2>1, Ups
<1>2. L \subseteq 0 .. Len(n) /\ L # {} /\ Len(n) \in Nat
  <2>1. Len(n) \in Nat
    OBVIOUS
  <2>. QED
    BY <1>1, <2>1
<1>3. PICK l \in L : \A k \in L : k <= l
  <2>. HIDE DEF L
  <2>. QED
    BY <1>2, GreatestNumber
<1>4. PICK a \in ns : l = Len(a)
  OBVIOUS
<1>5. \A b \in ns : Len(b) <= Len(a)
  BY <1>3, <1>4
<1>. QED
  BY <1>4, <1>5 DEF Deepest

-----------------------------------------------------------------------------
(* Names                                                                   *)

LEMMA ScopeIsAbove ==
  ASSUME IsSyntaxTree(file), NEW d \in Nodes, d # <<>>
  PROVE  enclosingTypeScope(d) \in Ancestors(d) /\ TypeOf(enclosingTypeScope(d)) \in TypeScopes
<1>. DEFINE ns == {a \in Ancestors(d) : TypeOf(a) \in TypeScopes}
<1>1. d \in Seq(Steps)
  BY TreeFacts
<1>2. <<>> \in ns
  BY AncestorsAreNodes, TypeFacts DEF TypeScopes
<1>3. ns \subseteq {Up(d, k) : k \in 0 .. Len(d)}
  BY <1>1 DEF Ancestors
<1>4. Deepest(ns) \in ns
  <2>. HIDE DEF ns
  <2>. QED
    BY <1>1, <1>2, <1>3, DeepestIsOne
<1>5. Nearest(d, TypeScopes) = Deepest(ns)
  BY DEF Nearest
<1>6. Deepest(ns) # None
  BY <1>4, AncestorsAreNodes, TreeFacts
<1>. QED
  BY <1>4, <1>5, <1>6 DEF enclosingTypeScope

(* Only what is above a reference can bind the name it holds.              *)
LEMMA NamesAroundReference ==
  ASSUME IsSyntaxTree(file), NEW n \in Nodes, TypeOf(n) = "TSTypeReference", NEW name
  PROVE  name \in lexicalTypeParameterNames(n) <=> ParameterBinders(name, n) # {}
<1>1. n # <<>>
  BY TypeFacts
<1>2. BoundBy(n, n) = {}
  BY <1>1, TypeFacts DEF BoundBy, ChildrenAs
<1>3. BoundBy(<<>>, n) = {}
  <2>1. TypeOf(<<>>) = "Program" /\ HeldAs(<<>>, "typeParameters") = {}
    BY TreeFacts, TypeFacts
  <2>. QED
    BY <2>1 DEF BoundBy, ChildrenAs
<1>4. \A b \in Ancestors(n) \cup {n} : b \in Nodes
  BY AncestorsAreNodes
<1>5. \A b \in Ancestors(n) \cup {n} : TypeOf(b) = "Program" => b = <<>>
  BY <1>4, TypeFacts
<1>. QED
  BY <1>2, <1>3, <1>5, Zenon DEF lexicalTypeParameterNames, ParameterBinders

(***************************************************************************)
(* With the environment of the file, a reference is expanded to the alias  *)
(* it means, or a type parameter around it has its name: the rules and     *)
(* TypeScript pick among the same scopes, and one declaration in a scope   *)
(* is one binding.                                                         *)
(***************************************************************************)
LEMMA ResolvesLexically ==
  ASSUME IsSyntaxTree(file), environment.bindings = collectTypeBindings,
         NEW n \in Nodes, TypeOf(n) = "TSTypeReference"
  PROVE  \/ visibleTypeAlias(NameOf(n), n) = LexicalAlias(NameOf(n), n)
         \/ visibleTypeAlias(NameOf(n), n) = None /\ ParameterBinders(NameOf(n), n) # {}
<1>. DEFINE spelt == NameOf(n)
            aliasOf(d) == IF TypeOf(d) = Alias THEN d ELSE None
            bind(d) == [node |-> d, name |-> NameOf(d), scope |-> enclosingTypeScope(d),
                        alias |-> aliasOf(d)]
            declared == {d \in DeclarationsOf(spelt) : enclosingTypeScope(d) \in Ancestors(n)}
            scopes == {enclosingTypeScope(d) : d \in declared}
            candidates == {b \in environment.bindings : b.name = spelt /\ IsPrefix(b.scope, n)}
            nearest == {d \in declared : enclosingTypeScope(d) = Deepest(scopes)}
            bindings == nearestTypeBindings(spelt, n)
<1>0. \A d : /\ bind(d).node = d /\ bind(d).name = NameOf(d) /\ bind(d).alias = aliasOf(d)
             /\ bind(d).scope = enclosingTypeScope(d)
  OBVIOUS
<1>1. CASE ParameterBinders(spelt, n) # {}
  BY <1>1, NamesAroundReference DEF visibleTypeAlias
<1>2. CASE ParameterBinders(spelt, n) = {}
  <2>1. spelt \notin lexicalTypeParameterNames(n)
    BY <1>2, NamesAroundReference
  <2>2. n \in Seq(Steps) /\ Len(n) \in Nat
    <3>1. n \in Seq(Steps)
      BY TreeFacts
    <3>. QED
      BY <3>1
  <2>3. \A d \in DeclarationsOf(spelt) : d \in Nodes /\ d # <<>>
    BY TypeFacts DEF DeclarationsOf, DeclaresType, Alias
  <2>4. ASSUME NEW d \in DeclarationsOf(spelt)
        PROVE  IsPrefix(enclosingTypeScope(d), n) <=> enclosingTypeScope(d) \in Ancestors(n)
    <3>. DEFINE scope == enclosingTypeScope(d)
    <3>1. scope \in Nodes /\ TypeOf(scope) \in TypeScopes
      BY <2>3, ScopeIsAbove, AncestorsAreNodes
    <3>2. scope # n /\ scope \in Seq(Steps)
      BY <2>2, <3>1, TreeFacts DEF TypeScopes
    <3>. HIDE DEF scope
    <3>3. IsPrefix(scope, n) <=> Len(scope) <= Len(n) /\ scope = Up(n, Len(scope))
      BY <2>2, <3>2, PrefixIsUp
    <3>4. Up(n, Len(n)) = n
      BY <2>2, UpOfAll
    <3>5. ASSUME scope \in Ancestors(n) PROVE IsPrefix(scope, n)
      <4>1. PICK k \in 0 .. Len(n) - 1 : scope = Up(n, k)
        BY <3>5 DEF Ancestors
      <4>2. k \in 0 .. Len(n)
        BY <2>2
      <4>3. Len(scope) = k
        BY <2>2, <4>1, <4>2, Ups
      <4>4. k <= Len(n)
        BY <2>2
      <4>. QED
        BY <3>3, <4>1, <4>3, <4>4
    <3>6. ASSUME IsPrefix(scope, n) PROVE scope \in Ancestors(n)
      <4>1. Len(scope) # Len(n)
        BY <3>2, <3>3, <3>4, <3>6
      <4>2. Len(scope) \in Nat /\ Len(scope) <= Len(n)
        BY <3>2, <3>3, <3>6
      <4>3. Len(scope) \in 0 .. Len(n) - 1
        BY <2>2, <4>1, <4>2
      <4>. QED
        BY <3>3, <3>6, <4>3 DEF Ancestors
    <3>. QED
      BY <3>5, <3>6 DEF scope
  <2>5. candidates = {bind(d) : d \in declared}
    <3>1. environment.bindings = {bind(d) : d \in {m \in Nodes : DeclaresType(m)}}
      BY DEF collectTypeBindings
    <3>3. DeclarationsOf(spelt) = {m \in Nodes : DeclaresType(m) /\ NameOf(m) = spelt}
      BY DEF DeclarationsOf
    <3>. HIDE DEF bind, spelt
    <3>. QED
      BY <1>0, <2>4, <3>1, <3>3
  <2>6. {b.scope : b \in candidates} = scopes
    <3>. HIDE DEF bind, candidates, declared
    <3>. QED
      BY <1>0, <2>5
  <2>7. bindings = {bind(d) : d \in nearest}
    <3>1. bindings = {b \in candidates : b.scope = Deepest(scopes)}
      BY <2>6 DEF nearestTypeBindings
    <3>. HIDE DEF bind, candidates, bindings, declared, scopes
    <3>. QED
      BY <1>0, <2>5, <3>1
  <2>8. Binder(spelt, n) = Deepest(scopes)
    BY <1>2 DEF Binder
  <2>9. CASE declared = {}
    <3>1. bindings = {} /\ Deepest(scopes) = None
      BY <2>7, <2>9 DEF Deepest
    <3>2. Cardinality(bindings) # 1
      <4>. HIDE DEF bindings
      <4>1. Cardinality(bindings) = 0
        BY <3>1, FS_EmptySet
      <4>. QED
        BY <4>1
    <3>3. visibleTypeAlias(spelt, n) = None
      BY <2>1, <3>2 DEF visibleTypeAlias
    <3>4. Referents(spelt, n) = {}
      BY <2>8, <3>1 DEF Referents
    <3>. QED
      BY <3>3, <3>4 DEF LexicalAlias
  <2>10. CASE declared # {}
    <3>1. Deepest(scopes) \in scopes
      <4>1. scopes # {} /\ scopes \subseteq {Up(n, k) : k \in 0 .. Len(n)}
        <5>1. \A k \in 0 .. Len(n) - 1 : k \in 0 .. Len(n)
          BY <2>2
        <5>2. Ancestors(n) \subseteq {Up(n, k) : k \in 0 .. Len(n)}
          BY <5>1 DEF Ancestors
        <5>. QED
          BY <2>10, <5>2
      <4>. HIDE DEF scopes
      <4>. QED
        BY <2>2, <4>1, DeepestIsOne
    <3>2. Deepest(scopes) # None /\ Deepest(scopes) \in Ancestors(n)
      <4>1. Deepest(scopes) \in Ancestors(n)
        BY <3>1
      <4>. QED
        BY <4>1, AncestorsAreNodes, TreeFacts
    <3>3. Referents(spelt, n)
            = {d \in DeclarationsOf(spelt) : enclosingTypeScope(d) = Deepest(scopes)}
      BY <1>2, <2>8, <3>2 DEF Referents
    <3>4. Referents(spelt, n) = nearest
      BY <3>2, <3>3
    <3>5. IsFiniteSet(bindings)
      <4>1. IsFiniteSet(nearest)
        <5>1. nearest \subseteq Nodes
          BY <2>3
        <5>. QED
          BY <5>1, TreeFacts, FS_Subset
      <4>. HIDE DEF nearest, bindings
      <4>2. [d \in nearest |-> bind(d)] \in Surjection(nearest, bindings)
        BY <2>7 DEF Surjection
      <4>. QED
        BY <4>1, <4>2, FS_Surjection
    <3>6. \A d, e : bind(d) = bind(e) => d = e
      <4>. HIDE DEF bind
      <4>. QED
        BY <1>0
    <3>7. CASE \E d : nearest = {d}
      <4>1. PICK d : nearest = {d}
        BY <3>7
      <4>. HIDE DEF nearest, bindings, spelt
      <4>2. bindings = {bind(d)}
        BY <2>7, <4>1
      <4>3. Cardinality(bindings) = 1 /\ (CHOOSE b \in bindings : TRUE) = bind(d)
        BY <4>2, FS_Singleton
      <4>4. visibleTypeAlias(spelt, n) = aliasOf(d)
        <5>. HIDE DEF bind, aliasOf
        <5>. QED
          BY <1>0, <2>1, <4>3 DEF visibleTypeAlias, bindings
      <4>5. LexicalAlias(spelt, n) = aliasOf(d)
        BY <3>4, <4>1 DEF LexicalAlias
      <4>. QED
        BY <4>4, <4>5 DEF spelt
    <3>8. CASE ~ \E d : nearest = {d}
      <4>. HIDE DEF nearest, spelt
      <4>1. ~ \E b : bindings = {b}
        <5>. SUFFICES ASSUME NEW b, bindings = {b} PROVE FALSE
          OBVIOUS
        <5>. HIDE DEF bind, bindings
        <5>1. PICK d \in nearest : b = bind(d)
          BY <2>7
        <5>2. \A e \in nearest : bind(e) = b
          BY <2>7
        <5>. QED
          BY <3>6, <3>8, <5>1, <5>2
      <4>2. Cardinality(bindings) # 1
        BY <3>5, <4>1, FS_Singleton
      <4>3. visibleTypeAlias(spelt, n) = None
        BY <2>1, <4>2 DEF visibleTypeAlias
      <4>4. LexicalAlias(spelt, n) = None
        BY <3>4, <3>8 DEF LexicalAlias
      <4>. QED
        BY <4>3, <4>4 DEF spelt
    <3>. QED
      BY <3>7, <3>8
  <2>. QED
    BY <2>9, <2>10
<1>. QED
  BY <1>1, <1>2

-----------------------------------------------------------------------------
(* The walk: source order                                                  *)

Agree(m, n, k) == \A i \in 1 .. k : m[i] = n[i]
Above(m, n) == Len(m) < Len(n) /\ Agree(m, n, Len(m))
Earlier(m, n) == \E k \in 1 .. Len(n) : k <= Len(m) /\ Agree(m, n, k - 1) /\ m[k] < n[k]
Before(m, n) == Above(m, n) \/ Earlier(m, n)

LEMMA SequencesDiffer ==
  ASSUME NEW m \in Seq(Steps), NEW n \in Seq(Steps), m # n
  PROVE  \/ Above(m, n) \/ Above(n, m)
         \/ \E k \in 1 .. Len(n) : k <= Len(m) /\ Agree(m, n, k - 1) /\ m[k] # n[k]
<1>. DEFINE D == {k \in 1 .. Len(n) : k <= Len(m) /\ m[k] # n[k]}
<1>1. Len(m) \in Nat /\ Len(n) \in Nat
  OBVIOUS
<1>2. CASE D = {}
  <2>1. \A k \in 1 .. Len(n) : k <= Len(m) => m[k] = n[k]
    BY <1>2
  <2>2. CASE Len(m) < Len(n)
    BY <1>1, <2>1, <2>2 DEF Above, Agree
  <2>3. CASE Len(n) < Len(m)
    BY <1>1, <2>1, <2>3 DEF Above, Agree
  <2>4. CASE Len(m) = Len(n)
    BY <2>1, <2>4
  <2>. QED
    BY <1>1, <2>2, <2>3, <2>4
<1>3. CASE D # {}
  <2>1. D \subseteq Nat
    OBVIOUS
  <2>2. PICK k \in D : \A j \in D : k <= j
    <3>. HIDE DEF D
    <3>. QED
      BY <1>3, <2>1, LeastNumber
  <2>3. k \in 1 .. Len(n) /\ k <= Len(m) /\ m[k] # n[k]
    OBVIOUS
  <2>4. ASSUME NEW i \in 1 .. k - 1 PROVE m[i] = n[i]
    <3>1. i \in 1 .. Len(n) /\ i <= Len(m) /\ i < k
      BY <1>1, <2>3
    <3>2. i \notin D
      BY <2>2, <2>3, <3>1
    <3>. QED
      BY <3>1, <3>2
  <2>. QED
    BY <2>3, <2>4 DEF Agree
<1>. QED
  BY <1>2, <1>3

(* What is not after a path is before its first child.                     *)
LEMMA BeforeChild ==
  ASSUME NEW m \in Seq(Steps), NEW n \in Seq(Steps)
  PROVE  m = n \/ Before(m, n) <=> Before(m, Append(n, 1))
<1>. DEFINE p == Append(n, 1)
<1>1. Len(m) \in Nat /\ Len(n) \in Nat /\ \A i \in 1 .. Len(m) : m[i] \in Nat /\ m[i] >= 1
  BY DEF Steps
<1>2. Len(p) = Len(n) + 1 /\ p[Len(n) + 1] = 1 /\ \A i \in 1 .. Len(n) : p[i] = n[i]
  BY DEF Steps
<1>. HIDE DEF p
<1>3. ASSUME m = n PROVE Before(m, p)
  BY <1>1, <1>2, <1>3 DEF Before, Above, Agree
<1>4. ASSUME Above(m, n) PROVE Before(m, p)
  BY <1>1, <1>2, <1>4 DEF Before, Above, Agree
<1>5. ASSUME Earlier(m, n) PROVE Before(m, p)
  <2>1. PICK k \in 1 .. Len(n) : k <= Len(m) /\ Agree(m, n, k - 1) /\ m[k] < n[k]
    BY <1>5 DEF Earlier
  <2>2. k \in 1 .. Len(p) /\ p[k] = n[k] /\ Agree(m, p, k - 1)
    BY <1>1, <1>2, <2>1 DEF Agree
  <2>. QED
    BY <2>1, <2>2 DEF Before, Earlier
<1>6. ASSUME Above(m, p) PROVE m = n \/ Before(m, n)
  <2>1. Len(m) <= Len(n) /\ \A i \in 1 .. Len(m) : m[i] = n[i]
    BY <1>1, <1>2, <1>6 DEF Above, Agree
  <2>2. CASE Len(m) < Len(n)
    BY <2>1, <2>2 DEF Before, Above, Agree
  <2>3. CASE Len(m) = Len(n)
    BY <2>1, <2>3, SameSequence
  <2>. QED
    BY <1>1, <2>1, <2>2, <2>3
<1>7. ASSUME Earlier(m, p) PROVE Before(m, n)
  <2>1. PICK k \in 1 .. Len(p) : k <= Len(m) /\ Agree(m, p, k - 1) /\ m[k] < p[k]
    BY <1>7 DEF Earlier
  <2>2. k # Len(n) + 1
    BY <1>1, <1>2, <2>1
  <2>3. k \in 1 .. Len(n)
    BY <1>1, <1>2, <2>1, <2>2
  <2>4. p[k] = n[k] /\ Agree(m, n, k - 1)
    BY <1>1, <1>2, <2>1, <2>3 DEF Agree
  <2>. QED
    BY <2>1, <2>3, <2>4 DEF Before, Earlier
<1>. QED
  BY <1>3, <1>4, <1>5, <1>6, <1>7 DEF Before, p

(* A path that turns right at its last step, where another does not.       *)
TurnsRight(p, n, r) ==
  Len(p) = r /\ (\A i \in 1 .. r - 1 : p[i] = n[i]) /\ p[r] = n[r] + 1

LEMMA BeforeTurn ==
  ASSUME NEW m \in Seq(Steps), NEW n \in Seq(Steps), NEW p \in Seq(Steps),
         NEW r \in 1 .. Len(n), TurnsRight(p, n, r)
  PROVE  /\ m = n \/ Before(m, n) => Before(m, p)
         /\ \A k \in 1 .. r : k <= Len(m) /\ Agree(m, n, k - 1) /\ n[k] < m[k] => ~Before(m, p)
<1>1. /\ Len(m) \in Nat /\ Len(n) \in Nat /\ \A i \in 1 .. Len(m) : m[i] \in Nat
      /\ \A i \in 1 .. Len(n) : n[i] \in Nat
  BY DEF Steps
<1>2. Len(p) = r /\ p[r] = n[r] + 1 /\ \A i \in 1 .. r - 1 : p[i] = n[i]
  BY DEF TurnsRight
<1>3. ASSUME Agree(m, n, r - 1), Len(m) < r PROVE Before(m, p)
  BY <1>1, <1>2, <1>3 DEF Before, Above, Agree
<1>4. ASSUME Agree(m, n, r - 1), r <= Len(m), m[r] <= n[r] PROVE Before(m, p)
  <2>1. r \in 1 .. Len(p) /\ m[r] < p[r] /\ Agree(m, p, r - 1)
    BY <1>1, <1>2, <1>4 DEF Agree
  <2>. QED
    BY <1>4, <2>1 DEF Before, Earlier
<1>5. ASSUME m = n PROVE Before(m, p)
  BY <1>1, <1>4, <1>5 DEF Agree
<1>6. ASSUME Above(m, n) PROVE Before(m, p)
  <2>1. CASE Len(m) < r
    <3>1. \A i \in 1 .. Len(m) : m[i] = p[i]
      BY <1>1, <1>2, <1>6, <2>1 DEF Above, Agree
    <3>. QED
      BY <1>2, <2>1, <3>1 DEF Before, Above, Agree
  <2>2. CASE r <= Len(m)
    <3>1. Agree(m, n, r - 1) /\ m[r] <= n[r]
      BY <1>1, <1>6, <2>2 DEF Above, Agree
    <3>. QED
      BY <1>4, <2>2, <3>1
  <2>. QED
    BY <1>1, <2>1, <2>2
<1>7. ASSUME Earlier(m, n) PROVE Before(m, p)
  <2>1. PICK k \in 1 .. Len(n) : k <= Len(m) /\ Agree(m, n, k - 1) /\ m[k] < n[k]
    BY <1>7 DEF Earlier
  <2>2. CASE k < r
    <3>1. k \in 1 .. Len(p) /\ p[k] = n[k] /\ Agree(m, p, k - 1)
      BY <1>1, <1>2, <2>1, <2>2 DEF Agree
    <3>. QED
      BY <2>1, <3>1 DEF Before, Earlier
  <2>3. CASE r <= k
    <3>1. Agree(m, n, r - 1) /\ r <= Len(m) /\ m[r] <= n[r]
      BY <1>1, <2>1, <2>3 DEF Agree
    <3>. QED
      BY <1>4, <3>1
  <2>. QED
    BY <2>2, <2>3
<1>8. ASSUME NEW k \in 1 .. r, k <= Len(m), Agree(m, n, k - 1), n[k] < m[k], Before(m, p)
      PROVE  FALSE
  <2>1. \A i \in 1 .. k - 1 : m[i] = p[i]
    BY <1>1, <1>2, <1>8 DEF Agree
  <2>2. p[k] <= m[k] /\ (k < r => p[k] < m[k])
    <3>1. CASE k < r
      <4>1. p[k] = n[k] /\ n[k] \in Nat /\ m[k] \in Nat
        BY <1>1, <1>2, <1>8, <3>1
      <4>. QED
        BY <1>8, <4>1
    <3>2. CASE k = r
      <4>1. p[k] = n[k] + 1 /\ n[k] \in Nat /\ m[k] \in Nat
        BY <1>1, <1>2, <1>8, <3>2
      <4>. QED
        BY <1>8, <3>2, <4>1
    <3>. QED
      BY <3>1, <3>2
  <2>3. CASE Above(m, p)
    <3>1. Len(m) < r /\ m[k] = p[k] /\ k < r
      BY <1>1, <1>2, <1>8, <2>3 DEF Above, Agree
    <3>2. p[k] \in Nat /\ p[k] < m[k]
      BY <1>1, <1>2, <1>8, <2>2, <3>1
    <3>. QED
      BY <3>1, <3>2
  <2>4. CASE Earlier(m, p)
    <3>1. PICK j \in 1 .. r : j <= Len(m) /\ Agree(m, p, j - 1) /\ m[j] < p[j]
      BY <1>2, <2>4 DEF Earlier
    <3>2. m[j] \in Nat /\ m[k] \in Nat /\ p[j] \in Nat /\ p[k] \in Nat
      <4>1. j \in 1 .. Len(m) /\ k \in 1 .. Len(m) /\ j \in 1 .. Len(p) /\ k \in 1 .. Len(p)
        BY <1>1, <1>2, <1>8, <3>1
      <4>2. \A i \in 1 .. Len(p) : p[i] \in Nat
        BY DEF Steps
      <4>. QED
        BY <1>1, <4>1, <4>2
    <3>3. CASE j < k
      BY <2>1, <3>1, <3>2, <3>3
    <3>4. CASE j = k
      BY <2>2, <3>1, <3>2, <3>4
    <3>5. CASE k < j
      <4>1. m[k] = p[k] /\ k < r
        BY <1>8, <3>1, <3>5 DEF Agree
      <4>. QED
        BY <2>2, <3>2, <4>1
    <3>. QED
      BY <3>3, <3>4, <3>5
  <2>. QED
    BY <1>8, <2>3, <2>4 DEF Before
<1>. QED
  BY <1>5, <1>6, <1>7, <1>8 DEF Before

(* Nothing of the file is missed: what follows a node comes right after it. *)
LEMMA FollowingIsNext ==
  ASSUME IsSyntaxTree(file), NEW n \in Nodes
  PROVE  /\ Following(n) = None \/ Following(n) \in Nodes \ {<<>>}
         /\ \A m \in Nodes : (m = n \/ Before(m, n))
                               <=> (Following(n) = None \/ Before(m, Following(n)))
<1>. DEFINE kids == file[n].kids
            right == {k \in 1 .. Len(n) : n[k] < file[Up(n, k - 1)].kids}
<1>1. n \in Seq(Steps) /\ kids \in Nat /\ None \notin Nodes
  BY TreeFacts
<1>2. Len(n) \in Nat /\ \A i \in 1 .. Len(n) : n[i] \in Nat /\ n[i] >= 1
  BY <1>1 DEF Steps
<1>3. CASE kids > 0
  <2>1. Following(n) = Append(n, 1) /\ 1 \in 1 .. kids
    BY <1>1, <1>3 DEF Following
  <2>2. Append(n, 1) \in Nodes
    BY <2>1, TreeFacts
  <2>3. Append(n, 1) # <<>>
    BY <1>1, UpOfAppend DEF Steps
  <2>4. \A m \in Nodes : m = n \/ Before(m, n) <=> Before(m, Append(n, 1))
    BY <1>1, TreeFacts, BeforeChild
  <2>. QED
    BY <1>1, <2>1, <2>2, <2>3, <2>4
<1>4. CASE ~(kids > 0)
  <2>1. kids = 0
    BY <1>1, <1>4
  <2>2. ASSUME NEW m \in Nodes, ~(m = n \/ Before(m, n))
        PROVE  \E k \in right : k <= Len(m) /\ Agree(m, n, k - 1) /\ n[k] < m[k]
    <3>1. m \in Seq(Steps) /\ Len(m) \in Nat /\ \A i \in 1 .. Len(m) : m[i] \in Nat /\ m[i] >= 1
      BY TreeFacts DEF Steps
    <3>2. ASSUME NEW k \in 1 .. Len(m), k - 1 <= Len(n), Agree(m, n, k - 1)
          PROVE  /\ m[k] <= file[Up(n, k - 1)].kids /\ file[Up(n, k - 1)].kids \in Nat
      <4>1. k - 1 \in 0 .. Len(m) /\ k - 1 \in 0 .. Len(n) /\ k \in 0 .. Len(m)
        BY <1>2, <3>1, <3>2
      <4>2. /\ Up(m, k - 1) \in Seq(Steps) /\ Len(Up(m, k - 1)) = k - 1
            /\ \A i \in 1 .. k - 1 : Up(m, k - 1)[i] = m[i]
            /\ Up(n, k - 1) \in Seq(Steps) /\ Len(Up(n, k - 1)) = k - 1
            /\ \A i \in 1 .. k - 1 : Up(n, k - 1)[i] = n[i]
        BY <1>1, <3>1, <4>1, Ups
      <4>3. Up(m, k - 1) = Up(n, k - 1)
        <5>1. \A i \in 1 .. k - 1 : m[i] = n[i]
          BY <3>2 DEF Agree
        <5>2. \A i \in 1 .. k - 1 : Up(m, k - 1)[i] = Up(n, k - 1)[i]
          BY <4>2, <5>1
        <5>. QED
          BY <4>2, <5>2, SameSequence
      <4>4. Up(m, k) \in Nodes /\ Up(m, k) \in Seq(Steps) /\ Len(Up(m, k)) = k /\ Up(m, k)[k] = m[k]
        <5>1. \A i \in 1 .. k : Up(m, k)[i] = m[i]
          BY <3>1, <4>1, Ups
        <5>. QED
          BY <3>1, <4>1, <5>1, Ups, UpIsNode
      <4>5. Up(Up(m, k), k - 1) = Up(m, k - 1)
        <5>1. k - 1 \in 0 .. k
          BY <4>1
        <5>. QED
          BY <3>1, <4>1, <5>1, UpOfUp
      <4>6. Up(m, k) # <<>>
        BY <4>4
      <4>7. m[k] <= file[Up(m, k - 1)].kids /\ Up(m, k - 1) \in Nodes
        BY <4>4, <4>5, <4>6, TreeFacts
      <4>. QED
        BY <4>3, <4>7, TreeFacts
    <3>3. ~Above(n, m)
      <4>. SUFFICES ASSUME Above(n, m) PROVE FALSE
        OBVIOUS
      <4>. DEFINE k == Len(n) + 1
      <4>1. k \in 1 .. Len(m) /\ k - 1 = Len(n) /\ Agree(m, n, k - 1)
        BY <1>2, <3>1 DEF Above, Agree
      <4>2. m[k] <= file[Up(n, k - 1)].kids
        BY <1>2, <3>2, <4>1
      <4>3. Up(n, k - 1) = n
        BY <1>1, <4>1, UpOfAll
      <4>. QED
        BY <2>1, <3>1, <4>1, <4>2, <4>3
    <3>4. PICK k \in 1 .. Len(n) : k <= Len(m) /\ Agree(m, n, k - 1) /\ m[k] # n[k]
      BY <1>1, <2>2, <3>1, <3>3, SequencesDiffer DEF Before
    <3>5. k \in 1 .. Len(m) /\ k - 1 <= Len(n)
      BY <1>2, <3>1, <3>4
    <3>6. ~(m[k] < n[k])
      BY <2>2, <3>4 DEF Before, Earlier
    <3>7. n[k] < m[k]
      BY <1>2, <3>1, <3>4, <3>5, <3>6
    <3>8. m[k] <= file[Up(n, k - 1)].kids /\ file[Up(n, k - 1)].kids \in Nat
      BY <3>2, <3>4, <3>5
    <3>9. k \in right
      BY <1>2, <3>1, <3>5, <3>7, <3>8
    <3>. QED
      BY <3>4, <3>7, <3>9
  <2>3. CASE right = {}
    <3>1. Following(n) = None
      BY <1>4, <2>3 DEF Following
    <3>. HIDE DEF right
    <3>. QED
      BY <2>2, <2>3, <3>1
  <2>4. CASE right # {}
    <3>. DEFINE r == Max(right)
                p == Append(Up(n, r - 1), n[r] + 1)
    <3>1. r \in right /\ \A k \in right : k <= r
      <4>1. right \subseteq 0 .. Len(n)
        BY <1>2
      <4>. HIDE DEF right
      <4>. QED
        BY <1>2, <2>4, <4>1, MaxIsGreatest
    <3>2. Following(n) = p
      BY <1>4, <2>4 DEF Following
    <3>. HIDE DEF r
    <3>3. r \in 1 .. Len(n) /\ n[r] < file[Up(n, r - 1)].kids
      BY <3>1
    <3>. HIDE DEF right
    <3>4. r - 1 \in 0 .. Len(n) /\ n[r] + 1 \in Steps
      BY <1>2, <3>3 DEF Steps
    <3>5. /\ Up(n, r - 1) \in Seq(Steps) /\ Len(Up(n, r - 1)) = r - 1
          /\ \A i \in 1 .. r - 1 : Up(n, r - 1)[i] = n[i]
          /\ Up(n, r - 1) \in Nodes
      BY <1>1, <3>4, Ups, UpIsNode
    <3>6. p \in Seq(Steps) /\ TurnsRight(p, n, r)
      <4>. DEFINE u == Up(n, r - 1)
                  x == n[r] + 1
      <4>. HIDE DEF u, x
      <4>1. u \in Seq(Steps) /\ Len(u) = r - 1 /\ x \in Steps /\ \A i \in 1 .. r - 1 : u[i] = n[i]
        BY <3>4, <3>5 DEF u, x
      <4>2. /\ Append(u, x) \in Seq(Steps) /\ Len(Append(u, x)) = Len(u) + 1
            /\ Append(u, x)[Len(u) + 1] = x
            /\ \A i \in 1 .. Len(u) : Append(u, x)[i] = u[i]
        BY <4>1, UpOfAppend
      <4>3. (r - 1) + 1 = r
        BY <3>3
      <4>. QED
        BY <4>1, <4>2, <4>3 DEF u, x, TurnsRight
    <3>7. p \in Nodes
      <4>1. n[r] + 1 \in 1 .. file[Up(n, r - 1)].kids
        <5>1. file[Up(n, r - 1)].kids \in Nat
          BY <3>5, TreeFacts
        <5>. QED
          BY <1>2, <3>3, <5>1
      <4>. QED
        BY <3>5, <4>1, TreeFacts
    <3>. HIDE DEF p
    <3>8. p # <<>> /\ p # None
      BY <1>1, <3>3, <3>6, <3>7 DEF TurnsRight
    <3>9. ASSUME NEW m \in Nodes, m = n \/ Before(m, n) PROVE Before(m, p)
      BY <1>1, <3>3, <3>6, <3>9, TreeFacts, BeforeTurn
    <3>10. ASSUME NEW m \in Nodes, ~(m = n \/ Before(m, n)) PROVE ~Before(m, p)
      <4>1. PICK k \in right : k <= Len(m) /\ Agree(m, n, k - 1) /\ n[k] < m[k]
        BY <2>2, <3>10
      <4>2. k \in 1 .. r
        <5>1. k \in 1 .. Len(n) /\ k <= r
          BY <3>1 DEF right
        <5>. QED
          BY <3>3, <5>1
      <4>3. m \in Seq(Steps)
        BY TreeFacts
      <4>. QED
        BY <1>1, <3>3, <3>6, <4>1, <4>2, <4>3, BeforeTurn
    <3>. QED
      BY <3>2, <3>7, <3>8, <3>9, <3>10
  <2>. QED
    BY <2>3, <2>4
<1>. QED
  BY <1>3, <1>4

-----------------------------------------------------------------------------
(* The walk: what holds in every state                                     *)

ChainRule == "no-chained-type-assertions"
CopyRule == "no-reduce-accumulator-copy"
Visited == {m \in Nodes : visiting = None \/ Before(m, visiting)}

(***************************************************************************)
(* The file is a syntax tree, and so are those to come.  The walk is at a  *)
(* node of the file or past its last; once it is past the Program, the     *)
(* environment is that of this file and of no earlier one; and, unless a   *)
(* rule threw, the two rules have said what they say of each node that the *)
(* walk has passed, and nothing else.                                      *)
(***************************************************************************)
FilesAreTrees == IsSyntaxTree(file) /\ queue \in Seq(Trees)
WalkIsInFile == visiting \in Nodes \cup {None}
EnvironmentIsOfFile == visiting = <<>> \/ environment.bindings = collectTypeBindings
VisitedAreReported ==
  ~failed => SaidHere(reports) = UNION {VerdictsHere(m) : m \in Visited}

WalkInvariant ==
  FilesAreTrees /\ WalkIsInFile /\ EnvironmentIsOfFile /\ VisitedAreReported

(* While the file is the same, so is all that is read off it.              *)
LEMMA SameFile ==
  ASSUME file' = file
  PROVE  /\ Nodes' = Nodes
         /\ collectTypeBindings' = collectTypeBindings
         /\ \A n : VerdictsHere(n)' = VerdictsHere(n)
<1>1. Nodes' = Nodes
  BY DEF Nodes
<1>2. \A n : TypeOf(n)' = TypeOf(n) /\ NameOf(n)' = NameOf(n) /\ RoleOf(n)' = RoleOf(n)
  BY DEF TypeOf, NameOf, RoleOf
<1>3. \A n : ReferenceName(n)' = ReferenceName(n) /\ DeclaresType(n)' = DeclaresType(n)
  BY <1>2, Zenon DEF ReferenceName, DeclaresType
<1>4. \A n, types : Nearest(n, types)' = Nearest(n, types)
  BY <1>2 DEF Nearest
<1>5. \A n : enclosingTypeScope(n)' = enclosingTypeScope(n)
  BY <1>4 DEF enclosingTypeScope
<1>6. collectTypeBindings' = collectTypeBindings
  BY <1>1, <1>2, <1>3, <1>5 DEF collectTypeBindings
<1>7. \A n, role : HeldAs(n, role)' = HeldAs(n, role)
  BY <1>2 DEF HeldAs
<1>8. \A n, role : Kid(n, role)' = Kid(n, role)
  BY <1>7 DEF Kid
<1>9. \A n : Wrapped(n)' = Wrapped(n) /\ Within(n)' = Within(n)
  BY <1>1, <1>8 DEF Wrapped, Within
<1>10. ASSUME NEW n, NEW wrappers PROVE Unwrap(n, wrappers)' = Unwrap(n, wrappers)
  <2>1. \A m : m \in Within(n)' <=> m \in Within(n)
    BY <1>9
  <2>2. \A m : TypeOf(m)' \in wrappers <=> TypeOf(m) \in wrappers
    BY <1>2
  <2>3. \A m, k : TypeOf(Up(m, k))' \in wrappers <=> TypeOf(Up(m, k)) \in wrappers
    BY <1>2
  <2>4. \A m, k : Up(m, k + 1) = Wrapped(Up(m, k))' <=> Up(m, k + 1) = Wrapped(Up(m, k))
    BY <1>9
  <2>5. \A m : (/\ TypeOf(m)' \notin wrappers
                /\ \A k \in Len(n) .. Len(m) - 1 :
                     TypeOf(Up(m, k))' \in wrappers /\ Up(m, k + 1) = Wrapped(Up(m, k))')
              <=> (/\ TypeOf(m) \notin wrappers
                   /\ \A k \in Len(n) .. Len(m) - 1 :
                        TypeOf(Up(m, k)) \in wrappers /\ Up(m, k + 1) = Wrapped(Up(m, k)))
    BY <2>2, <2>3, <2>4
  <2>. DEFINE inner == CHOOSE m \in Within(n) :
                        /\ TypeOf(m) \notin wrappers
                        /\ \A k \in Len(n) .. Len(m) - 1 :
                             TypeOf(Up(m, k)) \in wrappers /\ Up(m, k + 1) = Wrapped(Up(m, k))
  <2>6. inner' = inner
    BY <2>1, <2>5, Zenon
  <2>7. Unwrap(n, wrappers) = IF TypeOf(n) \notin wrappers THEN n ELSE inner
    BY Zenon DEF Unwrap
  <2>8. Unwrap(n, wrappers)' = IF TypeOf(n)' \notin wrappers THEN n ELSE inner'
    BY Zenon DEF Unwrap
  <2>. HIDE DEF inner
  <2>. QED
    BY <2>2, <2>6, <2>7, <2>8
<1>11. \A n : unwrapParenthesizedExpression(n)' = unwrapParenthesizedExpression(n)
  BY <1>10 DEF unwrapParenthesizedExpression
<1>12. \A n : Inwards(n)' = Inwards(n)
  BY <1>2, <1>8, <1>11, Zenon DEF Inwards
<1>13. \A n : isConstAssertion(n)' = isConstAssertion(n)
  BY <1>3, <1>8 DEF isConstAssertion
<1>14. \A n : AssertionChain(n)' = AssertionChain(n)
  BY <1>2, <1>9, <1>12 DEF AssertionChain
<1>15. \A n : isForbiddenAssertionChain(n)' = isForbiddenAssertionChain(n)
  BY <1>13, <1>14 DEF isForbiddenAssertionChain
<1>16. \A n : isOutermostAssertionInChain(n)' = isOutermostAssertionInChain(n)
  BY <1>2 DEF isOutermostAssertionInChain
<1>17. \A n : noChainedTypeAssertions(n)' = noChainedTypeAssertions(n)
  BY <1>2, <1>15, <1>16 DEF noChainedTypeAssertions
<1>18. \A n : unwrapArrayExpression(n)' = unwrapArrayExpression(n)
  BY <1>10 DEF unwrapArrayExpression, ExpressionWrappers, Assertions
<1>19. \A name, use : resolveVariable(name, use)' = resolveVariable(name, use)
  <2>1. \A d : DefinesVariable(d)' = DefinesVariable(d) /\ ScopeOf(d)' = ScopeOf(d)
    BY <1>2, <1>4 DEF DefinesVariable, ScopeOf
  <2>. QED
    BY <1>1, <1>2, <2>1 DEF resolveVariable
<1>20. \A v : IsReassigned(v)' = IsReassigned(v)
  BY <1>1, <1>2, <1>19 DEF IsReassigned
<1>21. \A e : resolveArrayBinding(e)' = resolveArrayBinding(e)
  BY <1>2, <1>18, <1>19 DEF resolveArrayBinding
<1>22. \A e : arrayMethodTarget(e)' = arrayMethodTarget(e)
  BY <1>2, <1>8, <1>18 DEF arrayMethodTarget
<1>23. \A v : ConstInitializer(v)' = ConstInitializer(v) /\ Annotated(v)' = Annotated(v)
  BY <1>2, <1>8 DEF ConstInitializer, Annotated, Parent
<1>24. \A type : isArrayAnnotation(type)' = isArrayAnnotation(type)
  BY <1>2, <1>3, <1>9 DEF isArrayAnnotation
<1>25. \A e : IsArrayEvidence(e)' = IsArrayEvidence(e)
  BY <1>2, <1>8, <1>18, <1>20, <1>21, <1>23, <1>24, Zenon DEF IsArrayEvidence
<1>26. \A e : ArrayBehind(e)' = ArrayBehind(e)
  BY <1>2, <1>8, <1>18, <1>20, <1>21, <1>22, <1>23, Zenon DEF ArrayBehind
<1>27. \A e : isKnownArrayExpression(e)' = isKnownArrayExpression(e)
  BY <1>1, <1>25, <1>26, Zenon DEF isKnownArrayExpression
<1>28. \A v : Behind(v)' = Behind(v)
  BY <1>20, <1>21, <1>23, Zenon DEF Behind
<1>29. \A v : TracedBack(v)' = TracedBack(v)
  BY <1>28, Zenon DEF TracedBack
<1>30. \A e, accumulator : referencesAccumulator(e, accumulator)' = referencesAccumulator(e, accumulator)
  BY <1>1, <1>21, <1>29, Zenon DEF referencesAccumulator
<1>31. \A n, role : KidsAs(n, role)' = KidsAs(n, role)
  BY <1>7 DEF KidsAs
<1>32. \A n : OwnerOf(n)' = OwnerOf(n)
  BY <1>18 DEF OwnerOf
<1>33. \A n : enclosingReducer(n)' = enclosingReducer(n)
  BY <1>2, <1>4, <1>8, <1>18, <1>22, <1>31, <1>32, Zenon DEF enclosingReducer
<1>34. \A n, name : isGlobalCopyOwner(n, name)' = isGlobalCopyOwner(n, name)
  BY <1>2, <1>18, <1>21 DEF isGlobalCopyOwner
<1>35. \A n, method, reducer : copiesAccumulator(n, method, reducer)' = copiesAccumulator(n, method, reducer)
  <2>. SUFFICES ASSUME NEW n, NEW method, NEW reducer
                PROVE  copiesAccumulator(n, method, reducer)' = copiesAccumulator(n, method, reducer)
    OBVIOUS
  <2>1. KidsAs(n, "arguments")' = KidsAs(n, "arguments")
    BY <1>31
  <2>2. \A e : referencesAccumulator(e, reducer.accumulator)' = referencesAccumulator(e, reducer.accumulator)
    BY <1>30
  <2>3. /\ isGlobalCopyOwner(method.object, "Object")' = isGlobalCopyOwner(method.object, "Object")
        /\ isGlobalCopyOwner(method.object, "Array")' = isGlobalCopyOwner(method.object, "Array")
    BY <1>34
  <2>4. \A e : TypeOf(unwrapArrayExpression(e))' = TypeOf(unwrapArrayExpression(e))
    BY <1>2, <1>18, Zenon
  <2>5. isKnownArrayExpression(reducer.initialValue)' = isKnownArrayExpression(reducer.initialValue)
    BY <1>27
  <2>. QED
    BY <2>1, <2>2, <2>3, <2>4, <2>5, ZenonT(60) DEF copiesAccumulator
<1>36. \A n : noReduceAccumulatorCopy(n)' = noReduceAccumulatorCopy(n)
  BY <1>2, <1>8, <1>22, <1>33, <1>35, Zenon DEF noReduceAccumulatorCopy
<1>37. \A n : VerdictsHere(n)' = VerdictsHere(n)
  BY <1>17, <1>36 DEF VerdictsHere, Tagged
<1>. QED
  BY <1>1, <1>6, <1>37

LEMMA NothingOfProgram ==
  ASSUME IsSyntaxTree(file)
  PROVE  VerdictsHere(<<>>) = {} /\ ~DeclaresType(<<>>)
<1>1. TypeOf(<<>>) = "Program"
  BY TreeFacts, TypeFacts
<1>2. noChainedTypeAssertions(<<>>) = {} /\ noReduceAccumulatorCopy(<<>>) = {} /\ ~DeclaresType(<<>>)
  BY <1>1, Zenon DEF noChainedTypeAssertions, noReduceAccumulatorCopy, Assertions, DeclaresType, Alias
<1>. QED
  BY <1>2 DEF VerdictsHere, Tagged

LEMMA TaggedNothing ==
  ASSUME NEW rule
  PROVE  Tagged(rule, {}) = {} /\ SaidHere({}) = {}
  BY DEF Tagged, SaidHere

LEMMA WalkStarts == Init => WalkInvariant
<1>. SUFFICES ASSUME Init PROVE WalkInvariant
  OBVIOUS
<1>1. Nodes = {<<>>} /\ file[<<>>].type = "Program" /\ file[<<>>].kids = 0
  BY Zenon DEF EmptyFile, Nodes, Init
<1>2. IsSyntaxTree(file)
  <2>1. IsFiniteSet(Nodes) /\ Nodes \subseteq Seq(Nat \ {0}) /\ None \notin Nodes
    <3>1. IsFiniteSet({<<>>})
      BY FS_Singleton
    <3>2. <<>> \in Seq(Nat \ {0})
      OBVIOUS
    <3>. QED
      BY <1>1, <3>1, <3>2, NoneAssumption
  <2>2. \A i : i \notin 1 .. file[<<>>].kids
    BY <1>1
  <2>3. "Program" \notin Assertions /\ "Program" # "ParenthesizedExpression"
    BY DEF Assertions
  <2>. QED
    BY <1>1, <2>1, <2>2, <2>3 DEF IsSyntaxTree, Nodes
<1>3. /\ queue \in Seq(Trees) /\ visiting = None /\ reports = {} /\ ~failed
      /\ environment.bindings = {}
  BY BatchesAssumption DEF Init
<1>4. collectTypeBindings = {}
  BY <1>1, <1>2, NothingOfProgram DEF collectTypeBindings
<1>5. VisitedAreReported
  <2>1. \A m \in Nodes : VerdictsHere(m) = {}
    BY <1>1, <1>2, NothingOfProgram, TaggedNothing
  <2>2. SaidHere(reports) = {}
    BY <1>3, TaggedNothing
  <2>. QED
    BY <2>1, <2>2 DEF VisitedAreReported, Visited
<1>. QED
  BY <1>2, <1>3, <1>4, <1>5 DEF WalkInvariant, FilesAreTrees, WalkIsInFile, EnvironmentIsOfFile

LEMMA MovesOn ==
  ASSUME WalkInvariant, visiting \in Nodes, visiting' = Following(visiting), file' = file,
         ~failed' => ~failed,
         SaidHere(reports') = SaidHere(reports) \cup VerdictsHere(visiting)
  PROVE  WalkIsInFile' /\ VisitedAreReported'
<1>. DEFINE of(m) == VerdictsHere(m)
<1>1. /\ IsSyntaxTree(file) /\ visiting # None
      /\ ~failed => SaidHere(reports) = UNION {of(m) : m \in Visited}
  BY TreeFacts DEF WalkInvariant, FilesAreTrees, VisitedAreReported
<1>2. Nodes' = Nodes /\ \A m : of(m)' = of(m)
  BY SameFile
<1>3. Following(visiting) \in Nodes \cup {None}
  BY <1>1, FollowingIsNext
<1>4. Visited' = Visited \cup {visiting}
  <2>1. \A m \in Nodes : m = visiting \/ Before(m, visiting)
                            <=> (Following(visiting) = None \/ Before(m, Following(visiting)))
    BY <1>1, FollowingIsNext
  <2>2. \A m : m \in Visited' <=>
                 m \in Nodes /\ (Following(visiting) = None \/ Before(m, Following(visiting)))
    BY <1>2 DEF Visited
  <2>3. \A m : m \in Visited <=> m \in Nodes /\ Before(m, visiting)
    BY <1>1 DEF Visited
  <2>. QED
    BY <2>1, <2>2, <2>3
<1>5. ASSUME ~failed' PROVE SaidHere(reports') = UNION {of(m)' : m \in Visited'}
  <2>1. SaidHere(reports) = UNION {of(m) : m \in Visited}
    BY <1>1, <1>5
  <2>. HIDE DEF of
  <2>2. UNION {of(m) : m \in Visited \cup {visiting}}
          = (UNION {of(m) : m \in Visited}) \cup of(visiting)
    OBVIOUS
  <2>3. UNION {of(m)' : m \in Visited'} = UNION {of(m) : m \in Visited \cup {visiting}}
    BY <1>2, <1>4
  <2>4. SaidHere(reports') = SaidHere(reports) \cup of(visiting)
    BY DEF of
  <2>. QED
    BY <2>1, <2>2, <2>3, <2>4
<1>6. WalkIsInFile'
  BY <1>2, <1>3 DEF WalkIsInFile
<1>7. VisitedAreReported'
  BY <1>5 DEF VisitedAreReported, SaidHere
<1>. QED
  BY <1>6, <1>7

LEMMA WalkGoesOn == WalkInvariant /\ [AnyRules]_vars => WalkInvariant'
<1>. SUFFICES ASSUME WalkInvariant, [AnyRules]_vars PROVE WalkInvariant'
  OBVIOUS
<1>. USE DEF WalkInvariant
<1>0. IsSyntaxTree(file) /\ queue \in Seq(Trees) /\ None \notin Nodes
  BY TreeFacts DEF FilesAreTrees
<1>1. CASE OpenFile
  <2>. USE DEF OpenFile
  <2>1. IsSyntaxTree(file)'
    <3>1. Head(queue) \in Trees
      BY <1>0, <1>1
    <3>2. file' \in Trees
      BY <1>1, <3>1
    <3>. QED
      BY <3>2, BatchesAssumption DEF IsSyntaxTree, Nodes
  <2>2. queue' \in Seq(Trees)
    BY <1>0, <1>1
  <2>3. visiting' = <<>> /\ <<>> \in Nodes'
    BY <1>1, <2>1 DEF IsSyntaxTree, Nodes
  <2>4. SaidHere(reports') = {} /\ Visited' = {}
    <3>1. \A m \in Nodes' : ~Before(m, <<>>)
      <4>1. Nodes' \subseteq Seq(Steps)
        BY <2>1 DEF IsSyntaxTree, Nodes, Steps
      <4>. SUFFICES ASSUME NEW m \in Seq(Steps) PROVE ~Before(m, <<>>)
        BY <4>1
      <4>. QED
        BY DEF Before, Above, Earlier
    <3>. QED
      BY <1>1, <2>3, <3>1, NoneAssumption, TaggedNothing DEF Visited
  <2>. QED
    BY <2>1, <2>2, <2>3, <2>4
    DEF FilesAreTrees, WalkIsInFile, EnvironmentIsOfFile, VisitedAreReported
<1>2. CASE VisitProgram
  <2>. USE DEF VisitProgram
  <2>1. FilesAreTrees'
    BY <1>2 DEF FilesAreTrees
  <2>2. <<>> \in Nodes /\ Nodes' = Nodes
    BY <1>0, <1>2, TreeFacts DEF Nodes
  <2>3. WalkIsInFile' /\ VisitedAreReported'
    <3>1. VerdictsHere(<<>>) = {}
      BY <1>0, NothingOfProgram
    <3>. QED
      BY <1>2, <2>2, <3>1, MovesOn
  <2>4. EnvironmentIsOfFile'
    <3>1. environment'.bindings = collectTypeBindings
      BY <1>2 DEF createTypeEnvironment
    <3>2. collectTypeBindings' = collectTypeBindings
      BY <1>2, SameFile
    <3>. QED
      BY <3>1, <3>2 DEF EnvironmentIsOfFile
  <2>. QED
    BY <2>1, <2>3, <2>4
<1>3. ASSUME NEW n \in NextNode, NEW said,
             SaidHere(said) = VerdictsHere(n), Visit(n, said)
      PROVE  WalkInvariant'
  <2>. USE DEF Visit
  <2>1. n = visiting /\ visiting \in Nodes /\ visiting # <<>>
    BY DEF NextNode, WalkIsInFile
  <2>2. FilesAreTrees'
    BY <1>3 DEF FilesAreTrees
  <2>3. WalkIsInFile' /\ VisitedAreReported'
    <3>1. SaidHere(reports') = SaidHere(reports) \cup SaidHere(said)
      BY <1>3 DEF SaidHere
    <3>2. SaidHere(said) = VerdictsHere(visiting)
      BY <1>3, <2>1
    <3>. QED
      BY <1>3, <2>1, <3>1, <3>2, MovesOn
  <2>4. EnvironmentIsOfFile'
    BY <1>3, <2>1, SameFile DEF EnvironmentIsOfFile
  <2>. QED
    BY <2>2, <2>3, <2>4
<1>4. ASSUME NEW n \in NextNode, NEW said, Throw(said)
      PROVE  WalkInvariant'
  <2>. USE DEF Throw
  <2>1. visiting # <<>>
    BY DEF NextNode
  <2>2. FilesAreTrees' /\ WalkIsInFile' /\ VisitedAreReported'
    BY <1>4 DEF FilesAreTrees, WalkIsInFile, VisitedAreReported
  <2>3. EnvironmentIsOfFile'
    BY <1>4, <2>1, SameFile DEF EnvironmentIsOfFile
  <2>. QED
    BY <2>2, <2>3
<1>5. CASE UNCHANGED vars
  <2>1. file' = file /\ environment' = environment /\ queue' = queue /\ visiting' = visiting
        /\ reports' = reports /\ failed' = failed
    BY <1>5 DEF vars
  <2>2. Nodes' = Nodes /\ collectTypeBindings' = collectTypeBindings
        /\ \A m : VerdictsHere(m)' = VerdictsHere(m)
    BY <2>1, SameFile
  <2>3. FilesAreTrees' /\ WalkIsInFile' /\ EnvironmentIsOfFile'
    BY <2>1, <2>2 DEF FilesAreTrees, WalkIsInFile, EnvironmentIsOfFile
  <2>4. VisitedAreReported'
    <3>1. Visited' = Visited
      BY <2>1, <2>2 DEF Visited
    <3>2. {VerdictsHere(m)' : m \in Visited'}
            = {VerdictsHere(m) : m \in Visited}
      BY <2>2, <3>1
    <3>. QED
      BY <2>1, <3>1, <3>2 DEF VisitedAreReported, SaidHere
  <2>. QED
    BY <2>3, <2>4
<1>. QED
  BY <1>1, <1>2, <1>3, <1>4, <1>5 DEF AnyRules

LEMMA WalkInvariantHolds == Walk => []WalkInvariant
<1>1. Init => WalkInvariant
  BY WalkStarts
<1>2. WalkInvariant /\ [AnyRules]_vars => WalkInvariant'
  BY WalkGoesOn
<1>. QED
  BY <1>1, <1>2, PTL DEF Walk

(* After the last node, what each of the two rules said of any node.       *)
LEMMA WhatIsReported ==
  ASSUME WalkInvariant, Linted
  PROVE  /\ ReportedBy(ChainRule) = {m \in Nodes : noChainedTypeAssertions(m) # {}}
         /\ ReportedBy(CopyRule) = {m \in Nodes : noReduceAccumulatorCopy(m) # {}}
<1>. DEFINE tag(rule, m, data) == [rule |-> rule, node |-> m, data |-> data]
<1>1. SaidHere(reports) = UNION {VerdictsHere(m) : m \in Nodes}
  BY DEF WalkInvariant, VisitedAreReported, Visited, Linted
<1>2. \A m : /\ noChainedTypeAssertions(m) \in {{}, {<<m, "chained">>}}
             /\ noReduceAccumulatorCopy(m) \in {{}, {<<m, "accumulatorCopy">>}}
  BY Zenon DEF noChainedTypeAssertions, noReduceAccumulatorCopy
<1>. HIDE DEF tag
<1>3. ASSUME NEW m, NEW r
      PROVE  r \in VerdictsHere(m) <=>
               \/ noChainedTypeAssertions(m) # {} /\ r = tag(ChainRule, m, "chained")
               \/ noReduceAccumulatorCopy(m) # {} /\ r = tag(CopyRule, m, "accumulatorCopy")
  <2>1. r \in Tagged(ChainRule, noChainedTypeAssertions(m))
          <=> noChainedTypeAssertions(m) # {} /\ r = tag(ChainRule, m, "chained")
    <3>1. CASE noChainedTypeAssertions(m) = {}
      BY <3>1, TaggedNothing
    <3>2. CASE noChainedTypeAssertions(m) = {<<m, "chained">>}
      BY <3>2 DEF Tagged, tag
    <3>. QED
      BY <1>2, <3>1, <3>2
  <2>2. r \in Tagged(CopyRule, noReduceAccumulatorCopy(m))
          <=> noReduceAccumulatorCopy(m) # {} /\ r = tag(CopyRule, m, "accumulatorCopy")
    <3>1. CASE noReduceAccumulatorCopy(m) = {}
      BY <3>1, TaggedNothing
    <3>2. CASE noReduceAccumulatorCopy(m) = {<<m, "accumulatorCopy">>}
      BY <3>2 DEF Tagged, tag
    <3>. QED
      BY <1>2, <3>1, <3>2
  <2>. QED
    BY <2>1, <2>2, Zenon DEF VerdictsHere, ChainRule, CopyRule
<1>4. \A rule, m, data : tag(rule, m, data).node = m /\ tag(rule, m, data).rule = rule
  BY DEF tag
<1>5. \A r : r \in reports /\ r.rule \in {ChainRule, CopyRule}
             <=> \E m \in Nodes : r \in VerdictsHere(m)
  <2>1. \A r : r \in SaidHere(reports) <=> r \in reports /\ r.rule \in {ChainRule, CopyRule}
    BY DEF SaidHere, RulesHere, ChainRule, CopyRule
  <2>2. \A r : r \in UNION {VerdictsHere(m) : m \in Nodes} <=> \E m \in Nodes : r \in VerdictsHere(m)
    OBVIOUS
  <2>. QED
    BY <1>1, <2>1, <2>2, Zenon
<1>6. ChainRule # CopyRule
  BY DEF ChainRule, CopyRule
<1>7. \A rule, m : m \in ReportedBy(rule) <=> \E r : r \in reports /\ r.rule = rule /\ m = r.node
  BY DEF ReportedBy, SaidBy
<1>8. ASSUME NEW n PROVE n \in ReportedBy(ChainRule) <=> n \in Nodes /\ noChainedTypeAssertions(n) # {}
  <2>1. ASSUME n \in ReportedBy(ChainRule) PROVE n \in Nodes /\ noChainedTypeAssertions(n) # {}
    <3>1. PICK r : r \in reports /\ r.rule = ChainRule /\ n = r.node
      BY <1>7, <2>1
    <3>2. PICK m \in Nodes : r \in VerdictsHere(m)
      BY <1>5, <3>1
    <3>. QED
      BY <1>3, <1>4, <1>6, <3>1, <3>2
  <2>2. ASSUME n \in Nodes, noChainedTypeAssertions(n) # {} PROVE n \in ReportedBy(ChainRule)
    <3>. DEFINE r == tag(ChainRule, n, "chained")
    <3>1. r \in VerdictsHere(n) /\ r.node = n /\ r.rule = ChainRule
      BY <1>3, <1>4, <2>2
    <3>. HIDE DEF r
    <3>2. r \in reports
      BY <1>5, <2>2, <3>1
    <3>. QED
      BY <1>7, <3>1, <3>2
  <2>. QED
    BY <2>1, <2>2
<1>9. ASSUME NEW n PROVE n \in ReportedBy(CopyRule) <=> n \in Nodes /\ noReduceAccumulatorCopy(n) # {}
  <2>1. ASSUME n \in ReportedBy(CopyRule) PROVE n \in Nodes /\ noReduceAccumulatorCopy(n) # {}
    <3>1. PICK r : r \in reports /\ r.rule = CopyRule /\ n = r.node
      BY <1>7, <2>1
    <3>2. PICK m \in Nodes : r \in VerdictsHere(m)
      BY <1>5, <3>1
    <3>. QED
      BY <1>3, <1>4, <1>6, <3>1, <3>2
  <2>2. ASSUME n \in Nodes, noReduceAccumulatorCopy(n) # {} PROVE n \in ReportedBy(CopyRule)
    <3>. DEFINE r == tag(CopyRule, n, "accumulatorCopy")
    <3>1. r \in VerdictsHere(n) /\ r.node = n /\ r.rule = CopyRule
      BY <1>3, <1>4, <2>2
    <3>. HIDE DEF r
    <3>2. r \in reports
      BY <1>5, <2>2, <3>1
    <3>. QED
      BY <1>7, <3>1, <3>2
  <2>. QED
    BY <2>1, <2>2
<1>. QED
  BY <1>8, <1>9

(***************************************************************************)
(* NamesAreLexical, for any files that are syntax trees and whatever the   *)
(* other rules say or throw: the rules expand a reference to the alias     *)
(* TypeScript means or to none, whichever files they have seen before.     *)
(***************************************************************************)
THEOREM NamesLookedUpLexically == Walk => []NamesAreLexical
<1>1. WalkInvariant => NamesAreLexical
  <2>. SUFFICES ASSUME WalkInvariant, visiting = None,
                       NEW n \in Nodes, ReferenceName(n) # ""
                PROVE  \/ visibleTypeAlias(NameOf(n), n) = LexicalAlias(NameOf(n), n)
                       \/ /\ visibleTypeAlias(NameOf(n), n) = None
                          /\ ParameterBinders(NameOf(n), n) # {}
    BY Zenon DEF NamesAreLexical
  <2>1. TypeOf(n) = "TSTypeReference"
    BY Zenon DEF ReferenceName
  <2>2. IsSyntaxTree(file) /\ environment.bindings = collectTypeBindings
    BY NoneAssumption, Zenon DEF WalkInvariant, FilesAreTrees, EnvironmentIsOfFile
  <2>. QED
    BY <2>1, <2>2, ResolvesLexically, Zenon
<1>. QED
  BY <1>1, WalkInvariantHolds, PTL

-----------------------------------------------------------------------------
(* Parentheses                                                             *)

Parenthesized(n) == TypeOf(n) = "ParenthesizedExpression"

(* From e down to n there are only parentheses.                            *)
OnlyParentheses(e, n) ==
  /\ Len(e) <= Len(n) /\ Up(n, Len(e)) = e
  /\ \A k \in Len(e) .. Len(n) - 1 : Parenthesized(Up(n, k))

LEMMA ParenthesesHoldOne ==
  ASSUME IsSyntaxTree(file), NEW n \in Nodes, NEW k \in 0 .. Len(n) - 1,
         Parenthesized(Up(n, k))
  PROVE  /\ Up(n, k + 1) = Append(Up(n, k), 1) /\ Up(n, k + 1) = Wrapped(Up(n, k))
         /\ RoleOf(Up(n, k + 1)) = "expression"
<1>. DEFINE u == Up(n, k)
            v == Up(n, k + 1)
<1>1. n \in Seq(Steps) /\ Len(n) \in Nat
  <2>1. n \in Seq(Steps)
    BY TreeFacts
  <2>. QED
    BY <2>1
<1>2. k \in 0 .. Len(n) /\ k + 1 \in 0 .. Len(n) /\ k + 1 \in 1 .. Len(n) /\ (k + 1) - 1 = k
  BY <1>1
<1>3. u \in Nodes /\ v \in Nodes /\ v = Append(u, n[k + 1])
      /\ v \in Seq(Steps) /\ Len(v) = k + 1 /\ u \in Seq(Steps)
  BY <1>1, <1>2, UpIsNode, UpAppend, Ups
<1>4. v[k + 1] = n[k + 1] /\ n[k + 1] \in Steps
  <2>1. \A i \in 1 .. k + 1 : v[i] = n[i]
    BY <1>1, <1>2, Ups
  <2>. QED
    BY <1>1, <1>2, <2>1
<1>5. Up(v, k) = u
  <2>1. k \in 0 .. k + 1
    OBVIOUS
  <2>. QED
    BY <1>1, <1>2, <2>1, UpOfUp
<1>6. n[k + 1] <= file[u].kids
  <2>1. v # <<>> /\ Len(v) - 1 = k
    BY <1>3
  <2>. QED
    BY <1>3, <1>4, <1>5, <2>1, TreeFacts
<1>7. file[u].kids = 1 /\ HeldAs(u, "expression") = {1}
  BY <1>3, TypeFacts DEF Parenthesized
<1>8. n[k + 1] = 1
  BY <1>4, <1>6, <1>7 DEF Steps
<1>9. Kid(u, "expression") = Append(u, 1)
  BY <1>7, MinOfOne DEF Kid
<1>10. Wrapped(u) = v
  BY <1>3, <1>8, <1>9, TreeFacts DEF Wrapped
<1>11. RoleOf(v) = "expression"
  BY <1>3, <1>7, <1>8 DEF HeldAs
<1>. QED
  BY <1>3, <1>8, <1>10, <1>11

(* Parentheses hold one thing that is not in parentheses itself.           *)
LEMMA ParenthesesHoldOneThing ==
  ASSUME IsSyntaxTree(file), NEW e \in Nodes, NEW m \in Nodes, NEW n \in Nodes,
         OnlyParentheses(e, m), ~Parenthesized(m), OnlyParentheses(e, n), ~Parenthesized(n)
  PROVE  m = n
<1>. DEFINE S == {d \in Nat : /\ Len(e) + d <= Len(m) /\ Len(e) + d <= Len(n)
                                => Up(m, Len(e) + d) = Up(n, Len(e) + d)}
<1>1. /\ e \in Seq(Steps) /\ m \in Seq(Steps) /\ n \in Seq(Steps)
      /\ Len(e) \in Nat /\ Len(m) \in Nat /\ Len(n) \in Nat
  <2>1. e \in Seq(Steps) /\ m \in Seq(Steps) /\ n \in Seq(Steps)
    BY TreeFacts
  <2>. QED
    BY <2>1
<1>2. 0 \in S
  BY <1>1 DEF OnlyParentheses
<1>3. ASSUME NEW d \in Nat, d \in S PROVE d + 1 \in S
  <2>. SUFFICES ASSUME Len(e) + (d + 1) <= Len(m), Len(e) + (d + 1) <= Len(n)
                PROVE  Up(m, Len(e) + (d + 1)) = Up(n, Len(e) + (d + 1))
    OBVIOUS
  <2>. DEFINE k == Len(e) + d
  <2>1. /\ k \in 0 .. Len(m) - 1 /\ k \in 0 .. Len(n) - 1 /\ k + 1 = Len(e) + (d + 1)
        /\ k \in Len(e) .. Len(m) - 1 /\ k \in Len(e) .. Len(n) - 1
    BY <1>1
  <2>2. Up(m, k) = Up(n, k)
    BY <1>1, <1>3
  <2>. HIDE DEF k
  <2>3. Parenthesized(Up(m, k)) /\ Parenthesized(Up(n, k))
    BY <2>1 DEF OnlyParentheses
  <2>4. Up(m, k + 1) = Append(Up(m, k), 1) /\ Up(n, k + 1) = Append(Up(n, k), 1)
    BY <2>1, <2>3, ParenthesesHoldOne
  <2>. QED
    BY <2>1, <2>2, <2>4
<1>4. Nat \subseteq S
  <2>. HIDE DEF S
  <2>. QED
    BY <1>2, <1>3, Induction
<1>5. \A k \in Len(e) .. Len(m) : k <= Len(n) => Up(m, k) = Up(n, k)
  <2>. SUFFICES ASSUME NEW k \in Len(e) .. Len(m), k <= Len(n) PROVE Up(m, k) = Up(n, k)
    OBVIOUS
  <2>1. k - Len(e) \in S /\ Len(e) + (k - Len(e)) = k /\ k <= Len(m)
    BY <1>1, <1>4
  <2>. QED
    BY <2>1
<1>6. Len(e) <= Len(m) /\ Len(e) <= Len(n) /\ Up(m, Len(m)) = m /\ Up(n, Len(n)) = n
  BY <1>1, UpOfAll DEF OnlyParentheses
<1>7. ~(Len(m) < Len(n))
  <2>. SUFFICES ASSUME Len(m) < Len(n) PROVE FALSE
    OBVIOUS
  <2>1. Len(m) \in Len(e) .. Len(n) - 1 /\ Len(m) \in Len(e) .. Len(m) /\ Len(m) <= Len(n)
    BY <1>1, <1>6
  <2>2. Up(n, Len(m)) = m
    BY <1>5, <1>6, <2>1
  <2>. QED
    BY <2>1, <2>2 DEF OnlyParentheses
<1>8. ~(Len(n) < Len(m))
  <2>. SUFFICES ASSUME Len(n) < Len(m) PROVE FALSE
    OBVIOUS
  <2>1. Len(n) \in Len(e) .. Len(m) - 1 /\ Len(n) \in Len(e) .. Len(m) /\ Len(n) <= Len(n)
    BY <1>1, <1>6
  <2>2. Up(m, Len(n)) = n
    BY <1>5, <1>6, <2>1
  <2>. QED
    BY <2>1, <2>2 DEF OnlyParentheses
<1>9. Len(m) = Len(n) /\ Len(m) \in Len(e) .. Len(m)
  BY <1>1, <1>6, <1>7, <1>8
<1>. QED
  BY <1>5, <1>6, <1>9

(* A path is shorter than the number of nodes: it passes one of each depth. *)
LEMMA PathsAreShort ==
  ASSUME IsSyntaxTree(file), NEW n \in Nodes
  PROVE  Cardinality(Nodes) \in Nat /\ Len(n) <= Cardinality(Nodes)
<1>. DEFINE up == [k \in 0 .. Len(n) |-> Up(n, k)]
<1>1. IsFiniteSet(Nodes) /\ n \in Seq(Steps)
  BY TreeFacts
<1>2. Len(n) \in Nat /\ Cardinality(Nodes) \in Nat
  BY <1>1, FS_CardinalityType
<1>3. \A k \in 0 .. Len(n) : Up(n, k) \in Nodes /\ Len(Up(n, k)) = k
  BY <1>1, UpIsNode, Ups
<1>4. up \in Injection(0 .. Len(n), Nodes)
  <2>1. \A k \in 0 .. Len(n) : up[k] = Up(n, k)
    OBVIOUS
  <2>2. up \in [0 .. Len(n) -> Nodes]
    BY <1>3
  <2>. HIDE DEF up
  <2>3. \A j, k \in 0 .. Len(n) : up[j] = up[k] => j = k
    BY <1>3, <2>1
  <2>. QED
    BY <2>2, <2>3 DEF Injection, IsInjective
<1>5. Cardinality(0 .. Len(n)) <= Cardinality(Nodes)
  <2>. HIDE DEF up
  <2>. QED
    BY <1>1, <1>4, FS_Injection
<1>6. Cardinality(0 .. Len(n)) = Len(n) + 1
  BY <1>2, FS_Interval
<1>. QED
  BY <1>2, <1>5, <1>6

LEMMA ParenthesesEnd ==
  ASSUME IsSyntaxTree(file), NEW e \in Nodes
  PROVE  \E m \in Nodes : OnlyParentheses(e, m) /\ ~Parenthesized(m)
<1>. DEFINE ms == {m \in Nodes : OnlyParentheses(e, m)}
            lens == {Len(m) : m \in ms}
<1>1. e \in Seq(Steps) /\ Len(e) \in Nat
  <2>1. e \in Seq(Steps)
    BY TreeFacts
  <2>. QED
    BY <2>1
<1>2. e \in ms
  BY <1>1, UpOfAll DEF OnlyParentheses
<1>3. \A m \in Nodes : m \in Seq(Steps) /\ Len(m) \in Nat
  <2>1. \A m \in Nodes : m \in Seq(Steps)
    BY TreeFacts
  <2>. QED
    BY <2>1
<1>4. PICK l \in lens : \A k \in lens : k <= l
  <2>1. lens # {}
    BY <1>2
  <2>2. Cardinality(Nodes) \in Nat /\ \A m \in ms : Len(m) \in 0 .. Cardinality(Nodes)
    BY <1>1, <1>2, <1>3, PathsAreShort
  <2>3. lens \subseteq 0 .. Cardinality(Nodes)
    BY <2>2
  <2>. HIDE DEF lens
  <2>. QED
    BY <2>1, <2>2, <2>3, GreatestNumber
<1>5. PICK m \in ms : l = Len(m)
  OBVIOUS
<1>6. m \in Nodes /\ OnlyParentheses(e, m) /\ m \in Seq(Steps) /\ Len(m) \in Nat
  BY <1>3
<1>7. ~Parenthesized(m)
  <2>. SUFFICES ASSUME Parenthesized(m) PROVE FALSE
    OBVIOUS
  <2>. DEFINE c == Append(m, 1)
  <2>1. c \in Nodes
    <3>1. file[m].kids = 1
      BY <1>6, TypeFacts DEF Parenthesized
    <3>. QED
      BY <1>6, <3>1, TreeFacts
  <2>2. Len(c) = Len(m) + 1 /\ \A k \in 0 .. Len(m) : Up(c, k) = Up(m, k)
    BY <1>6, UpOfAppend DEF Steps
  <2>. HIDE DEF c
  <2>3. OnlyParentheses(e, c)
    <3>1. Len(e) <= Len(m) /\ Up(m, Len(e)) = e /\ Up(m, Len(m)) = m
      BY <1>6, UpOfAll DEF OnlyParentheses
    <3>2. Len(e) <= Len(c) /\ Up(c, Len(e)) = e
      BY <1>1, <1>6, <2>2, <3>1
    <3>3. ASSUME NEW k \in Len(e) .. Len(c) - 1 PROVE Parenthesized(Up(c, k))
      <4>1. Up(c, k) = Up(m, k)
        BY <1>1, <1>6, <2>2
      <4>2. CASE k = Len(m)
        BY <3>1, <4>1, <4>2
      <4>3. CASE k # Len(m)
        <5>1. k \in Len(e) .. Len(m) - 1
          BY <1>1, <1>6, <2>2, <4>3
        <5>. QED
          BY <1>6, <4>1, <5>1 DEF OnlyParentheses
      <4>. QED
        BY <4>2, <4>3
    <3>. QED
      BY <3>2, <3>3 DEF OnlyParentheses
  <2>4. Len(c) <= Len(m)
    BY <1>4, <1>5, <2>1, <2>3
  <2>. QED
    BY <1>6, <2>2, <2>4
<1>. QED
  BY <1>6, <1>7

(***************************************************************************)
(* unwrapParenthesizedExpression gives the one node in the parentheses.    *)
(***************************************************************************)
LEMMA UnwrapsParentheses ==
  ASSUME IsSyntaxTree(file), NEW e \in Nodes
  PROVE  LET m == unwrapParenthesizedExpression(e)
         IN  /\ m \in Nodes /\ OnlyParentheses(e, m) /\ ~Parenthesized(m)
             /\ \A n \in Nodes : OnlyParentheses(e, n) /\ ~Parenthesized(n) => n = m
<1>. DEFINE wrappers == {"ParenthesizedExpression"}
            Inside(m) == /\ TypeOf(m) \notin wrappers
                         /\ \A k \in Len(e) .. Len(m) - 1 :
                              TypeOf(Up(m, k)) \in wrappers /\ Up(m, k + 1) = Wrapped(Up(m, k))
            u == unwrapParenthesizedExpression(e)
<1>1. /\ e \in Seq(Steps) /\ Len(e) \in Nat
      /\ \A n \in Nodes : n \in Seq(Steps) /\ Len(n) \in Nat
  <2>1. \A n \in Nodes : n \in Seq(Steps)
    BY TreeFacts
  <2>. QED
    BY <2>1
<1>2. ASSUME NEW m \in Nodes
      PROVE  m \in Within(e) /\ Inside(m) <=> OnlyParentheses(e, m) /\ ~Parenthesized(m)
  <2>1. m \in Within(e) <=> Len(e) <= Len(m) /\ e = Up(m, Len(e))
    <3>1. IsPrefix(e, m) <=> Len(e) <= Len(m) /\ e = Up(m, Len(e))
      BY <1>1, PrefixIsUp
    <3>. QED
      BY <3>1 DEF Within
  <2>2. ASSUME NEW k \in Len(e) .. Len(m) - 1, Parenthesized(Up(m, k))
        PROVE  Up(m, k + 1) = Wrapped(Up(m, k))
    <3>1. k \in 0 .. Len(m) - 1
      BY <1>1
    <3>. QED
      BY <2>2, <3>1, ParenthesesHoldOne
  <2>. QED
    BY <2>1, <2>2 DEF OnlyParentheses, Parenthesized
<1>3. PICK m \in Nodes : OnlyParentheses(e, m) /\ ~Parenthesized(m)
  BY ParenthesesEnd
<1>4. \A n \in Nodes : OnlyParentheses(e, n) /\ ~Parenthesized(n) => n = m
  BY <1>3, ParenthesesHoldOneThing
<1>5. u = m
  <2>1. u = IF TypeOf(e) \notin wrappers THEN e ELSE CHOOSE d \in Within(e) : Inside(d)
    BY Zenon DEF unwrapParenthesizedExpression, Unwrap
  <2>2. CASE TypeOf(e) \notin wrappers
    <3>1. OnlyParentheses(e, e) /\ ~Parenthesized(e)
      BY <1>1, <2>2, UpOfAll DEF OnlyParentheses, Parenthesized
    <3>. QED
      BY <1>4, <2>1, <2>2, <3>1
  <2>3. CASE TypeOf(e) \in wrappers
    <3>1. \A d \in Within(e) : d \in Nodes
      BY DEF Within
    <3>. HIDE DEF Inside, wrappers, u
    <3>2. m \in Within(e) /\ Inside(m)
      BY <1>2, <1>3
    <3>3. \A d \in Within(e) : Inside(d) => d = m
      BY <1>2, <1>4, <3>1
    <3>. QED
      BY <2>1, <2>3, <3>2, <3>3
  <2>. QED
    BY <2>2, <2>3
<1>. HIDE DEF u
<1>6. /\ u \in Nodes /\ OnlyParentheses(e, u) /\ ~Parenthesized(u)
      /\ \A n \in Nodes : OnlyParentheses(e, n) /\ ~Parenthesized(n) => n = u
  BY <1>3, <1>4, <1>5
<1>. QED
  BY <1>6 DEF u

-----------------------------------------------------------------------------
(* Assertions                                                              *)

Asserts(n) == TypeOf(n) \in Assertions

LEMMA AssertedExpression ==
  ASSUME IsSyntaxTree(file), NEW n \in Nodes, Asserts(n)
  PROVE  \E i \in 1 .. file[n].kids :
            /\ Kid(n, "expression") = Append(n, i) /\ Append(n, i) \in Nodes
            /\ RoleOf(Append(n, i)) = "expression"
            /\ \A j \in 1 .. file[n].kids : RoleOf(Append(n, j)) = "expression" => j = i
<1>1. PICK i \in 1 .. file[n].kids : HeldAs(n, "expression") = {i}
  BY TypeFacts DEF Asserts
<1>2. i \in Nat /\ Append(n, i) \in Nodes
  BY TreeFacts
<1>3. Kid(n, "expression") = Append(n, i)
  BY <1>1, <1>2, MinOfOne DEF Kid
<1>. QED
  BY <1>1, <1>2, <1>3 DEF HeldAs

(* The nearest node above n that is no parenthesis.                        *)
Surrounding(n) == Deepest({a \in Ancestors(n) : ~Parenthesized(a)})

LEMMA SurroundingIsNearest ==
  ASSUME IsSyntaxTree(file), NEW n \in Nodes, n # <<>>
  PROVE  LET s == Surrounding(n)
         IN  /\ s \in Nodes /\ ~Parenthesized(s)
             /\ Len(s) \in 0 .. Len(n) - 1 /\ s = Up(n, Len(s))
             /\ Up(n, Len(s) + 1) \in Nodes /\ OnlyParentheses(Up(n, Len(s) + 1), n)
             /\ \A k \in 0 .. Len(n) - 1 : ~Parenthesized(Up(n, k)) => k <= Len(s)
             /\ \E i \in 1 .. file[s].kids : Up(n, Len(s) + 1) = Append(s, i)
<1>. DEFINE as == {a \in Ancestors(n) : ~Parenthesized(a)}
            s == Surrounding(n)
<1>1. n \in Seq(Steps) /\ Len(n) \in Nat
  <2>1. n \in Seq(Steps)
    BY TreeFacts
  <2>. QED
    BY <2>1
<1>2. s \in as /\ \A a \in as : Len(a) <= Len(s)
  <2>1. <<>> \in as
    BY AncestorsAreNodes, TreeFacts, TypeFacts DEF Parenthesized
  <2>2. \A k \in 0 .. Len(n) - 1 : k \in 0 .. Len(n)
    BY <1>1
  <2>3. as \subseteq {Up(n, k) : k \in 0 .. Len(n)}
    BY <2>2 DEF Ancestors
  <2>. HIDE DEF as
  <2>4. Deepest(as) \in as /\ \A a \in as : Len(a) <= Len(Deepest(as))
    BY <1>1, <2>1, <2>3, DeepestIsOne
  <2>. QED
    BY <2>4 DEF Surrounding, as
<1>. HIDE DEF s
<1>3. PICK l \in 0 .. Len(n) - 1 : s = Up(n, l)
  BY <1>2 DEF Ancestors
<1>4. l \in 0 .. Len(n) /\ l + 1 \in 0 .. Len(n) /\ l + 1 \in 1 .. Len(n) /\ (l + 1) - 1 = l
  BY <1>1
<1>5. Len(s) = l /\ s \in Seq(Steps) /\ s \in Nodes
  BY <1>1, <1>3, <1>4, Ups, UpIsNode
<1>6. ASSUME NEW k \in 0 .. Len(n) - 1, ~Parenthesized(Up(n, k)) PROVE k <= l
  <2>1. Up(n, k) \in as
    BY <1>6 DEF Ancestors
  <2>2. k \in 0 .. Len(n)
    BY <1>1
  <2>3. Len(Up(n, k)) = k
    BY <1>1, <2>2, Ups
  <2>. QED
    BY <1>2, <1>5, <2>1, <2>3
<1>7. Up(n, l + 1) \in Nodes /\ OnlyParentheses(Up(n, l + 1), n)
  <2>1. Up(n, l + 1) \in Nodes /\ Len(Up(n, l + 1)) = l + 1
    BY <1>1, <1>4, UpIsNode, Ups
  <2>2. ASSUME NEW k \in l + 1 .. Len(n) - 1 PROVE Parenthesized(Up(n, k))
    <3>1. k \in 0 .. Len(n) - 1 /\ ~(k <= l)
      BY <1>1
    <3>. QED
      BY <1>6, <3>1
  <2>. QED
    BY <1>4, <2>1, <2>2 DEF OnlyParentheses
<1>8. \E i \in 1 .. file[s].kids : Up(n, l + 1) = Append(s, i)
  <2>. DEFINE v == Up(n, l + 1)
  <2>1. v = Append(s, n[l + 1]) /\ n[l + 1] \in Steps /\ v \in Seq(Steps) /\ Len(v) = l + 1
        /\ \A i \in 1 .. l + 1 : v[i] = n[i]
    BY <1>1, <1>3, <1>4, UpAppend, Ups
  <2>2. v \in Nodes
    BY <1>7
  <2>3. Up(v, l) = s
    <3>1. l \in 0 .. l + 1
      OBVIOUS
    <3>. QED
      BY <1>1, <1>3, <1>4, <3>1, UpOfUp
  <2>. HIDE DEF v
  <2>4. v # <<>> /\ Len(v) - 1 = l /\ v[l + 1] = n[l + 1]
    BY <2>1
  <2>5. n[l + 1] <= file[s].kids
    BY <2>1, <2>2, <2>3, <2>4, TreeFacts
  <2>6. n[l + 1] \in 1 .. file[s].kids
    BY <1>5, <2>1, <2>5, TreeFacts DEF Steps
  <2>. QED
    BY <2>1, <2>6 DEF v
<1>. QED
  BY <1>2, <1>3, <1>5, <1>6, <1>7, <1>8 DEF s

(* One assertion is directly inside another exactly when it is what the     *)
(* other asserts but for parentheses.                                      *)
LEMMA DirectlyInside ==
  ASSUME IsSyntaxTree(file), NEW n \in Nodes, Asserts(n)
  PROVE  LET s == Surrounding(n)
         IN  /\ Asserts(s) /\ RoleOf(Up(n, Len(s) + 1)) = "expression" => ChainedWith(s, n)
             /\ \A m \in Nodes : Asserts(m) /\ ChainedWith(m, n)
                                   => m = s /\ RoleOf(Up(n, Len(s) + 1)) = "expression"
<1>. DEFINE s == Surrounding(n)
            v == Up(n, Len(s) + 1)
<1>1. n # <<>> /\ ~Parenthesized(n) /\ n \in Seq(Steps) /\ Len(n) \in Nat
  <2>1. n # <<>> /\ n \in Seq(Steps)
    BY TypeFacts, TreeFacts DEF Asserts, Assertions
  <2>. QED
    BY <2>1 DEF Parenthesized, Asserts, Assertions
<1>2. /\ s \in Nodes /\ ~Parenthesized(s)
      /\ Len(s) \in 0 .. Len(n) - 1 /\ s = Up(n, Len(s))
      /\ v \in Nodes /\ OnlyParentheses(v, n)
      /\ \A k \in 0 .. Len(n) - 1 : ~Parenthesized(Up(n, k)) => k <= Len(s)
      /\ \E i \in 1 .. file[s].kids : v = Append(s, i)
  BY <1>1, SurroundingIsNearest
<1>. HIDE DEF s, v
<1>3. ASSUME Asserts(s), RoleOf(v) = "expression" PROVE ChainedWith(s, n)
  <2>1. Kid(s, "expression") = v
    BY <1>2, <1>3, AssertedExpression
  <2>. QED
    BY <1>1, <1>2, <2>1, UnwrapsParentheses DEF ChainedWith
<1>4. ASSUME NEW m \in Nodes, Asserts(m), ChainedWith(m, n)
      PROVE  m = s /\ RoleOf(v) = "expression"
  <2>1. PICK i \in 1 .. file[m].kids : /\ Kid(m, "expression") = Append(m, i)
                                       /\ Append(m, i) \in Nodes
                                       /\ RoleOf(Append(m, i)) = "expression"
    BY <1>4, AssertedExpression
  <2>. DEFINE e == Append(m, i)
  <2>2. /\ m \in Seq(Steps) /\ Len(m) \in Nat /\ Len(e) = Len(m) + 1 /\ Up(e, Len(m)) = m
        /\ i \in Steps
    <3>1. m \in Seq(Steps) /\ i \in Steps
      BY TreeFacts DEF Steps
    <3>2. Len(m) \in Nat /\ Len(m) \in 0 .. Len(m)
      BY <3>1
    <3>. QED
      BY <3>1, <3>2, UpOfAppend, UpOfAll
  <2>3. OnlyParentheses(e, n)
    BY <1>4, <2>1, UnwrapsParentheses DEF ChainedWith
  <2>. HIDE DEF e
  <2>4. Len(e) <= Len(n) /\ Up(n, Len(e)) = e
    BY <2>3 DEF OnlyParentheses
  <2>5. Len(m) \in 0 .. Len(n) - 1 /\ Up(n, Len(m)) = m
    <3>1. Len(m) \in 0 .. Len(n) - 1 /\ Len(e) \in 0 .. Len(n) /\ Len(m) \in 0 .. Len(e)
      BY <1>1, <2>2, <2>4
    <3>2. Up(Up(n, Len(e)), Len(m)) = Up(n, Len(m))
      BY <1>1, <3>1, UpOfUp
    <3>. QED
      BY <2>2, <2>4, <3>1, <3>2
  <2>6. Len(m) <= Len(s)
    <3>1. ~Parenthesized(m)
      BY <1>4 DEF Parenthesized, Asserts, Assertions
    <3>. QED
      BY <1>2, <2>5, <3>1
  <2>7. ~(Len(m) < Len(s))
    <3>. SUFFICES ASSUME Len(m) < Len(s) PROVE FALSE
      OBVIOUS
    <3>1. Len(s) \in Len(e) .. Len(n) - 1
      BY <1>1, <1>2, <2>2
    <3>2. Parenthesized(Up(n, Len(s)))
      BY <2>3, <3>1 DEF OnlyParentheses
    <3>. QED
      BY <1>2, <3>2
  <2>8. Len(m) = Len(s)
    BY <1>2, <2>2, <2>6, <2>7
  <2>9. m = s
    BY <1>2, <2>5, <2>8
  <2>10. v = e
    BY <2>2, <2>4, <2>8 DEF v
  <2>. QED
    BY <2>1, <2>9, <2>10 DEF e
<1>. QED
  BY <1>3, <1>4 DEF s, v

LEMMA OutermostIsTop ==
  ASSUME IsSyntaxTree(file), NEW n \in Nodes, Asserts(n)
  PROVE  isOutermostAssertionInChain(n) <=> ~ \E m \in Nodes : Asserts(m) /\ ChainedWith(m, n)
<1>. DEFINE s == Surrounding(n)
<1>1. isOutermostAssertionInChain(n) <=> ~(Asserts(s) /\ RoleOf(Up(n, Len(s) + 1)) = "expression")
  BY DEF isOutermostAssertionInChain, Surrounding, Parenthesized, Asserts
<1>2. n # <<>>
  BY TypeFacts DEF Asserts, Assertions
<1>3. s \in Nodes
  BY <1>2, SurroundingIsNearest
<1>. QED
  BY <1>1, <1>3, DirectlyInside

-----------------------------------------------------------------------------
(* Chains of assertions                                                    *)

(* What is between top and n only asserts what is below, or parenthesizes it. *)
Downwards(top, n) ==
  /\ Len(top) <= Len(n) /\ Up(n, Len(top)) = top
  /\ \A k \in Len(top) .. Len(n) - 1 : Asserts(Up(n, k)) \/ Parenthesized(Up(n, k))
  /\ \A k \in Len(top) + 1 .. Len(n) : RoleOf(Up(n, k)) = "expression"

Chain(top) == {n \in Nodes : Asserts(n) /\ Downwards(top, n)}

LEMMA DownToAsserted ==
  ASSUME IsSyntaxTree(file), NEW top \in Nodes, NEW n \in Nodes, Downwards(top, n), Asserts(n)
  PROVE  LET m == unwrapParenthesizedExpression(Kid(n, "expression"))
         IN  m \in Nodes /\ Downwards(top, m) /\ Len(n) < Len(m)
<1>. DEFINE m == unwrapParenthesizedExpression(Kid(n, "expression"))
<1>1. PICK i \in 1 .. file[n].kids : /\ Kid(n, "expression") = Append(n, i)
                                     /\ Append(n, i) \in Nodes
                                     /\ RoleOf(Append(n, i)) = "expression"
  BY AssertedExpression
<1>. DEFINE e == Append(n, i)
<1>2. m \in Nodes /\ OnlyParentheses(e, m)
  BY <1>1, UnwrapsParentheses
<1>3. /\ n \in Seq(Steps) /\ Len(n) \in Nat /\ Len(e) = Len(n) + 1
      /\ top \in Seq(Steps) /\ Len(top) \in Nat
      /\ \A k \in 0 .. Len(n) : Up(e, k) = Up(n, k)
  <2>1. n \in Seq(Steps) /\ i \in Steps /\ top \in Seq(Steps)
    BY TreeFacts DEF Steps
  <2>2. Len(n) \in Nat /\ Len(top) \in Nat
    BY <2>1
  <2>. QED
    BY <2>1, <2>2, UpOfAppend
<1>. HIDE DEF e, m
<1>4. m \in Seq(Steps) /\ Len(m) \in Nat
  <2>1. m \in Seq(Steps)
    BY <1>2, TreeFacts
  <2>. QED
    BY <2>1
<1>5. Len(e) <= Len(m) /\ Up(m, Len(e)) = e /\ Up(n, Len(n)) = n
  BY <1>2, <1>3, UpOfAll DEF OnlyParentheses
<1>6. \A k \in 0 .. Len(n) : Up(m, k) = Up(n, k)
  <2>. SUFFICES ASSUME NEW k \in 0 .. Len(n) PROVE Up(m, k) = Up(n, k)
    OBVIOUS
  <2>1. k \in 0 .. Len(e) /\ Len(e) \in 0 .. Len(m)
    BY <1>3, <1>4, <1>5
  <2>2. Up(Up(m, Len(e)), k) = Up(m, k)
    BY <1>4, <2>1, UpOfUp
  <2>. QED
    BY <1>3, <1>5, <2>2
<1>7. Len(top) <= Len(m) /\ Up(m, Len(top)) = top
  BY <1>3, <1>4, <1>5, <1>6 DEF Downwards
<1>8. ASSUME NEW k \in Len(top) .. Len(m) - 1
      PROVE  Asserts(Up(m, k)) \/ Parenthesized(Up(m, k))
  <2>1. CASE k < Len(n)
    <3>1. k \in Len(top) .. Len(n) - 1 /\ k \in 0 .. Len(n)
      BY <1>3, <2>1
    <3>2. Up(m, k) = Up(n, k)
      BY <1>6, <3>1
    <3>. QED
      BY <3>1, <3>2 DEF Downwards
  <2>2. CASE k = Len(n)
    <3>1. Up(m, k) = n
      BY <1>3, <1>5, <1>6, <2>2
    <3>. QED
      BY <3>1
  <2>3. CASE k > Len(n)
    <3>1. k \in Len(e) .. Len(m) - 1
      BY <1>3, <1>4, <2>3
    <3>. QED
      BY <1>2, <3>1 DEF OnlyParentheses
  <2>. QED
    BY <1>3, <2>1, <2>2, <2>3
<1>9. ASSUME NEW k \in Len(top) + 1 .. Len(m)
      PROVE  RoleOf(Up(m, k)) = "expression"
  <2>1. CASE k <= Len(n)
    <3>1. k \in Len(top) + 1 .. Len(n) /\ k \in 0 .. Len(n)
      BY <1>3, <2>1
    <3>2. Up(m, k) = Up(n, k)
      BY <1>6, <3>1
    <3>. QED
      BY <3>1, <3>2 DEF Downwards
  <2>2. CASE k = Len(n) + 1
    <3>1. Up(m, k) = e
      BY <1>3, <1>5, <2>2
    <3>. QED
      BY <1>1, <3>1 DEF e
  <2>3. CASE k > Len(n) + 1
    <3>. DEFINE j == k - 1
    <3>1. j \in Len(e) .. Len(m) - 1 /\ j \in 0 .. Len(m) - 1 /\ j + 1 = k
      BY <1>3, <1>4, <2>3
    <3>. HIDE DEF j
    <3>2. Parenthesized(Up(m, j))
      BY <1>2, <3>1 DEF OnlyParentheses
    <3>3. RoleOf(Up(m, j + 1)) = "expression"
      BY <1>2, <3>1, <3>2, ParenthesesHoldOne
    <3>. QED
      BY <3>1, <3>3
  <2>. QED
    BY <1>3, <2>1, <2>2, <2>3
<1>10. Downwards(top, m)
  BY <1>7, <1>8, <1>9 DEF Downwards
<1>. QED
  BY <1>2, <1>3, <1>4, <1>5, <1>10 DEF m

(* An assertion further down in a chain is directly inside another of it.  *)
LEMMA UpToAsserting ==
  ASSUME IsSyntaxTree(file), NEW top \in Nodes, Asserts(top), NEW n \in Chain(top), n # top
  PROVE  LET s == Surrounding(n)
         IN  s \in Chain(top) /\ Len(s) < Len(n) /\ ChainedWith(s, n)
<1>. DEFINE s == Surrounding(n)
<1>1. /\ n \in Nodes /\ Asserts(n) /\ Downwards(top, n)
      /\ Len(top) <= Len(n) /\ Up(n, Len(top)) = top
      /\ \A k \in Len(top) .. Len(n) - 1 : Asserts(Up(n, k)) \/ Parenthesized(Up(n, k))
      /\ \A k \in Len(top) + 1 .. Len(n) : RoleOf(Up(n, k)) = "expression"
  BY DEF Chain, Downwards
<1>2. /\ n \in Seq(Steps) /\ Len(n) \in Nat /\ top \in Seq(Steps) /\ Len(top) \in Nat
      /\ Up(n, Len(n)) = n /\ n # <<>>
  <2>1. n \in Seq(Steps) /\ top \in Seq(Steps) /\ n # <<>>
    BY <1>1, TreeFacts, TypeFacts DEF Asserts, Assertions
  <2>. QED
    BY <2>1, UpOfAll
<1>3. Len(top) \in 0 .. Len(n) - 1
  BY <1>1, <1>2
<1>4. ~Parenthesized(top)
  BY DEF Parenthesized, Asserts, Assertions
<1>5. /\ s \in Nodes /\ ~Parenthesized(s)
      /\ Len(s) \in 0 .. Len(n) - 1 /\ s = Up(n, Len(s)) /\ Len(top) <= Len(s)
  BY <1>1, <1>2, <1>3, <1>4, SurroundingIsNearest
<1>. HIDE DEF s
<1>6. Len(s) \in Len(top) .. Len(n) - 1 /\ Len(s) + 1 \in Len(top) + 1 .. Len(n)
  BY <1>2, <1>5
<1>7. Asserts(s) /\ RoleOf(Up(n, Len(s) + 1)) = "expression"
  BY <1>1, <1>5, <1>6
<1>8. ChainedWith(s, n)
  BY <1>1, <1>7, DirectlyInside DEF s
<1>9. Downwards(top, s)
  <2>1. \A k \in 0 .. Len(s) : Up(s, k) = Up(n, k)
    <3>. SUFFICES ASSUME NEW k \in 0 .. Len(s) PROVE Up(s, k) = Up(n, k)
      OBVIOUS
    <3>1. Len(s) \in 0 .. Len(n)
      BY <1>2, <1>5
    <3>2. Up(Up(n, Len(s)), k) = Up(n, k)
      BY <1>2, <3>1, UpOfUp
    <3>. QED
      BY <1>5, <3>2
  <2>2. Up(s, Len(top)) = top
    BY <1>1, <1>2, <1>5, <2>1
  <2>3. ASSUME NEW k \in Len(top) .. Len(s) - 1 PROVE Asserts(Up(s, k)) \/ Parenthesized(Up(s, k))
    <3>1. k \in Len(top) .. Len(n) - 1 /\ k \in 0 .. Len(s)
      BY <1>2, <1>5
    <3>. QED
      BY <1>1, <2>1, <3>1
  <2>4. ASSUME NEW k \in Len(top) + 1 .. Len(s) PROVE RoleOf(Up(s, k)) = "expression"
    <3>1. k \in Len(top) + 1 .. Len(n) /\ k \in 0 .. Len(s)
      BY <1>2, <1>5
    <3>. QED
      BY <1>1, <2>1, <3>1
  <2>. QED
    BY <1>5, <2>2, <2>3, <2>4 DEF Downwards
<1>10. s \in Chain(top) /\ Len(s) < Len(n)
  BY <1>2, <1>5, <1>7, <1>9 DEF Chain
<1>. QED
  BY <1>8, <1>10 DEF s

(* The steps of the loop of isForbiddenAssertionChain.                     *)
LEMMA InwardsSteps ==
  ASSUME NEW n \in Nodes,
         \A m \in Nodes :
            Asserts(m) => unwrapParenthesizedExpression(Kid(m, "expression")) \in Nodes
  PROVE  LET current == Inwards(n)
         IN  /\ current \in [Nat -> Nodes] /\ current[0] = n
             /\ \A i \in Nat :
                   current[i + 1] =
                      IF Asserts(current[i])
                      THEN unwrapParenthesizedExpression(Kid(current[i], "expression"))
                      ELSE current[i]
<1>. DEFINE inside(m) == unwrapParenthesizedExpression(Kid(m, "expression"))
            next == [m \in Nodes |-> IF Asserts(m) THEN inside(m) ELSE m]
            current == Inwards(n)
<1>1. next \in [Nodes -> Nodes]
  BY Zenon
<1>2. PICK f \in [Nat -> Nodes] : f[0] = n /\ \A i \in Nat : f[i + 1] = next[f[i]]
  <2>. HIDE DEF next
  <2>. QED
    BY <1>1, Recursion
<1>3. \A i \in Nat : f[i + 1] = IF Asserts(f[i]) THEN inside(f[i]) ELSE f[i]
  <2>1. \A m \in Nodes : next[m] = IF Asserts(m) THEN inside(m) ELSE m
    BY Zenon
  <2>. HIDE DEF next, inside
  <2>. QED
    BY <1>2, <2>1
<1>4. f = [i \in Nat |-> IF i = 0 THEN n
                         ELSE IF TypeOf(f[i - 1]) \in Assertions THEN inside(f[i - 1])
                         ELSE f[i - 1]]
  <2>. DEFINE rhs(i) == IF i = 0 THEN n
                        ELSE IF TypeOf(f[i - 1]) \in Assertions THEN inside(f[i - 1])
                        ELSE f[i - 1]
  <2>1. ASSUME NEW i \in Nat PROVE f[i] = rhs(i)
    <3>. HIDE DEF inside
    <3>1. CASE i = 0
      BY <1>2, <3>1
    <3>2. CASE i # 0
      <4>1. i - 1 \in Nat /\ (i - 1) + 1 = i
        BY <3>2
      <4>2. f[(i - 1) + 1] = IF Asserts(f[i - 1]) THEN inside(f[i - 1]) ELSE f[i - 1]
        BY <1>3, <4>1
      <4>. QED
        BY <3>2, <4>1, <4>2 DEF Asserts
    <3>. QED
      BY <3>1, <3>2
  <2>2. f = [i \in Nat |-> f[i]]
    BY <1>2
  <2>. HIDE DEF rhs
  <2>3. f = [i \in Nat |-> rhs(i)]
    BY <2>1, <2>2
  <2>. QED
    BY <2>3 DEF rhs
<1>5. current = [i \in Nat |-> IF i = 0 THEN n
                         ELSE IF TypeOf(current[i - 1]) \in Assertions THEN inside(current[i - 1])
                         ELSE current[i - 1]]
  <2>. HIDE DEF inside
  <2>1. current = CHOOSE g : g = [i \in Nat |-> IF i = 0 THEN n
                         ELSE IF TypeOf(g[i - 1]) \in Assertions THEN inside(g[i - 1])
                         ELSE g[i - 1]]
    BY DEF Inwards, inside
  <2>. HIDE DEF current
  <2>. QED
    BY <1>4, <2>1
<1>. HIDE DEF current, inside
<1>6. /\ current[0] = n
      /\ \A i \in Nat :
            current[i + 1] = IF Asserts(current[i]) THEN inside(current[i]) ELSE current[i]
  <2>1. current[0] = n
    BY <1>5
  <2>2. ASSUME NEW i \in Nat
        PROVE  current[i + 1] = IF Asserts(current[i]) THEN inside(current[i]) ELSE current[i]
    <3>1. i + 1 \in Nat /\ i + 1 # 0 /\ (i + 1) - 1 = i
      OBVIOUS
    <3>. QED
      BY <1>5, <3>1 DEF Asserts
  <2>. QED
    BY <2>1, <2>2
<1>7. current \in [Nat -> Nodes]
  <2>. DEFINE S == {i \in Nat : current[i] \in Nodes}
  <2>1. 0 \in S
    BY <1>6
  <2>2. \A i \in Nat : i \in S => i + 1 \in S
    BY <1>6 DEF inside
  <2>3. Nat \subseteq S
    <3>. HIDE DEF S
    <3>. QED
      BY <2>1, <2>2, Induction
  <2>4. DOMAIN current = Nat /\ current = [i \in Nat |-> current[i]]
    BY <1>5
  <2>. QED
    BY <2>3, <2>4
<1>. QED
  BY <1>6, <1>7 DEF current, inside

(* The loop comes to the assertions of the chain and to no others.         *)
LEMMA LoopFollowsChain ==
  ASSUME IsSyntaxTree(file), NEW top \in Nodes, Asserts(top)
  PROVE  AssertionChain(top) = Chain(top) /\ top \in Chain(top)
<1>. DEFINE current == Inwards(top)
            inside(m) == unwrapParenthesizedExpression(Kid(m, "expression"))
<1>1. /\ top \in Seq(Steps) /\ Len(top) \in Nat
      /\ \A n \in Nodes : n \in Seq(Steps) /\ Len(n) \in Nat
  <2>1. \A n \in Nodes : n \in Seq(Steps)
    BY TreeFacts
  <2>. QED
    BY <2>1
<1>2. top \in Chain(top) /\ Downwards(top, top)
  BY <1>1, UpOfAll DEF Chain, Downwards
<1>3. \A m \in Nodes : Asserts(m) => inside(m) \in Nodes
  BY AssertedExpression, UnwrapsParentheses
<1>4. /\ current \in [Nat -> Nodes] /\ current[0] = top
      /\ \A i \in Nat :
            current[i + 1] = IF Asserts(current[i]) THEN inside(current[i]) ELSE current[i]
  BY <1>3, InwardsSteps
<1>. HIDE DEF current, inside
<1>5. \A i \in Nat : Downwards(top, current[i])
  <2>. DEFINE S == {i \in Nat : Downwards(top, current[i])}
  <2>1. 0 \in S
    BY <1>2, <1>4
  <2>2. ASSUME NEW i \in Nat, i \in S PROVE i + 1 \in S
    <3>1. current[i] \in Nodes /\ Downwards(top, current[i])
      BY <1>4, <2>2
    <3>2. Asserts(current[i]) => Downwards(top, inside(current[i]))
      BY <3>1, DownToAsserted DEF inside
    <3>. QED
      BY <1>4, <3>1, <3>2
  <2>3. Nat \subseteq S
    <3>. HIDE DEF S
    <3>. QED
      BY <2>1, <2>2, Induction
  <2>. QED
    BY <2>3
<1>6. ASSUME NEW n \in Chain(top)
      PROVE  \E i \in 0 .. Len(n) - Len(top) : current[i] = n
  <2>. DEFINE Found(m) == \E i \in 0 .. Len(m) - Len(top) : current[i] = m
              S == {d \in Nat : \A m \in Chain(top) : Len(m) <= d => Found(m)}
  <2>1. \A m \in Chain(top) : m \in Nodes /\ Len(m) \in Nat /\ Len(top) <= Len(m)
    BY <1>1 DEF Chain, Downwards
  <2>2. ASSUME NEW d \in Nat, NEW m \in Chain(top), Len(m) <= d,
               \A k \in Chain(top) : Len(k) < Len(m) => Found(k)
        PROVE  Found(m)
    <3>1. CASE m = top
      <4>1. 0 \in 0 .. Len(m) - Len(top)
        BY <1>1, <3>1
      <4>. QED
        BY <1>4, <3>1, <4>1
    <3>2. CASE m # top
      <4>. DEFINE s == Surrounding(m)
      <4>1. s \in Chain(top) /\ Len(s) < Len(m) /\ inside(s) = m
        BY <3>2, UpToAsserting DEF ChainedWith, inside
      <4>. HIDE DEF s
      <4>2. PICK i \in 0 .. Len(s) - Len(top) : current[i] = s
        BY <2>2, <4>1
      <4>3. i + 1 \in 0 .. Len(m) - Len(top) /\ i \in Nat
        BY <1>1, <2>1, <4>1
      <4>4. current[i + 1] = m
        BY <1>4, <4>1, <4>2, <4>3 DEF Chain
      <4>. QED
        BY <4>3, <4>4
    <3>. QED
      BY <3>1, <3>2
  <2>. HIDE DEF Found
  <2>3. 0 \in S
    <3>1. \A m, k \in Chain(top) : Len(m) <= 0 => ~(Len(k) < Len(m))
      BY <2>1
    <3>. QED
      BY <2>2, <3>1
  <2>4. ASSUME NEW d \in Nat, d \in S PROVE d + 1 \in S
    <3>. SUFFICES ASSUME NEW m \in Chain(top), Len(m) <= d + 1 PROVE Found(m)
      OBVIOUS
    <3>1. \A k \in Chain(top) : Len(k) < Len(m) => Found(k)
      <4>1. \A k \in Chain(top) : Len(k) < Len(m) => Len(k) <= d
        BY <2>1
      <4>. QED
        BY <2>4, <4>1
    <3>2. d + 1 \in Nat
      OBVIOUS
    <3>. QED
      BY <2>2, <3>1, <3>2
  <2>5. Nat \subseteq S
    <3>. HIDE DEF S
    <3>. QED
      BY <2>3, <2>4, Induction
  <2>6. Found(n)
    BY <2>1, <2>5
  <2>. QED
    BY <2>6 DEF Found
<1>7. ASSUME NEW m \in Nodes
      PROVE  m \in Within(top) <=> Len(top) <= Len(m) /\ top = Up(m, Len(top))
  <2>1. IsPrefix(top, m) <=> Len(top) <= Len(m) /\ top = Up(m, Len(top))
    BY <1>1, PrefixIsUp
  <2>. QED
    BY <2>1 DEF Within
<1>8. AssertionChain(top) \subseteq Chain(top)
  <2>. SUFFICES ASSUME NEW m \in AssertionChain(top) PROVE m \in Chain(top)
    OBVIOUS
  <2>1. PICK i \in 0 .. Len(m) - Len(top) : current[i] = m
    BY DEF AssertionChain, current
  <2>2. m \in Nodes /\ Asserts(m)
    BY DEF AssertionChain, Asserts, Within
  <2>. QED
    BY <1>5, <2>1, <2>2 DEF Chain
<1>9. Chain(top) \subseteq AssertionChain(top)
  <2>. SUFFICES ASSUME NEW m \in Chain(top) PROVE m \in AssertionChain(top)
    OBVIOUS
  <2>1. m \in Nodes /\ Asserts(m) /\ m \in Within(top)
    BY <1>7 DEF Chain, Downwards
  <2>. QED
    BY <1>6, <2>1 DEF AssertionChain, Asserts, current
<1>. QED
  BY <1>2, <1>8, <1>9

(***************************************************************************)
(* What no-chained-type-assertions says of the assertions of a chain: of   *)
(* the top whether the chain is forbidden, of the others nothing.          *)
(***************************************************************************)
Forbidden(chain) ==
  /\ Cardinality(chain) > 1
  /\ \E n \in chain : ReferenceName(Kid(n, "typeAnnotation")) # "const"

LEMMA OneVerdictOfChain ==
  ASSUME IsSyntaxTree(file), NEW top \in Nodes, Asserts(top),
         ~ \E m \in Nodes : Asserts(m) /\ ChainedWith(m, top)
  PROVE  {n \in Chain(top) : noChainedTypeAssertions(n) # {}}
           = IF Forbidden(Chain(top)) THEN {top} ELSE {}
<1>1. top \in Chain(top) /\ isForbiddenAssertionChain(top) = Forbidden(Chain(top))
  BY LoopFollowsChain, Zenon DEF isForbiddenAssertionChain, isConstAssertion, Forbidden
<1>2. noChainedTypeAssertions(top) # {} <=> Forbidden(Chain(top))
  BY <1>1, OutermostIsTop DEF noChainedTypeAssertions, Asserts
<1>3. ASSUME NEW n \in Chain(top), n # top PROVE noChainedTypeAssertions(n) = {}
  <2>1. n \in Nodes /\ Asserts(n)
    BY DEF Chain
  <2>2. \E m \in Nodes : Asserts(m) /\ ChainedWith(m, n)
    BY <1>3, UpToAsserting DEF Chain
  <2>3. ~isOutermostAssertionInChain(n)
    BY <2>1, <2>2, OutermostIsTop
  <2>. QED
    BY <2>3 DEF noChainedTypeAssertions
<1>. QED
  BY <1>1, <1>2, <1>3

(***************************************************************************)
(* ChainReportedOnce, for any files that are syntax trees.                 *)
(***************************************************************************)
THEOREM ChainsReportedOnce == Walk => []ChainReportedOnce
<1>1. WalkInvariant => ChainReportedOnce
  <2>. SUFFICES ASSUME WalkInvariant, Linted PROVE ChainReportedOnce
    BY DEF ChainReportedOnce
  <2>1. IsSyntaxTree(file)
    BY DEF WalkInvariant, FilesAreTrees
  <2>2. ReportedBy(ChainRule) = {m \in Nodes : noChainedTypeAssertions(m) # {}}
    BY WhatIsReported
  <2>. DEFINE assertions == {n \in Nodes : TypeOf(n) \in Assertions}
              chain(top) == {n \in assertions :
                                /\ IsPrefix(top, n)
                                /\ \A a \in Ancestors(n) : IsPrefix(top, a) =>
                                      TypeOf(a) \in Assertions \cup {"ParenthesizedExpression"}
                                /\ \A k \in Len(top) + 1 .. Len(n) :
                                      RoleOf(Up(n, k)) = "expression"}
  <2>3. ASSUME NEW top \in assertions PROVE chain(top) = Chain(top)
    <3>1. /\ top \in Seq(Steps) /\ Len(top) \in Nat
          /\ \A n \in Nodes : n \in Seq(Steps) /\ Len(n) \in Nat
      <4>1. \A n \in Nodes : n \in Seq(Steps)
        BY <2>1, TreeFacts
      <4>. QED
        BY <4>1
    <3>2. ASSUME NEW n \in Nodes, IsPrefix(top, n)
          PROVE  (\A a \in Ancestors(n) : IsPrefix(top, a) =>
                      TypeOf(a) \in Assertions \cup {"ParenthesizedExpression"})
                 <=> \A k \in Len(top) .. Len(n) - 1 : Asserts(Up(n, k)) \/ Parenthesized(Up(n, k))
      <4>1. Len(top) <= Len(n) /\ top = Up(n, Len(top))
        BY <3>1, <3>2, PrefixIsUp
      <4>2. ASSUME NEW k \in 0 .. Len(n) - 1
            PROVE  IsPrefix(top, Up(n, k)) <=> Len(top) <= k
        <5>1. k \in 0 .. Len(n)
          BY <3>1
        <5>2. Up(n, k) \in Seq(Steps) /\ Len(Up(n, k)) = k
          BY <3>1, <5>1, Ups
        <5>3. IsPrefix(top, Up(n, k)) <=> Len(top) <= k /\ top = Up(Up(n, k), Len(top))
          BY <3>1, <5>2, PrefixIsUp
        <5>4. Len(top) <= k => Up(Up(n, k), Len(top)) = Up(n, Len(top))
          BY <3>1, <5>1, UpOfUp
        <5>. QED
          BY <4>1, <5>3, <5>4
      <4>3. \A k : k \in Len(top) .. Len(n) - 1 <=> k \in 0 .. Len(n) - 1 /\ Len(top) <= k
        BY <3>1
      <4>4. \A a : a \in Ancestors(n) <=> \E k \in 0 .. Len(n) - 1 : a = Up(n, k)
        BY DEF Ancestors
      <4>. QED
        BY <4>2, <4>3, <4>4, Zenon DEF Asserts, Parenthesized
    <3>3. ASSUME NEW n \in Nodes
          PROVE  IsPrefix(top, n) <=> Len(top) <= Len(n) /\ Up(n, Len(top)) = top
      BY <3>1, PrefixIsUp
    <3>4. ASSUME NEW n PROVE n \in chain(top) <=> n \in Chain(top)
      BY <3>2, <3>3 DEF Chain, Downwards, Asserts
    <3>. HIDE DEF chain
    <3>. QED
      BY <3>4
  <2>4. ASSUME NEW top \in assertions, ~ \E m \in assertions : ChainedWith(m, top)
        PROVE  Cardinality(chain(top) \cap ReportedBy(ChainRule))
                 = IF Forbidden(chain(top)) THEN 1 ELSE 0
    <3>1. top \in Nodes /\ Asserts(top) /\ ~ \E m \in Nodes : Asserts(m) /\ ChainedWith(m, top)
      BY <2>4 DEF Asserts
    <3>2. Chain(top) \cap ReportedBy(ChainRule) = IF Forbidden(Chain(top)) THEN {top} ELSE {}
      <4>1. Chain(top) \cap ReportedBy(ChainRule)
              = {n \in Chain(top) : noChainedTypeAssertions(n) # {}}
        BY <2>2 DEF Chain
      <4>. QED
        BY <2>1, <3>1, <4>1, OneVerdictOfChain
    <3>3. Cardinality({top}) = 1 /\ Cardinality({}) = 0
      BY FS_Singleton, FS_EmptySet
    <3>4. Cardinality(Chain(top) \cap ReportedBy(ChainRule))
            = IF Forbidden(Chain(top)) THEN 1 ELSE 0
      BY <3>2, <3>3, Zenon
    <3>5. chain(top) = Chain(top)
      BY <2>3
    <3>. HIDE DEF chain
    <3>. QED
      BY <3>4, <3>5
  <2>. QED
    BY <2>4, Zenon DEF ChainReportedOnce, Forbidden, ChainRule
<1>. QED
  BY <1>1, WalkInvariantHolds, PTL

-----------------------------------------------------------------------------
(* Accumulators and the consts that stand for them                         *)

IsConst(c) == TypeOf(c) = "VariableDeclarator" /\ NameOf(Parent(c)) = "const"

LEMMA ScopeIsNearest ==
  ASSUME IsSyntaxTree(file), NEW d \in Nodes, d # <<>>
  PROVE  \E k \in 0 .. Len(d) - 1 :
            /\ ScopeOf(d) = Up(d, k) /\ TypeOf(Up(d, k)) \in VariableScopes
            /\ \A j \in k + 1 .. Len(d) - 1 : TypeOf(Up(d, j)) \notin VariableScopes
<1>. DEFINE ns == {a \in Ancestors(d) : TypeOf(a) \in VariableScopes}
<1>1. d \in Seq(Steps) /\ Len(d) \in Nat
  BY TreeFacts
<1>2. <<>> \in ns
  BY AncestorsAreNodes, TypeFacts DEF VariableScopes
<1>3. ns \subseteq {Up(d, k) : k \in 0 .. Len(d)}
  BY <1>1 DEF Ancestors
<1>4. Deepest(ns) \in ns /\ \A a \in ns : Len(a) <= Len(Deepest(ns))
  <2>. HIDE DEF ns
  <2>. QED
    BY <1>1, <1>2, <1>3, DeepestIsOne
<1>5. ScopeOf(d) = Deepest(ns)
  BY DEF ScopeOf, Nearest
<1>6. PICK k \in 0 .. Len(d) - 1 : Deepest(ns) = Up(d, k)
  BY <1>4 DEF Ancestors
<1>7. ASSUME NEW j \in k + 1 .. Len(d) - 1 PROVE TypeOf(Up(d, j)) \notin VariableScopes
  <2>1. j \in 0 .. Len(d) - 1 /\ j \in 0 .. Len(d) /\ k \in 0 .. Len(d) /\ k < j
    BY <1>1
  <2>2. Len(Up(d, j)) = j /\ Len(Up(d, k)) = k
    BY <1>1, <2>1, Ups
  <2>3. Up(d, j) \in Ancestors(d)
    BY <2>1 DEF Ancestors
  <2>4. Up(d, j) \in ns => j <= k
    BY <1>4, <1>6, <2>2
  <2>. QED
    BY <2>1, <2>3, <2>4
<1>8. TypeOf(Up(d, k)) \in VariableScopes
  BY <1>4, <1>6
<1>. QED
  BY <1>5, <1>6, <1>7, <1>8

(* A const is its variable's only definition.                              *)
LEMMA ConstIsAlone ==
  ASSUME IsSyntaxTree(file), NEW c \in Nodes, NEW d \in Nodes, IsConst(c),
         DefinesVariable(d), NameOf(c) = NameOf(d), ScopeOf(c) = ScopeOf(d)
  PROVE  c = d
<1>1. TypeOf(c) # "Program" /\ TypeOf(d) # "Program"
  BY DEF IsConst, DefinesVariable, VariableDefinitions
<1>2. c # <<>> /\ d # <<>>
  BY <1>1, TypeFacts
<1>3. /\ c \in Seq(Steps) /\ Len(c) \in Nat
      /\ d \in Seq(Steps) /\ Len(d) \in Nat
  BY TreeFacts
<1>4. PICK k \in 0 .. Len(c) - 1 :
         /\ ScopeOf(c) = Up(c, k) /\ TypeOf(Up(c, k)) \in VariableScopes
         /\ \A j \in k + 1 .. Len(c) - 1 : TypeOf(Up(c, j)) \notin VariableScopes
  BY <1>2, ScopeIsNearest
<1>5. PICK l \in 0 .. Len(d) - 1 :
         /\ ScopeOf(d) = Up(d, l)
         /\ \A j \in l + 1 .. Len(d) - 1 : TypeOf(Up(d, j)) \notin VariableScopes
  BY <1>2, ScopeIsNearest
<1>6. k = l
  <2>1. k \in 0 .. Len(c) /\ l \in 0 .. Len(d)
    BY <1>3
  <2>2. Len(Up(c, k)) = k /\ Len(Up(d, l)) = l
    BY <1>3, <2>1, Ups
  <2>. QED
    BY <1>4, <1>5, <2>2
<1>7. k < Len(d)
  BY <1>3, <1>6
<1>8. (\E i \in 0 .. Len(c) - 1 :
          /\ i < Len(d) /\ Up(c, i) = Up(d, i) /\ file[Up(c, i)].type \in VariableScopes
          /\ \A j \in i + 1 .. Len(c) - 1 : ~(file[Up(c, j)].type \in VariableScopes)
          /\ \A j \in i + 1 .. Len(d) - 1 : ~(file[Up(d, j)].type \in VariableScopes))
        => c = d
  <2>1. /\ c \in DOMAIN file /\ d \in DOMAIN file
        /\ file[c].type = "VariableDeclarator" /\ file[Up(c, Len(c) - 1)].name = "const"
        /\ file[d].type \in VariableDefinitions /\ file[d].name = file[c].name
    BY DEF IsConst, DefinesVariable, Nodes, TypeOf, NameOf, Parent
  <2>. QED
    BY <2>1, Zenon DEF IsSyntaxTree
<1>9. /\ k \in 0 .. Len(c) - 1 /\ k < Len(d) /\ Up(c, k) = Up(d, k)
      /\ file[Up(c, k)].type \in VariableScopes
      /\ \A j \in k + 1 .. Len(c) - 1 : ~(file[Up(c, j)].type \in VariableScopes)
      /\ \A j \in k + 1 .. Len(d) - 1 : ~(file[Up(d, j)].type \in VariableScopes)
  BY <1>4, <1>5, <1>6, <1>7 DEF TypeOf
<1>. QED
  BY <1>8, <1>9, Zenon

Alone(v) == v \subseteq Nodes /\ \A c, d \in v : IsConst(c) => c = d

LEMMA BindingsAreAlone ==
  ASSUME IsSyntaxTree(file)
  PROVE  \A e : Alone(resolveArrayBinding(e))
<1>1. ASSUME NEW name, NEW use PROVE Alone(resolveVariable(name, use))
  <2>1. ASSUME NEW c \in resolveVariable(name, use)
        PROVE  c \in Nodes /\ DefinesVariable(c) /\ NameOf(c) = name
    BY DEF resolveVariable
  <2>2. \A c, d \in resolveVariable(name, use) : ScopeOf(c) = ScopeOf(d)
    BY DEF resolveVariable
  <2>. QED
    BY <2>1, <2>2, ConstIsAlone DEF Alone
<1>2. Alone({})
  BY DEF Alone
<1>3. \A e : \/ resolveArrayBinding(e) = {}
             \/ \E name, use : resolveArrayBinding(e) = resolveVariable(name, use)
  BY Zenon DEF resolveArrayBinding
<1>. QED
  BY <1>1, <1>2, <1>3, Zenon

(* What a variable stands for is what its one definition, a const that     *)
(* nothing writes again, was initialised with.                             *)
StandsIn(c) == c \in Nodes /\ IsConst(c) /\ Kid(c, "init") # None /\ ~IsReassigned({c})

LEMMA BehindConst ==
  ASSUME NEW c, StandsIn(c)
  PROVE  Behind({c}) = resolveArrayBinding(Kid(c, "init"))
<1>. DEFINE declarators == {d \in {c} : /\ TypeOf(d) = "VariableDeclarator"
                                        /\ Kid(d, "init") # None
                                        /\ NameOf(Parent(d)) = "const"}
<1>1. declarators = {c}
  BY DEF StandsIn, IsConst
<1>2. First({c}) = c
  BY DEF First
<1>3. ConstInitializer({c}) = IF declarators = {} THEN None ELSE Kid(First(declarators), "init")
  BY Zenon DEF ConstInitializer
<1>. HIDE DEF declarators
<1>4. ConstInitializer({c}) = Kid(c, "init")
  BY <1>1, <1>2, <1>3
<1>. QED
  BY <1>4 DEF Behind, StandsIn

LEMMA NothingBehind ==
  ASSUME NEW v, Alone(v), \A c : v = {c} => ~StandsIn(c)
  PROVE  Behind(v) = {}
<1>. SUFFICES ASSUME ConstInitializer(v) # None, ~IsReassigned(v) PROVE FALSE
  BY DEF Behind
<1>1. PICK c \in v : IsConst(c) /\ Kid(c, "init") # None
  BY DEF ConstInitializer, IsConst
<1>2. v = {c} /\ c \in Nodes
  BY <1>1 DEF Alone
<1>. QED
  BY <1>1, <1>2 DEF StandsIn

-----------------------------------------------------------------------------
(* The loop of referencesAccumulator, and the growth of the set of consts  *)
(* that stand for the accumulator                                          *)

LEMMA TracedSteps ==
  ASSUME IsSyntaxTree(file), NEW v, Alone(v)
  PROVE  /\ TracedBack(v)[0] = v
         /\ \A i \in Nat : TracedBack(v)[i + 1] = Behind(TracedBack(v)[i])
<1>. DEFINE D == SUBSET Nodes
            next == [u \in D |-> Behind(u)]
            traced == TracedBack(v)
<1>1. next \in [D -> D] /\ v \in D
  <2>1. \A u : Behind(u) \in D
    BY BindingsAreAlone DEF Behind, Alone
  <2>2. v \in D
    BY DEF Alone
  <2>. HIDE DEF D
  <2>. QED
    BY <2>1, <2>2
<1>2. PICK f \in [Nat -> D] : f[0] = v /\ \A i \in Nat : f[i + 1] = next[f[i]]
  <2>. HIDE DEF next, D
  <2>. QED
    BY <1>1, Recursion
<1>3. \A i \in Nat : f[i + 1] = Behind(f[i])
  <2>1. \A u \in D : next[u] = Behind(u)
    BY Zenon
  <2>. HIDE DEF next, D
  <2>. QED
    BY <1>2, <2>1
<1>4. f = [i \in Nat |-> IF i = 0 THEN v ELSE Behind(f[i - 1])]
  <2>1. ASSUME NEW i \in Nat PROVE f[i] = IF i = 0 THEN v ELSE Behind(f[i - 1])
    <3>1. CASE i = 0
      BY <1>2, <3>1
    <3>2. CASE i # 0
      <4>1. i - 1 \in Nat /\ (i - 1) + 1 = i
        BY <3>2
      <4>. QED
        BY <1>3, <3>2, <4>1
    <3>. QED
      BY <3>1, <3>2
  <2>2. f = [i \in Nat |-> f[i]]
    BY <1>2
  <2>. QED
    BY <2>1, <2>2
<1>5. traced = [i \in Nat |-> IF i = 0 THEN v ELSE Behind(traced[i - 1])]
  <2>1. traced = CHOOSE g : g = [i \in Nat |-> IF i = 0 THEN v ELSE Behind(g[i - 1])]
    BY DEF TracedBack
  <2>. HIDE DEF traced
  <2>. QED
    BY <1>4, <2>1
<1>. HIDE DEF traced
<1>6. traced[0] = v
  BY <1>5
<1>7. ASSUME NEW i \in Nat PROVE traced[i + 1] = Behind(traced[i])
  <2>1. i + 1 \in Nat /\ i + 1 # 0 /\ (i + 1) - 1 = i
    OBVIOUS
  <2>. QED
    BY <1>5, <2>1
<1>. QED
  BY <1>6, <1>7 DEF traced

(* One step further from a variable is as far from what is behind it.      *)
LEMMA TracedFromBehind ==
  ASSUME IsSyntaxTree(file), NEW v, Alone(v), Alone(Behind(v)), NEW i \in Nat
  PROVE  TracedBack(v)[i + 1] = TracedBack(Behind(v))[i]
<1>. DEFINE S == {j \in Nat : TracedBack(v)[j + 1] = TracedBack(Behind(v))[j]}
<1>1. /\ TracedBack(v)[0] = v
      /\ \A j \in Nat : TracedBack(v)[j + 1] = Behind(TracedBack(v)[j])
  BY TracedSteps
<1>2. /\ TracedBack(Behind(v))[0] = Behind(v)
      /\ \A j \in Nat : TracedBack(Behind(v))[j + 1] = Behind(TracedBack(Behind(v))[j])
  BY TracedSteps
<1>3. 0 \in S
  <2>1. TracedBack(v)[0 + 1] = Behind(TracedBack(v)[0])
    BY <1>1
  <2>. QED
    BY <1>1, <1>2, <2>1
<1>4. ASSUME NEW j \in Nat, j \in S PROVE j + 1 \in S
  BY <1>1, <1>2, <1>4
<1>5. Nat \subseteq S
  <2>. HIDE DEF S
  <2>. QED
    BY <1>3, <1>4, Induction
<1>. QED
  BY <1>5

LEMMA NothingIsBehindNothing ==
  ASSUME IsSyntaxTree(file), NEW i \in Nat
  PROVE  TracedBack({})[i] = {}
<1>. DEFINE S == {j \in Nat : TracedBack({})[j] = {}}
<1>1. /\ TracedBack({})[0] = {}
      /\ \A j \in Nat : TracedBack({})[j + 1] = Behind(TracedBack({})[j])
  BY TracedSteps DEF Alone
<1>2. Behind({}) = {}
  BY DEF Behind
<1>3. 0 \in S
  BY <1>1
<1>4. ASSUME NEW j \in Nat, j \in S PROVE j + 1 \in S
  <2>1. TracedBack({})[j] = {}
    BY <1>4
  <2>2. TracedBack({})[j + 1] = Behind({})
    BY <1>1, <2>1, Zenon
  <2>3. j + 1 \in Nat
    OBVIOUS
  <2>. QED
    BY <1>2, <2>2, <2>3
<1>5. Nat \subseteq S
  <2>. HIDE DEF S
  <2>. QED
    BY <1>3, <1>4, Induction
<1>. QED
  BY <1>5

NewStandIns(standIns) ==
  {{d} : d \in {c \in Nodes : StandsIn(c) /\ resolveArrayBinding(Kid(c, "init")) \in standIns}}

LEMMA StandInSteps ==
  ASSUME NEW accumulator
  PROVE  /\ StandIns(accumulator)[0] = {accumulator}
         /\ \A i \in Nat : StandIns(accumulator)[i + 1]
                             = StandIns(accumulator)[i] \cup NewStandIns(StandIns(accumulator)[i])
<1>. DEFINE D == SUBSET ((SUBSET Nodes) \cup {accumulator})
            more(s) == s \cup NewStandIns(s)
            next == [s \in D |-> more(s)]
            standIns == StandIns(accumulator)
<1>1. next \in [D -> D] /\ {accumulator} \in D
  <2>1. \A s : NewStandIns(s) \subseteq SUBSET Nodes
    BY DEF NewStandIns
  <2>2. \A s \in D : more(s) \in D
    BY <2>1
  <2>3. {accumulator} \in D
    OBVIOUS
  <2>. HIDE DEF D, more
  <2>. QED
    BY <2>2, <2>3
<1>2. PICK f \in [Nat -> D] : f[0] = {accumulator} /\ \A i \in Nat : f[i + 1] = next[f[i]]
  <2>. HIDE DEF next, D
  <2>. QED
    BY <1>1, Recursion
<1>3. \A i \in Nat : f[i + 1] = more(f[i])
  <2>1. \A s \in D : next[s] = more(s)
    BY Zenon
  <2>. HIDE DEF next, D, more
  <2>. QED
    BY <1>2, <2>1
<1>4. \A s : more(s) =
        s \cup {{d} : d \in {c \in Nodes :
                   /\ TypeOf(c) = "VariableDeclarator" /\ NameOf(Parent(c)) = "const"
                   /\ Kid(c, "init") # None
                   /\ resolveArrayBinding(Kid(c, "init")) \in s
                   /\ ~IsReassigned({c})}}
  BY DEF NewStandIns, StandsIn, IsConst
<1>. HIDE DEF more
<1>5. f = [i \in Nat |-> IF i = 0 THEN {accumulator} ELSE more(f[i - 1])]
  <2>1. ASSUME NEW i \in Nat PROVE f[i] = IF i = 0 THEN {accumulator} ELSE more(f[i - 1])
    <3>1. CASE i = 0
      BY <1>2, <3>1
    <3>2. CASE i # 0
      <4>1. i - 1 \in Nat /\ (i - 1) + 1 = i
        BY <3>2
      <4>. QED
        BY <1>3, <3>2, <4>1
    <3>. QED
      BY <3>1, <3>2
  <2>2. f = [i \in Nat |-> f[i]]
    BY <1>2
  <2>. QED
    BY <2>1, <2>2
<1>6. standIns = [i \in Nat |-> IF i = 0 THEN {accumulator} ELSE more(standIns[i - 1])]
  <2>1. standIns = CHOOSE g : g = [i \in Nat |-> IF i = 0 THEN {accumulator} ELSE more(g[i - 1])]
    BY <1>4, Zenon DEF StandIns
  <2>. HIDE DEF standIns
  <2>. QED
    BY <1>5, <2>1
<1>. HIDE DEF standIns
<1>7. standIns[0] = {accumulator}
  BY <1>6
<1>8. ASSUME NEW i \in Nat PROVE standIns[i + 1] = more(standIns[i])
  <2>1. i + 1 \in Nat /\ i + 1 # 0 /\ (i + 1) - 1 = i
    OBVIOUS
  <2>. QED
    BY <1>6, <2>1
<1>. QED
  BY <1>7, <1>8 DEF standIns, more

(***************************************************************************)
(* A variable is among the stand-ins found in so many rounds, from the     *)
(* accumulator outwards, exactly if the loop, from the variable inwards,   *)
(* finds the accumulator in as many.                                       *)
(***************************************************************************)
LEMMA StandInsAreTracedBack ==
  ASSUME IsSyntaxTree(file)
  PROVE  \A accumulator : \A k \in Nat : accumulator # {} =>
            \A v \in SUBSET Nodes : Alone(v) =>
               (v \in StandIns(accumulator)[k]
                  <=> \E j \in 0 .. k : TracedBack(v)[j] = accumulator)
<1>. SUFFICES ASSUME NEW accumulator, NEW k \in Nat, accumulator # {}
              PROVE  \A v \in SUBSET Nodes : Alone(v) =>
                        (v \in StandIns(accumulator)[k]
                           <=> \E j \in 0 .. k : TracedBack(v)[j] = accumulator)
  BY Zenon
<1>. DEFINE s(i) == StandIns(accumulator)[i]
            Found(v, i) == \E j \in 0 .. i : TracedBack(v)[j] = accumulator
            S == {i \in Nat : \A v \in SUBSET Nodes : Alone(v) => (v \in s(i) <=> Found(v, i))}
<1>1. s(0) = {accumulator} /\ \A i \in Nat : s(i + 1) = s(i) \cup NewStandIns(s(i))
  BY StandInSteps
<1>2. 0 \in S
  <2>1. ASSUME NEW v \in SUBSET Nodes, Alone(v) PROVE Found(v, 0) <=> v = accumulator
    <3>1. TracedBack(v)[0] = v
      BY <2>1, TracedSteps
    <3>2. \A j : j \in 0 .. 0 <=> j = 0
      OBVIOUS
    <3>. QED
      BY <3>1, <3>2
  <2>. QED
    BY <1>1, <2>1
<1>3. ASSUME NEW i \in Nat, i \in S PROVE i + 1 \in S
  <2>. SUFFICES ASSUME NEW v \in SUBSET Nodes, Alone(v)
                PROVE  v \in s(i + 1) <=> Found(v, i + 1)
    OBVIOUS
  <2>0. v \in s(i) <=> Found(v, i)
    BY <1>3
  <2>1. v \in s(i + 1) <=> v \in s(i) \/ v \in NewStandIns(s(i))
    BY <1>1
  <2>2. Alone(Behind(v)) /\ Behind(v) \in SUBSET Nodes
    BY BindingsAreAlone DEF Behind, Alone
  <2>3. Found(v, i + 1) <=> Found(v, i) \/ Found(Behind(v), i)
    <3>1. TracedBack(v)[0] = v
      BY TracedSteps
    <3>2. \A j \in Nat : TracedBack(v)[j + 1] = TracedBack(Behind(v))[j]
      BY <2>2, TracedFromBehind
    <3>3. ASSUME NEW j \in 0 .. i + 1, TracedBack(v)[j] = accumulator
          PROVE  Found(v, i) \/ Found(Behind(v), i)
      <4>1. CASE j \in 0 .. i
        BY <3>3, <4>1
      <4>2. CASE j \notin 0 .. i
        <5>1. j = i + 1 /\ i \in 0 .. i
          BY <4>2
        <5>. QED
          BY <3>2, <3>3, <5>1
      <4>. QED
        BY <4>1, <4>2
    <3>4. Found(v, i) => Found(v, i + 1)
      <4>1. \A j \in 0 .. i : j \in 0 .. i + 1
        OBVIOUS
      <4>. QED
        BY <4>1
    <3>5. Found(Behind(v), i) => Found(v, i + 1)
      <4>1. \A j \in 0 .. i : j \in Nat /\ j + 1 \in 0 .. i + 1
        OBVIOUS
      <4>. QED
        BY <3>2, <4>1
    <3>. QED
      BY <3>3, <3>4, <3>5
  <2>4. CASE \E c : v = {c} /\ StandsIn(c)
    <3>1. PICK c : v = {c} /\ StandsIn(c)
      BY <2>4
    <3>2. Behind(v) = resolveArrayBinding(Kid(c, "init"))
      BY <3>1, BehindConst
    <3>3. v \in NewStandIns(s(i)) <=> Behind(v) \in s(i)
      <4>1. v \in NewStandIns(s(i)) <=>
              \E d \in Nodes : StandsIn(d) /\ resolveArrayBinding(Kid(d, "init")) \in s(i) /\ v = {d}
        BY DEF NewStandIns
      <4>2. \A d : v = {d} <=> d = c
        BY <3>1
      <4>3. c \in Nodes
        BY <3>1 DEF StandsIn
      <4>. QED
        BY <3>1, <3>2, <4>1, <4>2, <4>3, Zenon
    <3>4. Behind(v) \in s(i) <=> Found(Behind(v), i)
      BY <1>3, <2>2
    <3>. QED
      BY <2>0, <2>1, <2>3, <3>3, <3>4
  <2>5. CASE ~ \E c : v = {c} /\ StandsIn(c)
    <3>1. v \notin NewStandIns(s(i))
      BY <2>5 DEF NewStandIns
    <3>2. Behind(v) = {}
      BY <2>5, NothingBehind
    <3>3. ~Found(Behind(v), i)
      <4>1. \A j \in 0 .. i : j \in Nat
        OBVIOUS
      <4>. QED
        BY <3>2, <4>1, NothingIsBehindNothing
    <3>. QED
      BY <2>0, <2>1, <2>3, <3>1, <3>3
  <2>. QED
    BY <2>4, <2>5
<1>4. k \in S
  <2>. HIDE DEF S
  <2>. QED
    BY <1>2, <1>3, Induction
<1>. QED
  BY <1>4

(***************************************************************************)
(* CopiesAreOfTheAccumulator, for any files that are syntax trees: through *)
(* however many consts, the rule finds the copies the array methods make   *)
(* of the accumulator, and takes no other array's copy for one.            *)
(***************************************************************************)
THEOREM CopiesOfAccumulatorReported == Walk => []CopiesAreOfTheAccumulator
<1>1. WalkInvariant => CopiesAreOfTheAccumulator
  <2>. SUFFICES ASSUME WalkInvariant, Linted, NEW n \in Nodes, TypeOf(n) = "CallExpression",
                       enclosingReducer(n) # None, arrayMethodTarget(Kid(n, "callee")) # None,
                       arrayMethodTarget(Kid(n, "callee")).name \in CopyMethods
                PROVE  n \in ReportedBy(CopyRule) <=>
                         /\ resolveArrayBinding(arrayMethodTarget(Kid(n, "callee")).object)
                              \in StandInsFor(enclosingReducer(n).accumulator)
                         /\ enclosingReducer(n).initialValue # None
                         /\ isKnownArrayExpression(enclosingReducer(n).initialValue)
    BY Zenon DEF CopiesAreOfTheAccumulator, CopyRule
  <2>. DEFINE method == arrayMethodTarget(Kid(n, "callee"))
              reducer == enclosingReducer(n)
              copied == resolveArrayBinding(method.object)
  <2>1. IsSyntaxTree(file)
    BY DEF WalkInvariant, FilesAreTrees
  <2>2. n \in ReportedBy(CopyRule) <=> noReduceAccumulatorCopy(n) # {}
    BY WhatIsReported
  <2>3. noReduceAccumulatorCopy(n) # {} <=> copiesAccumulator(n, method, reducer)
    BY Zenon DEF noReduceAccumulatorCopy
  <2>4. copiesAccumulator(n, method, reducer) <=>
          /\ reducer.initialValue # None
          /\ isKnownArrayExpression(reducer.initialValue)
          /\ referencesAccumulator(method.object, reducer.accumulator)
    <3>1. method.name # "assign" /\ method.name # "from"
      BY DEF CopyMethods
    <3>. HIDE DEF method, reducer
    <3>. QED
      BY <3>1, Zenon DEF copiesAccumulator, method
  <2>5. reducer.accumulator # {}
    <3>1. \E callback, first, start :
             reducer = [callback |-> callback, accumulator |-> {first}, initialValue |-> start]
      BY Zenon DEF enclosingReducer
    <3>. HIDE DEF reducer
    <3>. QED
      BY <3>1
  <2>6. Cardinality(Nodes) \in Nat
    BY <2>1, TreeFacts, FS_CardinalityType
  <2>7. Alone(copied) /\ copied \in SUBSET Nodes
    BY <2>1, BindingsAreAlone DEF Alone
  <2>8. referencesAccumulator(method.object, reducer.accumulator)
          <=> copied \in StandInsFor(reducer.accumulator)
    <3>1. referencesAccumulator(method.object, reducer.accumulator)
            <=> \E i \in 0 .. Cardinality(Nodes) : TracedBack(copied)[i] = reducer.accumulator
      BY Zenon DEF referencesAccumulator
    <3>. DEFINE accumulator == reducer.accumulator
                most == Cardinality(Nodes)
    <3>2. most \in Nat /\ accumulator # {}
      BY <2>5, <2>6
    <3>. HIDE DEF method, reducer, copied, accumulator, most
    <3>3. \A v \in SUBSET Nodes : Alone(v) =>
             (v \in StandIns(accumulator)[most]
                <=> \E i \in 0 .. most : TracedBack(v)[i] = accumulator)
      BY <2>1, <3>2, StandInsAreTracedBack, Zenon
    <3>4. copied \in StandIns(accumulator)[most]
            <=> \E i \in 0 .. most : TracedBack(copied)[i] = accumulator
      BY <2>7, <3>3, Zenon
    <3>. QED
      BY <3>1, <3>4, Zenon DEF StandInsFor, accumulator, most
  <2>. QED
    BY <2>2, <2>3, <2>4, <2>8, Zenon
<1>. QED
  BY <1>1, WalkInvariantHolds, PTL
=============================================================================
