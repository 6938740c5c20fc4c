------------------------- MODULE CommentTreeProofs -------------------------
(***************************************************************************)
(* Proofs about CommentTree, for any thread of comments.                   *)
(***************************************************************************)
EXTENDS CommentTree, FiniteSetTheorems, NaturalsInduction, WellFoundedInduction, TLAPS

-----------------------------------------------------------------------------
(* Induction over the naturals, from the least number outside the set.     *)
LEMMA LessRelation == OpToRel(<, Nat) = {p \in Nat \X Nat : p[1] < p[2]}
  BY DEF OpToRel

LEMMA Induction ==
  ASSUME NEW S, 0 \in S, \A n \in Nat : n \in S => n + 1 \in S
  PROVE  Nat \subseteq S
<1>. DEFINE R == {p \in Nat \X Nat : p[1] < p[2]}
            T == Nat \ S
<1>. SUFFICES ASSUME T # {} PROVE FALSE
  OBVIOUS
<1>1. PICK m \in T : \A n \in T : <<n, m>> \notin R
  <2>1. IsWellFoundedOn(R, Nat)
    BY NatLessThanWellFounded, LessRelation
  <2>. HIDE DEF R
  <2>. QED
    BY <2>1, WFMin
<1>2. m \in Nat /\ m # 0
  OBVIOUS
<1>3. m - 1 \in Nat /\ (m - 1) + 1 = m /\ <<m - 1, m>> \in R
  BY <1>2
<1>4. m - 1 \notin T
  BY <1>1, <1>3
<1>. QED
  BY <1>2, <1>3, <1>4

LEMMA BoundedInduction ==
  ASSUME NEW N \in Nat, NEW S, 0 \in S, \A n \in 0 .. N - 1 : n \in S => n + 1 \in S
  PROVE  0 .. N \subseteq S
<1>. DEFINE T == {n \in Nat : n <= N => n \in S}
<1>1. 0 \in T
  OBVIOUS
<1>2. \A n \in Nat : n \in T => n + 1 \in T
  OBVIOUS
<1>3. Nat \subseteq T
  <2>. HIDE DEF T
  <2>. QED
    BY <1>1, <1>2, Induction
<1>. QED
  BY <1>3

(* A function can be defined on 0 .. N step by step.                       *)
StepsOn(N, D) == [1 .. N -> [D -> D]]
Iterate(g, N, D, base, step) ==
  g \in [0 .. N -> D] /\ g[0] = base /\ \A i \in 1 .. N : g[i] = step[i][g[i - 1]]

LEMMA IterateExists ==
  ASSUME NEW N \in Nat, NEW D, NEW base \in D, NEW step \in StepsOn(N, D)
  PROVE  \E g : Iterate(g, N, D, base, step)
<1>. USE DEF StepsOn, Iterate
<1>. DEFINE Good(k, g) == g[0] = base /\ \A i \in 1 .. k : g[i] = step[i][g[i - 1]]
            S == {k \in Nat : k <= N => \E g \in [0 .. k -> D] : Good(k, g)}
<1>1. 0 \in S
  <2>. DEFINE g == [i \in 0 .. 0 |-> base]
  <2>1. g \in [0 .. 0 -> D] /\ g[0] = base
    OBVIOUS
  <2>2. Good(0, g)
    BY <2>1
  <2>. HIDE DEF g, Good
  <2>. QED
    BY <2>1, <2>2
<1>2. ASSUME NEW n \in Nat, n \in S
      PROVE  n + 1 \in S
  <2>. SUFFICES ASSUME n + 1 <= N PROVE \E g \in [0 .. n + 1 -> D] : Good(n + 1, g)
    OBVIOUS
  <2>1. PICK g \in [0 .. n -> D] : Good(n, g)
    BY <1>2
  <2>. DEFINE next == step[n + 1][g[n]]
              h == [i \in 0 .. n + 1 |-> IF i = n + 1 THEN next ELSE g[i]]
  <2>2. next \in D
    <3>1. g[n] \in D /\ n + 1 \in 1 .. N
      OBVIOUS
    <3>. QED
      BY <3>1
  <2>3. h \in [0 .. n + 1 -> D]
    BY <2>2
  <2>4. h[n + 1] = next /\ \A i \in 0 .. n : h[i] = g[i]
    OBVIOUS
  <2>5. \A i \in 1 .. n + 1 : h[i] = step[i][h[i - 1]]
    <3>. SUFFICES ASSUME NEW i \in 1 .. n + 1 PROVE h[i] = step[i][h[i - 1]]
      OBVIOUS
    <3>. HIDE DEF h
    <3>1. h[i - 1] = g[i - 1]
      BY <2>4
    <3>2. CASE i = n + 1
      BY <3>1, <3>2, <2>4
    <3>3. CASE i \in 1 .. n
      BY <3>1, <3>3, <2>1, <2>4
    <3>. QED
      BY <3>2, <3>3
  <2>6. Good(n + 1, h)
    BY <2>1, <2>4, <2>5
  <2>. HIDE DEF h, Good
  <2>. QED
    BY <2>3, <2>6
<1>3. Nat \subseteq S
  <2>. HIDE DEF S
  <2>. QED
    BY <1>1, <1>2, Induction
<1>. QED
  BY <1>3

(* The prefixes that Picked goes through.                                  *)
PickedUpTo(s, P) ==
  CHOOSE upTo : upTo = [n \in 0 .. Len(s) |->
      IF n = 0 THEN <<>>
      ELSE IF n \in P THEN Append(upTo[n - 1], s[n])
      ELSE upTo[n - 1]]

LEMMA PickedSteps ==
  ASSUME NEW T, NEW s \in Seq(T), NEW P
  PROVE  LET up == PickedUpTo(s, P)
         IN  /\ Picked(s, P) = up[Len(s)]
             /\ up \in [0 .. Len(s) -> Seq(T)]
             /\ up[0] = <<>>
             /\ \A n \in 1 .. Len(s) :
                   up[n] = IF n \in P THEN Append(up[n - 1], s[n]) ELSE up[n - 1]
<1>. DEFINE D == Seq(T)
            N == Len(s)
            base == <<>>
            step == [n \in 1 .. N |-> [x \in D |-> IF n \in P THEN Append(x, s[n]) ELSE x]]
            up == PickedUpTo(s, P)
<1>1. base \in D /\ N \in Nat
  OBVIOUS
<1>2. step \in StepsOn(N, D)
  BY DEF StepsOn
<1>3. PICK g : Iterate(g, N, D, base, step)
  <2>. HIDE DEF D, N, base, step
  <2>. QED
    BY <1>1, <1>2, IterateExists
<1>4. \A n \in 1 .. N : n \in 0 .. N /\ n - 1 \in 0 .. N /\ n # 0 /\ 0 \in 0 .. N
  BY <1>1
<1>5. \A n \in 1 .. N : g[n] = IF n \in P THEN Append(g[n - 1], s[n]) ELSE g[n - 1]
  BY <1>3, <1>4 DEF Iterate
<1>6. g = [n \in 0 .. N |-> IF n = 0 THEN <<>>
                            ELSE IF n \in P THEN Append(g[n - 1], s[n]) ELSE g[n - 1]]
  <2>. DEFINE rhs(n) == IF n = 0 THEN <<>>
                        ELSE IF n \in P THEN Append(g[n - 1], s[n]) ELSE g[n - 1]
  <2>1. ASSUME NEW n \in 0 .. N PROVE g[n] = rhs(n)
    <3>1. CASE n = 0
      BY <1>3, <3>1 DEF Iterate
    <3>2. CASE n \in 1 .. N
      BY <1>4, <1>5, <3>2
    <3>. QED
      BY <1>1, <3>1, <3>2
  <2>2. g = [n \in 0 .. N |-> g[n]]
    BY <1>3 DEF Iterate
  <2>. HIDE DEF rhs, N
  <2>3. g = [n \in 0 .. N |-> rhs(n)]
    BY <2>1, <2>2
  <2>. QED
    BY <2>3 DEF rhs
<1>7. up = [n \in 0 .. N |-> IF n = 0 THEN <<>>
                            ELSE IF n \in P THEN Append(up[n - 1], s[n]) ELSE up[n - 1]]
  BY <1>6 DEF PickedUpTo
<1>8. Picked(s, P) = up[N]
  BY DEF Picked, PickedUpTo
<1>. HIDE DEF up
<1>9. \A n \in 1 .. N : up[n] = IF n \in P THEN Append(up[n - 1], s[n]) ELSE up[n - 1]
  BY <1>4, <1>7
<1>10. up[0] = <<>>
  BY <1>1, <1>7
<1>11. up \in [0 .. N -> D]
  <2>. DEFINE S == {n \in 0 .. N : up[n] \in D}
  <2>1. 0 \in S
    <3>1. 0 \in 0 .. N
      BY <1>1
    <3>. HIDE DEF D, N
    <3>. QED
      BY <3>1, <1>1, <1>10
  <2>2. ASSUME NEW n \in 0 .. N - 1, n \in S
        PROVE  n + 1 \in S
    <3>1. n + 1 \in 1 .. N /\ (n + 1) - 1 = n /\ n + 1 \in 0 .. N
      BY <1>1
    <3>2. up[n + 1] = IF n + 1 \in P THEN Append(up[n], s[n + 1]) ELSE up[n]
      BY <1>9, <3>1
    <3>3. s[n + 1] \in T
      BY <3>1
    <3>4. up[n] \in Seq(T)
      BY <2>2
    <3>5. up[n + 1] \in Seq(T)
      BY <3>2, <3>3, <3>4
    <3>. QED
      BY <3>1, <3>5
  <2>3. 0 .. N \subseteq S
    <3>. HIDE DEF S
    <3>. QED
      BY <1>1, <2>1, <2>2, BoundedInduction
  <2>4. \A n \in 0 .. N : up[n] \in D
    BY <2>3
  <2>. HIDE DEF D, N
  <2>. QED
    BY <1>7, <2>4
<1>. QED
  BY <1>8, <1>9, <1>10, <1>11 DEF up

(* at is the position in s of each element of x, when x has been picked    *)
(* from the first n elements of s: none is missed, none moved.             *)
PicksUpTo(at, s, P, n, x) ==
  /\ at \in [1 .. Len(x) -> 1 .. n]
  /\ \A k \in 1 .. Len(x) : x[k] = s[at[k]] /\ at[k] \in P
  /\ \A k, l \in 1 .. Len(x) : k < l => at[k] < at[l]
  /\ \A i \in 1 .. n : i \in P => \E k \in 1 .. Len(x) : at[k] = i

LEMMA PickNext ==
  ASSUME NEW T, NEW s \in Seq(T), NEW P, NEW n \in Nat, n + 1 <= Len(s),
         NEW x \in Seq(T), NEW at, PicksUpTo(at, s, P, n, x), n + 1 \in P
  PROVE  \E b : PicksUpTo(b, s, P, n + 1, Append(x, s[n + 1]))
<1>. DEFINE L == Len(x)
            y == Append(x, s[n + 1])
            b == [k \in 1 .. L + 1 |-> IF k = L + 1 THEN n + 1 ELSE at[k]]
<1>1. L \in Nat /\ s[n + 1] \in T
  OBVIOUS
<1>2. Len(y) = L + 1 /\ y[L + 1] = s[n + 1] /\ \A k \in 1 .. L : y[k] = x[k]
  BY <1>1
<1>3. b[L + 1] = n + 1 /\ \A k \in 1 .. L : b[k] = at[k] /\ at[k] \in 1 .. n
  BY <1>1 DEF PicksUpTo
<1>4. b \in [1 .. L + 1 -> 1 .. n + 1]
  BY <1>1 DEF PicksUpTo
<1>. HIDE DEF b, y, L
<1>5. ASSUME NEW k \in 1 .. L + 1
      PROVE  y[k] = s[b[k]] /\ b[k] \in P
  <2>1. CASE k = L + 1
    BY <1>2, <1>3, <2>1
  <2>2. CASE k \in 1 .. L
    BY <1>2, <1>3, <2>2 DEF PicksUpTo, L
  <2>. QED
    BY <1>1, <2>1, <2>2
<1>6. ASSUME NEW k \in 1 .. L + 1, NEW l \in 1 .. L + 1, k < l
      PROVE  b[k] < b[l]
  <2>1. k \in 1 .. L /\ b[k] = at[k] /\ at[k] \in 1 .. n
    BY <1>1, <1>3, <1>6
  <2>2. CASE l = L + 1
    BY <1>3, <2>1, <2>2
  <2>3. CASE l \in 1 .. L
    BY <1>3, <1>6, <2>1, <2>3 DEF PicksUpTo, L
  <2>. QED
    BY <1>1, <2>2, <2>3
<1>7. ASSUME NEW i \in 1 .. n + 1, i \in P
      PROVE  \E k \in 1 .. L + 1 : b[k] = i
  <2>1. CASE i = n + 1
    <3>1. L + 1 \in 1 .. L + 1
      BY <1>1
    <3>. QED
      BY <1>3, <2>1, <3>1
  <2>2. CASE i \in 1 .. n
    <3>1. PICK k \in 1 .. L : at[k] = i
      BY <1>7, <2>2 DEF PicksUpTo, L
    <3>2. k \in 1 .. L + 1
      BY <1>1
    <3>. QED
      BY <1>3, <3>1, <3>2
  <2>. QED
    BY <2>1, <2>2
<1>8. PicksUpTo(b, s, P, n + 1, y)
  BY <1>2, <1>4, <1>5, <1>6, <1>7 DEF PicksUpTo
<1>. QED
  BY <1>8 DEF y

LEMMA PickedOrder ==
  ASSUME NEW T, NEW s \in Seq(T), NEW P
  PROVE  /\ Picked(s, P) \in Seq(T)
         /\ \E at : PicksUpTo(at, s, P, Len(s), Picked(s, P))
<1>. DEFINE N == Len(s)
            up == PickedUpTo(s, P)
            S == {n \in 0 .. N : \E at : PicksUpTo(at, s, P, n, up[n])}
<1>1. N \in Nat /\ 0 \in 0 .. N /\ N \in 0 .. N
  OBVIOUS
<1>2. /\ Picked(s, P) = up[N]
      /\ up \in [0 .. N -> Seq(T)]
      /\ up[0] = <<>>
      /\ \A n \in 1 .. N : up[n] = IF n \in P THEN Append(up[n - 1], s[n]) ELSE up[n - 1]
  BY PickedSteps
<1>. HIDE DEF up
<1>3. 0 \in S
  <2>1. PicksUpTo(<<>>, s, P, 0, <<>>)
    BY DEF PicksUpTo
  <2>. QED
    BY <1>1, <1>2, <2>1
<1>4. ASSUME NEW n \in 0 .. N - 1, n \in S
      PROVE  n + 1 \in S
  <2>1. n \in Nat /\ n + 1 \in 1 .. N /\ n + 1 \in 0 .. N /\ n + 1 <= N /\ (n + 1) - 1 = n
    BY <1>1
  <2>2. PICK at : PicksUpTo(at, s, P, n, up[n])
    BY <1>4
  <2>3. up[n] \in Seq(T)
    BY <1>2, <1>4
  <2>4. up[n + 1] = IF n + 1 \in P THEN Append(up[n], s[n + 1]) ELSE up[n]
    BY <1>2, <2>1
  <2>5. CASE n + 1 \in P
    BY <2>1, <2>2, <2>3, <2>4, <2>5, PickNext
  <2>6. CASE n + 1 \notin P
    <3>. DEFINE x == up[n]
    <3>1. at \in [1 .. Len(x) -> 1 .. n + 1]
      <4>1. 1 .. n \subseteq 1 .. n + 1
        BY <2>1
      <4>. QED
        BY <2>2, <4>1 DEF PicksUpTo
    <3>2. \A i \in 1 .. n + 1 : i \in P => i \in 1 .. n
      BY <2>1, <2>6
    <3>3. PicksUpTo(at, s, P, n + 1, x)
      BY <2>2, <3>1, <3>2 DEF PicksUpTo
    <3>. QED
      BY <2>1, <2>4, <2>6, <3>3
  <2>. QED
    BY <2>5, <2>6
<1>5. N \in S
  <2>. HIDE DEF S, N
  <2>. QED
    BY <1>1, <1>3, <1>4, BoundedInduction
<1>. QED
  BY <1>1, <1>2, <1>5

-----------------------------------------------------------------------------
(* The thread lists every comment once, replies after what they answer.    *)
LEMMA ThreadFacts ==
  /\ Thread \in Seq(Comments) /\ Len(Thread) \in Nat \ {0}
  /\ \A c \in Comments : \E i \in 1 .. Len(Thread) : Thread[i] = c
  /\ \A i \in 1 .. Len(Thread) : Thread[i] \in Comments
  /\ \A i, j \in 1 .. Len(Thread) : Thread[i] = Thread[j] => i = j
  /\ \A c \in Comments : Parent[c] \in Comments \cup {None}
  /\ None \notin Comments
<1>1. Thread \in Seq(Comments)
  BY ConstantsAssumption DEF ConstantsAssumption
<1>2. Len(Thread) \in Nat \ {0} /\ DOMAIN Thread = 1 .. Len(Thread)
  BY <1>1, ConstantsAssumption DEF ConstantsAssumption
<1>3. \A i, j \in DOMAIN Thread : Thread[i] = Thread[j] => i = j
  BY ConstantsAssumption DEF ConstantsAssumption, IsInjective
<1>4. \A c \in Comments : \E i \in DOMAIN Thread : Thread[i] = c
  BY DEF Comments, ToSet
<1>5. \A i \in DOMAIN Thread : Thread[i] \in Comments
  BY DEF Comments, ToSet
<1>6. (\A c \in Comments : Parent[c] \in Comments \cup {None}) /\ None \notin Comments
  BY ConstantsAssumption DEF ConstantsAssumption
<1>. QED
  BY <1>1, <1>2, <1>3, <1>4, <1>5, <1>6

LEMMA ParentsFirst ==
  ASSUME NEW i \in 1 .. Len(Thread), Parent[Thread[i]] # None
  PROVE  \E p \in 1 .. i - 1 : Thread[p] = Parent[Thread[i]]
<1>1. InThreadOrder(Thread)
  BY ThreadAssumption DEF ThreadAssumption
<1>2. DOMAIN Thread = 1 .. Len(Thread)
  BY ThreadFacts
<1>3. i \in DOMAIN Thread
  BY <1>2
<1>. QED
  BY <1>1, <1>3 DEF InThreadOrder

(* The equation of Ancestors has a solution: it is found in thread order.  *)
IsAncestry(f) ==
  f = [c \in Comments |-> IF Parent[c] = None THEN {} ELSE {Parent[c]} \cup f[Parent[c]]]

LEMMA AncestryExists == \E f : IsAncestry(f)
<1>. DEFINE D == [Comments -> SUBSET Comments]
            N == Len(Thread)
            base == [c \in Comments |-> {}]
            up(f, c) == IF Parent[c] = None THEN {} ELSE {Parent[c]} \cup f[Parent[c]]
            step == [n \in 1 .. N |-> [f \in D |->
                        [f EXCEPT ![Thread[n]] = up(f, Thread[n])]]]
<1>1. base \in D /\ N \in Nat
  BY ThreadFacts
<1>2. ASSUME NEW f \in D, NEW c \in Comments
      PROVE  up(f, c) \in SUBSET Comments
  BY ThreadFacts
<1>3. step \in StepsOn(N, D)
  <2>. HIDE DEF up
  <2>1. \A n \in 1 .. N, f \in D : [f EXCEPT ![Thread[n]] = up(f, Thread[n])] \in D
    BY <1>2, ThreadFacts
  <2>. HIDE DEF D, N
  <2>. QED
    BY <2>1 DEF StepsOn
<1>4. PICK g : Iterate(g, N, D, base, step)
  <2>. HIDE DEF D, N, base, step
  <2>. QED
    BY <1>1, <1>3, IterateExists
<1>5. g \in [0 .. N -> D]
  BY <1>4 DEF Iterate
<1>6. ASSUME NEW n \in 1 .. N
      PROVE  g[n] = [g[n - 1] EXCEPT ![Thread[n]] = up(g[n - 1], Thread[n])]
  <2>. HIDE DEF up
  <2>1. n - 1 \in 0 .. N
    BY <1>1
  <2>2. g[n] = step[n][g[n - 1]]
    BY <1>4 DEF Iterate
  <2>3. g[n - 1] \in D
    BY <1>5, <2>1
  <2>. HIDE DEF D, N
  <2>. QED
    BY <2>2, <2>3
<1>. HIDE DEF step, base, up
<1>7. ASSUME NEW i \in 1 .. N, NEW n \in i .. N
      PROVE  g[n][Thread[i]] = g[i][Thread[i]]
  <2>. DEFINE S == {m \in 0 .. N : m >= i => g[m][Thread[i]] = g[i][Thread[i]]}
  <2>1. 0 \in S
    BY <1>1
  <2>2. ASSUME NEW m \in 0 .. N - 1, m \in S
        PROVE  m + 1 \in S
    <3>1. m + 1 \in 1 .. N /\ m + 1 \in 0 .. N /\ (m + 1) - 1 = m
      BY <1>1
    <3>2. CASE i <= m
      <4>1. Thread[m + 1] # Thread[i] /\ Thread[i] \in Comments
        BY <3>1, <3>2, ThreadFacts
      <4>2. g[m] \in D
        BY <1>5, <3>1
      <4>3. g[m + 1] = [g[m] EXCEPT ![Thread[m + 1]] = up(g[m], Thread[m + 1])]
        BY <1>6, <3>1
      <4>4. g[m + 1][Thread[i]] = g[m][Thread[i]]
        BY <4>1, <4>2, <4>3
      <4>. QED
        BY <2>2, <3>1, <3>2, <4>4
    <3>3. CASE i > m
      BY <3>1, <3>3
    <3>. QED
      BY <3>2, <3>3
  <2>3. n \in S
    <3>. HIDE DEF S, N
    <3>1. 0 .. N \subseteq S
      BY <1>1, <2>1, <2>2, BoundedInduction
    <3>2. n \in 0 .. N
      BY <1>1
    <3>. QED
      BY <3>1, <3>2
  <2>. QED
    BY <2>3
<1>8. ASSUME NEW c \in Comments
      PROVE  g[N][c] = up(g[N], c)
  <2>1. PICK i \in 1 .. N : Thread[i] = c
    BY ThreadFacts
  <2>2. i - 1 \in 0 .. N /\ i \in i .. N /\ N \in i .. N
    BY <1>1
  <2>3. g[i - 1] \in D
    BY <1>5, <2>2
  <2>4. g[i][c] = up(g[i - 1], c)
    BY <1>6, <2>1, <2>3
  <2>5. g[N][c] = g[i][c]
    BY <1>7, <2>1, <2>2
  <2>6. CASE Parent[c] = None
    BY <2>4, <2>5, <2>6 DEF up
  <2>7. CASE Parent[c] # None
    <3>1. PICK p \in 1 .. i - 1 : Thread[p] = Parent[c]
      BY <2>1, <2>7, ParentsFirst
    <3>2. p \in 1 .. N /\ i - 1 \in p .. N /\ N \in p .. N
      BY <1>1, <3>1
    <3>3. g[i - 1][Parent[c]] = g[N][Parent[c]]
      BY <1>7, <3>1, <3>2
    <3>. QED
      BY <2>4, <2>5, <2>7, <3>3 DEF up
  <2>. QED
    BY <2>6, <2>7
<1>9. g[N] \in D
  BY <1>1, <1>5
<1>10. g[N] = [c \in Comments |-> up(g[N], c)]
  BY <1>8, <1>9
<1>. QED
  BY <1>10 DEF up, IsAncestry

(* What Ancestors is: the parent and its ancestors, all of them earlier in *)
(* the thread.                                                             *)
LEMMA AncestorsOf ==
  ASSUME NEW c \in Comments
  PROVE  Ancestors[c] = IF Parent[c] = None THEN {}
                        ELSE {Parent[c]} \cup Ancestors[Parent[c]]
<1>1. IsAncestry(Ancestors)
  BY AncestryExists DEF IsAncestry, Ancestors
<1>. QED
  BY <1>1 DEF IsAncestry

LEMMA AncestorsEarlier ==
  ASSUME NEW i \in 1 .. Len(Thread)
  PROVE  Ancestors[Thread[i]] \subseteq {Thread[j] : j \in 1 .. i - 1}
<1>. DEFINE N == Len(Thread)
            Before(n) == {Thread[j] : j \in 1 .. n - 1}
            S == {n \in 0 .. N : \A m \in 1 .. n : Ancestors[Thread[m]] \subseteq Before(m)}
<1>1. N \in Nat /\ 0 \in S
  BY ThreadFacts
<1>2. ASSUME NEW n \in 0 .. N - 1, n \in S
      PROVE  n + 1 \in S
  <2>. DEFINE c == Thread[n + 1]
  <2>1. n + 1 \in 1 .. N /\ n + 1 \in 0 .. N /\ c \in Comments
    BY <1>1, ThreadFacts
  <2>2. Ancestors[c] \subseteq Before(n + 1)
    <3>1. CASE Parent[c] = None
      BY <2>1, <3>1, AncestorsOf
    <3>2. CASE Parent[c] # None
      <4>1. PICK p \in 1 .. (n + 1) - 1 : Thread[p] = Parent[c]
        BY <2>1, <3>2, ParentsFirst
      <4>2. p \in 1 .. n
        BY <1>1, <4>1
      <4>3. Ancestors[Parent[c]] \subseteq Before(p)
        BY <1>2, <4>1, <4>2
      <4>4. Before(p) \cup {Thread[p]} \subseteq Before(n + 1)
        BY <1>1, <4>2
      <4>5. Ancestors[c] = {Parent[c]} \cup Ancestors[Parent[c]]
        BY <2>1, <3>2, AncestorsOf
      <4>. HIDE DEF c, Before
      <4>. QED
        BY <4>1, <4>3, <4>4, <4>5
    <3>. QED
      BY <3>1, <3>2
  <2>3. \A m \in 1 .. n + 1 : m \in 1 .. n \/ m = n + 1
    BY <1>1
  <2>. HIDE DEF Before
  <2>. QED
    BY <1>2, <2>1, <2>2, <2>3
<1>3. N \in S
  <2>. HIDE DEF S, N
  <2>1. 0 .. N \subseteq S
    BY <1>1, <1>2, BoundedInduction
  <2>. QED
    BY <1>1, <2>1
<1>. QED
  BY <1>3

(* A comment's ancestors are one more than its parent's.                   *)
LEMMA AncestorsFinite ==
  ASSUME NEW c \in Comments
  PROVE  IsFiniteSet(Ancestors[c])
<1>1. PICK i \in 1 .. Len(Thread) : Thread[i] = c
  BY ThreadFacts
<1>2. Ancestors[c] \subseteq {Thread[j] : j \in 1 .. i - 1}
  BY <1>1, AncestorsEarlier
<1>3. IsFiniteSet(1 .. i - 1)
  BY FS_Interval
<1>4. IsFiniteSet({Thread[j] : j \in 1 .. i - 1})
  <2>1. [j \in 1 .. i - 1 |-> Thread[j]]
            \in Surjection(1 .. i - 1, {Thread[j] : j \in 1 .. i - 1})
    BY DEF Surjection
  <2>. QED
    BY <1>3, <2>1, FS_Surjection
<1>. QED
  BY <1>2, <1>4, FS_Subset

LEMMA AncestorsCount ==
  ASSUME NEW c \in Comments
  PROVE  Cardinality(Ancestors[c]) =
            IF Parent[c] = None THEN 0 ELSE Cardinality(Ancestors[Parent[c]]) + 1
<1>1. CASE Parent[c] = None
  BY <1>1, AncestorsOf, FS_EmptySet
<1>2. CASE Parent[c] # None
  <2>. DEFINE q == Parent[c]
  <2>1. q \in Comments
    BY <1>2, ThreadFacts
  <2>2. q \notin Ancestors[q]
    <3>1. PICK i \in 1 .. Len(Thread) : Thread[i] = q
      BY <2>1, ThreadFacts
    <3>2. Ancestors[q] \subseteq {Thread[j] : j \in 1 .. i - 1}
      BY <3>1, AncestorsEarlier
    <3>3. \A j \in 1 .. i - 1 : Thread[j] # Thread[i]
      BY ThreadFacts
    <3>. QED
      BY <3>1, <3>2, <3>3
  <2>3. Ancestors[c] = Ancestors[q] \cup {q}
    BY <1>2, AncestorsOf
  <2>. QED
    BY <1>2, <2>1, <2>2, <2>3, AncestorsFinite, FS_AddElement
<1>. QED
  BY <1>1, <1>2

-----------------------------------------------------------------------------
(* What the site lists is a thread, too: every comment comes with the one  *)
(* it answers.                                                             *)
Closed(S) == \A c \in S : Parent[c] \in S \cup {None}

(* A list of comments in thread order, none twice.                         *)
IsThread(comments) ==
  /\ comments \in Seq(Comments)
  /\ \A i, j \in 1 .. Len(comments) : comments[i] = comments[j] => i = j
  /\ InThreadOrder(comments)

LEMMA ListedIsThread ==
  ASSUME NEW S \in SUBSET Comments, Closed(S)
  PROVE  IsThread(Listed(S)) /\ ToSet(Listed(S)) = S
<1>. DEFINE P == {i \in DOMAIN Thread : Thread[i] \in S}
            d == Listed(S)
            N == Len(Thread)
            L == Len(d)
<1>1. d = Picked(Thread, P)
  BY DEF Listed
<1>2. d \in Seq(Comments) /\ \E at : PicksUpTo(at, Thread, P, N, d)
  <2>. HIDE DEF P, d
  <2>1. Thread \in Seq(Comments)
    BY ThreadFacts
  <2>2. /\ Picked(Thread, P) \in Seq(Comments)
        /\ \E at : PicksUpTo(at, Thread, P, Len(Thread), Picked(Thread, P))
    BY <2>1, PickedOrder
  <2>. QED
    BY <1>1, <2>2
<1>. HIDE DEF d
<1>3. L \in Nat /\ N \in Nat /\ DOMAIN d = 1 .. L /\ DOMAIN Thread = 1 .. N
  BY <1>2, ThreadFacts
<1>4. PICK at : PicksUpTo(at, Thread, P, N, d)
  BY <1>2
<1>5. /\ \A k \in 1 .. L : at[k] \in 1 .. N /\ d[k] = Thread[at[k]] /\ d[k] \in S
      /\ \A k, l \in 1 .. L : k < l => at[k] < at[l]
      /\ \A i \in 1 .. N : Thread[i] \in S => \E k \in 1 .. L : at[k] = i
  BY <1>3, <1>4 DEF PicksUpTo
<1>t. /\ \A i \in 1 .. N : Thread[i] \in Comments
      /\ \A i, j \in 1 .. N : Thread[i] = Thread[j] => i = j
      /\ \A c \in Comments : \E i \in 1 .. N : Thread[i] = c
  BY ThreadFacts
<1>. HIDE DEF L, N, P
<1>6. ASSUME NEW k \in 1 .. L, NEW l \in 1 .. L, at[k] < at[l]
      PROVE  k < l
  <2>1. ~ l < k
    BY <1>3, <1>5, <1>6
  <2>2. k # l
    BY <1>3, <1>5, <1>6
  <2>. QED
    BY <1>3, <2>1, <2>2
<1>7. ASSUME NEW i \in 1 .. L, NEW j \in 1 .. L, d[i] = d[j]
      PROVE  i = j
  <2>1. at[i] = at[j]
    BY <1>5, <1>7, <1>t
  <2>. QED
    BY <1>3, <1>5, <2>1
<1>8. ToSet(d) = S
  <2>1. \A c \in S : \E k \in 1 .. L : d[k] = c
    BY <1>5, <1>t
  <2>2. \A k \in 1 .. L : d[k] \in S
    BY <1>5
  <2>. QED
    BY <1>3, <2>1, <2>2 DEF ToSet
<1>9. ASSUME NEW i \in 1 .. L, Parent[d[i]] # None
      PROVE  \E p \in 1 .. i - 1 :
                /\ d[p] = Parent[d[i]]
                /\ \A k \in p + 1 .. i - 1 : \E q \in p .. k - 1 : d[q] = Parent[d[k]]
  <2>1. at[i] \in 1 .. N /\ d[i] = Thread[at[i]] /\ Parent[d[i]] \in S
    BY <1>5, <1>9 DEF Closed
  <2>2. PICK b \in 1 .. at[i] - 1 :
           /\ Thread[b] = Parent[d[i]]
           /\ \A k \in b + 1 .. at[i] - 1 : \E q \in b .. k - 1 : Thread[q] = Parent[Thread[k]]
    BY <1>3, <1>9, <2>1, ThreadAssumption DEF ThreadAssumption, InThreadOrder
  <2>3. b \in 1 .. N /\ Thread[b] \in S
    BY <1>3, <2>1, <2>2
  <2>4. PICK p \in 1 .. L : at[p] = b
    BY <1>5, <2>3
  <2>5. p < i
    BY <1>6, <2>1, <2>2, <2>4
  <2>6. ASSUME NEW k \in p + 1 .. i - 1
        PROVE  \E q \in p .. k - 1 : d[q] = Parent[d[k]]
    <3>1. k \in 1 .. L /\ p < k /\ k < i
      BY <1>3, <2>5
    <3>2. b < at[k] /\ at[k] < at[i] /\ at[k] \in 1 .. N
      BY <1>5, <2>4, <3>1
    <3>3. PICK m \in b .. at[k] - 1 : Thread[m] = Parent[Thread[at[k]]]
      BY <2>1, <2>2, <2>3, <3>2
    <3>4. m \in 1 .. N /\ Thread[m] \in Comments
      BY <1>3, <1>t, <2>3, <3>2
    <3>5. Thread[m] \in S
      <4>1. Thread[m] = Parent[d[k]] /\ d[k] \in S
        BY <1>5, <3>1, <3>3
      <4>. QED
        BY <3>4, <4>1, ThreadFacts DEF Closed
    <3>6. PICK q \in 1 .. L : at[q] = m
      BY <1>5, <3>4, <3>5
    <3>7. q < k
      BY <1>6, <3>1, <3>2, <3>3, <3>6
    <3>8. p <= q
      <4>1. ~ q < p
        BY <1>5, <2>3, <2>4, <3>3, <3>4, <3>6
      <4>. QED
        BY <4>1
    <3>. QED
      BY <1>5, <3>1, <3>3, <3>6, <3>7, <3>8
  <2>7. p \in 1 .. i - 1 /\ d[p] = Parent[d[i]]
    BY <1>3, <1>5, <2>2, <2>4, <2>5
  <2>. QED
    BY <2>6, <2>7
<1>10. InThreadOrder(d)
  BY <1>3, <1>9 DEF InThreadOrder
<1>11. IsThread(d)
  BY <1>2, <1>7, <1>10 DEF IsThread, L
<1>. QED
  BY <1>8, <1>11 DEF d

-----------------------------------------------------------------------------
(* A node stands under the node of the comment it answers, one level       *)
(* deeper; a root is on the first level.                                   *)
Placed(nodes, i) ==
  IF Parent[nodes[i].id] = None THEN nodes[i].level = 1
  ELSE \E p \in 1 .. i - 1 : /\ nodes[p].id = Parent[nodes[i].id]
                             /\ nodes[i].level = nodes[p].level + 1
                             /\ Under(nodes, i, p)

(* The tree of the first n comments.                                       *)
TreeOf(nodes, comments, n, collapsed, seen) ==
  /\ nodes \in Seq(Nodes) /\ Len(nodes) = n
  /\ \A i \in 1 .. n :
        /\ nodes[i].id = comments[i]
        /\ nodes[i].isUnread = IsUnread(comments[i], seen)
        /\ nodes[i].isExpanded = (nodes[i].level > 2 \/ comments[i] \notin collapsed)
        /\ Placed(nodes, i)

LEMMA NodeFields ==
  ASSUME NEW nodes \in Seq(Nodes), NEW i \in 1 .. Len(nodes)
  PROVE  /\ nodes[i] \in Nodes /\ nodes[i].id \in Comments /\ nodes[i].level \in Nat \ {0}
         /\ nodes[i].isExpanded \in BOOLEAN /\ nodes[i].isUnread \in BOOLEAN
<1>1. nodes[i] \in Nodes
  OBVIOUS
<1>. QED
  BY <1>1 DEF Nodes

(* The comment that the next one answers is on the right edge, where       *)
(* addChild looks for it.                                                  *)
LEMMA ParentOnEdge ==
  ASSUME NEW comments, IsThread(comments), NEW n \in Nat, n + 1 <= Len(comments),
         NEW nodes, NEW collapsed, NEW seen, TreeOf(nodes, comments, n, collapsed, seen),
         Parent[comments[n + 1]] # None
  PROVE  \E p \in 1 .. n : /\ comments[p] = Parent[comments[n + 1]]
                           /\ \A k \in p + 1 .. n : nodes[k].level > nodes[p].level
<1>. DEFINE L == Len(comments)
<1>1. L \in Nat /\ DOMAIN comments = 1 .. L
  BY DEF IsThread
<1>2. PICK p \in 1 .. (n + 1) - 1 :
         /\ comments[p] = Parent[comments[n + 1]]
         /\ \A k \in p + 1 .. (n + 1) - 1 :
               \E q \in p .. k - 1 : comments[q] = Parent[comments[k]]
  BY <1>1 DEF IsThread, InThreadOrder
<1>3. p \in 1 .. n /\ \A k \in p + 1 .. n : \E q \in p .. k - 1 : comments[q] = Parent[comments[k]]
  BY <1>2
<1>4. \A k \in 1 .. n : /\ nodes[k].level \in Nat /\ nodes[k].id = comments[k]
                        /\ Placed(nodes, k) /\ comments[k] \in Comments
  BY <1>1, NodeFields DEF TreeOf, IsThread
<1>. DEFINE S == {m \in 0 .. n : \A k \in p + 1 .. m : nodes[k].level > nodes[p].level}
<1>5. 0 \in S
  BY <1>3
<1>6. ASSUME NEW m \in 0 .. n - 1, m \in S
      PROVE  m + 1 \in S
  <2>1. m + 1 \in 0 .. n
    OBVIOUS
  <2>2. CASE m + 1 \in p + 1 .. n
    <3>0. \E q \in p .. (m + 1) - 1 : comments[q] = Parent[comments[m + 1]]
      BY <1>3, <2>2, Zenon
    <3>1. PICK q \in p .. m : comments[q] = Parent[comments[m + 1]]
      BY <3>0
    <3>2. m + 1 \in 1 .. n /\ q \in 1 .. n /\ q \in 1 .. L /\ comments[q] \in Comments
      BY <1>1, <1>3, <1>4
    <3>3. Parent[nodes[m + 1].id] = comments[q] /\ comments[q] # None
      BY <1>4, <3>1, <3>2, ThreadFacts
    <3>4. PICK r \in 1 .. (m + 1) - 1 :
             nodes[r].id = comments[q] /\ nodes[m + 1].level = nodes[r].level + 1
      BY <1>4, <3>2, <3>3 DEF Placed
    <3>5. r \in 1 .. n /\ r \in 1 .. L
      BY <1>1
    <3>6. r = q
      BY <1>4, <3>2, <3>4, <3>5 DEF IsThread
    <3>7. nodes[q].level >= nodes[p].level
      BY <1>3, <1>4, <1>6, <3>1, <3>2
    <3>8. nodes[m + 1].level > nodes[p].level
      BY <1>3, <1>4, <3>2, <3>4, <3>6, <3>7
    <3>9. \A k \in p + 1 .. m + 1 : k \in p + 1 .. m \/ k = m + 1
      OBVIOUS
    <3>. QED
      BY <1>6, <2>1, <3>8, <3>9
  <2>3. CASE m + 1 \notin p + 1 .. n
    <3>1. p + 1 .. m + 1 = {}
      BY <1>3, <2>3
    <3>. QED
      BY <2>1, <3>1
  <2>. QED
    BY <2>2, <2>3
<1>7. n \in S
  <2>. HIDE DEF S
  <2>1. 0 .. n \subseteq S
    BY <1>5, <1>6, BoundedInduction
  <2>. QED
    BY <2>1
<1>. QED
  BY <1>3, <1>2, <1>7

(* A node at the end disturbs no other one.                                *)
LEMMA AppendKeepsPlaced ==
  ASSUME NEW nodes \in Seq(Nodes), NEW e \in Nodes, NEW i \in 1 .. Len(nodes), Placed(nodes, i)
  PROVE  Placed(Append(nodes, e), i)
<1>. DEFINE more == Append(nodes, e)
<1>1. \A k \in 1 .. Len(nodes) : more[k] = nodes[k]
  OBVIOUS
<1>2. \A k \in 1 .. i : k \in 1 .. Len(nodes)
  OBVIOUS
<1>. HIDE DEF more
<1>3. ASSUME NEW p \in 1 .. i - 1, Under(nodes, i, p)
      PROVE  Under(more, i, p)
  BY <1>1, <1>2, <1>3 DEF Under
<1>4. Placed(more, i)
  BY <1>1, <1>2, <1>3 DEF Placed
<1>. QED
  BY <1>4 DEF more

(* addChild puts the next comment where it belongs and loses none.         *)
LEMMA AddNodeGrows ==
  ASSUME NEW comments, IsThread(comments), NEW n \in Nat, n + 1 <= Len(comments),
         NEW nodes, NEW collapsed, NEW seen, TreeOf(nodes, comments, n, collapsed, seen)
  PROVE  TreeOf(AddNode(nodes, comments[n + 1], collapsed, seen),
                comments, n + 1, collapsed, seen)
<1>. DEFINE c == comments[n + 1]
            node(level, isExpanded) ==
              [id |-> c, level |-> level, isExpanded |-> isExpanded,
               isUnread |-> IsUnread(c, seen)]
            more == AddNode(nodes, c, collapsed, seen)
<1>1. c \in Comments /\ nodes \in Seq(Nodes) /\ Len(nodes) = n /\ IsUnread(c, seen) \in BOOLEAN
  BY DEF IsThread, TreeOf, IsUnread
<1>2. \A k \in 1 .. n : nodes[k].id = comments[k] /\ nodes[k].level \in Nat \ {0}
  BY <1>1, NodeFields DEF TreeOf
<1>3. ASSUME NEW level \in Nat \ {0}, NEW expanded \in BOOLEAN,
             more = Append(nodes, node(level, expanded)),
             expanded = (level > 2 \/ c \notin collapsed),
             Placed(more, n + 1)
      PROVE  TreeOf(more, comments, n + 1, collapsed, seen)
  <2>. DEFINE e == node(level, expanded)
  <2>1. e \in Nodes
    BY <1>1 DEF Nodes
  <2>2. e.id = c /\ e.level = level /\ e.isExpanded = expanded /\ e.isUnread = IsUnread(c, seen)
    OBVIOUS
  <2>. HIDE DEF e, more
  <2>3. /\ more \in Seq(Nodes) /\ Len(more) = n + 1 /\ more[n + 1] = e
        /\ \A k \in 1 .. n : more[k] = nodes[k]
    BY <1>1, <1>3, <2>1 DEF e
  <2>4. \A k \in 1 .. n : Placed(more, k)
    BY <1>1, <1>3, <2>1, AppendKeepsPlaced DEF TreeOf, e
  <2>5. ASSUME NEW k \in 1 .. n + 1
        PROVE  /\ more[k].id = comments[k]
               /\ more[k].isUnread = IsUnread(comments[k], seen)
               /\ more[k].isExpanded = (more[k].level > 2 \/ comments[k] \notin collapsed)
               /\ Placed(more, k)
    <3>1. CASE k = n + 1
      BY <1>3, <2>2, <2>3, <3>1
    <3>2. CASE k \in 1 .. n
      BY <2>3, <2>4, <3>2 DEF TreeOf
    <3>. QED
      BY <3>1, <3>2
  <2>. QED
    BY <2>3, <2>5 DEF TreeOf
<1>4. ASSUME Parent[c] = None
      PROVE  TreeOf(more, comments, n + 1, collapsed, seen)
  <2>. DEFINE expanded == c \notin collapsed
  <2>1. more = Append(nodes, node(1, expanded))
    BY <1>4 DEF AddNode
  <2>2. more[n + 1].id = c /\ more[n + 1].level = 1
    BY <1>1, <2>1
  <2>. HIDE DEF more
  <2>3. Placed(more, n + 1)
    BY <1>4, <2>2 DEF Placed
  <2>4. 1 \in Nat \ {0} /\ expanded \in BOOLEAN /\ expanded = (1 > 2 \/ c \notin collapsed)
    OBVIOUS
  <2>. HIDE DEF expanded, node
  <2>. QED
    BY <1>3, <2>1, <2>3, <2>4
<1>5. ASSUME Parent[c] # None
      PROVE  TreeOf(more, comments, n + 1, collapsed, seen)
  <2>1. PICK p \in 1 .. n : /\ comments[p] = Parent[c]
                            /\ \A k \in p + 1 .. n : nodes[k].level > nodes[p].level
    BY <1>5, ParentOnEdge
  <2>. DEFINE at == {q \in RightEdge(nodes) : nodes[q].id = Parent[c]}
              level == nodes[p].level + 1
              expanded == (nodes[p].level > 1 \/ c \notin collapsed)
  <2>2. at = {p}
    <3>1. DOMAIN nodes = 1 .. n
      BY <1>1
    <3>2. p \in RightEdge(nodes) /\ nodes[p].id = Parent[c]
      BY <1>1, <1>2, <2>1, <3>1 DEF RightEdge
    <3>3. ASSUME NEW q \in at
          PROVE  q = p
      <4>1. q \in 1 .. n /\ comments[q] = comments[p]
        BY <1>2, <2>1, <3>1 DEF RightEdge
      <4>2. q \in 1 .. Len(comments) /\ p \in 1 .. Len(comments)
        BY <4>1 DEF IsThread
      <4>. QED
        BY <4>1, <4>2 DEF IsThread
    <3>. QED
      BY <3>2, <3>3
  <2>3. more = Append(nodes, node(level, expanded))
    BY <1>5, <2>2 DEF AddNode
  <2>4. level \in Nat \ {0} /\ expanded \in BOOLEAN /\ expanded = (level > 2 \/ c \notin collapsed)
    BY <1>2
  <2>5. more[n + 1].id = c /\ more[n + 1].level = level /\ \A k \in 1 .. n : more[k] = nodes[k]
    BY <1>1, <2>3
  <2>. HIDE DEF more
  <2>6. Under(more, n + 1, p)
    <3>1. \A k \in p + 1 .. n + 1 : k \in p + 1 .. n \/ k = n + 1
      OBVIOUS
    <3>2. \A k \in p + 1 .. n : more[k] = nodes[k]
      BY <2>5
    <3>3. more[p] = nodes[p] /\ nodes[p].level \in Nat
      BY <1>2, <2>1, <2>5
    <3>4. ASSUME NEW k \in p + 1 .. n + 1
          PROVE  more[k].level > more[p].level
      <4>1. CASE k = n + 1
        BY <2>5, <3>3, <4>1
      <4>2. CASE k \in p + 1 .. n
        BY <2>1, <3>2, <3>3, <4>2
      <4>. QED
        BY <3>1, <4>1, <4>2
    <3>. QED
      BY <2>1, <3>4 DEF Under
  <2>7. Placed(more, n + 1)
    <3>1. p \in 1 .. (n + 1) - 1
      BY <2>1
    <3>2. more[p] = nodes[p] /\ nodes[p].id = Parent[c]
      BY <1>2, <2>1, <2>5
    <3>. QED
      BY <1>5, <2>5, <2>6, <3>1, <3>2 DEF Placed
  <2>. HIDE DEF level, expanded, node
  <2>. QED
    BY <1>3, <2>3, <2>4, <2>7
<1>. QED
  BY <1>4, <1>5

LEMMA AddNodeType ==
  ASSUME NEW nodes \in Seq(Nodes), NEW c \in Comments, NEW collapsed, NEW seen
  PROVE  AddNode(nodes, c, collapsed, seen) \in Seq(Nodes)
<1>. DEFINE node(level, isExpanded) ==
              [id |-> c, level |-> level, isExpanded |-> isExpanded,
               isUnread |-> IsUnread(c, seen)]
            at == {i \in RightEdge(nodes) : nodes[i].id = Parent[c]}
            i == CHOOSE i \in at : TRUE
<1>1. ASSUME NEW level \in Nat \ {0}, NEW expanded \in BOOLEAN
      PROVE  Append(nodes, node(level, expanded)) \in Seq(Nodes)
  <2>1. node(level, expanded) \in Nodes
    BY DEF Nodes, IsUnread
  <2>. HIDE DEF node
  <2>. QED
    BY <2>1
<1>2. CASE Parent[c] = None
  <2>. DEFINE expanded == c \notin collapsed
  <2>1. AddNode(nodes, c, collapsed, seen) = Append(nodes, node(1, expanded))
    BY <1>2 DEF AddNode
  <2>2. 1 \in Nat \ {0} /\ expanded \in BOOLEAN
    OBVIOUS
  <2>. HIDE DEF node, expanded
  <2>. QED
    BY <1>1, <2>1, <2>2
<1>3. CASE Parent[c] # None /\ at = {}
  BY <1>3 DEF AddNode
<1>4. CASE Parent[c] # None /\ at # {}
  <2>. DEFINE level == nodes[i].level + 1
              expanded == (nodes[i].level > 1 \/ c \notin collapsed)
  <2>1. i \in 1 .. Len(nodes)
    <3>1. i \in at
      BY <1>4
    <3>. HIDE DEF i
    <3>. QED
      BY <3>1 DEF RightEdge
  <2>2. AddNode(nodes, c, collapsed, seen) = Append(nodes, node(level, expanded))
    BY <1>4 DEF AddNode
  <2>. HIDE DEF i
  <2>3. level \in Nat \ {0} /\ expanded \in BOOLEAN
    BY <2>1, NodeFields
  <2>. HIDE DEF node, level, expanded
  <2>. QED
    BY <1>1, <2>2, <2>3
<1>. QED
  BY <1>2, <1>3, <1>4

(* The trees that createListNode goes through.                             *)
TreeUpTo(comments, collapsed, seen) ==
  CHOOSE upTo : upTo = [n \in 0 .. Len(comments) |->
      IF n = 0 THEN <<>> ELSE AddNode(upTo[n - 1], comments[n], collapsed, seen)]

LEMMA TreeSteps ==
  ASSUME NEW comments \in Seq(Comments), NEW collapsed, NEW seen
  PROVE  LET up == TreeUpTo(comments, collapsed, seen)
         IN  /\ Tree(comments, collapsed, seen) = up[Len(comments)]
             /\ up[0] = <<>>
             /\ \A n \in 1 .. Len(comments) :
                   up[n] = AddNode(up[n - 1], comments[n], collapsed, seen)
<1>. DEFINE D == Seq(Nodes)
            N == Len(comments)
            base == <<>>
            add(x, n) == AddNode(x, comments[n], collapsed, seen)
            step == [n \in 1 .. N |-> [x \in D |-> add(x, n)]]
            up == TreeUpTo(comments, collapsed, seen)
<1>1. base \in D /\ N \in Nat /\ 0 \in 0 .. N
  OBVIOUS
<1>2. step \in StepsOn(N, D)
  <2>1. \A n \in 1 .. N, x \in D : add(x, n) \in D
    BY AddNodeType
  <2>. HIDE DEF D, N, add
  <2>. QED
    BY <2>1 DEF StepsOn
<1>3. PICK g : Iterate(g, N, D, base, step)
  <2>. HIDE DEF D, N, base, step
  <2>. QED
    BY <1>1, <1>2, IterateExists
<1>4. \A n \in 1 .. N : n \in 0 .. N /\ n - 1 \in 0 .. N /\ n # 0
  BY <1>1
<1>5. \A n \in 1 .. N : g[n] = add(g[n - 1], n)
  <2>. HIDE DEF add
  <2>. QED
    BY <1>3, <1>4 DEF Iterate
<1>6. g = [n \in 0 .. N |-> IF n = 0 THEN <<>> ELSE add(g[n - 1], n)]
  <2>. HIDE DEF add, N
  <2>1. ASSUME NEW n \in 0 .. N PROVE g[n] = IF n = 0 THEN <<>> ELSE add(g[n - 1], n)
    <3>1. CASE n = 0
      BY <1>3, <3>1 DEF Iterate
    <3>2. CASE n \in 1 .. N
      BY <1>4, <1>5, <3>2
    <3>. QED
      BY <1>1, <3>1, <3>2
  <2>2. g = [n \in 0 .. N |-> g[n]]
    BY <1>3 DEF Iterate
  <2>. QED
    BY <2>1, <2>2
<1>7. up = [n \in 0 .. N |-> IF n = 0 THEN <<>> ELSE add(up[n - 1], n)]
  BY <1>6 DEF TreeUpTo
<1>8. Tree(comments, collapsed, seen) = up[N]
  BY DEF Tree, TreeUpTo
<1>. HIDE DEF up, add
<1>9. up[0] = <<>>
  BY <1>1, <1>7
<1>10. \A n \in 1 .. N : up[n] = add(up[n - 1], n)
  BY <1>4, <1>7
<1>. QED
  BY <1>8, <1>9, <1>10 DEF up, add

(* createListNode makes the tree of all the comments it is given.          *)
LEMMA TreeGrows ==
  ASSUME NEW comments, IsThread(comments), NEW collapsed, NEW seen
  PROVE  TreeOf(Tree(comments, collapsed, seen), comments, Len(comments), collapsed, seen)
<1>. DEFINE N == Len(comments)
            up == TreeUpTo(comments, collapsed, seen)
            S == {n \in 0 .. N : TreeOf(up[n], comments, n, collapsed, seen)}
<1>1. N \in Nat /\ N \in 0 .. N /\ 0 \in 0 .. N /\ comments \in Seq(Comments)
  BY DEF IsThread
<1>2. /\ Tree(comments, collapsed, seen) = up[N]
      /\ up[0] = <<>>
      /\ \A n \in 1 .. N : up[n] = AddNode(up[n - 1], comments[n], collapsed, seen)
  BY <1>1, TreeSteps
<1>. HIDE DEF up
<1>3. 0 \in S
  <2>1. <<>> \in Seq(Nodes) /\ Len(<<>>) = 0
    OBVIOUS
  <2>2. TreeOf(<<>>, comments, 0, collapsed, seen)
    BY <2>1 DEF TreeOf
  <2>. QED
    BY <1>1, <1>2, <2>2
<1>4. ASSUME NEW n \in 0 .. N - 1, n \in S
      PROVE  n + 1 \in S
  <2>1. n \in Nat /\ n + 1 \in 1 .. N /\ n + 1 \in 0 .. N /\ n + 1 <= N /\ (n + 1) - 1 = n
    BY <1>1
  <2>2. up[n + 1] = AddNode(up[n], comments[n + 1], collapsed, seen)
    BY <1>2, <2>1
  <2>3. TreeOf(up[n + 1], comments, n + 1, collapsed, seen)
    BY <1>4, <2>1, <2>2, AddNodeGrows
  <2>. QED
    BY <2>1, <2>3
<1>5. N \in S
  <2>. HIDE DEF S, N
  <2>1. 0 .. N \subseteq S
    BY <1>1, <1>3, <1>4, BoundedInduction
  <2>. QED
    BY <1>1, <2>1
<1>. QED
  BY <1>2, <1>5

-----------------------------------------------------------------------------
(* A tree by itself: no comment twice, each one in its place.              *)
IsTree(nodes) ==
  /\ nodes \in Seq(Nodes)
  /\ \A i, j \in 1 .. Len(nodes) : nodes[i].id = nodes[j].id => i = j
  /\ \A i \in 1 .. Len(nodes) : Placed(nodes, i)

(* The node of the comment that i answers.                                 *)
LEMMA ParentNode ==
  ASSUME NEW nodes, IsTree(nodes), NEW i \in 1 .. Len(nodes), Parent[nodes[i].id] # None
  PROVE  \E p \in 1 .. i - 1 :
            /\ p \in 1 .. Len(nodes)
            /\ nodes[p].id = Parent[nodes[i].id]
            /\ nodes[i].level = nodes[p].level + 1
            /\ Under(nodes, i, p)
            /\ Ancestors[nodes[i].id] = {nodes[p].id} \cup Ancestors[nodes[p].id]
<1>1. nodes \in Seq(Nodes) /\ nodes[i].id \in Comments
  BY NodeFields DEF IsTree
<1>2. PICK p \in 1 .. i - 1 : /\ nodes[p].id = Parent[nodes[i].id]
                              /\ nodes[i].level = nodes[p].level + 1
                              /\ Under(nodes, i, p)
  BY DEF IsTree, Placed
<1>3. p \in 1 .. Len(nodes)
  BY <1>1
<1>4. Ancestors[nodes[i].id] = {nodes[p].id} \cup Ancestors[nodes[p].id]
  BY <1>1, <1>2, AncestorsOf
<1>. QED
  BY <1>2, <1>3, <1>4

(* A node's indent is the number of comments it answers, near or far.      *)
LEMMA LevelIsDepth ==
  ASSUME NEW nodes, IsTree(nodes), NEW i \in 1 .. Len(nodes)
  PROVE  nodes[i].level = Cardinality(Ancestors[nodes[i].id]) + 1
<1>. DEFINE N == Len(nodes)
            Deep(m) == nodes[m].level = Cardinality(Ancestors[nodes[m].id]) + 1
            S == {n \in 0 .. N : \A m \in 1 .. n : Deep(m)}
<1>1. N \in Nat /\ 0 \in 0 .. N /\ nodes \in Seq(Nodes)
  BY DEF IsTree
<1>2. 0 \in S
  BY <1>1
<1>3. ASSUME NEW n \in 0 .. N - 1, n \in S
      PROVE  n + 1 \in S
  <2>1. n + 1 \in 1 .. N /\ n + 1 \in 0 .. N /\ \A m \in 1 .. n + 1 : m \in 1 .. n \/ m = n + 1
    BY <1>1
  <2>. DEFINE j == n + 1
              c == nodes[j].id
  <2>2. c \in Comments
    BY <1>1, <2>1, NodeFields
  <2>3. CASE Parent[c] = None
    <3>1. Cardinality(Ancestors[c]) = 0
      BY <2>2, <2>3, AncestorsCount
    <3>2. nodes[j].level = 1
      BY <2>1, <2>3 DEF IsTree, Placed
    <3>. QED
      BY <1>3, <2>1, <3>1, <3>2
  <2>4. CASE Parent[c] # None
    <3>1. PICK p \in 1 .. j - 1 : /\ nodes[p].id = Parent[c]
                                  /\ nodes[j].level = nodes[p].level + 1
      BY <2>1, <2>4, ParentNode
    <3>2. Cardinality(Ancestors[c]) = Cardinality(Ancestors[Parent[c]]) + 1
      BY <2>2, <2>4, AncestorsCount
    <3>3. p \in 1 .. n
      BY <1>1
    <3>4. Deep(p)
      BY <1>3, <3>3
    <3>5. Deep(j)
      BY <3>1, <3>2, <3>4
    <3>. HIDE DEF Deep
    <3>. QED
      BY <1>3, <2>1, <3>5
  <2>. QED
    BY <2>3, <2>4
<1>4. 0 .. N \subseteq S
  <2>. HIDE DEF S, N
  <2>. QED
    BY <1>1, <1>2, <1>3, BoundedInduction
<1>5. N \in S
  BY <1>1, <1>4
<1>. QED
  BY <1>5

(* Among what follows a node, the deeper nodes up to the next one that is  *)
(* not are exactly the comments that answer it.                            *)
LEMMA UnderIsAnswer ==
  ASSUME NEW nodes, IsTree(nodes), NEW i \in 1 .. Len(nodes), NEW j \in 1 .. Len(nodes)
  PROVE  Under(nodes, j, i) <=> nodes[i].id \in Ancestors[nodes[j].id]
<1>. DEFINE N == Len(nodes)
            Good(m) == Under(nodes, m, i) <=> nodes[i].id \in Ancestors[nodes[m].id]
            S == {n \in 0 .. N : \A m \in 1 .. n : Good(m)}
<1>1. N \in Nat /\ 0 \in 0 .. N /\ nodes \in Seq(Nodes)
  BY DEF IsTree
<1>2. 0 \in S
  BY <1>1
<1>3. \A k \in 1 .. N : nodes[k].level \in Nat \ {0} /\ nodes[k].id \in Comments
  BY <1>1, NodeFields
<1>4. ASSUME NEW n \in 0 .. N - 1, n \in S
      PROVE  n + 1 \in S
  <2>1. n + 1 \in 1 .. N /\ n + 1 \in 0 .. N /\ \A m \in 1 .. n + 1 : m \in 1 .. n \/ m = n + 1
    BY <1>1
  <2>. DEFINE b == n + 1
              c == nodes[b].id
  <2>2. CASE Parent[c] = None
    <3>1. Ancestors[c] = {}
      BY <1>3, <2>1, <2>2, AncestorsOf
    <3>2. nodes[b].level = 1
      BY <2>1, <2>2 DEF IsTree, Placed
    <3>3. ~ Under(nodes, b, i)
      <4>. SUFFICES ASSUME Under(nodes, b, i) PROVE FALSE
        OBVIOUS
      <4>1. b \in i + 1 .. b
        BY <2>1 DEF Under
      <4>2. nodes[b].level > nodes[i].level
        BY <4>1 DEF Under
      <4>. QED
        BY <1>3, <3>2, <4>2
    <3>4. Good(b)
      BY <3>1, <3>3
    <3>. HIDE DEF Good
    <3>. QED
      BY <1>4, <2>1, <3>4
  <2>3. CASE Parent[c] # None
    <3>1. PICK p \in 1 .. b - 1 :
             /\ p \in 1 .. N
             /\ nodes[b].level = nodes[p].level + 1
             /\ Under(nodes, b, p)
             /\ Ancestors[c] = {nodes[p].id} \cup Ancestors[nodes[p].id]
      <4>1. b \in 1 .. Len(nodes) /\ Parent[nodes[b].id] # None
        BY <2>1, <2>3
      <4>. HIDE DEF b
      <4>. QED
        BY <4>1, ParentNode
    <3>2. p \in 1 .. n
      BY <1>1
    <3>3. Good(p)
      BY <1>4, <3>2
    <3>4. ASSUME nodes[i].id \in Ancestors[c]
          PROVE  Under(nodes, b, i)
      <4>1. CASE nodes[i].id = nodes[p].id
        <5>1. i = p
          BY <3>1, <4>1 DEF IsTree
        <5>. QED
          BY <3>1, <5>1
      <4>2. CASE nodes[i].id \in Ancestors[nodes[p].id]
        <5>1. Under(nodes, p, i)
          BY <3>3, <4>2
        <5>2. i < p /\ nodes[p].level > nodes[i].level /\ p < b
          BY <2>1, <3>1, <5>1 DEF Under
        <5>3. ASSUME NEW k \in i + 1 .. b
              PROVE  nodes[k].level > nodes[i].level
          <6>1. k \in 1 .. N
            BY <2>1
          <6>2. CASE k <= p
            BY <5>1, <6>2 DEF Under
          <6>3. CASE k > p
            <7>1. nodes[k].level > nodes[p].level
              BY <3>1, <6>3 DEF Under
            <7>. QED
              BY <1>3, <3>1, <5>2, <6>1, <7>1
          <6>. QED
            BY <6>2, <6>3
        <5>. QED
          BY <2>1, <5>2, <5>3 DEF Under
      <4>. QED
        BY <3>1, <3>4, <4>1, <4>2
    <3>5. ASSUME Under(nodes, b, i)
          PROVE  nodes[i].id \in Ancestors[c]
      <4>1. CASE i = p
        BY <3>1, <4>1
      <4>2. CASE i < p
        <5>1. Under(nodes, p, i)
          BY <3>1, <3>5, <4>2 DEF Under
        <5>. QED
          BY <3>1, <3>3, <5>1
      <4>3. CASE i > p
        <5>1. i < b /\ i \in p + 1 .. b /\ b \in i + 1 .. b
          BY <2>1, <3>1, <3>5, <4>3 DEF Under
        <5>2. nodes[i].level > nodes[p].level /\ nodes[b].level > nodes[i].level
          BY <3>1, <3>5, <5>1 DEF Under
        <5>. QED
          BY <1>3, <3>1, <5>2
      <4>. QED
        BY <4>1, <4>2, <4>3
    <3>6. Good(b)
      BY <3>4, <3>5
    <3>. HIDE DEF Good
    <3>. QED
      BY <1>4, <2>1, <3>6
  <2>. QED
    BY <2>2, <2>3
<1>5. 0 .. N \subseteq S
  <2>. HIDE DEF S, N
  <2>. QED
    BY <1>1, <1>2, <1>4, BoundedInduction
<1>6. N \in S
  BY <1>1, <1>5
<1>. QED
  BY <1>6

(* updateVisibleNodes shows a node when no comment it answers is collapsed.*)
LEMMA VisibleNodes ==
  ASSUME NEW nodes, IsTree(nodes)
  PROVE  /\ Visible(nodes) \in Seq(Nodes)
         /\ \A i \in 1 .. Len(nodes) :
               nodes[i] \in ToSet(Visible(nodes))
                   <=> Ancestors[nodes[i].id] \cap Collapsed(nodes) = {}
<1>. DEFINE N == Len(nodes)
            shown == {j \in DOMAIN nodes : \A i \in DOMAIN nodes :
                         Under(nodes, j, i) => nodes[i].isExpanded}
            list == Visible(nodes)
<1>1. nodes \in Seq(Nodes) /\ DOMAIN nodes = 1 .. N /\ N \in Nat
  BY DEF IsTree
<1>2. list \in Seq(Nodes) /\ \E at : PicksUpTo(at, nodes, shown, N, list)
  <2>1. list = Picked(nodes, shown)
    BY DEF Visible
  <2>. HIDE DEF shown, list
  <2>2. /\ Picked(nodes, shown) \in Seq(Nodes)
        /\ \E at : PicksUpTo(at, nodes, shown, Len(nodes), Picked(nodes, shown))
    BY <1>1, PickedOrder
  <2>. QED
    BY <2>1, <2>2
<1>. HIDE DEF list
<1>3. PICK at : PicksUpTo(at, nodes, shown, N, list)
  BY <1>2
<1>4. DOMAIN list = 1 .. Len(list)
  BY <1>2
<1>5. ASSUME NEW i \in 1 .. N
      PROVE  nodes[i] \in ToSet(list) <=> i \in shown
  <2>1. ASSUME i \in shown PROVE nodes[i] \in ToSet(list)
    <3>1. PICK k \in 1 .. Len(list) : at[k] = i
      BY <1>3, <2>1 DEF PicksUpTo
    <3>2. list[k] = nodes[i]
      BY <1>3, <3>1 DEF PicksUpTo
    <3>. QED
      BY <1>4, <3>2 DEF ToSet
  <2>2. ASSUME nodes[i] \in ToSet(list) PROVE i \in shown
    <3>1. PICK k \in 1 .. Len(list) : list[k] = nodes[i]
      BY <1>4, <2>2 DEF ToSet
    <3>2. at[k] \in 1 .. N /\ nodes[at[k]] = nodes[i] /\ at[k] \in shown
      BY <1>3, <3>1 DEF PicksUpTo
    <3>3. at[k] = i
      BY <3>2 DEF IsTree
    <3>. QED
      BY <3>2, <3>3
  <2>. QED
    BY <2>1, <2>2
<1>6. ASSUME NEW i \in 1 .. N
      PROVE  i \in shown <=> Ancestors[nodes[i].id] \cap Collapsed(nodes) = {}
  <2>1. \A k \in 1 .. N : Under(nodes, i, k) <=> nodes[k].id \in Ancestors[nodes[i].id]
    BY UnderIsAnswer
  <2>2. Collapsed(nodes) = {nodes[k].id : k \in {j \in 1 .. N : ~nodes[j].isExpanded}}
    BY <1>1 DEF Collapsed
  <2>. QED
    BY <1>1, <2>1, <2>2
<1>7. \A i \in 1 .. N :
         nodes[i] \in ToSet(list) <=> Ancestors[nodes[i].id] \cap Collapsed(nodes) = {}
  BY <1>5, <1>6
<1>. QED
  BY <1>2, <1>7 DEF list

(* What createListNode makes is a tree.                                    *)
LEMMA MadeIsTree ==
  ASSUME NEW comments, IsThread(comments), NEW collapsed, NEW seen
  PROVE  IsTree(Tree(comments, collapsed, seen))
<1>. DEFINE nodes == Tree(comments, collapsed, seen)
<1>1. TreeOf(nodes, comments, Len(comments), collapsed, seen)
  BY TreeGrows
<1>. HIDE DEF nodes
<1>2. nodes \in Seq(Nodes) /\ Len(nodes) = Len(comments)
  BY <1>1 DEF TreeOf
<1>3. \A i \in 1 .. Len(nodes) : Placed(nodes, i) /\ nodes[i].id = comments[i]
  BY <1>1 DEF TreeOf
<1>4. \A i, j \in 1 .. Len(nodes) : nodes[i].id = nodes[j].id => i = j
  BY <1>2, <1>3 DEF IsThread
<1>. QED
  BY <1>2, <1>3, <1>4 DEF IsTree, nodes

LEMMA CollapsedType ==
  ASSUME NEW nodes \in Seq(Nodes)
  PROVE  Collapsed(nodes) \subseteq Comments
<1>1. DOMAIN nodes = 1 .. Len(nodes)
  OBVIOUS
<1>. QED
  BY <1>1, NodeFields DEF Collapsed

(* Collapsing or expanding a comment moves no node.                        *)
Toggled(nodes, n) ==
  [i \in DOMAIN nodes |-> IF nodes[i].id = n.id
                          THEN [nodes[i] EXCEPT !.isExpanded = ~n.isExpanded]
                          ELSE nodes[i]]

LEMMA ToggledIsTree ==
  ASSUME NEW nodes, IsTree(nodes), NEW n \in Nodes
  PROVE  LET more == Toggled(nodes, n)
         IN  /\ IsTree(more) /\ Len(more) = Len(nodes)
             /\ \A i \in 1 .. Len(nodes) : /\ more[i].id = nodes[i].id
                                           /\ more[i].level = nodes[i].level
                                           /\ more[i].isUnread = nodes[i].isUnread
<1>. DEFINE N == Len(nodes)
            more == Toggled(nodes, n)
<1>1. nodes \in Seq(Nodes) /\ N \in Nat /\ DOMAIN nodes = 1 .. N
  BY DEF IsTree
<1>2. more = [i \in 1 .. N |-> IF nodes[i].id = n.id
                               THEN [nodes[i] EXCEPT !.isExpanded = ~n.isExpanded]
                               ELSE nodes[i]]
  BY <1>1 DEF Toggled
<1>. HIDE DEF more
<1>3. ASSUME NEW i \in 1 .. N
      PROVE  /\ more[i] \in Nodes /\ more[i].id = nodes[i].id
             /\ more[i].level = nodes[i].level /\ more[i].isUnread = nodes[i].isUnread
  <2>1. nodes[i] \in Nodes
    BY <1>1
  <2>2. CASE nodes[i].id = n.id
    <3>1. more[i] = [nodes[i] EXCEPT !.isExpanded = ~n.isExpanded]
      BY <1>2, <2>2
    <3>. QED
      BY <2>1, <3>1 DEF Nodes
  <2>3. CASE nodes[i].id # n.id
    BY <1>2, <2>1, <2>3
  <2>. QED
    BY <2>2, <2>3
<1>4. more \in Seq(Nodes) /\ Len(more) = N
  <2>1. more = [i \in 1 .. N |-> more[i]]
    BY <1>2
  <2>. QED
    BY <1>1, <1>3, <2>1
<1>5. ASSUME NEW i \in 1 .. N
      PROVE  Placed(more, i)
  <2>1. \A k \in 1 .. i : k \in 1 .. N
    OBVIOUS
  <2>2. ASSUME NEW p \in 1 .. i - 1, Under(nodes, i, p)
        PROVE  Under(more, i, p)
    BY <1>3, <2>1, <2>2 DEF Under
  <2>3. Placed(nodes, i)
    BY DEF IsTree
  <2>. QED
    BY <1>3, <2>1, <2>2, <2>3 DEF Placed
<1>6. IsTree(more)
  BY <1>3, <1>4, <1>5 DEF IsTree
<1>. QED
  BY <1>3, <1>4, <1>6 DEF more

-----------------------------------------------------------------------------
(* The inductive invariant: the nodes are a tree and the list is what it   *)
(* shows; they are comments of the post, and of the list that is loaded;   *)
(* what is collapsed at the top is remembered; and unless an effect is     *)
(* due, the tree is that of the comments and of what was seen.             *)
Structure == IsTree(rootNodes) /\ listItems = Visible(rootNodes)

Loaded ==
  /\ Closed(posted)
  /\ \A i \in 1 .. Len(rootNodes) : rootNodes[i].id \in posted
  /\ details # None =>
        /\ IsThread(details) /\ ToSet(details) \subseteq posted
        /\ \A i \in 1 .. Len(rootNodes) : rootNodes[i].id \in ToSet(details)

Remembered ==
  \A i \in 1 .. Len(rootNodes) :
      ~rootNodes[i].isExpanded /\ rootNodes[i].level <= 2
          => rootNodes[i].id \in collapsedCommentIds

Fits ==
  Shown =>
    /\ Len(rootNodes) = Len(details)
    /\ \A i \in 1 .. Len(rootNodes) :
          /\ rootNodes[i].id = details[i]
          /\ rootNodes[i].isUnread = IsUnread(details[i], seenState)

PageInv == TypeOK /\ Structure /\ Loaded /\ Remembered /\ Fits

LEMMA PickedNothing ==
  ASSUME NEW T, NEW s \in Seq(T), NEW P
  PROVE  Len(s) = 0 => Picked(s, P) = <<>>
<1>. DEFINE up == PickedUpTo(s, P)
<1>1. /\ Picked(s, P) = up[Len(s)]
      /\ up \in [0 .. Len(s) -> Seq(T)]
      /\ up[0] = <<>>
      /\ \A n \in 1 .. Len(s) :
            up[n] = IF n \in P THEN Append(up[n - 1], s[n]) ELSE up[n - 1]
  BY PickedSteps
<1>. HIDE DEF up
<1>. QED
  BY <1>1

LEMMA NoNodes == IsTree(<<>>) /\ Visible(<<>>) = <<>>
<1>1. <<>> \in Seq(Nodes) /\ Len(<<>>) = 0
  OBVIOUS
<1>2. IsTree(<<>>)
  BY <1>1 DEF IsTree
<1>3. Picked(<<>>, {}) = <<>>
  <2>. DEFINE none == <<>>
  <2>1. none \in Seq(Nodes) /\ Len(none) = 0
    OBVIOUS
  <2>. HIDE DEF none
  <2>2. Picked(none, {}) = <<>>
    BY <2>1, PickedNothing
  <2>. QED
    BY <2>2 DEF none
<1>4. Visible(<<>>) = Picked(<<>>, {})
  BY DEF Visible
<1>. QED
  BY <1>2, <1>3, <1>4

LEMMA InitPage == Init => PageInv
<1>. SUFFICES ASSUME Init PROVE PageInv
  OBVIOUS
<1>1. Thread[1] \in Comments /\ Parent[Thread[1]] = None
  <2>1. 1 \in 1 .. Len(Thread)
    BY ThreadFacts
  <2>. QED
    BY <2>1, ThreadFacts, ParentsFirst
<1>2. rootNodes = <<>> /\ listItems = <<>> /\ Len(<<>>) = 0
  BY DEF Init
<1>3. Structure
  BY <1>2, NoNodes DEF Structure
<1>4. Loaded /\ Remembered /\ Fits
  BY <1>1, <1>2 DEF Init, Loaded, Remembered, Fits, Shown, Closed
<1>5. TypeOK
  <2>1. MaxVisits \in Nat /\ MaxToggles \in Nat
    BY ConstantsAssumption DEF ConstantsAssumption
  <2>2. <<>> \in Seq(SUBSET Comments) /\ <<>> \in Seq(Nodes)
    OBVIOUS
  <2>3. visits \in 0 .. MaxVisits /\ toggles \in 0 .. MaxToggles
    BY <2>1 DEF Init
  <2>. QED
    BY <1>1, <2>2, <2>3 DEF Init, TypeOK, Loading
<1>. QED
  BY <1>3, <1>4, <1>5 DEF PageInv

LEMMA StepType == TypeOK /\ Structure /\ Loaded /\ [Next]_vars => TypeOK'
<1>. SUFFICES ASSUME TypeOK, Structure, Loaded, [Next]_vars PROVE TypeOK'
  OBVIOUS
<1>. USE DEF page, handler, counters
<1>1. CASE Open
  <2>1. visits' \in 0 .. MaxVisits
    BY <1>1, ConstantsAssumption DEF Open, TypeOK, ConstantsAssumption
  <2>. QED
    BY <1>1, <2>1 DEF Open, TypeOK, Loading
<1>2. CASE GetSeenComments
  <2>1. SeenFrom(table) \in [kind : {"Loading", "NoBaseline", "BaselineLoaded"},
                             ids : SUBSET Comments]
    BY DEF SeenFrom, TypeOK
  <2>. QED
    BY <1>2, <2>1 DEF GetSeenComments, TypeOK
<1>3. ASSUME NEW otherPart \in BOOLEAN, LoadPostDetails(otherPart) PROVE TypeOK'
  <2>1. Listed(posted) \in Seq(Comments)
    BY ListedIsThread DEF Loaded, TypeOK, IsThread
  <2>. HIDE DEF page
  <2>2. pending' \in BOOLEAN
    BY <1>3 DEF LoadPostDetails, TypeOK
  <2>. QED
    BY <1>3, <2>1, <2>2 DEF LoadPostDetails, TypeOK
<1>4. CASE LoadFails
  BY <1>4 DEF LoadFails, TypeOK
<1>5. CASE Effects
  <2>1. /\ Tree(details, collapsedCommentIds, seenState) \in Seq(Nodes)
        /\ Visible(Tree(details, collapsedCommentIds, seenState)) \in Seq(Nodes)
    BY <1>5, MadeIsTree, VisibleNodes DEF Effects, Loaded, IsTree
  <2>2. ToSet(details) \in SUBSET Comments /\ Append(writes, ToSet(details)) \in Seq(SUBSET Comments)
    <3>1. ToSet(details) \in SUBSET Comments
      BY <1>5 DEF Effects, Loaded, TypeOK
    <3>. QED
      BY <3>1 DEF TypeOK
  <2>. QED
    BY <1>5, <2>1, <2>2 DEF Effects, TypeOK
<1>6. ASSUME NEW n \in ToSet(listItems), UpdateListNode(n)
      PROVE  TypeOK'
  <2>1. n \in Nodes
    BY DEF TypeOK, ToSet
  <2>2. rootNodes' = Toggled(rootNodes, n)
    BY <1>6 DEF UpdateListNode, Toggled
  <2>3. IsTree(rootNodes')
    BY <2>1, <2>2, ToggledIsTree DEF Structure
  <2>4. rootNodes' \in Seq(Nodes) /\ listItems' \in Seq(Nodes)
    BY <1>6, <2>3, VisibleNodes DEF UpdateListNode, IsTree
  <2>5. collapsedCommentIds' \subseteq Comments
    BY <1>6, <2>4, CollapsedType DEF UpdateListNode
  <2>6. toggles' \in 0 .. MaxToggles
    BY <1>6, ConstantsAssumption DEF UpdateListNode, TypeOK, ConstantsAssumption
  <2>. QED
    BY <1>6, <2>4, <2>5, <2>6 DEF UpdateListNode, TypeOK
<1>7. CASE RememberComments
  <2>1. Head(writes) \in SUBSET Comments /\ Tail(writes) \in Seq(SUBSET Comments)
    BY <1>7 DEF RememberComments, TypeOK
  <2>. QED
    BY <1>7, <2>1 DEF RememberComments, TypeOK
<1>8. CASE Close
  BY <1>8 DEF Close, TypeOK, Loading
<1>9. CASE Die
  <2>1. <<>> \in Seq(SUBSET Comments) /\ <<>> \in Seq(Nodes)
    OBVIOUS
  <2>. QED
    BY <1>9, <2>1 DEF Die, TypeOK, Loading
<1>10. ASSUME NEW c \in Comments, Post(c)
       PROVE  TypeOK'
  BY <1>10 DEF Post, TypeOK
<1>11. CASE UNCHANGED vars
  BY <1>11 DEF vars, TypeOK
<1>. QED
  BY <1>1, <1>2, <1>3, <1>4, <1>5, <1>6, <1>7, <1>8, <1>9, <1>10, <1>11 DEF Next

(* A step that leaves the comments and the tree alone.                     *)
LEMMA PageStands ==
  ASSUME PageInv, UNCHANGED <<posted, details, handler>>,
         Shown' => Shown /\ seenState' = seenState
  PROVE  (Structure /\ Loaded /\ Remembered /\ Fits)'
<1>. USE DEF handler
<1>1. Structure' /\ Remembered'
  BY DEF PageInv, Structure, Remembered
<1>2. Loaded'
  BY DEF PageInv, Loaded
<1>3. Fits'
  BY DEF PageInv, Fits
<1>. QED
  BY <1>1, <1>2, <1>3

LEMMA StepPage == PageInv /\ [Next]_vars => PageInv'
<1>. SUFFICES ASSUME PageInv, [Next]_vars PROVE (Structure /\ Loaded /\ Remembered /\ Fits)'
  BY StepType DEF PageInv
<1>1. CASE Open
  BY <1>1, PageStands DEF Open, Shown, Loading
<1>2. CASE GetSeenComments
  BY <1>2, PageStands DEF GetSeenComments, Shown
<1>3. CASE LoadFails
  <2>1. Structure' /\ Remembered'
    BY <1>3 DEF LoadFails, handler, PageInv, Structure, Remembered
  <2>2. Loaded' /\ Fits'
    BY <1>3 DEF LoadFails, handler, PageInv, Loaded, Fits, Shown
  <2>. QED
    BY <2>1, <2>2
<1>4. ASSUME NEW otherPart \in BOOLEAN, LoadPostDetails(otherPart)
      PROVE  (Structure /\ Loaded /\ Remembered /\ Fits)'
  <2>. DEFINE list == Listed(posted)
  <2>1. IsThread(list) /\ ToSet(list) = posted
    BY ListedIsThread DEF PageInv, TypeOK, Loaded
  <2>2. details' = list /\ UNCHANGED <<posted, handler, seenState, open>>
    BY <1>4 DEF LoadPostDetails
  <2>. HIDE DEF list
  <2>3. Structure' /\ Remembered'
    BY <2>2 DEF handler, PageInv, Structure, Remembered
  <2>4. Loaded'
    BY <2>1, <2>2 DEF handler, PageInv, Loaded
  <2>5. CASE details' = details /\ ~otherPart
    <3>1. pending' = pending
      BY <1>4, <2>5, Zenon DEF LoadPostDetails, PageInv, TypeOK
    <3>. QED
      BY <2>2, <2>5, <3>1, PageStands DEF Shown
  <2>6. CASE details' # details \/ otherPart
    <3>1. pending'
      BY <1>4, <2>6, Zenon DEF LoadPostDetails
    <3>. QED
      BY <2>3, <2>4, <3>1 DEF Fits, Shown
  <2>. QED
    BY <2>5, <2>6
<1>5. CASE Effects
  <2>. DEFINE nodes == Tree(details, collapsedCommentIds, seenState)
              N == Len(details)
  <2>1. IsThread(details) /\ ToSet(details) \subseteq posted
    BY <1>5 DEF Effects, PageInv, Loaded
  <2>2. IsTree(nodes) /\ TreeOf(nodes, details, N, collapsedCommentIds, seenState)
    BY <2>1, MadeIsTree, TreeGrows
  <2>3. /\ rootNodes' = nodes /\ listItems' = Visible(nodes)
        /\ UNCHANGED <<posted, details, seenState, collapsedCommentIds>>
    BY <1>5 DEF Effects
  <2>. HIDE DEF nodes
  <2>4. /\ N \in Nat /\ Len(nodes) = N
        /\ \A i \in 1 .. N : nodes[i].id = details[i] /\ nodes[i].level \in Nat
    BY <2>1, <2>2, NodeFields DEF TreeOf, IsThread
  <2>5. Structure'
    BY <2>2, <2>3 DEF Structure
  <2>6. Loaded'
    <3>1. \A i \in 1 .. N : details[i] \in ToSet(details)
      BY <2>1 DEF IsThread, ToSet
    <3>. QED
      BY <2>1, <2>3, <2>4, <3>1 DEF PageInv, Loaded
  <2>7. Remembered'
    BY <2>2, <2>3, <2>4 DEF Remembered, TreeOf
  <2>8. Fits'
    BY <2>2, <2>3, <2>4 DEF Fits, TreeOf
  <2>. QED
    BY <2>5, <2>6, <2>7, <2>8
<1>6. ASSUME NEW n \in ToSet(listItems), UpdateListNode(n)
      PROVE  (Structure /\ Loaded /\ Remembered /\ Fits)'
  <2>1. n \in Nodes
    BY DEF PageInv, TypeOK, ToSet
  <2>2. /\ rootNodes' = Toggled(rootNodes, n) /\ listItems' = Visible(rootNodes')
        /\ collapsedCommentIds' = Collapsed(rootNodes')
        /\ UNCHANGED <<posted, details, seenState, open, pending>>
    BY <1>6 DEF UpdateListNode, Toggled, page
  <2>3. /\ IsTree(rootNodes') /\ Len(rootNodes') = Len(rootNodes)
        /\ \A i \in 1 .. Len(rootNodes) : /\ rootNodes'[i].id = rootNodes[i].id
                                          /\ rootNodes'[i].level = rootNodes[i].level
                                          /\ rootNodes'[i].isUnread = rootNodes[i].isUnread
    BY <2>1, <2>2, ToggledIsTree DEF PageInv, Structure
  <2>4. Structure'
    BY <2>2, <2>3 DEF Structure
  <2>5. Loaded'
    BY <2>2, <2>3 DEF PageInv, Loaded
  <2>6. Remembered'
    <3>1. DOMAIN rootNodes' = 1 .. Len(rootNodes')
      BY <2>3 DEF IsTree
    <3>. QED
      BY <2>2, <3>1 DEF Remembered, Collapsed
  <2>7. Fits'
    BY <2>2, <2>3 DEF PageInv, Fits, Shown
  <2>. QED
    BY <2>4, <2>5, <2>6, <2>7
<1>7. CASE RememberComments
  BY <1>7, PageStands DEF RememberComments, page, Shown
<1>8. CASE Close
  BY <1>8, PageStands DEF Close, Shown
<1>9. CASE Die
  <2>1. /\ rootNodes' = <<>> /\ listItems' = <<>> /\ details' = None /\ ~open'
        /\ posted' = posted /\ Len(<<>>) = 0
    BY <1>9 DEF Die
  <2>2. Structure'
    BY <2>1, NoNodes DEF Structure
  <2>. QED
    BY <2>1, <2>2 DEF PageInv, Loaded, Remembered, Fits, Shown
<1>10. ASSUME NEW c \in Comments, Post(c)
       PROVE  (Structure /\ Loaded /\ Remembered /\ Fits)'
  <2>1. posted' = posted \cup {c} /\ UNCHANGED <<page, handler>> /\ Parent[c] \in posted \cup {None}
    BY <1>10 DEF Post
  <2>2. Closed(posted')
    BY <2>1 DEF PageInv, Loaded, Closed
  <2>3. Loaded'
    BY <2>1, <2>2 DEF PageInv, Loaded, page, handler
  <2>. QED
    BY <2>1, <2>3 DEF PageInv, Structure, Remembered, Fits, Shown, page, handler
<1>11. CASE UNCHANGED vars
  BY <1>11, PageStands DEF vars, page, Shown
<1>. QED
  BY <1>1, <1>2, <1>3, <1>4, <1>5, <1>6, <1>7, <1>8, <1>9, <1>10, <1>11 DEF Next

-----------------------------------------------------------------------------
LEMMA PageInvariant == Spec => []PageInv
  BY InitPage, StepPage, PTL DEF Spec

(* The types of the comments, the tree and the collapsed ids hold for any  *)
(* thread and any number of visits.                                        *)
THEOREM TypeCorrect == Spec => []TypeOK
<1>1. PageInv => TypeOK
  BY DEF PageInv
<1>. QED
  BY <1>1, PageInvariant, PTL

(* However deep the thread: createListNode loses and moves no comment, and *)
(* gives each one the indent of its chain of parents.                      *)
THEOREM TreeIsTheThread == Spec => []TreeIsThread
<1>1. PageInv => TreeIsThread
  <2>. SUFFICES ASSUME PageInv, Shown PROVE /\ Len(rootNodes) = Len(details)
                                          /\ \A i \in DOMAIN rootNodes :
                 /\ rootNodes[i].id = details[i]
                 /\ rootNodes[i].level = Cardinality(Ancestors[details[i]]) + 1
    BY DEF TreeIsThread
  <2>1. IsTree(rootNodes) /\ DOMAIN rootNodes = 1 .. Len(rootNodes)
    BY DEF PageInv, Structure, IsTree
  <2>2. \A i \in 1 .. Len(rootNodes) :
           rootNodes[i].level = Cardinality(Ancestors[rootNodes[i].id]) + 1
    BY <2>1, LevelIsDepth
  <2>. QED
    BY <2>1, <2>2 DEF PageInv, Fits
<1>. QED
  BY <1>1, PageInvariant, PTL

(* The list on the screen and the collapsed comments never disagree.       *)
THEOREM VisibleNodesAreExpanded == Spec => []VisibleIsExpanded
<1>1. PageInv => VisibleIsExpanded
  <2>. SUFFICES ASSUME PageInv PROVE VisibleIsExpanded
    OBVIOUS
  <2>1. /\ IsTree(rootNodes) /\ listItems = Visible(rootNodes)
        /\ DOMAIN rootNodes = 1 .. Len(rootNodes)
    BY DEF PageInv, Structure, IsTree
  <2>. QED
    BY <2>1, VisibleNodes DEF VisibleIsExpanded
<1>. QED
  BY <1>1, PageInvariant, PTL

(* What is marked unread is what no earlier visit remembered, whatever     *)
(* order the comments and the seen ids arrive in.                          *)
THEOREM UnreadIsTheNew == Spec => []UnreadIsNew
<1>1. PageInv => UnreadIsNew
  <2>. SUFFICES ASSUME PageInv, Shown, NEW i \in DOMAIN rootNodes
                PROVE  rootNodes[i].isUnread
                          <=> /\ seenState.kind # "NoBaseline"
                              /\ rootNodes[i].id \notin seenState.ids
    BY DEF UnreadIsNew
  <2>1. i \in 1 .. Len(rootNodes)
    BY DEF PageInv, TypeOK
  <2>2. rootNodes[i].isUnread = IsUnread(rootNodes[i].id, seenState)
    BY <2>1 DEF PageInv, Fits
  <2>3. seenState.kind \in {"NoBaseline", "BaselineLoaded"}
    BY DEF PageInv, TypeOK, Shown
  <2>. QED
    BY <2>2, <2>3 DEF IsUnread
<1>. QED
  BY <1>1, PageInvariant, PTL

(* Loading the comments again keeps collapsed roots and their direct       *)
(* replies collapsed; only a tap or the end of the process expands them.   *)
THEOREM TopLevelsStayCollapsed == Spec => TopStaysCollapsed
<1>1. PageInv /\ PageInv' /\ [Next]_vars => [StaysCollapsed(2)]_vars
  <2>. SUFFICES ASSUME PageInv, PageInv', Next, toggles' = toggles, rootNodes' # <<>>,
                       NEW i \in DOMAIN rootNodes,
                       ~rootNodes[i].isExpanded, rootNodes[i].level <= 2
                PROVE  rootNodes[i].id \in Collapsed(rootNodes')
    BY DEF StaysCollapsed
  <2>. DEFINE c == rootNodes[i].id
  <2>1. /\ i \in 1 .. Len(rootNodes) /\ DOMAIN rootNodes = 1 .. Len(rootNodes)
        /\ DOMAIN rootNodes' = 1 .. Len(rootNodes')
        /\ IsTree(rootNodes) /\ IsTree(rootNodes')
    BY DEF PageInv, Structure, IsTree
  <2>2. c \in collapsedCommentIds
    BY <2>1 DEF PageInv, Remembered
  <2>3. CASE rootNodes' = rootNodes
    BY <2>1, <2>3 DEF Collapsed
  <2>4. CASE Effects
    <3>. DEFINE N == Len(details)
    <3>1. /\ IsThread(details) /\ c \in ToSet(details)
          /\ rootNodes' = Tree(details, collapsedCommentIds, seenState)
      BY <2>1, <2>4 DEF Effects, PageInv, Loaded
    <3>2. PICK j \in 1 .. N : details[j] = c
      BY <3>1 DEF IsThread, ToSet
    <3>3. TreeOf(rootNodes', details, N, collapsedCommentIds, seenState)
      BY <3>1, TreeGrows
    <3>4. /\ Len(rootNodes') = N /\ rootNodes'[j].id = c
          /\ rootNodes'[j].isExpanded = (rootNodes'[j].level > 2 \/ c \notin collapsedCommentIds)
      BY <3>2, <3>3 DEF TreeOf
    <3>5. rootNodes'[j].level = Cardinality(Ancestors[c]) + 1
      BY <2>1, <3>2, <3>4, LevelIsDepth
    <3>6. rootNodes[i].level = Cardinality(Ancestors[c]) + 1
      BY <2>1, LevelIsDepth
    <3>7. rootNodes[i].level \in Nat
      BY <2>1, NodeFields DEF IsTree
    <3>8. ~(rootNodes'[j].level > 2 \/ c \notin collapsedCommentIds)
      BY <2>2, <3>5, <3>6, <3>7
    <3>9. ~rootNodes'[j].isExpanded
      BY <3>4, <3>8, Zenon
    <3>. QED
      BY <2>1, <3>2, <3>4, <3>9 DEF Collapsed
  <2>5. rootNodes' = rootNodes \/ Effects
    <3>1. ASSUME NEW n \in ToSet(listItems), UpdateListNode(n) PROVE FALSE
      <4>1. toggles \in Nat
        BY ConstantsAssumption DEF PageInv, TypeOK, ConstantsAssumption
      <4>. QED
        BY <3>1, <4>1 DEF UpdateListNode
    <3>2. ~ Die
      BY DEF Die
    <3>. QED
      BY <3>1, <3>2 DEF Next, Open, GetSeenComments, LoadPostDetails, LoadFails,
            RememberComments, Close, Post, handler
  <2>. QED
    BY <2>3, <2>4, <2>5
<1>. QED
  BY <1>1, PageInvariant, PTL DEF Spec, TopStaysCollapsed
=============================================================================
