---------------------------- MODULE SublistProofs ---------------------------
(***************************************************************************)
(* What the proofs about lists and recursive functions rest on.  The       *)
(* induction rules of the library take a predicate as a parameter, which   *)
(* the provers cannot instantiate; here induction is over sets of numbers, *)
(* from the well-foundedness of the natural numbers.                       *)
(***************************************************************************)
EXTENDS Sublists, Integers, SequenceTheorems, WellFoundedInduction, TLAPS

\* A set of natural numbers has a least member: what replaces induction.
LEMMA LeastOfSet ==
    ASSUME NEW T \in SUBSET Nat, T # {}
    PROVE  \E n \in T : \A m \in T : n <= m
<1>1. IsWellFoundedOn(OpToRel(<, Nat), Nat)
  BY NatLessThanWellFounded, Zenon
<1>2. \E x \in T : \A y \in T : ~(<<y, x>> \in OpToRel(<, Nat))
  BY <1>1, WFMin, ZenonT(20)
<1>3. ASSUME NEW x \in Nat, NEW y \in Nat, <<y, x>> \notin OpToRel(<, Nat)
      PROVE  ~(y < x)
  BY <1>3 DEF OpToRel
<1>4. PICK x \in T : \A y \in T : ~(<<y, x>> \in OpToRel(<, Nat))
  BY <1>2
<1>5. \A y \in T : ~(y < x)
  BY <1>3, <1>4, Zenon
<1>. QED
  BY <1>5

\* A set that has zero, and the successor of each of its members, has them all.
LEMMA SetInduction ==
    ASSUME NEW S \in SUBSET Nat, 0 \in S, \A n \in S : n + 1 \in S
    PROVE  S = Nat
<1>1. SUFFICES ASSUME Nat \ S # {} PROVE FALSE
  OBVIOUS
<1>2. PICK n \in Nat \ S : \A m \in Nat \ S : n <= m
  BY <1>1, LeastOfSet
<1>3. n # 0 /\ n - 1 \in Nat /\ n - 1 \notin Nat \ S
  BY <1>2
<1>. QED
  BY <1>2, <1>3

\* f takes the values a recursion over 1 .. n computes.
Follows(f, v0, st, n) == f[0] = v0 /\ \A i \in 1 .. n : f[i] = st[<<i, f[i - 1]>>]

\* A recursion over 1 .. N defines a function.
LEMMA Recursion ==
    ASSUME NEW V, NEW N \in Nat, NEW v0 \in V, NEW st \in [(1 .. N) \X V -> V]
    PROVE  \E f \in [0 .. N -> V] : Follows(f, v0, st, N)
<1>. DEFINE P(n) == n <= N => \E f \in [0 .. n -> V] : Follows(f, v0, st, n)
            T == {n \in Nat : P(n)}
<1>1. P(0)
  <2>. DEFINE g == [i \in 0 .. 0 |-> v0]
  <2>2. g \in [0 .. 0 -> V] /\ g[0] = v0
    OBVIOUS
  <2>. HIDE DEF g
  <2>3. Follows(g, v0, st, 0)
    BY <2>2 DEF Follows
  <2>. QED
    BY <2>2, <2>3
<1>2. ASSUME NEW n \in Nat, P(n) PROVE P(n + 1)
  <2>1. SUFFICES ASSUME n + 1 <= N PROVE \E f \in [0 .. n + 1 -> V] : Follows(f, v0, st, n + 1)
    OBVIOUS
  <2>2. PICK f \in [0 .. n -> V] : Follows(f, v0, st, n)
    BY <1>2, <2>1
  <2>. DEFINE new == st[<<n + 1, f[n]>>]
              g == [i \in 0 .. n + 1 |-> IF i = n + 1 THEN new ELSE f[i]]
  <2>3. new \in V
    BY <2>1
  <2>4. /\ \A i \in 0 .. n : g[i] = f[i]
        /\ g[n + 1] = new
        /\ \A i \in 1 .. n : i \in 0 .. n /\ i - 1 \in 0 .. n
        /\ \A i \in 1 .. n + 1 : i \in 1 .. n \/ i = n + 1
        /\ 0 \in 0 .. n /\ n \in 0 .. n /\ n + 1 - 1 = n
    OBVIOUS
  <2>5. g \in [0 .. n + 1 -> V]
    BY <2>3
  <2>. HIDE DEF g
  <2>6. Follows(g, v0, st, n + 1)
    BY <2>2, <2>4 DEF Follows
  <2>. QED
    BY <2>5, <2>6
<1>3. T = Nat
  <2>1. T \in SUBSET Nat /\ 0 \in T
    BY <1>1
  <2>2. \A n \in T : n + 1 \in T
    BY <1>2
  <2>. HIDE DEF T
  <2>. QED
    BY <2>1, <2>2, SetInduction
<1>. QED
  BY <1>3

\* f[i] is Only of the first i members of the list.
Prefixes(f, s, S) ==
    /\ f[0] = <<>>
    /\ \A i \in 1 .. Len(s) : f[i] = IF s[i] \in S THEN Append(f[i-1], s[i]) ELSE f[i-1]

\* The recursive function in Only exists.
LEMMA OnlyDefined ==
    ASSUME NEW D, NEW s \in Seq(D), NEW S
    PROVE  \E f \in [0 .. Len(s) -> Seq(D)] : Prefixes(f, s, S) /\ Only(s, S) = f[Len(s)]
<1>. DEFINE st == [p \in (1 .. Len(s)) \X Seq(D) |-> IF s[p[1]] \in S THEN Append(p[2], s[p[1]]) ELSE p[2]]
            N == Len(s)
<1>1. N \in Nat /\ \A i \in 1 .. N : s[i] \in D
  BY LenProperties, ElementOfSeq
<1>. HIDE DEF N
<1>2. st \in [(1 .. N) \X Seq(D) -> Seq(D)]
  <2>1. \A i \in 1 .. N, q \in Seq(D) : Append(q, s[i]) \in Seq(D)
    BY <1>1, AppendProperties
  <2>. QED BY <2>1 DEF N
<1>3. <<>> \in Seq(D)
  OBVIOUS
<1>4. PICK g \in [0 .. N -> Seq(D)] : Follows(g, <<>>, st, N)
  <2>. HIDE DEF st
  <2>. QED BY <1>1, <1>2, <1>3, Recursion
<1>5. \A i \in 1 .. N : i - 1 \in 0 .. N /\ g[i - 1] \in Seq(D)
  BY <1>1, <1>4
<1>6. g[0] = <<>> /\ \A i \in 1 .. N : g[i] = IF s[i] \in S THEN Append(g[i-1], s[i]) ELSE g[i-1]
  BY <1>4, <1>5 DEF Follows, N
<1>7. g = [i \in 0 .. Len(s) |-> IF i = 0 THEN <<>> ELSE
                           IF s[i] \in S THEN Append(g[i-1], s[i]) ELSE g[i-1]]
  <2>1. \A i \in 0 .. N : i = 0 \/ i \in 1 .. N
    BY <1>1
  <2>. QED BY <1>6, <2>1 DEF N
<1>. DEFINE F == CHOOSE f : f = [i \in 0 .. Len(s) |-> IF i = 0 THEN <<>> ELSE
                           IF s[i] \in S THEN Append(f[i-1], s[i]) ELSE f[i-1]]
<1>8. F = [i \in 0 .. Len(s) |-> IF i = 0 THEN <<>> ELSE
                           IF s[i] \in S THEN Append(F[i-1], s[i]) ELSE F[i-1]]
  BY <1>7, Zenon
<1>9. Only(s, S) = F[Len(s)]
  BY DEF Only
<1>. HIDE DEF F
<1>10. F[0] = <<>> /\ \A i \in 1 .. N : F[i] = IF s[i] \in S THEN Append(F[i-1], s[i]) ELSE F[i-1]
  <2>1. 0 \in 0 .. N /\ \A i \in 1 .. N : i \in 0 .. N /\ i # 0
    BY <1>1
  <2>. QED BY <1>8, <2>1 DEF N
<1>11. ASSUME NEW n \in Nat, n <= N PROVE F[n] = g[n]
  <2>. DEFINE P(m) == m <= N => F[m] = g[m]
              T == {m \in Nat : P(m)}
  <2>1. T \in SUBSET Nat /\ 0 \in T
    BY <1>6, <1>10
  <2>2. ASSUME NEW m \in Nat, P(m) PROVE P(m + 1)
    <3>1. SUFFICES ASSUME m + 1 <= N PROVE F[m + 1] = g[m + 1]
      OBVIOUS
    <3>2. m + 1 \in 1 .. N /\ m + 1 - 1 = m /\ F[m] = g[m]
      BY <1>1, <2>2, <3>1
    <3>. QED BY <1>6, <1>10, <3>2
  <2>3. \A m \in T : m + 1 \in T
    BY <2>2
  <2>4. T = Nat
    <3>. HIDE DEF T
    <3>. QED BY <2>1, <2>3, SetInduction
  <2>. QED BY <2>4, <1>11
<1>12. Only(s, S) = g[Len(s)]
  BY <1>1, <1>9, <1>11 DEF N
<1>. QED BY <1>4, <1>6, <1>12 DEF N, Prefixes

\* What Only keeps: the members of the set, the last one at the end, and the order.
LEMMA OnlyProperties ==
    ASSUME NEW D, NEW s \in Seq(D), NEW S
    PROVE  /\ Only(s, S) \in Seq(D)
           /\ \A x : (\E i \in 1 .. Len(Only(s, S)) : Only(s, S)[i] = x)
                        <=> x \in S /\ \E i \in 1 .. Len(s) : s[i] = x
           /\ Len(Only(s, S)) <= Len(s)
           /\ Len(s) > 0 /\ s[Len(s)] \in S =>
                /\ Len(Only(s, S)) > 0
                /\ Only(s, S)[Len(Only(s, S))] = s[Len(s)]
                /\ \A i \in 1 .. Len(Only(s, S)) - 1 :
                     \E j \in 1 .. Len(s) - 1 : s[j] = Only(s, S)[i]
<1>. DEFINE Has(q, n, x) == \E i \in 1 .. n : q[i] = x
            N == Len(s)
<1>1. N \in Nat /\ \A i \in 1 .. N : s[i] \in D
  BY LenProperties, ElementOfSeq
<1>2. PICK f \in [0 .. N -> Seq(D)] : Prefixes(f, s, S) /\ Only(s, S) = f[N]
  BY OnlyDefined
<1>20. /\ f[0] = <<>>
       /\ \A i \in 1 .. N : s[i] \in S => f[i] = Append(f[i - 1], s[i])
       /\ \A i \in 1 .. N : s[i] \notin S => f[i] = f[i - 1]
  BY <1>2 DEF Prefixes
<1>. HIDE DEF N
<1>. DEFINE P(m) == m <= N => /\ \A x : Has(f[m], Len(f[m]), x) <=> x \in S /\ Has(s, m, x)
                              /\ Len(f[m]) <= m
            T == {m \in Nat : P(m)}
<1>3. P(0)
  <2>1. Len(f[0]) = 0
    BY <1>20
  <2>. QED BY <2>1
<1>4. ASSUME NEW m \in Nat, P(m) PROVE P(m + 1)
  <2>1. SUFFICES ASSUME m + 1 <= N
                 PROVE  /\ \A x : Has(f[m+1], Len(f[m+1]), x) <=> x \in S /\ Has(s, m + 1, x)
                        /\ Len(f[m+1]) <= m + 1
    OBVIOUS
  <2>2. /\ m + 1 \in 1 .. N /\ m + 1 - 1 = m /\ m \in 0 .. N
        /\ f[m] \in Seq(D) /\ s[m + 1] \in D /\ Len(f[m]) \in Nat
        /\ \A i \in 1 .. m + 1 : i \in 1 .. m \/ i = m + 1
        /\ \A i \in 1 .. m : i \in 1 .. m + 1
    BY <1>1, <1>2, <2>1, LenProperties
  <2>3. CASE s[m + 1] \in S
    <3>1. f[m + 1] = Append(f[m], s[m + 1])
      BY <1>20, <2>2, <2>3
    <3>2. /\ Len(f[m + 1]) = Len(f[m]) + 1
          /\ \A i \in 1 .. Len(f[m]) : f[m + 1][i] = f[m][i]
          /\ f[m + 1][Len(f[m]) + 1] = s[m + 1]
      BY <2>2, <3>1, AppendProperties
    <3>3. /\ \A i \in 1 .. Len(f[m]) + 1 : i \in 1 .. Len(f[m]) \/ i = Len(f[m]) + 1
          /\ \A i \in 1 .. Len(f[m]) : i \in 1 .. Len(f[m]) + 1
          /\ Len(f[m]) + 1 \in 1 .. Len(f[m]) + 1
          /\ Len(f[m]) + 1 <= m + 1
      BY <2>1, <2>2, <1>4
    <3>4. ASSUME NEW x PROVE Has(f[m+1], Len(f[m+1]), x) <=> Has(f[m], Len(f[m]), x) \/ x = s[m+1]
      BY <3>2, <3>3
    <3>5. ASSUME NEW x PROVE Has(s, m + 1, x) <=> Has(s, m, x) \/ x = s[m+1]
      BY <2>2
    <3>6. \A x : Has(f[m], Len(f[m]), x) <=> x \in S /\ Has(s, m, x)
      BY <2>1, <2>2, <1>4
    <3>7. \A x : Has(f[m+1], Len(f[m+1]), x) <=> x \in S /\ Has(s, m + 1, x)
      <4>. HIDE DEF Has
      <4>. QED BY <2>3, <3>4, <3>5, <3>6
    <3>. QED
      BY <3>2, <3>3, <3>7
  <2>4. CASE s[m + 1] \notin S
    <3>1. f[m + 1] = f[m]
      BY <1>20, <2>2, <2>4
    <3>5. ASSUME NEW x PROVE Has(s, m + 1, x) <=> Has(s, m, x) \/ x = s[m+1]
      BY <2>2
    <3>6. \A x : Has(f[m], Len(f[m]), x) <=> x \in S /\ Has(s, m, x)
      BY <2>1, <2>2, <1>4
    <3>7. \A x : Has(f[m+1], Len(f[m+1]), x) <=> x \in S /\ Has(s, m + 1, x)
      <4>. HIDE DEF Has
      <4>. QED BY <2>4, <3>1, <3>5, <3>6
    <3>8. Len(f[m+1]) <= m + 1
      BY <2>1, <2>2, <1>4, <3>1
    <3>. QED
      BY <3>7, <3>8
  <2>. QED BY <2>3, <2>4
<1>5. \A m \in Nat : P(m)
  <2>1. T \in SUBSET Nat /\ 0 \in T
    BY <1>3
  <2>2. \A n \in T : n + 1 \in T
    <3>. HIDE DEF P
    <3>. QED BY <1>4
  <2>3. T = Nat
    <3>. HIDE DEF T
    <3>. QED BY <2>1, <2>2, SetInduction
  <2>. HIDE DEF P
  <2>. QED
    BY <2>3
<1>6. f[N] \in Seq(D)
  BY <1>1, <1>2
<1>7. N > 0 /\ s[N] \in S =>
        /\ Len(f[N]) > 0 /\ f[N][Len(f[N])] = s[N]
        /\ \A i \in 1 .. Len(f[N]) - 1 : \E j \in 1 .. N - 1 : s[j] = f[N][i]
  <2>1. SUFFICES ASSUME N > 0, s[N] \in S
                 PROVE  /\ Len(f[N]) > 0 /\ f[N][Len(f[N])] = s[N]
                        /\ \A i \in 1 .. Len(f[N]) - 1 : Has(s, N - 1, f[N][i])
    OBVIOUS
  <2>2. N \in 1 .. N /\ N - 1 \in 0 .. N /\ N - 1 \in Nat /\ f[N - 1] \in Seq(D) /\ s[N] \in D
    BY <1>1, <1>2, <2>1
  <2>3. f[N] = Append(f[N - 1], s[N])
    BY <1>20, <2>1, <2>2
  <2>4. /\ Len(f[N - 1]) \in Nat /\ Len(f[N]) = Len(f[N - 1]) + 1 /\ f[N][Len(f[N - 1]) + 1] = s[N]
        /\ \A i \in 1 .. Len(f[N - 1]) : f[N][i] = f[N - 1][i]
    BY <2>2, <2>3, AppendProperties, LenProperties
  <2>5. \A x : Has(f[N - 1], Len(f[N - 1]), x) => Has(s, N - 1, x)
    <3>1. P(N - 1) /\ N - 1 <= N
      <4>. HIDE DEF P
      <4>. QED BY <1>1, <1>5, <2>2
    <3>. QED BY <3>1
  <2>6. \A i \in 1 .. Len(f[N - 1]) : Has(s, N - 1, f[N - 1][i])
    <3>1. \A i \in 1 .. Len(f[N - 1]) : Has(f[N - 1], Len(f[N - 1]), f[N - 1][i])
      OBVIOUS
    <3>. HIDE DEF Has
    <3>. QED BY <2>5, <3>1
  <2>. HIDE DEF Has
  <2>. QED BY <2>4, <2>6
<1>8. P(N)
  <2>. HIDE DEF P
  <2>. QED BY <1>1, <1>5
<1>. QED BY <1>1, <1>2, <1>6, <1>7, <1>8 DEF N

\* A set of numbers up to N has a greatest member.
LEMMA GreatestOfSet ==
    ASSUME NEW N \in Nat, NEW T \in SUBSET (0 .. N), T # {}
    PROVE  \E n \in T : \A m \in T : m <= n
<1>. DEFINE U == {k \in Nat : \E m \in T : k = N - m}
<1>1. U \in SUBSET Nat
  OBVIOUS
<1>2. U # {}
  <2>1. PICK m \in T : TRUE
    OBVIOUS
  <2>2. N - m \in Nat
    BY <2>1
  <2>. QED BY <2>1, <2>2
<1>3. PICK k \in U : \A j \in U : k <= j
  <2>. HIDE DEF U
  <2>. QED BY <1>1, <1>2, LeastOfSet
<1>4. PICK n \in T : k = N - n
  BY <1>3
<1>5. \A m \in T : N - m \in U /\ m \in 0 .. N
  OBVIOUS
<1>6. \A m \in T : k <= N - m
  BY <1>3, <1>5
<1>. QED BY <1>4, <1>5, <1>6

\* Neighbours in order make a list in order.
LEMMA SortedList ==
    ASSUME NEW s \in Seq(Nat), \A i \in 1 .. Len(s) - 1 : s[i] <= s[i + 1]
    PROVE  \A i, j \in 1 .. Len(s) : i <= j => s[i] <= s[j]
<1>. DEFINE P(k) == \A i \in 1 .. Len(s) : i + k <= Len(s) => s[i] <= s[i + k]
            T == {k \in Nat : P(k)}
<1>1. Len(s) \in Nat /\ \A i \in 1 .. Len(s) : s[i] \in Nat
  BY LenProperties, ElementOfSeq
<1>2. P(0)
  BY <1>1
<1>3. ASSUME NEW k \in Nat, P(k) PROVE P(k + 1)
  <2>. SUFFICES ASSUME NEW i \in 1 .. Len(s), i + (k + 1) <= Len(s) PROVE s[i] <= s[i + (k + 1)]
    OBVIOUS
  <2>1. i + k \in 1 .. Len(s) - 1 /\ i + k \in 1 .. Len(s) /\ i + (k + 1) = (i + k) + 1 /\ i + (k + 1) \in 1 .. Len(s)
    BY <1>1
  <2>2. s[i] <= s[i + k] /\ s[i + k] <= s[(i + k) + 1]
    BY <1>1, <1>3, <2>1
  <2>. QED BY <1>1, <2>1, <2>2
<1>4. T = Nat
  <2>1. T \in SUBSET Nat /\ 0 \in T
    BY <1>2
  <2>2. \A k \in T : k + 1 \in T
    <3>. HIDE DEF P
    <3>. QED BY <1>3
  <2>. HIDE DEF T
  <2>. QED BY <2>1, <2>2, SetInduction
<1>5. \A k \in Nat : P(k)
  <2>. HIDE DEF P
  <2>. QED BY <1>4
<1>. QED
  <2>. SUFFICES ASSUME NEW i \in 1 .. Len(s), NEW j \in 1 .. Len(s), i <= j PROVE s[i] <= s[j]
    OBVIOUS
  <2>1. j - i \in Nat /\ i + (j - i) = j /\ j <= Len(s)
    BY <1>1
  <2>2. P(j - i)
    <3>. HIDE DEF P
    <3>. QED BY <1>5, <2>1
  <2>. QED BY <2>1, <2>2

\* Only keeps a list that increases one.
LEMMA OnlyIncreasing ==
    ASSUME NEW s \in Seq(Nat), \A i, j \in 1 .. Len(s) : i < j => s[i] < s[j], NEW S
    PROVE  \A i, j \in 1 .. Len(Only(s, S)) : i < j => Only(s, S)[i] < Only(s, S)[j]
<1>. DEFINE N == Len(s)
<1>1. N \in Nat /\ \A i \in 1 .. N : s[i] \in Nat
  BY LenProperties, ElementOfSeq
<1>2. PICK f \in [0 .. N -> Seq(Nat)] : Prefixes(f, s, S) /\ Only(s, S) = f[N]
  BY OnlyDefined
<1>3. /\ f[0] = <<>>
      /\ \A i \in 1 .. N : s[i] \in S => f[i] = Append(f[i - 1], s[i])
      /\ \A i \in 1 .. N : s[i] \notin S => f[i] = f[i - 1]
  BY <1>2 DEF Prefixes
<1>4. \A i, j \in 1 .. N : i < j => s[i] < s[j]
  OBVIOUS
<1>. HIDE DEF N
<1>. DEFINE Rising(q) == \A i, j \in 1 .. Len(q) : i < j => q[i] < q[j]
            Below(q, m) == \A i \in 1 .. Len(q) : \A j \in m + 1 .. N : q[i] < s[j]
            P(m) == m <= N => Rising(f[m]) /\ Below(f[m], m)
            T == {m \in Nat : P(m)}
<1>5. P(0)
  <2>1. Len(f[0]) = 0
    BY <1>3
  <2>. QED BY <2>1
<1>6. ASSUME NEW m \in Nat, P(m) PROVE P(m + 1)
  <2>1. SUFFICES ASSUME m + 1 <= N PROVE Rising(f[m + 1]) /\ Below(f[m + 1], m + 1)
    OBVIOUS
  <2>2. /\ m + 1 \in 1 .. N /\ m + 1 - 1 = m /\ m \in 0 .. N /\ m + 1 \in m + 1 .. N
        /\ f[m] \in Seq(Nat) /\ s[m + 1] \in Nat /\ Len(f[m]) \in Nat
        /\ \A j \in (m + 1) + 1 .. N : j \in m + 1 .. N /\ j \in 1 .. N /\ m + 1 < j
    BY <1>1, <1>2, <2>1, LenProperties
  <2>3. Rising(f[m]) /\ Below(f[m], m)
    BY <2>1, <2>2, <1>6
  <2>4. CASE s[m + 1] \in S
    <3>1. f[m + 1] = Append(f[m], s[m + 1])
      BY <1>3, <2>2, <2>4
    <3>2. /\ Len(f[m + 1]) = Len(f[m]) + 1
          /\ \A i \in 1 .. Len(f[m]) : f[m + 1][i] = f[m][i]
          /\ f[m + 1][Len(f[m]) + 1] = s[m + 1]
      BY <2>2, <3>1, AppendProperties
    <3>3. \A i \in 1 .. Len(f[m]) + 1 : i \in 1 .. Len(f[m]) \/ i = Len(f[m]) + 1
      BY <2>2
    <3>4. ASSUME NEW i \in 1 .. Len(f[m + 1]), NEW j \in 1 .. Len(f[m + 1]), i < j
          PROVE  f[m + 1][i] < f[m + 1][j]
      <4>1. i \in 1 .. Len(f[m])
        BY <2>2, <3>2, <3>4
      <4>2. CASE j \in 1 .. Len(f[m])
        BY <2>3, <3>2, <3>4, <4>1, <4>2
      <4>3. CASE j = Len(f[m]) + 1
        BY <2>2, <2>3, <3>2, <4>1, <4>3
      <4>. QED BY <3>2, <3>3, <4>2, <4>3
    <3>5. ASSUME NEW i \in 1 .. Len(f[m + 1]), NEW j \in (m + 1) + 1 .. N
          PROVE  f[m + 1][i] < s[j]
      <4>2. CASE i \in 1 .. Len(f[m])
        BY <2>2, <2>3, <3>2, <4>2
      <4>3. CASE i = Len(f[m]) + 1
        BY <1>4, <2>2, <3>2, <4>3
      <4>. QED BY <3>2, <3>3, <4>2, <4>3
    <3>. QED BY <3>4, <3>5
  <2>5. CASE s[m + 1] \notin S
    <3>1. f[m + 1] = f[m]
      BY <1>3, <2>2, <2>5
    <3>. QED BY <2>2, <2>3, <3>1
  <2>. QED BY <2>4, <2>5
<1>7. P(N)
  <2>1. T \in SUBSET Nat /\ 0 \in T
    BY <1>5
  <2>2. \A n \in T : n + 1 \in T
    <3>. HIDE DEF P
    <3>. QED BY <1>6
  <2>3. T = Nat
    <3>. HIDE DEF T
    <3>. QED BY <2>1, <2>2, SetInduction
  <2>. HIDE DEF P
  <2>. QED BY <1>1, <2>3
<1>. QED BY <1>1, <1>2, <1>7
=============================================================================
