--------------------------- MODULE SelectionTheorems ---------------------------
(***************************************************************************)
(* What Selected gives for every sequence and every set of positions.      *)
(*                                                                         *)
(* Each fact is an induction over the length.  The principle is stated     *)
(* with a set of numbers (Induction) and follows from the natural numbers  *)
(* being well-founded; the first thing proved with it is that a function   *)
(* defined by recursion over a length has a value (Recursion).             *)
(***************************************************************************)
EXTENDS Selection, Integers, SequenceTheorems, WellFoundedInduction, TLAPS

-----------------------------------------------------------------------------
(* Induction *)

LessThan == OpToRel(<, Nat)

LEMMA LeastNumber ==
  ASSUME NEW T \in SUBSET Nat, T # {}
  PROVE  \E x \in T : \A y \in T : x <= y
<1>1. IsWellFoundedOn(LessThan, Nat)
  BY NatLessThanWellFounded DEF LessThan
<1>2. PICK x \in T : \A y \in T : <<y, x>> \notin LessThan
  BY <1>1, WFMin
<1>3. \A y \in T : ~(y < x)
  BY <1>2 DEF LessThan, OpToRel
<1> QED
  BY <1>3

\* A set of numbers that has 0 and with each number the next has them all.
THEOREM Induction ==
  ASSUME NEW T \in SUBSET Nat, 0 \in T, \A n \in T : n + 1 \in T
  PROVE  T = Nat
<1> SUFFICES ASSUME T # Nat PROVE FALSE
  OBVIOUS
<1>1. PICK m \in Nat \ T : \A y \in Nat \ T : m <= y
  BY LeastNumber
<1>2. m - 1 \in T
  BY <1>1
<1> QED
  BY <1>1, <1>2

\* A value that a function gives from the number and the value before it, number
\* after number.
Follows(g, base, F, N) == g[0] = base /\ \A n \in 1..N : g[n] = F[<<n, g[n - 1]>>]

\* Whatever the function and the first value are, such a sequence of values exists:
\* what a recursive definition over the length of a sequence needs to have a value.
THEOREM Recursion ==
  ASSUME NEW X, NEW base \in X, NEW N \in Nat, NEW F \in [(1..N) \X X -> X]
  PROVE  \E g \in [0..N -> X] : Follows(g, base, F, N)
<1> USE DEF Follows
<1> DEFINE T == {m \in Nat : m <= N => \E g \in [0..m -> X] : Follows(g, base, F, m)}
<1>1. 0 \in T
  <2>1. [n \in 0..0 |-> base] \in [0..0 -> X] /\ Follows([n \in 0..0 |-> base], base, F, 0)
    OBVIOUS
  <2> QED
    BY <2>1
<1>2. ASSUME NEW m \in T PROVE m + 1 \in T
  <2> SUFFICES ASSUME m + 1 <= N PROVE \E g \in [0..(m + 1) -> X] : Follows(g, base, F, m + 1)
    OBVIOUS
  <2>1. PICK g \in [0..m -> X] : Follows(g, base, F, m)
    OBVIOUS
  <2> DEFINE next == F[<<m + 1, g[m]>>]
             h == [n \in 0..(m + 1) |-> IF n = m + 1 THEN next ELSE g[n]]
  <2>2. <<m + 1, g[m]>> \in (1..N) \X X
    OBVIOUS
  <2>3. next \in X
    BY <2>2
  <2>4. h \in [0..(m + 1) -> X]
    BY <2>3
  <2>5. h[m + 1] = next /\ \A n \in 0..m : h[n] = g[n]
    OBVIOUS
  <2> HIDE DEF h
  <2>6. h[0] = base
    BY <2>1, <2>5
  <2>7. ASSUME NEW n \in 1..(m + 1) PROVE h[n] = F[<<n, h[n - 1]>>]
    <3>1. CASE n = m + 1
      BY <2>5, <3>1
    <3>2. CASE n # m + 1
      <4>1. n \in 1..m /\ n \in 0..m /\ n - 1 \in 0..m
        BY <3>2
      <4> QED
        BY <2>1, <2>5, <4>1
    <3> QED
      BY <3>1, <3>2
  <2> QED
    BY <2>4, <2>6, <2>7
<1> HIDE DEF T
<1>3. T = Nat
  BY <1>1, <1>2, Induction DEF T
<1>4. N \in T /\ N <= N
  BY <1>3
<1> QED
  BY <1>4, Zenon DEF T

-----------------------------------------------------------------------------
(* Sequences *)

\* What a reader takes from one end of a pipe leaves the stream as it was.
LEMMA MoveOne ==
  ASSUME NEW S, NEW s \in Seq(S), NEW t \in Seq(S), t # <<>>
  PROVE  /\ Append(s, Head(t)) \o Tail(t) = s \o t
         /\ Append(s, Head(t)) \in Seq(S) /\ Tail(t) \in Seq(S)
<1> DEFINE u == Append(s, Head(t)) \o Tail(t)
           v == s \o t
<1>1. /\ Append(s, Head(t)) \in Seq(S) /\ Tail(t) \in Seq(S)
      /\ Len(Append(s, Head(t))) = Len(s) + 1 /\ Len(Tail(t)) = Len(t) - 1
      /\ Len(s) \in Nat /\ Len(t) \in Nat
  OBVIOUS
<1>2. u \in Seq(S) /\ v \in Seq(S)
  BY <1>1
<1>3. Len(u) = Len(v) /\ Len(v) = Len(s) + Len(t)
  BY <1>1
<1>4. \A i \in 1..Len(v) : u[i] = v[i]
  <2> SUFFICES ASSUME NEW i \in 1..Len(v) PROVE u[i] = v[i]
    OBVIOUS
  <2>1. CASE i <= Len(s)
    BY <1>1, <1>3, <2>1
  <2>2. CASE i = Len(s) + 1
    BY <1>1, <1>3, <2>2
  <2>3. CASE i > Len(s) + 1
    BY <1>1, <1>3, <2>3
  <2> QED
    BY <1>1, <1>3, <2>1, <2>2, <2>3
<1>5. u = v
  <2> HIDE DEF u, v
  <2> QED
    BY <1>2, <1>3, <1>4
<1> QED
  BY <1>1, <1>5

LEMMA AppendRight ==
  ASSUME NEW S, NEW s \in Seq(S), NEW t \in Seq(S), NEW e \in S
  PROVE  /\ s \o Append(t, e) = Append(s \o t, e)
         /\ s \o t \in Seq(S)
<1> DEFINE u == s \o Append(t, e)
           v == Append(s \o t, e)
<1>1. /\ Append(t, e) \in Seq(S) /\ Len(Append(t, e)) = Len(t) + 1
      /\ s \o t \in Seq(S) /\ Len(s \o t) = Len(s) + Len(t)
      /\ Len(s) \in Nat /\ Len(t) \in Nat
  OBVIOUS
<1>2. u \in Seq(S) /\ v \in Seq(S)
  BY <1>1
<1>3. Len(u) = Len(v) /\ Len(v) = Len(s) + Len(t) + 1
  BY <1>1
<1>4. \A i \in 1..Len(v) : u[i] = v[i]
  <2> SUFFICES ASSUME NEW i \in 1..Len(v) PROVE u[i] = v[i]
    OBVIOUS
  <2>1. CASE i <= Len(s)
    BY <1>1, <1>3, <2>1
  <2>2. CASE i > Len(s) /\ i <= Len(s) + Len(t)
    BY <1>1, <1>3, <2>2
  <2>3. CASE i = Len(s) + Len(t) + 1
    BY <1>1, <1>3, <2>3
  <2> QED
    BY <1>1, <1>3, <2>1, <2>2, <2>3
<1>5. u = v
  <2> HIDE DEF u, v
  <2> QED
    BY <1>2, <1>3, <1>4
<1> QED
  BY <1>1, <1>5

-----------------------------------------------------------------------------
(* UpTo has the values its recursion says *)

LEMMA UpToSteps ==
  ASSUME NEW S, NEW s \in Seq(S), NEW K
  PROVE  /\ UpTo(s, K)[0] = <<>>
         /\ \A n \in 0..(Len(s) - 1) :
              UpTo(s, K)[n + 1] = IF n + 1 \in K THEN Append(UpTo(s, K)[n], s[n + 1])
                                  ELSE UpTo(s, K)[n]
<1> DEFINE N == Len(s)
           Keeps(h) == h = [n \in 0..N |-> IF n = 0 THEN <<>>
                                           ELSE IF n \in K THEN Append(h[n - 1], s[n])
                                           ELSE h[n - 1]]
           F == [p \in (1..N) \X Seq(S) |-> IF p[1] \in K THEN Append(p[2], s[p[1]]) ELSE p[2]]
<1>1. N \in Nat /\ \A n \in 1..N : s[n] \in S
  OBVIOUS
<1>2. <<>> \in Seq(S)
  OBVIOUS
<1>3. F \in [(1..N) \X Seq(S) -> Seq(S)]
  OBVIOUS
<1>4. \A n \in 1..N : \A t \in Seq(S) : F[<<n, t>>] = IF n \in K THEN Append(t, s[n]) ELSE t
  OBVIOUS
<1> HIDE DEF F, N
<1>5. PICK g \in [0..N -> Seq(S)] : Follows(g, <<>>, F, N)
  BY <1>1, <1>2, <1>3, Recursion, Zenon
<1>6. \A n \in 0..N : g[n] = IF n = 0 THEN <<>>
                              ELSE IF n \in K THEN Append(g[n - 1], s[n])
                              ELSE g[n - 1]
  <2> SUFFICES ASSUME NEW n \in 0..N, n # 0
               PROVE  g[n] = IF n \in K THEN Append(g[n - 1], s[n]) ELSE g[n - 1]
    BY <1>5 DEF Follows
  <2>1. n \in 1..N /\ n - 1 \in 0..N
    BY <1>1
  <2>2. g[n - 1] \in Seq(S)
    BY <2>1
  <2> QED
    BY <1>4, <1>5, <2>1, <2>2 DEF Follows
<1>7. Keeps(g)
  BY <1>6
<1>8. UpTo(s, K) = CHOOSE h : Keeps(h)
  BY DEF UpTo, N
<1> DEFINE u == UpTo(s, K)
<1>9. Keeps(u)
  BY <1>7, <1>8
<1> HIDE DEF u
<1>10. \A n \in 0..N : u[n] = IF n = 0 THEN <<>>
                               ELSE IF n \in K THEN Append(u[n - 1], s[n])
                               ELSE u[n - 1]
  BY <1>9
<1>11. u[0] = <<>>
  BY <1>1, <1>10
<1>12. ASSUME NEW n \in 0..(N - 1)
       PROVE  u[n + 1] = IF n + 1 \in K THEN Append(u[n], s[n + 1]) ELSE u[n]
  <2>1. n + 1 \in 0..N /\ n + 1 # 0 /\ (n + 1) - 1 = n
    BY <1>1
  <2> QED
    BY <1>10, <2>1
<1> QED
  BY <1>11, <1>12 DEF u, N

-----------------------------------------------------------------------------
(* What is selected *)

\* Only selected elements are there, and no more of them than there were.
LEMMA UpToTyped ==
  ASSUME NEW S, NEW s \in Seq(S), NEW K, NEW T, \A i \in 1..Len(s) : i \in K => s[i] \in T,
         NEW n \in 0..Len(s)
  PROVE  UpTo(s, K)[n] \in Seq(T) /\ Len(UpTo(s, K)[n]) <= n
<1> DEFINE u == UpTo(s, K)
           M == {m \in Nat : m <= Len(s) => u[m] \in Seq(T) /\ Len(u[m]) <= m}
<1>1. Len(s) \in Nat
  OBVIOUS
<1>2. u[0] = <<>> /\ \A m \in 0..(Len(s) - 1) :
        u[m + 1] = IF m + 1 \in K THEN Append(u[m], s[m + 1]) ELSE u[m]
  BY UpToSteps
<1> HIDE DEF u
<1>3. 0 \in M
  <2>1. <<>> \in Seq(T) /\ Len(<<>>) <= 0
    OBVIOUS
  <2>2. u[0] \in Seq(T) /\ Len(u[0]) <= 0
    BY <1>2, <2>1
  <2> QED
    BY <2>2
<1>4. ASSUME NEW m \in M PROVE m + 1 \in M
  <2> SUFFICES ASSUME m + 1 <= Len(s) PROVE u[m + 1] \in Seq(T) /\ Len(u[m + 1]) <= m + 1
    OBVIOUS
  <2>1. u[m] \in Seq(T) /\ Len(u[m]) <= m /\ m \in 0..(Len(s) - 1) /\ m + 1 \in 1..Len(s)
    BY <1>1
  <2>2. CASE m + 1 \in K
    <3>1. u[m + 1] = Append(u[m], s[m + 1]) /\ s[m + 1] \in T
      BY <1>2, <2>1, <2>2
    <3> QED
      BY <2>1, <3>1
  <2>3. CASE m + 1 \notin K
    BY <1>2, <2>1, <2>3
  <2> QED
    BY <2>2, <2>3
<1> HIDE DEF M
<1>5. M = Nat
  BY <1>3, <1>4, Induction DEF M
<1> QED
  BY <1>5 DEF M, u

THEOREM SelectedTyped ==
  ASSUME NEW S, NEW s \in Seq(S), NEW K, NEW T, \A i \in 1..Len(s) : i \in K => s[i] \in T
  PROVE  Selected(s, K) \in Seq(T) /\ Len(Selected(s, K)) <= Len(s)
<1>1. Len(s) \in 0..Len(s)
  OBVIOUS
<1>2. UpTo(s, K)[Len(s)] \in Seq(T) /\ Len(UpTo(s, K)[Len(s)]) <= Len(s)
  BY <1>1, UpToTyped
<1> QED
  BY <1>2 DEF Selected

THEOREM SelectedEmpty == ASSUME NEW K PROVE Selected(<<>>, K) = <<>>
<1>1. <<>> \in Seq({}) /\ Len(<<>>) = 0
  OBVIOUS
<1>2. UpTo(<<>>, K)[0] = <<>>
  BY <1>1, UpToSteps
<1> QED
  BY <1>1, <1>2 DEF Selected

\* Of a longer sequence the beginning gives what it gives by itself.
LEMMA UpToPrefix ==
  ASSUME NEW S, NEW s \in Seq(S), NEW t \in Seq(S), NEW K, NEW L,
         Len(s) <= Len(t),
         \A i \in 1..Len(s) : s[i] = t[i] /\ (i \in K <=> i \in L),
         NEW n \in 0..Len(s)
  PROVE  UpTo(s, K)[n] = UpTo(t, L)[n]
<1> DEFINE u == UpTo(s, K)
           v == UpTo(t, L)
           M == {m \in Nat : m <= Len(s) => u[m] = v[m]}
<1>1. Len(s) \in Nat /\ Len(t) \in Nat
  OBVIOUS
<1>2. u[0] = <<>> /\ \A m \in 0..(Len(s) - 1) :
        u[m + 1] = IF m + 1 \in K THEN Append(u[m], s[m + 1]) ELSE u[m]
  BY UpToSteps
<1>3. v[0] = <<>> /\ \A m \in 0..(Len(t) - 1) :
        v[m + 1] = IF m + 1 \in L THEN Append(v[m], t[m + 1]) ELSE v[m]
  BY UpToSteps
<1> HIDE DEF u, v
<1>4. 0 \in M
  BY <1>2, <1>3
<1>5. ASSUME NEW m \in M PROVE m + 1 \in M
  <2> SUFFICES ASSUME m + 1 <= Len(s) PROVE u[m + 1] = v[m + 1]
    OBVIOUS
  <2>1. u[m] = v[m] /\ m \in 0..(Len(s) - 1) /\ m \in 0..(Len(t) - 1) /\ m + 1 \in 1..Len(s)
    BY <1>1
  <2> QED
    BY <1>2, <1>3, <2>1
<1> HIDE DEF M
<1>6. M = Nat
  BY <1>4, <1>5, Induction DEF M
<1> QED
  BY <1>6 DEF M, u, v

\* One element more is appended to what was selected, or passed over.
THEOREM SelectedAppend ==
  ASSUME NEW S, NEW s \in Seq(S), NEW x \in S, NEW K, NEW L,
         \A i \in 1..Len(s) : i \in K <=> i \in L
  PROVE  Selected(Append(s, x), L) = IF Len(s) + 1 \in L THEN Append(Selected(s, K), x)
                                     ELSE Selected(s, K)
<1> DEFINE t == Append(s, x)
<1>1. /\ t \in Seq(S) /\ Len(t) = Len(s) + 1 /\ t[Len(s) + 1] = x /\ Len(s) \in Nat
      /\ \A i \in 1..Len(s) : s[i] = t[i]
  OBVIOUS
<1> HIDE DEF t
<1>2. UpTo(s, K)[Len(s)] = UpTo(t, L)[Len(s)]
  BY <1>1, UpToPrefix
<1>3. UpTo(t, L)[Len(s) + 1] = IF Len(s) + 1 \in L THEN Append(UpTo(t, L)[Len(s)], t[Len(s) + 1])
                               ELSE UpTo(t, L)[Len(s)]
  BY <1>1, UpToSteps
<1> QED
  BY <1>1, <1>2, <1>3 DEF Selected, t

\* What has been kept after a number of elements is what that beginning gives.
LEMMA SelectedOfPrefix ==
  ASSUME NEW S, NEW s \in Seq(S), NEW K, NEW L, NEW n \in 0..Len(s),
         \A i \in 1..n : i \in K <=> i \in L
  PROVE  Selected(SubSeq(s, 1, n), K) = UpTo(s, L)[n]
<1> DEFINE t == SubSeq(s, 1, n)
<1>1. /\ t \in Seq(S) /\ Len(t) = n /\ n \in 0..n /\ Len(t) <= Len(s)
      /\ \A i \in 1..Len(t) : t[i] = s[i] /\ (i \in K <=> i \in L)
  OBVIOUS
<1> HIDE DEF t
<1>2. n \in 0..Len(t)
  BY <1>1
<1>3. UpTo(t, K)[n] = UpTo(s, L)[n]
  BY <1>1, <1>2, UpToPrefix
<1> QED
  BY <1>1, <1>3 DEF Selected, t

\* What has been kept stays, with more behind it.
LEMMA UpToGrows ==
  ASSUME NEW S, NEW s \in Seq(S), NEW K, NEW m \in 0..Len(s)
  PROVE  \A n \in m..Len(s) :
           /\ Len(UpTo(s, K)[m]) <= Len(UpTo(s, K)[n])
           /\ UpTo(s, K)[m] = SubSeq(UpTo(s, K)[n], 1, Len(UpTo(s, K)[m]))
<1> DEFINE u == UpTo(s, K)
           M == {k \in Nat : m + k <= Len(s) =>
                   Len(u[m]) <= Len(u[m + k]) /\ u[m] = SubSeq(u[m + k], 1, Len(u[m]))}
<1>1. Len(s) \in Nat
  OBVIOUS
<1>2. \A n \in 0..(Len(s) - 1) :
        u[n + 1] = IF n + 1 \in K THEN Append(u[n], s[n + 1]) ELSE u[n]
  BY UpToSteps
<1>3. \A n \in 0..Len(s) : u[n] \in Seq(S)
  <2>1. \A i \in 1..Len(s) : i \in K => s[i] \in S
    OBVIOUS
  <2> QED
    BY <2>1, UpToTyped
<1> HIDE DEF u
<1>4. 0 \in M
  <2>1. u[m] \in Seq(S) /\ m + 0 = m
    BY <1>3
  <2>2. Len(u[m]) <= Len(u[m]) /\ u[m] = SubSeq(u[m], 1, Len(u[m]))
    BY <2>1
  <2> QED
    BY <2>1, <2>2
<1>5. ASSUME NEW k \in M PROVE k + 1 \in M
  <2> SUFFICES ASSUME m + (k + 1) <= Len(s)
               PROVE  /\ Len(u[m]) <= Len(u[m + (k + 1)])
                      /\ u[m] = SubSeq(u[m + (k + 1)], 1, Len(u[m]))
    OBVIOUS
  <2> DEFINE a == u[m]
             b == u[m + k]
             x == s[m + k + 1]
  <2>1. /\ Len(a) <= Len(b) /\ a = SubSeq(b, 1, Len(a))
        /\ m + k \in 0..(Len(s) - 1) /\ m + k \in 0..Len(s) /\ m + k + 1 = m + (k + 1)
        /\ m + k + 1 \in 1..Len(s)
    BY <1>1
  <2>2. a \in Seq(S) /\ b \in Seq(S) /\ x \in S
    BY <1>3, <2>1
  <2>3. u[m + k + 1] = Append(b, x) \/ u[m + k + 1] = b
    BY <1>2, <2>1
  <2> HIDE DEF a, b, x
  <2>4. Len(a) <= Len(Append(b, x)) /\ a = SubSeq(Append(b, x), 1, Len(a))
    <3>1. Len(a) \in Nat /\ Len(b) \in Nat /\ Len(Append(b, x)) = Len(b) + 1
      BY <2>2
    <3>2. SubSeq(Append(b, x), 1, Len(a)) = SubSeq(b, 1, Len(a))
      BY <2>1, <2>2, <3>1
    <3> QED
      BY <2>1, <3>1, <3>2
  <2>5. /\ Len(a) <= Len(u[m + (k + 1)])
        /\ a = SubSeq(u[m + (k + 1)], 1, Len(a))
    BY <2>1, <2>3, <2>4
  <2> QED
    BY <2>5 DEF a
<1> HIDE DEF M
<1>6. M = Nat
  BY <1>4, <1>5, Induction DEF M
<1>7. ASSUME NEW n \in m..Len(s)
      PROVE  Len(u[m]) <= Len(u[n]) /\ u[m] = SubSeq(u[n], 1, Len(u[m]))
  <2>1. n - m \in M /\ m + (n - m) = n /\ n <= Len(s)
    BY <1>1, <1>6
  <2> QED
    BY <2>1 DEF M
<1> QED
  BY <1>7 DEF u

\* All of a sequence, or nothing of it.
THEOREM SelectedAll ==
  ASSUME NEW S, NEW s \in Seq(S), NEW K, 1..Len(s) \subseteq K
  PROVE  Selected(s, K) = s
<1> DEFINE u == UpTo(s, K)
           M == {m \in Nat : m <= Len(s) => u[m] = SubSeq(s, 1, m)}
<1>1. Len(s) \in Nat
  OBVIOUS
<1>2. u[0] = <<>> /\ \A m \in 0..(Len(s) - 1) :
        u[m + 1] = IF m + 1 \in K THEN Append(u[m], s[m + 1]) ELSE u[m]
  BY UpToSteps
<1> HIDE DEF u
<1>3. 0 \in M
  <2>1. SubSeq(s, 1, 0) = <<>>
    OBVIOUS
  <2> QED
    BY <1>2, <2>1
<1>4. ASSUME NEW m \in M PROVE m + 1 \in M
  <2> SUFFICES ASSUME m + 1 <= Len(s) PROVE u[m + 1] = SubSeq(s, 1, m + 1)
    OBVIOUS
  <2>1. m \in 0..(Len(s) - 1) /\ m + 1 \in 1..Len(s) /\ u[m] = SubSeq(s, 1, m)
    BY <1>1
  <2>2. m + 1 \in K
    BY <2>1
  <2>3. u[m + 1] = Append(u[m], s[m + 1])
    BY <1>2, <2>1, <2>2
  <2>4. SubSeq(s, 1, m + 1) = Append(SubSeq(s, 1, m), s[m + 1])
    BY <1>1, <2>1
  <2> QED
    BY <2>1, <2>3, <2>4
<1> HIDE DEF M
<1>5. M = Nat
  BY <1>3, <1>4, Induction DEF M
<1> QED
  BY <1>1, <1>5 DEF M, u, Selected

THEOREM SelectedNone ==
  ASSUME NEW S, NEW s \in Seq(S), NEW K, (1..Len(s)) \cap K = {}
  PROVE  Selected(s, K) = <<>>
<1>1. Selected(s, K) \in Seq({})
  BY SelectedTyped
<1> QED
  BY <1>1

\* The concatenation, under a name of its own.
Joined(a, b) == a \o b

LEMMA JoinedIs ==
  ASSUME NEW S, NEW a \in Seq(S), NEW b \in Seq(S)
  PROVE  /\ Joined(a, b) \in Seq(S) /\ Len(Joined(a, b)) = Len(a) + Len(b)
         /\ \A i \in 1..Len(a) : Joined(a, b)[i] = a[i]
         /\ \A i \in 1..Len(b) : Joined(a, b)[Len(a) + i] = b[i]
         /\ Joined(a, <<>>) = a
BY DEF Joined

LEMMA JoinedAppend ==
  ASSUME NEW S, NEW a \in Seq(S), NEW b \in Seq(S), NEW x \in S
  PROVE  Append(Joined(a, b), x) = Joined(a, Append(b, x))
<1> DEFINE l == a \o Append(b, x)
           r == Append(a \o b, x)
<1>1. Len(a) \in Nat /\ Len(b) \in Nat
  OBVIOUS
<1>2. l \in Seq(S) /\ r \in Seq(S) /\ Len(l) = Len(a) + Len(b) + 1 /\ Len(r) = Len(l)
  BY <1>1
<1>3. ASSUME NEW i \in 1..Len(l) PROVE l[i] = r[i]
  <2>1. CASE i <= Len(a)
    BY <1>1, <1>2, <2>1
  <2>2. CASE i > Len(a) /\ i <= Len(a) + Len(b)
    BY <1>1, <1>2, <2>2
  <2>3. CASE i = Len(a) + Len(b) + 1
    BY <1>1, <1>2, <2>3
  <2> QED
    BY <1>1, <1>2, <2>1, <2>2, <2>3
<1> HIDE DEF l, r
<1>4. l = r
  BY <1>2, <1>3, SeqEqual
<1> QED
  BY <1>4 DEF l, r, Joined

\* Of two sequences in a row, what is selected of each, in a row.
LEMMA UpToConcat ==
  ASSUME NEW S, NEW s \in Seq(S), NEW t \in Seq(S), NEW K, NEW L,
         \A i \in 1..Len(t) : i \in L <=> Len(s) + i \in K
  PROVE  \A n \in 0..Len(t) :
           UpTo(Joined(s, t), K)[Len(s) + n] = Joined(Selected(s, K), UpTo(t, L)[n])
<1> DEFINE r == Joined(s, t)
           u == UpTo(r, K)
           v == UpTo(t, L)
           q == Selected(s, K)
           M == {m \in Nat : m <= Len(t) => u[Len(s) + m] = Joined(q, v[m])}
<1>1. /\ r \in Seq(S) /\ Len(r) = Len(s) + Len(t) /\ Len(s) \in Nat /\ Len(t) \in Nat
      /\ Len(s) <= Len(r) /\ Len(s) \in 0..Len(s)
      /\ \A i \in 1..Len(s) : s[i] = r[i]
      /\ \A i \in 1..Len(t) : t[i] = r[Len(s) + i]
  <2>1. Len(s) \in Nat /\ Len(t) \in Nat
    OBVIOUS
  <2>0. r = Joined(s, t)
    OBVIOUS
  <2> HIDE DEF r
  <2>2. /\ r \in Seq(S) /\ Len(r) = Len(s) + Len(t)
        /\ \A i \in 1..Len(s) : r[i] = s[i]
        /\ \A i \in 1..Len(t) : r[Len(s) + i] = t[i]
    BY <2>0 DEF Joined
  <2> QED
    BY <2>1, <2>2
<1> HIDE DEF r
<1>r. r \in Seq(S)
  BY <1>1
<1>2. \A m \in 0..(Len(r) - 1) :
        u[m + 1] = IF m + 1 \in K THEN Append(u[m], r[m + 1]) ELSE u[m]
  BY <1>r, UpToSteps
<1>3. v[0] = <<>> /\ \A m \in 0..(Len(t) - 1) :
        v[m + 1] = IF m + 1 \in L THEN Append(v[m], t[m + 1]) ELSE v[m]
  BY UpToSteps
<1>4. q = u[Len(s)] /\ q \in Seq(S)
  <2>1. \A i \in 1..Len(s) : i \in K => s[i] \in S
    OBVIOUS
  <2>2. UpTo(s, K)[Len(s)] = UpTo(r, K)[Len(s)]
    BY <1>1, UpToPrefix
  <2>3. Selected(s, K) \in Seq(S)
    BY <2>1, SelectedTyped
  <2> QED
    BY <2>2, <2>3 DEF Selected
<1>5. \A m \in 0..Len(t) : v[m] \in Seq(S)
  <2>1. \A i \in 1..Len(t) : i \in L => t[i] \in S
    OBVIOUS
  <2> QED
    BY <2>1, UpToTyped
<1> HIDE DEF u, v, q
<1>6. 0 \in M
  <2>1. Joined(q, <<>>) = q
    BY <1>4, JoinedIs
  <2>2. Len(s) + 0 = Len(s)
    BY <1>1
  <2> QED
    BY <1>3, <1>4, <2>1, <2>2
<1>7. ASSUME NEW m \in M PROVE m + 1 \in M
  <2> SUFFICES ASSUME m + 1 <= Len(t) PROVE u[Len(s) + (m + 1)] = Joined(q, v[m + 1])
    OBVIOUS
  <2> DEFINE p == Len(s) + m
  <2>1. /\ m \in 0..(Len(t) - 1) /\ m + 1 \in 1..Len(t) /\ p \in 0..(Len(r) - 1)
        /\ Len(s) + (m + 1) = p + 1
    BY <1>1
  <2>2. u[p] = Joined(q, v[m]) /\ r[p + 1] = t[m + 1] /\ (m + 1 \in L <=> p + 1 \in K)
    BY <1>1, <2>1
  <2>3. v[m] \in Seq(S) /\ t[m + 1] \in S
    BY <1>5, <2>1
  <2>4. u[p + 1] = IF p + 1 \in K THEN Append(u[p], r[p + 1]) ELSE u[p]
    BY <1>2, <2>1
  <2>5. v[m + 1] = IF m + 1 \in L THEN Append(v[m], t[m + 1]) ELSE v[m]
    BY <1>3, <2>1
  <2> HIDE DEF p
  <2>6. Append(Joined(q, v[m]), t[m + 1]) = Joined(q, Append(v[m], t[m + 1]))
    <3> DEFINE b == v[m]
               x == t[m + 1]
    <3>1. b \in Seq(S) /\ x \in S /\ q \in Seq(S)
      BY <1>4, <2>3
    <3> HIDE DEF b, x
    <3>2. Append(Joined(q, b), x) = Joined(q, Append(b, x))
      BY <3>1, JoinedAppend
    <3> QED
      BY <3>2 DEF b, x
  <2>7. u[p + 1] = Joined(q, v[m + 1])
    BY <2>2, <2>4, <2>5, <2>6
  <2> QED
    BY <2>1, <2>7
<1> HIDE DEF M
<1>8. M = Nat
  BY <1>6, <1>7, Induction DEF M
<1>9. ASSUME NEW n \in 0..Len(t) PROVE u[Len(s) + n] = Joined(q, v[n])
  <2>1. n \in M /\ n <= Len(t)
    BY <1>1, <1>8
  <2> QED
    BY <2>1 DEF M
<1> QED
  BY <1>9 DEF r, u, v, q

\* Only the positions that are there matter.
LEMMA SelectedSame ==
  ASSUME NEW S, NEW s \in Seq(S), NEW K, NEW L, \A i \in 1..Len(s) : i \in K <=> i \in L
  PROVE  Selected(s, K) = Selected(s, L)
<1>1. Len(s) \in 0..Len(s) /\ Len(s) <= Len(s)
  OBVIOUS
<1>2. UpTo(s, K)[Len(s)] = UpTo(s, L)[Len(s)]
  BY <1>1, UpToPrefix
<1> QED
  BY <1>2 DEF Selected

\* Of two sequences one after the other, what is selected of each.
THEOREM SelectedConcat ==
  ASSUME NEW S, NEW s \in Seq(S), NEW t \in Seq(S), NEW J, NEW L, NEW K,
         \A i \in 1..Len(s) : i \in J <=> i \in K,
         \A i \in 1..Len(t) : i \in L <=> Len(s) + i \in K
  PROVE  Selected(s \o t, K) = Selected(s, J) \o Selected(t, L)
<1>1. Len(Joined(s, t)) = Len(s) + Len(t)
  BY JoinedIs
<1>2. Len(t) \in 0..Len(t)
  OBVIOUS
<1>3. UpTo(Joined(s, t), K)[Len(s) + Len(t)] = Joined(Selected(s, K), UpTo(t, L)[Len(t)])
  BY <1>2, UpToConcat
<1>4. Selected(Joined(s, t), K) = Joined(Selected(s, K), Selected(t, L))
  BY <1>1, <1>3 DEF Selected
<1>5. Selected(s, J) = Selected(s, K)
  BY SelectedSame
<1> QED
  BY <1>4, <1>5, Zenon DEF Joined

\* Where the chosen elements differ from each other, so do those selected.
THEOREM SelectedDistinct ==
  ASSUME NEW S, NEW s \in Seq(S), NEW K,
         \A i, j \in 1..Len(s) : i \in K /\ j \in K /\ s[i] = s[j] => i = j
  PROVE  \A i, j \in 1..Len(Selected(s, K)) : Selected(s, K)[i] = Selected(s, K)[j] => i = j
<1> DEFINE u == UpTo(s, K)
           Apart(t) == \A i, j \in 1..Len(t) : t[i] = t[j] => i = j
           From(t, m) == \A p \in 1..Len(t) : \E i \in 1..m : i \in K /\ s[i] = t[p]
           M == {m \in Nat : m <= Len(s) => Apart(u[m]) /\ From(u[m], m)}
<1>1. Len(s) \in Nat
  OBVIOUS
<1>2. u[0] = <<>> /\ \A m \in 0..(Len(s) - 1) :
        u[m + 1] = IF m + 1 \in K THEN Append(u[m], s[m + 1]) ELSE u[m]
  BY UpToSteps
<1>3. \A m \in 0..Len(s) : u[m] \in Seq(S)
  <2>1. \A i \in 1..Len(s) : i \in K => s[i] \in S
    OBVIOUS
  <2> QED
    BY <2>1, UpToTyped
<1> HIDE DEF u
<1>4. 0 \in M
  BY <1>2
<1>5. ASSUME NEW m \in M PROVE m + 1 \in M
  <2> SUFFICES ASSUME m + 1 <= Len(s) PROVE Apart(u[m + 1]) /\ From(u[m + 1], m + 1)
    OBVIOUS
  <2> DEFINE t == u[m]
             x == s[m + 1]
  <2>1. /\ Apart(t) /\ From(t, m) /\ m \in Nat /\ m \in 0..(Len(s) - 1)
        /\ m \in 0..Len(s) /\ m + 1 \in 1..Len(s)
    BY <1>1
  <2>2. t \in Seq(S) /\ x \in S
    BY <1>3, <2>1
  <2>3. CASE m + 1 \in K
    <3> DEFINE v == Append(t, x)
    <3>1. u[m + 1] = v
      BY <1>2, <2>1, <2>3
    <3> HIDE DEF t
    <3>2. /\ Len(v) = Len(t) + 1 /\ v[Len(t) + 1] = x /\ Len(t) \in Nat
          /\ \A i \in 1..Len(t) : v[i] = t[i]
      BY <2>2
    <3> HIDE DEF v
    <3>3. ASSUME NEW p \in 1..Len(t) PROVE t[p] # x
      <4>1. PICK i \in 1..m : i \in K /\ s[i] = t[p]
        BY <2>1
      <4>2. i \in 1..Len(s) /\ i # m + 1
        BY <2>1
      <4> QED
        BY <2>1, <2>3, <4>1, <4>2
    <3>4. From(v, m + 1)
      <4> SUFFICES ASSUME NEW p \in 1..Len(v) PROVE \E i \in 1..(m + 1) : i \in K /\ s[i] = v[p]
        OBVIOUS
      <4>1. CASE p = Len(t) + 1
        BY <2>1, <2>3, <3>2, <4>1
      <4>2. CASE p # Len(t) + 1
        <5>1. p \in 1..Len(t)
          BY <3>2, <4>2
        <5>2. PICK i \in 1..m : i \in K /\ s[i] = t[p]
          BY <2>1, <5>1
        <5>3. i \in 1..(m + 1)
          BY <2>1
        <5> QED
          BY <3>2, <5>1, <5>2, <5>3
      <4> QED
        BY <4>1, <4>2
    <3>5. Apart(v)
      <4> SUFFICES ASSUME NEW i \in 1..Len(v), NEW j \in 1..Len(v), v[i] = v[j] PROVE i = j
        OBVIOUS
      <4>1. CASE i \in 1..Len(t) /\ j \in 1..Len(t)
        BY <2>1, <3>2, <4>1
      <4>2. ASSUME NEW p \in 1..Len(v), NEW q \in 1..Len(t), v[p] = v[q], p = Len(t) + 1
            PROVE  FALSE
        BY <3>2, <3>3, <4>2
      <4>3. CASE i = Len(t) + 1 /\ j \in 1..Len(t)
        BY <4>2, <4>3
      <4>4. CASE j = Len(t) + 1 /\ i \in 1..Len(t)
        BY <4>2, <4>4
      <4>5. /\ i = Len(t) + 1 \/ i \in 1..Len(t)
            /\ j = Len(t) + 1 \/ j \in 1..Len(t)
        BY <3>2
      <4> QED
        BY <4>1, <4>3, <4>4, <4>5
    <3> QED
      BY <3>1, <3>4, <3>5
  <2>4. CASE m + 1 \notin K
    <3>1. u[m + 1] = t
      BY <1>2, <2>1, <2>4
    <3> HIDE DEF t
    <3>2. From(t, m + 1)
      BY <2>1
    <3> QED
      BY <2>1, <3>1, <3>2
  <2> QED
    BY <2>3, <2>4
<1> HIDE DEF M
<1>6. M = Nat
  BY <1>4, <1>5, Induction DEF M
<1>7. Apart(u[Len(s)])
  BY <1>1, <1>6 DEF M
<1> QED
  BY <1>7 DEF Selected, u
=============================================================================
