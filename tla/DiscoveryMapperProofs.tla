----------------------- MODULE DiscoveryMapperProofs -----------------------
(***************************************************************************)
(* What the mapper that NewDiscoveryRESTMapper builds resolves a resource  *)
(* to, for any groups, versions and resources.                             *)
(*                                                                         *)
(* The loops of the code are recursive functions.  What they compute is    *)
(* proved by induction over sets of numbers.                               *)
(***************************************************************************)
EXTENDS DiscoveryMapper, WellFoundedInduction, TLAPS

-----------------------------------------------------------------------------
(* Induction and recursion *)

\* A set of numbers has a least element.
LEMMA Least ==
    ASSUME NEW T, T \subseteq Nat, T # {}
    PROVE  \E x \in T : \A y \in T : x <= y
<1> DEFINE R == OpToRel(<, Nat)
<1>1. IsWellFoundedOn(R, Nat)
  BY NatLessThanWellFounded
<1>2. \A x, y \in Nat : y < x => <<y, x>> \in R
  BY DEF OpToRel
<1> HIDE DEF R
<1>3. \E x \in T : \A y \in T : ~(<<y, x>> \in R)
  BY <1>1, WFMin
<1>4. PICK x \in T : \A y \in T : ~(<<y, x>> \in R)
  BY <1>3
<1>5. ASSUME NEW y \in T PROVE x <= y
  <2>1. x \in Nat /\ y \in Nat
    OBVIOUS
  <2>2. ~(y < x)
    BY <1>2, <1>4, <2>1
  <2> QED BY <2>1, <2>2
<1> QED BY <1>5

\* Min is that element.
LEMMA MinIsLeast ==
    ASSUME NEW T, T \subseteq Nat, T # {}
    PROVE  Min(T) \in T /\ \A y \in T : Min(T) <= y
BY Least DEF Min

LEMMA MinIs ==
    ASSUME NEW T, T \subseteq Nat, NEW x \in T, \A y \in T : x <= y
    PROVE  Min(T) = x
<1>1. Min(T) \in T /\ \A y \in T : Min(T) <= y
  BY MinIsLeast
<1> HIDE DEF Min
<1>2. Min(T) \in Nat /\ x \in Nat /\ Min(T) <= x /\ x <= Min(T)
  BY <1>1
<1> QED BY <1>2

\* Induction up to n, for a set.
LEMMA Induction ==
    ASSUME NEW n \in Nat, NEW T, 0 \in T,
           \A m \in 0 .. n : m + 1 \in 0 .. n /\ m \in T => m + 1 \in T
    PROVE  0 .. n \subseteq T
<1> DEFINE U == {m \in 0 .. n : m \notin T}
<1>1. SUFFICES ASSUME U # {} PROVE FALSE
  OBVIOUS
<1>2. PICK x \in U : \A y \in U : x <= y
  <2>1. U \subseteq Nat
    OBVIOUS
  <2> HIDE DEF U
  <2> QED BY <1>1, <2>1, Least
<1>3. x \in 0 .. n /\ x # 0 /\ x - 1 \in 0 .. n /\ (x - 1) + 1 = x
  OBVIOUS
<1>4. x - 1 \in T
  BY <1>2, <1>3
<1> QED BY <1>3, <1>4

\* A loop of n steps over states of a set has a run.
IsRun(f, n, s, step) == f[0] = s /\ \A i \in 1 .. n : f[i] = step[i][f[i - 1]]

LEMMA Recursion ==
    ASSUME NEW n \in Nat, NEW S, NEW s \in S, NEW step \in [1 .. n -> [S -> S]]
    PROVE  \E f \in [0 .. n -> S] : IsRun(f, n, s, step)
<1> USE DEF IsRun
<1> DEFINE Run(m, f) == IsRun(f, m, s, step)
           T == {m \in 0 .. n : \E f \in [0 .. m -> S] : Run(m, f)}
<1>1. 0 \in T
  <2> DEFINE g == [i \in 0 .. 0 |-> s]
  <2>1. g \in [0 .. 0 -> S] /\ Run(0, g)
    OBVIOUS
  <2>2. 0 \in 0 .. n
    OBVIOUS
  <2> HIDE DEF Run, g
  <2> QED BY <2>1, <2>2
<1>2. ASSUME NEW m \in 0 .. n, m + 1 \in 0 .. n, m \in T
      PROVE  m + 1 \in T
  <2>1. PICK f \in [0 .. m -> S] : Run(m, f)
    BY <1>2
  <2> DEFINE g == [i \in 0 .. m + 1 |-> IF i = m + 1 THEN step[m + 1][f[m]] ELSE f[i]]
  <2>2. m + 1 \in 1 .. n /\ f[m] \in S
    BY <1>2
  <2>3. step[m + 1][f[m]] \in S
    BY <2>2
  <2>4. g \in [0 .. m + 1 -> S]
    BY <2>3
  <2>5. g[0] = s
    BY <2>1
  <2>6. ASSUME NEW i \in 1 .. m + 1 PROVE g[i] = step[i][g[i - 1]]
    <3>1. CASE i = m + 1
      BY <3>1
    <3>2. CASE i # m + 1
      <4>1. i \in 1 .. m /\ i - 1 \in 0 .. m
        BY <3>2
      <4>2. g[i] = f[i] /\ g[i - 1] = f[i - 1]
        BY <3>2, <4>1
      <4> QED BY <2>1, <4>1, <4>2
    <3> QED BY <3>1, <3>2
  <2>7. Run(m + 1, g)
    BY <2>5, <2>6
  <2> HIDE DEF Run, g
  <2> QED BY <1>2, <2>4, <2>7
<1>3. n \in T
  <2> HIDE DEF T
  <2>1. 0 .. n \subseteq T
    BY <1>1, <1>2, Induction
  <2> QED BY <2>1
<1> QED BY <1>3

-----------------------------------------------------------------------------
(* Lists that are appended to, and the first element of a kind *)

\* s has no element of the kind M; x is its first one.
Absent(s, M) == \A k \in 1 .. Len(s) : s[k] \notin M
FirstIn(s, M, x) ==
    \E k \in 1 .. Len(s) : /\ s[k] = x /\ x \in M
                           /\ \A l \in 1 .. k - 1 : s[l] \notin M

LEMMA AbsentConcat ==
    ASSUME NEW S, NEW s \in Seq(S), NEW t \in Seq(S), NEW M, Absent(s, M), Absent(t, M)
    PROVE  Absent(s \o t, M)
<1>1. SUFFICES ASSUME NEW k \in 1 .. Len(s \o t) PROVE (s \o t)[k] \notin M
  BY DEF Absent
<1>2. CASE k <= Len(s)
  BY <1>2 DEF Absent
<1>3. CASE k > Len(s)
  <2>1. k - Len(s) \in 1 .. Len(t) /\ (s \o t)[k] = t[k - Len(s)]
    BY <1>3
  <2> QED BY <2>1 DEF Absent
<1> QED BY <1>2, <1>3

\* The first element of a list stays the first one.
LEMMA FirstStays ==
    ASSUME NEW S, NEW s \in Seq(S), NEW t \in Seq(S), NEW M, NEW x, FirstIn(s, M, x)
    PROVE  FirstIn(s \o t, M, x)
<1>1. PICK k \in 1 .. Len(s) : /\ s[k] = x /\ x \in M
                              /\ \A l \in 1 .. k - 1 : s[l] \notin M
  BY DEF FirstIn
<1>2. k \in 1 .. Len(s \o t) /\ (s \o t)[k] = x
  BY <1>1
<1>3. ASSUME NEW l \in 1 .. k - 1 PROVE (s \o t)[l] \notin M
  BY <1>1
<1> QED BY <1>1, <1>2, <1>3 DEF FirstIn

\* If the list has none, the first one is that of what is appended.
LEMMA FirstAppended ==
    ASSUME NEW S, NEW s \in Seq(S), NEW t \in Seq(S), NEW M, NEW x,
           Absent(s, M), FirstIn(t, M, x)
    PROVE  FirstIn(s \o t, M, x)
<1>1. PICK k \in 1 .. Len(t) : /\ t[k] = x /\ x \in M
                              /\ \A l \in 1 .. k - 1 : t[l] \notin M
  BY DEF FirstIn
<1>2. /\ Len(s) + k \in 1 .. Len(s \o t)
      /\ (s \o t)[Len(s) + k] = x
  BY <1>1
<1>3. ASSUME NEW l \in 1 .. (Len(s) + k) - 1 PROVE (s \o t)[l] \notin M
  <2>1. CASE l <= Len(s)
    BY <2>1 DEF Absent
  <2>2. CASE l > Len(s)
    <3>1. l - Len(s) \in 1 .. k - 1 /\ (s \o t)[l] = t[l - Len(s)]
      BY <2>2
    <3> QED BY <1>1, <3>1
  <2> QED BY <2>1, <2>2
<1> QED BY <1>1, <1>2, <1>3 DEF FirstIn

\* A list of one element.
LEMMA FirstOfOne ==
    ASSUME NEW M, NEW x \in M
    PROVE  FirstIn(<<x>>, M, x)
BY DEF FirstIn

LEMMA AbsentOne ==
    ASSUME NEW M, NEW x, x \notin M
    PROVE  Absent(<<x>>, M) /\ Absent(<< >>, M)
BY DEF Absent

\* The stages of Appended.
LEMMA AppendedRun ==
    ASSUME NEW S, NEW parts \in Seq(Seq(S))
    PROVE  \E f \in [0 .. Len(parts) -> Seq(S)] :
             /\ f[0] = << >>
             /\ \A i \in 1 .. Len(parts) : f[i] = f[i - 1] \o parts[i]
             /\ Appended(parts) = f[Len(parts)]
<1> DEFINE n == Len(parts)
           F == CHOOSE g : g = [i \in 0 .. Len(parts) |->
                                  IF i = 0 THEN << >> ELSE g[i - 1] \o parts[i]]
           Q == Seq(S)
           empty == << >>
           step == [i \in 1 .. n |-> [s \in Q |-> s \o parts[i]]]
<1>1. n \in Nat /\ parts \in [1 .. n -> Seq(S)]
  OBVIOUS
<1>2. step \in [1 .. n -> [Q -> Q]] /\ empty \in Q
  BY <1>1
<1>3. PICK f \in [0 .. n -> Q] : IsRun(f, n, empty, step)
  <2> HIDE DEF n, F, step, Q, empty
  <2> QED BY <1>1, <1>2, Recursion
<1> USE DEF IsRun
<1>4. ASSUME NEW i \in 1 .. n PROVE f[i] = f[i - 1] \o parts[i]
  <2>1. i - 1 \in 0 .. n
    BY <1>1
  <2>2. f[i - 1] \in Q
    BY <2>1
  <2>3. step[i][f[i - 1]] = f[i - 1] \o parts[i]
    BY <2>2
  <2> QED BY <1>3, <2>3
<1>5. f = [i \in 0 .. n |-> IF i = 0 THEN << >> ELSE f[i - 1] \o parts[i]]
  <2>1. ASSUME NEW i \in 0 .. n
        PROVE  f[i] = IF i = 0 THEN << >> ELSE f[i - 1] \o parts[i]
    <3>1. CASE i = 0
      BY <1>3, <3>1
    <3>2. CASE i # 0
      <4>1. i \in 1 .. n
        BY <1>1, <3>2
      <4> QED BY <1>4, <3>2, <4>1
    <3> QED BY <3>1, <3>2
  <2> QED BY <2>1
<1>6. F = [i \in 0 .. n |-> IF i = 0 THEN << >> ELSE F[i - 1] \o parts[i]]
  BY <1>5
<1>7. Appended(parts) = F[n]
  BY DEF Appended
<1> HIDE DEF F, n
<1>8. F[0] = << >>
  <2>1. 0 \in 0 .. n
    BY <1>1
  <2> QED BY <1>6, <2>1
<1>9. ASSUME NEW i \in 1 .. n PROVE F[i] = F[i - 1] \o parts[i]
  <2>1. i \in 0 .. n /\ i # 0
    BY <1>1
  <2> QED BY <1>6, <2>1
<1> DEFINE T == {m \in 0 .. n : F[m] = f[m]}
<1>10. 0 \in T
  BY <1>1, <1>3, <1>8
<1>11. ASSUME NEW m \in 0 .. n, m + 1 \in 0 .. n, m \in T PROVE m + 1 \in T
  <2>1. m + 1 \in 1 .. n /\ (m + 1) - 1 = m
    BY <1>1, <1>11
  <2>2. F[m + 1] = F[m] \o parts[m + 1] /\ f[m + 1] = f[m] \o parts[m + 1]
    BY <1>4, <1>9, <2>1
  <2> QED BY <1>11, <2>2
<1>12. n \in T
  <2> HIDE DEF T
  <2>1. 0 .. n \subseteq T
    BY <1>1, <1>10, <1>11, Induction
  <2> QED BY <1>1, <2>1
<1>13. Appended(parts) = f[n]
  BY <1>7, <1>12
<1> USE DEF n
<1> QED BY <1>3, <1>4, <1>13, Zenon

LEMMA AppendedType ==
    ASSUME NEW S, NEW parts \in Seq(Seq(S))
    PROVE  Appended(parts) \in Seq(S)
<1> DEFINE n == Len(parts)
<1>1. PICK f \in [0 .. n -> Seq(S)] : Appended(parts) = f[n]
  BY AppendedRun
<1>2. n \in 0 .. n
  OBVIOUS
<1> QED BY <1>1, <1>2

\* Nothing of the kind is appended.
LEMMA AbsentAppended ==
    ASSUME NEW S, NEW parts \in Seq(Seq(S)), NEW M,
           \A i \in 1 .. Len(parts) : Absent(parts[i], M)
    PROVE  Absent(Appended(parts), M)
<1> DEFINE n == Len(parts)
<1>1. n \in Nat /\ parts \in [1 .. n -> Seq(S)] /\ \A i \in 1 .. n : Absent(parts[i], M)
  OBVIOUS
<1>2. PICK f \in [0 .. n -> Seq(S)] :
        /\ f[0] = << >> /\ \A i \in 1 .. n : f[i] = f[i - 1] \o parts[i]
        /\ Appended(parts) = f[n]
  BY AppendedRun
<1> HIDE DEF n
<1> DEFINE T == {m \in 0 .. n : Absent(f[m], M)}
<1>3. 0 \in T
  BY <1>1, <1>2 DEF Absent
<1>4. ASSUME NEW m \in 0 .. n, m + 1 \in 0 .. n, m \in T PROVE m + 1 \in T
  <2>1. m + 1 \in 1 .. n /\ (m + 1) - 1 = m
    BY <1>1, <1>4
  <2>2. f[m + 1] = f[m] \o parts[m + 1]
    BY <1>2, <2>1
  <2>3. f[m] \in Seq(S) /\ parts[m + 1] \in Seq(S)
    BY <1>1, <2>1
  <2>4. Absent(f[m] \o parts[m + 1], M)
    BY <1>1, <1>4, <2>1, <2>3, AbsentConcat
  <2> QED BY <1>4, <2>2, <2>4
<1>5. n \in T
  <2> HIDE DEF T
  <2>1. 0 .. n \subseteq T
    BY <1>1, <1>3, <1>4, Induction
  <2> QED BY <1>1, <2>1
<1> QED BY <1>2, <1>5

\* The first one that is appended is the first one of the list.
LEMMA FirstInAppended ==
    ASSUME NEW S, NEW parts \in Seq(Seq(S)), NEW M, NEW x,
           NEW p \in 1 .. Len(parts), FirstIn(parts[p], M, x),
           \A i \in 1 .. p - 1 : Absent(parts[i], M)
    PROVE  FirstIn(Appended(parts), M, x)
<1> DEFINE n == Len(parts)
<1>1. n \in Nat /\ parts \in [1 .. n -> Seq(S)] /\ p \in 1 .. n
  OBVIOUS
<1>2. PICK f \in [0 .. n -> Seq(S)] :
        /\ f[0] = << >> /\ \A i \in 1 .. n : f[i] = f[i - 1] \o parts[i]
        /\ Appended(parts) = f[n]
  BY AppendedRun
<1> HIDE DEF n
<1> DEFINE Until(m) == IF m < p THEN Absent(f[m], M) ELSE FirstIn(f[m], M, x)
           T == {m \in 0 .. n : Until(m)}
<1>3. 0 \in T
  BY <1>1, <1>2 DEF Absent
<1>4. ASSUME NEW m \in 0 .. n, m + 1 \in 0 .. n, m \in T PROVE m + 1 \in T
  <2>1. m + 1 \in 1 .. n /\ (m + 1) - 1 = m /\ Until(m)
    BY <1>1, <1>4
  <2>2. f[m + 1] = f[m] \o parts[m + 1]
    BY <1>2, <2>1
  <2>3. f[m] \in Seq(S) /\ parts[m + 1] \in Seq(S)
    BY <1>1, <2>1
  <2>4. CASE m + 1 < p
    <3>1. Absent(f[m], M) /\ Absent(parts[m + 1], M)
      BY <1>1, <2>1, <2>4
    <3>2. Absent(f[m] \o parts[m + 1], M)
      BY <2>3, <3>1, AbsentConcat
    <3> QED BY <1>4, <2>2, <2>4, <3>2
  <2>5. CASE m + 1 = p
    <3>1. Absent(f[m], M) /\ FirstIn(parts[m + 1], M, x)
      <4>1. m < p
        BY <1>1, <2>5
      <4> QED BY <2>1, <2>5, <4>1
    <3>2. FirstIn(f[m] \o parts[m + 1], M, x)
      BY <2>3, <3>1, FirstAppended
    <3>3. ~(m + 1 < p)
      BY <1>1, <2>5
    <3> QED BY <1>4, <2>2, <3>2, <3>3
  <2>6. CASE m + 1 > p
    <3>1. FirstIn(f[m], M, x)
      BY <1>1, <2>1, <2>6
    <3>2. FirstIn(f[m] \o parts[m + 1], M, x)
      BY <2>3, <3>1, FirstStays
    <3>3. ~(m + 1 < p)
      BY <1>1, <2>6
    <3> QED BY <1>4, <2>2, <3>2, <3>3
  <2> QED BY <1>1, <2>4, <2>5, <2>6
<1>5. n \in T
  <2> HIDE DEF T
  <2>1. 0 .. n \subseteq T
    BY <1>1, <1>3, <1>4, Induction
  <2> QED BY <1>1, <2>1
<1>6. FirstIn(f[n], M, x)
  BY <1>1, <1>5
<1> QED BY <1>2, <1>6

\* The elements of the list are those that were appended.
Element(x, s) == \E k \in 1 .. Len(s) : s[k] = x

LEMMA AppendedElements ==
    ASSUME NEW S, NEW parts \in Seq(Seq(S)), NEW x
    PROVE  Element(x, Appended(parts))
             <=> \E i \in 1 .. Len(parts) : Element(x, parts[i])
<1>1. ASSUME \A i \in 1 .. Len(parts) : ~Element(x, parts[i])
      PROVE  ~Element(x, Appended(parts))
  <2>1. \A i \in 1 .. Len(parts) : Absent(parts[i], {x})
    BY <1>1 DEF Absent, Element
  <2>2. Absent(Appended(parts), {x})
    BY <2>1, AbsentAppended
  <2> QED BY <2>2 DEF Absent, Element
<1>2. ASSUME \E i \in 1 .. Len(parts) : Element(x, parts[i])
      PROVE  Element(x, Appended(parts))
  <2> DEFINE I == {i \in 1 .. Len(parts) : Element(x, parts[i])}
  <2>1. I \subseteq Nat /\ I # {}
    <3>1. 1 .. Len(parts) \subseteq Nat
      OBVIOUS
    <3> QED BY <1>2, <3>1, Zenon
  <2>2. PICK p \in I : \A i \in I : p <= i
    <3> HIDE DEF I
    <3> QED BY <2>1, Least
  <2>3. ASSUME NEW i \in 1 .. p - 1 PROVE Absent(parts[i], {x})
    <3>1. p \in 1 .. Len(parts)
      BY <2>2
    <3>2. i \in 1 .. Len(parts) /\ ~(p <= i)
      BY <3>1
    <3>3. ~Element(x, parts[i])
      BY <2>2, <3>2
    <3> QED BY <3>3 DEF Absent, Element
  <2> DEFINE K == {k \in 1 .. Len(parts[p]) : parts[p][k] = x}
  <2>4. p \in 1 .. Len(parts) /\ parts[p] \in Seq(S) /\ K \subseteq Nat /\ K # {}
    BY DEF Element
  <2>5. PICK k \in K : \A l \in K : k <= l
    <3> HIDE DEF K
    <3> QED BY <2>4, Least
  <2>6. FirstIn(parts[p], {x}, x)
    <3>1. k \in 1 .. Len(parts[p]) /\ parts[p][k] = x /\ x \in {x}
      OBVIOUS
    <3>2. ASSUME NEW l \in 1 .. k - 1 PROVE parts[p][l] \notin {x}
      <4>1. l \in 1 .. Len(parts[p]) /\ ~(k <= l)
        BY <2>4, <3>1
      <4> QED BY <2>5, <4>1
    <3> QED BY <3>1, <3>2 DEF FirstIn
  <2>7. FirstIn(Appended(parts), {x}, x)
    BY <2>3, <2>4, <2>6, FirstInAppended
  <2> QED BY <2>7 DEF FirstIn, Element
<1> QED BY <1>1, <1>2

-----------------------------------------------------------------------------
(* What is left when the patterns are through *)

Chosen(left) ==
    IF \E c \in left : left = {c} THEN CHOOSE c \in left : TRUE ELSE NoMatch

LEMMA NarrowSubset ==
    ASSUME NEW C, NEW p, NEW A \in SUBSET C
    PROVE  Narrow(p, A) \in SUBSET C
BY DEF Narrow

\* The stages of Preferred.
LEMMA NarrowRun ==
    ASSUME NEW P, NEW mapper, mapper.priority \in Seq(P), NEW C
    PROVE  \E f \in [0 .. Len(mapper.priority) -> SUBSET C] :
             /\ f[0] = C
             /\ \A k \in 1 .. Len(mapper.priority) :
                  f[k] = Narrow(mapper.priority[k], f[k - 1])
             /\ Preferred(mapper, C) = Chosen(f[Len(mapper.priority)])
<1> DEFINE n == Len(mapper.priority)
           F == CHOOSE g : g = [k \in 0 .. Len(mapper.priority) |->
                  IF k = 0 THEN C ELSE Narrow(mapper.priority[k], g[k - 1])]
           Q == SUBSET C
           step == [k \in 1 .. n |-> [A \in Q |-> Narrow(mapper.priority[k], A)]]
<1>1. n \in Nat
  OBVIOUS
<1>2. step \in [1 .. n -> [Q -> Q]] /\ C \in Q
  BY NarrowSubset
<1>3. PICK f \in [0 .. n -> Q] : IsRun(f, n, C, step)
  <2> HIDE DEF n, F, step, Q
  <2> QED BY <1>1, <1>2, Recursion
<1> USE DEF IsRun
<1>4. ASSUME NEW k \in 1 .. n PROVE f[k] = Narrow(mapper.priority[k], f[k - 1])
  <2>1. k - 1 \in 0 .. n
    BY <1>1
  <2>2. f[k - 1] \in Q
    BY <2>1
  <2>3. step[k][f[k - 1]] = Narrow(mapper.priority[k], f[k - 1])
    BY <2>2
  <2> QED BY <1>3, <2>3
<1>5. f = [k \in 0 .. n |-> IF k = 0 THEN C ELSE Narrow(mapper.priority[k], f[k - 1])]
  <2>1. ASSUME NEW k \in 0 .. n
        PROVE  f[k] = IF k = 0 THEN C ELSE Narrow(mapper.priority[k], f[k - 1])
    <3>1. CASE k = 0
      BY <1>3, <3>1
    <3>2. CASE k # 0
      <4>1. k \in 1 .. n
        BY <1>1, <3>2
      <4> QED BY <1>4, <3>2, <4>1
    <3> QED BY <3>1, <3>2
  <2> QED BY <2>1
<1>6. F = [k \in 0 .. n |-> IF k = 0 THEN C ELSE Narrow(mapper.priority[k], F[k - 1])]
  BY <1>5
<1>7. Preferred(mapper, C) = Chosen(F[n])
  BY DEF Preferred, Chosen
<1> HIDE DEF F, n
<1>8. F[0] = C
  <2>1. 0 \in 0 .. n
    BY <1>1
  <2> QED BY <1>6, <2>1
<1>9. ASSUME NEW k \in 1 .. n PROVE F[k] = Narrow(mapper.priority[k], F[k - 1])
  <2>1. k \in 0 .. n /\ k # 0
    BY <1>1
  <2> QED BY <1>6, <2>1
<1> DEFINE T == {m \in 0 .. n : F[m] = f[m]}
<1>10. 0 \in T
  BY <1>1, <1>3, <1>8
<1>11. ASSUME NEW m \in 0 .. n, m + 1 \in 0 .. n, m \in T PROVE m + 1 \in T
  <2>1. m + 1 \in 1 .. n /\ (m + 1) - 1 = m
    BY <1>1, <1>11
  <2>2. /\ F[m + 1] = Narrow(mapper.priority[m + 1], F[m])
        /\ f[m + 1] = Narrow(mapper.priority[m + 1], f[m])
    BY <1>4, <1>9, <2>1
  <2> QED BY <1>11, <2>2
<1>12. n \in T
  <2> HIDE DEF T
  <2>1. 0 .. n \subseteq T
    BY <1>1, <1>10, <1>11, Induction
  <2> QED BY <1>1, <2>1
<1>13. Preferred(mapper, C) = Chosen(f[n])
  BY <1>7, <1>12
<1>14. f[0] = C
  BY <1>3
<1> USE DEF n
<1> QED BY <1>4, <1>13, <1>14, Zenon

\* Without candidates there is no match.
LEMMA PreferredOfNone ==
    ASSUME NEW P, NEW mapper, mapper.priority \in Seq(P)
    PROVE  Preferred(mapper, {}) = NoMatch
<1> DEFINE n == Len(mapper.priority)
           C == {}
<1>1. PICK f \in [0 .. n -> SUBSET C] : Preferred(mapper, C) = Chosen(f[n])
  <2> HIDE DEF C
  <2> QED BY NarrowRun
<1>2. f[n] = {}
  <2>1. n \in 0 .. n
    OBVIOUS
  <2> QED BY <2>1
<1> QED BY <1>1, <1>2 DEF Chosen

\* The patterns that fit a candidate.
FittingAny(P, C) == {p \in P : \E d \in C : Fits(p, d)}

FitsOnly(q, C, c) == \A d \in C : Fits(q, d) <=> d = c

\* If the first pattern that fits any candidate fits only one, it is chosen.
LEMMA PreferredIs ==
    ASSUME NEW P, NEW mapper, mapper.priority \in Seq(P), NEW C, NEW q, NEW c \in C,
           FirstIn(mapper.priority, FittingAny(P, C), q),
           FitsOnly(q, C, c)
    PROVE  Preferred(mapper, C) = c
<1> DEFINE n == Len(mapper.priority)
           M == FittingAny(P, C)
<1>1. PICK f \in [0 .. n -> SUBSET C] :
        /\ f[0] = C
        /\ \A k \in 1 .. n : f[k] = Narrow(mapper.priority[k], f[k - 1])
        /\ Preferred(mapper, C) = Chosen(f[n])
  BY NarrowRun
<1>2. PICK m \in 1 .. n : /\ mapper.priority[m] = q /\ q \in M
                         /\ \A l \in 1 .. m - 1 : mapper.priority[l] \notin M
  BY DEF FirstIn
<1>3. n \in Nat /\ \A k \in 1 .. n : mapper.priority[k] \in P
  OBVIOUS
<1>4. ASSUME NEW p \in P, p \notin M PROVE Narrow(p, C) = C
  BY <1>4 DEF Narrow, FittingAny
<1>5. Narrow(q, C) = {c}
  BY DEF Narrow, FitsOnly
<1>6. ASSUME NEW p PROVE Narrow(p, {c}) = {c}
  BY DEF Narrow
<1> HIDE DEF n, M
<1> DEFINE Left(k) == IF k < m THEN f[k] = C ELSE f[k] = {c}
           T == {k \in 0 .. n : Left(k)}
<1>7. 0 \in T
  BY <1>1, <1>2, <1>3
<1>8. ASSUME NEW k \in 0 .. n, k + 1 \in 0 .. n, k \in T PROVE k + 1 \in T
  <2>1. k + 1 \in 1 .. n /\ (k + 1) - 1 = k /\ Left(k)
    BY <1>3, <1>8
  <2>2. f[k + 1] = Narrow(mapper.priority[k + 1], f[k])
    BY <1>1, <2>1
  <2>3. CASE k + 1 < m
    <3>1. k + 1 \in 1 .. m - 1 /\ f[k] = C
      BY <1>3, <2>1, <2>3
    <3>2. mapper.priority[k + 1] \in P /\ mapper.priority[k + 1] \notin M
      BY <1>2, <1>3, <2>1, <3>1
    <3>3. f[k + 1] = C
      BY <1>4, <2>2, <3>1, <3>2
    <3> QED BY <1>8, <2>3, <3>3
  <2>4. CASE k + 1 = m
    <3>1. k < m /\ ~(k + 1 < m)
      BY <1>3, <2>4
    <3>2. f[k + 1] = {c}
      BY <1>2, <1>5, <2>1, <2>2, <2>4, <3>1
    <3> QED BY <1>8, <3>1, <3>2
  <2>5. CASE k + 1 > m
    <3>1. ~(k < m) /\ ~(k + 1 < m)
      BY <1>3, <2>5
    <3>2. f[k + 1] = {c}
      BY <1>6, <2>1, <2>2, <3>1
    <3> QED BY <1>8, <3>1, <3>2
  <2> QED BY <1>3, <2>3, <2>4, <2>5
<1>9. n \in T
  <2> HIDE DEF T
  <2>1. 0 .. n \subseteq T
    BY <1>3, <1>7, <1>8, Induction
  <2> QED BY <1>3, <2>1
<1>10. f[n] = {c}
  BY <1>2, <1>3, <1>9
<1>11. Chosen({c}) = c
  BY DEF Chosen
<1> QED BY <1>1, <1>10, <1>11

-----------------------------------------------------------------------------
(* Lists of what belongs to the versions that are wanted *)

\* One part for each place: its element, if the place is wanted.
Wanted(n, e, K) == [j \in 1 .. n |-> IF j \in K THEN <<e[j]>> ELSE << >>]

LEMMA WantedIn ==
    ASSUME NEW n, NEW e, NEW K, NEW j \in 1 .. n, j \in K
    PROVE  Wanted(n, e, K)[j] = <<e[j]>>
BY DEF Wanted

LEMMA WantedOut ==
    ASSUME NEW n, NEW e, NEW K, NEW j \in 1 .. n, j \notin K
    PROVE  Wanted(n, e, K)[j] = << >>
BY DEF Wanted

LEMMA WantedParts ==
    ASSUME NEW n \in Nat, NEW S, NEW e \in [1 .. n -> S], NEW K
    PROVE  Wanted(n, e, K) \in Seq(Seq(S)) /\ Len(Wanted(n, e, K)) = n
<1>1. \A j \in 1 .. n : (IF j \in K THEN <<e[j]>> ELSE << >>) \in Seq(S)
  OBVIOUS
<1>2. Wanted(n, e, K) \in [1 .. n -> Seq(S)]
  BY <1>1 DEF Wanted
<1> QED BY <1>2

LEMMA WantedAbsent ==
    ASSUME NEW n \in Nat, NEW S, NEW e \in [1 .. n -> S], NEW K, NEW M,
           NEW j \in 1 .. n, ~(j \in K /\ e[j] \in M)
    PROVE  Absent(Wanted(n, e, K)[j], M)
<1>1. CASE j \in K
  <2>1. Wanted(n, e, K)[j] = <<e[j]>>
    BY <1>1, WantedIn
  <2>2. Absent(<<e[j]>>, M)
    BY <1>1, AbsentOne
  <2> QED BY <2>1, <2>2
<1>2. CASE j \notin K
  <2>1. Wanted(n, e, K)[j] = << >>
    BY <1>2, WantedOut
  <2> QED BY <2>1 DEF Absent
<1> QED BY <1>1, <1>2

LEMMA WantedFirst ==
    ASSUME NEW n \in Nat, NEW S, NEW e \in [1 .. n -> S], NEW K, NEW M,
           NEW j \in 1 .. n, j \in K, e[j] \in M,
           \A i \in 1 .. j - 1 : ~(i \in K /\ e[i] \in M)
    PROVE  FirstIn(Appended(Wanted(n, e, K)), M, e[j])
<1> DEFINE parts == Wanted(n, e, K)
<1>1. parts \in Seq(Seq(S)) /\ j \in 1 .. Len(parts)
  BY WantedParts
<1> HIDE DEF parts
<1>a. parts[j] = <<e[j]>>
  BY WantedIn DEF parts
<1>2. FirstIn(parts[j], M, e[j])
  BY <1>a, FirstOfOne
<1>3. ASSUME NEW i \in 1 .. j - 1 PROVE Absent(parts[i], M)
  <2>1. i \in 1 .. n /\ ~(i \in K /\ e[i] \in M)
    OBVIOUS
  <2> QED BY <2>1, WantedAbsent DEF parts
<1>4. FirstIn(Appended(parts), M, e[j])
  BY <1>1, <1>2, <1>3, FirstInAppended
<1> QED BY <1>4 DEF parts

LEMMA WantedNone ==
    ASSUME NEW n \in Nat, NEW S, NEW e \in [1 .. n -> S], NEW K, NEW M,
           \A i \in 1 .. n : ~(i \in K /\ e[i] \in M)
    PROVE  Absent(Appended(Wanted(n, e, K)), M)
<1> DEFINE parts == Wanted(n, e, K)
<1>1. parts \in Seq(Seq(S)) /\ Len(parts) = n
  BY WantedParts
<1>2. \A i \in 1 .. n : Absent(parts[i], M)
  BY WantedAbsent
<1> HIDE DEF parts
<1>3. Absent(Appended(parts), M)
  BY <1>1, <1>2, AbsentAppended
<1> QED BY <1>3 DEF parts

\* The elements are those of the wanted places.
ElementOf(x, n, e, K) == \E j \in 1 .. n : j \in K /\ e[j] = x

LEMMA WantedElements ==
    ASSUME NEW n \in Nat, NEW S, NEW e \in [1 .. n -> S], NEW K, NEW x
    PROVE  Element(x, Appended(Wanted(n, e, K))) <=> ElementOf(x, n, e, K)
<1> DEFINE parts == Wanted(n, e, K)
<1>1. parts \in Seq(Seq(S)) /\ Len(parts) = n
  BY WantedParts
<1> HIDE DEF parts
<1>2. ASSUME NEW j \in 1 .. n
      PROVE  Element(x, parts[j]) <=> j \in K /\ e[j] = x
  <2>1. CASE j \in K
    <3>1. parts[j] = <<e[j]>>
      BY <2>1, WantedIn DEF parts
    <3> QED BY <2>1, <3>1 DEF Element
  <2>2. CASE j \notin K
    <3>1. parts[j] = << >>
      BY <2>2, WantedOut DEF parts
    <3> QED BY <2>2, <3>1 DEF Element
  <2> QED BY <2>1, <2>2
<1>3. Element(x, Appended(parts)) <=> \E j \in 1 .. Len(parts) : Element(x, parts[j])
  BY <1>1, AppendedElements
<1> QED BY <1>1, <1>2, <1>3, Zenon DEF parts, ElementOf

-----------------------------------------------------------------------------
(* The version mappers *)

\* What discovery finds: every fetched version is listed, no two groups have
\* the same name, and the core group is the first one and has one version.
WellFormed(groups, V) ==
    /\ AnyVersion \notin V
    /\ \A i \in 1 .. Len(groups) :
         /\ groups[i].versions \in Seq(V)
         /\ DOMAIN groups[i].resources \subseteq Listed(groups[i])
         /\ groups[i].name = Core => i = 1 /\ Len(groups[i].versions) = 1
    /\ \A i, j \in 1 .. Len(groups) : groups[i].name = groups[j].name => i = j

MappersOf(g, V) == {VersionMapper(g, v) : v \in V}

\* The elements and the wanted places of GroupMappers.
MapperAt(g) == [j \in 1 .. Len(g.versions) |-> VersionMapper(g, g.versions[j])]
FetchedAt(g) == {j \in 1 .. Len(g.versions) : Fetched(g, g.versions[j])}

LEMMA GroupMappersAre ==
    ASSUME NEW V, NEW g, g.versions \in Seq(V)
    PROVE  /\ GroupMappers(g) =
                Appended(Wanted(Len(g.versions), MapperAt(g), FetchedAt(g)))
           /\ Len(g.versions) \in Nat
           /\ MapperAt(g) \in [1 .. Len(g.versions) -> MappersOf(g, V)]
<1> DEFINE n == Len(g.versions)
<1>1. n \in Nat /\ DOMAIN g.versions = 1 .. n /\ \A j \in 1 .. n : g.versions[j] \in V
  OBVIOUS
<1>2. MapperAt(g) \in [1 .. n -> MappersOf(g, V)]
  BY <1>1 DEF MapperAt, MappersOf
<1>3. Wanted(n, MapperAt(g), FetchedAt(g)) =
        [j \in 1 .. n |-> IF Fetched(g, g.versions[j])
                          THEN <<VersionMapper(g, g.versions[j])>> ELSE << >>]
  BY DEF Wanted, MapperAt, FetchedAt
<1> HIDE DEF n
<1>4. GroupMappers(g) = Appended(Wanted(n, MapperAt(g), FetchedAt(g)))
  BY <1>1, <1>3 DEF GroupMappers
<1> QED BY <1>1, <1>2, <1>4 DEF n

LEMMA GroupMappersType ==
    ASSUME NEW V, NEW g, g.versions \in Seq(V)
    PROVE  GroupMappers(g) \in Seq(MappersOf(g, V))
<1> DEFINE n == Len(g.versions)
           parts == Wanted(n, MapperAt(g), FetchedAt(g))
<1>1. parts \in Seq(Seq(MappersOf(g, V)))
  BY GroupMappersAre, WantedParts
<1>2. GroupMappers(g) = Appended(parts)
  BY GroupMappersAre
<1> HIDE DEF parts
<1> QED BY <1>1, <1>2, AppendedType

LEMMA GroupMapperElements ==
    ASSUME NEW V, NEW g, g.versions \in Seq(V), NEW x
    PROVE  Element(x, GroupMappers(g))
             <=> \E j \in 1 .. Len(g.versions) :
                   Fetched(g, g.versions[j]) /\ x = VersionMapper(g, g.versions[j])
<1> DEFINE n == Len(g.versions)
<1>1. Element(x, GroupMappers(g))
        <=> \E j \in 1 .. n : j \in FetchedAt(g) /\ MapperAt(g)[j] = x
  <2> DEFINE e == MapperAt(g)
             K == FetchedAt(g)
             S == MappersOf(g, V)
  <2>1. n \in Nat /\ e \in [1 .. n -> S] /\ GroupMappers(g) = Appended(Wanted(n, e, K))
    BY GroupMappersAre
  <2> HIDE DEF n, e, K, S
  <2>2. Element(x, Appended(Wanted(n, e, K))) <=> ElementOf(x, n, e, K)
    BY <2>1, WantedElements
  <2> QED BY <2>1, <2>2, Zenon DEF e, K, ElementOf
<1>2. \A j \in 1 .. n : /\ j \in FetchedAt(g) <=> Fetched(g, g.versions[j])
                        /\ MapperAt(g)[j] = VersionMapper(g, g.versions[j])
  BY DEF FetchedAt, MapperAt
<1> QED BY <1>1, <1>2

AllMappers(groups, V) == UNION {MappersOf(groups[i], V) : i \in 1 .. Len(groups)}
MapperParts(groups) == [i \in DOMAIN groups |-> GroupMappers(groups[i])]

LEMMA MapperPartsType ==
    ASSUME NEW V, NEW G, NEW groups \in Seq(G), WellFormed(groups, V)
    PROVE  /\ MapperParts(groups) \in Seq(Seq(AllMappers(groups, V)))
           /\ Len(MapperParts(groups)) = Len(groups)
           /\ \A i \in 1 .. Len(groups) : MapperParts(groups)[i] = GroupMappers(groups[i])
           /\ VersionMappers(groups) = Appended(MapperParts(groups))
<1> DEFINE n == Len(groups)
<1>1. n \in Nat /\ DOMAIN groups = 1 .. n
  OBVIOUS
<1>2. ASSUME NEW i \in 1 .. n PROVE GroupMappers(groups[i]) \in Seq(AllMappers(groups, V))
  <2>1. GroupMappers(groups[i]) \in Seq(MappersOf(groups[i], V))
    BY GroupMappersType DEF WellFormed
  <2>2. MappersOf(groups[i], V) \subseteq AllMappers(groups, V)
    BY DEF AllMappers
  <2> QED BY <2>1, <2>2
<1> HIDE DEF n
<1>3. MapperParts(groups) \in [1 .. n -> Seq(AllMappers(groups, V))]
  BY <1>1, <1>2 DEF MapperParts
<1>4. \A i \in 1 .. n : MapperParts(groups)[i] = GroupMappers(groups[i])
  BY <1>1 DEF MapperParts
<1>5. VersionMappers(groups) = Appended(MapperParts(groups))
  BY DEF VersionMappers, MapperParts
<1>6. MapperParts(groups) \in Seq(Seq(AllMappers(groups, V))) /\ Len(MapperParts(groups)) = n
  BY <1>1, <1>3
<1> QED BY <1>4, <1>5, <1>6 DEF n

\* There is a version mapper for each version that was fetched.
LEMMA VersionMapperElements ==
    ASSUME NEW V, NEW G, NEW groups \in Seq(G), WellFormed(groups, V), NEW x
    PROVE  Element(x, VersionMappers(groups))
             <=> \E i \in 1 .. Len(groups) : \E v \in Listed(groups[i]) :
                   Fetched(groups[i], v) /\ x = VersionMapper(groups[i], v)
<1> DEFINE parts == MapperParts(groups)
<1>1. /\ parts \in Seq(Seq(AllMappers(groups, V)))
      /\ Len(parts) = Len(groups)
      /\ VersionMappers(groups) = Appended(parts)
  BY MapperPartsType
<1>2. ASSUME NEW i \in 1 .. Len(groups) PROVE parts[i] = GroupMappers(groups[i])
  BY MapperPartsType
<1> HIDE DEF parts
<1>3. Element(x, VersionMappers(groups)) <=> \E i \in 1 .. Len(groups) : Element(x, parts[i])
  BY <1>1, AppendedElements
<1>4. ASSUME NEW i \in 1 .. Len(groups)
      PROVE  Element(x, parts[i])
               <=> \E v \in Listed(groups[i]) :
                     Fetched(groups[i], v) /\ x = VersionMapper(groups[i], v)
  <2>1. groups[i].versions \in Seq(V)
    BY DEF WellFormed
  <2>2. Element(x, GroupMappers(groups[i]))
          <=> \E j \in 1 .. Len(groups[i].versions) :
                /\ Fetched(groups[i], groups[i].versions[j])
                /\ x = VersionMapper(groups[i], groups[i].versions[j])
    BY <2>1, GroupMapperElements
  <2>3. DOMAIN groups[i].versions = 1 .. Len(groups[i].versions)
    BY <2>1
  <2> QED BY <1>2, <2>2, <2>3, Zenon DEF Listed
<1> QED BY <1>3, <1>4

-----------------------------------------------------------------------------
(* The patterns *)

LEMMA BestIs ==
    ASSUME NEW V, NEW g, g.versions \in Seq(V), DOMAIN g.resources \subseteq Listed(g),
           NEW name, \E v \in Listed(g) : Has(g, v, name)
    PROVE  /\ Best(g, name) \in Listed(g) /\ Has(g, Best(g, name), name)
           /\ \/ Has(g, g.preferred, name) /\ Best(g, name) = g.preferred
              \/ /\ ~Has(g, g.preferred, name)
                 /\ \E j \in 1 .. Len(g.versions) :
                      /\ Best(g, name) = g.versions[j]
                      /\ \A l \in 1 .. j - 1 : ~Has(g, g.versions[l], name)
<1>1. CASE Has(g, g.preferred, name)
  BY <1>1 DEF Best, Has, Fetched
<1>2. CASE ~Has(g, g.preferred, name)
  <2> DEFINE J == {j \in DOMAIN g.versions : Has(g, g.versions[j], name)}
             m == Min(J)
  <2>1. DOMAIN g.versions = 1 .. Len(g.versions) /\ Len(g.versions) \in Nat
    OBVIOUS
  <2>2. J \subseteq Nat /\ J # {}
    BY <2>1 DEF Listed
  <2>3. m \in J /\ \A j \in J : m <= j
    <3> HIDE DEF J
    <3> QED BY <2>2, MinIsLeast
  <2>4. Best(g, name) = g.versions[m]
    BY <1>2 DEF Best
  <2> HIDE DEF m
  <2>5. ASSUME NEW l \in 1 .. m - 1 PROVE ~Has(g, g.versions[l], name)
    <3>1. l \in DOMAIN g.versions /\ ~(m <= l)
      BY <2>1, <2>3
    <3> QED BY <2>3, <3>1
  <2> QED BY <1>2, <2>1, <2>3, <2>4, <2>5 DEF Listed
<1> QED BY <1>1, <1>2

PatternsOf(g, V) == {Pattern(g.name, v) : v \in V}

\* The elements and the wanted places of GroupPatterns, after the first one.
PatternAt(g) == [j \in 1 .. Len(g.versions) |-> Pattern(g.name, g.versions[j])]
OthersAt(g) ==
    {j \in 1 .. Len(g.versions) : Fetched(g, g.versions[j]) /\ g.versions[j] # g.preferred}
FirstPattern(g) ==
    IF Fetched(g, g.preferred) THEN <<Pattern(g.name, g.preferred)>> ELSE << >>

LEMMA GroupPatternsAre ==
    ASSUME NEW V, NEW g, g.versions \in Seq(V), DOMAIN g.resources \subseteq Listed(g)
    PROVE  /\ GroupPatterns(g) =
                FirstPattern(g)
                  \o Appended(Wanted(Len(g.versions), PatternAt(g), OthersAt(g)))
           /\ Len(g.versions) \in Nat
           /\ PatternAt(g) \in [1 .. Len(g.versions) -> PatternsOf(g, V)]
           /\ FirstPattern(g) \in Seq(PatternsOf(g, V))
           /\ Appended(Wanted(Len(g.versions), PatternAt(g), OthersAt(g)))
                \in Seq(PatternsOf(g, V))
<1> DEFINE n == Len(g.versions)
<1>1. n \in Nat /\ DOMAIN g.versions = 1 .. n /\ \A j \in 1 .. n : g.versions[j] \in V
  OBVIOUS
<1>2. PatternAt(g) \in [1 .. n -> PatternsOf(g, V)]
  BY <1>1 DEF PatternAt, PatternsOf
<1>3. Wanted(n, PatternAt(g), OthersAt(g)) =
        [j \in 1 .. n |-> IF Fetched(g, g.versions[j]) /\ g.versions[j] # g.preferred
                          THEN <<Pattern(g.name, g.versions[j])>> ELSE << >>]
  BY DEF Wanted, PatternAt, OthersAt
<1> HIDE DEF n
<1>4. GroupPatterns(g) = FirstPattern(g) \o Appended(Wanted(n, PatternAt(g), OthersAt(g)))
  BY <1>1, <1>3 DEF GroupPatterns, FirstPattern
<1>5. FirstPattern(g) \in Seq(PatternsOf(g, V))
  <2>1. Fetched(g, g.preferred) => g.preferred \in V
    BY <1>1 DEF Fetched, Listed
  <2>2. CASE Fetched(g, g.preferred)
    BY <2>1, <2>2 DEF FirstPattern, PatternsOf
  <2>3. CASE ~Fetched(g, g.preferred)
    BY <2>3 DEF FirstPattern
  <2> QED BY <2>2, <2>3
<1>6. Appended(Wanted(n, PatternAt(g), OthersAt(g))) \in Seq(PatternsOf(g, V))
  <2> DEFINE parts == Wanted(n, PatternAt(g), OthersAt(g))
  <2>1. parts \in Seq(Seq(PatternsOf(g, V)))
    BY <1>1, <1>2, WantedParts
  <2> HIDE DEF parts
  <2>2. Appended(parts) \in Seq(PatternsOf(g, V))
    BY <2>1, AppendedType
  <2> QED BY <2>2 DEF parts
<1> QED BY <1>1, <1>2, <1>4, <1>5, <1>6 DEF n

\* The first pattern of a group that fits is that of its best version.
LEMMA GroupPatternsFirst ==
    ASSUME NEW V, NEW g, g.versions \in Seq(V), DOMAIN g.resources \subseteq Listed(g),
           NEW name, \E v \in Listed(g) : Has(g, v, name), NEW M,
           \A v \in Listed(g) : Pattern(g.name, v) \in M <=> Has(g, v, name)
    PROVE  FirstIn(GroupPatterns(g), M, Pattern(g.name, Best(g, name)))
<1> DEFINE n == Len(g.versions)
           e == PatternAt(g)
           K == OthersAt(g)
           S == PatternsOf(g, V)
           b == Best(g, name)
           others == Appended(Wanted(n, e, K))
           first == FirstPattern(g)
<1>1. /\ GroupPatterns(g) = first \o others
      /\ n \in Nat /\ e \in [1 .. n -> S] /\ first \in Seq(S) /\ others \in Seq(S)
  BY GroupPatternsAre
<1>2. b \in Listed(g) /\ Has(g, b, name)
  BY BestIs
<1>3. Pattern(g.name, b) \in M
  BY <1>2
<1>4. CASE Has(g, g.preferred, name)
  <2>1. b = g.preferred /\ Fetched(g, g.preferred)
    BY <1>4, BestIs DEF Has
  <2>2. first = <<Pattern(g.name, b)>>
    BY <2>1 DEF FirstPattern
  <2>3. FirstIn(first, M, Pattern(g.name, b))
    BY <1>3, <2>2, FirstOfOne
  <2> HIDE DEF n, e, K, S, b, others, first
  <2>4. FirstIn(first \o others, M, Pattern(g.name, b))
    BY <1>1, <2>3, FirstStays
  <2> QED BY <1>1, <2>4 DEF b
<1>5. CASE ~Has(g, g.preferred, name)
  <2>1. PICK j \in 1 .. n : /\ b = g.versions[j]
                           /\ \A l \in 1 .. j - 1 : ~Has(g, g.versions[l], name)
    BY <1>5, BestIs
  <2>2. Absent(first, M)
    <3>1. CASE Fetched(g, g.preferred)
      <4>1. g.preferred \in Listed(g)
        BY <3>1 DEF Fetched
      <4>2. Pattern(g.name, g.preferred) \notin M
        BY <1>5, <4>1
      <4>3. first = <<Pattern(g.name, g.preferred)>>
        BY <3>1 DEF FirstPattern
      <4> HIDE DEF first
      <4> QED BY <4>2, <4>3, AbsentOne
    <3>2. CASE ~Fetched(g, g.preferred)
      <4>1. first = << >>
        BY <3>2 DEF FirstPattern
      <4> QED BY <4>1 DEF Absent
    <3> QED BY <3>1, <3>2
  <2>3. j \in K
    BY <1>2, <1>5, <2>1 DEF OthersAt, Has
  <2>4. e[j] = Pattern(g.name, b)
    BY <2>1 DEF PatternAt
  <2>5. ASSUME NEW l \in 1 .. j - 1 PROVE e[l] \notin M
    <3>1. l \in 1 .. n /\ l \in DOMAIN g.versions
      BY <1>1
    <3>2. g.versions[l] \in Listed(g) /\ e[l] = Pattern(g.name, g.versions[l])
      BY <3>1 DEF Listed, PatternAt
    <3> QED BY <2>1, <3>2
  <2> HIDE DEF n, e, K, S, b, first
  <2>6. FirstIn(Appended(Wanted(n, e, K)), M, e[j])
    BY <1>1, <1>3, <2>3, <2>4, <2>5, WantedFirst
  <2>7. FirstIn(others, M, Pattern(g.name, b))
    BY <2>4, <2>6
  <2> HIDE DEF others
  <2>8. FirstIn(first \o others, M, Pattern(g.name, b))
    BY <1>1, <2>2, <2>7, FirstAppended
  <2> QED BY <1>1, <2>8 DEF b
<1> QED BY <1>4, <1>5

\* No pattern of a group fits.
LEMMA GroupPatternsAbsent ==
    ASSUME NEW V, NEW g, g.versions \in Seq(V), DOMAIN g.resources \subseteq Listed(g),
           NEW M, \A v \in V : Pattern(g.name, v) \notin M
    PROVE  Absent(GroupPatterns(g), M)
<1>1. GroupPatterns(g) \in Seq(PatternsOf(g, V))
  <2> DEFINE first == FirstPattern(g)
             others == Appended(Wanted(Len(g.versions), PatternAt(g), OthersAt(g)))
  <2>1. /\ GroupPatterns(g) = first \o others
        /\ first \in Seq(PatternsOf(g, V)) /\ others \in Seq(PatternsOf(g, V))
    BY GroupPatternsAre
  <2> HIDE DEF first, others
  <2> QED BY <2>1
<1>2. \A k \in 1 .. Len(GroupPatterns(g)) : GroupPatterns(g)[k] \in PatternsOf(g, V)
  BY <1>1
<1> QED BY <1>2 DEF Absent, PatternsOf

\* All patterns, and those that fit a version that serves the resource.
Patterns(groups, V) ==
    (UNION {PatternsOf(groups[i], V) : i \in 1 .. Len(groups)})
      \cup {Pattern(Core, "v1")}
      \cup {Pattern(groups[i].name, AnyVersion) : i \in 1 .. Len(groups)}

Serves(groups, gr, i, v) ==
    i \in Able(groups, gr) /\ v \in Listed(groups[i]) /\ Has(groups[i], v, gr.resource)

FitsVersion(p, groups, i, v) == p.group = groups[i].name /\ p.version \in {AnyVersion, v}

Fitting(groups, V, gr) ==
    {p \in Patterns(groups, V) :
       \E i \in 1 .. Len(groups), v \in V : Serves(groups, gr, i, v) /\ FitsVersion(p, groups, i, v)}

LEMMA PatternMembers ==
    ASSUME NEW groups, NEW V
    PROVE  /\ Pattern(Core, "v1") \in Patterns(groups, V)
           /\ \A i \in 1 .. Len(groups) :
                /\ Pattern(groups[i].name, AnyVersion) \in Patterns(groups, V)
                /\ \A v \in V : Pattern(groups[i].name, v) \in Patterns(groups, V)
<1>1. Pattern(Core, "v1") \in Patterns(groups, V)
  BY Zenon DEF Patterns
<1>2. ASSUME NEW i \in 1 .. Len(groups)
      PROVE  Pattern(groups[i].name, AnyVersion) \in Patterns(groups, V)
  BY Zenon DEF Patterns
<1>3. ASSUME NEW i \in 1 .. Len(groups), NEW v \in V
      PROVE  Pattern(groups[i].name, v) \in Patterns(groups, V)
  <2>1. Pattern(groups[i].name, v) \in PatternsOf(groups[i], V)
    BY Zenon DEF PatternsOf
  <2> QED BY <2>1, Zenon DEF Patterns
<1> QED BY <1>1, <1>2, <1>3

\* The groups that can answer, and the first of them.
LEMMA FirstAble ==
    ASSUME NEW V, NEW G, NEW groups \in Seq(G), WellFormed(groups, V),
           NEW gr, Able(groups, gr) # {}, NEW m, m = Min(Able(groups, gr))
    PROVE  /\ m \in 1 .. Len(groups) /\ m \in Able(groups, gr)
           /\ \A i \in Able(groups, gr) : m <= i
           /\ Serves(groups, gr, m, Best(groups[m], gr.resource))
           /\ Best(groups[m], gr.resource) \in V
<1>1. DOMAIN groups = 1 .. Len(groups) /\ Len(groups) \in Nat
  OBVIOUS
<1>2. Able(groups, gr) \subseteq Nat /\ Able(groups, gr) \subseteq 1 .. Len(groups)
  BY <1>1 DEF Able
<1>3. m \in Able(groups, gr) /\ \A i \in Able(groups, gr) : m <= i
  BY <1>2, MinIsLeast
<1>4. m \in 1 .. Len(groups)
  BY <1>2, <1>3
<1>5. /\ groups[m].versions \in Seq(V) /\ DOMAIN groups[m].resources \subseteq Listed(groups[m])
      /\ \E v \in Listed(groups[m]) : Has(groups[m], v, gr.resource)
  BY <1>3, <1>4 DEF WellFormed, Able
<1>6. /\ Best(groups[m], gr.resource) \in Listed(groups[m])
      /\ Has(groups[m], Best(groups[m], gr.resource), gr.resource)
  BY <1>5, BestIs
<1>7. Listed(groups[m]) \subseteq V
  BY <1>5 DEF Listed
<1> QED BY <1>3, <1>4, <1>6, <1>7 DEF Serves

PatternParts(groups) == [i \in DOMAIN groups |-> GroupPatterns(groups[i])]

LEMMA PriorityParts ==
    ASSUME NEW V, NEW G, NEW groups \in Seq(G), WellFormed(groups, V)
    PROVE  /\ PatternParts(groups) \in Seq(Seq(Patterns(groups, V)))
           /\ Len(PatternParts(groups)) = Len(groups)
           /\ \A i \in 1 .. Len(groups) : PatternParts(groups)[i] = GroupPatterns(groups[i])
<1> DEFINE n == Len(groups)
<1>1. n \in Nat /\ DOMAIN groups = 1 .. n
  OBVIOUS
<1>2. ASSUME NEW i \in 1 .. n PROVE GroupPatterns(groups[i]) \in Seq(Patterns(groups, V))
  <2> DEFINE g == groups[i]
             first == FirstPattern(g)
             others == Appended(Wanted(Len(g.versions), PatternAt(g), OthersAt(g)))
  <2>1. g.versions \in Seq(V) /\ DOMAIN g.resources \subseteq Listed(g)
    BY DEF WellFormed
  <2>2. PatternsOf(g, V) \subseteq Patterns(groups, V)
    BY DEF Patterns
  <2> HIDE DEF g
  <2>3. /\ GroupPatterns(g) = first \o others
        /\ first \in Seq(PatternsOf(g, V)) /\ others \in Seq(PatternsOf(g, V))
    BY <2>1, GroupPatternsAre
  <2> HIDE DEF first, others
  <2>4. GroupPatterns(g) \in Seq(Patterns(groups, V))
    BY <2>2, <2>3
  <2> QED BY <2>4 DEF g
<1> HIDE DEF n
<1>3. PatternParts(groups) \in [1 .. n -> Seq(Patterns(groups, V))]
  BY <1>1, <1>2 DEF PatternParts
<1>4. \A i \in 1 .. n : PatternParts(groups)[i] = GroupPatterns(groups[i])
  BY <1>1 DEF PatternParts
<1>5. /\ PatternParts(groups) \in Seq(Seq(Patterns(groups, V)))
      /\ Len(PatternParts(groups)) = n
  BY <1>1, <1>3
<1> QED BY <1>4, <1>5 DEF n

\* The three parts of Priority.
CorePattern == <<Pattern(Core, "v1")>>
AnyPatterns(groups) == [i \in DOMAIN groups |-> Pattern(groups[i].name, AnyVersion)]

LEMMA PriorityIs ==
    ASSUME NEW V, NEW G, NEW groups \in Seq(G), WellFormed(groups, V)
    PROVE  /\ Priority(groups) =
                (CorePattern \o Appended(PatternParts(groups))) \o AnyPatterns(groups)
           /\ CorePattern \in Seq(Patterns(groups, V))
           /\ Appended(PatternParts(groups)) \in Seq(Patterns(groups, V))
           /\ AnyPatterns(groups) \in Seq(Patterns(groups, V))
           /\ Priority(groups) \in Seq(Patterns(groups, V))
<1> DEFINE P == Patterns(groups, V)
           own == Appended(PatternParts(groups))
<1>1. Priority(groups) = (CorePattern \o own) \o AnyPatterns(groups)
  BY DEF Priority, CorePattern, PatternParts, AnyPatterns
<1>2. CorePattern \in Seq(P)
  <2>1. Pattern(Core, "v1") \in P
    BY PatternMembers
  <2> HIDE DEF P
  <2> QED BY <2>1 DEF CorePattern
<1>3. own \in Seq(P)
  BY PriorityParts, AppendedType
<1>4. AnyPatterns(groups) \in Seq(P)
  <2>1. DOMAIN groups = 1 .. Len(groups) /\ Len(groups) \in Nat
    OBVIOUS
  <2>2. \A i \in 1 .. Len(groups) : Pattern(groups[i].name, AnyVersion) \in P
    BY PatternMembers
  <2> HIDE DEF P
  <2>3. AnyPatterns(groups) \in [1 .. Len(groups) -> P]
    BY <2>1, <2>2 DEF AnyPatterns
  <2> QED BY <2>1, <2>3
<1> HIDE DEF P, own
<1>5. Priority(groups) \in Seq(P)
  BY <1>1, <1>2, <1>3, <1>4
<1> QED BY <1>1, <1>2, <1>3, <1>4, <1>5 DEF P, own

\* The first pattern that fits any answer fits the best version of the first
\* group that can answer, and no other one.
LEMMA PriorityFirst ==
    ASSUME NEW V, NEW G, NEW groups \in Seq(G), WellFormed(groups, V),
           NEW gr, Able(groups, gr) # {}, NEW m, m = Min(Able(groups, gr)),
           NEW b, b = Best(groups[m], gr.resource)
    PROVE  \E q : /\ FirstIn(Priority(groups), Fitting(groups, V, gr), q)
                  /\ \A i \in 1 .. Len(groups), v \in V :
                       Serves(groups, gr, i, v) =>
                         (FitsVersion(q, groups, i, v) <=> i = m /\ v = b)
<1> DEFINE P == Patterns(groups, V)
           M == Fitting(groups, V, gr)
           own == Appended(PatternParts(groups))
           core == Pattern(Core, "v1")
<1>1. /\ m \in 1 .. Len(groups) /\ m \in Able(groups, gr)
      /\ \A i \in Able(groups, gr) : m <= i
      /\ Serves(groups, gr, m, b) /\ b \in V
  BY FirstAble
<1>2. /\ Priority(groups) = (CorePattern \o own) \o AnyPatterns(groups)
      /\ CorePattern \in Seq(P) /\ own \in Seq(P) /\ AnyPatterns(groups) \in Seq(P)
  BY PriorityIs
<1>3. CASE core \in M
  <2>1. PICK i \in 1 .. Len(groups), v \in V :
          Serves(groups, gr, i, v) /\ FitsVersion(core, groups, i, v)
    BY <1>3 DEF Fitting
  <2>2. groups[i].name = Core
    BY <2>1 DEF FitsVersion, Pattern
  <2>3. i = 1 /\ Len(groups[i].versions) = 1
    BY <2>2 DEF WellFormed
  <2>4. m = i
    BY <1>1, <2>1, <2>3 DEF Serves
  <2>5. ASSUME NEW w, w \in Listed(groups[i]) PROVE w = groups[i].versions[1]
    BY <2>3, <2>5 DEF Listed, WellFormed
  <2>6. v = b
    BY <1>1, <2>1, <2>4, <2>5 DEF Serves
  <2>7. core.version = "v1" /\ core.version \in {AnyVersion, v}
    BY <2>1 DEF FitsVersion, Pattern
  <2>8. ASSUME NEW k \in 1 .. Len(groups), NEW w \in V, Serves(groups, gr, k, w)
        PROVE  FitsVersion(core, groups, k, w) <=> k = m /\ w = b
    <3>1. CASE k = m
      <4>1. w = b
        BY <1>1, <2>4, <2>5, <2>8, <3>1 DEF Serves
      <4> QED BY <2>1, <2>4, <2>6, <3>1, <4>1
    <3>2. CASE k # m
      BY <2>2, <2>4, <3>2 DEF FitsVersion, Pattern, WellFormed
    <3> QED BY <3>1, <3>2
  <2>9. FirstIn(Priority(groups), M, core)
    <3>1. FirstIn(CorePattern, M, core)
      BY <1>3, FirstOfOne DEF CorePattern
    <3> HIDE DEF M, P, own, core
    <3>2. FirstIn(CorePattern \o own, M, core)
      BY <1>2, <3>1, FirstStays
    <3>3. CorePattern \o own \in Seq(P)
      BY <1>2
    <3>4. FirstIn((CorePattern \o own) \o AnyPatterns(groups), M, core)
      BY <1>2, <3>2, <3>3, FirstStays
    <3> QED BY <1>2, <3>4
  <2> HIDE DEF core
  <2> QED BY <2>8, <2>9
<1>4. CASE core \notin M
  <2> DEFINE g == groups[m]
             q == Pattern(g.name, b)
  <2>1. g.versions \in Seq(V) /\ DOMAIN g.resources \subseteq Listed(g) /\ AnyVersion \notin V
    BY <1>1 DEF WellFormed
  <2>2. ASSUME NEW i \in 1 .. Len(groups), NEW v \in V
        PROVE  Pattern(groups[i].name, v) \in M <=> Serves(groups, gr, i, v)
    <3>1. Pattern(groups[i].name, v) \in P
      BY PatternMembers
    <3>2. ASSUME NEW k \in 1 .. Len(groups), NEW w \in V
          PROVE  FitsVersion(Pattern(groups[i].name, v), groups, k, w) <=> k = i /\ w = v
      BY <2>1 DEF FitsVersion, Pattern, WellFormed
    <3> QED BY <3>1, <3>2 DEF Fitting
  <2>3. \A v \in Listed(g) : v \in V /\ (Pattern(g.name, v) \in M <=> Has(g, v, gr.resource))
    <3>1. Listed(g) \subseteq V
      BY <2>1 DEF Listed
    <3> QED BY <1>1, <2>2, <3>1 DEF Serves
  <2>4. FirstIn(GroupPatterns(g), M, q)
    <3>1. \E v \in Listed(g) : Has(g, v, gr.resource)
      BY <1>1 DEF Serves
    <3> HIDE DEF M, g
    <3>2. FirstIn(GroupPatterns(g), M, Pattern(g.name, Best(g, gr.resource)))
      BY <2>1, <2>3, <3>1, GroupPatternsFirst
    <3> QED BY <3>2 DEF g
  <2>5. ASSUME NEW i \in 1 .. m - 1 PROVE Absent(GroupPatterns(groups[i]), M)
    <3>1. i \in 1 .. Len(groups) /\ i \notin Able(groups, gr)
      BY <1>1
    <3>2. \A v \in V : Pattern(groups[i].name, v) \notin M
      BY <2>2, <3>1 DEF Serves
    <3>3. groups[i].versions \in Seq(V) /\ DOMAIN groups[i].resources \subseteq Listed(groups[i])
      BY <3>1 DEF WellFormed
    <3> HIDE DEF M
    <3> QED BY <3>2, <3>3, GroupPatternsAbsent
  <2>6. FirstIn(own, M, q)
    <3> DEFINE parts == PatternParts(groups)
    <3>1. parts \in Seq(Seq(P)) /\ Len(parts) = Len(groups)
      BY PriorityParts
    <3>2. \A i \in 1 .. Len(groups) : parts[i] = GroupPatterns(groups[i])
      BY PriorityParts
    <3> HIDE DEF parts, M, P, q
    <3>3. m \in 1 .. Len(parts) /\ FirstIn(parts[m], M, q)
      BY <1>1, <2>4, <3>1, <3>2
    <3>4. ASSUME NEW i \in 1 .. m - 1 PROVE Absent(parts[i], M)
      <4>1. i \in 1 .. Len(groups)
        BY <1>1
      <4> QED BY <2>5, <3>2, <4>1
    <3>5. FirstIn(Appended(parts), M, q)
      BY <3>1, <3>3, <3>4, FirstInAppended
    <3> QED BY <3>5 DEF parts
  <2>7. FirstIn(Priority(groups), M, q)
    <3>1. Absent(CorePattern, M)
      BY <1>4, AbsentOne DEF CorePattern
    <3> HIDE DEF M, P, own, q
    <3>2. FirstIn(CorePattern \o own, M, q)
      BY <1>2, <2>6, <3>1, FirstAppended
    <3>3. CorePattern \o own \in Seq(P)
      BY <1>2
    <3>4. FirstIn((CorePattern \o own) \o AnyPatterns(groups), M, q)
      BY <1>2, <3>2, <3>3, FirstStays
    <3> QED BY <1>2, <3>4
  <2>8. ASSUME NEW k \in 1 .. Len(groups), NEW w \in V
        PROVE  FitsVersion(q, groups, k, w) <=> k = m /\ w = b
    BY <1>1, <2>1 DEF FitsVersion, Pattern, WellFormed
  <2> HIDE DEF q
  <2> QED BY <2>7, <2>8
<1> QED BY <1>3, <1>4

-----------------------------------------------------------------------------
(* The lookups *)

\* The versions that answer are those that serve the resource.
LEMMA OffersIs ==
    ASSUME NEW V, NEW G, NEW groups \in Seq(G), WellFormed(groups, V), NEW gr,
           NEW i \in 1 .. Len(groups), NEW v \in Listed(groups[i]), Fetched(groups[i], v)
    PROVE  /\ Offers(VersionMapper(groups[i], v), gr) <=> Serves(groups, gr, i, v)
           /\ v \in V
<1>1. i \in DOMAIN groups
  OBVIOUS
<1>2. v \in V
  BY DEF WellFormed, Listed
<1> QED BY <1>1, <1>2 DEF Offers, VersionMapper, Serves, Able, Has

HitFor(mapper, gr, x) == \E k \in Hits(mapper, gr) : mapper.mappers[k] = x

LEMMA HitsAre ==
    ASSUME NEW V, NEW G, NEW groups \in Seq(G), WellFormed(groups, V), NEW gr,
           NEW mapper, mapper = NewDiscoveryRESTMapper(groups)
    PROVE  /\ Hits(mapper, gr) \subseteq Nat
           /\ \A k \in Hits(mapper, gr) :
                \E i \in 1 .. Len(groups), v \in V :
                  /\ Serves(groups, gr, i, v)
                  /\ mapper.mappers[k] = VersionMapper(groups[i], v)
           /\ \A i \in 1 .. Len(groups), v \in V :
                Serves(groups, gr, i, v) => HitFor(mapper, gr, VersionMapper(groups[i], v))
<1> DEFINE s == VersionMappers(groups)
<1>1. mapper.mappers = s
  BY DEF NewDiscoveryRESTMapper
<1>2. s \in Seq(AllMappers(groups, V))
  <2>1. MapperParts(groups) \in Seq(Seq(AllMappers(groups, V)))
    BY MapperPartsType
  <2>2. s = Appended(MapperParts(groups))
    BY MapperPartsType
  <2> QED BY <2>1, <2>2, AppendedType
<1> HIDE DEF s
<1>3. DOMAIN s = 1 .. Len(s) /\ Len(s) \in Nat
  BY <1>2
<1>4. Hits(mapper, gr) = {k \in 1 .. Len(s) : Offers(s[k], gr)}
  BY <1>1, <1>3 DEF Hits
<1>5. ASSUME NEW k \in Hits(mapper, gr)
      PROVE  \E i \in 1 .. Len(groups), v \in V :
               Serves(groups, gr, i, v) /\ s[k] = VersionMapper(groups[i], v)
  <2>1. Element(s[k], s) /\ Offers(s[k], gr)
    BY <1>4 DEF Element
  <2>2. PICK i \in 1 .. Len(groups) : \E v \in Listed(groups[i]) :
          Fetched(groups[i], v) /\ s[k] = VersionMapper(groups[i], v)
    BY <2>1, VersionMapperElements DEF s
  <2>3. PICK v \in Listed(groups[i]) :
          Fetched(groups[i], v) /\ s[k] = VersionMapper(groups[i], v)
    BY <2>2
  <2>4. Serves(groups, gr, i, v) /\ v \in V
    BY <2>1, <2>3, OffersIs
  <2> QED BY <2>3, <2>4
<1>6. ASSUME NEW i \in 1 .. Len(groups), NEW v \in V, Serves(groups, gr, i, v)
      PROVE  HitFor(mapper, gr, VersionMapper(groups[i], v))
  <2>1. v \in Listed(groups[i]) /\ Fetched(groups[i], v)
    BY <1>6 DEF Serves, Has
  <2>2. Element(VersionMapper(groups[i], v), s)
    BY <2>1, VersionMapperElements DEF s
  <2>3. Offers(VersionMapper(groups[i], v), gr)
    BY <1>6, <2>1, OffersIs
  <2> QED BY <1>1, <1>4, <2>2, <2>3 DEF Element, HitFor
<1> QED BY <1>1, <1>3, <1>4, <1>5, <1>6

\* Who answers, if anybody does.
LEMMA HitsOfNone ==
    ASSUME NEW V, NEW G, NEW groups \in Seq(G), WellFormed(groups, V), NEW gr,
           NEW mapper, mapper = NewDiscoveryRESTMapper(groups)
    PROVE  Hits(mapper, gr) = {} <=> Able(groups, gr) = {}
<1>1. ASSUME NEW k \in Hits(mapper, gr) PROVE Able(groups, gr) # {}
  BY HitsAre DEF Serves
<1>2. ASSUME Able(groups, gr) # {} PROVE Hits(mapper, gr) # {}
  <2> DEFINE m == Min(Able(groups, gr))
             b == Best(groups[m], gr.resource)
  <2>1. m \in 1 .. Len(groups) /\ b \in V /\ Serves(groups, gr, m, b)
    BY <1>2, FirstAble
  <2> HIDE DEF m, b
  <2> QED BY <2>1, HitsAre DEF HitFor
<1> QED BY <1>1, <1>2

\* Of candidates with one for each version that serves the resource, the
\* one of the best version of the first group is preferred.
LEMMA PreferredAnswer ==
    ASSUME NEW V, NEW G, NEW groups \in Seq(G), WellFormed(groups, V),
           NEW gr, Able(groups, gr) # {}, NEW m, m = Min(Able(groups, gr)),
           NEW b, b = Best(groups[m], gr.resource),
           NEW C, NEW c \in C, c.group = groups[m].name, c.version = b,
           \A d \in C : \E i \in 1 .. Len(groups), v \in V :
             /\ Serves(groups, gr, i, v) /\ d.group = groups[i].name /\ d.version = v
             /\ i = m /\ v = b => d = c,
           \A i \in 1 .. Len(groups), v \in V : Serves(groups, gr, i, v) =>
             \E d \in C : d.group = groups[i].name /\ d.version = v
    PROVE  Preferred(NewDiscoveryRESTMapper(groups), C) = c
<1> DEFINE P == Patterns(groups, V)
           mapper == NewDiscoveryRESTMapper(groups)
<1>1. PICK q : /\ FirstIn(Priority(groups), Fitting(groups, V, gr), q)
               /\ \A i \in 1 .. Len(groups), v \in V :
                    Serves(groups, gr, i, v) =>
                      (FitsVersion(q, groups, i, v) <=> i = m /\ v = b)
  BY PriorityFirst
<1>2. mapper.priority = Priority(groups) /\ mapper.priority \in Seq(P)
  BY PriorityIs DEF NewDiscoveryRESTMapper
<1>3. ASSUME NEW i, NEW v, NEW p, NEW d, d.group = groups[i].name, d.version = v
      PROVE  Fits(p, d) <=> FitsVersion(p, groups, i, v)
  BY <1>3 DEF Fits, FitsVersion
<1>4. Fitting(groups, V, gr) = FittingAny(P, C)
  <2>1. ASSUME NEW p \in P
        PROVE  (\E d \in C : Fits(p, d))
                 <=> \E i \in 1 .. Len(groups), v \in V :
                       Serves(groups, gr, i, v) /\ FitsVersion(p, groups, i, v)
    <3>1. ASSUME NEW d \in C, Fits(p, d)
          PROVE  \E i \in 1 .. Len(groups), v \in V :
                   Serves(groups, gr, i, v) /\ FitsVersion(p, groups, i, v)
      <4>1. PICK i \in 1 .. Len(groups), v \in V :
              Serves(groups, gr, i, v) /\ d.group = groups[i].name /\ d.version = v
        OBVIOUS
      <4> QED BY <1>3, <3>1, <4>1
    <3>2. ASSUME NEW i \in 1 .. Len(groups), NEW v \in V,
                 Serves(groups, gr, i, v), FitsVersion(p, groups, i, v)
          PROVE  \E d \in C : Fits(p, d)
      <4>1. PICK d \in C : d.group = groups[i].name /\ d.version = v
        BY <3>2
      <4> QED BY <1>3, <3>2, <4>1
    <3> QED BY <3>1, <3>2
  <2> QED BY <2>1, Zenon DEF Fitting, FittingAny
<1>5. ASSUME NEW d \in C PROVE Fits(q, d) <=> d = c
  <2>1. PICK i \in 1 .. Len(groups), v \in V :
          /\ Serves(groups, gr, i, v) /\ d.group = groups[i].name /\ d.version = v
          /\ i = m /\ v = b => d = c
    OBVIOUS
  <2>2. Fits(q, d) <=> i = m /\ v = b
    BY <1>1, <1>3, <2>1
  <2>3. m \in 1 .. Len(groups)
    BY FirstAble
  <2>4. d = c => i = m /\ v = b
    BY <2>1, <2>3 DEF WellFormed
  <2> QED BY <2>1, <2>2, <2>4
<1> HIDE DEF P, mapper
<1>6. FirstIn(mapper.priority, FittingAny(P, C), q)
  BY <1>1, <1>2, <1>4
<1>7. mapper.priority \in Seq(P) /\ FitsOnly(q, C, c)
  BY <1>2, <1>5 DEF FitsOnly
<1>8. Preferred(mapper, C) = c
  BY <1>6, <1>7, PreferredIs
<1> QED BY <1>8 DEF mapper

\* ResourceFor and KindFor answer from the best version of the first group.
LEMMA ResourceForIs ==
    ASSUME NEW V, NEW G, NEW groups \in Seq(G), WellFormed(groups, V),
           NEW gr, Able(groups, gr) # {}, NEW m, m = Min(Able(groups, gr)),
           NEW b, b = Best(groups[m], gr.resource),
           NEW mapper, mapper = NewDiscoveryRESTMapper(groups)
    PROVE  /\ ResourceFor(mapper, gr) = ResourceIn(VersionMapper(groups[m], b), gr)
           /\ KindFor(mapper, gr) = KindIn(VersionMapper(groups[m], b), gr)
<1>1. m \in 1 .. Len(groups) /\ b \in V /\ Serves(groups, gr, m, b)
  BY FirstAble
<1>2. \A k \in Hits(mapper, gr) :
        \E i \in 1 .. Len(groups), v \in V :
          /\ Serves(groups, gr, i, v)
          /\ mapper.mappers[k] = VersionMapper(groups[i], v)
  BY HitsAre
<1>3. \A i \in 1 .. Len(groups), v \in V :
        Serves(groups, gr, i, v) => HitFor(mapper, gr, VersionMapper(groups[i], v))
  BY HitsAre
<1>4. ResourceFor(mapper, gr) = ResourceIn(VersionMapper(groups[m], b), gr)
  <2> DEFINE C == ResourcesFor(mapper, gr)
             At(i, v) == ResourceIn(VersionMapper(groups[i], v), gr)
  <2>1. \A i, v : At(i, v).group = groups[i].name /\ At(i, v).version = v
    BY DEF ResourceIn, VersionMapper
  <2> HIDE DEF At
  <2>2. ASSUME NEW d \in C
        PROVE  \E i \in 1 .. Len(groups), v \in V : Serves(groups, gr, i, v) /\ d = At(i, v)
    BY <1>2, Zenon DEF ResourcesFor, At
  <2>3. ASSUME NEW i \in 1 .. Len(groups), NEW v \in V, Serves(groups, gr, i, v)
        PROVE  At(i, v) \in C
    BY <1>3, <2>3, Zenon DEF ResourcesFor, HitFor, At
  <2> HIDE DEF C
  <2>4. Preferred(NewDiscoveryRESTMapper(groups), C) = At(m, b)
    <3>1. At(m, b) \in C /\ At(m, b).group = groups[m].name /\ At(m, b).version = b
      BY <1>1, <2>1, <2>3
    <3>2. \A d \in C : \E i \in 1 .. Len(groups), v \in V :
            /\ Serves(groups, gr, i, v) /\ d.group = groups[i].name /\ d.version = v
            /\ i = m /\ v = b => d = At(m, b)
      BY <2>1, <2>2
    <3>3. \A i \in 1 .. Len(groups), v \in V : Serves(groups, gr, i, v) =>
            \E d \in C : d.group = groups[i].name /\ d.version = v
      BY <2>1, <2>3
    <3> QED BY <3>1, <3>2, <3>3, PreferredAnswer
  <2> QED BY <2>4 DEF ResourceFor, C, At
<1>5. KindFor(mapper, gr) = KindIn(VersionMapper(groups[m], b), gr)
  <2> DEFINE C == KindsFor(mapper, gr)
             At(i, v) == KindIn(VersionMapper(groups[i], v), gr)
  <2>1. \A i, v : At(i, v).group = groups[i].name /\ At(i, v).version = v
    BY DEF KindIn, VersionMapper
  <2> HIDE DEF At
  <2>2. ASSUME NEW d \in C
        PROVE  \E i \in 1 .. Len(groups), v \in V : Serves(groups, gr, i, v) /\ d = At(i, v)
    BY <1>2, Zenon DEF KindsFor, At
  <2>3. ASSUME NEW i \in 1 .. Len(groups), NEW v \in V, Serves(groups, gr, i, v)
        PROVE  At(i, v) \in C
    BY <1>3, <2>3, Zenon DEF KindsFor, HitFor, At
  <2> HIDE DEF C
  <2>4. Preferred(NewDiscoveryRESTMapper(groups), C) = At(m, b)
    <3>1. At(m, b) \in C /\ At(m, b).group = groups[m].name /\ At(m, b).version = b
      BY <1>1, <2>1, <2>3
    <3>2. \A d \in C : \E i \in 1 .. Len(groups), v \in V :
            /\ Serves(groups, gr, i, v) /\ d.group = groups[i].name /\ d.version = v
            /\ i = m /\ v = b => d = At(m, b)
      BY <2>1, <2>2
    <3>3. \A i \in 1 .. Len(groups), v \in V : Serves(groups, gr, i, v) =>
            \E d \in C : d.group = groups[i].name /\ d.version = v
      BY <2>1, <2>3
    <3> QED BY <3>1, <3>2, <3>3, PreferredAnswer
  <2> QED BY <2>4 DEF KindFor, C, At
<1> QED BY <1>4, <1>5

\* Nobody answers.
LEMMA NothingFound ==
    ASSUME NEW V, NEW G, NEW groups \in Seq(G), WellFormed(groups, V),
           NEW gr, Able(groups, gr) = {},
           NEW mapper, mapper = NewDiscoveryRESTMapper(groups)
    PROVE  /\ ResourceFor(mapper, gr) = NoMatch
           /\ KindFor(mapper, gr) = NoMatch
           /\ ListedFrom(mapper, gr) = NoMatch
<1>1. Hits(mapper, gr) = {}
  BY HitsOfNone
<1>2. ResourcesFor(mapper, gr) = {} /\ KindsFor(mapper, gr) = {}
  BY <1>1 DEF ResourcesFor, KindsFor
<1>3. mapper.priority \in Seq(Patterns(groups, V))
  BY PriorityIs DEF NewDiscoveryRESTMapper
<1>4. Preferred(mapper, {}) = NoMatch
  BY <1>3, PreferredOfNone
<1> QED BY <1>1, <1>2, <1>4 DEF ResourceFor, KindFor, ListedFrom

\* A list with an element of a kind has a first one.
LEMMA SomeFirst ==
    ASSUME NEW S, NEW s \in Seq(S), NEW M, NEW y, Element(y, s), y \in M
    PROVE  \E x : FirstIn(s, M, x) /\ Element(x, s)
<1> DEFINE K == {k \in 1 .. Len(s) : s[k] \in M}
<1>1. K \subseteq Nat /\ K # {} /\ Len(s) \in Nat
  BY DEF Element
<1>2. PICK k \in K : \A l \in K : k <= l
  <2> HIDE DEF K
  <2> QED BY <1>1, Least
<1>3. k \in 1 .. Len(s) /\ s[k] \in M
  OBVIOUS
<1>4. ASSUME NEW l \in 1 .. k - 1 PROVE s[l] \notin M
  <2>1. l \in 1 .. Len(s) /\ ~(k <= l)
    BY <1>1, <1>3
  <2> QED BY <1>2, <2>1
<1>5. FirstIn(s, M, s[k])
  BY <1>3, <1>4 DEF FirstIn
<1> QED BY <1>3, <1>5 DEF Element

\* x is a version of group i, and offers the resource if the group serves it.
VersionOf(x, groups, V, gr, i) ==
    \E v \in V : /\ x = VersionMapper(groups[i], v)
                 /\ Offers(x, gr) <=> Serves(groups, gr, i, v)

\* The first hit is a version of the first group that can answer.
LEMMA FirstHitIs ==
    ASSUME NEW V, NEW G, NEW groups \in Seq(G), WellFormed(groups, V),
           NEW gr, Able(groups, gr) # {}, NEW m, m = Min(Able(groups, gr)),
           NEW mapper, mapper = NewDiscoveryRESTMapper(groups)
    PROVE  \E v \in V : /\ Serves(groups, gr, m, v)
                        /\ FirstHit(mapper, gr) = VersionMapper(groups[m], v)
<1> DEFINE parts == MapperParts(groups)
           S == AllMappers(groups, V)
           M == {x \in S : Offers(x, gr)}
           s == mapper.mappers
           b == Best(groups[m], gr.resource)
<1>1. /\ parts \in Seq(Seq(S)) /\ Len(parts) = Len(groups)
      /\ \A i \in 1 .. Len(groups) : parts[i] = GroupMappers(groups[i])
      /\ VersionMappers(groups) = Appended(parts)
  BY MapperPartsType
<1>2. s = Appended(parts)
  BY <1>1 DEF NewDiscoveryRESTMapper
<1>3. /\ m \in 1 .. Len(groups) /\ Serves(groups, gr, m, b) /\ b \in V
      /\ \A i \in Able(groups, gr) : m <= i
  BY FirstAble
<1>4. ASSUME NEW i \in 1 .. Len(groups), NEW x
      PROVE  Element(x, parts[i])
               <=> \E v \in Listed(groups[i]) :
                     Fetched(groups[i], v) /\ x = VersionMapper(groups[i], v)
  <2>1. groups[i].versions \in Seq(V)
    BY DEF WellFormed
  <2>2. Element(x, GroupMappers(groups[i]))
          <=> \E j \in 1 .. Len(groups[i].versions) :
                /\ Fetched(groups[i], groups[i].versions[j])
                /\ x = VersionMapper(groups[i], groups[i].versions[j])
    BY <2>1, GroupMapperElements
  <2>3. DOMAIN groups[i].versions = 1 .. Len(groups[i].versions)
    BY <2>1
  <2>4. parts[i] = GroupMappers(groups[i])
    BY <1>1
  <2> QED BY <2>2, <2>3, <2>4, Zenon DEF Listed
<1>5. ASSUME NEW i \in 1 .. Len(groups), NEW x, Element(x, parts[i])
      PROVE  x \in S /\ VersionOf(x, groups, V, gr, i)
  <2>1. PICK v \in Listed(groups[i]) :
          Fetched(groups[i], v) /\ x = VersionMapper(groups[i], v)
    BY <1>4, <1>5
  <2>2. v \in V /\ (Offers(x, gr) <=> Serves(groups, gr, i, v))
    BY <2>1, OffersIs
  <2>3. x \in MappersOf(groups[i], V)
    BY <2>1, <2>2 DEF MappersOf
  <2> QED BY <2>1, <2>2, <2>3 DEF AllMappers, VersionOf
<1>6. \E x : FirstIn(parts[m], M, x) /\ Element(x, parts[m])
  <2> DEFINE y == VersionMapper(groups[m], b)
  <2>1. Element(y, parts[m])
    BY <1>3, <1>4 DEF Serves, Has
  <2>2. y \in M
    <3>1. y \in S
      BY <1>3, <1>5, <2>1
    <3>2. Offers(y, gr)
      BY <1>3, OffersIs DEF Serves, Has
    <3> QED BY <3>1, <3>2
  <2>3. parts[m] \in Seq(S)
    BY <1>1, <1>3
  <2> HIDE DEF y, M, S, parts
  <2> QED BY <2>1, <2>2, <2>3, SomeFirst
<1>7. PICK x : FirstIn(parts[m], M, x) /\ Element(x, parts[m])
  BY <1>6
<1>8. ASSUME NEW i \in 1 .. m - 1 PROVE Absent(parts[i], M)
  <2>1. i \in 1 .. Len(groups) /\ i \notin Able(groups, gr)
    BY <1>3
  <2>2. ASSUME NEW k \in 1 .. Len(parts[i]) PROVE parts[i][k] \notin M
    <3>1. Element(parts[i][k], parts[i])
      BY DEF Element
    <3>2. VersionOf(parts[i][k], groups, V, gr, i)
      BY <1>5, <2>1, <3>1, Zenon
    <3>3. ~Offers(parts[i][k], gr)
      <4> HIDE DEF parts
      <4>1. PICK v \in V : Offers(parts[i][k], gr) <=> Serves(groups, gr, i, v)
        BY <3>2, Zenon DEF VersionOf
      <4> QED BY <2>1, <4>1 DEF Serves
    <3> QED BY <3>3
  <2> QED BY <2>2 DEF Absent
<1>9. FirstIn(s, M, x)
  <2>1. m \in 1 .. Len(parts)
    BY <1>1, <1>3
  <2> HIDE DEF M, S, parts, s
  <2> QED BY <1>1, <1>2, <1>7, <1>8, <2>1, FirstInAppended
<1>10. PICK k \in 1 .. Len(s) : /\ s[k] = x /\ x \in M
                               /\ \A l \in 1 .. k - 1 : s[l] \notin M
  BY <1>9 DEF FirstIn
<1>11. s \in Seq(S)
  <2> HIDE DEF S, parts, s
  <2> QED BY <1>1, <1>2, AppendedType
<1>12. Min(Hits(mapper, gr)) = k
  <2> HIDE DEF S
  <2>1. DOMAIN s = 1 .. Len(s) /\ Len(s) \in Nat /\ \A l \in 1 .. Len(s) : s[l] \in S
    BY <1>11
  <2>2. Hits(mapper, gr) = {l \in 1 .. Len(s) : s[l] \in M}
    BY <2>1 DEF Hits
  <2> HIDE DEF M, s
  <2>3. k \in Hits(mapper, gr) /\ \A l \in Hits(mapper, gr) : k <= l
    BY <1>10, <2>1, <2>2
  <2>4. Hits(mapper, gr) \subseteq Nat
    BY <2>1, <2>2
  <2> QED BY <2>3, <2>4, MinIs
<1>13. FirstHit(mapper, gr) = x
  BY <1>10, <1>12 DEF FirstHit
<1>14. PICK v \in V : /\ x = VersionMapper(groups[m], v)
                      /\ Offers(x, gr) <=> Serves(groups, gr, m, v)
  <2>1. VersionOf(x, groups, V, gr, m)
    BY <1>3, <1>5, <1>7, Zenon
  <2> QED BY <2>1, Zenon DEF VersionOf
<1>15. Offers(x, gr)
  BY <1>10
<1> QED BY <1>13, <1>14, <1>15
-----------------------------------------------------------------------------
(* Resources and their names *)

\* What the hit in a version is.
LEMMA HitIs ==
    ASSUME NEW g, NEW v, NEW gr, Has(g, v, gr.resource), NEW h,
           h = Hit(VersionMapper(g, v), gr)
    PROVE  h \in g.resources[v] /\ Named(h, gr.resource) /\ h \in Served(g)
<1> DEFINE R == g.resources[v]
<1>1. v \in DOMAIN g.resources /\ \E r \in R : Named(r, gr.resource)
  BY DEF Has, Fetched
<1>2. h = CHOOSE r \in R : Named(r, gr.resource)
  BY DEF Hit, VersionMapper
<1>3. h \in R /\ Named(h, gr.resource)
  <2> HIDE DEF R
  <2> QED BY <1>1, <1>2
<1>4. h \in Served(g)
  BY <1>1, <1>3, Zenon DEF Served
<1> QED BY <1>3, <1>4

\* What a group serves is served by a version that it lists.
LEMMA ServedIs ==
    ASSUME NEW V, NEW groups, WellFormed(groups, V), NEW i \in 1 .. Len(groups),
           NEW r \in Served(groups[i]), NEW name, Named(r, name)
    PROVE  \E v \in Listed(groups[i]) : Has(groups[i], v, name)
<1>1. PICK v \in DOMAIN groups[i].resources : r \in groups[i].resources[v]
  BY Zenon DEF Served
<1>2. v \in Listed(groups[i])
  BY <1>1 DEF WellFormed
<1>3. Has(groups[i], v, name)
  BY <1>1 DEF Has, Fetched
<1> QED BY <1>2, <1>3

\* What NamesAgree says of two resources that share a name.
LEMMA SameNames ==
    ASSUME NEW G, NEW groups \in Seq(G), NamesAgree(groups),
           NEW i \in 1 .. Len(groups), NEW j \in 1 .. Len(groups),
           i = j \/ (groups[i].name # Core /\ HasPrefix(groups[j].name, groups[i].name)),
           NEW r \in Served(groups[i]), NEW s \in Served(groups[j]),
           NEW name, Named(r, name), Named(s, name)
    PROVE  r.plural = s.plural /\ r.singular = s.singular
<1>1. i \in DOMAIN groups /\ j \in DOMAIN groups
  OBVIOUS
<1>2. {r.plural, r.singular} \cap {s.plural, s.singular} # {}
  BY DEF Named
<1> QED BY <1>1, <1>2 DEF NamesAgree

\* Where the answer for a resource comes from.
Answer(groups, gr, m, b, h) ==
    /\ m = Min(Able(groups, gr)) /\ b = Best(groups[m], gr.resource)
    /\ h = Hit(VersionMapper(groups[m], b), gr)

LEMMA Answered ==
    ASSUME NEW groups, NEW gr
    PROVE  \E m, b, h : Answer(groups, gr, m, b, h)
BY DEF Answer

LEMMA AnswerIs ==
    ASSUME NEW V, NEW G, NEW groups \in Seq(G), WellFormed(groups, V),
           NEW gr, Able(groups, gr) # {}, NEW m, NEW b, NEW h, Answer(groups, gr, m, b, h),
           NEW mapper, mapper = NewDiscoveryRESTMapper(groups)
    PROVE  /\ m \in 1 .. Len(groups) /\ m \in Able(groups, gr)
           /\ \A i \in Able(groups, gr) : m <= i
           /\ Serves(groups, gr, m, b) /\ b \in V
           /\ h \in groups[m].resources[b] /\ Named(h, gr.resource)
           /\ h \in Served(groups[m])
           /\ ResourceFor(mapper, gr) =
                [group |-> groups[m].name, version |-> b, resource |-> h.plural]
           /\ KindFor(mapper, gr) =
                [group |-> groups[m].name, version |-> b, kind |-> h.kind]
<1>1. /\ m \in 1 .. Len(groups) /\ m \in Able(groups, gr)
      /\ \A i \in Able(groups, gr) : m <= i
      /\ Serves(groups, gr, m, b) /\ b \in V
  BY FirstAble DEF Answer
<1>2. Has(groups[m], b, gr.resource)
  BY <1>1 DEF Serves
<1>3. /\ h \in groups[m].resources[b] /\ Named(h, gr.resource)
      /\ h \in Served(groups[m])
  BY <1>2, HitIs DEF Answer
<1>4. /\ ResourceFor(mapper, gr) = ResourceIn(VersionMapper(groups[m], b), gr)
      /\ KindFor(mapper, gr) = KindIn(VersionMapper(groups[m], b), gr)
  BY ResourceForIs DEF Answer
<1>5. /\ ResourceFor(mapper, gr) =
           [group |-> groups[m].name, version |-> b, resource |-> h.plural]
      /\ KindFor(mapper, gr) =
           [group |-> groups[m].name, version |-> b, kind |-> h.kind]
  BY <1>4 DEF Answer, ResourceIn, KindIn, VersionMapper
<1> QED BY <1>1, <1>3, <1>5

\* Where the resource that objects are listed from comes from.
LEMMA ListedIs ==
    ASSUME NEW V, NEW G, NEW groups \in Seq(G), WellFormed(groups, V), NamesAgree(groups),
           NEW gr, Able(groups, gr) # {}, NEW m, NEW b, NEW h, Answer(groups, gr, m, b, h),
           NEW mapper, mapper = NewDiscoveryRESTMapper(groups)
    PROVE  /\ Hits(mapper, gr) # {}
           /\ Hit(FirstHit(mapper, gr), gr) \in Served(groups[m])
           /\ \E v \in V : ListedFrom(mapper, gr) =
                [group |-> groups[m].name, version |-> v, resource |-> h.plural]
<1>1. /\ m \in 1 .. Len(groups) /\ Serves(groups, gr, m, b) /\ b \in V
      /\ h \in Served(groups[m]) /\ Named(h, gr.resource)
  BY AnswerIs
<1>2. Hits(mapper, gr) # {}
  <2>1. HitFor(mapper, gr, VersionMapper(groups[m], b))
    BY <1>1, HitsAre
  <2> QED BY <2>1 DEF HitFor
<1>3. PICK v \in V : /\ Serves(groups, gr, m, v)
                     /\ FirstHit(mapper, gr) = VersionMapper(groups[m], v)
  BY FirstHitIs DEF Answer
<1> DEFINE f == Hit(VersionMapper(groups[m], v), gr)
<1>4. Has(groups[m], v, gr.resource)
  BY <1>3 DEF Serves
<1>5. f \in Served(groups[m]) /\ Named(f, gr.resource)
  BY <1>4, HitIs
<1>6. f.plural = h.plural
  <2> HIDE DEF f
  <2> QED BY <1>1, <1>5, SameNames
<1>7. ListedFrom(mapper, gr) =
        [group |-> groups[m].name, version |-> v, resource |-> f.plural]
  BY <1>2, <1>3 DEF ListedFrom, ResourceIn, VersionMapper
<1> QED BY <1>2, <1>3, <1>5, <1>6, <1>7

\* What serves a resource of this name serves it when no group is given.
LEMMA ServedPlain ==
    ASSUME NEW V, NEW G, NEW groups \in Seq(G), WellFormed(groups, V),
           NEW i \in 1 .. Len(groups), NEW r \in Served(groups[i])
    PROVE  Able(groups, [group |-> Core, resource |-> r.plural]) # {}
<1> DEFINE plain == [group |-> Core, resource |-> r.plural]
<1>1. \E v \in Listed(groups[i]) : Has(groups[i], v, r.plural)
  BY ServedIs DEF Named
<1>2. i \in DOMAIN groups /\ plain.group = Core /\ plain.resource = r.plural
  OBVIOUS
<1> HIDE DEF plain
<1>3. i \in Able(groups, plain)
  BY <1>1, <1>2 DEF Able
<1> QED BY <1>3 DEF plain

\* The group-resource that was found, under either name of the resource, is
\* found in the same group again: no earlier one may be taken for it.
LEMMA Canonical ==
    ASSUME NEW V, NEW G, NEW groups \in Seq(G), WellFormed(groups, V), NamesAgree(groups),
           NEW names, NEW given, PrefixOrder(names, given),
           \A i \in 1 .. Len(groups) : groups[i].name \in names,
           NEW gr, gr.group \in given \cup {Core}, Able(groups, gr) # {},
           NEW m, NEW b, NEW h, Answer(groups, gr, m, b, h),
           NEW r \in Served(groups[m]), r.plural = h.plural,
           NEW name, Named(r, name),
           NEW same, same = [group |-> groups[m].name, resource |-> name]
    PROVE  /\ Able(groups, same) # {}
           /\ \E c, s : Answer(groups, same, m, c, s) /\ s.plural = h.plural
<1>1. /\ m \in 1 .. Len(groups) /\ m \in Able(groups, gr)
      /\ \A i \in Able(groups, gr) : m <= i
      /\ h \in Served(groups[m]) /\ Named(h, gr.resource)
  BY AnswerIs
<1>2. DOMAIN groups = 1 .. Len(groups) /\ Len(groups) \in Nat
  OBVIOUS
<1>3. same.group = groups[m].name /\ same.resource = name
  OBVIOUS
<1>4. h.singular = r.singular
  <2>1. Named(h, h.plural) /\ Named(r, h.plural)
    BY DEF Named
  <2> QED BY <1>1, <2>1, SameNames
<1>5. m \in Able(groups, same)
  <2>1. same.group = Core \/ HasPrefix(groups[m].name, same.group)
    BY <1>1, <1>3 DEF PrefixOrder
  <2>2. \E v \in Listed(groups[m]) : Has(groups[m], v, same.resource)
    BY <1>1, <1>3, ServedIs
  <2> QED BY <1>1, <1>2, <2>1, <2>2 DEF Able
<1>6. ASSUME NEW i \in Able(groups, same) PROVE m <= i
  <2>1. /\ i \in 1 .. Len(groups)
        /\ same.group = Core \/ HasPrefix(groups[i].name, same.group)
        /\ \E v \in Listed(groups[i]) : Has(groups[i], v, name)
    BY <1>2, <1>3 DEF Able
  <2>2. CASE groups[m].name = Core
    <3>1. m = 1
      BY <1>1, <2>2, Zenon DEF WellFormed
    <3> QED BY <1>2, <2>1, <3>1
  <2>3. CASE groups[m].name # Core
    <3>1. HasPrefix(groups[i].name, groups[m].name)
      BY <1>3, <2>1, <2>3
    <3>2. PICK v \in Listed(groups[i]) : Has(groups[i], v, name)
      BY <2>1
    <3>3. PICK s \in groups[i].resources[v] : Named(s, name)
      BY <3>2 DEF Has
    <3>4. s \in Served(groups[i])
      BY <3>2, <3>3, Zenon DEF Served, Has, Fetched
    <3>5. r.plural = s.plural /\ r.singular = s.singular
      BY <1>1, <2>1, <2>3, <3>1, <3>3, <3>4, SameNames
    <3>6. Named(s, gr.resource)
      BY <1>1, <1>4, <3>5 DEF Named
    <3>7. gr.group = Core \/ HasPrefix(groups[i].name, gr.group)
      <4>1. gr.group = Core \/ HasPrefix(groups[m].name, gr.group)
        BY <1>1 DEF Able
      <4>2. groups[m].name \in names \ {Core} /\ groups[i].name \in names
        BY <1>1, <2>1, <2>3
      <4> QED BY <3>1, <4>1, <4>2 DEF PrefixOrder
    <3>8. Has(groups[i], v, gr.resource)
      BY <3>2, <3>3, <3>6 DEF Has
    <3>9. i \in Able(groups, gr)
      BY <1>2, <2>1, <3>2, <3>7, <3>8 DEF Able
    <3> QED BY <1>1, <3>9
  <2> QED BY <2>2, <2>3
<1>7. m = Min(Able(groups, same))
  <2>1. Able(groups, same) \subseteq Nat
    BY <1>2 DEF Able
  <2> QED BY <1>5, <1>6, <2>1, MinIs
<1> DEFINE c == Best(groups[m], same.resource)
           s == Hit(VersionMapper(groups[m], c), same)
<1>8. Answer(groups, same, m, c, s) /\ Able(groups, same) # {}
  BY <1>5, <1>7 DEF Answer
<1> HIDE DEF c, s
<1>9. s \in Served(groups[m]) /\ Named(s, name)
  BY <1>3, <1>8, AnswerIs
<1>10. s.plural = h.plural
  BY <1>1, <1>9, SameNames
<1> QED BY <1>8, <1>10
=============================================================================
