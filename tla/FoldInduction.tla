---------------------------- MODULE FoldInduction ----------------------------
(***************************************************************************)
(* Induction over the naturals and over the elements of a sequence, for    *)
(* one operator at a time: the provers cannot apply a theorem that has an  *)
(* operator as a parameter, but an instance of this module is a theorem    *)
(* about the operators that replace its constants.                         *)
(***************************************************************************)
EXTENDS SequencesExt, WellFoundedInduction, TLAPS

CONSTANTS
  Op(_, _, _),   \* a step of a fold: context, accumulated value, element
  Inv(_, _)      \* a predicate of a context and a value

(* The fold of a sequence in context c, as FoldLeft defines it. *)
Fold(c, base, s) == FoldLeft(LAMBDA a, x : Op(c, a, x), base, s)

(* A nonempty set of naturals has a least element. *)
LEMMA Least ==
  ASSUME NEW S \in SUBSET Nat, S # {}
  PROVE  \E m \in S : \A x \in S : m <= x
<1>1. PICK m \in S : \A x \in S : <<x, m>> \notin OpToRel(<, Nat)
  BY WFMin, NatLessThanWellFounded, Zenon
<1>2. \A x \in S : ~ (x < m)
  BY <1>1, Zenon DEF OpToRel
<1> QED  BY <1>2

(* Induction over the naturals. *)
THEOREM NatInd ==
  ASSUME NEW c, Inv(c, 0), \A n \in Nat : Inv(c, n) => Inv(c, n + 1)
  PROVE  \A n \in Nat : Inv(c, n)
<1> DEFINE T == {n \in Nat : ~Inv(c, n)}
<1> SUFFICES ASSUME T # {} PROVE FALSE
  OBVIOUS
<1>1. PICK m \in T : \A x \in T : m <= x
  BY Least
<1>2. m # 0 /\ m - 1 \in Nat /\ ~(m - 1 \in T)
  BY <1>1
<1>3. Inv(c, m - 1)
  BY <1>2
<1>4. Inv(c, (m - 1) + 1) /\ (m - 1) + 1 = m
  BY <1>2, <1>3
<1> QED  BY <1>4

(* The greatest of the first numbers is the last. *)
LEMMA MaxOfSome ==
  ASSUME NEW k \in Nat, NEW t \in SUBSET (1 .. k + 1)
  PROVE  /\ k + 1 \in t => Max(t) = k + 1
         /\ t = 1 .. k + 1 => Max(t) = k + 1
<1>1. ASSUME k + 1 \in t PROVE Max(t) = k + 1
  <2>1. \A y \in t : k + 1 >= y
    OBVIOUS
  <2>2. \A x \in t : (\A y \in t : x >= y) => x = k + 1
    BY <1>1
  <2> QED  BY <1>1, <2>1, <2>2 DEF Max
<1> QED  BY <1>1

(* The recursion of FoldLeft, over the sets of indices up to k. *)
Folds(c, base, s, k, g) ==
  g = [t \in SUBSET (1 .. k) |->
         IF t = {} THEN base ELSE Op(c, g[t \ {Max(t)}], s[Max(t)])]

(* It defines a function. *)
LEMMA FoldExists ==
  ASSUME NEW c, NEW base, NEW s, NEW n \in Nat
  PROVE  \E g : Folds(c, base, s, n, g)
<1> DEFINE T == {k \in Nat : ~\E g : Folds(c, base, s, k, g)}
<1> SUFFICES ASSUME T # {} PROVE FALSE
  OBVIOUS
<1>1. PICK m \in T : \A x \in T : m <= x
  BY Least
<1>2. m # 0
  <2> DEFINE g == [t \in SUBSET (1 .. 0) |-> base]
  <2>1. \A t \in SUBSET (1 .. 0) : t = {}
    OBVIOUS
  <2>2. Folds(c, base, s, 0, g)
    BY <2>1 DEF Folds
  <2> QED  BY <2>2
<1>3. PICK k \in Nat : m = k + 1
  BY <1>2
<1>4. PICK g : Folds(c, base, s, k, g)
  BY <1>1, <1>3
<1> DEFINE h == [t \in SUBSET (1 .. k + 1) |->
                   IF k + 1 \in t THEN Op(c, g[t \ {k + 1}], s[k + 1]) ELSE g[t]]
<1>5. ASSUME NEW t \in SUBSET (1 .. k + 1)
      PROVE  h[t] = IF t = {} THEN base ELSE Op(c, h[t \ {Max(t)}], s[Max(t)])
  <2>1. CASE k + 1 \in t
    <3>1. Max(t) = k + 1
      BY <2>1, MaxOfSome
    <3>2. t \ {k + 1} \in SUBSET (1 .. k + 1) /\ ~(k + 1 \in t \ {k + 1})
      OBVIOUS
    <3>3. h[t \ {k + 1}] = g[t \ {k + 1}]
      BY <3>2
    <3> QED  BY <2>1, <3>1, <3>3
  <2>2. CASE k + 1 \notin t
    <3>1. t \in SUBSET (1 .. k)
      BY <2>2
    <3>2. g[t] = IF t = {} THEN base ELSE Op(c, g[t \ {Max(t)}], s[Max(t)])
      BY <1>4, <3>1 DEF Folds
    <3>3. t \ {Max(t)} \in SUBSET (1 .. k + 1) /\ k + 1 \notin t \ {Max(t)}
      BY <2>2
    <3>4. h[t] = g[t] /\ h[t \ {Max(t)}] = g[t \ {Max(t)}]
      BY <2>2, <3>3
    <3> QED  BY <3>2, <3>4
  <2> QED  BY <2>1, <2>2
<1> HIDE DEF h
<1>6. h = [t \in SUBSET (1 .. k + 1) |-> h[t]]
  BY DEF h
<1>7. Folds(c, base, s, k + 1, h)
  BY <1>5, <1>6 DEF Folds
<1> QED  BY <1>1, <1>3, <1>7

(* The values of a fold after each element: acc[i] after i of them. *)
Steps(c, base, s, n, acc) ==
  /\ acc[0] = base
  /\ \A i \in 1 .. n : acc[i] = Op(c, acc[i - 1], s[i])
  /\ Fold(c, base, s) = acc[n]

(* A fold goes through such values. *)
THEOREM FoldSteps ==
  ASSUME NEW c, NEW base, NEW n \in Nat, NEW s, DOMAIN s = 1 .. n
  PROVE  \E acc : Steps(c, base, s, n, acc)
<1> DEFINE iter == CHOOSE g : Folds(c, base, s, n, g)
           acc == [i \in 0 .. n |-> iter[1 .. i]]
<1>1. Folds(c, base, s, n, iter)
  BY FoldExists
<1>2. Fold(c, base, s) = iter[1 .. n]
  BY DEF Fold, FoldLeft, MapThenFoldSet, Folds
<1> HIDE DEF iter
<1>3. acc[0] = base
  <2>1. 1 .. 0 = {} /\ {} \in SUBSET (1 .. n)
    OBVIOUS
  <2> QED  BY <1>1, <2>1 DEF Folds
<1>4. ASSUME NEW i \in 1 .. n PROVE acc[i] = Op(c, acc[i - 1], s[i])
  <2>1. i - 1 \in Nat /\ (i - 1) + 1 = i
    OBVIOUS
  <2>2. Max(1 .. i) = i
    BY <2>1, MaxOfSome
  <2>3. (1 .. i) \ {i} = 1 .. i - 1 /\ 1 .. i \in SUBSET (1 .. n) /\ 1 .. i # {}
    OBVIOUS
  <2>4. iter[1 .. i] = Op(c, iter[(1 .. i) \ {Max(1 .. i)}], s[Max(1 .. i)])
    BY <1>1, <2>3, Zenon DEF Folds
  <2>5. acc[i] = iter[1 .. i] /\ acc[i - 1] = iter[1 .. i - 1]
    OBVIOUS
  <2>6. iter[(1 .. i) \ {Max(1 .. i)}] = iter[1 .. i - 1]
    BY <2>2, <2>3
  <2> QED  BY <2>2, <2>4, <2>5, <2>6
<1>5. acc[n] = iter[1 .. n]
  OBVIOUS
<1> HIDE DEF acc
<1>6. Steps(c, base, s, n, acc)
  BY <1>2, <1>3, <1>4, <1>5 DEF Steps
<1> QED  BY <1>6

(* What a step keeps, a fold keeps. *)
THEOREM FoldKeeps ==
  ASSUME NEW c, NEW base, NEW n \in Nat, NEW s, DOMAIN s = 1 .. n, Inv(c, base),
         ASSUME NEW a, NEW i \in 1 .. n, Inv(c, a) PROVE Inv(c, Op(c, a, s[i]))
  PROVE  Inv(c, Fold(c, base, s))
<1>0. PICK acc : Steps(c, base, s, n, acc)
  BY FoldSteps, Zenon
<1>1. /\ acc[0] = base
      /\ \A i \in 1 .. n : acc[i] = Op(c, acc[i - 1], s[i])
      /\ Fold(c, base, s) = acc[n]
  BY <1>0 DEF Steps
<1> DEFINE T == {i \in 0 .. n : ~Inv(c, acc[i])}
<1>2. ASSUME T # {} PROVE FALSE
  <2>0. T \in SUBSET Nat
    OBVIOUS
  <2>1. PICK m \in T : \A x \in T : m <= x
    <3> HIDE DEF T
    <3> QED  BY <1>2, <2>0, Least
  <2>2. m # 0 /\ m - 1 \in 0 .. n /\ m \in 1 .. n
    BY <1>1, <2>1
  <2>3. Inv(c, acc[m - 1])
    BY <2>1, <2>2
  <2>4. Inv(c, Op(c, acc[m - 1], s[m]))
    BY <2>2, <2>3
  <2> QED  BY <1>1, <2>1, <2>2, <2>4
<1>3. Inv(c, acc[n])
  BY <1>2
<1> QED  BY <1>1, <1>3

(* A fold of nothing is its base. *)
THEOREM FoldEmpty ==
  ASSUME NEW c, NEW base
  PROVE  Fold(c, base, <<>>) = base
<1>1. DOMAIN <<>> = 1 .. 0 /\ 0 \in Nat
  OBVIOUS
<1>2. PICK acc : Steps(c, base, <<>>, 0, acc)
  BY <1>1, FoldSteps, Zenon
<1> QED  BY <1>2 DEF Steps

(* The last element is folded in last. *)
THEOREM FoldLast ==
  ASSUME NEW c, NEW base, NEW n \in Nat, NEW s, DOMAIN s = 1 .. n + 1,
         NEW t, DOMAIN t = 1 .. n, \A i \in 1 .. n : t[i] = s[i]
  PROVE  Fold(c, base, s) = Op(c, Fold(c, base, t), s[n + 1])
<1>a. PICK f : Steps(c, base, s, n + 1, f)
  <2>1. n + 1 \in Nat
    OBVIOUS
  <2> QED  BY <2>1, FoldSteps, Zenon
<1>b. PICK g : Steps(c, base, t, n, g)
  BY FoldSteps, Zenon
<1>1. /\ f[0] = base
      /\ \A i \in 1 .. n + 1 : f[i] = Op(c, f[i - 1], s[i])
      /\ Fold(c, base, s) = f[n + 1]
  BY <1>a DEF Steps
<1>2. /\ g[0] = base
      /\ \A i \in 1 .. n : g[i] = Op(c, g[i - 1], t[i])
      /\ Fold(c, base, t) = g[n]
  BY <1>b DEF Steps
<1>3. f[n] = g[n]
  <2> DEFINE T == {i \in 0 .. n : f[i] # g[i]}
  <2>1. ASSUME T # {} PROVE FALSE
    <3>0. T \in SUBSET Nat
      OBVIOUS
    <3>1. PICK m \in T : \A x \in T : m <= x
      <4> HIDE DEF T
      <4> QED  BY <2>1, <3>0, Least
    <3>2. m # 0 /\ m - 1 \in 0 .. n /\ m \in 1 .. n /\ m \in 1 .. n + 1
      BY <1>1, <1>2, <3>1
    <3>3. f[m - 1] = g[m - 1]
      BY <3>1, <3>2
    <3>4. f[m] = Op(c, f[m - 1], s[m]) /\ g[m] = Op(c, g[m - 1], t[m])
      BY <1>1, <1>2, <3>2
    <3>5. t[m] = s[m]
      BY <3>2
    <3> QED  BY <3>1, <3>3, <3>4, <3>5
  <2> QED  BY <2>1
<1>4. f[n + 1] = Op(c, f[n], s[n + 1])
  BY <1>1
<1> QED  BY <1>1, <1>2, <1>3, <1>4

(* In particular the one that is appended to a sequence. *)
THEOREM FoldAppend ==
  ASSUME NEW c, NEW base, NEW S, NEW s \in Seq(S), NEW x \in S
  PROVE  Fold(c, base, Append(s, x)) = Op(c, Fold(c, base, s), x)
<1> DEFINE u == Append(s, x)
           n == Len(s)
<1>1. n \in Nat /\ DOMAIN s = 1 .. n /\ DOMAIN u = 1 .. n + 1
  OBVIOUS
<1>2. u[n + 1] = x
  OBVIOUS
<1>3. \A i \in 1 .. n : s[i] = u[i]
  OBVIOUS
<1> HIDE DEF u, n
<1>4. Fold(c, base, u) = Op(c, Fold(c, base, s), u[n + 1])
  BY <1>1, <1>3, FoldLast
<1> QED  BY <1>2, <1>4 DEF u

(* A recursion over the naturals: the accumulated value after n steps. *)
Count(c, base) ==
  LET f[n \in Nat] == IF n = 0 THEN base ELSE Op(c, f[n - 1], n)
  IN f

(* It does define a function: its values are those of folds of 1, 2, ... *)
LEMMA CountSteps ==
  ASSUME NEW c, NEW base
  PROVE  Count(c, base) = [n \in Nat |-> IF n = 0 THEN base
                                         ELSE Op(c, Count(c, base)[n - 1], n)]
<1> DEFINE g == [n \in Nat |-> Fold(c, base, [i \in 1 .. n |-> i])]
<1>1. g[0] = base
  <2> DEFINE s == [i \in 1 .. 0 |-> i]
  <2>1. DOMAIN s = 1 .. 0 /\ 0 \in Nat
    OBVIOUS
  <2> HIDE DEF s
  <2>2. PICK acc : Steps(c, base, s, 0, acc)
    BY <2>1, FoldSteps, Zenon
  <2>3. Fold(c, base, s) = base
    BY <2>2 DEF Steps
  <2> QED  BY <2>3 DEF s
<1>2. ASSUME NEW n \in Nat, n # 0 PROVE g[n] = Op(c, g[n - 1], n)
  <2> DEFINE s == [i \in 1 .. n |-> i]
             t == [i \in 1 .. n - 1 |-> i]
  <2>1. n - 1 \in Nat /\ (n - 1) + 1 = n
    BY <1>2
  <2>2. /\ DOMAIN s = 1 .. (n - 1) + 1 /\ DOMAIN t = 1 .. n - 1
        /\ \A i \in 1 .. n - 1 : t[i] = s[i]
        /\ s[(n - 1) + 1] = n
    BY <2>1
  <2> HIDE DEF s, t
  <2>3. Fold(c, base, s) = Op(c, Fold(c, base, t), n)
    BY <2>1, <2>2, FoldLast
  <2> QED  BY <2>1, <2>3 DEF s, t
<1>3. g = [n \in Nat |-> IF n = 0 THEN base ELSE Op(c, g[n - 1], n)]
  BY <1>1, <1>2
<1> HIDE DEF g
<1> QED  BY <1>3, Zenon DEF Count

(* What a step keeps, every value of the recursion keeps. *)
THEOREM CountKeeps ==
  ASSUME NEW c, NEW base, Inv(c, base),
         ASSUME NEW a, NEW n \in Nat, Inv(c, a) PROVE Inv(c, Op(c, a, n))
  PROVE  \A n \in Nat : Inv(c, Count(c, base)[n])
<1> DEFINE f == Count(c, base)
           T == {n \in Nat : ~Inv(c, f[n])}
<1>1. \A n \in Nat : f[n] = IF n = 0 THEN base ELSE Op(c, f[n - 1], n)
  <2>1. f = [n \in Nat |-> IF n = 0 THEN base ELSE Op(c, f[n - 1], n)]
    BY CountSteps
  <2> HIDE DEF f
  <2> QED  BY <2>1
<1> HIDE DEF f
<1> SUFFICES ASSUME T # {} PROVE FALSE
  BY DEF f
<1>2. PICK m \in T : \A x \in T : m <= x
  BY Least
<1>3. m # 0 /\ m \in Nat /\ m - 1 \in Nat /\ m - 1 \notin T
  BY <1>1, <1>2
<1>4. Inv(c, f[m - 1])
  BY <1>3
<1>5. Inv(c, Op(c, f[m - 1], m))
  BY <1>3, <1>4
<1> QED  BY <1>1, <1>2, <1>3, <1>5
=============================================================================
