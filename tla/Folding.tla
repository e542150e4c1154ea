-------------------------------- MODULE Folding --------------------------------
(***************************************************************************)
(* Lemmas about the folds the models are built from: FoldLeft over a       *)
(* sequence, for any operator, and the sum of a function over a finite     *)
(* set.  A module that folds with an operator of its own takes an instance *)
(* of this one with that operator for op; p carries what else it needs.    *)
(*                                                                         *)
(* The two induction principles are stated for sets instead of predicates: *)
(* that way they can be cited like any other fact.                         *)
(***************************************************************************)
EXTENDS Integers, Sequences, FiniteSets, SequencesExt, FiniteSetTheorems,
        WellFoundedInduction, TLAPS

CONSTANT op(_, _, _)   \* the parameter, the value so far, the next element

Fold(p, b, s) == FoldLeft(LAMBDA v, x : op(p, v, x), b, s)

-----------------------------------------------------------------------------
(* A set of numbers with 0, and with n + 1 for each n in it, has them all. *)
LEMMA NatSetInduction ==
  ASSUME NEW S, 0 \in S, \A n \in Nat : n \in S => n + 1 \in S
  PROVE  \A n \in Nat : n \in S
<1> DEFINE T == Nat \ S
<1> SUFFICES ASSUME T # {} PROVE FALSE
  OBVIOUS
<1>1. \E x \in T : \A y \in T : ~ (<<y, x>> \in OpToRel(<, Nat))
  BY WFMin, NatLessThanWellFounded, Zenon
<1>2. \A x, y \in Nat : x < y => <<x, y>> \in OpToRel(<, Nat)
  BY Zenon DEF OpToRel
<1>3. PICK x \in T : \A y \in T : ~ (y < x)
  BY <1>1, <1>2
<1>4. x # 0 /\ x - 1 \in Nat /\ x - 1 \notin T
  BY <1>3
<1> QED BY <1>3, <1>4

(* A set of subsets of S with {}, and with T \cup {x} for each T in it and   *)
(* each x outside of T, has S itself.                                        *)
LEMMA FiniteInduction ==
  ASSUME NEW S, IsFiniteSet(S), NEW P,
         {} \in P,
         \A T \in SUBSET S : \A x \in S \ T : T \in P => T \cup {x} \in P
  PROVE  S \in P
<1> DEFINE Q == {n \in Nat : \A T \in SUBSET S : Cardinality(T) = n => T \in P}
<1>1. \A T \in SUBSET S : IsFiniteSet(T) /\ Cardinality(T) \in Nat
  BY FS_Subset, FS_CardinalityType
<1>2. 0 \in Q
  BY <1>1, FS_EmptySet
<1>3. ASSUME NEW n \in Nat, n \in Q PROVE n + 1 \in Q
  <2> SUFFICES ASSUME NEW T \in SUBSET S, Cardinality(T) = n + 1 PROVE T \in P
    OBVIOUS
  <2>0. IsFiniteSet(T) /\ T # {}
    BY <1>1, FS_EmptySet
  <2>1. PICK x \in T : TRUE
    BY <2>0
  <2>2. Cardinality(T \ {x}) = n
    <3>1. Cardinality(T \ {x}) = Cardinality(T) - 1
      BY <2>0, <2>1, FS_RemoveElement
    <3> QED BY <3>1
  <2>3. T \ {x} \in P /\ x \in S \ (T \ {x}) /\ T = (T \ {x}) \cup {x}
    BY <1>3, <2>1, <2>2
  <2> QED BY <2>3
<1> HIDE DEF Q
<1>4. Cardinality(S) \in Q
  BY <1>1, <1>2, <1>3, NatSetInduction
<1> QED BY <1>4 DEF Q

-----------------------------------------------------------------------------
(* FoldLeft *)

(* The greatest of some positions. *)
LEMMA MaxFacts ==
  ASSUME NEW n \in Nat, NEW T \in SUBSET (1 .. n), T # {}
  PROVE  Max(T) \in T /\ \A y \in T : y <= Max(T)
<1> DEFINE Q == {k \in Nat : T \cap (1 .. k) # {} =>
                   \E x \in T \cap (1 .. k) : \A y \in T \cap (1 .. k) : y <= x}
<1>1. 0 \in Q
  OBVIOUS
<1>2. ASSUME NEW k \in Nat, k \in Q PROVE k + 1 \in Q
  <2>1. CASE k + 1 \in T
    BY <2>1
  <2>2. CASE k + 1 \notin T
    <3>1. T \cap (1 .. k + 1) = T \cap (1 .. k)
      BY <2>2
    <3> QED BY <1>2, <3>1
  <2> QED BY <2>1, <2>2
<1> HIDE DEF Q
<1>3. n \in Q
  BY <1>1, <1>2, NatSetInduction
<1>4. \E x \in T : \A y \in T : x >= y
  BY <1>3 DEF Q
<1>5. Max(T) \in T /\ \A y \in T : Max(T) >= y
  BY <1>4, Zenon DEF Max
<1> QED BY <1>5

Iter(it, p, b, s, D) ==
  it = [T \in D |-> IF T = {} THEN b ELSE op(p, it[T \ {Max(T)}], s[Max(T)])]

(* The recursion a fold is defined by has a solution. *)
LEMMA IterExists ==
  ASSUME NEW p, NEW b, NEW s, NEW n \in Nat
  PROVE  \E it : Iter(it, p, b, s, SUBSET (1 .. n))
<1> DEFINE D(k) == {T \in SUBSET (1 .. n) : Cardinality(T) <= k}
           Q == {k \in Nat : \E it : Iter(it, p, b, s, D(k))}
<1>0. IsFiniteSet(1 .. n) /\ Cardinality(1 .. n) = n
  <2>1. 1 \in Int /\ n \in Int /\ (IF 1 > n THEN 0 ELSE n - 1 + 1) = n
    OBVIOUS
  <2> QED BY <2>1, FS_Interval, Zenon
<1>1. \A T \in SUBSET (1 .. n) :
        IsFiniteSet(T) /\ Cardinality(T) \in Nat /\ Cardinality(T) <= n
  BY <1>0, FS_Subset, FS_CardinalityType, Zenon
<1>2. 0 \in Q
  <2>1. \A T \in D(0) : T = {}
    <3>1. \A T \in D(0) : IsFiniteSet(T) /\ Cardinality(T) = 0
      BY <1>1
    <3> QED BY <3>1, FS_EmptySet, Zenon
  <2> DEFINE it == [T \in D(0) |-> b]
  <2>2. Iter(it, p, b, s, D(0))
    BY <2>1 DEF Iter
  <2> QED BY <2>2
<1>3. ASSUME NEW k \in Nat, k \in Q PROVE k + 1 \in Q
  <2>1. PICK it : Iter(it, p, b, s, D(k))
    BY <1>3
  <2> DEFINE jt == [T \in D(k + 1) |->
                      IF T = {} THEN b ELSE op(p, it[T \ {Max(T)}], s[Max(T)])]
  <2>2. ASSUME NEW T \in D(k + 1), T # {} PROVE jt[T \ {Max(T)}] = it[T \ {Max(T)}]
    <3> DEFINE U == T \ {Max(T)}
    <3>1. Max(T) \in T
      BY <2>2, MaxFacts
    <3>2. U \in D(k) /\ U \in D(k + 1)
      <4>1. T \in SUBSET (1 .. n) /\ IsFiniteSet(T) /\ Cardinality(T) \in Nat
            /\ Cardinality(T) <= k + 1
        BY <1>1
      <4>2. Cardinality(U) = Cardinality(T) - 1
        BY <3>1, <4>1, FS_RemoveElement
      <4>3. Cardinality(U) <= k /\ Cardinality(U) <= k + 1
        BY <4>1, <4>2
      <4> QED BY <4>1, <4>3
    <3> QED BY <2>1, <3>2 DEF Iter
  <2>3. Iter(jt, p, b, s, D(k + 1))
    BY <2>2, Zenon DEF Iter
  <2> QED BY <2>3
<1> HIDE DEF Q
<1>4. n \in Q
  BY <1>2, <1>3, NatSetInduction
<1>5. D(n) = SUBSET (1 .. n)
  BY <1>1
<1> QED BY <1>4, <1>5 DEF Q

(* The values a fold goes through. *)
Runs(h, p, b, s) ==
  /\ h[0] = b
  /\ \A k \in 1 .. Len(s) : h[k] = op(p, h[k - 1], s[k])

(* A fold is the last of the values it goes through, *)
LEMMA FoldRuns ==
  ASSUME NEW p, NEW b, NEW X, NEW s \in Seq(X)
  PROVE  \E h : Runs(h, p, b, s) /\ Fold(p, b, s) = h[Len(s)]
<1> DEFINE n == Len(s)
           it == CHOOSE it : Iter(it, p, b, s, SUBSET (1 .. n))
           h == [k \in 0 .. n |-> it[1 .. k]]
<1>1. n \in Nat /\ DOMAIN s = 1 .. n
  OBVIOUS
<1>2. Iter(it, p, b, s, SUBSET (1 .. n))
  BY <1>1, IterExists, Zenon
<1>3. Fold(p, b, s) = it[1 .. n]
  <2>1. Fold(p, b, s) = it[DOMAIN s]
    BY <1>1, Zenon DEF Fold, FoldLeft, MapThenFoldSet, Iter
  <2> QED BY <1>1, <2>1
<1> HIDE DEF it
<1>4. h[0] = b
  <2>1. 1 .. 0 = {} /\ {} \in SUBSET (1 .. n)
    OBVIOUS
  <2>2. it[{}] = b
    BY <1>2, <2>1, Zenon DEF Iter
  <2> QED BY <1>1, <2>1, <2>2
<1>5. ASSUME NEW k \in 1 .. n PROVE h[k] = op(p, h[k - 1], s[k])
  <2>1. 1 .. k \in SUBSET (1 .. n) /\ 1 .. k # {}
    <3>1. k \in 1 .. k /\ \A i \in 1 .. k : i \in 1 .. n
      BY <1>1
    <3> QED BY <3>1, Zenon
  <2>2. Max(1 .. k) = k
    <3>1. Max(1 .. k) \in 1 .. k /\ \A y \in 1 .. k : y <= Max(1 .. k)
      BY <1>1, <2>1, MaxFacts, Zenon
    <3> QED BY <1>1, <3>1
  <2>3. (1 .. k) \ {k} = 1 .. (k - 1)
    BY <1>1
  <2>4. it[1 .. k] = op(p, it[1 .. (k - 1)], s[k])
    BY <1>2, <2>1, <2>2, <2>3, Zenon DEF Iter
  <2> QED BY <2>4, <1>1
<1>6. Runs(h, p, b, s)
  BY <1>4, <1>5 DEF Runs
<1> QED BY <1>1, <1>3, <1>6

(* and equal elements make equal values. *)
LEMMA RunsAgree ==
  ASSUME NEW p, NEW b, NEW s, NEW t, NEW g, NEW h, Runs(g, p, b, s), Runs(h, p, b, t),
         NEW n \in Nat, Len(s) \in Nat, Len(t) \in Nat, n <= Len(s), n <= Len(t),
         \A k \in 1 .. n : s[k] = t[k]
  PROVE  g[n] = h[n]
<1> DEFINE Q == {k \in Nat : k <= n => g[k] = h[k]}
<1>1. 0 \in Q
  BY DEF Runs
<1>2. ASSUME NEW k \in Nat, k \in Q PROVE k + 1 \in Q
  <2> SUFFICES ASSUME k + 1 <= n PROVE g[k + 1] = h[k + 1]
    OBVIOUS
  <2>1. k + 1 \in 1 .. Len(s) /\ k + 1 \in 1 .. Len(t) /\ k + 1 \in 1 .. n /\ (k + 1) - 1 = k
    OBVIOUS
  <2>2. g[k] = h[k]
    BY <1>2
  <2>3. g[k + 1] = op(p, g[(k + 1) - 1], s[k + 1]) /\ h[k + 1] = op(p, h[(k + 1) - 1], t[k + 1])
    BY <2>1 DEF Runs
  <2> QED BY <2>1, <2>2, <2>3
<1> HIDE DEF Q
<1>3. n \in Q
  BY <1>1, <1>2, NatSetInduction
<1> QED BY <1>3 DEF Q

(* Over no element a fold stays where it starts. *)
THEOREM FoldEmpty == \A p, b : Fold(p, b, << >>) = b
<1> SUFFICES ASSUME NEW p, NEW b PROVE Fold(p, b, << >>) = b
  OBVIOUS
<1>1. << >> \in Seq({}) /\ Len(<< >>) = 0
  OBVIOUS
<1>2. PICK h : Runs(h, p, b, << >>) /\ Fold(p, b, << >>) = h[Len(<< >>)]
  BY <1>1, FoldRuns, Zenon
<1> QED BY <1>1, <1>2 DEF Runs

(* The last element of the sequence is taken last. *)
THEOREM FoldAppend ==
  ASSUME NEW p, NEW b, NEW X, NEW s \in Seq(X), NEW x \in X
  PROVE  Fold(p, b, Append(s, x)) = op(p, Fold(p, b, s), x)
<1> DEFINE t == Append(s, x)
           n == Len(s)
<1>1. /\ t \in Seq(X) /\ Len(t) = n + 1 /\ n \in Nat /\ t[n + 1] = x
      /\ \A k \in 1 .. n : t[k] = s[k]
  OBVIOUS
<1> HIDE DEF t
<1>2. PICK g : Runs(g, p, b, s) /\ Fold(p, b, s) = g[n]
  BY FoldRuns
<1>3. PICK h : Runs(h, p, b, t) /\ Fold(p, b, t) = h[n + 1]
  BY <1>1, FoldRuns
<1>4. g[n] = h[n]
  <2>1. n <= Len(s) /\ n <= Len(t)
    BY <1>1
  <2>2. Runs(g, p, b, s) /\ Runs(h, p, b, t)
    BY <1>2, <1>3
  <2>3. n \in Nat /\ Len(s) \in Nat /\ Len(t) \in Nat /\ \A k \in 1 .. n : s[k] = t[k]
    BY <1>1
  <2> HIDE DEF n
  <2> QED BY <2>1, <2>2, <2>3, RunsAgree
<1>5. h[n + 1] = op(p, h[(n + 1) - 1], t[n + 1]) /\ (n + 1) - 1 = n
  BY <1>1, <1>3 DEF Runs
<1> QED BY <1>1, <1>2, <1>3, <1>4, <1>5 DEF t

(* A fold over two sequences goes on where the first one left off. *)
THEOREM FoldConcat ==
  ASSUME NEW p, NEW b, NEW X, NEW s \in Seq(X), NEW t \in Seq(X)
  PROVE  Fold(p, b, s \o t) = Fold(p, Fold(p, b, s), t)
<1> DEFINE Prefix(k) == SubSeq(t, 1, k)
           Q == {k \in Nat : k <= Len(t) =>
                   Fold(p, b, s \o Prefix(k)) = Fold(p, Fold(p, b, s), Prefix(k))}
<1>1. 0 \in Q
  <2>1. Prefix(0) = << >> /\ s \o << >> = s
    OBVIOUS
  <2> QED BY <2>1, FoldEmpty
<1>2. ASSUME NEW k \in Nat, k \in Q PROVE k + 1 \in Q
  <2> SUFFICES ASSUME k + 1 <= Len(t)
               PROVE  Fold(p, b, s \o Prefix(k + 1)) = Fold(p, Fold(p, b, s), Prefix(k + 1))
    OBVIOUS
  <2> DEFINE x == t[k + 1]
             u == Prefix(k)
  <2>1. x \in X /\ u \in Seq(X) /\ Prefix(k + 1) = Append(u, x)
    OBVIOUS
  <2>2. Fold(p, b, s \o u) = Fold(p, Fold(p, b, s), u)
    BY <1>2
  <2> HIDE DEF x, u, Prefix
  <2>3. s \o u \in Seq(X) /\ s \o Append(u, x) = Append(s \o u, x)
    BY <2>1
  <2>4. Fold(p, b, Append(s \o u, x)) = op(p, Fold(p, b, s \o u), x)
    <3> DEFINE w == s \o u
    <3>1. w \in Seq(X)
      BY <2>3
    <3> HIDE DEF w
    <3>2. Fold(p, b, Append(w, x)) = op(p, Fold(p, b, w), x)
      BY <2>1, <3>1, FoldAppend
    <3> QED BY <3>2 DEF w
  <2>5. Fold(p, Fold(p, b, s), Append(u, x)) = op(p, Fold(p, Fold(p, b, s), u), x)
    BY <2>1, FoldAppend
  <2> QED BY <2>1, <2>2, <2>3, <2>4, <2>5
<1>3. Prefix(Len(t)) = t
  OBVIOUS
<1> HIDE DEF Q, Prefix
<1>4. Len(t) \in Q
  BY <1>1, <1>2, NatSetInduction
<1> QED BY <1>3, <1>4 DEF Q
-----------------------------------------------------------------------------
(* Sums over finite sets: SumFunctionOnSet takes the elements in an order    *)
(* of its own, and the sum does not depend on it.                            *)
Sum(f, S) == SumFunctionOnSet(f, S)

One(T) == CHOOSE x \in T : TRUE
SumIter(it, f, D) ==
  it = [T \in D |-> IF T = {} THEN 0 ELSE f[One(T)] + it[T \ {One(T)}]]

(* The sizes of the parts of a finite set. *)
LEMMA SizeFacts ==
  ASSUME NEW S, IsFiniteSet(S)
  PROVE  \A T \in SUBSET S :
           /\ IsFiniteSet(T) /\ Cardinality(T) \in Nat /\ Cardinality(T) <= Cardinality(S)
           /\ Cardinality(T) = 0 => T = {}
           /\ \A x \in T : T \ {x} \in SUBSET S /\ Cardinality(T \ {x}) = Cardinality(T) - 1
<1> SUFFICES ASSUME NEW T \in SUBSET S
             PROVE  /\ IsFiniteSet(T) /\ Cardinality(T) \in Nat /\ Cardinality(T) <= Cardinality(S)
                    /\ Cardinality(T) = 0 => T = {}
                    /\ \A x \in T : T \ {x} \in SUBSET S /\ Cardinality(T \ {x}) = Cardinality(T) - 1
  OBVIOUS
<1>1. IsFiniteSet(T) /\ Cardinality(T) <= Cardinality(S)
  BY FS_Subset
<1>2. Cardinality(T) \in Nat
  BY <1>1, FS_CardinalityType
<1>3. Cardinality(T) = 0 => T = {}
  BY <1>1, FS_EmptySet
<1>4. \A x \in T : Cardinality(T \ {x}) = Cardinality(T) - 1
  BY <1>1, FS_RemoveElement
<1> QED BY <1>1, <1>2, <1>3, <1>4

(* One(T) is an element of T. *)
LEMMA OneFacts == \A T : T # {} => One(T) \in T
  BY DEF One

(* The recursion a sum is defined by has a solution, *)
LEMMA SumIterExists ==
  ASSUME NEW f, NEW S, IsFiniteSet(S)
  PROVE  \E it : SumIter(it, f, SUBSET S)
<1> DEFINE D(k) == {T \in SUBSET S : Cardinality(T) <= k}
           Q == {k \in Nat : \E it : SumIter(it, f, D(k))}
<1>2. 0 \in Q
  <2>1. \A T \in D(0) : T = {}
    BY SizeFacts
  <2> DEFINE it == [T \in D(0) |-> 0]
  <2>2. SumIter(it, f, D(0))
    BY <2>1 DEF SumIter
  <2> QED BY <2>2
<1>3. ASSUME NEW k \in Nat, k \in Q PROVE k + 1 \in Q
  <2>1. PICK it : SumIter(it, f, D(k))
    BY <1>3
  <2> DEFINE jt == [T \in D(k + 1) |->
                      IF T = {} THEN 0 ELSE f[One(T)] + it[T \ {One(T)}]]
  <2>2. ASSUME NEW T \in D(k + 1), T # {} PROVE jt[T \ {One(T)}] = it[T \ {One(T)}]
    <3> DEFINE U == T \ {One(T)}
    <3>1. One(T) \in T
      BY <2>2, OneFacts
    <3>2. U \in D(k) /\ U \in D(k + 1)
      <4>1. /\ T \in SUBSET S /\ Cardinality(T) \in Nat /\ Cardinality(T) <= k + 1
            /\ U \in SUBSET S /\ Cardinality(U) = Cardinality(T) - 1
        BY <3>1, SizeFacts
      <4>2. Cardinality(U) <= k /\ Cardinality(U) <= k + 1
        BY <4>1
      <4> QED BY <4>1, <4>2
    <3> QED BY <2>1, <3>2 DEF SumIter
  <2>3. SumIter(jt, f, D(k + 1))
    BY <2>2, Zenon DEF SumIter
  <2>4. \E kt : SumIter(kt, f, D(k + 1))
    BY <2>3, Zenon
  <2>5. k + 1 \in Nat
    OBVIOUS
  <2> QED BY <2>4, <2>5, Zenon
<1> HIDE DEF Q
<1>4. Cardinality(S) \in Q
  BY <1>2, <1>3, NatSetInduction, FS_CardinalityType
<1>5. D(Cardinality(S)) = SUBSET S
  BY SizeFacts
<1> QED BY <1>4, <1>5 DEF Q

(* Any element may be taken first, *)
LEMMA SumIterAny ==
  ASSUME NEW it, NEW f, NEW S, SumIter(it, f, SUBSET S), IsFiniteSet(S),
         \A x \in S : f[x] \in Int, NEW R, R \subseteq S
  PROVE  it[R] \in Int /\ \A x \in R : it[R] = f[x] + it[R \ {x}]
<1> DEFINE Good(T) == it[T] \in Int /\ \A x \in T : it[T] = f[x] + it[T \ {x}]
           Q == {k \in Nat : \A T \in SUBSET S : Cardinality(T) <= k => Good(T)}
<1>0. it[{}] = 0 /\ \A T \in SUBSET S : T # {} => it[T] = f[One(T)] + it[T \ {One(T)}]
  BY DEF SumIter
<1>1. 0 \in Q
  <2> SUFFICES ASSUME NEW T \in SUBSET S, Cardinality(T) <= 0 PROVE Good(T)
    OBVIOUS
  <2>1. T = {}
    BY SizeFacts
  <2> QED BY <1>0, <2>1
<1>2. ASSUME NEW k \in Nat, k \in Q PROVE k + 1 \in Q
  <2> SUFFICES ASSUME NEW T \in SUBSET S, Cardinality(T) <= k + 1, T # {} PROVE Good(T)
    <3>1. Good({})
      BY <1>0
    <3>2. k + 1 \in Nat
      OBVIOUS
    <3> HIDE DEF Good
    <3> QED BY <3>1, <3>2
  <2> DEFINE y == One(T)
             U == T \ {y}
  <2>1. \A x \in T : T \ {x} \in SUBSET S /\ Cardinality(T \ {x}) <= k
    <3>1. Cardinality(T) \in Nat
      BY SizeFacts
    <3>2. \A x \in T : T \ {x} \in SUBSET S /\ Cardinality(T \ {x}) = Cardinality(T) - 1
      BY SizeFacts
    <3> QED BY <3>1, <3>2
  <2>2. y \in T
    BY OneFacts
  <2>3. it[T] = f[y] + it[U]
    BY <1>0
  <2>4. \A x \in T : Good(T \ {x})
    BY <1>2, <2>1
  <2>5. f[y] \in Int /\ it[U] \in Int
    BY <2>2, <2>4
  <2>6. ASSUME NEW x \in T PROVE it[T] = f[x] + it[T \ {x}]
    <3>1. CASE x = y
      BY <2>3, <3>1
    <3>2. CASE x # y
      <4> DEFINE V == T \ {x}
                 W == U \ {x}
      <4>1. y \in V /\ x \in U /\ V \ {y} = W
        BY <2>2, <3>2
      <4>2. it[V] = f[y] + it[W]
        BY <2>4, <4>1
      <4>3. it[U] = f[x] + it[W]
        BY <2>2, <2>4, <4>1
      <4>4. it[W] \in Int
        <5>1. W \in SUBSET S /\ Cardinality(W) = Cardinality(V) - 1
          <6>1. V \in SUBSET S
            BY <2>1
          <6> HIDE DEF V, W
          <6>2. V \ {y} \in SUBSET S /\ Cardinality(V \ {y}) = Cardinality(V) - 1
            BY <4>1, <6>1, SizeFacts
          <6> QED BY <4>1, <6>2
        <5>2. Cardinality(V) \in Nat /\ Cardinality(V) <= k
          BY <2>1, SizeFacts
        <5>3. Cardinality(W) <= k
          BY <5>1, <5>2
        <5> QED BY <1>2, <5>1, <5>3
      <4>5. f[x] \in Int
        OBVIOUS
      <4> HIDE DEF V, W, U, y
      <4> QED BY <2>3, <2>5, <4>2, <4>3, <4>4, <4>5 DEF V
    <3> QED BY <3>1, <3>2
  <2>7. it[T] \in Int
    BY <2>3, <2>5
  <2> QED BY <2>6, <2>7
<1> HIDE DEF Q
<1>3. \A k \in Nat : k \in Q
  BY <1>1, <1>2, NatSetInduction
<1>4. \A T \in SUBSET S : Cardinality(T) \in Nat
  BY SizeFacts
<1>5. Good(R)
  BY <1>3, <1>4 DEF Q
<1> QED BY <1>5

(* and the sum is its value at the whole set. *)
LEMMA SumIsIter ==
  ASSUME NEW S, IsFiniteSet(S), NEW f
  PROVE  \E it : SumIter(it, f, SUBSET S) /\ Sum(f, S) = it[S]
<1> DEFINE it == CHOOSE it : SumIter(it, f, SUBSET S)
<1>1. SumIter(it, f, SUBSET S)
  BY SumIterExists, Zenon
<1>2. Sum(f, S) = it[S]
  BY Zenon DEF Sum, SumFunctionOnSet, FoldFunctionOnSet, MapThenFoldSet, SumIter, One
<1> QED BY <1>1, <1>2, Zenon

(* Only the values of the function on the set count, *)
Totals(it, f, S) ==
  SumIter(it, f, SUBSET S) /\ IsFiniteSet(S) /\ \A x \in S : f[x] \in Int

(* Two such solutions agree where their functions do. *)
LEMMA SumAgree ==
  ASSUME NEW it, NEW f, NEW S, Totals(it, f, S),
         NEW jt, NEW g, NEW R, Totals(jt, g, R),
         NEW T, T \subseteq S, T \subseteq R, \A x \in T : f[x] = g[x]
  PROVE  it[T] = jt[T]
<1> DEFINE P == {U \in SUBSET T : it[U] = jt[U]}
<1>1. IsFiniteSet(T)
  BY FS_Subset DEF Totals
<1> USE DEF Totals
<1>2. {} \in P
  BY DEF SumIter
<1>3. ASSUME NEW U \in SUBSET T, NEW x \in T \ U, U \in P PROVE U \cup {x} \in P
  <2> DEFINE V == U \cup {x}
  <2>1. V \in SUBSET S /\ V \in SUBSET R /\ V \in SUBSET T /\ x \in V /\ V \ {x} = U
    OBVIOUS
  <2> HIDE DEF V
  <2>2. it[V] = f[x] + it[V \ {x}]
    BY <2>1, SumIterAny
  <2>3. jt[V] = g[x] + jt[V \ {x}]
    BY <2>1, SumIterAny
  <2>4. it[V] = jt[V]
    BY <1>3, <2>1, <2>2, <2>3
  <2> QED BY <2>1, <2>4 DEF V
<1> HIDE DEF P
<1>4. T \in P
  BY <1>1, <1>2, <1>3, FiniteInduction
<1> QED BY <1>4 DEF P

(* so equal values have equal sums. *)
THEOREM SumSame ==
  ASSUME NEW S, IsFiniteSet(S), NEW f, NEW g,
         \A x \in S : f[x] \in Int /\ g[x] = f[x]
  PROVE  Sum(g, S) = Sum(f, S)
<1>1. PICK it : SumIter(it, f, SUBSET S) /\ Sum(f, S) = it[S]
  BY SumIsIter
<1>2. PICK jt : SumIter(jt, g, SUBSET S) /\ Sum(g, S) = jt[S]
  BY SumIsIter
<1>3. S \subseteq S /\ \A x \in S : f[x] \in Int /\ g[x] \in Int /\ f[x] = g[x]
  OBVIOUS
<1>4. Totals(it, f, S) /\ Totals(jt, g, S)
  BY <1>1, <1>2, <1>3 DEF Totals
<1>5. it[S] = jt[S]
  BY <1>3, <1>4, SumAgree
<1> QED BY <1>1, <1>2, <1>5

(* The sum over no element is 0, *)
THEOREM SumEmpty == \A f : Sum(f, {}) = 0
<1> SUFFICES ASSUME NEW f PROVE Sum(f, {}) = 0
  OBVIOUS
<1>1. PICK it : SumIter(it, f, SUBSET {}) /\ Sum(f, {}) = it[{}]
  BY SumIsIter, FS_EmptySet
<1> QED BY <1>1 DEF SumIter

(* and any element may be taken out. *)
THEOREM SumRemove ==
  ASSUME NEW S, IsFiniteSet(S), NEW f, \A x \in S : f[x] \in Int
  PROVE  /\ Sum(f, S) \in Int
         /\ \A x \in S : Sum(f, S) = f[x] + Sum(f, S \ {x})
<1>1. PICK it : SumIter(it, f, SUBSET S) /\ Sum(f, S) = it[S]
  BY SumIsIter
<1>2. Sum(f, S) \in Int
  BY <1>1, SumIterAny
<1>3. ASSUME NEW x \in S PROVE Sum(f, S) = f[x] + Sum(f, S \ {x})
  <2> DEFINE R == S \ {x}
  <2>1. IsFiniteSet(R) /\ R \subseteq S /\ \A y \in R : f[y] \in Int
    BY FS_Subset
  <2>2. it[S] = f[x] + it[R]
    <3>1. S \subseteq S
      OBVIOUS
    <3>2. \A y \in S : it[S] = f[y] + it[S \ {y}]
      BY <1>1, <3>1, SumIterAny
    <3> QED BY <3>2
  <2> HIDE DEF R
  <2>3. PICK jt : SumIter(jt, f, SUBSET R) /\ Sum(f, R) = jt[R]
    BY <2>1, SumIsIter
  <2>4. it[R] = jt[R]
    <3>1. R \subseteq R /\ \A y \in R : f[y] = f[y]
      OBVIOUS
    <3>2. Totals(it, f, S) /\ Totals(jt, f, R)
      BY <1>1, <2>1, <2>3 DEF Totals
    <3> QED BY <2>1, <3>1, <3>2, SumAgree
  <2> QED BY <1>1, <2>2, <2>3, <2>4 DEF R
<1> QED BY <1>2, <1>3

(* One more element adds its value. *)
THEOREM SumInsert ==
  ASSUME NEW S, IsFiniteSet(S), NEW x, x \notin S, NEW f, \A y \in S \cup {x} : f[y] \in Int
  PROVE  Sum(f, S \cup {x}) = Sum(f, S) + f[x]
<1> DEFINE T == S \cup {x}
<1>1. IsFiniteSet(T) /\ x \in T /\ T \ {x} = S /\ \A y \in T : f[y] \in Int
  BY FS_AddElement
<1>2. Sum(f, S) \in Int
  BY SumRemove
<1> HIDE DEF T
<1>3. Sum(f, T) = f[x] + Sum(f, T \ {x})
  BY <1>1, SumRemove
<1>4. f[x] \in Int
  BY <1>1
<1>5. Sum(f, T) = f[x] + Sum(f, S)
  BY <1>1, <1>3, Zenon
<1>6. Sum(f, T) = Sum(f, S) + f[x]
  BY <1>2, <1>4, <1>5
<1> QED BY <1>6 DEF T

(* A function changed at one place. *)
THEOREM SumChange ==
  ASSUME NEW S, IsFiniteSet(S), NEW f, NEW g, NEW x \in S,
         \A y \in S : f[y] \in Int /\ g[y] \in Int, \A y \in S \ {x} : g[y] = f[y]
  PROVE  Sum(g, S) = Sum(f, S) - f[x] + g[x]
<1> DEFINE R == S \ {x}
<1>1. IsFiniteSet(R) /\ R \subseteq S
  BY FS_Subset
<1>2. \A y \in R : f[y] \in Int /\ g[y] = f[y]
  OBVIOUS
<1>3. Sum(f, S) = f[x] + Sum(f, R)
  BY SumRemove
<1>4. Sum(g, S) = g[x] + Sum(g, R)
  BY SumRemove
<1> HIDE DEF R
<1>5. Sum(g, R) = Sum(f, R) /\ Sum(f, R) \in Int
  BY <1>1, <1>2, SumSame, SumRemove
<1> QED BY <1>3, <1>4, <1>5

(* Two sets without a common element. *)
THEOREM SumUnion ==
  ASSUME NEW S, IsFiniteSet(S), NEW T, IsFiniteSet(T), S \cap T = {},
         NEW f, \A x \in S \cup T : f[x] \in Int
  PROVE  Sum(f, S \cup T) = Sum(f, S) + Sum(f, T)
<1> DEFINE P == {U \in SUBSET T : Sum(f, S \cup U) = Sum(f, S) + Sum(f, U)}
<1>1. {} \in P
  BY SumEmpty, SumRemove
<1>2. ASSUME NEW U \in SUBSET T, NEW x \in T \ U, U \in P PROVE U \cup {x} \in P
  <2>1. /\ IsFiniteSet(U) /\ IsFiniteSet(S \cup U) /\ x \notin S \cup U
        /\ S \cup (U \cup {x}) = (S \cup U) \cup {x}
    BY FS_Subset, FS_Union
  <2>2. Sum(f, (S \cup U) \cup {x}) = Sum(f, S \cup U) + f[x]
    BY <2>1, SumInsert
  <2>3. Sum(f, U \cup {x}) = Sum(f, U) + f[x]
    BY <2>1, SumInsert
  <2>4. Sum(f, S) \in Int /\ Sum(f, U) \in Int /\ f[x] \in Int
    BY <2>1, SumRemove
  <2>5. Sum(f, S \cup U) = Sum(f, S) + Sum(f, U)
    BY <1>2
  <2>6. Sum(f, S \cup (U \cup {x})) = Sum(f, S) + Sum(f, U \cup {x})
    <3>1. Sum(f, S \cup (U \cup {x})) = Sum(f, S \cup U) + f[x]
      BY <2>1, <2>2, Zenon
    <3> QED BY <2>3, <2>4, <2>5, <3>1
  <2> QED BY <2>6
<1> HIDE DEF P
<1>3. T \in P
  BY <1>1, <1>2, FiniteInduction
<1> QED BY <1>3 DEF P

(* The sum of two functions, *)
THEOREM SumPlus ==
  ASSUME NEW S, IsFiniteSet(S), NEW f, NEW g, NEW h,
         \A x \in S : f[x] \in Int /\ g[x] \in Int /\ h[x] = f[x] + g[x]
  PROVE  Sum(h, S) = Sum(f, S) + Sum(g, S)
<1> DEFINE P == {U \in SUBSET S : Sum(h, U) = Sum(f, U) + Sum(g, U)}
<1>1. {} \in P
  BY SumEmpty
<1>2. ASSUME NEW U \in SUBSET S, NEW x \in S \ U, U \in P PROVE U \cup {x} \in P
  <2>1. IsFiniteSet(U) /\ x \notin U
    BY FS_Subset
  <2>2. \A y \in U \cup {x} : f[y] \in Int /\ g[y] \in Int /\ h[y] \in Int
    OBVIOUS
  <2>3. Sum(f, U) \in Int /\ Sum(g, U) \in Int /\ Sum(h, U) \in Int
    BY <2>1, <2>2, SumRemove
  <2>4. /\ Sum(f, U \cup {x}) = Sum(f, U) + f[x]
        /\ Sum(g, U \cup {x}) = Sum(g, U) + g[x]
        /\ Sum(h, U \cup {x}) = Sum(h, U) + h[x]
    BY <2>1, <2>2, SumInsert
  <2> QED BY <1>2, <2>2, <2>3, <2>4
<1> HIDE DEF P
<1>3. S \in P
  BY <1>1, <1>2, FiniteInduction
<1> QED BY <1>3 DEF P

(* and the sum of equal values. *)
THEOREM SumConstant ==
  ASSUME NEW S, IsFiniteSet(S), NEW c \in Int, NEW f, \A x \in S : f[x] = c
  PROVE  Sum(f, S) = c * Cardinality(S)
<1> DEFINE P == {U \in SUBSET S : Sum(f, U) = c * Cardinality(U)}
<1>1. {} \in P
  BY SumEmpty, FS_EmptySet
<1>2. ASSUME NEW U \in SUBSET S, NEW x \in S \ U, U \in P PROVE U \cup {x} \in P
  <2>1. IsFiniteSet(U) /\ x \notin U
    BY FS_Subset
  <2>2. Sum(f, U \cup {x}) = Sum(f, U) + c
    BY <2>1, SumInsert
  <2>3. Cardinality(U) \in Nat /\ Cardinality(U \cup {x}) = Cardinality(U) + 1
    BY <2>1, FS_CardinalityType, FS_AddElement
  <2>4. c * (Cardinality(U) + 1) = c * Cardinality(U) + c
    BY <2>3
  <2> QED BY <1>2, <2>2, <2>3, <2>4
<1> HIDE DEF P
<1>3. S \in P
  BY <1>1, <1>2, FiniteInduction
<1> QED BY <1>3 DEF P

(* A sum of naturals is one. *)
THEOREM SumNat ==
  ASSUME NEW S, IsFiniteSet(S), NEW f, \A x \in S : f[x] \in Nat
  PROVE  Sum(f, S) \in Nat
<1> DEFINE P == {U \in SUBSET S : Sum(f, U) \in Nat}
<1>1. {} \in P
  BY SumEmpty
<1>2. ASSUME NEW U \in SUBSET S, NEW x \in S \ U, U \in P PROVE U \cup {x} \in P
  <2>1. IsFiniteSet(U) /\ x \notin U
    BY FS_Subset
  <2>2. \A y \in U \cup {x} : f[y] \in Int
    OBVIOUS
  <2>3. Sum(f, U \cup {x}) = Sum(f, U) + f[x]
    BY <2>1, <2>2, SumInsert
  <2> QED BY <1>2, <2>3
<1> HIDE DEF P
<1>3. S \in P
  BY <1>1, <1>2, FiniteInduction
<1> QED BY <1>3 DEF P

(* A sum of small numbers is no larger than their number allows. *)
THEOREM SumSmall ==
  ASSUME NEW S, IsFiniteSet(S), NEW c \in Nat, NEW f,
         \A x \in S : f[x] \in Int /\ 2 * f[x] <= c /\ -c <= 2 * f[x]
  PROVE  2 * Sum(f, S) <= c * Cardinality(S) /\ -(c * Cardinality(S)) <= 2 * Sum(f, S)
<1> DEFINE P == {U \in SUBSET S : /\ 2 * Sum(f, U) <= c * Cardinality(U)
                                 /\ -(c * Cardinality(U)) <= 2 * Sum(f, U)}
<1>1. {} \in P
  BY SumEmpty, FS_EmptySet
<1>2. ASSUME NEW U \in SUBSET S, NEW x \in S \ U, U \in P PROVE U \cup {x} \in P
  <2>1. IsFiniteSet(U) /\ x \notin U
    BY FS_Subset
  <2>2. \A y \in U \cup {x} : f[y] \in Int
    OBVIOUS
  <2>3. Sum(f, U \cup {x}) = Sum(f, U) + f[x] /\ Sum(f, U) \in Int
    <3>1. \A y \in U : f[y] \in Int
      BY <2>2
    <3> QED BY <2>1, <2>2, <3>1, SumInsert, SumRemove
  <2>4. Cardinality(U) \in Nat /\ Cardinality(U \cup {x}) = Cardinality(U) + 1
    BY <2>1, FS_CardinalityType, FS_AddElement
  <2>5. PICK n, t, u : n = Cardinality(U) /\ t = Sum(f, U) /\ u = f[x]
    OBVIOUS
  <2>6. ASSUME NEW n1 \in Nat, NEW t1 \in Int, NEW u1 \in Int,
               2 * t1 <= c * n1, -(c * n1) <= 2 * t1, 2 * u1 <= c, -c <= 2 * u1
        PROVE  2 * (t1 + u1) <= c * (n1 + 1) /\ -(c * (n1 + 1)) <= 2 * (t1 + u1)
    <3>1. c * (n1 + 1) = c * n1 + c /\ c * n1 \in Int
      OBVIOUS
    <3> QED BY <2>6, <3>1
  <2>7. 2 * t <= c * n /\ -(c * n) <= 2 * t /\ 2 * u <= c /\ -c <= 2 * u
    BY <1>2, <2>5
  <2>8. n \in Nat /\ t \in Int /\ u \in Int
    BY <2>2, <2>3, <2>4, <2>5
  <2>9. 2 * (t + u) <= c * (n + 1) /\ -(c * (n + 1)) <= 2 * (t + u)
    BY <2>6, <2>7, <2>8
  <2>10. Sum(f, U \cup {x}) = t + u /\ Cardinality(U \cup {x}) = n + 1
    BY <2>3, <2>4, <2>5
  <2> QED BY <2>9, <2>10
<1> HIDE DEF P
<1>3. S \in P
  BY <1>1, <1>2, FiniteInduction
<1> QED BY <1>3 DEF P
=============================================================================
