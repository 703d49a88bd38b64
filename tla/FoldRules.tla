------------------------------ MODULE FoldRules ------------------------------
(***************************************************************************)
(* What the folds of the community modules compute for an operator op.     *)
(* FoldLeft: after k elements of the sequence its value is in I[k], if the *)
(* base is in I[0] and op leads from I[k - 1] to I[k].  FoldSet and        *)
(* FoldFunction take the elements in an order CHOOSE fixes: the value for  *)
(* a set T is in I[T], if op leads from I[T] to I[T and one more element]. *)
(* A module that folds an operator takes this module as an instance, with  *)
(* its operator for op.  To keep the instances small this module extends   *)
(* little: it writes the folds out, and takes the two facts that induction *)
(* rests on, Inductive and AllSubsetsInduct, as hypotheses.  SetSums       *)
(* proves them.                                                            *)
(***************************************************************************)
EXTENDS Integers, Sequences

CONSTANT op(_, _)

\* A set of subsets of S holds all of them if it holds every T whose proper
\* subsets it holds.
SubsetsInduct(S) ==
    \A P \in SUBSET (SUBSET S) :
       (\A T \in SUBSET S : (\A U \in SUBSET T : U # T => U \in P) => T \in P) => P = SUBSET S
AllSubsetsInduct(S) == \A T \in SUBSET S : SubsetsInduct(T)

\* Every set of natural numbers has a least element, and sets of indices are finite.
Inductive ==
    /\ \A S \in SUBSET Nat : S # {} => \E m \in S : \A k \in S : m <= k
    /\ \A n \in Nat : SubsetsInduct(1..n)

Greatest(S) == CHOOSE x \in S : \A y \in S : x >= y

\* g computes the folds over the sets of indices in S, as FoldLeft does.
Steps(g, base, seq, S) ==
    g = [s \in SUBSET S |-> IF s = {} THEN base ELSE op(g[s \ {Greatest(s)}], seq[Greatest(s)])]

\* The fold over the indices in s, and over all of them: FoldLeft.
At(base, seq, s) == (CHOOSE g : Steps(g, base, seq, s))[s]
Fold(base, seq) == At(base, seq, DOMAIN seq)

-----------------------------------------------------------------------------
(* Induction                                                               *)

\* A set of numbers up to n that holds 0 and with every number the next holds n.
LEMMA CountingUp ==
    ASSUME Inductive, NEW n \in Nat, NEW P \in SUBSET (0..n), 0 \in P,
           \A k \in 1..n : k - 1 \in P => k \in P
    PROVE  n \in P
<1> SUFFICES ASSUME n \notin P PROVE FALSE
  OBVIOUS
<1>1. (0..n) \ P \in SUBSET Nat /\ (0..n) \ P # {}
  OBVIOUS
<1>2. PICK m \in (0..n) \ P : \A k \in (0..n) \ P : m <= k
  BY <1>1 DEF Inductive
<1>3. m - 1 \in (0..n) \ P
  BY <1>2
<1> QED BY <1>2, <1>3

\* A set of indices that is not empty has a greatest one.
LEMMA GreatestIndex ==
    ASSUME Inductive, NEW n \in Nat, NEW S \in SUBSET (1..n), S # {}
    PROVE  Greatest(S) \in S /\ \A y \in S : Greatest(S) >= y
<1> DEFINE D == {n - x : x \in S}
<1>1. D \in SUBSET Nat /\ D # {}
  <2>1. \A x \in S : n - x \in Nat
    OBVIOUS
  <2> QED BY <2>1
<1>2. PICK m \in D : \A k \in D : m <= k
  BY <1>1 DEF Inductive
<1>3. PICK x \in S : m = n - x
  BY <1>2
<1>4. ASSUME NEW y \in S PROVE x >= y
  <2>1. m <= n - y
    BY <1>2
  <2> QED BY <1>3, <2>1
<1> QED BY <1>4 DEF Greatest

\* A set of sets of indices holds all of them if it holds the empty one and
\* every one whose proper subsets it holds.
LEMMA IndexSetInduction ==
    ASSUME Inductive, NEW n \in Nat, NEW P \in SUBSET (SUBSET (1..n)),
           \A T \in SUBSET (1..n) : (\A U \in SUBSET T : U # T => U \in P) => T \in P
    PROVE  P = SUBSET (1..n)
<1>1. SubsetsInduct(1..n)
  BY DEF Inductive
<1> QED BY <1>1 DEF SubsetsInduct

-----------------------------------------------------------------------------
(* The fold                                                                *)

\* T is a set of indices.
Indices(T) == \E n \in Nat : T \subseteq 1..n

\* Two such functions agree.
LEMMA StepsAgree ==
    ASSUME Inductive, NEW base, NEW seq, NEW T, Indices(T), NEW S, S \subseteq T,
           NEW g, NEW h, Steps(g, base, seq, S), Steps(h, base, seq, T)
    PROVE  g[S] = h[S]
<1>0. PICK n \in Nat : T \subseteq 1..n
  BY DEF Indices
<1> DEFINE P == {U \in SUBSET (1..n) : U \subseteq S => g[U] = h[U]}
<1>1. ASSUME NEW V \in SUBSET (1..n), \A U \in SUBSET V : U # V => U \in P, V \subseteq S
      PROVE  g[V] = h[V]
  <2>1. CASE V = {}
    BY <1>1, <2>1 DEF Steps
  <2>2. CASE V # {}
    <3>1. PICK x : x = Greatest(V)
      OBVIOUS
    <3>2. x \in V
      BY <3>1, <2>2, GreatestIndex
    <3>3. g[V] = op(g[V \ {x}], seq[x]) /\ h[V] = op(h[V \ {x}], seq[x])
      BY <1>1, <3>1, <2>2 DEF Steps
    <3>4. V \ {x} \in P
      BY <1>1, <3>2
    <3> QED BY <1>1, <3>3, <3>4
  <2> QED BY <2>1, <2>2
<1>2. P = SUBSET (1..n)
  <2>1. P \in SUBSET (SUBSET (1..n))
    OBVIOUS
  <2>2. \A V \in SUBSET (1..n) : (\A U \in SUBSET V : U # V => U \in P) => V \in P
    BY <1>1
  <2> HIDE DEF P
  <2> QED BY <2>1, <2>2, IndexSetInduction
<1> QED BY <1>0, <1>2

\* In a fold over u the value for the indices below x, the greatest of them,
\* is their own fold.
LEMMA AtUnfolds ==
    ASSUME Inductive, NEW base, NEW seq, NEW u, Indices(u), NEW x, x = Greatest(u), x \in u,
           \E k : Steps(k, base, seq, u), \E k : Steps(k, base, seq, u \ {x})
    PROVE  At(base, seq, u) = op(At(base, seq, u \ {x}), seq[x])
<1>1. PICK v : v = u \ {x}
  OBVIOUS
<1>2. PICK k : k = CHOOSE j : Steps(j, base, seq, u)
  OBVIOUS
<1>3. PICK m : m = CHOOSE j : Steps(j, base, seq, v)
  OBVIOUS
<1>4. /\ Steps(k, base, seq, u) /\ At(base, seq, u) = k[u]
      /\ Steps(m, base, seq, v) /\ At(base, seq, v) = m[v]
  BY <1>1, <1>2, <1>3 DEF At
<1>5. v \subseteq u
  BY <1>1
<1>6. m[v] = k[v]
  BY ONLY Inductive, Indices(u), <1>4, <1>5, StepsAgree
<1>7. k[u] = op(k[v], seq[x])
  BY <1>1, <1>4 DEF Steps
<1> QED BY <1>1, <1>4, <1>6, <1>7

\* There is such a function.
LEMMA StepsExist ==
    ASSUME Inductive, NEW base, NEW seq, NEW n \in Nat, NEW S \in SUBSET (1..n)
    PROVE  \E g : Steps(g, base, seq, S)
<1> DEFINE P == {T \in SUBSET (1..n) : \E g : Steps(g, base, seq, T)}
<1>1. ASSUME NEW T \in SUBSET (1..n), \A U \in SUBSET T : U # T => U \in P
      PROVE  T \in P
  <2> DEFINE g == [s \in SUBSET T |-> IF s = {} THEN base
                     ELSE op(At(base, seq, s \ {Greatest(s)}), seq[Greatest(s)])]
  <2>1. ASSUME NEW u \in SUBSET T, u # T
        PROVE  g[u] = At(base, seq, u)
    <3>1. CASE u = {}
      <4>1. \E k : Steps(k, base, seq, u)
        BY <1>1, <2>1
      <4> QED BY <3>1, <4>1 DEF At, Steps
    <3>2. CASE u # {}
      <4>1. PICK x : x = Greatest(u)
        OBVIOUS
      <4>2. x \in u
        BY <4>1, <3>2, GreatestIndex
      <4>3. u \in P /\ u \ {x} \in P
        BY <1>1, <2>1, <4>2
      <4>4. At(base, seq, u) = op(At(base, seq, u \ {x}), seq[x])
        <5>1. Indices(u)
          BY DEF Indices
        <5>2. (\E k : Steps(k, base, seq, u)) /\ (\E k : Steps(k, base, seq, u \ {x}))
          BY <4>3
        <5> QED BY ONLY Inductive, <5>1, <5>2, <4>1, <4>2, AtUnfolds
      <4>5. g[u] = op(At(base, seq, u \ {x}), seq[x])
        BY <4>1, <3>2
      <4> QED BY <4>4, <4>5
    <3> QED BY <3>1, <3>2
  <2>2. ASSUME NEW s \in SUBSET T, s # {}
        PROVE  g[s] = op(g[s \ {Greatest(s)}], seq[Greatest(s)])
    <3>1. PICK x : x = Greatest(s)
      OBVIOUS
    <3>2. x \in s
      BY <3>1, <2>2, GreatestIndex
    <3>3. g[s \ {x}] = At(base, seq, s \ {x})
      BY <2>1, <3>2
    <3>4. g[s] = op(At(base, seq, s \ {x}), seq[x])
      BY <3>1, <2>2
    <3> HIDE DEF g
    <3> QED BY <3>1, <3>3, <3>4
  <2>3. g[{}] = base
    OBVIOUS
  <2>4. g = [s \in SUBSET T |-> g[s]]
    OBVIOUS
  <2> HIDE DEF g
  <2>5. Steps(g, base, seq, T)
    BY <2>2, <2>3, <2>4 DEF Steps
  <2> QED BY <2>5
<1>2. P = SUBSET (1..n)
  <2> HIDE DEF P
  <2>1. P \in SUBSET (SUBSET (1..n))
    BY DEF P
  <2> QED BY <1>1, <2>1, IndexSetInduction
<1> QED BY <1>2

\* What op keeps is kept by the fold.
THEOREM FoldSteps ==
    ASSUME Inductive, NEW base, NEW S, NEW seq \in Seq(S), NEW I, base \in I[0],
           \A k \in 1..Len(seq) : \A a \in I[k - 1] : op(a, seq[k]) \in I[k]
    PROVE  Fold(base, seq) \in I[Len(seq)]
<1>1. PICK n \in Nat : n = Len(seq) /\ DOMAIN seq = 1..n
  OBVIOUS
<1>2. PICK g : g = CHOOSE j : Steps(j, base, seq, (1..n))
  OBVIOUS
<1>3. Steps(g, base, seq, (1..n)) /\ Fold(base, seq) = g[1..n]
  <2>1. 1..n \in SUBSET (1..n)
    OBVIOUS
  <2> QED BY <1>1, <1>2, <2>1, StepsExist DEF Fold, At
<1> DEFINE P == {k \in 0..n : g[1..k] \in I[k]}
<1>4. 0 \in P
  <2>1. 1..0 = {}
    OBVIOUS
  <2>2. g[{}] = base
    BY <1>3 DEF Steps
  <2> QED BY <2>1, <2>2
<1>5. ASSUME NEW k \in 1..n, k - 1 \in P PROVE k \in P
  <2>1. 1..k \in SUBSET (1..n) /\ 1..k # {}
    <3>1. 1 \in 1..k
      OBVIOUS
    <3>2. \A i \in 1..k : i \in 1..n
      BY <1>1
    <3> QED BY <3>1, <3>2
  <2>2. Greatest(1..k) = k
    <3>1. Greatest(1..k) \in 1..k /\ \A y \in 1..k : Greatest(1..k) >= y
      BY <2>1, GreatestIndex
    <3> QED BY <3>1
  <2>3. (1..k) \ {k} = 1..(k - 1)
    OBVIOUS
  <2>4. g[1..k] = op(g[1..(k - 1)], seq[k])
    BY <1>3, <2>1, <2>2, <2>3 DEF Steps
  <2>5. g[1..(k - 1)] \in I[k - 1]
    BY <1>5
  <2> QED BY <1>1, <2>4, <2>5
<1>6. n \in P
  <2>1. P \in SUBSET (0..n)
    OBVIOUS
  <2> HIDE DEF P
  <2> QED BY <1>4, <1>5, <2>1, CountingUp
<1> QED BY <1>1, <1>3, <1>6

\* What op keeps for every element is kept by the fold.
THEOREM FoldKeeps ==
    ASSUME Inductive, NEW A, NEW base \in A, NEW S, NEW seq \in Seq(S),
           \A a \in A : \A x \in S : op(a, x) \in A
    PROVE  Fold(base, seq) \in A
<1>1. PICK n \in Nat : n = Len(seq)
  OBVIOUS
<1>2. PICK I : I = [k \in 0..n |-> A]
  OBVIOUS
<1>3. base \in I[0] /\ I[n] = A
  BY <1>2
<1>4. ASSUME NEW k \in 1..n, NEW a \in I[k - 1] PROVE op(a, seq[k]) \in I[k]
  <2>1. k - 1 \in 0..n /\ k \in 0..n /\ seq[k] \in S
    BY <1>1
  <2> QED BY <1>2, <2>1
<1>5. Fold(base, seq) \in I[Len(seq)]
  BY <1>1, <1>3, <1>4, FoldSteps
<1> QED BY <1>1, <1>3, <1>5

\* A fold over no elements is the base.
LEMMA FoldEmpty ==
    ASSUME Inductive, NEW base
    PROVE  Fold(base, <<>>) = base
<1>1. PICK I : I = [k \in 0..0 |-> {base}]
  OBVIOUS
<1>2. <<>> \in Seq({}) /\ Len(<<>>) = 0
  OBVIOUS
<1>3. base \in I[0] /\ \A k \in 1..Len(<<>>) : \A a \in I[k - 1] : op(a, <<>>[k]) \in I[k]
  BY <1>1
<1>4. Fold(base, <<>>) \in I[0]
  BY <1>2, <1>3, FoldSteps
<1> QED BY <1>1, <1>4

\* The last element of the sequence is the last to be folded.
LEMMA FoldAppend ==
    ASSUME Inductive, NEW base, NEW S, NEW seq \in Seq(S), NEW x \in S
    PROVE  Fold(base, Append(seq, x)) = op(Fold(base, seq), x)
<1>1. PICK n \in Nat : n = Len(seq) /\ DOMAIN seq = 1..n
  OBVIOUS
<1>2. PICK t : t = Append(seq, x)
  OBVIOUS
<1>3. /\ t[n + 1] = x /\ DOMAIN t = 1..(n + 1)
      /\ \A i \in 1..n : t[i] = seq[i]
  BY <1>1, <1>2
<1>4. PICK u, v : u = 1..(n + 1) /\ v = 1..n
  OBVIOUS
<1>5. v \subseteq u /\ n + 1 \in u /\ u \ {n + 1} = v
  BY <1>4
<1>6. Greatest(u) = n + 1
  <2>1. n + 1 \in Nat /\ u \in SUBSET (1..(n + 1))
    BY <1>4
  <2>3. u # {}
    BY <1>5
  <2>2. Greatest(u) \in u /\ \A y \in u : Greatest(u) >= y
    BY <2>1, <2>3, GreatestIndex
  <2> QED BY <1>4, <1>5, <2>2
<1>7. Indices(u) /\ Indices(v)
  <2>1. n + 1 \in Nat /\ u \subseteq 1..(n + 1) /\ v \subseteq 1..n
    BY <1>4
  <2> QED BY <2>1 DEF Indices
<1>8. /\ \E k : Steps(k, base, t, u)
      /\ \E k : Steps(k, base, t, v)
      /\ \E k : Steps(k, base, seq, v)
  <2>1. n + 1 \in Nat /\ u \in SUBSET (1..(n + 1)) /\ v \in SUBSET (1..n)
    BY <1>4
  <2> QED BY <2>1, StepsExist
<1>9. At(base, t, u) = op(At(base, t, v), x)
  <2>1. PICK m : m = n + 1
    OBVIOUS
  <2>2. m = Greatest(u) /\ m \in u /\ u \ {m} = v /\ t[m] = x
    BY <1>3, <1>5, <1>6, <2>1
  <2>3. \E k : Steps(k, base, t, u \ {m})
    BY <1>8, <2>2
  <2>4. At(base, t, u) = op(At(base, t, u \ {m}), t[m])
    BY ONLY Inductive, <1>7, <1>8, <2>2, <2>3, AtUnfolds
  <2> QED BY <2>2, <2>4
<1>10. ASSUME NEW k, Steps(k, base, seq, v) PROVE Steps(k, base, t, v)
  <2>1. ASSUME NEW s \in SUBSET v, s # {} PROVE t[Greatest(s)] = seq[Greatest(s)]
    <3>1. Greatest(s) \in s
      BY <1>4, <2>1, GreatestIndex
    <3> QED BY <1>3, <1>4, <3>1
  <2>2. k = [s \in SUBSET v |-> IF s = {} THEN base ELSE op(k[s \ {Greatest(s)}], seq[Greatest(s)])]
    BY <1>10 DEF Steps
  <2>3. k = [s \in SUBSET v |-> IF s = {} THEN base ELSE op(k[s \ {Greatest(s)}], t[Greatest(s)])]
    BY <2>1, <2>2
  <2> QED BY <2>3 DEF Steps
<1>11. At(base, t, v) = At(base, seq, v)
  <2>1. PICK k : k = CHOOSE j : Steps(j, base, seq, v)
    OBVIOUS
  <2>2. PICK m : m = CHOOSE j : Steps(j, base, t, v)
    OBVIOUS
  <2>3. Steps(k, base, seq, v) /\ Steps(k, base, t, v) /\ At(base, seq, v) = k[v]
    BY <1>8, <1>10, <2>1 DEF At
  <2>4. Steps(m, base, t, v) /\ At(base, t, v) = m[v]
    BY <1>8, <2>2 DEF At
  <2>5. v \subseteq v
    OBVIOUS
  <2>6. k[v] = m[v]
    BY ONLY Inductive, <1>7, <2>3, <2>4, <2>5, StepsAgree
  <2> QED BY <2>3, <2>4, <2>6
<1>12. Fold(base, t) = At(base, t, u) /\ Fold(base, seq) = At(base, seq, v)
  BY <1>1, <1>3, <1>4 DEF Fold
<1> QED BY <1>2, <1>9, <1>11, <1>12

-----------------------------------------------------------------------------
(* The folds over sets                                                     *)

\* g computes the folds of f over the subsets of S, as MapThenFoldSet does.
SetSteps(g, base, f, S) ==
    g = [s \in SUBSET S |-> IF s = {} THEN base
                            ELSE LET x == CHOOSE y \in s : TRUE IN op(f[x], g[s \ {x}])]

SetAt(base, f, S) == (CHOOSE g : SetSteps(g, base, f, S))[S]

\* Two such functions agree.
LEMMA SetStepsAgree ==
    ASSUME NEW base, NEW f, NEW S, SubsetsInduct(S), NEW T, S \subseteq T, NEW g, NEW h,
           SetSteps(g, base, f, S), SetSteps(h, base, f, T)
    PROVE  g[S] = h[S]
<1> DEFINE P == {U \in SUBSET S : g[U] = h[U]}
<1>1. ASSUME NEW V \in SUBSET S, \A U \in SUBSET V : U # V => U \in P
      PROVE  V \in P
  <2>1. CASE V = {}
    BY <2>1 DEF SetSteps
  <2>2. CASE V # {}
    <3>1. PICK x : x = CHOOSE y \in V : TRUE
      OBVIOUS
    <3>2. x \in V
      BY <3>1, <2>2
    <3>3. g[V] = op(f[x], g[V \ {x}]) /\ h[V] = op(f[x], h[V \ {x}])
      BY <3>1, <2>2 DEF SetSteps
    <3>4. V \ {x} \in P
      BY <1>1, <3>2
    <3> QED BY <3>3, <3>4
  <2> QED BY <2>1, <2>2
<1>2. P = SUBSET S
  <2> HIDE DEF P
  <2>1. P \in SUBSET (SUBSET S)
    BY DEF P
  <2> QED BY <1>1, <2>1 DEF SubsetsInduct, AllSubsetsInduct
<1> QED BY <1>2

\* For finite sets there is such a function.
LEMMA SetStepsExist ==
    ASSUME NEW base, NEW f, NEW S, AllSubsetsInduct(S)
    PROVE  \E g : SetSteps(g, base, f, S)
<1> DEFINE P == {T \in SUBSET S : \E g : SetSteps(g, base, f, T)}
<1>1. ASSUME NEW T \in SUBSET S, \A U \in SUBSET T : U # T => U \in P
      PROVE  T \in P
  <2> DEFINE v(s) == IF s = {} THEN base
                     ELSE LET x == CHOOSE y \in s : TRUE IN op(f[x], SetAt(base, f, s \ {x}))
             g == [s \in SUBSET T |-> v(s)]
  <2>1. ASSUME NEW u \in SUBSET T, u # T
        PROVE  g[u] = SetAt(base, f, u)
    <3>1. PICK k : k = CHOOSE j : SetSteps(j, base, f, u)
      OBVIOUS
    <3>2. SetSteps(k, base, f, u) /\ SetAt(base, f, u) = k[u]
      BY <1>1, <2>1, <3>1 DEF SetAt
    <3>3. CASE u = {}
      BY <3>2, <3>3 DEF SetSteps
    <3>4. CASE u # {}
      <4>1. PICK x : x = CHOOSE y \in u : TRUE
        OBVIOUS
      <4>2. x \in u
        BY <4>1, <3>4
      <4>3. k[u] = op(f[x], k[u \ {x}])
        BY <3>2, <3>4, <4>1 DEF SetSteps
      <4>4. PICK m : m = CHOOSE j : SetSteps(j, base, f, u \ {x})
        OBVIOUS
      <4>5. u \ {x} \in P
        BY <1>1, <2>1, <4>2
      <4>6. SetSteps(m, base, f, u \ {x}) /\ SetAt(base, f, u \ {x}) = m[u \ {x}]
        BY <4>4, <4>5 DEF SetAt
      <4>7. SubsetsInduct(u \ {x}) /\ u \ {x} \subseteq u
        BY DEF AllSubsetsInduct
      <4>8. m[u \ {x}] = k[u \ {x}]
        BY <4>6, <4>7, <3>2, SetStepsAgree
      <4>9. g[u] = op(f[x], SetAt(base, f, u \ {x}))
        BY <4>1, <3>4
      <4> QED BY <4>3, <4>6, <4>8, <4>9, <3>2
    <3> QED BY <3>3, <3>4
  <2>2. ASSUME NEW s \in SUBSET T, s # {}
        PROVE  LET x == CHOOSE y \in s : TRUE IN g[s] = op(f[x], g[s \ {x}])
    <3>1. PICK x : x = CHOOSE y \in s : TRUE
      OBVIOUS
    <3>2. x \in s
      BY <3>1, <2>2
    <3>3. g[s \ {x}] = SetAt(base, f, s \ {x})
      BY <2>1, <3>2
    <3>4. g[s] = op(f[x], SetAt(base, f, s \ {x}))
      BY <3>1, <2>2
    <3> HIDE DEF g
    <3> QED BY <3>1, <3>3, <3>4
  <2>3. g[{}] = base
    OBVIOUS
  <2>4. g = [s \in SUBSET T |-> g[s]]
    <3> HIDE DEF v
    <3> QED OBVIOUS
  <2> HIDE DEF g
  <2>5. SetSteps(g, base, f, T)
    BY <2>2, <2>3, <2>4 DEF SetSteps
  <2> QED BY <2>5
<1>2. P = SUBSET S
  <2> HIDE DEF P
  <2>1. P \in SUBSET (SUBSET S)
    BY DEF P
  <2> QED BY <1>1, <2>1 DEF SubsetsInduct, AllSubsetsInduct
<1> QED BY <1>2

\* What op keeps is kept along the sets.
LEMMA SetStepsKeep ==
    ASSUME NEW base, NEW f, NEW S, AllSubsetsInduct(S), NEW I, base \in I[{}],
           \A T \in SUBSET S : \A x \in S \ T : \A a \in I[T] : op(f[x], a) \in I[T \cup {x}],
           NEW g, SetSteps(g, base, f, S)
    PROVE  g[S] \in I[S]
<1> DEFINE P == {T \in SUBSET S : g[T] \in I[T]}
<1>1. ASSUME NEW T \in SUBSET S, \A U \in SUBSET T : U # T => U \in P
      PROVE  T \in P
  <2>1. CASE T = {}
    BY <2>1 DEF SetSteps
  <2>2. CASE T # {}
    <3>1. PICK x : x = CHOOSE y \in T : TRUE
      OBVIOUS
    <3>2. x \in T
      BY <3>1, <2>2
    <3>3. g[T] = op(f[x], g[T \ {x}])
      BY <3>1, <2>2 DEF SetSteps
    <3>4. PICK U : U = T \ {x}
      OBVIOUS
    <3>5. U \in SUBSET S /\ x \in S \ U /\ U \cup {x} = T /\ g[U] \in I[U]
      BY <1>1, <3>2, <3>4
    <3>6. op(f[x], g[U]) \in I[U \cup {x}]
      BY <3>5
    <3>7. g[T] \in I[T]
      BY <3>3, <3>4, <3>5, <3>6
    <3> QED BY <3>7
  <2> QED BY <2>1, <2>2
<1>2. P = SUBSET S
  <2> HIDE DEF P
  <2>1. P \in SUBSET (SUBSET S)
    BY DEF P
  <2> QED BY <1>1, <2>1 DEF SubsetsInduct, AllSubsetsInduct
<1> QED BY <1>2

\* FoldFunction, and FoldSet.
FunctionFold(base, f) == SetAt(base, f, DOMAIN f)
Elements(g, base, S) ==
    g = [s \in SUBSET S |-> IF s = {} THEN base
                            ELSE LET x == CHOOSE y \in s : TRUE IN op(x, g[s \ {x}])]
SetFold(base, S) == (CHOOSE g : Elements(g, base, S))[S]

\* What op keeps is kept by the fold of a function.
THEOREM FunctionFoldSteps ==
    ASSUME NEW base, NEW f, AllSubsetsInduct(DOMAIN f), NEW I, base \in I[{}],
           \A T \in SUBSET DOMAIN f : \A x \in (DOMAIN f) \ T :
              \A a \in I[T] : op(f[x], a) \in I[T \cup {x}]
    PROVE  FunctionFold(base, f) \in I[DOMAIN f]
<1>1. PICK g : g = CHOOSE j : SetSteps(j, base, f, DOMAIN f)
  OBVIOUS
<1>2. SetSteps(g, base, f, DOMAIN f)
  BY <1>1, SetStepsExist
<1>3. FunctionFold(base, f) = g[DOMAIN f]
  BY <1>1 DEF FunctionFold, SetAt
<1>4. PICK S : S = DOMAIN f
  OBVIOUS
<1>5. g[S] \in I[S]
  BY <1>2, <1>4, SetStepsKeep
<1> QED BY <1>3, <1>4, <1>5

\* What op keeps is kept by the fold of a set.
THEOREM SetFoldSteps ==
    ASSUME NEW base, NEW S, AllSubsetsInduct(S), NEW I, base \in I[{}],
           \A T \in SUBSET S : \A x \in S \ T : \A a \in I[T] : op(x, a) \in I[T \cup {x}]
    PROVE  SetFold(base, S) \in I[S]
<1>2. PICK f : f = [x \in S |-> x]
  OBVIOUS
<1>3. \A s \in SUBSET S : s # {} => LET x == CHOOSE y \in s : TRUE IN f[x] = x
  BY <1>2
<1>4. ASSUME NEW g PROVE Elements(g, base, S) <=> SetSteps(g, base, f, S)
  <2>1. ASSUME NEW s \in SUBSET S, s # {}
        PROVE  LET x == CHOOSE y \in s : TRUE IN op(f[x], g[s \ {x}]) = op(x, g[s \ {x}])
    <3>1. PICK x : x = CHOOSE y \in s : TRUE
      OBVIOUS
    <3>2. f[x] = x
      BY <1>3, <2>1, <3>1
    <3> QED BY <3>1, <3>2
  <2>2. [s \in SUBSET S |-> IF s = {} THEN base
           ELSE LET x == CHOOSE y \in s : TRUE IN op(x, g[s \ {x}])]
        = [s \in SUBSET S |-> IF s = {} THEN base
             ELSE LET x == CHOOSE y \in s : TRUE IN op(f[x], g[s \ {x}])]
    BY <2>1
  <2> QED BY <2>2 DEF SetSteps, Elements
<1>5. \E g : SetSteps(g, base, f, S)
  BY SetStepsExist
<1>6. PICK k : k = CHOOSE j : Elements(j, base, S)
  OBVIOUS
<1>7. SetSteps(k, base, f, S) /\ SetFold(base, S) = k[S]
  BY <1>4, <1>5, <1>6 DEF SetFold
<1>8. \A T \in SUBSET S : \A x \in S \ T : \A a \in I[T] : op(f[x], a) \in I[T \cup {x}]
  BY <1>2
<1>9. k[S] \in I[S]
  BY ONLY AllSubsetsInduct(S), base \in I[{}], <1>7, <1>8, SetStepsKeep
<1> QED BY <1>7, <1>9
=============================================================================
