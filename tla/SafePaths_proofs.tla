-------------------------- MODULE SafePaths_proofs --------------------------
(***************************************************************************)
(* Proofs about paths, for every file system and every path: whether one   *)
(* may be used, which ones a rule forbids, and what an inventory of a      *)
(* forbidden path tells; and about the lists, fingerprints, configurations *)
(* and plans a project is made of.                                         *)
(***************************************************************************)
EXTENDS Algorithms, Integers, SequenceTheorems, FiniteSetTheorems,
        WellFoundedInduction, TLAPS

(* Every nonempty set of numbers has a least one.                         *)
LEMMA LeastNumber ==
  ASSUME NEW T \in SUBSET Nat, T # {}
  PROVE  \E n \in T : \A m \in T : n <= m
PROOF
<1> DEFINE R == {ss \in Nat \X Nat : ss[1] < ss[2]}
<1>1. IsWellFoundedOn(R, Nat)
  BY NatLessThanWellFounded DEF OpToRel
<1>2. \A x, y \in Nat : <<y, x>> \in R <=> y < x
  OBVIOUS
<1>3. T \subseteq Nat
  OBVIOUS
<1> HIDE DEF R
<1>4. PICK x \in T : \A y \in T : ~ (<<y, x>> \in R)
  BY <1>1, <1>3, WFMin, Zenon
<1>5. \A y \in T : ~ (y < x)
  <2> SUFFICES ASSUME NEW y \in T PROVE ~ (y < x)
    OBVIOUS
  <2>1. ~ (<<y, x>> \in R)
    BY <1>4
  <2> QED BY <2>1, <1>2, <1>3
<1> QED BY <1>3, <1>5

(* Induction, over a set: the prover takes no predicate as a parameter.   *)
LEMMA Induction ==
  ASSUME NEW T, 0 \in T, \A n \in Nat : n \in T => n + 1 \in T
  PROVE  Nat \subseteq T
PROOF
<1> SUFFICES ASSUME NEW x \in Nat, x \notin T PROVE FALSE
  OBVIOUS
<1> DEFINE B == {n \in Nat : n \notin T}
<1>1. PICK n \in B : \A m \in B : n <= m
  BY LeastNumber, B \in SUBSET Nat, x \in B
<1>2. n # 0 /\ n - 1 \in Nat /\ n-1 \notin B
  BY <1>1
<1> QED BY <1>1, <1>2

(* it is what a function leads to, step by step, from s.                  *)
Iterates(it, F, s) == it[0] = s /\ \A n \in Nat : it[n + 1] = F[it[n]]

(* A step repeated from a start is a function of how often.               *)
LEMMA IterationExists ==
  ASSUME NEW S, NEW F \in [S -> S], NEW s \in S
  PROVE  \E it \in [Nat -> S] : Iterates(it, F, s)
PROOF
<1> DEFINE Upto(n, h) == h \in [0 .. n -> S] /\ h[0] = s /\ \A i \in 0 .. n - 1 : h[i + 1] = F[h[i]]
           T == {n \in Nat : \E h \in [0 .. n -> S] : Upto(n, h)}
<1>1. 0 \in T
  <2> DEFINE h == [i \in 0 .. 0 |-> s]
  <2>1. h \in [0 .. 0 -> S] /\ Upto(0, h) OBVIOUS
  <2> HIDE DEF h
  <2> QED BY <2>1
<1>2. \A n \in Nat : n \in T => n + 1 \in T
  <2> SUFFICES ASSUME NEW n \in Nat, n \in T PROVE n + 1 \in T
    OBVIOUS
  <2>1. PICK h \in [0 .. n -> S] : Upto(n, h)
    OBVIOUS
  <2> DEFINE g == [i \in 0 .. n + 1 |-> IF i = n + 1 THEN F[h[n]] ELSE h[i]]
  <2>2. g \in [0 .. n + 1 -> S]
    BY <2>1
  <2>3. Upto(n + 1, g)
    BY <2>1, <2>2
  <2> HIDE DEF g
  <2> QED BY <2>2, <2>3
<1>3. Nat \subseteq T
  BY <1>1, <1>2, Induction
<1> DEFINE H(n) == CHOOSE h \in [0 .. n -> S] : Upto(n, h)
           it == [n \in Nat |-> H(n)[n]]
<1>4. \A n \in Nat : H(n) \in [0 .. n -> S] /\ Upto(n, H(n))
  BY <1>3
<1>5. \A n, m \in Nat : n <= m => H(n)[n] = H(m)[n]
  <2> SUFFICES ASSUME NEW m \in Nat PROVE \A n \in Nat : n <= m => H(n)[n] = H(m)[n]
    OBVIOUS
  <2> SUFFICES ASSUME NEW n \in Nat, n <= m PROVE H(n)[n] = H(m)[n]
    OBVIOUS
  <2> DEFINE U == {i \in Nat : i <= n => H(n)[i] = H(m)[i]}
  <2> HIDE DEF H
  <2>1. 0 \in U
    BY <1>4
  <2>2. \A i \in Nat : i \in U => i + 1 \in U
    BY <1>4
  <2>3. n \in U
    <3> HIDE DEF U
    <3> QED BY <2>1, <2>2, Induction
  <2> QED BY <2>3
<1>6. it \in [Nat -> S] /\ Iterates(it, F, s)
  <2> HIDE DEF H
  <2> QED BY <1>4, <1>5 DEF Iterates
<1> HIDE DEF it
<1> QED BY <1>6

(* Induction over a measure.                                              *)
LEMMA StrongInduction ==
  ASSUME NEW S, NEW m \in [S -> Nat], NEW T,
         \A s \in S : (\A r \in S : m[r] < m[s] => r \in T) => s \in T
  PROVE  S \subseteq T
PROOF
<1> SUFFICES ASSUME NEW x \in S, x \notin T PROVE FALSE
  OBVIOUS
<1> DEFINE B == {n \in Nat : \E s \in S : s \notin T /\ m[s] = n}
<1>1. m[x] \in B
  OBVIOUS
<1>2. PICK n \in B : \A k \in B : n <= k
  BY LeastNumber, <1>1, B \in SUBSET Nat
<1>3. PICK s \in S : s \notin T /\ m[s] = n
  OBVIOUS
<1>4. \A r \in S : m[r] < m[s] => r \in T
  BY <1>2, <1>3
<1> QED BY <1>3, <1>4

(* h solves a recursive definition: out where it is done, else a call.    *)
Recurs(h, S, done, out, step) ==
  \A s \in S : h[s] = IF s \in done THEN out[s] ELSE h[step[s]]

(* A recursive function whose every call lowers a measure is defined and  *)
(* does what its equation says.                                           *)
LEMMA MeasureRecursion ==
  ASSUME NEW S, NEW A, NEW m \in [S -> Nat], NEW step \in [S -> S],
         NEW done \in SUBSET S, NEW out \in [S -> A],
         \A s \in S \ done : m[step[s]] < m[s]
  PROVE  \E h \in [S -> A] : Recurs(h, S, done, out, step)
PROOF
<1> DEFINE F == [s \in S |-> IF s \in done THEN s ELSE step[s]]
           Phi == [g \in [S -> S] |-> [s \in S |-> g[F[s]]]]
           id == [s \in S |-> s]
<1>1. F \in [S -> S] /\ id \in [S -> S]
  OBVIOUS
<1>2. Phi \in [[S -> S] -> [S -> S]]
  BY <1>1
<1>3. PICK it \in [Nat -> [S -> S]] : it[0] = id /\ \A n \in Nat : it[n + 1] = Phi[it[n]]
  <2> DEFINE SS == [S -> S]
  <2>1. Phi \in [SS -> SS] /\ id \in SS
    BY <1>1, <1>2
  <2> HIDE DEF SS, Phi, id, F
  <2>2. PICK it \in [Nat -> SS] : Iterates(it, Phi, id)
    BY <2>1, IterationExists
  <2> QED BY <2>2 DEF SS, Iterates
<1>4. \A n \in Nat : \A s \in S : it[n] \in [S -> S] /\ it[n + 1][s] = it[n][F[s]]
  <2> SUFFICES ASSUME NEW n \in Nat, NEW s \in S
               PROVE it[n] \in [S -> S] /\ it[n + 1][s] = it[n][F[s]]
    OBVIOUS
  <2>1. it[n] \in [S -> S] /\ it[n + 1] = Phi[it[n]]
    BY <1>3
  <2> HIDE DEF F
  <2>2. Phi[it[n]][s] = it[n][F[s]]
    BY <2>1
  <2> QED BY <2>1, <2>2
<1>5. \A s \in S : (s \in done => F[s] = s) /\ (s \notin done => F[s] = step[s] /\ m[F[s]] < m[s])
  OBVIOUS
<1>6. \A s \in S : it[0][s] = s
  BY <1>3
<1> HIDE DEF F, Phi, id
<1> DEFINE C == {n \in Nat : \A s \in S : m[s] <= n => it[n + 1][s] = it[n][s]}
           D == {n \in Nat : \A s \in done : it[n][s] = s}
<1>8. Nat \subseteq D
  <2>1. 0 \in D
    <3>1. \A s \in done : it[0][s] = s
      BY <1>6
    <3> HIDE DEF C
    <3> QED BY <3>1
  <2>2. \A n \in Nat : n \in D => n + 1 \in D
    <3> HIDE DEF C
    <3> SUFFICES ASSUME NEW n \in Nat, n \in D PROVE n + 1 \in D
      OBVIOUS
    <3> SUFFICES ASSUME NEW s \in done PROVE it[n + 1][s] = s
      OBVIOUS
    <3>1. s \in S /\ F[s] = s /\ it[n][s] = s
      BY <1>5
    <3> QED BY <1>4, <3>1
  <2> HIDE DEF D
  <2> QED BY <2>1, <2>2, Induction
<1>7. Nat \subseteq C
  <2>1. 0 \in C
    <3> SUFFICES ASSUME NEW s \in S, m[s] <= 0
                 PROVE it[0 + 1][s] = it[0][s]
      OBVIOUS
    <3>0. m[s] \in Nat /\ m[F[s]] \in Nat /\ F[s] \in S
      BY <1>1
    <3>1. s \in done
      BY <1>5, <3>0
    <3>2. it[0 + 1][s] = it[0][F[s]]
      BY <1>4
    <3> QED BY <1>5, <3>1, <3>2
  <2>2. \A n \in Nat : n \in C => n + 1 \in C
    <3> SUFFICES ASSUME NEW n \in Nat, n \in C PROVE n + 1 \in C
      OBVIOUS
    <3> SUFFICES ASSUME NEW s \in S, m[s] <= n + 1
                 PROVE it[(n + 1) + 1][s] = it[n + 1][s]
      OBVIOUS
    <3>0. n + 1 \in Nat /\ m[s] \in Nat /\ m[F[s]] \in Nat
      BY <1>1
    <3>1. it[(n + 1) + 1][s] = it[n + 1][F[s]] /\ it[n + 1][s] = it[n][F[s]] /\ F[s] \in S
      BY <1>4, <1>1, <3>0
    <3>2. CASE s \in done
      <4>1. F[s] = s BY <3>2, <1>5
      <4> QED BY <4>1, <3>1, <1>4, <1>8, <3>0, <3>2
    <3>3. CASE s \notin done
      <4>1. m[F[s]] <= n BY <3>3, <1>5, <3>0
      <4> QED BY <3>1, <4>1, <1>1
    <3> QED BY <3>2, <3>3
  <2> HIDE DEF C
  <2> QED BY <2>1, <2>2, Induction
<1> DEFINE h == [s \in S |-> out[it[m[s]][s]]]
<1>9. h \in [S -> A]
  BY <1>3
<1>10. ASSUME NEW s \in S PROVE h[s] = IF s \in done THEN out[s] ELSE h[step[s]]
  <2>1. CASE s \in done
    BY <2>1, <1>8
  <2>2. CASE s \notin done
    <3>1. F[s] \in S /\ F[s] = step[s] /\ m[F[s]] < m[s] /\ m[s] \in Nat /\ m[F[s]] \in Nat
      BY <2>2, <1>5, <1>1
    <3> DEFINE U == {j \in Nat : it[m[F[s]] + j][F[s]] = it[m[F[s]]][F[s]]}
    <3>2. Nat \subseteq U
      <4>1. 0 \in U
        BY <3>1
      <4>2. \A j \in Nat : j \in U => j + 1 \in U
        <5> SUFFICES ASSUME NEW j \in Nat, j \in U PROVE j + 1 \in U
          OBVIOUS
        <5>1. m[F[s]] + j \in Nat /\ m[F[s]] <= m[F[s]] + j /\ m[F[s]] + (j + 1) = (m[F[s]] + j) + 1
          BY <3>1
        <5>2. m[F[s]] + j \in C
          BY <5>1, <1>7
        <5> QED BY <3>1, <5>1, <5>2
      <4> HIDE DEF U
      <4> QED BY <4>1, <4>2, Induction
    <3>3. PICK j \in Nat : m[s] = m[F[s]] + j + 1
      <4>1. m[s] - m[F[s]] - 1 \in Nat /\ m[s] = m[F[s]] + (m[s] - m[F[s]] - 1) + 1
        BY <3>1
      <4> QED BY <4>1
    <3>4. it[m[s]][s] = it[m[F[s]] + j][F[s]]
      <4>1. m[F[s]] + j \in Nat /\ m[s] = (m[F[s]] + j) + 1
        BY <3>1, <3>3
      <4> QED BY <4>1, <1>4
    <3>5. it[m[s]][s] = it[m[F[s]]][F[s]]
      BY <3>2, <3>4
    <3> QED BY <3>5, <3>1, <2>2
  <2> QED BY <2>1, <2>2
<1> HIDE DEF h
<1> QED BY <1>9, <1>10 DEF Recurs

(* h is the recursive function inside FoldLeft.                           *)
Folds(h, op, base, seq) ==
  h = [s \in SUBSET DOMAIN seq |->
         IF s = {} THEN base ELSE op[<<h[s \ {Max(s)}], seq[Max(s)]>>]]

(* The last number of a range, and the range without it.                  *)
LEMMA MaxOfRange ==
  \A i \in Nat : Max(1 .. i + 1) = i + 1 /\ (1 .. i + 1) \ {i + 1} = 1 .. i
PROOF
<1> SUFFICES ASSUME NEW i \in Nat
             PROVE  Max(1 .. i + 1) = i + 1 /\ (1 .. i + 1) \ {i + 1} = 1 .. i
  OBVIOUS
<1> DEFINE G(x) == x \in 1 .. i + 1 /\ \A y \in 1 .. i + 1 : x >= y
<1>1. G(i + 1) /\ \A x : G(x) => x = i + 1
  OBVIOUS
<1>2. Max(1 .. i + 1) = CHOOSE x : G(x)
  BY DEF Max
<1>3. (CHOOSE x : G(x)) = i + 1
  <2> HIDE DEF G
  <2> QED BY <1>1
<1> QED BY <1>2, <1>3

(* Max picks a member: FoldLeft visits a sequence by the greatest index   *)
(* left.                                                                  *)
LEMMA MaxIsIn ==
  ASSUME NEW n \in Nat, NEW s \in SUBSET (1 .. n), s # {}
  PROVE  Max(s) \in s
PROOF
<1> DEFINE T == {k \in Nat : \E x \in s : k = n - x}
<1>1. T \in SUBSET Nat /\ T # {}
  <2>1. PICK x \in s : TRUE
    OBVIOUS
  <2>2. n - x \in T
    BY <2>1
  <2> QED BY <2>2
<1>2. PICK k \in T : \A j \in T : k <= j
  <2> HIDE DEF T
  <2> QED BY <1>1, LeastNumber
<1>3. PICK x \in s : k = n - x
  OBVIOUS
<1>4. \A y \in s : n - x <= n - y
  BY <1>2, <1>3
<1>5. \A y \in s : x >= y
  BY <1>4
<1>6. \E z \in s : \A y \in s : z >= y
  BY <1>5
<1> QED BY <1>6 DEF Max

(* The recursive function inside FoldLeft exists.                         *)
LEMMA FoldDefined ==
  ASSUME NEW A, NEW B, NEW op \in [A \X B -> A], NEW base \in A, NEW seq \in Seq(B)
  PROVE  \E h \in [SUBSET DOMAIN seq -> A] : Folds(h, op, base, seq)
PROOF
<1>n. PICK n \in Nat : n = Len(seq) /\ DOMAIN seq = 1 .. n
  OBVIOUS
<1> DEFINE Fits(m, h) == \A s \in SUBSET (1 .. m) :
                 h[s] = IF s = {} THEN base ELSE op[<<h[s \ {Max(s)}], seq[Max(s)]>>]
           Has(m) == \E h \in [SUBSET (1 .. m) -> A] : Fits(m, h)
           T == {m \in Nat : m <= n => Has(m)}
<1>0. \A i \in 1 .. n : seq[i] \in B
  BY <1>n
<1>1. 0 \in T
  <2> DEFINE h == [s \in SUBSET (1 .. 0) |-> base]
  <2>1. h \in [SUBSET (1 .. 0) -> A] /\ Fits(0, h)
    <3>1. \A s \in SUBSET (1 .. 0) : s = {} OBVIOUS
    <3> QED BY <3>1
  <2> HIDE DEF h
  <2> QED BY <2>1
<1>2. \A m \in Nat : m \in T => m + 1 \in T
  <2> SUFFICES ASSUME NEW m \in Nat, Has(m), m + 1 <= n PROVE Has(m + 1)
    <3> HIDE DEF Has
    <3> QED OBVIOUS
  <2>0. PICK h \in [SUBSET (1 .. m) -> A] : Fits(m, h)
    OBVIOUS
  <2>1. seq[m + 1] \in B
    BY <1>0
  <2> DEFINE g == [s \in SUBSET (1 .. m + 1) |->
                     IF m + 1 \in s THEN op[<<h[s \ {m + 1}], seq[m + 1]>>] ELSE h[s]]
  <2>2. \A s \in SUBSET (1 .. m + 1) : (m + 1 \notin s => s \in SUBSET (1 .. m)) /\ s \ {m + 1} \in SUBSET (1 .. m)
    OBVIOUS
  <2>3. g \in [SUBSET (1 .. m + 1) -> A]
    BY <2>2, <2>1
  <2>4. \A s \in SUBSET (1 .. m + 1) : m + 1 \in s => Max(s) = m + 1
    <3> SUFFICES ASSUME NEW s \in SUBSET (1 .. m + 1), m + 1 \in s PROVE Max(s) = m + 1
      OBVIOUS
    <3>1. \E x \in s : \A y \in s : x >= y
      OBVIOUS
    <3>2. Max(s) \in s /\ \A y \in s : Max(s) >= y
      BY <3>1 DEF Max
    <3>3. Max(s) \in 1 .. m + 1
      BY <3>2
    <3> QED BY <3>2, <3>3
  <2>5. \A s \in SUBSET (1 .. m) : s # {} => Max(s) \in s
    BY MaxIsIn
  <2>6. Fits(m + 1, g)
    <3> SUFFICES ASSUME NEW s \in SUBSET (1 .. m + 1)
                 PROVE  g[s] = IF s = {} THEN base ELSE op[<<g[s \ {Max(s)}], seq[Max(s)]>>]
      OBVIOUS
    <3>1. CASE m + 1 \in s
      <4>1. Max(s) = m + 1 /\ s \ {m + 1} \in SUBSET (1 .. m + 1) /\ m + 1 \notin s \ {m + 1}
        BY <3>1, <2>4
      <4>2. g[s \ {m + 1}] = h[s \ {m + 1}]
        BY <4>1
      <4>3. g[s] = op[<<h[s \ {m + 1}], seq[m + 1]>>]
        BY <3>1
      <4> HIDE DEF g
      <4> QED BY <3>1, <4>1, <4>2, <4>3
    <3>2. CASE m + 1 \notin s
      <4>1. s \in SUBSET (1 .. m) /\ g[s] = h[s]
        BY <3>2, <2>2
      <4>2. s # {} => s \ {Max(s)} \in SUBSET (1 .. m) /\ m + 1 \notin s \ {Max(s)}
        BY <4>1, <2>5, <3>2
      <4>3. s # {} => g[s \ {Max(s)}] = h[s \ {Max(s)}]
        BY <4>2
      <4> HIDE DEF g
      <4> QED BY <4>1, <4>3, <2>0
    <3> QED BY <3>1, <3>2
  <2> HIDE DEF g
  <2> QED BY <2>3, <2>6
<1>3. n \in T
  <2> HIDE DEF T
  <2> QED BY <1>0, <1>1, <1>2, Induction
<1>4. PICK h \in [SUBSET (1 .. n) -> A] : Fits(n, h)
  <2>1. Has(n)
    <3> HIDE DEF Has
    <3> QED BY <1>3
  <2> HIDE DEF Fits
  <2> QED BY <2>1
<1>5. Folds(h, op, base, seq)
  BY <1>4, <1>n DEF Folds
<1> QED BY <1>4, <1>5, <1>n

(* st is the fold of op over a sequence, prefix by prefix.                *)
Steps(st, op, base, seq, last) ==
  /\ st[0] = base /\ st[Len(seq)] = last
  /\ \A i \in 0 .. Len(seq) - 1 : st[i + 1] = op[<<st[i], seq[i + 1]>>]

(* What one step of a fold is applied to: a result and an element.        *)
LEMMA NextOfFold ==
  ASSUME NEW A, NEW B, NEW seq \in Seq(B), NEW f \in [SUBSET DOMAIN seq -> A],
         NEW s \in SUBSET DOMAIN seq, s # {}
  PROVE  f[s \ {Max(s)}] \in A /\ seq[Max(s)] \in B
PROOF
<1>1. PICK n \in Nat : n = Len(seq) /\ DOMAIN seq = 1 .. n
  OBVIOUS
<1>2. Max(s) \in 1 .. n
  BY <1>1, MaxIsIn
<1>3. \A i \in 1 .. n : seq[i] \in B
  BY <1>1
<1> QED BY <1>2, <1>3

(* The same, of a prefix and the element after it.                        *)
LEMMA NextOfPrefix ==
  ASSUME NEW A, NEW B, NEW seq \in Seq(B), NEW st \in [0 .. Len(seq) -> A], NEW i \in 0 .. Len(seq) - 1
  PROVE  st[i] \in A /\ seq[i + 1] \in B
PROOF
<1>1. PICK n \in Nat : n = Len(seq) /\ DOMAIN seq = 1 .. n
  OBVIOUS
<1>2. \A j \in 1 .. n : seq[j] \in B
  BY <1>1
<1>3. i \in 0 .. n /\ i + 1 \in 1 .. n
  BY <1>1
<1> QED BY <1>1, <1>2, <1>3

(* The values of that function on the prefixes of a sequence are the      *)
(* steps of the fold, one for each element in its order.                  *)
LEMMA FoldPrefixes ==
  ASSUME NEW A, NEW B, NEW op \in [A \X B -> A], NEW base \in A, NEW seq \in Seq(B), NEW g,
         g[{}] = base,
         \A s \in SUBSET DOMAIN seq :
           s # {} /\ g[s \ {Max(s)}] \in A /\ seq[Max(s)] \in B => g[s] = op[<<g[s \ {Max(s)}], seq[Max(s)]>>]
  PROVE  \E st \in [0 .. Len(seq) -> A] : Steps(st, op, base, seq, g[DOMAIN seq])
PROOF
<1>n. PICK n \in Nat : n = Len(seq) /\ DOMAIN seq = 1 .. n
  OBVIOUS
<1> DEFINE st == [i \in 0 .. n |-> g[1 .. i]]
           T == {i \in Nat : i <= n => st[i] \in A}
<1>0. \A i \in 1 .. n : seq[i] \in B
  BY <1>n
<1>1. st[0] = base /\ st[n] = g[DOMAIN seq]
  <2>1. 1 .. 0 = {}
    OBVIOUS
  <2> QED BY <2>1, <1>n
<1>2. ASSUME NEW i \in Nat, i + 1 <= n, st[i] \in A
      PROVE  st[i + 1] = op[<<st[i], seq[i + 1]>>] /\ st[i + 1] \in A
  <2> DEFINE r == 1 .. i + 1
  <2>1. r \in SUBSET DOMAIN seq /\ r # {}
    <3>1. i + 1 \in r
      OBVIOUS
    <3>2. \A x \in r : x \in 1 .. n
      BY <1>2
    <3> QED BY <3>1, <3>2, <1>n
  <2>2. Max(r) = i + 1 /\ r \ {i + 1} = 1 .. i
    BY MaxOfRange
  <2>3. st[i + 1] = g[r] /\ st[i] = g[1 .. i] /\ seq[i + 1] \in B
    BY <1>2, <1>0
  <2> HIDE DEF r, st
  <2>4. g[r] = op[<<g[1 .. i], seq[i + 1]>>]
    BY <2>1, <2>2, <2>3, <1>2
  <2> QED BY <2>3, <2>4, <1>2
<1>3. Nat \subseteq T
  <2>0. st = [i \in 0 .. n |-> st[i]]
    OBVIOUS
  <2> HIDE DEF st
  <2>1. 0 \in T
    BY <1>1
  <2>2. ASSUME NEW i \in Nat, i \in T PROVE i + 1 \in T
    <3> SUFFICES ASSUME i + 1 <= n PROVE st[i + 1] \in A
      OBVIOUS
    <3>1. i <= n /\ st[i] \in A
      BY <2>2
    <3> QED BY <3>1, <1>2
  <2> HIDE DEF T
  <2> QED BY <2>1, <2>2, Induction
<1>4. st \in [0 .. n -> A]
  <2>1. \A i \in 0 .. n : st[i] \in A
    <3> HIDE DEF st
    <3> QED BY <1>3
  <2>2. st = [i \in 0 .. n |-> st[i]]
    OBVIOUS
  <2> HIDE DEF st
  <2> QED BY <2>1, <2>2
<1>5. \A i \in 0 .. n - 1 : st[i + 1] = op[<<st[i], seq[i + 1]>>]
  <2> HIDE DEF st
  <2>1. \A i \in 0 .. n - 1 : i \in Nat /\ i + 1 <= n /\ i \in 0 .. n
    OBVIOUS
  <2> QED BY <2>1, <1>2, <1>4
<1> HIDE DEF st
<1> QED BY <1>1, <1>4, <1>5, <1>n DEF Steps

(* st is Without, prefix by prefix.                                       *)
Keeping(st, seq, dropped) ==
  /\ st[0] = <<>>
  /\ \A i \in 0 .. Len(seq) - 1 : st[i + 1] = IF seq[i + 1] \in dropped THEN st[i] ELSE Append(st[i], seq[i + 1])

(* What is kept grows one part after the other, up to the whole.          *)
Stepwise(B, dropped, seq) ==
  \E st \in [0 .. Len(seq) -> Seq(B)] :
    Keeping(st, seq, dropped) /\ Without(seq, dropped) = st[Len(seq)]

(* Without, step by step.                                                 *)
LEMMA WithoutSteps ==
  ASSUME NEW B, NEW dropped, NEW seq \in Seq(B)
  PROVE  Stepwise(B, dropped, seq)
PROOF
<1> SUFFICES \E st \in [0 .. Len(seq) -> Seq(B)] :
               Keeping(st, seq, dropped) /\ Without(seq, dropped) = st[Len(seq)]
  BY DEF Stepwise
<1> DEFINE Op(x, y) == IF y \in dropped THEN x ELSE Append(x, y)
           op == [p \in Seq(B) \X B |-> Op(p[1], p[2])]
           P(h) == h = [s \in SUBSET DOMAIN seq |->
                          IF s = {} THEN <<>> ELSE Op(h[s \ {Max(s)}], seq[Max(s)])]
           g == CHOOSE h : P(h)
<1>1. (\A x \in Seq(B), y \in B : Op(x, y) \in Seq(B)) /\ <<>> \in Seq(B)
  OBVIOUS
<1>2. op \in [Seq(B) \X B -> Seq(B)] /\ \A x \in Seq(B), y \in B : op[<<x, y>>] = Op(x, y)
  <2> HIDE DEF Op
  <2> QED BY <1>1
<1>3. P(g)
  <2>1. PICK f \in [SUBSET DOMAIN seq -> Seq(B)] : Folds(f, op, <<>>, seq)
    <3> HIDE DEF op
    <3> QED BY <1>1, <1>2, FoldDefined
  <2>2. \A s \in SUBSET DOMAIN seq : s # {} => f[s \ {Max(s)}] \in Seq(B) /\ seq[Max(s)] \in B
    <3> DEFINE A == Seq(B)
    <3> HIDE DEF op, Op, P, A
    <3>1. f \in [SUBSET DOMAIN seq -> A]
      BY DEF A
    <3>2. ASSUME NEW s \in SUBSET DOMAIN seq, s # {}
          PROVE  f[s \ {Max(s)}] \in A /\ seq[Max(s)] \in B
      BY <3>1, <3>2, NextOfFold
    <3> QED BY <3>2 DEF A
  <2>3. P(f)
    <3> HIDE DEF op, Op
    <3> QED BY <2>1, <2>2, <1>2 DEF Folds
  <2> HIDE DEF P
  <2> QED BY <2>3
<1>4. Without(seq, dropped) = g[DOMAIN seq]
  BY DEF Without, FoldLeft, MapThenFoldSet
<1> HIDE DEF g
<1>5. PICK st \in [0 .. Len(seq) -> Seq(B)] : Steps(st, op, <<>>, seq, g[DOMAIN seq])
  <2>1. g[{}] = <<>>
    <3> HIDE DEF Op
    <3> QED BY <1>3
  <2>2. \A s \in SUBSET DOMAIN seq :
           s # {} /\ g[s \ {Max(s)}] \in Seq(B) /\ seq[Max(s)] \in B => g[s] = op[<<g[s \ {Max(s)}], seq[Max(s)]>>]
    <3> HIDE DEF op, Op
    <3> QED BY <1>3, <1>2, ZenonT(60)
  <2> HIDE DEF op, P
  <2> QED BY <2>1, <2>2, <1>1, <1>2, FoldPrefixes
<1>6. \A i \in 0 .. Len(seq) - 1 : st[i + 1] = Op(st[i], seq[i + 1])
  <2> HIDE DEF op, Op, P
  <2> QED BY <1>2, <1>5, NextOfPrefix DEF Steps
<1> HIDE DEF op, P
<1> QED BY <1>4, <1>5, <1>6 DEF Steps, Keeping

(* A resolution in progress.                                              *)
Positions(fs) == [at : DOMAIN fs, todo : Seq(STRING), links : Nat]

(* Where a resolution ends, and with what answer; else where it moves.    *)
Stops(fs, s) ==
  \/ s.todo = <<>>
  \/ fs[s.at].kind # "dir"
  \/ /\ Head(s.todo) \notin {"", ".", ".."}
     /\ \/ Append(s.at, Head(s.todo)) \notin DOMAIN fs
        \/ fs[Append(s.at, Head(s.todo))].kind = "link" /\ s.links = 0

StopsWith(fs, s) ==
  IF s.todo = <<>> THEN Found(s.at)
  ELSE IF fs[s.at].kind # "dir" THEN Refuse("ENOTDIR")
  ELSE IF Append(s.at, Head(s.todo)) \notin DOMAIN fs THEN Refuse("ENOENT")
  ELSE Refuse("ELOOP")

Moved(fs, s) ==
  LET part == Head(s.todo)
      rest == Tail(s.todo)
      next == Append(s.at, part)
  IN  IF part \in {"", "."} THEN Here(s.at, rest, s.links)
      ELSE IF part = ".." THEN Here(IF s.at = <<>> THEN s.at ELSE Front(s.at), rest, s.links)
      ELSE IF fs[next].kind # "link" THEN Here(next, rest, s.links)
      ELSE Here(IF fs[next].target[1] = "" THEN <<>> ELSE s.at, fs[next].target \o rest, s.links - 1)

(* What a tree gives of each location.                                    *)
LEMMA TreeFacts ==
  ASSUME NEW fs, FileTree(fs)
  PROVE  /\ \A l \in DOMAIN fs : /\ l \in Seq(Name) /\ l \in Seq(STRING) /\ fs[l] \in Inode
                                 /\ fs[l].target \in Seq(STRING)
         /\ <<>> \in DOMAIN fs /\ fs[<<>>].kind = "dir"
         /\ \A l \in DOMAIN fs : l # <<>> => Front(l) \in DOMAIN fs /\ fs[Front(l)].kind = "dir"
         /\ \A l \in DOMAIN fs : fs[l].kind = "link" => fs[l].target # <<>>
         /\ \E longest \in Nat : \A l \in DOMAIN fs : Len(fs[l].target) <= longest
PROOF
<1>1. Seq(Name) \subseteq Seq(STRING)
  BY SeqMonotonic, Name \subseteq STRING DEF Name
<1>2. \A l \in DOMAIN fs : /\ l \in Seq(Name) /\ l \in Seq(STRING) /\ fs[l] \in Inode
                           /\ fs[l].target \in Seq(STRING)
  BY <1>1 DEF FileTree, Inode
<1>3. \E longest \in Nat : \A l \in DOMAIN fs : Len(fs[l].target) <= longest
  <2>1. PICK l \in DOMAIN fs : \A k \in DOMAIN fs : Len(fs[k].target) <= Len(fs[l].target)
    BY DEF FileTree
  <2>2. Len(fs[l].target) \in Nat
    BY <1>2
  <2> QED BY <2>1, <2>2
<1>4. <<>> \in DOMAIN fs /\ fs[<<>>].kind = "dir"
  BY DEF FileTree
<1>5. \A l \in DOMAIN fs : l # <<>> => Front(l) \in DOMAIN fs /\ fs[Front(l)].kind = "dir"
  BY DEF FileTree
<1>6. \A l \in DOMAIN fs : fs[l].kind = "link" => fs[l].target # <<>>
  BY DEF FileTree
<1> QED BY <1>2, <1>3, <1>4, <1>5, <1>6

(* The fields of a position.                                              *)
LEMMA HereIs ==
  ASSUME NEW at, NEW todo, NEW links
  PROVE  /\ Here(at, todo, links).at = at /\ Here(at, todo, links).todo = todo
         /\ Here(at, todo, links).links = links
PROOF
  BY DEF Here

(* A resolution moves to a position: it has a part less to do, or has     *)
(* spent a link.                                                          *)
LEMMA MovedIsAPosition ==
  ASSUME NEW fs, FileTree(fs), NEW s \in Positions(fs), ~Stops(fs, s)
  PROVE  /\ Moved(fs, s) \in Positions(fs)
         /\ \/ Len(Moved(fs, s).todo) = Len(s.todo) - 1 /\ Moved(fs, s).links = s.links
            \/ /\ s.links > 0 /\ Moved(fs, s).links = s.links - 1
               /\ \E l \in DOMAIN fs :
                    Len(Moved(fs, s).todo) = Len(fs[l].target) + Len(s.todo) - 1
PROOF
<1> DEFINE part == Head(s.todo)
           rest == Tail(s.todo)
           next == Append(s.at, part)
<1>1. /\ s.at \in DOMAIN fs /\ s.todo \in Seq(STRING) /\ s.todo # <<>> /\ s.links \in Nat
      /\ rest \in Seq(STRING) /\ Len(rest) = Len(s.todo) - 1 /\ part \in STRING
      /\ Len(s.todo) \in Nat
  <2>1. s.at \in DOMAIN fs /\ s.todo \in Seq(STRING) /\ s.todo # <<>> /\ s.links \in Nat
    BY DEF Positions, Stops
  <2>2. \A q \in Seq(STRING) : q # <<>> =>
           Tail(q) \in Seq(STRING) /\ Len(Tail(q)) = Len(q) - 1 /\ Head(q) \in STRING /\ Len(q) \in Nat
    BY HeadTailProperties
  <2> QED BY <2>1, <2>2
<1>2. CASE part \in {"", "."}
  BY <1>1, <1>2 DEF Moved, Positions, Here
<1>3. CASE part = ".."
  <2>1. (IF s.at = <<>> THEN s.at ELSE Front(s.at)) \in DOMAIN fs
    BY <1>1, TreeFacts
  <2>2. Moved(fs, s) = Here(IF s.at = <<>> THEN s.at ELSE Front(s.at), rest, s.links)
    BY <1>3 DEF Moved
  <2> QED BY <1>1, <2>1, <2>2 DEF Positions, Here
<1>4. CASE part \notin {"", ".", ".."}
  <2>1. next \in DOMAIN fs
    BY <1>4 DEF Stops
  <2>2. CASE fs[next].kind # "link"
    <3>1. Moved(fs, s) = Here(next, rest, s.links)
      BY <1>4, <2>2 DEF Moved
    <3> QED BY <1>1, <2>1, <3>1 DEF Positions, Here
  <2>3. CASE fs[next].kind = "link"
    <3>1. s.links # 0
      BY <1>4, <2>3 DEF Stops
    <3>2. fs[next].target \in Seq(STRING) /\ <<>> \in DOMAIN fs
      BY <2>1, TreeFacts
    <3>3. fs[next].target \o rest \in Seq(STRING) /\ Len(fs[next].target \o rest) = Len(fs[next].target) + Len(rest)
      BY <3>2, <1>1
    <3> DEFINE start == IF fs[next].target[1] = "" THEN <<>> ELSE s.at
    <3>4. Moved(fs, s) = Here(start, fs[next].target \o rest, s.links - 1)
      BY <1>4, <2>3 DEF Moved
    <3>5. start \in DOMAIN fs
      BY <3>2, <1>1
    <3> HIDE DEF start
    <3>6. Len(fs[next].target) \in Nat
      BY <3>2
    <3>7. Len(Moved(fs, s).todo) = Len(fs[next].target) + Len(s.todo) - 1
      <4>1. Moved(fs, s).todo = fs[next].target \o rest
        <5> DEFINE q == fs[next].target \o rest
        <5>1. Moved(fs, s) = Here(start, q, s.links - 1)
          BY <3>4
        <5> HIDE DEF q
        <5>2. Moved(fs, s).todo = q
          BY <5>1 DEF Here
        <5> QED BY <5>2 DEF q
      <4> QED BY <4>1, <3>3, <1>1, <3>6
    <3>8. Moved(fs, s) \in Positions(fs) /\ Moved(fs, s).links = s.links - 1 /\ s.links > 0
      BY <3>3, <3>4, <3>5, <1>1, <3>1 DEF Here, Positions
    <3> QED BY <2>1, <3>7, <3>8
  <2> QED BY <2>2, <2>3
<1> QED BY <1>2, <1>3, <1>4

(* A position's weight: what is left to do once every link that may still  *)
(* be followed has been.                                                   *)
LEMMA WalkMeasure ==
  ASSUME NEW fs, FileTree(fs)
  PROVE  \E m \in [Positions(fs) -> Nat] :
           \A s \in Positions(fs) : ~Stops(fs, s) => m[Moved(fs, s)] < m[s]
PROOF
<1>1. PICK longest \in Nat : \A l \in DOMAIN fs : Len(fs[l].target) <= longest
  BY TreeFacts
<1> DEFINE W(s) == Len(s.todo) + s.links * (longest + 1)
           m == [s \in Positions(fs) |-> W(s)]
<1>2. \A s \in Positions(fs) : Len(s.todo) \in Nat /\ s.links \in Nat
  BY DEF Positions
<1>3. \A s \in Positions(fs) : W(s) \in Nat
  <2> SUFFICES ASSUME NEW s \in Positions(fs) PROVE W(s) \in Nat
    OBVIOUS
  <2>1. \A a, b \in Nat : a * b \in Nat
    OBVIOUS
  <2>2. s.links * (longest + 1) \in Nat
    BY <1>2, <2>1
  <2> QED BY <2>2, <1>2
<1>4. ASSUME NEW s \in Positions(fs), ~Stops(fs, s)
      PROVE  m[Moved(fs, s)] < m[s]
  <2> DEFINE t == Moved(fs, s)
  <2>1. t \in Positions(fs)
    BY <1>4, MovedIsAPosition
  <2>2. CASE Len(t.todo) = Len(s.todo) - 1 /\ t.links = s.links
    <3>1. \A a, b \in Nat, c \in Nat : b = a - 1 => b + c < a + c
      OBVIOUS
    <3>2. s.links * (longest + 1) \in Nat
      <4>1. \A a, b \in Nat : a * b \in Nat
        OBVIOUS
      <4> QED BY <1>2, <4>1
    <3>3. W(t) < W(s)
      <4> HIDE DEF t
      <4> QED BY <2>2, <1>2, <2>1, <3>1, <3>2
    <3> HIDE DEF W
    <3>4. m[t] = W(t) /\ m[s] = W(s)
      BY <2>1, <1>4
    <3> QED BY <3>3, <3>4
  <2>3. CASE ~(Len(t.todo) = Len(s.todo) - 1 /\ t.links = s.links)
    <3>1. /\ s.links > 0 /\ t.links = s.links - 1
          /\ \E l \in DOMAIN fs : Len(t.todo) = Len(fs[l].target) + Len(s.todo) - 1
      BY <1>4, <2>3, MovedIsAPosition
    <3>2. PICK l \in DOMAIN fs : Len(t.todo) = Len(fs[l].target) + Len(s.todo) - 1
      BY <3>1
    <3>3. Len(fs[l].target) \in Nat /\ Len(fs[l].target) <= longest
      BY TreeFacts, <1>1
    <3> HIDE DEF t
    <3>4. \A k, c \in Nat : k > 0 => (k - 1) * c = k * c - c /\ k * c \in Nat
      OBVIOUS
    <3>5. t.links * (longest + 1) = s.links * (longest + 1) - (longest + 1) /\ s.links * (longest + 1) \in Nat
      BY <3>1, <3>4, <1>2
    <3> DEFINE p == s.links * (longest + 1)
    <3>6. t.links * (longest + 1) = p - (longest + 1) /\ p \in Nat
      BY <3>5
    <3> HIDE DEF p
    <3>7. Len(t.todo) + (p - (longest + 1)) < Len(s.todo) + p
      <4>1. \A a, b, c, d, e \in Nat : a = b + c - 1 /\ b <= d => a + (e - (d + 1)) < c + e
        OBVIOUS
      <4>2. Len(t.todo) \in Nat /\ Len(s.todo) \in Nat
        BY <1>2, <2>1, <1>4
      <4> QED BY <4>1, <4>2, <3>6, <3>2, <3>3
    <3>8. W(t) < W(s)
      BY <3>6, <3>7 DEF p
    <3> HIDE DEF W
    <3>9. m[t] = W(t) /\ m[s] = W(s)
      BY <2>1, <1>4
    <3> QED BY <3>8, <3>9 DEF t
  <2> QED BY <2>2, <2>3
<1> HIDE DEF W
<1>5. m \in [Positions(fs) -> Nat]
  BY <1>3
<1> HIDE DEF m
<1> QED BY <1>4, <1>5

(* Walk does what its recursive definition says: it is defined on every   *)
(* position.                                                              *)
LEMMA WalkUnfold ==
  ASSUME NEW fs, FileTree(fs), NEW at \in DOMAIN fs, NEW todo \in Seq(STRING), NEW n \in Nat
  PROVE  LET s == Here(at, todo, n)
             t == Moved(fs, s)
         IN  Walk(fs, at, todo, n) =
               IF Stops(fs, s) THEN StopsWith(fs, s) ELSE Walk(fs, t.at, t.todo, t.links)
PROOF
<1> DEFINE S == Positions(fs)
           A == {StopsWith(fs, s) : s \in S}
           step == [s \in S |-> IF Stops(fs, s) THEN s ELSE Moved(fs, s)]
           done == {s \in S : Stops(fs, s)}
           out == [s \in S |-> StopsWith(fs, s)]
           Body(w, s) ==
             LET part == Head(s.todo)
                 rest == Tail(s.todo)
                 next == Append(s.at, part)
             IN  IF s.todo = <<>> THEN Found(s.at)
                 ELSE IF fs[s.at].kind # "dir" THEN Refuse("ENOTDIR")
                 ELSE IF part \in {"", "."} THEN w[Here(s.at, rest, s.links)]
                 ELSE IF part = ".."
                   THEN w[Here(IF s.at = <<>> THEN s.at ELSE Front(s.at), rest, s.links)]
                 ELSE IF next \notin DOMAIN fs THEN Refuse("ENOENT")
                 ELSE IF fs[next].kind # "link" THEN w[Here(next, rest, s.links)]
                 ELSE IF s.links = 0 THEN Refuse("ELOOP")
                 ELSE w[Here(IF fs[next].target[1] = "" THEN <<>> ELSE s.at,
                             fs[next].target \o rest, s.links - 1)]
           P(w) == w = [s \in S |-> Body(w, s)]
           walk == CHOOSE w : P(w)
<1>1. \A w : \A s \in S : Body(w, s) = IF Stops(fs, s) THEN StopsWith(fs, s) ELSE w[Moved(fs, s)]
  <2> SUFFICES ASSUME NEW w, NEW s \in S
               PROVE  Body(w, s) = IF Stops(fs, s) THEN StopsWith(fs, s) ELSE w[Moved(fs, s)]
    OBVIOUS
  <2> HIDE DEF P, S, A
  <2> QED BY DEF Stops, StopsWith, Moved
<1>2. PICK m \in [S -> Nat] : \A s \in S : ~Stops(fs, s) => m[Moved(fs, s)] < m[s]
  BY WalkMeasure
<1>3. step \in [S -> S] /\ done \in SUBSET S /\ out \in [S -> A]
  <2>1. \A s \in S : ~Stops(fs, s) => Moved(fs, s) \in S
    BY MovedIsAPosition
  <2> HIDE DEF S
  <2> QED BY <2>1
<1>4. \A s \in S \ done : m[step[s]] < m[s]
  <2> HIDE DEF S
  <2> QED BY <1>2
<1>5. PICK h \in [S -> A] : Recurs(h, S, done, out, step)
  <2> HIDE DEF S, A, step, done, out
  <2> QED BY <1>3, <1>4, MeasureRecursion
<1>6. \A s \in S : h[s] = IF Stops(fs, s) THEN StopsWith(fs, s) ELSE h[Moved(fs, s)]
  <2> HIDE DEF S, A
  <2> QED BY <1>5 DEF Recurs
<1>7. P(h)
  <2> HIDE DEF S, A, Body
  <2> QED BY <1>5, <1>6, <1>1
<1>8. P(walk)
  <2> HIDE DEF P
  <2> QED BY <1>7
<1>9. \A a, q, k : Walk(fs, a, q, k) = walk[Here(a, q, k)]
  BY DEF Walk, Positions
<1> DEFINE s == Here(at, todo, n)
           t == Moved(fs, s)
<1>10. s \in S
  BY DEF Here, Positions
<1>11. walk[s] = IF Stops(fs, s) THEN StopsWith(fs, s) ELSE walk[t]
  <2> HIDE DEF walk, s, S, Body
  <2> QED BY <1>8, <1>10, <1>1
<1>12. ~Stops(fs, s) => t = Here(t.at, t.todo, t.links)
  <2>1. ~Stops(fs, s) => t \in S
    BY <1>10, MovedIsAPosition
  <2> HIDE DEF t, s
  <2> QED BY <2>1 DEF Positions, Here
<1> HIDE DEF walk, s, t
<1>13. Walk(fs, at, todo, n) = walk[s] /\ Walk(fs, t.at, t.todo, t.links) = walk[Here(t.at, t.todo, t.links)]
  BY <1>9 DEF s
<1> QED BY <1>11, <1>12, <1>13 DEF s, t

(* A resolution from a position.                                          *)
WalkFrom(fs, s) == Walk(fs, s.at, s.todo, s.links)

(* Walk, of the fields of a position.                                     *)
LEMMA WalkHere ==
  ASSUME NEW fs, NEW at, NEW todo, NEW n
  PROVE  WalkFrom(fs, Here(at, todo, n)) = Walk(fs, at, todo, n)
PROOF
  BY DEF WalkFrom, Here

(* Head and tail of a sequence put before another.                        *)
LEMMA ConcatHead ==
  ASSUME NEW S, NEW a \in Seq(S), a # <<>>, NEW q \in Seq(S)
  PROVE  /\ Head(a \o q) = Head(a) /\ a \o q # <<>>
         /\ Tail(a \o q) = Tail(a) \o q
PROOF
<1>1. Head(a \o q) = Head(a) /\ a \o q # <<>>
  OBVIOUS
<1>2. Head(a) \in S /\ Tail(a) \in Seq(S) /\ a = <<Head(a)>> \o Tail(a)
  <2>1. Head(a) \in S /\ Tail(a) \in Seq(S)
    BY HeadTailProperties
  <2> QED BY <2>1
<1>3. a \o q = <<Head(a)>> \o (Tail(a) \o q)
  <2>1. (<<Head(a)>> \o Tail(a)) \o q = <<Head(a)>> \o (Tail(a) \o q)
    BY <1>2, ConcatAssociative
  <2> QED BY <2>1, <1>2
<1>4. \A e \in S, b \in Seq(S) : Tail(<<e>> \o b) = b
  OBVIOUS
<1>5. Tail(a) \o q \in Seq(S)
  BY <1>2
<1> QED BY <1>1, <1>2, <1>3, <1>4, <1>5

(* One step of a resolution.                                              *)
LEMMA WalkStep ==
  ASSUME NEW fs, FileTree(fs), NEW s \in Positions(fs)
  PROVE  WalkFrom(fs, s) = IF Stops(fs, s) THEN StopsWith(fs, s) ELSE WalkFrom(fs, Moved(fs, s))
PROOF
<1>1. s.at \in DOMAIN fs /\ s.todo \in Seq(STRING) /\ s.links \in Nat /\ s = Here(s.at, s.todo, s.links)
  BY DEF Positions, Here
<1>2. LET r == Here(s.at, s.todo, s.links)
          t == Moved(fs, r)
      IN  Walk(fs, s.at, s.todo, s.links) =
            IF Stops(fs, r) THEN StopsWith(fs, r) ELSE Walk(fs, t.at, t.todo, t.links)
  BY <1>1, WalkUnfold
<1> QED BY <1>1, <1>2 DEF WalkFrom

(* Induction along a resolution.                                          *)
LEMMA WalkInduction ==
  ASSUME NEW fs, FileTree(fs), NEW T,
         \A s \in Positions(fs) : (~Stops(fs, s) => Moved(fs, s) \in T) => s \in T
  PROVE  Positions(fs) \subseteq T
PROOF
<1>1. PICK m \in [Positions(fs) -> Nat] :
           \A s \in Positions(fs) : ~Stops(fs, s) => m[Moved(fs, s)] < m[s]
  BY WalkMeasure
<1>2. \A s \in Positions(fs) : (\A r \in Positions(fs) : m[r] < m[s] => r \in T) => s \in T
  BY <1>1, MovedIsAPosition
<1> QED BY <1>2, StrongInduction

(* A resolution ends at a location that exists and is no link.             *)
LEMMA WalkLands ==
  ASSUME NEW fs, FileTree(fs), NEW s \in Positions(fs), fs[s.at].kind # "link"
  PROVE  LET r == WalkFrom(fs, s)
         IN  \/ r.at \in DOMAIN fs /\ fs[r.at].kind # "link" /\ r = Found(r.at)
             \/ r \in {Refuse("ENOTDIR"), Refuse("ENOENT"), Refuse("ELOOP")}
PROOF
<1> DEFINE Lands(s0) == LET r == WalkFrom(fs, s0)
                        IN  \/ r.at \in DOMAIN fs /\ fs[r.at].kind # "link" /\ r = Found(r.at)
                            \/ r \in {Refuse("ENOTDIR"), Refuse("ENOENT"), Refuse("ELOOP")}
           T == {s0 \in Positions(fs) : fs[s0.at].kind # "link" => Lands(s0)}
<1>1. ASSUME NEW s0 \in Positions(fs), ~Stops(fs, s0) => Moved(fs, s0) \in T
      PROVE  s0 \in T
  <2> SUFFICES ASSUME fs[s0.at].kind # "link" PROVE Lands(s0)
    OBVIOUS
  <2>1. CASE Stops(fs, s0)
    <3>1. WalkFrom(fs, s0) = StopsWith(fs, s0)
      BY <2>1, WalkStep
    <3>2. Found(s0.at).at = s0.at /\ s0.at \in DOMAIN fs
      BY DEF Found, Positions
    <3> QED BY <3>1, <3>2 DEF StopsWith
  <2>2. CASE ~Stops(fs, s0)
    <3> DEFINE t == Moved(fs, s0)
               part == Head(s0.todo)
               next == Append(s0.at, part)
    <3>1. WalkFrom(fs, s0) = WalkFrom(fs, t)
      BY <2>2, WalkStep
    <3>2. fs[t.at].kind # "link"
      <4>0. s0.at \in DOMAIN fs BY DEF Positions
      <4>1. CASE part \in {"", "."}
        BY <4>1 DEF Moved, Here
      <4>2. CASE part = ".."
        <5>1. t.at = IF s0.at = <<>> THEN s0.at ELSE Front(s0.at)
          BY <4>2 DEF Moved, Here
        <5>2. s0.at # <<>> => fs[Front(s0.at)].kind = "dir"
          BY <4>0, TreeFacts
        <5> QED BY <5>1, <5>2
      <4>3. CASE part \notin {"", ".", ".."} /\ fs[next].kind # "link"
        BY <4>3 DEF Moved, Here
      <4>4. CASE part \notin {"", ".", ".."} /\ fs[next].kind = "link"
        <5>1. t.at = IF fs[next].target[1] = "" THEN <<>> ELSE s0.at
          BY <4>4 DEF Moved, Here
        <5>2. fs[<<>>].kind = "dir"
          BY TreeFacts
        <5> QED BY <5>1, <5>2
      <4> QED BY <4>1, <4>2, <4>3, <4>4
    <3>3. t \in T
      BY <1>1, <2>2
    <3> HIDE DEF t, Lands
    <3>4. Lands(t)
      BY <3>2, <3>3
    <3> QED BY <3>1, <3>4 DEF Lands
  <2> QED BY <2>1, <2>2
<1>2. Positions(fs) \subseteq T
  <2> HIDE DEF T
  <2> QED BY <1>1, WalkInduction
<1>3. s \in T
  <2> HIDE DEF T
  <2> QED BY <1>2
<1> QED BY <1>3

(* The parts of a location are locations, all but the last directories.    *)
LEMMA PrefixesExist ==
  ASSUME NEW fs, FileTree(fs), NEW l \in DOMAIN fs, NEW i \in 0 .. Len(l)
  PROVE  /\ SubSeq(l, 1, i) \in DOMAIN fs
         /\ i < Len(l) => fs[SubSeq(l, 1, i)].kind = "dir"
PROOF
<1>0. l \in Seq(Name) /\ Len(l) \in Nat
  BY TreeFacts
<1> DEFINE Good(j) == /\ SubSeq(l, 1, j) \in DOMAIN fs
                      /\ j < Len(l) => fs[SubSeq(l, 1, j)].kind = "dir"
           T == {k \in Nat : \A j \in Nat : j + k = Len(l) => Good(j)}
<1>1. 0 \in T
  <2>1. SubSeq(l, 1, Len(l)) = l
    BY <1>0, SubSeqFull
  <2>a. SubSeq(l, 1, Len(l)) \in DOMAIN fs
    BY <2>1
  <2>b. ~(Len(l) < Len(l))
    BY <1>0
  <2>2. Good(Len(l))
    BY <2>a, <2>b
  <2> HIDE DEF Good
  <2> QED BY <2>2, <1>0
<1>2. \A k \in Nat : k \in T => k + 1 \in T
  <2> SUFFICES ASSUME NEW k \in Nat, k \in T, NEW j \in Nat, j + (k + 1) = Len(l) PROVE Good(j)
    <3>1. \A k \in Nat : k + 1 \in Nat
      OBVIOUS
    <3> HIDE DEF Good
    <3> QED BY <3>1
  <2> DEFINE p == SubSeq(l, 1, j + 1)
  <2>1. p \in DOMAIN fs
    <3>1. j + 1 \in Nat /\ (j + 1) + k = Len(l)
      OBVIOUS
    <3>2. Good(j + 1)
      <4> HIDE DEF Good
      <4> QED BY <3>1
    <3> QED BY <3>2
  <2>2. p # <<>> /\ Front(p) = SubSeq(l, 1, j)
    <3>1. Len(p) = j + 1
      BY <1>0
    <3>2. Front(p) = SubSeq(p, 1, j)
      BY <3>1 DEF Front
    <3>3. SubSeq(SubSeq(l, 1, j + 1), 1, j) = SubSeq(l, 1, j)
      BY <1>0
    <3> QED BY <3>1, <3>2, <3>3
  <2>3. Front(p) \in DOMAIN fs /\ fs[Front(p)].kind = "dir"
    BY <2>1, <2>2, TreeFacts
  <2> QED BY <2>2, <2>3
<1>3. Good(i)
  <2>1. Len(l) - i \in Nat /\ i \in Nat /\ i + (Len(l) - i) = Len(l)
    BY <1>0
  <2>2. Len(l) - i \in T
    <3> HIDE DEF T
    <3> QED BY <2>1, <1>1, <1>2, Induction
  <2> HIDE DEF Good
  <2> QED BY <2>1, <2>2
<1> QED BY <1>3

(* A sequence taken on by one element of another.                         *)
LEMMA ConcatFacts ==
  ASSUME NEW S, NEW a \in Seq(S), NEW q \in Seq(S), q # <<>>
  PROVE  /\ Append(a, Head(q)) \o Tail(q) = a \o q
         /\ SubSeq(a \o q, 1, Len(a)) = a
         /\ SubSeq(a \o q, 1, Len(a) + 1) = Append(a, Head(q))
         /\ Len(a \o q) = Len(a) + Len(q) /\ Len(q) > 0 /\ Len(q) \in Nat /\ Len(a) \in Nat
         /\ Head(q) \in S /\ Tail(q) \in Seq(S) /\ Len(Tail(q)) = Len(q) - 1
PROOF
<1>1. Head(q) \in S /\ Tail(q) \in Seq(S) /\ Len(Tail(q)) = Len(q) - 1
  BY HeadTailProperties
<1>2. Len(a \o q) = Len(a) + Len(q) /\ Len(q) > 0 /\ Len(q) \in Nat /\ Len(a) \in Nat
  OBVIOUS
<1>3. SubSeq(a \o q, 1, Len(a)) = a
  OBVIOUS
<1>4. SubSeq(a \o q, 1, Len(a) + 1) = Append(a, Head(q))
  OBVIOUS
<1>5. Append(a, Head(q)) \o Tail(q) = a \o q
  <2>1. Append(a, Head(q)) = a \o <<Head(q)>>
    BY <1>1, AppendIsConcat
  <2>2. (a \o <<Head(q)>>) \o Tail(q) = a \o (<<Head(q)>> \o Tail(q))
    BY <1>1, ConcatAssociative
  <2>3. <<Head(q)>> \o Tail(q) = q
    BY <1>1
  <2> QED BY <2>1, <2>2, <2>3
<1> QED BY <1>1, <1>2, <1>3, <1>4, <1>5

(* No link lies on the way to a location, nor is it one itself.           *)
Straight(fs, l) ==
  /\ l \in Seq(Name)
  /\ \A i \in 0 .. Len(l) : SubSeq(l, 1, i) \in DOMAIN fs => fs[SubSeq(l, 1, i)].kind # "link"

(* Where no link lies a resolution goes straight to its end.               *)
LEMMA WalkStraight ==
  ASSUME NEW fs, FileTree(fs), NEW s \in Positions(fs), s.todo \in Seq(Name),
         Straight(fs, s.at \o s.todo)
  PROVE  IF s.at \o s.todo \in DOMAIN fs THEN WalkFrom(fs, s) = Found(s.at \o s.todo)
         ELSE WalkFrom(fs, s) \in {Refuse("ENOENT"), Refuse("ENOTDIR")}
PROOF
<1> DEFINE Ends(s0) == IF s0.at \o s0.todo \in DOMAIN fs THEN WalkFrom(fs, s0) = Found(s0.at \o s0.todo)
                       ELSE WalkFrom(fs, s0) \in {Refuse("ENOENT"), Refuse("ENOTDIR")}
           T == {s0 \in Positions(fs) :
                   s0.todo \in Seq(Name) /\ Straight(fs, s0.at \o s0.todo) => Ends(s0)}
<1>1. ASSUME NEW s0 \in Positions(fs), ~Stops(fs, s0) => Moved(fs, s0) \in T
      PROVE  s0 \in T
  <2> SUFFICES ASSUME s0.todo \in Seq(Name), Straight(fs, s0.at \o s0.todo) PROVE Ends(s0)
    OBVIOUS
  <2> DEFINE l == s0.at \o s0.todo
             part == Head(s0.todo)
             rest == Tail(s0.todo)
             next == Append(s0.at, part)
  <2>0. s0.at \in DOMAIN fs /\ s0.at \in Seq(Name)
    BY TreeFacts DEF Positions
  <2>1. CASE s0.todo = <<>>
    <3>1. l = s0.at
      BY <2>0, <2>1
    <3>2. WalkFrom(fs, s0) = Found(s0.at)
      BY <2>1, WalkStep DEF Stops, StopsWith
    <3> QED BY <3>1, <3>2, <2>0
  <2>2. CASE s0.todo # <<>> /\ fs[s0.at].kind # "dir"
    <3>1. WalkFrom(fs, s0) = Refuse("ENOTDIR")
      BY <2>2, WalkStep DEF Stops, StopsWith
    <3>2. SubSeq(l, 1, Len(s0.at)) = s0.at /\ Len(s0.at) < Len(l) /\ Len(s0.at) \in 0 .. Len(l)
      <4>1. \A a, b \in Seq(Name) : b # <<>> =>
               /\ SubSeq(a \o b, 1, Len(a)) = a
               /\ Len(a \o b) = Len(a) + Len(b) /\ Len(b) > 0 /\ Len(b) \in Nat /\ Len(a) \in Nat
        BY ConcatFacts
      <4>2. /\ SubSeq(l, 1, Len(s0.at)) = s0.at
            /\ Len(l) = Len(s0.at) + Len(s0.todo) /\ Len(s0.todo) > 0 /\ Len(s0.todo) \in Nat /\ Len(s0.at) \in Nat
        BY <4>1, <2>0, <2>2
      <4>3. \A k, m, n : k = m + n /\ n > 0 /\ n \in Nat /\ m \in Nat => m < k /\ m \in 0 .. k
        OBVIOUS
      <4>4. Len(s0.at) < Len(l) /\ Len(s0.at) \in 0 .. Len(l)
        <5> HIDE DEF l
        <5> QED BY <4>2, <4>3
      <4> HIDE DEF l
      <4> QED BY <4>2, <4>4
    <3>3. l \notin DOMAIN fs
      BY <3>2, <2>2, PrefixesExist
    <3> QED BY <3>1, <3>3
  <2>3. CASE s0.todo # <<>> /\ fs[s0.at].kind = "dir"
    <3>1. /\ next \o rest = l /\ SubSeq(l, 1, Len(s0.at) + 1) = next
          /\ Len(s0.at) + 1 \in 0 .. Len(l) /\ part \in Name /\ rest \in Seq(Name)
      <4>1. \A a, b \in Seq(Name) : b # <<>> =>
               /\ Append(a, Head(b)) \o Tail(b) = a \o b
               /\ SubSeq(a \o b, 1, Len(a) + 1) = Append(a, Head(b))
               /\ Len(a \o b) = Len(a) + Len(b) /\ Len(b) > 0 /\ Len(b) \in Nat /\ Len(a) \in Nat
               /\ Head(b) \in Name /\ Tail(b) \in Seq(Name)
        BY ConcatFacts, SMTT(60)
      <4>2. /\ next \o rest = l /\ SubSeq(l, 1, Len(s0.at) + 1) = next
            /\ part \in Name /\ rest \in Seq(Name)
            /\ Len(l) = Len(s0.at) + Len(s0.todo) /\ Len(s0.todo) > 0 /\ Len(s0.todo) \in Nat /\ Len(s0.at) \in Nat
        BY <4>1, <2>0, <2>3
      <4>3. \A k, m, n : k = m + n /\ n > 0 /\ n \in Nat /\ m \in Nat => m + 1 \in 0 .. k
        OBVIOUS
      <4>4. Len(s0.at) + 1 \in 0 .. Len(l)
        <5> HIDE DEF l
        <5> QED BY <4>2, <4>3
      <4> HIDE DEF l, next
      <4> QED BY <4>2, <4>4
    <3>2. part \notin {"", ".", ".."}
      BY <3>1 DEF Name
    <3>3. CASE next \notin DOMAIN fs
      <4>1. WalkFrom(fs, s0) = Refuse("ENOENT")
        BY <2>3, <3>2, <3>3, WalkStep DEF Stops, StopsWith
      <4>2. l \notin DOMAIN fs
        BY <3>1, <3>3, PrefixesExist
      <4> QED BY <4>1, <4>2
    <3>4. CASE next \in DOMAIN fs
      <4>1. fs[next].kind # "link"
        BY <3>1, <3>4 DEF Straight
      <4>2. ~Stops(fs, s0)
        BY <2>3, <3>2, <3>4, <4>1 DEF Stops
      <4>3. Moved(fs, s0) = Here(next, rest, s0.links)
        BY <3>2, <4>1 DEF Moved
      <4>4. Moved(fs, s0).at = next /\ Moved(fs, s0).todo = rest
        BY <4>3 DEF Here
      <4>5. WalkFrom(fs, s0) = WalkFrom(fs, Moved(fs, s0))
        BY <4>2, WalkStep
      <4>6. Moved(fs, s0) \in T
        BY <4>2, <1>1
      <4>7. Ends(Moved(fs, s0))
        BY <4>4, <4>6, <3>1
      <4> QED BY <4>4, <4>5, <4>7, <3>1
    <3> QED BY <3>3, <3>4
  <2> QED BY <2>1, <2>2, <2>3
<1>2. Positions(fs) \subseteq T
  <2> HIDE DEF T
  <2> QED BY <1>1, WalkInduction
<1>3. s \in T
  <2> HIDE DEF T
  <2> QED BY <1>2
<1> QED BY <1>3

(* A path in two halves: the second is resolved where the first one leads, *)
(* with the links that are left.                                           *)
LEMMA WalkOn ==
  ASSUME NEW fs, FileTree(fs), NEW s \in Positions(fs), NEW q \in Seq(STRING)
  PROVE  LET whole == Walk(fs, s.at, s.todo \o q, s.links)
             r     == WalkFrom(fs, s)
         IN  \/ whole = r /\ r \in {Refuse("ENOTDIR"), Refuse("ENOENT"), Refuse("ELOOP")}
             \/ /\ r.at \in DOMAIN fs /\ r = Found(r.at)
                /\ \E k \in 0 .. s.links : whole = Walk(fs, r.at, q, k)
PROOF
<1> DEFINE Whole(s0) == Walk(fs, s0.at, s0.todo \o q, s0.links)
           Good(s0) == LET r == WalkFrom(fs, s0)
                       IN  \/ Whole(s0) = r /\ r \in {Refuse("ENOTDIR"), Refuse("ENOENT"), Refuse("ELOOP")}
                           \/ /\ r.at \in DOMAIN fs /\ r = Found(r.at)
                              /\ \E k \in 0 .. s0.links : Whole(s0) = Walk(fs, r.at, q, k)
           T == {s0 \in Positions(fs) : Good(s0)}
<1>1. ASSUME NEW s0 \in Positions(fs), ~Stops(fs, s0) => Moved(fs, s0) \in T
      PROVE  Good(s0)
  <2>0. s0.at \in DOMAIN fs /\ s0.todo \in Seq(STRING) /\ s0.links \in Nat
    BY DEF Positions
  <2> DEFINE s2 == Here(s0.at, s0.todo \o q, s0.links)
  <2>00. s2 \in Positions(fs) /\ Whole(s0) = WalkFrom(fs, s2) /\ s2.at = s0.at /\ s2.links = s0.links
         /\ s2.todo = s0.todo \o q
    BY <2>0 DEF Positions, Here, WalkFrom
  <2>1. CASE s0.todo = <<>>
    <3>1. WalkFrom(fs, s0) = Found(s0.at)
      BY <2>1, WalkStep DEF Stops, StopsWith
    <3>2. Whole(s0) = Walk(fs, s0.at, q, s0.links)
      <4>1. s0.todo \o q = q
        BY <2>1
      <4> QED BY <4>1
    <3>3. Found(s0.at).at = s0.at
      BY DEF Found
    <3> QED BY <3>1, <3>2, <3>3, <2>0
  <2>2. CASE s0.todo # <<>>
    <3>1. Head(s2.todo) = Head(s0.todo) /\ Tail(s2.todo) = Tail(s0.todo) \o q /\ s2.todo # <<>>
      <4>1. Head(s0.todo \o q) = Head(s0.todo) /\ Tail(s0.todo \o q) = Tail(s0.todo) \o q
            /\ s0.todo \o q # <<>>
        BY <2>0, <2>2, ConcatHead
      <4> QED BY <4>1, <2>00
    <3>2. Stops(fs, s2) <=> Stops(fs, s0)
      BY <3>1, <2>00, <2>2 DEF Stops
    <3>3. CASE Stops(fs, s0)
      <4>1. StopsWith(fs, s2) = StopsWith(fs, s0)
        BY <3>1, <2>00, <2>2 DEF StopsWith
      <4>2. WalkFrom(fs, s0) = StopsWith(fs, s0) /\ WalkFrom(fs, s2) = StopsWith(fs, s2)
        BY <3>2, <3>3, <2>00, WalkStep
      <4>3. StopsWith(fs, s0) \in {Refuse("ENOTDIR"), Refuse("ENOENT"), Refuse("ELOOP")}
        BY <2>2 DEF StopsWith
      <4> QED BY <4>1, <4>2, <4>3, <2>00
    <3>4. CASE ~Stops(fs, s0)
      <4> DEFINE t == Moved(fs, s0)
      <4>1. t \in Positions(fs) /\ t \in T /\ t.links \in 0 .. s0.links
        <5>1. t \in Positions(fs) /\ t \in T
          BY <1>1, <3>4
        <5>2. t.links = s0.links \/ (s0.links > 0 /\ t.links = s0.links - 1)
          BY <3>4, MovedIsAPosition, ZenonT(60)
        <5> QED BY <5>1, <5>2, <2>0
      <4>2. Moved(fs, s2) = Here(t.at, t.todo \o q, t.links)
        <5> DEFINE part == Head(s0.todo)
                   next == Append(s0.at, part)
        <5>1. Tail(s0.todo) \in Seq(STRING)
          BY <2>0, <2>2, HeadTailProperties, ZenonT(60)
        <5>2. CASE part \in {"", "."}
          BY <5>2, <3>1, <2>00, ZenonT(60) DEF Moved, Here
        <5>3. CASE part = ".."
          BY <5>3, <3>1, <2>00, ZenonT(60) DEF Moved, Here
        <5>4. CASE part \notin {"", ".", ".."} /\ fs[next].kind # "link"
          BY <5>4, <3>1, <2>00, ZenonT(60) DEF Moved, Here
        <5>5. CASE part \notin {"", ".", ".."} /\ fs[next].kind = "link"
          <6> DEFINE start == IF fs[next].target[1] = "" THEN <<>> ELSE s0.at
          <6>1. Moved(fs, s2) = Here(start, fs[next].target \o (Tail(s0.todo) \o q), s0.links - 1)
            BY <5>5, <3>1, <2>00 DEF Moved
          <6>2. t = Here(start, fs[next].target \o Tail(s0.todo), s0.links - 1)
            BY <5>5 DEF Moved
          <6>3. next \in DOMAIN fs
            BY <3>4, <5>5 DEF Stops
          <6>4. fs[next].target \in Seq(STRING)
            BY <6>3, TreeFacts, SMTT(60)
          <6>5. fs[next].target \o (Tail(s0.todo) \o q) = (fs[next].target \o Tail(s0.todo)) \o q
            <7> DEFINE aim == fs[next].target
                       rest == Tail(s0.todo)
            <7>1. aim \in Seq(STRING) /\ rest \in Seq(STRING)
              BY <6>4, <5>1, SMTT(60)
            <7> HIDE DEF aim, rest
            <7>2. aim \o (rest \o q) = (aim \o rest) \o q
              BY <7>1, ConcatAssociative, SMTT(60)
            <7> QED BY <7>2, ZenonT(60) DEF aim, rest
          <6> DEFINE todo == fs[next].target \o Tail(s0.todo)
          <6>6. Moved(fs, s2) = Here(start, todo \o q, s0.links - 1)
            BY <6>1, <6>5, ZenonT(60)
          <6>7. t.at = start /\ t.todo = todo /\ t.links = s0.links - 1
            <7> HIDE DEF start, todo
            <7>1. t = Here(start, todo, s0.links - 1)
              BY <6>2 DEF todo
            <7> HIDE DEF t
            <7> QED BY <7>1 DEF Here
          <6> HIDE DEF start, todo, t
          <6> QED BY <6>6, <6>7
        <5> QED BY <5>2, <5>3, <5>4, <5>5
      <4>3. WalkFrom(fs, s0) = WalkFrom(fs, t)
        BY <3>4, WalkStep
      <4>4. Whole(s0) = Whole(t)
        <5>1. WalkFrom(fs, s2) = WalkFrom(fs, Moved(fs, s2))
          BY <3>2, <3>4, <2>00, WalkStep
        <5>2. WalkFrom(fs, Moved(fs, s2)) = Whole(t)
          BY <4>2, WalkHere
        <5> QED BY <5>1, <5>2, <2>00
      <4>5. Good(t)
        BY <4>1
      <4>6. 0 .. t.links \subseteq 0 .. s0.links
        BY <4>1, <2>0
      <4> HIDE DEF Whole, t
      <4> QED BY <4>3, <4>4, <4>5, <4>6
    <3> QED BY <3>3, <3>4
  <2> QED BY <2>1, <2>2
<1>2. Positions(fs) \subseteq T
  <2>1. \A s0 \in Positions(fs) : (~Stops(fs, s0) => Moved(fs, s0) \in T) => s0 \in T
    BY <1>1
  <2> HIDE DEF T
  <2> QED BY <2>1, WalkInduction
<1>3. Good(s)
  <2> HIDE DEF Good
  <2> QED BY <1>2
<1> QED BY <1>3

(* With fewer links to follow a resolution ends the same way or gives up.  *)
LEMMA WalkWithFewer ==
  ASSUME NEW fs, FileTree(fs), NEW s \in Positions(fs), NEW k \in 0 .. s.links
  PROVE  Walk(fs, s.at, s.todo, k) \in {WalkFrom(fs, s), Refuse("ELOOP")}
PROOF
<1> DEFINE Good(s0) == \A j \in 0 .. s0.links : Walk(fs, s0.at, s0.todo, j) \in {WalkFrom(fs, s0), Refuse("ELOOP")}
           T == {s0 \in Positions(fs) : Good(s0)}
<1>1. ASSUME NEW s0 \in Positions(fs), ~Stops(fs, s0) => Moved(fs, s0) \in T
      PROVE  Good(s0)
  <2> SUFFICES ASSUME NEW j \in 0 .. s0.links
               PROVE  Walk(fs, s0.at, s0.todo, j) \in {WalkFrom(fs, s0), Refuse("ELOOP")}
    OBVIOUS
  <2>0. s0.at \in DOMAIN fs /\ s0.todo \in Seq(STRING) /\ s0.links \in Nat /\ j \in Nat
    BY DEF Positions
  <2> DEFINE s2 == Here(s0.at, s0.todo, j)
  <2>1. s2 \in Positions(fs) /\ Walk(fs, s0.at, s0.todo, j) = WalkFrom(fs, s2) /\ s2.at = s0.at
        /\ s2.links = j /\ s2.todo = s0.todo
    BY <2>0 DEF Positions, Here, WalkFrom
  <2>2. StopsWith(fs, s2) = StopsWith(fs, s0)
    BY <2>1 DEF StopsWith
  <2>3. CASE Stops(fs, s0)
    <3>1. Stops(fs, s2)
      <4>1. s0.links = 0 => j = 0
        BY <2>0
      <4> HIDE DEF s2
      <4> QED BY <2>3, <2>1, <4>1 DEF Stops
    <3> QED BY <2>1, <2>2, <2>3, <3>1, WalkStep
  <2>4. CASE ~Stops(fs, s0) /\ Stops(fs, s2)
    <3>1. WalkFrom(fs, s2) = StopsWith(fs, s2)
      BY <2>1, <2>4, WalkStep
    <3>2. StopsWith(fs, s2) = Refuse("ELOOP")
      BY <2>4, <2>1 DEF Stops, StopsWith
    <3> QED BY <3>1, <3>2, <2>1
  <2>5. CASE ~Stops(fs, s0) /\ ~Stops(fs, s2)
    <3> DEFINE t == Moved(fs, s0)
               t2 == Moved(fs, s2)
    <3>1. t \in T /\ t \in Positions(fs) /\ t2 \in Positions(fs)
      BY <1>1, <2>5, <2>1, MovedIsAPosition
    <3>2. t2.at = t.at /\ t2.todo = t.todo /\ t2.links \in 0 .. t.links
      <4> DEFINE part == Head(s0.todo)
                 next == Append(s0.at, part)
      <4>1. CASE part \in {"", "."}
        BY <4>1, <2>1, <2>0 DEF Moved, Here
      <4>2. CASE part = ".."
        BY <4>2, <2>1, <2>0 DEF Moved, Here
      <4>3. CASE part \notin {"", ".", ".."} /\ fs[next].kind # "link"
        BY <4>3, <2>1, <2>0 DEF Moved, Here
      <4>4. CASE part \notin {"", ".", ".."} /\ fs[next].kind = "link"
        <5>1. j # 0
          BY <4>4, <2>5, <2>1 DEF Stops
        <5> DEFINE start == IF fs[next].target[1] = "" THEN <<>> ELSE s0.at
                   todo == fs[next].target \o Tail(s0.todo)
        <5>2. t = Here(start, todo, s0.links - 1) /\ t2 = Here(start, todo, j - 1)
          BY <4>4, <2>1 DEF Moved
        <5> HIDE DEF start, todo
        <5>3. t.links = s0.links - 1 /\ t2.links = j - 1 /\ t2.at = t.at /\ t2.todo = t.todo
          BY <5>2 DEF Here
        <5> HIDE DEF t, t2
        <5> QED BY <5>3, <5>1, <2>0
      <4> QED BY <4>1, <4>2, <4>3, <4>4
    <3>3. WalkFrom(fs, s0) = WalkFrom(fs, t) /\ WalkFrom(fs, s2) = WalkFrom(fs, t2)
      BY <2>5, <2>1, WalkStep
    <3>4. WalkFrom(fs, t2) = Walk(fs, t.at, t.todo, t2.links)
      BY <3>2 DEF WalkFrom
    <3> HIDE DEF t, t2
    <3> QED BY <3>1, <3>2, <3>3, <3>4, <2>1
  <2> QED BY <2>3, <2>4, <2>5
<1>2. Positions(fs) \subseteq T
  <2>1. \A s0 \in Positions(fs) : (~Stops(fs, s0) => Moved(fs, s0) \in T) => s0 \in T
    BY <1>1
  <2> HIDE DEF T
  <2> QED BY <2>1, WalkInduction
<1>3. Good(s)
  <2> HIDE DEF Good
  <2> QED BY <1>2
<1> QED BY <1>3

(* The answers of Canonicalize.                                           *)
Landed(fs, r) ==
  \/ r.at \in DOMAIN fs /\ fs[r.at].kind # "link" /\ r = Found(r.at)
  \/ r \in {Refuse("ENOTDIR"), Refuse("ENOENT"), Refuse("ELOOP")}

(* What Canonicalize answers: a location that is there and no link, or    *)
(* one of three errors (std::fs::canonicalize).                           *)
LEMMA CanonicalLands ==
  ASSUME NEW fs, FileTree(fs), NEW path \in Seq(STRING)
  PROVE  Landed(fs, Canonicalize(fs, path))
PROOF
<1> DEFINE s == Here(<<>>, path, MaxLinks)
<1>1. s \in Positions(fs) /\ s.at = <<>>
  BY TreeFacts DEF Positions, Here, MaxLinks
<1>2. fs[s.at].kind # "link"
  BY <1>1, TreeFacts
<1>3. WalkFrom(fs, s) = Canonicalize(fs, path)
  BY WalkHere DEF Canonicalize
<1> HIDE DEF s
<1> QED BY <1>1, <1>2, <1>3, WalkLands DEF Landed

(* A location that is no link is where it says it is.                      *)
LEMMA SettledIsReal ==
  ASSUME NEW fs, FileTree(fs), NEW l \in DOMAIN fs, fs[l].kind # "link"
  PROVE  Straight(fs, l) /\ Canonicalize(fs, l) = Found(l)
PROOF
<1> DEFINE s == Here(<<>>, l, MaxLinks)
<1>0. l \in Seq(Name) /\ l \in Seq(STRING) /\ <<>> \o l = l
  BY TreeFacts
<1>1. Straight(fs, l)
  <2> SUFFICES ASSUME NEW i \in 0 .. Len(l) PROVE fs[SubSeq(l, 1, i)].kind # "link"
    BY <1>0 DEF Straight
  <2>1. CASE i = Len(l)
    BY <2>1, <1>0, SubSeqFull
  <2>2. CASE i # Len(l)
    <3>1. i < Len(l)
      BY <2>2, <1>0
    <3> QED BY <3>1, PrefixesExist
  <2> QED BY <2>1, <2>2
<1>2. s \in Positions(fs) /\ s.at = <<>> /\ s.todo = l
  BY <1>0, TreeFacts DEF Positions, Here, MaxLinks
<1>3. WalkFrom(fs, s) = Canonicalize(fs, l)
  BY WalkHere DEF Canonicalize
<1> HIDE DEF s
<1>4. s.at \o s.todo = l
  BY <1>2, <1>0
<1> QED BY <1>0, <1>1, <1>2, <1>3, <1>4, WalkStraight

(* A location not there, with no link above it, is reported missing.      *)
LEMMA StraightIsMissing ==
  ASSUME NEW fs, FileTree(fs), NEW l, Straight(fs, l), l \notin DOMAIN fs
  PROVE  Canonicalize(fs, l) \in {Refuse("ENOENT"), Refuse("ENOTDIR")}
PROOF
<1> DEFINE s == Here(<<>>, l, MaxLinks)
<1>0. l \in Seq(Name) /\ l \in Seq(STRING) /\ <<>> \o l = l
  <2>1. Seq(Name) \subseteq Seq(STRING)
    BY SeqMonotonic, Name \subseteq STRING DEF Name
  <2> QED BY <2>1 DEF Straight
<1>2. s \in Positions(fs) /\ s.at = <<>> /\ s.todo = l
  BY <1>0, TreeFacts DEF Positions, Here, MaxLinks
<1>3. WalkFrom(fs, s) = Canonicalize(fs, l)
  BY WalkHere DEF Canonicalize
<1> HIDE DEF s
<1>4. s.at \o s.todo = l
  BY <1>2, <1>0
<1> QED BY <1>0, <1>2, <1>3, <1>4, WalkStraight

(* The answers of the walks.                                              *)
Reached == [err : {"", "ENOTDIR", "ENOENT", "ELOOP", "escape", "unsafe"}, at : Seq(Name),
            kind : {"", "dir", "file", "link"}]

(* The answers of the walks are records of one set.                       *)
LEMMA ReachedRecords ==
  /\ \A e \in {"", "ENOTDIR", "ENOENT", "ELOOP", "escape", "unsafe"}, l \in Seq(Name),
        k \in {"", "dir", "file", "link"} : [err |-> e, at |-> l, kind |-> k] \in Reached
  /\ \A l \in Seq(Name) : Found(l) \in Reached
  /\ \A e \in {"ENOTDIR", "ENOENT", "ELOOP", "escape", "unsafe"} : Refuse(e) \in Reached
PROOF
<1>1. \A e \in {"", "ENOTDIR", "ENOENT", "ELOOP", "escape", "unsafe"}, l \in Seq(Name),
        k \in {"", "dir", "file", "link"} : [err |-> e, at |-> l, kind |-> k] \in Reached
  BY DEF Reached
<1>2. "" \in {"", "dir", "file", "link"} /\ "" \in {"", "ENOTDIR", "ENOENT", "ELOOP", "escape", "unsafe"}
      /\ <<>> \in Seq(Name)
  OBVIOUS
<1>3. \A l : Found(l) = [err |-> "", at |-> l, kind |-> ""]
  BY DEF Found
<1>4. \A e : Refuse(e) = [err |-> e, at |-> <<>>, kind |-> ""]
  BY DEF Refuse
<1>5. \A l \in Seq(Name) : Found(l) \in Reached
  BY <1>1, <1>2, <1>3
<1>6. \A e \in {"ENOTDIR", "ENOENT", "ELOOP", "escape", "unsafe"} : Refuse(e) \in Reached
  <2> SUFFICES ASSUME NEW e \in {"ENOTDIR", "ENOENT", "ELOOP", "escape", "unsafe"} PROVE Refuse(e) \in Reached
    OBVIOUS
  <2>1. e \in {"", "ENOTDIR", "ENOENT", "ELOOP", "escape", "unsafe"}
    OBVIOUS
  <2>2. [err |-> e, at |-> <<>>, kind |-> ""] \in Reached
    BY <2>1, <1>1, <1>2
  <2> QED BY <2>2, <1>4
<1> QED BY <1>1, <1>5, <1>6

(* So is every answer of Canonicalize.                                    *)
LEMMA LandedIsReached ==
  ASSUME NEW fs, FileTree(fs), NEW r, Landed(fs, r)
  PROVE  r \in Reached
PROOF
<1>1. CASE r.at \in DOMAIN fs /\ fs[r.at].kind # "link" /\ r = Found(r.at)
  <2>1. r.at \in Seq(Name)
    BY <1>1, TreeFacts
  <2> QED BY <2>1, <1>1, ReachedRecords
<1>2. CASE r \in {Refuse("ENOTDIR"), Refuse("ENOENT"), Refuse("ELOOP")}
  BY <1>2, ReachedRecords
<1> QED BY <1>1, <1>2 DEF Landed

(* A sequence grown by one, without its last element.                     *)
LEMMA FrontOfAppend ==
  ASSUME NEW S, NEW q \in Seq(S), NEW e \in S
  PROVE  Append(q, e) # <<>> /\ Front(Append(q, e)) = q /\ Last(Append(q, e)) = e
PROOF
<1>1. Len(Append(q, e)) = Len(q) + 1 /\ Append(q, e)[Len(q) + 1] = e /\ Append(q, e) # <<>> /\ Len(q) \in Nat
  OBVIOUS
<1>2. Front(Append(q, e)) = SubSeq(Append(q, e), 1, Len(q))
  BY <1>1 DEF Front
<1>3. SubSeq(Append(q, e), 1, Len(q)) = q
  OBVIOUS
<1> QED BY <1>1, <1>2, <1>3 DEF Last

(* What lstat says of a path below a location.                             *)
LEMMA MetadataIs ==
  ASSUME NEW fs, FileTree(fs), NEW path \in Seq(STRING), NEW part \in STRING
  PROVE  LET parent == Canonicalize(fs, path)
             entry  == Append(parent.at, part)
             seen   == SymlinkMetadata(fs, Append(path, part))
         IN  /\ seen \in Reached
             /\ parent.err # "" => seen = parent
             /\ parent.err = "" /\ entry \in DOMAIN fs =>
                  seen.err = "" /\ seen.at = entry /\ seen.kind = fs[entry].kind
             /\ parent.err = "" /\ entry \notin DOMAIN fs =>
                  seen \in {Refuse("ENOENT"), Refuse("ENOTDIR")}
             /\ parent.err = "" /\ seen.err = "ENOENT" => entry \notin DOMAIN fs
PROOF
<1> DEFINE whole  == Append(path, part)
           parent == Canonicalize(fs, path)
           entry  == Append(parent.at, part)
           seen   == SymlinkMetadata(fs, whole)
<1>1. whole # <<>> /\ Front(whole) = path /\ Last(whole) = part
  <2>2. \A q \in Seq(STRING), e \in STRING :
           Append(q, e) # <<>> /\ Front(Append(q, e)) = q /\ Last(Append(q, e)) = e
    BY FrontOfAppend
  <2> QED BY <2>2
<1>2. seen = IF parent.err # "" THEN parent
             ELSE IF fs[parent.at].kind # "dir" THEN Refuse("ENOTDIR")
             ELSE IF entry \notin DOMAIN fs THEN Refuse("ENOENT")
             ELSE [Found(entry) EXCEPT !.kind = fs[entry].kind]
  <2> HIDE DEF whole
  <2> QED BY <1>1 DEF SymlinkMetadata, EntryOf
<1>3. Landed(fs, parent) /\ parent \in Reached
  BY CanonicalLands, LandedIsReached
<1>4. entry \in DOMAIN fs /\ parent.err = "" => fs[parent.at].kind = "dir"
  <2> SUFFICES ASSUME entry \in DOMAIN fs PROVE fs[parent.at].kind = "dir"
    OBVIOUS
  <2>1. parent.at \in Seq(STRING)
    <3>1. Seq(Name) \subseteq Seq(STRING)
      BY SeqMonotonic, Name \subseteq STRING DEF Name
    <3> HIDE DEF parent
    <3> QED BY <3>1, <1>3 DEF Reached
  <2>2. entry # <<>> /\ Front(entry) = parent.at
    <3>1. \A q \in Seq(STRING), e \in STRING : Append(q, e) # <<>> /\ Front(Append(q, e)) = q
      BY FrontOfAppend
    <3> HIDE DEF parent
    <3> QED BY <2>1, <3>1
  <2> QED BY <2>2, TreeFacts
<1>5. [Found(entry) EXCEPT !.kind = fs[entry].kind] = [err |-> "", at |-> entry, kind |-> fs[entry].kind]
  <2> DEFINE k == fs[entry].kind
  <2>1. \A e, l, j : [[err |-> e, at |-> l, kind |-> e] EXCEPT !.kind = j] = [err |-> e, at |-> l, kind |-> j]
    BY Z3
  <2> HIDE DEF entry, k
  <2>2. [Found(entry) EXCEPT !.kind = k] = [err |-> "", at |-> entry, kind |-> k]
    BY <2>1 DEF Found
  <2> QED BY <2>2 DEF k
<1>6. entry \in DOMAIN fs => [err |-> "", at |-> entry, kind |-> fs[entry].kind] \in Reached
  <2>1. entry \in DOMAIN fs => entry \in Seq(Name) /\ fs[entry].kind \in {"dir", "file", "link"}
    BY TreeFacts DEF Inode
  <2> HIDE DEF entry
  <2> QED BY <2>1, ReachedRecords
<1>7. \A e \in {"ENOTDIR", "ENOENT"} : Refuse(e) \in Reached /\ Refuse(e).err = e
  BY ReachedRecords DEF Refuse
<1> HIDE DEF seen, entry, parent, whole
<1>8. seen \in Reached
  BY <1>2, <1>3, <1>5, <1>6, <1>7
<1>9. parent.err # "" => seen = parent
  BY <1>2
<1>r. \A e, l, k : LET r == [err |-> e, at |-> l, kind |-> k] IN r.err = e /\ r.at = l /\ r.kind = k
  OBVIOUS
<1>10. parent.err = "" /\ entry \in DOMAIN fs =>
         seen.err = "" /\ seen.at = entry /\ seen.kind = fs[entry].kind
  <2> DEFINE none == ""
  <2>1. parent.err = none /\ entry \in DOMAIN fs => seen = [err |-> none, at |-> entry, kind |-> fs[entry].kind]
    BY <1>2, <1>4, <1>5
  <2> HIDE DEF none
  <2>2. parent.err = none /\ entry \in DOMAIN fs =>
           seen.err = none /\ seen.at = entry /\ seen.kind = fs[entry].kind
    BY <2>1, <1>r
  <2> QED BY <2>2 DEF none
<1>11. parent.err = "" /\ entry \notin DOMAIN fs => seen \in {Refuse("ENOENT"), Refuse("ENOTDIR")}
  BY <1>2
<1>12. parent.err = "" /\ seen.err = "ENOENT" => entry \notin DOMAIN fs
  <2> SUFFICES ASSUME parent.err = "", entry \in DOMAIN fs PROVE seen.err # "ENOENT"
    OBVIOUS
  <2> QED BY <1>10
<1> QED BY <1>8, <1>9, <1>10, <1>11, <1>12 DEF seen, entry, parent, whole

(* The step of a safe join, and its walk.                                 *)
EnterSafely(fs, root, reached, part) ==
  LET candidate == Append(reached.at, part)
      seen      == SymlinkMetadata(fs, candidate)
      resolved  == Canonicalize(fs, candidate)
  IN  IF reached.err # "" THEN reached
      ELSE IF seen.err = "ENOENT" THEN Found(candidate)
      ELSE IF seen.err # "" THEN seen
      ELSE IF resolved.err # "" THEN resolved
      ELSE IF Inside(root.at, resolved.at) THEN resolved
      ELSE Refuse("escape")

EnterAll(fs, base, seq) ==
  LET Enter(reached, part) == EnterSafely(fs, Canonicalize(fs, base), reached, part)
  IN  FoldLeft(Enter, Canonicalize(fs, base), seq)

(* st is that walk, prefix by prefix.                                     *)
Entering(st, fs, base, seq) ==
  /\ st[0] = Canonicalize(fs, base)
  /\ \A i \in 0 .. Len(seq) - 1 : st[i + 1] = EnterSafely(fs, Canonicalize(fs, base), st[i], seq[i + 1])

(* The walk of safe_join_no_symlink_escape, step by step.                 *)
LEMMA EnterAllSteps ==
  ASSUME NEW fs, FileTree(fs), NEW base \in Seq(STRING), NEW seq \in Seq(Name)
  PROVE  \E st \in [0 .. Len(seq) -> Reached] :
            Entering(st, fs, base, seq) /\ EnterAll(fs, base, seq) = st[Len(seq)]
PROOF
<1> DEFINE Op(x, y) == EnterSafely(fs, Canonicalize(fs, base), x, y)
           op == [p \in Reached \X Name |-> Op(p[1], p[2])]
           P(h) == h = [s \in SUBSET DOMAIN seq |->
                          IF s = {} THEN Canonicalize(fs, base) ELSE Op(h[s \ {Max(s)}], seq[Max(s)])]
           g == CHOOSE h : P(h)
<1>1. (\A x \in Reached, y \in Name : Op(x, y) \in Reached) /\ Canonicalize(fs, base) \in Reached
  <2>1. Canonicalize(fs, base) \in Reached
    BY CanonicalLands, LandedIsReached
  <2>2. ASSUME NEW x \in Reached, NEW y \in Name PROVE Op(x, y) \in Reached
    <3> DEFINE candidate == Append(x.at, y)
               seen == SymlinkMetadata(fs, candidate)
               resolved == Canonicalize(fs, candidate)
    <3>1. x.at \in Seq(STRING) /\ x.at \in Seq(Name) /\ candidate \in Seq(Name) /\ candidate \in Seq(STRING)
      <4>1. Seq(Name) \subseteq Seq(STRING)
        BY SeqMonotonic, Name \subseteq STRING DEF Name
      <4>2. x.at \in Seq(Name)
        BY DEF Reached
      <4>3. candidate \in Seq(Name)
        BY <4>2, AppendProperties
      <4> QED BY <4>1, <4>2, <4>3
    <3>2. seen \in Reached
      <4>1. y \in STRING
        BY DEF Name
      <4> QED BY <3>1, <4>1, MetadataIs
    <3>3. resolved \in Reached
      BY <3>1, CanonicalLands, LandedIsReached
    <3>4. Found(candidate) \in Reached /\ Refuse("escape") \in Reached
      <4> HIDE DEF candidate
      <4> QED BY <3>1, ReachedRecords
    <3> HIDE DEF seen, resolved, candidate
    <3>5. Op(x, y) \in {x, Found(candidate), seen, resolved, Refuse("escape")}
      BY DEF EnterSafely, seen, resolved, candidate
    <3> HIDE DEF Op
    <3> QED BY <3>2, <3>3, <3>4, <3>5
  <2> HIDE DEF Op
  <2> QED BY <2>1, <2>2
<1>2. op \in [Reached \X Name -> Reached] /\ \A x \in Reached, y \in Name : op[<<x, y>>] = Op(x, y)
  <2> HIDE DEF Op
  <2> QED BY <1>1
<1>3. P(g)
  <2>1. PICK f \in [SUBSET DOMAIN seq -> Reached] : Folds(f, op, Canonicalize(fs, base), seq)
    <3> HIDE DEF op
    <3> QED BY <1>1, <1>2, FoldDefined
  <2>2. \A s \in SUBSET DOMAIN seq : s # {} => f[s \ {Max(s)}] \in Reached /\ seq[Max(s)] \in Name
    <3> DEFINE A == Reached
    <3> HIDE DEF op, Op, P, A
    <3>1. f \in [SUBSET DOMAIN seq -> A]
      BY DEF A
    <3>2. \A s \in SUBSET DOMAIN seq : s # {} => f[s \ {Max(s)}] \in A /\ seq[Max(s)] \in Name
      BY <3>1, NextOfFold, ZenonT(60)
    <3> QED BY <3>2 DEF A
  <2>3. P(f)
    <3> HIDE DEF op, Op
    <3> QED BY <2>1, <2>2, <1>2 DEF Folds
  <2> HIDE DEF P
  <2> QED BY <2>3
<1>4. EnterAll(fs, base, seq) = g[DOMAIN seq]
  BY DEF EnterAll, FoldLeft, MapThenFoldSet
<1> HIDE DEF g
<1>5. PICK st \in [0 .. Len(seq) -> Reached] : Steps(st, op, Canonicalize(fs, base), seq, g[DOMAIN seq])
  <2>1. g[{}] = Canonicalize(fs, base)
    <3> HIDE DEF Op
    <3> QED BY <1>3
  <2>2. \A s \in SUBSET DOMAIN seq :
           s # {} /\ g[s \ {Max(s)}] \in Reached /\ seq[Max(s)] \in Name => g[s] = op[<<g[s \ {Max(s)}], seq[Max(s)]>>]
    <3> HIDE DEF op, Op
    <3> QED BY <1>3, <1>2, ZenonT(60)
  <2> HIDE DEF op, P
  <2> QED BY <2>1, <2>2, <1>1, <1>2, FoldPrefixes
<1>6. \A i \in 0 .. Len(seq) - 1 : st[i + 1] = Op(st[i], seq[i + 1])
  <2> HIDE DEF op, Op, P
  <2> QED BY <1>2, <1>5, NextOfPrefix DEF Steps
<1> HIDE DEF op, P
<1> QED BY <1>4, <1>5, <1>6 DEF Steps, Entering

(* What is appended to a second part is appended to the whole.            *)
AppendsLast(B) ==
  \A p, q \in Seq(B), e \in B : Append(p \o q, e) = p \o Append(q, e)

(* So it is over every set.                                               *)
LEMMA AppendAfter ==
  ASSUME NEW B
  PROVE  AppendsLast(B)
PROOF
<1> SUFFICES ASSUME NEW p \in Seq(B), NEW q \in Seq(B), NEW e \in B
             PROVE  Append(p \o q, e) = p \o Append(q, e)
  BY DEF AppendsLast
<1> DEFINE one == <<e>>
<1>1. one \in Seq(B)
  OBVIOUS
<1>2. Append(p \o q, e) = (p \o q) \o one /\ Append(q, e) = q \o one
  <2>1. p \o q \in Seq(B)
    OBVIOUS
  <2> QED BY <2>1, AppendIsConcat
<1> HIDE DEF one
<1>3. (p \o q) \o one = p \o (q \o one)
  BY <1>1, ConcatAssociative
<1> QED BY <1>2, <1>3

(* Without leaves only what is not dropped.                               *)
LEMMA WithoutKeeps ==
  ASSUME NEW B, NEW dropped, NEW seq \in Seq(B)
  PROVE  Without(seq, dropped) \in Seq(B \ dropped)
PROOF
<1>0. PICK st \in [0 .. Len(seq) -> Seq(B)] : Keeping(st, seq, dropped) /\ Without(seq, dropped) = st[Len(seq)]
  <2>1. Stepwise(B, dropped, seq)
    BY WithoutSteps
  <2> QED BY <2>1 DEF Stepwise
<1>1. /\ st[0] = <<>>
      /\ \A i \in 0 .. Len(seq) - 1 :
           st[i + 1] = IF seq[i + 1] \in dropped THEN st[i] ELSE Append(st[i], seq[i + 1])
      /\ Without(seq, dropped) = st[Len(seq)]
  BY <1>0 DEF Keeping
<1>2. PICK n \in Nat : n = Len(seq) /\ \A i \in 1 .. n : seq[i] \in B
  OBVIOUS
<1> DEFINE T == {i \in Nat : i <= n => st[i] \in Seq(B \ dropped)}
<1>3. 0 \in T
  BY <1>1
<1>4. ASSUME NEW i \in Nat, i \in T PROVE i + 1 \in T
  <2> SUFFICES ASSUME i + 1 <= n PROVE st[i + 1] \in Seq(B \ dropped)
    OBVIOUS
  <2>1. st[i] \in Seq(B \ dropped) /\ seq[i + 1] \in B
    BY <1>4, <1>2
  <2>2. st[i + 1] = IF seq[i + 1] \in dropped THEN st[i] ELSE Append(st[i], seq[i + 1])
    BY <1>1, <1>2
  <2>3. \A q \in Seq(B \ dropped), e \in B \ dropped : Append(q, e) \in Seq(B \ dropped)
    OBVIOUS
  <2> QED BY <2>1, <2>2, <2>3
<1>5. n \in T
  <2> HIDE DEF T
  <2> QED BY <1>3, <1>4, Induction
<1> QED BY <1>1, <1>2, <1>5

(* A prefix grown by one element.                                         *)
LEMMA GrowsByOne ==
  ASSUME NEW S, NEW q \in Seq(S), NEW i \in 0 .. Len(q) - 1
  PROVE  SubSeq(q, 1, i + 1) = Append(SubSeq(q, 1, i), q[i + 1]) /\ q[i + 1] \in S
         /\ SubSeq(q, 1, i) \in Seq(S) /\ SubSeq(q, 1, i + 1) \in Seq(S)
PROOF
<1>1. SubSeq(q, 1, i + 1) = Append(SubSeq(q, 1, i), q[i + 1])
  OBVIOUS
<1>2. q[i + 1] \in S /\ SubSeq(q, 1, i) \in Seq(S) /\ SubSeq(q, 1, i + 1) \in Seq(S)
  OBVIOUS
<1> QED BY <1>1, <1>2

(* Without changes nothing where nothing is dropped.                      *)
LEMMA WithoutNone ==
  ASSUME NEW B, NEW dropped, NEW seq \in Seq(B), \A i \in DOMAIN seq : seq[i] \notin dropped
  PROVE  Without(seq, dropped) = seq
PROOF
<1>0. PICK st \in [0 .. Len(seq) -> Seq(B)] : Keeping(st, seq, dropped) /\ Without(seq, dropped) = st[Len(seq)]
  <2>1. Stepwise(B, dropped, seq)
    BY WithoutSteps
  <2> QED BY <2>1 DEF Stepwise
<1>1. /\ st[0] = <<>>
      /\ \A i \in 0 .. Len(seq) - 1 :
           st[i + 1] = IF seq[i + 1] \in dropped THEN st[i] ELSE Append(st[i], seq[i + 1])
      /\ Without(seq, dropped) = st[Len(seq)]
  BY <1>0 DEF Keeping
<1>2. PICK n \in Nat : n = Len(seq) /\ DOMAIN seq = 1 .. n
  OBVIOUS
<1> DEFINE T == {i \in Nat : i <= n => st[i] = SubSeq(seq, 1, i)}
<1>3. 0 \in T
  BY <1>1
<1>4. ASSUME NEW i \in Nat, i \in T PROVE i + 1 \in T
  <2> SUFFICES ASSUME i + 1 <= n PROVE st[i + 1] = SubSeq(seq, 1, i + 1)
    OBVIOUS
  <2>1. st[i] = SubSeq(seq, 1, i) /\ i \in 0 .. Len(seq) - 1 /\ i + 1 \in DOMAIN seq
    BY <1>4, <1>2
  <2>2. st[i + 1] = Append(st[i], seq[i + 1])
    BY <1>1, <2>1
  <2> QED BY <2>1, <2>2, GrowsByOne
<1>5. n \in T
  <2> HIDE DEF T
  <2> QED BY <1>3, <1>4, Induction
<1>6. SubSeq(seq, 1, Len(seq)) = seq
  BY SubSeqFull
<1> QED BY <1>1, <1>2, <1>5, <1>6

(* A last part that is not dropped stays the last.                        *)
LEMMA WithoutLast ==
  ASSUME NEW B, NEW dropped, NEW seq \in Seq(B), seq # <<>>, Last(seq) \notin dropped
  PROVE  Without(seq, dropped) # <<>> /\ Last(Without(seq, dropped)) = Last(seq)
PROOF
<1>0. PICK st \in [0 .. Len(seq) -> Seq(B)] : Keeping(st, seq, dropped) /\ Without(seq, dropped) = st[Len(seq)]
  <2>1. Stepwise(B, dropped, seq)
    BY WithoutSteps, SMTT(60)
  <2> QED BY <2>1 DEF Stepwise
<1>1. /\ st[0] = <<>>
      /\ \A i \in 0 .. Len(seq) - 1 :
           st[i + 1] = IF seq[i + 1] \in dropped THEN st[i] ELSE Append(st[i], seq[i + 1])
      /\ Without(seq, dropped) = st[Len(seq)]
  BY <1>0, SMTT(60) DEF Keeping
<1>2. PICK i \in Nat : Len(seq) = i + 1
  <2>1. Len(seq) - 1 \in Nat /\ Len(seq) = (Len(seq) - 1) + 1
    OBVIOUS
  <2> QED BY <2>1
<1>3. i \in 0 .. Len(seq) - 1 /\ Last(seq) = seq[i + 1] /\ i \in 0 .. Len(seq)
  BY <1>2 DEF Last
<1>4. Without(seq, dropped) = Append(st[i], seq[i + 1])
  BY <1>1, <1>2, <1>3
<1>5. st[i] \in Seq(B) /\ seq[i + 1] \in B
  BY <1>3, <1>1, GrowsByOne
<1>6. \A q \in Seq(B), e \in B : Append(q, e) # <<>> /\ Last(Append(q, e)) = e
  BY FrontOfAppend
<1> QED BY <1>3, <1>4, <1>5, <1>6

(* Without, from the front of a sequence.                                 *)
LEMMA WithoutHead ==
  ASSUME NEW B, NEW dropped, NEW seq \in Seq(B), seq # <<>>
  PROVE  Without(seq, dropped) =
           IF Head(seq) \in dropped THEN Without(Tail(seq), dropped)
           ELSE <<Head(seq)>> \o Without(Tail(seq), dropped)
PROOF
<1>0. PICK st \in [0 .. Len(seq) -> Seq(B)] : Keeping(st, seq, dropped) /\ Without(seq, dropped) = st[Len(seq)]
  <2>1. Stepwise(B, dropped, seq)
    BY WithoutSteps
  <2> QED BY <2>1 DEF Stepwise
<1>1. /\ st[0] = <<>>
      /\ \A i \in 0 .. Len(seq) - 1 :
           st[i + 1] = IF seq[i + 1] \in dropped THEN st[i] ELSE Append(st[i], seq[i + 1])
      /\ Without(seq, dropped) = st[Len(seq)]
  BY <1>0 DEF Keeping
<1>a. AppendsLast(B)
  BY AppendAfter
<1> DEFINE rest == Tail(seq)
<1>2. PICK n \in Nat : n = Len(rest) /\ Len(seq) = n + 1 /\ rest \in Seq(B) /\ Head(seq) \in B
                       /\ \A i \in 1 .. n : rest[i] = seq[i + 1] /\ rest[i] \in B
  <2>1. rest \in Seq(B) /\ Head(seq) \in B /\ Len(rest) = Len(seq) - 1 /\ Len(rest) \in Nat /\ Len(seq) \in Nat
    BY HeadTailProperties
  <2>2. \A i \in 1 .. Len(rest) : rest[i] = seq[i + 1]
    OBVIOUS
  <2>3. \A i \in 1 .. Len(rest) : rest[i] \in B
    BY <2>1
  <2> HIDE DEF rest
  <2> QED BY <2>1, <2>2, <2>3
<1>h. seq[1] = Head(seq)
  OBVIOUS
<1> HIDE DEF rest
<1>t. PICK tt \in [0 .. Len(rest) -> Seq(B)] : Keeping(tt, rest, dropped) /\ Without(rest, dropped) = tt[Len(rest)]
  <2>1. rest \in Seq(B)
    BY <1>2
  <2>2. Stepwise(B, dropped, rest)
    BY <2>1, WithoutSteps
  <2> QED BY <2>2 DEF Stepwise
<1>3. /\ tt[0] = <<>>
      /\ \A i \in 0 .. Len(rest) - 1 :
           tt[i + 1] = IF rest[i + 1] \in dropped THEN tt[i] ELSE Append(tt[i], rest[i + 1])
      /\ Without(rest, dropped) = tt[Len(rest)]
  BY <1>t DEF Keeping
<1> DEFINE pre == IF Head(seq) \in dropped THEN <<>> ELSE <<Head(seq)>>
           T == {i \in Nat : i <= n => st[i + 1] = pre \o tt[i]}
<1>4. pre \in Seq(B)
  BY <1>2
<1>5. 0 \in T
  <2>0. 0 \in 0 .. Len(seq) - 1 /\ 0 + 1 = 1
    BY <1>2
  <2>1. st[1] = IF seq[1] \in dropped THEN st[0] ELSE Append(st[0], seq[1])
    BY <1>1, <2>0
  <2>2. st[1] = pre
    <3>1. Append(<<>>, Head(seq)) = <<Head(seq)>>
      OBVIOUS
    <3> QED BY <2>1, <1>1, <1>h, <3>1
  <2>3. pre \o <<>> = pre
    <3> HIDE DEF pre
    <3> QED BY <1>4
  <2>4. st[1] = pre \o tt[0]
    BY <2>2, <2>3, <1>3
  <2> HIDE DEF pre
  <2> QED BY <2>4, <2>0
<1>6. ASSUME NEW i \in Nat, i \in T PROVE i + 1 \in T
  <2> SUFFICES ASSUME i + 1 <= n PROVE st[(i + 1) + 1] = pre \o tt[i + 1]
    OBVIOUS
  <2>1. st[i + 1] = pre \o tt[i] /\ i + 1 \in 0 .. Len(seq) - 1 /\ i \in 0 .. Len(rest) - 1 /\ i \in 0 .. Len(rest)
    <3> HIDE DEF pre
    <3>1. i <= n /\ i + 1 \in 0 .. n /\ i \in 0 .. n - 1 /\ i \in 0 .. n
      OBVIOUS
    <3>2. st[i + 1] = pre \o tt[i]
      BY <3>1, <1>6
    <3> QED BY <3>1, <3>2, <1>2
  <2>2. rest[i + 1] = seq[(i + 1) + 1] /\ rest[i + 1] \in B
    BY <1>2
  <2>3. st[(i + 1) + 1] = IF rest[i + 1] \in dropped THEN st[i + 1] ELSE Append(st[i + 1], rest[i + 1])
    BY <1>1, <2>1, <2>2
  <2>4. tt[i + 1] = IF rest[i + 1] \in dropped THEN tt[i] ELSE Append(tt[i], rest[i + 1])
    BY <1>3, <2>1
  <2>6. tt[i] \in Seq(B)
    BY <2>1, <1>3
  <2> HIDE DEF pre
  <2>5. Append(pre \o tt[i], rest[i + 1]) = pre \o Append(tt[i], rest[i + 1])
    BY <1>a, <1>4, <2>2, <2>6 DEF AppendsLast
  <2>7. CASE rest[i + 1] \in dropped
    BY <2>1, <2>3, <2>4, <2>7
  <2>8. CASE rest[i + 1] \notin dropped
    BY <2>1, <2>3, <2>4, <2>5, <2>8
  <2> QED BY <2>7, <2>8
<1>7. n \in T
  <2> HIDE DEF T
  <2> QED BY <1>5, <1>6, Induction
<1>8. Without(seq, dropped) = pre \o Without(rest, dropped)
  BY <1>1, <1>2, <1>3, <1>7
<1>9. Without(rest, dropped) \in Seq(B)
  <2>1. Len(rest) \in 0 .. Len(rest)
    BY <1>2
  <2> QED BY <2>1, <1>3
<1> QED BY <1>8, <1>9 DEF rest

(* Locations are paths.                                                   *)
LEMMA NamesAreStrings == Seq(Name) \subseteq Seq(STRING)
PROOF
  BY SeqMonotonic, Name \subseteq STRING DEF Name

(* A path ensure_safe_relative_path accepts consists of names, which      *)
(* Components and Normals leave alone (core/path.rs).                     *)
LEMMA SafePathIsNames ==
  ASSUME NEW path \in Seq(STRING), EnsureSafeRelativePath(path)
  PROVE  Components(path) = path /\ Normals(path) = path /\ path \in Seq(Name)
PROOF
<1>1. PICK n \in Nat : n = Len(path) /\ DOMAIN path = 1 .. n
  OBVIOUS
<1>2. \A i \in DOMAIN path : path[i] \notin {"", ".", ".."}
  BY DEF EnsureSafeRelativePath
<1>3. Without(path, {"", "."}) = path /\ Normals(path) = path
  <2>1. \A i \in DOMAIN path : path[i] \notin {"", "."}
    BY <1>2
  <2>2. Without(path, {"", "."}) = path
    BY <2>1, WithoutNone
  <2>3. Without(path, {"", ".", ".."}) = path
    BY <1>2, WithoutNone
  <2> QED BY <2>2, <2>3 DEF Normals
<1>4. ~Absolute(path)
  <2> SUFFICES ASSUME Absolute(path) PROVE FALSE
    OBVIOUS
  <2>1. Len(path) > 1 /\ path[1] = ""
    BY DEF Absolute
  <2>2. Len(path) > 1 => 1 \in DOMAIN path
    BY <1>1
  <2> QED BY <2>1, <2>2, <1>2
<1>5. ~IsPrefix(<<".">>, path)
  <2> SUFFICES ASSUME IsPrefix(<<".">>, path) PROVE FALSE
    OBVIOUS
  <2>0. ASSUME NEW e PROVE Len(<<e>>) = 1 /\ SubSeq(<<e>>, 1, 1) = <<e>> /\ <<e>>[1] = e
    <3>1. <<e>> \in Seq({e}) /\ Len(<<e>>) = 1
      OBVIOUS
    <3>2. SubSeq(<<e>>, 1, Len(<<e>>)) = <<e>>
      BY <3>1, SubSeqFull
    <3> QED BY <3>1, <3>2
  <2>1. Len(<<".">>) = 1 /\ SubSeq(<<".">>, 1, 1) = <<".">> /\ <<".">>[1] = "."
    BY <2>0
  <2>2. 1 <= Len(path) /\ SubSeq(path, 1, 1) = <<".">>
    BY <2>1 DEF IsPrefix
  <2>3. SubSeq(path, 1, 1)[1] = path[1] /\ 1 \in DOMAIN path
    BY <2>2
  <2>4. path[1] = "."
    BY <2>1, <2>2, <2>3
  <2> QED BY <2>3, <2>4, <1>2
<1>6. Components(path) = <<>> \o path
  BY <1>3, <1>4, <1>5 DEF Components
<1>7. Components(path) = path
  BY <1>6
<1>8. \A i \in 1 .. n : path[i] \in Name
  <2>1. \A i \in DOMAIN path : path[i] \notin Special
    BY <1>7 DEF EnsureSafeRelativePath
  <2>2. \A i \in 1 .. n : path[i] \in STRING
    BY <1>1
  <2> QED BY <2>1, <2>2, <1>1, <1>2 DEF Special, Name
<1>9. path \in Seq(Name)
  BY <1>8, <1>1
<1> QED BY <1>3, <1>7, <1>9

(* The fields of an answer.                                               *)
LEMMA ResultFields ==
  /\ \A l : Found(l).err = "" /\ Found(l).at = l /\ Found(l).kind = ""
  /\ \A e : Refuse(e).err = e /\ Refuse(e).kind = ""
PROOF
  BY DEF Found, Refuse

(* A location is inside itself, and what lies in it inside what it is     *)
(* inside of.                                                             *)
LEMMA InsideFacts ==
  ASSUME NEW root \in Seq(Name), NEW at \in Seq(Name), NEW part \in Name
  PROVE  Inside(at, at) /\ (Inside(root, at) => Inside(root, Append(at, part)))
PROOF
<1>1. Inside(at, at)
  BY DEF Inside, IsPrefix
<1>2. ASSUME Inside(root, at) PROVE Inside(root, Append(at, part))
  <2>1. Len(root) <= Len(at) /\ SubSeq(root, 1, Len(root)) = SubSeq(at, 1, Len(root)) /\ Len(root) \in Nat /\ Len(at) \in Nat
    BY <1>2 DEF Inside, IsPrefix
  <2>2. Len(Append(at, part)) = Len(at) + 1
    OBVIOUS
  <2>3. \A k \in Nat : k <= Len(at) => SubSeq(Append(at, part), 1, k) = SubSeq(at, 1, k)
    OBVIOUS
  <2>4. Len(root) <= Len(Append(at, part))
    BY <2>1, <2>2
  <2> QED BY <2>1, <2>3, <2>4 DEF Inside, IsPrefix
<1> QED BY <1>1, <1>2

(* Nothing lies below what is not there.                                  *)
LEMMA MissingBelow ==
  ASSUME NEW fs, FileTree(fs), NEW l \in Seq(Name), l \notin DOMAIN fs, NEW part \in Name
  PROVE  Append(l, part) \notin DOMAIN fs
PROOF
<1>1. Append(l, part) # <<>> /\ Front(Append(l, part)) = l
  BY FrontOfAppend
<1> QED BY <1>1, TreeFacts

(* A location below one without links, itself no link.                    *)
LEMMA StraightAppend ==
  ASSUME NEW fs, FileTree(fs), NEW l, Straight(fs, l), NEW part \in Name,
         Append(l, part) \in DOMAIN fs => fs[Append(l, part)].kind # "link"
  PROVE  Straight(fs, Append(l, part))
PROOF
<1>1. l \in Seq(Name) /\ \A i \in 0 .. Len(l) : SubSeq(l, 1, i) \in DOMAIN fs => fs[SubSeq(l, 1, i)].kind # "link"
  BY DEF Straight
<1> DEFINE next == Append(l, part)
<1>2. next \in Seq(Name) /\ Len(next) = Len(l) + 1 /\ Len(l) \in Nat
  BY <1>1
<1>3. \A i \in 0 .. Len(l) : SubSeq(next, 1, i) = SubSeq(l, 1, i)
  BY <1>1
<1>4. SubSeq(next, 1, Len(l) + 1) = next
  BY <1>2, SubSeqFull
<1>5. \A i \in 0 .. Len(next) : i \in 0 .. Len(l) \/ i = Len(l) + 1
  BY <1>2
<1> HIDE DEF next
<1>6. \A i \in 0 .. Len(next) : SubSeq(next, 1, i) \in DOMAIN fs => fs[SubSeq(next, 1, i)].kind # "link"
  BY <1>1, <1>3, <1>4, <1>5 DEF next
<1> QED BY <1>2, <1>6 DEF Straight, next

(* A location without links on the way, inside a root, is one a write may *)
(* use.                                                                   *)
LEMMA StraightStays ==
  ASSUME NEW fs, FileTree(fs), NEW root, NEW at, Straight(fs, at), Inside(root, at)
  PROVE  StaysInside(fs, root, at)
PROOF
<1>1. at \in Seq(Name) /\ \A i \in 0 .. Len(at) : SubSeq(at, 1, i) \in DOMAIN fs => fs[SubSeq(at, 1, i)].kind # "link"
  BY DEF Straight
<1>2. \A i \in DOMAIN at : at[i] \notin Special
  <2>1. \A i \in DOMAIN at : at[i] \in Name
    BY <1>1
  <2> QED BY <2>1 DEF Name, Special
<1>3. ASSUME NEW i \in 0 .. Len(at), SubSeq(at, 1, i) \in DOMAIN fs PROVE Real(fs, SubSeq(at, 1, i))
  <2>1. Canonicalize(fs, SubSeq(at, 1, i)) = Found(SubSeq(at, 1, i))
    BY <1>1, <1>3, SettledIsReal
  <2> QED BY <2>1, ResultFields DEF Real
<1> QED BY <1>2, <1>3 DEF StaysInside

(* An answer without an error is a location that is there.                *)
LEMMA LandedIsFound ==
  ASSUME NEW fs, NEW r, Landed(fs, r), r.err = ""
  PROVE  r.at \in DOMAIN fs /\ fs[r.at].kind # "link" /\ r = Found(r.at)
PROOF
<1>1. \A e : Refuse(e).err = e
  BY ResultFields
<1> DEFINE none == ""
<1>2. "ENOTDIR" # none /\ "ENOENT" # none /\ "ELOOP" # none /\ r.err = none
  OBVIOUS
<1> HIDE DEF none
<1>3. r # Refuse("ENOTDIR") /\ r # Refuse("ENOENT") /\ r # Refuse("ELOOP")
  BY <1>1, <1>2
<1> QED BY <1>3 DEF Landed

(* A path is resolved through the location its first half leads to.       *)
LEMMA ResolveOn ==
  ASSUME NEW fs, FileTree(fs), NEW path \in Seq(STRING), NEW q \in Seq(STRING)
  PROVE  /\ \A at \in DOMAIN fs : Canonicalize(fs, path) = Found(at) =>
               \E k \in 0 .. MaxLinks : Canonicalize(fs, path \o q) = Walk(fs, at, q, k)
         /\ Canonicalize(fs, path) = Refuse("ELOOP") => Canonicalize(fs, path \o q) = Refuse("ELOOP")
PROOF
<1> DEFINE s == Here(<<>>, path, MaxLinks)
<1>1. s \in Positions(fs) /\ s.at = <<>> /\ s.todo = path /\ s.links = MaxLinks
  BY TreeFacts DEF Positions, Here, MaxLinks
<1>2. WalkFrom(fs, s) = Canonicalize(fs, path)
  BY WalkHere DEF Canonicalize
<1>3. Walk(fs, <<>>, path \o q, MaxLinks) = Canonicalize(fs, path \o q)
  BY DEF Canonicalize
<1>4. \A l : Found(l).at = l /\ Found(l) \notin {Refuse("ENOTDIR"), Refuse("ENOENT"), Refuse("ELOOP")}
  BY DEF Found, Refuse
<1> HIDE DEF s
<1>5. LET whole == Walk(fs, s.at, s.todo \o q, s.links)
          r     == WalkFrom(fs, s)
      IN  \/ whole = r /\ r \in {Refuse("ENOTDIR"), Refuse("ENOENT"), Refuse("ELOOP")}
          \/ /\ r.at \in DOMAIN fs /\ r = Found(r.at)
             /\ \E k \in 0 .. s.links : whole = Walk(fs, r.at, q, k)
  BY <1>1, WalkOn
<1>6. ASSUME NEW at \in DOMAIN fs, Canonicalize(fs, path) = Found(at)
      PROVE  \E k \in 0 .. MaxLinks : Canonicalize(fs, path \o q) = Walk(fs, at, q, k)
  BY <1>1, <1>2, <1>3, <1>4, <1>5, <1>6
<1>7. ASSUME Canonicalize(fs, path) = Refuse("ELOOP") PROVE Canonicalize(fs, path \o q) = Refuse("ELOOP")
  BY <1>1, <1>2, <1>3, <1>4, <1>5, <1>7
<1> QED BY <1>6, <1>7

(* Walking on from a location is resolving the whole, links permitting.    *)
LEMMA NextResolution ==
  ASSUME NEW fs, FileTree(fs), NEW p \in Seq(STRING), NEW part \in STRING, NEW at \in DOMAIN fs,
         Canonicalize(fs, p) \in {Found(at), Refuse("ELOOP")},
         Canonicalize(fs, at) = Found(at),
         Canonicalize(fs, Append(at, part)) # Refuse("ELOOP")
  PROVE  Canonicalize(fs, Append(p, part)) \in {Canonicalize(fs, Append(at, part)), Refuse("ELOOP")}
PROOF
<1> DEFINE q == <<part>>
<1>1. q \in Seq(STRING) /\ at \in Seq(STRING)
  BY TreeFacts
<1>2. Append(p, part) = p \o q /\ Append(at, part) = at \o q
  BY <1>1, AppendIsConcat
<1> HIDE DEF q
<1>3. \A k \in 0 .. MaxLinks : Walk(fs, at, q, k) \in {Walk(fs, at, q, MaxLinks), Refuse("ELOOP")}
  <2> DEFINE t == Here(at, q, MaxLinks)
  <2>1. t \in Positions(fs) /\ t.at = at /\ t.todo = q /\ t.links = MaxLinks
    BY <1>1 DEF Positions, Here, MaxLinks
  <2>2. WalkFrom(fs, t) = Walk(fs, at, q, MaxLinks)
    BY WalkHere
  <2> HIDE DEF t
  <2>3. \A k \in 0 .. t.links : Walk(fs, t.at, t.todo, k) \in {WalkFrom(fs, t), Refuse("ELOOP")}
    BY <2>1, WalkWithFewer
  <2> QED BY <2>1, <2>2, <2>3
<1>4. Canonicalize(fs, at \o q) = Walk(fs, at, q, MaxLinks)
  <2>1. PICK k \in 0 .. MaxLinks : Canonicalize(fs, at \o q) = Walk(fs, at, q, k)
    BY <1>1, ResolveOn
  <2> QED BY <2>1, <1>2, <1>3
<1>5. CASE Canonicalize(fs, p) = Found(at)
  <2>1. PICK k \in 0 .. MaxLinks : Canonicalize(fs, p \o q) = Walk(fs, at, q, k)
    BY <1>1, <1>5, ResolveOn
  <2> QED BY <2>1, <1>2, <1>3, <1>4
<1>6. CASE Canonicalize(fs, p) = Refuse("ELOOP")
  BY <1>1, <1>2, <1>6, ResolveOn
<1> QED BY <1>5, <1>6

(* Sequences of one set, put together.                                    *)
LEMMA SeqFacts ==
  ASSUME NEW S, NEW a \in Seq(S), NEW b \in Seq(S), NEW e \in S
  PROVE  Append(a, e) \in Seq(S) /\ a \o b \in Seq(S) /\ a \o Append(b, e) = Append(a \o b, e)
PROOF
<1>1. a \o b \in Seq(S) /\ <<e>> \in Seq(S) /\ Append(a, e) \in Seq(S)
  OBVIOUS
<1>2. Append(b, e) = b \o <<e>> /\ Append(a \o b, e) = (a \o b) \o <<e>>
  BY <1>1, AppendIsConcat
<1>3. (a \o b) \o <<e>> = a \o (b \o <<e>>)
  BY <1>1, ConcatAssociative
<1> QED BY <1>1, <1>2, <1>3

(* An answer without an error.                                            *)
Fine(r) == r.err = ""

(* One step of the walk of a join, when it accepts the part.              *)
LEMMA EnteredIs ==
  ASSUME NEW fs, NEW root, NEW r, NEW part,
         EnterSafely(fs, root, r, part).err = ""
  PROVE  LET candidate == Append(r.at, part)
             seen      == SymlinkMetadata(fs, candidate)
             resolved  == Canonicalize(fs, candidate)
         IN  /\ r.err = ""
             /\ \/ seen.err = "ENOENT" /\ EnterSafely(fs, root, r, part) = Found(candidate)
                \/ /\ seen.err = "" /\ resolved.err = "" /\ Inside(root.at, resolved.at)
                   /\ EnterSafely(fs, root, r, part) = resolved
PROOF
<1> DEFINE candidate == Append(r.at, part)
           seen      == SymlinkMetadata(fs, candidate)
           resolved  == Canonicalize(fs, candidate)
           none == ""
           new == EnterSafely(fs, root, r, part)
<1>1. new = IF r.err # none THEN r
            ELSE IF seen.err = "ENOENT" THEN Found(candidate)
            ELSE IF seen.err # none THEN seen
            ELSE IF resolved.err # none THEN resolved
            ELSE IF Inside(root.at, resolved.at) THEN resolved
            ELSE Refuse("escape")
  BY DEF EnterSafely
<1>2. "escape" # none /\ new.err = none
  OBVIOUS
<1>3. Refuse("escape").err = "escape"
  BY ResultFields
<1> HIDE DEF none, new, seen, resolved, candidate
<1>4. /\ r.err = none
      /\ \/ seen.err = "ENOENT" /\ new = Found(candidate)
         \/ seen.err = none /\ resolved.err = none /\ Inside(root.at, resolved.at) /\ new = resolved
  BY <1>1, <1>2, <1>3
<1> QED BY <1>4 DEF none, new, seen, resolved, candidate

(* What a location reached so far is known to be.                          *)
SafelyAt(fs, base, walked, r) ==
  r.err = "" =>
    /\ Canonicalize(fs, base).err = ""
    /\ Straight(fs, r.at) /\ Inside(Canonicalize(fs, base).at, r.at)
    /\ r.at \in DOMAIN fs => Canonicalize(fs, base \o walked) \in {Found(r.at), Refuse("ELOOP")}

(* A step of that walk stays safe: it enters real locations only, below   *)
(* the base.                                                              *)
LEMMA EnteringIsSafe ==
  ASSUME NEW fs, FileTree(fs), NEW base \in Seq(STRING), NEW walked \in Seq(STRING),
         NEW part \in Name, NEW r, SafelyAt(fs, base, walked, r)
  PROVE  SafelyAt(fs, base, Append(walked, part), EnterSafely(fs, Canonicalize(fs, base), r, part))
PROOF
<1> DEFINE root      == Canonicalize(fs, base)
           candidate == Append(r.at, part)
           seen      == SymlinkMetadata(fs, candidate)
           resolved  == Canonicalize(fs, candidate)
           new       == EnterSafely(fs, root, r, part)
           whole     == Canonicalize(fs, base \o Append(walked, part))
<1> SUFFICES ASSUME Fine(new)
             PROVE  /\ Fine(root) /\ Straight(fs, new.at) /\ Inside(root.at, new.at)
                    /\ new.at \in DOMAIN fs => whole \in {Found(new.at), Refuse("ELOOP")}
  BY DEF SafelyAt, Fine
<1>1. /\ Fine(r)
      /\ \/ seen.err = "ENOENT" /\ new = Found(candidate)
         \/ Fine(seen) /\ Fine(resolved) /\ Inside(root.at, resolved.at) /\ new = resolved
  BY EnteredIs DEF Fine
<1>2. /\ Fine(root) /\ Straight(fs, r.at) /\ Inside(root.at, r.at)
      /\ r.at \in DOMAIN fs => Canonicalize(fs, base \o walked) \in {Found(r.at), Refuse("ELOOP")}
  BY <1>1 DEF SafelyAt, Fine
<1>3. r.at \in Seq(Name) /\ r.at \in Seq(STRING) /\ part \in STRING /\ candidate \in Seq(STRING)
  <2>1. r.at \in Seq(Name)
    BY <1>2 DEF Straight
  <2>2. r.at \in Seq(STRING) /\ part \in STRING
    BY <2>1, NamesAreStrings DEF Name
  <2>3. \A q \in Seq(STRING), e \in STRING : Append(q, e) \in Seq(STRING)
    BY SeqFacts
  <2> QED BY <2>1, <2>2, <2>3
<1>4. root.at \in Seq(Name)
  <2>1. Landed(fs, root)
    BY CanonicalLands
  <2>2. root.at \in DOMAIN fs
    BY <2>1, <1>2, LandedIsFound DEF Fine
  <2> QED BY <2>2, TreeFacts
<1>5. base \o Append(walked, part) = Append(base \o walked, part) /\ base \o walked \in Seq(STRING)
  <2>1. base \o Append(walked, part) = Append(base \o walked, part)
    BY <1>3, SeqFacts
  <2>2. \A a, b \in Seq(STRING) : a \o b \in Seq(STRING)
    OBVIOUS
  <2> QED BY <2>1, <2>2, <1>3
<1> HIDE DEF new, whole, root, seen, resolved
<1>6. ASSUME seen.err = "ENOENT", new = Found(candidate)
      PROVE  candidate \notin DOMAIN fs
  <2>1. CASE r.at \in DOMAIN fs
    <3>1. fs[r.at].kind # "link"
      <4>1. Len(r.at) \in 0 .. Len(r.at) /\ SubSeq(r.at, 1, Len(r.at)) = r.at
        BY <1>3, SubSeqFull
      <4> QED BY <4>1, <1>2, <2>1 DEF Straight
    <3>2. Canonicalize(fs, r.at) = Found(r.at)
      BY <2>1, <3>1, SettledIsReal
    <3>3. LET parent == Canonicalize(fs, r.at)
              entry  == Append(parent.at, part)
              was    == SymlinkMetadata(fs, Append(r.at, part))
          IN  parent.err = "" /\ was.err = "ENOENT" => entry \notin DOMAIN fs
      BY <1>3, MetadataIs
    <3> QED BY <3>2, <3>3, <1>6, ResultFields DEF seen
  <2>2. CASE r.at \notin DOMAIN fs
    BY <2>2, <1>3, MissingBelow
  <2> QED BY <2>1, <2>2
<1>7. CASE seen.err = "ENOENT" /\ new = Found(candidate)
  <2>1. candidate \notin DOMAIN fs /\ new.at = candidate
    BY <1>6, <1>7, ResultFields
  <2>2. Straight(fs, candidate)
    BY <2>1, <1>2, StraightAppend
  <2>3. Inside(root.at, candidate)
    BY <1>2, <1>3, <1>4, InsideFacts
  <2> QED BY <2>1, <2>2, <2>3, <1>2
<1>8. CASE Fine(seen) /\ Fine(resolved) /\ Inside(root.at, resolved.at) /\ new = resolved
  <2>1. Landed(fs, resolved)
    BY <1>3, CanonicalLands DEF resolved
  <2>2. resolved.at \in DOMAIN fs /\ fs[resolved.at].kind # "link" /\ resolved = Found(resolved.at)
    BY <2>1, <1>8, LandedIsFound DEF Fine
  <2>3. Straight(fs, resolved.at)
    BY <2>2, SettledIsReal
  <2>4. r.at \in DOMAIN fs
    <3> SUFFICES ASSUME r.at \notin DOMAIN fs PROVE FALSE
      OBVIOUS
    <3>1. candidate \notin DOMAIN fs /\ Straight(fs, candidate)
      BY <1>2, <1>3, MissingBelow, StraightAppend
    <3>2. resolved \in {Refuse("ENOENT"), Refuse("ENOTDIR")}
      BY <3>1, StraightIsMissing DEF resolved
    <3>3. resolved.err \in {"ENOENT", "ENOTDIR"}
      <4>1. \A e : Refuse(e).err = e
        BY ResultFields
      <4> QED BY <3>2, <4>1
    <3>4. "" \notin {"ENOENT", "ENOTDIR"}
      OBVIOUS
    <3> QED BY <3>3, <3>4, <1>8 DEF Fine
  <2>5. Canonicalize(fs, r.at) = Found(r.at)
    <3>1. Len(r.at) \in 0 .. Len(r.at) /\ SubSeq(r.at, 1, Len(r.at)) = r.at
      BY <1>3, SubSeqFull
    <3>2. fs[r.at].kind # "link"
      BY <3>1, <2>4, <1>2 DEF Straight
    <3> QED BY <3>2, <2>4, SettledIsReal
  <2>6. resolved # Refuse("ELOOP")
    <3> DEFINE none == ""
    <3>1. "ELOOP" # none /\ resolved.err = none
      BY <1>8 DEF Fine
    <3>2. Refuse("ELOOP").err = "ELOOP"
      BY ResultFields
    <3> HIDE DEF none
    <3> QED BY <3>1, <3>2
  <2>7. Canonicalize(fs, Append(base \o walked, part)) \in {Canonicalize(fs, Append(r.at, part)), Refuse("ELOOP")}
    BY <1>2, <1>3, <1>5, <2>4, <2>5, <2>6, NextResolution DEF resolved
  <2>8. whole \in {Found(resolved.at), Refuse("ELOOP")}
    BY <2>7, <2>2, <1>5 DEF whole, resolved
  <2> QED BY <1>8, <1>2, <2>3, <2>8
<1> QED BY <1>1, <1>7, <1>8 DEF new, whole, root, seen, resolved

(* Whatever tree, base and path: what a join accepts lies inside the      *)
(* base, has no link above it, and is the file the system finds           *)
(* (core/path.rs, safe_join_no_symlink_escape).                           *)
LEMMA SafeJoins ==
  ASSUME NEW fs, FileTree(fs), NEW base \in Seq(STRING), NEW path \in Seq(STRING)
  PROVE  SafeJoinIsInside(fs, base, path)
PROOF
<1> DEFINE joined == SafeJoinNoSymlinkEscape(fs, base, path)
           whole  == Canonicalize(fs, base \o path)
           root   == Canonicalize(fs, base)
<1> SUFFICES ASSUME Fine(joined)
             PROVE  /\ StaysInside(fs, root.at, joined.at)
                    /\ joined.at \in DOMAIN fs => whole \in {Found(joined.at), Refuse("ELOOP")}
  BY DEF SafeJoinIsInside, Fine
<1>1. EnsureSafeRelativePath(path)
  <2> SUFFICES ASSUME ~EnsureSafeRelativePath(path) PROVE FALSE
    OBVIOUS
  <2>1. joined = Refuse("unsafe")
    BY DEF SafeJoinNoSymlinkEscape
  <2>2. Refuse("unsafe").err = "unsafe"
    BY ResultFields
  <2> HIDE DEF joined
  <2>3. joined.err = "unsafe"
    BY <2>1, <2>2
  <2> QED BY <2>3 DEF Fine
<1>2. Components(path) = path /\ path \in Seq(Name)
  BY <1>1, SafePathIsNames
<1>3. joined = EnterAll(fs, base, path)
  <2>1. joined = EnterAll(fs, base, Components(path))
    BY <1>1 DEF SafeJoinNoSymlinkEscape, EnterAll, EnterSafely
  <2> QED BY <2>1, <1>2
<1>4. PICK st \in [0 .. Len(path) -> Reached] :
             Entering(st, fs, base, path) /\ EnterAll(fs, base, path) = st[Len(path)]
  BY <1>2, EnterAllSteps
<1>5. PICK n \in Nat : n = Len(path)
  OBVIOUS
<1> DEFINE Safe(i) == SafelyAt(fs, base, SubSeq(path, 1, i), st[i])
           T == {i \in Nat : i <= n => Safe(i)}
<1>6. 0 \in T
  <2>1. st[0] = root /\ SubSeq(path, 1, 0) = <<>> /\ base \o <<>> = base
    BY <1>4 DEF Entering
  <2>2. SafelyAt(fs, base, <<>>, root)
    <3> SUFFICES ASSUME Fine(root)
                 PROVE  /\ Straight(fs, root.at) /\ Inside(root.at, root.at)
                        /\ Canonicalize(fs, base \o <<>>) \in {Found(root.at), Refuse("ELOOP")}
      BY DEF SafelyAt, Fine
    <3>1. Landed(fs, root)
      BY CanonicalLands
    <3>2. root.at \in DOMAIN fs /\ fs[root.at].kind # "link" /\ root = Found(root.at)
      BY <3>1, LandedIsFound DEF Fine
    <3>3. root.at \in Seq(Name)
      BY <3>2, TreeFacts
    <3>4. Inside(root.at, root.at)
      BY DEF Inside, IsPrefix
    <3>5. Straight(fs, root.at)
      BY <3>2, SettledIsReal
    <3>6. Canonicalize(fs, base \o <<>>) = root
      BY <2>1
    <3> QED BY <3>2, <3>4, <3>5, <3>6
  <2> QED BY <2>1, <2>2
<1>7. ASSUME NEW i \in Nat, i \in T PROVE i + 1 \in T
  <2> SUFFICES ASSUME i + 1 <= n PROVE Safe(i + 1)
    OBVIOUS
  <2>1. Safe(i) /\ i \in 0 .. Len(path) - 1
    <3>1. i <= n /\ i \in 0 .. n - 1
      OBVIOUS
    <3> HIDE DEF Safe
    <3> QED BY <3>1, <1>5, <1>7
  <2>2. st[i + 1] = EnterSafely(fs, root, st[i], path[i + 1])
    BY <1>4, <2>1 DEF Entering
  <2>3. SubSeq(path, 1, i + 1) = Append(SubSeq(path, 1, i), path[i + 1]) /\ path[i + 1] \in Name
        /\ SubSeq(path, 1, i) \in Seq(Name)
    BY <1>2, <2>1, GrowsByOne
  <2>4. SubSeq(path, 1, i) \in Seq(STRING)
    BY <2>3, NamesAreStrings
  <2> QED BY <2>1, <2>2, <2>3, <2>4, EnteringIsSafe
<1>8. Safe(n)
  <2>1. n \in T
    <3> HIDE DEF T
    <3> QED BY <1>6, <1>7, Induction
  <2> HIDE DEF Safe
  <2> QED BY <2>1
<1>9. SafelyAt(fs, base, path, joined)
  <2>1. SubSeq(path, 1, n) = path
    BY <1>5, SubSeqFull
  <2> QED BY <2>1, <1>3, <1>4, <1>5, <1>8
<1>10. /\ Straight(fs, joined.at) /\ Inside(root.at, joined.at)
       /\ joined.at \in DOMAIN fs => whole \in {Found(joined.at), Refuse("ELOOP")}
  BY <1>9 DEF SafelyAt, Fine
<1>11. StaysInside(fs, root.at, joined.at)
  BY <1>10, StraightStays
<1> QED BY <1>10, <1>11

(* The normal components of a path are names.                             *)
LEMMA NormalsAreNames ==
  ASSUME NEW path \in Seq(STRING \ {"/"})
  PROVE  Normals(path) \in Seq(Name) /\ path \in Seq(STRING)
PROOF
<1>1. Normals(path) \in Seq((STRING \ {"/"}) \ {"", ".", ".."})
  BY WithoutKeeps DEF Normals
<1>2. (STRING \ {"/"}) \ {"", ".", ".."} = Name
  BY DEF Name
<1>3. Seq(STRING \ {"/"}) \subseteq Seq(STRING)
  <2>1. STRING \ {"/"} \subseteq STRING
    BY Zenon
  <2> QED BY <2>1, SeqMonotonic
<1> QED BY <1>1, <1>2, <1>3

(* A sequence is its front and its last element.                          *)
LEMMA FrontAndLast ==
  ASSUME NEW S, NEW q \in Seq(S), q # <<>>
  PROVE  Front(q) \in Seq(S) /\ Last(q) \in S /\ q = Append(Front(q), Last(q))
PROOF
<1>1. PICK n \in Nat : Len(q) = n + 1
  <2>1. Len(q) - 1 \in Nat /\ Len(q) = (Len(q) - 1) + 1
    OBVIOUS
  <2> QED BY <2>1
<1>2. n \in 0 .. Len(q) - 1
  BY <1>1
<1>3. SubSeq(q, 1, n + 1) = Append(SubSeq(q, 1, n), q[n + 1]) /\ q[n + 1] \in S /\ SubSeq(q, 1, n) \in Seq(S)
  BY <1>2, GrowsByOne
<1>4. SubSeq(q, 1, n + 1) = q
  BY <1>1, SubSeqFull
<1>5. Front(q) = SubSeq(q, 1, n) /\ Last(q) = q[n + 1]
  BY <1>1 DEF Front, Last
<1> QED BY <1>3, <1>4, <1>5, SMTT(60)

(* A base that lstat takes for a directory is one, reached by its parent.  *)
LEMMA BaseIsDirectory ==
  ASSUME NEW fs, FileTree(fs), NEW base \in Seq(Name), SymlinkMetadata(fs, base).kind = "dir"
  PROVE  /\ base \in DOMAIN fs => fs[base].kind = "dir"
         /\ Canonicalize(fs, base).at \in DOMAIN fs
         /\ fs[Canonicalize(fs, base).at].kind = "dir"
         /\ Canonicalize(fs, base) = Found(Canonicalize(fs, base).at)
PROOF
<1>1. CASE base = <<>>
  <2>1. <<>> \in DOMAIN fs /\ fs[<<>>].kind = "dir"
    BY TreeFacts
  <2>2. Canonicalize(fs, <<>>) = Found(<<>>)
    BY <2>1, SettledIsReal
  <2>3. Found(<<>>).at = <<>>
    BY ResultFields
  <2> QED BY <1>1, <2>1, <2>2, <2>3
<1>2. CASE base # <<>>
  <2> DEFINE f == Front(base)
             e == Last(base)
             parent == Canonicalize(fs, f)
             entry  == Append(parent.at, e)
             seen   == SymlinkMetadata(fs, Append(f, e))
  <2>1. f \in Seq(Name) /\ e \in Name /\ base = Append(f, e) /\ f \in Seq(STRING) /\ e \in STRING
    <3>1. f \in Seq(Name) /\ e \in Name /\ base = Append(f, e)
      BY <1>2, FrontAndLast
    <3> QED BY <3>1, NamesAreStrings DEF Name
  <2> HIDE DEF f, e
  <2>2. /\ ~Fine(parent) => seen = parent
        /\ Fine(parent) /\ entry \in DOMAIN fs => seen.kind = fs[entry].kind
        /\ Fine(parent) /\ entry \notin DOMAIN fs => seen \in {Refuse("ENOENT"), Refuse("ENOTDIR")}
    <3>1. /\ parent.err # "" => seen = parent
          /\ parent.err = "" /\ entry \in DOMAIN fs =>
               seen.err = "" /\ seen.kind = fs[entry].kind
          /\ parent.err = "" /\ entry \notin DOMAIN fs => seen \in {Refuse("ENOENT"), Refuse("ENOTDIR")}
      BY <2>1, MetadataIs
    <3> HIDE DEF parent, entry, seen
    <3> QED BY <3>1 DEF Fine
  <2>3. Landed(fs, parent)
    BY <2>1, CanonicalLands
  <2>4. seen.kind = "dir"
    BY <2>1
  <2>5. \A r : Landed(fs, r) => r.kind = ""
    <3>1. /\ \A l : Found(l).kind = ""
          /\ \A x : Refuse(x).kind = ""
      BY ResultFields
    <3> QED BY <3>1 DEF Landed
  <2> DEFINE none == ""
  <2>6. none # "dir" /\ parent.kind = none /\ Refuse("ENOENT").kind = none /\ Refuse("ENOTDIR").kind = none
    <3> HIDE DEF parent
    <3> QED BY <2>3, <2>5, ResultFields
  <2> HIDE DEF none, parent, entry, seen
  <2>7. Fine(parent)
    BY <2>2, <2>4, <2>6
  <2>8. entry \in DOMAIN fs
    BY <2>2, <2>4, <2>6, <2>7
  <2>9. fs[entry].kind = "dir"
    BY <2>2, <2>4, <2>7, <2>8
  <2>10. parent.at \in DOMAIN fs /\ fs[parent.at].kind # "link" /\ parent = Found(parent.at)
    BY <2>3, <2>7, LandedIsFound DEF Fine
  <2>11. Canonicalize(fs, base) = Found(entry)
    <3>1. <<e>> \in Seq(STRING) /\ base = f \o <<e>> /\ parent.at \in Seq(STRING) /\ parent.at \o <<e>> = entry
      <4>1. parent.at \in Seq(STRING)
        BY <2>10, TreeFacts
      <4>2. \A x \in Seq(STRING), y \in STRING : x \o <<y>> = Append(x, y) /\ <<y>> \in Seq(STRING)
        BY AppendIsConcat
      <4> QED BY <4>1, <4>2, <2>1 DEF entry
    <3>2. PICK k \in 0 .. MaxLinks : Canonicalize(fs, base) = Walk(fs, parent.at, <<e>>, k)
      <4>1. Canonicalize(fs, f) = Found(parent.at)
        BY <2>10 DEF parent
      <4>2. \E k \in 0 .. MaxLinks : Canonicalize(fs, f \o <<e>>) = Walk(fs, parent.at, <<e>>, k)
        BY <4>1, <3>1, <2>1, <2>10, ResolveOn
      <4> QED BY <4>2, <3>1
    <3> DEFINE s == Here(parent.at, <<e>>, k)
    <3>3. s \in Positions(fs) /\ s.at = parent.at /\ s.todo = <<e>>
      BY <3>1, <2>10 DEF Positions, Here, MaxLinks
    <3>4. WalkFrom(fs, s) = Walk(fs, parent.at, <<e>>, k)
      BY WalkHere
    <3>5. Straight(fs, entry) /\ <<e>> \in Seq(Name)
      BY <2>1, <2>8, <2>9, SettledIsReal
    <3> HIDE DEF s
    <3> QED BY <3>1, <3>2, <3>3, <3>4, <3>5, <2>8, WalkStraight
  <2>12. base \in DOMAIN fs => fs[base].kind = "dir"
    <3> SUFFICES ASSUME base \in DOMAIN fs PROVE fs[base].kind = "dir"
      OBVIOUS
    <3>1. f \in DOMAIN fs /\ fs[f].kind = "dir"
      BY <1>2, TreeFacts DEF f
    <3>2. parent = Found(f)
      BY <3>1, SettledIsReal DEF parent
    <3>3. entry = base
      BY <3>2, <2>1, ResultFields DEF entry
    <3> QED BY <3>3, <2>9
  <2>13. Found(entry).at = entry
    BY ResultFields
  <2> QED BY <2>8, <2>9, <2>11, <2>12, <2>13
<1> QED BY <1>1, <1>2

(* A prefix of an artifact path that SafeArtifactPath accepts.            *)
PlainPart(fs, root, names, i) ==
  LET upto == root.at \o SubSeq(names, 1, i)
      seen == SymlinkMetadata(fs, upto)
  IN  \/ seen.err = "ENOENT"
      \/ /\ seen.err = "" /\ seen.kind # "link"
         /\ i < Len(names) => seen.kind = "dir"
         /\ Canonicalize(fs, upto).err = ""
         /\ Inside(root.at, Canonicalize(fs, upto).at)

(* What is plain leads on without a link.                                  *)
LEMMA PlainIsStraight ==
  ASSUME NEW fs, FileTree(fs), NEW l, Straight(fs, l), NEW part \in Name,
         LET seen == SymlinkMetadata(fs, Append(l, part))
         IN  seen.err = "ENOENT" \/ (Fine(seen) /\ seen.kind # "link")
  PROVE  /\ Straight(fs, Append(l, part))
         /\ Fine(SymlinkMetadata(fs, Append(l, part))) => Append(l, part) \in DOMAIN fs
         /\ SymlinkMetadata(fs, Append(l, part)).err = "ENOENT" => Append(l, part) \notin DOMAIN fs
PROOF
<1> DEFINE next   == Append(l, part)
           seen   == SymlinkMetadata(fs, next)
           parent == Canonicalize(fs, l)
           entry  == Append(parent.at, part)
<1>0. l \in Seq(Name) /\ l \in Seq(STRING) /\ part \in STRING
  BY NamesAreStrings DEF Straight, Name
<1>1. /\ ~Fine(parent) => seen = parent
      /\ Fine(parent) /\ entry \in DOMAIN fs => seen.kind = fs[entry].kind /\ Fine(seen)
      /\ Fine(parent) /\ entry \notin DOMAIN fs => seen \in {Refuse("ENOENT"), Refuse("ENOTDIR")}
  <2>1. /\ parent.err # "" => seen = parent
        /\ parent.err = "" /\ entry \in DOMAIN fs =>
             seen.err = "" /\ seen.kind = fs[entry].kind
        /\ parent.err = "" /\ entry \notin DOMAIN fs => seen \in {Refuse("ENOENT"), Refuse("ENOTDIR")}
    BY <1>0, MetadataIs
  <2> HIDE DEF parent, entry, seen
  <2> QED BY <2>1 DEF Fine
<1>2. ~Fine(Refuse("ENOENT")) /\ ~Fine(Refuse("ENOTDIR")) /\ Refuse("ENOENT").err = "ENOENT"
  BY ResultFields DEF Fine
<1>3. \A r : r.err = "ENOENT" => ~Fine(r)
  BY DEF Fine
<1> HIDE DEF seen
<1>4. CASE l \in DOMAIN fs
  <2>1. Len(l) \in 0 .. Len(l) /\ SubSeq(l, 1, Len(l)) = l
    BY <1>0, SubSeqFull
  <2>2. fs[l].kind # "link"
    BY <2>1, <1>4 DEF Straight
  <2>3. parent = Found(l)
    BY <2>2, <1>4, SettledIsReal
  <2>4. Fine(parent) /\ entry = next
    <3>1. \A x : Found(x).err = "" /\ Found(x).at = x
      BY ResultFields
    <3> HIDE DEF parent
    <3> QED BY <3>1, <2>3 DEF Fine
  <2> HIDE DEF parent, entry, next
  <2>5. next \in DOMAIN fs => fs[next].kind # "link" /\ Fine(seen)
    BY <1>1, <1>3, <2>4 DEF seen, next
  <2>6. Straight(fs, next)
    BY <2>5, StraightAppend DEF next
  <2>7. next \notin DOMAIN fs => ~Fine(seen)
    BY <1>1, <1>2, <2>4
  <2> QED BY <1>3, <2>5, <2>6, <2>7 DEF next, seen
<1>5. CASE l \notin DOMAIN fs
  <2>1. next \notin DOMAIN fs
    BY <1>0, <1>5, MissingBelow
  <2>2. Straight(fs, next)
    BY <2>1, StraightAppend
  <2>3. parent \in {Refuse("ENOENT"), Refuse("ENOTDIR")}
    BY <1>5, StraightIsMissing
  <2> HIDE DEF parent, next
  <2>4. ~Fine(seen)
    BY <1>1, <1>2, <2>3
  <2> QED BY <2>1, <2>2, <2>4 DEF next, seen
<1> QED BY <1>4, <1>5

(* Whatever tree, base and path: an artifact path that is accepted lies   *)
(* inside a base that is no link, has no link above it, and is what a     *)
(* safe join gives (git/lib.rs, safe_artifact_path).                      *)
LEMMA Artifacts ==
  ASSUME NEW fs, FileTree(fs), NEW base \in Seq(Name), NEW path \in Seq(STRING \ {"/"})
  PROVE  ArtifactsAreInside(fs, base, path)
PROOF
<1> DEFINE artifact == SafeArtifactPath(fs, base, path)
           joined   == SafeJoinNoSymlinkEscape(fs, base, path)
           root     == Canonicalize(fs, base)
           names    == Normals(path)
           Upto(i)  == root.at \o SubSeq(names, 1, i)
           Seen(i)  == SymlinkMetadata(fs, Upto(i))
           whole    == root.at \o names
<1> SUFFICES ASSUME Fine(artifact)
             PROVE  /\ base \in DOMAIN fs => fs[base].kind # "link"
                    /\ StaysInside(fs, root.at, artifact.at)
                    /\ EnsureSafeRelativePath(path) => joined = artifact
  BY DEF ArtifactsAreInside, Fine
<1>1. /\ SymlinkMetadata(fs, base).kind = "dir"
      /\ \A i \in DOMAIN names : PlainPart(fs, root, names, i)
      /\ artifact = Found(whole)
  <2> DEFINE ok == /\ ValidateRelativePath(path)
                   /\ SymlinkMetadata(fs, base).kind = "dir"
                   /\ \A i \in DOMAIN names : PlainPart(fs, root, names, i)
  <2>1. artifact = IF ok THEN Found(whole) ELSE Refuse("unsafe")
    BY DEF SafeArtifactPath, PlainPart
  <2>2. ~Fine(Refuse("unsafe"))
    <3>1. Refuse("unsafe").err = "unsafe"
      BY ResultFields
    <3> QED BY <3>1 DEF Fine
  <2> HIDE DEF artifact, ok
  <2>3. ok /\ artifact = Found(whole)
    BY <2>1, <2>2
  <2> QED BY <2>3 DEF ok
<1>2. /\ base \in DOMAIN fs => fs[base].kind = "dir"
      /\ root.at \in DOMAIN fs /\ fs[root.at].kind = "dir" /\ root = Found(root.at)
  BY <1>1, BaseIsDirectory
<1>3. root.at \in Seq(Name) /\ names \in Seq(Name)
  BY <1>2, TreeFacts, NormalsAreNames
<1>4. PICK n \in Nat : n = Len(names) /\ DOMAIN names = 1 .. n
  BY <1>3
<1> HIDE DEF root, names, artifact, joined
<1>5. \A i \in 0 .. n - 1 : Upto(i + 1) = Append(Upto(i), names[i + 1]) /\ names[i + 1] \in Name
                            /\ Upto(i) \in Seq(Name)
  <2> SUFFICES ASSUME NEW i \in 0 .. n - 1
               PROVE  Upto(i + 1) = Append(Upto(i), names[i + 1]) /\ names[i + 1] \in Name /\ Upto(i) \in Seq(Name)
    OBVIOUS
  <2>1. SubSeq(names, 1, i + 1) = Append(SubSeq(names, 1, i), names[i + 1]) /\ names[i + 1] \in Name
        /\ SubSeq(names, 1, i) \in Seq(Name)
    BY <1>3, <1>4, GrowsByOne
  <2> DEFINE short == SubSeq(names, 1, i)
             part  == names[i + 1]
  <2>3. short \in Seq(Name) /\ part \in Name /\ Upto(i + 1) = root.at \o Append(short, part)
        /\ Upto(i) = root.at \o short
    BY <2>1
  <2> HIDE DEF short, part, Upto
  <2>4. Upto(i) \in Seq(Name) /\ Upto(i + 1) = Append(Upto(i), part)
    <3>1. root.at \in Seq(Name) /\ short \in Seq(Name) /\ part \in Name
      BY <2>3, <1>3
    <3> DEFINE top == root.at
    <3> HIDE DEF top
    <3>2. top \o short \in Seq(Name)
      BY <3>1, SeqFacts DEF top
    <3>3. top \o Append(short, part) = Append(top \o short, part)
      <4>1. top \in Seq(Name)
        BY <3>1 DEF top
      <4> QED BY <3>1, <4>1, SeqFacts
    <3> QED BY <3>2, <3>3, <2>3 DEF top
  <2> QED BY <2>3, <2>4 DEF part
<1>6. Upto(0) = root.at /\ Upto(n) = whole
  <2>1. SubSeq(names, 1, 0) = <<>> /\ SubSeq(names, 1, n) = names
    BY <1>3, <1>4, SubSeqFull
  <2>2. root.at \o <<>> = root.at
    BY <1>3
  <2> QED BY <2>1, <2>2
<1>7. \A i \in 1 .. n :
        \/ Seen(i).err = "ENOENT"
        \/ /\ Fine(Seen(i)) /\ Seen(i).kind # "link"
           /\ Fine(Canonicalize(fs, Upto(i))) /\ Inside(root.at, Canonicalize(fs, Upto(i)).at)
  BY <1>1, <1>4 DEF PlainPart, Fine
<1> HIDE DEF Upto
<1> DEFINE T == {i \in Nat : i <= n => Straight(fs, Upto(i)) /\ Inside(root.at, Upto(i))}
<1>8. 0 \in T
  <2>1. Straight(fs, root.at)
    BY <1>2, SettledIsReal
  <2>2. Inside(root.at, root.at)
    BY <1>3 DEF Inside, IsPrefix
  <2> QED BY <2>1, <2>2, <1>6
<1>9. ASSUME NEW i \in Nat, i \in T PROVE i + 1 \in T
  <2> SUFFICES ASSUME i + 1 <= n PROVE Straight(fs, Upto(i + 1)) /\ Inside(root.at, Upto(i + 1))
    OBVIOUS
  <2>1. Straight(fs, Upto(i)) /\ Inside(root.at, Upto(i)) /\ i \in 0 .. n - 1 /\ i + 1 \in 1 .. n
    BY <1>9
  <2>2. Seen(i + 1).err = "ENOENT" \/ (Fine(Seen(i + 1)) /\ Seen(i + 1).kind # "link")
    BY <1>7, <2>1
  <2>3. Upto(i + 1) = Append(Upto(i), names[i + 1]) /\ names[i + 1] \in Name /\ Upto(i) \in Seq(Name)
    BY <1>5, <2>1
  <2>4. Straight(fs, Upto(i + 1))
    BY <2>1, <2>2, <2>3, PlainIsStraight
  <2>5. Inside(root.at, Upto(i + 1))
    BY <2>1, <2>3, <1>3, InsideFacts
  <2> QED BY <2>4, <2>5
<1>10. \A i \in 0 .. n : Straight(fs, Upto(i)) /\ Inside(root.at, Upto(i))
  <2>1. Nat \subseteq T
    <3> HIDE DEF T
    <3> QED BY <1>8, <1>9, Induction
  <2>2. \A i \in 0 .. n : i \in Nat /\ i <= n
    OBVIOUS
  <2> QED BY <2>1, <2>2
<1>11. StaysInside(fs, root.at, artifact.at)
  <2>1. artifact.at = whole
    BY <1>1, ResultFields
  <2>2. Straight(fs, whole) /\ Inside(root.at, whole)
    <3>1. n \in 0 .. n
      OBVIOUS
    <3> QED BY <3>1, <1>6, <1>10
  <2> QED BY <2>1, <2>2, StraightStays
<1>12. ASSUME EnsureSafeRelativePath(path) PROVE joined = artifact
  <2>0. path \in Seq(STRING) /\ base \in Seq(STRING)
    BY NormalsAreNames, NamesAreStrings
  <2>1. Components(path) = path /\ names = path /\ path \in Seq(Name)
    BY <2>0, <1>12, SafePathIsNames DEF names
  <2>2. joined = EnterAll(fs, base, path)
    <3>1. joined = EnterAll(fs, base, Components(path))
      BY <1>12 DEF joined, SafeJoinNoSymlinkEscape, EnterAll, EnterSafely
    <3> QED BY <3>1, <2>1
  <2>3. PICK st \in [0 .. Len(path) -> Reached] :
               Entering(st, fs, base, path) /\ EnterAll(fs, base, path) = st[Len(path)]
    BY <2>0, <2>1, EnterAllSteps
  <2> DEFINE U == {i \in Nat : i <= n => st[i] = Found(Upto(i))}
  <2>4. 0 \in U
    BY <2>3, <1>2, <1>6 DEF Entering, root
  <2>5. ASSUME NEW i \in Nat, i \in U PROVE i + 1 \in U
    <3> SUFFICES ASSUME i + 1 <= n PROVE st[i + 1] = Found(Upto(i + 1))
      OBVIOUS
    <3>1. st[i] = Found(Upto(i)) /\ i \in 0 .. n - 1 /\ i + 1 \in 1 .. n /\ i \in 0 .. n
      BY <2>5
    <3>2. st[i + 1] = EnterSafely(fs, root, st[i], path[i + 1])
      BY <3>1, <2>1, <2>3, <1>4 DEF Entering, root
    <3>3. Upto(i + 1) = Append(Upto(i), path[i + 1]) /\ path[i + 1] \in Name
      BY <1>5, <2>1, <3>1
    <3> DEFINE next     == Upto(i + 1)
               seen     == SymlinkMetadata(fs, next)
               resolved == Canonicalize(fs, next)
               none     == ""
    <3>4. st[i + 1] = IF seen.err = "ENOENT" THEN Found(next)
                      ELSE IF seen.err # none THEN seen
                      ELSE IF resolved.err # none THEN resolved
                      ELSE IF Inside(root.at, resolved.at) THEN resolved
                      ELSE Refuse("escape")
      <4>1. Found(Upto(i)).err = none /\ Found(Upto(i)).at = Upto(i)
        BY ResultFields
      <4>2. st[i].err = none /\ Append(st[i].at, path[i + 1]) = next
        BY <4>1, <3>1, <3>3
      <4>3. st[i + 1] =
              LET candidate == Append(st[i].at, path[i + 1])
                  was       == SymlinkMetadata(fs, candidate)
                  found     == Canonicalize(fs, candidate)
              IN  IF st[i].err # none THEN st[i]
                  ELSE IF was.err = "ENOENT" THEN Found(candidate)
                  ELSE IF was.err # none THEN was
                  ELSE IF found.err # none THEN found
                  ELSE IF Inside(root.at, found.at) THEN found
                  ELSE Refuse("escape")
        BY <3>2 DEF EnterSafely
      <4> HIDE DEF none, next
      <4> QED BY <4>2, <4>3
    <3>5. \/ seen.err = "ENOENT"
          \/ /\ seen.err = none /\ seen.kind # "link" /\ Fine(seen)
             /\ resolved.err = none /\ Inside(root.at, resolved.at)
      <4>1. i + 1 \in 1 .. n
        BY <3>1
      <4> QED BY <4>1, <1>7 DEF Fine
    <3>6. Fine(seen) /\ seen.kind # "link" => next \in DOMAIN fs /\ fs[next].kind # "link"
      <4> SUFFICES ASSUME Fine(seen), seen.kind # "link" PROVE next \in DOMAIN fs /\ fs[next].kind # "link"
        OBVIOUS
      <4>1. Straight(fs, Upto(i)) /\ Straight(fs, next)
        <5>1. i + 1 \in 0 .. n
          BY <3>1
        <5> QED BY <5>1, <3>1, <1>10
      <4>2. next \in DOMAIN fs
        BY <4>1, <3>3, PlainIsStraight
      <4>3. next \in Seq(Name)
        BY <4>1 DEF Straight
      <4>4. Len(next) \in 0 .. Len(next) /\ SubSeq(next, 1, Len(next)) = next
        BY <4>3, SubSeqFull
      <4> QED BY <4>1, <4>2, <4>4 DEF Straight
    <3>7. Fine(seen) /\ seen.kind # "link" => resolved = Found(next)
      BY <3>6, SettledIsReal
    <3>8. none # "ENOENT"
      OBVIOUS
    <3> HIDE DEF none, seen, resolved, next
    <3>9. st[i + 1] = Found(next)
      BY <3>4, <3>5, <3>7, <3>8
    <3> QED BY <3>9 DEF next
  <2>6. n \in U
    <3> HIDE DEF U
    <3> QED BY <2>4, <2>5, Induction
  <2>7. st[n] = Found(Upto(n))
    BY <2>6
  <2>8. joined = st[n]
    BY <2>1, <2>2, <2>3, <1>4
  <2> QED BY <2>7, <2>8, <1>1, <1>6
<1>13. base \in DOMAIN fs => fs[base].kind # "link"
  BY <1>2
<1> QED BY <1>11, <1>12, <1>13

(* An empty directory is an inode.                                        *)
LEMMA DirectoryIs == Directory \in Inode /\ Directory.kind = "dir" /\ Directory.target = <<>>
PROOF
<1>1. <<>> \in Seq(STRING) /\ <<>> \in Seq({0, 1}) /\ "dir" \in {"dir", "file", "link"}
  OBVIOUS
<1>2. \A k \in {"dir", "file", "link"}, t \in Seq(STRING), b \in Seq({0, 1}) :
         /\ [kind |-> k, target |-> t, bytes |-> b] \in Inode
         /\ [kind |-> k, target |-> t, bytes |-> b].kind = k
         /\ [kind |-> k, target |-> t, bytes |-> b].target = t
  BY DEF Inode
<1> QED BY <1>1, <1>2 DEF Directory

(* Inodes at locations, a tree or not.                                    *)
Forest == UNION {[places -> Inode] : places \in SUBSET Seq(Name)}

(* A directory more.                                                      *)
Planted(t, next) == [l \in DOMAIN t \cup {next} |-> IF l = next THEN Directory ELSE t[l]]

(* A directory more is still an assignment of inodes to locations.        *)
LEMMA PlantedGrows ==
  ASSUME NEW t \in Forest, NEW next \in Seq(Name)
  PROVE  Planted(t, next) \in Forest
PROOF
<1>1. DOMAIN t \in SUBSET Seq(Name) /\ t \in [DOMAIN t -> Inode]
  BY DEF Forest
<1>2. DOMAIN t \cup {next} \in SUBSET Seq(Name)
  BY <1>1
<1>3. Planted(t, next) \in [DOMAIN t \cup {next} -> Inode]
  <2> HIDE DEF Inode
  <2> QED BY <1>1, DirectoryIs DEF Planted
<1> QED BY <1>2, <1>3 DEF Forest

(* A directory made in a directory leaves a tree.                         *)
LEMMA PlantedIsATree ==
  ASSUME NEW t, FileTree(t), NEW at \in DOMAIN t, t[at].kind = "dir", NEW part \in Name,
         Append(at, part) \notin DOMAIN t
  PROVE  FileTree(Planted(t, Append(at, part)))
PROOF
<1> DEFINE next == Append(at, part)
           u    == Planted(t, next)
<1>1. at \in Seq(Name) /\ next \in Seq(Name) /\ next # <<>> /\ Front(next) = at
  <2>1. at \in Seq(Name)
    BY TreeFacts
  <2> QED BY <2>1, FrontOfAppend, SeqFacts
<1> HIDE DEF next
<1>2. DOMAIN u = DOMAIN t \cup {next} /\ u[next] = Directory /\ \A l \in DOMAIN t : u[l] = t[l]
  BY DEF Planted, next
<1>3. u \in [DOMAIN u -> Inode] /\ DOMAIN u \subseteq Seq(Name)
  <2>1. t \in Forest
    BY DEF FileTree, Forest
  <2>2. u \in Forest
    BY <2>1, <1>1, PlantedGrows
  <2> QED BY <2>2 DEF Forest
<1> HIDE DEF u
<1>4. <<>> \in DOMAIN u /\ u[<<>>].kind = "dir"
  BY <1>2, TreeFacts
<1>5. \A l \in DOMAIN u \ {<<>>} : Front(l) \in DOMAIN u /\ u[Front(l)].kind = "dir"
  <2> SUFFICES ASSUME NEW l \in DOMAIN u \ {<<>>} PROVE Front(l) \in DOMAIN u /\ u[Front(l)].kind = "dir"
    OBVIOUS
  <2>1. CASE l = next
    BY <2>1, <1>1, <1>2
  <2>2. CASE l # next
    <3>1. l \in DOMAIN t /\ Front(l) \in DOMAIN t /\ t[Front(l)].kind = "dir"
      BY <2>2, <1>2, TreeFacts
    <3> QED BY <3>1, <1>2
  <2> QED BY <2>1, <2>2
<1>6. \A l \in DOMAIN u : u[l].kind = "link" => u[l].target # <<>>
  BY <1>2, TreeFacts, DirectoryIs
<1>7. \E l \in DOMAIN u : \A k \in DOMAIN u : Len(u[k].target) <= Len(u[l].target)
  <2>1. PICK l \in DOMAIN t : \A k \in DOMAIN t : Len(t[k].target) <= Len(t[l].target)
    BY DEF FileTree
  <2>2. Len(t[l].target) \in Nat /\ Len(<<>>) = 0
    BY TreeFacts
  <2>3. \A k \in DOMAIN u : Len(u[k].target) <= Len(u[l].target)
    <3> SUFFICES ASSUME NEW k \in DOMAIN u PROVE Len(u[k].target) <= Len(u[l].target)
      OBVIOUS
    <3>1. CASE k = next
      <4>1. Len(u[k].target) = 0
        BY <3>1, <1>2, <2>2, DirectoryIs
      <4> QED BY <4>1, <2>2, <1>2
    <3>2. CASE k # next
      BY <3>2, <1>2, <2>1
    <3> QED BY <3>1, <3>2
  <2> QED BY <2>3, <1>2
<1>8. FileTree(u)
  BY <1>3, <1>4, <1>5, <1>6, <1>7 DEF FileTree
<1> QED BY <1>8 DEF u, next

(* A walk that creates directories.                                       *)
State(e, l, t) == [err |-> e, at |-> l, fs |-> t]

Errors == {"", "unsafe"}
States == [err : Errors, at : Seq(Name), fs : Forest]
Steppable == STRING \ {"", "."}

(* The fields of a walk that creates directories.                         *)
LEMMA StateFields ==
  ASSUME NEW e, NEW l, NEW t
  PROVE  State(e, l, t).err = e /\ State(e, l, t).at = l /\ State(e, l, t).fs = t
BY DEF State

(* Its states are records of one set.                                     *)
LEMMA StateIn ==
  ASSUME NEW e \in Errors, NEW l \in Seq(Name), NEW t \in Forest
  PROVE  State(e, l, t) \in States
PROOF
<1> HIDE DEF Errors, Forest
<1> QED BY DEF State, States

(* A state is its fields.                                                 *)
LEMMA StateIs ==
  ASSUME NEW s \in States
  PROVE  s.err \in Errors /\ s.at \in Seq(Name) /\ s.fs \in Forest /\ s = State(s.err, s.at, s.fs)
PROOF
<1> HIDE DEF Errors, Forest
<1>1. s.err \in Errors /\ s.at \in Seq(Name) /\ s.fs \in Forest
  BY DEF States
<1>2. s = State(s.err, s.at, s.fs)
  BY DEF States, State
<1> QED BY <1>1, <1>2

(* A state with one field changed.                                        *)
LEMMA StateExcept ==
  ASSUME NEW s \in States, NEW e, NEW l, NEW t
  PROVE  /\ [s EXCEPT !.err = e] = State(e, s.at, s.fs)
         /\ [s EXCEPT !.at = l] = State(s.err, l, s.fs)
         /\ [s EXCEPT !.fs = t] = State(s.err, s.at, t)
PROOF
<1> HIDE DEF Errors, Forest
<1>1. [s EXCEPT !.err = e] = State(e, s.at, s.fs)
  BY DEF States, State
<1>2. [s EXCEPT !.at = l] = State(s.err, l, s.fs)
  BY DEF States, State
<1>3. [s EXCEPT !.fs = t] = State(s.err, s.at, t)
  BY DEF States, State
<1> QED BY <1>1, <1>2, <1>3

(* A state with two fields changed.                                       *)
LEMMA StateMoves ==
  ASSUME NEW s \in States, NEW l \in Seq(Name), NEW t
  PROVE  [s EXCEPT !.at = l, !.fs = t] = State(s.err, l, t)
PROOF
<1> DEFINE m == [s EXCEPT !.at = l]
<1>1. [s EXCEPT !.at = l, !.fs = t] = [m EXCEPT !.fs = t]
  OBVIOUS
<1>2. m = State(s.err, l, s.fs)
  BY StateExcept
<1>3. s.err \in Errors /\ s.fs \in Forest
  BY StateIs
<1>4. m \in States
  <2> HIDE DEF m
  <2> QED BY <1>2, <1>3, StateIn
<1>5. m.err = s.err /\ m.at = l
  <2> HIDE DEF m
  <2> QED BY <1>2, StateFields
<1> HIDE DEF m
<1>6. [m EXCEPT !.fs = t] = State(m.err, m.at, t)
  BY <1>4, StateExcept
<1> QED BY <1>1, <1>5, <1>6

(* Its step.                                                              *)
MakeEnter(state, part) ==
  LET next == Append(state.at, part)
      seen == SymlinkMetadata(state.fs, next)
  IN  IF state.err # "" THEN state
      ELSE IF part \in Special THEN [state EXCEPT !.err = "unsafe"]
      ELSE IF seen.err = "ENOENT"
        THEN [state EXCEPT !.at = next,
                !.fs = [l \in DOMAIN @ \cup {next} |->
                          IF l = next THEN Directory ELSE @[l]]]
      ELSE IF seen.err # "" \/ seen.kind # "dir"
        THEN [state EXCEPT !.err = "unsafe"]
      ELSE [state EXCEPT !.at = next]

(* One step of the walk: it stands where it stood with an error, or one    *)
(* part further, in a directory it made or found.                          *)
LEMMA MakeEnterIs ==
  ASSUME NEW s \in States, NEW part \in Steppable
  PROVE  LET next == Append(s.at, part)
             seen == SymlinkMetadata(s.fs, next)
             new  == MakeEnter(s, part)
         IN  /\ ~Fine(s) => new = s
             /\ Fine(s) => \/ new = State("unsafe", s.at, s.fs)
                           \/ /\ part \in Name /\ seen.err = "ENOENT"
                              /\ new = State(s.err, next, Planted(s.fs, next))
                           \/ /\ part \in Name /\ Fine(seen) /\ seen.kind = "dir"
                              /\ new = State(s.err, next, s.fs)
PROOF
<1> DEFINE next == Append(s.at, part)
           seen == SymlinkMetadata(s.fs, next)
           new  == MakeEnter(s, part)
           none == ""
           grown == [s EXCEPT !.at = next,
                       !.fs = [l \in DOMAIN @ \cup {next} |-> IF l = next THEN Directory ELSE @[l]]]
<1>1. new = IF s.err # none THEN s
            ELSE IF part \in Special THEN [s EXCEPT !.err = "unsafe"]
            ELSE IF seen.err = "ENOENT" THEN grown
            ELSE IF seen.err # none \/ seen.kind # "dir" THEN [s EXCEPT !.err = "unsafe"]
            ELSE [s EXCEPT !.at = next]
  BY DEF MakeEnter
<1>2. ASSUME part \in Name PROVE grown = State(s.err, next, Planted(s.fs, next))
  <2>1. next \in Seq(Name)
    BY <1>2, StateIs, SeqFacts
  <2>2. grown = [s EXCEPT !.at = next, !.fs = Planted(s.fs, next)]
    <3> HIDE DEF next
    <3> QED BY DEF Planted
  <2> HIDE DEF grown, next
  <2> QED BY <2>1, <2>2, StateMoves
<1>3. part \notin Special => part \in Name
  BY DEF Special, Name, Steppable
<1>4. Fine(s) <=> s.err = none
  BY DEF Fine
<1>5. Fine(seen) <=> seen.err = none
  BY DEF Fine
<1>6. [s EXCEPT !.err = "unsafe"] = State("unsafe", s.at, s.fs) /\ [s EXCEPT !.at = next] = State(s.err, next, s.fs)
  BY StateExcept
<1> HIDE DEF none, new, seen, next, grown
<1>7. ~Fine(s) => new = s
  BY <1>1, <1>4
<1>8. Fine(s) => \/ new = State("unsafe", s.at, s.fs)
                 \/ /\ part \in Name /\ seen.err = "ENOENT"
                    /\ new = State(s.err, next, Planted(s.fs, next))
                 \/ /\ part \in Name /\ Fine(seen) /\ seen.kind = "dir"
                    /\ new = State(s.err, next, s.fs)
  BY <1>1, <1>2, <1>3, <1>4, <1>5, <1>6
<1> QED BY <1>7, <1>8 DEF new, seen, next

(* One step leads from state to state.                                    *)
LEMMA MakeEnterCloses ==
  ASSUME NEW s \in States, NEW part \in Steppable
  PROVE  MakeEnter(s, part) \in States
PROOF
<1> DEFINE next == Append(s.at, part)
           new  == MakeEnter(s, part)
<1>1. \/ new = s
      \/ new = State("unsafe", s.at, s.fs)
      \/ part \in Name /\ new = State(s.err, next, Planted(s.fs, next))
      \/ part \in Name /\ new = State(s.err, next, s.fs)
  BY MakeEnterIs
<1>2. s.err \in Errors /\ s.at \in Seq(Name) /\ s.fs \in Forest /\ "unsafe" \in Errors
  <2>1. "unsafe" \in Errors
    BY DEF Errors
  <2> QED BY <2>1, StateIs
<1>3. part \in Name => next \in Seq(Name) /\ Planted(s.fs, next) \in Forest
  BY <1>2, SeqFacts, PlantedGrows
<1> HIDE DEF new, next
<1>4. new \in States
  BY <1>1, <1>2, <1>3, StateIn
<1> QED BY <1>4 DEF new

Start(fs, root) == [err |-> "", at |-> root, fs |-> fs]

(* The whole walk.                                                        *)
MakeAll(fs, root, seq) ==
  LET Enter(state, part) == MakeEnter(state, part)
  IN  FoldLeft(Enter, Start(fs, root), seq)

(* st is the walk, prefix by prefix.                                      *)
Making(st, fs, root, seq) ==
  /\ st[0] = Start(fs, root)
  /\ \A i \in 0 .. Len(seq) - 1 : st[i + 1] = MakeEnter(st[i], seq[i + 1])

(* The walk that creates what is missing, step by step.                   *)
LEMMA MakeAllSteps ==
  ASSUME NEW fs \in Forest, NEW root \in Seq(Name), NEW seq \in Seq(Steppable)
  PROVE  \E st \in [0 .. Len(seq) -> States] :
            Making(st, fs, root, seq) /\ MakeAll(fs, root, seq) = st[Len(seq)]
PROOF
<1> DEFINE Op(x, y) == MakeEnter(x, y)
           op == [p \in States \X Steppable |-> Op(p[1], p[2])]
           P(h) == h = [s \in SUBSET DOMAIN seq |->
                          IF s = {} THEN Start(fs, root) ELSE Op(h[s \ {Max(s)}], seq[Max(s)])]
           g == CHOOSE h : P(h)
<1>1. (\A x \in States, y \in Steppable : Op(x, y) \in States) /\ Start(fs, root) \in States
  <2>2. Start(fs, root) \in States
    <3> DEFINE none == ""
    <3>1. Start(fs, root) = State(none, root, fs) /\ none \in Errors
      BY DEF State, Errors, Start
    <3> HIDE DEF none
    <3> QED BY <3>1, StateIn
  <2>3. \A x \in States, y \in Steppable : Op(x, y) \in States
    BY MakeEnterCloses
  <2> HIDE DEF Op
  <2> QED BY <2>2, <2>3
<1>2. op \in [States \X Steppable -> States] /\ \A x \in States, y \in Steppable : op[<<x, y>>] = Op(x, y)
  <2> HIDE DEF Op
  <2> QED BY <1>1
<1>3. P(g)
  <2>1. PICK f \in [SUBSET DOMAIN seq -> States] : Folds(f, op, Start(fs, root), seq)
    <3> HIDE DEF op
    <3> QED BY <1>1, <1>2, FoldDefined
  <2>2. \A s \in SUBSET DOMAIN seq : s # {} => f[s \ {Max(s)}] \in States /\ seq[Max(s)] \in Steppable
    <3> DEFINE A == States
    <3> HIDE DEF op, Op, P, A
    <3>1. f \in [SUBSET DOMAIN seq -> A]
      BY DEF A
    <3>2. ASSUME NEW s \in SUBSET DOMAIN seq, s # {}
          PROVE  f[s \ {Max(s)}] \in A /\ seq[Max(s)] \in Steppable
      BY <3>1, <3>2, NextOfFold
    <3> QED BY <3>2 DEF A
  <2>3. P(f)
    <3> HIDE DEF op, Op
    <3> QED BY <2>1, <2>2, <1>2 DEF Folds
  <2> HIDE DEF P
  <2> QED BY <2>3
<1>4. MakeAll(fs, root, seq) = g[DOMAIN seq]
  BY DEF MakeAll, FoldLeft, MapThenFoldSet
<1> HIDE DEF g
<1>5. PICK st \in [0 .. Len(seq) -> States] : Steps(st, op, Start(fs, root), seq, g[DOMAIN seq])
  <2>1. g[{}] = Start(fs, root)
    <3> HIDE DEF Op
    <3> QED BY <1>3
  <2>2. \A s \in SUBSET DOMAIN seq :
           s # {} /\ g[s \ {Max(s)}] \in States /\ seq[Max(s)] \in Steppable => g[s] = op[<<g[s \ {Max(s)}], seq[Max(s)]>>]
    <3> HIDE DEF op, Op
    <3> QED BY <1>3, <1>2, ZenonT(60)
  <2> HIDE DEF op, P
  <2> QED BY <2>1, <2>2, <1>1, <1>2, FoldPrefixes
<1>6. \A i \in 0 .. Len(seq) - 1 : st[i + 1] = Op(st[i], seq[i + 1])
  <2> HIDE DEF op, Op, P
  <2> QED BY <1>2, <1>5, NextOfPrefix DEF Steps
<1> HIDE DEF op, P
<1> QED BY <1>4, <1>5, <1>6 DEF Steps, Making

(* The parts that are no component.                                       *)
Skipped == {"", "."}

(* The parts a resolution passes over are no names.                       *)
LEMMA SkippedIs ==
  /\ \A s : s \in Skipped => s \in {"", "."} /\ s \notin Name
  /\ Steppable = STRING \ Skipped
  /\ \A path : Below(path) = Without(path, Skipped)
BY Zenon DEF Skipped, Steppable, Below, Name

(* A resolution at such a part moves on where it stands.                  *)
LEMMA PassesOver ==
  ASSUME NEW fs, FileTree(fs), NEW s \in Positions(fs), s.todo # <<>>, fs[s.at].kind = "dir",
         Head(s.todo) \in Skipped
  PROVE  ~Stops(fs, s) /\ Moved(fs, s) = Here(s.at, Tail(s.todo), s.links)
         /\ WalkFrom(fs, s) = WalkFrom(fs, Moved(fs, s))
PROOF
<1>1. ~Stops(fs, s) /\ Moved(fs, s) = Here(s.at, Tail(s.todo), s.links)
  BY Zenon DEF Stops, Moved, Skipped
<1> QED BY <1>1, WalkStep

(* A resolution at a name of something there, no link, goes there.        *)
LEMMA StepsOn ==
  ASSUME NEW fs, FileTree(fs), NEW s \in Positions(fs), s.todo # <<>>, fs[s.at].kind = "dir",
         Head(s.todo) \in Name, Append(s.at, Head(s.todo)) \in DOMAIN fs,
         fs[Append(s.at, Head(s.todo))].kind # "link"
  PROVE  ~Stops(fs, s) /\ Moved(fs, s) = Here(Append(s.at, Head(s.todo)), Tail(s.todo), s.links)
         /\ WalkFrom(fs, s) = WalkFrom(fs, Moved(fs, s))
PROOF
<1>0. Head(s.todo) \notin {"", ".", ".."} /\ Head(s.todo) \notin {"", "."} /\ Head(s.todo) # ".."
  BY Zenon DEF Name
<1>2. ~Stops(fs, s)
  BY <1>0, Zenon DEF Stops
<1>3. Moved(fs, s) = Here(Append(s.at, Head(s.todo)), Tail(s.todo), s.links)
  BY <1>0, Zenon DEF Moved
<1>1. ~Stops(fs, s) /\ Moved(fs, s) = Here(Append(s.at, Head(s.todo)), Tail(s.todo), s.links)
  BY <1>2, <1>3
<1> QED BY <1>1, WalkStep

(* An index is below the last one or is it.                               *)
LEMMA BelowOrAt ==
  ASSUME NEW n \in Nat, NEW i \in 0 .. n
  PROVE  i < n \/ i = n
OBVIOUS

(* On the way to a directory all is directories.                          *)
LEMMA AlongTheWay ==
  ASSUME NEW fs, FileTree(fs), NEW a \in Seq(Name), NEW q \in Seq(Name),
         a \o q \in DOMAIN fs, fs[a \o q].kind = "dir"
  PROVE  /\ a \in DOMAIN fs /\ fs[a].kind = "dir"
         /\ q # <<>> => /\ Append(a, Head(q)) \in DOMAIN fs /\ fs[Append(a, Head(q))].kind = "dir"
                        /\ Append(a, Head(q)) \o Tail(q) = a \o q
PROOF
<1> DEFINE l == a \o q
<1>0. l \in Seq(Name) /\ Len(l) \in Nat /\ SubSeq(l, 1, Len(l)) = l
  <2>1. l \in Seq(Name)
    OBVIOUS
  <2> HIDE DEF l
  <2> QED BY <2>1, SubSeqFull
<1>1. ASSUME q = <<>> PROVE l = a
  BY <1>1
<1>2. ASSUME q # <<>>
      PROVE  /\ Append(a, Head(q)) \o Tail(q) = l
             /\ SubSeq(l, 1, Len(a)) = a
             /\ SubSeq(l, 1, Len(a) + 1) = Append(a, Head(q))
             /\ Len(a) \in 0 .. Len(l) /\ Len(a) + 1 \in 0 .. Len(l) /\ Len(a) < Len(l)
  <2>1. /\ Append(a, Head(q)) \o Tail(q) = l
        /\ SubSeq(l, 1, Len(a)) = a
        /\ SubSeq(l, 1, Len(a) + 1) = Append(a, Head(q))
        /\ Len(l) = Len(a) + Len(q) /\ Len(q) > 0 /\ Len(q) \in Nat /\ Len(a) \in Nat
    BY <1>2, ConcatFacts
  <2>2. \A k, m, n : k = m + n /\ n > 0 /\ n \in Nat /\ m \in Nat => m + 1 \in 0 .. k /\ m \in 0 .. k /\ m < k
    OBVIOUS
  <2> HIDE DEF l
  <2>3. Len(a) \in 0 .. Len(l) /\ Len(a) + 1 \in 0 .. Len(l) /\ Len(a) < Len(l)
    BY <2>1, <2>2
  <2> QED BY <2>1, <2>3
<1> HIDE DEF l
<1>3. l \in DOMAIN fs /\ fs[l].kind = "dir"
  BY DEF l
<1>4. \A i \in 0 .. Len(l) : SubSeq(l, 1, i) \in DOMAIN fs /\ fs[SubSeq(l, 1, i)].kind = "dir"
  <2> SUFFICES ASSUME NEW i \in 0 .. Len(l) PROVE SubSeq(l, 1, i) \in DOMAIN fs /\ fs[SubSeq(l, 1, i)].kind = "dir"
    OBVIOUS
  <2>1. CASE i < Len(l)
    BY <2>1, <1>3, PrefixesExist
  <2>2. CASE i = Len(l)
    BY <2>2, <1>0, <1>3
  <2>3. i < Len(l) \/ i = Len(l)
    <3>1. Len(l) \in Nat
      BY <1>0
    <3> QED BY <3>1, BelowOrAt
  <2> QED BY <2>1, <2>2, <2>3
<1>5. a \in DOMAIN fs /\ fs[a].kind = "dir"
  <2>1. CASE q = <<>>
    BY <2>1, <1>1, <1>3
  <2>2. CASE q # <<>>
    BY <2>2, <1>2, <1>4
  <2> QED BY <2>1, <2>2
<1>6. ASSUME q # <<>>
      PROVE  /\ Append(a, Head(q)) \in DOMAIN fs /\ fs[Append(a, Head(q))].kind = "dir"
             /\ Append(a, Head(q)) \o Tail(q) = l
  BY <1>6, <1>2, <1>4
<1> QED BY <1>5, <1>6 DEF l

(* A path to a directory, with empty parts and dots on its way, is        *)
(* resolved to the directory when no link lies on the way.                *)
LEMMA WalkSkips ==
  ASSUME NEW fs, FileTree(fs), NEW s \in Positions(fs), s.todo \in Seq(Name \cup Skipped),
         s.at \o Without(s.todo, Skipped) \in DOMAIN fs,
         fs[s.at \o Without(s.todo, Skipped)].kind = "dir"
  PROVE  WalkFrom(fs, s) = Found(s.at \o Without(s.todo, Skipped))
PROOF
<1> DEFINE End(s0) == s0.at \o Without(s0.todo, Skipped)
           T == {s0 \in Positions(fs) :
                   /\ s0.todo \in Seq(Name \cup Skipped)
                   /\ End(s0) \in DOMAIN fs /\ fs[End(s0)].kind = "dir"
                   => WalkFrom(fs, s0) = Found(End(s0))}
<1>1. ASSUME NEW s0 \in Positions(fs), ~Stops(fs, s0) => Moved(fs, s0) \in T
      PROVE  s0 \in T
  <2> SUFFICES ASSUME s0.todo \in Seq(Name \cup Skipped), End(s0) \in DOMAIN fs, fs[End(s0)].kind = "dir"
               PROVE  WalkFrom(fs, s0) = Found(End(s0))
    OBVIOUS
  <2> DEFINE todo == s0.todo
             q    == Without(todo, Skipped)
             at   == s0.at
             part == Head(todo)
             rest == Tail(todo)
  <2>0. at \in DOMAIN fs /\ at \in Seq(Name) /\ todo \in Seq(Name \cup Skipped)
    BY TreeFacts DEF Positions
  <2>1. q \in Seq(Name)
    <3>1. q \in Seq((Name \cup Skipped) \ Skipped)
      BY WithoutKeeps
    <3>2. (Name \cup Skipped) \ Skipped = Name
      BY SkippedIs
    <3> HIDE DEF q
    <3> QED BY <3>1, <3>2
  <2>2. End(s0) = at \o q
    OBVIOUS
  <2> HIDE DEF q
  <2>3. /\ fs[at].kind = "dir"
        /\ q # <<>> => /\ Append(at, Head(q)) \in DOMAIN fs /\ fs[Append(at, Head(q))].kind = "dir"
                       /\ Append(at, Head(q)) \o Tail(q) = at \o q
    <3> DEFINE whole == End(s0)
    <3>1. whole = at \o q /\ whole \in DOMAIN fs /\ fs[whole].kind = "dir"
      BY <2>2
    <3> HIDE DEF whole, at
    <3>2. at \o q \in DOMAIN fs /\ fs[at \o q].kind = "dir"
      BY <3>1
    <3>3. at \in Seq(Name)
      BY <2>0
    <3> DEFINE place == at
    <3>4. place \in Seq(Name) /\ place \o q \in DOMAIN fs /\ fs[place \o q].kind = "dir"
      BY <3>2, <3>3
    <3> HIDE DEF place
    <3>5. place \in DOMAIN fs /\ fs[place].kind = "dir"
      BY <3>4, <2>1, AlongTheWay
    <3>6. q # <<>> => /\ Append(place, Head(q)) \in DOMAIN fs /\ fs[Append(place, Head(q))].kind = "dir"
                      /\ Append(place, Head(q)) \o Tail(q) = place \o q
      <4> SUFFICES ASSUME q # <<>>
                   PROVE  /\ Append(place, Head(q)) \in DOMAIN fs /\ fs[Append(place, Head(q))].kind = "dir"
                          /\ Append(place, Head(q)) \o Tail(q) = place \o q
        OBVIOUS
      <4>1. Append(place, Head(q)) \in DOMAIN fs /\ fs[Append(place, Head(q))].kind = "dir"
        BY <3>4, <2>1, AlongTheWay
      <4>2. Append(place, Head(q)) \o Tail(q) = place \o q
        BY <3>4, <2>1, AlongTheWay
      <4> QED BY <4>1, <4>2
    <3> QED BY <3>5, <3>6 DEF place
  <2>4. CASE todo = <<>>
    <3>1. q = <<>>
      <4>1. Without(<<>>, Skipped) = <<>>
        <5>1. <<>> \in Seq(Name) /\ \A i \in DOMAIN <<>> : <<>>[i] \notin Skipped
          OBVIOUS
        <5> QED BY <5>1, WithoutNone
      <4> QED BY <2>4, <4>1 DEF q
    <3>2. at \o <<>> = at
      BY <2>0
    <3>3. WalkFrom(fs, s0) = Found(at)
      BY <2>4, WalkStep DEF Stops, StopsWith
    <3> QED BY <3>1, <3>2, <3>3, <2>2
  <2>5. CASE todo # <<>> /\ part \in Skipped
    <3>1. ~Stops(fs, s0) /\ Moved(fs, s0) = Here(at, rest, s0.links) /\ WalkFrom(fs, s0) = WalkFrom(fs, Moved(fs, s0))
      BY <2>3, <2>5, PassesOver
    <3>2. q = Without(rest, Skipped)
      BY <2>5, <2>0, WithoutHead DEF q
    <3>3. rest \in Seq(Name \cup Skipped)
      BY <2>0, <2>5
    <3>4. Moved(fs, s0).at = at /\ Moved(fs, s0).todo = rest
      BY <3>1, HereIs
    <3> DEFINE m == Moved(fs, s0)
    <3> HIDE DEF m
    <3>5. m \in T /\ m.at = at /\ m.todo = rest /\ WalkFrom(fs, s0) = WalkFrom(fs, m)
      BY <1>1, <3>1, <3>4 DEF m
    <3>6. End(m) = End(s0)
      BY <3>5, <3>2, <2>2
    <3> QED BY <3>3, <3>5, <3>6
  <2>6. CASE todo # <<>> /\ part \notin Skipped
    <3>1. q = <<part>> \o Without(rest, Skipped) /\ Without(rest, Skipped) \in Seq(Name) /\ rest \in Seq(Name \cup Skipped)
          /\ part \in Name
      <4>1. q = <<part>> \o Without(rest, Skipped)
        BY <2>6, <2>0, WithoutHead DEF q
      <4>2. rest \in Seq(Name \cup Skipped) /\ part \in Name \cup Skipped
        BY <2>6, <2>0
      <4>3. Without(rest, Skipped) \in Seq((Name \cup Skipped) \ Skipped)
        BY <4>2, WithoutKeeps
      <4>4. (Name \cup Skipped) \ Skipped = Name
        BY SkippedIs
      <4> QED BY <4>1, <4>2, <4>3, <4>4, <2>6
    <3> DEFINE after == Without(rest, Skipped)
    <3> HIDE DEF after
    <3>2. q # <<>> /\ Head(q) = part /\ Tail(q) = after
      <4>1. q = <<part>> \o after /\ after \in Seq(Name) /\ part \in Name
        BY <3>1 DEF after
      <4>2. \A e \in Name, r \in Seq(Name) : <<e>> \o r # <<>> /\ Head(<<e>> \o r) = e /\ Tail(<<e>> \o r) = r
        <5> SUFFICES ASSUME NEW e \in Name, NEW r \in Seq(Name)
                     PROVE  <<e>> \o r # <<>> /\ Head(<<e>> \o r) = e /\ Tail(<<e>> \o r) = r
          OBVIOUS
        <5>1. <<e>> \in Seq(Name) /\ <<e>> # <<>> /\ Head(<<e>>) = e /\ Tail(<<e>>) = <<>>
          OBVIOUS
        <5>2. Head(<<e>> \o r) = Head(<<e>>) /\ <<e>> \o r # <<>> /\ Tail(<<e>> \o r) = Tail(<<e>>) \o r
          BY <5>1, ConcatHead
        <5>3. <<>> \o r = r
          OBVIOUS
        <5> QED BY <5>1, <5>2, <5>3
      <4> QED BY <4>1, <4>2
    <3>3. ~Stops(fs, s0) /\ Moved(fs, s0) = Here(Append(at, part), rest, s0.links)
          /\ WalkFrom(fs, s0) = WalkFrom(fs, Moved(fs, s0))
      <4>1. Append(at, part) \in DOMAIN fs /\ fs[Append(at, part)].kind # "link"
        BY <3>2, <2>3
      <4> QED BY <4>1, <2>3, <2>6, <3>1, StepsOn
    <3>4. Moved(fs, s0).at = Append(at, part) /\ Moved(fs, s0).todo = rest
      <4> DEFINE next == Append(at, part)
                 m == Moved(fs, s0)
      <4>1. m = Here(next, rest, s0.links)
        BY <3>3
      <4> HIDE DEF next, m
      <4>2. m.at = next /\ m.todo = rest
        BY <4>1, HereIs
      <4> QED BY <4>2 DEF m, next
    <3> DEFINE m == Moved(fs, s0)
    <3> HIDE DEF m
    <3>5. m \in T /\ m.at = Append(at, part) /\ m.todo = rest /\ WalkFrom(fs, s0) = WalkFrom(fs, m)
      BY <1>1, <3>3, <3>4 DEF m
    <3>6. End(m) = End(s0)
      BY <3>5, <3>2, <2>2, <2>3 DEF after
    <3> QED BY <3>1, <3>5, <3>6
  <2> QED BY <2>4, <2>5, <2>6
<1>2. Positions(fs) \subseteq T
  <2> HIDE DEF T
  <2> QED BY <1>1, WalkInduction
<1> QED BY <1>2

(* t is fs with empty directories added below a root.                     *)
Grown(t, fs, root) ==
  /\ FileTree(t)
  /\ \A l \in DOMAIN fs : l \in DOMAIN t /\ t[l] = fs[l]
  /\ \A l \in DOMAIN t : l \notin DOMAIN fs => t[l] = Directory /\ Inside(root, l)

(* What is known of a walk that creates directories on its way.           *)
WalkedTo(s, fs, root, walked) ==
  /\ Grown(s.fs, fs, root)
  /\ s.at \in DOMAIN s.fs /\ s.fs[s.at].kind = "dir" /\ Inside(root, s.at)
  /\ Fine(s) => walked \in Seq(Name) /\ s.at = root \o walked

(* What lstat says of a name in a directory.                              *)
LEMMA EntryIs ==
  ASSUME NEW fs, FileTree(fs), NEW l \in DOMAIN fs, fs[l].kind = "dir", NEW part \in Name
  PROVE  LET seen == SymlinkMetadata(fs, Append(l, part))
         IN  /\ seen.err = "ENOENT" => Append(l, part) \notin DOMAIN fs
             /\ Fine(seen) /\ seen.kind = "dir" =>
                  Append(l, part) \in DOMAIN fs /\ fs[Append(l, part)].kind = "dir"
PROOF
<1> DEFINE next == Append(l, part)
           seen == SymlinkMetadata(fs, next)
<1>1. Straight(fs, l) /\ Canonicalize(fs, l) = Found(l) /\ l \in Seq(STRING) /\ part \in STRING
  BY SettledIsReal, TreeFacts DEF Name
<1>2. Fine(Canonicalize(fs, l)) /\ Canonicalize(fs, l).at = l
  BY <1>1, ResultFields DEF Fine
<1>3. /\ seen.err = "ENOENT" => next \notin DOMAIN fs
      /\ Fine(seen) /\ seen.kind # "link" => next \in DOMAIN fs
  BY <1>1, PlainIsStraight
<1>4. next \in DOMAIN fs => seen.kind = fs[next].kind
  <2> DEFINE parent == Canonicalize(fs, l)
             entry == Append(parent.at, part)
  <2>1. Fine(parent) /\ entry \in DOMAIN fs => seen.kind = fs[entry].kind
    BY <1>1, MetadataIs DEF Fine
  <2>2. entry = next
    BY <1>2
  <2> HIDE DEF entry, next, seen, parent
  <2> QED BY <2>1, <2>2, <1>2 DEF parent
<1> HIDE DEF seen, next
<1>5. Fine(seen) /\ seen.kind = "dir" => next \in DOMAIN fs /\ fs[next].kind = "dir"
  BY <1>3, <1>4
<1> QED BY <1>3, <1>5 DEF seen, next

(* A refusal is an error.                                                 *)
LEMMA UnsafeIsNotFine ==
  ASSUME NEW l, NEW t
  PROVE  ~Fine(State("unsafe", l, t))
PROOF
<1>1. State("unsafe", l, t).err = "unsafe" /\ "unsafe" # ""
  BY StateFields
<1> QED BY <1>1 DEF Fine

(* A step of the creating walk keeps the tree it found, adds empty        *)
(* directories inside the root only, and stands in a directory.           *)
LEMMA MakingGrows ==
  ASSUME NEW fs, FileTree(fs), NEW root \in Seq(Name), NEW walked, NEW part \in Steppable,
         NEW s \in States, WalkedTo(s, fs, root, walked)
  PROVE  WalkedTo(MakeEnter(s, part), fs, root, Append(walked, part))
PROOF
<1> DEFINE next == Append(s.at, part)
           seen == SymlinkMetadata(s.fs, next)
           new  == MakeEnter(s, part)
           t    == s.fs
           at   == s.at
<1>1. /\ Grown(t, fs, root) /\ FileTree(t) /\ at \in DOMAIN t /\ t[at].kind = "dir" /\ Inside(root, at)
      /\ Fine(s) => walked \in Seq(Name) /\ at = root \o walked
      /\ at \in Seq(Name)
  BY StateIs DEF WalkedTo, Grown
<1>2. \/ ~Fine(s) /\ new = s
      \/ new = State("unsafe", at, t)
      \/ Fine(s) /\ part \in Name /\ seen.err = "ENOENT" /\ new = State(s.err, next, Planted(t, next))
      \/ Fine(s) /\ part \in Name /\ Fine(seen) /\ seen.kind = "dir" /\ new = State(s.err, next, t)
  BY MakeEnterIs
<1>3. ASSUME part \in Name
      PROVE  /\ next \in Seq(Name) /\ Inside(root, next)
             /\ seen.err = "ENOENT" => next \notin DOMAIN t
             /\ Fine(seen) /\ seen.kind = "dir" => next \in DOMAIN t /\ t[next].kind = "dir"
  <2> HIDE DEF t, at
  <2>1. next \in Seq(Name)
    BY <1>1, <1>3 DEF at
  <2>2. Inside(root, Append(at, part))
    BY <1>1, <1>3, InsideFacts
  <2>3. LET was == SymlinkMetadata(t, Append(at, part))
        IN /\ was.err = "ENOENT" => Append(at, part) \notin DOMAIN t
           /\ Fine(was) /\ was.kind = "dir" => Append(at, part) \in DOMAIN t /\ t[Append(at, part)].kind = "dir"
    BY <1>1, <1>3, EntryIs
  <2> QED BY <2>1, <2>2, <2>3 DEF at, t
<1>4. ASSUME Fine(s), part \in Name PROVE Append(walked, part) \in Seq(Name) /\ next = root \o Append(walked, part)
  <2>1. walked \in Seq(Name) /\ at = root \o walked
    BY <1>1, <1>4
  <2>2. Append(walked, part) \in Seq(Name) /\ root \o Append(walked, part) = Append(root \o walked, part)
    BY <2>1, <1>4, SeqFacts
  <2> HIDE DEF at
  <2> QED BY <2>1, <2>2 DEF at
<1> HIDE DEF seen, new
<1>5. CASE ~Fine(s) /\ new = s
  <2>1. WalkedTo(new, fs, root, Append(walked, part))
    BY <1>1, <1>5 DEF WalkedTo
  <2> QED BY <2>1 DEF new
<1>6. CASE new = State("unsafe", at, t)
  <2>1. new.at = at /\ new.fs = t
    BY <1>6, StateFields
  <2>2. ~Fine(new)
    BY <1>6, UnsafeIsNotFine
  <2>3. WalkedTo(new, fs, root, Append(walked, part))
    BY <2>1, <2>2, <1>1 DEF WalkedTo
  <2> QED BY <2>3 DEF new
<1>7. CASE Fine(s) /\ part \in Name /\ seen.err = "ENOENT" /\ new = State(s.err, next, Planted(t, next))
  <2> DEFINE u == Planted(t, next)
  <2>1. new.at = next /\ new.fs = u
    <3>1. new = State(s.err, next, u)
      BY <1>7
    <3> HIDE DEF next, u
    <3> QED BY <3>1, StateFields
  <2>2. next \notin DOMAIN t /\ next \in Seq(Name) /\ Inside(root, next)
    BY <1>3, <1>7
  <2>3. FileTree(u)
    BY <1>1, <1>7, <2>2, PlantedIsATree
  <2>4. DOMAIN u = DOMAIN t \cup {next} /\ u[next] = Directory /\ \A l \in DOMAIN t : u[l] = t[l]
    <3> HIDE DEF next
    <3> QED BY <2>2 DEF Planted
  <2> HIDE DEF u, next
  <2>5. Grown(u, fs, root)
    <3>1. \A l \in DOMAIN fs : l \in DOMAIN t /\ t[l] = fs[l]
      BY <1>1 DEF Grown
    <3>2. \A l \in DOMAIN t : l \notin DOMAIN fs => t[l] = Directory /\ Inside(root, l)
      BY <1>1 DEF Grown
    <3>3. \A l \in DOMAIN fs : l \in DOMAIN u /\ u[l] = fs[l]
      BY <3>1, <2>4
    <3>4. \A l \in DOMAIN u : l \notin DOMAIN fs => u[l] = Directory /\ Inside(root, l)
      BY <3>2, <2>2, <2>4
    <3> QED BY <3>3, <3>4, <2>3 DEF Grown
  <2>6. u[next].kind = "dir"
    BY <2>4, DirectoryIs
  <2>7. Append(walked, part) \in Seq(Name) /\ next = root \o Append(walked, part)
    BY <1>4, <1>7
  <2>8. WalkedTo(new, fs, root, Append(walked, part))
    BY <2>1, <2>2, <2>4, <2>5, <2>6, <2>7 DEF WalkedTo
  <2> QED BY <2>8 DEF new
<1>8. CASE Fine(s) /\ part \in Name /\ Fine(seen) /\ seen.kind = "dir" /\ new = State(s.err, next, t)
  <2>1. new.at = next /\ new.fs = t
    <3> HIDE DEF next, t
    <3> QED BY <1>8, StateFields
  <2>2. next \in DOMAIN t /\ t[next].kind = "dir" /\ Inside(root, next)
    BY <1>3, <1>8
  <2>3. Append(walked, part) \in Seq(Name) /\ next = root \o Append(walked, part)
    BY <1>4, <1>8
  <2> HIDE DEF next
  <2>4. WalkedTo(new, fs, root, Append(walked, part))
    BY <2>1, <2>2, <2>3, <1>1 DEF WalkedTo
  <2> QED BY <2>4 DEF new
<1> QED BY <1>2, <1>5, <1>6, <1>7, <1>8

(* So does the whole walk, which ends without an error only at the end of *)
(* the path.                                                              *)
LEMMA MadeDirectories ==
  ASSUME NEW fs, FileTree(fs), NEW root \in DOMAIN fs, fs[root].kind = "dir", NEW path \in Seq(STRING)
  PROVE  LET made == MakeDirectories(fs, root, path)
         IN  made \in States /\ WalkedTo(made, fs, root, Below(path)) /\ Below(path) \in Seq(Steppable)
PROOF
<1> DEFINE seq == Below(path)
           made == MakeDirectories(fs, root, path)
<1>1. seq \in Seq(Steppable)
  BY SkippedIs, WithoutKeeps
<1>2. fs \in Forest /\ root \in Seq(Name) /\ root \in Seq(STRING)
  BY TreeFacts DEF FileTree, Forest
<1>3. made = MakeAll(fs, root, seq)
  BY DEF MakeDirectories, MakeAll, MakeEnter, Start
<1> HIDE DEF seq, made
<1>4. PICK st \in [0 .. Len(seq) -> States] : Making(st, fs, root, seq) /\ MakeAll(fs, root, seq) = st[Len(seq)]
  BY <1>1, <1>2, MakeAllSteps
<1>5. PICK n \in Nat : n = Len(seq)
  BY <1>1
<1> DEFINE T == {i \in Nat : i <= n => WalkedTo(st[i], fs, root, SubSeq(seq, 1, i))}
<1>6. 0 \in T
  <2>1. st[0] = Start(fs, root)
    BY <1>4 DEF Making
  <2>2. Start(fs, root).at = root /\ Start(fs, root).fs = fs
    BY Zenon DEF Start
  <2>3. Grown(fs, fs, root) /\ Inside(root, root)
    BY <1>2, InsideFacts DEF Grown, Inside, IsPrefix
  <2>4. SubSeq(seq, 1, 0) = <<>> /\ <<>> \in Seq(Name) /\ root \o <<>> = root
    BY <1>1, <1>2
  <2>5. WalkedTo(st[0], fs, root, SubSeq(seq, 1, 0))
    BY <2>1, <2>2, <2>3, <2>4 DEF WalkedTo
  <2> QED BY <2>5
<1>7. ASSUME NEW i \in Nat, i \in T PROVE i + 1 \in T
  <2> SUFFICES ASSUME i + 1 <= n PROVE WalkedTo(st[i + 1], fs, root, SubSeq(seq, 1, i + 1))
    OBVIOUS
  <2>1. i \in 0 .. Len(seq) - 1 /\ i \in 0 .. Len(seq) /\ WalkedTo(st[i], fs, root, SubSeq(seq, 1, i))
    BY <1>5, <1>7
  <2>2. st[i + 1] = MakeEnter(st[i], seq[i + 1]) /\ st[i] \in States
    BY <2>1, <1>4 DEF Making
  <2>3. SubSeq(seq, 1, i + 1) = Append(SubSeq(seq, 1, i), seq[i + 1]) /\ seq[i + 1] \in Steppable
    BY <2>1, <1>1, GrowsByOne
  <2> DEFINE walked == SubSeq(seq, 1, i)
             part   == seq[i + 1]
             s      == st[i]
  <2>4. WalkedTo(s, fs, root, walked) /\ s \in States /\ part \in Steppable
    BY <2>1, <2>2, <2>3
  <2>5. st[i + 1] = MakeEnter(s, part) /\ SubSeq(seq, 1, i + 1) = Append(walked, part)
    BY <2>2, <2>3
  <2> HIDE DEF walked, part, s
  <2>6. WalkedTo(MakeEnter(s, part), fs, root, Append(walked, part))
    BY <2>4, <1>2, MakingGrows
  <2> QED BY <2>5, <2>6
<1>8. n \in T
  <2> HIDE DEF T
  <2> QED BY <1>6, <1>7, Induction
<1>9. SubSeq(seq, 1, n) = seq
  BY <1>1, <1>5, SubSeqFull
<1>10. WalkedTo(made, fs, root, seq) /\ made \in States
  <2>1. WalkedTo(st[n], fs, root, seq)
    BY <1>8, <1>9, SMTT(60)
  <2>2. made = st[n] /\ n \in 0 .. Len(seq)
    BY <1>3, <1>4, <1>5
  <2> QED BY <2>1, <2>2, <1>4
<1> QED BY <1>1, <1>10 DEF made, seq

(* What Without leaves and what it drops is all there was.                *)
LEMMA WithoutLeaves ==
  ASSUME NEW B, NEW C, NEW dropped, NEW seq \in Seq(B), Without(seq, dropped) \in Seq(C)
  PROVE  seq \in Seq(C \cup dropped)
PROOF
<1>0. PICK st \in [0 .. Len(seq) -> Seq(B)] : Keeping(st, seq, dropped) /\ Without(seq, dropped) = st[Len(seq)]
  <2>1. Stepwise(B, dropped, seq)
    BY WithoutSteps
  <2> QED BY <2>1 DEF Stepwise
<1>1. \A i \in 0 .. Len(seq) - 1 :
         st[i + 1] = IF seq[i + 1] \in dropped THEN st[i] ELSE Append(st[i], seq[i + 1])
  BY <1>0 DEF Keeping
<1>2. PICK n \in Nat : n = Len(seq) /\ DOMAIN seq = 1 .. n
  OBVIOUS
<1>3. ASSUME NEW q \in Seq(B), NEW e \in B, Append(q, e) \in Seq(C)
      PROVE  q \in Seq(C) /\ e \in C
  <2>1. PICK m \in Nat : Len(q) = m /\ Len(Append(q, e)) = m + 1
    OBVIOUS
  <2>2. \A i \in 1 .. m : Append(q, e)[i] = q[i]
    BY <2>1
  <2>3. \A i \in 1 .. m + 1 : Append(q, e)[i] \in C
    BY <1>3, <2>1
  <2>4. \A i \in 1 .. m : q[i] \in C
    <3> SUFFICES ASSUME NEW i \in 1 .. m PROVE q[i] \in C
      OBVIOUS
    <3>1. i \in 1 .. m + 1
      OBVIOUS
    <3>2. Append(q, e)[i] \in C
      BY <3>1, <2>3
    <3> QED BY <3>2, <2>2
  <2>5. e \in C
    <3>1. Append(q, e)[m + 1] = e /\ m + 1 \in 1 .. m + 1
      BY <2>1
    <3> QED BY <3>1, <2>3
  <2> QED BY <2>1, <2>4, <2>5
<1> DEFINE T == {k \in Nat : k <= n => st[n - k] \in Seq(C) /\ \A i \in (n - k) + 1 .. n : seq[i] \in C \cup dropped}
<1>4. 0 \in T
  <2>1. n - 0 = n /\ st[n] \in Seq(C)
    BY <1>0, <1>2
  <2>2. \A i \in n + 1 .. n : FALSE
    OBVIOUS
  <2> QED BY <2>1, <2>2
<1>5. ASSUME NEW k \in Nat, k \in T PROVE k + 1 \in T
  <2> SUFFICES ASSUME k + 1 <= n
               PROVE  st[n - (k + 1)] \in Seq(C) /\ \A i \in (n - (k + 1)) + 1 .. n : seq[i] \in C \cup dropped
    BY SMTT(60)
  <2>1. PICK j \in Nat : j = n - (k + 1) /\ n - k = j + 1 /\ j \in 0 .. Len(seq) - 1 /\ j < n
    <3>1. n - (k + 1) \in Nat /\ n - k = (n - (k + 1)) + 1 /\ n - (k + 1) \in 0 .. n - 1 /\ n - (k + 1) < n
      OBVIOUS
    <3> QED BY <3>1, <1>2, ZenonT(60)
  <2>2. st[j + 1] \in Seq(C) /\ \A i \in (j + 1) + 1 .. n : seq[i] \in C \cup dropped
    BY <1>5, <2>1
  <2>3. st[j] \in Seq(B) /\ seq[j + 1] \in B
    BY <2>1, NextOfPrefix
  <2>4. st[j + 1] = IF seq[j + 1] \in dropped THEN st[j] ELSE Append(st[j], seq[j + 1])
    BY <2>1, <1>1
  <2>5. st[j] \in Seq(C) /\ seq[j + 1] \in C \cup dropped
    <3>1. CASE seq[j + 1] \in dropped
      BY <3>1, <2>2, <2>4
    <3>2. CASE seq[j + 1] \notin dropped
      BY <3>2, <2>2, <2>3, <2>4, <1>3
    <3> QED BY <3>1, <3>2
  <2>6. \A i \in j + 1 .. n : i = j + 1 \/ i \in (j + 1) + 1 .. n
    OBVIOUS
  <2> QED BY <2>1, <2>2, <2>5, <2>6, SMTT(60)
<1>6. n \in T
  <2> HIDE DEF T
  <2> QED BY <1>4, <1>5, Induction
<1>7. \A i \in 1 .. n : seq[i] \in C \cup dropped
  <2>1. (n - n) + 1 = 1
    OBVIOUS
  <2> QED BY <2>1, <1>6
<1> QED BY <1>2, <1>7

(* The path just walked is resolved to where the walk ended.              *)
LEMMA PathIsWalked ==
  ASSUME NEW t, FileTree(t), NEW root \in DOMAIN t, t[root].kind = "dir",
         NEW path \in Seq(STRING), Below(path) \in Seq(Name),
         root \o Below(path) \in DOMAIN t, t[root \o Below(path)].kind = "dir"
  PROVE  Canonicalize(t, root \o path) = Found(root \o Below(path))
PROOF
<1>1. Canonicalize(t, root) = Found(root) /\ root \in Seq(STRING)
  BY SettledIsReal, TreeFacts
<1>2. PICK k \in 0 .. MaxLinks : Canonicalize(t, root \o path) = Walk(t, root, path, k)
  BY <1>1, ResolveOn
<1> DEFINE s == Here(root, path, k)
<1>3. s.at = root /\ s.todo = path
  BY HereIs
<1>4. s \in Positions(t)
  <2>1. k \in Nat
    BY DEF MaxLinks
  <2> QED BY <2>1 DEF Positions, Here
<1>5. WalkFrom(t, s) = Walk(t, root, path, k)
  BY WalkHere
<1>6. Below(path) = Without(path, Skipped)
  BY SkippedIs
<1>7. path \in Seq(Name \cup Skipped)
  BY <1>6, WithoutLeaves
<1> HIDE DEF s
<1>8. WalkFrom(t, s) = Found(s.at \o Without(s.todo, Skipped))
  BY <1>3, <1>4, <1>6, <1>7, WalkSkips
<1> QED BY <1>2, <1>3, <1>5, <1>6, <1>8

(* Whatever tree, root and path: the two walks that create directories    *)
(* agree; they change nothing that was there, create empty directories    *)
(* inside the root only, none of them below a link, and what they answer  *)
(* is one of them or was there (runner/orchestration.rs,                  *)
(* ensure_private_contained_directory; cli/commands.rs).                  *)
LEMMA Directories ==
  ASSUME NEW fs, FileTree(fs), NEW root \in DOMAIN fs, fs[root].kind = "dir", NEW path \in Seq(STRING)
  PROVE  DirectoriesAreContained(fs, root, path)
PROOF
<1> DEFINE made  == MakeDirectories(fs, root, path)
           final == Canonicalize(made.fs, root \o path)
           private   == EnsurePrivateContainedDirectory(fs, root, path)
           contained == WalkContainedDirectory(fs, root, path)
           t    == made.fs
           none == ""
<1>1. contained = made
  BY DEF WalkContainedDirectory
<1>2. made \in States /\ WalkedTo(made, fs, root, Below(path))
  BY MadeDirectories
<1>3. Canonicalize(fs, root).at = root
  <2>1. Canonicalize(fs, root) = Found(root)
    BY SettledIsReal
  <2> QED BY <2>1, ResultFields
<1>4. private = IF made.err # none THEN made
                ELSE IF final.err # none \/ ~Inside(root, final.at) THEN [made EXCEPT !.err = "unsafe"]
                ELSE made
  BY <1>3 DEF EnsurePrivateContainedDirectory
<1>5. Fine(made) <=> made.err = none
  BY DEF Fine
<1> HIDE DEF made
<1>6. /\ FileTree(t) /\ \A l \in DOMAIN fs : l \in DOMAIN t /\ t[l] = fs[l]
      /\ \A l \in DOMAIN t : l \notin DOMAIN fs => t[l] = Directory /\ Inside(root, l)
      /\ made.at \in DOMAIN t /\ t[made.at].kind = "dir" /\ Inside(root, made.at)
      /\ Fine(made) => Below(path) \in Seq(Name) /\ made.at = root \o Below(path)
  BY <1>2 DEF WalkedTo, Grown
<1> HIDE DEF t
<1>7. ASSUME Fine(made) PROVE final = Found(made.at)
  <2>1. root \in DOMAIN t /\ t[root].kind = "dir"
    BY <1>6
  <2>2. Canonicalize(t, root \o path) = Found(root \o Below(path))
    BY <1>6, <1>7, <2>1, PathIsWalked
  <2> QED BY <2>2, <1>6, <1>7 DEF t
<1>8. Found(made.at).err = none /\ Found(made.at).at = made.at
  BY ResultFields
<1> HIDE DEF final, private, contained, none
<1>9. private = made
  BY <1>4, <1>5, <1>6, <1>7, <1>8
<1>10. \A l \in DOMAIN t : t[l].kind = "dir" /\ Inside(root, l) => StaysInside(t, root, l)
  <2> SUFFICES ASSUME NEW l \in DOMAIN t, t[l].kind = "dir", Inside(root, l) PROVE StaysInside(t, root, l)
    OBVIOUS
  <2>1. Straight(t, l)
    BY <1>6, SettledIsReal
  <2> QED BY <2>1, <1>6, StraightStays
<1>11. Restrict(t, DOMAIN fs) = fs
  <2>1. fs = [l \in DOMAIN fs |-> fs[l]]
    BY DEF FileTree
  <2> QED BY <2>1, <1>6 DEF Restrict
<1>12. \A l \in DOMAIN t \ DOMAIN fs : t[l] = Directory /\ StaysInside(t, root, l)
  BY <1>6, <1>10, DirectoryIs
<1>13. StaysInside(t, root, made.at)
  BY <1>6, <1>10
<1>14. private.fs = t
  BY <1>9 DEF t
<1>15. private = contained /\ Restrict(private.fs, DOMAIN fs) = fs
  BY <1>1, <1>9, <1>11, <1>14
<1>16. \A l \in DOMAIN private.fs \ DOMAIN fs : private.fs[l] = Directory /\ StaysInside(private.fs, root, l)
  BY <1>12, <1>14
<1>17. StaysInside(private.fs, root, private.at) /\ private.at \in DOMAIN private.fs
       /\ private.fs[private.at].kind = "dir"
  BY <1>6, <1>9, <1>13, <1>14
<1> QED BY <1>15, <1>16, <1>17, Zenon DEF DirectoriesAreContained, private, contained

(* A worktree destination that is accepted is not there yet (git/lib.rs,  *)
(* validate_worktree_destination).                                        *)
LEMMA Worktrees ==
  ASSUME NEW fs, FileTree(fs), NEW path \in Seq(STRING)
  PROVE  WorktreesAreNew(fs, path)
PROOF
<1> DEFINE names  == Normals(path)
           parent == Canonicalize(fs, Front(names))
           dropped == {"", ".", ".."}
           special == Special \cup {""}
<1> SUFFICES ASSUME ValidateWorktreeDestination(fs, path), Last(path) \notin special
             PROVE  Append(parent.at, Last(path)) \notin DOMAIN fs
  BY Zenon DEF WorktreesAreNew
<1>1. Absolute(path) /\ SymlinkMetadata(fs, names).err = "ENOENT" /\ Fine(parent)
  BY Zenon DEF ValidateWorktreeDestination, Fine
<1>2. path # <<>>
  <2>1. Len(path) > 1
    BY Zenon, <1>1 DEF Absolute
  <2> HIDE DEF names, parent, dropped, special
  <2>2. Len(<<>>) = 0
    OBVIOUS
  <2> QED BY <2>1, <2>2
<1>3. Last(path) \notin dropped
  BY Zenon DEF Special
<1>4. names = Without(path, dropped)
  BY Zenon DEF Normals
<1> HIDE DEF special
<1>5. names # <<>> /\ Last(names) = Last(path)
  <2> HIDE DEF dropped, names
  <2> QED BY <1>2, <1>3, <1>4, WithoutLast
<1>6. names \in Seq(STRING)
  <2>1. names \in Seq(STRING \ dropped)
    <3> HIDE DEF dropped, names
    <3> QED BY <1>4, WithoutKeeps
  <2> HIDE DEF dropped, names
  <2>2. Seq(STRING \ dropped) \subseteq Seq(STRING)
    <3>1. \A S, R : S \subseteq R => Seq(S) \subseteq Seq(R)
      OBVIOUS
    <3> QED BY <3>1
  <2> QED BY <2>1, <2>2
<1> DEFINE front == Front(names)
           last  == Last(names)
<1>7. front \in Seq(STRING) /\ last \in STRING /\ names = Append(front, last)
  <2> HIDE DEF names, dropped
  <2> QED BY <1>5, <1>6, FrontAndLast
<1>8. SymlinkMetadata(fs, Append(front, last)).err = "ENOENT" /\ Fine(Canonicalize(fs, front))
  BY <1>1, <1>7
<1> HIDE DEF names, dropped, front, last
<1>9. Append(Canonicalize(fs, front).at, last) \notin DOMAIN fs
  BY <1>7, <1>8, MetadataIs DEF Fine
<1> QED BY <1>5, <1>9 DEF front, last

(* What lstat finds is there.                                             *)
LEMMA LinkIsThere ==
  ASSUME NEW fs, FileTree(fs), NEW at \in Seq(STRING), at # <<>>,
         Fine(SymlinkMetadata(fs, at))
  PROVE  LET seen == SymlinkMetadata(fs, at)
         IN  seen.at \in DOMAIN fs /\ seen.kind = fs[seen.at].kind
PROOF
<1> DEFINE front  == Front(at)
           last   == Last(at)
           parent == Canonicalize(fs, front)
           entry  == Append(parent.at, last)
           seen   == SymlinkMetadata(fs, Append(front, last))
<1>1. front \in Seq(STRING) /\ last \in STRING /\ at = Append(front, last)
  BY FrontAndLast
<1> HIDE DEF front, last
<1>2. /\ ~Fine(parent) => seen = parent
      /\ Fine(parent) /\ entry \in DOMAIN fs => seen.at = entry /\ seen.kind = fs[entry].kind
      /\ Fine(parent) /\ entry \notin DOMAIN fs => seen \in {Refuse("ENOENT"), Refuse("ENOTDIR")}
  <2>1. /\ parent.err # "" => seen = parent
        /\ parent.err = "" /\ entry \in DOMAIN fs => seen.at = entry /\ seen.kind = fs[entry].kind
        /\ parent.err = "" /\ entry \notin DOMAIN fs => seen \in {Refuse("ENOENT"), Refuse("ENOTDIR")}
    BY <1>1, MetadataIs
  <2> HIDE DEF parent, entry, seen
  <2> QED BY <2>1 DEF Fine
<1>3. ~Fine(Refuse("ENOENT")) /\ ~Fine(Refuse("ENOTDIR"))
  <2>1. Refuse("ENOENT").err = "ENOENT" /\ Refuse("ENOTDIR").err = "ENOTDIR"
    BY ResultFields
  <2>2. \A r : r.err = "ENOENT" \/ r.err = "ENOTDIR" => ~Fine(r)
    BY DEF Fine
  <2> QED BY <2>1, <2>2
<1>4. Fine(seen)
  BY <1>1
<1> HIDE DEF seen, entry, parent
<1>5. seen.at \in DOMAIN fs /\ seen.kind = fs[seen.at].kind
  BY <1>2, <1>3, <1>4
<1> QED BY <1>1, <1>5 DEF seen

(* One part of a target, for the depth and for the lexical end.           *)
ClimbPart(depth, part) ==
  IF depth < 0 THEN depth
  ELSE IF part = ".." THEN depth - 1
  ELSE IF part = "." THEN depth ELSE depth + 1

ClimbAll(from, seq) ==
  LET Climb(depth, part) == ClimbPart(depth, part)
  IN  FoldLeft(Climb, from, seq)

GoPart(at, part) ==
  IF part = ".." THEN IF at = <<>> THEN at ELSE Front(at)
  ELSE IF part = "." THEN at ELSE Append(at, part)

(* A lexical step leads from path to path.                                *)
LEMMA GoStays ==
  ASSUME NEW S, NEW x \in Seq(S), NEW y \in S
  PROVE  GoPart(x, y) \in Seq(S)
PROOF
<1>1. x # <<>> => Front(x) \in Seq(S)
  BY FrontAndLast
<1>2. Append(x, y) \in Seq(S)
  OBVIOUS
<1> QED BY <1>1, <1>2 DEF GoPart

(* st is the depth, prefix by prefix.                                     *)
Climbing(st, from, seq) ==
  /\ st[0] = from
  /\ \A i \in 0 .. Len(seq) - 1 : st[i + 1] = ClimbPart(st[i], seq[i + 1])

(* The depth of changed_symlink_escapes, step by step.                    *)
LEMMA ClimbAllSteps ==
  ASSUME NEW S, NEW from \in Int, NEW seq \in Seq(S)
  PROVE  \E st \in [0 .. Len(seq) -> Int] :
            Climbing(st, from, seq) /\ ClimbAll(from, seq) = st[Len(seq)]
PROOF
<1> DEFINE Op(x, y) == ClimbPart(x, y)
           op == [p \in Int \X S |-> Op(p[1], p[2])]
           P(h) == h = [s \in SUBSET DOMAIN seq |->
                          IF s = {} THEN from ELSE Op(h[s \ {Max(s)}], seq[Max(s)])]
           g == CHOOSE h : P(h)
<1>1. (\A x \in Int, y \in S : Op(x, y) \in Int) /\ from \in Int
  BY DEF ClimbPart
<1>2. op \in [Int \X S -> Int] /\ \A x \in Int, y \in S : op[<<x, y>>] = Op(x, y)
  <2> HIDE DEF Op
  <2> QED BY <1>1
<1>3. P(g)
  <2>1. PICK f \in [SUBSET DOMAIN seq -> Int] : Folds(f, op, from, seq)
    <3> HIDE DEF op
    <3> QED BY <1>1, <1>2, FoldDefined
  <2>2. \A s \in SUBSET DOMAIN seq : s # {} => f[s \ {Max(s)}] \in Int /\ seq[Max(s)] \in S
    <3> DEFINE A == Int
    <3> HIDE DEF op, Op, P, A
    <3>1. f \in [SUBSET DOMAIN seq -> A]
      BY DEF A
    <3>2. ASSUME NEW s \in SUBSET DOMAIN seq, s # {}
          PROVE  f[s \ {Max(s)}] \in A /\ seq[Max(s)] \in S
      BY <3>1, <3>2, NextOfFold
    <3> QED BY <3>2 DEF A
  <2>3. P(f)
    <3> HIDE DEF op, Op
    <3> QED BY <2>1, <2>2, <1>2 DEF Folds
  <2> HIDE DEF P
  <2> QED BY <2>3
<1>4. ClimbAll(from, seq) = g[DOMAIN seq]
  BY DEF ClimbAll, FoldLeft, MapThenFoldSet
<1> HIDE DEF g
<1>5. PICK st \in [0 .. Len(seq) -> Int] : Steps(st, op, from, seq, g[DOMAIN seq])
  <2>1. g[{}] = from
    <3> HIDE DEF Op
    <3> QED BY <1>3
  <2>2. \A s \in SUBSET DOMAIN seq :
           s # {} /\ g[s \ {Max(s)}] \in Int /\ seq[Max(s)] \in S => g[s] = op[<<g[s \ {Max(s)}], seq[Max(s)]>>]
    <3> HIDE DEF op, Op
    <3> QED BY <1>3, <1>2, ZenonT(60)
  <2> HIDE DEF op, P
  <2> QED BY <2>1, <2>2, <1>1, <1>2, FoldPrefixes
<1>6. \A i \in 0 .. Len(seq) - 1 : st[i + 1] = Op(st[i], seq[i + 1])
  <2> HIDE DEF op, Op, P
  <2> QED BY <1>2, <1>5, NextOfPrefix DEF Steps
<1> HIDE DEF op, P
<1> QED BY <1>4, <1>5, <1>6 DEF Steps, Climbing

(* st is the lexical end, prefix by prefix.                               *)
Going(st, from, seq) ==
  /\ st[0] = from
  /\ \A i \in 0 .. Len(seq) - 1 : st[i + 1] = GoPart(st[i], seq[i + 1])

(* The lexical end of a target, step by step.                             *)
LEMMA LexicalSteps ==
  ASSUME NEW S, NEW from \in Seq(S), NEW seq \in Seq(S)
  PROVE  \E st \in [0 .. Len(seq) -> Seq(S)] :
            Going(st, from, seq) /\ LexicalEnd(from, seq) = st[Len(seq)]
PROOF
<1> DEFINE Op(x, y) == GoPart(x, y)
           op == [p \in Seq(S) \X S |-> Op(p[1], p[2])]
           P(h) == h = [s \in SUBSET DOMAIN seq |->
                          IF s = {} THEN from ELSE Op(h[s \ {Max(s)}], seq[Max(s)])]
           g == CHOOSE h : P(h)
<1>1. (\A x \in Seq(S), y \in S : Op(x, y) \in Seq(S)) /\ from \in Seq(S)
  <2>1. \A x \in Seq(S), y \in S : GoPart(x, y) \in Seq(S)
    BY GoStays
  <2> QED BY <2>1
<1>2. op \in [Seq(S) \X S -> Seq(S)] /\ \A x \in Seq(S), y \in S : op[<<x, y>>] = Op(x, y)
  <2> HIDE DEF Op
  <2> QED BY <1>1
<1>3. P(g)
  <2>1. PICK f \in [SUBSET DOMAIN seq -> Seq(S)] : Folds(f, op, from, seq)
    <3> HIDE DEF op
    <3> QED BY <1>1, <1>2, FoldDefined
  <2>2. \A s \in SUBSET DOMAIN seq : s # {} => f[s \ {Max(s)}] \in Seq(S) /\ seq[Max(s)] \in S
    <3> DEFINE A == Seq(S)
    <3> HIDE DEF op, Op, P, A
    <3>1. f \in [SUBSET DOMAIN seq -> A]
      BY DEF A
    <3>2. ASSUME NEW s \in SUBSET DOMAIN seq, s # {}
          PROVE  f[s \ {Max(s)}] \in A /\ seq[Max(s)] \in S
      BY <3>1, <3>2, NextOfFold
    <3> QED BY <3>2 DEF A
  <2>3. P(f)
    <3> HIDE DEF op, Op
    <3> QED BY <2>1, <2>2, <1>2 DEF Folds
  <2> HIDE DEF P
  <2> QED BY <2>3
<1>4. LexicalEnd(from, seq) = g[DOMAIN seq]
  BY DEF LexicalEnd, GoPart, FoldLeft, MapThenFoldSet
<1> HIDE DEF g
<1>5. PICK st \in [0 .. Len(seq) -> Seq(S)] : Steps(st, op, from, seq, g[DOMAIN seq])
  <2>1. g[{}] = from
    <3> HIDE DEF Op
    <3> QED BY <1>3
  <2>2. \A s \in SUBSET DOMAIN seq :
           s # {} /\ g[s \ {Max(s)}] \in Seq(S) /\ seq[Max(s)] \in S => g[s] = op[<<g[s \ {Max(s)}], seq[Max(s)]>>]
    <3> HIDE DEF op, Op
    <3> QED BY <1>3, <1>2, ZenonT(60)
  <2> HIDE DEF op, P
  <2> QED BY <2>1, <2>2, <1>1, <1>2, FoldPrefixes
<1>6. \A i \in 0 .. Len(seq) - 1 : st[i + 1] = Op(st[i], seq[i + 1])
  <2> HIDE DEF op, Op, P
  <2> QED BY <1>2, <1>5, NextOfPrefix DEF Steps
<1> HIDE DEF op, P
<1> QED BY <1>4, <1>5, <1>6 DEF Steps, Going

(* A depth that is not negative measures the way down from the root.      *)
Level(depth, at, root, S) ==
  depth >= 0 => \E q \in Seq(S) : at = root \o q /\ Len(q) = depth

(* A depth that is not negative is how far below the root the target has  *)
(* led so far.                                                            *)
LEMMA LevelKeeps ==
  ASSUME NEW S, NEW depth \in Int, NEW at \in Seq(S), NEW root \in Seq(S), NEW part \in S,
         Level(depth, at, root, S)
  PROVE  Level(ClimbPart(depth, part), GoPart(at, part), root, S)
PROOF
<1> DEFINE d == ClimbPart(depth, part)
           l == GoPart(at, part)
<1> SUFFICES ASSUME d >= 0 PROVE \E q \in Seq(S) : l = root \o q /\ Len(q) = d
  BY DEF Level
<1>1. depth >= 0
  BY DEF ClimbPart
<1>2. PICK q \in Seq(S) : at = root \o q /\ Len(q) = depth
  BY <1>1 DEF Level
<1>3. CASE part = ".."
  <2>1. d = depth - 1 /\ q # <<>>
    <3>1. d = depth - 1 /\ depth > 0
      BY <1>1, <1>3 DEF ClimbPart
    <3> QED BY <3>1, <1>2
  <2>2. Front(q) \in Seq(S) /\ q = Append(Front(q), Last(q)) /\ Last(q) \in S
    BY <2>1, FrontAndLast
  <2> DEFINE f == Front(q)
             e == Last(q)
  <2> HIDE DEF f, e
  <2>3. f \in Seq(S) /\ e \in S /\ q = Append(f, e)
    BY <2>2 DEF f, e
  <2>4. at = Append(root \o f, e) /\ root \o f \in Seq(S)
    BY <1>2, <2>3, SeqFacts
  <2>5. at # <<>> /\ Front(at) = root \o f
    BY <2>3, <2>4, FrontOfAppend
  <2>6. l = root \o f
    BY <1>3, <2>5 DEF GoPart
  <2>7. Len(f) = d
    <3>1. Len(q) = Len(f) + 1 /\ Len(f) \in Nat
      BY <2>3
    <3> HIDE DEF d
    <3> QED BY <3>1, <2>1, <1>2
  <2> QED BY <2>3, <2>6, <2>7
<1>4. CASE part = "."
  <2>1. d = depth /\ l = at
    BY <1>1, <1>4 DEF ClimbPart, GoPart
  <2> QED BY <2>1, <1>2
<1>5. CASE part # ".." /\ part # "."
  <2>1. d = depth + 1 /\ l = Append(at, part)
    BY <1>1, <1>5 DEF ClimbPart, GoPart
  <2>2. Append(q, part) \in Seq(S) /\ root \o Append(q, part) = Append(root \o q, part)
    BY <1>2, SeqFacts
  <2>3. Len(Append(q, part)) = Len(q) + 1
    BY <1>2
  <2> HIDE DEF d, l
  <2>4. Len(Append(q, part)) = d /\ l = root \o Append(q, part)
    BY <2>1, <2>2, <2>3, <1>2
  <2> QED BY <2>2, <2>4
<1> QED BY <1>3, <1>4, <1>5

(* A target that never climbs above the root on its way ends inside it.   *)
LEMMA NeverAbove ==
  ASSUME NEW S, NEW root \in Seq(S), NEW q \in Seq(S), NEW seq \in Seq(S),
         ClimbAll(Len(q), seq) >= 0
  PROVE  Inside(root, LexicalEnd(root \o q, seq))
PROOF
<1>1. Len(q) \in Int /\ root \o q \in Seq(S)
  OBVIOUS
<1>2. PICK ds \in [0 .. Len(seq) -> Int] : Climbing(ds, Len(q), seq) /\ ClimbAll(Len(q), seq) = ds[Len(seq)]
  BY <1>1, ClimbAllSteps
<1>3. PICK ls \in [0 .. Len(seq) -> Seq(S)] :
             Going(ls, root \o q, seq) /\ LexicalEnd(root \o q, seq) = ls[Len(seq)]
  BY <1>1, LexicalSteps
<1>4. PICK n \in Nat : n = Len(seq)
  OBVIOUS
<1> DEFINE T == {i \in Nat : i <= n => Level(ds[i], ls[i], root, S)}
<1>5. 0 \in T
  <2>1. ds[0] = Len(q) /\ ls[0] = root \o q
    BY <1>2, <1>3 DEF Climbing, Going
  <2>2. Level(Len(q), root \o q, root, S)
    BY DEF Level
  <2> QED BY <2>1, <2>2
<1>6. ASSUME NEW i \in Nat, i \in T PROVE i + 1 \in T
  <2> SUFFICES ASSUME i + 1 <= n PROVE Level(ds[i + 1], ls[i + 1], root, S)
    OBVIOUS
  <2>1. i \in 0 .. Len(seq) - 1 /\ Level(ds[i], ls[i], root, S)
    BY <1>4, <1>6
  <2>2. ds[i + 1] = ClimbPart(ds[i], seq[i + 1]) /\ ls[i + 1] = GoPart(ls[i], seq[i + 1])
    BY <2>1, <1>2, <1>3 DEF Climbing, Going
  <2>3. ds[i] \in Int /\ seq[i + 1] \in S
    BY <2>1, NextOfPrefix
  <2>4. ls[i] \in Seq(S)
    BY <2>1, NextOfPrefix
  <2> QED BY <2>1, <2>2, <2>3, <2>4, LevelKeeps
<1>7. n \in T
  <2> HIDE DEF T
  <2> QED BY <1>5, <1>6, Induction
<1>8. Level(ClimbAll(Len(q), seq), LexicalEnd(root \o q, seq), root, S)
  BY <1>2, <1>3, <1>4, <1>7
<1>9. PICK r \in Seq(S) : LexicalEnd(root \o q, seq) = root \o r
  BY <1>8 DEF Level
<1>10. IsPrefix(root, root \o r)
  BY DEF IsPrefix
<1> QED BY <1>9, <1>10 DEF Inside

(* The texts of components.                                               *)
Written == STRING \cup {"/", "."}

(* Components are texts.                                                  *)
LEMMA ComponentsAreTexts ==
  ASSUME NEW path \in Seq(STRING)
  PROVE  Components(path) \in Seq(Written)
PROOF
<1> DEFINE dropped == {"", "."}
           lead == IF Absolute(path) THEN <<"/">> ELSE IF IsPrefix(<<".">>, path) THEN <<".">> ELSE <<>>
<1>1. Components(path) = lead \o Without(path, dropped)
  BY Zenon DEF Components
<1>2. lead \in Seq(Written)
  <2>1. \A s \in Written : <<s>> \in Seq(Written)
    OBVIOUS
  <2>2. "/" \in Written /\ "." \in Written
    BY DEF Written
  <2>3. <<>> \in Seq(Written)
    OBVIOUS
  <2> QED BY <2>1, <2>2, <2>3, Zenon
<1>3. Without(path, dropped) \in Seq(Written)
  <2> HIDE DEF dropped
  <2>1. Without(path, dropped) \in Seq(STRING \ dropped)
    BY WithoutKeeps
  <2>2. \A S, R : S \subseteq R => Seq(S) \subseteq Seq(R)
    OBVIOUS
  <2>3. STRING \ dropped \subseteq Written
    BY DEF Written
  <2> QED BY <2>1, <2>2, <2>3
<1>4. \A a, b \in Seq(Written) : a \o b \in Seq(Written)
  OBVIOUS
<1> HIDE DEF lead, dropped
<1> QED BY <1>1, <1>2, <1>3, <1>4

(* Whatever tree, root and path: a changed link that can be resolved is   *)
(* judged by where it leads, and one whose target is missing is refused   *)
(* when its text leads outside (runner/orchestration.rs,                  *)
(* changed_symlink_escapes).                                              *)
LEMMA ChangedLinks ==
  ASSUME NEW fs, FileTree(fs), NEW root \in DOMAIN fs, fs[root].kind = "dir",
         NEW path \in Seq(STRING), path # <<>>
  PROVE  ChangedLinksAreJudged(fs, root, path)
PROOF
<1> DEFINE judged   == ChangedSymlinkEscapes(fs, root, path)
           at       == root \o path
           names    == Normals(path)
           seen     == SymlinkMetadata(fs, at)
           resolved == Canonicalize(fs, at)
           target   == Components(fs[seen.at].target)
           depth    == ClimbAll(Len(names) - 1, target)
           lexical  == LexicalEnd(Front(seen.at), target)
           absolute == Absolute(fs[seen.at].target)
           none     == ""
<1> SUFFICES ASSUME Fine(seen), seen.kind = "link"
             PROVE  /\ Fine(resolved) => judged = IF Inside(root, resolved.at) THEN "no" ELSE "yes"
                    /\ /\ resolved.err = "ENOENT" /\ ~absolute
                       /\ seen.at = root \o names
                       /\ ~Inside(root, lexical)
                       => judged = "yes"
  BY Zenon DEF ChangedLinksAreJudged, Fine
<1>1. judged = IF seen.err = "ENOENT" THEN "no"
               ELSE IF seen.err # none THEN "error"
               ELSE IF seen.kind # "link" THEN "no"
               ELSE IF resolved.err = none THEN IF Inside(root, resolved.at) THEN "no" ELSE "yes"
               ELSE IF resolved.err # "ENOENT" THEN "error"
               ELSE IF absolute \/ depth < 0 THEN "yes" ELSE "no"
  BY DEF ChangedSymlinkEscapes, ClimbAll, ClimbPart
<1>2. (Fine(seen) <=> seen.err = none) /\ (Fine(resolved) <=> resolved.err = none) /\ none # "ENOENT"
  BY DEF Fine
<1>3. root \in Seq(STRING) /\ at \in Seq(STRING) /\ at # <<>>
  <2>1. root \in Seq(STRING)
    BY TreeFacts
  <2>2. \A a, b \in Seq(STRING) : b # <<>> => a \o b \in Seq(STRING) /\ a \o b # <<>>
    OBVIOUS
  <2> HIDE DEF judged, names, seen, resolved, none
  <2> QED BY <2>1, <2>2
<1>4. seen.at \in DOMAIN fs /\ fs[seen.at].kind = "link"
  BY <1>3, LinkIsThere
<1>5. target \in Seq(Written)
  <2>1. fs[seen.at].target \in Seq(STRING)
    BY <1>4, TreeFacts
  <2> QED BY <2>1, ComponentsAreTexts
<1>6. names \in Seq(STRING)
  <2> DEFINE dropped == {"", ".", ".."}
  <2>1. names = Without(path, dropped)
    BY Zenon DEF Normals
  <2> HIDE DEF dropped
  <2>2. names \in Seq(STRING \ dropped)
    BY <2>1, WithoutKeeps
  <2>3. \A S, R : S \subseteq R => Seq(S) \subseteq Seq(R)
    OBVIOUS
  <2> HIDE DEF names
  <2> QED BY <2>2, <2>3
<1> HIDE DEF judged, at, names, seen, resolved, target, none, absolute
<1>7. ASSUME seen.at = root \o names, ~Inside(root, lexical)
      PROVE  depth < 0
  <2> SUFFICES ASSUME ~(depth < 0) PROVE FALSE
    OBVIOUS
  <2>1. names # <<>>
    <3>1. root \o <<>> = root
      BY <1>3
    <3> QED BY <3>1, <1>4, <1>7
  <2> DEFINE f == Front(names)
             e == Last(names)
  <2>2. f \in Seq(STRING) /\ e \in STRING /\ names = Append(f, e)
    BY <2>1, <1>6, FrontAndLast
  <2> HIDE DEF f, e, depth, lexical
  <2>3. Len(f) = Len(names) - 1 /\ Len(f) \in Int
    BY <2>2
  <2>4. Front(seen.at) = root \o f
    <3>1. seen.at = Append(root \o f, e) /\ root \o f \in Seq(STRING)
      BY <1>3, <1>7, <2>2, SeqFacts
    <3> QED BY <3>1, <2>2, FrontOfAppend
  <2>5. depth = ClimbAll(Len(f), target) /\ lexical = LexicalEnd(root \o f, target)
    BY <2>3, <2>4 DEF depth, lexical
  <2>6. depth \in Int
    <3>1. PICK ds \in [0 .. Len(target) -> Int] :
                 Climbing(ds, Len(f), target) /\ ClimbAll(Len(f), target) = ds[Len(target)]
      BY <1>5, <2>3, ClimbAllSteps
    <3>2. Len(target) \in 0 .. Len(target)
      BY <1>5
    <3> QED BY <3>1, <3>2, <2>5
  <2>7. ClimbAll(Len(f), target) >= 0
    BY <2>5, <2>6
  <2>8. Inside(root, lexical)
    <3>1. root \in Seq(Written) /\ f \in Seq(Written)
      <4>1. \A S, R : S \subseteq R => Seq(S) \subseteq Seq(R)
        OBVIOUS
      <4> QED BY <4>1, <1>3, <2>2 DEF Written
    <3> QED BY <3>1, <1>5, <2>5, <2>7, NeverAbove
  <2> QED BY <2>8, <1>7
<1> HIDE DEF depth, lexical
<1>8. Fine(resolved) => judged = IF Inside(root, resolved.at) THEN "no" ELSE "yes"
  BY <1>1, <1>2
<1>9. /\ resolved.err = "ENOENT" /\ ~absolute
      /\ seen.at = root \o names
      /\ ~Inside(root, lexical)
      => judged = "yes"
  BY <1>1, <1>2, <1>7
<1> QED BY <1>8, <1>9

(* For every tree, every base and every path, PathsStayInside: what the   *)
(* program accepts to write to lies inside the directory it was asked     *)
(* for, with no link above it, and nothing is created elsewhere           *)
(* (core/path.rs, git/lib.rs, runner/orchestration.rs, cli/commands.rs).  *)
THEOREM PathsAreContained ==
  ASSUME NEW fs, FileTree(fs), NEW base \in Seq(Name), NEW path \in PathText
  PROVE  /\ WorktreesAreNew(fs, path)
         /\ SafeJoinIsInside(fs, base, path)
         /\ ArtifactsAreInside(fs, base, path)
         /\ base \in DOMAIN fs /\ fs[base].kind = "dir" =>
              DirectoriesAreContained(fs, base, path) /\ ChangedLinksAreJudged(fs, base, path)
PROOF
<1>1. path \in Seq(STRING \ {"/"}) /\ path # <<>>
  BY DEF PathText
<1>2. path \in Seq(STRING) /\ base \in Seq(STRING)
  <2>1. \A S, R : S \subseteq R => Seq(S) \subseteq Seq(R)
    OBVIOUS
  <2>2. STRING \ {"/"} \subseteq STRING
    OBVIOUS
  <2> QED BY <1>1, <2>1, <2>2, NamesAreStrings
<1>3. WorktreesAreNew(fs, path)
  BY <1>2, Worktrees
<1>4. SafeJoinIsInside(fs, base, path)
  BY <1>2, SafeJoins
<1>5. ArtifactsAreInside(fs, base, path)
  BY <1>1, Artifacts
<1>6. ASSUME base \in DOMAIN fs, fs[base].kind = "dir"
      PROVE  DirectoriesAreContained(fs, base, path) /\ ChangedLinksAreJudged(fs, base, path)
  BY <1>1, <1>2, <1>6, Directories, ChangedLinks
<1> QED BY <1>3, <1>4, <1>5, <1>6

(* All inputs of the runs.                                                *)
Inputs ==
  PathSamples \cup FieldSamples \cup CommandSamples \cup RulePathSamples \cup EventSamples
  \cup ListSamples \cup PolicySamples \cup TemplateSamples \cup ProcessSamples \cup GroupSamples
  \cup ComparisonSamples \cup SuiteSamples \cup RevisionSamples \cup BattleSamples \cup TaskSamples
  \cup SuiteDefinitionSamples \cup PlanSamples \cup ConfigSamples \cup ErrorSamples \cup {NoSample}

(* A behaviour picks one of the inputs.                                   *)
THEOREM InputsOnly == Spec => [](sample \in Inputs)
PROOF
<1>1. Init => sample \in Inputs
  BY DEF Init, Inputs
<1>2. sample \in Inputs /\ [Next]_sample => (sample \in Inputs)'
  BY DEF Inputs, Next, Pick
<1> QED BY <1>1, <1>2, PTL DEF Spec

(* Inputs of the topic are trees and paths.                               *)
LEMMA PathInputs ==
  ASSUME NEW s \in Inputs, s.topic = "paths"
  PROVE  s \in PathSamples
PROOF
<1>1. \A x \in FieldSamples \cup CommandSamples \cup RulePathSamples \cup EventSamples \cup ListSamples : x.topic # "paths"
  BY DEF FieldSamples, CommandSamples, RulePathSamples, EventSamples, ListSamples
<1>2. \A x \in PolicySamples \cup TemplateSamples \cup ProcessSamples \cup GroupSamples \cup ComparisonSamples : x.topic # "paths"
  BY DEF PolicySamples, TemplateSamples, ProcessSamples, GroupSamples, ComparisonSamples
<1>3. \A x \in SuiteSamples \cup RevisionSamples \cup BattleSamples \cup TaskSamples : x.topic # "paths"
  BY DEF SuiteSamples, RevisionSamples, BattleSamples, TaskSamples
<1>4. \A x \in SuiteDefinitionSamples \cup PlanSamples \cup ConfigSamples \cup ErrorSamples \cup {NoSample} : x.topic # "paths"
  <2>1. \A x \in SuiteDefinitionSamples : x.topic # "paths"
    BY DEF SuiteDefinitionSamples
  <2>a. \A x \in PlanSamples : x.topic # "paths"
    BY DEF PlanSamples
  <2>b. \A x \in ErrorSamples : x.topic # "paths"
    BY DEF ErrorSamples
  <2>c. \A x \in {NoSample} : x.topic # "paths"
    BY DEF NoSample
  <2>2. \A P, I, A, E : \A x \in [topic : {"config"}, paths : P, id : I, agent : A, environment : E] : x.topic # "paths"
    OBVIOUS
  <2>3. \A x \in ConfigSamples : x.topic # "paths"
    BY <2>2, Zenon DEF ConfigSamples
  <2> QED BY <2>1, <2>a, <2>b, <2>c, <2>3
<1> QED BY <1>1, <1>2, <1>3, <1>4 DEF Inputs

(* The invariant of the run: PathsStayInside holds of every behaviour of  *)
(* Algorithms, because its trees are trees (TreesAreTrees).               *)
THEOREM PathsStay == Spec => []PathsStayInside
PROOF
<1>1. ASSUME sample \in Inputs PROVE PathsStayInside
  <2> SUFFICES ASSUME sample.topic = "paths"
               PROVE  /\ WorktreesAreNew(sample.tree, sample.path)
                      /\ \A base \in Bases :
                           /\ SafeJoinIsInside(sample.tree, base, sample.path)
                           /\ ArtifactsAreInside(sample.tree, base, sample.path)
                           /\ base \in DOMAIN sample.tree /\ sample.tree[base].kind = "dir" =>
                                /\ DirectoriesAreContained(sample.tree, base, sample.path)
                                /\ ChangedLinksAreJudged(sample.tree, base, sample.path)
    BY DEF PathsStayInside
  <2>1. sample.tree \in Trees /\ sample.path \in Paths
    <3>1. sample \in PathSamples
      BY <1>1, PathInputs
    <3> HIDE DEF Trees, Paths
    <3> QED BY <3>1 DEF PathSamples
  <2>2. FileTree(sample.tree) /\ sample.path \in PathText /\ Bases \subseteq Seq(Name) /\ Bases # {}
    BY <2>1, TreesAreTrees DEF Bases
  <2> DEFINE tree == sample.tree
             path == sample.path
  <2> HIDE DEF tree, path
  <2>3. FileTree(tree) /\ path \in PathText
    BY <2>2 DEF tree, path
  <2>4. ASSUME NEW base \in Bases
        PROVE  /\ WorktreesAreNew(tree, path)
               /\ SafeJoinIsInside(tree, base, path)
               /\ ArtifactsAreInside(tree, base, path)
               /\ base \in DOMAIN tree /\ tree[base].kind = "dir" =>
                    DirectoriesAreContained(tree, base, path) /\ ChangedLinksAreJudged(tree, base, path)
    <3>1. base \in Seq(Name)
      BY <2>2
    <3> QED BY <3>1, <2>3, PathsAreContained
  <2> QED BY <2>2, <2>4 DEF tree, path
<1> QED BY <1>1, InputsOnly, PTL

-----------------------------------------------------------------------------
(* Sequences, and what is folded over them.                               *)

(* Induction over sequences, by what is appended.                         *)
LEMMA SequenceInduction ==
  ASSUME NEW B, NEW T, <<>> \in T, \A s \in Seq(B), b \in B : s \in T => Append(s, b) \in T
  PROVE  Seq(B) \subseteq T
PROOF
<1> DEFINE C == {n \in Nat : \A s \in Seq(B) : Len(s) = n => s \in T}
<1>1. 0 \in C
  OBVIOUS
<1>2. ASSUME NEW n \in Nat, n \in C PROVE n + 1 \in C
  <2> SUFFICES ASSUME NEW s \in Seq(B), Len(s) = n + 1 PROVE s \in T
    OBVIOUS
  <2> DEFINE front == [i \in 1 .. n |-> s[i]]
  <2>1. front \in Seq(B) /\ Len(front) = n /\ s[n + 1] \in B
    OBVIOUS
  <2>2. Append(front, s[n + 1]) = s
    OBVIOUS
  <2>3. front \in T
    <3> HIDE DEF front
    <3> QED BY <1>2, <2>1
  <2> HIDE DEF front, C
  <2> QED BY <2>1, <2>2, <2>3
<1>3. Nat \subseteq C
  <2> HIDE DEF C
  <2> QED BY <1>1, <1>2, Induction
<1> QED BY <1>3

(* value is the fold of op over seq, step by step.                        *)
Stepped(A, op, base, seq, value) ==
  \E st \in [0 .. Len(seq) -> A] : Steps(st, op, base, seq, value)

(* value and more are the folds of a sequence and of one that is longer.  *)
Grows(A, B, op, base, seq, b, value, more) ==
  /\ op \in [A \X B -> A] /\ base \in A /\ seq \in Seq(B) /\ b \in B
  /\ Stepped(A, op, base, seq, value) /\ Stepped(A, op, base, Append(seq, b), more)

(* A fold over a longer sequence goes on from the shorter one.            *)
LEMMA StepsGrow ==
  ASSUME NEW A, NEW B, NEW op, NEW base, NEW seq, NEW b, NEW value, NEW more,
         Grows(A, B, op, base, seq, b, value, more)
  PROVE  value \in A /\ more = op[<<value, b>>]
PROOF
<1> op \in [A \X B -> A] /\ base \in A /\ seq \in Seq(B) /\ b \in B
  BY DEF Grows
<1>0. Stepped(A, op, base, seq, value) /\ Stepped(A, op, base, Append(seq, b), more)
  BY DEF Grows
<1> DEFINE longer == Append(seq, b)
<1>1. PICK n \in Nat : /\ n = Len(seq) /\ Len(longer) = n + 1 /\ longer[n + 1] = b
                       /\ \A i \in 1 .. n : longer[i] = seq[i]
  OBVIOUS
<1>2. PICK st \in [0 .. n -> A] : Steps(st, op, base, seq, value)
  BY <1>0, <1>1 DEF Stepped
<1>3. PICK tt \in [0 .. n + 1 -> A] : Steps(tt, op, base, longer, more)
  BY <1>0, <1>1 DEF Stepped
<1> HIDE DEF longer
<1>4. /\ st[0] = base /\ st[n] = value
      /\ \A i \in 0 .. n - 1 : st[i + 1] = op[<<st[i], seq[i + 1]>>]
  BY <1>1, <1>2 DEF Steps
<1>5. /\ tt[0] = base /\ tt[n + 1] = more
      /\ \A i \in 0 .. n : tt[i + 1] = op[<<tt[i], longer[i + 1]>>]
  BY <1>1, <1>3 DEF Steps
<1> DEFINE C == {i \in Nat : i <= n => tt[i] = st[i]}
<1>6. 0 \in C
  BY <1>4, <1>5
<1>7. ASSUME NEW i \in Nat, i \in C PROVE i + 1 \in C
  <2> SUFFICES ASSUME i + 1 <= n PROVE tt[i + 1] = st[i + 1]
    OBVIOUS
  <2>1. i \in 0 .. n /\ i \in 0 .. n - 1 /\ i + 1 \in 1 .. n /\ tt[i] = st[i]
    BY <1>7
  <2> QED BY <2>1, <1>1, <1>4, <1>5
<1>8. n \in C
  <2> HIDE DEF C
  <2> QED BY <1>6, <1>7, Induction
<1>9. value \in A
  BY <1>4
<1>10. tt[n] = value
  BY <1>8, <1>4
<1> HIDE DEF C
<1> QED BY <1>1, <1>5, <1>9, <1>10

(* A fold over nothing is what it starts with.                            *)
LEMMA StepsStart ==
  ASSUME NEW A, NEW op, NEW base, NEW value, Stepped(A, op, base, <<>>, value)
  PROVE  value = base
PROOF
<1> QED BY DEF Stepped, Steps

(* Two sequences are equal when their lengths and elements are.           *)
LEMMA SameSequence ==
  ASSUME NEW B, NEW s \in Seq(B), NEW t \in Seq(B), Len(s) = Len(t),
         \A i \in 1 .. Len(s) : s[i] = t[i]
  PROVE  s = t
PROOF
<1> QED OBVIOUS

(* As many identifiers as there are places: no two places have the same.  *)
LEMMA IdsAreDistinct ==
  ASSUME NEW B, NEW ids \in Seq(B), Cardinality(ToSet(ids)) = Len(ids)
  PROVE  \A i, j \in DOMAIN ids : ids[i] = ids[j] => i = j
PROOF
<1>1. PICK n \in Nat : n = Len(ids) /\ DOMAIN ids = 1 .. n
  OBVIOUS
<1> DEFINE S == 1 .. n
           U == ToSet(ids)
<1>2. IsFiniteSet(S) /\ Cardinality(S) = n
  <2>1. 1 \in Int /\ n \in Int
    OBVIOUS
  <2>2. IsFiniteSet(1 .. n) /\ Cardinality(1 .. n) = IF 1 > n THEN 0 ELSE n - 1 + 1
    BY <2>1, FS_Interval, ZenonT(60)
  <2> QED BY <2>2
<1>3. U = {ids[i] : i \in S}
  BY <1>1, ZenonT(60) DEF ToSet
<1>4. ids \in [S -> U]
  <2>1. ids = [i \in S |-> ids[i]]
    BY <1>1
  <2> HIDE DEF S, U
  <2> QED BY <1>3, <2>1
<1>5. ids \in Surjection(S, U)
  <2> HIDE DEF S, U
  <2> QED BY <1>3, <1>4 DEF Surjection
<1>6. Cardinality(U) = Cardinality(S)
  BY <1>1, <1>2
<1>7. ids \in Injection(S, U)
  <2> HIDE DEF S, U
  <2> QED BY <1>2, <1>5, <1>6, FS_Surjection
<1>8. \A i, j \in S : ids[i] = ids[j] => i = j
  <2>1. DOMAIN ids = S
    BY <1>1
  <2> HIDE DEF S, U
  <2> QED BY <1>7, <2>1 DEF Injection, IsInjective
<1> QED BY <1>1, <1>8

-----------------------------------------------------------------------------
(* Paths: a rule forbids what lies at it or below it.                     *)

(* What a part does to the parts that are kept, and to a lexical end.     *)
KeepStep(B, dropped) ==
  [p \in Seq(B) \X B |-> IF p[2] \in dropped THEN p[1] ELSE Append(p[1], p[2])]

GoStep(B) == [p \in Seq(B) \X B |-> GoPart(p[1], p[2])]

(* Without and LexicalEnd are folds.                                      *)
LEMMA PartSteps ==
  ASSUME NEW B, NEW dropped, NEW seq \in Seq(B)
  PROVE  /\ KeepStep(B, dropped) \in [Seq(B) \X B -> Seq(B)]
         /\ Stepped(Seq(B), KeepStep(B, dropped), <<>>, seq, Without(seq, dropped))
         /\ GoStep(B) \in [Seq(B) \X B -> Seq(B)]
         /\ Stepped(Seq(B), GoStep(B), <<>>, seq, LexicalEnd(<<>>, seq))
PROOF
<1>1. KeepStep(B, dropped) \in [Seq(B) \X B -> Seq(B)]
  <2>1. \A x \in Seq(B), y \in B : (IF y \in dropped THEN x ELSE Append(x, y)) \in Seq(B)
    OBVIOUS
  <2> QED BY <2>1 DEF KeepStep
<1>2. GoStep(B) \in [Seq(B) \X B -> Seq(B)]
  <2>1. \A x \in Seq(B), y \in B : GoPart(x, y) \in Seq(B)
    BY GoStays
  <2> QED BY <2>1 DEF GoStep
<1>3. Stepped(Seq(B), KeepStep(B, dropped), <<>>, seq, Without(seq, dropped))
  <2>1. Stepwise(B, dropped, seq)
    BY WithoutSteps
  <2>2. PICK st \in [0 .. Len(seq) -> Seq(B)] : Keeping(st, seq, dropped) /\ Without(seq, dropped) = st[Len(seq)]
    BY <2>1 DEF Stepwise
  <2>3. \A i \in 0 .. Len(seq) - 1 : st[i] \in Seq(B) /\ seq[i + 1] \in B
    BY NextOfPrefix
  <2>4. \A i \in 0 .. Len(seq) - 1 : st[i + 1] = KeepStep(B, dropped)[<<st[i], seq[i + 1]>>]
    BY <2>2, <2>3 DEF Keeping, KeepStep
  <2> QED BY <2>2, <2>4 DEF Stepped, Steps, Keeping
<1>4. Stepped(Seq(B), GoStep(B), <<>>, seq, LexicalEnd(<<>>, seq))
  <2>1. <<>> \in Seq(B)
    OBVIOUS
  <2>2. PICK st \in [0 .. Len(seq) -> Seq(B)] : Going(st, <<>>, seq) /\ LexicalEnd(<<>>, seq) = st[Len(seq)]
    BY <2>1, LexicalSteps
  <2>3. \A i \in 0 .. Len(seq) - 1 : st[i] \in Seq(B) /\ seq[i + 1] \in B
    BY NextOfPrefix
  <2>4. \A i \in 0 .. Len(seq) - 1 : st[i + 1] = GoStep(B)[<<st[i], seq[i + 1]>>]
    BY <2>2, <2>3 DEF Going, GoStep
  <2> QED BY <2>2, <2>4 DEF Stepped, Steps, Going
<1> QED BY <1>1, <1>2, <1>3, <1>4

(* Of one part more.                                                      *)
LEMMA PartsGrow ==
  ASSUME NEW B, NEW dropped, NEW seq \in Seq(B), NEW b \in B
  PROVE  /\ Without(seq, dropped) \in Seq(B) /\ LexicalEnd(<<>>, seq) \in Seq(B)
         /\ Without(Append(seq, b), dropped) =
              IF b \in dropped THEN Without(seq, dropped) ELSE Append(Without(seq, dropped), b)
         /\ LexicalEnd(<<>>, Append(seq, b)) = GoPart(LexicalEnd(<<>>, seq), b)
PROOF
<1>1. Append(seq, b) \in Seq(B) /\ <<>> \in Seq(B)
  OBVIOUS
<1>2. Grows(Seq(B), B, KeepStep(B, dropped), <<>>, seq, b, Without(seq, dropped), Without(Append(seq, b), dropped))
  BY <1>1, PartSteps DEF Grows
<1>3. Grows(Seq(B), B, GoStep(B), <<>>, seq, b, LexicalEnd(<<>>, seq), LexicalEnd(<<>>, Append(seq, b)))
  BY <1>1, PartSteps DEF Grows
<1>4. /\ Without(seq, dropped) \in Seq(B)
      /\ Without(Append(seq, b), dropped) = KeepStep(B, dropped)[<<Without(seq, dropped), b>>]
  BY <1>2, StepsGrow
<1>5. /\ LexicalEnd(<<>>, seq) \in Seq(B)
      /\ LexicalEnd(<<>>, Append(seq, b)) = GoStep(B)[<<LexicalEnd(<<>>, seq), b>>]
  BY <1>3, StepsGrow
<1> QED BY <1>4, <1>5 DEF KeepStep, GoStep

(* Of no part.                                                            *)
LEMMA NoParts ==
  ASSUME NEW dropped
  PROVE  Without(<<>>, dropped) = <<>> /\ LexicalEnd(<<>>, <<>>) = <<>>
PROOF
<1>1. <<>> \in Seq(STRING)
  OBVIOUS
<1>2. Stepped(Seq(STRING), KeepStep(STRING, dropped), <<>>, <<>>, Without(<<>>, dropped))
  BY <1>1, PartSteps
<1>3. Stepped(Seq(STRING), GoStep(STRING), <<>>, <<>>, LexicalEnd(<<>>, <<>>))
  BY <1>1, PartSteps
<1> QED BY <1>2, <1>3, StepsStart

(* One element more.                                                      *)
LEMMA ContainsMore ==
  ASSUME NEW B, NEW s \in Seq(B), NEW b \in B, NEW v
  PROVE  Contains(Append(s, b), v) <=> Contains(s, v) \/ v = b
PROOF
<1>1. PICK n \in Nat : n = Len(s) /\ Len(Append(s, b)) = n + 1 /\ Append(s, b)[n + 1] = b
                       /\ \A i \in 1 .. n : Append(s, b)[i] = s[i]
  OBVIOUS
<1>2. ASSUME Contains(Append(s, b), v) PROVE Contains(s, v) \/ v = b
  BY <1>1, <1>2 DEF Contains
<1>3. ASSUME Contains(s, v) PROVE Contains(Append(s, b), v)
  BY <1>1, <1>3 DEF Contains
<1>4. n + 1 \in 1 .. Len(Append(s, b))
  BY <1>1
<1>5. Contains(Append(s, b), b)
  BY <1>1, <1>4 DEF Contains
<1> QED BY <1>2, <1>3, <1>5

(* The parts that are kept are those of the path but the dropped ones.    *)
LEMMA KeptParts ==
  ASSUME NEW B, NEW dropped, NEW seq \in Seq(B)
  PROVE  /\ Without(seq, dropped) \in Seq(B)
         /\ \A v : Contains(Without(seq, dropped), v) <=> Contains(seq, v) /\ v \notin dropped
PROOF
<1> DEFINE Same(s) == \A v : Contains(Without(s, dropped), v) <=> Contains(s, v) /\ v \notin dropped
           T == {s \in Seq(B) : Same(s) /\ Without(s, dropped) \in Seq(B)}
<1>1. <<>> \in T
  <2>1. Without(<<>>, dropped) = <<>> /\ <<>> \in Seq(B) /\ \A v : ~Contains(<<>>, v)
    BY NoParts DEF Contains
  <2> QED BY <2>1
<1>2. ASSUME NEW s \in Seq(B), NEW b \in B, s \in T PROVE Append(s, b) \in T
  <2> DEFINE k == Without(s, dropped)
             more == Without(Append(s, b), dropped)
  <2>1. k \in Seq(B) /\ \A v : Contains(k, v) <=> Contains(s, v) /\ v \notin dropped
    BY <1>2
  <2>2. more = IF b \in dropped THEN k ELSE Append(k, b)
    BY PartsGrow
  <2>3. \A q \in Seq(B) : \A v : Contains(Append(q, b), v) <=> Contains(q, v) \/ v = b
    BY ContainsMore
  <2> HIDE DEF k, more
  <2>4. Same(Append(s, b))
    <3> SUFFICES ASSUME NEW v
                 PROVE  Contains(more, v) <=> Contains(Append(s, b), v) /\ v \notin dropped
      BY DEF more
    <3>1. Contains(Append(s, b), v) <=> Contains(s, v) \/ v = b
      BY <2>3
    <3>2. CASE b \in dropped
      BY <3>1, <3>2, <2>1, <2>2
    <3>3. CASE b \notin dropped
      <4>1. Contains(Append(k, b), v) <=> Contains(k, v) \/ v = b
        BY <2>1, <2>3
      <4> QED BY <4>1, <3>1, <3>3, <2>1, <2>2
    <3> QED BY <3>2, <3>3
  <2>5. more \in Seq(B)
    BY <2>1, <2>2
  <2> QED BY <2>4, <2>5 DEF more
<1>3. Seq(B) \subseteq T
  <2> HIDE DEF T
  <2> QED BY <1>1, <1>2, SequenceInduction
<1> QED BY <1>3

(* Without a way up, the lexical place of a path is its normal parts.     *)
LEMMA LexicalIsNormal ==
  ASSUME NEW path \in Seq(STRING), ~Contains(path, "..")
  PROVE  LexicalPlace(path) = Normals(path)
PROOF
<1> DEFINE gaps == {""}
           dots == {"", ".", ".."}
           T == {s \in Seq(STRING) : ~Contains(s, "..") => LexicalEnd(<<>>, Without(s, gaps)) = Without(s, dots)}
<1>1. /\ \A b : b \in gaps => b \in dots
      /\ \A b : b \in dots /\ b \notin gaps => b = "." \/ b = ".."
      /\ "." \in dots /\ "." \notin gaps
  BY Zenon
<1> HIDE DEF gaps, dots
<1>2. <<>> \in T
  BY NoParts
<1>3. ASSUME NEW s \in Seq(STRING), NEW b \in STRING, s \in T PROVE Append(s, b) \in T
  <2> DEFINE w == Without(s, gaps)
             n == Without(s, dots)
  <2>1. Append(s, b) \in Seq(STRING)
    OBVIOUS
  <2>2. w \in Seq(STRING) /\ Without(Append(s, b), gaps) = IF b \in gaps THEN w ELSE Append(w, b)
    BY PartsGrow
  <2>3. Without(Append(s, b), dots) = IF b \in dots THEN n ELSE Append(n, b)
    BY PartsGrow
  <2>4. LexicalEnd(<<>>, Append(w, b)) = GoPart(LexicalEnd(<<>>, w), b)
    BY <2>2, PartsGrow, ZenonT(60)
  <2>5. ~Contains(Append(s, b), "..") => ~Contains(s, "..") /\ b # ".."
    BY ContainsMore
  <2>6. ~Contains(s, "..") => LexicalEnd(<<>>, w) = n
    BY <1>3
  <2> HIDE DEF w, n
  <2>7. ASSUME ~Contains(Append(s, b), "..")
        PROVE  LexicalEnd(<<>>, Without(Append(s, b), gaps)) = Without(Append(s, b), dots)
    <3>1. CASE b \in gaps
      BY <3>1, <2>2, <2>3, <2>5, <2>6, <2>7, <1>1
    <3>2. CASE b \notin gaps
      <4>1. Without(Append(s, b), gaps) = Append(w, b) /\ b # ".." /\ LexicalEnd(<<>>, w) = n
        BY <3>2, <2>2, <2>5, <2>6, <2>7
      <4>2. b = "." <=> b \in dots
        BY <4>1, <3>2, <1>1
      <4>3. GoPart(n, b) = IF b = "." THEN n ELSE Append(n, b)
        BY <4>1 DEF GoPart
      <4> QED BY <4>1, <4>2, <4>3, <2>3, <2>4
    <3> QED BY <3>1, <3>2
  <2> QED BY <2>1, <2>7
<1>4. Seq(STRING) \subseteq T
  <2> HIDE DEF T
  <2> QED BY <1>2, <1>3, SequenceInduction
<1> QED BY <1>4, Zenon DEF LexicalPlace, Normals, gaps, dots

(* A path that is not clear goes up or is absolute.                       *)
LEMMA UnclearPaths ==
  ASSUME NEW path \in PathText
  PROVE  (\E i \in DOMAIN Components(path) : Components(path)[i] \in {"..", "/"})
         <=> Contains(path, "..") \/ Absolute(path)
PROOF
<1> DEFINE dropped == {"", "."}
           lead == IF Absolute(path) THEN <<"/">> ELSE IF IsPrefix(<<".">>, path) THEN <<".">> ELSE <<>>
           w == Without(path, dropped)
           S == STRING \ {"/"}
<1>1. path \in Seq(S)
  BY DEF PathText
<1>2. Components(path) = lead \o w
  BY Zenon DEF Components
<1>3. ".." \notin dropped
  BY Zenon
<1> HIDE DEF dropped
<1>4. w \in Seq(S) /\ (Contains(w, "..") <=> Contains(path, ".."))
  <2> HIDE DEF S
  <2> QED BY <1>1, <1>3, KeptParts
<1>5. \A i \in 1 .. Len(w) : w[i] # "/"
  BY <1>4
<1>6. lead \in Seq(Written) /\ (Absolute(path) => lead = <<"/">>) /\ (~Absolute(path) => lead = <<".">> \/ lead = <<>>)
  <2>1. \A v \in Written : <<v>> \in Seq(Written)
    OBVIOUS
  <2>2. "/" \in Written /\ "." \in Written
    BY DEF Written
  <2>3. <<>> \in Seq(Written)
    OBVIOUS
  <2> QED BY <2>1, <2>2, <2>3, Zenon
<1> HIDE DEF lead, w
<1>7. PICK a \in Nat, b \in Nat : a = Len(lead) /\ b = Len(w)
  BY <1>4, <1>6
<1> DEFINE c == lead \o w
<1>8. /\ DOMAIN c = 1 .. a + b
      /\ \A i \in 1 .. a : c[i] = lead[i]
      /\ \A i \in 1 .. b : c[a + i] = w[i]
      /\ \A i \in 1 .. a + b : i \in 1 .. a \/ \E j \in 1 .. b : i = a + j
  <2>1. w \in Seq(Written)
    <3>1. S \subseteq Written
      BY DEF Written
    <3> HIDE DEF S
    <3> QED BY <3>1, <1>4
  <2>2. c \in Seq(Written) /\ Len(c) = a + b
    BY <1>6, <1>7, <2>1
  <2>3. DOMAIN c = 1 .. a + b
    <3> HIDE DEF c
    <3> QED BY <2>2
  <2>4. \A i \in 1 .. a : c[i] = lead[i]
    BY <1>6, <1>7, <2>1
  <2>5. \A i \in 1 .. b : c[a + i] = w[i]
    BY <1>6, <1>7, <2>1
  <2>6. \A i \in 1 .. a + b : i \in 1 .. a \/ \E j \in 1 .. b : i = a + j
    <3> TAKE i \in 1 .. a + b
    <3>1. i \notin 1 .. a => i - a \in 1 .. b /\ i = a + (i - a)
      OBVIOUS
    <3> QED BY <3>1
  <2> QED BY <2>3, <2>4, <2>5, <2>6
<1> HIDE DEF c
<1>9. ASSUME NEW i \in DOMAIN c, c[i] \in {"..", "/"} PROVE Contains(path, "..") \/ Absolute(path)
  <2>1. CASE i \in 1 .. a
    <3>1. lead[i] \in {"..", "/"}
      BY <1>8, <1>9, <2>1
    <3>2. lead = <<".">> => lead[i] = "."
      BY <1>7, <2>1
    <3>3. lead # <<>>
      BY <1>7, <2>1
    <3> QED BY <3>1, <3>2, <3>3, <1>6
  <2>2. ASSUME NEW j \in 1 .. b, i = a + j PROVE Contains(path, "..")
    <3>1. w[j] \in {"..", "/"} /\ w[j] # "/"
      BY <1>5, <1>7, <1>8, <1>9, <2>2
    <3>2. w[j] = ".." /\ j \in 1 .. Len(w)
      BY <3>1, <1>7
    <3> QED BY <3>2, <1>4 DEF Contains
  <2> QED BY <2>1, <2>2, <1>8
<1>10. ASSUME Contains(path, "..") PROVE \E i \in DOMAIN c : c[i] \in {"..", "/"}
  <2>1. PICK j \in 1 .. b : w[j] = ".."
    BY <1>4, <1>7, <1>10 DEF Contains
  <2>2. a + j \in 1 .. a + b
    OBVIOUS
  <2> QED BY <1>8, <2>1, <2>2
<1>11. ASSUME Absolute(path) PROVE \E i \in DOMAIN c : c[i] \in {"..", "/"}
  <2>1. lead = <<"/">>
    BY <1>6, <1>11
  <2>2. a = 1 /\ lead[1] = "/" /\ 1 \in 1 .. a /\ 1 \in 1 .. a + b
    BY <1>7, <2>1
  <2> QED BY <1>8, <2>2
<1> QED BY <1>2, <1>9, <1>10, <1>11 DEF c

(* A forbidden path forbids whatever lies at it or below it, and nothing  *)
(* else but paths that go up or are absolute (audit.rs).                  *)
THEOREM RulesCoverBelow == \A path, rule \in PathText : RuleCoversBelow(path, rule)
PROOF
<1> SUFFICES ASSUME NEW path \in PathText, NEW rule \in PathText PROVE RuleCoversBelow(path, rule)
  OBVIOUS
<1>1. path \in Seq(STRING) /\ rule \in Seq(STRING)
  BY DEF PathText
<1>2. PathIsForbidden(path, rule) <=>
        \/ Contains(path, "..") \/ Absolute(path) \/ Contains(rule, "..") \/ Absolute(rule)
        \/ Normals(rule) # <<>> /\ IsPrefix(Normals(rule), Normals(path))
  BY UnclearPaths DEF PathIsForbidden
<1>3. CASE Contains(path, "..") \/ Contains(rule, "..")
  BY <1>2, <1>3 DEF RuleCoversBelow
<1>4. CASE ~Contains(path, "..") /\ ~Contains(rule, "..")
  <2>1. LexicalPlace(path) = Normals(path) /\ LexicalPlace(rule) = Normals(rule)
    BY <1>1, <1>4, LexicalIsNormal
  <2> QED BY <1>2, <2>1 DEF RuleCoversBelow, Inside
<1> QED BY <1>3, <1>4

-----------------------------------------------------------------------------
(* Lists: those of the project and of the task are merged.                *)

(* What an element does to the list that it is added to.                  *)
UniqueStep(B) == [p \in Seq(B) \X B |-> IF Contains(p[1], p[2]) THEN p[1] ELSE Append(p[1], p[2])]

(* The elements are added one after the other.                            *)
LEMMA UniqueSteps ==
  ASSUME NEW B, NEW dest \in Seq(B), NEW seq \in Seq(B)
  PROVE  Stepped(Seq(B), UniqueStep(B), dest, seq, AppendUnique(dest, seq))
PROOF
<1> DEFINE Op(x, y) == IF Contains(x, y) THEN x ELSE Append(x, y)
           A == Seq(B)
           op == UniqueStep(B)
           P(h) == h = [s \in SUBSET DOMAIN seq |->
                          IF s = {} THEN dest ELSE Op(h[s \ {Max(s)}], seq[Max(s)])]
           g == CHOOSE h : P(h)
<1>1. dest \in A /\ op \in [A \X B -> A] /\ \A x \in A, y \in B : op[<<x, y>>] = Op(x, y)
  <2>1. \A x \in A, y \in B : Op(x, y) \in A
    OBVIOUS
  <2>2. op = [p \in A \X B |-> Op(p[1], p[2])]
    BY DEF UniqueStep
  <2>3. dest \in A
    OBVIOUS
  <2> HIDE DEF op, A, Op
  <2> QED BY <2>1, <2>2, <2>3
<1>2. seq \in Seq(B)
  OBVIOUS
<1>3. P(g)
  <2>1. PICK f \in [SUBSET DOMAIN seq -> A] : Folds(f, op, dest, seq)
    <3> HIDE DEF op, Op, P, A
    <3> QED BY <1>1, <1>2, FoldDefined
  <2>2. ASSUME NEW s \in SUBSET DOMAIN seq, s # {}
        PROVE  f[s \ {Max(s)}] \in A /\ seq[Max(s)] \in B
    <3> HIDE DEF op, Op, P, A
    <3> QED BY <1>2, <2>2, NextOfFold
  <2>3. P(f)
    <3> HIDE DEF op, Op, A
    <3> QED BY <2>1, <2>2, <1>1 DEF Folds
  <2> HIDE DEF P
  <2> QED BY <2>3
<1>4. AppendUnique(dest, seq) = g[DOMAIN seq]
  BY DEF AppendUnique, FoldLeft, MapThenFoldSet
<1> HIDE DEF g
<1>5. g[{}] = dest
  <2> HIDE DEF Op, op
  <2> QED BY <1>3
<1>6. \A s \in SUBSET DOMAIN seq :
         s # {} /\ g[s \ {Max(s)}] \in A /\ seq[Max(s)] \in B => g[s] = op[<<g[s \ {Max(s)}], seq[Max(s)]>>]
  <2> HIDE DEF op, Op, A
  <2> QED BY <1>3, <1>1, ZenonT(60)
<1>7. \E st \in [0 .. Len(seq) -> A] : Steps(st, op, dest, seq, g[DOMAIN seq])
  <2> HIDE DEF op, P, A
  <2> QED BY <1>1, <1>2, <1>5, <1>6, FoldPrefixes, ZenonT(60)
<1> HIDE DEF P
<1> QED BY <1>4, <1>7 DEF Stepped

(* Nothing added, and one element more.                                   *)
LEMMA UniqueGrows ==
  ASSUME NEW B, NEW dest \in Seq(B), NEW seq \in Seq(B), NEW b \in B
  PROVE  /\ AppendUnique(dest, <<>>) = dest
         /\ AppendUnique(dest, seq) \in Seq(B)
         /\ AppendUnique(dest, Append(seq, b)) =
              IF Contains(AppendUnique(dest, seq), b) THEN AppendUnique(dest, seq)
              ELSE Append(AppendUnique(dest, seq), b)
PROOF
<1>1. Append(seq, b) \in Seq(B) /\ <<>> \in Seq(B)
  OBVIOUS
<1>2. UniqueStep(B) \in [Seq(B) \X B -> Seq(B)]
  <2>1. \A x \in Seq(B), y \in B : (IF Contains(x, y) THEN x ELSE Append(x, y)) \in Seq(B)
    OBVIOUS
  <2> QED BY <2>1 DEF UniqueStep
<1>3. Grows(Seq(B), B, UniqueStep(B), dest, seq, b, AppendUnique(dest, seq), AppendUnique(dest, Append(seq, b)))
  BY <1>1, <1>2, UniqueSteps DEF Grows
<1>4. /\ AppendUnique(dest, seq) \in Seq(B)
      /\ AppendUnique(dest, Append(seq, b)) = UniqueStep(B)[<<AppendUnique(dest, seq), b>>]
  BY <1>3, StepsGrow
<1>5. Stepped(Seq(B), UniqueStep(B), dest, <<>>, AppendUnique(dest, <<>>))
  BY <1>1, UniqueSteps
<1>6. AppendUnique(dest, <<>>) = dest
  BY <1>5, StepsStart
<1> QED BY <1>4, <1>6 DEF UniqueStep

(* Where an element first occurs in a list.                               *)
FirstIn(list, v) == SelectInSeq(list, LAMBDA w : w = v)

(* It is where no element before it is the same.                          *)
LEMMA FirstPlace ==
  ASSUME NEW B, NEW list \in Seq(B), NEW n \in 1 .. Len(list), \A i \in 1 .. n - 1 : list[i] # list[n]
  PROVE  FirstIn(list, list[n]) = n
PROOF
<1> DEFINE I == {i \in 1 .. Len(list) : list[i] = list[n]}
<1>1. FirstIn(list, list[n]) = IF I # {} THEN Min(I) ELSE 0
  BY DEF FirstIn, SelectInSeq
<1>2. n \in I /\ \A i \in I : i \in Nat /\ n <= i
  OBVIOUS
<1>3. Min(I) = n
  <2> DEFINE G(x) == x \in I /\ \A i \in I : x <= i
  <2>1. ASSUME NEW x, G(x) PROVE x = n
    <3>1. x \in Nat /\ n \in Nat /\ x <= n /\ n <= x
      BY <1>2, <2>1
    <3> QED BY <3>1
  <2>2. G(n)
    BY <1>2
  <2>3. Min(I) = CHOOSE x : G(x)
    BY DEF Min
  <2> HIDE DEF G
  <2> QED BY <2>1, <2>2, <2>3
<1> HIDE DEF I
<1> QED BY <1>1, <1>2, <1>3

(* An element that a list contains has such a place.                      *)
LEMMA FirstExists ==
  ASSUME NEW B, NEW list \in Seq(B), NEW v, Contains(list, v)
  PROVE  \E n \in 1 .. Len(list) : list[n] = v /\ \A i \in 1 .. n - 1 : list[i] # v
PROOF
<1> DEFINE I == {i \in Nat : i \in 1 .. Len(list) /\ list[i] = v}
<1>1. I \in SUBSET Nat /\ I # {}
  BY DEF Contains
<1>2. PICK n \in I : \A y \in I : n <= y
  BY <1>1, LeastNumber
<1>3. n \in 1 .. Len(list) /\ list[n] = v
  BY <1>2
<1>4. ASSUME NEW i \in 1 .. n - 1 PROVE list[i] # v
  <2>1. i \in Nat /\ i \in 1 .. Len(list) /\ i < n
    BY <1>3
  <2> QED BY <1>2, <2>1
<1> QED BY <1>3, <1>4

(* In a longer list that is the same place, or the last for a new element.*)
LEMMA FirstGrows ==
  ASSUME NEW B, NEW list \in Seq(B), NEW b \in B
  PROVE  /\ \A v : Contains(list, v) =>
              FirstIn(Append(list, b), v) = FirstIn(list, v) /\ FirstIn(list, v) \in 1 .. Len(list)
         /\ ~Contains(list, b) => FirstIn(Append(list, b), b) = Len(list) + 1
PROOF
<1> DEFINE more == Append(list, b)
<1>1. PICK k \in Nat : k = Len(list)
  OBVIOUS
<1>2. more \in Seq(B) /\ Len(more) = k + 1 /\ more[k + 1] = b /\ \A i \in 1 .. k : more[i] = list[i]
  BY <1>1
<1> HIDE DEF more
<1>3. ASSUME NEW v, Contains(list, v)
      PROVE  FirstIn(more, v) = FirstIn(list, v) /\ FirstIn(list, v) \in 1 .. k
  <2>1. PICK n \in 1 .. k : list[n] = v /\ \A i \in 1 .. n - 1 : list[i] # v
    BY <1>1, <1>3, FirstExists
  <2>2. n \in 1 .. k + 1 /\ more[n] = v /\ \A i \in 1 .. n - 1 : more[i] # v
    BY <1>2, <2>1
  <2>3. FirstIn(list, v) = n
    BY <1>1, <2>1, FirstPlace
  <2>4. FirstIn(more, v) = n
    BY <1>2, <2>2, FirstPlace
  <2> QED BY <2>3, <2>4
<1>4. ASSUME ~Contains(list, b) PROVE FirstIn(more, b) = k + 1
  <2>1. k + 1 \in 1 .. k + 1 /\ \A i \in 1 .. (k + 1) - 1 : more[i] # more[k + 1]
    BY <1>1, <1>2, <1>4 DEF Contains
  <2> QED BY <1>2, <2>1, FirstPlace
<1> QED BY <1>1, <1>3, <1>4 DEF more

(* What is left of a list without its repetitions.                        *)
Unrepeated(B, list, kept) ==
  /\ kept \in Seq(B)
  /\ \A v : Contains(kept, v) <=> Contains(list, v)
  /\ \A i, j \in 1 .. Len(kept) : i < j => FirstIn(list, kept[i]) < FirstIn(list, kept[j])

(* That is what deduplication leaves.                                     *)
LEMMA DeduplicateKeeps ==
  ASSUME NEW B, NEW list \in Seq(B)
  PROVE  Unrepeated(B, list, Deduplicate(list))
PROOF
<1> DEFINE T == {s \in Seq(B) : Unrepeated(B, s, Deduplicate(s))}
<1>0. <<>> \in Seq(B)
  OBVIOUS
<1>1. <<>> \in T
  <2>2. Stepped(Seq(B), UniqueStep(B), <<>>, <<>>, AppendUnique(<<>>, <<>>))
    BY <1>0, UniqueSteps
  <2>3. Deduplicate(<<>>) = <<>>
    BY <2>2, StepsStart DEF Deduplicate
  <2>4. \A kept : kept = <<>> => Unrepeated(B, <<>>, kept)
    BY <1>0 DEF Unrepeated
  <2> QED BY <1>0, <2>3, <2>4
<1>2. ASSUME NEW s \in Seq(B), NEW b \in B, s \in T PROVE Append(s, b) \in T
  <2> DEFINE more == Append(s, b)
             kept == Deduplicate(s)
  <2>1. PICK n \in Nat : n = Len(kept)
    BY <1>2 DEF Unrepeated
  <2>2. /\ kept \in Seq(B) /\ \A v : Contains(kept, v) <=> Contains(s, v)
        /\ \A i, j \in 1 .. n : i < j => FirstIn(s, kept[i]) < FirstIn(s, kept[j])
    BY <1>2, <2>1 DEF Unrepeated
  <2>3. Deduplicate(more) = IF Contains(kept, b) THEN kept ELSE Append(kept, b)
    <3> DEFINE none == <<>>
    <3>1. none \in Seq(B)
      BY <1>0
    <3> HIDE DEF none
    <3>2. AppendUnique(none, Append(s, b)) = IF Contains(AppendUnique(none, s), b) THEN AppendUnique(none, s)
                                             ELSE Append(AppendUnique(none, s), b)
      BY <3>1, UniqueGrows
    <3> QED BY <3>2 DEF Deduplicate, none
  <2>4. more \in Seq(B) /\ \A v : Contains(more, v) <=> Contains(s, v) \/ v = b
    BY ContainsMore
  <2>5. \A v : Contains(s, v) => FirstIn(more, v) = FirstIn(s, v) /\ FirstIn(s, v) \in 1 .. Len(s)
    BY FirstGrows
  <2>6. ~Contains(s, b) => FirstIn(more, b) = Len(s) + 1
    BY FirstGrows
  <2> HIDE DEF more, kept
  <2>7. \A i \in 1 .. n : Contains(s, kept[i])
    <3> TAKE i \in 1 .. n
    <3>1. Contains(kept, kept[i])
      BY <2>1 DEF Contains
    <3> QED BY <2>2, <3>1
  <2>8. \A i, j \in 1 .. n : i < j => FirstIn(more, kept[i]) < FirstIn(more, kept[j])
    BY <2>2, <2>5, <2>7
  <2>9. CASE Contains(kept, b)
    <3>1. Contains(s, b)
      BY <2>2, <2>9
    <3>2. Unrepeated(B, more, kept)
      BY <2>1, <2>2, <2>4, <2>8, <3>1 DEF Unrepeated
    <3> QED BY <2>3, <2>4, <2>9, <3>2 DEF more
  <2>10. CASE ~Contains(kept, b)
    <3> DEFINE all == Append(kept, b)
    <3>1. all \in Seq(B) /\ Len(all) = n + 1 /\ all[n + 1] = b /\ \A i \in 1 .. n : all[i] = kept[i]
      BY <2>1, <2>2
    <3>2. \A v : Contains(all, v) <=> Contains(kept, v) \/ v = b
      BY <2>2, ContainsMore
    <3> HIDE DEF all
    <3>3. ~Contains(s, b) /\ FirstIn(more, b) = Len(s) + 1
      BY <2>2, <2>6, <2>10
    <3>4. ASSUME NEW i \in 1 .. n + 1, NEW j \in 1 .. n + 1, i < j
          PROVE  FirstIn(more, all[i]) < FirstIn(more, all[j])
      <4>1. i \in 1 .. n /\ all[i] = kept[i] /\ FirstIn(more, kept[i]) \in 1 .. Len(s)
        <5>1. i \in 1 .. n
          BY <3>4
        <5> QED BY <5>1, <3>1, <2>5, <2>7
      <4>2. CASE j \in 1 .. n
        BY <4>1, <4>2, <2>8, <3>1, <3>4
      <4>3. CASE j = n + 1
        <5>1. Len(s) \in Nat
          OBVIOUS
        <5> QED BY <4>1, <4>3, <5>1, <3>1, <3>3
      <4> QED BY <4>2, <4>3
    <3>5. Unrepeated(B, more, all)
      BY <3>1, <3>2, <3>4, <2>2, <2>4 DEF Unrepeated
    <3> QED BY <2>3, <2>4, <2>10, <3>5 DEF more, all
  <2> QED BY <2>9, <2>10
<1>3. Seq(B) \subseteq T
  <2> HIDE DEF T
  <2> QED BY <1>1, <1>2, SequenceInduction
<1> QED BY <1>3

(* A list without repetitions stays as it is.                             *)
LEMMA DeduplicateLeaves ==
  ASSUME NEW B, NEW list \in Seq(B), \A i, j \in DOMAIN list : list[i] = list[j] => i = j
  PROVE  Deduplicate(list) = list
PROOF
<1> DEFINE Apart(s) == \A i, j \in 1 .. Len(s) : s[i] = s[j] => i = j
           T == {s \in Seq(B) : Apart(s) => Deduplicate(s) = s}
           none == <<>>
<1>0. none \in Seq(B)
  OBVIOUS
<1> HIDE DEF none
<1>1. none \in T
  <2>1. Stepped(Seq(B), UniqueStep(B), none, <<>>, AppendUnique(none, <<>>))
    BY <1>0, UniqueSteps DEF none
  <2>2. AppendUnique(none, <<>>) = none
    BY <2>1, StepsStart
  <2>3. Deduplicate(none) = none
    BY <2>2 DEF Deduplicate, none
  <2> QED BY <1>0, <2>3
<1>2. ASSUME NEW s \in Seq(B), NEW b \in B, s \in T PROVE Append(s, b) \in T
  <2> DEFINE more == Append(s, b)
  <2>1. PICK n \in Nat : n = Len(s)
    OBVIOUS
  <2>2. more \in Seq(B) /\ Len(more) = n + 1 /\ more[n + 1] = b /\ \A i \in 1 .. n : more[i] = s[i]
    BY <2>1
  <2>3. Deduplicate(more) = IF Contains(Deduplicate(s), b) THEN Deduplicate(s) ELSE Append(Deduplicate(s), b)
    <3>1. AppendUnique(none, more) = IF Contains(AppendUnique(none, s), b) THEN AppendUnique(none, s)
                                     ELSE Append(AppendUnique(none, s), b)
      BY <1>0, UniqueGrows
    <3> HIDE DEF more
    <3> QED BY <3>1 DEF Deduplicate, none
  <2> HIDE DEF more
  <2>4. ASSUME Apart(more) PROVE Deduplicate(more) = more
    <3>1. Apart(s)
      <4> SUFFICES ASSUME NEW i \in 1 .. n, NEW j \in 1 .. n, s[i] = s[j] PROVE i = j
        BY <2>1
      <4>1. i \in 1 .. n + 1 /\ j \in 1 .. n + 1 /\ more[i] = more[j]
        BY <2>2
      <4> QED BY <4>1, <2>2, <2>4
    <3>2. Deduplicate(s) = s
      BY <1>2, <3>1
    <3>3. ~Contains(s, b)
      <4> SUFFICES ASSUME NEW i \in 1 .. n, s[i] = b PROVE FALSE
        BY <2>1 DEF Contains
      <4>1. i \in 1 .. n + 1 /\ n + 1 \in 1 .. n + 1 /\ more[i] = more[n + 1] /\ i # n + 1
        BY <2>2
      <4> QED BY <4>1, <2>2, <2>4
    <3> QED BY <2>3, <3>2, <3>3 DEF more
  <2> QED BY <2>2, <2>4 DEF more
<1>3. Seq(B) \subseteq T
  <2> HIDE DEF T
  <2> QED BY <1>1, <1>2, SequenceInduction DEF none
<1>4. Apart(list)
  <2>1. DOMAIN list = 1 .. Len(list)
    OBVIOUS
  <2> QED BY <2>1
<1> QED BY <1>3, <1>4

(* Adding a list to one without repetitions is merging the two.           *)
LEMMA AddingMerges ==
  ASSUME NEW B, NEW left \in Seq(B), NEW right \in Seq(B), Deduplicate(left) = left
  PROVE  AppendUnique(left, right) = Merge(left, right)
PROOF
<1> DEFINE T == {s \in Seq(B) : AppendUnique(left, s) = Merge(left, s)}
           none == <<>>
<1>0. none \in Seq(B)
  OBVIOUS
<1> HIDE DEF none
<1>1. none \in T
  <2>1. Stepped(Seq(B), UniqueStep(B), left, <<>>, AppendUnique(left, <<>>))
    BY <1>0, UniqueSteps DEF none
  <2>2. AppendUnique(left, none) = left
    BY <2>1, StepsStart DEF none
  <2>3. left \o none = left
    BY DEF none
  <2> QED BY <1>0, <2>2, <2>3 DEF Merge
<1>2. ASSUME NEW s \in Seq(B), NEW b \in B, s \in T PROVE Append(s, b) \in T
  <2> DEFINE both == left \o s
  <2>1. Append(s, b) \in Seq(B) /\ both \in Seq(B) /\ left \o Append(s, b) = Append(both, b)
    OBVIOUS
  <2>2. AppendUnique(left, Append(s, b)) = IF Contains(AppendUnique(left, s), b) THEN AppendUnique(left, s)
                                           ELSE Append(AppendUnique(left, s), b)
    BY UniqueGrows
  <2>3. AppendUnique(none, Append(both, b)) = IF Contains(AppendUnique(none, both), b) THEN AppendUnique(none, both)
                                              ELSE Append(AppendUnique(none, both), b)
    <3> HIDE DEF both
    <3> QED BY <1>0, <2>1, UniqueGrows
  <2>4. AppendUnique(left, s) = AppendUnique(none, both)
    BY <1>2 DEF Merge, Deduplicate, none
  <2> HIDE DEF both
  <2>5. AppendUnique(left, Append(s, b)) = AppendUnique(none, left \o Append(s, b))
    BY <2>1, <2>2, <2>3, <2>4
  <2> QED BY <2>1, <2>5 DEF Merge, Deduplicate, none
<1>3. Seq(B) \subseteq T
  <2> HIDE DEF T
  <2> QED BY <1>1, <1>2, SequenceInduction DEF none
<1> QED BY <1>3

(* Merging loses no rule of the project or of the task, adds none, keeps  *)
(* the order in which they first occur and repeats none; patcharena task  *)
(* add does the same to lists without repetitions (orchestration.rs,      *)
(* cli/commands.rs).                                                      *)
THEOREM ListsMerge == \A B : \A project, task \in Seq(B) : ListsAreMerged(project, task)
PROOF
<1> SUFFICES ASSUME NEW B, NEW project \in Seq(B), NEW task \in Seq(B) PROVE ListsAreMerged(project, task)
  OBVIOUS
<1> DEFINE all == project \o task
           merged == Merge(project, task)
<1>1. all \in Seq(B)
  OBVIOUS
<1>2. \A s \in Seq(B) : DOMAIN s = 1 .. Len(s) /\ \A v : v \in ToSet(s) <=> Contains(s, v)
  BY DEF ToSet, Contains
<1>3. Unrepeated(B, all, merged)
  <2> HIDE DEF all
  <2> QED BY <1>1, DeduplicateKeeps DEF Merge, all
<1>4. \A v : Contains(all, v) <=> Contains(project, v) \/ Contains(task, v)
  <2>1. PICK a \in Nat, b \in Nat : a = Len(project) /\ b = Len(task)
    OBVIOUS
  <2>2. /\ Len(all) = a + b
        /\ \A i \in 1 .. a : all[i] = project[i]
        /\ \A i \in 1 .. b : all[a + i] = task[i]
    BY <2>1
  <2> HIDE DEF all
  <2> TAKE v
  <2>3. ASSUME NEW i \in 1 .. a + b, all[i] = v PROVE Contains(project, v) \/ Contains(task, v)
    <3>1. CASE i \in 1 .. a
      BY <2>1, <2>2, <2>3, <3>1 DEF Contains
    <3>2. CASE i \notin 1 .. a
      <4>1. PICK j \in 1 .. b : i = a + j
        <5>1. i - a \in 1 .. b /\ i = a + (i - a)
          BY <3>2
        <5> QED BY <5>1
      <4> QED BY <2>1, <2>2, <2>3, <4>1 DEF Contains
    <3> QED BY <3>1, <3>2
  <2>4. ASSUME NEW i \in 1 .. a, project[i] = v PROVE Contains(all, v)
    <3>1. i \in 1 .. a + b /\ all[i] = v
      BY <2>2, <2>4
    <3> QED BY <3>1, <2>2 DEF Contains
  <2>5. ASSUME NEW i \in 1 .. b, task[i] = v PROVE Contains(all, v)
    <3>1. a + i \in 1 .. a + b /\ all[a + i] = v
      BY <2>2, <2>5
    <3> QED BY <3>1, <2>2 DEF Contains
  <2> QED BY <2>1, <2>2, <2>3, <2>4, <2>5 DEF Contains
<1> HIDE DEF all
<1>5. ToSet(merged) = ToSet(project) \cup ToSet(task)
  <2>1. merged \in Seq(B) /\ \A v : Contains(merged, v) <=> Contains(all, v)
    BY <1>3 DEF Unrepeated
  <2> HIDE DEF merged
  <2> QED BY <1>2, <1>4, <2>1
<1>6. \A i, j \in DOMAIN merged : i < j => FirstIn(all, merged[i]) < FirstIn(all, merged[j])
  <2> HIDE DEF merged
  <2> QED BY <1>2, <1>3 DEF Unrepeated
<1>7. ASSUME Cardinality(ToSet(project)) = Len(project) PROVE AppendUnique(project, task) = merged
  <2>1. \A i, j \in DOMAIN project : project[i] = project[j] => i = j
    BY <1>7, IdsAreDistinct
  <2>2. Deduplicate(project) = project
    BY <2>1, DeduplicateLeaves
  <2> QED BY <2>2, AddingMerges
<1> HIDE DEF merged
<1> QED BY <1>5, <1>6, <1>7, Zenon DEF ListsAreMerged, merged, all, FirstIn

-----------------------------------------------------------------------------
(* Fingerprints: one benchmark, one fingerprint.                          *)

(* What two sequences make together.                                      *)
LEMMA JoinFacts ==
  ASSUME NEW B, NEW s \in Seq(B), NEW t \in Seq(B)
  PROVE  /\ s \o t \in Seq(B) /\ Len(s \o t) = Len(s) + Len(t)
         /\ \A i \in 1 .. Len(s) : (s \o t)[i] = s[i]
         /\ \A i \in 1 .. Len(t) : (s \o t)[Len(s) + i] = t[i]
PROOF
<1>1. s \o t \in Seq(B) /\ Len(s \o t) = Len(s) + Len(t)
  OBVIOUS
<1>2. \A i \in 1 .. Len(s) : (s \o t)[i] = s[i]
  OBVIOUS
<1>3. \A i \in 1 .. Len(t) : (s \o t)[Len(s) + i] = t[i]
  OBVIOUS
<1> QED BY <1>1, <1>2, <1>3

(* Two texts of parts as long as each other's have the same parts.        *)
LEMMA SameParts ==
  ASSUME NEW B, NEW s \in Seq(B), NEW s2 \in Seq(B), NEW t \in Seq(B), NEW t2 \in Seq(B)
  PROVE  Len(s) = Len(s2) /\ s \o t = s2 \o t2 => s = s2 /\ t = t2
PROOF
<1> DEFINE one == s \o t
           two == s2 \o t2
<1>1. PICK a \in Nat, b \in Nat, a2 \in Nat, b2 \in Nat :
        a = Len(s) /\ b = Len(t) /\ a2 = Len(s2) /\ b2 = Len(t2)
  OBVIOUS
<1>2. /\ Len(one) = a + b
      /\ \A i \in 1 .. a : one[i] = s[i]
      /\ \A i \in 1 .. b : one[a + i] = t[i]
  BY <1>1, JoinFacts
<1>3. /\ Len(two) = a2 + b2
      /\ \A i \in 1 .. a2 : two[i] = s2[i]
      /\ \A i \in 1 .. b2 : two[a2 + i] = t2[i]
  BY <1>1, JoinFacts
<1> HIDE DEF one, two
<1>4. ASSUME a = a2, one = two PROVE s = s2 /\ t = t2
  <2>1. a + b = a + b2
    BY <1>2, <1>3, <1>4
  <2>2. b = b2
    BY <2>1
  <2>3. \A i \in 1 .. a : s[i] = s2[i]
    BY <1>2, <1>3, <1>4
  <2>4. \A i \in 1 .. b : t[i] = t2[i]
    BY <1>2, <1>3, <1>4, <2>2
  <2>5. s = s2
    BY <1>1, <1>4, <2>3, SameSequence
  <2>6. t = t2
    BY <1>1, <2>2, <2>4, SameSequence
  <2> QED BY <2>5, <2>6
<1> QED BY <1>1, <1>4 DEF one, two

(* B holds what the fingerprint of this benchmark is made of.             *)
MadeOf(B, task, settings) ==
  /\ task \in B
  /\ \A limit \in Limits : EffectiveLimits(task, settings)[limit] \in B
  /\ settings.environment \in Seq(B)
  /\ settings.commands \in Seq(B) /\ task.commands \in Seq(B)
  /\ settings.paths \in Seq(B) /\ task.paths \in Seq(B)

(* The head of a fingerprint: the task and the limits in effect.          *)
HeadOf(task, settings) ==
  <<task, EffectiveLimits(task, settings)["timeout_seconds"],
    EffectiveLimits(task, settings)["max_output_bytes"],
    EffectiveLimits(task, settings)["max_changed_files"],
    EffectiveLimits(task, settings)["max_diff_lines"]>>

(* A fingerprint is that head, then the lists of the policy in effect.    *)
LEMMA FingerprintParts ==
  ASSUME NEW B, NEW task, NEW settings, MadeOf(B, task, settings)
  PROVE  /\ HeadOf(task, settings) \in Seq(B) /\ Len(HeadOf(task, settings)) = 5
         /\ settings.environment \in Seq(B)
         /\ Merge(settings.commands, task.commands) \in Seq(B)
         /\ Merge(settings.paths, task.paths) \in Seq(B)
         /\ TaskFingerprint(task, settings) =
              HeadOf(task, settings) \o settings.environment
              \o Merge(settings.commands, task.commands) \o Merge(settings.paths, task.paths)
PROOF
<1>1. \A p, q \in Seq(B) : Merge(p, q) \in Seq(B)
  <2> TAKE p \in Seq(B), q \in Seq(B)
  <2>1. p \o q \in Seq(B)
    OBVIOUS
  <2> QED BY <2>1, DeduplicateKeeps DEF Merge, Unrepeated
<1>2. HeadOf(task, settings) \in Seq(B) /\ Len(HeadOf(task, settings)) = 5
  <2>1. \A a, b, c, d, e \in B : <<a, b, c, d, e>> \in Seq(B) /\ Len(<<a, b, c, d, e>>) = 5
    OBVIOUS
  <2>2. {"timeout_seconds", "max_output_bytes", "max_changed_files", "max_diff_lines"} \subseteq Limits
    BY DEF Limits
  <2> QED BY <2>1, <2>2 DEF MadeOf, HeadOf
<1>3. TaskFingerprint(task, settings) =
        HeadOf(task, settings) \o settings.environment
        \o Merge(settings.commands, task.commands) \o Merge(settings.paths, task.paths)
  BY Zenon DEF TaskFingerprint, HeadOf
<1> QED BY <1>1, <1>2, <1>3 DEF MadeOf

(* Benchmarks of the same task and the same policy in effect have the     *)
(* same fingerprint, and no others with lists of the same lengths         *)
(* (orchestration.rs).                                                    *)
THEOREM FingerprintsTellBenchmarks ==
  \A B, task, settings, task2, settings2 :
    MadeOf(B, task, settings) /\ MadeOf(B, task2, settings2)
    => FingerprintsTell(task, settings, task2, settings2)
PROOF
<1> SUFFICES ASSUME NEW B, NEW task, NEW settings, NEW task2, NEW settings2,
                    MadeOf(B, task, settings), MadeOf(B, task2, settings2)
             PROVE  FingerprintsTell(task, settings, task2, settings2)
  OBVIOUS
<1> DEFINE h == HeadOf(task, settings)
           e == settings.environment
           c == Merge(settings.commands, task.commands)
           p == Merge(settings.paths, task.paths)
           h2 == HeadOf(task2, settings2)
           e2 == settings2.environment
           c2 == Merge(settings2.commands, task2.commands)
           p2 == Merge(settings2.paths, task2.paths)
           l == EffectiveLimits(task, settings)
           l2 == EffectiveLimits(task2, settings2)
           f == TaskFingerprint(task, settings)
           f2 == TaskFingerprint(task2, settings2)
<1>1. /\ h \in Seq(B) /\ Len(h) = 5 /\ e \in Seq(B) /\ c \in Seq(B) /\ p \in Seq(B)
      /\ f = h \o e \o c \o p
  BY FingerprintParts
<1>2. /\ h2 \in Seq(B) /\ Len(h2) = 5 /\ e2 \in Seq(B) /\ c2 \in Seq(B) /\ p2 \in Seq(B)
      /\ f2 = h2 \o e2 \o c2 \o p2
  BY FingerprintParts
<1>3. h = <<task, l["timeout_seconds"], l["max_output_bytes"], l["max_changed_files"], l["max_diff_lines"]>>
  BY DEF HeadOf
<1>4. h2 = <<task2, l2["timeout_seconds"], l2["max_output_bytes"], l2["max_changed_files"], l2["max_diff_lines"]>>
  BY DEF HeadOf
<1>5. h = h2 => task = task2 /\ l = l2
  <2>1. l = [x \in Limits |-> l[x]] /\ l2 = [x \in Limits |-> l2[x]]
    BY DEF EffectiveLimits
  <2> HIDE DEF h, h2, l, l2
  <2>2. ASSUME h = h2 PROVE task = task2 /\ \A x \in Limits : l[x] = l2[x]
    BY <1>3, <1>4, <2>2 DEF Limits
  <2> QED BY <2>1, <2>2
<1>6. Effect(task, settings) = <<task, l, e, c, p>> /\ Effect(task2, settings2) = <<task2, l2, e2, c2, p2>>
  BY Zenon DEF Effect
<1> HIDE DEF h, e, c, p, l, f, h2, e2, c2, p2, l2, f2
<1>7. ASSUME <<task, l, e, c, p>> = <<task2, l2, e2, c2, p2>> PROVE f = f2
  <2>1. task = task2 /\ l = l2 /\ e = e2 /\ c = c2 /\ p = p2
    BY <1>7
  <2>2. h = h2
    BY <2>1, <1>3, <1>4
  <2> QED BY <2>1, <2>2, <1>1, <1>2
<1>8. ASSUME f = f2, Len(e) = Len(e2), Len(c) = Len(c2)
      PROVE  <<task, l, e, c, p>> = <<task2, l2, e2, c2, p2>>
  <2> DEFINE he == h \o e
             he2 == h2 \o e2
  <2>1. he \in Seq(B) /\ he2 \in Seq(B) /\ Len(he) = Len(he2)
    <3>1. he \in Seq(B) /\ Len(he) = Len(h) + Len(e)
      BY <1>1, JoinFacts, ZenonT(60)
    <3>2. he2 \in Seq(B) /\ Len(he2) = Len(h2) + Len(e2)
      BY <1>2, JoinFacts, ZenonT(60)
    <3> HIDE DEF he, he2
    <3> QED BY <3>1, <3>2, <1>1, <1>2, <1>8
  <2> HIDE DEF he, he2
  <2> DEFINE hec == he \o c
             hec2 == he2 \o c2
  <2>2. hec \in Seq(B) /\ hec2 \in Seq(B) /\ Len(hec) = Len(hec2)
    <3>1. hec \in Seq(B) /\ Len(hec) = Len(he) + Len(c)
      BY <1>1, <2>1, JoinFacts, ZenonT(60)
    <3>2. hec2 \in Seq(B) /\ Len(hec2) = Len(he2) + Len(c2)
      BY <1>2, <2>1, JoinFacts
    <3> HIDE DEF hec, hec2
    <3> QED BY <3>1, <3>2, <1>8, <2>1
  <2> HIDE DEF hec, hec2
  <2>3. hec \o p = hec2 \o p2
    BY <1>1, <1>2, <1>8 DEF hec, hec2, he, he2
  <2>4. hec = hec2 /\ p = p2
    BY <1>1, <1>2, <2>2, <2>3, SameParts
  <2>5. he = he2 /\ c = c2
    <3>1. he \o c = he2 \o c2
      BY <2>4 DEF hec, hec2
    <3> QED BY <1>1, <1>2, <2>1, <3>1, SameParts
  <2>6. h = h2 /\ e = e2
    <3>1. h \o e = h2 \o e2 /\ Len(h) = Len(h2)
      BY <1>1, <1>2, <2>5 DEF he, he2
    <3> QED BY <1>1, <1>2, <3>1, SameParts
  <2> QED BY <2>4, <2>5, <2>6, <1>5
<1>9. /\ <<task, l, e, c, p>>[3] = e /\ <<task, l, e, c, p>>[4] = c
      /\ <<task2, l2, e2, c2, p2>>[3] = e2 /\ <<task2, l2, e2, c2, p2>>[4] = c2
  OBVIOUS
<1>10. FingerprintsTell(task, settings, task2, settings2) <=>
         /\ <<task, l, e, c, p>> = <<task2, l2, e2, c2, p2>> => f = f2
         /\ f = f2 /\ Len(e) = Len(e2) /\ Len(c) = Len(c2) => <<task, l, e, c, p>> = <<task2, l2, e2, c2, p2>>
  BY <1>6, <1>9 DEF FingerprintsTell, f, f2
<1> QED BY <1>7, <1>8, <1>10
(* A list repeats nothing exactly when no two of its places hold the same. *)
LEMMA DistinctIs ==
  ASSUME NEW B, NEW list \in Seq(B)
  PROVE  Distinct(list) <=> \A i, j \in DOMAIN list : list[i] = list[j] => i = j
PROOF
<1>1. Distinct(list) => \A i, j \in DOMAIN list : list[i] = list[j] => i = j
  BY IdsAreDistinct DEF Distinct
<1>2. ASSUME \A i, j \in DOMAIN list : list[i] = list[j] => i = j
      PROVE  Cardinality(ToSet(list)) = Len(list)
  <2> DEFINE S == DOMAIN list
             U == ToSet(list)
  <2>1. PICK n \in Nat : n = Len(list) /\ S = 1 .. n
    OBVIOUS
  <2>2. IsFiniteSet(S) /\ Cardinality(S) = n
    <3>1. 1 \in Int /\ n \in Int
      OBVIOUS
    <3>2. IsFiniteSet(1 .. n) /\ Cardinality(1 .. n) = IF 1 > n THEN 0 ELSE n - 1 + 1
      BY <3>1, FS_Interval
    <3> HIDE DEF S
    <3> QED BY <2>1, <3>2
  <2>3. U = {list[i] : i \in S} /\ list = [i \in S |-> list[i]]
    BY DEF ToSet
  <2> HIDE DEF S, U
  <2>4. list \in [S -> U]
    BY <2>3
  <2>5. list \in Surjection(S, U)
    BY <2>3, <2>4 DEF Surjection
  <2>6. list \in Injection(S, U)
    BY <1>2, <2>4 DEF Injection, IsInjective, S
  <2>7. Cardinality(U) = Cardinality(S)
    BY <2>2, <2>5, <2>6, FS_Surjection
  <2> QED BY <2>1, <2>2, <2>7 DEF U
<1> QED BY <1>1, <1>2 DEF Distinct

(* What lies in a list when all its members fit.                          *)
LEMMA ListsOf ==
  ASSUME NEW B, NEW list \in Seq(B)
  PROVE  /\ \A S : ToSet(list) \subseteq S <=> \A i \in DOMAIN list : list[i] \in S
         /\ \A v : Contains(list, v) <=> \E i \in DOMAIN list : list[i] = v
         /\ \A v : v \in ToSet(list) <=> \E i \in DOMAIN list : list[i] = v
PROOF
<1> QED BY DEF ToSet, Contains

-----------------------------------------------------------------------------
(* Directories.                                                           *)

(* One path lies in another, and two paths below a root are apart.        *)
LEMMA BelowRoot ==
  ASSUME NEW S, NEW root \in Seq(S), NEW p \in Seq(S), NEW q \in Seq(S)
  PROVE  /\ Inside(root, root \o p)
         /\ Inside(p, q) => Inside(root \o p, root \o q)
         /\ root \o p = root \o q => p = q
PROOF
<1>1. /\ root \o p \in Seq(S) /\ Len(root \o p) = Len(root) + Len(p)
      /\ root \o q \in Seq(S) /\ Len(root \o q) = Len(root) + Len(q)
      /\ \A i \in 1 .. Len(root) : (root \o p)[i] = root[i] /\ (root \o q)[i] = root[i]
      /\ \A i \in 1 .. Len(p) : (root \o p)[Len(root) + i] = p[i]
      /\ \A i \in 1 .. Len(q) : (root \o q)[Len(root) + i] = q[i]
  BY JoinFacts
<1>2. Inside(root, root \o p)
  BY <1>1 DEF Inside, IsPrefix
<1>3. ASSUME Inside(p, q) PROVE Inside(root \o p, root \o q)
  <2>1. Len(p) <= Len(q) /\ \A i \in 1 .. Len(p) : p[i] = q[i]
    <3>1. Len(p) <= Len(q) /\ SubSeq(p, 1, Len(p)) = SubSeq(q, 1, Len(p))
      BY <1>3 DEF Inside, IsPrefix
    <3>2. \A i \in 1 .. Len(p) : SubSeq(p, 1, Len(p))[i] = p[i] /\ SubSeq(q, 1, Len(p))[i] = q[i]
      BY <3>1
    <3> QED BY <3>1, <3>2
  <2>2. \A i \in 1 .. Len(root \o p) : (root \o p)[i] = (root \o q)[i]
    <3> SUFFICES ASSUME NEW i \in 1 .. Len(root \o p) PROVE (root \o p)[i] = (root \o q)[i]
      OBVIOUS
    <3>1. CASE i \in 1 .. Len(root)
      BY <3>1, <1>1
    <3>2. CASE i \notin 1 .. Len(root)
      <4>1. i - Len(root) \in 1 .. Len(p) /\ i - Len(root) \in 1 .. Len(q) /\ i = Len(root) + (i - Len(root))
        BY <3>2, <1>1, <2>1
      <4> QED BY <4>1, <1>1, <2>1
    <3> QED BY <3>1, <3>2
  <2>3. Len(root \o p) <= Len(root \o q)
    BY <1>1, <2>1
  <2> QED BY <1>1, <2>2, <2>3 DEF Inside, IsPrefix
<1>4. root \o p = root \o q => p = q
  BY SameParts
<1> QED BY <1>2, <1>3, <1>4

(* The directories of a valid configuration.                              *)
LEMMA PathsAreApart ==
  ASSUME NEW S, NEW root \in Seq(S), ~Contains(root, ".."),
         NEW paths \in Seq(Seq(S)), paths # <<>>, PathsValid(paths)
  PROVE  DirectoriesAreApart(root, paths)
PROOF
<1> DEFINE resolved == ResolvePaths(root, paths)
<1>1. PICK n \in Nat : n = Len(paths) /\ DOMAIN paths = 1 .. n /\ n > 0
  OBVIOUS
<1>2. \A i \in 1 .. n : paths[i] \in Seq(S) /\ IsPrefix(paths[1], paths[i])
  BY <1>1 DEF PathsValid
<1>3. Distinct(paths)
  BY DEF PathsValid
<1>4. /\ resolved \in Seq(Seq(S)) /\ DOMAIN resolved = 1 .. n
      /\ \A i \in 1 .. n : resolved[i] = root \o paths[i]
  <2>1. \A i \in 1 .. n : root \o paths[i] \in Seq(S)
    BY <1>2
  <2>2. resolved = [i \in 1 .. n |-> root \o paths[i]]
    BY <1>1 DEF ResolvePaths, Each
  <2> QED BY <2>1, <2>2, SMTT(60)
<1> HIDE DEF resolved
<1>5. ASSUME NEW i \in 1 .. n PROVE Inside(resolved[1], resolved[i])
  <2>1. 1 \in 1 .. n
    BY <1>1
  <2>2. paths[1] \in Seq(S) /\ paths[i] \in Seq(S) /\ Inside(paths[1], paths[i])
    BY <1>2, <2>1 DEF Inside
  <2>3. Inside(root \o paths[1], root \o paths[i])
    BY <2>2, BelowRoot
  <2> QED BY <1>4, <2>1, <2>3
<1>6. Inside(root, resolved[1])
  <2>1. 1 \in 1 .. n
    BY <1>1
  <2>2. paths[1] \in Seq(S)
    BY <1>2, <2>1
  <2>3. Inside(root, root \o paths[1])
    BY <2>2, BelowRoot
  <2> QED BY <1>4, <2>1, <2>3
<1>7. ASSUME NEW i \in 1 .. n PROVE ~Contains(resolved[i], "..")
  <2>1. EnsureSafeRelativePath(paths[i])
    BY <1>1 DEF PathsValid
  <2>2. \A k \in DOMAIN paths[i] : paths[i][k] # ".."
    BY <2>1, Zenon DEF EnsureSafeRelativePath
  <2>3. \A k \in 1 .. Len(root) : root[k] # ".."
    BY DEF Contains
  <2>4. /\ Len(resolved[i]) = Len(root) + Len(paths[i]) /\ resolved[i] \in Seq(S)
        /\ \A k \in 1 .. Len(root) : resolved[i][k] = root[k]
        /\ \A k \in 1 .. Len(paths[i]) : resolved[i][Len(root) + k] = paths[i][k]
    <3>1. paths[i] \in Seq(S)
      BY <1>2
    <3>2. /\ Len(root \o paths[i]) = Len(root) + Len(paths[i]) /\ root \o paths[i] \in Seq(S)
          /\ \A k \in 1 .. Len(root) : (root \o paths[i])[k] = root[k]
          /\ \A k \in 1 .. Len(paths[i]) : (root \o paths[i])[Len(root) + k] = paths[i][k]
      BY <3>1
    <3>3. resolved[i] = root \o paths[i]
      BY <1>4
    <3> QED BY <3>2, <3>3, Zenon
  <2>5. \A k \in 1 .. Len(resolved[i]) :
          k \in 1 .. Len(root) \/ (k - Len(root) \in 1 .. Len(paths[i]) /\ k = Len(root) + (k - Len(root)))
    <3>1. paths[i] \in Seq(S)
      BY <1>2
    <3>2. Len(root) \in Nat /\ Len(paths[i]) \in Nat
      BY <3>1
    <3> QED BY <2>4, <3>2
  <2>6. \A k \in 1 .. Len(resolved[i]) : resolved[i][k] # ".."
    <3>1. DOMAIN paths[i] = 1 .. Len(paths[i])
      BY <1>2
    <3> QED BY <2>2, <2>3, <2>4, <2>5, <3>1, ZenonT(60)
  <2> QED BY <2>4, <2>6 DEF Contains
<1>8. Distinct(resolved)
  <2>1. \A i, j \in 1 .. n : paths[i] = paths[j] => i = j
    BY <1>1, <1>3, DistinctIs
  <2>2. ASSUME NEW i \in 1 .. n, NEW j \in 1 .. n, resolved[i] = resolved[j] PROVE i = j
    <3>1. paths[i] \in Seq(S) /\ paths[j] \in Seq(S) /\ root \o paths[i] = root \o paths[j]
      BY <1>2, <1>4, <2>2
    <3>2. paths[i] = paths[j]
      BY <3>1, BelowRoot
    <3> QED BY <2>1, <3>2
  <2> QED BY <1>4, <2>2, DistinctIs
<1> QED BY <1>4, <1>5, <1>6, <1>7, <1>8 DEF DirectoriesAreApart, resolved

-----------------------------------------------------------------------------
(* Agents.                                                                *)

(* Three different things are three.                                      *)
LEMMA ThreeAre ==
  ASSUME NEW one, NEW two, NEW three, two # one, three # one, three # two
  PROVE  IsFiniteSet({one, two, three}) /\ Cardinality({one, two, three}) = 3
PROOF
<1>1. IsFiniteSet({one}) /\ Cardinality({one}) = 1
  BY FS_Singleton
<1>2. IsFiniteSet({one} \cup {two}) /\ Cardinality({one} \cup {two}) = 2
  <2>1. two \notin {one}
    OBVIOUS
  <2> QED BY <1>1, <2>1, FS_AddElement
<1>3. IsFiniteSet(({one} \cup {two}) \cup {three}) /\ Cardinality(({one} \cup {two}) \cup {three}) = 3
  <2>1. three \notin {one} \cup {two}
    OBVIOUS
  <2> DEFINE S == {one} \cup {two}
  <2> HIDE DEF S
  <2>2. IsFiniteSet(S \cup {three}) /\ Cardinality(S \cup {three}) = 3
    BY <1>2, <2>1, FS_AddElement DEF S
  <2> QED BY <2>2 DEF S
<1>4. ({one} \cup {two}) \cup {three} = {one, two, three}
  OBVIOUS
<1> QED BY <1>3, <1>4

(* The agents of a valid configuration and the built-in ones.             *)
LEMMA AgentsAreOthers ==
  ASSUME NEW config, ConfigValid(config), IsFiniteSet(DOMAIN config.agents),
         NEW S, \A id \in DOMAIN config.agents : config.agents[id].command \in Seq(S)
  PROVE  AgentsAreKept(config)
PROOF
<1> DEFINE registry == RegistryOf(config)
           Agents == DOMAIN config.agents
<1>1. IsFiniteSet(BuiltIn) /\ Cardinality(BuiltIn) = 3
  <2> DEFINE one == <<"codex">>
             two == <<"claude">>
             three == <<"gemini">>
  <2>1. two # one /\ three # one /\ three # two
    OBVIOUS
  <2>2. BuiltIn = {one, two, three}
    BY DEF BuiltIn
  <2> HIDE DEF one, two, three
  <2> QED BY <2>1, <2>2, ThreeAre
<1>2. BuiltIn \cap Agents = {}
  BY DEF ConfigValid
<1>3. registry.ids = BuiltIn \cup Agents
  BY DEF RegistryOf
<1>4. Cardinality(registry.ids) = 3 + Cardinality(Agents)
  <2>1. Cardinality(BuiltIn \cup Agents) = Cardinality(BuiltIn) + Cardinality(Agents) - Cardinality(BuiltIn \cap Agents)
    <3> HIDE DEF Agents
    <3> QED BY <1>1, FS_Union DEF Agents
  <2>2. Cardinality(BuiltIn \cap Agents) = 0
    BY <1>2, FS_EmptySet
  <2>3. Cardinality(Agents) \in Nat
    BY FS_CardinalityType
  <2> HIDE DEF Agents
  <2> QED BY <1>1, <1>3, <2>1, <2>2, <2>3
<1>5. ASSUME ~registry.ok
      PROVE  \E id \in Agents : Len(config.agents[id].command) > 1 /\ ~EnsureSafeRelativePath(config.agents[id].command)
  <2>1. PICK id \in Agents : ~AdapterBuilds(config.agents[id])
    BY <1>5 DEF RegistryOf
  <2> DEFINE command == config.agents[id].command
  <2>2. Len(command) > 1 /\ ~EnsureSafeRelativePath(Executable(command))
    BY <2>1 DEF AdapterBuilds
  <2>3. command[1] = "." => ~EnsureSafeRelativePath(command)
    <3>1. 1 \in DOMAIN command
      BY <2>2
    <3> HIDE DEF command
    <3> QED BY <3>1, Zenon DEF EnsureSafeRelativePath
  <2>4. command[1] # "." => Executable(command) = command
    BY DEF Executable
  <2> QED BY <2>2, <2>3, <2>4
<1> QED BY <1>4, <1>5 DEF AgentsAreKept

(* What a selection may hold: identifiers that are not too long.          *)
LEMMA SelectionsRun ==
  ASSUME NEW config, ConfigValid(config), NEW L, NEW list \in Seq(L),
         NEW registry, registry = RegistryOf(config)
  PROVE  SelectionRuns(registry, list)
PROOF
<1> SUFFICES ASSUME ToSet(list) \subseteq registry.ids, \A i \in DOMAIN list : Len(list[i]) <= MaxId,
                    Len(list) \in 1 .. MaxAgents
             PROVE  SelectedAgents(registry, registry.ids, list) <=> SuiteRunnerNew(list)
  BY DEF SelectionRuns
<1>1. list # <<>>
  OBVIOUS
<1>2. \A id \in registry.ids : id # <<>>
  <2>1. \A id \in DOMAIN config.agents : id # <<>>
    BY DEF ConfigValid
  <2>2. \A id \in BuiltIn : id # <<>>
    <3> SUFFICES ASSUME NEW id \in BuiltIn PROVE id # <<>>
      OBVIOUS
    <3>1. PICK name : id = <<name>>
      BY DEF BuiltIn
    <3> QED BY <3>1
  <2>3. registry.ids = BuiltIn \cup DOMAIN config.agents
    BY DEF RegistryOf
  <2> QED BY <2>1, <2>2, <2>3
<1>3. \A i \in DOMAIN list : PortableAgentId(list[i])
  <2> SUFFICES ASSUME NEW i \in DOMAIN list PROVE PortableAgentId(list[i])
    OBVIOUS
  <2>1. list[i] \in registry.ids
    BY DEF ToSet
  <2>2. ASSUME NEW id \in registry.ids PROVE ToSet(id) \subseteq Lower \cup {"-"}
    <3>1. registry.ids = BuiltIn \cup DOMAIN config.agents
      BY DEF RegistryOf
    <3>2. CASE id \in DOMAIN config.agents
      BY <3>2 DEF ConfigValid
    <3>3. CASE id \in BuiltIn
      <4>1. PICK name \in Lower : id = <<name>>
        BY <3>3 DEF BuiltIn, Lower
      <4>2. ToSet(<<name>>) = {name}
        BY DEF ToSet
      <4> QED BY <4>1, <4>2
    <3> QED BY <2>2, <3>1, <3>2, <3>3
  <2>3. ToSet(list[i]) \subseteq Lower \cup {"-"}
    BY <2>1, <2>2
  <2> QED BY <1>2, <2>1, <2>3 DEF PortableAgentId
<1>4. SelectedAgents(registry, registry.ids, list) <=> Distinct(list)
  BY <1>1 DEF SelectedAgents
<1>5. SuiteRunnerNew(list) <=> Distinct(list)
  BY <1>3 DEF SuiteRunnerNew
<1> QED BY <1>4, <1>5

(* A value that may be left out.                                          *)
Optional(S) == {option \in Seq(S) : Len(option) <= 1}

(* An agent's own ceiling.                                                *)
LEMMA TimeoutsAreLowered ==
  ASSUME NEW agent, agent.timeout \in Optional(Nat), AgentConfigValid(agent), NEW limit \in Nat \ {0}
  PROVE  TimeoutIsLowered(limit, agent)
PROOF
<1> USE DEF Optional
<1>1. CASE agent.timeout = <<>>
  BY <1>1 DEF TimeoutIsLowered, AgentTimeout, Present
<1>2. CASE agent.timeout # <<>>
  <2>1. Present(agent.timeout, LAMBDA seconds : seconds > 0)
    BY DEF AgentConfigValid
  <2>2. PICK own \in Nat : own = agent.timeout[1] /\ own > 0
    BY <1>2, <2>1 DEF Present
  <2>3. AgentTimeout(limit, agent) = IF limit <= own THEN limit ELSE own
    BY <1>2, <2>2 DEF AgentTimeout, Least
  <2>4. AgentTimeout(limit, agent) \in 1 .. limit /\ AgentTimeout(limit, agent) <= own
    BY <2>2, <2>3
  <2>5. \A i \in DOMAIN agent.timeout : agent.timeout[i] = own
    BY <2>2
  <2> QED BY <2>4, <2>5 DEF TimeoutIsLowered, Present
<1> QED BY <1>1, <1>2

(* What a project's configuration holds.                                  *)
Configured(S, config) ==
  /\ config.paths \in Seq(Seq(S)) /\ config.paths # <<>>
  /\ IsFiniteSet(DOMAIN config.agents)
  /\ \A id \in DOMAIN config.agents :
       config.agents[id].command \in Seq(S) /\ config.agents[id].timeout \in Optional(Nat)

(* Every configuration that is valid: below any root its directories stay  *)
(* in the state directory and apart, none leads out by a "..", an agent   *)
(* never hides a built-in one and the registry fails only for a command    *)
(* that is no safe path, a selection that repeats no agent makes a suite   *)
(* runner and no other does, and an agent's own ceiling only lowers the    *)
(* limit of a task (core/config.rs, runner/registry.rs, runner/suite.rs).  *)
THEOREM ConfigurationsWork ==
  ASSUME NEW S, NEW config, Configured(S, config), ConfigValid(config)
  PROVE  /\ \A root \in Seq(S) : ~Contains(root, "..") => DirectoriesAreApart(root, config.paths)
         /\ AgentsAreKept(config)
         /\ \A L : \A list \in Seq(L) : SelectionRuns(RegistryOf(config), list)
         /\ \A id \in DOMAIN config.agents, limit \in Nat \ {0} : TimeoutIsLowered(limit, config.agents[id])
PROOF
<1>1. \A root \in Seq(S) : ~Contains(root, "..") => DirectoriesAreApart(root, config.paths)
  <2>1. config.paths \in Seq(Seq(S)) /\ config.paths # <<>> /\ PathsValid(config.paths)
    BY Zenon DEF Configured, ConfigValid
  <2> QED BY <2>1, PathsAreApart
<1>2. AgentsAreKept(config)
  BY AgentsAreOthers DEF Configured
<1>3. \A L : \A list \in Seq(L) : SelectionRuns(RegistryOf(config), list)
  BY SelectionsRun
<1>4. ASSUME NEW id \in DOMAIN config.agents, NEW limit \in Nat \ {0}
      PROVE  TimeoutIsLowered(limit, config.agents[id])
  <2>1. config.agents[id].timeout \in Optional(Nat) /\ AgentConfigValid(config.agents[id])
    BY Zenon DEF Configured, ConfigValid
  <2> QED BY <2>1, TimeoutsAreLowered
<1> QED BY <1>1, <1>2, <1>3, <1>4

-----------------------------------------------------------------------------
(* Plans.                                                                 *)

(* How many runs there are in a matrix.                                   *)
LEMMA RunsOfMatrix ==
  ASSUME NEW t \in Nat, NEW a \in Nat, NEW r \in Nat
  PROVE  Cardinality(((1 .. t) \X (1 .. a)) \X (1 .. r)) = t * a * r /\ t * a * r \in Nat
PROOF
<1>1. ASSUME NEW n \in Nat PROVE IsFiniteSet(1 .. n) /\ Cardinality(1 .. n) = n
  <2>1. 1 \in Int /\ n \in Int
    OBVIOUS
  <2>2. IsFiniteSet(1 .. n) /\ Cardinality(1 .. n) = IF 1 > n THEN 0 ELSE n - 1 + 1
    BY <2>1, FS_Interval
  <2> QED BY <2>2
<1> DEFINE T == 1 .. t
           A == 1 .. a
           R == 1 .. r
           M == T \X A
<1>2. IsFiniteSet(T) /\ Cardinality(T) = t /\ IsFiniteSet(A) /\ Cardinality(A) = a
      /\ IsFiniteSet(R) /\ Cardinality(R) = r
  BY <1>1
<1> HIDE DEF T, A, R
<1>3. IsFiniteSet(M) /\ Cardinality(M) = t * a
  BY <1>2, FS_Product
<1> HIDE DEF M
<1>4. Cardinality(M \X R) = t * a * r
  BY <1>2, <1>3, FS_Product, ZenonT(60)
<1> QED BY <1>4 DEF M, T, A, R

(* A number of runs that is the same for one repeat more is none.         *)
LEMMA MoreRuns ==
  \A n, r \in Nat : n > 0 => n * (r + 1) # n * r
PROOF
<1>1. \A n, r \in Nat : n * (r + 1) = n * r + n
  OBVIOUS
<1>2. \A n, m \in Nat : n > 0 => m + n # m
  OBVIOUS
<1> QED
  <2> TAKE n, r \in Nat
  <2> DEFINE m == n * r
  <2>1. m \in Nat /\ n * (r + 1) = m + n
    BY <1>1
  <2> HIDE DEF m
  <2>2. n > 0 => n * (r + 1) # m
    BY <1>2, <2>1
  <2> QED BY <2>2 DEF m

(* Nothing is left of two numbers but when one of them is nothing.        *)
LEMMA SomeRuns == \A n, m \in Nat : n > 0 /\ m > 0 => n * m > 0
PROOF
<1> QED OBVIOUS

(* What a plan is made of, and what makes it one.                         *)
Planned(suite, tasks, agents, repeat) ==
  [definition |-> suite, tasks |-> tasks, agents |-> agents, repeat |-> repeat,
   fingerprint |-> suite, count |-> Len(tasks) * Len(agents) * repeat]

Plannable(suite, tasks, agents, repeat) ==
  /\ SuiteValid(suite) /\ repeat \in 1 .. MaxRepeat /\ TasksFit(tasks, suite)
  /\ ~(Len(tasks) * Len(agents) * repeat > MaxInvocations)

(* When there is a plan and which.                                        *)
LEMMA PreflightIs ==
  ASSUME NEW suite, NEW tasks, NEW agents, NEW repeat
  PROVE  Preflight(suite, tasks, agents, repeat) =
           IF Plannable(suite, tasks, agents, repeat) THEN <<Planned(suite, tasks, agents, repeat)>>
           ELSE <<>>
PROOF
<1> DEFINE n == Len(tasks) * Len(agents) * repeat
           count == CheckedInvocationCount(Len(tasks), Len(agents), repeat)
           none == <<>>
<1>1. count = IF n > MaxInvocations THEN none ELSE <<n>>
  BY DEF CheckedInvocationCount
<1>2. <<n>> # none /\ <<n>>[1] = n
  OBVIOUS
<1>3. Preflight(suite, tasks, agents, repeat) =
        IF SuiteValid(suite) /\ repeat \in 1 .. MaxRepeat /\ TasksFit(tasks, suite) /\ count # none
        THEN <<[definition |-> suite, tasks |-> tasks, agents |-> agents, repeat |-> repeat,
                fingerprint |-> suite, count |-> count[1]]>>
        ELSE none
  BY DEF Preflight
<1>4. Plannable(suite, tasks, agents, repeat) <=>
        SuiteValid(suite) /\ repeat \in 1 .. MaxRepeat /\ TasksFit(tasks, suite) /\ ~(n > MaxInvocations)
  BY DEF Plannable
<1>5. Planned(suite, tasks, agents, repeat) =
        [definition |-> suite, tasks |-> tasks, agents |-> agents, repeat |-> repeat,
         fingerprint |-> suite, count |-> n]
  BY DEF Planned
<1> HIDE DEF n, count, none
<1>6. CASE n > MaxInvocations
  BY <1>1, <1>3, <1>4, <1>6, Zenon DEF none
<1>7. CASE ~(n > MaxInvocations)
  BY <1>1, <1>2, <1>3, <1>4, <1>5, <1>7, Zenon DEF none
<1> QED BY <1>6, <1>7

(* The plan of a suite that can be run.                                   *)
LEMMA PlanFacts ==
  ASSUME NEW B, NEW suite, suite.tasks \in Seq(B), NEW T, NEW tasks \in Seq(T),
         NEW A, NEW agents \in Seq(A), NEW repeat \in Nat,
         SuiteRunnerNew(agents), Plannable(suite, tasks, agents, repeat)
  PROVE  LET plan == Planned(suite, tasks, agents, repeat) IN
         /\ TaskIds(tasks) = suite.tasks /\ Len(tasks) = Len(suite.tasks)
         /\ Len(tasks) \in Nat \ {0} /\ Len(agents) \in Nat \ {0}
         /\ Len(tasks) * Len(agents) * repeat \in Nat
         /\ PlanRecordable(plan) /\ ValidatePlan(plan, agents)
PROOF
<1> DEFINE plan == Planned(suite, tasks, agents, repeat)
           n == Len(tasks) * Len(agents) * repeat
<1>1. TaskIds(tasks) = suite.tasks /\ TasksFit(tasks, suite) /\ SuiteValid(suite) /\ repeat \in 1 .. MaxRepeat
      /\ ~(n > MaxInvocations)
  BY DEF Plannable, TasksFit, TaskIds
<1>2. Len(tasks) = Len(suite.tasks)
  <2>1. Len(TaskIds(tasks)) = Len(tasks)
    BY DEF TaskIds, Each
  <2> QED BY <1>1, <2>1
<1>3. Len(suite.tasks) \in 1 .. MaxTasks /\ Distinct(suite.tasks)
  BY <1>1 DEF SuiteValid
<1>4. Len(agents) \in 1 .. MaxAgents /\ Distinct(agents) /\ \A i \in DOMAIN agents : PortableAgentId(agents[i])
  BY DEF SuiteRunnerNew
<1>5. Len(tasks) \in Nat \ {0} /\ Len(agents) \in Nat \ {0}
  BY <1>2, <1>3, <1>4
<1>6. n \in Nat
  BY <1>5, RunsOfMatrix
<1>7. /\ plan.definition = suite /\ plan.tasks = tasks /\ plan.agents = agents
      /\ plan.repeat = repeat /\ plan.fingerprint = suite /\ plan.count = n
  BY DEF Planned
<1>8. n <= MaxInvocations /\ MaxInvocations \in Nat
  BY <1>1, <1>6, DefinitionBounds
<1>9. PlanRecordable(plan)
  <2>1. Each(plan.tasks, LAMBDA task : task.id) = suite.tasks
    BY <1>1, <1>7 DEF TaskIds
  <2>2. Len(plan.tasks) * Len(plan.agents) * plan.repeat <= MaxInvocations
    BY <1>7, <1>8
  <2> HIDE DEF plan
  <2> QED BY <1>1, <1>2, <1>3, <1>4, <1>7, <2>1, <2>2, Zenon DEF PlanRecordable
<1>10. ValidatePlan(plan, agents)
  <2>1. CheckedInvocationCount(Len(tasks), Len(agents), repeat) = <<n>>
    BY <1>1 DEF CheckedInvocationCount
  <2> HIDE DEF plan, n
  <2> QED BY <1>1, <1>7, <2>1, Zenon DEF ValidatePlan
<1> QED BY <1>1, <1>2, <1>5, <1>6, <1>9, <1>10

(* No other plan passes for it.                                           *)
LEMMA OtherPlans ==
  ASSUME NEW B, NEW suite, suite.tasks \in Seq(B), NEW T, NEW tasks \in Seq(T),
         NEW A, NEW agents \in Seq(A), NEW repeat \in Nat,
         SuiteRunnerNew(agents), Plannable(suite, tasks, agents, repeat)
  PROVE  LET plan == Planned(suite, tasks, agents, repeat) IN
         /\ ~ValidatePlan([plan EXCEPT !.repeat = @ + 1], agents)
         /\ ~ValidatePlan([plan EXCEPT !.count = @ - 1], agents)
         /\ ~ValidatePlan([plan EXCEPT !.agents = Tail(@)], agents)
         /\ ~ValidatePlan([plan EXCEPT !.tasks = Tail(@)], agents)
         /\ \A d : [plan EXCEPT !.definition = d] # plan => ~ValidatePlan([plan EXCEPT !.definition = d], agents)
         /\ ~ValidatePlan(plan, Tail(agents))
PROOF
<1> DEFINE plan == Planned(suite, tasks, agents, repeat)
           k == Len(tasks) * Len(agents)
           n == k * repeat
<1>1. /\ TaskIds(tasks) = suite.tasks /\ Len(tasks) = Len(suite.tasks)
      /\ Len(tasks) \in Nat \ {0} /\ Len(agents) \in Nat \ {0} /\ n \in Nat
  BY PlanFacts
<1>2. \A t, a, r : CheckedInvocationCount(t, a, r) \in {<<>>, <<t * a * r>>}
  BY DEF CheckedInvocationCount
<1>3. /\ plan.definition = suite /\ plan.tasks = tasks /\ plan.agents = agents
      /\ plan.repeat = repeat /\ plan.fingerprint = suite /\ plan.count = n
  BY DEF Planned
<1>4. \A x, y : <<x>> = <<y>> => x = y
  OBVIOUS
<1>5. Tail(agents) # agents /\ Len(Tail(tasks)) # Len(tasks)
  <2>1. \A S : \A s \in Seq(S) : Len(s) > 0 => Len(Tail(s)) = Len(s) - 1 /\ Len(s) \in Nat
    OBVIOUS
  <2>2. Len(Tail(agents)) = Len(agents) - 1 /\ Len(Tail(tasks)) = Len(tasks) - 1
    BY <1>1, <2>1
  <2>3. \A m \in Nat : m - 1 # m
    OBVIOUS
  <2> QED BY <1>1, <2>2, <2>3, Zenon
<1>6. ASSUME ValidatePlan([plan EXCEPT !.repeat = @ + 1], agents) PROVE FALSE
  <2> DEFINE other == [plan EXCEPT !.repeat = @ + 1]
  <2>1. other.tasks = tasks /\ other.agents = agents /\ other.repeat = repeat + 1 /\ other.count = n
    BY DEF Planned
  <2> HIDE DEF other, plan
  <2>2. CheckedInvocationCount(Len(tasks), Len(agents), repeat + 1) = <<n>>
    BY <1>6, <2>1 DEF ValidatePlan, other
  <2>3. <<n>> # <<>>
    OBVIOUS
  <2>4. <<k * (repeat + 1)>> = <<n>>
    BY <1>2, <2>2, <2>3
  <2>5. k * (repeat + 1) = n
    BY <1>4, <2>4
  <2>6. k \in Nat /\ k > 0
    BY <1>1, SomeRuns
  <2> HIDE DEF k
  <2> QED BY <2>5, <2>6, MoreRuns
<1>7. ASSUME ValidatePlan([plan EXCEPT !.count = @ - 1], agents) PROVE FALSE
  <2> DEFINE other == [plan EXCEPT !.count = @ - 1]
  <2>1. other.tasks = tasks /\ other.agents = agents /\ other.repeat = repeat /\ other.count = n - 1
    BY DEF Planned
  <2> HIDE DEF other, plan
  <2>2. CheckedInvocationCount(Len(tasks), Len(agents), repeat) = <<n - 1>>
    BY <1>7, <2>1 DEF ValidatePlan, other
  <2>3. <<n - 1>> # <<>>
    OBVIOUS
  <2>4. <<n>> = <<n - 1>>
    BY <1>2, <2>2, <2>3
  <2>5. n = n - 1
    BY <1>4, <2>4
  <2> HIDE DEF n
  <2> QED BY <1>1, <2>5
<1>8. ASSUME ValidatePlan([plan EXCEPT !.agents = Tail(@)], agents) PROVE FALSE
  <2> DEFINE other == [plan EXCEPT !.agents = Tail(@)]
  <2>1. other.agents = Tail(agents)
    BY DEF Planned
  <2> HIDE DEF other, plan
  <2> QED BY <1>5, <1>8, <2>1, Zenon DEF ValidatePlan, other
<1>9. ASSUME ValidatePlan([plan EXCEPT !.tasks = Tail(@)], agents) PROVE FALSE
  <2> DEFINE other == [plan EXCEPT !.tasks = Tail(@)]
  <2>1. other.tasks = Tail(tasks) /\ other.definition = suite
    BY DEF Planned
  <2> HIDE DEF other, plan
  <2>2. TasksFit(Tail(tasks), suite)
    BY <1>9, <2>1, Zenon DEF ValidatePlan, other
  <2>3. TaskIds(Tail(tasks)) = suite.tasks
    BY <2>2 DEF TasksFit, TaskIds
  <2>4. Len(TaskIds(Tail(tasks))) = Len(Tail(tasks))
    BY <1>1 DEF TaskIds, Each
  <2> QED BY <1>1, <1>5, <2>3, <2>4
<1>10. ASSUME NEW d, ValidatePlan([plan EXCEPT !.definition = d], agents) PROVE [plan EXCEPT !.definition = d] = plan
  <2> DEFINE other == [plan EXCEPT !.definition = d]
  <2>1. other.definition = d /\ other.fingerprint = suite
    BY DEF Planned
  <2>2. d = suite
    <3> HIDE DEF other, plan
    <3> QED BY <1>10, <2>1, Zenon DEF ValidatePlan, other
  <2> QED BY <2>2 DEF Planned
<1>11. ASSUME ValidatePlan(plan, Tail(agents)) PROVE FALSE
  <2> HIDE DEF plan
  <2> QED BY <1>3, <1>5, <1>11, Zenon DEF ValidatePlan
<1> QED BY <1>6, <1>7, <1>8, <1>9, <1>10, <1>11

(* Every suite of tasks, whatever agents it is run with and how often: a   *)
(* plan is made exactly when the suite is valid, its tasks are there, in   *)
(* their order, and the runs are not too many; its count is that of the    *)
(* runs, its record will be accepted, and no plan that differs in its      *)
(* repeats, count, agents, tasks or definition passes for it               *)
(* (runner/suite.rs, core/suite.rs).                                       *)
THEOREM PlansAreKept ==
  ASSUME NEW B, NEW suite, suite.tasks \in Seq(B), NEW T, NEW tasks \in Seq(T),
         NEW A, NEW agents \in Seq(A), NEW repeat \in Nat
  PROVE  PlanIsRecordable(suite, tasks, agents, repeat)
PROOF
<1> DEFINE flight == Preflight(suite, tasks, agents, repeat)
           plan   == Planned(suite, tasks, agents, repeat)
           cells  == (1 .. Len(suite.tasks)) \X (1 .. Len(agents))
           n      == Len(tasks) * Len(agents) * repeat
           altered(p) == {[p EXCEPT !.repeat = @ + 1], [p EXCEPT !.count = @ - 1],
                          [p EXCEPT !.agents = Tail(@)], [p EXCEPT !.tasks = Tail(@)],
                          [p EXCEPT !.definition = [@ EXCEPT !.description = <<"d">>]]}
<1>1. SUFFICES ASSUME SuiteRunnerNew(agents)
      PROVE  /\ flight # <<>> =>
                  /\ PlanRecordable(flight[1]) /\ ValidatePlan(flight[1], agents)
                  /\ flight[1].count = Cardinality(cells \X (1 .. repeat))
                  /\ TaskIds(flight[1].tasks) = suite.tasks
                  /\ \A other \in altered(flight[1]) : other # flight[1] => ~ValidatePlan(other, agents)
                  /\ ~ValidatePlan(flight[1], Tail(agents))
             /\ flight = <<>> =>
                  \/ ~SuiteValid(suite) \/ repeat \notin 1 .. MaxRepeat \/ TaskIds(tasks) # suite.tasks
                  \/ \E i \in DOMAIN tasks : ~TaskValid(tasks[i])
                  \/ Cardinality(cells \X (1 .. repeat)) > MaxInvocations
  BY Zenon DEF PlanIsRecordable
<1>2. flight = IF Plannable(suite, tasks, agents, repeat) THEN <<plan>> ELSE <<>>
  BY PreflightIs
<1> HIDE DEF flight
<1>3. CASE Plannable(suite, tasks, agents, repeat)
  <2>1. flight[1] = plan /\ flight # <<>>
    BY <1>2, <1>3
  <2>2. /\ TaskIds(tasks) = suite.tasks /\ Len(tasks) = Len(suite.tasks)
        /\ Len(tasks) \in Nat /\ Len(agents) \in Nat
        /\ PlanRecordable(plan) /\ ValidatePlan(plan, agents)
    BY <1>1, <1>3, PlanFacts
  <2>3. plan.count = n /\ plan.tasks = tasks
    BY DEF Planned
  <2>4. Cardinality(cells \X (1 .. repeat)) = n
    <3>1. Cardinality(((1 .. Len(tasks)) \X (1 .. Len(agents))) \X (1 .. repeat)) = n
      BY <2>2, RunsOfMatrix
    <3> HIDE DEF n
    <3> QED BY <2>2, <3>1
  <2>5. /\ ~ValidatePlan([plan EXCEPT !.repeat = @ + 1], agents)
        /\ ~ValidatePlan([plan EXCEPT !.count = @ - 1], agents)
        /\ ~ValidatePlan([plan EXCEPT !.agents = Tail(@)], agents)
        /\ ~ValidatePlan([plan EXCEPT !.tasks = Tail(@)], agents)
        /\ \A d : [plan EXCEPT !.definition = d] # plan => ~ValidatePlan([plan EXCEPT !.definition = d], agents)
        /\ ~ValidatePlan(plan, Tail(agents))
    BY <1>1, <1>3, OtherPlans
  <2> HIDE DEF plan, cells, n
  <2>6. \A other \in altered(plan) : other # plan => ~ValidatePlan(other, agents)
    <3> TAKE other \in altered(plan)
    <3>1. CASE other = [plan EXCEPT !.repeat = @ + 1]
      BY <2>5, <3>1, Zenon
    <3>2. CASE other = [plan EXCEPT !.count = @ - 1]
      BY <2>5, <3>2, Zenon
    <3>3. CASE other = [plan EXCEPT !.agents = Tail(@)]
      BY <2>5, <3>3, Zenon
    <3>4. CASE other = [plan EXCEPT !.tasks = Tail(@)]
      BY <2>5, <3>4, Zenon
    <3>5. CASE other = [plan EXCEPT !.definition = [@ EXCEPT !.description = <<"d">>]]
      BY <2>5, <3>5, Zenon
    <3> QED BY <3>1, <3>2, <3>3, <3>4, <3>5, Zenon
  <2> HIDE DEF altered
  <2> QED BY <2>1, <2>2, <2>3, <2>4, <2>5, <2>6, Zenon
<1>4. CASE ~Plannable(suite, tasks, agents, repeat)
  <2>1. flight = <<>>
    BY <1>2, <1>4
  <2>2. ASSUME SuiteValid(suite), repeat \in 1 .. MaxRepeat, TaskIds(tasks) = suite.tasks,
               \A i \in DOMAIN tasks : TaskValid(tasks[i])
        PROVE  Cardinality(cells \X (1 .. repeat)) > MaxInvocations
    <3>1. TasksFit(tasks, suite)
      BY <2>2 DEF TasksFit, TaskIds
    <3>2. n > MaxInvocations
      BY <1>4, <2>2, <3>1 DEF Plannable
    <3>3. Len(suite.tasks) = Len(tasks)
      <4>1. Len(TaskIds(tasks)) = Len(tasks)
        BY DEF TaskIds, Each
      <4> QED BY <2>2, <4>1
    <3>4. Cardinality(cells \X (1 .. repeat)) = n
      BY <3>3, RunsOfMatrix
    <3> QED BY <3>2, <3>4
  <2> HIDE DEF cells
  <2> QED BY <2>1, <2>2, Zenon
<1> QED BY <1>3, <1>4

-----------------------------------------------------------------------------
(* Inventories: what lies at or below a forbidden path.                   *)

(* A prefix, element by element.                                          *)
LEMMA PrefixIs ==
  ASSUME NEW B, NEW s \in Seq(B), NEW t \in Seq(B)
  PROVE  IsPrefix(s, t) <=> Len(s) <= Len(t) /\ \A i \in 1 .. Len(s) : s[i] = t[i]
PROOF
<1>1. PICK n \in Nat, m \in Nat : n = Len(s) /\ m = Len(t)
  OBVIOUS
<1>2. CASE n <= m
  <2> DEFINE u == SubSeq(t, 1, n)
             v == SubSeq(s, 1, n)
  <2>1. u \in Seq(B) /\ Len(u) = n /\ \A i \in 1 .. n : u[i] = t[i]
    BY <1>1, <1>2
  <2>2. v = s
    BY <1>1
  <2>3. IsPrefix(s, t) <=> v = u
    BY <1>1, <1>2 DEF IsPrefix
  <2> HIDE DEF u, v
  <2>4. (\A i \in 1 .. n : s[i] = u[i]) => s = u
    BY <1>1, <2>1, SameSequence
  <2> QED BY <1>1, <1>2, <2>1, <2>2, <2>3, <2>4
<1>3. CASE ~(n <= m)
  BY <1>1, <1>3 DEF IsPrefix
<1> QED BY <1>2, <1>3

(* How prefixes of what is longer by one element compare.                 *)
PrefixesCompare(B) ==
  \A a, b \in Seq(B), x, y \in B :
    /\ IsPrefix(a, a) /\ IsPrefix(<<>>, a) /\ ~IsPrefix(Append(a, x), a)
    /\ IsPrefix(Append(a, x), b) => IsPrefix(a, b)
    /\ IsPrefix(b, Append(a, x)) => IsPrefix(b, a) \/ b = Append(a, x)
    /\ IsPrefix(Append(a, x), Append(a, y)) => x = y

(* So they do over every set.                                             *)
LEMMA ComparedPrefixes ==
  ASSUME NEW B
  PROVE  PrefixesCompare(B)
PROOF
<1> SUFFICES ASSUME NEW a \in Seq(B), NEW b \in Seq(B), NEW x \in B, NEW y \in B
             PROVE  /\ IsPrefix(a, a) /\ IsPrefix(<<>>, a) /\ ~IsPrefix(Append(a, x), a)
                    /\ IsPrefix(Append(a, x), b) => IsPrefix(a, b)
                    /\ IsPrefix(b, Append(a, x)) => IsPrefix(b, a) \/ b = Append(a, x)
                    /\ IsPrefix(Append(a, x), Append(a, y)) => x = y
  BY DEF PrefixesCompare
<1>1. PICK n \in Nat, m \in Nat : n = Len(a) /\ m = Len(b)
  OBVIOUS
<1> DEFINE ax == Append(a, x)
           ay == Append(a, y)
<1>2. /\ ax \in Seq(B) /\ Len(ax) = n + 1 /\ ax[n + 1] = x /\ \A i \in 1 .. n : ax[i] = a[i]
      /\ ay \in Seq(B) /\ Len(ay) = n + 1 /\ ay[n + 1] = y /\ \A i \in 1 .. n : ay[i] = a[i]
  BY <1>1
<1> HIDE DEF ax, ay
<1>3. \A s, t \in Seq(B) :
        IsPrefix(s, t) <=> Len(s) <= Len(t) /\ \A i \in 1 .. Len(s) : s[i] = t[i]
  BY PrefixIs
<1>4. IsPrefix(a, a) /\ IsPrefix(<<>>, a) /\ ~IsPrefix(ax, a)
  <2>1. IsPrefix(a, a)
    BY <1>1, <1>3
  <2>2. IsPrefix(<<>>, a)
    <3> DEFINE nil == <<>>
    <3>1. nil \in Seq(B) /\ Len(nil) = 0
      OBVIOUS
    <3> HIDE DEF nil
    <3>2. IsPrefix(nil, a) <=> 0 <= n /\ \A i \in 1 .. 0 : nil[i] = a[i]
      BY <1>1, <1>3, <3>1
    <3>3. IsPrefix(nil, a)
      BY <3>2
    <3> QED BY <3>3 DEF nil
  <2>3. ~IsPrefix(ax, a)
    BY <1>1, <1>2, <1>3
  <2> QED BY <2>1, <2>2, <2>3
<1>5. ASSUME IsPrefix(ax, b) PROVE IsPrefix(a, b)
  BY <1>1, <1>2, <1>3, <1>5
<1>6. ASSUME IsPrefix(b, ax) PROVE IsPrefix(b, a) \/ b = ax
  <2>1. m <= n + 1 /\ \A i \in 1 .. m : b[i] = ax[i]
    BY <1>1, <1>2, <1>3, <1>6
  <2>2. CASE m <= n
    BY <1>1, <1>2, <1>3, <2>1, <2>2, SMTT(60)
  <2>3. CASE m = n + 1
    <3>1. b = ax
      BY <1>1, <1>2, <2>1, <2>3, SameSequence
    <3> QED BY <3>1
  <2> QED BY <2>1, <2>2, <2>3
<1>7. ASSUME IsPrefix(ax, ay) PROVE x = y
  <2>1. ax[n + 1] = ay[n + 1]
    BY <1>2, <1>3, <1>7
  <2> QED BY <1>2, <2>1
<1> QED BY <1>4, <1>5, <1>6, <1>7 DEF ax, ay

(* What lies at or below a location, seen from there.                     *)
BelowIt(fs, at) == {relative \in Seq(Name) : at \o relative \in DOMAIN fs}

(* What lies below something lies in a directory, under a name of its own.*)
LEMMA BelowIsEntered ==
  ASSUME NEW fs, FileTree(fs), NEW at \in Seq(Name), NEW r \in Seq(Name),
         NEW rel \in BelowIt(fs, at), IsPrefix(r, rel)
  PROVE  /\ r \in BelowIt(fs, at)
         /\ r # rel => /\ fs[at \o r].kind = "dir"
                       /\ \E n \in Name : Append(r, n) \in BelowIt(fs, at) /\ IsPrefix(Append(r, n), rel)
PROOF
<1> DEFINE l == at \o rel
<1>1. rel \in Seq(Name) /\ l \in DOMAIN fs
  BY DEF BelowIt
<1>2. PICK a \in Nat, k \in Nat, m \in Nat :
        a = Len(at) /\ k = Len(r) /\ m = Len(rel) /\ k <= m /\ \A i \in 1 .. k : r[i] = rel[i]
  BY <1>1, PrefixIs
<1>3. l \in Seq(Name) /\ Len(l) = a + m
      /\ (\A i \in 1 .. a : l[i] = at[i]) /\ (\A i \in 1 .. m : l[a + i] = rel[i])
  BY <1>1, <1>2
<1> HIDE DEF l
<1>4. SubSeq(l, 1, a + k) = at \o r
  <2> DEFINE s == SubSeq(l, 1, a + k)
             t == at \o r
  <2>1. s \in Seq(Name) /\ Len(s) = a + k /\ \A i \in 1 .. a + k : s[i] = l[i]
    BY <1>2, <1>3
  <2>2. t \in Seq(Name) /\ Len(t) = a + k
        /\ (\A i \in 1 .. a : t[i] = at[i]) /\ (\A i \in 1 .. k : t[a + i] = r[i])
    BY <1>2
  <2> HIDE DEF s, t
  <2>3. ASSUME NEW i \in 1 .. a + k PROVE s[i] = t[i]
    <3>1. CASE i \in 1 .. a
      BY <3>1, <1>3, <2>1, <2>2
    <3>2. CASE i \notin 1 .. a
      <4>1. PICK j \in 1 .. k : j \in 1 .. m /\ i = a + j
        <5>1. i - a \in 1 .. k /\ i - a \in 1 .. m /\ i = a + (i - a)
          BY <1>2, <3>2
        <5> QED BY <5>1
      <4>2. s[i] = l[a + j] /\ l[a + j] = rel[j] /\ rel[j] = r[j] /\ t[a + j] = r[j]
        BY <4>1, <1>2, <1>3, <2>1, <2>2
      <4> QED BY <4>1, <4>2
    <3> QED BY <3>1, <3>2
  <2>4. s = t
    BY <2>1, <2>2, <2>3, SameSequence
  <2> QED BY <2>4 DEF s, t
<1>5. a + k \in 0 .. Len(l)
  BY <1>2, <1>3
<1>6. SubSeq(l, 1, a + k) \in DOMAIN fs /\ (a + k < Len(l) => fs[SubSeq(l, 1, a + k)].kind = "dir")
  BY <1>1, <1>5, PrefixesExist DEF l
<1>7. r \in BelowIt(fs, at)
  BY <1>4, <1>6 DEF BelowIt
<1>8. ASSUME r # rel
      PROVE  /\ fs[at \o r].kind = "dir"
             /\ \E n \in Name : Append(r, n) \in BelowIt(fs, at) /\ IsPrefix(Append(r, n), rel)
  <2>1. k < m
    <3> SUFFICES ASSUME k = m PROVE FALSE
      BY <1>2
    <3>1. r = rel
      BY <1>1, <1>2, SameSequence
    <3> QED BY <3>1, <1>8
  <2>2. a + k < Len(l) /\ a + (k + 1) \in 0 .. Len(l) /\ k + 1 \in 1 .. m
    BY <1>2, <1>3, <2>1
  <2> DEFINE n == rel[k + 1]
             rn == Append(r, n)
  <2>3. n \in Name
    BY <1>1, <1>2, <2>2
  <2>4. rn \in Seq(Name) /\ Len(rn) = k + 1 /\ rn[k + 1] = n /\ \A i \in 1 .. k : rn[i] = r[i]
    BY <1>2, <2>3
  <2> HIDE DEF rn
  <2>5. IsPrefix(rn, rel)
    <3>1. \A i \in 1 .. k + 1 : i \in 1 .. k \/ i = k + 1
      BY <1>2
    <3>2. \A i \in 1 .. k + 1 : rn[i] = rel[i]
      BY <3>1, <1>2, <2>4
    <3> QED BY <3>2, <1>1, <1>2, <2>2, <2>4, PrefixIs
  <2>6. SubSeq(l, 1, a + (k + 1)) \in DOMAIN fs
    BY <1>1, <2>2, PrefixesExist DEF l
  <2>7. SubSeq(l, 1, (a + k) + 1) = Append(SubSeq(l, 1, a + k), l[(a + k) + 1])
    <3>1. a + k \in 0 .. Len(l) - 1
      BY <1>2, <1>3, <2>2
    <3> QED BY <3>1, <1>3, GrowsByOne
  <2>8. l[(a + k) + 1] = n /\ (a + k) + 1 = a + (k + 1)
    BY <1>2, <1>3, <2>2
  <2>9. Append(at \o r, n) = at \o rn
    <3>1. AppendsLast(Name)
      BY AppendAfter
    <3>2. \A p, q \in Seq(Name), e \in Name : Append(p \o q, e) = p \o Append(q, e)
      BY <3>1 DEF AppendsLast
    <3> QED BY <2>3, <3>2 DEF rn
  <2>10. at \o rn \in DOMAIN fs
    BY <1>4, <2>6, <2>7, <2>8, <2>9
  <2>11. rn \in BelowIt(fs, at)
    BY <2>4, <2>10 DEF BelowIt
  <2> HIDE DEF n
  <2> QED BY <1>4, <1>6, <2>2, <2>3, <2>5, <2>11 DEF rn
<1> QED BY <1>7, <1>8

(* No two places hold the same.                                           *)
Differ(seq) == \A i, j \in DOMAIN seq : seq[i] = seq[j] => i = j

(* One element more: it is new.                                           *)
LEMMA DistinctMore ==
  ASSUME NEW B, NEW s \in Seq(B), NEW b \in B
  PROVE  Differ(Append(s, b)) <=> Differ(s) /\ ~Contains(s, b)
PROOF
<1> DEFINE more == Append(s, b)
<1>1. PICK n \in Nat : /\ n = Len(s) /\ DOMAIN s = 1 .. n /\ DOMAIN more = 1 .. n + 1
                       /\ more[n + 1] = b /\ \A i \in 1 .. n : more[i] = s[i]
  OBVIOUS
<1>2. \A i \in 1 .. n + 1 : i \in 1 .. n \/ i = n + 1
  BY <1>1
<1>3. (1 .. n) \subseteq 1 .. n + 1 /\ n + 1 \in 1 .. n + 1 /\ n + 1 \notin 1 .. n
  BY <1>1
<1>4. Contains(s, b) <=> \E i \in 1 .. n : s[i] = b
  BY <1>1 DEF Contains
<1> HIDE DEF more
<1>5. ASSUME Differ(more) PROVE Differ(s) /\ ~Contains(s, b)
  <2>1. Differ(s)
    BY <1>1, <1>3, <1>5 DEF Differ
  <2>2. ASSUME NEW i \in 1 .. n, s[i] = b PROVE FALSE
    <3>1. i \in 1 .. n + 1 /\ more[i] = more[n + 1]
      BY <1>1, <1>3, <2>2
    <3>2. i = n + 1
      BY <3>1, <1>1, <1>3, <1>5 DEF Differ
    <3> QED BY <3>2, <1>3
  <2> QED BY <1>4, <2>1, <2>2
<1>6. ASSUME Differ(s), ~Contains(s, b) PROVE Differ(more)
  <2> SUFFICES ASSUME NEW i \in 1 .. n + 1, NEW j \in 1 .. n + 1, more[i] = more[j] PROVE i = j
    BY <1>1 DEF Differ
  <2>1. CASE i \in 1 .. n /\ j \in 1 .. n
    BY <1>1, <1>6, <2>1 DEF Differ
  <2>2. CASE i \in 1 .. n /\ j = n + 1
    BY <1>1, <1>4, <1>6, <2>2
  <2>3. CASE i = n + 1 /\ j \in 1 .. n
    <3>1. s[j] = b
      BY <1>1, <2>3
    <3> QED BY <3>1, <1>4, <1>6, <2>3
  <2> QED BY <1>2, <2>1, <2>2, <2>3
<1> QED BY <1>5, <1>6 DEF more

(* What is left of different parts are different parts.                   *)
LEMMA DistinctParts ==
  ASSUME NEW B, NEW dropped, NEW seq \in Seq(B), Differ(seq)
  PROVE  Differ(Without(seq, dropped))
PROOF
<1> DEFINE T == {s \in Seq(B) : Differ(s) => Differ(Without(s, dropped))}
<1>1. <<>> \in T
  <2>1. Differ(<<>>)
    BY DEF Differ
  <2>2. Without(<<>>, dropped) = <<>> /\ <<>> \in Seq(B)
    BY NoParts
  <2> QED BY <2>1, <2>2
<1>2. ASSUME NEW s \in Seq(B), NEW b \in B, s \in T PROVE Append(s, b) \in T
  <2> DEFINE more == Append(s, b)
             k == Without(s, dropped)
  <2>1. more \in Seq(B)
    OBVIOUS
  <2>2. k \in Seq(B) /\ Without(more, dropped) = IF b \in dropped THEN k ELSE Append(k, b)
    BY PartsGrow
  <2>3. Differ(more) <=> Differ(s) /\ ~Contains(s, b)
    BY DistinctMore
  <2>4. \A v : Contains(k, v) <=> Contains(s, v) /\ v \notin dropped
    BY KeptParts
  <2>5. Differ(s) => Differ(k)
    BY <1>2
  <2>6. k \in Seq(B) => (Differ(Append(k, b)) <=> Differ(k) /\ ~Contains(k, b))
    <3> HIDE DEF k
    <3> QED BY DistinctMore
  <2> HIDE DEF more, k
  <2>7. Differ(more) => Differ(Without(more, dropped))
    BY <2>2, <2>3, <2>4, <2>5, <2>6
  <2> QED BY <2>1, <2>7 DEF more
<1>3. Seq(B) \subseteq T
  <2> HIDE DEF T
  <2>1. <<>> \in T /\ \A s \in Seq(B), b \in B : s \in T => Append(s, b) \in T
    BY <1>1, <1>2
  <2> QED BY <2>1, SequenceInduction
<1> QED BY <1>3

(* A directory's names, in the order in which they are read.              *)
NamesIn(fs, names, at) == Without(names, {n \in ToSet(names) : Append(at, n) \notin DOMAIN fs})

(* They are read once each, and all of them.                              *)
AreNamesIn(fs, names, at, entries) ==
  /\ entries \in Seq(Name) /\ Differ(entries)
  /\ \A v : Contains(entries, v) <=> Contains(names, v) /\ Append(at, v) \in DOMAIN fs

LEMMA NamesAreRead ==
  ASSUME NEW fs, NEW at, NEW names \in Seq(Name), Differ(names)
  PROVE  AreNamesIn(fs, names, at, NamesIn(fs, names, at))
PROOF
<1> DEFINE dropped == {n \in ToSet(names) : Append(at, n) \notin DOMAIN fs}
           entries == Without(names, dropped)
<1>1. \A v : Contains(names, v) => (v \in dropped <=> Append(at, v) \notin DOMAIN fs)
  BY DEF Contains, ToSet
<1> HIDE DEF dropped
<1>2. entries \in Seq(Name) /\ \A v : Contains(entries, v) <=> Contains(names, v) /\ v \notin dropped
  BY KeptParts
<1>3. Differ(entries)
  BY DistinctParts
<1>4. NamesIn(fs, names, at) = entries
  BY DEF NamesIn, dropped
<1> HIDE DEF entries
<1> QED BY <1>1, <1>2, <1>3, <1>4 DEF AreNamesIn

(* What an inventory still has to visit, and what it holds.               *)
Item == [at : Seq(Name), relative : Seq(Name)]

EntryRecord ==
  [relative : Seq(Name), kind : {"missing", "dir", "file", "link", "other"}, length : Nat,
   hash : Seq({0, 1}), target : Seq(STRING)]

(* An inventory that is cut off, and one that is not.                     *)
Cut == TRUE

Whole == FALSE

(* What is left to do and what was found so far.                          *)
Collected(todo, entries, count, bytes, truncated) ==
  [todo |-> todo, budget |-> Budget(entries, count, bytes, truncated)]

(* Its parts.                                                             *)
LEMMA CollectedParts ==
  ASSUME NEW t, NEW e, NEW c, NEW b, NEW x
  PROVE  /\ Collected(t, e, c, b, x).todo = t /\ Collected(t, e, c, b, x).budget = Budget(e, c, b, x)
         /\ Budget(e, c, b, x).entries = e /\ Budget(e, c, b, x).count = c
         /\ Budget(e, c, b, x).bytes = b /\ Budget(e, c, b, x).truncated = x
PROOF
<1> QED BY Zenon DEF Collected, Budget

(* The items of a directory's names.                                      *)
ItemFor(at, relative, name) == [at |-> Append(at, name), relative |-> Append(relative, name)]

ItemsIn(entries, at, relative) == [i \in DOMAIN entries |-> ItemFor(at, relative, entries[i])]

(* One more entry, and what is left to do.                                *)
KeptOne(s, entry, spent, truncated, more) ==
  [todo |-> more \o Tail(s.todo), budget |-> Add(s.budget, entry, spent, truncated)]

(* What a call keeps.                                                     *)
KeepsOne(fs, names, s, at, rel, read) ==
  IF at \notin DOMAIN fs THEN KeptOne(s, Entry(rel, "missing", Missing, <<>>), 0, Whole, <<>>)
  ELSE IF fs[at].kind = "file"
    THEN KeptOne(s, Entry(rel, "file", fs[at], read.hash), read.spent, read.truncated, <<>>)
  ELSE IF fs[at].kind = "link" THEN KeptOne(s, Entry(rel, "link", fs[at], <<>>), 0, Whole, <<>>)
  ELSE KeptOne(s, Entry(rel, "dir", fs[at], <<>>), 0, Whole, ItemsIn(NamesIn(fs, names, at), at, rel))

(* A call is these cases.                                                 *)
LEMMA VisitCases ==
  ASSUME NEW fs, NEW names, NEW s
  PROVE  Visit(fs, names, s) =
           IF s.todo = <<>> \/ s.budget.truncated THEN s
           ELSE IF s.budget.count >= MaxEntries
             THEN [s EXCEPT !.budget = Budget(@.entries, @.count, @.bytes, Cut)]
           ELSE KeepsOne(fs, names, s, Head(s.todo).at, Head(s.todo).relative,
                         HashFileBounded(fs[Head(s.todo).at].bytes, s.budget))
PROOF
<1> QED BY Zenon DEF Visit, KeepsOne, KeptOne, NamesIn, ItemsIn, ItemFor, Cut, Whole

(* A call adds an entry.                                                  *)
LEMMA OneIsKept ==
  ASSUME NEW t, NEW e, NEW c, NEW b, NEW x, NEW entry, NEW spent, NEW cut, NEW more
  PROVE  KeptOne(Collected(t, e, c, b, x), entry, spent, cut, more) =
           Collected(more \o Tail(t), e \cup {entry}, c + 1, b + spent, cut)
PROOF
<1> DEFINE s == Collected(t, e, c, b, x)
<1>1. /\ s.todo = t /\ s.budget.entries = e /\ s.budget.count = c /\ s.budget.bytes = b
  BY CollectedParts
<1> HIDE DEF s
<1>2. KeptOne(s, entry, spent, cut, more) =
        [todo |-> more \o Tail(t), budget |-> Budget(e \cup {entry}, c + 1, b + spent, cut)]
  BY <1>1, Zenon DEF KeptOne, Add
<1> QED BY <1>2, Zenon DEF Collected, s

(* When the entries are used up the inventory is cut off.                 *)
LEMMA CutOff ==
  ASSUME NEW t, NEW e, NEW c, NEW b
  PROVE  LET s == Collected(t, e, c, b, Whole) IN
         [s EXCEPT !.budget = Budget(@.entries, @.count, @.bytes, Cut)] = Collected(t, e, c, b, Cut)
PROOF
<1> DEFINE s == Collected(t, e, c, b, Whole)
           was == Budget(e, c, b, Whole)
           new == Budget(e, c, b, Cut)
<1>1. was.entries = e /\ was.count = c /\ was.bytes = b
  BY Zenon DEF Budget
<1>2. Budget(was.entries, was.count, was.bytes, Cut) = new
  BY <1>1, Zenon
<1>3. s = [todo |-> t, budget |-> was]
  BY Zenon DEF Collected
<1> HIDE DEF s
<1>4. [s EXCEPT !.budget = Budget(@.entries, @.count, @.bytes, Cut)] = [s EXCEPT !.budget = new]
  <2>1. s.budget = was
    BY <1>3, Zenon
  <2> QED BY <1>2, <2>1, Zenon
<1> HIDE DEF was, new
<1>5. [s EXCEPT !.budget = new] = [todo |-> t, budget |-> new]
  BY <1>3
<1> QED BY <1>4, <1>5, Zenon DEF Collected, new, s

(* What a call does to a state.                                           *)
LEMMA VisitDoes ==
  ASSUME NEW fs, NEW names, NEW t, NEW e, NEW c, NEW b
  PROVE  /\ Visit(fs, names, Collected(t, e, c, b, Cut)) = Collected(t, e, c, b, Cut)
         /\ t = <<>> => Visit(fs, names, Collected(t, e, c, b, Whole)) = Collected(t, e, c, b, Whole)
         /\ t # <<>> /\ c >= MaxEntries =>
              Visit(fs, names, Collected(t, e, c, b, Whole)) = Collected(t, e, c, b, Cut)
         /\ t # <<>> /\ ~(c >= MaxEntries) =>
              Visit(fs, names, Collected(t, e, c, b, Whole)) =
                KeepsOne(fs, names, Collected(t, e, c, b, Whole), Head(t).at, Head(t).relative,
                         HashFileBounded(fs[Head(t).at].bytes, Budget(e, c, b, Whole)))
PROOF
<1>1. Visit(fs, names, Collected(t, e, c, b, Cut)) = Collected(t, e, c, b, Cut)
  <2> DEFINE s == Collected(t, e, c, b, Cut)
  <2>1. s.budget.truncated = Cut
    BY Zenon DEF Collected, Budget
  <2> HIDE DEF s
  <2>a. s.budget.truncated
    BY <2>1 DEF Cut
  <2>2. s.todo = <<>> \/ s.budget.truncated => Visit(fs, names, s) = s
    BY VisitCases, Zenon
  <2>3. Visit(fs, names, s) = s
    BY <2>a, <2>2
  <2> QED BY <2>3 DEF s
<1> DEFINE s == Collected(t, e, c, b, Whole)
<1>2. s.todo = t /\ s.budget.truncated = Whole /\ s.budget.count = c /\ s.budget = Budget(e, c, b, Whole)
  <2>1. s.todo = t /\ s.budget.count = c /\ s.budget = Budget(e, c, b, Whole)
    BY Zenon DEF Collected, Budget
  <2>2. s.budget.truncated = Whole
    BY Zenon DEF Collected, Budget
  <2> QED BY <2>1, <2>2, Zenon
<1>a. Visit(fs, names, s) =
           IF s.todo = <<>> \/ s.budget.truncated THEN s
           ELSE IF s.budget.count >= MaxEntries
             THEN [s EXCEPT !.budget = Budget(@.entries, @.count, @.bytes, Cut)]
           ELSE KeepsOne(fs, names, s, Head(s.todo).at, Head(s.todo).relative,
                         HashFileBounded(fs[Head(s.todo).at].bytes, s.budget))
  BY VisitCases
<1>3. [s EXCEPT !.budget = Budget(@.entries, @.count, @.bytes, Cut)] = Collected(t, e, c, b, Cut)
  BY CutOff
<1>b. ~s.budget.truncated
  BY <1>2 DEF Whole
<1> HIDE DEF s
<1>4. t = <<>> => Visit(fs, names, s) = s
  BY <1>2, <1>b, <1>a, Zenon
<1>5. t # <<>> /\ c >= MaxEntries => Visit(fs, names, s) = Collected(t, e, c, b, Cut)
  BY <1>2, <1>3, <1>b, <1>a, Zenon
<1>6. t # <<>> /\ ~(c >= MaxEntries) =>
        Visit(fs, names, s) =
          KeepsOne(fs, names, s, Head(t).at, Head(t).relative,
                   HashFileBounded(fs[Head(t).at].bytes, Budget(e, c, b, Whole)))
  BY <1>2, <1>b, <1>a, Zenon
<1> QED BY <1>1, <1>4, <1>5, <1>6 DEF s

(* What is read of a file fits into what is left; it is all of it unless  *)
(* the inventory ends with it.                                            *)
LEMMA ReadingFits ==
  ASSUME NEW bytes \in Seq({0, 1}), NEW e, NEW c, NEW b \in Nat, b <= MaxBytes, NEW x
  PROVE  LET read == HashFileBounded(bytes, Budget(e, c, b, x)) IN
           /\ read.hash \in Seq({0, 1}) /\ read.spent \in Nat /\ b + read.spent <= MaxBytes
           /\ \/ read.truncated = Cut
              \/ read.truncated = Whole /\ read.hash = bytes
PROOF
<1> DEFINE room == MaxBytes - b
           read == HashFileBounded(bytes, Budget(e, c, b, x))
<1>1. Budget(e, c, b, x).bytes = b
  BY Zenon DEF Budget
<1>2. room \in Nat /\ b + room = MaxBytes
  BY InventoryBounds
<1>3. Len(bytes) \in Nat
  OBVIOUS
<1>4. read = IF Len(bytes) < room
             THEN [hash |-> bytes, spent |-> Len(bytes), truncated |-> Whole]
             ELSE [hash |-> SubSeq(bytes, 1, room), spent |-> room, truncated |-> Cut]
  BY <1>1, Zenon DEF HashFileBounded, Cut, Whole
<1> HIDE DEF read
<1>5. CASE Len(bytes) < room
  <2>1. read.hash = bytes /\ read.spent = Len(bytes) /\ read.truncated = Whole
    BY <1>4, <1>5, Zenon
  <2>2. b + Len(bytes) <= MaxBytes
    BY <1>2, <1>3, <1>5
  <2> QED BY <1>3, <2>1, <2>2, Zenon DEF read
<1>6. CASE ~(Len(bytes) < room)
  <2> HIDE DEF room
  <2>1. read.hash = SubSeq(bytes, 1, room) /\ read.spent = room /\ read.truncated = Cut
    BY <1>4, <1>6, Zenon
  <2>2. SubSeq(bytes, 1, room) \in Seq({0, 1})
    BY <1>2, <1>3, <1>6
  <2>3. b + room <= MaxBytes
    BY <1>2, InventoryBounds
  <2> QED BY <1>2, <2>1, <2>2, <2>3, Zenon DEF read
<1> QED BY <1>5, <1>6

(* The entry of what lies below a location.                               *)
EntryAt(fs, at, rel) == Entry(rel, fs[at \o rel].kind, fs[at \o rel], fs[at \o rel].bytes)

(* Where items lie; none lies at or below another one; none was entered,  *)
(* nor was anything below it.                                             *)
ItemsLie(fs, at, todo) ==
  \A i \in DOMAIN todo : todo[i].relative \in BelowIt(fs, at) /\ todo[i].at = at \o todo[i].relative

ItemsApart(todo) ==
  \A i, j \in DOMAIN todo : IsPrefix(todo[i].relative, todo[j].relative) => i = j

ItemsAreNew(todo, entries) ==
  \A i \in DOMAIN todo : \A x \in entries : ~IsPrefix(todo[i].relative, x.relative)

(* Entries tell what is there, and what has none lies at or below an item.*)
EntriesTell(fs, at, entries) ==
  \A x \in entries : x.relative \in BelowIt(fs, at) /\ x = EntryAt(fs, at, x.relative)

AllIsDue(fs, at, todo, entries) ==
  \A rel \in BelowIt(fs, at) :
    \/ \E x \in entries : x.relative = rel
    \/ \E i \in DOMAIN todo : IsPrefix(todo[i].relative, rel)

ListedSoFar(fs, at, todo, entries) ==
  /\ todo \in Seq(Item)
  /\ ItemsLie(fs, at, todo) /\ ItemsApart(todo) /\ ItemsAreNew(todo, entries)
  /\ EntriesTell(fs, at, entries) /\ AllIsDue(fs, at, todo, entries)

(* What lies directly below something, once each.                         *)
MoreIs(fs, at, rel, more) ==
  /\ more \in Seq(Item) /\ ItemsLie(fs, at, more)
  /\ \A i \in DOMAIN more : \E n \in Name : more[i].relative = Append(rel, n)
  /\ \A i, j \in DOMAIN more : more[i].relative = more[j].relative => i = j
  /\ \A r \in BelowIt(fs, at) :
       IsPrefix(rel, r) /\ r # rel => \E i \in DOMAIN more : IsPrefix(more[i].relative, r)

(* The places of two sequences, one after the other.                      *)
Joined(a, b, q, k) ==
  /\ k \in Nat /\ DOMAIN a \subseteq DOMAIN q
  /\ \A i \in DOMAIN a : q[i] = a[i]
  /\ \A i \in DOMAIN b : k + i \in DOMAIN q /\ k + i \notin DOMAIN a /\ q[k + i] = b[i]
  /\ \A i \in DOMAIN q : i \in DOMAIN a \/ \E j \in DOMAIN b : i = k + j
  /\ \A i, j \in DOMAIN b : i \in Nat /\ (k + i = k + j => i = j)

LEMMA JoinedPlaces ==
  ASSUME NEW B, NEW a \in Seq(B), NEW b \in Seq(B)
  PROVE  Joined(a, b, a \o b, Len(a))
PROOF
<1>1. PICK n \in Nat, m \in Nat : n = Len(a) /\ m = Len(b) /\ DOMAIN a = 1 .. n /\ DOMAIN b = 1 .. m
  OBVIOUS
<1> DEFINE q == a \o b
<1>2. DOMAIN q = 1 .. n + m /\ (\A i \in 1 .. n : q[i] = a[i]) /\ (\A i \in 1 .. m : q[n + i] = b[i])
  BY <1>1
<1> HIDE DEF q
<1>3. \A i \in 1 .. n + m : i \in 1 .. n \/ \E j \in 1 .. m : i = n + j
  <2> TAKE i \in 1 .. n + m
  <2>1. i \notin 1 .. n => i - n \in 1 .. m /\ i = n + (i - n)
    BY <1>1
  <2> QED BY <2>1
<1>4. /\ (1 .. n) \subseteq 1 .. n + m
      /\ \A i \in 1 .. m : n + i \in 1 .. n + m /\ n + i \notin 1 .. n
      /\ \A i, j \in 1 .. m : i \in Nat /\ (n + i = n + j => i = j)
  BY <1>1
<1>5. Joined(a, b, q, n)
  <2>1. n \in Nat /\ DOMAIN a \subseteq DOMAIN q /\ \A i \in DOMAIN a : q[i] = a[i]
    BY <1>1, <1>2, <1>4
  <2>2. \A i \in DOMAIN b : n + i \in DOMAIN q /\ n + i \notin DOMAIN a /\ q[n + i] = b[i]
    BY <1>1, <1>2, <1>4
  <2>3. \A i \in DOMAIN q : i \in DOMAIN a \/ \E j \in DOMAIN b : i = n + j
    BY <1>1, <1>2, <1>3, ZenonT(60)
  <2>4. \A i, j \in DOMAIN b : i \in Nat /\ (n + i = n + j => i = j)
    BY <1>1, <1>4
  <2> QED BY <2>1, <2>2, <2>3, <2>4, Zenon DEF Joined
<1> QED BY <1>1, <1>5 DEF q

(* Nothing is left to do below what is no directory.                      *)
LEMMA NothingBelow ==
  ASSUME NEW fs, FileTree(fs), NEW at \in Seq(Name), NEW rel \in Seq(Name), fs[at \o rel].kind # "dir"
  PROVE  MoreIs(fs, at, rel, <<>>)
PROOF
<1>1. \A r \in BelowIt(fs, at) : IsPrefix(rel, r) /\ r # rel => fs[at \o rel].kind = "dir"
  <2> TAKE r \in BelowIt(fs, at)
  <2>1. IsPrefix(rel, r) => (rel # r => fs[at \o rel].kind = "dir")
    BY BelowIsEntered
  <2> QED BY <2>1
<1>2. <<>> \in Seq(Item) /\ DOMAIN <<>> = {}
  OBVIOUS
<1>3. ItemsLie(fs, at, <<>>)
  BY <1>2 DEF ItemsLie
<1> QED BY <1>1, <1>2, <1>3 DEF MoreIs

(* names holds every name below a location.                               *)
AllNamed(fs, names, at) ==
  \A r \in Seq(Name), n \in Name : Append(r, n) \in BelowIt(fs, at) => Contains(names, n)

(* What is left to do below a directory: its names.                       *)
LEMMA NamesBelow ==
  ASSUME NEW fs, FileTree(fs), NEW at \in Seq(Name), NEW rel \in BelowIt(fs, at),
         NEW names \in Seq(Name), Differ(names), AllNamed(fs, names, at)
  PROVE  MoreIs(fs, at, rel, ItemsIn(NamesIn(fs, names, at \o rel), at \o rel, rel))
PROOF
<1> DEFINE l == at \o rel
           found == NamesIn(fs, names, l)
           more == ItemsIn(found, l, rel)
<1>1. rel \in Seq(Name) /\ l \in Seq(Name) /\ l \in DOMAIN fs
  <2>1. rel \in Seq(Name) /\ l \in DOMAIN fs
    BY DEF BelowIt
  <2> QED BY <2>1
<1>2. AreNamesIn(fs, names, l, found)
  BY NamesAreRead
<1>3. \A r \in Seq(Name), n \in Name : Append(at \o r, n) = at \o Append(r, n)
  <2>1. AppendsLast(Name)
    BY AppendAfter
  <2> QED BY <2>1 DEF AppendsLast
<1> HIDE DEF found
<1>4. /\ found \in Seq(Name) /\ Differ(found)
      /\ \A v : Contains(found, v) <=> Contains(names, v) /\ Append(l, v) \in DOMAIN fs
  BY <1>2 DEF AreNamesIn
<1>5. PICK k \in Nat : k = Len(found) /\ DOMAIN found = 1 .. k
  BY <1>4
<1>6. \A i \in 1 .. k : found[i] \in Name /\ Append(l, found[i]) \in DOMAIN fs
  <2> TAKE i \in 1 .. k
  <2>1. Contains(found, found[i])
    BY <1>5, Zenon DEF Contains
  <2>2. found[i] \in Name
    BY <1>4, <1>5
  <2> QED BY <2>1, <2>2, <1>4, Zenon
<1>7. \A i \in 1 .. k : Append(l, found[i]) = at \o Append(rel, found[i])
  BY <1>1, <1>3, <1>6
<1>8. more = [i \in 1 .. k |-> ItemFor(l, rel, found[i])]
  BY <1>5, Zenon DEF ItemsIn
<1>a. \A n \in Name : /\ ItemFor(l, rel, n) \in Item
                      /\ ItemFor(l, rel, n).at = Append(l, n)
                      /\ ItemFor(l, rel, n).relative = Append(rel, n)
  <2> TAKE n \in Name
  <2>1. Append(l, n) \in Seq(Name) /\ Append(rel, n) \in Seq(Name)
    BY <1>1
  <2> HIDE DEF l
  <2> QED BY <2>1 DEF Item, ItemFor
<1> HIDE DEF more, l
<1>9. /\ DOMAIN more = 1 .. k
      /\ \A i \in 1 .. k : more[i].at = Append(l, found[i]) /\ more[i].relative = Append(rel, found[i])
  BY <1>6, <1>8, <1>a
<1>10. more \in Seq(Item)
  <2>1. \A i \in 1 .. k : ItemFor(l, rel, found[i]) \in Item
    BY <1>6, <1>a
  <2> QED BY <1>8, <2>1
<1>11. ItemsLie(fs, at, more)
  <2> SUFFICES ASSUME NEW i \in 1 .. k
               PROVE  more[i].relative \in BelowIt(fs, at) /\ more[i].at = at \o more[i].relative
    BY <1>9 DEF ItemsLie
  <2>1. Append(rel, found[i]) \in Seq(Name) /\ at \o Append(rel, found[i]) \in DOMAIN fs
    <3>1. found[i] \in Name /\ Append(l, found[i]) \in DOMAIN fs
          /\ Append(l, found[i]) = at \o Append(rel, found[i])
      BY <1>6, <1>7
    <3>2. Append(rel, found[i]) \in Seq(Name)
      BY <1>1, <3>1
    <3> QED BY <3>1, <3>2, Zenon
  <2>2. Append(rel, found[i]) \in BelowIt(fs, at)
    BY <2>1 DEF BelowIt
  <2> QED BY <2>2, <1>7, <1>9
<1>12. \A i \in DOMAIN more : \E n \in Name : more[i].relative = Append(rel, n)
  BY <1>6, <1>9
<1>13. \A i, j \in DOMAIN more : more[i].relative = more[j].relative => i = j
  <2> SUFFICES ASSUME NEW i \in 1 .. k, NEW j \in 1 .. k, more[i].relative = more[j].relative PROVE i = j
    BY <1>9
  <2>1. Append(rel, found[i]) = Append(rel, found[j])
    BY <1>9
  <2>2. found[i] = found[j]
    <3>1. \A n \in Name : Append(rel, n)[Len(rel) + 1] = n
      BY <1>1
    <3> QED BY <2>1, <3>1, <1>6
  <2> QED BY <2>2, <1>4, <1>5 DEF Differ
<1>14. \A r \in BelowIt(fs, at) :
         IsPrefix(rel, r) /\ r # rel => \E i \in DOMAIN more : IsPrefix(more[i].relative, r)
  <2> SUFFICES ASSUME NEW r \in BelowIt(fs, at), IsPrefix(rel, r), r # rel
               PROVE  \E i \in 1 .. k : IsPrefix(more[i].relative, r)
    BY <1>9
  <2>1. PICK n \in Name : Append(rel, n) \in BelowIt(fs, at) /\ IsPrefix(Append(rel, n), r)
    BY <1>1, BelowIsEntered
  <2>2. Contains(names, n)
    BY <1>1, <2>1 DEF AllNamed
  <2>3. Append(l, n) \in DOMAIN fs
    <3>1. at \o Append(rel, n) \in DOMAIN fs
      BY <2>1 DEF BelowIt
    <3> QED BY <3>1, <1>1, <1>3 DEF l
  <2>4. PICK i \in 1 .. k : found[i] = n
    BY <1>4, <1>5, <2>2, <2>3 DEF Contains
  <2> QED BY <1>9, <2>1, <2>4
<1> QED BY <1>10, <1>11, <1>12, <1>13, <1>14 DEF MoreIs, more, found, l

(* What is left of a list without its first item.                         *)
LEMMA TailPlaces ==
  ASSUME NEW B, NEW t \in Seq(B), t # <<>>
  PROVE  /\ Tail(t) \in Seq(B) /\ 1 \in DOMAIN t /\ Head(t) = t[1] /\ t[1] \in B
         /\ \A i \in DOMAIN Tail(t) : i + 1 \in DOMAIN t /\ Tail(t)[i] = t[i + 1] /\ i + 1 # 1 /\ i \in Nat
         /\ \A j \in DOMAIN t : j = 1 \/ \E i \in DOMAIN Tail(t) : j = i + 1
PROOF
<1>1. PICK n \in Nat : Len(t) = n + 1
  <2>1. Len(t) - 1 \in Nat /\ Len(t) = (Len(t) - 1) + 1
    OBVIOUS
  <2> QED BY <2>1
<1>2. Tail(t) \in Seq(B) /\ Len(Tail(t)) = n /\ \A i \in 1 .. n : Tail(t)[i] = t[i + 1]
  BY <1>1
<1>3. DOMAIN Tail(t) = 1 .. n /\ DOMAIN t = 1 .. n + 1
  BY <1>1, <1>2
<1>4. \A j \in 1 .. n + 1 : j = 1 \/ \E i \in 1 .. n : j = i + 1
  <2> TAKE j \in 1 .. n + 1
  <2>1. j # 1 => j - 1 \in 1 .. n /\ j = (j - 1) + 1
    BY <1>1
  <2> QED BY <2>1
<1>5. 1 \in 1 .. n + 1 /\ \A i \in 1 .. n : i + 1 \in 1 .. n + 1 /\ i + 1 # 1 /\ i \in Nat
  BY <1>1
<1>6. Head(t) = t[1] /\ t[1] \in B
  BY <1>1
<1> QED BY <1>2, <1>3, <1>4, <1>5, <1>6

(* The fields of an entry.                                                *)
LEMMA EntryFields ==
  ASSUME NEW rel, NEW kind, NEW node, NEW hash
  PROVE  /\ Entry(rel, kind, node, hash).relative = rel /\ Entry(rel, kind, node, hash).kind = kind
         /\ Entry(rel, kind, node, hash).hash = hash
         /\ Entry(rel, kind, node, hash).target = node.target
         /\ Entry(rel, kind, node, hash).length = Len(node.bytes)
PROOF
<1> QED BY Zenon DEF Entry

(* A call enters the first item, and what lies directly below it is due.  *)
LEMMA InventoryGrows ==
  ASSUME NEW fs, FileTree(fs), NEW at \in Seq(Name), NEW t, NEW e, t # <<>>, ListedSoFar(fs, at, t, e),
         NEW more, MoreIs(fs, at, Head(t).relative, more)
  PROVE  /\ EntryAt(fs, at, Head(t).relative) \notin e
         /\ ListedSoFar(fs, at, more \o Tail(t), e \cup {EntryAt(fs, at, Head(t).relative)})
PROOF
<1> DEFINE r == Head(t).relative
           new == EntryAt(fs, at, r)
           rest == Tail(t)
           q == more \o rest
           k == Len(more)
           all == e \cup {new}
<1>1. /\ t \in Seq(Item)
      /\ ItemsLie(fs, at, t) /\ ItemsApart(t) /\ ItemsAreNew(t, e)
      /\ EntriesTell(fs, at, e) /\ AllIsDue(fs, at, t, e)
  BY DEF ListedSoFar
<1>2. /\ rest \in Seq(Item) /\ 1 \in DOMAIN t /\ r = t[1].relative
      /\ \A i \in DOMAIN rest : i + 1 \in DOMAIN t /\ rest[i] = t[i + 1] /\ i + 1 # 1 /\ i \in Nat
      /\ \A j \in DOMAIN t : j = 1 \/ \E i \in DOMAIN rest : j = i + 1
  BY <1>1, TailPlaces
<1>3. r \in BelowIt(fs, at) /\ r \in Seq(Name)
  BY <1>1, <1>2 DEF ItemsLie, BelowIt
<1>4. new.relative = r
  BY EntryFields DEF EntryAt
<1> HIDE DEF rest, new, r
<1>5. /\ more \in Seq(Item) /\ ItemsLie(fs, at, more)
      /\ \A i \in DOMAIN more : \E n \in Name : more[i].relative = Append(r, n)
      /\ \A i, j \in DOMAIN more : more[i].relative = more[j].relative => i = j
      /\ \A b \in BelowIt(fs, at) :
           IsPrefix(r, b) /\ b # r => \E i \in DOMAIN more : IsPrefix(more[i].relative, b)
  BY DEF MoreIs, r
<1>6. Joined(more, rest, q, k) /\ q \in Seq(Item)
  BY <1>2, <1>5, JoinedPlaces
<1> HIDE DEF q, k
<1>7. /\ k \in Nat /\ DOMAIN more \subseteq DOMAIN q
      /\ \A i \in DOMAIN more : q[i] = more[i]
      /\ \A i \in DOMAIN rest : k + i \in DOMAIN q /\ q[k + i] = rest[i]
      /\ \A i \in DOMAIN q : i \in DOMAIN more \/ \E j \in DOMAIN rest : i = k + j
  BY <1>6 DEF Joined
<1>8. \A a, b \in Seq(Name), x, y \in Name :
        /\ IsPrefix(a, a) /\ IsPrefix(<<>>, a) /\ ~IsPrefix(Append(a, x), a)
        /\ IsPrefix(Append(a, x), b) => IsPrefix(a, b)
        /\ IsPrefix(b, Append(a, x)) => IsPrefix(b, a) \/ b = Append(a, x)
        /\ IsPrefix(Append(a, x), Append(a, y)) => x = y
  <2>1. PrefixesCompare(Name)
    BY ComparedPrefixes
  <2> QED BY <2>1 DEF PrefixesCompare
<1>9. \A x \in e : ~IsPrefix(r, x.relative) /\ x.relative \in Seq(Name)
  BY <1>1, <1>2 DEF ItemsAreNew, EntriesTell, BelowIt
<1>10. \A i \in DOMAIN rest : /\ rest[i].relative \in Seq(Name)
                              /\ ~IsPrefix(r, rest[i].relative) /\ ~IsPrefix(rest[i].relative, r)
  <2> TAKE i \in DOMAIN rest
  <2>1. rest[i].relative = t[i + 1].relative /\ i + 1 \in DOMAIN t /\ i + 1 # 1
    BY <1>2
  <2>2. t[i + 1].relative \in Seq(Name)
    BY <1>1, <2>1 DEF ItemsLie, BelowIt
  <2> QED BY <1>1, <1>2, <2>1, <2>2 DEF ItemsApart
<1>11. \A i \in DOMAIN more : more[i].relative \in Seq(Name)
  BY <1>5 DEF ItemsLie, BelowIt
<1>12. new \notin e
  <2> SUFFICES ASSUME new \in e PROVE FALSE
    OBVIOUS
  <2>1. ~IsPrefix(r, r)
    BY <1>4, <1>9
  <2>2. IsPrefix(r, r)
    <3>1. Len(r) <= Len(r)
      BY <1>3
    <3> QED BY <1>3, <3>1, PrefixIs
  <2> QED BY <2>1, <2>2
<1>13. ItemsLie(fs, at, q)
  <2> SUFFICES ASSUME NEW i \in DOMAIN q
               PROVE  q[i].relative \in BelowIt(fs, at) /\ q[i].at = at \o q[i].relative
    BY DEF ItemsLie
  <2>1. CASE i \in DOMAIN more
    BY <2>1, <1>5, <1>7 DEF ItemsLie
  <2>2. ASSUME NEW j \in DOMAIN rest, i = k + j
        PROVE  q[i].relative \in BelowIt(fs, at) /\ q[i].at = at \o q[i].relative
    <3>1. q[i] = t[j + 1] /\ j + 1 \in DOMAIN t
      BY <1>2, <1>7, <2>2
    <3> QED BY <3>1, <1>1 DEF ItemsLie
  <2> QED BY <2>1, <2>2, <1>7
<1>14. ItemsApart(q)
  <2> SUFFICES ASSUME NEW i \in DOMAIN q, NEW j \in DOMAIN q, IsPrefix(q[i].relative, q[j].relative)
               PROVE  i = j
    BY DEF ItemsApart
  <2>1. CASE i \in DOMAIN more /\ j \in DOMAIN more
    <3>1. PICK n \in Name : more[i].relative = Append(r, n)
      BY <1>5, <2>1
    <3>2. PICK m \in Name : more[j].relative = Append(r, m)
      BY <1>5, <2>1
    <3>3. IsPrefix(Append(r, n), Append(r, m))
      BY <1>7, <2>1, <3>1, <3>2
    <3>4. n = m
      BY <1>3, <1>8, <3>3
    <3> QED BY <1>5, <2>1, <3>1, <3>2, <3>4
  <2>2. ASSUME i \in DOMAIN more, NEW h \in DOMAIN rest, j = k + h PROVE FALSE
    <3>1. PICK n \in Name : more[i].relative = Append(r, n)
      BY <1>5, <2>2
    <3>2. IsPrefix(Append(r, n), rest[h].relative)
      BY <1>7, <2>2, <3>1
    <3> QED BY <1>3, <1>8, <1>10, <3>2
  <2>3. ASSUME NEW h \in DOMAIN rest, i = k + h, j \in DOMAIN more PROVE FALSE
    <3>1. PICK n \in Name : more[j].relative = Append(r, n)
      BY <1>5, <2>3
    <3>2. IsPrefix(rest[h].relative, Append(r, n))
      BY <1>7, <2>3, <3>1
    <3>3. rest[h].relative = Append(r, n)
      BY <1>3, <1>8, <1>10, <3>2
    <3>4. Append(r, n) \in Seq(Name) /\ IsPrefix(Append(r, n), Append(r, n))
      BY <3>2, <3>3, <1>3
    <3>5. IsPrefix(r, Append(r, n))
      BY <1>3, <1>8, <3>4
    <3> QED BY <1>10, <3>3, <3>5
  <2>4. ASSUME NEW g \in DOMAIN rest, i = k + g, NEW h \in DOMAIN rest, j = k + h PROVE i = j
    <3>1. q[i] = t[g + 1] /\ q[j] = t[h + 1] /\ g + 1 \in DOMAIN t /\ h + 1 \in DOMAIN t
      BY <1>2, <1>7, <2>4
    <3>2. g + 1 = h + 1 /\ g \in Nat /\ h \in Nat
      BY <3>1, <1>1, <1>2 DEF ItemsApart
    <3>3. g = h
      BY <3>2
    <3> QED BY <3>3, <2>4
  <2> QED BY <2>1, <2>2, <2>3, <2>4, <1>7
<1>15. ItemsAreNew(q, all)
  <2> SUFFICES ASSUME NEW i \in DOMAIN q, NEW x \in all, IsPrefix(q[i].relative, x.relative) PROVE FALSE
    BY DEF ItemsAreNew
  <2>1. CASE i \in DOMAIN more
    <3>1. PICK n \in Name : more[i].relative = Append(r, n)
      BY <1>5, <2>1
    <3>2. IsPrefix(Append(r, n), x.relative)
      BY <1>7, <2>1, <3>1
    <3>3. CASE x \in e
      BY <1>3, <1>8, <1>9, <3>2, <3>3
    <3>4. CASE x = new
      BY <1>3, <1>4, <1>8, <3>2, <3>4
    <3> QED BY <3>3, <3>4
  <2>2. ASSUME NEW h \in DOMAIN rest, i = k + h PROVE FALSE
    <3>1. q[i] = rest[h] /\ rest[h] = t[h + 1] /\ h + 1 \in DOMAIN t
      BY <1>2, <1>7, <2>2
    <3>2. CASE x \in e
      BY <1>1, <3>1, <3>2 DEF ItemsAreNew
    <3>3. CASE x = new
      BY <1>4, <1>10, <3>1, <3>3
    <3> QED BY <3>2, <3>3
  <2> QED BY <2>1, <2>2, <1>7
<1>16. EntriesTell(fs, at, all)
  BY <1>1, <1>3, <1>4 DEF EntriesTell, new
<1>17. AllIsDue(fs, at, q, all)
  <2> SUFFICES ASSUME NEW b \in BelowIt(fs, at)
               PROVE  \/ \E x \in all : x.relative = b
                      \/ \E i \in DOMAIN q : IsPrefix(q[i].relative, b)
    BY DEF AllIsDue
  <2>1. CASE \E x \in e : x.relative = b
    BY <2>1
  <2>2. ASSUME NEW j \in DOMAIN t, IsPrefix(t[j].relative, b), j = 1
        PROVE  \/ \E x \in all : x.relative = b
               \/ \E i \in DOMAIN q : IsPrefix(q[i].relative, b)
    <3>1. IsPrefix(r, b)
      BY <1>2, <2>2
    <3>2. CASE b = r
      BY <1>4, <3>2
    <3>3. CASE b # r
      <4>1. PICK i \in DOMAIN more : IsPrefix(more[i].relative, b)
        BY <1>5, <3>1, <3>3
      <4> QED BY <1>7, <4>1
    <3> QED BY <3>2, <3>3
  <2>3. ASSUME NEW j \in DOMAIN t, IsPrefix(t[j].relative, b), NEW h \in DOMAIN rest, j = h + 1
        PROVE  \E i \in DOMAIN q : IsPrefix(q[i].relative, b)
    <3>1. k + h \in DOMAIN q /\ q[k + h] = t[j]
      BY <1>2, <1>7, <2>3
    <3> QED BY <3>1, <2>3
  <2>4. (\E x \in e : x.relative = b) \/ \E j \in DOMAIN t : IsPrefix(t[j].relative, b)
    BY <1>1 DEF AllIsDue
  <2> QED BY <2>1, <2>2, <2>3, <2>4, <1>2
<1>18. ListedSoFar(fs, at, q, all)
  <2> HIDE DEF all
  <2> QED BY <1>6, <1>13, <1>14, <1>15, <1>16, <1>17 DEF ListedSoFar
<1> QED BY <1>12, <1>18 DEF q, rest, new, r

(* Directories and links hold no bytes.                                   *)
OnlyFilesHoldBytes(fs) == \A l \in DOMAIN fs : fs[l].kind # "file" => fs[l].bytes = <<>>

(* What was counted fits the bounds.                                      *)
Tallied(e, c, b) ==
  /\ e \in SUBSET EntryRecord /\ IsFiniteSet(e)
  /\ c \in Nat /\ c = Cardinality(e) /\ c <= MaxEntries
  /\ b \in Nat /\ b <= MaxBytes

(* One entry more.                                                        *)
LEMMA TallyGrows ==
  ASSUME NEW e, NEW c, NEW b, Tallied(e, c, b), NEW x \in EntryRecord, x \notin e, ~(c >= MaxEntries),
         NEW spent \in Nat, b + spent <= MaxBytes
  PROVE  Tallied(e \cup {x}, c + 1, b + spent)
PROOF
<1>1. /\ e \in SUBSET EntryRecord /\ IsFiniteSet(e)
      /\ c \in Nat /\ c = Cardinality(e) /\ b \in Nat
  BY DEF Tallied
<1>2. IsFiniteSet(e \cup {x}) /\ Cardinality(e \cup {x}) = c + 1
  BY <1>1, FS_AddElement
<1>3. c + 1 \in Nat /\ c + 1 <= MaxEntries /\ b + spent \in Nat
  BY <1>1, InventoryBounds
<1>4. e \cup {x} \in SUBSET EntryRecord
  BY <1>1
<1> QED BY <1>2, <1>3, <1>4, Zenon DEF Tallied

(* An entry is a record of one set.                                       *)
LEMMA EntryIn ==
  ASSUME NEW rel \in Seq(Name), NEW kind \in {"missing", "dir", "file", "link", "other"},
         NEW node \in Inode, NEW hash \in Seq({0, 1})
  PROVE  Entry(rel, kind, node, hash) \in EntryRecord
PROOF
<1>1. Len(node.bytes) \in Nat /\ node.target \in Seq(STRING)
  BY DEF Inode
<1> QED BY <1>1 DEF Entry, EntryRecord

(* After a call: cut off, or listed on; one more entry if any was due.    *)
CallKeeps(fs, at, t, c, s) ==
  \E tt \in Seq(Item), ee \in SUBSET EntryRecord, cc \in Nat, bb \in Nat :
    /\ Tallied(ee, cc, bb)
    /\ \/ s = Collected(tt, ee, cc, bb, Cut)
       \/ /\ s = Collected(tt, ee, cc, bb, Whole) /\ ListedSoFar(fs, at, tt, ee)
          /\ (t = <<>> /\ tt = <<>>) \/ cc = c + 1

LEMMA EmptyBefore ==
  ASSUME NEW B, NEW t \in Seq(B)
  PROVE  <<>> \o t = t
PROOF
<1> QED OBVIOUS

LEMMA VisitKeeps ==
  ASSUME NEW fs, FileTree(fs), OnlyFilesHoldBytes(fs), NEW at \in Seq(Name),
         NEW names \in Seq(Name), Differ(names), AllNamed(fs, names, at),
         NEW t, NEW e, NEW c, NEW b, Tallied(e, c, b), ListedSoFar(fs, at, t, e)
  PROVE  CallKeeps(fs, at, t, c, Visit(fs, names, Collected(t, e, c, b, Whole)))
PROOF
<1> DEFINE s == Collected(t, e, c, b, Whole)
           r == Head(t).relative
           l == at \o r
           rest == Tail(t)
           read == HashFileBounded(fs[l].bytes, Budget(e, c, b, Whole))
           made == Visit(fs, names, s)
<1>1. /\ t \in Seq(Item) /\ ItemsLie(fs, at, t) /\ ItemsAreNew(t, e)
      /\ e \in SUBSET EntryRecord /\ c \in Nat /\ b \in Nat /\ b <= MaxBytes
  BY DEF ListedSoFar, Tallied
<1> HIDE DEF s, made
<1>2. CASE t = <<>>
  <2>1. made = s
    BY <1>2, VisitDoes DEF made, s
  <2> QED BY <1>1, <1>2, <2>1 DEF CallKeeps, made, s
<1>3. CASE t # <<>> /\ c >= MaxEntries
  <2>1. made = Collected(t, e, c, b, Cut)
    BY <1>3, VisitDoes DEF made, s
  <2> QED BY <1>1, <2>1 DEF CallKeeps, made, s
<1>4. CASE t # <<>> /\ ~(c >= MaxEntries)
  <2>1. 1 \in DOMAIN t /\ Head(t) = t[1] /\ rest \in Seq(Item)
    BY <1>1, <1>4, TailPlaces
  <2>2. r \in BelowIt(fs, at) /\ Head(t).at = l
    BY <1>1, <2>1 DEF ItemsLie
  <2>3. r \in Seq(Name) /\ l \in DOMAIN fs
    BY <2>2 DEF BelowIt
  <2>4. made = KeepsOne(fs, names, s, l, r, read)
    <3>1. made = KeepsOne(fs, names, s, Head(t).at, Head(t).relative,
                          HashFileBounded(fs[Head(t).at].bytes, Budget(e, c, b, Whole)))
      BY <1>4, VisitDoes DEF made, s
    <3> QED BY <2>2, <3>1, Zenon
  <2>5. /\ fs[l] \in Inode /\ fs[l].kind \in {"dir", "file", "link"} /\ fs[l].bytes \in Seq({0, 1})
        /\ fs[l].kind # "file" => fs[l].bytes = <<>>
    <3>1. fs[l] \in Inode
      BY <2>3, TreeFacts
    <3>2. fs[l].kind # "file" => fs[l].bytes = <<>>
      BY <2>3 DEF OnlyFilesHoldBytes
    <3> QED BY <3>1, <3>2 DEF Inode
  <2>6. \A x \in e : x.relative # r
    <3> SUFFICES ASSUME NEW x \in e, x.relative = r PROVE FALSE
      OBVIOUS
    <3>1. ~IsPrefix(r, r)
      BY <1>1, <2>1 DEF ItemsAreNew
    <3>2. Len(r) <= Len(r)
      BY <2>3
    <3> QED BY <2>3, <3>1, <3>2, PrefixIs
  <2>7. \A kind, hash : Entry(r, kind, fs[l], hash) \notin e
    BY <2>6, EntryFields
  <2>8. \A entry, spent, cut, more :
          KeptOne(s, entry, spent, cut, more) = Collected(more \o rest, e \cup {entry}, c + 1, b + spent, cut)
    BY OneIsKept DEF s
  <2>9. <<>> \o rest = rest
    BY <2>1, EmptyBefore
  <2>10. /\ read.hash \in Seq({0, 1}) /\ read.spent \in Nat /\ b + read.spent <= MaxBytes
         /\ \/ read.truncated = Cut
            \/ read.truncated = Whole /\ read.hash = fs[l].bytes
    BY <1>1, <2>5, ReadingFits
  <2> DEFINE old == EntryAt(fs, at, r)
  <2>11. old = Entry(r, fs[l].kind, fs[l], fs[l].bytes)
    BY DEF EntryAt
  <2>12. \A more : MoreIs(fs, at, r, more) => ListedSoFar(fs, at, more \o rest, e \cup {old})
    BY <1>4, InventoryGrows
  <2> HIDE DEF old, read, l, rest, r
  <2>13. CASE fs[l].kind = "file"
    <3> DEFINE x == Entry(r, "file", fs[l], read.hash)
               d == b + read.spent
    <3>1. x \in EntryRecord /\ x \notin e
      BY <2>3, <2>5, <2>7, <2>10, EntryIn
    <3>2. made = Collected(rest, e \cup {x}, c + 1, d, read.truncated)
      BY <2>3, <2>4, <2>8, <2>9, <2>13, ZenonT(60) DEF KeepsOne
    <3>3. Tallied(e \cup {x}, c + 1, d)
      BY <1>4, <2>10, <3>1, TallyGrows
    <3>4. e \cup {x} \in SUBSET EntryRecord /\ c + 1 \in Nat /\ d \in Nat
      BY <1>1, <2>10, <3>1
    <3> HIDE DEF x, d
    <3>5. CASE read.truncated = Cut
      BY <2>1, <3>2, <3>3, <3>4, <3>5 DEF CallKeeps, made, s
    <3>6. CASE read.truncated = Whole /\ read.hash = fs[l].bytes
      <4>1. x = old
        BY <2>11, <2>13, <3>6 DEF x
      <4>2. ListedSoFar(fs, at, rest, e \cup {x})
        <5>1. MoreIs(fs, at, r, <<>>)
          BY <2>3, <2>13, NothingBelow DEF l
        <5> QED BY <2>9, <2>12, <4>1, <5>1
      <4> QED BY <2>1, <3>2, <3>3, <3>4, <3>6, <4>2 DEF CallKeeps, made, s
    <3> QED BY <2>10, <3>5, <3>6
  <2>14. CASE fs[l].kind # "file"
    <3> DEFINE x == Entry(r, fs[l].kind, fs[l], <<>>)
               more == IF fs[l].kind = "dir" THEN ItemsIn(NamesIn(fs, names, l), l, r) ELSE <<>>
    <3>1. x = old
      BY <2>5, <2>11, <2>14
    <3>2. x \in EntryRecord /\ x \notin e
      <4>1. <<>> \in Seq({0, 1})
        OBVIOUS
      <4>2. fs[l].kind \in {"missing", "dir", "file", "link", "other"}
        BY <2>5
      <4> QED BY <2>3, <2>5, <2>7, <4>1, <4>2, EntryIn
    <3>3. made = Collected(more \o rest, e \cup {x}, c + 1, b + 0, Whole)
      <4>1. CASE fs[l].kind = "dir"
        <5>1. made = KeptOne(s, Entry(r, "dir", fs[l], <<>>), 0, Whole, ItemsIn(NamesIn(fs, names, l), l, r))
          BY <2>3, <2>4, <4>1, Zenon DEF KeepsOne
        <5> QED BY <2>8, <4>1, <5>1
      <4>2. CASE fs[l].kind = "link"
        <5>1. made = KeptOne(s, Entry(r, "link", fs[l], <<>>), 0, Whole, <<>>)
          BY <2>3, <2>4, <4>2, Zenon DEF KeepsOne
        <5> QED BY <2>8, <4>2, <5>1
      <4> QED BY <2>5, <2>14, <4>1, <4>2
    <3>4. MoreIs(fs, at, r, more)
      <4>1. CASE fs[l].kind = "dir"
        BY <2>2, <4>1, NamesBelow DEF l
      <4>2. CASE fs[l].kind # "dir"
        BY <2>3, <4>2, NothingBelow DEF l
      <4> QED BY <4>1, <4>2
    <3> HIDE DEF more
    <3>5. ListedSoFar(fs, at, more \o rest, e \cup {x})
      BY <2>12, <3>1, <3>4
    <3>6. Tallied(e \cup {x}, c + 1, b + 0)
      <4>1. b + 0 <= MaxBytes /\ 0 \in Nat
        BY <1>1, InventoryBounds
      <4> HIDE DEF x
      <4> QED BY <1>4, <3>2, <4>1, TallyGrows
    <3>7. more \o rest \in Seq(Item)
      BY <3>5 DEF ListedSoFar
    <3>8. e \cup {x} \in SUBSET EntryRecord /\ c + 1 \in Nat /\ b + 0 \in Nat
      BY <1>1, <3>2
    <3> HIDE DEF x
    <3> QED BY <3>3, <3>5, <3>6, <3>7, <3>8 DEF CallKeeps, made, s
  <2> QED BY <2>13, <2>14
<1> QED BY <1>2, <1>3, <1>4

(* The first state of an inventory.                                       *)
StartAt(at) == Collected(<<[at |-> at, relative |-> <<>>]>>, {}, 0, 0, Whole)

(* h is what the calls lead to.                                           *)
Calls(fs, names, at, h) ==
  /\ h[0] = StartAt(at)
  /\ \A n \in Nat : h[n + 1] = Visit(fs, names, h[n])
  /\ CollectFingerprint(fs, names, at, <<>>, NoEntries) = h[MaxEntries + 1].budget

(* The calls are well defined wherever they stay in a set.                *)
LEMMA CallsAreDefined ==
  ASSUME NEW fs, NEW names, NEW at, NEW S, StartAt(at) \in S,
         \A s \in S : Visit(fs, names, s) \in S
  PROVE  \E h \in [Nat -> S] : Calls(fs, names, at, h)
PROOF
<1> DEFINE s == StartAt(at)
           F == [x \in S |-> Visit(fs, names, x)]
           Body(h, n) == IF n = 0 THEN s ELSE Visit(fs, names, h[n - 1])
           P(h) == h = [n \in Nat |-> Body(h, n)]
           after == CHOOSE h : P(h)
<1>1. F \in [S -> S]
  OBVIOUS
<1>2. PICK it \in [Nat -> S] : Iterates(it, F, s)
  <2> HIDE DEF F, s
  <2> QED BY <1>1, IterationExists DEF s
<1>3. it[0] = s /\ \A n \in Nat : it[n + 1] = Visit(fs, names, it[n])
  BY <1>2 DEF Iterates
<1>4. P(it)
  <2> SUFFICES ASSUME NEW n \in Nat PROVE it[n] = Body(it, n)
    BY <1>2
  <2>1. CASE n = 0
    BY <1>3, <2>1
  <2>2. CASE n # 0
    <3>1. n - 1 \in Nat /\ (n - 1) + 1 = n
      BY <2>2
    <3>2. it[(n - 1) + 1] = Visit(fs, names, it[n - 1])
      BY <1>3, <3>1
    <3> QED BY <2>2, <3>1, <3>2
  <2> QED BY <2>1, <2>2
<1>5. P(after)
  <2> HIDE DEF P
  <2> QED BY <1>4
<1>6. after[0] = s /\ \A n \in Nat : after[n + 1] = Visit(fs, names, after[n])
  <2> HIDE DEF after, s
  <2>1. \A n \in Nat : after[n] = Body(after, n)
    <3> HIDE DEF Body
    <3> QED BY <1>5
  <2>2. after[0] = s
    BY <2>1
  <2>3. ASSUME NEW n \in Nat PROVE after[n + 1] = Visit(fs, names, after[n])
    <3>1. n + 1 \in Nat /\ n + 1 # 0 /\ (n + 1) - 1 = n
      OBVIOUS
    <3>2. after[n + 1] = Body(after, n + 1)
      BY <2>1, <3>1
    <3> QED BY <3>1, <3>2
  <2> QED BY <2>2, <2>3
<1>7. after \in [Nat -> S]
  <2> DEFINE C == {n \in Nat : after[n] \in S}
  <2> HIDE DEF after, s
  <2>1. 0 \in C
    BY <1>6 DEF s
  <2>2. \A n \in Nat : n \in C => n + 1 \in C
    BY <1>6
  <2>3. Nat \subseteq C
    <3> HIDE DEF C
    <3> QED BY <2>1, <2>2, Induction
  <2>4. after = [n \in Nat |-> after[n]]
    <3> HIDE DEF Body
    <3>1. after = [n \in Nat |-> Body(after, n)]
      BY <1>5
    <3> QED BY <3>1
  <2> QED BY <2>3, <2>4
<1>8. CollectFingerprint(fs, names, at, <<>>, NoEntries) = after[MaxEntries + 1].budget
  BY Zenon DEF CollectFingerprint, StartAt, Collected, NoEntries, Whole
<1> HIDE DEF after
<1> QED BY <1>6, <1>7, <1>8 DEF Calls

(* What is missing is entered as missing.                                 *)
MissingAt == Entry(<<>>, "missing", Missing, <<>>)

LEMMA MissingIsListed ==
  ASSUME NEW fs, NEW names, NEW at \in Seq(Name), at \notin DOMAIN fs
  PROVE  CollectFingerprint(fs, names, at, <<>>, NoEntries) = Budget({MissingAt}, 1, 0, Whole)
PROOF
<1> DEFINE item == [at |-> at, relative |-> <<>>]
           todo == <<item>>
           s == StartAt(at)
           r == Collected(<<>>, {MissingAt}, 1, 0, Whole)
<1>1. Visit(fs, names, r) = r
  BY VisitDoes
<1>2. /\ todo # <<>> /\ Head(todo) = item /\ Tail(todo) = <<>> /\ <<>> \o <<>> = <<>>
      /\ item.at = at /\ item.relative = <<>>
  OBVIOUS
<1>3. ~(0 >= MaxEntries)
  BY InventoryBounds
<1> HIDE DEF item
<1>4. Visit(fs, names, s) = r
  <2>1. Visit(fs, names, s) = KeepsOne(fs, names, s, Head(todo).at, Head(todo).relative,
                                       HashFileBounded(fs[Head(todo).at].bytes, Budget({}, 0, 0, Whole)))
    <3> HIDE DEF todo
    <3>1. Visit(fs, names, Collected(todo, {}, 0, 0, Whole)) =
            KeepsOne(fs, names, Collected(todo, {}, 0, 0, Whole), Head(todo).at, Head(todo).relative,
                     HashFileBounded(fs[Head(todo).at].bytes, Budget({}, 0, 0, Whole)))
      BY <1>2, <1>3, VisitDoes
    <3> QED BY <3>1 DEF StartAt, todo, item
  <2>2. Head(todo).at = at /\ Head(todo).relative = <<>>
    BY <1>2
  <2> HIDE DEF s, todo
  <2>3. Visit(fs, names, s) = KeptOne(s, MissingAt, 0, Whole, <<>>)
    <3>1. KeepsOne(fs, names, s, at, <<>>, HashFileBounded(fs[at].bytes, Budget({}, 0, 0, Whole)))
            = KeptOne(s, MissingAt, 0, Whole, <<>>)
      BY Zenon DEF KeepsOne, MissingAt
    <3> QED BY <2>1, <2>2, <3>1, Zenon
  <2>4. KeptOne(Collected(todo, {}, 0, 0, Whole), MissingAt, 0, Whole, <<>>)
          = Collected(<<>> \o Tail(todo), {} \cup {MissingAt}, 0 + 1, 0 + 0, Whole)
    <3>1. \A e, c, b, entry, spent, more :
            KeptOne(Collected(todo, e, c, b, Whole), entry, spent, Whole, more)
              = Collected(more \o Tail(todo), e \cup {entry}, c + 1, b + spent, Whole)
      BY OneIsKept
    <3> DEFINE none == {}
               zero == 0
               nothing == <<>>
    <3> HIDE DEF none, zero, nothing
    <3>2. KeptOne(Collected(todo, none, zero, zero, Whole), MissingAt, zero, Whole, nothing)
            = Collected(nothing \o Tail(todo), none \cup {MissingAt}, zero + 1, zero + zero, Whole)
      BY <3>1
    <3> QED BY <3>2 DEF none, zero, nothing
  <2>5. s = Collected(todo, {}, 0, 0, Whole)
    BY DEF s, StartAt, todo, item
  <2>6. {} \cup {MissingAt} = {MissingAt} /\ 0 + 1 = 1 /\ 0 + 0 = 0
    OBVIOUS
  <2>7. <<>> \o Tail(todo) = <<>>
    BY <1>2 DEF todo
  <2> QED BY <2>3, <2>4, <2>5, <2>6, <2>7, Zenon
<1>5. \E h \in [Nat -> {s, r}] : Calls(fs, names, at, h)
  <2> HIDE DEF r
  <2>1. StartAt(at) \in {s, r} /\ \A x \in {s, r} : Visit(fs, names, x) \in {s, r}
    <3> HIDE DEF s
    <3> QED BY <1>1, <1>4 DEF s
  <2> HIDE DEF s
  <2> QED BY <2>1, CallsAreDefined
<1>6. PICK h : Calls(fs, names, at, h)
  BY <1>5
<1> DEFINE C == {n \in Nat : h[n + 1] = r}
<1> HIDE DEF r, s
<1>7. h[0] = s /\ \A n \in Nat : h[n + 1] = Visit(fs, names, h[n])
  BY <1>6 DEF Calls, s
<1>8. 0 \in C
  <2>1. h[0 + 1] = Visit(fs, names, h[0])
    BY <1>7
  <2>2. Visit(fs, names, h[0]) = Visit(fs, names, s)
    BY <1>7, Zenon
  <2> QED BY <2>1, <2>2, <1>4
<1>9. \A n \in Nat : n \in C => n + 1 \in C
  <2> SUFFICES ASSUME NEW n \in Nat, h[n + 1] = r PROVE h[(n + 1) + 1] = r
    OBVIOUS
  <2>0. h[n + 1] = r
    OBVIOUS
  <2>1. h[(n + 1) + 1] = Visit(fs, names, h[n + 1])
    <3>1. n + 1 \in Nat
      OBVIOUS
    <3>2. \A m \in Nat : h[m + 1] = Visit(fs, names, h[m])
      BY <1>7
    <3> QED BY <3>1, <3>2, Zenon
  <2>2. Visit(fs, names, h[n + 1]) = Visit(fs, names, r)
    BY <2>0, Zenon
  <2> QED BY <2>1, <2>2, <1>1
<1>10. h[MaxEntries + 1] = r
  <2> HIDE DEF C
  <2>1. Nat \subseteq C /\ MaxEntries \in Nat
    BY <1>8, <1>9, Induction, InventoryBounds
  <2> QED BY <2>1 DEF C
<1>11. r.budget = Budget({MissingAt}, 1, 0, Whole)
  BY CollectedParts DEF r
<1> QED BY <1>6, <1>10, <1>11 DEF Calls

(* What a state can be after n calls.                                     *)
OnTheWay(fs, at, n, s) ==
  \E t \in Seq(Item), e \in SUBSET EntryRecord, c \in Nat, b \in Nat :
    /\ Tallied(e, c, b)
    /\ \/ s = Collected(t, e, c, b, Cut)
       \/ /\ s = Collected(t, e, c, b, Whole) /\ ListedSoFar(fs, at, t, e)
          /\ t = <<>> \/ c = n

(* A directory tree, its files the only nodes with bytes, and the names of*)
(* all that lies below a location.                                        *)
Legible(fs, names, at) ==
  /\ FileTree(fs) /\ OnlyFilesHoldBytes(fs)
  /\ names \in Seq(Name) /\ Differ(names) /\ AllNamed(fs, names, at)

(* A call leads from what a state can be to what the next one can be.     *)
LEMMA VisitGoesOn ==
  ASSUME NEW fs, NEW names, NEW at \in Seq(Name), Legible(fs, names, at),
         NEW n \in Nat, NEW s, OnTheWay(fs, at, n, s)
  PROVE  OnTheWay(fs, at, n + 1, Visit(fs, names, s))
PROOF
<1>1. PICK t \in Seq(Item), e \in SUBSET EntryRecord, c \in Nat, b \in Nat :
        /\ Tallied(e, c, b)
        /\ \/ s = Collected(t, e, c, b, Cut)
           \/ /\ s = Collected(t, e, c, b, Whole) /\ ListedSoFar(fs, at, t, e)
              /\ t = <<>> \/ c = n
  BY DEF OnTheWay
<1>2. CASE s = Collected(t, e, c, b, Cut)
  <2>1. Visit(fs, names, Collected(t, e, c, b, Cut)) = Collected(t, e, c, b, Cut)
    BY VisitDoes
  <2>2. Visit(fs, names, s) = Collected(t, e, c, b, Cut)
    BY <1>2, <2>1, Zenon
  <2> QED BY <1>1, <2>2 DEF OnTheWay
<1>3. CASE s = Collected(t, e, c, b, Whole) /\ ListedSoFar(fs, at, t, e) /\ t = <<>>
  <2>1. Visit(fs, names, Collected(t, e, c, b, Whole)) = Collected(t, e, c, b, Whole)
    BY <1>3, VisitDoes
  <2>2. Visit(fs, names, s) = Collected(t, e, c, b, Whole)
    BY <1>3, <2>1, Zenon
  <2> QED BY <1>1, <1>3, <2>2 DEF OnTheWay
<1>4. CASE s = Collected(t, e, c, b, Whole) /\ ListedSoFar(fs, at, t, e) /\ t # <<>> /\ c = n
  <2> DEFINE made == Visit(fs, names, Collected(t, e, c, b, Whole))
  <2>1. CallKeeps(fs, at, t, c, made)
    BY <1>1, <1>4, VisitKeeps DEF Legible
  <2>2. Visit(fs, names, s) = made
    BY <1>4, Zenon
  <2> HIDE DEF made
  <2>3. PICK tt \in Seq(Item), ee \in SUBSET EntryRecord, cc \in Nat, bb \in Nat :
          /\ Tallied(ee, cc, bb)
          /\ \/ made = Collected(tt, ee, cc, bb, Cut)
             \/ /\ made = Collected(tt, ee, cc, bb, Whole) /\ ListedSoFar(fs, at, tt, ee)
                /\ (t = <<>> /\ tt = <<>>) \/ cc = c + 1
    BY <2>1 DEF CallKeeps
  <2>4. OnTheWay(fs, at, n + 1, made)
    BY <1>4, <2>3, Zenon DEF OnTheWay
  <2> QED BY <2>2, <2>4
<1> QED BY <1>1, <1>2, <1>3, <1>4

(* The states there are.                                                  *)
InventoryState ==
  [todo : Seq(Item),
   budget : [entries : SUBSET EntryRecord, count : Nat, bytes : Nat, truncated : {Cut, Whole}]]

StatesOnTheWay(fs, at) == {s \in InventoryState : \E n \in Nat : OnTheWay(fs, at, n, s)}

LEMMA StatesAre ==
  ASSUME NEW fs, NEW at, NEW n \in Nat, NEW s, OnTheWay(fs, at, n, s)
  PROVE  s \in StatesOnTheWay(fs, at)
PROOF
<1>1. PICK t \in Seq(Item), e \in SUBSET EntryRecord, c \in Nat, b \in Nat :
        s = Collected(t, e, c, b, Cut) \/ s = Collected(t, e, c, b, Whole)
  BY Zenon DEF OnTheWay
<1>2. \A x \in {Cut, Whole} : Collected(t, e, c, b, x) \in InventoryState
  BY DEF InventoryState, Collected, Budget
<1>3. s \in InventoryState
  BY <1>1, <1>2
<1> QED BY <1>3, Zenon DEF StatesOnTheWay

(* The first state is one of them.                                        *)
LEMMA StartIsOne ==
  ASSUME NEW fs, FileTree(fs), NEW at \in Seq(Name), at \in DOMAIN fs
  PROVE  OnTheWay(fs, at, 0, StartAt(at))
PROOF
<1> DEFINE item == [at |-> at, relative |-> <<>>]
           todo == <<item>>
<1>1. at \o <<>> = at /\ <<>> \in Seq(Name)
  OBVIOUS
<1>2. <<>> \in BelowIt(fs, at)
  BY <1>1 DEF BelowIt
<1>3. item \in Item /\ item.at = at \o <<>> /\ item.relative = <<>>
  BY <1>1 DEF Item
<1> HIDE DEF item
<1>4. todo \in Seq(Item) /\ DOMAIN todo = {1} /\ todo[1] = item
  BY <1>3
<1> HIDE DEF todo
<1>5. ItemsLie(fs, at, todo) /\ ItemsApart(todo) /\ ItemsAreNew(todo, {}) /\ EntriesTell(fs, at, {})
  BY <1>2, <1>3, <1>4 DEF ItemsLie, ItemsApart, ItemsAreNew, EntriesTell
<1>6. AllIsDue(fs, at, todo, {})
  <2>3. \A rel \in BelowIt(fs, at) : IsPrefix(todo[1].relative, rel)
    <3> TAKE rel \in BelowIt(fs, at)
    <3>1. rel \in Seq(Name)
      BY DEF BelowIt
    <3>2. IsPrefix(<<>>, rel)
      <4> DEFINE nil == <<>>
      <4>1. nil \in Seq(Name) /\ Len(nil) = 0
        OBVIOUS
      <4> HIDE DEF nil
      <4>2. IsPrefix(nil, rel) <=> Len(nil) <= Len(rel) /\ \A i \in 1 .. Len(nil) : nil[i] = rel[i]
        <5>1. \A p, q \in Seq(Name) :
                IsPrefix(p, q) <=> Len(p) <= Len(q) /\ \A i \in 1 .. Len(p) : p[i] = q[i]
          BY PrefixIs
        <5> QED BY <3>1, <4>1, <5>1
      <4>3. IsPrefix(nil, rel)
        BY <3>1, <4>1, <4>2
      <4> QED BY <4>3 DEF nil
    <3> QED BY <1>3, <1>4, <3>2, Zenon
  <2> QED BY <1>4, <2>3 DEF AllIsDue
<1>7. ListedSoFar(fs, at, todo, {})
  BY <1>4, <1>5, <1>6 DEF ListedSoFar
<1>8. Tallied({}, 0, 0) /\ {} \in SUBSET EntryRecord /\ 0 \in Nat
  BY FS_EmptySet, InventoryBounds DEF Tallied
<1>9. StartAt(at) = Collected(todo, {}, 0, 0, Whole)
  BY DEF StartAt, todo, item
<1> QED BY <1>4, <1>7, <1>8, <1>9, Zenon DEF OnTheWay

(* What an inventory ends with: all there is, or it is cut off.           *)
IsInventory(fs, at, budget) ==
  \E e, c, b :
    /\ Tallied(e, c, b)
    /\ \/ budget = Budget(e, c, b, Cut)
       \/ /\ budget = Budget(e, c, b, Whole) /\ EntriesTell(fs, at, e)
          /\ \A rel \in BelowIt(fs, at) : \E x \in e : x.relative = rel

LEMMA CollectListed ==
  ASSUME NEW fs, NEW names, NEW at \in Seq(Name), Legible(fs, names, at), at \in DOMAIN fs
  PROVE  IsInventory(fs, at, CollectFingerprint(fs, names, at, <<>>, NoEntries))
PROOF
<1> DEFINE S == StatesOnTheWay(fs, at)
<1>0. FileTree(fs)
  BY DEF Legible
<1>1. OnTheWay(fs, at, 0, StartAt(at))
  BY <1>0, StartIsOne
<1>2. StartAt(at) \in S
  BY <1>1, StatesAre
<1>3. \A s \in S : Visit(fs, names, s) \in S
  <2> TAKE s \in S
  <2>1. PICK n \in Nat : OnTheWay(fs, at, n, s)
    BY Zenon DEF StatesOnTheWay
  <2>2. OnTheWay(fs, at, n + 1, Visit(fs, names, s)) /\ n + 1 \in Nat
    BY <2>1, VisitGoesOn
  <2> QED BY <2>2, StatesAre
<1> HIDE DEF S
<1>4. PICK h \in [Nat -> S] : Calls(fs, names, at, h)
  BY <1>2, <1>3, CallsAreDefined
<1> DEFINE C == {n \in Nat : OnTheWay(fs, at, n, h[n])}
<1>5. 0 \in C
  BY <1>1, <1>4 DEF Calls
<1>6. \A n \in Nat : n \in C => n + 1 \in C
  <2> SUFFICES ASSUME NEW n \in Nat, OnTheWay(fs, at, n, h[n]) PROVE OnTheWay(fs, at, n + 1, h[n + 1])
    OBVIOUS
  <2>1. h[n + 1] = Visit(fs, names, h[n])
    BY <1>4 DEF Calls
  <2>2. OnTheWay(fs, at, n + 1, Visit(fs, names, h[n]))
    BY VisitGoesOn
  <2> QED BY <2>1, <2>2
<1> DEFINE last == h[MaxEntries + 1]
<1>7. OnTheWay(fs, at, MaxEntries + 1, last)
  <2>1. Nat \subseteq C
    <3> HIDE DEF C
    <3> QED BY <1>5, <1>6, Induction
  <2>2. MaxEntries + 1 \in Nat
    BY InventoryBounds
  <2> QED BY <2>1, <2>2
<1>8. CollectFingerprint(fs, names, at, <<>>, NoEntries) = last.budget
  BY <1>4 DEF Calls
<1> HIDE DEF last
<1>9. PICK t \in Seq(Item), e \in SUBSET EntryRecord, c \in Nat, b \in Nat :
        /\ Tallied(e, c, b)
        /\ \/ last = Collected(t, e, c, b, Cut)
           \/ /\ last = Collected(t, e, c, b, Whole) /\ ListedSoFar(fs, at, t, e)
              /\ t = <<>> \/ c = MaxEntries + 1
  BY <1>7 DEF OnTheWay
<1>10. CASE last = Collected(t, e, c, b, Cut)
  <2>1. last.budget = Budget(e, c, b, Cut)
    BY <1>10, Zenon DEF Collected
  <2> QED BY <1>8, <1>9, <2>1, Zenon DEF IsInventory
<1>11. CASE /\ last = Collected(t, e, c, b, Whole) /\ ListedSoFar(fs, at, t, e)
            /\ t = <<>> \/ c = MaxEntries + 1
  <2>1. last.budget = Budget(e, c, b, Whole)
    BY <1>11, Zenon DEF Collected
  <2>2. t = <<>>
    <3>1. c <= MaxEntries
      BY <1>9 DEF Tallied
    <3> QED BY <1>11, <3>1, InventoryBounds
  <2>3. EntriesTell(fs, at, e) /\ AllIsDue(fs, at, <<>>, e)
    BY <1>11, <2>2 DEF ListedSoFar
  <2>4. \A rel \in BelowIt(fs, at) : \E x \in e : x.relative = rel
    BY <2>3 DEF AllIsDue
  <2> QED BY <1>8, <1>9, <2>1, <2>3, <2>4, Zenon DEF IsInventory
<1> QED BY <1>9, <1>10, <1>11

(* What lies at or below a location is the same in both trees.            *)
SameBelow(fs, later, at) ==
  \A l \in Seq(Name) :
    IsPrefix(at, l) => /\ l \in DOMAIN fs <=> l \in DOMAIN later
                       /\ l \in DOMAIN fs => fs[l] = later[l]

LEMMA UntouchedIsSame ==
  ASSUME NEW fs, FileTree(fs), NEW later, FileTree(later), NEW at, Untouched(fs, later, at)
  PROVE  SameBelow(fs, later, at)
PROOF
<1> QED BY DEF SameBelow, Untouched

(* What is longer begins with what it was.                                *)
LEMMA BeginsWith ==
  ASSUME NEW B, NEW s \in Seq(B), NEW t \in Seq(B)
  PROVE  s \o t \in Seq(B) /\ IsPrefix(s, s \o t)
PROOF
<1> DEFINE q == s \o t
<1>1. q \in Seq(B) /\ Len(s) <= Len(q) /\ \A i \in 1 .. Len(s) : s[i] = q[i]
  OBVIOUS
<1> HIDE DEF q
<1>2. IsPrefix(s, q)
  BY <1>1, PrefixIs
<1> QED BY <1>1, <1>2 DEF q

(* The same names are read there.                                         *)
LEMMA SameNamesAreRead ==
  ASSUME NEW fs, NEW later, NEW at \in Seq(Name), SameBelow(fs, later, at),
         NEW names \in Seq(Name), NEW rel \in Seq(Name)
  PROVE  NamesIn(fs, names, at \o rel) = NamesIn(later, names, at \o rel)
PROOF
<1>1. \A n \in ToSet(names) : n \in Name
  BY DEF ToSet
<1>2. \A n \in Name : Append(at \o rel, n) \in Seq(Name) /\ IsPrefix(at, Append(at \o rel, n))
  <2> TAKE n \in Name
  <2>1. AppendsLast(Name)
    BY AppendAfter
  <2>a. Append(at \o rel, n) = at \o Append(rel, n)
    BY <2>1 DEF AppendsLast
  <2>b. Append(rel, n) \in Seq(Name)
    OBVIOUS
  <2>2. Append(at \o rel, n) = at \o Append(rel, n) /\ Append(rel, n) \in Seq(Name)
    BY <2>a, <2>b
  <2>3. at \o Append(rel, n) \in Seq(Name) /\ IsPrefix(at, at \o Append(rel, n))
    BY <2>2, BeginsWith
  <2> QED BY <2>2, <2>3
<1>3. \A n \in ToSet(names) : Append(at \o rel, n) \in DOMAIN fs <=> Append(at \o rel, n) \in DOMAIN later
  BY <1>1, <1>2 DEF SameBelow
<1>4. {n \in ToSet(names) : Append(at \o rel, n) \notin DOMAIN fs}
        = {n \in ToSet(names) : Append(at \o rel, n) \notin DOMAIN later}
  BY <1>3
<1> QED BY <1>4, Zenon DEF NamesIn

(* A call does the same in both.                                          *)
LEMMA SameVisit ==
  ASSUME NEW fs, NEW later, NEW at \in Seq(Name), SameBelow(fs, later, at),
         NEW names \in Seq(Name), NEW n \in Nat, NEW s, OnTheWay(fs, at, n, s)
  PROVE  Visit(fs, names, s) = Visit(later, names, s)
PROOF
<1>1. PICK t \in Seq(Item), e \in SUBSET EntryRecord, c \in Nat, b \in Nat :
        /\ Tallied(e, c, b)
        /\ \/ s = Collected(t, e, c, b, Cut)
           \/ /\ s = Collected(t, e, c, b, Whole) /\ ListedSoFar(fs, at, t, e)
              /\ t = <<>> \/ c = n
  BY DEF OnTheWay
<1> DEFINE l == Head(t).at
           r == Head(t).relative
           read(x) == HashFileBounded(x[l].bytes, Budget(e, c, b, Whole))
           was == Collected(t, e, c, b, Whole)
<1>2. CASE s = Collected(t, e, c, b, Cut)
  <2>1. /\ Visit(fs, names, Collected(t, e, c, b, Cut)) = Collected(t, e, c, b, Cut)
        /\ Visit(later, names, Collected(t, e, c, b, Cut)) = Collected(t, e, c, b, Cut)
    BY VisitDoes
  <2> QED BY <1>2, <2>1, Zenon
<1>3. CASE s = was /\ t = <<>>
  <2>1. Visit(fs, names, was) = was /\ Visit(later, names, was) = was
    BY <1>3, VisitDoes
  <2> HIDE DEF was
  <2> QED BY <1>3, <2>1, Zenon
<1>4. CASE s = was /\ t # <<>> /\ c >= MaxEntries
  <2>1. /\ Visit(fs, names, was) = Collected(t, e, c, b, Cut)
        /\ Visit(later, names, was) = Collected(t, e, c, b, Cut)
    BY <1>4, VisitDoes
  <2> HIDE DEF was
  <2> QED BY <1>4, <2>1, Zenon
<1>5. CASE s = was /\ ListedSoFar(fs, at, t, e) /\ t # <<>> /\ ~(c >= MaxEntries)
  <2>1. /\ Visit(fs, names, was) = KeepsOne(fs, names, was, l, r, read(fs))
        /\ Visit(later, names, was) = KeepsOne(later, names, was, l, r, read(later))
    BY <1>5, VisitDoes
  <2>2. 1 \in DOMAIN t /\ Head(t) = t[1] /\ ItemsLie(fs, at, t)
    BY <1>5, TailPlaces DEF ListedSoFar
  <2>3. r \in BelowIt(fs, at) /\ l = at \o r
    BY <2>2 DEF ItemsLie
  <2>4. r \in Seq(Name) /\ l \in DOMAIN fs
    BY <2>3 DEF BelowIt
  <2>5. l \in Seq(Name) /\ IsPrefix(at, l)
    BY <2>3, <2>4, BeginsWith
  <2>6. l \in DOMAIN later /\ fs[l] = later[l]
    BY <2>4, <2>5 DEF SameBelow
  <2>7. NamesIn(fs, names, l) = NamesIn(later, names, l)
    <3>1. NamesIn(fs, names, at \o r) = NamesIn(later, names, at \o r)
      <4> HIDE DEF r
      <4> QED BY <2>4, SameNamesAreRead
    <3> HIDE DEF l, r
    <3> QED BY <2>3, <3>1, Zenon
  <2>8. read(fs) = read(later)
    BY <2>6, Zenon
  <2> HIDE DEF was, l, r
  <2>9. KeepsOne(fs, names, was, l, r, read(fs)) = KeepsOne(later, names, was, l, r, read(later))
    <3> DEFINE x == read(fs)
    <3>1. read(later) = x
      BY <2>8
    <3> HIDE DEF x
    <3>2. KeepsOne(fs, names, was, l, r, x) = KeepsOne(later, names, was, l, r, x)
      BY <2>4, <2>6, <2>7, Zenon DEF KeepsOne
    <3> QED BY <3>1, <3>2, Zenon DEF x
  <2> HIDE DEF read
  <2>10. Visit(fs, names, was) = Visit(later, names, was)
    BY <2>1, <2>9, Zenon
  <2> QED BY <1>5, <2>10, Zenon
<1> QED BY <1>1, <1>2, <1>3, <1>4, <1>5

(* So both inventories are the same.                                      *)
LEMMA CollectsAgree ==
  ASSUME NEW fs, NEW later, NEW names, NEW at \in Seq(Name), Legible(fs, names, at), at \in DOMAIN fs,
         SameBelow(fs, later, at)
  PROVE  CollectFingerprint(fs, names, at, <<>>, NoEntries)
           = CollectFingerprint(later, names, at, <<>>, NoEntries)
PROOF
<1> DEFINE S == StatesOnTheWay(fs, at)
<1>0. FileTree(fs) /\ names \in Seq(Name)
  BY DEF Legible
<1>1. OnTheWay(fs, at, 0, StartAt(at))
  BY <1>0, StartIsOne
<1>2. StartAt(at) \in S
  BY <1>1, StatesAre
<1>3. \A s \in S : Visit(fs, names, s) \in S /\ Visit(fs, names, s) = Visit(later, names, s)
  <2> TAKE s \in S
  <2>1. PICK n \in Nat : OnTheWay(fs, at, n, s)
    BY Zenon DEF StatesOnTheWay
  <2>2. OnTheWay(fs, at, n + 1, Visit(fs, names, s)) /\ n + 1 \in Nat
    BY <2>1, VisitGoesOn
  <2>3. Visit(fs, names, s) = Visit(later, names, s)
    BY <1>0, <2>1, SameVisit
  <2> QED BY <2>2, <2>3, StatesAre
<1>4. \A s \in S : Visit(later, names, s) \in S
  BY <1>3
<1> HIDE DEF S
<1>5. PICK h \in [Nat -> S] : Calls(fs, names, at, h)
  <2>1. \E h \in [Nat -> S] : Calls(fs, names, at, h)
    BY <1>2, <1>3, CallsAreDefined
  <2> QED BY <2>1
<1>6. PICK g \in [Nat -> S] : Calls(later, names, at, g)
  <2>1. \E g \in [Nat -> S] : Calls(later, names, at, g)
    BY <1>2, <1>4, CallsAreDefined
  <2> QED BY <2>1
<1> DEFINE C == {n \in Nat : h[n] = g[n]}
<1>7. 0 \in C
  BY <1>5, <1>6 DEF Calls
<1>8. \A n \in Nat : n \in C => n + 1 \in C
  <2> SUFFICES ASSUME NEW n \in Nat, h[n] = g[n] PROVE h[n + 1] = g[n + 1]
    OBVIOUS
  <2>0. h[n] = g[n] /\ h[n] \in S
    OBVIOUS
  <2>1. h[n + 1] = Visit(fs, names, h[n]) /\ g[n + 1] = Visit(later, names, g[n])
    BY <1>5, <1>6 DEF Calls
  <2>2. Visit(later, names, g[n]) = Visit(later, names, h[n])
    BY <2>0, Zenon
  <2>3. Visit(later, names, h[n]) = Visit(fs, names, h[n])
    BY <2>0, <1>3
  <2> QED BY <2>1, <2>2, <2>3, Zenon
<1>9. h[MaxEntries + 1] = g[MaxEntries + 1]
  <2>1. Nat \subseteq C
    <3> HIDE DEF C
    <3> QED BY <1>7, <1>8, Induction
  <2>2. MaxEntries + 1 \in Nat
    BY InventoryBounds
  <2> QED BY <2>1, <2>2
<1> QED BY <1>5, <1>6, <1>9 DEF Calls

(* Where the way to a path stops: at what is missing or no directory.     *)
UpTo(root, path, i) == root \o SubSeq(path, 1, i)

StopsAt(fs, root, path) ==
  {i \in 1 .. Len(path) - 1 :
     UpTo(root, path, i) \notin DOMAIN fs \/ fs[UpTo(root, path, i)].kind # "dir"}

FirstStop(numbers) == CHOOSE i \in numbers : \A j \in numbers : i <= j

(* What is kept of it then.                                               *)
StopEntry(fs, path, at, i) ==
  IF at \notin DOMAIN fs THEN Entry(path, "missing", Missing, <<>>)
  ELSE Entry(SubSeq(path, 1, i), IF fs[at].kind = "link" THEN "link" ELSE "other", fs[at], <<>>)

(* A fingerprint, case by case.                                           *)
LEMMA FingerprintCases ==
  ASSUME NEW fs, NEW names, NEW root, NEW path
  PROVE  FingerprintForbiddenPath(fs, names, root, path) =
           IF StopsAt(fs, root, path) = {}
             THEN CollectFingerprint(fs, names, root \o path, <<>>, NoEntries)
           ELSE Add(NoEntries,
                    StopEntry(fs, path, UpTo(root, path, FirstStop(StopsAt(fs, root, path))),
                              FirstStop(StopsAt(fs, root, path))), 0, Whole)
PROOF
<1> DEFINE stops == StopsAt(fs, root, path)
           first == FirstStop(stops)
           u == UpTo(root, path, first)
           gone == Entry(path, "missing", Missing, <<>>)
           there == Entry(SubSeq(path, 1, first), IF fs[u].kind = "link" THEN "link" ELSE "other", fs[u], <<>>)
           all == CollectFingerprint(fs, names, root \o path, <<>>, NoEntries)
           above == [kind |-> IF fs[u].kind = "link" THEN "link" ELSE "other", node |-> fs[u]]
<1>0. FingerprintForbiddenPath(fs, names, root, path) =
        IF stops = {} THEN all
        ELSE IF u \notin DOMAIN fs THEN Add(NoEntries, gone, 0, FALSE)
        ELSE Add(NoEntries, Entry(SubSeq(path, 1, first), above.kind, above.node, <<>>), 0, FALSE)
  BY Zenon DEF FingerprintForbiddenPath, StopsAt, UpTo, FirstStop
<1>1. FingerprintForbiddenPath(fs, names, root, path) =
        IF stops = {} THEN all
        ELSE IF u \notin DOMAIN fs THEN Add(NoEntries, gone, 0, Whole)
        ELSE Add(NoEntries, there, 0, Whole)
  <2>1. above.kind = (IF fs[u].kind = "link" THEN "link" ELSE "other") /\ above.node = fs[u]
    BY Zenon
  <2>2. Entry(SubSeq(path, 1, first), above.kind, above.node, <<>>) = there
    <3> HIDE DEF above, u, first
    <3> QED BY <2>1, Zenon
  <2> HIDE DEF stops, u, first, above, gone, there, all
  <2> QED BY <1>0, <2>2, Zenon DEF Whole
<1>2. /\ u \notin DOMAIN fs => StopEntry(fs, path, u, first) = gone
      /\ u \in DOMAIN fs => StopEntry(fs, path, u, first) = there
  BY Zenon DEF StopEntry
<1> HIDE DEF stops, u, gone, there, all
<1>3. FingerprintForbiddenPath(fs, names, root, path) =
        IF stops = {} THEN all ELSE Add(NoEntries, StopEntry(fs, path, u, first), 0, Whole)
  BY <1>1, <1>2, Zenon
<1> QED BY <1>3 DEF stops, u, all

(* One entry is one.                                                      *)
LEMMA OnlyOne ==
  ASSUME NEW x
  PROVE  Add(NoEntries, x, 0, Whole) = Budget({x}, 1, 0, Whole)
PROOF
<1> DEFINE was == NoEntries
<1>1. was.entries = {} /\ was.count = 0 /\ was.bytes = 0
  BY Zenon DEF NoEntries, Budget
<1>2. {} \cup {x} = {x} /\ 0 + 1 = 1 /\ 0 + 0 = 0
  OBVIOUS
<1> HIDE DEF was
<1>3. Add(was, x, 0, Whole) = Budget(was.entries \cup {x}, was.count + 1, was.bytes + 0, Whole)
  BY Zenon DEF Add
<1>4. Add(was, x, 0, Whole) = Budget({} \cup {x}, 0 + 1, 0 + 0, Whole)
  BY <1>1, <1>3, Zenon
<1>5. Add(was, x, 0, Whole) = Budget({x}, 1, 0, Whole)
  BY <1>2, <1>4, Zenon
<1> QED BY <1>5 DEF was

(* Nothing lies below where the way stops.                                *)
LEMMA NothingBehindAStop ==
  ASSUME NEW fs, FileTree(fs), NEW root \in Seq(Name), NEW path \in Seq(Name),
         NEW i \in StopsAt(fs, root, path)
  PROVE  BelowIt(fs, root \o path) = {}
PROOF
<1> SUFFICES ASSUME NEW rel \in BelowIt(fs, root \o path) PROVE FALSE
  OBVIOUS
<1>1. i \in 1 .. Len(path) - 1
  BY DEF StopsAt
<1>2. rel \in Seq(Name) /\ (root \o path) \o rel \in DOMAIN fs
  BY DEF BelowIt
<1> DEFINE r == SubSeq(path, 1, i)
           all == path \o rel
<1>3. r \in Seq(Name) /\ Len(r) = i /\ \A j \in 1 .. i : r[j] = path[j]
  BY <1>1
<1>4. all \in Seq(Name) /\ Len(all) = Len(path) + Len(rel) /\ \A j \in 1 .. Len(path) : all[j] = path[j]
  BY <1>2
<1>5. root \o all = (root \o path) \o rel
  BY <1>2
<1> HIDE DEF r, all
<1>6. all \in BelowIt(fs, root)
  BY <1>2, <1>4, <1>5 DEF BelowIt
<1>7. IsPrefix(r, all) /\ r # all
  <2>1. Len(r) <= Len(all) /\ Len(r) # Len(all)
    BY <1>1, <1>2, <1>3, <1>4
  <2>2. \A j \in 1 .. Len(r) : r[j] = all[j]
    BY <1>1, <1>3, <1>4, SMTT(60)
  <2>3. IsPrefix(r, all)
    BY <1>3, <1>4, <2>1, <2>2, PrefixIs
  <2> QED BY <2>1, <2>3
<1>8. r \in BelowIt(fs, root) /\ fs[root \o r].kind = "dir"
  BY <1>3, <1>6, <1>7, BelowIsEntered
<1>9. root \o r \in DOMAIN fs
  BY <1>8 DEF BelowIt
<1> QED BY <1>8, <1>9 DEF StopsAt, UpTo, r

(* What a fingerprint can be: the entry of where the way stops, the entry *)
(* of a missing path, or an inventory.                                    *)
IsStop(fs, at, f) ==
  /\ BelowIt(fs, at) = {}
  /\ \E x : x.relative # <<>> /\ f = Budget({x}, 1, 0, Whole)

IsMissing(fs, at, f) == BelowIt(fs, at) = {} /\ f = Budget({MissingAt}, 1, 0, Whole)

IsCollected(fs, at, f) == <<>> \in BelowIt(fs, at) /\ IsInventory(fs, at, f)

(* The first of the places where the way stops is one of them.            *)
LEMMA FirstStops ==
  ASSUME NEW fs, NEW root, NEW path \in Seq(Name), StopsAt(fs, root, path) # {}
  PROVE  FirstStop(StopsAt(fs, root, path)) \in StopsAt(fs, root, path)
PROOF
<1> DEFINE T == StopsAt(fs, root, path)
<1>1. T \in SUBSET Nat
  BY DEF StopsAt
<1> HIDE DEF T
<1>2. \E i \in T : \A j \in T : i <= j
  BY <1>1, LeastNumber DEF T
<1>3. FirstStop(T) \in T
  BY <1>2, Zenon DEF FirstStop
<1> QED BY <1>3 DEF T

LEMMA FingerprintIs ==
  ASSUME NEW fs, NEW names, NEW root \in Seq(Name), NEW path \in Seq(Name), path # <<>>,
         Legible(fs, names, root \o path)
  PROVE  LET f == FingerprintForbiddenPath(fs, names, root, path) IN
           \/ IsStop(fs, root \o path, f) \/ IsMissing(fs, root \o path, f)
           \/ IsCollected(fs, root \o path, f)
PROOF
<1> DEFINE f == FingerprintForbiddenPath(fs, names, root, path)
           at == root \o path
           stops == StopsAt(fs, root, path)
           first == FirstStop(stops)
           x == StopEntry(fs, path, UpTo(root, path, first), first)
<1>0. FileTree(fs) /\ at \in Seq(Name)
  BY DEF Legible
<1>1. CASE stops # {}
  <2>1. first \in stops
    BY <1>1, FirstStops
  <2>2. BelowIt(fs, at) = {}
    BY <1>0, <2>1, NothingBehindAStop
  <2>3. first \in 1 .. Len(path) - 1
    BY <2>1 DEF StopsAt
  <2>4. SubSeq(path, 1, first) # <<>>
    <3>1. Len(SubSeq(path, 1, first)) = first /\ first # 0
      BY <2>3
    <3>2. Len(<<>>) = 0
      OBVIOUS
    <3> HIDE DEF first
    <3> QED BY <3>1, <3>2, Zenon
  <2>5. f = Add(NoEntries, x, 0, Whole)
    BY <1>1, FingerprintCases, Zenon
  <2>6. x.relative # <<>>
    <3> DEFINE u == UpTo(root, path, first)
               cut == SubSeq(path, 1, first)
               kind == IF fs[u].kind = "link" THEN "link" ELSE "other"
    <3> HIDE DEF u, cut, kind
    <3>1. /\ u \notin DOMAIN fs => x = Entry(path, "missing", Missing, <<>>)
          /\ u \in DOMAIN fs => x = Entry(cut, kind, fs[u], <<>>)
      BY Zenon DEF StopEntry, u, cut, kind
    <3>2. /\ Entry(path, "missing", Missing, <<>>).relative = path
          /\ Entry(cut, kind, fs[u], <<>>).relative = cut
      BY EntryFields
    <3>3. cut # <<>>
      BY <2>4 DEF cut
    <3> HIDE DEF x
    <3> QED BY <3>1, <3>2, <3>3
  <2> HIDE DEF x
  <2>7. f = Budget({x}, 1, 0, Whole)
    BY <2>5, OnlyOne
  <2>8. IsStop(fs, at, f)
    <3> HIDE DEF f, at
    <3> QED BY <2>2, <2>6, <2>7 DEF IsStop
  <2> QED BY <2>8
<1>2. CASE stops = {}
  <2>1. f = CollectFingerprint(fs, names, at, <<>>, NoEntries)
    BY <1>2, FingerprintCases, Zenon
  <2>2. CASE at \in DOMAIN fs
    <3>1. IsInventory(fs, at, CollectFingerprint(fs, names, at, <<>>, NoEntries))
      BY <1>0, <2>2, CollectListed
    <3>2. <<>> \in BelowIt(fs, at)
      <4>1. at \o <<>> = at /\ <<>> \in Seq(Name)
        BY <1>0
      <4> QED BY <2>2, <4>1 DEF BelowIt
    <3>3. IsCollected(fs, at, f)
      <4> HIDE DEF f
      <4> QED BY <2>1, <3>1, <3>2, Zenon DEF IsCollected
    <3> QED BY <3>3
  <2>3. CASE at \notin DOMAIN fs
    <3>1. CollectFingerprint(fs, names, at, <<>>, NoEntries) = Budget({MissingAt}, 1, 0, Whole)
      BY <1>0, <2>3, MissingIsListed
    <3>2. BelowIt(fs, at) = {}
      <4> SUFFICES ASSUME NEW rel \in BelowIt(fs, at) PROVE FALSE
        OBVIOUS
      <4>1. at \in BelowIt(fs, <<>>)
        <5> DEFINE l == at \o rel
        <5>1. rel \in Seq(Name) /\ l \in DOMAIN fs
          BY DEF BelowIt
        <5>2. l \in Seq(Name) /\ IsPrefix(at, l)
          BY <1>0, <5>1, BeginsWith
        <5>3. <<>> \o l = l /\ <<>> \o at = at
          BY <1>0, <5>2
        <5> HIDE DEF l, at
        <5>4. l \in BelowIt(fs, <<>>)
          BY <5>1, <5>2, <5>3 DEF BelowIt
        <5>5. <<>> \in Seq(Name)
          OBVIOUS
        <5> QED BY <1>0, <5>2, <5>4, <5>5, BelowIsEntered
      <4>2. <<>> \o at = at
        BY <1>0
      <4> QED BY <2>3, <4>1, <4>2 DEF BelowIt
    <3>3. IsMissing(fs, at, f)
      <4> HIDE DEF f
      <4> QED BY <2>1, <3>1, <3>2, Zenon DEF IsMissing
    <3> QED BY <3>3
  <2> QED BY <2>2, <2>3
<1> QED BY <1>1, <1>2

(* What lies at or below a location begins with it.                       *)
LEMMA BehindAPrefix ==
  ASSUME NEW at \in Seq(Name), NEW l \in Seq(Name), IsPrefix(at, l)
  PROVE  \E rel \in Seq(Name) : l = at \o rel
PROOF
<1>1. PICK n \in Nat, m \in Nat : n = Len(at) /\ m = Len(l)
  OBVIOUS
<1>2. n <= m /\ \A i \in 1 .. n : at[i] = l[i]
  BY <1>1, PrefixIs
<1> DEFINE rel == SubSeq(l, n + 1, m)
<1>3. rel \in Seq(Name) /\ Len(rel) = m - n /\ \A i \in 1 .. m - n : rel[i] = l[n + i]
  BY <1>1, <1>2
<1> HIDE DEF rel
<1> DEFINE all == at \o rel
<1>4. all \in Seq(Name) /\ Len(all) = m /\ (\A i \in 1 .. n : all[i] = at[i])
      /\ \A i \in 1 .. m - n : all[n + i] = rel[i]
  BY <1>1, <1>2, <1>3
<1> HIDE DEF all
<1>5. \A i \in 1 .. m : all[i] = l[i]
  <2> TAKE i \in 1 .. m
  <2>1. CASE i \in 1 .. n
    BY <2>1, <1>2, <1>4
  <2>2. CASE i \notin 1 .. n
    <3>1. i - n \in 1 .. m - n /\ i = n + (i - n)
      BY <1>2, <2>2
    <3> QED BY <3>1, <1>3, <1>4
  <2> QED BY <2>1, <2>2
<1>6. all = l
  BY <1>1, <1>4, <1>5, SameSequence
<1> QED BY <1>3, <1>6 DEF all

(* Nothing below a location: no subtree.                                  *)
SameAt(fs, later, at) ==
  /\ BelowIt(fs, at) = BelowIt(later, at)
  /\ \A rel \in BelowIt(fs, at) : fs[at \o rel] = later[at \o rel]

LEMMA SameSubtree ==
  ASSUME NEW fs, FileTree(fs), NEW later, FileTree(later), NEW at \in Seq(Name), SameAt(fs, later, at)
  PROVE  Subtree(fs, at) = Subtree(later, at)
PROOF
<1> DEFINE S(tree) == {l \in DOMAIN tree : IsPrefix(at, l)}
<1>1. \A l \in DOMAIN fs : l \in Seq(Name)
  BY TreeFacts
<1>2. \A l \in DOMAIN later : l \in Seq(Name)
  BY TreeFacts
<1>3. \A l \in Seq(Name) : IsPrefix(at, l) =>
        /\ l \in DOMAIN fs <=> l \in DOMAIN later
        /\ l \in DOMAIN fs => fs[l] = later[l]
  <2> SUFFICES ASSUME NEW l \in Seq(Name), IsPrefix(at, l)
               PROVE  /\ l \in DOMAIN fs <=> l \in DOMAIN later
                      /\ l \in DOMAIN fs => fs[l] = later[l]
    OBVIOUS
  <2>1. PICK rel \in Seq(Name) : l = at \o rel
    BY BehindAPrefix
  <2>2. /\ rel \in BelowIt(fs, at) <=> l \in DOMAIN fs
        /\ rel \in BelowIt(later, at) <=> l \in DOMAIN later
    BY <2>1 DEF BelowIt
  <2> QED BY <2>1, <2>2 DEF SameAt
<1>4. S(fs) = S(later)
  BY <1>1, <1>2, <1>3
<1>5. \A l \in S(fs) : fs[l] = later[l]
  BY <1>1, <1>3
<1> HIDE DEF S
<1>6. [l \in S(fs) |-> fs[l]] = [l \in S(later) |-> later[l]]
  BY <1>4, <1>5
<1> QED BY <1>6, Zenon DEF Subtree, Restrict, S

(* Two entries that agree tell of the same node.                          *)
LEMMA SameEntrySameNode ==
  ASSUME NEW rel, NEW a \in Inode, NEW b \in Inode,
         Entry(rel, a.kind, a, a.bytes) = Entry(rel, b.kind, b, b.bytes)
  PROVE  a = b
PROOF
<1> DEFINE x == Entry(rel, a.kind, a, a.bytes)
           y == Entry(rel, b.kind, b, b.bytes)
<1>1. x.kind = a.kind /\ x.target = a.target /\ x.hash = a.bytes
  BY EntryFields
<1>2. y.kind = b.kind /\ y.target = b.target /\ y.hash = b.bytes
  BY EntryFields
<1>3. x = y
  OBVIOUS
<1> HIDE DEF x, y
<1>4. a.kind = b.kind /\ a.target = b.target /\ a.bytes = b.bytes
  BY <1>1, <1>2, <1>3
<1> QED BY <1>4 DEF Inode

(* Inventories with the same entries, none cut off, are of the same.      *)
SameEntries(f, g) == f.entries = g.entries /\ f.truncated = Whole /\ g.truncated = Whole

(* What an inventory that is not cut off holds.                           *)
LEMMA WholeInventory ==
  ASSUME NEW fs, NEW at, NEW f, IsInventory(fs, at, f), f.truncated = Whole
  PROVE  /\ EntriesTell(fs, at, f.entries)
         /\ \A rel \in BelowIt(fs, at) : \E x \in f.entries : x.relative = rel
PROOF
<1>1. PICK e, c, b :
        /\ Tallied(e, c, b)
        /\ \/ f = Budget(e, c, b, Cut)
           \/ /\ f = Budget(e, c, b, Whole) /\ EntriesTell(fs, at, e)
              /\ \A rel \in BelowIt(fs, at) : \E x \in e : x.relative = rel
  BY DEF IsInventory
<1>2. f # Budget(e, c, b, Cut)
  <2>1. Budget(e, c, b, Cut).truncated = Cut
    BY Zenon DEF Budget
  <2>2. Cut # Whole
    BY DEF Cut, Whole
  <2> QED BY <2>1, <2>2, Zenon
<1>3. f = Budget(e, c, b, Whole) => f.entries = e
  <2>1. Budget(e, c, b, Whole).entries = e
    BY Zenon DEF Budget
  <2> QED BY <2>1, Zenon
<1> QED BY <1>1, <1>2, <1>3, Zenon

LEMMA SameInventories ==
  ASSUME NEW fs, FileTree(fs), NEW later, FileTree(later), NEW at \in Seq(Name),
         NEW f, NEW g, IsInventory(fs, at, f), IsInventory(later, at, g), SameEntries(f, g)
  PROVE  SameAt(fs, later, at)
PROOF
<1>1. f.entries = g.entries /\ f.truncated = Whole /\ g.truncated = Whole
  BY DEF SameEntries
<1> DEFINE e == f.entries
<1>2. EntriesTell(fs, at, e) /\ \A rel \in BelowIt(fs, at) : \E x \in e : x.relative = rel
  BY <1>1, WholeInventory
<1>3. EntriesTell(later, at, g.entries) /\ \A rel \in BelowIt(later, at) : \E x \in g.entries : x.relative = rel
  BY <1>1, WholeInventory
<1>4. EntriesTell(later, at, e) /\ \A rel \in BelowIt(later, at) : \E x \in e : x.relative = rel
  BY <1>1, <1>3, Zenon
<1> HIDE DEF e
<1>5. BelowIt(fs, at) = BelowIt(later, at)
  <2>1. ASSUME NEW rel \in BelowIt(fs, at) PROVE rel \in BelowIt(later, at)
    <3>1. PICK x \in e : x.relative = rel
      BY <1>2
    <3> QED BY <1>4, <3>1, Zenon DEF EntriesTell
  <2>2. ASSUME NEW rel \in BelowIt(later, at) PROVE rel \in BelowIt(fs, at)
    <3>1. PICK x \in e : x.relative = rel
      BY <1>4
    <3> QED BY <1>2, <3>1, Zenon DEF EntriesTell
  <2> QED BY <2>1, <2>2
<1>6. \A rel \in BelowIt(fs, at) : fs[at \o rel] = later[at \o rel]
  <2> TAKE rel \in BelowIt(fs, at)
  <2>1. PICK x \in e : x.relative = rel
    BY <1>2
  <2>2. x = EntryAt(fs, at, rel) /\ x = EntryAt(later, at, rel)
    BY <1>2, <1>4, <2>1, Zenon DEF EntriesTell
  <2>3. at \o rel \in DOMAIN fs /\ at \o rel \in DOMAIN later
    BY <1>5 DEF BelowIt
  <2>4. fs[at \o rel] \in Inode
    BY <2>3, TreeFacts
  <2>5. later[at \o rel] \in Inode
    BY <2>3, TreeFacts
  <2> DEFINE a == fs[at \o rel]
             b == later[at \o rel]
  <2>6. Entry(rel, a.kind, a, a.bytes) = Entry(rel, b.kind, b, b.bytes)
    BY <2>2, Zenon DEF EntryAt
  <2> HIDE DEF a, b
  <2>7. a \in Inode /\ b \in Inode
    BY <2>4, <2>5 DEF a, b
  <2>8. a = b
    BY <2>6, <2>7, SameEntrySameNode
  <2> QED BY <2>8 DEF a, b
<1> QED BY <1>5, <1>6, Zenon DEF SameAt

(* A node that is there is none that is missing.                          *)
LEMMA MissingIsNotThere ==
  ASSUME NEW fs, FileTree(fs), NEW at, NEW f, IsCollected(fs, at, f), f.truncated = Whole
  PROVE  \A y : f.entries = {y} => y # MissingAt /\ y.relative = <<>>
PROOF
<1>1. IsInventory(fs, at, f) /\ <<>> \in BelowIt(fs, at) /\ f.truncated = Whole
  BY DEF IsCollected
<1>2. EntriesTell(fs, at, f.entries) /\ \A rel \in BelowIt(fs, at) : \E x \in f.entries : x.relative = rel
  BY <1>1, WholeInventory
<1> SUFFICES ASSUME NEW y, f.entries = {y} PROVE y # MissingAt /\ y.relative = <<>>
  OBVIOUS
<1>3. PICK x \in f.entries : x.relative = <<>>
  BY <1>1, <1>2
<1>4. x = y
  BY <1>3
<1>5. y = EntryAt(fs, at, <<>>)
  BY <1>2, <1>3, <1>4, Zenon DEF EntriesTell
<1>6. y.kind = fs[at \o <<>>].kind
  BY <1>5, EntryFields DEF EntryAt
<1>7. at \o <<>> \in DOMAIN fs
  BY <1>1 DEF BelowIt
<1>8. fs[at \o <<>>] \in Inode
  BY <1>7, TreeFacts
<1>9. y.kind # "missing"
  BY <1>6, <1>8 DEF Inode
<1>10. MissingAt.kind = "missing"
  BY EntryFields DEF MissingAt
<1> QED BY <1>3, <1>4, <1>9, <1>10

(* Every fingerprint counts its entries and stays within its bounds.      *)
LEMMA FingerprintsAreBounded ==
  ASSUME NEW fs, NEW at, NEW f, IsStop(fs, at, f) \/ IsMissing(fs, at, f) \/ IsCollected(fs, at, f)
  PROVE  f.count = Cardinality(f.entries) /\ f.bytes <= MaxBytes /\ f.count <= MaxEntries
PROOF
<1>1. ASSUME NEW x, f = Budget({x}, 1, 0, Whole)
      PROVE  f.count = Cardinality(f.entries) /\ f.bytes <= MaxBytes /\ f.count <= MaxEntries
  <2> DEFINE one == {x}
  <2>1. Cardinality(one) = 1
    BY FS_Singleton
  <2>2. 0 <= MaxBytes /\ 1 <= MaxEntries
    BY InventoryBounds
  <2> HIDE DEF one
  <2>3. f = Budget(one, 1, 0, Whole)
    BY <1>1 DEF one
  <2>4. Budget(one, 1, 0, Whole).entries = one /\ Budget(one, 1, 0, Whole).count = 1
        /\ Budget(one, 1, 0, Whole).bytes = 0
    BY Zenon DEF Budget
  <2>5. f.entries = one /\ f.count = 1 /\ f.bytes = 0
    BY <2>3, <2>4, Zenon
  <2> QED BY <2>1, <2>2, <2>5
<1>2. CASE IsStop(fs, at, f)
  BY <1>1, <1>2 DEF IsStop
<1>3. CASE IsMissing(fs, at, f)
  BY <1>1, <1>3 DEF IsMissing
<1>4. CASE IsCollected(fs, at, f)
  <2>1. IsInventory(fs, at, f)
    BY <1>4 DEF IsCollected
  <2>2. PICK e, c, b : Tallied(e, c, b) /\ (f = Budget(e, c, b, Cut) \/ f = Budget(e, c, b, Whole))
    BY <2>1, Zenon DEF IsInventory
  <2>3. /\ Budget(e, c, b, Cut).entries = e /\ Budget(e, c, b, Cut).count = c /\ Budget(e, c, b, Cut).bytes = b
        /\ Budget(e, c, b, Whole).entries = e /\ Budget(e, c, b, Whole).count = c
        /\ Budget(e, c, b, Whole).bytes = b
    BY Zenon DEF Budget
  <2>4. f.entries = e /\ f.count = c /\ f.bytes = b
    BY <2>2, <2>3, Zenon
  <2>5. c = Cardinality(e) /\ b <= MaxBytes /\ c <= MaxEntries
    BY <2>2 DEF Tallied
  <2> QED BY <2>4, <2>5, Zenon
<1> QED BY <1>2, <1>3, <1>4

(* What is there does not look like what is not.                          *)
LEMMA PresenceShows ==
  ASSUME NEW fs, FileTree(fs), NEW later, NEW at, NEW f, NEW g,
         IsCollected(fs, at, f), IsStop(later, at, g) \/ IsMissing(later, at, g)
  PROVE  ~SameEntries(f, g) /\ ~SameEntries(g, f)
PROOF
<1> SUFFICES ASSUME f.entries = g.entries, f.truncated = Whole PROVE FALSE
  BY Zenon DEF SameEntries
<1>1. \A y : f.entries = {y} => y # MissingAt /\ y.relative = <<>>
  BY MissingIsNotThere
<1>2. ASSUME NEW x, g = Budget({x}, 1, 0, Whole) PROVE x # MissingAt /\ x.relative = <<>>
  <2>1. Budget({x}, 1, 0, Whole).entries = {x}
    BY Zenon DEF Budget
  <2>2. g.entries = {x}
    BY <1>2, <2>1, Zenon
  <2> QED BY <1>1, <2>2
<1>3. CASE IsStop(later, at, g)
  BY <1>2, <1>3 DEF IsStop
<1>4. CASE IsMissing(later, at, g)
  BY <1>2, <1>4 DEF IsMissing
<1> QED BY <1>3, <1>4

(* Where nothing was touched the way stops where it did.                  *)
LEMMA SameFingerprint ==
  ASSUME NEW fs, NEW later, NEW names, NEW root \in Seq(Name), NEW path \in Seq(Name),
         Legible(fs, names, root \o path), Legible(later, names, root \o path),
         Untouched(fs, later, root \o path)
  PROVE  FingerprintForbiddenPath(later, names, root, path)
           = FingerprintForbiddenPath(fs, names, root, path)
PROOF
<1> DEFINE at == root \o path
           stops == StopsAt(fs, root, path)
           first == FirstStop(stops)
           u == UpTo(root, path, first)
<1>0. FileTree(fs) /\ FileTree(later) /\ at \in Seq(Name)
  BY DEF Legible
<1>1. \A i \in 1 .. Len(path) - 1 :
        /\ UpTo(root, path, i) \in DOMAIN fs <=> UpTo(root, path, i) \in DOMAIN later
        /\ UpTo(root, path, i) \in DOMAIN fs => fs[UpTo(root, path, i)] = later[UpTo(root, path, i)]
  <2> SUFFICES ASSUME NEW i \in 1 .. Len(path) - 1
               PROVE  /\ UpTo(root, path, i) \in DOMAIN fs <=> UpTo(root, path, i) \in DOMAIN later
                      /\ UpTo(root, path, i) \in DOMAIN fs
                           => fs[UpTo(root, path, i)] = later[UpTo(root, path, i)]
    OBVIOUS
  <2> DEFINE r == SubSeq(path, 1, i)
             k == root \o r
  <2>1. r \in Seq(Name) /\ Len(r) = i /\ \A j \in 1 .. i : r[j] = path[j]
    OBVIOUS
  <2>2. PICK n \in Nat : n = Len(root)
    OBVIOUS
  <2> HIDE DEF r
  <2>3. /\ k \in Seq(Name) /\ Len(k) = n + i
        /\ (\A j \in 1 .. n : k[j] = root[j]) /\ (\A j \in 1 .. i : k[n + j] = r[j])
    BY <2>1, <2>2
  <2>4. /\ Len(at) = n + Len(path)
        /\ (\A j \in 1 .. n : at[j] = root[j]) /\ (\A j \in 1 .. Len(path) : at[n + j] = path[j])
    BY <2>2
  <2> HIDE DEF k, at
  <2>5. \A j \in 1 .. n + i : k[j] = at[j]
    <3> TAKE j \in 1 .. n + i
    <3>1. CASE j \in 1 .. n
      BY <3>1, <2>3, <2>4
    <3>2. CASE j \notin 1 .. n
      <4>1. j - n \in 1 .. i /\ j - n \in 1 .. Len(path) /\ j = n + (j - n)
        BY <3>2, <2>2
      <4> QED BY <4>1, <2>1, <2>3, <2>4, SMTT(60)
    <3> QED BY <3>1, <3>2
  <2>6. Len(k) <= Len(at)
    BY <2>2, <2>3, <2>4
  <2>7. IsPrefix(k, at)
    BY <1>0, <2>3, <2>5, <2>6, PrefixIs
  <2>8. k = UpTo(root, path, i)
    BY Zenon DEF UpTo, k, r
  <2>9. k \in DOMAIN fs \cup DOMAIN later => k \in DOMAIN fs /\ k \in DOMAIN later /\ fs[k] = later[k]
    BY <2>7, Zenon DEF Untouched, at
  <2> QED BY <2>8, <2>9
<1>2. StopsAt(later, root, path) = stops
  BY <1>1 DEF StopsAt
<1>3. SameBelow(fs, later, at)
  BY <1>0, UntouchedIsSame
<1>4. CASE stops = {}
  <2>1. /\ FingerprintForbiddenPath(fs, names, root, path) = CollectFingerprint(fs, names, at, <<>>, NoEntries)
        /\ FingerprintForbiddenPath(later, names, root, path) = CollectFingerprint(later, names, at, <<>>, NoEntries)
    BY <1>2, <1>4, FingerprintCases, Zenon
  <2>2. CASE at \in DOMAIN fs
    <3>1. CollectFingerprint(fs, names, at, <<>>, NoEntries) = CollectFingerprint(later, names, at, <<>>, NoEntries)
      BY <1>0, <1>3, <2>2, CollectsAgree, ZenonT(60)
    <3> QED BY <2>1, <3>1, Zenon
  <2>3. CASE at \notin DOMAIN fs
    <3>1. at \notin DOMAIN later
      <4>1. \A t \in Seq(Name) : IsPrefix(t, t)
        <5> TAKE t \in Seq(Name)
        <5>1. Len(t) <= Len(t)
          OBVIOUS
        <5> QED BY <5>1, PrefixIs
      <4>2. IsPrefix(at, at)
        BY <1>0, <4>1
      <4> QED BY <1>0, <1>3, <2>3, <4>2 DEF SameBelow
    <3>2. /\ CollectFingerprint(fs, names, at, <<>>, NoEntries) = Budget({MissingAt}, 1, 0, Whole)
      BY <1>0, <2>3, MissingIsListed
    <3>3. CollectFingerprint(later, names, at, <<>>, NoEntries) = Budget({MissingAt}, 1, 0, Whole)
      BY <1>0, <3>1, MissingIsListed
    <3> QED BY <2>1, <3>2, <3>3, Zenon
  <2> QED BY <2>2, <2>3
<1>5. CASE stops # {}
  <2>1. first \in stops
    BY <1>5, FirstStops
  <2>2. first \in 1 .. Len(path) - 1
    BY <2>1 DEF StopsAt
  <2>3. /\ u \in DOMAIN fs <=> u \in DOMAIN later
        /\ u \in DOMAIN fs => fs[u] = later[u]
    BY <1>1, <2>2
  <2>4. /\ FingerprintForbiddenPath(fs, names, root, path) = Add(NoEntries, StopEntry(fs, path, u, first), 0, Whole)
        /\ FingerprintForbiddenPath(later, names, root, path)
             = Add(NoEntries, StopEntry(later, path, u, first), 0, Whole)
    BY <1>2, <1>5, FingerprintCases, Zenon
  <2>5. StopEntry(fs, path, u, first) = StopEntry(later, path, u, first)
    <3> HIDE DEF u, first
    <3> QED BY <2>3, Zenon DEF StopEntry
  <2> QED BY <2>4, <2>5, Zenon
<1> QED BY <1>4, <1>5

(* An inventory of a forbidden path tells the truth, whatever the trees   *)
(* and the bounds: it counts what it holds and stays within its bounds;   *)
(* where nothing at the path or on the way to it was touched it is the    *)
(* same again; and two of them that hold the same and were not cut off are*)
(* of the same subtree, so that within the budget no change below a       *)
(* forbidden path passes unseen; of what lies beyond it nothing is said   *)
(* (orchestration.rs, fingerprint_forbidden_path).                        *)
THEOREM InventoriesAreTrue ==
  ASSUME NEW fs, NEW later, NEW names, NEW root \in Seq(Name),
         NEW path \in PathText, EnsureSafeRelativePath(path),
         Legible(fs, names, root \o path), Legible(later, names, root \o path)
  PROVE  InventoriesTell(fs, later, names, root, path)
PROOF
<1> DEFINE at == root \o path
           f == FingerprintForbiddenPath(fs, names, root, path)
           g == FingerprintForbiddenPath(later, names, root, path)
<1>1. path \in Seq(STRING) /\ path # <<>>
  BY DEF PathText
<1>2. path \in Seq(Name)
  BY <1>1, SafePathIsNames
<1>3. FileTree(fs) /\ FileTree(later)
  BY DEF Legible
<1>4. IsStop(fs, at, f) \/ IsMissing(fs, at, f) \/ IsCollected(fs, at, f)
  BY <1>1, <1>2, FingerprintIs
<1>5. IsStop(later, at, g) \/ IsMissing(later, at, g) \/ IsCollected(later, at, g)
  BY <1>1, <1>2, FingerprintIs
<1>6. Untouched(fs, later, at) => g = f
  BY <1>2, SameFingerprint
<1>7. at \in Seq(Name)
  BY <1>2
<1> HIDE DEF f, g, at
<1>8. f.count = Cardinality(f.entries) /\ f.bytes <= MaxBytes /\ f.count <= MaxEntries
  BY <1>4, FingerprintsAreBounded
<1>9. ASSUME SameEntries(f, g) PROVE Subtree(fs, at) = Subtree(later, at)
  <2>1. CASE IsCollected(fs, at, f) /\ IsCollected(later, at, g)
    <3>1. IsInventory(fs, at, f) /\ IsInventory(later, at, g)
      BY <2>1 DEF IsCollected
    <3>2. SameAt(fs, later, at)
      BY <1>3, <1>7, <1>9, <3>1, SameInventories
    <3> QED BY <1>3, <1>7, <3>2, SameSubtree
  <2>2. CASE IsCollected(fs, at, f) /\ (IsStop(later, at, g) \/ IsMissing(later, at, g))
    BY <1>3, <1>9, <2>2, PresenceShows
  <2>3. CASE IsCollected(later, at, g) /\ (IsStop(fs, at, f) \/ IsMissing(fs, at, f))
    BY <1>3, <1>9, <2>3, PresenceShows
  <2>4. CASE /\ IsStop(fs, at, f) \/ IsMissing(fs, at, f)
             /\ IsStop(later, at, g) \/ IsMissing(later, at, g)
    <3>1. BelowIt(fs, at) = {} /\ BelowIt(later, at) = {}
      BY <2>4 DEF IsStop, IsMissing
    <3>2. SameAt(fs, later, at)
      BY <3>1 DEF SameAt
    <3> QED BY <1>3, <1>7, <3>2, SameSubtree
  <2> QED BY <1>4, <1>5, <2>1, <2>2, <2>3, <2>4
<1>10. g.entries = f.entries /\ ~f.truncated /\ ~g.truncated => SameEntries(f, g)
  <2>1. \A fs2, at2, h : IsStop(fs2, at2, h) \/ IsMissing(fs2, at2, h) \/ IsCollected(fs2, at2, h)
          => h.truncated = Cut \/ h.truncated = Whole
    <3> SUFFICES ASSUME NEW fs2, NEW at2, NEW h,
                        IsStop(fs2, at2, h) \/ IsMissing(fs2, at2, h) \/ IsCollected(fs2, at2, h)
                 PROVE  h.truncated = Cut \/ h.truncated = Whole
      OBVIOUS
    <3>1. PICK e, c, b : h = Budget(e, c, b, Cut) \/ h = Budget(e, c, b, Whole)
      BY Zenon DEF IsStop, IsMissing, IsCollected, IsInventory
    <3>2. Budget(e, c, b, Cut).truncated = Cut
      BY Zenon DEF Budget
    <3>3. Budget(e, c, b, Whole).truncated = Whole
      BY Zenon DEF Budget
    <3> QED BY <3>1, <3>2, <3>3, Zenon
  <2>2. f.truncated = Cut \/ f.truncated = Whole
    BY <1>4, <2>1
  <2>3. g.truncated = Cut \/ g.truncated = Whole
    BY <1>5, <2>1
  <2> QED BY <2>2, <2>3, Zenon DEF SameEntries, Cut
<1>11. InventoriesTell(fs, later, names, root, path)
         <=> /\ f.count = Cardinality(f.entries)
             /\ f.bytes <= MaxBytes /\ f.count <= MaxEntries
             /\ g.entries = f.entries /\ ~f.truncated /\ ~g.truncated => Subtree(fs, at) = Subtree(later, at)
             /\ Untouched(fs, later, at) => g = f
  BY Zenon DEF InventoriesTell, f, g, at
<1> QED BY <1>6, <1>8, <1>9, <1>10, <1>11

-----------------------------------------------------------------------------
(* What is found in the events of an agent.                               *)

(* Where the nodes of a value lie, and its nodes: a value has a node, what *)
(* is in one lies at numbers without gaps.                                *)
Place == Seq(Nat \ {0})

IsValue(value) ==
  /\ DOMAIN value \in SUBSET Place /\ IsFiniteSet(DOMAIN value) /\ <<>> \in DOMAIN value
  /\ \A at \in Place, i \in Nat \ {0} : Append(at, i) \in DOMAIN value =>
       at \in DOMAIN value /\ (i > 1 => Append(at, i - 1) \in DOMAIN value)

(* texts are those at some places, each of them once.                     *)
Told(value, places, texts) ==
  \E s \in Seq(places) :
    /\ Differ(s) /\ \A p \in places : Contains(s, p)
    /\ texts = [i \in DOMAIN s |-> value[s[i]].text]

LEMMA NothingTold ==
  ASSUME NEW value
  PROVE  Told(value, {}, <<>>)
PROOF
<1> DEFINE s == <<>>
<1>1. s \in Seq({}) /\ DOMAIN s = {} /\ [i \in DOMAIN s |-> value[s[i]].text] = <<>>
  OBVIOUS
<1> HIDE DEF s
<1>2. Differ(s)
  BY <1>1 DEF Differ
<1> QED BY <1>1, <1>2 DEF Told

LEMMA ToldTogether ==
  ASSUME NEW value, NEW P, NEW Q, P \cap Q = {},
         NEW one, Told(value, P, one), NEW other, Told(value, Q, other)
  PROVE  Told(value, P \cup Q, one \o other)
PROOF
<1>1. PICK s \in Seq(P) : /\ Differ(s) /\ \A p \in P : Contains(s, p)
                          /\ one = [i \in DOMAIN s |-> value[s[i]].text]
  BY DEF Told
<1>2. PICK t \in Seq(Q) : /\ Differ(t) /\ \A p \in Q : Contains(t, p)
                          /\ other = [i \in DOMAIN t |-> value[t[i]].text]
  BY DEF Told
<1> DEFINE st == s \o t
           all == [i \in DOMAIN st |-> value[st[i]].text]
<1>3. /\ Len(s) \in Nat /\ DOMAIN s = 1 .. Len(s) /\ \A i \in 1 .. Len(s) : s[i] \in P
      /\ Len(t) \in Nat /\ DOMAIN t = 1 .. Len(t) /\ \A i \in 1 .. Len(t) : t[i] \in Q
  OBVIOUS
<1>4. /\ st \in Seq(P \cup Q) /\ Len(st) = Len(s) + Len(t) /\ DOMAIN st = 1 .. Len(s) + Len(t)
      /\ \A i \in 1 .. Len(s) : st[i] = s[i]
      /\ \A i \in 1 .. Len(t) : st[Len(s) + i] = t[i]
      /\ \A i \in 1 .. Len(s) + Len(t) : i <= Len(s) \/ (i - Len(s) \in 1 .. Len(t) /\ st[i] = t[i - Len(s)])
  <2>1. s \in Seq(P \cup Q) /\ t \in Seq(P \cup Q)
    OBVIOUS
  <2> QED BY <2>1
<1> HIDE DEF st, all
<1>5. Differ(st)
  <2> SUFFICES ASSUME NEW i \in 1 .. Len(s) + Len(t), NEW j \in 1 .. Len(s) + Len(t), st[i] = st[j]
               PROVE  i = j
    BY <1>4 DEF Differ
  <2>1. CASE i <= Len(s) /\ j <= Len(s)
    <3>1. i \in DOMAIN s /\ j \in DOMAIN s /\ s[i] = s[j]
      BY <1>3, <1>4, <2>1
    <3> QED BY <1>1, <3>1 DEF Differ
  <2>2. CASE i > Len(s) /\ j > Len(s)
    <3>1. i - Len(s) \in DOMAIN t /\ j - Len(s) \in DOMAIN t /\ t[i - Len(s)] = t[j - Len(s)]
      BY <1>3, <1>4, <2>2
    <3>2. i - Len(s) = j - Len(s)
      BY <1>2, <3>1 DEF Differ
    <3> QED BY <1>3, <3>2
  <2>3. CASE (i <= Len(s)) # (j <= Len(s))
    BY <1>3, <1>4, <2>3
  <2> QED BY <1>3, <2>1, <2>2, <2>3
<1>6. \A p \in P \cup Q : Contains(st, p)
  <2> SUFFICES ASSUME NEW p \in P \cup Q PROVE \E i \in DOMAIN st : st[i] = p
    BY DEF Contains
  <2>1. CASE p \in P
    BY <1>1, <1>3, <1>4, <2>1 DEF Contains
  <2>2. CASE p \in Q
    <3>1. PICK i \in 1 .. Len(t) : t[i] = p
      BY <1>2, <1>3, <2>2 DEF Contains
    <3>2. Len(s) + i \in DOMAIN st /\ st[Len(s) + i] = p
      BY <1>3, <1>4, <3>1
    <3> QED BY <3>2
  <2> QED BY <2>1, <2>2
<1>7. one \o other = all
  <2> DEFINE A == {value[p].text : p \in P \cup Q}
  <2>1. one \in Seq(A) /\ other \in Seq(A) /\ Len(one) = Len(s) /\ Len(other) = Len(t)
        /\ (\A i \in 1 .. Len(s) : one[i] = value[s[i]].text)
        /\ (\A i \in 1 .. Len(t) : other[i] = value[t[i]].text)
    <3>1. \A i \in 1 .. Len(s) : value[s[i]].text \in A
      BY <1>3
    <3>2. \A i \in 1 .. Len(t) : value[t[i]].text \in A
      BY <1>3
    <3> HIDE DEF A
    <3>3. /\ one = [i \in 1 .. Len(s) |-> value[s[i]].text]
          /\ other = [i \in 1 .. Len(t) |-> value[t[i]].text]
      BY <1>1, <1>2, <1>3
    <3> QED BY <1>3, <3>1, <3>2, <3>3
  <2>2. all \in Seq(A) /\ Len(all) = Len(s) + Len(t)
        /\ \A i \in 1 .. Len(s) + Len(t) : all[i] = value[st[i]].text
    <3>1. \A i \in 1 .. Len(s) + Len(t) : st[i] \in P \cup Q
      BY <1>3, <1>4
    <3>2. \A i \in 1 .. Len(s) + Len(t) : value[st[i]].text \in A
      BY <3>1
    <3> HIDE DEF A
    <3>3. DOMAIN st = 1 .. Len(s) + Len(t) /\ Len(s) + Len(t) \in Nat
      BY <1>3, <1>4
    <3> QED BY <3>2, <3>3 DEF all
  <2> HIDE DEF A
  <2> DEFINE joined == one \o other
  <2>3. joined \in Seq(A) /\ Len(joined) = Len(s) + Len(t)
        /\ \A i \in 1 .. Len(s) + Len(t) :
             joined[i] = IF i <= Len(s) THEN one[i] ELSE other[i - Len(s)]
    <3>1. /\ joined \in Seq(A) /\ Len(joined) = Len(one) + Len(other)
          /\ \A i \in 1 .. Len(one) + Len(other) :
               joined[i] = IF i <= Len(one) THEN one[i] ELSE other[i - Len(one)]
      BY <2>1, ConcatProperties, ZenonT(60)
    <3> HIDE DEF joined
    <3> QED BY <2>1, <3>1, Zenon
  <2> HIDE DEF joined
  <2>4. \A i \in 1 .. Len(s) + Len(t) : joined[i] = all[i]
    <3> TAKE i \in 1 .. Len(s) + Len(t)
    <3>1. CASE i <= Len(s)
      <4>1. i \in 1 .. Len(s)
        BY <1>3, <3>1
      <4>2. joined[i] = one[i] /\ one[i] = value[s[i]].text /\ all[i] = value[st[i]].text /\ st[i] = s[i]
        BY <1>4, <2>1, <2>2, <2>3, <3>1, <4>1, Zenon
      <4> QED BY <4>2, Zenon
    <3>2. CASE i > Len(s)
      <4>1. i - Len(s) \in 1 .. Len(t) /\ st[i] = t[i - Len(s)] /\ ~(i <= Len(s))
        BY <1>3, <1>4, <3>2
      <4> DEFINE j == i - Len(s)
      <4> HIDE DEF j
      <4>2. joined[i] = other[j] /\ other[j] = value[t[j]].text /\ all[i] = value[st[i]].text /\ st[i] = t[j]
        BY <1>4, <2>1, <2>2, <2>3, <4>1, Zenon DEF j
      <4> QED BY <4>2, Zenon
    <3> QED BY <1>3, <3>1, <3>2
  <2> QED BY <2>2, <2>3, <2>4, SameSequence DEF joined
<1> QED BY <1>4, <1>5, <1>6, <1>7 DEF Told, all

(* f is what a sequence of sequences is flattened to, prefix by prefix.   *)
Flattens(f, seqs) ==
  /\ f[1] = seqs[1] /\ FlattenSeq(seqs) = f[Len(seqs)]
  /\ \A i \in 1 .. Len(seqs) - 1 : f[i + 1] = f[i] \o seqs[i + 1]

LEMMA FlattenSteps ==
  ASSUME NEW A, NEW seqs \in Seq(Seq(A)), seqs # <<>>
  PROVE  \E f : Flattens(f, seqs)
PROOF
<1> DEFINE n == Len(seqs)
           S == Nat \X Seq(A)
           F == [p \in S |-> IF p[1] + 1 \in 1 .. n THEN <<p[1] + 1, p[2] \o seqs[p[1] + 1]>> ELSE p]
           start == <<1, seqs[1]>>
           Body(h, i) == IF i = 1 THEN seqs[i] ELSE h[i - 1] \o seqs[i]
<1>1. n \in Nat /\ n > 0 /\ \A i \in 1 .. n : seqs[i] \in Seq(A)
  OBVIOUS
<1>2. start \in S
  BY <1>1
<1>3. F \in [S -> S]
  <2> SUFFICES ASSUME NEW p \in S
               PROVE  (IF p[1] + 1 \in 1 .. n THEN <<p[1] + 1, p[2] \o seqs[p[1] + 1]>> ELSE p) \in S
    OBVIOUS
  <2>1. CASE p[1] + 1 \in 1 .. n
    <3>1. seqs[p[1] + 1] \in Seq(A) /\ p[2] \in Seq(A) /\ p[1] + 1 \in Nat
      BY <1>1, <2>1
    <3>2. p[2] \o seqs[p[1] + 1] \in Seq(A)
      BY <3>1, ConcatProperties
    <3> QED BY <2>1, <3>1, <3>2
  <2>2. CASE ~(p[1] + 1 \in 1 .. n)
    BY <2>2
  <2> QED BY <2>1, <2>2
<1>4. PICK it \in [Nat -> S] : Iterates(it, F, start)
  <2> HIDE DEF S, F, start
  <2> QED BY <1>2, <1>3, IterationExists
<1> HIDE DEF F, start
<1>5. \A k \in Nat : it[k] \in S /\ it[k + 1] = F[it[k]]
  <2>1. \A k \in Nat : it[k + 1] = F[it[k]]
    BY <1>4, Zenon DEF Iterates
  <2> HIDE DEF S
  <2> QED BY <1>4, <2>1
<1>6. it[0] = <<1, seqs[1]>>
  BY <1>4, Zenon DEF Iterates, start
<1>7. \A p \in S : p[1] + 1 \in 1 .. n => F[p] = <<p[1] + 1, p[2] \o seqs[p[1] + 1]>>
  BY DEF F
<1>8. \A k \in Nat : k < n => it[k][1] = k + 1
  <2> DEFINE T == {k \in Nat : k < n => it[k][1] = k + 1}
  <2>1. 0 \in T
    BY <1>6
  <2>2. ASSUME NEW k \in Nat, k \in T PROVE k + 1 \in T
    <3> SUFFICES ASSUME k + 1 < n PROVE it[k + 1][1] = k + 2
      OBVIOUS
    <3>1. it[k] \in S /\ it[k][1] = k + 1 /\ it[k + 1] = F[it[k]]
      <4>1. k < n
        <5> HIDE DEF S
        <5>1. n \in Nat /\ k \in Nat /\ k + 1 < n
          BY <1>1
        <5> HIDE DEF T, n
        <5> QED BY <5>1
      <4> HIDE DEF S
      <4>2. it[k][1] = k + 1
        BY <2>2, <4>1
      <4> HIDE DEF T
      <4> QED BY <1>5, <4>2
    <3>2. it[k][1] + 1 = k + 2 /\ k + 2 \in 1 .. n
      <4> HIDE DEF n
      <4>1. k + 2 \in 1 .. n
        <5>1. n \in Nat /\ k \in Nat /\ k + 1 < n
          BY <1>1
        <5> HIDE DEF T
        <5> QED BY <5>1
      <4>2. it[k][1] + 1 = k + 2
        <5> DEFINE v == it[k][1]
        <5>1. v = k + 1
          BY <3>1
        <5> HIDE DEF v
        <5>2. v + 1 = k + 2
          BY <5>1
        <5> QED BY <5>2 DEF v
      <4> QED BY <4>1, <4>2
    <3>3. F[it[k]] = <<it[k][1] + 1, it[k][2] \o seqs[it[k][1] + 1]>>
      <4> HIDE DEF S
      <4> QED BY <1>7, <3>1, <3>2
    <3>4. F[it[k]][1] = it[k][1] + 1
      <4> DEFINE it1 == it[k][1] + 1
                 it2 == it[k][2] \o seqs[it[k][1] + 1]
      <4>1. F[it[k]] = <<it1, it2>>
        BY <3>3
      <4> HIDE DEF it1, it2
      <4>2. F[it[k]][1] = it1
        BY <4>1
      <4> QED BY <4>2 DEF it1
    <3> QED BY <3>1, <3>2, <3>4
  <2>3. Nat \subseteq T
    <3> HIDE DEF T
    <3> QED BY <2>1, <2>2, Induction
  <2> QED BY <2>3
<1> DEFINE g == [i \in 1 .. n |-> it[i - 1][2]]
<1>9. \A i \in 1 .. n : g[i] = it[i - 1][2]
  OBVIOUS
<1>10. g = [i \in 1 .. n |-> g[i]]
  OBVIOUS
<1> HIDE DEF g
<1>11. \A i \in 1 .. n : g[i] = Body(g, i)
  <2> TAKE i \in 1 .. n
  <2>1. CASE i = 1
    <3>1. g[1] = it[0][2] /\ it[0][2] = seqs[1]
      <4>1. 1 \in 1 .. n /\ 1 - 1 = 0
        BY <1>1
      <4>2. g[1] = it[0][2]
        <5> HIDE DEF n
        <5>1. g[1] = it[1 - 1][2]
          BY <1>9, <4>1, Zenon
        <5> QED BY <4>1, <5>1, Zenon
      <4> QED BY <1>6, <4>2
    <3> QED BY <2>1, <3>1
  <2>2. CASE i # 1
    <3> DEFINE k == i - 2
    <3>1. k \in Nat /\ i - 1 \in 1 .. n /\ k < n /\ k + 1 = i - 1 /\ (i - 1) - 1 = k
      <4> HIDE DEF n
      <4>1. i \in 1 .. n /\ i # 1 /\ n \in Nat
        BY <1>1, <2>2
      <4>2. i - 2 \in Nat /\ i - 1 \in 1 .. n /\ i - 2 < n /\ (i - 2) + 1 = i - 1 /\ (i - 1) - 1 = i - 2
        BY <4>1
      <4> QED BY <4>2
    <3> HIDE DEF k
    <3>2. it[k] \in S /\ it[k][1] = i - 1 /\ it[i - 1] = F[it[k]]
      <4> HIDE DEF S
      <4> QED BY <1>5, <1>8, <3>1
    <3>3. it[k][1] + 1 \in 1 .. n /\ it[k][1] + 1 = i
      BY <3>1, <3>2
    <3>4. F[it[k]] = <<it[k][1] + 1, it[k][2] \o seqs[it[k][1] + 1]>>
      <4> HIDE DEF S
      <4> QED BY <1>7, <3>2, <3>3
    <3>5. it[i - 1][2] = it[k][2] \o seqs[i]
      <4> DEFINE it2 == it[k][2] \o seqs[i]
      <4>1. it[i - 1] = <<i, it2>>
        BY <3>2, <3>3, <3>4
      <4> HIDE DEF it2
      <4>2. it[i - 1][2] = it2
        BY <4>1
      <4> QED BY <4>2 DEF it2
    <3>6. g[i - 1] = it[k][2] /\ g[i] = it[i - 1][2]
      BY <1>9, <3>1
    <3>7. g[i] = g[i - 1] \o seqs[i]
      BY <3>5, <3>6, Zenon
    <3> QED BY <2>2, <3>7, Zenon
  <2> QED BY <2>1, <2>2
<1> DEFINE Fits(h) == h = [i \in 1 .. n |-> Body(h, i)]
           flat == CHOOSE h : Fits(h)
<1>12. Fits(g)
  <2> HIDE DEF Body
  <2> QED BY <1>10, <1>11
<1>13. Fits(flat)
  <2> HIDE DEF Fits
  <2> QED BY <1>12
<1>14. FlattenSeq(seqs) = flat[n]
  <2>1. Len(seqs) # 0
    BY <1>1
  <2> QED BY <2>1, Zenon DEF FlattenSeq
<1> HIDE DEF flat
<1>15. \A i \in 1 .. n : flat[i] = Body(flat, i)
  <2> HIDE DEF Body
  <2> QED BY <1>13
<1>16. flat[1] = seqs[1] /\ \A i \in 1 .. n - 1 : flat[i + 1] = flat[i] \o seqs[i + 1]
  <2> HIDE DEF n
  <2>1. 1 \in 1 .. n /\ \A i \in 1 .. n - 1 : i + 1 \in 1 .. n /\ i + 1 # 1 /\ (i + 1) - 1 = i
    BY <1>1
  <2>2. flat[1] = seqs[1]
    BY <1>15, <2>1
  <2>3. \A i \in 1 .. n - 1 : flat[i + 1] = flat[(i + 1) - 1] \o seqs[i + 1]
    BY <1>15, <2>1, Zenon
  <2> QED BY <2>1, <2>2, <2>3, Zenon
<1> QED BY <1>14, <1>16 DEF Flattens

(* What is told of several sets of places, one after the other.           *)
LEMMA ToldInTurn ==
  ASSUME NEW value, NEW A, NEW seqs \in Seq(Seq(A)), NEW P,
         \A i \in DOMAIN seqs : Told(value, P[i], seqs[i]),
         \A i, j \in DOMAIN seqs : i # j => P[i] \cap P[j] = {}
  PROVE  Told(value, UNION {P[i] : i \in DOMAIN seqs}, FlattenSeq(seqs))
PROOF
<1> DEFINE n == Len(seqs)
           U(k) == UNION {P[i] : i \in 1 .. k}
<1>1. n \in Nat /\ DOMAIN seqs = 1 .. n
  OBVIOUS
<1>2. CASE n = 0
  <2>1. seqs = <<>> /\ UNION {P[i] : i \in DOMAIN seqs} = {}
    BY <1>1, <1>2
  <2>2. FlattenSeq(seqs) = <<>>
    BY <1>2, <2>1 DEF FlattenSeq
  <2> QED BY <2>1, <2>2, NothingTold
<1>3. CASE n # 0
  <2>1. PICK f : Flattens(f, seqs)
    BY <1>1, <1>3, FlattenSteps
  <2> DEFINE T == {k \in Nat : k \in 1 .. n => Told(value, U(k), f[k])}
  <2>2. 0 \in T
    OBVIOUS
  <2>3. ASSUME NEW k \in Nat, k \in T PROVE k + 1 \in T
    <3> SUFFICES ASSUME k + 1 \in 1 .. n PROVE Told(value, U(k + 1), f[k + 1])
      OBVIOUS
    <3>1. Told(value, P[k + 1], seqs[k + 1])
      BY <1>1
    <3>2. CASE k = 0
      <4>1. U(k + 1) = P[k + 1] /\ f[k + 1] = seqs[k + 1]
        BY <2>1, <3>2 DEF Flattens
      <4> HIDE DEF U
      <4> QED BY <3>1, <4>1
    <3>3. CASE k # 0
      <4>1. k \in 1 .. n - 1 /\ k \in 1 .. n
        BY <1>1, <3>3
      <4>2. Told(value, U(k), f[k])
        BY <2>3, <4>1
      <4>3. f[k + 1] = f[k] \o seqs[k + 1]
        BY <2>1, <4>1 DEF Flattens
      <4>4. U(k + 1) = U(k) \cup P[k + 1]
        <5>1. \A i : i \in 1 .. k + 1 <=> i \in 1 .. k \/ i = k + 1
          OBVIOUS
        <5> QED BY <5>1
      <4>5. U(k) \cap P[k + 1] = {}
        <5>1. \A i \in 1 .. k : i \in DOMAIN seqs /\ k + 1 \in DOMAIN seqs /\ i # k + 1
          BY <1>1
        <5>2. \A i \in 1 .. k : P[i] \cap P[k + 1] = {}
          BY <5>1
        <5> QED BY <5>2
      <4> HIDE DEF U
      <4>6. Told(value, U(k) \cup P[k + 1], f[k] \o seqs[k + 1])
        BY <3>1, <4>2, <4>5, ToldTogether
      <4> QED BY <4>3, <4>4, <4>6
    <3> QED BY <3>2, <3>3
  <2>4. n \in T
    <3> HIDE DEF T
    <3>1. Nat \subseteq T
      BY <2>2, <2>3, Induction
    <3> QED BY <1>1, <3>1
  <2>5. Told(value, U(n), f[n])
    <3> HIDE DEF U
    <3> QED BY <1>1, <1>3, <2>4
  <2> QED BY <1>1, <2>1, <2>5 DEF Flattens
<1> QED BY <1>2, <1>3

(* As many different elements as a finite set may have.                   *)
LEMMA NoMoreThan ==
  ASSUME NEW T, IsFiniteSet(T), NEW n \in Nat, NEW f \in [1 .. n -> T],
         \A i, j \in 1 .. n : f[i] = f[j] => i = j
  PROVE  n <= Cardinality(T)
PROOF
<1>1. f \in Injection(1 .. n, T)
  BY DEF Injection, IsInjective
<1>2. Cardinality(1 .. n) = n
  BY FS_Interval
<1>3. Cardinality(1 .. n) <= Cardinality(T)
  BY <1>1, FS_Injection
<1> QED BY <1>2, <1>3

(* A function that is given by its values at smaller measures exists.     *)
GivenBelow(S, A, m, Phi) ==
  \A g, h \in [S -> A], x \in S :
    (\A y \in S : m[y] < m[x] => g[y] = h[y]) => Phi[g][x] = Phi[h][x]

Lowers(S, A, m, bound, Phi, g0) ==
  /\ m \in [S -> Nat] /\ bound \in Nat /\ \A x \in S : m[x] <= bound
  /\ Phi \in [[S -> A] -> [S -> A]] /\ g0 \in [S -> A]
  /\ GivenBelow(S, A, m, Phi)

HasFixpoint(S, A, Phi) == \E f \in [S -> A] : f = Phi[f]

LEMMA FixpointExists ==
  ASSUME NEW S, NEW A, NEW m, NEW bound, NEW Phi, NEW g0,
         Lowers(S, A, m, bound, Phi, g0)
  PROVE  HasFixpoint(S, A, Phi)
PROOF
<1>0. /\ m \in [S -> Nat] /\ bound \in Nat /\ \A x \in S : m[x] <= bound
      /\ Phi \in [[S -> A] -> [S -> A]] /\ g0 \in [S -> A]
      /\ GivenBelow(S, A, m, Phi)
  BY Zenon DEF Lowers
<1> DEFINE SA == [S -> A]
<1>1. Phi \in [SA -> SA] /\ g0 \in SA
  BY <1>0
<1>2. PICK it \in [Nat -> SA] : Iterates(it, Phi, g0)
  <2> HIDE DEF SA
  <2> QED BY <1>1, IterationExists
<1>3. \A n \in Nat : it[n] \in SA /\ it[n + 1] = Phi[it[n]] /\ it[n + 1] \in SA
  <2>1. \A n \in Nat : n + 1 \in Nat
    OBVIOUS
  <2> HIDE DEF SA
  <2> QED BY <1>2, <2>1, Zenon DEF Iterates
<1> DEFINE T == {n \in Nat : \A x \in S : m[x] < n => it[n][x] = it[n + 1][x]}
<1>4. 0 \in T
  BY <1>0
<1>5. ASSUME NEW n \in Nat, n \in T PROVE n + 1 \in T
  <2> DEFINE k == n + 1
  <2>1. k \in Nat /\ it[k] \in SA /\ it[k + 1] = Phi[it[k]] /\ it[n] \in SA /\ it[k] = Phi[it[n]]
    BY <1>3
  <2>2. ASSUME NEW x \in S, m[x] < k PROVE it[k][x] = it[k + 1][x]
    <3>1. \A y \in S : m[y] < m[x] => it[n][y] = it[k][y]
      <4> SUFFICES ASSUME NEW y \in S, m[y] < m[x] PROVE it[n][y] = it[k][y]
        OBVIOUS
      <4>1. m[y] < n
        <5>1. m[x] \in Nat /\ m[y] \in Nat
          BY <1>0
        <5> QED BY <2>2, <5>1
      <4> QED BY <1>5, <4>1
    <3> HIDE DEF k, T
    <3>2. Phi[it[n]][x] = Phi[it[k]][x]
      BY <1>0, <2>1, <3>1 DEF GivenBelow
    <3> QED BY <2>1, <3>2, Zenon
  <2> QED BY <2>1, <2>2
<1>6. bound + 1 \in T
  <2> HIDE DEF T
  <2>1. Nat \subseteq T
    BY <1>4, <1>5, Induction
  <2> QED BY <1>0, <2>1
<1> DEFINE f == it[bound + 1]
<1>7. f \in SA /\ Phi[f] \in SA /\ it[(bound + 1) + 1] = Phi[f]
  <2>1. bound + 1 \in Nat
    BY <1>0
  <2> HIDE DEF SA, T
  <2> QED BY <1>3, <2>1, Zenon
<1>8. \A x \in S : f[x] = Phi[f][x]
  <2> TAKE x \in S
  <2>1. m[x] < bound + 1
    <3>1. m[x] \in Nat /\ m[x] <= bound
      BY <1>0
    <3> QED BY <1>0, <3>1
  <2>2. it[bound + 1][x] = it[(bound + 1) + 1][x]
    BY <1>0, <1>6, <2>1
  <2> QED BY <1>7, <2>2
<1> HIDE DEF f
<1>9. f \in [S -> A] /\ f = Phi[f]
  BY <1>7, <1>8
<1> QED BY <1>9 DEF HasFixpoint

(* The fields of an object a key names, as text.                          *)
TextFields(value, at, keys) ==
  {p \in DOMAIN value : /\ value[at].node = "object" /\ value[p].node = "text"
                        /\ value[p].key \in keys
                        /\ \E i \in Nat \ {0} : p = Append(at, i)}

Nested(value, at) == {p \in DOMAIN value : \E i \in Nat \ {0} : p = Append(at, i)}

LEMMA PlacesBelow ==
  ASSUME NEW at \in Place, NEW i \in Nat \ {0}
  PROVE  /\ Append(at, i) \in Place /\ Len(Append(at, i)) = Len(at) + 1 /\ Len(at) \in Nat
         /\ Append(at, i)[Len(at) + 1] = i
         /\ \A k \in 1 .. Len(at) : Append(at, i)[k] = at[k]
PROOF
<1> QED BY DEF Place

(* What is in a node lies at numbers without gaps, and is found.          *)
LEMMA NestedAreFound ==
  ASSUME NEW value, IsValue(value), NEW at \in DOMAIN value
  PROVE  /\ Children(value, at) \in Seq(Place) /\ Differ(Children(value, at))
         /\ \A p : Contains(Children(value, at), p) <=> p \in Nested(value, at)
PROOF
<1> DEFINE D == DOMAIN value
           n == Cardinality(D)
           places == [i \in 1 .. n |-> Append(at, i)]
           off == ToSet(places) \ D
<1>1. D \in SUBSET Place /\ IsFiniteSet(D) /\ at \in Place /\ n \in Nat
  <2>1. D \in SUBSET Place /\ IsFiniteSet(D) /\ at \in D
    BY DEF IsValue
  <2> QED BY <2>1, FS_CardinalityType
<1>2. \A i \in Nat \ {0} : Append(at, i) \in Place /\ Append(at, i)[Len(at) + 1] = i
  BY <1>1, PlacesBelow
<1>3. /\ places \in Seq(Place) /\ DOMAIN places = 1 .. n /\ Len(places) = n
      /\ \A i \in 1 .. n : places[i] = Append(at, i) /\ i \in Nat \ {0}
  <2>1. \A i \in 1 .. n : i \in Nat \ {0} /\ Append(at, i) \in Place
    BY <1>1, <1>2
  <2> HIDE DEF n
  <2>2. n \in Nat
    BY <1>1
  <2> QED BY <2>1, <2>2
<1>4. Children(value, at) = Without(places, off)
  BY DEF Children
<1>5. ASSUME NEW i \in Nat \ {0}, Append(at, i) \in D PROVE i \in 1 .. n
  <2> DEFINE T == {k \in Nat : k < i => Append(at, i - k) \in D}
  <2>1. 0 \in T
    BY <1>5
  <2>2. ASSUME NEW k \in Nat, k \in T PROVE k + 1 \in T
    <3> SUFFICES ASSUME k + 1 < i PROVE Append(at, i - (k + 1)) \in D
      OBVIOUS
    <3>1. i - k \in Nat \ {0} /\ i - k > 1 /\ (i - k) - 1 = i - (k + 1) /\ k < i
      OBVIOUS
    <3>2. Append(at, i - k) \in D
      BY <2>2, <3>1
    <3>3. Append(at, (i - k) - 1) \in D
      BY <1>1, <3>1, <3>2, Zenon DEF IsValue
    <3> QED BY <3>1, <3>3
  <2>3. \A k \in Nat : k < i => Append(at, i - k) \in D
    <3>1. Nat \subseteq T
      <4> HIDE DEF T
      <4> QED BY <2>1, <2>2, Induction
    <3> QED BY <3>1
  <2> DEFINE f == [j \in 1 .. i |-> Append(at, j)]
  <2>4. \A j \in 1 .. i : Append(at, j) \in D
    <3> TAKE j \in 1 .. i
    <3>1. i - j \in Nat /\ i - j < i /\ i - (i - j) = j
      OBVIOUS
    <3> HIDE DEF D
    <3> QED BY <2>3, <3>1
  <2>5. f \in [1 .. i -> D] /\ \A j \in 1 .. i : f[j] = Append(at, j)
    BY <2>4
  <2> HIDE DEF f, D, n
  <2>6. \A j, k \in 1 .. i : f[j] = f[k] => j = k
    <3> SUFFICES ASSUME NEW j \in 1 .. i, NEW k \in 1 .. i, f[j] = f[k] PROVE j = k
      OBVIOUS
    <3>1. Append(at, j) = Append(at, k) /\ j \in Nat \ {0} /\ k \in Nat \ {0}
      BY <2>5
    <3> QED BY <1>2, <3>1
  <2>7. i <= Cardinality(D)
    BY <1>1, <2>5, <2>6, NoMoreThan
  <2> QED BY <2>7 DEF n
<1>6. Differ(places)
  <2> SUFFICES ASSUME NEW i \in 1 .. n, NEW j \in 1 .. n, places[i] = places[j] PROVE i = j
    BY <1>3 DEF Differ
  <2> HIDE DEF places, n
  <2>1. Append(at, i) = Append(at, j) /\ i \in Nat \ {0} /\ j \in Nat \ {0}
    BY <1>3
  <2> QED BY <1>2, <2>1
<1> HIDE DEF places
<1>7. /\ Without(places, off) \in Seq(Place) /\ Differ(Without(places, off))
      /\ \A v : Contains(Without(places, off), v) <=> Contains(places, v) /\ v \notin off
  <2> HIDE DEF off
  <2> QED BY <1>3, <1>6, KeptParts, DistinctParts
<1>8. \A v : (Contains(places, v) /\ v \notin off) <=> v \in Nested(value, at)
  <2> TAKE v
  <2>1. Contains(places, v) <=> v \in ToSet(places)
    BY DEF Contains, ToSet
  <2>2. Contains(places, v) <=> \E i \in 1 .. n : v = Append(at, i)
    <3> HIDE DEF n
    <3> QED BY <1>3 DEF Contains
  <2>3. (\E i \in 1 .. n : v = Append(at, i)) /\ v \in D <=> v \in Nested(value, at)
    <3>1. ASSUME v \in Nested(value, at) PROVE v \in D /\ \E i \in 1 .. n : v = Append(at, i)
      <4>1. PICK i \in Nat \ {0} : v = Append(at, i) /\ v \in D
        BY <3>1 DEF Nested
      <4>2. i \in 1 .. n
        BY <1>5, <4>1
      <4> QED BY <4>1, <4>2
    <3>2. ASSUME NEW i \in 1 .. n, v = Append(at, i), v \in D PROVE v \in Nested(value, at)
      <4>1. i \in Nat \ {0}
        BY <1>3
      <4> QED BY <3>2, <4>1 DEF Nested
    <3> QED BY <3>1, <3>2
  <2> QED BY <2>1, <2>2, <2>3
<1> QED BY <1>4, <1>7, <1>8

LEMMA FlattenIn ==
  ASSUME NEW A, NEW seqs \in Seq(Seq(A))
  PROVE  FlattenSeq(seqs) \in Seq(A)
PROOF
<1> DEFINE n == Len(seqs)
<1>1. n \in Nat /\ \A i \in 1 .. n : seqs[i] \in Seq(A)
  OBVIOUS
<1>2. CASE n = 0
  <2>1. Len(seqs) = 0 /\ seqs \in Seq(A)
    BY <1>2
  <2> QED BY <2>1, Zenon DEF FlattenSeq
<1>3. CASE n # 0
  <2>1. PICK f : Flattens(f, seqs)
    BY <1>1, <1>3, FlattenSteps
  <2> DEFINE T == {k \in Nat : k + 1 \in 1 .. n => f[k + 1] \in Seq(A)}
  <2>2. 0 \in T
    BY <1>1, <2>1 DEF Flattens
  <2>3. ASSUME NEW k \in Nat, k \in T PROVE k + 1 \in T
    <3> SUFFICES ASSUME (k + 1) + 1 \in 1 .. n PROVE f[(k + 1) + 1] \in Seq(A)
      OBVIOUS
    <3>1. k + 1 \in 1 .. n /\ k + 1 \in 1 .. n - 1
      BY <1>1
    <3>2. f[k + 1] \in Seq(A) /\ f[(k + 1) + 1] = f[k + 1] \o seqs[(k + 1) + 1]
      BY <2>1, <2>3, <3>1 DEF Flattens
    <3>3. f[k + 1] \o seqs[(k + 1) + 1] \in Seq(A)
      BY <1>1, <3>2, ConcatProperties
    <3> QED BY <3>2, <3>3
  <2>4. Nat \subseteq T
    <3> HIDE DEF T
    <3> QED BY <2>2, <2>3, Induction
  <2>5. n - 1 \in Nat /\ (n - 1) + 1 = n /\ n \in 1 .. n
    BY <1>1, <1>3
  <2>6. f[n] \in Seq(A)
    BY <2>4, <2>5
  <2> QED BY <2>1, <2>6 DEF Flattens
<1> QED BY <1>2, <1>3

(* Each text field of an object is read, once.                            *)
LEMMA FieldsAreRead ==
  ASSUME NEW value, IsValue(value), NEW at \in DOMAIN value, NEW key
  PROVE  Told(value, TextFields(value, at, {key}), TextField(value, at, key))
PROOF
<1> DEFINE Other(place) == value[place].key # key \/ value[place].node # "text"
           nested == Children(value, at)
           off == {place \in ToSet(nested) : Other(place)}
           found == Without(nested, off)
           P == TextFields(value, at, {key})
<1>1. CASE value[at].node # "object"
  <2>1. TextField(value, at, key) = <<>>
    BY <1>1, Zenon DEF TextField
  <2>2. P = {}
    BY <1>1 DEF TextFields
  <2> QED BY <2>1, <2>2, NothingTold
<1>2. CASE value[at].node = "object"
  <2>1. TextField(value, at, key) = [i \in DOMAIN found |-> value[found[i]].text]
    BY <1>2, Zenon DEF TextField
  <2>2. /\ nested \in Seq(Place) /\ Differ(nested)
        /\ \A p : Contains(nested, p) <=> p \in Nested(value, at)
    BY NestedAreFound
  <2>3. \A p : Contains(nested, p) <=> p \in ToSet(nested)
    BY DEF Contains, ToSet
  <2> HIDE DEF nested
  <2>4. /\ found \in Seq(Place) /\ Differ(found)
        /\ \A v : Contains(found, v) <=> Contains(nested, v) /\ v \notin off
    <3> HIDE DEF off
    <3> QED BY <2>2, KeptParts, DistinctParts
  <2> HIDE DEF found
  <2>5. \A p : Contains(found, p) <=> p \in P
    <3> TAKE p
    <3>1. Contains(found, p) <=> p \in Nested(value, at) /\ ~Other(p)
      BY <2>2, <2>3, <2>4
    <3>2. p \in P <=> p \in Nested(value, at) /\ ~Other(p)
      BY <1>2 DEF TextFields, Nested
    <3> QED BY <3>1, <3>2
  <2>6. found \in Seq(P)
    <3>1. \A i \in 1 .. Len(found) : Contains(found, found[i])
      BY DEF Contains
    <3>2. \A i \in 1 .. Len(found) : found[i] \in P
      BY <2>5, <3>1
    <3> HIDE DEF P
    <3> QED BY <2>4, <3>2
  <2>7. \E s \in Seq(P) :
          /\ Differ(s) /\ \A p \in P : Contains(s, p)
          /\ [i \in DOMAIN found |-> value[found[i]].text] = [i \in DOMAIN s |-> value[s[i]].text]
    <3> HIDE DEF P
    <3> QED BY <2>4, <2>5, <2>6
  <2> HIDE DEF P
  <2>8. Told(value, P, [i \in DOMAIN found |-> value[found[i]].text])
    BY <2>7, Zenon DEF Told
  <2> QED BY <2>1, <2>8, Zenon DEF P
<1> QED BY <1>1, <1>2

(* What is told is told in texts of the value.                            *)
LEMMA ToldTexts ==
  ASSUME NEW value, NEW P \in SUBSET DOMAIN value, NEW texts, Told(value, P, texts)
  PROVE  texts \in Seq({value[p].text : p \in DOMAIN value})
PROOF
<1> DEFINE A == {value[p].text : p \in DOMAIN value}
<1>1. PICK s \in Seq(P) : texts = [i \in DOMAIN s |-> value[s[i]].text]
  BY DEF Told
<1>2. Len(s) \in Nat /\ DOMAIN s = 1 .. Len(s) /\ \A i \in 1 .. Len(s) : s[i] \in P
  OBVIOUS
<1>3. \A i \in 1 .. Len(s) : value[s[i]].text \in A
  BY <1>2
<1> HIDE DEF A
<1>4. texts = [i \in 1 .. Len(s) |-> value[s[i]].text]
  BY <1>1, <1>2
<1>5. texts \in Seq(A)
  BY <1>2, <1>3, <1>4
<1> QED BY <1>5 DEF A

(* A place lies in the places above it, and those are places of the value.*)
LEMMA PlacesAbove ==
  ASSUME NEW value, IsValue(value), NEW p \in DOMAIN value, NEW n \in 0 .. Len(p)
  PROVE  SubSeq(p, 1, n) \in DOMAIN value
PROOF
<1> DEFINE L == Len(p)
           T == {k \in Nat : k <= L => SubSeq(p, 1, L - k) \in DOMAIN value}
<1>1. p \in Seq(Nat \ {0}) /\ L \in Nat /\ DOMAIN value \in SUBSET Place
  BY DEF IsValue, Place
<1>2. 0 \in T
  <2>1. SubSeq(p, 1, L) = p
    BY <1>1
  <2>2. L - 0 = L
    BY <1>1
  <2> QED BY <2>1, <2>2
<1>3. ASSUME NEW k \in Nat, k \in T PROVE k + 1 \in T
  <2> SUFFICES ASSUME k + 1 <= L PROVE SubSeq(p, 1, L - (k + 1)) \in DOMAIN value
    OBVIOUS
  <2> DEFINE j == L - (k + 1)
             i == p[j + 1]
  <2>1. j \in Nat /\ j + 1 = L - k /\ j + 1 \in 1 .. L /\ k <= L
    BY <1>1
  <2>2. SubSeq(p, 1, j + 1) \in DOMAIN value
    BY <1>3, <2>1
  <2> HIDE DEF j
  <2>3. i \in Nat \ {0} /\ SubSeq(p, 1, j) \in Place
    BY <1>1, <2>1 DEF Place
  <2>4. SubSeq(p, 1, j + 1) = Append(SubSeq(p, 1, j), i)
    BY <1>1, <2>1
  <2> HIDE DEF i
  <2>5. SubSeq(p, 1, j) \in DOMAIN value
    <3> DEFINE q == SubSeq(p, 1, j)
    <3>1. q \in Place /\ Append(q, i) \in DOMAIN value
      BY <2>2, <2>3, <2>4
    <3> HIDE DEF q
    <3>2. q \in DOMAIN value
      BY <2>3, <3>1, Zenon DEF IsValue
    <3> QED BY <3>2 DEF q
  <2> QED BY <2>5 DEF j
<1>4. L - n \in Nat /\ L - n <= L /\ L - (L - n) = n
  BY <1>1
<1>5. Nat \subseteq T
  <2> HIDE DEF T
  <2> QED BY <1>2, <1>3, Induction
<1>6. L - n \in T
  <2> HIDE DEF T
  <2> QED BY <1>4, <1>5
<1>7. SubSeq(p, 1, L - (L - n)) \in DOMAIN value
  BY <1>4, <1>6
<1> QED BY <1>4, <1>7

LEMMA PlacesAreBounded ==
  ASSUME NEW value, IsValue(value), NEW p \in DOMAIN value
  PROVE  Len(p) \in Nat /\ Len(p) <= Cardinality(DOMAIN value)
PROOF
<1> DEFINE L == Len(p)
           f == [k \in 1 .. L |-> SubSeq(p, 1, k)]
<1>1. p \in Seq(Nat \ {0}) /\ L \in Nat /\ IsFiniteSet(DOMAIN value)
  BY DEF IsValue, Place
<1>2. \A k \in 1 .. L : SubSeq(p, 1, k) \in DOMAIN value /\ Len(SubSeq(p, 1, k)) = k
  <2> TAKE k \in 1 .. L
  <2>1. k \in 0 .. Len(p)
    BY <1>1
  <2>2. SubSeq(p, 1, k) \in DOMAIN value
    BY <2>1, PlacesAbove
  <2> QED BY <1>1, <2>1, <2>2
<1>3. f \in [1 .. L -> DOMAIN value] /\ \A k \in 1 .. L : Len(f[k]) = k
  BY <1>2
<1> HIDE DEF f, L
<1>4. \A i, j \in 1 .. L : f[i] = f[j] => i = j
  BY <1>3
<1>5. L <= Cardinality(DOMAIN value)
  BY <1>1, <1>3, <1>4, NoMoreThan
<1> QED BY <1>1, <1>5 DEF L

(* What collect_command_events takes of one value itself, and of the ones *)
(* in it when it takes h of them.                                         *)
OwnTexts(value, at) ==
  IF InCommandEvent(value, at)
  THEN TextField(value, at, "command") \o TextField(value, at, "cmd") ELSE <<>>

TextsBelow(value, h, at) ==
  FlattenSeq([i \in DOMAIN Children(value, at) |-> h[Children(value, at)[i]]])

Collects(value, h) ==
  h = [at \in DOMAIN value |-> OwnTexts(value, at) \o TextsBelow(value, h, at)]

LEMMA OwnTextsAreTexts ==
  ASSUME NEW value, IsValue(value), NEW at \in DOMAIN value
  PROVE  OwnTexts(value, at) \in Seq({value[p].text : p \in DOMAIN value})
PROOF
<1> DEFINE A == {value[p].text : p \in DOMAIN value}
           one == TextField(value, at, "command")
           other == TextField(value, at, "cmd")
<1>1. one \in Seq(A)
  <2>1. TextFields(value, at, {"command"}) \in SUBSET DOMAIN value
    BY DEF TextFields
  <2> QED BY <2>1, FieldsAreRead, ToldTexts
<1>2. other \in Seq(A)
  <2>1. TextFields(value, at, {"cmd"}) \in SUBSET DOMAIN value
    BY DEF TextFields
  <2> QED BY <2>1, FieldsAreRead, ToldTexts
<1> HIDE DEF one, other, A
<1>3. one \o other \in Seq(A) /\ <<>> \in Seq(A)
  BY <1>1, <1>2, ConcatProperties
<1>4. OwnTexts(value, at) \in Seq(A)
  BY <1>3, Zenon DEF OwnTexts, one, other
<1> QED BY <1>4 DEF A

LEMMA CollectionsExist ==
  ASSUME NEW value, IsValue(value)
  PROVE  \E h : Collects(value, h)
PROOF
<1> DEFINE D == DOMAIN value
           A == {value[p].text : p \in D}
           bound == Cardinality(D)
           m == [at \in D |-> bound - Len(at)]
           Body(h, at) == OwnTexts(value, at) \o TextsBelow(value, h, at)
           H == [D -> Seq(A)]
           Phi == [h \in H |-> [at \in D |-> Body(h, at)]]
           g0 == [at \in D |-> <<>>]
<1>1. bound \in Nat /\ D \in SUBSET Place
  <2>1. IsFiniteSet(D) /\ D \in SUBSET Place
    BY DEF IsValue
  <2> QED BY <2>1, FS_CardinalityType
<1>2. \A at \in D : Len(at) \in Nat /\ Len(at) <= bound
  BY PlacesAreBounded
<1>3. m \in [D -> Nat] /\ \A at \in D : m[at] = bound - Len(at) /\ m[at] <= bound
  <2> HIDE DEF bound, D
  <2> QED BY <1>1, <1>2
<1>4. ASSUME NEW at \in D
      PROVE  /\ Children(value, at) \in Seq(Place)
             /\ \A i \in DOMAIN Children(value, at) :
                  Children(value, at)[i] \in D /\ m[Children(value, at)[i]] < m[at]
  <2> DEFINE nested == Children(value, at)
  <2>1. nested \in Seq(Place) /\ \A p : Contains(nested, p) <=> p \in Nested(value, at)
    BY <1>4, NestedAreFound
  <2> HIDE DEF nested, m
  <2>2. ASSUME NEW i \in DOMAIN nested PROVE nested[i] \in D /\ m[nested[i]] < m[at]
    <3>1. nested[i] \in Nested(value, at)
      BY <2>1 DEF Contains
    <3>2. PICK j \in Nat \ {0} : nested[i] \in D /\ nested[i] = Append(at, j)
      BY <3>1 DEF Nested
    <3>3. Len(nested[i]) = Len(at) + 1
      BY <1>1, <1>4, <3>2, PlacesBelow
    <3> HIDE DEF D, bound
    <3>4. Len(nested[i]) \in Nat /\ Len(at) \in Nat /\ m[nested[i]] = bound - Len(nested[i]) /\ m[at] = bound - Len(at)
      BY <1>2, <1>3, <1>4, <3>2
    <3> QED BY <1>1, <3>2, <3>3, <3>4
  <2> QED BY <2>1, <2>2 DEF nested
<1>5. ASSUME NEW h \in H, NEW at \in D PROVE Body(h, at) \in Seq(A)
  <2> DEFINE nested == Children(value, at)
             texts == [i \in DOMAIN nested |-> h[nested[i]]]
  <2>1. nested \in Seq(Place) /\ \A i \in DOMAIN nested : nested[i] \in D
    BY <1>4, <1>5
  <2> HIDE DEF nested, A, D
  <2>2. texts \in Seq(Seq(A))
    <3>1. Len(nested) \in Nat /\ DOMAIN nested = 1 .. Len(nested) /\ \A i \in DOMAIN nested : h[nested[i]] \in Seq(A)
      BY <1>5, <2>1
    <3> QED BY <3>1
  <2> HIDE DEF texts
  <2>3. FlattenSeq(texts) \in Seq(A)
    BY <2>2, FlattenIn
  <2>4. TextsBelow(value, h, at) \in Seq(A)
    BY <2>3, Zenon DEF TextsBelow, texts, nested
  <2>5. OwnTexts(value, at) \in Seq(A)
    BY <1>5, OwnTextsAreTexts DEF A, D
  <2> QED BY <2>4, <2>5, ConcatProperties
<1>6. ASSUME NEW g \in H, NEW h \in H, NEW at \in D,
             \A p \in D : m[p] < m[at] => g[p] = h[p]
      PROVE  Body(g, at) = Body(h, at)
  <2> DEFINE nested == Children(value, at)
  <2>1. \A i \in DOMAIN nested : g[nested[i]] = h[nested[i]]
    BY <1>4, <1>6
  <2> HIDE DEF nested, m, H, D
  <2>2. [i \in DOMAIN nested |-> g[nested[i]]] = [i \in DOMAIN nested |-> h[nested[i]]]
    BY <2>1, Zenon
  <2>3. TextsBelow(value, g, at) = TextsBelow(value, h, at)
    BY <2>2, Zenon DEF TextsBelow, nested
  <2> QED BY <2>3, Zenon
<1> HIDE DEF Body, m, A, D, bound
<1>7. Phi \in [H -> H]
  <2> SUFFICES ASSUME NEW h \in H PROVE [at \in D |-> Body(h, at)] \in H
    OBVIOUS
  <2>1. \A at \in D : Body(h, at) \in Seq(A)
    BY <1>5
  <2> HIDE DEF Phi, g0
  <2> QED BY <2>1
<1>8. \A h \in H, at \in D : Phi[h][at] = Body(h, at)
  OBVIOUS
<1>9. \A h \in H : Phi[h] = [at \in D |-> Body(h, at)]
  OBVIOUS
<1>10. g0 \in H
  <2>1. <<>> \in Seq(A)
    OBVIOUS
  <2> QED BY <2>1
<1> HIDE DEF Phi, g0
<1>11. \A g, h \in H, at \in D :
         (\A p \in D : m[p] < m[at] => g[p] = h[p]) => Phi[g][at] = Phi[h][at]
  <2> HIDE DEF H
  <2> SUFFICES ASSUME NEW g \in H, NEW h \in H, NEW at \in D,
                      \A p \in D : m[p] < m[at] => g[p] = h[p]
               PROVE  Phi[g][at] = Phi[h][at]
    BY Zenon
  <2>1. Body(g, at) = Body(h, at)
    BY <1>6
  <2>2. Phi[g][at] = Body(g, at) /\ Phi[h][at] = Body(h, at)
    BY <1>8, Zenon
  <2> QED BY <2>1, <2>2, Zenon
<1>12. \E f \in H : f = Phi[f]
  <2>1. \A at \in D : m[at] <= bound
    BY <1>3
  <2> DEFINE B == Seq(A)
  <2>2. /\ m \in [D -> Nat] /\ bound \in Nat
        /\ Phi \in [[D -> B] -> [D -> B]] /\ g0 \in [D -> B]
    BY <1>1, <1>3, <1>7, <1>10, Zenon
  <2>3. GivenBelow(D, B, m, Phi)
    BY <1>11, Zenon DEF GivenBelow
  <2> HIDE DEF B
  <2>4. Lowers(D, B, m, bound, Phi, g0)
    BY <2>1, <2>2, <2>3, Zenon DEF Lowers
  <2>5. \E f \in [D -> B] : f = Phi[f]
    <3>1. HasFixpoint(D, B, Phi)
      BY <2>4, FixpointExists, Zenon
    <3> QED BY <3>1, Zenon DEF HasFixpoint
  <2> QED BY <2>5 DEF B
<1>13. PICK f \in H : f = Phi[f]
  BY <1>12
<1>14. f = [at \in D |-> Body(f, at)]
  BY <1>9, <1>13
<1>15. Collects(value, f)
  BY <1>14, Zenon DEF Collects, Body, D
<1> QED BY <1>15

LEMMA CollectedIs ==
  ASSUME NEW value, IsValue(value)
  PROVE  \E h : Collects(value, h) /\ CollectCommandEvents(value) = h[<<>>]
PROOF
<1> DEFINE h == CHOOSE f : Collects(value, f)
<1>1. Collects(value, h)
  BY CollectionsExist
<1>2. CollectCommandEvents(value) = h[<<>>]
  BY Zenon DEF CollectCommandEvents, Collects, OwnTexts, TextsBelow
<1> HIDE DEF h
<1> QED BY <1>1, <1>2

(* The fields that say what an agent ran: "command" and "cmd" of each     *)
(* object that is a command event or lies in one.                         *)
CommandFields(value) ==
  UNION {TextFields(value, at, {"command", "cmd"}) :
           at \in {a \in DOMAIN value : InCommandEvent(value, a)}}

FieldsBelow(value, at) ==
  {p \in CommandFields(value) : Len(p) > Len(at) /\ \A k \in 1 .. Len(at) : p[k] = at[k]}

OwnFields(value, at) ==
  IF InCommandEvent(value, at) THEN TextFields(value, at, {"command", "cmd"}) ELSE {}

LEMMA OwnAreTold ==
  ASSUME NEW value, IsValue(value), NEW at \in DOMAIN value
  PROVE  Told(value, OwnFields(value, at), OwnTexts(value, at))
PROOF
<1> DEFINE one == TextFields(value, at, {"command"})
           other == TextFields(value, at, {"cmd"})
<1>1. CASE InCommandEvent(value, at)
  <2>1. one \cap other = {}
    BY DEF TextFields
  <2>2. TextFields(value, at, {"command", "cmd"}) = one \cup other
    BY DEF TextFields
  <2>3. /\ Told(value, one, TextField(value, at, "command"))
        /\ Told(value, other, TextField(value, at, "cmd"))
    BY FieldsAreRead
  <2> HIDE DEF one, other
  <2>4. Told(value, one \cup other, TextField(value, at, "command") \o TextField(value, at, "cmd"))
    BY <2>1, <2>3, ToldTogether
  <2> QED BY <1>1, <2>2, <2>4, Zenon DEF OwnFields, OwnTexts
<1>2. CASE ~InCommandEvent(value, at)
  <2>1. OwnFields(value, at) = {} /\ OwnTexts(value, at) = <<>>
    BY <1>2, Zenon DEF OwnFields, OwnTexts
  <2> QED BY <2>1, NothingTold
<1> QED BY <1>1, <1>2

LEMMA FieldsAreBelow ==
  ASSUME NEW value, IsValue(value), NEW at \in DOMAIN value
  PROVE  /\ FieldsBelow(value, at) =
              OwnFields(value, at) \cup UNION {FieldsBelow(value, c) : c \in Nested(value, at)}
         /\ \A c \in Nested(value, at) : OwnFields(value, at) \cap FieldsBelow(value, c) = {}
         /\ \A c, d \in Nested(value, at) : c # d => FieldsBelow(value, c) \cap FieldsBelow(value, d) = {}
PROOF
<1> DEFINE L == Len(at)
           Keys == {"command", "cmd"}
<1>1. /\ DOMAIN value \in SUBSET Place /\ at \in Place /\ L \in Nat /\ at \in Seq(Nat \ {0})
  <2>1. DOMAIN value \in SUBSET Place
    BY DEF IsValue
  <2> QED BY <2>1 DEF Place
<1>2. ASSUME NEW q \in DOMAIN value, NEW i \in Nat \ {0}
      PROVE  /\ Append(q, i) \in Place /\ Len(q) \in Nat /\ Len(Append(q, i)) = Len(q) + 1
             /\ Append(q, i)[Len(q) + 1] = i
             /\ \A k \in 1 .. Len(q) : Append(q, i)[k] = q[k]
  <2>1. q \in Place
    BY <1>1
  <2> QED BY <2>1, PlacesBelow
<1>3. ASSUME NEW c \in Nested(value, at)
      PROVE  /\ c \in DOMAIN value /\ Len(c) = L + 1 /\ c[L + 1] \in Nat \ {0}
             /\ c = Append(at, c[L + 1]) /\ \A k \in 1 .. L : c[k] = at[k]
  <2>1. PICK i \in Nat \ {0} : c \in DOMAIN value /\ c = Append(at, i)
    BY <1>3 DEF Nested
  <2> QED BY <1>2, <2>1
<1>4. ASSUME NEW p \in OwnFields(value, at)
      PROVE  p \in FieldsBelow(value, at) /\ Len(p) = L + 1
  <2>1. InCommandEvent(value, at) /\ p \in TextFields(value, at, Keys)
    BY <1>4, Zenon DEF OwnFields
  <2>2. PICK i \in Nat \ {0} : p = Append(at, i)
    BY <2>1, Zenon DEF TextFields
  <2>3. p \in CommandFields(value)
    BY <2>1, Zenon DEF CommandFields
  <2>4. Len(p) = L + 1 /\ \A k \in 1 .. L : p[k] = at[k]
    BY <1>2, <2>2
  <2>5. Len(p) > L
    BY <1>1, <2>4
  <2> QED BY <2>3, <2>4, <2>5 DEF FieldsBelow
<1>5. ASSUME NEW c \in Nested(value, at), NEW p \in FieldsBelow(value, c)
      PROVE  p \in FieldsBelow(value, at) /\ Len(p) > L + 1 /\ p[L + 1] = c[L + 1]
  <2>1. p \in CommandFields(value) /\ Len(p) > Len(c) /\ \A k \in 1 .. Len(c) : p[k] = c[k]
    BY <1>5 DEF FieldsBelow
  <2>2. Len(c) = L + 1 /\ \A k \in 1 .. L : c[k] = at[k]
    BY <1>3
  <2>3. \A k \in 1 .. L : k \in 1 .. L + 1
    BY <1>1
  <2>4. L + 1 \in 1 .. L + 1
    BY <1>1
  <2>5. p[L + 1] = c[L + 1] /\ \A k \in 1 .. L : p[k] = at[k]
    <3> HIDE DEF L
    <3> QED BY <2>1, <2>2, <2>3, <2>4, Zenon
  <2>6. Len(p) \in Nat
    <3>1. PICK q \in DOMAIN value : p \in TextFields(value, q, Keys)
      BY <2>1 DEF CommandFields
    <3>2. p \in Place
      BY <1>1, <3>1 DEF TextFields
    <3> QED BY <3>2 DEF Place
  <2>7. Len(p) > L + 1 /\ Len(p) > L
    <3> HIDE DEF L
    <3> QED BY <1>1, <2>1, <2>2, <2>6
  <2> QED BY <2>1, <2>5, <2>7 DEF FieldsBelow
<1>6. ASSUME NEW p \in FieldsBelow(value, at)
      PROVE  \/ p \in OwnFields(value, at)
             \/ \E c \in Nested(value, at) : p \in FieldsBelow(value, c)
  <2>1. p \in CommandFields(value) /\ Len(p) > L /\ \A k \in 1 .. L : p[k] = at[k]
    BY <1>6 DEF FieldsBelow
  <2>2. PICK q \in DOMAIN value : InCommandEvent(value, q) /\ p \in TextFields(value, q, Keys)
    BY <2>1 DEF CommandFields
  <2>3. PICK i \in Nat \ {0} : p = Append(q, i) /\ p \in DOMAIN value
    BY <2>2 DEF TextFields
  <2>4. /\ p \in Seq(Nat \ {0}) /\ q \in Seq(Nat \ {0}) /\ Len(p) \in Nat /\ Len(q) \in Nat
        /\ Len(p) = Len(q) + 1 /\ \A k \in 1 .. Len(q) : p[k] = q[k]
    <3>1. p \in Seq(Nat \ {0}) /\ q \in Seq(Nat \ {0})
      BY <1>1, <2>3 DEF Place
    <3>2. Len(p) \in Nat
      BY <3>1
    <3> QED BY <1>2, <2>3, <3>1, <3>2
  <2>5. CASE Len(q) = L
    <3>1. \A k \in 1 .. Len(q) : q[k] = at[k]
      BY <2>1, <2>4, <2>5
    <3>2. q = at
      BY <1>1, <2>4, <2>5, <3>1, SameSequence
    <3>3. p \in OwnFields(value, at)
      BY <2>2, <3>2, Zenon DEF OwnFields
    <3> QED BY <3>3
  <2>6. CASE Len(q) # L
    <3> DEFINE c == SubSeq(p, 1, L + 1)
    <3>1. L + 1 \in 0 .. Len(p) /\ L + 1 \in 1 .. Len(p) /\ Len(p) > L + 1
      BY <1>1, <2>1, <2>4, <2>6
    <3>2. c \in DOMAIN value
      BY <2>3, <3>1, PlacesAbove
    <3>3. c \in Seq(Nat \ {0}) /\ Len(c) = L + 1 /\ (\A k \in 1 .. L + 1 : c[k] = p[k]) /\ p[L + 1] \in Nat \ {0}
      BY <1>1, <2>4, <3>1
    <3> HIDE DEF c
    <3>4. c = Append(at, p[L + 1])
      <4> DEFINE j == p[L + 1]
                 d == Append(at, j)
      <4>1. j \in Nat \ {0} /\ c[L + 1] = j
        BY <1>1, <3>3
      <4> HIDE DEF j
      <4>2. d \in Seq(Nat \ {0}) /\ Len(d) = L + 1 /\ d[L + 1] = j /\ \A k \in 1 .. L : d[k] = at[k]
        BY <1>1, <4>1
      <4> HIDE DEF d
      <4>3. \A k \in 1 .. L + 1 : c[k] = d[k]
        <5> TAKE k \in 1 .. L + 1
        <5>1. CASE k = L + 1
          BY <4>1, <4>2, <5>1
        <5>2. CASE k # L + 1
          <6>1. k \in 1 .. L
            BY <1>1, <5>2
          <6> QED BY <2>1, <3>3, <4>2, <6>1
        <5> QED BY <5>1, <5>2
      <4>4. c = d
        <5> HIDE DEF L
        <5> QED BY <3>3, <4>2, <4>3, SameSequence
      <4> QED BY <4>4 DEF d, j
    <3>5. c \in Nested(value, at)
      BY <3>2, <3>3, <3>4 DEF Nested
    <3>6. Len(p) > Len(c) /\ \A k \in 1 .. Len(c) : p[k] = c[k]
      BY <3>1, <3>3
    <3>7. p \in FieldsBelow(value, c)
      BY <2>1, <3>6 DEF FieldsBelow
    <3> QED BY <3>5, <3>7
  <2> QED BY <2>5, <2>6
<1> HIDE DEF L, Keys
<1>7. FieldsBelow(value, at) =
        OwnFields(value, at) \cup UNION {FieldsBelow(value, c) : c \in Nested(value, at)}
  BY <1>4, <1>5, <1>6
<1>8. \A c \in Nested(value, at) : OwnFields(value, at) \cap FieldsBelow(value, c) = {}
  <2> SUFFICES ASSUME NEW c \in Nested(value, at), NEW p \in OwnFields(value, at),
                      p \in FieldsBelow(value, c)
               PROVE  FALSE
    OBVIOUS
  <2>1. Len(p) = L + 1 /\ Len(p) > L + 1
    BY <1>4, <1>5
  <2> QED BY <1>1, <2>1
<1>9. ASSUME NEW c \in Nested(value, at), NEW d \in Nested(value, at), c # d
      PROVE  FieldsBelow(value, c) \cap FieldsBelow(value, d) = {}
  <2> SUFFICES ASSUME NEW p \in FieldsBelow(value, c), p \in FieldsBelow(value, d)
               PROVE  FALSE
    OBVIOUS
  <2>1. p[L + 1] = c[L + 1] /\ p[L + 1] = d[L + 1]
    BY <1>5, <1>9
  <2>2. c = Append(at, c[L + 1]) /\ d = Append(at, d[L + 1])
    BY <1>3, <1>9
  <2> QED BY <1>9, <2>1, <2>2, Zenon
<1> QED BY <1>7, <1>8, <1>9

(* What collect_command_events finds in a value (audit.rs 124-156) is the *)
(* text of every "command" and "cmd" field of every command event in it   *)
(* and of what lies in one, however deep, and each of them once.          *)
THEOREM EventsAreHeard ==
  ASSUME NEW value, IsValue(value)
  PROVE  Told(value, CommandFields(value), CollectCommandEvents(value))
PROOF
<1> DEFINE D == DOMAIN value
           A == {value[p].text : p \in D}
           bound == Cardinality(D)
           m == [at \in D |-> bound - Len(at)]
<1>1. D \in SUBSET Place /\ <<>> \in D /\ bound \in Nat
  <2>1. IsFiniteSet(D) /\ D \in SUBSET Place /\ <<>> \in D
    BY DEF IsValue
  <2> QED BY <2>1, FS_CardinalityType
<1>2. m \in [D -> Nat] /\ \A at \in D : m[at] = bound - Len(at) /\ Len(at) \in Nat
  <2>1. \A at \in D : Len(at) \in Nat /\ Len(at) <= bound
    BY PlacesAreBounded
  <2> HIDE DEF bound, D
  <2> QED BY <1>1, <2>1
<1> HIDE DEF m
<1>3. PICK h : Collects(value, h) /\ CollectCommandEvents(value) = h[<<>>]
  BY CollectedIs
<1>4. \A at \in D : h[at] = OwnTexts(value, at) \o TextsBelow(value, h, at)
  <2>1. h = [at \in D |-> OwnTexts(value, at) \o TextsBelow(value, h, at)]
    BY <1>3, Zenon DEF Collects
  <2> HIDE DEF D
  <2> QED BY <2>1, Zenon
<1> DEFINE T == {at \in D : Told(value, FieldsBelow(value, at), h[at])}
<1>5. ASSUME NEW at \in D, \A c \in D : m[c] < m[at] => c \in T
      PROVE  at \in T
  <2> DEFINE nested == Children(value, at)
             seqs == [i \in DOMAIN nested |-> h[nested[i]]]
             P == [i \in DOMAIN nested |-> FieldsBelow(value, nested[i])]
  <2>1. nested \in Seq(Place) /\ Differ(nested)
        /\ \A p : Contains(nested, p) <=> p \in Nested(value, at)
    BY <1>5, NestedAreFound
  <2> HIDE DEF nested
  <2>2. Len(nested) \in Nat /\ DOMAIN nested = 1 .. Len(nested)
        /\ \A i \in DOMAIN nested : nested[i] \in Nested(value, at)
    BY <2>1 DEF Contains
  <2>3. \A c \in Nested(value, at) : c \in D /\ Told(value, FieldsBelow(value, c), h[c])
    <3> SUFFICES ASSUME NEW c \in Nested(value, at)
                 PROVE  c \in D /\ Told(value, FieldsBelow(value, c), h[c])
      OBVIOUS
    <3>1. PICK j \in Nat \ {0} : c \in D /\ c = Append(at, j)
      BY DEF Nested
    <3>2. Len(c) = Len(at) + 1
      BY <1>1, <1>5, <3>1, PlacesBelow
    <3>3. m[c] < m[at]
      <4>1. m[c] = bound - Len(c) /\ m[at] = bound - Len(at) /\ Len(c) \in Nat /\ Len(at) \in Nat
        BY <1>2, <1>5, <3>1
      <4> HIDE DEF bound
      <4> QED BY <1>1, <3>2, <4>1
    <3>4. c \in T
      BY <1>5, <3>1, <3>3
    <3> QED BY <3>1, <3>4
  <2>4. \A i \in DOMAIN nested : /\ P[i] = FieldsBelow(value, nested[i]) /\ seqs[i] = h[nested[i]]
                                 /\ Told(value, P[i], seqs[i])
    BY <2>2, <2>3
  <2>5. seqs \in Seq(Seq(A)) /\ DOMAIN seqs = DOMAIN nested
    <3>1. \A c \in Nested(value, at) : FieldsBelow(value, c) \in SUBSET D
      BY DEF FieldsBelow, CommandFields, TextFields
    <3>2. \A c \in Nested(value, at) : h[c] \in Seq(A)
      BY <2>3, <3>1, ToldTexts
    <3> HIDE DEF A
    <3>3. \A i \in DOMAIN nested : h[nested[i]] \in Seq(A)
      BY <2>2, <3>2
    <3> QED BY <2>2, <3>3
  <2>6. TextsBelow(value, h, at) = FlattenSeq(seqs)
    BY Zenon DEF TextsBelow, nested
  <2>7. UNION {P[i] : i \in DOMAIN seqs} = UNION {FieldsBelow(value, c) : c \in Nested(value, at)}
    <3>1. \A c \in Nested(value, at) : \E i \in DOMAIN nested : nested[i] = c
      BY <2>1, <2>2 DEF Contains
    <3> HIDE DEF seqs, P, A, T
    <3> QED BY <2>2, <2>4, <2>5, <3>1
  <2> HIDE DEF seqs, P, A, T
  <2>8. \A i, j \in DOMAIN seqs : i # j => P[i] \cap P[j] = {}
    <3> SUFFICES ASSUME NEW i \in DOMAIN nested, NEW j \in DOMAIN nested, i # j
                 PROVE  P[i] \cap P[j] = {}
      BY <2>5
    <3>1. nested[i] # nested[j]
      BY <2>1 DEF Differ
    <3>2. FieldsBelow(value, nested[i]) \cap FieldsBelow(value, nested[j]) = {}
      BY <1>5, <2>2, <3>1, FieldsAreBelow
    <3> QED BY <2>4, <3>2
  <2> DEFINE Under == UNION {FieldsBelow(value, c) : c \in Nested(value, at)}
  <2>9. Told(value, Under, FlattenSeq(seqs))
    <3>1. \A i \in DOMAIN seqs : Told(value, P[i], seqs[i])
      BY <2>4, <2>5
    <3>2. Told(value, UNION {P[i] : i \in DOMAIN seqs}, FlattenSeq(seqs))
      BY <2>5, <2>8, <3>1, ToldInTurn, ZenonT(60)
    <3> QED BY <2>7, <3>2, Zenon
  <2>10. /\ FieldsBelow(value, at) = OwnFields(value, at) \cup Under
         /\ OwnFields(value, at) \cap Under = {}
    <3>1. /\ FieldsBelow(value, at) = OwnFields(value, at) \cup Under
          /\ \A c \in Nested(value, at) : OwnFields(value, at) \cap FieldsBelow(value, c) = {}
      BY <1>5, FieldsAreBelow
    <3> QED BY <3>1
  <2> HIDE DEF Under
  <2>11. Told(value, OwnFields(value, at), OwnTexts(value, at))
    BY <1>5, OwnAreTold
  <2>12. Told(value, OwnFields(value, at) \cup Under, OwnTexts(value, at) \o FlattenSeq(seqs))
    BY <2>9, <2>10, <2>11, ToldTogether
  <2>13. Told(value, FieldsBelow(value, at), h[at])
    BY <1>4, <1>5, <2>6, <2>10, <2>12, Zenon
  <2> QED BY <1>5, <2>13 DEF T
<1>6. D \subseteq T
  <2> HIDE DEF T, D
  <2> QED BY <1>2, <1>5, StrongInduction
<1>7. FieldsBelow(value, <<>>) = CommandFields(value)
  <2>1. ASSUME NEW p \in CommandFields(value) PROVE Len(p) > Len(<<>>) /\ \A k \in 1 .. Len(<<>>) : p[k] = <<>>[k]
    <3>1. PICK q \in D : p \in TextFields(value, q, {"command", "cmd"})
      BY <2>1 DEF CommandFields
    <3>2. PICK i \in Nat \ {0} : p = Append(q, i)
      BY <3>1 DEF TextFields
    <3>3. q \in Place
      BY <1>1
    <3>4. Len(p) = Len(q) + 1 /\ Len(q) \in Nat
      BY <3>2, <3>3, PlacesBelow
    <3>5. Len(<<>>) = 0
      OBVIOUS
    <3> QED BY <3>4, <3>5
  <2> QED BY <2>1 DEF FieldsBelow
<1>8. Told(value, FieldsBelow(value, <<>>), h[<<>>])
  BY <1>1, <1>6
<1> HIDE DEF T, D, A
<1> QED BY <1>3, <1>7, <1>8, Zenon
=============================================================================
