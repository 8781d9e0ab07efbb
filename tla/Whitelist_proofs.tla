--------------------------- MODULE Whitelist_proofs ---------------------------
(***************************************************************************)
(* The whitelist of the window, whatever the words, the services and the   *)
(* length of the list: the list is always what load makes of the two       *)
(* files, perhaps with marks on it, and what was added behind it.          *)
(*                                                                         *)
(* Lists and files are folded all over the model.  What a fold does is     *)
(* shown by its trace, the values after each element, and by counting; the *)
(* model's own folds get their traces one by one.                          *)
(***************************************************************************)
EXTENDS Whitelist, SequenceTheorems, WellFoundedInduction, FiniteSetTheorems, TLAPS

-----------------------------------------------------------------------------
(* Counting and folding *)

(* Induction, for a set of numbers. *)
LEMMA Counting ==
  ASSUME NEW P \in SUBSET Nat, 0 \in P, \A n \in P : n + 1 \in P
  PROVE  P = Nat
<1>1. IsWellFoundedOn(OpToRel(<, Nat), Nat)
  BY NatLessThanWellFounded
<1>2. SUFFICES ASSUME Nat \ P # {} PROVE FALSE
  OBVIOUS
<1>3. PICK m \in Nat \ P : \A n \in Nat \ P : ~(<<n, m>> \in OpToRel(<, Nat))
  <2>1. Nat \ P \in SUBSET Nat
    OBVIOUS
  <2> QED
    BY <1>1, <1>2, <2>1, WFMin, Zenon
<1>4. m \in Nat /\ m \notin P /\ m # 0
  OBVIOUS
<1>5. m - 1 \in Nat /\ m - 1 < m /\ (m - 1) + 1 = m
  BY <1>4
<1>6. <<m - 1, m>> \in OpToRel(<, Nat)
  BY <1>4, <1>5 DEF OpToRel
<1>7. m - 1 \in P
  BY <1>3, <1>5, <1>6, Zenon
<1>8. (m - 1) + 1 \in P
  BY <1>7
<1> QED
  BY <1>4, <1>5, <1>8

(* The numbers up to n, and the greatest of some of them. *)
LEMMA Greatest ==
  ASSUME NEW n \in Nat, NEW t \in SUBSET (1 .. n), t # {}
  PROVE  Max(t) \in t /\ \A m \in t : m <= Max(t)
<1>1. PICK k \in t : \A m \in t : m <= k
  <2> DEFINE P == {k \in Nat : \A u \in SUBSET (1 .. k) :
                     u # {} => \E x \in u : \A m \in u : m <= x}
  <2>1. 0 \in P
    <3>1. \A u \in SUBSET (1 .. 0) : u = {}
      OBVIOUS
    <3> QED
      BY <3>1
  <2>2. ASSUME NEW k \in P PROVE k + 1 \in P
    <3>1. ASSUME NEW u \in SUBSET (1 .. k + 1), u # {}, k + 1 \notin u
          PROVE  \E x \in u : \A m \in u : m <= x
      <4>1. u \in SUBSET (1 .. k)
        BY <3>1
      <4> QED
        BY <2>2, <3>1, <4>1
    <3>2. ASSUME NEW u \in SUBSET (1 .. k + 1), k + 1 \in u
          PROVE  \E x \in u : \A m \in u : m <= x
      BY <3>2
    <3> QED
      BY <2>2, <3>1, <3>2
  <2>3. P \in SUBSET Nat
    OBVIOUS
  <2> HIDE DEF P
  <2>4. P = Nat
    BY <2>1, <2>2, <2>3, Counting
  <2> QED
    BY <2>4 DEF P
<1> QED
  BY <1>1 DEF Max

LEMMA UpTo ==
  ASSUME NEW n \in Nat, n > 0
  PROVE  Max(1 .. n) = n /\ (1 .. n) \ {n} = 1 .. n - 1
<1>1. 1 .. n \in SUBSET (1 .. n) /\ n \in 1 .. n
  OBVIOUS
<1>2. Max(1 .. n) \in 1 .. n /\ n <= Max(1 .. n)
  BY <1>1, Greatest
<1> QED
  BY <1>2

(* The prefixes of the positions of a sequence. *)
LEMMA PrefixFacts ==
  ASSUME NEW X, NEW s \in Seq(X)
  PROVE  /\ DOMAIN s = 1 .. Len(s) /\ {} \in SUBSET (DOMAIN s)
         /\ \A k \in 1 .. Len(s) :
              /\ 1 .. k \in SUBSET (DOMAIN s) /\ 1 .. k # {}
              /\ Max(1 .. k) = k /\ (1 .. k) \ {k} = 1 .. k - 1
         /\ \A t \in SUBSET (DOMAIN s) : t # {} =>
              t \ {Max(t)} \in SUBSET (DOMAIN s) /\ s[Max(t)] \in X
<1>1. DOMAIN s = 1 .. Len(s) /\ Len(s) \in Nat
  OBVIOUS
<1>2. ASSUME NEW k \in 1 .. Len(s)
      PROVE  /\ 1 .. k \in SUBSET (DOMAIN s) /\ 1 .. k # {}
             /\ Max(1 .. k) = k /\ (1 .. k) \ {k} = 1 .. k - 1
  <2>1. k \in Nat /\ k > 0 /\ k <= Len(s)
    BY <1>1
  <2>2. k \in 1 .. k /\ \A m \in 1 .. k : m \in 1 .. Len(s)
    BY <1>1, <2>1
  <2> QED
    BY <1>1, <2>1, <2>2, UpTo
<1>3. ASSUME NEW t \in SUBSET (DOMAIN s), t # {}
      PROVE  t \ {Max(t)} \in SUBSET (DOMAIN s) /\ s[Max(t)] \in X
  <2>1. Max(t) \in t
    BY <1>1, <1>3, Greatest
  <2> QED
    BY <1>1, <2>1
<1>4. {} \in SUBSET (DOMAIN s)
  OBVIOUS
<1>5. DOMAIN s = 1 .. Len(s)
  BY <1>1
<1> QED
  BY <1>2, <1>3, <1>4, <1>5, Zenon

(* A fold over a sequence is there. *)
Folds(h, A, X, g, base, s) ==
  \A t \in SUBSET (DOMAIN s) :
    /\ t = {} => h[t] = base
    /\ t # {} => /\ h[t \ {Max(t)}] \in A /\ s[Max(t)] \in X
                 /\ h[t] = g[<<h[t \ {Max(t)}], s[Max(t)]>>]

LEMMA FoldExists ==
  ASSUME NEW A, NEW X, NEW base \in A, NEW s \in Seq(X), NEW g \in [A \X X -> A]
  PROVE  \E h : Folds(h, A, X, g, base, s)
<1> DEFINE Solves(h, k) ==
             \A t \in SUBSET (1 .. k) :
               h[t] = IF t = {} THEN base ELSE g[<<h[t \ {Max(t)}], s[Max(t)]>>]
           P == {k \in Nat : k <= Len(s) => \E h \in [SUBSET (1 .. k) -> A] : Solves(h, k)}
<1>1. 0 \in P
  <2> DEFINE h == [t \in SUBSET (1 .. 0) |-> base]
  <2>1. 1 .. 0 = {} /\ h \in [SUBSET (1 .. 0) -> A]
    OBVIOUS
  <2>2. Solves(h, 0)
    BY <2>1
  <2> QED
    BY <2>1, <2>2
<1>2. ASSUME NEW k \in P PROVE k + 1 \in P
  <2>1. k \in Nat /\ k + 1 \in Nat
    OBVIOUS
  <2> SUFFICES ASSUME k + 1 <= Len(s)
               PROVE  \E h \in [SUBSET (1 .. k + 1) -> A] : Solves(h, k + 1)
    BY <2>1
  <2>2. PICK f \in [SUBSET (1 .. k) -> A] : Solves(f, k)
    <3> HIDE DEF Solves
    <3>1. k <= Len(s)
      BY <2>1
    <3> QED
      BY <1>2, <3>1
  <2> DEFINE h == [t \in SUBSET (1 .. k + 1) |->
                     IF k + 1 \in t THEN g[<<f[t \ {k + 1}], s[k + 1]>>] ELSE f[t]]
  <2>3. s[k + 1] \in X
    BY <2>1
  <2>4. ASSUME NEW t \in SUBSET (1 .. k + 1), k + 1 \in t
        PROVE  t \ {k + 1} \in SUBSET (1 .. k) /\ Max(t) = k + 1
    <3> HIDE DEF P, h
    <3>1. Max(t) \in t /\ \A m \in t : m <= Max(t)
      BY <2>1, <2>4, Greatest
    <3>2. Max(t) = k + 1
      <4>1. Max(t) \in 1 .. k + 1 /\ k + 1 <= Max(t)
        BY <2>4, <3>1
      <4> QED
        BY <2>1, <4>1
    <3>3. t \ {k + 1} \in SUBSET (1 .. k)
      BY <2>1
    <3> QED
      BY <3>2, <3>3
  <2>5. ASSUME NEW t \in SUBSET (1 .. k + 1), k + 1 \notin t
        PROVE  t \in SUBSET (1 .. k)
    BY <2>1, <2>5
  <2>6. h \in [SUBSET (1 .. k + 1) -> A]
    <3> SUFFICES ASSUME NEW t \in SUBSET (1 .. k + 1) PROVE h[t] \in A
      OBVIOUS
    <3>1. CASE k + 1 \in t
      <4>1. f[t \ {k + 1}] \in A
        BY <2>2, <2>4, <3>1
      <4> QED
        BY <2>3, <3>1, <4>1
    <3>2. CASE k + 1 \notin t
      BY <2>2, <2>5, <3>2
    <3> QED
      BY <3>1, <3>2
  <2>7. ASSUME NEW t \in SUBSET (1 .. k + 1)
        PROVE  h[t] = IF t = {} THEN base ELSE g[<<h[t \ {Max(t)}], s[Max(t)]>>]
    <3>1. CASE k + 1 \in t
      <4>1. h[t \ {k + 1}] = f[t \ {k + 1}]
        BY <2>4, <3>1
      <4> QED
        BY <2>4, <3>1, <4>1
    <3>2. CASE k + 1 \notin t
      <4>1. h[t] = f[t] /\ h[t \ {Max(t)}] = f[t \ {Max(t)}]
        BY <2>5, <3>2
      <4> QED
        BY <2>2, <2>5, <3>2, <4>1
    <3> QED
      BY <3>1, <3>2
  <2> QED
    BY <2>6, <2>7
<1>3. P = Nat
  <2> HIDE DEF P
  <2>1. P \in SUBSET Nat
    BY DEF P
  <2> QED
    BY <1>1, <1>2, <2>1, Counting
<1> QED
  <2> HIDE DEF Solves, P
  <2>1. Len(s) \in Nat /\ Len(s) \in P
    BY <1>3
  <2>2. \E h \in [SUBSET (1 .. Len(s)) -> A] : Solves(h, Len(s))
    <3>1. Len(s) <= Len(s)
      BY <2>1
    <3> QED
      BY <2>1, <3>1, Zenon DEF P
  <2>3. PICK h \in [SUBSET (DOMAIN s) -> A] : Solves(h, Len(s))
    BY <2>2, PrefixFacts, Zenon
  <2>4. ASSUME NEW t \in SUBSET (DOMAIN s)
        PROVE  /\ t = {} => h[t] = base
               /\ t # {} => /\ h[t \ {Max(t)}] \in A /\ s[Max(t)] \in X
                            /\ h[t] = g[<<h[t \ {Max(t)}], s[Max(t)]>>]
    <3>1. t \in SUBSET (1 .. Len(s))
      BY PrefixFacts, Zenon
    <3>2. h[t] = IF t = {} THEN base ELSE g[<<h[t \ {Max(t)}], s[Max(t)]>>]
      BY <2>3, <3>1 DEF Solves
    <3>3. t # {} => t \ {Max(t)} \in SUBSET (DOMAIN s) /\ s[Max(t)] \in X
      BY PrefixFacts, Zenon
    <3> QED
      BY <2>3, <3>2, <3>3
  <2> QED
    BY <2>4 DEF Folds

(* Its values after each element. *)
Trace(h, s) == [k \in 0 .. Len(s) |-> h[1 .. k]]

Traces(F, A, base, g, s) ==
  /\ F \in [0 .. Len(s) -> A]
  /\ F[0] = base
  /\ \A k \in 1 .. Len(s) : F[k] = g[<<F[k - 1], s[k]>>]

GoesOn(h, A, g, s) ==
  \A k \in 1 .. Len(s) : h[1 .. k - 1] \in A => h[1 .. k] = g[<<h[1 .. k - 1], s[k]>>]

LEMMA FoldTrace ==
  ASSUME NEW A, NEW X, NEW base \in A, NEW s \in Seq(X), NEW g \in [A \X X -> A], NEW h,
         h[{}] = base, GoesOn(h, A, g, s)
  PROVE  Traces(Trace(h, s), A, base, g, s)
<1> DEFINE F == Trace(h, s)
           P == {k \in Nat : k <= Len(s) => F[k] \in A}
<1>1. Len(s) \in Nat
  OBVIOUS
<1>2. F[0] = base
  <2>1. 1 .. 0 = {}
    OBVIOUS
  <2> QED
    BY <1>1, <2>1 DEF Trace
<1>3. ASSUME NEW k \in 1 .. Len(s), F[k - 1] \in A
      PROVE  F[k] = g[<<F[k - 1], s[k]>>] /\ F[k] \in A
  <2>1. k \in 0 .. Len(s) /\ k - 1 \in 0 .. Len(s) /\ s[k] \in X
    BY <1>1
  <2>2. F[k] = h[1 .. k] /\ F[k - 1] = h[1 .. k - 1]
    BY <2>1 DEF Trace
  <2> HIDE DEF F
  <2>3. F[k] = g[<<F[k - 1], s[k]>>]
    BY <1>3, <2>2 DEF GoesOn
  <2> QED
    BY <1>3, <2>1, <2>3
<1> HIDE DEF F
<1>4. P \in SUBSET Nat /\ 0 \in P
  BY <1>2
<1>5. ASSUME NEW k \in P PROVE k + 1 \in P
  <2> SUFFICES ASSUME k + 1 <= Len(s) PROVE F[k + 1] \in A
    OBVIOUS
  <2>1. k + 1 \in 1 .. Len(s) /\ (k + 1) - 1 = k /\ F[k] \in A
    BY <1>1
  <2> QED
    BY <1>3, <2>1
<1> HIDE DEF P
<1>6. P = Nat
  BY <1>4, <1>5, Counting
<1>7. \A k \in 0 .. Len(s) : F[k] \in A
  BY <1>1, <1>6 DEF P
<1>8. \A k \in 1 .. Len(s) : F[k] = g[<<F[k - 1], s[k]>>]
  BY <1>1, <1>3, <1>7
<1>9. F \in [0 .. Len(s) -> A]
  BY <1>7 DEF F, Trace
<1> QED
  BY <1>2, <1>8, <1>9 DEF F, Traces

(* The folds of the model that have no name in it. *)
Adds(l, s, was, now) == FoldLeft(LAMBDA m, i : addItem(m, i, was, now), l, s)
Enables(l, s) == FoldLeft(addOrEnable, l, s)
Undoes(s) == FoldLeft(LAMBDA l, e : IF isAdded(e) THEN l ELSE Append(l, Undone(e)), <<>>, s)

(* addItem for one item after the other. *)
AddsWithin(A, X, was, now) ==
  \A l \in A, i \in X : (addItem(l, i, was, now)) \in A

LEMMA AddFold ==
  ASSUME NEW A, NEW X, NEW base \in A, NEW s \in Seq(X), NEW was, NEW now,
         AddsWithin(A, X, was, now)
  PROVE  \E F \in [0 .. Len(s) -> A] :
           /\ F[0] = base
           /\ \A k \in 1 .. Len(s) : F[k] = addItem(F[k - 1], s[k], was, now)
           /\ F[Len(s)] = Adds(base, s, was, now)
<1> DEFINE op(l, i) == addItem(l, i, was, now)
           eqn(h) == h = [t \in SUBSET (DOMAIN s) |->
             IF t = {} THEN base ELSE op(h[t \ {Max(t)}], s[Max(t)])]
           it == CHOOSE h : eqn(h)
           g == [p \in A \X X |-> op(p[1], p[2])]
           F == Trace(it, s)
<1>1. Adds(base, s, was, now) = it[DOMAIN s]
  BY DEF Adds, FoldLeft, MapThenFoldSet
<1>2. g \in [A \X X -> A]
  BY DEF AddsWithin
<1>3. \A a \in A, x \in X : g[<<a, x>>] = op(a, x)
  OBVIOUS
<1> HIDE DEF it, g, op, F
<1>4. \E h : eqn(h)
  <2>1. PICK h : Folds(h, A, X, g, base, s)
    BY <1>2, FoldExists
  <2> DEFINE f == [t \in SUBSET (DOMAIN s) |-> h[t]]
  <2>2. ASSUME NEW t \in SUBSET (DOMAIN s)
        PROVE  f[t] = IF t = {} THEN base ELSE op(f[t \ {Max(t)}], s[Max(t)])
    BY <1>3, <2>1 DEF Folds
  <2> QED
    BY <2>2
<1>5. eqn(it)
  <2> HIDE DEF eqn
  <2> QED
    BY <1>4 DEF it
<1>6. it[{}] = base /\ GoesOn(it, A, g, s)
  <2>1. it[{}] = base
    BY <1>5, PrefixFacts
  <2>2. ASSUME NEW k \in 1 .. Len(s), it[1 .. k - 1] \in A
        PROVE  it[1 .. k] = g[<<it[1 .. k - 1], s[k]>>]
    <3>1. /\ 1 .. k \in SUBSET (DOMAIN s) /\ 1 .. k # {}
          /\ Max(1 .. k) = k /\ (1 .. k) \ {k} = 1 .. k - 1
      BY PrefixFacts, Zenon
    <3>2. it[1 .. k] = op(it[1 .. k - 1], s[k])
      BY <1>5, <3>1
    <3>3. s[k] \in X
      OBVIOUS
    <3> QED
      BY <1>3, <2>2, <3>2, <3>3
  <2> QED
    BY <2>1, <2>2 DEF GoesOn
<1>7. Traces(F, A, base, g, s)
  BY <1>2, <1>6, FoldTrace, Zenon DEF F
<1>8. F[Len(s)] = it[DOMAIN s]
  BY DEF F, Trace
<1>9. \A k \in 1 .. Len(s) : F[k] = op(F[k - 1], s[k])
  <2>1. ASSUME NEW k \in 1 .. Len(s) PROVE F[k] = op(F[k - 1], s[k])
    <3>1. F[k] = g[<<F[k - 1], s[k]>>] /\ F \in [0 .. Len(s) -> A]
      BY <1>7 DEF Traces
    <3>2. k - 1 \in 0 .. Len(s) /\ s[k] \in X
      OBVIOUS
    <3> QED
      BY <1>3, <3>1, <3>2
  <2> QED
    BY <2>1
<1> QED
  BY <1>1, <1>7, <1>8, <1>9 DEF Traces, op

(* addOrEnable for one item after the other. *)
EnablesWithin(A, X) ==
  \A l \in A, i \in X : (addOrEnable(l, i)) \in A

LEMMA EnableFold ==
  ASSUME NEW A, NEW X, NEW base \in A, NEW s \in Seq(X),
         EnablesWithin(A, X)
  PROVE  \E F \in [0 .. Len(s) -> A] :
           /\ F[0] = base
           /\ \A k \in 1 .. Len(s) : F[k] = addOrEnable(F[k - 1], s[k])
           /\ F[Len(s)] = Enables(base, s)
<1> DEFINE op(l, i) == addOrEnable(l, i)
           eqn(h) == h = [t \in SUBSET (DOMAIN s) |->
             IF t = {} THEN base ELSE op(h[t \ {Max(t)}], s[Max(t)])]
           it == CHOOSE h : eqn(h)
           g == [p \in A \X X |-> op(p[1], p[2])]
           F == Trace(it, s)
<1>1. Enables(base, s) = it[DOMAIN s]
  BY DEF Enables, FoldLeft, MapThenFoldSet
<1>2. g \in [A \X X -> A]
  BY DEF EnablesWithin
<1>3. \A a \in A, x \in X : g[<<a, x>>] = op(a, x)
  OBVIOUS
<1> HIDE DEF it, g, op, F
<1>4. \E h : eqn(h)
  <2>1. PICK h : Folds(h, A, X, g, base, s)
    BY <1>2, FoldExists
  <2> DEFINE f == [t \in SUBSET (DOMAIN s) |-> h[t]]
  <2>2. ASSUME NEW t \in SUBSET (DOMAIN s)
        PROVE  f[t] = IF t = {} THEN base ELSE op(f[t \ {Max(t)}], s[Max(t)])
    BY <1>3, <2>1 DEF Folds
  <2> QED
    BY <2>2
<1>5. eqn(it)
  <2> HIDE DEF eqn
  <2> QED
    BY <1>4 DEF it
<1>6. it[{}] = base /\ GoesOn(it, A, g, s)
  <2>1. it[{}] = base
    BY <1>5, PrefixFacts
  <2>2. ASSUME NEW k \in 1 .. Len(s), it[1 .. k - 1] \in A
        PROVE  it[1 .. k] = g[<<it[1 .. k - 1], s[k]>>]
    <3>1. /\ 1 .. k \in SUBSET (DOMAIN s) /\ 1 .. k # {}
          /\ Max(1 .. k) = k /\ (1 .. k) \ {k} = 1 .. k - 1
      BY PrefixFacts, Zenon
    <3>2. it[1 .. k] = op(it[1 .. k - 1], s[k])
      BY <1>5, <3>1
    <3>3. s[k] \in X
      OBVIOUS
    <3> QED
      BY <1>3, <2>2, <3>2, <3>3
  <2> QED
    BY <2>1, <2>2 DEF GoesOn
<1>7. Traces(F, A, base, g, s)
  BY <1>2, <1>6, FoldTrace, Zenon DEF F
<1>8. F[Len(s)] = it[DOMAIN s]
  BY DEF F, Trace
<1>9. \A k \in 1 .. Len(s) : F[k] = op(F[k - 1], s[k])
  <2>1. ASSUME NEW k \in 1 .. Len(s) PROVE F[k] = op(F[k - 1], s[k])
    <3>1. F[k] = g[<<F[k - 1], s[k]>>] /\ F \in [0 .. Len(s) -> A]
      BY <1>7 DEF Traces
    <3>2. k - 1 \in 0 .. Len(s) /\ s[k] \in X
      OBVIOUS
    <3> QED
      BY <1>3, <3>1, <3>2
  <2> QED
    BY <2>1
<1> QED
  BY <1>1, <1>7, <1>8, <1>9 DEF Traces, op

(* remove, value by value. *)
RemovesWithin(A, X, v) ==
  \A l \in A, u \in X : (IF u = v THEN l ELSE Append(l, u)) \in A

LEMMA RemoveFold ==
  ASSUME NEW A, NEW X, <<>> \in A, NEW s \in Seq(X), NEW v,
         RemovesWithin(A, X, v)
  PROVE  \E F \in [0 .. Len(s) -> A] :
           /\ F[0] = <<>>
           /\ \A k \in 1 .. Len(s) : F[k] = IF s[k] = v THEN F[k - 1] ELSE Append(F[k - 1], s[k])
           /\ F[Len(s)] = remove(s, v)
<1> DEFINE op(l, u) == IF u = v THEN l ELSE Append(l, u)
           eqn(h) == h = [t \in SUBSET (DOMAIN s) |->
             IF t = {} THEN <<>> ELSE op(h[t \ {Max(t)}], s[Max(t)])]
           it == CHOOSE h : eqn(h)
           g == [p \in A \X X |-> op(p[1], p[2])]
           F == Trace(it, s)
<1>1. remove(s, v) = it[DOMAIN s]
  BY DEF remove, FoldLeft, MapThenFoldSet
<1>2. g \in [A \X X -> A]
  BY DEF RemovesWithin
<1>3. \A a \in A, x \in X : g[<<a, x>>] = op(a, x)
  OBVIOUS
<1> HIDE DEF it, g, op, F
<1>4. \E h : eqn(h)
  <2>1. PICK h : Folds(h, A, X, g, <<>>, s)
    BY <1>2, FoldExists
  <2> DEFINE f == [t \in SUBSET (DOMAIN s) |-> h[t]]
  <2>2. ASSUME NEW t \in SUBSET (DOMAIN s)
        PROVE  f[t] = IF t = {} THEN <<>> ELSE op(f[t \ {Max(t)}], s[Max(t)])
    BY <1>3, <2>1 DEF Folds
  <2> QED
    BY <2>2
<1>5. eqn(it)
  <2> HIDE DEF eqn
  <2> QED
    BY <1>4 DEF it
<1>6. it[{}] = <<>> /\ GoesOn(it, A, g, s)
  <2>1. it[{}] = <<>>
    BY <1>5, PrefixFacts
  <2>2. ASSUME NEW k \in 1 .. Len(s), it[1 .. k - 1] \in A
        PROVE  it[1 .. k] = g[<<it[1 .. k - 1], s[k]>>]
    <3>1. /\ 1 .. k \in SUBSET (DOMAIN s) /\ 1 .. k # {}
          /\ Max(1 .. k) = k /\ (1 .. k) \ {k} = 1 .. k - 1
      BY PrefixFacts, Zenon
    <3>2. it[1 .. k] = op(it[1 .. k - 1], s[k])
      BY <1>5, <3>1
    <3>3. s[k] \in X
      OBVIOUS
    <3> QED
      BY <1>3, <2>2, <3>2, <3>3
  <2> QED
    BY <2>1, <2>2 DEF GoesOn
<1>7. Traces(F, A, <<>>, g, s)
  BY <1>2, <1>6, FoldTrace, Zenon DEF F
<1>8. F[Len(s)] = it[DOMAIN s]
  BY DEF F, Trace
<1>9. \A k \in 1 .. Len(s) : F[k] = op(F[k - 1], s[k])
  <2>1. ASSUME NEW k \in 1 .. Len(s) PROVE F[k] = op(F[k - 1], s[k])
    <3>1. F[k] = g[<<F[k - 1], s[k]>>] /\ F \in [0 .. Len(s) -> A]
      BY <1>7 DEF Traces
    <3>2. k - 1 \in 0 .. Len(s) /\ s[k] \in X
      OBVIOUS
    <3> QED
      BY <1>3, <3>1, <3>2
  <2> QED
    BY <2>1
<1> QED
  BY <1>1, <1>7, <1>8, <1>9 DEF Traces, op

(* undo, entry by entry. *)
UndoesWithin(A, X) ==
  \A l \in A, e \in X : (IF isAdded(e) THEN l ELSE Append(l, Undone(e))) \in A

LEMMA UndoFold ==
  ASSUME NEW A, NEW X, <<>> \in A, NEW s \in Seq(X),
         UndoesWithin(A, X)
  PROVE  \E F \in [0 .. Len(s) -> A] :
           /\ F[0] = <<>>
           /\ \A k \in 1 .. Len(s) : F[k] = IF isAdded(s[k]) THEN F[k - 1] ELSE Append(F[k - 1], Undone(s[k]))
           /\ F[Len(s)] = Undoes(s)
<1> DEFINE op(l, e) == IF isAdded(e) THEN l ELSE Append(l, Undone(e))
           eqn(h) == h = [t \in SUBSET (DOMAIN s) |->
             IF t = {} THEN <<>> ELSE op(h[t \ {Max(t)}], s[Max(t)])]
           it == CHOOSE h : eqn(h)
           g == [p \in A \X X |-> op(p[1], p[2])]
           F == Trace(it, s)
<1>1. Undoes(s) = it[DOMAIN s]
  BY DEF Undoes, FoldLeft, MapThenFoldSet
<1>2. g \in [A \X X -> A]
  BY DEF UndoesWithin
<1>3. \A a \in A, x \in X : g[<<a, x>>] = op(a, x)
  OBVIOUS
<1> HIDE DEF it, g, op, F
<1>4. \E h : eqn(h)
  <2>1. PICK h : Folds(h, A, X, g, <<>>, s)
    BY <1>2, FoldExists
  <2> DEFINE f == [t \in SUBSET (DOMAIN s) |-> h[t]]
  <2>2. ASSUME NEW t \in SUBSET (DOMAIN s)
        PROVE  f[t] = IF t = {} THEN <<>> ELSE op(f[t \ {Max(t)}], s[Max(t)])
    BY <1>3, <2>1 DEF Folds
  <2> QED
    BY <2>2
<1>5. eqn(it)
  <2> HIDE DEF eqn
  <2> QED
    BY <1>4 DEF it
<1>6. it[{}] = <<>> /\ GoesOn(it, A, g, s)
  <2>1. it[{}] = <<>>
    BY <1>5, PrefixFacts
  <2>2. ASSUME NEW k \in 1 .. Len(s), it[1 .. k - 1] \in A
        PROVE  it[1 .. k] = g[<<it[1 .. k - 1], s[k]>>]
    <3>1. /\ 1 .. k \in SUBSET (DOMAIN s) /\ 1 .. k # {}
          /\ Max(1 .. k) = k /\ (1 .. k) \ {k} = 1 .. k - 1
      BY PrefixFacts, Zenon
    <3>2. it[1 .. k] = op(it[1 .. k - 1], s[k])
      BY <1>5, <3>1
    <3>3. s[k] \in X
      OBVIOUS
    <3> QED
      BY <1>3, <2>2, <3>2, <3>3
  <2> QED
    BY <2>1, <2>2 DEF GoesOn
<1>7. Traces(F, A, <<>>, g, s)
  BY <1>2, <1>6, FoldTrace, Zenon DEF F
<1>8. F[Len(s)] = it[DOMAIN s]
  BY DEF F, Trace
<1>9. \A k \in 1 .. Len(s) : F[k] = op(F[k - 1], s[k])
  <2>1. ASSUME NEW k \in 1 .. Len(s) PROVE F[k] = op(F[k - 1], s[k])
    <3>1. F[k] = g[<<F[k - 1], s[k]>>] /\ F \in [0 .. Len(s) -> A]
      BY <1>7 DEF Traces
    <3>2. k - 1 \in 0 .. Len(s) /\ s[k] \in X
      OBVIOUS
    <3> QED
      BY <1>3, <3>1, <3>2
  <2> QED
    BY <2>1
<1> QED
  BY <1>1, <1>7, <1>8, <1>9 DEF Traces, op

(* updatePglSettings, entry by entry. *)
PglWithin(A, X) ==
  \A c \in A, e \in X : (IF isChanged(e) THEN Put(c, e, On(e)) ELSE c) \in A

LEMMA PglFold ==
  ASSUME NEW A, NEW X, conf \in A, NEW s \in Seq(X),
         PglWithin(A, X)
  PROVE  \E F \in [0 .. Len(s) -> A] :
           /\ F[0] = conf
           /\ \A k \in 1 .. Len(s) : F[k] = IF isChanged(s[k]) THEN Put(F[k - 1], s[k], On(s[k])) ELSE F[k - 1]
           /\ F[Len(s)] = updatePglSettings(s)
<1> DEFINE op(c, e) == IF isChanged(e) THEN Put(c, e, On(e)) ELSE c
           eqn(h) == h = [t \in SUBSET (DOMAIN s) |->
             IF t = {} THEN conf ELSE op(h[t \ {Max(t)}], s[Max(t)])]
           it == CHOOSE h : eqn(h)
           g == [p \in A \X X |-> op(p[1], p[2])]
           F == Trace(it, s)
<1>1. updatePglSettings(s) = it[DOMAIN s]
  BY DEF updatePglSettings, FoldLeft, MapThenFoldSet
<1>2. g \in [A \X X -> A]
  BY DEF PglWithin
<1>3. \A a \in A, x \in X : g[<<a, x>>] = op(a, x)
  OBVIOUS
<1> HIDE DEF it, g, op, F
<1>4. \E h : eqn(h)
  <2>1. PICK h : Folds(h, A, X, g, conf, s)
    BY <1>2, FoldExists
  <2> DEFINE f == [t \in SUBSET (DOMAIN s) |-> h[t]]
  <2>2. ASSUME NEW t \in SUBSET (DOMAIN s)
        PROVE  f[t] = IF t = {} THEN conf ELSE op(f[t \ {Max(t)}], s[Max(t)])
    BY <1>3, <2>1 DEF Folds
  <2> QED
    BY <2>2
<1>5. eqn(it)
  <2> HIDE DEF eqn
  <2> QED
    BY <1>4 DEF it
<1>6. it[{}] = conf /\ GoesOn(it, A, g, s)
  <2>1. it[{}] = conf
    BY <1>5, PrefixFacts
  <2>2. ASSUME NEW k \in 1 .. Len(s), it[1 .. k - 1] \in A
        PROVE  it[1 .. k] = g[<<it[1 .. k - 1], s[k]>>]
    <3>1. /\ 1 .. k \in SUBSET (DOMAIN s) /\ 1 .. k # {}
          /\ Max(1 .. k) = k /\ (1 .. k) \ {k} = 1 .. k - 1
      BY PrefixFacts, Zenon
    <3>2. it[1 .. k] = op(it[1 .. k - 1], s[k])
      BY <1>5, <3>1
    <3>3. s[k] \in X
      OBVIOUS
    <3> QED
      BY <1>3, <2>2, <3>2, <3>3
  <2> QED
    BY <2>1, <2>2 DEF GoesOn
<1>7. Traces(F, A, conf, g, s)
  BY <1>2, <1>6, FoldTrace, Zenon DEF F
<1>8. F[Len(s)] = it[DOMAIN s]
  BY DEF F, Trace
<1>9. \A k \in 1 .. Len(s) : F[k] = op(F[k - 1], s[k])
  <2>1. ASSUME NEW k \in 1 .. Len(s) PROVE F[k] = op(F[k - 1], s[k])
    <3>1. F[k] = g[<<F[k - 1], s[k]>>] /\ F \in [0 .. Len(s) -> A]
      BY <1>7 DEF Traces
    <3>2. k - 1 \in 0 .. Len(s) /\ s[k] \in X
      OBVIOUS
    <3> QED
      BY <1>3, <3>1, <3>2
  <2> QED
    BY <2>1
<1> QED
  BY <1>1, <1>7, <1>8, <1>9 DEF Traces, op

(* updateGuiSettings, entry by entry. *)
GuiWithin(A, X) ==
  \A o \in A, e \in X : (IF isChanged(e) THEN Put(o, e, e.now = "off" /\ ~e.removed) ELSE o) \in A

LEMMA GuiFold ==
  ASSUME NEW A, NEW X, off \in A, NEW s \in Seq(X),
         GuiWithin(A, X)
  PROVE  \E F \in [0 .. Len(s) -> A] :
           /\ F[0] = off
           /\ \A k \in 1 .. Len(s) : F[k] = IF isChanged(s[k]) THEN Put(F[k - 1], s[k], s[k].now = "off" /\ ~s[k].removed)
                                  ELSE F[k - 1]
           /\ F[Len(s)] = updateGuiSettings(s)
<1> DEFINE op(o, e) == IF isChanged(e) THEN Put(o, e, e.now = "off" /\ ~e.removed) ELSE o
           eqn(h) == h = [t \in SUBSET (DOMAIN s) |->
             IF t = {} THEN off ELSE op(h[t \ {Max(t)}], s[Max(t)])]
           it == CHOOSE h : eqn(h)
           g == [p \in A \X X |-> op(p[1], p[2])]
           F == Trace(it, s)
<1>1. updateGuiSettings(s) = it[DOMAIN s]
  BY DEF updateGuiSettings, FoldLeft, MapThenFoldSet
<1>2. g \in [A \X X -> A]
  BY DEF GuiWithin
<1>3. \A a \in A, x \in X : g[<<a, x>>] = op(a, x)
  OBVIOUS
<1> HIDE DEF it, g, op, F
<1>4. \E h : eqn(h)
  <2>1. PICK h : Folds(h, A, X, g, off, s)
    BY <1>2, FoldExists
  <2> DEFINE f == [t \in SUBSET (DOMAIN s) |-> h[t]]
  <2>2. ASSUME NEW t \in SUBSET (DOMAIN s)
        PROVE  f[t] = IF t = {} THEN off ELSE op(f[t \ {Max(t)}], s[Max(t)])
    BY <1>3, <2>1 DEF Folds
  <2> QED
    BY <2>2
<1>5. eqn(it)
  <2> HIDE DEF eqn
  <2> QED
    BY <1>4 DEF it
<1>6. it[{}] = off /\ GoesOn(it, A, g, s)
  <2>1. it[{}] = off
    BY <1>5, PrefixFacts
  <2>2. ASSUME NEW k \in 1 .. Len(s), it[1 .. k - 1] \in A
        PROVE  it[1 .. k] = g[<<it[1 .. k - 1], s[k]>>]
    <3>1. /\ 1 .. k \in SUBSET (DOMAIN s) /\ 1 .. k # {}
          /\ Max(1 .. k) = k /\ (1 .. k) \ {k} = 1 .. k - 1
      BY PrefixFacts, Zenon
    <3>2. it[1 .. k] = op(it[1 .. k - 1], s[k])
      BY <1>5, <3>1
    <3>3. s[k] \in X
      OBVIOUS
    <3> QED
      BY <1>3, <2>2, <3>2, <3>3
  <2> QED
    BY <2>1, <2>2 DEF GoesOn
<1>7. Traces(F, A, off, g, s)
  BY <1>2, <1>6, FoldTrace, Zenon DEF F
<1>8. F[Len(s)] = it[DOMAIN s]
  BY DEF F, Trace
<1>9. \A k \in 1 .. Len(s) : F[k] = op(F[k - 1], s[k])
  <2>1. ASSUME NEW k \in 1 .. Len(s) PROVE F[k] = op(F[k - 1], s[k])
    <3>1. F[k] = g[<<F[k - 1], s[k]>>] /\ F \in [0 .. Len(s) -> A]
      BY <1>7 DEF Traces
    <3>2. k - 1 \in 0 .. Len(s) /\ s[k] \in X
      OBVIOUS
    <3> QED
      BY <1>3, <3>1, <3>2
  <2> QED
    BY <2>1
<1> QED
  BY <1>1, <1>7, <1>8, <1>9 DEF Traces, op

(* Sequences put one behind the other. *)
LEMMA FlattenFold ==
  ASSUME NEW X, NEW s \in Seq(Seq(X))
  PROVE  \E F \in [0 .. Len(s) -> Seq(X)] :
           /\ F[0] = <<>>
           /\ \A k \in 1 .. Len(s) : F[k] = F[k - 1] \o s[k]
           /\ F[Len(s)] = FlattenSeq(s)
<1> DEFINE A == Seq(X)
           g == [p \in A \X A |-> p[1] \o p[2]]
           eqn(f) == f = [i \in 1 .. Len(s) |-> IF i = 1 THEN s[i] ELSE f[i - 1] \o s[i]]
           flat == CHOOSE f : eqn(f)
<1>1. FlattenSeq(s) = IF Len(s) = 0 THEN s ELSE flat[Len(s)]
  BY DEF FlattenSeq
<1>2. Len(s) \in Nat /\ (Len(s) = 0 => s = <<>>) /\ \A k \in 1 .. Len(s) : s[k] \in A
  OBVIOUS
<1>4. <<>> \in A /\ \A a, b \in A : a \o b \in A /\ <<>> \o a = a
  OBVIOUS
<1> HIDE DEF A
<1>3. g \in [A \X A -> A] /\ \A a, b \in A : g[<<a, b>>] = a \o b
  BY <1>4
<1> HIDE DEF g, flat
<1>5. \E F : Traces(F, A, <<>>, g, s)
  <2>1. s \in Seq(A)
    BY DEF A
  <2>2. PICK h : Folds(h, A, A, g, <<>>, s)
    BY <1>3, <1>4, <2>1, FoldExists
  <2>3. h[{}] = <<>>
    BY <2>1, <2>2, PrefixFacts DEF Folds
  <2>4. ASSUME NEW k \in 1 .. Len(s)
        PROVE  h[1 .. k] = g[<<h[1 .. k - 1], s[k]>>]
    <3>1. /\ 1 .. k \in SUBSET (DOMAIN s) /\ 1 .. k # {}
          /\ Max(1 .. k) = k /\ (1 .. k) \ {k} = 1 .. k - 1
      BY <2>1, PrefixFacts, Zenon
    <3> QED
      BY <2>2, <3>1 DEF Folds
  <2>5. GoesOn(h, A, g, s)
    BY <2>4 DEF GoesOn
  <2> QED
    BY <1>3, <1>4, <2>1, <2>3, <2>5, FoldTrace, Zenon
<1>6. PICK F \in [0 .. Len(s) -> A] :
        F[0] = <<>> /\ \A k \in 1 .. Len(s) : F[k] = g[<<F[k - 1], s[k]>>]
  BY <1>5 DEF Traces
<1>7. \A k \in 1 .. Len(s) : F[k - 1] \in A /\ F[k] = F[k - 1] \o s[k]
  <2>1. ASSUME NEW k \in 1 .. Len(s) PROVE F[k - 1] \in A /\ F[k] = F[k - 1] \o s[k]
    <3>1. k - 1 \in 0 .. Len(s)
      BY <1>2
    <3> QED
      BY <1>2, <1>3, <1>6, <3>1
  <2> QED
    BY <2>1
<1>8. Len(s) > 0 => F[1] = s[1]
  <2> SUFFICES ASSUME Len(s) > 0 PROVE F[1] = s[1]
    OBVIOUS
  <2>1. 1 \in 1 .. Len(s) /\ 1 - 1 = 0
    BY <1>2
  <2>2. s[1] \in A
    BY <1>2, <2>1
  <2>3. <<>> \o s[1] = s[1]
    BY <1>4, <2>2
  <2>4. F[1] = F[0] \o s[1]
    BY <1>7, <2>1
  <2> QED
    BY <1>6, <2>3, <2>4
<1>9. eqn(flat)
  <2> DEFINE f == [i \in 1 .. Len(s) |-> F[i]]
  <2>1. ASSUME NEW i \in 1 .. Len(s)
        PROVE  f[i] = IF i = 1 THEN s[i] ELSE f[i - 1] \o s[i]
    <3>1. CASE i = 1
      BY <1>2, <1>8, <3>1
    <3>2. CASE i # 1
      <4>1. i - 1 \in 1 .. Len(s)
        BY <1>2, <3>2
      <4> QED
        BY <1>7, <3>2, <4>1
    <3> QED
      BY <3>1, <3>2
  <2>2. eqn(f)
    BY <2>1
  <2> HIDE DEF eqn, f
  <2> QED
    BY <2>2 DEF flat
<1>10. \A k \in Nat : k \in 1 .. Len(s) => flat[k] = F[k]
  <2> DEFINE P == {k \in Nat : k \in 1 .. Len(s) => flat[k] = F[k]}
  <2>1. ASSUME NEW k \in P PROVE k + 1 \in P
    <3> SUFFICES ASSUME k + 1 \in 1 .. Len(s) PROVE flat[k + 1] = F[k + 1]
      OBVIOUS
    <3>1. CASE k = 0
      BY <1>8, <1>9, <3>1
    <3>2. CASE k # 0
      <4>1. k \in 1 .. Len(s) /\ (k + 1) - 1 = k /\ k + 1 # 1
        BY <1>2, <3>2
      <4>2. flat[k + 1] = flat[k] \o s[k + 1]
        BY <1>9, <4>1
      <4>3. F[k + 1] = F[k] \o s[k + 1]
        BY <1>7, <4>1
      <4> QED
        BY <4>1, <4>2, <4>3
    <3> QED
      BY <3>1, <3>2
  <2>2. 0 \in P /\ P \in SUBSET Nat
    BY <1>2
  <2> HIDE DEF P
  <2>3. P = Nat
    BY <2>1, <2>2, Counting
  <2> QED
    BY <2>3 DEF P
<1>11. F[Len(s)] = FlattenSeq(s)
  <2>1. CASE Len(s) = 0
    BY <1>1, <1>2, <1>6, <2>1
  <2>2. CASE Len(s) # 0
    <3>1. Len(s) \in 1 .. Len(s) /\ Len(s) \in Nat
      BY <1>2, <2>2
    <3>2. flat[Len(s)] = F[Len(s)]
      BY <1>10, <3>1, Zenon
    <3> QED
      BY <1>1, <2>2, <3>2
  <2> QED
    BY <2>1, <2>2
<1> QED
  BY <1>6, <1>7, <1>11 DEF A

(* The elements of a finite set in some order. *)
LEMMA InOrder ==
  ASSUME NEW S, IsFiniteSet(S)
  PROVE  /\ SetToSeq(S) \in Seq(S)
         /\ \A x \in S : \E n \in 1 .. Len(SetToSeq(S)) : SetToSeq(S)[n] = x
         /\ \A m, n \in 1 .. Len(SetToSeq(S)) :
              SetToSeq(S)[m] = SetToSeq(S)[n] => m = n
<1> DEFINE c == Cardinality(S)
<1>1. c \in Nat
  BY FS_CardinalityType
<1>2. \E f \in [1 .. c -> S] : IsInjective(f)
  <2>1. PICK f \in Bijection(1 .. c, S) : TRUE
    BY FS_CardinalityType DEF ExistsBijection
  <2> QED
    BY <2>1 DEF Bijection, Injection, IsInjective
<1>3. SetToSeq(S) \in [1 .. c -> S] /\ IsInjective(SetToSeq(S))
  BY <1>2 DEF SetToSeq
<1>4. Len(SetToSeq(S)) = c /\ SetToSeq(S) \in Seq(S)
  BY <1>1, <1>3
<1>5. ASSUME NEW x \in S PROVE \E n \in 1 .. c : SetToSeq(S)[n] = x
  <2> DEFINE f == SetToSeq(S)
  <2>1. IsFiniteSet(1 .. c) /\ Cardinality(1 .. c) = c
    BY <1>1, FS_Interval
  <2>2. f \in Injection(1 .. c, S)
    BY <1>3 DEF Injection, IsInjective
  <2> HIDE DEF f, c
  <2>3. c = Cardinality(S)
    BY DEF c
  <2>4. f \in Surjection(1 .. c, S)
    BY <2>1, <2>2, <2>3, FS_Injection
  <2> QED
    BY <2>4 DEF Surjection, f
<1>6. \A m, n \in 1 .. c : SetToSeq(S)[m] = SetToSeq(S)[n] => m = n
  BY <1>3 DEF IsInjective
<1> QED
  BY <1>4, <1>5, <1>6

-----------------------------------------------------------------------------
(* Ports *)

(* A port has its number and the names of its lines for names; no other port *)
(* has its number.                                                           *)
LEMMA SystemPorts ==
  /\ \A p \in systemPorts :
       /\ p.number \in Nat \ {0} /\ Port(p.number) \in p.names
       /\ \A w \in p.names : w = Port(p.number) \/ w \in Names
  /\ \A p, q \in systemPorts : p.number = q.number => p = q
<1> DEFINE N == 1 .. Len(ServiceLines)
           lines == {parsePort(ServiceLines[x]) : x \in N}
           of(n) == {l \in lines : l.number = n}
           port(n) == [number |-> n, protocols |-> UNION {l.protocols : l \in of(n)},
                       names |-> UNION {l.names : l \in of(n)}]
<1>1. systemPorts = {port(n) : n \in {l.number : l \in lines} \ {0}}
  BY DEF systemPorts
<1>0. /\ \A n : /\ port(n).number = n
                /\ \A w : w \in port(n).names <=> \E l \in lines : l.number = n /\ w \in l.names
      /\ \A l \in lines : \E x \in N : l = parsePort(ServiceLines[x])
      /\ \A x \in N : parsePort(ServiceLines[x]) \in lines
  OBVIOUS
<1> HIDE DEF lines, of, port
<1>2. \A x \in N : ServiceLines[x].number \in Nat /\ ServiceLines[x].names \in Seq(Names)
  BY ServiceAssumption
<1>3. ASSUME NEW x \in N
      PROVE  /\ parsePort(ServiceLines[x]).number = ServiceLines[x].number
             /\ \A w \in parsePort(ServiceLines[x]).names :
                  w = Port(ServiceLines[x].number) \/ w \in Names
             /\ ServiceLines[x].number > 0 =>
                  Port(ServiceLines[x].number) \in parsePort(ServiceLines[x]).names
  <2> DEFINE l == ServiceLines[x]
             a == {l.names[n] : n \in {1, 2} \cap 1 .. Len(l.names)}
             b == IF l.number > 0 THEN {Port(l.number)} ELSE {}
  <2>1. parsePort(l).number = l.number /\ parsePort(l).names = a \cup b
    BY DEF parsePort
  <2>2. \A w \in a : w \in Names
    <3>1. l.names \in Seq(Names)
      BY <1>2
    <3> HIDE DEF l
    <3> QED
      BY <3>1
  <2>3. \A w \in b : w = Port(l.number)
    OBVIOUS
  <2>4. l.number > 0 => Port(l.number) \in b
    OBVIOUS
  <2> HIDE DEF a, b
  <2> QED
    BY <2>1, <2>2, <2>3, <2>4
<1>5. ASSUME NEW p \in systemPorts
      PROVE  /\ p.number \in Nat \ {0} /\ p = port(p.number)
             /\ \E x \in N : ServiceLines[x].number = p.number
  <2>1. PICK n \in {l.number : l \in lines} \ {0} : p = port(n)
    BY <1>1
  <2>2. PICK x \in N : n = ServiceLines[x].number
    BY <1>0, <1>3, <2>1
  <2>3. p.number = n
    BY <1>0, <2>1
  <2>4. n \in Nat \ {0}
    BY <1>2, <2>1, <2>2
  <2> QED
    BY <2>1, <2>2, <2>3, <2>4
<1>6. ASSUME NEW p \in systemPorts, NEW w
      PROVE  w \in p.names <=> \E x \in N : /\ ServiceLines[x].number = p.number
                                            /\ w \in parsePort(ServiceLines[x]).names
  BY <1>0, <1>3, <1>5
<1> HIDE DEF N
<1>7. ASSUME NEW p \in systemPorts
      PROVE  /\ p.number \in Nat \ {0} /\ Port(p.number) \in p.names
             /\ \A w \in p.names : w = Port(p.number) \/ w \in Names
  <2>1. p.number \in Nat \ {0} /\ p.number > 0
    BY <1>5
  <2>2. PICK x \in N : ServiceLines[x].number = p.number
    BY <1>5
  <2>3. Port(p.number) \in p.names
    BY <1>3, <1>6, <2>1, <2>2
  <2>4. \A w \in p.names : w = Port(p.number) \/ w \in Names
    BY <1>3, <1>6
  <2> QED
    BY <2>1, <2>3, <2>4
<1>8. \A p, q \in systemPorts : p.number = q.number => p = q
  BY <1>5
<1> QED
  BY <1>7, <1>8

LEMMA NameFacts ==
  /\ \A w \in Names : isName(w) /\ ~isNumber(w) /\ ~isSpan(w) /\ ~isValidIp(w)
  /\ \A n : /\ isNumber(Port(n)) /\ Port(n).port = n /\ ~isName(Port(n))
            /\ ~isSpan(Port(n)) /\ ~isValidIp(Port(n))
  BY DEF Names, isName, isNumber, isSpan, isValidIp, Port

(* A word that is known has the number of a port, of which it is a name, and *)
(* its aliases are names of this port.                                       *)
LEMMA PortNumbers ==
  ASSUME NEW w
  PROVE  /\ IsKnown(w) =>
              /\ PortOf(w) \in systemPorts /\ w \in PortOf(w).names
              /\ portNumber(w) = PortOf(w).number
         /\ Aliases(w) # {} => IsKnown(w)
         /\ IsKnown(w) => Aliases(w) \subseteq PortOf(w).names
         /\ ~isNumber(w) /\ portNumber(w) # -1 => IsKnown(w)
         /\ \A p \in systemPorts : w \in p.names => IsKnown(w)
<1>1. ASSUME IsKnown(w)
      PROVE  /\ PortOf(w) \in systemPorts /\ w \in PortOf(w).names
             /\ portNumber(w) = PortOf(w).number
  <2>1. PortOf(w) \in systemPorts /\ w \in PortOf(w).names
    BY <1>1 DEF IsKnown, PortOf, containsName
  <2>2. CASE isNumber(w)
    <3>1. w = Port(PortOf(w).number) /\ PortOf(w).number \in Nat
      BY <2>1, <2>2, SystemPorts, NameFacts
    <3>2. w.port = PortOf(w).number /\ w.port # NotInt
      BY <3>1, NameFacts DEF NotInt
    <3> QED
      BY <2>1, <2>2, <3>2 DEF portNumber
  <2>3. CASE ~isNumber(w)
    BY <1>1, <2>1, <2>3 DEF portNumber
  <2> QED
    BY <2>1, <2>2, <2>3
<1>2. /\ Aliases(w) # {} => IsKnown(w)
      /\ IsKnown(w) => Aliases(w) \subseteq PortOf(w).names
  BY DEF Aliases
<1>3. ~isNumber(w) /\ portNumber(w) # -1 => IsKnown(w)
  BY DEF portNumber
<1>4. \A p \in systemPorts : w \in p.names => IsKnown(w)
  BY DEF IsKnown, containsName
<1> QED
  BY <1>1, <1>2, <1>3, <1>4

LEMMA WordFacts ==
  /\ \A w \in Words :
       /\ isNumber(w) => /\ portNumber(w) \in Nat /\ ~isName(w) /\ ~isSpan(w)
                         /\ IsInt(w) => w.port \in Nat /\ portNumber(w) = w.port
                         /\ IsInt(w) /\ w.written = 0 => w = Port(w.port)
       /\ isPort(w) => ~isValidIp(w)
       /\ portNumber(w) = -1 \/ portNumber(w) \in Nat
       /\ portNumber(w) # -1 => ~isSpan(w) /\ ~isValidIp(w)
  /\ \A n \in Nat : portNumber(Port(n)) = n /\ isNumber(Port(n))
<1>1. ASSUME NEW w \in Words, isNumber(w)
      PROVE  w \in [port : Nat \cup {NotInt}, written : Nat]
  BY <1>1 DEF isNumber, Words, Names, Rubbish
<1>2. ASSUME NEW w \in [port : Nat \cup {NotInt}, written : Nat]
      PROVE  /\ portNumber(w) \in Nat /\ ~isName(w) /\ ~isSpan(w) /\ "ip" \notin DOMAIN w
             /\ IsInt(w) => w.port \in Nat /\ portNumber(w) = w.port
             /\ IsInt(w) /\ w.written = 0 => w = Port(w.port)
  BY DEF isNumber, isName, isSpan, IsInt, Port, portNumber, NotInt
<1>3. ASSUME NEW w \in Words, portNumber(w) # -1
      PROVE  "ip" \notin DOMAIN w /\ portNumber(w) \in Nat /\ ~isSpan(w)
  <2>1. CASE isNumber(w)
    BY <1>1, <1>2, <2>1
  <2>2. CASE ~isNumber(w)
    <3>1. /\ PortOf(w) \in systemPorts /\ w \in PortOf(w).names
          /\ portNumber(w) = PortOf(w).number
      BY <1>3, <2>2, PortNumbers
    <3>2. w = Port(PortOf(w).number) \/ w \in Names
      BY <3>1, SystemPorts
    <3> QED
      BY <3>1, <3>2, SystemPorts DEF Port, Names, isSpan
  <2> QED
    BY <2>1, <2>2
<1>4. ASSUME NEW w \in Words, isPort(w) PROVE "ip" \notin DOMAIN w
  <2>1. CASE isSpan(w)
    BY <2>1 DEF isSpan, Words, Names, Rubbish
  <2>2. CASE isNumber(w)
    BY <1>1, <1>2, <2>2
  <2>3. CASE isName(w)
    BY <2>3 DEF isName, Words, Names, Rubbish
  <2>4. CASE ~isSpan(w) /\ ~isNumber(w) /\ ~isName(w)
    BY <1>3, <1>4, <2>4 DEF isPort, toLower
  <2> QED
    BY <2>1, <2>2, <2>3, <2>4
<1>5. \A n \in Nat : portNumber(Port(n)) = n /\ isNumber(Port(n))
  BY NameFacts DEF portNumber, NotInt
<1>6. \A w \in Words : portNumber(w) = -1 \/ portNumber(w) \in Nat
  BY <1>3
<1> QED
  BY <1>1, <1>2, <1>3, <1>4, <1>5, <1>6 DEF isValidIp

(* A name that the window can compare is an alias of all the other ones.     *)
LEMMA AliasFacts ==
  ASSUME NEW v, IsKnown(v), NEW w \in PortOf(v).names, Regular(v), Regular(w)
  PROVE  w \in {v} \cup Aliases(v)
<1>1. PortOf(v) \in systemPorts /\ v \in PortOf(v).names
  BY PortNumbers
<1>2. \A u \in PortOf(v).names : toLower(u) = toLower(w) => u = w
  BY <1>1 DEF Regular, containsName
<1>3. Spelling(PortOf(v), w) = w
  BY <1>2 DEF Spelling
<1>4. toLower(v) = toLower(w) => v = w
  BY <1>1, <1>2
<1> QED
  BY <1>3, <1>4 DEF Aliases

(* Words for one number are the same port.                                   *)
LEMMA SameNumber ==
  ASSUME NEW v \in Words, NEW w \in Words, portNumber(v) = portNumber(w), portNumber(v) # -1,
         Regular(v), Regular(w)
  PROVE  w \in {v} \cup Aliases(v)
<1>0. \A u \in Words : Regular(u) /\ isNumber(u) => u = Port(portNumber(u))
  BY WordFacts DEF Regular
<1>1. CASE isNumber(v) /\ isNumber(w)
  BY <1>0, <1>1
<1>2. CASE isNumber(v) /\ ~isNumber(w)
  <2>1. /\ IsKnown(w) /\ PortOf(w) \in systemPorts /\ w \in PortOf(w).names
        /\ PortOf(w).number = portNumber(w)
    BY <1>2, PortNumbers
  <2>2. v \in PortOf(w).names
    BY <1>0, <1>2, <2>1, SystemPorts
  <2>3. IsKnown(v) /\ PortOf(v) \in systemPorts /\ portNumber(v) = PortOf(v).number
    BY <2>1, <2>2, PortNumbers
  <2>4. PortOf(v) = PortOf(w)
    BY <2>1, <2>3, SystemPorts
  <2> QED
    BY <2>1, <2>3, <2>4, AliasFacts
<1>3. CASE ~isNumber(v)
  <2>1. /\ IsKnown(v) /\ PortOf(v) \in systemPorts /\ v \in PortOf(v).names
        /\ PortOf(v).number = portNumber(v)
    BY <1>3, PortNumbers
  <2>2. w \in PortOf(v).names
    <3>1. CASE isNumber(w)
      BY <1>0, <2>1, <3>1, SystemPorts
    <3>2. CASE ~isNumber(w)
      <4>1. /\ PortOf(w) \in systemPorts /\ w \in PortOf(w).names
            /\ PortOf(w).number = portNumber(w)
        BY <3>2, PortNumbers
      <4> QED
        BY <2>1, <4>1, SystemPorts
    <3> QED
      BY <3>1, <3>2
  <2> QED
    BY <2>1, <2>2, AliasFacts
<1> QED
  BY <1>1, <1>2, <1>3

-----------------------------------------------------------------------------
(* Entries, lists and files *)

(* An address has no protocol; in a list while an exception from the log is  *)
(* being applied, it may have one (Loose).                                   *)
Items ==
  {i \in [value : may.typed, protocol : Protocols, connection : Connections] :
     i.protocol = "IP" <=> isValidIp(i.value)}

Loose ==
  {e \in [value : may.typed, protocol : Protocols, connection : Connections,
          names : {{v} \cup Aliases(v) : v \in may.typed},
          was : States, now : {"on", "off"}, removed : BOOLEAN] :
     /\ e.names = {e.value} \cup Aliases(e.value)
     /\ e.protocol = "IP" => isValidIp(e.value)}

Entries == {e \in Loose : e.protocol = "IP" <=> isValidIp(e.value)}

Distinct(l) == \A x, y \in 1 .. Len(l) : x # y => ~Alike(l[x], l[y])

(* No entry is the same as one before it. *)
Separate(l) == \A x, y \in 1 .. Len(l) : x < y => ~Same(l[x], l[y])

Lists == {l \in Seq(Entries) : Distinct(l) /\ Separate(l)}

(* What an entry is, apart from its marks. *)
Core(e) == <<e.value, e.protocol, e.connection, e.names>>

(* What load makes of an item. *)
Plain(e) == e.was = e.now /\ ~e.removed

Loads == {l \in Lists : \A x \in 1 .. Len(l) : Plain(l[x])}

Values(g) == {v \in may.typed : g[1] = "IP" <=> isValidIp(v)}

Files == {f \in [Groups -> Seq(may.typed)] : \A g \in Groups : f[g] \in Seq(Values(g))}

(* The loaded entries, perhaps changed, and behind them what was added. *)
Edits(L) ==
  {l \in Lists :
     /\ Len(L) <= Len(l)
     /\ \A x \in 1 .. Len(l) : IF x <= Len(L) THEN Undone(l[x]) = L[x]
                                              ELSE isAdded(l[x])}

WhitelistInv ==
  /\ may \in Worlds
  /\ conf \in Files /\ off \in Files
  /\ list \in Edits(load(conf, off))

LEMMA WorldFacts ==
  ASSUME may \in Worlds
  PROVE  /\ may.typed \subseteq Words /\ may.connections \subseteq Connections
         /\ may.protocols \subseteq Protocols \ {"IP"}
  BY WhitelistAssumption

(* The same rule does not depend on the order, or on the marks. *)
LEMMA AlikeFacts ==
  /\ \A d, e : Alike(d, e) => Alike(e, d)
  /\ \A d, e, i : d.value = e.value /\ RuleOf(d) = RuleOf(e) => (Alike(i, d) <=> Alike(i, e))
  BY DEF Alike, Comparable

(* An entry for the rule of an item is the same. *)
LEMMA SameRule ==
  ASSUME may \in Worlds, NEW e \in Entries, NEW i \in Items, Alike(e, i)
  PROVE  Same(e, i)
<1>1. e.value \in Words /\ i.value \in Words
  BY WorldFacts DEF Entries, Loose, Items
<1>2. /\ e.names = {e.value} \cup Aliases(e.value)
      /\ e.protocol \in Protocols /\ i.protocol \in Protocols
      /\ e.protocol = "IP" <=> isValidIp(e.value)
      /\ i.protocol = "IP" <=> isValidIp(i.value)
  BY DEF Entries, Loose, Items
<1>3. /\ e.protocol = i.protocol /\ e.connection = i.connection
      /\ Meaning(e.value) = Meaning(i.value)
  BY <1>2 DEF RuleOf, Alike
<1>4. i.value \in e.names \/ containsPort(e.value, i.value)
  <2>0. /\ \A m, n : Port(m) = Port(n) => m = n
        /\ \A a, b, n : Span(a, b) # Port(n) /\ isSpan(Span(a, b))
        /\ \A a, b, c, d : Span(a, b) = Span(c, d) => a = c /\ b = d
        /\ \A n : ~isSpan(Port(n))
    BY DEF Port, Span, isSpan
  <2>1. CASE e.value = i.value
    BY <1>2, <2>1
  <2>2. CASE IsInt(e.value) /\ IsInt(i.value)
    <3>1. portNumber(e.value) = e.value.port /\ portNumber(i.value) = i.value.port
      BY <1>1, <2>2, WordFacts DEF IsInt
    <3>2. portNumber(e.value) \in Nat /\ portNumber(i.value) \in Nat
      BY <1>1, <2>2, WordFacts DEF IsInt
    <3>3. ~isSpan(e.value) /\ ~isSpan(i.value)
      BY <1>1, <2>2, WordFacts DEF IsInt
    <3>4. e.value.port = i.value.port
      BY <1>3, <2>0, <3>1, <3>2, <3>3 DEF Meaning
    <3> QED
      BY <2>2, <3>4 DEF containsPort
  <2>3. CASE Regular(e.value) /\ Regular(i.value) /\ isSpan(e.value)
    <3>1. isSpan(i.value)
      <4>1. CASE portNumber(i.value) # -1 /\ ~isSpan(i.value)
        BY <1>3, <2>0, <2>3, <4>1 DEF Meaning
      <4>2. CASE portNumber(i.value) = -1 /\ ~isSpan(i.value)
        BY <1>3, <2>0, <2>3, <4>2 DEF Meaning
      <4> QED
        BY <4>1, <4>2
    <3>2. e.value.from = i.value.from /\ EndOf(e.value) = EndOf(i.value)
      BY <1>3, <2>0, <2>3, <3>1 DEF Meaning
    <3>3. \A w \in Words : isSpan(w) => w.from \in Nat /\ w.to \in Nat \cup {NotInt}
      BY DEF isSpan, Words, Names, Rubbish
    <3>4. /\ e.value.from <= i.value.from
          /\ i.value.to = NotInt \/ i.value.to <= EndOf(e.value)
      BY <1>1, <2>3, <3>1, <3>2, <3>3 DEF EndOf, NotInt, LastPort
    <3> QED
      BY <2>3, <3>1, <3>4 DEF containsPort
  <2>4. CASE Regular(e.value) /\ Regular(i.value) /\ ~isSpan(e.value)
    <3>1. ~isSpan(i.value)
      <4>1. CASE portNumber(e.value) # -1 /\ isSpan(i.value)
        BY <1>3, <2>0, <2>4, <4>1 DEF Meaning
      <4>2. CASE portNumber(e.value) = -1 /\ isSpan(i.value)
        BY <1>3, <2>0, <2>4, <4>2 DEF Meaning
      <4> QED
        BY <4>1, <4>2
    <3>2. CASE portNumber(e.value) = -1 /\ portNumber(i.value) = -1
      BY <1>3, <2>1, <2>4, <3>1, <3>2 DEF Meaning
    <3>3. CASE portNumber(e.value) # -1 /\ portNumber(i.value) # -1
      <4>1. portNumber(e.value) = portNumber(i.value)
        BY <1>3, <2>0, <2>4, <3>1, <3>3 DEF Meaning
      <4> QED
        BY <1>1, <1>2, <2>4, <3>3, <4>1, SameNumber
    <3>4. \A v, w \in Words : portNumber(v) # -1 /\ w = Port(portNumber(v)) => portNumber(w) # -1
      BY WordFacts
    <3>5. CASE portNumber(e.value) = -1 /\ portNumber(i.value) # -1
      BY <1>1, <1>3, <2>4, <3>1, <3>4, <3>5 DEF Meaning
    <3>6. CASE portNumber(e.value) # -1 /\ portNumber(i.value) = -1
      BY <1>1, <1>3, <2>4, <3>1, <3>4, <3>6 DEF Meaning
    <3> QED
      BY <3>2, <3>3, <3>5, <3>6
  <2> QED
    BY <2>1, <2>2, <2>3, <2>4 DEF Alike, Comparable
<1> QED
  BY <1>3, <1>4 DEF Same

LEMMA Least ==
  ASSUME NEW t \in SUBSET Nat, t # {}
  PROVE  Min(t) \in t /\ \A m \in t : Min(t) <= m
<1>1. IsWellFoundedOn(OpToRel(<, Nat), Nat)
  BY NatLessThanWellFounded
<1>2. PICK m \in t : \A n \in t : ~(<<n, m>> \in OpToRel(<, Nat))
  BY <1>1, WFMin, Zenon
<1>3. \A n \in t : m <= n
  <2>1. ASSUME NEW n \in t, n < m PROVE FALSE
    BY <1>2, <2>1 DEF OpToRel
  <2> QED
    BY <2>1
<1> QED
  BY <1>3 DEF Min

LEMMA Indexed ==
  ASSUME NEW l, NEW i, Len(l) \in Nat
  PROVE  /\ indexOfItem(l, i) = 0 <=> \A x \in 1 .. Len(l) : ~Same(l[x], i)
         /\ indexOfItem(l, i) # 0 =>
              /\ indexOfItem(l, i) \in 1 .. Len(l) /\ Same(l[indexOfItem(l, i)], i)
              /\ \A x \in 1 .. Len(l) : x < indexOfItem(l, i) => ~Same(l[x], i)
<1> DEFINE hits == {x \in 1 .. Len(l) : Same(l[x], i)}
<1>1. indexOfItem(l, i) = IF hits = {} THEN 0 ELSE Min(hits)
  BY DEF indexOfItem
<1>2. \A x \in 1 .. Len(l) : x \in hits <=> Same(l[x], i)
  OBVIOUS
<1>3. hits \in SUBSET (1 .. Len(l)) /\ hits \in SUBSET Nat /\ 0 \notin hits
  OBVIOUS
<1> HIDE DEF hits
<1>4. hits # {} => Min(hits) \in hits /\ \A x \in hits : Min(hits) <= x
  BY <1>3, Least
<1>5. CASE hits = {}
  BY <1>1, <1>2, <1>5
<1>6. CASE hits # {}
  <2>1. Min(hits) \in 1 .. Len(l) /\ Min(hits) \in hits /\ Min(hits) # 0
    BY <1>3, <1>4, <1>6
  <2>2. indexOfItem(l, i) = Min(hits)
    BY <1>1, <1>6
  <2>3. Same(l[Min(hits)], i)
    BY <1>2, <2>1
  <2>4. ASSUME NEW x \in 1 .. Len(l), x < Min(hits) PROVE ~Same(l[x], i)
    <3>1. x \notin hits
      BY <1>4, <1>6, <2>1, <2>4
    <3> QED
      BY <1>2, <3>1
  <2> QED
    BY <2>1, <2>2, <2>3, <2>4
<1> QED
  BY <1>5, <1>6

(* The rule of an entry does not depend on its marks. *)
LEMMA EntryFacts ==
  ASSUME NEW i \in Items, NEW was \in States, NEW now \in {"on", "off"}
  PROVE  /\ Entry(i, was, now) \in Entries /\ RuleOf(Entry(i, was, now)) = RuleOf(i)
         /\ Entry(i, was, now).value = i.value
         /\ \A e : Same(e, Entry(i, was, now)) <=> Same(e, i)
         /\ Plain(Entry(i, was, now)) <=> was = now
         /\ isAdded(Entry(i, was, now)) <=> was = "absent"
<1>1. Entry(i, was, now) \in Entries
  BY DEF Entry, Entries, Loose, Items
<1> QED
  BY <1>1 DEF Entry, RuleOf, Plain, isAdded, Same

LEMMA CoreFacts ==
  ASSUME NEW d, NEW e, Core(d) = Core(e)
  PROVE  /\ RuleOf(d) = RuleOf(e) /\ getGroup(d) = getGroup(e) /\ d.value = e.value
         /\ \A f : (Same(d, f) <=> Same(e, f)) /\ (Same(f, d) <=> Same(f, e))
         /\ \A i : LetsThrough(d, i) <=> LetsThrough(e, i)
<1>1. /\ d.value = e.value /\ d.protocol = e.protocol /\ d.connection = e.connection
      /\ d.names = e.names
  BY DEF Core
<1> QED
  BY <1>1 DEF RuleOf, getGroup, Same, LetsThrough

LEMMA Appended ==
  ASSUME NEW S, NEW l \in Seq(S), NEW e \in S
  PROVE  /\ Append(l, e) \in Seq(S) /\ Len(Append(l, e)) = Len(l) + 1
         /\ \A x \in 1 .. Len(l) : Append(l, e)[x] = l[x]
         /\ Append(l, e)[Len(l) + 1] = e
  OBVIOUS

(* addItem, also when the new item is only kept for the application. *)
LEMMA AddKeeps ==
  ASSUME may \in Worlds, NEW l \in Lists, NEW i \in Items,
         NEW was \in States, NEW now \in {"on", "off"}
  PROVE  /\ addItem(l, i, was, now) \in Lists
         /\ l \in Loads /\ was = now => addItem(l, i, was, now) \in Loads
<1> DEFINE e == Entry(i, was, now)
           k == Append(l, e)
<1>1. l \in Seq(Entries) /\ Distinct(l) /\ Separate(l)
  BY DEF Lists
<1>2. /\ e \in Entries /\ RuleOf(e) = RuleOf(i) /\ e.value = i.value /\ (was = now => Plain(e))
      /\ \A d : Same(d, e) <=> Same(d, i)
  BY EntryFacts
<1>3. CASE indexOfItem(l, i) # 0
  BY <1>3 DEF addItem
<1>4. CASE indexOfItem(l, i) = 0
  <2>1. \A x \in 1 .. Len(l) : ~Alike(l[x], e) /\ ~Alike(e, l[x]) /\ ~Same(l[x], e)
    <3>1. \A x \in 1 .. Len(l) : l[x] \in Entries /\ ~Same(l[x], i)
      BY <1>1, <1>4, Indexed
    <3>2. \A x \in 1 .. Len(l) : ~Alike(l[x], i)
      BY <3>1, SameRule
    <3> HIDE DEF e
    <3> QED
      BY <1>2, <3>1, <3>2, AlikeFacts
  <2> HIDE DEF e
  <2>2. /\ k \in Seq(Entries) /\ Len(k) = Len(l) + 1
        /\ \A x \in 1 .. Len(l) : k[x] = l[x]
        /\ k[Len(l) + 1] = e
    BY <1>1, <1>2, Appended
  <2> HIDE DEF k
  <2>3. \A x \in 1 .. Len(k) : x \in 1 .. Len(l) \/ x = Len(l) + 1
    BY <1>1, <2>2
  <2>4. Distinct(k) /\ Separate(k)
    <3>1. Distinct(k)
      BY <1>1, <2>1, <2>2, <2>3 DEF Distinct
    <3>2. Separate(k)
      BY <1>1, <2>1, <2>2, <2>3 DEF Separate
    <3> QED
      BY <3>1, <3>2
  <2>5. k \in Lists
    BY <2>2, <2>4 DEF Lists
  <2>6. l \in Loads /\ was = now => k \in Loads
    BY <1>2, <2>2, <2>3, <2>5 DEF Loads
  <2>7. addItem(l, i, was, now) = k
    BY <1>4 DEF addItem, k, e
  <2> QED
    BY <2>5, <2>6, <2>7
<1> QED
  BY <1>3, <1>4

(* What is in a file. *)
LEMMA GroupsFinite == IsFiniteSet(Groups)
<1>1. IsFiniteSet(Protocols) /\ IsFiniteSet(Connections)
  <2>1. IsFiniteSet({}) /\ \A S, x : IsFiniteSet(S) => IsFiniteSet(S \cup {x})
    BY FS_EmptySet, FS_AddElement
  <2>2. Protocols = (({} \cup {"IP"}) \cup {"TCP"}) \cup {"UDP"}
    BY DEF Protocols
  <2>3. Connections = (({} \cup {"Incoming"}) \cup {"Outgoing"}) \cup {"Forward"}
    BY DEF Connections
  <2> QED
    BY <2>1, <2>2, <2>3
<1> QED
  BY <1>1, FS_Product DEF Groups

LEMMA ItemsFiled ==
  ASSUME NEW f \in Files
  PROVE  ItemsIn(f) \in Seq(Items)
<1> DEFINE S == {g \in Groups : f[g] # <<>>}
           gs == SetToSeq(S)
           values(g) == [n \in 1 .. Len(f[g]) |-> Item(f[g][n], g)]
           all == [n \in 1 .. Len(gs) |-> values(gs[n])]
<1>1. IsFiniteSet(S)
  BY GroupsFinite, FS_Subset
<1>2. gs \in Seq(S)
  BY <1>1, InOrder
<1>3. ASSUME NEW g \in Groups PROVE values(g) \in Seq(Items)
  <2>1. f[g] \in Seq(Values(g)) /\ g[1] \in Protocols /\ g[2] \in Connections
    BY DEF Files, Groups
  <2>2. ASSUME NEW n \in 1 .. Len(f[g]) PROVE Item(f[g][n], g) \in Items
    <3>1. f[g][n] \in Values(g)
      BY <2>1
    <3> QED
      BY <2>1, <3>1 DEF Item, Items, Values
  <2> QED
    BY <2>1, <2>2
<1>4. all \in Seq(Seq(Items))
  <2> HIDE DEF gs, values
  <2>1. \A n \in 1 .. Len(gs) : gs[n] \in Groups
    BY <1>2
  <2>2. \A n \in 1 .. Len(gs) : values(gs[n]) \in Seq(Items)
    BY <1>3, <2>1
  <2>3. Len(gs) \in Nat
    BY <1>2
  <2> QED
    BY <2>2, <2>3
<1>5. ItemsIn(f) = FlattenSeq(all)
  BY DEF ItemsIn
<1> HIDE DEF all
<1>6. PICK F \in [0 .. Len(all) -> Seq(Items)] : F[Len(all)] = FlattenSeq(all)
  BY <1>4, FlattenFold
<1>7. Len(all) \in 0 .. Len(all)
  BY <1>4
<1> QED
  BY <1>5, <1>6, <1>7

(* What is read is a list, without marks. *)
LEMMA LoadFolds ==
  ASSUME may \in Worlds, NEW l \in Loads, NEW s \in Seq(Items), NEW was \in {"on", "off"}
  PROVE  Adds(l, s, was, was) \in Loads
<1>1. AddsWithin(Loads, Items, was, was)
  BY AddKeeps DEF Loads, States, AddsWithin
<1>2. PICK F \in [0 .. Len(s) -> Loads] :
        F[Len(s)] = Adds(l, s, was, was)
  BY <1>1, AddFold
<1>3. Len(s) \in 0 .. Len(s)
  OBVIOUS
<1> QED
  BY <1>2, <1>3

LEMMA LoadIsList ==
  ASSUME may \in Worlds, NEW c \in Files, NEW o \in Files
  PROVE  load(c, o) \in Loads
<1>1. <<>> \in Loads
  BY DEF Loads, Lists, Distinct, Separate
<1> DEFINE a == Adds(<<>>, ItemsIn(c), "on", "on")
<1>2. ItemsIn(c) \in Seq(Items) /\ ItemsIn(o) \in Seq(Items)
  BY ItemsFiled
<1>3. a \in Loads
  BY <1>1, <1>2, LoadFolds
<1>4. load(c, o) = Adds(a, ItemsIn(o), "off", "off")
  BY DEF load, Adds
<1> HIDE DEF a
<1> QED
  BY <1>2, <1>3, <1>4, LoadFolds

(* What is written is a file. *)
LEMMA RemoveKeeps ==
  ASSUME NEW V, NEW s \in Seq(V), NEW v
  PROVE  remove(s, v) \in Seq(V)
<1> DEFINE A == Seq(V)
<1>1. RemovesWithin(A, V, v) /\ <<>> \in A
  BY DEF RemovesWithin
<1> HIDE DEF A
<1>2. \E F \in [0 .. Len(s) -> A] :
        /\ F[0] = <<>>
        /\ \A k \in 1 .. Len(s) : F[k] = IF s[k] = v THEN F[k - 1] ELSE Append(F[k - 1], s[k])
        /\ F[Len(s)] = remove(s, v)
  BY <1>1, RemoveFold
<1>3. Len(s) \in 0 .. Len(s)
  OBVIOUS
<1> QED
  BY <1>2, <1>3 DEF A

LEMMA PutKeeps ==
  ASSUME NEW f \in Files, NEW e \in Loose, NEW b
  PROVE  Put(f, e, b) \in Files
<1> DEFINE g == getGroup(e)
           s == IF b THEN add(f[g], e.value) ELSE remove(f[g], e.value)
<1>1. e.value \in Values(g) /\ g \in Groups
  BY DEF Loose, getGroup, Values, Groups, Protocols
<1>2. f \in [Groups -> Seq(may.typed)] /\ \A h \in Groups : f[h] \in Seq(Values(h))
  BY DEF Files
<1>3. Put(f, e, b) = [f EXCEPT ![g] = s]
  BY DEF Put
<1> HIDE DEF g
<1>4. s \in Seq(Values(g))
  <2>1. add(f[g], e.value) \in Seq(Values(g))
    BY <1>1, <1>2 DEF add
  <2>2. remove(f[g], e.value) \in Seq(Values(g))
    BY <1>1, <1>2, RemoveKeeps
  <2> QED
    BY <2>1, <2>2
<1>5. s \in Seq(may.typed)
  <2>1. Values(g) \subseteq may.typed
    BY DEF Values
  <2> HIDE DEF s
  <2> QED
    BY <1>4, <2>1
<1> HIDE DEF s
<1> QED
  BY <1>1, <1>2, <1>3, <1>4, <1>5 DEF Files

LEMMA UpdatesKeep ==
  ASSUME conf \in Files, off \in Files, NEW l \in Seq(Loose)
  PROVE  updatePglSettings(l) \in Files /\ updateGuiSettings(l) \in Files
<1>1. PglWithin(Files, Loose)
  BY PutKeeps DEF PglWithin
<1>2. GuiWithin(Files, Loose)
  BY PutKeeps DEF GuiWithin
<1>3. Len(l) \in 0 .. Len(l)
  OBVIOUS
<1>4. PICK F \in [0 .. Len(l) -> Files] : F[Len(l)] = updatePglSettings(l)
  BY <1>1, PglFold
<1>5. PICK G \in [0 .. Len(l) -> Files] : G[Len(l)] = updateGuiSettings(l)
  BY <1>2, GuiFold
<1> QED
  BY <1>3, <1>4, <1>5

-----------------------------------------------------------------------------
(* The list is edited *)

LEMMA Unmarked ==
  ASSUME NEW L \in Loads
  PROVE  /\ L \in Edits(L)
         /\ \A x \in 1 .. Len(L) : /\ L[x] \in Entries /\ Undone(L[x]) = L[x]
                                   /\ ~isAdded(L[x]) /\ ~isChanged(L[x])
<1>1. L \in Lists /\ L \in Seq(Entries)
  BY DEF Loads, Lists
<1>2. ASSUME NEW x \in 1 .. Len(L)
      PROVE  /\ L[x] \in Entries /\ Undone(L[x]) = L[x]
             /\ ~isAdded(L[x]) /\ ~isChanged(L[x])
  <2>1. L[x] \in Entries /\ Plain(L[x])
    BY <1>1 DEF Loads
  <2> QED
    BY <2>1 DEF Entries, Loose, Plain, Undone, isAdded, isChanged
<1> QED
  BY <1>1, <1>2 DEF Edits

(* An entry is given other marks. *)
LEMMA Remarked ==
  ASSUME NEW L, NEW l \in Edits(L), NEW x \in 1 .. Len(l),
         NEW e \in Entries, Core(e) = Core(l[x]), Undone(e) = Undone(l[x]),
         isAdded(e) <=> isAdded(l[x])
  PROVE  [l EXCEPT ![x] = e] \in Edits(L)
<1> DEFINE k == [l EXCEPT ![x] = e]
<1>1. l \in Seq(Entries) /\ Distinct(l) /\ Separate(l)
  BY DEF Edits, Lists
<1>2. /\ k \in Seq(Entries) /\ Len(k) = Len(l) /\ k[x] = e
      /\ \A y \in 1 .. Len(l) : y # x => k[y] = l[y]
  BY <1>1
<1> HIDE DEF k
<1>3. \A y \in 1 .. Len(l) : /\ Core(k[y]) = Core(l[y]) /\ Undone(k[y]) = Undone(l[y])
                             /\ isAdded(k[y]) <=> isAdded(l[y])
  BY <1>2
<1>4. Distinct(k) /\ Separate(k)
  <2>1. \A y, z \in 1 .. Len(l) : Alike(k[y], k[z]) => Alike(l[y], l[z])
    <3>1. \A y \in 1 .. Len(l) : RuleOf(k[y]) = RuleOf(l[y]) /\ k[y].value = l[y].value
      BY <1>3, CoreFacts
    <3> QED
      BY <3>1 DEF Alike
  <2>2. \A y, z \in 1 .. Len(l) : Same(k[y], k[z]) <=> Same(l[y], l[z])
    <3>1. ASSUME NEW y \in 1 .. Len(l), NEW z \in 1 .. Len(l)
          PROVE  Same(k[y], k[z]) <=> Same(l[y], l[z])
      <4>1. Core(k[y]) = Core(l[y]) /\ Core(k[z]) = Core(l[z])
        BY <1>3
      <4>2. Same(k[y], k[z]) <=> Same(l[y], k[z])
        BY <4>1, CoreFacts
      <4>3. Same(l[y], k[z]) <=> Same(l[y], l[z])
        BY <4>1, CoreFacts
      <4> QED
        BY <4>2, <4>3
    <3> QED
      BY <3>1
  <2> QED
    BY <1>1, <1>2, <2>1, <2>2 DEF Distinct, Separate
<1>5. k \in Edits(L)
  BY <1>2, <1>3, <1>4 DEF Edits, Lists
<1> QED
  BY <1>5 DEF k

LEMMA MarkFacts ==
  ASSUME NEW e \in Entries, NEW now \in {"on", "off"}, NEW r \in BOOLEAN
  PROVE  LET u == [e EXCEPT !.now = now, !.removed = r]
         IN  /\ u \in Entries /\ Core(u) = Core(e) /\ Undone(u) = Undone(e)
             /\ isAdded(u) <=> isAdded(e)
<1> DEFINE u == [e EXCEPT !.now = now, !.removed = r]
<1>1. e \in Loose
  BY DEF Entries
<1>2. u \in Entries
  BY DEF Entries, Loose
<1>3. Core(u) = Core(e)
  BY <1>1 DEF Core, Loose
<1>4. Undone(u) = Undone(e)
  BY <1>1 DEF Undone, Loose
<1>5. isAdded(u) <=> isAdded(e)
  BY <1>1 DEF isAdded, Loose
<1> QED
  BY <1>2, <1>3, <1>4, <1>5

LEMMA MarkKeeps ==
  ASSUME NEW L, NEW l \in Edits(L), NEW x \in 1 .. Len(l),
         NEW now \in {"on", "off"}, NEW r \in BOOLEAN
  PROVE  [l EXCEPT ![x] = [@ EXCEPT !.now = now, !.removed = r]] \in Edits(L)
<1> DEFINE e == [l[x] EXCEPT !.now = now, !.removed = r]
<1>1. l[x] \in Entries
  BY DEF Edits, Lists
<1>2. /\ e \in Entries /\ Core(e) = Core(l[x]) /\ Undone(e) = Undone(l[x])
      /\ (isAdded(e) <=> isAdded(l[x]))
  BY <1>1, MarkFacts
<1> HIDE DEF e
<1>3. [l EXCEPT ![x] = e] \in Edits(L)
  BY <1>2, Remarked
<1> QED
  BY <1>3 DEF e

(* An entry is added. *)
LEMMA AppendKeeps ==
  ASSUME NEW L \in Loads, NEW l \in Edits(L), NEW e \in Entries, isAdded(e),
         \A x \in 1 .. Len(l) : ~Alike(l[x], e) /\ ~Alike(e, l[x]) /\ ~Same(l[x], e)
  PROVE  Append(l, e) \in Edits(L)
<1> DEFINE k == Append(l, e)
<1>1. l \in Seq(Entries) /\ Distinct(l) /\ Separate(l) /\ Len(L) <= Len(l) /\ Len(L) \in Nat
  BY DEF Edits, Lists, Loads
<1>2. /\ k \in Seq(Entries) /\ Len(k) = Len(l) + 1 /\ k[Len(l) + 1] = e
      /\ \A y \in 1 .. Len(l) : k[y] = l[y]
  BY <1>1, Appended
<1> HIDE DEF k
<1>3. \A y \in 1 .. Len(k) : y \in 1 .. Len(l) \/ (y = Len(l) + 1 /\ ~(y <= Len(L)))
  BY <1>1, <1>2
<1>4. Distinct(k) /\ Separate(k)
  <2>1. Distinct(k)
    BY <1>1, <1>2, <1>3 DEF Distinct
  <2>2. Separate(k)
    BY <1>1, <1>2, <1>3 DEF Separate
  <2> QED
    BY <2>1, <2>2
<1>5. \A y \in 1 .. Len(l) : IF y <= Len(L) THEN Undone(l[y]) = L[y] ELSE isAdded(l[y])
  BY DEF Edits
<1>6. \A y \in 1 .. Len(k) : IF y <= Len(L) THEN Undone(k[y]) = L[y] ELSE isAdded(k[y])
  BY <1>2, <1>3, <1>5
<1>7. k \in Edits(L)
  BY <1>1, <1>2, <1>4, <1>6 DEF Edits, Lists
<1> QED
  BY <1>7 DEF k

LEMMA EnableKeeps ==
  ASSUME may \in Worlds, NEW L \in Loads, NEW l \in Edits(L), NEW i \in Items
  PROVE  addOrEnable(l, i) \in Edits(L)
<1> DEFINE e == Entry(i, "absent", "on")
           x == indexOfItem(l, i)
<1>1. l \in Seq(Entries)
  BY DEF Edits, Lists
<1>2. CASE x = 0
  <2>1. /\ e \in Entries /\ RuleOf(e) = RuleOf(i) /\ e.value = i.value /\ isAdded(e)
        /\ \A d : Same(d, e) <=> Same(d, i)
    BY EntryFacts DEF States
  <2> HIDE DEF e
  <2>2. \A y \in 1 .. Len(l) : ~Alike(l[y], e) /\ ~Alike(e, l[y]) /\ ~Same(l[y], e)
    <3>1. \A y \in 1 .. Len(l) : l[y] \in Entries /\ ~Same(l[y], i)
      BY <1>1, <1>2, Indexed
    <3>2. \A y \in 1 .. Len(l) : ~Alike(l[y], i)
      BY <3>1, SameRule
    <3> QED
      BY <2>1, <3>1, <3>2, AlikeFacts
  <2>3. Append(l, e) \in Edits(L)
    BY <2>1, <2>2, AppendKeeps
  <2> QED
    BY <1>2, <2>3 DEF addOrEnable, e
<1>3. CASE x # 0
  <2>1. x \in 1 .. Len(l)
    BY <1>1, <1>3, Indexed
  <2>2. addOrEnable(l, i) = [l EXCEPT ![x] = [@ EXCEPT !.now = "on", !.removed = FALSE]]
    BY <1>1, <1>3, <2>1 DEF addOrEnable
  <2> HIDE DEF x
  <2>3. [l EXCEPT ![x] = [@ EXCEPT !.now = "on", !.removed = FALSE]] \in Edits(L)
    BY <2>1, MarkKeeps
  <2> QED
    BY <2>2, <2>3
<1> QED
  BY <1>2, <1>3

LEMMA EnablesKeep ==
  ASSUME may \in Worlds, NEW L \in Loads, NEW l \in Edits(L), NEW s \in Seq(Items)
  PROVE  Enables(l, s) \in Edits(L)
<1> DEFINE A == Edits(L)
<1>1. EnablesWithin(A, Items)
  BY EnableKeeps DEF EnablesWithin
<1> HIDE DEF A
<1>2. l \in A
  BY DEF A
<1>3. PICK F \in [0 .. Len(s) -> A] : F[Len(s)] = Enables(l, s)
  BY <1>1, <1>2, EnableFold
<1>4. Len(s) \in 0 .. Len(s)
  OBVIOUS
<1> QED
  BY <1>3, <1>4 DEF A

(* An entry that was added is removed at once. *)
LEMMA RemoveAtElements ==
  ASSUME NEW S, NEW l \in Seq(S), NEW x \in 1 .. Len(l)
  PROVE  /\ RemoveAt(l, x) \in Seq(S) /\ Len(RemoveAt(l, x)) = Len(l) - 1
         /\ \A y \in 1 .. Len(RemoveAt(l, x)) :
              RemoveAt(l, x)[y] = l[IF y < x THEN y ELSE y + 1]
<1> DEFINE k == RemoveAt(l, x)
<1>1. l \in Seq(S) /\ Len(l) \in Nat
  OBVIOUS
<1>2. /\ k \in Seq(S) /\ Len(k) = Len(l) - 1
      /\ \A y \in 1 .. Len(k) : k[y] = l[IF y < x THEN y ELSE y + 1]
  <2> DEFINE a == SubSeq(l, 1, x - 1)
             b == SubSeq(l, x + 1, Len(l))
  <2>1. /\ a \in Seq(S) /\ Len(a) = x - 1
        /\ \A y \in 1 .. Len(a) : a[y] = l[y]
    BY <1>1
  <2>2. /\ b \in Seq(S) /\ Len(b) = Len(l) - x
        /\ \A y \in 1 .. Len(b) : b[y] = l[x + y]
    BY <1>1
  <2>3. k = a \o b
    BY DEF RemoveAt
  <2> HIDE DEF a, b, k
  <2>4. k \in Seq(S) /\ Len(k) = Len(l) - 1
    <3>1. k \in Seq(S) /\ Len(k) = Len(a) + Len(b)
      BY <2>1, <2>2, <2>3, ConcatProperties, Zenon
    <3> QED
      BY <1>1, <2>1, <2>2, <3>1
  <2>5. ASSUME NEW y \in 1 .. Len(k) PROVE k[y] = l[IF y < x THEN y ELSE y + 1]
    <3>1. CASE y < x
      <4>1. y \in 1 .. Len(a) /\ k[y] = a[y]
        BY <1>1, <2>1, <2>2, <2>3, <2>4, <3>1
      <4> QED
        BY <2>1, <3>1, <4>1
    <3>2. CASE ~(y < x)
      <4>1. y - (x - 1) \in 1 .. Len(b) /\ k[y] = b[y - (x - 1)]
        BY <1>1, <2>1, <2>2, <2>3, <2>4, <3>2
      <4>2. x + (y - (x - 1)) = y + 1
        BY <1>1, <2>4
      <4> QED
        BY <2>2, <3>2, <4>1, <4>2
    <3> QED
      BY <3>1, <3>2
  <2> QED
    BY <2>4, <2>5
<1> QED
  BY <1>2

LEMMA RemoveAtKeeps ==
  ASSUME NEW L \in Loads, NEW l \in Edits(L), NEW x \in 1 .. Len(l), isAdded(l[x])
  PROVE  RemoveAt(l, x) \in Edits(L)
<1> DEFINE k == RemoveAt(l, x)
<1>1. l \in Seq(Entries) /\ Distinct(l) /\ Separate(l) /\ Len(L) <= Len(l) /\ Len(L) \in Nat /\ Len(l) \in Nat
  BY DEF Edits, Lists, Loads
<1>2. \A y \in 1 .. Len(l) : IF y <= Len(L) THEN Undone(l[y]) = L[y] ELSE isAdded(l[y])
  BY DEF Edits
<1>3. ~(x <= Len(L))
  <2>1. ASSUME x <= Len(L) PROVE FALSE
    <3>1. x \in 1 .. Len(L)
      BY <1>1, <2>1
    <3>2. ~isAdded(L[x]) /\ L[x] = Undone(l[x])
      BY <1>2, <2>1, <3>1, Unmarked
    <3>3. l[x] \in Loose
      BY <1>1 DEF Entries
    <3> QED
      BY <3>2, <3>3 DEF isAdded, Undone, Loose
  <2> QED
    BY <2>1
<1>4. /\ k \in Seq(Entries) /\ Len(k) = Len(l) - 1
      /\ \A y \in 1 .. Len(k) : k[y] = l[IF y < x THEN y ELSE y + 1]
  BY <1>1, RemoveAtElements
<1> HIDE DEF k
<1> DEFINE at(y) == IF y < x THEN y ELSE y + 1
<1>5. \A y \in 1 .. Len(k) : at(y) \in 1 .. Len(l) /\ k[y] = l[at(y)]
  BY <1>1, <1>4
<1>6. \A y, z \in 1 .. Len(k) : (y # z => at(y) # at(z)) /\ (y < z => at(y) < at(z))
  BY <1>1, <1>4
<1>7. \A y \in 1 .. Len(k) : IF y <= Len(L) THEN at(y) = y ELSE ~(at(y) <= Len(L))
  BY <1>1, <1>3, <1>4
<1> HIDE DEF at
<1>8. Distinct(k) /\ Separate(k)
  <2>1. Distinct(k)
    BY <1>1, <1>5, <1>6 DEF Distinct
  <2>2. Separate(k)
    BY <1>1, <1>5, <1>6 DEF Separate
  <2> QED
    BY <2>1, <2>2
<1>9. \A y \in 1 .. Len(k) : IF y <= Len(L) THEN Undone(k[y]) = L[y] ELSE isAdded(k[y])
  BY <1>2, <1>5, <1>7
<1>10. Len(L) <= Len(k)
  BY <1>1, <1>3, <1>4
<1>11. k \in Edits(L)
  BY <1>4, <1>8, <1>9, <1>10 DEF Edits, Lists
<1> QED
  BY <1>11 DEF k

(* Undoing gives what was loaded. *)
LEMMA UndoesEdits ==
  ASSUME NEW L \in Loads, NEW l \in Edits(L)
  PROVE  Undoes(l) = L
<1>1. l \in Seq(Entries) /\ Len(L) <= Len(l) /\ Len(L) \in Nat /\ Len(l) \in Nat
  BY DEF Edits, Lists, Loads
<1>2. L \in Seq(Entries)
  BY DEF Loads, Lists
<1>3. \A x \in 1 .. Len(l) : IF x <= Len(L) THEN Undone(l[x]) = L[x] ELSE isAdded(l[x])
  BY DEF Edits
<1>4. ASSUME NEW x \in 1 .. Len(L) PROVE ~isAdded(l[x]) /\ Undone(l[x]) = L[x]
  <2>1. x \in 1 .. Len(l) /\ l[x] \in Loose /\ L[x] = Undone(l[x]) /\ ~isAdded(L[x])
    BY <1>1, <1>3, Unmarked DEF Entries
  <2> QED
    BY <2>1 DEF isAdded, Undone, Loose
<1> DEFINE A == Seq(Entries)
<1>5. UndoesWithin(A, Entries) /\ <<>> \in A
  <2>1. \A e \in Entries : Undone(e) \in Entries \/ isAdded(e)
    BY DEF Undone, Entries, Loose, isAdded, States
  <2> QED
    BY <2>1 DEF UndoesWithin
<1> HIDE DEF A
<1>6. PICK F \in [0 .. Len(l) -> A] :
        /\ F[0] = <<>>
        /\ \A k \in 1 .. Len(l) :
             F[k] = IF isAdded(l[k]) THEN F[k - 1] ELSE Append(F[k - 1], Undone(l[k]))
        /\ F[Len(l)] = Undoes(l)
  BY <1>1, <1>5, UndoFold
<1> DEFINE P == {k \in Nat : k <= Len(l) =>
                   F[k] = IF k <= Len(L) THEN SubSeq(L, 1, k) ELSE L}
<1>7. 0 \in P
  <2>1. SubSeq(L, 1, 0) = <<>>
    BY <1>2
  <2>2. 0 <= Len(L) /\ F[0] = <<>>
    BY <1>1, <1>6
  <2> QED
    BY <2>1, <2>2
<1>8. ASSUME NEW k \in P PROVE k + 1 \in P
  <2> SUFFICES ASSUME k + 1 <= Len(l)
               PROVE  F[k + 1] = IF k + 1 <= Len(L) THEN SubSeq(L, 1, k + 1) ELSE L
    OBVIOUS
  <2>1. k \in Nat /\ k + 1 \in 1 .. Len(l) /\ (k + 1) - 1 = k /\ k <= Len(l)
    BY <1>1
  <2>2. F[k] = IF k <= Len(L) THEN SubSeq(L, 1, k) ELSE L
    BY <2>1
  <2>3. F[k + 1] = IF isAdded(l[k + 1]) THEN F[k] ELSE Append(F[k], Undone(l[k + 1]))
    BY <1>6, <2>1
  <2> HIDE DEF P
  <2>4. CASE k + 1 <= Len(L)
    <3>1. k + 1 \in 1 .. Len(L) /\ k <= Len(L)
      BY <1>1, <2>1, <2>4
    <3>2. F[k + 1] = Append(SubSeq(L, 1, k), L[k + 1])
      BY <1>4, <2>2, <2>3, <3>1
    <3>3. Append(SubSeq(L, 1, k), L[k + 1]) = SubSeq(L, 1, k + 1)
      BY <1>2, <2>1, <3>1
    <3> QED
      BY <2>4, <3>2, <3>3
  <2>5. CASE ~(k + 1 <= Len(L))
    <3>1. isAdded(l[k + 1])
      BY <1>3, <2>1, <2>5
    <3>2. k <= Len(L) => SubSeq(L, 1, k) = L
      BY <1>1, <1>2, <2>1, <2>5
    <3> QED
      BY <2>2, <2>3, <2>5, <3>1, <3>2
  <2> QED
    BY <2>4, <2>5
<1>9. P = Nat
  <2> HIDE DEF P
  <2>1. P \in SUBSET Nat
    BY DEF P
  <2> QED
    BY <1>7, <1>8, <2>1, Counting
<1>10. F[Len(l)] = IF Len(l) <= Len(L) THEN SubSeq(L, 1, Len(l)) ELSE L
  BY <1>1, <1>9
<1>11. Len(l) <= Len(L) => SubSeq(L, 1, Len(l)) = L
  BY <1>1, <1>2
<1> QED
  BY <1>6, <1>10, <1>11

-----------------------------------------------------------------------------
(* The invariant *)

LEMMA InitWhitelist == Init => WhitelistInv
<1> SUFFICES ASSUME Init PROVE WhitelistInv
  OBVIOUS
<1>1. may \in Worlds /\ list = load(conf, off)
  BY DEF Init
<1>2. PICK p \in may.protocols \cup {"IP"}, c \in may.connections :
        LET values == {w \in may.typed : Recognised(w) /\ (isPort(w) <=> p # "IP")}
            with(v) == [Empty EXCEPT ![<<p, c>>] = v]
        IN  /\ conf \in {with(v) : v \in BoundedSeq(values, MaxFiled)}
            /\ off \in {with(v) : v \in BoundedSeq(values, MaxFiled)}
  BY DEF Init
<1> DEFINE V == {w \in may.typed : Recognised(w) /\ (isPort(w) <=> p # "IP")}
           g == <<p, c>>
<1>3. g \in Groups /\ g[1] = p
  BY <1>1, WorldFacts DEF Groups, Protocols
<1>4. V \subseteq Values(g) /\ Values(g) \subseteq may.typed
  <2>1. \A w \in V : w \in Words
    BY <1>1, WorldFacts
  <2> QED
    BY <1>3, <2>1, WordFacts DEF Values, Recognised
<1>5. ASSUME NEW v \in BoundedSeq(V, MaxFiled)
      PROVE  [Empty EXCEPT ![g] = v] \in Files
  <2> HIDE DEF V, g
  <2>1. v \in Seq(V)
    BY WhitelistAssumption DEF BoundedSeq, SeqOf
  <2>2. v \in Seq(Values(g)) /\ v \in Seq(may.typed)
    BY <1>4, <2>1
  <2>3. \A h \in Groups : <<>> \in Seq(Values(h)) /\ <<>> \in Seq(may.typed)
    OBVIOUS
  <2> QED
    BY <1>3, <2>2, <2>3 DEF Empty, Files
<1>6. conf \in Files /\ off \in Files
  <2> HIDE DEF V
  <2>1. /\ conf \in {[Empty EXCEPT ![g] = v] : v \in BoundedSeq(V, MaxFiled)}
        /\ off \in {[Empty EXCEPT ![g] = v] : v \in BoundedSeq(V, MaxFiled)}
    BY <1>2 DEF V
  <2> HIDE DEF g
  <2> QED
    BY <1>5, <2>1
<1>7. load(conf, off) \in Loads
  BY <1>1, <1>6, LoadIsList
<1> QED
  BY <1>1, <1>6, <1>7, Unmarked DEF WhitelistInv

LEMMA Applied ==
  ASSUME WhitelistInv, NEW l \in Seq(Loose), Apply(l)
  PROVE  WhitelistInv'
<1>1. /\ may' = may /\ conf' = updatePglSettings(l) /\ off' = updateGuiSettings(l)
      /\ list' = load(conf', off')
  BY DEF Apply
<1>2. conf' \in Files /\ off' \in Files
  BY <1>1, UpdatesKeep DEF WhitelistInv
<1>3. load(conf', off') \in Edits(load(conf', off'))
  BY <1>2, LoadIsList, Unmarked DEF WhitelistInv
<1>4. Files' = Files /\ \A L : Edits(L)' = Edits(L)
  BY <1>1 DEF Files, Values, Edits, Lists, Entries, Loose
<1> QED
  BY <1>1, <1>2, <1>3, <1>4 DEF WhitelistInv

(* An action that leaves the files alone. *)
LEMMA Edited ==
  ASSUME WhitelistInv, UNCHANGED <<may, conf, off>>, list' \in Edits(load(conf, off))
  PROVE  WhitelistInv'
<1>1. Files' = Files /\ \A L : Edits(L)' = Edits(L)
  BY DEF Files, Values, Edits, Lists, Entries, Loose
<1>2. list' \in Edits(load(conf', off'))
  OBVIOUS
<1> QED
  BY <1>1, <1>2 DEF WhitelistInv

LEMMA InvFacts ==
  ASSUME WhitelistInv
  PROVE  /\ load(conf, off) \in Loads /\ may \in Worlds
         /\ list \in Seq(Entries) /\ list \in Seq(Loose)
         /\ \A x \in 1 .. Len(list) : list[x] \in Entries /\ list[x] \in Loose
<1>1. load(conf, off) \in Loads /\ may \in Worlds
  BY LoadIsList DEF WhitelistInv
<1>2. list \in Seq(Entries)
  BY DEF WhitelistInv, Edits, Lists
<1>3. Entries \subseteq Loose
  BY DEF Entries
<1> QED
  BY <1>1, <1>2, <1>3

(* What the dialog lets through are items. *)
LEMMA DialogItems ==
  ASSUME may \in Worlds, NEW w \in may.typed, NEW radio,
         NEW protocols \in SUBSET may.protocols, NEW connections \in SUBSET may.connections
  PROVE  /\ Recognised(w) => whitelistItems(w, protocols, connections) \subseteq Items
         /\ getItems(w, radio, protocols, connections) \subseteq Items
         /\ SetToSeq(getItems(w, radio, protocols, connections)) \in Seq(Items)
         /\ IsFiniteSet(getItems(w, radio, protocols, connections))
<1>1. w \in Words /\ protocols \subseteq Protocols \ {"IP"} /\ connections \subseteq Connections
  BY WorldFacts
<1> DEFINE G == (IF isPort(w) THEN protocols ELSE {"IP"}) \X connections
<1>2. ASSUME Recognised(w), NEW g \in G PROVE Item(w, g) \in Items
  <2>1. g[1] \in Protocols /\ g[2] \in Connections
    BY <1>1 DEF Protocols
  <2>2. g[1] = "IP" <=> isValidIp(w)
    BY <1>1, <1>2, WordFacts DEF Recognised
  <2> QED
    BY <2>1, <2>2 DEF Item, Items
<1>3. IsFiniteSet(G)
  <2>1. G \subseteq Groups
    BY <1>1 DEF Groups, Protocols
  <2> QED
    BY <2>1, GroupsFinite, FS_Subset
<1> DEFINE W == {Item(w, g) : g \in G}
<1>4. whitelistItems(w, protocols, connections) = W
  BY DEF whitelistItems
<1>5. IsFiniteSet(W)
  <2> DEFINE f == [g \in G |-> Item(w, g)]
  <2> HIDE DEF G
  <2>1. f \in Surjection(G, W)
    BY DEF Surjection
  <2> QED
    BY <1>3, <2>1, FS_Surjection
<1>6. Recognised(w) => W \subseteq Items
  BY <1>2
<1> HIDE DEF W, G
<1> DEFINE S == getItems(w, radio, protocols, connections)
<1>7. S \subseteq W /\ S \subseteq Items
  BY <1>4, <1>6 DEF getItems
<1> HIDE DEF S
<1>8. IsFiniteSet(S)
  BY <1>5, <1>7, FS_Subset
<1>9. SetToSeq(S) \in Seq(S)
  BY <1>8, InOrder
<1>10. SetToSeq(S) \in Seq(Items)
  BY <1>7, <1>9
<1> QED
  BY <1>4, <1>6, <1>7, <1>8, <1>10 DEF S

LEMMA AddEntryKeeps ==
  ASSUME WhitelistInv, NEW n \in 1 .. MaxWords, NEW words \in [1 .. n -> may.typed], NEW radio,
         NEW protocols \in SUBSET may.protocols, NEW connections \in SUBSET may.connections,
         addEntry(words, radio, protocols, connections)
  PROVE  WhitelistInv'
<1> DEFINE items == [k \in 1 .. Len(words) |->
                       SetToSeq(getItems(words[k], radio, protocols, connections))]
<1>1. Len(words) = n /\ n \in Nat /\ \A k \in 1 .. n : words[k] \in may.typed
  BY WhitelistAssumption
<1>2. items \in Seq(Seq(Items))
  <2>1. \A k \in 1 .. n : SetToSeq(getItems(words[k], radio, protocols, connections)) \in Seq(Items)
    BY <1>1, InvFacts, DialogItems
  <2> QED
    BY <1>1, <2>1
<1>3. UNCHANGED <<may, conf, off>> /\ list' = Enables(list, FlattenSeq(items))
  BY DEF addEntry, Enables
<1> HIDE DEF items
<1>4. FlattenSeq(items) \in Seq(Items)
  <2>1. PICK F \in [0 .. Len(items) -> Seq(Items)] : F[Len(items)] = FlattenSeq(items)
    BY <1>2, FlattenFold
  <2>2. Len(items) \in 0 .. Len(items)
    BY <1>2
  <2> QED
    BY <2>1, <2>2
<1>5. list' \in Edits(load(conf, off))
  BY <1>3, <1>4, InvFacts, EnablesKeep DEF WhitelistInv
<1> QED
  BY <1>3, <1>5, Edited

LEMMA NextWhitelist == WhitelistInv /\ [Next]_vars => WhitelistInv'
<1> SUFFICES ASSUME WhitelistInv, [Next]_vars PROVE WhitelistInv'
  OBVIOUS
<1> DEFINE L == load(conf, off)
<1>1. ASSUME NEW n \in 1 .. MaxWords, NEW words \in [1 .. n -> may.typed], NEW radio,
             NEW protocols \in SUBSET may.protocols \ {{}},
             NEW connections \in SUBSET may.connections \ {{}},
             addEntry(words, radio, protocols, connections)
      PROVE  WhitelistInv'
  <2>1. protocols \in SUBSET may.protocols /\ connections \in SUBSET may.connections
    OBVIOUS
  <2> QED
    BY <1>1, <2>1, AddEntryKeeps
<1>2. ASSUME NEW x \in 1 .. Len(list), Toggle(x) PROVE WhitelistInv'
  <2> DEFINE now == IF list[x].now = "on" THEN "off" ELSE "on"
             e == [list[x] EXCEPT !.now = now, !.removed = FALSE]
  <2>1. list[x] \in Loose /\ ~list[x].removed
    BY <1>2, InvFacts DEF Toggle
  <2>2. e = [list[x] EXCEPT !.now = now]
    BY <2>1 DEF Loose
  <2>3. list' = [list EXCEPT ![x] = e]
    BY <1>2, <2>2, InvFacts DEF Toggle
  <2>4. list' \in Edits(L)
    BY <2>3, MarkKeeps DEF WhitelistInv
  <2> QED
    BY <1>2, <2>4, Edited DEF Toggle
<1>3. ASSUME NEW x \in 1 .. Len(list), removeItemAt(x) PROVE WhitelistInv'
  <2>1. list' = Without(x) /\ UNCHANGED <<may, conf, off>>
    BY <1>3 DEF removeItemAt
  <2>2. CASE isAdded(list[x])
    <3>1. RemoveAt(list, x) \in Edits(L)
      BY <2>2, InvFacts, RemoveAtKeeps DEF WhitelistInv
    <3> QED
      BY <2>1, <2>2, <3>1, Edited DEF Without
  <2>3. CASE ~isAdded(list[x])
    <3> DEFINE now == list[x].now
               e == [list[x] EXCEPT !.now = now, !.removed = TRUE]
    <3>1. list[x] \in Loose /\ now \in {"on", "off"}
      BY InvFacts DEF Loose
    <3>2. e = [list[x] EXCEPT !.removed = TRUE]
      BY <3>1 DEF Loose
    <3>3. list' = [list EXCEPT ![x] = e]
      BY <2>1, <2>3, <3>2, InvFacts DEF Without
    <3>4. list' \in Edits(L)
      BY <3>1, <3>3, MarkKeeps DEF WhitelistInv
    <3> QED
      BY <2>1, <3>4, Edited
  <2> QED
    BY <2>2, <2>3
<1>4. CASE undo
  <2>1. list' = Undoes(list) /\ UNCHANGED <<may, conf, off>>
    BY <1>4 DEF undo, Undoes
  <2>2. list' = L
    BY <2>1, InvFacts, UndoesEdits DEF WhitelistInv
  <2> QED
    BY <2>1, <2>2, InvFacts, Unmarked, Edited
<1>5. CASE applyChanges
  BY <1>5, InvFacts, Applied DEF applyChanges
<1>6. ASSUME NEW w \in may.typed, NEW p \in may.protocols, NEW c \in may.connections,
             AllowPermanently(Item(w, <<p, c>>))
      PROVE  WhitelistInv'
  <2> DEFINE i == Item(w, <<p, c>>)
             e == Entry(i, "absent", "on")
  <2>1. e \in Loose
    BY InvFacts, WorldFacts DEF Item, Entry, Loose, States
  <2> HIDE DEF e
  <2>2. addItem(list, i, "absent", "on") \in Seq(Loose)
    BY <2>1, InvFacts DEF addItem, e
  <2> QED
    BY <1>6, <2>2, Applied DEF AllowPermanently
<1>7. CASE UNCHANGED vars
  BY <1>7, Edited DEF vars, WhitelistInv
<1> QED
  BY <1>1, <1>2, <1>3, <1>4, <1>5, <1>6, <1>7 DEF Next

(* The invariant implies the properties. *)
LEMMA ListsDistinct == WhitelistInv => ListOK
<1> SUFFICES ASSUME WhitelistInv PROVE ListOK
  OBVIOUS
<1>1. \A x \in 1 .. Len(list) :
        /\ list[x].was \in States /\ list[x].now \in {"on", "off"}
        /\ list[x].removed \in BOOLEAN /\ list[x].value \in may.typed
  BY InvFacts DEF Loose
<1>2. DOMAIN conf = Groups /\ DOMAIN off = Groups
  BY DEF WhitelistInv, Files
<1>3. Distinct(list)
  BY DEF WhitelistInv, Edits, Lists
<1> QED
  BY <1>1, <1>2, <1>3 DEF ListOK, Distinct

LEMMA UnchangedIsLoaded == WhitelistInv => UnchangedIsFiled
<1> SUFFICES ASSUME WhitelistInv, ~Changed PROVE list = load(conf, off)
  BY DEF UnchangedIsFiled
<1> DEFINE L == load(conf, off)
<1>1. L \in Seq(Entries) /\ list \in Seq(Entries) /\ Len(L) <= Len(list)
  BY InvFacts DEF WhitelistInv, Edits, Lists, Loads
<1>2. \A x \in 1 .. Len(list) : IF x <= Len(L) THEN Undone(list[x]) = L[x] ELSE isAdded(list[x])
  BY DEF WhitelistInv, Edits
<1> HIDE DEF L
<1>3. \A x \in 1 .. Len(list) : ~isAdded(list[x]) /\ Undone(list[x]) = list[x]
  <2>1. \A x \in 1 .. Len(list) : ~isChanged(list[x]) /\ list[x] \in Loose
    BY InvFacts DEF Changed
  <2> QED
    BY <2>1 DEF isChanged, isAdded, Undone, Loose
<1>4. Len(list) = Len(L)
  <2>1. Len(list) \in Nat /\ Len(L) \in Nat
    BY <1>1
  <2>2. ~(Len(list) > Len(L))
    <3>1. Len(list) > Len(L) => Len(list) \in 1 .. Len(list) /\ ~(Len(list) <= Len(L))
      BY <2>1
    <3> QED
      BY <1>2, <1>3, <3>1
  <2> QED
    BY <1>1, <2>1, <2>2
<1>5. \A x \in 1 .. Len(list) : list[x] = L[x]
  BY <1>1, <1>2, <1>3, <1>4
<1> QED
  BY <1>1, <1>4, <1>5 DEF L

(* The list stays what was loaded from the files, marked, and what was added *)
(* behind it, whatever is done.                                              *)
THEOREM WhitelistInvariant == Spec => []WhitelistInv
<1>1. Init => WhitelistInv
  BY InitWhitelist
<1>2. WhitelistInv /\ [Next]_vars => WhitelistInv'
  BY NextWhitelist
<1> QED
  BY <1>1, <1>2, PTL DEF Spec

(* No two lines whose words can be compared are about the same rule, for any *)
(* words and services.                                                       *)
THEOREM ListTheorem == Spec => []ListOK
<1>1. WhitelistInv => ListOK
  BY ListsDistinct
<1> QED
  BY <1>1, WhitelistInvariant, PTL

(* A list without marks is what a new start would show. *)
THEOREM FiledTheorem == Spec => []UnchangedIsFiled
<1>1. WhitelistInv => UnchangedIsFiled
  BY UnchangedIsLoaded
<1> QED
  BY <1>1, WhitelistInvariant, PTL

-----------------------------------------------------------------------------
(* What is on stays on *)

(* The items of a file, group by group. *)
Got(s, f, gs, k) ==
  /\ \A p \in 1 .. Len(s) :
       \E j \in 1 .. k : \E m \in 1 .. Len(f[gs[j]]) : s[p] = Item(f[gs[j]][m], gs[j])
  /\ \A j \in 1 .. k : \A m \in 1 .. Len(f[gs[j]]) :
       \E p \in 1 .. Len(s) : s[p] = Item(f[gs[j]][m], gs[j])
  /\ \A p, q \in 1 .. Len(s) :
       p < q /\ s[p].protocol = s[q].protocol /\ s[p].connection = s[q].connection =>
         \E j \in 1 .. k : \E m, n \in 1 .. Len(f[gs[j]]) :
           m < n /\ s[p] = Item(f[gs[j]][m], gs[j]) /\ s[q] = Item(f[gs[j]][n], gs[j])

LEMMA GotMore ==
  ASSUME NEW f, NEW gs, NEW k \in Nat, NEW a \in Seq(Items), NEW b \in Seq(Items),
         Got(a, f, gs, k), \A j \in 1 .. k + 1 : gs[j] \in Groups,
         \A i, j \in 1 .. k + 1 : gs[i] = gs[j] => i = j,
         Len(b) = Len(f[gs[k + 1]]),
         \A m \in 1 .. Len(b) : b[m] = Item(f[gs[k + 1]][m], gs[k + 1])
  PROVE  Got(a \o b, f, gs, k + 1)
<1> DEFINE s == a \o b
           h == gs[k + 1]
<1>1. /\ Len(s) = Len(a) + Len(b) /\ Len(a) \in Nat /\ Len(b) \in Nat
      /\ \A p \in 1 .. Len(a) : s[p] = a[p]
      /\ \A p \in 1 .. Len(b) : s[Len(a) + p] = b[p]
  OBVIOUS
<1> HIDE DEF s
<1>2. \A p \in 1 .. Len(s) : \/ p \in 1 .. Len(a) /\ s[p] = a[p]
                             \/ /\ p - Len(a) \in 1 .. Len(b) /\ p > Len(a)
                                /\ s[p] = Item(f[h][p - Len(a)], h)
  <2>1. ASSUME NEW p \in 1 .. Len(s), p \notin 1 .. Len(a)
        PROVE  p - Len(a) \in 1 .. Len(b) /\ p > Len(a) /\ s[p] = Item(f[h][p - Len(a)], h)
    <3>1. p - Len(a) \in 1 .. Len(b) /\ p > Len(a) /\ Len(a) + (p - Len(a)) = p
      BY <1>1, <2>1
    <3> QED
      BY <1>1, <3>1
  <2> QED
    BY <1>1, <2>1
<1>3. \A v, g : Item(v, g).protocol = g[1] /\ Item(v, g).connection = g[2]
  BY DEF Item
<1>4. \A g \in Groups, d \in Groups : g[1] = d[1] /\ g[2] = d[2] => g = d
  BY DEF Groups
<1>5. k + 1 \in 1 .. k + 1 /\ \A j \in 1 .. k : j \in 1 .. k + 1 /\ j # k + 1
  OBVIOUS
<1>6. \A p \in 1 .. Len(s) :
        \E j \in 1 .. k + 1 : \E m \in 1 .. Len(f[gs[j]]) : s[p] = Item(f[gs[j]][m], gs[j])
  <2>1. ASSUME NEW p \in 1 .. Len(a)
        PROVE  \E j \in 1 .. k + 1 : \E m \in 1 .. Len(f[gs[j]]) :
                 a[p] = Item(f[gs[j]][m], gs[j])
    <3>1. PICK j \in 1 .. k : \E m \in 1 .. Len(f[gs[j]]) : a[p] = Item(f[gs[j]][m], gs[j])
      BY DEF Got
    <3>2. j \in 1 .. k + 1
      BY <1>5
    <3> QED
      BY <3>1, <3>2
  <2>2. ASSUME NEW p \in 1 .. Len(s)
        PROVE  \E j \in 1 .. k + 1 : \E m \in 1 .. Len(f[gs[j]]) :
                 s[p] = Item(f[gs[j]][m], gs[j])
    <3>1. CASE p \in 1 .. Len(a)
      BY <1>1, <2>1, <3>1
    <3>2. CASE p \notin 1 .. Len(a)
      <4>1. p - Len(a) \in 1 .. Len(f[h]) /\ s[p] = Item(f[h][p - Len(a)], h)
        BY <1>2, <3>2
      <4> QED
        BY <1>5, <4>1
    <3> QED
      BY <3>1, <3>2
  <2> QED
    BY <2>2
<1>7. \A j \in 1 .. k + 1 : \A m \in 1 .. Len(f[gs[j]]) :
        \E p \in 1 .. Len(s) : s[p] = Item(f[gs[j]][m], gs[j])
  <2>1. ASSUME NEW j \in 1 .. k, NEW m \in 1 .. Len(f[gs[j]])
        PROVE  \E p \in 1 .. Len(s) : s[p] = Item(f[gs[j]][m], gs[j])
    <3>1. PICK p \in 1 .. Len(a) : a[p] = Item(f[gs[j]][m], gs[j])
      BY DEF Got
    <3>2. p \in 1 .. Len(s)
      BY <1>1
    <3> QED
      BY <1>1, <3>1, <3>2
  <2>2. ASSUME NEW m \in 1 .. Len(f[h])
        PROVE  \E p \in 1 .. Len(s) : s[p] = Item(f[h][m], h)
    <3>1. m \in 1 .. Len(b) /\ Len(a) + m \in 1 .. Len(s)
      BY <1>1
    <3> QED
      BY <1>1, <3>1
  <2>3. \A j \in 1 .. k + 1 : j \in 1 .. k \/ j = k + 1
    OBVIOUS
  <2> QED
    BY <2>1, <2>2, <2>3
<1>8. ASSUME NEW p \in 1 .. Len(s), NEW q \in 1 .. Len(s), p < q,
             s[p].protocol = s[q].protocol, s[p].connection = s[q].connection
      PROVE  \E j \in 1 .. k + 1 : \E m, n \in 1 .. Len(f[gs[j]]) :
               m < n /\ s[p] = Item(f[gs[j]][m], gs[j]) /\ s[q] = Item(f[gs[j]][n], gs[j])
  <2>1. CASE q \in 1 .. Len(a)
    <3>1. p \in 1 .. Len(a) /\ s[p] = a[p] /\ s[q] = a[q]
      BY <1>1, <1>8, <2>1
    <3>2. PICK j \in 1 .. k : \E m, n \in 1 .. Len(f[gs[j]]) :
            m < n /\ a[p] = Item(f[gs[j]][m], gs[j]) /\ a[q] = Item(f[gs[j]][n], gs[j])
      <4>1. /\ p < q /\ p \in 1 .. Len(a) /\ q \in 1 .. Len(a)
            /\ a[p].protocol = a[q].protocol /\ a[p].connection = a[q].connection
        BY <1>8, <2>1, <3>1
      <4>2. \A u, v \in 1 .. Len(a) :
              u < v /\ a[u].protocol = a[v].protocol /\ a[u].connection = a[v].connection =>
                \E j \in 1 .. k : \E m, n \in 1 .. Len(f[gs[j]]) :
                  m < n /\ a[u] = Item(f[gs[j]][m], gs[j]) /\ a[v] = Item(f[gs[j]][n], gs[j])
        BY Zenon DEF Got
      <4> QED
        BY <4>1, <4>2
    <3>3. j \in 1 .. k + 1
      BY <1>5
    <3> QED
      BY <3>1, <3>2, <3>3
  <2>2. CASE p \in 1 .. Len(a) /\ q \notin 1 .. Len(a)
    <3>1. PICK j \in 1 .. k : \E m \in 1 .. Len(f[gs[j]]) : s[p] = Item(f[gs[j]][m], gs[j])
      <4>1. PICK j \in 1 .. k : \E m \in 1 .. Len(f[gs[j]]) : a[p] = Item(f[gs[j]][m], gs[j])
        BY <2>2 DEF Got
      <4> QED
        BY <1>1, <2>2, <4>1
    <3>2. s[q].protocol = h[1] /\ s[q].connection = h[2]
      BY <1>2, <1>3, <2>2
    <3>3. s[p].protocol = gs[j][1] /\ s[p].connection = gs[j][2]
      BY <1>3, <3>1
    <3>4. gs[j] = h
      BY <1>4, <1>5, <1>8, <3>2, <3>3
    <3> QED
      BY <1>5, <3>4
  <2>3. CASE p \notin 1 .. Len(a)
    <3>1. /\ p - Len(a) \in 1 .. Len(b) /\ s[p] = Item(f[h][p - Len(a)], h)
          /\ q - Len(a) \in 1 .. Len(b) /\ s[q] = Item(f[h][q - Len(a)], h)
          /\ p - Len(a) < q - Len(a)
      BY <1>1, <1>2, <1>8, <2>3
    <3> QED
      BY <1>5, <3>1
  <2> QED
    BY <2>1, <2>2, <2>3
<1>9. Got(s, f, gs, k + 1)
  BY <1>6, <1>7, <1>8 DEF Got
<1> QED
  BY <1>9 DEF s

LEMMA ItemsOrder ==
  ASSUME NEW f \in Files
  PROVE  LET s == ItemsIn(f)
         IN  /\ \A p \in 1 .. Len(s) : \E g \in Groups : \E m \in 1 .. Len(f[g]) :
                  s[p] = Item(f[g][m], g)
             /\ \A g \in Groups : \A m \in 1 .. Len(f[g]) :
                  \E p \in 1 .. Len(s) : s[p] = Item(f[g][m], g)
             /\ \A p, q \in 1 .. Len(s) :
                  p < q /\ s[p].protocol = s[q].protocol
                        /\ s[p].connection = s[q].connection =>
                    \E g \in Groups : \E m, n \in 1 .. Len(f[g]) :
                      m < n /\ s[p] = Item(f[g][m], g) /\ s[q] = Item(f[g][n], g)
<1> DEFINE S == {g \in Groups : f[g] # <<>>}
           gs == SetToSeq(S)
           values(g) == [n \in 1 .. Len(f[g]) |-> Item(f[g][n], g)]
           all == [n \in 1 .. Len(gs) |-> values(gs[n])]
           s == ItemsIn(f)
<1>1. IsFiniteSet(S)
  BY GroupsFinite, FS_Subset
<1>2. s = FlattenSeq(all)
  BY DEF ItemsIn
<1> HIDE DEF S
<1>3. /\ gs \in Seq(S) /\ Len(gs) \in Nat
      /\ \A g \in S : \E n \in 1 .. Len(gs) : gs[n] = g
      /\ \A m, n \in 1 .. Len(gs) : gs[m] = gs[n] => m = n
  BY <1>1, InOrder
<1>4. S \subseteq Groups /\ \A g \in Groups : f[g] # <<>> => g \in S
  BY DEF S
<1> HIDE DEF gs
<1>5. \A n \in 1 .. Len(gs) : gs[n] \in Groups
  BY <1>3, <1>4
<1>6. ASSUME NEW g \in Groups
      PROVE  /\ values(g) \in Seq(Items) /\ Len(values(g)) = Len(f[g])
             /\ \A n \in 1 .. Len(f[g]) : values(g)[n] = Item(f[g][n], g)
  <2>1. f[g] \in Seq(Values(g)) /\ g[1] \in Protocols /\ g[2] \in Connections
    BY DEF Files, Groups
  <2>2. ASSUME NEW n \in 1 .. Len(f[g]) PROVE Item(f[g][n], g) \in Items
    <3>1. f[g][n] \in Values(g)
      BY <2>1
    <3> QED
      BY <2>1, <3>1 DEF Item, Items, Values
  <2> QED
    BY <2>1, <2>2
<1> HIDE DEF values
<1>7. /\ all \in Seq(Seq(Items)) /\ Len(all) = Len(gs)
      /\ \A n \in 1 .. Len(gs) : all[n] = values(gs[n])
  BY <1>3, <1>5, <1>6
<1> HIDE DEF all, s
<1>8. PICK F \in [0 .. Len(gs) -> Seq(Items)] :
        /\ F[0] = <<>>
        /\ \A k \in 1 .. Len(gs) : F[k] = F[k - 1] \o all[k]
        /\ F[Len(gs)] = s
  <2>1. \E F \in [0 .. Len(all) -> Seq(Items)] :
          /\ F[0] = <<>>
          /\ \A k \in 1 .. Len(all) : F[k] = F[k - 1] \o all[k]
          /\ F[Len(all)] = FlattenSeq(all)
    BY <1>7, FlattenFold
  <2> QED
    BY <1>2, <1>7, <2>1
<1> DEFINE P == {k \in Nat : k <= Len(gs) => Got(F[k], f, gs, k)}
<1>9. 0 \in P
  <2>1. Got(<<>>, f, gs, 0)
    BY DEF Got
  <2> QED
    BY <1>8, <2>1
<1>10. ASSUME NEW k \in P PROVE k + 1 \in P
  <2> SUFFICES ASSUME k + 1 <= Len(gs) PROVE Got(F[k + 1], f, gs, k + 1)
    OBVIOUS
  <2>1. k \in Nat /\ k + 1 \in 1 .. Len(gs) /\ (k + 1) - 1 = k /\ k \in 0 .. Len(gs)
    BY <1>3
  <2>2. Got(F[k], f, gs, k)
    BY <1>3, <2>1
  <2> HIDE DEF P
  <2>3. F[k + 1] = F[k] \o all[k + 1] /\ F[k] \in Seq(Items) /\ all[k + 1] \in Seq(Items)
    <3>1. F[k + 1] = F[(k + 1) - 1] \o all[k + 1]
      BY <1>8, <2>1
    <3>2. F[k] \in Seq(Items)
      BY <1>8, <2>1
    <3>3. all[k + 1] \in Seq(Items)
      BY <1>7, <2>1
    <3> QED
      BY <2>1, <3>1, <3>2, <3>3
  <2>4. /\ \A j \in 1 .. k + 1 : j \in 1 .. Len(gs) /\ gs[j] \in Groups
        /\ Len(all[k + 1]) = Len(f[gs[k + 1]])
        /\ \A m \in 1 .. Len(all[k + 1]) : all[k + 1][m] = Item(f[gs[k + 1]][m], gs[k + 1])
    BY <1>3, <1>5, <1>6, <1>7, <2>1
  <2>5. \A i, j \in 1 .. k + 1 : gs[i] = gs[j] => i = j
    BY <1>3, <2>4
  <2>6. Got(F[k] \o all[k + 1], f, gs, k + 1)
    BY <2>1, <2>2, <2>3, <2>4, <2>5, GotMore
  <2> QED
    BY <2>3, <2>6
<1>11. P = Nat
  <2> HIDE DEF P
  <2>1. P \in SUBSET Nat
    BY DEF P
  <2> QED
    BY <1>9, <1>10, <2>1, Counting
<1>12. Got(s, f, gs, Len(gs))
  BY <1>3, <1>8, <1>11
<1>13. \A p \in 1 .. Len(s) : \E g \in Groups : \E m \in 1 .. Len(f[g]) :
         s[p] = Item(f[g][m], g)
  BY <1>5, <1>12 DEF Got
<1>14. ASSUME NEW g \in Groups, NEW m \in 1 .. Len(f[g])
       PROVE  \E p \in 1 .. Len(s) : s[p] = Item(f[g][m], g)
  <2>1. f[g] # <<>>
    <3>1. Len(<<>>) = 0 /\ 1 .. 0 = {}
      OBVIOUS
    <3> QED
      BY <3>1
  <2>2. PICK n \in 1 .. Len(gs) : gs[n] = g
    BY <1>3, <1>4, <2>1
  <2> QED
    BY <1>12, <2>2 DEF Got
<1>15. \A p, q \in 1 .. Len(s) :
         p < q /\ s[p].protocol = s[q].protocol /\ s[p].connection = s[q].connection =>
           \E g \in Groups : \E m, n \in 1 .. Len(f[g]) :
             m < n /\ s[p] = Item(f[g][m], g) /\ s[q] = Item(f[g][n], g)
  BY <1>5, <1>12 DEF Got
<1> QED
  BY <1>13, <1>14, <1>15 DEF s

(* What pglgui takes for the same. *)
Covers(v, w) == w \in {v} \cup Aliases(v) \/ containsPort(v, w)

Clean(f) ==
  \A g \in Groups : \A m, n \in 1 .. Len(f[g]) : m < n => ~Covers(f[g][m], f[g][n])

Is(e, v, g) == e.value = v /\ getGroup(e) = g

(* The entries that were on are those of the file, and come first. *)
Held(l, c) ==
  /\ \A g \in Groups : \A m \in 1 .. Len(c[g]) :
       \E x \in 1 .. Len(l) : l[x].was = "on" /\ Is(l[x], c[g][m], g)
  /\ \A x \in 1 .. Len(l) : l[x].was = "on" =>
       \E g \in Groups : \E m \in 1 .. Len(c[g]) : Is(l[x], c[g][m], g)
  /\ \A x, y \in 1 .. Len(l) : x < y /\ l[y].was = "on" => l[x].was = "on"

LEMMA SameCovers ==
  ASSUME NEW e \in Loose, NEW i
  PROVE  Same(e, i) <=> /\ e.protocol = i.protocol /\ e.connection = i.connection
                        /\ Covers(e.value, i.value)
  BY DEF Loose, Same, Covers

LEMMA ItemFacts ==
  ASSUME NEW f \in Files, NEW g \in Groups, NEW m \in 1 .. Len(f[g]),
         NEW was \in States, NEW now \in {"on", "off"}
  PROVE  /\ Item(f[g][m], g) \in Items
         /\ Is(Entry(Item(f[g][m], g), was, now), f[g][m], g)
<1>1. f[g] \in Seq(Values(g)) /\ f[g][m] \in Values(g)
  BY DEF Files
<1>2. g = <<g[1], g[2]>> /\ g[1] \in Protocols /\ g[2] \in Connections
  BY DEF Groups
<1> QED
  BY <1>1, <1>2 DEF Item, Items, Values, Is, Entry, getGroup

LEMMA NoTwins ==
  ASSUME NEW f \in Files, Clean(f),
         NEW p \in 1 .. Len(ItemsIn(f)), NEW q \in 1 .. Len(ItemsIn(f)), p < q
  PROVE  ~Same(Entry(ItemsIn(f)[p], "on", "on"), ItemsIn(f)[q])
<1> DEFINE s == ItemsIn(f)
           e == Entry(s[p], "on", "on")
<1>1. s \in Seq(Items)
  BY ItemsFiled
<1>2. s[p] \in Items
  BY <1>1
<1> SUFFICES ASSUME Same(e, s[q]) PROVE FALSE
  OBVIOUS
<1>3. e \in Loose
  BY <1>2, EntryFacts DEF Entries, States
<1>4. e.value = s[p].value /\ e.protocol = s[p].protocol /\ e.connection = s[p].connection
  BY DEF Entry
<1> HIDE DEF e
<1>5. /\ s[p].protocol = s[q].protocol /\ s[p].connection = s[q].connection
      /\ Covers(s[p].value, s[q].value)
  BY <1>3, <1>4, SameCovers
<1>6. PICK g \in Groups : \E m, n \in 1 .. Len(f[g]) :
        m < n /\ s[p] = Item(f[g][m], g) /\ s[q] = Item(f[g][n], g)
  BY <1>5, ItemsOrder
<1>7. PICK m \in 1 .. Len(f[g]), n \in 1 .. Len(f[g]) :
        m < n /\ s[p] = Item(f[g][m], g) /\ s[q] = Item(f[g][n], g)
  BY <1>6
<1>8. s[p].value = f[g][m] /\ s[q].value = f[g][n]
  BY <1>7 DEF Item
<1> QED
  BY <1>5, <1>7, <1>8 DEF Clean

(* Of a clean file every item is shown. *)
LEMMA ActiveIs ==
  ASSUME may \in Worlds, NEW c \in Files, Clean(c)
  PROVE  LET s == ItemsIn(c)
             a == Adds(<<>>, s, "on", "on")
         IN  Len(a) = Len(s) /\ \A x \in 1 .. Len(s) : a[x] = Entry(s[x], "on", "on")
<1> DEFINE s == ItemsIn(c)
           e(x) == Entry(s[x], "on", "on")
<1>1. s \in Seq(Items) /\ Len(s) \in Nat /\ \A x \in 1 .. Len(s) : s[x] \in Items
  <2>1. s \in Seq(Items)
    BY ItemsFiled
  <2> HIDE DEF s
  <2> QED
    BY <2>1
<1>2. \A x, y \in 1 .. Len(s) : x < y => ~Same(e(x), s[y])
  BY NoTwins
<1>3. <<>> \in Loads
  BY DEF Loads, Lists, Distinct, Separate
<1>4. AddsWithin(Loads, Items, "on", "on")
  BY AddKeeps DEF AddsWithin, Loads, States
<1> HIDE DEF s, e
<1>5. PICK F \in [0 .. Len(s) -> Loads] :
        /\ F[0] = <<>>
        /\ \A k \in 1 .. Len(s) : F[k] = addItem(F[k - 1], s[k], "on", "on")
        /\ F[Len(s)] = Adds(<<>>, s, "on", "on")
  BY <1>1, <1>3, <1>4, AddFold
<1> DEFINE P == {k \in Nat : k <= Len(s) =>
                   Len(F[k]) = k /\ \A x \in 1 .. k : F[k][x] = e(x)}
<1>6. 0 \in P
  BY <1>5
<1>7. ASSUME NEW k \in P PROVE k + 1 \in P
  <2> SUFFICES ASSUME k + 1 <= Len(s)
               PROVE  Len(F[k + 1]) = k + 1 /\ \A x \in 1 .. k + 1 : F[k + 1][x] = e(x)
    OBVIOUS
  <2>1. k \in Nat /\ k + 1 \in 1 .. Len(s) /\ (k + 1) - 1 = k /\ k \in 0 .. Len(s)
    BY <1>1
  <2>2. Len(F[k]) = k /\ \A x \in 1 .. k : F[k][x] = e(x)
    BY <1>1, <2>1
  <2> HIDE DEF P
  <2>3. F[k] \in Seq(Entries)
    BY <1>5, <2>1 DEF Loads, Lists
  <2>4. F[k + 1] = addItem(F[k], s[k + 1], "on", "on")
    BY <1>5, <2>1
  <2>5. \A x \in 1 .. k : ~Same(F[k][x], s[k + 1])
    BY <1>2, <2>1, <2>2
  <2>6. indexOfItem(F[k], s[k + 1]) = 0
    BY <2>1, <2>2, <2>5, Indexed
  <2>7. F[k + 1] = Append(F[k], e(k + 1))
    BY <2>4, <2>6 DEF addItem, e
  <2>8. e(k + 1) \in Entries
    BY <1>1, <2>1, EntryFacts DEF e, States
  <2>9. /\ Len(F[k + 1]) = k + 1 /\ F[k + 1][k + 1] = e(k + 1)
        /\ \A x \in 1 .. k : F[k + 1][x] = F[k][x]
    BY <2>2, <2>3, <2>7, <2>8, Appended
  <2> QED
    BY <2>1, <2>2, <2>9
<1>8. P = Nat
  <2> HIDE DEF P
  <2>1. P \in SUBSET Nat
    BY DEF P
  <2> QED
    BY <1>6, <1>7, <2>1, Counting
<1>9. Len(F[Len(s)]) = Len(s) /\ \A x \in 1 .. Len(s) : F[Len(s)][x] = e(x)
  BY <1>1, <1>8
<1> QED
  BY <1>5, <1>9 DEF s, e

LEMMA OffBehind ==
  ASSUME may \in Worlds, NEW l \in Loads, NEW s \in Seq(Items)
  PROVE  LET r == Adds(l, s, "off", "off")
         IN  /\ Len(r) \in Nat /\ Len(l) <= Len(r)
             /\ \A x \in 1 .. Len(r) : IF x <= Len(l) THEN r[x] = l[x] ELSE r[x].was = "off"
<1> DEFINE Behind(r) == /\ Len(l) <= Len(r)
                        /\ \A x \in 1 .. Len(r) : IF x <= Len(l) THEN r[x] = l[x]
                                                                ELSE r[x].was = "off"
           A == {r \in Seq(Entries) : Behind(r)}
<1>1. l \in Seq(Entries) /\ Len(l) \in Nat
  BY DEF Loads, Lists
<1>2. l \in A
  BY <1>1
<1>3. ASSUME NEW r \in A, NEW i \in Items PROVE addItem(r, i, "off", "off") \in A
  <2> DEFINE e == Entry(i, "off", "off")
             k == Append(r, e)
  <2>1. CASE indexOfItem(r, i) # 0
    BY <2>1 DEF addItem
  <2>2. CASE indexOfItem(r, i) = 0
    <3>1. e \in Entries /\ e.was = "off"
      <4>1. e.was = "off"
        BY DEF Entry
      <4> QED
        BY <4>1, EntryFacts DEF States
    <3> HIDE DEF e
    <3>2. r \in Seq(Entries) /\ Behind(r)
      OBVIOUS
    <3>3. /\ k \in Seq(Entries) /\ Len(k) = Len(r) + 1 /\ k[Len(r) + 1] = e
          /\ \A x \in 1 .. Len(r) : k[x] = r[x]
      BY <3>1, <3>2, Appended
    <3> HIDE DEF k, A
    <3>4. \A x \in 1 .. Len(k) : x \in 1 .. Len(r) \/ (x = Len(r) + 1 /\ ~(x <= Len(l)))
      BY <1>1, <3>2, <3>3
    <3>5. Behind(k)
      BY <1>1, <3>1, <3>2, <3>3, <3>4
    <3> QED
      BY <2>2, <3>3, <3>5 DEF addItem, k, e, A
  <2> QED
    BY <2>1, <2>2
<1> HIDE DEF A
<1>4. AddsWithin(A, Items, "off", "off")
  BY <1>3 DEF AddsWithin
<1>5. PICK F \in [0 .. Len(s) -> A] : F[Len(s)] = Adds(l, s, "off", "off")
  BY <1>2, <1>4, AddFold
<1>6. Len(s) \in 0 .. Len(s)
  OBVIOUS
<1>7. Adds(l, s, "off", "off") \in A
  BY <1>5, <1>6
<1> QED
  BY <1>7 DEF A

LEMMA LoadHolds ==
  ASSUME may \in Worlds, NEW c \in Files, NEW o \in Files, Clean(c)
  PROVE  Held(load(c, o), c)
<1> DEFINE s == ItemsIn(c)
           a == Adds(<<>>, s, "on", "on")
           r == load(c, o)
           e(x) == Entry(s[x], "on", "on")
<1>1. Len(a) = Len(s) /\ \A x \in 1 .. Len(s) : a[x] = e(x)
  BY ActiveIs
<1>2. r = Adds(a, ItemsIn(o), "off", "off")
  BY DEF load, Adds
<1>3. s \in Seq(Items) /\ ItemsIn(o) \in Seq(Items)
  BY ItemsFiled
<1>4. a \in Loads
  <2>1. <<>> \in Loads
    BY DEF Loads, Lists, Distinct, Separate
  <2> HIDE DEF s
  <2> QED
    BY <1>3, <2>1, LoadFolds
<1>5. /\ (\A p \in 1 .. Len(s) : \E g \in Groups : \E m \in 1 .. Len(c[g]) : s[p] = Item(c[g][m], g))
      /\ \A g \in Groups : \A m \in 1 .. Len(c[g]) :
           \E p \in 1 .. Len(s) : s[p] = Item(c[g][m], g)
  BY ItemsOrder
<1> HIDE DEF s, a, r
<1>6. /\ Len(r) \in Nat /\ Len(a) <= Len(r)
      /\ \A x \in 1 .. Len(r) : IF x <= Len(a) THEN r[x] = a[x] ELSE r[x].was = "off"
  BY <1>2, <1>3, <1>4, OffBehind
<1>7. Len(s) \in Nat
  BY <1>3
<1>8. \A x \in 1 .. Len(s) : x \in 1 .. Len(r) /\ r[x] = e(x)
  BY <1>1, <1>6, <1>7
<1>9. \A x : e(x).was = "on"
  BY DEF Entry
<1> HIDE DEF e
<1>10. \A x \in 1 .. Len(r) : r[x].was = "on" <=> x \in 1 .. Len(s)
  BY <1>1, <1>6, <1>7, <1>8, <1>9
<1>11. ASSUME NEW g \in Groups, NEW m \in 1 .. Len(c[g])
       PROVE  \E x \in 1 .. Len(r) : r[x].was = "on" /\ Is(r[x], c[g][m], g)
  <2>1. PICK p \in 1 .. Len(s) : s[p] = Item(c[g][m], g)
    BY <1>5
  <2>2. Is(e(p), c[g][m], g)
    BY <2>1, ItemFacts DEF e, States
  <2> QED
    BY <1>8, <1>9, <2>2
<1>12. ASSUME NEW x \in 1 .. Len(r), r[x].was = "on"
       PROVE  \E g \in Groups : \E m \in 1 .. Len(c[g]) : Is(r[x], c[g][m], g)
  <2>1. x \in 1 .. Len(s) /\ r[x] = e(x)
    BY <1>8, <1>10, <1>12
  <2>2. PICK g \in Groups : \E m \in 1 .. Len(c[g]) : s[x] = Item(c[g][m], g)
    BY <1>5, <2>1
  <2>3. PICK m \in 1 .. Len(c[g]) : s[x] = Item(c[g][m], g)
    BY <2>2
  <2>4. Is(e(x), c[g][m], g)
    BY <2>3, ItemFacts DEF e, States
  <2> QED
    BY <2>1, <2>4
<1>13. \A x, y \in 1 .. Len(r) : x < y /\ r[y].was = "on" => r[x].was = "on"
  BY <1>6, <1>7, <1>10
<1> QED
  BY <1>11, <1>12, <1>13 DEF Held, r

(* Marks do not change that. *)
LEMMA EditsHeld ==
  ASSUME NEW L \in Loads, NEW l \in Edits(L), NEW c, Held(L, c)
  PROVE  Held(l, c)
<1>1. /\ l \in Seq(Entries) /\ L \in Seq(Entries) /\ Len(L) <= Len(l)
      /\ Len(L) \in Nat /\ Len(l) \in Nat
      /\ \A x \in 1 .. Len(l) : IF x <= Len(L) THEN Undone(l[x]) = L[x] ELSE isAdded(l[x])
  BY DEF Edits, Lists, Loads
<1>2. ASSUME NEW x \in 1 .. Len(L)
      PROVE  /\ x \in 1 .. Len(l) /\ l[x].was = L[x].was
             /\ \A v, g : Is(l[x], v, g) <=> Is(L[x], v, g)
  <2>1. x \in 1 .. Len(l) /\ l[x] \in Loose /\ L[x] = Undone(l[x])
    BY <1>1 DEF Entries
  <2>2. /\ L[x].was = l[x].was /\ L[x].value = l[x].value
        /\ L[x].protocol = l[x].protocol /\ L[x].connection = l[x].connection
    BY <2>1 DEF Undone, Loose
  <2> QED
    BY <2>1, <2>2 DEF Is, getGroup
<1>3. \A x \in 1 .. Len(l) : l[x].was = "on" => x \in 1 .. Len(L)
  BY <1>1 DEF isAdded
<1>4. \A g \in Groups : \A m \in 1 .. Len(c[g]) :
        \E x \in 1 .. Len(l) : l[x].was = "on" /\ Is(l[x], c[g][m], g)
  BY <1>2 DEF Held
<1>5. \A x \in 1 .. Len(l) : l[x].was = "on" =>
        \E g \in Groups : \E m \in 1 .. Len(c[g]) : Is(l[x], c[g][m], g)
  BY <1>2, <1>3 DEF Held
<1>6. \A x, y \in 1 .. Len(l) : x < y /\ l[y].was = "on" => l[x].was = "on"
  <2>1. ASSUME NEW x \in 1 .. Len(l), NEW y \in 1 .. Len(l), x < y, l[y].was = "on"
        PROVE  l[x].was = "on"
    <3>1. y \in 1 .. Len(L) /\ x \in 1 .. Len(L)
      BY <1>1, <1>3, <2>1
    <3> QED
      BY <1>2, <2>1, <3>1 DEF Held
  <2> QED
    BY <2>1
<1> QED
  BY <1>4, <1>5, <1>6 DEF Held

(* Taking a value out of a list of values. *)
Thinned(r, s, k, v) ==
  /\ \A m \in 1 .. Len(r) : r[m] # v /\ \E n \in 1 .. k : s[n] = r[m]
  /\ \A n \in 1 .. k : s[n] # v => \E m \in 1 .. Len(r) : r[m] = s[n]
  /\ \A m, n \in 1 .. Len(r) : m < n =>
       \E i, j \in 1 .. k : i < j /\ s[i] = r[m] /\ s[j] = r[n]

LEMMA ThinnedMore ==
  ASSUME NEW V, NEW r \in Seq(V), NEW s, NEW k \in Nat, NEW v, Thinned(r, s, k, v),
         s[k + 1] \in V
  PROVE  /\ s[k + 1] = v => Thinned(r, s, k + 1, v)
         /\ s[k + 1] # v => Thinned(Append(r, s[k + 1]), s, k + 1, v)
<1>1. /\ k + 1 \in 1 .. k + 1
      /\ \A n \in 1 .. k + 1 : n = k + 1 \/ n \in 1 .. k
      /\ \A n \in 1 .. k : n \in 1 .. k + 1 /\ n < k + 1
  OBVIOUS
<1>2. ASSUME s[k + 1] = v PROVE Thinned(r, s, k + 1, v)
  <2>1. \A m \in 1 .. Len(r) : r[m] # v /\ \E n \in 1 .. k + 1 : s[n] = r[m]
    BY <1>1 DEF Thinned
  <2>2. \A n \in 1 .. k + 1 : s[n] # v => \E m \in 1 .. Len(r) : r[m] = s[n]
    BY <1>1, <1>2 DEF Thinned
  <2>3. \A m, n \in 1 .. Len(r) : m < n =>
          \E i, j \in 1 .. k + 1 : i < j /\ s[i] = r[m] /\ s[j] = r[n]
    BY <1>1 DEF Thinned
  <2> QED
    BY <2>1, <2>2, <2>3 DEF Thinned
<1>3. ASSUME s[k + 1] # v PROVE Thinned(Append(r, s[k + 1]), s, k + 1, v)
  <2> DEFINE t == Append(r, s[k + 1])
             N == Len(r)
  <2>1. /\ Len(t) = N + 1 /\ t[N + 1] = s[k + 1] /\ N \in Nat
        /\ \A m \in 1 .. N : t[m] = r[m]
    BY Appended
  <2> HIDE DEF t, N
  <2>2. \A m \in 1 .. Len(t) : m = N + 1 \/ m \in 1 .. N
    BY <2>1
  <2>3. \A m \in 1 .. N : m \in 1 .. Len(t)
    BY <2>1
  <2>4. N + 1 \in 1 .. Len(t)
    BY <2>1
  <2>5. \A m \in 1 .. Len(t) : t[m] # v /\ \E n \in 1 .. k + 1 : s[n] = t[m]
    <3>1. ASSUME NEW m \in 1 .. N PROVE r[m] # v /\ \E n \in 1 .. k + 1 : s[n] = r[m]
      <4>1. r[m] # v /\ \E n \in 1 .. k : s[n] = r[m]
        BY DEF Thinned, N
      <4> QED
        BY <1>1, <4>1
    <3> QED
      BY <1>1, <1>3, <2>1, <2>2, <3>1
  <2>6. \A n \in 1 .. k + 1 : s[n] # v => \E m \in 1 .. Len(t) : t[m] = s[n]
    <3>1. ASSUME NEW n \in 1 .. k, s[n] # v PROVE \E m \in 1 .. Len(t) : t[m] = s[n]
      <4>1. PICK m \in 1 .. N : r[m] = s[n]
        BY <3>1 DEF Thinned, N
      <4> QED
        BY <2>1, <2>3, <4>1
    <3> QED
      BY <1>1, <2>1, <2>4, <3>1
  <2>7. ASSUME NEW m \in 1 .. Len(t), NEW n \in 1 .. Len(t), m < n
        PROVE  \E i, j \in 1 .. k + 1 : i < j /\ s[i] = t[m] /\ s[j] = t[n]
    <3>1. CASE n \in 1 .. N
      <4>1. m \in 1 .. N /\ t[m] = r[m] /\ t[n] = r[n]
        BY <2>1, <2>7, <3>1
      <4>2. PICK i \in 1 .. k, j \in 1 .. k : i < j /\ s[i] = r[m] /\ s[j] = r[n]
        BY <2>7, <3>1, <4>1 DEF Thinned, N
      <4> QED
        BY <1>1, <4>1, <4>2
    <3>2. CASE n = N + 1
      <4>1. m \in 1 .. N /\ t[m] = r[m] /\ t[n] = s[k + 1]
        BY <2>1, <2>2, <2>7, <3>2
      <4>2. PICK i \in 1 .. k : s[i] = r[m]
        BY <4>1 DEF Thinned, N
      <4> QED
        BY <1>1, <4>1, <4>2
    <3> QED
      BY <2>2, <3>1, <3>2
  <2>8. Thinned(t, s, k + 1, v)
    BY <2>5, <2>6, <2>7 DEF Thinned
  <2> QED
    BY <2>8 DEF t
<1> QED
  BY <1>2, <1>3

LEMMA RemoveThins ==
  ASSUME NEW V, NEW s \in Seq(V), NEW v
  PROVE  Thinned(remove(s, v), s, Len(s), v)
<1> DEFINE A == Seq(V)
<1>1. RemovesWithin(A, V, v) /\ <<>> \in A
  BY DEF RemovesWithin
<1> HIDE DEF A
<1>2. \E F \in [0 .. Len(s) -> A] :
        /\ F[0] = <<>>
        /\ \A k \in 1 .. Len(s) : F[k] = IF s[k] = v THEN F[k - 1] ELSE Append(F[k - 1], s[k])
        /\ F[Len(s)] = remove(s, v)
  BY <1>1, RemoveFold
<1>3. PICK F \in [0 .. Len(s) -> A] :
        /\ F[0] = <<>>
        /\ \A k \in 1 .. Len(s) : F[k] = IF s[k] = v THEN F[k - 1] ELSE Append(F[k - 1], s[k])
        /\ F[Len(s)] = remove(s, v)
  BY <1>2
<1>4. Len(s) \in Nat /\ \A k \in 1 .. Len(s) : s[k] \in V
  OBVIOUS
<1> DEFINE P == {k \in Nat : k <= Len(s) => Thinned(F[k], s, k, v)}
<1>5. 0 \in P
  <2>1. Thinned(<<>>, s, 0, v)
    BY DEF Thinned
  <2> QED
    BY <1>3, <2>1
<1>6. ASSUME NEW k \in P PROVE k + 1 \in P
  <2> SUFFICES ASSUME k + 1 <= Len(s) PROVE Thinned(F[k + 1], s, k + 1, v)
    OBVIOUS
  <2>1. k \in Nat /\ k + 1 \in 1 .. Len(s) /\ (k + 1) - 1 = k /\ k \in 0 .. Len(s)
    BY <1>4
  <2>2. Thinned(F[k], s, k, v)
    BY <1>4, <2>1
  <2> HIDE DEF P
  <2>3. F[k] \in Seq(V) /\ s[k + 1] \in V
    BY <1>3, <1>4, <2>1 DEF A
  <2>4. F[k + 1] = IF s[k + 1] = v THEN F[k] ELSE Append(F[k], s[k + 1])
    BY <1>3, <2>1
  <2>5. /\ s[k + 1] = v => Thinned(F[k], s, k + 1, v)
        /\ s[k + 1] # v => Thinned(Append(F[k], s[k + 1]), s, k + 1, v)
    BY <2>1, <2>2, <2>3, ThinnedMore
  <2> QED
    BY <2>4, <2>5
<1>7. P = Nat
  <2> HIDE DEF P
  <2>1. P \in SUBSET Nat
    BY DEF P
  <2> QED
    BY <1>5, <1>6, <2>1, Counting
<1>8. Thinned(F[Len(s)], s, Len(s), v)
  BY <1>4, <1>7
<1> QED
  BY <1>3, <1>8

(* What Put does to a file. *)
LEMMA PutFacts ==
  ASSUME NEW f \in Files, NEW e \in Loose, NEW b
  PROVE  LET h == getGroup(e)
             k == Put(f, e, b)
         IN  /\ h \in Groups /\ k \in Files
             /\ \A g \in Groups : g # h => k[g] = f[g]
             /\ b /\ Contains(f[h], e.value) => k[h] = f[h]
             /\ b /\ ~Contains(f[h], e.value) => k[h] = Append(f[h], e.value)
             /\ ~b => Thinned(k[h], f[h], Len(f[h]), e.value)
<1> DEFINE h == getGroup(e)
           s == IF b THEN add(f[h], e.value) ELSE remove(f[h], e.value)
           k == Put(f, e, b)
<1>1. h \in Groups
  BY DEF Loose, getGroup, Groups, Protocols
<1>2. f \in [Groups -> Seq(may.typed)]
  BY DEF Files
<1>3. k \in Files
  BY PutKeeps
<1>4. k = [f EXCEPT ![h] = s]
  BY DEF Put
<1> HIDE DEF h, k
<1>5. k[h] = s /\ \A g \in Groups : g # h => k[g] = f[g]
  BY <1>1, <1>2, <1>4
<1>6. b /\ Contains(f[h], e.value) => k[h] = f[h]
  BY <1>5 DEF add
<1>7. b /\ ~Contains(f[h], e.value) => k[h] = Append(f[h], e.value)
  BY <1>5 DEF add
<1>8. ~b => Thinned(k[h], f[h], Len(f[h]), e.value)
  <2>1. f[h] \in Seq(may.typed)
    BY <1>1, <1>2
  <2> QED
    BY <1>5, <2>1, RemoveThins
<1> QED
  BY <1>1, <1>3, <1>5, <1>6, <1>7, <1>8 DEF h, k

LEMMA IpCovers ==
  ASSUME NEW u \in Words, NEW v \in Words, isValidIp(v), Covers(u, v)
  PROVE  u = v
<1>1. ~isPort(v)
  BY WordFacts
<1>2. ~isNumber(v) /\ ~isSpan(v)
  BY <1>1 DEF isPort
<1>3. v \notin Aliases(u)
  <2>1. \A p \in systemPorts : v \notin p.names
    BY SystemPorts, NameFacts
  <2> QED
    BY <2>1, PortNumbers
<1> QED
  BY <1>2, <1>3 DEF Covers, containsPort, IsInt

(* What the first k entries leave in pglcmd.conf: those of them that are on, *)
(* and of the others what was there.                                         *)
Stays(l, x, k) == IF x <= k THEN On(l[x]) ELSE l[x].was = "on"

Has(f, g, v) == \E m \in 1 .. Len(f[g]) : f[g][m] = v

WrittenUpTo(c, l, k) ==
  /\ c \in Files /\ Clean(c)
  /\ \A x \in 1 .. Len(l) : Stays(l, x, k) => Has(c, getGroup(l[x]), l[x].value)
  /\ \A g \in Groups : \A m \in 1 .. Len(c[g]) :
       \E x \in 1 .. Len(l) : Stays(l, x, k) /\ Is(l[x], c[g][m], g)

(* An entry that has the value of one that is off was added, behind it. *)
Twins(l) ==
  \A x, y \in 1 .. Len(l) :
    /\ x # y /\ ~On(l[y])
    /\ l[x].value = l[y].value /\ getGroup(l[x]) = getGroup(l[y])
    => x > y /\ l[x].was # "on"

Writable(l, c) == l \in Seq(Loose) /\ Separate(l) /\ Held(l, c) /\ Twins(l)

LEMMA LooseFacts ==
  ASSUME may \in Worlds, NEW d \in Loose, NEW e \in Loose
  PROVE  /\ d.value \in Words /\ getGroup(d) \in Groups
         /\ getGroup(d) = getGroup(e) /\ Covers(d.value, e.value) =>
              Same(d, e) \/ d.value = e.value
<1>1. d.value \in Words /\ e.value \in Words
  BY WorldFacts DEF Loose
<1>2. getGroup(d) \in Groups
  BY DEF Loose, getGroup, Groups, Protocols
<1>3. ASSUME getGroup(d) = getGroup(e), Covers(d.value, e.value), d.value # e.value
      PROVE  Same(d, e)
  <2>1. ~isValidIp(e.value)
    BY <1>1, <1>3, IpCovers
  <2>2. e.protocol # "IP"
    BY <2>1 DEF Loose
  <2>3. d.protocol = e.protocol /\ d.connection = e.connection
    BY <1>3, <2>1, <2>2 DEF getGroup
  <2> QED
    BY <1>3, <2>3, SameCovers
<1> QED
  BY <1>1, <1>2, <1>3

(* A value is taken out. *)
LEMMA TakenOut ==
  ASSUME may \in Worlds, NEW l, NEW c0, Writable(l, c0), NEW k \in Nat, k + 1 \in 1 .. Len(l),
         NEW c, WrittenUpTo(c, l, k), ~On(l[k + 1])
  PROVE  WrittenUpTo(Put(c, l[k + 1], FALSE), l, k + 1)
<1> DEFINE e == l[k + 1]
           h == getGroup(e)
           d == Put(c, e, FALSE)
<1>1. l \in Seq(Loose) /\ e \in Loose /\ Len(l) \in Nat
  BY DEF Writable
<1>2. c \in Files /\ Clean(c)
  BY DEF WrittenUpTo
<1>3. /\ h \in Groups /\ d \in Files
      /\ \A g \in Groups : g # h => d[g] = c[g]
      /\ Thinned(d[h], c[h], Len(c[h]), e.value)
  BY <1>1, <1>2, PutFacts
<1>4. /\ \A x \in 1 .. Len(l) : x # k + 1 => (Stays(l, x, k) <=> Stays(l, x, k + 1))
      /\ ~Stays(l, k + 1, k + 1)
  BY <1>1 DEF Stays
<1>5. \A x \in 1 .. Len(l) : Is(l[x], l[x].value, getGroup(l[x])) /\ getGroup(l[x]) \in Groups
  BY <1>1, LooseFacts DEF Is, Writable
<1> HIDE DEF d, h
<1>6. Clean(d)
  <2>1. ASSUME NEW m \in 1 .. Len(d[h]), NEW n \in 1 .. Len(d[h]), m < n
        PROVE  ~Covers(d[h][m], d[h][n])
    <3>1. PICK i \in 1 .. Len(c[h]), j \in 1 .. Len(c[h]) :
            i < j /\ c[h][i] = d[h][m] /\ c[h][j] = d[h][n]
      BY <1>3, <2>1 DEF Thinned
    <3> QED
      BY <1>2, <1>3, <3>1 DEF Clean
  <2>2. \A g \in Groups : g = h \/ d[g] = c[g]
    BY <1>3
  <2> QED
    BY <1>2, <2>1, <2>2 DEF Clean
<1>7. ASSUME NEW x \in 1 .. Len(l), Stays(l, x, k + 1)
      PROVE  Has(d, getGroup(l[x]), l[x].value)
  <2>1. x # k + 1 /\ Stays(l, x, k)
    BY <1>4, <1>7
  <2>2. Has(c, getGroup(l[x]), l[x].value)
    BY <2>1 DEF WrittenUpTo
  <2>3. CASE getGroup(l[x]) # h
    BY <1>3, <1>5, <2>2, <2>3 DEF Has
  <2>4. CASE getGroup(l[x]) = h
    <3>1. l[x].value # e.value
      <4>1. SUFFICES ASSUME l[x].value = e.value PROVE FALSE
        OBVIOUS
      <4>2. x > k + 1 /\ l[x].was # "on"
        BY <1>1, <2>1, <2>4, <4>1 DEF Writable, Twins, h
      <4> QED
        BY <1>7, <4>2 DEF Stays
    <3>2. PICK n \in 1 .. Len(c[h]) : c[h][n] = l[x].value
      BY <2>2, <2>4 DEF Has
    <3>3. \E m \in 1 .. Len(d[h]) : d[h][m] = c[h][n]
      BY <1>3, <3>1, <3>2 DEF Thinned
    <3> QED
      BY <2>4, <3>2, <3>3 DEF Has
  <2> QED
    BY <2>3, <2>4
<1>8. ASSUME NEW g \in Groups, NEW m \in 1 .. Len(d[g])
      PROVE  \E x \in 1 .. Len(l) : Stays(l, x, k + 1) /\ Is(l[x], d[g][m], g)
  <2>1. PICK n \in 1 .. Len(c[g]) : c[g][n] = d[g][m] /\ (g = h => d[g][m] # e.value)
    <3>1. CASE g = h
      BY <1>3, <3>1 DEF Thinned
    <3>2. CASE g # h
      BY <1>3, <3>2
    <3> QED
      BY <3>1, <3>2
  <2>2. PICK x \in 1 .. Len(l) : Stays(l, x, k) /\ Is(l[x], c[g][n], g)
    BY DEF WrittenUpTo
  <2>3. x # k + 1
    BY <2>1, <2>2 DEF Is, h
  <2> QED
    BY <1>4, <2>1, <2>2, <2>3
<1>9. WrittenUpTo(d, l, k + 1)
  BY <1>3, <1>6, <1>7, <1>8 DEF WrittenUpTo
<1> QED
  BY <1>9 DEF d

LEMMA PutAdds ==
  ASSUME NEW f \in Files, NEW e \in Loose
  PROVE  LET h == getGroup(e)
             k == Put(f, e, TRUE)
         IN  /\ h \in Groups /\ k \in Files
             /\ \A g \in Groups : g # h => k[g] = f[g]
             /\ Contains(f[h], e.value) => k[h] = f[h]
             /\ ~Contains(f[h], e.value) => k[h] = Append(f[h], e.value)
<1> DEFINE b == TRUE
<1>1. b
  OBVIOUS
<1> HIDE DEF b
<1>2. LET h == getGroup(e)
          k == Put(f, e, b)
      IN  /\ h \in Groups /\ k \in Files
          /\ \A g \in Groups : g # h => k[g] = f[g]
          /\ Contains(f[h], e.value) => k[h] = f[h]
          /\ ~Contains(f[h], e.value) => k[h] = Append(f[h], e.value)
  BY <1>1, PutFacts
<1> QED
  BY <1>2 DEF b

(* A value is put in. *)
LEMMA PutIn ==
  ASSUME may \in Worlds, NEW l, NEW c0, Writable(l, c0), NEW k \in Nat, k + 1 \in 1 .. Len(l),
         NEW c, WrittenUpTo(c, l, k), On(l[k + 1]), l[k + 1].was # "on"
  PROVE  WrittenUpTo(Put(c, l[k + 1], TRUE), l, k + 1)
<1> DEFINE e == l[k + 1]
           h == getGroup(e)
           d == Put(c, e, TRUE)
           v == e.value
<1>1. l \in Seq(Loose) /\ e \in Loose /\ Len(l) \in Nat /\ \A x \in 1 .. Len(l) : l[x] \in Loose
  BY DEF Writable
<1>2. c \in Files /\ Clean(c)
  BY DEF WrittenUpTo
<1>3. /\ h \in Groups /\ d \in Files
      /\ \A g \in Groups : g # h => d[g] = c[g]
      /\ Contains(c[h], v) => d[h] = c[h]
      /\ ~Contains(c[h], v) => d[h] = Append(c[h], v)
  BY <1>1, <1>2, PutAdds
<1>4. /\ \A x \in 1 .. Len(l) : x # k + 1 => (Stays(l, x, k) <=> Stays(l, x, k + 1))
      /\ Stays(l, k + 1, k + 1) /\ ~Stays(l, k + 1, k)
  BY <1>1 DEF Stays
<1>5. \A x \in 1 .. Len(l) : Stays(l, x, k) => x < k + 1
  <2>1. ASSUME NEW x \in 1 .. Len(l), Stays(l, x, k), ~(x < k + 1) PROVE FALSE
    <3>1. x > k + 1 /\ l[x].was = "on"
      BY <1>1, <1>4, <2>1 DEF Stays
    <3>2. l[k + 1].was = "on"
      BY <3>1 DEF Writable, Held
    <3> QED
      BY <3>2
  <2> QED
    BY <2>1
<1>6. Is(e, v, h) /\ c[h] \in Seq(may.typed) /\ v \in may.typed
  BY <1>1, <1>2, <1>3 DEF Is, Files, Loose
<1> HIDE DEF d, h, v, e
<1>7. Contains(c[h], v) <=> Has(c, h, v)
  BY <1>6 DEF Contains, Has
<1>8. \A m \in 1 .. Len(c[h]) : ~Contains(c[h], v) => ~Covers(c[h][m], v)
  <2>1. ASSUME NEW m \in 1 .. Len(c[h]), ~Contains(c[h], v), Covers(c[h][m], v) PROVE FALSE
    <3>1. PICK x \in 1 .. Len(l) : Stays(l, x, k) /\ Is(l[x], c[h][m], h)
      BY <1>3 DEF WrittenUpTo
    <3>2. x < k + 1 /\ l[x] \in Loose
      BY <1>1, <1>5, <3>1
    <3>3. l[x].value = c[h][m] /\ getGroup(l[x]) = getGroup(e) /\ e.value = v
      BY <1>6, <3>1 DEF Is
    <3>4. Same(l[x], e) \/ l[x].value = e.value
      BY <1>1, <2>1, <3>2, <3>3, LooseFacts
    <3>5. ~Same(l[x], e)
      BY <3>2 DEF Writable, Separate, e
    <3>6. Has(c, h, v)
      BY <3>3, <3>4, <3>5 DEF Has
    <3> QED
      BY <1>7, <2>1, <3>6
  <2> QED
    BY <2>1
<1>9. /\ Has(d, h, v)
      /\ \A m \in 1 .. Len(c[h]) : m \in 1 .. Len(d[h]) /\ d[h][m] = c[h][m]
      /\ \A m \in 1 .. Len(d[h]) :
           (m \in 1 .. Len(c[h]) /\ d[h][m] = c[h][m])
             \/ (~Contains(c[h], v) /\ d[h][m] = v /\ m = Len(c[h]) + 1)
  <2>1. CASE Contains(c[h], v)
    BY <1>3, <1>7, <2>1 DEF Has
  <2>2. CASE ~Contains(c[h], v)
    <3>1. d[h] = Append(c[h], v)
      BY <1>3, <2>2
    <3>2. /\ Len(d[h]) = Len(c[h]) + 1 /\ Len(c[h]) \in Nat /\ d[h][Len(c[h]) + 1] = v
          /\ \A m \in 1 .. Len(c[h]) : d[h][m] = c[h][m]
      BY <1>6, <3>1, Appended
    <3>3. Len(c[h]) + 1 \in 1 .. Len(d[h])
      BY <3>2
    <3>4. Has(d, h, v)
      BY <3>2, <3>3 DEF Has
    <3> QED
      BY <2>2, <3>2, <3>4
  <2> QED
    BY <2>1, <2>2
<1>10. Clean(d)
  <2>1. ASSUME NEW m \in 1 .. Len(d[h]), NEW n \in 1 .. Len(d[h]), m < n
        PROVE  ~Covers(d[h][m], d[h][n])
    <3>1. m \in 1 .. Len(c[h]) /\ d[h][m] = c[h][m]
      <4>1. Len(c[h]) \in Nat
        BY <1>6
      <4> QED
        BY <1>9, <2>1, <4>1
    <3>2. CASE n \in 1 .. Len(c[h]) /\ d[h][n] = c[h][n]
      BY <1>2, <1>3, <2>1, <3>1, <3>2 DEF Clean
    <3>3. CASE ~Contains(c[h], v) /\ d[h][n] = v
      BY <1>8, <3>1, <3>3
    <3> QED
      BY <1>9, <3>2, <3>3
  <2>2. \A g \in Groups : g = h \/ d[g] = c[g]
    BY <1>3
  <2> QED
    BY <1>2, <2>1, <2>2 DEF Clean
<1>11. ASSUME NEW x \in 1 .. Len(l), Stays(l, x, k + 1)
       PROVE  Has(d, getGroup(l[x]), l[x].value)
  <2>1. CASE x = k + 1
    BY <1>6, <1>9, <2>1 DEF e, Is
  <2>2. CASE x # k + 1
    <3>1. Has(c, getGroup(l[x]), l[x].value) /\ getGroup(l[x]) \in Groups
      BY <1>1, <1>4, <1>11, <2>2, LooseFacts DEF WrittenUpTo
    <3>2. CASE getGroup(l[x]) = h
      BY <1>9, <3>1, <3>2 DEF Has
    <3>3. CASE getGroup(l[x]) # h
      BY <1>3, <3>1, <3>3 DEF Has
    <3> QED
      BY <3>2, <3>3
  <2> QED
    BY <2>1, <2>2
<1>12. ASSUME NEW g \in Groups, NEW m \in 1 .. Len(d[g])
       PROVE  \E x \in 1 .. Len(l) : Stays(l, x, k + 1) /\ Is(l[x], d[g][m], g)
  <2>1. CASE m \in 1 .. Len(c[g]) /\ d[g][m] = c[g][m]
    <3>1. PICK x \in 1 .. Len(l) : Stays(l, x, k) /\ Is(l[x], c[g][m], g)
      BY <2>1 DEF WrittenUpTo
    <3> QED
      BY <1>4, <2>1, <3>1
  <2>2. CASE g = h /\ d[g][m] = v
    BY <1>4, <1>6, <2>2 DEF e
  <2> QED
    BY <1>3, <1>9, <2>1, <2>2
<1>13. WrittenUpTo(d, l, k + 1)
  BY <1>3, <1>10, <1>11, <1>12 DEF WrittenUpTo
<1> QED
  BY <1>13 DEF d, e

LEMMA WrittenMore ==
  ASSUME may \in Worlds, NEW l, NEW c0, Writable(l, c0), NEW k \in Nat, k + 1 \in 1 .. Len(l),
         NEW c, WrittenUpTo(c, l, k)
  PROVE  WrittenUpTo(IF isChanged(l[k + 1]) THEN Put(c, l[k + 1], On(l[k + 1])) ELSE c, l, k + 1)
<1> DEFINE e == l[k + 1]
<1>1. e \in Loose /\ Len(l) \in Nat
  BY DEF Writable
<1>2. CASE ~isChanged(e)
  <2>1. On(e) <=> e.was = "on"
    BY <1>1, <1>2 DEF On, isChanged, Loose
  <2>2. \A x \in 1 .. Len(l) : Stays(l, x, k + 1) <=> Stays(l, x, k)
    BY <1>1, <2>1 DEF Stays
  <2> HIDE DEF e
  <2>3. WrittenUpTo(c, l, k + 1)
    BY <2>2 DEF WrittenUpTo
  <2> QED
    BY <1>2, <2>3 DEF e
<1>3. CASE isChanged(e) /\ On(e)
  <2>1. e.was # "on" /\ On(e) = TRUE
    BY <1>1, <1>3 DEF On, isChanged
  <2>2. WrittenUpTo(Put(c, e, TRUE), l, k + 1)
    BY <2>1, PutIn
  <2> QED
    BY <1>3, <2>1, <2>2
<1>4. CASE isChanged(e) /\ ~On(e)
  <2>1. WrittenUpTo(Put(c, e, FALSE), l, k + 1)
    BY <1>4, TakenOut
  <2>2. On(e) = FALSE
    BY <1>4 DEF On
  <2> QED
    BY <1>4, <2>1, <2>2
<1> QED
  BY <1>2, <1>3, <1>4

(* After an application pglcmd.conf holds what is on, and nothing else. *)
LEMMA Written ==
  ASSUME may \in Worlds, conf \in Files, Clean(conf), NEW l, Writable(l, conf)
  PROVE  WrittenUpTo(updatePglSettings(l), l, Len(l))
<1>1. l \in Seq(Loose) /\ Len(l) \in Nat
  BY DEF Writable
<1>2. PglWithin(Files, Loose)
  BY PutKeeps DEF PglWithin
<1>3. \E F \in [0 .. Len(l) -> Files] :
        /\ F[0] = conf
        /\ \A k \in 1 .. Len(l) : F[k] = IF isChanged(l[k]) THEN Put(F[k - 1], l[k], On(l[k])) ELSE F[k - 1]
        /\ F[Len(l)] = updatePglSettings(l)
  BY <1>1, <1>2, PglFold
<1>4. PICK F \in [0 .. Len(l) -> Files] :
        /\ F[0] = conf
        /\ \A k \in 1 .. Len(l) : F[k] = IF isChanged(l[k]) THEN Put(F[k - 1], l[k], On(l[k])) ELSE F[k - 1]
        /\ F[Len(l)] = updatePglSettings(l)
  BY <1>3
<1> DEFINE P == {k \in Nat : k <= Len(l) => WrittenUpTo(F[k], l, k)}
<1>5. 0 \in P
  <2>1. \A x \in 1 .. Len(l) : Stays(l, x, 0) <=> l[x].was = "on"
    BY <1>1 DEF Stays
  <2>2. ASSUME NEW x \in 1 .. Len(l), l[x].was = "on"
        PROVE  Has(conf, getGroup(l[x]), l[x].value)
    BY <2>2 DEF Writable, Held, Has, Is
  <2>3. WrittenUpTo(conf, l, 0)
    BY <2>1, <2>2 DEF WrittenUpTo, Writable, Held
  <2> QED
    BY <1>4, <2>3
<1>6. ASSUME NEW k \in P PROVE k + 1 \in P
  <2> SUFFICES ASSUME k + 1 <= Len(l) PROVE WrittenUpTo(F[k + 1], l, k + 1)
    OBVIOUS
  <2>1. k \in Nat /\ k + 1 \in 1 .. Len(l) /\ (k + 1) - 1 = k
    BY <1>1
  <2>2. WrittenUpTo(F[k], l, k)
    BY <1>1, <2>1
  <2> HIDE DEF P
  <2>3. F[k + 1] = IF isChanged(l[k + 1]) THEN Put(F[k], l[k + 1], On(l[k + 1])) ELSE F[k]
    BY <1>4, <2>1
  <2>4. WrittenUpTo(IF isChanged(l[k + 1]) THEN Put(F[k], l[k + 1], On(l[k + 1])) ELSE F[k], l, k + 1)
    BY <2>1, <2>2, WrittenMore
  <2> QED
    BY <2>3, <2>4
<1>7. P = Nat
  <2> HIDE DEF P
  <2>1. P \in SUBSET Nat
    BY DEF P
  <2> QED
    BY <1>5, <1>6, <2>1, Counting
<1>8. WrittenUpTo(F[Len(l)], l, Len(l))
  BY <1>1, <1>7
<1> QED
  BY <1>4, <1>8

(* A single port or an address gets through an entry that is the same. *)
LEMMA SinglePasses ==
  ASSUME may \in Worlds, NEW e \in Entries, NEW i \in Items, Single(i), Same(e, i)
  PROVE  LetsThrough(e, i)
<1>1. e.value \in Words /\ i.value \in Words /\ e \in Loose
  BY WorldFacts DEF Entries, Loose, Items
<1>2. e.protocol = i.protocol /\ e.connection = i.connection /\ Covers(e.value, i.value)
  BY <1>1, SameCovers
<1>3. CASE e.value = i.value
  BY <1>2, <1>3 DEF LetsThrough, RuleOf
<1>4. ASSUME portNumber(e.value) = portNumber(i.value), portNumber(i.value) # -1
      PROVE  RuleOf(e) = RuleOf(i)
  <2>1. /\ ~isValidIp(e.value) /\ ~isValidIp(i.value)
        /\ ~isSpan(e.value) /\ ~isSpan(i.value)
    BY <1>1, <1>4, WordFacts
  <2> QED
    BY <1>2, <1>4, <2>1 DEF RuleOf, Meaning
<1>5. CASE i.value \in Aliases(e.value)
  <2> DEFINE p == PortOf(e.value)
  <2>1. /\ p \in systemPorts /\ e.value \in p.names /\ i.value \in p.names
        /\ portNumber(e.value) = p.number
    BY <1>5, PortNumbers
  <2>2. /\ PortOf(i.value) \in systemPorts /\ i.value \in PortOf(i.value).names
        /\ portNumber(i.value) = PortOf(i.value).number
    BY <2>1, PortNumbers
  <2> HIDE DEF p
  <2>3. PortOf(i.value) = p
    BY <2>1, <2>2 DEF Single, containsName
  <2>4. p.number # -1
    BY <2>1, SystemPorts
  <2> QED
    BY <1>4, <2>1, <2>2, <2>3, <2>4 DEF LetsThrough
<1>6. CASE containsPort(e.value, i.value)
  <2>1. ~isSpan(i.value)
    BY DEF Single
  <2>2. IsInt(i.value)
    BY <1>6, <2>1 DEF containsPort
  <2>3. portNumber(i.value) = i.value.port /\ i.value.port # -1
    BY <1>1, <2>2, WordFacts DEF IsInt
  <2>4. CASE IsInt(e.value)
    <3>1. portNumber(e.value) = e.value.port /\ ~isSpan(e.value)
      BY <1>1, <2>4, WordFacts DEF IsInt
    <3>2. e.value.port = i.value.port
      BY <1>6, <2>1, <3>1 DEF containsPort
    <3> QED
      BY <1>4, <2>3, <3>1, <3>2 DEF LetsThrough
  <2>5. CASE ~IsInt(e.value)
    <3>1. isSpan(e.value) /\ InSpan(i.value.port, e.value)
      BY <1>6, <2>1, <2>5 DEF containsPort
    <3> QED
      BY <1>2, <2>3, <3>1 DEF LetsThrough
  <2> QED
    BY <2>4, <2>5
<1> QED
  BY <1>2, <1>3, <1>5, <1>6 DEF Covers

(* What is filed under the same value. *)
LEMMA FiledAlike ==
  ASSUME NEW d, NEW e, d.value = e.value, getGroup(d) = getGroup(e)
  PROVE  /\ RuleOf(d) = RuleOf(e)
         /\ d \in Entries /\ e \in Entries => \A i : LetsThrough(d, i) <=> LetsThrough(e, i)
<1>1. d.connection = e.connection
  BY DEF getGroup
<1>2. RuleOf(d) = RuleOf(e)
  BY DEF RuleOf, getGroup
<1>3. ASSUME d \in Entries, e \in Entries
      PROVE  \A i : LetsThrough(d, i) <=> LetsThrough(e, i)
  <2>1. d.protocol = e.protocol
    BY <1>3 DEF Entries, getGroup
  <2> QED
    BY <1>1, <1>2, <2>1 DEF LetsThrough
<1> QED
  BY <1>2, <1>3

(* Each item of the dialog is seen to. *)
OnStays(l, r) ==
  /\ Len(l) <= Len(r)
  /\ \A x \in 1 .. Len(l) : Core(r[x]) = Core(l[x]) /\ (On(l[x]) => On(r[x]))

IsSeenTo(r, i) == \E x \in 1 .. Len(r) : On(r[x]) /\ Same(r[x], i)

LEMMA EnableOn ==
  ASSUME NEW L \in Loads, NEW l \in Edits(L), NEW i \in Items
  PROVE  OnStays(l, addOrEnable(l, i)) /\ IsSeenTo(addOrEnable(l, i), i)
<1> DEFINE e == Entry(i, "absent", "on")
           x == indexOfItem(l, i)
           r == addOrEnable(l, i)
<1>1. l \in Seq(Entries) /\ Len(l) \in Nat
  BY DEF Edits, Lists
<1>2. CASE x = 0
  <2>1. e \in Entries /\ On(e) /\ Same(e, i)
    <3>1. On(e) /\ Same(e, i)
      BY DEF Entry, On, Same
    <3> QED
      BY <3>1, EntryFacts DEF States
  <2>2. r = Append(l, e)
    BY <1>2 DEF addOrEnable
  <2> HIDE DEF e, r
  <2>3. /\ Len(r) = Len(l) + 1 /\ r[Len(l) + 1] = e
        /\ \A y \in 1 .. Len(l) : r[y] = l[y]
    BY <1>1, <2>1, <2>2, Appended
  <2>4. OnStays(l, r)
    BY <1>1, <2>3 DEF OnStays
  <2>5. Len(l) + 1 \in 1 .. Len(r)
    BY <1>1, <2>3
  <2>6. IsSeenTo(r, i)
    BY <2>1, <2>3, <2>5 DEF IsSeenTo
  <2> QED
    BY <2>4, <2>6 DEF r
<1>3. CASE x # 0
  <2>1. x \in 1 .. Len(l) /\ Same(l[x], i)
    BY <1>1, <1>3, Indexed
  <2> DEFINE u == [l[x] EXCEPT !.now = "on", !.removed = FALSE]
  <2>2. r = [l EXCEPT ![x] = u]
    BY <1>1, <1>3, <2>1 DEF addOrEnable
  <2>3. l[x] \in Entries /\ l[x] \in Loose
    BY <1>1, <2>1 DEF Entries
  <2>4. Core(u) = Core(l[x])
    BY <2>3, MarkFacts
  <2>5. On(u)
    BY <2>3 DEF On, Loose
  <2> HIDE DEF x, u, r
  <2>6. Len(r) = Len(l) /\ r[x] = u /\ \A y \in 1 .. Len(l) : y # x => r[y] = l[y]
    BY <1>1, <2>1, <2>2
  <2>7. OnStays(l, r)
    BY <1>1, <2>4, <2>5, <2>6 DEF OnStays
  <2>8. Same(u, i)
    BY <2>1, <2>4 DEF Same, Core
  <2>9. IsSeenTo(r, i)
    BY <2>1, <2>5, <2>6, <2>8 DEF IsSeenTo
  <2> QED
    BY <2>7, <2>9 DEF r
<1> QED
  BY <1>2, <1>3

LEMMA OnStaysOn ==
  ASSUME NEW l, NEW m, NEW r, OnStays(l, m), OnStays(m, r),
         Len(l) \in Nat, Len(m) \in Nat, Len(r) \in Nat
  PROVE  /\ OnStays(l, r)
         /\ \A i : IsSeenTo(m, i) => IsSeenTo(r, i)
<1>1. \A x \in 1 .. Len(l) : x \in 1 .. Len(m)
  BY DEF OnStays
<1>2. \A x \in 1 .. Len(m) : x \in 1 .. Len(r)
  BY DEF OnStays
<1>3. OnStays(l, r)
  BY <1>1 DEF OnStays
<1>4. ASSUME NEW i, IsSeenTo(m, i) PROVE IsSeenTo(r, i)
  <2>1. PICK x \in 1 .. Len(m) : On(m[x]) /\ Same(m[x], i)
    BY <1>4 DEF IsSeenTo
  <2>2. Core(r[x]) = Core(m[x]) /\ On(r[x])
    BY <2>1 DEF OnStays
  <2>3. Same(r[x], i)
    BY <2>1, <2>2 DEF Same, Core
  <2> QED
    BY <1>2, <2>2, <2>3 DEF IsSeenTo
<1> QED
  BY <1>3, <1>4

LEMMA EnablesOn ==
  ASSUME may \in Worlds, NEW L \in Loads, NEW l \in Edits(L), NEW s \in Seq(Items)
  PROVE  /\ OnStays(l, Enables(l, s))
         /\ \A j \in 1 .. Len(s) : IsSeenTo(Enables(l, s), s[j])
<1> DEFINE A == Edits(L)
<1>1. EnablesWithin(A, Items)
  BY EnableKeeps DEF EnablesWithin
<1>0. \A r \in A : Len(r) \in Nat
  BY DEF Edits, Lists
<1>a. \A r \in A, i \in Items : OnStays(r, addOrEnable(r, i)) /\ IsSeenTo(addOrEnable(r, i), i)
  BY EnableOn
<1> HIDE DEF A
<1>2. l \in A
  BY DEF A
<1>3. \E F \in [0 .. Len(s) -> A] :
        /\ F[0] = l
        /\ \A k \in 1 .. Len(s) : F[k] = addOrEnable(F[k - 1], s[k])
        /\ F[Len(s)] = Enables(l, s)
  BY <1>1, <1>2, EnableFold
<1>4. PICK F \in [0 .. Len(s) -> A] :
        /\ F[0] = l
        /\ \A k \in 1 .. Len(s) : F[k] = addOrEnable(F[k - 1], s[k])
        /\ F[Len(s)] = Enables(l, s)
  BY <1>3
<1>5. Len(s) \in Nat /\ \A k \in 1 .. Len(s) : s[k] \in Items
  OBVIOUS
<1> DEFINE P == {k \in Nat : k <= Len(s) =>
                   OnStays(l, F[k]) /\ \A j \in 1 .. k : IsSeenTo(F[k], s[j])}
<1>6. 0 \in P
  <2>1. OnStays(l, l)
    BY <1>0, <1>2 DEF OnStays
  <2> QED
    BY <1>4, <2>1
<1>7. ASSUME NEW k \in P PROVE k + 1 \in P
  <2> SUFFICES ASSUME k + 1 <= Len(s)
               PROVE  OnStays(l, F[k + 1]) /\ \A j \in 1 .. k + 1 : IsSeenTo(F[k + 1], s[j])
    OBVIOUS
  <2>1. /\ k \in Nat /\ k + 1 \in 1 .. Len(s) /\ (k + 1) - 1 = k /\ k \in 0 .. Len(s)
        /\ k + 1 \in 0 .. Len(s)
    BY <1>5
  <2>2. OnStays(l, F[k]) /\ \A j \in 1 .. k : IsSeenTo(F[k], s[j])
    BY <1>5, <2>1
  <2> HIDE DEF P
  <2>3. F[k + 1] = addOrEnable(F[k], s[k + 1]) /\ F[k] \in A /\ F[k + 1] \in A
    BY <1>4, <2>1
  <2>4. OnStays(F[k], F[k + 1]) /\ IsSeenTo(F[k + 1], s[k + 1])
    BY <1>5, <1>a, <2>1, <2>3
  <2>5. /\ OnStays(l, F[k + 1])
        /\ \A i : IsSeenTo(F[k], i) => IsSeenTo(F[k + 1], i)
    <3>1. Len(l) \in Nat /\ Len(F[k]) \in Nat /\ Len(F[k + 1]) \in Nat
      BY <1>0, <1>2, <2>3
    <3> QED
      BY <2>2, <2>4, <3>1, OnStaysOn
  <2>6. \A j \in 1 .. k + 1 : j = k + 1 \/ j \in 1 .. k
    BY <2>1
  <2> QED
    BY <2>2, <2>4, <2>5, <2>6
<1>8. P = Nat
  <2> HIDE DEF P
  <2>1. P \in SUBSET Nat
    BY DEF P
  <2> QED
    BY <1>6, <1>7, <2>1, Counting
<1>9. OnStays(l, F[Len(s)]) /\ \A j \in 1 .. Len(s) : IsSeenTo(F[Len(s)], s[j])
  BY <1>5, <1>8
<1> QED
  BY <1>4, <1>9

LEMMA FlattenHas ==
  ASSUME NEW X, NEW s \in Seq(Seq(X)), NEW n \in 1 .. Len(s), NEW m \in 1 .. Len(s[n])
  PROVE  \E p \in 1 .. Len(FlattenSeq(s)) : FlattenSeq(s)[p] = s[n][m]
<1>1. PICK F \in [0 .. Len(s) -> Seq(X)] :
        /\ F[0] = <<>>
        /\ \A k \in 1 .. Len(s) : F[k] = F[k - 1] \o s[k]
        /\ F[Len(s)] = FlattenSeq(s)
  BY FlattenFold
<1>2. Len(s) \in Nat /\ \A k \in 1 .. Len(s) : s[k] \in Seq(X)
  OBVIOUS
<1> DEFINE In(q) == \E p \in 1 .. Len(q) : q[p] = s[n][m]
           P == {k \in Nat : n + k <= Len(s) => In(F[n + k])}
<1>3. \A a, b \in Seq(X) : (In(a) => In(a \o b)) /\ \A p \in 1 .. Len(b) : b[p] = s[n][m] => In(a \o b)
  <2>1. ASSUME NEW a \in Seq(X), NEW b \in Seq(X), NEW p \in 1 .. Len(a), a[p] = s[n][m]
        PROVE  In(a \o b)
    <3>1. p \in 1 .. Len(a \o b) /\ (a \o b)[p] = a[p]
      OBVIOUS
    <3> QED
      BY <2>1, <3>1
  <2>2. ASSUME NEW a \in Seq(X), NEW b \in Seq(X), NEW p \in 1 .. Len(b), b[p] = s[n][m]
        PROVE  In(a \o b)
    <3>1. Len(a) + p \in 1 .. Len(a \o b) /\ (a \o b)[Len(a) + p] = b[p]
      OBVIOUS
    <3> QED
      BY <2>2, <3>1
  <2> QED
    BY <2>1, <2>2
<1> HIDE DEF In
<1>4. ASSUME NEW k \in 1 .. Len(s) PROVE F[k] = F[k - 1] \o s[k] /\ F[k - 1] \in Seq(X)
  <2>1. k - 1 \in 0 .. Len(s)
    BY <1>2
  <2> QED
    BY <1>1, <2>1
<1>5. 0 \in P
  <2>1. In(F[n - 1] \o s[n])
    <3>1. F[n - 1] \in Seq(X) /\ s[n] \in Seq(X)
      BY <1>2, <1>4
    <3> QED
      BY <1>3, <3>1
  <2>2. n + 0 = n
    BY <1>2
  <2> QED
    BY <1>4, <2>1, <2>2
<1>6. ASSUME NEW k \in P PROVE k + 1 \in P
  <2> SUFFICES ASSUME n + (k + 1) <= Len(s) PROVE In(F[n + (k + 1)])
    OBVIOUS
  <2>1. n + (k + 1) \in 1 .. Len(s) /\ (n + (k + 1)) - 1 = n + k /\ n + k <= Len(s)
    BY <1>2
  <2>2. In(F[n + k])
    BY <2>1
  <2> HIDE DEF P
  <2>3. F[n + (k + 1)] = F[n + k] \o s[n + (k + 1)] /\ F[n + k] \in Seq(X)
    BY <1>4, <2>1
  <2> QED
    BY <1>2, <1>3, <2>1, <2>2, <2>3
<1>7. P = Nat
  <2> HIDE DEF P
  <2>1. P \in SUBSET Nat
    BY DEF P
  <2> QED
    BY <1>5, <1>6, <2>1, Counting
<1>8. Len(s) - n \in Nat /\ n + (Len(s) - n) = Len(s)
  BY <1>2
<1>9. In(F[Len(s)])
  <2>1. Len(s) - n \in P
    BY <1>7, <1>8
  <2> QED
    BY <1>2, <1>8, <2>1
<1> QED
  BY <1>1, <1>9 DEF In

-----------------------------------------------------------------------------
(* What was asked for *)

LEMMA ListWritable ==
  ASSUME WhitelistInv, Clean(conf)
  PROVE  Writable(list, conf)
<1> DEFINE L == load(conf, off)
<1>1. list \in Edits(L) /\ L \in Loads /\ Held(L, conf)
  BY InvFacts, LoadHolds DEF WhitelistInv
<1> HIDE DEF L
<1>2. Held(list, conf)
  BY <1>1, EditsHeld
<1>3. Separate(list) /\ Distinct(list)
  BY <1>1 DEF Edits, Lists
<1>4. Twins(list)
  BY <1>3, FiledAlike DEF Twins, Distinct, Alike, Comparable
<1> QED
  BY <1>2, <1>3, <1>4, InvFacts DEF Writable

(* An exception from the log is behind the list while it is applied. *)
LEMMA AddedWritable ==
  ASSUME WhitelistInv, Clean(conf), NEW i, indexOfItem(list, i) = 0,
         Entry(i, "absent", "on") \in Loose
  PROVE  Writable(Append(list, Entry(i, "absent", "on")), conf)
<1> DEFINE e == Entry(i, "absent", "on")
           l == Append(list, e)
           N == Len(list)
<1>1. list \in Seq(Loose) /\ Separate(list) /\ Held(list, conf) /\ Twins(list) /\ N \in Nat
  BY ListWritable DEF Writable
<1>2. e.was = "absent" /\ On(e) /\ \A d : Same(d, e) <=> Same(d, i)
  BY DEF Entry, On, Same
<1>3. \A x \in 1 .. N : ~Same(list[x], e)
  BY <1>1, <1>2, Indexed
<1> HIDE DEF e
<1>4. /\ l \in Seq(Loose) /\ Len(l) = N + 1 /\ l[N + 1] = e
      /\ \A x \in 1 .. N : l[x] = list[x]
  BY <1>1, Appended DEF e
<1> HIDE DEF l, N
<1>5. \A x \in 1 .. Len(l) : x \in 1 .. N \/ (x = N + 1 /\ \A y \in 1 .. N : y < x)
  BY <1>1, <1>4
<1>6. \A x \in 1 .. N : x \in 1 .. Len(l)
  BY <1>1, <1>4
<1>7. Separate(l)
  <2>1. ASSUME NEW x \in 1 .. Len(l), NEW y \in 1 .. Len(l), x < y PROVE ~Same(l[x], l[y])
    <3>1. x \in 1 .. N
      BY <1>1, <1>4, <2>1
    <3>2. CASE y \in 1 .. N
      BY <1>1, <1>4, <2>1, <3>1, <3>2 DEF Separate, N
    <3>3. CASE y = N + 1
      BY <1>3, <1>4, <3>1, <3>3
    <3> QED
      BY <1>5, <3>2, <3>3
  <2> QED
    BY <2>1 DEF Separate
<1>8. Twins(l)
  <2>1. ASSUME NEW x \in 1 .. Len(l), NEW y \in 1 .. Len(l), x # y, ~On(l[y]),
               l[x].value = l[y].value, getGroup(l[x]) = getGroup(l[y])
        PROVE  x > y /\ l[x].was # "on"
    <3>1. y \in 1 .. N
      BY <1>2, <1>4, <1>5, <2>1
    <3>2. CASE x \in 1 .. N
      BY <1>1, <1>4, <2>1, <3>1, <3>2 DEF Twins, N
    <3>3. CASE x = N + 1
      BY <1>1, <1>2, <1>4, <3>1, <3>3
    <3> QED
      BY <1>5, <3>2, <3>3
  <2> QED
    BY <2>1 DEF Twins
<1>9. Held(l, conf)
  <2>1. \A g \in Groups : \A m \in 1 .. Len(conf[g]) :
          \E x \in 1 .. Len(l) : l[x].was = "on" /\ Is(l[x], conf[g][m], g)
    <3>1. ASSUME NEW g \in Groups, NEW m \in 1 .. Len(conf[g])
          PROVE  \E x \in 1 .. Len(l) : l[x].was = "on" /\ Is(l[x], conf[g][m], g)
      <4>1. PICK x \in 1 .. N : list[x].was = "on" /\ Is(list[x], conf[g][m], g)
        BY <1>1 DEF Held, N
      <4> QED
        BY <1>4, <1>6, <4>1
    <3> QED
      BY <3>1
  <2>2. \A x \in 1 .. Len(l) : l[x].was = "on" => x \in 1 .. N
    BY <1>2, <1>4, <1>5
  <2>3. \A x \in 1 .. Len(l) : l[x].was = "on" =>
          \E g \in Groups : \E m \in 1 .. Len(conf[g]) : Is(l[x], conf[g][m], g)
    BY <1>1, <1>4, <2>2 DEF Held, N
  <2>4. \A x, y \in 1 .. Len(l) : x < y /\ l[y].was = "on" => l[x].was = "on"
    <3>1. ASSUME NEW x \in 1 .. Len(l), NEW y \in 1 .. Len(l), x < y, l[y].was = "on"
          PROVE  l[x].was = "on"
      <4>1. y \in 1 .. N /\ x \in 1 .. N
        BY <1>1, <1>4, <2>2, <3>1
      <4> QED
        BY <1>1, <1>4, <3>1, <4>1 DEF Held, N
    <3> QED
      BY <3>1
  <2> QED
    BY <2>1, <2>3, <2>4 DEF Held
<1>10. Writable(l, conf)
  BY <1>4, <1>7, <1>8, <1>9 DEF Writable
<1> QED
  BY <1>10 DEF l, e

(* What was on is on after an application. *)
LEMMA AppliedOn ==
  ASSUME WhitelistInv, Clean(conf), NEW l, Writable(l, conf), Apply(l)
  PROVE  /\ WrittenUpTo(conf', l, Len(l))
         /\ list' \in Seq(Entries)
         /\ \A x \in 1 .. Len(l) : On(l[x]) =>
              \E y \in 1 .. Len(list') :
                /\ On(list'[y]) /\ list'[y].value = l[x].value
                /\ getGroup(list'[y]) = getGroup(l[x])
<1> DEFINE c == conf'
           r == list'
<1>1. c = updatePglSettings(l) /\ off' = updateGuiSettings(l) /\ r = load(c, off')
  BY DEF Apply
<1>2. may \in Worlds /\ conf \in Files /\ off \in Files /\ l \in Seq(Loose) /\ Len(l) \in Nat
  BY DEF WhitelistInv, Writable
<1>3. c \in Files /\ off' \in Files
  BY <1>1, <1>2, UpdatesKeep
<1>4. WrittenUpTo(c, l, Len(l))
  BY <1>1, <1>2, Written
<1> HIDE DEF c, r
<1>5. Held(r, c) /\ r \in Loads
  BY <1>1, <1>2, <1>3, <1>4, LoadHolds, LoadIsList DEF WrittenUpTo
<1>6. r \in Seq(Entries)
  BY <1>5 DEF Loads, Lists
<1>7. ASSUME NEW x \in 1 .. Len(l), On(l[x])
      PROVE  \E y \in 1 .. Len(r) :
               On(r[y]) /\ r[y].value = l[x].value /\ getGroup(r[y]) = getGroup(l[x])
  <2>1. Has(c, getGroup(l[x]), l[x].value) /\ getGroup(l[x]) \in Groups
    <3>1. Stays(l, x, Len(l))
      BY <1>2, <1>7 DEF Stays
    <3>2. l[x] \in Loose
      BY <1>2
    <3> QED
      BY <1>2, <1>4, <3>1, <3>2, LooseFacts DEF WrittenUpTo
  <2>2. PICK m \in 1 .. Len(c[getGroup(l[x])]) : c[getGroup(l[x])][m] = l[x].value
    BY <2>1 DEF Has
  <2>3. PICK y \in 1 .. Len(r) : r[y].was = "on" /\ Is(r[y], l[x].value, getGroup(l[x]))
    BY <1>5, <2>1, <2>2 DEF Held
  <2>4. On(r[y])
    BY <1>5, <2>3 DEF Loads, Plain, On
  <2> QED
    BY <2>3, <2>4 DEF Is
<1> QED
  BY <1>4, <1>6, <1>7 DEF c, r

(* Files that show all they hold are clean. *)
LEMMA AllShown ==
  ASSUME may \in Worlds, NEW s \in Seq(Items), NEW t \in Seq(Items),
         Len(Adds(Adds(<<>>, s, "on", "on"), t, "off", "off")) = Len(s) + Len(t)
  PROVE  \A p, q \in 1 .. Len(s) : p < q =>
           ~Same(Entry(s[p], "on", "on"), s[q])
<1> DEFINE a == Adds(<<>>, s, "on", "on")
<1>1. <<>> \in Loads
  BY DEF Loads, Lists, Distinct, Separate
<1>2. \A was \in {"on", "off"} : AddsWithin(Loads, Items, was, was)
  BY AddKeeps DEF AddsWithin, Loads, States
<1>3. \A l \in Loads : l \in Seq(Entries) /\ Len(l) \in Nat /\ Separate(l)
  BY DEF Loads, Lists
<1>4. ASSUME NEW l \in Loads, NEW i \in Items, NEW was \in {"on", "off"}
      PROVE  \/ addItem(l, i, was, was) = l
             \/ /\ addItem(l, i, was, was) = Append(l, Entry(i, was, was))
                /\ Entry(i, was, was) \in Entries
  BY EntryFacts DEF addItem, States
<1>5. \E F \in [0 .. Len(s) -> Loads] :
        /\ F[0] = <<>>
        /\ \A k \in 1 .. Len(s) : F[k] = addItem(F[k - 1], s[k], "on", "on")
        /\ F[Len(s)] = a
  BY <1>1, <1>2, AddFold
<1>6. PICK F \in [0 .. Len(s) -> Loads] :
        /\ F[0] = <<>>
        /\ \A k \in 1 .. Len(s) : F[k] = addItem(F[k - 1], s[k], "on", "on")
        /\ F[Len(s)] = a
  BY <1>5
<1>7. a \in Loads
  BY <1>6
<1> HIDE DEF a
<1>8. \E G \in [0 .. Len(t) -> Loads] :
        /\ G[0] = a
        /\ \A k \in 1 .. Len(t) : G[k] = addItem(G[k - 1], t[k], "off", "off")
        /\ G[Len(t)] = Adds(a, t, "off", "off")
  <2>1. AddsWithin(Loads, Items, "off", "off")
    BY <1>2
  <2> QED
    BY <1>7, <2>1, AddFold
<1>9. PICK G \in [0 .. Len(t) -> Loads] :
        /\ G[0] = a
        /\ \A k \in 1 .. Len(t) : G[k] = addItem(G[k - 1], t[k], "off", "off")
        /\ G[Len(t)] = Adds(a, t, "off", "off")
  BY <1>8
<1>10. /\ Len(s) \in Nat /\ Len(t) \in Nat
       /\ (\A k \in 1 .. Len(s) : s[k] \in Items) /\ \A k \in 1 .. Len(t) : t[k] \in Items
  OBVIOUS
<1>11. Len(G[Len(t)]) <= Len(a) + Len(t)
  <2> DEFINE P == {k \in Nat : k <= Len(t) => Len(G[k]) <= Len(a) + k}
  <2>1. 0 \in P
    BY <1>3, <1>7, <1>9
  <2>2. ASSUME NEW k \in P PROVE k + 1 \in P
    <3> SUFFICES ASSUME k + 1 <= Len(t) PROVE Len(G[k + 1]) <= Len(a) + (k + 1)
      OBVIOUS
    <3>1. k \in Nat /\ k + 1 \in 1 .. Len(t) /\ (k + 1) - 1 = k /\ k \in 0 .. Len(t)
      BY <1>10
    <3>2. Len(G[k]) <= Len(a) + k
      BY <1>10, <3>1
    <3> HIDE DEF P
    <3>3. G[k] \in Loads /\ G[k + 1] = addItem(G[k], t[k + 1], "off", "off")
      BY <1>9, <3>1
    <3>4. Len(G[k + 1]) = Len(G[k]) \/ Len(G[k + 1]) = Len(G[k]) + 1
      <4>1. G[k] \in Seq(Entries)
        BY <1>3, <3>3
      <4> QED
        BY <1>4, <1>10, <3>1, <3>3, <4>1, Appended
    <3> QED
      BY <1>3, <1>7, <3>1, <3>2, <3>3, <3>4
  <2>3. P = Nat
    <3> HIDE DEF P
    <3>1. P \in SUBSET Nat
      BY DEF P
    <3> QED
      BY <2>1, <2>2, <3>1, Counting
  <2>4. Len(t) \in P
    BY <1>10, <2>3
  <2>5. Len(t) <= Len(t)
    BY <1>10
  <2> QED
    BY <2>4, <2>5
<1> DEFINE Full(k) == Len(F[k]) = k /\ \A x \in 1 .. k : F[k][x] = Entry(s[x], "on", "on")
           P == {k \in Nat : k <= Len(s) => Len(F[k]) <= k /\ (Len(F[k]) = k => Full(k))}
<1>12. 0 \in P
  BY <1>6
<1>13. ASSUME NEW k \in P PROVE k + 1 \in P
  <2> HIDE DEF Full
  <2> SUFFICES ASSUME k + 1 <= Len(s)
               PROVE  Len(F[k + 1]) <= k + 1 /\ (Len(F[k + 1]) = k + 1 => Full(k + 1))
    OBVIOUS
  <2>1. k \in Nat /\ k + 1 \in 1 .. Len(s) /\ (k + 1) - 1 = k /\ k \in 0 .. Len(s)
    BY <1>10
  <2>2. Len(F[k]) <= k /\ (Len(F[k]) = k => Full(k))
    BY <1>10, <2>1
  <2> HIDE DEF P
  <2>3. F[k] \in Loads /\ F[k + 1] = addItem(F[k], s[k + 1], "on", "on") /\ s[k + 1] \in Items
    BY <1>6, <1>10, <2>1
  <2>4. F[k] \in Seq(Entries) /\ Len(F[k]) \in Nat
    BY <1>3, <2>3
  <2>5. CASE F[k + 1] = F[k]
    BY <2>1, <2>2, <2>4, <2>5
  <2> DEFINE e == Entry(s[k + 1], "on", "on")
  <2>6. CASE F[k + 1] = Append(F[k], e) /\ e \in Entries
    <3> HIDE DEF e
    <3>1. /\ Len(F[k + 1]) = Len(F[k]) + 1 /\ F[k + 1][Len(F[k]) + 1] = e
          /\ \A x \in 1 .. Len(F[k]) : F[k + 1][x] = F[k][x]
      BY <2>4, <2>6, Appended
    <3>2. Len(F[k + 1]) = k + 1 => Len(F[k]) = k /\ Full(k)
      BY <2>1, <2>2, <2>4, <3>1
    <3>3. \A x \in 1 .. k + 1 : x = k + 1 \/ x \in 1 .. k
      BY <2>1
    <3>4. Len(F[k + 1]) = k + 1 => Full(k + 1)
      BY <3>1, <3>2, <3>3 DEF Full, e
    <3> QED
      BY <2>1, <2>2, <2>4, <3>1, <3>4
  <2> QED
    BY <1>4, <2>3, <2>5, <2>6
<1>14. P = Nat
  <2> HIDE DEF P
  <2>1. P \in SUBSET Nat
    BY DEF P
  <2> QED
    BY <1>12, <1>13, <2>1, Counting
<1>15. Len(a) <= Len(s) /\ (Len(a) = Len(s) => Full(Len(s)))
  BY <1>6, <1>10, <1>14
<1>16. Len(a) = Len(s)
  <2>1. Len(G[Len(t)]) = Len(s) + Len(t)
    BY <1>9 DEF a
  <2>2. Len(a) \in Nat
    BY <1>3, <1>7
  <2> QED
    BY <1>10, <1>11, <1>15, <2>1, <2>2
<1>17. Separate(a) /\ \A x \in 1 .. Len(s) : a[x] = Entry(s[x], "on", "on")
  BY <1>3, <1>6, <1>7, <1>15, <1>16
<1>18. \A d, i : Same(d, Entry(i, "on", "on")) <=> Same(d, i)
  BY DEF Same, Entry
<1> QED
  BY <1>16, <1>17, <1>18 DEF Separate

(* A file with one variable. *)
LEMMA OneGroup ==
  ASSUME NEW g \in Groups, NEW v \in Seq(may.typed), [Empty EXCEPT ![g] = v] \in Files
  PROVE  LET s == ItemsIn([Empty EXCEPT ![g] = v])
         IN  Len(s) = Len(v) /\ \A m \in 1 .. Len(v) : s[m] = Item(v[m], g)
<1> DEFINE f == [Empty EXCEPT ![g] = v]
           S == {d \in Groups : f[d] # <<>>}
           gs == SetToSeq(S)
           values(d) == [n \in 1 .. Len(f[d]) |-> Item(f[d][n], d)]
           all == [n \in 1 .. Len(gs) |-> values(gs[n])]
           s == ItemsIn(f)
<1>1. IsFiniteSet(S)
  BY GroupsFinite, FS_Subset
<1>2. s = FlattenSeq(all)
  BY DEF ItemsIn
<1>3. f[g] = v /\ \A d \in Groups : d # g => f[d] = <<>>
  BY DEF Empty
<1>4. f[g] \in Seq(Values(g)) /\ g[1] \in Protocols /\ g[2] \in Connections
  BY DEF Files, Groups
<1>5. /\ values(g) \in Seq(Items) /\ Len(values(g)) = Len(v)
      /\ \A m \in 1 .. Len(v) : values(g)[m] = Item(v[m], g)
  <2>1. \A m \in 1 .. Len(v) : Item(v[m], g) \in Items
    BY <1>3, ItemFacts DEF States
  <2> QED
    BY <1>3, <2>1
<1>6. S = IF v = <<>> THEN {} ELSE {g}
  BY <1>3
<1> HIDE DEF S, f, s
<1>7. /\ gs \in Seq(S) /\ Len(gs) \in Nat
      /\ \A d \in S : \E n \in 1 .. Len(gs) : gs[n] = d
      /\ \A m, n \in 1 .. Len(gs) : gs[m] = gs[n] => m = n
  BY <1>1, InOrder
<1> HIDE DEF gs
<1>8. CASE v = <<>>
  <2>1. Len(gs) = 0
    <3>1. ASSUME Len(gs) # 0 PROVE FALSE
      <4>1. 1 \in 1 .. Len(gs)
        BY <1>7, <3>1
      <4>2. gs[1] \in S
        BY <1>7, <4>1
      <4> QED
        BY <1>6, <1>8, <4>2
    <3> QED
      BY <3>1
  <2>2. all = <<>>
    BY <2>1
  <2>3. FlattenSeq(all) = <<>>
    BY <2>2 DEF FlattenSeq
  <2> QED
    BY <1>2, <1>8, <2>3 DEF s, f
<1>9. CASE v # <<>>
  <2>1. S = {g}
    BY <1>6, <1>9
  <2>2. \A n \in 1 .. Len(gs) : gs[n] = g
    BY <1>7, <2>1
  <2>3. Len(gs) = 1
    <3>1. PICK n \in 1 .. Len(gs) : gs[n] = g
      BY <1>7, <2>1
    <3>2. ASSUME Len(gs) > 1 PROVE FALSE
      <4>1. 1 \in 1 .. Len(gs) /\ 2 \in 1 .. Len(gs)
        BY <1>7, <3>2
      <4>2. gs[1] = gs[2]
        BY <2>2, <4>1
      <4>3. 1 = 2
        BY <1>7, <4>1, <4>2
      <4> QED
        BY <4>3
    <3>3. Len(gs) \in Nat /\ Len(gs) # 0
      <4>1. 1 .. 0 = {}
        OBVIOUS
      <4> QED
        BY <1>7, <3>1, <4>1
    <3>4. \A k \in Nat : k = 0 \/ k = 1 \/ k > 1
      OBVIOUS
    <3> QED
      BY <3>2, <3>3, <3>4
  <2> HIDE DEF values
  <2>4. all \in Seq(Seq(Items)) /\ Len(all) = 1 /\ all[1] = values(g)
    <3>1. 1 \in 1 .. Len(gs) /\ gs[1] = g
      BY <2>2, <2>3
    <3>2. all = [n \in 1 .. 1 |-> values(gs[n])]
      BY <2>3
    <3>3. all = <<values(g)>>
      BY <3>1, <3>2
    <3> HIDE DEF all
    <3> QED
      BY <1>5, <3>3
  <2> HIDE DEF all
  <2>5. PICK F \in [0 .. Len(all) -> Seq(Items)] :
          /\ F[0] = <<>>
          /\ \A k \in 1 .. Len(all) : F[k] = F[k - 1] \o all[k]
          /\ F[Len(all)] = FlattenSeq(all)
    BY <2>4, FlattenFold
  <2>6. F[1] = F[1 - 1] \o all[1]
    <3>1. 1 \in 1 .. Len(all)
      BY <2>4
    <3> QED
      BY <2>5, <3>1
  <2>7. F[1] = values(g)
    <3>1. 1 - 1 = 0
      OBVIOUS
    <3>2. F[1] = <<>> \o values(g)
      BY <2>4, <2>5, <2>6, <3>1
    <3> QED
      BY <1>5, <3>2
  <2>8. s = values(g)
    BY <1>2, <2>4, <2>5, <2>7
  <2> QED
    BY <1>5, <2>8 DEF s, f
<1> QED
  BY <1>8, <1>9

LEMMA InitClean == Init /\ ~may.hand => Clean(conf)
<1> SUFFICES ASSUME Init, ~may.hand PROVE Clean(conf)
  OBVIOUS
<1>1. WhitelistInv /\ may \in Worlds /\ conf \in Files /\ off \in Files
  BY InitWhitelist DEF WhitelistInv
<1>2. PICK p \in may.protocols \cup {"IP"}, c \in may.connections :
        LET values == {w \in may.typed : Recognised(w) /\ (isPort(w) <=> p # "IP")}
            with(v) == [Empty EXCEPT ![<<p, c>>] = v]
        IN  /\ conf \in {with(v) : v \in BoundedSeq(values, MaxFiled)}
            /\ off \in {with(v) : v \in BoundedSeq(values, MaxFiled)}
  BY DEF Init
<1> DEFINE V == {w \in may.typed : Recognised(w) /\ (isPort(w) <=> p # "IP")}
           g == <<p, c>>
<1>3. g \in Groups
  BY <1>1, WorldFacts DEF Groups, Protocols
<1>4. PICK v \in BoundedSeq(V, MaxFiled) : conf = [Empty EXCEPT ![g] = v]
  BY <1>2
<1> HIDE DEF V, g
<1>5. v \in Seq(may.typed)
  <2>1. v \in Seq(V)
    BY WhitelistAssumption DEF BoundedSeq, SeqOf
  <2>2. V \subseteq may.typed
    BY DEF V
  <2> QED
    BY <2>1, <2>2
<1>6. conf[g] = v /\ \A d \in Groups : d # g => conf[d] = <<>>
  BY <1>3, <1>4 DEF Empty
<1> DEFINE s == ItemsIn(conf)
           t == ItemsIn(off)
<1>7. Len(s) = Len(v) /\ \A m \in 1 .. Len(v) : s[m] = Item(v[m], g)
  BY <1>1, <1>3, <1>4, <1>5, OneGroup
<1>8. s \in Seq(Items) /\ t \in Seq(Items)
  BY <1>1, ItemsFiled
<1>9. Len(Adds(Adds(<<>>, s, "on", "on"), t, "off", "off")) = Len(s) + Len(t)
  BY DEF Init, load, Adds
<1> HIDE DEF s, t
<1>10. \A m, n \in 1 .. Len(s) : m < n => ~Same(Entry(s[m], "on", "on"), s[n])
  BY <1>1, <1>8, <1>9, AllShown
<1>11. ASSUME NEW m \in 1 .. Len(v), NEW n \in 1 .. Len(v), m < n PROVE ~Covers(v[m], v[n])
  <2> DEFINE e == Entry(s[m], "on", "on")
  <2>1. s[m] \in Items
    BY <1>7, <1>8
  <2>2. e \in Loose
    BY <2>1, EntryFacts DEF Entries, States
  <2>3. /\ e.value = v[m] /\ e.protocol = s[n].protocol /\ e.connection = s[n].connection
        /\ s[n].value = v[n]
    <3>1. s[m] = Item(v[m], g) /\ s[n] = Item(v[n], g)
      BY <1>7
    <3>2. /\ s[m].value = v[m] /\ s[n].value = v[n]
          /\ s[m].protocol = s[n].protocol /\ s[m].connection = s[n].connection
      BY <3>1 DEF Item
    <3> QED
      BY <3>2 DEF Entry
  <2>4. ~Same(e, s[n])
    BY <1>7, <1>10, <1>11
  <2> HIDE DEF e
  <2> QED
    BY <2>2, <2>3, <2>4, SameCovers
<1>12. ASSUME NEW d \in Groups, NEW m \in 1 .. Len(conf[d]), NEW n \in 1 .. Len(conf[d]), m < n
       PROVE  ~Covers(conf[d][m], conf[d][n])
  <2>1. d = g
    <3>1. Len(<<>>) = 0 /\ 1 .. 0 = {}
      OBVIOUS
    <3> QED
      BY <1>6, <3>1
  <2> QED
    BY <1>6, <1>11, <1>12, <2>1
<1> QED
  BY <1>12 DEF Clean

(* Nothing that was asked for has been lost. *)
StillOn ==
  \A i \in wanted : \E x \in 1 .. Len(list) : On(list[x]) /\ LetsThrough(list[x], i)

WantedInv == ~may.hand => Clean(conf) /\ StillOn

LEMMA AddEntryWanted ==
  ASSUME WhitelistInv, StillOn, NEW n \in 1 .. MaxWords, NEW words \in [1 .. n -> may.typed],
         NEW radio, NEW protocols \in SUBSET may.protocols,
         NEW connections \in SUBSET may.connections,
         addEntry(words, radio, protocols, connections)
  PROVE  StillOn'
<1> DEFINE L == load(conf, off)
           valid(k) == getItems(words[k], radio, protocols, connections)
           items == [k \in 1 .. Len(words) |-> SetToSeq(valid(k))]
           s == FlattenSeq(items)
           asked == {i \in UNION {whitelistItems(words[k], protocols, connections)
                                    : k \in 1 .. Len(words)} : Single(i)}
<1>1. Len(words) = n /\ n \in Nat /\ \A k \in 1 .. n : words[k] \in may.typed
  BY WhitelistAssumption
<1>2. \A k \in 1 .. n : /\ SetToSeq(valid(k)) \in Seq(Items) /\ valid(k) \subseteq Items
                        /\ IsFiniteSet(valid(k))
  BY <1>1, InvFacts, DialogItems
<1>3. /\ list' = Enables(list, s)
      /\ wanted' = wanted \cup
           (IF Accepted(words, radio, protocols, connections) THEN asked ELSE {})
  BY DEF addEntry, Enables
<1>4. ASSUME Accepted(words, radio, protocols, connections), NEW i \in asked
      PROVE  Single(i) /\ \E k \in 1 .. n : i \in valid(k)
  <2>1. PICK k \in 1 .. n : i \in whitelistItems(words[k], protocols, connections)
    BY <1>1, <1>4
  <2>2. Recognised(words[k]) /\ Fits(words[k], radio) /\ isValid(i)
    BY <1>1, <1>4, <2>1 DEF Accepted
  <2>3. i \in valid(k)
    BY <2>1, <2>2 DEF getItems
  <2> QED
    BY <1>4, <2>3
<1> HIDE DEF valid, asked
<1>5. /\ items \in Seq(Seq(Items)) /\ Len(items) = n
      /\ \A k \in 1 .. n : items[k] = SetToSeq(valid(k))
  BY <1>1, <1>2
<1> HIDE DEF items
<1>6. s \in Seq(Items)
  <2>1. PICK F \in [0 .. Len(items) -> Seq(Items)] : F[Len(items)] = FlattenSeq(items)
    BY <1>5, FlattenFold
  <2>2. Len(items) \in 0 .. Len(items)
    BY <1>5
  <2> QED
    BY <2>1, <2>2
<1>7. ASSUME NEW k \in 1 .. n, NEW i \in valid(k)
      PROVE  i \in Items /\ \E p \in 1 .. Len(s) : s[p] = i
  <2>1. PICK m \in 1 .. Len(SetToSeq(valid(k))) : SetToSeq(valid(k))[m] = i
    BY <1>2, InOrder
  <2>2. k \in 1 .. Len(items) /\ m \in 1 .. Len(items[k]) /\ items[k][m] = i
    BY <1>5, <2>1
  <2>3. \E p \in 1 .. Len(s) : s[p] = items[k][m]
    BY <1>5, <2>2, FlattenHas
  <2> QED
    BY <1>2, <2>2, <2>3
<1> HIDE DEF s
<1>8. list \in Edits(L) /\ L \in Loads /\ may \in Worlds
  BY InvFacts DEF WhitelistInv
<1> HIDE DEF L
<1>9. OnStays(list, list') /\ \A p \in 1 .. Len(s) : IsSeenTo(list', s[p])
  BY <1>3, <1>6, <1>8, EnablesOn
<1>10. list' \in Edits(L)
  BY <1>3, <1>6, <1>8, EnablesKeep
<1>11. list' \in Seq(Entries) /\ Len(list') \in Nat /\ Len(list) \in Nat
  BY <1>8, <1>10 DEF Edits, Lists
<1>12. ASSUME NEW i \in wanted
       PROVE  \E x \in 1 .. Len(list') : On(list'[x]) /\ LetsThrough(list'[x], i)
  <2>1. PICK x \in 1 .. Len(list) : On(list[x]) /\ LetsThrough(list[x], i)
    BY DEF StillOn
  <2>2. x \in 1 .. Len(list') /\ Core(list'[x]) = Core(list[x]) /\ On(list'[x])
    BY <1>9, <1>11, <2>1 DEF OnStays
  <2> QED
    BY <2>1, <2>2, CoreFacts
<1>13. ASSUME Accepted(words, radio, protocols, connections), NEW i \in asked
       PROVE  \E x \in 1 .. Len(list') : On(list'[x]) /\ LetsThrough(list'[x], i)
  <2>1. Single(i)
    BY <1>4, <1>13
  <2>2. PICK k \in 1 .. n : i \in valid(k)
    BY <1>4, <1>13
  <2>3. i \in Items /\ IsSeenTo(list', i)
    BY <1>7, <1>9, <2>2
  <2>4. PICK x \in 1 .. Len(list') : On(list'[x]) /\ Same(list'[x], i)
    BY <2>3 DEF IsSeenTo
  <2>5. list'[x] \in Entries
    BY <1>11
  <2> QED
    BY <1>8, <2>1, <2>3, <2>4, <2>5, SinglePasses
<1>14. \A i \in wanted' : \E x \in 1 .. Len(list') : On(list'[x]) /\ LetsThrough(list'[x], i)
  BY <1>3, <1>12, <1>13
<1> QED
  BY <1>14 DEF StillOn

(* What goes takes with it what it let through. *)
LEMMA TakenBackOn ==
  ASSUME StillOn, NEW x \in 1 .. Len(list), wanted' = TakenBack(list[x]),
         \A y \in 1 .. Len(list) : y # x =>
           \E z \in 1 .. Len(list') : list'[z] = list[y]
  PROVE  StillOn'
<1>1. ASSUME NEW i \in wanted'
      PROVE  \E z \in 1 .. Len(list') : On(list'[z]) /\ LetsThrough(list'[z], i)
  <2>1. i \in wanted /\ ~LetsThrough(list[x], i)
    BY DEF TakenBack
  <2>2. PICK y \in 1 .. Len(list) : On(list[y]) /\ LetsThrough(list[y], i)
    BY <2>1 DEF StillOn
  <2>3. PICK z \in 1 .. Len(list') : list'[z] = list[y]
    BY <2>1, <2>2
  <2> QED
    BY <2>2, <2>3
<1> QED
  BY <1>1 DEF StillOn

LEMMA AppliedWanted ==
  ASSUME WhitelistInv, Clean(conf), NEW l, Writable(l, conf), Apply(l),
         \A i \in wanted' : \E x \in 1 .. Len(l) :
           On(l[x]) /\ ((l[x] \in Entries /\ LetsThrough(l[x], i)) \/ RuleOf(l[x]) = RuleOf(i))
  PROVE  Clean(conf') /\ StillOn'
<1>1. /\ WrittenUpTo(conf', l, Len(l))
      /\ list' \in Seq(Entries)
      /\ \A x \in 1 .. Len(l) : On(l[x]) =>
           \E y \in 1 .. Len(list') :
             /\ On(list'[y]) /\ list'[y].value = l[x].value
             /\ getGroup(list'[y]) = getGroup(l[x])
  BY AppliedOn
<1>2. ASSUME NEW i \in wanted'
      PROVE  \E y \in 1 .. Len(list') : On(list'[y]) /\ LetsThrough(list'[y], i)
  <2>1. PICK x \in 1 .. Len(l) :
          On(l[x]) /\ ((l[x] \in Entries /\ LetsThrough(l[x], i)) \/ RuleOf(l[x]) = RuleOf(i))
    OBVIOUS
  <2>2. PICK y \in 1 .. Len(list') :
          /\ On(list'[y]) /\ list'[y].value = l[x].value
          /\ getGroup(list'[y]) = getGroup(l[x])
    BY <1>1, <2>1
  <2>3. list'[y] \in Entries
    BY <1>1
  <2>4. /\ RuleOf(list'[y]) = RuleOf(l[x])
        /\ l[x] \in Entries => (LetsThrough(list'[y], i) <=> LetsThrough(l[x], i))
    BY <2>2, <2>3, FiledAlike
  <2>5. LetsThrough(list'[y], i)
    BY <2>1, <2>4 DEF LetsThrough
  <2> QED
    BY <2>2, <2>5
<1>3. Clean(conf')
  BY <1>1 DEF WrittenUpTo
<1> QED
  BY <1>2, <1>3 DEF StillOn

LEMMA NextWanted ==
  ASSUME WhitelistInv, WantedInv, [Next]_vars
  PROVE  WantedInv'
<1>1. may' = may
  BY DEF Next, addEntry, Toggle, removeItemAt, undo, applyChanges, AllowPermanently, Apply, vars
<1> SUFFICES ASSUME ~may.hand, Clean(conf), StillOn PROVE Clean(conf') /\ StillOn'
  BY <1>1 DEF WantedInv
<1>2. /\ list \in Seq(Entries) /\ list \in Seq(Loose) /\ Len(list) \in Nat
      /\ \A x \in 1 .. Len(list) : list[x] \in Entries
  BY InvFacts
<1>3. ASSUME NEW n \in 1 .. MaxWords, NEW words \in [1 .. n -> may.typed], NEW radio,
             NEW protocols \in SUBSET may.protocols \ {{}},
             NEW connections \in SUBSET may.connections \ {{}},
             addEntry(words, radio, protocols, connections)
      PROVE  Clean(conf') /\ StillOn'
  <2>1. protocols \in SUBSET may.protocols /\ connections \in SUBSET may.connections
    OBVIOUS
  <2>2. conf' = conf
    BY <1>3 DEF addEntry
  <2> QED
    BY <1>3, <2>1, <2>2, AddEntryWanted
<1>4. ASSUME NEW x \in 1 .. Len(list), Toggle(x) PROVE Clean(conf') /\ StillOn'
  <2>1. conf' = conf /\ wanted' = TakenBack(list[x])
    BY <1>4 DEF Toggle
  <2>2. Len(list') = Len(list) /\ \A y \in 1 .. Len(list) : y # x => list'[y] = list[y]
    BY <1>2, <1>4 DEF Toggle
  <2>3. StillOn'
    BY <2>1, <2>2, TakenBackOn
  <2> QED
    BY <2>1, <2>3
<1>5. ASSUME NEW x \in 1 .. Len(list), removeItemAt(x) PROVE Clean(conf') /\ StillOn'
  <2>1. conf' = conf /\ wanted' = TakenBack(list[x]) /\ list' = Without(x)
    BY <1>5 DEF removeItemAt
  <2>2. CASE isAdded(list[x])
    <3>1. list' = RemoveAt(list, x)
      BY <2>1, <2>2 DEF Without
    <3>2. /\ Len(list') = Len(list) - 1
          /\ \A z \in 1 .. Len(list') : list'[z] = list[IF z < x THEN z ELSE z + 1]
      BY <1>2, <3>1, RemoveAtElements
    <3>3. ASSUME NEW y \in 1 .. Len(list), y # x
          PROVE  \E z \in 1 .. Len(list') : list'[z] = list[y]
      <4>1. CASE y < x
        <5>1. y \in 1 .. Len(list')
          BY <1>2, <3>2, <4>1
        <5> QED
          BY <3>2, <4>1, <5>1
      <4>2. CASE y > x
        <5>1. y - 1 \in 1 .. Len(list') /\ ~(y - 1 < x) /\ (y - 1) + 1 = y
          BY <1>2, <3>2, <4>2
        <5> QED
          BY <3>2, <5>1
      <4> QED
        BY <1>2, <3>3, <4>1, <4>2
    <3> QED
      BY <2>1, <3>3, TakenBackOn
  <2>3. CASE ~isAdded(list[x])
    <3>1. Len(list') = Len(list) /\ \A y \in 1 .. Len(list) : y # x => list'[y] = list[y]
      BY <1>2, <2>1, <2>3 DEF Without
    <3> QED
      BY <2>1, <3>1, TakenBackOn
  <2> QED
    BY <2>2, <2>3
<1>6. CASE undo
  BY <1>6 DEF undo, StillOn
<1>7. CASE applyChanges
  <2>1. Apply(list) /\ wanted' = wanted
    BY <1>7 DEF applyChanges
  <2>2. Writable(list, conf)
    BY ListWritable
  <2>3. \A i \in wanted' : \E x \in 1 .. Len(list) :
          /\ On(list[x])
          /\ (list[x] \in Entries /\ LetsThrough(list[x], i)) \/ RuleOf(list[x]) = RuleOf(i)
    BY <1>2, <2>1 DEF StillOn
  <2> QED
    BY <2>1, <2>2, <2>3, AppliedWanted
<1>8. ASSUME NEW w \in may.typed, NEW p \in may.protocols, NEW c \in may.connections,
             AllowPermanently(Item(w, <<p, c>>))
      PROVE  Clean(conf') /\ StillOn'
  <2> DEFINE i == Item(w, <<p, c>>)
             e == Entry(i, "absent", "on")
             l == addItem(list, i, "absent", "on")
  <2>1. Apply(l) /\ wanted' = IF indexOfItem(list, i) = 0 THEN wanted \cup {i} ELSE wanted
    BY <1>8 DEF AllowPermanently
  <2>2. CASE indexOfItem(list, i) # 0
    <3>1. l = list /\ wanted' = wanted
      BY <2>1, <2>2 DEF addItem
    <3>2. Writable(list, conf) /\ Apply(list)
      BY <2>1, <3>1, ListWritable
    <3>3. \A j \in wanted' : \E x \in 1 .. Len(list) :
            /\ On(list[x])
            /\ (list[x] \in Entries /\ LetsThrough(list[x], j)) \/ RuleOf(list[x]) = RuleOf(j)
      BY <1>2, <3>1 DEF StillOn
    <3> QED
      BY <3>2, <3>3, AppliedWanted
  <2>3. CASE indexOfItem(list, i) = 0
    <3>1. e \in Loose
      BY InvFacts, WorldFacts DEF Item, Entry, Loose, States
    <3>2. On(e) /\ RuleOf(e) = RuleOf(i)
      BY DEF Entry, On, RuleOf
    <3>3. l = Append(list, e) /\ wanted' = wanted \cup {i}
      BY <2>1, <2>3 DEF addItem
    <3>4. Writable(l, conf)
      BY <2>3, <3>1, <3>3, AddedWritable
    <3> HIDE DEF e, l, i
    <3>5. /\ Len(l) = Len(list) + 1 /\ l[Len(list) + 1] = e
          /\ \A x \in 1 .. Len(list) : l[x] = list[x] /\ x \in 1 .. Len(l)
      BY <1>2, <3>1, <3>3, Appended
    <3>6. Len(list) + 1 \in 1 .. Len(l)
      BY <1>2, <3>5
    <3>7. ASSUME NEW j \in wanted
          PROVE  \E x \in 1 .. Len(l) :
                   /\ On(l[x])
                   /\ (l[x] \in Entries /\ LetsThrough(l[x], j)) \/ RuleOf(l[x]) = RuleOf(j)
      <4>1. PICK x \in 1 .. Len(list) : On(list[x]) /\ LetsThrough(list[x], j)
        BY DEF StillOn
      <4>2. x \in 1 .. Len(l) /\ l[x] = list[x] /\ l[x] \in Entries
        BY <1>2, <3>5
      <4> QED
        BY <4>1, <4>2
    <3>8. \E x \in 1 .. Len(l) :
            /\ On(l[x])
            /\ (l[x] \in Entries /\ LetsThrough(l[x], i)) \/ RuleOf(l[x]) = RuleOf(i)
      BY <3>2, <3>5, <3>6
    <3>9. \A j \in wanted' : \E x \in 1 .. Len(l) :
            /\ On(l[x])
            /\ (l[x] \in Entries /\ LetsThrough(l[x], j)) \/ RuleOf(l[x]) = RuleOf(j)
      BY <3>3, <3>7, <3>8
    <3>10. Apply(l)
      BY <2>1 DEF l, i
    <3> QED
      BY <3>4, <3>9, <3>10, AppliedWanted
  <2> QED
    BY <2>2, <2>3
<1>9. CASE UNCHANGED vars
  BY <1>9 DEF vars, StillOn
<1> QED
  BY <1>3, <1>4, <1>5, <1>6, <1>7, <1>8, <1>9 DEF Next

(* What was asked for stays on, for any words, services and edits, unless    *)
(* the files were edited by hand.                                            *)
THEOREM WantedTheorem == Spec => []WantedIsOn
<1>1. Init => WhitelistInv /\ WantedInv
  BY InitWhitelist, InitClean DEF WantedInv, StillOn, Init
<1>2. WhitelistInv /\ WantedInv /\ [Next]_vars => WhitelistInv' /\ WantedInv'
  BY NextWhitelist, NextWanted
<1>3. WantedInv => WantedIsOn
  BY DEF WantedInv, StillOn, WantedIsOn
<1> QED
  BY <1>1, <1>2, <1>3, PTL DEF Spec

-----------------------------------------------------------------------------
(* What goes *)

(* What is read has been filed. *)
LEMMA LoadFiled ==
  ASSUME may \in Worlds, NEW c \in Files, NEW o \in Files, NEW y \in 1 .. Len(load(c, o))
  PROVE  LET e == load(c, o)[y]
         IN  Has(c, getGroup(e), e.value) \/ Has(o, getGroup(e), e.value)
<1> DEFINE From(i) == Has(c, getGroup(i), i.value) \/ Has(o, getGroup(i), i.value)
           X == {i \in Items : From(i)}
           A == {l \in Seq(Entries) : \A x \in 1 .. Len(l) : From(l[x])}
           s == ItemsIn(c)
           t == ItemsIn(o)
<1>1. s \in Seq(Items) /\ t \in Seq(Items)
  BY ItemsFiled
<1>2. ASSUME NEW f \in {c, o}, NEW p \in 1 .. Len(ItemsIn(f)), ItemsIn(f)[p] \in Items
      PROVE  ItemsIn(f)[p] \in X
  <2>1. f \in Files
    OBVIOUS
  <2>2. PICK g \in Groups : \E m \in 1 .. Len(f[g]) : ItemsIn(f)[p] = Item(f[g][m], g)
    BY <2>1, ItemsOrder
  <2>3. PICK m \in 1 .. Len(f[g]) : ItemsIn(f)[p] = Item(f[g][m], g)
    BY <2>2
  <2> DEFINE i == Item(f[g][m], g)
  <2>4. Is(Entry(i, "on", "on"), f[g][m], g)
    BY <2>1, ItemFacts DEF States
  <2>5. getGroup(i) = g /\ i.value = f[g][m]
    BY <2>4 DEF Is, Entry, getGroup, Item
  <2> HIDE DEF i
  <2>6. Has(f, getGroup(i), i.value)
    BY <2>5 DEF Has
  <2>7. From(i)
    BY <2>6
  <2> QED
    BY <1>2, <2>3, <2>7 DEF i
<1> HIDE DEF From
<1>3. s \in Seq(X) /\ t \in Seq(X)
  <2>1. \A p \in 1 .. Len(s) : s[p] \in X
    BY <1>1, <1>2
  <2>2. \A p \in 1 .. Len(t) : t[p] \in X
    BY <1>1, <1>2
  <2> HIDE DEF s, t, X
  <2> QED
    BY <1>1, <2>1, <2>2
<1> HIDE DEF s, t
<1>4. ASSUME NEW was \in {"on", "off"} PROVE AddsWithin(A, X, was, was)
  <2>1. ASSUME NEW l \in A, NEW i \in X PROVE addItem(l, i, was, was) \in A
    <3> DEFINE e == Entry(i, was, was)
    <3>1. e \in Entries
      BY EntryFacts DEF States
    <3>2. From(e)
      <4>1. From(i)
        OBVIOUS
      <4>2. getGroup(e) = getGroup(i) /\ e.value = i.value
        BY DEF Entry, getGroup
      <4> HIDE DEF e
      <4> QED
        BY <4>1, <4>2 DEF From
    <3> HIDE DEF e
    <3>3. l \in Seq(Entries) /\ \A x \in 1 .. Len(l) : From(l[x])
      OBVIOUS
    <3>4. /\ Append(l, e) \in Seq(Entries) /\ Len(Append(l, e)) = Len(l) + 1
          /\ Append(l, e)[Len(l) + 1] = e
          /\ \A x \in 1 .. Len(l) : Append(l, e)[x] = l[x]
      BY <3>1, <3>3, Appended
    <3>5. \A x \in 1 .. Len(l) + 1 : x \in 1 .. Len(l) \/ x = Len(l) + 1
      BY <3>3
    <3>6. Append(l, e) \in A
      BY <3>2, <3>3, <3>4, <3>5
    <3> QED
      BY <3>6 DEF addItem, e
  <2> HIDE DEF A, X
  <2> QED
    BY <2>1 DEF AddsWithin
<1>5. <<>> \in A
  OBVIOUS
<1> HIDE DEF A, X
<1>6. PICK F \in [0 .. Len(s) -> A] : F[Len(s)] = Adds(<<>>, s, "on", "on")
  BY <1>3, <1>4, <1>5, AddFold
<1>7. Adds(<<>>, s, "on", "on") \in A
  <2>1. Len(s) \in 0 .. Len(s)
    BY <1>1
  <2> QED
    BY <1>6, <2>1
<1> DEFINE a == Adds(<<>>, s, "on", "on")
<1>8. load(c, o) = Adds(a, t, "off", "off")
  BY DEF load, Adds, s, t
<1> HIDE DEF a
<1>9. PICK G \in [0 .. Len(t) -> A] : G[Len(t)] = Adds(a, t, "off", "off")
  <2>1. a \in A
    BY <1>7 DEF a
  <2> QED
    BY <1>3, <1>4, <2>1, AddFold
<1>10. load(c, o) \in A
  <2>1. Len(t) \in 0 .. Len(t)
    BY <1>1
  <2> QED
    BY <1>8, <1>9, <2>1
<1>11. From(load(c, o)[y])
  BY <1>10 DEF A
<1> QED
  BY <1>11 DEF From

(* Nothing but an entry's own value is put into a variable, and what is      *)
(* taken out is gone.                                                        *)
LEMMA PutElse ==
  ASSUME NEW f \in Files, NEW e \in Loose, NEW b, NEW g \in Groups, NEW v,
         Has(Put(f, e, b), g, v)
  PROVE  Has(f, g, v) \/ (b /\ g = getGroup(e) /\ v = e.value)
<1> DEFINE h == getGroup(e)
           k == Put(f, e, b)
<1>1. /\ h \in Groups /\ k \in Files
      /\ \A d \in Groups : d # h => k[d] = f[d]
      /\ b /\ Contains(f[h], e.value) => k[h] = f[h]
      /\ b /\ ~Contains(f[h], e.value) => k[h] = Append(f[h], e.value)
      /\ ~b => Thinned(k[h], f[h], Len(f[h]), e.value)
  BY PutFacts
<1> HIDE DEF h, k
<1>2. PICK m \in 1 .. Len(k[g]) : k[g][m] = v
  BY DEF Has, k
<1>3. CASE g # h
  BY <1>1, <1>2, <1>3 DEF Has
<1>4. CASE g = h /\ ~b
  BY <1>1, <1>2, <1>4 DEF Has, Thinned
<1>5. CASE g = h /\ b
  <2>1. CASE k[h] = f[h]
    BY <1>2, <1>5, <2>1 DEF Has
  <2>2. CASE k[h] = Append(f[h], e.value)
    <3>1. f[h] \in Seq(may.typed) /\ e.value \in may.typed
      BY <1>1 DEF Files, Loose
    <3>2. /\ Len(k[h]) = Len(f[h]) + 1 /\ k[h][Len(f[h]) + 1] = e.value
          /\ \A n \in 1 .. Len(f[h]) : k[h][n] = f[h][n]
      BY <2>2, <3>1, Appended
    <3>3. m \in 1 .. Len(f[h]) \/ m = Len(f[h]) + 1
      BY <1>2, <1>5, <3>1, <3>2
    <3> QED
      BY <1>2, <1>5, <3>2, <3>3 DEF Has, h
  <2> QED
    BY <1>1, <1>5, <2>1, <2>2
<1> QED
  BY <1>3, <1>4, <1>5

LEMMA PutGone ==
  ASSUME NEW f \in Files, NEW e \in Loose, NEW b, ~b
  PROVE  ~Has(Put(f, e, b), getGroup(e), e.value)
<1> DEFINE h == getGroup(e)
           k == Put(f, e, b)
<1>1. Thinned(k[h], f[h], Len(f[h]), e.value)
  BY PutFacts
<1> HIDE DEF h, k
<1>2. ~Has(k, h, e.value)
  BY <1>1 DEF Thinned, Has
<1> QED
  BY <1>2 DEF h, k

(* An entry whose value is taken out is not in the file after the last one:  *)
(* no other entry has its value.                                             *)
LEMMA TakenStaysOut ==
  ASSUME NEW l \in Seq(Entries), Distinct(l), NEW F \in [0 .. Len(l) -> Files], NEW B,
         \A k \in 1 .. Len(l) :
           F[k] = IF isChanged(l[k]) THEN Put(F[k - 1], l[k], B[k]) ELSE F[k - 1],
         NEW x \in 1 .. Len(l), isChanged(l[x]), ~B[x]
  PROVE  ~Has(F[Len(l)], getGroup(l[x]), l[x].value)
<1> DEFINE g == getGroup(l[x])
           v == l[x].value
           Out(k) == ~Has(F[k], g, v)
           P == {k \in Nat : x + k <= Len(l) => Out(x + k)}
<1>1. Len(l) \in Nat /\ x \in Nat /\ x <= Len(l)
  OBVIOUS
<1>2. \A k \in 1 .. Len(l) : l[k] \in Entries /\ l[k] \in Loose
  BY DEF Entries
<1>3. g \in Groups
  BY <1>2 DEF Loose, getGroup, Groups, Protocols
<1>4. \A k \in 1 .. Len(l) : k # x => ~(g = getGroup(l[k]) /\ v = l[k].value)
  BY <1>2, FiledAlike DEF Distinct, Alike, Comparable
<1>5. Out(x)
  <2>1. F[x] = Put(F[x - 1], l[x], B[x]) /\ F[x - 1] \in Files
    <3>1. x - 1 \in 0 .. Len(l)
      BY <1>1
    <3> QED
      BY <3>1
  <2> QED
    BY <1>2, <2>1, PutGone
<1> HIDE DEF g, v
<1>6. ASSUME NEW k \in 1 .. Len(l), k # x, Out(k - 1) PROVE Out(k)
  <2>1. F[k - 1] \in Files
    <3>1. k - 1 \in 0 .. Len(l)
      BY <1>1
    <3> QED
      BY <3>1
  <2>2. CASE isChanged(l[k])
    <3>1. F[k] = Put(F[k - 1], l[k], B[k])
      BY <2>2
    <3>2. ASSUME Has(F[k], g, v) PROVE FALSE
      <4>1. Has(Put(F[k - 1], l[k], B[k]), g, v) /\ l[k] \in Loose
        BY <1>2, <3>1, <3>2
      <4>2. Has(F[k - 1], g, v) \/ (B[k] /\ g = getGroup(l[k]) /\ v = l[k].value)
        BY <1>3, <2>1, <4>1, PutElse
      <4> QED
        BY <1>4, <1>6, <4>2
    <3> QED
      BY <3>2
  <2>3. CASE ~isChanged(l[k])
    <3>1. F[k] = F[k - 1]
      BY <2>3
    <3> QED
      BY <1>6, <3>1
  <2> QED
    BY <2>2, <2>3
<1> HIDE DEF Out
<1>7. 0 \in P
  <2>1. x + 0 = x
    BY <1>1
  <2> QED
    BY <1>5, <2>1
<1>8. ASSUME NEW k \in P PROVE k + 1 \in P
  <2> SUFFICES ASSUME x + (k + 1) <= Len(l) PROVE Out(x + (k + 1))
    OBVIOUS
  <2>1. /\ k \in Nat /\ x + (k + 1) \in 1 .. Len(l) /\ (x + (k + 1)) - 1 = x + k
        /\ x + (k + 1) # x /\ x + k <= Len(l)
    BY <1>1
  <2>2. Out(x + k)
    BY <2>1
  <2> QED
    BY <1>6, <2>1, <2>2
<1>9. P = Nat
  <2> HIDE DEF P
  <2>1. P \in SUBSET Nat
    BY DEF P
  <2> QED
    BY <1>7, <1>8, <2>1, Counting
<1>10. Len(l) - x \in Nat /\ x + (Len(l) - x) = Len(l)
  BY <1>1
<1>11. Out(Len(l))
  <2>1. Len(l) - x \in P
    BY <1>9, <1>10
  <2> QED
    BY <1>1, <1>10, <2>1
<1> QED
  BY <1>11 DEF Out, g, v

(* What was removed is in neither file after an application. *)
LEMMA RemovedGone ==
  ASSUME WhitelistInv, Apply(list), NEW x \in 1 .. Len(list), list[x].removed,
         NEW y \in 1 .. Len(list'), list'[y].value = list[x].value
  PROVE  getGroup(list'[y]) # getGroup(list[x])
<1> DEFINE g == getGroup(list[x])
           v == list[x].value
<1>1. /\ may \in Worlds /\ list \in Seq(Entries) /\ list \in Seq(Loose) /\ list[x] \in Loose
      /\ conf \in Files /\ off \in Files /\ Distinct(list)
  BY InvFacts DEF WhitelistInv, Edits, Lists
<1>2. /\ conf' = updatePglSettings(list) /\ off' = updateGuiSettings(list)
      /\ list' = load(conf', off')
  BY DEF Apply
<1>3. conf' \in Files /\ off' \in Files
  BY <1>1, <1>2, UpdatesKeep
<1>4. isChanged(list[x]) /\ ~On(list[x]) /\ ~(list[x].now = "off" /\ ~list[x].removed)
  BY DEF isChanged, On
<1>5. ~Has(conf', g, v)
  <2>1. PglWithin(Files, Loose)
    BY PutKeeps DEF PglWithin
  <2>2. \E F \in [0 .. Len(list) -> Files] :
          /\ F[0] = conf
          /\ \A k \in 1 .. Len(list) :
               F[k] = IF isChanged(list[k]) THEN Put(F[k - 1], list[k], On(list[k]))
                                            ELSE F[k - 1]
          /\ F[Len(list)] = updatePglSettings(list)
    BY <1>1, <2>1, PglFold
  <2>3. PICK F \in [0 .. Len(list) -> Files] :
          /\ \A k \in 1 .. Len(list) :
               F[k] = IF isChanged(list[k]) THEN Put(F[k - 1], list[k], On(list[k]))
                                            ELSE F[k - 1]
          /\ F[Len(list)] = updatePglSettings(list)
    BY <2>2
  <2> DEFINE B == [k \in 1 .. Len(list) |-> On(list[k])]
  <2>4. ~B[x] /\ \A k \in 1 .. Len(list) : B[k] = On(list[k])
    BY <1>4, Zenon
  <2> HIDE DEF B
  <2>5. \A k \in 1 .. Len(list) :
          F[k] = IF isChanged(list[k]) THEN Put(F[k - 1], list[k], B[k]) ELSE F[k - 1]
    BY <2>3, <2>4
  <2>6. ~Has(F[Len(list)], g, v)
    BY <1>1, <1>4, <2>4, <2>5, TakenStaysOut
  <2> QED
    BY <1>2, <2>3, <2>6
<1>6. ~Has(off', g, v)
  <2>1. GuiWithin(Files, Loose)
    BY PutKeeps DEF GuiWithin
  <2>2. \E F \in [0 .. Len(list) -> Files] :
          /\ F[0] = off
          /\ \A k \in 1 .. Len(list) :
               F[k] = IF isChanged(list[k])
                        THEN Put(F[k - 1], list[k], list[k].now = "off" /\ ~list[k].removed)
                        ELSE F[k - 1]
          /\ F[Len(list)] = updateGuiSettings(list)
    BY <1>1, <2>1, GuiFold
  <2>3. PICK F \in [0 .. Len(list) -> Files] :
          /\ \A k \in 1 .. Len(list) :
               F[k] = IF isChanged(list[k])
                        THEN Put(F[k - 1], list[k], list[k].now = "off" /\ ~list[k].removed)
                        ELSE F[k - 1]
          /\ F[Len(list)] = updateGuiSettings(list)
    BY <2>2
  <2> DEFINE B == [k \in 1 .. Len(list) |-> list[k].now = "off" /\ ~list[k].removed]
  <2>4. ~B[x] /\ \A k \in 1 .. Len(list) : B[k] = (list[k].now = "off" /\ ~list[k].removed)
    BY <1>4, Zenon
  <2> HIDE DEF B
  <2>5. \A k \in 1 .. Len(list) :
          F[k] = IF isChanged(list[k]) THEN Put(F[k - 1], list[k], B[k]) ELSE F[k - 1]
    BY <2>3, <2>4
  <2>6. ~Has(F[Len(list)], g, v)
    BY <1>1, <1>4, <2>4, <2>5, TakenStaysOut
  <2> QED
    BY <1>2, <2>3, <2>6
<1> SUFFICES ASSUME getGroup(list'[y]) = g PROVE FALSE
  OBVIOUS
<1> HIDE DEF g, v
<1>7. list'[y].value = v
  BY DEF v
<1>8. Has(conf', g, v) \/ Has(off', g, v)
  <2>1. y \in 1 .. Len(load(conf', off')) /\ list'[y] = load(conf', off')[y]
    BY <1>2
  <2>2. \/ Has(conf', getGroup(list'[y]), list'[y].value)
        \/ Has(off', getGroup(list'[y]), list'[y].value)
    BY <1>1, <1>3, <2>1, LoadFiled
  <2> QED
    BY <1>7, <2>2
<1> QED
  BY <1>5, <1>6, <1>8

(* What is not on is in pglcmd.conf by no comparable name. *)
LEMMA OffGone ==
  ASSUME WhitelistInv, Clean(conf), Apply(list), NEW x \in 1 .. Len(list), ~On(list[x])
  PROVE  ~IsIn(ItemsIn(conf'), list[x])
<1> SUFFICES ASSUME NEW n \in 1 .. Len(ItemsIn(conf')),
                    Alike(ItemsIn(conf')[n], list[x])
             PROVE  FALSE
  BY DEF IsIn
<1>1. /\ may \in Worlds /\ conf \in Files /\ Distinct(list)
      /\ \A y \in 1 .. Len(list) : list[y] \in Entries /\ list[y] \in Loose
  BY InvFacts DEF WhitelistInv, Edits, Lists
<1>2. WrittenUpTo(conf', list, Len(list))
  BY ListWritable, AppliedOn
<1> DEFINE c == conf'
<1>3. c \in Files
  BY <1>2 DEF WrittenUpTo
<1> HIDE DEF c
<1>4. PICK g \in Groups : \E m \in 1 .. Len(c[g]) : ItemsIn(c)[n] = Item(c[g][m], g)
  BY <1>3, ItemsOrder DEF c
<1>5. PICK m \in 1 .. Len(c[g]) : ItemsIn(c)[n] = Item(c[g][m], g)
  BY <1>4
<1>6. PICK y \in 1 .. Len(list) : Stays(list, y, Len(list)) /\ Is(list[y], c[g][m], g)
  BY <1>2 DEF WrittenUpTo, c
<1>7. On(list[y])
  BY <1>6 DEF Stays
<1> DEFINE i == Item(c[g][m], g)
           e == Entry(i, "on", "on")
<1>8. i \in Items /\ Is(e, c[g][m], g)
  BY <1>3, ItemFacts DEF States
<1>9. RuleOf(e) = RuleOf(i) /\ e.value = i.value
  BY <1>8, EntryFacts DEF States
<1> HIDE DEF i, e
<1>10. RuleOf(e) = RuleOf(list[y]) /\ e.value = list[y].value
  BY <1>6, <1>8, FiledAlike DEF Is
<1>11. Alike(list[y], list[x])
  <2>1. Alike(i, list[x])
    BY <1>5 DEF i, c
  <2> QED
    BY <1>9, <1>10, <2>1 DEF Alike
<1>12. x = y
  BY <1>1, <1>11 DEF Distinct
<1> QED
  BY <1>7, <1>12

(* An application takes what was switched off or removed out of pglcmd.conf, *)
(* by every comparable name, unless this was edited by hand, and what was    *)
(* removed is not read back as it was.                                       *)
THEOREM OffTheorem == Spec => OffStaysOff
<1>1. Init => WhitelistInv /\ WantedInv
  BY InitWhitelist, InitClean DEF WantedInv, StillOn, Init
<1>2. WhitelistInv /\ WantedInv /\ [Next]_vars => WhitelistInv' /\ WantedInv'
  BY NextWhitelist, NextWanted
<1> DEFINE Gone == applyChanges =>
             \A x \in 1 .. Len(list) :
               /\ ~On(list[x]) /\ ~may.hand => ~IsIn(ItemsIn(conf'), list[x])
               /\ list[x].removed =>
                    \A y \in 1 .. Len(list') :
                      list'[y].value = list[x].value =>
                        getGroup(list'[y]) # getGroup(list[x])
<1>3. WhitelistInv /\ WantedInv /\ [Next]_vars => [Gone]_vars
  <2> SUFFICES ASSUME WhitelistInv, WantedInv, applyChanges, NEW x \in 1 .. Len(list)
               PROVE  /\ ~On(list[x]) /\ ~may.hand => ~IsIn(ItemsIn(conf'), list[x])
                      /\ list[x].removed =>
                           \A y \in 1 .. Len(list') :
                             list'[y].value = list[x].value =>
                               getGroup(list'[y]) # getGroup(list[x])
    OBVIOUS
  <2>1. Apply(list)
    BY DEF applyChanges
  <2>2. ~On(list[x]) /\ ~may.hand => ~IsIn(ItemsIn(conf'), list[x])
    BY <2>1, OffGone DEF WantedInv
  <2>3. list[x].removed =>
          \A y \in 1 .. Len(list') :
            list'[y].value = list[x].value => getGroup(list'[y]) # getGroup(list[x])
    BY <2>1, RemovedGone
  <2> QED
    BY <2>2, <2>3
<1> QED
  BY <1>1, <1>2, <1>3, PTL DEF Spec, OffStaysOff

=============================================================================
