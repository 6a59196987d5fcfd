----------------------------- MODULE ProofLemmas -----------------------------
(***************************************************************************)
(* Facts the proofs of several modules cite: induction over the naturals   *)
(* and the functions defined by it, the levels of a graph search and when  *)
(* they stop growing, and chains of records (AuditLog).                    *)
(***************************************************************************)
EXTENDS AuditLog, FiniteSetTheorems, WellFoundedInduction, TLAPS

-----------------------------------------------------------------------------
(* Induction *)

\* A set with 0 and the successor of each of its numbers has them all.  The
\* library's induction theorems are about operators; this one, about a set,
\* follows from the least element of its complement.
LEMMA NatSetInduction ==
    ASSUME NEW S, 0 \in S, \A n \in Nat : n \in S => n + 1 \in S
    PROVE  Nat \subseteq S
  <1> DEFINE T == Nat \ S
             R == OpToRel(<, Nat)
  <1> SUFFICES ASSUME T # {} PROVE FALSE
    OBVIOUS
  <1>1. IsWellFoundedOn(R, Nat)
    BY NatLessThanWellFounded, Zenon
  <1>2. T \subseteq Nat
    OBVIOUS
  <1>3. \A x, y \in Nat : <<x, y>> \in R <=> x < y
    BY DEF OpToRel
  <1> HIDE DEF T, R
  <1>4. PICK x \in T : \A y \in T : ~ (<<y, x>> \in R)
    BY <1>1, <1>2, WFMin
  <1>5. x \in Nat /\ x \notin S /\ x # 0
    BY <1>2, <1>4 DEF T
  <1>6. x - 1 \in Nat /\ x - 1 < x /\ (x - 1) + 1 = x
    BY <1>5
  <1>7. x - 1 \in T
    BY <1>5, <1>6 DEF T
  <1> QED
    BY <1>3, <1>4, <1>5, <1>6, <1>7

\* The same up to a bound.
LEMMA UpTo ==
    ASSUME NEW n \in Nat, NEW S, 0 \in S,
           \A k \in 1..n : k - 1 \in S => k \in S
    PROVE  0..n \subseteq S
  <1> DEFINE T == {k \in Nat : k <= n => k \in S}
  <1>1. 0 \in T
    OBVIOUS
  <1>2. \A k \in Nat : k \in T => k + 1 \in T
    <2> SUFFICES ASSUME NEW k \in Nat, k \in T, k + 1 <= n PROVE k + 1 \in S
      OBVIOUS
    <2>1. k + 1 \in 1..n /\ (k + 1) - 1 = k /\ k <= n
      OBVIOUS
    <2> QED
      BY <2>1
  <1> HIDE DEF T
  <1>3. Nat \subseteq T
    BY <1>1, <1>2, NatSetInduction
  <1> QED
    BY <1>3 DEF T

\* f[k] is what step k makes of the value before it.
Iterated(f, n, V, first, step) ==
    /\ f \in [0..n -> V]
    /\ f[0] = first
    /\ \A k \in 1..n : f[k] = step[k][f[k - 1]]

\* There is such a function.
LEMMA Iterates ==
    ASSUME NEW n \in Nat, NEW V, NEW first \in V, NEW step \in [1..n -> [V -> V]]
    PROVE  \E f : Iterated(f, n, V, first, step)
  <1> DEFINE Is(f, m) == /\ f \in [0..m -> V]
                         /\ f = [k \in 0..m |-> IF k = 0 THEN first ELSE step[k][f[k - 1]]]
             S == {m \in Nat : \E f : Is(f, m)}
  <1>1. 0 \in S
    <2>1. Is([k \in 0..0 |-> first], 0)
      OBVIOUS
    <2> QED
      BY <2>1
  <1>2. ASSUME NEW i \in 1..n, i - 1 \in S
        PROVE  i \in S
    <2> DEFINE m == i - 1
    <2>0. m \in Nat /\ i = m + 1 /\ i \in Nat
      OBVIOUS
    <2> HIDE DEF m
    <2>1. PICK f : Is(f, m)
      BY <1>2 DEF m
    <2> DEFINE g == [k \in 0..i |-> IF k = i THEN step[i][f[m]] ELSE f[k]]
    <2>2. g \in [0..i -> V]
      <3>1. f[m] \in V /\ step[i][f[m]] \in V
        BY <2>0, <2>1
      <3>2. \A k \in 0..i : k # i => k \in 0..m
        BY <2>0
      <3> QED
        BY <2>1, <3>1, <3>2
    <2>3. ASSUME NEW k \in 0..i
          PROVE  g[k] = IF k = 0 THEN first ELSE step[k][g[k - 1]]
      <3>1. CASE k = i
        <4>1. m \in 0..i /\ m # i /\ k - 1 = m /\ k # 0
          BY <2>0, <3>1
        <4> QED
          BY <3>1, <4>1
      <3>2. CASE k # i
        <4>1. k \in 0..m /\ (k # 0 => k - 1 \in 0..m /\ k - 1 \in 0..i /\ k - 1 # i)
          BY <2>0, <3>2
        <4>2. f[k] = IF k = 0 THEN first ELSE step[k][f[k - 1]]
          BY <2>1, <4>1
        <4> QED
          BY <3>2, <4>1, <4>2
      <3> QED
        BY <3>1, <3>2
    <2>4. g = [k \in 0..i |-> IF k = 0 THEN first ELSE step[k][g[k - 1]]]
      BY <2>3
    <2> HIDE DEF g
    <2>5. Is(g, i)
      BY <2>2, <2>4
    <2> HIDE DEF Is
    <2> QED
      BY <2>0, <2>5
  <1> HIDE DEF S
  <1>3. 0..n \subseteq S
    BY <1>1, <1>2, UpTo
  <1>4. PICK f : Is(f, n)
    BY <1>3 DEF S
  <1>5. \A k \in 0..n : f[k] = IF k = 0 THEN first ELSE step[k][f[k - 1]]
    BY <1>4
  <1>6. 0 \in 0..n /\ \A k \in 1..n : k \in 0..n /\ k # 0
    OBVIOUS
  <1> QED
    BY <1>4, <1>5, <1>6 DEF Iterated

-----------------------------------------------------------------------------
(* Levels: what leads somewhere, by the number of steps *)

\* what leads into X along R
Into(R, X) == X \cup {e[1] : e \in {e \in R : e[2] \in X}}

\* L[k] is what leads to base in at most k steps of R.
Levels(L, N, R, base) ==
    /\ DOMAIN L = 0..N
    /\ L[0] = base
    /\ \A k \in 1..N : L[k] = Into(R, L[k - 1])

\* Levels grow.
LEMMA LevelsGrow ==
    ASSUME NEW N \in Nat, NEW L, NEW R, NEW base, Levels(L, N, R, base)
    PROVE  \A k \in 0..N : \A j \in 0..k : L[j] \subseteq L[k]
  <1> DEFINE S == {k \in 0..N : \A j \in 0..k : L[j] \subseteq L[k]}
  <1>1. 0 \in S
    OBVIOUS
  <1>2. ASSUME NEW k \in 1..N, k - 1 \in S
        PROVE  k \in S
    <2>1. \A j \in 0..k - 1 : L[j] \subseteq L[k - 1]
      BY <1>2
    <2>2. L[k - 1] \subseteq L[k]
      BY DEF Levels, Into
    <2>3. \A j \in 0..k : j = k \/ j \in 0..k - 1
      OBVIOUS
    <2> QED
      BY <2>1, <2>2, <2>3
  <1> HIDE DEF S
  <1>3. 0..N \subseteq S
    BY <1>1, <1>2, UpTo
  <1> QED
    BY <1>3 DEF S

\* Everything in a level has one it enters at.
LEMMA LevelsEnter ==
    ASSUME NEW N \in Nat, NEW L, NEW R, NEW base, Levels(L, N, R, base)
    PROVE  \A n \in L[N] : \E k \in 0..N : n \in L[k] /\ (k > 0 => n \notin L[k - 1])
  <1> DEFINE Enters(n) == \E k \in 0..N : n \in L[k] /\ (k > 0 => n \notin L[k - 1])
             S == {k \in 0..N : \A n \in L[k] : Enters(n)}
  <1>1. 0 \in S
    <2>1. 0 \in 0..N /\ ~ (0 > 0)
      OBVIOUS
    <2> QED
      BY <2>1
  <1>2. ASSUME NEW k \in 1..N, k - 1 \in S
        PROVE  k \in S
    <2>1. k \in 0..N
      OBVIOUS
    <2>2. ASSUME NEW n \in L[k] PROVE Enters(n)
      <3>1. CASE n \in L[k - 1]
        BY <1>2, <3>1
      <3>2. CASE n \notin L[k - 1]
        BY <2>1, <2>2, <3>2
      <3> QED
        BY <3>1, <3>2
    <2> QED
      BY <2>1, <2>2
  <1> HIDE DEF S
  <1>3. 0..N \subseteq S
    BY <1>1, <1>2, UpTo
  <1>4. N \in S
    BY <1>3
  <1> QED
    BY <1>4 DEF S

\* After as many steps as there are nodes nothing more leads in.
LEMMA LevelsSaturate ==
    ASSUME NEW X, IsFiniteSet(X), NEW R, \A e \in R : e[1] \in X,
           NEW base \in SUBSET X, NEW L, Levels(L, Cardinality(X), R, base)
    PROVE  /\ L[Cardinality(X)] \subseteq X
           /\ \A e \in R : e[2] \in L[Cardinality(X)] => e[1] \in L[Cardinality(X)]
  <1> DEFINE N == Cardinality(X)
             Closed(Y) == \A e \in R : e[2] \in Y => e[1] \in Y
             S == {k \in 0..N : L[k] \subseteq X /\ (Closed(L[k]) \/ Cardinality(L[k]) >= k)}
  <1>1. N \in Nat
    BY FS_CardinalityType
  <1>2. \A Y \in SUBSET X : /\ IsFiniteSet(Y) /\ Cardinality(Y) \in Nat
                            /\ Cardinality(Y) <= N
                            /\ Cardinality(Y) = N => Y = X
    BY FS_Subset, FS_CardinalityType
  <1>3. \A Y, Z \in SUBSET X : Y \subseteq Z /\ Y # Z => Cardinality(Y) < Cardinality(Z)
    <2> SUFFICES ASSUME NEW Y \in SUBSET X, NEW Z \in SUBSET X, Y \subseteq Z, Y # Z
                 PROVE  Cardinality(Y) < Cardinality(Z)
      OBVIOUS
    <2>1. Cardinality(Y) <= Cardinality(Z) /\ Cardinality(Y) # Cardinality(Z)
      BY <1>2, FS_Subset
    <2> QED
      BY <1>2, <2>1
  <1>4. Closed(X)
    OBVIOUS
  <1>5. L[0] = base /\ \A k \in 1..N : L[k] = Into(R, L[k - 1])
    BY DEF Levels
  <1>6. \A Y \in SUBSET X : /\ Into(R, Y) \subseteq X /\ Y \subseteq Into(R, Y)
                            /\ Into(R, Y) = Y <=> Closed(Y)
    BY DEF Into
  <1> HIDE DEF N, Closed
  <1>7. 0 \in S
    <2>1. 0 \in 0..N /\ L[0] \in SUBSET X
      BY <1>1, <1>5
    <2>2. Cardinality(L[0]) >= 0
      BY <1>2, <2>1
    <2> QED
      BY <2>1, <2>2
  <1>8. ASSUME NEW k \in 1..N, k - 1 \in S
        PROVE  k \in S
    <2>1. k \in 0..N /\ k - 1 \in 0..N
      BY <1>1
    <2>2. L[k - 1] \in SUBSET X /\ L[k] = Into(R, L[k - 1])
      BY <1>5, <1>8
    <2>3. L[k] \in SUBSET X /\ L[k - 1] \subseteq L[k] /\ (L[k] = L[k - 1] <=> Closed(L[k - 1]))
      BY <1>6, <2>2
    <2>4. CASE L[k] = L[k - 1]
      <3>1. Closed(L[k])
        BY <2>3, <2>4
      <3> QED
        BY <2>1, <2>3, <3>1
    <2>5. CASE L[k] # L[k - 1]
      <3>1. Cardinality(L[k - 1]) >= k - 1
        BY <1>8, <2>3, <2>5
      <3>2. Cardinality(L[k - 1]) < Cardinality(L[k])
        BY <1>3, <2>2, <2>3, <2>5
      <3>3. Cardinality(L[k - 1]) \in Nat /\ Cardinality(L[k]) \in Nat
        BY <1>2, <2>2, <2>3
      <3>4. Cardinality(L[k]) >= k
        BY <2>1, <3>1, <3>2, <3>3
      <3> QED
        BY <2>1, <2>3, <3>4
    <2> QED
      BY <2>4, <2>5
  <1> HIDE DEF S
  <1>9. 0..N \subseteq S
    BY <1>1, <1>7, <1>8, UpTo
  <1>10. N \in S
    BY <1>1, <1>9
  <1>11. L[N] \in SUBSET X /\ (Closed(L[N]) \/ Cardinality(L[N]) >= N)
    BY <1>10 DEF S
  <1>12. Closed(L[N])
    <2>1. CASE Cardinality(L[N]) >= N
      <3>1. L[N] = X
        BY <1>1, <1>2, <1>11, <2>1
      <3> QED
        BY <1>4, <3>1
    <2> QED
      BY <1>11, <2>1
  <1> QED
    BY <1>11, <1>12 DEF N, Closed

\* A function defined by such a recursion is what the recursion says.
LEMMA LevelsUnfold ==
    ASSUME NEW N \in Nat, NEW V, NEW R, NEW base \in SUBSET V, \A e \in R : e[1] \in V,
           NEW L,
           L = CHOOSE g : g = [k \in 0..N |->
                 IF k = 0 THEN base
                 ELSE LET nearer == g[k - 1]
                      IN  nearer \cup {e[1] : e \in {e \in R : e[2] \in nearer}}]
    PROVE  Levels(L, N, R, base)
  <1> DEFINE W == SUBSET V
             step == [k \in 1..N |-> [X \in W |-> Into(R, X)]]
             Is(g) == g = [k \in 0..N |->
                 IF k = 0 THEN base
                 ELSE LET nearer == g[k - 1]
                      IN  nearer \cup {e[1] : e \in {e \in R : e[2] \in nearer}}]
  <1>1. \A X \in W : Into(R, X) \in W
    BY DEF Into
  <1>2. step \in [1..N -> [W -> W]]
    BY <1>1
  <1>3. \A k \in 1..N, X \in W : step[k][X] = Into(R, X)
    OBVIOUS
  <1>4. base \in W
    OBVIOUS
  <1> HIDE DEF W, step
  <1>5. PICK f : Iterated(f, N, W, base, step)
    BY <1>2, <1>4, Iterates
  <1>6. /\ f \in [0..N -> W] /\ f[0] = base
        /\ \A k \in 1..N : f[k] = step[k][f[k - 1]]
    BY <1>5 DEF Iterated
  <1>7. \A k \in 1..N : k - 1 \in 0..N /\ k \in 0..N /\ k # 0
    OBVIOUS
  <1>8. \A k \in 1..N : f[k] = Into(R, f[k - 1])
    BY <1>3, <1>6, <1>7
  <1>9. Is(f)
    <2>1. \A k \in 0..N :
            f[k] = IF k = 0 THEN base
                   ELSE LET nearer == f[k - 1]
                        IN  nearer \cup {e[1] : e \in {e \in R : e[2] \in nearer}}
      <3> SUFFICES ASSUME NEW k \in 0..N
                   PROVE  f[k] = IF k = 0 THEN base ELSE Into(R, f[k - 1])
        BY DEF Into
      <3>1. k # 0 => k \in 1..N
        OBVIOUS
      <3> QED
        BY <1>6, <1>8, <3>1
    <2>2. f = [k \in 0..N |-> f[k]]
      BY <1>6
    <2> QED
      BY <2>1, <2>2
  <1>10. L = CHOOSE g : Is(g)
    OBVIOUS
  <1> HIDE DEF Is
  <1>11. Is(L)
    BY <1>9, <1>10, Zenon
  <1>12. L[0] = base
    BY <1>11 DEF Is
  <1>13. \A k \in 1..N : L[k] = Into(R, L[k - 1])
    BY <1>7, <1>11 DEF Is, Into
  <1>14. DOMAIN L = 0..N
    BY <1>11 DEF Is
  <1> QED
    BY <1>12, <1>13, <1>14 DEF Levels

-----------------------------------------------------------------------------
(* Lists of records *)

\* One list after another.
LEMMA Concatenation ==
    ASSUME NEW S, NEW s \in Seq(S), NEW t \in Seq(S)
    PROVE  /\ s \o t \in Seq(S)
           /\ Len(s) \in Nat /\ Len(t) \in Nat
           /\ Len(s \o t) = Len(s) + Len(t)
           /\ \A i \in 1..Len(s) : (s \o t)[i] = s[i]
           /\ \A i \in 1..Len(t) : (s \o t)[Len(s) + i] = t[i]
  OBVIOUS

\* A list of records is a function on 1..Len, and any such function is one.
LEMMA ChainShape ==
    ASSUME NEW s, IsChain(s)
    PROVE  /\ Len(s) \in Nat
           /\ DOMAIN s = 1..Len(s)
           /\ \A i \in 1..Len(s) : IsRecord(s[i])
  BY DEF IsChain

\* A function on 1..n into the records is a list of them.
LEMMA ChainIntro ==
    ASSUME NEW n \in Nat, NEW s, s = [i \in 1..n |-> s[i]],
           \A i \in 1..n : IsRecord(s[i])
    PROVE  IsChain(s) /\ Len(s) = n
  <1> DEFINE S == {s[i] : i \in DOMAIN s}
  <1>1. DOMAIN s = 1..n
    OBVIOUS
  <1>2. \A i \in 1..n : s[i] \in S
    BY <1>1
  <1>3. s \in [1..n -> S]
    BY <1>2
  <1>4. s \in Seq(S) /\ Len(s) = n
    BY <1>3, SMTT(20)
  <1> QED
    BY <1>1, <1>4 DEF IsChain

\* A sequence is a function on 1..Len.
LEMMA SeqShape ==
    ASSUME NEW S, NEW q \in Seq(S)
    PROVE  Len(q) \in Nat /\ q = [i \in 1..Len(q) |-> q[i]]
  OBVIOUS

\* append() leaves the earlier lines alone.
LEMMA AppendChain ==
    ASSUME NEW s, IsChain(s), NEW r, IsRecord(r)
    PROVE  /\ IsChain(Append(s, r))
           /\ Len(Append(s, r)) = Len(s) + 1
           /\ \A i \in 1..Len(s) : Append(s, r)[i] = s[i]
           /\ Append(s, r)[Len(s) + 1] = r
  <1> DEFINE S == {s[i] : i \in DOMAIN s} \cup {r}
  <1> DEFINE t == Append(s, r)
  <1>1. s \in Seq(S)
    BY DEF IsChain
  <1>2. r \in S
    OBVIOUS
  <1>3. /\ t \in Seq(S)
        /\ Len(t) = Len(s) + 1
        /\ \A i \in 1..Len(s) : t[i] = s[i]
        /\ t[Len(s) + 1] = r
    BY <1>1, <1>2
  <1>4. \A i \in 1..Len(t) : IsRecord(t[i])
    BY <1>3, ChainShape
  <1>5. t = [i \in 1..Len(t) |-> t[i]] /\ Len(t) \in Nat
    BY <1>3, SeqShape
  <1>6. IsChain(t)
    BY <1>4, <1>5, ChainIntro
  <1> QED
    BY <1>3, <1>6

-----------------------------------------------------------------------------
(* The genuine chain and what damage leaves of it *)

\* One more sealed record keeps a chain intact, and the tail in memory is at
\* its end again.
LEMMA SealedAppend ==
    ASSUME NEW s, IsChain(s), Intact(s), NEW body
    PROVE  LET r == NextRecord(TailOf(s), body) IN
           /\ IsRecord(r)
           /\ IsChain(Append(s, r))
           /\ Intact(Append(s, r))
           /\ TailAfter(r) = TailOf(Append(s, r))
  <1> DEFINE r == NextRecord(TailOf(s), body)
             t == Append(s, r)
  <1>1. Len(s) \in Nat /\ DOMAIN s = 1..Len(s)
    BY ChainShape
  <1>2. /\ TailOf(s).seq = Len(s)
        /\ TailOf(s).hash = IF s = << >> THEN GENESIS_HASH ELSE s[Len(s)].hash
    <2>1. CASE s = << >>
      BY <2>1 DEF TailOf, FreshTail
    <2>2. CASE s # << >>
      <3>1. Len(s) \in 1..Len(s)
        BY <2>2, <1>1 DEF IsChain
      <3>2. s[Len(s)].seq = Len(s)
        BY <3>1 DEF Intact, LinkOK, SeqOK
      <3> QED
        BY <2>2, <3>2 DEF TailOf
    <2> QED
      BY <2>1, <2>2
  <1>3. r = [seq |-> Len(s) + 1, body |-> body, prev_hash |-> TailOf(s).hash,
             hash |-> Digest(Len(s) + 1, body, TailOf(s).hash)]
    BY <1>2 DEF NextRecord, Sealed
  <1>4. IsRecord(r)
    BY <1>1, <1>3 DEF IsRecord
  <1> HIDE DEF r
  <1>5. /\ IsChain(t)
        /\ Len(t) = Len(s) + 1
        /\ \A i \in 1..Len(s) : t[i] = s[i]
        /\ t[Len(s) + 1] = r
    BY <1>4, AppendChain
  <1> HIDE DEF t
  <1>6. ASSUME NEW i \in 1..Len(t) PROVE LinkOK(t, i)
    <2>1. CASE i \in 1..Len(s)
      <3>1. LinkOK(s, i)
        BY <2>1 DEF Intact
      <3>2. i # 1 => i - 1 \in 1..Len(s)
        BY <2>1, <1>1
      <3> QED
        BY <2>1, <3>1, <3>2, <1>5 DEF LinkOK, SeqOK, PrevOK, HashOK
    <2>2. CASE i = Len(s) + 1
      <3>1. SeqOK(t, i) /\ HashOK(t[i])
        BY <2>2, <1>3, <1>5 DEF SeqOK, HashOK
      <3>2. i = 1 <=> s = << >>
        BY <2>2, <1>1 DEF IsChain
      <3>3. i # 1 => i - 1 \in 1..Len(s) /\ i - 1 = Len(s)
        BY <2>2, <1>1
      <3>4. PrevOK(t, i)
        BY <2>2, <3>2, <3>3, <1>2, <1>3, <1>5 DEF PrevOK
      <3> QED
        BY <3>1, <3>4 DEF LinkOK
    <2> QED
      BY <2>1, <2>2, <1>1, <1>5
  <1>7. TailOf(t) = [seq |-> r.seq, hash |-> r.hash]
    BY <1>1, <1>5 DEF TailOf, IsChain
  <1>8. IsRecord(r) /\ IsChain(t) /\ Intact(t) /\ TailAfter(r) = TailOf(t)
    BY <1>4, <1>5, <1>6, <1>7 DEF Intact, TailAfter
  <1> QED
    BY <1>8 DEF r, t

\* A record whose digest is right and whose hash is one of the genuine chain's
\* is that genuine record: SHA-256 pins seq, content and back link.
LEMMA HashPinsRecord ==
    ASSUME NEW genuine, IsChain(genuine), Intact(genuine),
           NEW rec, IsRecord(rec), HashOK(rec),
           NEW k \in 1..Len(genuine), rec.hash = genuine[k].hash
    PROVE  rec = genuine[k] /\ rec.seq = k
  <1>1. LinkOK(genuine, k)
    BY DEF Intact
  <1>2. genuine[k].hash = <<k, genuine[k].body, genuine[k].prev_hash>>
    BY <1>1 DEF LinkOK, SeqOK, HashOK, Digest
  <1>3. rec.hash = <<rec.seq, rec.body, rec.prev_hash>>
    BY DEF HashOK, Digest
  <1>4. /\ rec.seq = k
        /\ rec.body = genuine[k].body
        /\ rec.prev_hash = genuine[k].prev_hash
    BY <1>2, <1>3
  <1>5. IsRecord(genuine[k]) /\ genuine[k].seq = k
    BY <1>1, ChainShape DEF LinkOK, SeqOK
  <1> QED
    BY <1>4, <1>5 DEF IsRecord

-----------------------------------------------------------------------------
(* Least and greatest, finite images                                       *)

\* A finite set of integers has a greatest element.
LEMMA FiniteGreatest ==
    ASSUME NEW S \in SUBSET Int, IsFiniteSet(S), S # {}
    PROVE  \E m \in S : \A n \in S : n <= m
  <1> DEFINE N == Cardinality(S)
  <1>1. PICK f : f \in Surjection(1..Cardinality(S), S)
    BY FS_CardinalityType DEF ExistsBijection, Bijection
  <1>2. N \in Nat
    BY FS_CardinalityType
  <1>3. f \in [1..N -> S]
    BY <1>1 DEF Surjection
  <1>4. \A x \in S : \E i \in 1..N : f[i] = x
    BY <1>1 DEF Surjection
  <1> HIDE DEF N
  <1>5. \A i \in 1..N : f[i] \in Int
    BY <1>3
  <1> DEFINE Tops(j, k) == \A i \in 1..k : f[i] <= f[j]
             T == {k \in 0..N : k = 0 \/ \E j \in 1..k : Tops(j, k)}
  <1>6. 0 \in T
    BY <1>2
  <1>7. ASSUME NEW k \in 1..N, k - 1 \in T PROVE k \in T
    <2>0. k \in 0..N /\ k \in 1..k /\ f[k] \in Int /\ k # 0
      BY <1>2, <1>5
    <2>1. CASE k = 1
      <3>1. \A i \in 1..k : i = k
        BY <2>1
      <3>2. Tops(k, k)
        BY <2>0, <3>1
      <3> QED
        BY <2>0, <3>2
    <2>2. CASE k # 1
      <3>1. PICK j \in 1..k - 1 : Tops(j, k - 1)
        BY <1>7, <2>2
      <3>2. \A i \in 1..k - 1 : i \in 1..N /\ i \in 1..k
        BY <1>2
      <3>3. \A i \in 1..k : i \in 1..k - 1 \/ i = k
        OBVIOUS
      <3>4. \A i \in 1..k - 1 : f[i] \in Int /\ f[i] <= f[j]
        BY <1>5, <3>1, <3>2
      <3>5. f[j] \in Int
        BY <3>4
      <3>6. CASE f[k] <= f[j]
        <4>1. Tops(j, k)
          BY <3>3, <3>4, <3>6
        <4> QED
          BY <2>0, <3>2, <4>1
      <3>7. CASE f[j] < f[k]
        <4>1. \A i \in 1..k - 1 : f[i] <= f[k]
          BY <2>0, <3>4, <3>5, <3>7
        <4>2. Tops(k, k)
          BY <2>0, <3>3, <4>1
        <4> QED
          BY <2>0, <4>2
      <3> QED
        BY <2>0, <3>5, <3>6, <3>7
    <2> QED
      BY <2>1, <2>2
  <1> HIDE DEF T
  <1>8. 0..N \subseteq T
    BY <1>2, <1>6, <1>7, UpTo
  <1>9. N \in T
    BY <1>2, <1>8
  <1>10. N # 0
    <2>1. PICK x \in S : TRUE
      OBVIOUS
    <2>2. PICK i \in 1..N : f[i] = x
      BY <1>4, <2>1
    <2> QED
      BY <2>2, <1>2
  <1>11. PICK j \in 1..N : Tops(j, N)
    BY <1>9, <1>10 DEF T
  <1> QED
    BY <1>3, <1>4, <1>11

\* A nonempty set of naturals has a least element.
LEMMA NatLeast ==
    ASSUME NEW S \in SUBSET Nat, S # {}
    PROVE  \E m \in S : \A n \in S : m <= n
  <1> DEFINE R == OpToRel(<, Nat)
  <1>1. IsWellFoundedOn(R, Nat)
    BY NatLessThanWellFounded, Zenon
  <1>2. \A x, y \in Nat : <<x, y>> \in R <=> x < y
    BY DEF OpToRel
  <1> HIDE DEF R
  <1>3. PICK m \in S : \A n \in S : ~ (<<n, m>> \in R)
    BY <1>1, WFMin
  <1>4. \A n \in S : ~ (n < m)
    BY <1>2, <1>3
  <1>5. \A n \in S : m <= n
    BY <1>4
  <1> QED
    BY <1>3, <1>5

\* What a function makes of a finite set is finite.
LEMMA FiniteImage ==
    ASSUME NEW S, IsFiniteSet(S), NEW f, f = [x \in S |-> f[x]]
    PROVE  IsFiniteSet({f[x] : x \in S})
  <1> DEFINE T == {f[x] : x \in S}
  <1>1. f \in [S -> T]
    OBVIOUS
  <1>2. f \in Surjection(S, T)
    BY <1>1 DEF Surjection
  <1> HIDE DEF T
  <1>3. IsFiniteSet(T)
    BY <1>2, FS_Surjection
  <1> QED
    BY <1>3 DEF T
=============================================================================
