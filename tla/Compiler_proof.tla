--------------------------- MODULE Compiler_proof ---------------------------
(***************************************************************************)
(* Proofs about the compiler, for every document and every sequence of     *)
(* jobs: that topoSort, expandMatrix, Compile and buildPlan do what their  *)
(* references in Compiler say.                                             *)
(*                                                                         *)
(* The operators are written with recursive functions and with FlattenSeq. *)
(* A recursive function is the CHOOSE of a solution of its equation, so    *)
(* that there is one has to be shown: Iteration.  What it computes is      *)
(* shown by induction in the form of NatSet.  Both come from the           *)
(* well-foundedness of the order of the naturals.                          *)
(***************************************************************************)
EXTENDS Compiler, WellFoundedInduction, TLAPS

(* Induction over the naturals, for a set.                                 *)
LEMMA NatSet ==
  ASSUME NEW S, 0 \in S, \A n \in Nat : n \in S => n + 1 \in S
  PROVE  Nat \subseteq S
<1> DEFINE Less == {p \in Nat \X Nat : p[1] < p[2]}
           D == Nat \ S
<1>1. IsWellFoundedOn(Less, Nat)
  BY Zenon, NatLessThanWellFounded DEF OpToRel
<1>2. SUFFICES ASSUME D # {} PROVE FALSE
  BY Zenon
<1>3. PICK d \in D : \A e \in D : ~(<<e, d>> \in Less)
  <2>1. D \subseteq Nat
    BY Zenon
  <2> HIDE DEF Less, D
  <2> QED
    BY Zenon, <1>1, <1>2, <2>1, WFMin
<1>4. d \in Nat /\ d # 0 /\ d \notin S
  BY Zenon
<1>5. d - 1 \in Nat /\ d = (d - 1) + 1 /\ d - 1 < d
  BY <1>4
<1>6. d - 1 \notin S
  BY Zenon, <1>4, <1>5
<1>7. <<d - 1, d>> \in Less
  BY Zenon, <1>4, <1>5
<1> QED
  BY Zenon, <1>3, <1>5, <1>6, <1>7

(* A function can be defined by primitive recursion.                       *)
Stepper(G, V) == G \in [Nat \X V -> V]

Iterates(f, b, G, V) == f \in [Nat -> V] /\ f[0] = b /\ \A n \in Nat : f[n + 1] = G[<<n + 1, f[n]>>]

(* There is a function f with f[0] = b and f[n + 1] = G[<<n + 1, f[n]>>].  *)
LEMMA Iteration ==
  ASSUME NEW V, NEW b \in V, NEW G, Stepper(G, V)
  PROVE  \E f : Iterates(f, b, G, V)
<1> USE DEF Stepper
<1> DEFINE Part(n) == {h \in [0 .. n -> V] : h[0] = b /\ \A k \in 1 .. n : h[k] = G[<<k, h[k - 1]>>]}
           Some == {n \in Nat : Part(n) # {}}
           Same == {n \in Nat : \A m, p \in Nat : \A g \in Part(m), h \in Part(p) :
                                  n <= m /\ n <= p => g[n] = h[n]}
           f == [n \in Nat |-> (CHOOSE h \in Part(n) : TRUE)[n]]
<1>1. \A n \in Nat : Part(n) # {}
  <2>1. 0 \in Some
    <3>1. [k \in 0 .. 0 |-> b] \in Part(0)
      OBVIOUS
    <3> QED
      BY Zenon, <3>1
  <2>2. ASSUME NEW n \in Nat, n \in Some PROVE n + 1 \in Some
    <3>1. PICK h \in [0 .. n -> V] : h[0] = b /\ \A k \in 1 .. n : h[k] = G[<<k, h[k - 1]>>]
      BY Zenon, <2>2
    <3> DEFINE g == [k \in 0 .. n + 1 |-> IF k = n + 1 THEN G[<<n + 1, h[n]>>] ELSE h[k]]
    <3>2. g \in [0 .. n + 1 -> V]
      <4>1. h[n] \in V
        BY <3>1
      <4> QED
        BY <3>1, <4>1
    <3>3. g[0] = b
      BY <3>1
    <3>4. ASSUME NEW k \in 1 .. n + 1 PROVE g[k] = G[<<k, g[k - 1]>>]
      <4>1. CASE k = n + 1
        <5>1. n \in 0 .. n + 1 /\ n + 1 \in 0 .. n + 1 /\ n # n + 1 /\ k - 1 = n
          BY <4>1
        <5>2. g[n + 1] = G[<<n + 1, h[n]>>] /\ g[n] = h[n]
          BY Zenon, <5>1
        <5> HIDE DEF g
        <5> QED
          BY Zenon, <4>1, <5>1, <5>2
      <4>2. CASE k \in 1 .. n
        BY <3>1, <4>2
      <4> QED
        BY <4>1, <4>2
    <3>5. g \in Part(n + 1)
      <4> HIDE DEF g
      <4> QED
        BY Zenon, <3>2, <3>3, <3>4
    <3> HIDE DEF Part
    <3> QED
      BY <3>5
  <2> HIDE DEF Some
  <2>3. Nat \subseteq Some
    BY Zenon, <2>1, <2>2, NatSet
  <2> QED
    BY Zenon, <2>3 DEF Some
<1>2. Nat \subseteq Same
  <2>1. 0 \in Same
    BY Zenon
  <2>2. ASSUME NEW n \in Nat, n \in Same PROVE n + 1 \in Same
    <3> SUFFICES ASSUME NEW m \in Nat, NEW p \in Nat, NEW g \in Part(m), NEW h \in Part(p), n + 1 <= m,
                          n + 1 <= p
                 PROVE  g[n + 1] = h[n + 1]
      <4>1. n + 1 \in Nat
        OBVIOUS
      <4> HIDE DEF Part
      <4> QED
        BY ZenonT(60), <4>1
    <3>1. n <= m /\ n <= p /\ n + 1 \in 1 .. m /\ n + 1 \in 1 .. p /\ (n + 1) - 1 = n
      OBVIOUS
    <3>2. g[n] = h[n]
      <4> HIDE DEF Part
      <4> QED
        BY Zenon, <2>2, <3>1
    <3>3. g[n + 1] = G[<<n + 1, g[n]>>] /\ h[n + 1] = G[<<n + 1, h[n]>>]
      BY Zenon, <3>1
    <3> QED
      BY Zenon, <3>2, <3>3
  <2> HIDE DEF Same
  <2> QED
    BY Zenon, <2>1, <2>2, NatSet
<1>3. ASSUME NEW n \in Nat PROVE \E h \in Part(n) : f[n] = h[n]
  <2> HIDE DEF Part
  <2> QED
    BY Zenon, <1>1
<1>4. ASSUME NEW n \in Nat PROVE f[n] \in V /\ f[n + 1] = G[<<n + 1, f[n]>>]
  <2>1. PICK h \in Part(n) : f[n] = h[n]
    BY Zenon, <1>3
  <2>2. n + 1 \in Nat /\ n <= n /\ n <= n + 1
    OBVIOUS
  <2> HIDE DEF f, Part
  <2>3. PICK g \in Part(n + 1) : f[n + 1] = g[n + 1]
    BY Zenon, <1>3, <2>2
  <2>4. h[n] = g[n]
    BY <1>2, <2>2
  <2>5. f[n] \in V
    BY <2>1 DEF Part
  <2>6. n + 1 \in 1 .. n + 1 /\ (n + 1) - 1 = n
    OBVIOUS
  <2>7. g[n + 1] = G[<<n + 1, g[n]>>]
    BY Zenon, <2>6 DEF Part
  <2> QED
    BY Zenon, <2>1, <2>3, <2>4, <2>5, <2>7
<1>5. f[0] = b
  <2>1. PICK h \in Part(0) : f[0] = h[0]
    BY Zenon, <1>3
  <2> QED
    BY Zenon, <2>1
<1>6. f \in [Nat -> V]
  BY Zenon, <1>4
<1> HIDE DEF f
<1> QED
  BY Zenon, <1>4, <1>5, <1>6 DEF Iterates

(***************************************************************************)
(* FlattenSeq: each element of the result has a place in the sequences it  *)
(* is made of, in their order, and each place has its element.             *)
(***************************************************************************)
Before(a, b) == a[1] < b[1] \/ (a[1] = b[1] /\ a[2] < b[2])

Places(out, seqs, n, at) ==
  /\ at \in [1 .. Len(out) -> Nat \X Nat]
  /\ \A p \in 1 .. Len(out) :
       /\ at[p][1] \in 1 .. n /\ at[p][2] \in 1 .. Len(seqs[at[p][1]])
       /\ out[p] = seqs[at[p][1]][at[p][2]]
  /\ \A i \in 1 .. n : \A j \in 1 .. Len(seqs[i]) : \E p \in 1 .. Len(out) : at[p] = <<i, j>>
  /\ \A p, q \in 1 .. Len(out) : p < q => Before(at[p], at[q])

(* Appending the next sequence keeps the places.                           *)
LEMMA PlacesStep ==
  ASSUME NEW S, NEW seqs \in Seq(Seq(S)), NEW n \in Nat, n + 1 <= Len(seqs), NEW out \in Seq(S),
         NEW at, Places(out, seqs, n, at)
  PROVE  \E bt : Places(out \o seqs[n + 1], seqs, n + 1, bt)
<1>1. n + 1 \in 1 .. Len(seqs) /\ DOMAIN seqs = 1 .. Len(seqs)
  OBVIOUS
<1>2. PICK t \in Seq(S) : t = seqs[n + 1]
  BY <1>1
<1>3. PICK m \in Nat, l \in Nat : m = Len(out) /\ l = Len(t)
  OBVIOUS
<1> DEFINE new == out \o t
           bt == [p \in 1 .. m + l |-> IF p <= m THEN at[p] ELSE <<n + 1, p - m>>]
<1>4. /\ new \in Seq(S) /\ Len(new) = m + l
      /\ \A p \in 1 .. m + l : new[p] = IF p <= m THEN out[p] ELSE t[p - m]
  BY <1>3
<1>5. bt \in [1 .. m + l -> Nat \X Nat]
  <2>1. ASSUME NEW p \in 1 .. m + l PROVE bt[p] \in Nat \X Nat
    <3>1. CASE p <= m
      <4>1. p \in 1 .. Len(out) /\ bt[p] = at[p]
        BY <1>3, <3>1
      <4>2. at \in [1 .. Len(out) -> Nat \X Nat]
        BY Zenon DEF Places
      <4> HIDE DEF bt
      <4> QED
        BY Zenon, <4>1, <4>2
    <3>2. CASE ~(p <= m)
      <4>1. bt[p] = <<n + 1, p - m>>
        BY Zenon, <3>2
      <4> HIDE DEF bt
      <4>2. PICK x \in Nat, y \in Nat : x = n + 1 /\ y = p - m
        BY <3>2
      <4> QED
        BY <4>1, <4>2
    <3> QED
      BY Zenon, <3>1, <3>2
  <2> QED
    BY Zenon, <2>1
<1>6. ASSUME NEW p \in 1 .. m + l
      PROVE  /\ bt[p][1] \in 1 .. n + 1 /\ bt[p][2] \in 1 .. Len(seqs[bt[p][1]])
             /\ new[p] = seqs[bt[p][1]][bt[p][2]]
  <2>1. CASE p <= m
    <3>1. p \in 1 .. Len(out) /\ bt[p] = at[p] /\ new[p] = out[p]
      BY <1>3, <1>4, <2>1
    <3>2. /\ at[p][1] \in 1 .. n /\ at[p][2] \in 1 .. Len(seqs[at[p][1]])
          /\ out[p] = seqs[at[p][1]][at[p][2]]
      BY Zenon, <3>1 DEF Places
    <3>3. 1 .. n \subseteq 1 .. n + 1
      OBVIOUS
    <3> HIDE DEF bt, new
    <3> QED
      BY Zenon, <3>1, <3>2, <3>3
  <2>2. CASE ~(p <= m)
    <3>1. bt[p] = <<n + 1, p - m>> /\ new[p] = t[p - m]
      BY Zenon, <1>4, <2>2
    <3>2. n + 1 \in 1 .. n + 1 /\ p - m \in 1 .. l
      BY <2>2
    <3> HIDE DEF bt, new
    <3>3. bt[p][1] = n + 1 /\ bt[p][2] = p - m
      BY <3>1
    <3> QED
      BY Zenon, <1>2, <1>3, <3>1, <3>2, <3>3
  <2> QED
    BY Zenon, <2>1, <2>2
<1>7. ASSUME NEW i \in 1 .. n + 1, NEW j \in 1 .. Len(seqs[i]) PROVE \E p \in 1 .. m + l : bt[p] = <<i, j>>
  <2>1. CASE i = n + 1
    <3>1. j \in 1 .. l
      BY Zenon, <1>2, <1>3, <2>1
    <3>2. m + j \in 1 .. m + l /\ ~(m + j <= m) /\ (m + j) - m = j
      BY <3>1
    <3>3. bt[m + j] = <<i, j>>
      BY Zenon, <2>1, <3>2
    <3> QED
      BY Zenon, <3>2, <3>3
  <2>2. CASE i # n + 1
    <3>1. i \in 1 .. n
      BY <2>2
    <3>2. PICK p \in 1 .. m : at[p] = <<i, j>>
      BY Zenon, <1>3, <3>1 DEF Places
    <3>3. p \in 1 .. m + l /\ p <= m
      OBVIOUS
    <3> QED
      BY Zenon, <3>2, <3>3
  <2> QED
    BY Zenon, <2>1, <2>2
<1>8. ASSUME NEW p \in 1 .. m + l, NEW q \in 1 .. m + l, p < q PROVE Before(bt[p], bt[q])
  <2>1. CASE q <= m
    <3>1. p \in 1 .. m /\ q \in 1 .. m /\ bt[p] = at[p] /\ bt[q] = at[q]
      BY <1>8, <2>1
    <3> HIDE DEF bt
    <3> QED
      BY Zenon, <1>3, <1>8, <3>1 DEF Places
  <2>2. CASE ~(q <= m) /\ p <= m
    <3>1. p \in 1 .. m /\ bt[p] = at[p] /\ bt[q] = <<n + 1, q - m>>
      BY <2>2
    <3>2. at[p][1] \in 1 .. n
      BY Zenon, <1>3, <3>1 DEF Places
    <3> HIDE DEF bt
    <3>3. PICK x \in 1 .. n : at[p][1] = x
      BY Zenon, <3>2
    <3>4. x < n + 1
      OBVIOUS
    <3>5. bt[p][1] = x /\ bt[q][1] = n + 1
      BY <3>1, <3>3
    <3> QED
      BY Zenon, <3>4, <3>5 DEF Before
  <2>3. CASE ~(p <= m)
    <3>1. ~(q <= m) /\ p - m < q - m
      BY <1>8, <2>3
    <3>2. bt[p] = <<n + 1, p - m>> /\ bt[q] = <<n + 1, q - m>>
      BY Zenon, <2>3, <3>1
    <3> HIDE DEF bt
    <3>3. bt[p][1] = bt[q][1] /\ bt[p][2] < bt[q][2]
      BY <3>1, <3>2
    <3> QED
      BY Zenon, <3>3 DEF Before
  <2> QED
    BY Zenon, <2>1, <2>2, <2>3
<1> HIDE DEF bt, new
<1>9. Places(new, seqs, n + 1, bt)
  <2>1. Len(new) = m + l
    BY Zenon, <1>4
  <2>2. /\ bt \in [1 .. Len(new) -> Nat \X Nat]
        /\ \A p \in 1 .. Len(new) :
             /\ bt[p][1] \in 1 .. n + 1 /\ bt[p][2] \in 1 .. Len(seqs[bt[p][1]])
             /\ new[p] = seqs[bt[p][1]][bt[p][2]]
    BY Zenon, <1>5, <1>6, <2>1
  <2>3. \A i \in 1 .. n + 1 : \A j \in 1 .. Len(seqs[i]) : \E p \in 1 .. Len(new) : bt[p] = <<i, j>>
    BY Zenon, <1>7, <2>1
  <2>4. \A p, q \in 1 .. Len(new) : p < q => Before(bt[p], bt[q])
    BY Zenon, <1>8, <2>1
  <2> QED
    BY Zenon, <2>2, <2>3, <2>4 DEF Places
<1> QED
  BY Zenon, <1>2, <1>9 DEF new

(* FlattenSeq is the last value of a solution of its equation.             *)
LEMMA FlattenEquation ==
  ASSUME NEW S, NEW seqs \in Seq(Seq(S))
  PROVE  \E f :
           /\ f = [n \in 0 .. Len(seqs) |-> IF n = 0 THEN <<>> ELSE f[n - 1] \o seqs[n]]
           /\ FlattenSeq(seqs) = f[Len(seqs)]
<1> DEFINE V == Seq(S)
           N == Len(seqs)
           G == [c \in Nat \X V |-> IF c[1] \in 1 .. N THEN c[2] \o seqs[c[1]] ELSE c[2]]
           Eq(f) == f = [n \in 0 .. N |-> IF n = 0 THEN <<>> ELSE f[n - 1] \o seqs[n]]
<1>1. N \in Nat /\ \A i \in 1 .. N : seqs[i] \in V
  OBVIOUS
<1>2. PICK b \in V : b = <<>>
  <2>1. <<>> \in V
    OBVIOUS
  <2> QED
    BY Zenon, <2>1
<1>3. Stepper(G, V)
  <2>1. ASSUME NEW c \in Nat \X V PROVE G[c] \in V
    <3>1. c[2] \in V
      BY Zenon
    <3>2. CASE c[1] \notin 1 .. N
      BY Zenon, <3>1, <3>2
    <3>3. CASE c[1] \in 1 .. N
      <4>1. seqs[c[1]] \in V
        BY Zenon, <1>1, <3>3
      <4>2. c[2] \o seqs[c[1]] \in V
        BY <3>1, <4>1
      <4> HIDE DEF V
      <4> QED
        BY Zenon, <3>3, <4>2
    <3> QED
      BY Zenon, <3>2, <3>3
  <2> QED
    BY Zenon, <2>1 DEF Stepper
<1>4. PICK g : Iterates(g, b, G, V)
  <2> HIDE DEF V, G
  <2> QED
    BY Zenon, <1>3, Iteration
<1> DEFINE f == [n \in 0 .. N |-> g[n]]
<1>5. ASSUME NEW n \in 0 .. N PROVE g[n] = IF n = 0 THEN <<>> ELSE g[n - 1] \o seqs[n]
  <2>1. CASE n = 0
    BY Zenon, <1>2, <1>4, <2>1 DEF Iterates
  <2>2. CASE n # 0
    <3>1. n - 1 \in Nat /\ (n - 1) + 1 = n /\ n \in Nat /\ n \in 1 .. N
      BY <2>2
    <3>2. g[n] = G[<<n, g[n - 1]>>] /\ g[n - 1] \in V
      <4> HIDE DEF G, V
      <4> QED
        BY Zenon, <1>4, <3>1 DEF Iterates
    <3>3. <<n, g[n - 1]>> \in Nat \X V
      BY Zenon, <3>1, <3>2
    <3>4. G[<<n, g[n - 1]>>] = g[n - 1] \o seqs[n]
      BY Zenon, <3>1, <3>3
    <3> HIDE DEF G, V
    <3> QED
      BY Zenon, <2>2, <3>2, <3>4
  <2> QED
    BY Zenon, <2>1, <2>2
<1>6. Eq(f)
  <2>1. ASSUME NEW n \in 0 .. N, n # 0 PROVE n - 1 \in 0 .. N
    BY <1>1, <2>1
  <2>2. \A n \in 0 .. N : f[n] = IF n = 0 THEN <<>> ELSE f[n - 1] \o seqs[n]
    <3> HIDE DEF N
    <3> QED
      BY Zenon, <1>5, <2>1
  <2> HIDE DEF N
  <2> QED
    BY Zenon, <2>2
<1>7. \E h : Eq(h)
  BY Zenon, <1>6
<1> DEFINE h == CHOOSE h : Eq(h)
<1>8. Eq(h)
  <2> HIDE DEF Eq
  <2> QED
    BY Zenon, <1>7
<1>9. FlattenSeq(seqs) = h[N]
  BY Zenon DEF FlattenSeq
<1> QED
  BY Zenon, <1>8, <1>9

(* FlattenSeq holds the elements of the sequences, each at its place.      *)
LEMMA Flatten ==
  ASSUME NEW S, NEW seqs \in Seq(Seq(S))
  PROVE  FlattenSeq(seqs) \in Seq(S) /\ \E at : Places(FlattenSeq(seqs), seqs, Len(seqs), at)
<1> DEFINE N == Len(seqs)
<1>1. PICK f : /\ f = [n \in 0 .. N |-> IF n = 0 THEN <<>> ELSE f[n - 1] \o seqs[n]]
               /\ FlattenSeq(seqs) = f[N]
  BY Zenon, FlattenEquation
<1>2. N \in Nat /\ 0 \in 0 .. N /\ N \in 0 .. N /\ \A i \in 1 .. N : seqs[i] \in Seq(S)
  OBVIOUS
<1>3. \A n \in 0 .. N : f[n] = IF n = 0 THEN <<>> ELSE f[n - 1] \o seqs[n]
  BY Zenon, <1>1
<1> DEFINE Fine == {n \in Nat : n <= N => f[n] \in Seq(S) /\ \E at : Places(f[n], seqs, n, at)}
<1>4. 0 \in Fine
  <2>1. f[0] = <<>> /\ 0 \in Nat
    BY Zenon, <1>2, <1>3
  <2>2. <<>> \in Seq(S) /\ Len(<<>>) = 0 /\ \A p \in 1 .. 0 : FALSE
    OBVIOUS
  <2>3. PICK at : at = [p \in 1 .. 0 |-> <<0, 0>>]
    BY Zenon
  <2>4. at \in [1 .. 0 -> Nat \X Nat]
    BY Zenon, <2>2, <2>3
  <2>5. Places(<<>>, seqs, 0, at)
    BY Zenon, <2>2, <2>4 DEF Places
  <2> QED
    BY Zenon, <2>1, <2>2, <2>5
<1>5. ASSUME NEW n \in Nat, n \in Fine PROVE n + 1 \in Fine
  <2> SUFFICES ASSUME n + 1 <= N
               PROVE  f[n + 1] \in Seq(S) /\ \E at : Places(f[n + 1], seqs, n + 1, at)
    OBVIOUS
  <2>1. n <= N /\ n + 1 \in 0 .. N /\ n + 1 \in 1 .. N /\ n + 1 # 0 /\ (n + 1) - 1 = n
    BY <1>2
  <2>2. f[n] \in Seq(S) /\ \E at : Places(f[n], seqs, n, at)
    BY Zenon, <1>5, <2>1
  <2>3. f[n + 1] = f[n] \o seqs[n + 1]
    BY Zenon, <1>3, <2>1
  <2>4. \E at : Places(f[n] \o seqs[n + 1], seqs, n + 1, at)
    BY Zenon, <2>2, PlacesStep
  <2>5. f[n] \o seqs[n + 1] \in Seq(S)
    BY <1>2, <2>1, <2>2
  <2> QED
    BY Zenon, <2>3, <2>4, <2>5
<1>6. Nat \subseteq Fine
  <2> HIDE DEF Fine
  <2> QED
    BY Zenon, <1>4, <1>5, NatSet
<1>7. N <= N
  BY <1>2
<1>8. f[N] \in Seq(S) /\ \E at : Places(f[N], seqs, N, at)
  BY Zenon, <1>2, <1>6, <1>7
<1> QED
  BY Zenon, <1>1, <1>8

-----------------------------------------------------------------------------
(***************************************************************************)
(* topoSort, for every sequence of jobs.  IsSeq says that what the model   *)
(* treats as a sequence is one.                                            *)
(***************************************************************************)
IsSeq(s) == s \in Seq(Range(s))

IsJob(j) == IsSeq(j.needs) /\ IsSeq(j.steps) /\ \A a \in DOMAIN j.matrix : IsSeq(j.matrix[a])

IsJobs(jobs) == IsSeq(jobs) /\ \A i \in DOMAIN jobs : IsJob(jobs[i])

Sortable(jobs) == IsJobs(jobs) /\ ~Unfit(jobs)

(* What a sequence is.                                                     *)
LEMMA SeqFacts ==
  ASSUME NEW s, IsSeq(s)
  PROVE  Len(s) \in Nat /\ DOMAIN s = 1 .. Len(s) /\ \A i \in 1 .. Len(s) : s[i] \in Range(s)
BY DEF IsSeq, Range

(* A job is known by its ID.                                               *)
LEMMA JobFacts ==
  ASSUME NEW jobs, Sortable(jobs), NEW id \in IDs(jobs)
  PROVE  /\ byID(jobs, id) \in Range(jobs) /\ byID(jobs, id).id = id
         /\ byID(jobs, id).needs \in Seq(IDs(jobs))
         /\ \E i \in DOMAIN jobs : byID(jobs, id) = jobs[i]
<1>1. \E i \in DOMAIN jobs : jobs[i].id = id
  BY Zenon DEF IDs
<1>2. PICK i \in DOMAIN jobs : byID(jobs, id) = jobs[i] /\ jobs[i].id = id
  BY Zenon, <1>1 DEF byID
<1>3. IsSeq(jobs[i].needs) /\ Range(jobs[i].needs) \subseteq IDs(jobs)
  BY Zenon DEF Sortable, IsJobs, IsJob, Unfit
<1>4. PICK s, T : s = jobs[i].needs /\ T = Range(jobs[i].needs)
  BY Zenon
<1>5. s \in Seq(T) /\ T \subseteq IDs(jobs)
  BY Zenon, <1>3, <1>4 DEF IsSeq
<1>6. s \in Seq(IDs(jobs))
  BY <1>5
<1> QED
  BY Zenon, <1>2, <1>4, <1>6 DEF Range

(* The IDs of fit jobs name them.                                          *)
LEMMA SameJob ==
  ASSUME NEW jobs, Sortable(jobs), NEW i \in DOMAIN jobs
  PROVE  byID(jobs, jobs[i].id) = jobs[i]
<1>1. PICK h \in DOMAIN jobs : byID(jobs, jobs[i].id) = jobs[h] /\ jobs[h].id = jobs[i].id
  BY Zenon DEF byID
<1>2. h = i
  BY Zenon, <1>1 DEF Sortable, Unfit
<1> QED
  BY Zenon, <1>1, <1>2

(***************************************************************************)
(* visitAll goes from call to call.                                        *)
(***************************************************************************)
IsCall(call, jobs) == call \in [Calls(jobs) -> Walks(jobs)]

(* A call returns a walk.                                                  *)
LEMMA CallType ==
  ASSUME NEW jobs, NEW call, IsCall(call, jobs), NEW id \in IDs(jobs), NEW w \in Walks(jobs)
  PROVE  call[<<id, w>>] \in Walks(jobs)
<1>1. <<id, w>> \in Calls(jobs)
  BY Zenon DEF Calls
<1> QED
  BY Zenon, <1>1 DEF IsCall

(* visitAll is a chain of calls, one for each need.                        *)
LEMMA VisitAllRun ==
  ASSUME NEW jobs, NEW call, IsCall(call, jobs), NEW ids \in Seq(IDs(jobs)), NEW walk \in Walks(jobs)
  PROVE  \E f : /\ f[0] = walk
                /\ \A k \in 0 .. Len(ids) : f[k] \in Walks(jobs)
                /\ \A k \in 1 .. Len(ids) : f[k] = call[<<ids[k], f[k - 1]>>]
                /\ visitAll(call, ids, walk) = f[Len(ids)]
<1> DEFINE V == Walks(jobs)
           N == Len(ids)
           G == [c \in Nat \X V |-> IF c[1] \in 1 .. N THEN call[<<ids[c[1]], c[2]>>] ELSE c[2]]
           Eq(f) == f = [k \in 0 .. N |-> IF k = 0 THEN walk ELSE call[<<ids[k], f[k - 1]>>]]
<1>1. N \in Nat /\ \A k \in 1 .. N : ids[k] \in IDs(jobs)
  OBVIOUS
<1>2. Stepper(G, V)
  <2>1. ASSUME NEW c \in Nat \X V PROVE G[c] \in V
    <3>1. c[2] \in V
      BY Zenon
    <3>2. CASE c[1] \notin 1 .. N
      BY Zenon, <3>1, <3>2
    <3>3. CASE c[1] \in 1 .. N
      <4>1. call[<<ids[c[1]], c[2]>>] \in V
        BY Zenon, <1>1, <3>1, <3>3, CallType
      <4> HIDE DEF V, N
      <4> QED
        BY Zenon, <3>3, <4>1
    <3> QED
      BY Zenon, <3>2, <3>3
  <2> HIDE DEF V, N
  <2> QED
    BY Zenon, <2>1 DEF Stepper
<1>3. PICK g : Iterates(g, walk, G, V)
  <2>1. walk \in V
    BY Zenon
  <2> HIDE DEF V, G
  <2> QED
    BY Zenon, <1>2, <2>1, Iteration
<1>4. ASSUME NEW k \in 1 .. N PROVE g[k] = call[<<ids[k], g[k - 1]>>]
  <2>1. k - 1 \in Nat /\ (k - 1) + 1 = k /\ k \in Nat
    OBVIOUS
  <2>2. g[k] = G[<<k, g[k - 1]>>] /\ g[k - 1] \in V
    <3> HIDE DEF G, V
    <3> QED
      BY Zenon, <1>3, <2>1 DEF Iterates
  <2>3. <<k, g[k - 1]>> \in Nat \X V
    BY Zenon, <2>1, <2>2
  <2>4. G[<<k, g[k - 1]>>] = call[<<ids[k], g[k - 1]>>]
    <3> HIDE DEF V, N
    <3> QED
      BY Zenon, <2>3
  <2> HIDE DEF G, V
  <2> QED
    BY Zenon, <2>2, <2>4
<1> DEFINE f == [k \in 0 .. N |-> g[k]]
<1>5. Eq(f)
  <2>1. ASSUME NEW k \in 0 .. N, k # 0 PROVE k \in 1 .. N /\ k - 1 \in 0 .. N
    BY <1>1, <2>1
  <2>2. g[0] = walk
    BY Zenon, <1>3 DEF Iterates
  <2>3. \A k \in 0 .. N : f[k] = IF k = 0 THEN walk ELSE call[<<ids[k], f[k - 1]>>]
    <3> HIDE DEF N
    <3> QED
      BY Zenon, <1>4, <2>1, <2>2
  <2> HIDE DEF N
  <2> QED
    BY Zenon, <2>3
<1> DEFINE h == CHOOSE h : Eq(h)
<1>6. Eq(h)
  <2>1. \E x : Eq(x)
    BY Zenon, <1>5
  <2> HIDE DEF Eq
  <2> QED
    BY Zenon, <2>1
<1>7. visitAll(call, ids, walk) = h[N]
  BY Zenon DEF visitAll
<1>8. h[0] = walk /\ \A k \in 1 .. N : h[k] = call[<<ids[k], h[k - 1]>>]
  <2>1. 0 \in 0 .. N /\ \A k \in 1 .. N : k \in 0 .. N /\ k # 0
    BY <1>1
  <2> HIDE DEF N, h
  <2> QED
    BY Zenon, <1>6, <2>1
<1> HIDE DEF h
<1>9. \A k \in 0 .. N : h[k] \in V
  <2> DEFINE T == {k \in Nat : k <= N => h[k] \in V}
  <2>1. 0 \in T
    BY Zenon, <1>8
  <2>2. ASSUME NEW k \in Nat, k \in T PROVE k + 1 \in T
    <3> SUFFICES ASSUME k + 1 <= N PROVE h[k + 1] \in V
      OBVIOUS
    <3>1. k <= N /\ k + 1 \in 1 .. N /\ (k + 1) - 1 = k
      BY <1>1
    <3>2. h[k] \in V /\ ids[k + 1] \in IDs(jobs)
      BY Zenon, <1>1, <2>2, <3>1
    <3>3. h[k + 1] = call[<<ids[k + 1], h[k]>>]
      BY Zenon, <1>8, <3>1
    <3> QED
      BY Zenon, <3>2, <3>3, CallType
  <2>3. Nat \subseteq T
    <3> HIDE DEF T
    <3> QED
      BY Zenon, <2>1, <2>2, NatSet
  <2> QED
    BY <1>1, <2>3
<1> QED
  BY Zenon, <1>7, <1>8, <1>9

(***************************************************************************)
(* What visit does with a walk.                                            *)
(***************************************************************************)
Mark(w, id) == [w EXCEPT !.state[id] = 1]

Finish(w, j) == [state |-> [w.state EXCEPT ![j.id] = 2], out |-> Append(w.out, j), ok |-> TRUE]

(* Marking a job changes its state alone.                                  *)
LEMMA MarkFacts ==
  ASSUME NEW jobs, NEW w \in Walks(jobs), NEW id \in IDs(jobs)
  PROVE  /\ Mark(w, id) \in Walks(jobs)
         /\ Mark(w, id).ok = w.ok /\ Mark(w, id).out = w.out
         /\ \A x \in IDs(jobs) : Mark(w, id).state[x] = IF x = id THEN 1 ELSE w.state[x]
<1>1. w \in [state : [IDs(jobs) -> 0 .. 2], out : Seq(Range(jobs)), ok : BOOLEAN]
  BY Zenon DEF Walks
<1>2. 1 \in 0 .. 2
  OBVIOUS
<1> QED
  BY Zenon, <1>1, <1>2 DEF Walks, Mark

(* Finishing a job changes its state and puts it behind the others.        *)
LEMMA FinishFacts ==
  ASSUME NEW jobs, NEW w \in Walks(jobs), NEW j \in Range(jobs), j.id \in IDs(jobs)
  PROVE  /\ Finish(w, j) \in Walks(jobs)
         /\ Finish(w, j).ok /\ Finish(w, j).out = Append(w.out, j)
         /\ \A x \in IDs(jobs) : Finish(w, j).state[x] = IF x = j.id THEN 2 ELSE w.state[x]
<1>1. w \in [state : [IDs(jobs) -> 0 .. 2], out : Seq(Range(jobs)), ok : BOOLEAN]
  BY Zenon DEF Walks
<1>2. 2 \in 0 .. 2 /\ Append(w.out, j) \in Seq(Range(jobs))
  BY <1>1
<1>3. Finish(w, j) = [state |-> [w.state EXCEPT ![j.id] = 2], out |-> Append(w.out, j), ok |-> TRUE]
  BY Zenon DEF Finish
<1>4. [w.state EXCEPT ![j.id] = 2] \in [IDs(jobs) -> 0 .. 2]
  BY Zenon, <1>1, <1>2
<1>5. \A x \in IDs(jobs) : [w.state EXCEPT ![j.id] = 2][x] = IF x = j.id THEN 2 ELSE w.state[x]
  BY Zenon, <1>1
<1> QED
  BY <1>2, <1>3, <1>4, <1>5 DEF Walks

(* A walk that met a cycle is a walk.                                      *)
LEMMA FailFacts ==
  ASSUME NEW jobs, NEW w \in Walks(jobs)
  PROVE  [w EXCEPT !.ok = FALSE] \in Walks(jobs) /\ ~[w EXCEPT !.ok = FALSE].ok
BY Zenon DEF Walks

(* The parts of a walk.                                                    *)
LEMMA WalkFacts ==
  ASSUME NEW jobs, NEW w \in Walks(jobs)
  PROVE  /\ w.ok \in BOOLEAN /\ w.out \in Seq(Range(jobs))
         /\ \A x \in IDs(jobs) : w.state[x] \in {0, 1, 2}
<1>1. w.state \in [IDs(jobs) -> 0 .. 2] /\ w.ok \in BOOLEAN /\ w.out \in Seq(Range(jobs))
  BY Zenon DEF Walks
<1>2. 0 .. 2 = {0, 1, 2}
  OBVIOUS
<1> QED
  BY Zenon, <1>1, <1>2

(* The branches of visit.                                                  *)
LEMMA VisitJobCases ==
  ASSUME NEW jobs, NEW call, NEW j, NEW w, NEW d, d = visitAll(call, j.needs, Mark(w, j.id))
  PROVE  /\ ~w.ok \/ w.state[j.id] = 2 => visitJob(call, j, w) = w
         /\ w.ok /\ w.state[j.id] = 1 => visitJob(call, j, w) = [w EXCEPT !.ok = FALSE]
         /\ w.ok /\ w.state[j.id] \notin {1, 2} => visitJob(call, j, w) = IF ~d.ok THEN d ELSE Finish(d, j)
BY DEF visitJob, Mark, Finish

(* visit returns a walk.                                                   *)
LEMMA VisitJobType ==
  ASSUME NEW jobs, Sortable(jobs), NEW call, IsCall(call, jobs), NEW id \in IDs(jobs), NEW w \in Walks(jobs)
  PROVE  visitJob(call, byID(jobs, id), w) \in Walks(jobs)
<1>1. PICK j : j = byID(jobs, id)
  BY Zenon
<1>2. j \in Range(jobs) /\ j.id = id /\ j.needs \in Seq(IDs(jobs))
  BY Zenon, <1>1, JobFacts
<1>3. PICK d : d = visitAll(call, j.needs, Mark(w, id))
  BY Zenon
<1>4. d \in Walks(jobs)
  <2>1. Mark(w, id) \in Walks(jobs)
    BY Zenon, MarkFacts
  <2>2. Len(j.needs) \in 0 .. Len(j.needs)
    BY <1>2
  <2> QED
    BY <1>2, <1>3, <2>1, <2>2, VisitAllRun
<1>5. Finish(d, j) \in Walks(jobs)
  BY Zenon, <1>2, <1>4, FinishFacts
<1>6. [w EXCEPT !.ok = FALSE] \in Walks(jobs)
  BY Zenon, FailFacts
<1>7. visitJob(call, j, w) \in {w, [w EXCEPT !.ok = FALSE], Finish(d, j), d}
  <2>1. CASE ~w.ok \/ w.state[id] = 2
    BY <1>2, <2>1, VisitJobCases
  <2>2. CASE w.ok /\ w.state[id] = 1
    BY <1>2, <2>2, VisitJobCases
  <2>3. CASE w.ok /\ w.state[id] \notin {1, 2}
    <3>1. visitJob(call, j, w) = IF ~d.ok THEN d ELSE Finish(d, j)
      BY <1>2, <1>3, <2>3, VisitJobCases
    <3> QED
      BY Zenon, <3>1
  <2> QED
    BY Zenon, <2>1, <2>2, <2>3
<1> QED
  BY Zenon, <1>1, <1>4, <1>5, <1>6, <1>7

(***************************************************************************)
(* visit(jobs)[n + 1] calls visit(jobs)[n].                                *)
(***************************************************************************)
LEMMA VisitRun ==
  ASSUME NEW jobs, Sortable(jobs)
  PROVE  \A n \in Nat :
           /\ IsCall(visit(jobs)[n], jobs)
           /\ \A id \in IDs(jobs), w \in Walks(jobs) :
                visit(jobs)[n + 1][<<id, w>>] = visitJob(visit(jobs)[n], byID(jobs, id), w)
<1> DEFINE C == Calls(jobs)
           V == [C -> Walks(jobs)]
           Step(g) == [c \in C |-> visitJob(g, byID(jobs, c[1]), c[2])]
           b == [c \in C |-> c[2]]
           G == [p \in Nat \X V |-> Step(p[2])]
           Eq(t) == t
             = [n \in Nat |-> [c \in C |-> IF n = 0 THEN c[2] ELSE visitJob(t[n - 1], byID(jobs, c[1]), c[2])]]
<1>1. \A c \in C : c[1] \in IDs(jobs) /\ c[2] \in Walks(jobs)
  BY Zenon DEF Calls
<1>2. b \in V
  BY Zenon, <1>1
<1>3. ASSUME NEW g \in V PROVE Step(g) \in V
  <2>1. \A c \in C : visitJob(g, byID(jobs, c[1]), c[2]) \in Walks(jobs)
    BY Zenon, <1>1, VisitJobType DEF IsCall
  <2> HIDE DEF C
  <2> QED
    BY Zenon, <2>1
<1>4. Stepper(G, V)
  <2> HIDE DEF V, Step
  <2> QED
    BY Zenon, <1>3 DEF Stepper
<1>5. PICK f : Iterates(f, b, G, V)
  <2> HIDE DEF V, G, b
  <2> QED
    BY Zenon, <1>2, <1>4, Iteration
<1>6. f \in [Nat -> V] /\ f[0] = b /\ \A n \in Nat : f[n + 1] = Step(f[n])
  <2>1. f \in [Nat -> V] /\ f[0] = b /\ \A n \in Nat : f[n + 1] = G[<<n + 1, f[n]>>]
    <3> HIDE DEF V, G, b
    <3> QED
      BY Zenon, <1>5 DEF Iterates
  <2>2. \A n \in Nat : <<n + 1, f[n]>> \in Nat \X V
    <3> HIDE DEF V
    <3> QED
      BY <2>1
  <2>3. \A n \in Nat : G[<<n + 1, f[n]>>] = Step(f[n])
    <3> HIDE DEF V, Step
    <3> QED
      BY Zenon, <2>2
  <2> HIDE DEF V, G, Step, b
  <2> QED
    BY Zenon, <2>1, <2>3
<1>7. Eq(f)
  <2>1. ASSUME NEW n \in Nat
        PROVE  f[n] = [c \in C |-> IF n = 0 THEN c[2] ELSE visitJob(f[n - 1], byID(jobs, c[1]), c[2])]
    <3>1. CASE n = 0
      <4> HIDE DEF C
      <4> QED
        BY Zenon, <1>6, <3>1
    <3>2. CASE n # 0
      <4>1. n - 1 \in Nat /\ (n - 1) + 1 = n
        BY <3>2
      <4>2. f[n] = Step(f[n - 1])
        <5> HIDE DEF Step, V, b
        <5> QED
          BY Zenon, <1>6, <4>1
      <4> HIDE DEF C
      <4> QED
        BY Zenon, <3>2, <4>2
    <3> QED
      BY Zenon, <3>1, <3>2
  <2>2. f = [n \in Nat |-> f[n]]
    <3> HIDE DEF V
    <3> QED
      BY Zenon, <1>6
  <2> HIDE DEF C
  <2> QED
    BY Zenon, <2>1, <2>2
<1> DEFINE t == CHOOSE t : Eq(t)
<1>8. Eq(t)
  <2>1. \E x : Eq(x)
    BY Zenon, <1>7
  <2> HIDE DEF Eq
  <2> QED
    BY Zenon, <2>1
<1>9. visit(jobs) = t
  BY Zenon DEF visit
<1> HIDE DEF t
<1>10. t[0] = b /\ \A n \in Nat : t[n + 1] = Step(t[n])
  <2>1. \A n \in Nat : t[n] = [c \in C |-> IF n = 0 THEN c[2] ELSE visitJob(t[n - 1], byID(jobs, c[1]), c[2])]
    <3> HIDE DEF C
    <3> QED
      BY Zenon, <1>8
  <2>2. t[0] = b
    <3> HIDE DEF C
    <3> QED
      BY <2>1
  <2>3. ASSUME NEW n \in Nat PROVE t[n + 1] = Step(t[n])
    <3>1. n + 1 \in Nat /\ n + 1 # 0 /\ (n + 1) - 1 = n
      OBVIOUS
    <3> HIDE DEF C
    <3> QED
      BY Zenon, <2>1, <3>1
  <2> QED
    BY Zenon, <2>2, <2>3
<1>11. \A n \in Nat : t[n] \in V
  <2> DEFINE T == {n \in Nat : t[n] \in V}
  <2>1. 0 \in T
    <3> HIDE DEF V, b, Step
    <3> QED
      BY Zenon, <1>2, <1>10
  <2>2. \A n \in Nat : n \in T => n + 1 \in T
    <3> HIDE DEF V, b, Step
    <3> QED
      BY <1>3, <1>10
  <2> HIDE DEF T
  <2>3. Nat \subseteq T
    BY Zenon, <2>1, <2>2, NatSet
  <2> QED
    BY Zenon, <2>3 DEF T
<1>12. ASSUME NEW n \in Nat, NEW id \in IDs(jobs), NEW w \in Walks(jobs)
       PROVE  t[n + 1][<<id, w>>] = visitJob(t[n], byID(jobs, id), w)
  <2>1. <<id, w>> \in C
    BY Zenon DEF Calls
  <2>2. Step(t[n])[<<id, w>>] = visitJob(t[n], byID(jobs, id), w)
    <3> HIDE DEF C
    <3> QED
      BY Zenon, <2>1
  <2> HIDE DEF Step, b
  <2> QED
    BY Zenon, <1>10, <2>2
<1> QED
  BY Zenon, <1>9, <1>11, <1>12 DEF IsCall

(***************************************************************************)
(* At most n elements.                                                     *)
(***************************************************************************)
Few(Z, n) == \E e : Z \subseteq {e[k] : k \in 1 .. n}

(* A set of at most n elements has at most n - 1 others than a given one.  *)
LEMMA FewLess ==
  ASSUME NEW Z, NEW n \in Nat, Few(Z, n), NEW x \in Z
  PROVE  n # 0 /\ n - 1 \in Nat /\ Few(Z \ {x}, n - 1)
<1>1. PICK e : Z \subseteq {e[k] : k \in 1 .. n}
  BY Zenon DEF Few
<1>2. PICK k \in 1 .. n : x = e[k]
  BY Zenon, <1>1
<1>3. n # 0 /\ n - 1 \in Nat
  OBVIOUS
<1> DEFINE f == [i \in 1 .. n - 1 |-> IF i = k THEN e[n] ELSE e[i]]
<1>4. ASSUME NEW z \in Z \ {x} PROVE \E i \in 1 .. n - 1 : z = f[i]
  <2>1. PICK m \in 1 .. n : z = e[m]
    BY Zenon, <1>1
  <2>2. m # k
    BY Zenon, <1>2, <2>1
  <2>3. CASE m = n
    <3>1. k \in 1 .. n - 1
      BY <2>2, <2>3
    <3>2. f[k] = e[n]
      BY Zenon, <3>1
    <3> HIDE DEF f
    <3> QED
      BY Zenon, <2>1, <2>3, <3>1, <3>2
  <2>4. CASE m # n
    <3>1. m \in 1 .. n - 1
      BY <2>4
    <3>2. f[m] = e[m]
      BY Zenon, <2>2, <3>1
    <3> HIDE DEF f
    <3> QED
      BY Zenon, <2>1, <3>1, <3>2
  <2> QED
    BY Zenon, <2>3, <2>4
<1> HIDE DEF f
<1>5. Z \ {x} \subseteq {f[i] : i \in 1 .. n - 1}
  BY Zenon, <1>4
<1> QED
  BY Zenon, <1>3, <1>5 DEF Few

(* A subset has no more elements.                                          *)
LEMMA FewSubset ==
  ASSUME NEW Z, NEW Y, NEW n, Few(Z, n), Y \subseteq Z
  PROVE  Few(Y, n)
BY Zenon DEF Few

(***************************************************************************)
(* A walk is good when the jobs it put out are the ones it is done with,   *)
(* each once and after those it needs.  Chain: each job it is visiting     *)
(* needs another one, or the one that is visited next.  So a visit that    *)
(* meets a job it is visiting has found a group of jobs that only waits    *)
(* for itself.                                                             *)
(***************************************************************************)
Unvisited(w, jobs) == {x \in IDs(jobs) : w.state[x] = 0}

InOrder(out) ==
  /\ \A k, m \in 1 .. Len(out) : out[k].id = out[m].id => k = m
  /\ \A k \in 1 .. Len(out) : \A d \in Range(out[k].needs) : \E m \in 1 .. Len(out) : m < k /\ out[m].id = d

Good(w, jobs) ==
  /\ w \in Walks(jobs) /\ w.ok
  /\ \A x \in IDs(jobs) : w.state[x] = 2 <=> \E k \in 1 .. Len(w.out) : w.out[k].id = x
  /\ InOrder(w.out)

Later(v, w, jobs) ==
  \A x \in IDs(jobs) : (w.state[x] = 2 => v.state[x] = 2) /\ (v.state[x] = 1 <=> w.state[x] = 1)

Chain(w, id, jobs) ==
  \A x \in IDs(jobs) : w.state[x] = 1 => \E y \in Range(byID(jobs, x).needs) : y = id \/ w.state[y] = 1

Cyclic(jobs) ==
  \E S \in SUBSET DOMAIN jobs : S # {} /\ \A i \in S : \E h \in S : jobs[h].id \in Range(jobs[i].needs)

Outcome(v, w, id, jobs) ==
  /\ v.ok => Good(v, jobs) /\ Later(v, w, jobs) /\ v.state[id] = 2
  /\ ~v.ok => Cyclic(jobs)

OutcomeAll(v, w, ids, jobs) ==
  /\ v \in Walks(jobs)
  /\ v.ok => Good(v, jobs) /\ Later(v, w, jobs) /\ \A k \in 1 .. Len(ids) : v.state[ids[k]] = 2
  /\ ~v.ok => Cyclic(jobs)

(* A call that is right about the walks with at most n unvisited jobs.     *)
Visits(call, n, jobs) ==
  /\ IsCall(call, jobs)
  /\ \A id \in IDs(jobs), w \in Walks(jobs) : ~w.ok => call[<<id, w>>] = w
  /\ \A id \in IDs(jobs), w \in Walks(jobs) :
       Good(w, jobs) /\ Few(Unvisited(w, jobs), n) /\ Chain(w, id, jobs)
         => Outcome(call[<<id, w>>], w, id, jobs)

(* Going on visits more jobs, keeps the chains, and is transitive.         *)
LEMMA LaterFacts ==
  ASSUME NEW jobs, Sortable(jobs), NEW v \in Walks(jobs), NEW w \in Walks(jobs), Later(v, w, jobs)
  PROVE  /\ Unvisited(v, jobs) \subseteq Unvisited(w, jobs)
         /\ \A id \in IDs(jobs) : Chain(w, id, jobs) => Chain(v, id, jobs)
         /\ \A u \in Walks(jobs) : Later(u, v, jobs) => Later(u, w, jobs)
<1>1. ASSUME NEW x \in Unvisited(v, jobs) PROVE x \in Unvisited(w, jobs)
  <2>1. x \in IDs(jobs) /\ v.state[x] = 0
    BY Zenon DEF Unvisited
  <2>2. v.state[x] # 1 /\ v.state[x] # 2
    BY <2>1
  <2>3. w.state[x] # 1 /\ w.state[x] # 2
    BY Zenon, <2>1, <2>2 DEF Later
  <2>4. w.state[x] \in {0, 1, 2}
    BY Zenon, <2>1, WalkFacts
  <2> QED
    BY Zenon, <2>1, <2>3, <2>4 DEF Unvisited
<1>2. ASSUME NEW id \in IDs(jobs), Chain(w, id, jobs) PROVE Chain(v, id, jobs)
  <2> SUFFICES ASSUME NEW x \in IDs(jobs), v.state[x] = 1
               PROVE  \E y \in Range(byID(jobs, x).needs) : y = id \/ v.state[y] = 1
    BY Zenon DEF Chain
  <2>1. w.state[x] = 1
    BY Zenon DEF Later
  <2>2. PICK y \in Range(byID(jobs, x).needs) : y = id \/ w.state[y] = 1
    BY Zenon, <1>2, <2>1 DEF Chain
  <2>3. y \in IDs(jobs)
    <3>1. byID(jobs, x).needs \in Seq(IDs(jobs))
      BY Zenon, JobFacts
    <3> QED
      BY <3>1 DEF Range
  <2>4. w.state[y] = 1 => v.state[y] = 1
    BY Zenon, <2>3 DEF Later
  <2> QED
    BY Zenon, <2>2, <2>4
<1>3. \A u \in Walks(jobs) : Later(u, v, jobs) => Later(u, w, jobs)
  BY Zenon DEF Later
<1> QED
  BY Zenon, <1>1, <1>2, <1>3

(* If the calls do what they should, visiting all needs of a job does.     *)
LEMMA VisitsAll ==
  ASSUME NEW jobs, Sortable(jobs), NEW call, NEW n \in Nat, Visits(call, n, jobs),
         NEW ids \in Seq(IDs(jobs)), NEW w \in Walks(jobs), Good(w, jobs),
         Few(Unvisited(w, jobs), n), \A k \in 1 .. Len(ids) : Chain(w, ids[k], jobs),
         NEW v, v = visitAll(call, ids, w)
  PROVE  OutcomeAll(v, w, ids, jobs)
<1> DEFINE N == Len(ids)
<1>1. N \in Nat /\ N \in 0 .. N /\ \A k \in 1 .. N : ids[k] \in IDs(jobs)
  OBVIOUS
<1>2. IsCall(call, jobs)
  BY Zenon DEF Visits
<1>3. PICK f : /\ f[0] = w
               /\ \A k \in 0 .. N : f[k] \in Walks(jobs)
               /\ \A k \in 1 .. N : f[k] = call[<<ids[k], f[k - 1]>>]
               /\ visitAll(call, ids, w) = f[N]
  BY <1>2, VisitAllRun
<1> DEFINE P(k) == /\ f[k].ok => /\ Good(f[k], jobs) /\ Later(f[k], w, jobs)
                                 /\ \A m \in 1 .. k : f[k].state[ids[m]] = 2
                   /\ ~f[k].ok => Cyclic(jobs)
           T == {k \in Nat : k <= N => P(k)}
<1>4. 0 \in T
  <2>1. Later(w, w, jobs)
    BY Zenon DEF Later
  <2>2. \A m \in 1 .. 0 : FALSE
    OBVIOUS
  <2>3. w.ok
    BY Zenon DEF Good
  <2>4. P(0)
    BY Zenon, <1>3, <2>1, <2>2, <2>3
  <2> HIDE DEF P
  <2> QED
    BY Zenon, <2>4
<1>5. ASSUME NEW k \in Nat, k \in T PROVE k + 1 \in T
  <2> SUFFICES ASSUME k + 1 <= N PROVE P(k + 1)
    OBVIOUS
  <2>1. k \in 0 .. N /\ k + 1 \in 1 .. N /\ (k + 1) - 1 = k /\ k <= N /\ k + 1 \in 0 .. N
    BY <1>1
  <2>2. PICK id \in IDs(jobs) : id = ids[k + 1]
    BY Zenon, <1>1, <2>1
  <2>3. PICK u \in Walks(jobs), t \in Walks(jobs) : u = f[k] /\ t = f[k + 1] /\ t = call[<<id, u>>]
    BY Zenon, <1>3, <2>1, <2>2
  <2>4. P(k)
    BY Zenon, <1>5, <2>1
  <2>5. CASE ~u.ok
    <3>1. t = u
      BY Zenon, <2>3, <2>5 DEF Visits
    <3>2. ~t.ok /\ Cyclic(jobs)
      BY Zenon, <2>3, <2>4, <2>5, <3>1
    <3> QED
      BY Zenon, <2>3, <3>2
  <2>6. CASE u.ok
    <3>1. Good(u, jobs) /\ Later(u, w, jobs) /\ \A m \in 1 .. k : u.state[ids[m]] = 2
      BY Zenon, <2>3, <2>4, <2>6
    <3>2. Few(Unvisited(u, jobs), n) /\ Chain(u, id, jobs)
      <4>1. /\ Unvisited(u, jobs) \subseteq Unvisited(w, jobs)
            /\ \A x \in IDs(jobs) : Chain(w, x, jobs) => Chain(u, x, jobs)
        BY Zenon, <3>1, LaterFacts
      <4>2. Few(Unvisited(u, jobs), n)
        BY Zenon, <4>1, FewSubset
      <4> QED
        BY Zenon, <2>1, <2>2, <4>1, <4>2
    <3>3. Outcome(t, u, id, jobs)
      BY Zenon, <2>3, <3>1, <3>2 DEF Visits
    <3>4. CASE ~t.ok
      BY Zenon, <2>3, <3>3, <3>4 DEF Outcome
    <3>5. CASE t.ok
      <4>1. Good(t, jobs) /\ Later(t, u, jobs) /\ t.state[id] = 2
        BY Zenon, <3>3, <3>5 DEF Outcome
      <4>2. Later(t, w, jobs)
        BY Zenon, <3>1, <4>1, LaterFacts
      <4>3. ASSUME NEW m \in 1 .. k + 1 PROVE t.state[ids[m]] = 2
        <5>1. CASE m = k + 1
          BY Zenon, <2>2, <4>1, <5>1
        <5>2. CASE m \in 1 .. k
          <6>1. m \in 1 .. N
            BY <2>1, <5>2
          <6> QED
            BY Zenon, <1>1, <3>1, <4>1, <5>2, <6>1 DEF Later
        <5> QED
          BY <5>1, <5>2
      <4> QED
        BY Zenon, <2>3, <3>5, <4>1, <4>2, <4>3
    <3> QED
      BY Zenon, <3>4, <3>5
  <2> QED
    BY Zenon, <2>5, <2>6
<1>6. Nat \subseteq T
  <2> HIDE DEF T
  <2> QED
    BY Zenon, <1>4, <1>5, NatSet
<1>7. P(N)
  <2>1. N \in T /\ N <= N
    BY <1>1, <1>6
  <2> HIDE DEF P
  <2> QED
    BY Zenon, <2>1
<1> QED
  BY Zenon, <1>1, <1>3, <1>7 DEF OutcomeAll

(* The walk that a job's visit hands to its needs, and what it makes of    *)
(* their walk.                                                             *)
LEMMA MarkGood ==
  ASSUME NEW jobs, Sortable(jobs), NEW w \in Walks(jobs), Good(w, jobs), NEW id \in IDs(jobs),
         w.state[id] = 0, Chain(w, id, jobs), NEW m, m = Mark(w, id)
  PROVE  /\ m \in Walks(jobs) /\ Good(m, jobs)
         /\ Unvisited(m, jobs) = Unvisited(w, jobs) \ {id} /\ id \in Unvisited(w, jobs)
         /\ \A d \in Range(byID(jobs, id).needs) : Chain(m, d, jobs)
<1>1. /\ m \in Walks(jobs) /\ m.ok = w.ok /\ m.out = w.out
      /\ \A x \in IDs(jobs) : m.state[x] = IF x = id THEN 1 ELSE w.state[x]
  BY MarkFacts
<1>2. \A x \in IDs(jobs) : m.state[x] = 2 <=> w.state[x] = 2
  BY <1>1
<1>3. Good(m, jobs)
  BY <1>1, <1>2 DEF Good
<1>4. Unvisited(m, jobs) = Unvisited(w, jobs) \ {id} /\ id \in Unvisited(w, jobs)
  BY <1>1 DEF Unvisited
<1>5. ASSUME NEW d \in Range(byID(jobs, id).needs), NEW x \in IDs(jobs), m.state[x] = 1
      PROVE  \E y \in Range(byID(jobs, x).needs) : y = d \/ m.state[y] = 1
  <2>1. CASE x = id
    BY Zenon, <2>1
  <2>2. CASE x # id
    <3>1. w.state[x] = 1
      BY Zenon, <1>1, <1>5, <2>2
    <3>2. PICK y \in Range(byID(jobs, x).needs) : y = id \/ w.state[y] = 1
      BY Zenon, <3>1 DEF Chain
    <3>3. y \in IDs(jobs)
      <4>1. byID(jobs, x).needs \in Seq(IDs(jobs))
        BY Zenon, JobFacts
      <4> QED
        BY <4>1 DEF Range
    <3> QED
      BY Zenon, <1>1, <3>2, <3>3
  <2> QED
    BY Zenon, <2>1, <2>2
<1> QED
  BY Zenon, <1>1, <1>3, <1>4, <1>5 DEF Chain

(* A job all of whose needs are done may be finished.                      *)
LEMMA FinishGood ==
  ASSUME NEW jobs, Sortable(jobs), NEW w \in Walks(jobs), Good(w, jobs), NEW id \in IDs(jobs),
         w.state[id] = 1, NEW j, j = byID(jobs, id), \A d \in Range(j.needs) : w.state[d] = 2,
         NEW v, v = Finish(w, j)
  PROVE  v.ok /\ Good(v, jobs)
<1>1. j \in Range(jobs) /\ j.id = id /\ Range(j.needs) \subseteq IDs(jobs)
  <2>1. j \in Range(jobs) /\ j.id = id /\ j.needs \in Seq(IDs(jobs))
    BY Zenon, JobFacts
  <2> QED
    BY <2>1 DEF Range
<1>2. /\ v \in Walks(jobs) /\ v.ok /\ v.out = Append(w.out, j)
      /\ \A x \in IDs(jobs) : v.state[x] = IF x = id THEN 2 ELSE w.state[x]
  BY <1>1, FinishFacts
<1>3. PICK o \in Seq(Range(jobs)), u \in Seq(Range(jobs)) : o = w.out /\ u = v.out /\ u = Append(o, j)
  BY Zenon, <1>2, WalkFacts
<1>4. PICK N \in Nat : N = Len(o)
  BY <1>3
<1>5. Len(u) = N + 1 /\ u[N + 1] = j /\ \A k \in 1 .. N : u[k] = o[k]
  BY <1>3, <1>4, <1>1
<1>6. /\ \A x \in IDs(jobs) : w.state[x] = 2 <=> \E k \in 1 .. N : o[k].id = x
      /\ \A k, m \in 1 .. N : o[k].id = o[m].id => k = m
      /\ \A k \in 1 .. N : \A d \in Range(o[k].needs) : \E m \in 1 .. N : m < k /\ o[m].id = d
  BY <1>3, <1>4 DEF Good, InOrder
<1>7. \A k \in 1 .. N : o[k].id # id
  BY <1>6
<1>8. \A k \in 1 .. N + 1 : k \in 1 .. N \/ k = N + 1
  BY <1>4
<1>9. 1 .. N \subseteq 1 .. N + 1 /\ N + 1 \in 1 .. N + 1 /\ \A k \in 1 .. N : k < N + 1
  BY <1>4
<1>10. ASSUME NEW x \in IDs(jobs)
       PROVE  v.state[x] = 2 <=> \E k \in 1 .. N + 1 : u[k].id = x
  <2>1. CASE x = id
    BY <1>1, <1>2, <1>5, <1>9, <2>1
  <2>2. CASE x # id
    <3>1. v.state[x] = w.state[x]
      BY Zenon, <1>2, <2>2
    <3>2. (\E k \in 1 .. N + 1 : u[k].id = x) <=> \E k \in 1 .. N : o[k].id = x
      BY Zenon, <1>1, <1>5, <1>8, <1>9, <2>2
    <3> QED
      BY Zenon, <1>6, <3>1, <3>2
  <2> QED
    BY Zenon, <2>1, <2>2
<1>11. ASSUME NEW k \in 1 .. N + 1, NEW m \in 1 .. N + 1, u[k].id = u[m].id PROVE k = m
  <2>1. CASE k \in 1 .. N /\ m \in 1 .. N
    <3>1. o[k].id = o[m].id
      BY Zenon, <1>5, <1>11, <2>1
    <3> QED
      BY Zenon, <1>6, <2>1, <3>1
  <2>2. CASE k \in 1 .. N /\ m = N + 1
    <3>1. o[k].id = id
      BY Zenon, <1>1, <1>5, <1>11, <2>2
    <3> QED
      BY Zenon, <1>7, <2>2, <3>1
  <2>3. CASE k = N + 1 /\ m \in 1 .. N
    <3>1. o[m].id = id
      BY Zenon, <1>1, <1>5, <1>11, <2>3
    <3> QED
      BY Zenon, <1>7, <2>3, <3>1
  <2> QED
    BY Zenon, <1>8, <2>1, <2>2, <2>3
<1>12. ASSUME NEW k \in 1 .. N + 1, NEW d \in Range(u[k].needs)
       PROVE  \E m \in 1 .. N + 1 : m < k /\ u[m].id = d
  <2>1. CASE k \in 1 .. N
    <3>1. PICK m \in 1 .. N : m < k /\ o[m].id = d
      <4>1. d \in Range(o[k].needs)
        BY Zenon, <1>5, <1>12, <2>1
      <4>2. \A c \in Range(o[k].needs) : \E m \in 1 .. N : m < k /\ o[m].id = c
        BY Zenon, <1>6, <2>1
      <4> QED
        BY Zenon, <4>1, <4>2
    <3> QED
      BY Zenon, <1>5, <1>9, <3>1
  <2>2. CASE k = N + 1
    <3>1. d \in IDs(jobs) /\ w.state[d] = 2
      BY Zenon, <1>1, <1>5, <1>12, <2>2
    <3>2. PICK m \in 1 .. N : o[m].id = d
      BY Zenon, <1>6, <3>1
    <3> QED
      BY Zenon, <1>5, <1>9, <2>2, <3>2
  <2> QED
    BY Zenon, <1>8, <2>1, <2>2
<1>13. InOrder(v.out)
  <2>1. InOrder(u)
    BY <1>5, <1>11, <1>12 DEF InOrder
  <2> QED
    BY Zenon, <1>3, <2>1
<1>14. \A x \in IDs(jobs) : v.state[x] = 2 <=> \E k \in 1 .. Len(v.out) : v.out[k].id = x
  BY <1>3, <1>5, <1>10
<1> QED
  BY Zenon, <1>2, <1>13, <1>14 DEF Good

(* A need that is being visited closes a cycle.                            *)
LEMMA MeetsCycle ==
  ASSUME NEW jobs, Sortable(jobs), NEW w \in Walks(jobs), NEW id \in IDs(jobs),
         w.state[id] = 1, Chain(w, id, jobs)
  PROVE  Cyclic(jobs)
<1> DEFINE S == {i \in DOMAIN jobs : w.state[jobs[i].id] = 1}
<1>1. \A x \in IDs(jobs) : \E i \in DOMAIN jobs : jobs[i].id = x
  BY Zenon DEF IDs
<1>2. S # {}
  BY Zenon, <1>1
<1>3. ASSUME NEW i \in S PROVE \E h \in S : jobs[h].id \in Range(jobs[i].needs)
  <2>1. i \in DOMAIN jobs /\ w.state[jobs[i].id] = 1 /\ jobs[i].id \in IDs(jobs)
    BY Zenon DEF IDs
  <2>2. byID(jobs, jobs[i].id) = jobs[i] /\ byID(jobs, jobs[i].id).needs \in Seq(IDs(jobs))
    BY Zenon, <2>1, SameJob, JobFacts
  <2>3. PICK y \in Range(jobs[i].needs) : w.state[y] = 1
    BY Zenon, <2>1, <2>2 DEF Chain
  <2>4. y \in IDs(jobs)
    BY <2>2 DEF Range
  <2> QED
    BY Zenon, <1>1, <2>3, <2>4
<1> HIDE DEF S
<1>4. S \subseteq DOMAIN jobs
  BY Zenon DEF S
<1> QED
  BY Zenon, <1>2, <1>3, <1>4 DEF Cyclic

(* If the nested calls do what they should, visit does.                    *)
LEMMA VisitJobGood ==
  ASSUME NEW jobs, Sortable(jobs), NEW n \in Nat, NEW call, IsCall(call, jobs),
         n # 0 => Visits(call, n - 1, jobs),
         NEW next, IsCall(next, jobs),
         \A id \in IDs(jobs), w \in Walks(jobs) : next[<<id, w>>] = visitJob(call, byID(jobs, id), w)
  PROVE  Visits(next, n, jobs)
<1>1. ASSUME NEW id \in IDs(jobs), NEW w \in Walks(jobs), ~w.ok PROVE next[<<id, w>>] = w
  BY <1>1, VisitJobCases
<1>2. ASSUME NEW id \in IDs(jobs), NEW w \in Walks(jobs),
             Good(w, jobs), Few(Unvisited(w, jobs), n), Chain(w, id, jobs)
      PROVE  Outcome(next[<<id, w>>], w, id, jobs)
  <2>1. PICK j : j = byID(jobs, id)
    BY Zenon
  <2>2. j \in Range(jobs) /\ j.id = id /\ j.needs \in Seq(IDs(jobs))
    BY Zenon, <2>1, JobFacts
  <2>3. PICK d : d = visitAll(call, j.needs, Mark(w, id))
    BY Zenon
  <2>4. PICK v : v = next[<<id, w>>] /\ v = visitJob(call, j, w)
    BY Zenon, <2>1
  <2>5. w.ok /\ w.state[id] \in {0, 1, 2}
    BY Zenon, <1>2, WalkFacts DEF Good
  <2>6. /\ w.state[id] = 2 => v = w
        /\ w.state[id] = 1 => v = [w EXCEPT !.ok = FALSE]
        /\ w.state[id] \notin {1, 2} => v = IF ~d.ok THEN d ELSE Finish(d, j)
    <3>1. d = visitAll(call, j.needs, Mark(w, j.id))
      BY Zenon, <2>2, <2>3
    <3> QED
      BY <2>2, <2>4, <2>5, <3>1, VisitJobCases
  <2>7. CASE w.state[id] = 2
    <3>1. Later(w, w, jobs)
      BY Zenon DEF Later
    <3> QED
      BY Zenon, <1>2, <2>4, <2>5, <2>6, <2>7, <3>1 DEF Outcome
  <2>8. CASE w.state[id] = 1
    <3>1. ~v.ok
      BY Zenon, <2>6, <2>8, FailFacts
    <3>2. Cyclic(jobs)
      BY Zenon, <1>2, <2>8, MeetsCycle
    <3> QED
      BY Zenon, <2>4, <3>1, <3>2 DEF Outcome
  <2>9. CASE w.state[id] = 0
    <3>1. PICK m : m = Mark(w, id)
      BY Zenon
    <3>2. /\ m \in Walks(jobs) /\ Good(m, jobs)
          /\ Unvisited(m, jobs) = Unvisited(w, jobs) \ {id} /\ id \in Unvisited(w, jobs)
          /\ \A x \in Range(j.needs) : Chain(m, x, jobs)
      BY <1>2, <2>1, <2>9, <3>1, MarkGood
    <3>3. n # 0 /\ n - 1 \in Nat /\ Few(Unvisited(m, jobs), n - 1)
      BY Zenon, <1>2, <3>2, FewLess
    <3>4. Visits(call, n - 1, jobs)
      BY Zenon, <3>3
    <3>5. /\ \A k \in 1 .. Len(j.needs) : j.needs[k] \in Range(j.needs)
          /\ \A x \in Range(j.needs) : x \in IDs(jobs) /\ \E k \in 1 .. Len(j.needs) : j.needs[k] = x
      BY <2>2 DEF Range
    <3>6. \A k \in 1 .. Len(j.needs) : Chain(m, j.needs[k], jobs)
      BY Zenon, <3>2, <3>5
    <3>7. d = visitAll(call, j.needs, m)
      BY Zenon, <2>3, <3>1
    <3>8. /\ d \in Walks(jobs)
          /\ d.ok => /\ Good(d, jobs) /\ Later(d, m, jobs)
                     /\ \A k \in 1 .. Len(j.needs) : d.state[j.needs[k]] = 2
          /\ ~d.ok => Cyclic(jobs)
      <4>1. PICK ids, r : ids = j.needs /\ r = n - 1
        BY Zenon
      <4>2. ids \in Seq(IDs(jobs)) /\ r \in Nat /\ Few(Unvisited(m, jobs), r) /\ Visits(call, r, jobs)
              /\ d = visitAll(call, ids, m)
        BY Zenon, <2>2, <3>3, <3>4, <3>7, <4>1
      <4>3. \A k \in 1 .. Len(ids) : Chain(m, ids[k], jobs)
        BY Zenon, <3>6, <4>1
      <4>4. OutcomeAll(d, m, ids, jobs)
        BY Zenon, <3>2, <4>2, <4>3, VisitsAll
      <4> QED
        BY Zenon, <4>1, <4>4 DEF OutcomeAll
    <3>9. CASE ~d.ok
      BY <2>4, <2>6, <2>9, <3>8, <3>9 DEF Outcome
    <3>10. CASE d.ok
      <4>1. \A x \in IDs(jobs) : m.state[x] = IF x = id THEN 1 ELSE w.state[x]
        BY <3>1, MarkFacts
      <4>2. d.state[id] = 1 /\ \A x \in Range(j.needs) : d.state[x] = 2
        BY <3>5, <3>8, <3>10, <4>1 DEF Later
      <4>3. v = Finish(d, j)
        BY <2>6, <2>9, <3>10
      <4>4. v.ok /\ Good(v, jobs)
        BY Zenon, <2>1, <3>8, <3>10, <4>2, <4>3, FinishGood
      <4>5. \A x \in IDs(jobs) : v.state[x] = IF x = id THEN 2 ELSE d.state[x]
        <5>1. j \in Range(jobs) /\ j.id = id /\ j.id \in IDs(jobs) /\ d \in Walks(jobs)
          BY Zenon, <2>2, <3>8
        <5>2. \A x \in IDs(jobs) : Finish(d, j).state[x] = IF x = j.id THEN 2 ELSE d.state[x]
          BY <5>1, FinishFacts
        <5> QED
          BY Zenon, <4>3, <5>1, <5>2
      <4>6. Later(v, w, jobs)
        <5> SUFFICES ASSUME NEW x \in IDs(jobs)
                     PROVE  (w.state[x] = 2 => v.state[x] = 2) /\ (v.state[x] = 1 <=> w.state[x] = 1)
          BY Zenon DEF Later
        <5>1. CASE x = id
          BY <2>9, <4>5, <5>1
        <5>2. CASE x # id
          BY <3>8, <3>10, <4>1, <4>5, <5>2 DEF Later
        <5> QED
          BY Zenon, <5>1, <5>2
      <4> QED
        BY Zenon, <2>4, <4>4, <4>5, <4>6 DEF Outcome
    <3> QED
      BY Zenon, <3>9, <3>10
  <2> QED
    BY Zenon, <2>5, <2>7, <2>8, <2>9
<1> QED
  BY Zenon, <1>1, <1>2 DEF Visits

(* So visit does what it should, when few enough jobs are unvisited.       *)
LEMMA VisitGood ==
  ASSUME NEW jobs, Sortable(jobs)
  PROVE  \A n \in Nat : Visits(visit(jobs)[n + 1], n, jobs)
<1> DEFINE T == {n \in Nat : Visits(visit(jobs)[n + 1], n, jobs)}
<1>1. ASSUME NEW n \in Nat, n # 0 => Visits(visit(jobs)[n], n - 1, jobs)
      PROVE  Visits(visit(jobs)[n + 1], n, jobs)
  <2>1. PICK call, next : call = visit(jobs)[n] /\ next = visit(jobs)[n + 1]
    BY Zenon
  <2>2. IsCall(call, jobs) /\ IsCall(next, jobs)
    BY <2>1, VisitRun
  <2>3. \A id \in IDs(jobs), w \in Walks(jobs) : next[<<id, w>>] = visitJob(call, byID(jobs, id), w)
    BY Zenon, <2>1, VisitRun
  <2>4. n # 0 => Visits(call, n - 1, jobs)
    BY Zenon, <1>1, <2>1
  <2> QED
    BY Zenon, <2>1, <2>2, <2>3, <2>4, VisitJobGood
<1>2. 0 \in T
  BY Zenon, <1>1
<1>3. ASSUME NEW n \in Nat, n \in T PROVE n + 1 \in T
  <2>1. n + 1 \in Nat /\ (n + 1) - 1 = n
    OBVIOUS
  <2>2. Visits(visit(jobs)[n + 1], (n + 1) - 1, jobs)
    BY Zenon, <1>3, <2>1
  <2> QED
    BY Zenon, <1>1, <2>1, <2>2
<1>4. Nat \subseteq T
  <2> HIDE DEF T
  <2> QED
    BY Zenon, <1>2, <1>3, NatSet
<1> QED
  BY Zenon, <1>4

(***************************************************************************)
(* What topoSort returns: all jobs, each once and after those it needs.    *)
(***************************************************************************)
Sorted(jobs, out) ==
  /\ out \in Seq(Range(jobs))
  /\ \A i \in DOMAIN jobs : \E k \in 1 .. Len(out) : out[k] = jobs[i]
  /\ InOrder(out)

(* A set of naturals has a least element.                                  *)
LEMMA Least ==
  ASSUME NEW S \in SUBSET Nat, S # {}
  PROVE  \E m \in S : \A t \in S : m <= t
<1>1. PICK m \in S : \A t \in S : <<t, m>> \notin OpToRel(<, Nat)
  BY Zenon, NatLessThanWellFounded, WFMin
<1>2. ASSUME NEW t \in S PROVE m <= t
  <2>1. t \in Nat /\ m \in Nat
    BY Zenon
  <2>2. ~(t < m)
    BY Zenon, <1>1, <2>1 DEF OpToRel
  <2> QED
    BY <2>1, <2>2
<1> QED
  BY Zenon, <1>2

(* An order of the jobs by their needs excludes a cycle.                   *)
LEMMA SortedOrderable ==
  ASSUME NEW jobs, Sortable(jobs), NEW out, Sorted(jobs, out)
  PROVE  ~Cyclic(jobs)
<1> SUFFICES ASSUME NEW S \in SUBSET DOMAIN jobs, S # {},
                    \A i \in S : \E h \in S : jobs[h].id \in Range(jobs[i].needs)
             PROVE  FALSE
  BY Zenon DEF Cyclic
<1> DEFINE K == {k \in 1 .. Len(out) : \E i \in S : out[k] = jobs[i]}
<1>1. Len(out) \in Nat
  BY DEF Sorted
<1>2. K \in SUBSET Nat /\ K # {}
  <2>1. PICK i : i \in S
    BY Zenon
  <2>2. PICK k \in 1 .. Len(out) : out[k] = jobs[i]
    BY Zenon, <2>1 DEF Sorted
  <2>3. 1 .. Len(out) \subseteq Nat
    BY <1>1
  <2> QED
    BY Zenon, <2>1, <2>2, <2>3
<1>3. PICK k \in K : \A t \in K : k <= t
  <2> HIDE DEF K
  <2> QED
    BY Zenon, <1>2, Least
<1>4. PICK i \in S : out[k] = jobs[i]
  BY Zenon, <1>3
<1>5. PICK h \in S : jobs[h].id \in Range(out[k].needs)
  BY Zenon, <1>4
<1>6. PICK m \in 1 .. Len(out) : m < k /\ out[m].id = jobs[h].id
  <2>1. k \in 1 .. Len(out)
    BY Zenon, <1>3
  <2>2. \A p \in 1 .. Len(out) : \A d \in Range(out[p].needs) : \E m \in 1 .. Len(out) : m < p /\ out[m].id = d
    BY Zenon DEF Sorted, InOrder
  <2> HIDE DEF K
  <2> QED
    BY Zenon, <1>5, <2>1, <2>2
<1>7. PICK m2 \in 1 .. Len(out) : out[m2] = jobs[h]
  BY Zenon, <1>5 DEF Sorted
<1>8. m2 = m
  <2>1. \A a, b \in 1 .. Len(out) : out[a].id = out[b].id => a = b
    BY Zenon DEF Sorted, InOrder
  <2> QED
    BY Zenon, <1>6, <1>7, <2>1
<1>9. m \in K
  BY Zenon, <1>5, <1>7, <1>8
<1>10. k \in Nat /\ m \in Nat /\ k <= m /\ m < k
  <2> HIDE DEF K
  <2> QED
    BY Zenon, <1>2, <1>3, <1>6, <1>9
<1> QED
  BY <1>10

(* Orderable, in the terms of topoSort.                                    *)
LEMMA OrderableFacts ==
  ASSUME NEW jobs
  PROVE  Orderable(jobs) <=> ~Unfit(jobs) /\ ~Cyclic(jobs)
<1>1. (\A S \in (SUBSET DOMAIN jobs) \ {{}} : \E i \in S : \A j \in S : jobs[j].id \notin Range(jobs[i].needs))
        <=> ~Cyclic(jobs)
  <2>1. \A S : S \in (SUBSET DOMAIN jobs) \ {{}} <=> S \in SUBSET DOMAIN jobs /\ S # {}
    BY Zenon
  <2> QED
    BY Zenon, <2>1 DEF Cyclic
<1>2. Unfit(jobs) <=> ~(/\ \A i, j \in DOMAIN jobs : jobs[i].id = jobs[j].id => i = j
                        /\ \A i \in DOMAIN jobs : Range(jobs[i].needs) \subseteq IDs(jobs))
  BY Zenon DEF Unfit
<1> QED
  BY Zenon, <1>1, <1>2 DEF Orderable

(* topoSort succeeds exactly for jobs with distinct IDs, known needs and   *)
(* no cycle, and then returns each job once, after the jobs it needs, for  *)
(* any number of jobs (compiler.go, topoSort).                             *)
THEOREM TopoSort ==
  ASSUME NEW jobs, IsJobs(jobs)
  PROVE  /\ topoSort(jobs)[1] \in BOOLEAN
         /\ topoSort(jobs)[1] <=> Orderable(jobs)
         /\ topoSort(jobs)[1] => Sorted(jobs, topoSort(jobs)[2])
<1>1. CASE Unfit(jobs)
  <2>1. topoSort(jobs) = Failed
    BY Zenon, <1>1 DEF topoSort
  <2> QED
    <3>1. ~Orderable(jobs)
      BY Zenon, <1>1, OrderableFacts
    <3>2. topoSort(jobs)[1] = FALSE
      BY <2>1 DEF Failed
    <3> QED
      BY Zenon, <3>1, <3>2
<1>2. CASE ~Unfit(jobs)
  <2> DEFINE n == Len(jobs)
             call == visit(jobs)[n + 1]
             ids == [i \in DOMAIN jobs |-> jobs[i].id]
             start == [state |-> [id \in IDs(jobs) |-> 0], out |-> <<>>, ok |-> TRUE]
             walk == visitAll(call, ids, start)
  <2>1. topoSort(jobs) = IF ~walk.ok THEN Failed ELSE <<TRUE, walk.out>>
    BY Zenon, <1>2 DEF topoSort
  <2>2. Sortable(jobs)
    BY Zenon, <1>2 DEF Sortable
  <2>3. n \in Nat /\ DOMAIN jobs = 1 .. n /\ \A i \in 1 .. n : jobs[i] \in Range(jobs)
    BY Zenon, SeqFacts DEF IsJobs
  <2>4. ids \in Seq(IDs(jobs)) /\ Len(ids) = n /\ \A i \in 1 .. n : ids[i] = jobs[i].id
    <3>1. \A i \in 1 .. n : jobs[i].id \in IDs(jobs)
      BY Zenon, <2>3 DEF IDs
    <3>2. ids = [i \in 1 .. n |-> jobs[i].id]
      BY Zenon, <2>3
    <3> QED
      BY <2>3, <3>1, <3>2
  <2>5. start \in Walks(jobs) /\ start.ok /\ start.out = <<>> /\ \A x \in IDs(jobs) : start.state[x] = 0
    <3>1. 0 \in 0 .. 2 /\ <<>> \in Seq(Range(jobs))
      OBVIOUS
    <3> QED
      BY Zenon, <3>1 DEF Walks
  <2> HIDE DEF start, ids
  <2>6. Good(start, jobs)
    <3>1. Len(start.out) = 0 /\ \A k \in 1 .. 0 : FALSE
      BY <2>5
    <3>2. InOrder(start.out)
      BY Zenon, <3>1 DEF InOrder
    <3>3. \A x \in IDs(jobs) : start.state[x] = 2 <=> \E k \in 1 .. Len(start.out) : start.out[k].id = x
      BY <2>5, <3>1
    <3> QED
      BY Zenon, <2>5, <3>2, <3>3 DEF Good
  <2>7. Few(Unvisited(start, jobs), n)
    <3>1. \A x \in Unvisited(start, jobs) : x \in {ids[k] : k \in 1 .. n}
      BY Zenon, <2>3, <2>4 DEF Unvisited, IDs
    <3> QED
      BY Zenon, <3>1 DEF Few
  <2>8. \A k \in 1 .. Len(ids) : Chain(start, ids[k], jobs)
    BY <2>5 DEF Chain
  <2>9. Visits(call, n, jobs)
    BY Zenon, <2>2, <2>3, VisitGood
  <2> HIDE DEF call, n
  <2>10. PICK v : v = walk
    BY Zenon
  <2>11. OutcomeAll(v, start, ids, jobs)
    BY Zenon, <2>2, <2>3, <2>4, <2>5, <2>6, <2>7, <2>8, <2>9, <2>10, VisitsAll
  <2> HIDE DEF walk
  <2>12. v \in Walks(jobs)
    BY Zenon, <2>11 DEF OutcomeAll
  <2>13. v.ok \in BOOLEAN /\ v.out \in Seq(Range(jobs))
    BY Zenon, <2>12, WalkFacts
  <2>14. CASE v.ok
    <3>1. Good(v, jobs) /\ \A k \in 1 .. n : v.state[ids[k]] = 2
      BY Zenon, <2>4, <2>11, <2>14 DEF OutcomeAll
    <3>2. PICK o \in Seq(Range(jobs)) : o = v.out
      BY Zenon, <2>13
    <3>3. ASSUME NEW i \in DOMAIN jobs PROVE \E k \in 1 .. Len(o) : o[k] = jobs[i]
      <4>1. jobs[i].id \in IDs(jobs) /\ v.state[jobs[i].id] = 2
        BY Zenon, <2>3, <2>4, <3>1 DEF IDs
      <4>2. PICK k \in 1 .. Len(o) : o[k].id = jobs[i].id
        BY Zenon, <3>1, <3>2, <4>1 DEF Good
      <4>3. PICK h \in DOMAIN jobs : o[k] = jobs[h]
        BY <3>2, <4>2 DEF Range
      <4>4. h = i
        BY Zenon, <1>2, <4>2, <4>3 DEF Unfit
      <4> QED
        BY Zenon, <4>3, <4>4
    <3>4. Sorted(jobs, o)
      BY Zenon, <3>1, <3>2, <3>3 DEF Sorted, Good
    <3>5. topoSort(jobs) = <<TRUE, o>>
      BY Zenon, <2>1, <2>10, <2>14, <3>2
    <3> QED
      BY <1>2, <2>2, <3>4, <3>5, SortedOrderable, OrderableFacts
  <2>15. CASE ~v.ok
    <3>1. topoSort(jobs) = Failed /\ Cyclic(jobs)
      BY Zenon, <2>1, <2>10, <2>11, <2>15 DEF OutcomeAll
    <3>2. ~Failed[1] /\ Failed[1] \in BOOLEAN
      BY Zenon DEF Failed
    <3> QED
      BY Zenon, <3>1, <3>2, OrderableFacts
  <2> QED
    BY Zenon, <2>14, <2>15
<1> QED
  BY Zenon, <1>1, <1>2

(* A function on 1 .. N is a sequence.                                     *)
LEMMA FunctionSeq ==
  ASSUME NEW N \in Nat, NEW f, f = [i \in 1 .. N |-> f[i]]
  PROVE  IsSeq(f) /\ Len(f) = N /\ DOMAIN f = 1 .. N
<1>1. DOMAIN f = 1 .. N
  BY Zenon
<1>2. PICK T : T = {f[i] : i \in 1 .. N}
  BY Zenon
<1>3. f \in [1 .. N -> T]
  BY Zenon, <1>2
<1>4. f \in Seq(T) /\ Len(f) = N
  BY <1>3
<1>5. Range(f) = T
  BY Zenon, <1>1, <1>2 DEF Range
<1> QED
  BY Zenon, <1>1, <1>4, <1>5 DEF IsSeq

(* A sequence of sequences, one after the other.                           *)
LEMMA Flattened ==
  ASSUME NEW seqs, IsSeq(seqs), \A i \in DOMAIN seqs : IsSeq(seqs[i])
  PROVE  /\ IsSeq(FlattenSeq(seqs))
         /\ \E at : Places(FlattenSeq(seqs), seqs, Len(seqs), at)
         /\ Range(FlattenSeq(seqs)) = UNION {Range(seqs[i]) : i \in DOMAIN seqs}
<1> DEFINE S == UNION {Range(seqs[i]) : i \in DOMAIN seqs}
<1>1. PICK n \in Nat : n = Len(seqs) /\ DOMAIN seqs = 1 .. n
  BY Zenon, SeqFacts
<1>2. ASSUME NEW i \in 1 .. n PROVE seqs[i] \in Seq(S)
  <2>1. PICK t, T : t = seqs[i] /\ T = Range(t)
    BY Zenon
  <2>2. t \in Seq(T)
    BY Zenon, <1>1, <2>1 DEF IsSeq
  <2>3. T \subseteq S
    BY Zenon, <1>1, <2>1
  <2> HIDE DEF S
  <2> QED
    BY <2>1, <2>2, <2>3
<1>3. seqs \in Seq(Seq(S))
  <2> HIDE DEF S
  <2>1. PICK T : seqs \in Seq(T)
    BY Zenon DEF IsSeq
  <2> QED
    BY <1>1, <1>2, <2>1
<1>4. PICK out, at : out = FlattenSeq(seqs) /\ out \in Seq(S) /\ Places(out, seqs, n, at)
  <2> HIDE DEF S
  <2> QED
    BY Zenon, <1>1, <1>3, Flatten
<1>5. PICK m \in Nat : m = Len(out) /\ DOMAIN out = 1 .. m
  <2> HIDE DEF S
  <2> QED
    BY <1>4
<1>6. \A p \in 1 .. m : out[p] \in S
  <2> HIDE DEF S
  <2> QED
    BY <1>4, <1>5
<1>7. ASSUME NEW x \in S PROVE \E p \in 1 .. m : out[p] = x
  <2>1. PICK i \in 1 .. n : x \in Range(seqs[i])
    BY Zenon, <1>1
  <2>2. PICK j \in 1 .. Len(seqs[i]) : seqs[i][j] = x
    <3>1. DOMAIN seqs[i] = 1 .. Len(seqs[i])
      BY Zenon, <1>1, SeqFacts
    <3> QED
      BY Zenon, <2>1, <3>1 DEF Range
  <2>3. PICK p \in 1 .. m : at[p] = <<i, j>>
    BY Zenon, <1>4, <1>5 DEF Places
  <2>4. out[p] = seqs[at[p][1]][at[p][2]]
    BY Zenon, <1>4, <1>5 DEF Places
  <2> QED
    BY <2>2, <2>3, <2>4
<1>8. Range(out) = S
  <2> HIDE DEF S
  <2> QED
    BY Zenon, <1>5, <1>6, <1>7 DEF Range
<1>9. IsSeq(out)
  BY Zenon, <1>4, <1>8 DEF IsSeq
<1> QED
  BY Zenon, <1>1, <1>4, <1>8, <1>9

-----------------------------------------------------------------------------
(***************************************************************************)
(* expandMatrix: the combinations are the choices of one value per axis.   *)
(***************************************************************************)
LEMMA AxesFacts ==
  ASSUME NEW job
  PROVE  /\ Axes(job) \in Seq(DOMAIN job.matrix)
         /\ \A p, q \in 1 .. Len(Axes(job)) : Axes(job)[p] = Axes(job)[q] => p = q
<1> DEFINE D == DOMAIN job.matrix
           seqs == [i \in DOMAIN AxisOrder |-> IF AxisOrder[i] \in D THEN <<AxisOrder[i]>> ELSE <<>>]
<1>1. PICK n \in Nat : n = Len(AxisOrder) /\ DOMAIN AxisOrder = 1 .. n
  BY Zenon, CompilerAssumption, SeqFacts DEF IsSeq
<1>2. \A i, h \in 1 .. n : AxisOrder[i] = AxisOrder[h] => i = h
  BY Zenon, <1>1, CompilerAssumption
<1>3. PICK ax : ax = AxisOrder
  BY Zenon
<1>4. seqs = [i \in 1 .. n |-> IF ax[i] \in D THEN <<ax[i]>> ELSE <<>>]
  BY Zenon, <1>1, <1>3
<1>5. Axes(job) = FlattenSeq(seqs)
  BY Zenon DEF Axes
<1> HIDE DEF seqs, D
<1>6. \A i \in 1 .. n : seqs[i] \in Seq(D)
  BY <1>4
<1>7. seqs \in Seq(Seq(D)) /\ Len(seqs) = n
  BY <1>4, <1>6
<1>8. PICK out, at : out = Axes(job) /\ out \in Seq(D) /\ Places(out, seqs, n, at)
  BY Zenon, <1>5, <1>7, Flatten
<1>9. ASSUME NEW p \in 1 .. Len(out)
      PROVE  at[p][1] \in 1 .. n /\ at[p][2] = 1 /\ out[p] = ax[at[p][1]]
  <2>1. PICK i, j : i = at[p][1] /\ j = at[p][2]
    BY Zenon
  <2>2. i \in 1 .. n /\ j \in 1 .. Len(seqs[i]) /\ out[p] = seqs[i][j]
    BY Zenon, <1>8, <2>1 DEF Places
  <2>3. seqs[i] = IF ax[i] \in D THEN <<ax[i]>> ELSE <<>>
    BY Zenon, <1>4, <2>2
  <2>4. CASE ax[i] \in D
    <3>1. seqs[i] = <<ax[i]>> /\ Len(<<ax[i]>>) = 1 /\ <<ax[i]>>[1] = ax[i]
      BY Zenon, <2>3, <2>4
    <3> QED
      BY <2>1, <2>2, <3>1
  <2>5. CASE ax[i] \notin D
    <3>1. seqs[i] = <<>> /\ Len(<<>>) = 0
      BY Zenon, <2>3, <2>5
    <3> QED
      BY <2>2, <3>1
  <2> QED
    BY Zenon, <2>4, <2>5
<1>10. ASSUME NEW p \in 1 .. Len(out), NEW q \in 1 .. Len(out), out[p] = out[q], p < q PROVE FALSE
  <2>1. Before(at[p], at[q])
    BY Zenon, <1>8, <1>10 DEF Places
  <2>2. at[p][1] = at[q][1]
    BY <1>2, <1>3, <1>9, <1>10
  <2> QED
    BY <1>9, <2>1, <2>2 DEF Before
<1>11. \A p, q \in 1 .. Len(out) : out[p] = out[q] => p = q
  <2>1. \A p, q \in 1 .. Len(out) : p = q \/ p < q \/ q < p
    OBVIOUS
  <2> QED
    BY Zenon, <1>10, <2>1
<1> QED
  BY Zenon, <1>8, <1>11 DEF D

Grow(prev, vals) == FlattenSeq([i \in DOMAIN prev |-> [v \in DOMAIN vals |-> Append(prev[i], vals[v])]])

(* The combinations grown by an axis are those with a value of it behind.  *)
LEMMA GrowFacts ==
  ASSUME NEW S, NEW prev \in Seq(Seq(S)), NEW vals \in Seq(S)
  PROVE  /\ Grow(prev, vals) \in Seq(Seq(S))
         /\ \A y : y \in Range(Grow(prev, vals)) <=> \E t \in Range(prev), x \in Range(vals) : y = Append(t, x)
<1> DEFINE seqs == [i \in DOMAIN prev |-> [v \in DOMAIN vals |-> Append(prev[i], vals[v])]]
           Q == Seq(S)
<1>1. PICK n \in Nat, m \in Nat : n = Len(prev) /\ m = Len(vals) /\ DOMAIN prev = 1 .. n /\ DOMAIN vals = 1 .. m
  OBVIOUS
<1>2. /\ DOMAIN seqs = 1 .. n
      /\ \A i \in 1 .. n : seqs[i] = [v \in 1 .. m |-> Append(prev[i], vals[v])]
  BY Zenon, <1>1
<1>3. \A i \in 1 .. n, v \in 1 .. m : Append(prev[i], vals[v]) \in Q
  BY <1>1
<1>4. ASSUME NEW i \in 1 .. n PROVE seqs[i] \in Seq(Q) /\ DOMAIN seqs[i] = 1 .. m
  <2>1. PICK g : g = seqs[i] /\ g = [v \in 1 .. m |-> Append(prev[i], vals[v])]
    BY Zenon, <1>2
  <2> HIDE DEF seqs, Q
  <2>2. g \in [1 .. m -> Q]
    BY Zenon, <1>3, <2>1
  <2> QED
    BY <2>1, <2>2
<1>5. seqs \in Seq(Seq(Q))
  <2>1. PICK R : R = Seq(Q)
    BY Zenon
  <2>2. seqs = [i \in 1 .. n |-> seqs[i]]
    BY Zenon, <1>1
  <2> HIDE DEF seqs, Q
  <2>3. \A i \in 1 .. n : seqs[i] \in R
    BY Zenon, <1>4, <2>1
  <2>4. seqs \in [1 .. n -> R]
    BY Zenon, <2>2, <2>3
  <2>5. seqs \in Seq(R)
    BY <2>4
  <2> QED
    BY Zenon, <2>1, <2>5
<1>6. Grow(prev, vals) = FlattenSeq(seqs)
  BY Zenon DEF Grow
<1> HIDE DEF seqs, Q
<1>7. Grow(prev, vals) \in Seq(Q)
  BY Zenon, <1>5, <1>6, Flatten
<1>8. IsSeq(seqs) /\ \A i \in DOMAIN seqs : IsSeq(seqs[i])
  <2>1. seqs = [i \in 1 .. n |-> seqs[i]]
    BY <1>5, <1>2
  <2>2. \A i \in 1 .. n : seqs[i] = [v \in 1 .. m |-> seqs[i][v]]
    BY Zenon, <1>2, <1>4
  <2> QED
    BY Zenon, <1>2, <2>1, <2>2, FunctionSeq
<1>9. Range(Grow(prev, vals)) = UNION {Range(seqs[i]) : i \in DOMAIN seqs}
  BY Zenon, <1>6, <1>8, Flattened
<1>10. ASSUME NEW i \in 1 .. n PROVE Range(seqs[i]) = {Append(prev[i], vals[v]) : v \in 1 .. m}
  <2>1. DOMAIN seqs[i] = 1 .. m /\ \A v \in 1 .. m : seqs[i][v] = Append(prev[i], vals[v])
    BY Zenon, <1>2, <1>4
  <2> QED
    BY Zenon, <2>1 DEF Range
<1>11. Range(prev) = {prev[i] : i \in 1 .. n} /\ Range(vals) = {vals[v] : v \in 1 .. m}
  BY Zenon, <1>1 DEF Range
<1>12. \A y : (\E i \in 1 .. n : y \in Range(seqs[i])) <=> \E t \in Range(prev),
         x \in Range(vals) : y = Append(t, x)
  <2>1. ASSUME NEW y, NEW i \in 1 .. n, y \in Range(seqs[i])
        PROVE  \E t \in Range(prev), x \in Range(vals) : y = Append(t, x)
    <3>1. PICK v \in 1 .. m : y = Append(prev[i], vals[v])
      BY Zenon, <1>10, <2>1
    <3>2. prev[i] \in Range(prev) /\ vals[v] \in Range(vals)
      BY Zenon, <1>11
    <3> QED
      BY Zenon, <3>1, <3>2
  <2>2. ASSUME NEW t \in Range(prev), NEW x \in Range(vals)
        PROVE  \E i \in 1 .. n : Append(t, x) \in Range(seqs[i])
    <3>1. PICK i \in 1 .. n, v \in 1 .. m : t = prev[i] /\ x = vals[v]
      BY Zenon, <1>11
    <3>2. Append(t, x) \in {Append(prev[i], vals[w]) : w \in 1 .. m}
      BY Zenon, <3>1
    <3> QED
      BY Zenon, <1>10, <3>2
  <2> QED
    BY Zenon, <2>1, <2>2
<1>13. Grow(prev, vals) \in Seq(Seq(S))
  BY Zenon, <1>7 DEF Q
<1>14. \A y : y \in Range(Grow(prev, vals)) <=> \E i \in 1 .. n : y \in Range(seqs[i])
  BY Zenon, <1>2, <1>9
<1> QED
  BY Zenon, <1>12, <1>13, <1>14

Combining(f, job, A, S) ==
  /\ f[0] = <<<<>>>>
  /\ \A k \in 0 .. Len(A) : f[k] \in Seq(Seq(S))
  /\ \A k \in 1 .. Len(A) : f[k] = Grow(f[k - 1], job.matrix[A[k]])
  /\ Combos(job) = f[Len(A)]

(* The combinations are grown axis by axis.                                *)
LEMMA CombosRun ==
  ASSUME NEW job, IsJob(job), NEW A, A = Axes(job), NEW S,
           S = UNION {Range(job.matrix[a]) : a \in DOMAIN job.matrix}
  PROVE  \E f : Combining(f, job, A, S)
<1> DEFINE V == Seq(Seq(S))
           N == Len(A)
           b == <<<<>>>>
           G == [c \in Nat \X V |-> IF c[1] \in 1 .. N THEN Grow(c[2], job.matrix[A[c[1]]]) ELSE c[2]]
           Eq(f) == f = [k \in 0 .. N |-> IF k = 0 THEN <<<<>>>> ELSE Grow(f[k - 1], job.matrix[A[k]])]
<1>1. A \in Seq(DOMAIN job.matrix) /\ N \in Nat /\ \A k \in 1 .. N : A[k] \in DOMAIN job.matrix
  BY AxesFacts
<1>2. ASSUME NEW k \in 1 .. N PROVE job.matrix[A[k]] \in Seq(S)
  <2>1. PICK a \in DOMAIN job.matrix : a = A[k]
    BY Zenon, <1>1
  <2>2. PICK t, T : t = job.matrix[a] /\ T = Range(t)
    BY Zenon
  <2>3. t \in Seq(T)
    BY Zenon, <2>2 DEF IsJob, IsSeq
  <2>4. T \subseteq S
    BY Zenon, <2>2
  <2>5. t \in Seq(S)
    BY <2>3, <2>4
  <2> QED
    BY Zenon, <2>1, <2>2, <2>5
<1>3. b \in V
  OBVIOUS
<1>4. Stepper(G, V)
  <2>1. ASSUME NEW c \in Nat \X V PROVE G[c] \in V
    <3>1. c[2] \in V
      BY Zenon
    <3>2. CASE c[1] \notin 1 .. N
      <4> HIDE DEF V, N
      <4> QED
        BY Zenon, <3>1, <3>2
    <3>3. CASE c[1] \in 1 .. N
      <4>1. Grow(c[2], job.matrix[A[c[1]]]) \in V
        BY Zenon, <1>2, <3>1, <3>3, GrowFacts
      <4> HIDE DEF V, N
      <4> QED
        BY Zenon, <3>3, <4>1
    <3> QED
      BY Zenon, <3>2, <3>3
  <2> HIDE DEF V, N
  <2> QED
    BY Zenon, <2>1 DEF Stepper
<1>5. PICK g : Iterates(g, b, G, V)
  <2> HIDE DEF V, G, b
  <2> QED
    BY Zenon, <1>3, <1>4, Iteration
<1>6. ASSUME NEW k \in 1 .. N PROVE g[k] = Grow(g[k - 1], job.matrix[A[k]])
  <2>1. k - 1 \in Nat /\ (k - 1) + 1 = k /\ k \in Nat
    OBVIOUS
  <2>2. g[k] = G[<<k, g[k - 1]>>] /\ g[k - 1] \in V
    <3> HIDE DEF G, V, b
    <3> QED
      BY Zenon, <1>5, <2>1 DEF Iterates
  <2>3. <<k, g[k - 1]>> \in Nat \X V
    <3> HIDE DEF V
    <3> QED
      BY Zenon, <2>1, <2>2
  <2>4. G[<<k, g[k - 1]>>] = Grow(g[k - 1], job.matrix[A[k]])
    <3> HIDE DEF V, N
    <3> QED
      BY Zenon, <2>3
  <2> HIDE DEF G, V
  <2> QED
    BY Zenon, <2>2, <2>4
<1>7. g[0] = b
  <2> HIDE DEF G, V, b
  <2> QED
    BY Zenon, <1>5 DEF Iterates
<1> DEFINE f == [k \in 0 .. N |-> g[k]]
<1>8. Eq(f)
  <2>1. ASSUME NEW k \in 0 .. N, k # 0 PROVE k \in 1 .. N /\ k - 1 \in 0 .. N
    BY <1>1, <2>1
  <2>2. \A k \in 0 .. N : f[k] = IF k = 0 THEN <<<<>>>> ELSE Grow(f[k - 1], job.matrix[A[k]])
    <3> HIDE DEF N
    <3> QED
      BY Zenon, <1>6, <1>7, <2>1
  <2> HIDE DEF N
  <2> QED
    BY Zenon, <2>2
<1> DEFINE h == CHOOSE h : Eq(h)
<1>9. Eq(h)
  <2>1. \E x : Eq(x)
    BY Zenon, <1>8
  <2> HIDE DEF Eq
  <2> QED
    BY Zenon, <2>1
<1>10. Combos(job) = h[N]
  BY DEF Combos, Grow
<1>11. h[0] = b
  <2>1. 0 \in 0 .. N
    BY <1>1
  <2> HIDE DEF N, h
  <2> QED
    BY Zenon, <1>9, <2>1
<1>12. ASSUME NEW k \in 1 .. N PROVE h[k] = Grow(h[k - 1], job.matrix[A[k]])
  <2>1. k \in 0 .. N /\ k # 0
    BY <1>1
  <2> HIDE DEF N, h
  <2> QED
    BY Zenon, <1>9, <2>1
<1> DEFINE T == {k \in Nat : k \in 0 .. N => h[k] \in V}
<1> HIDE DEF h
<1>13. 0 \in T
  BY Zenon, <1>3, <1>11
<1>14. ASSUME NEW k \in Nat, k \in T PROVE k + 1 \in T
  <2> SUFFICES ASSUME k + 1 \in 0 .. N PROVE h[k + 1] \in V
    OBVIOUS
  <2>1. k + 1 \in 1 .. N /\ k \in 0 .. N /\ (k + 1) - 1 = k
    BY <1>1
  <2>2. h[k] \in V
    BY Zenon, <1>14, <2>1
  <2>3. Grow(h[k], job.matrix[A[k + 1]]) \in V
    BY Zenon, <1>2, <2>1, <2>2, GrowFacts
  <2> HIDE DEF V, N
  <2> QED
    BY Zenon, <1>12, <2>1, <2>3
<1>15. Nat \subseteq T
  <2> HIDE DEF T
  <2> QED
    BY Zenon, <1>13, <1>14, NatSet
<1>16. \A k \in 0 .. N : h[k] \in V
  <2>1. \A k \in 0 .. N : k \in Nat
    BY <1>1
  <2> HIDE DEF V, N
  <2> QED
    BY Zenon, <1>15, <2>1
<1> QED
  BY Zenon, <1>10, <1>11, <1>12, <1>16 DEF Combining

Chosen(m, A, c, k) == [n \in 1 .. k |-> m[A[n]][c[A[n]]]]

(* The combinations are the choices of one value for each axis.            *)
LEMMA CombosAll ==
  ASSUME NEW job, IsJob(job), \A a \in DOMAIN job.matrix : job.matrix[a] # <<>>, NEW A, A = Axes(job)
  PROVE  /\ IsSeq(Combos(job))
         /\ \A y : y \in Range(Combos(job)) <=> \E c \in Selections(job) : y = Chosen(job.matrix, A, c, Len(A))
<1> DEFINE m == job.matrix
           D == DOMAIN m
           N == Len(A)
           S == UNION {Range(m[a]) : a \in D}
           C == Selections(job)
<1>1. A \in Seq(D) /\ N \in Nat /\ \A p, q \in 1 .. N : A[p] = A[q] => p = q
  BY AxesFacts
<1>2. \A k \in 1 .. N : A[k] \in D
  BY <1>1
<1>3. PICK f : /\ f[0] = <<<<>>>>
               /\ \A k \in 0 .. N : f[k] \in Seq(Seq(S))
               /\ \A k \in 1 .. N : f[k] = Grow(f[k - 1], m[A[k]])
               /\ Combos(job) = f[N]
  <2>1. PICK f : Combining(f, job, A, S)
    BY Zenon, CombosRun
  <2> QED
    BY Zenon, <2>1 DEF Combining
<1>4. ASSUME NEW a \in D
      PROVE  /\ m[a] \in Seq(S) /\ DOMAIN m[a] = 1 .. Len(m[a]) /\ 1 \in DOMAIN m[a]
             /\ Range(m[a]) = {m[a][v] : v \in DOMAIN m[a]}
  <2>1. PICK t, T : t = m[a] /\ T = Range(t)
    BY Zenon
  <2>2. t \in Seq(T) /\ t # <<>>
    BY Zenon, <2>1 DEF IsJob, IsSeq
  <2>3. T \subseteq S
    BY Zenon, <2>1
  <2> HIDE DEF S
  <2>4. t \in Seq(S) /\ DOMAIN t = 1 .. Len(t) /\ 1 \in DOMAIN t
    BY <2>2, <2>3
  <2>5. Range(t) = {t[v] : v \in DOMAIN t}
    BY Zenon DEF Range
  <2> QED
    BY Zenon, <2>1, <2>4, <2>5
<1>5. \A c : c \in C <=> /\ c \in [D -> UNION {DOMAIN m[a] : a \in D}]
                         /\ \A a \in D : c[a] \in DOMAIN m[a]
  BY Zenon DEF Selections
<1>6. PICK c0 \in C : TRUE
  <2>1. PICK U : U = UNION {DOMAIN m[a] : a \in D}
    BY Zenon
  <2>2. \A a \in D : 1 \in DOMAIN m[a] /\ 1 \in U
    BY Zenon, <1>4, <2>1
  <2>3. PICK c : c = [a \in D |-> 1]
    BY Zenon
  <2> HIDE DEF C, D, m
  <2>4. c \in [D -> U] /\ \A a \in D : c[a] \in DOMAIN m[a]
    BY Zenon, <2>2, <2>3
  <2>5. c \in C
    BY Zenon, <1>5, <2>1, <2>4
  <2> QED
    BY Zenon, <2>5
<1> DEFINE T == {k \in Nat : k \in 0 .. N => \A y : y \in Range(f[k]) <=> \E c \in C : y = Chosen(m, A, c, k)}
<1> HIDE DEF S, C, D, m, N
<1>7. 0 \in T
  <2>1. Range(f[0]) = {<<>>}
    BY <1>3 DEF Range
  <2>2. \A c \in C : Chosen(m, A, c, 0) = <<>>
    BY DEF Chosen
  <2> QED
    BY Zenon, <1>6, <2>1, <2>2
<1>8. ASSUME NEW k \in Nat, k \in T PROVE k + 1 \in T
  <2> SUFFICES ASSUME k + 1 \in 0 .. N
               PROVE  \A y : y \in Range(f[k + 1]) <=> \E c \in C : y = Chosen(m, A, c, k + 1)
    OBVIOUS
  <2>1. k + 1 \in 1 .. N /\ k \in 0 .. N /\ (k + 1) - 1 = k /\ \A n \in 1 .. k : n \in 1 .. N /\ n # k + 1
    BY <1>1
  <2>2. \A y : y \in Range(f[k]) <=> \E c \in C : y = Chosen(m, A, c, k)
    BY Zenon, <1>8, <2>1
  <2>3. PICK a \in D : a = A[k + 1]
    BY <1>2, <2>1
  <2>4. f[k + 1] = Grow(f[k], m[a]) /\ f[k] \in Seq(Seq(S)) /\ m[a] \in Seq(S)
    BY Zenon, <1>3, <1>4, <2>1, <2>3
  <2>5. \A y : y \in Range(f[k + 1]) <=> \E t \in Range(f[k]), x \in Range(m[a]) : y = Append(t, x)
    BY <2>4, GrowFacts
  <2>6. ASSUME NEW c \in C PROVE Chosen(m, A, c, k + 1) = Append(Chosen(m, A, c, k), m[a][c[a]])
    <3> DEFINE E(n) == m[A[n]][c[A[n]]]
    <3>1. PICK s : s = Chosen(m, A, c, k) /\ s = [n \in 1 .. k |-> E(n)]
      BY Zenon DEF Chosen
    <3>2. Chosen(m, A, c, k + 1) = [n \in 1 .. k + 1 |-> E(n)] /\ E(k + 1) = m[a][c[a]]
      BY Zenon, <2>3 DEF Chosen
    <3> HIDE DEF E
    <3>3. s \in Seq({E(n) : n \in 1 .. k}) /\ Len(s) = k
      BY <3>1
    <3>4. Append(s, m[a][c[a]]) = [n \in 1 .. k + 1 |-> E(n)]
      BY <3>1, <3>2, <3>3
    <3> QED
      BY Zenon, <3>1, <3>2, <3>4
  <2>7. ASSUME NEW c \in C PROVE m[a][c[a]] \in Range(m[a])
    <3>1. c[a] \in DOMAIN m[a]
      BY Zenon, <1>5
    <3>2. Range(m[a]) = {m[a][v] : v \in DOMAIN m[a]}
      BY Zenon, <1>4
    <3> QED
      BY Zenon, <3>1, <3>2
  <2>8. ASSUME NEW c \in C, NEW x \in Range(m[a])
        PROVE  \E d \in C : Append(Chosen(m, A, c, k), x) = Chosen(m, A, d, k + 1)
    <3>1. PICK v \in DOMAIN m[a] : x = m[a][v]
      BY Zenon, <1>4
    <3>2. PICK d : d = [c EXCEPT ![a] = v]
      BY Zenon
    <3>3. c \in [D -> UNION {DOMAIN m[e] : e \in D}] /\ \A e \in D : c[e] \in DOMAIN m[e]
      BY Zenon, <1>5
    <3>4. d \in [D -> UNION {DOMAIN m[e] : e \in D}] /\ d[a] = v /\ \A e \in D : e # a => d[e] = c[e]
      BY Zenon, <3>1, <3>2, <3>3
    <3>5. d \in C
      BY Zenon, <1>5, <3>1, <3>3, <3>4
    <3>6. \A n \in 1 .. k : A[n] \in D /\ A[n] # a
      BY Zenon, <1>1, <1>2, <2>1, <2>3
    <3>7. Chosen(m, A, d, k) = Chosen(m, A, c, k)
      BY Zenon, <3>4, <3>6 DEF Chosen
    <3> QED
      BY Zenon, <2>6, <3>1, <3>4, <3>5, <3>7
  <2>9. ASSUME NEW y, y \in Range(f[k + 1]) PROVE \E c \in C : y = Chosen(m, A, c, k + 1)
    <3>1. PICK t \in Range(f[k]), x \in Range(m[a]) : y = Append(t, x)
      BY Zenon, <2>5, <2>9
    <3>2. PICK c \in C : t = Chosen(m, A, c, k)
      BY Zenon, <2>2
    <3> QED
      BY Zenon, <2>8, <3>1, <3>2
  <2>10. ASSUME NEW c \in C PROVE Chosen(m, A, c, k + 1) \in Range(f[k + 1])
    BY Zenon, <2>2, <2>5, <2>6, <2>7
  <2> QED
    BY Zenon, <2>9, <2>10
<1>9. Nat \subseteq T
  <2> HIDE DEF T
  <2> QED
    BY Zenon, <1>7, <1>8, NatSet
<1>10. \A y : y \in Range(f[N]) <=> \E c \in C : y = Chosen(m, A, c, N)
  <2>1. N \in 0 .. N /\ N \in Nat
    <3> HIDE DEF T
    <3> QED
      BY <1>1
  <2>2. N \in T
    BY Zenon, <1>9, <2>1
  <2> QED
    BY Zenon, <2>1, <2>2
<1>11. IsSeq(f[N])
  <2>1. PICK s, Q : s = f[N] /\ Q = Seq(S) /\ s \in Seq(Q)
    BY <1>1, <1>3
  <2>2. s \in Seq(Range(s))
    BY <2>1 DEF Range
  <2> QED
    BY Zenon, <2>1, <2>2 DEF IsSeq
<1> QED
  BY Zenon, <1>3, <1>10, <1>11 DEF C, D, m, N

(***************************************************************************)
(* The instances of a job: one for each choice of matrix values.           *)
(***************************************************************************)
Expands(job, insts) ==
  /\ IsSeq(insts)
  /\ \A i \in DOMAIN insts :
       /\ insts[i].key[1] = job.id /\ IsSeq(insts[i].steps)
       /\ DOMAIN insts[i].needs = DOMAIN job.needs
       /\ \A n \in DOMAIN job.needs : insts[i].needs[n][1] = job.needs[n]
  /\ \A y : (\E i \in DOMAIN insts : insts[i].key = y) <=> \E c \in Selections(job) : y = KeyOf(job, c)

(* The parts of an instance.                                               *)
LEMMA InstanceFacts ==
  ASSUME NEW job, NEW steps, NEW values, NEW inst, inst = Instance(job, steps, values)
  PROVE  /\ inst.key = <<job.id, values>> /\ inst.key[1] = job.id /\ inst.steps = steps
         /\ DOMAIN inst.needs = DOMAIN job.needs
         /\ \A n \in DOMAIN job.needs : inst.needs[n][1] = job.needs[n]
BY Zenon DEF Instance

(* A job has an instance for each choice.                                  *)
LEMMA ExpandMatrix ==
  ASSUME NEW job, IsJob(job), \A a \in DOMAIN job.matrix : job.matrix[a] # <<>>, NEW steps, IsSeq(steps),
         NEW insts, insts = [i \in DOMAIN Combos(job) |-> Instance(job, steps, Combos(job)[i])]
  PROVE  Expands(job, insts)
<1>1. PICK A, combos : A = Axes(job) /\ combos = Combos(job)
  BY Zenon
<1>2. /\ IsSeq(combos)
      /\ \A y : y \in Range(combos) <=> \E c \in Selections(job) : y = Chosen(job.matrix, A, c, Len(A))
  BY <1>1, CombosAll
<1>3. PICK n \in Nat : n = Len(combos) /\ DOMAIN combos = 1 .. n
  BY Zenon, <1>2, SeqFacts
<1>4. DOMAIN insts = 1 .. n /\ \A i \in 1 .. n : insts[i] = Instance(job, steps, combos[i])
  BY Zenon, <1>1, <1>3
<1>5. IsSeq(insts)
  <2>1. insts = [i \in 1 .. n |-> insts[i]]
    BY Zenon, <1>1, <1>3
  <2> QED
    BY Zenon, <2>1, FunctionSeq
<1>6. \A i \in 1 .. n : /\ insts[i].key = <<job.id, combos[i]>> /\ insts[i].key[1] = job.id
                           /\ insts[i].steps = steps
                        /\ DOMAIN insts[i].needs = DOMAIN job.needs
                        /\ \A h \in DOMAIN job.needs : insts[i].needs[h][1] = job.needs[h]
  BY <1>4, InstanceFacts
<1>7. \A c : KeyOf(job, c) = <<job.id, Chosen(job.matrix, A, c, Len(A))>>
  <2>1. A \in Seq(DOMAIN job.matrix)
    BY Zenon, <1>1, AxesFacts
  <2>2. DOMAIN A = 1 .. Len(A)
    BY <2>1
  <2> QED
    BY Zenon, <1>1, <2>2 DEF KeyOf, Chosen
<1>8. Range(combos) = {combos[i] : i \in 1 .. n}
  BY Zenon, <1>3 DEF Range
<1>9. ASSUME NEW y, NEW i \in 1 .. n, insts[i].key = y PROVE \E c \in Selections(job) : y = KeyOf(job, c)
  <2>1. PICK c \in Selections(job) : combos[i] = Chosen(job.matrix, A, c, Len(A))
    BY Zenon, <1>2, <1>8
  <2> QED
    <3>1. insts[i].key = <<job.id, combos[i]>>
      BY Zenon, <1>6
    <3>2. KeyOf(job, c) = <<job.id, Chosen(job.matrix, A, c, Len(A))>>
      BY Zenon, <1>7
    <3> QED
      BY <1>9, <2>1, <3>1, <3>2, Zenon
<1>10. ASSUME NEW c \in Selections(job) PROVE \E i \in 1 .. n : insts[i].key = KeyOf(job, c)
  <2>1. PICK x : x = Chosen(job.matrix, A, c, Len(A))
    BY Zenon
  <2>2. x \in Range(combos)
    BY Zenon, <1>2, <2>1
  <2>3. PICK i \in 1 .. n : combos[i] = x
    BY Zenon, <1>8, <2>2
  <2> QED
    <3>1. insts[i].key = <<job.id, combos[i]>>
      BY Zenon, <1>6
    <3>2. KeyOf(job, c) = <<job.id, x>>
      BY Zenon, <1>7, <2>1
    <3> QED
      BY Zenon, <2>3, <3>1, <3>2
<1>11. \A y : (\E i \in 1 .. n : insts[i].key = y) <=> \E c \in Selections(job) : y = KeyOf(job, c)
  BY Zenon, <1>9, <1>10
<1> QED
  <2>1. \A i \in DOMAIN insts : /\ insts[i].key[1] = job.id /\ IsSeq(insts[i].steps)
                                /\ DOMAIN insts[i].needs = DOMAIN job.needs
                                /\ \A h \in DOMAIN job.needs : insts[i].needs[h][1] = job.needs[h]
    BY Zenon, <1>4, <1>6
  <2>2. \A y : (\E i \in DOMAIN insts : insts[i].key = y) <=> \E c \in Selections(job) : y = KeyOf(job, c)
    <3> DEFINE Keys(D) == \A y : (\E i \in D : insts[i].key = y) <=> \E c \in Selections(job) : y = KeyOf(job, c)
    <3>1. Keys(1 .. n) /\ DOMAIN insts = 1 .. n
      BY Zenon, <1>4, <1>11
    <3>2. Keys(DOMAIN insts)
      <4> HIDE DEF Keys
      <4> QED
        BY Zenon, <3>1
    <3> QED
      BY Zenon, <3>2
  <2> QED
    BY Zenon, <1>5, <2>1, <2>2 DEF Expands

(* A job compiles exactly when it is fine, to its instances.               *)
LEMMA CompileJob ==
  ASSUME NEW job, IsJob(job), NEW out, out = compileJob(job)
  PROVE  /\ out[1] \in BOOLEAN /\ out[1] <=> JobFine(job)
         /\ out[1] => Expands(job, out[2])
<1> DEFINE steps == [i \in DOMAIN job.steps |-> compileStep(job.steps[i])]
           insts == [i \in DOMAIN Combos(job) |-> Instance(job, steps, Combos(job)[i])]
<1>1. IsSeq(steps)
  <2>1. PICK n \in Nat : DOMAIN job.steps = 1 .. n
    BY Zenon, SeqFacts DEF IsJob
  <2>2. steps = [i \in 1 .. n |-> steps[i]]
    BY Zenon, <2>1
  <2> HIDE DEF steps
  <2> QED
    BY Zenon, <2>2, FunctionSeq
<1>2. CASE JobFine(job)
  <2>1. out = <<TRUE, insts>>
    BY Zenon, <1>2 DEF compileJob, JobFine, expandMatrix
  <2>2. Expands(job, insts)
    <3>1. \A a \in DOMAIN job.matrix : job.matrix[a] # <<>>
      BY Zenon, <1>2 DEF JobFine
    <3> HIDE DEF steps
    <3> QED
      BY Zenon, <1>1, <3>1, ExpandMatrix
  <2> HIDE DEF insts
  <2> QED
    BY <1>2, <2>1, <2>2
<1>3. CASE ~JobFine(job)
  <2>1. out = Failed
    BY Zenon, <1>3 DEF compileJob, JobFine, expandMatrix
  <2>2. out[1] = FALSE
    BY <2>1 DEF Failed
  <2> QED
    BY Zenon, <1>3, <2>2
<1> QED
  BY Zenon, <1>2, <1>3

(***************************************************************************)
(* Compile.                                                                *)
(***************************************************************************)
LEMMA CompileOrdered ==
  ASSUME NEW jobs, NEW o, Sorted(jobs, o), NEW seqs, IsSeq(seqs), Len(seqs) = Len(o),
         \A k \in 1 .. Len(o) : Expands(o[k], seqs[k]), NEW out, out = FlattenSeq(seqs)
  PROVE  /\ IsSeq(out) /\ \A p \in DOMAIN out : IsSeq(out[p].steps)
         /\ {out[p].key : p \in DOMAIN out} = UNION {{KeyOf(j, c) : c \in Selections(j)} : j \in Range(jobs)}
         /\ \A p, h \in DOMAIN out : (\E n \in DOMAIN out[p].needs : out[p].needs[n][1] = out[h].key[1])
            => h < p
<1>1. PICK N \in Nat : N = Len(o) /\ DOMAIN seqs = 1 .. N /\ N = Len(seqs)
  BY Zenon, SeqFacts DEF Sorted
<1>2. \A k \in 1 .. N :
        /\ IsSeq(seqs[k]) /\ DOMAIN seqs[k] = 1 .. Len(seqs[k])
        /\ \A i \in 1 .. Len(seqs[k]) :
             /\ seqs[k][i].key[1] = o[k].id /\ IsSeq(seqs[k][i].steps)
             /\ DOMAIN seqs[k][i].needs = DOMAIN o[k].needs
             /\ \A n \in DOMAIN o[k].needs : seqs[k][i].needs[n][1] = o[k].needs[n]
  <2> TAKE k \in 1 .. N
  <2>1. Expands(o[k], seqs[k])
    BY Zenon, <1>1
  <2>2. IsSeq(seqs[k]) /\ DOMAIN seqs[k] = 1 .. Len(seqs[k])
    BY Zenon, <2>1, SeqFacts DEF Expands
  <2> QED
    BY Zenon, <2>1, <2>2 DEF Expands
<1>3. \A k \in 1 .. N : \A y : (\E i \in 1 .. Len(seqs[k]) : seqs[k][i].key = y)
                                 <=> \E c \in Selections(o[k]) : y = KeyOf(o[k], c)
  <2> TAKE k \in 1 .. N
  <2>1. \A y : (\E i \in DOMAIN seqs[k] : seqs[k][i].key = y) <=> \E c \in Selections(o[k]) : y = KeyOf(o[k], c)
    <3>1. Expands(o[k], seqs[k])
      BY Zenon, <1>1
    <3> QED
      BY Zenon, <3>1 DEF Expands
  <2>2. DOMAIN seqs[k] = 1 .. Len(seqs[k])
    BY Zenon, <1>2
  <2> QED
    BY Zenon, <2>1, <2>2
<1>4. IsSeq(out) /\ \E at : Places(out, seqs, N, at)
  BY Zenon, <1>1, <1>2, Flattened
<1>5. PICK M \in Nat : M = Len(out) /\ DOMAIN out = 1 .. M
  BY Zenon, <1>4, SeqFacts
<1>6. PICK at : Places(out, seqs, N, at)
  BY Zenon, <1>4
<1>7. ASSUME NEW p \in 1 .. M
      PROVE  \E i \in 1 .. N : \E a \in 1 .. Len(seqs[i]) : at[p] = <<i, a>> /\ out[p] = seqs[i][a]
  <2>1. at[p] \in Nat \X Nat
    BY Zenon, <1>5, <1>6 DEF Places
  <2>2. PICK i, a : at[p] = <<i, a>>
    BY <2>1
  <2> QED
    <3>1. at[p][1] = i /\ at[p][2] = a
      BY <2>2
    <3>2. at[p][1] \in 1 .. N /\ at[p][2] \in 1 .. Len(seqs[at[p][1]]) /\ out[p] = seqs[at[p][1]][at[p][2]]
      BY Zenon, <1>5, <1>6 DEF Places
    <3>3. i \in 1 .. N /\ a \in 1 .. Len(seqs[i]) /\ out[p] = seqs[i][a]
      BY Zenon, <3>1, <3>2
    <3> QED
      BY Zenon, <2>2, <3>3
<1>8. \A i \in 1 .. N : \A a \in 1 .. Len(seqs[i]) : \E p \in 1 .. M : out[p] = seqs[i][a]
  <2> TAKE i \in 1 .. N
  <2> TAKE a \in 1 .. Len(seqs[i])
  <2>1. PICK p \in 1 .. M : at[p] = <<i, a>>
    BY Zenon, <1>5, <1>6 DEF Places
  <2>2. out[p] = seqs[at[p][1]][at[p][2]]
    BY Zenon, <1>5, <1>6, <2>1 DEF Places
  <2> QED
    BY <2>1, <2>2
<1>9. \A p \in 1 .. M : IsSeq(out[p].steps)
  <2> TAKE p \in 1 .. M
  <2>1. PICK i \in 1 .. N : \E a \in 1 .. Len(seqs[i]) : out[p] = seqs[i][a]
    BY Zenon, <1>7
  <2> QED
    BY Zenon, <1>2, <2>1
<1>10. ASSUME NEW p \in 1 .. M PROVE \E j \in Range(jobs) : \E c \in Selections(j) : out[p].key = KeyOf(j, c)
  <2>1. PICK i \in 1 .. N : \E a \in 1 .. Len(seqs[i]) : out[p] = seqs[i][a]
    BY Zenon, <1>7
  <2>2. PICK c \in Selections(o[i]) : out[p].key = KeyOf(o[i], c)
    BY Zenon, <1>3, <2>1
  <2>3. o[i] \in Range(jobs)
    BY <1>1 DEF Sorted
  <2> QED
    BY Zenon, <2>2, <2>3
<1>11. ASSUME NEW j \in Range(jobs), NEW c \in Selections(j) PROVE \E p \in 1 .. M : out[p].key = KeyOf(j, c)
  <2>1. PICK k \in 1 .. N : o[k] = j
    BY Zenon, <1>1 DEF Sorted, Range
  <2>2. PICK i \in 1 .. Len(seqs[k]) : seqs[k][i].key = KeyOf(j, c)
    BY Zenon, <1>3, <2>1
  <2>3. PICK p \in 1 .. M : out[p] = seqs[k][i]
    BY Zenon, <1>8
  <2> QED
    BY Zenon, <2>2, <2>3
<1>12. {out[p].key : p \in 1 .. M} = UNION {{KeyOf(j, c) : c \in Selections(j)} : j \in Range(jobs)}
  <2> DEFINE Of(j) == {KeyOf(j, c) : c \in Selections(j)}
  <2>1. ASSUME NEW p \in 1 .. M PROVE \E j \in Range(jobs) : out[p].key \in Of(j)
    BY Zenon, <1>10
  <2>2. ASSUME NEW j \in Range(jobs), NEW y \in Of(j) PROVE \E p \in 1 .. M : out[p].key = y
    BY Zenon, <1>11
  <2> HIDE DEF Of
  <2>3. {out[p].key : p \in 1 .. M} = UNION {Of(j) : j \in Range(jobs)}
    BY <2>1, <2>2
  <2> QED
    BY Zenon, <2>3 DEF Of
<1>13. ASSUME NEW p \in 1 .. M, NEW h \in 1 .. M, NEW n \in DOMAIN out[p].needs,
                out[p].needs[n][1] = out[h].key[1]
       PROVE  h < p
  <2>1. PICK i \in 1 .. N : \E a \in 1 .. Len(seqs[i]) : at[p] = <<i, a>> /\ out[p] = seqs[i][a]
    BY Zenon, <1>7
  <2>2. PICK a \in 1 .. Len(seqs[i]) : at[p] = <<i, a>> /\ out[p] = seqs[i][a]
    BY Zenon, <2>1
  <2>3. PICK k \in 1 .. N : \E b \in 1 .. Len(seqs[k]) : at[h] = <<k, b>> /\ out[h] = seqs[k][b]
    BY Zenon, <1>7
  <2>4. PICK b \in 1 .. Len(seqs[k]) : at[h] = <<k, b>> /\ out[h] = seqs[k][b]
    BY Zenon, <2>3
  <2>5. o[k].id \in Range(o[i].needs)
    <3>1. /\ DOMAIN seqs[i][a].needs = DOMAIN o[i].needs
          /\ \A d \in DOMAIN o[i].needs : seqs[i][a].needs[d][1] = o[i].needs[d]
      BY Zenon, <1>2
    <3>2. out[h].key[1] = o[k].id
      BY Zenon, <1>2, <2>4
    <3>3. n \in DOMAIN o[i].needs /\ out[p].needs[n][1] = o[i].needs[n]
      BY Zenon, <2>2, <3>1
    <3> QED
      BY Zenon, <1>13, <3>2, <3>3 DEF Range
  <2>6. PICK m \in 1 .. N : m < i /\ o[m].id = o[k].id
    <3>1. \A q \in 1 .. Len(o) : \A d \in Range(o[q].needs) : \E m \in 1 .. Len(o) : m < q /\ o[m].id = d
      BY Zenon DEF Sorted, InOrder
    <3>2. PICK m \in 1 .. Len(o) : m < i /\ o[m].id = o[k].id
      BY Zenon, <1>1, <2>5, <3>1
    <3> QED
      BY Zenon, <1>1, <3>2
  <2>7. k < i
    <3>1. m = k
      BY Zenon, <1>1, <2>6 DEF Sorted, InOrder
    <3> QED
      BY Zenon, <2>6, <3>1
  <2>8. p # h
    <3>1. at[p][1] = i /\ at[h][1] = k
      BY <2>2, <2>4
    <3> QED
      BY <2>7, <3>1
  <2>9. ~(p < h)
    <3>1. at[p][1] = i /\ at[h][1] = k
      BY <2>2, <2>4
    <3>2. p < h => Before(at[p], at[h])
      BY Zenon, <1>5, <1>6 DEF Places
    <3> QED
      BY <2>7, <3>1, <3>2 DEF Before
  <2> QED
    BY <2>8, <2>9
<1> QED
  BY Zenon, <1>4, <1>5, <1>9, <1>12, <1>13

(* Compile does what its reference says.                                   *)
LEMMA CompileAll ==
  ASSUME NEW wf, IsJobs(wf.jobs), NEW out, out = Compile(wf)
  PROVE  /\ Compiled(wf.jobs, out)
         /\ out[1] => IsSeq(out[2]) /\ \A p \in DOMAIN out[2] : IsSeq(out[2][p].steps)
<1>1. PICK jobs, sort, o : jobs = wf.jobs /\ sort = topoSort(jobs) /\ o = sort[2]
  BY Zenon
<1>2. /\ sort[1] \in BOOLEAN /\ sort[1] <=> Orderable(jobs)
      /\ sort[1] => Sorted(jobs, o)
  BY Zenon, <1>1, TopoSort
<1> DEFINE parts == [i \in DOMAIN o |-> compileJob(o[i])]
           seqs == [i \in DOMAIN parts |-> parts[i][2]]
<1>3. out = IF jobs = <<>> \/ ~sort[1] \/ \E i \in DOMAIN parts : ~parts[i][1] THEN Failed
            ELSE <<TRUE, FlattenSeq(seqs)>>
  BY Zenon, <1>1 DEF Compile
<1>4. Failed[1] = FALSE
  BY Zenon DEF Failed
<1>5. CASE jobs = <<>> \/ ~sort[1]
  <2>1. out = Failed
    BY Zenon, <1>3, <1>5
  <2> HIDE DEF parts, seqs
  <2> QED
    BY Zenon, <1>1, <1>2, <1>4, <1>5, <2>1 DEF Compiled
<1>6. CASE jobs # <<>> /\ sort[1]
  <2>1. Sorted(jobs, o) /\ Orderable(jobs)
    BY Zenon, <1>2, <1>6
  <2>2. PICK N \in Nat : N = Len(o) /\ DOMAIN o = 1 .. N /\ \A k \in 1 .. N : o[k] \in Range(jobs)
    BY <2>1 DEF Sorted
  <2>3. \A j \in Range(jobs) : IsJob(j)
    BY Zenon, <1>1 DEF IsJobs, Range
  <2>4. \A k \in 1 .. N : parts[k] = compileJob(o[k])
    BY Zenon, <2>2
  <2>5. DOMAIN parts = 1 .. N /\ DOMAIN seqs = 1 .. N /\ \A k \in 1 .. N : seqs[k] = parts[k][2]
    BY Zenon, <2>2
  <2>6. seqs = [k \in 1 .. N |-> seqs[k]]
    BY Zenon, <2>2
  <2> HIDE DEF parts, seqs
  <2>7. \A k \in 1 .. N : /\ parts[k][1] \in BOOLEAN /\ parts[k][1] <=> JobFine(o[k])
                          /\ parts[k][1] => Expands(o[k], parts[k][2])
    BY Zenon, <2>2, <2>3, <2>4, CompileJob
  <2>8. (\A i \in DOMAIN jobs : JobFine(jobs[i])) <=> \A k \in 1 .. N : JobFine(o[k])
    <3>1. \A i \in DOMAIN jobs : \E k \in 1 .. N : o[k] = jobs[i]
      BY Zenon, <2>1, <2>2 DEF Sorted
    <3>2. \A k \in 1 .. N : \E i \in DOMAIN jobs : o[k] = jobs[i]
      BY Zenon, <2>2 DEF Range
    <3> QED
      BY Zenon, <3>1, <3>2
  <2>9. CASE \E k \in 1 .. N : ~parts[k][1]
    <3>1. out = Failed
      BY Zenon, <1>3, <2>5, <2>9
    <3>2. ~\A i \in DOMAIN jobs : JobFine(jobs[i])
      BY Zenon, <2>7, <2>8, <2>9
    <3> QED
      BY Zenon, <1>1, <1>4, <3>1, <3>2 DEF Compiled
  <2>10. CASE \A k \in 1 .. N : parts[k][1]
    <3>1. out = <<TRUE, FlattenSeq(seqs)>>
      BY Zenon, <1>3, <1>6, <2>5, <2>10
    <3>2. PICK flat : flat = FlattenSeq(seqs) /\ out[1] = TRUE /\ out[2] = flat
      BY <3>1
    <3>3. IsSeq(seqs) /\ Len(seqs) = Len(o)
      BY Zenon, <2>2, <2>6, FunctionSeq
    <3>4. \A k \in 1 .. Len(o) : Expands(o[k], seqs[k])
      BY Zenon, <2>2, <2>5, <2>7, <2>10
    <3>5. /\ IsSeq(flat) /\ \A p \in DOMAIN flat : IsSeq(flat[p].steps)
          /\ {flat[p].key : p \in DOMAIN flat} = UNION {{KeyOf(j, c) : c \in Selections(j)} : j \in Range(jobs)}
          /\ \A p, h \in DOMAIN flat : (\E n \in DOMAIN flat[p].needs : flat[p].needs[n][1] = flat[h].key[1])
             => h < p
      BY Zenon, <2>1, <3>2, <3>3, <3>4, CompileOrdered
    <3>6. \A i \in DOMAIN jobs : JobFine(jobs[i])
      BY Zenon, <2>7, <2>8, <2>10
    <3>7. Compiled(jobs, out)
      <4>1. out[1] <=> jobs # <<>> /\ Orderable(jobs) /\ \A i \in DOMAIN jobs : JobFine(jobs[i])
        BY Zenon, <1>6, <2>1, <3>2, <3>6
      <4>2. {out[2][i].key : i \in DOMAIN out[2]}
              = UNION {{KeyOf(j, c) : c \in Selections(j)} : j \in Range(jobs)}
        <5>1. {out[2][i].key : i \in DOMAIN out[2]} = {flat[p].key : p \in DOMAIN flat}
          BY Zenon, <3>2
        <5> QED
          BY Zenon, <3>5, <5>1
      <4>3. \A i, h \in DOMAIN out[2] :
              (\E n \in DOMAIN out[2][i].needs : out[2][i].needs[n][1] = out[2][h].key[1]) => h < i
        BY <3>2, <3>5
      <4> QED
        BY Zenon, <4>1, <4>2, <4>3 DEF Compiled
    <3> QED
      BY Zenon, <1>1, <3>2, <3>5, <3>7
  <2> QED
    BY Zenon, <2>7, <2>9, <2>10
<1> QED
  BY Zenon, <1>2, <1>5, <1>6

(* A set of positions has a largest element.                               *)
LEMMA LargestIn ==
  ASSUME NEW n \in Nat, NEW S \in SUBSET (1 .. n), S # {}
  PROVE  \E m \in S : \A t \in S : t <= m
<1> DEFINE D == {n - t : t \in S}
<1>1. \A t \in S : t \in Nat /\ n - t \in Nat
  OBVIOUS
<1>2. D \in SUBSET Nat /\ D # {}
  BY Zenon, <1>1
<1>3. PICK d \in D : \A e \in D : d <= e
  <2> HIDE DEF D
  <2> QED
    BY Zenon, <1>2, Least
<1>4. PICK m \in S : d = n - m
  BY Zenon, <1>3
<1>5. ASSUME NEW t \in S PROVE t <= m
  <2>1. n - t \in D
    BY Zenon
  <2>2. n - m <= n - t
    BY Zenon, <1>3, <1>4, <2>1
  <2>3. m \in Nat /\ t \in Nat
    BY Zenon, <1>1
  <2> QED
    BY <2>2, <2>3
<1> QED
  BY Zenon, <1>5

-----------------------------------------------------------------------------
(***************************************************************************)
(* What the parser makes of a document it accepts.                         *)
(***************************************************************************)
Read(n) == n \in Nodes \/ n = Absent

(* What an absent field reads as.                                          *)
LEMMA EmptyFacts == IsSeq(<<>>) /\ DOMAIN <<>> = {} /\ Absent.items = <<>>
<1>1. Absent.items = <<>>
  BY Zenon DEF Absent
<1>2. IsSeq(<<>>) /\ DOMAIN <<>> = {}
  BY DEF IsSeq, Range
<1> QED
  BY Zenon, <1>1, <1>2

(* What is in a node is a node.                                            *)
LEMMA NodeFacts ==
  ASSUME NEW n, Read(n)
  PROVE  /\ IsSeq(n.items) /\ Len(n.items) \in Nat /\ DOMAIN n.items = 1 .. Len(n.items)
         /\ \A i \in DOMAIN n.items : n \in Nodes /\ IF n.kind = "map" THEN n.items[i][2] \in Nodes
            ELSE n.items[i] \in Nodes
<1>1. CASE n \in Nodes
  <2>1. IsSeq(n.items)
    BY Zenon, <1>1, SyntaxAssumption DEF IsSeq
  <2>2. \A v \in Inside(n) : v \in Nodes
    BY Zenon, <1>1, SyntaxAssumption
  <2>3. \A i \in DOMAIN n.items : (IF n.kind = "map" THEN n.items[i][2] ELSE n.items[i]) \in Inside(n)
    BY Zenon DEF Inside
  <2> QED
    BY Zenon, <1>1, <2>1, <2>2, <2>3, SeqFacts
<1>2. CASE n = Absent
  <2>1. PICK s : s = n.items /\ IsSeq(s) /\ DOMAIN s = {}
    BY Zenon, <1>2, EmptyFacts
  <2> QED
    BY Zenon, <2>1, SeqFacts
<1> QED
  BY Zenon, <1>1, <1>2 DEF Read

(* A field is there with its last value, or reads as nothing.              *)
LEMMA FieldFacts ==
  ASSUME NEW n, Read(n), n.kind = "map" \/ n = Absent, NEW key
  PROVE  /\ Read(Field(n, key))
         /\ \/ Field(n, key) = Absent
            \/ \E i \in DOMAIN n.items : n.items[i][1] = key /\ Field(n, key) = n.items[i][2]
<1> DEFINE at == {i \in DOMAIN n.items : n.items[i][1] = key}
<1>1. CASE at = {}
  <2>1. Field(n, key) = Absent
    BY Zenon, <1>1 DEF Field
  <2> QED
    BY Zenon, <2>1 DEF Read
<1>2. CASE at # {}
  <2>1. PICK N \in Nat : DOMAIN n.items = 1 .. N
    BY Zenon, NodeFacts
  <2>2. at \in SUBSET (1 .. N)
    BY Zenon, <2>1
  <2>3. \E m \in at : \A h \in at : h <= m
    <3> HIDE DEF at
    <3> QED
      BY Zenon, <1>2, <2>2, LargestIn
  <2>4. PICK i : i = CHOOSE m \in at : \A h \in at : h <= m
    BY Zenon
  <2>5. i \in at
    <3> HIDE DEF at
    <3> QED
      BY Zenon, <2>3, <2>4
  <2>6. Field(n, key) = n.items[i][2]
    BY Zenon, <1>2, <2>4 DEF Field
  <2>7. n # Absent
    BY Zenon, <1>2, EmptyFacts
  <2>8. n.items[i][2] \in Nodes
    BY Zenon, <2>5, <2>7, NodeFacts
  <2> QED
    BY Zenon, <2>5, <2>6, <2>8 DEF Read
<1> QED
  BY Zenon, <1>1, <1>2

(* Lists of strings, steps and needs are sequences.                        *)
LEMMA StringSeq ==
  ASSUME NEW n, Read(n)
  PROVE  IsSeq(stringSeq(n)) /\ IsSeq(parseSteps(n)) /\ IsSeq(parseNeeds(n))
<1>1. PICK N \in Nat : DOMAIN n.items = 1 .. N
  BY Zenon, NodeFacts
<1>2. IsSeq(stringSeq(n))
  <2>1. PICK f : f = stringSeq(n)
    BY Zenon
  <2>2. f = [i \in 1 .. N |-> f[i]]
    BY Zenon, <1>1, <2>1 DEF stringSeq
  <2> QED
    BY Zenon, <2>1, <2>2, FunctionSeq
<1>3. IsSeq(parseSteps(n))
  <2>1. PICK f : f = parseSteps(n)
    BY Zenon
  <2>2. f = [i \in 1 .. N |-> f[i]]
    BY Zenon, <1>1, <2>1 DEF parseSteps
  <2> QED
    BY Zenon, <2>1, <2>2, FunctionSeq
<1>4. IsSeq(<<n.value>>)
  BY DEF IsSeq, Range
<1> QED
  BY Zenon, <1>2, <1>3, <1>4 DEF parseNeeds

(* A node that parses as a job gives a job.                                *)
LEMMA JobParsed ==
  ASSUME NEW n \in Nodes, ~parseJobBad(n), NEW id
  PROVE  IsJob(parseJob(id, n))
<1>1. n.kind = "map" /\ Read(n)
  BY Zenon DEF parseJobBad, mappingBad, Read
<1>2. \A key : Read(Field(n, key))
  BY Zenon, <1>1, FieldFacts
<1>3. PICK job : job = parseJob(id, n)
  BY Zenon
<1>4. /\ job.needs = parseNeeds(Field(n, "needs")) /\ job.steps = parseSteps(Field(n, "steps"))
      /\ job.matrix = parseMatrix(Field(Field(n, "strategy"), "matrix"))
  BY Zenon, <1>3 DEF parseJob, parseStrategy
<1>5. IsSeq(job.needs) /\ IsSeq(job.steps)
  BY Zenon, <1>2, <1>4, StringSeq
<1>6. PICK st, mx : st = Field(n, "strategy") /\ mx = Field(st, "matrix")
  BY Zenon
<1>7. st = Absent \/ ~parseStrategyBad(st)
  <2>1. CASE st = Absent
    BY Zenon, <2>1
  <2>2. CASE st # Absent
    <3>1. PICK i \in DOMAIN n.items : n.items[i][1] = "strategy" /\ st = n.items[i][2]
      BY <1>1, <1>6, <2>2, FieldFacts
    <3> QED
      BY Zenon, <3>1 DEF parseJobBad
  <2> QED
    BY Zenon, <2>1, <2>2
<1>8. Read(st) /\ (st.kind = "map" \/ st = Absent)
  BY Zenon, <1>2, <1>6, <1>7 DEF parseStrategyBad, mappingBad
<1>9. mx = Absent \/ mx.kind = "map"
  <2>1. CASE mx = Absent
    BY Zenon, <2>1
  <2>2. CASE mx # Absent
    <3>1. PICK i \in DOMAIN st.items : mx = st.items[i][2]
      BY <1>6, <1>8, <2>2, FieldFacts
    <3>2. st # Absent
      BY Zenon, <3>1, EmptyFacts
    <3> QED
      BY Zenon, <1>7, <3>1, <3>2 DEF parseStrategyBad, matrixBad
  <2> QED
    BY Zenon, <2>1, <2>2
<1>10. Read(mx)
  BY Zenon, <1>6, <1>8, FieldFacts
<1>11. \A a \in DOMAIN job.matrix : job.matrix[a] = stringSeq(Field(mx, a))
  BY Zenon, <1>4, <1>6 DEF parseMatrix
<1>12. \A a : Read(Field(mx, a))
  BY Zenon, <1>9, <1>10, FieldFacts
<1> QED
  BY Zenon, <1>3, <1>5, <1>11, <1>12, StringSeq DEF IsJob

(* A node that parses as jobs gives jobs.                                  *)
LEMMA JobsParsed ==
  ASSUME NEW n \in Nodes, ~parseJobsBad(n)
  PROVE  IsJobs(parseJobs(n))
<1>1. n.kind = "map" /\ Read(n) /\ \A i \in DOMAIN n.items : ~parseJobBad(n.items[i][2])
  BY Zenon DEF parseJobsBad, Read
<1>2. PICK N \in Nat : DOMAIN n.items = 1 .. N
  BY Zenon, <1>1, NodeFacts
<1>3. \A i \in 1 .. N : n.items[i][2] \in Nodes
  BY Zenon, <1>1, <1>2, NodeFacts
<1>4. PICK f : f = parseJobs(n)
  BY Zenon
<1>5. f = [i \in 1 .. N |-> f[i]] /\ \A i \in 1 .. N : f[i] = parseJob(n.items[i][1], n.items[i][2])
  BY Zenon, <1>2, <1>4 DEF parseJobs
<1>6. \A i \in 1 .. N : IsJob(f[i])
  BY Zenon, <1>1, <1>2, <1>3, <1>5, JobParsed
<1>7. IsSeq(f) /\ DOMAIN f = 1 .. N
  BY Zenon, <1>5, FunctionSeq
<1> QED
  BY Zenon, <1>4, <1>6, <1>7 DEF IsJobs

(* A document that parses has jobs.                                        *)
LEMMA WorkflowParsed ==
  ASSUME NEW root \in Nodes, Parse(root)[1]
  PROVE  IsJobs(Parse(root)[2].jobs)
<1>1. ~workflowBad(root)
  BY Zenon DEF Parse, Failed
<1>2. Parse(root)[2].jobs = parseWorkflow(root).jobs
  BY Zenon, <1>1 DEF Parse
<1>3. root.kind = "map" /\ Read(root)
  BY Zenon, <1>1 DEF workflowBad, mappingBad, Read
<1>4. PICK N \in Nat : DOMAIN root.items = 1 .. N
  BY Zenon, <1>3, NodeFacts
<1> DEFINE seqs == [i \in DOMAIN root.items |-> IF root.items[i][1] = "jobs" THEN parseJobs(root.items[i][2])
             ELSE <<>>]
<1>5. parseWorkflow(root).jobs = FlattenSeq(seqs)
  BY Zenon DEF parseWorkflow
<1>6. DOMAIN seqs = 1 .. N /\ seqs = [i \in 1 .. N |-> seqs[i]]
  BY Zenon, <1>4
<1>7. ASSUME NEW i \in 1 .. N PROVE IsJobs(seqs[i])
  <2>1. CASE root.items[i][1] = "jobs"
    <3>1. root.items[i][2] \in Nodes /\ ~parseJobsBad(root.items[i][2])
      BY Zenon, <1>1, <1>3, <1>4, <2>1, NodeFacts DEF workflowBad
    <3>2. seqs[i] = parseJobs(root.items[i][2])
      BY Zenon, <1>4, <2>1
    <3> QED
      BY Zenon, <3>1, <3>2, JobsParsed
  <2>2. CASE root.items[i][1] # "jobs"
    <3>1. seqs[i] = <<>>
      BY Zenon, <1>4, <2>2
    <3> QED
      BY Zenon, <3>1, EmptyFacts DEF IsJobs
  <2> QED
    BY Zenon, <2>1, <2>2
<1> HIDE DEF seqs
<1>8. IsSeq(seqs) /\ \A i \in DOMAIN seqs : IsSeq(seqs[i])
  BY Zenon, <1>6, <1>7, FunctionSeq DEF IsJobs
<1>9. PICK out : out = FlattenSeq(seqs) /\ IsSeq(out) /\ Range(out) = UNION {Range(seqs[i]) : i \in DOMAIN seqs}
  BY Zenon, <1>8, Flattened
<1>10. ASSUME NEW p \in DOMAIN out PROVE IsJob(out[p])
  <2>1. out[p] \in Range(out)
    BY Zenon DEF Range
  <2>2. PICK i \in 1 .. N : out[p] \in Range(seqs[i])
    <3>1. out[p] \in UNION {Range(seqs[i]) : i \in DOMAIN seqs}
      BY Zenon, <1>9, <2>1
    <3>2. \E i \in DOMAIN seqs : out[p] \in Range(seqs[i])
      BY Zenon, <3>1
    <3> QED
      BY Zenon, <1>6, <3>2
  <2>3. PICK k \in DOMAIN seqs[i] : out[p] = seqs[i][k]
    BY Zenon, <2>2 DEF Range
  <2> QED
    BY Zenon, <1>7, <2>3 DEF IsJobs
<1> QED
  BY Zenon, <1>2, <1>5, <1>9, <1>10 DEF IsJobs

-----------------------------------------------------------------------------
(***************************************************************************)
(* The jobs of an event, and the plan of a job.                            *)
(***************************************************************************)
LEMMA Compiling ==
  ASSUME NEW doc \in Nodes, Parse(doc)[1]
  PROVE  /\ Compiled(Parse(doc)[2].jobs, Compile(Parse(doc)[2]))
         /\ Compile(Parse(doc)[2])[1] =>
              /\ IsSeq(Compile(Parse(doc)[2])[2])
              /\ \A p \in DOMAIN Compile(Parse(doc)[2])[2] : IsSeq(Compile(Parse(doc)[2])[2][p].steps)
<1>1. PICK wf : wf = Parse(doc)[2]
  BY Zenon
<1>2. IsJobs(wf.jobs)
  BY Zenon, <1>1, WorkflowParsed
<1> QED
  BY Zenon, <1>1, <1>2, CompileAll

(* The workflow source returns jobs with steps.                            *)
LEMMA MatchedFacts ==
  ASSUME NEW f, IsSeq(f), Range(f) \subseteq Nodes, NEW ev, NEW out, out = matchedJobs(f, ev), out[1]
  PROVE  IsSeq(out[2]) /\ \A p \in DOMAIN out[2] : IsSeq(out[2][p].steps)
<1>1. CASE ev.name \notin {"push", "pull_request", "schedule"}
  <2>1. out[2] = <<>>
    BY Zenon, <1>1 DEF matchedJobs
  <2> QED
    BY Zenon, <2>1, EmptyFacts
<1>2. CASE ev.name \in {"push", "pull_request", "schedule"}
  <2> DEFINE jobsOf(i) == Compile(Parse(f[i])[2])[2]
             seqs == [i \in DOMAIN f |-> LET wf == Parse(f[i])[2] IN IF Matched(wf.on, ev) THEN Compile(wf)[2]
               ELSE <<>>]
  <2>1. ~\E i \in DOMAIN f : ~Compiles(f[i])
    <3> SUFFICES ASSUME \E i \in DOMAIN f : ~Compiles(f[i]) PROVE FALSE
      BY Zenon
    <3>1. out = Failed
      BY Zenon, <1>2 DEF matchedJobs
    <3> QED
      BY <3>1 DEF Failed
  <2>2. out[2] = FlattenSeq(seqs)
    BY Zenon, <1>2, <2>1 DEF matchedJobs
  <2>3. PICK N \in Nat : DOMAIN f = 1 .. N
    BY Zenon, SeqFacts
  <2>4. DOMAIN seqs = 1 .. N /\ seqs = [i \in 1 .. N |-> seqs[i]]
    BY Zenon, <2>3
  <2>5. \A i \in 1 .. N : seqs[i] = jobsOf(i) \/ seqs[i] = <<>>
    BY Zenon, <2>3
  <2>6. ASSUME NEW i \in 1 .. N PROVE IsSeq(jobsOf(i)) /\ \A p \in DOMAIN jobsOf(i) : IsSeq(jobsOf(i)[p].steps)
    <3>1. f[i] \in Nodes
      BY Zenon, <2>3 DEF Range
    <3>2. Parse(f[i])[1] /\ Compile(Parse(f[i])[2])[1]
      BY Zenon, <2>1, <2>3 DEF Compiles
    <3> QED
      BY Zenon, <3>1, <3>2, Compiling
  <2> HIDE DEF seqs, jobsOf
  <2>7. \A i \in 1 .. N : IsSeq(seqs[i]) /\ \A p \in DOMAIN seqs[i] : IsSeq(seqs[i][p].steps)
    BY Zenon, <2>5, <2>6, EmptyFacts
  <2>8. IsSeq(seqs) /\ \A i \in DOMAIN seqs : IsSeq(seqs[i])
    BY Zenon, <2>4, <2>7, FunctionSeq
  <2>9. PICK flat : flat = out[2] /\ IsSeq(flat) /\ Range(flat) = UNION {Range(seqs[i]) : i \in DOMAIN seqs}
    BY Zenon, <2>2, <2>8, Flattened
  <2>10. ASSUME NEW p \in DOMAIN flat PROVE IsSeq(flat[p].steps)
    <3>1. flat[p] \in Range(flat)
      BY Zenon DEF Range
    <3>2. flat[p] \in UNION {Range(seqs[i]) : i \in DOMAIN seqs}
      BY Zenon, <2>9, <3>1
    <3>3. PICK i \in DOMAIN seqs : flat[p] \in Range(seqs[i])
      BY Zenon, <3>2
    <3>4. PICK k \in DOMAIN seqs[i] : flat[p] = seqs[i][k]
      BY Zenon, <3>3 DEF Range
    <3> QED
      BY Zenon, <2>4, <2>7, <3>4
  <2> QED
    BY Zenon, <2>9, <2>10
<1> QED
  BY Zenon, <1>1, <1>2

(* The entries of a step: one, or those of its composite action.           *)
LEMMA PlanStepsSeq ==
  ASSUME NEW step
  PROVE  IsSeq(planSteps(step)) /\ DOMAIN planSteps(step) = IF Composite(step)
           THEN DOMAIN ActionMeta[step.what].steps ELSE {1}
<1>1. CASE Composite(step)
  <2>1. PICK s : s = ActionMeta[step.what].steps
    BY Zenon
  <2>2. IsSeq(s)
    BY Zenon, <1>1, <2>1, CompilerAssumption DEF Composite, IsSeq
  <2>3. PICK N \in Nat : DOMAIN s = 1 .. N
    BY Zenon, <2>2, SeqFacts
  <2>4. PICK g : g = planSteps(step)
    BY Zenon
  <2>5. g = [i \in 1 .. N |-> g[i]]
    BY Zenon, <1>1, <2>1, <2>3, <2>4 DEF planSteps, expandComposite
  <2> QED
    BY Zenon, <1>1, <2>1, <2>3, <2>4, <2>5, FunctionSeq
<1>2. CASE ~Composite(step)
  <2>1. PICK x : planSteps(step) = <<x>>
    BY Zenon, <1>2 DEF planSteps
  <2>2. IsSeq(<<x>>) /\ DOMAIN <<x>> = {1}
    BY DEF IsSeq, Range
  <2> QED
    BY Zenon, <1>2, <2>1, <2>2
<1> QED
  BY Zenon, <1>1, <1>2

(* Putting inputs into a text replaces the names of those that are plain.  *)
LEMMA Fills ==
  ASSUME NEW text, NEW with
  PROVE  Filled(text, with, Substituted(text, Plain(with)))
<1>1. PICK inputs : inputs = Plain(with)
  BY Zenon
<1>2. DOMAIN inputs = {k \in DOMAIN with : with[k] \notin DOMAIN SecretName}
        /\ \A k \in DOMAIN inputs : inputs[k] = with[k]
  BY Zenon, <1>1 DEF Plain, Restrict
<1>3. PICK out : out = Substituted(text, inputs)
  BY Zenon
<1>4. DOMAIN out = DOMAIN text
  BY Zenon, <1>3 DEF Substituted
<1>5. ASSUME NEW i \in DOMAIN text
      PROVE  out[i] = IF text[i] \in DOMAIN InputOf /\ InputOf[text[i]] \in DOMAIN inputs
                      THEN inputs[InputOf[text[i]]] ELSE text[i]
  BY Zenon, <1>3 DEF Substituted
<1>6. ASSUME NEW i \in DOMAIN text
      PROVE  IF /\ text[i] \in DOMAIN InputOf /\ InputOf[text[i]] \in DOMAIN with
                /\ with[InputOf[text[i]]] \notin DOMAIN SecretName
             THEN out[i] = with[InputOf[text[i]]]
             ELSE out[i] = text[i]
  BY Zenon, <1>2, <1>5
<1>7. Filled(text, with, out)
  BY Zenon, <1>4, <1>6 DEF Filled
<1> QED
  BY Zenon, <1>1, <1>3, <1>7

(* An entry of a composite action stands for one of its steps.             *)
LEMMA CompositeEntry ==
  ASSUME NEW step, Composite(step), NEW i \in DOMAIN planSteps(step)
  PROVE  /\ planSteps(step)[i].id = <<stDisplayName(step), i>>
         /\ Inlined(ActionMeta[step.what].steps[i], step.with, planSteps(step)[i])
<1>1. PICK s : s = ActionMeta[step.what].steps
  BY Zenon
<1>2. i \in DOMAIN s
  BY Zenon, <1>1, PlanStepsSeq
<1>3. planSteps(step) = expandComposite(s, Plain(step.with), stDisplayName(step))
  BY Zenon, <1>1 DEF planSteps
<1>4. PICK with, inputs, id : with = step.with /\ inputs = Plain(with) /\ id = stDisplayName(step)
  BY Zenon
<1>5. PICK r, cs : r = expandComposite(s, inputs, id)[i] /\ cs = s[i]
  BY Zenon
<1> DEFINE runs == cs.run # <<>> \/ cs.uses = ""
<1>6. /\ r.id = <<id, i>> /\ r.kind = (IF runs THEN "run" ELSE "js")
      /\ r.what = (IF runs THEN Substituted(cs.run, inputs) ELSE <<cs.uses>>)
      /\ r.inputs = (IF runs THEN <<>> ELSE [k \in DOMAIN cs.with |-> Substituted(cs.with[k], inputs)])
  BY Zenon, <1>2, <1>5 DEF expandComposite
<1>7. Inlined(cs, with, r)
  <2>1. CASE cs.run # <<>>
    <3>1. r.kind = "run" /\ r.what = Substituted(cs.run, Plain(with))
      BY Zenon, <1>4, <1>6, <2>1
    <3>2. Filled(cs.run, with, r.what)
      BY Zenon, <3>1, Fills
    <3> QED
      BY Zenon, <2>1, <3>1, <3>2 DEF Inlined
  <2>2. CASE cs.run = <<>> /\ cs.uses # ""
    <3>1. /\ r.kind = "js" /\ r.what = <<cs.uses>>
          /\ r.inputs = [k \in DOMAIN cs.with |-> Substituted(cs.with[k], Plain(with))]
      BY Zenon, <1>4, <1>6, <2>2
    <3>2. /\ DOMAIN r.inputs = DOMAIN cs.with
          /\ \A k \in DOMAIN cs.with : r.inputs[k] = Substituted(cs.with[k], Plain(with))
      BY Zenon, <3>1
    <3>3. \A k \in DOMAIN cs.with : Filled(cs.with[k], with, r.inputs[k])
      BY Zenon, <3>2, Fills
    <3> QED
      BY Zenon, <2>2, <3>1, <3>2, <3>3 DEF Inlined
  <2>3. CASE cs.run = <<>> /\ cs.uses = ""
    BY Zenon, <2>3 DEF Inlined
  <2> QED
    BY Zenon, <2>1, <2>2, <2>3
<1> QED
  BY Zenon, <1>1, <1>3, <1>4, <1>5, <1>6, <1>7

(* The entry of a step by itself keeps the step.                           *)
LEMMA KeepsStep ==
  ASSUME NEW step, ~Composite(step), NEW entry, entry = planSteps(step)[1], NEW plan,
         SecretsIn(step.with, stDisplayName(step)) \subseteq plan.refs
  PROVE  Kept(step, entry, plan)
<1>1. PICK kind : /\ entry = PlanStep(step, kind, step.what, Plain(step.with))
                  /\ step.kind = "run" => kind = "run"
  <2>1. PICK kind : /\ planSteps(step) = <<PlanStep(step, kind, step.what, Plain(step.with))>>
                    /\ kind = IF step.kind = "uses" THEN "js" ELSE step.kind
    BY Zenon DEF planSteps
  <2> QED
    BY <2>1
<1>2. /\ entry.what = <<step.what>> /\ entry.cond = step.cond /\ entry.coe = step.coe
      /\ entry.id = <<stDisplayName(step)>> /\ entry.inputs = Plain(step.with)
      /\ step.kind = "run" => entry.env = step.env
  BY <1>1 DEF PlanStep
<1>3. ASSUME NEW k \in DOMAIN step.with, step.with[k] \in DOMAIN SecretName
      PROVE  k \notin DOMAIN entry.inputs /\ <<SecretName[step.with[k]], entry.id[1], k>> \in plan.refs
  <2>1. k \notin DOMAIN Plain(step.with)
    BY Zenon, <1>3 DEF Plain, Restrict
  <2>2. <<SecretName[step.with[k]], stDisplayName(step), k>> \in SecretsIn(step.with, stDisplayName(step))
    BY Zenon, <1>3 DEF SecretsIn
  <2>3. entry.id[1] = stDisplayName(step)
    BY <1>2
  <2> QED
    BY Zenon, <1>2, <2>1, <2>2, <2>3
<1>4. ASSUME NEW k \in DOMAIN step.with, step.with[k] \notin DOMAIN SecretName
      PROVE  entry.inputs[k] = step.with[k]
  <2>1. Plain(step.with)[k] = step.with[k]
    BY Zenon, <1>4 DEF Plain, Restrict
  <2> QED
    BY Zenon, <1>2, <2>1
<1> QED
  BY Zenon, <1>2, <1>3, <1>4 DEF Kept

(* buildPlan does what its reference says.                                 *)
LEMMA BuildPlan ==
  ASSUME NEW inst, IsSeq(inst.steps), NEW plan, plan = buildPlan(inst)
  PROVE  Faithful(inst.steps, plan)
<1>1. PICK steps : steps = inst.steps
  BY Zenon
<1> DEFINE seqs == [i \in DOMAIN steps |-> planSteps(steps[i])]
<1>2. PICK out : out = plan.steps /\ out = FlattenSeq(seqs)
  BY Zenon, <1>1 DEF buildPlan
<1>3. \A i \in DOMAIN steps : SecretsIn(steps[i].with, stDisplayName(steps[i])) \subseteq plan.refs
  <2>1. plan.refs = SecretsIn(inst.env, "") \cup
                    UNION {SecretsIn(steps[i].with, stDisplayName(steps[i])) : i \in DOMAIN steps}
    BY Zenon, <1>1 DEF buildPlan
  <2> QED
    BY Zenon, <2>1
<1>4. PICK N \in Nat : DOMAIN steps = 1 .. N
  BY Zenon, <1>1, SeqFacts
<1>5. DOMAIN seqs = 1 .. N /\ seqs = [i \in 1 .. N |-> seqs[i]]
        /\ \A i \in 1 .. N : seqs[i] = planSteps(steps[i])
  BY Zenon, <1>4
<1> HIDE DEF seqs
<1>6. IsSeq(seqs) /\ Len(seqs) = N /\ \A i \in 1 .. N : IsSeq(seqs[i])
  BY Zenon, <1>5, PlanStepsSeq, FunctionSeq
<1>7. IsSeq(out) /\ \E at : Places(out, seqs, N, at)
  BY Zenon, <1>2, <1>5, <1>6, Flattened
<1>8. PICK M \in Nat : M = Len(out) /\ DOMAIN out = 1 .. M
  BY Zenon, <1>7, SeqFacts
<1>9. PICK at : Places(out, seqs, N, at)
  BY Zenon, <1>7
<1>10. \A i \in 1 .. N : DOMAIN seqs[i] = 1 .. Len(seqs[i])
  BY Zenon, <1>6, SeqFacts
<1>11. \A p \in 1 .. M : /\ at[p] \in Nat \X Nat /\ at[p][1] \in 1 .. N /\ at[p][2] \in DOMAIN seqs[at[p][1]]
                         /\ out[p] = seqs[at[p][1]][at[p][2]]
  BY Zenon, <1>8, <1>9, <1>10 DEF Places
<1>12. \A i \in 1 .. N : \A j \in DOMAIN seqs[i] : \E p \in 1 .. M : at[p] = <<i, j>>
  BY Zenon, <1>8, <1>9, <1>10 DEF Places
<1>13. \A p, q \in 1 .. M : p < q => Before(at[p], at[q])
  BY Zenon, <1>8, <1>9 DEF Places
<1> DEFINE stem == [p \in 1 .. M |-> at[p][1]]
<1>14. stem \in [DOMAIN plan.steps -> DOMAIN steps]
  BY Zenon, <1>2, <1>4, <1>8, <1>11
<1>15. \A p, q \in DOMAIN plan.steps : p < q => stem[p] <= stem[q]
  <2>1. \A p, q \in 1 .. M : p < q => stem[p] <= stem[q]
    BY <1>11, <1>13 DEF Before
  <2> QED
    BY Zenon, <1>2, <1>8, <2>1
<1>16. ASSUME NEW a \in DOMAIN steps, Composite(steps[a])
       PROVE  InlinedAll(steps[a], {p \in DOMAIN plan.steps : stem[p] = a}, plan.steps)
  <2>1. PICK inner : inner = ActionMeta[steps[a].what].steps
    BY Zenon
  <2>2. a \in 1 .. N /\ seqs[a] = planSteps(steps[a]) /\ DOMAIN seqs[a] = DOMAIN inner
    BY Zenon, <1>4, <1>5, <1>16, <2>1, PlanStepsSeq
  <2>3. \A j \in DOMAIN inner : /\ seqs[a][j].id = <<stDisplayName(steps[a]), j>>
                                /\ Inlined(inner[j], steps[a].with, seqs[a][j])
    BY Zenon, <1>16, <2>1, <2>2, CompositeEntry
  <2> DEFINE L == {p \in 1 .. M : stem[p] = a}
  <2>4. \A p \in L : at[p][1] = a /\ at[p][2] \in DOMAIN inner /\ out[p] = seqs[a][at[p][2]]
    BY Zenon, <1>11, <2>2
  <2>5. \A p \in L : \E n \in DOMAIN inner :
          out[p].id = <<stDisplayName(steps[a]), n>> /\ Inlined(inner[n], steps[a].with, out[p])
    BY Zenon, <2>3, <2>4
  <2>6. ASSUME NEW n \in DOMAIN inner PROVE \E p \in L : out[p].id = <<stDisplayName(steps[a]), n>>
    <3>1. PICK p \in 1 .. M : at[p] = <<a, n>>
      BY Zenon, <1>12, <2>2
    <3>2. at[p][1] = a /\ at[p][2] = n
      BY <3>1
    <3>3. out[p] = seqs[a][n] /\ p \in L
      BY Zenon, <1>11, <3>2
    <3> QED
      BY Zenon, <2>3, <3>3
  <2>7. ASSUME NEW p \in L, NEW q \in L, p < q PROVE out[p].id[2] < out[q].id[2]
    <3>1. at[p][2] < at[q][2]
      <4>1. Before(at[p], at[q]) /\ at[p][1] = a /\ at[q][1] = a /\ a \in Nat
        BY <1>4, <1>13, <2>2, <2>4, <2>7
      <4>2. ~(a < a)
        BY <4>1
      <4> QED
        BY Zenon, <4>1, <4>2 DEF Before
    <3>2. out[p].id = <<stDisplayName(steps[a]), at[p][2]>> /\ out[q].id = <<stDisplayName(steps[a]), at[q][2]>>
      BY Zenon, <2>3, <2>4
    <3>3. out[p].id[2] = at[p][2] /\ out[q].id[2] = at[q][2]
      BY <3>2
    <3> QED
      BY Zenon, <3>1, <3>3
  <2>8. L = {p \in DOMAIN plan.steps : stem[p] = a} /\ out = plan.steps
    BY Zenon, <1>2, <1>8
  <2> HIDE DEF L
  <2>9. InlinedAll(steps[a], L, out)
    BY Zenon, <2>1, <2>5, <2>6, <2>7 DEF InlinedAll
  <2> QED
    BY Zenon, <2>8, <2>9
<1>17. ASSUME NEW a \in DOMAIN steps, ~Composite(steps[a])
       PROVE  \E p \in {p \in DOMAIN plan.steps : stem[p] = a} :
                /\ {q \in DOMAIN plan.steps : stem[q] = a} = {p}
                /\ Kept(steps[a], plan.steps[p], plan)
  <2>1. a \in 1 .. N /\ seqs[a] = planSteps(steps[a]) /\ DOMAIN seqs[a] = {1}
    BY <1>4, <1>5, <1>17, PlanStepsSeq
  <2>2. PICK p \in 1 .. M : at[p] = <<a, 1>>
    BY Zenon, <1>12, <2>1
  <2>3. at[p][1] = a /\ at[p][2] = 1 /\ stem[p] = a
    BY <2>2
  <2>4. out[p] = planSteps(steps[a])[1]
    BY Zenon, <1>11, <2>1, <2>3
  <2>5. Kept(steps[a], out[p], plan)
    BY Zenon, <1>3, <1>17, <2>4, KeepsStep
  <2>6. ASSUME NEW q \in 1 .. M, stem[q] = a PROVE q = p
    <3>1. at[q][1] = a /\ at[q][2] = 1
      BY Zenon, <1>11, <2>1, <2>6
    <3>2. ~Before(at[p], at[q]) /\ ~Before(at[q], at[p])
      <4>1. a \in Nat /\ ~(a < a) /\ ~(1 < 1)
        BY <1>4, <2>1
      <4> QED
        BY Zenon, <2>3, <3>1, <4>1 DEF Before
    <3>3. ~(p < q) /\ ~(q < p)
      BY Zenon, <1>13, <3>2
    <3> QED
      BY <3>3
  <2>7. {q \in 1 .. M : stem[q] = a} = {p}
    BY Zenon, <2>3, <2>6
  <2> QED
    BY Zenon, <1>2, <1>8, <2>3, <2>5, <2>7
<1> HIDE DEF stem
<1>18. \A a \in DOMAIN steps :
         LET entries == {p \in DOMAIN plan.steps : stem[p] = a}
         IN  IF Composite(steps[a])
             THEN InlinedAll(steps[a], entries, plan.steps)
             ELSE \E p \in entries : entries = {p} /\ Kept(steps[a], plan.steps[p], plan)
  BY Zenon, <1>16, <1>17
<1>19. Faithful(steps, plan)
  BY Zenon, <1>14, <1>15, <1>18 DEF Faithful
<1> QED
  BY Zenon, <1>1, <1>19

=============================================================================
