-------------------------- MODULE AlgorithmProofs --------------------------
(***************************************************************************)
(* Proofs about Subnet, for addresses of any width, and NameReading, for   *)
(* messages and names of any length over any bytes, and any limits.        *)
(*                                                                         *)
(* What the code computes in loops are recursive functions there.  That    *)
(* such a definition defines a function at all is a fact to be proved: the *)
(* lemma Recursion says so of every one whose turns look only where some   *)
(* rank is lower.  That the reading of names ends, however pointers loop,  *)
(* is what it takes to apply it to decodeName (Ahead).                     *)
(***************************************************************************)
EXTENDS NameReading, Subnet, SequenceTheorems, FiniteSetTheorems, WellFoundedInduction, TLAPS

\* Induction over the naturals: a set that has every number all smaller ones
\* of which it has has them all.
LEMMA Induction ==
  ASSUME NEW T, \A n \in Nat : 0..(n - 1) \subseteq T => n \in T
  PROVE  Nat \subseteq T
<1> DEFINE R == {ss \in Nat \X Nat : ss[1] < ss[2]}
           Missing == Nat \ T
<1>1. IsWellFoundedOn(R, Nat)
  BY NatLessThanWellFounded DEF OpToRel
<1>2. \A a, b \in Nat : a < b => <<a, b>> \in R
  OBVIOUS
<1>3. SUFFICES ASSUME Missing # {} PROVE FALSE
  OBVIOUS
<1> HIDE DEF R
<1>7. Missing \subseteq Nat
  OBVIOUS
<1>4. PICK n \in Missing : \A m \in Missing : <<m, n>> \notin R
  BY <1>1, <1>3, <1>7, WFMin
<1>5. 0..(n - 1) \subseteq T
  <2>1. ASSUME NEW m \in 0..(n - 1)
        PROVE  <<m, n>> \in R
    BY <1>2, <1>7
  <2>2. 0..(n - 1) \subseteq Nat
    BY <1>7
  <2>3. QED
    BY <1>4, <2>1, <2>2
<1>6. QED
  BY <1>4, <1>5

\* A function that makes a value of its elements from one value, applied again and again.
LEMMA Iteration ==
  ASSUME NEW S, NEW a \in S, NEW F \in [S -> S]
  PROVE  \E g \in [Nat -> S] : g[0] = a /\ \A n \in Nat : g[n + 1] = F[g[n]]
<1> DEFINE Approx(n) == {h \in [0..n -> S] : h[0] = a /\ \A i \in 0..(n - 1) : h[i + 1] = F[h[i]]}
           T == {n \in Nat : Approx(n) # {}}
           U(k) == {n \in Nat : \A m \in Nat : \A h, j :
                  k <= m /\ k <= n /\ h \in Approx(n) /\ j \in Approx(m) => h[k] = j[k]}
<1>1. ASSUME NEW n \in Nat, 0..(n - 1) \subseteq T
      PROVE  n \in T
  <2>1. CASE n = 0
    <3>1. [i \in 0..0 |-> a] \in Approx(0)
      OBVIOUS
    <3>2. QED
      BY <2>1, <3>1
  <2>2. CASE n > 0
    <3>1. n - 1 \in T
      BY <1>1, <2>2
    <3>2. PICK h \in [0..(n - 1) -> S] : h[0] = a /\ \A i \in 0..(n - 1 - 1) : h[i + 1] = F[h[i]]
      BY <3>1
    <3> DEFINE j == [i \in 0..n |-> IF i = n THEN F[h[n - 1]] ELSE h[i]]
    <3>3. j \in [0..n -> S]
      BY <2>2, <3>2
    <3>4. j[0] = a /\ \A i \in 0..(n - 1) : j[i + 1] = F[j[i]]
      BY <2>2, <3>2
    <3>5. QED
      BY <3>3, <3>4
  <2>3. QED
    BY <2>1, <2>2
<1>2. Nat \subseteq T
  <2> HIDE DEF T
  <2>1. QED
    BY <1>1, Induction
<1>3. ASSUME NEW m \in Nat, NEW n \in Nat, NEW h \in Approx(n), NEW j \in Approx(m), m <= n
      PROVE  \A k \in 0..m : h[k] = j[k]
  <2> DEFINE Same == {k \in Nat : k <= m => h[k] = j[k]}
  <2>1. ASSUME NEW k \in Nat, 0..(k - 1) \subseteq Same
        PROVE  k \in Same
    <3>1. CASE k = 0
      BY <3>1
    <3>2. CASE k > 0 /\ k <= m
      <4>1. k - 1 \in 0..(m - 1) /\ k - 1 \in 0..(n - 1) /\ k - 1 \in 0..(k - 1)
        BY <1>3, <3>2
      <4>2. h[k - 1] = j[k - 1]
        BY <2>1, <4>1
      <4>3. h[k - 1 + 1] = F[h[k - 1]] /\ j[k - 1 + 1] = F[j[k - 1]]
        BY <4>1
      <4>4. QED
        BY <4>2, <4>3
    <3>3. QED
      BY <3>1, <3>2
  <2> HIDE DEF Same
  <2>2. Nat \subseteq Same
    BY <2>1, Induction
  <2> USE DEF Same
  <2>3. QED
    BY <2>2
<1> DEFINE pick == [n \in Nat |-> CHOOSE h : h \in Approx(n)]
           g == [n \in Nat |-> pick[n][n]]
<1> HIDE DEF Approx
<1>4. \A n \in Nat : pick[n] \in Approx(n)
  BY <1>2
<1> HIDE DEF pick
<1>5. ASSUME NEW n \in Nat
      PROVE  /\ g[n] \in S
             /\ g[n + 1] = F[g[n]]
  <2>1. pick[n + 1] \in Approx(n + 1) /\ pick[n] \in Approx(n)
    BY <1>4
  <2>2. pick[n + 1][n] = pick[n][n]
    BY <1>3, <2>1
  <2>3. pick[n + 1][n + 1] = F[pick[n + 1][n]] /\ pick[n][n] \in S
    BY <2>1 DEF Approx
  <2>4. QED
    BY <2>2, <2>3
<1>6. g[0] = a
  BY <1>4 DEF Approx
<1>7. QED
  <2>1. g \in [Nat -> S]
    BY <1>5
  <2>2. QED
    BY <1>5, <1>6, <2>1

\* All functions from D to V; a name keeps them out of the provers' sight.
AreMaps(S, D, V) == S = [D -> V]

\* What Phi makes of a function at x depends on its values at places of lower
\* rank only.
LooksBelow(Phi, S, D, rank) ==
  \A f, h \in S, x \in D :
    (\A y \in D : rank[y] < rank[x] => f[y] = h[y]) => Phi[f][x] = Phi[h][x]

\* A recursive definition defines a function: Phi computes its values from a
\* function's values at places of lower rank, and it has a fixed point.
LEMMA Recursion ==
  ASSUME NEW D, NEW V, NEW S, AreMaps(S, D, V), NEW start \in S,
         NEW rank, \A x \in D : rank[x] \in Nat, NEW Phi \in [S -> S],
         LooksBelow(Phi, S, D, rank)
  PROVE  \E f \in S : f = Phi[f]
<1>2. PICK g \in [Nat -> S] : \A n \in Nat : g[n + 1] = Phi[g[n]]
  BY Iteration
<1> USE DEF AreMaps
<1> DEFINE Stable == {n \in Nat : \A x \in D : rank[x] < n => g[n][x] = g[n + 1][x]}
<1>3. ASSUME NEW n \in Nat, 0..(n - 1) \subseteq Stable
      PROVE  n \in Stable
  <2>1. CASE n = 0
    BY <2>1
  <2>2. CASE n > 0
    <3>1. n - 1 \in Stable /\ n - 1 \in Nat /\ n - 1 + 1 = n
      BY <1>3, <2>2
    <3>2. ASSUME NEW x \in D, rank[x] < n
          PROVE  g[n][x] = g[n + 1][x]
      <4>1. g[n] = Phi[g[n - 1]] /\ g[n + 1] = Phi[g[n]] /\ g[n - 1] \in S /\ g[n] \in S
        BY <1>2, <3>1
      <4>2. \A y \in D : rank[y] < rank[x] => rank[y] < n - 1
        BY <3>1, <3>2
      <4>3. \A y \in D : rank[y] < rank[x] => g[n - 1][y] = g[n][y]
        BY <3>1, <4>2
      <4>4. Phi[g[n - 1]][x] = Phi[g[n]][x]
        BY <4>1, <4>3 DEF LooksBelow
      <4>5. QED
        BY <4>1, <4>4
    <3>3. QED
      BY <3>2
  <2>3. QED
    BY <2>1, <2>2
<1>4. \A n \in Nat, x \in D : rank[x] < n => g[n][x] = g[n + 1][x]
  <2> HIDE DEF Stable
  <2>1. Nat \subseteq Stable
    BY <1>3, Induction
  <2> USE DEF Stable
  <2>2. QED
    BY <2>1
<1>5. ASSUME NEW x \in D
      PROVE  \A n \in Nat : rank[x] < n => g[n][x] = g[rank[x] + 1][x]
  <2> DEFINE Settled == {n \in Nat : rank[x] < n => g[n][x] = g[rank[x] + 1][x]}
  <2>1. ASSUME NEW n \in Nat, 0..(n - 1) \subseteq Settled
        PROVE  n \in Settled
    <3>1. CASE rank[x] + 1 < n
      <4>1. n - 1 \in Settled /\ rank[x] < n - 1 /\ n - 1 \in Nat /\ n - 1 + 1 = n
        BY <2>1, <3>1
      <4>2. g[n - 1][x] = g[n][x]
        BY <1>4, <4>1
      <4>3. QED
        BY <4>1, <4>2
    <3>2. CASE ~(rank[x] + 1 < n)
      BY <3>2
    <3>3. QED
      BY <3>1, <3>2
  <2> HIDE DEF Settled
  <2>2. Nat \subseteq Settled
    BY <2>1, Induction
  <2> USE DEF Settled
  <2>3. QED
    BY <2>2
<1> DEFINE f == [x \in D |-> g[rank[x] + 1][x]]
<1>6. f \in S
  BY <1>2
<1>7. ASSUME NEW x \in D
      PROVE  f[x] = Phi[f][x]
  <2>1. f[x] = Phi[g[rank[x]]][x] /\ g[rank[x]] \in S
    BY <1>2
  <2>2. \A y \in D : rank[y] < rank[x] => g[rank[x]][y] = f[y]
    BY <1>5
  <2> HIDE DEF f
  <2>3. Phi[g[rank[x]]][x] = Phi[f][x]
    BY <1>6, <2>1, <2>2 DEF LooksBelow
  <2>4. QED
    BY <2>1, <2>3
<1>8. QED
  <2> HIDE DEF f
  <2>1. Phi[f] \in S
    BY <1>6
  <2>2. f = Phi[f]
    BY <1>6, <1>7, <2>1
  <2>3. QED
    BY <1>6, <2>2

-----------------------------------------------------------------------------
(* The hosts of a subnet. *)

\* Shifting is doubling, and powers of two are positive.
LEMMA ShiftedUnfolds ==
  /\ Shifted \in [Nat -> Nat]
  /\ \A bits \in Nat : Shifted[bits] = IF bits = 0 THEN 1 ELSE 2 * Shifted[bits - 1]
<1> DEFINE S == [Nat -> Nat]
           turn(f) == [bits \in Nat |-> IF bits = 0 THEN 1 ELSE 2 * f[bits - 1]]
           Phi == [f \in S |-> turn(f)]
           rank == [n \in Nat |-> n]
<1>1. \E f : f = turn(f)
  <2>1. [n \in Nat |-> 0] \in S /\ \A n \in Nat : rank[n] \in Nat
    OBVIOUS
  <2>2. Phi \in [S -> S]
    OBVIOUS
  <2>3. LooksBelow(Phi, S, Nat, rank)
    <3>1. ASSUME NEW f \in S, NEW h \in S, NEW x \in Nat,
                 \A y \in Nat : rank[y] < rank[x] => f[y] = h[y]
          PROVE  Phi[f][x] = Phi[h][x]
      <4>1. x # 0 => f[x - 1] = h[x - 1]
        BY <3>1
      <4>2. QED
        BY <4>1
    <3> HIDE DEF Phi, rank, S
    <3>2. QED
      BY <3>1 DEF LooksBelow
  <2>4. AreMaps(S, Nat, Nat)
    BY DEF AreMaps
  <2> HIDE DEF Phi, rank, S
  <2>5. \E f \in S : f = Phi[f]
    BY <2>1, <2>2, <2>3, <2>4, Recursion
  <2>6. QED
    BY <2>5 DEF Phi
<1>2. Shifted = turn(Shifted)
  BY <1>1 DEF Shifted
<1>3. ASSUME NEW n \in Nat, 0..(n - 1) \subseteq {m \in Nat : Shifted[m] \in Nat}
      PROVE  n \in {m \in Nat : Shifted[m] \in Nat}
  <2>1. n # 0 => n - 1 \in Nat /\ Shifted[n - 1] \in Nat
    BY <1>3
  <2>2. Shifted[n] = IF n = 0 THEN 1 ELSE 2 * Shifted[n - 1]
    BY <1>2
  <2>3. QED
    BY <2>1, <2>2
<1>4. Nat \subseteq {m \in Nat : Shifted[m] \in Nat}
  BY <1>3, Induction
<1>5. QED
  BY <1>2, <1>4

\* A power of two is greater than two, but for the first two of them.
LEMMA ShiftedIsLarge ==
  ASSUME NEW bits \in Nat
  PROVE  /\ Shifted[bits] \in Nat /\ Shifted[bits] > 0
         /\ bits = 0 => Shifted[bits] = 1
         /\ bits = 1 => Shifted[bits] = 2
         /\ bits > 1 => Shifted[bits] > 2
<1> DEFINE T == {n \in Nat : Shifted[n] > n}
<1>1. ASSUME NEW n \in Nat, 0..(n - 1) \subseteq T
      PROVE  n \in T
  <2>1. n # 0 => n - 1 \in T
    BY <1>1
  <2>2. QED
    BY <2>1, ShiftedUnfolds
<1>2. Nat \subseteq T
  <2> HIDE DEF T
  <2>1. QED
    BY <1>1, Induction
<1>3. Shifted[0] = 1 /\ Shifted[1] = 2
  BY ShiftedUnfolds
<1>4. QED
  BY <1>2, <1>3, ShiftedUnfolds

\* Shifting by a number of bits is shifting by some and then by the others.
LEMMA ShiftedTwice ==
  ASSUME NEW a \in Nat
  PROVE  \A b \in Nat : Shifted[a + b] = Shifted[b] * Shifted[a]
<1> DEFINE T == {n \in Nat : Shifted[a + n] = Shifted[n] * Shifted[a]}
<1>1. ASSUME NEW n \in Nat, 0..(n - 1) \subseteq T
      PROVE  n \in T
  <2>1. CASE n = 0
    BY <2>1, ShiftedUnfolds
  <2>2. CASE n # 0
    <3>1. n - 1 \in T /\ n - 1 \in Nat
      BY <1>1, <2>2
    <3>2. Shifted[a + n] = 2 * Shifted[a + (n - 1)] /\ Shifted[n] = 2 * Shifted[n - 1]
      BY <2>2, ShiftedUnfolds
    <3> DEFINE x == Shifted[n - 1]
               y == Shifted[a]
    <3>3. x \in Nat /\ y \in Nat /\ Shifted[a + n] = 2 * (x * y) /\ Shifted[n] = 2 * x
      BY <3>1, <3>2, ShiftedUnfolds
    <3> HIDE DEF x, y
    <3>4. 2 * (x * y) = (2 * x) * y
      BY <3>3
    <3> USE DEF y
    <3>5. QED
      BY <3>3, <3>4
  <2>3. QED
    BY <2>1, <2>2
<1>2. Nat \subseteq T
  <2> HIDE DEF T
  <2>1. QED
    BY <1>1, Induction
<1>3. QED
  BY <1>2

\* Division with remainder.
LEMMA Division ==
  ASSUME NEW size \in Nat, size > 0, NEW a \in Nat
  PROVE  /\ a \div size \in Nat /\ a % size \in Nat /\ a % size < size
         /\ a = size * (a \div size) + (a % size)
OBVIOUS

\* The addresses that share a prefix follow one another.
LEMMA Block ==
  ASSUME NEW size \in Nat, size > 0, NEW a \in Nat, NEW q \in Nat
  PROVE  a \div size = q <=> a \in (size * q)..(size * q + size - 1)
<1> DEFINE d == a \div size
           r == a % size
<1>1. d \in Nat /\ r \in Nat /\ r < size /\ a = size * d + r
  BY Division
<1> HIDE DEF d, r
<1>2. size * d \in Nat /\ size * q \in Nat
  BY <1>1
<1>3. ASSUME d = q PROVE a \in (size * q)..(size * q + size - 1)
  BY <1>1, <1>2, <1>3
<1>4. ASSUME a \in (size * q)..(size * q + size - 1) PROVE d = q
  <2>1. ASSUME d > q PROVE FALSE
    <3>1. size * d >= size * q + size
      BY <1>1, <2>1
    <3>2. QED
      BY <1>1, <1>2, <1>4, <3>1
  <2>2. ASSUME d < q PROVE FALSE
    <3>1. size * q >= size * d + size
      BY <1>1, <2>2
    <3>2. QED
      BY <1>1, <1>2, <1>4, <3>1
  <2>3. QED
    BY <1>1, <2>1, <2>2
<1>5. QED
  BY <1>3, <1>4 DEF d

\* The parts of the address space in numbers.
LEMMA SubnetNumbers ==
  ASSUME NEW ip \in Addresses, NEW ones \in 0..Width
  PROVE  /\ Shifted[Width - ones] \in Nat \ {0} /\ Shifted[Width] \in Nat \ {0}
         /\ Base(ip, ones) \in Nat /\ ip \in Nat
         /\ Base(ip, ones) = Shifted[Width - ones] * (ip \div Shifted[Width - ones])
         /\ ip \div Shifted[Width - ones] \in Nat
         /\ Base(ip, ones) + Shifted[Width - ones] <= Shifted[Width]
<1> DEFINE T == Shifted[Width - ones]
           Q == Shifted[ones]
           W == Shifted[Width]
           q == ip \div T
<1>1. Width \in Nat /\ ones \in Nat /\ Width - ones \in Nat /\ (Width - ones) + ones = Width
  BY SubnetAssumption
<1>2. T \in Nat /\ T > 0 /\ W \in Nat /\ W > 0 /\ Q \in Nat
  BY <1>1, ShiftedIsLarge
<1>3. W = Q * T
  BY <1>1, ShiftedTwice
<1>4. ip \in Nat /\ ip < W
  BY <1>2 DEF Addresses
<1> HIDE DEF T, Q, W
<1>5. q \in Nat /\ ip % T \in Nat /\ ip = T * q + (ip % T)
  BY <1>2, <1>4, Division
<1>6. Base(ip, ones) = T * q
  <2>1. Base(ip, ones) = ip - (ip % T)
    BY DEF Base, T
  <2>2. T * q \in Nat
    BY <1>2, <1>5
  <2> HIDE DEF q
  <2>3. QED
    BY <1>4, <1>5, <2>1, <2>2
<1> HIDE DEF q
<1>7. T * q \in Nat
  BY <1>2, <1>5
<1>8. q < Q
  <2>1. ASSUME q >= Q PROVE FALSE
    <3>1. T * q >= Q * T
      BY <1>2, <1>5, <2>1
    <3>2. QED
      BY <1>2, <1>3, <1>4, <1>5, <1>7, <3>1
  <2>2. QED
    BY <1>2, <1>5, <2>1
<1>9. T * q + T <= W
  BY <1>2, <1>3, <1>5, <1>8
<1>10. /\ T \in Nat \ {0} /\ W \in Nat \ {0} /\ Base(ip, ones) \in Nat /\ ip \in Nat
       /\ Base(ip, ones) = T * q /\ q \in Nat /\ Base(ip, ones) + T <= W
  BY <1>2, <1>4, <1>5, <1>6, <1>7, <1>9
<1>11. QED
  BY <1>10, Zenon DEF T, W, q

\* The loop collects an address, or leaves it out, turn by turn.
LEMMA CollectedUnfolds ==
  ASSUME NEW ip \in Addresses, NEW ones \in 0..Width
  PROVE  /\ \A n \in Nat : Collected(ip, ones)[n] \in Seq(Nat)
         /\ Collected(ip, ones)[0] = <<>>
         /\ \A n \in Nat :
              Collected(ip, ones)[n + 1] =
                IF Skipped(n, Shifted[Width - ones], ones) THEN Collected(ip, ones)[n]
                ELSE Append(Collected(ip, ones)[n], (Base(ip, ones) + n) % Shifted[Width])
<1> DEFINE D == Nat
           V == Seq(Nat)
           S == [D -> V]
           out == Collected(ip, ones)
           skip(n) == Skipped(n, Shifted[Width - ones], ones)
           address(n) == (Base(ip, ones) + n) % Shifted[Width]
           turn(f) == [turns \in Nat |->
                         IF turns = 0 THEN <<>>
                         ELSE IF Skipped(turns - 1, Shifted[Width - ones], ones) THEN f[turns - 1]
                         ELSE Append(f[turns - 1], (Base(ip, ones) + turns - 1) % Shifted[Width])]
           Phi == [f \in S |-> turn(f)]
           rank == [n \in Nat |-> n]
<1>0. \A n \in Nat \ {0} : (Base(ip, ones) + n - 1) % Shifted[Width] \in Nat
  BY SubnetNumbers
<1>1. \E f : f = turn(f)
  <2>1. [n \in Nat |-> <<>>] \in S /\ \A n \in Nat : rank[n] \in Nat
    OBVIOUS
  <2>2. Phi \in [S -> S]
    <3>1. ASSUME NEW f \in S PROVE turn(f) \in S
      <4>1. ASSUME NEW n \in Nat PROVE turn(f)[n] \in V
        <5>1. n # 0 => f[n - 1] \in V
          OBVIOUS
        <5>2. QED
          BY <1>0, <5>1
      <4>2. QED
        BY <4>1
    <3>2. QED
      BY <3>1
  <2>3. LooksBelow(Phi, S, Nat, rank)
    <3>1. ASSUME NEW f \in S, NEW h \in S, NEW x \in Nat,
                 \A y \in Nat : rank[y] < rank[x] => f[y] = h[y]
          PROVE  Phi[f][x] = Phi[h][x]
      <4>1. x # 0 => f[x - 1] = h[x - 1]
        BY <3>1
      <4>2. QED
        BY <4>1
    <3> HIDE DEF Phi, rank, S
    <3>2. QED
      BY <3>1 DEF LooksBelow
  <2>4. AreMaps(S, Nat, V)
    BY DEF AreMaps
  <2> HIDE DEF Phi, rank, S, V
  <2>5. \E f \in S : f = Phi[f]
    BY <2>1, <2>2, <2>3, <2>4, Recursion
  <2>6. QED
    BY <2>5 DEF Phi
<1>2. out = turn(out)
  BY <1>1 DEF Collected
<1> HIDE DEF out
<1>3. out[0] = <<>>
  BY <1>2
<1>4. ASSUME NEW n \in Nat
      PROVE  out[n + 1] = IF skip(n) THEN out[n] ELSE Append(out[n], address(n))
  <2>1. out[n + 1] = turn(out)[n + 1]
    BY <1>2
  <2>2. /\ n + 1 \in Nat /\ n + 1 # 0 /\ n + 1 - 1 = n
        /\ Base(ip, ones) + (n + 1) - 1 = Base(ip, ones) + n
    BY SubnetNumbers
  <2>3. QED
    BY <2>1, <2>2
<1>5. \A n \in Nat : address(n) \in Nat
  BY SubnetNumbers
<1> HIDE DEF turn, Phi, address, skip
<1> DEFINE Typed == {n \in Nat : out[n] \in Seq(Nat)}
<1>6. ASSUME NEW n \in Nat, 0..(n - 1) \subseteq Typed
      PROVE  n \in Typed
  <2>1. CASE n = 0
    <3>1. <<>> \in Seq(Nat)
      OBVIOUS
    <3>2. out[n] = <<>>
      BY <1>3, <2>1
    <3>3. QED
      BY <3>1, <3>2
  <2>2. CASE n # 0
    <3>1. n - 1 \in Typed /\ n - 1 \in Nat /\ n - 1 + 1 = n
      BY <1>6, <2>2
    <3>2. out[n] = IF skip(n - 1) THEN out[n - 1] ELSE Append(out[n - 1], address(n - 1))
      BY <1>4, <3>1
    <3>3. Append(out[n - 1], address(n - 1)) \in Seq(Nat)
      BY <1>5, <3>1, AppendProperties
    <3>4. QED
      BY <3>1, <3>2, <3>3
  <2>3. QED
    BY <2>1, <2>2
<1>7. Nat \subseteq Typed
  <2> HIDE DEF Typed
  <2>1. QED
    BY <1>6, Induction
<1>8. QED
  BY <1>3, <1>4, <1>7 DEF out, address, skip

\* What a sequence has when an element is appended, and that none is there twice.
LEMMA AppendedRange ==
  ASSUME NEW s \in Seq(Nat), NEW x \in Nat
  PROVE  /\ Range(Append(s, x)) = Range(s) \cup {x}
         /\ IsInjective(s) /\ x \notin Range(s) => IsInjective(Append(s, x))
<1> DEFINE t == Append(s, x)
<1>1. /\ t \in Seq(Nat) /\ DOMAIN t = 1..(Len(s) + 1) /\ DOMAIN s = 1..Len(s) /\ Len(s) \in Nat
      /\ t[Len(s) + 1] = x /\ \A i \in 1..Len(s) : t[i] = s[i]
  BY AppendProperties
<1> HIDE DEF t
<1>2. Range(t) \subseteq Range(s) \cup {x}
  BY <1>1 DEF Range
<1>3. Range(s) \cup {x} \subseteq Range(t)
  BY <1>1 DEF Range
<1>4. ASSUME IsInjective(s), x \notin Range(s)
      PROVE  IsInjective(t)
  <2>1. ASSUME NEW i \in 1..(Len(s) + 1), NEW j \in 1..(Len(s) + 1), t[i] = t[j]
        PROVE  i = j
    <3>1. \A k, l \in 1..Len(s) : s[k] = s[l] => k = l
      BY <1>1, <1>4 DEF IsInjective
    <3>2. \A k \in 1..Len(s) : s[k] # x
      BY <1>1, <1>4 DEF Range
    <3>3. CASE i = Len(s) + 1 \/ j = Len(s) + 1
      <4>1. \A k \in 1..(Len(s) + 1) : k = Len(s) + 1 \/ (k \in 1..Len(s) /\ t[k] # x)
        BY <1>1, <3>2
      <4>2. t[i] = x /\ t[j] = x
        BY <1>1, <2>1, <3>3
      <4>3. i = Len(s) + 1 /\ j = Len(s) + 1
        BY <4>1, <4>2
      <4>4. QED
        BY <4>3
    <3>4. CASE i \in 1..Len(s) /\ j \in 1..Len(s)
      BY <1>1, <2>1, <3>1, <3>4
    <3>5. QED
      BY <1>1, <3>3, <3>4
  <2>2. QED
    BY <1>1, <2>1 DEF IsInjective
<1>5. QED
  BY <1>2, <1>3, <1>4 DEF t

\* What the loop has collected after n turns.
LEMMA CollectedInTurns ==
  ASSUME NEW ip \in Addresses, NEW ones \in 0..Width
  PROVE  \A n \in Nat : n <= Shifted[Width - ones] =>
           /\ Range(Collected(ip, ones)[n]) =
                {Base(ip, ones) + i :
                  i \in {j \in 0..(n - 1) : ~Skipped(j, Shifted[Width - ones], ones)}}
           /\ IsInjective(Collected(ip, ones)[n])
<1> DEFINE T == Shifted[Width - ones]
           B == Base(ip, ones)
           W == Shifted[Width]
           out == Collected(ip, ones)
           Skip(i) == Skipped(i, T, ones)
           Kept(n) == {j \in 0..(n - 1) : ~Skip(j)}
           Done == {n \in Nat : n <= T => /\ Range(out[n]) = {B + i : i \in Kept(n)}
                                          /\ IsInjective(out[n])}
<1>1. /\ T \in Nat /\ W \in Nat /\ W > 0 /\ B \in Nat /\ B + T <= W
  BY SubnetNumbers
<1>2. \A n \in Nat : out[n] \in Seq(Nat)
  BY CollectedUnfolds
<1>3. out[0] = <<>>
  BY CollectedUnfolds
<1>4. \A n \in Nat : out[n + 1] = IF Skip(n) THEN out[n] ELSE Append(out[n], (B + n) % W)
  BY CollectedUnfolds
<1> HIDE DEF T, B, W, out, Skip
<1>5. ASSUME NEW n \in Nat, 0..(n - 1) \subseteq Done
      PROVE  n \in Done
  <2>1. CASE n = 0
    <3>1. Range(<<>>) = {} /\ IsInjective(<<>>)
      BY DEF Range, IsInjective
    <3>2. Kept(n) = {}
      BY <2>1
    <3>3. QED
      BY <1>3, <2>1, <3>1, <3>2
  <2>2. CASE n # 0 /\ n <= T
    <3> DEFINE m == n - 1
    <3>1. m \in Done /\ m \in Nat /\ m + 1 = n /\ m <= T /\ m < T
      BY <1>1, <1>5, <2>2
    <3>2. (B + m) % W = B + m /\ B + m \in Nat
      BY <1>1, <3>1
    <3> HIDE DEF m
    <3>3. out[n] = IF Skip(m) THEN out[m] ELSE Append(out[m], B + m)
      BY <1>4, <3>1, <3>2
    <3>4. Kept(n) = Kept(m) \cup IF Skip(m) THEN {} ELSE {m}
      BY <3>1
    <3>5. Range(out[m]) = {B + i : i \in Kept(m)} /\ IsInjective(out[m])
      BY <3>1
    <3>6. CASE Skip(m)
      BY <3>3, <3>4, <3>5, <3>6
    <3>7. CASE ~Skip(m)
      <4>1. B + m \notin Range(out[m])
        BY <1>1, <3>1, <3>5
      <4>2. /\ Range(out[n]) = Range(out[m]) \cup {B + m}
            /\ IsInjective(out[n])
        BY <1>2, <3>1, <3>2, <3>3, <3>5, <3>7, <4>1, AppendedRange
      <4>3. QED
        BY <3>4, <3>5, <3>7, <4>2
    <3>8. QED
      BY <3>6, <3>7
  <2>3. QED
    BY <2>1, <2>2
<1>6. Nat \subseteq Done
  <2> HIDE DEF Done
  <2>1. QED
    BY <1>5, Induction
<1>7. QED
  BY <1>6 DEF T, B, out, Skip

\* The size of an interval.
LEMMA IntervalSize ==
  ASSUME NEW a \in Int, NEW b \in Int, a <= b, NEW s, s = a..b
  PROVE  Cardinality(s) = b - a + 1
BY FS_Interval

\* What the loop yields for one network.
LEMMA HostsOfNetwork ==
  ASSUME NEW ip \in Addresses, NEW ones \in 0..Width
  PROVE  LET hosts == hostsInSubnet(ip, ones)
             all == HostsOf(ip, ones)
         IN  /\ Range(hosts) = IF Cardinality(all) > MaxHosts THEN {} ELSE all
             /\ IsInjective(hosts)
<1> DEFINE T == Shifted[Width - ones]
           B == Base(ip, ones)
           W == Shifted[Width]
           hosts == hostsInSubnet(ip, ones)
           all == HostsOf(ip, ones)
           skip == ones < Width - 1
           block == {a \in Addresses : a \div T = ip \div T}
<1>1. /\ T \in Nat /\ T > 0 /\ W \in Nat /\ W > 0 /\ B \in Nat /\ B + T <= W
      /\ ip \in Nat /\ ip \div T \in Nat /\ B = T * (ip \div T)
  BY SubnetNumbers
<1>2. Width \in Nat /\ ones \in Nat /\ Width - ones \in Nat /\ MaxHosts \in Nat /\ MaxHosts >= 2
  BY SubnetAssumption
<1>3. skip <=> T > 2
  BY <1>2, ShiftedIsLarge
<1>4. block = B..(B + T - 1)
  <2>1. Addresses = 0..(W - 1)
    BY DEF Addresses
  <2>2. \A a \in Nat : a \div T = ip \div T <=> a \in B..(B + T - 1)
    BY <1>1, Block
  <2> HIDE DEF T, B, W
  <2>3. QED
    BY <1>1, <2>1, <2>2
<1>5. all = IF T > 2 THEN (B + 1)..(B + T - 2) ELSE B..(B + T - 1)
  <2>1. all = IF T > 2
              THEN {a \in block : ~(\A b \in block : a <= b) /\ ~(\A b \in block : b <= a)}
              ELSE block
    BY DEF HostsOf
  <2> HIDE DEF T, B, block, all
  <2>2. ASSUME T > 2
        PROVE  {a \in block : ~(\A b \in block : a <= b) /\ ~(\A b \in block : b <= a)}
                 = (B + 1)..(B + T - 2)
    <3>1. B \in block /\ B + T - 1 \in block
      BY <1>1, <1>4, <2>2
    <3>2. ASSUME NEW a \in block
          PROVE  /\ (\A b \in block : a <= b) <=> a = B
                 /\ (\A b \in block : b <= a) <=> a = B + T - 1
      <4>1. a \in Int /\ B <= a /\ a <= B + T - 1
        BY <1>1, <1>4
      <4>2. \A b \in block : b \in Int /\ B <= b /\ b <= B + T - 1
        BY <1>1, <1>4
      <4>3. (\A b \in block : a <= b) <=> a = B
        BY <1>1, <3>1, <4>1, <4>2
      <4>4. (\A b \in block : b <= a) <=> a = B + T - 1
        BY <1>1, <3>1, <4>1, <4>2
      <4>5. QED
        BY <4>3, <4>4
    <3>3. QED
      BY <1>1, <1>4, <2>2, <3>2
  <2>3. QED
    BY <1>4, <2>1, <2>2
<1>6. Cardinality(all) = IF T > 2 THEN T - 2 ELSE T
  <2> HIDE DEF T, B, all
  <2>1. CASE T > 2
    <3>1. all = (B + 1)..(B + T - 2) /\ B + 1 \in Int /\ B + T - 2 \in Int /\ B + 1 <= B + T - 2
      BY <1>1, <1>5, <2>1
    <3>2. Cardinality(all) = (B + T - 2) - (B + 1) + 1
      BY <3>1, IntervalSize
    <3>3. QED
      BY <1>1, <2>1, <3>2
  <2>2. CASE ~(T > 2)
    <3>1. all = B..(B + T - 1) /\ B \in Int /\ B + T - 1 \in Int /\ B <= B + T - 1
      BY <1>1, <1>5, <2>2
    <3>2. Cardinality(all) = (B + T - 1) - B + 1
      BY <3>1, IntervalSize
    <3>3. QED
      BY <1>1, <2>2, <3>2
  <2>3. QED
    BY <2>1, <2>2
<1>7. hosts = IF T - 2 > MaxHosts THEN <<>> ELSE Collected(ip, ones)[T]
  BY DEF hostsInSubnet
<1>8. /\ Range(Collected(ip, ones)[T]) = {B + i : i \in {j \in 0..(T - 1) : ~Skipped(j, T, ones)}}
      /\ IsInjective(Collected(ip, ones)[T])
  <2>1. \A n \in Nat : n <= T =>
          /\ Range(Collected(ip, ones)[n]) =
               {B + i : i \in {j \in 0..(n - 1) : ~Skipped(j, T, ones)}}
          /\ IsInjective(Collected(ip, ones)[n])
    BY CollectedInTurns, Zenon
  <2>2. T \in Nat /\ T <= T
    BY <1>1
  <2> HIDE DEF T, B
  <2>3. QED
    BY <2>1, <2>2, Zenon
<1>9. {B + i : i \in {j \in 0..(T - 1) : ~Skipped(j, T, ones)}} = all
  <2>1. \A j : Skipped(j, T, ones) <=> T > 2 /\ (j = 0 \/ j = T - 1)
    BY <1>3 DEF Skipped
  <2> HIDE DEF T, B, all
  <2>2. ASSUME NEW a \in all
        PROVE  a - B \in {j \in 0..(T - 1) : ~Skipped(j, T, ones)} /\ a = B + (a - B)
    BY <1>1, <1>5, <2>1
  <2>3. ASSUME NEW j \in 0..(T - 1), ~Skipped(j, T, ones)
        PROVE  B + j \in all
    BY <1>1, <1>5, <2>1, <2>3
  <2>4. QED
    BY <2>2, <2>3
<1>10. Cardinality(all) > MaxHosts <=> T - 2 > MaxHosts
  BY <1>1, <1>2, <1>6
<1>11. Range(<<>>) = {} /\ IsInjective(<<>>)
  BY DEF Range, IsInjective
<1>12. QED
  <2> HIDE DEF T, B, all, hosts
  <2>1. Range(hosts) = (IF Cardinality(all) > MaxHosts THEN {} ELSE all) /\ IsInjective(hosts)
    BY <1>7, <1>8, <1>9, <1>10, <1>11
  <2>2. QED
    BY <2>1 DEF all, hosts

\* hostsInSubnet yields, for every address of every width and every prefix, each
\* host of the subnet once and nothing else, or nothing when there are more than
\* maxSweepHosts: the theorem of the property HostsAreTheSubnet.
THEOREM SweepsTouchTheSubnet == Sweeps => []HostsAreTheSubnet
<1>1. FirstScan => HostsAreTheSubnet
  <2>1. ASSUME NEW ip \in Addresses, NEW ones \in 0..Width
        PROVE  Base(ip, ones) \in Addresses
    <3> DEFINE T == Shifted[Width - ones]
               B == Base(ip, ones)
               W == Shifted[Width]
    <3>1. /\ T \in Nat /\ T > 0 /\ W \in Nat /\ B + T <= W
          /\ ip \div T \in Nat /\ B = T * (ip \div T)
      BY SubnetNumbers
    <3> HIDE DEF T, B, W
    <3>2. B \in Nat
      BY <3>1
    <3>3. B \in 0..(W - 1)
      BY <3>1, <3>2
    <3>4. QED
      BY <3>3 DEF Addresses, B, W
  <2>2. FirstScan => net.ip \in Addresses /\ net.ones \in 0..Width
    BY <2>1 DEF FirstScan, Networks
  <2>3. QED
    BY <2>2, HostsOfNetwork DEF HostsAreTheSubnet
<1>2. FirstScan /\ [NextScan]_net => FirstScan'
  BY DEF NextScan, FirstScan
<1>3. QED
  BY <1>1, <1>2, PTL DEF Sweeps

-----------------------------------------------------------------------------
(* Bytes, labels and names. *)

\* The limits and the kinds of bytes are numbers in the order the code counts on.
LEMMA Sizes ==
  /\ MaxLabel \in Nat /\ MaxLabel > 0 /\ MaxTotal \in Nat /\ MaxDepth \in Nat
  /\ Quarter = MaxLabel + 1 /\ Quarter \in Nat /\ ByteSize \in Nat
  /\ Quarter < 3 * Quarter /\ 3 * Quarter < ByteSize
  /\ Byte \subseteq Nat
  /\ \A b \in Byte : b < Quarter <=> ~IsPointer(b) /\ ~IsReserved(b)
  /\ \A b \in Byte : IsPointer(b) => b >= Quarter
  /\ ~IsPointer(0) /\ ~IsReserved(0)
BY SizeAssumption DEF Quarter, ByteSize, Byte, IsPointer, IsReserved

\* A letter in lower case is a byte.
LEMMA LowerByte ==
  ASSUME NEW c \in Byte
  PROVE  Lower(c) \in Byte
BY SizeAssumption DEF Lower

\* What stands in a message is a byte.
LEMMA ByteOf ==
  ASSUME NEW m \in Seq(Byte), NEW off \in Nat, off < Len(m)
  PROVE  At(m, off) \in Byte /\ At(m, off) \in Nat
<1>1. off + 1 \in 1..Len(m)
  OBVIOUS
<1>2. m[off + 1] \in Byte
  BY <1>1, ElementOfSeq
<1>3. QED
  BY <1>2, Sizes DEF At

\* A label inside the message consists of bytes.
LEMMA LabelType ==
  ASSUME NEW m \in Seq(Byte), NEW off \in Nat, off < Len(m), Fits(m, off)
  PROVE  Label(m, off) \in Seq(Byte)
<1> DEFINE n == At(m, off)
<1>1. n \in Nat /\ off + 1 + n <= Len(m)
  BY ByteOf DEF Fits
<1> HIDE DEF n
<1>2. \A i \in 1..n : Lower(At(m, off + i)) \in Byte
  BY <1>1, ByteOf, LowerByte
<1>3. [i \in 1..n |-> Lower(At(m, off + i))] \in Seq(Byte)
  BY <1>1, <1>2
<1>4. QED
  BY <1>3 DEF Label, n

\* A pointer leads to a place, in the message or not.
LEMMA PointerType ==
  ASSUME NEW high \in Byte, IsPointer(high), NEW low \in Byte
  PROVE  Pointer(high, low) \in Nat
<1>1. high - 3 * Quarter \in Nat /\ ByteSize \in Nat /\ low \in Nat
  BY Sizes DEF IsPointer
<1>2. (high - 3 * Quarter) * ByteSize \in Nat
  BY <1>1
<1>3. QED
  BY <1>1, <1>2 DEF Pointer

\* A label in front of a name, and another place to go on.
LEMMA ReadTypes ==
  /\ Error \notin Read /\ Error \in Results
  /\ \A r \in Results : r # Error => r \in Read
  /\ \A next \in Nat : [name |-> <<>>, next |-> next] \in Read
  /\ \A r \in Read, label \in Seq(Byte) : [r EXCEPT !.name = <<label>> \o @] \in Read
  /\ \A r \in Read, next \in Nat : [r EXCEPT !.next = next] \in Read
<1>1. /\ Error \notin Read /\ Error \in Results
      /\ \A r \in Results : r # Error => r \in Read
  BY ErrorAssumption DEF Results
<1>2. \A next \in Nat : [name |-> <<>>, next |-> next] \in Read
  BY DEF Read, DomainNames
<1>3. ASSUME NEW r \in Read, NEW label \in Seq(Byte)
      PROVE  [r EXCEPT !.name = <<label>> \o @] \in Read
  <2>1. r.name \in Seq(Seq(Byte)) /\ <<label>> \in Seq(Seq(Byte))
    BY DEF Read, DomainNames
  <2>2. <<label>> \o r.name \in Seq(Seq(Byte))
    BY <2>1, ConcatProperties
  <2>3. QED
    BY <2>2 DEF Read, DomainNames
<1>4. \A r \in Read, next \in Nat : [r EXCEPT !.next = next] \in Read
  BY DEF Read
<1>5. QED
  BY <1>1, <1>2, <1>3, <1>4

-----------------------------------------------------------------------------
(* The decoders. *)

\* Where a decoder goes on after a label, and at the end of a pointer.
AfterLabel(m, p) ==
  [off |-> p.off + At(m, p.off) + 1, depth |-> p.depth, total |-> p.total + At(m, p.off) + 1]
AtPointer(m, p) ==
  [off |-> Pointer(At(m, p.off), At(m, p.off + 1)), depth |-> p.depth + 1, total |-> 0]

HasLabel(m, p) ==
  /\ At(m, p.off) # 0 /\ ~IsPointer(At(m, p.off)) /\ ~IsReserved(At(m, p.off))
  /\ Fits(m, p.off) /\ ~(p.total + At(m, p.off) + 1 > MaxTotal)

HasPointer(m, p) == IsPointer(At(m, p.off)) /\ ~(p.off + 1 >= Len(m))

Inside(m, p) == ~(p.off >= Len(m) \/ p.depth > MaxDepth)

\* The cases of a turn.
LEMMA DecodeTurnCases ==
  ASSUME NEW m, NEW p, NEW f
  PROVE  DecodeTurn(m, p, f) =
           IF ~Inside(m, p) THEN Error
           ELSE IF At(m, p.off) = 0 THEN [name |-> <<>>, next |-> p.off + 1]
           ELSE IF HasPointer(m, p)
             THEN IF f[AtPointer(m, p)] = Error THEN Error
                  ELSE [f[AtPointer(m, p)] EXCEPT !.next = p.off + 2]
           ELSE IF HasLabel(m, p)
             THEN IF f[AfterLabel(m, p)] = Error THEN Error
                  ELSE [f[AfterLabel(m, p)] EXCEPT !.name = <<Label(m, p.off)>> \o @]
           ELSE Error
<1> DEFINE b == At(m, p.off)
<1>1. CASE ~Inside(m, p)
  BY <1>1 DEF DecodeTurn, Inside
<1>2. CASE Inside(m, p) /\ b = 0
  <2>1. ~IsPointer(b) /\ ~IsReserved(b)
    BY <1>2, Sizes
  <2>2. QED
    BY <1>2, <2>1 DEF DecodeTurn, Inside
<1>3. CASE Inside(m, p) /\ b # 0 /\ IsPointer(b)
  <2>1. ~IsReserved(b) /\ ~HasLabel(m, p)
    BY <1>3 DEF IsReserved, HasLabel
  <2>2. QED
    BY <1>3, <2>1 DEF DecodeTurn, Inside, HasPointer, AtPointer, NextAfterPointer
<1>4. CASE Inside(m, p) /\ b # 0 /\ ~IsPointer(b)
  BY <1>4 DEF DecodeTurn, Inside, HasPointer, HasLabel, AfterLabel
<1>5. QED
  BY <1>1, <1>2, <1>3, <1>4

\* Wherever a turn goes on, it is a place again.
LEMMA PlaceTypes ==
  ASSUME NEW m \in Seq(Byte), NEW p \in Places, Inside(m, p)
  PROVE  /\ p.off \in Nat /\ p.depth \in Nat /\ p.total \in Nat /\ Len(m) \in Nat
         /\ p.off < Len(m) /\ p.depth <= MaxDepth /\ At(m, p.off) \in Byte /\ At(m, p.off) \in Nat
         /\ AfterLabel(m, p) \in Places
         /\ AfterLabel(m, p).off = p.off + At(m, p.off) + 1 /\ AfterLabel(m, p).depth = p.depth
         /\ HasPointer(m, p) => AtPointer(m, p) \in Places /\ AtPointer(m, p).depth = p.depth + 1
<1> DEFINE b == At(m, p.off)
<1>1. p.off \in Nat /\ p.depth \in Nat /\ p.total \in Nat /\ Len(m) \in Nat
  BY DEF Places
<1>2. p.off < Len(m) /\ p.depth <= MaxDepth
  BY <1>1, Sizes DEF Inside
<1>3. b \in Byte /\ b \in Nat
  BY <1>1, <1>2, ByteOf
<1>4. HasPointer(m, p) => AtPointer(m, p) \in Places /\ AtPointer(m, p).depth = p.depth + 1
  <2>1. SUFFICES ASSUME HasPointer(m, p)
                 PROVE  AtPointer(m, p) \in Places /\ AtPointer(m, p).depth = p.depth + 1
    OBVIOUS
  <2>2. IsPointer(b) /\ At(m, p.off + 1) \in Byte
    BY <1>1, <2>1, ByteOf DEF HasPointer
  <2>3. Pointer(b, At(m, p.off + 1)) \in Nat
    BY <1>3, <2>2, PointerType
  <2>4. QED
    BY <1>1, <2>3 DEF AtPointer, Places
<1> HIDE DEF b
<1>6. /\ AfterLabel(m, p) \in Places
      /\ AfterLabel(m, p).off = p.off + b + 1 /\ AfterLabel(m, p).depth = p.depth
  BY <1>1, <1>3 DEF Places, AfterLabel, b
<1>7. QED
  BY <1>1, <1>2, <1>3, <1>4, <1>6 DEF b

\* A turn yields a result if those it takes from other places are results.
LEMMA DecodeTurnType ==
  ASSUME NEW m \in Seq(Byte), NEW f \in [Places -> Results], NEW p \in Places
  PROVE  DecodeTurn(m, p, f) \in Results
<1>1. CASE ~Inside(m, p)
  BY <1>1, DecodeTurnCases, ReadTypes
<1>2. CASE Inside(m, p) /\ At(m, p.off) = 0
  <2>1. [name |-> <<>>, next |-> p.off + 1] \in Read
    BY <1>2, PlaceTypes, ReadTypes
  <2>2. QED
    BY <1>2, <2>1, DecodeTurnCases DEF Results
<1>3. CASE Inside(m, p) /\ At(m, p.off) # 0 /\ HasPointer(m, p)
  <2>1. f[AtPointer(m, p)] \in Results /\ p.off + 2 \in Nat
    BY <1>3, PlaceTypes
  <2>2. QED
    BY <1>3, <2>1, DecodeTurnCases, ReadTypes DEF Results
<1>4. CASE Inside(m, p) /\ At(m, p.off) # 0 /\ ~HasPointer(m, p) /\ HasLabel(m, p)
  <2>1. f[AfterLabel(m, p)] \in Results
    BY <1>4, PlaceTypes
  <2>2. Label(m, p.off) \in Seq(Byte)
    BY <1>4, PlaceTypes, LabelType DEF HasLabel
  <2>3. QED
    BY <1>4, <2>1, <2>2, DecodeTurnCases, ReadTypes DEF Results
<1>5. CASE Inside(m, p) /\ At(m, p.off) # 0 /\ ~HasPointer(m, p) /\ ~HasLabel(m, p)
  BY <1>5, DecodeTurnCases, ReadTypes
<1>6. QED
  BY <1>1, <1>2, <1>3, <1>4, <1>5

\* How far a decoder still is from its end: the pointers it may follow, then
\* the bytes ahead.
Ahead(m, p) ==
  IF Inside(m, p) THEN (MaxDepth + 1 - p.depth) * (Len(m) + 1) + (Len(m) - p.off) ELSE 0

\* However pointers loop, a turn that goes on gets nearer to the end.
LEMMA AheadFalls ==
  ASSUME NEW m \in Seq(Byte), NEW p \in Places
  PROVE  /\ Ahead(m, p) \in Nat
         /\ Inside(m, p) /\ HasPointer(m, p) => Ahead(m, AtPointer(m, p)) < Ahead(m, p)
         /\ Inside(m, p) /\ HasLabel(m, p) => Ahead(m, AfterLabel(m, p)) < Ahead(m, p)
<1>1. ASSUME NEW q \in Places
      PROVE  /\ Ahead(m, q) \in Nat
             /\ Inside(m, q) =>
                  /\ Ahead(m, q) = (MaxDepth + 1 - q.depth) * (Len(m) + 1) + (Len(m) - q.off)
                  /\ Ahead(m, q) > 0
             /\ ~Inside(m, q) => Ahead(m, q) = 0
  <2>1. CASE Inside(m, q)
    <3> DEFINE d == MaxDepth + 1 - q.depth
               l == Len(m) + 1
    <3>1. d \in Nat /\ d > 0 /\ l \in Nat /\ l > 0 /\ Len(m) - q.off \in Nat
      BY <2>1, PlaceTypes, Sizes
    <3> HIDE DEF d, l
    <3>2. d * l \in Nat /\ d * l > 0
      BY <3>1
    <3>3. Ahead(m, q) = d * l + (Len(m) - q.off)
      BY <2>1 DEF Ahead, d, l
    <3>4. QED
      BY <2>1, <3>1, <3>2, <3>3 DEF d, l
  <2>2. CASE ~Inside(m, q)
    BY <2>2 DEF Ahead
  <2>3. QED
    BY <2>1, <2>2
<1>2. ASSUME Inside(m, p), HasPointer(m, p)
      PROVE  Ahead(m, AtPointer(m, p)) < Ahead(m, p)
  <2> DEFINE q == AtPointer(m, p)
             d == MaxDepth + 1 - p.depth
             l == Len(m) + 1
  <2>1. q \in Places /\ q.depth = p.depth + 1
    BY <1>2, PlaceTypes
  <2>2. CASE Inside(m, q)
    <3>9. q.off \in Nat /\ q.off < Len(m) /\ Len(m) \in Nat
      <4> HIDE DEF q
      <4>1. QED
        BY <2>1, <2>2, PlaceTypes
    <3>8. /\ p.off \in Nat /\ p.off < Len(m) /\ p.depth \in Nat /\ p.depth <= MaxDepth
          /\ MaxDepth \in Nat
      BY <1>2, PlaceTypes, Sizes
    <3>1. /\ d \in Nat /\ l \in Nat /\ Len(m) - p.off \in Nat /\ Len(m) - p.off > 0
          /\ Len(m) - q.off \in Nat /\ Len(m) - q.off < l
      <4> HIDE DEF q
      <4>1. QED
        BY <3>9, <3>8
    <3>2. Ahead(m, p) = d * l + (Len(m) - p.off)
      BY <1>1, <1>2
    <3>3. MaxDepth + 1 - q.depth = d - 1
      BY <1>2, <2>1, PlaceTypes, Sizes
    <3>4. Ahead(m, q) = (d - 1) * l + (Len(m) - q.off)
      BY <1>1, <2>1, <2>2, <3>3
    <3> HIDE DEF d, l, q
    <3>5. (d - 1) * l = d * l - l
      BY <3>1
    <3>6. d * l \in Nat
      BY <3>1
    <3>7. QED
      BY <3>1, <3>2, <3>4, <3>5, <3>6 DEF q
  <2>3. CASE ~Inside(m, q)
    BY <1>1, <1>2, <2>1, <2>3
  <2>4. QED
    BY <2>2, <2>3
<1>3. ASSUME Inside(m, p), HasLabel(m, p)
      PROVE  Ahead(m, AfterLabel(m, p)) < Ahead(m, p)
  <2> DEFINE q == AfterLabel(m, p)
             x == (MaxDepth + 1 - p.depth) * (Len(m) + 1)
  <2>1. q \in Places /\ q.depth = p.depth /\ q.off = p.off + At(m, p.off) + 1
    BY <1>3, PlaceTypes
  <2>2. CASE Inside(m, q)
    <3>1. Ahead(m, p) = x + (Len(m) - p.off) /\ Ahead(m, q) = x + (Len(m) - q.off)
      BY <1>1, <1>3, <2>1, <2>2
    <3>2. x \in Int
      BY <1>3, PlaceTypes, Sizes
    <3> HIDE DEF x
    <3>3. QED
      BY <1>3, <2>1, <3>1, <3>2, PlaceTypes
  <2>3. CASE ~Inside(m, q)
    BY <1>1, <1>3, <2>1, <2>3
  <2>4. QED
    BY <2>2, <2>3
<1>4. QED
  BY <1>1, <1>2, <1>3

\* A turn takes nothing but results from nearer to the end.
LEMMA TurnLooksAhead ==
  ASSUME NEW m \in Seq(Byte), NEW p \in Places, NEW f, NEW h,
         \A q \in Places : Ahead(m, q) < Ahead(m, p) => f[q] = h[q]
  PROVE  DecodeTurn(m, p, f) = DecodeTurn(m, p, h)
<1>1. Inside(m, p) /\ HasPointer(m, p) => f[AtPointer(m, p)] = h[AtPointer(m, p)]
  BY PlaceTypes, AheadFalls
<1>2. Inside(m, p) /\ HasLabel(m, p) => f[AfterLabel(m, p)] = h[AfterLabel(m, p)]
  BY PlaceTypes, AheadFalls
<1>3. QED
  BY <1>1, <1>2, DecodeTurnCases

\* decodeName ends and returns an error, or a name and a place; loop by loop
\* it computes what DecodeTurn says.
LEMMA DecodeUnfolds ==
  ASSUME NEW m \in Seq(Byte)
  PROVE  \A p \in Places :
           /\ decodeName(m)[p] \in Results
           /\ decodeName(m)[p] = DecodeTurn(m, p, decodeName(m))
<1> DEFINE S == [Places -> Results]
           turn(f) == [p \in Places |-> DecodeTurn(m, p, f)]
           Phi == [f \in S |-> turn(f)]
           rank == [p \in Places |-> Ahead(m, p)]
           read == decodeName(m)
<1>1. PICK f \in S : f = turn(f)
  <2>1. [p \in Places |-> Error] \in S
    BY ReadTypes
  <2>2. \A p \in Places : rank[p] \in Nat
    BY AheadFalls
  <2>3. Phi \in [S -> S]
    <3>1. \A f \in S : turn(f) \in S
      BY DecodeTurnType
    <3> HIDE DEF turn, S
    <3>2. QED
      BY <3>1
  <2>4. LooksBelow(Phi, S, Places, rank)
    <3>1. ASSUME NEW f \in S, NEW h \in S, NEW x \in Places,
                 \A y \in Places : rank[y] < rank[x] => f[y] = h[y]
          PROVE  Phi[f][x] = Phi[h][x]
      <4>1. \A y \in Places : Ahead(m, y) < Ahead(m, x) => f[y] = h[y]
        BY <3>1
      <4>2. DecodeTurn(m, x, f) = DecodeTurn(m, x, h)
        BY <4>1, TurnLooksAhead
      <4>3. QED
        BY <4>2
    <3> HIDE DEF Phi, rank, S
    <3>2. QED
      BY <3>1 DEF LooksBelow
  <2>5. AreMaps(S, Places, Results)
    BY DEF AreMaps
  <2> HIDE DEF Phi, rank, S
  <2>6. \E f \in S : f = Phi[f]
    BY <2>1, <2>2, <2>3, <2>4, <2>5, Recursion
  <2>7. QED
    BY <2>6 DEF Phi
<1>2. read = turn(read)
  <2>1. \E g : g = turn(g)
    BY <1>1
  <2>2. QED
    BY <2>1 DEF decodeName
<1> HIDE DEF read
<1> DEFINE Same == {n \in Nat : \A p \in Places : Ahead(m, p) = n => read[p] = f[p]}
<1>3. ASSUME NEW n \in Nat, 0..(n - 1) \subseteq Same
      PROVE  n \in Same
  <2>1. ASSUME NEW p \in Places, Ahead(m, p) = n
        PROVE  read[p] = f[p]
    <3>1. \A q \in Places : Ahead(m, q) < Ahead(m, p) => read[q] = f[q]
      BY <1>3, <2>1, AheadFalls
    <3>2. DecodeTurn(m, p, read) = DecodeTurn(m, p, f)
      BY <3>1, TurnLooksAhead
    <3>3. QED
      BY <1>1, <1>2, <3>2
  <2>2. QED
    BY <2>1
<1>4. Nat \subseteq Same
  <2> HIDE DEF Same
  <2>1. QED
    BY <1>3, Induction
<1>5. \A p \in Places : read[p] = f[p]
  BY <1>4, AheadFalls
<1>6. QED
  BY <1>1, <1>2, <1>5 DEF read

PlainAfterLabel(m, p) == [off |-> p.off + At(m, p.off) + 1, total |-> p.total + At(m, p.off) + 1]

\* The cases of a turn of decodeNameUncompressed.
LEMMA PlainTurnCases ==
  ASSUME NEW m \in Seq(Byte), NEW p \in PlainPlaces, NEW f
  PROVE  PlainTurn(m, p, f) =
           IF p.off >= Len(m) THEN Error
           ELSE IF At(m, p.off) = 0 THEN [name |-> <<>>, next |-> p.off + 1]
           ELSE IF HasLabel(m, p)
             THEN IF f[PlainAfterLabel(m, p)] = Error THEN Error
                  ELSE [f[PlainAfterLabel(m, p)] EXCEPT !.name = <<Label(m, p.off)>> \o @]
           ELSE Error
<1> DEFINE b == At(m, p.off)
<1>1. CASE p.off >= Len(m)
  BY <1>1 DEF PlainTurn
<1>2. CASE ~(p.off >= Len(m)) /\ b = 0
  BY <1>2, Sizes DEF PlainTurn
<1>3. CASE ~(p.off >= Len(m)) /\ b # 0 /\ b >= Quarter
  <2>1. b \in Byte /\ b \in Nat
    BY <1>3, ByteOf DEF PlainPlaces
  <2>2. ~HasLabel(m, p)
    BY <1>3, <2>1, Sizes DEF HasLabel
  <2>3. QED
    BY <1>3, <2>2 DEF PlainTurn
<1>4. CASE ~(p.off >= Len(m)) /\ b # 0 /\ ~(b >= Quarter)
  <2>1. b \in Byte /\ b \in Nat
    BY <1>4, ByteOf DEF PlainPlaces
  <2>2. HasLabel(m, p) <=> Fits(m, p.off) /\ ~TooLong(p.total + b + 1)
    BY <1>4, <2>1, Sizes DEF HasLabel, TooLong
  <2>3. QED
    BY <1>4, <2>2 DEF PlainTurn, PlainAfterLabel
<1>5. QED
  BY <1>1, <1>2, <1>3, <1>4

\* The same for decodeNameUncompressed: it goes on behind labels.
LEMMA PlainPlaceTypes ==
  ASSUME NEW m \in Seq(Byte), NEW p \in PlainPlaces, ~(p.off >= Len(m))
  PROVE  /\ p.off \in Nat /\ p.total \in Nat /\ Len(m) \in Nat /\ p.off < Len(m)
         /\ At(m, p.off) \in Byte /\ At(m, p.off) \in Nat
         /\ PlainAfterLabel(m, p) \in PlainPlaces
         /\ PlainAfterLabel(m, p).off = p.off + At(m, p.off) + 1
<1> DEFINE b == At(m, p.off)
<1>1. p.off \in Nat /\ p.total \in Nat /\ Len(m) \in Nat /\ p.off < Len(m)
  BY DEF PlainPlaces
<1>2. b \in Byte /\ b \in Nat
  BY <1>1, ByteOf
<1> HIDE DEF b
<1>3. PlainAfterLabel(m, p) \in PlainPlaces /\ PlainAfterLabel(m, p).off = p.off + b + 1
  BY <1>1, <1>2 DEF PlainPlaces, PlainAfterLabel, b
<1>4. QED
  BY <1>1, <1>2, <1>3 DEF b

\* A turn of it yields a result, too.
LEMMA PlainTurnType ==
  ASSUME NEW m \in Seq(Byte), NEW f \in [PlainPlaces -> Results], NEW p \in PlainPlaces
  PROVE  PlainTurn(m, p, f) \in Results
<1>1. CASE p.off >= Len(m)
  BY <1>1, PlainTurnCases, ReadTypes
<1>2. CASE ~(p.off >= Len(m)) /\ At(m, p.off) = 0
  <2>1. [name |-> <<>>, next |-> p.off + 1] \in Read
    BY <1>2, PlainPlaceTypes, ReadTypes
  <2>2. QED
    BY <1>2, <2>1, PlainTurnCases DEF Results
<1>3. CASE ~(p.off >= Len(m)) /\ At(m, p.off) # 0 /\ HasLabel(m, p)
  <2>1. f[PlainAfterLabel(m, p)] \in Results
    BY <1>3, PlainPlaceTypes
  <2>2. Label(m, p.off) \in Seq(Byte)
    BY <1>3, PlainPlaceTypes, LabelType DEF HasLabel
  <2>3. QED
    BY <1>3, <2>1, <2>2, PlainTurnCases, ReadTypes DEF Results
<1>4. CASE ~(p.off >= Len(m)) /\ At(m, p.off) # 0 /\ ~HasLabel(m, p)
  BY <1>4, PlainTurnCases, ReadTypes
<1>5. QED
  BY <1>1, <1>2, <1>3, <1>4

Behind(m, off) == IF off < Len(m) THEN Len(m) - off ELSE 0

\* It takes nothing but results from further on.
LEMMA PlainTurnLooksAhead ==
  ASSUME NEW m \in Seq(Byte), NEW p \in PlainPlaces, NEW f, NEW h,
         \A q \in PlainPlaces : Behind(m, q.off) < Behind(m, p.off) => f[q] = h[q]
  PROVE  PlainTurn(m, p, f) = PlainTurn(m, p, h)
<1>1. ASSUME ~(p.off >= Len(m)), HasLabel(m, p)
      PROVE  f[PlainAfterLabel(m, p)] = h[PlainAfterLabel(m, p)]
  <2>1. Behind(m, PlainAfterLabel(m, p).off) < Behind(m, p.off)
    BY <1>1, PlainPlaceTypes DEF Behind
  <2>2. QED
    BY <1>1, <2>1, PlainPlaceTypes
<1>2. CASE ~(p.off >= Len(m)) /\ At(m, p.off) # 0 /\ HasLabel(m, p)
  <2>1. f[PlainAfterLabel(m, p)] = h[PlainAfterLabel(m, p)]
    BY <1>1, <1>2
  <2> DEFINE turn(v) == IF v = Error THEN Error ELSE [v EXCEPT !.name = <<Label(m, p.off)>> \o @]
  <2>2. /\ PlainTurn(m, p, f) = turn(f[PlainAfterLabel(m, p)])
        /\ PlainTurn(m, p, h) = turn(h[PlainAfterLabel(m, p)])
    BY <1>2, PlainTurnCases
  <2> HIDE DEF turn
  <2>3. QED
    BY <2>1, <2>2
<1>3. CASE p.off >= Len(m) \/ At(m, p.off) = 0 \/ ~HasLabel(m, p)
  BY <1>3, PlainTurnCases
<1>4. QED
  BY <1>2, <1>3

\* decodeNameUncompressed ends, and computes loop by loop what PlainTurn says.
LEMMA PlainUnfolds ==
  ASSUME NEW m \in Seq(Byte)
  PROVE  \A p \in PlainPlaces : plainDecoder(m)[p] = PlainTurn(m, p, plainDecoder(m))
<1> DEFINE S == [PlainPlaces -> Results]
           turn(f) == [p \in PlainPlaces |-> PlainTurn(m, p, f)]
           Phi == [f \in S |-> turn(f)]
           rank == [p \in PlainPlaces |-> Behind(m, p.off)]
<1>1. \E f : f = turn(f)
  <2>1. [p \in PlainPlaces |-> Error] \in S
    BY ReadTypes
  <2>2. \A p \in PlainPlaces : rank[p] \in Nat
    BY DEF Behind, PlainPlaces
  <2>3. Phi \in [S -> S]
    <3>1. \A f \in S : turn(f) \in S
      BY PlainTurnType
    <3> HIDE DEF turn, S
    <3>2. QED
      BY <3>1
  <2>4. LooksBelow(Phi, S, PlainPlaces, rank)
    <3>1. ASSUME NEW f \in S, NEW h \in S, NEW x \in PlainPlaces,
                 \A y \in PlainPlaces : rank[y] < rank[x] => f[y] = h[y]
          PROVE  Phi[f][x] = Phi[h][x]
      <4>1. \A y \in PlainPlaces : Behind(m, y.off) < Behind(m, x.off) => f[y] = h[y]
        BY <3>1
      <4>2. PlainTurn(m, x, f) = PlainTurn(m, x, h)
        BY <4>1, PlainTurnLooksAhead
      <4>3. QED
        BY <4>2
    <3> HIDE DEF Phi, rank, S
    <3>2. QED
      BY <3>1 DEF LooksBelow
  <2>5. AreMaps(S, PlainPlaces, Results)
    BY DEF AreMaps
  <2> HIDE DEF Phi, rank, S
  <2>6. \E f \in S : f = Phi[f]
    BY <2>1, <2>2, <2>3, <2>4, <2>5, Recursion
  <2>7. QED
    BY <2>6 DEF Phi
<1>2. plainDecoder(m) = turn(plainDecoder(m))
  BY <1>1 DEF plainDecoder
<1>3. QED
  BY <1>2

-----------------------------------------------------------------------------
(* The two decoders. *)

\* Where a reader goes on from a place that is no pointer.
LEMMA FollowLabel ==
  ASSUME msg \in Seq(Byte), NEW off \in Nat
  PROVE  /\ off >= Len(msg) => Follow(off) = Nowhere /\ ~IsJump(off)
         /\ off < Len(msg) =>
              /\ IsJump(off) <=> IsPointer(At(msg, off))
              /\ ~IsJump(off) =>
                   Follow(off) = IF At(msg, off) \in 1..MaxLabel /\ Fits(msg, off)
                                 THEN off + At(msg, off) + 1 ELSE Nowhere
<1>1. Len(msg) \in Nat
  OBVIOUS
<1>2. CASE off >= Len(msg)
  <2>1. off \notin 0..(Len(msg) - 1)
    BY <1>1, <1>2
  <2>2. QED
    BY <1>1, <1>2, <2>1 DEF Follow, IsJump
<1>3. CASE off < Len(msg)
  <2>1. off \in 0..(Len(msg) - 1) /\ At(msg, off) \in Byte /\ At(msg, off) \in Nat
    BY <1>1, <1>3, ByteOf
  <2>2. off + At(msg, off) < Len(msg) <=> Fits(msg, off)
    BY <1>1, <2>1 DEF Fits
  <2>3. At(msg, off) \in 1..MaxLabel => ~IsPointer(At(msg, off))
    BY <2>1, Sizes
  <2>4. off + 1 + At(msg, off) = off + At(msg, off) + 1
    BY <2>1
  <2>5. IsJump(off) <=> IsPointer(At(msg, off))
    BY <2>1 DEF IsJump
  <2>6. ASSUME ~IsPointer(At(msg, off))
        PROVE  Follow(off) = IF At(msg, off) \in 1..MaxLabel /\ Fits(msg, off)
                             THEN off + At(msg, off) + 1 ELSE Nowhere
    BY <2>1, <2>2, <2>4, <2>6 DEF Follow
  <2>7. QED
    BY <1>1, <1>3, <2>5, <2>6
<1>4. QED
  BY <1>1, <1>2, <1>3

\* What the places passed are, place by place.
PassedTurn(off, passed) ==
  {off} \cup IF IsJump(off) \/ Follow(off) = Nowhere THEN {} ELSE passed[Follow(off)]

\* From a label a reader goes on behind it.
LEMMA FollowsAhead ==
  ASSUME msg \in Seq(Byte), NEW off \in Nat, ~(IsJump(off) \/ Follow(off) = Nowhere)
  PROVE  /\ off < Len(msg) /\ At(msg, off) \in 1..MaxLabel /\ Fits(msg, off)
         /\ Follow(off) = off + At(msg, off) + 1 /\ Follow(off) \in Nat
         /\ Behind(msg, Follow(off)) < Behind(msg, off)
<1>1. Len(msg) \in Nat
  OBVIOUS
<1>2. off < Len(msg)
  BY <1>1, FollowLabel
<1>3. At(msg, off) \in 1..MaxLabel /\ Fits(msg, off) /\ Follow(off) = off + At(msg, off) + 1
  BY <1>2, FollowLabel
<1>4. At(msg, off) \in Nat
  BY <1>2, ByteOf
<1>5. QED
  BY <1>1, <1>2, <1>3, <1>4 DEF Behind

\* The places a reader passes are the first, and those it passes from the next on.
LEMMA PassedUnfolds ==
  ASSUME msg \in Seq(Byte)
  PROVE  \A off \in Nat : Passed[off] = PassedTurn(off, Passed)
<1> DEFINE V == SUBSET Int
           S == [Nat -> V]
           turn(f) == [off \in Nat |-> PassedTurn(off, f)]
           Phi == [f \in S |-> turn(f)]
           rank == [off \in Nat |-> Behind(msg, off)]
<1>1. \E f : f = turn(f)
  <2>1. [off \in Nat |-> {}] \in S
    OBVIOUS
  <2>2. \A off \in Nat : rank[off] \in Nat
    BY DEF Behind
  <2>3. Phi \in [S -> S]
    <3>1. ASSUME NEW f \in S, NEW off \in Nat
          PROVE  PassedTurn(off, f) \in V
      <4>1. CASE IsJump(off) \/ Follow(off) = Nowhere
        BY <4>1 DEF PassedTurn
      <4>2. CASE ~(IsJump(off) \/ Follow(off) = Nowhere)
        <5>1. Follow(off) \in Nat
          BY <4>2, FollowsAhead
        <5>2. f[Follow(off)] \in V
          BY <5>1
        <5>3. QED
          BY <4>2, <5>2 DEF PassedTurn
      <4>3. QED
        BY <4>1, <4>2
    <3>2. \A f \in S : turn(f) \in S
      <4> HIDE DEF V
      <4>1. QED
        BY <3>1
    <3> HIDE DEF turn, S
    <3>3. QED
      BY <3>2
  <2>4. LooksBelow(Phi, S, Nat, rank)
    <3>1. ASSUME NEW f \in S, NEW h \in S, NEW off \in Nat,
                 \A y \in Nat : rank[y] < rank[off] => f[y] = h[y]
          PROVE  Phi[f][off] = Phi[h][off]
      <4>1. ~(IsJump(off) \/ Follow(off) = Nowhere) => f[Follow(off)] = h[Follow(off)]
        BY <3>1, FollowsAhead
      <4>2. PassedTurn(off, f) = PassedTurn(off, h)
        BY <4>1 DEF PassedTurn
      <4>3. QED
        BY <4>2
    <3> HIDE DEF Phi, rank, S
    <3>2. QED
      BY <3>1 DEF LooksBelow
  <2>5. AreMaps(S, Nat, V)
    BY DEF AreMaps
  <2> HIDE DEF Phi, rank, S, V
  <2>6. \E f \in S : f = Phi[f]
    BY <2>1, <2>2, <2>3, <2>4, <2>5, Recursion
  <2>7. QED
    BY <2>6 DEF Phi
<1>2. Passed = turn(Passed)
  BY <1>1 DEF Passed, PassedTurn
<1>3. QED
  BY <1>2

\* Both decoders read the same from a place on, up to the first pointer, where
\* the decoder of questions gives up.
Agree(off) ==
  \A total \in Nat :
    plainDecoder(msg)[[off |-> off, total |-> total]] =
      IF \E place \in Passed[off] : IsJump(place) THEN Error
      ELSE decodeName(msg)[[off |-> off, depth |-> 0, total |-> total]]

\* The decoders agree from every place on, whatever has been read before.
LEMMA DecodersAgreeFrom ==
  ASSUME msg \in Seq(Byte)
  PROVE  \A off \in Nat : Agree(off)
<1> DEFINE Same == {n \in Nat : \A off \in Nat : Behind(msg, off) = n => Agree(off)}
<1>1. ASSUME NEW n \in Nat, 0..(n - 1) \subseteq Same
      PROVE  n \in Same
  <2>1. ASSUME NEW off \in Nat, Behind(msg, off) = n, NEW total \in Nat
        PROVE  plainDecoder(msg)[[off |-> off, total |-> total]] =
                 IF \E place \in Passed[off] : IsJump(place) THEN Error
                 ELSE decodeName(msg)[[off |-> off, depth |-> 0, total |-> total]]
    <3> DEFINE p == [off |-> off, total |-> total]
               q == [off |-> off, depth |-> 0, total |-> total]
               f == plainDecoder(msg)
               g == decodeName(msg)
               b == At(msg, off)
    <3>1. p \in PlainPlaces /\ q \in Places /\ p.off = off /\ q.off = off /\ q.depth = 0
      BY DEF PlainPlaces, Places
    <3>2. f[p] = PlainTurn(msg, p, f) /\ g[q] = DecodeTurn(msg, q, g)
      BY <3>1, PlainUnfolds, DecodeUnfolds
    <3>3. Inside(msg, q) <=> ~(off >= Len(msg))
      BY <3>1, Sizes DEF Inside
    <3>4. HasLabel(msg, p) <=> HasLabel(msg, q)
      BY DEF HasLabel
    <3>5. /\ HasPointer(msg, q) <=> IsPointer(b) /\ ~(off + 1 >= Len(msg))
      BY DEF HasPointer
    <3>6. Passed[off] = PassedTurn(off, Passed)
      BY PassedUnfolds
    <3>7. CASE off >= Len(msg)
      <4>1. Follow(off) = Nowhere /\ ~IsJump(off)
        BY <3>7, FollowLabel
      <4>2. Passed[off] = {off}
        BY <3>6, <4>1 DEF PassedTurn
      <4>3. f[p] = Error /\ g[q] = Error
        BY <3>1, <3>2, <3>3, <3>7, PlainTurnCases, DecodeTurnCases
      <4>4. QED
        BY <4>3
    <3>8. CASE off < Len(msg) /\ IsPointer(b)
      <4>1. IsJump(off)
        BY <3>8, FollowLabel
      <4>2. off \in Passed[off]
        BY <3>6 DEF PassedTurn
      <4>3. b # 0 /\ ~HasLabel(msg, p)
        BY <3>8, Sizes DEF HasLabel
      <4>4. f[p] = Error
        BY <3>1, <3>2, <4>3, PlainTurnCases
      <4>5. QED
        BY <4>1, <4>2, <4>4
    <3>9. CASE off < Len(msg) /\ ~IsPointer(b)
      <4>1. /\ ~IsJump(off) /\ ~(off >= Len(msg)) /\ ~HasPointer(msg, q)
            /\ Follow(off) = IF b \in 1..MaxLabel /\ Fits(msg, off) THEN off + b + 1 ELSE Nowhere
        BY <3>5, <3>9, FollowLabel
      <4>2. b \in Nat
        BY <3>9, ByteOf
      <4>3. CASE b = 0
        <5>1. Passed[off] = {off}
          BY <3>6, <4>1, <4>3 DEF PassedTurn
        <5>2. ~\E place \in Passed[off] : IsJump(place)
          BY <4>1, <5>1
        <5>3. /\ f[p] = [name |-> <<>>, next |-> off + 1]
              /\ g[q] = [name |-> <<>>, next |-> off + 1]
          BY <3>1, <3>2, <3>3, <4>1, <4>3, PlainTurnCases, DecodeTurnCases
        <5>4. QED
          BY <5>2, <5>3
      <4>4. CASE b # 0 /\ ~HasLabel(msg, p)
        <5>1. f[p] = Error
          BY <3>1, <3>2, <4>4, PlainTurnCases
        <5>2. g[q] = Error
          BY <3>1, <3>2, <3>4, <4>1, <4>4, DecodeTurnCases
        <5>3. QED
          BY <5>1, <5>2
      <4>5. CASE b # 0 /\ HasLabel(msg, p)
        <5> DEFINE next == off + b + 1
                   sum == total + b + 1
                   p2 == [off |-> next, total |-> sum]
                   q2 == [off |-> next, depth |-> 0, total |-> sum]
                   turn(v) == IF v = Error THEN Error
                            ELSE [v EXCEPT !.name = <<Label(msg, off)>> \o @]
        <5>1. b \in 1..MaxLabel /\ Fits(msg, off)
          <6>1. ~IsReserved(b) /\ b \in Byte /\ Fits(msg, off)
            BY <3>9, <4>5, ByteOf DEF HasLabel
          <6>2. b < Quarter
            BY <3>9, <6>1, Sizes
          <6>3. QED
            BY <4>2, <4>5, <6>1, <6>2, Sizes
        <5>2. Follow(off) = next /\ next \in Nat /\ Follow(off) # Nowhere /\ sum \in Nat
          BY <4>1, <4>2, <5>1 DEF Nowhere
        <5>3. Passed[off] = {off} \cup Passed[next]
          BY <3>6, <4>1, <5>2 DEF PassedTurn
        <5>4. (\E place \in Passed[off] : IsJump(place))
                <=> \E place \in Passed[next] : IsJump(place)
          BY <4>1, <5>3
        <5>5. Behind(msg, next) \in 0..(n - 1)
          BY <2>1, <3>9, <4>2 DEF Behind
        <5>6. Agree(next)
          BY <1>1, <5>2, <5>5
        <5>7. f[p2] = IF \E place \in Passed[next] : IsJump(place) THEN Error ELSE g[q2]
          BY <5>2, <5>6 DEF Agree
        <5>8. PlainAfterLabel(msg, p) = p2 /\ AfterLabel(msg, q) = q2
          BY DEF PlainAfterLabel, AfterLabel
        <5>9. f[p] = turn(f[p2])
          <6>1. ~(p.off >= Len(msg)) /\ At(msg, p.off) # 0 /\ p.off = off
            BY <4>1, <4>5
          <6>2. PlainTurn(msg, p, f) = turn(f[PlainAfterLabel(msg, p)])
            <7> HIDE DEF p, f
            <7>1. QED
              BY <3>1, <4>5, <6>1, PlainTurnCases
          <6>3. QED
            BY <3>2, <5>8, <6>2
        <5>10. g[q] = turn(g[q2])
          BY <3>1, <3>2, <3>3, <3>4, <4>1, <4>5, <5>8, DecodeTurnCases
        <5>11. turn(Error) = Error
          OBVIOUS
        <5> HIDE DEF turn, p2, q2, f, g, p, q, next, sum
        <5>12. f[p] = IF \E place \in Passed[off] : IsJump(place) THEN Error ELSE g[q]
          BY <5>4, <5>7, <5>9, <5>10, <5>11
        <5>13. QED
          BY <5>12 DEF f, g, p, q
      <4>6. QED
        BY <4>3, <4>4, <4>5
    <3>10. QED
      BY <3>7, <3>8, <3>9
  <2>2. QED
    BY <2>1 DEF Agree
<1>2. Nat \subseteq Same
  <2> HIDE DEF Same
  <2>1. QED
    BY <1>1, Induction
<1>3. \A off \in Nat : Behind(msg, off) \in Nat
  BY DEF Behind
<1>4. QED
  BY <1>2, <1>3

\* They agree on every message.
LEMMA AgreementOfMessages ==
  ASSUME msg \in Seq(Byte)
  PROVE  DecodersAgree
<1>1. SUFFICES ASSUME NEW off \in 0..Len(msg)
               PROVE  decodeNameUncompressed(msg, off) =
                        IF \E place \in Passed[off] : IsJump(place) THEN Error
                        ELSE DecodeNameAt(msg, off)
  BY DEF DecodersAgree
<1>2. off \in Nat /\ 0 \in Nat
  OBVIOUS
<1>3. Agree(off)
  BY <1>2, DecodersAgreeFrom
<1>4. QED
  BY <1>2, <1>3 DEF Agree, decodeNameUncompressed, DecodeNameAt

\* Messages consist of bytes.
IsMessage == msg \in Seq(Byte)

\* Every message that can be built has nothing but bytes.
LEMMA MessagesAreBytes == Spec => []IsMessage
<1>1. Init => IsMessage
  BY DEF Init, IsMessage
<1>2. IsMessage /\ [NextByte]_msg => IsMessage'
  BY BytesAssumption, AppendProperties DEF NextByte, IsMessage
<1>3. QED
  BY <1>1, <1>2, PTL DEF Spec

\* For every message over any bytes and every place in it: the decoder of
\* questions reads what the decoder of replies reads unless a pointer is on the
\* way, and then refuses it (DecodersAgree).
THEOREM DecodersAlwaysAgree == Spec => []DecodersAgree
<1>1. IsMessage => DecodersAgree
  BY AgreementOfMessages DEF IsMessage
<1>2. QED
  BY <1>1, MessagesAreBytes, PTL

\* What FlattenSeq has put together after some of the sequences.
Flattened(seqs) ==
  LET flatten[i \in 1..Len(seqs)] == IF i = 1 THEN seqs[i] ELSE flatten[i - 1] \o seqs[i]
  IN  flatten
FirstOnes(seqs, k) == IF k = 0 THEN <<>> ELSE Flattened(seqs)[k]

\* FlattenSeq puts sequence behind sequence.
LEMMA FlattenUnfolds ==
  ASSUME NEW V, NEW seqs \in Seq(Seq(V))
  PROVE  /\ \A k \in 0..Len(seqs) : FirstOnes(seqs, k) \in Seq(V)
         /\ \A k \in 1..Len(seqs) : FirstOnes(seqs, k) = FirstOnes(seqs, k - 1) \o seqs[k]
         /\ FlattenSeq(seqs) = FirstOnes(seqs, Len(seqs))
<1> DEFINE n == Len(seqs)
           D == 1..n
           U == Seq(V)
           S == [D -> U]
           turn(f) == [i \in D |-> IF i = 1 THEN seqs[i] ELSE f[i - 1] \o seqs[i]]
           Phi == [f \in S |-> turn(f)]
           rank == [i \in D |-> i]
           flat == Flattened(seqs)
<1>0. n \in Nat /\ \A i \in D : seqs[i] \in U
  BY ElementOfSeq
<1> HIDE DEF n
<1>1. \E f : f = turn(f)
  <2>1. [i \in D |-> <<>>] \in S
    OBVIOUS
  <2>2. \A i \in D : rank[i] \in Nat
    BY <1>0
  <2>3. Phi \in [S -> S]
    <3>1. ASSUME NEW f \in S, NEW i \in D
          PROVE  (IF i = 1 THEN seqs[i] ELSE f[i - 1] \o seqs[i]) \in U
      <4>1. i # 1 => i - 1 \in D
        BY <1>0
      <4>2. i # 1 => f[i - 1] \in Seq(V)
        BY <4>1
      <4>3. i # 1 => f[i - 1] \o seqs[i] \in Seq(V)
        BY <1>0, <4>2, ConcatProperties
      <4>4. QED
        BY <1>0, <4>3
    <3> HIDE DEF D, U
    <3>2. \A f \in S : turn(f) \in S
      BY <3>1
    <3> HIDE DEF turn, S
    <3>3. QED
      BY <3>2
  <2>4. LooksBelow(Phi, S, D, rank)
    <3>1. ASSUME NEW f \in S, NEW h \in S, NEW x \in D,
                 \A y \in D : rank[y] < rank[x] => f[y] = h[y]
          PROVE  Phi[f][x] = Phi[h][x]
      <4>1. x # 1 => x - 1 \in D /\ x - 1 < x
        BY <1>0
      <4>2. x # 1 => f[x - 1] = h[x - 1]
        BY <3>1, <4>1
      <4> HIDE DEF D, U
      <4>3. QED
        BY <4>2
    <3> HIDE DEF Phi, rank, S, D
    <3>2. QED
      BY <3>1 DEF LooksBelow
  <2>5. AreMaps(S, D, U)
    BY DEF AreMaps
  <2> HIDE DEF Phi, rank, S, D, U
  <2>6. \E f \in S : f = Phi[f]
    BY <2>1, <2>2, <2>3, <2>4, <2>5, Recursion
  <2>7. QED
    BY <2>6 DEF Phi
<1>2. flat = turn(flat)
  BY <1>1 DEF Flattened, n
<1> HIDE DEF flat
<1>3. \A k \in D : flat[k] = IF k = 1 THEN seqs[k] ELSE flat[k - 1] \o seqs[k]
  BY <1>2
<1> HIDE DEF turn, Phi, U
<1>8. FirstOnes(seqs, 0) = <<>> /\ \A k \in D : FirstOnes(seqs, k) = flat[k]
  BY <1>0 DEF FirstOnes, flat
<1>4. ASSUME NEW k \in D
      PROVE  FirstOnes(seqs, k) = FirstOnes(seqs, k - 1) \o seqs[k]
  <2>1. CASE k = 1
    <3>1. <<>> \o seqs[k] = seqs[k]
      BY <1>0, ConcatEmptySeq DEF U
    <3>2. k - 1 = 0
      BY <2>1
    <3>3. QED
      BY <1>3, <1>8, <2>1, <3>1, <3>2
  <2>2. CASE k # 1
    <3>1. k - 1 \in D
      BY <1>0, <2>2
    <3>2. QED
      BY <1>3, <1>8, <2>2, <3>1
  <2>3. QED
    BY <2>1, <2>2
<1> DEFINE Typed == {k \in Nat : k <= n => FirstOnes(seqs, k) \in Seq(V)}
<1>5. ASSUME NEW k \in Nat, 0..(k - 1) \subseteq Typed
      PROVE  k \in Typed
  <2>1. CASE k = 0
    <3>1. <<>> \in Seq(V)
      OBVIOUS
    <3>2. QED
      BY <1>8, <2>1, <3>1
  <2>2. CASE k # 0 /\ k <= n
    <3>1. k \in D /\ k - 1 \in Typed /\ k - 1 <= n
      BY <1>0, <1>5, <2>2
    <3>2. FirstOnes(seqs, k - 1) \o seqs[k] \in Seq(V)
      BY <1>0, <3>1, ConcatProperties DEF U
    <3>3. QED
      BY <1>4, <3>1, <3>2
  <2>3. QED
    BY <2>1, <2>2
<1>6. Nat \subseteq Typed
  <2> HIDE DEF Typed
  <2>1. QED
    BY <1>5, Induction
<1>7. FlattenSeq(seqs) = FirstOnes(seqs, n)
  <2>1. CASE n = 0
    <3>1. seqs = <<>>
      BY <2>1 DEF n
    <3>2. FlattenSeq(seqs) = seqs
      BY <2>1 DEF FlattenSeq, n
    <3>3. QED
      BY <1>8, <2>1, <3>1, <3>2
  <2>2. CASE n # 0
    <3>1. n \in D
      BY <1>0, <2>2
    <3>2. FlattenSeq(seqs) = flat[n]
      BY <2>2 DEF FlattenSeq, Flattened, flat, n
    <3>3. QED
      BY <1>8, <3>1, <3>2
  <2>3. QED
    BY <2>1, <2>2
<1>9. QED
  <2>1. \A k \in 0..n : FirstOnes(seqs, k) \in Seq(V)
    BY <1>0, <1>6
  <2>2. QED
    BY <1>4, <1>7, <2>1 DEF n

\* Where the sequences are in what FlattenSeq makes of them.
LEMMA FlattenedParts ==
  ASSUME NEW V, NEW seqs \in Seq(Seq(V)), NEW k \in 0..Len(seqs)
  PROVE  /\ FlattenSeq(seqs) \in Seq(V)
         /\ Len(FirstOnes(seqs, k)) \in Nat
         /\ Len(FirstOnes(seqs, k)) <= Len(FlattenSeq(seqs))
         /\ \A i \in 1..Len(FirstOnes(seqs, k)) : FlattenSeq(seqs)[i] = FirstOnes(seqs, k)[i]
<1> DEFINE n == Len(seqs)
           out == FlattenSeq(seqs)
           len(j) == Len(FirstOnes(seqs, j))
           Kept == {j \in Nat : j <= n - k =>
                     /\ len(k) <= len(k + j)
                     /\ \A i \in 1..len(k) : FirstOnes(seqs, k + j)[i] = FirstOnes(seqs, k)[i]}
<1>1. n \in Nat /\ k \in Nat /\ k <= n
  OBVIOUS
<1>2. /\ \A j \in 0..n : FirstOnes(seqs, j) \in Seq(V) /\ len(j) \in Nat
      /\ \A j \in 1..n :
           FirstOnes(seqs, j) = FirstOnes(seqs, j - 1) \o seqs[j] /\ seqs[j] \in Seq(V)
      /\ out = FirstOnes(seqs, n)
  BY FlattenUnfolds, ElementOfSeq, LenProperties
<1>3. ASSUME NEW j \in Nat, 0..(j - 1) \subseteq Kept
      PROVE  j \in Kept
  <2>1. CASE j = 0
    <3>1. k + j = k
      BY <1>1, <2>1
    <3>2. QED
      BY <1>1, <1>2, <3>1
  <2>2. CASE j # 0 /\ j <= n - k
    <3> DEFINE a == k + (j - 1)
    <3>1. j - 1 \in Kept /\ j - 1 \in Nat /\ j - 1 <= n - k
      <4> HIDE DEF Kept, n
      <4>1. j - 1 \in 0..(j - 1)
        BY <2>2
      <4>2. QED
        BY <1>1, <1>3, <2>2, <4>1
    <3>2. a \in 0..n /\ k + j \in 1..n /\ (k + j) - 1 = a
      BY <1>1, <2>2
    <3>3. FirstOnes(seqs, k + j) = FirstOnes(seqs, a) \o seqs[k + j] /\ seqs[k + j] \in Seq(V)
          /\ FirstOnes(seqs, a) \in Seq(V)
      BY <1>2, <3>2
    <3>4. /\ len(k) <= len(a)
          /\ \A i \in 1..len(k) : FirstOnes(seqs, a)[i] = FirstOnes(seqs, k)[i]
      BY <3>1
    <3> HIDE DEF a, Kept, n, out
    <3>5. /\ len(k + j) = len(a) + Len(seqs[k + j])
          /\ \A i \in 1..(len(a) + Len(seqs[k + j])) : i <= len(a) =>
               FirstOnes(seqs, k + j)[i] = FirstOnes(seqs, a)[i]
          /\ Len(seqs[k + j]) \in Nat
      BY <3>3, ConcatProperties, LenProperties
    <3>7. len(k) \in Nat /\ len(a) \in Nat
      BY <1>1, <1>2, <3>2
    <3> DEFINE x == len(k)
               y == len(a)
               z == Len(seqs[k + j])
               sum == len(k + j)
    <3>9. /\ x \in Nat /\ y \in Nat /\ z \in Nat /\ x <= y /\ sum = y + z
          /\ \A i \in 1..x : FirstOnes(seqs, a)[i] = FirstOnes(seqs, k)[i]
          /\ \A i \in 1..(y + z) : i <= y => FirstOnes(seqs, k + j)[i] = FirstOnes(seqs, a)[i]
      BY <3>4, <3>5, <3>7
    <3> HIDE DEF x, y, z, sum
    <3>10. x <= sum /\ \A i \in 1..x : i \in 1..(y + z) /\ i <= y
      BY <3>9
    <3>11. \A i \in 1..x : FirstOnes(seqs, k + j)[i] = FirstOnes(seqs, k)[i]
      BY <3>9, <3>10
    <3>6. /\ len(k) <= len(k + j)
          /\ \A i \in 1..len(k) : FirstOnes(seqs, k + j)[i] = FirstOnes(seqs, k)[i]
      BY <3>10, <3>11 DEF x, sum
    <3>8. QED
      BY <3>6 DEF Kept
  <2>3. QED
    BY <2>1, <2>2
<1>4. Nat \subseteq Kept
  <2> HIDE DEF Kept
  <2>1. QED
    BY <1>3, Induction
<1>5. n - k \in Kept /\ k + (n - k) = n /\ n - k <= n - k /\ n \in 0..n /\ k \in 0..n
  <2> HIDE DEF Kept, n
  <2>1. QED
    BY <1>1, <1>4
<1>6. /\ len(k) <= len(k + (n - k))
      /\ \A i \in 1..len(k) : FirstOnes(seqs, k + (n - k))[i] = FirstOnes(seqs, k)[i]
  BY <1>5
<1>7. QED
  <2> HIDE DEF Kept, n
  <2>1. out \in Seq(V) /\ len(k) \in Nat
    BY <1>2, <1>5
  <2>2. len(k) <= Len(out) /\ \A i \in 1..len(k) : out[i] = FirstOnes(seqs, k)[i]
    BY <1>2, <1>5, <1>6
  <2>3. QED
    BY <2>1, <2>2

-----------------------------------------------------------------------------
(* A name in a message. *)

\* The labels of the name stand from base on, each after its length, where
\* start says, and a zero stands after the last.
LaidOut(m, base, start, name) ==
  /\ start \in [0..Len(name) -> Nat] /\ start[0] = 0
  /\ base + start[Len(name)] < Len(m) /\ start[Len(name)] < MaxTotal
  /\ At(m, base + start[Len(name)]) = 0
  /\ \A k \in 1..Len(name) :
       /\ Len(name[k]) \in 1..MaxLabel
       /\ start[k] = start[k - 1] + 1 + Len(name[k])
       /\ start[k] <= start[Len(name)]
       /\ At(m, base + start[k - 1]) = Len(name[k])
       /\ \A i \in 1..Len(name[k]) : At(m, base + start[k - 1] + i) = name[k][i]

\* What EncodeName writes lies in the message as LaidOut says.
LEMMA WireInMessage ==
  ASSUME NEW before \in Seq(Byte), NEW after \in Seq(Byte), NEW name \in DomainNames,
         EncodeName(name) # Error
  PROVE  /\ EncodeName(name) \in Seq(Byte)
         /\ before \o EncodeName(name) \o after \in Seq(Byte)
         /\ \E start : /\ LaidOut(before \o EncodeName(name) \o after, Len(before), start, name)
                       /\ Len(EncodeName(name)) = start[Len(name)] + 1
<1> DEFINE n == Len(name)
           seqs == [i \in DOMAIN name |-> <<Len(name[i])>> \o name[i]]
           out == FlattenSeq(seqs)
           wire == EncodeName(name)
           m == before \o wire \o after
           base == Len(before)
           start == [k \in 0..n |-> Len(FirstOnes(seqs, k))]
<1>1. /\ \A i \in DOMAIN name : ~BadLabel(name[i])
      /\ ~(Len(out) + 1 > MaxTotal) /\ wire = Append(out, 0)
  BY DEF EncodeName
<1>2. /\ n \in Nat /\ DOMAIN name = 1..n /\ base \in Nat
      /\ \A i \in 1..n : name[i] \in Seq(Byte) /\ Len(name[i]) \in Nat
  BY ElementOfSeq, LenProperties DEF DomainNames
<1>3. ASSUME NEW i \in 1..n
      PROVE  /\ Len(name[i]) \in 1..MaxLabel
             /\ seqs[i] \in Seq(Byte) /\ Len(seqs[i]) = 1 + Len(name[i])
             /\ seqs[i][1] = Len(name[i])
             /\ \A j \in 1..Len(name[i]) : seqs[i][j + 1] = name[i][j]
  <2>1. name[i] \in Seq(Byte) /\ ~BadLabel(name[i]) /\ Len(name[i]) \in Nat
    BY <1>1, <1>2
  <2>2. Len(name[i]) # 0
    BY <2>1 DEF BadLabel
  <2>3. Len(name[i]) \in 1..MaxLabel
    BY <2>1, <2>2, Sizes DEF BadLabel
  <2>4. Len(name[i]) \in Byte
    BY <2>3, Sizes DEF Byte
  <2>5. <<Len(name[i])>> \in Seq(Byte) /\ Len(<<Len(name[i])>>) = 1
    BY <2>4
  <2>6. seqs[i] = <<Len(name[i])>> \o name[i]
    BY <1>2
  <2> HIDE DEF seqs
  <2>7. /\ seqs[i] \in Seq(Byte) /\ Len(seqs[i]) = 1 + Len(name[i])
        /\ \A j \in 1..(1 + Len(name[i])) :
             seqs[i][j] = IF j <= 1 THEN <<Len(name[i])>>[j] ELSE name[i][j - 1]
    BY <2>1, <2>5, <2>6, ConcatProperties
  <2>8. seqs[i][1] = Len(name[i])
    BY <2>1, <2>7
  <2>9. ASSUME NEW j \in 1..Len(name[i]) PROVE seqs[i][j + 1] = name[i][j]
    <3>1. j + 1 \in 1..(1 + Len(name[i])) /\ ~(j + 1 <= 1) /\ j + 1 - 1 = j
      BY <2>1
    <3>2. QED
      BY <2>7, <3>1
  <2>10. QED
    BY <2>3, <2>7, <2>8, <2>9
<1>4. seqs \in Seq(Seq(Byte)) /\ Len(seqs) = n
  <2>1. seqs = [i \in 1..n |-> <<Len(name[i])>> \o name[i]]
    BY <1>2
  <2>2. \A i \in 1..n : seqs[i] \in Seq(Byte)
    BY <1>3
  <2>3. seqs \in [1..n -> Seq(Byte)]
    BY <2>1, <2>2
  <2> HIDE DEF seqs, n
  <2>4. QED
    BY <1>2, <2>3
<1> HIDE DEF seqs, out, wire
<1>5. /\ out \in Seq(Byte) /\ Len(out) \in Nat /\ out = FirstOnes(seqs, n)
      /\ \A k \in 0..n : /\ Len(FirstOnes(seqs, k)) \in Nat /\ FirstOnes(seqs, k) \in Seq(Byte)
                         /\ Len(FirstOnes(seqs, k)) <= Len(out)
                         /\ \A i \in 1..Len(FirstOnes(seqs, k)) : out[i] = FirstOnes(seqs, k)[i]
      /\ \A k \in 1..n : FirstOnes(seqs, k) = FirstOnes(seqs, k - 1) \o seqs[k]
  <2> HIDE DEF n
  <2>1. n \in 0..n
    BY <1>2
  <2>2. out \in Seq(Byte) /\ Len(out) \in Nat
    BY <1>4, <2>1, FlattenedParts, LenProperties DEF out
  <2>3. QED
    BY <1>4, <2>2, FlattenUnfolds, FlattenedParts DEF out
<1>6. /\ wire \in Seq(Byte) /\ Len(wire) = Len(out) + 1 /\ wire[Len(out) + 1] = 0
      /\ \A i \in 1..Len(out) : wire[i] = out[i]
  <2>1. 0 \in Byte
    BY Sizes DEF Byte
  <2>2. QED
    BY <1>1, <1>5, <2>1, AppendProperties
<1>7. /\ m \in Seq(Byte) /\ Len(m) = base + Len(wire) + Len(after) /\ Len(after) \in Nat
      /\ \A i \in 1..Len(wire) : m[base + i] = wire[i]
  <2>1. /\ before \o wire \in Seq(Byte) /\ Len(before \o wire) = base + Len(wire)
        /\ \A i \in 1..(base + Len(wire)) :
             (before \o wire)[i] = IF i <= base THEN before[i] ELSE wire[i - base]
    BY <1>6, ConcatProperties
  <2>2. /\ m \in Seq(Byte) /\ Len(m) = base + Len(wire) + Len(after) /\ Len(after) \in Nat
        /\ \A i \in 1..(base + Len(wire) + Len(after)) :
             m[i] = IF i <= base + Len(wire) THEN (before \o wire)[i]
                    ELSE after[i - (base + Len(wire))]
    BY <2>1, ConcatProperties, LenProperties
  <2>3. Len(wire) \in Nat
    BY <1>5, <1>6
  <2> DEFINE begun == before \o wire
  <2> HIDE DEF m, base, begun
  <2>4. ASSUME NEW i \in 1..Len(wire) PROVE m[base + i] = wire[i]
    <3>1. /\ base + i \in 1..(base + Len(wire)) /\ base + i \in 1..(base + Len(wire) + Len(after))
          /\ ~(base + i <= base) /\ base + i - base = i /\ base + i <= base + Len(wire)
      BY <1>2, <2>2, <2>3
    <3>2. m[base + i] = begun[base + i]
      BY <2>2, <3>1 DEF begun
    <3> DEFINE j == base + i
    <3>3. j \in 1..(base + Len(wire)) /\ ~(j <= base) /\ j - base = i
      BY <1>2, <2>2, <2>3
    <3>4. begun[j] = IF j <= base THEN before[j] ELSE wire[j - base]
      <4> HIDE DEF j
      <4>1. QED
        BY <2>1, <3>3 DEF begun
    <3>5. QED
      BY <3>2, <3>3, <3>4
  <2>5. QED
    BY <2>2, <2>4
<1> HIDE DEF m, base, n
<1>8. ASSUME NEW i \in 0..Len(out)
      PROVE  At(m, base + i) = wire[i + 1]
  <2>1. i + 1 \in 1..Len(wire) /\ base + i + 1 = base + (i + 1)
    BY <1>2, <1>5, <1>6
  <2>2. QED
    BY <1>7, <2>1 DEF At
<1>9. /\ start \in [0..n -> Nat] /\ start[0] = 0 /\ start[n] = Len(out)
  <2>1. FirstOnes(seqs, 0) = <<>>
    BY DEF FirstOnes
  <2>2. QED
    BY <1>2, <1>5, <2>1
<1>10. ASSUME NEW k \in 1..n
       PROVE  /\ start[k] = start[k - 1] + 1 + Len(name[k]) /\ start[k] <= Len(out)
              /\ start[k - 1] \in Nat
              /\ \A j \in 1..(1 + Len(name[k])) : out[start[k - 1] + j] = seqs[k][j]
  <2>1. k \in 0..n /\ k - 1 \in 0..n
    BY <1>2
  <2>2. /\ FirstOnes(seqs, k) = FirstOnes(seqs, k - 1) \o seqs[k] /\ seqs[k] \in Seq(Byte)
        /\ FirstOnes(seqs, k - 1) \in Seq(Byte) /\ Len(seqs[k]) = 1 + Len(name[k])
        /\ Len(name[k]) \in Nat
    BY <1>2, <1>3, <1>5, <2>1
  <2>3. start[k] = Len(FirstOnes(seqs, k)) /\ start[k - 1] = Len(FirstOnes(seqs, k - 1))
    BY <2>1
  <2> DEFINE a == start[k - 1]
             e == start[k]
             l == Len(name[k])
             part == FirstOnes(seqs, k)
  <2>4. /\ Len(part) = Len(FirstOnes(seqs, k - 1)) + Len(seqs[k])
        /\ \A i \in 1..(Len(FirstOnes(seqs, k - 1)) + Len(seqs[k])) :
             part[i] = IF i <= Len(FirstOnes(seqs, k - 1)) THEN FirstOnes(seqs, k - 1)[i]
                       ELSE seqs[k][i - Len(FirstOnes(seqs, k - 1))]
    <3> DEFINE first == FirstOnes(seqs, k - 1)
               next == seqs[k]
    <3>1. part = first \o next /\ first \in Seq(Byte) /\ next \in Seq(Byte)
      BY <2>2
    <3> HIDE DEF part, first, next
    <3>2. /\ Len(part) = Len(first) + Len(next)
          /\ \A i \in 1..(Len(first) + Len(next)) :
               part[i] = IF i <= Len(first) THEN first[i] ELSE next[i - Len(first)]
      BY <3>1, ConcatProperties
    <3>3. QED
      BY <3>2 DEF first, next
  <2> HIDE DEF start
  <2>5. /\ e = a + (1 + l) /\ e <= Len(out) /\ a \in Nat /\ e \in Nat /\ l \in Nat
        /\ Len(out) \in Nat
        /\ \A i \in 1..(a + (1 + l)) :
             part[i] = IF i <= a THEN FirstOnes(seqs, k - 1)[i] ELSE seqs[k][i - a]
    BY <1>5, <2>1, <2>2, <2>3, <2>4
  <2>6. \A i \in 1..e : out[i] = part[i]
    BY <1>5, <2>1, <2>3
  <2> HIDE DEF a, e, l, part
  <2>7. ASSUME NEW j \in 1..(1 + l) PROVE out[a + j] = seqs[k][j]
    <3>1. a + j \in 1..e /\ a + j \in 1..(a + (1 + l)) /\ ~(a + j <= a) /\ a + j - a = j
      BY <2>5
    <3>2. out[a + j] = part[a + j]
      BY <2>6, <3>1
    <3>3. part[a + j] = seqs[k][a + j - a]
      BY <2>5, <3>1
    <3>4. QED
      BY <3>1, <3>2, <3>3
  <2>8. e = a + 1 + l
    BY <2>5
  <2>9. QED
    BY <2>5, <2>7, <2>8 DEF a, e, l
<1> HIDE DEF start
<1>11. ASSUME NEW k \in 1..n
       PROVE  /\ At(m, base + start[k - 1]) = Len(name[k])
              /\ \A i \in 1..Len(name[k]) : At(m, base + start[k - 1] + i) = name[k][i]
  <2> DEFINE s == start[k - 1]
             l == Len(name[k])
  <2>1. s \in Nat /\ l \in Nat /\ s + 1 + l <= Len(out) /\ Len(out) \in Nat /\ base \in Nat
    BY <1>2, <1>5, <1>10
  <2>2. ASSUME NEW i \in 0..l
        PROVE  At(m, base + s + i) = seqs[k][i + 1]
    <3> HIDE DEF s, l
    <3>1. /\ s + i \in 0..Len(out) /\ s + i + 1 \in 1..Len(out) /\ i + 1 \in 1..(1 + l)
          /\ base + s + i = base + (s + i) /\ s + i + 1 = s + (i + 1)
      BY <2>1
    <3>2. At(m, base + (s + i)) = wire[s + i + 1]
      BY <1>8, <3>1
    <3>3. wire[s + i + 1] = out[s + i + 1]
      BY <1>6, <3>1
    <3>4. out[s + (i + 1)] = seqs[k][i + 1]
      BY <1>10, <3>1 DEF s, l
    <3>5. QED
      BY <3>1, <3>2, <3>3, <3>4
  <2> HIDE DEF s, l
  <2>3. At(m, base + s) = seqs[k][1]
    <3>1. 0 \in 0..l /\ base + s + 0 = base + s
      BY <2>1
    <3>2. QED
      BY <2>2, <3>1
  <2>4. \A i \in 1..l : i \in 0..l /\ seqs[k][i + 1] = name[k][i]
    BY <1>3 DEF l
  <2>5. seqs[k][1] = l
    BY <1>3 DEF l
  <2>6. At(m, base + s) = l /\ \A i \in 1..l : At(m, base + s + i) = name[k][i]
    BY <2>2, <2>3, <2>4, <2>5
  <2>7. QED
    BY <2>6 DEF s, l
<1>12. LaidOut(m, base, start, name)
  <2>1. base + start[n] < Len(m) /\ start[n] < MaxTotal
    BY <1>1, <1>2, <1>5, <1>6, <1>7, <1>9, Sizes
  <2>2. At(m, base + start[n]) = 0
    <3>1. Len(out) \in 0..Len(out)
      BY <1>5
    <3>2. QED
      BY <1>6, <1>8, <1>9, <3>1
  <2>3. \A k \in 1..n :
          /\ Len(name[k]) \in 1..MaxLabel
          /\ start[k] = start[k - 1] + 1 + Len(name[k])
          /\ start[k] <= start[n]
          /\ At(m, base + start[k - 1]) = Len(name[k])
          /\ \A i \in 1..Len(name[k]) : At(m, base + start[k - 1] + i) = name[k][i]
    BY <1>3, <1>9, <1>10, <1>11
  <2>4. QED
    BY <1>9, <2>1, <2>2, <2>3 DEF LaidOut, n
<1>13. Len(wire) = start[n] + 1
  BY <1>6, <1>9
<1>14. QED
  BY <1>6, <1>7, <1>12, <1>13 DEF wire, m, base, n

\* The name without its first labels, in lower case.
Rest(name, k) == [i \in 1..(Len(name) - k) |-> Lowered(name)[k + i]]

\* Without its first label a name is still laid out, from behind that label on.
LEMMA RestOfName ==
  ASSUME NEW name \in DomainNames
  PROVE  /\ Rest(name, 0) = Lowered(name) /\ Rest(name, Len(name)) = <<>>
         /\ \A k \in 0..Len(name) : Rest(name, k) \in Seq(Seq(Byte))
         /\ \A k \in 1..Len(name) : Rest(name, k - 1) = <<Lowered(name)[k]>> \o Rest(name, k)
<1> DEFINE n == Len(name)
           low == Lowered(name)
<1>1. n \in Nat /\ \A k \in 1..n : name[k] \in Seq(Byte)
  BY ElementOfSeq DEF DomainNames
<1>2. ASSUME NEW k \in 1..n
      PROVE  [i \in DOMAIN name[k] |-> Lower(name[k][i])] \in Seq(Byte)
  <2> DEFINE label == name[k]
  <2>1. label \in Seq(Byte)
    BY <1>1
  <2> HIDE DEF label
  <2>2. /\ DOMAIN label = 1..Len(label) /\ Len(label) \in Nat
        /\ \A i \in 1..Len(label) : Lower(label[i]) \in Byte
    BY <2>1, LowerByte, ElementOfSeq
  <2>3. [i \in DOMAIN label |-> Lower(label[i])] \in [1..Len(label) -> Byte]
    BY <2>2
  <2>4. [i \in DOMAIN label |-> Lower(label[i])] \in Seq(Byte)
    BY <2>2, <2>3
  <2>5. QED
    BY <2>4 DEF label
<1>3. DOMAIN name = 1..n
  BY DEF DomainNames
<1>4. low \in [1..n -> Seq(Byte)]
  BY <1>2, <1>3 DEF Lowered
<1> HIDE DEF n, low
<1>5. Rest(name, 0) = low
  BY <1>1, <1>4 DEF Rest, low, n
<1>6. Rest(name, n) = <<>>
  BY <1>1 DEF Rest, n
<1>7. ASSUME NEW k \in 0..n
      PROVE  /\ Rest(name, k) \in Seq(Seq(Byte)) /\ Len(Rest(name, k)) = n - k
             /\ \A i \in 1..(n - k) : Rest(name, k)[i] = low[k + i]
  <2>1. n - k \in Nat /\ \A i \in 1..(n - k) : k + i \in 1..n
    BY <1>1
  <2>2. Rest(name, k) = [i \in 1..(n - k) |-> low[k + i]]
    BY DEF Rest, low, n
  <2>3. Rest(name, k) \in [1..(n - k) -> Seq(Byte)]
    BY <1>4, <2>1, <2>2
  <2>4. QED
    BY <2>1, <2>2, <2>3
<1>8. ASSUME NEW k \in 1..n
      PROVE  Rest(name, k - 1) = <<low[k]>> \o Rest(name, k)
  <2> DEFINE s == Rest(name, k - 1)
             t == Rest(name, k)
             one == <<low[k]>>
             u == one \o t
  <2>1. k - 1 \in 0..n /\ k \in 0..n /\ n - (k - 1) = 1 + (n - k) /\ n - k \in Nat
    BY <1>1
  <2>2. one \in Seq(Seq(Byte)) /\ Len(one) = 1 /\ one[1] = low[k]
    BY <1>4
  <2>3. /\ s \in Seq(Seq(Byte)) /\ Len(s) = 1 + (n - k)
        /\ \A i \in 1..(1 + (n - k)) : s[i] = low[(k - 1) + i]
        /\ t \in Seq(Seq(Byte)) /\ Len(t) = n - k /\ \A i \in 1..(n - k) : t[i] = low[k + i]
    BY <1>7, <2>1
  <2> HIDE DEF s, t, one
  <2>4. /\ u \in Seq(Seq(Byte)) /\ Len(u) = 1 + (n - k)
        /\ \A i \in 1..(1 + (n - k)) : u[i] = IF i <= 1 THEN one[i] ELSE t[i - 1]
    <3>1. /\ u \in Seq(Seq(Byte)) /\ Len(u) = Len(one) + Len(t)
          /\ \A i \in 1..(Len(one) + Len(t)) :
               u[i] = IF i <= Len(one) THEN one[i] ELSE t[i - Len(one)]
      BY <2>2, <2>3, ConcatProperties
    <3> HIDE DEF u
    <3>2. QED
      BY <2>2, <2>3, <3>1
  <2> HIDE DEF u
  <2>5. ASSUME NEW i \in 1..(1 + (n - k))
        PROVE  s[i] = u[i]
    <3>1. CASE i = 1
      BY <2>1, <2>2, <2>3, <2>4, <3>1
    <3>2. CASE i # 1
      <4>1. i - 1 \in 1..(n - k) /\ k + (i - 1) = (k - 1) + i /\ ~(i <= 1)
        BY <2>1, <3>2
      <4>2. t[i - 1] = low[(k - 1) + i]
        BY <2>3, <4>1
      <4>3. QED
        BY <2>3, <2>4, <4>1, <4>2
    <3>3. QED
      BY <3>1, <3>2
  <2>6. s = u
    BY <2>3, <2>4, <2>5, SeqEqual
  <2>7. QED
    BY <2>6 DEF s, u, t, one
<1>9. QED
  BY <1>5, <1>6, <1>7, <1>8 DEF n, low

\* The record of a name with another label in front.
LEMMA LabelInFront ==
  ASSUME NEW r \in Read, NEW label
  PROVE  [r EXCEPT !.name = <<label>> \o @] = [name |-> <<label>> \o r.name, next |-> r.next]
BY DEF Read

\* A name that is laid out in a message is read, by both decoders.
LEMMA LaidOutIsRead ==
  ASSUME NEW m \in Seq(Byte), NEW base \in Nat, NEW name \in DomainNames, NEW start,
         LaidOut(m, base, start, name)
  PROVE  LET read == [name |-> Lowered(name), next |-> base + start[Len(name)] + 1]
         IN  DecodeNameAt(m, base) = read /\ decodeNameUncompressed(m, base) = read
<1> DEFINE n == Len(name)
           end == base + start[n] + 1
           P(k) == [off |-> base + start[k], total |-> start[k]]
           Q(k) == [off |-> base + start[k], depth |-> 0, total |-> start[k]]
           read(k) == [name |-> Rest(name, k), next |-> end]
           f == plainDecoder(m)
           g == decodeName(m)
           Known == {j \in Nat : j <= n => f[P(n - j)] = read(n - j) /\ g[Q(n - j)] = read(n - j)}
<1>1. /\ n \in Nat /\ Len(m) \in Nat /\ start \in [0..n -> Nat] /\ start[0] = 0
      /\ base + start[n] < Len(m) /\ start[n] < MaxTotal /\ At(m, base + start[n]) = 0
      /\ \A k \in 1..n : /\ Len(name[k]) \in 1..MaxLabel
                         /\ start[k] = start[k - 1] + 1 + Len(name[k])
                         /\ start[k] <= start[n]
                         /\ At(m, base + start[k - 1]) = Len(name[k])
                         /\ \A i \in 1..Len(name[k]) : At(m, base + start[k - 1] + i) = name[k][i]
  <2>1. n \in Nat /\ Len(m) \in Nat
    BY LenProperties DEF DomainNames
  <2>2. QED
    BY <2>1, Zenon DEF LaidOut
<1>2. \A k \in 0..n : start[k] \in Nat
  BY <1>1
<1> HIDE DEF n
<1>3. ASSUME NEW k \in 0..n
      PROVE  /\ P(k) \in PlainPlaces /\ P(k).off = base + start[k] /\ P(k).total = start[k]
             /\ Q(k) \in Places /\ Q(k).off = base + start[k]
             /\ Q(k).total = start[k] /\ Q(k).depth = 0
             /\ f[P(k)] = PlainTurn(m, P(k), f) /\ g[Q(k)] = DecodeTurn(m, Q(k), g)
             /\ base + start[k] < Len(m) => Inside(m, Q(k))
  <2>1. base + start[k] \in Nat /\ start[k] \in Nat
    BY <1>2
  <2>2. /\ P(k) \in PlainPlaces /\ P(k).off = base + start[k] /\ P(k).total = start[k]
        /\ Q(k) \in Places /\ Q(k).off = base + start[k]
             /\ Q(k).total = start[k] /\ Q(k).depth = 0
    BY <2>1 DEF PlainPlaces, Places
  <2>3. f[P(k)] = PlainTurn(m, P(k), f) /\ g[Q(k)] = DecodeTurn(m, Q(k), g)
    <3> HIDE DEF P, Q
    <3>1. QED
      BY <2>2, PlainUnfolds, DecodeUnfolds
  <2>4. base + start[k] < Len(m) => Inside(m, Q(k))
    BY <1>1, <2>1, Sizes DEF Inside
  <2>5. QED
    BY <2>2, <2>3, <2>4
<1> HIDE DEF f, g
<1>4. ASSUME NEW k \in 1..n, f[P(k)] = read(k), g[Q(k)] = read(k)
      PROVE  f[P(k - 1)] = read(k - 1) /\ g[Q(k - 1)] = read(k - 1)
  <2> DEFINE off == base + start[k - 1]
             l == Len(name[k])
             p == P(k - 1)
             q == Q(k - 1)
  <2>1. k \in 0..n /\ k - 1 \in 0..n
    BY <1>1
  <2>2. /\ off \in Nat /\ l \in 1..MaxLabel /\ l \in Nat /\ off < Len(m) /\ Len(m) \in Nat
        /\ start[k - 1] \in Nat /\ start[k] = start[k - 1] + l + 1
        /\ At(m, off) = l
        /\ base + start[k] = off + l + 1 /\ off + 1 + l <= Len(m)
        /\ ~(start[k - 1] + l + 1 > MaxTotal)
    <3>1. /\ l \in 1..MaxLabel /\ start[k] = start[k - 1] + 1 + l /\ start[k] <= start[n]
          /\ At(m, off) = l
      BY <1>1
    <3>2. n \in 0..n
      BY <1>1
    <3>3. start[k] \in Nat /\ start[k - 1] \in Nat /\ start[n] \in Nat
      BY <1>2, <2>1, <3>2
    <3> DEFINE x == start[k - 1]
               y == start[k]
               z == start[n]
    <3> HIDE DEF l
    <3>4. /\ x \in Nat /\ y \in Nat /\ z \in Nat /\ l \in Nat /\ y = x + 1 + l /\ y <= z
          /\ base + z < Len(m) /\ z < MaxTotal /\ Len(m) \in Nat /\ MaxTotal \in Nat
          /\ off = base + x
      <4>1. Len(m) \in Nat /\ MaxTotal \in Nat /\ l \in Nat
        BY <1>1, <3>1, Sizes
      <4>2. base + z < Len(m) /\ z < MaxTotal
        BY <1>1
      <4>3. QED
        BY <3>1, <3>3, <4>1, <4>2
    <3> HIDE DEF x, y, z, off
    <3>5. /\ off \in Nat /\ off < Len(m) /\ y = x + l + 1
          /\ base + y = off + l + 1 /\ off + 1 + l <= Len(m) /\ ~(x + l + 1 > MaxTotal)
      BY <3>4
    <3>6. QED
      BY <3>1, <3>4, <3>5 DEF x, y
  <2>3. /\ p \in PlainPlaces /\ p.off = off /\ p.total = start[k - 1] /\ f[p] = PlainTurn(m, p, f)
        /\ q \in Places /\ q.off = off /\ q.total = start[k - 1] /\ q.depth = 0
        /\ g[q] = DecodeTurn(m, q, g) /\ Inside(m, q)
    <3> HIDE DEF P, Q
    <3>1. QED
      BY <1>3, <2>1, <2>2
  <2>4. At(m, off) # 0 /\ ~IsPointer(At(m, off)) /\ ~IsReserved(At(m, off)) /\ Fits(m, off)
    <3>1. At(m, off) \in Byte /\ At(m, off) = l /\ l < Quarter /\ l # 0
      <4> HIDE DEF off, l
      <4>1. At(m, off) \in Byte
        BY <2>2, ByteOf
      <4>2. QED
        BY <2>2, <4>1, Sizes
    <3>2. Fits(m, off)
      BY <2>2 DEF Fits
    <3>3. QED
      BY <3>1, <3>2, Sizes
  <2>5. HasLabel(m, p) /\ HasLabel(m, q) /\ ~HasPointer(m, q)
    BY <2>2, <2>3, <2>4 DEF HasLabel, HasPointer
  <2>6. PlainAfterLabel(m, p) = P(k) /\ AfterLabel(m, q) = Q(k)
    BY <2>2, <2>3 DEF PlainAfterLabel, AfterLabel
  <2>7. Label(m, off) = Lowered(name)[k]
    <3>1. \A i \in 1..l : At(m, off + i) = name[k][i]
      BY <1>1
    <3>2. Label(m, off) = [i \in 1..l |-> Lower(name[k][i])]
      BY <2>2, <3>1 DEF Label
    <3>3. k \in DOMAIN name /\ DOMAIN name[k] = 1..l
      <4>1. k \in 1..Len(name)
        BY DEF n
      <4>2. name[k] \in Seq(Byte)
        BY <4>1, ElementOfSeq DEF DomainNames
      <4>3. QED
        BY <4>1, <4>2, LenProperties DEF DomainNames
    <3>4. QED
      BY <3>2, <3>3 DEF Lowered
  <2>8. read(k) # Error /\ [read(k) EXCEPT !.name = <<Lowered(name)[k]>> \o @] = read(k - 1)
    <3>1. Rest(name, k - 1) = <<Lowered(name)[k]>> \o Rest(name, k)
      BY RestOfName DEF n
    <3>2. read(k) \in Read /\ read(k).name = Rest(name, k) /\ read(k).next = end
      <4>1. end \in Nat
        BY <1>1, <1>2
      <4>2. Rest(name, k) \in Seq(Seq(Byte))
        BY RestOfName, <2>1 DEF n
      <4> HIDE DEF end
      <4>3. QED
        BY <4>1, <4>2 DEF Read, DomainNames
    <3>3. read(k - 1) = [name |-> Rest(name, k - 1), next |-> end]
      OBVIOUS
    <3>4. read(k) # Error
      BY <3>2, ErrorAssumption
    <3> HIDE DEF read, end
    <3> DEFINE r == read(k)
               label == Lowered(name)[k]
    <3>5. r \in Read
      BY <3>2
    <3> HIDE DEF r, label
    <3>6. [r EXCEPT !.name = <<label>> \o @] = [name |-> <<label>> \o r.name, next |-> r.next]
      BY <3>5, LabelInFront
    <3>7. r.name = Rest(name, k) /\ r.next = end
      BY <3>2 DEF r
    <3>8. [r EXCEPT !.name = <<label>> \o @] = [name |-> Rest(name, k - 1), next |-> end]
      BY <3>1, <3>6, <3>7, Zenon DEF label
    <3>9. QED
      BY <3>3, <3>4, <3>8, Zenon DEF r, label
  <2> HIDE DEF P, Q, read, p, q, off, l
  <2>9. f[p] = [f[P(k)] EXCEPT !.name = <<Label(m, off)>> \o @]
    <3>1. f[PlainAfterLabel(m, p)] # Error /\ PlainAfterLabel(m, p) = P(k)
      BY <1>4, <2>6, <2>8
    <3>2. ~(p.off >= Len(m)) /\ At(m, p.off) # 0 /\ p.off = off
      BY <2>2, <2>3, <2>4
    <3>3. PlainTurn(m, p, f) = [f[PlainAfterLabel(m, p)] EXCEPT !.name = <<Label(m, p.off)>> \o @]
      BY <2>3, <2>5, <3>1, <3>2, PlainTurnCases
    <3>4. QED
      BY <2>3, <3>1, <3>2, <3>3
  <2>10. g[q] = [g[Q(k)] EXCEPT !.name = <<Label(m, off)>> \o @]
    BY <1>4, <2>2, <2>3, <2>4, <2>5, <2>6, <2>8, DecodeTurnCases
  <2>11. f[p] = read(k - 1) /\ g[q] = read(k - 1)
    BY <1>4, <2>7, <2>8, <2>9, <2>10
  <2>12. QED
    BY <2>11 DEF p, q
<1>5. f[P(n)] = read(n) /\ g[Q(n)] = read(n)
  <2> DEFINE p == P(n)
             q == Q(n)
             off == base + start[n]
  <2>1. n \in 0..n /\ Rest(name, n) = <<>>
    BY <1>1, RestOfName DEF n
  <2>2. /\ p \in PlainPlaces /\ p.off = off /\ f[p] = PlainTurn(m, p, f)
        /\ q \in Places /\ q.off = off /\ g[q] = DecodeTurn(m, q, g) /\ Inside(m, q)
        /\ At(m, off) = 0 /\ off \in Nat /\ ~(off >= Len(m))
    <3>1. At(m, off) = 0 /\ off \in Nat /\ ~(off >= Len(m)) /\ off < Len(m)
      BY <1>1, <1>2, <2>1
    <3> HIDE DEF P, Q
    <3>2. QED
      BY <1>3, <2>1, <3>1
  <2> HIDE DEF P, Q, p, q
  <2>3. f[p] = [name |-> <<>>, next |-> p.off + 1]
    BY <2>2, PlainTurnCases
  <2>4. g[q] = [name |-> <<>>, next |-> q.off + 1]
    BY <2>2, DecodeTurnCases
  <2>5. QED
    BY <2>1, <2>2, <2>3, <2>4 DEF p, q
<1>6. ASSUME NEW j \in Nat, 0..(j - 1) \subseteq Known
      PROVE  j \in Known
  <2>1. CASE j = 0
    <3>1. n - j = n
      BY <1>1, <2>1
    <3> HIDE DEF P, Q, read
    <3>2. QED
      BY <1>5, <3>1
  <2>2. CASE j # 0 /\ j <= n
    <3> DEFINE k == n - (j - 1)
    <3>1. j - 1 \in Known /\ j - 1 <= n
      <4> HIDE DEF Known
      <4>1. j - 1 \in 0..(j - 1)
        BY <2>2
      <4>2. QED
        BY <1>1, <1>6, <2>2, <4>1
    <3>2. k \in 1..n /\ k - 1 = n - j
      BY <1>1, <2>2
    <3> HIDE DEF P, Q, read
    <3>3. f[P(k)] = read(k) /\ g[Q(k)] = read(k)
      BY <3>1
    <3> HIDE DEF k
    <3>4. f[P(k - 1)] = read(k - 1) /\ g[Q(k - 1)] = read(k - 1)
      BY <1>4, <3>2, <3>3
    <3>5. QED
      BY <3>2, <3>4
  <2>3. QED
    BY <2>1, <2>2
<1>7. Nat \subseteq Known
  <2> HIDE DEF Known
  <2>1. QED
    BY <1>6, Induction
<1>8. f[P(0)] = read(0) /\ g[Q(0)] = read(0)
  <2>1. n \in Known /\ n <= n /\ n - n = 0
    <3> HIDE DEF Known
    <3>1. QED
      BY <1>1, <1>7
  <2> HIDE DEF P, Q, read
  <2>2. QED
    BY <2>1
<1>9. /\ P(0) = [off |-> base, total |-> 0] /\ Q(0) = [off |-> base, depth |-> 0, total |-> 0]
      /\ read(0) = [name |-> Lowered(name), next |-> end]
  BY <1>1, RestOfName
<1> HIDE DEF P, Q, read
<1>10. QED
  BY <1>8, <1>9 DEF f, g, n, DecodeNameAt, decodeNameUncompressed

\* What EncodeName wrote is read, wherever it is in whatever message.
LEMMA NamesAreRead ==
  ASSUME msg \in Seq(Byte)
  PROVE  WrittenIsRead
<1> SUFFICES ASSUME NEW name \in WireNames, EncodeName(name) # Error
             PROVE  LET read == [name |-> Lowered(name), next |-> Len(msg) + Len(EncodeName(name))]
                        m == msg \o EncodeName(name) \o msg
                    IN  /\ DecodeNameAt(m, Len(msg)) = read
                        /\ decodeNameUncompressed(m, Len(msg)) = read
  BY DEF WrittenIsRead
<1> DEFINE wire == EncodeName(name)
           m == msg \o wire \o msg
<1>1. name \in DomainNames /\ Len(msg) \in Nat
  BY BytesAssumption
<1>2. m \in Seq(Byte)
  BY <1>1, WireInMessage
<1>3. PICK start : LaidOut(m, Len(msg), start, name) /\ Len(wire) = start[Len(name)] + 1
  BY <1>1, WireInMessage
<1> HIDE DEF m, wire
<1>4. LET read == [name |-> Lowered(name), next |-> Len(msg) + start[Len(name)] + 1]
      IN  /\ DecodeNameAt(m, Len(msg)) = read
                        /\ decodeNameUncompressed(m, Len(msg)) = read
  BY <1>1, <1>2, <1>3, LaidOutIsRead
<1>5. Len(msg) + start[Len(name)] + 1 = Len(msg) + Len(wire)
  <2>1. start \in [0..Len(name) -> Nat] /\ Len(name) \in 0..Len(name)
    BY <1>1, <1>3 DEF LaidOut, DomainNames
  <2>2. start[Len(name)] \in Nat
    BY <2>1
  <2>3. QED
    BY <1>1, <1>3, <2>2
<1>6. QED
  BY <1>4, <1>5 DEF m, wire

\* Every name that EncodeName accepts is read again, in lower case, by both
\* decoders, wherever it is written and whatever follows it: the limits of
\* writing are never looser than those of reading (WrittenIsRead).
THEOREM WrittenNamesAreRead == Spec => []WrittenIsRead
<1>1. IsMessage => WrittenIsRead
  BY NamesAreRead DEF IsMessage
<1>2. QED
  BY <1>1, MessagesAreBytes, PTL

-----------------------------------------------------------------------------
(* Walks. *)

\* A set of natural numbers has a least element.
LEMMA LeastOf ==
  ASSUME NEW s, s \subseteq Nat, s # {}
  PROVE  Min(s) \in s /\ \A y \in s : Min(s) <= y
<1> DEFINE T == Nat \ s
<1>1. \E x \in s : \A y \in s : x <= y
  <2>1. SUFFICES ASSUME \A x \in s : \E y \in s : ~(x <= y)
                 PROVE  FALSE
    OBVIOUS
  <2>2. ASSUME NEW n \in Nat, 0..(n - 1) \subseteq T
        PROVE  n \in T
    <3>1. SUFFICES ASSUME n \in s PROVE FALSE
      OBVIOUS
    <3>2. PICK y \in s : ~(n <= y)
      BY <2>1, <3>1
    <3>3. y \in Nat /\ y \in 0..(n - 1)
      BY <3>2
    <3>4. QED
      BY <2>2, <3>3
  <2> HIDE DEF T
  <2>3. Nat \subseteq T
    BY <2>2, Induction
  <2>4. QED
    BY <2>3 DEF T
<1>2. QED
  BY <1>1 DEF Min

\* What is put in front of sequences stands in front of what they make.
LEMMA FlattenInFront ==
  ASSUME NEW V, NEW x \in Seq(V), NEW s \in Seq(Seq(V))
  PROVE  FlattenSeq(<<x>> \o s) = x \o FlattenSeq(s)
<1> DEFINE n == Len(s)
           t == <<x>> \o s
           Same == {k \in Nat : k <= n => FirstOnes(t, k + 1) = x \o FirstOnes(s, k)}
<1>1. /\ t \in Seq(Seq(V)) /\ Len(t) = n + 1 /\ t[1] = x /\ n \in Nat
      /\ \A k \in 1..n : t[k + 1] = s[k]
  <2>1. <<x>> \in Seq(Seq(V)) /\ Len(<<x>>) = 1 /\ <<x>>[1] = x /\ n \in Nat
    OBVIOUS
  <2>2. /\ t \in Seq(Seq(V)) /\ Len(t) = 1 + n
        /\ \A i \in 1..(1 + n) : t[i] = IF i <= 1 THEN <<x>>[i] ELSE s[i - 1]
    BY <2>1, ConcatProperties
  <2> HIDE DEF t, n
  <2>3. t[1] = x
    BY <2>1, <2>2
  <2>4. ASSUME NEW k \in 1..n PROVE t[k + 1] = s[k]
    <3>1. k + 1 \in 1..(1 + n) /\ ~(k + 1 <= 1) /\ k + 1 - 1 = k
      BY <2>1
    <3>2. QED
      BY <2>2, <3>1
  <2>5. QED
    BY <2>1, <2>2, <2>3, <2>4
<1> HIDE DEF t
<1>2. /\ \A k \in 0..n : FirstOnes(s, k) \in Seq(V)
      /\ \A k \in 1..n : FirstOnes(s, k) = FirstOnes(s, k - 1) \o s[k] /\ s[k] \in Seq(V)
      /\ FlattenSeq(s) = FirstOnes(s, n)
  BY FlattenUnfolds, ElementOfSeq
<1>3. /\ \A k \in 1..(n + 1) : FirstOnes(t, k) = FirstOnes(t, k - 1) \o t[k]
      /\ FlattenSeq(t) = FirstOnes(t, n + 1)
  BY <1>1, FlattenUnfolds
<1>4. FirstOnes(s, 0) = <<>> /\ FirstOnes(t, 0) = <<>>
  BY DEF FirstOnes
<1> HIDE DEF n
<1>5. ASSUME NEW k \in Nat, 0..(k - 1) \subseteq Same
      PROVE  k \in Same
  <2>1. CASE k = 0
    <3>1. 1 \in 1..(n + 1) /\ 1 - 1 = 0
      BY <1>1
    <3>2. FirstOnes(t, 1) = <<>> \o x
      BY <1>1, <1>3, <1>4, <3>1
    <3>3. <<>> \o x = x /\ x \o <<>> = x
      BY ConcatEmptySeq
    <3>4. k + 1 = 1
      BY <2>1
    <3>5. QED
      BY <1>4, <2>1, <3>2, <3>3, <3>4
  <2>2. CASE k # 0 /\ k <= n
    <3>1. /\ k \in 1..n /\ k - 1 \in 0..n /\ k - 1 <= n /\ k - 1 + 1 = k
          /\ k + 1 \in 1..(n + 1) /\ k + 1 - 1 = k /\ k - 1 \in 0..(k - 1)
      BY <1>1, <2>2
    <3>2. k - 1 \in Same
      BY <1>5, <3>1
    <3>3. FirstOnes(t, k) = x \o FirstOnes(s, k - 1)
      BY <3>1, <3>2
    <3>4. FirstOnes(t, k + 1) = (x \o FirstOnes(s, k - 1)) \o s[k]
      <4>1. FirstOnes(t, k + 1) = FirstOnes(t, k + 1 - 1) \o t[k + 1] /\ t[k + 1] = s[k]
        <5> DEFINE l == k + 1
        <5>1. t[l] = s[k]
          BY <1>1, <3>1
        <5>2. l \in 1..(n + 1)
          BY <3>1
        <5> HIDE DEF l
        <5>3. FirstOnes(t, l) = FirstOnes(t, l - 1) \o t[l]
          BY <1>3, <5>2
        <5>4. QED
          BY <5>1, <5>3 DEF l
      <4>2. FirstOnes(t, k + 1 - 1) = FirstOnes(t, k)
        BY <3>1
      <4>3. QED
        BY <3>3, <4>1, <4>2
    <3>5. FirstOnes(s, k - 1) \in Seq(V) /\ s[k] \in Seq(V)
      BY <1>2, <3>1
    <3>6. (x \o FirstOnes(s, k - 1)) \o s[k] = x \o (FirstOnes(s, k - 1) \o s[k])
      <4> DEFINE a == FirstOnes(s, k - 1)
                 b == s[k]
      <4>1. a \in Seq(V) /\ b \in Seq(V)
        BY <3>5
      <4> HIDE DEF a, b
      <4>2. (x \o a) \o b = x \o (a \o b)
        BY <4>1, ConcatAssociative
      <4>3. QED
        BY <4>2 DEF a, b
    <3>7. QED
      BY <1>2, <3>1, <3>4, <3>6
  <2>3. QED
    BY <2>1, <2>2
<1>6. Nat \subseteq Same
  <2> HIDE DEF Same
  <2>1. QED
    BY <1>5, Induction
<1>7. FirstOnes(t, n + 1) = x \o FirstOnes(s, n)
  <2>1. n \in Same /\ n <= n
    <3> HIDE DEF Same
    <3>1. QED
      BY <1>1, <1>6
  <2>2. QED
    BY <2>1
<1>8. QED
  BY <1>2, <1>3, <1>7 DEF t

\* What walks are, step by step.
WalkTurn(s, walk) ==
  IF s.left = 0 \/ Follow(s.off) = Nowhere THEN <<s.off>>
  ELSE <<s.off>> \o walk[[off |-> Follow(s.off), left |-> s.left - 1]]

Onward(s) == [off |-> Follow(s.off), left |-> s.left - 1]

\* A place to go on to is a place.
LEMMA FollowType ==
  ASSUME msg \in Seq(Byte), NEW off \in Nat, Follow(off) # Nowhere
  PROVE  /\ Follow(off) \in Nat /\ off < Len(msg)
         /\ IsJump(off) => /\ off + 1 < Len(msg) /\ IsPointer(At(msg, off))
                           /\ Follow(off) = Pointer(At(msg, off), At(msg, off + 1))
<1>1. off < Len(msg) /\ Len(msg) \in Nat
  BY FollowLabel
<1>2. CASE IsJump(off)
  <2>1. IsPointer(At(msg, off)) /\ off \in 0..(Len(msg) - 1)
    BY <1>2 DEF IsJump
  <2>2. At(msg, off) \notin 1..MaxLabel
    BY <1>1, <2>1, ByteOf, Sizes
  <2>3. off + 1 < Len(msg) /\ Follow(off) = Pointer(At(msg, off), At(msg, off + 1))
    BY <2>1, <2>2 DEF Follow
  <2>4. off + 1 \in Nat
    OBVIOUS
  <2>5. Follow(off) \in Nat
    BY <1>1, <2>1, <2>3, <2>4, ByteOf, PointerType
  <2>6. QED
    BY <1>1, <2>1, <2>3, <2>5
<1>3. CASE ~IsJump(off)
  BY <1>1, <1>3, FollowsAhead
<1>4. QED
  BY <1>2, <1>3

\* The step after a step is a step, with one less to go.
LEMMA OnwardType ==
  ASSUME msg \in Seq(Byte), NEW s \in Steps, ~(s.left = 0 \/ Follow(s.off) = Nowhere)
  PROVE  Onward(s) \in Steps /\ Onward(s).left < s.left /\ Onward(s).left = s.left - 1
<1>1. s.off \in Nat /\ s.left \in Nat /\ s.left - 1 \in Nat
  BY DEF Steps
<1>2. Follow(s.off) \in Nat
  BY <1>1, FollowType
<1>3. QED
  BY <1>1, <1>2 DEF Onward, Steps

\* A walk is its first place and the walk from the next; it has a first place.
LEMMA WalkUnfolds ==
  ASSUME msg \in Seq(Byte)
  PROVE  \A s \in Steps :
           /\ WalkFrom[s] \in Seq(Nat) /\ Len(WalkFrom[s]) \in Nat \ {0} /\ WalkFrom[s][1] = s.off
           /\ WalkFrom[s] = WalkTurn(s, WalkFrom)
<1> DEFINE V == Seq(Nat)
           S == [Steps -> V]
           turn(f) == [s \in Steps |-> WalkTurn(s, f)]
           Phi == [f \in S |-> turn(f)]
           rank == [s \in Steps |-> s.left]
<1>1. PICK g \in S : g = turn(g)
  <2>1. [s \in Steps |-> <<>>] \in S
    OBVIOUS
  <2>2. \A s \in Steps : rank[s] \in Nat
    BY DEF Steps
  <2>3. Phi \in [S -> S]
    <3>1. ASSUME NEW f \in S, NEW s \in Steps
          PROVE  WalkTurn(s, f) \in V
      <4>1. <<s.off>> \in Seq(Nat)
        BY DEF Steps
      <4>2. CASE s.left = 0 \/ Follow(s.off) = Nowhere
        BY <4>1, <4>2 DEF WalkTurn
      <4>3. CASE ~(s.left = 0 \/ Follow(s.off) = Nowhere)
        <5>1. f[Onward(s)] \in Seq(Nat)
          BY <4>3, OnwardType
        <5>2. <<s.off>> \o f[Onward(s)] \in Seq(Nat)
          BY <4>1, <5>1, ConcatProperties
        <5>3. QED
          BY <4>3, <5>2 DEF WalkTurn, Onward
      <4>4. QED
        BY <4>2, <4>3
    <3> HIDE DEF V
    <3>2. \A f \in S : turn(f) \in S
      BY <3>1
    <3> HIDE DEF turn, S
    <3>3. QED
      BY <3>2
  <2>4. LooksBelow(Phi, S, Steps, rank)
    <3>1. ASSUME NEW f \in S, NEW h \in S, NEW s \in Steps,
                 \A y \in Steps : rank[y] < rank[s] => f[y] = h[y]
          PROVE  Phi[f][s] = Phi[h][s]
      <4>1. ~(s.left = 0 \/ Follow(s.off) = Nowhere) => f[Onward(s)] = h[Onward(s)]
        BY <3>1, OnwardType
      <4>2. WalkTurn(s, f) = WalkTurn(s, h)
        BY <4>1 DEF WalkTurn, Onward
      <4>3. QED
        BY <4>2
    <3> HIDE DEF Phi, rank, S
    <3>2. QED
      BY <3>1 DEF LooksBelow
  <2>5. AreMaps(S, Steps, V)
    BY DEF AreMaps
  <2> HIDE DEF Phi, rank, S, V
  <2>6. \E f \in S : f = Phi[f]
    BY <2>1, <2>2, <2>3, <2>4, <2>5, Recursion
  <2>7. QED
    BY <2>6 DEF Phi
<1>2. WalkFrom = turn(WalkFrom)
  <2>1. \E f : f = turn(f)
    BY <1>1
  <2>2. QED
    BY <2>1 DEF WalkFrom, WalkTurn
<1>3. \A s \in Steps : WalkFrom[s] = WalkTurn(s, WalkFrom)
  BY <1>2
<1> DEFINE Fine(s) == /\ WalkFrom[s] \in Seq(Nat) /\ Len(WalkFrom[s]) \in Nat \ {0}
                      /\ WalkFrom[s][1] = s.off
           Typed == {n \in Nat : \A s \in Steps : s.left = n => Fine(s)}
<1>4. ASSUME NEW n \in Nat, 0..(n - 1) \subseteq Typed
      PROVE  n \in Typed
  <2>1. ASSUME NEW s \in Steps, s.left = n
        PROVE  Fine(s)
    <3>1. s.off \in Nat /\ <<s.off>> \in Seq(Nat) /\ Len(<<s.off>>) = 1 /\ <<s.off>>[1] = s.off
      BY DEF Steps
    <3>2. CASE s.left = 0 \/ Follow(s.off) = Nowhere
      <4>1. WalkFrom[s] = <<s.off>>
        BY <1>3, <3>2 DEF WalkTurn
      <4>2. QED
        BY <3>1, <4>1
    <3>3. CASE ~(s.left = 0 \/ Follow(s.off) = Nowhere)
      <4> DEFINE rest == WalkFrom[Onward(s)]
      <4>1. Onward(s) \in Steps /\ Onward(s).left \in 0..(n - 1)
        BY <2>1, <3>3, OnwardType DEF Steps
      <4>2. rest \in Seq(Nat) /\ Len(rest) \in Nat
        <5>1. Onward(s).left \in Typed
          BY <1>4, <4>1
        <5>2. QED
          BY <4>1, <5>1
      <4>3. WalkFrom[s] = <<s.off>> \o rest
        BY <1>3, <3>3 DEF WalkTurn, Onward
      <4> HIDE DEF rest
      <4>4. /\ WalkFrom[s] \in Seq(Nat) /\ Len(WalkFrom[s]) = 1 + Len(rest)
            /\ \A i \in 1..(1 + Len(rest)) :
                 WalkFrom[s][i] = IF i <= 1 THEN <<s.off>>[i] ELSE rest[i - 1]
        BY <3>1, <4>2, <4>3, ConcatProperties
      <4>5. 1 \in 1..(1 + Len(rest))
        BY <4>2
      <4>6. QED
        BY <3>1, <4>2, <4>4, <4>5
    <3>4. QED
      BY <3>2, <3>3
  <2> HIDE DEF Fine
  <2>2. QED
    BY <2>1
<1>5. Nat \subseteq Typed
  <2> HIDE DEF Typed
  <2>1. QED
    BY <1>4, Induction
<1>6. \A s \in Steps : Fine(s)
  <2>1. \A s \in Steps : s.left \in Nat
    BY DEF Steps
  <2> HIDE DEF Fine
  <2>2. QED
    BY <1>5, <2>1
<1>7. QED
  BY <1>3, <1>6

\* What a walk is read as, from a place on at which a decoder has followed d
\* pointers and passed t bytes since the last.
RunTooLong(w) ==
  \E i, j \in 1..Len(w) : i < j /\ Jumps(w) \cap (i..(j - 1)) = {} /\ w[j] - w[i] > MaxTotal
FirstTooLong(w, t) ==
  \E j \in 2..Len(w) : Jumps(w) \cap (1..(j - 1)) = {} /\ t + w[j] - w[1] > MaxTotal
Bad(w, d, t) ==
  \/ w[Len(w)] >= Len(msg) \/ At(msg, w[Len(w)]) # 0
  \/ Cardinality(Jumps(w)) + d > MaxDepth
  \/ RunTooLong(w) \/ FirstTooLong(w, t)
Result(w) ==
  [name |-> Labels(w), next |-> IF Jumps(w) = {} THEN w[Len(w)] + 1 ELSE w[Min(Jumps(w))] + 2]
ReadingOn(w, d, t) == IF Bad(w, d, t) THEN Error ELSE Result(w)

Parts(w) ==
  [n \in 1..(Len(w) - 1) |-> IF n \in Jumps(w) THEN <<>> ELSE <<Label(msg, w[n])>>]

\* w is v with a in front.
InFront(a, v, w) ==
  /\ a \in Nat /\ v \in Seq(Nat) /\ Len(v) \in Nat \ {0} /\ w \in Seq(Nat)
  /\ Len(w) = Len(v) + 1 /\ w[1] = a /\ \A i \in 1..Len(v) : w[i + 1] = v[i]
  /\ w[Len(w)] = v[Len(v)] /\ v[1] \in Nat

\* A place can be put in front of every walk.
LEMMA PutInFront ==
  ASSUME NEW a \in Nat, NEW v \in Seq(Nat), Len(v) \in Nat \ {0}
  PROVE  InFront(a, v, <<a>> \o v)
<1> DEFINE w == <<a>> \o v
           n == Len(v)
<1>1. /\ <<a>> \in Seq(Nat) /\ Len(<<a>>) = 1 /\ <<a>>[1] = a
  OBVIOUS
<1>2. /\ w \in Seq(Nat) /\ Len(w) = 1 + n
      /\ \A i \in 1..(1 + n) : w[i] = IF i <= 1 THEN <<a>>[i] ELSE v[i - 1]
  BY <1>1, ConcatProperties
<1>3. n \in Nat /\ n >= 1
  OBVIOUS
<1> HIDE DEF w, n
<1>4. w[1] = a
  BY <1>1, <1>2, <1>3
<1>5. ASSUME NEW i \in 1..n PROVE w[i + 1] = v[i]
  <2>1. i + 1 \in 1..(1 + n) /\ ~(i + 1 <= 1) /\ i + 1 - 1 = i
    BY <1>3
  <2>2. QED
    BY <1>2, <2>1
<1>6. w[n + 1] = v[n] /\ 1 + n = n + 1
  BY <1>3, <1>5
<1>7. v[1] \in Nat
  BY <1>3, ElementOfSeq DEF n
<1>8. QED
  BY <1>2, <1>3, <1>4, <1>5, <1>6, <1>7 DEF InFront, w, n

\* The jumps of a walk are some of its turns.
LEMMA JumpsType ==
  ASSUME NEW v \in Seq(Nat), Len(v) \in Nat \ {0}
  PROVE  /\ Jumps(v) \subseteq 1..(Len(v) - 1) /\ Jumps(v) \subseteq Nat /\ IsFiniteSet(Jumps(v))
         /\ Cardinality(Jumps(v)) \in Nat
<1>1. Jumps(v) \subseteq 1..(Len(v) - 1)
  BY DEF Jumps
<1>2. IsFiniteSet(1..(Len(v) - 1))
  BY FS_Interval
<1>3. IsFiniteSet(Jumps(v))
  BY <1>1, <1>2, FS_Subset
<1>4. QED
  BY <1>1, <1>3, FS_CardinalityType

\* The jumps of the longer walk are those of the other, one turn later, and
\* perhaps its first turn.
LEMMA JumpsInFront ==
  ASSUME NEW a, NEW v, NEW w, InFront(a, v, w)
  PROVE  /\ Jumps(w) \subseteq 1..Len(v)
         /\ 1 \in Jumps(w) <=> IsJump(a)
         /\ \A n \in Nat : n + 1 \in Jumps(w) <=> n \in Jumps(v) \/ (n = 0 /\ IsJump(a))
         /\ Cardinality(Jumps(w)) = Cardinality(Jumps(v)) + IF IsJump(a) THEN 1 ELSE 0
<1> DEFINE Later == {n + 1 : n \in Jumps(v)}
<1>1. /\ v \in Seq(Nat) /\ w \in Seq(Nat) /\ Len(v) \in Nat \ {0} /\ Len(w) = Len(v) + 1
      /\ w[1] = a /\ \A i \in 1..Len(v) : w[i + 1] = v[i]
  BY DEF InFront
<1>2. Jumps(v) \subseteq 1..(Len(v) - 1) /\ IsFiniteSet(Jumps(v)) /\ Cardinality(Jumps(v)) \in Nat
  BY <1>1, JumpsType
<1>3. Len(w) - 1 = Len(v)
  BY <1>1
<1>4. Jumps(w) = {n \in 1..Len(v) : IsJump(w[n])}
  BY <1>3 DEF Jumps
<1>5. Jumps(v) = {n \in 1..(Len(v) - 1) : IsJump(v[n])}
  BY DEF Jumps
<1>6. 1 \in Jumps(w) <=> IsJump(a)
  BY <1>1, <1>4
<1>7. ASSUME NEW n \in 1..(Len(v) - 1)
      PROVE  n + 1 \in Jumps(w) <=> n \in Jumps(v)
  <2>0. Len(v) \in Nat
    BY <1>1
  <2>1. n \in 1..Len(v) /\ n + 1 \in 1..Len(v)
    BY <2>0
  <2>2. w[n + 1] = v[n]
    BY <1>1, <2>1
  <2>3. QED
    BY <1>4, <1>5, <2>1, <2>2
<1>8. ASSUME NEW n \in Nat
      PROVE  n + 1 \in Jumps(w) <=> n \in Jumps(v) \/ (n = 0 /\ IsJump(a))
  <2>1. CASE n = 0
    <3>1. n \notin Jumps(v) /\ n + 1 = 1
      BY <1>2, <2>1
    <3>2. QED
      BY <1>6, <2>1, <3>1
  <2>2. CASE n \in 1..(Len(v) - 1)
    <3>1. n # 0
      BY <2>2
    <3>2. QED
      BY <1>7, <2>2, <3>1
  <2>3. CASE n # 0 /\ n \notin 1..(Len(v) - 1)
    <3>1. n \notin Jumps(v)
      BY <1>2, <2>3
    <3>2. n + 1 \notin 1..Len(v)
      <4>1. Len(v) \in Nat /\ Len(v) # 0
        BY <1>1
      <4>2. QED
        BY <2>3, <4>1
    <3>3. QED
      BY <1>4, <2>3, <3>1, <3>2
  <2>4. QED
    BY <2>1, <2>2, <2>3
<1>9. IsFiniteSet(Later) /\ Cardinality(Later) = Cardinality(Jumps(v))
  <2> DEFINE shift == [n \in Jumps(v) |-> n + 1]
  <2>1. \A n \in Jumps(v) : n \in Nat
    BY <1>2
  <2>2. shift \in Bijection(Jumps(v), Later)
    <3>1. shift \in [Jumps(v) -> Later]
      OBVIOUS
    <3>2. \A x, y \in Jumps(v) : shift[x] = shift[y] => x = y
      BY <2>1
    <3>3. \A y \in Later : \E x \in Jumps(v) : shift[x] = y
      OBVIOUS
    <3> HIDE DEF shift, Later
    <3>4. QED
      BY <3>1, <3>2, <3>3 DEF Bijection, Injection, Surjection, IsInjective
  <2>3. ExistsBijection(Jumps(v), Later)
    BY <2>2 DEF ExistsBijection
  <2> HIDE DEF Later
  <2>4. QED
    BY <1>2, <2>3, FS_Bijection
<1>10. Jumps(w) = IF IsJump(a) THEN Later \cup {1} ELSE Later
  <2>1. ASSUME NEW k \in Jumps(w)
        PROVE  k \in Later \/ (k = 1 /\ IsJump(a))
    <3>1. k - 1 \in Nat /\ k = (k - 1) + 1
      BY <1>1, <1>4
    <3>2. k - 1 \in Jumps(v) \/ (k - 1 = 0 /\ IsJump(a))
      BY <1>8, <3>1
    <3>3. QED
      BY <3>1, <3>2
  <2>2. ASSUME NEW k \in Later PROVE k \in Jumps(w)
    BY <1>2, <1>8
  <2> HIDE DEF Later
  <2>3. QED
    BY <1>6, <2>1, <2>2
<1>11. 1 \notin Later
  BY <1>2
<1>12. Cardinality(Jumps(w)) = Cardinality(Jumps(v)) + IF IsJump(a) THEN 1 ELSE 0
  <2> HIDE DEF Later
  <2>1. CASE IsJump(a)
    <3>1. Cardinality(Later \cup {1}) = Cardinality(Later) + 1
      BY <1>9, <1>11, FS_AddElement
    <3>2. QED
      BY <1>9, <1>10, <2>1, <3>1
  <2>2. CASE ~IsJump(a)
    BY <1>2, <1>9, <1>10, <2>2
  <2>3. QED
    BY <2>1, <2>2
<1>13. QED
  BY <1>4, <1>6, <1>8, <1>12

\* Runs of labels: those of the shorter walk, and those from the place in front.
LEMMA RunsInFront ==
  ASSUME NEW a, NEW v, NEW w, InFront(a, v, w), NEW t \in Nat
  PROVE  /\ RunTooLong(w) <=> RunTooLong(v) \/ FirstTooLong(w, 0)
         /\ FirstTooLong(w, 0) => FirstTooLong(w, t)
         /\ FirstTooLong(v, 0) => RunTooLong(v)
         /\ IsJump(a) => ~FirstTooLong(w, t)
         /\ ~IsJump(a) => (FirstTooLong(w, t) <=> t + v[1] - a > MaxTotal
                                                \/ FirstTooLong(v, t + v[1] - a))
<1> DEFINE n == Len(v)
           J == Jumps(v)
           K == Jumps(w)
<1>1. /\ a \in Nat /\ v \in Seq(Nat) /\ n \in Nat /\ n >= 1 /\ w \in Seq(Nat) /\ Len(w) = n + 1
      /\ w[1] = a /\ \A i \in 1..n : w[i + 1] = v[i]
  BY DEF InFront
<1>2. /\ J \subseteq Nat /\ K \subseteq Nat
      /\ 1 \in K <=> IsJump(a)
      /\ \A k \in Nat : k + 1 \in K <=> k \in J \/ (k = 0 /\ IsJump(a))
  <2>1. n \in Nat \ {0} /\ Len(w) \in Nat \ {0}
    BY <1>1
  <2>2. J \subseteq Nat /\ K \subseteq Nat
    BY <1>1, <2>1, JumpsType
  <2>3. /\ 1 \in K <=> IsJump(a)
        /\ \A k \in Nat : k + 1 \in K <=> k \in J \/ (k = 0 /\ IsJump(a))
    BY JumpsInFront
  <2>4. QED
    BY <2>2, <2>3
<1>3. /\ \A i \in 1..n : v[i] \in Nat
      /\ \A i \in 1..(n + 1) : w[i] \in Nat
  BY <1>1, ElementOfSeq
<1>4. MaxTotal \in Nat
  BY Sizes
<1>5. /\ RunTooLong(v) <=> \E i, j \in 1..n : i < j /\ J \cap (i..(j - 1)) = {}
                                             /\ v[j] - v[i] > MaxTotal
      /\ RunTooLong(w) <=> \E i, j \in 1..(n + 1) : i < j /\ K \cap (i..(j - 1)) = {}
                                                   /\ w[j] - w[i] > MaxTotal
      /\ \A u : FirstTooLong(v, u) <=> \E j \in 2..n : J \cap (1..(j - 1)) = {}
                                                       /\ u + v[j] - v[1] > MaxTotal
      /\ \A u : FirstTooLong(w, u) <=> \E j \in 2..(n + 1) : K \cap (1..(j - 1)) = {}
                                                             /\ u + w[j] - w[1] > MaxTotal
  BY <1>1 DEF RunTooLong, FirstTooLong
<1> HIDE DEF n, J, K
<1>6. ASSUME NEW i \in Nat \ {0}, NEW j \in Nat
      PROVE  K \cap ((i + 1)..j) = {} <=> J \cap (i..(j - 1)) = {}
  <2>1. ASSUME NEW k \in J, k \in i..(j - 1)
        PROVE  k + 1 \in K /\ k + 1 \in (i + 1)..j
    BY <1>2, <2>1
  <2>2. ASSUME NEW k \in K, k \in (i + 1)..j
        PROVE  k - 1 \in J /\ k - 1 \in i..(j - 1)
    <3>1. k - 1 \in Nat /\ k - 1 # 0 /\ k = (k - 1) + 1 /\ k - 1 \in i..(j - 1)
      BY <1>2, <2>2
    <3>2. QED
      BY <1>2, <3>1
  <2>3. QED
    BY <2>1, <2>2
<1>7. ASSUME RunTooLong(v)
      PROVE  RunTooLong(w)
  <2>1. PICK i \in 1..n, j \in 1..n : i < j /\ J \cap (i..(j - 1)) = {} /\ v[j] - v[i] > MaxTotal
    BY <1>5, <1>7
  <2>2. i + 1 \in 1..(n + 1) /\ j + 1 \in 1..(n + 1) /\ i + 1 < j + 1 /\ (j + 1) - 1 = j
        /\ i \in Nat \ {0} /\ j \in Nat
    BY <1>1, <2>1
  <2>3. K \cap ((i + 1)..((j + 1) - 1)) = {}
    BY <1>6, <2>1, <2>2
  <2>4. w[j + 1] = v[j] /\ w[i + 1] = v[i]
    BY <1>1
  <2>5. w[j + 1] - w[i + 1] > MaxTotal
    BY <2>1, <2>4
  <2>6. QED
    BY <1>5, <2>2, <2>3, <2>5
<1>8. ASSUME FirstTooLong(w, 0)
      PROVE  RunTooLong(w) /\ FirstTooLong(w, t)
  <2>1. PICK j \in 2..(n + 1) : K \cap (1..(j - 1)) = {} /\ 0 + w[j] - w[1] > MaxTotal
    BY <1>5, <1>8
  <2>2. j \in 1..(n + 1) /\ 1 \in 1..(n + 1) /\ 1 < j
    BY <1>1, <2>1
  <2>3. w[j] \in Nat /\ w[1] \in Nat
    BY <1>3, <2>2
  <2>4. w[j] - w[1] > MaxTotal /\ t + w[j] - w[1] > MaxTotal
    BY <1>4, <2>1, <2>3
  <2>5. QED
    BY <1>5, <2>1, <2>2, <2>4
<1>9. ASSUME RunTooLong(w), ~FirstTooLong(w, 0)
      PROVE  RunTooLong(v)
  <2>1. PICK i \in 1..(n + 1), j \in 1..(n + 1) :
          i < j /\ K \cap (i..(j - 1)) = {} /\ w[j] - w[i] > MaxTotal
    BY <1>5, <1>9
  <2>2. CASE i = 1
    <3>1. j \in 2..(n + 1) /\ K \cap (1..(j - 1)) = {}
      BY <1>1, <2>1, <2>2
    <3>2. w[j] \in Nat /\ w[1] \in Nat
      BY <1>3, <2>1, <2>2
    <3>3. 0 + w[j] - w[1] > MaxTotal
      BY <2>1, <2>2, <3>2
    <3>4. QED
      BY <1>5, <1>9, <3>1, <3>3
  <2>3. CASE i # 1
    <3> DEFINE k == i - 1
               l == j - 1
    <3>1. /\ k \in 1..n /\ l \in 1..n /\ k < l /\ k \in Nat \ {0} /\ l \in Nat
          /\ k + 1 = i /\ l + 1 = j
      BY <1>1, <2>1, <2>3
    <3>2. K \cap ((k + 1)..l) = {}
      BY <2>1, <3>1
    <3> HIDE DEF k, l
    <3>3. J \cap (k..(l - 1)) = {}
      BY <1>6, <3>1, <3>2
    <3>4. v[k] = w[i] /\ v[l] = w[j]
      BY <1>1, <3>1
    <3>5. v[l] - v[k] > MaxTotal
      BY <2>1, <3>4
    <3>6. QED
      BY <1>5, <3>1, <3>3, <3>5
  <2>4. QED
    BY <2>2, <2>3
<1>10. ASSUME FirstTooLong(v, 0)
       PROVE  RunTooLong(v)
  <2>1. PICK j \in 2..n : J \cap (1..(j - 1)) = {} /\ 0 + v[j] - v[1] > MaxTotal
    BY <1>5, <1>10
  <2>2. j \in 1..n /\ 1 \in 1..n /\ 1 < j
    BY <1>1, <2>1
  <2>3. v[j] \in Nat /\ v[1] \in Nat
    BY <1>3, <2>2
  <2>4. v[j] - v[1] > MaxTotal
    BY <1>4, <2>1, <2>3
  <2>5. QED
    BY <1>5, <2>1, <2>2, <2>4
<1>11. ASSUME IsJump(a), FirstTooLong(w, t)
       PROVE  FALSE
  <2>1. PICK j \in 2..(n + 1) : K \cap (1..(j - 1)) = {}
    BY <1>5, <1>11
  <2>2. 1 \in 1..(j - 1)
    BY <1>1, <2>1
  <2>3. QED
    BY <1>2, <1>11, <2>1, <2>2
<1>12. ASSUME ~IsJump(a)
       PROVE  FirstTooLong(w, t) <=> t + v[1] - a > MaxTotal \/ FirstTooLong(v, t + v[1] - a)
  <2>0. 1 \in 1..n /\ v[1] \in Nat /\ w[1] = a /\ w[1 + 1] = v[1] /\ 1 + 1 = 2
    BY <1>1, <1>3
  <2> DEFINE u == t + v[1] - a
  <2>1. ASSUME NEW j \in Nat
        PROVE  K \cap (1..j) = {} <=> J \cap (1..(j - 1)) = {}
    <3>1. 1 \in Nat \ {0} /\ 1 \notin K
      BY <1>2, <1>12
    <3>2. K \cap ((1 + 1)..j) = {} <=> J \cap (1..(j - 1)) = {}
      BY <1>6, <3>1
    <3>3. ASSUME NEW k \in K, k \in 1..j PROVE k \in (1 + 1)..j
      BY <1>2, <3>1, <3>3
    <3>4. ASSUME NEW k \in K, k \in (1 + 1)..j PROVE k \in 1..j
      BY <1>2, <3>4
    <3>5. QED
      BY <3>2, <3>3, <3>4
  <2>2. ASSUME NEW j \in 2..n
        PROVE  u + v[j] - v[1] = t + w[j + 1] - w[1]
    <3>1. j \in 1..n
      BY <1>1
    <3>2. w[j + 1] = v[j] /\ v[j] \in Nat
      BY <1>1, <1>3, <3>1
    <3>3. QED
      <4> DEFINE x == v[1]
                 y == v[j]
      <4>1. x \in Nat /\ y \in Nat /\ a \in Nat /\ w[j + 1] = y /\ w[1] = a /\ u = t + x - a
        BY <1>1, <2>0, <3>2
      <4> HIDE DEF x, y, u
      <4>2. u + y - x = t + y - a
        BY <4>1
      <4>3. QED
        BY <4>1, <4>2 DEF x, y
  <2>3. ASSUME FirstTooLong(w, t), ~(u > MaxTotal)
        PROVE  FirstTooLong(v, u)
    <3>1. PICK j \in 2..(n + 1) : K \cap (1..(j - 1)) = {} /\ t + w[j] - w[1] > MaxTotal
      BY <1>5, <2>3
    <3>2. j # 2
      BY <2>0, <2>3, <3>1
    <3> DEFINE l == j - 1
    <3>3. l \in 2..n /\ l \in Nat /\ l + 1 = j
      BY <1>1, <3>1, <3>2
    <3>4. K \cap (1..l) = {}
      BY <3>1
    <3> HIDE DEF l, u
    <3>5. J \cap (1..(l - 1)) = {}
      BY <2>1, <3>3, <3>4
    <3>6. u + v[l] - v[1] > MaxTotal
      BY <2>2, <3>1, <3>3
    <3>7. QED
      BY <1>5, <3>3, <3>5, <3>6
  <2>4. ASSUME u > MaxTotal
        PROVE  FirstTooLong(w, t)
    <3>1. 2 \in 2..(n + 1) /\ 2 - 1 = 1 /\ 1 \in Nat
      BY <1>1
    <3>2. J \cap (1..(1 - 1)) = {}
      OBVIOUS
    <3>3. K \cap (1..(2 - 1)) = {}
      BY <2>1, <3>1, <3>2
    <3>4. t + w[2] - w[1] > MaxTotal
      BY <2>0, <2>4
    <3>5. QED
      BY <1>5, <3>1, <3>3, <3>4
  <2>5. ASSUME FirstTooLong(v, u)
        PROVE  FirstTooLong(w, t)
    <3> HIDE DEF u
    <3>1. PICK j \in 2..n : J \cap (1..(j - 1)) = {} /\ u + v[j] - v[1] > MaxTotal
      BY <1>5, <2>5
    <3>2. j \in Nat /\ j + 1 \in 2..(n + 1) /\ (j + 1) - 1 = j
      BY <1>1, <3>1
    <3>3. K \cap (1..((j + 1) - 1)) = {}
      BY <2>1, <3>1, <3>2
    <3>4. t + w[j + 1] - w[1] > MaxTotal
      BY <2>2, <3>1
    <3>5. QED
      BY <1>5, <3>2, <3>3, <3>4
  <2>6. QED
    BY <2>3, <2>4, <2>5
<1>13. QED
  BY <1>7, <1>8, <1>9, <1>10, <1>11, <1>12 DEF n

\* A walk read with a place in front of it.
LEMMA BadInFront ==
  ASSUME NEW a, NEW v, NEW w, InFront(a, v, w), NEW d \in Nat, NEW t \in Nat,
         IsJump(a) \/ (t + v[1] - a) \in Nat
  PROVE  /\ IsJump(a) => (Bad(w, d, t) <=> Bad(v, d + 1, 0))
         /\ ~IsJump(a) => (Bad(w, d, t) <=> t + v[1] - a > MaxTotal \/ Bad(v, d, t + v[1] - a))
<1>1. w[Len(w)] = v[Len(v)] /\ v \in Seq(Nat) /\ Len(v) \in Nat \ {0}
  BY DEF InFront
<1>2. Cardinality(Jumps(v)) \in Nat
  BY <1>1, JumpsType
<1>3. Cardinality(Jumps(w)) = Cardinality(Jumps(v)) + IF IsJump(a) THEN 1 ELSE 0
  BY JumpsInFront
<1>4. /\ RunTooLong(w) <=> RunTooLong(v) \/ FirstTooLong(w, 0)
      /\ FirstTooLong(w, 0) => FirstTooLong(w, t)
      /\ FirstTooLong(v, 0) => RunTooLong(v)
      /\ IsJump(a) => ~FirstTooLong(w, t)
      /\ ~IsJump(a) => (FirstTooLong(w, t) <=> t + v[1] - a > MaxTotal
                                             \/ FirstTooLong(v, t + v[1] - a))
  BY RunsInFront
<1>5. ASSUME IsJump(a)
      PROVE  Bad(w, d, t) <=> Bad(v, d + 1, 0)
  <2>1. Cardinality(Jumps(w)) + d = Cardinality(Jumps(v)) + (d + 1)
    BY <1>2, <1>3, <1>5
  <2>2. RunTooLong(w) \/ FirstTooLong(w, t) <=> RunTooLong(v) \/ FirstTooLong(v, 0)
    BY <1>4, <1>5
  <2>3. QED
    BY <1>1, <2>1, <2>2, Zenon DEF Bad
<1>6. ASSUME ~IsJump(a)
      PROVE  Bad(w, d, t) <=> t + v[1] - a > MaxTotal \/ Bad(v, d, t + v[1] - a)
  <2>1. Cardinality(Jumps(w)) = Cardinality(Jumps(v))
    BY <1>2, <1>3, <1>6
  <2>2. RunTooLong(w) \/ FirstTooLong(w, t)
          <=> t + v[1] - a > MaxTotal \/ RunTooLong(v) \/ FirstTooLong(v, t + v[1] - a)
    BY <1>4, <1>6
  <2>3. QED
    BY <1>1, <2>1, <2>2, Zenon DEF Bad
<1>7. QED
  BY <1>5, <1>6

\* The labels of a walk with a place in front of it.
LEMMA PartsInFront ==
  ASSUME NEW a, NEW v, NEW w, InFront(a, v, w), Parts(v) \in Seq(Seq(Seq(Byte))),
         ~IsJump(a) => Label(msg, a) \in Seq(Byte)
  PROVE  /\ Parts(w) \in Seq(Seq(Seq(Byte)))
         /\ Labels(v) \in Seq(Seq(Byte))
         /\ Labels(w) = IF IsJump(a) THEN Labels(v) ELSE <<Label(msg, a)>> \o Labels(v)
<1> DEFINE n == Len(v)
           first == IF IsJump(a) THEN <<>> ELSE <<Label(msg, a)>>
           s == Parts(v)
           t == Parts(w)
           one == <<first>>
           u == one \o s
           LL == Seq(Seq(Byte))
<1>1. /\ n \in Nat \ {0} /\ Len(w) - 1 = n /\ w[1] = a /\ \A i \in 1..n : w[i + 1] = v[i]
  BY DEF InFront
<1>2. first \in LL
  <2>1. CASE IsJump(a)
    BY <2>1
  <2>2. CASE ~IsJump(a)
    <3> DEFINE label == Label(msg, a)
    <3>1. label \in Seq(Byte)
      BY <2>2
    <3> HIDE DEF label
    <3>2. <<label>> \in Seq(Seq(Byte))
      BY <3>1
    <3>3. QED
      BY <2>2, <3>2 DEF label
  <2>3. QED
    BY <2>1, <2>2
<1>3. /\ DOMAIN t = 1..n
      /\ \A k \in 1..n : t[k] = IF k \in Jumps(w) THEN <<>> ELSE <<Label(msg, w[k])>>
      /\ t = [k \in 1..n |-> t[k]]
  BY <1>1 DEF Parts
<1>4. /\ s \in Seq(LL) /\ Len(s) = n - 1
      /\ \A k \in 1..(n - 1) : s[k] = IF k \in Jumps(v) THEN <<>> ELSE <<Label(msg, v[k])>>
  <2>1. s = [k \in 1..(n - 1) |-> IF k \in Jumps(v) THEN <<>> ELSE <<Label(msg, v[k])>>]
    BY DEF Parts
  <2>2. DOMAIN s = 1..(n - 1) /\ n - 1 \in Nat
    BY <1>1, <2>1
  <2>3. Len(s) = n - 1
    <3> HIDE DEF s, n
    <3>1. DOMAIN s = 1..Len(s) /\ Len(s) \in Nat
      BY LenProperties DEF s
    <3>2. QED
      BY <2>2, <3>1
  <2>4. QED
    BY <2>1, <2>3
<1> HIDE DEF n, s, t, first, LL
<1>5. one \in Seq(LL) /\ Len(one) = 1 /\ one[1] = first
  BY <1>2
<1> HIDE DEF one
<1>6. /\ u \in Seq(LL) /\ Len(u) = n
      /\ \A k \in 1..n : u[k] = IF k = 1 THEN first ELSE s[k - 1]
  <2>1. /\ u \in Seq(LL) /\ Len(u) = 1 + (n - 1)
        /\ \A k \in 1..(1 + (n - 1)) : u[k] = IF k <= 1 THEN one[k] ELSE s[k - 1]
    <3>1. /\ u \in Seq(LL) /\ Len(u) = Len(one) + Len(s)
          /\ \A k \in 1..(Len(one) + Len(s)) :
               u[k] = IF k <= Len(one) THEN one[k] ELSE s[k - Len(one)]
      BY <1>4, <1>5, ConcatProperties
    <3> HIDE DEF u
    <3>2. QED
      BY <1>4, <1>5, <3>1
  <2> HIDE DEF u
  <2>2. 1 + (n - 1) = n /\ \A k \in 1..n : k <= 1 <=> k = 1
    BY <1>1
  <2>3. QED
    BY <1>5, <2>1, <2>2
<1> HIDE DEF u
<1>7. ASSUME NEW k \in 1..n
      PROVE  t[k] = u[k]
  <2>1. CASE k = 1
    <3>1. t[1] = first
      BY <1>1, <1>3, <2>1, JumpsInFront DEF first
    <3>2. QED
      BY <1>6, <2>1, <3>1
  <2>2. CASE k # 1
    <3> DEFINE l == k - 1
    <3>1. l \in 1..(n - 1) /\ l \in 1..n /\ l \in Nat /\ l # 0 /\ l + 1 = k
      BY <1>1, <2>2
    <3>2. u[k] = s[l]
      BY <1>6, <2>2
    <3> HIDE DEF l
    <3>3. w[k] = v[l] /\ (k \in Jumps(w) <=> l \in Jumps(v))
      <4>1. w[l + 1] = v[l]
        BY <1>1, <3>1
      <4>2. l + 1 \in Jumps(w) <=> l \in Jumps(v)
        <5>1. \A j \in Nat : j + 1 \in Jumps(w) <=> j \in Jumps(v) \/ (j = 0 /\ IsJump(a))
          BY JumpsInFront
        <5>2. l \in Nat /\ l # 0
          BY <3>1
        <5>3. QED
          BY <5>1, <5>2
      <4>3. QED
        BY <3>1, <4>1, <4>2
    <3>4. s[l] = IF l \in Jumps(v) THEN <<>> ELSE <<Label(msg, v[l])>>
      BY <1>4, <3>1
    <3>5. t[k] = IF k \in Jumps(w) THEN <<>> ELSE <<Label(msg, w[k])>>
      BY <1>3
    <3>6. QED
      BY <3>2, <3>3, <3>4, <3>5
  <2>3. QED
    BY <2>1, <2>2
<1>8. t = u
  <2>1. DOMAIN u = 1..n /\ u = [k \in 1..n |-> u[k]]
    <3>1. u \in [1..Len(u) -> LL]
      BY <1>6, LenProperties
    <3>2. QED
      BY <1>6, <3>1
  <2>2. QED
    BY <1>3, <1>7, <2>1
<1>9. FlattenSeq(s) \in Seq(Seq(Byte)) /\ FlattenSeq(u) = first \o FlattenSeq(s)
  <2>1. s \in Seq(Seq(Seq(Byte))) /\ first \in Seq(Seq(Byte))
    BY <1>2, <1>4 DEF LL
  <2>2. 0 \in 0..Len(s)
    BY <1>1, <1>4
  <2>3. FlattenSeq(s) \in Seq(Seq(Byte))
    BY <2>1, <2>2, FlattenedParts
  <2>4. FlattenSeq(<<first>> \o s) = first \o FlattenSeq(s)
    BY <2>1, FlattenInFront
  <2>5. QED
    BY <2>3, <2>4 DEF u, one
<1>10. Labels(v) = FlattenSeq(s) /\ Labels(w) = FlattenSeq(t)
  BY DEF Labels, s, t, Parts
<1>11. <<>> \o Labels(v) = Labels(v)
  BY <1>9, <1>10, ConcatEmptySeq
<1>12. QED
  BY <1>6, <1>8, <1>9, <1>10, <1>11 DEF first, LL, t

\* The name and the place of a walk that reads a name.
LEMMA ResultType ==
  ASSUME NEW v \in Seq(Nat), Len(v) \in Nat \ {0}, Labels(v) \in Seq(Seq(Byte))
  PROVE  Result(v) \in Read
<1> DEFINE next == IF Jumps(v) = {} THEN v[Len(v)] + 1 ELSE v[Min(Jumps(v))] + 2
<1>1. Jumps(v) \subseteq 1..(Len(v) - 1) /\ Jumps(v) \subseteq Nat
  BY JumpsType
<1>2. Jumps(v) # {} => Min(Jumps(v)) \in 1..Len(v)
  <2>1. Jumps(v) # {} => Min(Jumps(v)) \in Jumps(v)
    BY <1>1, LeastOf
  <2>2. Jumps(v) \subseteq 1..Len(v)
    BY <1>1
  <2>3. QED
    BY <2>1, <2>2
<1>3. v[Len(v)] \in Nat
  BY ElementOfSeq
<1>4. Jumps(v) # {} => v[Min(Jumps(v))] \in Nat
  BY <1>2, ElementOfSeq
<1>5. next \in Nat
  BY <1>3, <1>4
<1> HIDE DEF next
<1>6. [name |-> Labels(v), next |-> next] \in Read
  BY <1>5 DEF Read, DomainNames
<1>7. QED
  BY <1>6 DEF Result, next

\* What is read on a walk with a place in front of it: another place to go on
\* after a jump, another label otherwise.
LEMMA ResultInFront ==
  ASSUME NEW a, NEW v, NEW w, InFront(a, v, w), Parts(v) \in Seq(Seq(Seq(Byte))),
         ~IsJump(a) => Label(msg, a) \in Seq(Byte)
  PROVE  /\ Result(v) \in Read
         /\ IsJump(a) => Result(w) = [Result(v) EXCEPT !.next = a + 2]
         /\ ~IsJump(a) => Result(w) = [Result(v) EXCEPT !.name = <<Label(msg, a)>> \o @]
<1> DEFINE n == Len(v)
           next(x) == IF Jumps(x) = {} THEN x[Len(x)] + 1 ELSE x[Min(Jumps(x))] + 2
<1>1. /\ a \in Nat /\ v \in Seq(Nat) /\ n \in Nat \ {0} /\ w \in Seq(Nat) /\ Len(w) = n + 1
      /\ w[1] = a /\ w[Len(w)] = v[n] /\ \A i \in 1..n : w[i + 1] = v[i]
  BY DEF InFront
<1>2. /\ Labels(v) \in Seq(Seq(Byte))
      /\ Labels(w) = IF IsJump(a) THEN Labels(v) ELSE <<Label(msg, a)>> \o Labels(v)
  BY PartsInFront
<1>3. Result(v) \in Read
  BY <1>1, <1>2, ResultType
<1>4. /\ 1 \in Jumps(w) <=> IsJump(a)
      /\ \A k \in Nat : k + 1 \in Jumps(w) <=> k \in Jumps(v) \/ (k = 0 /\ IsJump(a))
      /\ Jumps(w) \subseteq 1..n
  BY JumpsInFront
<1>5. Jumps(v) \subseteq 1..(n - 1)
  BY <1>1, JumpsType
<1>6. /\ Result(v) = [name |-> Labels(v), next |-> next(v)]
      /\ Result(w) = [name |-> Labels(w), next |-> next(w)]
  BY DEF Result
<1>0. Jumps(v) \subseteq Nat /\ Jumps(w) \subseteq Nat
  <2>1. Len(w) \in Nat \ {0}
    BY <1>1
  <2>2. QED
    BY <1>1, <2>1, JumpsType
<1>7. Jumps(w) # {} => /\ Min(Jumps(w)) \in Jumps(w)
                       /\ \A y \in Jumps(w) : Min(Jumps(w)) <= y
  BY <1>0, LeastOf
<1>8. Jumps(v) # {} => /\ Min(Jumps(v)) \in Jumps(v)
                       /\ \A y \in Jumps(v) : Min(Jumps(v)) <= y
  BY <1>0, LeastOf
<1> HIDE DEF n
<1>9. ASSUME IsJump(a) PROVE next(w) = a + 2
  <2>1. 1 \in Jumps(w)
    BY <1>4, <1>9
  <2>2. Min(Jumps(w)) = 1
    <3> DEFINE x == Min(Jumps(w))
    <3>1. x \in 1..n /\ x <= 1
      BY <1>4, <1>7, <2>1
    <3> HIDE DEF x
    <3>2. x = 1
      BY <1>1, <3>1
    <3>3. QED
      BY <3>2 DEF x
  <2>3. QED
    BY <1>1, <2>1, <2>2
<1>10. ASSUME ~IsJump(a) PROVE next(w) = next(v)
  <2>1. ASSUME NEW k \in Jumps(w)
        PROVE  k - 1 \in Jumps(v) /\ k - 1 \in Nat /\ k \in Nat
    <3>0. k \in 1..n /\ n \in Nat
      BY <1>1, <1>4
    <3>1. k - 1 \in Nat /\ k = (k - 1) + 1 /\ k \in Nat
      BY <3>0
    <3>2. k - 1 \in Jumps(v) \/ (k - 1 = 0 /\ IsJump(a))
      BY <1>4, <3>1
    <3>3. QED
      BY <1>10, <3>1, <3>2
  <2>2. ASSUME NEW k \in Jumps(v)
        PROVE  k + 1 \in Jumps(w) /\ k \in Nat /\ k \in 1..n
    <3>1. k \in 1..(n - 1) /\ n \in Nat
      BY <1>1, <1>5
    <3>2. k \in Nat /\ k \in 1..n
      BY <3>1
    <3>3. QED
      BY <1>4, <3>2
  <2>3. CASE Jumps(v) = {}
    <3>1. Jumps(w) = {}
      BY <2>1, <2>3
    <3>2. QED
      BY <1>1, <2>3, <3>1 DEF n
  <2>4. CASE Jumps(v) # {}
    <3> DEFINE x == Min(Jumps(v))
               y == Min(Jumps(w))
    <3>1. Jumps(w) # {} /\ x \in Jumps(v) /\ x + 1 \in Jumps(w) /\ x \in Nat /\ x \in 1..n
      BY <1>8, <2>2, <2>4
    <3>2. y \in Jumps(w) /\ y - 1 \in Jumps(v) /\ y \in Nat /\ y <= x + 1 /\ x <= y - 1
      BY <1>7, <1>8, <2>1, <2>4, <3>1
    <3>3. y = x + 1
      BY <3>1, <3>2
    <3>4. w[y] = v[x]
      BY <1>1, <3>1, <3>3
    <3> HIDE DEF x, y
    <3>5. w[y] + 2 = v[x] + 2
      BY <3>4
    <3>6. QED
      BY <2>4, <3>1, <3>5 DEF x, y
  <2>5. QED
    BY <2>3, <2>4
<1> HIDE DEF next
<1>11. ASSUME IsJump(a) PROVE Result(w) = [Result(v) EXCEPT !.next = a + 2]
  BY <1>2, <1>6, <1>9, <1>11
<1>12. ASSUME ~IsJump(a) PROVE Result(w) = [Result(v) EXCEPT !.name = <<Label(msg, a)>> \o @]
  <2> DEFINE r == Result(v)
             label == Label(msg, a)
  <2>1. r \in Read /\ r.name = Labels(v) /\ r.next = next(v)
    BY <1>3, <1>6
  <2>2. Result(w) = [name |-> <<label>> \o r.name, next |-> r.next]
    BY <1>2, <1>6, <1>10, <1>12, <2>1
  <2> HIDE DEF r, label
  <2>3. [r EXCEPT !.name = <<label>> \o @] = [name |-> <<label>> \o r.name, next |-> r.next]
    BY <2>1, LabelInFront
  <2>4. QED
    BY <2>2, <2>3, Zenon DEF r, label
<1>13. QED
  BY <1>3, <1>11, <1>12

\* A walk of one place.
LEMMA NoStep ==
  ASSUME NEW a \in Nat, NEW d \in Nat, NEW t \in Nat
  PROVE  /\ Parts(<<a>>) = <<>> /\ Labels(<<a>>) = <<>>
         /\ Bad(<<a>>, d, t) <=> a >= Len(msg) \/ At(msg, a) # 0 \/ d > MaxDepth
         /\ Result(<<a>>) = [name |-> <<>>, next |-> a + 1]
<1> DEFINE w == <<a>>
<1>1. Len(w) = 1 /\ w[1] = a
  OBVIOUS
<1> HIDE DEF w
<1>2. Jumps(w) = {}
  BY <1>1 DEF Jumps
<1>3. Parts(w) = <<>>
  BY <1>1 DEF Parts
<1>4. Labels(w) = <<>>
  <2>1. Labels(w) = FlattenSeq(Parts(w))
    BY DEF Labels, Parts
  <2>2. Len(<<>>) = 0
    OBVIOUS
  <2>3. QED
    BY <1>3, <2>1, <2>2 DEF FlattenSeq
<1>5. ~RunTooLong(w) /\ ~FirstTooLong(w, t)
  BY <1>1 DEF RunTooLong, FirstTooLong
<1>6. Cardinality(Jumps(w)) + d = d
  BY <1>2, FS_EmptySet
<1>7. Bad(w, d, t) <=> a >= Len(msg) \/ At(msg, a) # 0 \/ d > MaxDepth
  BY <1>1, <1>5, <1>6 DEF Bad
<1>8. Result(w) = [name |-> <<>>, next |-> a + 1]
  BY <1>1, <1>2, <1>4 DEF Result
<1>9. QED
  BY <1>3, <1>4, <1>7, <1>8 DEF w

\* A walk stops at its first place, or goes on from the next.
LEMMA WalkStops ==
  ASSUME msg \in Seq(Byte), NEW s \in Steps
  PROVE  /\ s.left = 0 \/ Follow(s.off) = Nowhere => WalkFrom[s] = <<s.off>>
         /\ ~(s.left = 0 \/ Follow(s.off) = Nowhere) =>
              InFront(s.off, WalkFrom[Onward(s)], WalkFrom[s])
<1>1. WalkFrom[s] = WalkTurn(s, WalkFrom)
  BY WalkUnfolds
<1>2. ASSUME ~(s.left = 0 \/ Follow(s.off) = Nowhere)
      PROVE  InFront(s.off, WalkFrom[Onward(s)], WalkFrom[s])
  <2> DEFINE v == WalkFrom[Onward(s)]
  <2>1. v \in Seq(Nat) /\ Len(v) \in Nat \ {0} /\ s.off \in Nat
    BY <1>2, OnwardType, WalkUnfolds DEF Steps
  <2>2. WalkFrom[s] = <<s.off>> \o v
    BY <1>1, <1>2 DEF WalkTurn, Onward
  <2> HIDE DEF v
  <2>3. InFront(s.off, v, <<s.off>> \o v)
    BY <2>1, PutInFront
  <2>4. QED
    BY <2>2, <2>3 DEF v
<1>3. QED
  BY <1>1, <1>2 DEF WalkTurn

\* A label that a walk passes consists of bytes.
LEMMA PassedLabel ==
  ASSUME msg \in Seq(Byte), NEW off \in Nat, ~(IsJump(off) \/ Follow(off) = Nowhere)
  PROVE  Label(msg, off) \in Seq(Byte)
BY FollowsAhead, LabelType

\* The labels of every walk are labels.
LEMMA PartsType ==
  ASSUME msg \in Seq(Byte)
  PROVE  \A s \in Steps : Parts(WalkFrom[s]) \in Seq(Seq(Seq(Byte)))
<1> DEFINE V == Seq(Seq(Seq(Byte)))
           Typed == {n \in Nat : \A s \in Steps : s.left = n => Parts(WalkFrom[s]) \in V}
<1>1. ASSUME NEW n \in Nat, 0..(n - 1) \subseteq Typed
      PROVE  n \in Typed
  <2>1. ASSUME NEW s \in Steps, s.left = n
        PROVE  Parts(WalkFrom[s]) \in V
    <3>1. s.off \in Nat
      BY DEF Steps
    <3>2. CASE s.left = 0 \/ Follow(s.off) = Nowhere
      <4>1. WalkFrom[s] = <<s.off>>
        BY <3>2, WalkStops
      <4>2. Parts(<<s.off>>) = <<>>
        BY <3>1, NoStep
      <4>3. <<>> \in V
        OBVIOUS
      <4>4. QED
        BY <4>1, <4>2, <4>3
    <3>3. CASE ~(s.left = 0 \/ Follow(s.off) = Nowhere)
      <4>1. Onward(s) \in Steps /\ Onward(s).left \in 0..(n - 1)
        BY <2>1, <3>3, OnwardType DEF Steps
      <4>2. Onward(s).left \in Typed
        BY <1>1, <4>1
      <4>3. Parts(WalkFrom[Onward(s)]) \in V
        BY <4>1, <4>2
      <4>4. InFront(s.off, WalkFrom[Onward(s)], WalkFrom[s])
        BY <3>3, WalkStops
      <4>5. ~IsJump(s.off) => Label(msg, s.off) \in Seq(Byte)
        BY <3>1, <3>3, PassedLabel
      <4>6. QED
        BY <4>3, <4>4, <4>5, PartsInFront
    <3>4. QED
      BY <3>2, <3>3
  <2> HIDE DEF V
  <2>2. QED
    BY <2>1
<1>2. Nat \subseteq Typed
  <2> HIDE DEF Typed
  <2>1. QED
    BY <1>1, Induction
<1>3. \A s \in Steps : s.left \in Nat
  BY DEF Steps
<1> HIDE DEF V
<1>4. \A s \in Steps : Parts(WalkFrom[s]) \in V
  BY <1>2, <1>3
<1>5. QED
  BY <1>4 DEF V

\* How many turns a decoder has left at most, from a place on.
Togo(q) == IF Inside(msg, q) THEN Ahead(msg, q) - (Len(msg) + 1) ELSE 0

\* It gets less with every turn that goes on.
LEMMA TogoFalls ==
  ASSUME msg \in Seq(Byte), NEW q \in Places
  PROVE  /\ Togo(q) \in Nat
         /\ Inside(msg, q) => Togo(q) > 0
         /\ Inside(msg, q) /\ HasPointer(msg, q) => Togo(AtPointer(msg, q)) < Togo(q)
         /\ Inside(msg, q) /\ HasLabel(msg, q) => Togo(AfterLabel(msg, q)) < Togo(q)
<1> DEFINE l == Len(msg) + 1
<1>0. l \in Nat
  OBVIOUS
<1>1. ASSUME NEW p \in Places
      PROVE  /\ Togo(p) \in Nat
             /\ Inside(msg, p) => Togo(p) > 0 /\ Togo(p) = Ahead(msg, p) - l
             /\ ~Inside(msg, p) => Togo(p) = 0
  <2>1. CASE Inside(msg, p)
    <3> DEFINE d == MaxDepth - p.depth
               o == Len(msg) - p.off
               x == MaxDepth + 1 - p.depth
    <3>1. d \in Nat /\ o \in Nat /\ o > 0 /\ x = d + 1
      <4>1. /\ p.off \in Nat /\ p.depth \in Nat /\ Len(msg) \in Nat /\ p.off < Len(msg)
            /\ p.depth <= MaxDepth /\ MaxDepth \in Nat
        BY <2>1, PlaceTypes, Sizes
      <4>2. QED
        BY <4>1
    <3>2. Ahead(msg, p) = x * l + o
      BY <2>1 DEF Ahead
    <3>3. Togo(p) = Ahead(msg, p) - l
      BY <2>1 DEF Togo
    <3> HIDE DEF d, o, l, x
    <3>4. x * l = d * l + l /\ d * l \in Nat
      BY <1>0, <3>1
    <3>5. Togo(p) = d * l + o
      BY <1>0, <3>1, <3>2, <3>3, <3>4
    <3>6. QED
      BY <2>1, <3>1, <3>3, <3>4, <3>5
  <2>2. CASE ~Inside(msg, p)
    BY <2>2 DEF Togo
  <2>3. QED
    BY <2>1, <2>2
<1>2. ASSUME NEW p \in Places, Inside(msg, q), Ahead(msg, p) < Ahead(msg, q)
      PROVE  Togo(p) < Togo(q)
  <2>1. Ahead(msg, p) \in Nat /\ Ahead(msg, q) \in Nat
    BY AheadFalls
  <2> HIDE DEF l
  <2>2. QED
    BY <1>0, <1>1, <1>2, <2>1
<1>3. QED
  BY <1>1, <1>2, AheadFalls, PlaceTypes

\* A turn of the decoder at q, of which w is the walk.
LEMMA ReadsAtEnd ==
  ASSUME msg \in Seq(Byte), NEW q \in Places, ~Inside(msg, q) \/ Follow(q.off) = Nowhere,
         NEW f, NEW w \in Seq(Nat), Len(w) \in Nat \ {0},
         Follow(q.off) = Nowhere => w = <<q.off>>
  PROVE  DecodeTurn(msg, q, f) = ReadingOn(w, q.depth, q.total)
<1>0. q.off \in Nat /\ q.depth \in Nat /\ q.total \in Nat /\ Len(msg) \in Nat /\ MaxDepth \in Nat
  BY Sizes DEF Places
<1>1. CASE q.off >= Len(msg)
  <2>1. w = <<q.off>>
    BY <1>0, <1>1, FollowLabel
  <2>2. Bad(w, q.depth, q.total)
    BY <1>0, <1>1, <2>1, NoStep
  <2>3. ~Inside(msg, q)
    BY <1>1 DEF Inside
  <2>4. QED
    BY <2>2, <2>3, DecodeTurnCases DEF ReadingOn
<1>2. CASE q.depth > MaxDepth
  <2>1. Cardinality(Jumps(w)) \in Nat
    BY JumpsType
  <2>2. Cardinality(Jumps(w)) + q.depth > MaxDepth
    BY <1>0, <1>2, <2>1
  <2>3. Bad(w, q.depth, q.total)
    BY <2>2 DEF Bad
  <2>4. ~Inside(msg, q)
    BY <1>2 DEF Inside
  <2>5. QED
    BY <2>3, <2>4, DecodeTurnCases DEF ReadingOn
<1>3. CASE Inside(msg, q) /\ Follow(q.off) = Nowhere
  <2>1. /\ w = <<q.off>> /\ ~(q.off >= Len(msg)) /\ ~(q.depth > MaxDepth) /\ q.off < Len(msg)
        /\ At(msg, q.off) \in Nat /\ At(msg, q.off) \in Byte
    BY <1>3, PlaceTypes DEF Inside
  <2>2. Bad(w, q.depth, q.total) <=> At(msg, q.off) # 0
    BY <1>0, <2>1, NoStep
  <2>3. CASE At(msg, q.off) = 0
    <3>1. ReadingOn(w, q.depth, q.total) = [name |-> <<>>, next |-> q.off + 1]
      BY <1>0, <2>1, <2>2, <2>3, NoStep DEF ReadingOn
    <3>2. QED
      BY <1>3, <2>3, <3>1, DecodeTurnCases
  <2>4. CASE At(msg, q.off) # 0
    <3>1. ~HasPointer(msg, q)
      <4>1. SUFFICES ASSUME HasPointer(msg, q) PROVE FALSE
        OBVIOUS
      <4>2. /\ IsPointer(At(msg, q.off)) /\ q.off + 1 < Len(msg) /\ q.off + 1 \in Nat
            /\ q.off \in 0..(Len(msg) - 1)
        BY <1>0, <2>1, <4>1 DEF HasPointer
      <4>3. At(msg, q.off) \notin 1..MaxLabel
        BY <2>1, <4>2, Sizes
      <4>4. Follow(q.off) = Pointer(At(msg, q.off), At(msg, q.off + 1))
        BY <4>2, <4>3 DEF Follow
      <4>5. Follow(q.off) \in Nat
        BY <2>1, <4>2, <4>4, ByteOf, PointerType
      <4>6. QED
        BY <1>3, <4>5 DEF Nowhere
    <3>2. ~HasLabel(msg, q)
      <4>1. SUFFICES ASSUME HasLabel(msg, q) PROVE FALSE
        OBVIOUS
      <4>2. ~IsJump(q.off) /\ At(msg, q.off) \in 1..MaxLabel /\ Fits(msg, q.off)
        BY <1>0, <2>1, <4>1, FollowLabel, Sizes DEF HasLabel
      <4>3. Follow(q.off) = q.off + At(msg, q.off) + 1
        BY <1>0, <2>1, <4>2, FollowLabel
      <4>4. QED
        BY <1>0, <1>3, <2>1, <4>3 DEF Nowhere
    <3>3. DecodeTurn(msg, q, f) = Error
      BY <1>3, <2>4, <3>1, <3>2, DecodeTurnCases
    <3>4. QED
      BY <2>2, <2>4, <3>3 DEF ReadingOn
  <2>5. QED
    BY <2>3, <2>4
<1>4. QED
  BY <1>0, <1>1, <1>2, <1>3 DEF Inside

\* A turn that goes on to another place, of which v is the walk.
LEMMA ReadsAtJump ==
  ASSUME msg \in Seq(Byte), NEW q \in Places, Inside(msg, q), Follow(q.off) # Nowhere,
         IsJump(q.off), NEW f, NEW v, NEW w, InFront(q.off, v, w),
         Parts(v) \in Seq(Seq(Seq(Byte))), f[AtPointer(msg, q)] = ReadingOn(v, q.depth + 1, 0)
  PROVE  DecodeTurn(msg, q, f) = ReadingOn(w, q.depth, q.total)
<1>1. q.off \in Nat /\ q.depth \in Nat /\ q.total \in Nat
  BY DEF Places
<1>2. IsPointer(At(msg, q.off)) /\ q.off + 1 < Len(msg) /\ Len(msg) \in Nat
  BY <1>1, FollowType
<1>3. HasPointer(msg, q) /\ At(msg, q.off) # 0
  BY <1>1, <1>2, Sizes DEF HasPointer
<1>4. Bad(w, q.depth, q.total) <=> Bad(v, q.depth + 1, 0)
  BY <1>1, BadInFront
<1>5. Result(v) \in Read /\ Result(w) = [Result(v) EXCEPT !.next = q.off + 2]
  BY ResultInFront
<1>6. Result(v) # Error
  BY <1>5, ReadTypes
<1>7. DecodeTurn(msg, q, f) = IF f[AtPointer(msg, q)] = Error THEN Error
                              ELSE [f[AtPointer(msg, q)] EXCEPT !.next = q.off + 2]
  BY <1>3, DecodeTurnCases
<1>8. CASE Bad(v, q.depth + 1, 0)
  BY <1>4, <1>7, <1>8 DEF ReadingOn
<1>9. CASE ~Bad(v, q.depth + 1, 0)
  BY <1>4, <1>5, <1>6, <1>7, <1>9 DEF ReadingOn
<1>10. QED
  BY <1>8, <1>9

\* The same behind a label, that may be one too many.
LEMMA ReadsAtLabel ==
  ASSUME msg \in Seq(Byte), NEW q \in Places, Inside(msg, q), Follow(q.off) # Nowhere,
         ~IsJump(q.off), NEW f, NEW v, NEW w, InFront(q.off, v, w), v[1] = Follow(q.off),
         Parts(v) \in Seq(Seq(Seq(Byte))),
         HasLabel(msg, q) =>
           f[AfterLabel(msg, q)] = ReadingOn(v, q.depth, AfterLabel(msg, q).total)
  PROVE  DecodeTurn(msg, q, f) = ReadingOn(w, q.depth, q.total)
<1> DEFINE b == At(msg, q.off)
           total == q.total + b + 1
<1>1. q.off \in Nat /\ q.depth \in Nat /\ q.total \in Nat
  BY DEF Places
<1>2. b \in 1..MaxLabel /\ Fits(msg, q.off) /\ Follow(q.off) = q.off + b + 1
  BY <1>1, FollowsAhead
<1>3. b \in Byte /\ b \in Nat /\ MaxLabel \in Nat /\ b # 0
  BY <1>2, PlaceTypes, Sizes
<1>4. ~IsPointer(b) /\ ~IsReserved(b)
  BY <1>2, <1>3, Sizes
<1>5. HasLabel(msg, q) <=> ~(total > MaxTotal)
  BY <1>2, <1>3, <1>4 DEF HasLabel
<1>6. ~HasPointer(msg, q)
  BY <1>4 DEF HasPointer
<1>7. Label(msg, q.off) \in Seq(Byte)
  BY <1>1, PassedLabel
<1>8. q.total + v[1] - q.off = total /\ total \in Nat
  BY <1>1, <1>2, <1>3
<1>9. AfterLabel(msg, q).total = total
  BY DEF AfterLabel
<1>10. DecodeTurn(msg, q, f) = IF total > MaxTotal \/ f[AfterLabel(msg, q)] = Error THEN Error
                 ELSE [f[AfterLabel(msg, q)] EXCEPT !.name = <<Label(msg, q.off)>> \o @]
  BY <1>3, <1>5, <1>6, DecodeTurnCases
<1> HIDE DEF b, total
<1>11. Bad(w, q.depth, q.total) <=> total > MaxTotal \/ Bad(v, q.depth, total)
  <2>1. (q.total + v[1] - q.off) \in Nat
    BY <1>8
  <2>2. Bad(w, q.depth, q.total)
          <=> q.total + v[1] - q.off > MaxTotal \/ Bad(v, q.depth, q.total + v[1] - q.off)
    BY <1>1, <2>1, BadInFront
  <2>3. QED
    BY <1>8, <2>2
<1>12. /\ Result(v) \in Read
       /\ Result(w) = [Result(v) EXCEPT !.name = <<Label(msg, q.off)>> \o @]
  BY <1>7, ResultInFront
<1>13. Result(v) # Error
  BY <1>12, ReadTypes
<1>14. CASE total > MaxTotal
  BY <1>10, <1>11, <1>14 DEF ReadingOn
<1>15. CASE ~(total > MaxTotal)
  <2>1. f[AfterLabel(msg, q)] = ReadingOn(v, q.depth, total)
    BY <1>5, <1>9, <1>15
  <2>2. CASE Bad(v, q.depth, total)
    BY <1>10, <1>11, <2>1, <2>2 DEF ReadingOn
  <2>3. CASE ~Bad(v, q.depth, total)
    BY <1>10, <1>11, <1>12, <1>13, <1>15, <2>1, <2>3 DEF ReadingOn
  <2>4. QED
    BY <2>2, <2>3
<1>16. QED
  BY <1>14, <1>15

\* decodeName reads what a walk of enough turns reads.
LEMMA ReadsAsWalks ==
  ASSUME msg \in Seq(Byte)
  PROVE  \A s \in Steps, q \in Places :
           s.off = q.off /\ Togo(q) <= s.left =>
             decodeName(msg)[q] = ReadingOn(WalkFrom[s], q.depth, q.total)
<1> DEFINE read == decodeName(msg)
           Same(s, q) == read[q] = ReadingOn(WalkFrom[s], q.depth, q.total)
           Sames == {n \in Nat : \A s \in Steps, q \in Places :
                       s.left = n /\ s.off = q.off /\ Togo(q) <= n => Same(s, q)}
<1>1. ASSUME NEW n \in Nat, 0..(n - 1) \subseteq Sames
      PROVE  n \in Sames
  <2>1. ASSUME NEW s \in Steps, NEW q \in Places, s.left = n, s.off = q.off, Togo(q) <= n
        PROVE  Same(s, q)
    <3> DEFINE w == WalkFrom[s]
               v == WalkFrom[Onward(s)]
    <3>1. read[q] = DecodeTurn(msg, q, read)
      BY DecodeUnfolds
    <3>2. q.off \in Nat /\ w \in Seq(Nat) /\ Len(w) \in Nat \ {0}
      BY WalkUnfolds DEF Places
    <3>3. CASE ~Inside(msg, q) \/ Follow(q.off) = Nowhere
      <4>1. Follow(q.off) = Nowhere => w = <<q.off>>
        BY <2>1, WalkStops
      <4> HIDE DEF w, read
      <4>2. DecodeTurn(msg, q, read) = ReadingOn(w, q.depth, q.total)
        BY <3>2, <3>3, <4>1, ReadsAtEnd
      <4>3. QED
        BY <3>1, <4>2 DEF w
    <3>4. CASE Inside(msg, q) /\ Follow(q.off) # Nowhere
      <4>1. Togo(q) \in Nat /\ Togo(q) > 0
        BY <3>4, TogoFalls
      <4>2. ~(s.left = 0 \/ Follow(s.off) = Nowhere)
        BY <2>1, <3>4, <4>1
      <4>3. /\ Onward(s) \in Steps /\ Onward(s).left = n - 1 /\ n - 1 \in 0..(n - 1)
            /\ Onward(s).off = Follow(q.off)
        BY <2>1, <4>2, OnwardType DEF Onward, Steps
      <4>4. ASSUME NEW p \in Places, p.off = Follow(q.off), Togo(p) < Togo(q)
            PROVE  read[p] = ReadingOn(v, p.depth, p.total)
        <5>1. Togo(p) \in Nat
          BY TogoFalls
        <5>2. Togo(p) <= n - 1
          BY <2>1, <4>1, <4>4, <5>1
        <5>3. n - 1 \in Sames
          BY <1>1, <4>3
        <5>4. Same(Onward(s), p)
          BY <4>3, <4>4, <5>2, <5>3
        <5>5. QED
          BY <5>4
      <4>5. InFront(q.off, v, w) /\ Parts(v) \in Seq(Seq(Seq(Byte))) /\ v[1] = Follow(q.off)
        BY <2>1, <4>2, <4>3, WalkStops, PartsType, WalkUnfolds
      <4>6. CASE IsJump(q.off)
        <5> DEFINE p == AtPointer(msg, q)
        <5>1. /\ IsPointer(At(msg, q.off)) /\ q.off + 1 < Len(msg) /\ Len(msg) \in Nat
              /\ Follow(q.off) = Pointer(At(msg, q.off), At(msg, q.off + 1))
          BY <3>2, <3>4, <4>6, FollowType
        <5>2. HasPointer(msg, q)
          BY <3>2, <5>1 DEF HasPointer
        <5>3. p \in Places /\ p.off = Follow(q.off) /\ p.depth = q.depth + 1 /\ p.total = 0
          BY <3>4, <5>1, <5>2, PlaceTypes DEF AtPointer
        <5>4. Togo(p) < Togo(q)
          BY <3>4, <5>2, TogoFalls
        <5> HIDE DEF p, v, w, read
        <5>5. read[p] = ReadingOn(v, q.depth + 1, 0)
          BY <4>4, <5>3, <5>4
        <5>6. DecodeTurn(msg, q, read) = ReadingOn(w, q.depth, q.total)
          BY <3>4, <4>5, <4>6, <5>5, ReadsAtJump DEF p
        <5>7. QED
          BY <3>1, <5>6 DEF w
      <4>7. CASE ~IsJump(q.off)
        <5> DEFINE p == AfterLabel(msg, q)
        <5>1. Follow(q.off) = q.off + At(msg, q.off) + 1
          BY <3>2, <3>4, <4>7, FollowsAhead
        <5>2. p \in Places /\ p.off = Follow(q.off) /\ p.depth = q.depth
          BY <3>4, <5>1, PlaceTypes
        <5>3. HasLabel(msg, q) => Togo(p) < Togo(q)
          BY <3>4, TogoFalls
        <5> HIDE DEF p, v, w, read
        <5>4. HasLabel(msg, q) => read[p] = ReadingOn(v, q.depth, p.total)
          BY <4>4, <5>2, <5>3
        <5>5. DecodeTurn(msg, q, read) = ReadingOn(w, q.depth, q.total)
          BY <3>4, <4>5, <4>7, <5>4, ReadsAtLabel DEF p
        <5>6. QED
          BY <3>1, <5>5 DEF w
      <4>8. QED
        BY <4>6, <4>7
    <3>5. QED
      BY <3>3, <3>4
  <2> HIDE DEF Same
  <2>2. QED
    BY <2>1
<1>2. Nat \subseteq Sames
  <2> HIDE DEF Sames
  <2>1. QED
    BY <1>1, Induction
<1>3. \A s \in Steps : s.left \in Nat
  BY DEF Steps
<1>4. QED
  BY <1>2, <1>3

\* A first run that is too long is a run that is too long.
LEMMA FirstIsRun ==
  ASSUME NEW w \in Seq(Nat), Len(w) \in Nat \ {0}, FirstTooLong(w, 0)
  PROVE  RunTooLong(w)
<1>1. PICK j \in 2..Len(w) : Jumps(w) \cap (1..(j - 1)) = {} /\ 0 + w[j] - w[1] > MaxTotal
  BY DEF FirstTooLong
<1>2. j \in 1..Len(w) /\ 1 \in 1..Len(w) /\ 1 < j
  OBVIOUS
<1>3. w[j] \in Nat /\ w[1] \in Nat
  BY <1>2, ElementOfSeq
<1>4. w[j] - w[1] > MaxTotal
  BY <1>1, <1>3
<1>5. QED
  BY <1>1, <1>2, <1>4 DEF RunTooLong

\* No message is longer than they may grow.
IsBounded == IsMessage /\ Len(msg) <= MaxLen

\* And so are all that can be built.
LEMMA MessagesAreBounded == Spec => []IsBounded
<1>1. Init => IsBounded
  BY BytesAssumption DEF Init, IsBounded, IsMessage
<1>2. IsBounded /\ [NextByte]_msg => IsBounded'
  <2>1. SUFFICES ASSUME IsBounded, [NextByte]_msg PROVE IsBounded'
    OBVIOUS
  <2>2. CASE NextByte
    <3>1. PICK b \in Bytes : msg' = Append(msg, b)
      BY <2>2 DEF NextByte
    <3>2. msg \in Seq(Byte) /\ b \in Byte /\ Len(msg) < MaxLen /\ MaxLen \in Nat
      BY <2>1, <2>2, BytesAssumption DEF NextByte, IsBounded, IsMessage
    <3>3. msg' \in Seq(Byte) /\ Len(msg') = Len(msg) + 1
      BY <3>1, <3>2, AppendProperties
    <3>4. QED
      BY <3>2, <3>3 DEF IsBounded, IsMessage
  <2>3. CASE UNCHANGED msg
    BY <2>1, <2>3 DEF IsBounded, IsMessage
  <2>4. QED
    BY <2>1, <2>2, <2>3
<1>3. QED
  BY <1>1, <1>2, PTL DEF Spec

\* The walks that DecodeReads takes are long enough.
LEMMA WalksAreLongEnough ==
  ASSUME IsBounded, NEW off \in Nat
  PROVE  Togo([off |-> off, depth |-> 0, total |-> 0]) <= (MaxDepth + 1) * (MaxLen + 1)
<1> DEFINE q == [off |-> off, depth |-> 0, total |-> 0]
           l == Len(msg) + 1
           x == MaxLen + 1
           d == MaxDepth + 1
           o == Len(msg) - off
<1>1. msg \in Seq(Byte) /\ q.off = off /\ q.depth = 0 /\ q \in Places
  BY DEF IsBounded, IsMessage, Places
<1>2. l \in Nat /\ x \in Nat /\ l <= x /\ d \in Nat
  BY <1>1, BytesAssumption, Sizes DEF IsBounded
<1>3. d * x \in Nat
  <2> HIDE DEF d, x
  <2>1. QED
    BY <1>2
<1>4. CASE Inside(msg, q)
  <2> DEFINE y == MaxDepth + 1 - q.depth
             p == Len(msg) - q.off
  <2>1. Togo(q) = (y * l + p) - l
    <3> HIDE DEF q
    <3>1. Ahead(msg, q) = y * l + p
      BY <1>4 DEF Ahead
    <3>2. Togo(q) = Ahead(msg, q) - l
      BY <1>4 DEF Togo
    <3> HIDE DEF y, l, p
    <3>3. QED
      BY <3>1, <3>2
  <2>2. y = d /\ p = o
    BY <1>1, Sizes
  <2>3. o < l /\ o \in Int
    BY <1>1
  <2>4. d * l <= d * x
    <3>1. x - l \in Nat /\ x = l + (x - l)
      BY <1>2
    <3> DEFINE z == x - l
    <3> HIDE DEF x, d, l, z
    <3>2. d * z \in Nat /\ d * (l + z) = d * l + d * z /\ d * l \in Nat
      BY <1>2, <3>1 DEF z
    <3>3. x = l + z
      BY <3>1 DEF z
    <3>4. QED
      BY <3>2, <3>3
  <2>5. Togo(q) = (d * l + o) - l
    BY <2>1, <2>2
  <2> HIDE DEF d, x, l, o, q, y, p
  <2>6. d * l \in Nat
    BY <1>2
  <2>7. Togo(q) <= d * x
    BY <1>2, <1>3, <2>3, <2>4, <2>5, <2>6
  <2>8. QED
    BY <2>7 DEF q, d, x
<1>5. CASE ~Inside(msg, q)
  <2>1. Togo(q) = 0
    BY <1>5 DEF Togo
  <2>2. QED
    BY <1>3, <2>1
<1>6. QED
  BY <1>4, <1>5

\* decodeName, at every place of every message, loops of pointers included,
\* ends with the labels a walk along pointers passes, or an error exactly if the
\* walk leaves the message, follows too many pointers or passes too much
\* without one, and the caller goes on behind the first pointer (DecodeReads).
THEOREM NamesAreReadAsWalks == Spec => []DecodeReads
<1>1. ASSUME IsBounded
      PROVE  DecodeReads
  <2>1. ASSUME NEW off \in 0..Len(msg)
        PROVE  DecodeNameAt(msg, off) = Reading(off)
    <3> DEFINE s == [off |-> off, left |-> (MaxDepth + 1) * (MaxLen + 1)]
               q == [off |-> off, depth |-> 0, total |-> 0]
               w == Walk(off)
    <3>1. msg \in Seq(Byte) /\ off \in Nat /\ MaxLen \in Nat
      BY <1>1, BytesAssumption DEF IsBounded, IsMessage
    <3>2. s \in Steps /\ s.off = q.off /\ q \in Places /\ q.depth = 0 /\ q.total = 0
      <4>1. (MaxDepth + 1) * (MaxLen + 1) \in Nat
        BY <3>1, Sizes
      <4>2. QED
        BY <3>1, <4>1 DEF Steps, Places
    <3>3. Togo(q) <= s.left
      BY <1>1, <3>1, WalksAreLongEnough
    <3>4. w = WalkFrom[s]
      BY DEF Walk
    <3> HIDE DEF s, q
    <3>5. decodeName(msg)[q] = ReadingOn(w, 0, 0)
      BY <3>1, <3>2, <3>3, <3>4, ReadsAsWalks
    <3>6. w \in Seq(Nat) /\ Len(w) \in Nat \ {0}
      BY <3>1, <3>2, <3>4, WalkUnfolds
    <3> HIDE DEF w
    <3>7. Cardinality(Jumps(w)) + 0 = Cardinality(Jumps(w))
      BY <3>6, JumpsType
    <3>8. FirstTooLong(w, 0) => RunTooLong(w)
      BY <3>6, FirstIsRun
    <3>9. Bad(w, 0, 0) <=> \/ w[Len(w)] >= Len(msg) \/ At(msg, w[Len(w)]) # 0
                           \/ Cardinality(Jumps(w)) > MaxDepth \/ RunTooLong(w)
      BY <3>7, <3>8, Zenon DEF Bad
    <3>10. Reading(off) = ReadingOn(w, 0, 0)
      BY <3>9 DEF Reading, ReadingOn, Result, RunTooLong, w
    <3>11. QED
      BY <3>5, <3>10 DEF DecodeNameAt, q
  <2>2. QED
    BY <2>1 DEF DecodeReads
<1>2. QED
  BY <1>1, MessagesAreBounded, PTL
=============================================================================
