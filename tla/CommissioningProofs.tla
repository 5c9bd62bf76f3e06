------------------------- MODULE CommissioningProofs -------------------------
(***************************************************************************)
(* Proofs about Commissioning, for any sets of configurations and foreign  *)
(* nodes and any number of nodes: types, what the cleanup may say of the   *)
(* nodes it was to remove, and what the pairing code tells a controller.   *)
(*                                                                         *)
(* The digits and sums of the code are recursive functions.  That a fact   *)
(* holds for every n is proved by contradiction: among the numbers for     *)
(* which it fails there is a least one.                                    *)
(***************************************************************************)
EXTENDS Commissioning, Integers, Sequences, WellFoundedInduction, TLAPS

-----------------------------------------------------------------------------
(* Induction and recursion.                                                  *)

\* Of the natural numbers in a set that is not empty one is the least.
LEMMA LeastNumber ==
  ASSUME NEW T \in SUBSET Nat, T # {}
  PROVE  \E m \in T : \A k \in T : m <= k
<1> DEFINE R == OpToRel(<, Nat)
<1>1. PICK m \in T : \A k \in T : ~(<<k, m>> \in R)
  <2>1. IsWellFoundedOn(R, Nat)
    BY NatLessThanWellFounded
  <2> HIDE DEF R
  <2> QED
    BY <2>1, WFMin
<1>2. ASSUME NEW k \in T PROVE m <= k
  <2>1. ~(<<k, m>> \in R)
    BY <1>1
  <2>2. ~(k < m)
    BY <2>1 DEF OpToRel
  <2> QED
    BY <2>2
<1> QED
  BY <1>1, <1>2

\* A set that holds a number and, of each number up to n, the next one, holds all
\* numbers from the first to n.
LEMMA Upward ==
  ASSUME NEW T, NEW j \in Nat, NEW n \in Nat, j \in T,
         \A i \in j..n - 1 : i \in T => i + 1 \in T
  PROVE  j..n \subseteq T
<1> DEFINE F == {i \in j..n : i \notin T}
<1> SUFFICES ASSUME F # {} PROVE FALSE
  OBVIOUS
<1>1. F \in SUBSET Nat
  OBVIOUS
<1>2. PICK m \in F : \A k \in F : m <= k
  <2> HIDE DEF F
  <2> QED
    BY <1>1, LeastNumber
<1>3. m # j
  OBVIOUS
<1>4. m - 1 \in j..n - 1 /\ m - 1 \notin F
  BY <1>2, <1>3
<1> QED
  BY <1>4

\* What is defined from its predecessor in each of n steps is a function.
LEMMA Recursion ==
  ASSUME NEW S, NEW s0 \in S, NEW n \in Nat, NEW rule \in [1..n -> [S -> S]]
  PROVE  \E f \in [0..n -> S] : f[0] = s0 /\ \A i \in 1..n : f[i] = rule[i][f[i - 1]]
<1> DEFINE Upto(m) == \E f \in [0..m -> S] : f[0] = s0 /\ \A i \in 1..m : f[i] = rule[i][f[i - 1]]
           T == {m \in 0..n : Upto(m)}
<1>1. 0 \in T
  <2> DEFINE g == [i \in 0..0 |-> s0]
  <2>1. g \in [0..0 -> S] /\ g[0] = s0
    OBVIOUS
  <2> HIDE DEF g
  <2>2. Upto(0)
    BY <2>1
  <2> QED
    BY <2>2
<1>2. ASSUME NEW m \in 0..n - 1, m \in T PROVE m + 1 \in T
  <2>1. PICK g \in [0..m -> S] : g[0] = s0 /\ \A i \in 1..m : g[i] = rule[i][g[i - 1]]
    BY <1>2
  <2> DEFINE h == [i \in 0..m + 1 |-> IF i <= m THEN g[i] ELSE rule[m + 1][g[m]]]
  <2>2. h \in [0..m + 1 -> S] /\ h[0] = s0
    <3>1. g[m] \in S /\ rule[m + 1] \in [S -> S]
      OBVIOUS
    <3> QED
      BY <2>1, <3>1
  <2>3. \A i \in 1..m + 1 : h[i] = rule[i][h[i - 1]]
    <3> SUFFICES ASSUME NEW i \in 1..m + 1 PROVE h[i] = rule[i][h[i - 1]]
      OBVIOUS
    <3>1. CASE i <= m
      <4>1. h[i] = g[i] /\ h[i - 1] = g[i - 1]
        BY <3>1
      <4>2. g[i] = rule[i][g[i - 1]]
        BY <2>1, <3>1
      <4> QED
        BY <4>1, <4>2
    <3>2. CASE i = m + 1
      <4>1. h[i] = rule[m + 1][g[m]] /\ h[m] = g[m] /\ i - 1 = m
        BY <3>2
      <4> QED
        BY <4>1, <3>2
    <3> QED
      BY <3>1, <3>2
  <2> HIDE DEF h
  <2>4. Upto(m + 1)
    BY <2>2, <2>3
  <2> HIDE DEF Upto
  <2> QED
    BY <2>4
<1> HIDE DEF Upto
<1>3. n \in T
  <2> HIDE DEF T
  <2>1. 0..n \subseteq T
    BY <1>1, <1>2, Upward
  <2> QED
    BY <2>1
<1>4. Upto(n)
  BY <1>3
<1> QED
  BY <1>4 DEF Upto

-----------------------------------------------------------------------------
(* The tables.                                                               *)

\* The sum in the dihedral group of ten elements: five turns and five flips.
Turn(u, v) ==
  IF u < 5 THEN IF v < 5 THEN (u + v) % 5 ELSE 5 + ((u + v) % 5)
           ELSE IF v < 5 THEN 5 + ((u - v) % 5) ELSE (u - v + 5) % 5

\* D is the table of that group's sums, which the mod 5 shows to be associative.
LEMMA DIsGroup ==
  /\ \A u, v \in Digit : D[u][v] \in Digit
  /\ \A u, v, w \in Digit : D[D[u][v]][w] = D[u][D[v][w]]
  /\ \A u, v, w \in Digit : D[u][v] = D[u][w] => v = w
  /\ \A u, v, w \in Digit : D[v][u] = D[w][u] => v = w
  /\ \A u \in Digit : D[u][0] = u /\ D[0][u] = u /\ D[INV[u]][u] = 0
<1>1. \A u, v \in Digit : D[u][v] = Turn(u, v)
  <2>0. \A v \in Digit : D[0][v] = Turn(0, v)
    BY SMT DEF D, Table, Turn, Digit
  <2>1. \A v \in Digit : D[1][v] = Turn(1, v)
    BY SMT DEF D, Table, Turn, Digit
  <2>2. \A v \in Digit : D[2][v] = Turn(2, v)
    BY SMT DEF D, Table, Turn, Digit
  <2>3. \A v \in Digit : D[3][v] = Turn(3, v)
    BY SMT DEF D, Table, Turn, Digit
  <2>4. \A v \in Digit : D[4][v] = Turn(4, v)
    BY SMT DEF D, Table, Turn, Digit
  <2>5. \A v \in Digit : D[5][v] = Turn(5, v)
    BY SMT DEF D, Table, Turn, Digit
  <2>6. \A v \in Digit : D[6][v] = Turn(6, v)
    BY SMT DEF D, Table, Turn, Digit
  <2>7. \A v \in Digit : D[7][v] = Turn(7, v)
    BY SMT DEF D, Table, Turn, Digit
  <2>8. \A v \in Digit : D[8][v] = Turn(8, v)
    BY SMT DEF D, Table, Turn, Digit
  <2>9. \A v \in Digit : D[9][v] = Turn(9, v)
    BY SMT DEF D, Table, Turn, Digit
  <2> QED
    BY <2>0, <2>1, <2>2, <2>3, <2>4, <2>5, <2>6, <2>7, <2>8, <2>9 DEF Digit
<1>2. \A u, v \in Digit : Turn(u, v) \in Digit
  BY SMT DEF Turn, Digit
<1>3. \A u, v, w \in Digit : Turn(Turn(u, v), w) = Turn(u, Turn(v, w))
  BY SMTT(30) DEF Turn, Digit
<1>4. \A u, v, w \in Digit : Turn(u, v) = Turn(u, w) => v = w
  BY SMTT(30) DEF Turn, Digit
<1>5. \A u, v, w \in Digit : Turn(v, u) = Turn(w, u) => v = w
  BY SMTT(30) DEF Turn, Digit
<1>6. \A u \in Digit : Turn(u, 0) = u /\ Turn(0, u) = u
  BY SMT DEF Turn, Digit
<1>7. \A u \in Digit : D[INV[u]][u] = 0
  BY SMT DEF INV, D, Table, Digit
<1>8. 0 \in Digit
  BY DEF Digit
<1> HIDE DEF Turn, Digit
<1>9. ASSUME NEW u \in Digit, NEW v \in Digit, NEW w \in Digit
      PROVE  D[D[u][v]][w] = D[u][D[v][w]]
  <2>1. D[u][v] = Turn(u, v) /\ D[v][w] = Turn(v, w)
    BY <1>1
  <2>2. D[Turn(u, v)][w] = Turn(Turn(u, v), w) /\ D[u][Turn(v, w)] = Turn(u, Turn(v, w))
    BY <1>1, <1>2
  <2> QED
    BY <2>1, <2>2, <1>3
<1>10. \A u, v, w \in Digit : D[u][v] = D[u][w] => v = w
  BY <1>1, <1>4
<1>11. \A u, v, w \in Digit : D[v][u] = D[w][u] => v = w
  BY <1>1, <1>5
<1>12. \A u \in Digit : D[u][0] = u /\ D[0][u] = u
  BY <1>1, <1>6, <1>8
<1>13. \A u, v \in Digit : D[u][v] \in Digit
  BY <1>1, <1>2
<1> QED
  BY <1>7, <1>9, <1>10, <1>11, <1>12, <1>13

\* The tables hold digits.
LEMMA TablesHoldDigits ==
  /\ D \in [Digit -> [Digit -> Digit]]
  /\ P \in [0..7 -> [Digit -> Digit]]
  /\ INV \in [Digit -> Digit]
<1>1. D \in [Digit -> [Digit -> Digit]]
  <2>1. D = [u \in Digit |-> [v \in Digit |-> D[u][v]]]
    BY SMT DEF D, Table, Digit
  <2>2. \A u, v \in Digit : D[u][v] \in Digit
    BY DIsGroup
  <2> QED
    BY <2>1, <2>2
<1>2. P \in [0..7 -> [Digit -> Digit]]
  BY SMT DEF P, Table, Digit
<1>3. INV \in [Digit -> Digit]
  BY SMT DEF INV, Table, Digit
<1> QED
  BY <1>1, <1>2, <1>3

\* Each row of P is a permutation, the first leaves the digits as they are, and
\* each row, and the first after the last, is the row before it permuted by row 1.
LEMMA PRows ==
  /\ \A r \in 0..7 : \A u, v \in Digit : P[r][u] = P[r][v] => u = v
  /\ \A u \in Digit : P[0][u] = u
  /\ \A r \in 0..7 : \A u \in Digit : P[(r + 1) % 8][u] = P[1][P[r][u]]
<1>1. \A r \in 0..7 : \A u, v \in Digit : P[r][u] = P[r][v] => u = v
  BY SMTT(30) DEF P, Table, Digit
<1>2. \A u \in Digit : P[0][u] = u
  BY SMT DEF P, Table, Digit
<1>3. ASSUME NEW r \in 0..7 PROVE \A u \in Digit : P[(r + 1) % 8][u] = P[1][P[r][u]]
  <2>1. CASE r = 7
    <3>1. \A u \in Digit : P[0][u] = P[1][P[7][u]]
      BY SMT DEF P, Table, Digit
    <3>2. (r + 1) % 8 = 0
      BY <2>1
    <3> QED
      BY <2>1, <3>1, <3>2
  <2>2. CASE r \in 0..6
    <3>1. \A row \in 0..6 : \A u \in Digit : P[row + 1][u] = P[1][P[row][u]]
      BY SMT DEF P, Table, Digit
    <3>2. (r + 1) % 8 = r + 1
      BY <2>2
    <3> QED
      BY <2>2, <3>1, <3>2
  <2>3. r = 7 \/ r \in 0..6
    OBVIOUS
  <2> QED
    BY <2>1, <2>2, <2>3
<1> QED
  BY <1>1, <1>2, <1>3

\* Two different digits sum to something else when they change places.
LEMMA Swapped ==
  \A u, v \in Digit : u # v => D[u][P[1][v]] # D[v][P[1][u]]
BY SMTT(30) DEF P, D, Table, Digit

-----------------------------------------------------------------------------
(* The check digit.                                                          *)

\* The digit added in step i of the sum.
Added(digits, shift, i) == P[(i - 1 + shift) % 8][digits[Len(digits) + 1 - i]]

\* sum holds what VerhoeffSum has after each step.
IsSum(sum, digits, shift) ==
  /\ sum \in [0..Len(digits) -> Digit]
  /\ sum[0] = 0
  /\ \A i \in 1..Len(digits) : sum[i] = D[sum[i - 1]][Added(digits, shift, i)]

\* What is added is a digit.
LEMMA AddedDigit ==
  ASSUME NEW digits \in Seq(Digit), NEW shift \in Nat, NEW i \in 1..Len(digits)
  PROVE  Added(digits, shift, i) \in Digit
<1>1. digits[Len(digits) + 1 - i] \in Digit
  OBVIOUS
<1>2. (i - 1 + shift) % 8 \in 0..7
  OBVIOUS
<1> QED
  BY <1>1, <1>2, TablesHoldDigits DEF Added

\* VerhoeffSum is the last of such sums.
LEMMA SumIsLast ==
  ASSUME NEW digits \in Seq(Digit), NEW shift \in Nat
  PROVE  \E sum : IsSum(sum, digits, shift) /\ VerhoeffSum(digits, shift) = sum[Len(digits)]
<1> DEFINE n == Len(digits)
           rule == [i \in 1..n |-> [s \in Digit |-> D[s][Added(digits, shift, i)]]]
           Unfolds(g) == g = [i \in 0..n |->
             IF i = 0 THEN 0 ELSE D[g[i - 1]][P[(i - 1 + shift) % 8][digits[n + 1 - i]]]]
           sum == CHOOSE g : Unfolds(g)
<1>1. n \in Nat /\ 0 \in Digit
  BY DEF Digit
<1>2. \A i \in 1..n : Added(digits, shift, i) \in Digit
  BY AddedDigit
<1>3. rule \in [1..n -> [Digit -> Digit]]
  BY <1>2, TablesHoldDigits
<1>4. PICK f \in [0..n -> Digit] : f[0] = 0 /\ \A i \in 1..n : f[i] = rule[i][f[i - 1]]
  <2> HIDE DEF n, rule
  <2>1. PICK s0 \in Digit : s0 = 0
    BY <1>1
  <2>2. PICK m, next : m = n /\ next = rule
    OBVIOUS
  <2>4. m \in Nat /\ next \in [1..m -> [Digit -> Digit]]
    BY <2>2, <1>1, <1>3
  <2>3. \E f \in [0..m -> Digit] : f[0] = s0 /\ \A i \in 1..m : f[i] = next[i][f[i - 1]]
    BY <2>4, Recursion
  <2> QED
    BY <2>1, <2>2, <2>3
<1>5. \A i \in 1..n : f[i] = D[f[i - 1]][Added(digits, shift, i)]
  <2> SUFFICES ASSUME NEW i \in 1..n PROVE f[i] = D[f[i - 1]][Added(digits, shift, i)]
    OBVIOUS
  <2>1. f[i - 1] \in Digit
    BY <1>1
  <2> QED
    BY <2>1, <1>4
<1>6. f = [i \in 0..n |-> IF i = 0 THEN 0 ELSE D[f[i - 1]][Added(digits, shift, i)]]
  <2> HIDE DEF n, rule, Unfolds
  <2>1. ASSUME NEW i \in 0..n
        PROVE  f[i] = IF i = 0 THEN 0 ELSE D[f[i - 1]][Added(digits, shift, i)]
    <3>1. CASE i = 0
      BY <3>1, <1>4
    <3>2. CASE i # 0
      <4>1. i \in 1..n
        BY <3>2, <1>1
      <4> QED
        BY <3>2, <4>1, <1>5
    <3> QED
      BY <3>1, <3>2
  <2> QED
    BY <2>1, <1>4
<1>7. Unfolds(f)
  BY <1>6 DEF Added
<1>8. Unfolds(sum)
  <2> HIDE DEF Unfolds
  <2> QED
    BY <1>7
<1>9. VerhoeffSum(digits, shift) = sum[n]
  BY DEF VerhoeffSum
<1> HIDE DEF sum
<1>10. sum = [i \in 0..n |-> IF i = 0 THEN 0 ELSE D[sum[i - 1]][Added(digits, shift, i)]]
  BY <1>8 DEF Added
<1> HIDE DEF n, rule, Unfolds
<1>11. sum[0] = 0 /\ \A i \in 1..n : sum[i] = D[sum[i - 1]][Added(digits, shift, i)]
  BY <1>1, <1>10
<1>12. \A i \in 0..n : sum[i] = f[i]
  <2> DEFINE T == {i \in 0..n : sum[i] = f[i]}
  <2>1. 0 \in T
    BY <1>1, <1>4, <1>11
  <2>2. ASSUME NEW i \in 0..n - 1, i \in T PROVE i + 1 \in T
    <3>1. i + 1 \in 1..n /\ (i + 1) - 1 = i
      BY <1>1
    <3>2. sum[i + 1] = D[sum[i]][Added(digits, shift, i + 1)]
      BY <3>1, <1>11
    <3>3. f[i + 1] = D[f[i]][Added(digits, shift, i + 1)]
      BY <3>1, <1>5
    <3> QED
      BY <2>2, <3>1, <3>2, <3>3
  <2> HIDE DEF T
  <2>3. 0..n \subseteq T
    BY <1>1, <2>1, <2>2, Upward
  <2> QED
    BY <2>3 DEF T
<1>13. sum \in [0..n -> Digit]
  BY <1>10, <1>12
<1>14. IsSum(sum, digits, shift)
  BY <1>11, <1>13 DEF IsSum, n
<1> QED
  BY <1>9, <1>14 DEF n

\* The sum of each step is a digit.
LEMMA SumDigit ==
  ASSUME NEW digits \in Seq(Digit), NEW shift \in Nat
  PROVE  VerhoeffSum(digits, shift) \in Digit
<1>1. PICK sum : IsSum(sum, digits, shift) /\ VerhoeffSum(digits, shift) = sum[Len(digits)]
  BY SumIsLast
<1> QED
  BY <1>1 DEF IsSum

\* The code with its check digit sums to 0: the sum of the code is, after each
\* step, the check digit and then the sum of the payload.
LEMMA CheckedIsValid ==
  ASSUME NEW payload \in Seq(Digit)
  PROVE  ValidCode(Append(payload, Checksum(payload)))
<1> DEFINE n == Len(payload)
           check == Checksum(payload)
           code == Append(payload, check)
<1>1. PICK h : IsSum(h, payload, 1) /\ VerhoeffSum(payload, 1) = h[n]
  BY SumIsLast
<1>2. n \in Nat /\ h[n] \in Digit /\ check = INV[h[n]] /\ check \in Digit
  BY <1>1, TablesHoldDigits DEF IsSum, Checksum
<1> HIDE DEF check
<1>3. code \in Seq(Digit) /\ Len(code) = n + 1 /\ code[n + 1] = check
      /\ \A k \in 1..n : code[k] = payload[k]
  BY <1>2
<1> HIDE DEF code
<1>4. PICK f : IsSum(f, code, 0) /\ VerhoeffSum(code, 0) = f[n + 1]
  <2>1. 0 \in Nat
    OBVIOUS
  <2> QED
    BY <1>3, <2>1, SumIsLast
<1>5. f[1] = check
  <2>1. 1 \in 1..Len(code) /\ (1 - 1 + 0) % 8 = 0 /\ Len(code) + 1 - 1 = n + 1
    BY <1>2, <1>3
  <2>2. Added(code, 0, 1) = P[0][check]
    BY <2>1, <1>3 DEF Added
  <2>3. f[1] = D[f[0]][Added(code, 0, 1)] /\ f[0] = 0
    BY <2>1, <1>4 DEF IsSum
  <2> QED
    BY <1>2, <2>2, <2>3, PRows, DIsGroup
<1>6. ASSUME NEW i \in 1..n PROVE Added(code, 0, i + 1) = Added(payload, 1, i)
  <2>1. ((i + 1) - 1 + 0) % 8 = (i - 1 + 1) % 8
    BY <1>2
  <2>2. Len(code) + 1 - (i + 1) = n + 1 - i /\ n + 1 - i \in 1..n
    BY <1>2, <1>3
  <2>3. code[Len(code) + 1 - (i + 1)] = payload[n + 1 - i]
    BY <2>2, <1>3
  <2> QED
    BY <2>1, <2>3 DEF Added
<1>7. \A i \in 0..n : f[i + 1] = D[check][h[i]]
  <2> DEFINE T == {i \in 0..n : f[i + 1] = D[check][h[i]]}
  <2>1. 0 \in T
    BY <1>1, <1>2, <1>5, DIsGroup DEF IsSum
  <2>2. ASSUME NEW i \in 0..n - 1, i \in T PROVE i + 1 \in T
    <3>1. i + 1 \in 1..n /\ (i + 1) - 1 = i /\ i + 1 + 1 \in 1..Len(code) /\ (i + 1 + 1) - 1 = i + 1
      BY <1>2, <1>3
    <3>2. f[i + 1 + 1] = D[f[i + 1]][Added(code, 0, i + 1 + 1)]
      BY <3>1, <1>4 DEF IsSum
    <3>3. Added(code, 0, i + 1 + 1) = Added(payload, 1, i + 1)
      BY <3>1, <1>6
    <3>4. h[i + 1] = D[h[i]][Added(payload, 1, i + 1)]
      BY <3>1, <1>1 DEF IsSum
    <3>5. h[i] \in Digit /\ Added(payload, 1, i + 1) \in Digit
      BY <1>1, <1>2, <3>1, AddedDigit DEF IsSum
    <3>6. D[D[check][h[i]]][Added(payload, 1, i + 1)] = D[check][D[h[i]][Added(payload, 1, i + 1)]]
      <4>1. PICK u \in Digit, v \in Digit, w \in Digit :
              u = check /\ v = h[i] /\ w = Added(payload, 1, i + 1)
        BY <1>2, <3>5
      <4>2. D[D[u][v]][w] = D[u][D[v][w]]
        BY DIsGroup
      <4> QED
        BY <4>1, <4>2
    <3> QED
      BY <2>2, <3>1, <3>2, <3>3, <3>4, <3>6
  <2> HIDE DEF T
  <2>3. 0..n \subseteq T
    BY <1>2, <2>1, <2>2, Upward
  <2> QED
    BY <2>3 DEF T
<1>8. f[n + 1] = 0
  BY <1>2, <1>7, DIsGroup
<1> QED
  BY <1>4, <1>8 DEF ValidCode, code, check

-----------------------------------------------------------------------------
(* Mistakes.                                                                 *)

\* Sums that part in one step stay apart as long as the same digits are added.
LEMMA SumsStayApart ==
  ASSUME NEW code \in Seq(Digit), NEW wrong \in Seq(Digit),
         NEW n \in Nat, Len(code) = n, Len(wrong) = n,
         NEW f, NEW g, IsSum(f, code, 0), IsSum(g, wrong, 0),
         NEW j \in 0..n, f[j] # g[j],
         \A i \in j + 1..n : wrong[n + 1 - i] = code[n + 1 - i]
  PROVE  f[n] # g[n]
<1>1. n = Len(code) /\ n = Len(wrong)
  OBVIOUS
<1> DEFINE T == {i \in j..n : f[i] # g[i]}
<1>2. j \in T
  BY <1>1
<1>3. ASSUME NEW i \in j..n - 1, i \in T PROVE i + 1 \in T
  <2>1. i + 1 \in 1..n /\ i + 1 \in j + 1..n /\ (i + 1) - 1 = i /\ i \in 0..n
    BY <1>1
  <2>2. Added(wrong, 0, i + 1) = Added(code, 0, i + 1)
    BY <1>1, <2>1 DEF Added
  <2>3. Added(code, 0, i + 1) \in Digit
    <3>1. 0 \in Nat /\ i + 1 \in 1..Len(code)
      BY <1>1, <2>1
    <3> QED
      BY <3>1, AddedDigit
  <2>4. f[i] \in Digit /\ g[i] \in Digit
    BY <1>1, <2>1 DEF IsSum
  <2>5. f[i + 1] = D[f[i]][Added(code, 0, i + 1)] /\ g[i + 1] = D[g[i]][Added(code, 0, i + 1)]
    BY <1>1, <2>1, <2>2 DEF IsSum
  <2>6. f[i + 1] # g[i + 1]
    <3>1. PICK u \in Digit, v \in Digit, w \in Digit :
            u = Added(code, 0, i + 1) /\ v = f[i] /\ w = g[i]
      BY <2>3, <2>4
    <3>2. v # w
      BY <1>3, <3>1
    <3>3. D[v][u] # D[w][u]
      BY <3>2, DIsGroup
    <3> QED
      BY <2>5, <3>1, <3>3
  <2> QED
    BY <2>1, <2>6
<1> HIDE DEF T
<1>4. j \in Nat
  OBVIOUS
<1>5. j..n \subseteq T
  BY <1>1, <1>2, <1>3, <1>4, Upward
<1> QED
  BY <1>1, <1>5 DEF T

\* As long as the same digits are added, the sums are the same.
LEMMA SumsStayTogether ==
  ASSUME NEW code \in Seq(Digit), NEW wrong \in Seq(Digit),
         NEW n \in Nat, Len(code) = n, Len(wrong) = n,
         NEW f, NEW g, IsSum(f, code, 0), IsSum(g, wrong, 0),
         NEW j \in 0..n,
         \A i \in 1..j : wrong[n + 1 - i] = code[n + 1 - i]
  PROVE  f[j] = g[j]
<1> DEFINE T == {i \in 0..j : f[i] = g[i]}
<1>1. j \in Nat /\ 0 \in T
  BY DEF IsSum
<1>2. ASSUME NEW i \in 0..j - 1, i \in T PROVE i + 1 \in T
  <2>1. i + 1 \in 1..j /\ i + 1 \in 1..Len(code) /\ (i + 1) - 1 = i
    OBVIOUS
  <2>2. Added(wrong, 0, i + 1) = Added(code, 0, i + 1)
    BY <2>1 DEF Added
  <2>3. f[i + 1] = D[f[i]][Added(code, 0, i + 1)] /\ g[i + 1] = D[g[i]][Added(code, 0, i + 1)]
    BY <2>1, <2>2 DEF IsSum
  <2> QED
    BY <1>2, <2>1, <2>3
<1> HIDE DEF T
<1>3. 0..j \subseteq T
  BY <1>1, <1>2, Upward
<1> QED
  BY <1>1, <1>3 DEF T

\* A code in which one digit of a valid code is another one is not valid.
LEMMA OneDigitShows ==
  ASSUME NEW code \in Seq(Digit), ValidCode(code), NEW k \in 1..Len(code), NEW d \in Digit, d # code[k]
  PROVE  ~ValidCode([code EXCEPT ![k] = d])
<1>1. PICK n, wrong : n = Len(code) /\ wrong = [code EXCEPT ![k] = d]
  OBVIOUS
<1>2. n \in Nat /\ wrong \in Seq(Digit) /\ Len(wrong) = n /\ wrong[k] = d /\ \A i \in 1..n : i # k => wrong[i] = code[i]
  BY <1>1
<1>3. PICK f : IsSum(f, code, 0) /\ VerhoeffSum(code, 0) = f[n]
  <2>1. 0 \in Nat
    OBVIOUS
  <2> QED
    BY <1>1, <2>1, SumIsLast
<1>4. PICK g : IsSum(g, wrong, 0) /\ VerhoeffSum(wrong, 0) = g[n]
  <2>1. 0 \in Nat
    OBVIOUS
  <2> QED
    BY <1>2, <2>1, SumIsLast
<1>5. /\ n \in Nat /\ wrong \in Seq(Digit) /\ Len(code) = n /\ Len(wrong) = n
      /\ IsSum(f, code, 0) /\ IsSum(g, wrong, 0)
  BY <1>1, <1>2, <1>3, <1>4
<1>6. PICK j \in 1..n : j = n + 1 - k
  BY <1>1
<1>7. f[j - 1] = g[j - 1]
  <2>1. \A i \in 1..j - 1 : wrong[n + 1 - i] = code[n + 1 - i]
    BY <1>1, <1>2, <1>6
  <2>2. PICK before \in 0..n : before = j - 1
    BY <1>2, <1>6
  <2>3. \A i \in 1..before : wrong[n + 1 - i] = code[n + 1 - i]
    BY <2>1, <2>2
  <2>4. f[before] = g[before]
    BY <1>5, <2>3, SumsStayTogether
  <2> QED
    BY <2>2, <2>4
<1>8. f[j] # g[j]
  <2>1. PICK r \in 0..7 : r = (j - 1 + 0) % 8
    OBVIOUS
  <2>2. Added(code, 0, j) = P[r][code[k]] /\ Added(wrong, 0, j) = P[r][d]
    <3>1. n + 1 - j = k
      BY <1>1, <1>6
    <3> QED
      BY <1>1, <1>2, <2>1, <3>1 DEF Added
  <2>3. PICK c \in Digit : c = code[k]
    OBVIOUS
  <2>4. P[r][c] \in Digit /\ P[r][d] \in Digit /\ P[r][c] # P[r][d]
    <3>1. c # d
      BY <2>3
    <3>2. P[r][c] # P[r][d]
      BY <3>1, PRows
    <3> QED
      BY <3>2, TablesHoldDigits
  <2>5. f[j] = D[f[j - 1]][P[r][c]] /\ g[j] = D[f[j - 1]][P[r][d]] /\ f[j - 1] \in Digit
    BY <1>1, <1>2, <1>3, <1>4, <1>7, <2>2, <2>3 DEF IsSum
  <2> QED
    <3>1. PICK u \in Digit, v \in Digit, w \in Digit : u = f[j - 1] /\ v = P[r][c] /\ w = P[r][d]
      BY <2>4, <2>5
    <3>2. v # w
      BY <2>4, <3>1
    <3>3. D[u][v] # D[u][w]
      BY <3>2, DIsGroup
    <3> QED
      BY <2>5, <3>1, <3>3
<1>9. f[n] # g[n]
  <2>1. \A i \in j + 1..n : wrong[n + 1 - i] = code[n + 1 - i]
    BY <1>1, <1>2, <1>6
  <2>2. j \in 0..n
    BY <1>2
  <2> QED
    BY <1>5, <1>8, <2>1, <2>2, SumsStayApart
<1> QED
  BY <1>1, <1>3, <1>4, <1>9 DEF ValidCode

\* A code in which two neighbours of a valid code have changed places is not valid.
LEMMA SwapShows ==
  ASSUME NEW code \in Seq(Digit), ValidCode(code), NEW k \in 1..Len(code) - 1, code[k] # code[k + 1]
  PROVE  ~ValidCode([code EXCEPT ![k] = code[k + 1], ![k + 1] = code[k]])
<1>1. PICK n, wrong : n = Len(code) /\ wrong = [code EXCEPT ![k] = code[k + 1], ![k + 1] = code[k]]
  OBVIOUS
<1>2. /\ n \in Nat /\ wrong \in Seq(Digit) /\ Len(wrong) = n /\ wrong[k] = code[k + 1] /\ wrong[k + 1] = code[k]
      /\ \A i \in 1..n : i # k /\ i # k + 1 => wrong[i] = code[i]
  BY <1>1
<1>3. PICK f : IsSum(f, code, 0) /\ VerhoeffSum(code, 0) = f[n]
  <2>1. 0 \in Nat
    OBVIOUS
  <2> QED
    BY <1>1, <2>1, SumIsLast
<1>4. PICK g : IsSum(g, wrong, 0) /\ VerhoeffSum(wrong, 0) = g[n]
  <2>1. 0 \in Nat
    OBVIOUS
  <2> QED
    BY <1>2, <2>1, SumIsLast
<1>5. /\ n \in Nat /\ wrong \in Seq(Digit) /\ Len(code) = n /\ Len(wrong) = n
      /\ IsSum(f, code, 0) /\ IsSum(g, wrong, 0)
  BY <1>1, <1>2, <1>3, <1>4
<1>6. PICK j \in 1..n - 1 : j = n - k
  BY <1>1
<1>7. f[j - 1] = g[j - 1]
  <2>1. \A i \in 1..j - 1 : wrong[n + 1 - i] = code[n + 1 - i]
    BY <1>1, <1>2, <1>6
  <2>2. PICK before \in 0..n : before = j - 1
    BY <1>2, <1>6
  <2>3. \A i \in 1..before : wrong[n + 1 - i] = code[n + 1 - i]
    BY <2>1, <2>2
  <2>4. f[before] = g[before]
    BY <1>5, <2>3, SumsStayTogether
  <2> QED
    BY <2>2, <2>4
<1>8. f[j + 1] # g[j + 1]
  <2>1. PICK r \in 0..7 : r = (j - 1 + 0) % 8
    OBVIOUS
  <2>2. (j + 1 - 1 + 0) % 8 = (r + 1) % 8
    BY <2>1
  <2>3. n + 1 - j = k + 1 /\ n + 1 - (j + 1) = k /\ j \in 1..n /\ j + 1 \in 1..n /\ (j + 1) - 1 = j
    BY <1>1, <1>6
  <2>4. code[k] \in Digit /\ code[k + 1] \in Digit
    BY <1>1
  <2>5. PICK u \in Digit, v \in Digit : u = P[r][code[k + 1]] /\ v = P[r][code[k]]
    BY <2>4, TablesHoldDigits
  <2>6. u # v
    BY <2>4, <2>5, PRows
  <2>7. P[(r + 1) % 8][code[k]] = P[1][v] /\ P[(r + 1) % 8][code[k + 1]] = P[1][u]
    BY <2>4, <2>5, PRows
  <2>8. Added(code, 0, j) = u /\ Added(wrong, 0, j) = v
    BY <1>1, <1>2, <2>1, <2>3, <2>5 DEF Added
  <2>9. Added(code, 0, j + 1) = P[1][v] /\ Added(wrong, 0, j + 1) = P[1][u]
    <3>1. Added(code, 0, j + 1) = P[(j + 1 - 1 + 0) % 8][code[n + 1 - (j + 1)]]
      BY <1>1 DEF Added
    <3>2. Added(wrong, 0, j + 1) = P[(j + 1 - 1 + 0) % 8][wrong[n + 1 - (j + 1)]]
      BY <1>2 DEF Added
    <3>3. code[n + 1 - (j + 1)] = code[k] /\ wrong[n + 1 - (j + 1)] = code[k + 1]
      BY <1>2, <2>3
    <3> QED
      BY <2>2, <2>7, <3>1, <3>2, <3>3
  <2>10. f[j] = D[f[j - 1]][u] /\ f[j + 1] = D[f[j]][P[1][v]]
    BY <1>1, <1>3, <2>3, <2>8, <2>9 DEF IsSum
  <2>11. g[j] = D[f[j - 1]][v] /\ g[j + 1] = D[g[j]][P[1][u]]
    BY <1>2, <1>4, <1>7, <2>3, <2>8, <2>9 DEF IsSum
  <2>12. PICK s \in Digit, p \in Digit, q \in Digit : s = f[j - 1] /\ p = P[1][v] /\ q = P[1][u]
    <3>1. f[j - 1] \in Digit
      BY <1>1, <1>3, <2>3 DEF IsSum
    <3> QED
      BY <3>1, TablesHoldDigits
  <2>13. D[D[s][u]][p] = D[s][D[u][p]] /\ D[D[s][v]][q] = D[s][D[v][q]]
    BY DIsGroup
  <2>14. D[u][p] # D[v][q]
    BY <2>6, <2>12, Swapped
  <2>15. PICK x \in Digit, y \in Digit : x = D[u][p] /\ y = D[v][q]
    BY DIsGroup
  <2>16. D[s][x] # D[s][y]
    <3>1. x # y
      BY <2>14, <2>15
    <3> QED
      BY <3>1, DIsGroup
  <2> QED
    BY <2>10, <2>11, <2>12, <2>13, <2>15, <2>16
<1>9. f[n] # g[n]
  <2>1. \A i \in j + 1 + 1..n : wrong[n + 1 - i] = code[n + 1 - i]
    BY <1>1, <1>2, <1>6
  <2>2. PICK after \in 0..n : after = j + 1
    BY <1>2
  <2>3. \A i \in after + 1..n : wrong[n + 1 - i] = code[n + 1 - i]
    BY <2>1, <2>2
  <2>4. f[after] # g[after]
    BY <1>8, <2>2
  <2> QED
    BY <1>5, <2>3, <2>4, SumsStayApart
<1> QED
  BY <1>1, <1>3, <1>4, <1>9 DEF ValidCode

\* Whatever the slip, it shows.
LEMMA MistakeShows ==
  ASSUME NEW code \in Seq(Digit), ValidCode(code), NEW wrong \in Mistaken(code) \ {code}
  PROVE  ~ValidCode(wrong)
<1>0. DOMAIN code = 1..Len(code)
  OBVIOUS
<1>1. CASE \E k \in DOMAIN code, d \in Digit : wrong = [code EXCEPT ![k] = d]
  <2>1. PICK k \in 1..Len(code), d \in Digit : wrong = [code EXCEPT ![k] = d]
    BY <1>0, <1>1
  <2>2. d # code[k]
    BY <2>1
  <2> QED
    BY <2>1, <2>2, OneDigitShows
<1>2. CASE \E k \in 1..Len(code) - 1 : wrong = [code EXCEPT ![k] = code[k + 1], ![k + 1] = code[k]]
  <2>1. PICK k \in 1..Len(code) - 1 : wrong = [code EXCEPT ![k] = code[k + 1], ![k + 1] = code[k]]
    BY <1>2
  <2>2. code[k] # code[k + 1]
    BY <2>1
  <2> QED
    BY <2>1, <2>2, SwapShows
<1> QED
  BY <1>1, <1>2 DEF Mistaken

-----------------------------------------------------------------------------
(* What is read from a code.                                                 *)

\* ValueOf takes one digit after the other.
LEMMA ValueUnfolds ==
  ASSUME NEW digits \in Seq(Digit)
  PROVE  \E value \in [0..Len(digits) -> Nat] :
           /\ value[0] = 0
           /\ \A i \in 1..Len(digits) : value[i] = 10 * value[i - 1] + digits[i]
           /\ ValueOf(digits) = value[Len(digits)]
<1>1. PICK n \in Nat : n = Len(digits)
  OBVIOUS
<1> DEFINE rule == [i \in 1..n |-> [s \in Nat |-> 10 * s + digits[i]]]
           Unfolds(g) == g = [i \in 0..Len(digits) |-> IF i = 0 THEN 0 ELSE 10 * g[i - 1] + digits[i]]
           value == CHOOSE g : Unfolds(g)
<1>2. \A i \in 1..n : digits[i] \in Nat
  <2>1. Digit \subseteq Nat /\ \A i \in 1..n : digits[i] \in Digit
    BY <1>1 DEF Digit
  <2> QED
    BY <2>1
<1>3. rule \in [1..n -> [Nat -> Nat]]
  BY <1>2
<1>4. PICK f \in [0..n -> Nat] : f[0] = 0 /\ \A i \in 1..n : f[i] = rule[i][f[i - 1]]
  <2> HIDE DEF rule
  <2>1. PICK S, m, next : S = Nat /\ m = n /\ next = rule
    OBVIOUS
  <2>2. PICK s0 \in S : s0 = 0
    BY <2>1
  <2>3. m \in Nat /\ next \in [1..m -> [S -> S]]
    BY <2>1, <1>3
  <2>4. \E f \in [0..m -> S] : f[0] = s0 /\ \A i \in 1..m : f[i] = next[i][f[i - 1]]
    BY <2>3, Recursion
  <2> QED
    BY <2>1, <2>2, <2>4
<1>5. \A i \in 1..n : f[i] = 10 * f[i - 1] + digits[i]
  <2> SUFFICES ASSUME NEW i \in 1..n PROVE f[i] = 10 * f[i - 1] + digits[i]
    OBVIOUS
  <2>1. f[i - 1] \in Nat
    OBVIOUS
  <2> QED
    BY <2>1, <1>4
<1> HIDE DEF rule
<1>6. f[0] = 0
  BY <1>4
<1>7. f = [i \in 0..n |-> IF i = 0 THEN 0 ELSE 10 * f[i - 1] + digits[i]]
  <2>1. ASSUME NEW i \in 0..n PROVE f[i] = IF i = 0 THEN 0 ELSE 10 * f[i - 1] + digits[i]
    <3>1. CASE i = 0
      BY <3>1, <1>6
    <3>2. CASE i # 0
      <4>1. i \in 1..n
        BY <3>2
      <4> QED
        BY <3>2, <4>1, <1>5
    <3> QED
      BY <3>1, <3>2
  <2> QED
    BY <2>1
<1>8. Unfolds(f)
  BY <1>1, <1>7
<1>9. Unfolds(value)
  <2> HIDE DEF Unfolds
  <2> QED
    BY <1>8
<1>10. ValueOf(digits) = value[Len(digits)]
  BY DEF ValueOf
<1> HIDE DEF value
<1>11. \A i \in 0..n : value[i] = IF i = 0 THEN 0 ELSE 10 * value[i - 1] + digits[i]
  BY <1>1, <1>9
<1>12. \A i \in 0..n : value[i] = f[i]
  <2> DEFINE T == {i \in 0..n : value[i] = f[i]}
  <2>1. 0 \in T
    BY <1>6, <1>11
  <2>2. ASSUME NEW i \in 0..n - 1, i \in T PROVE i + 1 \in T
    <3>1. i + 1 \in 1..n /\ (i + 1) - 1 = i /\ i + 1 # 0
      OBVIOUS
    <3>2. value[i + 1] = 10 * value[i] + digits[i + 1]
      BY <3>1, <1>11
    <3>3. f[i + 1] = 10 * f[i] + digits[i + 1]
      BY <3>1, <1>5
    <3> QED
      BY <2>2, <3>1, <3>2, <3>3
  <2> HIDE DEF T
  <2>3. 0 \in Nat
    OBVIOUS
  <2>4. 0..n \subseteq T
    BY <2>1, <2>2, <2>3, Upward
  <2> QED
    BY <2>4 DEF T
<1>13. value = [i \in 0..n |-> value[i]]
  BY <1>1, <1>9
<1>14. value \in [0..n -> Nat]
  BY <1>12, <1>13
<1>15. value[0] = 0 /\ \A i \in 1..n : value[i] = 10 * value[i - 1] + digits[i]
  BY <1>11
<1> QED
  BY <1>1, <1>10, <1>14, <1>15

\* The digits of a number below 10^5 or 10^4 stand for that number.
LEMMA DigitsReadBack ==
  ASSUME NEW digits \in Seq(Digit), NEW n \in Nat
  PROVE  /\ n < 100000 /\ digits = Digits(n, 5) => ValueOf(digits) = n
         /\ n < 10000 /\ digits = Digits(n, 4) => ValueOf(digits) = n
<1>1. ASSUME n < 100000, digits = Digits(n, 5) PROVE ValueOf(digits) = n
  <2>1. /\ Len(digits) = 5
        /\ digits[1] = (n \div 10 ^ (5 - 1)) % 10 /\ digits[2] = (n \div 10 ^ (5 - 2)) % 10
        /\ digits[3] = (n \div 10 ^ (5 - 3)) % 10 /\ digits[4] = (n \div 10 ^ (5 - 4)) % 10
        /\ digits[5] = (n \div 10 ^ (5 - 5)) % 10
    BY <1>1 DEF Digits
  <2>2. 10 ^ (5 - 1) = 10000 /\ 10 ^ (5 - 2) = 1000 /\ 10 ^ (5 - 3) = 100
        /\ 10 ^ (5 - 4) = 10 /\ 10 ^ (5 - 5) = 1
    BY SMT
  <2>3. PICK value \in [0..5 -> Nat] :
           /\ value[0] = 0 /\ ValueOf(digits) = value[5]
           /\ \A i \in 1..5 : value[i] = 10 * value[i - 1] + digits[i]
    <3>1. PICK m \in Nat : m = Len(digits) /\ m = 5
      BY <2>1
    <3>2. \E value \in [0..m -> Nat] :
           /\ value[0] = 0
           /\ \A i \in 1..m : value[i] = 10 * value[i - 1] + digits[i]
           /\ ValueOf(digits) = value[m]
      BY <3>1, ValueUnfolds
    <3> QED
      BY <3>1, <3>2
  <2>4. value[1] = 10 * 0 + digits[1] /\ value[2] = 10 * value[1] + digits[2]
        /\ value[3] = 10 * value[2] + digits[3] /\ value[4] = 10 * value[3] + digits[4]
        /\ value[5] = 10 * value[4] + digits[5]
    <3>1. \A i \in 1..5 : value[i] = 10 * value[i - 1] + digits[i]
      BY <2>3
    <3>2. value[1] = 10 * value[0] + digits[1] /\ value[2] = 10 * value[1] + digits[2]
      BY <3>1
    <3>3. value[3] = 10 * value[2] + digits[3] /\ value[4] = 10 * value[3] + digits[4]
      BY <3>1
    <3>4. value[5] = 10 * value[4] + digits[5]
      BY <3>1
    <3>5. value[0] = 0
      BY <2>3
    <3> QED
      BY <3>2, <3>3, <3>4, <3>5
  <2>5. PICK a \in Nat, b \in Nat, c \in Nat, d \in Nat, e \in Nat :
          /\ a = (n \div 10000) % 10 /\ b = (n \div 1000) % 10 /\ c = (n \div 100) % 10
          /\ d = (n \div 10) % 10 /\ e = (n \div 1) % 10
    OBVIOUS
  <2>6. 10000 * a + 1000 * b + 100 * c + 10 * d + e = n
    BY <1>1, <2>5, SMTT(30)
  <2>7. digits[1] = a /\ digits[2] = b /\ digits[3] = c /\ digits[4] = d /\ digits[5] = e
    BY <2>1, <2>2, <2>5
  <2> QED
    BY <2>3, <2>4, <2>6, <2>7
<1>2. ASSUME n < 10000, digits = Digits(n, 4) PROVE ValueOf(digits) = n
  <2>1. /\ Len(digits) = 4
        /\ digits[1] = (n \div 10 ^ (4 - 1)) % 10 /\ digits[2] = (n \div 10 ^ (4 - 2)) % 10
        /\ digits[3] = (n \div 10 ^ (4 - 3)) % 10 /\ digits[4] = (n \div 10 ^ (4 - 4)) % 10
    BY <1>2 DEF Digits
  <2>2. 10 ^ (4 - 1) = 1000 /\ 10 ^ (4 - 2) = 100 /\ 10 ^ (4 - 3) = 10 /\ 10 ^ (4 - 4) = 1
    BY SMT
  <2>3. PICK value \in [0..4 -> Nat] :
           /\ value[0] = 0 /\ ValueOf(digits) = value[4]
           /\ \A i \in 1..4 : value[i] = 10 * value[i - 1] + digits[i]
    BY <2>1, ValueUnfolds
  <2>4. value[1] = 10 * 0 + digits[1] /\ value[2] = 10 * value[1] + digits[2]
        /\ value[3] = 10 * value[2] + digits[3] /\ value[4] = 10 * value[3] + digits[4]
    BY <2>3
  <2>5. PICK a \in Nat, b \in Nat, c \in Nat, d \in Nat :
          /\ a = (n \div 1000) % 10 /\ b = (n \div 100) % 10
          /\ c = (n \div 10) % 10 /\ d = (n \div 1) % 10
    OBVIOUS
  <2>6. 1000 * a + 100 * b + 10 * c + d = n
    BY <1>2, <2>5, SMTT(30)
  <2>7. digits[1] = a /\ digits[2] = b /\ digits[3] = c /\ digits[4] = d
    BY <2>1, <2>2, <2>5
  <2> QED
    BY <2>3, <2>4, <2>6, <2>7
<1> QED
  BY <1>1, <1>2

\* The digits of a number are digits.
LEMMA DigitsAreDigits ==
  ASSUME NEW n \in Nat, NEW count \in {1, 4, 5}
  PROVE  Digits(n, count) \in Seq(Digit) /\ Len(Digits(n, count)) = count
<1>1. ASSUME NEW i \in 1..count PROVE (n \div 10 ^ (count - i)) % 10 \in Digit
  <2>1. PICK k \in 0..4 : k = count - i
    OBVIOUS
  <2>2. 10 ^ k \in Nat \ {0}
    <3>1. k = 0 \/ k = 1 \/ k = 2 \/ k = 3 \/ k = 4
      OBVIOUS
    <3>2. /\ 10 ^ 0 \in Nat \ {0} /\ 10 ^ 1 \in Nat \ {0} /\ 10 ^ 2 \in Nat \ {0}
          /\ 10 ^ 3 \in Nat \ {0} /\ 10 ^ 4 \in Nat \ {0}
      BY SMT
    <3> QED
      BY <3>1, <3>2, Zenon
  <2>3. PICK w \in Nat \ {0} : w = 10 ^ (count - i)
    BY <2>1, <2>2
  <2>4. (n \div w) % 10 \in 0..9
    <3>1. n \div w \in Nat
      OBVIOUS
    <3> QED
      BY <3>1
  <2> QED
    BY <2>3, <2>4 DEF Digit
<1>2. count \in Nat
  OBVIOUS
<1> QED
  BY <1>1, <1>2 DEF Digits

\* A sequence of digits after another, and one digit after a sequence.
LEMMA Joined ==
  ASSUME NEW s \in Seq(Digit), NEW t \in Seq(Digit), NEW d \in Digit
  PROVE  /\ s \o t \in Seq(Digit) /\ Len(s \o t) = Len(s) + Len(t)
         /\ \A i \in 1..Len(s) : (s \o t)[i] = s[i]
         /\ \A i \in 1..Len(t) : (s \o t)[Len(s) + i] = t[i]
         /\ Append(s, d) \in Seq(Digit) /\ Len(Append(s, d)) = Len(s) + 1
         /\ Append(s, d)[Len(s) + 1] = d /\ \A i \in 1..Len(s) : Append(s, d)[i] = s[i]
OBVIOUS

\* A passcode has 27 bits.
LEMMA PasscodeBits ==
  MaxPasscode \in Nat /\ MaxPasscode < 8192 * 16384
BY SMT DEF MaxPasscode

\* The code of a pair whose numbers fit the code's fields is one of digits, is
\* valid, and reads back what it can hold of them.
LEMMA PairReadBack ==
  ASSUME NEW discriminator \in 0..MaxDiscriminator, NEW passcode \in 0..MaxPasscode
  PROVE  /\ PairingCodeOf(discriminator, passcode) \in Seq(Digit)
         /\ ValidCode(PairingCodeOf(discriminator, passcode))
         /\ ReadCode(PairingCodeOf(discriminator, passcode))
              = [upper |-> discriminator \div 256, passcode |-> passcode]
<1>0. /\ discriminator \in Nat /\ discriminator < 4096
      /\ passcode \in Nat /\ passcode \div 16384 < 8192
  <2>1. discriminator \in Nat /\ discriminator < 4096
    BY DEF MaxDiscriminator
  <2>2. passcode \in Nat /\ passcode < 8192 * 16384
    BY PasscodeBits, SMT
  <2>3. passcode \div 16384 < 8192
    BY <2>2, SMT
  <2> QED
    BY <2>1, <2>2, <2>3, SMT
<1>1. PICK a \in Nat, b \in Nat, c \in Nat :
        /\ a = (discriminator \div 1024) % 4
        /\ b = ((discriminator \div 256) % 4) * 16384 + (passcode % 16384)
        /\ c = (passcode \div 16384) % 8192
        /\ a < 4 /\ b < 65536 /\ c < 8192
  BY <1>0, SMT
<1>2. PICK da, db, dc : da = Digits(a, 1) /\ db = Digits(b, 5) /\ dc = Digits(c, 4)
  OBVIOUS
<1>3. /\ da \in Seq(Digit) /\ Len(da) = 1
      /\ db \in Seq(Digit) /\ Len(db) = 5
      /\ dc \in Seq(Digit) /\ Len(dc) = 4
  <2>1. 1 \in {1, 4, 5} /\ 4 \in {1, 4, 5} /\ 5 \in {1, 4, 5} /\ a \in Nat /\ b \in Nat /\ c \in Nat
    BY SMT
  <2> QED
    BY <1>2, <2>1, DigitsAreDigits
<1>4. PICK front, payload : front = da \o db /\ payload = front \o dc
  OBVIOUS
<1>5. payload = Payload(discriminator, passcode)
  BY <1>1, <1>2, <1>4 DEF Payload
<1>6. front \in Seq(Digit) /\ Len(front) = 6 /\ front[1] = da[1] /\ \A i \in 1..5 : front[1 + i] = db[i]
  <2>1. 0 \in Digit
    BY DEF Digit
  <2>2. /\ front \in Seq(Digit) /\ Len(front) = 1 + 5
        /\ (\A i \in 1..1 : front[i] = da[i]) /\ \A i \in 1..5 : front[1 + i] = db[i]
    <3>1. /\ da \o db \in Seq(Digit) /\ Len(da \o db) = Len(da) + Len(db)
          /\ \A i \in 1..Len(da) : (da \o db)[i] = da[i]
          /\ \A i \in 1..Len(db) : (da \o db)[Len(da) + i] = db[i]
      BY <1>3, <2>1, Joined
    <3> QED
      BY <1>3, <1>4, <3>1
  <2> QED
    BY <2>2
<1>7. /\ payload \in Seq(Digit) /\ Len(payload) = 10
      /\ payload[1] = da[1] /\ (\A i \in 1..5 : payload[1 + i] = db[i]) /\ \A i \in 1..4 : payload[6 + i] = dc[i]
  <2>1. 0 \in Digit
    BY DEF Digit
  <2>2. /\ payload \in Seq(Digit) /\ Len(payload) = 6 + 4
        /\ (\A i \in 1..6 : payload[i] = front[i]) /\ \A i \in 1..4 : payload[6 + i] = dc[i]
    <3>1. /\ front \o dc \in Seq(Digit) /\ Len(front \o dc) = Len(front) + Len(dc)
          /\ \A i \in 1..Len(front) : (front \o dc)[i] = front[i]
          /\ \A i \in 1..Len(dc) : (front \o dc)[Len(front) + i] = dc[i]
      <4>1. front \in Seq(Digit) /\ dc \in Seq(Digit)
        BY <1>3, <1>6
      <4> QED
        BY <2>1, <4>1, Joined
    <3> QED
      BY <1>3, <1>4, <1>6, <3>1
  <2> QED
    BY <1>6, <2>2
<1>8. PICK check, code : check = Checksum(payload) /\ code = Append(payload, check)
  OBVIOUS
<1>9. code = PairingCodeOf(discriminator, passcode)
  BY <1>5, <1>8 DEF PairingCodeOf
<1>10. check \in Digit
  <2>1. 1 \in Nat
    OBVIOUS
  <2>2. VerhoeffSum(payload, 1) \in Digit
    BY <1>7, <2>1, SumDigit
  <2> QED
    BY <1>8, <2>2, TablesHoldDigits DEF Checksum
<1>11. code \in Seq(Digit) /\ Len(code) = 11 /\ \A i \in 1..10 : code[i] = payload[i]
  <2>1. code \in Seq(Digit) /\ Len(code) = 10 + 1 /\ \A i \in 1..10 : code[i] = payload[i]
    <3>1. /\ Append(payload, check) \in Seq(Digit) /\ Len(Append(payload, check)) = Len(payload) + 1
          /\ \A i \in 1..Len(payload) : Append(payload, check)[i] = payload[i]
      <4>1. payload \in Seq(Digit)
        BY <1>7
      <4> QED
        BY <1>10, <4>1, Joined
    <3> QED
      BY <1>7, <1>8, <3>1
  <2> QED
    BY <2>1
<1>12. ValidCode(code)
  BY <1>7, <1>8, CheckedIsValid
<1>13. code[1] = a
  <2>1. da[1] = (a \div 10 ^ (1 - 1)) % 10
    BY <1>2 DEF Digits
  <2>2. 10 ^ (1 - 1) = 1
    BY SMT
  <2>3. (a \div 1) % 10 = a
    BY <1>1, SMT
  <2> QED
    BY <1>7, <1>11, <2>1, <2>2, <2>3
<1>14. SubSeq(code, 2, 6) = db
  BY <1>3, <1>7, <1>11
<1>15. SubSeq(code, 7, 10) = dc
  BY <1>3, <1>7, <1>11
<1>16. ValueOf(db) = b /\ ValueOf(dc) = c
  <2>1. b \in Nat /\ b < 100000 /\ c \in Nat /\ c < 10000
    BY <1>1, SMT
  <2> QED
    BY <1>2, <1>3, <2>1, DigitsReadBack
<1>17. PICK upper, value : upper = 4 * a + (b \div 16384) /\ value = 16384 * c + (b % 16384)
  OBVIOUS
<1>18. ReadCode(code) = [upper |-> upper, passcode |-> value]
  <2>1. PICK u, v : /\ ReadCode(code) = [upper |-> u, passcode |-> v]
                    /\ u = 4 * code[1] + (ValueOf(SubSeq(code, 2, 6)) \div 16384)
                    /\ v = 16384 * ValueOf(SubSeq(code, 7, 10)) + (ValueOf(SubSeq(code, 2, 6)) % 16384)
    BY DEF ReadCode
  <2>2. ValueOf(SubSeq(code, 2, 6)) = b /\ ValueOf(SubSeq(code, 7, 10)) = c
    BY <1>14, <1>15, <1>16
  <2>3. u = upper /\ v = value
    BY <1>13, <1>17, <2>1, <2>2, SMT
  <2> QED
    BY <2>1, <2>3
<1>19. b \div 16384 = (discriminator \div 256) % 4 /\ b % 16384 = passcode % 16384
  BY <1>0, <1>1, SMT
<1>20. upper = discriminator \div 256
  <2>1. 4 * a + ((discriminator \div 256) % 4) = discriminator \div 256
    BY <1>0, <1>1, SMT
  <2> QED
    BY <1>17, <1>19, <2>1, SMT
<1>21. value = passcode
  <2>1. 16384 * c + (passcode % 16384) = passcode
    BY <1>0, <1>1, SMT
  <2> QED
    BY <1>17, <1>19, <2>1, SMT
<1> QED
  BY <1>9, <1>11, <1>12, <1>18, <1>20, <1>21

-----------------------------------------------------------------------------
(* The invariant.                                                            *)

Asks == {"get_nodes", "remove_node", "commission_with_code"}

Codes == {<<>>} \cup {CodeOf(c) : c \in Configs}

Requests == [conn : Connections \cup {"gone"}, ask : Asks, node : 0..MaxNodes, code : Codes]

\* In a list no foreign node tells the bridge's vendor.
Lists == SUBSET ((NodeIds \X Vendors) \ (Foreign \X {"own"}))

Answers == [to : Requests, ok : BOOLEAN, nodes : Lists]

Steps == {"none", "cleanup", "listing", "choosing", "removing", "settle",
          "commissioning", "manual", "done"}

\* The controller never numbers a node twice, so that a node it said was removed
\* stays away; nothing asks over the cleanup's connection for a foreign node.
ServerInv ==
  /\ numbered \in FirstNodes..MaxNodes
  /\ nodes \subseteq 1..numbered
  /\ asked \subseteq Requests
  /\ answers \subseteq Answers
  /\ open \subseteq Connections
  /\ \A a \in answers : a.to.conn \in open
  /\ \A r \in asked : r.conn = "cleanup" => r.node \notin Foreign
  /\ \A a \in answers : a.ok /\ a.to.ask = "remove_node" => a.to.node \in (1..numbered) \ nodes

\* The locals of the cleanup: empty outside it, one node asked for at a time,
\* and no node of the list forgotten whose entry tells the bridge's vendor.
ThreadInv ==
  /\ up \in BOOLEAN
  /\ config \in Configs
  /\ step \in Steps
  /\ tool \in {"off", "commission", "remove"}
  /\ ~up => step = "none"
  /\ listed \in Lists /\ left \subseteq NodeIds /\ target \subseteq NodeIds
  /\ removed \subseteq NodeIds /\ kept \subseteq NodeIds
  /\ left \cap Foreign = {}
  /\ \A m, n \in target : m = n
  /\ step # "removing" => target = {}
  /\ step \notin {"choosing", "removing"} =>
       listed = {} /\ left = {} /\ target = {} /\ removed = {} /\ kept = {}
  /\ step \in {"choosing", "removing"} =>
       {n \in NodeIds : <<n, "own">> \in listed} = left \cup target \cup removed \cup kept

\* The thread's connection is open only while the process runs, and what is asked
\* over it is the code of the pair the process was started with.
CodesSent ==
  /\ \A r \in asked : r.conn = "auto" => "auto" \in open /\ r.code = CodeOf(config)
  /\ "auto" \in open => up

RemovedGone == removed \subseteq (1..numbered) \ nodes

IInv == ServerInv /\ ThreadInv /\ RemovedGone

-----------------------------------------------------------------------------
(* The connections.                                                          *)

\* What a connection asks for is recorded and disturbs nothing else.
LEMMA AskKeeps ==
  ASSUME ServerInv, NEW c \in Connections, NEW r \in Requests, Ask(c, r),
         r.conn = "cleanup" => r.node \notin Foreign,
         UNCHANGED <<nodes, numbered, answers>>
  PROVE  ServerInv'
<1>1. asked' = asked \cup {r} /\ open' = open \cup {c}
  BY DEF Ask
<1> QED
  BY <1>1 DEF ServerInv

\* Closing connections forgets their answers; what may still be served of their
\* requests belongs to no connection.
LEMMA CloseKeeps ==
  ASSUME ServerInv, NEW cs \in SUBSET Connections, Close(cs), UNCHANGED <<nodes, numbered>>
  PROVE  ServerInv'
<1> DEFINE closed == {r \in asked : r.conn \in cs \cup {"gone"} /\ r.ask # "get_nodes"}
           gone(still) == {[r EXCEPT !.conn = "gone"] : r \in still}
<1>1. PICK still \in SUBSET closed : asked' = {r \in asked : r.conn \in open'} \cup gone(still)
  BY DEF Close
<1>2. open' = open \ cs /\ answers' = {a \in answers : a.to.conn \notin cs}
  BY DEF Close
<1>3. gone(still) \subseteq Requests /\ \A r \in gone(still) : r.conn = "gone"
  <2> SUFFICES ASSUME NEW r \in still
               PROVE  /\ [r EXCEPT !.conn = "gone"] \in Requests
                      /\ [r EXCEPT !.conn = "gone"].conn = "gone"
    OBVIOUS
  <2>1. r \in Requests
    BY DEF ServerInv
  <2> QED
    BY <2>1 DEF Requests
<1> HIDE DEF gone, closed
<1>4. asked' \subseteq Requests
  BY <1>1, <1>3 DEF ServerInv
<1>5. \A r \in asked' : r.conn = "cleanup" => r.node \notin Foreign
  BY <1>1, <1>3 DEF ServerInv
<1>6. open' \subseteq Connections /\ answers' \subseteq Answers /\ \A a \in answers' : a.to.conn \in open'
  BY <1>2 DEF ServerInv
<1> QED
  BY <1>2, <1>4, <1>5, <1>6 DEF ServerInv

\* An answer goes to the connection it was asked over, if that is still open.
LEMMA AnswerKeeps ==
  ASSUME ServerInv, NEW r \in asked, NEW ok \in BOOLEAN, NEW list \in Lists,
         Answer(r, ok, list),
         numbered' \in FirstNodes..MaxNodes, nodes' \subseteq 1..numbered', numbered <= numbered',
         nodes' \cap (1..numbered) \subseteq nodes,
         ok /\ r.ask = "remove_node" => r.node \in (1..numbered') \ nodes'
  PROVE  ServerInv'
<1> DEFINE new == [to |-> r, ok |-> ok, nodes |-> list]
<1>1. r \in Requests
  BY DEF ServerInv
<1>2. new \in Answers /\ new.to = r /\ new.ok = ok
  BY <1>1 DEF Answers
<1> HIDE DEF new
<1>3. asked' \subseteq asked /\ open' = open
  BY DEF Answer
<1>4. answers' \subseteq answers \cup {new} /\ (r.conn \notin open => answers' = answers)
  BY DEF Answer, new
<1>5. answers' \subseteq Answers /\ \A a \in answers' : a.to.conn \in open'
  BY <1>2, <1>3, <1>4 DEF ServerInv
<1>6. \A n : n \in (1..numbered) \ nodes => n \in (1..numbered') \ nodes'
  <2>1. numbered \in Nat /\ numbered' \in Nat
    BY ConfigAssumption DEF ServerInv
  <2> QED
    BY <2>1
<1>7. \A a \in answers' : a.ok /\ a.to.ask = "remove_node" => a.to.node \in (1..numbered') \ nodes'
  BY <1>2, <1>4, <1>6 DEF ServerInv
<1>8. asked' \subseteq Requests /\ \A q \in asked' : q.conn = "cleanup" => q.node \notin Foreign
  BY <1>3 DEF ServerInv
<1> QED
  BY <1>3, <1>5, <1>7, <1>8 DEF ServerInv

-----------------------------------------------------------------------------
(* The controller.                                                           *)

\* What others ask the server to do: the nodes are the only thing that changes.
LEMMA ControllerKeeps ==
  ASSUME IInv, Controller
  PROVE  IInv'
<1>1. UNCHANGED <<up, config, step, listed, left, target, removed, kept, tool>>
  BY DEF Controller, processVars, cleanupVars
<1>2. ThreadInv'
  BY <1>1 DEF IInv, ThreadInv
<1>3. /\ ServerInv /\ numbered \in FirstNodes..MaxNodes /\ numbered \in Nat
      /\ nodes \subseteq 1..numbered /\ nodes \subseteq NodeIds /\ removed \subseteq (1..numbered) \ nodes
  BY ConfigAssumption DEF IInv, ServerInv, RemovedGone, NodeIds
<1>4. ASSUME NEW r \in asked, NEW ok \in BOOLEAN, NEW tells \in SUBSET (nodes \ Foreign),
             ServeList(r, ok, tells)
      PROVE  ServerInv' /\ RemovedGone'
  <2>1. UNCHANGED <<nodes, numbered>> /\ r.ask = "get_nodes"
    BY <1>4 DEF ServeList
  <2>2. \E list \in Lists : Answer(r, ok, list)
    <3> DEFINE entries == {<<n, IF n \in tells THEN "own" ELSE "other">> : n \in nodes}
    <3>1. entries \in Lists
      BY <1>3 DEF Lists, Vendors
    <3>2. {} \in Lists
      BY DEF Lists
    <3>3. Answer(r, ok, IF ok THEN entries ELSE {})
      BY <1>4 DEF ServeList
    <3> HIDE DEF entries
    <3> QED
      BY <3>1, <3>2, <3>3
  <2>3. ServerInv'
    BY <1>3, <2>1, <2>2, AnswerKeeps
  <2> QED
    BY <1>1, <1>3, <2>1, <2>3 DEF RemovedGone
<1>5. ASSUME NEW r \in asked, NEW ok \in BOOLEAN, ServeRemove(r, ok)
      PROVE  ServerInv' /\ RemovedGone'
  <2>1. /\ numbered' = numbered
        /\ nodes' = IF ok THEN nodes \ {r.node} ELSE nodes
        /\ ok => r.node \in nodes
        /\ Answer(r, ok, {})
    BY <1>5 DEF ServeRemove
  <2>2. nodes' \subseteq nodes
    <3>1. nodes' = nodes \ {r.node} \/ nodes' = nodes
      BY <2>1
    <3> QED
      BY <3>1
  <2>3. /\ numbered' \in FirstNodes..MaxNodes /\ numbered <= numbered'
        /\ nodes' \subseteq 1..numbered' /\ nodes' \cap (1..numbered) \subseteq nodes
    <3>1. numbered' = numbered
      BY <2>1
    <3> QED
      BY <1>3, <2>2, <3>1
  <2>4. ok => r.node \in (1..numbered') \ nodes'
    <3> SUFFICES ASSUME ok PROVE r.node \in (1..numbered') \ nodes'
      OBVIOUS
    <3>1. nodes' = nodes \ {r.node} /\ r.node \in nodes
      BY <2>1
    <3>2. r.node \in 1..numbered'
      BY <1>3, <2>1, <3>1
    <3> QED
      BY <3>1, <3>2
  <2>5. ServerInv'
    <3> DEFINE list == {}
    <3>1. list \in Lists /\ Answer(r, ok, list)
      BY <2>1 DEF Lists
    <3> HIDE DEF list
    <3> QED
      BY <1>3, <2>3, <2>4, <3>1, AnswerKeeps
  <2> QED
    BY <1>1, <1>3, <2>1, <2>2, <2>5 DEF RemovedGone
<1>6. ASSUME NEW r \in asked, ServeCommission(r)
      PROVE  ServerInv' /\ RemovedGone'
  <2>1. /\ numbered' = numbered + 1 /\ numbered < MaxNodes
        /\ nodes' = nodes \cup {numbered + 1}
        /\ r.ask = "commission_with_code"
        /\ Answer(r, TRUE, {})
    BY <1>6 DEF ServeCommission
  <2>2. /\ numbered' \in FirstNodes..MaxNodes /\ numbered <= numbered'
        /\ nodes' \subseteq 1..numbered' /\ nodes' \cap (1..numbered) \subseteq nodes
    BY <1>3, <2>1, ConfigAssumption
  <2>3. ServerInv'
    <3> DEFINE list == {}
               ok == TRUE
    <3>1. ok \in BOOLEAN /\ list \in Lists /\ Answer(r, ok, list)
      BY <2>1 DEF Lists
    <3> HIDE DEF list, ok
    <3>2. ~(ok /\ r.ask = "remove_node")
      BY <2>1
    <3> QED
      BY <1>3, <2>2, <3>1, <3>2, AnswerKeeps
  <2>4. removed \subseteq (1..numbered') \ nodes'
    BY <1>3, <2>1
  <2> QED
    BY <1>1, <2>3, <2>4 DEF RemovedGone
<1>7. ASSUME NEW r \in asked, RefuseCommission(r)
      PROVE  ServerInv' /\ RemovedGone'
  <2>1. UNCHANGED <<nodes, numbered>> /\ Answer(r, FALSE, {})
    BY <1>7 DEF RefuseCommission
  <2>2. ServerInv'
    <3> DEFINE list == {}
               ok == FALSE
    <3>1. ok \in BOOLEAN /\ list \in Lists /\ Answer(r, ok, list) /\ ~ok
      BY <2>1 DEF Lists
    <3> HIDE DEF list, ok
    <3>2. /\ numbered' \in FirstNodes..MaxNodes /\ numbered <= numbered'
          /\ nodes' \subseteq 1..numbered' /\ nodes' \cap (1..numbered) \subseteq nodes
      BY <1>3, <2>1
    <3> QED
      BY <1>3, <3>1, <3>2, AnswerKeeps
  <2> QED
    BY <1>1, <1>3, <2>1, <2>2 DEF RemovedGone
<1>8. ASSUME NEW c \in open, DropConnection(c)
      PROVE  ServerInv' /\ RemovedGone'
  <2>1. UNCHANGED <<nodes, numbered>> /\ Close({c}) /\ {c} \in SUBSET Connections
    BY <1>3, <1>8 DEF DropConnection, ServerInv
  <2>2. ServerInv'
    BY <1>3, <2>1, CloseKeeps
  <2> QED
    BY <1>1, <1>3, <2>1, <2>2 DEF RemovedGone
<1>9. ServerInv' /\ RemovedGone'
  BY <1>4, <1>5, <1>6, <1>7, <1>8 DEF Controller
<1> QED
  BY <1>2, <1>9 DEF IInv

-----------------------------------------------------------------------------
(* The process and its thread.                                               *)

\* A start and an end: the thread has no locals before and after.
LEMMA ProcessKeeps ==
  ASSUME IInv,
         \/ \E c \in Configs, commissioned, serverUrl, reset \in BOOLEAN :
              Boot(c, commissioned, serverUrl, reset)
         \/ End
  PROVE  IInv'
<1>1. ServerInv /\ ThreadInv /\ RemovedGone
  BY DEF IInv
<1>2. ASSUME NEW c \in Configs, NEW commissioned \in BOOLEAN, NEW serverUrl \in BOOLEAN,
             NEW reset \in BOOLEAN, Boot(c, commissioned, serverUrl, reset)
      PROVE  IInv'
  <2>1. UNCHANGED <<nodes, numbered, asked, answers, open, listed, left, target, removed, kept, tool>>
    BY <1>2 DEF Boot, serverVars, cleanupVars
  <2>2. ~up /\ up' = TRUE /\ config' = c /\ step' \in {"none", "cleanup", "settle"}
    BY <1>2 DEF Boot
  <2>3. ServerInv' /\ RemovedGone'
    BY <1>1, <2>1 DEF ServerInv, RemovedGone
  <2> QED
    BY <1>1, <2>1, <2>2, <2>3 DEF IInv, ThreadInv, Steps
<1>3. ASSUME End
      PROVE  IInv'
  <2>1. /\ UNCHANGED <<nodes, numbered, config, tool>> /\ up' = FALSE /\ step' = "none"
        /\ listed' = {} /\ left' = {} /\ target' = {} /\ removed' = {} /\ kept' = {}
    BY <1>3 DEF End, Return
  <2>2. Close({"cleanup", "auto"}) /\ {"cleanup", "auto"} \in SUBSET Connections
    BY <1>3 DEF End, Connections
  <2>3. ServerInv'
    BY <1>1, <2>1, <2>2, CloseKeeps
  <2>4. ThreadInv'
    BY <1>1, <2>1 DEF ThreadInv, Lists, Steps
  <2> QED
    BY <2>1, <2>3, <2>4 DEF IInv, RemovedGone
<1> QED
  BY <1>2, <1>3

\* remove_bridge_nodes: every node of the list is in exactly one of its places.
LEMMA CleanupKeeps ==
  ASSUME IInv,
         \/ \E fails \in BOOLEAN : BeginCleanup(fails)
         \/ ReadList \/ FailList \/ (\E n \in left : AskRemove(n))
         \/ ReadRemoval \/ FailRemoval \/ EndCleanup
  PROVE  IInv'
<1>1. ServerInv /\ ThreadInv /\ RemovedGone
  BY DEF IInv
<1>2. "cleanup" \in Connections /\ {"cleanup"} \in SUBSET Connections
  BY DEF Connections
<1>3. ASSUME NEW fails \in BOOLEAN, BeginCleanup(fails)
      PROVE  IInv'
  <2>1. /\ UNCHANGED <<nodes, numbered, answers, up, config, listed, left, target, removed, kept, tool>>
        /\ step = "cleanup" /\ step' \in {"settle", "listing"}
    BY <1>3 DEF BeginCleanup, cleanupVars
  <2>2. ThreadInv' /\ RemovedGone'
    BY <1>1, <2>1 DEF ThreadInv, RemovedGone, Steps
  <2>3. CASE fails
    <3>1. UNCHANGED <<asked, open>>
      BY <1>3, <2>3 DEF BeginCleanup
    <3> QED
      BY <1>1, <2>1, <2>2, <3>1 DEF IInv, ServerInv
  <2>4. CASE ~fails
    <3> DEFINE r == GetNodes("cleanup")
    <3>1. Ask("cleanup", r)
      BY <1>3, <2>4 DEF BeginCleanup
    <3>2. r \in Requests /\ r.node = 0
      BY ConfigAssumption DEF GetNodes, Request, Requests, Connections, Asks, Codes
    <3>3. 0 \notin Foreign
      BY ConfigAssumption
    <3> HIDE DEF r
    <3>4. ServerInv'
      BY <1>1, <1>2, <2>1, <3>1, <3>2, <3>3, AskKeeps
    <3> QED
      BY <2>2, <3>4 DEF IInv
  <2> QED
    BY <2>3, <2>4
<1>4. ASSUME ReadList
      PROVE  IInv'
  <2>1. PICK a \in answers :
          /\ step = "listing" /\ step' = "choosing"
          /\ answers' = answers \ {a}
          /\ listed' = a.nodes /\ left' = BridgeNodes(a.nodes)
          /\ UNCHANGED <<nodes, numbered, asked, open, up, config, target, removed, kept, tool>>
    BY <1>4 DEF ReadList
  <2>2. /\ a.nodes \in Lists
        /\ BridgeNodes(a.nodes) = {n \in NodeIds : <<n, "own">> \in a.nodes}
        /\ BridgeNodes(a.nodes) \subseteq NodeIds /\ BridgeNodes(a.nodes) \cap Foreign = {}
    BY <1>1 DEF ServerInv, Answers, BridgeNodes, Lists
  <2>3. ServerInv' /\ RemovedGone'
    BY <1>1, <2>1 DEF ServerInv, RemovedGone
  <2>4. ThreadInv'
    BY <1>1, <2>1, <2>2 DEF ThreadInv, Steps
  <2> QED
    BY <2>3, <2>4 DEF IInv
<1>5. ASSUME FailList
      PROVE  IInv'
  <2>1. /\ UNCHANGED <<nodes, numbered, up, config, listed, left, target, removed, kept, tool>>
        /\ step = "listing" /\ step' = "settle" /\ Close({"cleanup"})
    BY <1>5 DEF FailList, cleanupVars
  <2>2. ServerInv'
    BY <1>1, <1>2, <2>1, CloseKeeps
  <2>3. ThreadInv' /\ RemovedGone'
    BY <1>1, <2>1 DEF ThreadInv, RemovedGone, Steps
  <2> QED
    BY <2>2, <2>3 DEF IInv
<1>6. ASSUME NEW n \in left, AskRemove(n)
      PROVE  IInv'
  <2>1. /\ UNCHANGED <<nodes, numbered, answers, up, config, listed, removed, tool>>
        /\ step = "choosing" /\ left' = left \ {n}
    BY <1>6 DEF AskRemove
  <2>2. n \in NodeIds /\ n \notin Foreign /\ target = {}
    BY <1>1, <2>1 DEF ThreadInv
  <2>3. CASE "cleanup" \in open
    <3> DEFINE r == RemoveNode("cleanup", n)
    <3>1. Ask("cleanup", r) /\ step' = "removing" /\ target' = {n} /\ kept' = kept
      BY <1>6, <2>3 DEF AskRemove
    <3>2. r \in Requests /\ r.node = n
      BY <2>2, ConfigAssumption
         DEF RemoveNode, Request, Requests, Connections, Asks, Codes, NodeIds
    <3> HIDE DEF r
    <3>3. ServerInv'
      BY <1>1, <1>2, <2>1, <2>2, <3>1, <3>2, AskKeeps
    <3>4. ThreadInv'
      BY <1>1, <2>1, <2>2, <3>1 DEF ThreadInv, Steps
    <3> QED
      BY <1>1, <2>1, <3>3, <3>4 DEF IInv, RemovedGone
  <2>4. CASE "cleanup" \notin open
    <3>1. kept' = kept \cup {n} /\ UNCHANGED <<asked, open, step, target>>
      BY <1>6, <2>4 DEF AskRemove
    <3>2. ServerInv' /\ RemovedGone'
      BY <1>1, <2>1, <3>1 DEF ServerInv, RemovedGone
    <3>3. ThreadInv'
      BY <1>1, <2>1, <2>2, <3>1 DEF ThreadInv, Steps
    <3> QED
      BY <3>2, <3>3 DEF IInv
  <2> QED
    BY <2>3, <2>4
<1>7. ASSUME ReadRemoval
      PROVE  IInv'
  <2>1. PICK a \in answers :
          /\ step = "removing" /\ step' = "choosing" /\ target' = {}
          /\ AnswersRemoval(a)
          /\ answers' = answers \ {a}
          /\ IF a.ok THEN removed' = removed \cup target /\ UNCHANGED kept
                     ELSE kept' = kept \cup target /\ UNCHANGED removed
          /\ UNCHANGED <<nodes, numbered, asked, open, up, config, listed, left, tool>>
    BY <1>7 DEF ReadRemoval
  <2>2. PICK n \in target : a.to = RemoveNode("cleanup", n)
    BY <2>1 DEF AnswersRemoval
  <2>3. a.to.ask = "remove_node" /\ a.to.node = n
    BY <2>2 DEF RemoveNode, Request
  <2>4. target = {n}
    BY <1>1, <2>2 DEF ThreadInv
  <2>5. a.ok => n \in (1..numbered) \ nodes
    BY <1>1, <2>3 DEF ServerInv
  <2>6. ServerInv' /\ RemovedGone'
    <3>1. ServerInv'
      BY <1>1, <2>1 DEF ServerInv
    <3>2. removed' \subseteq (1..numbered) \ nodes
      BY <1>1, <2>1, <2>4, <2>5 DEF RemovedGone
    <3> QED
      BY <2>1, <3>1, <3>2 DEF RemovedGone
  <2>7. ThreadInv'
    BY <1>1, <2>1 DEF ThreadInv, Steps
  <2> QED
    BY <2>6, <2>7 DEF IInv
<1>8. ASSUME FailRemoval
      PROVE  IInv'
  <2>1. /\ UNCHANGED <<nodes, numbered, asked, answers, open, up, config, listed, left, removed, tool>>
        /\ step = "removing" /\ step' = "choosing" /\ target' = {} /\ kept' = kept \cup target
    BY <1>8 DEF FailRemoval, serverVars
  <2>2. ServerInv' /\ RemovedGone'
    BY <1>1, <2>1 DEF ServerInv, RemovedGone
  <2>3. ThreadInv'
    BY <1>1, <2>1 DEF ThreadInv, Steps
  <2> QED
    BY <2>2, <2>3 DEF IInv
<1>9. ASSUME EndCleanup
      PROVE  IInv'
  <2>1. /\ UNCHANGED <<nodes, numbered, up, config, tool>> /\ step = "choosing" /\ step' = "settle"
        /\ listed' = {} /\ left' = {} /\ target' = {} /\ removed' = {} /\ kept' = {}
        /\ Close({"cleanup"})
    BY <1>9 DEF EndCleanup, Return
  <2>2. ServerInv'
    BY <1>1, <1>2, <2>1, CloseKeeps
  <2>3. ThreadInv'
    BY <1>1, <2>1 DEF ThreadInv, Lists, Steps
  <2> QED
    BY <2>1, <2>2, <2>3 DEF IInv, RemovedGone
<1> QED
  BY <1>3, <1>4, <1>5, <1>6, <1>7, <1>8, <1>9

\* auto_commission and dev-commission: the cleanup has no locals, or is not concerned.
LEMMA CommissionKeeps ==
  ASSUME IInv,
         \/ \E fails \in BOOLEAN : AskCommission(fails)
         \/ ReadCommissioned \/ CommissionTimeout \/ Tool
  PROVE  IInv'
<1>1. ServerInv /\ ThreadInv /\ RemovedGone
  BY DEF IInv
<1>2. {"auto", "tool"} \subseteq Connections /\ {"auto"} \in SUBSET Connections
      /\ {"tool"} \in SUBSET Connections
  BY DEF Connections
<1>3. ASSUME NEW c \in {"auto", "tool"}, NEW p \in Configs
      PROVE  CommissionWithCode(c, CodeOf(p)) \in Requests /\ CommissionWithCode(c, CodeOf(p)).conn = c
  <2>1. CodeOf(p) \in Codes
    BY DEF Codes
  <2> QED
    BY <2>1, ConfigAssumption DEF CommissionWithCode, Request, Requests, Connections, Asks
<1>4. ASSUME NEW fails \in BOOLEAN, AskCommission(fails)
      PROVE  IInv'
  <2>1. /\ UNCHANGED <<nodes, numbered, answers, up, config, listed, left, target, removed, kept, tool>>
        /\ step = "settle" /\ step' \in {"manual", "commissioning"}
    BY <1>4 DEF AskCommission, cleanupVars
  <2>2. ThreadInv' /\ RemovedGone'
    BY <1>1, <2>1 DEF ThreadInv, RemovedGone, Steps
  <2>3. CASE fails
    <3>1. UNCHANGED <<asked, open>>
      BY <1>4, <2>3 DEF AskCommission
    <3> QED
      BY <1>1, <2>1, <2>2, <3>1 DEF IInv, ServerInv
  <2>4. CASE ~fails
    <3> DEFINE r == CommissionWithCode("auto", CodeOf(config))
    <3>1. Ask("auto", r)
      BY <1>4, <2>4 DEF AskCommission
    <3>2. r \in Requests /\ r.conn = "auto"
      BY <1>1, <1>3 DEF ThreadInv
    <3> HIDE DEF r
    <3>3. ServerInv'
      BY <1>1, <1>2, <2>1, <3>1, <3>2, AskKeeps
    <3> QED
      BY <2>2, <3>3 DEF IInv
  <2> QED
    BY <2>3, <2>4
<1>5. ASSUME ReadCommissioned \/ CommissionTimeout
      PROVE  IInv'
  <2>1. /\ UNCHANGED <<nodes, numbered, up, config, listed, left, target, removed, kept, tool>>
        /\ step = "commissioning" /\ step' \in {"done", "manual"} /\ Close({"auto"})
    BY <1>5 DEF ReadCommissioned, CommissionTimeout, cleanupVars
  <2>2. ServerInv'
    BY <1>1, <1>2, <2>1, CloseKeeps
  <2>3. ThreadInv' /\ RemovedGone'
    BY <1>1, <2>1 DEF ThreadInv, RemovedGone, Steps
  <2> QED
    BY <2>2, <2>3 DEF IInv
<1>6. ASSUME NEW command \in {"commission", "remove"}, NEW r \in Requests, r.conn = "tool",
             RunTool(command, r)
      PROVE  IInv'
  <2>1. /\ UNCHANGED <<nodes, numbered, answers, up, config, step, listed, left, target, removed, kept>>
        /\ tool' = command /\ Ask("tool", r)
    BY <1>6 DEF RunTool, processVars, cleanupVars
  <2>2. ServerInv'
    BY <1>1, <1>2, <1>6, <2>1, AskKeeps
  <2>3. ThreadInv' /\ RemovedGone'
    BY <1>1, <2>1 DEF ThreadInv, RemovedGone
  <2> QED
    BY <2>2, <2>3 DEF IInv
<1>7. ASSUME ToolReads \/ ToolTimeout
      PROVE  IInv'
  <2>1. /\ UNCHANGED <<nodes, numbered, up, config, step, listed, left, target, removed, kept>>
        /\ tool' = "off" /\ Close({"tool"})
    BY <1>7 DEF ToolReads, ToolTimeout, processVars, cleanupVars
  <2>2. ServerInv'
    BY <1>1, <1>2, <2>1, CloseKeeps
  <2>3. ThreadInv' /\ RemovedGone'
    BY <1>1, <2>1 DEF ThreadInv, RemovedGone
  <2> QED
    BY <2>2, <2>3 DEF IInv
<1>8. ASSUME Tool
      PROVE  IInv'
  <2>1. ASSUME RunTool("commission", CommissionWithCode("tool", CodeOf(DeviceConfig)))
        PROVE  IInv'
    BY <1>3, <1>6, <2>1, ConfigAssumption
  <2>2. ASSUME NEW n \in NodeIds, RunTool("remove", RemoveNode("tool", n))
        PROVE  IInv'
    <3>1. RemoveNode("tool", n) \in Requests /\ RemoveNode("tool", n).conn = "tool"
      BY ConfigAssumption DEF RemoveNode, Request, Requests, Connections, Asks, Codes, NodeIds
    <3> QED
      BY <1>6, <2>2, <3>1
  <2> QED
    BY <1>7, <1>8, <2>1, <2>2 DEF Tool
<1> QED
  BY <1>4, <1>5, <1>8

-----------------------------------------------------------------------------
(* The invariant, and what follows.                                          *)

\* The invariant holds at the start and after every step.
THEOREM Invariance == Spec => []IInv
<1>1. Init => IInv
  <2> SUFFICES ASSUME Init PROVE IInv
    OBVIOUS
  <2>1. /\ nodes = 1..FirstNodes /\ numbered = FirstNodes
        /\ asked = {} /\ answers = {} /\ open = {} /\ removed = {}
    BY DEF Init
  <2>2. ServerInv /\ RemovedGone
    BY <2>1, ConfigAssumption DEF ServerInv, RemovedGone
  <2>3. ThreadInv
    BY ConfigAssumption DEF Init, ThreadInv, Lists, Steps
  <2> QED
    BY <2>2, <2>3 DEF IInv
<1>2. IInv /\ [Next]_vars => IInv'
  <2> SUFFICES ASSUME IInv, [Next]_vars PROVE IInv'
    OBVIOUS
  <2>1. CASE Next
    BY <2>1, ControllerKeeps, ProcessKeeps, CleanupKeeps, CommissionKeeps DEF Next, Thread, Waiting
  <2>2. CASE UNCHANGED vars
    BY <2>2 DEF vars, serverVars, processVars, cleanupVars, IInv, ServerInv, ThreadInv, RemovedGone
  <2> QED
    BY <2>1, <2>2
<1> QED
  BY <1>1, <1>2, PTL DEF Spec

\* The controller, the thread and dev-commission stay within their types, for any
\* configurations, nodes and number of requests still being served.
THEOREM TypeCorrect == Spec => []TypeInvariant
<1>1. IInv => TypeInvariant
  <2> SUFFICES ASSUME IInv PROVE TypeInvariant
    OBVIOUS
  <2>1. nodes \subseteq NodeIds
    BY ConfigAssumption DEF IInv, ServerInv, NodeIds
  <2>2. \A r \in asked : /\ r.conn \in Connections \cup {"gone"}
                        /\ r.ask \in {"get_nodes", "remove_node", "commission_with_code"}
                        /\ r.node \in 0..MaxNodes
    BY DEF IInv, ServerInv, Requests, Asks
  <2> QED
    BY <2>1, <2>2 DEF IInv, ServerInv, ThreadInv, Lists, TypeInvariant, Steps
<1> QED
  BY <1>1, Invariance, PTL

\* What remove_bridge_nodes counts as removed is gone from the controller, it asks
\* for no node of another vendor, and it accounts for every node of the list whose
\* entry tells the bridge's vendor, and for no other, however the controller
\* answers and whoever else uses it.
THEOREM CleanupCorrect == Spec => []CleanupExact
<1>1. IInv => CleanupExact
  BY DEF IInv, ServerInv, ThreadInv, RemovedGone, CleanupExact
<1> QED
  BY <1>1, Invariance, PTL

-----------------------------------------------------------------------------
(* The codes that are told.                                                  *)

\* Closing connections leaves nothing asked over them.
LEMMA CloseKeepsCodes ==
  ASSUME ServerInv, CodesSent, NEW cs \in SUBSET Connections, Close(cs), config' = config,
         "auto" \in cs \/ up' = up
  PROVE  CodesSent'
<1> DEFINE closed == {r \in asked : r.conn \in cs \cup {"gone"} /\ r.ask # "get_nodes"}
           gone(still) == {[r EXCEPT !.conn = "gone"] : r \in still}
<1>1. PICK still \in SUBSET closed : asked' = {r \in asked : r.conn \in open'} \cup gone(still)
  BY DEF Close
<1>2. open' = open \ cs
  BY DEF Close
<1>3. \A r \in gone(still) : r.conn = "gone"
  <2> SUFFICES ASSUME NEW r \in still
               PROVE  [r EXCEPT !.conn = "gone"].conn = "gone"
    OBVIOUS
  <2>1. r \in Requests
    BY DEF ServerInv
  <2> QED
    BY <2>1 DEF Requests
<1> HIDE DEF gone, closed
<1>4. \A r \in asked' : r.conn = "auto" => r \in asked /\ "auto" \in open'
  BY <1>1, <1>3
<1> QED
  BY <1>2, <1>4 DEF CodesSent

\* Nothing new is asked.
LEMMA NothingAskedKeepsCodes ==
  ASSUME CodesSent, asked' \subseteq asked, open' = open, config' = config, up' = up
  PROVE  CodesSent'
BY DEF CodesSent

\* What is asked over the thread's connection is its configuration's code.
LEMMA AskKeepsCodes ==
  ASSUME CodesSent, NEW c, NEW r, r.conn = c, Ask(c, r), config' = config, up' = up,
         c = "auto" => up /\ r.code = CodeOf(config)
  PROVE  CodesSent'
<1>1. asked' = asked \cup {r} /\ open' = open \cup {c}
  BY DEF Ask
<1> QED
  BY <1>1 DEF CodesSent

\* No step asks for another code over the thread's connection, and no step leaves
\* that connection to a later start.
LEMMA CodesKeep ==
  ASSUME IInv, CodesSent, [Next]_vars
  PROVE  CodesSent'
<1>1. ServerInv /\ ThreadInv
  BY DEF IInv
<1>2. \A c \in Connections : {c} \in SUBSET Connections
  OBVIOUS
<1>3. {"cleanup", "auto", "tool"} = Connections /\ {"cleanup", "auto"} \in SUBSET Connections
  BY DEF Connections
<1>4. ASSUME NEW c \in Configs, NEW commissioned \in BOOLEAN, NEW serverUrl \in BOOLEAN,
             NEW reset \in BOOLEAN, Boot(c, commissioned, serverUrl, reset)
      PROVE  CodesSent'
  <2>1. ~up /\ asked' = asked /\ open' = open
    BY <1>4 DEF Boot, serverVars
  <2> QED
    BY <2>1 DEF CodesSent
<1>5. ASSUME End
      PROVE  CodesSent'
  <2>1. Close({"cleanup", "auto"}) /\ config' = config
    BY <1>5 DEF End
  <2> QED
    BY <1>1, <1>3, <2>1, CloseKeepsCodes
<1>6. ASSUME Controller
      PROVE  CodesSent'
  <2>1. config' = config /\ up' = up
    BY <1>6 DEF Controller, processVars
  <2>2. ASSUME NEW r \in asked, NEW ok \in BOOLEAN,
               \/ ServeRemove(r, ok)
               \/ \E tells \in SUBSET (nodes \ Foreign) : ServeList(r, ok, tells)
        PROVE  asked' \subseteq asked /\ open' = open
    BY <2>2 DEF ServeList, ServeRemove, Answer
  <2>3. ASSUME NEW r \in asked, ServeCommission(r) \/ RefuseCommission(r)
        PROVE  asked' \subseteq asked /\ open' = open
    BY <2>3 DEF ServeCommission, RefuseCommission, Answer
  <2>4. ASSUME NEW c \in open, DropConnection(c)
        PROVE  CodesSent'
    <3>1. Close({c}) /\ c \in Connections
      BY <1>1, <2>4 DEF DropConnection, ServerInv
    <3> QED
      BY <1>1, <1>2, <2>1, <3>1, CloseKeepsCodes
  <2> QED
    BY <1>6, <2>1, <2>2, <2>3, <2>4, NothingAskedKeepsCodes DEF Controller
<1>7. ASSUME NEW fails \in BOOLEAN, BeginCleanup(fails)
      PROVE  CodesSent'
  <2>1. config' = config /\ up' = up
    BY <1>7 DEF BeginCleanup
  <2>2. CASE fails
    <3>1. asked' = asked /\ open' = open
      BY <1>7, <2>2 DEF BeginCleanup
    <3> QED
      BY <2>1, <3>1, NothingAskedKeepsCodes
  <2>3. CASE ~fails
    <3>1. PICK c, r : c = "cleanup" /\ r = GetNodes("cleanup")
      OBVIOUS
    <3>2. Ask(c, r) /\ r.conn = c /\ c # "auto"
      BY <1>7, <2>3, <3>1 DEF BeginCleanup, GetNodes, Request
    <3> QED
      BY <2>1, <3>2, AskKeepsCodes
  <2> QED
    BY <2>2, <2>3
<1>8. ASSUME ReadList \/ ReadRemoval \/ FailRemoval
      PROVE  CodesSent'
  <2>1. asked' = asked /\ open' = open /\ config' = config /\ up' = up
    BY <1>8 DEF ReadList, ReadRemoval, FailRemoval, serverVars
  <2> QED
    BY <2>1, NothingAskedKeepsCodes
<1>9. ASSUME FailList \/ EndCleanup
      PROVE  CodesSent'
  <2>1. Close({"cleanup"}) /\ config' = config /\ up' = up
    BY <1>9 DEF FailList, EndCleanup
  <2> QED
    BY <1>1, <1>2, <1>3, <2>1, CloseKeepsCodes
<1>10. ASSUME NEW n \in left, AskRemove(n)
       PROVE  CodesSent'
  <2>1. config' = config /\ up' = up
    BY <1>10 DEF AskRemove
  <2>2. CASE "cleanup" \in open
    <3>1. PICK c, r : c = "cleanup" /\ r = RemoveNode("cleanup", n)
      OBVIOUS
    <3>2. Ask(c, r) /\ r.conn = c /\ c # "auto"
      BY <1>10, <2>2, <3>1 DEF AskRemove, RemoveNode, Request
    <3> QED
      BY <2>1, <3>2, AskKeepsCodes
  <2>3. CASE "cleanup" \notin open
    <3>1. asked' = asked /\ open' = open
      BY <1>10, <2>3 DEF AskRemove
    <3> QED
      BY <2>1, <3>1, NothingAskedKeepsCodes
  <2> QED
    BY <2>2, <2>3
<1>11. ASSUME NEW fails \in BOOLEAN, AskCommission(fails)
       PROVE  CodesSent'
  <2>1. config' = config /\ up' = up /\ step = "settle"
    BY <1>11 DEF AskCommission
  <2>2. CASE fails
    <3>1. asked' = asked /\ open' = open
      BY <1>11, <2>2 DEF AskCommission
    <3> QED
      BY <2>1, <3>1, NothingAskedKeepsCodes
  <2>3. CASE ~fails
    <3>1. PICK c, r : c = "auto" /\ r = CommissionWithCode("auto", CodeOf(config))
      OBVIOUS
    <3>2. Ask(c, r)
      BY <1>11, <2>3, <3>1 DEF AskCommission
    <3>3. r.conn = c /\ r.code = CodeOf(config)
      BY <3>1 DEF CommissionWithCode, Request
    <3>4. up
      BY <1>1, <2>1 DEF ThreadInv
    <3> QED
      BY <2>1, <3>2, <3>3, <3>4, AskKeepsCodes
  <2> QED
    BY <2>2, <2>3
<1>12. ASSUME ReadCommissioned \/ CommissionTimeout
       PROVE  CodesSent'
  <2>1. Close({"auto"}) /\ config' = config
    BY <1>12 DEF ReadCommissioned, CommissionTimeout
  <2> QED
    BY <1>1, <1>2, <1>3, <2>1, CloseKeepsCodes
<1>13. ASSUME Tool
       PROVE  CodesSent'
  <2>1. ASSUME NEW command, NEW r, r.conn = "tool", RunTool(command, r)
        PROVE  CodesSent'
    <3>1. PICK c : c = "tool"
      OBVIOUS
    <3>2. config' = config /\ up' = up /\ Ask(c, r) /\ r.conn = c /\ c # "auto"
      BY <2>1, <3>1 DEF RunTool, processVars
    <3> QED
      BY <3>2, AskKeepsCodes
  <2>2. ASSUME ToolReads \/ ToolTimeout
        PROVE  CodesSent'
    <3>1. Close({"tool"}) /\ config' = config /\ up' = up
      BY <2>2 DEF ToolReads, ToolTimeout, processVars
    <3> QED
      BY <1>1, <1>2, <1>3, <3>1, CloseKeepsCodes
  <2>3. CommissionWithCode("tool", CodeOf(DeviceConfig)).conn = "tool"
    BY DEF CommissionWithCode, Request
  <2>4. \A n : RemoveNode("tool", n).conn = "tool"
    BY DEF RemoveNode, Request
  <2> QED
    BY <1>13, <2>1, <2>2, <2>3, <2>4 DEF Tool
<1>14. ASSUME UNCHANGED vars
       PROVE  CodesSent'
  BY <1>14 DEF vars, serverVars, processVars, CodesSent
<1>15. ASSUME Thread
       PROVE  CodesSent'
  BY <1>7, <1>8, <1>9, <1>10, <1>11, <1>12, <1>15 DEF Thread, Waiting
<1> QED
  BY <1>4, <1>5, <1>6, <1>13, <1>14, <1>15 DEF Next

\* Every pair that fits the fields is told by its code.
LEMMA CodesTell ==
  ASSUME NEW pair \in Pairs
  PROVE  TellsPair(CodeOf(pair), pair)
<1>1. pair.discriminator \in 0..MaxDiscriminator /\ pair.passcode \in 0..MaxPasscode
  BY ConfigAssumption
<1>2. PICK discriminator, passcode, code :
        /\ discriminator = pair.discriminator /\ passcode = pair.passcode
        /\ code = PairingCodeOf(discriminator, passcode)
  OBVIOUS
<1>3. code \in Seq(Digit) /\ ValidCode(code)
      /\ ReadCode(code) = [upper |-> discriminator \div 256, passcode |-> passcode]
  BY <1>1, <1>2, PairReadBack
<1>4. \A wrong \in Mistaken(code) \ {code} : ~ValidCode(wrong)
  BY <1>3, MistakeShows
<1>5. code = CodeOf(pair)
  BY <1>2 DEF CodeOf
<1> QED
  BY <1>2, <1>3, <1>4, <1>5 DEF TellsPair

\* Whoever is given a code by the bridge reads the configured pair from it, and any
\* digit mistaken or two neighbours swapped shows: generate_pairing_code and
\* verhoeff_checksum, for every pair that fits the fields; and no code but that of
\* the running process's pair is sent or shown.
THEOREM CodeCorrect == Spec => []CodeTellsDevice
<1>1. Init => CodesSent
  BY DEF Init, CodesSent
<1>2. IInv /\ CodesSent /\ [Next]_vars => CodesSent'
  BY CodesKeep
<1>3. CodesSent => CodeTellsDevice
  <2>1. TellingPairs = Pairs
    BY CodesTell DEF TellingPairs
  <2> QED
    BY <2>1 DEF CodesSent, CodeTellsDevice, CodesTold
<1> QED
  BY <1>1, <1>2, <1>3, Invariance, PTL DEF Spec
=============================================================================
