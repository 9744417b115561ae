--------------------------- MODULE TextScanProofs ---------------------------
(***************************************************************************)
(* What holds of every text and every scan of one: a search finds the      *)
(* first of the places searched for, a loop that goes on to a place        *)
(* further on ends, and what was put together is cut apart again.  The     *)
(* lemmas of the scanners and of the URL rest on these.                    *)
(***************************************************************************)
EXTENDS TextScan, WellFoundedInduction, SequenceTheorems, TLAPS

(* Every set of numbers that has one has a least.                          *)
LEMMA Least ==
  ASSUME NEW S, S \subseteq Nat, S # {}
  PROVE  \E m \in S : \A k \in S : m <= k
<1> DEFINE R == {ss \in Nat \X Nat : ss[1] < ss[2]}
<1>1. IsWellFoundedOn(R, Nat)
  BY NatLessThanWellFounded DEF OpToRel
<1>2. \E m \in S : \A k \in S : ~(<<k, m>> \in R)
  <2> HIDE DEF R
  <2> QED BY <1>1, WFMin
<1>3. PICK m \in S : \A k \in S : ~(<<k, m>> \in R)
  BY <1>2
<1>4. \A k \in S : ~(k < m)
  BY <1>3
<1> QED BY <1>4

(* What holds of 0 and is passed on by each number below n holds up to n.  *)
LEMMA Induct ==
  ASSUME NEW n \in Nat, NEW S, 0 \in S, \A k \in 0 .. n - 1 : k \in S => k + 1 \in S
  PROVE  \A k \in 0 .. n : k \in S
<1> DEFINE T == {k \in 0 .. n : k \notin S}
<1> SUFFICES ASSUME T # {} PROVE FALSE
  OBVIOUS
<1>1. T \subseteq Nat
  OBVIOUS
<1>2. PICK m \in T : \A k \in T : m <= k
  <2> HIDE DEF T
  <2> QED BY <1>1, Least
<1>3. m # 0 /\ m - 1 \in 0 .. n - 1 /\ m - 1 \notin T
  BY <1>2
<1> QED BY <1>2, <1>3

----------------------------------------------------------------------------
(* A scan: from a place in D it goes on at the place N says, which is      *)
(* further on; at any other its value is that of K.                        *)
Scans(F, D, N, K) == F = [j \in Nat |-> IF j \in D THEN F[N[j]] ELSE K[j]]

Onward(D, N, n) ==
  /\ n \in Nat /\ D \subseteq 0 .. n
  /\ \A j \in D : N[j] \in Nat /\ N[j] > j

(* A scan that goes on at finitely many places only is a function.         *)
LEMMA ScanExists ==
  ASSUME NEW D, NEW N, NEW K, NEW n, Onward(D, N, n)
  PROVE  \E F : Scans(F, D, N, K)
<1> DEFINE Value(F, j) == IF j \in D THEN F[N[j]] ELSE K[j]
           Good(F, d) == /\ F = [j \in Nat |-> F[j]]
                         /\ \A j \in Nat : j > n - d => F[j] = Value(F, j)
           S == {d \in 0 .. n + 1 : \E F : Good(F, d)}
<1>n. n \in Nat /\ D \subseteq 0 .. n /\ \A j \in D : N[j] \in Nat /\ N[j] > j
  BY DEF Onward
<1>1. 0 \in S
  <2> DEFINE F == [j \in Nat |-> K[j]]
  <2>1. F = [j \in Nat |-> F[j]]
    OBVIOUS
  <2>2. \A j \in Nat : j > n - 0 => F[j] = Value(F, j)
    BY <1>n
  <2>3. Good(F, 0)
    BY <2>1, <2>2
  <2> HIDE DEF Good, F
  <2> QED BY <2>3, <1>n
<1>2. ASSUME NEW d \in 0 .. n, d \in S PROVE d + 1 \in S
  <2>1. PICK F : Good(F, d)
    BY <1>2
  <2> DEFINE G == [j \in Nat |-> IF j = n - d THEN Value(F, j) ELSE F[j]]
  <2>2. G = [j \in Nat |-> G[j]]
    OBVIOUS
  <2>3. ASSUME NEW j \in Nat, j > n - (d + 1) PROVE G[j] = Value(G, j)
    <3>1. j \in D => G[N[j]] = F[N[j]]
      BY <1>n, <2>3
    <3>2. Value(G, j) = Value(F, j)
      BY <3>1
    <3>3. CASE j = n - d
      BY <3>2, <3>3
    <3>4. CASE j # n - d
      <4>1. j > n - d
        BY <1>n, <2>3, <3>4
      <4>2. F[j] = Value(F, j)
        BY <2>1, <4>1
      <4>3. G[j] = F[j]
        BY <3>4
      <4> HIDE DEF Value, G
      <4> QED BY <3>2, <4>2, <4>3
    <3> QED BY <3>3, <3>4
  <2>4. Good(G, d + 1)
    <3> HIDE DEF G, Value
    <3> QED BY <2>2, <2>3
  <2> HIDE DEF Good, G
  <2> QED BY <2>4, <1>n
<1>3. \A d \in 0 .. n + 1 : d \in S
  <2> DEFINE m == n + 1
  <2> HIDE DEF S
  <2>1. m \in Nat /\ \A d \in 0 .. m - 1 : d \in S => d + 1 \in S
    BY <1>2, <1>n
  <2> HIDE DEF m
  <2>2. \A d \in 0 .. m : d \in S
    BY <1>1, <2>1, Induct
  <2> QED BY <2>2 DEF m
<1>4. PICK F : Good(F, n + 1)
  BY <1>3, <1>n
<1>5. \A j \in Nat : F[j] = Value(F, j)
  BY <1>4, <1>n
<1>6. F = [j \in Nat |-> F[j]]
  BY <1>4
<1>7. F = [j \in Nat |-> Value(F, j)]
  <2> HIDE DEF Value
  <2> QED BY <1>5, <1>6
<1>8. Scans(F, D, N, K)
  BY <1>7 DEF Scans
<1> QED BY <1>8

(* It ends at a place where it does not go on, no earlier than it began.   *)
LEMMA ScanStops ==
  ASSUME NEW D, NEW N, NEW K, NEW n, Onward(D, N, n), NEW F, Scans(F, D, N, K), NEW i \in Nat
  PROVE  \E m \in Nat : m >= i /\ m \notin D /\ F[i] = K[m]
<1> DEFINE End(j) == \E m \in Nat : m >= j /\ m \notin D /\ F[j] = K[m]
           T == {j \in Nat : ~End(j)}
           S == {d \in Nat : n - d \in T}
<1>n. n \in Nat /\ D \subseteq 0 .. n /\ \A j \in D : N[j] \in Nat /\ N[j] > j
  BY DEF Onward
<1>f. ASSUME NEW j \in Nat
      PROVE  F[j] = IF j \in D THEN F[N[j]] ELSE K[j]
  <2>1. F[j] = [k \in Nat |-> IF k \in D THEN F[N[k]] ELSE K[k]][j]
    BY Zenon DEF Scans
  <2> QED BY <2>1, Zenon
<1>1. ASSUME NEW j \in T PROVE j \in D /\ j \in 0 .. n /\ N[j] \in T /\ N[j] > j
  <2>1. j \in D
    BY <1>f
  <2>2. N[j] \in Nat /\ N[j] > j /\ F[j] = F[N[j]] /\ j \in 0 .. n
    BY <2>1, <1>n, <1>f
  <2>3. ASSUME End(N[j]) PROVE FALSE
    <3>1. PICK m \in Nat : m >= N[j] /\ m \notin D /\ F[N[j]] = K[m]
      BY <2>3
    <3>2. m >= j /\ F[j] = K[m]
      BY <3>1, <2>2
    <3>3. End(j)
      BY <3>1, <3>2
    <3> QED BY <3>3
  <2> HIDE DEF End
  <2> QED BY <2>1, <2>2, <2>3
<1> HIDE DEF End
<1>2. ASSUME NEW j \in T PROVE FALSE
  <2>1. n - j \in S /\ S \subseteq Nat
    BY <1>1, <1>n
  <2>2. PICK d \in S : \A k \in S : d <= k
    <3> HIDE DEF S
    <3> QED BY <2>1, Least
  <2>3. N[n - d] \in T /\ N[n - d] > n - d
    BY <2>2, <1>1
  <2>4. N[n - d] \in 0 .. n
    BY <2>3, <1>1
  <2>5. n - N[n - d] \in S /\ n - N[n - d] < d
    BY <2>3, <2>4, <1>n, <2>2
  <2> QED BY <2>5, <2>2
<1>3. End(i)
  BY <1>2
<1> QED BY <1>3 DEF End

----------------------------------------------------------------------------
(* The scanners go on.  A text is a sequence of n symbols.                 *)
IsText(s, n) == n = Len(s) /\ n \in Nat /\ DOMAIN s = 1 .. n

(* Until finds the first of the positions, or the end.                     *)
FirstOf(u, n, i, positions) ==
  /\ u \in Nat /\ u <= n + 1
  /\ i <= n + 1 => u >= i
  /\ u <= n => u \in positions /\ u >= i

LEMMA UntilIs ==
  ASSUME NEW s, NEW n, IsText(s, n), NEW i \in Nat, NEW P, NEW u, u = Until(s, i, P)
  PROVE  FirstOf(u, n, i, P)
<1>n. n = Len(s) /\ n \in Nat
  BY DEF IsText
<1>1. CASE i > n
  BY <1>1, <1>n DEF Until, FirstOf
<1>2. CASE i <= n
  <2> DEFINE T == {j \in i .. n + 1 : j > n \/ j \in P}
             Is(j) == (j > Len(s) \/ j \in P) /\ \A k \in i .. j - 1 : k \notin P
  <2>1. T \subseteq Nat /\ n + 1 \in T
    BY <1>n, <1>2
  <2>2. PICK m \in T : \A k \in T : m <= k
    <3> HIDE DEF T
    <3> QED BY <2>1, Least
  <2>3. \A k \in i .. m - 1 : k \notin P
    <3> SUFFICES ASSUME NEW k \in i .. m - 1, k \in P PROVE FALSE
      OBVIOUS
    <3>1. k \in T /\ k < m
      BY <1>n, <1>2
    <3> QED BY <3>1, <2>2
  <2>4. m \in i .. Len(s) + 1 /\ Is(m)
    BY <2>3, <1>n
  <2>5. u = CHOOSE j \in i .. Len(s) + 1 : Is(j)
    BY <1>2, <1>n DEF Until
  <2> HIDE DEF Is
  <2>6. u \in i .. Len(s) + 1 /\ Is(u)
    BY <2>4, <2>5
  <2> QED BY <2>6, <1>n, <1>2 DEF Is, FirstOf
<1> QED BY <1>1, <1>2, <1>n

(* Behind the end and in front of the beginning there is NUL.              *)
LEMMA AtEnd ==
  ASSUME NEW s, NEW n, IsText(s, n), NEW i \in Nat
  PROVE  /\ At(s, i) # NUL => i >= 1 /\ i <= n /\ At(s, i) = s[i]
         /\ i >= 1 /\ i <= n => At(s, i) = s[i]
BY DEF At, IsText

(* A position with none of those searched for before it is the one found,  *)
(* if it is one of them or the end.                                        *)
LEMMA UntilMeets ==
  ASSUME NEW s, NEW n, IsText(s, n), NEW i \in Nat, NEW P, NEW j \in i .. n + 1,
         j = n + 1 \/ j \in P, \A k \in i .. j - 1 : k \notin P
  PROVE  Until(s, i, P) = j
<1>n. n = Len(s) /\ n \in Nat
  BY DEF IsText
<1>1. CASE i > n
  <2>1. j = n + 1
    BY <1>1, <1>n
  <2> QED BY <1>1, <1>n, <2>1 DEF Until
<1>2. CASE i <= n
  <2> DEFINE Is(m) == (m > Len(s) \/ m \in P) /\ \A k \in i .. m - 1 : k \notin P
             u == CHOOSE m \in i .. Len(s) + 1 : Is(m)
  <2>1. j \in i .. Len(s) + 1 /\ Is(j)
    BY <1>n
  <2>2. u \in i .. Len(s) + 1 /\ Is(u)
    <3> HIDE DEF Is
    <3> QED BY <2>1
  <2>3. Until(s, i, P) = u
    BY <1>2, <1>n DEF Until
  <2> HIDE DEF u
  <2>4. u = j
    BY <2>1, <2>2, <1>n
  <2> QED BY <2>3, <2>4
<1> QED BY <1>1, <1>2, <1>n

(* What it is for a text to go on with one, three or four symbols.         *)
LEMMA ReadsMarks ==
  ASSUME NEW s, NEW j \in Nat
  PROVE  /\ \A a : Reads(s, j, <<a>>) <=> At(s, j) = a
         /\ \A a, b, c : Reads(s, j, <<a, b, c>>)
              <=> At(s, j) = a /\ At(s, j + 1) = b /\ At(s, j + 2) = c
         /\ \A a, b, c, d : Reads(s, j, <<a, b, c, d>>)
              <=> At(s, j) = a /\ At(s, j + 1) = b /\ At(s, j + 2) = c /\ At(s, j + 3) = d
<1>1. ASSUME NEW a PROVE Reads(s, j, <<a>>) <=> At(s, j) = a
  <2>1. DOMAIN <<a>> = {1} /\ <<a>>[1] = a /\ j + 1 - 1 = j
    OBVIOUS
  <2> QED BY <2>1 DEF Reads
<1>2. ASSUME NEW a, NEW b, NEW c
      PROVE  Reads(s, j, <<a, b, c>>) <=> At(s, j) = a /\ At(s, j + 1) = b /\ At(s, j + 2) = c
  <2>1. /\ DOMAIN <<a, b, c>> = {1, 2, 3}
        /\ <<a, b, c>>[1] = a /\ <<a, b, c>>[2] = b /\ <<a, b, c>>[3] = c
        /\ j + 1 - 1 = j /\ j + 2 - 1 = j + 1 /\ j + 3 - 1 = j + 2
    OBVIOUS
  <2> QED BY <2>1 DEF Reads
<1>3. ASSUME NEW a, NEW b, NEW c, NEW d
      PROVE  Reads(s, j, <<a, b, c, d>>)
               <=> At(s, j) = a /\ At(s, j + 1) = b /\ At(s, j + 2) = c /\ At(s, j + 3) = d
  <2>1. /\ DOMAIN <<a, b, c, d>> = {1, 2, 3, 4}
        /\ <<a, b, c, d>>[1] = a /\ <<a, b, c, d>>[2] = b /\ <<a, b, c, d>>[3] = c /\ <<a, b, c, d>>[4] = d
        /\ j + 1 - 1 = j /\ j + 2 - 1 = j + 1 /\ j + 3 - 1 = j + 2 /\ j + 4 - 1 = j + 3
    OBVIOUS
  <2> QED BY <2>1 DEF Reads
<1> QED BY <1>1, <1>2, <1>3

(* A mark is found where it stands first.                                  *)
LEMMA MarkIs ==
  ASSUME NEW s, NEW n, IsText(s, n), NEW i \in Nat, i >= 1, NEW a, NEW j \in i .. n + 1,
         j = n + 1 \/ s[j] = a, \A k \in i .. j - 1 : s[k] # a
  PROVE  Find(s, i, <<a>>) = j
<1> DEFINE P == {k \in DOMAIN s : Reads(s, k, <<a>>)}
<1>n. n = Len(s) /\ n \in Nat /\ DOMAIN s = 1 .. n
  BY DEF IsText
<1>1. \A k \in 1 .. n : k \in P <=> s[k] = a
  <2>1. ASSUME NEW k \in 1 .. n PROVE Reads(s, k, <<a>>) <=> s[k] = a
    <3>1. k \in Nat /\ At(s, k) = s[k]
      BY <1>n DEF At
    <3> QED BY <3>1, ReadsMarks
  <2> QED BY <2>1, <1>n
<1>2. Find(s, i, <<a>>) = Until(s, i, P)
  BY DEF Find
<1> HIDE DEF P
<1>3. j = n + 1 \/ j \in P
  BY <1>1, <1>n
<1>4. \A k \in i .. j - 1 : k \notin P
  BY <1>1, <1>n
<1>5. Until(s, i, P) = j
  BY <1>3, <1>4, UntilMeets
<1> QED BY <1>2, <1>5

----------------------------------------------------------------------------
(* The m symbols of b stand in s behind the k-th.                          *)
Stands(s, k, b, m) == k \in Nat /\ m \in Nat /\ m = Len(b) /\ \A i \in 1 .. m : s[k + i] = b[i]

(* What is read at a place is what is cut out there.                       *)
LEMMA SliceIs ==
  ASSUME NEW S, NEW s, NEW b \in Seq(S), NEW k, NEW m, Stands(s, k, b, m)
  PROVE  SubSeq(s, k + 1, k + m) = b
<1>0. k \in Nat /\ m \in Nat /\ m = Len(b) /\ \A i \in 1 .. m : s[k + i] = b[i]
  BY DEF Stands
<1> DEFINE x == k + 1
           y == k + m
           t == SubSeq(s, x, y)
<1>1. \A i \in x .. y : s[i] \in S
  <2> SUFFICES ASSUME NEW i \in k + 1 .. k + m PROVE s[i] \in S
    OBVIOUS
  <2>1. i - k \in 1 .. m /\ s[k + (i - k)] = b[i - k] /\ k + (i - k) = i
    BY <1>0
  <2> DEFINE j == i - k
  <2>2. j \in 1 .. Len(b) /\ s[i] = b[j]
    BY <1>0, <2>1
  <2> HIDE DEF j
  <2>3. b[j] \in S
    BY <2>2, ElementOfSeq
  <2> QED BY <2>2, <2>3
<1>2. x \in Int /\ y \in Int
  BY <1>0
<1> HIDE DEF x, y
<1>3. /\ t \in Seq(S) /\ Len(t) = IF x <= y THEN y - x + 1 ELSE 0
      /\ \A i \in 1 .. y - x + 1 : t[i] = s[x + i - 1]
  BY <1>1, <1>2, SubSeqProperties
<1> HIDE DEF t
<1>4. Len(t) = m /\ \A i \in 1 .. m : t[i] = s[k + i]
  BY <1>0, <1>3 DEF x, y
<1>5. t = b
  BY <1>0, <1>3, <1>4, SeqEqual
<1> QED BY <1>5 DEF t, x, y

(* Two texts put together, and the parts taken from there.                 *)
Joined(S, s, a, m, b, n) ==
  /\ s \in Seq(S) /\ m \in Nat /\ n \in Nat
  /\ Len(s) = m + n
  /\ Stands(s, 0, a, m) /\ Stands(s, m, b, n)
  /\ SubSeq(s, 1, m) = a
  /\ SubSeq(s, m + 1, m + n) = b

LEMMA PartsOf ==
  ASSUME NEW S, NEW a \in Seq(S), NEW b \in Seq(S), NEW m, m = Len(a), NEW n, n = Len(b)
  PROVE  Joined(S, a \o b, a, m, b, n)
<1> DEFINE s == a \o b
<1>1. m \in Nat /\ n \in Nat
  OBVIOUS
<1>2. /\ s \in Seq(S) /\ Len(s) = m + n
      /\ \A i \in 1 .. m + n : s[i] = IF i <= m THEN a[i] ELSE b[i - m]
  BY ConcatProperties
<1> HIDE DEF s
<1>3. Stands(s, 0, a, m)
  BY <1>1, <1>2 DEF Stands
<1>4. Stands(s, m, b, n)
  <2> SUFFICES ASSUME NEW i \in 1 .. n PROVE s[m + i] = b[i]
    BY <1>1 DEF Stands
  <2>1. m + i \in 1 .. m + n /\ ~(m + i <= m) /\ (m + i) - m = i
    BY <1>1
  <2> QED BY <2>1, <1>2
<1>5. SubSeq(s, 1, m) = a
  <2>1. SubSeq(s, 0 + 1, 0 + m) = a
    BY <1>3, SliceIs
  <2>2. 0 + 1 = 1 /\ 0 + m = m
    BY <1>1
  <2> QED BY <2>1, <2>2
<1>6. SubSeq(s, m + 1, m + n) = b
  BY <1>4, SliceIs
<1>7. Joined(S, s, a, m, b, n)
  BY <1>1, <1>2, <1>3, <1>4, <1>5, <1>6 DEF Joined
<1> QED BY <1>7 DEF s
=============================================================================
