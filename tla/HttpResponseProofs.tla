------------------------- MODULE HttpResponseProofs -------------------------
(***************************************************************************)
(* Proofs about the parser of a response, for every set of responses and   *)
(* every way of cutting a stream into segments.                            *)
(*                                                                         *)
(* First what is sent: FlattenSeq, htoi and atoi by induction, the fields, *)
(* and where their lines are in the stream.  Then the parser's invariant,  *)
(* in four parts, the first two of every response, the others of one with  *)
(* a body in one piece:                                                    *)
(*   Typed      types, and less received of a body than its length         *)
(*   Positions  what has been delivered is in order and behind the header  *)
(*   Framed     the length that is known is the right one, and what was    *)
(*              delivered is a prefix of the body, unless a cut makes a    *)
(*              field of what is none or an empty line the header's end    *)
(*   Understood a header cut between its lines has been read as it was     *)
(*              sent, and the body is delivered from its beginning         *)
(* The properties of HttpResponse follow from it.                          *)
(***************************************************************************)
EXTENDS HttpResponse, SequenceTheorems, WellFoundedInduction, TLAPS

----------------------------------------------------------------------------
(* Induction up to a bound, as a fact about a set of numbers.              *)

(* Every set of numbers that has one has a least.                          *)
LEMMA Least ==
  ASSUME NEW S, S \subseteq Nat, S # {}
  PROVE  \E m \in S : \A k \in S : m <= k
<1> DEFINE R == {ss \in Nat \X Nat : ss[1] < ss[2]}
<1>1. IsWellFoundedOn(R, Nat)
  BY NatLessThanWellFounded DEF OpToRel
<1>2. \E m \in S : \A k \in S : ~(<<k, m>> \in R)
  <2> HIDE DEF R
  <2> QED BY <1>1, WFMin
<1>3. PICK m \in S : \A k \in S : ~(<<k, m>> \in R)
  BY <1>2
<1>4. \A k \in S : ~(k < m)
  BY <1>3
<1> QED BY <1>4

(* What holds of 0 and is passed on by each number below n holds up to n.  *)
LEMMA Induct ==
  ASSUME NEW n \in Nat, NEW S, 0 \in S, \A k \in 0 .. n - 1 : k \in S => k + 1 \in S
  PROVE  \A k \in 0 .. n : k \in S
<1> DEFINE T == {k \in 0 .. n : k \notin S}
<1> SUFFICES ASSUME T # {} PROVE FALSE
  OBVIOUS
<1>1. T \subseteq Nat
  OBVIOUS
<1>2. PICK m \in T : \A k \in T : m <= k
  <2> HIDE DEF T
  <2> QED BY <1>1, Least
<1>3. m # 0 /\ m - 1 \in 0 .. n - 1 /\ m - 1 \notin T
  BY <1>2
<1> QED BY <1>2, <1>3

(* F is what the recursion in FlattenSeq unfolds to.                       *)
Flattens(F, seqs, n) ==
  F = [i \in 1 .. n |-> IF i = 1 THEN seqs[i] ELSE F[i - 1] \o seqs[i]]

(* The recursion has a function, by induction over the pieces.             *)
LEMMA FlattensExists ==
  ASSUME NEW T, NEW seqs \in Seq(Seq(T)), NEW n \in 0 .. Len(seqs)
  PROVE  \E F : Flattens(F, seqs, n)
<1> DEFINE S == {k \in 0 .. n : \E F : Flattens(F, seqs, k)}
<1>1. 0 \in S
  <2> DEFINE E == [i \in 1 .. 0 |-> seqs[i]]
  <2> Flattens(E, seqs, 0)
    BY DEF Flattens
  <2> QED OBVIOUS
<1>2. ASSUME NEW k \in 0 .. n - 1, k \in S PROVE k + 1 \in S
  <2>1. PICK F : Flattens(F, seqs, k)
    BY <1>2
  <2> DEFINE last == IF k + 1 = 1 THEN seqs[1] ELSE F[k] \o seqs[k + 1]
             G == [i \in 1 .. k + 1 |-> IF i = k + 1 THEN last ELSE F[i]]
  <2>2. ASSUME NEW i \in 1 .. k + 1
        PROVE  G[i] = IF i = 1 THEN seqs[i] ELSE G[i - 1] \o seqs[i]
    <3>1. CASE i = k + 1
      BY <3>1
    <3>2. CASE i # k + 1
      <4>1. i \in 1 .. k
        BY <3>2
      <4>2. G[i] = F[i] /\ (i # 1 => G[i - 1] = F[i - 1])
        BY <4>1
      <4>3. F[i] = IF i = 1 THEN seqs[i] ELSE F[i - 1] \o seqs[i]
        BY <2>1, <4>1 DEF Flattens
      <4> QED BY <4>2, <4>3
    <3> QED BY <3>1, <3>2
  <2>3. Flattens(G, seqs, k + 1)
    BY <2>2 DEF Flattens
  <2> QED BY <2>3
<1>3. n \in S
  <2>1. n \in Nat
    OBVIOUS
  <2>2. \A k \in 0 .. n : k \in S
    <3> HIDE DEF S
    <3> QED BY <2>1, <1>1, <1>2, Induct
  <2> HIDE DEF S
  <2> QED BY <2>1, <2>2
<1> QED BY <1>3

(* Its values are sequences.                                               *)
LEMMA FlattensIs ==
  ASSUME NEW T, NEW seqs \in Seq(Seq(T)), NEW F, Flattens(F, seqs, Len(seqs))
  PROVE  F \in [1 .. Len(seqs) -> Seq(T)]
<1> DEFINE n == Len(seqs)
           S == {k \in 0 .. n : k > 0 => F[k] \in Seq(T)}
<1>n. n \in Nat
  OBVIOUS
<1>f. F = [i \in 1 .. n |-> IF i = 1 THEN seqs[i] ELSE F[i - 1] \o seqs[i]]
  BY DEF Flattens
<1>s. \A i \in 1 .. n : seqs[i] \in Seq(T)
  OBVIOUS
<1> HIDE DEF n
<1>1. 0 \in S
  BY <1>n
<1>2. ASSUME NEW k \in 0 .. n - 1, k \in S PROVE k + 1 \in S
  <2>1. k + 1 \in 1 .. n /\ k + 1 \in 0 .. n
    BY <1>n
  <2>2. F[k + 1] = IF k + 1 = 1 THEN seqs[k + 1] ELSE F[k + 1 - 1] \o seqs[k + 1]
    <3>1. F[k + 1] = [i \in 1 .. n |-> IF i = 1 THEN seqs[i] ELSE F[i - 1] \o seqs[i]][k + 1]
      BY <1>f, Zenon
    <3> QED BY <2>1, <3>1
  <2>3. CASE k = 0
    BY <2>1, <2>2, <2>3, <1>s
  <2>4. CASE k # 0
    <3>1. F[k] \in Seq(T)
      BY <1>2, <2>4
    <3>2. F[k] \o seqs[k + 1] \in Seq(T)
      BY <3>1, <1>s, <2>1, ConcatProperties
    <3>3. F[k + 1] = F[k] \o seqs[k + 1]
      <4>1. k + 1 # 1 /\ k + 1 - 1 = k
        BY <2>4, <1>n
      <4> QED BY <2>2, <4>1
    <3> QED BY <2>1, <3>2, <3>3
  <2> QED BY <2>3, <2>4
<1>3. \A k \in 0 .. n : k \in S
  <2> HIDE DEF S
  <2> QED BY <1>n, <1>1, <1>2, Induct
<1>4. \A i \in 1 .. n : F[i] \in Seq(T)
  BY <1>3, <1>n
<1>5. DOMAIN F = 1 .. n /\ F = [i \in DOMAIN F |-> F[i]]
  BY <1>f, Zenon
<1> QED BY <1>4, <1>5 DEF n

(* FlattenSeq is the last value of that function.                          *)
LEMMA FlattenSeqIs ==
  ASSUME NEW T, NEW seqs \in Seq(Seq(T)), seqs # <<>>
  PROVE  \E F : Flattens(F, seqs, Len(seqs)) /\ FlattenSeq(seqs) = F[Len(seqs)]
<1> DEFINE C == CHOOSE F : Flattens(F, seqs, Len(seqs))
<1>1. Len(seqs) # 0 /\ Len(seqs) \in 0 .. Len(seqs)
  OBVIOUS
<1>2. Flattens(C, seqs, Len(seqs))
  BY <1>1, FlattensExists
<1>3. FlattenSeq(seqs) = C[Len(seqs)]
  BY <1>1 DEF FlattenSeq, Flattens
<1> QED BY <1>2, <1>3

(* One step of the recursion.                                              *)
LEMMA FlattensAt ==
  ASSUME NEW seqs, NEW n \in Nat, NEW F, Flattens(F, seqs, n), NEW i \in 1 .. n
  PROVE  F[i] = IF i = 1 THEN seqs[i] ELSE F[i - 1] \o seqs[i]
<1>1. F[i] = [k \in 1 .. n |-> IF k = 1 THEN seqs[k] ELSE F[k - 1] \o seqs[k]][i]
  BY Zenon DEF Flattens
<1> QED BY <1>1

(* Where the elements of two sequences are in the one after the other.     *)
LEMMA ConcatAt ==
  ASSUME NEW T, NEW a \in Seq(T), NEW b \in Seq(T)
  PROVE  /\ a \o b \in Seq(T)
         /\ Len(a) \in Nat /\ Len(b) \in Nat /\ Len(a \o b) = Len(a) + Len(b)
         /\ \A j \in 1 .. Len(a) : (a \o b)[j] = a[j]
         /\ \A i \in Len(a) + 1 .. Len(a) + Len(b) : (a \o b)[i] = b[i - Len(a)]
OBVIOUS

(* Each piece is a prefix of the whole, and every place is in a piece.     *)
Grown(F, off, m) ==
  /\ \A k \in 1 .. m : /\ Len(F[k]) <= Len(F[m])
                       /\ \A j \in 1 .. Len(F[k]) : F[m][j] = F[k][j]
  /\ \A j \in 1 .. Len(F[m]) : \E k \in 1 .. m : j \in off[k - 1] + 1 .. off[k]

(* One more piece leaves those before it where they are.                   *)
LEMMA GrownStep ==
  ASSUME NEW T, NEW m \in Nat \ {0}, NEW F, \A k \in 1 .. m + 1 : F[k] \in Seq(T),
         NEW b \in Seq(T), F[m + 1] = F[m] \o b,
         NEW off, off[m] = Len(F[m]), off[m + 1] = Len(F[m + 1]), Grown(F, off, m)
  PROVE  Grown(F, off, m + 1)
<1>1. F[m] \in Seq(T) /\ F[m + 1] \in Seq(T)
  OBVIOUS
<1>2. /\ Len(F[m]) \in Nat /\ Len(b) \in Nat /\ Len(F[m + 1]) = Len(F[m]) + Len(b)
      /\ \A j \in 1 .. Len(F[m]) : F[m + 1][j] = F[m][j]
  BY <1>1, ConcatAt
<1>3. ASSUME NEW k \in 1 .. m + 1
      PROVE  /\ Len(F[k]) <= Len(F[m + 1])
             /\ \A j \in 1 .. Len(F[k]) : F[m + 1][j] = F[k][j]
  <2>1. CASE k = m + 1
    BY <2>1, <1>2
  <2>2. CASE k # m + 1
    <3>1. k \in 1 .. m
      BY <2>2
    <3>2. Len(F[k]) <= Len(F[m]) /\ \A j \in 1 .. Len(F[k]) : F[m][j] = F[k][j]
      BY <3>1 DEF Grown
    <3>3. Len(F[k]) \in Nat
      BY <3>1
    <3> QED BY <3>2, <3>3, <1>2
  <2> QED BY <2>1, <2>2
<1>4. ASSUME NEW j \in 1 .. Len(F[m + 1])
      PROVE  \E k \in 1 .. m + 1 : j \in off[k - 1] + 1 .. off[k]
  <2>1. CASE j \in 1 .. Len(F[m])
    <3>1. PICK k \in 1 .. m : j \in off[k - 1] + 1 .. off[k]
      BY <2>1 DEF Grown
    <3> QED BY <3>1
  <2>2. CASE j \notin 1 .. Len(F[m])
    <3>1. j \in off[m] + 1 .. off[m + 1]
      BY <2>2, <1>2
    <3>2. m + 1 - 1 = m /\ m + 1 \in 1 .. m + 1
      OBVIOUS
    <3> QED BY <3>1, <3>2
  <2> QED BY <2>1, <2>2
<1> QED BY <1>3, <1>4 DEF Grown

(* Where the pieces of seqs begin and end in FlattenSeq(seqs).             *)
Places(seqs, off) ==
  /\ off \in [0 .. Len(seqs) -> Nat]
  /\ off[0] = 0
  /\ \A k \in 1 .. Len(seqs) :
       /\ off[k] = off[k - 1] + Len(seqs[k])
       /\ off[k] <= off[Len(seqs)]
       /\ \A i \in off[k - 1] + 1 .. off[k] : FlattenSeq(seqs)[i] = seqs[k][i - off[k - 1]]
  /\ Len(FlattenSeq(seqs)) = off[Len(seqs)]
  /\ \A j \in 1 .. off[Len(seqs)] :
       \E k \in 1 .. Len(seqs) : j \in off[k - 1] + 1 .. off[k]

(* Every piece of seqs has its place in FlattenSeq(seqs).                  *)
LEMMA PlacesExist ==
  ASSUME NEW T, NEW seqs \in Seq(Seq(T)), seqs # <<>>
  PROVE  FlattenSeq(seqs) \in Seq(T) /\ \E off : Places(seqs, off)
<1> DEFINE n == Len(seqs)
<1>n. n \in Nat /\ n # 0
  OBVIOUS
<1>1. PICK F : Flattens(F, seqs, n) /\ FlattenSeq(seqs) = F[n]
  BY FlattenSeqIs
<1>2. F \in [1 .. n -> Seq(T)]
  BY <1>1, FlattensIs
<1>s. \A i \in 1 .. n : seqs[i] \in Seq(T) /\ Len(seqs[i]) \in Nat
  OBVIOUS
<1> HIDE DEF n
<1>3. F[1] = seqs[1] /\ \A i \in 2 .. n : F[i] = F[i - 1] \o seqs[i]
  <2>1. \A i \in 1 .. n : F[i] = IF i = 1 THEN seqs[i] ELSE F[i - 1] \o seqs[i]
    BY <1>1, <1>n, FlattensAt
  <2>2. 1 \in 1 .. n /\ \A i \in 2 .. n : i \in 1 .. n /\ i # 1
    BY <1>n
  <2> QED BY <2>1, <2>2
<1> DEFINE off == [k \in 0 .. n |-> IF k = 0 THEN 0 ELSE Len(F[k])]
<1>4. /\ off \in [0 .. n -> Nat] /\ off[0] = 0 /\ \A k \in 1 .. n : off[k] = Len(F[k])
      /\ \A k \in 1 .. n : F[k] \in Seq(T)
  BY <1>2, <1>n
<1> HIDE DEF off
<1>5. ASSUME NEW i \in 1 .. n
      PROVE  /\ off[i] = off[i - 1] + Len(seqs[i])
             /\ \A j \in 1 .. Len(seqs[i]) : F[i][off[i - 1] + j] = seqs[i][j]
  <2>1. CASE i = 1
    BY <2>1, <1>3, <1>4, <1>s, <1>n
  <2>2. CASE i # 1
    <3>1. i \in 2 .. n /\ i - 1 \in 1 .. n
      BY <2>2, <1>n
    <3>2. F[i - 1] \in Seq(T) /\ seqs[i] \in Seq(T) /\ F[i] = F[i - 1] \o seqs[i]
      BY <3>1, <1>s, <1>3, <1>4
    <3> DEFINE a == F[i - 1]
               b == seqs[i]
    <3> HIDE DEF a, b
    <3>a. a \in Seq(T) /\ b \in Seq(T)
      BY <3>2 DEF a, b
    <3>3. Len(a \o b) = Len(a) + Len(b) /\ \A j \in 1 .. Len(b) : (a \o b)[Len(a) + j] = b[j]
      BY <3>a, ConcatAt
    <3>4. /\ Len(F[i]) = Len(F[i - 1]) + Len(seqs[i])
          /\ \A j \in 1 .. Len(seqs[i]) : F[i][Len(F[i - 1]) + j] = seqs[i][j]
      BY <3>2, <3>3 DEF a, b
    <3> QED BY <3>1, <3>4, <1>4
  <2> QED BY <2>1, <2>2
<1>6. Grown(F, off, n)
  <2> DEFINE S == {m \in 0 .. n : m > 0 => Grown(F, off, m)}
  <2>1. 0 \in S
    BY <1>n
  <2>2. ASSUME NEW m \in 0 .. n - 1, m \in S PROVE m + 1 \in S
    <3>1. m + 1 \in 1 .. n
      BY <1>n
    <3>2. CASE m = 0
      <4>1. \A j \in 1 .. Len(F[1]) : j \in off[1 - 1] + 1 .. off[1]
        BY <1>4, <1>n
      <4>2. Len(F[1]) <= Len(F[1])
        BY <1>4, <1>n
      <4>3. Grown(F, off, 1)
        BY <4>1, <4>2 DEF Grown
      <4> QED BY <4>3, <3>1, <3>2, <1>n
    <3>3. CASE m # 0
      <4>1. m \in Nat \ {0} /\ m \in 1 .. n /\ m + 1 \in 2 .. n
        BY <3>3, <1>n
      <4>2. Grown(F, off, m)
        BY <4>1, <2>2
      <4>3. seqs[m + 1] \in Seq(T) /\ F[m + 1] = F[m] \o seqs[m + 1]
        <5>1. ASSUME NEW i \in 2 .. n, i - 1 = m
              PROVE  F[i] = F[m] \o seqs[i]
          BY <5>1, <1>3
        <5>2. m + 1 - 1 = m
          BY <4>1
        <5>3. F[m + 1] = F[m] \o seqs[m + 1]
          <6> DEFINE i == m + 1
          <6>1. i \in 2 .. n /\ i - 1 = m
            BY <4>1, <5>2
          <6> HIDE DEF i
          <6>2. F[i] = F[m] \o seqs[i]
            BY <6>1, <5>1
          <6> QED BY <6>2 DEF i
        <5> QED BY <3>1, <5>3, <1>s
      <4>4. off[m] = Len(F[m]) /\ off[m + 1] = Len(F[m + 1])
        BY <4>1, <3>1, <1>4
      <4>5. \A k \in 1 .. m + 1 : F[k] \in Seq(T)
        BY <1>4, <4>1, <1>n
      <4>9. Grown(F, off, m + 1)
        BY <4>1, <4>2, <4>3, <4>4, <4>5, GrownStep
      <4> QED BY <4>9, <3>1, <1>n
    <3> QED BY <3>2, <3>3
  <2>3. \A m \in 0 .. n : m \in S
    <3> HIDE DEF S
    <3> QED BY <1>n, <2>1, <2>2, Induct
  <2> QED BY <2>3, <1>n
<1>7. ASSUME NEW k \in 1 .. n
      PROVE  /\ off[k] <= off[n]
             /\ \A j \in 1 .. Len(seqs[k]) : F[n][off[k - 1] + j] = seqs[k][j]
  <2>1. off[k] = off[k - 1] + Len(seqs[k]) /\ off[k] = Len(F[k]) /\ Len(seqs[k]) \in Nat
        /\ off[k - 1] \in Nat
    BY <1>5, <1>4, <1>s, <1>n
  <2>2. /\ Len(F[k]) <= Len(F[n])
        /\ \A j \in 1 .. Len(F[k]) : F[n][j] = F[k][j]
    BY <1>6 DEF Grown
  <2>3. \A j \in 1 .. Len(seqs[k]) : off[k - 1] + j \in 1 .. Len(F[k])
    BY <2>1
  <2>4. off[n] = Len(F[n])
    BY <1>4, <1>n
  <2> QED BY <2>1, <2>2, <2>3, <2>4, <1>5
<1>8. off[n] = Len(F[n])
  BY <1>4, <1>n
<1>i. ASSUME NEW k \in 1 .. n, NEW i \in off[k - 1] + 1 .. off[k]
      PROVE  F[n][i] = seqs[k][i - off[k - 1]]
  <2>1. off[k] = off[k - 1] + Len(seqs[k]) /\ Len(seqs[k]) \in Nat /\ off[k - 1] \in Nat
    BY <1>5, <1>4, <1>s, <1>n
  <2>2. i - off[k - 1] \in 1 .. Len(seqs[k]) /\ off[k - 1] + (i - off[k - 1]) = i
    BY <2>1
  <2>3. F[n][off[k - 1] + (i - off[k - 1])] = seqs[k][i - off[k - 1]]
    BY <2>2, <1>7
  <2> QED BY <2>2, <2>3
<1>9. Places(seqs, off)
  <2>1. \A j \in 1 .. off[n] : \E k \in 1 .. n : j \in off[k - 1] + 1 .. off[k]
    BY <1>6, <1>8 DEF Grown
  <2> QED BY <1>1, <1>4, <1>5, <1>7, <1>i, <1>8, <2>1 DEF Places, n
<1>10. FlattenSeq(seqs) \in Seq(T)
  BY <1>1, <1>4, <1>n
<1> QED BY <1>9, <1>10

----------------------------------------------------------------------------
(* htoi.                                                                   *)

(* g is what the recursion in htoi unfolds to.                             *)
Reads(g, text, n) ==
  g = [k \in 0 .. n |-> IF k = 0 THEN 0
                        ELSE IF text[k] \in ToSet(Digits)
                             THEN Shifted(g[k - 1], DigitValue[text[k]]) ELSE g[k - 1]]

(* Every digit has a value.                                                *)
LEMMA DigitNat ==
  ASSUME NEW c \in ToSet(Digits)
  PROVE  DigitValue[c] \in Nat
<1>1. \E n \in 0 .. 15 : Digits[n + 1] = c
  <2>1. DOMAIN Digits = 1 .. 16
    BY DEF Digits
  <2>2. PICK i \in DOMAIN Digits : Digits[i] = c
    BY DEF ToSet
  <2>3. i - 1 \in 0 .. 15 /\ Digits[i - 1 + 1] = c
    BY <2>1, <2>2
  <2> QED BY <2>3
<1>2. DigitValue[c] = CHOOSE n \in 0 .. 15 : Digits[n + 1] = c
  BY DEF DigitValue
<1>3. (CHOOSE n \in 0 .. 15 : Digits[n + 1] = c) \in 0 .. 15
  BY <1>1
<1>4. DigitValue[c] \in 0 .. 15
  BY <1>2, <1>3, Zenon
<1> QED BY <1>4

(* The recursion in htoi has a function.                                   *)
LEMMA ReadsExists ==
  ASSUME NEW text, NEW n \in Nat
  PROVE  \E g : Reads(g, text, n)
<1> DEFINE Read(p, c) == IF c \in ToSet(Digits) THEN Shifted(p, DigitValue[c]) ELSE p
           S == {k \in 0 .. n : \E g : Reads(g, text, k)}
<1>1. 0 \in S
  <2>1. Reads([k \in 0 .. 0 |-> 0], text, 0)
    BY DEF Reads
  <2> QED BY <2>1
<1>2. ASSUME NEW k \in 0 .. n - 1, k \in S PROVE k + 1 \in S
  <2>1. PICK g : Reads(g, text, k)
    BY <1>2
  <2> DEFINE h == [i \in 0 .. k + 1 |-> IF i = k + 1 THEN Read(g[k], text[k + 1]) ELSE g[i]]
  <2>2. ASSUME NEW i \in 0 .. k + 1
        PROVE  h[i] = IF i = 0 THEN 0 ELSE Read(h[i - 1], text[i])
    <3>1. CASE i = k + 1
      <4>1. h[i - 1] = g[k] /\ h[i] = Read(g[k], text[k + 1]) /\ i # 0
        BY <3>1
      <4> HIDE DEF Read, h
      <4> QED BY <3>1, <4>1
    <3>2. CASE i # k + 1
      <4>1. i \in 0 .. k
        BY <3>2
      <4>2. h[i] = g[i] /\ (i # 0 => h[i - 1] = g[i - 1])
        BY <4>1
      <4>3. g[i] = [j \in 0 .. k |-> IF j = 0 THEN 0 ELSE Read(g[j - 1], text[j])][i]
        BY <2>1, Zenon DEF Reads
      <4> HIDE DEF Read, h
      <4>4. g[i] = IF i = 0 THEN 0 ELSE Read(g[i - 1], text[i])
        BY <4>1, <4>3
      <4> QED BY <4>2, <4>4
    <3> QED BY <3>1, <3>2
  <2>3. Reads(h, text, k + 1)
    <3>1. h = [i \in 0 .. k + 1 |-> h[i]]
      OBVIOUS
    <3>2. h = [i \in 0 .. k + 1 |-> IF i = 0 THEN 0 ELSE Read(h[i - 1], text[i])]
      <4> HIDE DEF Read, h
      <4> QED BY <3>1, <2>2
    <3> HIDE DEF h
    <3> QED BY <3>2, Zenon DEF Reads
  <2> QED BY <2>3
<1>3. \A k \in 0 .. n : k \in S
  <2> HIDE DEF S
  <2> QED BY <1>1, <1>2, Induct
<1> QED BY <1>3

(* A number stays one with a digit behind it.                              *)
LEMMA ShiftedIs ==
  ASSUME NEW p \in Int, NEW d \in Nat
  PROVE  Shifted(p, d) \in Int
<1> DEFINE high == (p \div 2 ^ 24) % 16
           low == p % 2 ^ 24
<1>1. 2 ^ 24 \in Nat \ {0} /\ 2 ^ 28 \in Nat
  BY SMT
<1>2. high \in Int /\ low \in Int
  BY <1>1
<1> HIDE DEF high, low
<1>3. (IF high >= 8 THEN high - 16 ELSE high) * 2 ^ 28 + 16 * low + d \in Int
  BY <1>1, <1>2
<1> QED BY <1>3 DEF Shifted, high, low

(* htoi makes a number of every text.                                      *)
LEMMA htoiIs ==
  ASSUME NEW T, NEW text \in Seq(T)
  PROVE  htoi(text) \in Int
<1> DEFINE C == CHOOSE g : Reads(g, text, Len(text))
<1>n. Len(text) \in Nat
  OBVIOUS
<1>1. Reads(C, text, Len(text))
  BY <1>n, ReadsExists
<1>2. htoi(text) = C[Len(text)]
  BY Zenon DEF htoi, Reads
<1> HIDE DEF C
<1>3. ASSUME NEW k \in 0 .. Len(text)
      PROVE  C[k] = IF k = 0 THEN 0
                    ELSE IF text[k] \in ToSet(Digits)
                         THEN Shifted(C[k - 1], DigitValue[text[k]]) ELSE C[k - 1]
  <2>1. C[k] = [j \in 0 .. Len(text) |->
                  IF j = 0 THEN 0
                  ELSE IF text[j] \in ToSet(Digits)
                       THEN Shifted(C[j - 1], DigitValue[text[j]]) ELSE C[j - 1]][k]
    BY <1>1, Zenon DEF Reads
  <2> QED BY <2>1, Zenon
<1> DEFINE S == {k \in 0 .. Len(text) : C[k] \in Int}
<1>4. 0 \in S
  BY <1>3, <1>n
<1>5. ASSUME NEW k \in 0 .. Len(text) - 1, k \in S PROVE k + 1 \in S
  <2>1. k + 1 \in 0 .. Len(text) /\ k + 1 # 0 /\ k + 1 - 1 = k
    BY <1>n
  <2>2. C[k + 1] = IF text[k + 1] \in ToSet(Digits)
                   THEN Shifted(C[k], DigitValue[text[k + 1]]) ELSE C[k]
    BY <2>1, <1>3
  <2>3. C[k] \in Int
    BY <1>5
  <2>4. C[k + 1] \in Int
    BY <2>2, <2>3, DigitNat, ShiftedIs
  <2> QED BY <2>1, <2>4
<1>6. \A k \in 0 .. Len(text) : k \in S
  <2> HIDE DEF S
  <2> QED BY <1>n, <1>4, <1>5, Induct
<1> QED BY <1>6, <1>2, <1>n

(* The same for atoi.                                                      *)
Counts(g, text, n) ==
  g = [k \in 0 .. n |-> IF k = 0 THEN 0
                        ELSE IF \A i \in 1 .. k : Decimal(text[i])
                             THEN 10 * g[k - 1] + DigitValue[text[k]] ELSE g[k - 1]]

(* A decimal digit is a digit.                                             *)
LEMMA DecimalIs ==
  ASSUME NEW c, Decimal(c)
  PROVE  c \in ToSet(Digits)
<1>1. SubSeq(Digits, 1, 10) = [i \in 1 .. 10 |-> Digits[i]]
  BY DEF Digits
<1>2. DOMAIN SubSeq(Digits, 1, 10) = 1 .. 10
  BY <1>1, Zenon
<1>3. PICK i \in 1 .. 10 : SubSeq(Digits, 1, 10)[i] = c
  BY <1>2 DEF Decimal, ToSet
<1>4. SubSeq(Digits, 1, 10)[i] = Digits[i]
  BY <1>1, Zenon
<1>5. DOMAIN Digits = 1 .. 16
  BY DEF Digits
<1> QED BY <1>3, <1>4, <1>5 DEF ToSet

(* The recursion in atoi has a function.                                   *)
LEMMA CountsExists ==
  ASSUME NEW text, NEW n \in Nat
  PROVE  \E g : Counts(g, text, n)
<1> DEFINE Read(p, k) == IF \A i \in 1 .. k : Decimal(text[i])
                         THEN 10 * p + DigitValue[text[k]] ELSE p
           S == {k \in 0 .. n : \E g : Counts(g, text, k)}
<1>1. 0 \in S
  <2>1. Counts([k \in 0 .. 0 |-> 0], text, 0)
    BY DEF Counts
  <2> QED BY <2>1
<1>2. ASSUME NEW k \in 0 .. n - 1, k \in S PROVE k + 1 \in S
  <2>1. PICK g : Counts(g, text, k)
    BY <1>2
  <2> DEFINE h == [i \in 0 .. k + 1 |-> IF i = k + 1 THEN Read(g[k], k + 1) ELSE g[i]]
  <2>2. ASSUME NEW i \in 0 .. k + 1
        PROVE  h[i] = IF i = 0 THEN 0 ELSE Read(h[i - 1], i)
    <3>1. CASE i = k + 1
      <4>1. h[i - 1] = g[k] /\ h[i] = Read(g[k], k + 1) /\ i # 0
        <5> HIDE DEF Read
        <5> QED BY <3>1
      <4> HIDE DEF Read, h
      <4> QED BY <3>1, <4>1
    <3>2. CASE i # k + 1
      <4>1. i \in 0 .. k
        BY <3>2
      <4>2. h[i] = g[i] /\ (i # 0 => h[i - 1] = g[i - 1])
        <5> HIDE DEF Read
        <5> QED BY <4>1
      <4>3. g[i] = [j \in 0 .. k |-> IF j = 0 THEN 0 ELSE Read(g[j - 1], j)][i]
        BY <2>1, Zenon DEF Counts
      <4> HIDE DEF Read, h
      <4>4. g[i] = IF i = 0 THEN 0 ELSE Read(g[i - 1], i)
        BY <4>1, <4>3
      <4> QED BY <4>2, <4>4
    <3> QED BY <3>1, <3>2
  <2>3. Counts(h, text, k + 1)
    <3>1. h = [i \in 0 .. k + 1 |-> h[i]]
      OBVIOUS
    <3>2. h = [i \in 0 .. k + 1 |-> IF i = 0 THEN 0 ELSE Read(h[i - 1], i)]
      <4> HIDE DEF Read, h
      <4> QED BY <3>1, <2>2
    <3> HIDE DEF h
    <3> QED BY <3>2, Zenon DEF Counts
  <2> QED BY <2>3
<1>3. \A k \in 0 .. n : k \in S
  <2> HIDE DEF S
  <2> QED BY <1>1, <1>2, Induct
<1> QED BY <1>3

(* atoi makes a number that is not below zero of every text.               *)
LEMMA atoiIs ==
  ASSUME NEW T, NEW text \in Seq(T)
  PROVE  atoi(text) \in Nat
<1> DEFINE C == CHOOSE g : Counts(g, text, Len(text))
<1>n. Len(text) \in Nat
  OBVIOUS
<1>1. Counts(C, text, Len(text))
  BY <1>n, CountsExists
<1>2. atoi(text) = C[Len(text)]
  BY Zenon DEF atoi, Counts
<1> HIDE DEF C
<1> DEFINE All(k) == \A i \in 1 .. k : Decimal(text[i])
<1>3. ASSUME NEW k \in 0 .. Len(text)
      PROVE  C[k] = IF k = 0 THEN 0
                    ELSE IF All(k) THEN 10 * C[k - 1] + DigitValue[text[k]] ELSE C[k - 1]
  <2>1. C[k] = [j \in 0 .. Len(text) |->
                  IF j = 0 THEN 0
                  ELSE IF All(j) THEN 10 * C[j - 1] + DigitValue[text[j]] ELSE C[j - 1]][k]
    BY <1>1, Zenon DEF Counts
  <2> QED BY <2>1, Zenon
<1>a. \A k \in 1 .. Len(text) : All(k) => text[k] \in ToSet(Digits)
  BY DecimalIs, <1>n
<1> HIDE DEF All
<1> DEFINE S == {k \in 0 .. Len(text) : C[k] \in Nat}
<1>4. 0 \in S
  BY <1>3, <1>n
<1>5. ASSUME NEW k \in 0 .. Len(text) - 1, k \in S PROVE k + 1 \in S
  <2>1. k + 1 \in 0 .. Len(text) /\ k + 1 # 0 /\ k + 1 - 1 = k /\ k + 1 \in 1 .. Len(text)
    BY <1>n
  <2>2. C[k + 1] = IF All(k + 1) THEN 10 * C[k] + DigitValue[text[k + 1]] ELSE C[k]
    BY <2>1, <1>3
  <2>3. C[k] \in Nat
    BY <1>5
  <2>4. C[k + 1] \in Nat
    BY <2>1, <2>2, <2>3, <1>a, DigitNat
  <2> QED BY <2>1, <2>4
<1>6. \A k \in 0 .. Len(text) : k \in S
  <2> HIDE DEF S
  <2> QED BY <1>n, <1>4, <1>5, Induct
<1> QED BY <1>6, <1>2, <1>n

----------------------------------------------------------------------------
(* What is sent.                                                           *)

(* The symbols the proofs reckon with: the provers know no string to be in *)
(* STRING.                                                                 *)
Symbols ==
  STRING \cup ToSet(Digits) \cup
    {CR, LF, ":", SP, "/", "H", "T", "P", "1.1", "200", "OK",
     "Content-Length", "Transfer-Encoding", "chunked"}

Words == Seq(Symbols)

(* ConcatAt, for words.                                                    *)
LEMMA TextConcat ==
  ASSUME NEW a \in Words, NEW b \in Words
  PROVE  /\ a \o b \in Words
         /\ Len(a) \in Nat /\ Len(b) \in Nat /\ Len(a \o b) = Len(a) + Len(b)
         /\ \A j \in 1 .. Len(a) : (a \o b)[j] = a[j]
         /\ \A i \in Len(a) + 1 .. Len(a) + Len(b) : (a \o b)[i] = b[i - Len(a)]
BY ConcatAt DEF Words

(* What the texts of a response are made of.                               *)
LEMMA TextIsWord ==
  ASSUME NEW t \in Texts
  PROVE  t \in Words
<1>1. STRING \subseteq Symbols
  BY DEF Symbols
<1> QED BY <1>1, SeqMonotonic DEF Words, Texts

(* The pieces a response is put together from are words.                   *)
LEMMA TextsAre ==
  /\ \A c \in ToSet(Digits) : c \in Symbols
  /\ <<":", SP>> \in Words /\ <<CR, LF>> \in Words /\ <<>> \in Words /\ <<"0">> \in Words
  /\ <<"H", "T", "T", "P", "/", "1.1", SP, "200", SP, "OK">> \in Words
  /\ <<"Content-Length">> \in Words /\ <<"Transfer-Encoding">> \in Words /\ <<"chunked">> \in Words
<1>1. \A c \in ToSet(Digits) : c \in Symbols
  BY DEF Symbols
<1>2. \A c \in {CR, LF, ":", SP, "/", "H", "T", "P", "1.1", "200", "OK",
                "Content-Length", "Transfer-Encoding", "chunked"} : c \in Symbols
  BY DEF Symbols
<1>3. "0" \in Symbols
  <2>1. DOMAIN Digits = 1 .. 16 /\ Digits[1] = "0"
    BY DEF Digits
  <2>2. "0" \in ToSet(Digits)
    BY <2>1 DEF ToSet
  <2> QED BY <2>2, <1>1
<1>4. <<":", SP>> \in Words /\ <<CR, LF>> \in Words /\ <<>> \in Words /\ <<"0">> \in Words
  <2>1. ":" \in Symbols /\ SP \in Symbols /\ CR \in Symbols /\ LF \in Symbols
    BY <1>2
  <2> QED BY <2>1, <1>3 DEF Words
<1>5. <<"Content-Length">> \in Words /\ <<"Transfer-Encoding">> \in Words /\ <<"chunked">> \in Words
  <2>1. "Content-Length" \in Symbols /\ "Transfer-Encoding" \in Symbols /\ "chunked" \in Symbols
    BY <1>2
  <2> QED BY <2>1 DEF Words
<1>6. <<"H", "T", "T", "P", "/", "1.1", SP, "200", SP, "OK">> \in Words
  <2>1. "H" \in Symbols /\ "T" \in Symbols /\ "P" \in Symbols /\ "/" \in Symbols
        /\ "1.1" \in Symbols /\ SP \in Symbols /\ "200" \in Symbols /\ "OK" \in Symbols
    BY <1>2
  <2> QED BY <2>1 DEF Words
<1> QED BY <1>1, <1>4, <1>5, <1>6

(* A digit is no separator.                                                *)
LEMMA DigitIsPlain ==
  ASSUME NEW c \in ToSet(Digits)
  PROVE  c \notin {CR, LF, ":", SP}
<1>1. /\ Digits[1] = "0" /\ Digits[2] = "1" /\ Digits[3] = "2" /\ Digits[4] = "3"
      /\ Digits[5] = "4" /\ Digits[6] = "5" /\ Digits[7] = "6" /\ Digits[8] = "7"
      /\ Digits[9] = "8" /\ Digits[10] = "9" /\ Digits[11] = "a" /\ Digits[12] = "b"
      /\ Digits[13] = "c" /\ Digits[14] = "d" /\ Digits[15] = "e" /\ Digits[16] = "f"
      /\ DOMAIN Digits = 1 .. 16
  BY DEF Digits
<1>2. PICK i \in 1 .. 16 : c = Digits[i]
  BY <1>1 DEF ToSet
<1>3. \/ i = 1 \/ i = 2 \/ i = 3 \/ i = 4 \/ i = 5 \/ i = 6 \/ i = 7 \/ i = 8
      \/ i = 9 \/ i = 10 \/ i = 11 \/ i = 12 \/ i = 13 \/ i = 14 \/ i = 15 \/ i = 16
  OBVIOUS
<1>4. \A d \in {"0", "1", "2", "3", "4", "5", "6", "7", "8", "9", "a", "b", "c", "d", "e", "f"} : d # SP
  BY Zenon DEF SP
<1> QED BY <1>1, <1>2, <1>3, <1>4, SMT DEF CR, LF

(* A field written in a line.                                              *)
LineIs(line, key, value, K, V) ==
  /\ line \in Words /\ Len(line) = K + V + 4
  /\ \A i \in 1 .. K : line[i] = key[i]
  /\ line[K + 1] = ":" /\ line[K + 2] = SP
  /\ \A i \in K + 3 .. K + V + 2 : line[i] = value[i - (K + 2)]
  /\ line[K + V + 3] = CR /\ line[K + V + 4] = LF

(* Name, colon, blank, value, CR, LF, in this order and with nothing       *)
(* between.                                                                *)
LEMMA FieldLineIs ==
  ASSUME NEW key \in Words, NEW value \in Words, NEW K \in Nat, K = Len(key), NEW V \in Nat, V = Len(value),
         NEW line, line = FieldLine(<<key, value>>)
  PROVE  LineIs(line, key, value, K, V)
<1> DEFINE sep == <<":", SP>>
           end == <<CR, LF>>
           a == key \o sep
           b == a \o value
<1>s. sep \in Words /\ Len(sep) = 2 /\ sep[1] = ":" /\ sep[2] = SP
  BY TextsAre
<1>e. end \in Words /\ Len(end) = 2 /\ end[1] = CR /\ end[2] = LF
  BY TextsAre
<1>0. line = b \o end
  BY DEF FieldLine, Line
<1> HIDE DEF sep, end
<1>1. /\ a \in Words /\ K \in Nat /\ Len(a) = K + 2
      /\ \A j \in 1 .. K : a[j] = key[j]
      /\ \A i \in K + 1 .. K + 2 : a[i] = sep[i - K]
  <2>1. /\ a \in Words /\ Len(a) = Len(key) + Len(sep)
        /\ \A j \in 1 .. Len(key) : a[j] = key[j]
        /\ \A i \in Len(key) + 1 .. Len(key) + Len(sep) : a[i] = sep[i - Len(key)]
    BY <1>s, TextConcat
  <2> QED BY <2>1, <1>s
<1> HIDE DEF a
<1>2. /\ b \in Words /\ V \in Nat /\ Len(b) = K + 2 + V
      /\ \A j \in 1 .. K + 2 : b[j] = a[j]
      /\ \A i \in K + 3 .. K + V + 2 : b[i] = value[i - (K + 2)]
  <2>1. /\ b \in Words /\ Len(b) = Len(a) + Len(value)
        /\ \A j \in 1 .. Len(a) : b[j] = a[j]
        /\ \A i \in Len(a) + 1 .. Len(a) + Len(value) : b[i] = value[i - Len(a)]
    BY <1>1, TextConcat
  <2> HIDE DEF b
  <2> QED BY <2>1, <1>1
<1> HIDE DEF b
<1>3. /\ line \in Words /\ Len(line) = K + V + 4
      /\ \A j \in 1 .. K + V + 2 : line[j] = b[j]
      /\ \A i \in K + V + 3 .. K + V + 4 : line[i] = end[i - (K + V + 2)]
  <2>1. /\ b \o end \in Words /\ Len(b \o end) = Len(b) + Len(end)
        /\ \A j \in 1 .. Len(b) : (b \o end)[j] = b[j]
        /\ \A i \in Len(b) + 1 .. Len(b) + Len(end) : (b \o end)[i] = end[i - Len(b)]
    BY <1>2, <1>e, TextConcat
  <2>2. /\ line \in Words /\ Len(line) = Len(b) + Len(end)
        /\ \A j \in 1 .. Len(b) : line[j] = b[j]
        /\ \A i \in Len(b) + 1 .. Len(b) + Len(end) : line[i] = end[i - Len(b)]
    BY <2>1, <1>0
  <2>3. Len(b) = K + V + 2 /\ Len(b) + Len(end) = K + V + 4 /\ Len(b) + 1 = K + V + 3
    BY <1>2, <1>e
  <2> QED BY <2>2, <2>3
<1>4. line[K + 1] = ":" /\ line[K + 2] = SP
  <2>1. a[K + 1] = ":" /\ a[K + 2] = SP
    BY <1>1, <1>s
  <2>2. b[K + 1] = ":" /\ b[K + 2] = SP
    BY <2>1, <1>1, <1>2
  <2> QED BY <2>2, <1>1, <1>2, <1>3
<1>5. line[K + V + 3] = CR /\ line[K + V + 4] = LF
  <2>1. /\ K + V + 3 \in K + V + 3 .. K + V + 4 /\ K + V + 3 - (K + V + 2) = 1
        /\ K + V + 4 \in K + V + 3 .. K + V + 4 /\ K + V + 4 - (K + V + 2) = 2
    OBVIOUS
  <2>2. line[K + V + 3] = end[1] /\ line[K + V + 4] = end[2]
    BY <1>3, <2>1
  <2> QED BY <2>2, <1>e
<1>6. \A j \in 1 .. K : line[j] = key[j]
  <2>1. \A j \in 1 .. K : j \in 1 .. K + 2 /\ j \in 1 .. K + V + 2
    OBVIOUS
  <2> QED BY <2>1, <1>1, <1>2, <1>3
<1>7. \A i \in K + 3 .. K + V + 2 : line[i] = value[i - (K + 2)]
  <2>1. \A i \in K + 3 .. K + V + 2 : i \in 1 .. K + V + 2
    OBVIOUS
  <2> QED BY <2>1, <1>2, <1>3
<1> QED BY <1>1, <1>2, <1>3, <1>4, <1>5, <1>6, <1>7 DEF LineIs

(* What ResponseAssumption says of a field, character by character.        *)
Plain(f) ==
  /\ \A i \in 1 .. Len(f[1]) : f[1][i] \notin {CR, LF, ":"}
  /\ \A i \in 1 .. Len(f[2]) : f[2][i] \notin {CR, LF}
  /\ Len(f[2]) > 0 => f[2][1] # SP

(* The name is not that of the framing.                                    *)
Unframed(f) == f[1] # <<"Content-Length">> /\ f[1] # <<"Transfer-Encoding">>

IsPair(f) == f = <<f[1], f[2]>> /\ f[1] \in Words /\ f[2] \in Words

(* A sequence is one over every set that has its elements.                 *)
LEMMA SeqIn ==
  ASSUME NEW S, NEW s \in Seq(S), NEW T, \A i \in 1 .. Len(s) : s[i] \in T
  PROVE  s \in Seq(T)
OBVIOUS

(* A pair of texts, as an element of the product.                          *)
LEMMA PairIn ==
  ASSUME NEW f, IsPair(f)
  PROVE  f \in Words \X Words
BY DEF IsPair

(* What ResponseAssumption asks of a field the peer can send.              *)
LEMMA FieldIsPlain ==
  ASSUME NEW f \in Texts \X Texts, IsField(f)
  PROVE  IsPair(f) /\ Plain(f) /\ Unframed(f)
<1> DEFINE k == f[1]
           v == f[2]
           Bad == {CR, LF}
<1>1. f = <<k, v>> /\ k \in Seq(STRING) /\ v \in Seq(STRING) /\ k \in Words /\ v \in Words
  <2>1. f = <<k, v>> /\ k \in Texts /\ v \in Texts
    OBVIOUS
  <2> HIDE DEF k, v
  <2> QED BY <2>1, TextIsWord DEF Texts
<1>2. \A c \in ToSet(k \o v) : c \notin Bad
  BY DEF IsField
<1>3. ~Contains(k, ":") /\ (v # <<>> => v[1] # SP) /\ \A w \in Framing : k # <<w>>
  BY DEF IsField
<1> HIDE DEF k, v, Bad
<1>4. /\ Len(k) \in Nat /\ Len(v) \in Nat /\ Len(k \o v) = Len(k) + Len(v) /\ k \o v \in Seq(STRING)
      /\ \A j \in 1 .. Len(k) : (k \o v)[j] = k[j]
      /\ \A i \in Len(k) + 1 .. Len(k) + Len(v) : (k \o v)[i] = v[i - Len(k)]
  BY <1>1, ConcatAt
<1>5. \A j \in 1 .. Len(k) + Len(v) : (k \o v)[j] \in ToSet(k \o v)
  <2>1. DOMAIN (k \o v) = 1 .. Len(k) + Len(v)
    BY <1>4
  <2> QED BY <2>1 DEF ToSet
<1>6. \A i \in 1 .. Len(k) : k[i] \notin Bad
  BY <1>2, <1>4, <1>5
<1>7. \A i \in 1 .. Len(v) : v[i] \notin Bad
  <2> TAKE i \in 1 .. Len(v)
  <2>1. Len(k) + i \in Len(k) + 1 .. Len(k) + Len(v) /\ Len(k) + i - Len(k) = i
        /\ Len(k) + i \in 1 .. Len(k) + Len(v)
    BY <1>4
  <2>2. (k \o v)[Len(k) + i] = v[Len(k) + i - Len(k)]
    BY <2>1, <1>4
  <2> QED BY <2>1, <2>2, <1>2, <1>5
<1>8. \A i \in 1 .. Len(k) : k[i] # ":"
  BY <1>3 DEF Contains
<1>9. Len(v) > 0 => v[1] # SP
  BY <1>3, <1>1
<1>10. Plain(f)
  BY <1>6, <1>7, <1>8, <1>9 DEF Plain, Bad, k, v
<1>11. Unframed(f)
  BY <1>3, Zenon DEF Unframed, Framing, k
<1>12. IsPair(f)
  BY <1>1 DEF IsPair, k, v
<1> QED BY <1>10, <1>11, <1>12

(* What ResponseAssumption says of the lengths and the data.               *)
LEMMA DataIs ==
  ASSUME NEW r \in Responses, NEW i \in 1 .. Len(r.data)
  PROVE  /\ r.data[i] \in Words /\ r.sizes[i] \in Words
         /\ \A j \in 1 .. Len(r.sizes[i]) : r.sizes[i][j] \in ToSet(Digits)
         /\ ~r.chunked => Len(r.data[i]) = atoi(r.sizes[i])
<1>1. /\ r \in Response /\ Len(r.sizes) = Len(r.data)
      /\ \A k \in DOMAIN r.data :
            /\ \A c \in ToSet(r.sizes[k]) : c \in ToSet(Digits)
            /\ ~r.chunked => Len(r.data[k]) = atoi(r.sizes[k])
  BY ResponseAssumption
<1>2. r.data \in Seq(Texts) /\ r.sizes \in Seq(Texts)
  BY <1>1 DEF Response
<1>3. i \in DOMAIN r.data /\ r.data[i] \in Texts /\ r.sizes[i] \in Texts
  BY <1>1, <1>2
<1>4. DOMAIN r.sizes[i] = 1 .. Len(r.sizes[i])
  BY <1>3 DEF Texts
<1> QED BY <1>1, <1>3, <1>4, TextIsWord DEF ToSet

(* All fields are plain, only the one for the framing says how the body is *)
(* framed, and it says it right.                                           *)
LEMMA FieldsAre ==
  ASSUME NEW r \in Responses, NEW n, n = Len(Fields(r)), NEW m, m = Len(r.before) + 1
  PROVE  /\ n \in Nat /\ n > 0 /\ m \in 1 .. n
         /\ Fields(r) \in Seq(Words \X Words)
         /\ r.chunked \in BOOLEAN
         /\ \A k \in 1 .. n : IsPair(Fields(r)[k]) /\ Plain(Fields(r)[k])
         /\ \A k \in 1 .. n : k # m => Unframed(Fields(r)[k])
         /\ Fields(r)[m] = FramingField(r)
         /\ r.data # <<>> /\ Len(r.data) \in Nat /\ Len(r.data) > 0
<1>1. /\ r \in Response
      /\ \A i \in DOMAIN r.before : IsField(r.before[i])
      /\ \A i \in DOMAIN r.after : IsField(r.after[i])
      /\ r.data # <<>>
  BY ResponseAssumption
<1> DEFINE H == r.before
           A == r.after
           framing == FramingField(r)
<1>2. H \in Seq(Texts \X Texts) /\ A \in Seq(Texts \X Texts) /\ r.data \in Seq(Texts)
      /\ r.chunked \in BOOLEAN
  BY <1>1 DEF Response
<1>d. Len(r.data) \in Nat /\ Len(r.data) > 0
  BY <1>1, <1>2
<1>3. Fields(r) = H \o <<framing>> \o A
  BY Zenon DEF Fields
<1>4. \A i \in 1 .. Len(H) : IsPair(H[i]) /\ Plain(H[i]) /\ Unframed(H[i])
  <2> TAKE i \in 1 .. Len(H)
  <2>1. H[i] \in Texts \X Texts /\ IsField(H[i])
    BY <1>1, <1>2
  <2> HIDE DEF H
  <2> QED BY <2>1, FieldIsPlain
<1>5. \A i \in 1 .. Len(A) : IsPair(A[i]) /\ Plain(A[i]) /\ Unframed(A[i])
  <2> TAKE i \in 1 .. Len(A)
  <2>1. A[i] \in Texts \X Texts /\ IsField(A[i])
    BY <1>1, <1>2
  <2> HIDE DEF A
  <2> QED BY <2>1, FieldIsPlain
<1>6. IsPair(framing) /\ Plain(framing)
  <2>1. CASE r.chunked
    <3>1. framing = << <<"Transfer-Encoding">>, <<"chunked">> >>
      BY <2>1 DEF FramingField
    <3>2. <<"chunked">>[1] # SP
      BY Zenon DEF SP
    <3> HIDE DEF framing
    <3>3. IsPair(framing)
      BY <3>1, TextsAre DEF IsPair
    <3>4. Plain(framing)
      BY <3>1, <3>2 DEF Plain, CR, LF
    <3> QED BY <3>3, <3>4
  <2>2. CASE ~r.chunked
    <3> DEFINE d == r.sizes[1]
    <3>1. framing = << <<"Content-Length">>, d >>
      BY <2>2 DEF FramingField
    <3>2. d \in Words /\ \A j \in 1 .. Len(d) : d[j] \in ToSet(Digits)
      <4>1. 1 \in 1 .. Len(r.data)
        BY <1>d
      <4> QED BY <4>1, DataIs
    <3> HIDE DEF framing, d
    <3>3. \A j \in 1 .. Len(d) : d[j] \notin {CR, LF, SP}
      BY <3>2, DigitIsPlain
    <3>4. Len(d) \in Nat
      BY <3>2 DEF Words
    <3>5. IsPair(framing)
      BY <3>1, <3>2, TextsAre DEF IsPair
    <3>6. Plain(framing)
      BY <3>1, <3>3, <3>4 DEF Plain, CR, LF
    <3> QED BY <3>5, <3>6
  <2> QED BY <2>1, <2>2, <1>2
<1> HIDE DEF H, A, framing
<1>7. H \in Seq(Words \X Words) /\ framing \in Words \X Words /\ A \in Seq(Words \X Words)
  <2>1. \A i \in 1 .. Len(H) : H[i] \in Words \X Words
    BY <1>4, PairIn
  <2>2. \A i \in 1 .. Len(A) : A[i] \in Words \X Words
    BY <1>5, PairIn
  <2>3. framing \in Words \X Words
    BY <1>6, PairIn
  <2> QED BY <2>1, <2>2, <2>3, <1>2, SeqIn
<1> DEFINE B == H \o <<framing>>
<1>8. /\ Len(H) \in Nat /\ Len(B) = Len(H) + 1 /\ B \in Seq(Words \X Words)
      /\ \A i \in 1 .. Len(H) : B[i] = H[i]
      /\ B[Len(H) + 1] = framing
  BY <1>7
<1> HIDE DEF B
<1>9. /\ Len(A) \in Nat /\ Fields(r) \in Seq(Words \X Words) /\ n = Len(H) + 1 + Len(A)
      /\ \A i \in 1 .. Len(B) : Fields(r)[i] = B[i]
      /\ \A i \in Len(B) + 1 .. Len(B) + Len(A) : Fields(r)[i] = A[i - Len(B)]
  <2>1. /\ B \o A \in Seq(Words \X Words) /\ Len(A) \in Nat /\ Len(B \o A) = Len(B) + Len(A)
        /\ \A i \in 1 .. Len(B) : (B \o A)[i] = B[i]
        /\ \A i \in Len(B) + 1 .. Len(B) + Len(A) : (B \o A)[i] = A[i - Len(B)]
    BY <1>7, <1>8, ConcatAt
  <2>2. Fields(r) = B \o A
    BY <1>3 DEF B
  <2> QED BY <2>1, <2>2, <1>8
<1>m. m = Len(H) + 1
  BY DEF H
<1>10. Fields(r)[m] = framing /\ m \in 1 .. n
  BY <1>8, <1>9, <1>m
<1>11. ASSUME NEW k \in 1 .. n
       PROVE  /\ IsPair(Fields(r)[k]) /\ Plain(Fields(r)[k])
              /\ k # m => Unframed(Fields(r)[k])
  <2>1. CASE k \in 1 .. Len(H)
    <3>1. Fields(r)[k] = H[k]
      BY <2>1, <1>8, <1>9
    <3> QED BY <2>1, <3>1, <1>4
  <2>2. CASE k = Len(H) + 1
    BY <2>2, <1>6, <1>10, <1>m
  <2>3. CASE k \in Len(H) + 2 .. n
    <3>1. k \in Len(B) + 1 .. Len(B) + Len(A) /\ k - Len(B) \in 1 .. Len(A)
      BY <2>3, <1>8, <1>9
    <3>2. Fields(r)[k] = A[k - Len(B)]
      BY <3>1, <1>9
    <3> QED BY <3>1, <3>2, <1>5
  <2> QED BY <2>1, <2>2, <2>3, <1>8, <1>9
<1>12. n \in Nat /\ n > 0
  BY <1>8, <1>9
<1> QED BY <1>1, <1>2, <1>d, <1>9, <1>10, <1>11, <1>12 DEF framing

----------------------------------------------------------------------------
(* Where things are in the stream: off[k] is where the line of the k-th    *)
(* field ends.                                                             *)

StatusLine == Line(<<"H", "T", "T", "P", "/", "1.1", SP, "200", SP, "OK">>)
FieldLines(r) == [i \in DOMAIN Fields(r) |-> FieldLine(Fields(r)[i])]

HeadIs(r, off, S, n) ==
  /\ off \in [0 .. n -> Nat] /\ off[0] = 12
  /\ \A k \in 1 .. n :
       /\ off[k] = off[k - 1] + Len(FieldLines(r)[k]) /\ off[k] <= off[n]
       /\ \A i \in off[k - 1] + 1 .. off[k] : S[i] = FieldLines(r)[k][i - off[k - 1]]
  /\ \A j \in 1 .. off[n] : j <= 12 \/ \E k \in 1 .. n : j \in off[k - 1] + 1 .. off[k]
  /\ \A j \in 1 .. 12 : S[j] = StatusLine[j]
  /\ Len(HeadText(r)) = off[n] + 2 /\ S[off[n] + 1] = CR /\ S[off[n] + 2] = LF

(* The twelve symbols of the status line.                                  *)
LEMMA StatusLineIs ==
  /\ StatusLine \in Words /\ Len(StatusLine) = 12
  /\ StatusLine[1] = "H" /\ StatusLine[2] = "T" /\ StatusLine[3] = "T" /\ StatusLine[4] = "P"
  /\ StatusLine[5] = "/" /\ StatusLine[6] = "1.1" /\ StatusLine[7] = SP
  /\ StatusLine[8] = "200" /\ StatusLine[9] = SP /\ StatusLine[10] = "OK"
  /\ StatusLine[11] = CR /\ StatusLine[12] = LF
<1> DEFINE a == <<"H", "T", "T", "P", "/", "1.1", SP, "200", SP, "OK">>
           b == <<CR, LF>>
<1>1. a \in Words /\ b \in Words
  BY TextsAre
<1>2. StatusLine = a \o b
  BY DEF StatusLine, Line
<1>3. /\ Len(a) = 10 /\ a[1] = "H" /\ a[2] = "T" /\ a[3] = "T" /\ a[4] = "P" /\ a[5] = "/"
      /\ a[6] = "1.1" /\ a[7] = SP /\ a[8] = "200" /\ a[9] = SP /\ a[10] = "OK"
      /\ Len(b) = 2 /\ b[1] = CR /\ b[2] = LF
  OBVIOUS
<1> HIDE DEF a, b
<1>4. /\ a \o b \in Words /\ Len(a \o b) = Len(a) + Len(b)
      /\ \A j \in 1 .. Len(a) : (a \o b)[j] = a[j]
      /\ \A i \in Len(a) + 1 .. Len(a) + Len(b) : (a \o b)[i] = b[i - Len(a)]
  BY <1>1, TextConcat
<1>5. StatusLine[11] = b[11 - 10] /\ StatusLine[12] = b[12 - 10]
  BY <1>2, <1>3, <1>4
<1>6. \A j \in 1 .. 10 : StatusLine[j] = a[j]
  BY <1>2, <1>3, <1>4
<1>7. StatusLine \in Words /\ Len(StatusLine) = 12
  BY <1>2, <1>3, <1>4
<1> QED BY <1>3, <1>5, <1>6, <1>7

(* The line that ends the header.                                          *)
LEMMA EmptyLine == Line(<<>>) = <<CR, LF>>
BY DEF Line

(* One line for each field.                                                *)
LEMMA FieldLinesIs ==
  ASSUME NEW r \in Responses, NEW n, n = Len(Fields(r))
  PROVE  /\ FieldLines(r) \in Seq(Words) /\ Len(FieldLines(r)) = n /\ FieldLines(r) # <<>>
         /\ \A k \in 1 .. n : FieldLines(r)[k] = FieldLine(Fields(r)[k])
<1>1. /\ n \in Nat /\ n > 0 /\ Fields(r) \in Seq(Words \X Words)
      /\ \A k \in 1 .. n : IsPair(Fields(r)[k])
  BY FieldsAre
<1>2. DOMAIN Fields(r) = 1 .. n
  BY <1>1
<1>3. \A k \in 1 .. n : FieldLines(r)[k] = FieldLine(Fields(r)[k])
  BY <1>2 DEF FieldLines
<1>4. ASSUME NEW k \in 1 .. n PROVE FieldLine(Fields(r)[k]) \in Words
  <2> DEFINE f == Fields(r)[k]
  <2>1. IsPair(f)
    BY <1>1
  <2> HIDE DEF f
  <2>2. f[1] \in Words /\ f[2] \in Words /\ f = <<f[1], f[2]>>
    BY <2>1 DEF IsPair
  <2>3. Len(f[1]) \in Nat /\ Len(f[2]) \in Nat
    BY <2>2 DEF Words
  <2>4. FieldLine(<<f[1], f[2]>>) \in Words
    BY <2>2, <2>3, FieldLineIs DEF LineIs
  <2>5. FieldLine(f) \in Words
    BY <2>2, <2>4
  <2> QED BY <2>5 DEF f
<1>5. FieldLines(r) = [i \in 1 .. n |-> FieldLines(r)[i]]
  BY <1>2, <1>3 DEF FieldLines
<1>6. FieldLines(r) \in Seq(Words) /\ Len(FieldLines(r)) = n
  BY <1>1, <1>3, <1>4, <1>5
<1> QED BY <1>1, <1>3, <1>6

(* The head, whatever comes behind it.                                     *)
LEMMA HeadIsSent ==
  ASSUME NEW r \in Responses, NEW n, n = Len(Fields(r))
  PROVE  /\ HeadText(r) \in Words
         /\ \E off : HeadIs(r, off, HeadText(r), n)
<1> DEFINE L == FieldLines(r)
           F == FlattenSeq(L)
           a == StatusLine \o F
           e == <<CR, LF>>
           c == a \o e
<1>1. n \in Nat /\ n > 0
  BY FieldsAre
<1>2. L \in Seq(Seq(Symbols)) /\ Len(L) = n /\ L # <<>>
  BY FieldLinesIs DEF Words
<1>3. HeadText(r) = c
  BY EmptyLine DEF HeadText, StatusLine, FieldLines
<1>4. \A k \in 1 .. n : L[k] \in Words /\ Len(L[k]) \in Nat
  BY <1>2 DEF Words
<1> HIDE DEF L
<1>5. F \in Words /\ \E p : Places(L, p)
  BY <1>2, PlacesExist DEF Words
<1>6. PICK p : Places(L, p)
  BY <1>5
<1> HIDE DEF F
<1>7. /\ a \in Words /\ Len(F) \in Nat /\ Len(a) = 12 + Len(F)
      /\ \A j \in 1 .. 12 : a[j] = StatusLine[j]
      /\ \A i \in 13 .. 12 + Len(F) : a[i] = F[i - 12]
  <2>1. /\ a \in Words /\ Len(F) \in Nat /\ Len(a) = Len(StatusLine) + Len(F)
        /\ \A j \in 1 .. Len(StatusLine) : a[j] = StatusLine[j]
        /\ \A i \in Len(StatusLine) + 1 .. Len(StatusLine) + Len(F) : a[i] = F[i - Len(StatusLine)]
    BY <1>5, StatusLineIs, TextConcat
  <2> HIDE DEF a
  <2> QED BY <2>1, StatusLineIs
<1> HIDE DEF a
<1>8. /\ c \in Words /\ Len(c) = Len(F) + 14
      /\ \A j \in 1 .. 12 + Len(F) : c[j] = a[j]
      /\ c[12 + Len(F) + 1] = CR /\ c[12 + Len(F) + 2] = LF
  <2>1. e \in Words /\ Len(e) = 2 /\ e[1] = CR /\ e[2] = LF
    BY TextsAre
  <2> HIDE DEF e
  <2>2. /\ c \in Words /\ Len(c) = Len(a) + Len(e)
        /\ \A j \in 1 .. Len(a) : c[j] = a[j]
        /\ \A i \in Len(a) + 1 .. Len(a) + Len(e) : c[i] = e[i - Len(a)]
    BY <1>7, <2>1, TextConcat
  <2> HIDE DEF c
  <2>3. /\ 12 + Len(F) + 1 \in Len(a) + 1 .. Len(a) + Len(e) /\ 12 + Len(F) + 1 - Len(a) = 1
        /\ 12 + Len(F) + 2 \in Len(a) + 1 .. Len(a) + Len(e) /\ 12 + Len(F) + 2 - Len(a) = 2
    BY <1>7, <2>1
  <2>4. c[12 + Len(F) + 1] = e[1] /\ c[12 + Len(F) + 2] = e[2]
    BY <2>2, <2>3
  <2> QED BY <1>7, <2>1, <2>2, <2>4
<1> HIDE DEF c
<1> DEFINE off == [k \in 0 .. n |-> 12 + p[k]]
<1>9. /\ p \in [0 .. n -> Nat] /\ p[0] = 0 /\ Len(F) = p[n]
      /\ \A k \in 1 .. n : /\ p[k] = p[k - 1] + Len(L[k]) /\ p[k] <= p[n]
                            /\ \A i \in p[k - 1] + 1 .. p[k] : F[i] = L[k][i - p[k - 1]]
      /\ \A j \in 1 .. p[n] : \E k \in 1 .. n : j \in p[k - 1] + 1 .. p[k]
  BY <1>2, <1>6 DEF Places, F
<1>10. off \in [0 .. n -> Nat] /\ off[0] = 12 /\ \A k \in 0 .. n : off[k] = 12 + p[k]
  BY <1>1, <1>9
<1> HIDE DEF off
<1>11. ASSUME NEW k \in 1 .. n
       PROVE  /\ off[k] = off[k - 1] + Len(L[k]) /\ off[k] <= off[n]
              /\ \A i \in off[k - 1] + 1 .. off[k] : c[i] = L[k][i - off[k - 1]]
  <2>1. /\ p[k - 1] \in Nat /\ p[k] \in Nat /\ p[n] \in Nat
        /\ off[k] = 12 + p[k] /\ off[k - 1] = 12 + p[k - 1] /\ off[n] = 12 + p[n]
    <3>1. k \in 0 .. n /\ k - 1 \in 0 .. n /\ n \in 0 .. n
      BY <1>1
    <3> QED BY <3>1, <1>9, <1>10
  <2>2. p[k] = p[k - 1] + Len(L[k]) /\ p[k] <= p[n] /\ Len(L[k]) \in Nat
    BY <1>4, <1>9
  <2>3. ASSUME NEW i \in off[k - 1] + 1 .. off[k]
        PROVE  c[i] = L[k][i - off[k - 1]]
    <3>1. i \in 13 .. 12 + Len(F) /\ i \in 1 .. 12 + Len(F)
      BY <2>1, <2>2, <1>9
    <3>2. i - 12 \in p[k - 1] + 1 .. p[k] /\ i - 12 - p[k - 1] = i - off[k - 1]
      BY <2>1, <2>2
    <3>3. F[i - 12] = L[k][i - 12 - p[k - 1]]
      BY <3>2, <1>9
    <3>4. c[i] = F[i - 12]
      BY <3>1, <1>7, <1>8
    <3> QED BY <3>2, <3>3, <3>4
  <2>4. off[k] = off[k - 1] + Len(L[k]) /\ off[k] <= off[n]
    BY <2>1, <2>2
  <2> QED BY <2>3, <2>4
<1>12. ASSUME NEW j \in 1 .. off[n], j > 12
       PROVE  \E k \in 1 .. n : j \in off[k - 1] + 1 .. off[k]
  <2>1. p[n] \in Nat /\ off[n] = 12 + p[n]
    BY <1>1, <1>9, <1>10
  <2>2. j - 12 \in 1 .. p[n]
    BY <2>1, <1>12
  <2>3. PICK k \in 1 .. n : j - 12 \in p[k - 1] + 1 .. p[k]
    BY <2>2, <1>9
  <2>4. off[k] = 12 + p[k] /\ off[k - 1] = 12 + p[k - 1] /\ p[k] \in Nat /\ p[k - 1] \in Nat
    <3>1. k \in 0 .. n /\ k - 1 \in 0 .. n
      BY <1>1
    <3> QED BY <3>1, <1>9, <1>10
  <2>5. j \in off[k - 1] + 1 .. off[k]
    BY <2>3, <2>4
  <2> QED BY <2>5
<1>13. Len(F) + 14 = off[n] + 2 /\ 12 + Len(F) = off[n]
  <2>1. p[n] \in Nat /\ off[n] = 12 + p[n] /\ Len(F) = p[n]
    BY <1>1, <1>9, <1>10
  <2> QED BY <2>1
<1>14. \A j \in 1 .. 12 : c[j] = StatusLine[j]
  <2>1. \A j \in 1 .. 12 : j \in 1 .. 12 + Len(F)
    BY <1>7
  <2> QED BY <2>1, <1>7, <1>8
<1>15. HeadIs(r, off, c, n)
  <2>1. Len(c) = off[n] + 2 /\ c[off[n] + 1] = CR /\ c[off[n] + 2] = LF
    BY <1>8, <1>13
  <2>2. \A j \in 1 .. off[n] : j <= 12 \/ \E k \in 1 .. n : j \in off[k - 1] + 1 .. off[k]
    <3> TAKE j \in 1 .. off[n]
    <3>1. CASE j <= 12
      BY <3>1
    <3>2. CASE j > 12
      BY <3>2, <1>12
    <3>3. j <= 12 \/ j > 12
      OBVIOUS
    <3> QED BY <3>1, <3>2, <3>3
  <2> QED BY <1>3, <1>10, <1>11, <1>14, <2>1, <2>2 DEF HeadIs, L
<1> QED BY <1>3, <1>8, <1>15

(* A line of text is text.                                                 *)
LEMMA LineIn ==
  ASSUME NEW t \in Words
  PROVE  Line(t) \in Words
BY TextsAre, TextConcat DEF Line

(* The body, and what it is when it comes in one piece.                    *)
LEMMA BodyIsText ==
  ASSUME NEW r \in Responses
  PROVE  /\ BodyText(r) \in Words
         /\ ~r.chunked => BodyText(r) = r.data[1]
<1>1. /\ r.chunked \in BOOLEAN /\ Len(r.data) \in Nat /\ Len(r.data) > 0
      /\ DOMAIN r.data = 1 .. Len(r.data)
  <2>1. r \in Response
    BY ResponseAssumption
  <2>2. r.data \in Seq(Texts)
    BY <2>1 DEF Response
  <2> QED BY <2>2, FieldsAre
<1>2. \A i \in 1 .. Len(r.data) : r.data[i] \in Words /\ r.sizes[i] \in Words
  BY DataIs
<1>3. CASE ~r.chunked
  <2>1. 1 \in 1 .. Len(r.data)
    BY <1>1
  <2> QED BY <1>2, <1>3, <2>1 DEF BodyText
<1>4. CASE r.chunked
  <2> DEFINE piece(i) == Line(r.sizes[i]) \o Line(r.data[i])
             P == [i \in DOMAIN r.data |-> piece(i)]
             z == Line(<<"0">>)
             e == Line(<<>>)
  <2>1. BodyText(r) = FlattenSeq(P) \o z \o e
    BY <1>4, Zenon DEF BodyText
  <2>2. z \in Words /\ e \in Words
    BY LineIn, TextsAre
  <2>3. ASSUME NEW i \in 1 .. Len(r.data) PROVE piece(i) \in Words
    <3>1. Line(r.sizes[i]) \in Words /\ Line(r.data[i]) \in Words
      BY <1>2, LineIn
    <3> QED BY <3>1, TextConcat
  <2>4. P \in Seq(Seq(Symbols)) /\ P # <<>>
    <3> HIDE DEF piece
    <3>1. P \in Seq(Words) /\ P # <<>>
      BY <2>3, <1>1
    <3> QED BY <3>1 DEF Words
  <2> HIDE DEF P, z, e
  <2>5. FlattenSeq(P) \in Words
    BY <2>4, PlacesExist DEF Words
  <2> QED BY <1>4, <2>1, <2>2, <2>5, TextConcat
<1> QED BY <1>1, <1>3, <1>4

(* The header, then what is behind it.                                     *)
LEMMA StreamIs ==
  ASSUME NEW r \in Responses, NEW h, h = Len(HeadText(r))
  PROVE  /\ Stream(r) \in Words /\ Len(Stream(r)) \in Nat
         /\ h \in Nat /\ h <= Len(Stream(r))
         /\ \A j \in 1 .. h : Stream(r)[j] = HeadText(r)[j]
         /\ Len(r.data[1]) \in Nat
         /\ ~r.chunked => h + Len(r.data[1]) <= Len(Stream(r))
         /\ ~Contains(BodyText(r) \o r.extra, ":") =>
              \A j \in h + 1 .. Len(Stream(r)) : Stream(r)[j] # ":"
<1> DEFINE H == HeadText(r)
           B == BodyText(r)
           E == r.extra
           a == H \o B
           d == B \o E
           c == a \o E
           n == Len(r.data[1])
<1>1. H \in Words /\ B \in Words /\ n \in Nat
  <2>1. H \in Words
    BY HeadIsSent
  <2>2. B \in Words
    BY BodyIsText
  <2>3. 1 \in 1 .. Len(r.data)
    <3>1. Len(r.data) \in Nat /\ Len(r.data) > 0
      BY FieldsAre
    <3> QED BY <3>1
  <2>4. r.data[1] \in Words
    BY <2>3, DataIs
  <2> QED BY <2>1, <2>2, <2>4 DEF Words
<1>2. E \in Words
  <2>1. r \in Response
    BY ResponseAssumption
  <2>2. r.extra \in Texts
    BY <2>1 DEF Response
  <2> QED BY <2>2, TextIsWord
<1>3. Stream(r) = c
  BY DEF Stream
<1>4. ~r.chunked => Len(B) = n
  BY BodyIsText
<1> HIDE DEF H, B, E, n
<1>6. /\ a \in Words /\ h \in Nat /\ Len(B) \in Nat /\ Len(a) = h + Len(B)
      /\ \A j \in 1 .. h : a[j] = H[j]
      /\ \A j \in h + 1 .. h + Len(B) : a[j] = B[j - h]
  <2>1. h = Len(H)
    BY DEF H
  <2> QED BY <1>1, <2>1, TextConcat
<1> HIDE DEF a
<1>7. /\ c \in Words /\ Len(E) \in Nat /\ Len(c) = Len(a) + Len(E)
      /\ \A j \in 1 .. Len(a) : c[j] = a[j]
      /\ \A j \in Len(a) + 1 .. Len(a) + Len(E) : c[j] = E[j - Len(a)]
  BY <1>6, <1>2, TextConcat
<1> HIDE DEF c
<1>8. \A j \in 1 .. h : c[j] = H[j]
  <2>1. \A j \in 1 .. h : j \in 1 .. Len(a)
    BY <1>6
  <2> QED BY <2>1, <1>6, <1>7
<1>9. ~r.chunked => h + n <= Len(c)
  BY <1>1, <1>4, <1>6, <1>7
<1>10. ASSUME ~Contains(d, ":"), NEW j \in h + 1 .. Len(c)
       PROVE  c[j] # ":"
  <2>1. /\ d \in Words /\ Len(d) = Len(B) + Len(E)
        /\ \A i \in 1 .. Len(B) : d[i] = B[i]
        /\ \A i \in Len(B) + 1 .. Len(B) + Len(E) : d[i] = E[i - Len(B)]
    BY <1>1, <1>2, TextConcat
  <2>2. \A i \in 1 .. Len(d) : d[i] # ":"
    BY <1>10 DEF Contains
  <2> HIDE DEF d
  <2>3. j - h \in 1 .. Len(d)
    BY <2>1, <1>6, <1>7
  <2>4. c[j] = d[j - h]
    <3>1. CASE j <= h + Len(B)
      <4>1. j \in 1 .. Len(a) /\ j \in h + 1 .. h + Len(B) /\ j - h \in 1 .. Len(B)
        BY <3>1, <1>6
      <4> QED BY <4>1, <2>1, <1>6, <1>7
    <3>2. CASE j > h + Len(B)
      <4>1. /\ j \in Len(a) + 1 .. Len(a) + Len(E)
            /\ j - h \in Len(B) + 1 .. Len(B) + Len(E)
            /\ j - h - Len(B) = j - Len(a)
        BY <3>2, <1>6, <1>7
      <4> QED BY <4>1, <2>1, <1>7
    <3>3. j <= h + Len(B) \/ j > h + Len(B)
      BY <1>6
    <3> QED BY <3>1, <3>2, <3>3
  <2> QED BY <2>2, <2>3, <2>4
<1>11. Len(c) \in Nat /\ h <= Len(c)
  BY <1>6, <1>7
<1> QED BY <1>1, <1>3, <1>7, <1>8, <1>9, <1>10, <1>11 DEF H, n, d, B, E

(* What the proofs below use of a stream.                                  *)
Wire(r, off, S, n) ==
  /\ HeadIs(r, off, S, n)
  /\ S = Stream(r) /\ n = Len(Fields(r)) /\ n \in Nat /\ n > 0

(* Every response is sent that way.                                        *)
LEMMA WireExists ==
  ASSUME NEW r \in Responses
  PROVE  \E off : Wire(r, off, Stream(r), Len(Fields(r)))
<1> DEFINE n == Len(Fields(r))
           S == Stream(r)
           H == HeadText(r)
<1>1. n \in Nat /\ n > 0
  BY FieldsAre
<1>2. PICK off : HeadIs(r, off, H, n)
  BY HeadIsSent
<1>3. off[n] \in Nat /\ Len(H) = off[n] + 2 /\ \A j \in 1 .. Len(H) : S[j] = H[j]
  <2>1. off[n] \in Nat /\ Len(H) = off[n] + 2
    BY <1>1, <1>2 DEF HeadIs
  <2>2. \A j \in 1 .. Len(H) : S[j] = H[j]
    BY StreamIs
  <2> QED BY <2>1, <2>2
<1> HIDE DEF n, S, H
<1>4. off \in [0 .. n -> Nat] /\ off[0] = 12 /\ off[1] <= off[n] /\ off[1] >= 12 /\ off[n] >= 12
  <2>1. /\ off \in [0 .. n -> Nat] /\ off[0] = 12
        /\ \A k \in 1 .. n : off[k] = off[k - 1] + Len(FieldLines(r)[k]) /\ off[k] <= off[n]
    BY <1>2 DEF HeadIs
  <2>2. off[1] = off[1 - 1] + Len(FieldLines(r)[1]) /\ off[1] <= off[n] /\ 1 \in 1 .. n
    BY <2>1, <1>1
  <2>3. FieldLines(r)[1] \in Words
    BY <2>2, FieldLinesIs DEF n
  <2>4. Len(FieldLines(r)[1]) \in Nat
    BY <2>3 DEF Words
  <2> QED BY <2>1, <2>2, <2>4, <1>1
<1>5. HeadIs(r, off, S, n)
  <2>1. \A k \in 1 .. n : \A i \in off[k - 1] + 1 .. off[k] : i \in 1 .. Len(H)
    <3> TAKE k \in 1 .. n
    <3> TAKE i \in off[k - 1] + 1 .. off[k]
    <3>1. off[k] <= off[n] /\ off[k] \in Nat /\ off[k - 1] \in Nat
      BY <1>2, <1>1, <1>4 DEF HeadIs
    <3> QED BY <3>1, <1>3
  <2>2. \A j \in 1 .. 12 : j \in 1 .. Len(H)
    BY <1>3, <1>4
  <2>3. off[n] + 1 \in 1 .. Len(H) /\ off[n] + 2 \in 1 .. Len(H)
    BY <1>3
  <2> QED BY <1>2, <1>3, <2>1, <2>2, <2>3 DEF HeadIs, H
<1> QED BY <1>1, <1>5 DEF Wire, n, S

(* The line of the k-th field, which begins behind b.                      *)
FieldAt(f, S, b, K, V) ==
  /\ \A i \in b + 1 .. b + K : S[i] = f[1][i - b]
  /\ S[b + K + 1] = ":" /\ S[b + K + 2] = SP
  /\ \A i \in b + K + 3 .. b + K + V + 2 : S[i] = f[2][i - (b + K + 2)]
  /\ S[b + K + V + 3] = CR /\ S[b + K + V + 4] = LF

(* The k-th field, where it is in the stream.                              *)
LEMMA WireField ==
  ASSUME NEW r \in Responses, NEW off, NEW S, NEW n, Wire(r, off, S, n),
         NEW k \in 1 .. n, NEW f, f = Fields(r)[k]
  PROVE  /\ IsPair(f) /\ Plain(f) /\ (k # Len(r.before) + 1 => Unframed(f))
         /\ Len(f[1]) \in Nat /\ Len(f[2]) \in Nat
         /\ off[k - 1] \in Nat /\ off[k - 1] >= 12 /\ off[k] \in Nat /\ off[n] \in Nat /\ off[k] <= off[n]
         /\ off[k] = off[k - 1] + Len(f[1]) + Len(f[2]) + 4
         /\ FieldAt(f, S, off[k - 1], Len(f[1]), Len(f[2]))
<1> DEFINE b == off[k - 1]
           L == FieldLines(r)[k]
           K == Len(f[1])
           V == Len(f[2])
<1>1. n = Len(Fields(r)) /\ n \in Nat /\ n > 0 /\ HeadIs(r, off, S, n)
  BY DEF Wire
<1>2. IsPair(f) /\ Plain(f) /\ (k # Len(r.before) + 1 => Unframed(f))
  <2> QED BY <1>1, FieldsAre
<1> DEFINE key == f[1]
           value == f[2]
<1>3. key \in Words /\ value \in Words /\ f = <<key, value>> /\ K \in Nat /\ V \in Nat
  BY <1>2 DEF IsPair, Words
<1>4. L = FieldLine(<<key, value>>)
  BY <1>1, <1>3, FieldLinesIs
<1>k. K = Len(key) /\ V = Len(value)
  OBVIOUS
<1> HIDE DEF L, K, V, key, value
<1>5. /\ Len(L) = K + V + 4
      /\ \A i \in 1 .. K : L[i] = key[i]
      /\ L[K + 1] = ":" /\ L[K + 2] = SP
      /\ \A i \in K + 3 .. K + V + 2 : L[i] = value[i - (K + 2)]
      /\ L[K + V + 3] = CR /\ L[K + V + 4] = LF
  <2>1. LineIs(L, key, value, K, V)
    BY <1>3, <1>4, <1>k, FieldLineIs
  <2> QED BY <2>1 DEF LineIs
<1>6. /\ off[k] = b + Len(L) /\ off[k] <= off[n]
      /\ \A i \in b + 1 .. off[k] : S[i] = L[i - b]
      /\ b \in Nat /\ off[k] \in Nat /\ off[n] \in Nat
  <2>1. k - 1 \in 0 .. n /\ k \in 0 .. n /\ n \in 0 .. n
    BY <1>1
  <2> QED BY <1>1, <2>1 DEF HeadIs, L
<1>7. b >= 12
  <2> DEFINE T == {j \in 0 .. n : off[j] >= 12}
  <2>1. 0 \in T
    BY <1>1 DEF HeadIs
  <2>2. ASSUME NEW j \in 0 .. n - 1, j \in T PROVE j + 1 \in T
    <3>1. j + 1 \in 1 .. n /\ j + 1 - 1 = j /\ j \in 0 .. n
      BY <1>1
    <3>2. off[j + 1] = off[j + 1 - 1] + Len(FieldLines(r)[j + 1])
      BY <3>1, <1>1 DEF HeadIs
    <3>3. FieldLines(r)[j + 1] \in Words
      BY <3>1, <1>1, FieldLinesIs
    <3>4. Len(FieldLines(r)[j + 1]) \in Nat
      BY <3>3 DEF Words
    <3>5. off[j] \in Nat /\ off[j] >= 12
      BY <3>1, <2>2, <1>1 DEF HeadIs
    <3>6. off[j + 1] >= 12
      BY <3>1, <3>2, <3>4, <3>5
    <3> QED BY <3>1, <3>6
  <2>3. \A j \in 0 .. n : j \in T
    <3> HIDE DEF T
    <3> QED BY <1>1, <2>1, <2>2, Induct
  <2>4. k - 1 \in 0 .. n
    BY <1>1
  <2> QED BY <2>3, <2>4
<1> HIDE DEF b
<1>8. off[k] = b + K + V + 4
  BY <1>3, <1>5, <1>6
<1>9. \A i \in b + 1 .. b + K + V + 4 : S[i] = L[i - b]
  BY <1>6, <1>8
<1>10. ASSUME NEW j \in 1 .. K + V + 4 PROVE S[b + j] = L[j]
  <2> DEFINE i == b + j
  <2>1. i \in b + 1 .. b + K + V + 4 /\ i - b = j
    BY <1>3, <1>6
  <2>2. S[i] = L[j]
    <3> HIDE DEF i
    <3> QED BY <2>1, <1>9
  <2> QED BY <2>2
<1>11. /\ S[b + K + 1] = ":" /\ S[b + K + 2] = SP
       /\ S[b + K + V + 3] = CR /\ S[b + K + V + 4] = LF
  <2>1. /\ K + 1 \in 1 .. K + V + 4 /\ K + 2 \in 1 .. K + V + 4
        /\ K + V + 3 \in 1 .. K + V + 4 /\ K + V + 4 \in 1 .. K + V + 4
    BY <1>3
  <2>2. /\ S[b + (K + 1)] = ":" /\ S[b + (K + 2)] = SP
        /\ S[b + (K + V + 3)] = CR /\ S[b + (K + V + 4)] = LF
    BY <2>1, <1>5, <1>10
  <2>3. /\ b + (K + 1) = b + K + 1 /\ b + (K + 2) = b + K + 2
        /\ b + (K + V + 3) = b + K + V + 3 /\ b + (K + V + 4) = b + K + V + 4
    BY <1>3, <1>6
  <2> QED BY <2>2, <2>3
<1>12. \A i \in b + 1 .. b + K : S[i] = key[i - b]
  <2> TAKE i \in b + 1 .. b + K
  <2>1. i \in b + 1 .. b + K + V + 4 /\ i - b \in 1 .. K
    BY <1>3, <1>6
  <2> QED BY <2>1, <1>5, <1>9
<1>13. \A i \in b + K + 3 .. b + K + V + 2 : S[i] = value[i - (b + K + 2)]
  <2> TAKE i \in b + K + 3 .. b + K + V + 2
  <2>1. /\ i \in b + 1 .. b + K + V + 4 /\ i - b \in K + 3 .. K + V + 2
        /\ i - b - (K + 2) = i - (b + K + 2)
    BY <1>3, <1>6
  <2>2. S[i] = L[i - b] /\ L[i - b] = value[i - b - (K + 2)]
    BY <2>1, <1>5, <1>9
  <2> QED BY <2>1, <2>2
<1>14. FieldAt(f, S, b, K, V)
  BY <1>11, <1>12, <1>13 DEF FieldAt, key, value
<1> QED BY <1>2, <1>3, <1>6, <1>7, <1>8, <1>14 DEF b, K, V, key, value

(* A line feed ends a line.                                                *)
LEMMA LineFeeds ==
  ASSUME NEW r \in Responses, NEW off, NEW S, NEW n, Wire(r, off, S, n),
         NEW j \in 1 .. off[n], S[j] = LF
  PROVE  \E k \in 0 .. n : j = off[k]
<1>1. /\ n \in Nat /\ n > 0 /\ off[0] = 12 /\ \A i \in 1 .. 12 : S[i] = StatusLine[i]
      /\ j <= 12 \/ \E k \in 1 .. n : j \in off[k - 1] + 1 .. off[k]
  BY DEF Wire, HeadIs
<1>2. off[n] \in Nat
  <2>1. n \in 1 .. n
    BY <1>1
  <2> QED BY <2>1, WireField
<1>3. CASE j <= 12
  <2>1. j \in 1 .. 12
    BY <1>2, <1>3
  <2>2. \A i \in 1 .. 11 : StatusLine[i] # LF
    <3>1. \A i \in 1 .. 11 : \/ i = 1 \/ i = 2 \/ i = 3 \/ i = 4 \/ i = 5 \/ i = 6
                             \/ i = 7 \/ i = 8 \/ i = 9 \/ i = 10 \/ i = 11
      OBVIOUS
    <3>2. SP # LF
      BY Zenon DEF SP, LF
    <3> QED BY <3>1, <3>2, StatusLineIs DEF CR, LF
  <2>3. j = 12
    BY <2>1, <2>2, <1>1
  <2> QED BY <2>3, <1>1
<1>4. CASE \E k \in 1 .. n : j \in off[k - 1] + 1 .. off[k]
  <2>1. PICK k \in 1 .. n : j \in off[k - 1] + 1 .. off[k]
    BY <1>4
  <2> DEFINE f == Fields(r)[k]
             b == off[k - 1]
             K == Len(f[1])
             V == Len(f[2])
  <2>2. /\ Plain(f) /\ K \in Nat /\ V \in Nat /\ b \in Nat /\ off[k] = b + K + V + 4
        /\ FieldAt(f, S, b, K, V)
    BY WireField
  <2> HIDE DEF f, b, K, V
  <2>3. j \in b + 1 .. b + K + V + 4
    BY <2>1, <2>2 DEF b
  <2>4. CASE j \in b + 1 .. b + K
    <3>1. j - b \in 1 .. K /\ S[j] = f[1][j - b]
      BY <2>2, <2>4 DEF FieldAt
    <3>2. \A i \in 1 .. K : f[1][i] # LF
      BY <2>2 DEF Plain, K
    <3> QED BY <3>1, <3>2
  <2>5. CASE j \in b + K + 3 .. b + K + V + 2
    <3>1. j - (b + K + 2) \in 1 .. V /\ S[j] = f[2][j - (b + K + 2)]
      BY <2>2, <2>5 DEF FieldAt
    <3>2. \A i \in 1 .. V : f[2][i] # LF
      BY <2>2 DEF Plain, V
    <3> QED BY <3>1, <3>2
  <2>6. CASE j = b + K + 1 \/ j = b + K + 2 \/ j = b + K + V + 3
    <3>1. SP # LF /\ ":" # LF /\ CR # LF
      BY Zenon DEF SP, CR, LF
    <3> QED BY <3>1, <2>2, <2>6 DEF FieldAt
  <2>7. CASE j = b + K + V + 4
    BY <2>7, <2>2, <1>1
  <2> QED BY <2>2, <2>3, <2>4, <2>5, <2>6, <2>7
<1> QED BY <1>1, <1>3, <1>4

(* Only behind the last field does a carriage return follow one.           *)
LEMMA NoEmptyLine ==
  ASSUME NEW r \in Responses, NEW off, NEW S, NEW n, Wire(r, off, S, n),
         NEW k \in 0 .. n - 1
  PROVE  S[off[k] + 1] # CR
<1>1. n \in Nat /\ k + 1 \in 1 .. n /\ k + 1 - 1 = k
  BY DEF Wire
<1> DEFINE f == Fields(r)[k + 1]
           b == off[k]
           K == Len(f[1])
           V == Len(f[2])
<1>2. Plain(f) /\ K \in Nat /\ V \in Nat /\ b \in Nat /\ FieldAt(f, S, b, K, V)
  BY <1>1, WireField
<1> HIDE DEF f, b, K, V
<1>3. CASE K = 0
  <2>1. S[b + K + 1] = ":" /\ ":" # CR
    BY <1>2 DEF FieldAt, CR
  <2> QED BY <2>1, <1>2, <1>3 DEF b
<1>4. CASE K # 0
  <2>1. b + 1 \in b + 1 .. b + K /\ b + 1 - b = 1 /\ 1 \in 1 .. K
    BY <1>2, <1>4
  <2>2. S[b + 1] = f[1][b + 1 - b]
    BY <2>1, <1>2 DEF FieldAt
  <2>3. f[1][1] # CR
    BY <2>1, <1>2 DEF Plain, K
  <2> QED BY <2>1, <2>2, <2>3 DEF b
<1> QED BY <1>3, <1>4

(* The first empty line is the end of the header: a segment that ends with *)
(* a line cannot hide another.                                             *)
LEMMA FirstEmptyLine ==
  ASSUME NEW r \in Responses, NEW off, NEW S, NEW n, Wire(r, off, S, n),
         NEW j \in Nat, j > 0, S[j] = LF, S[j + 1] = CR
  PROVE  j + 2 >= Len(HeadText(r))
<1>1. n \in Nat /\ n > 0 /\ off[n] \in Nat /\ Len(HeadText(r)) = off[n] + 2
  <2>1. n \in Nat /\ n > 0 /\ Len(HeadText(r)) = off[n] + 2
    BY DEF Wire, HeadIs
  <2>2. n \in 1 .. n
    BY <2>1
  <2> QED BY <2>1, <2>2, WireField
<1>2. CASE j <= off[n]
  <2>1. PICK k \in 0 .. n : j = off[k]
    BY <1>1, <1>2, LineFeeds
  <2>2. k \notin 0 .. n - 1
    BY <2>1, NoEmptyLine
  <2> QED BY <2>1, <2>2, <1>1
<1>3. CASE j > off[n]
  BY <1>1, <1>3
<1> QED BY <1>1, <1>2, <1>3

(* The types.  Text comes from the stream; the length of a chunk can be    *)
(* read as a number below zero, but no other number can become one.        *)
InHeader == {"protocol", "version", "status_code", "status_desc", "header_key", "header_value"}
BehindHeader == {"body", "chunk_len", "chunk_buff"}

ResType ==
  [parse_step : InHeader \cup BehindHeader, status : Words, headers : Seq(Words \X Words),
   chunked : BOOLEAN, content_length : Nat, chunk_length : Int, recived_length : Nat]

TypeInvariant ==
  /\ response \in Responses
  /\ got \in Nat /\ got <= Len(stream) /\ from \in Nat /\ at \in Nat /\ at > 0
  /\ res \in ResType /\ tmp \in Words /\ tmp2 \in Words
  /\ delivered \in Seq(Nat) /\ finish \in BOOLEAN /\ fault \in BOOLEAN

(* Of a body whose length is known something is still to come, as long as  *)
(* it is not finished.                                                     *)
CountsFit ==
  res.parse_step = "body" /\ res.content_length > 0 /\ ~finish =>
    res.recived_length < res.content_length

Typed == TypeInvariant /\ CountsFit /\ (res.parse_step \in InHeader => res.recived_length = 0)

(* Increasing positions behind h, before a, up to g.                       *)
Sorted(d, h, a, g) ==
  \A i \in 1 .. Len(d) :
    d[i] > h /\ d[i] < a /\ d[i] <= g /\ \A j \in 1 .. i - 1 : d[j] < d[i]

(* Where the loop is, and what has been delivered up to there.             *)
Positions ==
  /\ Sorted(delivered, HeadLength, at, got)
  /\ res.parse_step \in InHeader => delivered = <<>> /\ ~finish
  /\ res.parse_step \in BehindHeader => got >= HeadLength /\ at > HeadLength
  /\ finish => at > got

(* What arrives, and how long its header is.                               *)
LEMMA StreamSent ==
  ASSUME response \in Responses
  PROVE  stream = Stream(response) /\ HeadLength = Len(HeadText(response))
BY DEF stream, Streams, HeadLength, HeadLengths

(* What the loop sees.                                                     *)
LEMMA AtIs ==
  ASSUME TypeInvariant, NEW j \in Nat, j > 0
  PROVE  /\ j <= got => At(j) = stream[j] /\ At(j) \in Symbols
         /\ LineEnd(j) => j + 1 <= got /\ stream[j] = CR /\ stream[j + 1] = LF
<1>1. stream \in Words /\ got \in Nat /\ got <= Len(stream) /\ Len(stream) \in Nat
  BY StreamIs, StreamSent DEF TypeInvariant
<1>2. j <= got => stream[j] \in Symbols
  BY <1>1 DEF Words
<1>3. j <= got => At(j) = stream[j]
  BY DEF At
<1>4. ASSUME LineEnd(j) PROVE j + 1 <= got /\ stream[j] = CR /\ stream[j + 1] = LF
  <2>1. At(j) = CR /\ At(j + 1) = LF
    BY <1>4 DEF LineEnd
  <2>2. CR # "NUL" /\ LF # "NUL"
    BY DEF CR, LF
  <2>3. j <= got /\ j + 1 <= got
    BY <2>1, <2>2, <1>1 DEF At
  <2>4. At(j) = stream[j] /\ At(j + 1) = stream[j + 1]
    BY <2>3 DEF At
  <2> QED BY <2>1, <2>3, <2>4
<1> QED BY <1>2, <1>3, <1>4

(* A symbol more.                                                          *)
LEMMA AppendText ==
  ASSUME NEW t \in Words, NEW c \in Symbols
  PROVE  /\ Append(t, c) \in Words /\ Len(t) \in Nat /\ Len(Append(t, c)) = Len(t) + 1
         /\ \A i \in 1 .. Len(t) : Append(t, c)[i] = t[i]
         /\ Append(t, c)[Len(t) + 1] = c
BY DEF Words

(* What Give does: the characters follow those that were given before.     *)
Follows(d, a, n, e) ==
  /\ e \in Seq(Nat) /\ Len(d) \in Nat /\ Len(e) = Len(d) + n
  /\ \A i \in 1 .. Len(d) : e[i] = d[i]
  /\ \A i \in Len(d) + 1 .. Len(d) + n : e[i] = a + (i - Len(d)) - 1

(* Give appends n positions, from a on.                                    *)
LEMMA Given ==
  ASSUME NEW d \in Seq(Nat), NEW a \in Nat, a > 0, NEW n \in Nat, NEW e,
         e = d \o [j \in 1 .. n |-> a + j - 1]
  PROVE  Follows(d, a, n, e)
<1> DEFINE g == [j \in 1 .. n |-> a + j - 1]
<1>1. g \in Seq(Nat) /\ Len(g) = n /\ \A j \in 1 .. n : g[j] = a + j - 1
  OBVIOUS
<1> HIDE DEF g
<1>2. e = d \o g
  BY DEF g
<1>3. /\ e \in Seq(Nat) /\ Len(e) = Len(d) + Len(g)
      /\ \A j \in 1 .. Len(d) : e[j] = d[j]
      /\ \A i \in Len(d) + 1 .. Len(d) + Len(g) : e[i] = g[i - Len(d)]
  <2>1. /\ d \o g \in Seq(Nat) /\ Len(d \o g) = Len(d) + Len(g)
        /\ \A j \in 1 .. Len(d) : (d \o g)[j] = d[j]
        /\ \A i \in Len(d) + 1 .. Len(d) + Len(g) : (d \o g)[i] = g[i - Len(d)]
    BY <1>1, ConcatAt
  <2> QED BY <2>1, <1>2
<1>4. Len(d) \in Nat
  OBVIOUS
<1>5. ASSUME NEW i \in Len(d) + 1 .. Len(d) + n PROVE e[i] = a + (i - Len(d)) - 1
  <2>1. i - Len(d) \in 1 .. n
    BY <1>4
  <2> QED BY <2>1, <1>1, <1>3
<1> QED BY <1>1, <1>3, <1>4, <1>5 DEF Follows

(* Give(0) leaves delivered as it is.                                      *)
LEMMA NothingGiven ==
  ASSUME NEW d \in Seq(Nat), NEW a \in Nat, NEW n \in Int, n <= 0
  PROVE  d \o [j \in 1 .. n |-> a + j - 1] = d
<1>1. 1 .. n = {}
  OBVIOUS
<1>2. [j \in 1 .. n |-> a + j - 1] = <<>>
  BY <1>1
<1>3. d \o <<>> = d
  OBVIOUS
<1> QED BY <1>2, <1>3

(* What arrives is settled by the response.                                *)
LEMMA SameStream ==
  ASSUME UNCHANGED response
  PROVE  stream' = stream /\ HeadLength' = HeadLength
BY DEF stream, Streams, HeadLength, HeadLengths

(* What a complete field does to the response.                             *)
FieldSays(q, r, key, value) ==
  /\ q \in ResType
  /\ q.parse_step = r.parse_step /\ q.status = r.status
  /\ q.recived_length = r.recived_length /\ q.chunk_length = r.chunk_length
  /\ q.headers = Append(r.headers, <<key, value>>)
  /\ q.chunked = (r.chunked \/ (key = <<"Transfer-Encoding">> /\ value = <<"chunked">>))
  /\ q.content_length = IF key = <<"Content-Length">> THEN atoi(value) ELSE r.content_length

(* Field does it.                                                          *)
LEMMA FieldIs ==
  ASSUME NEW r \in ResType, NEW key \in Words, NEW value \in Words, NEW q, q = Field(r, key, value)
  PROVE  FieldSays(q, r, key, value)
<1>1. atoi(value) \in Nat
  BY atoiIs DEF Words
<1>2. <<key, value>> \in Words \X Words
  OBVIOUS
<1>3. Append(r.headers, <<key, value>>) \in Seq(Words \X Words)
  BY <1>2 DEF ResType
<1>4. <<key, value>> = << <<"Transfer-Encoding">>, <<"chunked">> >> <=>
        key = <<"Transfer-Encoding">> /\ value = <<"chunked">>
  OBVIOUS
<1> QED BY <1>1, <1>3, <1>4 DEF Field, ResType, FieldSays

(* The parser begins with nothing read.                                    *)
LEMMA TypedInit ==
  ASSUME Init
  PROVE  Typed
<1>1. response \in Responses /\ Len(stream) \in Nat
  BY StreamIs, StreamSent DEF Init
<1>2. NewRes \in ResType
  <2>1. <<>> \in Words /\ <<>> \in Seq(Words \X Words)
    BY DEF Words
  <2> QED BY <2>1 DEF NewRes, ResType, InHeader, BehindHeader
<1>3. <<>> \in Words /\ <<>> \in Seq(Nat)
  BY DEF Words
<1>4. TypeInvariant
  <2>1. got = 0 /\ from = 1 /\ at = 1 /\ res = NewRes /\ tmp = <<>> /\ tmp2 = <<>> /\ delivered = <<>>
        /\ finish = FALSE /\ fault = FALSE
    BY DEF Init
  <2>2. got \in Nat /\ got <= Len(stream) /\ from \in Nat /\ at \in Nat /\ at > 0
    BY <1>1, <2>1
  <2>3. res \in ResType /\ tmp \in Words /\ tmp2 \in Words /\ delivered \in Seq(Nat)
        /\ finish \in BOOLEAN /\ fault \in BOOLEAN
    BY <1>2, <1>3, <2>1, Zenon
  <2> QED BY <1>1, <2>2, <2>3, Zenon DEF TypeInvariant
<1>5. NewRes.parse_step = "protocol" /\ NewRes.recived_length = 0
  BY DEF NewRes
<1> QED BY <1>4, <1>5 DEF Typed, CountsFit, Init

(* Each step of the parser keeps the types and the counts.                 *)
LEMMA TypedStep ==
  ASSUME Typed, Next
  PROVE  Typed'
<1> USE DEF Typed
<1>t. /\ response \in Responses
      /\ got \in Nat /\ got <= Len(stream) /\ from \in Nat /\ at \in Nat /\ at > 0
      /\ res \in ResType /\ tmp \in Words /\ tmp2 \in Words
      /\ delivered \in Seq(Nat) /\ finish \in BOOLEAN /\ fault \in BOOLEAN
  BY DEF TypeInvariant
<1>a. at <= got => At(at) \in Symbols
  BY <1>t, AtIs
<1>s. Quiet => UNCHANGED <<response, got, cuts, from, delivered, finish>>
  BY DEF Quiet, input
<1>e. <<>> \in Words
  BY DEF Words
<1>p. at <= got /\ Push => tmp' \in Words /\ at' = at + 1 /\ UNCHANGED <<res, tmp2>>
  BY <1>a, <1>t, AppendText DEF Push, Skip
<1>0. ASSUME UNCHANGED <<response, got, from>>, at' \in Nat, at' > 0, res' \in ResType,
             tmp' \in Words, tmp2' \in Words, delivered' \in Seq(Nat), finish' \in BOOLEAN,
             fault' \in BOOLEAN
      PROVE  TypeInvariant'
  BY <1>0, <1>t, SameStream DEF TypeInvariant
<1>q. ASSUME Quiet, at' = at \/ at' = at + 1 \/ at' = at + 2 \/ at' = at + 4, res' \in ResType,
             tmp' \in Words, tmp2' \in Words, fault' = fault \/ fault' = TRUE
      PROVE  TypeInvariant'
  <2>1. fault' \in BOOLEAN
    BY <1>q, <1>t, Zenon
  <2> QED BY <2>1, <1>0, <1>q, <1>t, <1>s
<1>i. ASSUME res'.parse_step \in InHeader \/ res'.parse_step = "body", res'.recived_length = 0,
             res'.content_length \in Nat
      PROVE  CountsFit' /\ (res'.parse_step \in InHeader => res'.recived_length = 0)
  BY <1>i DEF CountsFit, InHeader
<1>1. ASSUME NEW n \in 1 .. Len(stream) - got, response_recive(n) PROVE Typed'
  <2>1. got + n \in Nat /\ got + n <= Len(stream) /\ got' = got + n /\ from' = got + 1 /\ at' = got + 1
    BY <1>1, <1>t DEF response_recive
  <2>2. UNCHANGED <<response, res, delivered, finish, fault>> /\ tmp' = <<>> /\ tmp2' = <<>>
    BY <1>1 DEF response_recive
  <2>3. stream' = stream
    BY <2>2, SameStream
  <2>4. TypeInvariant'
    BY <2>1, <2>2, <2>3, <1>t, <1>e DEF TypeInvariant
  <2> QED BY <2>2, <2>4 DEF CountsFit
<1>2. ASSUME Protocol PROVE Typed'
  <2>1. Quiet /\ res.parse_step = "protocol" /\ res.recived_length = 0 /\ at <= got
    BY <1>2 DEF Protocol, Reading, InHeader
  <2>2. CASE Push /\ UNCHANGED fault
    <3>1. res' = res /\ at' = at + 1 /\ tmp' \in Words /\ tmp2' = tmp2
      BY <2>1, <2>2, <1>p
    <3> QED BY <3>1, <2>1, <2>2, <1>q, <1>i, <1>t DEF ResType, InHeader
  <2>3. ASSUME NEW step \in {"status_code", "version"}, Goto(step), tmp' = <<>>, Skip(1), UNCHANGED <<tmp2, fault>>
        PROVE  Typed'
    <3>1. /\ res' \in ResType /\ res'.parse_step = step /\ res'.recived_length = 0 /\ at' = at + 1
          /\ res'.content_length \in Nat
      BY <2>1, <2>3, <1>t DEF Goto, Skip, ResType, InHeader
    <3> QED BY <3>1, <2>1, <2>3, <1>q, <1>i, <1>e, <1>t DEF InHeader
  <2>4. CASE fault' = TRUE /\ UNCHANGED <<at, res, tmp, tmp2>>
    BY <2>1, <2>4, <1>q, <1>i, <1>t DEF ResType, InHeader
  <2>5. \/ Push /\ UNCHANGED fault
        \/ \E step \in {"status_code", "version"} :
             Goto(step) /\ tmp' = <<>> /\ Skip(1) /\ UNCHANGED <<tmp2, fault>>
        \/ fault' = TRUE /\ UNCHANGED <<at, res, tmp, tmp2>>
    <3>1. CASE /\ Goto(IF IsSuffix(<<"h", "t", "t", "p">>, tmp) THEN "status_code" ELSE "version")
               /\ tmp' = <<>> /\ Skip(1) /\ UNCHANGED <<tmp2, fault>>
      <4> DEFINE step == IF IsSuffix(<<"h", "t", "t", "p">>, tmp) THEN "status_code" ELSE "version"
      <4>1. step \in {"status_code", "version"}
        OBVIOUS
      <4>2. Goto(step)
        BY <3>1
      <4> HIDE DEF step
      <4> QED BY <3>1, <4>1, <4>2
    <3> QED BY <1>2, <3>1 DEF Protocol
  <2> QED BY <2>2, <2>3, <2>4, <2>5
<1>3. ASSUME Version PROVE Typed'
  <2>1. /\ res' \in ResType /\ tmp' \in Words /\ tmp2' = tmp2 /\ at' = at + 1
        /\ res'.parse_step \in InHeader /\ res'.recived_length = 0
    BY <1>3, <1>t, <1>e, <1>p DEF Version, Reading, Goto, Skip, InHeader, ResType
  <2> QED BY <2>1, <1>q, <1>i, <1>t, <1>3 DEF Version, ResType
<1>4. ASSUME StatusCode PROVE Typed'
  <2>1. /\ res' \in ResType /\ tmp' \in Words /\ tmp2' = tmp2 /\ at' = at + 1
        /\ res'.parse_step \in InHeader /\ res'.recived_length = 0
    BY <1>4, <1>t, <1>e, <1>p DEF StatusCode, Reading, Goto, Skip, InHeader, ResType
  <2> QED BY <2>1, <1>q, <1>i, <1>t, <1>4 DEF StatusCode, ResType
<1>5. ASSUME StatusDesc PROVE Typed'
  <2>1. /\ res' \in ResType /\ tmp' \in Words /\ tmp2' = tmp2 /\ (at' = at + 1 \/ at' = at + 2)
        /\ res'.parse_step \in InHeader /\ res'.recived_length = 0
    BY <1>5, <1>t, <1>e, <1>p DEF StatusDesc, Reading, Goto, Skip, InHeader, ResType
  <2> QED BY <2>1, <1>q, <1>i, <1>t, <1>5 DEF StatusDesc, ResType
<1>6. ASSUME HeaderKey PROVE Typed'
  <2>1. /\ res' \in ResType /\ tmp' \in Words /\ tmp2' = tmp2 /\ at' = at + 1
        /\ res'.parse_step \in InHeader /\ res'.recived_length = 0
    BY <1>6, <1>t, <1>e, <1>p DEF HeaderKey, Reading, Goto, Skip, InHeader, ResType
  <2> QED BY <2>1, <1>q, <1>i, <1>t, <1>6 DEF HeaderKey, ResType
<1>7. ASSUME HeaderValue PROVE Typed'
  <2>0. Quiet /\ res.parse_step = "header_value" /\ res.recived_length = 0 /\ at <= got /\ UNCHANGED fault
    BY <1>7 DEF HeaderValue, Reading, InHeader
  <2>1. CASE PushValue
    <3>1. at' = at + 1 /\ UNCHANGED <<res, tmp>> /\ tmp2' \in Words
      BY <2>0, <2>1, <1>a, <1>t, AppendText DEF PushValue, Skip
    <3> QED BY <3>1, <2>0, <1>q, <1>i, <1>t DEF ResType, InHeader
  <2>2. ASSUME NEW last \in BOOLEAN, EndField(last), at' = at + 2 \/ at' = at + 4 PROVE Typed'
    <3> DEFINE r == Field(res, tmp, tmp2)
               s == IF last THEN BodyStep(r) ELSE "header_key"
    <3>0. r = Field(res, tmp, tmp2)
      OBVIOUS
    <3>2. res' = [r EXCEPT !.parse_step = s] /\ tmp' = <<>> /\ tmp2' = <<>>
      BY <2>2 DEF EndField
    <3>3. s \in {"header_key", "body", "chunk_len"}
      BY DEF BodyStep
    <3> HIDE DEF r, s
    <3>1. r \in ResType /\ r.recived_length = 0
      <4>1. res \in ResType /\ tmp \in Words /\ tmp2 \in Words /\ res.recived_length = 0
        BY <1>t, <2>0
      <4>2. FieldSays(r, res, tmp, tmp2)
        BY <4>1, <3>0, FieldIs
      <4> QED BY <4>1, <4>2 DEF FieldSays
    <3>4. res' \in ResType /\ res'.parse_step = s /\ res'.recived_length = 0
      BY <3>1, <3>2, <3>3 DEF ResType, InHeader, BehindHeader
    <3>5. TypeInvariant'
      BY <3>2, <3>4, <2>0, <2>2, <1>q, <1>e
    <3>6. CountsFit'
      BY <3>3, <3>4 DEF CountsFit, ResType
    <3> QED BY <3>4, <3>5, <3>6
  <2> QED BY <1>7, <2>1, <2>2 DEF HeaderValue, Skip

<1>l. at <= got => Left \in Nat /\ Recived \in Nat /\ Recived = res.recived_length + Left /\ Left = got - at + 1
  BY <1>t DEF Left, Recived, ResType
<1>8. ASSUME Body PROVE Typed'
  <2> DEFINE n == IF res.content_length > 0 /\ Recived > res.content_length
                  THEN res.content_length - res.recived_length ELSE Left
  <2>1. /\ at <= got /\ res.parse_step = "body" /\ UNCHANGED <<response, got, from, tmp, tmp2, fault>>
        /\ at' = got + 1 /\ res' = [res EXCEPT !.recived_length = Recived] /\ Give(n)
        /\ finish' = (res.content_length > 0 /\ Recived >= res.content_length)
    BY <1>8 DEF Body, Reading, Count, Break, input
  <2>2. Recived \in Nat /\ Left \in Nat /\ res.content_length \in Nat /\ res.recived_length \in Nat
    BY <2>1, <1>l, <1>t DEF ResType
  <2>3. res' \in ResType /\ res'.recived_length = Recived /\ res'.parse_step = "body"
        /\ res'.content_length = res.content_length
    BY <2>1, <2>2, <1>t DEF ResType
  <2>4. n \in Int
    BY <2>2
  <2> HIDE DEF n
  <2>5. delivered' \in Seq(Nat)
    <3>1. delivered' = delivered \o [j \in 1 .. n |-> at + j - 1]
      BY <2>1 DEF Give
    <3>2. CASE n <= 0
      BY <3>1, <3>2, <2>4, <1>t, NothingGiven
    <3>3. CASE n > 0
      BY <3>1, <3>3, <2>4, <1>t, Given DEF Follows
    <3> QED BY <3>2, <3>3, <2>4
  <2>6. TypeInvariant'
    BY <2>1, <2>3, <2>5, <1>0, <1>t
  <2>7. CountsFit'
    <3>1. ~finish' => ~(res.content_length > 0 /\ Recived >= res.content_length)
      BY <2>1, Zenon
    <3> QED BY <3>1, <2>2, <2>3 DEF CountsFit
  <2> QED BY <2>3, <2>6, <2>7 DEF InHeader
<1>9. ASSUME ChunkLen PROVE Typed'
  <2>1. /\ at <= got /\ res.parse_step = "chunk_len" /\ UNCHANGED <<response, got, from, tmp2, delivered, fault>>
    BY <1>9 DEF ChunkLen, Reading, input
  <2>2. htoi(tmp) \in Int
    BY <1>t, htoiIs DEF Words
  <2>3. CASE Push /\ UNCHANGED finish
    <3>1. TypeInvariant'
      BY <2>1, <2>3, <1>p, <1>0, <1>t
    <3> QED BY <3>1, <2>1, <2>3, <1>p DEF CountsFit, InHeader
  <2>4. CASE res' = [res EXCEPT !.chunk_length = 0] /\ finish' = TRUE /\ Break /\ UNCHANGED tmp
    <3>1. res' \in ResType /\ res'.parse_step = "chunk_len" /\ at' = got + 1
      <4>1. res' = [res EXCEPT !.chunk_length = 0] /\ res \in ResType /\ res.parse_step = "chunk_len"
        BY <2>1, <2>4, <1>t
      <4>2. res' \in ResType /\ res'.parse_step = "chunk_len"
        BY <4>1 DEF ResType
      <4> QED BY <4>2, <2>4 DEF Break
    <3>2. TypeInvariant'
      BY <3>1, <2>1, <2>4, <1>0, <1>t
    <3> QED BY <3>1, <3>2 DEF CountsFit, InHeader
  <2>5. CASE /\ res' = [res EXCEPT !.chunk_length = htoi(tmp), !.recived_length = 0,
                                   !.parse_step = "chunk_buff"]
             /\ tmp' = <<>> /\ Skip(2) /\ UNCHANGED finish
    <3>1. /\ res' \in ResType /\ res'.parse_step = "chunk_buff" /\ at' = at + 2
          /\ res'.recived_length = 0
      BY <2>1, <2>2, <2>5, <1>t DEF ResType, Skip, BehindHeader
    <3>2. TypeInvariant'
      BY <3>1, <2>1, <2>5, <1>0, <1>t, <1>e
    <3> QED BY <3>1, <3>2 DEF CountsFit, InHeader
  <2> QED BY <1>9, <2>3, <2>4, <2>5 DEF ChunkLen
<1>10. ASSUME ChunkBuff PROVE Typed'
  <2> DEFINE need == res.chunk_length - res.recived_length
             down == IF at > from THEN need < 0 ELSE need < -1
             n == IF at > from THEN need ELSE 0
  <2>1. /\ at <= got /\ res.parse_step = "chunk_buff"
        /\ UNCHANGED <<response, got, from, tmp, tmp2, finish>>
        /\ \/ Recived > res.chunk_length /\ ~down /\ Give(n) /\ Goto("chunk_len") /\ Skip(need + 3) /\ UNCHANGED fault
           \/ fault' = TRUE /\ UNCHANGED <<at, res, delivered>>
           \/ Recived <= res.chunk_length /\ Give(Left) /\ Count /\ Break /\ UNCHANGED fault
    BY <1>10 DEF ChunkBuff, Reading, input
  <2>2. /\ need \in Int /\ Left \in Nat /\ Recived \in Nat
        /\ res.chunk_length \in Int /\ res.recived_length \in Nat
    BY <2>1, <1>l, <1>t DEF ResType
  <2>d. ~down => need >= -1 /\ n \in Nat
    <3> HIDE DEF need
    <3> QED BY <2>2, <1>t
  <2> HIDE DEF n, need, down
  <2>3. CASE Recived > res.chunk_length /\ ~down /\ Give(n) /\ Goto("chunk_len") /\ Skip(need + 3) /\ UNCHANGED fault
    <3>1. res' \in ResType /\ res'.parse_step = "chunk_len" /\ at' = at + (need + 3)
      BY <2>1, <2>3, <1>t DEF Goto, Skip, ResType, BehindHeader
    <3>2. delivered' \in Seq(Nat)
      BY <2>d, <2>3, <1>t, Given DEF Give, Follows
    <3>3. at' \in Nat /\ at' > 0
      BY <3>1, <2>2, <2>3, <2>d, <1>t
    <3>4. TypeInvariant'
      BY <3>1, <3>2, <3>3, <2>1, <2>3, <1>0, <1>t
    <3> QED BY <3>1, <3>4 DEF CountsFit, InHeader
  <2>4. CASE fault' = TRUE /\ UNCHANGED <<at, res, delivered>>
    <3>1. TypeInvariant'
      BY <2>1, <2>4, <1>0, <1>t
    <3> QED BY <3>1, <2>1, <2>4 DEF CountsFit, InHeader
  <2>5. CASE Recived <= res.chunk_length /\ Give(Left) /\ Count /\ Break /\ UNCHANGED fault
    <3>1. /\ res' \in ResType /\ res'.parse_step = "chunk_buff" /\ at' = got + 1
      BY <2>1, <2>2, <2>5, <1>t DEF Count, Break, ResType
    <3>2. delivered' \in Seq(Nat)
      BY <2>1, <2>2, <2>5, <1>t, Given DEF Give, Follows
    <3>3. TypeInvariant'
      BY <3>1, <3>2, <2>1, <2>5, <1>0, <1>t
    <3> QED BY <3>1, <3>3 DEF CountsFit, InHeader
  <2> QED BY <2>1, <2>3, <2>4, <2>5
<1> QED BY <1>1, <1>2, <1>3, <1>4, <1>5, <1>6, <1>7, <1>8, <1>9, <1>10 DEF Next, Step

----------------------------------------------------------------------------
(* Positions: the parser delivers only what is behind the empty line.      *)

(* What Give appends is behind everything that was given.                  *)
LEMMA SortedGiven ==
  ASSUME NEW d \in Seq(Nat), NEW a \in Nat, a > 0, NEW n \in Nat, NEW e, Follows(d, a, n, e),
         NEW h \in Nat, NEW g \in Nat, NEW b \in Nat,
         Sorted(d, h, a, g), n > 0 => a > h, a + n - 1 <= g, b >= a + n
  PROVE  Sorted(e, h, b, g)
<1>1. /\ e \in Seq(Nat) /\ Len(d) \in Nat /\ Len(e) = Len(d) + n
      /\ \A i \in 1 .. Len(d) : e[i] = d[i]
      /\ \A i \in Len(d) + 1 .. Len(d) + n : e[i] = a + (i - Len(d)) - 1
  BY DEF Follows
<1>2. ASSUME NEW i \in 1 .. Len(d)
      PROVE  e[i] > h /\ e[i] < b /\ e[i] <= g /\ \A j \in 1 .. i - 1 : e[j] < e[i]
  <2>1. d[i] \in Nat /\ d[i] > h /\ d[i] < a /\ d[i] <= g /\ \A j \in 1 .. i - 1 : d[j] < d[i]
    BY DEF Sorted
  <2>2. \A j \in 1 .. i - 1 : j \in 1 .. Len(d)
    BY <1>1
  <2> QED BY <2>1, <2>2, <1>1
<1>3. ASSUME NEW i \in Len(d) + 1 .. Len(d) + n
      PROVE  e[i] > h /\ e[i] < b /\ e[i] <= g /\ \A j \in 1 .. i - 1 : e[j] < e[i]
  <2>1. i - Len(d) \in 1 .. n /\ e[i] = a + (i - Len(d)) - 1 /\ n > 0
    BY <1>1
  <2>2. ASSUME NEW j \in 1 .. i - 1 PROVE e[j] < e[i]
    <3>1. CASE j <= Len(d)
      <4>1. j \in 1 .. Len(d)
        BY <3>1, <1>1
      <4>2. d[j] \in Nat /\ d[j] < a /\ e[j] = d[j]
        BY <4>1, <1>1 DEF Sorted
      <4> QED BY <4>2, <2>1
    <3>2. CASE j > Len(d)
      <4>1. j \in Len(d) + 1 .. Len(d) + n
        BY <3>2, <1>1
      <4>2. e[j] = a + (j - Len(d)) - 1
        BY <4>1, <1>1
      <4> QED BY <4>2, <2>1, <1>1
    <3> QED BY <3>1, <3>2, <1>1
  <2>3. e[i] > h /\ e[i] < b /\ e[i] <= g
    BY <2>1
  <2> QED BY <2>2, <2>3
<1>4. \A i \in 1 .. Len(e) : i \in 1 .. Len(d) \/ i \in Len(d) + 1 .. Len(d) + n
  BY <1>1
<1> QED BY <1>2, <1>3, <1>4 DEF Sorted

(* A later place and a later segment end bound what an earlier one does.   *)
LEMMA SortedLater ==
  ASSUME NEW d \in Seq(Nat), NEW h \in Nat, NEW a \in Nat, NEW g \in Nat, NEW b \in Nat, NEW f \in Nat,
         Sorted(d, h, a, g), f >= g, b >= a \/ b > g
  PROVE  Sorted(d, h, b, f)
<1>1. \A i \in 1 .. Len(d) : d[i] \in Nat
  OBVIOUS
<1> QED BY <1>1 DEF Sorted

(* Nothing is in order.                                                    *)
LEMMA SortedNone == \A h, a, g : Sorted(<<>>, h, a, g)
<1>1. 1 .. Len(<<>>) = {}
  OBVIOUS
<1> QED BY <1>1 DEF Sorted

(* Nothing is delivered at first.                                          *)
LEMMA PositionsInit ==
  ASSUME Init
  PROVE  Positions
<1>1. delivered = <<>> /\ res.parse_step = "protocol" /\ finish = FALSE
  BY DEF Init, NewRes
<1> QED BY <1>1, SortedNone DEF Positions, BehindHeader

(* An empty line is the end of the header.                                 *)
LEMMA EmptyLineAt ==
  ASSUME TypeInvariant, LineEnd(at), LineEnd(at + 2)
  PROVE  at + 3 >= HeadLength /\ at + 3 <= got
<1>1. at \in Nat /\ at > 0 /\ at + 2 \in Nat /\ at + 2 > 0 /\ got \in Nat /\ response \in Responses
  BY DEF TypeInvariant
<1>2. stream[at + 1] = LF /\ stream[at + 2] = CR /\ at + 2 + 1 <= got
  BY <1>1, AtIs
<1>3. PICK off : Wire(response, off, stream, Len(Fields(response)))
  BY <1>1, WireExists, StreamSent
<1> DEFINE j == at + 1
<1>4. j \in Nat /\ j > 0 /\ j + 1 = at + 2 /\ j + 2 = at + 3
  BY <1>1
<1>5. stream[j] = LF /\ stream[j + 1] = CR
  BY <1>2, <1>4
<1> HIDE DEF j
<1>6. j + 2 >= Len(HeadText(response))
  BY <1>1, <1>3, <1>4, <1>5, FirstEmptyLine
<1> QED BY <1>1, <1>2, <1>4, <1>6, StreamSent

(* Each step keeps the delivered positions in order and behind the header. *)
LEMMA PositionsStep ==
  ASSUME Typed, Positions, Next
  PROVE  Positions'
<1>t. /\ response \in Responses /\ TypeInvariant
      /\ got \in Nat /\ got <= Len(stream) /\ from \in Nat /\ at \in Nat /\ at > 0
      /\ res \in ResType /\ delivered \in Seq(Nat) /\ finish \in BOOLEAN
  BY DEF Typed, TypeInvariant
<1>h. HeadLength \in Nat
  BY <1>t, StreamIs, StreamSent
<1>s. Quiet => UNCHANGED <<response, got, cuts, from, delivered, finish>>
  BY DEF Quiet, input
<1>p. Push => at' = at + 1 /\ UNCHANGED <<res, tmp2>>
  BY DEF Push, Skip
<1>q. ASSUME Quiet, res.parse_step \in InHeader, at <= got, at' \in Nat, at' >= at,
             \/ res'.parse_step \in InHeader
             \/ res'.parse_step \in BehindHeader /\ at' > HeadLength /\ got >= HeadLength
      PROVE  Positions'
  <2>1. UNCHANGED <<response, got, delivered, finish>> /\ HeadLength' = HeadLength
    BY <1>q, <1>s, SameStream
  <2>2. delivered = <<>> /\ ~finish
    BY <1>q DEF Positions
  <2>3. Sorted(delivered', HeadLength', at', got')
    BY <2>1, <2>2, SortedNone
  <2>4. \A x : ~(x \in InHeader /\ x \in BehindHeader)
    BY DEF InHeader, BehindHeader
  <2> QED BY <1>q, <2>1, <2>2, <2>3, <2>4 DEF Positions
<1>1. ASSUME NEW n \in 1 .. Len(stream) - got, response_recive(n) PROVE Positions'
  <2>1. /\ got' = got + n /\ at' = got + 1 /\ at > got /\ ~finish
        /\ UNCHANGED <<response, res, delivered, finish>>
    BY <1>1 DEF response_recive
  <2>2. HeadLength' = HeadLength
    BY <2>1, SameStream
  <2>3. got' \in Nat /\ at' \in Nat /\ got' >= got /\ at' > got
    BY <2>1, <1>t
  <2>4. Sorted(delivered, HeadLength, at', got')
    BY <2>3, <1>t, <1>h, SortedLater DEF Positions
  <2> QED BY <2>1, <2>2, <2>3, <2>4, <1>t, <1>h DEF Positions
<1>2. ASSUME Protocol PROVE Positions'
  <2>1. /\ Quiet /\ at <= got /\ (at' = at + 1 \/ at' = at)
        /\ res.parse_step \in InHeader /\ res'.parse_step \in InHeader
    BY <1>2, <1>t, <1>p DEF Protocol, Reading, Goto, Skip, InHeader, ResType
  <2>2. at' \in Nat /\ at' >= at
    BY <2>1, <1>t
  <2> QED BY <2>1, <2>2, <1>q
<1>3. ASSUME Version PROVE Positions'
  <2>1. /\ Quiet /\ at <= got /\ at' = at + 1
        /\ res.parse_step \in InHeader /\ res'.parse_step \in InHeader
    BY <1>3, <1>t, <1>p DEF Version, Reading, Goto, Skip, InHeader, ResType
  <2>2. at' \in Nat /\ at' >= at
    BY <2>1, <1>t
  <2> QED BY <2>1, <2>2, <1>q
<1>4. ASSUME StatusCode PROVE Positions'
  <2>1. /\ Quiet /\ at <= got /\ at' = at + 1
        /\ res.parse_step \in InHeader /\ res'.parse_step \in InHeader
    BY <1>4, <1>t, <1>p DEF StatusCode, Reading, Goto, Skip, InHeader, ResType
  <2>2. at' \in Nat /\ at' >= at
    BY <2>1, <1>t
  <2> QED BY <2>1, <2>2, <1>q
<1>5. ASSUME StatusDesc PROVE Positions'
  <2>1. /\ Quiet /\ at <= got /\ (at' = at + 1 \/ at' = at + 2)
        /\ res.parse_step \in InHeader /\ res'.parse_step \in InHeader
    BY <1>5, <1>t, <1>p DEF StatusDesc, Reading, Goto, Skip, InHeader, ResType
  <2>2. at' \in Nat /\ at' >= at
    BY <2>1, <1>t
  <2> QED BY <2>1, <2>2, <1>q
<1>6. ASSUME HeaderKey PROVE Positions'
  <2>1. /\ Quiet /\ at <= got /\ at' = at + 1
        /\ res.parse_step \in InHeader /\ res'.parse_step \in InHeader
    BY <1>6, <1>t, <1>p DEF HeaderKey, Reading, Goto, Skip, InHeader, ResType
  <2>2. at' \in Nat /\ at' >= at
    BY <2>1, <1>t
  <2> QED BY <2>1, <2>2, <1>q
<1>7. ASSUME HeaderValue PROVE Positions'
  <2>0. Quiet /\ res.parse_step = "header_value" /\ res.parse_step \in InHeader /\ at <= got
    BY <1>7 DEF HeaderValue, Reading, InHeader
  <2>r. Field(res, tmp, tmp2) \in ResType
    <3>1. tmp \in Words /\ tmp2 \in Words
      BY <1>t DEF TypeInvariant
    <3>2. FieldSays(Field(res, tmp, tmp2), res, tmp, tmp2)
      BY <3>1, <1>t, FieldIs
    <3> QED BY <3>2 DEF FieldSays
  <2>1. CASE PushValue
    <3>1. at' = at + 1 /\ UNCHANGED res
      BY <2>1 DEF PushValue, Skip
    <3>2. at' \in Nat /\ at' >= at
      BY <3>1, <1>t
    <3> QED BY <3>1, <3>2, <2>0, <1>q
  <2>2. CASE EndField(FALSE) /\ Skip(2)
    <3>1. res'.parse_step = "header_key" /\ at' = at + 2
      BY <2>2, <2>r DEF EndField, Skip, ResType
    <3>2. at' \in Nat /\ at' >= at /\ res'.parse_step \in InHeader
      BY <3>1, <1>t DEF InHeader
    <3> QED BY <3>2, <2>0, <1>q
  <2>3. CASE LineEnd(at) /\ LineEnd(at + 2) /\ EndField(TRUE) /\ Skip(4)
    <3>1. res'.parse_step \in BehindHeader /\ at' = at + 4
      BY <2>3, <2>r DEF EndField, BodyStep, Skip, ResType, BehindHeader
    <3>2. at + 3 >= HeadLength /\ at + 3 <= got
      BY <2>3, <1>t, EmptyLineAt
    <3> QED BY <3>1, <3>2, <2>0, <1>q, <1>t, <1>h
  <2> QED BY <1>7, <2>1, <2>2, <2>3 DEF HeaderValue
<1>b. ASSUME res.parse_step \in BehindHeader, UNCHANGED <<response, got>>, at <= got,
             at' \in Nat, at' >= at, res'.parse_step \in BehindHeader,
             Sorted(delivered', HeadLength, at', got), finish' => at' > got
      PROVE  Positions'
  <2>1. HeadLength' = HeadLength /\ got >= HeadLength /\ at' > HeadLength
    BY <1>b, <1>t, <1>h, SameStream DEF Positions
  <2>2. \A x : ~(x \in InHeader /\ x \in BehindHeader)
    BY DEF InHeader, BehindHeader
  <2> QED BY <1>b, <2>1, <2>2 DEF Positions
<1>l. at <= got => Left \in Nat /\ Recived \in Nat /\ Recived = res.recived_length + Left /\ Left = got - at + 1
  BY <1>t DEF Left, Recived, ResType
<1>k. Sorted(delivered, HeadLength, at, got) /\ (res.parse_step \in BehindHeader => at > HeadLength)
  BY DEF Positions
<1>8. ASSUME Body PROVE Positions'
  <2> DEFINE n == IF res.content_length > 0 /\ Recived > res.content_length
                  THEN res.content_length - res.recived_length ELSE Left
  <2>1. /\ at <= got /\ res.parse_step = "body" /\ UNCHANGED <<response, got>>
        /\ at' = got + 1 /\ res' = [res EXCEPT !.recived_length = Recived]
        /\ delivered' = delivered \o [j \in 1 .. n |-> at + j - 1]
    BY <1>8 DEF Body, Reading, Count, Break, input, Give
  <2>2. Recived \in Nat /\ Left \in Nat /\ res.content_length \in Nat /\ res.recived_length \in Nat
        /\ Recived = res.recived_length + Left /\ Left = got - at + 1
    BY <2>1, <1>l, <1>t DEF ResType
  <2>3. ~finish
    BY <2>1, <1>t DEF Positions
  <2>4. res.content_length > 0 => res.recived_length < res.content_length
    BY <2>1, <2>3 DEF Typed, CountsFit
  <2>5. n \in Nat /\ n <= Left
    BY <2>2, <2>4
  <2> HIDE DEF n
  <2>6. Sorted(delivered', HeadLength, at', got)
    <3>1. at + n - 1 <= got /\ at' >= at + n /\ at' \in Nat /\ at > HeadLength
      BY <2>1, <2>2, <2>5, <1>t, <1>k DEF BehindHeader
    <3>2. Follows(delivered, at, n, delivered')
      BY <2>1, <2>5, <1>t, Given
    <3> QED BY <3>1, <3>2, <2>5, <1>t, <1>h, <1>k, SortedGiven
  <2>7. res'.parse_step = "body"
    BY <2>1, <1>t DEF ResType
  <2> QED BY <2>1, <2>6, <2>7, <1>b, <1>t DEF BehindHeader
<1>9. ASSUME ChunkLen PROVE Positions'
  <2>1. /\ at <= got /\ res.parse_step = "chunk_len" /\ UNCHANGED <<response, got, delivered>>
    BY <1>9 DEF ChunkLen, Reading, input
  <2>2. /\ at' = at + 1 \/ at' = at + 2 \/ at' = got + 1
        /\ res'.parse_step \in BehindHeader
        /\ finish' => at' > got
    <3>1. ~finish
      BY <2>1, <1>t DEF Positions
    <3>2. CASE Push /\ UNCHANGED finish
      BY <3>1, <3>2, <2>1, <1>p, <1>t DEF BehindHeader
    <3>3. CASE res' = [res EXCEPT !.chunk_length = 0] /\ finish' = TRUE /\ Break
      <4>1. res'.parse_step = "chunk_len" /\ at' = got + 1
        BY <3>3, <2>1, <1>t DEF Break, ResType
      <4> QED BY <4>1, <1>t DEF BehindHeader
    <3>4. CASE /\ res' = [res EXCEPT !.chunk_length = htoi(tmp), !.recived_length = 0,
                                     !.parse_step = "chunk_buff"]
               /\ Skip(2) /\ UNCHANGED finish
      <4>1. res'.parse_step = "chunk_buff" /\ at' = at + 2
        BY <3>4, <1>t DEF Skip, ResType
      <4> QED BY <4>1, <3>1, <3>4 DEF BehindHeader
    <3> QED BY <1>9, <3>2, <3>3, <3>4 DEF ChunkLen
  <2>3. at' \in Nat /\ at' >= at
    BY <2>1, <2>2, <1>t
  <2>4. Sorted(delivered', HeadLength, at', got)
    BY <2>1, <2>3, <1>k, <1>t, <1>h, SortedLater
  <2> QED BY <2>1, <2>2, <2>3, <2>4, <1>b DEF BehindHeader
<1>10. ASSUME ChunkBuff PROVE Positions'
  <2> DEFINE need == res.chunk_length - res.recived_length
             down == IF at > from THEN need < 0 ELSE need < -1
             n == IF at > from THEN need ELSE 0
  <2>1. /\ at <= got /\ res.parse_step = "chunk_buff"
        /\ UNCHANGED <<response, got, finish>>
        /\ \/ Recived > res.chunk_length /\ ~down /\ Give(n) /\ Goto("chunk_len") /\ Skip(need + 3)
           \/ UNCHANGED <<at, res, delivered>>
           \/ Recived <= res.chunk_length /\ Give(Left) /\ Count /\ Break
    BY <1>10 DEF ChunkBuff, Reading, input
  <2>2. /\ need \in Int /\ Left \in Nat /\ Recived \in Nat /\ Left = got - at + 1
        /\ Recived > res.chunk_length => need < Left
    BY <2>1, <1>l, <1>t DEF ResType
  <2>d. ~down => need >= -1 /\ n \in Nat /\ (n > 0 => n = need)
    <3> HIDE DEF need
    <3> QED BY <2>2, <1>t
  <2> HIDE DEF n, need, down
  <2>f. at > HeadLength /\ ~finish
    BY <2>1, <1>t DEF Positions, BehindHeader
  <2>3. CASE Recived > res.chunk_length /\ ~down /\ Give(n) /\ Goto("chunk_len") /\ Skip(need + 3)
    <3>1. res'.parse_step \in BehindHeader /\ at' = at + (need + 3)
      BY <2>3, <1>t DEF Goto, Skip, ResType, BehindHeader
    <3>2. Follows(delivered, at, n, delivered')
      BY <2>d, <2>3, <1>t, Given DEF Give
    <3>3. at + n - 1 <= got /\ at' >= at + n /\ at' \in Nat /\ at' >= at
      BY <2>1, <2>2, <2>3, <2>d, <3>1, <1>t
    <3>4. Sorted(delivered', HeadLength, at', got)
      BY <3>2, <3>3, <2>3, <2>d, <2>f, <1>t, <1>h, <1>k, SortedGiven
    <3> QED BY <3>1, <3>3, <3>4, <2>1, <2>f, <1>b DEF BehindHeader
  <2>4. CASE UNCHANGED <<at, res, delivered>>
    BY <2>1, <2>4, <2>f, <1>b, <1>k, <1>t DEF BehindHeader
  <2>5. CASE Give(Left) /\ Count /\ Break
    <3>1. res'.parse_step \in BehindHeader /\ at' = got + 1
      BY <2>1, <2>5, <1>t DEF Count, Break, ResType, BehindHeader
    <3>2. Follows(delivered, at, Left, delivered')
      BY <2>2, <2>5, <1>t, Given DEF Give
    <3>3. at + Left - 1 <= got /\ at' >= at + Left /\ at' \in Nat /\ at' >= at
      BY <2>1, <2>2, <3>1, <1>t
    <3>4. Sorted(delivered', HeadLength, at', got)
      BY <3>2, <3>3, <2>2, <2>f, <1>t, <1>h, <1>k, SortedGiven
    <3> QED BY <3>1, <3>3, <3>4, <2>1, <2>f, <1>b DEF BehindHeader
  <2> QED BY <2>1, <2>3, <2>4, <2>5
<1> QED BY <1>1, <1>2, <1>3, <1>4, <1>5, <1>6, <1>7, <1>8, <1>9, <1>10 DEF Next, Step

----------------------------------------------------------------------------
(* Framed: a body in one piece.                                            *)

(* The positions behind h of the first characters of the body.             *)
Prefix(h, m, n) == [j \in 1 .. (IF m <= n THEN m ELSE n) |-> h + j]

(* With the length, what has been received is what has come behind the     *)
(* header.                                                                 *)
AtBody(n, h) ==
  res.content_length # 0 =>
    /\ at = h + res.recived_length + 1 /\ at <= got + 1
    /\ delivered = Prefix(h, res.recived_length, n)
    /\ finish <=> res.recived_length >= n

Early == InHeader \ {"header_key", "header_value"}

(* A name of the framing, or the first symbol of what may become one,      *)
(* stands at the beginning of a line.                                      *)
AtKey ==
  /\ tmp2 = <<>>
  /\ Len(tmp) = 0 /\ at <= Len(stream) /\ stream[at] \in Framing => at > 1 /\ stream[at - 1] = LF
  /\ Len(tmp) = 1 => /\ at > 1 /\ tmp[1] = stream[at - 1]
                     /\ tmp[1] \in Framing => at > 2 /\ stream[at - 2] = LF

(* The value v, behind a colon and the blank at b.                         *)
LengthAt(S, b, v, V) ==
  /\ S[b] = SP /\ S[b + V + 1] = CR /\ S[b + V + 2] = LF
  /\ \A i \in 1 .. V : S[b + i] = v[i]

LengthRead(b, v, V) ==
  \/ at = b /\ tmp2 = <<>>
  \/ at = b + 1 + Len(tmp2) /\ Len(tmp2) <= V /\ \A i \in 1 .. Len(tmp2) : tmp2[i] = v[i]

AtValue(v, V) ==
  /\ tmp # <<"Transfer-Encoding">>
  /\ tmp = <<"Content-Length">> =>
       at > got \/ \E b \in Nat : LengthAt(stream, b, v, V) /\ LengthRead(b, v, V)

FramedBy(n, h, v, V) ==
  /\ res.chunked = FALSE /\ res.content_length \in {0, n}
  /\ res.parse_step \notin {"chunk_len", "chunk_buff"}
  /\ res.parse_step \in Early => tmp2 = <<>>
  /\ res.parse_step = "header_key" => AtKey
  /\ res.parse_step = "header_value" => AtValue(v, V)
  /\ res.parse_step = "body" => AtBody(n, h)
  /\ res.parse_step # "body" \/ res.content_length = 0 => ~finish

Size == response.sizes[1]
Framed == FramedBy(Length, HeadLength, Size, Len(Size))

(* The length of the body, and how it is written.                          *)
LEMMA SizeIs ==
  ASSUME response \in Responses
  PROVE  /\ Length \in Nat /\ Size \in Words /\ Len(Size) \in Nat
         /\ \A i \in 1 .. Len(Size) : Size[i] \in ToSet(Digits)
         /\ ~response.chunked => Length = atoi(Size)
<1>1. 1 \in 1 .. Len(response.data)
  <2>1. Len(response.data) \in Nat /\ Len(response.data) > 0
    BY FieldsAre
  <2> QED BY <2>1
<1>2. response.data[1] \in Words
  BY <1>1, DataIs
<1>3. Length \in Nat
  BY <1>2 DEF Length, Words
<1>4. Size \in Words
  BY <1>1, DataIs DEF Size
<1>5. Len(Size) \in Nat
  BY <1>4 DEF Words
<1>6. \A i \in 1 .. Len(Size) : Size[i] \in ToSet(Digits)
  BY <1>1, DataIs DEF Size
<1>7. ~response.chunked => Length = atoi(Size)
  BY <1>1, DataIs DEF Size, Length
<1> QED BY <1>3, <1>4, <1>5, <1>6, <1>7

(* A word of the framing that is a whole name is the name of the field for *)
(* the framing.                                                            *)
LEMMA FramingKey ==
  ASSUME NEW r \in Responses, NEW off, NEW S, NEW n, Wire(r, off, S, n),
         NEW j \in Nat, j > 0, j + 2 <= Len(HeadText(r)),
         NEW w \in Framing, S[j] = LF, S[j + 1] = w, S[j + 2] = ":"
  PROVE  LET k == Len(r.before) + 1 IN k \in 1 .. n /\ j = off[k - 1] /\ FramingField(r)[1] = <<w>>
<1>1. n \in Nat /\ n > 0 /\ n = Len(Fields(r)) /\ Len(HeadText(r)) = off[n] + 2
      /\ S[off[n] + 1] = CR /\ off[n] \in Nat
  <2>1. n \in Nat /\ n > 0 /\ HeadIs(r, off, S, n) /\ n = Len(Fields(r))
    BY DEF Wire
  <2>2. n \in 0 .. n
    BY <2>1
  <2> QED BY <2>1, <2>2 DEF HeadIs
<1>w. w # CR /\ w # ":"
  BY DEF Framing, CR
<1>2. PICK k \in 0 .. n : j = off[k]
  <2>1. j \in 1 .. off[n]
    BY <1>1
  <2> QED BY <2>1, LineFeeds
<1>3. k # n
  <2>1. k = n => S[j + 1] = CR
    BY <1>1, <1>2
  <2> QED BY <2>1, <1>w
<1>4. k + 1 \in 1 .. n /\ k + 1 - 1 = k
  BY <1>1, <1>3
<1> DEFINE f == Fields(r)[k + 1]
           key == f[1]
           K == Len(key)
<1>5. /\ IsPair(f) /\ Plain(f) /\ (k + 1 # Len(r.before) + 1 => Unframed(f))
      /\ K \in Nat /\ Len(f[2]) \in Nat /\ off[k] \in Nat
      /\ FieldAt(f, S, off[k], K, Len(f[2]))
  BY <1>4, WireField
<1>6. /\ \A i \in j + 1 .. j + K : S[i] = key[i - j]
      /\ S[j + K + 1] = ":"
      /\ \A i \in 1 .. K : key[i] # ":"
      /\ key \in Words
  BY <1>2, <1>5 DEF FieldAt, Plain, IsPair
<1>k. K \in Nat
  BY <1>5
<1> HIDE DEF K
<1>7. K # 0
  BY <1>6, <1>w
<1>8. ~(K >= 2)
  <2> SUFFICES ASSUME K >= 2 PROVE FALSE
    OBVIOUS
  <2>1. j + 2 \in j + 1 .. j + K /\ j + 2 - j = 2 /\ 2 \in 1 .. K
    BY <1>k
  <2>2. S[j + 2] = key[j + 2 - j]
    BY <2>1, <1>6
  <2> QED BY <2>1, <2>2, <1>6
<1>9. K = 1
  BY <1>7, <1>8, <1>k
<1>10. key[1] = w
  <2>1. j + 1 \in j + 1 .. j + K /\ j + 1 - j = 1
    BY <1>9
  <2> QED BY <2>1, <1>6
<1>11. key = <<w>>
  <2>1. Len(key) = 1 /\ key \in Seq(Symbols)
    BY <1>6, <1>9 DEF K, Words
  <2> HIDE DEF key
  <2> QED BY <2>1, <1>10
<1>12. k + 1 = Len(r.before) + 1
  <2>1. w = "Content-Length" \/ w = "Transfer-Encoding"
    BY DEF Framing
  <2>2. ~Unframed(f)
    BY <2>1, <1>11, Zenon DEF Unframed, key
  <2> QED BY <2>2, <1>5
<1>13. FramingField(r) = f
  BY <1>1, <1>12, FieldsAre
<1> QED BY <1>2, <1>4, <1>11, <1>12, <1>13 DEF key

(* The characters given next make a longer prefix of the body.             *)
LEMMA PrefixGrows ==
  ASSUME NEW h \in Nat, NEW m \in Nat, NEW n \in Nat, NEW g \in Nat, NEW p \in Nat,
         m < n, p <= n => m + g = p, p > n => m + g = n,
         NEW e, Follows(Prefix(h, m, n), h + m + 1, g, e)
  PROVE  e = Prefix(h, p, n)
<1> DEFINE d == Prefix(h, m, n)
<1>1. d = [j \in 1 .. m |-> h + j]
  BY DEF Prefix
<1>2. Len(d) = m /\ \A j \in 1 .. m : d[j] = h + j
  BY <1>1
<1> HIDE DEF d
<1>3. /\ e \in Seq(Nat) /\ Len(e) = m + g
      /\ \A i \in 1 .. m : e[i] = d[i]
      /\ \A i \in m + 1 .. m + g : e[i] = h + m + 1 + (i - m) - 1
  BY <1>2 DEF Follows, d
<1>4. \A i \in 1 .. m + g : e[i] = h + i
  <2> TAKE i \in 1 .. m + g
  <2>1. CASE i <= m
    BY <2>1, <1>2, <1>3
  <2>2. CASE i > m
    BY <2>2, <1>3
  <2> QED BY <2>1, <2>2
<1>5. e = [j \in 1 .. m + g |-> h + j]
  BY <1>3, <1>4
<1> QED BY <1>5 DEF Prefix

(* The empty prefix.                                                       *)
LEMMA PrefixNone ==
  ASSUME NEW h, NEW n \in Nat
  PROVE  Prefix(h, 0, n) = <<>>
BY DEF Prefix

(* At first nothing is known of the body.                                  *)
LEMMA FramedInit ==
  ASSUME Init
  PROVE  Framed
<1>1. /\ res.chunked = FALSE /\ res.content_length = 0 /\ res.parse_step = "protocol"
      /\ tmp2 = <<>> /\ finish = FALSE
  BY DEF Init, NewRes
<1> QED BY <1>1 DEF Framed, FramedBy

(* What the body does with its length.                                     *)
LEMMA BodyGoesOn ==
  ASSUME Typed, Positions, Body, NEW n \in Nat, NEW h \in Nat, AtBody(n, h),
         res.content_length \in {0, n}
  PROVE  /\ res.content_length # 0 =>
              /\ at' = h + res'.recived_length + 1 /\ at' <= got' + 1
              /\ delivered' = Prefix(h, res'.recived_length, n)
              /\ finish' <=> res'.recived_length >= n
         /\ res.content_length = 0 => ~finish'
         /\ res.parse_step = "body" /\ res'.parse_step = "body" /\ res'.chunked = res.chunked
         /\ res'.content_length = res.content_length /\ res'.headers = res.headers
         /\ res'.status = res.status
         /\ UNCHANGED <<response, got, cuts, tmp, tmp2, fault>>
<1>t. /\ response \in Responses /\ TypeInvariant
      /\ got \in Nat /\ got <= Len(stream) /\ at \in Nat /\ at > 0
      /\ res \in ResType /\ delivered \in Seq(Nat) /\ finish \in BOOLEAN
  BY DEF Typed, TypeInvariant
<1>r. /\ res.content_length \in Nat /\ res.recived_length \in Nat
  BY <1>t DEF ResType
<1> DEFINE g == IF res.content_length > 0 /\ Recived > res.content_length
                THEN res.content_length - res.recived_length ELSE Left
<1>1. /\ at <= got /\ res.parse_step = "body" /\ UNCHANGED <<response, got, cuts, tmp, tmp2, fault>>
      /\ at' = got + 1 /\ res' = [res EXCEPT !.recived_length = Recived] /\ Give(g)
      /\ finish' = (res.content_length > 0 /\ Recived >= res.content_length)
  BY DEF Body, Reading, Count, Break, input
<1>3. Recived \in Nat /\ Recived = res.recived_length + Left /\ Left = got - at + 1 /\ Left \in Nat
  BY <1>1, <1>t, <1>r DEF Left, Recived
<1>4. /\ res'.parse_step = "body" /\ res'.chunked = res.chunked /\ res'.headers = res.headers
      /\ res'.status = res.status
      /\ res'.content_length = res.content_length /\ res'.recived_length = Recived
  BY <1>1, <1>3, <1>t DEF ResType
<1>5. res.content_length = 0 => ~finish'
  <2>1. res.content_length = 0 => ~(res.content_length > 0)
    OBVIOUS
  <2> QED BY <2>1, <1>1, Zenon
<1>6. ASSUME res.content_length # 0
      PROVE  /\ at' = h + Recived + 1 /\ at' <= got + 1
             /\ delivered' = Prefix(h, Recived, n)
             /\ finish' <=> Recived >= n
  <2>1. /\ at = h + res.recived_length + 1 /\ delivered = Prefix(h, res.recived_length, n)
        /\ res.content_length = n
    BY <1>6 DEF AtBody
  <2>2. res.recived_length < n
    <3>1. ~finish
      BY <1>1, <1>t DEF Positions
    <3> QED BY <3>1, <2>1, <1>1, <1>6, <1>r DEF Typed, CountsFit
  <2>3. /\ g \in Nat /\ res.recived_length + g = (IF Recived <= n THEN Recived ELSE n)
        /\ at' = h + Recived + 1 /\ at' <= got + 1 /\ at = h + res.recived_length + 1
    <3>1. res.content_length > 0 /\ res.content_length = n /\ n \in Nat
      BY <2>1, <1>6
    <3>2. at' = h + Recived + 1 /\ at' <= got + 1
      <4> DEFINE m == res.recived_length
      <4>1. m \in Nat /\ at = h + m + 1 /\ Recived = m + (got - at + 1) /\ at' = got + 1
        BY <2>1, <1>1, <1>3, <1>r
      <4> HIDE DEF m
      <4>2. Recived = got - h
        BY <4>1, <1>t
      <4> QED BY <4>1, <4>2, <1>t
    <3>3. CASE Recived > n
      <4>1. g = n - res.recived_length
        BY <3>1, <3>3
      <4>2. g \in Nat /\ res.recived_length + g = n /\ ~(Recived <= n)
        BY <4>1, <3>1, <3>3, <2>2, <1>3, <1>r
      <4> QED BY <4>2, <3>2, <2>1
    <3>4. CASE ~(Recived > n)
      <4>1. g = Left
        BY <3>1, <3>4
      <4>2. g \in Nat /\ res.recived_length + g = Recived /\ Recived <= n
        BY <4>1, <3>1, <3>4, <1>3, <1>r
      <4> QED BY <4>2, <3>2, <2>1
    <3> QED BY <3>3, <3>4
  <2> HIDE DEF g
  <2>4. Follows(delivered, at, g, delivered')
    BY <2>3, <1>1, <1>t, Given DEF Give
  <2>5. delivered' = Prefix(h, Recived, n)
    <3>1. /\ Recived <= n => res.recived_length + g = Recived
          /\ Recived > n => res.recived_length + g = n
      BY <2>3, <1>3
    <3> DEFINE m == res.recived_length
    <3>2. /\ m \in Nat /\ m < n /\ g \in Nat /\ Recived \in Nat
          /\ Recived <= n => m + g = Recived
          /\ Recived > n => m + g = n
          /\ Follows(Prefix(h, m, n), h + m + 1, g, delivered')
      BY <3>1, <2>1, <2>2, <2>3, <2>4, <1>3, <1>r
    <3> HIDE DEF m
    <3> QED BY <3>2, PrefixGrows
  <2>6. finish' <=> Recived >= n
    <3>1. res.content_length > 0
      BY <1>6, <1>r
    <3>2. finish' <=> Recived >= res.content_length
      BY <3>1, <1>1, Zenon
    <3> QED BY <3>2, <2>1
  <2> QED BY <2>3, <2>5, <2>6
<1> QED BY <1>1, <1>4, <1>5, <1>6

(* Every segment that has come has ended with a cut.                       *)
Cut == got = 0 \/ got \in cuts

(* A step that reads adds no cut; a segment adds its end.                  *)
LEMMA CutStep ==
  ASSUME Next, Cut
  PROVE  Cut' /\ cuts \subseteq cuts' /\ UNCHANGED response
<1>s. Quiet => UNCHANGED <<response, got, cuts>>
  BY DEF Quiet, input
<1>1. ASSUME NEW n \in 1 .. Len(stream) - got, response_recive(n)
      PROVE  Cut' /\ cuts \subseteq cuts' /\ UNCHANGED response
  BY <1>1 DEF response_recive, Cut
<1>2. ASSUME UNCHANGED <<response, got, cuts>>
      PROVE  Cut' /\ cuts \subseteq cuts' /\ UNCHANGED response
  BY <1>2 DEF Cut
<1>3. Step => UNCHANGED <<response, got, cuts>>
  <2>1. Protocol \/ Version \/ StatusCode => UNCHANGED <<response, got, cuts>>
    BY <1>s DEF Protocol, Version, StatusCode
  <2>2. StatusDesc \/ HeaderKey \/ HeaderValue => UNCHANGED <<response, got, cuts>>
    BY <1>s DEF StatusDesc, HeaderKey, HeaderValue
  <2>3. Body \/ ChunkLen \/ ChunkBuff => UNCHANGED <<response, got, cuts>>
    BY DEF Body, ChunkLen, ChunkBuff, input
  <2> QED BY <2>1, <2>2, <2>3 DEF Step
<1> QED BY <1>1, <1>2, <1>3 DEF Next

(* What the stream is known to be in front of the header's end and behind. *)
LEMMA HeaderEnd ==
  ASSUME response \in Responses
  PROVE  /\ HeadLength \in Nat /\ HeadLength >= 14 /\ Len(stream) \in Nat /\ HeadLength <= Len(stream)
         /\ stream[1] = "H"
         /\ stream[HeadLength - 2] = LF /\ stream[HeadLength - 1] = CR /\ stream[HeadLength] = LF
<1>1. PICK off : Wire(response, off, Stream(response), Len(Fields(response)))
  BY WireExists
<1> DEFINE S == Stream(response)
           n == Len(Fields(response))
           h == Len(HeadText(response))
<1>2. /\ n \in Nat /\ n > 0 /\ h = off[n] + 2 /\ S[off[n] + 1] = CR /\ S[off[n] + 2] = LF
      /\ \A j \in 1 .. 12 : S[j] = StatusLine[j]
  BY <1>1 DEF Wire, HeadIs
<1>3. n \in 1 .. n
  BY <1>2
<1> HIDE DEF n
<1> DEFINE f == Fields(response)[n]
           K == Len(f[1])
           V == Len(f[2])
           b == off[n - 1]
<1>4. /\ K \in Nat /\ V \in Nat /\ b \in Nat /\ b >= 12 /\ off[n] = b + K + V + 4
      /\ FieldAt(f, S, b, K, V)
  BY <1>1, <1>3, WireField DEF n
<1>5. S[b + K + V + 4] = LF
  BY <1>4 DEF FieldAt
<1> HIDE DEF f, K, V, b, h
<1>6. h \in Nat /\ h >= 14 /\ h - 2 = off[n] /\ h - 1 = off[n] + 1 /\ S[h - 2] = LF
  BY <1>2, <1>4, <1>5
<1>7. S[1] = "H"
  BY <1>2, StatusLineIs
<1>8. Len(S) \in Nat /\ h <= Len(S)
  BY StreamIs DEF h
<1>9. S = stream /\ h = HeadLength
  BY StreamSent DEF h
<1> HIDE DEF S
<1> QED BY <1>2, <1>6, <1>7, <1>8, <1>9

(* Two sequences with the same elements.                                   *)
LEMMA SameElements ==
  ASSUME NEW T, NEW a \in Seq(T), NEW b \in Seq(T), Len(a) = Len(b), \A i \in 1 .. Len(a) : a[i] = b[i]
  PROVE  a = b
OBVIOUS

(* Two line ends after each other.                                         *)
LEMMA TwoLineEnds ==
  ASSUME NEW q \in Words, Len(q) = 4, q[1] = CR, q[2] = LF, q[3] = CR, q[4] = LF
  PROVE  q = Line(<<>>) \o Line(<<>>)
<1> DEFINE e == <<CR, LF>>
           d == e \o e
<1>1. e \in Words /\ Len(e) = 2 /\ e[1] = CR /\ e[2] = LF
  BY TextsAre
<1> HIDE DEF e
<1>2. /\ d \in Words /\ Len(d) = Len(e) + Len(e)
      /\ \A j \in 1 .. Len(e) : d[j] = e[j]
      /\ \A i \in Len(e) + 1 .. Len(e) + Len(e) : d[i] = e[i - Len(e)]
  BY <1>1, TextConcat
<1>3. Line(<<>>) \o Line(<<>>) = d
  BY EmptyLine DEF e
<1> HIDE DEF d
<1>4. d[3] = e[3 - 2] /\ d[4] = e[4 - 2] /\ d[1] = e[1] /\ d[2] = e[2] /\ Len(d) = 4
  BY <1>1, <1>2
<1>5. \A i \in 1 .. 4 : i = 1 \/ i = 2 \/ i = 3 \/ i = 4
  OBVIOUS
<1>6. \A i \in 1 .. Len(q) : q[i] = d[i]
  BY <1>1, <1>4, <1>5
<1>7. q \in Seq(Symbols) /\ d \in Seq(Symbols)
  BY <1>2 DEF Words
<1>8. q = d
  BY <1>4, <1>6, <1>7, SameElements
<1> QED BY <1>3, <1>8

(* The header ends where its only empty line is.                           *)
LEMMA HeaderEndsThere ==
  ASSUME TypeInvariant, EmptyLineOnce, LineEnd(at), LineEnd(at + 2)
  PROVE  at = HeadLength - 3 /\ at + 3 <= got
<1>1. at \in Nat /\ at > 0 /\ at + 2 \in Nat /\ at + 2 > 0 /\ got \in Nat /\ response \in Responses
      /\ got <= Len(stream)
  BY DEF TypeInvariant
<1>2. /\ stream[at] = CR /\ stream[at + 1] = LF /\ stream[at + 2] = CR /\ stream[at + 3] = LF
      /\ at + 3 <= got
  <2>1. at + 2 + 1 = at + 3
    BY <1>1
  <2> QED BY <1>1, <2>1, AtIs
<1>3. at + 3 >= HeadLength
  BY EmptyLineAt
<1>4. HeadLength \in Nat /\ stream[HeadLength - 2] = LF /\ HeadLength >= 14 /\ Len(stream) \in Nat
  BY <1>1, HeaderEnd
<1>5. at # HeadLength - 2
  BY <1>2, <1>4 DEF CR, LF
<1>6. at \notin HeadLength - 1 .. Len(stream) - 3
  <2> SUFFICES ASSUME at \in HeadLength - 1 .. Len(stream) - 3 PROVE FALSE
    OBVIOUS
  <2>1. SubSeq(stream, at, at + 3) # Line(<<>>) \o Line(<<>>)
    BY DEF EmptyLineOnce
  <2>2. stream \in Seq(Symbols)
    BY <1>1, StreamIs, StreamSent DEF Words
  <2> DEFINE q == SubSeq(stream, at, at + 3)
  <2>3. q = [i \in 1 .. 4 |-> stream[at + i - 1]]
    BY <1>1, <1>2, <2>2
  <2>4. Len(q) = 4 /\ q[1] = CR /\ q[2] = LF /\ q[3] = CR /\ q[4] = LF
    BY <2>3, <1>1, <1>2
  <2>5. q \in Words
    BY <1>1, <1>2, <2>2 DEF Words
  <2> HIDE DEF q
  <2>6. q = Line(<<>>) \o Line(<<>>)
    BY <2>4, <2>5, TwoLineEnds
  <2> QED BY <2>1, <2>6 DEF q
<1> QED BY <1>1, <1>2, <1>3, <1>4, <1>5, <1>6

(* What the cuts do not mistake.                                           *)
LEMMA NotMistakenIs ==
  ASSUME response \in Responses, NotMistaken
  PROVE  /\ \A j \in HeadLength + 1 .. Len(stream) : stream[j] # ":"
         /\ \A j \in cuts : j # Len(stream) => (stream[j + 1] \in Framing => stream[j] = LF)
<1>1. ~Contains(BodyText(response) \o response.extra, ":")
  BY DEF NotMistaken
<1>2. \A j \in HeadLength + 1 .. Len(stream) : stream[j] # ":"
  BY <1>1, StreamIs, StreamSent
<1>3. \A j \in cuts : j # Len(stream) => (stream[j + 1] \in Framing => stream[j] = LF)
  BY DEF NotMistaken
<1> QED BY <1>2, <1>3

(* The places of a value, counted from the blank in front of it.           *)
LEMMA ValuePlaces ==
  ASSUME NEW S, NEW v, NEW a \in Nat, NEW V \in Nat,
         \A i \in a + 3 .. a + V + 2 : S[i] = v[i - (a + 2)]
  PROVE  \A i \in 1 .. V : S[a + 2 + i] = v[i]
<1> SUFFICES ASSUME NEW i \in 1 .. V PROVE S[a + 2 + i] = v[i]
  OBVIOUS
<1> DEFINE q == a + 2 + i
<1>1. q \in a + 3 .. a + V + 2 /\ q - (a + 2) = i
  OBVIOUS
<1> HIDE DEF q
<1>2. S[q] = v[q - (a + 2)]
  BY <1>1
<1> QED BY <1>1, <1>2 DEF q

(* Each step keeps what is known of a body in one piece: a piece of a name *)
(* that was cut is not mistaken for the name of the length.                *)
LEMMA FramedStep ==
  ASSUME Typed, Positions, Cut, ~response.chunked, NotMistaken', EmptyLineOnce, Framed, Next
  PROVE  Framed'
<1> DEFINE n == Length
           h == HeadLength
           v == Size
           V == Len(Size)
<1>t. /\ response \in Responses /\ TypeInvariant
      /\ got \in Nat /\ got <= Len(stream) /\ at \in Nat /\ at > 0
      /\ res \in ResType /\ tmp \in Words /\ tmp2 \in Words
      /\ delivered \in Seq(Nat) /\ finish \in BOOLEAN
  BY DEF Typed, TypeInvariant
<1>r. /\ res.content_length \in Nat /\ res.recived_length \in Nat /\ res.chunked \in BOOLEAN
  BY <1>t DEF ResType
<1>h. /\ h \in Nat /\ h >= 14 /\ Len(stream) \in Nat /\ h <= Len(stream) /\ stream[1] = "H"
      /\ stream[h - 1] = CR /\ stream[h] = LF
  BY <1>t, HeaderEnd
<1>v. /\ n \in Nat /\ v \in Words /\ V \in Nat /\ n = atoi(v)
      /\ \A i \in 1 .. V : v[i] \in ToSet(Digits)
  BY <1>t, SizeIs
<1>u. UNCHANGED response => n' = n /\ h' = h /\ stream' = stream /\ v' = v /\ V' = V
  BY SameStream DEF Length, Size
<1>c. cuts \subseteq cuts' /\ UNCHANGED response /\ Cut'
  BY CutStep
<1>n. NotMistaken
  <2>1. \A j \in cuts \ {Len(stream)} : j \in cuts' \ {Len(stream)}
    BY <1>c
  <2> QED BY <2>1, <1>c, <1>u DEF NotMistaken
<1>m. /\ \A j \in h + 1 .. Len(stream) : stream[j] # ":"
      /\ \A j \in cuts : j # Len(stream) => (stream[j + 1] \in Framing => stream[j] = LF)
  BY <1>n, <1>t, NotMistakenIs
<1>f. FramedBy(n, h, v, V)
  BY DEF Framed
<1>g. FramedBy(n, h, v, V)' => Framed'
  BY DEF Framed
<1>s. Quiet => UNCHANGED <<response, got, cuts, from, delivered, finish>>
  BY DEF Quiet, input
<1>p. Push => at' = at + 1 /\ tmp' = Append(tmp, At(at)) /\ UNCHANGED <<res, tmp2>>
  BY DEF Push, Skip
<1> HIDE DEF n, h, v, V
<1>e. ASSUME UNCHANGED <<response, got, finish, tmp2>>, res.parse_step \in Early,
             res'.chunked = res.chunked, res'.content_length = res.content_length,
             \/ res'.parse_step \in Early
             \/ res'.parse_step = "header_key" /\ tmp' = <<>> /\ at' > 1 /\ stream[at' - 1] = LF
      PROVE  Framed'
  <2>1. n' = n /\ h' = h /\ stream' = stream /\ v' = v /\ V' = V
    BY <1>e, <1>u
  <2>2. /\ tmp2' = <<>> /\ res'.content_length \in {0, n} /\ res'.chunked = FALSE /\ ~finish'
        /\ res'.parse_step \notin {"chunk_len", "chunk_buff", "header_value", "body"}
    BY <1>e, <1>f DEF FramedBy, Early, InHeader
  <2>3. res'.parse_step = "header_key" => AtKey'
    <3> SUFFICES ASSUME res'.parse_step = "header_key" PROVE AtKey'
      OBVIOUS
    <3>1. res'.parse_step \notin Early
      BY DEF Early
    <3>2. tmp' = <<>> /\ at' > 1 /\ stream[at' - 1] = LF
      BY <3>1, <1>e
    <3>3. Len(tmp') # 1
      BY <3>2
    <3> QED BY <3>2, <3>3, <2>1, <2>2 DEF AtKey
  <2>4. FramedBy(n, h, v, V)'
    BY <2>1, <2>2, <2>3 DEF FramedBy
  <2> QED BY <2>4, <1>g
<1>1. ASSUME NEW m \in 1 .. Len(stream) - got, response_recive(m) PROVE Framed'
  <2>1. /\ got' = got + m /\ at' = got + 1 /\ at > got /\ tmp' = <<>> /\ tmp2' = <<>>
        /\ UNCHANGED <<response, res, delivered, finish>>
    BY <1>1 DEF response_recive
  <2>2. n' = n /\ h' = h /\ stream' = stream /\ v' = v /\ V' = V
    BY <2>1, <1>u
  <2>3. AtKey'
    <3>1. CASE got = 0
      <4>1. at' = 1 /\ "H" \notin Framing
        BY <3>1, <2>1 DEF Framing
      <4>2. stream'[at'] \notin Framing
        BY <4>1, <2>2, <1>h
      <4>3. Len(tmp') # 1
        BY <2>1
      <4> QED BY <4>2, <4>3, <2>1 DEF AtKey
    <3>2. CASE got # 0
      <4>1. got \in cuts /\ got # Len(stream) /\ got > 0
        BY <3>2, <1>t, <1>h DEF Cut
      <4>2. stream[got + 1] \in Framing => stream[got] = LF
        BY <4>1, <1>m
      <4>3. at' > 1 /\ at' - 1 = got
        BY <4>1, <2>1, <1>t
      <4>4. stream'[at'] \in Framing => stream'[at' - 1] = LF
        BY <4>2, <4>3, <2>1, <2>2
      <4>5. Len(tmp') # 1
        BY <2>1
      <4> QED BY <4>3, <4>4, <4>5, <2>1 DEF AtKey
    <3> QED BY <3>1, <3>2
  <2>4. AtValue(v, V)'
    BY <2>1 DEF AtValue
  <2>5. res.parse_step = "body" => AtBody(n, h)'
    <3>1. ASSUME res.parse_step = "body", res.content_length # 0
          PROVE  /\ at = h + res.recived_length + 1 /\ at <= got + 1
                 /\ delivered = Prefix(h, res.recived_length, n)
                 /\ finish <=> res.recived_length >= n
      BY <3>1, <1>f DEF FramedBy, AtBody
    <3>2. at <= got + 1 => at' = at /\ at' <= got' + 1
      BY <2>1, <1>t
    <3>3. ASSUME res.parse_step = "body", res.content_length # 0
          PROVE  /\ at' = h' + res'.recived_length + 1 /\ at' <= got' + 1
                 /\ delivered' = Prefix(h', res'.recived_length, n')
                 /\ finish' <=> res'.recived_length >= n'
      BY <3>1, <3>2, <3>3, <2>1, <2>2
    <3> QED BY <3>3, <2>1, <2>2 DEF AtBody
  <2>6. FramedBy(n, h, v, V)'
    BY <2>1, <2>2, <2>3, <2>4, <2>5, <1>f DEF FramedBy
  <2> QED BY <2>6, <1>g
<1>2. ASSUME Protocol PROVE Framed'
  <2>1. /\ Quiet /\ tmp2' = tmp2 /\ res.parse_step \in Early /\ res'.parse_step \in Early
        /\ res'.chunked = res.chunked /\ res'.content_length = res.content_length
    BY <1>2, <1>t, <1>p DEF Protocol, Reading, Goto, InHeader, Early, ResType
  <2> QED BY <2>1, <1>e, <1>s
<1>3. ASSUME Version PROVE Framed'
  <2>1. /\ Quiet /\ tmp2' = tmp2 /\ res.parse_step \in Early /\ res'.parse_step \in Early
        /\ res'.chunked = res.chunked /\ res'.content_length = res.content_length
    BY <1>3, <1>t, <1>p DEF Version, Reading, Goto, InHeader, Early, ResType
  <2> QED BY <2>1, <1>e, <1>s
<1>4. ASSUME StatusCode PROVE Framed'
  <2>1. /\ Quiet /\ tmp2' = tmp2 /\ res.parse_step \in Early /\ res'.parse_step \in Early
        /\ res'.chunked = res.chunked /\ res'.content_length = res.content_length
    BY <1>4, <1>t, <1>p DEF StatusCode, Reading, Goto, InHeader, Early, ResType
  <2> QED BY <2>1, <1>e, <1>s
<1>5. ASSUME StatusDesc PROVE Framed'
  <2>1. Quiet /\ res.parse_step \in Early /\ at <= got
    BY <1>5 DEF StatusDesc, Reading, InHeader, Early
  <2>2. CASE Push
    BY <2>1, <2>2, <1>p, <1>e, <1>s
  <2>3. CASE LineEnd(at) /\ Goto("header_key") /\ tmp' = <<>> /\ Skip(2) /\ UNCHANGED tmp2
    <3>1. /\ res'.parse_step = "header_key" /\ res'.chunked = res.chunked
          /\ res'.content_length = res.content_length /\ at' = at + 2
      BY <2>3, <1>t DEF Goto, Skip, ResType
    <3>2. stream[at + 1] = LF /\ at' > 1 /\ at' - 1 = at + 1
      BY <2>3, <3>1, <1>t, AtIs
    <3> QED BY <2>1, <2>3, <3>1, <3>2, <1>e, <1>s
  <2> QED BY <1>5, <2>2, <2>3 DEF StatusDesc
<1>6. ASSUME HeaderKey PROVE Framed'
  <2>0. /\ Quiet /\ at <= got /\ res.parse_step = "header_key" /\ AtKey
        /\ At(at) = stream[at] /\ At(at) \in Symbols
        /\ UNCHANGED <<response, got, delivered, finish>>
        /\ n' = n /\ h' = h /\ stream' = stream /\ v' = v /\ V' = V
    BY <1>6, <1>f, <1>s, <1>t, <1>u, AtIs DEF HeaderKey, Reading, FramedBy
  <2>1. CASE Push
    <3>1. at' = at + 1 /\ tmp' = Append(tmp, stream[at]) /\ UNCHANGED <<res, tmp2>>
      BY <2>0, <2>1, <1>p
    <3>2. Len(tmp) \in Nat /\ Len(tmp') = Len(tmp) + 1 /\ tmp'[Len(tmp) + 1] = stream[at]
      BY <3>1, <2>0, <1>t, AppendText
    <3>3. at' > 1 /\ at' - 1 = at /\ at' - 2 = at - 1 /\ (at > 1 => at' > 2)
      BY <3>1, <1>t
    <3>4. AtKey'
      <4>1. Len(tmp') # 0
        BY <3>2
      <4>2. ASSUME Len(tmp') = 1
            PROVE  /\ at' > 1 /\ tmp'[1] = stream'[at' - 1]
                   /\ tmp'[1] \in Framing => at' > 2 /\ stream'[at' - 2] = LF
        <5>a. Len(tmp) = 0
          BY <4>2, <3>2
        <5>b. at <= Len(stream)
          BY <2>0, <1>t, <1>h
        <5>1. Len(tmp) = 0 /\ tmp'[1] = stream[at] /\ at <= Len(stream)
          BY <5>a, <5>b, <3>2
        <5>2. stream[at] \in Framing => at > 1 /\ stream[at - 1] = LF
          BY <5>1, <2>0 DEF AtKey
        <5> QED BY <5>1, <5>2, <3>3, <2>0
      <4>3. tmp2' = <<>>
        BY <3>1, <2>0 DEF AtKey
      <4> QED BY <4>1, <4>2, <4>3 DEF AtKey
    <3>5. FramedBy(n, h, v, V)'
      BY <3>1, <3>4, <2>0, <1>f DEF FramedBy, Early
    <3> QED BY <3>5, <1>g
  <2>2. CASE At(at) = ":" /\ Goto("header_value") /\ Skip(1) /\ UNCHANGED <<tmp, tmp2>>
    <3>1. /\ res'.parse_step = "header_value" /\ res'.chunked = res.chunked
          /\ res'.content_length = res.content_length /\ at' = at + 1 /\ UNCHANGED <<tmp, tmp2>>
      BY <2>2, <1>t DEF Goto, Skip, ResType
    <3>2. at <= h
      <4>1. at > h => at \in h + 1 .. Len(stream)
        BY <2>0, <1>t, <1>h
      <4>2. ~(at > h)
        BY <4>1, <2>0, <2>2, <1>m
      <4> QED BY <4>2, <1>t, <1>h
    <3>3. ASSUME NEW w \in Framing, tmp = <<w>>
          PROVE  w = "Content-Length" /\ \E b \in Nat : LengthAt(stream, b, v, V) /\ at' = b
      <4> DEFINE j == at - 2
      <4>1. Len(tmp) = 1 /\ tmp[1] = w
        BY <3>3
      <4>2. at > 2 /\ stream[at - 1] = w /\ stream[at - 2] = LF
        BY <4>1, <2>0 DEF AtKey
      <4>3. j \in Nat /\ j > 0 /\ j + 2 = at /\ j + 1 = at - 1
        BY <4>2, <1>t
      <4>4. stream[j] = LF /\ stream[j + 1] = w /\ stream[j + 2] = ":" /\ j + 2 <= h
        BY <4>2, <4>3, <3>2, <2>0, <2>2
      <4> HIDE DEF j
      <4>5. PICK off : Wire(response, off, stream, Len(Fields(response)))
        BY <1>t, WireExists, StreamSent
      <4>6. h = Len(HeadText(response))
        BY <1>t, StreamSent DEF h
      <4> DEFINE k == Len(response.before) + 1
                 N == Len(Fields(response))
                 f == Fields(response)[k]
      <4>7. k \in 1 .. N /\ j = off[k - 1] /\ FramingField(response)[1] = <<w>>
        <5>1. j + 2 <= Len(HeadText(response))
          BY <4>4, <4>6
        <5> QED BY <5>1, <4>3, <4>4, <4>5, <1>t, FramingKey
      <4>8. FramingField(response) = << <<"Content-Length">>, v >>
        BY DEF FramingField, v, Size
      <4>9. w = "Content-Length"
        <5>1. <<w>> = <<"Content-Length">>
          BY <4>7, <4>8
        <5>2. <<w>>[1] = <<"Content-Length">>[1]
          BY <5>1
        <5> QED BY <5>2
      <4>10. f = << <<"Content-Length">>, v >>
        BY <1>t, <4>8, FieldsAre
      <4>11. Len(f[1]) = 1 /\ f[2] = v /\ Len(f[2]) = V
        BY <4>10 DEF V, v
      <4>12. FieldAt(f, stream, j, 1, V)
        <5>1. FieldAt(f, stream, off[k - 1], Len(f[1]), Len(f[2]))
          BY <4>5, <4>7, <1>t, WireField
        <5> HIDE DEF f, k
        <5> QED BY <5>1, <4>7, <4>11
      <4> DEFINE b == j + 3
      <4>13. b \in Nat /\ at' = b
        BY <4>3, <3>1
      <4>14. LengthAt(stream, b, v, V)
        <5> HIDE DEF f, k
        <5>1. /\ stream[j + 1 + 2] = SP /\ stream[j + 1 + V + 3] = CR /\ stream[j + 1 + V + 4] = LF
              /\ \A i \in j + 1 + 3 .. j + 1 + V + 2 : stream[i] = v[i - (j + 1 + 2)]
          BY <4>11, <4>12 DEF FieldAt
        <5>2. /\ j + 1 + 2 = b /\ j + 1 + V + 3 = b + V + 1 /\ j + 1 + V + 4 = b + V + 2
          BY <4>3, <1>v
        <5>3. ASSUME NEW i \in 1 .. V PROVE stream[b + i] = v[i]
          <6>1. j + 1 \in Nat
            BY <4>3
          <6>2. \A p \in 1 .. V : stream[j + 1 + 2 + p] = v[p]
            BY <6>1, <5>1, <1>v, ValuePlaces
          <6>3. stream[j + 1 + 2 + i] = v[i]
            BY <6>2
          <6> QED BY <6>3, <5>2
        <5> QED BY <5>1, <5>2, <5>3 DEF LengthAt
      <4> QED BY <4>9, <4>13, <4>14
    <3>4. tmp # <<"Transfer-Encoding">>
      <4>1. "Transfer-Encoding" \in Framing /\ "Transfer-Encoding" # "Content-Length"
        BY DEF Framing
      <4> QED BY <4>1, <3>3
    <3>5. tmp = <<"Content-Length">> => \E b \in Nat : LengthAt(stream, b, v, V) /\ at' = b
      <4>1. "Content-Length" \in Framing
        BY DEF Framing
      <4> QED BY <4>1, <3>3
    <3>6. AtValue(v, V)'
      <4>1. tmp2' = <<>>
        BY <3>1, <2>0 DEF AtKey
      <4> QED BY <3>1, <3>4, <3>5, <4>1, <2>0 DEF AtValue, LengthRead
    <3>7. FramedBy(n, h, v, V)'
      BY <3>1, <3>6, <2>0, <1>f DEF FramedBy, Early
    <3> QED BY <3>7, <1>g
  <2> QED BY <1>6, <2>1, <2>2 DEF HeaderKey
<1>7. ASSUME HeaderValue PROVE Framed'
  <2>0. /\ Quiet /\ at <= got /\ res.parse_step = "header_value" /\ AtValue(v, V)
        /\ At(at) = stream[at] /\ At(at) \in Symbols /\ finish = FALSE /\ delivered = <<>>
        /\ UNCHANGED <<response, got, delivered, finish>>
        /\ n' = n /\ h' = h /\ stream' = stream /\ v' = v /\ V' = V
    BY <1>7, <1>f, <1>s, <1>t, <1>u, AtIs DEF HeaderValue, Reading, FramedBy, Positions, InHeader
  <2>d. \A i \in 1 .. V : v[i] # SP /\ v[i] # CR
    BY <1>v, DigitIsPlain
  <2>e. SP # CR
    BY Zenon DEF SP, CR
  <2>1. CASE ~LineEnd(at) /\ PushValue
    <3>1. /\ at' = at + 1 /\ UNCHANGED <<res, tmp>>
          /\ tmp2' = IF At(at) = SP /\ tmp2 = <<>> THEN tmp2 ELSE Append(tmp2, At(at))
      BY <2>1 DEF PushValue, Skip
    <3>2. ASSUME tmp = <<"Content-Length">>, NEW b \in Nat, LengthAt(stream, b, v, V), LengthRead(b, v, V)
          PROVE  at' > got \/ LengthRead(b, v, V)'
      <4>1. CASE at = b /\ tmp2 = <<>>
        <5>1. At(at) = SP
          BY <4>1, <3>2, <2>0 DEF LengthAt
        <5>2. tmp2' = <<>>
          BY <5>1, <4>1, <3>1
        <5>3. at' = b + 1 /\ Len(tmp2') = 0
          BY <4>1, <3>1, <5>2
        <5> QED BY <5>2, <5>3, <2>0, <1>v DEF LengthRead
      <4>2. CASE at = b + 1 + Len(tmp2) /\ Len(tmp2) <= V /\ \A i \in 1 .. Len(tmp2) : tmp2[i] = v[i]
        <5> DEFINE m == Len(tmp2)
        <5>0. m \in Nat
          BY <1>t DEF Words
        <5>1. CASE m = V
          <6>1. at = b + V + 1 /\ at + 1 = b + V + 2
            BY <4>2, <5>1, <1>v
          <6>2. At(at) = CR /\ stream[at + 1] = LF
            BY <6>1, <3>2, <2>0 DEF LengthAt
          <6>3. at + 1 > got
            BY <6>2, <2>1, <1>t DEF LineEnd, At
          <6> QED BY <6>3, <3>1
        <5>2. CASE m # V
          <6> HIDE DEF m
          <6>1. m + 1 \in 1 .. V /\ at = b + (m + 1)
            BY <4>2, <5>0, <5>2, <1>v DEF m
          <6>2. At(at) = v[m + 1]
            BY <6>1, <3>2, <2>0 DEF LengthAt
          <6>3. tmp2' = Append(tmp2, v[m + 1]) /\ v[m + 1] \in Symbols
            BY <6>1, <6>2, <3>1, <2>0, <2>d
          <6>4. /\ Len(tmp2') = m + 1 /\ \A i \in 1 .. m : tmp2'[i] = tmp2[i]
                /\ tmp2'[m + 1] = v[m + 1]
            BY <6>3, <1>t, AppendText DEF m
          <6>5. ASSUME NEW i \in 1 .. m + 1 PROVE tmp2'[i] = v[i]
            <7>1. CASE i = m + 1
              BY <7>1, <6>4
            <7>2. CASE i # m + 1
              <8>1. i \in 1 .. m
                BY <7>2, <5>0
              <8> QED BY <8>1, <6>4, <4>2 DEF m
            <7> QED BY <7>1, <7>2
          <6>6. at' = b + 1 + (m + 1) /\ m + 1 <= V
            BY <6>1, <3>1, <5>0
          <6> QED BY <6>4, <6>5, <6>6, <2>0 DEF LengthRead
        <5> QED BY <5>1, <5>2
      <4> QED BY <3>2, <4>1, <4>2 DEF LengthRead
    <3>3. AtValue(v, V)'
      <4>1. tmp' # <<"Transfer-Encoding">>
        BY <3>1, <2>0 DEF AtValue
      <4>2. ASSUME tmp' = <<"Content-Length">>
            PROVE  at' > got' \/ \E b \in Nat : LengthAt(stream', b, v', V') /\ LengthRead(b, v, V)'
        <5>1. tmp = <<"Content-Length">> /\ ~(at > got)
          BY <4>2, <3>1, <2>0, <1>t
        <5>2. PICK b \in Nat : LengthAt(stream, b, v, V) /\ LengthRead(b, v, V)
          BY <5>1, <2>0 DEF AtValue
        <5>3. at' > got \/ LengthRead(b, v, V)'
          BY <5>1, <5>2, <3>2
        <5> QED BY <5>2, <5>3, <2>0
      <4> QED BY <4>1, <4>2 DEF AtValue
    <3>4. FramedBy(n, h, v, V)'
      BY <3>1, <3>3, <2>0, <1>f DEF FramedBy, Early
    <3> QED BY <3>4, <1>g
  <2>2. ASSUME NEW last \in BOOLEAN, LineEnd(at), EndField(last), last => LineEnd(at + 2),
               at' = IF last THEN at + 4 ELSE at + 2
        PROVE  Framed'
    <3> DEFINE r == Field(res, tmp, tmp2)
    <3>0. r = Field(res, tmp, tmp2)
      OBVIOUS
    <3>1. /\ res' = [r EXCEPT !.parse_step = IF last THEN BodyStep(r) ELSE "header_key"]
          /\ tmp' = <<>> /\ tmp2' = <<>>
      BY <2>2 DEF EndField
    <3> HIDE DEF r
    <3>2. FieldSays(r, res, tmp, tmp2)
      BY <3>0, <1>t, FieldIs
    <3>3. r.chunked = FALSE /\ r \in ResType /\ r.recived_length = 0
      <4>1. res.chunked = FALSE /\ tmp # <<"Transfer-Encoding">>
        BY <2>0, <1>f DEF FramedBy, AtValue
      <4>2. res.recived_length = 0
        BY <2>0 DEF Typed, InHeader
      <4> QED BY <4>1, <4>2, <3>2, <1>r DEF FieldSays
    <3>4. /\ res'.parse_step = (IF last THEN "body" ELSE "header_key")
          /\ res'.chunked = FALSE /\ res'.content_length = r.content_length /\ res'.recived_length = 0
      BY <3>1, <3>3 DEF BodyStep, ResType
    <3>5. stream[at] = CR /\ stream[at + 1] = LF /\ at + 1 <= got
      BY <2>2, <1>t, AtIs
    <3>6. r.content_length \in {0, n}
      <4>1. CASE tmp = <<"Content-Length">>
        <5>1. PICK b \in Nat : LengthAt(stream, b, v, V) /\ LengthRead(b, v, V)
          BY <4>1, <2>0, <1>t DEF AtValue
        <5>2. at # b
          BY <5>1, <3>5, <2>e DEF LengthAt
        <5>3. at = b + 1 + Len(tmp2) /\ Len(tmp2) <= V /\ \A i \in 1 .. Len(tmp2) : tmp2[i] = v[i]
          BY <5>1, <5>2 DEF LengthRead
        <5> DEFINE m == Len(tmp2)
        <5>4. m \in Nat /\ m <= V /\ at = b + (m + 1)
          BY <5>3, <1>t DEF Words
        <5> HIDE DEF m
        <5>5. m = V
          <6> SUFFICES ASSUME m # V PROVE FALSE
            OBVIOUS
          <6>1. m + 1 \in 1 .. V
            BY <5>4, <1>v
          <6>2. stream[at] = v[m + 1]
            BY <6>1, <5>1, <5>4 DEF LengthAt
          <6> QED BY <6>1, <6>2, <3>5, <2>d
        <5>6. tmp2 = v
          <6>1. Len(tmp2) = Len(v) /\ \A i \in 1 .. Len(v) : tmp2[i] = v[i]
            BY <5>3, <5>5 DEF m, V, v
          <6> QED BY <6>1, <1>t, <1>v DEF Words
        <5>7. r.content_length = n
          BY <4>1, <5>6, <3>2, <1>v DEF FieldSays
        <5> QED BY <5>7
      <4>2. CASE tmp # <<"Content-Length">>
        <5>1. r.content_length = res.content_length
          BY <4>2, <3>2 DEF FieldSays
        <5> QED BY <5>1, <1>f DEF FramedBy
      <4> QED BY <4>1, <4>2
    <3>8. CASE last = FALSE
      <4>1. AtKey'
        <5>1. Len(tmp') = 0 /\ Len(tmp') # 1
          BY <3>1
        <5>2. at' > 1 /\ at' - 1 = at + 1
          BY <3>8, <2>2, <1>t
        <5>3. stream'[at' - 1] = LF
          BY <5>2, <3>5, <2>0
        <5> QED BY <5>1, <5>2, <5>3, <3>1 DEF AtKey
      <4>2. FramedBy(n, h, v, V)'
        BY <4>1, <3>4, <3>6, <3>8, <2>0 DEF FramedBy, Early
      <4> QED BY <4>2, <1>g
    <3>9. CASE last = TRUE
      <4>1. at = h - 3 /\ at + 3 <= got
        BY <3>9, <2>2, <1>t, HeaderEndsThere DEF h
      <4>2. AtBody(n, h)'
        <5>1. at' = h + 0 + 1 /\ at' <= got + 1
          BY <4>1, <3>9, <2>2, <1>t, <1>h
        <5>2. delivered = Prefix(h, 0, n)
          BY <2>0, <1>v, PrefixNone
        <5>3. r.content_length # 0 => ~(0 >= n)
          BY <3>6, <1>v
        <5> QED BY <5>1, <5>2, <5>3, <3>4, <2>0 DEF AtBody
      <4>3. FramedBy(n, h, v, V)'
        BY <4>2, <3>4, <3>6, <3>9, <2>0 DEF FramedBy, Early, InHeader
      <4> QED BY <4>3, <1>g
    <3> QED BY <3>8, <3>9
  <2>3. CASE LineEnd(at) /\ ~LineEnd(at + 2) /\ EndField(FALSE) /\ Skip(2)
    BY <2>2, <2>3 DEF Skip
  <2>4. CASE LineEnd(at) /\ LineEnd(at + 2) /\ EndField(TRUE) /\ Skip(4)
    BY <2>2, <2>4 DEF Skip
  <2> QED BY <1>7, <2>1, <2>3, <2>4 DEF HeaderValue
<1>8. ASSUME Body PROVE Framed'
  <2>1. res.parse_step = "body" /\ res.content_length \in {0, n} /\ AtBody(n, h)
    BY <1>8, <1>f DEF Body, Reading, FramedBy
  <2>2. /\ res.content_length # 0 =>
             /\ at' = h + res'.recived_length + 1 /\ at' <= got' + 1
             /\ delivered' = Prefix(h, res'.recived_length, n)
             /\ finish' <=> res'.recived_length >= n
        /\ res.content_length = 0 => ~finish'
        /\ res'.parse_step = "body" /\ res'.chunked = res.chunked
        /\ res'.content_length = res.content_length
        /\ UNCHANGED <<response, got, cuts, tmp, tmp2, fault>>
    BY <2>1, <1>8, <1>h, <1>v, BodyGoesOn
  <2>3. n' = n /\ h' = h
    BY <1>c, <1>u
  <2>4. AtBody(n, h)'
    BY <2>2, <2>3 DEF AtBody
  <2>5. FramedBy(n, h, v, V)'
    BY <2>1, <2>2, <2>3, <2>4, <1>f DEF FramedBy, Early, InHeader
  <2> QED BY <2>5, <1>g
<1>9. ~ChunkLen /\ ~ChunkBuff
  BY <1>f DEF FramedBy, ChunkLen, ChunkBuff, Reading
<1> QED BY <1>1, <1>2, <1>3, <1>4, <1>5, <1>6, <1>7, <1>8, <1>9 DEF Next, Step

----------------------------------------------------------------------------
(* Understood: a header that is cut between its lines is understood line   *)
(* by line.  The parser has the fields that are behind it, and of the line *)
(* it is in what is behind it.                                             *)
Clean == \A j \in cuts : j <= HeadLength => j \in HeadCuts

StatusRead ==
  /\ res.parse_step = "protocol" => /\ at = 1 + Len(tmp) /\ Len(tmp) <= 4
                                    /\ \A i \in 1 .. Len(tmp) : tmp[i] = StatusLine[i]
  /\ res.parse_step = "version" => \/ at = 6 /\ tmp = <<>>
                                   \/ at = 7 /\ tmp = <<"1.1">>
  /\ res.parse_step = "status_code" => \/ at = 8 /\ tmp = <<>>
                                       \/ at = 9 /\ tmp = <<"200">>
  /\ res.parse_step = "status_desc" => at = 10 \/ at = 11
  /\ res.parse_step \in {"version", "status_code", "status_desc"} => got >= 12
  /\ res.parse_step \notin {"protocol", "version", "status_code"} => res.status = <<"200">>
  /\ res.parse_step \in Early => Len(res.headers) = 0

KeyRead(b, f) ==
  /\ got >= b /\ at = b + 1 + Len(tmp) /\ Len(tmp) <= Len(f[1]) /\ tmp2 = <<>>
  /\ \A i \in 1 .. Len(tmp) : tmp[i] = f[1][i]

ValueRead(b, f) ==
  /\ got >= b + Len(f[1]) + Len(f[2]) + 4 /\ tmp = f[1]
  /\ \/ at = b + Len(f[1]) + 2 /\ tmp2 = <<>>
     \/ at = b + Len(f[1]) + 3 + Len(tmp2) /\ Len(tmp2) <= Len(f[2])
  /\ \A i \in 1 .. Len(tmp2) : tmp2[i] = f[2][i]

(* The m-th field is the one for the framing, of a body of length n.       *)
UnderstoodBy(off, F, m, n, h) ==
  LET k == Len(res.headers)
  IN  /\ k <= Len(F) /\ \A i \in 1 .. k : res.headers[i] = F[i]
      /\ StatusRead
      /\ res.parse_step = "header_key" => k < Len(F) /\ KeyRead(off[k], F[k + 1])
      /\ res.parse_step = "header_value" => k < Len(F) /\ ValueRead(off[k], F[k + 1])
      /\ res.parse_step = "body" => k = Len(F) /\ AtBody(n, h)
      /\ res.parse_step # "body" \/ res.content_length = 0 => ~finish
      /\ res.parse_step \in Early => tmp2 = <<>>
      /\ res.parse_step \notin {"chunk_len", "chunk_buff"} /\ res.chunked = FALSE
      /\ k >= m => res.content_length = n

Understood(off) ==
  UnderstoodBy(off, Fields(response), Len(response.before) + 1, Length, HeadLength)
(* The lines of the header come one after the other.                       *)
LEMMA LinesFollow ==
  ASSUME NEW r \in Responses, NEW off, NEW S, NEW n, Wire(r, off, S, n)
  PROVE  \A k \in 0 .. n : off[k] \in Nat /\ off[k] >= 12 /\ \A i \in 0 .. k : off[i] <= off[k]
<1> DEFINE T == {k \in 0 .. n : off[k] \in Nat /\ off[k] >= 12 /\ \A i \in 0 .. k : off[i] <= off[k]}
<1>1. n \in Nat /\ n > 0 /\ off[0] = 12
  BY DEF Wire, HeadIs
<1>2. 0 \in T
  BY <1>1
<1>3. ASSUME NEW k \in 0 .. n - 1, k \in T PROVE k + 1 \in T
  <2> DEFINE f == Fields(r)[k + 1]
             m == k + 1
  <2>0. m \in 1 .. n /\ m - 1 = k /\ m \in 0 .. n
    BY <1>1
  <2>1. Len(f[1]) \in Nat /\ Len(f[2]) \in Nat /\ off[m] = off[m - 1] + Len(f[1]) + Len(f[2]) + 4
    BY <2>0, WireField
  <2> HIDE DEF f
  <2>2. off[k] \in Nat /\ off[k] >= 12 /\ \A i \in 0 .. k : off[i] <= off[k] /\ off[i] \in Nat
    <3>1. off \in [0 .. n -> Nat]
      BY DEF Wire, HeadIs
    <3> QED BY <3>1, <1>1, <1>3
  <2>3. off[m] \in Nat /\ off[m] >= off[k]
    <3> DEFINE A == Len(f[1])
               B == Len(f[2])
               o == off[k]
    <3>1. A \in Nat /\ B \in Nat /\ o \in Nat /\ off[m] = o + A + B + 4
      BY <2>0, <2>1, <2>2
    <3> HIDE DEF A, B, o, m
    <3>2. off[m] \in Nat /\ off[m] >= o
      BY <3>1
    <3> QED BY <3>2 DEF o
  <2>4. \A i \in 0 .. m : off[i] <= off[m]
    <3> TAKE i \in 0 .. m
    <3>1. CASE i = m
      BY <3>1, <2>3
    <3>2. CASE i # m
      <4>1. i \in 0 .. k
        BY <3>2, <2>0
      <4> QED BY <4>1, <2>2, <2>3
    <3> QED BY <3>1, <3>2
  <2> QED BY <2>0, <2>2, <2>3, <2>4
<1> HIDE DEF T
<1>4. \A k \in 0 .. n : k \in T
  BY <1>1, <1>2, <1>3, Induct
<1> QED BY <1>4 DEF T

(* A segment has ended: nowhere, behind the header, or behind one of its   *)
(* lines but the last.                                                     *)
EndsLine(g, off, n) == g = 0 \/ g >= off[n] + 2 \/ \E k \in 0 .. n - 1 : g = off[k]

(* A segment that ends with a line feed of the header, but not with the    *)
(* one of the last field, ends where a line does.                          *)
LEMMA LineEnded ==
  ASSUME NEW r \in Responses, NEW off, NEW S, NEW n, Wire(r, off, S, n), NEW g \in Nat,
         g = 0 \/ g > off[n] + 2 \/ (S[g] = LF /\ g # off[n])
  PROVE  EndsLine(g, off, n)
<1>1. n \in Nat /\ n > 0 /\ off[n] \in Nat /\ S[off[n] + 1] = CR
  <2>1. n \in Nat /\ n > 0 /\ S[off[n] + 1] = CR
    BY DEF Wire, HeadIs
  <2> QED BY <2>1, LinesFollow
<1>2. CASE g = 0 \/ g >= off[n] + 2
  BY <1>2 DEF EndsLine
<1>3. CASE g > 0 /\ g < off[n] + 2
  <2>1. S[g] = LF /\ g # off[n]
    BY <1>1, <1>3
  <2>2. g # off[n] + 1
    BY <1>1, <2>1 DEF CR, LF
  <2>3. g \in 1 .. off[n]
    BY <1>1, <1>3, <2>1, <2>2
  <2>4. PICK k \in 0 .. n : g = off[k]
    BY <2>1, <2>3, LineFeeds
  <2> QED BY <1>1, <2>1, <2>4 DEF EndsLine
<1> QED BY <1>1, <1>2, <1>3

(* A segment that goes beyond the beginning of a line holds the line.      *)
LEMMA LineCame ==
  ASSUME NEW r \in Responses, NEW off, NEW S, NEW n, Wire(r, off, S, n), NEW g \in Nat,
         EndsLine(g, off, n), NEW k \in 0 .. n - 1, g > off[k]
  PROVE  g >= off[k + 1] /\ (k + 1 = n => g >= off[n] + 2)
<1>1. n \in Nat /\ n > 0 /\ \A i \in 0 .. n : off[i] \in Nat /\ \A j \in 0 .. i : off[j] <= off[i]
  BY LinesFollow DEF Wire
<1>2. k \in 0 .. n /\ k + 1 \in 0 .. n /\ n \in 0 .. n
  BY <1>1
<1>3. g # 0
  BY <1>1, <1>2
<1>4. CASE g >= off[n] + 2
  <2>1. off[k + 1] <= off[n] /\ off[n] \in Nat /\ off[k + 1] \in Nat
    BY <1>1, <1>2
  <2> QED BY <2>1, <1>4
<1>5. CASE \E i \in 0 .. n - 1 : g = off[i]
  <2>1. PICK i \in 0 .. n - 1 : g = off[i]
    BY <1>5
  <2>2. i > k
    <3>1. ASSUME i <= k PROVE FALSE
      <4>1. i \in 0 .. k
        BY <3>1
      <4>2. off[i] <= off[k] /\ off[k] \in Nat
        BY <4>1, <1>1, <1>2
      <4> QED BY <4>2, <2>1
    <3> QED BY <3>1
  <2>3. k + 1 \in 0 .. i /\ i \in 0 .. n /\ k + 1 # n
    BY <2>2, <1>1
  <2>4. off[k + 1] <= off[i]
    BY <2>3, <1>1
  <2> QED BY <2>1, <2>3, <2>4
<1> QED BY <1>3, <1>4, <1>5 DEF EndsLine

(* The parser looks for http in lower case, and does not find it.          *)
LEMMA NotHttp ==
  ASSUME NEW t \in Words, Len(t) = 4, t[4] = "P"
  PROVE  ~IsSuffix(<<"h", "t", "t", "p">>, t)
<1> DEFINE a == <<"h", "t", "t", "p">>
           p == Reverse(a)
           q == Reverse(t)
           Z == Symbols \cup {"h", "t", "p"}
<1>0. a \in Seq(Z) /\ Len(a) = 4 /\ a[4] = "p" /\ t \in Seq(Z)
  BY DEF Words
<1> HIDE DEF a, Z
<1>1. /\ p = [i \in 1 .. 4 |-> a[(4 - i) + 1]]
      /\ q = [i \in 1 .. 4 |-> t[(4 - i) + 1]]
  BY <1>0 DEF Reverse
<1>2. p \in Seq(Z) /\ q \in Seq(Z) /\ Len(p) = 4 /\ Len(q) = 4
  BY <1>0, <1>1
<1>3. p[1] = "p" /\ q[1] = "P"
  BY <1>0, <1>1
<1> HIDE DEF p, q
<1>4. SubSeq(p, 1, 4)[1] = "p" /\ SubSeq(q, 1, 4)[1] = "P"
  <2>1. SubSeq(p, 1, 4) = [i \in 1 .. 4 |-> p[1 + i - 1]]
    BY <1>2
  <2>2. SubSeq(q, 1, 4) = [i \in 1 .. 4 |-> q[1 + i - 1]]
    BY <1>2
  <2> QED BY <2>1, <2>2, <1>3
<1>5. ~IsPrefix(p, q)
  BY <1>2, <1>4 DEF IsPrefix
<1>6. ~IsSuffix(a, t)
  BY <1>5 DEF IsSuffix, p, q
<1> QED BY <1>6 DEF a

(* At first nothing has been read, and nothing is misread.                 *)
LEMMA UnderstoodInit ==
  ASSUME Init, NEW off, NEW F, NEW m \in Nat, m > 0, NEW n, NEW h, Len(F) \in Nat
  PROVE  UnderstoodBy(off, F, m, n, h)
<1>1. /\ at = 1 /\ tmp = <<>> /\ tmp2 = <<>> /\ res.parse_step = "protocol" /\ res.headers = <<>>
      /\ res.chunked = FALSE /\ finish = FALSE
  BY DEF Init, NewRes
<1>2. Len(res.headers) = 0 /\ Len(tmp) = 0
  BY <1>1
<1>3. StatusRead
  BY <1>1, <1>2 DEF StatusRead
<1> QED BY <1>1, <1>2, <1>3 DEF UnderstoodBy

(* Texts of one length with the same symbols are the same.                 *)
LEMMA SameText ==
  ASSUME NEW a \in Words, NEW b \in Words, Len(a) = Len(b), \A i \in 1 .. Len(a) : a[i] = b[i]
  PROVE  a = b
BY DEF Words

(* The field behind b, in the stream.                                      *)
Held(f, b) ==
  /\ f = <<f[1], f[2]>> /\ f[1] \in Words /\ f[2] \in Words /\ Plain(f)
  /\ Len(f[1]) \in Nat /\ Len(f[2]) \in Nat /\ b \in Nat /\ b >= 12
  /\ FieldAt(f, stream, b, Len(f[1]), Len(f[2]))

(* FieldAt, for the line that begins behind off[k].                        *)
LEMMA FieldHeld ==
  ASSUME NEW r \in Responses, NEW off, NEW n, Wire(r, off, stream, n), NEW k \in 0 .. n - 1,
         NEW f, f = Fields(r)[k + 1]
  PROVE  Held(f, off[k]) /\ off[k + 1] = off[k] + Len(f[1]) + Len(f[2]) + 4
<1> DEFINE m == k + 1
<1>1. n \in Nat /\ m \in 1 .. n /\ m - 1 = k /\ f = Fields(r)[m]
  BY DEF Wire
<1>2. /\ IsPair(f) /\ Plain(f)
      /\ Len(f[1]) \in Nat /\ Len(f[2]) \in Nat
      /\ off[m - 1] \in Nat /\ off[m - 1] >= 12
      /\ off[m] = off[m - 1] + Len(f[1]) + Len(f[2]) + 4
      /\ FieldAt(f, stream, off[m - 1], Len(f[1]), Len(f[2]))
  <2> HIDE DEF m
  <2> QED BY <1>1, WireField
<1> QED BY <1>1, <1>2 DEF Held, IsPair

(* A symbol of the name of a field, or the colon behind it.                *)
LEMMA KeyStep ==
  ASSUME TypeInvariant, HeaderKey, NEW f, NEW b, Held(f, b), KeyRead(b, f),
         got > b => got >= b + Len(f[1]) + Len(f[2]) + 4
  PROVE  /\ res'.headers = res.headers /\ res'.status = res.status
         /\ \/ res'.parse_step = "header_key" /\ KeyRead(b, f)'
            \/ res'.parse_step = "header_value" /\ ValueRead(b, f)'
<1> DEFINE K == Len(f[1])
           V == Len(f[2])
           L == Len(tmp)
           c == stream[at]
<1>t. /\ at \in Nat /\ at > 0 /\ got \in Nat /\ res \in ResType /\ tmp \in Words /\ tmp2 \in Words
  BY DEF TypeInvariant
<1>0. /\ at <= got /\ res.parse_step = "header_key" /\ Quiet /\ At(at) = c /\ c \in Symbols
  BY <1>t, AtIs DEF HeaderKey, Reading
<1>1. got' = got
  BY <1>0 DEF Quiet, input
<1>2. /\ K \in Nat /\ V \in Nat /\ b \in Nat /\ L \in Nat /\ FieldAt(f, stream, b, K, V) /\ Plain(f)
      /\ f[1] \in Words
  BY <1>t DEF Held, Words
<1>3. /\ at = b + 1 + L /\ L <= K /\ tmp2 = <<>> /\ \A i \in 1 .. L : tmp[i] = f[1][i]
  BY DEF KeyRead
<1>4. got >= b + K + V + 4
  BY <1>0, <1>2, <1>3, <1>t
<1> HIDE DEF K, V, L, c
<1> DEFINE m == L + 1
<1>5. L < K => c = f[1][m] /\ c # ":"
  <2> SUFFICES ASSUME L < K PROVE c = f[1][m] /\ c # ":"
    OBVIOUS
  <2>1. at \in b + 1 .. b + K /\ at - b = m /\ m \in 1 .. K
    BY <1>2, <1>3
  <2>2. c = f[1][at - b]
    BY <2>1, <1>2 DEF FieldAt, c
  <2>3. f[1][m] # ":"
    <3> HIDE DEF m
    <3> QED BY <2>1, <1>2 DEF Plain, K
  <2> QED BY <2>1, <2>2, <2>3
<1>6. L = K => c = ":"
  <2>1. L = K => at = b + K + 1
    BY <1>2, <1>3
  <2>2. stream[b + K + 1] = ":"
    BY <1>2 DEF FieldAt
  <2> QED BY <2>1, <2>2 DEF c
<1>7. CASE At(at) # ":" /\ Push
  <2>1. L < K /\ c = f[1][m]
    BY <1>0, <1>2, <1>3, <1>5, <1>6, <1>7
  <2>2. tmp' = Append(tmp, c) /\ at' = at + 1 /\ UNCHANGED <<res, tmp2>>
    BY <1>0, <1>7 DEF Push, Skip
  <2>3. Len(tmp') = m /\ \A i \in 1 .. m : tmp'[i] = f[1][i]
    <3>1. /\ Len(tmp') = L + 1 /\ tmp'[L + 1] = c
          /\ \A i \in 1 .. L : tmp'[i] = tmp[i]
      BY <2>2, <1>0, <1>t, AppendText DEF L
    <3>2. \A i \in 1 .. m : i \in 1 .. L \/ i = m
      BY <1>2
    <3>3. tmp'[m] = f[1][m]
      BY <3>1, <2>1
    <3> HIDE DEF m
    <3>4. Len(tmp') = m
      BY <3>1 DEF m
    <3> QED BY <3>1, <3>2, <3>3, <3>4, <1>3
  <2>4. KeyRead(b, f)'
    <3>1. at' = b + 1 + m /\ m <= K
      BY <2>1, <2>2, <1>2, <1>3
    <3>2. got' >= b /\ tmp2' = <<>>
      BY <1>1, <1>2, <1>3, <1>4, <1>t, <2>2
    <3> HIDE DEF m
    <3> QED BY <2>3, <3>1, <3>2 DEF KeyRead, K
  <2> QED BY <2>2, <2>4, <1>0
<1>8. CASE At(at) = ":" /\ Goto("header_value") /\ Skip(1) /\ UNCHANGED <<tmp, tmp2>>
  <2>1. L = K
    BY <1>0, <1>2, <1>3, <1>5, <1>8
  <2>2. tmp = f[1]
    BY <2>1, <1>2, <1>3, <1>t, SameText DEF L, K
  <2>3. /\ res'.parse_step = "header_value" /\ res'.headers = res.headers /\ res'.status = res.status
        /\ at' = at + 1
    BY <1>8, <1>t DEF Goto, Skip, ResType
  <2>4. at' = b + K + 2 /\ tmp2' = <<>> /\ tmp' = f[1] /\ got' >= b + K + V + 4
    BY <2>1, <2>2, <2>3, <1>1, <1>2, <1>3, <1>4, <1>8, <1>t
  <2>5. ValueRead(b, f)'
    <3>1. \A i \in 1 .. Len(tmp2') : tmp2'[i] = f[2][i]
      <4>1. Len(tmp2') = 0
        BY <2>4
      <4> QED BY <4>1
    <3> QED BY <3>1, <2>4 DEF ValueRead, K, V
  <2> QED BY <2>3, <2>5
<1> QED BY <1>7, <1>8 DEF HeaderKey

(* A symbol of the value, or the end of the line: then name and value are  *)
(* complete.                                                               *)
LEMMA ValueStep ==
  ASSUME TypeInvariant, HeaderValue, NEW f, NEW b, Held(f, b), ValueRead(b, f)
  PROVE  \/ UNCHANGED res /\ ValueRead(b, f)'
         \/ /\ at = b + Len(f[1]) + Len(f[2]) + 3 /\ tmp = f[1] /\ tmp2 = f[2]
            /\ \/ ~LineEnd(at + 2) /\ EndField(FALSE) /\ at' = at + 2
               \/ LineEnd(at + 2) /\ EndField(TRUE) /\ at' = at + 4
<1> DEFINE K == Len(f[1])
           V == Len(f[2])
           L == Len(tmp2)
           c == stream[at]
<1>t. /\ at \in Nat /\ at > 0 /\ got \in Nat /\ res \in ResType /\ tmp \in Words /\ tmp2 \in Words
  BY DEF TypeInvariant
<1>0. /\ at <= got /\ res.parse_step = "header_value" /\ Quiet /\ At(at) = c /\ c \in Symbols
  BY <1>t, AtIs DEF HeaderValue, Reading
<1>1. got' = got
  BY <1>0 DEF Quiet, input
<1>2. /\ K \in Nat /\ V \in Nat /\ b \in Nat /\ L \in Nat /\ FieldAt(f, stream, b, K, V) /\ Plain(f)
      /\ f[2] \in Words
  BY <1>t DEF Held, Words
<1>3. /\ got >= b + K + V + 4 /\ tmp = f[1]
      /\ \/ at = b + K + 2 /\ tmp2 = <<>>
         \/ at = b + K + 3 + L /\ L <= V
      /\ \A i \in 1 .. L : tmp2[i] = f[2][i]
  BY DEF ValueRead
<1>4. tmp2 = <<>> <=> L = 0
  BY <1>t DEF Words
<1> HIDE DEF K, V, L, c
<1>5. /\ stream[b + K + 2] = SP /\ stream[b + K + V + 3] = CR /\ stream[b + K + V + 4] = LF
      /\ \A i \in b + K + 3 .. b + K + V + 2 : stream[i] = f[2][i - (b + K + 2)]
  BY <1>2 DEF FieldAt
<1>6. CASE at = b + K + 2 /\ tmp2 = <<>>
  <2>1. c = SP /\ SP # CR
    <3>1. SP # CR
      BY Zenon DEF SP, CR
    <3> QED BY <3>1, <1>5, <1>6 DEF c
  <2>2. ~LineEnd(at)
    BY <2>1, <1>0 DEF LineEnd
  <2>3. PushValue
    BY <2>2 DEF HeaderValue
  <2>4. tmp2' = tmp2 /\ at' = at + 1 /\ UNCHANGED <<res, tmp>>
    BY <2>1, <2>3, <1>0, <1>6 DEF PushValue, Skip
  <2>5. L = 0 /\ at' = b + K + 3 + 0 /\ tmp2' = <<>> /\ tmp' = f[1] /\ 0 <= V
    BY <2>4, <1>2, <1>3, <1>4, <1>6
  <2>6. ValueRead(b, f)'
    <3>1. Len(tmp2') = 0 /\ at' = b + K + 3 + Len(tmp2')
      BY <2>5
    <3>2. got' >= b + K + V + 4
      BY <1>1, <1>3
    <3> QED BY <2>5, <3>1, <3>2 DEF ValueRead, K, V
  <2> QED BY <2>4, <2>6
<1> DEFINE m == L + 1
<1>7. CASE at = b + K + 3 + L /\ L < V
  <2>1. at \in b + K + 3 .. b + K + V + 2 /\ at - (b + K + 2) = m /\ m \in 1 .. V
    BY <1>2, <1>7
  <2>2. c = f[2][at - (b + K + 2)]
    BY <2>1, <1>5 DEF c
  <2>3. f[2][m] # CR /\ (L = 0 => f[2][m] # SP)
    <3>1. \A i \in 1 .. V : f[2][i] # CR
      BY <1>2 DEF Plain, V
    <3>2. f[2][m] # CR
      <4> HIDE DEF m
      <4> QED BY <3>1, <2>1
    <3>3. ASSUME L = 0 PROVE f[2][m] # SP
      <4>1. f[2][1] # SP /\ m = 1
        BY <3>3, <1>2, <1>7 DEF Plain, V
      <4> QED BY <4>1
    <3> QED BY <3>2, <3>3
  <2>4. c = f[2][m] /\ c # CR /\ (L = 0 => c # SP)
    BY <2>1, <2>2, <2>3
  <2>5. ~LineEnd(at)
    BY <2>4, <1>0 DEF LineEnd
  <2>6. PushValue
    BY <2>5 DEF HeaderValue
  <2>7. tmp2' = Append(tmp2, c) /\ at' = at + 1 /\ UNCHANGED <<res, tmp>>
    BY <2>4, <2>6, <1>0, <1>4 DEF PushValue, Skip
  <2>8. Len(tmp2') = m /\ \A i \in 1 .. m : tmp2'[i] = f[2][i]
    <3>1. /\ Len(tmp2') = L + 1 /\ tmp2'[L + 1] = c
          /\ \A i \in 1 .. L : tmp2'[i] = tmp2[i]
      BY <2>7, <1>0, <1>t, AppendText DEF L
    <3>2. \A i \in 1 .. m : i \in 1 .. L \/ i = m
      BY <1>2
    <3>3. tmp2'[m] = f[2][m] /\ Len(tmp2') = m
      BY <3>1, <2>4
    <3> HIDE DEF m
    <3> QED BY <3>1, <3>2, <3>3, <1>3
  <2>9. ValueRead(b, f)'
    <3>1. at' = b + K + 3 + m /\ m <= V /\ tmp' = f[1]
      BY <2>7, <1>2, <1>3, <1>7
    <3>2. got' >= b + K + V + 4
      BY <1>1, <1>3
    <3> HIDE DEF m
    <3> QED BY <2>8, <3>1, <3>2 DEF ValueRead, K, V
  <2> QED BY <2>7, <2>9
<1>8. CASE at = b + K + 3 + L /\ L = V
  <2>1. at = b + K + V + 3 /\ at + 1 = b + K + V + 4
    BY <1>2, <1>8
  <2>2. c = CR /\ stream[at + 1] = LF /\ at + 1 <= got
    BY <2>1, <1>3, <1>5 DEF c
  <2>3. LineEnd(at)
    BY <2>2, <1>0 DEF LineEnd, At
  <2>4. tmp2 = f[2]
    BY <1>2, <1>3, <1>8, <1>t, SameText DEF L, V
  <2> QED BY <2>1, <2>3, <2>4, <1>3 DEF HeaderValue, Skip, K, V
<1>9. \/ at = b + K + 2 /\ tmp2 = <<>>
      \/ at = b + K + 3 + L /\ L < V
      \/ at = b + K + 3 + L /\ L = V
  BY <1>2, <1>3
<1> QED BY <1>6, <1>7, <1>8, <1>9, Zenon

(* The status line, which is never cut.                                    *)
LEMMA StatusStep ==
  ASSUME TypeInvariant, StatusRead, got = 0 \/ got >= 12, \A i \in 1 .. 12 : stream[i] = StatusLine[i],
         Protocol \/ Version \/ StatusCode \/ StatusDesc
  PROVE  /\ StatusRead' /\ res'.headers = res.headers
         /\ \/ res'.parse_step \in Early
            \/ res'.parse_step = "header_key" /\ at' = 13 /\ tmp' = <<>> /\ got >= 12
<1>t. /\ at \in Nat /\ at > 0 /\ got \in Nat /\ res \in ResType /\ tmp \in Words /\ tmp2 \in Words
  BY DEF TypeInvariant
<1>0. Quiet /\ at <= got /\ At(at) = stream[at] /\ res.parse_step \in Early
  BY <1>t, AtIs DEF Protocol, Version, StatusCode, StatusDesc, Reading, Early, InHeader
<1>1. got' = got /\ got >= 12 /\ Len(res.headers) = 0
  BY <1>0, <1>t DEF Quiet, input, StatusRead
<1>2. /\ stream[5] = "/" /\ stream[6] = "1.1" /\ stream[7] = SP /\ stream[8] = "200"
      /\ stream[9] = SP /\ stream[10] = "OK" /\ stream[11] = CR /\ stream[12] = LF
  <2>1. /\ 5 \in 1 .. 12 /\ 6 \in 1 .. 12 /\ 7 \in 1 .. 12 /\ 8 \in 1 .. 12 /\ 9 \in 1 .. 12
        /\ 10 \in 1 .. 12 /\ 11 \in 1 .. 12 /\ 12 \in 1 .. 12
    OBVIOUS
  <2> QED BY <2>1, StatusLineIs
<1>h. \A i \in 1 .. 4 : stream[i] = StatusLine[i] /\ stream[i] # "/"
  <2>1. \A i \in 1 .. 4 : i \in 1 .. 12 /\ (i = 1 \/ i = 2 \/ i = 3 \/ i = 4)
    OBVIOUS
  <2> QED BY <2>1, StatusLineIs
<1>3. "1.1" # SP /\ "200" # SP
  BY Zenon DEF SP
<1>p. Push => at' = at + 1 /\ tmp' = Append(tmp, stream[at]) /\ UNCHANGED res
  BY <1>0 DEF Push, Skip
<1>e. \A c : Append(<<>>, c) = <<c>>
  OBVIOUS
<1>4. CASE Protocol
  <2>0. res.parse_step = "protocol"
    BY <1>4 DEF Protocol, Reading
  <2> DEFINE L == Len(tmp)
             m == L + 1
  <2>1. L \in Nat /\ L <= 4 /\ at = m /\ \A i \in 1 .. L : tmp[i] = StatusLine[i]
    BY <2>0, <1>t DEF StatusRead, Words
  <2>2. CASE L < 4
    <3>1. m \in 1 .. 4 /\ stream[m] = StatusLine[m] /\ stream[m] # "/"
      <4>1. m \in 1 .. 4
        BY <2>1, <2>2
      <4> HIDE DEF m
      <4> QED BY <4>1, <1>h
    <3>2. Push
      BY <3>1, <2>1, <1>4, <1>0 DEF Protocol
    <3>3. tmp' = Append(tmp, stream[m]) /\ at' = m + 1 /\ res' = res /\ stream[m] \in Symbols
      BY <3>2, <1>p, <1>0, <1>t, <2>1, AtIs
    <3>4. /\ Len(tmp') = L + 1 /\ tmp'[L + 1] = stream[m] /\ \A i \in 1 .. L : tmp'[i] = tmp[i]
      BY <3>3, <1>t, AppendText
    <3>5. \A i \in 1 .. m : i \in 1 .. L \/ i = m
      BY <2>1
    <3>6. Len(tmp') = m /\ tmp'[m] = StatusLine[m] /\ m <= 4
      BY <3>1, <3>4
    <3> HIDE DEF m
    <3>7. \A i \in 1 .. m : tmp'[i] = StatusLine[i]
      BY <2>1, <3>4, <3>5, <3>6
    <3>8. at' = 1 + Len(tmp') /\ Len(tmp') <= 4
      BY <3>1, <3>3, <3>6
    <3> QED BY <3>3, <3>6, <3>7, <3>8, <2>0, <1>1 DEF StatusRead, Early, InHeader
  <2>3. CASE L = 4
    <3>1. at = 5 /\ stream[at] = "/" /\ tmp[4] = "P"
      BY <2>1, <2>3, <1>2, StatusLineIs
    <3>2. ~IsSuffix(<<"h", "t", "t", "p">>, tmp)
      BY <3>1, <2>3, <1>t, NotHttp
    <3>3. Goto("version") /\ tmp' = <<>> /\ at' = 6
      BY <3>1, <3>2, <2>3, <1>4, <1>0 DEF Protocol, Skip
    <3>4. res'.parse_step = "version" /\ res'.headers = res.headers
      BY <3>3, <1>t DEF Goto, ResType
    <3> QED BY <3>3, <3>4, <1>1 DEF StatusRead, Early, InHeader
  <2>4. L \in Nat /\ L <= 4
    BY <2>1
  <2> HIDE DEF L
  <2>5. L < 4 \/ L = 4
    BY <2>4
  <2> QED BY <2>2, <2>3, <2>5
<1>5. CASE Version
  <2>0. res.parse_step = "version"
    BY <1>5 DEF Version, Reading
  <2>1. CASE at = 6 /\ tmp = <<>>
    <3>1. Push
      BY <1>5, <1>0, <1>2, <1>3, <2>1 DEF Version
    <3>2. at' = 7 /\ tmp' = <<"1.1">> /\ res' = res
      BY <3>1, <1>p, <1>2, <1>e, <2>1
    <3> QED BY <3>2, <2>0, <1>1 DEF StatusRead, Early, InHeader
  <2>2. CASE at = 7
    <3>1. Goto("status_code") /\ tmp' = <<>> /\ at' = 8
      BY <1>5, <1>0, <1>2, <2>2 DEF Version, Skip
    <3>2. res'.parse_step = "status_code" /\ res'.headers = res.headers
      BY <3>1, <1>t DEF Goto, ResType
    <3> QED BY <3>1, <3>2, <1>1 DEF StatusRead, Early, InHeader
  <2> QED BY <2>0, <2>1, <2>2 DEF StatusRead
<1>6. CASE StatusCode
  <2>0. res.parse_step = "status_code"
    BY <1>6 DEF StatusCode, Reading
  <2>1. CASE at = 8 /\ tmp = <<>>
    <3>1. Push
      BY <1>6, <1>0, <1>2, <1>3, <2>1 DEF StatusCode
    <3>2. at' = 9 /\ tmp' = <<"200">> /\ res' = res
      BY <3>1, <1>p, <1>2, <1>e, <2>1
    <3> QED BY <3>2, <2>0, <1>1 DEF StatusRead, Early, InHeader
  <2>2. CASE at = 9 /\ tmp = <<"200">>
    <3>1. res' = [res EXCEPT !.status = tmp, !.parse_step = "status_desc"] /\ at' = 10
      BY <1>6, <1>0, <1>2, <2>2 DEF StatusCode, Skip
    <3>2. res'.parse_step = "status_desc" /\ res'.headers = res.headers /\ res'.status = <<"200">>
      BY <3>1, <2>2, <1>t DEF ResType
    <3> QED BY <3>1, <3>2, <1>1 DEF StatusRead, Early, InHeader
  <2> QED BY <2>0, <2>1, <2>2 DEF StatusRead
<1>7. CASE StatusDesc
  <2>0. res.parse_step = "status_desc" /\ res.status = <<"200">>
    BY <1>7 DEF StatusDesc, Reading, StatusRead
  <2>1. CASE at = 10
    <3>1. ~LineEnd(at)
      BY <1>0, <1>2, <2>1 DEF LineEnd, CR
    <3>2. Push
      BY <1>7, <3>1 DEF StatusDesc
    <3>3. at' = 11 /\ res' = res
      BY <3>2, <1>p, <2>1
    <3> QED BY <3>3, <2>0, <1>1 DEF StatusRead, Early, InHeader
  <2>2. CASE at = 11
    <3>1. LineEnd(at)
      <4>1. at + 1 = 12 /\ at + 1 <= got
        BY <2>2, <1>1, <1>t
      <4> QED BY <4>1, <1>0, <1>2, <2>2 DEF LineEnd, At
    <3>2. Goto("header_key") /\ tmp' = <<>> /\ at' = 13
      BY <1>7, <3>1, <2>2 DEF StatusDesc, Skip
    <3>3. res'.parse_step = "header_key" /\ res'.headers = res.headers /\ res'.status = res.status
      BY <3>2, <1>t DEF Goto, ResType
    <3> QED BY <3>2, <3>3, <2>0, <1>1 DEF StatusRead, Early, InHeader
  <2> QED BY <2>0, <2>1, <2>2 DEF StatusRead
<1> QED BY <1>4, <1>5, <1>6, <1>7

(* At the end of its line a field is taken as it was sent.                 *)
LEMMA FieldEnds ==
  ASSUME Typed, NEW last, EndField(last), last \in BOOLEAN, res.parse_step = "header_value",
         NEW f, f = <<f[1], f[2]>>, tmp = f[1], tmp2 = f[2]
  PROVE  /\ res'.headers = Append(res.headers, f) /\ res'.status = res.status
         /\ res'.parse_step = (IF last THEN BodyStep(res') ELSE "header_key")
         /\ res'.content_length = (IF f[1] = <<"Content-Length">> THEN atoi(f[2]) ELSE res.content_length)
         /\ f[1] # <<"Transfer-Encoding">> => res'.chunked = res.chunked
         /\ res'.recived_length = res.recived_length
         /\ tmp' = <<>> /\ tmp2' = <<>>
<1> DEFINE r == Field(res, tmp, tmp2)
<1>0. r = Field(res, tmp, tmp2)
  OBVIOUS
<1>1. /\ res' = [r EXCEPT !.parse_step = IF last THEN BodyStep(r) ELSE "header_key"]
      /\ tmp' = <<>> /\ tmp2' = <<>>
  BY DEF EndField
<1>t. tmp \in Words /\ tmp2 \in Words /\ res \in ResType
  BY DEF Typed, TypeInvariant
<1> HIDE DEF r
<1>2. FieldSays(r, res, tmp, tmp2)
  BY <1>0, <1>t, FieldIs
<1>3. /\ r \in ResType /\ r.headers = Append(res.headers, <<tmp, tmp2>>) /\ r.status = res.status
      /\ r.recived_length = res.recived_length
      /\ r.content_length = (IF f[1] = <<"Content-Length">> THEN atoi(f[2]) ELSE res.content_length)
  BY <1>2 DEF FieldSays
<1>4. f[1] # <<"Transfer-Encoding">> => r.chunked = res.chunked
  <2>1. r.chunked = (res.chunked \/ (tmp = <<"Transfer-Encoding">> /\ tmp2 = <<"chunked">>))
    BY <1>2 DEF FieldSays
  <2>2. res.chunked \in BOOLEAN
    BY <1>t DEF ResType
  <2> QED BY <2>1, <2>2, Zenon
<1>5. /\ res'.headers = r.headers /\ res'.status = r.status /\ res'.content_length = r.content_length
      /\ res'.parse_step = (IF last THEN BodyStep(r) ELSE "header_key") /\ res'.chunked = r.chunked
      /\ res'.recived_length = r.recived_length
  BY <1>1, <1>3 DEF ResType, BodyStep
<1>6. BodyStep(res') = BodyStep(r)
  BY <1>5 DEF BodyStep
<1>7. <<tmp, tmp2>> = f
  OBVIOUS
<1> QED BY <1>1, <1>3, <1>4, <1>5, <1>6, <1>7

(* Each step goes on in the header as it was sent, so long as the segments *)
(* end with its lines.                                                     *)
LEMMA UnderstoodStep ==
  ASSUME Typed, Positions, ~response.chunked, Cut,
         Clean, Clean', NEW off, Wire(response, off, stream, Len(Fields(response))),
         Understood(off), Next,
         NEW F, F = Fields(response), NEW n, n = Len(F), NEW c, c = Length,
         NEW m, m = Len(response.before) + 1, NEW h, h = HeadLength,
         NEW k, k = Len(res.headers)
  PROVE  Understood(off)'
<1>t. /\ response \in Responses /\ TypeInvariant
      /\ got \in Nat /\ got <= Len(stream) /\ at \in Nat /\ at > 0
      /\ res \in ResType /\ tmp \in Words /\ tmp2 \in Words
  BY DEF Typed, TypeInvariant
<1>k. k \in Nat /\ res.headers \in Seq(Words \X Words)
  BY <1>t DEF ResType
<1>f. /\ n \in Nat /\ n > 0 /\ m \in 1 .. n /\ F[m] = << <<"Content-Length">>, Size >>
      /\ \A i \in 1 .. n : i # m => Unframed(F[i])
  <2>1. FramingField(response) = << <<"Content-Length">>, Size >>
    BY DEF FramingField, Size
  <2>2. /\ n \in Nat /\ n > 0 /\ m \in 1 .. n /\ F[m] = FramingField(response)
        /\ \A i \in 1 .. n : i # m => Unframed(F[i])
    BY <1>t, FieldsAre
  <2> QED BY <2>1, <2>2
<1>v. c \in Nat /\ c = atoi(Size)
  BY <1>t, SizeIs
<1>w. Wire(response, off, stream, n)
  OBVIOUS
<1>u. UNCHANGED response => stream' = stream /\ HeadLength' = HeadLength /\ Length' = Length
  BY SameStream DEF Length
<1>i. UnderstoodBy(off, F, m, c, h)
  BY DEF Understood
<1>g. UNCHANGED response /\ UnderstoodBy(off, F, m, c, h)' => Understood(off)'
  BY <1>u DEF Understood
<1>fl. ASSUME NEW i \in 0 .. n - 1
       PROVE  /\ Held(F[i + 1], off[i])
              /\ off[i + 1] = off[i] + Len(F[i + 1][1]) + Len(F[i + 1][2]) + 4
  <2> DEFINE f == F[i + 1]
  <2>1. f = Fields(response)[i + 1]
    OBVIOUS
  <2> HIDE DEF f
  <2>2. Held(f, off[i]) /\ off[i + 1] = off[i] + Len(f[1]) + Len(f[2]) + 4
    <3>1. response \in Responses /\ Wire(response, off, stream, n) /\ i \in 0 .. n - 1
      BY <1>t, <1>w
    <3>2. Held(f, off[i])
      BY <2>1, <3>1, FieldHeld
    <3>3. off[i + 1] = off[i] + Len(f[1]) + Len(f[2]) + 4
      BY <2>1, <3>1, FieldHeld
    <3> QED BY <3>2, <3>3
  <2> QED BY <2>2 DEF f
<1>h. /\ HeadLength = off[n] + 2 /\ off[0] = 12 /\ \A i \in 1 .. 12 : stream[i] = StatusLine[i]
      /\ stream[off[n] + 1] = CR /\ stream[off[n] + 2] = LF
      /\ \A i \in 0 .. n : off[i] \in Nat /\ off[i] >= 12
  <2>1. \A i \in 0 .. n : off[i] \in Nat /\ off[i] >= 12
    BY <1>t, <1>w, LinesFollow
  <2> QED BY <2>1, <1>t, <1>w, StreamSent DEF Wire, HeadIs
<1>n. n \in Nat /\ n > 0 /\ off[n] \in Nat /\ off[n] >= 12 /\ h = off[n] + 2 /\ h \in Nat
  <2>1. n \in Nat /\ n > 0
    BY <1>f
  <2>2. n \in 0 .. n
    BY <2>1
  <2>3. off[n] \in Nat /\ off[n] >= 12
    BY <2>2, <1>h
  <2> QED BY <2>1, <2>3, <1>h
<1>s. Quiet => UNCHANGED <<response, got, cuts, from, delivered, finish>>
  BY DEF Quiet, input
<1>l. EndsLine(got, off, n)
  <2>1. got = 0 \/ got > off[n] + 2 \/ (stream[got] = LF /\ got # off[n])
    <3>1. off[n] \in Nat
      BY <1>h, <1>f
    <3>2. got # 0 /\ ~(got > off[n] + 2) => got \in HeadCuts
      BY <3>1, <1>h, <1>t DEF Clean, Cut
    <3> QED BY <3>1, <3>2, <1>h, <1>t DEF HeadCuts
  <2> QED BY <2>1, <1>t, <1>w, LineEnded
<1>12. got = 0 \/ got >= 12
  <2>1. \A i \in 0 .. n - 1 : off[i] >= 12
    <3>1. \A i \in 0 .. n - 1 : i \in 0 .. n
      BY <1>n
    <3> QED BY <3>1, <1>h
  <2> QED BY <2>1, <1>l, <1>n, <1>t DEF EndsLine
<1>p. /\ k <= n /\ \A i \in 1 .. k : res.headers[i] = F[i]
      /\ StatusRead
      /\ res.parse_step = "header_key" => k < n /\ KeyRead(off[k], F[k + 1])
      /\ res.parse_step = "header_value" => k < n /\ ValueRead(off[k], F[k + 1])
      /\ res.parse_step = "body" => k = n /\ AtBody(c, h)
      /\ res.parse_step # "body" \/ res.content_length = 0 => ~finish
      /\ res.parse_step \in Early => tmp2 = <<>>
      /\ res.parse_step \notin {"chunk_len", "chunk_buff"} /\ res.chunked = FALSE
      /\ k >= m => res.content_length = c
  BY <1>i DEF UnderstoodBy
<1>y. HeadLength = h /\ Length = c
  OBVIOUS
<1> DEFINE f == F[k + 1]
           b == off[k]
<1>b. k < n => /\ k \in 0 .. n - 1 /\ k \in 0 .. n /\ Held(f, b) /\ b \in Nat /\ b >= 12
               /\ off[k + 1] = b + Len(f[1]) + Len(f[2]) + 4
               /\ Len(f[1]) \in Nat /\ Len(f[2]) \in Nat
               /\ got > b => /\ got >= off[k + 1]
                             /\ k + 1 = n => got >= off[n] + 2
  <2> SUFFICES ASSUME k < n
               PROVE  /\ k \in 0 .. n - 1 /\ k \in 0 .. n /\ Held(f, b) /\ b \in Nat /\ b >= 12
                      /\ off[k + 1] = b + Len(f[1]) + Len(f[2]) + 4
                      /\ Len(f[1]) \in Nat /\ Len(f[2]) \in Nat
                      /\ got > b => /\ got >= off[k + 1]
                                    /\ k + 1 = n => got >= off[n] + 2
    OBVIOUS
  <2>1. k \in 0 .. n - 1 /\ k \in 0 .. n
    BY <1>k, <1>f
  <2>2. Held(f, b) /\ off[k + 1] = b + Len(f[1]) + Len(f[2]) + 4
    BY <2>1, <1>fl
  <2>3. got > b => got >= off[k + 1] /\ (k + 1 = n => got >= off[n] + 2)
    BY <2>1, <1>t, <1>w, <1>l, LineCame
  <2> HIDE DEF f, b
  <2> QED BY <2>1, <2>2, <2>3 DEF Held
<1> HIDE DEF f, b
<1>1. ASSUME NEW g \in 1 .. Len(stream) - got, response_recive(g) PROVE Understood(off)'
  <2>1. /\ got' = got + g /\ cuts' = cuts \cup {got'} /\ at' = got + 1 /\ at > got
        /\ tmp' = <<>> /\ tmp2' = <<>> /\ UNCHANGED <<response, res, delivered, finish>>
    BY <1>1 DEF response_recive
  <2>2. got' \in Nat /\ got' > got /\ stream' = stream /\ HeadLength' = HeadLength
    BY <2>1, <1>t, <1>u
  <2>3. got' >= 12
    <3>1. off[n] \in Nat /\ off[n] >= 12
      BY <1>h, <1>f
    <3>2. got' > off[n] + 2 \/ (stream[got'] = LF /\ got' # off[n])
      <4>1. ~(got' > off[n] + 2) => got' \in HeadCuts'
        BY <2>1, <2>2, <3>1, <1>h DEF Clean, Cut
      <4>2. HeadCuts' = HeadCuts
        BY <2>2 DEF HeadCuts
      <4> QED BY <4>1, <4>2, <3>1, <2>2, <1>h DEF HeadCuts
    <3>3. EndsLine(got', off, n)
      BY <3>2, <2>2, <1>t, <1>w, LineEnded
    <3>4. \A i \in 0 .. n - 1 : i \in 0 .. n
      BY <1>f
    <3>5. \A i \in 0 .. n - 1 : off[i] >= 12
      BY <3>4, <1>h
    <3> QED BY <3>1, <3>3, <3>5, <2>2, <1>t DEF EndsLine
  <2>4. res.parse_step = "protocol" => got = 0
    BY <2>1, <1>12, <1>p, <1>t DEF StatusRead
  <2>5. res.parse_step \notin {"version", "status_code", "status_desc"}
    BY <2>1, <1>p, <1>t DEF StatusRead
  <2>6. StatusRead'
    BY <2>1, <2>3, <2>4, <2>5, <1>p DEF StatusRead
  <2>7. res.parse_step = "header_key" => k < n /\ KeyRead(b, f)'
    <3> SUFFICES ASSUME res.parse_step = "header_key" PROVE k < n /\ KeyRead(b, f)'
      OBVIOUS
    <3>1. k < n /\ KeyRead(b, f)
      BY <1>p DEF b, f
    <3>2. /\ got >= b /\ at = b + 1 + Len(tmp) /\ Len(tmp) <= Len(f[1]) /\ Len(tmp) \in Nat
      BY <3>1, <1>t DEF KeyRead, Words
    <3>3. got = b
      <4> DEFINE K == Len(f[1])
                 V == Len(f[2])
                 L == Len(tmp)
      <4>1. /\ K \in Nat /\ V \in Nat /\ b \in Nat
            /\ got > b => got >= b + K + V + 4
        BY <3>1, <1>b
      <4>2. got >= b /\ at = b + 1 + L /\ L <= K /\ L \in Nat
        BY <3>2
      <4> HIDE DEF K, V, L
      <4> QED BY <4>1, <4>2, <2>1, <1>t
    <3>4. Len(tmp') = 0
      BY <2>1
    <3>5. at' = b + 1 + Len(tmp') /\ got' >= b /\ Len(tmp') <= Len(f[1])
      <4> DEFINE K == Len(f[1])
      <4>1. K \in Nat /\ b \in Nat
        BY <3>1, <1>b
      <4> HIDE DEF K, b
      <4>2. at' = b + 1 + 0 /\ got' >= b /\ 0 <= K
        BY <4>1, <3>3, <2>1, <2>2, <1>t
      <4> QED BY <4>2, <3>4 DEF K
    <3> QED BY <3>1, <3>4, <3>5, <2>1 DEF KeyRead
  <2>8. res.parse_step # "header_value"
    <3> SUFFICES ASSUME res.parse_step = "header_value" PROVE FALSE
      OBVIOUS
    <3>1. k < n /\ ValueRead(b, f)
      BY <1>p DEF b, f
    <3> DEFINE K == Len(f[1])
               V == Len(f[2])
               L == Len(tmp2)
    <3>2. K \in Nat /\ V \in Nat /\ b \in Nat /\ L \in Nat
      BY <3>1, <1>b, <1>t DEF Words
    <3>3. /\ got >= b + K + V + 4
          /\ at = b + K + 2 \/ (at = b + K + 3 + L /\ L <= V)
      BY <3>1 DEF ValueRead
    <3> HIDE DEF K, V, L
    <3> QED BY <3>2, <3>3, <2>1, <1>t
  <2>9. res.parse_step = "body" => AtBody(c, h)'
    <3> SUFFICES ASSUME res.parse_step = "body", res.content_length # 0
                 PROVE  /\ at' = h + res.recived_length + 1 /\ at' <= got' + 1
                        /\ delivered' = Prefix(h, res.recived_length, c)
                        /\ finish' <=> res.recived_length >= c
      BY <2>1 DEF AtBody
    <3>1. /\ at = h + res.recived_length + 1 /\ at <= got + 1
          /\ delivered = Prefix(h, res.recived_length, c)
          /\ finish <=> res.recived_length >= c
      BY <1>p DEF AtBody
    <3>2. at = got + 1 /\ at' = at /\ at' <= got' + 1
      BY <3>1, <2>1, <2>2, <1>t
    <3> QED BY <3>1, <3>2, <2>1
  <2>10. UnderstoodBy(off, F, m, c, h)'
    <3> QED BY <2>1, <2>6, <2>7, <2>8, <2>9, <1>p DEF UnderstoodBy, b, f
  <2> QED BY <2>1, <2>10, <1>g
<1>2. ASSUME Protocol \/ Version \/ StatusCode \/ StatusDesc PROVE Understood(off)'
  <2>0. Quiet /\ res.parse_step \in Early
    BY <1>2 DEF Protocol, Version, StatusCode, StatusDesc, Reading, Early, InHeader
  <2>1. /\ StatusRead' /\ res'.headers = res.headers
        /\ \/ res'.parse_step \in Early
           \/ res'.parse_step = "header_key" /\ at' = 13 /\ tmp' = <<>> /\ got >= 12
    BY <1>2, <1>t, <1>p, <1>12, <1>h, StatusStep
  <2>2. UNCHANGED <<response, got, finish>> /\ tmp2' = tmp2
    BY <2>0, <1>2, <1>s DEF Protocol, Version, StatusCode, StatusDesc, Push
  <2>7. res'.chunked = res.chunked
    BY <1>2, <1>t DEF Protocol, Version, StatusCode, StatusDesc, Push, Goto, ResType
  <2>3. k = 0 /\ Len(res'.headers) = 0
    BY <2>0, <2>1, <1>p DEF StatusRead
  <2>4. tmp2 = <<>>
    BY <2>0, <1>p
  <2>5. ASSUME res'.parse_step = "header_key" PROVE 0 < n /\ KeyRead(off[0], F[1])'
    <3>1. at' = 13 /\ tmp' = <<>> /\ got >= 12
      BY <2>1, <2>5 DEF Early
    <3>2. Len(tmp') = 0
      BY <3>1
    <3>3. F[1] = f /\ Len(f[1]) \in Nat
      BY <2>3, <1>b, <1>f DEF f
    <3>4. off[0] = 12
      BY <1>h
    <3> QED BY <3>1, <3>2, <3>3, <3>4, <2>2, <2>4, <1>f DEF KeyRead
  <2>6. UnderstoodBy(off, F, m, c, h)'
    <3>1. res'.parse_step \notin {"header_value", "body", "chunk_len", "chunk_buff"}
      BY <2>1 DEF Early, InHeader
    <3>2. ~finish /\ ~(0 >= m) /\ res'.chunked = FALSE
      <4>1. res.parse_step # "body"
        BY <2>0 DEF Early, InHeader
      <4> QED BY <4>1, <2>7, <1>f, <1>p
    <3> QED BY <2>1, <2>2, <2>3, <2>4, <2>5, <3>1, <3>2, <1>f DEF UnderstoodBy
  <2> QED BY <2>2, <2>6, <1>g
<1>3. ASSUME HeaderKey PROVE Understood(off)'
  <2>0. Quiet /\ res.parse_step = "header_key" /\ k < n /\ KeyRead(b, f) /\ Held(f, b)
    BY <1>3, <1>p, <1>b DEF HeaderKey, Reading, b, f
  <2>1. /\ res'.headers = res.headers /\ res'.status = res.status
        /\ \/ res'.parse_step = "header_key" /\ KeyRead(b, f)'
           \/ res'.parse_step = "header_value" /\ ValueRead(b, f)'
    BY <2>0, <1>3, <1>b, <1>t, KeyStep
  <2>2. UNCHANGED <<response, got, finish>>
    BY <2>0, <1>s
  <2>5. res'.chunked = res.chunked /\ res'.content_length = res.content_length
    BY <1>3, <1>t DEF HeaderKey, Push, Goto, ResType
  <2>3. StatusRead'
    BY <2>0, <2>1, <1>p DEF StatusRead, Early
  <2>4. UnderstoodBy(off, F, m, c, h)'
    <3>1. res'.parse_step \notin Early
      BY <2>1 DEF Early
    <3> QED BY <2>0, <2>1, <2>2, <2>3, <2>5, <3>1, <1>p DEF UnderstoodBy, b, f
  <2> QED BY <2>2, <2>4, <1>g
<1>4. ASSUME HeaderValue PROVE Understood(off)'
  <2>0. Quiet /\ res.parse_step = "header_value" /\ k < n /\ ValueRead(b, f) /\ Held(f, b)
    BY <1>4, <1>p, <1>b DEF HeaderValue, Reading, b, f
  <2>2. UNCHANGED <<response, got, delivered, finish>>
    BY <2>0, <1>s
  <2>3. CASE UNCHANGED res /\ ValueRead(b, f)'
    <3>1. StatusRead'
      BY <2>0, <2>3, <1>p DEF StatusRead, Early
    <3>2. UnderstoodBy(off, F, m, c, h)'
      <4>1. res.parse_step \notin Early
        BY <2>0 DEF Early
      <4> QED BY <2>0, <2>2, <2>3, <3>1, <4>1, <1>p DEF UnderstoodBy, b, f
    <3> QED BY <2>2, <3>2, <1>g
  <2>4. ASSUME NEW last \in BOOLEAN, EndField(last),
               at = b + Len(f[1]) + Len(f[2]) + 3, tmp = f[1], tmp2 = f[2],
               last <=> LineEnd(at + 2), last = FALSE => at' = at + 2, last = TRUE => at' = at + 4
        PROVE  Understood(off)'
    <3>1. /\ res'.headers = Append(res.headers, f) /\ res'.status = res.status
          /\ res'.parse_step = (IF last THEN BodyStep(res') ELSE "header_key")
          /\ res'.content_length = (IF f[1] = <<"Content-Length">> THEN atoi(f[2]) ELSE res.content_length)
          /\ f[1] # <<"Transfer-Encoding">> => res'.chunked = res.chunked
          /\ res'.recived_length = res.recived_length
          /\ tmp' = <<>> /\ tmp2' = <<>>
      BY <2>0, <2>4, FieldEnds DEF Held
    <3>2. /\ b \in Nat /\ off[k + 1] = at + 1 /\ at + 1 <= got
          /\ k + 1 = n => got >= off[n] + 2
      <4> DEFINE K == Len(f[1])
                 V == Len(f[2])
      <4>1. /\ K \in Nat /\ V \in Nat /\ b \in Nat /\ off[k + 1] = b + K + V + 4
            /\ got > b => (k + 1 = n => got >= off[n] + 2)
        BY <2>0, <1>b
      <4>2. got >= b + K + V + 4 /\ at = b + K + V + 3
        BY <2>0, <2>4 DEF ValueRead
      <4> HIDE DEF K, V
      <4>3. got > b /\ off[k + 1] = at + 1 /\ at + 1 <= got
        BY <4>1, <4>2, <1>t
      <4> QED BY <4>1, <4>3
    <3>3. LineEnd(at + 2) <=> k + 1 = n
      <4> DEFINE e == at + 2
      <4>1. e \in Nat /\ e > 0 /\ e = off[k + 1] + 1
        BY <3>2, <1>t
      <4>2. ASSUME k + 1 = n PROVE LineEnd(e)
        <5>1. stream[e] = CR /\ stream[e + 1] = LF /\ e + 1 <= got
          <6>1. off[n] \in Nat /\ e = off[n] + 1 /\ e + 1 = off[n] + 2
            <7>1. off[k + 1] = off[n]
              BY <4>2
            <7> HIDE DEF e
            <7> QED BY <7>1, <4>1, <1>n
          <6> QED BY <6>1, <4>2, <3>2, <1>h
        <5> QED BY <5>1, <4>1, <1>t DEF LineEnd, At
      <4>3. ASSUME k + 1 # n PROVE ~LineEnd(e)
        <5> DEFINE i == k + 1
        <5>1. i \in 0 .. n - 1
          BY <4>3, <2>0, <1>k, <1>f
        <5>2. stream[off[i] + 1] # CR
          <6> HIDE DEF i
          <6> QED BY <5>1, <1>t, <1>w, NoEmptyLine
        <5>3. LineEnd(e) => stream[e] = CR
          <6> HIDE DEF e
          <6> QED BY <4>1, <1>t, AtIs
        <5> QED BY <5>2, <5>3, <4>1
      <4> QED BY <4>2, <4>3
    <3>4. /\ Len(res'.headers) = k + 1
          /\ \A i \in 1 .. k + 1 : res'.headers[i] = F[i]
      <4>1. /\ Len(res'.headers) = k + 1 /\ res'.headers[k + 1] = f
            /\ \A i \in 1 .. k : res'.headers[i] = res.headers[i]
        <5>1. f \in Words \X Words
          BY <2>0 DEF Held
        <5> QED BY <5>1, <3>1, <1>k
      <4>2. \A i \in 1 .. k + 1 : i \in 1 .. k \/ i = k + 1
        BY <1>k
      <4> QED BY <4>1, <4>2, <1>p DEF f
    <3>5. /\ res'.chunked = FALSE
          /\ k + 1 >= m => res'.content_length = c
      <4> DEFINE j == k + 1
      <4>0. j \in 1 .. n /\ f = F[j]
        BY <2>0, <1>k, <1>f DEF f
      <4> HIDE DEF j
      <4>1. CASE j = m
        <5>1. f[1] = <<"Content-Length">> /\ f[2] = Size
          BY <4>0, <4>1, <1>f
        <5>2. f[1] # <<"Transfer-Encoding">>
          <6>1. <<"Content-Length">>[1] # <<"Transfer-Encoding">>[1]
            OBVIOUS
          <6> QED BY <5>1, <6>1
        <5> QED BY <5>1, <5>2, <3>1, <1>p, <1>v
      <4>2. CASE j # m
        <5>1. f[1] # <<"Content-Length">> /\ f[1] # <<"Transfer-Encoding">>
          <6>1. Unframed(f)
            BY <4>0, <4>2, <1>f
          <6> QED BY <6>1, Zenon DEF Unframed
        <5>2. res'.chunked = FALSE /\ res'.content_length = res.content_length
          BY <5>1, <3>1, <1>p
        <5>3. j >= m => k >= m
          BY <4>2, <1>k, <1>f DEF j
        <5> QED BY <5>2, <5>3, <1>p DEF j
      <4> QED BY <4>1, <4>2
    <3>6. res'.parse_step = (IF k + 1 = n THEN "body" ELSE "header_key")
      BY <3>1, <3>3, <3>5, <2>4 DEF BodyStep
    <3>7. StatusRead'
      <4>1. res.status = <<"200">>
        BY <2>0, <1>p DEF StatusRead
      <4>2. res'.parse_step \in {"body", "header_key"}
        BY <3>6
      <4> QED BY <4>1, <4>2, <3>1 DEF StatusRead, Early, InHeader
    <3>8. ASSUME k + 1 # n PROVE k + 1 < n /\ KeyRead(off[k + 1], F[k + 2])'
      <4>1. k + 1 < n
        BY <3>8, <2>0, <1>k, <1>f
      <4>2. Len(tmp') = 0
        BY <3>1
      <4>3. at' = off[k + 1] + 1 + 0 /\ got' >= off[k + 1]
        <5>1. at' = at + 2
          BY <3>3, <3>8, <2>4
        <5> DEFINE a == off[k + 1]
        <5>2. a = at + 1 /\ at + 1 <= got /\ got' = got
          BY <3>2, <2>2
        <5> HIDE DEF a
        <5>3. at' = a + 1 + 0 /\ got' >= a
          BY <5>1, <5>2, <1>t
        <5> QED BY <5>3 DEF a
      <4> DEFINE i == k + 1
                 g == F[i + 1]
      <4>4. Len(g[1]) \in Nat /\ i + 1 = k + 2
        <5>1. i \in 0 .. n - 1
          BY <4>1, <1>k, <1>f
        <5>2. Held(g, off[i])
          <6> HIDE DEF i
          <6> QED BY <5>1, <1>fl
        <5>3. i + 1 = k + 2
          BY <1>k
        <5> HIDE DEF g, i
        <5> QED BY <5>2, <5>3 DEF Held
      <4>5. F[k + 2] = g
        BY <4>4
      <4> HIDE DEF g
      <4>6. KeyRead(off[k + 1], g)'
        <5> DEFINE a == off[k + 1]
        <5>1. at' = a + 1 + Len(tmp') /\ got' >= a /\ Len(tmp') <= Len(g[1])
          BY <4>2, <4>3, <4>4
        <5> HIDE DEF a
        <5>2. KeyRead(a, g)'
          BY <5>1, <4>2, <3>1 DEF KeyRead
        <5> QED BY <5>2 DEF a
      <4> QED BY <4>1, <4>5, <4>6
    <3>9. k + 1 = n => AtBody(c, h)'
      <4> SUFFICES ASSUME k + 1 = n, res'.content_length # 0
                   PROVE  /\ at' = h + res'.recived_length + 1 /\ at' <= got' + 1
                          /\ delivered' = Prefix(h, res'.recived_length, c)
                          /\ finish' <=> res'.recived_length >= c
        BY DEF AtBody
      <4>1. res'.recived_length = 0 /\ delivered' = <<>> /\ ~finish'
        BY <2>0, <2>2, <3>1 DEF Typed, Positions, InHeader
      <4>2. at' = h + 1 /\ at' <= got' + 1
        <5>1. at' = at + 4 /\ h = off[n] + 2 /\ off[n] = at + 1 /\ got >= off[n] + 2 /\ got' = got
          BY <2>2, <2>4, <3>2, <3>3, <1>h
        <5> QED BY <5>1, <1>t
      <4>3. c \in Nat /\ c > 0
        <5>1. k + 1 >= m
          BY <1>f
        <5> QED BY <5>1, <3>5, <1>v
      <4>4. Prefix(h, 0, c) = <<>>
        BY <4>3, PrefixNone
      <4> QED BY <4>1, <4>2, <4>3, <4>4, <1>t, <1>h
    <3>10. UnderstoodBy(off, F, m, c, h)'
      <4> DEFINE j == k + 1
      <4>1. Len(res'.headers) = j /\ j + 1 = k + 2
        BY <3>4, <1>k
      <4>2. j <= n /\ \A i \in 1 .. j : res'.headers[i] = F[i]
        BY <3>4, <2>0, <1>k, <1>f
      <4>3. res'.parse_step = "header_key" => j < n /\ KeyRead(off[j], F[j + 1])'
        <5>1. KeyRead(off[k + 1], F[k + 2])' => KeyRead(off[j], F[j + 1])'
          BY <4>1
        <5> QED BY <3>6, <3>8, <5>1
      <4>4. res'.parse_step = "body" => j = n /\ AtBody(c, h)'
        BY <3>6, <3>9
      <4>5. res'.parse_step \notin Early \cup {"header_value", "chunk_len", "chunk_buff"}
        BY <3>6 DEF Early, InHeader
      <4>6. ~finish'
        BY <2>0, <2>2, <1>p
      <4>7. res'.chunked = FALSE /\ (j >= m => res'.content_length = c)
        BY <3>5
      <4> HIDE DEF j
      <4> QED BY <3>7, <4>1, <4>2, <4>3, <4>4, <4>5, <4>6, <4>7 DEF UnderstoodBy
    <3> QED BY <2>2, <3>10, <1>g
  <2>5. \/ UNCHANGED res /\ ValueRead(b, f)'
        \/ /\ at = b + Len(f[1]) + Len(f[2]) + 3 /\ tmp = f[1] /\ tmp2 = f[2]
           /\ \/ ~LineEnd(at + 2) /\ EndField(FALSE) /\ at' = at + 2
              \/ LineEnd(at + 2) /\ EndField(TRUE) /\ at' = at + 4
    BY <2>0, <1>4, <1>t, ValueStep
  <2> QED BY <2>3, <2>4, <2>5
<1>5. ASSUME Body PROVE Understood(off)'
  <2>0. res.parse_step = "body"
    BY <1>5 DEF Body, Reading
  <2>1. k = n /\ AtBody(c, h) /\ res.content_length \in {0, c} /\ c \in Nat /\ h \in Nat
    BY <2>0, <1>p, <1>f, <1>v, <1>n
  <2>2. /\ res'.content_length # 0 =>
              /\ at' = h + res'.recived_length + 1 /\ at' <= got' + 1
              /\ delivered' = Prefix(h, res'.recived_length, c)
              /\ finish' <=> res'.recived_length >= c
        /\ res.content_length = 0 => ~finish'
        /\ res'.parse_step = "body" /\ res'.chunked = res.chunked
        /\ res'.content_length = res.content_length /\ res'.headers = res.headers
        /\ res'.status = res.status
        /\ UNCHANGED <<response, got>>
    BY <2>1, <1>5, BodyGoesOn
  <2>3. AtBody(c, h)'
    BY <2>2 DEF AtBody
  <2>4. StatusRead'
    BY <2>0, <2>2, <1>p DEF StatusRead, Early, InHeader
  <2>5. UnderstoodBy(off, F, m, c, h)'
    <3>1. "body" \notin Early
      BY DEF Early, InHeader
    <3> QED BY <2>0, <2>1, <2>2, <2>3, <2>4, <3>1, <1>p DEF UnderstoodBy
  <2> QED BY <2>2, <2>5, <1>g
<1>6. ~ChunkLen /\ ~ChunkBuff
  BY <1>p DEF ChunkLen, ChunkBuff, Reading
<1> QED BY <1>1, <1>2, <1>3, <1>4, <1>5, <1>6 DEF Next, Step

(* When the parser has returned, it waits for the next line of the header, *)
(* or for more of the body.                                                *)
LEMMA Waiting ==
  ASSUME Typed, Cut, at > got,
         Clean, NEW off, Wire(response, off, stream, Len(Fields(response))), Understood(off),
         NEW F, F = Fields(response), NEW n, n = Len(F), NEW k, k = Len(res.headers)
  PROVE  \/ res.parse_step = "body"
         \/ res.parse_step \in InHeader /\ got < HeadLength
<1>t. /\ response \in Responses /\ got \in Nat /\ at \in Nat /\ tmp \in Words /\ tmp2 \in Words /\ res \in ResType
  BY DEF Typed, TypeInvariant
<1>w. Wire(response, off, stream, n) /\ n \in Nat /\ n > 0
  <2>1. Wire(response, off, stream, n)
    OBVIOUS
  <2> QED BY <2>1, <1>t, FieldsAre
<1>k. k \in Nat
  BY <1>t DEF ResType
<1>h. /\ HeadLength = off[n] + 2 /\ off[0] = 12
      /\ \A i \in 0 .. n : off[i] \in Nat /\ off[i] >= 12 /\ \A j \in 0 .. i : off[j] <= off[i]
  <2>1. \A i \in 0 .. n : off[i] \in Nat /\ off[i] >= 12 /\ \A j \in 0 .. i : off[j] <= off[i]
    BY <1>t, <1>w, LinesFollow
  <2> QED BY <2>1, <1>t, <1>w, StreamSent DEF Wire, HeadIs
<1>n. off[n] \in Nat /\ off[n] >= 12
  BY <1>h, <1>w
<1>l. EndsLine(got, off, n)
  <2>1. got = 0 \/ got > off[n] + 2 \/ (stream[got] = LF /\ got # off[n])
    <3>1. got # 0 /\ ~(got > off[n] + 2) => got \in HeadCuts
      BY <1>n, <1>h, <1>t DEF Clean, Cut
    <3> QED BY <3>1, <1>n, <1>h, <1>t DEF HeadCuts
  <2> QED BY <2>1, <1>t, <1>w, LineEnded
<1>12. got = 0 \/ got >= 12
  <2>1. \A i \in 0 .. n - 1 : i \in 0 .. n
    BY <1>w
  <2>2. \A i \in 0 .. n - 1 : off[i] >= 12
    BY <2>1, <1>h
  <2> QED BY <2>2, <1>l, <1>n, <1>t DEF EndsLine
<1>p. /\ StatusRead
      /\ res.parse_step = "header_key" => k < n /\ KeyRead(off[k], F[k + 1])
      /\ res.parse_step = "header_value" => k < n /\ ValueRead(off[k], F[k + 1])
      /\ res.parse_step \notin {"chunk_len", "chunk_buff"}
  BY DEF Understood, UnderstoodBy
<1>fl. ASSUME NEW i \in 0 .. n - 1
       PROVE  /\ Held(F[i + 1], off[i])
              /\ off[i + 1] = off[i] + Len(F[i + 1][1]) + Len(F[i + 1][2]) + 4
  <2> DEFINE f == F[i + 1]
  <2>1. f = Fields(response)[i + 1]
    OBVIOUS
  <2> HIDE DEF f
  <2>2. Held(f, off[i]) /\ off[i + 1] = off[i] + Len(f[1]) + Len(f[2]) + 4
    <3>1. response \in Responses /\ Wire(response, off, stream, n) /\ i \in 0 .. n - 1
      BY <1>t, <1>w
    <3>2. Held(f, off[i])
      BY <2>1, <3>1, FieldHeld
    <3>3. off[i + 1] = off[i] + Len(f[1]) + Len(f[2]) + 4
      BY <2>1, <3>1, FieldHeld
    <3> QED BY <3>2, <3>3
  <2> QED BY <2>2 DEF f
<1> DEFINE f == F[k + 1]
           b == off[k]
           K == Len(f[1])
           V == Len(f[2])
<1>b. ASSUME k < n
      PROVE  /\ b \in Nat /\ K \in Nat /\ V \in Nat /\ b <= off[n]
             /\ got > b => got >= b + K + V + 4
  <2>1. k \in 0 .. n - 1 /\ k \in 0 .. n /\ n \in 0 .. n
    BY <1>k, <1>w, <1>b
  <2>3. got > b => got >= off[k + 1]
    BY <2>1, <1>t, <1>w, <1>l, LineCame
  <2> HIDE DEF f
  <2>4. Held(f, off[k]) /\ off[k + 1] = off[k] + Len(f[1]) + Len(f[2]) + 4
    BY <2>1, <1>fl DEF f
  <2>6. off[k] <= off[n]
    BY <2>1, <1>h
  <2> QED BY <2>3, <2>4, <2>6 DEF Held
<1>1. CASE res.parse_step = "protocol"
  BY <1>1, <1>p, <1>12, <1>t, <1>h, <1>n DEF StatusRead, InHeader
<1>2. CASE res.parse_step \in {"version", "status_code", "status_desc"}
  BY <1>2, <1>p, <1>t DEF StatusRead
<1>3. CASE res.parse_step = "header_key"
  <2> DEFINE L == Len(tmp)
  <2>1. k < n /\ got >= b /\ at = b + 1 + L /\ L <= K /\ L \in Nat
    BY <1>3, <1>p, <1>t DEF KeyRead, Words
  <2>2. /\ b \in Nat /\ K \in Nat /\ V \in Nat /\ b <= off[n]
        /\ got > b => got >= b + K + V + 4
    BY <2>1, <1>b
  <2> HIDE DEF L, K, V, b
  <2>3. got = b
    BY <2>1, <2>2, <1>t
  <2> QED BY <2>2, <2>3, <1>3, <1>h, <1>n DEF InHeader
<1>4. res.parse_step # "header_value"
  <2> SUFFICES ASSUME res.parse_step = "header_value" PROVE FALSE
    OBVIOUS
  <2> DEFINE L == Len(tmp2)
  <2>1. /\ k < n /\ got >= b + K + V + 4 /\ L \in Nat
        /\ at = b + K + 2 \/ (at = b + K + 3 + L /\ L <= V)
    BY <1>p, <1>t DEF ValueRead, Words
  <2>2. b \in Nat /\ K \in Nat /\ V \in Nat
    BY <2>1, <1>b
  <2> HIDE DEF L, K, V, b
  <2> QED BY <2>1, <2>2, <1>t
<1>5. res.parse_step \notin {"chunk_len", "chunk_buff"}
  BY <1>p
<1>6. res.parse_step \in InHeader \cup BehindHeader
  BY <1>t DEF ResType
<1> QED BY <1>1, <1>2, <1>3, <1>4, <1>5, <1>6 DEF InHeader, BehindHeader

----------------------------------------------------------------------------
(* The inductive invariant.  The last part holds of headers that are cut   *)

----------------------------------------------------------------------------
(* The inductive invariant.  Of a body in one piece it says how it is      *)
(* framed, if no cut makes a field of what is none or the end of the       *)
(* header of an empty line behind it; and what has been understood, if the *)
(* header is cut between its lines only.                                   *)
Inv ==
  /\ Typed /\ Positions /\ Cut
  /\ ~response.chunked =>
       /\ NotMistaken /\ EmptyLineOnce => Framed
       /\ Clean => \E off : Wire(response, off, stream, Len(Fields(response))) /\ Understood(off)

(* It holds at first.                                                      *)
LEMMA InvInit ==
  ASSUME Init
  PROVE  Inv
<1>1. response \in Responses /\ got = 0
  BY DEF Init
<1>2. PICK off : Wire(response, off, stream, Len(Fields(response)))
  BY <1>1, WireExists, StreamSent
<1>3. Len(Fields(response)) \in Nat /\ Len(response.before) + 1 \in 1 .. Len(Fields(response))
  BY <1>1, FieldsAre
<1>4. Understood(off)
  <2> DEFINE m == Len(response.before) + 1
  <2>1. m \in Nat /\ m > 0
    BY <1>3
  <2> HIDE DEF m
  <2> QED BY <1>3, <2>1, UnderstoodInit DEF Understood, m
<1>5. Typed /\ Positions /\ Framed
  BY TypedInit, PositionsInit, FramedInit
<1> QED BY <1>1, <1>2, <1>4, <1>5 DEF Inv, Cut

(* Each step keeps it.                                                     *)
LEMMA InvStep ==
  ASSUME Inv, Next
  PROVE  Inv'
<1>0. Typed /\ Positions /\ Cut
  BY DEF Inv
<1>1. Typed' /\ Positions'
  BY <1>0, TypedStep, PositionsStep
<1>2. UNCHANGED response /\ cuts \subseteq cuts' /\ Cut'
  BY <1>0, CutStep
<1>3. stream' = stream /\ HeadLength' = HeadLength
  BY <1>2, SameStream
<1>4. ASSUME ~response.chunked, NotMistaken', EmptyLineOnce' PROVE Framed'
  <2>1. NotMistaken
    <3>1. \A j \in cuts \ {Len(stream)} : j \in cuts' \ {Len(stream)}
      BY <1>2
    <3> QED BY <1>2, <1>3, <1>4, <3>1 DEF NotMistaken
  <2>2. EmptyLineOnce
    BY <1>3, <1>4 DEF EmptyLineOnce
  <2>3. Framed
    BY <1>4, <2>1, <2>2 DEF Inv
  <2> QED BY <1>0, <1>4, <2>2, <2>3, FramedStep
<1>5. ASSUME ~response.chunked, Clean'
      PROVE  \E off : Wire(response, off, stream, Len(Fields(response)))' /\ Understood(off)'
  <2>1. HeadCuts' = HeadCuts
    BY <1>3 DEF HeadCuts
  <2>2. Clean
    BY <1>2, <1>3, <1>5, <2>1 DEF Clean
  <2>3. PICK off : Wire(response, off, stream, Len(Fields(response))) /\ Understood(off)
    BY <1>5, <2>2 DEF Inv
  <2>4. Understood(off)'
    BY <1>0, <1>5, <2>2, <2>3, UnderstoodStep
  <2>5. Wire(response, off, stream, Len(Fields(response)))'
    BY <1>2, <1>3, <2>3
  <2> QED BY <2>4, <2>5
<1> QED BY <1>1, <1>2, <1>4, <1>5 DEF Inv

(* It is about the variables only.                                         *)
LEMMA InvStutter ==
  ASSUME Inv, UNCHANGED vars
  PROVE  Inv'
<1>1. UNCHANGED <<response, got, cuts, from, at, res, tmp, tmp2, delivered, finish, fault>>
  BY DEF vars, input
<1>2. stream' = stream /\ HeadLength' = HeadLength /\ Length' = Length /\ Size' = Size
  BY <1>1, SameStream DEF Length, Size
<1>3. Typed'
  BY <1>1, <1>2 DEF Inv, Typed, TypeInvariant, CountsFit
<1>4. Positions' /\ Cut'
  BY <1>1, <1>2 DEF Inv, Positions, Cut
<1>5. Framed => Framed'
  <2>1. AtKey => AtKey'
    BY <1>1, <1>2 DEF AtKey
  <2>2. \A v, V : AtValue(v, V) => AtValue(v, V)'
    BY <1>1, <1>2 DEF AtValue, LengthRead
  <2>3. \A n, h : AtBody(n, h) => AtBody(n, h)'
    BY <1>1 DEF AtBody
  <2>4. \A n, h, v, V : FramedBy(n, h, v, V) => FramedBy(n, h, v, V)'
    BY <1>1, <2>1, <2>2, <2>3 DEF FramedBy
  <2> QED BY <1>2, <2>4 DEF Framed
<1>6. (Clean' => Clean) /\ (NotMistaken' => NotMistaken) /\ (EmptyLineOnce' => EmptyLineOnce)
  BY <1>1, <1>2 DEF Clean, HeadCuts, NotMistaken, EmptyLineOnce
<1>7. \A off : Understood(off) => Understood(off)'
  <2>1. StatusRead => StatusRead'
    BY <1>1 DEF StatusRead
  <2>2. \A b, f : (KeyRead(b, f) => KeyRead(b, f)') /\ (ValueRead(b, f) => ValueRead(b, f)')
    BY <1>1 DEF KeyRead, ValueRead
  <2>3. \A n, h : AtBody(n, h) => AtBody(n, h)'
    BY <1>1 DEF AtBody
  <2>4. \A off, F, m, n, h : UnderstoodBy(off, F, m, n, h) => UnderstoodBy(off, F, m, n, h)'
    BY <1>1, <2>1, <2>2, <2>3 DEF UnderstoodBy
  <2> QED BY <1>1, <1>2, <2>4 DEF Understood
<1>8. \A off : Wire(response, off, stream, Len(Fields(response))) =>
                 Wire(response, off, stream, Len(Fields(response)))'
  BY <1>1, <1>2
<1> QED BY <1>1, <1>3, <1>4, <1>5, <1>6, <1>7, <1>8 DEF Inv

(* The parser keeps its invariant on every stream, however it is cut: the  *)
(* facts about types, positions, framing and meaning above.                *)
THEOREM Invariant == Spec => []Inv
<1>1. Init => Inv
  BY InvInit
<1>2. Inv /\ [Next]_vars => Inv'
  BY InvStep, InvStutter
<1> QED BY <1>1, <1>2, PTL DEF Spec

(* On every stream, however it is cut and whatever it says of its lengths, *)
(* the parser's text is text of the stream; the length of a chunk is an    *)
(* integer, which may be below zero, and what has been received of a body  *)
(* and the positions given to res_data are natural numbers.                *)
THEOREM TypeCorrect == Spec => []TypeInvariant
<1>1. Inv => TypeInvariant
  BY DEF Inv, Typed
<1> QED BY <1>1, Invariant, PTL

(* Body never gives res_data a negative number of characters: as long as a *)
(* body with a length is not finished, less of it has been received than   *)
(* its length.  (Of chunks this is not so: see NegativeNeedsCut.)          *)
THEOREM NothingBelowZero == Spec => []CountsFit
<1>1. Inv => CountsFit
  BY DEF Inv, Typed
<1> QED BY <1>1, Invariant, PTL

(* Wherever the stream is cut, what the user gets as the body follows the  *)
(* header, in order and each character once at most, whether the response  *)
(* is chunked or not, until a number goes below zero.                      *)
THEOREM BodyOnly == Spec => []DeliveredIsBody
<1>1. Inv => DeliveredIsBody
  <2>1. Inv => delivered \in Seq(Nat) /\ Sorted(delivered, HeadLength, at, got)
    BY DEF Inv, Typed, TypeInvariant, Positions
  <2>2. Inv => DOMAIN delivered = 1 .. Len(delivered)
    BY <2>1
  <2> QED BY <2>1, <2>2 DEF Sorted, DeliveredIsBody
<1> QED BY <1>1, Invariant, PTL

(* The characters behind h are the body.                                   *)
LEMMA PrefixIs ==
  ASSUME NEW h \in Nat, NEW m \in Nat, NEW n \in Nat
  PROVE  /\ m >= n => Prefix(h, m, n) = [j \in 1 .. n |-> h + j]
         /\ m >= n => ToSet(Prefix(h, m, n)) = h + 1 .. h + n
         /\ m <= n => Prefix(h, m, n) = [j \in 1 .. m |-> h + j]
<1>1. ASSUME m >= n PROVE Prefix(h, m, n) = [j \in 1 .. n |-> h + j]
  <2>1. (IF m <= n THEN m ELSE n) = n
    BY <1>1
  <2> QED BY <2>1 DEF Prefix
<1>2. m <= n => Prefix(h, m, n) = [j \in 1 .. m |-> h + j]
  BY DEF Prefix
<1>3. ASSUME m >= n PROVE ToSet(Prefix(h, m, n)) = h + 1 .. h + n
  <2>1. ToSet(Prefix(h, m, n)) = {h + j : j \in 1 .. n}
    BY <1>1, <1>3 DEF ToSet
  <2>2. \A i \in h + 1 .. h + n : i - h \in 1 .. n /\ h + (i - h) = i
    OBVIOUS
  <2>3. h + 1 .. h + n \subseteq {h + j : j \in 1 .. n}
    BY <2>2
  <2>4. \A j \in 1 .. n : h + j \in h + 1 .. h + n
    OBVIOUS
  <2>5. {h + j : j \in 1 .. n} \subseteq h + 1 .. h + n
    BY <2>4
  <2> QED BY <2>1, <2>3, <2>5
<1> QED BY <1>1, <1>2, <1>3

(* A response with Content-Length that is called finished has come and     *)
(* been delivered completely, wherever the stream is cut, if no cut makes  *)
(* a field of what is none, or an empty line of the body the end of the    *)
(* header: the parser then knows the right length, and has had every       *)
(* character of the body.                                                  *)
THEOREM FinishedOnlyComplete == Spec => []FinishedIsComplete
<1>1. ASSUME Inv, finish, ~response.chunked, NotMistaken, EmptyLineOnce
      PROVE  /\ ToSet(delivered) = HeadLength + 1 .. HeadLength + Length
             /\ HeadLength + Length <= got
  <2> DEFINE h == HeadLength
             n == Length
             m == res.recived_length
  <2>1. Framed /\ TypeInvariant
    BY <1>1 DEF Inv, Typed
  <2>2. /\ response \in Responses /\ res \in ResType /\ got \in Nat /\ at \in Nat
    BY <2>1 DEF TypeInvariant
  <2>3. h \in Nat /\ n \in Nat /\ m \in Nat
    BY <2>2, HeaderEnd, SizeIs DEF ResType
  <2>4. AtBody(n, h) /\ res.content_length # 0
    BY <1>1, <2>1 DEF Framed, FramedBy
  <2>5. at = h + m + 1 /\ at <= got + 1 /\ delivered = Prefix(h, m, n) /\ m >= n
    BY <1>1, <2>4 DEF AtBody
  <2> HIDE DEF h, n, m
  <2>6. ToSet(Prefix(h, m, n)) = h + 1 .. h + n
    BY <2>3, <2>5, PrefixIs
  <2>7. h + n <= got
    BY <2>2, <2>3, <2>5
  <2> QED BY <2>5, <2>6, <2>7 DEF h, n
<1>2. Inv => FinishedIsComplete
  BY <1>1 DEF FinishedIsComplete
<1> QED BY <1>2, Invariant, PTL

(* A response with Content-Length whose header is cut only between lines   *)
(* is understood.  If the length is not 0, its data is delivered as it     *)
(* comes, wherever that is cut, and it is finished with the last of it; if *)
(* it is 0 it is never finished.                                           *)
THEOREM CutBetweenLines == Spec => []LengthExact
<1>1. ASSUME Inv, ~response.chunked, at > got, Clean
      PROVE  /\ Length > 0 => delivered = [j \in 1 .. DataArrived |-> HeadLength + j]
             /\ finish <=> Length > 0 /\ DataArrived = Length
             /\ got >= HeadLength => res.status = <<"200">> /\ res.headers = Fields(response)
  <2> DEFINE h == HeadLength
             n == Length
             m == res.recived_length
             F == Fields(response)
             k == Len(res.headers)
  <2>1. PICK off : Wire(response, off, stream, Len(Fields(response))) /\ Understood(off)
    BY <1>1 DEF Inv
  <2>2. Typed /\ Positions /\ Cut
    BY <1>1 DEF Inv
  <2>3. response \in Responses /\ res \in ResType /\ got \in Nat /\ at \in Nat /\ finish \in BOOLEAN
    BY <2>2 DEF Typed, TypeInvariant
  <2>4. h \in Nat /\ n \in Nat /\ m \in Nat /\ res.content_length \in Nat
    BY <2>3, HeaderEnd, SizeIs DEF ResType
  <2>5. DataArrived = IF got <= h THEN 0 ELSE IF got <= h + n THEN got - h ELSE n
    BY DEF DataArrived
  <2>6. /\ k <= Len(F) /\ \A i \in 1 .. k : res.headers[i] = F[i]
        /\ StatusRead
        /\ res.parse_step = "body" => k = Len(F) /\ AtBody(n, h)
        /\ res.parse_step # "body" \/ res.content_length = 0 => ~finish
        /\ k >= Len(response.before) + 1 => res.content_length = n
    BY <2>1 DEF Understood, UnderstoodBy
  <2>7. \/ res.parse_step = "body"
        \/ res.parse_step \in InHeader /\ got < h
    BY <1>1, <2>1, <2>2, Waiting
  <2>8. CASE res.parse_step \in InHeader /\ got < h
    <3>1. delivered = <<>> /\ ~finish
      BY <2>2, <2>8 DEF Positions
    <3> HIDE DEF h, n, m
    <3>2. DataArrived = 0 /\ ~(got >= h)
      BY <2>3, <2>4, <2>5, <2>8
    <3>3. [j \in 1 .. 0 |-> h + j] = <<>>
      OBVIOUS
    <3>4. /\ delivered = [j \in 1 .. DataArrived |-> h + j]
          /\ ~(n > 0 /\ DataArrived = n)
      BY <3>1, <3>2, <3>3
    <3> QED BY <3>1, <3>2, <3>4 DEF h, n
  <2>9. CASE res.parse_step = "body"
    <3>1. res.status = <<"200">>
      BY <2>6, <2>9 DEF StatusRead
    <3>2. res.headers = F
      <4>1. res.headers \in Seq(Words \X Words) /\ F \in Seq(Words \X Words)
        BY <2>3, FieldsAre DEF ResType
      <4>2. Len(F) = Len(res.headers) /\ \A i \in 1 .. Len(F) : res.headers[i] = F[i]
        BY <2>6, <2>9
      <4> HIDE DEF F
      <4> QED BY <4>1, <4>2, SeqEqual
    <3>3. res.content_length = n
      <4>1. Len(F) >= Len(response.before) + 1
        BY <2>3, FieldsAre
      <4> HIDE DEF F, n
      <4> QED BY <4>1, <2>6, <2>9
    <3>4. CASE n = 0
      <4>1. ~finish
        BY <2>6, <3>3, <3>4
      <4> QED BY <4>1, <3>1, <3>2, <3>4
    <3>5. CASE n # 0
      <4>1. /\ at = h + m + 1 /\ at <= got + 1 /\ delivered = Prefix(h, m, n)
            /\ finish <=> m >= n
        BY <2>6, <2>9, <3>3, <3>5 DEF AtBody
      <4> HIDE DEF h, n, m
      <4>2. m = got - h /\ h <= got /\ n > 0
        BY <2>3, <2>4, <4>1, <3>5, <1>1
      <4>3. CASE m <= n
        <5>1. DataArrived = m
          BY <2>3, <2>4, <2>5, <4>2, <4>3
        <5>2. delivered = [j \in 1 .. m |-> h + j]
          <6>1. h \in Nat /\ m \in Nat /\ n \in Nat /\ m <= n
            BY <2>4, <4>3
          <6>2. Prefix(h, m, n) = [j \in 1 .. m |-> h + j]
            BY <6>1, PrefixIs
          <6> QED BY <4>1, <6>2
        <5>3. finish <=> m = n
          BY <2>4, <4>1, <4>3
        <5> QED BY <5>1, <5>2, <5>3, <4>2, <3>1, <3>2 DEF h, n
      <4>4. CASE m > n
        <5>1. DataArrived = n
          BY <2>3, <2>4, <2>5, <4>2, <4>4
        <5>2. delivered = [j \in 1 .. n |-> h + j]
          <6>1. h \in Nat /\ m \in Nat /\ n \in Nat /\ m >= n
            BY <2>4, <4>4
          <6>2. Prefix(h, m, n) = [j \in 1 .. n |-> h + j]
            BY <6>1, PrefixIs
          <6> QED BY <4>1, <6>2
        <5>3. finish
          BY <2>4, <4>1, <4>4
        <5> QED BY <5>1, <5>2, <5>3, <4>2, <3>1, <3>2 DEF h, n
      <4> QED BY <2>4, <4>3, <4>4
    <3> QED BY <3>4, <3>5
  <2> QED BY <2>7, <2>8, <2>9
<1>2. Inv => LengthExact
  BY <1>1 DEF LengthExact, Clean
<1> QED BY <1>2, Invariant, PTL
=============================================================================
