------------------------- MODULE BlobIteratorProofs -------------------------
(***************************************************************************)
(* What is written to a data file is read back, for blobs of any sizes,    *)
(* any Base and length of varints that hold them, any batch size and any   *)
(* file that fits its mapping.                                             *)
(*                                                                         *)
(* The varint functions are recursive: that they are defined, and what     *)
(* they compute, is by induction over the natural numbers, for which a set *)
(* stands in for the predicate (Induction).  From there DecodeVarint undoes*)
(* EncodeVarint (Decoded), ReadBlobHeader undoes WriteBlobHeader           *)
(* (HeaderRead), and the estimate of Put covers what it writes             *)
(* (EstimateCovers).                                                       *)
(*                                                                         *)
(* The invariant says how the file is laid out (FileHolds: every blob      *)
(* stands where Put put it, and the next one where it ends), and where the *)
(* load is: what the indexes were given (Loaded), and what is in the slots *)
(* of the batch and where it goes on (Batched).                            *)
(***************************************************************************)
EXTENDS BlobIterator, FiniteSetTheorems, SequenceTheorems, WellFoundedInduction, TLAPS

-----------------------------------------------------------------------------
(* Induction *)

\* What holds of 0 and with a number of the next one holds of every number.
LEMMA Induction ==
  ASSUME NEW S, 0 \in S, \A n \in Nat : n \in S => n + 1 \in S
  PROVE  \A n \in Nat : n \in S
<1> DEFINE T == Nat \ S
           R == {ss \in Nat \X Nat : ss[1] < ss[2]}
<1> SUFFICES ASSUME T # {} PROVE FALSE
  OBVIOUS
<1>1. IsWellFoundedOn(R, Nat)
  BY NatLessThanWellFounded DEF OpToRel
<1>2. PICK x \in T : \A y \in T : ~(<<y, x>> \in R)
  <2> HIDE DEF R
  <2>1. T \subseteq Nat
    OBVIOUS
  <2> HIDE DEF T
  <2> QED
    BY <1>1, <2>1, WFMin
<1>3. x \in Nat /\ x # 0 /\ x - 1 \in Nat
  OBVIOUS
<1>4. <<x - 1, x>> \in R
  BY <1>3
<1>5. x - 1 \notin T
  BY <1>2, <1>4
<1>6. x - 1 \in S /\ x = (x - 1) + 1
  BY <1>3, <1>5
<1> QED
  BY <1>3, <1>6

\* A set of natural numbers that is not empty has a least member.
LEMMA Least ==
  ASSUME NEW T \in SUBSET Nat, T # {}
  PROVE  \E x \in T : \A y \in T : x <= y
<1> DEFINE R == {ss \in Nat \X Nat : ss[1] < ss[2]}
<1>1. IsWellFoundedOn(R, Nat)
  BY NatLessThanWellFounded DEF OpToRel
<1>2. PICK x \in T : \A y \in T : ~(<<y, x>> \in R)
  <2> HIDE DEF R
  <2> QED
    BY <1>1, WFMin
<1>3. ASSUME NEW y \in T PROVE x <= y
  <2>1. x \in Nat /\ y \in Nat
    OBVIOUS
  <2>2. y < x => <<y, x>> \in R
    BY <2>1
  <2>3. ~(<<y, x>> \in R)
    BY <1>2
  <2> HIDE DEF R
  <2> QED
    BY <2>1, <2>2, <2>3
<1> QED
  BY <1>3

\* f begins with start and goes on by step.
Iterated(f, N, start, step) ==
    f = [k \in 0..N |-> IF k = 0 THEN start ELSE step[<<k, f[k - 1]>>]]

\* There is such a function.
LEMMA Iterates ==
  ASSUME NEW N \in Nat, NEW V, NEW start \in V, NEW step \in [Nat \X V -> V]
  PROVE  \E f \in [0..N -> V] : Iterated(f, N, start, step)
<1> DEFINE Goes(f, m) == \A k \in 0..m : f[k] = IF k = 0 THEN start ELSE step[<<k, f[k - 1]>>]
           S == {m \in Nat : \E f \in [0..m -> V] : Goes(f, m)}
<1>1. 0 \in S
  <2>1. [k \in 0..0 |-> start] \in [0..0 -> V] /\ Goes([k \in 0..0 |-> start], 0)
    OBVIOUS
  <2> QED
    BY <2>1
<1>2. ASSUME NEW m \in Nat, m \in S PROVE m + 1 \in S
  <2>1. PICK f \in [0..m -> V] : Goes(f, m)
    BY <1>2
  <2>2. m \in 0..m /\ f[m] \in V /\ step[<<m + 1, f[m]>>] \in V
    BY <2>1
  <2> DEFINE g == [k \in 0..(m + 1) |-> IF k = m + 1 THEN step[<<m + 1, f[m]>>] ELSE f[k]]
  <2>3. g \in [0..(m + 1) -> V]
    BY <2>2
  <2>4. ASSUME NEW k \in 0..(m + 1)
        PROVE  g[k] = IF k = 0 THEN start ELSE step[<<k, g[k - 1]>>]
    <3>1. CASE k = m + 1
      <4>1. k - 1 = m /\ m \in 0..(m + 1) /\ m # m + 1 /\ k # 0
        BY <3>1
      <4> QED
        BY <3>1, <4>1
    <3>2. CASE k # m + 1
      <4>1. k \in 0..m /\ (k # 0 => k - 1 \in 0..m /\ k - 1 \in 0..(m + 1) /\ k - 1 # m + 1)
        BY <3>2
      <4>2. g[k] = f[k] /\ (k # 0 => g[k - 1] = f[k - 1])
        BY <3>2, <4>1
      <4> HIDE DEF g
      <4> QED
        BY <2>1, <4>1, <4>2
    <3> QED
      BY <3>1, <3>2
  <2> HIDE DEF g
  <2> QED
    BY <2>3, <2>4
<1>3. N \in S
  <2> HIDE DEF S
  <2> QED
    BY <1>1, <1>2, Induction
<1>4. PICK f \in [0..N -> V] : Goes(f, N)
  BY <1>3
<1>5. f = [k \in 0..N |-> IF k = 0 THEN start ELSE step[<<k, f[k - 1]>>]]
  BY <1>4
<1> QED
  BY <1>4, <1>5 DEF Iterated

-----------------------------------------------------------------------------
(* Varints *)

\* Quotient and remainder are natural numbers, and make up the dividend.
LEMMA Division ==
  ASSUME NEW a \in Nat, NEW b \in Nat \ {0}
  PROVE  /\ a \div b \in Nat /\ a % b \in Nat /\ a % b < b
         /\ a = b * (a \div b) + (a % b)
OBVIOUS

LEMMA Product ==
  ASSUME NEW a \in Nat, NEW b \in Nat, NEW c \in Nat, a <= b
  PROVE  c * a <= c * b
OBVIOUS

\* A quotient is at least m where the dividend is m times the divisor or more.
LEMMA Quotient ==
  ASSUME NEW a \in Nat, NEW b \in Nat \ {0}, NEW m \in Nat
  PROVE  a \div b >= m <=> a >= b * m
<1>1. PICK q \in Nat, r \in Nat : q = a \div b /\ r < b /\ a = b * q + r
  BY Division
<1>2. ASSUME q >= m PROVE a >= b * m
  <2>1. b * m <= b * q
    BY <1>2, Product
  <2> QED
    BY <1>1, <2>1
<1>3. ASSUME q < m PROVE ~(a >= b * m)
  <2>1. b * (q + 1) <= b * m
    BY <1>3, Product
  <2>2. b * (q + 1) = b * q + b
    OBVIOUS
  <2>3. b * q \in Nat /\ b * m \in Nat
    OBVIOUS
  <2> QED
    BY <1>1, <2>1, <2>2, <2>3
<1> QED
  BY <1>1, <1>2, <1>3

\* The flag of a byte goes with the remainder.
LEMMA WithoutFlag ==
  ASSUME NEW r \in Nat, NEW b \in Nat, r < b
  PROVE  (b + r) % b = r
OBVIOUS

\* Powers are what the recursive definition says.
LEMMA Weights ==
  /\ Power \in [0..MaxVarintBytes -> Nat] /\ Power[0] = 1
  /\ \A k \in 1..MaxVarintBytes : Power[k] = Base * Power[k - 1]
<1> DEFINE step == [p \in Nat \X Nat |-> Base * p[2]]
<1>1. step \in [Nat \X Nat -> Nat] /\ MaxVarintBytes \in Nat
  BY FormatAssumption
<1>2. PICK f \in [0..MaxVarintBytes -> Nat] : Iterated(f, MaxVarintBytes, 1, step)
  <2>1. 1 \in Nat
    OBVIOUS
  <2> HIDE DEF step
  <2> QED
    BY <1>1, <2>1, Iterates
<1>3. \A k \in 0..MaxVarintBytes : k # 0 => step[<<k, f[k - 1]>>] = Base * f[k - 1]
  BY <1>1
<1>4. f = [k \in 0..MaxVarintBytes |-> IF k = 0 THEN 1 ELSE Base * f[k - 1]]
  <2> HIDE DEF step
  <2> QED
    BY <1>2, <1>3 DEF Iterated
<1>5. Power = CHOOSE g : g = [k \in 0..MaxVarintBytes |-> IF k = 0 THEN 1 ELSE Base * g[k - 1]]
  BY DEF Power
<1>6. Power = [k \in 0..MaxVarintBytes |-> IF k = 0 THEN 1 ELSE Base * Power[k - 1]]
  <2> DEFINE Is(g) == g = [k \in 0..MaxVarintBytes |-> IF k = 0 THEN 1 ELSE Base * g[k - 1]]
  <2>1. Is(f)
    BY <1>4
  <2>2. Power = CHOOSE g : Is(g)
    BY <1>5
  <2> HIDE DEF Is
  <2>3. Is(Power)
    BY <2>1, <2>2
  <2> QED
    BY <2>3 DEF Is
<1>7. /\ Power[0] = 1 /\ DOMAIN Power = 0..MaxVarintBytes
      /\ \A k \in 1..MaxVarintBytes : Power[k] = Base * Power[k - 1]
  BY <1>1, <1>6
<1>8. \A k \in 0..MaxVarintBytes : Power[k] \in Nat
  <2> DEFINE S == {k \in Nat : k <= MaxVarintBytes => Power[k] \in Nat}
  <2>1. 0 \in S
    BY <1>7
  <2>2. ASSUME NEW k \in Nat, k \in S PROVE k + 1 \in S
    <3> SUFFICES ASSUME k + 1 <= MaxVarintBytes PROVE Power[k + 1] \in Nat
      OBVIOUS
    <3>1. k \in 0..MaxVarintBytes /\ k + 1 \in 1..MaxVarintBytes /\ (k + 1) - 1 = k
      BY <1>1
    <3>2. Power[k] \in Nat /\ Power[k + 1] = Base * Power[k]
      BY <1>1, <1>7, <2>2, <3>1
    <3> QED
      BY <3>2, FormatAssumption
  <2> HIDE DEF S
  <2>3. \A k \in Nat : k \in S
    BY <2>1, <2>2, Induction
  <2> QED
    BY <2>3 DEF S
<1> QED
  BY <1>6, <1>7, <1>8

\* So are the values after each turn of the loop of EncodeVarint.
LEMMA Shifts ==
  ASSUME NEW v \in Nat
  PROVE  /\ Shifted(v) \in [0..MaxVarintBytes -> Nat] /\ Shifted(v)[0] = v
         /\ \A k \in 1..MaxVarintBytes : Shifted(v)[k] = Shifted(v)[k - 1] \div Base
<1> DEFINE step == [p \in Nat \X Nat |-> p[2] \div Base]
           Is(g) == g = [k \in 0..MaxVarintBytes |-> IF k = 0 THEN v ELSE g[k - 1] \div Base]
<1>1. step \in [Nat \X Nat -> Nat] /\ MaxVarintBytes \in Nat
  <2>1. \A n \in Nat : n \div Base \in Nat
    BY Division, FormatAssumption
  <2> QED
    BY <2>1, FormatAssumption
<1>2. PICK f \in [0..MaxVarintBytes -> Nat] : Iterated(f, MaxVarintBytes, v, step)
  <2>1. v \in Nat
    OBVIOUS
  <2> HIDE DEF step
  <2> QED
    BY <1>1, <2>1, Iterates
<1>3. \A k \in 0..MaxVarintBytes : k # 0 => step[<<k, f[k - 1]>>] = f[k - 1] \div Base
  BY <1>1
<1>4. Is(f)
  <2> HIDE DEF step
  <2> QED
    BY <1>2, <1>3 DEF Iterated
<1>5. Shifted(v) = CHOOSE g : Is(g)
  BY DEF Shifted
<1>6. Is(Shifted(v))
  <2> HIDE DEF Is
  <2> QED
    BY <1>4, <1>5
<1>7. /\ Shifted(v)[0] = v /\ DOMAIN Shifted(v) = 0..MaxVarintBytes
      /\ \A k \in 1..MaxVarintBytes : Shifted(v)[k] = Shifted(v)[k - 1] \div Base
  BY <1>1, <1>6
<1>8. \A k \in 0..MaxVarintBytes : Shifted(v)[k] \in Nat
  <2> DEFINE S == {k \in Nat : k <= MaxVarintBytes => Shifted(v)[k] \in Nat}
  <2>1. 0 \in S
    BY <1>7
  <2>2. ASSUME NEW k \in Nat, k \in S PROVE k + 1 \in S
    <3> SUFFICES ASSUME k + 1 <= MaxVarintBytes PROVE Shifted(v)[k + 1] \in Nat
      OBVIOUS
    <3>1. k \in 0..MaxVarintBytes /\ k + 1 \in 1..MaxVarintBytes /\ (k + 1) - 1 = k
      BY <1>1
    <3>2. Shifted(v)[k] \in Nat /\ Shifted(v)[k + 1] = Shifted(v)[k] \div Base
      BY <1>1, <1>7, <2>2, <3>1
    <3> QED
      BY <3>2, Division, FormatAssumption
  <2> HIDE DEF S
  <2>3. \A k \in Nat : k \in S
    BY <2>1, <2>2, Induction
  <2> QED
    BY <2>3 DEF S
<1>9. Shifted(v) = [k \in 0..MaxVarintBytes |-> Shifted(v)[k]]
  BY <1>6
<1> QED
  BY <1>7, <1>8, <1>9

LEMMA Constants ==
  /\ Base \in Nat /\ Base \in Nat \ {0} /\ Base > 1
  /\ MaxVarintBytes \in Nat /\ MaxVarintBytes \in Nat \ {0} /\ MaxVarintBytes >= 1
BY FormatAssumption

LEMMA Types ==
  ASSUME NEW v \in Nat
  PROVE  /\ Shifted(v) \in [0..MaxVarintBytes -> Nat] /\ Power \in [0..MaxVarintBytes -> Nat]
         /\ Shifted(v)[0] = v /\ Power[0] = 1
         /\ \A j \in 1..MaxVarintBytes : Shifted(v)[j] = Shifted(v)[j - 1] \div Base
         /\ \A j \in 1..MaxVarintBytes : Power[j] = Base * Power[j - 1]
BY Shifts, Weights

LEMMA ProductTyped == \A a, b \in Nat : a * b \in Nat
OBVIOUS

\* What is left of a value after k turns, by the table of powers.
LEMMA LeftOver ==
  ASSUME NEW v \in Nat, NEW k \in 0..MaxVarintBytes, NEW m \in Nat
  PROVE  Shifted(v)[k] >= m <=> v >= Power[k] * m
<1> DEFINE s == Shifted(v)
           S == {j \in Nat : j <= MaxVarintBytes =>
                                \A n \in Nat : s[j] >= n <=> v >= Power[j] * n}
<1>t. /\ s \in [0..MaxVarintBytes -> Nat] /\ Power \in [0..MaxVarintBytes -> Nat]
      /\ s[0] = v /\ Power[0] = 1 /\ MaxVarintBytes \in Nat
      /\ Base \in Nat \ {0} /\ Base \in Nat
  BY Types, Constants
<1>s. \A j \in 1..MaxVarintBytes : s[j] = s[j - 1] \div Base /\ Power[j] = Base * Power[j - 1]
  BY Types
<1> HIDE DEF s
<1>1. 0 \in S
  BY <1>t
<1>2. ASSUME NEW j \in Nat, j \in S PROVE j + 1 \in S
  <2> SUFFICES ASSUME j + 1 <= MaxVarintBytes, NEW n \in Nat
               PROVE  s[j + 1] >= n <=> v >= Power[j + 1] * n
    OBVIOUS
  <2>1. j \in 0..MaxVarintBytes /\ j + 1 \in 1..MaxVarintBytes /\ (j + 1) - 1 = j
        /\ j <= MaxVarintBytes
    BY <1>t
  <2>2. PICK a \in Nat, p \in Nat : a = s[j] /\ p = Power[j]
    BY <1>t, <2>1
  <2>3. s[j + 1] = a \div Base /\ Power[j + 1] = Base * p
    BY <1>s, <2>1, <2>2
  <2>4. Base * n \in Nat
    BY <1>t
  <2>5. a >= Base * n <=> v >= p * (Base * n)
    BY <1>2, <2>1, <2>2, <2>4
  <2>6. (Base * p) * n = p * (Base * n)
    BY <1>t
  <2>7. a \div Base >= n <=> a >= Base * n
    BY <1>t, Quotient
  <2> QED
    BY <2>3, <2>5, <2>6, <2>7
<1>3. k \in S
  <2>1. k \in Nat
    BY <1>t
  <2> HIDE DEF S
  <2>2. \A j \in Nat : j \in S
    BY <1>1, <1>2, Induction
  <2> QED
    BY <2>1, <2>2
<1> QED
  BY <1>3, <1>t DEF s

\* The loop ends at this turn.
Ends(v, last) ==
    Shifted(v)[last] < Base /\ \A j \in 0..(last - 1) : Shifted(v)[j] >= Base

Digits(v, last) ==
    [i \in 1..(last + 1) |-> IF i = last + 1 THEN Shifted(v)[last]
                             ELSE Base + (Shifted(v)[i - 1] % Base)]

\* Numbers that a varint can hold.
Values == {v \in Nat : v < Power[MaxVarintBytes]}

\* The loop of EncodeVarint ends before it runs out of bytes.
LEMMA LoopEnds ==
  ASSUME NEW v \in Values
  PROVE  \E last \in 0..(MaxVarintBytes - 1) : Ends(v, last)
<1> DEFINE s == Shifted(v)
           T == {k \in 0..(MaxVarintBytes - 1) : s[k] < Base}
           NoneBefore(k) == \A j \in 0..(k - 1) : j \notin T
<1>v. v \in Nat /\ v < Power[MaxVarintBytes]
  BY DEF Values
<1>t. /\ s \in [0..MaxVarintBytes -> Nat]
      /\ MaxVarintBytes \in Nat \ {0} /\ MaxVarintBytes \in Nat /\ Base \in Nat \ {0}
      /\ \A j \in 1..MaxVarintBytes : s[j] = s[j - 1] \div Base
      /\ Power \in [0..MaxVarintBytes -> Nat]
      /\ MaxVarintBytes \in 0..MaxVarintBytes /\ MaxVarintBytes \in 1..MaxVarintBytes
      /\ MaxVarintBytes - 1 \in 0..MaxVarintBytes
  <2>1. /\ MaxVarintBytes \in 0..MaxVarintBytes /\ MaxVarintBytes \in 1..MaxVarintBytes
        /\ MaxVarintBytes - 1 \in 0..MaxVarintBytes
    BY Constants
  <2> QED
    BY <1>v, <2>1, Types, Constants
<1> HIDE DEF s
<1>1. MaxVarintBytes - 1 \in T
  <2>1. PICK a \in Nat : a = s[MaxVarintBytes - 1]
    BY <1>t
  <2>2. s[MaxVarintBytes] = a \div Base /\ s[MaxVarintBytes] \in Nat
    BY <1>t, <2>1
  <2>p. PICK p \in Nat : p = Power[MaxVarintBytes]
    BY <1>t
  <2>3. s[MaxVarintBytes] >= 1 <=> v >= p * 1
    BY <1>v, <1>t, <2>p, LeftOver DEF s
  <2>4. ~(a \div Base >= 1)
    BY <1>v, <2>p, <2>2, <2>3
  <2>5. ~(a >= Base * 1)
    BY <1>t, <2>4, Quotient
  <2> QED
    BY <1>t, <2>1, <2>5
<1>2. \E x \in T : \A y \in T : x <= y
  <2>1. T \subseteq Nat
    OBVIOUS
  <2>2. T # {}
    BY <1>1
  <2> HIDE DEF T
  <2> QED
    BY <2>1, <2>2, Least
<1>3. PICK x \in T : \A y \in T : x <= y
  BY <1>2
<1>4. ASSUME NEW j \in 0..(x - 1) PROVE s[j] >= Base
  <2>1. x \in 0..(MaxVarintBytes - 1)
    BY <1>3
  <2>2. j \in 0..(MaxVarintBytes - 1) /\ ~(x <= j)
    BY <1>t, <2>1
  <2>3. j \notin T
    <3> HIDE DEF T
    <3> QED
      BY <1>3, <2>2
  <2>4. s[j] \in Nat
    BY <1>t, <2>2
  <2> QED
    BY <1>t, <2>2, <2>3, <2>4
<1>5. x \in 0..(MaxVarintBytes - 1) /\ s[x] < Base
  BY <1>3
<1> QED
  BY <1>4, <1>5 DEF Ends, s

\* EncodeVarint writes the digits of the turns it makes.
LEMMA Encoded ==
  ASSUME NEW v \in Values
  PROVE  \E last \in 0..(MaxVarintBytes - 1) : Ends(v, last) /\ EncodeVarint(v) = Digits(v, last)
<1>t. Shifted(v) \in [0..MaxVarintBytes -> Nat] /\ MaxVarintBytes \in Nat \ {0} /\ Base \in Nat
  BY Shifts, FormatAssumption DEF Values
<1> DEFINE last == CHOOSE k \in 0..MaxVarintBytes : Ends(v, k)
<1>1. PICK x \in 0..(MaxVarintBytes - 1) : Ends(v, x)
  BY LoopEnds
<1>2. last \in 0..MaxVarintBytes /\ Ends(v, last)
  <2>1. x \in 0..MaxVarintBytes
    BY <1>t
  <2> QED
    BY <1>1, <2>1
<1>3. EncodeVarint(v) = Digits(v, last)
  BY DEF EncodeVarint, Digits, Ends
<1> HIDE DEF last
<1>4. last <= x
  <2> SUFFICES ASSUME x < last PROVE FALSE
    BY <1>2, <1>t
  <2>1. x \in 0..(last - 1)
    BY <1>2, <1>t
  <2>2. Shifted(v)[x] >= Base /\ Shifted(v)[x] < Base /\ Shifted(v)[x] \in Nat
    BY <1>1, <1>2, <1>t, <2>1 DEF Ends
  <2> QED
    BY <1>t, <2>2
<1>5. last \in 0..(MaxVarintBytes - 1)
  BY <1>2, <1>4, <1>t
<1> QED
  BY <1>2, <1>3, <1>5

\* A varint has its value's size, and bytes.
LEMMA EncodedTyped ==
  ASSUME NEW v \in Values
  PROVE  /\ EncodeVarint(v) \in Seq(Nat)
         /\ Len(EncodeVarint(v)) \in 1..MaxVarintBytes
<1>1. PICK last \in 0..(MaxVarintBytes - 1) : Ends(v, last) /\ EncodeVarint(v) = Digits(v, last)
  BY Encoded
<1>t. Shifted(v) \in [0..MaxVarintBytes -> Nat] /\ MaxVarintBytes \in Nat \ {0} /\ Base \in Nat \ {0}
  BY Types, Constants DEF Values
<1>2. \A i \in 1..(last + 1) : Digits(v, last)[i] \in Nat
  <2> TAKE i \in 1..(last + 1)
  <2>1. i - 1 \in 0..MaxVarintBytes /\ last \in 0..MaxVarintBytes
    BY <1>t
  <2>2. Shifted(v)[i - 1] \in Nat /\ Shifted(v)[last] \in Nat
    BY <1>t, <2>1
  <2>3. Shifted(v)[i - 1] % Base \in Nat
    BY <1>t, <2>2, Division
  <2>4. Base + (Shifted(v)[i - 1] % Base) \in Nat
    BY <1>t, <2>3
  <2> QED
    BY <2>2, <2>4 DEF Digits
<1>3. Digits(v, last) \in [1..(last + 1) -> Nat]
  BY <1>2 DEF Digits
<1>4. last + 1 \in Nat /\ last + 1 \in 1..MaxVarintBytes
  BY <1>t
<1>5. Digits(v, last) \in Seq(Nat) /\ Len(Digits(v, last)) = last + 1
  BY <1>3, <1>4
<1> QED
  BY <1>1, <1>4, <1>5

\* It has as many bytes as GetVarintSize says.
LEMMA SizeOfEncoded ==
  ASSUME NEW v \in Values
  PROVE  GetVarintSize(v) = Len(EncodeVarint(v))
<1> DEFINE s == Shifted(v)
<1>1. PICK last \in 0..(MaxVarintBytes - 1) : Ends(v, last) /\ EncodeVarint(v) = Digits(v, last)
  BY Encoded
<1>v. v \in Nat
  BY DEF Values
<1>t. /\ s \in [0..MaxVarintBytes -> Nat] /\ v \in Nat
      /\ MaxVarintBytes \in Nat \ {0} /\ Base \in Nat \ {0} /\ Base \in Nat
      /\ \A j \in 1..MaxVarintBytes : s[j] = s[j - 1] \div Base
      /\ Power \in [0..MaxVarintBytes -> Nat]
  BY <1>v, Types, Constants
<1>2. \A j \in 0..(last - 1) : s[j] >= Base
  BY <1>1 DEF Ends
<1>3. \A j \in last..MaxVarintBytes : s[j] < Base
  <2> DEFINE S == {m \in Nat : last + m <= MaxVarintBytes => s[last + m] < Base}
  <2>1. 0 \in S
    BY <1>1, <1>t DEF Ends
  <2>2. ASSUME NEW m \in Nat, m \in S PROVE m + 1 \in S
    <3> SUFFICES ASSUME last + (m + 1) <= MaxVarintBytes PROVE s[last + (m + 1)] < Base
      OBVIOUS
    <3>1. PICK k : k = last + m
      OBVIOUS
    <3>2. k \in 0..MaxVarintBytes /\ k + 1 \in 1..MaxVarintBytes /\ (k + 1) - 1 = k
          /\ last + (m + 1) = k + 1 /\ k <= MaxVarintBytes
      BY <1>t, <3>1
    <3>3. PICK a \in Nat : a = s[k]
      BY <1>t, <3>2
    <3>4. s[k + 1] = a \div Base /\ a < Base
      BY <1>t, <2>2, <3>1, <3>2, <3>3
    <3>5. a \div Base \in Nat /\ ~(a \div Base >= Base)
      <4>1. a \div Base >= Base <=> a >= Base * Base
        BY <1>t, Quotient
      <4>2. Base * 1 <= Base * Base
        BY <1>t, Product
      <4>3. a \div Base \in Nat /\ Base * Base \in Nat
        BY <1>t, Division, ProductTyped
      <4>4. PICK b \in Nat, c \in Nat, q \in Nat :
                b = Base /\ c = Base * Base /\ q = a \div Base
        BY <1>t, <4>3
      <4>5. b <= c /\ a < b /\ (q >= b <=> a >= c)
        BY <3>4, <4>1, <4>2, <4>4
      <4> QED
        BY <4>3, <4>4, <4>5
    <3>6. PICK b \in Nat, q \in Nat : b = Base /\ q = a \div Base
      BY <1>t, <3>5
    <3>7. q < b
      BY <3>5, <3>6
    <3> QED
      BY <3>2, <3>4, <3>6, <3>7
  <2> HIDE DEF S
  <2>3. \A m \in Nat : m \in S
    BY <2>1, <2>2, Induction
  <2>4. ASSUME NEW j \in last..MaxVarintBytes PROVE s[j] < Base
    <3>1. j - last \in Nat /\ last + (j - last) = j /\ j <= MaxVarintBytes
      BY <1>t
    <3>2. j - last \in S
      BY <2>3, <3>1
    <3> QED
      BY <3>1, <3>2 DEF S
  <2> QED
    BY <2>4
<1> HIDE DEF s
<1>4. ASSUME NEW k \in 1..(MaxVarintBytes - 1) PROVE v >= Power[k] <=> k \in 1..last
  <2>1. PICK a \in Nat : a = s[k - 1]
    BY <1>t
  <2>2. s[k] = a \div Base /\ Power[k] \in Nat /\ k \in 0..MaxVarintBytes
    BY <1>t, <2>1
  <2>3. s[k] >= 1 <=> v >= Power[k] * 1
    BY <2>2, <1>t, LeftOver DEF s
  <2>4. a \div Base >= 1 <=> a >= Base * 1
    BY <1>t, Quotient
  <2>p. PICK p \in Nat, b \in Nat, q \in Nat : p = Power[k] /\ b = Base /\ q = a \div Base
    BY <1>t, <2>2, Division
  <2>5. v >= p <=> a >= b
    <3>1. (q >= 1 <=> v >= p * 1) /\ (q >= 1 <=> a >= b * 1)
      BY <2>2, <2>3, <2>4, <2>p
    <3>2. p * 1 = p /\ b * 1 = b
      OBVIOUS
    <3> QED
      BY <3>1, <3>2
  <2>6. k <= last => k - 1 \in 0..(last - 1)
    OBVIOUS
  <2>7. ~(k <= last) => k - 1 \in last..MaxVarintBytes
    BY <1>t
  <2>8. k \in 1..last <=> k <= last
    OBVIOUS
  <2>9. (k <= last => a >= b) /\ (~(k <= last) => a < b)
    BY <1>2, <1>3, <2>1, <2>6, <2>7, <2>p
  <2> QED
    BY <2>5, <2>8, <2>9, <2>p
<1>5. {k \in 1..(MaxVarintBytes - 1) : v >= Power[k]} = 1..last
  <2>1. \A k \in 1..last : k \in 1..(MaxVarintBytes - 1)
    BY <1>t
  <2> QED
    BY <1>4, <2>1
<1>6. Cardinality(1..last) = last
  <2>1. last \in Int /\ 1 \in Int
    OBVIOUS
  <2>2. Cardinality(1..last) = IF 1 > last THEN 0 ELSE last - 1 + 1
    BY <2>1, FS_Interval
  <2> QED
    BY <2>2
<1>7. Len(Digits(v, last)) = last + 1
  <2>1. last + 1 \in Nat
    OBVIOUS
  <2> QED
    BY <2>1 DEF Digits
<1>8. GetVarintSize(v) = 1 + last
  BY <1>5, <1>6 DEF GetVarintSize
<1> QED
  BY <1>1, <1>7, <1>8

\* A larger number takes no fewer bytes.
LEMMA SizesGrow ==
  ASSUME NEW v \in Nat, NEW w \in Nat, v <= w
  PROVE  /\ GetVarintSize(v) \in Nat /\ GetVarintSize(w) \in Nat
         /\ GetVarintSize(v) <= GetVarintSize(w)
<1> DEFINE Below(n) == {k \in 1..(MaxVarintBytes - 1) : n >= Power[k]}
<1>1. Below(v) \subseteq Below(w)
  <2> SUFFICES ASSUME NEW k \in 1..(MaxVarintBytes - 1), v >= Power[k]
               PROVE  w >= Power[k]
    OBVIOUS
  <2>1. k \in 0..MaxVarintBytes
    BY FormatAssumption
  <2>2. PICK p \in Nat : p = Power[k]
    BY <2>1, Weights
  <2> QED
    BY <2>2
<1>2. IsFiniteSet(1..(MaxVarintBytes - 1))
  BY FS_Interval, FormatAssumption
<1>3. Below(w) \subseteq 1..(MaxVarintBytes - 1)
  OBVIOUS
<1>4. GetVarintSize(v) = 1 + Cardinality(Below(v)) /\ GetVarintSize(w) = 1 + Cardinality(Below(w))
  BY DEF GetVarintSize
<1> HIDE DEF Below
<1>5. IsFiniteSet(Below(w)) /\ IsFiniteSet(Below(v)) /\ Cardinality(Below(v)) <= Cardinality(Below(w))
  BY <1>1, <1>2, <1>3, FS_Subset
<1>6. Cardinality(Below(v)) \in Nat /\ Cardinality(Below(w)) \in Nat
  BY <1>5, FS_CardinalityType
<1> QED
  BY <1>4, <1>5, <1>6

\* What the bytes of a varint from number i on add, by what those behind it add.
DecodeTurn(byte, addr, more, i) ==
    IF i = MaxVarintBytes THEN [value |-> 0, count |-> TooLong]
    ELSE IF byte[addr + i] < Base THEN [value |-> byte[addr + i], count |-> i + 1]
    ELSE [value |-> (byte[addr + i] % Base) + (Base * more[i + 1].value),
          count |-> more[i + 1].count]

\* The recursive function of DecodeVarint is defined.
LEMMA DecodeUnfolds ==
  ASSUME NEW byte, NEW addr \in Nat, \A i \in 0..MaxVarintBytes : byte[addr + i] \in Nat
  PROVE  \E more : /\ DecodeVarint(byte, addr) = more[0]
                   /\ \A i \in 0..MaxVarintBytes : more[i] = DecodeTurn(byte, addr, more, i)
<1> DEFINE N == MaxVarintBytes
           V == [value : Nat, count : Int]
           start == [value |-> 0, count |-> TooLong]
           turn(i, rest) == IF byte[addr + i] < Base THEN [value |-> byte[addr + i], count |-> i + 1]
                            ELSE [value |-> (byte[addr + i] % Base) + (Base * rest.value),
                                  count |-> rest.count]
           step == [p \in Nat \X V |-> IF N - p[1] \in 0..N THEN turn(N - p[1], p[2]) ELSE start]
           Is(f) == f = [i \in 0..N |-> DecodeTurn(byte, addr, f, i)]
<1>1. N \in Nat /\ start \in V
  BY Constants DEF TooLong
<1>2. step \in [Nat \X V -> V]
  <2> SUFFICES ASSUME NEW i \in 0..N, NEW rest \in V PROVE turn(i, rest) \in V
    BY <1>1
  <2>1. byte[addr + i] \in Nat /\ byte[addr + i] % Base \in Nat /\ rest.value \in Nat /\ rest.count \in Int
    BY Division, Constants
  <2>2. Base * rest.value \in Nat
    BY <2>1, Constants, ProductTyped
  <2>3. (byte[addr + i] % Base) + (Base * rest.value) \in Nat /\ i + 1 \in Int
    BY <2>1, <2>2
  <2> QED
    BY <2>1, <2>3
<1>3. PICK g \in [0..N -> V] : Iterated(g, N, start, step)
  <2> HIDE DEF N, V, start, step
  <2> QED
    BY <1>1, <1>2, Iterates
<1> DEFINE f == [i \in 0..N |-> g[N - i]]
<1>4. ASSUME NEW i \in 0..N PROVE f[i] = DecodeTurn(byte, addr, f, i)
  <2>0. N - i \in 0..N /\ N - (N - i) = i
    BY <1>1
  <2>1. PICK j \in 0..N : j = N - i /\ N - j = i
    <3> HIDE DEF N
    <3> QED
      BY <2>0
  <2>2. g[j] = IF j = 0 THEN start ELSE step[<<j, g[j - 1]>>]
    <3> HIDE DEF start, step
    <3> QED
      BY <1>3 DEF Iterated
  <2>3. f[i] = g[j]
    BY <2>1
  <2>4. CASE i = N
    <3>1. j = 0
      BY <1>1, <2>1, <2>4
    <3> QED
      BY <2>2, <2>3, <2>4, <3>1 DEF DecodeTurn
  <2>5. CASE i # N
    <3>1. j # 0 /\ j \in Nat /\ j - 1 \in 0..N /\ i + 1 \in 0..N /\ j - 1 = N - (i + 1)
      BY <1>1, <2>1, <2>5
    <3>2. g[j - 1] \in V /\ f[i + 1] = g[j - 1]
      BY <1>3, <3>1
    <3>3. step[<<j, g[j - 1]>>] = turn(i, g[j - 1])
      <4>1. <<j, g[j - 1]>> \in Nat \X V
        BY <3>1, <3>2
      <4> HIDE DEF V
      <4> QED
        BY <2>1, <4>1
    <3>4. f[i] = turn(i, f[i + 1])
      BY <2>2, <2>3, <3>1, <3>2, <3>3
    <3> HIDE DEF f, step, start
    <3> QED
      BY <2>5, <3>4 DEF DecodeTurn
  <2> QED
    BY <2>4, <2>5
<1>5. Is(f)
  <2>1. f = [i \in 0..N |-> f[i]]
    OBVIOUS
  <2> HIDE DEF f
  <2> QED
    BY <1>4, <2>1
<1>6. DecodeVarint(byte, addr) = (CHOOSE h : Is(h))[0]
  BY DEF DecodeVarint, DecodeTurn
<1> DEFINE more == CHOOSE h : Is(h)
<1>7. Is(more)
  <2> HIDE DEF Is, f
  <2> QED
    BY <1>5
<1>8. \A i \in 0..N : more[i] = DecodeTurn(byte, addr, more, i)
  <2> HIDE DEF more
  <2> QED
    BY <1>7
<1> HIDE DEF Is
<1> QED
  BY <1>6, <1>8

\* Decoding undoes encoding.
LEMMA Decoded ==
  ASSUME NEW v \in Values, NEW byte, NEW addr \in Nat,
         \A i \in 0..MaxVarintBytes : byte[addr + i] \in Nat,
         \A i \in 1..Len(EncodeVarint(v)) : byte[addr + i - 1] = EncodeVarint(v)[i]
  PROVE  DecodeVarint(byte, addr) = [value |-> v, count |-> Len(EncodeVarint(v))]
<1> DEFINE s == Shifted(v)
<1>1. PICK last \in 0..(MaxVarintBytes - 1) : Ends(v, last) /\ EncodeVarint(v) = Digits(v, last)
  BY Encoded
<1>t. /\ s \in [0..MaxVarintBytes -> Nat] /\ s[0] = v
      /\ MaxVarintBytes \in Nat /\ Base \in Nat \ {0} /\ Base \in Nat
      /\ \A j \in 1..MaxVarintBytes : s[j] = s[j - 1] \div Base
  BY Types, Constants DEF Values
<1>2. Len(EncodeVarint(v)) = last + 1
  <2>1. last + 1 \in Nat
    OBVIOUS
  <2> QED
    BY <1>1, <2>1 DEF Digits
<1>3. ASSUME NEW i \in 0..last
      PROVE  byte[addr + i] = IF i = last THEN s[last] ELSE Base + (s[i] % Base)
  <2>1. i + 1 \in 1..(last + 1) /\ addr + (i + 1) - 1 = addr + i /\ (i + 1) - 1 = i
        /\ (i + 1 = last + 1 <=> i = last)
    OBVIOUS
  <2>2. byte[addr + i] = EncodeVarint(v)[i + 1]
    BY <1>2, <2>1
  <2> QED
    BY <1>1, <2>1, <2>2 DEF Digits
<1>4. PICK more : /\ DecodeVarint(byte, addr) = more[0]
                  /\ \A i \in 0..MaxVarintBytes : more[i] = DecodeTurn(byte, addr, more, i)
  BY DecodeUnfolds
<1>5. s[last] < Base
  BY <1>1 DEF Ends
<1> HIDE DEF s
<1> DEFINE S == {m \in Nat : m <= last =>
                    more[last - m] = [value |-> s[last - m], count |-> last + 1]}
<1>6. 0 \in S
  <2>1. last \in 0..MaxVarintBytes /\ last # MaxVarintBytes /\ last - 0 = last /\ last \in 0..last
    BY <1>t
  <2>2. byte[addr + last] = s[last]
    BY <1>3, <2>1
  <2>3. more[last] = DecodeTurn(byte, addr, more, last)
    BY <1>4, <2>1
  <2>4. more[last] = [value |-> s[last], count |-> last + 1]
    BY <1>5, <2>1, <2>2, <2>3 DEF DecodeTurn
  <2> QED
    BY <2>1, <2>4
<1>7. ASSUME NEW m \in Nat, m \in S PROVE m + 1 \in S
  <2> SUFFICES ASSUME m + 1 <= last
               PROVE  more[last - (m + 1)] = [value |-> s[last - (m + 1)], count |-> last + 1]
    OBVIOUS
  <2>1. PICK i \in Nat : i = last - (m + 1)
    OBVIOUS
  <2>2. /\ i \in 0..last /\ i # last /\ i \in 0..MaxVarintBytes /\ i # MaxVarintBytes
        /\ i + 1 \in 1..MaxVarintBytes /\ (i + 1) - 1 = i /\ last - m = i + 1 /\ m <= last
    BY <1>t, <2>1
  <2>3. PICK a \in Nat, q \in Nat, r \in Nat :
            /\ a = s[i] /\ q = a \div Base /\ r = a % Base /\ r < Base /\ a = Base * q + r
    <3>1. PICK a \in Nat : a = s[i]
      BY <1>t, <2>2
    <3>b. PICK b \in Nat \ {0} : b = Base
      BY <1>t
    <3>c. /\ a \div b \in Nat /\ a % b \in Nat /\ a % b < b
          /\ a = b * (a \div b) + (a % b)
      BY Division
    <3>2. /\ a \div Base \in Nat /\ a % Base \in Nat /\ a % Base < Base
          /\ a = Base * (a \div Base) + (a % Base)
      BY <3>b, <3>c, Zenon
    <3> QED
      BY <3>1, <3>2, Zenon
  <2>4. s[i + 1] = q
    BY <1>t, <2>2, <2>3
  <2>5. byte[addr + i] = Base + r
    BY <1>3, <2>2, <2>3
  <2>6. ~(Base + r < Base) /\ (Base + r) % Base = r
    <3>1. (Base + r) % Base = r
      BY <1>t, <2>3, WithoutFlag
    <3>2. PICK b \in Nat : b = Base
      BY <1>t
    <3>3. ~(b + r < b)
      OBVIOUS
    <3> QED
      BY <3>1, <3>2, <3>3
  <2>7. more[i + 1] = [value |-> q, count |-> last + 1]
    BY <1>7, <2>2, <2>4
  <2>8. more[i] = DecodeTurn(byte, addr, more, i)
    BY <1>4, <2>2
  <2>9. more[i] = [value |-> r + Base * q, count |-> last + 1]
    BY <2>2, <2>5, <2>6, <2>7, <2>8 DEF DecodeTurn
  <2>10. r + Base * q = a
    <3>1. Base * q \in Nat
      BY <1>t, ProductTyped
    <3> QED
      BY <2>3, <3>1
  <2> QED
    BY <2>1, <2>3, <2>9, <2>10
<1>8. last \in S
  <2> HIDE DEF S
  <2>1. \A m \in Nat : m \in S
    BY <1>6, <1>7, Induction
  <2> QED
    BY <2>1
<1>9. more[0] = [value |-> v, count |-> last + 1]
  <2>1. last - last = 0
    OBVIOUS
  <2> QED
    BY <1>8, <1>t, <2>1 DEF s
<1> QED
  BY <1>2, <1>4, <1>9

-----------------------------------------------------------------------------
(* Headers *)

\* The parts of a header.
LEMMA HeaderWritten ==
  ASSUME NEW compressed \in BOOLEAN, NEW n \in Values, NEW m \in Values
  PROVE  /\ WriteBlobHeader(compressed, n, m) \in Seq(Nat)
         /\ Len(WriteBlobHeader(compressed, n, m)) =
              1 + Len(EncodeVarint(n)) + IF compressed THEN Len(EncodeVarint(m)) ELSE 0
         /\ WriteBlobHeader(compressed, n, m)[1] = 16 + IF compressed THEN 1 ELSE 0
         /\ \A i \in 1..Len(EncodeVarint(n)) :
              WriteBlobHeader(compressed, n, m)[1 + i] = EncodeVarint(n)[i]
         /\ compressed => \A i \in 1..Len(EncodeVarint(m)) :
              WriteBlobHeader(compressed, n, m)[1 + Len(EncodeVarint(n)) + i] = EncodeVarint(m)[i]
<1>1. PICK e \in Seq(Nat), f \in Seq(Nat) :
          /\ e = EncodeVarint(n)
          /\ f = IF compressed THEN EncodeVarint(m) ELSE <<>>
  <2>1. <<>> \in Seq(Nat)
    OBVIOUS
  <2> QED
    BY <2>1, EncodedTyped
<1>2. PICK b \in Nat : b = (16 * Version) + (IF compressed THEN 1 ELSE 0)
  BY DEF Version
<1>3. b = 16 + IF compressed THEN 1 ELSE 0
  BY <1>2 DEF Version
<1>4. WriteBlobHeader(compressed, n, m) = <<b>> \o e \o f
  BY <1>1, <1>2 DEF WriteBlobHeader
<1>5. <<b>> \in Seq(Nat) /\ Len(<<b>>) = 1 /\ <<b>>[1] = b
  OBVIOUS
<1>6. PICK g \in Seq(Nat) : g = <<b>> \o e /\ Len(g) = 1 + Len(e) /\ g[1] = b
                            /\ \A i \in 1..Len(e) : g[1 + i] = e[i]
  <2>1. /\ <<b>> \o e \in Seq(Nat) /\ Len(<<b>> \o e) = 1 + Len(e)
        /\ \A i \in 1..(1 + Len(e)) : (<<b>> \o e)[i] = IF i <= 1 THEN <<b>>[i] ELSE e[i - 1]
    BY <1>5, ConcatProperties
  <2>2. (<<b>> \o e)[1] = b
    BY <1>5, <2>1
  <2>3. ASSUME NEW i \in 1..Len(e) PROVE (<<b>> \o e)[1 + i] = e[i]
    <3>1. 1 + i \in 1..(1 + Len(e)) /\ ~(1 + i <= 1) /\ (1 + i) - 1 = i
      OBVIOUS
    <3> QED
      BY <2>1, <3>1
  <2> QED
    BY <2>1, <2>2, <2>3
<1>7. /\ g \o f \in Seq(Nat) /\ Len(g \o f) = Len(g) + Len(f)
      /\ \A i \in 1..(Len(g) + Len(f)) : (g \o f)[i] = IF i <= Len(g) THEN g[i] ELSE f[i - Len(g)]
  BY ConcatProperties
<1>8. (g \o f)[1] = b
  BY <1>6, <1>7
<1>9. ASSUME NEW i \in 1..Len(e) PROVE (g \o f)[1 + i] = e[i]
  <2>1. 1 + i \in 1..(Len(g) + Len(f)) /\ 1 + i <= Len(g)
    BY <1>6
  <2> QED
    BY <1>6, <1>7, <2>1
<1>10. ASSUME NEW i \in 1..Len(f) PROVE (g \o f)[1 + Len(e) + i] = f[i]
  <2>1. PICK k \in Nat : k = 1 + Len(e) + i
    OBVIOUS
  <2>2. k \in 1..(Len(g) + Len(f)) /\ ~(k <= Len(g)) /\ k - Len(g) = i
    BY <1>6, <2>1
  <2>3. (g \o f)[k] = f[i]
    BY <1>7, <2>2
  <2> QED
    BY <2>1, <2>3
<1>11. Len(f) = IF compressed THEN Len(EncodeVarint(m)) ELSE 0
  BY <1>1
<1>12. Len(g \o f) = 1 + Len(e) + Len(f)
  BY <1>6, <1>7
<1>13. compressed => \A i \in 1..Len(EncodeVarint(m)) : (g \o f)[1 + Len(e) + i] = EncodeVarint(m)[i]
  BY <1>1, <1>10
<1>14. WriteBlobHeader(compressed, n, m) = g \o f
  BY <1>4, <1>6
<1>15. \A i \in 1..Len(EncodeVarint(n)) : (g \o f)[1 + i] = EncodeVarint(n)[i]
  BY <1>1, <1>9
<1>16. Len(g \o f) = 1 + Len(EncodeVarint(n))
                      + IF compressed THEN Len(EncodeVarint(m)) ELSE 0
  BY <1>1, <1>11, <1>12
<1>17. compressed => \A i \in 1..Len(EncodeVarint(m)) :
          (g \o f)[1 + Len(EncodeVarint(n)) + i] = EncodeVarint(m)[i]
  BY <1>1, <1>13
<1>18. (g \o f)[1] = 16 + IF compressed THEN 1 ELSE 0
  BY <1>3, <1>8
<1>19. g \o f \in Seq(Nat)
  BY <1>7
<1> HIDE DEF WriteBlobHeader
<1> QED
  BY <1>14, <1>15, <1>16, <1>17, <1>18, <1>19

\* A header stands at an address, with bytes behind it to read on in.
HeaderStands(byte, addr, compressed, n, m) ==
    /\ \A i \in 0..(2 * MaxVarintBytes + 1) : byte[addr + i] \in Nat
    /\ \A i \in 1..Len(WriteBlobHeader(compressed, n, m)) :
         byte[addr + i - 1] = WriteBlobHeader(compressed, n, m)[i]

\* It is read as it was written.
IsRead(byte, addr, compressed, n, m) ==
    ReadBlobHeader(byte, addr) =
        [compressed |-> compressed, blobSize |-> n,
         compSize |-> IF compressed THEN m ELSE 0, throws |-> FALSE,
         next |-> addr + Len(WriteBlobHeader(compressed, n, m))]

\* What WriteBlobHeader wrote at an address, ReadBlobHeader reads there.
LEMMA HeaderRead ==
  ASSUME NEW compressed \in BOOLEAN, NEW n \in Values, NEW m \in Values,
         NEW byte, NEW addr \in Nat, HeaderStands(byte, addr, compressed, n, m)
  PROVE  IsRead(byte, addr, compressed, n, m)
<1>1. PICK h \in Seq(Nat), a \in Nat, b \in Nat, N \in Nat :
          /\ h = WriteBlobHeader(compressed, n, m)
          /\ a = Len(EncodeVarint(n)) /\ a \in 1..N
          /\ b = Len(EncodeVarint(m)) /\ b \in 1..N
          /\ N = MaxVarintBytes
  <2>1. PICK h \in Seq(Nat) : h = WriteBlobHeader(compressed, n, m)
    BY HeaderWritten
  <2>2. PICK a \in Nat, b \in Nat, N \in Nat :
          /\ a = Len(EncodeVarint(n)) /\ a \in 1..N
          /\ b = Len(EncodeVarint(m)) /\ b \in 1..N
          /\ N = MaxVarintBytes
    BY EncodedTyped, Constants
  <2> QED
    BY <2>1, <2>2, Zenon
<1>l. /\ compressed => Len(h) = 1 + a + b
      /\ ~compressed => Len(h) = 1 + a + 0
      /\ Len(h) \in Nat
  <2>1. Len(h) = 1 + a + IF compressed THEN b ELSE 0
    BY <1>1, HeaderWritten, Zenon
  <2> QED
    BY <2>1
<1>2. /\ h[1] = 16 + IF compressed THEN 1 ELSE 0
      /\ \A i \in 1..a : h[1 + i] = EncodeVarint(n)[i]
      /\ compressed => \A i \in 1..b : h[1 + a + i] = EncodeVarint(m)[i]
  BY <1>1, HeaderWritten, Zenon
<1>3. /\ \A i \in 0..(2 * N + 1) : byte[addr + i] \in Nat
      /\ \A i \in 1..Len(h) : byte[addr + i - 1] = h[i]
  BY <1>1, Zenon DEF HeaderStands
<1>4. byte[addr] % 2 = 1 <=> compressed
  <2>1. 1 \in 1..Len(h) /\ addr + 1 - 1 = addr
    BY <1>l
  <2>2. byte[addr] = h[1]
    BY <1>3, <2>1
  <2> QED
    BY <1>2, <2>2
<1>5. DecodeVarint(byte, addr + 1) = [value |-> n, count |-> a]
  <2>1. ASSUME NEW i \in 0..N PROVE byte[(addr + 1) + i] \in Nat
    <3>1. 1 + i \in 0..(2 * N + 1) /\ addr + (1 + i) = (addr + 1) + i
      OBVIOUS
    <3> QED
      BY <1>3, <3>1
  <2>2. ASSUME NEW i \in 1..a PROVE byte[(addr + 1) + i - 1] = EncodeVarint(n)[i]
    <3>1. 1 + i \in 1..Len(h) /\ addr + (1 + i) - 1 = (addr + 1) + i - 1
      BY <1>l
    <3> QED
      BY <1>2, <1>3, <3>1
  <2>3. addr + 1 \in Nat
    OBVIOUS
  <2>4. \A i \in 0..MaxVarintBytes : byte[(addr + 1) + i] \in Nat
    BY <1>1, <2>1
  <2>5. \A i \in 1..Len(EncodeVarint(n)) : byte[(addr + 1) + i - 1] = EncodeVarint(n)[i]
    BY <1>1, <2>2
  <2> QED
    BY <1>1, <2>3, <2>4, <2>5, Decoded
<1>6. ASSUME compressed PROVE DecodeVarint(byte, addr + 1 + a) = [value |-> m, count |-> b]
  <2>1. ASSUME NEW i \in 0..N PROVE byte[(addr + 1 + a) + i] \in Nat
    <3>0. a <= N
      BY <1>1
    <3>1. 1 + a + i \in 0..(2 * N + 1) /\ addr + (1 + a + i) = (addr + 1 + a) + i
      BY <3>0
    <3> QED
      BY <1>3, <3>1
  <2>2. ASSUME NEW i \in 1..b PROVE byte[(addr + 1 + a) + i - 1] = EncodeVarint(m)[i]
    <3>1. 1 + a + i \in 1..Len(h) /\ addr + (1 + a + i) - 1 = (addr + 1 + a) + i - 1
      BY <1>l, <1>6
    <3>2. h[1 + a + i] = EncodeVarint(m)[i]
      BY <1>2, <1>6
    <3> QED
      BY <1>3, <3>1, <3>2
  <2>3. addr + 1 + a \in Nat
    OBVIOUS
  <2>4. \A i \in 0..MaxVarintBytes : byte[(addr + 1 + a) + i] \in Nat
    BY <1>1, <2>1
  <2>5. \A i \in 1..Len(EncodeVarint(m)) : byte[(addr + 1 + a) + i - 1] = EncodeVarint(m)[i]
    BY <1>1, <2>2
  <2> QED
    BY <1>1, <2>3, <2>4, <2>5, Decoded
<1>7. DecodeVarint(byte, addr + 1).value = n /\ DecodeVarint(byte, addr + 1).count = a
  BY <1>5
<1>8. CASE compressed
  <2>1. DecodeVarint(byte, addr + 1 + a) = [value |-> m, count |-> b]
    BY <1>6, <1>8
  <2>t. a # -1 /\ b # -1
    OBVIOUS
  <2>s. addr + 1 + a + b = addr + Len(h)
    <3>1. Len(h) = 1 + a + b
      BY <1>l, <1>8
    <3> QED
      BY <3>1
  <2>2. TooLong \notin {a, b} /\ addr + 1 + a + b = addr + Len(h)
    BY <2>t, <2>s, Zenon DEF TooLong
  <2>3. (byte[addr] % 2 = 1) = TRUE
    BY <1>4, <1>8
  <2>4. DecodeVarint(byte, addr + 1 + a).value = m /\ DecodeVarint(byte, addr + 1 + a).count = b
    BY <2>1
  <2>5. ReadBlobHeader(byte, addr) =
            [compressed |-> TRUE, blobSize |-> n, compSize |-> m,
             throws |-> TooLong \in {a, b}, next |-> addr + 1 + a + b]
    BY <1>7, <2>3, <2>4, Zenon DEF ReadBlobHeader
  <2>6. (TooLong \in {a, b}) = FALSE
    BY <2>2
  <2>7. compressed = TRUE
    BY <1>8
  <2> QED
    BY <1>1, <2>2, <2>5, <2>6, <2>7, Zenon DEF IsRead
<1>9. CASE ~compressed
  <2>2. TooLong \notin {a, 0} /\ addr + 1 + a + 0 = addr + Len(h)
    BY <1>l, <1>9 DEF TooLong
  <2>3. (byte[addr] % 2 = 1) = FALSE
    BY <1>4, <1>9
  <2>5. ReadBlobHeader(byte, addr) =
            [compressed |-> FALSE, blobSize |-> n, compSize |-> 0,
             throws |-> TooLong \in {a, 0}, next |-> addr + 1 + a + 0]
    BY <1>7, <2>3 DEF ReadBlobHeader
  <2>6. (TooLong \in {a, 0}) = FALSE
    BY <2>2
  <2>7. compressed = FALSE
    BY <1>9
  <2> QED
    BY <1>1, <2>2, <2>5, <2>6, <2>7, Zenon DEF IsRead
<1> QED
  BY <1>8, <1>9

-----------------------------------------------------------------------------
(* Put *)
\* A varint holds the size of a blob, and of what it is compressed to.
LEMMA SizesAreValues ==
  ASSUME NEW n \in Sizes
  PROVE  n \in Nat /\ n > 0 /\ n \in Values /\ \A m \in 1..CompressBound(n) : m \in Values
<1>1. n \in Nat /\ n > 0 /\ CompressBound(n) < Power[MaxVarintBytes]
  BY IteratorAssumption
<1>2. PICK p \in Nat : p = Power[MaxVarintBytes]
  BY Weights, Constants
<1>3. n < p /\ \A m \in 1..CompressBound(n) : m \in Nat /\ m < p
  BY <1>1, <1>2, FormatAssumption DEF CompressBound
<1> QED
  BY <1>1, <1>2, <1>3 DEF Values

\* What Put reserves is enough.
LEMMA EstimateCovers ==
  ASSUME NEW n \in Sizes, NEW compress \in BOOLEAN,
         NEW stored \in IF compress THEN 1..CompressBound(n) ELSE {n}
  PROVE  /\ stored \in Values /\ stored > 0
         /\ WriteBlobHeader(compress, n, stored) \in Seq(Nat)
         /\ Len(WriteBlobHeader(compress, n, stored)) > 0
         /\ Len(WriteBlobHeader(compress, n, stored)) + stored <= EstimatedBytesToWrite(n, compress)
<1>1. n \in Nat /\ n > 0 /\ n \in Values /\ stored \in Values /\ stored \in Nat /\ stored > 0
  BY SizesAreValues DEF Values
<1>2. PICK a \in Nat, b \in Nat : /\ a = Len(EncodeVarint(n)) /\ a = GetVarintSize(n)
                                  /\ b = Len(EncodeVarint(stored)) /\ b = GetVarintSize(stored)
  BY <1>1, SizeOfEncoded, EncodedTyped
<1>3. PICK len \in Nat : /\ len = Len(WriteBlobHeader(compress, n, stored))
                         /\ len = 1 + a + IF compress THEN b ELSE 0
  <2>1. Len(WriteBlobHeader(compress, n, stored)) = 1 + a + IF compress THEN b ELSE 0
    <3>1. Len(WriteBlobHeader(compress, n, stored)) =
              1 + Len(EncodeVarint(n)) + IF compress THEN Len(EncodeVarint(stored)) ELSE 0
      BY <1>1, HeaderWritten, Zenon
    <3>2. a = Len(EncodeVarint(n)) /\ b = Len(EncodeVarint(stored))
      BY <1>2, Zenon
    <3> QED
      BY <3>1, <3>2, Zenon
  <2>2. 1 + a + (IF compress THEN b ELSE 0) \in Nat
    OBVIOUS
  <2> QED
    BY <2>1, <2>2, Zenon
<1>4. WriteBlobHeader(compress, n, stored) \in Seq(Nat)
  BY <1>1, HeaderWritten
<1>5. len + stored <= EstimatedBytesToWrite(n, compress)
  <2>1. CASE compress
    <3>1. PICK c \in Nat : c = CompressBound(n) /\ stored <= c
      BY <1>1, <2>1, FormatAssumption DEF CompressBound
    <3>2. PICK d \in Nat : d = GetVarintSize(c) /\ b <= d
      BY <1>1, <1>2, <3>1, SizesGrow
    <3>3. EstimatedBytesToWrite(n, compress) = 1 + a + d + c
      BY <1>2, <2>1, <3>1, <3>2
      DEF EstimatedBytesToWrite, GetCompressedSize, GetHeaderSize, NotCompressed
    <3> QED
      <4>1. len = 1 + a + b
        BY <1>3, <2>1
      <4>2. stored <= c /\ b <= d
        BY <3>1, <3>2
      <4> QED
        BY <1>1, <4>1, <4>2, <3>3
  <2>2. CASE ~compress
    <3>1. EstimatedBytesToWrite(n, compress) = 1 + a + 0 + n
      BY <1>2, <2>2 DEF EstimatedBytesToWrite, GetHeaderSize, NotCompressed
    <3> QED
      BY <1>1, <1>3, <2>2, <3>1
  <2> QED
    BY <2>1, <2>2
<1> QED
  BY <1>1, <1>3, <1>4, <1>5

\* Three sequences one after the other.
LEMMA Parts ==
  ASSUME NEW s \in Seq(Nat), NEW t \in Seq(Nat), NEW u \in Seq(Nat)
  PROVE  /\ s \o t \o u \in Seq(Nat) /\ Len(s \o t \o u) = Len(s) + Len(t) + Len(u)
         /\ \A k \in 1..Len(s) : (s \o t \o u)[k] = s[k]
         /\ \A k \in 1..Len(t) : (s \o t \o u)[Len(s) + k] = t[k]
         /\ \A k \in 1..Len(u) : (s \o t \o u)[Len(s) + Len(t) + k] = u[k]
<1>1. PICK g \in Seq(Nat) : /\ g = s \o t /\ Len(g) = Len(s) + Len(t)
                            /\ \A k \in 1..(Len(s) + Len(t)) :
                                 g[k] = IF k <= Len(s) THEN s[k] ELSE t[k - Len(s)]
  <2>1. /\ s \o t \in Seq(Nat) /\ Len(s \o t) = Len(s) + Len(t)
        /\ \A k \in 1..(Len(s) + Len(t)) :
              (s \o t)[k] = IF k <= Len(s) THEN s[k] ELSE t[k - Len(s)]
    BY ConcatProperties
  <2> QED
    BY <2>1, Zenon
<1>2. /\ g \o u \in Seq(Nat) /\ Len(g \o u) = Len(g) + Len(u)
      /\ \A k \in 1..(Len(g) + Len(u)) :
            (g \o u)[k] = IF k <= Len(g) THEN g[k] ELSE u[k - Len(g)]
  BY ConcatProperties
<1>3. Len(s) \in Nat /\ Len(t) \in Nat /\ Len(u) \in Nat
  BY LenProperties
<1>4. ASSUME NEW k \in 1..Len(s) PROVE (g \o u)[k] = s[k]
  <2>1. k \in 1..(Len(s) + Len(t)) /\ k <= Len(g) /\ k \in 1..(Len(g) + Len(u)) /\ k <= Len(s)
    BY <1>1, <1>3
  <2> QED
    BY <1>1, <1>2, <2>1
<1>5. ASSUME NEW k \in 1..Len(t) PROVE (g \o u)[Len(s) + k] = t[k]
  <2>1. PICK j \in Nat : j = Len(s) + k
    BY <1>3
  <2>2. /\ j \in 1..(Len(s) + Len(t)) /\ j <= Len(g) /\ j \in 1..(Len(g) + Len(u))
        /\ ~(j <= Len(s)) /\ j - Len(s) = k
    BY <1>1, <1>3, <2>1
  <2> QED
    BY <1>1, <1>2, <2>1, <2>2
<1>6. ASSUME NEW k \in 1..Len(u) PROVE (g \o u)[Len(s) + Len(t) + k] = u[k]
  <2>1. PICK j \in Nat : j = Len(s) + Len(t) + k
    BY <1>3
  <2>2. j \in 1..(Len(g) + Len(u)) /\ ~(j <= Len(g)) /\ j - Len(g) = k
    BY <1>1, <1>3, <2>1
  <2> QED
    BY <1>2, <2>1, <2>2
<1> QED
  BY <1>1, <1>2, <1>4, <1>5, <1>6, Zenon

-----------------------------------------------------------------------------
(* The file *)
\* Where blob number i begins, or will begin.
Start(i) == IF i \in DOMAIN written THEN written[i].off ELSE Len(bytes)

\* Blob w stands in a file, and the next one where it ends.
Stands(file, w, next) ==
    \E compressed \in BOOLEAN :
    \E stored \in IF compressed THEN 1..CompressBound(w.size) ELSE {w.size} :
        LET header == WriteBlobHeader(compressed, w.size, stored)
        IN  /\ next = w.off + Len(header) + stored
            /\ \A k \in 1..Len(header) : file[w.off + k] = header[k]
            /\ \A k \in 1..stored : file[w.off + Len(header) + k] = Mark(w.blob)

Records == [off : Nat, blob : Nat, size : Sizes]

\* The blobs stand in the file one after the other, from its first byte to its last.
FileHolds ==
    /\ bytes \in Seq(Nat) /\ Len(bytes) <= MaxDataFileSize
    /\ written \in Seq(Records)
    /\ Start(1) = 0
    /\ \A i \in DOMAIN written : /\ written[i].blob = i
                                 /\ Start(i + 1) <= Len(bytes)
                                 /\ Stands(bytes, written[i], Start(i + 1))

\* The mapping shows the file.
LEMMA ByteTyped ==
  ASSUME FileHolds
  PROVE  /\ \A i \in 0..(MaxDataFileSize + 2 * MaxVarintBytes) : Byte[i] \in Nat
         /\ \A i \in Nat : i < Len(bytes) => Byte[i] = bytes[i + 1]
<1>1. bytes \in Seq(Nat) /\ Len(bytes) \in Nat /\ Len(bytes) <= MaxDataFileSize
      /\ MaxDataFileSize \in Nat /\ MaxVarintBytes \in Nat
  BY IteratorAssumption, Constants, LenProperties DEF FileHolds
<1>2. ASSUME NEW i \in Nat, i < Len(bytes) PROVE bytes[i + 1] \in Nat
  <2>1. i + 1 \in 1..Len(bytes)
    BY <1>1, <1>2
  <2> QED
    BY <1>1, <2>1, ElementOfSeq
<1>3. \A i \in 0..(MaxDataFileSize + 2 * MaxVarintBytes) :
         Byte[i] = IF i < Len(bytes) THEN bytes[i + 1] ELSE 0
  BY DEF Byte
<1>4. \A i \in Nat : i < Len(bytes) => i \in 0..(MaxDataFileSize + 2 * MaxVarintBytes)
  BY <1>1
<1> QED
  BY <1>2, <1>3, <1>4

\* The loop can read what Put wrote at this offset.
ReadsBack(i) ==
    LET w == written[i]
        header == ReadBlobHeader(Byte, w.off)
    IN  /\ ~header.throws /\ header.compressed \in BOOLEAN
        /\ header.blobSize = w.size
        /\ header.compressed =>
              /\ header.next + header.compSize = Start(i + 1)
              /\ Decompressed(header.next, header.blobSize) = Run(Mark(w.blob), w.size)
        /\ ~header.compressed =>
              /\ header.next + header.blobSize = Start(i + 1)
              /\ BytesAt(header.next, header.blobSize) = Run(Mark(w.blob), w.size)

\* Every blob of the file reads back.
LEMMA WrittenIsRead ==
  ASSUME FileHolds, NEW i \in DOMAIN written
  PROVE  written[i].off < Len(bytes) /\ ReadsBack(i)
<1>1. PICK w \in Records : w = written[i]
  BY ElementOfSeq DEF FileHolds
<1>2. w.off \in Nat /\ w.size \in Sizes /\ w.size \in Nat
  BY <1>1, SizesAreValues DEF Records
<1>3. PICK len \in Nat, MVB \in Nat : /\ len = Len(bytes) /\ len <= MaxDataFileSize
                                      /\ MVB = MaxVarintBytes
                                      /\ MaxDataFileSize \in Nat
  BY LenProperties, Constants, IteratorAssumption DEF FileHolds
<1>4. PICK compressed \in BOOLEAN :
        \E stored \in IF compressed THEN 1..CompressBound(w.size) ELSE {w.size} :
           LET header == WriteBlobHeader(compressed, w.size, stored)
           IN  /\ Start(i + 1) = w.off + Len(header) + stored
               /\ \A k \in 1..Len(header) : bytes[w.off + k] = header[k]
               /\ \A k \in 1..stored : bytes[w.off + Len(header) + k] = Mark(w.blob)
  <2>1. Stands(bytes, w, Start(i + 1))
    BY <1>1, Zenon DEF FileHolds
  <2> QED
    BY <2>1, Zenon DEF Stands
<1>5. PICK stored \in IF compressed THEN 1..CompressBound(w.size) ELSE {w.size} :
           LET header == WriteBlobHeader(compressed, w.size, stored)
           IN  /\ Start(i + 1) = w.off + Len(header) + stored
               /\ \A k \in 1..Len(header) : bytes[w.off + k] = header[k]
               /\ \A k \in 1..stored : bytes[w.off + Len(header) + k] = Mark(w.blob)
  BY <1>4
<1>6. PICK h \in Seq(Nat) :
          h = WriteBlobHeader(compressed, w.size, stored) /\ Len(h) > 0 /\ Len(h) \in Nat
  BY <1>2, EstimateCovers, LenProperties
<1>7. stored \in Values /\ stored \in Nat /\ stored > 0 /\ w.size \in Values
  BY <1>2, EstimateCovers, SizesAreValues DEF Values
<1>8. /\ Start(i + 1) = w.off + Len(h) + stored
      /\ \A k \in 1..Len(h) : bytes[w.off + k] = h[k]
      /\ \A k \in 1..stored : bytes[w.off + Len(h) + k] = Mark(w.blob)
  BY <1>5, <1>6
<1>9. w.off + Len(h) + stored <= len
  BY <1>1, <1>3, <1>8 DEF FileHolds
<1>10. w.off < len
  BY <1>2, <1>6, <1>7, <1>9
<1>11. /\ \A k \in 0..(MaxDataFileSize + 2 * MVB) : Byte[k] \in Nat
       /\ \A k \in Nat : k < len => Byte[k] = bytes[k + 1]
  BY <1>3, ByteTyped
<1>12. ReadBlobHeader(Byte, w.off) =
            [compressed |-> compressed, blobSize |-> w.size,
             compSize |-> IF compressed THEN stored ELSE 0, throws |-> FALSE,
             next |-> w.off + Len(h)]
  <2>1. ASSUME NEW k \in 0..(2 * MVB + 1) PROVE Byte[w.off + k] \in Nat
    <3>1. w.off + k \in 0..(MaxDataFileSize + 2 * MVB)
      BY <1>2, <1>3, <1>10
    <3> QED
      BY <1>11, <3>1
  <2>2. ASSUME NEW k \in 1..Len(h) PROVE Byte[w.off + k - 1] = h[k]
    <3>1. PICK a \in Nat, n \in Nat : a = w.off /\ n = Len(h)
      BY <1>2, <1>6
    <3>2. a + k - 1 \in Nat /\ a + k - 1 < len /\ (a + k - 1) + 1 = a + k
      <4>1. a + n + stored <= len /\ k <= n /\ k \in Nat /\ k > 0
        BY <1>9, <3>1
      <4> QED
        BY <1>7, <4>1
    <3> QED
      BY <1>8, <1>11, <3>1, <3>2
  <2>3. \A k \in 0..(2 * MaxVarintBytes + 1) : Byte[w.off + k] \in Nat
    BY <1>3, <2>1
  <2>4. \A k \in 1..Len(WriteBlobHeader(compressed, w.size, stored)) :
            Byte[w.off + k - 1] = WriteBlobHeader(compressed, w.size, stored)[k]
    BY <1>6, <2>2
  <2>5. compressed \in BOOLEAN /\ w.size \in Values /\ stored \in Values /\ w.off \in Nat
    BY <1>2, <1>7
  <2>6. ReadBlobHeader(Byte, w.off) =
            [compressed |-> compressed, blobSize |-> w.size,
             compSize |-> IF compressed THEN stored ELSE 0, throws |-> FALSE,
             next |-> w.off + Len(WriteBlobHeader(compressed, w.size, stored))]
    <3>1. HeaderStands(Byte, w.off, compressed, w.size, stored)
      BY <2>3, <2>4, Zenon DEF HeaderStands
    <3> QED
      <4>1. IsRead(Byte, w.off, compressed, w.size, stored)
        BY <2>5, <3>1, HeaderRead, ZenonT(60)
      <4> QED
        BY <4>1, Zenon DEF IsRead
  <2> QED
    BY <1>6, <2>6, Zenon
<1>13. PICK data \in Nat : data = w.off + Len(h)
  BY <1>2, <1>6
<1>14. ASSUME NEW k \in 1..stored PROVE Byte[data + k - 1] = Mark(w.blob)
  <2>1. data + stored <= len
    BY <1>9, <1>13
  <2>2. data + k - 1 \in Nat /\ data + k - 1 < len /\ (data + k - 1) + 1 = data + k
    BY <1>7, <2>1
  <2>3. bytes[data + k] = Mark(w.blob)
    BY <1>8, <1>13
  <2> QED
    BY <1>11, <2>2, <2>3
<1>15. Decompressed(data, w.size) = Run(Mark(w.blob), w.size)
  <2>1. 1 \in 1..stored /\ data + 1 - 1 = data
    BY <1>7
  <2>2. Byte[data] = Mark(w.blob)
    BY <1>14, <2>1
  <2> QED
    BY <2>2 DEF Decompressed
<1>16. ASSUME ~compressed PROVE BytesAt(data, w.size) = Run(Mark(w.blob), w.size)
  <2>1. stored = w.size
    BY <1>16
  <2> QED
    BY <1>14, <2>1 DEF BytesAt, Run
<1>17. ReadsBack(i)
  <2>1. CASE compressed
    <3>1. ReadBlobHeader(Byte, w.off) =
            [compressed |-> TRUE, blobSize |-> w.size, compSize |-> stored,
             throws |-> FALSE, next |-> data]
      BY <1>12, <1>13, <2>1
    <3>2. data + stored = Start(i + 1)
      BY <1>8, <1>13
    <3> QED
      BY <1>1, <1>15, <3>1, <3>2 DEF ReadsBack
  <2>2. CASE ~compressed
    <3>1. ReadBlobHeader(Byte, w.off) =
            [compressed |-> FALSE, blobSize |-> w.size, compSize |-> 0,
             throws |-> FALSE, next |-> data]
      BY <1>12, <1>13, <2>2
    <3>2. data + w.size = Start(i + 1)
      BY <1>8, <1>13, <2>2
    <3> QED
      BY <1>1, <1>16, <2>2, <3>1, <3>2 DEF ReadsBack
  <2> QED
    BY <2>1, <2>2
<1> QED
  BY <1>1, <1>3, <1>10, <1>17

-----------------------------------------------------------------------------
(* The invariant *)

\* No buffer has more in it than it has memory.
Buffers ==
    {buf \in [memory : {"none", "heap", "file"}, data : Seq(Nat), length : Nat, capacity : Nat] :
        Len(buf.data) <= buf.capacity /\ buf.length <= buf.capacity}

StateTyped ==
    /\ pc \in {"write", "batch", "done", "dead"}
    /\ at \in Nat /\ at <= Len(bytes)
    /\ filled \in 0..BatchSize
    /\ slot \in [1..BatchSize -> Buffers] /\ metas \in [1..BatchSize -> Nat]
    /\ ids \in Seq(Nat) /\ indexed \in Seq(Buffers)
    /\ fetch \in Buffers

\* Until the file is loaded its offsets are those that Put returned.
Returned ==
    pc = "write" => /\ at = 0 /\ filled = 0 /\ indexed = <<>>
                    /\ Len(ids) = Len(written)
                    /\ \A i \in DOMAIN written : ids[i] = written[i].off

\* The indexes have been given the first blobs of the file, and all when it is done.
Loaded ==
    pc # "write" => /\ Len(ids) = Len(indexed)
                    /\ Len(indexed) + filled <= Len(written)
                    /\ \A i \in DOMAIN indexed : /\ ids[i] = written[i].off
                                                 /\ Shows(indexed[i], written[i])
                    /\ pc = "done" => Len(indexed) = Len(written)

\* The buffers of the batch so far, and where it goes on.
Batched ==
    pc = "batch" =>
        /\ at = Start(Len(indexed) + filled + 1)
        /\ \A j \in 1..filled : /\ metas[j] = written[Len(indexed) + j].off
                                /\ Shows(slot[j], written[Len(indexed) + j])

\* The cursor has the blob it fetched.
Fetches == fetched # 0 => fetched \in DOMAIN written /\ Shows(fetch, written[fetched])

IInv == FileHolds /\ StateTyped /\ Returned /\ Loaded /\ Batched /\ Fetches

LEMMA InitIInv == Init => IInv
<1> SUFFICES ASSUME Init PROVE IInv
  OBVIOUS
<1>1. /\ <<>> \in Seq(Nat) /\ <<>> \in Seq(Records) /\ <<>> \in Seq(Buffers)
      /\ Len(<<>>) = 0 /\ DOMAIN <<>> = {}
  OBVIOUS
<1>2. NoBuffer \in Buffers
  BY <1>1 DEF NoBuffer, Buffers
<1>3. FileHolds
  BY <1>1, IteratorAssumption DEF Init, FileHolds, Start
<1>4. StateTyped
  BY <1>1, <1>2, IteratorAssumption DEF Init, StateTyped
<1>5. Returned /\ Loaded /\ Batched /\ Fetches
  BY <1>1 DEF Init, Returned, Loaded, Batched, Fetches
<1> QED
  BY <1>3, <1>4, <1>5 DEF IInv

LEMMA RunTyped ==
  ASSUME NEW b \in Nat, NEW n \in Nat
  PROVE  Run(Mark(b), n) \in Seq(Nat) /\ Len(Run(Mark(b), n)) = n
         /\ \A k \in 1..n : Run(Mark(b), n)[k] = Mark(b)
BY DEF Run, Mark

\* A file that goes on holds what it held.
LEMMA StandsOn ==
  ASSUME FileHolds, NEW file, \A k \in 1..Len(bytes) : file[k] = bytes[k],
         NEW i \in DOMAIN written
  PROVE  Stands(file, written[i], Start(i + 1))
<1>1. PICK w \in Records : w = written[i]
  BY ElementOfSeq DEF FileHolds
<1>2. w.off \in Nat /\ w.size \in Sizes
  BY <1>1 DEF Records
<1>3. PICK len \in Nat : len = Len(bytes) /\ Start(i + 1) <= len
  BY LenProperties DEF FileHolds
<1>4. PICK compressed \in BOOLEAN :
        \E stored \in IF compressed THEN 1..CompressBound(w.size) ELSE {w.size} :
           LET header == WriteBlobHeader(compressed, w.size, stored)
           IN  /\ Start(i + 1) = w.off + Len(header) + stored
               /\ \A k \in 1..Len(header) : bytes[w.off + k] = header[k]
               /\ \A k \in 1..stored : bytes[w.off + Len(header) + k] = Mark(w.blob)
  <2>1. Stands(bytes, w, Start(i + 1))
    BY <1>1, Zenon DEF FileHolds
  <2> QED
    BY <2>1, Zenon DEF Stands
<1>5. PICK stored \in IF compressed THEN 1..CompressBound(w.size) ELSE {w.size} :
           LET header == WriteBlobHeader(compressed, w.size, stored)
           IN  /\ Start(i + 1) = w.off + Len(header) + stored
               /\ \A k \in 1..Len(header) : bytes[w.off + k] = header[k]
               /\ \A k \in 1..stored : bytes[w.off + Len(header) + k] = Mark(w.blob)
  BY <1>4
<1>6. PICK h \in Seq(Nat) :
          h = WriteBlobHeader(compressed, w.size, stored) /\ Len(h) > 0 /\ Len(h) \in Nat
  BY <1>2, EstimateCovers, LenProperties
<1>7. stored \in Nat /\ stored > 0
  BY <1>2, EstimateCovers DEF Values
<1>8. /\ Start(i + 1) = w.off + Len(h) + stored
      /\ \A k \in 1..Len(h) : bytes[w.off + k] = h[k]
      /\ \A k \in 1..stored : bytes[w.off + Len(h) + k] = Mark(w.blob)
  BY <1>5, <1>6
<1>9. PICK a \in Nat, n \in Nat : a = w.off /\ n = Len(h)
  BY <1>2, <1>6
<1>10. a + n + stored <= len
  BY <1>3, <1>8, <1>9
<1>11. ASSUME NEW k \in 1..n PROVE file[a + k] = h[k]
  <2>1. a + k \in 1..len
    BY <1>7, <1>10
  <2> QED
    BY <1>3, <1>8, <1>9, <2>1
<1>12. ASSUME NEW k \in 1..stored PROVE file[a + n + k] = Mark(w.blob)
  <2>1. a + n + k \in 1..len
    BY <1>7, <1>10
  <2> QED
    BY <1>3, <1>8, <1>9, <2>1
<1>13. /\ Start(i + 1) = w.off + Len(h) + stored
       /\ \A k \in 1..Len(h) : file[w.off + k] = h[k]
       /\ \A k \in 1..stored : file[w.off + Len(h) + k] = Mark(w.blob)
  BY <1>8, <1>9, <1>11, <1>12
<1> QED
  BY <1>1, <1>6, <1>13, Zenon DEF Stands

LEMMA EstimateTyped ==
  ASSUME NEW n \in Sizes, NEW compress \in BOOLEAN
  PROVE  EstimatedBytesToWrite(n, compress) \in Nat
<1>1. n \in Nat /\ CompressBound(n) \in Nat
  BY SizesAreValues, FormatAssumption DEF CompressBound
<1>2. GetVarintSize(n) \in Nat /\ GetVarintSize(CompressBound(n)) \in Nat
  BY <1>1, SizesGrow
<1>3. CASE compress
  <2>1. EstimatedBytesToWrite(n, compress) =
            1 + GetVarintSize(n) + (IF CompressBound(n) > -1 THEN GetVarintSize(CompressBound(n)) ELSE 0)
            + CompressBound(n)
    BY <1>3 DEF EstimatedBytesToWrite, GetCompressedSize, GetHeaderSize, NotCompressed
  <2> QED
    BY <1>1, <1>2, <2>1
<1>4. CASE ~compress
  <2>1. EstimatedBytesToWrite(n, compress) = 1 + GetVarintSize(n) + 0 + n
    BY <1>4 DEF EstimatedBytesToWrite, GetHeaderSize, NotCompressed
  <2> QED
    BY <1>1, <1>2, <2>1
<1> QED
  BY <1>3, <1>4

LEMMA StartTyped ==
  ASSUME FileHolds, NEW i \in Nat
  PROVE  Start(i) \in Nat
<1>1. Len(bytes) \in Nat /\ \A j \in DOMAIN written : written[j] \in Records
  BY LenProperties, ElementOfSeq DEF FileHolds
<1> QED
  BY <1>1 DEF Start, Records

\* A blob that is put stands behind the others.
LEMMA PutIInv ==
  ASSUME IInv, NEW n \in Sizes, NEW compress \in BOOLEAN, Put(n, compress)
  PROVE  IInv'
<1>1. /\ FileHolds /\ bytes \in Seq(Nat) /\ written \in Seq(Records)
      /\ Len(bytes) <= MaxDataFileSize /\ MaxDataFileSize \in Nat /\ n \in Nat
  BY IteratorAssumption, SizesAreValues DEF IInv, FileHolds
<1>2. PICK stored \in IF compress THEN 1..CompressBound(n) ELSE {n} :
          bytes' = bytes \o WriteBlobHeader(compress, n, stored)
                         \o Run(Mark(Len(written) + 1), stored)
  BY DEF Put
<1>3. PICK len \in Nat, b \in Nat, e \in Nat :
          /\ len = Len(bytes) /\ b = Len(written) + 1
          /\ EstimatedBytesToWrite(n, compress) + len <= MaxDataFileSize
          /\ e = len /\ b > 0 /\ b - 1 = Len(written)
  BY <1>1, LenProperties DEF Put
<1>4. PICK h \in Seq(Nat) : /\ h = WriteBlobHeader(compress, n, stored)
                            /\ Len(h) > 0 /\ Len(h) \in Nat
  BY EstimateCovers, LenProperties
<1>5. PICK m \in Nat : m = stored /\ m > 0
  BY EstimateCovers DEF Values
<1>6. PICK r \in Seq(Nat) : r = Run(Mark(b), m) /\ Len(r) = m /\ \A k \in 1..m : r[k] = Mark(b)
  BY RunTyped
<1>7. bytes' = bytes \o h \o r
  BY <1>2, <1>3, <1>4, <1>5, <1>6
<1>8. /\ bytes' \in Seq(Nat) /\ Len(bytes') = len + Len(h) + m
      /\ \A k \in 1..len : bytes'[k] = bytes[k]
      /\ \A k \in 1..Len(h) : bytes'[len + k] = h[k]
      /\ \A k \in 1..m : bytes'[len + Len(h) + k] = Mark(b)
  <2>1. /\ bytes \o h \o r \in Seq(Nat) /\ Len(bytes \o h \o r) = Len(bytes) + Len(h) + Len(r)
        /\ \A k \in 1..Len(bytes) : (bytes \o h \o r)[k] = bytes[k]
        /\ \A k \in 1..Len(h) : (bytes \o h \o r)[Len(bytes) + k] = h[k]
        /\ \A k \in 1..Len(r) : (bytes \o h \o r)[Len(bytes) + Len(h) + k] = r[k]
    BY <1>1, Parts
  <2> QED
    BY <1>3, <1>6, <1>7, <2>1
<1>9. Len(bytes') <= MaxDataFileSize
  <2>1. Len(h) + m <= EstimatedBytesToWrite(n, compress)
    BY <1>4, <1>5, EstimateCovers
  <2>2. EstimatedBytesToWrite(n, compress) \in Int
    BY EstimateTyped
  <2> QED
    BY <1>1, <1>3, <1>4, <1>8, <2>1, <2>2
<1>10. PICK w \in Records : w = [off |-> len, blob |-> b, size |-> n]
  BY <1>3 DEF Records
<1>11. /\ written' = Append(written, w) /\ ids' = Append(ids, len)
       /\ pc = "write" /\ pc' = pc /\ at' = at /\ slot' = slot /\ filled' = filled
       /\ metas' = metas /\ indexed' = indexed /\ fetch' = fetch /\ fetched' = fetched
  BY <1>3, <1>10 DEF Put, load
<1>12. /\ written' \in Seq(Records) /\ Len(written') = b /\ DOMAIN written' = 1..b
       /\ DOMAIN written = 1..(b - 1)
       /\ written'[b] = w /\ \A i \in 1..(b - 1) : written'[i] = written[i]
  BY <1>1, <1>3, <1>11, AppendProperties
<1>13. /\ Start(b)' = len /\ Start(b + 1)' = len + Len(h) + m
       /\ \A i \in 1..b : Start(i)' = Start(i)
  <2>1. b \in DOMAIN written' /\ b + 1 \notin DOMAIN written' /\ b \notin DOMAIN written
    BY <1>3, <1>12
  <2>2. Start(b)' = len /\ Start(b + 1)' = len + Len(h) + m /\ Start(b) = len
    BY <1>3, <1>8, <1>10, <1>12, <2>1 DEF Start
  <2>3. ASSUME NEW i \in 1..(b - 1) PROVE Start(i)' = Start(i)
    <3>1. i \in DOMAIN written' /\ i \in DOMAIN written
      BY <1>12
    <3> QED
      BY <1>12, <3>1 DEF Start
  <2> QED
    BY <2>2, <2>3
<1>14. ASSUME NEW i \in 1..(b - 1)
       PROVE  /\ written'[i].blob = i /\ Start(i + 1)' <= Len(bytes')
              /\ Stands(bytes', written'[i], Start(i + 1)')
  <2>1. i + 1 \in 1..b /\ i + 1 \in Nat
    OBVIOUS
  <2>2. Start(i + 1)' = Start(i + 1) /\ written'[i] = written[i] /\ i \in DOMAIN written
    BY <1>12, <1>13, <2>1
  <2>3. written[i].blob = i /\ Start(i + 1) <= len
    BY <1>1, <1>3, <2>2 DEF FileHolds
  <2>4. Start(i + 1) \in Nat
    BY <1>1, <2>1, StartTyped
  <2>5. Stands(bytes', written[i], Start(i + 1))
    BY <1>1, <1>3, <1>8, <2>2, StandsOn
  <2> QED
    BY <1>4, <1>8, <2>2, <2>3, <2>4, <2>5
<1>15. written'[b].blob = b /\ Start(b + 1)' <= Len(bytes')
       /\ Stands(bytes', written'[b], Start(b + 1)')
  <2>1. /\ w.off = len /\ w.blob = b /\ w.size = n
    BY <1>10
  <2>2. /\ Start(b + 1)' = w.off + Len(h) + stored
        /\ \A k \in 1..Len(h) : bytes'[w.off + k] = h[k]
        /\ \A k \in 1..stored : bytes'[w.off + Len(h) + k] = Mark(w.blob)
    BY <1>5, <1>8, <1>13, <2>1
  <2>3. Stands(bytes', w, Start(b + 1)')
    BY <1>4, <2>1, <2>2, Zenon DEF Stands
  <2> QED
    BY <1>8, <1>12, <1>13, <2>1, <2>3
<1>16. FileHolds'
  <2>1. Start(1)' = 0
    <3>1. 1 \in 1..b
      BY <1>3
    <3> QED
      BY <1>1, <1>13, <3>1 DEF FileHolds
  <2>2. \A i \in DOMAIN written' : i \in 1..(b - 1) \/ i = b
    BY <1>12
  <2> QED
    BY <1>8, <1>9, <1>12, <1>14, <1>15, <2>1, <2>2 DEF FileHolds
<1>17. StateTyped'
  <2>1. StateTyped /\ Returned
    BY DEF IInv
  <2>2. ids' \in Seq(Nat)
    BY <1>11, <2>1, AppendProperties DEF StateTyped
  <2>3. at' \in Nat /\ at' <= Len(bytes')
    BY <1>4, <1>8, <1>11, <2>1 DEF Returned
  <2> QED
    BY <1>11, <2>1, <2>2, <2>3 DEF StateTyped
<1>18. Returned' /\ Loaded' /\ Batched'
  <2>1. /\ at = 0 /\ filled = 0 /\ indexed = <<>> /\ Len(ids) = b - 1
        /\ ids \in Seq(Nat) /\ \A i \in 1..(b - 1) : ids[i] = written[i].off
    <3>1. /\ at = 0 /\ filled = 0 /\ indexed = <<>> /\ Len(ids) = Len(written)
          /\ ids \in Seq(Nat) /\ \A i \in DOMAIN written : ids[i] = written[i].off
      BY <1>11 DEF IInv, Returned, StateTyped
    <3> QED
      BY <1>3, <1>12, <3>1, Zenon
  <2>2. Len(ids') = b /\ ids'[b] = len /\ \A i \in 1..(b - 1) : ids'[i] = ids[i]
    BY <1>3, <1>11, <2>1, AppendProperties
  <2>3. ASSUME NEW i \in 1..b PROVE ids'[i] = written'[i].off
    <3>1. CASE i = b
      BY <1>10, <1>12, <2>2, <3>1
    <3>2. CASE i # b
      <4>1. i \in 1..(b - 1)
        BY <3>2
      <4> QED
        BY <1>12, <2>1, <2>2, <4>1
    <3> QED
      BY <3>1, <3>2
  <2> QED
    BY <1>11, <1>12, <2>1, <2>2, <2>3 DEF Returned, Loaded, Batched
<1>19. Fetches'
  <2>1. fetched' # 0 => fetched' \in 1..(b - 1) /\ Shows(fetch, written[fetched])
    BY <1>11, <1>12 DEF IInv, Fetches
  <2> QED
    BY <1>11, <1>12, <2>1 DEF Fetches, Shows
<1> QED
  BY <1>16, <1>17, <1>18, <1>19 DEF IInv

LEMMA StartHere ==
  \A i : i = (Len(indexed) + filled + 1)' => Start(i)' = Start(Len(indexed) + filled + 1)'
BY DEF Start

\* Only Put changes the file.
LEMMA SameFile ==
  ASSUME FileHolds, UNCHANGED <<bytes, written>>
  PROVE  FileHolds' /\ \A i : Start(i)' = Start(i)
BY DEF FileHolds, Start

\* What fits where the blobs of a file are read to.
LEMMA BufferTyped ==
  ASSUME NEW buf \in Buffers, NEW b \in Nat, NEW n \in Sizes
  PROVE  /\ buf.capacity \in Nat
         /\ Resize(buf, n) \in Buffers /\ Resize(buf, n).capacity = n
         /\ Resize(buf, 2 * n) \in Buffers /\ Resize(buf, 2 * n).capacity = 2 * n
         /\ \A i : BytesAt(i, n) = Run(Mark(b), n) =>
              /\ Window(i, n) \in Buffers
              /\ \A w \in Records : w.blob = b /\ w.size = n => Shows(Window(i, n), w)
         /\ buf.capacity >= n =>
              /\ Filled(buf, Run(Mark(b), n)) \in Buffers
              /\ \A w \in Records : w.blob = b /\ w.size = n =>
                    Shows(Filled(buf, Run(Mark(b), n)), w)
<1>1. n \in Nat /\ n > 0 /\ 2 * n \in Nat
  BY SizesAreValues
<1>2. PICK r \in Seq(Nat) : r = Run(Mark(b), n) /\ Len(r) = n
  BY <1>1, RunTyped
<1>3. /\ buf \in [memory : {"none", "heap", "file"}, data : Seq(Nat), length : Nat, capacity : Nat]
      /\ Len(buf.data) <= buf.capacity /\ buf.length <= buf.capacity
  BY DEF Buffers
<1>4. ASSUME NEW m \in Nat PROVE Resize(buf, m) \in Buffers /\ Resize(buf, m).capacity = m
  <2>1. <<>> \in Seq(Nat) /\ Len(<<>>) = 0
    OBVIOUS
  <2> QED
    BY <1>3, <2>1 DEF Resize, Buffers
<1>5. ASSUME NEW i, BytesAt(i, n) = r
      PROVE  /\ Window(i, n) \in Buffers
             /\ \A w \in Records : w.blob = b /\ w.size = n => Shows(Window(i, n), w)
  <2>1. Window(i, n) = [memory |-> "file", data |-> r, length |-> n, capacity |-> n]
    BY <1>5 DEF Window
  <2> QED
    BY <1>1, <1>2, <2>1 DEF Buffers, Shows
<1>6. ASSUME buf.capacity >= n
      PROVE  /\ Filled(buf, r) \in Buffers
             /\ \A w \in Records : w.blob = b /\ w.size = n => Shows(Filled(buf, r), w)
  <2>1. Filled(buf, r) = [memory |-> buf.memory, data |-> r, length |-> n, capacity |-> buf.capacity]
    <3>1. buf = [memory |-> buf.memory, data |-> buf.data,
                 length |-> buf.length, capacity |-> buf.capacity]
      BY <1>3
    <3>2. Filled(buf, r) = [buf EXCEPT !.data = r, !.length = n]
      BY <1>2, Zenon DEF Filled
    <3> QED
      BY <3>1, <3>2
  <2> QED
    BY <1>1, <1>2, <1>3, <1>6, <2>1 DEF Buffers, Shows
<1> QED
  BY <1>1, <1>2, <1>3, <1>4, <1>5, <1>6

\* A load starts with the first blob.
LEMMA StartLoadIInv ==
  ASSUME IInv, StartLoad
  PROVE  IInv'
<1>1. /\ pc = "write" /\ pc' = "batch" /\ ids' = <<>> /\ fetch' = NoBuffer /\ fetched' = 0
      /\ UNCHANGED <<bytes, written>> /\ at' = at /\ slot' = slot /\ filled' = filled
      /\ metas' = metas /\ indexed' = indexed
  BY DEF StartLoad, load
<1>2. FileHolds /\ StateTyped /\ at = 0 /\ filled = 0 /\ indexed = <<>>
  BY <1>1 DEF IInv, Returned
<1>3. FileHolds' /\ Start(1)' = 0
  BY <1>1, <1>2, SameFile DEF FileHolds
<1>4. /\ <<>> \in Seq(Nat) /\ Len(<<>>) = 0 /\ DOMAIN <<>> = {} /\ Len(written) \in Nat
  BY <1>2, LenProperties DEF FileHolds
<1>5. NoBuffer \in Buffers
  BY <1>4 DEF NoBuffer, Buffers
<1>6. StateTyped'
  BY <1>1, <1>2, <1>4, <1>5 DEF StateTyped
<1>7. Returned' /\ Loaded' /\ Batched' /\ Fetches'
  <2>1. indexed' = <<>> /\ filled' = 0 /\ at' = 0 /\ Len(written') = Len(written)
    BY <1>1, <1>2
  <2>2. Len(indexed') = 0 /\ DOMAIN indexed' = {} /\ 1..filled' = {} /\ Len(ids') = 0
    BY <1>1, <1>4, <2>1
  <2>3. Start(Len(indexed) + filled + 1)' = 0
    <3>1. (Len(indexed) + filled + 1)' = 1
      BY <2>1, <2>2
    <3> QED
      BY <1>3, <3>1, StartHere
  <2>4. Returned' /\ Fetches'
    BY <1>1 DEF Returned, Fetches
  <2>5. Batched'
    <3>1. at' = Start(Len(indexed) + filled + 1)'
      BY <2>1, <2>3
    <3> QED
      BY <2>2, <3>1 DEF Batched
  <2>6. Loaded'
    BY <1>1, <1>4, <2>1, <2>2 DEF Loaded
  <2> QED
    BY <2>4, <2>5, <2>6
<1> QED
  BY <1>3, <1>6, <1>7 DEF IInv

\* The blob that GetNextBatch comes to.
LEMMA NextIsRead ==
  ASSUME IInv, MoreInBatch
  PROVE  LET k == Len(indexed) + filled + 1
         IN  /\ k \in DOMAIN written /\ k \in Nat /\ Len(indexed) \in Nat
             /\ at = written[k].off /\ Header = ReadBlobHeader(Byte, written[k].off)
             /\ ReadsBack(k) /\ written[k] \in Records /\ written[k].blob \in Nat
             /\ written[k].size \in Sizes
             /\ filled + 1 \in 1..BatchSize /\ filled \in Nat
             /\ Start(k + 1) \in Nat /\ Start(k + 1) <= Len(bytes)
             /\ Len(indexed) + (filled + 1) <= Len(written)
<1>1. FileHolds /\ StateTyped /\ Loaded /\ Batched
  BY DEF IInv
<1>2. /\ pc = "batch" /\ filled < BatchSize /\ at < Len(bytes)
      /\ at = Start(Len(indexed) + filled + 1)
      /\ Len(indexed) + filled <= Len(written)
  BY <1>1 DEF MoreInBatch, Loaded, Batched
<1>3. PICK i \in Nat, f \in Nat, n \in Nat :
          i = Len(indexed) /\ f = filled /\ n = Len(written)
  <2>1. Len(indexed) \in Nat /\ Len(written) \in Nat /\ filled \in Nat
    BY <1>1, LenProperties DEF StateTyped, FileHolds
  <2> QED
    BY <2>1
<1>4. PICK k \in Nat : k = i + f + 1 /\ k \in 1..n
  <2>1. Len(bytes) \in Nat /\ DOMAIN written = 1..n
    BY <1>1, <1>3, LenProperties DEF FileHolds
  <2>2. i + f + 1 \in DOMAIN written
    BY <1>2, <1>3, <2>1 DEF Start
  <2> QED
    BY <2>1, <2>2
<1>5. DOMAIN written = 1..n /\ k \in DOMAIN written
  BY <1>1, <1>3, <1>4, LenProperties DEF FileHolds
<1>6. at = written[k].off
  BY <1>2, <1>3, <1>4, <1>5 DEF Start
<1>7. ReadsBack(k) /\ written[k] \in Records /\ Start(k + 1) <= Len(bytes)
  <2>1. ReadsBack(k)
    BY <1>1, <1>5, WrittenIsRead
  <2>2. written \in Seq(Records) /\ Start(k + 1) <= Len(bytes)
    BY <1>1, <1>5 DEF FileHolds
  <2>3. written[k] \in Records
    BY <1>5, <2>2, ElementOfSeq
  <2> QED
    BY <2>1, <2>2, <2>3
<1>8. Start(k + 1) \in Nat
  BY <1>1, StartTyped
<1>9. filled + 1 \in 1..BatchSize
  BY <1>1, <1>2, IteratorAssumption DEF StateTyped
<1>10. Len(indexed) + (filled + 1) <= Len(written)
  BY <1>3, <1>4
<1>11. written[k].blob \in Nat /\ written[k].size \in Sizes
  BY <1>7 DEF Records
<1>12. Header = ReadBlobHeader(Byte, written[k].off)
  BY <1>6 DEF Header
<1> QED
  BY <1>3, <1>4, <1>5, <1>6, <1>7, <1>8, <1>9, <1>10, <1>11, <1>12, Zenon

\* A blob that stands in its slot, and the next one begins where it ends.
LEMMA ReadIInv ==
  ASSUME IInv, MoreInBatch, NEW buf \in Buffers,
         slot' = [slot EXCEPT ![filled + 1] = buf],
         Shows(buf, written[Len(indexed) + filled + 1]),
         Record(Start(Len(indexed) + filled + 1 + 1)),
         UNCHANGED <<bytes, written, pc, indexed, ids, fetch, fetched>>
  PROVE  IInv'
<1>1. FileHolds /\ StateTyped /\ Loaded /\ Batched /\ Fetches /\ pc = "batch"
  BY DEF IInv, MoreInBatch
<1>2. PICK k \in Nat, i \in Nat, f \in Nat :
          /\ k = Len(indexed) + filled + 1 /\ i = Len(indexed) /\ f = filled
          /\ k = i + f + 1
          /\ k \in DOMAIN written /\ at = written[k].off
          /\ f + 1 \in 1..BatchSize
          /\ Start(k + 1) \in Nat /\ Start(k + 1) <= Len(bytes)
          /\ i + (f + 1) <= Len(written)
  BY NextIsRead
<1>3. /\ filled' = f + 1 /\ metas' = [metas EXCEPT ![f + 1] = at] /\ at' = Start(k + 1)
      /\ slot' = [slot EXCEPT ![f + 1] = buf] /\ Shows(buf, written[k])
  BY <1>2 DEF Record
<1>4. /\ bytes' = bytes /\ written' = written /\ pc' = pc /\ indexed' = indexed /\ ids' = ids
      /\ fetch' = fetch /\ fetched' = fetched
  OBVIOUS
<1>5. FileHolds' /\ \A j : Start(j)' = Start(j)
  BY <1>1, SameFile
<1>6. StateTyped'
  <2>1. slot' \in [1..BatchSize -> Buffers] /\ metas' \in [1..BatchSize -> Nat] /\ filled' \in 0..BatchSize
    BY <1>1, <1>2, <1>3 DEF StateTyped
  <2> QED
    BY <1>1, <1>2, <1>3, <1>4, <2>1 DEF StateTyped
<1>7. Batched'
  <2>1. at' = Start(Len(indexed) + filled + 1)'
    <3>1. (Len(indexed) + filled + 1)' = k + 1
      BY <1>2, <1>3, <1>4
    <3> QED
      BY <1>3, <1>5, <3>1, StartHere
  <2>2. ASSUME NEW j \in 1..(f + 1)
        PROVE  metas'[j] = written[i + j].off /\ Shows(slot'[j], written[i + j])
    <3>0. f + 1 \in DOMAIN slot /\ f + 1 \in DOMAIN metas /\ j \in DOMAIN slot /\ j \in DOMAIN metas
      BY <1>1, <1>2, IteratorAssumption DEF StateTyped
    <3>1. CASE j = f + 1
      <4>1. i + j = k
        BY <1>2, <3>1
      <4> QED
        BY <1>2, <1>3, <3>0, <3>1, <4>1
    <3>2. CASE j # f + 1
      <4>1. j \in 1..f
        BY <3>2
      <4>2. metas'[j] = metas[j] /\ slot'[j] = slot[j]
        BY <1>3, <3>0, <3>2
      <4> QED
        BY <1>1, <1>2, <4>1, <4>2 DEF Batched
    <3> QED
      BY <3>1, <3>2
  <2>3. /\ \A j \in 1..filled' : metas'[j] = written'[Len(indexed') + j].off
                                 /\ Shows(slot'[j], written'[Len(indexed') + j])
    BY <1>2, <1>3, <1>4, <2>2
  <2> QED
    BY <2>1, <2>3 DEF Batched, Shows
<1>8. Loaded'
  BY <1>1, <1>2, <1>3, <1>4 DEF Loaded, Shows
<1>9. Returned' /\ Fetches'
  BY <1>1, <1>4 DEF Returned, Fetches, Shows
<1> QED
  BY <1>5, <1>6, <1>7, <1>8, <1>9 DEF IInv

\* A compressed blob, into memory of the slot, or into the mapping: the end.
LEMMA ReadCompressedIInv ==
  ASSUME IInv, ReadCompressed
  PROVE  IInv'
<1>1. /\ MoreInBatch /\ Header.compressed /\ UNCHANGED <<bytes, written, ids, fetch, fetched>>
      /\ StateTyped
  BY DEF ReadCompressed, IInv
<1>2. PICK k \in Nat :
          /\ k = Len(indexed) + filled + 1
          /\ Header = ReadBlobHeader(Byte, written[k].off) /\ ReadsBack(k)
          /\ written[k] \in Records /\ written[k].blob \in Nat /\ written[k].size \in Sizes
          /\ filled + 1 \in 1..BatchSize
  BY <1>1, NextIsRead
<1>3. PICK old \in Buffers : old = slot[filled + 1]
  BY <1>1, <1>2 DEF StateTyped
<1>4. PICK w \in Records, n \in Sizes, b \in Nat : w = written[k] /\ n = w.size /\ b = w.blob
  BY <1>2
<1>5. /\ Header.blobSize = n /\ Header.next + Header.compSize = Start(k + 1)
      /\ Decompressed(Header.next, Header.blobSize) = Run(Mark(b), n)
  BY <1>1, <1>2, <1>4, Zenon DEF ReadsBack
<1>6. n \in Nat
  BY SizesAreValues
<1>7. PICK buf \in Buffers : buf = Room(old, n) /\ buf.capacity >= n
  <2>1. old.capacity \in Nat /\ Resize(old, 2 * n) \in Buffers /\ Resize(old, 2 * n).capacity = 2 * n
    BY BufferTyped
  <2>2. CASE old.capacity < n
    BY <1>6, <2>1, <2>2 DEF Room
  <2>3. CASE ~(old.capacity < n)
    BY <1>6, <2>1, <2>3 DEF Room
  <2> QED
    BY <2>2, <2>3
<1>8. CASE buf.memory = "file"
  <2>1. pc' = "dead" /\ UNCHANGED load /\ pc = "batch"
    BY <1>1, <1>3, <1>5, <1>7, <1>8 DEF ReadCompressed, MoreInBatch
  <2>2. UNCHANGED <<bytes, written, at, slot, filled, metas, indexed, ids, fetch, fetched>>
    BY <1>1, <2>1 DEF load
  <2>3. FileHolds'
    BY <2>2, SameFile DEF IInv
  <2>4. StateTyped'
    BY <1>1, <2>1, <2>2 DEF StateTyped
  <2>5. Returned' /\ Batched'
    BY <2>1 DEF Returned, Batched
  <2>6. Loaded' /\ Fetches'
    BY <2>1, <2>2 DEF IInv, Loaded, Fetches, Shows
  <2> QED
    BY <2>3, <2>4, <2>5, <2>6 DEF IInv
<1>9. CASE buf.memory # "file"
  <2>1. PICK full \in Buffers : full = Filled(buf, Run(Mark(b), n)) /\ Shows(full, w)
    BY <1>4, <1>7, BufferTyped
  <2>2. /\ slot' = [slot EXCEPT ![filled + 1] = full]
        /\ Record(Start(k + 1)) /\ UNCHANGED <<pc, indexed>>
    BY <1>3, <1>5, <1>7, <1>9, <2>1 DEF ReadCompressed
  <2>3. /\ Shows(full, written[Len(indexed) + filled + 1])
        /\ Record(Start(Len(indexed) + filled + 1 + 1))
    BY <1>2, <1>4, <2>1, <2>2, Zenon
  <2>4. UNCHANGED <<bytes, written, pc, indexed, ids, fetch, fetched>>
    BY <1>1, <2>2
  <2> QED
    BY <1>1, <2>2, <2>3, <2>4, ReadIInv
<1> QED
  BY <1>8, <1>9

LEMMA ReadUncompressedIInv ==
  ASSUME IInv, ReadUncompressed
  PROVE  IInv'
<1>1. /\ MoreInBatch /\ ~Header.compressed
      /\ UNCHANGED <<bytes, written, pc, indexed, ids, fetch, fetched>>
      /\ StateTyped
  BY DEF ReadUncompressed, IInv
<1>2. PICK k \in Nat :
          /\ k = Len(indexed) + filled + 1
          /\ Header = ReadBlobHeader(Byte, written[k].off) /\ ReadsBack(k)
          /\ written[k] \in Records /\ written[k].blob \in Nat /\ written[k].size \in Sizes
          /\ filled + 1 \in 1..BatchSize
  BY <1>1, NextIsRead
<1>3. PICK old \in Buffers : old = slot[filled + 1]
  BY <1>1, <1>2 DEF StateTyped
<1>4. PICK w \in Records, n \in Sizes, b \in Nat : w = written[k] /\ n = w.size /\ b = w.blob
  BY <1>2
<1>5. /\ Header.blobSize = n /\ Header.next + Header.blobSize = Start(k + 1)
      /\ BytesAt(Header.next, n) = Run(Mark(b), n)
  <2>1. Header.blobSize = n
    BY <1>2, <1>4, Zenon DEF ReadsBack
  <2>2. /\ Header.next + Header.blobSize = Start(k + 1)
        /\ BytesAt(Header.next, Header.blobSize) = Run(Mark(b), n)
    BY <1>1, <1>2, <1>4, Zenon DEF ReadsBack
  <2> QED
    BY <2>1, <2>2, Zenon
<1>6. PICK full \in Buffers : full = Window(Header.next, n) /\ Shows(full, w)
  BY <1>3, <1>4, <1>5, BufferTyped
<1>7. slot' = [slot EXCEPT ![filled + 1] = full] /\ Record(Start(k + 1))
  BY <1>5, <1>6 DEF ReadUncompressed
<1>8. /\ Shows(full, written[Len(indexed) + filled + 1])
      /\ Record(Start(Len(indexed) + filled + 1 + 1))
  BY <1>2, <1>4, <1>6, <1>7, Zenon
<1> QED
  BY <1>1, <1>7, <1>8, ReadIInv

\* A blob is fetched into what the last one has left.
LEMMA GetIInv ==
  ASSUME IInv, NEW i \in DOMAIN ids, Get(i)
  PROVE  IInv'
<1>1. /\ pc \in {"write", "done"} /\ FileHolds /\ StateTyped /\ Loaded /\ Returned /\ Batched
      /\ bytes' = bytes /\ written' = written /\ pc' = pc /\ at' = at /\ slot' = slot
      /\ filled' = filled /\ metas' = metas /\ indexed' = indexed /\ ids' = ids /\ fetched' = i
  BY DEF Get, IInv, load
<1>2. i \in DOMAIN written /\ ids[i] = written[i].off
  <2>1. /\ DOMAIN ids = 1..Len(ids) /\ DOMAIN written = 1..Len(written)
        /\ DOMAIN indexed = 1..Len(indexed)
    BY <1>1, LenProperties DEF StateTyped, FileHolds
  <2>2. CASE pc = "write"
    BY <1>1, <2>1, <2>2 DEF Returned
  <2>3. CASE pc = "done"
    BY <1>1, <2>1, <2>3 DEF Loaded
  <2> QED
    BY <1>1, <2>2, <2>3
<1>3. PICK w \in Records, n \in Sizes, b \in Nat : w = written[i] /\ n = w.size /\ b = w.blob
  <2>1. written \in Seq(Records) /\ i \in 1..Len(written)
    BY <1>1, <1>2, LenProperties DEF FileHolds
  <2>2. written[i] \in Records
    BY <2>1, ElementOfSeq
  <2> QED
    BY <2>2 DEF Records
<1>4. ReadsBack(i)
  BY <1>1, <1>2, WrittenIsRead
<1> DEFINE header == ReadBlobHeader(Byte, ids[i])
           buf == IF fetch.capacity < header.blobSize
                  THEN Resize(fetch, header.blobSize) ELSE fetch
<1>5. /\ header.blobSize = n
      /\ header.compressed => Decompressed(header.next, header.blobSize) = Run(Mark(b), n)
      /\ ~header.compressed => BytesAt(header.next, header.blobSize) = Run(Mark(b), n)
  BY <1>2, <1>3, <1>4, Zenon DEF ReadsBack
<1>6. fetch' = Filled(buf, IF header.compressed THEN Decompressed(header.next, header.blobSize)
                           ELSE BytesAt(header.next, header.blobSize))
  BY DEF Get
<1> HIDE DEF header
<1>7. buf \in Buffers /\ buf.capacity >= n
  <2>1. /\ fetch \in Buffers /\ fetch.capacity \in Nat /\ n \in Nat
        /\ Resize(fetch, n) \in Buffers /\ Resize(fetch, n).capacity = n
    BY <1>1, BufferTyped, SizesAreValues DEF StateTyped
  <2> QED
    BY <1>5, <2>1
<1> HIDE DEF buf
<1>8. fetch' = Filled(buf, Run(Mark(b), n))
  BY <1>5, <1>6
<1>9. fetch' \in Buffers /\ Shows(fetch', w)
  BY <1>3, <1>7, <1>8, BufferTyped
<1>10. FileHolds'
  BY <1>1, SameFile
<1>11. StateTyped'
  BY <1>1, <1>9 DEF StateTyped
<1>12. Returned' /\ Loaded' /\ Batched'
  BY <1>1 DEF Returned, Loaded, Batched, Start, Shows
<1>13. Fetches'
  BY <1>1, <1>2, <1>3, <1>9 DEF Fetches, Shows
<1> QED
  BY <1>10, <1>11, <1>12, <1>13 DEF IInv

\* The first elements of a sequence.
LEMMA Beginning ==
  ASSUME NEW T, NEW s \in Seq(T), NEW n \in Nat, n <= Len(s)
  PROVE  /\ SubSeq(s, 1, n) \in Seq(T) /\ Len(SubSeq(s, 1, n)) = n
         /\ \A j \in 1..n : SubSeq(s, 1, n)[j] = s[j]
<1>1. \A j \in 1..n : s[j] \in T
  <2>1. \A j \in 1..n : j \in 1..Len(s)
    BY LenProperties
  <2> QED
    BY <2>1, ElementOfSeq
<1>2. 1 \in Int /\ n \in Int
  OBVIOUS
<1>3. /\ SubSeq(s, 1, n) \in Seq(T)
      /\ Len(SubSeq(s, 1, n)) = IF 1 <= n THEN n - 1 + 1 ELSE 0
      /\ \A j \in 1..(n - 1 + 1) : SubSeq(s, 1, n)[j] = s[1 + j - 1]
  BY <1>1, <1>2, SubSeqProperties
<1>4. PICK u : u = SubSeq(s, 1, n)
  OBVIOUS
<1>5. Len(u) = n
  BY <1>3, <1>4
<1>6. ASSUME NEW j \in 1..n PROVE u[j] = s[j]
  <2>1. j \in 1..(n - 1 + 1) /\ 1 + j - 1 = j
    OBVIOUS
  <2> QED
    BY <1>3, <1>4, <2>1
<1> QED
  BY <1>3, <1>4, <1>5, <1>6

\* What was filled of a batch goes to the indexes; without any it was all.
LEMMA IndexBatchIInv ==
  ASSUME IInv, IndexBatch
  PROVE  IInv'
<1>1. /\ pc = "batch" /\ filled' = 0 /\ FileHolds /\ StateTyped /\ Loaded /\ Batched /\ Fetches
      /\ bytes' = bytes /\ written' = written /\ at' = at /\ slot' = slot
      /\ metas' = metas /\ fetch' = fetch /\ fetched' = fetched
  BY DEF IndexBatch, IInv
<1>2. PICK i \in Nat, f \in Nat, n \in Nat :
          /\ i = Len(indexed) /\ f = filled /\ n = Len(written) /\ f <= BatchSize
          /\ i + f <= n /\ Len(ids) = i
          /\ DOMAIN written = 1..n /\ DOMAIN indexed = 1..i /\ DOMAIN ids = 1..i
  <2>1. Len(indexed) \in Nat /\ Len(written) \in Nat /\ filled \in Nat /\ filled <= BatchSize
        /\ DOMAIN written = 1..Len(written) /\ DOMAIN indexed = 1..Len(indexed)
        /\ DOMAIN ids = 1..Len(ids)
    BY <1>1, LenProperties, IteratorAssumption DEF StateTyped, FileHolds
  <2>2. Len(indexed) + filled <= Len(written) /\ Len(ids) = Len(indexed)
    BY <1>1 DEF Loaded
  <2> QED
    BY <2>1, <2>2
<1>3. /\ at = Start(i + f + 1)
      /\ \A j \in 1..f : metas[j] = written[i + j].off /\ Shows(slot[j], written[i + j])
      /\ \A j \in 1..i : ids[j] = written[j].off /\ Shows(indexed[j], written[j])
  BY <1>1, <1>2 DEF Batched, Loaded
<1>4. FileHolds' /\ \A j : Start(j)' = Start(j)
  BY <1>1, SameFile
<1>5. Fetches'
  BY <1>1 DEF Fetches, Shows
<1>6. CASE f = 0
  <2>1. pc' = "done" /\ ids' = ids /\ indexed' = indexed
    BY <1>2, <1>6 DEF IndexBatch
  <2>2. i = n
    <3> SUFFICES ASSUME i # n PROVE FALSE
      OBVIOUS
    <3>1. i + f + 1 \in 1..n /\ i + 1 = i + f + 1
      BY <1>2, <1>6
    <3>2. PICK k \in DOMAIN written : k = i + f + 1
      BY <1>2, <3>1
    <3>3. at = written[k].off /\ written[k].off < Len(bytes)
      BY <1>1, <1>3, <3>2, WrittenIsRead DEF Start
    <3>4. filled < BatchSize
      BY <1>2, <1>6, IteratorAssumption
    <3> QED
      BY <1>1, <3>3, <3>4 DEF IndexBatch, MoreInBatch
  <2>3. StateTyped'
    BY <1>1, <2>1, IteratorAssumption DEF StateTyped
  <2>4. Returned' /\ Batched'
    BY <2>1 DEF Returned, Batched
  <2>5. Loaded'
    BY <1>1, <1>2, <1>3, <2>1, <2>2 DEF Loaded, Shows
  <2> QED
    BY <1>4, <1>5, <2>3, <2>4, <2>5 DEF IInv
<1>7. CASE f # 0
  <2>1. /\ pc' = "batch" /\ ids' = ids \o SubSeq(metas, 1, f)
        /\ indexed' = indexed \o SubSeq(slot, 1, f)
    BY <1>1, <1>2, <1>7 DEF IndexBatch
  <2>2. /\ metas \in Seq(Nat) /\ slot \in Seq(Buffers) /\ Len(metas) = BatchSize
        /\ Len(slot) = BatchSize /\ ids \in Seq(Nat) /\ indexed \in Seq(Buffers)
    BY <1>1, IteratorAssumption DEF StateTyped
  <2>3. PICK m \in Seq(Nat) : /\ m = SubSeq(metas, 1, f) /\ Len(m) = f
                              /\ \A j \in 1..f : m[j] = metas[j]
    <3>1. f <= Len(metas)
      BY <1>2, <2>2
    <3>2. /\ SubSeq(metas, 1, f) \in Seq(Nat) /\ Len(SubSeq(metas, 1, f)) = f
          /\ \A j \in 1..f : SubSeq(metas, 1, f)[j] = metas[j]
      BY <2>2, <3>1, Beginning
    <3> QED
      BY <3>2, Zenon
  <2>4. PICK s \in Seq(Buffers) : /\ s = SubSeq(slot, 1, f) /\ Len(s) = f
                                  /\ \A j \in 1..f : s[j] = slot[j]
    <3>1. f <= Len(slot)
      BY <1>2, <2>2
    <3>2. /\ SubSeq(slot, 1, f) \in Seq(Buffers) /\ Len(SubSeq(slot, 1, f)) = f
          /\ \A j \in 1..f : SubSeq(slot, 1, f)[j] = slot[j]
      BY <2>2, <3>1, Beginning
    <3> QED
      BY <3>2, Zenon
  <2>5. /\ ids' \in Seq(Nat) /\ Len(ids') = i + f
        /\ \A j \in 1..(i + f) : ids'[j] = IF j <= i THEN ids[j] ELSE m[j - i]
    <3>1. /\ ids \o m \in Seq(Nat) /\ Len(ids \o m) = Len(ids) + Len(m)
          /\ \A j \in 1..(Len(ids) + Len(m)) :
                (ids \o m)[j] = IF j <= Len(ids) THEN ids[j] ELSE m[j - Len(ids)]
      BY <2>2, ConcatProperties
    <3> QED
      BY <1>2, <2>1, <2>3, <3>1, Zenon
  <2>6. /\ indexed' \in Seq(Buffers) /\ Len(indexed') = i + f
        /\ \A j \in 1..(i + f) : indexed'[j] = IF j <= i THEN indexed[j] ELSE s[j - i]
    BY <1>2, <2>1, <2>2, <2>4, ConcatProperties
  <2>7. ASSUME NEW j \in 1..(i + f)
        PROVE  ids'[j] = written[j].off /\ Shows(indexed'[j], written[j])
    <3>1. CASE j <= i
      <4>1. j \in 1..i
        BY <3>1
      <4> QED
        BY <1>3, <2>5, <2>6, <3>1, <4>1
    <3>2. CASE ~(j <= i)
      <4>1. PICK d \in 1..f : d = j - i /\ i + d = j
        BY <3>2
      <4>2. ids'[j] = metas[d] /\ indexed'[j] = slot[d]
        BY <2>3, <2>4, <2>5, <2>6, <3>2, <4>1
      <4> QED
        BY <1>3, <4>1, <4>2
    <3> QED
      BY <3>1, <3>2
  <2>8. StateTyped'
    BY <1>1, <2>1, <2>5, <2>6, IteratorAssumption DEF StateTyped
  <2>9. Returned'
    BY <2>1 DEF Returned
  <2>10. Loaded'
    <3>1. DOMAIN indexed' = 1..(i + f)
      BY <2>6, LenProperties
    <3> QED
      <4>1. Len(written') = n /\ Len(indexed') + filled' <= Len(written')
        BY <1>1, <1>2, <2>6
      <4> QED
        BY <1>1, <2>1, <2>5, <2>6, <2>7, <3>1, <4>1 DEF Loaded, Shows
  <2>11. Batched'
    <3>1. (Len(indexed) + filled + 1)' = i + f + 1
      BY <1>1, <1>2, <2>6
    <3>2. at' = Start(Len(indexed) + filled + 1)'
      BY <1>1, <1>3, <1>4, <3>1, StartHere
    <3>3. \A j \in 1..filled' : FALSE
      BY <1>1
    <3> QED
      BY <3>2, <3>3 DEF Batched
  <2> QED
    BY <1>4, <1>5, <2>8, <2>9, <2>10, <2>11 DEF IInv
<1> QED
  BY <1>6, <1>7

LEMMA StutterIInv ==
  ASSUME IInv, UNCHANGED vars
  PROVE  IInv'
BY DEF vars, load, IInv, FileHolds, StateTyped, Returned, Loaded, Batched, Fetches, Start, Shows

LEMMA Invariant == Spec => []IInv
<1>1. Init => IInv
  BY InitIInv
<1>2. IInv /\ [Next]_vars => IInv'
  <2> SUFFICES ASSUME IInv, [Next]_vars PROVE IInv'
    OBVIOUS
  <2>1. CASE \E n \in Sizes, compress \in BOOLEAN : Put(n, compress)
    BY <2>1, PutIInv
  <2>2. CASE StartLoad
    BY <2>2, StartLoadIInv
  <2>3. CASE ReadCompressed
    BY <2>3, ReadCompressedIInv
  <2>4. CASE ReadUncompressed
    BY <2>4, ReadUncompressedIInv
  <2>5. CASE IndexBatch
    BY <2>5, IndexBatchIInv
  <2>6. CASE \E i \in DOMAIN ids : Get(i)
    BY <2>6, GetIInv
  <2>7. CASE UNCHANGED vars
    BY <2>7, StutterIInv
  <2> QED
    BY <2>1, <2>2, <2>3, <2>4, <2>5, <2>6, <2>7 DEF Next
<1> QED
  BY <1>1, <1>2, PTL DEF Spec

\* The estimate that Put makes before it compresses covers header, varints and the
\* bytes that LZ4 makes (blob_manager.cc:179-185): for blobs of any sizes, compressed or
\* not, no byte is written past the end of the mapping.
THEOREM FileIsWithinMapping == Spec => []FileWithinMapping
<1>1. IInv => FileWithinMapping
  BY DEF IInv, FileHolds, FileWithinMapping
<1> QED
  BY <1>1, Invariant, PTL

\* For blobs of any sizes, compressed and not, in any order and any batches, with
\* buffers that are used again: BlobIterator gives the indexes the blobs of the file whole,
\* in order and under the offsets Put returned, and Get the blob under its number.
THEOREM BlobsReadBack == Spec => []BlobsAreReadAsWritten
<1>1. IInv => BlobsAreReadAsWritten
  <2> SUFFICES ASSUME IInv PROVE BlobsAreReadAsWritten
    OBVIOUS
  <2>1. /\ Loaded /\ Fetches /\ Len(indexed) \in Nat /\ Len(written) \in Nat /\ filled \in Nat
    BY LenProperties, IteratorAssumption DEF IInv, StateTyped, FileHolds
  <2>2. Len(indexed) + filled <= Len(written) => Len(indexed) <= Len(written)
    BY <2>1
  <2> QED
    BY <2>1, <2>2 DEF Loaded, Fetches, BlobsAreReadAsWritten
<1> QED
  BY <1>1, Invariant, PTL

\* Every variable has its type, no buffer is longer than its memory and no position
\* behind the file, whatever is put, loaded and fetched.
THEOREM TypeCorrect == Spec => []BuffersHoldTheirBlobs
<1>1. IInv => BuffersHoldTheirBlobs
  <2> SUFFICES ASSUME IInv PROVE BuffersHoldTheirBlobs
    OBVIOUS
  <2>1. StateTyped
    BY DEF IInv
  <2>2. \A buf \in Range(slot) \cup {fetch} : buf \in Buffers
    BY <2>1 DEF StateTyped, Range
  <2> QED
    BY <2>1, <2>2 DEF StateTyped, Buffers, BuffersHoldTheirBlobs
<1> QED
  BY <1>1, Invariant, PTL
=============================================================================
