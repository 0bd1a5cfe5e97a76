-------------------------- MODULE PositionsProofs --------------------------
(***************************************************************************)
(* Positions, for every scale, integer width, bound, request and account:  *)
(*                                                                         *)
(*   - ParseAmount accepts exactly the texts that spell an amount the      *)
(*     scale holds and reads them exactly, and reads back what             *)
(*     FormatAmount writes.  Powers of ten are a recursive function, and   *)
(*     mulPow10 a loop over one: both take an induction;                   *)
(*   - applyTrade keeps the row one of int64 values and a closed position  *)
(*     without a cost, and, where no sum wraps, the books balanced up to   *)
(*     what its divisions cut;                                             *)
(*   - the two handlers, the publisher and the processor hand the amounts  *)
(*     on unchanged.                                                       *)
(***************************************************************************)
EXTENDS Positions, WellFoundedInduction, TLAPS

-----------------------------------------------------------------------------
(* Induction over the naturals.  The library's theorems on it have an      *)
(* operator as a parameter; these have a set.                              *)

\* A set of naturals has a least element.
LEMMA LeastNatural ==
  ASSUME NEW T, T \subseteq Nat, T # {}
  PROVE  \E x \in T : \A y \in T : x <= y
<1> DEFINE R == {ss \in Nat \X Nat : ss[1] < ss[2]}
<1>1. IsWellFoundedOn(R, Nat)
  <2>1. R = OpToRel(<, Nat)
    BY Zenon DEF OpToRel
  <2> QED BY <2>1, NatLessThanWellFounded, Zenon
<1>2. \A m, n \in Nat : m < n => <<m, n>> \in R
  OBVIOUS
<1> HIDE DEF R
<1>3. PICK x \in T : \A y \in T : ~(<<y, x>> \in R)
  BY <1>1, WFMin, Zenon
<1>4. ASSUME NEW y \in T PROVE x <= y
  <2>1. x \in Nat /\ y \in Nat /\ ~(y < x)
    BY <1>2, <1>3, Zenon
  <2> QED BY <2>1
<1> QED BY <1>4

\* Induction, with the set of the numbers that have the property.
LEMMA SetInduction ==
  ASSUME NEW S, 0 \in S, \A n \in Nat : n \in S => n + 1 \in S
  PROVE  Nat \subseteq S
<1> DEFINE T == Nat \ S
<1> SUFFICES ASSUME T # {} PROVE FALSE
  OBVIOUS
<1>1. PICK x \in T : \A y \in T : x <= y
  <2> HIDE DEF T
  <2>1. T \subseteq Nat
    BY DEF T
  <2> QED BY <2>1, LeastNatural, Zenon
<1>2. x # 0 /\ x - 1 \in Nat /\ x - 1 \notin T
  BY <1>1
<1> QED BY <1>1, <1>2

-----------------------------------------------------------------------------
(* Powers of ten *)

\* The equation that defines PowerOf10 has a solution: for every n there is
\* one on 0 .. n, and any two of them agree.
LEMMA PowersExist ==
  \E f : f = [n \in Nat |-> IF n = 0 THEN 1 ELSE 10 * f[n - 1]]
<1> DEFINE Good(g, n) == g \in [0 .. n -> Nat] /\ g[0] = 1 /\ \A i \in 1 .. n : g[i] = 10 * g[i - 1]
           S == {n \in Nat : \E g : Good(g, n)}
           G(n) == CHOOSE g : Good(g, n)
           f == [n \in Nat |-> G(n)[n]]
<1>1. Nat \subseteq S
  <2>1. 0 \in S
    <3>1. Good([i \in 0 .. 0 |-> 1], 0)
      OBVIOUS
    <3> QED BY <3>1, Zenon
  <2>2. ASSUME NEW n \in Nat, n \in S PROVE n + 1 \in S
    <3>1. PICK g : Good(g, n)
      BY <2>2
    <3> DEFINE h == [i \in 0 .. n + 1 |-> IF i = n + 1 THEN 10 * g[n] ELSE g[i]]
    <3>2. h \in [0 .. n + 1 -> Nat] /\ h[0] = 1
      BY <3>1
    <3>3. \A i \in 1 .. n + 1 : h[i] = 10 * h[i - 1]
      BY <3>1
    <3> HIDE DEF h
    <3>4. Good(h, n + 1) /\ n + 1 \in Nat
      BY <3>2, <3>3
    <3> HIDE DEF Good
    <3> QED BY <3>4, Zenon
  <2> HIDE DEF S
  <2> QED BY <2>1, <2>2, SetInduction
<1>2. ASSUME NEW m \in Nat, NEW n \in Nat, NEW g, NEW h, Good(g, m), Good(h, n)
      PROVE  \A i \in Nat : i <= m /\ i <= n => g[i] = h[i]
  <2> DEFINE E == {i \in Nat : i <= m /\ i <= n => g[i] = h[i]}
  <2>1. 0 \in E
    BY <1>2
  <2>2. ASSUME NEW i \in Nat, i \in E PROVE i + 1 \in E
    <3> SUFFICES ASSUME i + 1 <= m, i + 1 <= n PROVE g[i + 1] = h[i + 1]
      OBVIOUS
    <3>1. g[i] = h[i] /\ i + 1 \in 1 .. m /\ i + 1 \in 1 .. n /\ (i + 1) - 1 = i
      BY <2>2
    <3> QED BY <1>2, <3>1
  <2>3. Nat \subseteq E
    <3> HIDE DEF E
    <3> QED BY <2>1, <2>2, SetInduction
  <2> QED BY <2>3
<1>3. \A n \in Nat : Good(G(n), n)
  BY <1>1, Zenon
<1> HIDE DEF G
<1>4. ASSUME NEW n \in Nat PROVE f[n] = IF n = 0 THEN 1 ELSE 10 * f[n - 1]
  <2>1. CASE n = 0
    BY <1>3, <2>1
  <2>2. CASE n # 0
    <3>1. n - 1 \in Nat /\ n - 1 <= n /\ n \in 1 .. n /\ n - 1 <= n - 1
      BY <2>2
    <3>2. G(n)[n] = 10 * G(n)[n - 1]
      BY <1>3, <3>1
    <3>3. G(n)[n - 1] = G(n - 1)[n - 1]
      <4> DEFINE k == n - 1
                 g == G(n)
                 h == G(k)
      <4>1. k \in Nat /\ k <= n /\ k <= k
        BY <3>1
      <4>2. Good(g, n) /\ Good(h, k)
        BY <1>3, <4>1
      <4> HIDE DEF Good, k, g, h
      <4>3. \A i \in Nat : i <= n /\ i <= k => g[i] = h[i]
        BY <1>2, <4>1, <4>2
      <4>4. g[k] = h[k]
        BY <4>1, <4>3
      <4> QED BY <4>4 DEF g, h, k
    <3> QED BY <2>2, <3>1, <3>2, <3>3
  <2> QED BY <2>1, <2>2
<1>5. f = [n \in Nat |-> f[n]]
  OBVIOUS
<1> HIDE DEF f
<1>6. f = [n \in Nat |-> IF n = 0 THEN 1 ELSE 10 * f[n - 1]]
  BY <1>4, <1>5, Zenon
<1> QED BY <1>6

\* PowerOf10 is the function its recursive definition describes.
LEMMA Powers ==
  /\ PowerOf10[0] = 1
  /\ \A n \in Nat : PowerOf10[n] \in Nat \ {0} /\ PowerOf10[n + 1] = 10 * PowerOf10[n]
<1>1. PowerOf10 = [n \in Nat |-> IF n = 0 THEN 1 ELSE 10 * PowerOf10[n - 1]]
  BY PowersExist DEF PowerOf10
<1> DEFINE P == PowerOf10
<1> HIDE DEF P
<1>2. P[0] = 1 /\ \A n \in Nat : P[n + 1] = 10 * P[n]
  BY <1>1 DEF P
<1> DEFINE S == {n \in Nat : P[n] \in Nat \ {0}}
<1>3. 0 \in S /\ \A n \in Nat : n \in S => n + 1 \in S
  BY <1>2
<1>4. Nat \subseteq S
  <2> HIDE DEF S
  <2> QED BY <1>3, SetInduction
<1> QED BY <1>2, <1>4 DEF P

\* A larger exponent gives a larger power.
LEMMA PowersGrow ==
  ASSUME NEW m \in Nat, NEW n \in Nat, m <= n
  PROVE  PowerOf10[m] <= PowerOf10[n]
<1> DEFINE S == {k \in Nat : PowerOf10[m] <= PowerOf10[m + k]}
<1>1. 0 \in S
  BY Powers
<1>2. ASSUME NEW k \in Nat, k \in S PROVE k + 1 \in S
  <2>1. m + k \in Nat /\ m + (k + 1) = (m + k) + 1
    OBVIOUS
  <2>2. PowerOf10[m + (k + 1)] = 10 * PowerOf10[m + k] /\ PowerOf10[m + k] \in Nat /\ PowerOf10[m] \in Nat
    BY <2>1, Powers
  <2> QED BY <1>2, <2>2
<1>3. Nat \subseteq S
  <2> HIDE DEF S
  <2> QED BY <1>1, <1>2, SetInduction
<1>4. n - m \in Nat /\ m + (n - m) = n
  OBVIOUS
<1> QED BY <1>3, <1>4

-----------------------------------------------------------------------------
(* mulPow10 *)

\* The uint64 values and the bound the loop of mulPow10 tests against.
LEMMA Widths ==
  /\ MaxUint \in Nat /\ MinInt \in Int /\ MaxInt <= MaxUint /\ MaxUint \div 10 \in Nat
  /\ \A n \in Nat : n > MaxUint \div 10 <=> 10 * n > MaxUint
BY AmountsAssumption DEF MaxUint, MinInt

\* Only powers up to MaxPower fit a uint64.
LEMMA PowersFit ==
  ASSUME NEW n \in Nat
  PROVE  PowerOf10[n] <= MaxUint <=> n <= MaxPower
<1>1. MaxPower \in Nat /\ PowerOf10[MaxPower] <= MaxUint /\ PowerOf10[MaxPower + 1] > MaxUint
  BY PowersAssumption
<1>2. MaxUint \in Nat /\ \A k \in Nat : PowerOf10[k] \in Nat
  BY Widths, Powers
<1>3. CASE n <= MaxPower
  BY <1>1, <1>2, <1>3, PowersGrow
<1>4. CASE n >= MaxPower + 1
  <2>1. PowerOf10[MaxPower + 1] <= PowerOf10[n]
    BY <1>1, <1>4, PowersGrow
  <2> QED BY <1>1, <1>2, <1>4, <2>1
<1> QED BY <1>1, <1>3, <1>4

\* What is left after a multiplication by ten is at least what was there.
LEMMA TimesTen ==
  ASSUME NEW b \in Nat, NEW p \in Nat
  PROVE  b * p \in Nat /\ b * (10 * p) = 10 * (b * p) /\ b * (10 * p) \in Nat
OBVIOUS

\* A factor that is not zero makes a product no smaller.
LEMMA AtLeastFactor ==
  ASSUME NEW b \in Nat \ {0}, NEW p \in Nat
  PROVE  p <= b * p
<1>1. PICK c \in Nat : b = c + 1
  <2>1. b - 1 \in Nat /\ b = (b - 1) + 1
    OBVIOUS
  <2> QED BY <2>1
<1>2. b * p = c * p + p /\ c * p \in Nat
  BY <1>1
<1> QED BY <1>2

\* mulPow10 returns exactly base * 10^power, or an error when that exceeds a
\* uint64: its tests before each multiplication refuse neither too much nor
\* too little.
LEMMA MulPow10Exact ==
  ASSUME NEW base \in 1 .. MaxUint, NEW power \in Nat
  PROVE  mulPow10(base, power) = IF base * PowerOf10[power] <= MaxUint THEN Ok(base * PowerOf10[power]) ELSE Failed
<1> DEFINE Iter(f) == [i \in 0 .. MaxPower |->
                          IF i = 0 THEN base
                          ELSE IF f[i - 1] = -1 \/ f[i - 1] > MaxUint \div 10 THEN -1
                          ELSE f[i - 1] * 10]
           Result == CHOOSE Result : Result = Iter(Result)
           Product(i) == base * PowerOf10[i]
           Value(i) == IF Product(i) <= MaxUint THEN Product(i) ELSE -1
           exact == [i \in 0 .. MaxPower |-> Value(i)]
<1>1. MaxPower \in Nat /\ MaxUint \in Nat /\ base \in Nat \ {0} /\ base <= MaxUint
  BY PowersAssumption, Widths
<1>2. \A i \in Nat : Product(i) \in Nat /\ Product(i + 1) = 10 * Product(i)
  <2> TAKE i \in Nat
  <2>1. PowerOf10[i] \in Nat /\ PowerOf10[i + 1] = 10 * PowerOf10[i]
    BY Powers
  <2> QED BY <1>1, <2>1, TimesTen
<1>3. Product(0) = base
  BY <1>1, Powers
<1> HIDE DEF Product
<1>4. Value(0) = base
  BY <1>1, <1>3
<1>5. ASSUME NEW i \in Nat
      PROVE  Value(i + 1) = IF Value(i) = -1 \/ Value(i) > MaxUint \div 10 THEN -1 ELSE Value(i) * 10
  <2>1. Product(i) \in Nat /\ Product(i + 1) = 10 * Product(i) /\ MaxUint \in Nat /\ MaxUint \div 10 \in Nat
    BY <1>2, Widths
  <2>2. Product(i) > MaxUint \div 10 <=> 10 * Product(i) > MaxUint
    BY <2>1, Widths
  <2> QED BY <2>1, <2>2
<1> HIDE DEF Value
<1>6. exact = Iter(exact)
  <2>1. ASSUME NEW i \in 0 .. MaxPower
        PROVE  exact[i] = IF i = 0 THEN base
                          ELSE IF exact[i - 1] = -1 \/ exact[i - 1] > MaxUint \div 10 THEN -1
                          ELSE exact[i - 1] * 10
    <3>1. CASE i = 0
      BY <1>1, <1>4, <3>1
    <3>2. CASE i # 0
      <4>1. i - 1 \in Nat /\ i - 1 \in 0 .. MaxPower /\ (i - 1) + 1 = i
        BY <1>1, <3>2
      <4>2. Value(i) = IF Value(i - 1) = -1 \/ Value(i - 1) > MaxUint \div 10 THEN -1 ELSE Value(i - 1) * 10
        BY <1>5, <4>1
      <4> QED BY <3>2, <4>1, <4>2
    <3> QED BY <3>1, <3>2
  <2>2. exact = [i \in 0 .. MaxPower |-> exact[i]]
    OBVIOUS
  <2> HIDE DEF exact
  <2> QED BY <2>1, <2>2, Zenon
<1>7. Result = Iter(Result)
  <2> HIDE DEF Iter, exact
  <2> QED BY <1>6
<1>8. mulPow10(base, power) = IF power > MaxPower \/ Result[power] = -1 THEN Failed ELSE Ok(Result[power])
  BY <1>1 DEF mulPow10
<1> HIDE DEF Result
<1>9. ASSUME NEW i \in Nat, i <= MaxPower PROVE Result[i] = Value(i)
  <2> DEFINE S == {k \in Nat : k <= MaxPower => Result[k] = Value(k)}
  <2>1. 0 \in S
    BY <1>1, <1>4, <1>7
  <2>2. ASSUME NEW k \in Nat, k \in S PROVE k + 1 \in S
    <3> SUFFICES ASSUME k + 1 <= MaxPower PROVE Result[k + 1] = Value(k + 1)
      OBVIOUS
    <3>1. k + 1 \in 0 .. MaxPower /\ k + 1 # 0 /\ (k + 1) - 1 = k /\ Result[k] = Value(k)
      BY <1>1, <2>2
    <3>2. Result[k + 1] = IF Result[k] = -1 \/ Result[k] > MaxUint \div 10 THEN -1 ELSE Result[k] * 10
      BY <1>7, <3>1, Zenon
    <3> QED BY <1>5, <3>1, <3>2
  <2>3. Nat \subseteq S
    <3> HIDE DEF S
    <3> QED BY <2>1, <2>2, SetInduction
  <2> QED BY <1>9, <2>3
<1>10. CASE power <= MaxPower
  <2>1. Result[power] = Value(power) /\ Product(power) \in Nat
    BY <1>2, <1>9, <1>10
  <2>2. mulPow10(base, power) = IF Value(power) = -1 THEN Failed ELSE Ok(Value(power))
    BY <1>1, <1>8, <1>10, <2>1
  <2>3. mulPow10(base, power) = IF Product(power) <= MaxUint THEN Ok(Product(power)) ELSE Failed
    BY <1>1, <2>1, <2>2 DEF Value
  <2> QED BY <2>3 DEF Product
<1>11. CASE power > MaxPower
  <2>1. mulPow10(base, power) = Failed
    BY <1>8, <1>11
  <2>2. PowerOf10[power] > MaxUint /\ PowerOf10[power] \in Nat
    BY <1>1, <1>11, PowersFit, Powers
  <2>3. PowerOf10[power] <= Product(power)
    BY <1>1, <2>2, AtLeastFactor DEF Product
  <2>4. ~(Product(power) <= MaxUint)
    BY <1>1, <1>2, <2>2, <2>3
  <2> QED BY <2>1, <2>4 DEF Product
<1> QED BY <1>1, <1>10, <1>11

-----------------------------------------------------------------------------
(* ParseAmount and FormatAmount *)

\* n is magnitude * 10^power.
Scales(magnitude, power, n) ==
  IF power >= 0 THEN n = magnitude * PowerOf10[power] ELSE n * PowerOf10[-power] = magnitude

\* A division without a remainder is undone by the multiplication.
LEMMA DivideExactly ==
  ASSUME NEW m \in Nat, NEW d \in Nat \ {0}, m % d = 0
  PROVE  m \div d \in Nat /\ (m \div d) * d = m
<1>1. m \div d \in Nat
  OBVIOUS
<1>2. m % d = m - d * (m \div d)
  BY Z3
<1> QED BY <1>1, <1>2

\* A multiplication is undone by the division, without a remainder.
LEMMA DivideBack ==
  ASSUME NEW m \in Nat, NEW d \in Nat \ {0}, NEW n \in Nat, n * d = m
  PROVE  m % d = 0 /\ m \div d = n
<1>1. m = n * d + 0
  OBVIOUS
<1>2. m % d = 0
  BY <1>1, SMT
<1>3. m \div d = n
  BY <1>1, SMT
<1> QED BY <1>2, <1>3

\* A magnitude is rescaled exactly or not at all.
LEMMA RescaledSound ==
  ASSUME NEW magnitude \in 0 .. MaxUint, NEW power \in Int, ~Rescaled(magnitude, power).err
  PROVE  Rescaled(magnitude, power).value \in Nat /\ Scales(magnitude, power, Rescaled(magnitude, power).value)
<1> DEFINE divisor == mulPow10(1, -power)
           result == Rescaled(magnitude, power)
<1>1. MaxUint \in Nat /\ magnitude \in Nat /\ \A n \in Nat : PowerOf10[n] \in Nat \ {0}
  BY Widths, Powers
<1>2. CASE power >= 0 /\ magnitude = 0
  <2>1. result = Ok(0)
    BY <1>2, Zenon DEF Rescaled, mulPow10
  <2> QED BY <1>1, <1>2, <2>1 DEF Scales, Ok
<1>3. CASE power >= 0 /\ magnitude # 0
  <2>1. result = mulPow10(magnitude, power) /\ power \in Nat /\ magnitude \in 1 .. MaxUint
    BY <1>1, <1>3 DEF Rescaled
  <2>2. ~result.err
    OBVIOUS
  <2> HIDE DEF result
  <2>3. result = Ok(magnitude * PowerOf10[power])
    BY <2>1, <2>2, MulPow10Exact DEF Failed
  <2>4. result.value = magnitude * PowerOf10[power] /\ magnitude * PowerOf10[power] \in Nat
    BY <1>1, <2>1, <2>3 DEF Ok
  <2> QED BY <1>3, <2>4 DEF Scales, result
<1>4. CASE power < 0
  <2>1. -power \in Nat /\ 1 \in 1 .. MaxUint
    BY <1>4, AmountsAssumption DEF MaxUint
  <2>2. PowerOf10[-power] \in Nat \ {0} /\ 1 * PowerOf10[-power] = PowerOf10[-power]
    BY <1>1, <2>1
  <2>3. divisor = IF PowerOf10[-power] <= MaxUint THEN Ok(PowerOf10[-power]) ELSE Failed
    BY <2>1, <2>2, MulPow10Exact
  <2>4. result = IF divisor.err \/ magnitude % divisor.value # 0 THEN Failed ELSE Ok(magnitude \div divisor.value)
    BY <1>4 DEF Rescaled
  <2>5. ~result.err
    OBVIOUS
  <2> HIDE DEF result, divisor
  <2>6. divisor.value = PowerOf10[-power] /\ magnitude % PowerOf10[-power] = 0
        /\ result.value = magnitude \div PowerOf10[-power]
    BY <2>3, <2>4, <2>5 DEF Failed, Ok
  <2>7. result.value \in Nat /\ result.value * PowerOf10[-power] = magnitude
    <3> DEFINE d == PowerOf10[-power]
    <3>1. d \in Nat \ {0} /\ magnitude % d = 0 /\ result.value = magnitude \div d
      BY <2>2, <2>6
    <3> HIDE DEF d
    <3>2. result.value \in Nat /\ result.value * d = magnitude
      BY <1>1, <3>1, DivideExactly
    <3> QED BY <3>2 DEF d
  <2>8. ~(power >= 0)
    BY <1>4
  <2> QED BY <2>7, <2>8 DEF Scales, result
<1> QED BY <1>2, <1>3, <1>4

\* Whatever fits a uint64 is rescaled.
LEMMA RescaledComplete ==
  ASSUME NEW magnitude \in 0 .. MaxUint, NEW power \in Int, NEW n \in 1 .. MaxUint, Scales(magnitude, power, n)
  PROVE  Rescaled(magnitude, power) = Ok(n)
<1>1. MaxUint \in Nat /\ magnitude \in Nat /\ n \in Nat \ {0} /\ n <= MaxUint /\ \A k \in Nat : PowerOf10[k] \in Nat \ {0}
  BY Widths, Powers
<1>2. CASE power >= 0
  <2>1. power \in Nat /\ n = magnitude * PowerOf10[power]
    BY <1>2 DEF Scales
  <2>2. magnitude # 0
    <3>1. 0 * PowerOf10[power] = 0
      BY <1>1, <2>1
    <3> QED BY <1>1, <2>1, <3>1
  <2>3. mulPow10(magnitude, power) = Ok(n)
    BY <1>1, <2>1, <2>2, MulPow10Exact
  <2> QED BY <1>2, <2>3 DEF Rescaled
<1>3. CASE power < 0
  <2> DEFINE divisor == mulPow10(1, -power)
             d == PowerOf10[-power]
  <2>1. ~(power >= 0) /\ -power \in Nat /\ 1 \in 1 .. MaxUint
    BY <1>3, AmountsAssumption DEF MaxUint
  <2>2. d \in Nat \ {0} /\ 1 * d = d /\ n * d = magnitude
    BY <1>1, <2>1 DEF Scales
  <2>3. d <= MaxUint
    <3> HIDE DEF d
    <3>1. d <= magnitude
      BY <1>1, <2>2, AtLeastFactor
    <3> QED BY <1>1, <2>2, <3>1
  <2>4. divisor = Ok(d)
    BY <2>1, <2>2, <2>3, MulPow10Exact
  <2>5. Rescaled(magnitude, power)
          = IF divisor.err \/ magnitude % divisor.value # 0 THEN Failed ELSE Ok(magnitude \div divisor.value)
    BY <2>1 DEF Rescaled
  <2> HIDE DEF d, divisor
  <2>6. magnitude % d = 0 /\ magnitude \div d = n
    BY <1>1, <2>2, DivideBack, Zenon
  <2> QED BY <2>4, <2>5, <2>6, Zenon DEF Ok
<1> QED BY <1>2, <1>3

\* What ParseAmount returns is the number the text spells.
LEMMA ParseSound ==
  ASSUME NEW text \in Texts, ~ParseAmount(text).err
  PROVE  /\ text \in Decimals /\ ParseAmount(text).value \in Int
         /\ Denotes(text, ParseAmount(text).value)
         /\ text.digits <= MaxUint /\ Abs(text.exponent) <= MaxExponent
<1> DEFINE power == text.exponent - text.places + AmountFractionDigits
           scaled == Rescaled(text.digits, power)
<1>1. text # Malformed
  BY DEF ParseAmount, Failed
<1>2. text \in Decimals
  BY <1>1 DEF Texts
<1>3. /\ text.digits \in Nat /\ text.exponent \in Int /\ text.places \in Nat /\ text.negative \in BOOLEAN
  BY <1>2 DEF Decimals
<1>4. /\ ~(Abs(text.exponent) > MaxExponent) /\ ~(text.digits > MaxUint) /\ ~scaled.err
      /\ ParseAmount(text) = Ok(IF text.negative THEN -scaled.value ELSE scaled.value)
  BY <1>1 DEF ParseAmount, Failed
<1>5. power \in Int /\ text.digits \in 0 .. MaxUint /\ Abs(text.exponent) <= MaxExponent
  BY <1>3, <1>4, PowersAssumption, Widths DEF Abs
<1>6. scaled.value \in Nat /\ Scales(text.digits, power, scaled.value)
  BY <1>4, <1>5, RescaledSound
<1>7. ParseAmount(text).value = IF text.negative THEN -scaled.value ELSE scaled.value
  BY <1>4 DEF Ok
<1> HIDE DEF scaled
<1>8. ASSUME NEW p \in Nat PROVE (-text.digits) * p = -(text.digits * p) /\ (-scaled.value) * p = -(scaled.value * p)
  BY <1>3, <1>6
<1>9. power >= 0 => PowerOf10[power] \in Nat
  BY <1>5, Powers
<1>10. ~(power >= 0) => PowerOf10[-power] \in Nat
  BY <1>5, Powers
<1> HIDE DEF power
<1>11. Denotes(text, ParseAmount(text).value)
  <2>1. CASE power >= 0
    <3>1. scaled.value = text.digits * PowerOf10[power]
      BY <1>6, <2>1 DEF Scales
    <3> QED BY <1>1, <1>3, <1>7, <1>8, <1>9, <2>1, <3>1 DEF Denotes, power
  <2>2. CASE ~(power >= 0)
    <3>1. scaled.value * PowerOf10[-power] = text.digits
      BY <1>6, <2>2 DEF Scales
    <3> QED BY <1>1, <1>3, <1>7, <1>8, <1>10, <2>2, <3>1 DEF Denotes, power
  <2> QED BY <2>1, <2>2
<1> QED BY <1>2, <1>4, <1>5, <1>6, <1>7, <1>11

\* Every amount the ledger can hold is parsed, however it is written.
LEMMA ParseComplete ==
  ASSUME NEW text \in Texts, NEW n \in 1 .. MaxAmount, Denotes(text, n),
         text.digits <= MaxUint, Abs(text.exponent) <= MaxExponent
  PROVE  ParseAmount(text) = Ok(n)
<1> DEFINE power == text.exponent - text.places + AmountFractionDigits
           scaled == Rescaled(text.digits, power)
<1>1. text # Malformed /\ text \in Decimals
  BY DEF Denotes, Texts
<1>2. /\ text.digits \in Nat /\ text.exponent \in Int /\ text.places \in Nat /\ text.negative \in BOOLEAN
  BY <1>1 DEF Decimals
<1>3. /\ power \in Int /\ n \in 1 .. MaxUint /\ n \in Nat \ {0} /\ n <= MaxInt
      /\ text.digits \in 0 .. MaxUint
      /\ ~(text.digits > MaxUint) /\ ~(Abs(text.exponent) > MaxExponent)
  BY <1>2, PowersAssumption, AmountsAssumption, Widths DEF Abs
<1>4. /\ power >= 0 => PowerOf10[power] \in Nat
      /\ ~(power >= 0) => PowerOf10[-power] \in Nat
  BY <1>3, Powers
<1>5. /\ power >= 0 => n = (IF text.negative THEN -text.digits ELSE text.digits) * PowerOf10[power]
      /\ ~(power >= 0) => n * PowerOf10[-power] = IF text.negative THEN -text.digits ELSE text.digits
  BY DEF Denotes
<1> HIDE DEF power
<1>6. ~text.negative \/ text.digits = 0
  <2> SUFFICES ASSUME text.negative, text.digits # 0 PROVE FALSE
    OBVIOUS
  <2>1. CASE power >= 0
    <3>1. n = -(text.digits * PowerOf10[power]) /\ text.digits * PowerOf10[power] \in Nat
      BY <1>2, <1>4, <1>5, <2>1
    <3> QED BY <1>3, <3>1
  <2>2. CASE ~(power >= 0)
    <3>1. n * PowerOf10[-power] = -text.digits /\ n * PowerOf10[-power] \in Nat
      BY <1>3, <1>4, <1>5, <2>2
    <3> QED BY <1>2, <3>1
  <2> QED BY <2>1, <2>2
<1>7. (IF text.negative THEN -text.digits ELSE text.digits) = text.digits
  BY <1>2, <1>6
<1>8. Scales(text.digits, power, n)
  BY <1>5, <1>7, Zenon DEF Scales
<1>9. scaled = Ok(n)
  BY <1>3, <1>8, RescaledComplete
<1>10. ~text.negative
  <2> SUFFICES ASSUME text.digits = 0 PROVE FALSE
    BY <1>6
  <2>1. CASE power >= 0
    BY <1>3, <1>4, <1>5, <1>7, <2>1
  <2>2. CASE ~(power >= 0)
    <3>1. PowerOf10[-power] \in Nat \ {0}
      BY <1>3, <2>2, Powers
    <3>2. PowerOf10[-power] <= n * PowerOf10[-power]
      BY <1>3, <3>1, AtLeastFactor
    <3> QED BY <1>5, <1>7, <2>2, <3>1, <3>2
  <2> QED BY <2>1, <2>2
<1>11. ParseAmount(text) = IF \/ Abs(text.exponent) > MaxExponent \/ text.digits > MaxUint
                              \/ scaled.err \/ scaled.value > MaxInt
                           THEN Failed
                           ELSE Ok(IF text.negative THEN -scaled.value ELSE scaled.value)
  BY <1>1 DEF ParseAmount, power
<1>12. ~(n > MaxInt)
  BY <1>3, AmountsAssumption
<1> HIDE DEF scaled
<1> QED BY <1>3, <1>9, <1>10, <1>11, <1>12 DEF Ok

\* The handlers' bounds accept a text exactly when it is Acceptable.
LEMMA ParseExact ==
  ASSUME NEW text \in Texts
  PROVE  InBounds(ParseAmount(text)) <=> Acceptable(text)
<1>1. ASSUME InBounds(ParseAmount(text)) PROVE Acceptable(text)
  <2> DEFINE n == ParseAmount(text).value
  <2>1. ~ParseAmount(text).err /\ n > 0 /\ n <= MaxAmount
    BY <1>1 DEF InBounds
  <2>2. n \in Int /\ Denotes(text, n) /\ text.digits <= MaxUint /\ Abs(text.exponent) <= MaxExponent
    BY <2>1, ParseSound
  <2> HIDE DEF n
  <2>3. n \in 1 .. MaxAmount
    BY <2>1, <2>2, AmountsAssumption
  <2> QED BY <2>2, <2>3 DEF Acceptable
<1>2. ASSUME Acceptable(text) PROVE InBounds(ParseAmount(text))
  <2>1. PICK n \in 1 .. MaxAmount : Denotes(text, n)
    BY <1>2 DEF Acceptable
  <2>2. ParseAmount(text) = Ok(n)
    BY <1>2, <2>1, ParseComplete DEF Acceptable
  <2> QED BY <2>2, AmountsAssumption DEF InBounds, Ok
<1> QED BY <1>1, <1>2

\* An int64 with all its places written out denotes itself.
LEMMA PlainText ==
  ASSUME NEW n \in Nat, n <= MaxUint
  PROVE  LET text == Text(FALSE, n, AmountFractionDigits, 0)
         IN  /\ text \in Decimals /\ Denotes(text, n)
             /\ text.digits <= MaxUint /\ Abs(text.exponent) <= MaxExponent
<1> DEFINE text == Text(FALSE, n, AmountFractionDigits, 0)
<1>1. text \in Decimals
  BY PowersAssumption DEF Text, Decimals
<1>2. text # Malformed
  BY <1>1, MalformedAssumption, Zenon
<1>3. /\ text.digits = n /\ text.exponent = 0 /\ text.places = AmountFractionDigits /\ text.negative = FALSE
  BY DEF Text
<1> HIDE DEF text
<1>4. text.exponent - text.places + AmountFractionDigits = 0
  BY <1>3, PowersAssumption
<1>5. n = n * PowerOf10[0]
  BY Powers
<1>6. Denotes(text, n)
  BY <1>2, <1>3, <1>4, <1>5 DEF Denotes
<1>7. Abs(text.exponent) <= MaxExponent
  BY <1>3, PowersAssumption DEF Abs
<1> QED BY <1>1, <1>3, <1>6, <1>7, Zenon DEF text

\* A published amount is parsed back as it was.
LEMMA RoundTrip ==
  ASSUME NEW n \in 1 .. MaxAmount
  PROVE  ParseAmount(FormatAmount(n)) = Ok(n)
<1>1. n \in Nat /\ n <= MaxUint /\ ~(n < 0)
  BY AmountsAssumption, Widths
<1>2. FormatAmount(n) = Text(FALSE, n, AmountFractionDigits, 0)
  <2>1. (n < 0) = FALSE /\ (IF n < 0 THEN Wrap(-(n + 1)) + 1 ELSE n) = n
    BY <1>1
  <2> QED BY <2>1, Zenon DEF FormatAmount
<1> QED BY <1>1, <1>2, PlainText, ParseComplete, Zenon DEF Texts

\* The bounds on a gRPC amount are those on its text.
LEMMA CallExact ==
  ASSUME NEW n \in Ints
  PROVE  /\ AsText(n) \in Texts
         /\ InBounds(Ok(n)) <=> Acceptable(AsText(n))
         /\ n > 0 => Denotes(AsText(n), n)
<1>1. n \in Int /\ n <= MaxInt /\ -n <= MaxInt + 1 /\ MaxInt \in Nat /\ MaxUint = 2 * MaxInt + 1
  BY AmountsAssumption DEF Ints, MinInt, MaxUint
<1>2. AsText(n) \in Decimals
  <2>1. Abs(n) \in Nat /\ 0 \in Int /\ AmountFractionDigits \in Nat /\ (n < 0) \in BOOLEAN
    BY <1>1, PowersAssumption DEF Abs
  <2> QED BY <2>1, Zenon DEF AsText, Text, Decimals
<1>3. CASE n > 0
  <2>1. AsText(n) = Text(FALSE, n, AmountFractionDigits, 0) /\ n \in Nat /\ n <= MaxUint
    <3>1. (n < 0) = FALSE /\ Abs(n) = n /\ n \in Nat /\ n <= MaxUint
      BY <1>1, <1>3 DEF Abs
    <3> QED BY <3>1, Zenon DEF AsText
  <2>2. Denotes(AsText(n), n) /\ AsText(n).digits <= MaxUint /\ Abs(AsText(n).exponent) <= MaxExponent
    BY <2>1, PlainText, Zenon
  <2>3. ASSUME Acceptable(AsText(n)) PROVE n \in 1 .. MaxAmount
    <3>1. PICK m \in 1 .. MaxAmount : Denotes(AsText(n), m)
      BY <2>3 DEF Acceptable
    <3>2. /\ AsText(n).digits = n /\ AsText(n).negative = FALSE
          /\ AsText(n).exponent - AsText(n).places + AmountFractionDigits = 0
      BY <2>1, PowersAssumption DEF Text
    <3>3. m = n * PowerOf10[0]
      BY <3>1, <3>2 DEF Denotes
    <3>4. m = n
      BY <2>1, <3>3, Powers
    <3> QED BY <3>1, <3>4
  <2>4. ASSUME n \in 1 .. MaxAmount PROVE Acceptable(AsText(n))
    BY <2>2, <2>4 DEF Acceptable
  <2>5. InBounds(Ok(n)) <=> n \in 1 .. MaxAmount
    BY <1>1, <1>3, AmountsAssumption DEF InBounds, Ok
  <2> QED BY <1>2, <2>2, <2>3, <2>4, <2>5 DEF Texts
<1>4. CASE ~(n > 0)
  <2>1. ~InBounds(Ok(n))
    BY <1>4 DEF InBounds, Ok
  <2>2. ASSUME NEW m \in 1 .. MaxAmount, Denotes(AsText(n), m) PROVE FALSE
    <3>1. /\ AsText(n).digits = Abs(n) /\ AsText(n).negative = (n < 0)
          /\ AsText(n).exponent - AsText(n).places + AmountFractionDigits = 0
      BY PowersAssumption DEF AsText, Text
    <3>2. m = (IF n < 0 THEN -Abs(n) ELSE Abs(n)) * PowerOf10[0]
      <4>1. m = (IF AsText(n).negative THEN -AsText(n).digits ELSE AsText(n).digits) * PowerOf10[0]
        BY <2>2, <3>1 DEF Denotes
      <4> QED BY <3>1, <4>1, Zenon
    <3>3. m = n
      BY <1>1, <3>2, Powers DEF Abs
    <3> QED BY <1>4, <2>2, <3>3, AmountsAssumption
  <2> QED BY <1>2, <1>4, <2>1, <2>2 DEF Texts, Acceptable
<1> QED BY <1>3, <1>4

-----------------------------------------------------------------------------
(* int64 arithmetic *)

\* Amounts of either sign are int64 values.
LEMMA IntsFacts == /\ Ints \subseteq Int /\ 0 \in Ints
                   /\ \A n \in 1 .. MaxAmount : n \in Ints /\ -n \in Ints
BY AmountsAssumption DEF Ints, MinInt

\* A result that fits an int64 is kept.
LEMMA WrapExact == ASSUME NEW n \in Ints PROVE Wrap(n) = n
BY AmountsAssumption DEF Wrap, Ints, MinInt, MaxUint

\* A result that does not fit becomes another int64 value.
LEMMA WrapType == ASSUME NEW n \in Int PROVE Wrap(n) \in Ints
BY AmountsAssumption DEF Wrap, Ints, MinInt, MaxUint

\* Truncation moves a quotient by less than one divisor, and toward zero.
LEMMA QuoExact ==
  ASSUME NEW n \in Int, NEW d \in Int, d # 0
  PROVE  /\ Quo(n, d) \in Int
         /\ Abs(n - d * Quo(n, d)) < Abs(d)
<1> DEFINE a == Abs(n)
           b == Abs(d)
           q == a \div b
<1>1. a \in Nat /\ b \in Nat \ {0}
  BY DEF Abs
<1>2. Quo(n, d) = IF (n >= 0) = (d > 0) THEN q ELSE -q
  BY DEF Quo
<1>3. (n >= 0 => a = n) /\ (n < 0 => a = -n) /\ (d > 0 => b = d) /\ (d < 0 => b = -d)
  BY DEF Abs
<1> HIDE DEF a, b
<1>4. q \in Nat /\ b * q <= a /\ a < b * q + b
  BY <1>1
<1> HIDE DEF q
<1>5. CASE n >= 0 /\ d > 0
  <2>1. Quo(n, d) = q /\ n - d * Quo(n, d) = a - b * q
    BY <1>2, <1>3, <1>5
  <2> QED BY <1>1, <1>3, <1>4, <1>5, <2>1 DEF Abs
<1>6. CASE n >= 0 /\ d < 0
  <2>1. Quo(n, d) = -q
    BY <1>2, <1>4, <1>6
  <2>2. d * (-q) = b * q
    BY <1>1, <1>3, <1>4, <1>6
  <2> QED BY <1>1, <1>3, <1>4, <1>6, <2>1, <2>2 DEF Abs
<1>7. CASE n < 0 /\ d > 0
  <2>1. Quo(n, d) = -q
    BY <1>2, <1>4, <1>7
  <2>2. d * (-q) = -(b * q)
    BY <1>1, <1>3, <1>4, <1>7
  <2> QED BY <1>1, <1>3, <1>4, <1>7, <2>1, <2>2 DEF Abs
<1>8. CASE n < 0 /\ d < 0
  <2>1. Quo(n, d) = q
    BY <1>2, <1>4, <1>8
  <2>2. d * q = -(b * q)
    BY <1>1, <1>3, <1>4, <1>8
  <2> QED BY <1>1, <1>3, <1>4, <1>8, <2>1, <2>2 DEF Abs
<1> QED BY <1>5, <1>6, <1>7, <1>8

\* MulAmount returns an int64 value, and one without an error is the product
\* but for what the division by the scale cuts.
LEMMA MulType ==
  ASSUME NEW a \in Int, NEW b \in Int
  PROVE  /\ MulAmount(a, b).value \in Ints
         /\ ~MulAmount(a, b).err => Abs(a * b - AmountScale * MulAmount(a, b).value) < AmountScale
<1> DEFINE n == a * b
           q == Quo(n, AmountScale)
<1>1. n \in Int /\ AmountScale \in Int /\ AmountScale # 0 /\ Abs(AmountScale) = AmountScale
  BY AmountsAssumption DEF Abs
<1>2. MulAmount(a, b) = IF q \in Ints THEN [err |-> FALSE, value |-> q] ELSE [err |-> TRUE, value |-> 0]
  BY DEF MulAmount, AsInt, Ok, Failed
<1> HIDE DEF n
<1>3. Abs(n - AmountScale * q) < AmountScale
  BY <1>1, QuoExact
<1> HIDE DEF q
<1>4. MulAmount(a, b).value \in Ints
  BY <1>2, IntsFacts
<1>5. ~MulAmount(a, b).err => MulAmount(a, b).value = q
  BY <1>2
<1> QED BY <1>3, <1>4, <1>5 DEF n

\* DivAmount returns an int64 value, and one without an error is the quotient
\* but for what the division cuts.
LEMMA DivType ==
  ASSUME NEW a \in Int, NEW b \in Int
  PROVE  /\ DivAmount(a, b).value \in Ints
         /\ ~DivAmount(a, b).err => b # 0 /\ Abs(a * AmountScale - b * DivAmount(a, b).value) < Abs(b)
<1>1. CASE b = 0
  BY <1>1, IntsFacts DEF DivAmount, Failed
<1>2. CASE b # 0
  <2> DEFINE n == a * AmountScale
             q == Quo(n, b)
  <2>1. n \in Int
    BY AmountsAssumption
  <2>2. DivAmount(a, b) = IF q \in Ints THEN [err |-> FALSE, value |-> q] ELSE [err |-> TRUE, value |-> 0]
    BY <1>2 DEF DivAmount, AsInt, Ok, Failed
  <2> HIDE DEF n
  <2>3. Abs(n - b * q) < Abs(b)
    BY <1>2, <2>1, QuoExact
  <2> HIDE DEF q
  <2>4. DivAmount(a, b).value \in Ints
    BY <2>2, IntsFacts
  <2>5. ~DivAmount(a, b).err => DivAmount(a, b).value = q
    BY <2>2
  <2> QED BY <1>2, <2>3, <2>4, <2>5 DEF n
<1> QED BY <1>1, <1>2

-----------------------------------------------------------------------------
(* applyTrade *)

Flat(state) == state.position = 0 => state.averageCost = 0

\* The account stays one of int64 values, and without a position it has no
\* cost, whether or not sums wrap.
LEMMA ExtendKeeps ==
  ASSUME NEW state \in Accounts, Flat(state), NEW signed \in Ints, NEW price \in Ints
  PROVE  LET result == ExtendResult(state, signed, price)
         IN  result.state \in Accounts /\ Flat(result.state)
<1> DEFINE existing == MulAmount(state.position, state.averageCost)
           added == MulAmount(signed, price)
           newPosition == Wrap(state.position + signed)
           total == Wrap(existing.value + added.value)
           average == DivAmount(total, newPosition)
           err == existing.err \/ added.err \/ average.err
           result == ExtendResult(state, signed, price)
<1>1. /\ state.position \in Ints /\ state.averageCost \in Ints /\ state.realizedPnL \in Ints
      /\ state.position \in Int /\ state.averageCost \in Int /\ state.realizedPnL \in Int
      /\ signed \in Int /\ price \in Int /\ Ints \subseteq Int
  BY IntsFacts, Zenon DEF Accounts
<1>2. result.state = IF err THEN state ELSE [state EXCEPT !.position = newPosition, !.averageCost = average.value]
  BY DEF ExtendResult
<1>3. existing.value \in Int /\ added.value \in Int
  BY <1>1, MulType, Zenon
<1> HIDE DEF existing, added, result
<1>4. newPosition \in Ints /\ total \in Ints
  <2>1. state.position + signed \in Int /\ existing.value + added.value \in Int
    BY <1>1, <1>3
  <2> QED BY <2>1, WrapType, Zenon
<1> HIDE DEF newPosition, total
<1>5. average.value \in Ints /\ (~average.err => newPosition # 0)
  BY <1>1, <1>4, DivType
<1> HIDE DEF average
<1>6. CASE err
  BY <1>2, <1>6 DEF result
<1>7. CASE ~err
  BY <1>1, <1>2, <1>4, <1>5, <1>7, Zenon DEF Accounts, Flat, result
<1> QED BY <1>6, <1>7

\* A trade against the position leaves int64 values, and no cost when it
\* closes the position: the sum is compared with zero after it has wrapped.
LEMMA OpposeKeeps ==
  ASSUME NEW state \in Accounts, Flat(state), NEW signed \in Ints, NEW price \in Ints
  PROVE  LET result == OpposeResult(state, signed, price)
         IN  result.state \in Accounts /\ Flat(result.state)
<1> DEFINE positionMagnitude == Wrap(Abs(state.position))
           quantityMagnitude == Wrap(Abs(signed))
           closing == IF positionMagnitude < quantityMagnitude THEN positionMagnitude ELSE quantityMagnitude
           perUnit == IF state.position > 0 THEN Wrap(price - state.averageCost) ELSE Wrap(state.averageCost - price)
           realized == MulAmount(closing, perUnit)
           flip == Wrap(quantityMagnitude - closing)
           newPosition == Wrap(state.position + signed)
           cost == IF newPosition = 0 THEN 0 ELSE IF flip > 0 THEN price ELSE state.averageCost
           pnl == Wrap(state.realizedPnL + realized.value)
           result == OpposeResult(state, signed, price)
<1>1. /\ state.position \in Ints /\ state.averageCost \in Ints /\ state.realizedPnL \in Ints
      /\ state.position \in Int /\ state.averageCost \in Int /\ state.realizedPnL \in Int
      /\ signed \in Int /\ price \in Int /\ Ints \subseteq Int /\ 0 \in Ints
  BY IntsFacts, Zenon DEF Accounts
<1>2. result.state = IF realized.err THEN state
                     ELSE [position |-> newPosition, averageCost |-> cost, realizedPnL |-> pnl]
  BY DEF OpposeResult
<1> HIDE DEF result
<1>3. positionMagnitude \in Int /\ quantityMagnitude \in Int
  <2>1. Abs(state.position) \in Int /\ Abs(signed) \in Int
    BY <1>1 DEF Abs
  <2>2. positionMagnitude \in Ints /\ quantityMagnitude \in Ints
    BY <2>1, WrapType, Zenon
  <2> QED BY <1>1, <2>2, Zenon
<1> HIDE DEF positionMagnitude, quantityMagnitude
<1>4. closing \in Int /\ perUnit \in Int
  <2>1. price - state.averageCost \in Int /\ state.averageCost - price \in Int
    BY <1>1
  <2>2. Wrap(price - state.averageCost) \in Ints /\ Wrap(state.averageCost - price) \in Ints
    BY <2>1, WrapType, Zenon
  <2> QED BY <1>1, <1>3, <2>2, Zenon
<1> HIDE DEF closing, perUnit
<1>5. realized.value \in Int
  BY <1>1, <1>4, MulType, Zenon
<1> HIDE DEF realized
<1>6. newPosition \in Ints /\ pnl \in Ints
  <2>1. state.position + signed \in Int /\ state.realizedPnL + realized.value \in Int
    BY <1>1, <1>5
  <2> QED BY <2>1, WrapType, Zenon
<1> HIDE DEF newPosition, pnl, flip
<1>7. cost \in Ints /\ (newPosition = 0 => cost = 0)
  BY <1>1
<1> HIDE DEF cost
<1>8. CASE realized.err
  BY <1>2, <1>8 DEF result
<1>9. CASE ~realized.err
  BY <1>2, <1>6, <1>7, <1>9 DEF Accounts, Flat, result
<1> QED BY <1>8, <1>9

\* applyTrade does, whatever the direction of the trade.
LEMMA ApplyKeeps ==
  ASSUME NEW state \in Accounts, Flat(state), NEW signed \in Ints, NEW price \in Ints
  PROVE  LET result == applyTrade(state, signed, price)
         IN  result.state \in Accounts /\ Flat(result.state)
BY ExtendKeeps, OpposeKeeps DEF applyTrade

\* What applyTrade makes of the books: the position moves by the trade, and
\* what is held at cost together with what is realized by the trade's money.
Balanced(state, signed, price, new) ==
  /\ new.position = state.position + signed
  /\ Abs(AmountScale * (new.realizedPnL - state.realizedPnL) + signed * price
           - (new.position * new.averageCost - state.position * state.averageCost))
       < 2 * AmountScale + Abs(new.position)

\* Three truncations: both costs and the average.
LEMMA ThreeTruncations ==
  ASSUME NEW k \in Nat \ {0}, NEW n \in Int, NEW x \in Int, NEW y \in Int, NEW z \in Int,
         NEW e \in Int, NEW a \in Int, NEW t \in Int, t = e + a,
         Abs(x - e) < k, Abs(y - a) < k, Abs(t - z) < Abs(n)
  PROVE  Abs(0 + y - (z - x)) < 2 * k + Abs(n)
BY DEF Abs

\* A trade in the position's direction: the new cost is the weighted average,
\* cut three times by a division.
LEMMA ExtendBalances ==
  ASSUME NEW state \in Accounts, NEW signed \in Ints, NEW price \in Ints,
         SumsFit(state, signed, price), SameDirection(state, signed),
         ~ExtendResult(state, signed, price).err
  PROVE  Balanced(state, signed, price, ExtendResult(state, signed, price).state)
<1> DEFINE K == AmountScale
           existing == MulAmount(state.position, state.averageCost)
           added == MulAmount(signed, price)
           E == existing.value
           A == added.value
           newPosition == Wrap(state.position + signed)
           average == DivAmount(Wrap(E + A), newPosition)
           new == ExtendResult(state, signed, price).state
<1>1. /\ state.position \in Int /\ state.averageCost \in Int /\ state.realizedPnL \in Int
      /\ signed \in Int /\ price \in Int /\ Ints \subseteq Int /\ K \in Nat \ {0} /\ K \in Int
  <2>1. K \in Nat \ {0} /\ K \in Int
    BY AmountsAssumption
  <2> QED BY <2>1, IntsFacts, Zenon DEF Accounts
<1>2. ~existing.err /\ ~added.err /\ ~average.err
  BY Zenon DEF ExtendResult
<1>3. new = [state EXCEPT !.position = newPosition, !.averageCost = average.value]
  BY <1>2 DEF ExtendResult
<1>4. newPosition = state.position + signed /\ Wrap(E + A) = E + A
  <2>1. state.position + signed \in Ints /\ E + A \in Ints
    BY DEF SumsFit
  <2> QED BY <2>1, WrapExact, Zenon
<1>5. /\ E \in Int /\ A \in Int
      /\ Abs(state.position * state.averageCost - K * E) < K
      /\ Abs(signed * price - K * A) < K
  BY <1>1, <1>2, MulType, Zenon
<1>6. newPosition \in Int /\ E + A \in Int
  BY <1>1, <1>4, <1>5
<1> HIDE DEF existing, added, newPosition, E, A, new
<1>7. /\ average.value \in Int /\ average = DivAmount(E + A, newPosition)
      /\ Abs((E + A) * K - newPosition * average.value) < Abs(newPosition)
  BY <1>1, <1>2, <1>4, <1>6, DivType, Zenon
<1>8. /\ new.position = newPosition /\ new.averageCost = average.value
      /\ new.realizedPnL = state.realizedPnL
  BY <1>3 DEF Accounts
<1> HIDE DEF average, K
<1>9. /\ (E + A) * K = K * E + K * A /\ K * E \in Int /\ K * A \in Int /\ (E + A) * K \in Int
      /\ state.position * state.averageCost \in Int /\ signed * price \in Int
      /\ newPosition * average.value \in Int
      /\ K * (state.realizedPnL - state.realizedPnL) = 0
  BY <1>1, <1>5, <1>6, <1>7
<1>10. Abs(0 + signed * price - (newPosition * average.value - state.position * state.averageCost))
         < 2 * K + Abs(newPosition)
  <2> DEFINE x == state.position * state.averageCost
             y == signed * price
             z == newPosition * average.value
             e == K * E
             a == K * A
             t == (E + A) * K
  <2>1. /\ x \in Int /\ y \in Int /\ z \in Int /\ e \in Int /\ a \in Int /\ t \in Int /\ t = e + a
        /\ Abs(x - e) < K /\ Abs(y - a) < K /\ Abs(t - z) < Abs(newPosition)
    BY <1>5, <1>7, <1>9
  <2> HIDE DEF x, y, z, e, a, t
  <2>2. Abs(0 + y - (z - x)) < 2 * K + Abs(newPosition)
    BY <1>1, <1>6, <2>1, ThreeTruncations, Zenon
  <2> QED BY <2>2 DEF x, y, z
<1> QED BY <1>4, <1>8, <1>9, <1>10, Zenon DEF Balanced, K, new

\* What is taken off and put back changes no sum.
LEMMA AddUp ==
  ASSUME NEW a \in Int, NEW b \in Int, NEW d \in Int
  PROVE  (a - b) + b + d = d + a /\ (a - d) + b + d = a + b
OBVIOUS

\* What a trade of s at pr against a position P at cost C closes, what it
\* realizes per unit, and the cost of what is held afterwards.
Closing(P, s) == IF Abs(P) < Abs(s) THEN Abs(P) ELSE Abs(s)
PerUnit(P, C, pr) == IF P > 0 THEN pr - C ELSE C - pr
CostAfter(P, C, s, pr) == IF P + s = 0 THEN 0 ELSE IF Abs(s) - Closing(P, s) > 0 THEN pr ELSE C

\* The money of such a trade in exact arithmetic: what is realized and what
\* is paid or received is what the worth at cost changes by.
LEMMA ClosingMoney ==
  ASSUME NEW P \in Int, NEW C \in Int, NEW s \in Int, NEW pr \in Int,
         (P > 0 /\ s < 0) \/ (P < 0 /\ s > 0)
  PROVE  Closing(P, s) * PerUnit(P, C, pr) + s * pr + P * C = (P + s) * CostAfter(P, C, s, pr)
<1> DEFINE k == Closing(P, s)
           u == PerUnit(P, C, pr)
           c == CostAfter(P, C, s, pr)
<1>1. /\ k = IF Abs(P) < Abs(s) THEN Abs(P) ELSE Abs(s)
      /\ u = IF P > 0 THEN pr - C ELSE C - pr
      /\ c = IF P + s = 0 THEN 0 ELSE IF Abs(s) - k > 0 THEN pr ELSE C
  BY DEF Closing, PerUnit, CostAfter
<1> HIDE DEF k, u, c
<1>2. /\ P * C \in Int /\ P * pr \in Int /\ s * C \in Int /\ s * pr \in Int
  OBVIOUS
<1>3. ASSUME P > 0, s < 0 PROVE k * u + s * pr + P * C = (P + s) * c
  <2>1. u = pr - C
    BY <1>1, <1>3
  <2>2. CASE P + s = 0
    <3>1. k = P /\ c = 0 /\ s = -P
      BY <1>1, <1>3, <2>2 DEF Abs
    <3> QED BY <2>1, <3>1
  <2>3. CASE P + s > 0
    <3>1. k = -s /\ c = C
      BY <1>1, <1>3, <2>3 DEF Abs
    <3>2. k * u = s * C - s * pr /\ (P + s) * c = P * C + s * C
      <4>1. (-s) * (pr - C) = s * C - s * pr /\ (P + s) * C = P * C + s * C
        OBVIOUS
      <4> QED BY <2>1, <3>1, <4>1, Zenon
    <3>3. (s * C - s * pr) + s * pr + P * C = P * C + s * C
      BY <1>2, AddUp
    <3> QED BY <3>2, <3>3, Zenon
  <2>4. CASE P + s < 0
    <3>1. k = P /\ c = pr
      BY <1>1, <1>3, <2>4 DEF Abs
    <3>2. k * u = P * pr - P * C /\ (P + s) * c = P * pr + s * pr
      <4>1. P * (pr - C) = P * pr - P * C /\ (P + s) * pr = P * pr + s * pr
        OBVIOUS
      <4> QED BY <2>1, <3>1, <4>1, Zenon
    <3>3. (P * pr - P * C) + s * pr + P * C = P * pr + s * pr
      BY <1>2, AddUp
    <3> QED BY <3>2, <3>3, Zenon
  <2> QED BY <2>2, <2>3, <2>4
<1>4. ASSUME P < 0, s > 0 PROVE k * u + s * pr + P * C = (P + s) * c
  <2>1. u = C - pr
    BY <1>1, <1>4
  <2>2. CASE P + s = 0
    <3>1. k = s /\ c = 0 /\ P = -s
      BY <1>1, <1>4, <2>2 DEF Abs
    <3> QED BY <2>1, <3>1
  <2>3. CASE P + s < 0
    <3>1. k = s /\ c = C
      BY <1>1, <1>4, <2>3 DEF Abs
    <3>2. k * u = s * C - s * pr /\ (P + s) * c = P * C + s * C
      <4>1. s * (C - pr) = s * C - s * pr /\ (P + s) * C = P * C + s * C
        OBVIOUS
      <4> QED BY <2>1, <3>1, <4>1, Zenon
    <3>3. (s * C - s * pr) + s * pr + P * C = P * C + s * C
      BY <1>2, AddUp
    <3> QED BY <3>2, <3>3, Zenon
  <2>4. CASE P + s > 0
    <3>1. k = -P /\ c = pr
      BY <1>1, <1>4, <2>4 DEF Abs
    <3>2. k * u = P * pr - P * C /\ (P + s) * c = P * pr + s * pr
      <4>1. (-P) * (C - pr) = P * pr - P * C /\ (P + s) * pr = P * pr + s * pr
        OBVIOUS
      <4> QED BY <2>1, <3>1, <4>1, Zenon
    <3>3. (P * pr - P * C) + s * pr + P * C = P * pr + s * pr
      BY <1>2, AddUp
    <3> QED BY <3>2, <3>3, Zenon
  <2> QED BY <2>2, <2>3, <2>4
<1>5. k * u + s * pr + P * C = (P + s) * c
  BY <1>3, <1>4
<1> QED BY <1>5 DEF k, u, c
\* One truncation: that of the realized profit.
LEMMA OneTruncation ==
  ASSUME NEW K \in Nat \ {0}, NEW n \in Int, NEW r \in Int, NEW ku \in Int, NEW y \in Int, NEW z \in Int, NEW x \in Int,
         ku + y + x = z, Abs(ku - r) < K
  PROVE  Abs(r + y - (z - x)) < 2 * K + Abs(n)
BY DEF Abs

\* A trade against the position: the profit is realized on what is closed,
\* cut once by a division.
LEMMA OpposeBalances ==
  ASSUME NEW state \in Accounts, NEW signed \in Ints, NEW price \in Ints, signed # 0, Abs(signed) \in Ints,
         SumsFit(state, signed, price), ~SameDirection(state, signed),
         ~OpposeResult(state, signed, price).err
  PROVE  Balanced(state, signed, price, OpposeResult(state, signed, price).state)
<1> DEFINE K == AmountScale
           P == state.position
           C == state.averageCost
           k == Closing(P, signed)
           u == PerUnit(P, C, price)
           realized == MulAmount(k, u)
           N == P + signed
           c == CostAfter(P, C, signed, price)
           new == OpposeResult(state, signed, price).state
<1>1. /\ P \in Int /\ C \in Int /\ state.realizedPnL \in Int
      /\ signed \in Int /\ price \in Int /\ Ints \subseteq Int /\ K \in Nat \ {0} /\ K \in Int
  <2>1. K \in Nat \ {0} /\ K \in Int
    BY AmountsAssumption
  <2> QED BY <2>1, IntsFacts, Zenon DEF Accounts
<1>2. /\ N \in Ints /\ Abs(P) \in Ints /\ u \in Ints /\ state.realizedPnL + realized.value \in Ints
  BY DEF SumsFit, Closing, PerUnit
<1>3. (P > 0 /\ signed < 0) \/ (P < 0 /\ signed > 0)
  BY <1>1 DEF SameDirection
<1>4. k \in Int /\ u \in Int /\ N \in Int
  BY <1>1, <1>2, Zenon DEF Closing, Abs
<1>5. Abs(signed) - k \in Ints
  BY <1>1, AmountsAssumption DEF Abs, Ints, MinInt, Closing
<1>6. /\ Wrap(Abs(P)) = Abs(P) /\ Wrap(Abs(signed)) = Abs(signed) /\ Wrap(N) = N
      /\ Wrap(Abs(signed) - k) = Abs(signed) - k
      /\ Wrap(state.realizedPnL + realized.value) = state.realizedPnL + realized.value
  BY <1>2, <1>5, WrapExact, Zenon
<1>7. (IF P > 0 THEN Wrap(price - C) ELSE Wrap(C - price)) = u
  <2>1. CASE P > 0
    BY <1>2, <2>1, WrapExact DEF PerUnit
  <2>2. CASE ~(P > 0)
    BY <1>2, <2>2, WrapExact DEF PerUnit
  <2> QED BY <2>1, <2>2
<1>8. OpposeResult(state, signed, price)
        = [err |-> realized.err,
           state |-> IF realized.err THEN state
                     ELSE [position |-> N, averageCost |-> c, realizedPnL |-> state.realizedPnL + realized.value]]
  BY <1>6, <1>7, Zenon DEF OpposeResult, Closing, CostAfter
<1>9. ~realized.err
  BY <1>8
<1>10. new.position = N /\ new.averageCost = c /\ new.realizedPnL = state.realizedPnL + realized.value
  BY <1>8, <1>9
<1> HIDE DEF new
<1>11. c \in Int
  BY <1>1 DEF CostAfter
<1>12. realized.value \in Int /\ Abs(k * u - K * realized.value) < K
  BY <1>1, <1>4, <1>9, MulType, Zenon
<1>13. k * u + signed * price + P * C = N * c
  <2> HIDE DEF P, C
  <2>1. P \in Int /\ C \in Int /\ signed \in Int /\ price \in Int /\ ((P > 0 /\ signed < 0) \/ (P < 0 /\ signed > 0))
    BY <1>1, <1>3
  <2>2. Closing(P, signed) * PerUnit(P, C, price) + signed * price + P * C = (P + signed) * CostAfter(P, C, signed, price)
    BY <2>1, ClosingMoney
  <2> QED BY <2>2
<1> HIDE DEF realized, k, u, c, N, P, C, K
<1>14. /\ k * u \in Int /\ K * realized.value \in Int /\ signed * price \in Int /\ N * c \in Int /\ P * C \in Int
  BY <1>1, <1>4, <1>11, <1>12
<1>15. Abs(K * realized.value + signed * price - (N * c - P * C)) < 2 * K + Abs(N)
  <2> DEFINE ku == k * u
             r == K * realized.value
             y == signed * price
             z == N * c
             x == P * C
  <2>1. /\ ku \in Int /\ r \in Int /\ y \in Int /\ z \in Int /\ x \in Int
        /\ ku + y + x = z /\ Abs(ku - r) < K
    BY <1>12, <1>13, <1>14
  <2> HIDE DEF ku, r, y, z, x
  <2>2. Abs(r + y - (z - x)) < 2 * K + Abs(N)
    BY <1>1, <1>4, <2>1, OneTruncation, Zenon
  <2> QED BY <2>2 DEF r, y, z, x
<1>16. (state.realizedPnL + realized.value) - state.realizedPnL = realized.value
  BY <1>1, <1>12
<1> QED BY <1>10, <1>15, <1>16, Zenon DEF Balanced, K, new, N, P, C

-----------------------------------------------------------------------------
(* The inductive invariant *)

Amount == 1 .. MaxAmount

\* How the amounts of the trade under way relate to what the client sent,
\* wherever they are.
Underway ==
  /\ stage # "idle" => reply = "accepted"
  /\ reply = "accepted" => Acceptable(asked[1]) /\ Acceptable(asked[2])
  /\ reply = "refused" => ~(Acceptable(asked[1]) /\ Acceptable(asked[2]))
  /\ stage \in {"accepted", "decoded"} => Denotes(asked[1], trade.quantity) /\ Denotes(asked[2], trade.price)
  /\ stage = "published" =>
       /\ wire.side \in Sides
       /\ \E quantity, price \in Amount :
            /\ wire.quantity = FormatAmount(quantity) /\ wire.price = FormatAmount(price)
            /\ Denotes(asked[1], quantity) /\ Denotes(asked[2], price)

IInv == TypeOK /\ FlatHasNoCost /\ Underway

\* The conjuncts of the invariant, for steps that need one of them.
LEMMA Parts == IInv => TypeOK /\ FlatHasNoCost /\ Underway
  BY DEF IInv

\* The handler's decision is the right one, and the amounts it goes on with
\* are those the texts spell.
LEMMA SubmitIInv ==
  ASSUME IInv, NEW side \in Sides, NEW quantity, NEW price, NEW texts,
         Submit(side, quantity, price, texts),
         InBounds(quantity) <=> Acceptable(texts[1]),
         InBounds(price) <=> Acceptable(texts[2]),
         InBounds(quantity) => quantity.value \in Amount /\ Denotes(texts[1], quantity.value),
         InBounds(price) => price.value \in Amount /\ Denotes(texts[2], price.value)
  PROVE  IInv'
<1>1. /\ stage = "idle" /\ trades < MaxTrades /\ asked' = texts /\ account' = account /\ wire' = wire
  BY DEF Submit
<1>2. account \in Accounts /\ trades \in 0 .. MaxTrades /\ FlatHasNoCost
  BY Parts DEF TypeOK
<1>3. CASE InBounds(quantity) /\ InBounds(price)
  <2>1. /\ reply' = "accepted" /\ stage' = "accepted" /\ trades' = trades + 1
        /\ trade' = [side |-> side, quantity |-> quantity.value, price |-> price.value]
    BY <1>3 DEF Submit
  <2>2. trades' \in 0 .. MaxTrades
    BY <1>1, <1>2, <2>1, PositionsAssumption
  <2>3. TypeOK'
    BY <1>1, <1>2, <1>3, <2>1, <2>2, Zenon DEF TypeOK, Amount
  <2>4. Underway'
    BY <1>1, <1>3, <2>1, Zenon DEF Underway
  <2> QED BY <1>1, <1>2, <2>3, <2>4 DEF IInv, FlatHasNoCost
<1>4. CASE ~(InBounds(quantity) /\ InBounds(price))
  <2>1. reply' = "refused" /\ stage' = stage /\ trade' = trade /\ trades' = trades
    BY <1>4 DEF Submit
  <2>2. TypeOK'
    BY <1>1, <1>2, <2>1, Zenon DEF TypeOK
  <2>3. Underway'
    BY <1>1, <1>4, <2>1 DEF Underway
  <2> QED BY <1>1, <1>2, <2>2, <2>3 DEF IInv, FlatHasNoCost
<1> QED BY <1>3, <1>4

\* The REST handler parses the texts it was asked with.
LEMMA RESTIInv ==
  ASSUME IInv, NEW side \in Sides, NEW texts \in Requests, SubmitREST(side, texts)
  PROVE  IInv'
<1>1. texts[1] \in Texts /\ texts[2] \in Texts
  BY PositionsAssumption
<1>2. ASSUME NEW text \in Texts, InBounds(ParseAmount(text))
      PROVE  ParseAmount(text).value \in Amount /\ Denotes(text, ParseAmount(text).value)
  <2>1. ~ParseAmount(text).err /\ ParseAmount(text).value > 0 /\ ParseAmount(text).value <= MaxAmount
    BY <1>2 DEF InBounds
  <2>2. ParseAmount(text).value \in Int /\ Denotes(text, ParseAmount(text).value)
    BY <2>1, ParseSound
  <2> QED BY <2>1, <2>2, AmountsAssumption DEF Amount
<1>3. Submit(side, ParseAmount(texts[1]), ParseAmount(texts[2]), texts)
  BY DEF SubmitREST
<1> QED BY <1>1, <1>2, <1>3, ParseExact, SubmitIInv

\* The gRPC handler takes the amounts as they are.
LEMMA GRPCIInv ==
  ASSUME IInv, NEW side \in Sides, NEW amounts \in Calls, SubmitGRPC(side, amounts)
  PROVE  IInv'
<1> DEFINE texts == <<AsText(amounts[1]), AsText(amounts[2])>>
<1>1. amounts[1] \in Ints /\ amounts[2] \in Ints
  BY PositionsAssumption
<1>2. ASSUME NEW n \in Ints, InBounds(Ok(n))
      PROVE  Ok(n).value \in Amount /\ Denotes(AsText(n), Ok(n).value)
  <2>1. Ok(n).value = n /\ n > 0 /\ n <= MaxAmount /\ n \in Int
    BY <1>2, IntsFacts DEF InBounds, Ok
  <2>2. Denotes(AsText(n), n)
    BY <2>1, CallExact
  <2> QED BY <2>1, <2>2, AmountsAssumption DEF Amount
<1>3. Submit(side, Ok(amounts[1]), Ok(amounts[2]), texts)
  BY DEF SubmitGRPC
<1>4. texts[1] = AsText(amounts[1]) /\ texts[2] = AsText(amounts[2])
  OBVIOUS
<1> HIDE DEF texts
<1> QED BY <1>1, <1>2, <1>3, <1>4, CallExact, SubmitIInv

\* The publisher writes both amounts as texts.
LEMMA PublishIInv ==
  ASSUME IInv, Publish
  PROVE  IInv'
<1>1. /\ stage = "accepted" /\ stage' = "published" /\ trade' = NoTrade
      /\ wire' = [side |-> trade.side, quantity |-> FormatAmount(trade.quantity), price |-> FormatAmount(trade.price)]
      /\ UNCHANGED <<account, asked, reply, trades>>
  BY DEF Publish
<1>2. trade \in [side : Sides, quantity : Amount, price : Amount]
  BY Parts, <1>1 DEF TypeOK, Amount
<1>3. TypeOK' /\ FlatHasNoCost'
  BY Parts, <1>1, Zenon DEF TypeOK, FlatHasNoCost
<1>4. Underway'
  <2>1. /\ wire'.side \in Sides
        /\ wire'.quantity = FormatAmount(trade.quantity) /\ wire'.price = FormatAmount(trade.price)
        /\ trade.quantity \in Amount /\ trade.price \in Amount
    BY <1>1, <1>2, Zenon
  <2>2. Denotes(asked'[1], trade.quantity) /\ Denotes(asked'[2], trade.price)
    BY Parts, <1>1 DEF Underway
  <2> QED BY Parts, <1>1, <2>1, <2>2 DEF Underway
<1> QED BY <1>3, <1>4, Zenon DEF IInv

\* The payload parses, and to what was published.
LEMMA DecodeIInv ==
  ASSUME IInv, Decode
  PROVE  IInv'
<1>1. stage = "published" /\ wire' = NoWire /\ UNCHANGED <<account, asked, reply, trades>>
  BY Zenon DEF Decode
<1>2. PICK quantity \in Amount, price \in Amount :
        /\ wire.quantity = FormatAmount(quantity) /\ wire.price = FormatAmount(price)
        /\ Denotes(asked[1], quantity) /\ Denotes(asked[2], price)
  BY Parts, <1>1 DEF Underway
<1>3. ParseAmount(wire.quantity) = Ok(quantity) /\ ParseAmount(wire.price) = Ok(price)
  BY <1>2, RoundTrip, Zenon DEF Amount
<1>4. stage' = "decoded" /\ trade' = [side |-> wire.side, quantity |-> quantity, price |-> price]
  BY <1>3 DEF Decode, Ok
<1>5. wire.side \in Sides /\ reply = "accepted"
  BY Parts, <1>1 DEF Underway
<1>6. TypeOK' /\ FlatHasNoCost'
  BY Parts, <1>1, <1>4, <1>5, Zenon DEF TypeOK, FlatHasNoCost, Amount
<1>7. Underway'
  BY Parts, <1>1, <1>2, <1>4, <1>5 DEF Underway
<1> QED BY <1>6, <1>7, Zenon DEF IInv

\* The trade that is folded: a nonzero int64 quantity whose magnitude is one.
LEMMA Folded ==
  ASSUME IInv, stage = "decoded"
  PROVE  /\ trade.price \in Ints /\ SignedQuantity(trade) \in Ints
         /\ SignedQuantity(trade) # 0 /\ Abs(SignedQuantity(trade)) \in Ints
<1>1. trade \in [side : Sides, quantity : Amount, price : Amount]
  BY Parts DEF TypeOK, Amount
<1>2. trade.quantity \in Amount /\ trade.price \in Amount
  BY <1>1
<1>3. \A n \in Amount : n \in Ints /\ -n \in Ints /\ n \in Nat \ {0}
  BY IntsFacts, AmountsAssumption DEF Amount
<1>4. SignedQuantity(trade) = trade.quantity \/ SignedQuantity(trade) = -trade.quantity
  BY <1>2, <1>3, WrapExact DEF SignedQuantity
<1>5. Abs(SignedQuantity(trade)) = trade.quantity
  BY <1>2, <1>3, <1>4 DEF Abs
<1> QED BY <1>2, <1>3, <1>4, <1>5

\* The fold leaves a row that satisfies the invariant, or none.
LEMMA ReconcileIInv ==
  ASSUME IInv, Reconcile
  PROVE  IInv'
<1>1. /\ stage = "decoded" /\ stage' = "idle" /\ reply' = "none" /\ trades' = trades
      /\ account' = applyTrade(account, SignedQuantity(trade), trade.price).state
  BY DEF Reconcile
<1>2. account \in Accounts /\ Flat(account) /\ trades \in 0 .. MaxTrades
  BY Parts DEF TypeOK, FlatHasNoCost, Flat
<1>3. account' \in Accounts /\ Flat(account')
  BY <1>1, <1>2, Folded, ApplyKeeps
<1>4. TypeOK' /\ FlatHasNoCost'
  BY <1>1, <1>2, <1>3, Zenon DEF TypeOK, FlatHasNoCost, Flat
<1>5. Underway'
  BY <1>1, Zenon DEF Underway
<1> QED BY <1>4, <1>5 DEF IInv

-----------------------------------------------------------------------------
(* The theorems *)

\* Every opening account satisfies the invariant.
LEMMA InitIInv == Init => IInv
<1> SUFFICES ASSUME Init PROVE IInv
  OBVIOUS
<1>1. account \in Accounts /\ (account.position = 0 => account.averageCost = 0)
  BY PositionsAssumption DEF Init
<1>2. 0 \in 0 .. MaxTrades
  BY PositionsAssumption
<1> QED BY <1>1, <1>2 DEF Init, IInv, TypeOK, FlatHasNoCost, Underway

\* Every step keeps the invariant.
LEMMA NextIInv == IInv /\ [Next]_vars => IInv'
<1> SUFFICES ASSUME IInv, [Next]_vars PROVE IInv'
  OBVIOUS
<1>1. CASE \E side \in Sides, texts \in Requests : SubmitREST(side, texts)
  BY <1>1, RESTIInv
<1>2. CASE \E side \in Sides, amounts \in Calls : SubmitGRPC(side, amounts)
  BY <1>2, GRPCIInv
<1>3. CASE Publish
  BY <1>3, PublishIInv
<1>4. CASE Decode
  BY <1>4, DecodeIInv, Zenon
<1>5. CASE Reconcile
  BY <1>5, ReconcileIInv
<1>6. CASE UNCHANGED vars
  BY <1>6 DEF vars, IInv, TypeOK, FlatHasNoCost, Underway
<1> QED BY <1>1, <1>2, <1>3, <1>4, <1>5, <1>6 DEF Next

\* The inductive invariant: what the process holds of the trade under way is
\* what the client asked for, at every stage.
THEOREM PositionsInvariance == Spec => []IInv
BY InitIInv, NextIInv, PTL DEF Spec

\* The row stays one of int64 values, and what is folded is a side with a
\* quantity and a price in (0, MaxAmount].
THEOREM PositionsTypeCorrect == Spec => []TypeOK
<1>1. IInv => TypeOK
  BY DEF IInv
<1> QED BY <1>1, PositionsInvariance, PTL

\* A closed position has no cost basis left, also after sums have wrapped.
THEOREM ClosedHasNoCost == Spec => []FlatHasNoCost
<1>1. IInv => FlatHasNoCost
  BY DEF IInv
<1> QED BY <1>1, PositionsInvariance, PTL

\* ParseAmount, FormatAmount and ParseAmount again: the amounts folded are
\* the amounts sent, exactly the requests that are in order are accepted, and
\* every payload parses.
THEOREM AmountsHonest == Spec => []HonestAmounts
<1>1. ASSUME IInv PROVE HonestAmounts
  <2>1. ASSUME stage = "published" PROVE ~ParseAmount(wire.quantity).err /\ ~ParseAmount(wire.price).err
    <3>1. PICK quantity \in Amount, price \in Amount :
            wire.quantity = FormatAmount(quantity) /\ wire.price = FormatAmount(price)
      BY Parts, <1>1, <2>1, Zenon DEF Underway
    <3>2. ParseAmount(wire.quantity) = Ok(quantity) /\ ParseAmount(wire.price) = Ok(price)
      BY <3>1, RoundTrip DEF Amount
    <3> QED BY <3>2 DEF Ok
  <2> QED BY Parts, <1>1, <2>1, Zenon DEF Underway, HonestAmounts
<1> QED BY <1>1, PositionsInvariance, PTL

\* A fold whose sums fit an int64 keeps the books balanced, whatever the
\* account and the trade: weighted-average cost loses or invents no money but
\* what the truncations cut.
THEOREM FoldsBalance == Spec => BooksBalance
<1> DEFINE signed == SignedQuantity(trade)
           worth == account.position * account.averageCost
           worthAfter == account'.position * account'.averageCost
           realized == account'.realizedPnL - account.realizedPnL
           Good == /\ account'.position = account.position + signed
                   /\ Abs(AmountScale * realized + signed * trade.price - (worthAfter - worth))
                        < 2 * AmountScale + Abs(account'.position)
<1>1. ASSUME IInv, [Next]_vars, stage = "decoded", account' # account, SumsFit(account, signed, trade.price)
      PROVE  Good
  <2>1. account' = applyTrade(account, signed, trade.price).state
    BY <1>1, Zenon DEF Next, SubmitREST, SubmitGRPC, Submit, Publish, Decode, Reconcile, vars
  <2>2. /\ trade.price \in Ints /\ signed \in Ints /\ signed # 0 /\ Abs(signed) \in Ints /\ account \in Accounts
    BY Parts, <1>1, Folded DEF TypeOK
  <2> HIDE DEF signed
  <2>3. Balanced(account, signed, trade.price, account')
    <3>1. CASE SameDirection(account, signed)
      <4>1. account' = ExtendResult(account, signed, trade.price).state
        BY <2>1, <3>1 DEF applyTrade
      <4>2. ~ExtendResult(account, signed, trade.price).err
        BY <1>1, <4>1, Zenon DEF ExtendResult
      <4> QED BY <1>1, <2>2, <3>1, <4>1, <4>2, ExtendBalances
    <3>2. CASE ~SameDirection(account, signed)
      <4>1. account' = OpposeResult(account, signed, trade.price).state
        BY <2>1, <3>2 DEF applyTrade
      <4>2. ~OpposeResult(account, signed, trade.price).err
        BY <1>1, <4>1 DEF OpposeResult
      <4> QED BY <1>1, <2>2, <3>2, <4>1, <4>2, OpposeBalances
    <3> QED BY <3>1, <3>2
  <2> QED BY <2>3 DEF Balanced
<1>2. IInv /\ [Next]_vars => [stage = "decoded" /\ account' # account /\ SumsFit(account, signed, trade.price) => Good]_vars
  BY <1>1
<1> QED BY <1>2, PositionsInvariance, PTL DEF Spec, BooksBalance
=============================================================================
