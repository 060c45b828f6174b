-------------------------------- MODULE BigInt --------------------------------
(***************************************************************************)
(* The multiple-precision arithmetic of js/rsa: BigInt.js, Barrett.js and  *)
(* RSA.js.  A number is its sign and an array of digits, the least         *)
(* significant first.  The width of a digit is a parameter, so that every  *)
(* carry, borrow and wrap of the 16-bit code happens among small numbers.  *)
(* A string is the sequence of its characters' codes.                      *)
(***************************************************************************)
EXTENDS Integers, Sequences, FiniteSets, SequencesExt

CONSTANTS
  biRadixBits,  \* bits of a digit: 16 in the code
  maxDigits     \* digits of a new number: setMaxDigits

ASSUME DigitAssumption == biRadixBits \in Nat \ {0} /\ maxDigits \in Nat \ {0}

biRadix     == 2 ^ biRadixBits
maxDigitVal == biRadix - 1
biHalfRadix == biRadix \div 2

-----------------------------------------------------------------------------
(* Numbers *)

BigIntOf(digits, isNeg) == [digits |-> digits, isNeg |-> isNeg]
Number == [digits : [0 .. maxDigits - 1 -> 0 .. maxDigitVal], isNeg : BOOLEAN]
Zeros  == [i \in 0 .. maxDigits - 1 |-> 0]
length(x) == Cardinality(DOMAIN x.digits)

\* An array read past its end would be undefined; the code guards some reads.
At0(d, i) == IF i \in DOMAIN d THEN d[i] ELSE 0

\* d[i] = v; an array grows when it is written past its end.
Put(d, i, v) ==
  [j \in DOMAIN d \union 0 .. i |-> IF j = i THEN v ELSE IF j \in DOMAIN d THEN d[j] ELSE 0]

\* A non-negative number with the given lowest digits.
FromDigit(v) == BigIntOf(Put(Zeros, 0, v), FALSE)
bigZero == FromDigit(0)
bigOne  == FromDigit(1)

\* The power of the radix with exponent n.
RadixPower(n) == BigIntOf(Put(Zeros, n, 1), FALSE)

biHighIndex(x) ==
  CHOOSE i \in DOMAIN x.digits :
    /\ i = 0 \/ x.digits[i] # 0
    /\ \A j \in DOMAIN x.digits : j > i => x.digits[j] = 0

\* As a mathematical integer.
Value(x) ==
  LET sum[i \in Nat] == IF i = length(x) THEN 0 ELSE x.digits[i] + biRadix * sum[i + 1]
  IN  IF x.isNeg THEN -sum[0] ELSE sum[0]

biFromNumber(n) ==
  LET rest[i \in Nat] == IF i > 0 THEN rest[i - 1] \div biRadix ELSE IF n < 0 THEN -n ELSE n
  IN  BigIntOf([i \in 0 .. maxDigits - 1 |-> rest[i] % biRadix], n < 0)

Negate(x) == [x EXCEPT !.isNeg = ~@]

-----------------------------------------------------------------------------
(* Sums *)

\* The magnitudes of x and y added, as many digits as x has.
AddDigits(x, y) ==
  LET carry[i \in Nat] ==
        IF i = 0 THEN 0
        ELSE IF x.digits[i - 1] + At0(y.digits, i - 1) + carry[i - 1] >= biRadix THEN 1 ELSE 0
  IN  [i \in DOMAIN x.digits |-> (x.digits[i] + At0(y.digits, i) + carry[i]) % biRadix]

\* x - y modulo the size of the array; Borrows says that y was larger.
borrow(x, y) ==
  [i \in 0 .. length(x) |->
     \E j \in 0 .. i - 1 :
       /\ x.digits[j] < At0(y.digits, j)
       /\ \A k \in j + 1 .. i - 1 : x.digits[k] = At0(y.digits, k)]

SubtractDigits(x, y) ==
  LET b == borrow(x, y) IN
  [i \in DOMAIN x.digits |->
     (x.digits[i] - At0(y.digits, i) - (IF b[i] THEN 1 ELSE 0)) % biRadix]

Borrows(x, y) == borrow(x, y)[length(x)]

\* Fault: the sign of a difference is that of its first operand.
SubtractSameSignKeep(x, y) ==
  LET d == BigIntOf(SubtractDigits(x, y), FALSE) IN
  IF Borrows(x, y)
  THEN BigIntOf(SubtractDigits([d EXCEPT !.digits = [i \in DOMAIN @ |-> 0]], d), x.isNeg)
  ELSE BigIntOf(d.digits, x.isNeg)

SubtractSameSign(x, y) ==
  LET d == BigIntOf(SubtractDigits(x, y), FALSE) IN
  IF Borrows(x, y)
  THEN BigIntOf(SubtractDigits([d EXCEPT !.digits = [i \in DOMAIN @ |-> 0]], d), ~x.isNeg)
  ELSE BigIntOf(d.digits, x.isNeg)

biAdd(x, y) ==
  IF x.isNeg # y.isNeg THEN SubtractSameSign(x, Negate(y))
                       ELSE BigIntOf(AddDigits(x, y), x.isNeg)

biSubtract(x, y) ==
  IF x.isNeg # y.isNeg THEN BigIntOf(AddDigits(x, Negate(y)), x.isNeg)
                       ELSE SubtractSameSign(x, y)

\* -1, 0 or 1; a zero with a sign is less than zero.
biCompare(x, y) ==
  LET differ == {i \in DOMAIN x.digits : x.digits[i] # At0(y.digits, i)}
      high   == CHOOSE i \in differ : \A j \in differ : j <= i
      less   == x.digits[high] < At0(y.digits, high)
  IN  IF x.isNeg # y.isNeg THEN IF x.isNeg THEN -1 ELSE 1
      ELSE IF differ = {} THEN 0
      ELSE IF less # x.isNeg THEN -1 ELSE 1

-----------------------------------------------------------------------------
(* Products and shifts *)

\* Row i of the product: digits d plus x times one digit, from position i on.
AddRow(d, x, digit, i) ==
  LET n  == biHighIndex(x)
      carry[j \in Nat] ==
        IF j = 0 THEN 0
        ELSE (At0(d, i + j - 1) + x.digits[j - 1] * digit + carry[j - 1]) \div biRadix
      row == [k \in DOMAIN d \union 0 .. i + n |->
                IF k \in i .. i + n
                THEN (At0(d, k) + x.digits[k - i] * digit + carry[k - i]) % biRadix
                ELSE d[k]]
  IN  Put(row, i + n + 1, carry[n + 1])

biMultiply(x, y) ==
  LET rows[i \in Nat] ==
        IF i = 0 THEN Zeros
        ELSE LET above == rows[i - 1] IN AddRow(above, x, y.digits[i - 1], i - 1)
  IN  BigIntOf(rows[biHighIndex(y) + 1], x.isNeg # y.isNeg)

biMultiplyDigit(x, v) == BigIntOf(AddRow(Zeros, x, v, 0), FALSE)

\* Digits outside a new number are dropped.
biMultiplyByRadixPower(x, n) ==
  BigIntOf([i \in 0 .. maxDigits - 1 |-> At0(x.digits, i - n)], FALSE)
biDivideByRadixPower(x, n) ==
  BigIntOf([i \in 0 .. maxDigits - 1 |->
              IF i + n < maxDigits THEN At0(x.digits, i + n) ELSE 0], FALSE)
biModuloByRadixPower(x, n) ==
  BigIntOf([i \in 0 .. maxDigits - 1 |-> IF i < n THEN At0(x.digits, i) ELSE 0], FALSE)

biShiftLeft(x, n) ==
  LET whole == n \div biRadixBits
      bits  == n % biRadixBits
  IN  BigIntOf([i \in 0 .. maxDigits - 1 |->
                  ((At0(x.digits, i - whole) * 2 ^ bits) % biRadix)
                  + (At0(x.digits, i - whole - 1) \div 2 ^ (biRadixBits - bits))], x.isNeg)

biShiftRight(x, n) ==
  LET whole == n \div biRadixBits
      bits  == n % biRadixBits
  IN  BigIntOf([i \in 0 .. maxDigits - 1 |->
                  (At0(x.digits, i + whole) \div 2 ^ bits)
                  + ((At0(x.digits, i + whole + 1) * 2 ^ (biRadixBits - bits)) % biRadix)],
               x.isNeg)

\* The bits of x; a number whose highest digit is 0 has those of the digits below.
biNumBits(x) ==
  LET n == biHighIndex(x)
      bitLength(v) == CHOOSE b \in 0 .. biRadixBits : v < 2 ^ b /\ (b = 0 \/ v >= 2 ^ (b - 1))
  IN  n * biRadixBits + bitLength(x.digits[n])

-----------------------------------------------------------------------------
(* Quotients *)

Ceil(a, b) == (a + b - 1) \div b

\* a | b is a signed integer of two digits' bits.
SignedOr(v) == IF v >= biRadix * biHalfRadix THEN v - biRadix * biRadix ELSE v

\* The digit of the quotient that the highest digits suggest, lowered while the
\* third digit shows that it is too large.  After the first time the divisor's
\* digits are joined by |, which makes them negative and ends the loop.
GuessDigit(ri, ri1, ri2, yt, yt1) ==
  LET first == IF ri = yt THEN maxDigitVal ELSE (ri * biRadix + ri1) \div yt
      c2    == ri * biRadix * biRadix + ri1 * biRadix + ri2
      lower[q \in Int] == IF q * SignedOr(yt * biRadix + yt1) > c2 THEN lower[q - 1] ELSE q
  IN  IF first * (yt * biRadix + yt1) > c2 THEN lower[first - 1] ELSE first

\* Fault: the guess is not corrected when the remainder turns negative.
DivideRoundNoAddBack(q, r, y, t, i) ==
  LET d(x, k) == At0(x.digits, k)
      guess   == GuessDigit(d(r, i), d(r, i - 1), d(r, i - 2), d(y, t), d(y, t - 1))
      b       == biMultiplyByRadixPower(y, i - t - 1)
      rest    == biSubtract(r, biMultiplyDigit(b, guess))
  IN  [q |-> Put(q, i - t - 1, guess), r |-> rest]

\* One round of the loop over the digits of the quotient: quotient and remainder.
DivideRound(q, r, y, t, i) ==
  LET d(x, k) == At0(x.digits, k)
      guess   == GuessDigit(d(r, i), d(r, i - 1), d(r, i - 2), d(y, t), d(y, t - 1))
      b       == biMultiplyByRadixPower(y, i - t - 1)
      rest    == biSubtract(r, biMultiplyDigit(b, guess))
  IN  IF rest.isNeg
      THEN [q |-> Put(q, i - t - 1, guess - 1), r |-> biAdd(rest, b)]
      ELSE [q |-> Put(q, i - t - 1, guess),     r |-> rest]

\* |x| < |y|: the quotient is 0, or 1 with a sign.
DivideSmall(x, y) ==
  IF x.isNeg
  THEN [q |-> BigIntOf(bigOne.digits, ~y.isNeg),
        r |-> biSubtract(BigIntOf(y.digits, FALSE), BigIntOf(x.digits, FALSE))]
  ELSE [q |-> bigZero, r |-> x]

\* "Make sure that 0 <= r < y": the signs of quotient and remainder.
FixSigns(q, r, x, y) ==
  LET signed == BigIntOf(q, x.isNeg # y.isNeg)
      rest   == IF x.isNeg THEN biSubtract(y, r) ELSE r
  IN  [q |-> IF ~x.isNeg THEN signed
             ELSE IF y.isNeg THEN biAdd(signed, bigOne) ELSE biSubtract(signed, bigOne),
       r |-> IF \A i \in DOMAIN rest.digits : rest.digits[i] = 0
             THEN BigIntOf(rest.digits, FALSE) ELSE rest]

biDivideModulo(x, y0) ==
  LET tb     == biNumBits(y0)
      nb     == biNumBits(x)
      lambda == Ceil(tb, biRadixBits) * biRadixBits - tb
      t      == Ceil(tb, biRadixBits) - 1
      n      == Ceil(nb + lambda, biRadixBits) - 1
      y      == biShiftLeft(y0, lambda)
      b      == biMultiplyByRadixPower(y, n - t)
      \* the highest digit, by subtracting until the rest is less than b
      rest[k \in Nat] == IF k = 0 THEN biShiftLeft(x, lambda) ELSE biSubtract(rest[k - 1], b)
      high   == CHOOSE k \in 0 .. maxDigitVal :
                  /\ biCompare(rest[k], b) = -1
                  /\ \A j \in 0 .. k - 1 : biCompare(rest[j], b) # -1
      step[i \in Nat] ==
        IF i = n + 1 THEN [q |-> Put(Zeros, n - t, high), r |-> rest[high]]
        ELSE LET s == step[i + 1] IN DivideRound(s.q, s.r, y, t, i)
      last   == step[t + 1]
  IN  IF nb < tb THEN DivideSmall(x, y0)
      ELSE FixSigns(last.q, biShiftRight(last.r, lambda), x, y0)

biDivide(x, y) == biDivideModulo(x, y).q
biModulo(x, y) == biDivideModulo(x, y).r

biMultiplyMod(x, y, m) == biModulo(biMultiply(x, y), m)

IsOdd(x) == x.digits[0] % 2 = 1
IsZero(k) == k.digits[0] = 0 /\ biHighIndex(k) = 0

\* Square and multiply, with the product that times(_, _) is.
SquareAndMultiply(times(_, _), x, y) ==
  LET pow[s \in [result : Number, a : Number, k : Number]] ==
        LET result == IF IsOdd(s.k) THEN times(s.result, s.a) ELSE s.result
            k      == biShiftRight(s.k, 1)
        IN  IF IsZero(k) THEN result
            ELSE pow[[result |-> result, a |-> times(s.a, s.a), k |-> k]]
  IN  pow[[result |-> bigOne, a |-> x, k |-> y]]

biPowMod(x, y, m) == SquareAndMultiply(LAMBDA u, v : biMultiplyMod(u, v, m), x, y)

-----------------------------------------------------------------------------
(* Barrett reduction *)

\* The part of a BarrettMu that depends on the modulus.
BarrettMu(m) ==
  LET k == biHighIndex(m) + 1 IN
  [modulus |-> m, k |-> k, mu |-> biDivide(RadixPower(2 * k), m),
   bkplus1 |-> RadixPower(k + 1)]

\* Fault: the negative difference is not wrapped.
EstimateNegative(mu, x) ==
  LET q3 == biDivideByRadixPower(biMultiply(biDivideByRadixPower(x, mu.k - 1), mu.mu), mu.k + 1)
  IN  biSubtract(biModuloByRadixPower(x, mu.k + 1),
                 biModuloByRadixPower(biMultiply(q3, mu.modulus), mu.k + 1))

\* modulo, up to the loop: the rest is congruent to x and not negative.
Estimate(mu, x) ==
  LET q3 == biDivideByRadixPower(biMultiply(biDivideByRadixPower(x, mu.k - 1), mu.mu), mu.k + 1)
      r  == biSubtract(biModuloByRadixPower(x, mu.k + 1),
                       biModuloByRadixPower(biMultiply(q3, mu.modulus), mu.k + 1))
  IN  IF r.isNeg THEN biAdd(r, mu.bkplus1) ELSE r

\* How often the modulus is subtracted from the estimate, and the rest.
Subtractions(mu, x) ==
  LET rest[i \in Nat] == IF i = 0 THEN Estimate(mu, x) ELSE biSubtract(rest[i - 1], mu.modulus)
      count == CHOOSE i \in 0 .. biRadix :
                 /\ biCompare(rest[i], mu.modulus) < 0
                 /\ \A j \in 0 .. i - 1 : biCompare(rest[j], mu.modulus) >= 0
  IN  [count |-> count, rest |-> rest[count]]

BarrettMu_modulo(mu, x) == Subtractions(mu, x).rest

BarrettMu_multiplyMod(mu, x, y) == BarrettMu_modulo(mu, biMultiply(x, y))

BarrettMu_powMod(mu, x, y) ==
  SquareAndMultiply(LAMBDA u, v : BarrettMu_multiplyMod(mu, u, v), x, y)
=============================================================================
