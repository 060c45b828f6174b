---------------------------- MODULE MCArithmetic ----------------------------
(***************************************************************************)
(* Jobs for the arithmetic of js/rsa, each done in one step.  With digits  *)
(* of four bits the rare corrections of a long division are frequent, a    *)
(* character has two bits and a hexadecimal digit one.                     *)
(***************************************************************************)
EXTENDS RSA

CONSTANTS
  Summands,     \* of sums and products, with both signs
  Divisors,
  Moduli,
  MaxText,      \* characters of a text
  NoResult

VARIABLES
  job,    \* what is computed
  result  \* NoResult until it is done

vars == <<job, result>>

N(n) == biFromNumber(n)

\* Keys <<e, d, m>> with moduli of two and three digits.
Keys == {<<7, 103, 143>>, <<5, 173, 323>>, <<17, 2753, 3233>>}

\* The numbers below n at both ends of their range.
Ends(n) == IF n <= 2 * 280 THEN 0 .. n - 1 ELSE (0 .. 279) \union (n - 280 .. n - 1)

Signed == Summands \union {-n : n \in Summands}

Jobs ==
  [op : {"sum", "product"}, x : Signed, y : Signed]
    \union [op : {"divide"}, x : Ends(biRadix ^ 3) \union 1900 .. 2200, y : Divisors]
    \union UNION {[op : {"reduce"}, x : Ends(biRadix ^ (2 * (biHighIndex(N(m)) + 1))), m : {m}] :
                    m \in Moduli}
    \union [op : {"power"}, x : 1 .. 15, e : 0 .. 5, m : Moduli]
    \union [op : {"text"}, x : 1 .. 300, radix : {2, 3, 10}]
    \union [op : {"rsa"}, key : Keys, text : UNION {[1 .. n -> 1 .. 3] : n \in 1 .. MaxText}]

Init == job \in Jobs /\ result = NoResult

Do(op, outcome) ==
  /\ job.op = op
  /\ result = NoResult
  /\ result' = outcome
  /\ UNCHANGED job

Sum     == Do("sum", <<biAdd(N(job.x), N(job.y)), biSubtract(N(job.x), N(job.y))>>)
Product == Do("product", <<biMultiply(N(job.x), N(job.y))>>)
Divide  == Do("divide", <<biDivide(N(job.x), N(job.y)), biModulo(N(job.x), N(job.y))>>)
Reduce  == Do("reduce", <<BarrettMu_modulo(BarrettMu(N(job.m)), N(job.x))>>)
Power   == Do("power", <<BarrettMu_powMod(BarrettMu(N(job.m)), N(job.x), N(job.e)),
                         biPowMod(N(job.x), N(job.e), N(job.m))>>)

NoLeadingZeros(s) == SelectInSeq(s, LAMBDA c : c # 0)

Text ==
  LET hex     == biToHex(N(job.x))
      short   == SubSeq(hex, NoLeadingZeros(hex), Len(hex))
      digits  == biToString(N(job.x), job.radix)
  IN  Do("text", <<biFromHex(hex), biFromHex(short), biFromString(digits, job.radix),
                   biFromDecimal(<<0>> \o digits, job.radix, 2)>>)

Rsa ==
  LET key == RSAKeyPair(biFromNumber(job.key[1]), biFromNumber(job.key[2]),
                             biFromNumber(job.key[3]))
  IN  Do("rsa", decryptedString(key, encryptedString(key, job.text)))

Next == Sum \/ Product \/ Divide \/ Reduce \/ Power \/ Text \/ Rsa

Spec == Init /\ [][Next]_vars

-----------------------------------------------------------------------------
(* Properties *)

Done(op) == job.op = op /\ result # NoResult

\* The digits make the number v, in an array that has not grown.
Is(x, v) == Value(x) = v /\ DOMAIN x.digits = 0 .. maxDigits - 1

\* Sums, differences and products are those of the integers for every mixture of
\* signs, carries and borrows (biAdd, biSubtract, biMultiply).
SumsExact ==
  /\ Done("sum") => Is(result[1], job.x + job.y) /\ Is(result[2], job.x - job.y)
  /\ Done("product") => Is(result[1], job.x * job.y)

\* A quotient has x = q * y + r and 0 <= r < y, although the loop that lowers a
\* guessed digit stops early: | makes a number of 32 bits negative.  At most one
\* digit too many is left, and adding the divisor back once repairs it.
DivisionExact ==
  Done("divide") => Is(result[1], job.x \div job.y) /\ Is(result[2], job.x % job.y)

\* Barrett reduction is the remainder for every product of two residues, and both
\* powers agree with it.
ReductionExact ==
  /\ Done("reduce") => Is(result[1], job.x % job.m)
  /\ Done("power") => \A i \in 1 .. 2 : Is(result[i], (job.x ^ job.e) % job.m)

\* What is written in a radix is read back, with and without leading zeros, and
\* a text that was encrypted in chunks, padded with NULs, is decrypted to itself,
\* whatever its length.
RoundTrips ==
  /\ Done("text") => \A i \in 1 .. 4 : result[i] = biFromNumber(job.x)
  /\ Done("rsa") => result = job.text
=============================================================================
