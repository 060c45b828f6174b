---------------------------------- MODULE RSA ----------------------------------
(***************************************************************************)
(* Numbers as text, and the encryption of RSA.js.  A text is a sequence of *)
(* values: of hexadecimal digits, of digits in some radix, of characters.  *)
(* Four hexadecimal digits and two characters make a digit of a number, so *)
(* both are narrower than in the code when biRadixBits is less than 16.    *)
(***************************************************************************)
EXTENDS BigInt

hexBase  == 2 ^ (biRadixBits \div 4)
charBase == 2 ^ (biRadixBits \div 2)

-----------------------------------------------------------------------------
(* Numbers as text *)

\* The first n digits of v in the given base, the least significant first.
LowDigits(v, base, n) == [i \in 1 .. n |-> (v \div base ^ (i - 1)) % base]

digitToHex(v) == Reverse(LowDigits(v, hexBase, 4))

biToHex(x) == FlattenSeq([i \in 1 .. biHighIndex(x) + 1 |->
                            digitToHex(x.digits[biHighIndex(x) + 1 - i])])

\* At most four hexadecimal digits.
hexToDigit(s) ==
  LET v[i \in 0 .. Len(s)] == IF i = 0 THEN 0 ELSE v[i - 1] * hexBase + s[i]
  IN  v[Len(s)]

\* Fault: only full groups of four are read.
biFromHexWholeGroups(s) ==
  BigIntOf([j \in 0 .. maxDigits - 1 |->
              IF Len(s) - 4 * j >= 4
              THEN hexToDigit(SubSeq(s, Len(s) - 4 * j - 3, Len(s) - 4 * j)) ELSE 0], FALSE)

\* Digit j is made of the four characters that end 4 * j before the end of s.
biFromHex(s) ==
  LET end(j) == Len(s) - 4 * j
      start(j) == IF end(j) < 4 THEN 1 ELSE end(j) - 3
  IN  BigIntOf([j \in 0 .. maxDigits - 1 |->
                  IF end(j) > 0 THEN hexToDigit(SubSeq(s, start(j), end(j))) ELSE 0], FALSE)

biToString(x, radix) ==
  LET qr[i \in Nat] == biDivideModulo(IF i = 0 THEN x ELSE qr[i - 1].q, FromDigit(radix))
      last == CHOOSE i \in 0 .. maxDigits * biRadixBits :
                /\ biCompare(qr[i].q, bigZero) # 1
                /\ \A j \in 0 .. i - 1 : biCompare(qr[j].q, bigZero) = 1
  IN  [i \in 1 .. last + 1 |-> qr[last + 1 - i].r.digits[0]]

biFromString(s, radix) ==
  LET n == Len(s)
      place[i \in 0 .. n] == IF i = 0 THEN bigOne ELSE biMultiplyDigit(place[i - 1], radix)
      sum[i \in 0 .. n] ==
        IF i = 0 THEN bigZero ELSE biAdd(sum[i - 1], biMultiplyDigit(place[i - 1], s[n + 1 - i]))
  IN  sum[n]

\* Groups of dpl decimal digits, the first of what is left over.
biFromDecimal(s, base, dpl) ==
  LET zeros == Cardinality({i \in DOMAIN s : \A j \in 1 .. i : s[j] = 0})
      t     == SubSeq(s, zeros + 1, Len(s))
      fgl   == IF Len(t) % dpl = 0 THEN dpl ELSE Len(t) % dpl
      number(u) == LET v[i \in 0 .. Len(u)] == IF i = 0 THEN 0 ELSE v[i - 1] * base + u[i]
                   IN  biFromNumber(v[Len(u)])
      group[i \in Nat] ==
        IF i = 0 THEN number(SubSeq(t, 1, fgl))
        ELSE biAdd(biMultiply(group[i - 1], biFromNumber(base ^ dpl)),
                   number(SubSeq(t, fgl + (i - 1) * dpl + 1, fgl + i * dpl)))
  IN  IF t = <<>> THEN bigZero ELSE group[(Len(t) - fgl) \div dpl]

-----------------------------------------------------------------------------
(* RSA *)

RSAKeyPair(e, d, m) ==
  [e |-> e, d |-> d, chunkSize |-> 2 * biHighIndex(m), barrett |-> BarrettMu(m)]

\* Chunk b of the text, padded with NUL; two characters a digit.
Block(key, s, b) ==
  LET char(k) == IF k + 1 \in DOMAIN s THEN s[k + 1] ELSE 0
      at(j)   == b * key.chunkSize + 2 * j
  IN  BigIntOf([j \in 0 .. maxDigits - 1 |->
                  IF 2 * j < key.chunkSize THEN char(at(j)) + char(at(j) + 1) * charBase ELSE 0],
               FALSE)

\* The blocks of the encrypted text.
encryptedString(key, s) ==
  [b \in 1 .. Ceil(Len(s), key.chunkSize) |->
     biToHex(BarrettMu_powMod(key.barrett, Block(key, s, b - 1), key.e))]

\* The two characters of each digit up to the highest; one NUL at the end is dropped.
decryptedString(key, blocks) ==
  LET block(b) == BarrettMu_powMod(key.barrett, biFromHex(blocks[b]), key.d)
      chars(x) == FlattenSeq([j \in 1 .. biHighIndex(x) + 1 |->
                                <<x.digits[j - 1] % charBase, x.digits[j - 1] \div charBase>>])
      text     == FlattenSeq([b \in DOMAIN blocks |-> chars(block(b))])
  IN  IF text # <<>> /\ Last(text) = 0 THEN Front(text) ELSE text
=============================================================================
