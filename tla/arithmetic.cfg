CONSTANTS
  biRadixBits = 4
  maxDigits = 9
  Summands = {0, 1, 2, 7, 8, 15, 16, 17, 30, 31, 32, 127, 128, 240, 255, 256, 257, 1000, 4080, 4095}
  Divisors = {1, 2, 3, 7, 8, 9, 15, 16, 17, 24, 31, 127, 128, 129, 130, 143, 144, 239, 240, 247, 254, 255, 256, 257, 1023}
  Moduli = {16, 17, 143, 240, 255, 256, 323, 3233, 4095}
  MaxText = 4
  NoResult = NoResult
SPECIFICATION Spec
CHECK_DEADLOCK FALSE
INVARIANT SumsExact
INVARIANT DivisionExact
INVARIANT ReductionExact
 
