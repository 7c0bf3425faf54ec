---------------------------- MODULE DriveProofs ----------------------------
(***************************************************************************)
(* Lemmas about numbers and their digits, for every width of a byte, and   *)
(* about the address that the code sends to the drive.                     *)
(***************************************************************************)
EXTENDS Drive, TLAPS

-----------------------------------------------------------------------------
(* Numbers and their digits *)

(* Quotient and remainder. *)
LEMMA DivMod ==
  ASSUME NEW x \in Nat, NEW b \in Nat \ {0}
  PROVE  x \div b \in Nat /\ x % b \in 0 .. (b - 1) /\ x = (b * (x \div b)) + (x % b)
OBVIOUS

(* They are the only ones. *)
LEMMA DivModUnique ==
  ASSUME NEW b \in Nat \ {0}, NEW q \in Nat, NEW r \in 0 .. (b - 1)
  PROVE  ((b * q) + r) \div b = q /\ ((b * q) + r) % b = r
OBVIOUS

(* Shifting twice is shifting once, by the product of the weights. *)
LEMMA DivDiv ==
  ASSUME NEW n \in Nat, NEW b \in Nat \ {0}, NEW c \in Nat \ {0}
  PROVE  b * c \in Nat \ {0} /\ n \div (b * c) = (n \div b) \div c
<1> DEFINE q == n \div b
           r == n % b
           s == q \div c
           t == q % c
<1>1. q \in Nat /\ r \in 0 .. (b - 1) /\ n = (b * q) + r
  BY DivMod
<1> HIDE DEF q, r
<1>2. s \in Nat /\ t \in 0 .. (c - 1) /\ q = (c * s) + t
  BY <1>1, DivMod
<1> HIDE DEF s, t
<1>3. b * c \in Nat \ {0}
  OBVIOUS
<1>4. (b * t) + r \in 0 .. ((b * c) - 1)
  <2>1. \A x, y \in Nat : x + 1 <= y => (b * x) + b <= b * y
    OBVIOUS
  <2>2. (b * t) + b <= b * c /\ b * t \in Nat
    BY <1>2, <2>1
  <2> QED BY <1>1, <1>3, <2>2
<1>5. n = ((b * c) * s) + ((b * t) + r)
  <2>1. \A x, y, z, w \in Nat : x * ((y * z) + w) = ((x * y) * z) + (x * w)
    OBVIOUS
  <2>2. b * ((c * s) + t) = ((b * c) * s) + (b * t)
    BY <1>2, <2>1
  <2>3. (b * c) * s \in Nat /\ b * t \in Nat
    BY <1>2, <1>3
  <2> QED BY <1>1, <1>2, <2>2, <2>3
<1> DEFINE bc  == b * c
           low == (b * t) + r
<1>6. bc \in Nat \ {0} /\ low \in 0 .. (bc - 1) /\ n = (bc * s) + low
  BY <1>3, <1>4, <1>5
<1> HIDE DEF bc, low
<1>7. n \div bc = s
  BY <1>2, <1>6, DivModUnique
<1> QED BY <1>3, <1>7 DEF bc, s, q

(* A digit, and what is left above it. *)
LEMMA DigitFacts ==
  ASSUME NEW n \in Nat, NEW w \in Nat \ {0}, NEW k \in Nat \ {0}
  PROVE  /\ Digit(n, w, k) \in Nat /\ n \div w \in Nat
         /\ n \div w = Digit(n, w, k) + (k * (n \div (w * k)))
<1>1. n \div w \in Nat
  BY DivMod
<1>2. /\ (n \div w) \div k \in Nat /\ (n \div w) % k \in Nat
      /\ n \div w = (k * ((n \div w) \div k)) + ((n \div w) % k)
  BY <1>1, DivMod
<1>3. k * ((n \div w) \div k) \in Nat
  BY <1>2
<1>4. n \div (w * k) = (n \div w) \div k
  BY DivDiv
<1> DEFINE up == (n \div w) \div k
<1> HIDE DEF up
<1>5. up \in Nat /\ n \div w = (k * up) + Digit(n, w, k) /\ Digit(n, w, k) \in Nat /\ k * up \in Nat
  BY <1>2, <1>3 DEF up, Digit
<1>6. n \div w = Digit(n, w, k) + (k * up)
  BY <1>5
<1> QED BY <1>1, <1>4, <1>5, <1>6 DEF up

(* The widths, as products. *)
LEMMA Widths ==
  /\ Nibble \in Nat \ {0, 1} /\ Byte \in Nat \ {0} /\ Half \in Nat \ {0} /\ Word \in Nat \ {0}
  /\ Byte * Half \in Nat \ {0} /\ Half * Nibble \in Nat \ {0}
  /\ Byte = Nibble * Nibble /\ Half = Byte * Byte /\ Word = (Byte * Half) * Byte
  /\ Byte < Half /\ Half < Word
<1>1. Nibble \in Nat \ {0, 1}
  BY WordsAssumption
<1>2. \A x, y \in Nat \ {0} : x * y \in Nat \ {0}
  OBVIOUS
<1>3. Byte \in Nat \ {0} /\ Byte = Nibble * Nibble /\ Byte > 1
  <2>1. \A x \in Nat : x > 1 => x * x > 1
    OBVIOUS
  <2> QED BY <1>1, <1>2, <2>1 DEF Byte
<1>4. Half \in Nat \ {0} /\ Half = Byte * Byte
  BY <1>2, <1>3 DEF Half
<1>5. Word \in Nat \ {0} /\ Byte * Half \in Nat \ {0} /\ Half * Nibble \in Nat \ {0}
  BY <1>1, <1>2, <1>3, <1>4 DEF Word
<1>6. \A x, y \in Nat : (x * x) * y = (x * y) * x
  OBVIOUS
<1>7. Word = (Byte * Half) * Byte
  BY <1>3, <1>4, <1>6 DEF Word
<1>8. Byte < Half /\ Half < Word
  <2>1. \A x \in Nat : x > 1 => x < x * x
    OBVIOUS
  <2> QED BY <1>3, <1>4, <2>1 DEF Word
<1> QED BY <1>1, <1>3, <1>4, <1>5, <1>7, <1>8

(* Four digits, the last of any size, make the number they are taken from. *)
LEMMA FourDigits ==
  ASSUME NEW n \in Nat, NEW k \in Nat \ {0}, n < (Byte * Half) * k
  PROVE  LET a == Digit(n, 1, Byte)
             b == Digit(n, Byte, Byte)
             c == Digit(n, Half, Byte)
             d == Digit(n, Byte * Half, k)
         IN  a + (b * Byte) + (c * Half) + (d * Byte * Half) = n
<1> DEFINE a == Digit(n, 1, Byte)
           b == Digit(n, Byte, Byte)
           c == Digit(n, Half, Byte)
           d == Digit(n, Byte * Half, k)
<1>0. /\ Byte \in Nat \ {0} /\ Half \in Nat \ {0} /\ Byte * Half \in Nat \ {0}
      /\ Half = Byte * Byte /\ 1 * Byte = Byte /\ Half * Byte = Byte * Half /\ 1 \in Nat \ {0}
  BY Widths
<1>1. a \in Nat /\ n = a + (Byte * (n \div Byte))
  <2>1. n \div 1 = n
    OBVIOUS
  <2>2. a \in Nat /\ n \div 1 = a + (Byte * (n \div (1 * Byte)))
    BY <1>0, DigitFacts
  <2> QED BY <1>0, <2>1, <2>2
<1>2. b \in Nat /\ n \div Byte = b + (Byte * (n \div Half))
  <2>1. b \in Nat /\ n \div Byte = b + (Byte * (n \div (Byte * Byte)))
    BY <1>0, DigitFacts
  <2> QED BY <1>0, <2>1
<1>3. c \in Nat /\ n \div Half = c + (Byte * (n \div (Byte * Half)))
  <2>1. c \in Nat /\ n \div Half = c + (Byte * (n \div (Half * Byte)))
    BY <1>0, DigitFacts
  <2> QED BY <1>0, <2>1
<1>4. d \in Nat /\ n \div (Byte * Half) = d
  <2> DEFINE w == Byte * Half
  <2>1. w \in Nat \ {0}
    BY <1>0
  <2> HIDE DEF w
  <2>2. w * k \in Nat \ {0} /\ n < w * k
    BY <2>1 DEF w
  <2>3. \A x \in Nat, m \in Nat \ {0} : x < m => x \div m = 0
    OBVIOUS
  <2>4. n \div (w * k) = 0
    BY <2>2, <2>3
  <2>5. Digit(n, w, k) \in Nat /\ n \div w = Digit(n, w, k) + (k * 0)
    BY <2>1, <2>4, DigitFacts
  <2> QED BY <2>5 DEF w
<1> HIDE DEF a, b, c, d
<1>5. n = a + (Byte * (b + (Byte * (c + (Byte * d)))))
  BY <1>1, <1>2, <1>3, <1>4
<1>6. \A x, p, q, r, s \in Nat :
         p + (x * (q + (x * (r + (x * s))))) = p + (q * x) + (r * (x * x)) + ((s * x) * (x * x))
  <2>1. \A x, y, z \in Nat : x * (y + z) = (x * y) + (x * z) /\ x * y \in Nat
    OBVIOUS
  <2>2. \A x, y \in Nat : x * y = y * x
    OBVIOUS
  <2>3. \A x, y \in Nat : x * (x * y) = y * (x * x) /\ x * (x * (x * y)) = (y * x) * (x * x)
    OBVIOUS
  <2> TAKE x, p, q, r, s \in Nat
  <2>4. x * (r + (x * s)) = (x * r) + (x * (x * s)) /\ x * s \in Nat /\ x * (x * s) \in Nat /\ x * r \in Nat
    BY <2>1
  <2>5. x * ((x * r) + (x * (x * s))) = (x * (x * r)) + (x * (x * (x * s)))
        /\ x * (x * r) \in Nat /\ x * (x * (x * s)) \in Nat
    BY <2>1, <2>4
  <2>6. x * (q + (x * (r + (x * s)))) = (x * q) + ((x * (x * r)) + (x * (x * (x * s)))) /\ x * q \in Nat
    BY <2>1, <2>4, <2>5
  <2>7. x * q = q * x /\ x * (x * r) = r * (x * x) /\ x * (x * (x * s)) = (s * x) * (x * x)
    BY <2>2, <2>3
  <2> QED BY <2>4, <2>5, <2>6, <2>7
<1> QED BY <1>0, <1>1, <1>2, <1>3, <1>4, <1>5, <1>6 DEF a, b, c, d

(* And three digits, of a byte, a byte and half a byte. *)
LEMMA ThreeDigits ==
  ASSUME NEW n \in Nat, n < Half * Nibble
  PROVE  Digit(n, 1, Byte) + (Digit(n, Byte, Byte) * Byte) + (Digit(n, Half, Nibble) * Half) = n
<1> DEFINE a == Digit(n, 1, Byte)
           b == Digit(n, Byte, Byte)
           c == Digit(n, Half, Nibble)
<1>0. /\ Byte \in Nat \ {0} /\ Half \in Nat \ {0} /\ Nibble \in Nat \ {0}
      /\ Half = Byte * Byte /\ 1 * Byte = Byte /\ 1 \in Nat \ {0}
  BY Widths
<1>1. a \in Nat /\ n = a + (Byte * (n \div Byte))
  <2>1. n \div 1 = n
    OBVIOUS
  <2>2. a \in Nat /\ n \div 1 = a + (Byte * (n \div (1 * Byte)))
    BY <1>0, DigitFacts
  <2> QED BY <1>0, <2>1, <2>2
<1>2. b \in Nat /\ n \div Byte = b + (Byte * (n \div Half))
  <2>1. b \in Nat /\ n \div Byte = b + (Byte * (n \div (Byte * Byte)))
    BY <1>0, DigitFacts
  <2> QED BY <1>0, <2>1
<1>3. c \in Nat /\ n \div Half = c
  <2>1. Half * Nibble \in Nat \ {0}
    BY Widths
  <2>2. \A x \in Nat, m \in Nat \ {0} : x < m => x \div m = 0
    OBVIOUS
  <2>3. n \div (Half * Nibble) = 0
    BY <2>1, <2>2
  <2>4. c \in Nat /\ n \div Half = c + (Nibble * (n \div (Half * Nibble)))
    BY <1>0, DigitFacts
  <2> QED BY <1>0, <2>3, <2>4
<1> HIDE DEF a, b, c
<1>4. n = a + (Byte * (b + (Byte * c)))
  BY <1>1, <1>2, <1>3
<1>5. \A x, y, z \in Nat : x * (y + z) = (x * y) + (x * z)
  OBVIOUS
<1>6. \A x, y \in Nat : x * (x * y) = y * (x * x) /\ x * y = y * x /\ x * y \in Nat
  OBVIOUS
<1>7. Byte * (b + (Byte * c)) = (Byte * b) + (Byte * (Byte * c))
  BY <1>0, <1>2, <1>3, <1>5, <1>6
<1>8. Byte * (Byte * c) = c * Half /\ Byte * b = b * Byte /\ b * Byte \in Nat /\ c * Half \in Nat
  BY <1>0, <1>2, <1>3, <1>6
<1> QED BY <1>1, <1>4, <1>7, <1>8 DEF a, b, c

-----------------------------------------------------------------------------
(* Sectors *)

(* The drive gets the sector that was asked for, up to 28 bits. *)
LEMMA SectorAddressed ==
  ASSUME NEW lba \in Nat, lba < (Byte * Half) * Nibble
  PROVE  Addressed(CommandRegisters(lba)) = lba
<1> DEFINE a == Digit(lba, 1, Byte)
           b == Digit(lba, Byte, Byte)
           c == Digit(lba, Half, Byte)
           d == Digit(lba, Byte * Half, Nibble)
<1>1. a + (b * Byte) + (c * Half) + (d * Byte * Half) = lba
  BY Widths, FourDigits
<1>2. CommandRegisters(lba) = <<a, b, c, d>>
  BY DEF CommandRegisters
<1> HIDE DEF a, b, c, d
<1> QED BY <1>1, <1>2 DEF Addressed

(* So does every sector whose number is at most a byte. *)
LEMMA LowSectorAddressed ==
  ASSUME NEW lba \in Nat, lba <= Byte
  PROVE  Addressed(CommandRegisters(lba)) = lba
<1>1. Nibble \in Nat \ {0} /\ Byte \in Nat \ {0} /\ Byte < (Byte * Half) * Nibble
  <2>1. \A x, y, z \in Nat : x > 0 /\ y > 0 /\ z > 1 => x < (x * y) * z
    <3>1. \A x, y \in Nat : x > 0 /\ y > 0 => x <= x * y /\ x * y \in Nat
      OBVIOUS
    <3>2. \A x, y \in Nat : x > 0 /\ y > 1 => x < x * y
      OBVIOUS
    <3> QED BY <3>1, <3>2
  <2>2. Byte > 0 /\ Half > 0 /\ Nibble > 1 /\ Byte \in Nat /\ Half \in Nat /\ Nibble \in Nat
    BY Widths
  <2> QED BY <2>1, <2>2, Widths
<1>2. lba < (Byte * Half) * Nibble
  <2> DEFINE m == (Byte * Half) * Nibble
  <2>1. m \in Nat
    BY <1>1, Widths
  <2> HIDE DEF m
  <2> QED BY <1>1, <2>1 DEF m
<1> QED BY <1>2, SectorAddressed
=============================================================================
