-------------------------- MODULE Intel8080Proofs --------------------------
(***************************************************************************)
(* For every guest program, every value of its operands and everything it  *)
(* finds on its ports: the arithmetic of the 8080 is that of integers, in  *)
(* one byte, in many and in decimal; each instruction goes on where the    *)
(* disassembler says; the stack keeps the words pushed on it; and the      *)
(* characters typed arrive once and in their order.                        *)
(*                                                                         *)
(* The operations on A come first, on their own (Alu8080).  Then every     *)
(* instruction is shown to keep the widths of registers and cells          *)
(* (CpuTyped) and, those that push or pop, the words of the stack          *)
(* (StackHeld); arithmetic modulo 65536 takes the stack around the ends of *)
(* memory.  The characters follow from what IN alone changes               *)
(* (TerminalInv).  Then the flags: that the table of the odd nibbles tells *)
(* the parity of a byte is counted out bit by bit.  At the end what a sum  *)
(* of several bytes keeps in the carry from one to the next (LongInv), and *)
(* what an addition leaves for DAA (SumLeft).                              *)
(***************************************************************************)
EXTENDS Intel8080, FiniteSetTheorems, TLAPS

\* The carry as the ninth bit of a result.
Ninth(carry) == IF carry THEN BYTES ELSE 0

\* GenAdd without its half carry.
LEMMA AdditionFields ==
    ASSUME NEW a \in Byte, NEW val \in 0..BYTES
    PROVE  /\ GenAdd(a, val).a = (a + val) % 256
           /\ GenAdd(a, val).carry = (a + val > 255)
BY DEF GenAdd, CheckCarry, BYTES

\* An addition is that of integers, with the carry as the ninth bit, also when a
\* carry in makes the operand 256 (i8080_genadd, i8080_adc).
THEOREM AdditionIsExact ==
    ASSUME NEW a \in Byte, NEW val \in 0..BYTES
    PROVE  /\ GenAdd(a, val).a \in Byte
           /\ GenAdd(a, val).a + Ninth(GenAdd(a, val).carry) = a + val
<1>1. a \in Int /\ val \in Int /\ a >= 0 /\ val >= 0 /\ a + val <= 511
    BY DEF Byte, BYTES
<1>2. (a + val) % 256 = IF a + val > 255 THEN a + val - 256 ELSE a + val
    BY <1>1
<1>3. GenAdd(a, val).a = IF a + val > 255 THEN a + val - 256 ELSE a + val
    BY <1>2, AdditionFields
<1>4. Ninth(GenAdd(a, val).carry) = IF a + val > 255 THEN 256 ELSE 0
    BY AdditionFields DEF Ninth, BYTES
<1> QED BY <1>1, <1>3, <1>4 DEF Byte, BYTES

\* GenSub without its half carry: it borrows exactly from a smaller A.
LEMMA SubtractionFields ==
    ASSUME NEW a \in Byte, NEW val \in 0..BYTES
    PROVE  /\ GenSub(a, val).a = IF a < val THEN a - val + 256 ELSE a - val
           /\ GenSub(a, val).carry = (a < val)
<1>1. a \in Int /\ val \in Int /\ a >= 0 /\ a <= 255 /\ val >= 0 /\ val <= 256
    BY DEF Byte, BYTES
<1>2. GenSub(a, val).a = (a + (256 - val)) % 256
    BY DEF GenSub, BYTES
<1>3. GenSub(a, val).carry = ~(a + (256 - val) > 255)
    BY DEF GenSub, CheckCarry, BYTES
<1>4. (a + (256 - val)) % 256 = IF a < val THEN a - val + 256 ELSE a - val
    BY <1>1
<1>5. ~(a + (256 - val) > 255) <=> a < val
    BY <1>1
<1> QED BY <1>2, <1>3, <1>4, <1>5

\* A subtraction is that of integers, with the carry as the borrow, also when a
\* borrow in makes the operand 256 and its two's complement 0 (i8080_gensub).
THEOREM SubtractionIsExact ==
    ASSUME NEW a \in Byte, NEW val \in 0..BYTES
    PROVE  /\ GenSub(a, val).a \in Byte
           /\ GenSub(a, val).a - Ninth(GenSub(a, val).carry) = a - val
<1>1. a \in Int /\ val \in Int /\ a >= 0 /\ a <= 255 /\ val >= 0 /\ val <= 256
    BY DEF Byte, BYTES
<1>2. Ninth(GenSub(a, val).carry) = IF a < val THEN 256 ELSE 0
    BY SubtractionFields DEF Ninth, BYTES
<1>3. GenSub(a, val).a = IF a < val THEN a - val + 256 ELSE a - val
    BY SubtractionFields
<1> QED BY <1>1, <1>2, <1>3 DEF Byte, BYTES

\* The carry of a subtraction orders its operands, and it leaves 0 only for equal
\* ones: what a guest reads from the flags after CMP (i8080_compare).
THEOREM ComparisonOrders ==
    ASSUME NEW a \in Byte, NEW val \in Byte
    PROVE  /\ GenSub(a, val).carry <=> a < val
           /\ GenSub(a, val).a = 0 <=> a = val
<1>1. val \in 0..BYTES /\ a \in 0..255 /\ val \in 0..255
    BY DEF Byte, BYTES
<1>2. /\ GenSub(a, val).a = IF a < val THEN a - val + 256 ELSE a - val
      /\ GenSub(a, val).carry = (a < val)
    BY <1>1, SubtractionFields
<1>3. (IF a < val THEN a - val + 256 ELSE a - val) = 0 <=> a = val
    BY <1>1
<1> QED BY <1>2, <1>3

-----------------------------------------------------------------------------
\* What an addition and DAA leave.
Adjusted(sum) == GenAdd(sum.a, Adjustment(sum.a, sum.half, sum.carry))

\* DAA looks at the digits of the binary sum and at its carries.
LEMMA WhatIsAdjusted ==
    ASSUME NEW t \in 0..18, NEW u \in 0..19, 16 * t + u \notin 250..255
    PROVE  Adjustment((16 * t + u) % 256, u > 15, 16 * t + u > 255)
                = IF u > 9 THEN IF t >= 9 THEN 102 ELSE 6
                           ELSE IF t >= 10 THEN 96 ELSE 0
<1> DEFINE a == (16 * t + u) % 256
           low == IF a % 16 > 9 \/ u > 15 THEN 6 ELSE 0
           val == (a + low) % BYTES
<1>1. a % 16 = u % 16
    OBVIOUS
<1>2. low = IF u > 9 THEN 6 ELSE 0
    BY <1>1
<1>3. CASE u > 9
  <2>1. val = (16 * t + u + 6) % 256
      BY <1>2, <1>3 DEF BYTES
  <2>2. val \div 16 = (t + 1) % 16
      BY <2>1, <1>3
  <2>3. val \div 16 > 9 \/ 16 * t + u > 255 <=> t >= 9
      BY <2>2, <1>3
  <2> QED BY <2>3, <1>2, <1>3 DEF Adjustment
<1>4. CASE ~(u > 9)
  <2>1. val = (16 * t + u) % 256
      BY <1>2, <1>4 DEF BYTES
  <2>2. val \div 16 = t % 16
      BY <2>1, <1>4
  <2>3. val \div 16 > 9 \/ 16 * t + u > 255 <=> t >= 10
      BY <2>2, <1>4
  <2> QED BY <2>3, <1>2, <1>4 DEF Adjustment
<1> QED BY <1>3, <1>4

\* DAA after an addition of decimal bytes leaves the two decimal digits of their sum,
\* for all operands whose binary sum is not 250 to 255, and the carry of the hundred
\* if the addition itself had none (i8080_daa).
THEOREM DecimalDigits ==
    ASSUME NEW x1 \in 0..9, NEW x0 \in 0..9, NEW y1 \in 0..9, NEW y0 \in 0..9,
           NEW c \in 0..1,
           16 * (x1 + y1) + (x0 + y0 + c) \notin 250..255
    PROVE  LET u == x0 + y0 + c
               t == x1 + y1 + (IF u > 9 THEN 1 ELSE 0)
               sum == Adjusted(GenAdd(16 * x1 + x0, 16 * y1 + y0 + c))
           IN  /\ sum.a = 16 * (t % 10) + (u % 10)
               /\ sum.carry <=> /\ 10 * (x1 + y1) + u >= 100
                                /\ 16 * (x1 + y1) + u < 256
<1> DEFINE s == GenAdd(16 * x1 + x0, 16 * y1 + y0 + c)
           t == x1 + y1
           u == x0 + y0 + c
           d == IF u > 9 THEN IF t >= 9 THEN 102 ELSE 6
                         ELSE IF t >= 10 THEN 96 ELSE 0
<1>1. t \in 0..18 /\ u \in 0..19
    OBVIOUS
<1>2. s.a = (16 * t + u) % 256 /\ s.carry = (16 * t + u > 255) /\ s.half = (u > 15)
  <2>1. (16 * x1 + x0) + (16 * y1 + y0 + c) = 16 * t + u
      OBVIOUS
  <2>2. (16 * x1 + x0) % 16 = x0
      OBVIOUS
  <2>3. (16 * y1 + y0 + c) % 16 = y0 + c
      OBVIOUS
  <2>4. CheckHalfCarry(16 * x1 + x0, 16 * y1 + y0 + c) = (x0 + (y0 + c) > 15)
      BY <2>2, <2>3 DEF CheckHalfCarry
  <2>5. x0 + (y0 + c) > 15 <=> u > 15
      OBVIOUS
  <2>6. s.a = (16 * t + u) % 256
      BY <2>1 DEF GenAdd, BYTES
  <2>7. s.carry = (16 * t + u > 255)
      BY <2>1 DEF GenAdd, CheckCarry
  <2>8. s.half = CheckHalfCarry(16 * x1 + x0, 16 * y1 + y0 + c)
      BY DEF GenAdd
  <2>9. s.half = (u > 15)
    <3> HIDE DEF s, t, u
    <3> QED BY <2>4, <2>5, <2>8
  <2> QED BY <2>6, <2>7, <2>9
<1>3. Adjustment(s.a, s.half, s.carry) = d
  <2> HIDE DEF s, t, u
  <2>1. 16 * t + u \notin 250..255
      BY DEF t, u
  <2>2. Adjustment((16 * t + u) % 256, u > 15, 16 * t + u > 255) = d
      BY <1>1, <2>1, WhatIsAdjusted
  <2> QED BY <1>2, <2>2
<1> HIDE DEF s, t, u
<1>4. Adjusted(s).a = (((16 * t + u) % 256) + d) % 256
    BY <1>2, <1>3 DEF Adjusted, GenAdd, BYTES
<1>5. (((16 * t + u) % 256) + d) % 256 = (16 * t + u + d) % 256
    BY <1>1
<1>6. (16 * t + u + d) % 256 = 16 * ((t + (IF u > 9 THEN 1 ELSE 0)) % 10) + (u % 10)
  <2>1. CASE u > 9 /\ t >= 9
    <3>1. (16 * t + u + 102) % 256 = 16 * (t - 9) + (u - 10)
        BY <2>1, <1>1
    <3>2. (t + 1) % 10 = t - 9 /\ u % 10 = u - 10
        BY <2>1, <1>1
    <3> QED BY <3>1, <3>2, <2>1
  <2>2. CASE u > 9 /\ ~(t >= 9)
    <3>1. (16 * t + u + 6) % 256 = 16 * (t + 1) + (u - 10)
        BY <2>2, <1>1
    <3>2. (t + 1) % 10 = t + 1 /\ u % 10 = u - 10
        BY <2>2, <1>1
    <3> QED BY <3>1, <3>2, <2>2
  <2>3. CASE ~(u > 9) /\ t >= 10
    <3>1. (16 * t + u + 96) % 256 = 16 * (t - 10) + u
        BY <2>3, <1>1
    <3>2. (t + 0) % 10 = t - 10 /\ u % 10 = u
        BY <2>3, <1>1
    <3> QED BY <3>1, <3>2, <2>3
  <2>4. CASE ~(u > 9) /\ ~(t >= 10)
    <3>1. (16 * t + u + 0) % 256 = 16 * t + u
        BY <2>4, <1>1
    <3>2. (t + 0) % 10 = t /\ u % 10 = u
        BY <2>4, <1>1
    <3> QED BY <3>1, <3>2, <2>4
  <2> QED BY <2>1, <2>2, <2>3, <2>4
<1>7. Adjusted(s).carry <=> ((16 * t + u) % 256) + d > 255
  <2> HIDE DEF d
  <2>1. Adjusted(s) = GenAdd(s.a, d)
      BY <1>3 DEF Adjusted
  <2>2. GenAdd(s.a, d).carry = (s.a + d > 255)
      BY DEF GenAdd, CheckCarry
  <2> QED BY <1>2, <2>1, <2>2
<1>8. 16 * t + u \notin 250..255
    BY DEF t, u
<1>9. ((16 * t + u) % 256) + d > 255 <=> 10 * t + u >= 100 /\ 16 * t + u < 256
  <2>1. CASE 16 * t + u < 256
    <3>1. (16 * t + u) % 256 = 16 * t + u /\ 16 * t + u < 250
        BY <1>1, <1>8, <2>1
    <3> QED BY <1>1, <2>1, <3>1
  <2>2. CASE 16 * t + u >= 256
    <3>1. (16 * t + u) % 256 = 16 * t + u - 256
        BY <1>1, <2>2
    <3> QED BY <1>1, <2>2, <3>1
  <2> QED BY <1>1, <2>1, <2>2
<1> QED BY <1>4, <1>5, <1>6, <1>7, <1>9 DEF s, t, u

-----------------------------------------------------------------------------
\* The intervals, as the arithmetic of the proofs uses them.
LEMMA Interval ==
    \A n \in Int : \A x : x \in 0..n - 1 <=> x \in Int /\ 0 <= x /\ x <= n - 1
  OBVIOUS

LEMMA WordIs == \A x : x \in Word <=> x \in Int /\ 0 <= x /\ x <= 65535
  <1>1. WORDS \in Int /\ WORDS - 1 = 65535
    BY DEF WORDS
  <1> QED BY <1>1, Interval DEF Word

LEMMA ByteIs == \A x : x \in Byte <=> x \in Int /\ 0 <= x /\ x <= 255
  <1>1. BYTES \in Int /\ BYTES - 1 = 255
    BY DEF BYTES
  <1> QED BY <1>1, Interval DEF Byte

\* A word is its two bytes.
LEMMA TwoBytes ==
    /\ \A w \in Word : /\ w % BYTES \in Byte /\ w \div BYTES \in Byte
                       /\ (w % BYTES) + BYTES * (w \div BYTES) = w
    /\ \A low \in Byte, high \in Byte : /\ low + BYTES * high \in Word
                                        /\ BYTES * high + low \in Word
  BY ByteIs, WordIs DEF BYTES

\* Arithmetic on addresses and on bytes wraps around.
LEMMA Wraps == \A x \in Int : x % WORDS \in Word /\ x % BYTES \in Byte
  BY ByteIs, WordIs DEF BYTES, WORDS

\* A set of bits makes a byte.
LEMMA FromBitsByte == ASSUME NEW S PROVE FromBits(S) \in Byte
  <1>1. /\ 2^0 = 1 /\ 2^1 = 2 /\ 2^2 = 4 /\ 2^3 = 8
        /\ 2^4 = 16 /\ 2^5 = 32 /\ 2^6 = 64 /\ 2^7 = 128
    OBVIOUS
  <1> QED BY <1>1, ByteIs DEF FromBits

-----------------------------------------------------------------------------
\* What a cell holds, also one that was never written.
LEMMA ReadByte == ASSUME NEW m, IsMemory(m), NEW a \in Int PROVE Read8(m, a) \in Byte
  BY ByteIs DEF Read8, IsMemory

LEMMA ReadWord == ASSUME NEW m, IsMemory(m), NEW a \in Int PROVE Read16(m, a) \in Word
  <1>1. Read8(m, a) \in Byte /\ Read8(m, a + 1) \in Byte
    BY ReadByte
  <1> QED BY <1>1, TwoBytes DEF Read16

\* A written byte is read back, and no other changes.
LEMMA WriteByte ==
    ASSUME NEW m, IsMemory(m), NEW a \in Int, NEW val \in Byte
    PROVE  /\ IsMemory(Write8(m, a, val))
           /\ \A b \in Int : Read8(Write8(m, a, val), b) =
                                IF b % WORDS = a % WORDS THEN val ELSE Read8(m, b)
  <1> DEFINE cell == a % WORDS
  <1>1. cell \in Word
    BY Wraps
  <1>2. Write8(m, a, val) = [x \in DOMAIN m \cup {cell} |-> IF x = cell THEN val ELSE m[x]]
    BY DEF Write8
  <1> HIDE DEF cell
  <1>3. IsMemory(Write8(m, a, val))
    BY <1>1, <1>2 DEF IsMemory
  <1>4. ASSUME NEW b \in Int
        PROVE  Read8(Write8(m, a, val), b) = IF b % WORDS = cell THEN val ELSE Read8(m, b)
    BY <1>2 DEF Read8
  <1> QED BY <1>3, <1>4 DEF cell

\* A word is read as it was written, and the words that it does not overlap are
\* left alone, also around address 0.
LEMMA WriteWord ==
    ASSUME NEW m, IsMemory(m), NEW a \in Int, NEW val \in Word
    PROVE  /\ IsMemory(Write16(m, a, val))
           /\ \A b \in Int : (b - a) % WORDS = 0 => Read16(Write16(m, a, val), b) = val
           /\ \A b \in Int : (b - a) % WORDS >= 2 /\ (a - b) % WORDS >= 2 =>
                                Read16(Write16(m, a, val), b) = Read16(m, b)
  <1> DEFINE low == val % BYTES
             high == val \div BYTES
             n == Write8(m, a, low)
  <1>1. low \in Byte /\ high \in Byte /\ low + BYTES * high = val
    BY TwoBytes
  <1>2. IsMemory(n) /\ \A b \in Int : Read8(n, b) =
                          IF b % WORDS = a % WORDS THEN low ELSE Read8(m, b)
    BY <1>1, WriteByte
  <1> HIDE DEF n, low, high
  <1>3. Write16(m, a, val) = Write8(n, a + 1, high)
    BY DEF Write16, n, low, high
  <1>4. IsMemory(Write16(m, a, val)) /\ \A b \in Int : Read8(Write16(m, a, val), b) =
                          IF b % WORDS = (a + 1) % WORDS THEN high ELSE Read8(n, b)
    BY <1>1, <1>2, <1>3, WriteByte
  <1>5. ASSUME NEW b \in Int, (b - a) % WORDS = 0
        PROVE  Read16(Write16(m, a, val), b) = val
    <2>1. b % WORDS = a % WORDS /\ b % WORDS # (a + 1) % WORDS /\ (b + 1) % WORDS = (a + 1) % WORDS
      BY <1>5 DEF WORDS
    <2> QED BY <2>1, <1>1, <1>2, <1>4 DEF Read16
  <1>6. ASSUME NEW b \in Int, (b - a) % WORDS >= 2, (a - b) % WORDS >= 2
        PROVE  Read16(Write16(m, a, val), b) = Read16(m, b)
    <2>1. /\ b % WORDS # a % WORDS /\ b % WORDS # (a + 1) % WORDS
          /\ (b + 1) % WORDS # a % WORDS /\ (b + 1) % WORDS # (a + 1) % WORDS
      BY <1>6 DEF WORDS
    <2> QED BY <2>1, <1>2, <1>4 DEF Read16
  <1> QED BY <1>4, <1>5, <1>6

-----------------------------------------------------------------------------
\* The registers, the flags, the cells and the bus hold what fits them.
CpuTyped ==
    /\ reg \in [Registers -> Byte] /\ flags \subseteq 0..7
    /\ sp \in Word /\ pc \in Word /\ IsMemory(memory)
    /\ address_bus \in Word /\ data_bus \in Byte

\* What an instruction takes its operands from.
LEMMA Operands ==
    ASSUME CpuTyped
    PROVE  /\ OpCode \in Byte /\ Imm8 \in Byte /\ Imm16 \in Word
           /\ Source \in 0..7 /\ Destination \in 0..7 /\ RP \in 0..3
           /\ A \in Byte /\ HL \in Word /\ Psw \in Word
           /\ \A pair \in 0..3 : PairRead(pair) \in Word
           /\ \A r \in 0..7 : RegRead(r) \in Byte
  <1>1. pc \in Int /\ pc + 1 \in Int
    BY WordIs DEF CpuTyped
  <1>2. OpCode \in Byte /\ Imm8 \in Byte /\ Imm16 \in Word
    BY <1>1, ReadByte, ReadWord DEF CpuTyped, OpCode, Imm8, Imm16
  <1>3. Source \in 0..7 /\ Destination \in 0..7 /\ RP \in 0..3
    BY <1>2, ByteIs DEF Source, Destination, RP
  <1>4. A \in Byte
    BY DEF CpuTyped, A, REGISTER_A, Registers, MEMORY_ACCESS
  <1>5. ASSUME NEW pair \in 0..3 PROVE PairRead(pair) \in Word
    <2>1. CASE pair = PAIR_SP
      BY <2>1 DEF PairRead, CpuTyped
    <2>2. CASE pair # PAIR_SP
      <3>1. 2 * pair \in Registers /\ 2 * pair + 1 \in Registers
        BY <2>2 DEF PAIR_SP, Registers, MEMORY_ACCESS
      <3>2. reg[2 * pair] \in Byte /\ reg[2 * pair + 1] \in Byte
        BY <3>1 DEF CpuTyped
      <3> QED BY <2>2, <3>2, TwoBytes DEF PairRead
    <2> QED BY <2>1, <2>2
  <1>6. HL \in Word
    BY <1>5 DEF HL, PAIR_HL
  <1>7. Psw \in Word
    BY <1>4, FromBitsByte, TwoBytes DEF Psw
  <1>8. ASSUME NEW r \in 0..7 PROVE RegRead(r) \in Byte
    <2>1. CASE r = MEMORY_ACCESS
      <3>1. HL \in Int
        BY <1>6, WordIs
      <3> QED BY <2>1, <3>1, ReadByte DEF RegRead, CpuTyped
    <2>2. CASE r # MEMORY_ACCESS
      BY <2>2 DEF RegRead, CpuTyped, Registers
    <2> QED BY <2>1, <2>2
  <1> QED BY <1>2, <1>3, <1>4, <1>5, <1>6, <1>7, <1>8

\* What the parts of an instruction write.
LEMMA FetchType ==
    ASSUME CpuTyped, Fetch
    PROVE  address_bus' \in Word /\ data_bus' \in Byte
  BY Operands DEF CpuTyped, Fetch, Bus

LEMMA BusOfType ==
    ASSUME CpuTyped, NEW r, NEW val \in Byte, BusOf(r, val)
    PROVE  address_bus' \in Word /\ data_bus' \in Byte
  BY Operands, FetchType DEF BusOf, Bus

LEMMA AdvanceType ==
    ASSUME CpuTyped, NEW n \in Int, Advance(n)
    PROVE  pc' \in Word
  <1>1. pc + n \in Int
    BY WordIs DEF CpuTyped
  <1> QED BY <1>1, Wraps DEF Advance

LEMMA SetAType ==
    ASSUME CpuTyped, NEW val \in Byte, SetA(val)
    PROVE  reg' \in [Registers -> Byte]
  BY DEF CpuTyped, SetA

LEMMA RegWriteType ==
    ASSUME CpuTyped, NEW r \in 0..7, NEW val \in Byte, RegWrite(r, val)
    PROVE  reg' \in [Registers -> Byte] /\ IsMemory(memory')
  <1>1. HL \in Int
    BY Operands, WordIs
  <1> QED BY <1>1, WriteByte DEF CpuTyped, RegWrite, Registers

LEMMA PairWriteType ==
    ASSUME CpuTyped, NEW pair \in 0..3, NEW val \in Word, PairWrite(pair, val)
    PROVE  reg' \in [Registers -> Byte] /\ sp' \in Word
  <1>1. val % BYTES \in Byte /\ val \div BYTES \in Byte
    BY TwoBytes
  <1> QED BY <1>1 DEF CpuTyped, PairWrite

LEMMA UpdateFlagsType ==
    ASSUME NEW f, f \subseteq 0..7, NEW val
    PROVE  UpdateFlags(f, val) \subseteq 0..7
  <1> DEFINE p == SetTo(f, FLAGS_PARITY, GetParity(val))
             z == SetTo(p, FLAGS_ZERO, val = 0)
  <1>1. p \subseteq 0..7
    BY DEF SetTo, FLAGS_PARITY
  <1> HIDE DEF p
  <1>2. z \subseteq 0..7
    BY <1>1 DEF SetTo, FLAGS_ZERO
  <1> HIDE DEF z
  <1>3. SetTo(z, FLAGS_SIGN, val >= 128) \subseteq 0..7
    BY <1>2 DEF SetTo, FLAGS_SIGN
  <1> QED BY <1>3 DEF UpdateFlags, p, z

LEMMA SumFlagsType ==
    ASSUME CpuTyped, NEW sum
    PROVE  SumFlags(sum) \subseteq 0..7
  <1> DEFINE h == SetTo(flags, FLAGS_H, sum.half)
  <1>1. h \subseteq 0..7
    BY DEF SetTo, CpuTyped, FLAGS_H
  <1> HIDE DEF h
  <1>2. SetTo(h, FLAGS_CARRY, sum.carry) \subseteq 0..7
    BY <1>1 DEF SetTo, FLAGS_CARRY
  <1> QED BY <1>2, UpdateFlagsType DEF SumFlags, h

\* The operations on A.
LEMMA AluType ==
    ASSUME CpuTyped, NEW val \in Byte,
           \/ AddToA(val) \/ AddWithCarry(val) \/ SubFromA(val) \/ SubWithBorrow(val)
           \/ Compare(val)
           \/ AndRegister(val) \/ AndByte(val) \/ OrA(val) \/ XorA(val)
    PROVE  reg' \in [Registers -> Byte] /\ flags' \subseteq 0..7
  <1>1. A \in Int /\ val \in Int /\ val + Carry \in Int
    BY Operands, ByteIs DEF Carry
  <1>2. \A v \in Int : GenAdd(A, v).a \in Byte /\ GenSub(A, v).a \in Byte
    BY <1>1, Wraps DEF GenAdd, GenSub, BYTES
  <1>3. CASE AddToA(val) \/ AddWithCarry(val) \/ SubFromA(val) \/ SubWithBorrow(val)
    <2>1. PICK sum : sum.a \in Byte /\ Result(sum)
      BY <1>1, <1>2, <1>3 DEF AddToA, AddWithCarry, SubFromA, SubWithBorrow
    <2> QED BY <2>1, SetAType, SumFlagsType DEF Result
  <1>4. CASE Compare(val)
    BY <1>4, SumFlagsType DEF Compare, CpuTyped
  <1>5. CASE AndRegister(val) \/ AndByte(val) \/ OrA(val) \/ XorA(val)
    <2>1. PICK S, cleared : Logic(FromBits(S), cleared)
      BY <1>5 DEF AndRegister, AndByte, OrA, XorA
    <2>2. flags \ cleared \subseteq 0..7
      BY DEF CpuTyped
    <2> QED BY <2>1, <2>2, FromBitsByte, SetAType, UpdateFlagsType DEF Logic
  <1> QED BY <1>3, <1>4, <1>5

-----------------------------------------------------------------------------
\* The lengths of the instructions, without the CASE.
LEMMA Lengths ==
    ASSUME OpCode \in Byte
    PROVE  /\ HasByte => InstructionLength = 2
           /\ HasWord => InstructionLength = 3
           /\ OpCode \in Unassigned \ {118} => InstructionLength = 0
           /\ ~HasByte /\ ~HasWord /\ OpCode \notin Unassigned => InstructionLength = 1
  <1>1. ~(HasByte /\ HasWord) /\ (OpCode \in Unassigned => ~HasByte /\ ~HasWord)
    BY ByteIs DEF HasByte, HasWord, Unassigned, OpCodeIs
  <1> QED BY <1>1 DEF InstructionLength

\* An instruction that leaves the stack of the guest alone, and one that goes on
\* with the next.
Plain == ~Pushes /\ ~Pops /\ ~Calls /\ ~Returns /\ OpCode # 227

GoesOn == pc' = (pc + InstructionLength) % WORDS

\* What DAA adds is a byte.
LEMMA AdjustmentType ==
    ASSUME CpuTyped
    PROVE  Adjustment(A, FLAGS_H \in flags, FLAGS_CARRY \in flags) \in Byte
  <1>1. A \in Int
    BY Operands, ByteIs
  <1> QED BY <1>1, ByteIs DEF Adjustment

\* The instructions that several opcodes share: INR and DCR, INX and DCX, DAD, the
\* rotations.
LEMMA StepType ==
    ASSUME CpuTyped, NEW n \in Int, Step(n)
    PROVE  CpuTyped'
  <1> DEFINE new == (RegRead(Destination) + n) % BYTES
  <1>1. new \in Byte
    BY Operands, ByteIs, Wraps
  <1>2. reg' \in [Registers -> Byte] /\ IsMemory(memory')
    BY <1>1, Operands, RegWriteType DEF Step
  <1>3. address_bus' \in Word /\ data_bus' \in Byte
    BY <1>1, BusOfType DEF Step
  <1>4. flags' \subseteq 0..7
    <2> DEFINE h == SetTo(flags, FLAGS_H, CheckHalfCarry(RegRead(Destination), n))
    <2>1. h \subseteq 0..7
      BY DEF SetTo, CpuTyped, FLAGS_H
    <2>2. flags' = UpdateFlags(h, new)
      BY DEF Step
    <2> QED BY <2>1, <2>2, UpdateFlagsType
  <1>5. pc' \in Word /\ sp' \in Word
    BY AdvanceType DEF Step, CpuTyped
  <1> QED BY <1>2, <1>3, <1>4, <1>5 DEF CpuTyped

LEMMA StepPairType ==
    ASSUME CpuTyped, NEW n \in Int, StepPair(n)
    PROVE  CpuTyped'
  <1>1. (PairRead(RP) + n) % WORDS \in Word
    BY Operands, WordIs, Wraps
  <1> QED
    BY <1>1, Operands, PairWriteType, FetchType, AdvanceType DEF StepPair, CpuTyped

LEMMA DadType ==
    ASSUME CpuTyped, Dad
    PROVE  CpuTyped'
  <1> DEFINE val == PairRead(RP) + HL
  <1>1. val % WORDS \in Word
    BY Operands, WordIs, Wraps
  <1>2. reg' \in [Registers -> Byte] /\ sp' \in Word
    BY <1>1, PairWriteType DEF Dad, PAIR_HL
  <1>3. flags' \subseteq 0..7
    BY DEF Dad, CpuTyped, SetTo, FLAGS_CARRY
  <1> QED BY <1>2, <1>3, FetchType, AdvanceType DEF Dad, CpuTyped

LEMMA RotateType ==
    ASSUME CpuTyped, NEW op, NEW out,
           \/ Rotate(op, ((2 * A) % BYTES) + HighBit, out)
           \/ Rotate(op, (A \div 2) + 128 * LowBit, out)
           \/ Rotate(op, ((2 * A) % BYTES) + Carry, out)
           \/ Rotate(op, (A \div 2) + 128 * Carry, out)
    PROVE  CpuTyped'
  <1>1. A \in Int /\ 0 <= A /\ A <= 255
    BY Operands, ByteIs
  <1>2. HighBit \in 0..1 /\ LowBit \in 0..1 /\ Carry \in 0..1
    BY <1>1 DEF HighBit, LowBit, Carry
  <1>3. /\ (2 * A) % BYTES \in Int /\ 0 <= (2 * A) % BYTES /\ (2 * A) % BYTES <= 254
        /\ A \div 2 \in Int /\ 0 <= A \div 2 /\ A \div 2 <= 127
    BY <1>1 DEF BYTES
  <1>4. PICK val \in Byte : Rotate(op, val, out)
    BY <1>2, <1>3, ByteIs
  <1>5. flags' \subseteq 0..7
    BY <1>4 DEF Rotate, CpuTyped, SetTo, FLAGS_CARRY
  <1> QED BY <1>4, <1>5, SetAType, FetchType, AdvanceType DEF Rotate, CpuTyped

\* The instructions that only move, calculate or talk to a device.
LEMMA MovesGoOn ==
    ASSUME CpuTyped,
           Mov \/ Mvi \/ Lxi \/ Lda \/ Sta \/ Lhld \/ Shld \/ Ldax \/ Stax \/
           Xchg
    PROVE  CpuTyped' /\ Plain /\ GoesOn
  <1>0. OpCode \in Byte
    BY Operands
  <1>1. CASE Mov
    <2>1. CpuTyped'
      BY <1>1, Operands, RegWriteType, BusOfType, AdvanceType DEF Mov, CpuTyped,
         MEMORY_ACCESS
    <2>2. Plain
      BY <1>0, <1>1, ByteIs DEF Mov, Plain, Pushes, Pops, Calls, Returns, OpCodeIs
    <2>3. GoesOn
      BY <1>0, <1>1, Lengths, ByteIs
         DEF Mov, GoesOn, Advance, HasByte, HasWord, Unassigned, OpCodeIs
    <2> QED BY <2>1, <2>2, <2>3
  <1>2. CASE Mvi
    <2>1. CpuTyped'
      BY <1>2, Operands, RegWriteType, BusOfType, AdvanceType DEF Mvi, CpuTyped
    <2>2. Plain
      BY <1>0, <1>2, ByteIs DEF Mvi, Plain, Pushes, Pops, Calls, Returns, OpCodeIs
    <2>3. GoesOn
      BY <1>0, <1>2, Lengths, ByteIs
         DEF Mvi, GoesOn, Advance, HasByte, HasWord, Unassigned, OpCodeIs
    <2> QED BY <2>1, <2>2, <2>3
  <1>3. CASE Lxi
    <2>1. CpuTyped'
      BY <1>3, Operands, PairWriteType, FetchType, AdvanceType DEF Lxi, CpuTyped
    <2>2. Plain
      BY <1>0, <1>3, ByteIs DEF Lxi, Plain, Pushes, Pops, Calls, Returns, OpCodeIs
    <2>3. GoesOn
      BY <1>0, <1>3, Lengths, ByteIs
         DEF Lxi, GoesOn, Advance, HasByte, HasWord, Unassigned, OpCodeIs
    <2> QED BY <2>1, <2>2, <2>3
  <1>4. CASE Lda
    <2>1. CpuTyped'
      BY <1>4, Operands, WordIs, ReadByte, SetAType, AdvanceType DEF Lda, Bus, CpuTyped
    <2>2. Plain
      BY <1>0, <1>4, ByteIs DEF Lda, Plain, Pushes, Pops, Calls, Returns, OpCodeIs
    <2>3. GoesOn
      BY <1>0, <1>4, Lengths, ByteIs
         DEF Lda, GoesOn, Advance, HasByte, HasWord, Unassigned, OpCodeIs
    <2> QED BY <2>1, <2>2, <2>3
  <1>5. CASE Sta
    <2>1. CpuTyped'
      BY <1>5, Operands, WordIs, WriteByte, AdvanceType DEF Sta, Bus, CpuTyped
    <2>2. Plain
      BY <1>0, <1>5, ByteIs DEF Sta, Plain, Pushes, Pops, Calls, Returns, OpCodeIs
    <2>3. GoesOn
      BY <1>0, <1>5, Lengths, ByteIs
         DEF Sta, GoesOn, Advance, HasByte, HasWord, Unassigned, OpCodeIs
    <2> QED BY <2>1, <2>2, <2>3
  <1>6. CASE Lhld
    <2>1. CpuTyped'
      BY <1>6, Operands, WordIs, ReadWord, PairWriteType, FetchType, AdvanceType DEF
         Lhld, PAIR_HL, CpuTyped
    <2>2. Plain
      BY <1>0, <1>6, ByteIs DEF Lhld, Plain, Pushes, Pops, Calls, Returns, OpCodeIs
    <2>3. GoesOn
      BY <1>0, <1>6, Lengths, ByteIs
         DEF Lhld, GoesOn, Advance, HasByte, HasWord, Unassigned, OpCodeIs
    <2> QED BY <2>1, <2>2, <2>3
  <1>7. CASE Shld
    <2>1. CpuTyped'
      BY <1>7, Operands, WordIs, WriteWord, FetchType, AdvanceType DEF Shld, CpuTyped
    <2>2. Plain
      BY <1>0, <1>7, ByteIs DEF Shld, Plain, Pushes, Pops, Calls, Returns, OpCodeIs
    <2>3. GoesOn
      BY <1>0, <1>7, Lengths, ByteIs
         DEF Shld, GoesOn, Advance, HasByte, HasWord, Unassigned, OpCodeIs
    <2> QED BY <2>1, <2>2, <2>3
  <1>8. CASE Ldax
    <2>1. CpuTyped'
      BY <1>8, Operands, WordIs, ReadByte, SetAType, FetchType, AdvanceType DEF Ldax,
         CpuTyped
    <2>2. Plain
      BY <1>0, <1>8, ByteIs DEF Ldax, Plain, Pushes, Pops, Calls, Returns, OpCodeIs
    <2>3. GoesOn
      BY <1>0, <1>8, Lengths, ByteIs
         DEF Ldax, GoesOn, Advance, HasByte, HasWord, Unassigned, OpCodeIs
    <2> QED BY <2>1, <2>2, <2>3
  <1>9. CASE Stax
    <2>1. CpuTyped'
      BY <1>9, Operands, WordIs, WriteByte, FetchType, AdvanceType DEF Stax, CpuTyped
    <2>2. Plain
      BY <1>0, <1>9, ByteIs DEF Stax, Plain, Pushes, Pops, Calls, Returns, OpCodeIs
    <2>3. GoesOn
      BY <1>0, <1>9, Lengths, ByteIs
         DEF Stax, GoesOn, Advance, HasByte, HasWord, Unassigned, OpCodeIs
    <2> QED BY <2>1, <2>2, <2>3
  <1>10. CASE Xchg
    <2>1. CpuTyped'
      BY <1>10, FetchType, AdvanceType DEF Xchg, CpuTyped, Registers, MEMORY_ACCESS
    <2>2. Plain
      BY <1>0, <1>10, ByteIs DEF Xchg, Plain, Pushes, Pops, Calls, Returns, OpCodeIs
    <2>3. GoesOn
      BY <1>0, <1>10, Lengths, ByteIs
         DEF Xchg, GoesOn, Advance, HasByte, HasWord, Unassigned, OpCodeIs
    <2> QED BY <2>1, <2>2, <2>3
  <1> QED BY <1>1, <1>2, <1>3, <1>4, <1>5, <1>6, <1>7, <1>8, <1>9, <1>10

LEMMA RegisterOperationsGoOn ==
    ASSUME CpuTyped,
           Add \/ Adc \/ Sub \/ Sbb \/ Ana \/ Xra \/ Ora \/ Cmp
    PROVE  CpuTyped' /\ Plain /\ GoesOn
  <1>0. OpCode \in Byte
    BY Operands
  <1>1. CASE Add
    <2>1. CpuTyped'
      BY <1>1, Operands, AluType, BusOfType, AdvanceType DEF Add, WithRegister, CpuTyped
    <2>2. Plain
      BY <1>0, <1>1, ByteIs DEF Add, WithRegister, Plain, Pushes, Pops, Calls,
         Returns, OpCodeIs
    <2>3. GoesOn
      BY <1>0, <1>1, Lengths, ByteIs
         DEF Add, WithRegister, GoesOn, Advance, HasByte, HasWord, Unassigned, OpCodeIs
    <2> QED BY <2>1, <2>2, <2>3
  <1>2. CASE Adc
    <2>1. CpuTyped'
      BY <1>2, Operands, AluType, BusOfType, AdvanceType DEF Adc, WithRegister, CpuTyped
    <2>2. Plain
      BY <1>0, <1>2, ByteIs DEF Adc, WithRegister, Plain, Pushes, Pops, Calls,
         Returns, OpCodeIs
    <2>3. GoesOn
      BY <1>0, <1>2, Lengths, ByteIs
         DEF Adc, WithRegister, GoesOn, Advance, HasByte, HasWord, Unassigned, OpCodeIs
    <2> QED BY <2>1, <2>2, <2>3
  <1>3. CASE Sub
    <2>1. CpuTyped'
      BY <1>3, Operands, AluType, BusOfType, AdvanceType DEF Sub, WithRegister, CpuTyped
    <2>2. Plain
      BY <1>0, <1>3, ByteIs DEF Sub, WithRegister, Plain, Pushes, Pops, Calls,
         Returns, OpCodeIs
    <2>3. GoesOn
      BY <1>0, <1>3, Lengths, ByteIs
         DEF Sub, WithRegister, GoesOn, Advance, HasByte, HasWord, Unassigned, OpCodeIs
    <2> QED BY <2>1, <2>2, <2>3
  <1>4. CASE Sbb
    <2>1. CpuTyped'
      BY <1>4, Operands, AluType, BusOfType, AdvanceType DEF Sbb, WithRegister, CpuTyped
    <2>2. Plain
      BY <1>0, <1>4, ByteIs DEF Sbb, WithRegister, Plain, Pushes, Pops, Calls,
         Returns, OpCodeIs
    <2>3. GoesOn
      BY <1>0, <1>4, Lengths, ByteIs
         DEF Sbb, WithRegister, GoesOn, Advance, HasByte, HasWord, Unassigned, OpCodeIs
    <2> QED BY <2>1, <2>2, <2>3
  <1>5. CASE Ana
    <2>1. CpuTyped'
      BY <1>5, Operands, AluType, BusOfType, AdvanceType DEF Ana, WithRegister, CpuTyped
    <2>2. Plain
      BY <1>0, <1>5, ByteIs DEF Ana, WithRegister, Plain, Pushes, Pops, Calls,
         Returns, OpCodeIs
    <2>3. GoesOn
      BY <1>0, <1>5, Lengths, ByteIs
         DEF Ana, WithRegister, GoesOn, Advance, HasByte, HasWord, Unassigned, OpCodeIs
    <2> QED BY <2>1, <2>2, <2>3
  <1>6. CASE Xra
    <2>1. CpuTyped'
      BY <1>6, Operands, AluType, BusOfType, AdvanceType DEF Xra, WithRegister, CpuTyped
    <2>2. Plain
      BY <1>0, <1>6, ByteIs DEF Xra, WithRegister, Plain, Pushes, Pops, Calls,
         Returns, OpCodeIs
    <2>3. GoesOn
      BY <1>0, <1>6, Lengths, ByteIs
         DEF Xra, WithRegister, GoesOn, Advance, HasByte, HasWord, Unassigned, OpCodeIs
    <2> QED BY <2>1, <2>2, <2>3
  <1>7. CASE Ora
    <2>1. CpuTyped'
      BY <1>7, Operands, AluType, BusOfType, AdvanceType DEF Ora, WithRegister, CpuTyped
    <2>2. Plain
      BY <1>0, <1>7, ByteIs DEF Ora, WithRegister, Plain, Pushes, Pops, Calls,
         Returns, OpCodeIs
    <2>3. GoesOn
      BY <1>0, <1>7, Lengths, ByteIs
         DEF Ora, WithRegister, GoesOn, Advance, HasByte, HasWord, Unassigned, OpCodeIs
    <2> QED BY <2>1, <2>2, <2>3
  <1>8. CASE Cmp
    <2>1. CpuTyped'
      BY <1>8, Operands, AluType, BusOfType, AdvanceType DEF Cmp, WithRegister, CpuTyped
    <2>2. Plain
      BY <1>0, <1>8, ByteIs DEF Cmp, WithRegister, Plain, Pushes, Pops, Calls,
         Returns, OpCodeIs
    <2>3. GoesOn
      BY <1>0, <1>8, Lengths, ByteIs
         DEF Cmp, WithRegister, GoesOn, Advance, HasByte, HasWord, Unassigned, OpCodeIs
    <2> QED BY <2>1, <2>2, <2>3
  <1> QED BY <1>1, <1>2, <1>3, <1>4, <1>5, <1>6, <1>7, <1>8

LEMMA ByteOperationsGoOn ==
    ASSUME CpuTyped,
           Adi \/ Aci \/ Sui \/ Sbi \/ Ani \/ Xri \/ Ori \/ Cpi
    PROVE  CpuTyped' /\ Plain /\ GoesOn
  <1>0. OpCode \in Byte
    BY Operands
  <1>1. CASE Adi
    <2>1. CpuTyped'
      BY <1>1, Operands, AluType, FetchType, AdvanceType DEF Adi, WithImmediate,
         CpuTyped
    <2>2. Plain
      BY <1>0, <1>1, ByteIs DEF Adi, WithImmediate, Plain, Pushes, Pops, Calls,
         Returns, OpCodeIs
    <2>3. GoesOn
      BY <1>0, <1>1, Lengths, ByteIs
         DEF Adi, WithImmediate, GoesOn, Advance, HasByte, HasWord, Unassigned, OpCodeIs
    <2> QED BY <2>1, <2>2, <2>3
  <1>2. CASE Aci
    <2>1. CpuTyped'
      BY <1>2, Operands, AluType, FetchType, AdvanceType DEF Aci, WithImmediate,
         CpuTyped
    <2>2. Plain
      BY <1>0, <1>2, ByteIs DEF Aci, WithImmediate, Plain, Pushes, Pops, Calls,
         Returns, OpCodeIs
    <2>3. GoesOn
      BY <1>0, <1>2, Lengths, ByteIs
         DEF Aci, WithImmediate, GoesOn, Advance, HasByte, HasWord, Unassigned, OpCodeIs
    <2> QED BY <2>1, <2>2, <2>3
  <1>3. CASE Sui
    <2>1. CpuTyped'
      BY <1>3, Operands, AluType, FetchType, AdvanceType DEF Sui, WithImmediate,
         CpuTyped
    <2>2. Plain
      BY <1>0, <1>3, ByteIs DEF Sui, WithImmediate, Plain, Pushes, Pops, Calls,
         Returns, OpCodeIs
    <2>3. GoesOn
      BY <1>0, <1>3, Lengths, ByteIs
         DEF Sui, WithImmediate, GoesOn, Advance, HasByte, HasWord, Unassigned, OpCodeIs
    <2> QED BY <2>1, <2>2, <2>3
  <1>4. CASE Sbi
    <2>1. CpuTyped'
      BY <1>4, Operands, AluType, FetchType, AdvanceType DEF Sbi, WithImmediate,
         CpuTyped
    <2>2. Plain
      BY <1>0, <1>4, ByteIs DEF Sbi, WithImmediate, Plain, Pushes, Pops, Calls,
         Returns, OpCodeIs
    <2>3. GoesOn
      BY <1>0, <1>4, Lengths, ByteIs
         DEF Sbi, WithImmediate, GoesOn, Advance, HasByte, HasWord, Unassigned, OpCodeIs
    <2> QED BY <2>1, <2>2, <2>3
  <1>5. CASE Ani
    <2>1. CpuTyped'
      BY <1>5, Operands, AluType, FetchType, AdvanceType DEF Ani, WithImmediate,
         CpuTyped
    <2>2. Plain
      BY <1>0, <1>5, ByteIs DEF Ani, WithImmediate, Plain, Pushes, Pops, Calls,
         Returns, OpCodeIs
    <2>3. GoesOn
      BY <1>0, <1>5, Lengths, ByteIs
         DEF Ani, WithImmediate, GoesOn, Advance, HasByte, HasWord, Unassigned, OpCodeIs
    <2> QED BY <2>1, <2>2, <2>3
  <1>6. CASE Xri
    <2>1. CpuTyped'
      BY <1>6, Operands, AluType, FetchType, AdvanceType DEF Xri, WithImmediate,
         CpuTyped
    <2>2. Plain
      BY <1>0, <1>6, ByteIs DEF Xri, WithImmediate, Plain, Pushes, Pops, Calls,
         Returns, OpCodeIs
    <2>3. GoesOn
      BY <1>0, <1>6, Lengths, ByteIs
         DEF Xri, WithImmediate, GoesOn, Advance, HasByte, HasWord, Unassigned, OpCodeIs
    <2> QED BY <2>1, <2>2, <2>3
  <1>7. CASE Ori
    <2>1. CpuTyped'
      BY <1>7, Operands, AluType, FetchType, AdvanceType DEF Ori, WithImmediate,
         CpuTyped
    <2>2. Plain
      BY <1>0, <1>7, ByteIs DEF Ori, WithImmediate, Plain, Pushes, Pops, Calls,
         Returns, OpCodeIs
    <2>3. GoesOn
      BY <1>0, <1>7, Lengths, ByteIs
         DEF Ori, WithImmediate, GoesOn, Advance, HasByte, HasWord, Unassigned, OpCodeIs
    <2> QED BY <2>1, <2>2, <2>3
  <1>8. CASE Cpi
    <2>1. CpuTyped'
      BY <1>8, Operands, AluType, FetchType, AdvanceType DEF Cpi, WithImmediate,
         CpuTyped
    <2>2. Plain
      BY <1>0, <1>8, ByteIs DEF Cpi, WithImmediate, Plain, Pushes, Pops, Calls,
         Returns, OpCodeIs
    <2>3. GoesOn
      BY <1>0, <1>8, Lengths, ByteIs
         DEF Cpi, WithImmediate, GoesOn, Advance, HasByte, HasWord, Unassigned, OpCodeIs
    <2> QED BY <2>1, <2>2, <2>3
  <1> QED BY <1>1, <1>2, <1>3, <1>4, <1>5, <1>6, <1>7, <1>8

LEMMA StepsGoOn ==
    ASSUME CpuTyped,
           Daa \/ Inr \/ Dcr \/ Inx \/ Dcx \/ Dad \/ Rlc \/ Rrc \/ Ral \/ Rar
    PROVE  CpuTyped' /\ Plain /\ GoesOn
  <1>0. OpCode \in Byte
    BY Operands
  <1>1. CASE Daa
    <2>1. CpuTyped'
      BY <1>1, AdjustmentType, AluType, FetchType, AdvanceType DEF Daa, CpuTyped
    <2>2. Plain
      BY <1>0, <1>1, ByteIs DEF Daa, Plain, Pushes, Pops, Calls, Returns, OpCodeIs
    <2>3. GoesOn
      BY <1>0, <1>1, Lengths, ByteIs
         DEF Daa, GoesOn, Advance, HasByte, HasWord, Unassigned, OpCodeIs
    <2> QED BY <2>1, <2>2, <2>3
  <1>2. CASE Inr
    <2>1. CpuTyped'
      BY <1>2, StepType DEF Inr
    <2>2. Plain
      BY <1>0, <1>2, ByteIs DEF Inr, Step, Plain, Pushes, Pops, Calls, Returns, OpCodeIs
    <2>3. GoesOn
      BY <1>0, <1>2, Lengths, ByteIs
         DEF Inr, Step, GoesOn, Advance, HasByte, HasWord, Unassigned, OpCodeIs
    <2> QED BY <2>1, <2>2, <2>3
  <1>3. CASE Dcr
    <2>1. CpuTyped'
      BY <1>3, StepType DEF Dcr
    <2>2. Plain
      BY <1>0, <1>3, ByteIs DEF Dcr, Step, Plain, Pushes, Pops, Calls, Returns, OpCodeIs
    <2>3. GoesOn
      BY <1>0, <1>3, Lengths, ByteIs
         DEF Dcr, Step, GoesOn, Advance, HasByte, HasWord, Unassigned, OpCodeIs
    <2> QED BY <2>1, <2>2, <2>3
  <1>4. CASE Inx
    <2>1. CpuTyped'
      BY <1>4, StepPairType DEF Inx, WORDS
    <2>2. Plain
      BY <1>0, <1>4, ByteIs DEF Inx, StepPair, Plain, Pushes, Pops, Calls, Returns,
         OpCodeIs
    <2>3. GoesOn
      BY <1>0, <1>4, Lengths, ByteIs
         DEF Inx, StepPair, GoesOn, Advance, HasByte, HasWord, Unassigned, OpCodeIs
    <2> QED BY <2>1, <2>2, <2>3
  <1>5. CASE Dcx
    <2>1. CpuTyped'
      BY <1>5, StepPairType DEF Dcx, WORDS
    <2>2. Plain
      BY <1>0, <1>5, ByteIs DEF Dcx, StepPair, Plain, Pushes, Pops, Calls, Returns,
         OpCodeIs
    <2>3. GoesOn
      BY <1>0, <1>5, Lengths, ByteIs
         DEF Dcx, StepPair, GoesOn, Advance, HasByte, HasWord, Unassigned, OpCodeIs
    <2> QED BY <2>1, <2>2, <2>3
  <1>6. CASE Dad
    <2>1. CpuTyped'
      BY <1>6, DadType
    <2>2. Plain
      BY <1>0, <1>6, ByteIs DEF Dad, Plain, Pushes, Pops, Calls, Returns, OpCodeIs
    <2>3. GoesOn
      BY <1>0, <1>6, Lengths, ByteIs
         DEF Dad, GoesOn, Advance, HasByte, HasWord, Unassigned, OpCodeIs
    <2> QED BY <2>1, <2>2, <2>3
  <1>7. CASE Rlc
    <2>1. CpuTyped'
      BY <1>7, RotateType DEF Rlc
    <2>2. Plain
      BY <1>0, <1>7, ByteIs DEF Rlc, Rotate, Plain, Pushes, Pops, Calls, Returns,
         OpCodeIs
    <2>3. GoesOn
      BY <1>0, <1>7, Lengths, ByteIs
         DEF Rlc, Rotate, GoesOn, Advance, HasByte, HasWord, Unassigned, OpCodeIs
    <2> QED BY <2>1, <2>2, <2>3
  <1>8. CASE Rrc
    <2>1. CpuTyped'
      BY <1>8, RotateType DEF Rrc
    <2>2. Plain
      BY <1>0, <1>8, ByteIs DEF Rrc, Rotate, Plain, Pushes, Pops, Calls, Returns,
         OpCodeIs
    <2>3. GoesOn
      BY <1>0, <1>8, Lengths, ByteIs
         DEF Rrc, Rotate, GoesOn, Advance, HasByte, HasWord, Unassigned, OpCodeIs
    <2> QED BY <2>1, <2>2, <2>3
  <1>9. CASE Ral
    <2>1. CpuTyped'
      BY <1>9, RotateType DEF Ral
    <2>2. Plain
      BY <1>0, <1>9, ByteIs DEF Ral, Rotate, Plain, Pushes, Pops, Calls, Returns,
         OpCodeIs
    <2>3. GoesOn
      BY <1>0, <1>9, Lengths, ByteIs
         DEF Ral, Rotate, GoesOn, Advance, HasByte, HasWord, Unassigned, OpCodeIs
    <2> QED BY <2>1, <2>2, <2>3
  <1>10. CASE Rar
    <2>1. CpuTyped'
      BY <1>10, RotateType DEF Rar
    <2>2. Plain
      BY <1>0, <1>10, ByteIs DEF Rar, Rotate, Plain, Pushes, Pops, Calls, Returns,
         OpCodeIs
    <2>3. GoesOn
      BY <1>0, <1>10, Lengths, ByteIs
         DEF Rar, Rotate, GoesOn, Advance, HasByte, HasWord, Unassigned, OpCodeIs
    <2> QED BY <2>1, <2>2, <2>3
  <1> QED BY <1>1, <1>2, <1>3, <1>4, <1>5, <1>6, <1>7, <1>8, <1>9, <1>10

LEMMA OthersGoOn ==
    ASSUME CpuTyped,
           Stc \/ Cmc \/ Ei \/ Di \/ Nop \/ Cma \/ Sphl \/ Out
    PROVE  CpuTyped' /\ Plain /\ GoesOn
  <1>0. OpCode \in Byte
    BY Operands
  <1>1. CASE Stc
    <2>1. CpuTyped'
      BY <1>1, FetchType, AdvanceType DEF Stc, FlagsOnly, CpuTyped, FLAGS_CARRY
    <2>2. Plain
      BY <1>0, <1>1, ByteIs DEF Stc, FlagsOnly, Plain, Pushes, Pops, Calls, Returns,
         OpCodeIs
    <2>3. GoesOn
      BY <1>0, <1>1, Lengths, ByteIs
         DEF Stc, FlagsOnly, GoesOn, Advance, HasByte, HasWord, Unassigned, OpCodeIs
    <2> QED BY <2>1, <2>2, <2>3
  <1>2. CASE Cmc
    <2>1. CpuTyped'
      BY <1>2, FetchType, AdvanceType DEF Cmc, FlagsOnly, CpuTyped, FLAGS_CARRY, Differ
    <2>2. Plain
      BY <1>0, <1>2, ByteIs DEF Cmc, FlagsOnly, Plain, Pushes, Pops, Calls, Returns,
         OpCodeIs
    <2>3. GoesOn
      BY <1>0, <1>2, Lengths, ByteIs
         DEF Cmc, FlagsOnly, GoesOn, Advance, HasByte, HasWord, Unassigned, OpCodeIs
    <2> QED BY <2>1, <2>2, <2>3
  <1>3. CASE Ei
    <2>1. CpuTyped'
      BY <1>3, FetchType, AdvanceType DEF Ei, FlagsOnly, CpuTyped, FLAGS_IF
    <2>2. Plain
      BY <1>0, <1>3, ByteIs DEF Ei, FlagsOnly, Plain, Pushes, Pops, Calls, Returns,
         OpCodeIs
    <2>3. GoesOn
      BY <1>0, <1>3, Lengths, ByteIs
         DEF Ei, FlagsOnly, GoesOn, Advance, HasByte, HasWord, Unassigned, OpCodeIs
    <2> QED BY <2>1, <2>2, <2>3
  <1>4. CASE Di
    <2>1. CpuTyped'
      BY <1>4, FetchType, AdvanceType DEF Di, FlagsOnly, CpuTyped, FLAGS_IF
    <2>2. Plain
      BY <1>0, <1>4, ByteIs DEF Di, FlagsOnly, Plain, Pushes, Pops, Calls, Returns,
         OpCodeIs
    <2>3. GoesOn
      BY <1>0, <1>4, Lengths, ByteIs
         DEF Di, FlagsOnly, GoesOn, Advance, HasByte, HasWord, Unassigned, OpCodeIs
    <2> QED BY <2>1, <2>2, <2>3
  <1>5. CASE Nop
    <2>1. CpuTyped'
      BY <1>5, FetchType, AdvanceType DEF Nop, FlagsOnly, CpuTyped
    <2>2. Plain
      BY <1>0, <1>5, ByteIs DEF Nop, FlagsOnly, Plain, Pushes, Pops, Calls, Returns,
         OpCodeIs
    <2>3. GoesOn
      BY <1>0, <1>5, Lengths, ByteIs
         DEF Nop, FlagsOnly, GoesOn, Advance, HasByte, HasWord, Unassigned, OpCodeIs
    <2> QED BY <2>1, <2>2, <2>3
  <1>6. CASE Cma
    <2>1. CpuTyped'
      BY <1>6, Operands, ByteIs, SetAType, FetchType, AdvanceType DEF Cma, CpuTyped
    <2>2. Plain
      BY <1>0, <1>6, ByteIs DEF Cma, Plain, Pushes, Pops, Calls, Returns, OpCodeIs
    <2>3. GoesOn
      BY <1>0, <1>6, Lengths, ByteIs
         DEF Cma, GoesOn, Advance, HasByte, HasWord, Unassigned, OpCodeIs
    <2> QED BY <2>1, <2>2, <2>3
  <1>7. CASE Sphl
    <2>1. CpuTyped'
      BY <1>7, Operands, FetchType, AdvanceType DEF Sphl, CpuTyped
    <2>2. Plain
      BY <1>0, <1>7, ByteIs DEF Sphl, Plain, Pushes, Pops, Calls, Returns, OpCodeIs
    <2>3. GoesOn
      BY <1>0, <1>7, Lengths, ByteIs
         DEF Sphl, GoesOn, Advance, HasByte, HasWord, Unassigned, OpCodeIs
    <2> QED BY <2>1, <2>2, <2>3
  <1>8. CASE Out
    <2>1. CpuTyped'
      BY <1>8, FetchType, AdvanceType DEF Out, CpuTyped
    <2>2. Plain
      BY <1>0, <1>8, ByteIs DEF Out, Plain, Pushes, Pops, Calls, Returns, OpCodeIs
    <2>3. GoesOn
      BY <1>0, <1>8, Lengths, ByteIs
         DEF Out, GoesOn, Advance, HasByte, HasWord, Unassigned, OpCodeIs
    <2> QED BY <2>1, <2>2, <2>3
  <1> QED BY <1>1, <1>2, <1>3, <1>4, <1>5, <1>6, <1>7, <1>8

-----------------------------------------------------------------------------
\* The words on the stack, no more than memory can hold, are where sp says.
StackHeld == stack \in Seq(Word) /\ Len(stack) <= WORDS \div 2 /\ StackKeepsWords

\* The words of the stack lie apart: the i-th one is 2 * (i - 1) behind sp.
LEMMA PushHolds ==
    ASSUME CpuTyped, StackHeld, NEW val \in Word, PushWord(val), stack' = Pushed(val)
    PROVE  StackHeld'
  <1> DEFINE depth == IF Len(stack) < WORDS \div 2 THEN Len(stack) + 1 ELSE Len(stack)
  <1>1. Len(stack) \in Nat /\ Len(stack) <= 32768 /\ sp \in Int /\ 0 <= sp /\ sp <= 65535
    BY WordIs DEF StackHeld, CpuTyped, WORDS
  <1>2. depth \in Nat /\ depth <= 32768 /\ depth - 1 <= Len(stack)
    BY <1>1 DEF WORDS
  <1>3. stack' = [i \in 1..depth |-> IF i = 1 THEN val ELSE stack[i - 1]]
    BY DEF Pushed
  <1> HIDE DEF depth
  <1>4. \A i \in 1..depth : i # 1 => i - 1 \in 1..Len(stack) /\ stack[i - 1] \in Word
    BY <1>1, <1>2 DEF StackHeld
  <1>5. stack' \in Seq(Word) /\ Len(stack') = depth
    <2>1. \A i \in 1..depth : (IF i = 1 THEN val ELSE stack[i - 1]) \in Word
      BY <1>4
    <2>2. stack' \in [1..depth -> Word]
      BY <1>3, <2>1
    <2> QED BY <1>2, <2>2
  <1>6. sp' = (sp - 2) % WORDS /\ memory' = Write16(memory, sp - 2, val)
    BY DEF PushWord
  <1>7. ASSUME NEW i \in 1..depth
        PROVE  Read16(memory', sp' + 2 * (i - 1)) = stack'[i]
    <2>1. i \in Int /\ 1 <= i /\ i <= 32768 /\ sp - 2 \in Int
      BY <1>1, <1>2
    <2>2. CASE i = 1
      <3>1. sp' + 2 * (i - 1) \in Int /\ (sp' + 2 * (i - 1) - (sp - 2)) % WORDS = 0
        BY <1>1, <1>6, <2>2 DEF WORDS
      <3>2. Read16(memory', sp' + 2 * (i - 1)) = val
        BY <1>6, <2>1, <3>1, WriteWord DEF CpuTyped
      <3> QED BY <1>2, <1>3, <2>2, <3>2
    <2>3. CASE i # 1
      <3> DEFINE b == sp' + 2 * (i - 1)
                 c == sp + 2 * ((i - 1) - 1)
      <3>1. b \in Int /\ c \in Int /\ (b - (sp - 2)) % WORDS >= 2
            /\ ((sp - 2) - b) % WORDS >= 2
        BY <1>1, <1>6, <2>1, <2>3 DEF WORDS
      <3>2. Read16(memory', b) = Read16(memory, b)
        BY <1>6, <2>1, <3>1, WriteWord DEF CpuTyped
      <3>3. b % WORDS = c % WORDS /\ (b + 1) % WORDS = (c + 1) % WORDS
        BY <1>1, <1>6, <2>1 DEF WORDS
      <3>4. Read16(memory, b) = Read16(memory, c)
        BY <3>3 DEF Read16, Read8
      <3>5. Read16(memory, c) = stack[i - 1]
        BY <1>4, <2>3 DEF StackHeld, StackKeepsWords
      <3> QED BY <1>3, <2>3, <3>2, <3>4, <3>5
    <2> QED BY <2>2, <2>3
  <1>8. StackKeepsWords'
    BY <1>5, <1>7 DEF StackKeepsWords
  <1> QED BY <1>2, <1>5, <1>8 DEF StackHeld, WORDS

\* One word less: the others are still where they were.
LEMMA PopHolds ==
    ASSUME CpuTyped, StackHeld, stack # <<>>, stack' = Tail(stack),
           sp' = (sp + 2) % WORDS, UNCHANGED memory
    PROVE  StackHeld'
  <1>1. /\ stack' \in Seq(Word) /\ Len(stack) \in Nat /\ Len(stack') = Len(stack) - 1
        /\ \A i \in 1..Len(stack') : i + 1 \in 1..Len(stack) /\ stack'[i] = stack[i + 1]
    BY DEF StackHeld
  <1>2. Len(stack') <= WORDS \div 2
    BY <1>1 DEF StackHeld, WORDS
  <1>3. ASSUME NEW i \in 1..Len(stack')
        PROVE  Read16(memory', sp' + 2 * (i - 1)) = stack'[i]
    <2> DEFINE b == sp' + 2 * (i - 1)
               c == sp + 2 * ((i + 1) - 1)
    <2>1. i \in Int /\ sp \in Int
      BY WordIs, <1>1 DEF CpuTyped
    <2>2. b % WORDS = c % WORDS /\ (b + 1) % WORDS = (c + 1) % WORDS
      BY <2>1 DEF WORDS
    <2>3. Read16(memory', b) = Read16(memory, c)
      BY <2>2 DEF Read16, Read8
    <2>4. Read16(memory, c) = stack[i + 1]
      BY <1>1 DEF StackHeld, StackKeepsWords
    <2> QED BY <1>1, <2>3, <2>4
  <1> QED BY <1>1, <1>2, <1>3 DEF StackHeld, StackKeepsWords

\* XTHL overwrites the top word and no other.
LEMMA ExchangeHolds ==
    ASSUME CpuTyped, StackHeld, stack # <<>>, NEW val \in Word,
           stack' = [stack EXCEPT ![1] = val], memory' = Write16(memory, sp, val),
           UNCHANGED sp
    PROVE  StackHeld'
  <1>1. /\ Len(stack) \in Nat /\ DOMAIN stack = 1..Len(stack) /\ Len(stack) <= 32768
        /\ sp \in Int /\ 0 <= sp /\ sp <= 65535
    BY WordIs DEF StackHeld, CpuTyped, WORDS
  <1>2. stack' \in Seq(Word) /\ Len(stack') = Len(stack)
    BY DEF StackHeld
  <1>3. ASSUME NEW i \in 1..Len(stack)
        PROVE  Read16(memory', sp + 2 * (i - 1)) = stack'[i]
    <2> DEFINE b == sp + 2 * (i - 1)
    <2>1. CASE i = 1
      <3>1. b \in Int /\ (b - sp) % WORDS = 0
        BY <1>1, <2>1 DEF WORDS
      <3>2. Read16(memory', b) = val
        BY <1>1, <3>1, WriteWord DEF CpuTyped
      <3> QED BY <1>1, <2>1, <3>2
    <2>2. CASE i # 1
      <3>1. b \in Int /\ (b - sp) % WORDS >= 2 /\ (sp - b) % WORDS >= 2
        BY <1>1, <2>2 DEF WORDS
      <3>2. Read16(memory', b) = Read16(memory, b)
        BY <1>1, <3>1, WriteWord DEF CpuTyped
      <3> QED BY <1>1, <2>2, <3>2 DEF StackHeld, StackKeepsWords
    <2> QED BY <2>1, <2>2
  <1> QED BY <1>2, <1>3 DEF StackHeld, StackKeepsWords

\* What the ghost does at each kind of instruction.
LEMMA GhostCases ==
    ASSUME CpuTyped, StackHeld, GhostStack
    PROVE  /\ Pushes => stack' = Pushed(IF RP = PAIR_SP THEN Psw ELSE PairRead(RP))
           /\ Calls /\ sp' # sp => stack' = Pushed((pc + InstructionLength) % WORDS)
           /\ (Pops \/ Returns) /\ sp' # sp => stack' = IF stack = <<>> THEN <<>> ELSE Tail(stack)
           /\ OpCode = 227 => \/ stack' = <<>>
                              \/ stack # <<>> /\ stack' = [stack EXCEPT ![1] = HL]
                              \/ stack' = stack /\ UNCHANGED <<sp, memory>>
           /\ Plain \/ ((Calls \/ Returns) /\ sp' = sp) =>
                 stack' = <<>> \/ UNCHANGED <<stack, sp, memory>>
  <1>1. OpCode \in Byte
    BY Operands
  <1>2. /\ Pushes => ~Calls /\ ~Pops /\ ~Returns /\ OpCode # 227
        /\ Calls => ~Pops /\ ~Returns /\ OpCode # 227
        /\ Pops \/ Returns => OpCode # 227
    BY <1>1, ByteIs DEF Pushes, Calls, Pops, Returns, OpCodeIs
  <1>3. CASE Pushes
    BY <1>2, <1>3 DEF GhostStack, Plain
  <1>4. CASE Calls
    BY <1>2, <1>4 DEF GhostStack, Plain
  <1>5. CASE Pops \/ Returns
    BY <1>2, <1>5 DEF GhostStack, Plain
  <1>6. CASE OpCode = 227
    BY <1>2, <1>6 DEF GhostStack, Plain
  <1>7. CASE Plain
    BY <1>7 DEF GhostStack, Plain
  <1> QED BY <1>3, <1>4, <1>5, <1>6, <1>7 DEF Plain

\* The ghost forgets the stack, or nothing of it changes.
LEMMA EmptyStackHolds ==
    ASSUME stack' = <<>>
    PROVE  StackHeld'
  <1>1. stack' \in Seq(Word) /\ Len(stack') = 0
    OBVIOUS
  <1> QED BY <1>1 DEF StackHeld, StackKeepsWords, WORDS

LEMMA SameStackHolds ==
    ASSUME StackHeld, UNCHANGED <<stack, sp, memory>>
    PROVE  StackHeld'
  BY DEF StackHeld, StackKeepsWords

LEMMA PushWordType ==
    ASSUME CpuTyped, NEW val \in Word, PushWord(val)
    PROVE  sp' \in Word /\ IsMemory(memory')
  <1>1. sp - 2 \in Int
    BY WordIs DEF CpuTyped
  <1> QED BY <1>1, Wraps, WriteWord DEF PushWord, CpuTyped

\* Where an instruction leads: NextInstruction of a step.
Led ==
    \/ (Jumps \/ Calls \/ Returns) /\ pc' = Target
    \/ OpCode = 118 /\ pc' = pc
    \/ GoesOn

\* The instructions that use the stack, and those that transfer control: each keeps
\* the stack and leads where NextInstruction says.
LEMMA PushStep ==
    ASSUME CpuTyped, StackHeld, Push, GhostStack
    PROVE  CpuTyped' /\ StackHeld' /\ Led
  <1> DEFINE val == IF RP = PAIR_SP THEN Psw ELSE PairRead(RP)
  <1>1. val \in Word
    BY Operands
  <1>2. CpuTyped'
    BY <1>1, PushWordType, FetchType, AdvanceType DEF Push, CpuTyped
  <1>3. StackHeld'
    BY <1>1, GhostCases, PushHolds DEF Push, Pushes
  <1>4. GoesOn
    BY Operands, Lengths, ByteIs
       DEF Push, GoesOn, Advance, HasByte, HasWord, Unassigned, OpCodeIs
  <1> QED BY <1>2, <1>3, <1>4 DEF Led

LEMMA PopStep ==
    ASSUME CpuTyped, StackHeld, Pop, GhostStack
    PROVE  CpuTyped' /\ StackHeld' /\ Led
  <1>1. sp \in Int /\ sp' = (sp + 2) % WORDS /\ sp' \in Word /\ sp' # sp
    BY WordIs, Wraps DEF CpuTyped, Pop, WORDS
  <1>2. Read16(memory, sp) \in Word
    BY <1>1, ReadWord DEF CpuTyped
  <1>3. reg' \in [Registers -> Byte] /\ flags' \subseteq 0..7
    <2> DEFINE val == Read16(memory, sp)
    <2>1. val % BYTES \in Byte /\ val \div BYTES \in Byte
      BY <1>2, TwoBytes
    <2> HIDE DEF val
    <2>2. CASE RP = PAIR_SP
      <3>1. SetA(val \div BYTES) /\ flags' = Bits(val % BYTES)
        BY <2>2 DEF Pop, val
      <3> QED BY <2>1, <3>1, SetAType DEF Bits
    <2>3. CASE RP # PAIR_SP
      <3>1. reg' = [reg EXCEPT ![2 * RP] = val \div BYTES, ![2 * RP + 1] = val % BYTES]
            /\ UNCHANGED flags
        BY <2>3 DEF Pop, val
      <3> QED BY <2>1, <3>1 DEF CpuTyped
    <2> QED BY <2>2, <2>3
  <1>4. CpuTyped'
    BY <1>1, <1>3, FetchType, AdvanceType DEF Pop, CpuTyped
  <1>5. StackHeld'
    <2>1. stack' = IF stack = <<>> THEN <<>> ELSE Tail(stack)
      BY <1>1, GhostCases DEF Pop, Pops
    <2> QED BY <1>1, <2>1, EmptyStackHolds, PopHolds DEF Pop
  <1>6. GoesOn
    BY Operands, Lengths, ByteIs
       DEF Pop, GoesOn, Advance, HasByte, HasWord, Unassigned, OpCodeIs
  <1> QED BY <1>4, <1>5, <1>6 DEF Led

LEMMA XthlStep ==
    ASSUME CpuTyped, StackHeld, Xthl, GhostStack
    PROVE  CpuTyped' /\ StackHeld' /\ Led
  <1>1. sp \in Int /\ HL \in Word
    BY WordIs, Operands DEF CpuTyped
  <1>2. Read16(memory, sp) \in Word
    BY <1>1, ReadWord DEF CpuTyped
  <1>3. UNCHANGED sp /\ memory' = Write16(memory, sp, HL)
    BY DEF Xthl, PairWrite, PAIR_HL, PAIR_SP
  <1>4. CpuTyped'
    <2>1. reg' \in [Registers -> Byte]
      BY <1>2, PairWriteType DEF Xthl, PAIR_HL
    <2>2. IsMemory(memory')
      BY <1>1, <1>3, WriteWord DEF CpuTyped
    <2> QED
      BY <1>3, <2>1, <2>2, FetchType, AdvanceType DEF Xthl, CpuTyped
  <1>5. StackHeld'
    BY <1>1, <1>3, GhostCases, EmptyStackHolds, SameStackHolds, ExchangeHolds DEF Xthl
  <1>6. GoesOn
    BY Operands, Lengths, ByteIs
       DEF Xthl, GoesOn, Advance, HasByte, HasWord, Unassigned, OpCodeIs
  <1> QED BY <1>4, <1>5, <1>6 DEF Led

\* A jump that is taken, and one that is not.
LEMMA JumpStep ==
    ASSUME CpuTyped, StackHeld, Jmp \/ Jccc \/ Pchl, GhostStack
    PROVE  CpuTyped' /\ StackHeld' /\ Led
  <1>1. OpCode \in Byte
    BY Operands
  <1>2. Plain /\ Jumps
    BY <1>1, ByteIs DEF Jmp, Jccc, Pchl, Transfer, Plain, Jumps, Pushes, Pops, Calls,
       Returns, OpCodeIs
  <1>3. UNCHANGED <<reg, flags, sp, memory>> /\ Fetch
    BY DEF Jmp, Jccc, Pchl, Transfer, Jump, Skip
  <1>4. StackHeld'
    BY <1>2, GhostCases, EmptyStackHolds, SameStackHolds
  <1>5. CASE pc' = (IF OpCode = 233 THEN HL ELSE Imm16)
    <2>1. ~Returns /\ ~OpCodeIs(3, 8, 7)
      BY <1>2 DEF Plain, Calls
    <2>2. pc' = Target
      BY <1>3, <1>5, <2>1 DEF Target, Imm16
    <2> QED
      BY <1>2, <1>3, <1>4, <1>5, <2>2, Operands, FetchType DEF CpuTyped, Led
  <1>6. CASE Jccc /\ Skip(3)
    <2>1. GoesOn
      BY <1>1, <1>6, Lengths, ByteIs
         DEF Jccc, Transfer, Skip, GoesOn, Advance, HasByte, HasWord, Unassigned, OpCodeIs
    <2> QED
      BY <1>3, <1>4, <1>6, <2>1, FetchType, AdvanceType DEF CpuTyped, Led, Skip
  <1>7. Jmp => OpCode # 233
    BY DEF Jmp, Transfer
  <1>8. Jccc => OpCode # 233
    BY <1>1, ByteIs DEF Jccc, Transfer, OpCodeIs
  <1> QED BY <1>5, <1>6, <1>7, <1>8 DEF Jmp, Jccc, Pchl, Transfer, Jump

\* A call that is taken, a restart, and a call that is not.
LEMMA CallStep ==
    ASSUME CpuTyped, StackHeld, Call \/ Cccc \/ Rst, GhostStack
    PROVE  CpuTyped' /\ StackHeld' /\ Led
  <1>1. OpCode \in Byte /\ Calls /\ ~Returns /\ OpCode # 233
    <2>1. OpCode \in Byte
      BY Operands
    <2> QED BY <2>1, ByteIs DEF Call, Cccc, Rst, Transfer, Calls, Returns, OpCodeIs
  <1>2. UNCHANGED <<reg, flags>> /\ Fetch
    BY DEF Call, Cccc, Rst, Transfer
  <1>3. InstructionLength = IF OpCodeIs(3, 8, 7) THEN 1 ELSE 3
    BY <1>1, Lengths, ByteIs
       DEF Call, Cccc, Rst, Transfer, HasByte, HasWord, Unassigned, OpCodeIs
  <1>4. \A n \in Int : (pc + n) % WORDS \in Word
    BY WordIs, Wraps DEF CpuTyped
  <1>5. CASE \E n \in {1, 3} : n = InstructionLength /\ PushWord((pc + n) % WORDS)
    <2>1. PICK n \in {1, 3} : n = InstructionLength /\ PushWord((pc + n) % WORDS)
      BY <1>5
    <2>2. (pc + n) % WORDS \in Word
      BY <1>4
    <2>3. sp' \in Word /\ IsMemory(memory') /\ sp' # sp
      <3>1. sp' # sp
        BY <2>1, WordIs DEF PushWord, CpuTyped, WORDS
      <3> QED BY <2>1, <2>2, <3>1, PushWordType
    <2>4. StackHeld'
      BY <1>1, <2>1, <2>2, <2>3, GhostCases, PushHolds
    <2>5. pc' = IF OpCodeIs(3, 8, 7) THEN 8 * Destination ELSE Read16(memory', pc + 1)
      <3>1. CASE OpCodeIs(3, 8, 7)
        <4>1. Rst
          BY <1>1, <3>1, ByteIs DEF Call, Cccc, Transfer, OpCodeIs
        <4> QED BY <3>1, <4>1 DEF Rst
      <3>2. CASE ~OpCodeIs(3, 8, 7)
        <4>1. CallSubroutine \/ Skip(3)
          BY <3>2 DEF Call, Cccc, Rst, Transfer
        <4>2. ~Skip(3)
          BY <2>3 DEF Skip
        <4> QED BY <3>2, <4>1, <4>2 DEF CallSubroutine
      <3> QED BY <3>1, <3>2
    <2>6. pc' \in Word
      <3>1. 8 * Destination \in Word
        BY Operands, WordIs
      <3>2. pc + 1 \in Int
        BY WordIs DEF CpuTyped
      <3>3. Read16(memory', pc + 1) \in Word
        BY <2>3, <3>2, ReadWord
      <3> QED BY <2>5, <3>1, <3>3
    <2>7. pc' = Target
      BY <1>1, <2>5 DEF Target
    <2> QED BY <1>1, <1>2, <2>3, <2>4, <2>6, <2>7, FetchType DEF CpuTyped, Led
  <1>6. CASE Skip(3) /\ ~OpCodeIs(3, 8, 7)
    <2>1. GoesOn
      BY <1>3, <1>6 DEF Skip, GoesOn, Advance
    <2>2. StackHeld'
      BY <1>1, <1>6, GhostCases, EmptyStackHolds, SameStackHolds DEF Skip
    <2> QED
      BY <1>2, <1>6, <2>1, <2>2, FetchType, AdvanceType DEF CpuTyped, Led, Skip
  <1>7. Call \/ Cccc => ~OpCodeIs(3, 8, 7)
    BY <1>1, ByteIs DEF Call, Cccc, Transfer, OpCodeIs
  <1>8. Rst => OpCodeIs(3, 8, 7) /\ PushWord((pc + 1) % WORDS)
    BY DEF Rst, Transfer
  <1>9. Call \/ Cccc => PushWord((pc + 3) % WORDS) \/ Skip(3)
    BY DEF Call, Cccc, CallSubroutine
  <1> QED BY <1>3, <1>5, <1>6, <1>7, <1>8, <1>9

\* A return that is taken, and one that is not.
LEMMA ReturnStep ==
    ASSUME CpuTyped, StackHeld, Ret \/ Rccc, GhostStack
    PROVE  CpuTyped' /\ StackHeld' /\ Led
  <1>1. Returns
    BY DEF Ret, Rccc, Transfer, Returns
  <1>2. UNCHANGED <<reg, flags, memory>> /\ Fetch
    BY DEF Ret, Rccc, Transfer, Return, Skip
  <1>3. CASE Return
    <2>1. sp \in Int /\ sp' = (sp + 2) % WORDS /\ sp' \in Word /\ sp' # sp
      BY <1>3, WordIs, Wraps DEF CpuTyped, Return, WORDS
    <2>2. pc' = Target /\ pc' \in Word
      <3>1. OpCode \in Byte
        BY Operands
      <3>2. OpCode # 233 /\ ~OpCodeIs(3, 8, 7)
        BY <1>1, <3>1, ByteIs DEF Returns, OpCodeIs
      <3>3. pc' = Read16(memory, sp)
        BY <1>3 DEF Return
      <3>4. Read16(memory, sp) \in Word
        BY <2>1, ReadWord DEF CpuTyped
      <3> QED BY <1>1, <3>2, <3>3, <3>4 DEF Target
    <2>3. stack' = IF stack = <<>> THEN <<>> ELSE Tail(stack)
      BY <1>1, <2>1, GhostCases
    <2>4. StackHeld'
      BY <1>2, <2>1, <2>3, EmptyStackHolds, PopHolds
    <2> QED BY <1>1, <1>2, <2>1, <2>2, <2>4, FetchType DEF CpuTyped, Led
  <1>4. CASE Rccc /\ Skip(1)
    <2>1. OpCode \in Byte
      BY Operands
    <2>2. GoesOn
      BY <1>4, <2>1, Lengths, ByteIs
         DEF Rccc, Transfer, Skip, GoesOn, Advance, HasByte, HasWord, Unassigned, OpCodeIs
    <2>3. StackHeld'
      BY <1>1, <1>4, GhostCases, EmptyStackHolds, SameStackHolds DEF Skip
    <2> QED BY <1>2, <1>4, <2>2, <2>3, FetchType, AdvanceType DEF CpuTyped, Led, Skip
  <1> QED BY <1>3, <1>4 DEF Ret, Rccc

\* HLT and the opcodes without a case stay where they are.
LEMMA NoCaseStep ==
    ASSUME CpuTyped, StackHeld, NoCase, GhostStack
    PROVE  CpuTyped' /\ StackHeld' /\ Led
  <1>1. OpCode \in Byte
    BY Operands
  <1>2. Plain
    BY <1>1, ByteIs DEF NoCase, Unassigned, Plain, Pushes, Pops, Calls, Returns,
       OpCodeIs
  <1>3. StackHeld'
    BY <1>2, GhostCases, EmptyStackHolds, SameStackHolds
  <1>4. CASE OpCode # 118
    <2>1. InstructionLength = 0 /\ pc \in Int /\ 0 <= pc /\ pc <= 65535
      BY <1>1, <1>4, Lengths, WordIs DEF NoCase, CpuTyped
    <2>2. GoesOn
      BY <2>1 DEF NoCase, GoesOn, WORDS
    <2> QED BY <1>3, <2>2, FetchType DEF NoCase, CpuTyped, Led
  <1>5. CASE OpCode = 118
    BY <1>3, <1>5, FetchType DEF NoCase, CpuTyped, Led
  <1> QED BY <1>4, <1>5

\* IN, with what the terminal has for the guest.
LEMMA InStep ==
    ASSUME CpuTyped, StackHeld, character \in Byte, typed \in Byte, In, GhostStack
    PROVE  /\ CpuTyped' /\ StackHeld' /\ Led
           /\ character' \in Byte /\ typed' \in Byte
  <1>1. OpCode \in Byte
    BY Operands
  <1>2. Plain
    BY <1>1, ByteIs DEF In, Plain, Pushes, Pops, Calls, Returns, OpCodeIs
  <1>3. GoesOn
    BY <1>1, Lengths, ByteIs
       DEF In, GoesOn, Advance, HasByte, HasWord, Unassigned, OpCodeIs
  <1>4. 0 \in Byte /\ 2 \in Byte /\ 3 \in Byte
    BY ByteIs
  <1>5. (\E val \in Byte : SetA(val)) /\ character' \in Byte /\ typed' \in Byte
    <2>1. CASE ReadDevice({0}) \/ ReadDevice(PortBytes)
      BY <1>4, <2>1, GuestAssumption DEF ReadDevice, terminalVars
    <2>2. CASE \E c \in {0, typed + 1} : ReadSio(c)
      BY <1>4, <2>2 DEF ReadSio, TermIn
    <2>3. CASE \E c \in {0, typed + 1} : Status2Sio(c)
      BY <1>4, <2>3 DEF Status2Sio, TermIn
    <2>4. CASE \E c \in {0, character, typed + 1} : Read2Sio(c)
      BY <1>4, <2>4 DEF Read2Sio, TermIn
    <2> QED BY <2>1, <2>2, <2>3, <2>4 DEF In
  <1>6. CpuTyped'
    BY <1>5, SetAType, FetchType, AdvanceType DEF In, CpuTyped
  <1>7. StackHeld'
    BY <1>2, GhostCases, EmptyStackHolds, SameStackHolds
  <1> QED BY <1>3, <1>5, <1>6, <1>7 DEF Led

-----------------------------------------------------------------------------
\* What every instruction keeps.  The stack alone is not inductive: that a word is
\* read as it was written needs cells, registers and addresses of their widths.
GuestInv == CpuTyped /\ character \in Byte /\ typed \in Byte /\ StackHeld

LEMMA InitGuestInv == Init => GuestInv
  <1> SUFFICES ASSUME Init PROVE GuestInv
    OBVIOUS
  <1>1. /\ reg \in [Registers -> Byte] /\ flags \subseteq 0..7
        /\ sp \in Word /\ pc \in Word /\ IsMemory(memory)
    BY GuestAssumption DEF Init
  <1>2. OpCode \in Byte /\ 0 \in Byte
    BY <1>1, WordIs, ByteIs, ReadByte DEF OpCode
  <1>3. CpuTyped
    BY <1>1, <1>2 DEF Init, CpuTyped
  <1>4. stack \in Seq(Word) /\ Len(stack) = 0
    BY DEF Init
  <1> QED
    BY <1>2, <1>3, <1>4 DEF Init, GuestInv, StackHeld, StackKeepsWords, WORDS

\* An instruction, whichever it is, keeps the invariant and leads where it should.
LEMMA CycleStep ==
    ASSUME GuestInv, Cycle
    PROVE  GuestInv' /\ Led
  <1> USE DEF GuestInv
  <1>1. GhostStack
    BY DEF Cycle
  <1>2. CASE In
    BY <1>1, <1>2, InStep
  <1>3. CASE Execute /\ UNCHANGED terminalVars
    <2>1. character' \in Byte /\ typed' \in Byte
      BY <1>3 DEF terminalVars
    <2>2. CASE CpuTyped' /\ Plain /\ GoesOn
      <3>1. StackHeld'
        BY <1>1, <2>2, GhostCases, EmptyStackHolds, SameStackHolds
      <3> QED BY <2>1, <2>2, <3>1 DEF Led
    <2>3. CASE CpuTyped' /\ StackHeld' /\ Led
      BY <2>1, <2>3
    <2> QED
      BY <1>1, <1>3, <2>2, <2>3, MovesGoOn, RegisterOperationsGoOn, ByteOperationsGoOn,
         StepsGoOn, OthersGoOn, PushStep, PopStep, XthlStep, JumpStep, CallStep,
         ReturnStep, NoCaseStep
         DEF Execute
  <1> QED BY <1>2, <1>3 DEF Cycle

LEMMA SpecGuestInv == Spec => []GuestInv
  <1>1. GuestInv /\ [Next]_vars => GuestInv'
    <2> SUFFICES ASSUME GuestInv, [Next]_vars PROVE GuestInv'
      OBVIOUS
    <2>1. CASE Cycle
      BY <2>1, CycleStep
    <2>2. CASE UNCHANGED vars
      BY <2>2 DEF vars, cpuVars, terminalVars, GuestInv, CpuTyped, StackHeld,
         StackKeepsWords
    <2> QED BY <2>1, <2>2 DEF Next
  <1> QED BY <1>1, InitGuestInv, PTL DEF Spec

\* Whatever program a guest runs, and wherever its stack pointer wraps around: memory
\* holds the words it pushed and the return addresses of its calls, as long as it
\* neither sets the stack pointer nor writes memory otherwise.
THEOREM StackIsKept == Spec => []StackKeepsWords
  <1>1. GuestInv => StackKeepsWords
    BY DEF GuestInv, StackHeld
  <1> QED BY <1>1, SpecGuestInv, PTL

\* Every instruction, of every guest program, goes on behind itself by the length in
\* the disassembler's table, or where it jumps, calls or returns to.
THEOREM InstructionsFollow == Spec => NextInstruction
  <1>1. GuestInv /\ [Next]_vars =>
            [\/ (Jumps \/ Calls \/ Returns) /\ pc' = Target
             \/ OpCode = 118 /\ pc' = pc
             \/ pc' = (pc + InstructionLength) % WORDS]_vars
    BY CycleStep DEF Next, Led, GoesOn
  <1> QED BY <1>1, SpecGuestInv, PTL DEF Spec, NextInstruction

-----------------------------------------------------------------------------
(***************************************************************************)
(* The characters of the terminal.  Of those it has given, the last one or *)
(* an earlier one may be held; the others have been read, each at a place  *)
(* of its own.  While none was overtaken the held one is the last, and the *)
(* guest has read all those before it in turn.                             *)
(***************************************************************************)
TerminalTyped ==
    /\ typed \in Byte /\ character \in Byte /\ character <= typed
    /\ received \in Seq(Byte) /\ overtaken \in BOOLEAN
    /\ \A i \in DOMAIN received : 1 <= received[i] /\ received[i] <= typed

InTurn ==
    ~overtaken =>
        /\ \A i \in DOMAIN received : received[i] = i
        /\ character \in {0, typed}
        /\ Len(received) = IF character = 0 THEN typed ELSE typed - 1

TerminalInv == TerminalTyped /\ CharactersArriveOnce /\ InTurn

\* What a step does to the terminal's characters.
Held ==
    /\ character = 0 /\ character' = typed + 1 /\ typed' = typed + 1
    /\ typed + 1 \in Byte
    /\ UNCHANGED <<received, overtaken>>

Passed ==
    /\ typed + 1 \in Byte /\ typed' = typed + 1
    /\ received' = Append(received, typed + 1)
    /\ overtaken' \in BOOLEAN /\ (~overtaken' => ~overtaken /\ character = 0)
    /\ UNCHANGED character

Given ==
    /\ character # 0 /\ character' = 0
    /\ received' = Append(received, character)
    /\ UNCHANGED <<typed, overtaken>>

LEMMA InEffects ==
    ASSUME TerminalTyped, In
    PROVE  Held \/ Passed \/ Given \/ UNCHANGED terminalVars
  <1> USE DEF terminalVars, TerminalTyped
  <1>1. typed \in Int /\ 0 <= typed
    BY ByteIs
  <1>2. CASE ReadDevice({0}) \/ ReadDevice(PortBytes)
    BY <1>2 DEF ReadDevice
  <1>3. ASSUME NEW c \in {0, typed + 1}, ReadSio(c)
        PROVE  Held \/ Passed \/ Given \/ UNCHANGED terminalVars
    <2>1. CASE c = 0
      <3>1. overtaken' = overtaken
        BY <1>3, <2>1 DEF ReadSio
      <3> QED BY <1>3, <2>1, <3>1 DEF ReadSio, TermIn, Receive
    <2>2. CASE c # 0
      <3>1. c = typed + 1 /\ typed' = c /\ c \in Byte
        BY <1>3, <2>2 DEF ReadSio, TermIn
      <3>2. /\ received' = Append(received, c) /\ UNCHANGED character
            /\ overtaken' \in BOOLEAN /\ (~overtaken' => ~overtaken /\ character = 0)
        BY <1>3, <2>2 DEF ReadSio, Receive
      <3> QED BY <3>1, <3>2 DEF Passed
    <2> QED BY <2>1, <2>2
  <1>4. ASSUME NEW c \in {0, typed + 1}, Status2Sio(c)
        PROVE  Held \/ Passed \/ Given \/ UNCHANGED terminalVars
    <2>1. CASE character # 0
      BY <1>4, <2>1 DEF Status2Sio
    <2>2. CASE character = 0
      BY <1>1, <1>4, <2>2 DEF Status2Sio, TermIn, Held
    <2> QED BY <2>1, <2>2
  <1>5. ASSUME NEW c \in {0, character, typed + 1}, Read2Sio(c)
        PROVE  Held \/ Passed \/ Given \/ UNCHANGED terminalVars
    <2>1. CASE character # 0
      BY <1>5, <2>1 DEF Read2Sio, Receive, Given
    <2>2. CASE character = 0 /\ c = 0
      BY <1>5, <2>2 DEF Read2Sio, TermIn, Receive
    <2>3. CASE character = 0 /\ c # 0
      <3>1. c = typed + 1 /\ typed' = c /\ c \in Byte
        BY <1>5, <2>3 DEF Read2Sio, TermIn
      <3>2. received' = Append(received, c) /\ UNCHANGED <<character, overtaken>>
        BY <1>5, <2>3 DEF Read2Sio, Receive
      <3>3. overtaken' \in BOOLEAN /\ (~overtaken' => ~overtaken /\ character = 0)
        BY <2>3, <3>2
      <3> QED BY <3>1, <3>2, <3>3 DEF Passed
    <2> QED BY <2>1, <2>2, <2>3
  <1> QED BY <1>2, <1>3, <1>4, <1>5 DEF In

LEMMA AppendByte ==
    ASSUME NEW s \in Seq(Byte), NEW b \in Byte
    PROVE  /\ Append(s, b) \in Seq(Byte)
           /\ Len(s) \in Nat /\ DOMAIN s = 1..Len(s)
           /\ Len(Append(s, b)) = Len(s) + 1
           /\ DOMAIN Append(s, b) = 1..Len(s) + 1
           /\ \A i \in 1..Len(s) : Append(s, b)[i] = s[i]
           /\ Append(s, b)[Len(s) + 1] = b
  OBVIOUS

LEMMA HeldStep ==
    ASSUME TerminalInv, Held
    PROVE  TerminalInv'
  <1>1. /\ typed \in Int /\ 0 <= typed /\ typed' = typed + 1
        /\ character' = typed' /\ UNCHANGED <<received, overtaken>>
        /\ \A i \in DOMAIN received : received[i] \in Int
    BY ByteIs DEF TerminalInv, TerminalTyped, Held
  <1>2. TerminalTyped'
    BY <1>1 DEF TerminalInv, TerminalTyped, Held
  <1>3. CharactersArriveOnce'
    <2> SUFFICES ASSUME NEW n \in 1..typed'
                 PROVE  IF n = character'
                        THEN \A i \in DOMAIN received : received[i] # n
                        ELSE \E i \in DOMAIN received :
                                 /\ received[i] = n
                                 /\ \A j \in DOMAIN received : received[j] = n => j = i
      BY <1>1 DEF CharactersArriveOnce
    <2>1. CASE n = typed + 1
      BY <1>1, <2>1 DEF TerminalInv, TerminalTyped
    <2>2. CASE n # typed + 1
      <3>1. n \in 1..typed /\ n # character
        BY <1>1, <2>2 DEF Held
      <3> QED BY <1>1, <2>2, <3>1 DEF TerminalInv, CharactersArriveOnce
    <2> QED BY <2>1, <2>2
  <1>4. InTurn'
    BY <1>1 DEF TerminalInv, InTurn, Held
  <1> QED BY <1>2, <1>3, <1>4 DEF TerminalInv

\* A character b that is new to the guest is read.
LEMMA ReadOnce ==
    ASSUME TerminalInv, NEW b \in Byte, received' = Append(received, b),
           \A i \in DOMAIN received : received[i] # b
    PROVE  /\ \E i \in DOMAIN received' :
                 /\ received'[i] = b
                 /\ \A j \in DOMAIN received' : received'[j] = b => j = i
           /\ \A n \in 1..typed : n # b /\ n # character =>
                 \E i \in DOMAIN received' :
                     /\ received'[i] = n
                     /\ \A j \in DOMAIN received' : received'[j] = n => j = i
           /\ \A n : n # b /\ (\A i \in DOMAIN received : received[i] # n) =>
                 \A i \in DOMAIN received' : received'[i] # n
  <1>1. received \in Seq(Byte)
    BY DEF TerminalInv, TerminalTyped
  <1> DEFINE k == Len(received)
  <1>2. /\ k \in Nat /\ DOMAIN received = 1..k /\ DOMAIN received' = 1..k + 1
        /\ \A i \in 1..k : received'[i] = received[i]
        /\ received'[k + 1] = b
    BY <1>1, AppendByte
  <1> HIDE DEF k
  <1>3. \A j \in DOMAIN received' : received'[j] = b => j = k + 1
    BY <1>2
  <1>4. ASSUME NEW n \in 1..typed, n # b, n # character
        PROVE  \E i \in DOMAIN received' :
                   /\ received'[i] = n
                   /\ \A j \in DOMAIN received' : received'[j] = n => j = i
    <2>1. PICK i \in DOMAIN received :
              /\ received[i] = n
              /\ \A j \in DOMAIN received : received[j] = n => j = i
      BY <1>4 DEF TerminalInv, CharactersArriveOnce
    <2>2. i \in DOMAIN received' /\ received'[i] = n
      BY <1>2, <2>1
    <2>3. \A j \in DOMAIN received' : received'[j] = n => j = i
      BY <1>2, <1>4, <2>1
    <2> QED BY <2>2, <2>3
  <1> QED BY <1>2, <1>3, <1>4

LEMMA PassedStep ==
    ASSUME TerminalInv, Passed
    PROVE  TerminalInv'
  <1>1. /\ typed \in Int /\ 0 <= typed /\ typed' = typed + 1
        /\ character' = character /\ character \in Int /\ character <= typed
        /\ typed + 1 \in Byte /\ received \in Seq(Byte)
        /\ received' = Append(received, typed + 1)
        /\ \A i \in DOMAIN received :
             received[i] \in Int /\ 1 <= received[i] /\ received[i] <= typed
    BY ByteIs DEF TerminalInv, TerminalTyped, Passed
  <1>2. /\ received' \in Seq(Byte) /\ Len(received) \in Nat
        /\ Len(received') = Len(received) + 1
        /\ DOMAIN received = 1..Len(received)
        /\ DOMAIN received' = 1..Len(received) + 1
        /\ \A i \in 1..Len(received) : received'[i] = received[i]
        /\ received'[Len(received) + 1] = typed + 1
    BY <1>1, AppendByte
  <1>3. TerminalTyped'
    <2>1. \A i \in DOMAIN received' : 1 <= received'[i] /\ received'[i] <= typed'
      BY <1>1, <1>2
    <2> QED BY <1>1, <1>2, <2>1 DEF TerminalInv, TerminalTyped, Passed
  <1>4. CharactersArriveOnce'
    <2>0. \A i \in DOMAIN received : received[i] # typed + 1
      BY <1>1
    <2> SUFFICES ASSUME NEW n \in 1..typed'
                 PROVE  IF n = character
                        THEN \A i \in DOMAIN received' : received'[i] # n
                        ELSE \E i \in DOMAIN received' :
                                 /\ received'[i] = n
                                 /\ \A j \in DOMAIN received' : received'[j] = n => j = i
      BY <1>1 DEF CharactersArriveOnce
    <2>1. CASE n = character
      <3>1. n \in 1..typed /\ n # typed + 1
        BY <1>1, <2>1
      <3>2. \A i \in DOMAIN received : received[i] # n
        BY <2>1, <3>1 DEF TerminalInv, CharactersArriveOnce
      <3> QED BY <1>1, <2>0, <2>1, <3>1, <3>2, ReadOnce
    <2>2. CASE n # character /\ n = typed + 1
      BY <1>1, <2>0, <2>2, ReadOnce
    <2>3. CASE n # character /\ n # typed + 1
      <3>1. n \in 1..typed
        BY <1>1, <2>3
      <3> QED BY <1>1, <2>0, <2>3, <3>1, ReadOnce
    <2> QED BY <2>1, <2>2, <2>3
  <1>5. InTurn'
    <2> SUFFICES ASSUME ~overtaken' PROVE InTurn'
      BY DEF InTurn
    <2>1. ~overtaken /\ character = 0
      BY DEF Passed
    <2>2. Len(received) = typed /\ \A i \in DOMAIN received : received[i] = i
      BY <2>1 DEF TerminalInv, InTurn
    <2>3. \A i \in DOMAIN received' : received'[i] = i
      BY <1>2, <2>2
    <2> QED BY <1>1, <1>2, <2>1, <2>2, <2>3 DEF InTurn
  <1> QED BY <1>3, <1>4, <1>5 DEF TerminalInv

LEMMA GivenStep ==
    ASSUME TerminalInv, Given
    PROVE  TerminalInv'
  <1>1. /\ typed \in Int /\ 0 <= typed /\ typed' = typed /\ typed \in Byte
        /\ character' = 0 /\ character \in Byte /\ character \in 1..typed
        /\ received \in Seq(Byte)
        /\ received' = Append(received, character)
        /\ \A i \in DOMAIN received :
             received[i] \in Int /\ 1 <= received[i] /\ received[i] <= typed
    BY ByteIs DEF TerminalInv, TerminalTyped, Given
  <1>2. /\ received' \in Seq(Byte) /\ Len(received) \in Nat
        /\ Len(received') = Len(received) + 1
        /\ DOMAIN received = 1..Len(received)
        /\ DOMAIN received' = 1..Len(received) + 1
        /\ \A i \in 1..Len(received) : received'[i] = received[i]
        /\ received'[Len(received) + 1] = character
    BY <1>1, AppendByte
  <1>3. TerminalTyped'
    <2>1. \A i \in DOMAIN received' : 1 <= received'[i] /\ received'[i] <= typed'
      BY <1>1, <1>2
    <2>2. 0 \in Byte /\ overtaken' \in BOOLEAN
      BY ByteIs DEF TerminalInv, TerminalTyped, Given
    <2> QED BY <1>1, <1>2, <2>1, <2>2 DEF TerminalTyped
  <1>4. CharactersArriveOnce'
    <2>0. \A i \in DOMAIN received : received[i] # character
      BY <1>1 DEF TerminalInv, CharactersArriveOnce
    <2> SUFFICES ASSUME NEW n \in 1..typed
                 PROVE  \E i \in DOMAIN received' :
                            /\ received'[i] = n
                            /\ \A j \in DOMAIN received' : received'[j] = n => j = i
      <3>1. typed' = typed /\ \A n \in 1..typed : n # character'
        BY <1>1
      <3> QED BY <3>1 DEF CharactersArriveOnce
    <2>1. CASE n = character
      <3>1. \E i \in DOMAIN received' :
                /\ received'[i] = character
                /\ \A j \in DOMAIN received' : received'[j] = character => j = i
        BY <1>1, <2>0, ReadOnce
      <3> QED BY <2>1, <3>1
    <2>2. CASE n # character
      BY <1>1, <2>0, <2>2, ReadOnce
    <2> QED BY <2>1, <2>2
  <1>5. InTurn'
    <2> SUFFICES ASSUME ~overtaken' PROVE InTurn'
      BY DEF InTurn
    <2>1. ~overtaken /\ character # 0
      BY DEF Given
    <2>2. /\ character = typed /\ Len(received) = typed - 1
          /\ \A i \in DOMAIN received : received[i] = i
      BY <2>1 DEF TerminalInv, InTurn
    <2>3. \A i \in DOMAIN received' : received'[i] = i
      BY <1>1, <1>2, <2>2
    <2> QED BY <1>1, <1>2, <2>2, <2>3 DEF InTurn
  <1> QED BY <1>3, <1>4, <1>5 DEF TerminalInv

LEMMA SpecTerminalInv == Spec => []TerminalInv
  <1>1. ASSUME Init PROVE TerminalInv
    <2>1. /\ typed = 0 /\ character = 0 /\ received = <<>> /\ Len(received) = 0
          /\ overtaken = FALSE
      BY <1>1 DEF Init
    <2>2. 0 \in Byte /\ 0 <= 0
      BY ByteIs
    <2>3. received \in Seq(Byte) /\ DOMAIN received = {}
      BY <2>1
    <2>4. TerminalTyped
      BY <2>1, <2>2, <2>3 DEF TerminalTyped
    <2>5. CharactersArriveOnce /\ InTurn
      BY <2>1, <2>3 DEF CharactersArriveOnce, InTurn
    <2> QED BY <2>4, <2>5 DEF TerminalInv
  <1>2. ASSUME TerminalInv, [Next]_vars PROVE TerminalInv'
    <2>1. CASE UNCHANGED terminalVars
      BY <1>2, <2>1 DEF terminalVars, TerminalInv, TerminalTyped,
         CharactersArriveOnce, InTurn
    <2>2. CASE In
      BY <1>2, <2>1, <2>2, InEffects, HeldStep, PassedStep, GivenStep DEF TerminalInv
    <2> QED BY <1>2, <2>1, <2>2 DEF Next, Cycle, vars
  <1> QED BY <1>1, <1>2, PTL DEF Spec

\* Whatever program a guest runs, and whichever ports it reads the terminal from:
\* every character that was given is held or was read once, and they come in the order
\* of typing, as long as the guest does not read past a held one at port 1 (i8080_in).
THEOREM CharactersArrive == Spec => []TerminalDelivers
  <1>1. TerminalInv => TerminalDelivers
    BY DEF TerminalInv, InTurn, CharactersInOrder, TerminalDelivers
  <1> QED BY <1>1, SpecTerminalInv, PTL

-----------------------------------------------------------------------------
\* The number of elements of a set of bits, counted bit by bit.
Count(S, i) == IF i \in S THEN 1 ELSE 0

LEMMA CountUpTo ==
    ASSUME NEW S \in SUBSET (0..7), NEW k \in 0..7
    PROVE  /\ IsFiniteSet(S \cap 0..k) /\ IsFiniteSet(S \cap 0..k-1)
           /\ Cardinality(S \cap 0..k) = Cardinality(S \cap 0..k-1) + Count(S, k)
  <1>1. IsFiniteSet(S \cap 0..k-1)
    <2>1. IsFiniteSet(0..k-1)
      BY FS_Interval
    <2> QED BY <2>1, FS_Subset
  <1>2. CASE k \in S
    <2>1. S \cap 0..k = (S \cap 0..k-1) \cup {k} /\ k \notin S \cap 0..k-1
      BY <1>2
    <2> QED BY <1>1, <1>2, <2>1, FS_AddElement DEF Count
  <1>3. CASE k \notin S
    <2>1. S \cap 0..k = S \cap 0..k-1
      BY <1>3
    <2>2. Cardinality(S \cap 0..k-1) \in Nat
      BY <1>1, FS_CardinalityType
    <2> QED BY <1>1, <1>3, <2>1, <2>2 DEF Count
  <1> QED BY <1>2, <1>3

\* A set of bits has as many elements as it has ones.
LEMMA CountBits ==
    ASSUME NEW S \in SUBSET (0..7)
    PROVE  Cardinality(S) = Count(S, 0) + Count(S, 1) + Count(S, 2) + Count(S, 3)
                            + Count(S, 4) + Count(S, 5) + Count(S, 6) + Count(S, 7)
  <1> DEFINE C(k) == Cardinality(S \cap 0..k)
  <1>1. S \cap 0..0-1 = {} /\ S \cap 0..7 = S
    <2>1. S \cap 0..0-1 = {}
      <3>1. 0..0-1 = {}
        OBVIOUS
      <3> QED BY <3>1
    <2>2. S \cap 0..7 = S
      OBVIOUS
    <2> QED BY <2>1, <2>2
  <1>2. C(0 - 1) = 0
    BY <1>1, FS_EmptySet
  <1>3. \A k \in 0..7 : C(k) = C(k - 1) + Count(S, k)
    BY CountUpTo
  <1>4. C(7) = Cardinality(S)
    BY <1>1
  <1> HIDE DEF C
  <1>5. \A k \in 0..7 : Count(S, k) \in Nat
    BY DEF Count
  <1>6. C(0) = Count(S, 0) /\ C(1) = C(0) + Count(S, 1) /\ C(2) = C(1) + Count(S, 2)
        /\ C(3) = C(2) + Count(S, 3)
    BY <1>2, <1>3, <1>5
  <1>7. C(4) = C(3) + Count(S, 4) /\ C(5) = C(4) + Count(S, 5)
        /\ C(6) = C(5) + Count(S, 6) /\ C(7) = C(6) + Count(S, 7)
    BY <1>3, <1>5
  <1> QED BY <1>4, <1>5, <1>6, <1>7

\* The bits of a byte are those of its halves.
LEMMA Halves ==
    ASSUME NEW val \in Byte
    PROVE  \A i \in 0..3 : /\ i \in Bits(val) <=> i \in Bits(val % 16)
                           /\ i + 4 \in Bits(val) <=> i \in Bits(val \div 16)
                           /\ i + 4 \notin Bits(val % 16) /\ i + 4 \notin Bits(val \div 16)
  <1>1. /\ 2^0 = 1 /\ 2^1 = 2 /\ 2^2 = 4 /\ 2^3 = 8
        /\ 2^4 = 16 /\ 2^5 = 32 /\ 2^6 = 64 /\ 2^7 = 128
    OBVIOUS
  <1>2. val \in Int /\ 0 <= val /\ val <= 255
    BY ByteIs
  <1>3. /\ ((val % 16) \div 1) % 2 = (val \div 1) % 2
        /\ ((val % 16) \div 2) % 2 = (val \div 2) % 2
        /\ ((val % 16) \div 4) % 2 = (val \div 4) % 2
        /\ ((val % 16) \div 8) % 2 = (val \div 8) % 2
    BY <1>2
  <1>4. /\ ((val \div 16) \div 1) % 2 = (val \div 16) % 2
        /\ ((val \div 16) \div 2) % 2 = (val \div 32) % 2
        /\ ((val \div 16) \div 4) % 2 = (val \div 64) % 2
        /\ ((val \div 16) \div 8) % 2 = (val \div 128) % 2
    BY <1>2
  <1>5. \A n \in 0..15 : /\ (n \div 16) % 2 = 0 /\ (n \div 32) % 2 = 0
                         /\ (n \div 64) % 2 = 0 /\ (n \div 128) % 2 = 0
    OBVIOUS
  <1>6. val % 16 \in 0..15 /\ val \div 16 \in 0..15
    BY <1>2
  <1>7. \A n, i : i \in Bits(n) <=> i \in 0..7 /\ (n \div 2^i) % 2 = 1
    BY DEF Bits
  <1> HIDE DEF Bits
  <1>8. \A n : /\ 0 \in Bits(n) <=> (n \div 1) % 2 = 1
               /\ 1 \in Bits(n) <=> (n \div 2) % 2 = 1
               /\ 2 \in Bits(n) <=> (n \div 4) % 2 = 1
               /\ 3 \in Bits(n) <=> (n \div 8) % 2 = 1
               /\ 4 \in Bits(n) <=> (n \div 16) % 2 = 1
               /\ 5 \in Bits(n) <=> (n \div 32) % 2 = 1
               /\ 6 \in Bits(n) <=> (n \div 64) % 2 = 1
               /\ 7 \in Bits(n) <=> (n \div 128) % 2 = 1
    <2> TAKE n
    <2>1. \A i \in 0..7 : i \in Bits(n) <=> (n \div 2^i) % 2 = 1
      BY <1>7
    <2>2. 0 \in Bits(n) <=> (n \div 2^0) % 2 = 1
      BY <2>1
    <2>3. 1 \in Bits(n) <=> (n \div 2^1) % 2 = 1
      BY <2>1
    <2>4. 2 \in Bits(n) <=> (n \div 2^2) % 2 = 1
      BY <2>1
    <2>5. 3 \in Bits(n) <=> (n \div 2^3) % 2 = 1
      BY <2>1
    <2>6. 4 \in Bits(n) <=> (n \div 2^4) % 2 = 1
      BY <2>1
    <2>7. 5 \in Bits(n) <=> (n \div 2^5) % 2 = 1
      BY <2>1
    <2>8. 6 \in Bits(n) <=> (n \div 2^6) % 2 = 1
      BY <2>1
    <2>9. 7 \in Bits(n) <=> (n \div 2^7) % 2 = 1
      BY <2>1
    <2> QED BY <1>1, <2>2, <2>3, <2>4, <2>5, <2>6, <2>7, <2>8, <2>9
  <1>9. /\ 0 \in Bits(val) <=> 0 \in Bits(val % 16)
        /\ 1 \in Bits(val) <=> 1 \in Bits(val % 16)
        /\ 2 \in Bits(val) <=> 2 \in Bits(val % 16)
        /\ 3 \in Bits(val) <=> 3 \in Bits(val % 16)
    BY <1>3, <1>8
  <1>10. /\ 4 \in Bits(val) <=> 0 \in Bits(val \div 16)
         /\ 5 \in Bits(val) <=> 1 \in Bits(val \div 16)
         /\ 6 \in Bits(val) <=> 2 \in Bits(val \div 16)
         /\ 7 \in Bits(val) <=> 3 \in Bits(val \div 16)
    BY <1>4, <1>8
  <1>11. \A n \in 0..15 : 4 \notin Bits(n) /\ 5 \notin Bits(n) /\ 6 \notin Bits(n) /\ 7 \notin Bits(n)
    BY <1>5, <1>8
  <1> QED BY <1>6, <1>9, <1>10, <1>11

\* The table of the odd nibbles tells the parity of a byte.
LEMMA ParityOfBits ==
    ASSUME NEW val \in Byte
    PROVE  GetParity(val) <=> EvenOnes(val)
  <1> DEFINE D == Differ(Bits(val % 16), Bits(val \div 16))
             d(i) == Count(D, i)
             b(i) == Count(Bits(val), i)
  <1>1. \A i \in 0..7 : d(i) \in 0..1 /\ b(i) \in 0..1
    BY DEF Count
  <1>2. \A i \in 0..3 : d(i) = (b(i) + b(i + 4)) % 2 /\ d(i + 4) = 0
    <2> TAKE i \in 0..3
    <2>1. /\ i \in Bits(val) <=> i \in Bits(val % 16)
          /\ i + 4 \in Bits(val) <=> i \in Bits(val \div 16)
          /\ i + 4 \notin Bits(val % 16) /\ i + 4 \notin Bits(val \div 16)
      BY Halves
    <2>2. i + 4 \notin D /\ (i \in D <=> ~(i \in Bits(val) <=> i + 4 \in Bits(val)))
      BY <2>1 DEF Differ
    <2> HIDE DEF D
    <2>3. d(i + 4) = 0
      BY <2>2 DEF Count
    <2>4. d(i) = (b(i) + b(i + 4)) % 2
      BY <2>2 DEF Count
    <2> QED BY <2>3, <2>4
  <1>3. FromBits(D) = d(0) + 2 * d(1) + 4 * d(2) + 8 * d(3)
    <2>1. /\ 2^0 = 1 /\ 2^1 = 2 /\ 2^2 = 4 /\ 2^3 = 8
          /\ 2^4 = 16 /\ 2^5 = 32 /\ 2^6 = 64 /\ 2^7 = 128
      OBVIOUS
    <2>2. d(4) = 0 /\ d(5) = 0 /\ d(6) = 0 /\ d(7) = 0
      BY <1>2
    <2> HIDE DEF D
    <2>3. FromBits(D) = d(0) + 2 * d(1) + 4 * d(2) + 8 * d(3)
                        + 16 * d(4) + 32 * d(5) + 64 * d(6) + 128 * d(7)
      BY <2>1 DEF FromBits, Count
    <2> HIDE DEF d
    <2> QED BY <1>1, <2>2, <2>3
  <1>4. Cardinality(Bits(val)) = b(0) + b(1) + b(2) + b(3) + b(4) + b(5) + b(6) + b(7)
    <2>1. Bits(val) \in SUBSET (0..7)
      BY DEF Bits
    <2> QED BY <2>1, CountBits
  <1>5. GetParity(val) <=> FromBits(D) \notin {1, 2, 4, 7, 8, 11, 13, 14}
    BY DEF GetParity
  <1> HIDE DEF d, b, D
  <1>6. GetParity(val) <=> (d(0) + d(1) + d(2) + d(3)) % 2 = 0
    <2>1. d(0) \in 0..1 /\ d(1) \in 0..1 /\ d(2) \in 0..1 /\ d(3) \in 0..1
      BY <1>1
    <2> QED BY <1>3, <1>5, <2>1
  <1>7. (d(0) + d(1) + d(2) + d(3)) % 2
            = (b(0) + b(1) + b(2) + b(3) + b(4) + b(5) + b(6) + b(7)) % 2
    <2>1. /\ d(0) = (b(0) + b(4)) % 2 /\ d(1) = (b(1) + b(5)) % 2
          /\ d(2) = (b(2) + b(6)) % 2 /\ d(3) = (b(3) + b(7)) % 2
      BY <1>2
    <2>2. \A i \in 0..7 : b(i) \in Int
      BY <1>1
    <2> QED BY <2>1, <2>2
  <1> QED BY <1>4, <1>6, <1>7 DEF EvenOnes

-----------------------------------------------------------------------------
\* The flags of a result tell its zero, sign and parity, and the carry goes its own
\* way.
LEMMA UpdatedFlagsTell ==
    ASSUME NEW f, NEW val \in Byte
    PROVE  /\ FlagsTell(UpdateFlags(f, val), val)
           /\ FLAGS_CARRY \in UpdateFlags(f, val) <=> FLAGS_CARRY \in f
  <1>1. GetParity(val) <=> EvenOnes(val)
    BY ParityOfBits
  <1>2. val >= 128 <=> val \div 128 = 1
    BY ByteIs
  <1>3. /\ FLAGS_PARITY \in UpdateFlags(f, val) <=> GetParity(val)
        /\ FLAGS_ZERO \in UpdateFlags(f, val) <=> val = 0
        /\ FLAGS_SIGN \in UpdateFlags(f, val) <=> val >= 128
        /\ FLAGS_CARRY \in UpdateFlags(f, val) <=> FLAGS_CARRY \in f
    BY DEF UpdateFlags, SetTo, FLAGS_PARITY, FLAGS_ZERO, FLAGS_SIGN, FLAGS_CARRY
  <1>4. (FLAGS_ZERO \in UpdateFlags(f, val)) = (val = 0)
    BY <1>3
  <1>5. (FLAGS_SIGN \in UpdateFlags(f, val)) = (val \div 128 = 1)
    BY <1>2, <1>3
  <1>6. (FLAGS_PARITY \in UpdateFlags(f, val)) = EvenOnes(val)
    BY <1>1, <1>3 DEF EvenOnes
  <1> QED BY <1>3, <1>4, <1>5, <1>6 DEF FlagsTell

LEMMA SumFlagsTell ==
    ASSUME NEW sum, sum.a \in Byte
    PROVE  /\ FlagsTell(SumFlags(sum), sum.a)
           /\ FLAGS_CARRY \in SumFlags(sum) <=> sum.carry
  <1> DEFINE h == SetTo(flags, FLAGS_H, sum.half)
             f == SetTo(h, FLAGS_CARRY, sum.carry)
  <1>1. FLAGS_CARRY \in f <=> sum.carry
    BY DEF SetTo
  <1>2. SumFlags(sum) = UpdateFlags(f, sum.a)
    BY DEF SumFlags
  <1> HIDE DEF f, h
  <1> QED BY <1>1, <1>2, UpdatedFlagsTell

\* Additions, with or without a carry in c.
LEMMA AdditionAgrees ==
    ASSUME CpuTyped, NEW val \in Byte, NEW c \in 0..1, AddToA(val + c),
           AluOperand = val, AluGroup \in {0, 1}, c = IF AluGroup = 1 THEN Carry ELSE 0
    PROVE  StepAgrees
  <1> DEFINE sum == GenAdd(A, val + c)
  <1>1. A \in Byte /\ val + c \in 0..BYTES
    BY Operands, ByteIs DEF BYTES
  <1>2. sum.a \in Byte /\ sum.a + Ninth(sum.carry) = A + (val + c)
    BY <1>1, AdditionIsExact
  <1>3. reg'[REGISTER_A] = sum.a /\ flags' = SumFlags(sum)
    BY DEF AddToA, Result, SetA, CpuTyped, Registers, REGISTER_A, MEMORY_ACCESS
  <1> HIDE DEF sum
  <1>4. FlagsTell(flags', sum.a) /\ (FLAGS_CARRY \in flags' <=> sum.carry)
    BY <1>2, <1>3, SumFlagsTell
  <1>5. BYTES * CarryOf(flags') = Ninth(sum.carry)
    BY <1>4 DEF CarryOf, Ninth, BYTES
  <1>6. A + (val + c) = A + AluOperand + (IF AluGroup = 1 THEN Carry ELSE 0)
    BY <1>1, ByteIs
  <1> QED BY <1>2, <1>3, <1>4, <1>5, <1>6 DEF StepAgrees

\* Subtractions, with or without a borrow in c.
LEMMA SubtractionAgrees ==
    ASSUME CpuTyped, NEW val \in Byte, NEW c \in 0..1, SubFromA(val + c),
           AluOperand = val, AluGroup \in {2, 3}, c = IF AluGroup = 3 THEN Carry ELSE 0
    PROVE  StepAgrees
  <1> DEFINE sum == GenSub(A, val + c)
  <1>1. A \in Byte /\ val + c \in 0..BYTES
    BY Operands, ByteIs DEF BYTES
  <1>2. sum.a \in Byte /\ sum.a - Ninth(sum.carry) = A - (val + c)
    BY <1>1, SubtractionIsExact
  <1>3. reg'[REGISTER_A] = sum.a /\ flags' = SumFlags(sum)
    BY DEF SubFromA, Result, SetA, CpuTyped, Registers, REGISTER_A, MEMORY_ACCESS
  <1> HIDE DEF sum
  <1>4. FlagsTell(flags', sum.a) /\ (FLAGS_CARRY \in flags' <=> sum.carry)
    BY <1>2, <1>3, SumFlagsTell
  <1>5. BYTES * CarryOf(flags') = Ninth(sum.carry)
    BY <1>4 DEF CarryOf, Ninth, BYTES
  <1>6. A - (val + c) = A - AluOperand - (IF AluGroup = 3 THEN Carry ELSE 0)
    BY <1>1, ByteIs
  <1> QED BY <1>2, <1>3, <1>4, <1>5, <1>6 DEF StepAgrees

\* A comparison keeps A and orders the operands.
LEMMA ComparisonAgrees ==
    ASSUME CpuTyped, NEW val \in Byte, Compare(val), AluOperand = val, AluGroup = 7
    PROVE  StepAgrees
  <1> DEFINE sum == GenSub(A, val)
  <1>1. A \in Byte
    BY Operands
  <1>2. sum.a \in Byte /\ (sum.carry <=> A < val) /\ (sum.a = 0 <=> A = val)
    <2>1. val \in 0..BYTES
      BY ByteIs DEF BYTES
    <2> QED BY <1>1, <2>1, ComparisonOrders, SubtractionIsExact
  <1>3. reg'[REGISTER_A] = A /\ flags' = SumFlags(sum)
    BY DEF Compare, A
  <1> HIDE DEF sum
  <1>4. FlagsTell(flags', sum.a) /\ (FLAGS_CARRY \in flags' <=> sum.carry)
    BY <1>2, <1>3, SumFlagsTell
  <1>5. /\ CarryOf(flags') = 1 <=> A < AluOperand
        /\ FLAGS_ZERO \in flags' <=> A = AluOperand
    BY <1>2, <1>4 DEF CarryOf, FlagsTell
  <1> QED BY <1>3, <1>5 DEF StepAgrees

\* The logic operations clear the carry.
LEMMA LogicAgrees ==
    ASSUME CpuTyped, NEW S, NEW cleared, FLAGS_CARRY \in cleared,
           Logic(FromBits(S), cleared), AluGroup \in {4, 5, 6}
    PROVE  StepAgrees
  <1>1. FromBits(S) \in Byte
    BY FromBitsByte
  <1>2. reg'[REGISTER_A] = FromBits(S) /\ flags' = UpdateFlags(flags \ cleared, FromBits(S))
    BY DEF Logic, SetA, CpuTyped, Registers, REGISTER_A, MEMORY_ACCESS
  <1>3. FlagsTell(flags', FromBits(S)) /\ FLAGS_CARRY \notin flags'
    BY <1>1, <1>2, UpdatedFlagsTell
  <1> QED BY <1>2, <1>3 DEF StepAgrees, CarryOf

\* An opcode of the arithmetic groups has no other case.
LEMMA OnlyAlu ==
    ASSUME CpuTyped, Execute \/ In, IsAlu
    PROVE  \/ Add \/ Adc \/ Sub \/ Sbb \/ Ana \/ Xra \/ Ora \/ Cmp
           \/ Adi \/ Aci \/ Sui \/ Sbi \/ Ani \/ Xri \/ Ori \/ Cpi
  <1>1. OpCode \in Byte
    BY Operands
  <1> USE DEF IsAlu, OpCodeIs
  <1>2. ~Mov /\ ~Mvi /\ ~Lxi /\ ~Lda /\ ~Sta /\ ~Lhld /\ ~Shld /\ ~Ldax /\ ~Stax /\ ~Xchg
    BY <1>1, ByteIs DEF Mov, Mvi, Lxi, Lda, Sta, Lhld, Shld, Ldax, Stax, Xchg
  <1>3. ~Daa /\ ~Inr /\ ~Dcr /\ ~Inx /\ ~Dcx /\ ~Dad /\ ~Rlc /\ ~Rrc /\ ~Ral /\ ~Rar
    BY <1>1, ByteIs DEF Daa, Inr, Dcr, Inx, Dcx, Dad, Rlc, Rrc, Ral, Rar, Rotate
  <1>4. ~Stc /\ ~Cmc /\ ~Ei /\ ~Di /\ ~Nop /\ ~Cma /\ ~Out /\ ~NoCase /\ ~In
    BY <1>1, ByteIs DEF Stc, Cmc, Ei, Di, Nop, FlagsOnly, Cma, Out, NoCase,
       Unassigned, In
  <1>5. /\ ~Push /\ ~Pop /\ ~Xthl /\ ~Sphl /\ ~Jmp /\ ~Jccc /\ ~Call /\ ~Cccc /\ ~Ret
        /\ ~Rccc /\ ~Pchl /\ ~Rst
    BY <1>1, ByteIs DEF Push, Pop, Xthl, Sphl, Jmp, Jccc, Call, Cccc, Ret, Rccc, Pchl,
       Rst,
       Transfer
  <1> QED BY <1>2, <1>3, <1>4, <1>5 DEF Execute

\* Each of the sixteen operations, on a register or on an immediate byte.
LEMMA AluAgrees ==
    ASSUME CpuTyped, Execute \/ In, IsAlu
    PROVE  StepAgrees
  <1>1. /\ OpCode \in Byte /\ RegRead(Source) \in Byte /\ Imm8 \in Byte
        /\ Carry \in 0..1 /\ 0 \in 0..1
        /\ \A v \in Byte : v + 0 = v
    BY Operands, ByteIs DEF Carry
  <1>2. CASE Add
    <2>1. AluGroup = 0 /\ AluOperand = RegRead(Source)
      BY <1>1, <1>2, ByteIs DEF Add, WithRegister, AluGroup, AluOperand, Destination
    <2>2. AddToA(RegRead(Source) + 0)
      BY <1>1, <1>2 DEF Add, WithRegister
    <2> QED BY <1>1, <2>1, <2>2, AdditionAgrees
  <1>3. CASE Adc
    <2>1. AluGroup = 1 /\ AluOperand = RegRead(Source)
      BY <1>1, <1>3, ByteIs DEF Adc, WithRegister, AluGroup, AluOperand, Destination
    <2>2. AddToA(RegRead(Source) + Carry)
      BY <1>1, <1>3 DEF Adc, WithRegister, AddWithCarry
    <2> QED BY <1>1, <2>1, <2>2, AdditionAgrees
  <1>4. CASE Sub
    <2>1. AluGroup = 2 /\ AluOperand = RegRead(Source)
      BY <1>1, <1>4, ByteIs DEF Sub, WithRegister, AluGroup, AluOperand, Destination
    <2>2. SubFromA(RegRead(Source) + 0)
      BY <1>1, <1>4 DEF Sub, WithRegister
    <2> QED BY <1>1, <2>1, <2>2, SubtractionAgrees
  <1>5. CASE Sbb
    <2>1. AluGroup = 3 /\ AluOperand = RegRead(Source)
      BY <1>1, <1>5, ByteIs DEF Sbb, WithRegister, AluGroup, AluOperand, Destination
    <2>2. SubFromA(RegRead(Source) + Carry)
      BY <1>1, <1>5 DEF Sbb, WithRegister, SubWithBorrow
    <2> QED BY <1>1, <2>1, <2>2, SubtractionAgrees
  <1>6. CASE Ana
    <2>1. AluGroup = 4 /\ AluOperand = RegRead(Source)
      BY <1>1, <1>6, ByteIs DEF Ana, WithRegister, AluGroup, AluOperand, Destination
    <2>2. \E S, cleared : FLAGS_CARRY \in cleared /\ Logic(FromBits(S), cleared)
      BY <1>1, <1>6 DEF Ana, WithRegister, AndRegister
    <2> QED BY <1>1, <2>1, <2>2, LogicAgrees
  <1>7. CASE Xra
    <2>1. AluGroup = 5 /\ AluOperand = RegRead(Source)
      BY <1>1, <1>7, ByteIs DEF Xra, WithRegister, AluGroup, AluOperand, Destination
    <2>2. \E S, cleared : FLAGS_CARRY \in cleared /\ Logic(FromBits(S), cleared)
      BY <1>1, <1>7 DEF Xra, WithRegister, XorA
    <2> QED BY <1>1, <2>1, <2>2, LogicAgrees
  <1>8. CASE Ora
    <2>1. AluGroup = 6 /\ AluOperand = RegRead(Source)
      BY <1>1, <1>8, ByteIs DEF Ora, WithRegister, AluGroup, AluOperand, Destination
    <2>2. \E S, cleared : FLAGS_CARRY \in cleared /\ Logic(FromBits(S), cleared)
      BY <1>1, <1>8 DEF Ora, WithRegister, OrA
    <2> QED BY <1>1, <2>1, <2>2, LogicAgrees
  <1>9. CASE Cmp
    <2>1. AluGroup = 7 /\ AluOperand = RegRead(Source)
      BY <1>1, <1>9, ByteIs DEF Cmp, WithRegister, AluGroup, AluOperand, Destination
    <2>2. Compare(RegRead(Source))
      BY <1>1, <1>9 DEF Cmp, WithRegister
    <2> QED BY <1>1, <2>1, <2>2, ComparisonAgrees
  <1>10. CASE Adi
    <2>1. AluGroup = 0 /\ AluOperand = Imm8
      BY <1>1, <1>10, ByteIs DEF Adi, WithImmediate, AluGroup, AluOperand, Destination
    <2>2. AddToA(Imm8 + 0)
      BY <1>1, <1>10 DEF Adi, WithImmediate
    <2> QED BY <1>1, <2>1, <2>2, AdditionAgrees
  <1>11. CASE Aci
    <2>1. AluGroup = 1 /\ AluOperand = Imm8
      BY <1>1, <1>11, ByteIs DEF Aci, WithImmediate, AluGroup, AluOperand, Destination
    <2>2. AddToA(Imm8 + Carry)
      BY <1>1, <1>11 DEF Aci, WithImmediate, AddWithCarry
    <2> QED BY <1>1, <2>1, <2>2, AdditionAgrees
  <1>12. CASE Sui
    <2>1. AluGroup = 2 /\ AluOperand = Imm8
      BY <1>1, <1>12, ByteIs DEF Sui, WithImmediate, AluGroup, AluOperand, Destination
    <2>2. SubFromA(Imm8 + 0)
      BY <1>1, <1>12 DEF Sui, WithImmediate
    <2> QED BY <1>1, <2>1, <2>2, SubtractionAgrees
  <1>13. CASE Sbi
    <2>1. AluGroup = 3 /\ AluOperand = Imm8
      BY <1>1, <1>13, ByteIs DEF Sbi, WithImmediate, AluGroup, AluOperand, Destination
    <2>2. SubFromA(Imm8 + Carry)
      BY <1>1, <1>13 DEF Sbi, WithImmediate, SubWithBorrow
    <2> QED BY <1>1, <2>1, <2>2, SubtractionAgrees
  <1>14. CASE Ani
    <2>1. AluGroup = 4 /\ AluOperand = Imm8
      BY <1>1, <1>14, ByteIs DEF Ani, WithImmediate, AluGroup, AluOperand, Destination
    <2>2. \E S, cleared : FLAGS_CARRY \in cleared /\ Logic(FromBits(S), cleared)
      BY <1>1, <1>14 DEF Ani, WithImmediate, AndByte
    <2> QED BY <1>1, <2>1, <2>2, LogicAgrees
  <1>15. CASE Xri
    <2>1. AluGroup = 5 /\ AluOperand = Imm8
      BY <1>1, <1>15, ByteIs DEF Xri, WithImmediate, AluGroup, AluOperand, Destination
    <2>2. \E S, cleared : FLAGS_CARRY \in cleared /\ Logic(FromBits(S), cleared)
      BY <1>1, <1>15 DEF Xri, WithImmediate, XorA
    <2> QED BY <1>1, <2>1, <2>2, LogicAgrees
  <1>16. CASE Ori
    <2>1. AluGroup = 6 /\ AluOperand = Imm8
      BY <1>1, <1>16, ByteIs DEF Ori, WithImmediate, AluGroup, AluOperand, Destination
    <2>2. \E S, cleared : FLAGS_CARRY \in cleared /\ Logic(FromBits(S), cleared)
      BY <1>1, <1>16 DEF Ori, WithImmediate, OrA
    <2> QED BY <1>1, <2>1, <2>2, LogicAgrees
  <1>17. CASE Cpi
    <2>1. AluGroup = 7 /\ AluOperand = Imm8
      BY <1>1, <1>17, ByteIs DEF Cpi, WithImmediate, AluGroup, AluOperand, Destination
    <2>2. Compare(Imm8)
      BY <1>1, <1>17 DEF Cpi, WithImmediate
    <2> QED BY <1>1, <2>1, <2>2, ComparisonAgrees
  <1> QED
    BY OnlyAlu, <1>2, <1>3, <1>4, <1>5, <1>6, <1>7, <1>8, <1>9, <1>10, <1>11, <1>12,
       <1>13, <1>14, <1>15, <1>16, <1>17

\* For all operands, the 8080's additions, subtractions, comparisons and logic leave in
\* A and in the flags what the same operations on integers do (i8080_add to i8080_cpi).
THEOREM AluIsThatOfIntegers == Spec => ArithmeticAgrees
  <1>1. GuestInv /\ [Next]_vars => [IsAlu => StepAgrees]_vars
    BY AluAgrees DEF Next, Cycle, GuestInv
  <1> QED BY <1>1, SpecGuestInv, PTL DEF Spec, ArithmeticAgrees

-----------------------------------------------------------------------------
(***************************************************************************)
(* Sums of more bytes than one, and decimal ones.  Both need what the      *)
(* flags hold when the next instruction looks at them: between two bytes   *)
(* the carry passes through every instruction that should leave it alone   *)
(* (CarryKept), and DAA finds what the addition before it left (SumLeft).  *)
(***************************************************************************)
\* The instructions that are not to set the carry do not.
LEMMA CarryKept ==
    ASSUME CpuTyped, Execute \/ In, ~SetsCarry
    PROVE  Carry' = Carry
  <1>1. OpCode \in Byte
    BY Operands
  <1>2. ASSUME UNCHANGED flags PROVE Carry' = Carry
    BY <1>2 DEF Carry
  <1>3. CASE Mov \/ Mvi \/ Lxi \/ Lda \/ Sta \/ Lhld \/ Shld \/ Ldax \/ Stax \/ Xchg
    BY <1>2, <1>3 DEF Mov, Mvi, Lxi, Lda, Sta, Lhld, Shld, Ldax, Stax, Xchg
  <1>4. CASE Inx \/ Dcx \/ Cma \/ Push \/ Xthl \/ Sphl \/ Out \/ NoCase \/ In \/ Nop
    BY <1>2, <1>4 DEF Inx, Dcx, StepPair, Cma, Push, Xthl, Sphl, Out, NoCase, In, Nop,
       FlagsOnly
  <1>5. CASE Jmp \/ Jccc \/ Call \/ Cccc \/ Ret \/ Rccc \/ Pchl \/ Rst
    BY <1>2, <1>5 DEF Jmp, Jccc, Call, Cccc, Ret, Rccc, Pchl, Rst, Transfer
  <1>6. CASE Ei \/ Di
    BY <1>6 DEF Ei, Di, FlagsOnly, Carry, FLAGS_CARRY, FLAGS_IF
  <1>7. CASE Inr \/ Dcr
    <2>1. \E h, new : new \in Byte /\ flags' = UpdateFlags(SetTo(flags, FLAGS_H, h), new)
      <3>1. \A n \in {1, 255} : (RegRead(Destination) + n) % BYTES \in Byte
        BY Operands, ByteIs DEF BYTES
      <3> QED BY <1>7, <3>1 DEF Inr, Dcr, Step
    <2>2. FLAGS_CARRY \in flags' <=> FLAGS_CARRY \in flags
      BY <2>1, UpdatedFlagsTell DEF SetTo, FLAGS_CARRY, FLAGS_H
    <2> QED BY <2>2 DEF Carry
  <1>8. CASE Pop
    <2>1. RP # PAIR_SP
      BY <1>1, <1>8, ByteIs DEF Pop, OpCodeIs, RP, PAIR_SP, SetsCarry
    <2> QED BY <1>2, <1>8, <2>1 DEF Pop
  <1>9. ~Dad /\ ~Daa /\ ~Rlc /\ ~Rrc /\ ~Ral /\ ~Rar /\ ~Stc /\ ~Cmc
    BY DEF SetsCarry, Dad, Daa, Rlc, Rrc, Ral, Rar, Rotate, Stc, Cmc, FlagsOnly
  <1>10. ~Add /\ ~Adc /\ ~Sub /\ ~Sbb /\ ~Ana /\ ~Xra /\ ~Ora /\ ~Cmp
    BY <1>1, ByteIs DEF SetsCarry, IsAlu, Add, Adc, Sub, Sbb, Ana, Xra, Ora, Cmp,
       WithRegister
  <1>11. ~Adi /\ ~Aci /\ ~Sui /\ ~Sbi /\ ~Ani /\ ~Xri /\ ~Ori /\ ~Cpi
    BY <1>1, ByteIs DEF SetsCarry, IsAlu, OpCodeIs, Adi, Aci, Sui, Sbi, Ani, Xri, Ori,
       Cpi, WithImmediate
  <1> QED
    BY <1>3, <1>4, <1>5, <1>6, <1>7, <1>8, <1>9, <1>10, <1>11 DEF Execute

\* Of a sum (or a difference) with result r below the weight w and carry c, the next
\* byte a, with carry d, that adds n.
SumGoesOn(w, r, c, d, n, a) ==
    /\ r + w * a \in 0..256 * w - 1
    /\ (r + w * c) + w * n = (r + w * a) + (256 * w) * d
DifferenceGoesOn(w, r, c, d, n, a) ==
    /\ r + w * a \in 0..256 * w - 1
    /\ (r - w * c) + w * n = (r + w * a) - (256 * w) * d

\* What the next byte of a sum adds to its bytes and to its carry.
LEMMA NextByte ==
    ASSUME NEW w \in Nat, NEW r \in 0..w - 1, NEW c \in 0..1, NEW d \in 0..1,
           NEW n \in Int, NEW a \in Byte, a + 256 * d = n + c
    PROVE  SumGoesOn(w, r, c, d, n, a)
  <1>1. a \in Int /\ 0 <= a /\ a <= 255
    BY ByteIs
  <1>2. w * a >= 0 /\ w * a <= w * 255
    BY <1>1
  <1>3. r + w * a \in 0..256 * w - 1
    BY <1>1, <1>2
  <1>4. w * (a + 256 * d) = w * (n + c)
    OBVIOUS
  <1>5. w * (a + 256 * d) = w * a + (256 * w) * d
    BY <1>1
  <1>6. w * (n + c) = w * n + w * c
    OBVIOUS
  <1> QED BY <1>1, <1>3, <1>4, <1>5, <1>6 DEF SumGoesOn

\* And of a difference.
LEMMA NextByteDown ==
    ASSUME NEW w \in Nat, NEW r \in 0..w - 1, NEW c \in 0..1, NEW d \in 0..1,
           NEW n \in Int, NEW a \in Byte, a - 256 * d = n - c
    PROVE  DifferenceGoesOn(w, r, c, d, n, a)
  <1>1. a \in Int /\ 0 <= a /\ a <= 255
    BY ByteIs
  <1>2. w * a >= 0 /\ w * a <= w * 255
    BY <1>1
  <1>3. r + w * a \in 0..256 * w - 1
    BY <1>1, <1>2
  <1>4. w * (a - 256 * d) = w * (n - c)
    OBVIOUS
  <1>5. w * (a - 256 * d) = w * a - (256 * w) * d
    BY <1>1
  <1>6. w * (n - c) = w * n - w * c
    OBVIOUS
  <1> QED BY <1>1, <1>3, <1>4, <1>5, <1>6 DEF DifferenceGoesOn

Sums == [op : {"none", "add", "subtract"}, sum : Int, result : Nat, weight : Nat]

LongInv == long \in Sums /\ CarryCarriesOver

LEMMA LongStep ==
    ASSUME CpuTyped, CpuTyped', Execute \/ In, GhostSums, LongInv
    PROVE  LongInv'
  <1> DEFINE a == reg'[REGISTER_A]
             d == CarryOf(flags')
  <1>1. /\ A \in Byte /\ AluOperand \in Byte /\ a \in Byte
        /\ CarryIn \in 0..1 /\ Carry \in 0..1 /\ d \in 0..1 /\ d = Carry'
    BY Operands DEF AluOperand, CarryIn, Carry, CarryOf, CpuTyped, Registers, REGISTER_A,
       MEMORY_ACCESS
  <1> HIDE DEF a, d
  <1>2. /\ A + AluOperand \in Int /\ A - AluOperand \in Int /\ -CarryIn \in Int
        /\ NoSum \in Sums
    BY <1>1, ByteIs DEF NoSum, Sums
  <1>3. CASE Adds
    <2> DEFINE before == IF AluGroup \in {1, 3} /\ long.op = "add" THEN long
                         ELSE [NoSum EXCEPT !.sum = CarryIn]
               w == before.weight
               r == before.result
               n == A + AluOperand
    <2>1. long' = [op |-> "add", sum |-> before.sum + w * n, result |-> r + w * a,
                   weight |-> BYTES * w]
      <3>1. ~Subtracts
        BY <1>3 DEF Adds, Subtracts
      <3>2. long' = Longer("add", A + AluOperand, CarryIn)
        BY <1>3, <3>1 DEF GhostSums
      <3> QED BY <3>2 DEF Longer, a
    <2>2. a + 256 * d = n + CarryIn
      <3>1. StepAgrees
        BY <1>3, AluAgrees DEF Adds
      <3> QED BY <1>1, <1>3, <3>1, ByteIs DEF StepAgrees, Adds, CarryIn, BYTES, a, d
    <2>3. /\ w \in Nat /\ r \in 0..w - 1 /\ before.sum \in Int
          /\ before.sum = r + w * CarryIn
      <3>1. CASE AluGroup \in {1, 3} /\ long.op = "add"
        BY <3>1 DEF LongInv, Sums, CarryCarriesOver, CarryIn
      <3>2. CASE ~(AluGroup \in {1, 3} /\ long.op = "add")
        <4>1. before = [op |-> "none", sum |-> CarryIn, result |-> 0, weight |-> 1]
          BY <3>2 DEF NoSum
        <4> HIDE DEF before
        <4> QED BY <1>1, <4>1
      <3> QED BY <3>1, <3>2
    <2>0. n \in Int
      BY <1>2
    <2> HIDE DEF before, w, r, n
    <2>4. /\ r + w * a \in 0..256 * w - 1
          /\ (r + w * CarryIn) + w * n = (r + w * a) + (256 * w) * d
      <3>1. SumGoesOn(w, r, CarryIn, d, n, a)
        BY <1>1, <2>0, <2>2, <2>3, NextByte
      <3> QED BY <3>1 DEF SumGoesOn
    <2>5. /\ long'.op = "add" /\ long'.result = r + w * a /\ long'.weight = 256 * w
          /\ long'.sum = long'.result + long'.weight * d
      BY <2>1, <2>3, <2>4 DEF BYTES
    <2>6. long' \in Sums
      BY <1>2, <2>1, <2>3, <2>4 DEF Sums, BYTES, n
    <2> QED BY <1>1, <2>4, <2>5, <2>6 DEF LongInv, CarryCarriesOver
  <1>4. CASE Subtracts
    <2> DEFINE before == IF AluGroup \in {1, 3} /\ long.op = "subtract" THEN long
                         ELSE [NoSum EXCEPT !.sum = -CarryIn]
               w == before.weight
               r == before.result
               n == A - AluOperand
    <2>1. long' = [op |-> "subtract", sum |-> before.sum + w * n, result |-> r + w * a,
                   weight |-> BYTES * w]
      <3>1. ~Adds
        BY <1>4 DEF Adds, Subtracts
      <3>2. long' = Longer("subtract", A - AluOperand, -CarryIn)
        BY <1>4, <3>1 DEF GhostSums
      <3> QED BY <3>2 DEF Longer, a
    <2>2. a - 256 * d = n - CarryIn
      <3>1. StepAgrees
        BY <1>4, AluAgrees DEF Subtracts
      <3> QED BY <1>1, <1>4, <3>1, ByteIs DEF StepAgrees, Subtracts, CarryIn, BYTES, a, d
    <2>3. /\ w \in Nat /\ r \in 0..w - 1 /\ before.sum \in Int
          /\ before.sum = r - w * CarryIn
      <3>1. CASE AluGroup \in {1, 3} /\ long.op = "subtract"
        BY <3>1 DEF LongInv, Sums, CarryCarriesOver, CarryIn
      <3>2. CASE ~(AluGroup \in {1, 3} /\ long.op = "subtract")
        <4>1. before = [op |-> "none", sum |-> -CarryIn, result |-> 0, weight |-> 1]
          BY <3>2 DEF NoSum
        <4> HIDE DEF before
        <4> QED BY <1>1, <4>1
      <3> QED BY <3>1, <3>2
    <2>0. n \in Int
      BY <1>2
    <2> HIDE DEF before, w, r, n
    <2>4. /\ r + w * a \in 0..256 * w - 1
          /\ (r - w * CarryIn) + w * n = (r + w * a) - (256 * w) * d
      <3>1. DifferenceGoesOn(w, r, CarryIn, d, n, a)
        BY <1>1, <2>0, <2>2, <2>3, NextByteDown
      <3> QED BY <3>1 DEF DifferenceGoesOn
    <2>5. /\ long'.op = "subtract" /\ long'.result = r + w * a /\ long'.weight = 256 * w
          /\ long'.sum = long'.result - long'.weight * d
      BY <2>1, <2>3, <2>4 DEF BYTES
    <2>6. long' \in Sums
      BY <1>2, <2>1, <2>3, <2>4 DEF Sums, BYTES, n
    <2> QED BY <1>1, <2>4, <2>5, <2>6 DEF LongInv, CarryCarriesOver
  <1>5. CASE ~Adds /\ ~Subtracts /\ SetsCarry
    <2>1. long' = NoSum
      BY <1>5 DEF GhostSums
    <2> QED BY <1>2, <2>1 DEF LongInv, CarryCarriesOver, NoSum
  <1>6. CASE ~Adds /\ ~Subtracts /\ ~SetsCarry
    <2>1. long' = long /\ Carry' = Carry
      BY <1>6, CarryKept DEF GhostSums
    <2> QED BY <2>1 DEF LongInv, CarryCarriesOver
  <1> QED BY <1>3, <1>4, <1>5, <1>6

LEMMA SpecLongInv == Spec => []LongInv
  <1>1. ASSUME Init PROVE LongInv
    <2>1. long = [op |-> "none", sum |-> 0, result |-> 0, weight |-> 1]
      BY <1>1 DEF Init, NoSum
    <2> QED BY <2>1 DEF LongInv, Sums, CarryCarriesOver
  <1>2. ASSUME GuestInv, GuestInv', LongInv, [Next]_vars PROVE LongInv'
    <2>1. CASE Cycle
      BY <1>2, <2>1, LongStep DEF Cycle, GuestInv
    <2>2. CASE UNCHANGED vars
      BY <1>2, <2>2 DEF vars, cpuVars, LongInv, CarryCarriesOver, Carry
    <2> QED BY <1>2, <2>1, <2>2 DEF Next
  <1> QED BY <1>1, <1>2, SpecGuestInv, PTL DEF Spec

\* Sums and differences of any number of bytes, with any instructions between them that
\* leave the carry alone: the bytes and the carry are those of the integer sum or
\* difference (i8080_adc, i8080_sbb and the flags of every other instruction).
THEOREM CarriesCarryOver == Spec => []CarryCarriesOver
  <1>1. LongInv => CarryCarriesOver
    BY DEF LongInv
  <1> QED BY <1>1, SpecLongInv, PTL

\* What DAA finds behind an addition: its sum and its two carries.
SumLeft ==
    summed # <<>> =>
        \E a, val \in Byte, c \in 0..1 :
            LET sum == GenAdd(a, val + c)
            IN  /\ summed = <<a, val, c>>
                /\ A = sum.a
                /\ FLAGS_H \in flags <=> sum.half
                /\ FLAGS_CARRY \in flags <=> sum.carry

LEMMA WhatAdds ==
    ASSUME CpuTyped, Execute \/ In, Adds
    PROVE  AddToA(AluOperand + CarryIn)
  <1>1. /\ OpCode \in Byte /\ RegRead(Source) \in Byte /\ Imm8 \in Byte /\ Carry \in 0..1
        /\ \A v \in Byte : v + 0 = v
    BY Operands, ByteIs DEF Carry
  <1>2. CASE Add
    <2>1. AluGroup = 0 /\ AluOperand = RegRead(Source)
      BY <1>1, <1>2, ByteIs DEF Add, WithRegister, AluGroup, AluOperand
    <2>2. AluOperand + CarryIn = RegRead(Source)
      BY <1>1, <2>1 DEF CarryIn
    <2> QED BY <1>2, <2>2 DEF Add, WithRegister
  <1>3. CASE Adc
    <2>1. AluGroup = 1 /\ AluOperand = RegRead(Source)
      BY <1>1, <1>3, ByteIs DEF Adc, WithRegister, AluGroup, AluOperand
    <2> QED BY <1>1, <1>3, <2>1 DEF Adc, WithRegister, CarryIn, AddWithCarry
  <1>4. CASE Adi
    <2>1. AluGroup = 0 /\ AluOperand = Imm8
      BY <1>1, <1>4, ByteIs DEF Adi, WithImmediate, AluGroup, AluOperand, Destination
    <2>2. AluOperand + CarryIn = Imm8
      BY <1>1, <2>1 DEF CarryIn
    <2> QED BY <1>4, <2>2 DEF Adi, WithImmediate
  <1>5. CASE Aci
    <2>1. AluGroup = 1 /\ AluOperand = Imm8
      BY <1>1, <1>5, ByteIs DEF Aci, WithImmediate, AluGroup, AluOperand, Destination
    <2> QED BY <1>1, <1>5, <2>1 DEF Aci, WithImmediate, CarryIn, AddWithCarry
  <1>6. ~Sub /\ ~Sbb /\ ~Ana /\ ~Xra /\ ~Ora /\ ~Cmp
    BY <1>1, ByteIs DEF Adds, AluGroup, Sub, Sbb, Ana, Xra, Ora, Cmp, WithRegister
  <1>7. ~Sui /\ ~Sbi /\ ~Ani /\ ~Xri /\ ~Ori /\ ~Cpi
    BY <1>1, ByteIs DEF Adds, AluGroup, Destination, Sui, Sbi, Ani, Xri, Ori, Cpi,
       WithImmediate
  <1> QED BY <1>2, <1>3, <1>4, <1>5, <1>6, <1>7, OnlyAlu DEF Adds

LEMMA SumStep ==
    ASSUME CpuTyped, Execute \/ In, GhostSums
    PROVE  SumLeft'
  <1>1. CASE ~Adds
    BY <1>1 DEF GhostSums, SumLeft
  <1>2. CASE Adds
    <2> DEFINE sum == GenAdd(A, AluOperand + CarryIn)
    <2>1. A \in Byte /\ AluOperand \in Byte /\ CarryIn \in 0..1
      BY Operands DEF AluOperand, CarryIn, Carry
    <2>2. A' = sum.a /\ flags' = SumFlags(sum)
      BY <1>2, WhatAdds DEF AddToA, Result, SetA, CpuTyped, Registers, A, REGISTER_A,
         MEMORY_ACCESS
    <2>3. AluOperand + CarryIn \in 0..BYTES
      BY <2>1, ByteIs DEF BYTES
    <2>4. sum.a \in Byte
      BY <2>1, <2>3, AdditionIsExact
    <2>5. FLAGS_CARRY \in SumFlags(sum) <=> sum.carry
      BY <2>4, SumFlagsTell
    <2>6. FLAGS_H \in SumFlags(sum) <=> sum.half
      BY DEF SumFlags, UpdateFlags, SetTo, FLAGS_H, FLAGS_CARRY, FLAGS_PARITY, FLAGS_ZERO,
         FLAGS_SIGN
    <2>7. summed' = <<A, AluOperand, CarryIn>>
      BY <1>2 DEF GhostSums
    <2> HIDE DEF sum
    <2>8. /\ A' = sum.a
          /\ FLAGS_H \in flags' <=> sum.half
          /\ FLAGS_CARRY \in flags' <=> sum.carry
      BY <2>2, <2>5, <2>6
    <2> QED BY <2>1, <2>7, <2>8 DEF SumLeft, sum
  <1> QED BY <1>1, <1>2

LEMMA SpecSumLeft == Spec => []SumLeft
  <1>1. Init => SumLeft
    BY DEF Init, SumLeft
  <1>2. ASSUME GuestInv, SumLeft, [Next]_vars PROVE SumLeft'
    <2>1. CASE Cycle
      BY <1>2, <2>1, SumStep DEF Cycle, GuestInv
    <2>2. CASE UNCHANGED vars
      BY <1>2, <2>2 DEF vars, cpuVars, SumLeft, A
    <2> QED BY <1>2, <2>1, <2>2 DEF Next
  <1> QED BY <1>1, <1>2, SpecGuestInv, PTL DEF Spec

\* The two digits of a byte.
LEMMA Digits ==
    ASSUME NEW byte \in Byte
    PROVE  byte = 16 * (byte \div 16) + (byte % 16)
  <1> QED BY ByteIs

\* The two digits of a sum of tens k and units u that may carry.
LEMMA DigitsOfSum ==
    ASSUME NEW k \in 0..18, NEW u \in 0..19, NEW t, t = k + (IF u > 9 THEN 1 ELSE 0)
    PROVE  10 * (t % 10) + (u % 10) = (10 * k + u) % 100
  <1>1. u % 10 = IF u > 9 THEN u - 10 ELSE u
    OBVIOUS
  <1>2. t \in 0..19 /\ t % 10 = IF t > 9 THEN t - 10 ELSE t
    OBVIOUS
  <1>3. 10 * k + u = 10 * t + (u % 10)
    BY <1>1
  <1>4. (10 * k + u) % 100 = IF t > 9 THEN 10 * k + u - 100 ELSE 10 * k + u
    BY <1>1, <1>2, <1>3
  <1> QED BY <1>2, <1>3, <1>4

\* DAA is the one case of its opcode.
LEMMA OnlyDaa ==
    ASSUME CpuTyped, Execute \/ In, OpCode = 39
    PROVE  Daa
  <1>1. ~Mov /\ ~Mvi /\ ~Lxi /\ ~Lda /\ ~Sta /\ ~Lhld /\ ~Shld /\ ~Ldax /\ ~Stax /\ ~Xchg
    BY DEF Mov, Mvi, Lxi, Lda, Sta, Lhld, Shld, Ldax, Stax, Xchg, OpCodeIs
  <1>2. /\ ~Add /\ ~Adc /\ ~Sub /\ ~Sbb /\ ~Ana /\ ~Xra /\ ~Ora /\ ~Cmp
        /\ ~Adi /\ ~Aci /\ ~Sui /\ ~Sbi /\ ~Ani /\ ~Xri /\ ~Ori /\ ~Cpi
    BY DEF Add, Adc, Sub, Sbb, Ana, Xra, Ora, Cmp, WithRegister,
       Adi, Aci, Sui, Sbi, Ani, Xri, Ori, Cpi, WithImmediate
  <1>3. ~Inr /\ ~Dcr /\ ~Inx /\ ~Dcx /\ ~Dad /\ ~Rlc /\ ~Rrc /\ ~Ral /\ ~Rar
    BY DEF Inr, Dcr, Inx, Dcx, Dad, Rlc, Rrc, Ral, Rar, Rotate, OpCodeIs
  <1>4. ~Stc /\ ~Cmc /\ ~Ei /\ ~Di /\ ~Nop /\ ~Cma /\ ~Out /\ ~NoCase /\ ~In
    BY DEF Stc, Cmc, Ei, Di, Nop, FlagsOnly, Cma, Out, NoCase, Unassigned, In, OpCodeIs
  <1>5. /\ ~Push /\ ~Pop /\ ~Xthl /\ ~Sphl /\ ~Jmp /\ ~Jccc /\ ~Call /\ ~Cccc /\ ~Ret
        /\ ~Rccc /\ ~Pchl /\ ~Rst
    BY DEF Push, Pop, Xthl, Sphl, Jmp, Jccc, Call, Cccc, Ret, Rccc, Pchl, Rst,
       Transfer, OpCodeIs
  <1> QED BY <1>1, <1>2, <1>3, <1>4, <1>5 DEF Execute

LEMMA DaaStep ==
    ASSUME CpuTyped, Execute \/ In, OpCode = 39, SumLeft, summed # <<>>,
           IsDecimal(summed[1]), IsDecimal(summed[2])
    PROVE  DaaAdjusts
  <1>1. PICK a \in Byte, val \in Byte, c \in 0..1 :
            /\ summed = <<a, val, c>>
            /\ A = GenAdd(a, val + c).a
            /\ FLAGS_H \in flags <=> GenAdd(a, val + c).half
            /\ FLAGS_CARRY \in flags <=> GenAdd(a, val + c).carry
    BY DEF SumLeft
  <1> DEFINE x1 == a \div 16
             x0 == a % 16
             y1 == val \div 16
             y0 == val % 16
             left == GenAdd(a, val + c)
             sum == Adjusted(left)
             u == x0 + y0 + c
             t == x1 + y1 + (IF u > 9 THEN 1 ELSE 0)
  <1>2. x1 \in 0..9 /\ x0 \in 0..9 /\ y1 \in 0..9 /\ y0 \in 0..9
    BY <1>1, ByteIs DEF IsDecimal
  <1>3. a = 16 * x1 + x0 /\ val = 16 * y1 + y0
    BY Digits
  <1>4. reg'[REGISTER_A] = sum.a /\ flags' = SumFlags(sum)
    <2>1. AddToA(Adjustment(A, FLAGS_H \in flags, FLAGS_CARRY \in flags))
      BY OnlyDaa DEF Daa
    <2>2. (FLAGS_H \in flags) = left.half /\ (FLAGS_CARRY \in flags) = left.carry
      <3>1. left.half \in BOOLEAN /\ left.carry \in BOOLEAN
        BY DEF GenAdd, CheckHalfCarry, CheckCarry
      <3>2. FLAGS_H \in flags <=> left.half
        BY <1>1
      <3>3. FLAGS_CARRY \in flags <=> left.carry
        BY <1>1
      <3> HIDE DEF left
      <3> QED BY <3>1, <3>2, <3>3
    <2>3. GenAdd(A, Adjustment(A, FLAGS_H \in flags, FLAGS_CARRY \in flags)) = sum
      BY <1>1, <2>2 DEF Adjusted
    <2> HIDE DEF sum
    <2> QED BY <2>1, <2>3 DEF AddToA, Result, SetA, CpuTyped, Registers, REGISTER_A,
       MEMORY_ACCESS
  <1>5. SUFFICES ASSUME a + val + c \notin 250..255
                 PROVE  /\ IsDecimal(sum.a)
                        /\ ValueOf(sum.a) = (ValueOf(a) + ValueOf(val) + c) % 100
                        /\ CarryOf(flags') = 1
                             <=> /\ ValueOf(a) + ValueOf(val) + c >= 100
                                 /\ a + val + c < 256
    <2>1. summed[1] = a /\ summed[2] = val /\ summed[3] = c
      BY <1>1
    <2> HIDE DEF sum
    <2> QED BY <1>4, <2>1 DEF DaaAdjusts
  <1>6. /\ sum.a = 16 * (t % 10) + (u % 10)
        /\ sum.carry <=> 10 * (x1 + y1) + u >= 100 /\ 16 * (x1 + y1) + u < 256
    <2> HIDE DEF x1, x0, y1, y0
    <2>1. 16 * (x1 + y1) + (x0 + y0 + c) \notin 250..255
      BY <1>1, <1>2, <1>3, <1>5
    <2>2. left = GenAdd(16 * x1 + x0, 16 * y1 + y0 + c)
      BY <1>3
    <2> DEFINE s == Adjusted(GenAdd(16 * x1 + x0, 16 * y1 + y0 + c))
    <2>3. /\ s.a = 16 * (t % 10) + (u % 10)
          /\ s.carry <=> 10 * (x1 + y1) + u >= 100 /\ 16 * (x1 + y1) + u < 256
      BY <1>2, <2>1, DecimalDigits, Zenon
    <2>4. s = sum
      BY <2>2
    <2> HIDE DEF s, sum, u, t
    <2> QED BY <2>3, <2>4
  <1>7. ValueOf(a) + ValueOf(val) + c = 10 * (x1 + y1) + u /\ a + val + c = 16 * (x1 + y1) + u
    <2>1. ValueOf(a) = 10 * x1 + x0 /\ ValueOf(val) = 10 * y1 + y0
      BY DEF ValueOf
    <2> HIDE DEF x1, x0, y1, y0
    <2> QED BY <1>2, <1>3, <2>1
  <1> HIDE DEF x1, x0, y1, y0, left, sum
  <1>8. u \in 0..19 /\ t \in 0..19 /\ x1 + y1 \in 0..18
    BY <1>1, <1>2
  <1> HIDE DEF t, u
  <1>9. t % 10 \in 0..9 /\ u % 10 \in 0..9
    BY <1>8
  <1>10. sum.a \div 16 = t % 10 /\ sum.a % 16 = u % 10 /\ sum.a \in Byte
    <2> DEFINE p == t % 10
               q == u % 10
    <2>1. p \in 0..9 /\ q \in 0..9
      BY <1>9
    <2>2. sum.a = 16 * p + q
      BY <1>6
    <2> HIDE DEF p, q
    <2>3. (16 * p + q) \div 16 = p
      BY <2>1
    <2>4. (16 * p + q) % 16 = q
      BY <2>1
    <2>5. 16 * p + q \in Byte
      BY <2>1, ByteIs
    <2>6. sum.a \div 16 = p /\ sum.a % 16 = q /\ sum.a \in Byte
      BY <2>2, <2>3, <2>4, <2>5
    <2> QED BY <2>6 DEF p, q
  <1>11. 10 * (t % 10) + (u % 10) = (10 * (x1 + y1) + u) % 100
    <2>1. t = (x1 + y1) + (IF u > 9 THEN 1 ELSE 0)
      BY DEF t
    <2> DEFINE k == x1 + y1
    <2>2. k \in 0..18
      BY <1>8
    <2>3. t = k + (IF u > 9 THEN 1 ELSE 0)
      BY <2>1
    <2> HIDE DEF k
    <2>4. 10 * (t % 10) + (u % 10) = (10 * k + u) % 100
      BY <1>8, <2>2, <2>3, DigitsOfSum
    <2> QED BY <2>4 DEF k
  <1>12. FLAGS_CARRY \in flags' <=> sum.carry
    BY <1>4, <1>10, SumFlagsTell
  <1> QED BY <1>6, <1>7, <1>9, <1>10, <1>11, <1>12 DEF IsDecimal, ValueOf, CarryOf

\* DAA after any addition of two decimal bytes, in every guest program: the digits are
\* those of the decimal sum and the carry is its hundred, but for the two ranges of the
\* binary sum that DecimalDigitsRight names (i8080_daa).
THEOREM DaaIsDecimal == Spec => DecimalDigitsRight
  <1>1. GuestInv /\ SumLeft /\ [Next]_vars =>
            [OpCode = 39 /\ summed # <<>> /\ IsDecimal(summed[1]) /\ IsDecimal(summed[2])
                => DaaAdjusts]_vars
    BY DaaStep DEF Next, Cycle, GuestInv
  <1> QED BY <1>1, SpecGuestInv, SpecSumLeft, PTL DEF Spec, DecimalDigitsRight
=============================================================================
