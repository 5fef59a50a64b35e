------------------------------ MODULE Alu8080 ------------------------------
(***************************************************************************)
(* The sums of the Intel 8080: 8-bit addition, subtraction as the addition *)
(* of a two's complement, and decimal adjustment.  An operand of 256 is    *)
(* 255 and the carry of an earlier addition.                               *)
(***************************************************************************)
EXTENDS Integers

BYTES == 256
Byte == 0..BYTES - 1

CheckCarry(a, b) == a + b > 255

CheckHalfCarry(a, b) == (a % 16) + (b % 16) > 15

\* What an addition leaves in A, CARRY and H.
GenAdd(a, val) == [a |-> (a + val) % BYTES,
                   carry |-> CheckCarry(a, val),
                   half |-> CheckHalfCarry(a, val)]

\* Mutant: the two's complement is one short.
GenSubOnesComplement(a, val) ==
    LET b == BYTES - 1 - val
    IN  [a |-> (a + b) % BYTES, carry |-> ~CheckCarry(a, b),
         half |-> CheckHalfCarry(a, b)]

\* The carry of the addition is the absence of a borrow.
GenSub(a, val) ==
    LET b == BYTES - val
    IN  [a |-> (a + b) % BYTES, carry |-> ~CheckCarry(a, b),
         half |-> CheckHalfCarry(a, b)]

\* Mutant: the half carry is not looked at.
AdjustLowOnly(a, half, carry) ==
    LET low == IF a % 16 > 9 THEN 6 ELSE 0
        val == (a + low) % BYTES
    IN  low + (IF val \div 16 > 9 \/ carry THEN 96 ELSE 0)

\* What DAA adds to A: 6 per decimal digit that overflowed.
Adjustment(a, half, carry) ==
    LET low == IF a % 16 > 9 \/ half THEN 6 ELSE 0
        val == (a + low) % BYTES
    IN  low + (IF val \div 16 > 9 \/ carry THEN 96 ELSE 0)
=============================================================================
