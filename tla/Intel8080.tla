----------------------------- MODULE Intel8080 -----------------------------
(***************************************************************************)
(* The Intel 8080: i8080_cycle fetches one instruction and executes it.    *)
(* One action per instruction.  Registers have the numbers the opcodes     *)
(* have for them, the flags register is the set of its bits, memory is     *)
(* the cells that were ever written, all others being 0.                   *)
(*                                                                         *)
(* Not here: the status word, which is only shown on the panel, and what   *)
(* the devices behind the ports do.                                        *)
(***************************************************************************)
EXTENDS Alu8080, Sequences, FiniteSets

CONSTANTS
    Boots,          \* registers and memory a guest program starts with
    PortBytes       \* what the devices give, the terminal apart

VARIABLES
    reg, flags, sp, pc, memory, address_bus, data_bus,
    character,          \* typed at the terminal, held for port 17; 0 for none
    typed,              \* how many characters the terminal has given
    boot, cycles,       \* ghosts: the program, how many instructions it ran,
    stack,              \* the words on its stack
    summed, long,       \* the operands of the addition it just made, and the sum
                        \* or difference of bytes it is in
    received,           \* the characters it read from the terminal
    overtaken           \* it read one at port 1 while another was held

cpuVars == <<reg, flags, sp, pc, memory, address_bus, data_bus>>
terminalVars == <<character, typed, received, overtaken>>
vars == <<cpuVars, terminalVars, cycles, boot, stack, summed, long>>

WORDS == 65536

REGISTER_A == 7
MEMORY_ACCESS == 6
PAIR_HL == 2
PAIR_SP == 3
Registers == 0..7 \ {MEMORY_ACCESS}

FLAGS_CARRY == 0
FLAGS_PARITY == 2
FLAGS_H == 4
FLAGS_IF == 5
FLAGS_ZERO == 6
FLAGS_SIGN == 7

Word == 0..WORDS - 1

\* The cells that were written, and what is in them.
IsMemory(m) == DOMAIN m \subseteq Word /\ m \in [DOMAIN m -> Byte]

\* A guest starts with bytes and words of the machine's width.
ASSUME GuestAssumption ==
    /\ PortBytes \subseteq Byte
    /\ \A b \in Boots :
          /\ b.reg \in [Registers -> Byte] /\ b.flags \subseteq 0..7
          /\ b.sp \in Word /\ b.pc \in Word /\ IsMemory(b.memory)

Bits(byte) == {i \in 0..7 : (byte \div 2^i) % 2 = 1}

FromBits(S) ==
    LET bit(i) == IF i \in S THEN 2^i ELSE 0
    IN  bit(0) + bit(1) + bit(2) + bit(3) + bit(4) + bit(5) + bit(6) + bit(7)

Differ(S, T) == (S \ T) \cup (T \ S)

-----------------------------------------------------------------------------
(***************************************************************************)
(* Memory, registers and flags.                                            *)
(***************************************************************************)
Read8(m, address) ==
    LET cell == address % WORDS IN IF cell \in DOMAIN m THEN m[cell] ELSE 0

Write8(m, address, val) ==
    LET cell == address % WORDS
    IN  [a \in DOMAIN m \cup {cell} |-> IF a = cell THEN val ELSE m[a]]

Read16(m, address) == Read8(m, address) + BYTES * Read8(m, address + 1)

Write16(m, address, val) ==
    Write8(Write8(m, address, val % BYTES), address + 1, val \div BYTES)

OpCode == Read8(memory, pc)
Imm8 == Read8(memory, pc + 1)
Imm16 == Read16(memory, pc + 1)

Destination == (OpCode \div 8) % 8
Source == OpCode % 8
RP == (OpCode \div 16) % 4

\* The opcode is of this quarter of the 256, and its low digit, base n, is this.
OpCodeIs(quarter, n, low) == OpCode \div 64 = quarter /\ OpCode % n = low

A == reg[REGISTER_A]
PairRead(pair) == IF pair = PAIR_SP THEN sp
                  ELSE BYTES * reg[2 * pair] + reg[2 * pair + 1]
HL == PairRead(PAIR_HL)

PairWrite(pair, val) ==
    IF pair = PAIR_SP
    THEN sp' = val /\ UNCHANGED reg
    ELSE /\ reg' = [reg EXCEPT ![2 * pair] = val \div BYTES,
                               ![2 * pair + 1] = val % BYTES]
         /\ UNCHANGED sp

SetA(val) == reg' = [reg EXCEPT ![REGISTER_A] = val]

RegRead(r) == IF r = MEMORY_ACCESS THEN Read8(memory, HL) ELSE reg[r]

RegWrite(r, val) ==
    IF r = MEMORY_ACCESS
    THEN memory' = Write8(memory, HL, val) /\ UNCHANGED reg
    ELSE reg' = [reg EXCEPT ![r] = val] /\ UNCHANGED memory

Bus(address, data) == address_bus' = address /\ data_bus' = data

\* i8080_fetch_next_op.
Fetch == Bus(pc, OpCode)

\* The buses after register r, or the memory at HL, held val last.
BusOf(r, val) == IF r = MEMORY_ACCESS THEN Bus(HL, val) ELSE Fetch

Advance(n) == pc' = (pc + n) % WORDS

SetTo(f, flag, on) == IF on THEN f \cup {flag} ELSE f \ {flag}

Carry == IF FLAGS_CARRY \in flags THEN 1 ELSE 0

\* get_parity: a table of the odd nibbles, applied to both halves at once.
GetParity(val) ==
    FromBits(Differ(Bits(val % 16), Bits(val \div 16)))
        \notin {1, 2, 4, 7, 8, 11, 13, 14}

UpdateFlags(f, val) ==
    SetTo(SetTo(SetTo(f, FLAGS_PARITY, GetParity(val)),
                FLAGS_ZERO, val = 0),
          FLAGS_SIGN, val >= 128)

CheckCondition(condition) ==
    LET flag == <<FLAGS_ZERO, FLAGS_CARRY, FLAGS_PARITY, FLAGS_SIGN>>
    IN  (flag[condition \div 2 + 1] \in flags) = (condition % 2 = 1)

NoSum == [op |-> "none", sum |-> 0, result |-> 0, weight |-> 1]

Init ==
    /\ boot \in Boots
    /\ reg = boot.reg /\ flags = boot.flags /\ sp = boot.sp
    /\ pc = boot.pc /\ memory = boot.memory
    /\ address_bus = boot.pc /\ data_bus = OpCode
    /\ character = 0 /\ typed = 0
    /\ cycles = 0 /\ stack = <<>> /\ summed = <<>> /\ long = NoSum
    /\ received = <<>> /\ overtaken = FALSE

-----------------------------------------------------------------------------
(***************************************************************************)
(* Moves.                                                                  *)
(***************************************************************************)
Mov ==
    /\ OpCode \in 64..127 \ {118}
    /\ LET val == RegRead(Source)
       IN  /\ RegWrite(Destination, val)
           /\ BusOf(IF Destination = MEMORY_ACCESS THEN Destination ELSE Source, val)
    /\ Advance(1)
    /\ UNCHANGED <<flags, sp>>

Mvi ==
    /\ OpCodeIs(0, 8, 6)
    /\ RegWrite(Destination, Imm8)
    /\ BusOf(Destination, Imm8)
    /\ Advance(2)
    /\ UNCHANGED <<flags, sp>>

Lxi ==
    /\ OpCodeIs(0, 16, 1)
    /\ PairWrite(RP, Imm16)
    /\ Fetch /\ Advance(3)
    /\ UNCHANGED <<flags, memory>>

Lda ==
    /\ OpCode = 58
    /\ SetA(Read8(memory, Imm16))
    /\ Bus(Imm16, Read8(memory, Imm16)) /\ Advance(3)
    /\ UNCHANGED <<flags, sp, memory>>

Sta ==
    /\ OpCode = 50
    /\ memory' = Write8(memory, Imm16, A)
    /\ Bus(Imm16, A) /\ Advance(3)
    /\ UNCHANGED <<reg, flags, sp>>

Lhld ==
    /\ OpCode = 42
    /\ PairWrite(PAIR_HL, Read16(memory, Imm16))
    /\ Fetch /\ Advance(3)
    /\ UNCHANGED <<flags, memory>>

Shld ==
    /\ OpCode = 34
    /\ memory' = Write16(memory, Imm16, HL)
    /\ Fetch /\ Advance(3)
    /\ UNCHANGED <<reg, flags, sp>>

Ldax ==
    /\ OpCode \in {10, 26}
    /\ SetA(Read8(memory, PairRead(RP)))
    /\ Fetch /\ Advance(1)
    /\ UNCHANGED <<flags, sp, memory>>

Stax ==
    /\ OpCode \in {2, 18}
    /\ memory' = Write8(memory, PairRead(RP), A)
    /\ Fetch /\ Advance(1)
    /\ UNCHANGED <<reg, flags, sp>>

Xchg ==
    /\ OpCode = 235
    /\ reg' = [reg EXCEPT ![2] = reg[4], ![3] = reg[5], ![4] = reg[2], ![5] = reg[3]]
    /\ Fetch /\ Advance(1)
    /\ UNCHANGED <<flags, sp, memory>>

-----------------------------------------------------------------------------
(***************************************************************************)
(* Arithmetic and logic on A, with a register or with the next byte.       *)
(***************************************************************************)
WithRegister(group, Op(_)) ==
    /\ OpCode \in group
    /\ Op(RegRead(Source))
    /\ BusOf(Source, RegRead(Source)) /\ Advance(1)
    /\ UNCHANGED <<sp, memory>>

WithImmediate(op, Op(_)) ==
    /\ OpCode = op
    /\ Op(Imm8)
    /\ Fetch /\ Advance(2)
    /\ UNCHANGED <<sp, memory>>

SumFlags(sum) ==
    UpdateFlags(SetTo(SetTo(flags, FLAGS_H, sum.half), FLAGS_CARRY, sum.carry), sum.a)

Result(sum) == SetA(sum.a) /\ flags' = SumFlags(sum)

AddToA(val) == Result(GenAdd(A, val))
AddWithCarry(val) == AddToA(val + Carry)
SubFromA(val) == Result(GenSub(A, val))
SubWithBorrow(val) == SubFromA(val + Carry)
Compare(val) == flags' = SumFlags(GenSub(A, val)) /\ UNCHANGED reg

\* ANA alone leaves H as it is.
Logic(val, cleared) == SetA(val) /\ flags' = UpdateFlags(flags \ cleared, val)
AndRegister(val) == Logic(FromBits(Bits(A) \cap Bits(val)), {FLAGS_CARRY})
AndByte(val) == Logic(FromBits(Bits(A) \cap Bits(val)), {FLAGS_CARRY, FLAGS_H})
OrA(val) == Logic(FromBits(Bits(A) \cup Bits(val)), {FLAGS_CARRY, FLAGS_H})
XorA(val) == Logic(FromBits(Differ(Bits(A), Bits(val))), {FLAGS_CARRY, FLAGS_H})

Add == WithRegister(128..135, AddToA)
Adi == WithImmediate(198, AddToA)
Adc == WithRegister(136..143, AddWithCarry)
Aci == WithImmediate(206, AddWithCarry)
Sub == WithRegister(144..151, SubFromA)
Sui == WithImmediate(214, SubFromA)
Sbb == WithRegister(152..159, SubWithBorrow)
Sbi == WithImmediate(222, SubWithBorrow)
Ana == WithRegister(160..167, AndRegister)
Ani == WithImmediate(230, AndByte)
Xra == WithRegister(168..175, XorA)
Xri == WithImmediate(238, XorA)
Ora == WithRegister(176..183, OrA)
Ori == WithImmediate(246, OrA)
Cmp == WithRegister(184..191, Compare)
Cpi == WithImmediate(254, Compare)

Daa ==
    /\ OpCode = 39
    /\ AddToA(Adjustment(A, FLAGS_H \in flags, FLAGS_CARRY \in flags))
    /\ Fetch /\ Advance(1)
    /\ UNCHANGED <<sp, memory>>

\* Mutant: DCR sets the carry as a subtraction does.
StepWithCarry(n) ==
    LET new == (RegRead(Destination) + n) % BYTES
    IN  /\ flags' = UpdateFlags(
                        SetTo(SetTo(flags, FLAGS_H,
                                    CheckHalfCarry(RegRead(Destination), n)),
                              FLAGS_CARRY, CheckCarry(RegRead(Destination), n)), new)
        /\ RegWrite(Destination, new)
        /\ BusOf(Destination, new) /\ Advance(1)
        /\ UNCHANGED sp

\* Neither INR nor DCR touches the carry.
Step(n) ==
    LET new == (RegRead(Destination) + n) % BYTES
    IN  /\ flags' = UpdateFlags(SetTo(flags, FLAGS_H,
                                      CheckHalfCarry(RegRead(Destination), n)), new)
        /\ RegWrite(Destination, new)
        /\ BusOf(Destination, new) /\ Advance(1)
        /\ UNCHANGED sp

Inr == OpCodeIs(0, 8, 4) /\ Step(1)
Dcr == OpCodeIs(0, 8, 5) /\ Step(255)

StepPair(n) ==
    /\ PairWrite(RP, (PairRead(RP) + n) % WORDS)
    /\ Fetch /\ Advance(1)
    /\ UNCHANGED <<flags, memory>>

Inx == OpCodeIs(0, 16, 3) /\ StepPair(1)
Dcx == OpCodeIs(0, 16, 11) /\ StepPair(WORDS - 1)

Dad ==
    /\ OpCodeIs(0, 16, 9)
    /\ LET val == PairRead(RP) + HL
       IN  /\ flags' = SetTo(flags, FLAGS_CARRY, val >= WORDS)
           /\ PairWrite(PAIR_HL, val % WORDS)
    /\ Fetch /\ Advance(1)
    /\ UNCHANGED memory

Rotate(op, val, out) ==
    /\ OpCode = op
    /\ SetA(val)
    /\ flags' = SetTo(flags, FLAGS_CARRY, out = 1)
    /\ Fetch /\ Advance(1)
    /\ UNCHANGED <<sp, memory>>

HighBit == A \div 128
LowBit == A % 2

Rlc == Rotate(7, ((2 * A) % BYTES) + HighBit, HighBit)
Rrc == Rotate(15, (A \div 2) + 128 * LowBit, LowBit)
Ral == Rotate(23, ((2 * A) % BYTES) + Carry, HighBit)
Rar == Rotate(31, (A \div 2) + 128 * Carry, LowBit)

FlagsOnly(op, f) ==
    /\ OpCode = op
    /\ flags' = f
    /\ Fetch /\ Advance(1)
    /\ UNCHANGED <<reg, sp, memory>>

Stc == FlagsOnly(55, flags \cup {FLAGS_CARRY})
Cmc == FlagsOnly(63, Differ(flags, {FLAGS_CARRY}))
Ei == FlagsOnly(251, flags \cup {FLAGS_IF})
Di == FlagsOnly(243, flags \ {FLAGS_IF})
Nop == FlagsOnly(0, flags)

Cma ==
    /\ OpCode = 47
    /\ SetA(255 - A)
    /\ Fetch /\ Advance(1)
    /\ UNCHANGED <<flags, sp, memory>>

-----------------------------------------------------------------------------
(***************************************************************************)
(* The stack, jumps and ports.                                             *)
(***************************************************************************)
PushWord(val) ==
    /\ sp' = (sp - 2) % WORDS
    /\ memory' = Write16(memory, sp - 2, val)

Psw == BYTES * A + FromBits(flags)

Push ==
    /\ OpCodeIs(3, 16, 5)
    /\ PushWord(IF RP = PAIR_SP THEN Psw ELSE PairRead(RP))
    /\ Fetch /\ Advance(1)
    /\ UNCHANGED <<reg, flags>>

Pop ==
    /\ OpCodeIs(3, 16, 1)
    /\ LET val == Read16(memory, sp)
       IN  IF RP = PAIR_SP
           THEN SetA(val \div BYTES) /\ flags' = Bits(val % BYTES)
           ELSE /\ reg' = [reg EXCEPT ![2 * RP] = val \div BYTES,
                                      ![2 * RP + 1] = val % BYTES]
                /\ UNCHANGED flags
    /\ sp' = (sp + 2) % WORDS
    /\ Fetch /\ Advance(1)
    /\ UNCHANGED memory

Xthl ==
    /\ OpCode = 227
    /\ PairWrite(PAIR_HL, Read16(memory, sp))
    /\ memory' = Write16(memory, sp, HL)
    /\ Fetch /\ Advance(1)
    /\ UNCHANGED flags

Sphl ==
    /\ OpCode = 249
    /\ sp' = HL
    /\ Fetch /\ Advance(1)
    /\ UNCHANGED <<reg, flags, memory>>

Jump == pc' = Imm16 /\ UNCHANGED <<sp, memory>>

\* Mutant: the address is that of the byte behind the opcode.
CallShort ==
    /\ PushWord((pc + 1) % WORDS)
    /\ pc' = Read16(memory', pc + 1)

\* The target is read after the return address has been written.
CallSubroutine ==
    /\ PushWord((pc + 3) % WORDS)
    /\ pc' = Read16(memory', pc + 1)

Return ==
    /\ pc' = Read16(memory, sp)
    /\ sp' = (sp + 2) % WORDS
    /\ UNCHANGED memory

\* Mutant: a jump, call or return not taken is one byte long.
SkipByte(n) == Advance(1) /\ UNCHANGED <<sp, memory>>

Skip(n) == Advance(n) /\ UNCHANGED <<sp, memory>>

Taken == CheckCondition(Destination)

Transfer(op) == op /\ Fetch /\ UNCHANGED <<reg, flags>>

Jmp == Transfer(OpCode = 195) /\ Jump
Jccc == Transfer(OpCodeIs(3, 8, 2)) /\ IF Taken THEN Jump ELSE Skip(3)
Call == Transfer(OpCode = 205) /\ CallSubroutine
Cccc == Transfer(OpCodeIs(3, 8, 4)) /\ IF Taken THEN CallSubroutine ELSE Skip(3)
Ret == Transfer(OpCode = 201) /\ Return
Rccc == Transfer(OpCodeIs(3, 8, 0)) /\ IF Taken THEN Return ELSE Skip(1)
Pchl == Transfer(OpCode = 233) /\ pc' = HL /\ UNCHANGED <<sp, memory>>
Rst == Transfer(OpCodeIs(3, 8, 7)) /\ PushWord((pc + 1) % WORDS)
                                    /\ pc' = 8 * Destination

\* altair_read_terminal: the next character typed, or none; they are numbered, as
\* far as a byte goes.
TermIn(c) == c \in {0, typed + 1} \cap Byte /\ typed' = IF c = 0 THEN typed ELSE c

Receive(c) == received' = IF c = 0 THEN received ELSE Append(received, c)

\* Port 1: past the character that is held.
ReadSio(c) ==
    /\ TermIn(c) /\ SetA(c) /\ Receive(c)
    /\ overtaken' = (overtaken \/ (character # 0 /\ c # 0))
    /\ UNCHANGED character

\* Mutant: every look at the status takes a character from the terminal.
StatusForgets(c) ==
    /\ TermIn(c)
    /\ character' = c
    /\ SetA(IF character' = 0 THEN 2 ELSE 3)
    /\ UNCHANGED <<received, overtaken>>

\* Port 16: ready to print, and whether a character is held.
Status2Sio(c) ==
    /\ IF character = 0 THEN TermIn(c) /\ character' = c
       ELSE c = 0 /\ UNCHANGED <<character, typed>>
    /\ SetA(IF character' = 0 THEN 2 ELSE 3)
    /\ UNCHANGED <<received, overtaken>>

\* Port 17.
Read2Sio(c) ==
    /\ IF character = 0 THEN TermIn(c) ELSE c = character /\ UNCHANGED typed
    /\ character' = 0
    /\ SetA(c) /\ Receive(c)
    /\ UNCHANGED overtaken

\* No device at port 0; the others are the disk controller and the Sphere ports.
ReadDevice(bytes) == (\E val \in bytes : SetA(val)) /\ UNCHANGED terminalVars

In ==
    /\ OpCode = 219
    /\ \/ Imm8 = 0 /\ ReadDevice({0})
       \/ Imm8 = 1 /\ \E c \in {0, typed + 1} : ReadSio(c)
       \/ Imm8 = 16 /\ \E c \in {0, typed + 1} : Status2Sio(c)
       \/ Imm8 = 17 /\ \E c \in {0, character, typed + 1} : Read2Sio(c)
       \/ Imm8 \notin {0, 1, 16, 17} /\ ReadDevice(PortBytes)
    /\ Fetch /\ Advance(2)
    /\ UNCHANGED <<flags, sp, memory>>

Out ==
    /\ OpCode = 211
    /\ Fetch /\ Advance(2)
    /\ UNCHANGED <<reg, flags, sp, memory>>

\* No case of the switch: HLT, and opcodes the 8080 does not have.
Unassigned == {8, 16, 24, 32, 40, 48, 56, 118, 203, 217, 221, 237, 253}

NoCase ==
    /\ OpCode \in Unassigned
    /\ Fetch
    /\ UNCHANGED <<reg, flags, sp, pc, memory>>

-----------------------------------------------------------------------------
Execute ==
    \/ Mov \/ Mvi \/ Lxi \/ Lda \/ Sta \/ Lhld \/ Shld \/ Ldax \/ Stax \/ Xchg
    \/ Add \/ Adi \/ Adc \/ Aci \/ Sub \/ Sui \/ Sbb \/ Sbi
    \/ Ana \/ Ani \/ Xra \/ Xri \/ Ora \/ Ori \/ Cmp \/ Cpi \/ Daa
    \/ Inr \/ Dcr \/ Inx \/ Dcx \/ Dad \/ Rlc \/ Rrc \/ Ral \/ Rar
    \/ Stc \/ Cmc \/ Ei \/ Di \/ Nop \/ Cma
    \/ Push \/ Pop \/ Xthl \/ Sphl
    \/ Jmp \/ Jccc \/ Call \/ Cccc \/ Ret \/ Rccc \/ Pchl \/ Rst
    \/ Out \/ NoCase

Jumps == OpCode \in {195, 233} \/ OpCodeIs(3, 8, 2)
Pushes == OpCodeIs(3, 16, 5)
Pops == OpCodeIs(3, 16, 1)
Calls == OpCode = 205 \/ OpCodeIs(3, 8, 4) \/ OpCodeIs(3, 8, 7)
Returns == OpCode = 201 \/ OpCodeIs(3, 8, 0)
HasByte == OpCodeIs(0, 8, 6) \/ OpCodeIs(3, 8, 6) \/ OpCode \in {211, 219}
HasWord == \/ OpCodeIs(0, 16, 1) \/ OpCode \in {34, 42, 50, 58, 195, 205}
           \/ OpCodeIs(3, 8, 2) \/ OpCodeIs(3, 8, 4)

\* The table of instruction sizes that the disassembler has.
InstructionLength ==
    CASE OpCode \in Unassigned \ {118} -> 0
      [] HasByte -> 2
      [] HasWord -> 3
      [] OTHER -> 1

\* The ghost stack holds what was pushed since the stack pointer was last set or
\* memory written otherwise; an instruction that changes the stack pointer by
\* two takes one word off or puts one on.  Where memory is full of words, a new
\* one overwrites the oldest.
Pushed(val) ==
    LET depth == IF Len(stack) < WORDS \div 2 THEN Len(stack) + 1 ELSE Len(stack)
    IN  [i \in 1..depth |-> IF i = 1 THEN val ELSE stack[i - 1]]

GhostStack ==
    stack' = CASE Pushes -> Pushed(IF RP = PAIR_SP THEN Psw ELSE PairRead(RP))
               [] Calls /\ sp' # sp -> Pushed((pc + InstructionLength) % WORDS)
               [] (Pops \/ Returns) /\ stack # <<>> /\ sp' # sp -> Tail(stack)
               [] OpCode = 227 /\ stack # <<>> -> [stack EXCEPT ![1] = HL]
               [] OTHER -> IF sp' # sp \/ memory' # memory THEN <<>> ELSE stack

AluOperand == IF OpCode < 192 THEN RegRead(Source) ELSE Imm8
AluGroup == IF OpCode < 192 THEN (OpCode \div 8) % 8 ELSE Destination
IsAlu == OpCode \div 64 = 2 \/ OpCodeIs(3, 8, 6)
CarryOf(f) == IF FLAGS_CARRY \in f THEN 1 ELSE 0
Adds == IsAlu /\ AluGroup \in {0, 1}
Subtracts == IsAlu /\ AluGroup \in {2, 3}
CarryIn == IF AluGroup \in {1, 3} THEN Carry ELSE 0

\* DAD, the rotations, DAA, STC, CMC and POP PSW are the others.
SetsCarry == IsAlu \/ OpCodeIs(0, 16, 9) \/ OpCode \in {7, 15, 23, 31, 39, 55, 63, 241}

\* The ghost long follows a sum or a difference through its bytes, the lowest
\* first: what it should be, the bytes A had, and what the next one counts for.
\* It begins with any addition or subtraction, goes on with those that take the
\* carry, and lasts until another instruction sets the carry.
Longer(op, n, borrow) ==
    LET before == IF AluGroup \in {1, 3} /\ long.op = op THEN long
                  ELSE [NoSum EXCEPT !.sum = borrow]
    IN  [op |-> op,
         sum |-> before.sum + before.weight * n,
         result |-> before.result + before.weight * reg'[REGISTER_A],
         weight |-> BYTES * before.weight]

GhostSums ==
    /\ summed' = IF Adds THEN <<A, AluOperand, CarryIn>> ELSE <<>>
    /\ long' = CASE Adds -> Longer("add", A + AluOperand, CarryIn)
                 [] Subtracts -> Longer("subtract", A - AluOperand, -CarryIn)
                 [] OTHER -> IF SetsCarry THEN NoSum ELSE long

\* i8080_cycle.
Cycle ==
    /\ cycles < boot.limit
    /\ \/ Execute /\ UNCHANGED terminalVars
       \/ In
    /\ GhostStack
    /\ GhostSums
    /\ cycles' = cycles + 1
    /\ UNCHANGED boot

Next == Cycle

Spec == Init /\ [][Next]_vars

-----------------------------------------------------------------------------
(***************************************************************************)
(* Properties.                                                             *)
(***************************************************************************)
\* The stack in memory holds what was pushed, the return address of a call being
\* that of the next instruction, also where it wraps around address 0.
StackKeepsWords ==
    \A i \in 1..Len(stack) : Read16(memory, sp + 2 * (i - 1)) = stack[i]

\* Every character the terminal has given is the one that is held, or the guest
\* has read it once, whichever ports it used and in whatever order.
CharactersArriveOnce ==
    \A n \in 1..typed :
        IF n = character
        THEN \A i \in DOMAIN received : received[i] # n
        ELSE \E i \in DOMAIN received :
                 /\ received[i] = n
                 /\ \A j \in DOMAIN received : received[j] = n => j = i

\* They come in the order of typing, unless the guest read one at port 1, which
\* passes by the character held for port 17.
CharactersInOrder ==
    ~overtaken => \A i \in DOMAIN received : received[i] = i

\* What is typed reaches the guest, once and in its order.
TerminalDelivers == CharactersArriveOnce /\ CharactersInOrder

\* Where a jump, call or return leads; a call may have overwritten its operand.
Target ==
    CASE Returns -> Read16(memory, sp)
      [] OpCode = 233 -> HL
      [] OpCodeIs(3, 8, 7) -> 8 * Destination
      [] OTHER -> Read16(memory', pc + 1)

\* An instruction goes on behind itself, by the length that the disassembler's
\* table gives it, or where it jumps to; HLT, one byte there, is not left.
NextInstruction ==
    [][\/ (Jumps \/ Calls \/ Returns) /\ pc' = Target
       \/ OpCode = 118 /\ pc' = pc
       \/ pc' = (pc + InstructionLength) % WORDS]_vars

\* The reference: the sums and differences of integers.
EvenOnes(val) == Cardinality(Bits(val)) % 2 = 0

FlagsTell(f, val) ==
    /\ (FLAGS_ZERO \in f) = (val = 0)
    /\ (FLAGS_SIGN \in f) = (val \div 128 = 1)
    /\ (FLAGS_PARITY \in f) = EvenOnes(val)

StepAgrees ==
    LET result == reg'[REGISTER_A]
        carry == CarryOf(flags')
    IN
    CASE AluGroup \in {0, 1} ->
            /\ result + BYTES * carry =
                  A + AluOperand + (IF AluGroup = 1 THEN Carry ELSE 0)
            /\ FlagsTell(flags', result)
      [] AluGroup \in {2, 3} ->
            /\ result - BYTES * carry =
                  A - AluOperand - (IF AluGroup = 3 THEN Carry ELSE 0)
            /\ FlagsTell(flags', result)
      [] AluGroup = 7 ->
            /\ result = A
            /\ (carry = 1) = (A < AluOperand)
            /\ (FLAGS_ZERO \in flags') = (A = AluOperand)
      [] OTHER -> carry = 0 /\ FlagsTell(flags', result)

\* Additions and subtractions are those of integers, the carry being the ninth
\* bit or the borrow; a comparison orders its operands; sign, zero and parity
\* are those of the result.
ArithmeticAgrees ==
    [][IsAlu => StepAgrees]_vars

\* However many bytes a guest adds or subtracts, and whatever it does between
\* two of them that should leave the carry alone: the bytes are those of the sum
\* or the difference, and the carry or borrow is what they do not hold.
CarryCarriesOver ==
    /\ long.result \in 0..long.weight - 1
    /\ long.op = "add" => long.sum = long.result + long.weight * Carry
    /\ long.op = "subtract" => long.sum = long.result - long.weight * Carry

IsDecimal(byte) == byte \div 16 <= 9 /\ byte % 16 <= 9
ValueOf(byte) == 10 * (byte \div 16) + (byte % 16)

DaaAdjusts ==
    LET binary == summed[1] + summed[2] + summed[3]
        sum == ValueOf(summed[1]) + ValueOf(summed[2]) + summed[3]
    IN  binary \notin 250..255 =>
            /\ IsDecimal(reg'[REGISTER_A]) /\ ValueOf(reg'[REGISTER_A]) = sum % 100
            /\ CarryOf(flags') = 1 <=> sum >= 100 /\ binary < 256

\* After an addition of two-digit decimal operands DAA makes the sum decimal and
\* carries the hundred, but for two ranges of the binary sum, where the addition
\* of DAA does not see a carry out of A: at 250 to 255 it is that of the 6 for the
\* units, and the 96 for the tens is missing; from 256 on it is that of the first
\* addition, and there is no hundred.
DecimalDigitsRight ==
    [][OpCode = 39 /\ summed # <<>> /\ IsDecimal(summed[1]) /\ IsDecimal(summed[2])
        => DaaAdjusts]_vars
=============================================================================
