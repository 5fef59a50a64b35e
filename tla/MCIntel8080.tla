---------------------------- MODULE MCIntel8080 ----------------------------
(***************************************************************************)
(* Guest programs for Intel8080: each opcode on its own with operands at   *)
(* the boundaries and behind an addition or subtraction, sums and          *)
(* differences of more bytes than one, decimal sums, every short sequence  *)
(* of stack instructions, around address 0, and of reads of the terminal.  *)
(***************************************************************************)
EXTENDS Intel8080, TLC

HLT == 118

\* Bytes from an address on, wrapping around.
At(address, bytes) ==
    [cell \in {(address + i) % WORDS : i \in 0..Len(bytes) - 1} |->
        bytes[((cell - address) % WORDS) + 1]]

Regs(a, bc, de, hl) ==
    (0 :> bc \div 256) @@ (1 :> bc % 256) @@ (2 :> de \div 256) @@ (3 :> de % 256)
        @@ (4 :> hl \div 256) @@ (5 :> hl % 256) @@ (7 :> a)

\* limit bounds the instructions executed.
Boot(limit, regs, f, stackAt, start, cells) ==
    [limit |-> limit, reg |-> regs, flags |-> f, sp |-> stackAt, pc |-> start,
     memory |-> cells]

\* One instruction, at the end of the address space.
Edges == {0, 1, 15, 127, 128, 255}
OneInstruction ==
    {Boot(1, Regs(a, 256 * b + 16, 65535, 256), f, 1, 65534,
          At(65534, <<op, b, 2>>) @@ At(256, <<b, 9>>)) :
        op \in Byte, a \in Edges, b \in Edges, f \in {{1}, {0, 1, 2, 4, 6, 7}}}

\* ADD B or SUB B, with and without a carry, and one instruction after it.
AfterTheFirst ==
    {Boot(2, Regs(a, 51456, 65535, 65535), {1}, 1, 512, At(512, <<first, op, 1, 2>>)) :
        first \in {128, 144}, op \in Byte, a \in {1, 255}}

\* A loop over C bytes at DE and HL, which the operation leaves at HL.
\*   LDAX D; <op> M; MOV M,A; INX H; INX D; DCR C; JNZ 512; HLT
Loop(op) == At(512, <<26, op, 119, 35, 19, 13, 194, 0, 2, HLT>>)
Numbers == {0, 1, 255, 256, 32767, 32768, 65280, 65535}
TwoBytes(x) == <<x % 256, x \div 256>>
LongArithmetic ==
    {Boot(15, Regs(0, 2, 768, 65535), {1}, 0, 512,
          Loop(op) @@ At(768, TwoBytes(x)) @@ At(65535, TwoBytes(y))) :
        op \in {142, 158}, x \in Numbers, y \in Numbers}

\* ADC B; DAA; HLT, and both operands are decimal.
Decimal(n) == 16 * (n \div 10) + (n % 10)
DecimalSums ==
    {Boot(2, Regs(Decimal(x), 256 * Decimal(y), 0, 0), f, 0, 512,
          At(512, <<136, 39, HLT>>)) :
        x \in 0..99, y \in {0, 1, 9, 10, 45, 50, 89, 90, 99}, f \in {{1}, {0, 1}}}

\* PUSH B, POP D, PUSH PSW, POP H, XTHL, RST 1, RET
StackCodes == {197, 209, 245, 225, 227, 207, 201}
StackPrograms ==
    {Boot(9, Regs(129, 258, 8, 520), {1, 4}, 1, 512,
          At(512, <<i, j, k, l, HLT>>) @@ At(8, <<m, HLT>>)) :
        i \in StackCodes, j \in StackCodes, k \in StackCodes, l \in StackCodes,
        m \in {201, 213, 209}}

\* IN 1, IN 16 and IN 17, in any order.
TerminalPorts == {1, 16, 17}
TerminalPrograms ==
    {Boot(5, Regs(0, 0, 0, 0), {1}, 1, 512,
          At(512, <<219, i, 219, j, 219, k, 219, l, 219, m, HLT>>)) :
        i \in TerminalPorts, j \in TerminalPorts, k \in TerminalPorts,
        l \in TerminalPorts, m \in TerminalPorts}

MCBoots ==
    OneInstruction \cup AfterTheFirst \cup LongArithmetic \cup DecimalSums
        \cup StackPrograms \cup TerminalPrograms
MCPortBytes == {0, 255}

=============================================================================
