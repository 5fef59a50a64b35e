------------------------ MODULE SdCardServiceProofs ------------------------
(***************************************************************************)
(* Results about the SD card service and the rings it is reached by,       *)
(* for every size of ring and message, every number of drives, sectors,    *)
(* requests and restarts, and whatever the card does:                      *)
(*                                                                         *)
(*   - a ring is a queue: what Socket_Write and Socket_Read do to its      *)
(*     bytes and indices is what Append and Tail do to the sequence of     *)
(*     messages it holds;                                                  *)
(*   - the rings therefore never lose or mix up a byte;                    *)
(*   - an answer is to the request it is taken for;                        *)
(*   - a request is not forgotten between its signal and its answer;       *)
(*   - a verification that passes has seen the image on the card.          *)
(***************************************************************************)
EXTENDS SdCardService, TLAPS

(***************************************************************************)
(* THE RING.                                                               *)
(***************************************************************************)
(***************************************************************************)
(* Multiples of the alignment.                                             *)
(***************************************************************************)
LEMMA Multiple ==
    ASSUME NEW a \in Nat \ {0}, NEW x \in Nat
    PROVE  /\ x \div a \in Nat
           /\ (x % a) \in 0 .. a - 1
           /\ x = (a * (x \div a)) + (x % a)
  OBVIOUS

LEMMA MultipleMod ==
    ASSUME NEW a \in Nat \ {0}, NEW q \in Nat
    PROVE  (a * q) % a = 0
  OBVIOUS

LEMMA Times ==
    ASSUME NEW a \in Nat, NEW p \in Nat, NEW q \in Nat, p < q
    PROVE  /\ a * p \in Nat
           /\ a * q \in Nat
           /\ a * p + a <= a * q
  OBVIOUS

\* Two multiples of a that are less than a apart are the same.
LEMMA SameMultiple ==
    ASSUME NEW a \in Nat \ {0}, NEW x \in Nat, NEW y \in Nat,
           x % a = 0, y % a = 0, x < y + a, y < x + a
    PROVE  x = y
  <1> DEFINE p == x \div a
             q == y \div a
  <1>1. p \in Nat /\ x = a * p
    BY Multiple
  <1>2. q \in Nat /\ y = a * q
    BY Multiple
  <1> HIDE DEF p, q
  <1>3. CASE p < q
    BY <1>1, <1>2, <1>3, Times
  <1>4. CASE q < p
    BY <1>1, <1>2, <1>4, Times
  <1>5. CASE p = q
    BY <1>1, <1>2, <1>5
  <1> QED
    BY <1>1, <1>2, <1>3, <1>4, <1>5

LEMMA MultipleSum ==
    ASSUME NEW a \in Nat \ {0}, NEW x \in Nat, NEW y \in Nat, x % a = 0, y % a = 0
    PROVE  (x + y) % a = 0
  <1> DEFINE p == x \div a
             q == y \div a
  <1>1. p \in Nat /\ x = a * p
    BY Multiple
  <1>2. q \in Nat /\ y = a * q
    BY Multiple
  <1> HIDE DEF p, q
  <1>3. x + y = a * (p + q)
    BY <1>1, <1>2
  <1>4. p + q \in Nat
    BY <1>1, <1>2
  <1> QED
    BY <1>3, <1>4, MultipleMod

LEMMA MultipleDifference ==
    ASSUME NEW a \in Nat \ {0}, NEW x \in Nat, NEW y \in Nat, x % a = 0, y % a = 0, y <= x
    PROVE  (x - y) % a = 0
  <1> DEFINE p == x \div a
             q == y \div a
  <1>1. p \in Nat /\ x = a * p
    BY Multiple
  <1>2. q \in Nat /\ y = a * q
    BY Multiple
  <1> HIDE DEF p, q
  <1>3. q <= p
    <2>1. CASE p < q
      BY <1>1, <1>2, <2>1, Times
    <2> QED
      BY <1>1, <1>2, <2>1
  <1>4. x - y = a * (p - q)
    BY <1>1, <1>2
  <1>5. p - q \in Nat
    BY <1>1, <1>2, <1>3
  <1> QED
    BY <1>4, <1>5, MultipleMod

LEMMA Sizes ==
    /\ RB_ALIGNMENT \in Nat \ {0} /\ SIZE_FIELD \in Nat \ {0} /\ MSG_HEADER \in Nat \ {0}
    /\ PAYLOAD \in Nat \ {0} /\ CAPACITY \in Nat \ {0}
    /\ CAPACITY % RB_ALIGNMENT = 0
  BY SocketAssumption

\* The same of sums and differences of aligned indices.
LEMMA AlignedSum ==
    ASSUME NEW x \in Nat, NEW y \in Nat, x % RB_ALIGNMENT = 0, y % RB_ALIGNMENT = 0
    PROVE  (x + y) % RB_ALIGNMENT = 0
  <1>1. RB_ALIGNMENT \in Nat \ {0}
    BY Sizes
  <1> QED
    BY <1>1, MultipleSum

LEMMA AlignedDifference ==
    ASSUME NEW x \in Nat, NEW y \in Nat, x % RB_ALIGNMENT = 0, y % RB_ALIGNMENT = 0, y <= x
    PROVE  (x - y) % RB_ALIGNMENT = 0
  <1>1. RB_ALIGNMENT \in Nat \ {0}
    BY Sizes
  <1> QED
    BY <1>1, MultipleDifference

LEMMA RoundUpFacts ==
    ASSUME NEW x \in Nat
    PROVE  /\ RoundUp(x) \in Nat
           /\ x <= RoundUp(x) /\ RoundUp(x) < x + RB_ALIGNMENT
           /\ RoundUp(x) % RB_ALIGNMENT = 0
  <1> DEFINE y == x + RB_ALIGNMENT - 1
             q == y \div RB_ALIGNMENT
  <1>1. y \in Nat
    BY Sizes
  <1>2. /\ q \in Nat
        /\ (y % RB_ALIGNMENT) \in 0 .. RB_ALIGNMENT - 1
        /\ y = (RB_ALIGNMENT * q) + (y % RB_ALIGNMENT)
    BY <1>1, Sizes, Multiple
  <1>3. RoundUp(x) = RB_ALIGNMENT * q
    BY <1>1, <1>2, Sizes DEF RoundUp
  <1>5. y = x + RB_ALIGNMENT - 1
    OBVIOUS
  <1> HIDE DEF y, q
  <1>4. (RB_ALIGNMENT * q) % RB_ALIGNMENT = 0 /\ RB_ALIGNMENT * q \in Nat
    <2>1. RB_ALIGNMENT \in Nat \ {0} /\ q \in Nat
      BY <1>2, Sizes
    <2>2. (RB_ALIGNMENT * q) % RB_ALIGNMENT = 0
      BY <2>1, MultipleMod
    <2> QED
      BY <2>1, <2>2
  <1>6. RB_ALIGNMENT * q \in x .. x + RB_ALIGNMENT - 1
    BY <1>1, <1>2, <1>4, <1>5, Sizes
  <1> QED
    BY <1>3, <1>4, <1>6, Sizes

\* RoundUp is the only multiple that near.
LEMMA RoundUpUnique ==
    ASSUME NEW x \in Nat, NEW y \in Nat, y % RB_ALIGNMENT = 0, x <= y, y < x + RB_ALIGNMENT
    PROVE  RoundUp(x) = y
  <1>1. RoundUp(x) < y + RB_ALIGNMENT /\ y < RoundUp(x) + RB_ALIGNMENT
    BY RoundUpFacts, Sizes
  <1> QED
    BY <1>1, RoundUpFacts, Sizes, SameMultiple

LEMMA Slot ==
    /\ BLOCK \in Nat \ {0} /\ SLOT \in Nat \ {0}
    /\ BLOCK <= SLOT /\ SLOT < BLOCK + RB_ALIGNMENT
    /\ SLOT % RB_ALIGNMENT = 0
  <1>1. BLOCK \in Nat \ {0}
    BY Sizes DEF BLOCK
  <1> QED
    BY <1>1, RoundUpFacts, Sizes DEF SLOT

-----------------------------------------------------------------------------
(***************************************************************************)
(* Places in the ring.                                                     *)
(***************************************************************************)
LEMMA CellInRing ==
    ASSUME NEW p \in 0 .. CAPACITY, NEW k \in 0 .. CAPACITY - 1
    PROVE  CellOf(p, k) \in Cells
  BY Sizes DEF CellOf, Cells

LEMMA CellInjective ==
    ASSUME NEW p \in 0 .. CAPACITY, NEW j \in 0 .. CAPACITY - 1, NEW k \in 0 .. CAPACITY - 1,
           CellOf(p, j) = CellOf(p, k)
    PROVE  j = k
  BY Sizes DEF CellOf

\* A transfer that goes on where another ended.
LEMMA CellAfter ==
    ASSUME NEW p \in 0 .. CAPACITY, NEW s \in 0 .. CAPACITY, NEW k \in 0 .. CAPACITY - 1,
           s + k < CAPACITY
    PROVE  /\ FinalPos(p, s) \in 0 .. CAPACITY
           /\ CellOf(FinalPos(p, s), k) = CellOf(p, s + k)
           /\ p < CAPACITY => CellOf(CellOf(p, s), k) = CellOf(p, s + k)
  BY Sizes DEF CellOf, FinalPos

LEMMA FinalPosSum ==
    ASSUME NEW p \in 0 .. CAPACITY, NEW s \in 0 .. CAPACITY, NEW t \in 1 .. CAPACITY,
           s + t <= CAPACITY
    PROVE  /\ FinalPos(p, s) \in 0 .. CAPACITY
           /\ FinalPos(FinalPos(p, s), t) = FinalPos(p, s + t)
  BY Sizes DEF FinalPos

\* A message that begins at an aligned index ends where the next one begins.
LEMMA NextIndex ==
    ASSUME NEW p \in Cells, p % RB_ALIGNMENT = 0, SLOT <= CAPACITY
    PROVE  /\ NextBlock(FinalPos(p, BLOCK)) = CellOf(p, SLOT)
           /\ CellOf(p, SLOT) \in Cells
           /\ CellOf(p, SLOT) % RB_ALIGNMENT = 0
  <1> DEFINE e == FinalPos(p, BLOCK)
  <1>1. p \in Nat /\ p < CAPACITY
    BY Sizes DEF Cells
  <1>2. (p + SLOT) % RB_ALIGNMENT = 0 /\ p + SLOT \in Nat
    <2>1. p \in Nat /\ SLOT \in Nat /\ SLOT % RB_ALIGNMENT = 0
      BY <1>1, Slot
    <2>2. (p + SLOT) % RB_ALIGNMENT = 0
      BY <2>1, AlignedSum
    <2> QED
      BY <2>1, <2>2
  <1>0. ASSUME CAPACITY <= p + SLOT
        PROVE  (p + SLOT - CAPACITY) % RB_ALIGNMENT = 0
    <2> DEFINE z == p + SLOT
    <2>1. z \in Nat /\ z % RB_ALIGNMENT = 0
      BY <1>2
    <2>2. CAPACITY \in Nat /\ CAPACITY % RB_ALIGNMENT = 0 /\ CAPACITY <= z
      BY <1>0, Sizes
    <2>3. z - CAPACITY = p + SLOT - CAPACITY
      BY <1>1, Slot, Sizes
    <2> HIDE DEF z
    <2>4. (z - CAPACITY) % RB_ALIGNMENT = 0
      BY <2>1, <2>2, AlignedDifference
    <2> QED
      BY <2>3, <2>4
  <1>3. CASE p + BLOCK > CAPACITY
    <2>1. e = p + BLOCK - CAPACITY /\ e \in Nat
      BY <1>1, <1>3, Slot, Sizes DEF FinalPos
    <2>2. p + SLOT - CAPACITY \in Nat /\ p + SLOT - CAPACITY < CAPACITY
      BY <1>1, <1>3, Slot, Sizes
    <2>3. (p + SLOT - CAPACITY) % RB_ALIGNMENT = 0
      BY <1>0, <1>1, <1>3, Slot, Sizes
    <2>4. RoundUp(e) = p + SLOT - CAPACITY
      <3>1. e <= p + SLOT - CAPACITY /\ p + SLOT - CAPACITY < e + RB_ALIGNMENT
        BY <1>1, <2>1, Slot, Sizes
      <3> HIDE DEF e
      <3> QED
        BY <2>1, <2>2, <2>3, <3>1, RoundUpUnique
    <2>5. CellOf(p, SLOT) = p + SLOT - CAPACITY
      BY <1>1, <2>2, Slot, Sizes DEF CellOf
    <2>6. NextBlock(e) = p + SLOT - CAPACITY
      BY <2>2, <2>4, Sizes DEF NextBlock
    <2> QED
      BY <2>2, <2>3, <2>5, <2>6, Sizes DEF Cells
  <1>4. CASE p + BLOCK <= CAPACITY
    <2>1. e = p + BLOCK /\ e \in Nat
      BY <1>1, <1>4, Slot, Sizes DEF FinalPos
    <2>2. RoundUp(e) = p + SLOT
      <3>1. e <= p + SLOT /\ p + SLOT < e + RB_ALIGNMENT
        BY <1>1, <2>1, Slot, Sizes
      <3> HIDE DEF e
      <3> QED
        BY <1>2, <2>1, <3>1, RoundUpUnique
    <2>3. CASE p + SLOT < CAPACITY
      <3>1. CellOf(p, SLOT) = p + SLOT
        BY <1>1, <2>3, Slot, Sizes DEF CellOf
      <3>2. NextBlock(e) = p + SLOT
        BY <1>1, <2>2, <2>3, Slot, Sizes DEF NextBlock
      <3> QED
        BY <1>1, <1>2, <2>3, <3>1, <3>2, Slot, Sizes DEF Cells
    <2>4. CASE CAPACITY <= p + SLOT
      <3>1. p + SLOT - CAPACITY \in Nat /\ p + SLOT - CAPACITY < CAPACITY
        BY <1>1, <2>4, Slot, Sizes
      <3>2. CellOf(p, SLOT) = p + SLOT - CAPACITY
        BY <1>1, <2>4, Slot, Sizes DEF CellOf
      <3>3. NextBlock(e) = p + SLOT - CAPACITY
        BY <1>1, <2>2, <2>4, Slot, Sizes DEF NextBlock
      <3>4. (p + SLOT - CAPACITY) % RB_ALIGNMENT = 0
        BY <1>0, <2>4
      <3> QED
        BY <3>1, <3>2, <3>3, <3>4, Sizes DEF Cells
    <2> QED
      BY <1>1, <2>3, <2>4, Slot, Sizes
  <1> QED
    BY <1>1, <1>3, <1>4, Slot, Sizes

-----------------------------------------------------------------------------
(***************************************************************************)
(* Socket_Write.                                                           *)
(***************************************************************************)
LEMMA Written ==
    ASSUME NEW data, NEW p \in 0 .. CAPACITY, NEW s \in 0 .. CAPACITY,
           NEW bytes, DOMAIN bytes = 0 .. s - 1
    PROVE  /\ \A k \in 0 .. s - 1 : WriteRB(data, p, bytes)[CellOf(p, k)] = bytes[k]
           /\ \A c \in Cells : (\A k \in 0 .. s - 1 : CellOf(p, k) # c)
                                  => WriteRB(data, p, bytes)[c] = data[c]
  <1>1. ASSUME NEW k \in 0 .. s - 1
        PROVE  WriteRB(data, p, bytes)[CellOf(p, k)] = bytes[k]
    <2> DEFINE c == CellOf(p, k)
               j == CHOOSE i \in DOMAIN bytes : CellOf(p, i) = c
    <2>1. k \in 0 .. CAPACITY - 1 /\ c \in Cells
      <3>1. k \in 0 .. CAPACITY - 1
        BY Sizes
      <3> QED
        BY <3>1, CellInRing
    <2>2. \E i \in DOMAIN bytes : CellOf(p, i) = c
      OBVIOUS
    <2>3. j \in DOMAIN bytes /\ CellOf(p, j) = c
      BY <2>2
    <2>4. j = k
      <3>1. j \in 0 .. CAPACITY - 1
        BY <2>3, Sizes
      <3> HIDE DEF j
      <3> QED
        BY <2>1, <2>3, <3>1, CellInjective
    <2>5. WriteRB(data, p, bytes)[c] = bytes[j]
      BY <2>1, <2>2 DEF WriteRB
    <2> QED
      BY <2>4, <2>5
  <1>2. ASSUME NEW c \in Cells, \A k \in 0 .. s - 1 : CellOf(p, k) # c
        PROVE  WriteRB(data, p, bytes)[c] = data[c]
    BY <1>2 DEF WriteRB
  <1> QED
    BY <1>1, <1>2

\* The first s bytes of m are in data from p on.
Has(data, p, s, m) == \A k \in 0 .. s - 1 : data[CellOf(p, k)] = <<m, k>>

\* The two agree but for the s bytes from p on.
AgreeElsewhere(new, data, p, s) ==
    \A c \in Cells : (\A k \in 0 .. s - 1 : CellOf(p, k) # c) => new[c] = data[c]

\* The message m has been written at p up to byte s: another t bytes of it.
LEMMA WrittenOn ==
    ASSUME NEW data, NEW m, NEW p \in Cells, NEW s \in 0 .. CAPACITY, NEW t \in 1 .. CAPACITY,
           s + t <= CAPACITY, Has(data, p, s, m)
    PROVE  /\ Has(WriteRB(data, FinalPos(p, s), BytesOf(m, s, t)), p, s + t, m)
           /\ AgreeElsewhere(WriteRB(data, FinalPos(p, s), BytesOf(m, s, t)), data, p, s + t)
  <1> DEFINE f == FinalPos(p, s)
             bytes == BytesOf(m, s, t)
             new == WriteRB(data, f, bytes)
  <1>1. p \in 0 .. CAPACITY /\ p < CAPACITY
    BY Sizes DEF Cells
  <1>2. f \in 0 .. CAPACITY
    BY <1>1, Sizes DEF FinalPos
  <1>3. ASSUME NEW k \in 0 .. t - 1
        PROVE  CellOf(f, k) = CellOf(p, s + k)
    BY <1>1, Sizes DEF CellOf, FinalPos
  <1>4. DOMAIN bytes = 0 .. t - 1 /\ \A k \in 0 .. t - 1 : bytes[k] = <<m, s + k>>
    BY DEF BytesOf
  <1> HIDE DEF f, bytes
  <1>5. /\ \A k \in 0 .. t - 1 : new[CellOf(f, k)] = bytes[k]
        /\ \A c \in Cells : (\A k \in 0 .. t - 1 : CellOf(f, k) # c) => new[c] = data[c]
    <2>1. t \in 0 .. CAPACITY
      BY Sizes
    <2> QED
      BY <1>2, <1>4, <2>1, Written
  <1> HIDE DEF new
  <1>6. ASSUME NEW k \in 0 .. s + t - 1
        PROVE  new[CellOf(p, k)] = <<m, k>>
    <2>1. CASE k < s
      <3>1. k \in 0 .. CAPACITY - 1
        BY <2>1, Sizes
      <3>2. CellOf(p, k) \in Cells
        BY <1>1, <3>1, CellInRing
      <3>3. ASSUME NEW j \in 0 .. t - 1
            PROVE  CellOf(f, j) # CellOf(p, k)
        <4>1. CellOf(f, j) = CellOf(p, s + j)
          BY <1>3
        <4>2. s + j \in 0 .. CAPACITY - 1 /\ s + j # k
          BY <2>1, Sizes
        <4>3. CellOf(p, s + j) # CellOf(p, k)
          BY <1>1, <3>1, <4>2, CellInjective
        <4> QED
          BY <4>1, <4>3
      <3>4. new[CellOf(p, k)] = data[CellOf(p, k)]
        BY <1>5, <3>2, <3>3
      <3> QED
        BY <2>1, <3>4 DEF Has
    <2>2. CASE s <= k
      <3>1. k - s \in 0 .. t - 1 /\ s + (k - s) = k
        BY <2>2, Sizes
      <3>2. CellOf(f, k - s) = CellOf(p, s + (k - s))
        BY <1>3, <3>1
      <3>3. new[CellOf(f, k - s)] = <<m, s + (k - s)>>
        BY <1>4, <1>5, <3>1
      <3> QED
        BY <3>1, <3>2, <3>3
    <2> QED
      BY <2>1, <2>2
  <1>7. ASSUME NEW c \in Cells, \A k \in 0 .. s + t - 1 : CellOf(p, k) # c
        PROVE  new[c] = data[c]
    <2>1. ASSUME NEW j \in 0 .. t - 1
          PROVE  CellOf(f, j) # c
      <3>1. s + j \in 0 .. s + t - 1
        BY Sizes
      <3> QED
        BY <1>3, <1>7, <3>1
    <2> QED
      BY <1>5, <2>1
  <1> QED
    BY <1>6, <1>7 DEF new, f, bytes, Has, AgreeElsewhere

\* The three transfers of Socket_Write leave m at the write index.
LEMMA MessageWritten ==
    ASSUME NEW rb, NEW m, rb.writeIndex \in Cells, BLOCK <= CAPACITY
    PROVE  LET p == rb.writeIndex
               new == SocketWrite(rb, m).data
           IN /\ Has(new, p, BLOCK, m)
              /\ AgreeElsewhere(new, rb.data, p, BLOCK)
              /\ SocketWrite(rb, m).writeIndex = NextBlock(FinalPos(p, BLOCK))
              /\ SocketWrite(rb, m).readIndex = rb.readIndex
  <1> DEFINE p == rb.writeIndex
             header == FinalPos(p, SIZE_FIELD)
             payload == FinalPos(header, MSG_HEADER)
             end == FinalPos(payload, PAYLOAD)
             d1 == WriteRB(rb.data, p, BytesOf(m, 0, SIZE_FIELD))
             d2 == WriteRB(d1, header, BytesOf(m, SIZE_FIELD, MSG_HEADER))
             d3 == WriteRB(d2, payload, BytesOf(m, SIZE_FIELD + MSG_HEADER, PAYLOAD))
             two == SIZE_FIELD + MSG_HEADER
  <1>1. /\ p \in Cells /\ p \in 0 .. CAPACITY
        /\ SIZE_FIELD \in 1 .. CAPACITY /\ MSG_HEADER \in 1 .. CAPACITY
        /\ PAYLOAD \in 1 .. CAPACITY /\ two \in 1 .. CAPACITY
        /\ 0 \in 0 .. CAPACITY /\ SIZE_FIELD \in 0 .. CAPACITY /\ two \in 0 .. CAPACITY
        /\ 0 + SIZE_FIELD <= CAPACITY
        /\ two <= CAPACITY /\ two + PAYLOAD <= CAPACITY /\ two + PAYLOAD = BLOCK
    BY Sizes DEF BLOCK, Cells
  <1>2. SocketWrite(rb, m) = [data |-> d3, writeIndex |-> NextBlock(end),
                              readIndex |-> rb.readIndex]
    BY DEF SocketWrite
  <1>3. FinalPos(p, 0) = p
    BY <1>1, Sizes DEF FinalPos
  <1>4. payload = FinalPos(p, two)
    BY <1>1, FinalPosSum
  <1>5. end = FinalPos(p, BLOCK)
    <2>1. FinalPos(FinalPos(p, two), PAYLOAD) = FinalPos(p, two + PAYLOAD)
      BY <1>1, FinalPosSum
    <2> QED
      BY <1>1, <1>4, <2>1
  <1> HIDE DEF two
  <1>6. Has(d1, p, SIZE_FIELD, m) /\ AgreeElsewhere(d1, rb.data, p, SIZE_FIELD)
    <2> DEFINE d0 == rb.data
               e1 == WriteRB(d0, FinalPos(p, 0), BytesOf(m, 0, SIZE_FIELD))
    <2>1. Has(d0, p, 0, m)
      BY DEF Has
    <2>2. e1 = d1 /\ 0 + SIZE_FIELD = SIZE_FIELD
      BY <1>3, Sizes
    <2> HIDE DEF p, d0, d1
    <2>3. Has(e1, p, 0 + SIZE_FIELD, m) /\ AgreeElsewhere(e1, d0, p, 0 + SIZE_FIELD)
      BY <1>1, <2>1, WrittenOn, Zenon
    <2> QED
      BY <2>2, <2>3 DEF d0
  <1>7. Has(d2, p, two, m) /\ AgreeElsewhere(d2, d1, p, two)
    <2>1. SIZE_FIELD + MSG_HEADER <= CAPACITY /\ SIZE_FIELD + MSG_HEADER = two
      BY <1>1 DEF two
    <2> HIDE DEF p, d1
    <2>2. /\ Has(d2, p, SIZE_FIELD + MSG_HEADER, m)
          /\ AgreeElsewhere(d2, d1, p, SIZE_FIELD + MSG_HEADER)
      BY <1>1, <1>6, <2>1, WrittenOn, Zenon
    <2> QED
      BY <2>1, <2>2
  <1>8. d3 = WriteRB(d2, FinalPos(p, two), BytesOf(m, two, PAYLOAD))
    BY <1>4 DEF two
  <1>9. Has(d3, p, two + PAYLOAD, m) /\ AgreeElsewhere(d3, d2, p, two + PAYLOAD)
    <2> DEFINE e3 == WriteRB(d2, FinalPos(p, two), BytesOf(m, two, PAYLOAD))
    <2> HIDE DEF p, d2
    <2>1. Has(e3, p, two + PAYLOAD, m) /\ AgreeElsewhere(e3, d2, p, two + PAYLOAD)
      BY <1>1, <1>7, WrittenOn, Zenon
    <2> QED
      BY <1>8, <2>1
  <1> HIDE DEF d1, d2, d3
  <1>10. ASSUME NEW c \in Cells, \A k \in 0 .. BLOCK - 1 : CellOf(p, k) # c
         PROVE  d3[c] = rb.data[c]
    <2>1. SIZE_FIELD <= BLOCK /\ two <= BLOCK
      BY <1>1, Sizes DEF two
    <2>2. \A k \in 0 .. two - 1 : CellOf(p, k) # c
      BY <1>1, <1>10, <2>1, Slot
    <2>3. \A k \in 0 .. SIZE_FIELD - 1 : CellOf(p, k) # c
      BY <1>1, <1>10, <2>1, Slot
    <2>4. d3[c] = d2[c]
      BY <1>1, <1>9, <1>10 DEF AgreeElsewhere
    <2>5. d2[c] = d1[c]
      BY <1>7, <2>2 DEF AgreeElsewhere
    <2>6. d1[c] = rb.data[c]
      BY <1>6, <2>3 DEF AgreeElsewhere
    <2> QED
      BY <2>4, <2>5, <2>6
  <1>11. /\ SocketWrite(rb, m).data = d3
         /\ SocketWrite(rb, m).writeIndex = NextBlock(FinalPos(p, BLOCK))
         /\ SocketWrite(rb, m).readIndex = rb.readIndex
    BY <1>2, <1>5
  <1>12. Has(d3, p, BLOCK, m)
    BY <1>1, <1>9
  <1>13. AgreeElsewhere(d3, rb.data, p, BLOCK)
    BY <1>10 DEF AgreeElsewhere
  <1> QED
    BY <1>11, <1>12, <1>13

-----------------------------------------------------------------------------
(***************************************************************************)
(* The queue.                                                              *)
(***************************************************************************)
LEMMA Offset ==
    ASSUME NEW n \in Nat, NEW i \in 1 .. n, NEW k \in 0 .. BLOCK - 1
    PROVE  (i - 1) * SLOT + k \in 0 .. n * SLOT - 1
  <1>1. i - 1 \in Nat /\ i - 1 < n /\ SLOT \in Nat /\ BLOCK \in Nat /\ BLOCK <= SLOT
    BY Slot
  <1>2. /\ SLOT * (i - 1) \in Nat /\ SLOT * n \in Nat
        /\ SLOT * (i - 1) + SLOT <= SLOT * n
    BY <1>1, Times
  <1>3. SLOT * (i - 1) = (i - 1) * SLOT /\ SLOT * n = n * SLOT
    BY <1>1
  <1> QED
    BY <1>1, <1>2, <1>3

\* Where the indices of a ring are when there are d bytes to read.
LEMMA Indices ==
    ASSUME NEW rb, NEW queue, RingHolds(rb, queue)
    PROVE  /\ rb.readIndex \in Cells /\ rb.readIndex % RB_ALIGNMENT = 0
           /\ rb.writeIndex \in Cells /\ rb.writeIndex % RB_ALIGNMENT = 0
           /\ AvailData(rb) \in 0 .. CAPACITY - 1
           /\ rb.writeIndex = CellOf(rb.readIndex, AvailData(rb))
           /\ AvailSpace(rb) = CAPACITY - AvailData(rb)
  <1>1. /\ rb.readIndex \in Cells /\ rb.readIndex % RB_ALIGNMENT = 0
        /\ rb.writeIndex \in Cells /\ rb.writeIndex % RB_ALIGNMENT = 0
    BY Sizes DEF RingHolds, IndexOK, Cells
  <1> QED
    BY <1>1, Sizes DEF AvailData, AvailSpace, CellOf, Cells

LEMMA EmptyQueue ==
    RingHolds(EmptyRing, << >>)
  <1>1. EmptyRing.readIndex = 0 /\ EmptyRing.writeIndex = 0
    BY DEF EmptyRing
  <1>2. 0 % RB_ALIGNMENT = 0
    BY Sizes
  <1>3. AvailData(EmptyRing) = 0
    BY <1>1 DEF AvailData
  <1>4. Len(<< >>) * SLOT = 0
    BY Slot
  <1>5. \A i \in 1 .. Len(<< >>), k \in 0 .. BLOCK - 1 :
            EmptyRing.data[CellOf(EmptyRing.readIndex, (i - 1) * SLOT + k)] = <<(<< >>)[i], k>>
    OBVIOUS
  <1> QED
    BY <1>1, <1>2, <1>3, <1>4, <1>5, Sizes DEF RingHolds, IndexOK

(***************************************************************************)
(* Socket_Write adds its message at the end of the queue.                  *)
(***************************************************************************)
THEOREM WriteAppends ==
    ASSUME NEW Msg, NEW queue \in Seq(Msg), NEW m \in Msg, NEW rb,
           RingHolds(rb, queue), CanWrite(rb)
    PROVE  RingHolds(SocketWrite(rb, m), Append(queue, m))
  <1> DEFINE r == rb.readIndex
             w == rb.writeIndex
             n == Len(queue)
             d == AvailData(rb)
             new == SocketWrite(rb, m)
             longer == Append(queue, m)
  <1>1. /\ r \in Cells /\ r % RB_ALIGNMENT = 0 /\ w \in Cells /\ w % RB_ALIGNMENT = 0
        /\ d \in 0 .. CAPACITY - 1 /\ w = CellOf(r, d) /\ AvailSpace(rb) = CAPACITY - d
    BY Indices
  <1>2. n \in Nat /\ d = n * SLOT
    BY DEF RingHolds
  <1>3. d + SLOT < CAPACITY /\ BLOCK <= CAPACITY /\ SLOT <= CAPACITY
    BY <1>1, Slot, Sizes DEF CanWrite
  <1>4. /\ Has(new.data, w, BLOCK, m) /\ AgreeElsewhere(new.data, rb.data, w, BLOCK)
        /\ new.writeIndex = NextBlock(FinalPos(w, BLOCK))
        /\ new.readIndex = r
    BY <1>1, <1>3, MessageWritten
  <1>5. new.writeIndex = CellOf(w, SLOT) /\ new.writeIndex \in Cells
        /\ new.writeIndex % RB_ALIGNMENT = 0
    BY <1>1, <1>3, <1>4, NextIndex
  <1> HIDE DEF d, new
  <1>6. AvailData(new) = d + SLOT
    <2> DEFINE v == new.writeIndex
    <2>1. /\ r \in Nat /\ r < CAPACITY /\ w \in Nat /\ w < CAPACITY /\ d \in Nat
          /\ CAPACITY \in Nat /\ SLOT \in Nat
      BY <1>1, Slot, Sizes DEF Cells
    <2>2. w = IF d < CAPACITY - r THEN r + d ELSE d - (CAPACITY - r)
      BY <1>1 DEF CellOf
    <2>3. v = IF SLOT < CAPACITY - w THEN w + SLOT ELSE SLOT - (CAPACITY - w)
      BY <1>5 DEF CellOf
    <2>4. AvailData(new) = IF v >= r THEN v - r ELSE v - r + CAPACITY
      BY <1>4 DEF AvailData
    <2> HIDE DEF r, w, v
    <2> QED
      BY <1>3, <2>1, <2>2, <2>3, <2>4
  <1>7. /\ Len(longer) = n + 1 /\ longer[n + 1] = m
        /\ \A i \in 1 .. n : longer[i] = queue[i]
    OBVIOUS
  <1>8. (n + 1) * SLOT = d + SLOT
    BY <1>2, Slot
  <1>9. ASSUME NEW k \in 0 .. BLOCK - 1
        PROVE  /\ d + k \in 0 .. CAPACITY - 1
               /\ CellOf(r, d + k) = CellOf(w, k)
    <2>1. /\ r \in Nat /\ r < CAPACITY /\ w \in Nat /\ w < CAPACITY /\ d \in Nat
          /\ CAPACITY \in Nat /\ k \in Nat /\ k < SLOT /\ SLOT \in Nat
      BY <1>1, Slot, Sizes DEF Cells
    <2>2. w = IF d < CAPACITY - r THEN r + d ELSE d - (CAPACITY - r)
      BY <1>1 DEF CellOf
    <2>3. CellOf(r, d + k) =
              IF d + k < CAPACITY - r THEN r + (d + k) ELSE (d + k) - (CAPACITY - r)
      BY DEF CellOf
    <2>4. CellOf(w, k) = IF k < CAPACITY - w THEN w + k ELSE k - (CAPACITY - w)
      BY DEF CellOf
    <2> HIDE DEF r, w
    <2> QED
      BY <1>3, <2>1, <2>2, <2>3, <2>4
  <1>10. ASSUME NEW i \in 1 .. n + 1, NEW k \in 0 .. BLOCK - 1
         PROVE  new.data[CellOf(r, (i - 1) * SLOT + k)] = <<longer[i], k>>
    <2>1. CASE i = n + 1
      <3>1. (i - 1) * SLOT + k = d + k
        BY <1>2, <2>1
      <3>2. new.data[CellOf(w, k)] = <<m, k>>
        BY <1>4 DEF Has
      <3> QED
        BY <1>7, <1>9, <2>1, <3>1, <3>2
    <2>2. CASE i \in 1 .. n
      <3> DEFINE o == (i - 1) * SLOT + k
      <3>1. o \in 0 .. d - 1
        <4>1. o \in 0 .. n * SLOT - 1
          BY <1>2, <2>2, Offset
        <4> HIDE DEF o
        <4> QED
          BY <1>2, <4>1
      <3>2. rb.data[CellOf(r, o)] = <<queue[i], k>>
        BY <2>2 DEF RingHolds
      <3> HIDE DEF o
      <3>3. o \in 0 .. CAPACITY - 1 /\ CellOf(r, o) \in Cells
        <4>1. r \in 0 .. CAPACITY /\ o \in 0 .. CAPACITY - 1
          BY <1>1, <3>1, Sizes DEF Cells
        <4> QED
          BY <4>1, CellInRing
      <3>4. ASSUME NEW j \in 0 .. BLOCK - 1
            PROVE  CellOf(w, j) # CellOf(r, o)
        <4>1. CellOf(w, j) = CellOf(r, d + j) /\ d + j \in 0 .. CAPACITY - 1
          BY <1>9
        <4>2. d + j # o
          BY <1>1, <3>1
        <4>3. r \in 0 .. CAPACITY
          BY <1>1, Sizes DEF Cells
        <4> QED
          BY <3>3, <4>1, <4>2, <4>3, CellInjective
      <3>5. new.data[CellOf(r, o)] = rb.data[CellOf(r, o)]
        BY <1>4, <3>3, <3>4 DEF AgreeElsewhere
      <3> QED
        BY <1>7, <2>2, <3>2, <3>5 DEF o
    <2> QED
      BY <1>2, <2>1, <2>2
  <1>11. new.readIndex \in Nat /\ IndexOK(new.readIndex)
         /\ new.writeIndex \in Nat /\ IndexOK(new.writeIndex)
    BY <1>1, <1>4, <1>5, Sizes DEF IndexOK, Cells
  <1>12. AvailData(new) = Len(longer) * SLOT
    BY <1>6, <1>7, <1>8
  <1>13. \A i \in 1 .. Len(longer), k \in 0 .. BLOCK - 1 :
             new.data[CellOf(new.readIndex, (i - 1) * SLOT + k)] = <<longer[i], k>>
    BY <1>4, <1>7, <1>10
  <1>14. RingHolds(new, longer)
    BY <1>11, <1>12, <1>13 DEF RingHolds
  <1> QED
    BY <1>14 DEF new

(***************************************************************************)
(* Socket_Read finds a message only if there is one, and takes the first.  *)
(***************************************************************************)
THEOREM ReadRemoves ==
    ASSUME NEW Msg, NEW queue \in Seq(Msg), NEW rb,
           RingHolds(rb, queue), CanRead(rb)
    PROVE  /\ queue # << >>
           /\ RingHolds(SocketRead(rb), Tail(queue))
  <1> DEFINE r == rb.readIndex
             n == Len(queue)
             d == AvailData(rb)
             s == CellOf(r, SLOT)
             new == SocketRead(rb)
             rest == Tail(queue)
  <1>1. /\ r \in Cells /\ r % RB_ALIGNMENT = 0
        /\ rb.writeIndex \in Cells /\ rb.writeIndex % RB_ALIGNMENT = 0
        /\ d \in 0 .. CAPACITY - 1 /\ rb.writeIndex = CellOf(r, d)
    BY Indices
  <1>2. n \in Nat /\ d = n * SLOT
    BY DEF RingHolds
  <1>3. n \in Nat \ {0} /\ queue # << >>
    <2>1. d > 0
      BY <1>1, Slot DEF CanRead
    <2>2. n # 0
      BY <1>2, <2>1, Slot
    <2> QED
      BY <1>2, <2>2
  <1>4. SLOT <= d /\ d - SLOT = (n - 1) * SLOT /\ BLOCK <= CAPACITY /\ SLOT <= CAPACITY
    <2>1. (n - 1) * SLOT \in Nat /\ n * SLOT = (n - 1) * SLOT + SLOT
      <3>1. n - 1 \in Nat /\ SLOT \in Nat
        BY <1>3, Slot
      <3>2. (n - 1) * SLOT \in Nat
        BY <3>1
      <3> QED
        BY <1>3, <3>1, <3>2
    <2> HIDE DEF d
    <2> QED
      BY <1>1, <1>2, <2>1, Slot, Sizes
  <1>5. /\ new.writeIndex = rb.writeIndex
        /\ new.readIndex = s
        /\ \A c \in Cells : (\A k \in 0 .. BLOCK - 1 : CellOf(r, k) # c)
                               => new.data[c] = rb.data[c]
    <2> DEFINE header == FinalPos(r, SIZE_FIELD)
               payload == FinalPos(header, MSG_HEADER)
               end == FinalPos(payload, PAYLOAD)
               two == SIZE_FIELD + MSG_HEADER
    <2>1. /\ r \in 0 .. CAPACITY
          /\ SIZE_FIELD \in 0 .. CAPACITY /\ MSG_HEADER \in 1 .. CAPACITY
          /\ PAYLOAD \in 1 .. CAPACITY /\ two \in 0 .. CAPACITY
          /\ SIZE_FIELD + MSG_HEADER <= CAPACITY /\ two + PAYLOAD <= CAPACITY
          /\ two + PAYLOAD = BLOCK
      BY <1>1, <1>4, Sizes DEF BLOCK, Cells
    <2>2. payload = FinalPos(r, two)
      BY <2>1, FinalPosSum
    <2>3. FinalPos(FinalPos(r, two), PAYLOAD) = FinalPos(r, two + PAYLOAD)
      BY <2>1, FinalPosSum
    <2>4. end = FinalPos(r, BLOCK)
      BY <2>1, <2>2, <2>3
    <2>5. NextBlock(FinalPos(r, BLOCK)) = s
      BY <1>1, <1>4, NextIndex
    <2> QED
      BY <2>4, <2>5 DEF SocketRead
  <1>6. s \in Cells /\ s % RB_ALIGNMENT = 0
    BY <1>1, <1>4, NextIndex
  <1> HIDE DEF d, new
  <1>7. AvailData(new) = d - SLOT
    <2> DEFINE w == rb.writeIndex
    <2>1. /\ r \in Nat /\ r < CAPACITY /\ w \in Nat /\ w < CAPACITY /\ d \in Nat
          /\ d < CAPACITY /\ CAPACITY \in Nat /\ SLOT \in Nat \ {0}
      BY <1>1, Slot, Sizes DEF Cells
    <2>2. w = IF d < CAPACITY - r THEN r + d ELSE d - (CAPACITY - r)
      BY <1>1 DEF CellOf
    <2>3. s = IF SLOT < CAPACITY - r THEN r + SLOT ELSE SLOT - (CAPACITY - r)
      BY DEF CellOf
    <2>4. AvailData(new) = IF w >= s THEN w - s ELSE w - s + CAPACITY
      BY <1>5 DEF AvailData
    <2> HIDE DEF r, w, s
    <2> QED
      BY <1>4, <2>1, <2>2, <2>3, <2>4
  <1>8. /\ Len(rest) = n - 1
        /\ \A i \in 1 .. n - 1 : rest[i] = queue[i + 1]
    BY <1>3
  <1>9. ASSUME NEW i \in 1 .. n - 1, NEW k \in 0 .. BLOCK - 1
        PROVE  new.data[CellOf(s, (i - 1) * SLOT + k)] = <<rest[i], k>>
    <2> DEFINE o == (i - 1) * SLOT + k
    <2>1. i + 1 \in 1 .. n /\ ((i + 1) - 1) * SLOT + k = o + SLOT
      <3>1. ((i + 1) - 1) * SLOT = (i - 1) * SLOT + SLOT
        BY <1>3, Slot
      <3> QED
        BY <1>3, <3>1, Slot
    <2>2. rb.data[CellOf(r, o + SLOT)] = <<queue[i + 1], k>>
      BY <2>1 DEF RingHolds
    <2>3. o \in 0 .. d - SLOT - 1
      <3>1. o \in 0 .. (n - 1) * SLOT - 1
        BY <1>3, Offset
      <3> HIDE DEF o
      <3> QED
        BY <1>4, <3>1
    <2> HIDE DEF o
    <2>4. CellOf(s, o) = CellOf(r, o + SLOT)
      <3>1. /\ r \in Nat /\ r < CAPACITY /\ d \in Nat /\ d < CAPACITY /\ o \in Nat
            /\ o + SLOT < CAPACITY /\ CAPACITY \in Nat /\ SLOT \in Nat
        BY <1>1, <1>4, <2>3, Slot, Sizes DEF Cells
      <3>2. s = IF SLOT < CAPACITY - r THEN r + SLOT ELSE SLOT - (CAPACITY - r)
        BY DEF CellOf
      <3>3. CellOf(s, o) = IF o < CAPACITY - s THEN s + o ELSE o - (CAPACITY - s)
        BY DEF CellOf
      <3>4. CellOf(r, o + SLOT) = IF o + SLOT < CAPACITY - r THEN r + (o + SLOT)
                                  ELSE (o + SLOT) - (CAPACITY - r)
        BY DEF CellOf
      <3> HIDE DEF r, s
      <3> QED
        BY <3>1, <3>2, <3>3, <3>4
    <2>5. o + SLOT \in 0 .. CAPACITY - 1 /\ r \in 0 .. CAPACITY
      BY <1>1, <1>4, <2>3, Slot, Sizes DEF Cells
    <2>6. CellOf(r, o + SLOT) \in Cells
      BY <2>5, CellInRing
    <2>7. ASSUME NEW j \in 0 .. BLOCK - 1
          PROVE  CellOf(r, j) # CellOf(r, o + SLOT)
      <3>1. j \in 0 .. CAPACITY - 1 /\ j # o + SLOT
        BY <1>1, <1>4, <2>3, Slot, Sizes
      <3> QED
        BY <2>5, <3>1, CellInjective
    <2>8. new.data[CellOf(r, o + SLOT)] = rb.data[CellOf(r, o + SLOT)]
      BY <1>5, <2>6, <2>7
    <2> QED
      BY <1>8, <2>2, <2>4, <2>8 DEF o
  <1>10. new.readIndex \in Nat /\ IndexOK(new.readIndex)
         /\ new.writeIndex \in Nat /\ IndexOK(new.writeIndex)
    BY <1>1, <1>5, <1>6, Sizes DEF IndexOK, Cells
  <1>11. AvailData(new) = Len(rest) * SLOT
    BY <1>4, <1>7, <1>8
  <1>12. \A i \in 1 .. Len(rest), k \in 0 .. BLOCK - 1 :
             new.data[CellOf(new.readIndex, (i - 1) * SLOT + k)] = <<rest[i], k>>
    BY <1>5, <1>8, <1>9
  <1>13. RingHolds(new, rest)
    BY <1>10, <1>11, <1>12 DEF RingHolds
  <1> QED
    BY <1>3, <1>13 DEF new

-----------------------------------------------------------------------------
(***************************************************************************)
(* WHAT IS IN THE RINGS.                                                   *)
(***************************************************************************)
Handling == {"READ", "WRITE", "reply"}

\* What is in the rings, in the buffer of the handler and on the card.
TypedData ==
    /\ qM4 \in Seq(Messages) /\ qA7 \in Seq(Messages) /\ stale \in Seq(Messages)
    /\ m4 \in Handling => recvBuffer \in Messages
    /\ blocks \in [Blocks -> SectorData]

SdInv == TypedData /\ RingsHoldMessages

Untouched == UNCHANGED <<toM4, toA7, qM4, qA7, recvBuffer, blocks>>

-----------------------------------------------------------------------------
LEMMA SectorDataFacts ==
    /\ Zeros \in SectorData /\ Torn \in SectorData
    /\ \A c \in Contents : c \in SectorData
    /\ \A s \in DOMAIN Image : Image[s] \in SectorData
  BY DEF SectorData

\* A message whose success and data are replaced is a message.
LEMMA MessageWith ==
    ASSUME NEW m \in Messages, NEW ok \in BOOLEAN, NEW d \in SectorData
    PROVE  [m EXCEPT !.success = ok, !.data = d] \in Messages
  BY DEF Messages

LEMMA MessageWithSuccess ==
    ASSUME NEW m \in Messages, NEW ok \in BOOLEAN
    PROVE  [m EXCEPT !.success = ok] \in Messages
  BY DEF Messages

LEMMA MessageFields ==
    ASSUME NEW m \in Messages
    PROVE  /\ m.type \in {"READ", "WRITE"} /\ m.drive \in Drives /\ m.sector \in Sectors
           /\ m.success \in BOOLEAN /\ m.data \in SectorData
  BY DEF Messages

LEMMA RequestIsMessage ==
    ASSUME NEW type \in {"READ", "WRITE"}, NEW d \in Drives, NEW s \in Sectors,
           NEW c \in SectorData
    PROVE  [type |-> type, drive |-> d, sector |-> s, success |-> FALSE, data |-> c] \in Messages
  BY DEF Messages

(***************************************************************************)
(* What the card driver returns.                                           *)
(***************************************************************************)
LEMMA ReadBlockReturns ==
    ASSUME NEW sel, NEW content, NEW r \in ReadBlock(sel, content)
    PROVE  r.ok \in BOOLEAN /\ (r.ok => r.data = content)
  <1> DEFINE fails == [ok |-> FALSE, selected |-> sel]
  <1>1. r = fails \/ r \in ReadDataPacket(sel, content)
    BY DEF ReadBlock
  <1>2. ASSUME r \in ReadDataPacket(sel, content), r # fails
        PROVE  \E b \in ClockBurst(sel, FALSE) :
                   r = [ok |-> TRUE, selected |-> b.selected, data |-> content]
    BY <1>2 DEF ReadDataPacket
  <1>3. CASE r = fails
    <2>1. r.ok = FALSE
      BY <1>3
    <2> QED
      BY <2>1
  <1>4. CASE r # fails
    <2>1. PICK b \in ClockBurst(sel, FALSE) :
              r = [ok |-> TRUE, selected |-> b.selected, data |-> content]
      BY <1>1, <1>2, <1>4
    <2>2. r.ok = TRUE /\ r.data = content
      BY <2>1
    <2> QED
      BY <2>2
  <1> QED
    BY <1>3, <1>4

LEMMA WriteBlockReturns ==
    ASSUME NEW sel, NEW old, NEW new, NEW w \in WriteBlock(sel, old, new)
    PROVE  w.ok \in BOOLEAN /\ w.content \in {old, new, Torn} /\ (w.ok => w.content = new)
  <1> DEFINE fails == [ok |-> FALSE, again |-> FALSE, selected |-> sel, content |-> old]
             from(p) == [ok |-> p.ok, again |-> ~p.ok, selected |-> p.selected,
                         content |-> p.content]
  <1>1. w = fails \/ \E p \in WriteDataPacket(sel, old, new) : w = from(p)
    BY DEF WriteBlock
  <1>2. CASE w = fails
    <2>1. w.ok = FALSE /\ w.content = old
      BY <1>2
    <2> QED
      BY <2>1
  <1>3. ASSUME NEW p \in WriteDataPacket(sel, old, new), w = from(p)
        PROVE  w.ok \in BOOLEAN /\ w.content \in {old, new, Torn} /\ (w.ok => w.content = new)
    <2>1. \/ p = [ok |-> TRUE, selected |-> TRUE, content |-> new]
          \/ \E c \in {old, new, Torn} : p = [ok |-> FALSE, selected |-> TRUE, content |-> c]
          \/ p = [ok |-> FALSE, selected |-> FALSE, content |-> old]
      BY DEF WriteDataPacket
    <2>2. p.ok = TRUE \/ p.ok = FALSE
      BY <2>1
    <2>3. p.content \in {old, new, Torn} /\ (p.ok = TRUE => p.content = new)
      BY <2>1
    <2>4. w.ok = p.ok /\ w.content = p.content
      BY <1>3
    <2> QED
      BY <2>2, <2>3, <2>4
  <1> QED
    BY <1>1, <1>2, <1>3

LEMMA BlockIsOnCard ==
    ASSUME recvBuffer \in Messages
    PROVE  Block \in Blocks
  <1>1. recvBuffer.drive \in Drives /\ recvBuffer.sector \in Sectors
    BY MessageFields
  <1> QED
    BY <1>1 DEF Block, Blocks

-----------------------------------------------------------------------------
(***************************************************************************)
(* The steps.                                                              *)
(***************************************************************************)
LEMMA UntouchedKeeps ==
    ASSUME SdInv, Untouched, stale' \in Seq(Messages),
           m4' = m4 \/ m4' \notin Handling
    PROVE  SdInv'
  BY DEF SdInv, TypedData, RingsHoldMessages, Untouched

LEMMA SdInit ==
    ASSUME Init
    PROVE  SdInv
  <1>1. toM4 = EmptyRing /\ toA7 = EmptyRing /\ qM4 = << >> /\ qA7 = << >> /\ stale = << >>
    BY DEF Init
  <1>2. RingsHoldMessages
    BY <1>1, EmptyQueue DEF RingsHoldMessages
  <1>3. << >> \in Seq(Messages)
    OBVIOUS
  <1>4. blocks \in [Blocks -> SectorData]
    BY SectorDataFacts DEF Init
  <1>5. m4 \notin Handling
    BY DEF Init, Handling
  <1> QED
    BY <1>1, <1>2, <1>3, <1>4, <1>5 DEF SdInv, TypedData

\* Opening the card and the socket, taking interrupts and sleeping.
LEMMA BootKeeps ==
    ASSUME SdInv,
           \/ InitialBurst \/ GoIdleState \/ SendIfCond \/ SendOpCond \/ OpenCard
           \/ Negotiate \/ SetupInterrupts \/ SetCallback
    PROVE  SdInv'
  <1>1. stale \in Seq(Messages)
    BY DEF SdInv, TypedData
  <1>2. CASE InitialBurst
    BY <1>1, <1>2, UntouchedKeeps DEF InitialBurst, Booting, Proceed, StartOver, Untouched,
       shared, link, Handling
  <1>3. CASE GoIdleState
    BY <1>1, <1>3, UntouchedKeeps DEF GoIdleState, Booting, Proceed, StartOver, Poll,
       Untouched, shared, link, Handling
  <1>4. CASE SendIfCond
    BY <1>1, <1>4, UntouchedKeeps DEF SendIfCond, Booting, Proceed, StartOver, Untouched,
       shared, link, Handling
  <1>5. CASE SendOpCond
    <2>1. Untouched /\ UNCHANGED stale
      BY <1>5 DEF SendOpCond, Booting, Untouched, shared, link
    <2>2. m4' = m4 \/ m4' \notin Handling
      BY <1>5 DEF SendOpCond, Proceed, StartOver, Poll, Handling
    <2> QED
      BY <1>1, <2>1, <2>2, UntouchedKeeps
  <1>6. CASE OpenCard
    BY <1>1, <1>6, UntouchedKeeps DEF OpenCard, Untouched, shared, link, Handling
  <1>7. CASE Negotiate \/ SetupInterrupts \/ SetCallback
    BY <1>1, <1>7, UntouchedKeeps DEF Negotiate, SetupInterrupts, SetCallback, Untouched,
       shared, link, card, Handling
  <1> QED
    BY <1>2, <1>3, <1>4, <1>5, <1>6, <1>7

LEMMA LoopKeeps ==
    ASSUME SdInv,
           \/ \E port \in {MSG_SENT, MSG_RECV} : MsgAvailable(port)
           \/ TimerExpires \/ Wfi \/ InvokeCallbacks \/ CheckNegotiation \/ NothingToReceive
    PROVE  SdInv'
  <1>1. stale \in Seq(Messages) /\ << >> \in Seq(Messages)
    BY DEF SdInv, TypedData
  <1>2. ASSUME NEW port \in {MSG_SENT, MSG_RECV}, MsgAvailable(port)
        PROVE  SdInv'
    BY <1>1, <1>2, UntouchedKeeps DEF MsgAvailable, Untouched, link, card, Handling
  <1>3. CASE TimerExpires \/ Wfi \/ InvokeCallbacks \/ NothingToReceive
    BY <1>1, <1>3, UntouchedKeeps DEF TimerExpires, Wfi, InvokeCallbacks, NothingToReceive,
       Untouched, shared, link, card, Handling
  <1>4. CASE CheckNegotiation
    BY <1>1, <1>4, UntouchedKeeps DEF CheckNegotiation, Untouched, shared, card, Handling
  <1> QED
    BY <1>2, <1>3, <1>4

LEMMA HeadTail ==
    ASSUME NEW q \in Seq(Messages), q # << >>
    PROVE  Head(q) \in Messages /\ Tail(q) \in Seq(Messages)
  OBVIOUS

LEMMA ReceiveKeeps ==
    ASSUME SdInv, Receive
    PROVE  SdInv'
  <1>1. RingHolds(toM4, qM4) /\ RingHolds(toA7, qA7) /\ UNCHANGED <<toA7, qA7, blocks>>
    BY DEF SdInv, RingsHoldMessages, Receive, card
  <1>2. qM4 \in Seq(Messages) /\ qA7 \in Seq(Messages) /\ stale \in Seq(Messages)
        /\ blocks \in [Blocks -> SectorData]
    BY DEF SdInv, TypedData
  <1>3. CASE attached
    <2>1. CanRead(toM4) /\ recvBuffer' = Head(qM4) /\ toM4' = SocketRead(toM4)
          /\ qM4' = Tail(qM4) /\ UNCHANGED stale
      BY <1>3 DEF Receive
    <2>2. qM4 # << >> /\ RingHolds(SocketRead(toM4), Tail(qM4))
      BY <1>1, <1>2, <2>1, ReadRemoves
    <2>3. Head(qM4) \in Messages /\ Tail(qM4) \in Seq(Messages)
      BY <1>2, <2>2, HeadTail
    <2> QED
      BY <1>1, <1>2, <2>1, <2>2, <2>3 DEF SdInv, TypedData, RingsHoldMessages
  <1>4. CASE ~attached
    <2>1. stale # << >> /\ recvBuffer' = Head(stale) /\ stale' = Tail(stale)
          /\ UNCHANGED <<toM4, qM4>>
      BY <1>4 DEF Receive
    <2>2. Head(stale) \in Messages /\ Tail(stale) \in Seq(Messages)
      BY <1>2, <2>1, HeadTail
    <2> QED
      BY <1>1, <1>2, <2>1, <2>2 DEF SdInv, TypedData, RingsHoldMessages
  <1> QED
    BY <1>3, <1>4

LEMMA HandleReadKeeps ==
    ASSUME SdInv, HandleRead
    PROVE  SdInv'
  <1>1. UNCHANGED <<toM4, toA7, qM4, qA7, stale, blocks>>
    BY DEF HandleRead, shared, link
  <1>2. recvBuffer \in Messages /\ blocks[Block] \in SectorData
    <2>1. recvBuffer \in Messages /\ blocks \in [Blocks -> SectorData]
      BY DEF SdInv, TypedData, HandleRead, Handling
    <2> QED
      BY <2>1, BlockIsOnCard
  <1>3. recvBuffer' \in Messages
    <2>1. CASE ~opened
      <3>1. recvBuffer' = [recvBuffer EXCEPT !.success = FALSE, !.data = Zeros]
        BY <2>1 DEF HandleRead
      <3> QED
        BY <1>2, <3>1, MessageWith, SectorDataFacts
    <2>2. CASE opened
      <3>1. PICK r \in ReadBlock(selected, blocks[Block]) :
                recvBuffer' = [recvBuffer EXCEPT !.success = r.ok,
                                                 !.data = IF r.ok THEN r.data ELSE Zeros]
        BY <2>2 DEF HandleRead
      <3>2. r.ok \in BOOLEAN /\ (r.ok => r.data = blocks[Block])
        BY ReadBlockReturns
      <3> DEFINE d == IF r.ok THEN r.data ELSE Zeros
      <3>3. d \in SectorData
        BY <1>2, <3>2, SectorDataFacts
      <3> HIDE DEF d
      <3>4. [recvBuffer EXCEPT !.success = r.ok, !.data = d] \in Messages
        BY <1>2, <3>2, <3>3, MessageWith
      <3> QED
        BY <3>1, <3>4 DEF d
    <2> QED
      BY <2>1, <2>2
  <1> QED
    BY <1>1, <1>3 DEF SdInv, TypedData, RingsHoldMessages

LEMMA HandleWriteKeeps ==
    ASSUME SdInv, HandleWrite
    PROVE  SdInv'
  <1>1. UNCHANGED <<toM4, toA7, qM4, qA7, stale>>
    BY DEF HandleWrite, shared, link
  <1>2. /\ recvBuffer \in Messages /\ recvBuffer.data \in SectorData
        /\ recvBuffer.success \in BOOLEAN
        /\ Block \in Blocks /\ blocks \in [Blocks -> SectorData]
    <2>1. recvBuffer \in Messages /\ blocks \in [Blocks -> SectorData]
      BY DEF SdInv, TypedData, HandleWrite, Handling
    <2> QED
      BY <2>1, BlockIsOnCard, MessageFields
  <1>3. CASE ~opened
    <2>1. recvBuffer' = [recvBuffer EXCEPT !.success = FALSE] /\ UNCHANGED blocks
      BY <1>3 DEF HandleWrite
    <2>2. recvBuffer' \in Messages
      BY <1>2, <2>1, MessageWithSuccess
    <2> QED
      BY <1>1, <1>2, <2>1, <2>2 DEF SdInv, TypedData, RingsHoldMessages
  <1>4. CASE opened
    <2>1. PICK w \in WriteBlock(selected, blocks[Block], recvBuffer.data) :
              LET retries == w.again /\ num_retries > 0
              IN /\ blocks' = [blocks EXCEPT ![Block] = w.content]
                 /\ recvBuffer' = [recvBuffer EXCEPT !.success =
                                       IF retries THEN recvBuffer.success ELSE w.ok]
      BY <1>4 DEF HandleWrite
    <2>2. w.ok \in BOOLEAN /\ w.content \in {blocks[Block], recvBuffer.data, Torn}
      BY WriteBlockReturns
    <2>3. blocks' \in [Blocks -> SectorData]
      <3>1. w.content \in SectorData
        BY <1>2, <2>2, SectorDataFacts
      <3> QED
        BY <1>2, <2>1, <3>1
    <2> DEFINE s == IF w.again /\ num_retries > 0 THEN recvBuffer.success ELSE w.ok
    <2>4. recvBuffer' = [recvBuffer EXCEPT !.success = s]
      BY <2>1
    <2>5. s \in BOOLEAN
      BY <1>2, <2>2
    <2> HIDE DEF s
    <2>6. recvBuffer' \in Messages
      BY <1>2, <2>4, <2>5, MessageWithSuccess
    <2> QED
      BY <1>1, <2>3, <2>6 DEF SdInv, TypedData, RingsHoldMessages
  <1> QED
    BY <1>3, <1>4

LEMMA ReplyKeeps ==
    ASSUME SdInv, Reply
    PROVE  SdInv'
  <1>1. UNCHANGED <<toM4, qM4, stale, blocks>> /\ m4' \notin Handling
    BY DEF Reply, link, card, Handling
  <1>2. recvBuffer \in Messages /\ qA7 \in Seq(Messages) /\ RingHolds(toA7, qA7)
    BY DEF SdInv, TypedData, RingsHoldMessages, Reply, Handling
  <1>3. CASE attached /\ CanWrite(toA7)
    <2>1. toA7' = SocketWrite(toA7, recvBuffer) /\ qA7' = Append(qA7, recvBuffer)
      BY <1>3 DEF Reply
    <2>2. RingHolds(SocketWrite(toA7, recvBuffer), Append(qA7, recvBuffer))
      BY <1>2, <1>3, WriteAppends
    <2>3. Append(qA7, recvBuffer) \in Seq(Messages)
      BY <1>2
    <2> QED
      BY <1>1, <2>1, <2>2, <2>3 DEF SdInv, TypedData, RingsHoldMessages
  <1>4. CASE ~(attached /\ CanWrite(toA7))
    <2>1. UNCHANGED <<toA7, qA7>>
      BY <1>4 DEF Reply
    <2> QED
      BY <1>1, <2>1 DEF SdInv, TypedData, RingsHoldMessages
  <1> QED
    BY <1>3, <1>4

LEMMA PublishKeeps ==
    ASSUME SdInv, NEW m \in Messages, Publish(m)
    PROVE  SdInv'
  <1>1. UNCHANGED <<toA7, qA7, stale, blocks, recvBuffer, m4>>
    BY DEF Publish, link, card, loop
  <1>2. qM4 \in Seq(Messages) /\ RingHolds(toM4, qM4)
    BY DEF SdInv, TypedData, RingsHoldMessages
  <1>3. CASE CanWrite(toM4)
    <2>1. toM4' = SocketWrite(toM4, m) /\ qM4' = Append(qM4, m)
      BY <1>3 DEF Publish
    <2>2. RingHolds(SocketWrite(toM4, m), Append(qM4, m))
      BY <1>2, <1>3, WriteAppends
    <2>3. Append(qM4, m) \in Seq(Messages)
      BY <1>2
    <2> QED
      BY <1>1, <2>1, <2>2, <2>3 DEF SdInv, TypedData, RingsHoldMessages
  <1>4. CASE ~CanWrite(toM4)
    <2>1. UNCHANGED <<toM4, qM4>>
      BY <1>4 DEF Publish
    <2> QED
      BY <1>1, <2>1 DEF SdInv, TypedData, RingsHoldMessages
  <1> QED
    BY <1>3, <1>4

\* Every request is a message that is published.
LEMMA RequestIsPublished ==
    ASSUME \/ \E t \in EmulatorSectors : ReadSector(t[1], t[2])
           \/ \E t \in EmulatorSectors, c \in Contents : WriteSector(t[1], t[2], c)
           \/ FormatSector
    PROVE  \E m \in Messages : Publish(m)
  <1>1. \A t \in EmulatorSectors : t[1] \in Drives /\ t[2] \in Sectors
    BY SdAssumption
  <1>2. ASSUME NEW t \in EmulatorSectors, ReadSector(t[1], t[2])
        PROVE  \E n \in Messages : Publish(n)
    <2> DEFINE m == [type |-> "READ", drive |-> t[1], sector |-> t[2],
                     success |-> FALSE, data |-> Zeros]
    <2>1. m \in Messages
      BY <1>1, RequestIsMessage, SectorDataFacts
    <2>2. Publish(m)
      BY <1>2 DEF ReadSector
    <2> QED
      BY <2>1, <2>2
  <1>3. ASSUME NEW t \in EmulatorSectors, NEW c \in Contents, WriteSector(t[1], t[2], c)
        PROVE  \E n \in Messages : Publish(n)
    <2> DEFINE m == [type |-> "WRITE", drive |-> t[1], sector |-> t[2],
                     success |-> FALSE, data |-> c]
    <2>1. m \in Messages
      BY <1>1, RequestIsMessage, SectorDataFacts
    <2>2. Publish(m)
      BY <1>3 DEF WriteSector
    <2> QED
      BY <2>1, <2>2
  <1>4. CASE FormatSector
    <2> DEFINE s == format.sector
               write == [type |-> "WRITE", drive |-> FORMAT_DRIVE, sector |-> s,
                         success |-> FALSE, data |-> Image[s]]
               read == [type |-> "READ", drive |-> FORMAT_DRIVE, sector |-> s,
                        success |-> FALSE, data |-> Zeros]
    <2>1. s \in Sectors /\ FORMAT_DRIVE \in Drives /\ Image[s] \in SectorData
          /\ Zeros \in SectorData
      BY <1>4, SdAssumption, SectorDataFacts DEF FormatSector
    <2>2. Publish(write) \/ Publish(read)
      BY <1>4 DEF FormatSector
    <2>3. write \in Messages /\ read \in Messages
      BY <2>1, RequestIsMessage
    <2> QED
      BY <2>2, <2>3
  <1> QED
    BY <1>2, <1>3, <1>4

LEMMA TakeAnswerKeeps ==
    ASSUME SdInv, TakeAnswer
    PROVE  SdInv'
  <1>1. UNCHANGED <<toM4, qM4, stale, blocks, recvBuffer, m4>>
    BY DEF TakeAnswer, link, card, loop
  <1>2. qA7 \in Seq(Messages) /\ RingHolds(toA7, qA7)
    BY DEF SdInv, TypedData, RingsHoldMessages
  <1>3. CanRead(toA7) /\ toA7' = SocketRead(toA7) /\ qA7' = Tail(qA7)
    BY DEF TakeAnswer
  <1>4. qA7 # << >> /\ RingHolds(SocketRead(toA7), Tail(qA7))
    BY <1>2, <1>3, ReadRemoves
  <1>5. Tail(qA7) \in Seq(Messages)
    BY <1>2, <1>4, HeadTail
  <1> QED
    BY <1>1, <1>3, <1>4, <1>5 DEF SdInv, TypedData, RingsHoldMessages

LEMMA A7StartsKeeps ==
    ASSUME SdInv, A7Starts
    PROVE  SdInv'
  <1>1. /\ toM4' = EmptyRing /\ toA7' = EmptyRing /\ qM4' = << >> /\ qA7' = << >>
        /\ stale' \in {qM4, stale} /\ UNCHANGED <<m4, recvBuffer, blocks>>
    BY DEF A7Starts, card, loop
  <1>2. << >> \in Seq(Messages)
    OBVIOUS
  <1> QED
    BY <1>1, <1>2, EmptyQueue DEF SdInv, TypedData, RingsHoldMessages

\* The other steps of the application leave the rings alone.
LEMMA ApplicationKeeps ==
    ASSUME SdInv, A7Stops \/ TimeOut \/ ButtonA \/ EndOfImage
    PROVE  SdInv'
  <1>1. stale \in Seq(Messages)
    BY DEF SdInv, TypedData
  <1> QED
    BY <1>1, UntouchedKeeps DEF A7Stops, TimeOut, ButtonA, EndOfImage, Untouched, shared,
       link, card, loop

LEMMA SdStep ==
    ASSUME SdInv, [Next]_vars
    PROVE  SdInv'
  <1>1. CASE M4Step
    BY <1>1, BootKeeps, LoopKeeps, ReceiveKeeps, HandleReadKeeps, HandleWriteKeeps,
       ReplyKeeps DEF M4Step
  <1>2. CASE \/ \E port \in {MSG_SENT, MSG_RECV} : MsgAvailable(port)
             \/ TimerExpires
    BY <1>2, LoopKeeps
  <1>3. CASE A7Starts \/ A7Stops \/ TakeAnswer \/ TimeOut \/ ButtonA \/ EndOfImage
    BY <1>3, A7StartsKeeps, ApplicationKeeps, TakeAnswerKeeps
  <1>4. CASE \/ \E t \in EmulatorSectors : ReadSector(t[1], t[2])
             \/ \E t \in EmulatorSectors, c \in Contents : WriteSector(t[1], t[2], c)
             \/ FormatSector
    BY <1>4, RequestIsPublished, PublishKeeps
  <1>5. CASE UNCHANGED vars
    BY <1>5 DEF vars, shared, link, card, loop, SdInv, TypedData, RingsHoldMessages
  <1> QED
    BY <1>1, <1>2, <1>3, <1>4, <1>5 DEF Next

LEMMA SdInvariant == Spec => []SdInv
  <1>1. Init => SdInv
    BY SdInit
  <1>2. SdInv /\ [Next]_vars => SdInv'
    BY SdStep
  <1> QED
    BY <1>1, <1>2, PTL DEF Spec

(***************************************************************************)
(* Each ring is the queue of the messages sent and not read.               *)
(***************************************************************************)
THEOREM SpecRingsHoldMessages == Spec => []RingsHoldMessages
  <1>1. SdInv => RingsHoldMessages
    BY DEF SdInv
  <1> QED
    BY <1>1, SdInvariant, PTL

-----------------------------------------------------------------------------
(***************************************************************************)
(* WHAT AN ANSWER SAYS.  Until the application gives up on an answer, at   *)
(* most one message is under way between it and a service that uses its    *)
(* rings.  A service that still uses those of an earlier run may have any  *)
(* number of that run's requests left, but every write among them has been *)
(* given up: nothing is promised of its sector.                            *)
(***************************************************************************)
\* Two sectors never share a block: an image has fewer than BLOCKS_PER_DRIVE.
SectorsFit == Sectors \subseteq 0 .. BLOCKS_PER_DRIVE - 1

Starting == {"burst", "goIdle", "ifCond", "appCmd", "appOpCond", "opCond", "csd", "negotiate"}

TypedRest ==
    /\ m4 \in {"READ", "WRITE"} => recvBuffer.type = m4
    /\ client \in {"off", "idle", "waiting"}
    /\ attached \in BOOLEAN /\ slipped \in BOOLEAN
    /\ request \in Messages \cup {None} /\ answer \in Messages \cup {None}
    /\ client = "waiting" => request # None /\ answer = None
    /\ answer # None => client = "idle" /\ request # None
    /\ kept \in [Drives \X Sectors -> SectorData \cup {Unknown}]
    /\ attached => stale = << >>
    /\ m4 \in Starting => ~attached /\ stale = << >>
    /\ ~attached => qA7 = << >>

\* m is the request, on its way to the card.
IsRequest(m) ==
    /\ request # None
    /\ m.type = request.type /\ Target(m) = Target(request)
    /\ m.type = "WRITE" => m.data = request.data

\* m is the request, answered.
Answers(m) ==
    /\ IsRequest(m)
    /\ m.success => blocks[BlockOf(m.drive, m.sector)] = m.data

Nowhere == qM4 = << >> /\ qA7 = << >> /\ (attached => m4 \notin Handling)

Sent ==
    /\ request # None /\ qM4 = <<request>>
    /\ qA7 = << >> /\ (attached => m4 \notin Handling)

BeingHandled ==
    /\ attached /\ qM4 = << >> /\ qA7 = << >>
    /\ \/ m4 \in {"READ", "WRITE"} /\ IsRequest(recvBuffer)
       \/ m4 = "reply" /\ Answers(recvBuffer)

Answered ==
    /\ attached /\ qM4 = << >> /\ m4 \notin Handling
    /\ Len(qA7) = 1 /\ Answers(qA7[1])

OneUnderWay ==
    ~slipped => Nowhere \/ (client # "idle" /\ (Sent \/ BeingHandled \/ Answered))

\* The application waits for a write of t.
Writing(t) == client = "waiting" /\ request.type = "WRITE" /\ Target(request) = t

Given(m) == m.type = "WRITE" => kept[Target(m)] = Unknown \/ Writing(Target(m))

WritesGivenUp ==
    /\ \A i \in 1 .. Len(qM4) : Given(qM4[i])
    /\ \A i \in 1 .. Len(stale) : Given(stale[i])
    /\ m4 = "WRITE" => Given(recvBuffer)

KeptOnCard ==
    \A t \in Drives \X Sectors :
        kept[t] = Unknown \/ Writing(t) \/ blocks[BlockOf(t[1], t[2])] = kept[t]

ServiceInv ==
    TypedRest /\ OneUnderWay /\ WritesGivenUp /\ KeptOnCard /\ AnswersAreRight

LEMMA MessageWithFields ==
    ASSUME NEW m \in Messages, NEW ok \in BOOLEAN, NEW d \in SectorData
    PROVE  LET n == [m EXCEPT !.success = ok, !.data = d]
           IN  /\ n.type = m.type /\ n.drive = m.drive /\ n.sector = m.sector
               /\ n.success = ok /\ n.data = d
  BY DEF Messages

LEMMA MessageWithSuccessFields ==
    ASSUME NEW m \in Messages, NEW ok \in BOOLEAN, NEW n, n = [m EXCEPT !.success = ok]
    PROVE  /\ n.type = m.type /\ n.drive = m.drive /\ n.sector = m.sector
           /\ n.success = ok /\ n.data = m.data
  BY DEF Messages

LEMMA TargetFacts ==
    ASSUME NEW m \in Messages
    PROVE  /\ Target(m) \in Drives \X Sectors
           /\ Target(m)[1] = m.drive /\ Target(m)[2] = m.sector
  BY MessageFields DEF Target

LEMMA BlockInjective ==
    ASSUME SectorsFit, NEW d \in Drives, NEW s \in Sectors, NEW e \in Drives, NEW t \in Sectors,
           BlockOf(d, s) = BlockOf(e, t)
    PROVE  d = e /\ s = t
  <1>1. /\ d \in Nat /\ e \in Nat /\ BLOCKS_PER_DRIVE \in Nat
        /\ s \in 0 .. BLOCKS_PER_DRIVE - 1 /\ t \in 0 .. BLOCKS_PER_DRIVE - 1
    BY SdAssumption DEF SectorsFit
  <1> DEFINE x == BLOCKS_PER_DRIVE * d
             y == BLOCKS_PER_DRIVE * e
  <1>2. s + x = t + y
    BY <1>1 DEF BlockOf
  <1>3. x \in Nat /\ y \in Nat
    BY <1>1
  <1>4. d < e => x + BLOCKS_PER_DRIVE <= y
    BY <1>1, Times
  <1>5. e < d => y + BLOCKS_PER_DRIVE <= x
    BY <1>1, Times
  <1> HIDE DEF x, y
  <1>6. d = e
    BY <1>1, <1>2, <1>3, <1>4, <1>5
  <1>7. x = y
    BY <1>6 DEF x, y
  <1> QED
    BY <1>1, <1>2, <1>3, <1>6, <1>7

\* Two messages are for the same block only if they are for the same sector.
LEMMA SameBlock ==
    ASSUME SectorsFit, NEW m \in Messages, NEW t \in Drives \X Sectors, t # Target(m)
    PROVE  BlockOf(t[1], t[2]) # BlockOf(m.drive, m.sector)
  <1>1. m.drive \in Drives /\ m.sector \in Sectors /\ t[1] \in Drives /\ t[2] \in Sectors
        /\ t = <<t[1], t[2]>>
    BY MessageFields
  <1> QED
    BY <1>1, BlockInjective DEF Target

LEMMA ServiceInit == Init => ServiceInv
  <1> SUFFICES ASSUME Init PROVE ServiceInv
    OBVIOUS
  <1>1. TypedRest
    BY SectorDataFacts DEF Init, TypedRest
  <1>2. OneUnderWay /\ WritesGivenUp /\ AnswersAreRight
    BY DEF Init, OneUnderWay, Nowhere, WritesGivenUp, AnswersAreRight
  <1>3. KeptOnCard
    BY DEF Init, KeptOnCard, Blocks
  <1> QED
    BY <1>1, <1>2, <1>3 DEF ServiceInv

\* Steps that touch no message and no sector.
Quiet == UNCHANGED <<qM4, qA7, recvBuffer, blocks, attached, stale, slipped, request,
                     answer, client, kept>>

LEMMA QuietKeeps ==
    ASSUME ServiceInv, Quiet, m4' = m4 \/ m4' \notin Handling,
           m4' \in Starting => m4 \in Starting
    PROVE  ServiceInv'
  <1>1. TypedRest'
    BY DEF ServiceInv, TypedRest, Quiet, Handling
  <1>2. OneUnderWay'
    BY DEF ServiceInv, OneUnderWay, Nowhere, Sent, BeingHandled, Answered, IsRequest, Answers,
       Quiet, Handling
  <1>3. WritesGivenUp' /\ KeptOnCard'
    BY DEF ServiceInv, WritesGivenUp, KeptOnCard, Given, Writing, Quiet, Handling
  <1>4. AnswersAreRight'
    BY DEF ServiceInv, AnswersAreRight, Quiet
  <1> QED
    BY <1>1, <1>2, <1>3, <1>4 DEF ServiceInv

\* The rings of the running application are found.
LEMMA AttachKeeps ==
    ASSUME ServiceInv, attached' = TRUE, stale' = << >>, m4 \notin Handling,
           m4' \notin Handling, m4' \notin Starting,
           UNCHANGED <<qM4, qA7, recvBuffer, blocks, slipped, request, answer, client, kept>>
    PROVE  ServiceInv'
  <1>1. OneUnderWay'
    BY DEF ServiceInv, OneUnderWay, Nowhere, Sent, BeingHandled, Answered, IsRequest, Answers,
       Handling
  <1>2. WritesGivenUp' /\ KeptOnCard'
    BY DEF ServiceInv, WritesGivenUp, KeptOnCard, Given, Writing, Handling
  <1>3. AnswersAreRight'
    BY DEF ServiceInv, AnswersAreRight
  <1>4. TypedRest'
    BY DEF ServiceInv, TypedRest, Handling
  <1> QED
    BY <1>1, <1>2, <1>3, <1>4 DEF ServiceInv

LEMMA StartKeepsService ==
    ASSUME ServiceInv,
           \/ InitialBurst \/ GoIdleState \/ SendIfCond \/ SendOpCond \/ OpenCard
           \/ Negotiate \/ SetupInterrupts \/ SetCallback
    PROVE  ServiceInv'
  <1>1. CASE InitialBurst \/ GoIdleState \/ SendIfCond \/ SendOpCond
    <2>1. Quiet
      BY <1>1 DEF InitialBurst, GoIdleState, SendIfCond, SendOpCond, Booting, Quiet,
         shared, link, a7
    <2>2. m4 \in Starting /\ m4' \notin Handling
      <3>1. CASE InitialBurst
        BY <3>1 DEF InitialBurst, Proceed, StartOver, Starting, Handling
      <3>2. CASE GoIdleState
        BY <3>2 DEF GoIdleState, Proceed, StartOver, Poll, Starting, Handling
      <3>3. CASE SendIfCond
        BY <3>3 DEF SendIfCond, Proceed, StartOver, Starting, Handling
      <3>4. CASE SendOpCond
        BY <3>4 DEF SendOpCond, Proceed, StartOver, Poll, Starting, Handling
      <3> QED
        BY <1>1, <3>1, <3>2, <3>3, <3>4
    <2> QED
      BY <2>1, <2>2, QuietKeeps
  <1>2. CASE OpenCard \/ SetupInterrupts \/ SetCallback
    BY <1>2, QuietKeeps DEF OpenCard, SetupInterrupts, SetCallback, Quiet, Starting, Handling,
       shared, link, a7, card
  <1>3. CASE Negotiate
    <2>1. UNCHANGED <<qM4, qA7, stale, recvBuffer, blocks, slipped, request, answer, client,
                      kept>>
      BY <1>3 DEF Negotiate, shared, card, a7
    <2>2. CASE attached' = TRUE /\ m4' = "setup"
      <3>1. m4 \in Starting /\ m4 \notin Handling
        BY <1>3 DEF Negotiate, Starting, Handling
      <3>2. stale' = << >>
        BY <2>1, <3>1 DEF ServiceInv, TypedRest
      <3> QED
        BY <2>1, <2>2, <3>1, <3>2, AttachKeeps DEF Starting, Handling
    <2>3. CASE UNCHANGED attached /\ m4' = "sleep"
      BY <2>1, <2>3, QuietKeeps DEF Quiet, Starting, Handling
    <2> QED
      BY <1>3, <2>2, <2>3 DEF Negotiate
  <1> QED
    BY <1>1, <1>2, <1>3

LEMMA LoopKeepsService ==
    ASSUME ServiceInv,
           \/ \E port \in {MSG_SENT, MSG_RECV} : MsgAvailable(port)
           \/ TimerExpires \/ Wfi \/ InvokeCallbacks \/ CheckNegotiation \/ NothingToReceive
           \/ ButtonA \/ EndOfImage
    PROVE  ServiceInv'
  <1>1. ASSUME NEW port \in {MSG_SENT, MSG_RECV}, MsgAvailable(port)
        PROVE  ServiceInv'
    BY <1>1, QuietKeeps DEF MsgAvailable, Quiet, link, card, a7, Handling, Starting
  <1>2. CASE TimerExpires \/ Wfi \/ InvokeCallbacks \/ NothingToReceive
    BY <1>2, QuietKeeps DEF TimerExpires, Wfi, InvokeCallbacks, NothingToReceive, Quiet,
       shared, link, card, a7, Handling, Starting
  <1>3. CASE CheckNegotiation
    <2>1. UNCHANGED <<qM4, qA7, recvBuffer, blocks, slipped, request, answer, client, kept>>
      BY <1>3 DEF CheckNegotiation, shared, card, a7
    <2>2. /\ m4 \notin Handling /\ m4' \in {"receive", "invoke"}
          /\ UNCHANGED <<attached, stale>> \/ (attached' = TRUE /\ stale' = << >>)
      BY <1>3 DEF CheckNegotiation, Handling
    <2> QED
      BY <2>1, <2>2, QuietKeeps, AttachKeeps DEF Quiet, Handling, Starting
  <1>4. CASE ButtonA \/ EndOfImage
    BY <1>4, QuietKeeps DEF ButtonA, EndOfImage, Quiet, shared, link, card, loop
  <1> QED
    BY <1>1, <1>2, <1>3, <1>4

LEMMA ReceiveKeepsService ==
    ASSUME SdInv, ServiceInv, Receive
    PROVE  ServiceInv'
  <1>1. /\ UNCHANGED <<qA7, attached, blocks, slipped, request, answer, client, kept>>
        /\ m4 = "receive" /\ m4' = recvBuffer'.type
    BY DEF Receive, card, a7
  <1>2. qM4 \in Seq(Messages) /\ stale \in Seq(Messages) /\ RingHolds(toM4, qM4)
    BY DEF SdInv, TypedData, RingsHoldMessages
  <1>3. AnswersAreRight'
    BY <1>1 DEF ServiceInv, AnswersAreRight
  <1>4. KeptOnCard'
    BY <1>1 DEF ServiceInv, KeptOnCard, Writing
  <1>5. CASE attached
    <2>1. CanRead(toM4) /\ recvBuffer' = Head(qM4) /\ qM4' = Tail(qM4) /\ UNCHANGED stale
      BY <1>5 DEF Receive
    <2>2. qM4 # << >>
      BY <1>2, <2>1, ReadRemoves
    <2>3. recvBuffer' = qM4[1] /\ qM4[1] \in Messages
          /\ Len(qM4') = Len(qM4) - 1 /\ \A i \in 1 .. Len(qM4') : qM4'[i] = qM4[i + 1]
      BY <1>2, <2>1, <2>2
    <2>4. m4' \in {"READ", "WRITE"} /\ recvBuffer'.type = m4'
      BY <1>1, <2>3, MessageFields
    <2>5. TypedRest'
      BY <1>1, <2>1, <2>4 DEF ServiceInv, TypedRest, Starting
    <2>6. OneUnderWay'
      <3> SUFFICES ASSUME ~slipped
                   PROVE  client # "idle" /\ BeingHandled'
        BY <1>1 DEF OneUnderWay
      <3>1. client # "idle" /\ Sent
        BY <1>1, <2>2 DEF ServiceInv, OneUnderWay, Nowhere, BeingHandled, Answered, Handling
      <3>2. recvBuffer' = request /\ qM4' = << >> /\ qA7' = << >> /\ request # None
        BY <1>1, <2>1, <2>3, <3>1 DEF Sent
      <3> QED
        BY <1>1, <1>5, <2>4, <3>1, <3>2 DEF BeingHandled, IsRequest, Target
    <2>7. WritesGivenUp'
      <3>1. \A i \in 1 .. Len(qM4') : i + 1 \in 1 .. Len(qM4)
        BY <1>2, <2>2, <2>3
      <3>2. 1 \in 1 .. Len(qM4)
        BY <1>2, <2>2
      <3> QED
        BY <1>1, <2>1, <2>3, <3>1, <3>2 DEF ServiceInv, WritesGivenUp, Given, Writing
    <2> QED
      BY <1>3, <1>4, <2>5, <2>6, <2>7 DEF ServiceInv
  <1>6. CASE ~attached
    <2>1. stale # << >> /\ recvBuffer' = Head(stale) /\ stale' = Tail(stale) /\ UNCHANGED qM4
      BY <1>6 DEF Receive
    <2>2. recvBuffer' = stale[1] /\ stale[1] \in Messages
          /\ Len(stale') = Len(stale) - 1 /\ \A i \in 1 .. Len(stale') : stale'[i] = stale[i + 1]
      BY <1>2, <2>1
    <2>3. m4' \in {"READ", "WRITE"} /\ recvBuffer'.type = m4'
      BY <1>1, <2>2, MessageFields
    <2>4. TypedRest'
      BY <1>1, <1>6, <2>3 DEF ServiceInv, TypedRest, Starting
    <2>5. OneUnderWay'
      BY <1>1, <1>6, <2>1 DEF ServiceInv, OneUnderWay, Nowhere, Sent, BeingHandled, Answered
    <2>6. WritesGivenUp'
      <3>1. \A i \in 1 .. Len(stale') : i + 1 \in 1 .. Len(stale)
        BY <1>2, <2>1, <2>2
      <3>2. 1 \in 1 .. Len(stale)
        BY <1>2, <2>1
      <3> QED
        BY <1>1, <2>1, <2>2, <3>1, <3>2 DEF ServiceInv, WritesGivenUp, Given, Writing
    <2> QED
      BY <1>3, <1>4, <2>4, <2>5, <2>6 DEF ServiceInv
  <1> QED
    BY <1>5, <1>6

LEMMA HandleReadKeepsService ==
    ASSUME SdInv, ServiceInv, HandleRead
    PROVE  ServiceInv'
  <1>1. /\ UNCHANGED <<qM4, qA7, stale, attached, blocks, slipped, request, answer, client, kept>>
        /\ m4 = "READ" /\ m4' = "reply"
    BY DEF HandleRead, shared, link, a7
  <1>2. recvBuffer \in Messages /\ blocks[Block] \in SectorData /\ recvBuffer.type = "READ"
    <2>1. recvBuffer \in Messages /\ blocks \in [Blocks -> SectorData]
      BY DEF SdInv, TypedData, HandleRead, Handling
    <2> QED
      BY <1>1, <2>1, BlockIsOnCard DEF ServiceInv, TypedRest
  <1>3. /\ recvBuffer'.type = "READ"
        /\ recvBuffer'.drive = recvBuffer.drive /\ recvBuffer'.sector = recvBuffer.sector
        /\ recvBuffer'.success => recvBuffer'.data = blocks[Block]
    <2>1. CASE ~opened
      <3>1. recvBuffer' = [recvBuffer EXCEPT !.success = FALSE, !.data = Zeros]
        BY <2>1 DEF HandleRead
      <3> QED
        BY <1>2, <3>1, MessageWithFields, SectorDataFacts
    <2>2. CASE opened
      <3>1. PICK r \in ReadBlock(selected, blocks[Block]) :
                recvBuffer' = [recvBuffer EXCEPT !.success = r.ok,
                                                 !.data = IF r.ok THEN r.data ELSE Zeros]
        BY <2>2 DEF HandleRead
      <3>2. r.ok \in BOOLEAN /\ (r.ok => r.data = blocks[Block])
        BY ReadBlockReturns
      <3> DEFINE d == IF r.ok THEN r.data ELSE Zeros
      <3>3. d \in SectorData /\ (r.ok => d = blocks[Block])
        BY <1>2, <3>2, SectorDataFacts
      <3>4. recvBuffer' = [recvBuffer EXCEPT !.success = r.ok, !.data = d]
        BY <3>1
      <3> HIDE DEF d
      <3>5. /\ recvBuffer'.type = recvBuffer.type
            /\ recvBuffer'.drive = recvBuffer.drive /\ recvBuffer'.sector = recvBuffer.sector
            /\ recvBuffer'.success = r.ok /\ recvBuffer'.data = d
        BY <1>2, <3>2, <3>3, <3>4, MessageWithFields
      <3> QED
        BY <1>2, <3>3, <3>5
    <2> QED
      BY <2>1, <2>2
  <1>4. TypedRest'
    BY <1>1 DEF ServiceInv, TypedRest, Starting
  <1>5. OneUnderWay'
    <2> SUFFICES ASSUME ~slipped, attached
                 PROVE  client # "idle" /\ BeingHandled'
      BY <1>1 DEF ServiceInv, OneUnderWay, Nowhere, Sent, BeingHandled, Answered
    <2>1. client # "idle" /\ BeingHandled /\ IsRequest(recvBuffer)
      BY <1>1 DEF ServiceInv, OneUnderWay, Nowhere, Sent, BeingHandled, Answered, Handling
    <2>2. IsRequest(recvBuffer)'
      BY <1>1, <1>2, <1>3, <2>1 DEF IsRequest, Target
    <2>3. Answers(recvBuffer)'
      BY <1>1, <1>3, <2>2 DEF Answers, Block
    <2> QED
      BY <1>1, <2>1, <2>3 DEF BeingHandled
  <1>6. WritesGivenUp' /\ KeptOnCard' /\ AnswersAreRight'
    BY <1>1 DEF ServiceInv, WritesGivenUp, KeptOnCard, AnswersAreRight, Given, Writing
  <1> QED
    BY <1>4, <1>5, <1>6 DEF ServiceInv

LEMMA HandleWriteKeepsService ==
    ASSUME SectorsFit, SdInv, ServiceInv, HandleWrite
    PROVE  ServiceInv'
  <1>1. /\ UNCHANGED <<qM4, qA7, stale, attached, slipped, request, answer, client, kept>>
        /\ m4 = "WRITE" /\ m4' \in {"WRITE", "reply"}
    BY DEF HandleWrite, shared, link, a7
  <1>2. /\ recvBuffer \in Messages /\ recvBuffer.type = "WRITE"
        /\ recvBuffer.data \in SectorData /\ recvBuffer.success \in BOOLEAN
        /\ Block \in Blocks /\ blocks \in [Blocks -> SectorData]
    <2>1. recvBuffer \in Messages /\ blocks \in [Blocks -> SectorData]
      BY DEF SdInv, TypedData, HandleWrite, Handling
    <2> QED
      BY <1>1, <2>1, BlockIsOnCard, MessageFields DEF ServiceInv, TypedRest
  \* Another block keeps its content; a success means that this one has the new one.
  <1>3. /\ recvBuffer'.type = "WRITE" /\ recvBuffer'.data = recvBuffer.data
        /\ recvBuffer'.drive = recvBuffer.drive /\ recvBuffer'.sector = recvBuffer.sector
        /\ \A b \in Blocks \ {Block} : blocks'[b] = blocks[b]
        /\ m4' = "reply" /\ recvBuffer'.success => blocks'[Block] = recvBuffer.data
    <2>1. CASE ~opened
      <3>1. recvBuffer' = [recvBuffer EXCEPT !.success = FALSE] /\ UNCHANGED blocks
        BY <2>1 DEF HandleWrite
      <3> QED
        BY <1>2, <3>1, MessageWithSuccessFields
    <2>2. CASE opened
      <3>1. PICK w \in WriteBlock(selected, blocks[Block], recvBuffer.data) :
                LET retries == w.again /\ num_retries > 0
                IN /\ blocks' = [blocks EXCEPT ![Block] = w.content]
                   /\ m4' = IF retries THEN "WRITE" ELSE "reply"
                   /\ recvBuffer' = [recvBuffer EXCEPT !.success =
                                         IF retries THEN recvBuffer.success ELSE w.ok]
        BY <2>2 DEF HandleWrite
      <3>2. w.ok \in BOOLEAN /\ (w.ok => w.content = recvBuffer.data)
        BY WriteBlockReturns
      <3> DEFINE s == IF w.again /\ num_retries > 0 THEN recvBuffer.success ELSE w.ok
      <3>3. recvBuffer' = [recvBuffer EXCEPT !.success = s]
        BY <3>1
      <3>4. s \in BOOLEAN /\ (m4' = "reply" => s = w.ok)
        BY <1>2, <3>1, <3>2
      <3> HIDE DEF s
      <3>5. /\ recvBuffer'.type = recvBuffer.type /\ recvBuffer'.data = recvBuffer.data
            /\ recvBuffer'.drive = recvBuffer.drive /\ recvBuffer'.sector = recvBuffer.sector
            /\ recvBuffer'.success = s
        BY <1>2, <3>3, <3>4, MessageWithSuccessFields
      <3>6. blocks'[Block] = w.content /\ \A b \in Blocks \ {Block} : blocks'[b] = blocks[b]
        BY <1>2, <3>1
      <3> QED
        BY <1>2, <3>2, <3>4, <3>5, <3>6
    <2> QED
      BY <2>1, <2>2
  <1>4. TypedRest'
    BY <1>1, <1>3 DEF ServiceInv, TypedRest, Starting
  <1>5. OneUnderWay'
    <2> SUFFICES ASSUME ~slipped, attached
                 PROVE  client # "idle" /\ BeingHandled'
      BY <1>1 DEF ServiceInv, OneUnderWay, Nowhere, Sent, BeingHandled, Answered
    <2>1. client # "idle" /\ BeingHandled /\ IsRequest(recvBuffer)
      BY <1>1 DEF ServiceInv, OneUnderWay, Nowhere, Sent, BeingHandled, Answered, Handling
    <2>2. IsRequest(recvBuffer)'
      BY <1>1, <1>2, <1>3, <2>1 DEF IsRequest, Target
    <2>3. m4' = "reply" => Answers(recvBuffer)'
      BY <1>1, <1>3, <2>2 DEF Answers, Block
    <2> QED
      BY <1>1, <2>1, <2>2, <2>3 DEF BeingHandled
  <1>6. Given(recvBuffer)
    BY <1>1 DEF ServiceInv, WritesGivenUp
  <1>7. WritesGivenUp'
    BY <1>1, <1>2, <1>3, <1>6 DEF ServiceInv, WritesGivenUp, Given, Writing, Target
  <1>8. KeptOnCard'
    <2> SUFFICES ASSUME NEW t \in Drives \X Sectors, kept[t] # Unknown, ~Writing(t)
                 PROVE  blocks'[BlockOf(t[1], t[2])] = kept[t]
      BY <1>1 DEF KeptOnCard, Writing
    <2>1. t # Target(recvBuffer)
      BY <1>2, <1>6 DEF Given
    <2>2. BlockOf(t[1], t[2]) \in Blocks \ {Block}
      BY <1>2, <2>1, SameBlock DEF Block, Blocks
    <2>3. blocks[BlockOf(t[1], t[2])] = kept[t]
      BY DEF ServiceInv, KeptOnCard
    <2> QED
      BY <1>3, <2>2, <2>3
  <1>9. AnswersAreRight'
    BY <1>1 DEF ServiceInv, AnswersAreRight
  <1> QED
    BY <1>4, <1>5, <1>7, <1>8, <1>9 DEF ServiceInv

LEMMA ReplyKeepsService ==
    ASSUME SdInv, ServiceInv, Reply
    PROVE  ServiceInv'
  <1>1. /\ UNCHANGED <<qM4, stale, attached, blocks, slipped, request, answer, client, kept>>
        /\ m4 = "reply" /\ m4' = "invoke"
    BY DEF Reply, link, card, a7
  <1>2. recvBuffer \in Messages /\ qA7 \in Seq(Messages)
    BY DEF SdInv, TypedData, Reply, Handling
  <1>3. \/ attached /\ qA7' = Append(qA7, recvBuffer)
        \/ qA7' = qA7
    BY DEF Reply
  <1>4. TypedRest'
    BY <1>1, <1>3 DEF ServiceInv, TypedRest, Starting
  <1>5. OneUnderWay'
    <2>1. CASE ~attached
      BY <1>1, <1>3, <2>1 DEF ServiceInv, OneUnderWay, Nowhere, Sent, BeingHandled, Answered
    <2>2. CASE attached /\ ~slipped
      <3>1. client # "idle" /\ BeingHandled /\ Answers(recvBuffer)
        BY <1>1, <2>2 DEF ServiceInv, OneUnderWay, Nowhere, Sent, BeingHandled, Answered, Handling
      <3>2. CASE qA7' = qA7
        BY <1>1, <2>2, <3>1, <3>2 DEF OneUnderWay, Nowhere, BeingHandled, Handling
      <3>3. CASE qA7' = Append(qA7, recvBuffer)
        <4>1. Len(qA7') = 1 /\ qA7'[1] = recvBuffer
          BY <1>2, <3>1, <3>3 DEF BeingHandled
        <4>2. Answers(qA7[1])'
          BY <1>1, <3>1, <4>1 DEF Answers, IsRequest
        <4> QED
          BY <1>1, <2>2, <3>1, <4>1, <4>2 DEF OneUnderWay, Answered, BeingHandled, Handling
      <3> QED
        BY <1>3, <3>2, <3>3
    <2>3. CASE slipped
      BY <1>1, <2>3 DEF OneUnderWay
    <2> QED
      BY <2>1, <2>2, <2>3
  <1>6. WritesGivenUp' /\ KeptOnCard' /\ AnswersAreRight'
    BY <1>1 DEF ServiceInv, WritesGivenUp, KeptOnCard, AnswersAreRight, Given, Writing
  <1> QED
    BY <1>4, <1>5, <1>6 DEF ServiceInv

LEMMA StartsKeepsService ==
    ASSUME ServiceInv, A7Starts
    PROVE  ServiceInv'
  <1>1. /\ UNCHANGED <<m4, recvBuffer, blocks, kept>> /\ client = "off"
        /\ qM4' = << >> /\ qA7' = << >> /\ attached' = FALSE
        /\ stale' = IF attached THEN qM4 ELSE stale
        /\ client' = "idle" /\ slipped' = FALSE /\ request' = None /\ answer' = None
    BY DEF A7Starts, card, loop
  <1>2. TypedRest'
    BY <1>1 DEF ServiceInv, TypedRest
  <1>3. OneUnderWay' /\ AnswersAreRight'
    BY <1>1 DEF OneUnderWay, Nowhere, AnswersAreRight
  <1>4. WritesGivenUp' /\ KeptOnCard'
    BY <1>1 DEF ServiceInv, WritesGivenUp, KeptOnCard, Given, Writing
  <1> QED
    BY <1>2, <1>3, <1>4 DEF ServiceInv

\* The application gives up on its request: it stops, or 10 s are over.
LEMMA GiveUpKeepsService ==
    ASSUME SdInv, ServiceInv, A7Stops \/ TimeOut
    PROVE  ServiceInv'
  <1>1. /\ UNCHANGED <<m4, recvBuffer, blocks, qM4, qA7, attached, stale, request>>
        /\ kept' = IF client = "waiting" THEN WithoutPromise(request) ELSE kept
        /\ answer' = None /\ client' \in {"off", "idle"} /\ slipped' \in BOOLEAN
        /\ slipped' \/ (client' = "off" /\ slipped' = slipped)
    BY DEF ServiceInv, TypedRest, A7Stops, TimeOut, shared, link, card, loop
  <1>2. \A t \in Drives \X Sectors : kept'[t] = IF Writing(t) THEN Unknown ELSE kept[t]
    <2>1. CASE client = "waiting" /\ request.type = "WRITE"
      <3>1. kept' = [kept EXCEPT ![Target(request)] = Unknown]
        BY <1>1, <2>1 DEF WithoutPromise
      <3> QED
        BY <2>1, <3>1 DEF ServiceInv, TypedRest, Writing
    <2>2. CASE ~(client = "waiting" /\ request.type = "WRITE")
      BY <1>1, <2>2 DEF WithoutPromise, Writing
    <2> QED
      BY <2>1, <2>2
  <1>3. kept' \in [Drives \X Sectors -> SectorData \cup {Unknown}]
    BY <1>1 DEF ServiceInv, TypedRest, WithoutPromise
  <1>4. TypedRest'
    BY <1>1, <1>3 DEF ServiceInv, TypedRest
  <1>5. OneUnderWay' /\ AnswersAreRight'
    BY <1>1 DEF ServiceInv, OneUnderWay, Nowhere, Sent, BeingHandled, Answered, IsRequest,
       Answers, AnswersAreRight
  <1>6. KeptOnCard'
    BY <1>1, <1>2 DEF ServiceInv, KeptOnCard
  <1>7. WritesGivenUp'
    <2>1. ASSUME NEW m \in Messages, Given(m)
          PROVE  Given(m)'
      BY <1>2, <2>1, TargetFacts DEF Given
    <2> QED
      BY <1>1, <2>1 DEF ServiceInv, WritesGivenUp, SdInv, TypedData, Handling
  <1> QED
    BY <1>4, <1>5, <1>6, <1>7 DEF ServiceInv

LEMMA PublishKeepsService ==
    ASSUME SdInv, ServiceInv, NEW m \in Messages, Publish(m)
    PROVE  ServiceInv'
  <1>1. /\ UNCHANGED <<m4, recvBuffer, blocks, qA7, attached, stale, slipped, kept>>
        /\ client = "idle" /\ request' = m /\ answer' = None /\ m # None
        /\ \/ qM4' = Append(qM4, m) /\ client' = "waiting"
           \/ qM4' = qM4 /\ client' = "idle"
    BY SdAssumption DEF Publish, link, card, loop
  <1>2. qM4 \in Seq(Messages)
    BY DEF SdInv, TypedData
  <1>3. TypedRest'
    BY <1>1 DEF ServiceInv, TypedRest
  <1>4. OneUnderWay'
    <2> SUFFICES ASSUME ~slipped
                 PROVE  Nowhere' \/ (client' # "idle" /\ Sent')
      BY <1>1 DEF OneUnderWay
    <2>1. Nowhere
      BY <1>1 DEF ServiceInv, OneUnderWay
    <2>2. CASE qM4' = qM4
      BY <1>1, <2>1, <2>2 DEF Nowhere
    <2>3. CASE qM4' = Append(qM4, m) /\ client' = "waiting"
      <3>1. qM4' = <<m>>
        BY <2>1, <2>3 DEF Nowhere
      <3> QED
        BY <1>1, <2>1, <2>3, <3>1 DEF Nowhere, Sent
    <2> QED
      BY <1>1, <2>2, <2>3
  <1>5. KeptOnCard' /\ AnswersAreRight'
    BY <1>1 DEF ServiceInv, KeptOnCard, Writing, AnswersAreRight
  <1>6. WritesGivenUp'
    <2>1. ASSUME NEW n, Given(n)
          PROVE  Given(n)'
      BY <1>1, <2>1 DEF Given, Writing
    <2>2. client' = "waiting" => Given(m)'
      BY <1>1 DEF Given, Writing
    <2>3. \A i \in 1 .. Len(qM4') : Given(qM4[i])' \/ (client' = "waiting" /\ qM4'[i] = m)
      BY <1>1, <1>2, <2>1 DEF ServiceInv, WritesGivenUp, Given, Writing
    <2>4. \A i \in 1 .. Len(qM4') : Given(qM4[i])'
      BY <2>2, <2>3 DEF Given, Writing
    <2> QED
      BY <1>1, <2>1, <2>4 DEF ServiceInv, WritesGivenUp
  <1> QED
    BY <1>3, <1>4, <1>5, <1>6 DEF ServiceInv

\* The message that is taken; if it is expected, it is the only one.
LEMMA AnswerTaken ==
    ASSUME SdInv, ServiceInv, TakeAnswer
    PROVE  /\ attached /\ answer' \in Messages /\ answer' # None
           /\ ~slipped => Answered /\ Answers(answer') /\ qA7' = << >>
  <1>1. client = "waiting" /\ CanRead(toA7) /\ answer' = Head(qA7) /\ qA7' = Tail(qA7)
    BY DEF TakeAnswer
  <1>2. qA7 \in Seq(Messages) /\ qA7 # << >>
    <2>1. qA7 \in Seq(Messages) /\ RingHolds(toA7, qA7)
      BY DEF SdInv, TypedData, RingsHoldMessages
    <2> QED
      BY <1>1, <2>1, ReadRemoves
  <1>3. answer' = qA7[1] /\ answer' \in Messages /\ answer' # None
    BY <1>1, <1>2, SdAssumption
  <1>4. attached
    BY <1>2 DEF ServiceInv, TypedRest
  <1>5. ASSUME ~slipped
        PROVE  Answered /\ Answers(answer') /\ qA7' = << >>
    <2>1. Answered
      BY <1>2, <1>5 DEF ServiceInv, OneUnderWay, Nowhere, Sent, BeingHandled
    <2>2. qA7' = << >>
      BY <1>1, <1>2, <2>1 DEF Answered
    <2> QED
      BY <1>3, <2>1, <2>2 DEF Answered
  <1> QED
    BY <1>3, <1>4, <1>5

LEMMA TakeAnswerKeepsService ==
    ASSUME SdInv, ServiceInv, TakeAnswer
    PROVE  ServiceInv'
  <1>1. /\ UNCHANGED <<m4, recvBuffer, blocks, qM4, attached, stale, request, slipped>>
        /\ client = "waiting" /\ client' = "idle" /\ CanRead(toA7)
        /\ answer' = Head(qA7) /\ qA7' = Tail(qA7)
        /\ kept' = IF request.type = "WRITE"
                   THEN [kept EXCEPT ![Target(request)] =
                            IF answer'.success /\ ~slipped THEN request.data ELSE Unknown]
                   ELSE kept
    BY DEF TakeAnswer, link, card, loop
  <1>2. /\ request \in Messages /\ request # None
        /\ kept \in [Drives \X Sectors -> SectorData \cup {Unknown}]
        /\ qM4 \in Seq(Messages)
    BY <1>1 DEF SdInv, TypedData, ServiceInv, TypedRest
  \* An answer that is expected is the only message.
  <1>3. /\ attached /\ answer' \in Messages /\ answer' # None
        /\ ~slipped => Answered /\ Answers(answer') /\ qA7' = << >>
    BY AnswerTaken
  <1>4. stale = << >>
    BY <1>3 DEF ServiceInv, TypedRest
  <1>5. Target(request) \in Drives \X Sectors /\ request.data \in SectorData
    BY <1>2, TargetFacts, MessageFields
  <1> DEFINE content == IF answer'.success /\ ~slipped THEN request.data ELSE Unknown
  <1>6. \A t \in Drives \X Sectors : kept'[t] = IF Writing(t) THEN content ELSE kept[t]
    <2>1. CASE request.type = "WRITE"
      <3>1. kept' = [kept EXCEPT ![Target(request)] = content]
        BY <1>1, <2>1
      <3> HIDE DEF content
      <3> QED
        BY <1>1, <1>2, <1>5, <2>1, <3>1 DEF Writing
    <2>2. CASE request.type # "WRITE"
      BY <1>1, <2>2 DEF Writing
    <2> QED
      BY <2>1, <2>2
  <1>7. TypedRest'
    <2>1. content \in SectorData \cup {Unknown}
      BY <1>5
    <2>2. kept' \in [Drives \X Sectors -> SectorData \cup {Unknown}]
      <3>1. kept' = IF request.type = "WRITE"
                    THEN [kept EXCEPT ![Target(request)] = content] ELSE kept
        BY <1>1
      <3> HIDE DEF content
      <3> QED
        BY <1>2, <2>1, <3>1
    <2> QED
      BY <1>1, <1>2, <1>3, <1>4, <2>2 DEF ServiceInv, TypedRest
  <1>8. OneUnderWay'
    BY <1>1, <1>3 DEF OneUnderWay, Nowhere, Answered
  <1>9. ~slipped /\ answer'.success =>
             blocks[BlockOf(Target(request)[1], Target(request)[2])] = answer'.data
    <2> SUFFICES ASSUME ~slipped, answer'.success
                 PROVE  blocks[BlockOf(Target(request)[1], Target(request)[2])] = answer'.data
      OBVIOUS
    <2>1. Target(answer') = Target(request)
      BY <1>3 DEF Answers, IsRequest
    <2>2. Target(answer')[1] = answer'.drive /\ Target(answer')[2] = answer'.sector
      BY <1>3, TargetFacts
    <2> QED
      BY <1>3, <2>1, <2>2 DEF Answers
  <1>10. KeptOnCard'
    <2> SUFFICES ASSUME NEW t \in Drives \X Sectors, kept'[t] # Unknown
                 PROVE  blocks[BlockOf(t[1], t[2])] = kept'[t]
      BY <1>1 DEF KeptOnCard
    <2>1. CASE Writing(t)
      <3>1. ~slipped /\ answer'.success /\ kept'[t] = request.data
        BY <1>6, <2>1
      <3>2. answer'.data = request.data /\ t = Target(request)
        BY <1>3, <2>1, <3>1 DEF Answers, IsRequest, Writing
      <3> QED
        BY <1>9, <3>1, <3>2
    <2>2. CASE ~Writing(t)
      BY <1>6, <2>2 DEF ServiceInv, KeptOnCard
    <2> QED
      BY <2>1, <2>2
  <1>11. WritesGivenUp'
    <2>1. CASE slipped
      <3>1. ASSUME NEW n \in Messages, Given(n)
            PROVE  Given(n)'
        BY <1>6, <2>1, <3>1, TargetFacts DEF Given
      <3>2. \A i \in 1 .. Len(qM4) : qM4[i] \in Messages /\ Given(qM4[i])
        BY <1>2 DEF ServiceInv, WritesGivenUp
      <3>3. m4 = "WRITE" => recvBuffer \in Messages /\ Given(recvBuffer)
        BY DEF ServiceInv, WritesGivenUp, SdInv, TypedData, Handling
      <3> QED
        BY <1>1, <1>4, <3>1, <3>2, <3>3 DEF WritesGivenUp
    <2>2. CASE ~slipped
      BY <1>1, <1>3, <1>4, <2>2 DEF WritesGivenUp, Answered, Handling
    <2> QED
      BY <2>1, <2>2
  <1>12. AnswersAreRight'
    <2> SUFFICES ASSUME ~slipped
                 PROVE  /\ answer'.type = request.type
                        /\ Target(answer') = Target(request)
                        /\ answer'.type = "READ" /\ answer'.success =>
                               kept'[Target(request)] \in {Unknown, answer'.data}
      BY <1>1 DEF AnswersAreRight, Target
    <2>1. answer'.type = request.type /\ Target(answer') = Target(request)
      BY <1>3 DEF Answers, IsRequest
    <2>2. ASSUME request.type = "READ", answer'.success
          PROVE  kept'[Target(request)] \in {Unknown, answer'.data}
      <3>1. ~Writing(Target(request))
        BY <2>2 DEF Writing
      <3>2. kept[Target(request)] \in {Unknown, answer'.data}
        BY <1>5, <1>9, <2>2, <3>1 DEF ServiceInv, KeptOnCard
      <3> QED
        BY <1>5, <1>6, <3>1, <3>2
    <2> QED
      BY <2>1, <2>2
  <1> QED
    BY <1>7, <1>8, <1>10, <1>11, <1>12 DEF ServiceInv

LEMMA ServiceStep ==
    ASSUME SectorsFit, SdInv, ServiceInv, [Next]_vars
    PROVE  ServiceInv'
  <1>1. CASE M4Step
    BY <1>1, StartKeepsService, LoopKeepsService, ReceiveKeepsService,
       HandleReadKeepsService, HandleWriteKeepsService, ReplyKeepsService DEF M4Step
  <1>2. CASE \/ \E port \in {MSG_SENT, MSG_RECV} : MsgAvailable(port)
             \/ TimerExpires \/ ButtonA \/ EndOfImage
    BY <1>2, LoopKeepsService
  <1>3. CASE A7Starts \/ A7Stops \/ TakeAnswer \/ TimeOut
    BY <1>3, StartsKeepsService, GiveUpKeepsService, TakeAnswerKeepsService
  <1>4. CASE \/ \E t \in EmulatorSectors : ReadSector(t[1], t[2])
             \/ \E t \in EmulatorSectors, c \in Contents : WriteSector(t[1], t[2], c)
             \/ FormatSector
    BY <1>4, RequestIsPublished, PublishKeepsService
  <1>5. CASE UNCHANGED vars
    BY <1>5, QuietKeeps DEF vars, shared, link, card, loop, a7, Quiet
  <1> QED
    BY <1>1, <1>2, <1>3, <1>4, <1>5 DEF Next

LEMMA ServiceInvariant ==
    ASSUME SectorsFit
    PROVE  Spec => []ServiceInv
  <1>1. SdInv /\ ServiceInv /\ [Next]_vars => ServiceInv'
    BY ServiceStep
  <1> QED
    BY <1>1, ServiceInit, SdInvariant, PTL DEF Spec

(***************************************************************************)
(* An answer is to the last request and its data is what is promised of    *)
(* the sector, for as long as the application has not given up on one in   *)
(* this run; restarts of the application and requests left over from       *)
(* earlier runs do not change that.                                        *)
(***************************************************************************)
THEOREM SpecAnswersAreRight ==
    ASSUME SectorsFit
    PROVE  Spec => []AnswersAreRight
  <1>1. ServiceInv => AnswersAreRight
    BY DEF ServiceInv
  <1> QED
    BY <1>1, ServiceInvariant, PTL

-----------------------------------------------------------------------------
(***************************************************************************)
(* WHO HEARS OF A REQUEST.  The node is marked exactly while it is on the  *)
(* list, so that a signal is only ever dropped for one that is still to    *)
(* be acted upon; and as long as the application waits, its message is in  *)
(* one of the rings or being handled.                                      *)
(***************************************************************************)
\* The rings are large enough for one message.
OneFits == PAYLOAD <= RB_MAX_PAYLOAD_LEN /\ BLOCK + RB_ALIGNMENT <= CAPACITY

Signalled ==
    \/ MSG_RECV \in irq \/ callbacks \/ m4 \in {"handle", "faulted"}
    \/ attached /\ m4 = "receive"

NotLost == client = "waiting" /\ ~slipped => ~Nowhere \/ m4 = "faulted"

SentIsSignalled ==
    client = "waiting" /\ ~slipped /\ (descriptors \/ (attached /\ Sent)) => Signalled

HeardInv ==
    /\ rx \in {"none", "setup", "open"}
    /\ enqueued = callbacks /\ callbacks \in BOOLEAN
    /\ descriptors => ~attached
    /\ client = "waiting" => OneFits
    /\ NotLost
    /\ SentIsSignalled

LEMMA AtLeastOnce ==
    ASSUME NEW a \in Nat, NEW n \in Nat, n >= 1
    PROVE  a <= n * a
  <1>1. n * a = a * (n - 1) + a
    OBVIOUS
  <1>2. a * (n - 1) \in Nat
    BY Times
  <1> QED
    BY <1>1, <1>2

\* A ring that is not empty has a message to read, an empty one has room for one.
LEMMA HeldIsReadable ==
    ASSUME NEW rb, NEW queue \in Seq(Messages), RingHolds(rb, queue), queue # << >>
    PROVE  CanRead(rb)
  <1>1. /\ Len(queue) \in Nat /\ Len(queue) >= 1
        /\ AvailData(rb) = Len(queue) * SLOT /\ rb.readIndex \in Nat
        /\ IndexOK(rb.readIndex) /\ IndexOK(rb.writeIndex)
    BY DEF RingHolds
  <1>2. SLOT \in Nat /\ BLOCK \in Nat /\ BLOCK <= SLOT /\ SIZE_FIELD <= BLOCK
    BY Slot, Sizes DEF BLOCK
  <1>3. SLOT <= Len(queue) * SLOT
    BY <1>1, <1>2, AtLeastOnce
  <1>4. SIZE_FIELD <= AvailData(rb) /\ BLOCK <= AvailData(rb)
    BY <1>1, <1>2, <1>3, Sizes
  <1>5. SIZE_FIELD <= CAPACITY - rb.readIndex
    <2> DEFINE left == CAPACITY - rb.readIndex
    <2>1. left \in Nat \ {0} /\ left % RB_ALIGNMENT = 0
      BY <1>1, Sizes, AlignedDifference DEF IndexOK
    <2>2. RB_ALIGNMENT <= left
      <3> HIDE DEF left
      <3>1. CASE left < RB_ALIGNMENT
        <4>1. left % RB_ALIGNMENT = left
          BY <2>1, <3>1, Sizes
        <4> QED
          BY <2>1, <4>1
      <3> QED
        BY <2>1, <3>1, Sizes
    <2> QED
      BY <2>1, <2>2, Sizes, SocketAssumption
  <1> QED
    BY <1>1, <1>4, <1>5, SocketAssumption DEF CanRead

LEMMA EmptyIsWritable ==
    ASSUME NEW rb, RingHolds(rb, << >>), OneFits
    PROVE  CanWrite(rb)
  <1>1. SLOT \in Nat
    BY Slot
  <1>2. AvailData(rb) = 0
    BY <1>1 DEF RingHolds
  <1>3. AvailSpace(rb) = CAPACITY
    BY <1>2, Indices, Sizes
  <1> QED
    BY <1>3, Sizes DEF CanWrite, OneFits, RingHolds, BLOCK

LEMMA WritableIsLarge ==
    ASSUME NEW rb, NEW queue, RingHolds(rb, queue), CanWrite(rb)
    PROVE  OneFits
  <1>1. AvailData(rb) \in Nat /\ AvailSpace(rb) = CAPACITY - AvailData(rb)
    BY Indices, Sizes
  <1> QED
    BY <1>1, Sizes DEF CanWrite, OneFits, BLOCK

\* The steps that leave the rings, the client and the callbacks as they are.
Unheard ==
    /\ UNCHANGED <<qM4, qA7, irq, attached, descriptors, enqueued, callbacks, client,
                   slipped, request>>
    /\ rx' = rx \/ rx' \in {"setup", "open"}

LEMMA UnheardKeeps ==
    ASSUME HeardInv, Unheard,
           \/ m4' = m4
           \/ m4' \in Handling /\ m4 \in Handling
           \/ m4 \notin Handling \cup {"handle", "receive", "faulted"}
    PROVE  HeardInv'
  <1>1. NotLost'
    BY DEF HeardInv, NotLost, Nowhere, Unheard, Handling
  <1>2. SentIsSignalled'
    BY DEF HeardInv, SentIsSignalled, Signalled, Sent, Unheard, Handling
  <1> QED
    BY <1>1, <1>2 DEF HeardInv, Unheard

\* Nor do the steps after which the application does not wait.
LEMMA NotWaitingKeeps ==
    ASSUME HeardInv, client' # "waiting", UNCHANGED <<enqueued, callbacks, rx>>,
           descriptors' => ~attached'
    PROVE  HeardInv'
  BY DEF HeardInv, NotLost, SentIsSignalled

LEMMA StartKeepsHeard ==
    ASSUME HeardInv,
           \/ InitialBurst \/ GoIdleState \/ SendIfCond \/ SendOpCond \/ OpenCard
           \/ Negotiate \/ SetupInterrupts \/ SetCallback \/ Wfi
    PROVE  HeardInv'
  <1>1. m4 \notin Handling \cup {"handle", "receive", "faulted"}
    BY DEF InitialBurst, GoIdleState, SendIfCond, SendOpCond, OpenCard, Negotiate,
       SetupInterrupts, SetCallback, Wfi, Handling
  <1>2. CASE InitialBurst \/ GoIdleState \/ SendIfCond \/ SendOpCond
    BY <1>1, <1>2, UnheardKeeps DEF InitialBurst, GoIdleState, SendIfCond, SendOpCond,
       Booting, Unheard, shared, link, a7
  <1>3. CASE OpenCard \/ SetupInterrupts \/ SetCallback \/ Wfi
    BY <1>1, <1>3, UnheardKeeps DEF OpenCard, SetupInterrupts, SetCallback, Wfi, Unheard,
       shared, link, loop, a7
  <1>4. CASE Negotiate
    <2>1. /\ UNCHANGED <<qM4, qA7, irq, enqueued, callbacks, client, slipped, request, rx>>
          /\ descriptors /\ ~descriptors' /\ m4 = "negotiate"
          /\ attached' \in {TRUE, attached} /\ m4' \in {"setup", "sleep"}
      BY <1>4 DEF Negotiate, shared, a7
    <2>2. ~attached /\ (client = "waiting" /\ ~slipped => MSG_RECV \in irq \/ callbacks)
      BY <2>1 DEF HeardInv, SentIsSignalled, Signalled
    <2>3. NotLost' /\ SentIsSignalled'
      BY <2>1, <2>2 DEF HeardInv, NotLost, Nowhere, SentIsSignalled, Signalled, Handling
    <2> QED
      BY <2>1, <2>3 DEF HeardInv
  <1> QED
    BY <1>2, <1>3, <1>4

\* The interrupt, the timer and the list of callbacks.
LEMMA LoopKeepsHeard ==
    ASSUME HeardInv,
           \/ \E port \in {MSG_SENT, MSG_RECV} : MsgAvailable(port)
           \/ TimerExpires \/ InvokeCallbacks
    PROVE  HeardInv'
  <1>1. ASSUME NEW port \in {MSG_SENT, MSG_RECV}, MsgAvailable(port)
        PROVE  HeardInv'
    <2>1. /\ UNCHANGED <<qM4, qA7, attached, descriptors, client, slipped, request, rx>>
          /\ irq' = irq \ {port} /\ m4 # "faulted"
          /\ m4' = "faulted" \/ m4' = m4 \/ (m4 = "wfi" /\ m4' = "invoke")
      BY <1>1 DEF MsgAvailable, link, a7
    <2>2. enqueued' = callbacks' /\ callbacks' \in BOOLEAN /\ (callbacks => callbacks')
      BY <1>1 DEF MsgAvailable, HeardInv
    <2>3. port = MSG_RECV => m4' = "faulted" \/ callbacks'
      BY <1>1 DEF MsgAvailable, HeardInv
    <2>4. MSG_RECV \in irq => MSG_RECV \in irq' \/ m4' = "faulted" \/ callbacks'
      BY <2>1, <2>3
    <2>5. NotLost'
      BY <2>1 DEF HeardInv, NotLost, Nowhere, Handling
    <2>6. SentIsSignalled'
      BY <2>1, <2>2, <2>4 DEF HeardInv, SentIsSignalled, Signalled, Sent, Handling
    <2> QED
      BY <2>1, <2>2, <2>5, <2>6 DEF HeardInv
  <1>2. CASE TimerExpires
    BY <1>2, UnheardKeeps DEF TimerExpires, Unheard, shared, link, a7, Handling
  <1>3. CASE InvokeCallbacks
    <2>1. /\ UNCHANGED <<qM4, qA7, irq, attached, descriptors, client, slipped, request, rx>>
          /\ m4 = "invoke" /\ ~callbacks'
          /\ enqueued' = IF callbacks THEN FALSE ELSE enqueued
          /\ m4' = IF callbacks THEN "handle" ELSE "sleep"
      BY <1>3 DEF InvokeCallbacks, shared, link, a7
    <2>2. enqueued' = callbacks' /\ callbacks' \in BOOLEAN
      BY <1>3 DEF HeardInv, InvokeCallbacks
    <2>3. NotLost' /\ SentIsSignalled'
      BY <2>1 DEF HeardInv, NotLost, Nowhere, SentIsSignalled, Signalled, Sent, Handling
    <2> QED
      BY <2>1, <2>2, <2>3 DEF HeardInv
  <1> QED
    BY <1>1, <1>2, <1>3

\* The handler.
LEMMA HandlerKeepsHeard ==
    ASSUME SdInv, ServiceInv, HeardInv,
           CheckNegotiation \/ NothingToReceive \/ Receive \/ HandleRead \/ HandleWrite
    PROVE  HeardInv'
  <1>1. CASE CheckNegotiation
    <2>1. /\ UNCHANGED <<qM4, qA7, irq, enqueued, callbacks, client, slipped, request, rx>>
          /\ m4 = "handle" /\ ~descriptors'
          /\ \/ m4' = "receive" /\ attached' \in {TRUE, attached}
             \/ m4' = "invoke" /\ UNCHANGED attached /\ descriptors
      BY <1>1 DEF CheckNegotiation, shared, a7
    <2>2. NotLost'
      BY <2>1 DEF HeardInv, NotLost, Nowhere, Handling
    <2>3. CASE m4' = "receive"
      BY <2>1, <2>2, <2>3 DEF HeardInv, SentIsSignalled, Signalled
    <2>4. CASE UNCHANGED attached /\ descriptors
      BY <2>1, <2>2, <2>4 DEF HeardInv, SentIsSignalled
    <2> QED
      BY <2>1, <2>3, <2>4
  <1>2. CASE NothingToReceive
    <2>1. /\ UNCHANGED <<qM4, qA7, irq, attached, descriptors, enqueued, callbacks, client,
                         slipped, request, rx>>
          /\ m4 = "receive" /\ m4' = "invoke" /\ (attached => ~CanRead(toM4))
      BY <1>2 DEF NothingToReceive, shared, link, a7
    <2>2. attached => qM4 = << >>
      BY <2>1, HeldIsReadable DEF SdInv, TypedData, RingsHoldMessages
    <2>3. NotLost' /\ SentIsSignalled'
      BY <2>1, <2>2 DEF HeardInv, NotLost, Nowhere, SentIsSignalled, Signalled, Sent, Handling
    <2> QED
      BY <2>1, <2>3 DEF HeardInv
  <1>3. CASE Receive
    <2>1. /\ UNCHANGED <<qA7, irq, attached, descriptors, enqueued, callbacks, client,
                         slipped, request, rx>>
          /\ m4 = "receive" /\ (~attached => qM4' = qM4)
      BY <1>3 DEF Receive, card, a7
    <2>2. attached => m4' \in Handling /\ (Sent => qM4' = << >>)
      <3> SUFFICES ASSUME attached PROVE m4' \in Handling /\ (Sent => qM4' = << >>)
        OBVIOUS
      <3>1. /\ CanRead(toM4) /\ qM4' = Tail(qM4) /\ m4' = Head(qM4).type
        BY <1>3 DEF Receive, ServiceInv, TypedRest
      <3>2. qM4 \in Seq(Messages) /\ qM4 # << >>
        BY <3>1, ReadRemoves DEF SdInv, TypedData, RingsHoldMessages
      <3>3. Head(qM4) \in Messages
        BY <3>2, HeadTail
      <3> QED
        BY <3>1, <3>3, MessageFields DEF Handling, Sent
    <2>3. NotLost'
      BY <2>1, <2>2 DEF HeardInv, NotLost, Nowhere, Handling
    <2>4. SentIsSignalled'
      BY <2>1, <2>2 DEF HeardInv, SentIsSignalled, Signalled, Sent, Handling
    <2> QED
      BY <2>1, <2>3, <2>4 DEF HeardInv
  <1>4. CASE HandleRead \/ HandleWrite
    BY <1>4, UnheardKeeps DEF HandleRead, HandleWrite, Unheard, shared, link, a7, Handling
  <1> QED
    BY <1>1, <1>2, <1>3, <1>4

\* An answer goes into an empty ring, which has room for it.
LEMMA ReplyKeepsHeard ==
    ASSUME SdInv, ServiceInv, HeardInv, Reply
    PROVE  HeardInv'
  <1>1. /\ UNCHANGED <<qM4, irq, attached, descriptors, enqueued, callbacks, client,
                       slipped, request, rx>>
        /\ m4 = "reply" /\ m4' = "invoke" /\ (~attached => qA7' = qA7)
    BY DEF Reply, link, card, a7
  <1>2. NotLost'
    <2> SUFFICES ASSUME client = "waiting", ~slipped PROVE ~Nowhere'
      BY <1>1 DEF NotLost
    <2>1. ~Nowhere
      BY <1>1 DEF HeardInv, NotLost
    <2>2. CASE attached
      <3>1. qA7 = << >>
        BY <1>1, <2>1, <2>2 DEF ServiceInv, OneUnderWay, Sent, BeingHandled, Answered, Handling
      <3>2. CanWrite(toA7)
        BY <3>1, EmptyIsWritable DEF HeardInv, SdInv, RingsHoldMessages
      <3>3. qA7' = Append(qA7, recvBuffer)
        BY <2>2, <3>2 DEF Reply
      <3>4. qA7' # << >>
        BY <3>1, <3>3
      <3> QED
        BY <3>4 DEF Nowhere
    <2>3. CASE ~attached
      BY <1>1, <2>1, <2>3 DEF Nowhere
    <2> QED
      BY <2>2, <2>3
  <1>3. attached /\ ~slipped => ~Sent'
    BY <1>1 DEF ServiceInv, OneUnderWay, Nowhere, Sent, BeingHandled, Answered, Handling
  <1>4. SentIsSignalled'
    BY <1>1, <1>3 DEF HeardInv, SentIsSignalled, Signalled
  <1> QED
    BY <1>1, <1>2, <1>4 DEF HeardInv

LEMMA PublishKeepsHeard ==
    ASSUME SdInv, HeardInv, NEW m \in Messages, Publish(m)
    PROVE  HeardInv'
  <1>1. UNCHANGED <<attached, descriptors, enqueued, callbacks, rx>>
    BY DEF Publish, link, loop
  <1>2. CASE CanWrite(toM4)
    <2>1. qM4' = Append(qM4, m) /\ MSG_RECV \in irq'
      BY <1>2 DEF Publish
    <2>2. qM4' # << >> /\ OneFits
      BY <1>2, <2>1, WritableIsLarge DEF SdInv, TypedData, RingsHoldMessages
    <2> QED
      BY <1>1, <2>1, <2>2 DEF HeardInv, NotLost, Nowhere, SentIsSignalled, Signalled
  <1>3. CASE ~CanWrite(toM4)
    BY <1>1, <1>3, NotWaitingKeeps DEF Publish, HeardInv
  <1> QED
    BY <1>2, <1>3

LEMMA HeardStep ==
    ASSUME SdInv, ServiceInv, HeardInv, [Next]_vars
    PROVE  HeardInv'
  <1>1. CASE M4Step
    BY <1>1, StartKeepsHeard, LoopKeepsHeard, HandlerKeepsHeard, ReplyKeepsHeard DEF M4Step
  <1>2. CASE (\E port \in {MSG_SENT, MSG_RECV} : MsgAvailable(port)) \/ TimerExpires
    BY <1>2, LoopKeepsHeard
  <1>3. CASE A7Starts \/ A7Stops \/ TakeAnswer \/ TimeOut
    BY <1>3, NotWaitingKeeps DEF A7Starts, A7Stops, TakeAnswer, TimeOut, HeardInv, loop, link
  <1>4. CASE \/ \E t \in EmulatorSectors : ReadSector(t[1], t[2])
             \/ \E t \in EmulatorSectors, c \in Contents : WriteSector(t[1], t[2], c)
             \/ FormatSector
    BY <1>4, RequestIsPublished, PublishKeepsHeard
  <1>5. CASE ButtonA \/ EndOfImage \/ UNCHANGED vars
    BY <1>5, UnheardKeeps DEF ButtonA, EndOfImage, vars, shared, link, card, loop, a7, Unheard
  <1> QED
    BY <1>1, <1>2, <1>3, <1>4, <1>5 DEF Next

(***************************************************************************)
(* While the application waits for an answer it has not given up on, and   *)
(* its rings are known or still to be found, its request is signalled,     *)
(* being handled or answered.                                              *)
(***************************************************************************)
THEOREM SpecRequestIsHeard ==
    ASSUME SectorsFit
    PROVE  Spec => []RequestIsHeard
  <1>1. Init => HeardInv
    BY DEF Init, HeardInv, NotLost, SentIsSignalled
  <1>2. SdInv /\ ServiceInv /\ HeardInv /\ [Next]_vars => HeardInv'
    BY HeardStep
  <1>3. SdInv /\ ServiceInv /\ HeardInv => RequestIsHeard
    <2> SUFFICES ASSUME SdInv, ServiceInv, HeardInv, client = "waiting", ~slipped,
                        attached \/ descriptors
                 PROVE  Signalled \/ (attached /\ (recvBuffer # None \/ qA7 # << >>))
      BY DEF RequestIsHeard, Signalled
    <2>1. ~Nowhere \/ m4 = "faulted"
      BY DEF HeardInv, NotLost
    <2>2. CASE Sent \/ m4 = "faulted"
      BY <2>2 DEF HeardInv, SentIsSignalled, Signalled
    <2>3. CASE BeingHandled
      BY <2>3, SdAssumption DEF BeingHandled, SdInv, TypedData, Handling
    <2>4. CASE Answered
      BY <2>4 DEF Answered
    <2> QED
      BY <2>1, <2>2, <2>3, <2>4 DEF ServiceInv, OneUnderWay
  <1> QED
    BY <1>1, <1>2, <1>3, SdInvariant, ServiceInvariant, PTL DEF Spec

-----------------------------------------------------------------------------
(***************************************************************************)
(* WHAT A VERIFICATION SAYS.  While write_drive verifies, the sectors it   *)
(* has come past are on the card, as long as every answer was one, and no  *)
(* write is under way that could change them.                              *)
(***************************************************************************)
OnCard(s) == CalCrc(blocks[BlockOf(FORMAT_DRIVE, s)]) = CalCrc(Image[s])

Phases == {"ready", "write", "verify", "passed", "failed"}

Formats == [phase : Phases, sector : Nat, success : BOOLEAN, checked : BOOLEAN]

Formatting ==
    /\ format \in Formats
    /\ format.phase # "ready" => program = "formatter"
    /\ program = "formatter" /\ client = "waiting" =>
          /\ format.phase \in {"write", "verify"}
          /\ format.sector \in DOMAIN Image
          /\ Target(request) = <<FORMAT_DRIVE, format.sector>>
          /\ request.type = IF format.phase = "write" THEN "WRITE" ELSE "READ"
    /\ format.phase = "passed" /\ format.checked =>
          format.success /\ format.sector \notin DOMAIN Image

\* The verification has come past at least one sector without a doubt.
Certain ==
    /\ format.phase \in {"verify", "passed"}
    /\ format.success /\ format.checked /\ ~slipped
    /\ format.sector > 0

Verified ==
    Certain => /\ attached
               /\ request # None /\ request.type = "READ"
               /\ \A s \in DOMAIN Image : s < format.sector => OnCard(s)

FormatInv == Formatting /\ Verified

\* The only step that changes the card.
LEMMA OnlyWritesChange ==
    ASSUME SdInv, ServiceInv, FormatInv, Certain, [Next]_vars
    PROVE  blocks' = blocks
  <1>1. ~HandleWrite
    <2> SUFFICES ASSUME HandleWrite PROVE FALSE
      OBVIOUS
    <2>1. m4 = "WRITE" /\ recvBuffer.type = "WRITE"
      BY DEF HandleWrite, ServiceInv, TypedRest
    <2>2. attached /\ ~slipped /\ request.type = "READ"
      BY DEF FormatInv, Verified, Certain
    <2>3. BeingHandled /\ IsRequest(recvBuffer)
      BY <2>1, <2>2 DEF ServiceInv, OneUnderWay, Nowhere, Sent, BeingHandled, Answered, Handling
    <2> QED
      BY <2>1, <2>2, <2>3 DEF IsRequest
  <1>2. CASE \/ InitialBurst \/ GoIdleState \/ SendIfCond \/ SendOpCond \/ OpenCard
             \/ Negotiate \/ SetupInterrupts \/ SetCallback
    BY <1>2 DEF InitialBurst, GoIdleState, SendIfCond, SendOpCond, OpenCard, Booting,
       Negotiate, SetupInterrupts, SetCallback, card
  <1>3. CASE \/ Wfi \/ InvokeCallbacks \/ CheckNegotiation \/ Receive \/ NothingToReceive
             \/ HandleRead \/ Reply \/ TimerExpires
             \/ \E port \in {MSG_SENT, MSG_RECV} : MsgAvailable(port)
    BY <1>3 DEF Wfi, InvokeCallbacks, CheckNegotiation, Receive, NothingToReceive, HandleRead,
       Reply, TimerExpires, MsgAvailable, card
  <1>4. CASE A7Starts \/ A7Stops \/ TakeAnswer \/ TimeOut \/ ButtonA \/ EndOfImage
    BY <1>4 DEF A7Starts, A7Stops, TakeAnswer, TimeOut, ButtonA, EndOfImage, card
  <1>5. CASE \/ \E t \in EmulatorSectors : ReadSector(t[1], t[2])
             \/ \E t \in EmulatorSectors, c \in Contents : WriteSector(t[1], t[2], c)
             \/ FormatSector
    BY <1>5, RequestIsPublished DEF Publish, card
  <1>6. CASE UNCHANGED vars
    BY <1>6 DEF vars, card
  <1> QED
    BY <1>1, <1>2, <1>3, <1>4, <1>5, <1>6 DEF Next, M4Step

LEMMA FormatPhase ==
    ASSUME NEW f \in Formats, NEW p \in Phases
    PROVE  LET n == [f EXCEPT !.phase = p]
           IN  /\ n \in Formats /\ n.phase = p /\ n.sector = f.sector
               /\ n.success = f.success /\ n.checked = f.checked
  BY DEF Formats

LEMMA FormatPhaseSector ==
    ASSUME NEW f \in Formats, NEW p \in Phases
    PROVE  LET n == [f EXCEPT !.phase = p, !.sector = 0]
           IN  n \in Formats /\ n.phase = p /\ n.sector = 0
  BY DEF Formats

\* What the formatter makes of an answer.
LEMMA SeesFacts ==
    ASSUME format \in Formats, NEW m, FormatterSees(m)
    PROVE  /\ format' \in Formats /\ format'.phase = format.phase
           /\ format'.sector = format.sector + 1
           /\ format'.success => format.success
           /\ format'.checked => format.checked
           /\ format.phase = "verify" /\ format'.checked => m # None /\ m.success
           /\ format.phase = "verify" /\ format'.success /\ m # None /\ m.success =>
                CalCrc(m.data) = CalCrc(Image[format.sector])
  <1> DEFINE ok == format.success /\ ~( /\ format.phase = "verify" /\ m # None /\ m.success
                                        /\ CalCrc(m.data) # CalCrc(Image[format.sector]))
             sure == format.checked /\ (format.phase = "verify" => m # None /\ m.success)
             next == format.sector + 1
  <1>1. format' = [format EXCEPT !.sector = next, !.success = ok, !.checked = sure]
    BY DEF FormatterSees
  <1>2. ok \in BOOLEAN /\ sure \in BOOLEAN /\ next \in Nat
    BY DEF Formats
  <1>3. (ok = TRUE <=> ok) /\ (sure = TRUE <=> sure)
    OBVIOUS
  <1> HIDE DEF ok, sure, next
  <1>4. /\ format' \in Formats /\ format'.phase = format.phase
        /\ format'.sector = next
        /\ format'.success = ok /\ format'.checked = sure
    <2> DEFINE n == [format EXCEPT !.sector = next, !.success = ok, !.checked = sure]
    <2>1. /\ n \in Formats /\ n.phase = format.phase /\ n.sector = next
          /\ n.success = ok /\ n.checked = sure
      BY <1>2 DEF Formats
    <2>2. format' = n
      BY <1>1
    <2> HIDE DEF n
    <2> QED
      BY <2>1, <2>2
  <1>5. /\ format'.success => ok
        /\ format'.checked => sure
    BY <1>3, <1>4
  <1> QED
    BY <1>4, <1>5 DEF ok, sure, next

LEMMA FormatInit == Init => FormatInv
  <1> SUFFICES ASSUME Init PROVE FormatInv
    OBVIOUS
  <1>1. format \in Formats /\ format.phase = "ready" /\ client = "off"
    BY DEF Init, Formats, Phases
  <1> QED
    BY <1>1 DEF FormatInv, Formatting, Verified, Certain

\* Steps of the service, and the end of the application.
LEMMA FormatQuiet ==
    ASSUME SdInv, ServiceInv, FormatInv, [Next]_vars,
           UNCHANGED <<format, program, slipped, request>>,
           client' = client \/ client' # "waiting",
           attached' = attached \/ attached' = TRUE
    PROVE  FormatInv'
  <1>1. Formatting'
    BY DEF FormatInv, Formatting, Target
  <1>2. Verified'
    <2>1. CASE Certain
      BY <2>1, OnlyWritesChange DEF FormatInv, Verified, OnCard
    <2>2. CASE ~Certain
      BY <2>2 DEF Verified, Certain
    <2> QED
      BY <2>1, <2>2
  <1> QED
    BY <1>1, <1>2 DEF FormatInv

LEMMA ServiceKeepsFormat ==
    ASSUME SdInv, ServiceInv, FormatInv, [Next]_vars,
           \/ M4Step \/ TimerExpires \/ A7Stops
           \/ \E port \in {MSG_SENT, MSG_RECV} : MsgAvailable(port)
    PROVE  FormatInv'
  <1>1. UNCHANGED <<format, program, slipped, request>>
    <2>1. CASE M4Step
      BY <2>1 DEF M4Step, InitialBurst, GoIdleState, SendIfCond, SendOpCond, OpenCard, Booting,
         Negotiate, SetupInterrupts, SetCallback, Wfi, InvokeCallbacks, CheckNegotiation,
         Receive, NothingToReceive, HandleRead, HandleWrite, Reply, a7
    <2>2. CASE TimerExpires \/ A7Stops
               \/ \E port \in {MSG_SENT, MSG_RECV} : MsgAvailable(port)
      BY <2>2 DEF TimerExpires, A7Stops, MsgAvailable, a7
    <2> QED
      BY <2>1, <2>2
  <1>2. client' = client \/ client' # "waiting"
    <2>1. CASE M4Step
      BY <2>1 DEF M4Step, InitialBurst, GoIdleState, SendIfCond, SendOpCond, OpenCard, Booting,
         Negotiate, SetupInterrupts, SetCallback, Wfi, InvokeCallbacks, CheckNegotiation,
         Receive, NothingToReceive, HandleRead, HandleWrite, Reply, a7
    <2>2. CASE TimerExpires \/ A7Stops
               \/ \E port \in {MSG_SENT, MSG_RECV} : MsgAvailable(port)
      BY <2>2 DEF TimerExpires, A7Stops, MsgAvailable, a7
    <2> QED
      BY <2>1, <2>2
  <1>3. attached' = attached \/ attached' = TRUE
    <2>1. CASE M4Step
      BY <2>1 DEF M4Step, InitialBurst, GoIdleState, SendIfCond, SendOpCond, OpenCard, Booting,
         Negotiate, SetupInterrupts, SetCallback, Wfi, InvokeCallbacks, CheckNegotiation,
         Receive, NothingToReceive, HandleRead, HandleWrite, Reply, link
    <2>2. CASE TimerExpires \/ A7Stops
               \/ \E port \in {MSG_SENT, MSG_RECV} : MsgAvailable(port)
      BY <2>2 DEF TimerExpires, A7Stops, MsgAvailable, link
    <2> QED
      BY <2>1, <2>2
  <1> QED
    BY <1>1, <1>2, <1>3, FormatQuiet

LEMMA RequestKeepsFormat ==
    ASSUME SdInv, ServiceInv, FormatInv, [Next]_vars,
           \/ \E t \in EmulatorSectors : ReadSector(t[1], t[2])
           \/ \E t \in EmulatorSectors, c \in Contents : WriteSector(t[1], t[2], c)
    PROVE  FormatInv'
  <1>1. program = "emulator" /\ \E m : Publish(m)
    BY DEF ReadSector, WriteSector
  <1>2. program' = program /\ format' = format /\ slipped' = slipped
    BY <1>1 DEF Publish, Returned
  <1>3. format.phase = "ready"
    BY <1>1 DEF FormatInv, Formatting
  <1> QED
    BY <1>1, <1>2, <1>3 DEF FormatInv, Formatting, Verified, Certain

LEMMA SectorKeepsFormat ==
    ASSUME SdInv, ServiceInv, FormatInv, [Next]_vars, FormatSector
    PROVE  FormatInv'
  <1> DEFINE s == format.sector
  <1>1. PICK m : /\ Publish(m)
                 /\ format.phase \in {"write", "verify"}
                 /\ m.type = IF format.phase = "write" THEN "WRITE" ELSE "READ"
                 /\ Target(m) = <<FORMAT_DRIVE, s>>
    BY DEF FormatSector, Target
  <1>2. program = "formatter" /\ s \in DOMAIN Image /\ format \in Formats
    BY DEF FormatSector, FormatInv, Formatting
  <1>3. UNCHANGED <<program, slipped, attached>> /\ request' = m
    BY <1>1 DEF Publish, link
  <1>4. CASE CanWrite(toM4)
    <2>1. client' = "waiting" /\ UNCHANGED format
      BY <1>1, <1>4 DEF Publish
    <2>2. Formatting'
      BY <1>1, <1>2, <1>3, <2>1 DEF FormatInv, Formatting, Target
    <2>3. Verified'
      <3> SUFFICES ASSUME Certain
                   PROVE  attached' /\ m # None /\ m.type = "READ"
                          /\ \A t \in DOMAIN Image : t < s => OnCard(t)'
        BY <1>3, <2>1 DEF Verified, Certain
      <3>1. m # None
        <4>1. PICK n \in Messages : Publish(n)
          BY RequestIsPublished
        <4>2. request' = n
          BY <4>1 DEF Publish
        <4> QED
          BY <1>3, <4>2, SdAssumption
      <3> QED
        BY <1>1, <1>3, <3>1, OnlyWritesChange DEF FormatInv, Verified, Certain, OnCard
    <2> QED
      BY <2>2, <2>3 DEF FormatInv
  <1>5. CASE ~CanWrite(toM4)
    <2>1. client' = client /\ client = "idle" /\ FormatterSees(None)
      BY <1>1, <1>2, <1>5 DEF Publish, Returned
    <2>2. /\ format' \in Formats /\ format'.phase = format.phase
          /\ format.phase = "verify" => ~format'.checked
      BY <1>2, <2>1, SeesFacts
    <2> QED
      BY <1>1, <1>2, <1>3, <2>1, <2>2 DEF FormatInv, Formatting, Verified, Certain
  <1> QED
    BY <1>4, <1>5

LEMMA AnswerKeepsFormat ==
    ASSUME SdInv, ServiceInv, FormatInv, [Next]_vars, TakeAnswer
    PROVE  FormatInv'
  <1>1. /\ client = "waiting" /\ client' = "idle" /\ Returned(answer')
        /\ UNCHANGED <<program, slipped, attached, request, blocks>>
    BY DEF TakeAnswer, link, card
  <1>2. /\ attached /\ answer' \in Messages /\ answer' # None
        /\ ~slipped => Answers(answer')
    BY AnswerTaken
  <1>3. CASE program # "formatter"
    <2>1. format.phase = "ready" /\ UNCHANGED format
      BY <1>1, <1>3 DEF FormatInv, Formatting, Returned
    <2> QED
      BY <1>1, <1>3, <2>1 DEF FormatInv, Formatting, Verified, Certain
  <1>4. CASE program = "formatter"
    <2>1. /\ format \in Formats /\ format.phase \in {"write", "verify"}
          /\ Target(request) = <<FORMAT_DRIVE, format.sector>>
          /\ request.type = IF format.phase = "write" THEN "WRITE" ELSE "READ"
          /\ FormatterSees(answer')
      BY <1>1, <1>4 DEF FormatInv, Formatting, Returned
    <2>2. /\ format' \in Formats /\ format'.phase = format.phase
          /\ format'.sector = format.sector + 1
          /\ format'.success => format.success
          /\ format'.checked => format.checked
          /\ format.phase = "verify" /\ format'.checked => answer'.success
          /\ format.phase = "verify" /\ format'.success /\ answer'.success =>
               CalCrc(answer'.data) = CalCrc(Image[format.sector])
      BY <1>2, <2>1, SeesFacts
    <2>3. Formatting'
      BY <1>1, <1>4, <2>1, <2>2 DEF Formatting
    <2>4. Verified'
      <3> SUFFICES ASSUME Certain' PROVE Verified'
        BY DEF Verified
      <3>1. /\ format.phase = "verify" /\ format.success /\ format.checked /\ ~slipped
            /\ answer'.success
            /\ CalCrc(answer'.data) = CalCrc(Image[format.sector])
        BY <1>1, <2>1, <2>2 DEF Certain
      <3>2. blocks[BlockOf(FORMAT_DRIVE, format.sector)] = answer'.data
        <4>1. Target(answer') = <<FORMAT_DRIVE, format.sector>>
          BY <1>2, <2>1, <3>1 DEF Answers, IsRequest
        <4>2. answer'.drive = FORMAT_DRIVE /\ answer'.sector = format.sector
          BY <4>1 DEF Target
        <4> QED
          BY <1>2, <3>1, <4>2 DEF Answers
      <3>3. ASSUME NEW s \in DOMAIN Image, s < format.sector + 1
            PROVE  OnCard(s)
        <4>1. s \in Nat /\ format.sector \in Nat
          BY <2>1, SdAssumption DEF Formats
        <4>2. CASE s = format.sector
          BY <3>1, <3>2, <4>2 DEF OnCard
        <4>3. CASE s < format.sector
          <5>1. Certain
            BY <3>1, <4>1, <4>3 DEF Certain
          <5> QED
            BY <4>3, <5>1 DEF FormatInv, Verified
        <4> QED
          BY <3>3, <4>1, <4>2, <4>3
      <3>4. request # None /\ request.type = "READ"
        BY <1>1, <2>1, <3>1 DEF ServiceInv, TypedRest
      <3> QED
        BY <1>1, <1>2, <2>2, <3>3, <3>4 DEF Verified, OnCard
    <2> QED
      BY <2>3, <2>4 DEF FormatInv
  <1> QED
    BY <1>3, <1>4

LEMMA OtherKeepsFormat ==
    ASSUME SdInv, ServiceInv, FormatInv, [Next]_vars,
           A7Starts \/ TimeOut \/ ButtonA \/ EndOfImage
    PROVE  FormatInv'
  <1>1. format \in Formats
    BY DEF FormatInv, Formatting
  <1>2. CASE A7Starts
    <2>1. client' = "idle" /\ format' \in Formats /\ format'.phase = "ready"
      BY <1>2 DEF A7Starts, Formats, Phases
    <2> QED
      BY <2>1 DEF FormatInv, Formatting, Verified, Certain
  <1>3. CASE TimeOut
    <2>1. client = "waiting" /\ client' = "idle" /\ slipped' /\ UNCHANGED program /\ Returned(None)
      BY <1>3 DEF TimeOut
    <2>2. CASE program = "formatter"
      <3>1. FormatterSees(None) /\ format.phase \in {"write", "verify"}
        BY <2>1, <2>2 DEF Returned, FormatInv, Formatting
      <3>2. format' \in Formats /\ format'.phase = format.phase
        BY <1>1, <3>1, SeesFacts
      <3> QED
        BY <2>1, <2>2, <3>1, <3>2 DEF FormatInv, Formatting, Verified, Certain
    <2>3. CASE program # "formatter"
      BY <2>1, <2>3 DEF Returned, FormatInv, Formatting, Verified, Certain
    <2> QED
      BY <2>2, <2>3
  <1>4. CASE ButtonA
    <2>1. /\ program = "formatter" /\ client = "idle" /\ UNCHANGED <<program, client>>
          /\ format' \in Formats
          /\ format'.phase = "write" \/ (format'.phase = "passed" /\ format'.checked = FALSE)
      <3>1. program = "formatter" /\ client = "idle" /\ UNCHANGED <<program, client>>
        BY <1>4 DEF ButtonA
      <3>2. CASE format' = [phase |-> "write", sector |-> 0, success |-> TRUE, checked |-> TRUE]
        BY <3>1, <3>2 DEF Formats, Phases
      <3>3. CASE format' = [phase |-> "passed", sector |-> 0, success |-> TRUE,
                            checked |-> FALSE]
        BY <3>1, <3>3 DEF Formats, Phases
      <3> QED
        BY <1>4, <3>2, <3>3 DEF ButtonA
    <2>2. Formatting'
      BY <2>1 DEF Formatting
    <2>3. ~Certain'
      BY <2>1 DEF Certain
    <2> QED
      BY <2>2, <2>3 DEF FormatInv, Verified
  <1>5. CASE EndOfImage
    <2>1. /\ program = "formatter" /\ client = "idle" /\ format.sector \notin DOMAIN Image
          /\ UNCHANGED <<program, client, slipped, request, attached>>
      BY <1>5 DEF EndOfImage, link
    <2>2. CASE format.phase = "write" /\ format' = [format EXCEPT !.phase = "verify", !.sector = 0]
      <3>1. format' \in Formats /\ format'.phase = "verify" /\ format'.sector = 0
        BY <1>1, <2>2 DEF Formats, Phases
      <3> QED
        BY <2>1, <3>1 DEF FormatInv, Formatting, Verified, Certain
    <2>3. CASE /\ format.phase = "verify"
               /\ format' = [format EXCEPT !.phase = IF format.success THEN "passed" ELSE "failed"]
      <3>1. /\ format' \in Formats /\ format'.sector = format.sector
            /\ format'.success = format.success /\ format'.checked = format.checked
            /\ format'.phase = IF format.success THEN "passed" ELSE "failed"
        BY <1>1, <2>3 DEF Formats, Phases
      <3>2. Formatting'
        BY <2>1, <3>1 DEF FormatInv, Formatting
      <3>3. Verified'
        <4> SUFFICES ASSUME Certain' PROVE Verified'
          BY DEF Verified
        <4>1. Certain
          BY <2>1, <2>3, <3>1 DEF Certain
        <4> QED
          BY <2>1, <3>1, <4>1, OnlyWritesChange DEF FormatInv, Verified, OnCard
      <3> QED
        BY <3>2, <3>3 DEF FormatInv
    <2> QED
      BY <1>5, <2>2, <2>3 DEF EndOfImage
  <1> QED
    BY <1>2, <1>3, <1>4, <1>5

LEMMA FormatStep ==
    ASSUME SdInv, ServiceInv, FormatInv, [Next]_vars
    PROVE  FormatInv'
  <1>1. CASE UNCHANGED vars
    BY <1>1, FormatQuiet DEF vars, link, a7
  <1> QED
    BY <1>1, ServiceKeepsFormat, RequestKeepsFormat, SectorKeepsFormat, AnswerKeepsFormat,
       OtherKeepsFormat DEF Next

(***************************************************************************)
(* A disk that the formatter says it has written and verified is on the    *)
(* card, as far as checksums tell, if every sector was answered for: for   *)
(* every image, and whatever an earlier run of the formatter left behind.  *)
(***************************************************************************)
THEOREM SpecVerifiedMeansWritten ==
    ASSUME SectorsFit
    PROVE  Spec => []VerifiedMeansWritten
  <1>1. FormatInv => VerifiedMeansWritten
    <2> SUFFICES ASSUME FormatInv, format.phase = "passed", format.checked, ~slipped,
                        NEW s \in DOMAIN Image
                 PROVE  OnCard(s)
      BY DEF VerifiedMeansWritten, OnCard
    <2>1. /\ format.success /\ format.sector \notin DOMAIN Image
          /\ format.sector \in Nat /\ s \in Nat
      BY SdAssumption DEF FormatInv, Formatting, Formats
    <2>2. s < format.sector
      <3>1. 0 .. s \subseteq DOMAIN Image
        BY SdAssumption
      <3>2. format.sector \notin 0 .. s
        BY <2>1, <3>1
      <3> QED
        BY <2>1, <3>2
    <2>3. Certain
      BY <2>1, <2>2 DEF Certain
    <2> QED
      BY <2>2, <2>3 DEF FormatInv, Verified
  <1>2. SdInv /\ ServiceInv /\ FormatInv /\ [Next]_vars => FormatInv'
    BY FormatStep
  <1> QED
    BY <1>1, <1>2, FormatInit, SdInvariant, ServiceInvariant, PTL DEF Spec
=============================================================================
