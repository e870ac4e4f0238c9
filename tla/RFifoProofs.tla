----------------------------- MODULE RFifoProofs ----------------------------
(***************************************************************************)
(* The receiver FIFO keeps its registers in range and in agreement, counts  *)
(* the words with an error exactly, and implements the queue of RxQueue.tla,*)
(* for every depth, every alphabet and every set of flags.  The invariant   *)
(* Inv of RFifo.tla is inductive.                                           *)
(***************************************************************************)
EXTENDS RFifo, SequenceTheorems, FiniteSetTheorems, TLAPS

(***************************************************************************)
(* The facts about the ring, proved with the transmitter FIFO: both FIFOs   *)
(* have the ring of Ring.tla, and F!Slot is Slot.                           *)
(***************************************************************************)
F == INSTANCE TFifoProofs

\* The memories that hold words of W.
Memory(W) == [Address -> W]

\* The ring of the transmitter FIFO is that of the receiver FIFO.
LEMMA SameRing ==
  /\ F!Address = Address
  /\ \A p : F!Inc(p) = Inc(p)
  /\ \A p, k : F!Slot(p, k) = Slot(p, k)
  /\ \A m, b, n : F!Stored(m, b, n) = Stored(m, b, n)
  /\ \A W : F!Memory(W) = Memory(W)
BY DEF F!Address, Address, F!Inc, Inc, F!Slot, Slot, F!Stored, Stored, F!Memory, Memory

\* Adding one to a pointer gives an address again.
LEMMA IncIsAddress == \A p \in Address : Inc(p) \in Address
BY F!IncIsAddress, SameRing, DepthAssumption

\* Moving away one more place is incrementing the address reached.
LEMMA SlotOfNext ==
  \A p \in Address, k \in 0 .. (Depth - 1) : Slot(p, k + 1) = Inc(Slot(p, k))
BY F!SlotOfNext, SameRing, DepthAssumption

\* Moving the start one place up is moving one place further.
LEMMA SlotFromNext ==
  \A p \in Address, k \in 0 .. (Depth - 1) : Slot(Inc(p), k) = Slot(p, k + 1)
BY F!SlotFromNext, SameRing, DepthAssumption

\* Two distances less than Depth apart lead to different addresses.
LEMMA SlotIsInjective ==
  \A p \in Address, j, k \in 0 .. Depth :
     j < k /\ k - j < Depth => Slot(p, j) # Slot(p, k)
BY F!SlotIsInjective, SameRing, DepthAssumption

\* The stored words are a sequence of as many words.
LEMMA StoredIsASequence ==
  ASSUME NEW W, NEW m \in Memory(W), NEW b \in Address, NEW n \in 0 .. Depth
  PROVE  /\ Stored(m, b, n) \in Seq(W)
         /\ Len(Stored(m, b, n)) = n
         /\ \A i \in 1 .. n : Stored(m, b, n)[i] = m[Slot(b, i - 1)]
BY F!StoredIsASequence, SameRing, DepthAssumption

\* A write above the stored words appends the written word.
LEMMA StoredAppend ==
  ASSUME NEW W, NEW m \in Memory(W), NEW b \in Address,
         NEW n \in 0 .. (Depth - 1), NEW c \in W
  PROVE  Stored([m EXCEPT ![Slot(b, n)] = c], b, n + 1) = Append(Stored(m, b, n), c)
<1>1. m \in F!Memory(W) /\ b \in F!Address
  BY SameRing
<1>2. F!Stored([m EXCEPT ![F!Slot(b, n)] = c], b, n + 1) = Append(F!Stored(m, b, n), c)
  BY <1>1, F!StoredAppend, DepthAssumption
<1> QED BY <1>2, SameRing, Zenon

\* Advancing the start over the first stored word is taking the tail.
LEMMA StoredTail ==
  ASSUME NEW W, NEW m \in Memory(W), NEW b \in Address, NEW n \in 1 .. Depth
  PROVE  Stored(m, Inc(b), n - 1) = Tail(Stored(m, b, n))
BY F!StoredTail, SameRing, DepthAssumption

\* Writing above the stored words while dropping the oldest.
LEMMA StoredShift ==
  ASSUME NEW W, NEW m \in Memory(W), NEW b \in Address,
         NEW n \in 1 .. Depth, NEW c \in W
  PROVE  Stored([m EXCEPT ![Slot(b, n)] = c], Inc(b), n)
           = Append(Tail(Stored(m, b, n)), c)
<1>1. n - 1 \in 0 .. (Depth - 1) /\ (n - 1) + 1 = n /\ Inc(b) \in Address
  BY DepthAssumption, IncIsAddress
<1>2. Slot(Inc(b), n - 1) = Slot(b, n)
  BY <1>1, SlotFromNext
<1>3. Stored([m EXCEPT ![Slot(Inc(b), n - 1)] = c], Inc(b), (n - 1) + 1)
        = Append(Stored(m, Inc(b), n - 1), c)
  BY <1>1, StoredAppend, Zenon
<1> QED BY <1>1, <1>2, <1>3, StoredTail, Zenon

(***************************************************************************)
(* The addresses in use, and those of them whose word has a flag.           *)
(***************************************************************************)
Cells(b, n)  == {Slot(b, i) : i \in 0 .. (n - 1)}
Marked(f, S) == {a \in S : Flagged(f[a])}

\* The addresses in use are finitely many, at most the depth.
LEMMA CellsAreFinite ==
  ASSUME NEW S \in SUBSET Address
  PROVE  /\ IsFiniteSet(S) /\ Cardinality(S) \in 0 .. Depth
<1>1. 0 \in Int /\ Depth - 1 \in Int /\ ~(0 > Depth - 1) /\ (Depth - 1) - 0 + 1 = Depth
  BY DepthAssumption
<1>2. IsFiniteSet(Address) /\ Cardinality(Address) = Depth
  BY <1>1, FS_Interval DEF Address
<1>3. IsFiniteSet(S) /\ Cardinality(S) <= Depth
  BY <1>2, FS_Subset
<1>4. Cardinality(S) \in Nat
  BY <1>3, FS_CardinalityType
<1> QED BY <1>3, <1>4, DepthAssumption

\* The addresses in use are addresses.
LEMMA CellsAreAddresses ==
  ASSUME NEW b \in Address, NEW n \in 0 .. Depth
  PROVE  Cells(b, n) \in SUBSET Address
BY DepthAssumption DEF Cells, Address, Slot

\* One more word takes the address above the others, which was free.
LEMMA CellsGrow ==
  ASSUME NEW b \in Address, NEW n \in 0 .. (Depth - 1)
  PROVE  /\ Cells(b, n + 1) = Cells(b, n) \cup {Slot(b, n)}
         /\ Slot(b, n) \notin Cells(b, n)
<1>1. 0 .. ((n + 1) - 1) = (0 .. (n - 1)) \cup {n}
  BY DepthAssumption
<1>2. ASSUME NEW i \in 0 .. (n - 1) PROVE Slot(b, i) # Slot(b, n)
  <2>1. i \in 0 .. Depth /\ n \in 0 .. Depth /\ i < n /\ n - i < Depth
    BY DepthAssumption
  <2> QED BY <2>1, SlotIsInjective
<1> QED BY <1>1, <1>2 DEF Cells

\* The oldest word gives back its address.
LEMMA CellsShrink ==
  ASSUME NEW b \in Address, NEW n \in 1 .. Depth
  PROVE  /\ Cells(Inc(b), n - 1) = Cells(b, n) \ {b}
         /\ b \in Cells(b, n)
<1>1. Slot(b, 0) = b
  BY DepthAssumption DEF Slot, Address
<1>2. ASSUME NEW i \in 1 .. (n - 1) PROVE Slot(b, i) # b
  BY DepthAssumption DEF Slot, Address
<1>3. ASSUME NEW i \in 0 .. (n - 2) PROVE Slot(Inc(b), i) = Slot(b, i + 1)
  BY DepthAssumption, SlotFromNext
<1>4. ASSUME NEW x \in Cells(Inc(b), n - 1) PROVE x \in Cells(b, n) /\ x # b
  <2>1. PICK i \in 0 .. ((n - 1) - 1) : x = Slot(Inc(b), i)
    BY DEF Cells
  <2>2. i \in 0 .. (n - 2) /\ i + 1 \in 1 .. (n - 1) /\ i + 1 \in 0 .. (n - 1)
    BY DepthAssumption
  <2> QED BY <2>1, <2>2, <1>2, <1>3 DEF Cells
<1>5. ASSUME NEW x \in Cells(b, n), x # b PROVE x \in Cells(Inc(b), n - 1)
  <2>1. PICK i \in 0 .. (n - 1) : x = Slot(b, i)
    BY DEF Cells
  <2>2. i # 0
    BY <1>1, <1>5, <2>1
  <2>3. i - 1 \in 0 .. (n - 2) /\ i - 1 \in 0 .. ((n - 1) - 1) /\ (i - 1) + 1 = i
    BY <2>2, DepthAssumption
  <2> QED BY <2>1, <2>3, <1>3 DEF Cells
<1>6. b \in Cells(b, n)
  BY <1>1 DEF Cells
<1> QED BY <1>4, <1>5, <1>6

\* A word in and a word out: the address above the others replaces the lowest.
LEMMA CellsMove ==
  ASSUME NEW b \in Address, NEW n \in 1 .. Depth
  PROVE  /\ Cells(Inc(b), n) = (Cells(b, n) \ {b}) \cup {Slot(b, n)}
         /\ Slot(b, n) \notin Cells(b, n) \ {b}
<1>1. n - 1 \in 0 .. (Depth - 1) /\ (n - 1) + 1 = n /\ Inc(b) \in Address
  BY DepthAssumption, IncIsAddress
<1>2. Slot(Inc(b), n - 1) = Slot(b, n)
  BY <1>1, SlotFromNext
<1> QED BY <1>1, <1>2, CellsGrow, CellsShrink

\* Addresses come and go one at a time, and are counted.
LEMMA CountOne ==
  ASSUME NEW M \in SUBSET Address, NEW x \in Address
  PROVE  /\ Cardinality(M) \in 0 .. Depth
         /\ x \notin M => Cardinality(M \cup {x}) = Cardinality(M) + 1
         /\ Cardinality(M \ {x}) = IF x \in M THEN Cardinality(M) - 1 ELSE Cardinality(M)
<1>1. IsFiniteSet(M) /\ Cardinality(M) \in 0 .. Depth
  BY CellsAreFinite
<1>2. x \notin M => Cardinality(M \cup {x}) = Cardinality(M) + 1
  BY <1>1, FS_AddElement
<1>3. Cardinality(M \ {x}) = IF x \in M THEN Cardinality(M) - 1 ELSE Cardinality(M)
  BY <1>1, FS_RemoveElement
<1> QED BY <1>1, <1>2, <1>3

(***************************************************************************)
(* Registers in range and in agreement.                                     *)
(***************************************************************************)
Pointers == /\ top \in Address /\ bottom \in Address
            /\ count \in 0 .. Depth /\ PointersAgree

\* Reset leaves an empty FIFO, whatever is in its memories.
LEMMA InvInit == Init => Inv
<1> SUFFICES ASSUME Init PROVE Inv
  OBVIOUS
<1>1. Pointers
  BY DepthAssumption DEF Init, Reset, Pointers, PointersAgree, Address, Slot
<1>2. /\ ram \in [Address -> Char] /\ fifo \in [Address -> Flags]
      /\ rfifo_flags \in Flags /\ overrun \in BOOLEAN /\ AnyInputs
      /\ collided \in BOOLEAN
  BY FlagsAssumption DEF Init, Reset
<1>3. error_count = 0 /\ 0 \in 0 .. (CounterModulus - 1)
  BY DepthAssumption DEF Init, Reset, CounterModulus
<1>4. FlaggedWords = {}
  BY DEF Init, Reset, FlaggedWords, Occupied
<1>5. ErrorsBelongToWords
  BY <1>3, <1>4, FS_EmptySet DEF Init, Reset, ErrorsBelongToWords
<1> QED BY <1>1, <1>2, <1>3, <1>5 DEF Inv, TypeOK, Pointers

\* Every case of {push, pop} moves pointers and counter together.
LEMMA PointersNext == ASSUME Inv, Clock PROVE Pointers'
<1>1. Pointers
  BY DEF Inv, TypeOK, Pointers
<1>2. ASSUME PushChar PROVE Pointers'
  <2>1. top' \in Address /\ count' \in 0 .. Depth
    BY <1>1, <1>2, IncIsAddress, DepthAssumption DEF PushChar, Pointers
  <2>2. PointersAgree'
    BY <1>1, <1>2, SlotOfNext, DepthAssumption DEF PushChar, PointersAgree, Pointers
  <2> QED BY <1>1, <1>2, <2>1, <2>2 DEF PushChar, Pointers
<1>3. ASSUME PopChar PROVE Pointers'
  <2>1. bottom' \in Address /\ count' \in 0 .. Depth
    BY <1>1, <1>3, IncIsAddress, DepthAssumption DEF PopChar, Pointers
  <2>2. count - 1 \in 0 .. (Depth - 1) /\ (count - 1) + 1 = count
    BY <1>1, <1>3, DepthAssumption DEF PopChar, Pointers
  <2>3. Slot(Inc(bottom), count - 1) = Slot(bottom, (count - 1) + 1)
    BY <1>1, <2>2, SlotFromNext DEF Pointers
  <2>4. PointersAgree'
    BY <1>1, <1>3, <2>2, <2>3 DEF PopChar, PointersAgree, Slot, Pointers
  <2> QED BY <1>1, <1>3, <2>1, <2>4 DEF PopChar, Pointers
<1>4. ASSUME PushPop PROVE Pointers'
  <2>1. top' \in Address /\ bottom' \in Address
    BY <1>1, <1>4, IncIsAddress DEF PushPop, Pointers
  <2>2. Slot(Inc(bottom), count) = Inc(Slot(bottom, count))
    BY <1>1, DepthAssumption DEF Address, Slot, Inc, Pointers
  <2> QED BY <1>1, <1>4, <2>1, <2>2 DEF PushPop, PointersAgree, Pointers
<1>5. ASSUME PushFull \/ Hold PROVE Pointers'
  BY <1>1, <1>5 DEF PushFull, Hold, PointersAgree, Slot, Pointers
<1>6. ASSUME Clear PROVE Pointers'
  BY <1>6, DepthAssumption DEF Clear, PointersAgree, Address, Slot, Pointers
<1> QED BY <1>2, <1>3, <1>4, <1>5, <1>6 DEF Clock

\* The memories, the flags of the head and the error counter keep their types.
LEMMA TypesNext ==
  ASSUME Inv, Clock
  PROVE  /\ (ram \in [Address -> Char])' /\ (fifo \in [Address -> Flags])'
         /\ rfifo_flags' \in Flags /\ overrun' \in BOOLEAN
         /\ error_count' \in 0 .. (CounterModulus - 1)
<1> USE DEF Inv, TypeOK, AnyInputs, Word
<1>1. (ram \in [Address -> Char])'
  BY DEF Clock, WriteRam
<1>2. overrun' \in BOOLEAN
  BY DEF Clock, Overrun
<1>3. (fifo \in [Address -> Flags])'
  BY FlagsAssumption DEF Clock, PushChar, PushFull, PopChar, PushPop, Hold, Clear
<1>4. rfifo_flags' \in Flags
  <2>1. fifo[Inc(bottom)] \in Flags /\ data_in.flags \in Flags
    BY IncIsAddress
  <2> QED BY <2>1, FlagsAssumption DEF Clock, PushChar, PushFull, PopChar, PushPop, Hold, Clear
<1>5. \/ UNCHANGED error_count \/ CountUp \/ CountDown \/ error_count' = 0
  BY DEF Clock, PushChar, PushFull, PopChar, PushPop, Hold, Clear
<1>6. error_count' \in 0 .. (CounterModulus - 1)
  BY <1>5, DepthAssumption DEF CountUp, CountDown, CounterModulus
<1> QED BY <1>1, <1>2, <1>3, <1>4, <1>6

\* The counter follows the set of words with a flag: up when one comes, down
\* when one leaves, and the flags shown are those of the lowest address.
LEMMA ErrorsNext == ASSUME Inv, Clock, Observe PROVE ErrorsBelongToWords'
<1> SUFFICES ASSUME ~collided'
             PROVE  /\ count' > 0 => rfifo_flags' = fifo'[bottom']
                    /\ error_count' = Cardinality(FlaggedWords')
  BY DEF ErrorsBelongToWords
<1> DEFINE S == Cells(bottom, count)
           M == Marked(fifo, S)
<1>1. Pointers /\ Pointers'
  BY PointersNext DEF Inv, TypeOK, Pointers
<1>2. /\ fifo \in [Address -> Flags] /\ fifo' \in [Address -> Flags]
      /\ rfifo_flags \in Flags /\ NoFlags \in Flags
      /\ data_in.flags \in Flags
  BY TypesNext, FlagsAssumption DEF Inv, TypeOK, AnyInputs, Word
<1>3. FlaggedWords = M /\ FlaggedWords' = Marked(fifo', Cells(bottom', count'))
  BY DEF FlaggedWords, Occupied, Marked, Cells
<1>4. S \in SUBSET Address
  BY <1>1, CellsAreAddresses DEF Pointers
<1>5. M \in SUBSET Address /\ Cardinality(M) \in 0 .. Depth /\ Depth \in Nat \ {0}
  <2>1. M \in SUBSET Address
    BY <1>4 DEF Marked
  <2> QED BY <2>1, CellsAreFinite, DepthAssumption
<1>6. ASSUME ~fifo_reset PROVE /\ count > 0 => rfifo_flags = fifo[bottom]
                               /\ error_count = Cardinality(M)
  BY <1>3, <1>6 DEF Observe, Inv, ErrorsBelongToWords
<1>7. bottom \in S /\ Flagged(fifo[bottom]) <=> bottom \in M
  BY DEF Marked
<1>f. FlaggedWords' \in SUBSET Address /\ Cardinality(FlaggedWords') \in 0 .. Depth
  <2>1. FlaggedWords' \in SUBSET Address
    BY <1>1, <1>3, CellsAreAddresses DEF Pointers, Marked
  <2> QED BY <2>1, CellsAreFinite
<1> HIDE DEF S
<1>8. CASE PushChar
  <2>1. /\ count \in 0 .. (Depth - 1) /\ bottom \in Address
        /\ top = Slot(bottom, count) /\ top \in Address
    BY <1>1, <1>5, <1>8 DEF PushChar, Pointers, PointersAgree
  <2>2. Cells(bottom, count + 1) = S \cup {top} /\ top \notin S
    BY <2>1, CellsGrow DEF S
  <2>3. FlaggedWords' = IF Flagged(data_in.flags) THEN M \cup {top} ELSE M
    <3>1. FlaggedWords' = Marked([fifo EXCEPT ![top] = data_in.flags], S \cup {top})
      BY <1>3, <1>8, <2>2 DEF PushChar
    <3>2. Marked([fifo EXCEPT ![top] = data_in.flags], S \cup {top})
            = IF Flagged(data_in.flags) THEN Marked(fifo, S) \cup {top} ELSE Marked(fifo, S)
      BY <1>2, <1>4, <2>1, <2>2 DEF Marked
    <3> QED BY <3>1, <3>2
  <2>4. top \notin M
    BY <2>2 DEF Marked
  <2> HIDE DEF M
  <2>5. Cardinality(FlaggedWords') =
          IF Flagged(data_in.flags) THEN Cardinality(M) + 1 ELSE Cardinality(M)
    BY <1>5, <2>1, <2>3, <2>4, CountOne
  <2>6. error_count' = Cardinality(FlaggedWords')
    <3>1. error_count = Cardinality(M)
      BY <1>6, <1>8 DEF PushChar
    <3> QED BY <1>5, <1>8, <1>f, <2>5, <3>1 DEF PushChar, CountUp, CounterModulus
  <2>7. rfifo_flags' = fifo'[bottom']
    <3>1. CASE count = 0
      <4>1. top = bottom
        BY <2>1, <3>1, DepthAssumption DEF Slot, Address
      <4> QED BY <1>2, <1>8, <2>1, <3>1, <4>1 DEF PushChar
    <3>2. CASE count # 0
      <4>1. bottom \in S
        <5>1. count \in 1 .. Depth
          BY <2>1, <3>2, DepthAssumption
        <5> QED BY <2>1, <5>1, CellsShrink DEF S
      <4>2. bottom # top
        BY <2>2, <4>1
      <4> QED BY <1>2, <1>6, <1>8, <2>1, <3>2, <4>2 DEF PushChar
    <3> QED BY <3>1, <3>2
  <2> QED BY <2>6, <2>7
<1>9. CASE PopChar
  <2>1. count \in 1 .. Depth /\ bottom \in Address /\ count' = count - 1 /\ ~fifo_reset
    BY <1>1, <1>9 DEF PopChar, Pointers
  <2>2. Cells(Inc(bottom), count - 1) = S \ {bottom} /\ bottom \in S
    BY <2>1, CellsShrink DEF S
  <2>3. FlaggedWords' = M \ {bottom}
    <3>1. FlaggedWords' = Marked([fifo EXCEPT ![bottom] = NoFlags], S \ {bottom})
      BY <1>3, <1>9, <2>2 DEF PopChar
    <3>2. Marked([fifo EXCEPT ![bottom] = NoFlags], S \ {bottom}) = Marked(fifo, S) \ {bottom}
      BY <1>2, <1>4, <2>1 DEF Marked
    <3> QED BY <3>1, <3>2
  <2>4. Flagged(rfifo_flags) <=> bottom \in M
    BY <1>6, <1>7, <2>1, <2>2
  <2> HIDE DEF M
  <2>5. Cardinality(FlaggedWords') =
          IF bottom \in M THEN Cardinality(M) - 1 ELSE Cardinality(M)
    BY <1>5, <2>1, <2>3, CountOne
  <2>6. error_count' = Cardinality(FlaggedWords')
    BY <1>5, <1>6, <1>9, <1>f, <2>1, <2>4, <2>5 DEF PopChar, CountDown, CounterModulus
  <2>7. ASSUME count' > 0 PROVE rfifo_flags' = fifo'[bottom']
    <3>1. Inc(bottom) # bottom /\ Inc(bottom) \in Address
      BY <2>1, <2>7, DepthAssumption DEF Inc, Address
    <3> QED BY <1>2, <1>9, <2>1, <3>1 DEF PopChar
  <2> QED BY <2>6, <2>7
<1>10. CASE PushPop
  <2>1. /\ count \in 2 .. Depth /\ bottom \in Address /\ ~fifo_reset
        /\ top = Slot(bottom, count) /\ top \in Address
    <3>1. ~(count <= 1) /\ ~fifo_reset
      BY <1>10 DEF PushPop, Observe
    <3> QED BY <1>1, <1>5, <3>1 DEF Pointers, PointersAgree
  <2>2. /\ Cells(Inc(bottom), count) = (S \ {bottom}) \cup {top}
        /\ top \notin S \ {bottom} /\ bottom \in S
    <3>1. count \in 1 .. Depth
      BY <2>1
    <3> QED BY <2>1, <3>1, CellsMove, CellsShrink DEF S
  <2> DEFINE T == S \ {bottom}
             N == Marked(fifo, T)
  <2>3. T \in SUBSET Address /\ N = M \ {bottom} /\ N \in SUBSET Address
    BY <1>4, <1>5 DEF Marked
  <2>4. Flagged(rfifo_flags) <=> bottom \in M
    BY <1>6, <1>7, <2>1, <2>2
  <2>5. top \notin N
    BY <2>2 DEF Marked
  <2>7. FlaggedWords' = IF Flagged(data_in.flags) THEN N \cup {top} ELSE N
    <3> HIDE DEF T
    <3>1. Cells(bottom', count') = T \cup {top} /\ top \notin T
      BY <1>10, <2>2 DEF PushPop, T
    <3>2. fifo' = [fifo EXCEPT ![top] = data_in.flags]
      BY <1>10 DEF PushPop
    <3>3. Marked([fifo EXCEPT ![top] = data_in.flags], T \cup {top})
            = IF Flagged(data_in.flags) THEN Marked(fifo, T) \cup {top} ELSE Marked(fifo, T)
      BY <1>2, <2>1, <2>3, <3>1 DEF Marked
    <3> QED BY <1>3, <3>1, <3>2, <3>3
  <2> HIDE DEF M, N, T
  <2>6. Cardinality(N) = IF bottom \in M THEN Cardinality(M) - 1 ELSE Cardinality(M)
    BY <1>5, <2>1, <2>3, CountOne
  <2>8. Cardinality(FlaggedWords') =
          IF Flagged(data_in.flags) THEN Cardinality(N) + 1 ELSE Cardinality(N)
    BY <2>1, <2>3, <2>5, <2>7, CountOne
  <2>9. error_count' = Cardinality(FlaggedWords')
    <3>1. Cardinality(N) \in 0 .. Depth
      BY <2>3, CellsAreFinite
    <3>2. error_count = Cardinality(M)
      BY <1>6, <2>1
    <3> QED BY <1>5, <1>10, <1>f, <2>4, <2>6, <2>8, <3>1, <3>2
            DEF PushPop, CountUp, CountDown, CounterModulus
  <2>10. rfifo_flags' = fifo'[bottom']
    <3>1. Inc(bottom) # top /\ Inc(bottom) \in Address
      BY <2>1, DepthAssumption DEF Inc, Address, Slot
    <3> QED BY <1>2, <1>10, <2>1, <3>1 DEF PushPop
  <2> QED BY <2>9, <2>10
<1>11. CASE PushFull \/ Hold
  <2>1. FlaggedWords' = M
    BY <1>3, <1>11 DEF PushFull, Hold, S
  <2> QED BY <1>6, <1>11, <2>1 DEF PushFull, Hold
<1>12. CASE Clear
  <2>1. Cells(bottom', count') = {}
    BY <1>12 DEF Clear, Cells
  <2>2. FlaggedWords' = {}
    BY <1>3, <2>1 DEF Marked
  <2> QED BY <1>12, <2>2, FS_EmptySet DEF Clear
<1> QED BY <1>8, <1>9, <1>10, <1>11, <1>12 DEF Clock

\* Every clock edge preserves the invariant.
LEMMA InvNext == Inv /\ [Next]_vars => Inv'
<1> SUFFICES ASSUME Inv, [Next]_vars PROVE Inv'
  OBVIOUS
<1>1. CASE Next
  <2>1. Clock /\ Observe /\ AnyInputs' /\ collided' \in BOOLEAN
    BY <1>1 DEF Next, Drive, AnyInputs, Observe
  <2>2. Pointers' /\ ErrorsBelongToWords'
    BY <2>1, PointersNext, ErrorsNext
  <2> QED BY <2>1, <2>2, TypesNext DEF Inv, TypeOK, Pointers
<1>2. CASE UNCHANGED vars
  BY <1>2 DEF vars, inputs, registers, Inv, TypeOK, AnyInputs, PointersAgree, Slot,
              ErrorsBelongToWords, FlaggedWords, Occupied
<1> QED BY <1>1, <1>2

\* The pointers, the counters and the flags are always in range.
THEOREM TypeCorrect == Spec => []TypeOK
<1>1. Inv => TypeOK
  BY DEF Inv
<1> QED BY <1>1, InvInit, InvNext, PTL DEF Spec

\* Unless a push met a pop with at most one word stored, the flags shown are
\* those of the oldest word and the error counter is exact, for every depth.
THEOREM ErrorsAlwaysBelongToWords == Spec => []ErrorsBelongToWords
<1>1. Inv => ErrorsBelongToWords
  BY DEF Inv
<1> QED BY <1>1, InvInit, InvNext, PTL DEF Spec

(***************************************************************************)
(* The two memories implement the queue of words.                           *)
(***************************************************************************)

\* A write to the lowest address changes the first word only.
LEMMA StoredHead ==
  ASSUME NEW m \in Memory(Word), NEW b \in Address, NEW n \in 1 .. Depth, NEW w \in Word
  PROVE  Stored([m EXCEPT ![b] = w], b, n) = [Stored(m, b, n) EXCEPT ![1] = w]
<1>1. ASSUME NEW i \in 1 .. n
      PROVE  Slot(b, i - 1) \in Address /\ (Slot(b, i - 1) = b <=> i = 1)
  BY DepthAssumption DEF Slot, Address
<1> QED BY <1>1 DEF Stored, Memory

\* What a push writes to the two memories is the word that came.
LEMMA WordsAfterPush ==
  ASSUME Inv, push, WriteRam, fifo' = [fifo EXCEPT ![top] = data_in.flags]
  PROVE  Words' = [Words EXCEPT ![top] = data_in]
<1>1. /\ ram' = [ram EXCEPT ![top] = data_in.char]
      /\ ram \in [Address -> Char] /\ fifo \in [Address -> Flags] /\ top \in Address
      /\ data_in = [char |-> data_in.char, flags |-> data_in.flags]
  BY DEF WriteRam, Inv, TypeOK, AnyInputs, Word
<1> QED BY <1>1 DEF Words

\* A push into the full FIFO writes the character of the oldest word alone.
LEMMA WordsAfterOverrun ==
  ASSUME Inv, PushFull, WriteRam
  PROVE  Words' = [Words EXCEPT ![bottom] = [char |-> data_in.char, flags |-> fifo[bottom]]]
<1>1. top = bottom
  BY DepthAssumption DEF PushFull, Inv, TypeOK, PointersAgree, Slot, Address
<1>2. /\ ram' = [ram EXCEPT ![bottom] = data_in.char] /\ fifo' = fifo
      /\ ram \in [Address -> Char] /\ bottom \in Address
  BY <1>1 DEF WriteRam, PushFull, Inv, TypeOK
<1> QED BY <1>2 DEF Words

\* A pop changes only flags of the word that leaves.
LEMMA WordsAfterPop ==
  ASSUME Inv, PopChar, WriteRam
  PROVE  \A a \in Address : a # bottom => Words'[a] = Words[a]
<1>1. /\ ram' = ram /\ fifo' = [fifo EXCEPT ![bottom] = NoFlags]
      /\ fifo \in [Address -> Flags]
  BY DEF WriteRam, PopChar, Inv, TypeOK
<1> QED BY <1>1 DEF Words

\* The memories hold words.
LEMMA WordsAreWords == Inv => Words \in Memory(Word) /\ bottom \in Address /\ count \in 0 .. Depth
BY DEF Inv, TypeOK, Words, Memory, Word

\* The queue is as long as the counter says.
LEMMA ContentsIsAQueue ==
  Inv => /\ Contents \in Seq(Word) /\ Len(Contents) = count
         /\ count = 0 <=> Contents = << >>
         /\ count > 0 => Contents[1] = [char |-> ram[bottom], flags |-> fifo[bottom]]
<1> SUFFICES ASSUME Inv
             PROVE  /\ Contents \in Seq(Word) /\ Len(Contents) = count
                    /\ count = 0 <=> Contents = << >>
                    /\ count > 0 => Contents[1] = [char |-> ram[bottom], flags |-> fifo[bottom]]
  OBVIOUS
<1>1. Contents \in Seq(Word) /\ Len(Contents) = count
  BY WordsAreWords, StoredIsASequence DEF Contents
<1>2. count = 0 <=> Contents = << >>
  BY <1>1, EmptySeq
<1>3. ASSUME count > 0 PROVE Contents[1] = [char |-> ram[bottom], flags |-> fifo[bottom]]
  <2>1. 1 \in 1 .. count /\ Slot(bottom, 1 - 1) = bottom /\ bottom \in Address
    BY <1>3, WordsAreWords, DepthAssumption DEF Slot, Address
  <2> QED BY <2>1 DEF Contents, Stored, Words
<1> QED BY <1>1, <1>2, <1>3

\* At every clock edge the contents take one step of the queue, or none.
LEMMA StepImplementsQueueStep ==
  ASSUME Inv, Inv', [Next]_vars
  PROVE  [Queue!Next]_<<Contents, push, pop, data_in, fifo_reset>>
<1>0. /\ Words \in Memory(Word) /\ bottom \in Address /\ count \in 0 .. Depth
      /\ Words' \in Memory(Word) /\ bottom' \in Address
      /\ count' \in 0 .. Depth /\ Depth \in Nat \ {0}
  BY DepthAssumption DEF Inv, TypeOK, Words, Memory, Word
<1>1. /\ Contents \in Seq(Word) /\ Len(Contents) = count
      /\ count = 0 <=> Contents = << >>
      /\ count' = 0 <=> Contents' = << >>
  <2>1. Contents' \in Seq(Word) /\ Len(Contents') = count'
    BY <1>0, StoredIsASequence DEF Contents
  <2>2. count' = 0 <=> Contents' = << >>
    BY <2>1, EmptySeq
  <2> QED BY <2>2, ContentsIsAQueue
<1>2. data_in \in Word /\ top = Slot(bottom, count)
  BY DEF Inv, TypeOK, AnyInputs, PointersAgree
<1>3. ASSUME PushChar, WriteRam PROVE Queue!Put
  <2>1. Words' = [Words EXCEPT ![Slot(bottom, count)] = data_in]
    BY <1>2, <1>3, WordsAfterPush DEF PushChar
  <2>2. count \in 0 .. (Depth - 1)
    BY <1>0, <1>3 DEF PushChar
  <2>3. Stored([Words EXCEPT ![Slot(bottom, count)] = data_in], bottom, count + 1)
          = Append(Stored(Words, bottom, count), data_in)
    BY <1>0, <1>2, <2>2, StoredAppend, Zenon
  <2>4. Contents' = Append(Contents, data_in)
    BY <1>3, <2>1, <2>3 DEF PushChar, Contents
  <2> QED BY <1>1, <1>3, <2>4 DEF PushChar, Queue!Put
<1>4. ASSUME PushFull, WriteRam PROVE Queue!OverwriteOldest
  <2> DEFINE w == [char |-> data_in.char, flags |-> fifo[bottom]]
  <2>1. Words' = [Words EXCEPT ![bottom] = w] /\ w \in Word
    BY <1>2, <1>4, WordsAfterOverrun DEF Inv, TypeOK, Word
  <2>2. count \in 1 .. Depth
    BY <1>0, <1>4 DEF PushFull
  <2>3. Stored([Words EXCEPT ![bottom] = w], bottom, count)
          = [Stored(Words, bottom, count) EXCEPT ![1] = w]
    <3>1. w \in Word
      BY <2>1
    <3> HIDE DEF w
    <3> QED BY <1>0, <2>2, <3>1, StoredHead
  <2>4. Contents' = [Contents EXCEPT ![1] = w]
    BY <1>4, <2>1, <2>3 DEF PushFull, Contents
  <2>5. Contents[1] = [char |-> ram[bottom], flags |-> fifo[bottom]]
    BY <2>2, ContentsIsAQueue
  <2>6. Contents' = [Contents EXCEPT ![1].char = data_in.char]
    <3>1. [Contents[1] EXCEPT !.char = data_in.char] = w
      BY <2>5
    <3>2. [Contents EXCEPT ![1].char = data_in.char]
            = [Contents EXCEPT ![1] = [Contents[1] EXCEPT !.char = data_in.char]]
      OBVIOUS
    <3> QED BY <2>4, <3>1, <3>2
  <2> QED BY <1>1, <1>4, <2>6 DEF PushFull, Queue!OverwriteOldest
<1>5. ASSUME PopChar, WriteRam PROVE Queue!Take
  <2>1. count \in 1 .. Depth /\ count - 1 \in 0 .. Depth /\ Inc(bottom) \in Address
    BY <1>0, <1>5, IncIsAddress DEF PopChar
  <2>2. ASSUME NEW i \in 1 .. (count - 1)
        PROVE  Words[Slot(Inc(bottom), i - 1)] = Words'[Slot(Inc(bottom), i - 1)]
    <3>1. Slot(Inc(bottom), i - 1) \in Address /\ Slot(Inc(bottom), i - 1) # bottom
      BY <1>0, <2>1, DepthAssumption DEF Slot, Inc, Address
    <3> QED BY <1>5, <3>1, WordsAfterPop
  <2>3. Stored(Words, Inc(bottom), count - 1) = Stored(Words', Inc(bottom), count - 1)
    BY <2>2 DEF Stored
  <2>4. Stored(Words, Inc(bottom), count - 1) = Tail(Stored(Words, bottom, count))
    BY <1>0, <2>1, StoredTail
  <2>5. Contents' = Tail(Contents)
    BY <1>5, <2>3, <2>4 DEF PopChar, Contents
  <2> QED BY <1>1, <1>5, <2>1, <2>5 DEF PopChar, Queue!Take
<1>6. ASSUME PushPop, WriteRam, count # 0 PROVE Queue!TakeAndPut
  <2>1. Words' = [Words EXCEPT ![Slot(bottom, count)] = data_in]
    BY <1>2, <1>6, WordsAfterPush DEF PushPop
  <2>2. count \in 1 .. Depth
    BY <1>0, <1>6
  <2>3. Stored([Words EXCEPT ![Slot(bottom, count)] = data_in], Inc(bottom), count)
          = Append(Tail(Stored(Words, bottom, count)), data_in)
    <3>1. Words \in Memory(Word) /\ bottom \in Address /\ data_in \in Word
      BY <1>0, <1>2
    <3> QED BY <2>2, <3>1, StoredShift, Zenon
  <2>4. Contents' = Append(Tail(Contents), data_in)
    BY <1>6, <2>1, <2>3 DEF PushPop, Contents
  <2> QED BY <1>1, <1>6, <2>4 DEF PushPop, Queue!TakeAndPut
<1>7. ASSUME PushPop, count = 0 PROVE Queue!Lost
  BY <1>1, <1>7 DEF PushPop, Queue!Lost
<1>8. ASSUME Hold, WriteRam PROVE Queue!Idle
  <2>1. UNCHANGED Contents
    BY <1>8 DEF Hold, WriteRam, Contents, Words, Stored, Slot
  <2> QED BY <1>1, <1>8, <2>1 DEF Hold, Queue!Idle
<1>9. ASSUME Clear PROVE Queue!Clear
  BY <1>1, <1>9 DEF Clear, Queue!Clear
<1>10. CASE Next
  BY <1>3, <1>4, <1>5, <1>6, <1>7, <1>8, <1>9, <1>10 DEF Next, Clock, Queue!Next
<1>11. CASE UNCHANGED vars
  BY <1>11 DEF vars, inputs, registers, Contents, Words, Stored, Slot
<1> QED BY <1>10, <1>11

\* Characters and flags leave the receiver FIFO as the words of RxQueue.tla do,
\* for every depth, also after the head flags and the error counter went wrong.
THEOREM RFifoImplementsQueue == Spec => ImplementsQueue
<1>1. Init => Queue!Init
  <2>1. ASSUME Init PROVE Contents = << >>
    <3>1. Inv /\ count = 0
      BY <2>1, InvInit DEF Init, Reset
    <3> QED BY <3>1, ContentsIsAQueue
  <2> QED BY <2>1 DEF Queue!Init
<1>2. Inv /\ Inv' /\ [Next]_vars
        => [Queue!Next]_<<Contents, push, pop, data_in, fifo_reset>>
  BY StepImplementsQueueStep
<1> QED BY <1>1, <1>2, InvInit, InvNext, PTL DEF Spec, ImplementsQueue, Queue!Spec

\* A character is overwritten only by a push into the full FIFO, and that sets
\* overrun, for every depth but 1.  (With depth 1, a push and a pop at one edge
\* replace the character without a loss, and bottom comes back to where it was.)
THEOREM LossIsAlwaysReported == Depth # 1 => (Spec => LossIsReported)
<1> DEFINE Lost == ~fifo_reset /\ bottom' = bottom /\ count > 0 /\ ram'[bottom] # ram[bottom]
<1> SUFFICES ASSUME Depth # 1 PROVE Spec => LossIsReported
  OBVIOUS
<1>1. ASSUME Inv, Next, Lost PROVE overrun' \/ reset_status
  <2>1. Clock /\ ram \in [Address -> Char] /\ bottom \in Address /\ count \in 1 .. Depth
    BY <1>1, DepthAssumption DEF Next, Inv, TypeOK
  <2>2. push /\ top = bottom
    BY <1>1, <2>1 DEF Clock, WriteRam
  <2>3. count = Depth
    BY <2>1, <2>2, DepthAssumption, <1>1 DEF Inv, PointersAgree, Slot, Address
  <2>4. ~pop
    <3>1. ASSUME pop PROVE bottom' = Inc(bottom)
      BY <1>1, <2>1, <2>2, <3>1 DEF Clock, PushChar, PushFull, PopChar, PushPop, Hold, Clear
    <3>2. Inc(bottom) # bottom
      BY <2>1, DepthAssumption DEF Inc, Address
    <3> QED BY <1>1, <3>1, <3>2
  <2> QED BY <1>1, <2>1, <2>2, <2>3, <2>4 DEF Clock, Overrun
<1>2. Inv /\ [Next]_vars => [Lost => overrun' \/ reset_status]_vars
  BY <1>1
<1> QED BY <1>2, InvInit, InvNext, PTL DEF Spec, LossIsReported
=============================================================================
