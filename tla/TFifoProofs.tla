----------------------------- MODULE TFifoProofs ----------------------------
(***************************************************************************)
(* The transmitter FIFO keeps its registers in range and in agreement, and  *)
(* implements the queue of CharQueue.tla, for every depth and every         *)
(* alphabet.  The invariant Inv of TFifo.tla is inductive.                  *)
(*                                                                          *)
(* The first half is about the ring alone: what each way of writing to the  *)
(* memory and moving the pointers does to the sequence of words between     *)
(* them, for any set W of words.  RFifoProofs cites it too.                 *)
(***************************************************************************)
EXTENDS TFifo, SequenceTheorems, TLAPS

(***************************************************************************)
(* Facts about addresses.                                                   *)
(***************************************************************************)

\* Adding one to a pointer of Ring.tla gives an address again.
LEMMA IncIsAddress == \A p \in Address : Inc(p) \in Address
BY DepthAssumption DEF Address, Inc

\* The address at a distance of at most Depth is an address.
LEMMA SlotIsAddress == \A p \in Address, k \in 0 .. Depth : Slot(p, k) \in Address
BY DepthAssumption DEF Address, Slot

\* Moving away one more place is incrementing the address reached.
LEMMA SlotOfNext ==
  \A p \in Address, k \in 0 .. (Depth - 1) : Slot(p, k + 1) = Inc(Slot(p, k))
BY DepthAssumption DEF Address, Slot, Inc

\* Moving the start one place up is moving one place further.
LEMMA SlotFromNext ==
  \A p \in Address, k \in 0 .. (Depth - 1) : Slot(Inc(p), k) = Slot(p, k + 1)
BY DepthAssumption DEF Address, Slot, Inc

\* Two distances less than Depth apart lead to different addresses.
LEMMA SlotIsInjective ==
  \A p \in Address, j, k \in 0 .. Depth :
     j < k /\ k - j < Depth => Slot(p, j) # Slot(p, k)
BY DepthAssumption DEF Address, Slot

(***************************************************************************)
(* The words stored.                                                        *)
(***************************************************************************)

\* The memories that hold words of W.
Memory(W) == [Address -> W]

\* The stored words are a sequence of as many words.
LEMMA StoredIsASequence ==
  ASSUME NEW W, NEW m \in Memory(W), NEW b \in Address, NEW n \in 0 .. Depth
  PROVE  /\ Stored(m, b, n) \in Seq(W)
         /\ Len(Stored(m, b, n)) = n
         /\ \A i \in 1 .. n : Stored(m, b, n)[i] = m[Slot(b, i - 1)]
<1>1. ASSUME NEW i \in 1 .. n PROVE m[Slot(b, i - 1)] \in W
  <2>1. i - 1 \in 0 .. Depth
    BY DepthAssumption
  <2> QED BY <2>1, SlotIsAddress DEF Memory
<1>2. Stored(m, b, n) \in [1 .. n -> W]
  BY <1>1 DEF Stored
<1>3. n \in Nat
  BY DepthAssumption
<1>4. Stored(m, b, n) \in Seq(W)
  BY <1>2, <1>3, SeqDef
<1>5. Len(Stored(m, b, n)) = n
  BY <1>2, <1>3, <1>4, LenProperties
<1> QED BY <1>4, <1>5 DEF Stored

\* Only the addresses in use matter.
LEMMA StoredFrame ==
  ASSUME NEW W, NEW m1 \in Memory(W), NEW m2 \in Memory(W),
         NEW b \in Address, NEW n \in 0 .. Depth,
         \A i \in 1 .. n : m1[Slot(b, i - 1)] = m2[Slot(b, i - 1)]
  PROVE  Stored(m1, b, n) = Stored(m2, b, n)
BY DEF Stored

\* A write at the address just above the stored words of a FIFO with
\* room appends the written word: it hits no word in use.
LEMMA StoredAppend ==
  ASSUME NEW W, NEW m \in Memory(W), NEW b \in Address,
         NEW n \in 0 .. (Depth - 1), NEW c \in W
  PROVE  Stored([m EXCEPT ![Slot(b, n)] = c], b, n + 1) = Append(Stored(m, b, n), c)
<1> DEFINE m2 == [m EXCEPT ![Slot(b, n)] = c]
           s  == Stored(m, b, n)
           t  == Stored(m2, b, n + 1)
<1>1. n \in 0 .. Depth /\ n + 1 \in 0 .. Depth /\ Slot(b, n) \in Address
  BY DepthAssumption, SlotIsAddress
<1>2. m2 \in Memory(W)
  BY <1>1 DEF Memory
<1>3. /\ s \in Seq(W) /\ Len(s) = n
      /\ \A i \in 1 .. n : s[i] = m[Slot(b, i - 1)]
  BY <1>1, StoredIsASequence
<1>4. /\ t \in Seq(W) /\ Len(t) = n + 1
      /\ \A i \in 1 .. (n + 1) : t[i] = m2[Slot(b, i - 1)]
  BY <1>1, <1>2, StoredIsASequence
<1>5. /\ Append(s, c) \in Seq(W) /\ Len(Append(s, c)) = n + 1
      /\ \A i \in 1 .. n : Append(s, c)[i] = s[i]
      /\ Append(s, c)[n + 1] = c
  BY <1>3, AppendProperties
<1>6. ASSUME NEW i \in 1 .. (n + 1) PROVE t[i] = Append(s, c)[i]
  <2>1. CASE i = n + 1
    <3>1. Slot(b, i - 1) = Slot(b, n)
      BY <2>1, <1>1
    <3> QED BY <2>1, <3>1, <1>1, <1>4, <1>5 DEF Memory
  <2>2. CASE i \in 1 .. n
    <3>1. i - 1 \in 0 .. Depth /\ n \in 0 .. Depth /\ i - 1 < n /\ n - (i - 1) < Depth
      BY <2>2, DepthAssumption
    <3>2. Slot(b, i - 1) # Slot(b, n)
      BY <3>1, SlotIsInjective
    <3>3. Slot(b, i - 1) \in Address
      BY <3>1, SlotIsAddress, DepthAssumption
    <3> QED BY <2>2, <3>2, <3>3, <1>1, <1>3, <1>4, <1>5 DEF Memory
  <2>3. i = n + 1 \/ i \in 1 .. n
    OBVIOUS
  <2> QED BY <2>1, <2>2, <2>3
<1> HIDE DEF s, t
<1>7. Len(t) = Len(Append(s, c))
  BY <1>4, <1>5
<1>8. t = Append(s, c)
  BY <1>4, <1>5, <1>6, <1>7, SeqEqual
<1> QED BY <1>8 DEF s, t

\* Advancing the start over the first stored word is taking the tail.
LEMMA StoredTail ==
  ASSUME NEW W, NEW m \in Memory(W), NEW b \in Address, NEW n \in 1 .. Depth
  PROVE  Stored(m, Inc(b), n - 1) = Tail(Stored(m, b, n))
<1> DEFINE s == Stored(m, b, n)
           t == Stored(m, Inc(b), n - 1)
<1>1. n \in 0 .. Depth /\ n - 1 \in 0 .. Depth /\ Inc(b) \in Address
  BY DepthAssumption, IncIsAddress
<1>2. /\ s \in Seq(W) /\ Len(s) = n
      /\ \A i \in 1 .. n : s[i] = m[Slot(b, i - 1)]
  BY <1>1, StoredIsASequence
<1>3. /\ t \in Seq(W) /\ Len(t) = n - 1
      /\ \A i \in 1 .. (n - 1) : t[i] = m[Slot(Inc(b), i - 1)]
  BY <1>1, StoredIsASequence
<1> HIDE DEF s, t
<1>4. s # << >>
  BY <1>2, EmptySeq
<1>5. /\ Tail(s) \in Seq(W) /\ Len(Tail(s)) = n - 1
      /\ \A i \in 1 .. (n - 1) : Tail(s)[i] = s[i + 1]
  BY <1>2, <1>4, HeadTailProperties
<1>6. ASSUME NEW i \in 1 .. (n - 1) PROVE t[i] = Tail(s)[i]
  <2>1. i - 1 \in 0 .. (Depth - 1) /\ i + 1 \in 1 .. n /\ (i - 1) + 1 = (i + 1) - 1
    BY DepthAssumption
  <2>2. Slot(Inc(b), i - 1) = Slot(b, (i + 1) - 1)
    BY <2>1, SlotFromNext
  <2> QED BY <1>2, <1>3, <1>5, <2>1, <2>2
<1>7. t = Tail(s)
  BY <1>3, <1>5, <1>6, SeqEqual
<1> QED BY <1>7 DEF s, t

\* The write of a full FIFO falls on its oldest word.
LEMMA StoredReplace ==
  ASSUME NEW W, NEW m \in Memory(W), NEW b \in Address, NEW c \in W
  PROVE  Stored([m EXCEPT ![b] = c], b, Depth) = <<c>> \o Tail(Stored(m, b, Depth))
<1> DEFINE m2 == [m EXCEPT ![b] = c]
           s  == Stored(m, b, Depth)
           t  == Stored(m2, b, Depth)
           u  == <<c>> \o Tail(s)
<1>1. Depth \in 0 .. Depth /\ Depth \in Nat \ {0} /\ m2 \in Memory(W)
  BY DepthAssumption DEF Memory
<1>2. /\ s \in Seq(W) /\ Len(s) = Depth
      /\ \A i \in 1 .. Depth : s[i] = m[Slot(b, i - 1)]
  BY <1>1, StoredIsASequence
<1>3. /\ t \in Seq(W) /\ Len(t) = Depth
      /\ \A i \in 1 .. Depth : t[i] = m2[Slot(b, i - 1)]
  BY <1>1, StoredIsASequence
<1> HIDE DEF s, t
<1>4. s # << >>
  BY <1>1, <1>2, EmptySeq
<1>5. /\ Tail(s) \in Seq(W) /\ Len(Tail(s)) = Depth - 1
      /\ \A i \in 1 .. (Depth - 1) : Tail(s)[i] = s[i + 1]
  BY <1>2, <1>4, HeadTailProperties
<1>6. <<c>> \in Seq(W) /\ Len(<<c>>) = 1 /\ <<c>>[1] = c
  OBVIOUS
<1>7. /\ u \in Seq(W) /\ Len(u) = Depth
      /\ \A i \in 1 .. Depth : u[i] = IF i <= 1 THEN <<c>>[i] ELSE Tail(s)[i - 1]
  BY <1>1, <1>5, <1>6, ConcatProperties
<1> HIDE DEF u
<1>8. ASSUME NEW i \in 1 .. Depth PROVE t[i] = u[i]
  <2>1. CASE i = 1
    <3>1. Slot(b, i - 1) = b
      BY <2>1, DepthAssumption DEF Slot, Address
    <3> QED BY <2>1, <3>1, <1>3, <1>6, <1>7 DEF Memory
  <2>2. CASE i # 1
    <3>1. i - 1 \in 1 .. (Depth - 1) /\ (i - 1) + 1 = i /\ ~(i <= 1)
      BY <2>2, DepthAssumption
    <3>2. u[i] = m[Slot(b, i - 1)]
      BY <3>1, <1>2, <1>5, <1>7
    <3>3. Slot(b, i - 1) # b /\ Slot(b, i - 1) \in Address
      BY <3>1, DepthAssumption DEF Slot, Address
    <3> QED BY <3>2, <3>3, <1>3
  <2> QED BY <2>1, <2>2
<1>9. t = u
  BY <1>3, <1>7, <1>8, SeqEqual
<1> QED BY <1>9 DEF s, t, u

\* Writing above the stored words while dropping the oldest.
LEMMA StoredShift ==
  ASSUME NEW W, NEW m \in Memory(W), NEW b \in Address,
         NEW n \in 1 .. Depth, NEW c \in W
  PROVE  Stored([m EXCEPT ![Slot(b, n)] = c], Inc(b), n)
           = Append(Tail(Stored(m, b, n)), c)
<1>1. n - 1 \in 0 .. (Depth - 1) /\ (n - 1) + 1 = n /\ Inc(b) \in Address
  BY DepthAssumption, IncIsAddress
<1>2. Slot(Inc(b), n - 1) = Slot(b, n)
  BY <1>1, SlotFromNext
<1>3. Stored([m EXCEPT ![Slot(Inc(b), n - 1)] = c], Inc(b), (n - 1) + 1)
        = Append(Stored(m, Inc(b), n - 1), c)
  BY <1>1, StoredAppend, Zenon
<1> QED BY <1>1, <1>2, <1>3, StoredTail, Zenon

(***************************************************************************)
(* Registers in range and in agreement.                                     *)
(***************************************************************************)

LEMMA InvInit == Init => Inv
<1> SUFFICES ASSUME Init PROVE Inv
  OBVIOUS
<1>1. /\ top \in Address /\ bottom \in Address /\ count \in 0 .. Depth
      /\ PointersAgree
  BY DepthAssumption DEF Init, Reset, PointersAgree, Address, Slot
<1>2. ram \in [Address -> Char] /\ overrun \in BOOLEAN /\ AnyInputs
  BY DEF Init, Reset
<1> QED BY <1>1, <1>2 DEF Inv, TypeOK

\* Every clock edge preserves the invariant: one step per case of
\* {push, pop} and reset in uart_tfifo.v.
LEMMA InvNext == Inv /\ [Next]_vars => Inv'
<1> SUFFICES ASSUME Inv, [Next]_vars PROVE Inv'
  OBVIOUS
<1> USE DEF Inv
<1>1. ASSUME Next PROVE AnyInputs'
  BY <1>1 DEF Next, Drive, AnyInputs
<1>2. ASSUME Clock PROVE (ram \in [Address -> Char])'
  BY <1>2 DEF Clock, WriteRam, TypeOK, AnyInputs
<1>3. ASSUME Clock PROVE (overrun \in BOOLEAN)'
  BY <1>3 DEF Clock, Overrun
<1> DEFINE Pointers == /\ top \in Address /\ bottom \in Address
                       /\ count \in 0 .. Depth /\ PointersAgree
<1>4. Pointers
  BY DEF TypeOK
<1>5. ASSUME PushChar PROVE Pointers'
  <2>1. top' \in Address /\ count' \in 0 .. Depth
    BY <1>4, <1>5, IncIsAddress, DepthAssumption DEF PushChar
  <2>2. PointersAgree'
    BY <1>4, <1>5, SlotOfNext, DepthAssumption DEF PushChar, PointersAgree
  <2> QED BY <1>4, <1>5, <2>1, <2>2 DEF PushChar
<1>6. ASSUME PushFull PROVE Pointers'
  BY <1>4, <1>6 DEF PushFull, PointersAgree, Slot
<1>7. ASSUME PopChar PROVE Pointers'
  <2>1. bottom' \in Address /\ count' \in 0 .. Depth
    BY <1>4, <1>7, IncIsAddress, DepthAssumption DEF PopChar
  <2>2. count - 1 \in 0 .. (Depth - 1) /\ (count - 1) + 1 = count
    BY <1>4, <1>7, DepthAssumption DEF PopChar
  <2>3. Slot(Inc(bottom), count - 1) = Slot(bottom, (count - 1) + 1)
    BY <1>4, <2>2, SlotFromNext
  <2>4. PointersAgree'
    BY <1>4, <1>7, <2>2, <2>3 DEF PopChar, PointersAgree, Slot
  <2> QED BY <1>4, <1>7, <2>1, <2>4 DEF PopChar
<1>8. ASSUME PushPop PROVE Pointers'
  <2>1. top' \in Address /\ bottom' \in Address
    BY <1>4, <1>8, IncIsAddress DEF PushPop
  <2>2. Slot(Inc(bottom), count) = Inc(Slot(bottom, count))
    BY <1>4, DepthAssumption DEF Address, Slot, Inc
  <2> QED BY <1>4, <1>8, <2>1, <2>2 DEF PushPop, PointersAgree
<1>9. ASSUME Hold PROVE Pointers'
  BY <1>4, <1>9 DEF Hold, PointersAgree, Slot
<1>10. ASSUME Clear PROVE Pointers'
  BY <1>10, DepthAssumption DEF Clear, PointersAgree, Address, Slot
<1>11. CASE Next
  <2>1. Pointers'
    BY <1>5, <1>6, <1>7, <1>8, <1>9, <1>10, <1>11 DEF Next, Clock
  <2> QED BY <1>1, <1>2, <1>3, <1>11, <2>1 DEF Next, TypeOK
<1>12. CASE UNCHANGED vars
  BY <1>12 DEF vars, inputs, registers, TypeOK, AnyInputs, PointersAgree, Slot
<1> QED BY <1>11, <1>12

\* The pointers, the counter and the overrun bit are always in range.
THEOREM TypeCorrect == Spec => []TypeOK
<1>1. Inv => TypeOK
  BY DEF Inv
<1> QED BY <1>1, InvInit, InvNext, PTL DEF Spec

\* top, bottom and count always agree, for every depth.
THEOREM PointersAlwaysAgree == Spec => []PointersAgree
<1>1. Inv => PointersAgree
  BY DEF Inv
<1> QED BY <1>1, InvInit, InvNext, PTL DEF Spec
(***************************************************************************)
(* The circular buffer implements the queue.                                *)
(***************************************************************************)

\* At every clock edge the contents take one step of the queue.
LEMMA ClockImplementsQueueStep ==
  ASSUME Inv, Inv', Clock
  PROVE  Queue!Next
<1> USE DEF Inv, TypeOK, Contents
<1>0. count \in Nat /\ Depth \in Nat \ {0}
  BY DepthAssumption
<1>m. ram \in Memory(Char) /\ ram' \in Memory(Char) /\ bottom \in Address
  BY DEF Memory
<1>s. Contents \in Seq(Char) /\ Len(Contents) = count
  BY <1>m, StoredIsASequence
<1>e. ASSUME count' = 0 PROVE Contents' = << >>
  <2>1. Contents' \in Seq(Char) /\ Len(Contents') = 0
    BY <1>m, <1>e, StoredIsASequence
  <2> QED BY <2>1, EmptySeq
<1>1. ASSUME Clear PROVE Queue!Clear
  BY <1>1, <1>e DEF Clear, Queue!Clear
<1>2. ASSUME PushChar, WriteRam PROVE Queue!Put
  <2>1. count \in 0 .. (Depth - 1) /\ data_in \in Char
    BY <1>2, <1>0 DEF PushChar, AnyInputs
  <2>2. Stored([ram EXCEPT ![Slot(bottom, count)] = data_in], bottom, count + 1)
          = Append(Stored(ram, bottom, count), data_in)
    <3> HIDE DEF Inv, TypeOK, Contents
    <3> QED BY <1>m, <2>1, StoredAppend, Zenon
  <2>3. /\ ram' = [ram EXCEPT ![Slot(bottom, count)] = data_in]
        /\ bottom' = bottom /\ count' = count + 1
    BY <1>2 DEF PushChar, WriteRam, PointersAgree
  <2>4. Contents' = Append(Contents, data_in)
    BY <2>2, <2>3
  <2> HIDE DEF Contents
  <2> QED BY <1>2, <1>s, <2>4 DEF PushChar, Queue!Put
<1>3. ASSUME PushFull, WriteRam PROVE Queue!ReplaceOldest
  <2>1. Slot(bottom, count) = bottom
    BY <1>3, DepthAssumption DEF PushFull, Slot, Address
  <2>2. /\ ram' = [ram EXCEPT ![bottom] = data_in]
        /\ bottom' = bottom /\ count' = Depth /\ count = Depth
    BY <1>3, <2>1 DEF PushFull, WriteRam, PointersAgree
  <2>3. Stored([ram EXCEPT ![bottom] = data_in], bottom, Depth)
          = <<data_in>> \o Tail(Stored(ram, bottom, Depth))
    <3>1. data_in \in Char
      BY DEF AnyInputs
    <3> QED BY <1>m, <3>1, StoredReplace, Zenon
  <2>4. Contents' = <<data_in>> \o Tail(Contents)
    BY <2>2, <2>3
  <2> HIDE DEF Contents
  <2> QED BY <1>3, <1>s, <2>2, <2>4 DEF PushFull, Queue!ReplaceOldest
<1>4. ASSUME PopChar, WriteRam PROVE Queue!Take
  <2>1. count \in 1 .. Depth
    BY <1>4, <1>0 DEF PopChar
  <2>2. Contents' = Tail(Contents)
    BY <1>m, <1>4, <2>1, StoredTail DEF PopChar, WriteRam
  <2>3. Contents # << >>
    BY <1>s, <2>1, EmptySeq
  <2> QED BY <1>4, <2>2, <2>3 DEF PopChar, Queue!Take
<1>5. ASSUME PushPop, WriteRam, count # 0 PROVE Queue!TakeAndPut
  <2>1. count \in 1 .. Depth /\ data_in \in Char
    BY <1>5, <1>0 DEF AnyInputs
  <2>2. Stored([ram EXCEPT ![Slot(bottom, count)] = data_in], Inc(bottom), count)
          = Append(Tail(Stored(ram, bottom, count)), data_in)
    <3> HIDE DEF Inv, TypeOK, Contents
    <3> QED BY <1>m, <2>1, StoredShift, Zenon
  <2>3. /\ ram' = [ram EXCEPT ![Slot(bottom, count)] = data_in]
        /\ bottom' = Inc(bottom) /\ count' = count
    BY <1>5 DEF PushPop, WriteRam, PointersAgree
  <2>4. Contents' = Append(Tail(Contents), data_in)
    BY <2>2, <2>3
  <2>5. Contents # << >>
    BY <1>s, <2>1, EmptySeq
  <2> QED BY <1>5, <2>4, <2>5 DEF PushPop, Queue!TakeAndPut
<1>6. ASSUME PushPop, count = 0 PROVE Queue!Lost
  <2>1. Contents = << >>
    BY <1>6, <1>s, EmptySeq
  <2> QED BY <1>6, <1>e, <2>1 DEF PushPop, Queue!Lost
<1>7. ASSUME Hold, WriteRam PROVE Queue!Idle
  <2>1. UNCHANGED Contents
    BY <1>7 DEF Hold, WriteRam, Stored, Slot
  <2>2. pop => Contents = << >>
    BY <1>7, <1>s, EmptySeq DEF Hold
  <2> QED BY <1>7, <2>1, <2>2 DEF Hold, Queue!Idle
<1> HIDE DEF Contents
<1> QED BY <1>1, <1>2, <1>3, <1>4, <1>5, <1>6, <1>7 DEF Clock, Queue!Next

\* A step is a step of the queue, or none.
LEMMA StepImplementsQueueStep ==
  ASSUME Inv, Inv', [Next]_vars
  PROVE  [Queue!Next]_<<Contents, push, pop, data_in, fifo_reset>>
<1>1. CASE Next
  BY <1>1, ClockImplementsQueueStep DEF Next
<1>2. CASE UNCHANGED vars
  BY <1>2 DEF vars, inputs, registers, Contents, Stored, Slot
<1> QED BY <1>1, <1>2

\* The transmitter FIFO implements CharQueue.tla: whatever the order of
\* pushes, pops, overruns and resets, the characters that leave are those of
\* that queue, for every depth and every alphabet.
THEOREM TFifoImplementsQueue == Spec => ImplementsQueue
<1>1. Init => Queue!Init
  <2>1. ASSUME Init PROVE Contents = << >>
    <3>1. Inv
      BY <2>1, InvInit
    <3>2. Contents \in Seq(Char) /\ Len(Contents) = 0
      BY <2>1, <3>1, StoredIsASequence DEF Init, Reset, Inv, TypeOK, Contents, Memory
    <3> QED BY <3>2, EmptySeq
  <2> QED BY <2>1 DEF Queue!Init
<1>2. Inv /\ Inv' /\ [Next]_vars
        => [Queue!Next]_<<Contents, push, pop, data_in, fifo_reset>>
  BY StepImplementsQueueStep
<1> QED BY <1>1, <1>2, InvInit, InvNext, PTL DEF Spec, ImplementsQueue, Queue!Spec

=============================================================================
