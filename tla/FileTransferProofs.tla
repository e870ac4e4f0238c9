------------------------- MODULE FileTransferProofs -------------------------
(***************************************************************************)
(* recvfile and sendfile with the console at the other end of the line copy *)
(* whole files (FileCopy), for every set of names, all files whose size an  *)
(* int can hold (FileTransferAssumption: the code's limit, file_size is an  *)
(* int), every number of transfers and enquiries, every depth of the        *)
(* receiver FIFO and of the console's input.                                *)
(***************************************************************************)
EXTENDS FileTransfer, SequenceTheorems, TLAPS

-----------------------------------------------------------------------------
(***************************************************************************)
(* Characters and sequences                                                 *)
(***************************************************************************)
LEMMA ControlChars ==
  /\ {NUL, EOT, ENQ, ACK, FTX, FRX, LF} \subseteq Char
  /\ NUL # EOT /\ NUL # ENQ /\ NUL # ACK /\ NUL # FTX /\ NUL # FRX /\ NUL # LF
  /\ EOT # ENQ /\ EOT # ACK /\ EOT # FTX /\ EOT # FRX /\ EOT # LF
  /\ ENQ # ACK /\ ENQ # FTX /\ ENQ # FRX /\ ENQ # LF
  /\ ACK # FTX /\ ACK # FRX /\ ACK # LF /\ FTX # FRX /\ FTX # LF /\ FRX # LF
BY FileTransferAssumption DEF Char, NUL, EOT, ENQ, ACK, FTX, FRX, LF

\* Reading the first of some characters.
LEMMA ReadConcat ==
  ASSUME NEW S, NEW s \in Seq(S), NEW t \in Seq(S), s # <<>>
  PROVE  s \o t # <<>> /\ Head(s \o t) = Head(s) /\ Tail(s \o t) = Tail(s) \o t
<1>1. Len(s) \in Nat \ {0} /\ Len(t) \in Nat
  BY EmptySeq, LenProperties
<1>2. /\ s \o t \in Seq(S) /\ Len(s \o t) = Len(s) + Len(t)
      /\ \A i \in 1 .. Len(s) + Len(t) :
           (s \o t)[i] = IF i <= Len(s) THEN s[i] ELSE t[i - Len(s)]
  BY ConcatProperties
<1>3. s \o t # <<>>
  BY <1>1, <1>2, EmptySeq
<1>4. Head(s \o t) = Head(s)
  BY <1>1, <1>2
<1>5. /\ Tail(s) \in Seq(S) /\ Len(Tail(s)) = Len(s) - 1
      /\ \A i \in 1 .. Len(Tail(s)) : Tail(s)[i] = s[i + 1]
  BY HeadTailProperties
<1>6. /\ Tail(s \o t) \in Seq(S) /\ Len(Tail(s \o t)) = Len(s) + Len(t) - 1
      /\ \A i \in 1 .. Len(Tail(s \o t)) : Tail(s \o t)[i] = (s \o t)[i + 1]
  BY <1>2, <1>3, HeadTailProperties
<1>7. /\ Tail(s) \o t \in Seq(S) /\ Len(Tail(s) \o t) = Len(s) - 1 + Len(t)
      /\ \A i \in 1 .. (Len(s) - 1 + Len(t)) :
           (Tail(s) \o t)[i] = IF i <= Len(s) - 1 THEN Tail(s)[i] ELSE t[i - (Len(s) - 1)]
  BY <1>5, ConcatProperties
<1>8. ASSUME NEW i \in 1 .. (Len(s) - 1 + Len(t))
      PROVE  Tail(s \o t)[i] = (Tail(s) \o t)[i]
  <2>1. Tail(s \o t)[i] = IF i + 1 <= Len(s) THEN s[i + 1] ELSE t[i + 1 - Len(s)]
    BY <1>1, <1>2, <1>6
  <2>2. (Tail(s) \o t)[i] = IF i <= Len(s) - 1 THEN s[i + 1] ELSE t[i - (Len(s) - 1)]
    BY <1>1, <1>5, <1>7
  <2>3. i + 1 - Len(s) = i - (Len(s) - 1) /\ (i + 1 <= Len(s) <=> i <= Len(s) - 1)
    BY <1>1
  <2> QED BY <2>1, <2>2, <2>3
<1>9. Tail(s \o t) = Tail(s) \o t
  BY <1>1, <1>6, <1>7, <1>8, SeqEqual
<1> QED BY <1>3, <1>4, <1>9

\* A character in front.
LEMMA ReadFirst ==
  ASSUME NEW S, NEW c \in S, NEW t \in Seq(S)
  PROVE  /\ <<c>> \o t \in Seq(S) /\ <<c>> \o t # <<>>
         /\ Head(<<c>> \o t) = c /\ Tail(<<c>> \o t) = t
<1>1. <<c>> \in Seq(S) /\ <<c>> # <<>> /\ Head(<<c>>) = c /\ Tail(<<c>>) = <<>>
  OBVIOUS
<1>2. <<>> \o t = t
  BY ConcatEmptySeq
<1>3. <<c>> \o t \in Seq(S)
  BY <1>1, ConcatProperties
<1> QED BY <1>1, <1>2, <1>3, ReadConcat

LEMMA NotEmpty ==
  ASSUME NEW S, NEW s \in Seq(S), Len(s) > 0
  PROVE  s # <<>>
OBVIOUS

LEMMA FirstAndRest ==
  ASSUME NEW S, NEW s \in Seq(S), s # <<>>
  PROVE  Head(s) \in S /\ Tail(s) \in Seq(S) /\ s = <<Head(s)>> \o Tail(s)
<1>1. /\ Head(s) \in S /\ Tail(s) \in Seq(S) /\ Len(Tail(s)) = Len(s) - 1
      /\ \A i \in 1 .. Len(Tail(s)) : Tail(s)[i] = s[i + 1]
  BY HeadTailProperties
<1>2. Len(s) \in Nat \ {0}
  BY EmptySeq
<1>3. <<Head(s)>> \in Seq(S) /\ Len(<<Head(s)>>) = 1 /\ <<Head(s)>>[1] = s[1]
  BY <1>1, <1>2
<1>4. /\ <<Head(s)>> \o Tail(s) \in Seq(S)
      /\ Len(<<Head(s)>> \o Tail(s)) = 1 + Len(Tail(s))
      /\ \A i \in 1 .. 1 + Len(Tail(s)) :
           (<<Head(s)>> \o Tail(s))[i] = IF i <= 1 THEN <<Head(s)>>[i] ELSE Tail(s)[i - 1]
  BY <1>1, <1>3, ConcatProperties
<1>5. ASSUME NEW i \in 1 .. Len(s) PROVE s[i] = (<<Head(s)>> \o Tail(s))[i]
  BY <1>1, <1>2, <1>3, <1>4
<1>6. Len(<<Head(s)>> \o Tail(s)) = Len(s)
  BY <1>1, <1>2, <1>4
<1> QED BY <1>1, <1>4, <1>5, <1>6, SeqEqual

\* What has been taken and what remains, after one more character.
LEMMA TakeOne ==
  ASSUME NEW S, NEW s \in Seq(S), NEW t \in Seq(S), t # <<>>
  PROVE  Append(s, Head(t)) \o Tail(t) = s \o t
<1>1. Head(t) \in S /\ Tail(t) \in Seq(S) /\ t = <<Head(t)>> \o Tail(t)
  BY FirstAndRest
<1>2. <<Head(t)>> \in Seq(S) /\ Append(s, Head(t)) = s \o <<Head(t)>>
  BY <1>1, AppendIsConcat
<1>3. (s \o <<Head(t)>>) \o Tail(t) = s \o (<<Head(t)>> \o Tail(t))
  BY <1>1, <1>2, ConcatAssociative
<1> QED BY <1>1, <1>2, <1>3

\* Concatenation under a name of its own: the provers see only the facts about
\* it that a step cites.
s ++ t == s \o t

LEMMA CatType == \A s, t \in Seq(Char) : s ++ t \in Seq(Char)
BY ConcatProperties DEF ++

LEMMA CatAssociative == \A s, t, u \in Seq(Char) : (s ++ t) ++ u = s ++ (t ++ u)
<1> SUFFICES ASSUME NEW s \in Seq(Char), NEW t \in Seq(Char), NEW u \in Seq(Char)
             PROVE  (s ++ t) ++ u = s ++ (t ++ u)
  OBVIOUS
<1> QED BY ConcatAssociative DEF ++

LEMMA CatEmpty == \A s \in Seq(Char) : s ++ <<>> = s /\ <<>> ++ s = s
BY ConcatEmptySeq DEF ++

LEMMA CatIsEmpty == \A s, t \in Seq(Char) : s ++ t = <<>> => s = <<>> /\ t = <<>>
BY ConcatSimplifications DEF ++

LEMMA CatCancel == \A s, t, u \in Seq(Char) : s ++ t = s ++ u => t = u
BY ConcatSimplifications DEF ++

LEMMA CatLen == \A s, t \in Seq(Char) : Len(s ++ t) = Len(s) + Len(t)
BY ConcatProperties DEF ++

LEMMA CatRead ==
  ASSUME NEW s \in Seq(Char), NEW t \in Seq(Char), s # <<>>
  PROVE  s ++ t # <<>> /\ Head(s ++ t) = Head(s) /\ Tail(s ++ t) = Tail(s) ++ t
BY ReadConcat DEF ++

LEMMA CatFirst ==
  ASSUME NEW c \in Char, NEW t \in Seq(Char)
  PROVE  /\ <<c>> \in Seq(Char) /\ <<c>> ++ t \in Seq(Char) /\ <<c>> ++ t # <<>>
         /\ Head(<<c>> ++ t) = c /\ Tail(<<c>> ++ t) = t
<1>1. <<c>> \in Seq(Char)
  OBVIOUS
<1> QED BY <1>1, ReadFirst DEF ++

LEMMA CatHeadTail ==
  ASSUME NEW s \in Seq(Char), s # <<>>
  PROVE  Head(s) \in Char /\ Tail(s) \in Seq(Char) /\ s = <<Head(s)>> ++ Tail(s)
BY FirstAndRest DEF ++

LEMMA CatAppend ==
  ASSUME NEW s \in Seq(Char), NEW c \in Char
  PROVE  Append(s, c) \in Seq(Char) /\ Append(s, c) = s ++ <<c>> /\ Len(Append(s, c)) = Len(s) + 1
BY AppendIsConcat, AppendProperties DEF ++

LEMMA CatTake ==
  ASSUME NEW s \in Seq(Char), NEW t \in Seq(Char), t # <<>>
  PROVE  Append(s, Head(t)) ++ Tail(t) = s ++ t
BY TakeOne DEF ++

\* What has been read is as long as what was sent first.
LEMMA SameLength ==
  ASSUME NEW s \in Seq(Char), NEW t \in Seq(Char), NEW m \in Seq(Char), NEW u \in Seq(Char),
         s ++ t = m ++ u, Len(s) = Len(m)
  PROVE  s = m /\ t = u
<1>1. Len(s) \in Nat /\ Len(t) \in Nat /\ Len(u) \in Nat
  BY LenProperties
<1>2. \A i \in 1 .. Len(s) + Len(t) : (s ++ t)[i] = IF i <= Len(s) THEN s[i] ELSE t[i - Len(s)]
  BY ConcatProperties DEF ++
<1>3. \A i \in 1 .. Len(m) + Len(u) : (m ++ u)[i] = IF i <= Len(m) THEN m[i] ELSE u[i - Len(m)]
  BY ConcatProperties DEF ++
<1>4. ASSUME NEW i \in 1 .. Len(s) PROVE s[i] = m[i]
  <2>1. i \in 1 .. Len(s) + Len(t) /\ i \in 1 .. Len(m) + Len(u) /\ i <= Len(s) /\ i <= Len(m)
    BY <1>1
  <2> QED BY <1>2, <1>3, <2>1
<1>5. s = m
  BY <1>4, SeqEqual
<1> QED BY <1>5, CatCancel

\* Strings without a NUL, named so that the provers do not look into them.
CString == Seq(Char \ {NUL})

\* Of a string and the NUL at its end, what has been read is the whole string
\* just when the NUL comes next.
LEMMA UpToNul ==
  \A s, m \in CString : \A t, rest \in Seq(Char) :
    t # <<>> /\ s ++ t = m ++ (<<NUL>> ++ rest) =>
      /\ Head(t) = NUL => s = m /\ Tail(t) = rest
      /\ Head(t) # NUL => Tail(t) # <<>>
<1> SUFFICES ASSUME NEW s \in Seq(Char \ {NUL}), NEW m \in Seq(Char \ {NUL}),
                    NEW t \in Seq(Char), NEW rest \in Seq(Char),
                    t # <<>>, s ++ t = m ++ (<<NUL>> ++ rest)
             PROVE  /\ Head(t) = NUL => s = m /\ Tail(t) = rest
                    /\ Head(t) # NUL => Tail(t) # <<>>
  BY DEF CString
<1>0. NUL \in Char /\ s \o t = m \o (<<NUL>> \o rest)
  BY ControlChars DEF ++
<1>1. m \in Seq(Char) /\ s \in Seq(Char) /\ <<NUL>> \o rest \in Seq(Char)
  BY <1>0, SeqMonotonic, ReadFirst
<1>2. /\ Len(m) \in Nat /\ Len(s) \in Nat /\ Len(rest) \in Nat /\ Len(t) \in Nat \ {0}
  BY <1>1, LenProperties, EmptySeq
<1> DEFINE all == s \o t
<1>3. /\ Len(all) = Len(s) + Len(t)
      /\ \A i \in 1 .. Len(s) + Len(t) : all[i] = IF i <= Len(s) THEN s[i] ELSE t[i - Len(s)]
  BY <1>1, ConcatProperties
<1>4. /\ Len(<<NUL>> \o rest) = 1 + Len(rest) /\ (<<NUL>> \o rest)[1] = NUL
  BY <1>1, ConcatProperties
<1>5. /\ Len(all) = Len(m) + 1 + Len(rest)
      /\ \A i \in 1 .. Len(m) : all[i] = m[i]
      /\ all[Len(m) + 1] = NUL
  <2>1. /\ Len(all) = Len(m) + (1 + Len(rest))
        /\ \A i \in 1 .. Len(m) + (1 + Len(rest)) :
             all[i] = IF i <= Len(m) THEN m[i] ELSE (<<NUL>> \o rest)[i - Len(m)]
    BY <1>0, <1>1, <1>4, ConcatProperties
  <2>2. Len(m) + 1 - Len(m) = 1 /\ Len(m) + 1 \in 1 .. Len(m) + (1 + Len(rest))
    BY <1>2
  <2> HIDE DEF all
  <2>3. all[Len(m) + 1] = NUL
    BY <1>2, <1>4, <2>1, <2>2
  <2> QED BY <1>2, <2>1, <2>3
<1>6. /\ \A i \in 1 .. Len(m) : m[i] # NUL
      /\ \A i \in 1 .. Len(s) : s[i] # NUL
  BY ElementOfSeq
<1>7. Head(t) = all[Len(s) + 1]
  <2>1. Len(s) + 1 - Len(s) = 1 /\ Len(s) + 1 \in 1 .. Len(s) + Len(t)
    BY <1>2
  <2>2. Head(t) = t[1]
    BY <1>2
  <2> HIDE DEF all
  <2> QED BY <1>2, <1>3, <2>1, <2>2
<1> HIDE DEF all
<1>8. Len(s) <= Len(m)
  <2> SUFFICES ASSUME Len(m) < Len(s) PROVE FALSE
    BY <1>2
  <2>1. Len(m) + 1 \in 1 .. Len(s) /\ Len(m) + 1 \in 1 .. Len(s) + Len(t)
    BY <1>2
  <2>2. all[Len(m) + 1] = s[Len(m) + 1]
    BY <1>3, <2>1
  <2> QED BY <1>5, <1>6, <2>1, <2>2
<1>9. CASE Len(s) < Len(m)
  <2>1. Len(s) + 1 \in 1 .. Len(m)
    BY <1>2, <1>9
  <2>2. Head(t) # NUL
    BY <1>5, <1>6, <1>7, <2>1
  <2>3. Len(Tail(t)) = Len(t) - 1
    BY <1>2, HeadTailProperties
  <2>4. Len(t) > 1
    BY <1>2, <1>3, <1>5, <1>9
  <2>5. PICK z \in Seq(Char) : z = Tail(t)
    BY HeadTailProperties
  <2>6. Tail(t) # <<>>
    <3>1. Len(z) > 0
      BY <1>2, <2>3, <2>4, <2>5
    <3>2. z # <<>>
      BY <3>1, NotEmpty
    <3> QED BY <2>5, <3>2, Zenon
  <2> QED BY <1>8, <1>9, <2>2, <2>6
<1>10. CASE Len(s) = Len(m)
  <2>1. Head(t) = NUL
    BY <1>5, <1>7, <1>10
  <2>2. ASSUME NEW i \in 1 .. Len(s) PROVE s[i] = m[i]
    <3>1. i \in 1 .. Len(s) + Len(t) /\ i \in 1 .. Len(m) /\ i <= Len(s)
      BY <1>2, <1>10
    <3> QED BY <1>3, <1>5, <3>1
  <2>3. s = m
    BY <1>1, <1>10, <2>2, SeqEqual
  <2>4. t = <<NUL>> \o rest
    BY <1>0, <1>1, <2>3, ConcatSimplifications
  <2>5. Tail(t) = rest
    BY <1>0, <2>4, ReadFirst
  <2> QED BY <1>8, <2>1, <2>3, <2>5
<1> QED BY <1>2, <1>8, <1>9, <1>10

-----------------------------------------------------------------------------
(***************************************************************************)
(* Sizes                                                                    *)
(***************************************************************************)
File == {d \in Seq(Char) : 2 * Len(d) < IntRange}

\* What % and \div by Radix leave.
LEMMA Digits ==
  ASSUME NEW n \in Nat
  PROVE  n % Radix \in Char /\ Shift(n) \in Nat /\ n = (n % Radix) + Radix * Shift(n)
<1>1. Radix \in Nat /\ Radix > 0
  BY FileTransferAssumption DEF LF
<1>2. n % Radix \in 0 .. Radix - 1 /\ Shift(n) \in Nat /\ n = Radix * Shift(n) + (n % Radix)
  BY <1>1 DEF Shift
<1> QED BY <1>1, <1>2 DEF Char

\* A shift divides a bound by Radix.
LEMMA ShiftBound ==
  ASSUME NEW n \in Nat, NEW m \in Nat, n < Radix * m
  PROVE  Shift(n) < m
<1>1. Radix \in Nat /\ Radix > 0
  BY FileTransferAssumption DEF LF
<1>2. n % Radix \in Nat /\ Shift(n) \in Nat /\ n = (n % Radix) + Radix * Shift(n)
  BY <1>1, Digits DEF Char
<1>3. SUFFICES ASSUME Shift(n) >= m PROVE FALSE
  BY <1>2
<1>4. PICK k \in Nat : Shift(n) = m + k
  <2>1. Shift(n) - m \in Nat /\ Shift(n) = m + (Shift(n) - m)
    BY <1>2, <1>3
  <2> QED BY <2>1
<1>5. Radix * Shift(n) = Radix * m + Radix * k /\ Radix * k \in Nat /\ Radix * m \in Nat
  BY <1>1, <1>4
<1> QED BY <1>2, <1>5

LEMMA IntRangeType == IntRange \in Nat /\ IntRange > 0
<1>1. Radix \in Nat /\ Radix > 0
  BY FileTransferAssumption DEF LF
<1>2. \A m \in Nat : m > 0 => Radix * m \in Nat /\ Radix * m > 0
  BY <1>1
<1>3. Radix * Radix \in Nat /\ Radix * Radix > 0
  BY <1>1, <1>2
<1>4. Radix * (Radix * Radix) \in Nat /\ Radix * (Radix * Radix) > 0
  BY <1>2, <1>3
<1> QED BY <1>2, <1>4 DEF IntRange

\* The console reads the size that the target wrote, and the target that of
\* the console: all four bytes of it.
LEMMA SizeArrives ==
  ASSUME NEW n \in Nat, 2 * n < IntRange
  PROVE  /\ SizeBytes(n) \in Seq(Char) /\ Len(SizeBytes(n)) = 4
         /\ FromBytes(SizeBytes(n)) = n /\ SizeOf(SizeBytes(n)) = n
<1> DEFINE q1 == Shift(n)  q2 == Shift(q1)  q3 == Shift(q2)
<1>1. Radix \in Nat /\ Radix > 0
  BY FileTransferAssumption DEF LF
<1>2. n % Radix \in Char /\ q1 \in Nat /\ n = (n % Radix) + Radix * q1
  BY Digits
<1>3. q1 % Radix \in Char /\ q2 \in Nat /\ q1 = (q1 % Radix) + Radix * q2
  BY <1>2, Digits
<1>4. q2 % Radix \in Char /\ q3 \in Nat /\ q2 = (q2 % Radix) + Radix * q3
  BY <1>3, Digits
<1>5. q3 < Radix
  <2>1. Radix * Radix \in Nat
    BY <1>1
  <2>2. Radix * (Radix * Radix) \in Nat
    BY <1>1, <2>1
  <2>3. n < Radix * (Radix * (Radix * Radix))
    BY IntRangeType DEF IntRange
  <2>4. q1 < Radix * (Radix * Radix)
    BY <2>2, <2>3, ShiftBound
  <2>5. q2 < Radix * Radix
    BY <1>2, <2>1, <2>4, ShiftBound
  <2> QED BY <1>1, <1>3, <2>5, ShiftBound
<1>6. q3 % Radix = q3 /\ q3 \in Char
  <2> HIDE DEF q3
  <2> QED BY <1>1, <1>4, <1>5 DEF Char
<1>7. SizeBytes(n) = <<n % Radix, q1 % Radix, q2 % Radix, q3>>
  BY <1>6 DEF SizeBytes
<1>8. SizeBytes(n) \in Seq(Char) /\ Len(SizeBytes(n)) = 4
  <2> HIDE DEF q1, q2, q3
  <2> QED BY <1>2, <1>3, <1>4, <1>6, <1>7
<1>9. FromBytes(SizeBytes(n)) = n
  <2>1. FromBytes(SizeBytes(n)) =
          (n % Radix) + Radix * ((q1 % Radix) + Radix * ((q2 % Radix) + Radix * q3))
    <3> HIDE DEF q1, q2, q3
    <3> QED BY <1>7 DEF FromBytes
  <2> QED BY <1>2, <1>3, <1>4, <2>1
<1> QED BY <1>8, <1>9 DEF SizeOf

LEMMA SizeIsNatural ==
  ASSUME NEW b \in Seq(Char), Len(b) = 4
  PROVE  FromBytes(b) \in Nat /\ SizeOf(b) \in Int
<1>1. \A i \in 1 .. 4 : b[i] \in Nat
  <2>1. \A i \in 1 .. Len(b) : b[i] \in Char
    BY ElementOfSeq
  <2> QED BY <2>1, FileTransferAssumption DEF Char
<1>2. b[1] \in Nat /\ b[2] \in Nat /\ b[3] \in Nat /\ b[4] \in Nat /\ Radix \in Nat
  BY <1>1, FileTransferAssumption
<1>3. \A x, y \in Nat : x + Radix * y \in Nat
  BY <1>2
<1>4. FromBytes(b) \in Nat
  BY <1>2, <1>3 DEF FromBytes
<1> QED BY <1>4, IntRangeType DEF SizeOf

LEMMA Files ==
  /\ \A d \in Data : d \in File
  /\ <<>> \in File /\ NoFile \notin File
  /\ \A d \in File :
       /\ SizeBytes(Len(d)) \in Seq(Char) /\ Len(SizeBytes(Len(d))) = 4
       /\ FromBytes(SizeBytes(Len(d))) = Len(d) /\ SizeOf(SizeBytes(Len(d))) = Len(d)
<1>1. \A d \in Data : d \in File
  BY FileTransferAssumption DEF File
<1>2. <<>> \in File /\ NoFile \notin File
  BY IntRangeType, EmptySeq, NothingAssumption DEF File
<1>3. ASSUME NEW d \in File
      PROVE  /\ SizeBytes(Len(d)) \in Seq(Char) /\ Len(SizeBytes(Len(d))) = 4
             /\ FromBytes(SizeBytes(Len(d))) = Len(d) /\ SizeOf(SizeBytes(Len(d))) = Len(d)
  <2>1. Len(d) \in Nat /\ 2 * Len(d) < IntRange
    BY LenProperties DEF File
  <2> QED BY <2>1, SizeArrives
<1> QED BY <1>1, <1>2, <1>3

-----------------------------------------------------------------------------
(***************************************************************************)
(* What is on its way to the console: frames of files, line feeds between   *)
(* them, and the beginning of the request or the end that follows.          *)
(***************************************************************************)
SaveJob == [op : {"save"}, name : Name, data : Data]
Feeds   == Seq({LF})

\* A file as sendfile sends it, without the text around it.
Body(j)  == SizeBytes(Len(j.data)) ++ j.data
Frame(j) == <<FTX>> ++ (j.name ++ (<<NUL>> ++ Body(j)))

\* s is the frames of the files of ss, with line feeds after each, then e.
Stream(s, ss, e) ==
  \E r \in [1 .. Len(ss) + 1 -> Seq(Char)] :
    /\ r[1] = s /\ r[Len(ss) + 1] = e
    /\ \A i \in 1 .. Len(ss) : \E l \in Feeds : r[i] = Frame(ss[i]) ++ (l ++ r[i + 1])

\* Line feeds, and before them enquiries if they are not to be answered.
Noise(n, silent) ==
  /\ n \in Seq({ENQ, LF})
  /\ \A i \in 1 .. Len(n) : n[i] = ENQ => silent /\ \A j \in 1 .. i : n[j] = ENQ

\* Noise and then a stream.
Ahead(w, ss, e, silent) ==
  \E n, s \in Seq(Char) : w = n ++ s /\ Noise(n, silent) /\ Stream(s, ss, e)

LEMMA SaveJobFacts ==
  ASSUME NEW j \in SaveJob
  PROVE  /\ j.op = "save" /\ j.name \in Name /\ j.data \in Data
         /\ j.name \in Seq(Char) /\ j.data \in File
         /\ Body(j) \in Seq(Char) /\ Frame(j) \in Seq(Char)
<1>1. j.op = "save" /\ j.name \in Name /\ j.data \in Data
  BY DEF SaveJob
<1>2. j.name \in Seq(Char)
  <2>1. j.name \in Seq(Char \ {NUL})
    BY <1>1, FileTransferAssumption
  <2> QED BY <2>1, SeqMonotonic
<1>3. j.data \in File
  BY <1>1, Files
<1>4. Body(j) \in Seq(Char)
  <2>1. SizeBytes(Len(j.data)) \in Seq(Char) /\ j.data \in Seq(Char)
    BY <1>3, Files DEF File
  <2> QED BY <2>1, CatType DEF Body
<1>5. Frame(j) \in Seq(Char)
  <2>1. <<NUL>> ++ Body(j) \in Seq(Char)
    BY <1>4, ControlChars, CatFirst
  <2>2. j.name ++ (<<NUL>> ++ Body(j)) \in Seq(Char)
    BY <1>2, <2>1, CatType
  <2> QED BY <2>2, ControlChars, CatFirst DEF Frame
<1> QED BY <1>1, <1>2, <1>3, <1>4, <1>5

\* Line feeds are characters.
LEMMA FeedFacts ==
  /\ \A l \in Feeds : l \in Seq(Char) /\ l ++ <<LF>> \in Feeds /\ Noise(l, FALSE)
  /\ <<>> \in Feeds /\ <<LF>> \in Feeds
<1>1. <<>> \in Feeds /\ <<LF>> \in Feeds
  BY DEF Feeds
<1>2. ASSUME NEW l \in Feeds
      PROVE  l \in Seq(Char) /\ l ++ <<LF>> \in Feeds /\ Noise(l, FALSE)
  <2>1. l \in Seq(Char)
    BY ControlChars, SeqMonotonic DEF Feeds
  <2>2. l ++ <<LF>> \in Feeds
    BY <1>1, ConcatProperties DEF Feeds, ++
  <2>3. l \in Seq({ENQ, LF})
    BY SeqMonotonic DEF Feeds
  <2>4. \A i \in 1 .. Len(l) : l[i] = LF
    BY ElementOfSeq DEF Feeds
  <2> QED BY <2>1, <2>2, <2>3, <2>4, ControlChars DEF Noise
<1> QED BY <1>1, <1>2

LEMMA StreamEmpty ==
  ASSUME NEW s \in Seq(Char), NEW e \in Seq(Char)
  PROVE  Stream(s, <<>>, e) <=> s = e
<1>1. Len(<<>>) + 1 = 1
  BY EmptySeq
<1>2. ASSUME s = e PROVE Stream(s, <<>>, e)
  <2> DEFINE r == [i \in 1 .. 1 |-> s]
  <2>1. r \in [1 .. Len(<<>>) + 1 -> Seq(Char)] /\ r[1] = s /\ r[Len(<<>>) + 1] = e
    BY <1>1, <1>2
  <2>2. 1 .. Len(<<>>) = {}
    BY EmptySeq
  <2> HIDE DEF r
  <2> QED BY <2>1, <2>2 DEF Stream
<1>3. ASSUME Stream(s, <<>>, e) PROVE s = e
  BY <1>1, <1>3 DEF Stream
<1> QED BY <1>2, <1>3

\* Characters appended to a stream.
LEMMA StreamMore ==
  ASSUME NEW s \in Seq(Char), NEW ss \in Seq(SaveJob), NEW e \in Seq(Char),
         NEW x \in Seq(Char), Stream(s, ss, e)
  PROVE  Stream(s ++ x, ss, e ++ x)
<1>1. PICK r \in [1 .. Len(ss) + 1 -> Seq(Char)] :
        /\ r[1] = s /\ r[Len(ss) + 1] = e
        /\ \A i \in 1 .. Len(ss) : \E l \in Feeds : r[i] = Frame(ss[i]) ++ (l ++ r[i + 1])
  BY DEF Stream
<1> DEFINE q == [i \in 1 .. Len(ss) + 1 |-> r[i] ++ x]
<1>2. Len(ss) \in Nat
  BY LenProperties
<1>3. q \in [1 .. Len(ss) + 1 -> Seq(Char)]
  BY CatType
<1>4. q[1] = s ++ x /\ q[Len(ss) + 1] = e ++ x
  <2>1. 1 \in 1 .. Len(ss) + 1 /\ Len(ss) + 1 \in 1 .. Len(ss) + 1
    BY <1>2
  <2> QED BY <1>1, <2>1, Zenon
<1>5. ASSUME NEW i \in 1 .. Len(ss)
      PROVE  \E l \in Feeds : q[i] = Frame(ss[i]) ++ (l ++ q[i + 1])
  <2>1. PICK l \in Feeds : r[i] = Frame(ss[i]) ++ (l ++ r[i + 1])
    BY <1>1
  <2>2. i \in 1 .. Len(ss) + 1 /\ i + 1 \in 1 .. Len(ss) + 1
    BY <1>2
  <2>3. q[i] = r[i] ++ x /\ q[i + 1] = r[i + 1] ++ x /\ r[i + 1] \in Seq(Char)
    BY <2>2
  <2>4. Frame(ss[i]) \in Seq(Char) /\ l \in Seq(Char)
    BY SaveJobFacts, FeedFacts, ElementOfSeq
  <2> HIDE DEF q
  <2>5. (Frame(ss[i]) ++ (l ++ r[i + 1])) ++ x = Frame(ss[i]) ++ (l ++ (r[i + 1] ++ x))
    <3>1. l ++ r[i + 1] \in Seq(Char)
      BY <2>3, <2>4, CatType
    <3> QED BY <2>3, <2>4, <3>1, CatAssociative
  <2>6. q[i] = Frame(ss[i]) ++ (l ++ q[i + 1])
    BY <2>1, <2>3, <2>5
  <2> QED BY <2>6
<1> HIDE DEF q
<1> QED BY <1>3, <1>4, <1>5 DEF Stream

\* A file whose frame and a line feed are at the end becomes part of the stream.
LEMMA StreamSave ==
  ASSUME NEW s \in Seq(Char), NEW ss \in Seq(SaveJob), NEW j \in SaveJob,
         Stream(s, ss, Frame(j) ++ <<LF>>)
  PROVE  Stream(s, Append(ss, j), <<>>)
<1> DEFINE e == Frame(j) ++ <<LF>>
           m == Len(ss) + 1
<1>1. PICK r \in [1 .. m -> Seq(Char)] :
        /\ r[1] = s /\ r[m] = e
        /\ \A i \in 1 .. Len(ss) : \E l \in Feeds : r[i] = Frame(ss[i]) ++ (l ++ r[i + 1])
  BY DEF Stream
<1>2. /\ Len(ss) \in Nat /\ m \in Nat \ {0}
      /\ Len(Append(ss, j)) = m /\ Append(ss, j)[m] = j
      /\ \A i \in 1 .. Len(ss) : Append(ss, j)[i] = ss[i]
  BY LenProperties, AppendProperties
<1> DEFINE q == [i \in 1 .. m + 1 |-> IF i <= m THEN r[i] ELSE <<>>]
<1> HIDE DEF m
<1>3. q \in [1 .. m + 1 -> Seq(Char)]
  <2>1. \A i \in 1 .. m + 1 : i <= m => i \in 1 .. m
    BY <1>2
  <2>2. <<>> \in Seq(Char)
    BY EmptySeq
  <2> QED BY <2>1, <2>2
<1>4. /\ q[m + 1] = <<>> /\ q[1] = s
      /\ \A i \in 1 .. m : q[i] = r[i]
  <2>1. m + 1 \in 1 .. m + 1 /\ ~(m + 1 <= m) /\ 1 \in 1 .. m + 1 /\ 1 <= m
    BY <1>2
  <2>2. \A i \in 1 .. m : i \in 1 .. m + 1 /\ i <= m
    BY <1>2
  <2> QED BY <1>1, <2>1, <2>2
<1> HIDE DEF q
<1>5. ASSUME NEW i \in 1 .. m
      PROVE  \E l \in Feeds : q[i] = Frame(Append(ss, j)[i]) ++ (l ++ q[i + 1])
  <2>1. CASE i \in 1 .. Len(ss)
    <3>1. i + 1 \in 1 .. m
      BY <1>2, <2>1 DEF m
    <3> QED BY <1>1, <1>2, <1>4, <2>1, <3>1
  <2>2. CASE i = m
    <3>1. q[i] = Frame(j) ++ <<LF>> /\ q[i + 1] = <<>>
      BY <1>1, <1>4, <2>2
    <3>2. <<LF>> ++ <<>> = <<LF>> /\ <<LF>> \in Feeds
      BY FeedFacts, CatEmpty
    <3> QED BY <1>2, <2>2, <3>1, <3>2
  <2>3. i \in 1 .. Len(ss) \/ i = m
    BY <1>2 DEF m
  <2> QED BY <2>1, <2>2, <2>3
<1> QED BY <1>2, <1>3, <1>4, <1>5 DEF Stream

\* A line feed after a stream of files.
LEMMA StreamText ==
  ASSUME NEW s \in Seq(Char), NEW ss \in Seq(SaveJob), ss # <<>>, Stream(s, ss, <<>>)
  PROVE  Stream(s ++ <<LF>>, ss, <<>>)
<1> DEFINE m == Len(ss)
           x == <<LF>>
<1>1. PICK r \in [1 .. m + 1 -> Seq(Char)] :
        /\ r[1] = s /\ r[m + 1] = <<>>
        /\ \A i \in 1 .. m : \E l \in Feeds : r[i] = Frame(ss[i]) ++ (l ++ r[i + 1])
  BY DEF Stream
<1>2. m \in Nat \ {0} /\ x \in Seq(Char) /\ <<>> \in Seq(Char) /\ x \in Feeds
  BY EmptySeq, FeedFacts
<1> DEFINE q == [i \in 1 .. m + 1 |-> IF i <= m THEN r[i] ++ x ELSE <<>>]
<1> HIDE DEF m, x
<1>3. q \in [1 .. m + 1 -> Seq(Char)]
  BY <1>2, CatType
<1>4. q[1] = s ++ x /\ q[m + 1] = <<>> /\ \A i \in 1 .. m : q[i] = r[i] ++ x
  BY <1>1, <1>2
<1> HIDE DEF q
<1>5. ASSUME NEW i \in 1 .. m
      PROVE  \E l \in Feeds : q[i] = Frame(ss[i]) ++ (l ++ q[i + 1])
  <2>1. PICK l \in Feeds : r[i] = Frame(ss[i]) ++ (l ++ r[i + 1])
    BY <1>1
  <2>2. Frame(ss[i]) \in Seq(Char) /\ l \in Seq(Char)
    BY SaveJobFacts, FeedFacts, ElementOfSeq DEF m
  <2>3. i + 1 \in 1 .. m + 1 /\ r[i + 1] \in Seq(Char)
    BY <1>2
  <2>4. q[i] = Frame(ss[i]) ++ (l ++ (r[i + 1] ++ x))
    <3>1. l ++ r[i + 1] \in Seq(Char)
      BY <2>2, <2>3, CatType
    <3>2. q[i] = (Frame(ss[i]) ++ (l ++ r[i + 1])) ++ x
      BY <1>4, <2>1
    <3> QED BY <1>2, <2>2, <2>3, <3>1, <3>2, CatAssociative
  <2>5. CASE i + 1 \in 1 .. m
    BY <1>4, <2>4, <2>5
  <2>6. CASE i = m
    <3>1. r[i + 1] ++ x = x /\ q[i + 1] = <<>>
      BY <1>1, <1>2, <1>4, <2>6, CatEmpty
    <3>2. l ++ x \in Feeds /\ l ++ x \in Seq(Char)
      BY <2>2, FeedFacts DEF x
    <3>3. q[i] = Frame(ss[i]) ++ ((l ++ x) ++ q[i + 1])
      BY <2>4, <3>1, <3>2, CatEmpty
    <3> QED BY <3>2, <3>3
  <2> QED BY <1>2, <2>5, <2>6
<1>6. Stream(s ++ x, ss, <<>>)
  BY <1>3, <1>4, <1>5 DEF Stream, m
<1> QED BY <1>6 DEF x

\* The first file of a stream.
LEMMA StreamHead ==
  ASSUME NEW s \in Seq(Char), NEW ss \in Seq(SaveJob), ss # <<>>, NEW e \in Seq(Char),
         Stream(s, ss, e)
  PROVE  \E w \in Seq(Char) : s = Frame(Head(ss)) ++ w /\ Ahead(w, Tail(ss), e, FALSE)
<1> DEFINE m == Len(ss)
<1>1. PICK r \in [1 .. m + 1 -> Seq(Char)] :
        /\ r[1] = s /\ r[m + 1] = e
        /\ \A i \in 1 .. m : \E l \in Feeds : r[i] = Frame(ss[i]) ++ (l ++ r[i + 1])
  BY DEF Stream
<1>2. m \in Nat \ {0} /\ Head(ss) = ss[1]
  BY EmptySeq
<1>3. /\ Tail(ss) \in Seq(SaveJob) /\ Len(Tail(ss)) = m - 1
      /\ \A i \in 1 .. m - 1 : Tail(ss)[i] = ss[i + 1]
  BY HeadTailProperties
<1> HIDE DEF m
<1>4. PICK l \in Feeds : s = Frame(Head(ss)) ++ (l ++ r[2])
  <2>1. 1 \in 1 .. m /\ 1 + 1 = 2
    BY <1>2
  <2> QED BY <1>1, <1>2, <2>1
<1>5. l \in Seq(Char) /\ r[2] \in Seq(Char) /\ l ++ r[2] \in Seq(Char)
  <2>1. 2 \in 1 .. m + 1
    BY <1>2
  <2>2. l \in Seq(Char) /\ r[2] \in Seq(Char)
    BY <2>1, FeedFacts
  <2> QED BY <2>2, CatType
<1>6. Stream(r[2], Tail(ss), e)
  <2> DEFINE q == [i \in 1 .. m |-> r[i + 1]]
  <2>1. q \in [1 .. m -> Seq(Char)] /\ q[1] = r[2] /\ q[m] = e
    BY <1>1, <1>2
  <2>2. ASSUME NEW i \in 1 .. m - 1
        PROVE  \E f \in Feeds : q[i] = Frame(Tail(ss)[i]) ++ (f ++ q[i + 1])
    <3>1. i \in 1 .. m /\ i + 1 \in 1 .. m
      BY <1>2
    <3>2. q[i] = r[i + 1] /\ q[i + 1] = r[(i + 1) + 1]
      BY <3>1
    <3>3. \E f \in Feeds : r[i + 1] = Frame(ss[i + 1]) ++ (f ++ r[(i + 1) + 1])
      BY <1>1, <3>1
    <3> HIDE DEF q
    <3> QED BY <1>3, <3>2, <3>3
  <2>3. m - 1 + 1 = m
    BY <1>2
  <2> HIDE DEF q
  <2> QED BY <1>3, <2>1, <2>2, <2>3 DEF Stream
<1>7. Noise(l, FALSE)
  BY FeedFacts
<1> QED BY <1>4, <1>5, <1>6, <1>7 DEF Ahead

\* The same with noise in front.
LEMMA NoiseFacts ==
  ASSUME NEW silent \in BOOLEAN, NEW n, Noise(n, silent)
  PROVE  n \in Seq(Char) /\ Noise(n ++ <<LF>>, silent)
<1>1. n \in Seq({ENQ, LF}) /\ n \in Seq(Char)
  BY ControlChars, SeqMonotonic DEF Noise
<1>2. <<LF>> \in Seq({ENQ, LF}) /\ Len(<<LF>>) = 1 /\ <<LF>>[1] = LF
  OBVIOUS
<1>3. /\ n ++ <<LF>> \in Seq({ENQ, LF}) /\ Len(n ++ <<LF>>) = Len(n) + 1 /\ Len(n) \in Nat
      /\ \A i \in 1 .. Len(n) + 1 :
           (n ++ <<LF>>)[i] = IF i <= Len(n) THEN n[i] ELSE <<LF>>[i - Len(n)]
  BY <1>1, <1>2, ConcatProperties, LenProperties DEF ++
<1>4. ASSUME NEW i \in 1 .. Len(n) + 1, (n ++ <<LF>>)[i] = ENQ
      PROVE  silent /\ \A j \in 1 .. i : (n ++ <<LF>>)[j] = ENQ
  <2>1. CASE i = Len(n) + 1
    <3>1. i - Len(n) = 1 /\ ~(i <= Len(n))
      BY <1>3, <2>1
    <3> QED BY <1>2, <1>3, <1>4, <3>1, ControlChars
  <2>2. CASE i \in 1 .. Len(n)
    <3>1. n[i] = ENQ
      BY <1>3, <1>4, <2>2
    <3>2. silent /\ \A j \in 1 .. i : n[j] = ENQ
      BY <2>2, <3>1 DEF Noise
    <3>3. \A j \in 1 .. i : j \in 1 .. Len(n) + 1 /\ j <= Len(n)
      BY <1>3, <2>2
    <3> QED BY <1>3, <3>2, <3>3
  <2> QED BY <1>3, <2>1, <2>2
<1> QED BY <1>1, <1>3, <1>4 DEF Noise

LEMMA AheadType ==
  ASSUME NEW w, NEW ss, NEW e, NEW silent, Ahead(w, ss, e, silent)
  PROVE  w \in Seq(Char)
BY CatType DEF Ahead

\* More of what comes after the files.
LEMMA AheadMore ==
  ASSUME NEW w, NEW ss \in Seq(SaveJob), NEW e \in Seq(Char), NEW silent \in BOOLEAN,
         NEW x \in Seq(Char), Ahead(w, ss, e, silent)
  PROVE  Ahead(w ++ x, ss, e ++ x, silent)
<1>1. PICK n \in Seq(Char), s \in Seq(Char) :
        w = n ++ s /\ Noise(n, silent) /\ Stream(s, ss, e)
  BY DEF Ahead
<1>2. w ++ x = n ++ (s ++ x) /\ s ++ x \in Seq(Char)
  BY <1>1, CatAssociative, CatType
<1>3. Stream(s ++ x, ss, e ++ x)
  BY <1>1, StreamMore
<1> QED BY <1>1, <1>2, <1>3 DEF Ahead

\* Text between transfers.
LEMMA AheadText ==
  ASSUME NEW w, NEW ss \in Seq(SaveJob), NEW silent \in BOOLEAN, Ahead(w, ss, <<>>, silent)
  PROVE  Ahead(w ++ <<LF>>, ss, <<>>, silent)
<1>1. PICK n \in Seq(Char), s \in Seq(Char) :
        w = n ++ s /\ Noise(n, silent) /\ Stream(s, ss, <<>>)
  BY DEF Ahead
<1>2. <<LF>> \in Seq(Char) /\ <<>> \in Seq(Char)
  BY ControlChars, CatFirst, EmptySeq
<1>3. CASE ss = <<>>
  <2>1. s = <<>> /\ w = n
    BY <1>1, <1>2, <1>3, StreamEmpty, CatEmpty
  <2>2. n ++ <<LF>> \in Seq(Char) /\ Noise(n ++ <<LF>>, silent)
    BY <1>1, <1>2, NoiseFacts, CatType
  <2>3. w ++ <<LF>> = (n ++ <<LF>>) ++ <<>>
    BY <2>1, <2>2, CatEmpty
  <2>4. Stream(<<>>, ss, <<>>)
    BY <1>1, <2>1
  <2> QED BY <1>2, <2>2, <2>3, <2>4 DEF Ahead
<1>4. CASE ss # <<>>
  <2>1. Stream(s ++ <<LF>>, ss, <<>>)
    BY <1>1, <1>4, StreamText
  <2>2. w ++ <<LF>> = n ++ (s ++ <<LF>>) /\ s ++ <<LF>> \in Seq(Char)
    BY <1>1, <1>2, CatAssociative, CatType
  <2> QED BY <1>1, <2>1, <2>2 DEF Ahead
<1> QED BY <1>3, <1>4

\* All that sendfile writes.
LEMMA AheadSave ==
  ASSUME NEW w, NEW ss \in Seq(SaveJob), NEW silent \in BOOLEAN, NEW j \in SaveJob,
         Ahead(w, ss, <<>>, silent)
  PROVE  Ahead(w ++ (<<LF>> ++ (Frame(j) ++ <<LF>>)), Append(ss, j), <<>>, silent)
<1> DEFINE x == Frame(j) ++ <<LF>>
<1>1. x \in Seq(Char) /\ <<LF>> \in Seq(Char) /\ <<>> \in Seq(Char)
  BY ControlChars, CatFirst, SaveJobFacts, CatType, EmptySeq
<1> HIDE DEF x
<1>2. Ahead((w ++ <<LF>>) ++ x, ss, <<>> ++ x, silent)
  BY <1>1, AheadText, AheadMore
<1>3. w ++ (<<LF>> ++ x) = (w ++ <<LF>>) ++ x /\ <<>> ++ x = x
  <2>1. PICK y \in Seq(Char), v \in Seq(Char) : y = <<LF>> /\ v = w
    BY <1>1, AheadType
  <2>2. v ++ (y ++ x) = (v ++ y) ++ x
    BY <1>1, CatAssociative
  <2> QED BY <1>1, <2>1, <2>2, CatEmpty
<1>4. PICK n \in Seq(Char), s \in Seq(Char) :
        w ++ (<<LF>> ++ x) = n ++ s /\ Noise(n, silent) /\ Stream(s, ss, x)
  BY <1>2, <1>3 DEF Ahead
<1>5. Stream(s, Append(ss, j), <<>>)
  BY <1>4, StreamSave DEF x
<1> QED BY <1>1, <1>4, <1>5 DEF Ahead, x

\* The console is silent about enquiries only after another one.
LEMMA AheadLoud ==
  ASSUME NEW w, NEW ss, NEW e, NEW silent \in BOOLEAN, Ahead(w, ss, e, FALSE)
  PROVE  Ahead(w, ss, e, silent)
BY DEF Ahead, Noise

\* What the console reads next.
LEMMA AheadRead ==
  ASSUME NEW w, NEW ss \in Seq(SaveJob), NEW e \in Seq(Char), NEW silent \in BOOLEAN,
         Ahead(w, ss, e, silent), w # <<>>
  PROVE  \/ /\ Head(w) = ENQ /\ silent
            /\ Ahead(Tail(w), ss, e, TRUE)
         \/ /\ Head(w) = LF
            /\ Ahead(Tail(w), ss, e, FALSE)
         \/ /\ ss # <<>>
            /\ \E t \in Seq(Char) : w = Frame(Head(ss)) ++ t /\ Ahead(t, Tail(ss), e, FALSE)
         \/ ss = <<>> /\ w = e
<1>1. PICK n \in Seq(Char), s \in Seq(Char) :
        w = n ++ s /\ Noise(n, silent) /\ Stream(s, ss, e)
  BY DEF Ahead
<1>2. CASE n = <<>>
  <2>1. w = s
    BY <1>1, <1>2, CatEmpty
  <2>2. CASE ss = <<>>
    BY <1>1, <2>1, <2>2, StreamEmpty
  <2>3. CASE ss # <<>>
    BY <1>1, <2>1, <2>3, StreamHead
  <2> QED BY <2>2, <2>3
<1>3. CASE n # <<>>
  <2>1. /\ Head(w) = Head(n) /\ Tail(w) = Tail(n) ++ s /\ Head(n) = n[1]
        /\ Tail(n) \in Seq(Char)
    BY <1>1, <1>3, CatRead, CatHeadTail
  <2>2. /\ n \in Seq({ENQ, LF}) /\ Len(n) \in Nat \ {0}
        /\ Tail(n) \in Seq({ENQ, LF}) /\ Len(Tail(n)) = Len(n) - 1
        /\ \A i \in 1 .. Len(n) - 1 : Tail(n)[i] = n[i + 1]
    BY <1>1, <1>3, HeadTailProperties, EmptySeq DEF Noise
  <2>3. \A i \in 1 .. Len(n) : n[i] = ENQ => silent /\ \A k \in 1 .. i : n[k] = ENQ
    BY <1>1 DEF Noise
  <2>4. n[1] \in {ENQ, LF}
    BY <2>2, ElementOfSeq
  <2>5. CASE n[1] = ENQ
    <3>1. silent
      BY <2>2, <2>3, <2>5
    <3>2. ASSUME NEW i \in 1 .. Len(Tail(n)), Tail(n)[i] = ENQ
          PROVE  \A k \in 1 .. i : Tail(n)[k] = ENQ
      <4>1. i + 1 \in 1 .. Len(n) /\ n[i + 1] = ENQ
        BY <2>2, <3>2
      <4>2. \A k \in 1 .. i : k + 1 \in 1 .. i + 1 /\ k \in 1 .. Len(n) - 1
        BY <2>2
      <4> QED BY <2>2, <2>3, <4>1, <4>2
    <3>3. Noise(Tail(n), TRUE)
      BY <2>2, <3>2 DEF Noise
    <3> QED BY <1>1, <2>1, <2>5, <3>1, <3>3 DEF Ahead
  <2>6. CASE n[1] = LF
    <3>1. ASSUME NEW i \in 1 .. Len(Tail(n)) PROVE Tail(n)[i] # ENQ
      <4>1. i + 1 \in 1 .. Len(n) /\ Tail(n)[i] = n[i + 1] /\ 1 \in 1 .. i + 1
        BY <2>2
      <4> QED BY <2>3, <2>6, <4>1, ControlChars
    <3>2. Noise(Tail(n), FALSE)
      BY <2>2, <3>1 DEF Noise
    <3> QED BY <1>1, <2>1, <2>6, <3>2 DEF Ahead
  <2> QED BY <2>4, <2>5, <2>6
<1> QED BY <1>2, <1>3

-----------------------------------------------------------------------------
(***************************************************************************)
(* The inductive invariant                                                  *)
(***************************************************************************)
\* The characters under way in each direction.
Wire == IF wire = NoChar THEN <<>> ELSE <<wire>>
Up   == hin ++ (Wire ++ out)
Down == rx ++ hout

LoadJob == [op : {"load"}, name : Name]
Loading == {"request", "drain", "name", "size", "ack", "data"}
Unasked == {"request", "drain", "name", "size"}  \* before the ACK
Saving  == hpc \in {"save_name", "save_size", "save_data"}

StateInv == /\ TypeOK
            /\ disk \in [Name -> File \cup {NoFile}]
            /\ saves \in Seq(SaveJob)

\* The target: what it is doing, and for whom.
TargetInv ==
  /\ tpc \in {"enquire", "idle", "finishing", "finished"} => job = NoJob
  /\ tpc \in Loading => job \in LoadJob /\ Copy!Known(job.name)
  /\ tpc = "closing" => \/ job \in SaveJob /\ got = <<>>
                        \/ job \in LoadJob /\ saves = <<>> /\ got = disk[job.name]
  /\ tpc \notin {"size", "data", "closing"} => got = <<>>
  /\ tpc \in {"enquire", "idle", "drain", "size", "data", "finished"} => out = <<>>

BufferInv == hpc \notin {"save_size", "save_data"} => hbuf = <<>>

\* What follows the files the target has sent.
Coming == CASE tpc \in {"request", "drain"}      -> <<FRX>>
            [] tpc \in {"name", "size"}          -> <<FRX>> ++ (job.name ++ <<NUL>>)
            [] tpc \in {"finishing", "finished"} -> <<EOT>>
            [] OTHER                             -> <<>>

\* Files whose frames the console has not begun to read.
Waiting == IF Saving THEN Tail(saves) ELSE saves

\* p is what the console has still to read of the frame of file j.
Taking(j, p) ==
  \/ /\ hpc = "save_name" /\ p # <<>> /\ hname \in Seq(Char \ {NUL})
     /\ hname ++ p = j.name ++ (<<NUL>> ++ Body(j))
  \/ /\ hpc = "save_size" /\ hname = j.name
     /\ Len(hbuf) <= 4 /\ hbuf ++ p = Body(j)
  \/ /\ hpc = "save_data" /\ hname = j.name
     /\ hsize = Len(j.data) /\ hbuf ++ p = j.data

\* Or of what it has begun: the ACK for an empty file may come late, when the
\* target has gone on.
Opened(p) ==
  \/ hpc = "main" /\ p = <<>>
  \/ hpc = "wait_ack" /\ p = <<ACK>> /\ hname \in Name /\ disk[hname] = <<>>
  \/ Saving /\ saves # <<>> /\ Taking(Head(saves), p)

\* The states the two sides can be in together, by what is under way: before
\* the console has answered;
Enquiry == /\ tpc = "enquire" /\ hpc = "main" /\ saves = <<>>
           /\ Up \in Seq({ENQ})
           /\ Down = IF gotENQ THEN <<ACK>> ELSE <<>>

\* when the target is ahead of the console and nobody answers it;
Streaming == /\ tpc \notin {"enquire", "ack", "data"}
             /\ tpc # "closing" => got = <<>>
             /\ Down = <<>>
             /\ \E p, w \in Seq(Char) :
                  /\ Up = p ++ w
                  /\ Opened(p)
                  /\ Ahead(w, Waiting, Coming, gotENQ)

\* and, with every file stored, when the console reads the name of a request,
Naming == /\ hpc = "load_name" /\ tpc \in Unasked /\ saves = <<>>
          /\ hname \in Seq(Char \ {NUL})
          /\ <<FRX>> ++ (hname ++ Up) = Coming
          /\ Down = <<>> /\ got = <<>>

\* when it has sent the size, when ACK and data are on their way,
Sizing == /\ hpc = "wait_ack" /\ tpc \in {"name", "size"} /\ saves = <<>>
          /\ hname = job.name /\ disk[job.name] # NoFile
          /\ Up = <<>> /\ got ++ Down = SizeBytes(Len(disk[job.name]))

Acking == /\ hpc = "wait_ack" /\ tpc \in {"ack", "data"} /\ saves = <<>>
          /\ hname = job.name /\ disk[job.name] # NoFile /\ size = Len(disk[job.name])
          /\ Up = <<ACK>> /\ Down = <<>> /\ got = <<>>

Filing == /\ hpc = "main" /\ tpc \in {"ack", "data"} /\ saves = <<>>
          /\ disk[job.name] # NoFile /\ size = Len(disk[job.name])
          /\ Up = <<>> /\ got ++ Down = disk[job.name]

\* and at the end.
Exited == /\ hpc = "exited" /\ tpc \in {"finishing", "finished"} /\ saves = <<>>
          /\ Up = <<>> /\ Down = <<>>

LinkInv == Enquiry \/ Streaming \/ Naming \/ Sizing \/ Acking \/ Filing \/ Exited

TransferInv == StateInv /\ TargetInv /\ BufferInv /\ LinkInv

-----------------------------------------------------------------------------
(***************************************************************************)
(* What a step does to the characters under way                             *)
(***************************************************************************)
LEMMA UnderWay ==
  ASSUME TypeOK
  PROVE  /\ hin \in Seq(Char) /\ Wire \in Seq(Char) /\ out \in Seq(Char)
         /\ rx \in Seq(Char) /\ hout \in Seq(Char)
         /\ Wire ++ out \in Seq(Char) /\ Up \in Seq(Char) /\ Down \in Seq(Char)
<1>1. /\ hin \in Seq(Char) /\ out \in Seq(Char) /\ rx \in Seq(Char) /\ hout \in Seq(Char)
      /\ wire \in Char \cup {NoChar}
  BY DEF TypeOK
<1>2. Wire \in Seq(Char)
  BY <1>1, EmptySeq DEF Wire
<1> QED BY <1>1, <1>2, CatType DEF Up, Down

\* The line: what has left one place is in the next.
LEMMA LineKeeps ==
  ASSUME TypeOK, ToHost \/ ToTarget \/ PutC
  PROVE  Up' = Up /\ Down' = Down
<1>1. CASE ToHost
  <2>1. Wire = <<wire>> /\ Wire' = <<>> /\ wire \in Char /\ hin' = Append(hin, wire)
        /\ UNCHANGED <<out, rx, hout>>
    BY <1>1, NothingAssumption DEF ToHost, Wire, target, TypeOK
  <2>2. Up' = (hin ++ <<wire>>) ++ (<<>> ++ out)
    BY <2>1, UnderWay, CatAppend DEF Up
  <2>3. <<wire>> \in Seq(Char) /\ <<>> ++ out = out
    BY <2>1, UnderWay, CatFirst, CatEmpty
  <2>4. Up' = hin ++ (<<wire>> ++ out)
    <3>1. PICK y \in Seq(Char) : y = <<wire>>
      BY <2>3
    <3>2. (hin ++ y) ++ out = hin ++ (y ++ out)
      BY UnderWay, CatAssociative
    <3> QED BY <2>2, <2>3, <3>1, <3>2
  <2> QED BY <2>1, <2>4 DEF Up, Down
<1>2. CASE ToTarget
  <2>1. hout # <<>> /\ rx' = Append(rx, Head(hout)) /\ hout' = Tail(hout)
        /\ UNCHANGED <<hin, wire, out>>
    BY <1>2 DEF ToTarget, target
  <2>2. Down' = rx ++ hout
    BY <2>1, UnderWay, CatTake DEF Down
  <2> QED BY <2>1, <2>2 DEF Up, Down, Wire
<1>3. CASE PutC
  <2>1. out # <<>> /\ Wire = <<>> /\ wire' = Head(out) /\ out' = Tail(out)
        /\ UNCHANGED <<hin, rx, hout>>
    BY <1>3 DEF PutC, TxReady, Wire
  <2>2. Head(out) \in Char /\ Tail(out) \in Seq(Char) /\ out = <<Head(out)>> ++ Tail(out)
    BY <2>1, UnderWay, CatHeadTail
  <2>3. Wire' = <<Head(out)>>
    BY <2>1, <2>2, NothingAssumption DEF Wire
  <2>4. Wire' ++ out' = out /\ Wire ++ out = out
    BY <2>1, <2>2, <2>3, UnderWay, CatEmpty
  <2> QED BY <2>1, <2>4 DEF Up, Down
<1> QED BY <1>1, <1>2, <1>3

\* The target has written its last call's characters and begins with others.
LEMMA TargetWrites ==
  ASSUME TypeOK, out = <<>>, out' \in Seq(Char), UNCHANGED <<hin, wire>>
  PROVE  Up' = Up ++ out'
<1>1. Up = hin ++ Wire
  BY UnderWay, CatEmpty DEF Up
<1>2. Up' = hin ++ (Wire ++ out')
  BY DEF Up, Wire
<1>3. PICK x \in Seq(Char) : x = out'
  OBVIOUS
<1>4. hin ++ (Wire ++ x) = (hin ++ Wire) ++ x
  BY UnderWay, CatAssociative
<1> QED BY <1>1, <1>2, <1>3, <1>4

LEMMA ConsoleReads ==
  ASSUME TypeOK, Read, UNCHANGED <<wire, out>>
  PROVE  Up # <<>> /\ Head(Up) = Head(hin) /\ Head(hin) \in Char /\ Up' = Tail(Up)
<1>1. hin # <<>> /\ hin' = Tail(hin)
  BY DEF Read
<1> QED BY <1>1, UnderWay, CatRead, CatHeadTail DEF Up, Wire

LEMMA TargetReads ==
  ASSUME TypeOK, RxReady, rx' = Tail(rx), UNCHANGED hout
  PROVE  Down # <<>> /\ Head(Down) = Head(rx) /\ Head(rx) \in Char /\ Down' = Tail(Down)
BY UnderWay, CatRead, CatHeadTail DEF Down, RxReady

LEMMA ConsoleWrites ==
  ASSUME TypeOK, NEW x \in Seq(Char), hout' = hout \o x, UNCHANGED rx
  PROVE  Down' = Down ++ x
<1>1. Down' = rx ++ (hout ++ x)
  BY DEF Down, ++
<1> QED BY <1>1, UnderWay, CatAssociative DEF Down

-----------------------------------------------------------------------------
(***************************************************************************)
(* Steps of the line and of the target                                      *)
(***************************************************************************)
LEMMA ComingType ==
  ASSUME StateInv, TargetInv
  PROVE  Coming \in Seq(Char)
<1>1. CASE tpc \in {"name", "size"}
  <2>1. job.name \in Seq(Char \ {NUL})
    BY <1>1, FileTransferAssumption DEF TargetInv, Loading, LoadJob
  <2>2. job.name \in Seq(Char)
    BY <2>1, SeqMonotonic
  <2>3. job.name ++ <<NUL>> \in Seq(Char)
    BY <2>2, ControlChars, CatFirst, CatType
  <2> QED BY <1>1, <2>3, ControlChars, CatFirst DEF Coming
<1>2. CASE tpc \notin {"name", "size"}
  BY <1>2, ControlChars, EmptySeq DEF Coming
<1> QED BY <1>1, <1>2

LEMMA WaitingType ==
  ASSUME saves \in Seq(SaveJob), Saving => saves # <<>>
  PROVE  Waiting \in Seq(SaveJob)
BY HeadTailProperties DEF Waiting

\* A step that moves characters along, at most.
LEMMA LinkKept ==
  ASSUME LinkInv, Up' = Up, Down' = Down, UNCHANGED <<tpc, got, size, job, console>>
  PROVE  LinkInv'
<1>1. UNCHANGED <<hpc, hname, hsize, hbuf, gotENQ, disk, saves>>
  BY DEF console
<1>2. Coming' = Coming
  BY DEF Coming
<1>3. Waiting' = Waiting /\ (Saving <=> Saving')
  BY <1>1 DEF Waiting, Saving
<1>4. \A p : Opened(p) => Opened(p)'
  BY <1>1, <1>3 DEF Opened, Taking
<1>5. Streaming => Streaming'
  BY <1>1, <1>2, <1>3, <1>4 DEF Streaming
<1>6. Naming => Naming'
  BY <1>1, <1>2 DEF Naming
<1>7. /\ Enquiry => Enquiry'
      /\ Sizing => Sizing'
      /\ Acking => Acking'
      /\ Filing => Filing'
      /\ Exited => Exited'
  BY <1>1 DEF Enquiry, Sizing, Acking, Filing, Exited
<1> QED BY <1>5, <1>6, <1>7 DEF LinkInv

\* The target writes x and goes on, which adds x to what comes after the files.
LEMMA LinkSends ==
  ASSUME StateInv, TargetInv, NEW x \in Seq(Char),
         Up' = Up ++ x, Coming' = Coming ++ x, Down' = Down,
         tpc' \notin {"enquire", "ack", "data"}, tpc' # "closing" => got' = <<>>,
         UNCHANGED console
  PROVE  /\ Streaming => Streaming'
         /\ Naming /\ tpc' \in Unasked /\ got' = <<>> => Naming'
<1>1. UNCHANGED <<hpc, hname, hsize, hbuf, gotENQ, disk, saves>>
  BY DEF console
<1>2. Waiting' = Waiting /\ (Saving <=> Saving')
  BY <1>1 DEF Waiting, Saving
<1>3. \A p : Opened(p) => Opened(p)'
  BY <1>1, <1>2 DEF Opened, Taking
<1>4. Coming \in Seq(Char) /\ gotENQ \in BOOLEAN /\ saves \in Seq(SaveJob)
  BY ComingType DEF StateInv, TypeOK
<1>5. ASSUME Streaming PROVE Streaming'
  <2>1. PICK p \in Seq(Char), w \in Seq(Char) :
          Up = p ++ w /\ Opened(p) /\ Ahead(w, Waiting, Coming, gotENQ)
    BY <1>5 DEF Streaming
  <2>2. Waiting \in Seq(SaveJob)
    BY <1>4, <2>1, WaitingType DEF Opened, Saving
  <2>3. Ahead(w ++ x, Waiting, Coming ++ x, gotENQ)
    BY <1>4, <2>1, <2>2, AheadMore
  <2>4. Up' = p ++ (w ++ x) /\ w ++ x \in Seq(Char)
    BY <2>1, CatAssociative, CatType
  <2>5. Opened(p)' /\ Ahead(w ++ x, Waiting', Coming', gotENQ')
    BY <1>1, <1>2, <1>3, <2>1, <2>3
  <2>6. Down' = <<>>
    BY <1>5 DEF Streaming
  <2> QED BY <2>4, <2>5, <2>6 DEF Streaming
<1>6. ASSUME Naming, tpc' \in Unasked, got' = <<>> PROVE Naming'
  <2>1. /\ hpc = "load_name" /\ saves = <<>> /\ hname \in Seq(Char \ {NUL})
        /\ <<FRX>> ++ (hname ++ Up) = Coming /\ Down = <<>>
    BY <1>6 DEF Naming
  <2>2. PICK f \in Seq(Char), h \in Seq(Char), u \in Seq(Char) : f = <<FRX>> /\ h = hname /\ u = Up
    BY ControlChars, CatFirst, UnderWay DEF StateInv, TypeOK
  <2>3. (f ++ (h ++ u)) ++ x = f ++ (h ++ (u ++ x))
    <3>1. h ++ u \in Seq(Char)
      BY CatType
    <3> QED BY <3>1, CatAssociative
  <2>4. <<FRX>> ++ (hname ++ Up') = Coming'
    BY <2>1, <2>2, <2>3
  <2> QED BY <1>1, <1>6, <2>1, <2>4 DEF Naming
<1> QED BY <1>5, <1>6

LEMMA LineStep ==
  ASSUME TransferInv, ToHost \/ ToTarget \/ PutC
  PROVE  TransferInv'
<1> USE DEF TransferInv
<1>1. Up' = Up /\ Down' = Down
  BY LineKeeps DEF StateInv
<1>2. /\ UNCHANGED <<tpc, got, size, job, jobs, enquiries, mem, console>>
      /\ out' = out \/ out # <<>>
  BY DEF ToHost, ToTarget, PutC, target
<1>3. TypeOK'
  <2>1. CASE ToHost
    BY <2>1, CatAppend DEF ToHost, StateInv, TypeOK, target, console
  <2>2. CASE ToTarget
    <3>1. Head(hout) \in Char /\ Tail(hout) \in Seq(Char) /\ rx \in Seq(Char)
      BY <2>2, CatHeadTail DEF ToTarget, StateInv, TypeOK
    <3>2. rx' \in Seq(Char) /\ Len(rx') = Len(rx) + 1
      BY <2>2, <3>1, CatAppend DEF ToTarget
    <3>3. Len(rx') <= Depth
      BY <2>2, <3>1, <3>2, LenProperties, FileTransferAssumption DEF ToTarget
    <3> QED BY <2>2, <3>1, <3>2, <3>3 DEF ToTarget, StateInv, TypeOK, target, console
  <2>3. CASE PutC
    <3>1. Head(out) \in Char /\ Tail(out) \in Seq(Char)
      BY <2>3, CatHeadTail DEF PutC, StateInv, TypeOK
    <3> QED BY <2>3, <3>1 DEF PutC, StateInv, TypeOK, target, console
  <2> QED BY <2>1, <2>2, <2>3
<1>4. StateInv'
  BY <1>2, <1>3 DEF StateInv, console
<1>5. TargetInv'
  BY <1>2 DEF TargetInv, Copy!Known, console
<1>6. BufferInv'
  BY <1>2 DEF BufferInv, console
<1>7. LinkInv'
  BY <1>1, <1>2, LinkKept
<1> QED BY <1>4, <1>5, <1>6, <1>7

LEMMA OneMore ==
  ASSUME TypeOK
  PROVE  /\ jobs < MaxJobs => jobs + 1 \in 0 .. MaxJobs
         /\ enquiries < MaxEnquiries => enquiries + 1 \in 0 .. MaxEnquiries
<1>1. jobs \in 0 .. MaxJobs /\ enquiries \in 0 .. MaxEnquiries
  BY DEF TypeOK
<1>2. MaxJobs \in Nat /\ MaxEnquiries \in Nat
  BY FileTransferAssumption
<1> QED BY <1>1, <1>2

LEMMA RxTaken ==
  ASSUME TypeOK, RxReady
  PROVE  Head(rx) \in Char /\ Tail(rx) \in Seq(Char) /\ Len(Tail(rx)) <= Depth
<1>1. rx \in Seq(Char) /\ rx # <<>> /\ Len(rx) <= Depth
  BY DEF RxReady, TypeOK
<1>2. Head(rx) \in Char /\ Tail(rx) \in Seq(Char) /\ Len(Tail(rx)) = Len(rx) - 1
  BY <1>1, HeadTailProperties
<1>3. Len(rx) \in Nat /\ Depth \in Nat
  BY <1>1, LenProperties, FileTransferAssumption
<1>4. Len(Tail(rx)) <= Depth
  BY <1>1, <1>2, <1>3
<1> QED BY <1>2, <1>4

LEMMA EnquireStep ==
  ASSUME TransferInv, Enquire
  PROVE  TransferInv'
<1> USE DEF TransferInv
<1>1. /\ tpc = "enquire" /\ job = NoJob /\ out = <<>> /\ got = <<>>
      /\ UNCHANGED <<out, got, size, mem, job, jobs, hin, hout, console>>
      /\ UNCHANGED <<hpc, hname, hsize, hbuf, gotENQ, disk, saves>>
  BY DEF Enquire, TargetInv, console
<1>2. Enquiry
  BY <1>1 DEF LinkInv, Streaming, Naming, Sizing, Acking, Filing, Exited, Unasked
<1>3. hpc = "main" /\ saves = <<>> /\ Up \in Seq({ENQ}) /\ Up \in Seq(Char)
  BY <1>2, UnderWay DEF Enquiry, StateInv
<1>4. CASE /\ TxReady /\ ~RxReady /\ enquiries < MaxEnquiries
           /\ wire' = ENQ /\ enquiries' = enquiries + 1
           /\ UNCHANGED <<tpc, rx>>
  <2>1. Up' = Up ++ <<ENQ>> /\ Down' = Down
    <3>1. Wire = <<>> /\ Wire' = <<ENQ>>
      BY <1>4, ControlChars, NothingAssumption DEF TxReady, Wire
    <3>2. Up = hin /\ Up' = hin ++ <<ENQ>>
      BY <1>1, <3>1, ControlChars, CatFirst, CatEmpty, UnderWay DEF Up, StateInv
    <3> QED BY <1>1, <1>4, <3>2 DEF Down
  <2>2. Up' \in Seq({ENQ})
    BY <1>3, <2>1, ConcatProperties DEF ++
  <2>3. Enquiry'
    BY <1>1, <1>2, <1>4, <2>1, <2>2 DEF Enquiry
  <2>4. TypeOK'
    <3>1. enquiries' \in 0 .. MaxEnquiries
      BY <1>4, OneMore DEF StateInv
    <3> QED BY <1>1, <1>4, <3>1, ControlChars DEF StateInv, TypeOK
  <2>5. StateInv' /\ TargetInv' /\ BufferInv'
    BY <1>1, <1>4, <2>4 DEF StateInv, TargetInv, BufferInv, Loading
  <2> QED BY <2>3, <2>5 DEF LinkInv
<1>5. CASE /\ RxReady /\ rx' = Tail(rx)
           /\ tpc' = IF Head(rx) = ACK THEN "idle" ELSE tpc
           /\ UNCHANGED <<wire, enquiries>>
  <2>1. Down # <<>> /\ Head(Down) = Head(rx) /\ Down' = Tail(Down) /\ Up' = Up
    BY <1>1, <1>5, TargetReads DEF StateInv, Up, Wire
  <2>2. gotENQ /\ Down = <<ACK>>
    BY <1>2, <2>1 DEF Enquiry
  <2>3. Head(Down) = ACK /\ Tail(Down) = <<>>
    BY <2>2
  <2>4. tpc' = "idle" /\ Down' = <<>>
    BY <1>5, <2>1, <2>3
  <2>5. Noise(Up, TRUE)
    <3>1. Up \in Seq({ENQ, LF})
      BY <1>3, SeqMonotonic
    <3>2. \A i \in 1 .. Len(Up) : Up[i] = ENQ
      BY <1>3, ElementOfSeq
    <3>3. \A i \in 1 .. Len(Up) : \A j \in 1 .. i : j \in 1 .. Len(Up)
      BY <1>3, LenProperties
    <3> QED BY <3>1, <3>2, <3>3 DEF Noise
  <2>6. Ahead(Up, <<>>, <<>>, TRUE)
    <3>1. Up = Up ++ <<>> /\ <<>> \in Seq(Char) /\ Stream(<<>>, <<>>, <<>>)
      BY <1>3, CatEmpty, EmptySeq, StreamEmpty
    <3> QED BY <1>3, <2>5, <3>1 DEF Ahead
  <2>7. Streaming'
    <3>1. PICK w \in Seq(Char), p \in Seq(Char) : w = Up /\ p = <<>>
      BY <1>3, EmptySeq
    <3>2. Up' = p ++ w
      BY <2>1, <3>1, CatEmpty
    <3>3. Coming' = <<>> /\ Waiting' = <<>> /\ gotENQ' = TRUE
      BY <1>1, <1>3, <2>2, <2>4 DEF Coming, Waiting, Saving
    <3>4. Opened(p)'
      BY <1>1, <1>3, <3>1 DEF Opened
    <3>5. Ahead(w, Waiting', Coming', gotENQ')
      BY <2>6, <3>1, <3>3
    <3>6. got' = <<>> /\ Down' = <<>>
      BY <1>1, <2>4
    <3> QED BY <2>4, <3>2, <3>4, <3>5, <3>6 DEF Streaming
  <2>8. Tail(rx) \in Seq(Char) /\ Len(Tail(rx)) <= Depth
    BY <1>5, RxTaken DEF StateInv
  <2>9. TypeOK'
    BY <1>1, <1>5, <2>4, <2>8 DEF StateInv, TypeOK
  <2>10. StateInv' /\ TargetInv' /\ BufferInv'
    BY <1>1, <1>5, <2>4, <2>9 DEF StateInv, TargetInv, BufferInv, Loading
  <2> QED BY <2>7, <2>10 DEF LinkInv
<1> QED BY <1>4, <1>5 DEF Enquire

\* In idle the target is ahead of the console, or level with it.
LEMMA IdleLink ==
  ASSUME TransferInv, tpc \in {"idle", "closing"}
  PROVE  Streaming
BY DEF TransferInv, LinkInv, Enquiry, Naming, Sizing, Acking, Filing, Exited, Unasked

LEMMA RecvFileStep ==
  ASSUME TransferInv, NEW n \in Name, RecvFile(n)
  PROVE  TransferInv'
<1> USE DEF TransferInv
<1>1. /\ tpc = "idle" /\ tpc' = "request" /\ out = <<>> /\ got = <<>>
      /\ job' = [op |-> "load", name |-> n] /\ jobs < MaxJobs /\ jobs' = jobs + 1
      /\ UNCHANGED <<got, size, mem, enquiries, wire, rx, hin, hout, console>>
      /\ UNCHANGED <<hpc, hname, hsize, hbuf, gotENQ, disk, saves>>
  BY DEF RecvFile, TargetInv, console
<1>2. out' = <<LF>> ++ <<FRX>> /\ <<LF>> \in Seq(Char) /\ <<FRX>> \in Seq(Char)
  BY ControlChars, CatFirst DEF RecvFile, Text, ++
<1>3. out' \in Seq(Char)
  BY <1>2, CatType
<1>4. TypeOK'
  <2>1. jobs' \in 0 .. MaxJobs
    BY <1>1, OneMore DEF StateInv
  <2> QED BY <1>1, <1>3, <2>1 DEF StateInv, TypeOK
<1>5. StateInv' /\ BufferInv'
  BY <1>1, <1>4 DEF StateInv, BufferInv
<1>6. TargetInv'
  BY <1>1 DEF TargetInv, RecvFile, LoadJob, Loading, Copy!Known
<1>7. Streaming
  BY <1>1, IdleLink
<1>8. PICK p \in Seq(Char), w \in Seq(Char) :
        Up = p ++ w /\ Opened(p) /\ Ahead(w, Waiting, Coming, gotENQ)
  BY <1>7 DEF Streaming
<1>9. /\ Waiting \in Seq(SaveJob) /\ gotENQ \in BOOLEAN
      /\ Coming = <<>> /\ Coming' = <<FRX>> /\ <<>> \in Seq(Char)
  BY <1>1, <1>8, WaitingType, EmptySeq DEF Opened, Saving, StateInv, TypeOK, Coming
<1>10. Ahead(w ++ <<LF>>, Waiting, <<>>, gotENQ)
  BY <1>8, <1>9, AheadText
<1>11. Ahead((w ++ <<LF>>) ++ <<FRX>>, Waiting, <<FRX>>, gotENQ)
  <2>1. <<>> ++ <<FRX>> = <<FRX>>
    BY <1>2, CatEmpty
  <2> QED BY <1>2, <1>9, <1>10, <2>1, AheadMore
<1>12. /\ Up' = p ++ ((w ++ <<LF>>) ++ <<FRX>>)
       /\ (w ++ <<LF>>) ++ <<FRX>> \in Seq(Char)
       /\ Down' = <<>>
  <2>1. PICK a \in Seq(Char), b \in Seq(Char) : a = <<LF>> /\ b = <<FRX>>
    BY <1>2
  <2>2. Up' = Up ++ out' /\ Down' = <<>>
    BY <1>1, <1>3, <1>7, TargetWrites DEF Streaming, Down, StateInv
  <2>3. (p ++ w) ++ (a ++ b) = p ++ ((w ++ a) ++ b)
    <3>1. a ++ b \in Seq(Char) /\ w ++ a \in Seq(Char)
      BY CatType
    <3> QED BY <3>1, CatAssociative
  <2>4. (w ++ a) ++ b \in Seq(Char)
    BY CatType
  <2> QED BY <1>2, <1>8, <2>1, <2>2, <2>3, <2>4
<1>13. Opened(p)' /\ Waiting' = Waiting
  BY <1>1, <1>8 DEF Opened, Taking, Saving, Waiting
<1>14. Streaming'
  <2>1. PICK v \in Seq(Char) : v = (w ++ <<LF>>) ++ <<FRX>>
    BY <1>12
  <2>2. Up' = p ++ v /\ Ahead(v, Waiting', Coming', gotENQ')
    BY <1>1, <1>9, <1>11, <1>12, <1>13, <2>1
  <2>3. tpc' = "request" /\ got' = <<>> /\ Down' = <<>>
    BY <1>1, <1>12
  <2> QED BY <1>13, <2>2, <2>3 DEF Streaming
<1> QED BY <1>5, <1>6, <1>14 DEF LinkInv

\* What sendfile writes is the frame of its file between line feeds.
LEMMA SaveWritten ==
  ASSUME NEW j \in SaveJob
  PROVE  Text \o <<FTX>> \o j.name \o <<NUL>> \o SizeBytes(Len(j.data)) \o j.data \o Text
           = <<LF>> ++ (Frame(j) ++ <<LF>>)
<1>1. PICK a \in Seq(Char), b \in Seq(Char), c \in Seq(Char), d \in Seq(Char),
           e \in Seq(Char), f \in Seq(Char) :
        /\ a = <<LF>> /\ b = <<FTX>> /\ c = j.name /\ d = <<NUL>>
        /\ e = SizeBytes(Len(j.data)) /\ f = j.data
  BY ControlChars, CatFirst, SaveJobFacts, Files DEF File
<1>2. /\ e ++ f \in Seq(Char) /\ d ++ (e ++ f) \in Seq(Char)
      /\ c ++ (d ++ (e ++ f)) \in Seq(Char) /\ b ++ (c ++ (d ++ (e ++ f))) \in Seq(Char)
      /\ a ++ b \in Seq(Char) /\ (a ++ b) ++ c \in Seq(Char)
      /\ ((a ++ b) ++ c) ++ d \in Seq(Char)
  BY CatType
<1>3. ((((a ++ b) ++ c) ++ d) ++ e) ++ f = a ++ (b ++ (c ++ (d ++ (e ++ f))))
  <2>1. ((((a ++ b) ++ c) ++ d) ++ e) ++ f = (((a ++ b) ++ c) ++ d) ++ (e ++ f)
    BY <1>2, CatAssociative
  <2>2. (((a ++ b) ++ c) ++ d) ++ (e ++ f) = ((a ++ b) ++ c) ++ (d ++ (e ++ f))
    BY <1>2, CatAssociative
  <2>3. ((a ++ b) ++ c) ++ (d ++ (e ++ f)) = (a ++ b) ++ (c ++ (d ++ (e ++ f)))
    BY <1>2, CatAssociative
  <2>4. (a ++ b) ++ (c ++ (d ++ (e ++ f))) = a ++ (b ++ (c ++ (d ++ (e ++ f))))
    BY <1>2, CatAssociative
  <2> QED BY <2>1, <2>2, <2>3, <2>4
<1>4. (((((a ++ b) ++ c) ++ d) ++ e) ++ f) ++ a = a ++ ((b ++ (c ++ (d ++ (e ++ f)))) ++ a)
  BY <1>2, <1>3, CatAssociative
<1>5. Frame(j) = b ++ (c ++ (d ++ (e ++ f)))
  BY <1>1 DEF Frame, Body
<1>6. Text \o <<FTX>> \o j.name \o <<NUL>> \o SizeBytes(Len(j.data)) \o j.data \o Text
        = (((((a ++ b) ++ c) ++ d) ++ e) ++ f) ++ a
  BY <1>1, Zenon DEF Text, ++
<1> QED BY <1>1, <1>4, <1>5, <1>6

LEMMA SavesMore ==
  ASSUME NEW ss \in Seq(SaveJob), NEW j \in SaveJob, ss # <<>>
  PROVE  Append(ss, j) # <<>> /\ Head(Append(ss, j)) = Head(ss)
         /\ Tail(Append(ss, j)) = Append(Tail(ss), j)
<1>1. <<j>> \in Seq(SaveJob) /\ Append(ss, j) = ss \o <<j>>
  BY AppendIsConcat
<1>2. Tail(ss) \in Seq(SaveJob) /\ Append(Tail(ss), j) = Tail(ss) \o <<j>>
  BY HeadTailProperties, AppendIsConcat
<1> QED BY <1>1, <1>2, ReadConcat

LEMMA SendFileStep ==
  ASSUME TransferInv, NEW n \in Name, NEW d \in Data, SendFile(n, d)
  PROVE  TransferInv'
<1> USE DEF TransferInv
<1> DEFINE j == [op |-> "save", name |-> n, data |-> d]
<1>1. /\ tpc = "idle" /\ tpc' = "closing" /\ out = <<>> /\ got = <<>>
      /\ job' = j /\ jobs < MaxJobs /\ jobs' = jobs + 1 /\ saves' = Append(saves, j)
      /\ UNCHANGED <<got, size, mem, enquiries, wire, rx, hin, hout,
                     hpc, hname, hsize, hbuf, gotENQ, disk>>
  BY DEF SendFile, TargetInv
<1>2. j \in SaveJob /\ j.name = n /\ j.data = d
  BY DEF SaveJob
<1>3. out' = <<LF>> ++ (Frame(j) ++ <<LF>>)
  <2>1. out' = Text \o <<FTX>> \o n \o <<NUL>> \o SizeBytes(Len(d)) \o d \o Text
    BY DEF SendFile
  <2> HIDE DEF j
  <2> QED BY <1>2, <2>1, SaveWritten, Zenon
<1> HIDE DEF j
<1>4. PICK x \in Seq(Char) : x = out'
  <2>1. Frame(j) ++ <<LF>> \in Seq(Char)
    BY <1>2, ControlChars, CatFirst, CatType, SaveJobFacts
  <2> QED BY <1>3, <2>1, ControlChars, CatFirst
<1>5. TypeOK'
  <2>1. jobs' \in 0 .. MaxJobs
    BY <1>1, OneMore DEF StateInv
  <2>2. out' \in Seq(Char)
    BY <1>4
  <2> QED BY <1>1, <2>1, <2>2 DEF StateInv, TypeOK
<1>6. StateInv' /\ BufferInv' /\ TargetInv'
  <2>1. saves' \in Seq(SaveJob)
    BY <1>1, <1>2, AppendProperties DEF StateInv
  <2> QED BY <1>1, <1>2, <1>5, <2>1 DEF StateInv, BufferInv, TargetInv, Loading
<1>7. Streaming
  BY <1>1, IdleLink
<1>8. PICK p \in Seq(Char), w \in Seq(Char) :
        Up = p ++ w /\ Opened(p) /\ Ahead(w, Waiting, Coming, gotENQ)
  BY <1>7 DEF Streaming
<1>9. Saving => saves # <<>>
  BY <1>8 DEF Opened, Saving
<1>10. /\ Waiting \in Seq(SaveJob) /\ gotENQ \in BOOLEAN
       /\ Coming = <<>> /\ Coming' = <<>>
  BY <1>1, <1>9, WaitingType DEF StateInv, TypeOK, Coming
<1>11. /\ Saving' <=> Saving
       /\ Waiting' = Append(Waiting, j)
       /\ Saving => saves' # <<>> /\ Head(saves') = Head(saves)
  BY <1>1, <1>2, <1>9, SavesMore DEF Saving, Waiting, StateInv
<1>12. Ahead(w ++ x, Append(Waiting, j), <<>>, gotENQ)
  BY <1>2, <1>3, <1>4, <1>8, <1>10, AheadSave
<1>13. Up' = p ++ (w ++ x) /\ w ++ x \in Seq(Char) /\ Down' = <<>>
  <2>1. Up' = Up ++ x /\ Down' = <<>>
    BY <1>1, <1>4, <1>7, TargetWrites DEF Streaming, Down, StateInv
  <2> QED BY <1>8, <2>1, CatAssociative, CatType
<1>14. Opened(p)'
  BY <1>1, <1>8, <1>11 DEF Opened, Taking
<1>15. Streaming'
  <2>1. Ahead(w ++ x, Waiting', Coming', gotENQ')
    BY <1>1, <1>10, <1>11, <1>12
  <2> QED BY <1>1, <1>13, <1>14, <2>1 DEF Streaming
<1> QED BY <1>6, <1>15 DEF LinkInv

\* A step of the target that only writes.
LEMMA TargetTypes ==
  ASSUME TransferInv, out' \in Seq(Char), got' \in Seq(Char), size' \in Int,
         tpc' \in {"idle", "drain", "name", "size", "ack", "data", "closing", "finishing", "finished"},
         UNCHANGED <<jobs, enquiries, wire, rx, hin, hout, console>>
  PROVE  StateInv' /\ BufferInv'
BY DEF TransferInv, StateInv, BufferInv, TypeOK, console

LEMMA FinishStep ==
  ASSUME TransferInv, Finish
  PROVE  TransferInv'
<1> USE DEF TransferInv
<1>1. /\ tpc = "idle" /\ tpc' = "finishing" /\ out = <<>> /\ out' = <<EOT>> /\ got = <<>>
      /\ job = NoJob
      /\ UNCHANGED <<got, size, mem, job, jobs, enquiries, wire, rx, hin, hout, console>>
  BY DEF Finish, TargetInv
<1>2. PICK x \in Seq(Char) : x = <<EOT>>
  <2>1. <<EOT>> \in Seq(Char)
    BY ControlChars, CatFirst, EmptySeq
  <2> QED BY <2>1, Zenon
<1>3. StateInv' /\ BufferInv'
  <2>1. out' \in Seq(Char) /\ got' \in Seq(Char) /\ size' \in Int
    BY <1>1, <1>2 DEF StateInv, TypeOK
  <2> QED BY <1>1, <2>1, TargetTypes
<1>4. TargetInv'
  BY <1>1 DEF TargetInv, Loading
<1>5. Up' = Up ++ x /\ Down' = Down /\ Coming' = Coming ++ x
  <2>1. Up' = Up ++ x
    BY <1>1, <1>2, TargetWrites DEF StateInv
  <2>2. Coming = <<>> /\ Coming' = x
    BY <1>1, <1>2 DEF Coming
  <2> QED BY <1>1, <2>1, <2>2, CatEmpty DEF Down
<1>6. Streaming'
  BY <1>1, <1>5, IdleLink, LinkSends
<1> QED BY <1>3, <1>4, <1>6 DEF LinkInv

\* The target goes on and writes nothing.
LEMMA LinkGoesOn ==
  ASSUME TransferInv, UNCHANGED <<out, hin, wire, rx, hout, console>>, Coming' = Coming,
         tpc' \notin {"enquire", "ack", "data"}, tpc' # "closing" => got' = <<>>
  PROVE  /\ Streaming => Streaming'
         /\ Naming /\ tpc' \in Unasked /\ got' = <<>> => Naming'
<1>1. PICK x \in Seq(Char) : x = <<>>
  BY EmptySeq
<1>2. Up' = Up /\ Down' = Down
  BY DEF Up, Down, Wire
<1>3. Up \in Seq(Char) /\ Coming \in Seq(Char)
  BY UnderWay, ComingType DEF TransferInv, StateInv
<1>4. Up' = Up ++ x /\ Coming' = Coming ++ x
  BY <1>1, <1>2, <1>3, CatEmpty
<1> QED BY <1>2, <1>4, LinkSends DEF TransferInv

LEMMA EndOfPutStep ==
  ASSUME TransferInv, EndOfPut
  PROVE  TransferInv'
<1> USE DEF TransferInv
<1>1. /\ out = <<>> /\ tpc' = NextStage(tpc) /\ out' = Sends(NextStage(tpc))
      /\ UNCHANGED <<got, size, mem, job, jobs, enquiries, wire, rx, hin, hout, console>>
      /\ UNCHANGED <<hpc, hname, hsize, hbuf, gotENQ, disk, saves>>
      /\ tpc \in {"request", "name", "ack"}
  BY DEF EndOfPut, Proceed, console
<1>2. /\ tpc = "request" => tpc' = "drain"
      /\ tpc = "name" => tpc' = "size"
      /\ tpc = "ack" => tpc' = "data"
      /\ out' = <<>>
  BY <1>1 DEF NextStage, Sends
<1>3. got = <<>> /\ job \in LoadJob /\ Copy!Known(job.name)
  BY <1>1 DEF TargetInv, Loading
<1>4. StateInv' /\ BufferInv'
  <2>1. out' \in Seq(Char) /\ got' \in Seq(Char) /\ size' \in Int
    BY <1>1, <1>2, EmptySeq DEF StateInv, TypeOK
  <2> QED BY <1>1, <1>2, <2>1, TargetTypes
<1>5. TargetInv'
  BY <1>1, <1>2, <1>3 DEF TargetInv, Loading, Copy!Known
<1>6. Up' = Up /\ Down' = Down
  BY <1>1, <1>2 DEF Up, Down, Wire
<1>7. CASE tpc \in {"request", "name"}
  <2>1. Coming' = Coming
    BY <1>1, <1>2, <1>7 DEF Coming
  <2>2. /\ Streaming => Streaming'
        /\ Naming => Naming'
    BY <1>1, <1>2, <1>3, <1>7, <2>1, LinkGoesOn DEF Unasked
  <2>3. Sizing => Sizing'
    BY <1>1, <1>2, <1>6 DEF Sizing
  <2> QED BY <1>4, <1>5, <1>7, <2>2, <2>3 DEF LinkInv, Enquiry, Acking, Filing, Exited
<1>8. CASE tpc = "ack"
  <2>1. Acking => Acking'
    BY <1>1, <1>2, <1>6, <1>8 DEF Acking
  <2>2. Filing => Filing'
    BY <1>1, <1>2, <1>6, <1>8 DEF Filing
  <2> QED BY <1>4, <1>5, <1>8, <2>1, <2>2 DEF LinkInv, Enquiry, Streaming, Naming, Sizing, Exited, Unasked
<1> QED BY <1>1, <1>7, <1>8

LEMMA EndOfCallStep ==
  ASSUME TransferInv, EndOfCall
  PROVE  TransferInv'
<1> USE DEF TransferInv
<1>1. /\ tpc = "closing" /\ out = <<>> /\ tpc' = "idle" /\ out' = <<>>
      /\ job' = NoJob /\ got' = <<>>
      /\ UNCHANGED <<size, jobs, enquiries, wire, rx, hin, hout, console>>
  BY DEF EndOfCall, Proceed, NextStage, Sends
<1>2. StateInv' /\ BufferInv'
  <2>1. out' \in Seq(Char) /\ got' \in Seq(Char) /\ size' \in Int
    BY <1>1, EmptySeq DEF StateInv, TypeOK
  <2> QED BY <1>1, <2>1, TargetTypes
<1>3. TargetInv'
  BY <1>1 DEF TargetInv, Loading
<1>4. Coming' = Coming
  BY <1>1 DEF Coming
<1>5. Streaming'
  BY <1>1, <1>4, IdleLink, LinkGoesOn
<1> QED BY <1>2, <1>3, <1>5 DEF LinkInv

LEMMA FinishedStep ==
  ASSUME TransferInv, Finished
  PROVE  TransferInv'
<1> USE DEF TransferInv
<1>1. /\ tpc = "finishing" /\ out = <<>> /\ tpc' = "finished" /\ out' = <<>>
      /\ UNCHANGED <<got, size, mem, job, jobs, enquiries, wire, rx, hin, hout, console>>
      /\ UNCHANGED <<hpc, saves>>
  BY DEF Finished, Proceed, NextStage, Sends, console
<1>2. got = <<>> /\ job = NoJob
  BY <1>1 DEF TargetInv
<1>3. StateInv' /\ BufferInv'
  <2>1. out' \in Seq(Char) /\ got' \in Seq(Char) /\ size' \in Int
    BY <1>1, EmptySeq DEF StateInv, TypeOK
  <2> QED BY <1>1, <2>1, TargetTypes
<1>4. TargetInv'
  BY <1>1, <1>2 DEF TargetInv, Loading
<1>5. Coming' = Coming
  BY <1>1 DEF Coming
<1>6. Streaming => Streaming'
  BY <1>1, <1>2, <1>5, LinkGoesOn
<1>7. Exited => Exited'
  BY <1>1 DEF Exited, Up, Down, Wire
<1> QED BY <1>1, <1>3, <1>4, <1>6, <1>7
        DEF LinkInv, Enquiry, Naming, Sizing, Acking, Filing, Unasked

LEMMA DrainStep ==
  ASSUME TransferInv, Drain
  PROVE  TransferInv'
<1> USE DEF TransferInv
<1>1. /\ tpc = "drain" /\ out = <<>> /\ got = <<>>
      /\ job \in LoadJob /\ Copy!Known(job.name)
      /\ UNCHANGED <<got, size, mem, job, jobs, enquiries, wire, hin, hout, console>>
      /\ UNCHANGED <<hpc, hname, hsize, hbuf, gotENQ, disk, saves>>
  BY DEF Drain, TargetInv, Loading, console
<1>2. (Streaming \/ Naming) /\ Down = <<>>
  BY <1>1 DEF LinkInv, Enquiry, Streaming, Naming, Sizing, Acking, Filing, Exited
<1>3. ~RxReady
  BY <1>2, UnderWay, CatIsEmpty DEF Down, RxReady, StateInv
<1>4. UNCHANGED rx /\ tpc' = "name" /\ out' = job.name \o <<NUL>>
  BY <1>1, <1>3 DEF Drain, Proceed, NextStage, Sends
<1>5. job.name \in Seq(Char)
  <2>1. job.name \in Seq(Char \ {NUL})
    BY <1>1, FileTransferAssumption DEF LoadJob
  <2> QED BY <2>1, SeqMonotonic
<1>6. PICK x \in Seq(Char) : x = out'
  BY <1>4, <1>5, ControlChars, CatFirst, CatType DEF ++
<1>7. StateInv' /\ BufferInv'
  <2>1. out' \in Seq(Char) /\ got' \in Seq(Char) /\ size' \in Int
    BY <1>1, <1>6 DEF StateInv, TypeOK
  <2> QED BY <1>1, <1>4, <2>1, TargetTypes
<1>8. TargetInv'
  BY <1>1, <1>4 DEF TargetInv, Loading, Copy!Known
<1>9. Up' = Up ++ x /\ Down' = Down /\ Coming' = Coming ++ x
  <2>1. Up' = Up ++ x /\ Down' = Down
    BY <1>1, <1>4, <1>6, TargetWrites DEF StateInv, Down
  <2>2. Coming = <<FRX>> /\ Coming' = <<FRX>> ++ x
    BY <1>1, <1>4, <1>6 DEF Coming, ++
  <2> QED BY <2>1, <2>2
<1>10. Streaming' \/ Naming'
  BY <1>1, <1>2, <1>4, <1>9, LinkSends DEF Unasked
<1> QED BY <1>7, <1>8, <1>10 DEF LinkInv

LEMMA GetCStep ==
  ASSUME TransferInv, GetC
  PROVE  TransferInv'
<1> USE DEF TransferInv
<1>1. /\ tpc \in {"size", "data"} /\ RxReady /\ rx' = Tail(rx) /\ got' = Append(got, Head(rx))
      /\ UNCHANGED <<tpc, out, size, mem, job, jobs, enquiries, wire, hin, hout, console>>
      /\ UNCHANGED <<hpc, hname, hsize, hbuf, gotENQ, disk, saves>>
  BY DEF GetC, console
<1>2. /\ Head(rx) \in Char /\ Tail(rx) \in Seq(Char) /\ Len(Tail(rx)) <= Depth
      /\ got \in Seq(Char) /\ got' \in Seq(Char)
  BY <1>1, RxTaken, CatAppend DEF StateInv, TypeOK
<1>3. StateInv' /\ BufferInv'
  <2>1. TypeOK'
    BY <1>1, <1>2 DEF StateInv, TypeOK
  <2> QED BY <1>1, <2>1 DEF StateInv, BufferInv
<1>4. TargetInv'
  BY <1>1 DEF TargetInv, Loading, Copy!Known
<1>5. /\ Down # <<>> /\ Head(Down) = Head(rx) /\ Down' = Tail(Down) /\ Up' = Up
  BY <1>1, TargetReads DEF StateInv, Up, Wire
<1>6. got' ++ Down' = got ++ Down
  BY <1>1, <1>2, <1>5, UnderWay, CatTake DEF StateInv
<1>7. Sizing \/ Filing
  BY <1>1, <1>5 DEF LinkInv, Enquiry, Streaming, Naming, Acking, Exited
<1>8. (Sizing => Sizing') /\ (Filing => Filing')
  BY <1>1, <1>5, <1>6 DEF Sizing, Filing
<1> QED BY <1>3, <1>4, <1>7, <1>8 DEF LinkInv

LEMMA SizeReceivedStep ==
  ASSUME TransferInv, SizeReceived
  PROVE  TransferInv'
<1> USE DEF TransferInv
<1>1. /\ tpc = "size" /\ tpc' = "ack" /\ out = <<>> /\ out' = <<ACK>> /\ Len(got) = 4
      /\ size' = SizeOf(got) /\ got' = <<>>
      /\ UNCHANGED <<mem, job, jobs, enquiries, wire, rx, hin, hout, console>>
      /\ UNCHANGED <<hpc, hname, hsize, hbuf, gotENQ, disk, saves>>
  BY DEF SizeReceived, Proceed, NextStage, Sends, TargetInv, console
<1>2. job \in LoadJob /\ job.name \in Name /\ Copy!Known(job.name) /\ got \in Seq(Char)
  BY <1>1 DEF TargetInv, Loading, LoadJob, StateInv, TypeOK
<1>3. PICK x \in Seq(Char) : x = <<ACK>>
  <2>1. <<ACK>> \in Seq(Char)
    BY ControlChars, CatFirst, EmptySeq
  <2> QED BY <2>1, Zenon
<1>4. Sizing
  <2>1. got # <<>>
    BY <1>1, EmptySeq
  <2> QED BY <1>1, <2>1 DEF LinkInv, Enquiry, Streaming, Naming, Acking, Filing, Exited
<1>5. disk[job.name] \in File
  BY <1>2, <1>4 DEF Sizing, StateInv
<1>6. got = SizeBytes(Len(disk[job.name])) /\ Down = <<>>
  <2>1. PICK m \in Seq(Char) : m = SizeBytes(Len(disk[job.name])) /\ Len(m) = 4
    BY <1>5, Files
  <2>2. got ++ Down = m ++ <<>> /\ <<>> \in Seq(Char)
    BY <1>4, <2>1, CatEmpty, EmptySeq DEF Sizing
  <2>3. got = m /\ Down = <<>>
    BY <1>1, <1>2, <2>1, <2>2, UnderWay, SameLength DEF StateInv
  <2> QED BY <2>1, <2>3
<1>7. size' = Len(disk[job.name])
  BY <1>1, <1>5, <1>6, Files
<1>8. StateInv' /\ BufferInv'
  <2>1. out' \in Seq(Char) /\ got' \in Seq(Char) /\ size' \in Int
    BY <1>1, <1>2, <1>3, EmptySeq, SizeIsNatural
  <2> QED BY <1>1, <2>1, TargetTypes
<1>9. TargetInv'
  BY <1>1, <1>2 DEF TargetInv, Loading, Copy!Known
<1>10. Up' = <<ACK>> /\ Down' = <<>>
  <2>1. Up' = Up ++ x
    BY <1>1, <1>3, TargetWrites DEF StateInv
  <2> QED BY <1>1, <1>3, <1>4, <1>6, <2>1, CatEmpty DEF Sizing, Down
<1>11. Acking'
  BY <1>1, <1>4, <1>7, <1>10 DEF Sizing, Acking
<1> QED BY <1>8, <1>9, <1>11 DEF LinkInv

LEMMA FileReceivedStep ==
  ASSUME TransferInv, FileReceived
  PROVE  TransferInv'
<1> USE DEF TransferInv
<1>1. /\ tpc = "data" /\ tpc' = "closing" /\ out = <<>> /\ out' = <<LF>> /\ Len(got) >= size
      /\ UNCHANGED <<got, size, mem, job, jobs, enquiries, wire, rx, hin, hout, console>>
      /\ UNCHANGED <<hpc, hname, hsize, hbuf, gotENQ, disk, saves>>
  BY DEF FileReceived, Proceed, NextStage, Sends, Text, TargetInv, console
<1>2. job \in LoadJob /\ job.name \in Name /\ got \in Seq(Char)
  BY <1>1 DEF TargetInv, Loading, LoadJob, StateInv, TypeOK
<1>3. PICK x \in Seq(Char) : x = <<LF>>
  <2>1. <<LF>> \in Seq(Char)
    BY ControlChars, CatFirst, EmptySeq
  <2> QED BY <2>1, Zenon
<1>4. StateInv' /\ BufferInv'
  <2>1. out' \in Seq(Char) /\ got' \in Seq(Char) /\ size' \in Int
    BY <1>1, <1>3 DEF StateInv, TypeOK
  <2> QED BY <1>1, <2>1, TargetTypes
<1>5. Up' = Up ++ x /\ Down' = Down
  BY <1>1, <1>3, TargetWrites DEF StateInv, Down
<1>6. Acking \/ Filing
  BY <1>1 DEF LinkInv, Enquiry, Streaming, Naming, Sizing, Exited, Unasked
<1>7. /\ saves = <<>> /\ disk[job.name] \in File /\ size = Len(disk[job.name])
  BY <1>2, <1>6 DEF Acking, Filing, StateInv
<1>8. /\ got = disk[job.name] /\ Down = <<>>
      /\ \E p \in Seq(Char) : Up = p /\ Opened(p)
  <2>1. Len(got) \in Nat /\ Len(disk[job.name]) \in Nat /\ disk[job.name] \in Seq(Char)
    BY <1>2, <1>7, LenProperties DEF File
  <2>2. CASE Filing
    <3>1. hpc = "main" /\ Up = <<>> /\ got ++ Down = disk[job.name]
      BY <2>2 DEF Filing
    <3>2. Len(got) + Len(Down) = Len(disk[job.name]) /\ Len(Down) \in Nat /\ Down \in Seq(Char)
      BY <1>2, <3>1, UnderWay, CatLen, LenProperties DEF StateInv
    <3>3. Len(Down) = 0
      BY <1>1, <1>7, <2>1, <3>2
    <3>4. Down = <<>>
      BY <3>2, <3>3, EmptySeq
    <3> QED BY <1>2, <3>1, <3>4, CatEmpty, EmptySeq DEF Opened
  <2>3. CASE Acking
    <3>1. hpc = "wait_ack" /\ hname = job.name /\ Up = <<ACK>> /\ got = <<>> /\ Down = <<>>
      BY <2>3 DEF Acking
    <3>2. Len(disk[job.name]) = 0
      <4>1. Len(got) = 0
        BY <3>1, EmptySeq
      <4> QED BY <1>1, <1>7, <2>1, <4>1
    <3>3. disk[job.name] = <<>>
      BY <2>1, <3>2, EmptySeq
    <3> QED BY <1>2, <3>1, <3>3, UnderWay DEF Opened, StateInv
  <2> QED BY <1>6, <2>2, <2>3
<1>9. TargetInv'
  BY <1>1, <1>2, <1>7, <1>8 DEF TargetInv, Loading
<1>10. Streaming'
  <2>1. PICK p \in Seq(Char) : Up = p /\ Opened(p)
    BY <1>8
  <2>2. Up' = p ++ x /\ Down' = <<>>
    BY <1>5, <1>8, <2>1
  <2>3. Ahead(x, <<>>, <<>>, gotENQ)
    <3>1. gotENQ \in BOOLEAN /\ <<>> \in Seq(SaveJob) /\ <<>> \in Seq(Char) /\ <<>> ++ x = x
      BY CatEmpty, EmptySeq DEF StateInv, TypeOK
    <3>2. Noise(<<>>, gotENQ)
      <4>1. <<>> \in Seq({ENQ, LF}) /\ 1 .. Len(<<>>) = {}
        BY EmptySeq
      <4> QED BY <4>1 DEF Noise
    <3>3. Stream(<<>>, <<>>, <<>>) /\ <<>> = <<>> ++ <<>>
      BY <3>1, CatEmpty, StreamEmpty
    <3>4. Ahead(<<>>, <<>>, <<>>, gotENQ)
      BY <3>1, <3>2, <3>3 DEF Ahead
    <3>5. Ahead(<<>> ++ <<LF>>, <<>>, <<>>, gotENQ)
      BY <3>1, <3>4, AheadText
    <3> QED BY <1>3, <3>1, <3>5
  <2>4. Waiting' = <<>> /\ Coming' = <<>> /\ gotENQ' = gotENQ
    <3>1. ~Saving
      BY <1>6 DEF Acking, Filing, Saving
    <3> QED BY <1>1, <1>7, <3>1 DEF Waiting, Saving, Coming
  <2>5. Opened(p)'
    BY <1>1, <2>1 DEF Opened, Taking, Saving
  <2>6. Ahead(x, Waiting', Coming', gotENQ')
    BY <2>3, <2>4
  <2> QED BY <1>1, <2>2, <2>5, <2>6 DEF Streaming
<1> QED BY <1>4, <1>9, <1>10 DEF LinkInv

-----------------------------------------------------------------------------
(***************************************************************************)
(* Steps of the console                                                     *)
(***************************************************************************)
\* The characters of the step's read.
LEMMA Reading ==
  ASSUME TypeOK, Read, UNCHANGED <<wire, out>>
  PROVE  /\ Up # <<>> /\ Head(Up) = Head(hin) /\ Up' = Tail(Up)
         /\ Head(hin) \in Char /\ hin' \in Seq(Char)
<1>1. hin # <<>> /\ hin' = Tail(hin) /\ hin \in Seq(Char)
  BY DEF Read, TypeOK
<1> QED BY <1>1, ConsoleReads, CatHeadTail

LEMMA MainStep ==
  ASSUME TransferInv, Main
  PROVE  TransferInv'
<1> USE DEF TransferInv
<1>1. /\ hpc = "main" /\ Read /\ hname' = <<>>
      /\ hout' = IF Answers(Head(hin)) THEN Append(hout, ACK) ELSE hout
      /\ gotENQ' = (Head(hin) = ENQ)
      /\ UNCHANGED <<target, wire, rx, hsize, hbuf, disk, saves>>
      /\ UNCHANGED <<tpc, out, got, size, mem, job, jobs, enquiries>>
  BY DEF Main, target
<1>2. /\ Head(hin) = EOT => hpc' = "exited"
      /\ Head(hin) = FTX => hpc' = "save_name"
      /\ Head(hin) = FRX => hpc' = "load_name"
      /\ Head(hin) \notin {EOT, FTX, FRX} => hpc' = "main"
  BY ControlChars DEF Main
<1>3. /\ Up # <<>> /\ Head(Up) = Head(hin) /\ Up' = Tail(Up)
      /\ Head(hin) \in Char /\ hin' \in Seq(Char)
  BY <1>1, Reading DEF StateInv
<1>4. StateInv' /\ BufferInv' /\ TargetInv'
  <2>1. hout' \in Seq(Char)
    BY <1>1, ControlChars, CatAppend DEF StateInv, TypeOK
  <2>2. /\ hpc' \in {"main", "exited", "save_name", "load_name"}
        /\ gotENQ' \in BOOLEAN /\ hname' \in Seq(Char)
    BY <1>1, <1>2, EmptySeq
  <2>3. TypeOK'
    BY <1>1, <1>3, <2>1, <2>2 DEF StateInv, TypeOK
  <2>4. hbuf = <<>>
    BY <1>1 DEF BufferInv
  <2>5. TargetInv'
    BY <1>1 DEF TargetInv, Copy!Known
  <2> QED BY <1>1, <2>3, <2>4, <2>5 DEF StateInv, BufferInv
<1>5. Enquiry \/ Streaming
  BY <1>1, <1>3 DEF LinkInv, Naming, Sizing, Acking, Filing, Exited
<1>6. Up \in Seq(Char) /\ Coming' = Coming /\ Coming \in Seq(Char)
      /\ ~Saving /\ Waiting = saves /\ saves \in Seq(SaveJob) /\ gotENQ \in BOOLEAN
  BY <1>1, UnderWay, ComingType DEF StateInv, TypeOK, Coming, Saving, Waiting
<1>7. CASE Enquiry
  <2>1. /\ tpc = "enquire" /\ saves = <<>> /\ Up \in Seq({ENQ})
        /\ Down = IF gotENQ THEN <<ACK>> ELSE <<>>
    BY <1>7 DEF Enquiry
  <2>2. Head(Up) = ENQ /\ Tail(Up) \in Seq({ENQ})
    BY <1>3, <2>1, HeadTailProperties
  <2>3. gotENQ' /\ hpc' = "main"
    BY <1>1, <1>2, <1>3, <2>2, ControlChars
  <2>4. Down' = <<ACK>>
    <3>1. CASE gotENQ
      <4>1. hout' = hout
        BY <1>1, <3>1 DEF Answers
      <4> QED BY <1>1, <2>1, <3>1, <4>1 DEF Down
    <3>2. CASE ~gotENQ
      <4>1. Answers(Head(hin))
        BY <1>3, <2>2, <3>2 DEF Answers
      <4>2. rx = <<>> /\ hout = <<>>
        BY <2>1, <3>2, UnderWay, CatIsEmpty DEF Down, StateInv
      <4>3. hout' = <<ACK>>
        BY <1>1, <4>1, <4>2
      <4>4. <<ACK>> \in Seq(Char)
        BY ControlChars, CatFirst, EmptySeq
      <4> QED BY <1>1, <4>2, <4>3, <4>4, CatEmpty DEF Down
    <3> QED BY <3>1, <3>2
  <2>5. Enquiry'
    BY <1>1, <1>3, <2>1, <2>2, <2>3, <2>4 DEF Enquiry
  <2> QED BY <1>4, <2>5 DEF LinkInv
<1>8. CASE Streaming
  <2>1. /\ tpc \notin {"enquire", "ack", "data"} /\ (tpc # "closing" => got = <<>>)
        /\ Down = <<>>
    BY <1>8 DEF Streaming
  <2>2. Ahead(Up, saves, Coming, gotENQ)
    <3>1. PICK p \in Seq(Char), w \in Seq(Char) :
            Up = p ++ w /\ Opened(p) /\ Ahead(w, Waiting, Coming, gotENQ)
      BY <1>8 DEF Streaming
    <3>2. p = <<>>
      BY <1>1, <1>6, <3>1 DEF Opened
    <3> QED BY <1>6, <3>1, <3>2, CatEmpty
  <2>3. Down' = <<>> \/ (Head(Up) = ENQ /\ ~gotENQ)
    <3>1. Answers(Head(hin)) \/ hout' = hout
      BY <1>1
    <3> QED BY <1>1, <1>3, <2>1, <3>1 DEF Answers, Down
  <2>4. ASSUME Head(Up) \in {ENQ, LF}, Down' = <<>>,
               Ahead(Tail(Up), saves, Coming, Head(Up) = ENQ)
        PROVE  Streaming'
    <3>1. hpc' = "main" /\ gotENQ' = (Head(Up) = ENQ)
      BY <1>1, <1>2, <1>3, <2>4, ControlChars
    <3>2. Tail(Up) \in Seq(Char)
      BY <1>3, <1>6, CatHeadTail
    <3>3. PICK p \in Seq(Char), w \in Seq(Char) : p = <<>> /\ w = Tail(Up)
      BY <3>2, EmptySeq
    <3>4. Up' = p ++ w /\ Opened(p)'
      BY <1>3, <3>1, <3>3, CatEmpty DEF Opened
    <3>5. Waiting' = saves
      BY <1>1, <3>1 DEF Waiting, Saving
    <3>6. Ahead(w, Waiting', Coming', gotENQ')
      BY <1>6, <2>4, <3>1, <3>3, <3>5
    <3> QED BY <1>1, <2>1, <2>4, <3>4, <3>6 DEF Streaming
  <2>5. CASE Head(Up) = ENQ /\ gotENQ /\ Ahead(Tail(Up), saves, Coming, TRUE)
    <3>1. Streaming'
      BY <2>3, <2>4, <2>5
    <3> QED BY <1>4, <3>1 DEF LinkInv
  <2>6. CASE Head(Up) = LF /\ Ahead(Tail(Up), saves, Coming, FALSE)
    <3>1. Streaming'
      <4>1. (Head(Up) = ENQ) = FALSE
        BY <2>6, ControlChars
      <4> QED BY <2>3, <2>4, <2>6, <4>1
    <3> QED BY <1>4, <3>1 DEF LinkInv
  <2>7. CASE /\ saves # <<>>
             /\ \E t \in Seq(Char) : Up = Frame(Head(saves)) ++ t
                                     /\ Ahead(t, Tail(saves), Coming, FALSE)
    <3>1. PICK t \in Seq(Char) : Up = Frame(Head(saves)) ++ t
                                 /\ Ahead(t, Tail(saves), Coming, FALSE)
      BY <2>7
    <3>2. PICK j \in SaveJob : j = Head(saves)
      BY <1>6, <2>7, HeadTailProperties
    <3>3. PICK p \in Seq(Char) : p = j.name ++ (<<NUL>> ++ Body(j)) /\ p # <<>>
      <4>1. <<NUL>> ++ Body(j) \in Seq(Char) /\ <<NUL>> ++ Body(j) # <<>>
        BY SaveJobFacts, ControlChars, CatFirst
      <4>2. PICK a \in Seq(Char), b \in Seq(Char) : a = j.name /\ b = <<NUL>> ++ Body(j)
        BY <4>1, SaveJobFacts
      <4>3. a ++ b \in Seq(Char) /\ a ++ b # <<>>
        BY <4>1, <4>2, CatType, CatIsEmpty
      <4> QED BY <4>2, <4>3
    <3>4. Frame(j) = <<FTX>> ++ p /\ <<FTX>> \in Seq(Char)
      BY <3>3, ControlChars, CatFirst DEF Frame
    <3>5. Head(Up) = FTX /\ Up' = p ++ t
      <4>1. Up = (<<FTX>> ++ p) ++ t
        BY <3>1, <3>2, <3>4
      <4>2. PICK y \in Seq(Char) : y = <<FTX>>
        BY <3>4
      <4>3. Up = y ++ (p ++ t) /\ p ++ t \in Seq(Char)
        BY <4>1, <4>2, CatAssociative, CatType
      <4> QED BY <1>3, <4>2, <4>3, ControlChars, CatFirst
    <3>6. hpc' = "save_name" /\ gotENQ' = FALSE /\ Down' = <<>>
      BY <1>1, <1>2, <1>3, <2>3, <3>5, ControlChars
    <3>7. Waiting' = Tail(saves)
      BY <1>1, <3>6 DEF Waiting, Saving
    <3>8. Taking(j, p)'
      BY <1>1, <3>3, <3>6, CatEmpty, EmptySeq DEF Taking
    <3>9. Opened(p)'
      BY <1>1, <2>7, <3>2, <3>6, <3>8 DEF Opened, Saving
    <3>10. Ahead(t, Waiting', Coming', gotENQ')
      BY <1>6, <3>1, <3>6, <3>7
    <3>11. Streaming'
      BY <1>1, <2>1, <3>5, <3>6, <3>9, <3>10 DEF Streaming
    <3> QED BY <1>4, <3>11 DEF LinkInv
  <2>8. CASE saves = <<>> /\ Up = Coming
    <3>1. CASE tpc \in Unasked
      <4>1. Head(Up) = FRX
        <5>1. CASE tpc \in {"request", "drain"}
          BY <2>8, <5>1 DEF Coming
        <5>2. CASE tpc \in {"name", "size"}
          <6>1. PICK t : Coming = <<FRX>> ++ t /\ t = job.name ++ <<NUL>>
            BY <5>2 DEF Coming
          <6>2. t \in Seq(Char)
            <7>1. job.name \in Seq(Char \ {NUL})
              BY <5>2, FileTransferAssumption DEF TargetInv, Loading, LoadJob
            <7>2. job.name \in Seq(Char) /\ <<NUL>> \in Seq(Char)
              BY <7>1, SeqMonotonic, ControlChars, CatFirst, EmptySeq
            <7> QED BY <6>1, <7>2, CatType
          <6> QED BY <2>8, <6>1, <6>2, ControlChars, CatFirst
        <5> QED BY <3>1, <5>1, <5>2 DEF Unasked
      <4>2. hpc' = "load_name" /\ Down' = <<>>
        BY <1>2, <1>3, <2>3, <4>1, ControlChars
      <4>3. Up = <<FRX>> ++ Up' /\ Up' \in Seq(Char)
        BY <1>3, <1>6, <4>1, CatHeadTail
      <4>4. <<FRX>> ++ (hname' ++ Up') = Coming' /\ hname' \in Seq(Char \ {NUL})
        BY <1>1, <1>6, <2>8, <4>3, CatEmpty, EmptySeq
      <4>5. got' = <<>> /\ saves' = <<>> /\ tpc' \in Unasked
        BY <1>1, <2>1, <2>8, <3>1 DEF Unasked
      <4>6. Naming'
        BY <4>2, <4>4, <4>5 DEF Naming
      <4> QED BY <1>4, <4>6 DEF LinkInv
    <3>2. CASE tpc \in {"finishing", "finished"}
      <4>1. Up = <<EOT>>
        BY <2>8, <3>2 DEF Coming
      <4>2. Head(Up) = EOT /\ Up' = <<>>
        BY <1>3, <4>1
      <4>3. Exited'
        BY <1>1, <1>2, <1>3, <2>3, <2>8, <3>2, <4>2, ControlChars DEF Exited
      <4> QED BY <1>4, <4>3 DEF LinkInv
    <3>3. tpc \in Unasked \/ tpc \in {"finishing", "finished"}
      BY <1>3, <2>8 DEF Coming, Unasked
    <3> QED BY <3>1, <3>2, <3>3
  <2>9. \/ Head(Up) = ENQ /\ gotENQ /\ Ahead(Tail(Up), saves, Coming, TRUE)
        \/ Head(Up) = LF /\ Ahead(Tail(Up), saves, Coming, FALSE)
        \/ /\ saves # <<>>
           /\ \E t \in Seq(Char) : Up = Frame(Head(saves)) ++ t
                                   /\ Ahead(t, Tail(saves), Coming, FALSE)
        \/ saves = <<>> /\ Up = Coming
    <3>1. PICK w, e, silent, ss : w = Up /\ e = Coming /\ silent = gotENQ /\ ss = saves
      OBVIOUS
    <3>2. /\ w # <<>> /\ e \in Seq(Char) /\ silent \in BOOLEAN /\ ss \in Seq(SaveJob)
          /\ Ahead(w, ss, e, silent)
      BY <1>3, <1>6, <2>2, <3>1
    <3>3. \/ Head(w) = ENQ /\ silent /\ Ahead(Tail(w), ss, e, TRUE)
          \/ Head(w) = LF /\ Ahead(Tail(w), ss, e, FALSE)
          \/ /\ ss # <<>>
             /\ \E t \in Seq(Char) : w = Frame(Head(ss)) ++ t /\ Ahead(t, Tail(ss), e, FALSE)
          \/ ss = <<>> /\ w = e
      BY <3>2, AheadRead
    <3> QED BY <3>1, <3>3
  <2> QED BY <2>5, <2>6, <2>7, <2>8, <2>9
<1> QED BY <1>5, <1>7, <1>8

\* The console is reading the frame of the first file not stored.
LEMMA SavingFacts ==
  ASSUME TransferInv, Saving
  PROVE  /\ Streaming /\ saves # <<>> /\ Head(saves) \in SaveJob
         /\ tpc \notin {"enquire", "ack", "data"} /\ (tpc # "closing" => got = <<>>)
         /\ Down = <<>>
         /\ \E p, w \in Seq(Char) : /\ Up = p ++ w /\ Taking(Head(saves), p)
                                    /\ Ahead(w, Tail(saves), Coming, gotENQ)
<1>1. Streaming
  BY DEF TransferInv, LinkInv, Enquiry, Naming, Sizing, Acking, Filing, Exited, Saving
<1>2. PICK p \in Seq(Char), w \in Seq(Char) :
        Up = p ++ w /\ Opened(p) /\ Ahead(w, Waiting, Coming, gotENQ)
  BY <1>1 DEF Streaming
<1>3. saves # <<>> /\ Taking(Head(saves), p)
  BY <1>2 DEF Opened, Saving
<1>4. Head(saves) \in SaveJob
  BY <1>3, HeadTailProperties DEF TransferInv, StateInv
<1> QED BY <1>1, <1>2, <1>3, <1>4 DEF Streaming, Waiting

\* It goes on with the frame: p is what is left of it.
LEMMA SavingGoesOn ==
  ASSUME TransferInv, Saving, NEW p \in Seq(Char), NEW w \in Seq(Char),
         Ahead(w, Tail(saves), Coming, gotENQ),
         UNCHANGED <<target, wire, rx, hout, gotENQ, saves>>,
         Saving', Up' = p ++ w, Taking(Head(saves), p)'
  PROVE  Streaming'
<1>1. /\ saves # <<>> /\ Down = <<>>
      /\ tpc \notin {"enquire", "ack", "data"} /\ (tpc # "closing" => got = <<>>)
  BY SavingFacts
<1>2. UNCHANGED <<tpc, got, job>> /\ Down' = Down
  BY DEF target, Down
<1>3. Coming' = Coming /\ Waiting' = Tail(saves)
  BY <1>2 DEF Coming, Waiting
<1>4. Opened(p)'
  BY <1>1 DEF Opened
<1>5. Ahead(w, Waiting', Coming', gotENQ')
  BY <1>3
<1> QED BY <1>1, <1>2, <1>4, <1>5 DEF Streaming

\* A file that the console empties or stores stays known.
LEMMA DiskChanged ==
  ASSUME TransferInv, Saving, NEW d \in File,
         disk' = [disk EXCEPT ![Head(saves).name] = d],
         UNCHANGED target,
         saves' = saves \/ saves' = Tail(saves)
  PROVE  TargetInv' /\ disk' \in [Name -> File \cup {NoFile}]
<1>1. /\ saves # <<>> /\ Head(saves) \in SaveJob /\ saves \in Seq(SaveJob)
      /\ disk \in [Name -> File \cup {NoFile}] /\ NoFile \notin File
  BY SavingFacts, Files DEF TransferInv, StateInv
<1>2. Head(saves).name \in Name
  BY <1>1, SaveJobFacts
<1>3. UNCHANGED <<tpc, out, got, job>>
  BY DEF target
<1>4. disk' \in [Name -> File \cup {NoFile}]
  BY <1>1
<1>5. ASSUME NEW n \in Name, Copy!Known(n) PROVE Copy!Known(n)'
  <2>1. CASE disk[n] # NoFile
    <3>1. disk'[n] # NoFile
      BY <1>1, <2>1
    <3> QED BY <3>1 DEF Copy!Known
  <2>2. CASE \E i \in 1 .. Len(saves) : saves[i].name = n
    <3>1. PICK i \in 1 .. Len(saves) : saves[i].name = n
      BY <2>2
    <3>2. CASE saves' = saves
      BY <3>1, <3>2 DEF Copy!Known
    <3>3. CASE saves' = Tail(saves) /\ i = 1
      <4>1. Head(saves).name = n
        BY <1>1, <3>1, <3>3
      <4>2. disk'[n] = d
        BY <1>1, <1>2, <4>1
      <4> QED BY <1>1, <4>2 DEF Copy!Known
    <3>4. CASE saves' = Tail(saves) /\ i # 1
      <4>1. /\ Len(saves) \in Nat /\ Len(saves') = Len(saves) - 1
            /\ \A k \in 1 .. Len(saves') : saves'[k] = saves[k + 1]
        BY <1>1, <3>4, HeadTailProperties, LenProperties
      <4>2. i - 1 \in 1 .. Len(saves') /\ (i - 1) + 1 = i
        BY <3>4, <4>1
      <4>3. saves'[i - 1] = saves[i]
        BY <4>1, <4>2
      <4> QED BY <3>1, <4>2, <4>3 DEF Copy!Known
    <3> QED BY <3>2, <3>3, <3>4
  <2> QED BY <1>5, <2>1, <2>2 DEF Copy!Known
<1>6. job \in LoadJob => job.name \in Name
  BY DEF LoadJob
<1>7. tpc = "closing" => job \in SaveJob /\ got = <<>>
  BY <1>1 DEF TransferInv, TargetInv
<1>8. tpc' \in Loading => (job \in LoadJob /\ Copy!Known(job.name))'
  <2> SUFFICES ASSUME tpc \in Loading PROVE (job \in LoadJob /\ Copy!Known(job.name))'
    BY <1>3
  <2>1. job \in LoadJob /\ Copy!Known(job.name)
    BY DEF TransferInv, TargetInv
  <2>2. PICK n \in Name : n = job.name
    BY <1>6, <2>1
  <2>3. Copy!Known(n)'
    BY <1>5, <2>1, <2>2
  <2> QED BY <1>3, <2>1, <2>2, <2>3 DEF Copy!Known
<1>9. TargetInv'
  BY <1>3, <1>7, <1>8 DEF TransferInv, TargetInv
<1> QED BY <1>4, <1>9

\* The console is reading the name in a frame, and knows its end.
LEMMA NameTaken ==
  ASSUME TransferInv, Read, hpc = "save_name", UNCHANGED <<wire, out>>
  PROVE  \E p, w \in Seq(Char) :
           /\ Ahead(w, Tail(saves), Coming, gotENQ)
           /\ Head(p) = Head(hin) /\ p # <<>>
           /\ Tail(p) \in Seq(Char) /\ Up' = Tail(p) ++ w
           /\ hname \in CString /\ hname \in Seq(Char)
           /\ hname ++ p = Head(saves).name ++ (<<NUL>> ++ Body(Head(saves)))
           /\ Head(p) = NUL => hname = Head(saves).name /\ Tail(p) = Body(Head(saves))
           /\ Head(p) # NUL => Tail(p) # <<>>
<1>1. Saving
  BY DEF Saving
<1>2. /\ Up # <<>> /\ Head(Up) = Head(hin) /\ Up' = Tail(Up)
  BY Reading DEF TransferInv, StateInv
<1>3. PICK p \in Seq(Char), w \in Seq(Char) :
        /\ Up = p ++ w /\ Taking(Head(saves), p)
        /\ Ahead(w, Tail(saves), Coming, gotENQ)
  BY <1>1, SavingFacts
<1>4. PICK j \in SaveJob : j = Head(saves)
  BY <1>1, SavingFacts
<1>5. /\ p # <<>> /\ hname \in CString
      /\ hname ++ p = j.name ++ (<<NUL>> ++ Body(j))
  BY <1>3, <1>4 DEF Taking, CString
<1>6. Head(p) = Head(hin) /\ Tail(p) \in Seq(Char) /\ Up' = Tail(p) ++ w
  BY <1>2, <1>3, <1>5, CatRead, CatHeadTail
<1>7. /\ Head(p) = NUL => hname = j.name /\ Tail(p) = Body(j)
      /\ Head(p) # NUL => Tail(p) # <<>>
  <2>1. j.name \in CString /\ Body(j) \in Seq(Char)
    BY SaveJobFacts, FileTransferAssumption DEF CString
  <2> QED BY <1>5, <2>1, UpToNul
<1>8. hname \in Seq(Char)
  BY DEF TransferInv, StateInv, TypeOK
<1> QED BY <1>3, <1>4, <1>5, <1>6, <1>7, <1>8

LEMMA SaveNameStep ==
  ASSUME TransferInv, RecvStr, hpc = "save_name"
  PROVE  TransferInv'
<1> USE DEF TransferInv
<1>1. /\ Read /\ Saving
      /\ UNCHANGED <<target, wire, rx, hsize, hbuf, gotENQ, saves, hout>>
      /\ UNCHANGED <<tpc, out, got, size, mem, job, jobs, enquiries>>
      /\ \/ Head(hin) # NUL /\ hname' = Append(hname, Head(hin)) /\ UNCHANGED <<hpc, disk>>
         \/ /\ Head(hin) = NUL /\ UNCHANGED hname /\ hpc' = "save_size"
            /\ disk' = [disk EXCEPT ![hname] = <<>>]
  BY DEF RecvStr, Saving, target
<1>2. Head(hin) \in Char /\ hin' \in Seq(Char)
  BY <1>1, Reading DEF StateInv
<1>3. /\ saves # <<>> /\ hbuf = <<>>
  BY <1>1, SavingFacts DEF BufferInv
<1>4. PICK p \in Seq(Char), w \in Seq(Char) :
        /\ Ahead(w, Tail(saves), Coming, gotENQ)
        /\ Head(p) = Head(hin) /\ p # <<>>
        /\ Tail(p) \in Seq(Char) /\ Up' = Tail(p) ++ w
        /\ hname \in CString /\ hname \in Seq(Char)
        /\ hname ++ p = Head(saves).name ++ (<<NUL>> ++ Body(Head(saves)))
        /\ Head(p) = NUL => hname = Head(saves).name /\ Tail(p) = Body(Head(saves))
        /\ Head(p) # NUL => Tail(p) # <<>>
  BY <1>1, NameTaken
<1>5. PICK j \in SaveJob : j = Head(saves)
  BY <1>1, SavingFacts
<1>6. hname \in Seq(Char \ {NUL}) /\ hname ++ p = j.name ++ (<<NUL>> ++ Body(j))
  BY <1>4, <1>5 DEF CString
<1>7. Head(p) = Head(hin) /\ Tail(p) \in Seq(Char) /\ Up' = Tail(p) ++ w /\ hname \in Seq(Char)
  BY <1>4
<1>8. /\ Head(p) = NUL => hname = j.name /\ Tail(p) = Body(j)
      /\ Head(p) # NUL => Tail(p) # <<>>
  BY <1>4, <1>5
<1>9. PICK q \in Seq(Char) : q = Tail(p)
  BY <1>7
<1>10. CASE Head(hin) # NUL
  <2>1. hname' = Append(hname, Head(p)) /\ UNCHANGED <<hpc, disk>>
    BY <1>1, <1>7, <1>10
  <2>2. hname' \in Seq(Char) /\ hname' \in Seq(Char \ {NUL}) /\ Head(p) \in Char
    <3>1. Head(p) \in Char \ {NUL}
      BY <1>2, <1>7, <1>10
    <3> QED BY <1>6, <1>7, <2>1, <3>1, AppendProperties
  <2>3. hname' ++ q = j.name ++ (<<NUL>> ++ Body(j))
    BY <1>6, <1>7, <1>9, <2>1, CatTake
  <2>4. TypeOK'
    BY <1>1, <1>2, <2>1, <2>2 DEF StateInv, TypeOK
  <2>5. StateInv' /\ TargetInv' /\ BufferInv'
    BY <1>1, <2>1, <2>4 DEF StateInv, TargetInv, BufferInv, Copy!Known
  <2>6. Taking(Head(saves), q)'
    <3>1. Head(saves') = j /\ hpc' = "save_name" /\ q # <<>>
      BY <1>1, <1>5, <1>7, <1>8, <1>9, <1>10, <2>1
    <3> QED BY <2>2, <2>3, <3>1 DEF Taking
  <2>7. Streaming'
    <3>1. Saving' /\ Up' = q ++ w
      BY <1>1, <1>7, <1>9, <2>1 DEF Saving
    <3> QED BY <1>1, <1>4, <2>6, <3>1, SavingGoesOn
  <2> QED BY <2>5, <2>7 DEF LinkInv
<1>11. CASE Head(hin) = NUL
  <2>1. /\ UNCHANGED hname /\ hpc' = "save_size" /\ disk' = [disk EXCEPT ![hname] = <<>>]
        /\ hname = j.name /\ q = Body(j)
    BY <1>1, <1>7, <1>8, <1>9, <1>11
  <2>2. TargetInv' /\ disk' \in [Name -> File \cup {NoFile}]
    <3>1. disk' = [disk EXCEPT ![Head(saves).name] = <<>>] /\ <<>> \in File
      BY <1>5, <2>1, Files
    <3> QED BY <1>1, <3>1, DiskChanged
  <2>3. TypeOK'
    BY <1>1, <1>2, <2>1 DEF StateInv, TypeOK
  <2>4. StateInv' /\ BufferInv'
    BY <1>1, <2>1, <2>2, <2>3 DEF StateInv, BufferInv
  <2>5. Taking(Head(saves), q)'
    <3>1. Head(saves') = j /\ hname' = j.name /\ hbuf' = <<>>
      BY <1>1, <1>3, <1>5, <2>1
    <3>2. Len(hbuf') <= 4
      <4>1. Len(hbuf') = 0
        BY <3>1, EmptySeq
      <4> QED BY <4>1
    <3>3. hbuf' ++ q = Body(j)
      BY <2>1, <3>1, CatEmpty
    <3> QED BY <2>1, <3>1, <3>2, <3>3 DEF Taking
  <2>6. Streaming'
    <3>1. Saving' /\ Up' = q ++ w
      BY <1>1, <1>7, <1>9, <2>1 DEF Saving
    <3> QED BY <1>1, <1>4, <2>5, <3>1, SavingGoesOn
  <2> QED BY <2>2, <2>4, <2>6 DEF LinkInv
<1> QED BY <1>10, <1>11

LEMMA LoadNameStep ==
  ASSUME TransferInv, RecvStr, hpc = "load_name"
  PROVE  TransferInv'
<1> USE DEF TransferInv
<1>1. /\ Read
      /\ UNCHANGED <<target, wire, rx, hsize, hbuf, gotENQ, disk, saves>>
      /\ UNCHANGED <<tpc, out, got, size, mem, job, jobs, enquiries>>
  BY DEF RecvStr, target
<1>2. /\ Up # <<>> /\ Head(Up) = Head(hin) /\ Up' = Tail(Up)
      /\ Head(hin) \in Char /\ hin' \in Seq(Char)
  BY <1>1, Reading DEF StateInv
<1>3. Naming
  <2>1. \A p : ~Opened(p)
    BY DEF Opened, Saving
  <2> QED BY <2>1 DEF LinkInv, Enquiry, Streaming, Sizing, Acking, Filing, Exited
<1>4. /\ tpc \in Unasked /\ saves = <<>> /\ hname \in Seq(Char \ {NUL})
      /\ <<FRX>> ++ (hname ++ Up) = Coming /\ Down = <<>> /\ got = <<>>
      /\ hname \in Seq(Char) /\ Up \in Seq(Char)
  BY <1>3, UnderWay DEF Naming, StateInv, TypeOK
<1>5. /\ job \in LoadJob /\ job.name \in Name /\ disk[job.name] \in File
      /\ job.name \in Seq(Char \ {NUL}) /\ job.name \in Seq(Char)
  <2>1. job \in LoadJob /\ job.name \in Name /\ Copy!Known(job.name)
    BY <1>4 DEF TargetInv, Loading, LoadJob, Unasked
  <2>2. disk[job.name] # NoFile
    <3>1. 1 .. Len(saves) = {}
      <4>1. Len(saves) = 0
        BY <1>4, EmptySeq
      <4> QED BY <4>1
    <3> QED BY <2>1, <3>1 DEF Copy!Known
  <2>3. job.name \in Seq(Char \ {NUL})
    BY <2>1, FileTransferAssumption
  <2>4. job.name \in Seq(Char)
    BY <2>3, SeqMonotonic
  <2>5. disk[job.name] \in File
    BY <2>1, <2>2 DEF StateInv
  <2> QED BY <2>1, <2>3, <2>4, <2>5
<1>6. PICK h, u, m : h = hname /\ u = Up /\ m = job.name
  OBVIOUS
<1>7. /\ h \in Seq(Char \ {NUL}) /\ h \in Seq(Char) /\ u \in Seq(Char) /\ u # <<>>
      /\ m \in Seq(Char \ {NUL}) /\ m \in Seq(Char)
  BY <1>2, <1>4, <1>5, <1>6
<1>8. PICK f \in Seq(Char), z \in Seq(Char) : f = <<FRX>> /\ z = <<NUL>>
  BY ControlChars, CatFirst, EmptySeq
<1>9. tpc \in {"name", "size"} /\ h ++ u = m ++ z
  <2>1. f ++ (h ++ u) = Coming /\ h ++ u \in Seq(Char) /\ m ++ z \in Seq(Char)
    BY <1>4, <1>6, <1>7, <1>8, CatType
  <2>2. CASE tpc \in {"request", "drain"}
    <3>1. f ++ (h ++ u) = f ++ <<>> /\ <<>> \in Seq(Char)
      BY <1>8, <2>1, <2>2, CatEmpty, EmptySeq DEF Coming
    <3>2. h ++ u = <<>>
      BY <2>1, <3>1, CatCancel
    <3> QED BY <1>7, <3>2, CatIsEmpty
  <2>3. CASE tpc \in {"name", "size"}
    <3>1. f ++ (h ++ u) = f ++ (m ++ z)
      BY <1>6, <1>8, <2>1, <2>3 DEF Coming
    <3> QED BY <2>1, <2>3, <3>1, CatCancel
  <2> QED BY <1>4, <2>2, <2>3 DEF Unasked
<1>10. /\ Head(u) = NUL => h = m /\ Tail(u) = <<>>
  <2>1. z = <<NUL>> ++ <<>> /\ <<>> \in Seq(Char)
    BY <1>8, CatEmpty, EmptySeq
  <2>2. h ++ u = m ++ (<<NUL>> ++ <<>>)
    BY <1>9, <2>1
  <2>3. h \in CString /\ m \in CString
    BY <1>7 DEF CString
  <2> QED BY <1>7, <2>1, <2>2, <2>3, UpToNul
<1>11. CASE Head(hin) # NUL
  <2>1. hname' = Append(hname, Head(hin)) /\ UNCHANGED <<hpc, hout>>
    BY <1>11 DEF RecvStr
  <2>2. hname' \in Seq(Char) /\ hname' \in Seq(Char \ {NUL})
    <3>1. Head(hin) \in Char \ {NUL}
      BY <1>2, <1>11
    <3> QED BY <1>4, <2>1, <3>1, AppendProperties
  <2>3. TypeOK'
    BY <1>1, <1>2, <2>1, <2>2 DEF StateInv, TypeOK
  <2>4. StateInv' /\ TargetInv' /\ BufferInv'
    BY <1>1, <2>1, <2>3 DEF StateInv, TargetInv, BufferInv, Copy!Known
  <2>5. hname' ++ Up' = hname ++ Up
    <3>1. Append(h, Head(u)) ++ Tail(u) = h ++ u
      BY <1>7, CatTake
    <3> QED BY <1>2, <1>6, <2>1, <3>1
  <2>6. Naming'
    <3>1. Down' = <<>> /\ Coming' = Coming
      BY <1>1, <1>4, <2>1 DEF Down, Coming
    <3>2. <<FRX>> ++ (hname' ++ Up') = Coming'
      BY <1>4, <2>5, <3>1
    <3> QED BY <1>1, <1>4, <2>1, <2>2, <3>1, <3>2 DEF Naming
  <2> QED BY <2>4, <2>6 DEF LinkInv
<1>12. CASE Head(hin) = NUL
  <2>1. hname = job.name /\ Up' = <<>>
    BY <1>2, <1>6, <1>10, <1>12
  <2>2. /\ UNCHANGED hname /\ hpc' = "wait_ack"
        /\ hout' = hout \o SizeBytes(Len(disk[job.name]))
    <3>1. disk[hname] # NoFile
      BY <1>5, <2>1, Files
    <3> QED BY <1>12, <2>1, <3>1 DEF RecvStr
  <2>3. PICK x \in Seq(Char) : x = SizeBytes(Len(disk[job.name]))
    BY <1>5, Files
  <2>4. Down' = x
    <3>1. Down' = Down ++ x
      BY <1>1, <2>2, <2>3, ConsoleWrites DEF StateInv
    <3> QED BY <1>4, <3>1, CatEmpty
  <2>5. TypeOK'
    <3>1. hout' \in Seq(Char)
      BY <2>2, <2>3, ConcatProperties DEF StateInv, TypeOK
    <3> QED BY <1>1, <1>2, <2>2, <3>1 DEF StateInv, TypeOK
  <2>6. StateInv' /\ TargetInv' /\ BufferInv'
    BY <1>1, <2>2, <2>5 DEF StateInv, TargetInv, BufferInv, Copy!Known
  <2>7. Sizing'
    <3>1. got' ++ Down' = SizeBytes(Len(disk[job.name]))
      BY <1>1, <1>4, <2>3, <2>4, CatEmpty
    <3>2. disk[job.name] # NoFile
      BY <1>5, Files
    <3> QED BY <1>1, <1>4, <1>9, <2>1, <2>2, <3>1, <3>2 DEF Sizing
  <2> QED BY <2>6, <2>7 DEF LinkInv
<1> QED BY <1>11, <1>12

LEMMA WaitAckStep ==
  ASSUME TransferInv, WaitAck
  PROVE  TransferInv'
<1> USE DEF TransferInv
<1>1. /\ hpc = "wait_ack" /\ Read
      /\ UNCHANGED <<target, wire, rx, hname, hsize, hbuf, gotENQ, disk, saves>>
      /\ UNCHANGED <<tpc, out, got, size, mem, job, jobs, enquiries>>
      /\ Head(hin) = ACK => hpc' = "main" /\ hout' = hout \o disk[hname]
  BY DEF WaitAck, target
<1>2. /\ Up # <<>> /\ Head(Up) = Head(hin) /\ Up' = Tail(Up)
      /\ Head(hin) \in Char /\ hin' \in Seq(Char)
  BY <1>1, Reading DEF StateInv
<1>3. Acking \/ Streaming
  BY <1>1, <1>2 DEF LinkInv, Enquiry, Naming, Sizing, Filing, Exited
<1>4. PICK y \in Seq(Char) : y = <<ACK>> /\ Head(y) = ACK /\ Tail(y) = <<>> /\ y # <<>>
  <2>1. <<ACK>> \in Seq(Char)
    BY ControlChars, CatFirst, EmptySeq
  <2>2. Head(<<ACK>>) = ACK /\ Tail(<<ACK>>) = <<>> /\ <<ACK>> # <<>>
    OBVIOUS
  <2> QED BY <2>1, <2>2, Zenon
<1>5. /\ Head(Up) = ACK /\ hname \in Name /\ disk[hname] \in File
  <2>1. CASE Acking
    <3>1. Up = <<ACK>> /\ hname = job.name /\ disk[job.name] # NoFile /\ job \in LoadJob
      BY <2>1 DEF Acking, TargetInv, Loading
    <3> QED BY <1>4, <3>1 DEF LoadJob, StateInv
  <2>2. CASE Streaming
    <3>1. PICK p \in Seq(Char), w \in Seq(Char) : Up = p ++ w /\ Opened(p)
      BY <2>2 DEF Streaming
    <3>2. p = y /\ hname \in Name /\ disk[hname] = <<>>
      BY <1>1, <1>4, <3>1 DEF Opened, Saving
    <3> QED BY <1>4, <3>1, <3>2, CatRead, Files
  <2> QED BY <1>3, <2>1, <2>2
<1>6. hpc' = "main" /\ hout' = hout \o disk[hname]
  BY <1>1, <1>2, <1>5
<1>7. PICK x \in Seq(Char) : x = disk[hname]
  BY <1>5 DEF File
<1>8. Down' = Down ++ x
  BY <1>1, <1>6, <1>7, ConsoleWrites DEF StateInv
<1>9. StateInv' /\ TargetInv' /\ BufferInv'
  <2>1. hout' \in Seq(Char)
    BY <1>6, <1>7, ConcatProperties DEF StateInv, TypeOK
  <2>2. TypeOK'
    BY <1>1, <1>2, <1>6, <2>1 DEF StateInv, TypeOK
  <2> QED BY <1>1, <1>6, <2>2 DEF StateInv, TargetInv, BufferInv, Copy!Known
<1>10. CASE Acking
  <2>1. Up = y /\ Down = <<>> /\ got = <<>> /\ hname = job.name
    BY <1>4, <1>10 DEF Acking
  <2>2. Up' = <<>> /\ got' ++ Down' = disk[job.name]
    BY <1>1, <1>2, <1>4, <1>7, <1>8, <2>1, CatEmpty
  <2>3. Filing'
    BY <1>1, <1>6, <1>10, <2>2 DEF Acking, Filing
  <2> QED BY <1>9, <2>3 DEF LinkInv
<1>11. CASE Streaming
  <2>1. PICK p \in Seq(Char), w \in Seq(Char) :
          Up = p ++ w /\ Opened(p) /\ Ahead(w, Waiting, Coming, gotENQ)
    BY <1>11 DEF Streaming
  <2>2. p = y /\ x = <<>> /\ Waiting = saves
    BY <1>1, <1>4, <1>7, <2>1 DEF Opened, Saving, Waiting
  <2>3. PICK q \in Seq(Char) : q = <<>>
    BY EmptySeq
  <2>4. Up' = q ++ w
    <3>1. Tail(y ++ w) = Tail(y) ++ w
      BY <1>4, CatRead
    <3> QED BY <1>2, <1>4, <2>1, <2>2, <2>3, <3>1
  <2>5. Down' = <<>>
    <3>1. Down = <<>>
      BY <1>11 DEF Streaming
    <3> QED BY <1>8, <2>2, <2>3, <3>1, CatEmpty
  <2>6. Opened(q)' /\ Waiting' = saves /\ Coming' = Coming
    BY <1>1, <1>6, <2>3 DEF Opened, Waiting, Saving, Coming
  <2>7. Ahead(w, Waiting', Coming', gotENQ')
    BY <1>1, <2>1, <2>2, <2>6
  <2>8. tpc' \notin {"enquire", "ack", "data"} /\ (tpc' # "closing" => got' = <<>>)
    BY <1>1, <1>11 DEF Streaming
  <2>9. Streaming'
    BY <2>4, <2>5, <2>6, <2>7, <2>8 DEF Streaming
  <2> QED BY <1>9, <2>9 DEF LinkInv
<1> QED BY <1>3, <1>10, <1>11

\* Of s and then t, one more character has been read.
LEMMA BufferGrows ==
  ASSUME TransferInv, Read, Saving, UNCHANGED <<wire, out>>,
         hbuf' = Append(hbuf, Head(hin)),
         NEW p \in Seq(Char), NEW w \in Seq(Char), Up = p ++ w, p # <<>>
  PROVE  /\ hin' \in Seq(Char) /\ hbuf' \in Seq(Char) /\ Len(hbuf') = Len(hbuf) + 1
         /\ Tail(p) \in Seq(Char) /\ Up' = Tail(p) ++ w /\ hbuf' ++ Tail(p) = hbuf ++ p
<1>1. /\ Up # <<>> /\ Head(Up) = Head(hin) /\ Up' = Tail(Up)
      /\ Head(hin) \in Char /\ hin' \in Seq(Char) /\ hbuf \in Seq(Char)
  BY Reading DEF TransferInv, StateInv, TypeOK
<1>2. Head(p) = Head(hin) /\ Tail(p) \in Seq(Char) /\ Up' = Tail(p) ++ w
  BY <1>1, CatRead, CatHeadTail
<1>3. hbuf' = Append(hbuf, Head(p))
  BY <1>2
<1>4. PICK b \in Seq(Char) : b = hbuf
  BY <1>1
<1>5. Append(b, Head(p)) ++ Tail(p) = b ++ p
  BY CatTake
<1>6. hbuf' \in Seq(Char) /\ Len(hbuf') = Len(hbuf) + 1
  BY <1>1, CatAppend
<1> QED BY <1>1, <1>2, <1>3, <1>4, <1>5, <1>6

LEMMA ReadSizeStep ==
  ASSUME TransferInv, ReadSize
  PROVE  TransferInv'
<1> USE DEF TransferInv
<1>1. /\ hpc = "save_size" /\ Len(hbuf) < 4 /\ Read /\ Saving /\ Saving'
      /\ hbuf' = Append(hbuf, Head(hin))
      /\ UNCHANGED <<target, wire, rx, hout, hpc, hname, hsize, gotENQ, disk, saves>>
      /\ UNCHANGED <<tpc, out, got, size, mem, job, jobs, enquiries>>
  BY DEF ReadSize, Saving, target
<1>2. PICK p \in Seq(Char), w \in Seq(Char) :
        /\ Up = p ++ w /\ Taking(Head(saves), p)
        /\ Ahead(w, Tail(saves), Coming, gotENQ)
  BY <1>1, SavingFacts
<1>3. PICK j \in SaveJob : j = Head(saves)
  BY <1>1, SavingFacts
<1>4. hname = j.name /\ hbuf ++ p = Body(j)
  BY <1>1, <1>2, <1>3 DEF Taking
<1>5. hbuf \in Seq(Char) /\ Len(hbuf) \in Nat
  BY LenProperties DEF StateInv, TypeOK
<1>6. p # <<>>
  <2>1. SUFFICES ASSUME p = <<>> PROVE FALSE
    OBVIOUS
  <2>2. hbuf = Body(j)
    BY <1>4, <1>5, <2>1, CatEmpty
  <2>3. PICK b \in Seq(Char), d \in Seq(Char) :
          b = SizeBytes(Len(j.data)) /\ d = j.data /\ Len(b) = 4
    BY SaveJobFacts, Files DEF File
  <2>4. Len(hbuf) = 4 + Len(d) /\ Len(d) \in Nat
    BY <2>2, <2>3, CatLen, LenProperties DEF Body
  <2> QED BY <1>1, <2>4
<1>7. /\ hin' \in Seq(Char) /\ hbuf' \in Seq(Char) /\ Len(hbuf') = Len(hbuf) + 1
      /\ Tail(p) \in Seq(Char) /\ Up' = Tail(p) ++ w /\ hbuf' ++ Tail(p) = hbuf ++ p
  BY <1>1, <1>2, <1>6, BufferGrows
<1>8. StateInv' /\ TargetInv' /\ BufferInv'
  <2>1. TypeOK'
    BY <1>1, <1>7 DEF StateInv, TypeOK
  <2> QED BY <1>1, <2>1 DEF StateInv, TargetInv, BufferInv, Copy!Known
<1>9. PICK q \in Seq(Char) : q = Tail(p)
  BY <1>7
<1>10. Taking(Head(saves), q)'
  <2>1. Len(hbuf') <= 4
    BY <1>1, <1>5, <1>7
  <2>2. Head(saves') = j /\ hname' = j.name /\ hbuf' ++ q = Body(j) /\ hpc' = "save_size"
    BY <1>1, <1>3, <1>4, <1>7, <1>9
  <2> QED BY <2>1, <2>2 DEF Taking
<1>11. Streaming'
  BY <1>1, <1>2, <1>7, <1>9, <1>10, SavingGoesOn
<1> QED BY <1>8, <1>11 DEF LinkInv

LEMMA ReadDataStep ==
  ASSUME TransferInv, ReadData
  PROVE  TransferInv'
<1> USE DEF TransferInv
<1>1. /\ hpc = "save_data" /\ Len(hbuf) < hsize /\ Read /\ Saving /\ Saving'
      /\ hbuf' = Append(hbuf, Head(hin))
      /\ UNCHANGED <<target, wire, rx, hout, hpc, hname, hsize, gotENQ, disk, saves>>
      /\ UNCHANGED <<tpc, out, got, size, mem, job, jobs, enquiries>>
  BY DEF ReadData, Saving, target
<1>2. PICK p \in Seq(Char), w \in Seq(Char) :
        /\ Up = p ++ w /\ Taking(Head(saves), p)
        /\ Ahead(w, Tail(saves), Coming, gotENQ)
  BY <1>1, SavingFacts
<1>3. PICK j \in SaveJob : j = Head(saves)
  BY <1>1, SavingFacts
<1>4. hname = j.name /\ hsize = Len(j.data) /\ hbuf ++ p = j.data
  BY <1>1, <1>2, <1>3 DEF Taking
<1>5. hbuf \in Seq(Char) /\ Len(hbuf) \in Nat
  BY LenProperties DEF StateInv, TypeOK
<1>6. p # <<>>
  <2>1. SUFFICES ASSUME p = <<>> PROVE FALSE
    OBVIOUS
  <2>2. hbuf = j.data
    BY <1>4, <1>5, <2>1, CatEmpty
  <2> QED BY <1>1, <1>4, <1>5, <2>2
<1>7. /\ hin' \in Seq(Char) /\ hbuf' \in Seq(Char) /\ Len(hbuf') = Len(hbuf) + 1
      /\ Tail(p) \in Seq(Char) /\ Up' = Tail(p) ++ w /\ hbuf' ++ Tail(p) = hbuf ++ p
  BY <1>1, <1>2, <1>6, BufferGrows
<1>8. StateInv' /\ TargetInv' /\ BufferInv'
  <2>1. TypeOK'
    BY <1>1, <1>7 DEF StateInv, TypeOK
  <2> QED BY <1>1, <2>1 DEF StateInv, TargetInv, BufferInv, Copy!Known
<1>9. PICK q \in Seq(Char) : q = Tail(p)
  BY <1>7
<1>10. Taking(Head(saves), q)'
  <2>1. /\ Head(saves') = j /\ hname' = j.name /\ hsize' = Len(j.data)
        /\ hbuf' ++ q = j.data /\ hpc' = "save_data"
    BY <1>1, <1>3, <1>4, <1>7, <1>9
  <2> QED BY <2>1 DEF Taking
<1>11. Streaming'
  BY <1>1, <1>2, <1>7, <1>9, <1>10, SavingGoesOn
<1> QED BY <1>8, <1>11 DEF LinkInv

LEMMA SizeKnownStep ==
  ASSUME TransferInv, SizeKnown
  PROVE  TransferInv'
<1> USE DEF TransferInv
<1>1. /\ hpc = "save_size" /\ Len(hbuf) = 4 /\ Saving /\ Saving'
      /\ hsize' = FromBytes(hbuf) /\ hbuf' = <<>> /\ hpc' = "save_data"
      /\ UNCHANGED <<target, wire, rx, hin, hout, hname, gotENQ, disk, saves>>
      /\ UNCHANGED <<tpc, out, got, size, mem, job, jobs, enquiries>>
  BY DEF SizeKnown, Saving, target
<1>2. PICK p \in Seq(Char), w \in Seq(Char) :
        /\ Up = p ++ w /\ Taking(Head(saves), p)
        /\ Ahead(w, Tail(saves), Coming, gotENQ)
  BY <1>1, SavingFacts
<1>3. PICK j \in SaveJob : j = Head(saves)
  BY <1>1, SavingFacts
<1>4. hname = j.name /\ hbuf ++ p = Body(j) /\ hbuf \in Seq(Char)
  BY <1>1, <1>2, <1>3 DEF Taking, StateInv, TypeOK
<1>5. hbuf = SizeBytes(Len(j.data)) /\ p = j.data
  <2>1. PICK m \in Seq(Char), d \in Seq(Char) :
          m = SizeBytes(Len(j.data)) /\ d = j.data /\ Len(m) = 4
    BY SaveJobFacts, Files DEF File
  <2>2. PICK b \in Seq(Char) : b = hbuf
    BY <1>4
  <2>3. b ++ p = m ++ d /\ Len(b) = Len(m)
    BY <1>1, <1>4, <2>1, <2>2 DEF Body
  <2>4. b = m /\ p = d
    BY <2>3, SameLength
  <2> QED BY <2>1, <2>2, <2>4
<1>6. hsize' = Len(j.data)
  BY <1>1, <1>5, SaveJobFacts, Files
<1>7. StateInv' /\ TargetInv' /\ BufferInv'
  <2>1. hsize' \in Nat /\ hbuf' \in Seq(Char)
    BY <1>1, <1>4, SizeIsNatural, EmptySeq
  <2>2. TypeOK'
    BY <1>1, <2>1 DEF StateInv, TypeOK
  <2> QED BY <1>1, <2>2 DEF StateInv, TargetInv, BufferInv, Copy!Known
<1>8. Taking(Head(saves), p)'
  <2>1. Head(saves') = j /\ hname' = j.name /\ hbuf' ++ p = j.data
    BY <1>1, <1>3, <1>4, <1>5, CatEmpty
  <2> QED BY <1>1, <1>6, <2>1 DEF Taking
<1>9. Streaming'
  <2>1. Up' = p ++ w
    BY <1>1, <1>2 DEF Up, Wire
  <2> QED BY <1>1, <1>2, <1>8, <2>1, SavingGoesOn
<1> QED BY <1>7, <1>9 DEF LinkInv

\* What SaveFile stores is the file that was sent.
LEMMA Stored ==
  ASSUME TransferInv, SaveFile
  PROVE  /\ Saving /\ saves # <<>> /\ Head(saves) \in SaveJob
         /\ hname = Head(saves).name /\ hbuf = Head(saves).data
         /\ Ahead(Up, Tail(saves), Coming, gotENQ)
<1>1. hpc = "save_data" /\ Len(hbuf) = hsize /\ Saving
  BY DEF SaveFile, Saving
<1>2. PICK p \in Seq(Char), w \in Seq(Char) :
        /\ Up = p ++ w /\ Taking(Head(saves), p)
        /\ Ahead(w, Tail(saves), Coming, gotENQ)
  BY <1>1, SavingFacts
<1>3. PICK j \in SaveJob : j = Head(saves)
  BY <1>1, SavingFacts
<1>4. hname = j.name /\ hsize = Len(j.data) /\ hbuf ++ p = j.data /\ hbuf \in Seq(Char)
  BY <1>1, <1>2, <1>3 DEF Taking, TransferInv, StateInv, TypeOK
<1>5. hbuf = j.data /\ p = <<>>
  <2>1. PICK b \in Seq(Char), d \in Seq(Char) : b = hbuf /\ d = j.data
    BY <1>4, SaveJobFacts DEF File
  <2>2. b ++ p = d ++ <<>> /\ Len(b) = Len(d) /\ <<>> \in Seq(Char)
    BY <1>1, <1>4, <2>1, CatEmpty, EmptySeq
  <2>3. b = d /\ p = <<>>
    BY <2>2, SameLength
  <2> QED BY <2>1, <2>3
<1>6. Up = w
  BY <1>2, <1>5, CatEmpty
<1> QED BY <1>1, <1>2, <1>3, <1>4, <1>5, <1>6, SavingFacts

LEMMA SaveFileStep ==
  ASSUME TransferInv, SaveFile
  PROVE  TransferInv'
<1> USE DEF TransferInv
<1>1. /\ disk' = [disk EXCEPT ![hname] = hbuf] /\ saves' = Tail(saves)
      /\ hbuf' = <<>> /\ hpc' = "main"
      /\ UNCHANGED <<target, wire, rx, hin, hout, hname, hsize, gotENQ>>
      /\ UNCHANGED <<tpc, out, got, size, mem, job, jobs, enquiries>>
  BY DEF SaveFile, target
<1>2. /\ Saving /\ saves # <<>> /\ Head(saves) \in SaveJob
      /\ hname = Head(saves).name /\ hbuf = Head(saves).data
      /\ Ahead(Up, Tail(saves), Coming, gotENQ)
  BY Stored
<1>3. hbuf \in File
  BY <1>2, SaveJobFacts
<1>4. TargetInv' /\ disk' \in [Name -> File \cup {NoFile}]
  <2>1. PICK d \in File : d = hbuf
    BY <1>3
  <2>2. disk' = [disk EXCEPT ![Head(saves).name] = d]
    BY <1>1, <1>2, <2>1
  <2> QED BY <1>1, <1>2, <2>2, DiskChanged
<1>5. StateInv' /\ BufferInv'
  <2>1. TypeOK'
    BY <1>1, EmptySeq DEF StateInv, TypeOK
  <2>2. saves' \in Seq(SaveJob)
    BY <1>1, <1>2, HeadTailProperties DEF StateInv
  <2> QED BY <1>1, <1>4, <2>1, <2>2 DEF StateInv, BufferInv
<1>6. Streaming'
  <2>1. PICK p \in Seq(Char), w \in Seq(Char) : p = <<>> /\ w = Up
    BY UnderWay, EmptySeq DEF StateInv
  <2>2. Up' = p ++ w
    <3>1. Up' = Up
      BY <1>1 DEF Up, Wire
    <3> QED BY <2>1, <3>1, CatEmpty
  <2>3. Opened(p)' /\ Waiting' = Tail(saves) /\ Coming' = Coming
    BY <1>1, <2>1 DEF Opened, Waiting, Saving, Coming
  <2>4. Ahead(w, Waiting', Coming', gotENQ')
    BY <1>1, <1>2, <2>1, <2>3
  <2>5. /\ tpc' \notin {"enquire", "ack", "data"} /\ (tpc' # "closing" => got' = <<>>)
        /\ Down' = <<>>
    BY <1>1, <1>2, SavingFacts DEF Down
  <2> QED BY <2>2, <2>3, <2>4, <2>5 DEF Streaming
<1> QED BY <1>4, <1>5, <1>6 DEF LinkInv

-----------------------------------------------------------------------------
(***************************************************************************)
(* The invariant                                                            *)
(***************************************************************************)
LEMMA TransferInit ==
  ASSUME Init
  PROVE  TransferInv
<1>1. /\ tpc = "enquire" /\ out = <<>> /\ got = <<>> /\ size = 0
      /\ wire = NoChar /\ rx = <<>> /\ hpc = "main" /\ hin = <<>> /\ hout = <<>>
      /\ hname = <<>> /\ hsize = 0 /\ hbuf = <<>> /\ gotENQ = FALSE
      /\ disk \in [Name -> Data \cup {NoFile}]
      /\ job = NoJob /\ saves = <<>> /\ jobs = 0 /\ enquiries = 0
  BY DEF Init
<1>2. <<>> \in Seq(Char) /\ <<>> \in Seq({ENQ}) /\ <<>> \in Seq(SaveJob) /\ Len(rx) = 0
  BY <1>1, EmptySeq
<1>3. TypeOK
  <2>1. 0 \in 0 .. MaxJobs /\ 0 \in 0 .. MaxEnquiries /\ Len(rx) <= Depth /\ 0 \in Int
    BY <1>2, FileTransferAssumption
  <2> QED BY <1>1, <1>2, <2>1 DEF TypeOK
<1>4. disk \in [Name -> File \cup {NoFile}]
  <2>1. Data \subseteq File
    BY Files
  <2> QED BY <1>1, <2>1
<1>5. StateInv /\ TargetInv /\ BufferInv
  BY <1>1, <1>2, <1>3, <1>4 DEF StateInv, TargetInv, BufferInv, Loading
<1>6. Up = <<>> /\ Down = <<>>
  BY <1>1, <1>2, CatEmpty DEF Up, Down, Wire
<1>7. Enquiry
  BY <1>1, <1>2, <1>6 DEF Enquiry
<1> QED BY <1>5, <1>7 DEF TransferInv, LinkInv

LEMMA TransferNext ==
  ASSUME TransferInv, [Next]_vars
  PROVE  TransferInv'
<1>1. CASE Program
  BY <1>1, EnquireStep, RecvFileStep, SendFileStep, FinishStep DEF Program
<1>2. CASE PutC \/ ToHost \/ ToTarget
  BY <1>2, LineStep
<1>3. CASE EndOfPut \/ EndOfCall \/ Finished \/ Drain \/ GetC \/ SizeReceived \/ FileReceived
  BY <1>3, EndOfPutStep, EndOfCallStep, FinishedStep, DrainStep, GetCStep,
     SizeReceivedStep, FileReceivedStep
<1>4. CASE RecvStr
  <2>1. hpc \in {"save_name", "load_name"}
    BY <1>4 DEF RecvStr
  <2> QED BY <1>4, <2>1, SaveNameStep, LoadNameStep
<1>5. CASE Main \/ WaitAck \/ ReadSize \/ SizeKnown \/ ReadData \/ SaveFile
  BY <1>5, MainStep, WaitAckStep, ReadSizeStep, SizeKnownStep, ReadDataStep, SaveFileStep
<1>6. CASE UNCHANGED vars
  <2>1. /\ UNCHANGED <<target, wire, rx, hin, hout, console>>
        /\ UNCHANGED <<tpc, out, got, size, mem, job, jobs, enquiries>>
        /\ UNCHANGED <<hpc, hname, hsize, hbuf, gotENQ, disk, saves>>
    BY <1>6 DEF vars, target, console
  <2>2. Up' = Up /\ Down' = Down
    BY <2>1 DEF Up, Down, Wire
  <2>3. LinkInv'
    BY <2>1, <2>2, LinkKept DEF TransferInv
  <2>4. StateInv' /\ TargetInv' /\ BufferInv'
    BY <2>1 DEF TransferInv, StateInv, TypeOK, TargetInv, BufferInv, Copy!Known
  <2> QED BY <2>3, <2>4 DEF TransferInv
<1> QED BY <1>1, <1>2, <1>3, <1>4, <1>5, <1>6 DEF Next, Driver, Console

THEOREM TransferInvariant == Spec => []TransferInv
<1>1. Init => TransferInv
  BY TransferInit
<1>2. TransferInv /\ [Next]_vars => TransferInv'
  BY TransferNext
<1> QED BY <1>1, <1>2, PTL DEF Spec

\* Every side only handles characters, and the receiver FIFO never holds more
\* than its depth.
THEOREM TransferTypeCorrect == Spec => []TypeOK
<1>1. TransferInv => TypeOK
  BY DEF TransferInv, StateInv
<1> QED BY <1>1, TransferInvariant, PTL

-----------------------------------------------------------------------------
(***************************************************************************)
(* The files are copied                                                     *)
(***************************************************************************)
LEMMA CallStep ==
  ASSUME \/ \E n \in Name : RecvFile(n)
         \/ \E n \in Name, d \in Data : SendFile(n, d),
         TransferInv
  PROVE  \E j \in Copy!Job : Copy!Call(j)
<1>1. ASSUME NEW n \in Name, RecvFile(n)
      PROVE  \E j \in Copy!Job : Copy!Call(j)
  <2> DEFINE j == [op |-> "load", name |-> n]
  <2>1. /\ tpc = "idle" /\ Copy!Known(n) /\ job' = j
        /\ UNCHANGED <<disk, mem, saves>>
    BY <1>1 DEF RecvFile, console
  <2>2. job = NoJob
    BY <2>1 DEF TransferInv, TargetInv
  <2>3. j \in Copy!Job /\ j.op = "load" /\ j.name = n
    BY DEF Copy!Job
  <2> HIDE DEF j
  <2>4. Copy!Call(j)
    BY <2>1, <2>2, <2>3 DEF Copy!Call
  <2> QED BY <2>3, <2>4
<1>2. ASSUME NEW n \in Name, NEW d \in Data, SendFile(n, d)
      PROVE  \E j \in Copy!Job : Copy!Call(j)
  <2> DEFINE j == [op |-> "save", name |-> n, data |-> d]
  <2>1. /\ tpc = "idle" /\ job' = j /\ saves' = Append(saves, j)
        /\ UNCHANGED <<disk, mem>>
    BY <1>2 DEF SendFile
  <2>2. job = NoJob
    BY <2>1 DEF TransferInv, TargetInv
  <2>3. j \in Copy!Job /\ j.op = "save"
    BY DEF Copy!Job
  <2> HIDE DEF j
  <2>4. Copy!Call(j)
    BY <2>1, <2>2, <2>3 DEF Copy!Call
  <2> QED BY <2>3, <2>4
<1> QED BY <1>1, <1>2

\* recvfile returns with what the host has, and with every earlier file stored.
LEMMA ReturnStep ==
  ASSUME TransferInv, EndOfCall
  PROVE  Copy!Return
<1>1. /\ tpc = "closing" /\ job' = NoJob
      /\ mem' = IF job.op = "load" THEN got ELSE mem
      /\ UNCHANGED <<disk, saves>>
  BY DEF EndOfCall, console
<1>2. \/ job \in SaveJob
      \/ job \in LoadJob /\ saves = <<>> /\ got = disk[job.name]
  BY <1>1 DEF TransferInv, TargetInv
<1>3. job # NoJob
  BY <1>2, NothingAssumption DEF SaveJob, LoadJob, Copy!Job
<1>4. job \in SaveJob => job.op # "load"
  BY DEF SaveJob
<1> QED BY <1>1, <1>2, <1>3, <1>4 DEF Copy!Return

\* The file that the console opens to write is the one to be stored next.
LEMMA TruncateStep ==
  ASSUME TransferInv, RecvStr
  PROVE  Copy!Truncate \/ UNCHANGED Copy!copyVars
<1>1. /\ Read /\ UNCHANGED <<wire, out, mem, job, saves>>
  BY DEF RecvStr, target
<1>2. CASE hpc = "save_name" /\ Head(hin) = NUL
  <2>1. saves # <<>>
    BY <1>2, SavingFacts DEF Saving
  <2>2. hname = Head(saves).name
    BY <1>1, <1>2, NameTaken
  <2>3. disk' = [disk EXCEPT ![hname] = <<>>]
    BY <1>2 DEF RecvStr
  <2> QED BY <1>1, <2>1, <2>2, <2>3 DEF Copy!Truncate
<1>3. CASE ~(hpc = "save_name" /\ Head(hin) = NUL)
  BY <1>1, <1>3 DEF RecvStr, Copy!copyVars
<1> QED BY <1>2, <1>3

LEMMA StoreStep ==
  ASSUME TransferInv, SaveFile
  PROVE  Copy!Store
<1>1. /\ disk' = [disk EXCEPT ![hname] = hbuf] /\ saves' = Tail(saves)
      /\ UNCHANGED <<mem, job>>
  BY DEF SaveFile, target
<1>2. saves # <<>> /\ hname = Head(saves).name /\ hbuf = Head(saves).data
  BY Stored
<1> QED BY <1>1, <1>2 DEF Copy!Store

LEMMA CopyStep ==
  ASSUME TransferInv, [Next]_vars
  PROVE  [Copy!CopyNext]_(Copy!copyVars)
<1>1. CASE (\E n \in Name : RecvFile(n)) \/ \E n \in Name, d \in Data : SendFile(n, d)
  BY <1>1, CallStep DEF Copy!CopyNext
<1>2. CASE EndOfCall
  BY <1>2, ReturnStep DEF Copy!CopyNext
<1>3. CASE RecvStr
  BY <1>3, TruncateStep DEF Copy!CopyNext
<1>4. CASE SaveFile
  BY <1>4, StoreStep DEF Copy!CopyNext
<1>5. CASE Enquire \/ Finish
  BY <1>5 DEF Enquire, Finish, console, Copy!copyVars
<1>6. CASE PutC \/ EndOfPut \/ Finished \/ Drain \/ GetC
  BY <1>6 DEF PutC, EndOfPut, Finished, Drain, GetC, console, Copy!copyVars
<1>7. CASE SizeReceived \/ FileReceived
  BY <1>7 DEF SizeReceived, FileReceived, console, Copy!copyVars
<1>8. CASE Main \/ WaitAck \/ ReadSize \/ SizeKnown \/ ReadData
  BY <1>8 DEF Main, WaitAck, ReadSize, SizeKnown, ReadData, target, Copy!copyVars
<1>9. CASE ToHost \/ ToTarget
  BY <1>9 DEF ToHost, ToTarget, target, console, Copy!copyVars
<1>10. CASE UNCHANGED vars
  BY <1>10 DEF vars, target, console, Copy!copyVars
<1> QED BY <1>1, <1>2, <1>3, <1>4, <1>5, <1>6, <1>7, <1>8, <1>9, <1>10
        DEF Next, Program, Driver, Console

\* Whatever the names and the files hold, and however far the target runs ahead
\* of the console, every call copies its file whole and in the order of the
\* calls: recvfile and sendfile with console.py implement FileCopy.
THEOREM TransferImplementsFileCopy == Spec => ImplementsFileCopy
<1>1. Init => Copy!CopyInit
  BY DEF Init, Copy!CopyInit
<1>2. TransferInv /\ [Next]_vars => [Copy!CopyNext]_(Copy!copyVars)
  BY CopyStep
<1> QED BY <1>1, <1>2, TransferInvariant, PTL DEF Spec, ImplementsFileCopy, Copy!CopySpec
=============================================================================
