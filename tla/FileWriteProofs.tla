-------------------------- MODULE FileWriteProofs --------------------------
(***************************************************************************)
(* For every buffer size, mode, file and argument: what is written         *)
(* implements ByteSink while the device does not fail, and a call says     *)
(* whether the device has failed in it.                                    *)
(***************************************************************************)
EXTENDS FileWrite, SequenceTheorems, TLAPS

\* TypeOK with what the errors have to do with status and the result.
Quiet == pc = "idle" => todo = <<>>
Pending ==
  pc = "write" => result = "none" /\ errors = before + (IF status THEN 0 ELSE 1)
IInv == TypeOK /\ Quiet /\ Pending /\ ErrorsAreTold

-----------------------------------------------------------------------------
(* Overlay *)

Extent(s, p, d) ==
  IF d = <<>> THEN Len(s) ELSE IF Len(s) < p + Len(d) THEN p + Len(d) ELSE Len(s)
ByteAt(s, p, d, i) ==
  IF i \in p + 1..p + Len(d) THEN d[i - p] ELSE IF i \in 1..Len(s) THEN s[i] ELSE NUL

LEMMA OverlayBytes ==
  ASSUME NEW s \in Seq(Bytes), NEW p \in Nat, NEW d \in Seq(Bytes)
  PROVE  /\ Overlay(s, p, d) \in Seq(Bytes)
         /\ Len(Overlay(s, p, d)) = Extent(s, p, d) /\ Extent(s, p, d) \in Nat
         /\ \A i \in 1..Extent(s, p, d) : Overlay(s, p, d)[i] = ByteAt(s, p, d, i)
<1>1. /\ Len(s) \in Nat /\ Len(d) \in Nat /\ (d = <<>> => Len(d) = 0)
      /\ \A i \in 1..Len(s) : s[i] \in Bytes
      /\ \A i \in 1..Len(d) : d[i] \in Bytes
  BY LenProperties, ElementOfSeq, EmptySeq
<1>2. Extent(s, p, d) \in Nat
  BY <1>1 DEF Extent
<1>3. CASE d = <<>>
  <2>1. Overlay(s, p, d) = s /\ Extent(s, p, d) = Len(s)
    BY <1>3 DEF Overlay, Extent
  <2>2. \A i \in 1..Len(s) : ByteAt(s, p, d, i) = s[i]
    BY <1>1, <1>3 DEF ByteAt
  <2>3. QED BY <1>1, <2>1, <2>2
<1>4. CASE d # <<>>
  <2> DEFINE n == Extent(s, p, d)
  <2>1. Overlay(s, p, d) = [i \in 1..n |-> ByteAt(s, p, d, i)]
    BY <1>4, Zenon DEF Overlay, Extent, ByteAt
  <2>2. \A i \in 1..n : ByteAt(s, p, d, i) \in Bytes
    <3>1. TAKE i \in 1..n
    <3>2. CASE i \in p + 1..p + Len(d)
      <4>1. i - p \in 1..Len(d)
        BY <1>1, <3>2
      <4>2. QED BY <1>1, <3>2, <4>1 DEF ByteAt
    <3>3. CASE i \notin p + 1..p + Len(d)
      BY <1>1, <3>3, ArgsAssumption DEF ByteAt
    <3>4. QED BY <3>2, <3>3
  <2> HIDE DEF n
  <2>3. n \in Nat
    BY <1>2 DEF n
  <2>4. [i \in 1..n |-> ByteAt(s, p, d, i)] \in [1..n -> Bytes]
    BY <2>2
  <2>5. Overlay(s, p, d) \in Seq(Bytes)
    BY <2>1, <2>3, <2>4, SeqDef
  <2>6. DOMAIN Overlay(s, p, d) = 1..n /\ DOMAIN Overlay(s, p, d) = 1..Len(Overlay(s, p, d))
    BY <2>1, <2>5, LenProperties
  <2>7. Len(Overlay(s, p, d)) = n
    BY <2>3, <2>5, <2>6, LenProperties
  <2>8. \A i \in 1..n : Overlay(s, p, d)[i] = ByteAt(s, p, d, i)
    BY <2>1
  <2>9. QED BY <2>3, <2>5, <2>7, <2>8 DEF n
<1>5. QED BY <1>3, <1>4

\* Bytes that are written in two pieces lie as they do when they are written in one.
LEMMA OverlayTwice ==
  ASSUME NEW s \in Seq(Bytes), NEW p \in Nat, NEW x \in Seq(Bytes), NEW y \in Seq(Bytes)
  PROVE  Overlay(s, p, x \o y) = Overlay(Overlay(s, p, x), p + Len(x), y)
<1> DEFINE one == Overlay(s, p, x \o y)
           half == Overlay(s, p, x)
           two == Overlay(half, p + Len(x), y)
<1>1. /\ Len(s) \in Nat /\ Len(x) \in Nat /\ Len(y) \in Nat
      /\ x \o y \in Seq(Bytes) /\ Len(x \o y) = Len(x) + Len(y)
      /\ \A i \in 1..Len(x) + Len(y) : (x \o y)[i] = IF i <= Len(x) THEN x[i] ELSE y[i - Len(x)]
      /\ (x = <<>> <=> Len(x) = 0) /\ (y = <<>> <=> Len(y) = 0)
      /\ (x \o y = <<>> <=> Len(x) + Len(y) = 0)
  BY LenProperties, ConcatProperties, EmptySeq
<1>2. /\ half \in Seq(Bytes) /\ Len(half) = Extent(s, p, x) /\ Extent(s, p, x) \in Nat
      /\ \A i \in 1..Extent(s, p, x) : half[i] = ByteAt(s, p, x, i)
  BY OverlayBytes
<1>3. p + Len(x) \in Nat
  BY <1>1
<1> HIDE DEF half
<1>4. /\ one \in Seq(Bytes) /\ Len(one) = Extent(s, p, x \o y) /\ Extent(s, p, x \o y) \in Nat
      /\ \A i \in 1..Extent(s, p, x \o y) : one[i] = ByteAt(s, p, x \o y, i)
  <2> DEFINE xy == x \o y
  <2> HIDE DEF xy
  <2>1. s \in Seq(Bytes) /\ p \in Nat /\ xy \in Seq(Bytes)
    BY <1>1 DEF xy
  <2>2. /\ Overlay(s, p, xy) \in Seq(Bytes)
        /\ Len(Overlay(s, p, xy)) = Extent(s, p, xy) /\ Extent(s, p, xy) \in Nat
        /\ \A i \in 1..Extent(s, p, xy) : Overlay(s, p, xy)[i] = ByteAt(s, p, xy, i)
    BY ONLY <2>1, OverlayBytes
  <2>3. QED BY <2>2 DEF xy
<1>5. /\ two \in Seq(Bytes) /\ Len(two) = Extent(half, p + Len(x), y)
      /\ \A i \in 1..Extent(half, p + Len(x), y) : two[i] = ByteAt(half, p + Len(x), y, i)
  BY <1>2, <1>3, OverlayBytes
<1> HIDE DEF one, two
<1>6. Extent(s, p, x \o y) = Extent(half, p + Len(x), y)
  <2>1. CASE y = <<>>
    <3>1. Extent(half, p + Len(x), y) = Extent(s, p, x)
      BY <1>2, <2>1 DEF Extent
    <3>2. Extent(s, p, x \o y) = Extent(s, p, x)
      BY <1>1, <2>1 DEF Extent
    <3>3. QED BY <3>1, <3>2
  <2>2. CASE x = <<>> /\ y # <<>>
    <3>1. Len(half) = Len(s) /\ Len(x \o y) = Len(y) /\ x \o y # <<>> /\ p + Len(x) = p
      BY <1>1, <1>2, <2>2 DEF Extent
    <3>2. QED BY <2>2, <3>1 DEF Extent
  <2>3. CASE x # <<>> /\ y # <<>>
    <3>1. Len(half) = IF Len(s) < p + Len(x) THEN p + Len(x) ELSE Len(s)
      BY <1>2, <2>3 DEF Extent
    <3>2. /\ Len(x) > 0 /\ Len(y) > 0 /\ x \o y # <<>>
          /\ p + Len(x \o y) = p + Len(x) + Len(y)
      BY <1>1, <2>3
    <3>3. Extent(s, p, x \o y) =
            IF Len(s) < p + Len(x) + Len(y) THEN p + Len(x) + Len(y) ELSE Len(s)
      BY <3>2 DEF Extent
    <3>4. Extent(half, p + Len(x), y) =
            IF Len(half) < p + Len(x) + Len(y) THEN p + Len(x) + Len(y) ELSE Len(half)
      BY <2>3 DEF Extent
    <3>5. QED BY <1>1, <3>1, <3>2, <3>3, <3>4
  <2>4. QED BY <2>1, <2>2, <2>3
<1>7. ASSUME NEW i \in 1..Len(one) PROVE one[i] = two[i]
  <2>1. i \in Nat \ {0} /\ i \in 1..Extent(s, p, x \o y)
    BY <1>4
  <2>2. one[i] = ByteAt(s, p, x \o y, i) /\ two[i] = ByteAt(half, p + Len(x), y, i)
    BY <1>4, <1>5, <1>6, <2>1
  <2>3. CASE i \in p + Len(x) + 1..p + Len(x) + Len(y)
    <3>1. i \in p + 1..p + Len(x \o y) /\ i - p \in 1..Len(x) + Len(y) /\ ~(i - p <= Len(x))
      BY <1>1, <2>3
    <3>2. ByteAt(s, p, x \o y, i) = y[i - p - Len(x)]
      BY <1>1, <3>1 DEF ByteAt
    <3>3. ByteAt(half, p + Len(x), y, i) = y[i - (p + Len(x))]
      BY <2>3 DEF ByteAt
    <3>4. i - p - Len(x) = i - (p + Len(x))
      BY <1>1, <2>1
    <3>5. QED BY <2>2, <3>2, <3>3, <3>4
  <2>4. CASE i \in p + 1..p + Len(x)
    <3>1. /\ i \in p + 1..p + Len(x \o y) /\ i - p \in 1..Len(x) + Len(y) /\ i - p <= Len(x)
          /\ i \notin p + Len(x) + 1..p + Len(x) + Len(y)
      BY <1>1, <2>4
    <3>2. ByteAt(s, p, x \o y, i) = x[i - p]
      BY <1>1, <3>1 DEF ByteAt
    <3>3. x # <<>> /\ i \in 1..Extent(s, p, x)
      BY <1>1, <2>4 DEF Extent
    <3>4. ByteAt(half, p + Len(x), y, i) = half[i]
      BY <1>2, <3>1, <3>3 DEF ByteAt
    <3>5. half[i] = x[i - p]
      BY <1>2, <2>4, <3>3 DEF ByteAt
    <3>6. QED BY <2>2, <3>2, <3>4, <3>5
  <2>5. CASE i \notin p + 1..p + Len(x) + Len(y)
    <3>1. /\ i \notin p + 1..p + Len(x \o y) /\ i \notin p + 1..p + Len(x)
          /\ i \notin p + Len(x) + 1..p + Len(x) + Len(y)
      BY <1>1, <2>5
    <3>2. one[i] = IF i \in 1..Len(s) THEN s[i] ELSE NUL
      BY <2>2, <3>1 DEF ByteAt
    <3>3. two[i] = IF i \in 1..Len(half) THEN half[i] ELSE NUL
      BY <2>2, <3>1 DEF ByteAt
    <3>4. i \in 1..Len(half) => half[i] = IF i \in 1..Len(s) THEN s[i] ELSE NUL
      BY <1>2, <3>1 DEF ByteAt
    <3>5. i \in 1..Len(s) => i \in 1..Len(half)
      BY <1>1, <1>2, <2>1 DEF Extent
    <3>6. QED BY <3>2, <3>3, <3>4, <3>5
  <2>6. QED BY <1>1, <2>1, <2>3, <2>4, <2>5
<1>8. one = two
  BY <1>4, <1>5, <1>6, <1>7, SeqEqual
<1>9. QED BY <1>8 DEF one, two, half

-----------------------------------------------------------------------------
(* What goes to the device and what stays in the buffer *)

FileTyped == append \in BOOLEAN /\ disk \in Seq(Bytes) /\ at \in Nat

LEMMA WhereIsNat == FileTyped => Where \in Nat
BY LenProperties DEF FileTyped, Where

LEMMA FirstAndBehind ==
  ASSUME NEW all \in Seq(Bytes), NEW n \in 0..Len(all)
  PROVE  /\ First(all, n) \in Seq(Bytes) /\ Len(First(all, n)) = n
         /\ Behind(all, n) \in Seq(Bytes) /\ Len(Behind(all, n)) = Len(all) - n
         /\ First(all, n) \o Behind(all, n) = all
<1>1. Len(all) \in Nat /\ \A i \in 1..Len(all) : all[i] \in Bytes
  BY LenProperties, ElementOfSeq
<1>2. First(all, n) \in Seq(Bytes) /\ Len(First(all, n)) = n
  BY <1>1, SubSeqProperties DEF First
<1>3. Behind(all, n) \in Seq(Bytes) /\ Len(Behind(all, n)) = Len(all) - n
  BY <1>1, SubSeqProperties DEF Behind
<1>4. First(all, n) \o Behind(all, n) = SubSeq(all, 1, Len(all))
  <2>1. 1 \in 1..Len(all) + 1 /\ n \in 1 - 1..Len(all) /\ Len(all) \in n..Len(all)
    BY <1>1
  <2>2. SubSeq(all, 1, n) \o SubSeq(all, n + 1, Len(all)) = SubSeq(all, 1, Len(all))
    BY <2>1, ConcatAdjacentSubSeq
  <2>3. QED BY <2>2 DEF First, Behind
<1>5. QED BY <1>2, <1>3, <1>4, SubSeqFull

\* Where the file is written to moves with what is written.
LEMMA DrainKeeps ==
  ASSUME FileTyped, append' = append,
         NEW all \in Seq(Bytes), NEW n \in 0..Len(all), Drain(all, n)
  PROVE  /\ FileTyped'
         /\ Where' = Where + n
         /\ n = 0 => disk' = disk /\ at' = at
         /\ n # 0 => at' = Where + n
         /\ Overlay(disk', Where', Behind(all, n)) = Overlay(disk, Where, all)
<1>1. /\ Where \in Nat /\ Len(all) \in Nat /\ n \in Nat /\ disk \in Seq(Bytes) /\ Len(disk) \in Nat
  BY WhereIsNat, LenProperties DEF FileTyped
<1>2. /\ First(all, n) \in Seq(Bytes) /\ Len(First(all, n)) = n
      /\ Behind(all, n) \in Seq(Bytes)
      /\ First(all, n) \o Behind(all, n) = all
  BY FirstAndBehind
<1>3. disk' = Overlay(disk, Where, First(all, n)) /\ at' = IF n = 0 THEN at ELSE Where + n
  BY DEF Drain
<1>4. disk' \in Seq(Bytes) /\ Len(disk') = Extent(disk, Where, First(all, n))
  BY <1>1, <1>2, <1>3, OverlayBytes
<1>5. FileTyped'
  BY <1>1, <1>3, <1>4 DEF FileTyped
<1>6. n = 0 => disk' = disk
  BY <1>2, <1>3, EmptySeq DEF Overlay
<1>7. Where' = Where + n
  <2>1. CASE append
    <3>1. Where = Len(disk) /\ Where' = Len(disk')
      BY <2>1 DEF Where
    <3>2. CASE n = 0
      BY <1>1, <1>6, <3>1, <3>2
    <3>3. CASE n # 0
      <4>1. First(all, n) # <<>>
        BY <1>2, <3>3, EmptySeq
      <4>2. Extent(disk, Where, First(all, n)) = Where + n
        BY <1>1, <1>2, <3>1, <3>3, <4>1 DEF Extent
      <4>3. QED BY <1>4, <3>1, <4>2
    <3>4. QED BY <3>2, <3>3
  <2>2. CASE ~append
    BY <1>1, <1>3, <2>2 DEF Where, FileTyped
  <2>3. QED BY <2>1, <2>2
<1>8. Overlay(disk', Where', Behind(all, n)) = Overlay(disk, Where, all)
  <2>1. Overlay(disk, Where, First(all, n) \o Behind(all, n))
          = Overlay(Overlay(disk, Where, First(all, n)), Where + Len(First(all, n)), Behind(all, n))
    <3> DEFINE x == First(all, n)
               y == Behind(all, n)
               d == disk
               w == Where
    <3> HIDE DEF x, y, d, w
    <3>1. d \in Seq(Bytes) /\ w \in Nat /\ x \in Seq(Bytes) /\ y \in Seq(Bytes)
      BY <1>1, <1>2 DEF x, y, d, w
    <3>2. Overlay(d, w, x \o y) = Overlay(Overlay(d, w, x), w + Len(x), y)
      BY ONLY <3>1, OverlayTwice
    <3>3. QED BY <3>2 DEF x, y, d, w
  <2>2. QED BY <1>2, <1>3, <1>7, <2>1
<1>9. QED BY <1>3, <1>5, <1>6, <1>7, <1>8

\* The file as the script sees it.
Content == Overlay(disk, Where, buffer)
Pos == IF buffer = <<>> THEN at ELSE Where + Len(buffer)

LEMMA PutsKeeps ==
  ASSUME FileTyped, NEW all \in Seq(Bytes), all # <<>>, Puts(all)
  PROVE  /\ FileTyped' /\ buffer' \in Seq(Bytes)
         /\ Content' = Overlay(disk, Where, all) /\ Pos' = Where + Len(all)
<1>1. append' = append
  BY DEF Puts
<1>2. PICK n \in 0..Len(all) : Drain(all, n) /\ buffer' = Behind(all, n)
  BY DEF Puts
<1>3. /\ FileTyped' /\ Where' = Where + n /\ (n # 0 => at' = Where + n)
      /\ Overlay(disk', Where', Behind(all, n)) = Overlay(disk, Where, all)
  BY <1>1, <1>2, DrainKeeps
<1>4. Behind(all, n) \in Seq(Bytes) /\ Len(Behind(all, n)) = Len(all) - n
  BY FirstAndBehind
<1>5. Pos' = Where + Len(all)
  <2>1. Len(all) \in Nat /\ Len(all) # 0 /\ Where \in Nat
    BY LenProperties, EmptySeq, WhereIsNat
  <2>2. CASE buffer' = <<>>
    <3>1. n = Len(all)
      BY <1>2, <1>4, <2>1, <2>2, EmptySeq
    <3>2. QED BY <1>3, <2>1, <2>2, <3>1 DEF Pos
  <2>3. CASE buffer' # <<>>
    BY <1>2, <1>3, <1>4, <2>1, <2>3 DEF Pos
  <2>4. QED BY <2>2, <2>3
<1>6. QED BY <1>2, <1>3, <1>4, <1>5 DEF Content

LEMMA FlushesKeeps ==
  ASSUME FileTyped, buffer \in Seq(Bytes), Flushes
  PROVE  FileTyped' /\ buffer' = <<>> /\ Content' = Content /\ Pos' = Pos
<1>1. /\ Len(buffer) \in Nat /\ Len(buffer) \in 0..Len(buffer) /\ Where \in Nat
      /\ (buffer = <<>> <=> Len(buffer) = 0)
  BY LenProperties, EmptySeq, WhereIsNat
<1>2. append' = append /\ Drain(buffer, Len(buffer)) /\ buffer' = <<>>
  BY DEF Flushes
<1>3. /\ FileTyped' /\ Where' = Where + Len(buffer)
      /\ Len(buffer) = 0 => disk' = disk /\ at' = at
      /\ Len(buffer) # 0 => at' = Where + Len(buffer)
      /\ Overlay(disk', Where', Behind(buffer, Len(buffer))) = Overlay(disk, Where, buffer)
  BY <1>1, <1>2, DrainKeeps
<1>4. Behind(buffer, Len(buffer)) = <<>>
  BY <1>1, FirstAndBehind, EmptySeq
<1>5. Content' = Content
  BY <1>2, <1>3, <1>4 DEF Content
<1>6. Pos' = Pos
  BY <1>1, <1>2, <1>3 DEF Pos
<1>7. QED BY <1>2, <1>3, <1>5, <1>6

LEMMA FailsKeeps ==
  ASSUME FileTyped, errors \in Nat, NEW all \in Seq(Bytes), Fails(all)
  PROVE  /\ FileTyped' /\ buffer' \in Seq(Bytes) /\ errors' \in Nat /\ errors' > 0
         /\ append' = append
<1>1. append' = append /\ errors' = errors + 1
  BY DEF Fails
<1>2. PICK n \in 0..Len(all) - 1, k \in 0..BufferSize :
        Drain(all, n) /\ n + k <= Len(all) /\ buffer' = SubSeq(all, n + 1, n + k)
  BY DEF Fails
<1>3. Len(all) \in Nat /\ n \in 0..Len(all) /\ \A i \in 1..Len(all) : all[i] \in Bytes
  BY LenProperties, ElementOfSeq
<1>4. FileTyped'
  BY <1>1, <1>2, <1>3, DrainKeeps
<1>5. buffer' \in Seq(Bytes)
  BY <1>2, <1>3, ArgsAssumption, SubSeqProperties
<1>6. QED BY <1>1, <1>4, <1>5

LEMMA CloseFailsKeeps ==
  ASSUME FileTyped, errors \in Nat, buffer \in Seq(Bytes), CloseFails
  PROVE  /\ FileTyped' /\ buffer' = <<>> /\ errors' \in Nat /\ errors' > 0
         /\ append' = append
<1>1. append' = append /\ errors' = errors + 1 /\ buffer' = <<>>
  BY DEF CloseFails
<1>2. PICK n \in 0..Len(buffer) - 1 : Drain(buffer, n)
  BY DEF CloseFails
<1>3. n \in 0..Len(buffer)
  BY LenProperties
<1>4. FileTyped'
  BY <1>1, <1>2, <1>3, DrainKeeps
<1>5. QED BY <1>1, <1>4

-----------------------------------------------------------------------------
(* Types and errors *)

LEMMA Typed == IInv => FileTyped /\ buffer \in Seq(Bytes) /\ errors \in Nat
BY DEF IInv, TypeOK, FileTyped

LEMMA HeadArg ==
  ASSUME todo \in Seq(Args), todo # <<>>
  PROVE  /\ Head(todo) \in Args /\ Text(Head(todo)) \in Seq(Bytes)
         /\ Tail(todo) \in Seq(Args) /\ TodoBehind = Tail(todo)
BY HeadTailProperties, ArgsAssumption DEF Text, TodoBehind

LEMMA InitInv == Init => IInv
<1> SUFFICES ASSUME Init PROVE IInv
  OBVIOUS
<1>1. <<>> \in Seq(Bytes) /\ <<>> \in Seq(Args)
  BY EmptySeq
<1>2. <<NUL, NUL>> \in Seq(Bytes)
  BY ArgsAssumption
<1>3. disk \in Seq(Bytes)
  BY <1>1, <1>2 DEF Init
<1>4. QED BY <1>1, <1>3 DEF Init, IInv, TypeOK, Quiet, Pending, ErrorsAreTold

LEMMA WriteInv == ASSUME IInv, NEW args \in Calls, Write(args) PROVE IInv'
<1>1. args \in Seq(Args)
  BY ArgsAssumption DEF Calls
<1>2. TypeOK'
  BY <1>1 DEF IInv, TypeOK, Write, Usable, file
<1>3. errors' = errors /\ errors \in Nat
  BY DEF Write, file, IInv, TypeOK
<1>4. QED BY <1>2, <1>3 DEF Write, IInv, Quiet, Pending, ErrorsAreTold

LEMMA WriteArgInv == ASSUME IInv, WriteArg PROVE IInv'
<1> DEFINE all == buffer \o Text(Head(todo))
<1>1. /\ FileTyped /\ buffer \in Seq(Bytes) /\ errors \in Nat /\ todo \in Seq(Args)
      /\ pc = "write" /\ todo # <<>> /\ handle = "open"
  BY Typed DEF IInv, TypeOK, WriteArg
<1>2. /\ Text(Head(todo)) \in Seq(Bytes) /\ all \in Seq(Bytes) /\ todo' \in Seq(Args)
  BY <1>1, HeadArg, ConcatProperties DEF WriteArg
<1>3. /\ pc' = "write" /\ handle' = "open" /\ UNCHANGED <<result, before>>
      /\ result = "none" /\ errors = before + (IF status THEN 0 ELSE 1)
      /\ status \in BOOLEAN /\ before \in Nat
  BY <1>1 DEF WriteArg, told, IInv, Pending, TypeOK
<1>4. Quiet' /\ ErrorsAreTold'
  BY <1>3 DEF Quiet, ErrorsAreTold
<1>5. CASE Attempts /\ Text(Head(todo)) # <<>> /\ Puts(all) /\ status' = TRUE
  <2>1. all # <<>>
    BY <1>1, <1>2, <1>5, EmptySeq, ConcatProperties
  <2>2. FileTyped' /\ buffer' \in Seq(Bytes)
    BY <1>1, <1>2, <1>5, <2>1, PutsKeeps
  <2>3. vbuf' = vbuf /\ errors' = errors
    BY <1>5 DEF Puts
  <2>4. TypeOK'
    BY <1>2, <1>3, <1>5, <2>2, <2>3 DEF IInv, TypeOK, FileTyped
  <2>5. Pending'
    BY <1>3, <1>5, <2>3 DEF Pending, Attempts
  <2>6. QED BY <1>4, <2>4, <2>5 DEF IInv
<1>6. CASE Attempts /\ Fails(all) /\ status' = FALSE
  <2>1. FileTyped' /\ buffer' \in Seq(Bytes) /\ errors' \in Nat
    BY <1>1, <1>2, <1>6, FailsKeeps
  <2>2. vbuf' = vbuf /\ errors' = errors + 1
    BY <1>6 DEF Fails
  <2>3. TypeOK'
    BY <1>2, <1>3, <1>6, <2>1, <2>2 DEF IInv, TypeOK, FileTyped
  <2>4. Pending'
    BY <1>3, <1>6, <2>2 DEF Pending, Attempts
  <2>5. QED BY <1>4, <2>3, <2>4 DEF IInv
<1>7. CASE Attempts /\ status' = TRUE /\ UNCHANGED file
  <2>1. TypeOK'
    BY <1>2, <1>3, <1>7 DEF IInv, TypeOK, file
  <2>2. Pending'
    BY <1>3, <1>7 DEF Pending, Attempts, file
  <2>3. QED BY <1>4, <2>1, <2>2 DEF IInv
<1>8. CASE UNCHANGED <<file, status>>
  <2>1. TypeOK'
    BY <1>2, <1>3, <1>8 DEF IInv, TypeOK, file
  <2>2. Pending'
    BY <1>3, <1>8 DEF Pending, file
  <2>3. QED BY <1>4, <2>1, <2>2 DEF IInv
<1>9. QED BY <1>5, <1>6, <1>7, <1>8 DEF WriteArg

LEMMA EndInv == ASSUME IInv, Raise \/ Return PROVE IInv'
<1>1. TypeOK'
  BY EmptySeq DEF IInv, TypeOK, Raise, Return, file
<1>2. pc' = "idle" /\ todo' = <<>>
  BY DEF Raise, Return
<1>3. ErrorsAreTold'
  <2>1. /\ errors' = errors /\ before' = before /\ before \in Nat
        /\ errors = before + (IF status THEN 0 ELSE 1)
    BY DEF IInv, TypeOK, Pending, Raise, Return, file
  <2>2. result' = "raised" \/ result' = IF status THEN "true" ELSE "error"
    BY DEF Raise, Return
  <2>3. QED BY <2>1, <2>2 DEF ErrorsAreTold
<1>4. QED BY <1>1, <1>2, <1>3 DEF IInv, Quiet, Pending

\* The calls that are one step: what they leave of the types is enough.
LEMMA SimpleInv ==
  ASSUME IInv, Simple, handle' \in {"open", "shut", "closed", "collected"},
         FileTyped', buffer' \in Seq(Bytes), errors' \in Nat, vbuf' \in {"no", "full", "line"},
         handle' # "open" => buffer' = <<>>,
         result' \in {"none", "true", "error"},
         result' = "true" => errors' = errors, result' = "error" => errors' = errors + 1
  PROVE  IInv'
<1>1. /\ pc' = "idle" /\ todo' = todo /\ status' = status /\ before' = errors
      /\ errors \in Nat /\ todo = <<>>
  BY DEF Simple, write, IInv, TypeOK, Quiet
<1>2. TypeOK'
  BY <1>1 DEF IInv, TypeOK, FileTyped
<1>3. QED BY <1>1, <1>2 DEF IInv, Quiet, Pending, ErrorsAreTold

LEMMA FailsTyped ==
  ASSUME IInv, Fails(buffer)
  PROVE  /\ FileTyped' /\ buffer' \in Seq(Bytes) /\ errors' \in Nat
         /\ vbuf' \in {"no", "full", "line"} /\ errors' = errors + 1
<1>1. FileTyped' /\ buffer' \in Seq(Bytes) /\ errors' \in Nat
  BY Typed, FailsKeeps
<1>2. QED BY <1>1 DEF Fails, IInv, TypeOK

LEMMA FlushesTyped ==
  ASSUME IInv, Flushes
  PROVE  /\ FileTyped' /\ buffer' \in Seq(Bytes) /\ buffer' = <<>>
         /\ errors' \in Nat /\ errors' = errors
<1>1. FileTyped' /\ buffer' = <<>>
  BY Typed, FlushesKeeps
<1>2. QED BY <1>1, Typed, EmptySeq DEF Flushes

LEMMA CloseFailsTyped ==
  ASSUME IInv, CloseFails
  PROVE  /\ FileTyped' /\ buffer' \in Seq(Bytes) /\ buffer' = <<>> /\ errors' \in Nat
         /\ vbuf' \in {"no", "full", "line"} /\ errors' = errors + 1
<1>1. FileTyped' /\ buffer' = <<>> /\ errors' \in Nat
  BY Typed, CloseFailsKeeps
<1>2. QED BY <1>1, EmptySeq DEF CloseFails, IInv, TypeOK

\* What seek leaves when it succeeds: flush, with another position.
LEMMA SeekTyped ==
  ASSUME IInv, NEW offset \in Offsets,
         disk' = Overlay(disk, Where, buffer), buffer' = <<>>, at' = offset, append' = append
  PROVE  FileTyped' /\ buffer' \in Seq(Bytes) /\ Content' = Content /\ Pos' = offset
<1>1. FileTyped /\ buffer \in Seq(Bytes) /\ Where \in Nat /\ disk \in Seq(Bytes)
  BY Typed, WhereIsNat DEF FileTyped
<1>2. disk' \in Seq(Bytes)
  BY <1>1, OverlayBytes
<1>3. FileTyped' /\ buffer' \in Seq(Bytes)
  BY <1>1, <1>2, EmptySeq, ArgsAssumption DEF FileTyped
<1>4. Content' = Content /\ Pos' = offset
  BY DEF Content, Pos, Overlay
<1>5. QED BY <1>3, <1>4

LEMMA StepInv == IInv /\ [Next]_vars => IInv'
<1> SUFFICES ASSUME IInv, [Next]_vars PROVE IInv'
  OBVIOUS
<1>0. vbuf \in {"no", "full", "line"} /\ FileTyped /\ errors \in Nat
  BY Typed DEF IInv, TypeOK
<1>1. CASE Step
  BY <1>1, WriteArgInv, EndInv DEF Step
<1>2. ASSUME NEW args \in Calls, Write(args) PROVE IInv'
  BY <1>2, WriteInv
<1>3. CASE Flush
  <2>1. Simple /\ handle = "open" /\ handle' = "open"
    BY <1>0, <1>3 DEF Flush, Usable
  <2>2. CASE Flushes /\ result' = "true" /\ vbuf' = vbuf
    BY <1>0, <2>1, <2>2, FlushesTyped, SimpleInv
  <2>3. CASE Fails(buffer) /\ result' = "error"
    BY <1>0, <2>1, <2>3, FailsTyped, SimpleInv
  <2>4. QED BY <1>3, <2>2, <2>3 DEF Flush
<1>4. ASSUME NEW offset \in Offsets, Seek(offset) PROVE IInv'
  <2>1. Simple /\ handle = "open" /\ handle' = "open"
    BY <1>0, <1>4 DEF Seek, Usable
  <2>2. CASE /\ disk' = Overlay(disk, Where, buffer) /\ buffer' = <<>> /\ at' = offset
             /\ result' = "true" /\ UNCHANGED <<append, vbuf, errors>>
    BY <1>0, <2>1, <2>2, SeekTyped, SimpleInv
  <2>3. CASE Fails(buffer) /\ result' = "error"
    BY <1>0, <2>1, <2>3, FailsTyped, SimpleInv
  <2>4. QED BY <1>4, <2>2, <2>3 DEF Seek
<1>5. ASSUME NEW mode \in {"no", "full", "line"}, SetVBuf(mode) PROVE IInv'
  <2>1. Simple /\ handle = "open" /\ handle' = "open"
    BY <1>0, <1>5 DEF SetVBuf, Usable
  <2>2. CASE Flushes /\ vbuf' = mode /\ result' = "true"
    BY <1>0, <2>1, <2>2, FlushesTyped, SimpleInv
  <2>3. CASE vbuf' = mode /\ result' = "true" /\ UNCHANGED <<append, disk, at, buffer, errors>>
    <3>1. FileTyped' /\ buffer' \in Seq(Bytes)
      BY <1>0, <2>3, Typed DEF FileTyped
    <3>2. QED BY <1>0, <2>1, <2>3, <3>1, SimpleInv
  <2>4. CASE Fails(buffer) /\ result' = "error"
    BY <1>0, <2>1, <2>4, FailsTyped, SimpleInv
  <2>5. QED BY <1>5, <2>2, <2>3, <2>4 DEF SetVBuf
<1>6. CASE Close
  <2>1. Simple /\ handle = "open"
    BY <1>0, <1>6 DEF Close, Usable
  <2>2. CASE Flushes /\ handle' = "closed" /\ result' = "true" /\ vbuf' = vbuf
    BY <1>0, <2>1, <2>2, FlushesTyped, SimpleInv
  <2>3. CASE CloseFails /\ handle' = "shut" /\ result' = "error"
    BY <1>0, <2>1, <2>3, CloseFailsTyped, SimpleInv
  <2>4. QED BY <1>6, <2>2, <2>3 DEF Close
<1>7. CASE Collect
  <2>1. Simple /\ handle' = "collected" /\ result' = "none"
    BY <1>7 DEF Collect
  <2>2. CASE Flushes /\ UNCHANGED vbuf
    BY <1>0, <2>1, <2>2, FlushesTyped, SimpleInv
  <2>3. CASE CloseFails
    BY <1>0, <2>1, <2>3, CloseFailsTyped, SimpleInv
  <2>4. CASE handle = "shut" /\ UNCHANGED file
    <3>1. /\ FileTyped' /\ buffer' \in Seq(Bytes) /\ buffer' = <<>> /\ errors' \in Nat
          /\ vbuf' \in {"no", "full", "line"}
      BY <1>0, <2>4, Typed DEF FileTyped, file, IInv, TypeOK
    <3>2. QED BY <2>1, <3>1, SimpleInv
  <2>5. QED BY <1>7, <2>2, <2>3, <2>4 DEF Collect
<1>8. CASE UNCHANGED vars
  BY <1>8 DEF vars, file, write, told, IInv, TypeOK, Quiet, Pending, ErrorsAreTold
<1>9. QED BY <1>1, <1>2, <1>3, <1>4, <1>5, <1>6, <1>7, <1>8 DEF Next, GivenUp

\* Whatever is written and however the device fails, the state is of its type, and a
\* file that is given up keeps nothing in its buffer (LuaFileAdapter.cpp:35-46, 177-193).
THEOREM TypeCorrect == Spec => []TypeOK
<1>1. IInv => TypeOK
  BY DEF IInv
<1>2. QED BY <1>1, InitInv, StepInv, PTL DEF Spec

\* For every size and mode of the buffer, all arguments and all errors of the device,
\* write, flush, seek, setvbuf and close say true only if the device has not failed in
\* them, and no call goes on behind an error (LuaFileAdapter.cpp:151-167).
THEOREM ErrorsTold == Spec => []ErrorsAreTold
<1>1. IInv => ErrorsAreTold
  BY DEF IInv
<1>2. QED BY <1>1, InitInv, StepInv, PTL DEF Spec

-----------------------------------------------------------------------------
(* The refinement *)

Texts(args) == [i \in 1..Len(args) |-> args[i].bytes]

LEMMA TextsOfArgs ==
  ASSUME NEW args \in Seq(Args)
  PROVE  /\ Texts(args) \in Seq(Seq(Bytes)) /\ (Texts(args) = <<>> <=> args = <<>>)
         /\ args # <<>> => /\ Head(Texts(args)) = Text(Head(args))
                           /\ Tail(Texts(args)) = Texts(Tail(args))
<1>1. Len(args) \in Nat /\ \A i \in 1..Len(args) : args[i] \in Args
  BY LenProperties, ElementOfSeq
<1>2. Texts(args) \in [1..Len(args) -> Seq(Bytes)]
  BY <1>1, ArgsAssumption DEF Texts
<1>3. Texts(args) \in Seq(Seq(Bytes))
  BY <1>1, <1>2, SeqDef
<1>4. Len(Texts(args)) = Len(args)
  BY <1>1, <1>2, <1>3, LenProperties
<1>5. Texts(args) = <<>> <=> args = <<>>
  BY <1>3, <1>4, EmptySeq
<1>6. ASSUME args # <<>>
      PROVE  /\ Head(Texts(args)) = Text(Head(args)) /\ Tail(Texts(args)) = Texts(Tail(args))
  <2>1. Tail(args) \in Seq(Args) /\ Len(Tail(args)) = Len(args) - 1 /\ Len(args) > 0
        /\ \A i \in 1..Len(Tail(args)) : Tail(args)[i] = args[i + 1]
    BY <1>1, <1>6, HeadTailProperties, EmptySeq
  <2>2. /\ Tail(Texts(args)) \in Seq(Seq(Bytes)) /\ Len(Tail(Texts(args))) = Len(args) - 1
        /\ \A i \in 1..Len(args) - 1 : Tail(Texts(args))[i] = Texts(args)[i + 1]
    BY <1>3, <1>4, <1>5, <1>6, HeadTailProperties
  <2>3. /\ Texts(Tail(args)) = [i \in 1..Len(args) - 1 |-> args[i + 1].bytes]
    BY <2>1 DEF Texts
  <2>4. /\ Tail(Texts(args)) = [i \in 1..Len(args) - 1 |-> Tail(Texts(args))[i]]
    BY <1>1, <2>2, LenProperties
  <2>5. \A i \in 1..Len(args) - 1 : Tail(Texts(args))[i] = args[i + 1].bytes
    BY <1>1, <2>2 DEF Texts
  <2>6. Tail(Texts(args)) = Texts(Tail(args))
    BY <2>3, <2>4, <2>5
  <2>7. Head(Texts(args)) = Texts(args)[1] /\ Head(args) = args[1] /\ 1 \in 1..Len(args)
    BY <1>1, <2>1
  <2>8. QED BY <2>6, <2>7 DEF Texts, Text
<1>7. QED BY <1>3, <1>5, <1>6

LEMMA SinkOverlay ==
  ASSUME NEW s, NEW p, NEW d PROVE Sink!Overlay(s, p, d) = Overlay(s, p, d)
BY Zenon DEF Sink!Overlay, Overlay

\* The steps of ByteSink in the words of this module.
LEMMA SinkCall ==
  ASSUME IInv, NEW args \in Calls, Write(args) PROVE Sink!Call
<1>1. args \in Seq(Args) /\ args # <<>>
  <2>1. PICK n \in 1..MaxArgs : args \in [1..n -> Args]
    BY DEF Calls
  <2>2. args \in Seq(Args) /\ Len(args) = n
    BY <2>1, ArgsAssumption
  <2>3. QED BY <2>2
<1>2. Texts(args) \in Seq(Seq(Bytes)) \ {<<>>}
  BY <1>1, TextsOfArgs
<1>3. Texts(todo) = <<>>
  BY EmptySeq, TextsOfArgs DEF IInv, Quiet, Write
<1>4. todo' = args /\ handle = "open" /\ UNCHANGED file /\ handle' = handle
  BY DEF Write, Usable
<1>5. Texts(todo') \in Seq(Seq(Bytes)) \ {<<>>}
  BY <1>2, <1>4
<1>6. UNCHANGED <<append, Content, Pos, errors, handle>>
  BY <1>4 DEF file, Content, Pos, Where
<1>7. QED BY <1>3, <1>4, <1>5, <1>6 DEF Sink!Call, Texts, Content, Pos

LEMMA SinkWrite ==
  ASSUME IInv, todo # <<>>, Attempts, Text(Head(todo)) # <<>>,
         Puts(buffer \o Text(Head(todo))), todo' = TodoBehind, handle' = handle
  PROVE  Sink!Write
<1> DEFINE s == Text(Head(todo))
           p == Where + Len(buffer)
<1>1. /\ FileTyped /\ buffer \in Seq(Bytes) /\ todo \in Seq(Args)
      /\ s \in Seq(Bytes) /\ todo' = Tail(todo) /\ Where \in Nat
  BY Typed, HeadArg, WhereIsNat DEF IInv, TypeOK
<1>2. /\ Len(buffer) \in Nat /\ Len(s) \in Nat /\ Len(s) # 0 /\ (buffer = <<>> <=> Len(buffer) = 0)
      /\ buffer \o s \in Seq(Bytes) /\ Len(buffer \o s) = Len(buffer) + Len(s)
      /\ buffer \o s # <<>>
  BY <1>1, LenProperties, EmptySeq, ConcatProperties
<1>3. Content' = Overlay(disk, Where, buffer \o s) /\ Pos' = Where + Len(buffer \o s)
  BY <1>1, <1>2, PutsKeeps
<1>4. Content' = Overlay(Content, p, s) /\ Pos' = p + Len(s)
  <2>1. Overlay(disk, Where, buffer \o s) = Overlay(Content, p, s)
    BY <1>1, OverlayTwice DEF Content, FileTyped
  <2>2. QED BY <1>1, <1>2, <1>3, <2>1
<1>5. (IF append THEN Len(Content) ELSE Pos) = p
  <2>1. CASE append
    <3>1. Where = Len(disk) /\ disk \in Seq(Bytes)
      BY <1>1, <2>1 DEF Where, FileTyped
    <3>2. Len(Content) = Extent(disk, Where, buffer)
      BY <1>1, <3>1, OverlayBytes DEF Content
    <3>3. QED BY <1>1, <1>2, <2>1, <3>1, <3>2 DEF Extent
  <2>2. CASE ~append
    <3>1. Where = at /\ at \in Nat
      BY <1>1, <2>2 DEF Where, FileTyped
    <3>2. Pos = p
      BY <1>2, <3>1 DEF Pos
    <3>3. QED BY <2>2, <3>2
  <2>3. QED BY <2>1, <2>2
<1>6. /\ Texts(todo) # <<>> /\ Head(Texts(todo)) = s /\ Texts(todo') = Tail(Texts(todo))
  BY <1>1, TextsOfArgs
<1>7. append' = append /\ errors' = errors
  BY DEF Puts
<1> HIDE DEF s, p
<1>8. Content' = Sink!Overlay(Content, IF append /\ s # <<>> THEN Len(Content) ELSE Pos, s)
  BY <1>4, <1>5, SinkOverlay DEF s
<1>9. Pos' = (IF append /\ s # <<>> THEN Len(Content) ELSE Pos) + Len(s)
  BY <1>4, <1>5 DEF s
<1>10. QED BY <1>6, <1>7, <1>8, <1>9 DEF Sink!Write, Texts, Content, Pos

\* fwrite is not called, or has nothing to write.
LEMMA SinkWriteNothing ==
  ASSUME IInv, todo # <<>>, Text(Head(todo)) = <<>>, todo' = TodoBehind, UNCHANGED <<file, handle>>
  PROVE  Sink!Write
<1>1. todo \in Seq(Args) /\ todo' = Tail(todo) /\ FileTyped /\ Where \in Nat /\ buffer \in Seq(Bytes)
  BY HeadArg, Typed, WhereIsNat DEF IInv, TypeOK
<1>2. /\ Texts(todo) # <<>> /\ Head(Texts(todo)) = <<>> /\ Texts(todo') = Tail(Texts(todo))
  BY <1>1, TextsOfArgs
<1>3. UNCHANGED <<append, Content, Pos, errors, handle>>
  BY DEF file, Content, Pos, Where
<1>4. Sink!Overlay(Content, Pos, <<>>) = Content
  BY DEF Sink!Overlay
<1>5. Pos \in Nat /\ Len(<<>>) = 0
  BY <1>1, LenProperties, EmptySeq DEF Pos, FileTyped
<1>6. Content' = Sink!Overlay(Content, Pos, <<>>) /\ Pos' = Pos + Len(<<>>)
  BY <1>3, <1>4, <1>5
<1>7. QED BY <1>2, <1>3, <1>6 DEF Sink!Write, Texts, Content, Pos

\* Once the device has failed, nothing is promised.
LEMMA SinkFail ==
  ASSUME IInv, errors' \in Nat, errors' > 0, append' = append,
         todo' = todo \/ (todo # <<>> /\ todo' = Tail(todo))
  PROVE  Sink!Fail
<1>1. todo \in Seq(Args)
  BY DEF IInv, TypeOK
<1>2. Texts(todo') = Texts(todo) \/ (Texts(todo) # <<>> /\ Texts(todo') = Tail(Texts(todo)))
  BY <1>1, TextsOfArgs
<1>3. QED BY <1>2 DEF Sink!Fail, Texts

LEMMA SinkNext == IInv /\ [Next]_vars => [Sink!Next]_(Sink!vars)
<1> SUFFICES ASSUME IInv, [Next]_vars PROVE Sink!Next \/ UNCHANGED Sink!vars
  OBVIOUS
<1> USE DEF Sink!Next
<1>0. /\ FileTyped /\ buffer \in Seq(Bytes) /\ errors \in Nat /\ todo \in Seq(Args)
      /\ pc = "idle" => Texts(todo) = <<>>
  BY Typed, EmptySeq, TextsOfArgs DEF IInv, TypeOK, Quiet
<1>1. ASSUME NEW args \in Calls, Write(args) PROVE Sink!Next
  BY <1>1, SinkCall
<1>2. CASE WriteArg
  <2> DEFINE all == buffer \o Text(Head(todo))
  <2>1. todo # <<>> /\ todo' = TodoBehind /\ handle' = handle
    BY <1>2 DEF WriteArg
  <2>2. Text(Head(todo)) \in Seq(Bytes) /\ all \in Seq(Bytes) /\ todo' = Tail(todo)
    BY <1>0, <2>1, HeadArg, ConcatProperties
  <2>3. CASE Attempts /\ Text(Head(todo)) # <<>> /\ Puts(all)
    BY <2>1, <2>3, SinkWrite
  <2>4. CASE Fails(all)
    BY <1>0, <2>1, <2>2, <2>4, FailsKeeps, SinkFail
  <2>5. CASE Text(Head(todo)) = <<>> /\ UNCHANGED file
    BY <2>1, <2>5, SinkWriteNothing
  <2>6. CASE ~Attempts /\ UNCHANGED file
    <3>1. errors > 0 /\ errors' = errors /\ append' = append
      BY <1>0, <1>2, <2>6 DEF IInv, Pending, TypeOK, WriteArg, Attempts, file
    <3>2. QED BY <1>0, <2>1, <2>2, <3>1, SinkFail
  <2>7. QED BY <1>2, <2>3, <2>4, <2>5, <2>6 DEF WriteArg
<1>3. CASE Raise
  <2>1. todo # <<>> /\ todo' = <<>> /\ UNCHANGED <<append, Content, Pos, errors, handle>>
    BY <1>3 DEF Raise, file, Content, Pos, Where
  <2>2. Texts(todo) # <<>> /\ Texts(todo') = <<>>
    BY <1>0, <2>1, EmptySeq, TextsOfArgs
  <2>3. Sink!Raise
    BY <2>1, <2>2 DEF Sink!Raise, Texts, Content, Pos
  <2>4. QED BY <2>3
<1>4. CASE Return
  <2>1. UNCHANGED <<append, Content, Pos, todo, errors, handle>>
    BY <1>4 DEF Return, file, Content, Pos, Where
  <2>2. QED BY <2>1 DEF Sink!vars, Content, Pos
\* A call that is one step fails, or writes the buffer and goes on.
<1>5. ASSUME pc = "idle", todo' = todo, Fails(buffer) PROVE Sink!Next
  BY <1>0, <1>5, FailsKeeps, SinkFail
<1>6. ASSUME pc = "idle", todo' = todo, CloseFails PROVE Sink!Next
  BY <1>0, <1>6, CloseFailsKeeps, SinkFail
<1>7. ASSUME Flushes, todo' = todo
      PROVE  UNCHANGED <<append, Content, Pos, todo, errors>>
  <2>1. Content' = Content /\ Pos' = Pos
    BY <1>0, <1>7, FlushesKeeps
  <2>2. QED BY <1>7, <2>1 DEF Flushes
<1>8. ASSUME Flushes, todo' = todo, handle' = handle PROVE UNCHANGED Sink!vars
  BY <1>7, <1>8 DEF Sink!vars, Content, Pos
<1>9. ASSUME pc = "idle", Flushes, todo' = todo, handle' # "open" PROVE Sink!GiveUp
  BY <1>0, <1>7, <1>9 DEF Sink!GiveUp, Texts, Content, Pos
<1>10. CASE Flush
  BY <1>5, <1>8, <1>10 DEF Flush, Simple, write
<1>11. ASSUME NEW mode \in {"no", "full", "line"}, SetVBuf(mode)
       PROVE  Sink!Next \/ UNCHANGED Sink!vars
  <2>1. todo' = todo /\ handle' = handle /\ pc = "idle"
    BY <1>11 DEF SetVBuf, Simple, write
  <2>2. CASE UNCHANGED <<append, disk, at, buffer, errors>>
    <3>1. UNCHANGED <<append, Content, Pos, todo, errors, handle>>
      BY <2>1, <2>2 DEF Content, Pos, Where
    <3>2. QED BY <3>1 DEF Sink!vars, Content, Pos
  <2>3. QED BY <1>5, <1>8, <1>11, <2>1, <2>2 DEF SetVBuf
<1>12. ASSUME NEW offset \in Offsets, Seek(offset) PROVE Sink!Next
  <2>1. CASE Fails(buffer)
    BY <1>5, <1>12, <2>1 DEF Seek, Simple, write
  <2>2. CASE /\ disk' = Overlay(disk, Where, buffer) /\ buffer' = <<>> /\ at' = offset
             /\ UNCHANGED <<append, vbuf, errors>>
    <3>1. Content' = Content /\ Pos' = offset /\ offset \in Nat
      BY <2>2, SeekTyped, ArgsAssumption
    <3>2. Texts(todo) = <<>> /\ UNCHANGED <<todo, handle>>
      BY <1>0, <1>12 DEF Seek, Simple, write
    <3>3. Sink!Seek
      BY <2>2, <3>1, <3>2 DEF Sink!Seek, Texts, Content, Pos
    <3>4. QED BY <3>3
  <2>3. QED BY <1>12, <2>1, <2>2 DEF Seek
<1>13. CASE Close
  BY <1>6, <1>9, <1>13 DEF Close, Simple, write
<1>14. CASE Collect
  <2>1. pc = "idle" /\ todo' = todo /\ handle' = "collected"
    BY <1>14 DEF Collect, Simple, write
  <2>2. CASE Flushes
    BY <1>9, <2>1, <2>2
  <2>3. CASE CloseFails
    BY <1>6, <2>1, <2>3
  <2>4. CASE handle = "shut" /\ UNCHANGED file
    <3>1. UNCHANGED <<append, Content, Pos, todo, errors>>
      BY <2>1, <2>4 DEF file, Content, Pos, Where
    <3>2. QED BY <2>1, <2>4, <3>1 DEF Sink!vars, Content, Pos
  <2>5. QED BY <1>14, <2>2, <2>3, <2>4 DEF Collect
<1>15. CASE UNCHANGED vars
  <2>1. UNCHANGED <<append, Content, Pos, todo, errors, handle>>
    BY <1>15 DEF vars, file, write, Content, Pos, Where
  <2>2. QED BY <2>1 DEF Sink!vars, Content, Pos
<1>16. QED BY <1>1, <1>2, <1>3, <1>4, <1>10, <1>11, <1>12, <1>13, <1>14, <1>15
         DEF Next, Step, GivenUp

LEMMA SinkInit == Init => Sink!Init
<1> SUFFICES ASSUME Init PROVE Sink!Init
  OBVIOUS
<1>1. IInv
  BY InitInv
<1>2. buffer = <<>> /\ Content = disk /\ Pos = 0 /\ Texts(todo) = <<>>
  BY EmptySeq, TextsOfArgs DEF Init, Content, Pos, Overlay
<1>3. disk \in Seq(Bytes)
  BY <1>1 DEF IInv, TypeOK
<1>4. QED BY <1>2, <1>3 DEF Init, Sink!Init, Content, Pos, Texts

\* Until the device fails, the file is what the calls have made of it, for every size
\* and mode of the buffer and whatever is written (LuaBoostFile.cpp:74-126).
THEOREM ImplementsByteSink == Spec => SinkSpec
<1>1. QED BY InitInv, StepInv, SinkInit, SinkNext, PTL DEF Spec, SinkSpec, Sink!Spec

=============================================================================
