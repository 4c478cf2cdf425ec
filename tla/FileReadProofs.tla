--------------------------- MODULE FileReadProofs ---------------------------
(***************************************************************************)
(* For any buffer size, file and formats: the loop of LuaBoostFile::read   *)
(* holds a part of the file that ends at its position, and never asks for  *)
(* more than is left of the request; and the pieces that read and readLine *)
(* take make up the answers of ByteStream.                                 *)
(***************************************************************************)
EXTENDS FileRead, SequenceTheorems, WellFoundedInduction, TLAPS

Types ==
  /\ data \in Seq(Bytes) /\ pos \in Nat /\ acc \in Seq(Bytes)
  /\ num_bytes \in Nat /\ todo \in Seq(Formats)
  /\ pc \in {"bytes", "line"} => todo # <<>>

\* ReadInPlace, byte by byte.
InPlace ==
  pc = "bytes" =>
    /\ num_bytes > 0 /\ num_bytes + Len(acc) = Requested
    /\ Len(acc) <= pos /\ (acc # <<>> => pos <= Len(data))
    /\ \A i \in 1..Len(acc) : acc[i] = data[pos - Len(acc) + i]

IInv == Types /\ InPlace

-----------------------------------------------------------------------------
(* Parts of sequences *)

LEMMA LeastNat ==
  ASSUME NEW T, T \subseteq Nat, T # {}
  PROVE  \E x \in T : \A y \in T : x <= y
<1> DEFINE R == {ss \in Nat \X Nat : ss[1] < ss[2]}
<1>1. R = OpToRel(<, Nat)
  BY DEF OpToRel
<1>2. IsWellFoundedOn(R, Nat)
  BY <1>1, NatLessThanWellFounded
<1>3. \A x, y \in Nat : y < x => <<y, x>> \in R
  OBVIOUS
<1> HIDE DEF R
<1>4. PICK x \in T : \A y \in T : ~ (<<y, x>> \in R)
  BY <1>2, WFMin
<1>5. \A y \in T : ~(y < x)
  BY <1>3, <1>4
<1>6. \A y \in T : x <= y
  BY <1>5
<1>7. QED BY <1>6

\* There is a longest part without the bytes of stop.
LEMMA SpanExists ==
  ASSUME NEW S, NEW s \in Seq(S), NEW stop
  PROVE  /\ Span(s, stop) \in 0..Len(s)
         /\ \A i \in 1..Span(s, stop) : s[i] \notin stop
         /\ Span(s, stop) < Len(s) => s[Span(s, stop) + 1] \in stop
<1> DEFINE T == {n \in 0..Len(s) : n < Len(s) => s[n + 1] \in stop}
<1>1. Len(s) \in Nat
  BY LenProperties
<1>2. T \subseteq Nat /\ Len(s) \in T
  BY <1>1
<1>3. PICK n \in T : \A m \in T : n <= m
  <2> HIDE DEF T
  <2>1. QED BY <1>2, LeastNat
<1>4. ASSUME NEW i \in 1..n, s[i] \in stop PROVE FALSE
  <2>1. i - 1 \in T
    BY <1>1, <1>4
  <2>2. QED BY <1>3, <2>1
<1>5. /\ n \in 0..Len(s) /\ \A i \in 1..n : s[i] \notin stop
      /\ n < Len(s) => s[n + 1] \in stop
  BY <1>4
<1>6. QED BY <1>5 DEF Span

LEMMA FirstIsPart ==
  ASSUME NEW S, NEW s \in Seq(S), NEW n \in Int
  PROVE  /\ First(s, n) \in Seq(S) /\ Len(First(s, n)) \in 0..Len(s)
         /\ n \in 0..Len(s) => Len(First(s, n)) = n
         /\ n >= 0 => Len(First(s, n)) <= n
         /\ \A i \in 1..Len(First(s, n)) : First(s, n)[i] = s[i]
<1> DEFINE k == Least(n, Len(s))
<1>1. Len(s) \in Nat /\ k \in Int /\ k <= Len(s) /\ k <= n
      /\ (n \in 0..Len(s) => k = n)
  BY LenProperties DEF Least
<1>2. \A i \in 1..k : s[i] \in S
  BY <1>1, ElementOfSeq
<1> HIDE DEF k
<1>3. /\ SubSeq(s, 1, k) \in Seq(S)
      /\ Len(SubSeq(s, 1, k)) = IF 1 <= k THEN k - 1 + 1 ELSE 0
      /\ \A i \in 1..k - 1 + 1 : SubSeq(s, 1, k)[i] = s[1 + i - 1]
  BY <1>1, <1>2, SubSeqProperties
<1>4. First(s, n) = SubSeq(s, 1, k)
  BY DEF First, k
<1>5. \A i \in 1..Len(First(s, n)) : First(s, n)[i] = s[i]
  BY <1>1, <1>3, <1>4
<1>6. QED BY <1>1, <1>3, <1>4, <1>5

LEMMA RestIsPart ==
  ASSUME data \in Seq(Bytes), pos \in Nat
  PROVE  /\ Rest \in Seq(Bytes)
         /\ Rest # <<>> => pos + Len(Rest) = Len(data)
         /\ \A i \in 1..Len(Rest) : Rest[i] = data[pos + i]
<1>1. Len(data) \in Nat /\ \A i \in pos + 1..Len(data) : data[i] \in Bytes
  BY LenProperties, ElementOfSeq
<1>2. /\ Rest \in Seq(Bytes)
      /\ Len(Rest) = IF pos + 1 <= Len(data) THEN Len(data) - (pos + 1) + 1 ELSE 0
      /\ \A i \in 1..Len(data) - (pos + 1) + 1 : Rest[i] = data[pos + 1 + i - 1]
  BY <1>1, SubSeqProperties DEF Rest
<1>3. Rest # <<>> => Len(Rest) > 0
  BY <1>2, EmptySeq
<1>4. \A i \in 1..Len(Rest) : Rest[i] = data[pos + i]
  BY <1>1, <1>2
<1>5. QED BY <1>1, <1>2, <1>3, <1>4

LEMMA AheadIsPart ==
  ASSUME data \in Seq(Bytes), pos \in Nat
  PROVE  /\ Ahead \in Seq(Bytes) /\ Len(Ahead) \in Nat /\ Len(Ahead) <= Len(Rest)
         /\ Ahead # <<>> => pos + Len(Ahead) = Len(data) /\ ~eof
         /\ \A i \in 1..Len(Ahead) : Ahead[i] = data[pos + i] /\ Ahead[i] = Rest[i]
         /\ ~eof => Ahead = Rest
<1>1. /\ Rest \in Seq(Bytes) /\ Len(Rest) \in Nat
      /\ Rest # <<>> => pos + Len(Rest) = Len(data)
      /\ \A i \in 1..Len(Rest) : Rest[i] = data[pos + i]
  BY RestIsPart, LenProperties
<1>2. CASE eof
  <2>1. Ahead = <<>>
    BY <1>2 DEF Ahead
  <2>2. <<>> \in Seq(Bytes) /\ Len(<<>>) = 0
    BY EmptySeq
  <2>3. QED BY <1>1, <1>2, <2>1, <2>2
<1>3. CASE ~eof
  <2>1. Ahead = Rest
    BY <1>3 DEF Ahead
  <2> HIDE DEF Ahead
  <2>2. QED BY <1>1, <1>3, <2>1
<1>4. QED BY <1>2, <1>3

-----------------------------------------------------------------------------
(* IInv is inductive. *)

LEMMA CallTypes ==
  ASSUME NEW formats \in Calls
  PROVE  formats \in Seq(Formats)
  BY SizesAssumption DEF Calls

LEMMA PutTypes ==
  ASSUME Types, todo # <<>>, NEW value, NEW success, Put(value, success)
  PROVE  /\ acc' \in Seq(Bytes) /\ num_bytes' \in Nat /\ todo' \in Seq(Formats)
         /\ pc' = "format"
<1>1. Tail(todo) \in Seq(Formats) /\ <<>> \in Seq(Formats) /\ <<>> \in Seq(Bytes)
  BY HeadTailProperties, EmptySeq DEF Types
<1>2. QED BY <1>1 DEF Put

LEMMA InitIInv == Init => IInv
<1> SUFFICES ASSUME Init PROVE IInv
  OBVIOUS
<1>1. data \in Seq(Bytes)
  <2>1. PICK n \in 0..MaxLength : data \in [1..n -> Bytes]
    BY DEF Init, Strings
  <2>2. QED BY <2>1, SizesAssumption
<1>2. QED BY <1>1, EmptySeq DEF Init, IInv, Types, InPlace

\* One fread: what is got is what the file has behind the position.
LEMMA BytesGot ==
  ASSUME Types, NEW k \in Nat, NEW n \in 0..Len(First(Ahead, k))
  PROVE  /\ First(Ahead, n) \in Seq(Bytes) /\ Len(First(Ahead, n)) = n /\ n <= k
         /\ n > 0 => pos + n <= Len(data)
         /\ \A i \in 1..n : First(Ahead, n)[i] = data[pos + i]
<1>1. /\ Ahead \in Seq(Bytes) /\ (Ahead # <<>> => pos + Len(Ahead) = Len(data))
      /\ \A i \in 1..Len(Ahead) : Ahead[i] = data[pos + i]
  BY AheadIsPart DEF Types
<1>2. Len(First(Ahead, k)) \in 0..Len(Ahead) /\ Len(First(Ahead, k)) <= k
  BY <1>1, FirstIsPart
<1>3. n \in 0..Len(Ahead) /\ n <= k /\ Len(Ahead) \in Nat
  BY <1>1, <1>2, LenProperties
<1>4. /\ First(Ahead, n) \in Seq(Bytes) /\ Len(First(Ahead, n)) = n
      /\ \A i \in 1..n : First(Ahead, n)[i] = Ahead[i]
  BY <1>1, <1>3, FirstIsPart
<1>5. n > 0 => Ahead # <<>>
  BY <1>3, EmptySeq
<1>6. n > 0 => pos + n <= Len(data)
  BY <1>1, <1>3, <1>5, LenProperties DEF Types
<1>7. \A i \in 1..n : First(Ahead, n)[i] = data[pos + i]
  BY <1>1, <1>3, <1>4
<1>8. QED BY <1>3, <1>4, <1>6, <1>7

LEMMA ReadBytesKeeps == ASSUME IInv, ReadBytes PROVE IInv'
<1> USE DEF IInv
<1>1. /\ pc = "bytes" /\ todo # <<>> /\ num_bytes \in Nat /\ acc \in Seq(Bytes)
      /\ Len(acc) \in Nat /\ pos \in Nat /\ data \in Seq(Bytes) /\ Len(data) \in Nat
  BY LenProperties DEF ReadBytes, Types
<1>2. ReadCount \in Nat /\ ReadCount <= num_bytes
  BY <1>1, SizesAssumption DEF ReadCount, Least
<1>3. PICK n \in 0..Len(First(Ahead, ReadCount)) :
        LET got == First(Ahead, n)
            all == acc \o got IN
        /\ \/ n = Len(First(Ahead, ReadCount)) /\ Succeeds(got, n < ReadCount)
           \/ ~eof /\ n < ReadCount /\ Fails(n)
        /\ IF ReadAgain(got)
           THEN /\ acc' = all /\ num_bytes' = num_bytes - n
                /\ UNCHANGED <<pc, call>>
           ELSE Put(all, all # <<>> \/ Head(todo).kind = "all")
  BY DEF ReadBytes
<1> DEFINE got == First(Ahead, n)
           all == acc \o got
<1>4. /\ got \in Seq(Bytes) /\ Len(got) = n /\ n \in Nat /\ n <= ReadCount
      /\ n > 0 => pos + n <= Len(data)
      /\ \A i \in 1..n : got[i] = data[pos + i]
  <2>1. Len(First(Ahead, ReadCount)) \in Nat
    BY <1>1, <1>2, AheadIsPart, FirstIsPart, LenProperties
  <2>2. n \in Nat
    BY <2>1
  <2>3. QED BY <1>2, <2>2, BytesGot
<1> HIDE DEF got, all
<1>5. pos' = pos + n /\ data' = data
  BY <1>3, <1>4 DEF Succeeds, Fails, ReadBytes, got
<1>6. CASE ~ReadAgain(got)
  <2>1. Put(all, all # <<>> \/ Head(todo).kind = "all")
    BY <1>3, <1>6 DEF got, all
  <2>2. Types'
    BY <1>1, <1>4, <1>5, <2>1, PutTypes DEF Types
  <2>3. InPlace'
    BY <2>1 DEF Put, InPlace
  <2>4. QED BY <2>2, <2>3
<1>7. CASE ReadAgain(got)
  <2>1. acc' = all /\ num_bytes' = num_bytes - n /\ pc' = pc /\ todo' = todo
    BY <1>3, <1>7 DEF got, all, call
  <2>2. /\ all \in Seq(Bytes) /\ Len(all) = Len(acc) + n
        /\ \A i \in 1..Len(acc) + n : all[i] = IF i <= Len(acc) THEN acc[i] ELSE got[i - Len(acc)]
    BY <1>1, <1>4, ConcatProperties DEF all
  <2>3. num_bytes' \in Nat /\ num_bytes' > 0
    <3>1. num_bytes - n # 0
      BY <1>4, <1>7 DEF ReadAgain
    <3>2. n <= num_bytes
      BY <1>1, <1>2, <1>4
    <3>3. QED BY <1>1, <1>4, <2>1, <3>1, <3>2
  <2>4. Types'
    BY <1>1, <1>4, <1>5, <2>1, <2>2, <2>3 DEF Types
  <2>5. /\ num_bytes + Len(acc) = Requested /\ Len(acc) <= pos
        /\ (acc # <<>> => pos <= Len(data))
        /\ \A i \in 1..Len(acc) : acc[i] = data[pos - Len(acc) + i]
    BY <1>1 DEF InPlace
  <2>6. Requested' = Requested /\ Requested \in Int
    <3>1. Requested' = Requested
      BY <2>1 DEF Requested
    <3>2. Requested \in Int
      BY <1>1, <2>5
    <3>3. QED BY <3>1, <3>2
  <2>7. num_bytes' + Len(acc') = Requested'
    <3>1. num_bytes' = num_bytes - n /\ Len(acc') = Len(acc) + n
      BY <2>1, <2>2
    <3>2. (num_bytes - n) + (Len(acc) + n) = num_bytes + Len(acc)
      BY <1>1, <1>4
    <3>3. QED BY <2>5, <2>6, <3>1, <3>2
  <2>8. Len(acc') <= pos'
    BY <1>1, <1>4, <1>5, <2>1, <2>2, <2>5
  <2>9. acc' # <<>> => pos' <= Len(data')
    <3>1. CASE n > 0
      BY <1>4, <1>5, <3>1
    <3>2. CASE n = 0
      <4>1. acc' = acc
        BY <1>1, <1>4, <2>1, <2>2, <3>2, SeqEqual
      <4>2. QED BY <1>1, <1>5, <2>5, <3>2, <4>1
    <3>3. QED BY <1>4, <3>1, <3>2
  <2>10. ASSUME NEW i \in 1..Len(acc')
         PROVE  acc'[i] = data'[pos' - Len(acc') + i]
    <3>1. i \in 1..Len(acc) + n /\ pos' - Len(acc') + i = pos - Len(acc) + i
      BY <1>1, <1>4, <1>5, <2>1, <2>2
    <3>2. CASE i <= Len(acc)
      BY <1>1, <1>5, <2>1, <2>2, <2>5, <3>1, <3>2
    <3>3. CASE i > Len(acc)
      <4>1. i - Len(acc) \in 1..n
        BY <1>1, <1>4, <3>1, <3>3
      <4>2. got[i - Len(acc)] = data[pos + (i - Len(acc))]
        BY <1>4, <4>1
      <4>3. pos + (i - Len(acc)) = pos - Len(acc) + i
        BY <1>1, <3>1
      <4>4. acc'[i] = got[i - Len(acc)]
        BY <1>1, <1>4, <2>1, <2>2, <3>1, <3>3
      <4>5. QED BY <1>5, <3>1, <4>2, <4>3, <4>4
    <3>4. QED BY <1>1, <1>4, <3>1, <3>2, <3>3
  <2>11. InPlace'
    BY <2>3, <2>7, <2>8, <2>9, <2>10 DEF InPlace
  <2>12. QED BY <2>4, <2>11
<1>8. QED BY <1>6, <1>7

LEMMA FgetsIsPart ==
  ASSUME Types
  PROVE  /\ Fgets(Chunk) \in Seq(Bytes) /\ Len(Fgets(Chunk)) \in Nat
         /\ Text(Fgets(Chunk)) \in Seq(Bytes) /\ Len(Text(Fgets(Chunk))) \in Nat
<1>1. Ahead \in Seq(Bytes)
  BY AheadIsPart DEF Types
<1>2. Span(Ahead, {NL}) \in 0..Len(Ahead) /\ Len(Ahead) \in Nat
  BY <1>1, SpanExists, LenProperties
<1>3. Least(Span(Ahead, {NL}) + 1, Chunk - 1) \in Int
  BY <1>2, SizesAssumption DEF Least
<1>4. Fgets(Chunk) \in Seq(Bytes)
  BY <1>1, <1>3, FirstIsPart DEF Fgets
<1>5. Span(Fgets(Chunk), {NUL}) \in 0..Len(Fgets(Chunk)) /\ Len(Fgets(Chunk)) \in Nat
  BY <1>4, SpanExists, LenProperties
<1>6. Text(Fgets(Chunk)) \in Seq(Bytes)
  BY <1>4, <1>5, FirstIsPart DEF Text
<1>7. QED BY <1>4, <1>5, <1>6, LenProperties

LEMMA ReadLineKeeps == ASSUME IInv, ReadLine PROVE IInv'
<1> USE DEF IInv
<1> DEFINE text == Text(Fgets(Chunk))
<1>1. /\ pc = "line" /\ todo # <<>> /\ acc \in Seq(Bytes) /\ pos \in Nat
      /\ num_bytes \in Nat /\ todo \in Seq(Formats)
      /\ data' = data /\ data \in Seq(Bytes)
  BY DEF ReadLine, Types
<1>2. /\ text \in Seq(Bytes) /\ Len(Fgets(Chunk)) \in Nat /\ Len(text) \in Nat
  BY FgetsIsPart
<1>3. \/ pos' = pos + Len(Fgets(Chunk)) \/ pos' = pos + Len(<<>>)
      \/ \E taken \in 0..Len(Fgets(Chunk)) : pos' = pos + taken
  BY DEF ReadLine, Succeeds, Fails
<1>4. pos' \in Nat
  BY <1>1, <1>2, <1>3, EmptySeq
<1>5. CASE \E value, success : Put(value, success)
  <2>1. /\ acc' \in Seq(Bytes) /\ num_bytes' \in Nat /\ todo' \in Seq(Formats)
        /\ pc' = "format"
    BY <1>1, <1>5, PutTypes
  <2>2. QED BY <1>1, <1>4, <2>1 DEF Types, InPlace
<1>6. CASE acc' = acc \o text /\ UNCHANGED <<pc, num_bytes, call>>
  <2>1. acc' \in Seq(Bytes)
    BY <1>1, <1>2, <1>6, ConcatProperties
  <2>2. QED BY <1>1, <1>4, <1>6, <2>1 DEF Types, InPlace, call
<1>7. QED BY <1>5, <1>6 DEF ReadLine

LEMMA ReadNumberKeeps == ASSUME IInv, ReadNumber PROVE IInv'
<1> USE DEF IInv
<1> DEFINE blanks == Span(Rest, Bytes \ {NL})
           behind == SubSeq(Rest, blanks + 1, Len(Rest))
           digits == First(behind, Span(behind, Bytes \ Digits))
<1>1. /\ todo # <<>> /\ data' = data /\ data \in Seq(Bytes) /\ pos \in Nat
  BY DEF ReadNumber, Format, Types
<1>2. Rest \in Seq(Bytes) /\ Len(Rest) \in Nat
  BY <1>1, RestIsPart, LenProperties
<1>3. blanks \in 0..Len(Rest)
  BY <1>2, SpanExists
<1>4. behind \in Seq(Bytes)
  <2> HIDE DEF blanks
  <2>1. blanks + 1 \in Int /\ \A i \in blanks + 1..Len(Rest) : Rest[i] \in Bytes
    BY <1>2, <1>3, ElementOfSeq
  <2>2. SubSeq(Rest, blanks + 1, Len(Rest)) \in Seq(Bytes)
    BY <1>2, <2>1, SubSeqProperties
  <2>3. QED BY <2>2
<1>5. Len(digits) \in Nat
  <2> HIDE DEF behind
  <2>1. Span(behind, Bytes \ Digits) \in 0..Len(behind) /\ Len(behind) \in Nat
    BY <1>4, SpanExists, LenProperties
  <2>2. QED BY <1>4, <2>1, FirstIsPart
<1>6. PICK value, success : Put(value, success)
  BY DEF ReadNumber
<1>7. \/ pos' = pos + blanks + Len(digits)
      \/ \E taken \in 0..blanks + Len(digits) : pos' = pos + taken
  BY DEF ReadNumber, Fails
<1>8. pos' \in Nat
  BY <1>1, <1>2, <1>3, <1>5, <1>7
<1>9. /\ acc' \in Seq(Bytes) /\ num_bytes' \in Nat /\ todo' \in Seq(Formats)
      /\ pc' = "format"
  BY <1>1, <1>6, PutTypes
<1>10. QED BY <1>1, <1>8, <1>9 DEF Types, InPlace

\* What is read of a file stays where it is when the file grows.
LEMMA GrowKeeps == ASSUME IInv, NEW b \in Bytes, Grow(b) PROVE IInv'
<1> USE DEF IInv
<1>1. /\ data \in Seq(Bytes) /\ acc \in Seq(Bytes) /\ pos \in Nat
      /\ Len(data) \in Nat /\ Len(acc) \in Nat
      /\ data' = Append(data, b)
      /\ UNCHANGED <<pos, pc, acc, num_bytes, todo>>
  BY LenProperties DEF Grow, Types, call
<1>2. /\ data' \in Seq(Bytes) /\ Len(data') = Len(data) + 1
      /\ \A i \in 1..Len(data) : data'[i] = data[i]
  BY <1>1
<1>3. Types'
  BY <1>1, <1>2 DEF Types
<1>4. InPlace'
  <2> SUFFICES ASSUME pc' = "bytes"
               PROVE  /\ num_bytes' > 0 /\ num_bytes' + Len(acc') = Requested'
                      /\ Len(acc') <= pos' /\ (acc' # <<>> => pos' <= Len(data'))
                      /\ \A i \in 1..Len(acc') : acc'[i] = data'[pos' - Len(acc') + i]
    BY DEF InPlace
  <2>1. /\ num_bytes > 0 /\ num_bytes + Len(acc) = Requested
        /\ Len(acc) <= pos /\ (acc # <<>> => pos <= Len(data))
        /\ \A i \in 1..Len(acc) : acc[i] = data[pos - Len(acc) + i]
    BY <1>1 DEF InPlace
  <2>2. Requested' = Requested
    BY <1>1 DEF Requested
  <2>3. ASSUME NEW i \in 1..Len(acc) PROVE acc[i] = data'[pos - Len(acc) + i]
    <3>1. acc # <<>>
      BY <1>1, EmptySeq
    <3>2. pos - Len(acc) + i \in 1..Len(data)
      BY <1>1, <2>1, <3>1
    <3>3. QED BY <1>2, <2>1, <3>2
  <2>4. acc' # <<>> => pos' <= Len(data')
    BY <1>1, <1>2, <2>1
  <2>5. QED BY <1>1, <2>1, <2>2, <2>3, <2>4
<1>5. QED BY <1>3, <1>4

LEMMA NextIInv == IInv /\ [Next]_vars => IInv'
<1> SUFFICES ASSUME IInv, [Next]_vars PROVE IInv'
  OBVIOUS
<1> USE DEF IInv
<1>1. CASE TestEnd
  <2>1. /\ acc' \in Seq(Bytes) /\ num_bytes' \in Nat /\ todo' \in Seq(Formats)
        /\ pc' = "format"
    <3>1. todo # <<>> /\ \E value, success : Put(value, success)
      BY <1>1 DEF TestEnd, Format
    <3>2. QED BY <3>1, PutTypes
  <2>2. QED BY <1>1, <2>1 DEF TestEnd, Types, InPlace
<1>2. CASE BeginBytes
  <2>1. Head(todo) \in Formats /\ Head(todo).n \in Nat /\ Head(todo).n > 0
    BY <1>2, HeadTailProperties, SizesAssumption DEF BeginBytes, Format, Types
  <2>2. Requested' = Head(todo).n
    BY <1>2 DEF BeginBytes, Begin, Format, Requested, call
  <2>3. /\ acc' = <<>> /\ num_bytes' = Head(todo).n /\ pc' = "bytes"
        /\ todo # <<>> /\ UNCHANGED <<data, pos, todo>>
    BY <1>2 DEF BeginBytes, Begin, Format, call
  <2>4. QED BY <2>1, <2>2, <2>3, EmptySeq DEF Types, InPlace
<1>3. CASE BeginAll
  <2>1. Requested' = SizeMax
    BY <1>3 DEF BeginAll, Begin, Format, Requested, call
  <2>2. /\ acc' = <<>> /\ num_bytes' = SizeMax /\ pc' = "bytes"
        /\ todo # <<>> /\ UNCHANGED <<data, pos, todo>>
    BY <1>3 DEF BeginAll, Begin, Format, call
  <2>3. SizeMax \in Nat /\ SizeMax > 0
    BY SizesAssumption
  <2>4. QED BY <2>1, <2>2, <2>3, EmptySeq DEF Types, InPlace
<1>4. CASE BeginLine
  BY <1>4, EmptySeq DEF BeginLine, Begin, Format, call, Types, InPlace
<1>5. CASE ReadNumber
  BY <1>5, ReadNumberKeeps
<1>6. CASE Raise
  BY <1>6 DEF Raise, Types, InPlace
<1>7. CASE Return
  BY <1>7 DEF Return, Types, InPlace
<1>8. CASE ReadBytes
  BY <1>8, ReadBytesKeeps
<1>9. CASE ReadLine
  BY <1>9, ReadLineKeeps
<1>10. ASSUME NEW formats \in Calls, Call(formats) PROVE IInv'
  BY <1>10, CallTypes DEF Call, Types, InPlace
<1>11. ASSUME NEW base, NEW offset, SeekTo(base, offset) PROVE IInv'
  BY <1>11, SizesAssumption DEF SeekTo, Types, InPlace, call
<1>12. ASSUME NEW b \in Bytes, Grow(b) PROVE IInv'
  BY <1>12, GrowKeeps
<1>13. CASE UNCHANGED vars
  BY <1>13 DEF vars, call, Types, InPlace, Requested
<1>14. QED
  BY <1>1, <1>2, <1>3, <1>4, <1>5, <1>6, <1>7, <1>8, <1>9, <1>10, <1>11, <1>12, <1>13
     DEF Next, Step

-----------------------------------------------------------------------------
(* The theorem *)

LEMMA PartOfFile == IInv => ReadInPlace
<1> SUFFICES ASSUME IInv, pc = "bytes"
             PROVE  /\ num_bytes > 0 /\ num_bytes + Len(acc) = Requested
                    /\ Len(acc) <= pos /\ acc = SubSeq(data, pos - Len(acc) + 1, pos)
  BY DEF ReadInPlace
<1>1. /\ num_bytes > 0 /\ num_bytes + Len(acc) = Requested
      /\ Len(acc) <= pos /\ (acc # <<>> => pos <= Len(data))
      /\ \A i \in 1..Len(acc) : acc[i] = data[pos - Len(acc) + i]
      /\ data \in Seq(Bytes) /\ acc \in Seq(Bytes) /\ pos \in Nat
  BY DEF IInv, InPlace, Types
<1>2. Len(acc) \in Nat /\ Len(data) \in Nat
  BY <1>1, LenProperties
<1> DEFINE m == pos - Len(acc) + 1
<1>3. m \in Int /\ pos - m + 1 = Len(acc) /\ m >= 1
  BY <1>1, <1>2
<1>4. \A i \in m..pos : data[i] \in Bytes
  <2> SUFFICES ASSUME NEW i \in m..pos PROVE data[i] \in Bytes
    OBVIOUS
  <2>1. acc # <<>>
    BY <1>1, <1>2, <1>3, EmptySeq
  <2>2. i \in 1..Len(data)
    BY <1>1, <1>2, <1>3, <2>1
  <2>3. QED BY <1>1, <2>2, ElementOfSeq
<1> HIDE DEF m
<1>5. /\ SubSeq(data, m, pos) \in Seq(Bytes)
      /\ Len(SubSeq(data, m, pos)) = IF m <= pos THEN pos - m + 1 ELSE 0
      /\ \A i \in 1..pos - m + 1 : SubSeq(data, m, pos)[i] = data[m + i - 1]
  BY <1>1, <1>3, <1>4, SubSeqProperties
<1>6. Len(SubSeq(data, m, pos)) = Len(acc)
  BY <1>1, <1>2, <1>3, <1>5
<1>7. \A i \in 1..Len(acc) : SubSeq(data, m, pos)[i] = acc[i]
  BY <1>1, <1>2, <1>3, <1>5 DEF m
<1>8. acc = SubSeq(data, m, pos)
  BY <1>1, <1>5, <1>6, <1>7, SeqEqual
<1>9. QED BY <1>1, <1>8 DEF m

\* read holds a part of the file that ends at the position and asks for no more
\* than is left of the request, for every buffer size and every file that grows.
THEOREM ReadsInPlace == Spec => []ReadInPlace
<1>1. QED BY InitIInv, NextIInv, PartOfFile, PTL DEF Spec

-----------------------------------------------------------------------------
(* FileRead implements ByteStream, for files without a NUL. *)

\* What readLine has got so far is the part of the file before the position, and
\* no newline was in it. A loop is entered for its format, without an error, and read
\* leaves its own when it meets the end.
LineInPlace ==
  pc = "line" =>
    /\ Len(acc) <= pos /\ (acc # <<>> => pos <= Len(data))
    /\ \A i \in 1..Len(acc) : acc[i] = data[pos - Len(acc) + i] /\ acc[i] # NL

Loops ==
  /\ Len(data) <= MaxLength /\ failed \in BOOLEAN /\ eof \in BOOLEAN
  /\ pc = "idle" <=> outcome # "pending"
  /\ pc = "line" => Head(todo).kind = "line"
  /\ pc = "bytes" => \/ Head(todo).kind = "all"
                     \/ Head(todo).kind = "bytes" /\ Head(todo).n > 0
  /\ pc \in {"bytes", "line"} => ~failed
  /\ pc = "bytes" => ~eof
  /\ pc = "line" /\ eof => acc # <<>>

SInv == IInv /\ LineInPlace /\ Loops

\* The number that Span and Until choose is the only one there is.
LEMMA SpanIs ==
  ASSUME NEW S, NEW s \in Seq(S), NEW stop, NEW m \in 0..Len(s),
         \A i \in 1..m : s[i] \notin stop, m < Len(s) => s[m + 1] \in stop
  PROVE  Span(s, stop) = m /\ Stream!Until(s, stop) = SubSeq(s, 1, m)
<1>1. Len(s) \in Nat
  BY LenProperties
<1>2. \A n \in 0..Len(s) :
        (/\ \A i \in 1..n : s[i] \notin stop
         /\ n < Len(s) => s[n + 1] \in stop) => n = m
  <2> SUFFICES ASSUME NEW n \in 0..Len(s), \A i \in 1..n : s[i] \notin stop,
                      n < Len(s) => s[n + 1] \in stop
               PROVE  n = m
    OBVIOUS
  <2>1. ~(n < m)
    <3> SUFFICES ASSUME n < m PROVE FALSE
      OBVIOUS
    <3>1. n < Len(s) /\ n + 1 \in 1..m
      BY <1>1
    <3>2. QED BY <3>1
  <2>2. ~(m < n)
    <3> SUFFICES ASSUME m < n PROVE FALSE
      OBVIOUS
    <3>1. m < Len(s) /\ m + 1 \in 1..n
      BY <1>1
    <3>2. QED BY <3>1
  <2>3. QED BY <1>1, <2>1, <2>2
<1>3. Span(s, stop) = m
  <2> DEFINE P(n) == /\ \A i \in 1..n : s[i] \notin stop
                     /\ n < Len(s) => s[n + 1] \in stop
  <2>1. P(m) /\ \A n \in 0..Len(s) : P(n) => n = m
    BY <1>2
  <2>2. Span(s, stop) = CHOOSE n \in 0..Len(s) : P(n)
    BY DEF Span
  <2> HIDE DEF P
  <2>3. QED BY <2>1, <2>2
<1>4. Stream!Until(s, stop) = SubSeq(s, 1, m)
  <2> DEFINE P(n) == Stream!IsBefore(n, s, stop) /\ (n = Len(s) \/ s[n + 1] \in stop)
  <2>1. P(m)
    BY <1>1 DEF Stream!IsBefore
  <2>2. \A n \in 0..Len(s) : P(n) => n = m
    BY <1>1, <1>2 DEF Stream!IsBefore
  <2>3. Stream!Until(s, stop) = SubSeq(s, 1, CHOOSE n \in 0..Len(s) : P(n))
    BY DEF Stream!Until
  <2> HIDE DEF P
  <2>4. (CHOOSE n \in 0..Len(s) : P(n)) = m
    BY <2>1, <2>2
  <2>5. QED BY <2>3, <2>4
<1>5. QED BY <1>3, <1>4

\* A sequence that begins as s does is a part of s.
LEMMA PartIs ==
  ASSUME NEW S, NEW s \in Seq(S), NEW v \in Seq(S), Len(v) <= Len(s),
         \A i \in 1..Len(v) : v[i] = s[i]
  PROVE  SubSeq(s, 1, Len(v)) = v
<1>1. Len(v) \in Nat /\ Len(s) \in Nat
  BY LenProperties
<1>2. \A i \in 1..Len(v) : s[i] \in S
  BY <1>1, ElementOfSeq
<1>3. /\ SubSeq(s, 1, Len(v)) \in Seq(S)
      /\ Len(SubSeq(s, 1, Len(v))) = IF 1 <= Len(v) THEN Len(v) - 1 + 1 ELSE 0
      /\ \A i \in 1..Len(v) - 1 + 1 : SubSeq(s, 1, Len(v))[i] = s[1 + i - 1]
  BY <1>1, <1>2, SubSeqProperties
<1>4. Len(SubSeq(s, 1, Len(v))) = Len(v)
  BY <1>1, <1>3
<1>5. \A i \in 1..Len(v) : SubSeq(s, 1, Len(v))[i] = v[i]
  BY <1>1, <1>3
<1>6. QED BY <1>3, <1>4, <1>5, SeqEqual

\* What a loop has got, with what is behind the position, is what ByteStream
\* takes to be behind its own.
LEMMA UnreadIs ==
  ASSUME SInv, pc \in {"bytes", "line"}, ~Answered
  PROVE  /\ Stream!Rest \in Seq(Bytes) /\ Len(Stream!Rest) = Len(acc) + Len(Rest)
         /\ \A i \in 1..Len(acc) : Stream!Rest[i] = acc[i]
         /\ \A i \in 1..Len(Rest) : Stream!Rest[Len(acc) + i] = Rest[i]
         /\ Len(Stream!Rest) <= Len(data)
<1> DEFINE p == pos - Len(acc)
<1>1. /\ data \in Seq(Bytes) /\ acc \in Seq(Bytes) /\ pos \in Nat
      /\ Len(acc) \in Nat /\ Len(data) \in Nat
      /\ Len(acc) <= pos /\ (acc # <<>> => pos <= Len(data))
      /\ \A i \in 1..Len(acc) : acc[i] = data[pos - Len(acc) + i]
  BY LenProperties DEF SInv, IInv, Types, InPlace, LineInPlace
<1>2. p \in Nat /\ p + Len(acc) = pos /\ (Len(acc) # 0 => pos <= Len(data))
  BY <1>1, EmptySeq
<1>3. Stream!Rest = SubSeq(data, p + 1, Len(data))
  BY DEF Stream!Rest, Unread
<1> HIDE DEF p
<1>4. \A i \in p + 1..Len(data) : data[i] \in Bytes
  BY <1>1, <1>2, ElementOfSeq
<1>5. /\ Stream!Rest \in Seq(Bytes)
      /\ Len(Stream!Rest) = IF p + 1 <= Len(data) THEN Len(data) - (p + 1) + 1 ELSE 0
      /\ \A i \in 1..Len(data) - (p + 1) + 1 : Stream!Rest[i] = data[p + 1 + i - 1]
  BY <1>1, <1>2, <1>3, <1>4, SubSeqProperties
<1>6. /\ \A i \in pos + 1..Len(data) : data[i] \in Bytes
      /\ pos + 1 \in Int
  BY <1>1, ElementOfSeq
<1>7. /\ Len(Rest) = IF pos + 1 <= Len(data) THEN Len(data) - (pos + 1) + 1 ELSE 0
      /\ \A i \in 1..Len(data) - (pos + 1) + 1 : Rest[i] = data[pos + 1 + i - 1]
  BY <1>1, <1>6, SubSeqProperties DEF Rest
<1>8. Len(Stream!Rest) = Len(acc) + Len(Rest) /\ Len(Stream!Rest) <= Len(data)
  <2>1. CASE pos + 1 <= Len(data)
    <3>1. Len(Stream!Rest) = Len(data) - p
      BY <1>1, <1>2, <1>5, <2>1
    <3>2. Len(Rest) = Len(data) - pos
      BY <1>1, <1>7, <2>1
    <3>3. QED BY <1>1, <1>2, <3>1, <3>2
  <2>2. CASE ~(pos + 1 <= Len(data))
    <3>1. Len(Rest) = 0
      BY <1>1, <1>7, <2>2
    <3>2. Len(Stream!Rest) = Len(acc)
      <4>1. CASE Len(acc) = 0
        BY <1>1, <1>2, <1>5, <2>2, <4>1
      <4>2. CASE Len(acc) # 0
        <5>1. Len(data) - p = Len(acc)
          BY <1>1, <1>2, <2>2, <4>2
        <5>2. p + 1 <= Len(data)
          BY <1>1, <1>2, <4>2, <5>1
        <5>3. QED BY <1>1, <1>2, <1>5, <5>1, <5>2
      <4>3. QED BY <4>1, <4>2
    <3>3. QED BY <1>1, <1>2, <2>2, <3>1, <3>2
  <2>3. QED BY <2>1, <2>2
<1>9. \A i \in 1..Len(acc) : Stream!Rest[i] = acc[i]
  <2> SUFFICES ASSUME NEW i \in 1..Len(acc) PROVE Stream!Rest[i] = acc[i]
    OBVIOUS
  <2>0. Len(acc) # 0 /\ pos <= Len(data)
    BY <1>1, <1>2
  <2>1. i \in 1..Len(data) - (p + 1) + 1 /\ p + 1 + i - 1 = pos - Len(acc) + i
    <3>1. i \in Int /\ 1 <= i /\ i <= Len(acc) /\ Len(acc) \in Nat /\ Len(data) \in Nat
      BY <1>1
    <3>2. QED BY ONLY <1>2, <2>0, <3>1, pos \in Nat, SMT
  <2>2. QED BY <1>1, <1>5, <2>1
<1>10. \A i \in 1..Len(Rest) : Stream!Rest[Len(acc) + i] = Rest[i]
  <2> SUFFICES ASSUME NEW i \in 1..Len(Rest) PROVE Stream!Rest[Len(acc) + i] = Rest[i]
    OBVIOUS
  <2>0. pos + 1 <= Len(data) /\ i \in 1..Len(data) - pos
    BY <1>1, <1>7
  <2>1. /\ i \in 1..Len(data) - (pos + 1) + 1
        /\ Len(acc) + i \in 1..Len(data) - (p + 1) + 1
        /\ p + 1 + (Len(acc) + i) - 1 = pos + 1 + i - 1
    BY <1>1, <1>2, <2>0
  <2>2. QED BY <1>5, <1>7, <2>1
<1>11. QED BY <1>5, <1>8, <1>9, <1>10

\* Without a NUL, strlen finds all that fgets has put into the buffer: a part of
\* the file in which only the last byte can be a newline, and all of it that is left
\* when fgets has met the end.
LEMMA LineText ==
  ASSUME NUL \notin Bytes, Types
  PROVE  /\ Text(Fgets(Chunk)) = Fgets(Chunk)
         /\ Fgets(Chunk) \in Seq(Bytes) /\ Len(Fgets(Chunk)) \in 0..Len(Rest)
         /\ \A i \in 1..Len(Fgets(Chunk)) : Fgets(Chunk)[i] = Rest[i]
         /\ \A i \in 1..Len(Fgets(Chunk)) - 1 : Fgets(Chunk)[i] # NL
         /\ Ahead # <<>> => Len(Fgets(Chunk)) > 0
         /\ ~Stopped(Fgets(Chunk)) => Len(Fgets(Chunk)) = Len(Ahead)
<1> DEFINE span == Span(Ahead, {NL})
           k == Least(span + 1, Chunk - 1)
           got == Fgets(Chunk)
<1>1. /\ Ahead \in Seq(Bytes) /\ Len(Ahead) \in Nat /\ (Ahead # <<>> => Len(Ahead) > 0)
      /\ Len(Ahead) <= Len(Rest) /\ Len(Rest) \in Nat
      /\ \A i \in 1..Len(Ahead) : Ahead[i] = Rest[i]
  BY RestIsPart, AheadIsPart, LenProperties, EmptySeq DEF Types
<1>2. /\ span \in 0..Len(Ahead)
      /\ \A i \in 1..span : Ahead[i] # NL
      /\ span < Len(Ahead) => Ahead[span + 1] = NL
  BY <1>1, SpanExists
<1> HIDE DEF span
<1>3. k \in Nat /\ k > 0 /\ k <= span + 1 /\ (k = span + 1 \/ k = Chunk - 1)
  BY <1>1, <1>2, SizesAssumption DEF Least
<1>4. got = First(Ahead, k)
  BY DEF Fgets, span
<1> HIDE DEF k, got
<1>5. /\ got \in Seq(Bytes) /\ Len(got) \in 0..Len(Ahead) /\ Len(got) <= k
      /\ \A i \in 1..Len(got) : got[i] = Ahead[i]
  <2>1. k \in Int /\ k >= 0
    BY <1>3
  <2>2. /\ First(Ahead, k) \in Seq(Bytes) /\ Len(First(Ahead, k)) \in 0..Len(Ahead)
        /\ Len(First(Ahead, k)) <= k
        /\ \A i \in 1..Len(First(Ahead, k)) : First(Ahead, k)[i] = Ahead[i]
    BY ONLY <1>1, <2>1, FirstIsPart
  <2>3. QED BY <1>4, <2>2
<1>6. \A i \in 1..Len(got) - 1 : got[i] # NL
  <2> SUFFICES ASSUME NEW i \in 1..Len(got) - 1 PROVE got[i] # NL
    OBVIOUS
  <2>1. i \in 1..Len(got) /\ i \in 1..span
    BY <1>1, <1>2, <1>3, <1>5
  <2>2. QED BY <1>2, <1>5, <2>1
<1>7. Len(got) = Len(Ahead) \/ Len(got) = k
  <2>1. CASE k <= Len(Ahead)
    <3>1. k \in 0..Len(Ahead) /\ k \in Int
      BY <1>1, <1>3, <2>1
    <3>2. Len(First(Ahead, k)) = k
      BY ONLY <1>1, <3>1, FirstIsPart
    <3>3. QED BY <1>4, <3>2
  <2>2. CASE ~(k <= Len(Ahead))
    <3>1. Least(k, Len(Ahead)) = Len(Ahead)
      BY <1>1, <1>3, <2>2 DEF Least
    <3>2. First(Ahead, k) = SubSeq(Ahead, 1, Len(Ahead))
      BY <3>1 DEF First
    <3>3. SubSeq(Ahead, 1, Len(Ahead)) = Ahead
      BY <1>1, PartIs
    <3>4. QED BY <1>4, <3>2, <3>3
  <2>3. QED BY <2>1, <2>2
<1>8. Ahead # <<>> => Len(got) > 0
  BY <1>1, <1>3, <1>7
<1>9. ~Stopped(got) => Len(got) = Len(Ahead)
  <2> SUFFICES ASSUME Len(got) # Len(Ahead) PROVE Stopped(got)
    OBVIOUS
  <2>1. Len(got) = k /\ Len(got) < Len(Ahead) /\ Len(got) > 0 /\ Len(got) \in 1..Len(got)
    BY <1>1, <1>3, <1>5, <1>7
  <2>2. CASE k = span + 1
    <3>1. got[Len(got)] = NL
      BY <1>1, <1>2, <1>5, <2>1, <2>2
    <3>2. got # <<>>
      BY <2>1, EmptySeq
    <3>3. QED BY <3>1, <3>2 DEF Stopped, LineEnds
  <2>3. CASE k = Chunk - 1
    BY <2>1, <2>3 DEF Stopped
  <2>4. QED BY <1>3, <2>2, <2>3
<1>10. Text(got) = got
  <2>1. Len(got) \in Nat /\ \A i \in 1..Len(got) : got[i] \notin {NUL}
    BY <1>5, ElementOfSeq, LenProperties
  <2>2. Span(got, {NUL}) = Len(got)
    BY <1>5, <2>1, SpanIs
  <2>3. Text(got) = SubSeq(got, 1, Least(Len(got), Len(got)))
    BY <2>2 DEF Text, First
  <2>4. Least(Len(got), Len(got)) = Len(got)
    BY DEF Least
  <2>5. SubSeq(got, 1, Len(got)) = got
    BY <1>5, <2>1, PartIs
  <2>6. QED BY <2>3, <2>4, <2>5
<1>11. Len(got) \in 0..Len(Rest) /\ \A i \in 1..Len(got) : got[i] = Rest[i]
  BY <1>1, <1>5
<1>12. QED BY <1>5, <1>6, <1>8, <1>9, <1>10, <1>11 DEF got

LEMMA InitSInv == Init => SInv
<1> SUFFICES ASSUME Init PROVE SInv
  OBVIOUS
<1>1. PICK n \in 0..MaxLength : data \in [1..n -> Bytes]
  BY DEF Init, Strings
<1>2. Len(data) <= MaxLength
  BY <1>1, SizesAssumption
<1>3. QED BY <1>2, InitIInv DEF Init, SInv, LineInPlace, Loops

\* A piece of a line is laid behind what readLine has.
LEMMA ReadLineOn ==
  ASSUME NUL \notin Bytes, SInv, ReadLine, pc' = "line"
  PROVE  /\ LineInPlace'
         /\ acc' = acc \o Fgets(Chunk) /\ pos' = pos + Len(Fgets(Chunk))
         /\ ~eof /\ eof' = ~Stopped(Fgets(Chunk)) /\ acc' # <<>>
         /\ UNCHANGED <<pc, num_bytes, call, failed, errors, data>>
<1> DEFINE got == Fgets(Chunk)
<1>1. /\ Text(got) = got /\ got \in Seq(Bytes) /\ Len(got) \in 0..Len(Rest)
      /\ \A i \in 1..Len(got) : got[i] = Rest[i]
      /\ \A i \in 1..Len(got) - 1 : got[i] # NL
      /\ Ahead # <<>> => Len(got) > 0
  BY LineText DEF SInv, IInv
<1>2. /\ Ahead # <<>> /\ Succeeds(got, ~Stopped(got)) /\ ~LineEnds(Text(got))
      /\ acc' = acc \o Text(got) /\ UNCHANGED <<pc, num_bytes, call, data>>
  BY DEF ReadLine, Put
<1>3. /\ pos \in Nat /\ acc \in Seq(Bytes) /\ data \in Seq(Bytes)
      /\ Len(acc) \in Nat /\ Len(data) \in Nat
      /\ Len(acc) <= pos /\ (acc # <<>> => pos <= Len(data))
      /\ \A i \in 1..Len(acc) : acc[i] = data[pos - Len(acc) + i] /\ acc[i] # NL
  BY <1>2, LenProperties DEF SInv, IInv, Types, LineInPlace, ReadLine
<1>4. /\ Rest \in Seq(Bytes) /\ Len(Rest) \in Nat
      /\ Rest # <<>> => pos + Len(Rest) = Len(data)
      /\ \A i \in 1..Len(Rest) : Rest[i] = data[pos + i]
  BY <1>3, RestIsPart, LenProperties
<1> HIDE DEF got
<1>5. Len(got) \in Nat /\ Len(got) <= Len(Rest)
  BY <1>1, <1>4
<1>6. \A i \in 1..Len(got) : got[i] # NL
  <2> SUFFICES ASSUME NEW i \in 1..Len(got) PROVE got[i] # NL
    OBVIOUS
  <2>1. CASE i = Len(got)
    BY <1>1, <1>2, <1>5, <2>1, EmptySeq DEF LineEnds
  <2>2. CASE i # Len(got)
    BY <1>1, <1>5, <2>2
  <2>3. QED BY <2>1, <2>2
<1>7. /\ acc' \in Seq(Bytes) /\ Len(acc') = Len(acc) + Len(got)
      /\ \A i \in 1..Len(acc) + Len(got) :
           acc'[i] = IF i <= Len(acc) THEN acc[i] ELSE got[i - Len(acc)]
  BY <1>1, <1>2, <1>3, ConcatProperties
<1>8. pos' = pos + Len(got) /\ UNCHANGED <<failed, errors>> /\ eof' = ~Stopped(got)
  BY <1>2 DEF Succeeds
<1>9. acc' # <<>> => pos' <= Len(data)
  <2>1. CASE Len(got) = 0
    <3>1. acc' # <<>> => Len(acc) > 0
      BY <1>3, <1>7, <2>1, EmptySeq
    <3>2. QED BY <1>3, <1>8, <2>1, <3>1, EmptySeq
  <2>2. CASE Len(got) # 0
    <3>1. Rest # <<>>
      BY <1>4, <1>5, <2>2, EmptySeq
    <3>2. QED BY <1>3, <1>4, <1>5, <1>8, <2>2, <3>1
  <2>3. QED BY <2>1, <2>2
<1>10. ASSUME NEW i \in 1..Len(acc')
       PROVE  acc'[i] = data[pos' - Len(acc') + i] /\ acc'[i] # NL
  <2>0. i \in 1..Len(acc) + Len(got) /\ pos' - Len(acc') + i = pos - Len(acc) + i
    BY <1>3, <1>5, <1>7, <1>8
  <2>1. CASE i <= Len(acc)
    BY <1>3, <1>7, <2>0, <2>1
  <2>2. CASE ~(i <= Len(acc))
    <3>1. i - Len(acc) \in 1..Len(got) /\ i - Len(acc) \in 1..Len(Rest)
      BY <1>3, <1>4, <1>5, <2>0, <2>2
    <3>2. acc'[i] = got[i - Len(acc)]
      BY <1>7, <2>0, <2>2
    <3>3. got[i - Len(acc)] = data[pos + (i - Len(acc))]
      BY <1>1, <1>4, <3>1
    <3>4. pos + (i - Len(acc)) = pos - Len(acc) + i
      BY <1>3, <2>0
    <3>5. QED BY <1>6, <2>0, <3>1, <3>2, <3>3, <3>4
  <2>3. QED BY <2>1, <2>2
<1>11. LineInPlace'
  <2>1. Len(acc') <= pos'
    BY <1>3, <1>5, <1>7, <1>8
  <2>2. QED BY <1>2, <1>9, <1>10, <2>1 DEF LineInPlace
<1>12. acc' # <<>>
  BY <1>1, <1>2, <1>3, <1>5, <1>7, EmptySeq
<1>13. ~eof
  BY <1>2, <1>3, AheadIsPart
<1>14. QED BY <1>1, <1>2, <1>8, <1>11, <1>12, <1>13 DEF got

\* A line that is being read stays where it is when the file grows.
LEMMA GrowKeepsLine ==
  ASSUME SInv, NEW b \in Bytes, Grow(b)
  PROVE  LineInPlace'
<1> SUFFICES ASSUME pc' = "line"
             PROVE  /\ Len(acc') <= pos' /\ (acc' # <<>> => pos' <= Len(data'))
                    /\ \A i \in 1..Len(acc') :
                         acc'[i] = data'[pos' - Len(acc') + i] /\ acc'[i] # NL
  BY DEF LineInPlace
<1>1. /\ data \in Seq(Bytes) /\ acc \in Seq(Bytes) /\ pos \in Nat
      /\ Len(data) \in Nat /\ Len(acc) \in Nat
      /\ data' = Append(data, b) /\ UNCHANGED <<pos, pc, acc>>
      /\ Len(acc) <= pos /\ (acc # <<>> => pos <= Len(data))
      /\ \A i \in 1..Len(acc) : acc[i] = data[pos - Len(acc) + i] /\ acc[i] # NL
  BY LenProperties DEF Grow, SInv, IInv, Types, LineInPlace
<1>2. /\ Len(data') = Len(data) + 1
      /\ \A i \in 1..Len(data) : data'[i] = data[i]
  BY <1>1
<1>3. ASSUME NEW i \in 1..Len(acc)
      PROVE  data'[pos - Len(acc) + i] = data[pos - Len(acc) + i]
  <2>1. acc # <<>>
    BY <1>1, EmptySeq
  <2>2. pos - Len(acc) + i \in 1..Len(data)
    BY <1>1, <2>1
  <2>3. QED BY <1>2, <2>2
<1>4. acc' # <<>> => pos' <= Len(data')
  BY <1>1, <1>2
<1>5. QED BY <1>1, <1>3, <1>4

LEMMA NextSInv ==
  ASSUME NUL \notin Bytes, SInv, [Next]_vars
  PROVE  SInv'
<1>1. IInv'
  BY NextIInv DEF SInv
<1>2. LineInPlace'
  <2>1. CASE ReadLine
    BY <2>1, ReadLineOn DEF LineInPlace
  <2>2. CASE BeginLine
    <3>1. pos \in Nat /\ pos' = pos /\ acc' = <<>>
      BY <2>2 DEF BeginLine, Begin, SInv, IInv, Types
    <3>2. QED BY <3>1, EmptySeq DEF LineInPlace
  <2>3. ASSUME NEW b \in Bytes, Grow(b) PROVE LineInPlace'
    BY <2>3, GrowKeepsLine
  <2>4. CASE UNCHANGED vars
    BY <2>4 DEF vars, SInv, LineInPlace
  <2>5. CASE pc' # "line"
    BY <2>5 DEF LineInPlace
  <2>6. QED
    BY <2>1, <2>2, <2>3, <2>4, <2>5
       DEF Next, Step, TestEnd, BeginBytes, BeginAll, Begin, ReadNumber, Raise, Return,
           ReadBytes, Call, SeekTo, Put
<1>3. Loops'
  <2> USE DEF Loops
  <2>0. Loops
    BY DEF SInv
  <2>1. ASSUME pc \in {"format", "bytes", "line"}, UNCHANGED data, failed' \in BOOLEAN,
               eof' \in BOOLEAN,
               NEW value, NEW success, Put(value, success)
        PROVE  Loops'
    BY <2>0, <2>1 DEF Put
  <2>2. CASE TestEnd
    BY <2>0, <2>2 DEF TestEnd, Format, Put
  <2>3. CASE BeginBytes
    BY <2>0, <2>3 DEF BeginBytes, Format, Begin, call
  <2>4. CASE BeginAll
    BY <2>0, <2>4 DEF BeginAll, Format, Begin, call
  <2>5. CASE BeginLine
    BY <2>0, <2>5 DEF BeginLine, Format, Begin, call
  <2>6. CASE ReadNumber
    BY <2>0, <2>1, <2>6 DEF ReadNumber, Format, Fails
  <2>7. CASE Raise
    BY <2>0, <2>7 DEF Raise, Format
  <2>8. CASE Return
    BY <2>0, <2>8 DEF Return
  <2>9. CASE ReadLine
    <3>1. CASE \E value, success : Put(value, success)
      <4>1. failed' \in BOOLEAN /\ eof' \in BOOLEAN
        BY <2>0, <2>9 DEF ReadLine, Succeeds, Fails
      <4>2. pc = "line" /\ data' = data
        BY <2>9 DEF ReadLine
      <4>3. QED BY <2>1, <3>1, <4>1, <4>2
    <3>2. CASE UNCHANGED <<pc, num_bytes, call>>
      <4>1. pc' = "line"
        BY <2>9, <3>2 DEF ReadLine
      <4>2. eof' \in BOOLEAN
        BY <2>9, <4>1, ReadLineOn
      <4>3. QED BY <2>0, <2>9, <4>1, <4>2, ReadLineOn DEF call
    <3>3. QED BY <2>9, <3>1, <3>2 DEF ReadLine
  <2>10. CASE ReadBytes
    <3>1. pc = "bytes" /\ data' = data
      BY <2>10 DEF ReadBytes
    <3>2. PICK n \in 0..Len(First(Ahead, ReadCount)) :
            LET got == First(Ahead, n)
                all == acc \o got IN
            /\ \/ n = Len(First(Ahead, ReadCount)) /\ Succeeds(got, n < ReadCount)
               \/ ~eof /\ n < ReadCount /\ Fails(n)
            /\ IF ReadAgain(got)
               THEN /\ acc' = all /\ num_bytes' = num_bytes - n
                    /\ UNCHANGED <<pc, call>>
               ELSE Put(all, all # <<>> \/ Head(todo).kind = "all")
      BY <2>10 DEF ReadBytes
    <3>3. failed' \in BOOLEAN /\ eof' \in BOOLEAN
      <4>1. CASE Succeeds(First(Ahead, n), n < ReadCount)
        <5>1. eof' = (n < ReadCount) /\ failed' = failed
          BY <4>1 DEF Succeeds
        <5>2. (n < ReadCount) \in BOOLEAN
          OBVIOUS
        <5>3. QED BY <2>0, <5>1, <5>2
      <4>2. CASE Fails(n)
        BY <4>2 DEF Fails
      <4>3. QED BY <3>2, <4>1, <4>2
    <3>4. CASE ~ReadAgain(First(Ahead, n))
      BY <2>1, <3>1, <3>2, <3>3, <3>4
    <3>5. CASE ReadAgain(First(Ahead, n))
      <4>1. failed' = failed /\ eof' = FALSE
        <5>1. Len(First(Ahead, n)) = ReadCount
          BY <3>5 DEF ReadAgain
        <5>2. n = Len(First(Ahead, n)) /\ n \in Int
          <6>1. Types /\ num_bytes \in Nat
            BY DEF SInv, IInv, Types
          <6>2. ReadCount \in Nat
            BY <6>1, SizesAssumption DEF ReadCount, Least
          <6>3. n \in Nat
            BY <6>1, <6>2, AheadIsPart, FirstIsPart, LenProperties DEF Types
          <6>4. QED BY <6>1, <6>2, <6>3, BytesGot
        <5>3. ~(n < ReadCount)
          BY <5>1, <5>2
        <5>4. Succeeds(First(Ahead, n), n < ReadCount)
          BY <3>2, <5>3
        <5>5. failed' = failed /\ eof' = (n < ReadCount)
          BY <5>4 DEF Succeeds
        <5>6. (n < ReadCount) = FALSE
          BY <5>3
        <5>7. QED BY <5>5, <5>6, Zenon
      <4>2. UNCHANGED <<pc, call>>
        BY <3>2, <3>5
      <4>3. QED BY <2>0, <3>1, <4>1, <4>2 DEF call
    <3>6. QED BY <3>4, <3>5
  <2>11. ASSUME NEW formats \in Calls, Call(formats) PROVE Loops'
    BY <2>0, <2>11 DEF Call
  <2>12. ASSUME NEW base, NEW offset, SeekTo(base, offset) PROVE Loops'
    BY <2>0, <2>12 DEF SeekTo, call
  <2>13. ASSUME NEW b \in Bytes, Grow(b) PROVE Loops'
    <3>1. Len(data') = Len(data) + 1 /\ Len(data) < MaxLength /\ Len(data) \in Nat
      BY <2>13, LenProperties DEF Grow, SInv, IInv, Types
    <3>2. Len(data') <= MaxLength
      BY <3>1, SizesAssumption
    <3>3. QED BY <2>0, <2>13, <3>2 DEF Grow, call
  <2>14. CASE UNCHANGED vars
    BY <2>0, <2>14 DEF vars, call
  <2>15. QED
    BY <2>2, <2>3, <2>4, <2>5, <2>6, <2>7, <2>8, <2>9, <2>10, <2>11, <2>12, <2>13, <2>14
       DEF Next, Step
<1>4. QED BY <1>1, <1>2, <1>3 DEF SInv

\* What ByteStream sees of a state in which no line has been answered.
LEMMA Seen ==
  /\ ~Answered => Left = todo /\ Given = results
  /\ ~Answered' => Left' = todo' /\ Given' = results'
  /\ pc \notin {"bytes", "line"} => ~Answered /\ (pos \in Nat => Unread = pos)
  /\ pc' \notin {"bytes", "line"} => ~Answered' /\ (pos' \in Nat => Unread' = pos')
  /\ pc \in {"bytes", "line"} /\ ~Answered => Unread = pos - Len(acc)
  /\ pc' \in {"bytes", "line"} /\ ~Answered' => Unread' = pos' - Len(acc')
<1>1. /\ ~Answered => Left = todo /\ Given = results
      /\ ~Answered' => Left' = todo' /\ Given' = results'
  BY DEF Left, Given
<1>2. /\ pc \notin {"bytes", "line"} => ~Answered
      /\ pc' \notin {"bytes", "line"} => ~Answered'
  BY DEF Answered
<1>3. /\ pc \notin {"bytes", "line"} /\ pos \in Nat => Unread = pos
      /\ pc' \notin {"bytes", "line"} /\ pos' \in Nat => Unread' = pos'
  BY DEF Unread
<1>4. /\ pc \in {"bytes", "line"} /\ ~Answered => Unread = pos - Len(acc)
      /\ pc' \in {"bytes", "line"} /\ ~Answered' => Unread' = pos' - Len(acc')
  BY DEF Unread
<1>5. QED BY <1>1, <1>2, <1>3, <1>4

\* A format that is answered without an error is a step of ByteStream.
LEMMA Serves ==
  ASSUME SInv, pc # "idle", ~Answered, todo # <<>>, Head(todo).kind # "bad",
         NEW value, NEW length, NEW ok \in BOOLEAN, NEW met \in BOOLEAN, Put(value, ok),
         UNCHANGED <<data, errors>>, failed' = FALSE, eof' = met,
         pos' \in Nat, pos' = Unread + length,
         Stream!AnswerTo(Head(todo), Stream!Rest) = Stream!Answer(value, length, ok, met)
  PROVE  Stream!Next
<1> DEFINE a == Stream!AnswerTo(Head(todo), Stream!Rest)
<1>1. a.value = value /\ a.length = length /\ a.ok = ok /\ a.met = met
  BY DEF Stream!Answer
<1>2. outcome = "pending"
  BY DEF SInv, Loops
<1>3. /\ results' = Append(results, IF ok THEN value ELSE Nil)
      /\ todo' = IF ok THEN Tail(todo) ELSE <<>>
      /\ outcome' = outcome /\ pc' = "format"
  BY DEF Put
<1>4. Left = todo /\ Given = results /\ Left' = todo' /\ Given' = results' /\ Unread' = pos'
  BY <1>3, Seen
<1>5. Stream!Put(value, ok)
  BY <1>3, <1>4 DEF Stream!Put
<1> HIDE DEF a
<1>6. Stream!Put(a.value, a.ok) /\ Unread' = Unread + a.length /\ eof' = a.met
  BY <1>1, <1>4, <1>5
<1>7. Broken' = FALSE
  BY DEF Broken
<1>8. Stream!Serve
  BY <1>2, <1>4, <1>6, <1>7 DEF Stream!Serve, a
<1>9. QED BY <1>8 DEF Stream!Next

\* A format that meets an error is answered from a part of what is unread.
LEMMA ServesLess ==
  ASSUME SInv, pc # "idle", ~Answered, todo # <<>>, Head(todo).kind # "bad",
         NEW value, NEW ok \in BOOLEAN, Put(value, ok), data' = data,
         errors' = errors + 1, eof' = FALSE,
         failed' = ~Stream!IsTest(Head(todo)),
         NEW k \in 0..Len(Stream!Rest), pos' \in Nat, pos' = Unread + k,
         NEW j \in 0..k, NEW length, NEW met,
         Stream!AnswerTo(Head(todo), SubSeq(Stream!Rest, 1, j))
           = Stream!Answer(value, length, ok, met)
  PROVE  Stream!Next
<1> DEFINE a == Stream!AnswerTo(Head(todo), SubSeq(Stream!Rest, 1, j))
<1>1. outcome = "pending"
  BY DEF SInv, Loops
<1>2. /\ results' = Append(results, IF ok THEN value ELSE Nil)
      /\ todo' = IF ok THEN Tail(todo) ELSE <<>>
      /\ outcome' = outcome /\ pc' = "format"
  BY DEF Put
<1>3. Left = todo /\ Given = results /\ Left' = todo' /\ Given' = results' /\ Unread' = pos'
  BY <1>2, Seen
<1>4. a.value = value /\ a.ok = ok
  BY DEF Stream!Answer
<1>5. Stream!Put(value, ok)
  BY <1>2, <1>3 DEF Stream!Put
<1> HIDE DEF a
<1>6. Stream!Put(a.value, a.ok) /\ Unread' = Unread + k
  BY <1>3, <1>4, <1>5
<1>7. Broken' = (Left' = <<>> /\ ~Stream!IsTest(Head(Left)))
  BY <1>3 DEF Broken
<1>8. Stream!ServeLess
  BY <1>1, <1>3, <1>6, <1>7 DEF Stream!ServeLess, a
<1>9. QED BY <1>8 DEF Stream!Next

LEMMA UntilIs ==
  ASSUME NEW S, NEW s \in Seq(S), NEW stop
  PROVE  /\ Stream!Until(s, stop) = First(s, Span(s, stop))
         /\ Len(First(s, Span(s, stop))) = Span(s, stop) /\ Span(s, stop) \in Nat
<1> DEFINE m == Span(s, stop)
<1>1. /\ m \in 0..Len(s) /\ \A i \in 1..m : s[i] \notin stop
      /\ m < Len(s) => s[m + 1] \in stop
  BY SpanExists
<1>2. Len(s) \in Nat
  BY LenProperties
<1> HIDE DEF m
<1>3. Stream!Until(s, stop) = SubSeq(s, 1, m)
  BY <1>1, SpanIs
<1>4. Least(m, Len(s)) = m /\ m \in Nat
  BY <1>1, <1>2 DEF Least
<1>5. First(s, m) = SubSeq(s, 1, m)
  BY <1>4 DEF First
<1>6. m \in Int /\ Len(First(s, m)) = m
  BY <1>1, <1>4, FirstIsPart
<1>7. QED BY <1>3, <1>4, <1>5, <1>6 DEF m

LEMMA AtFormat ==
  ASSUME SInv, pc = "format"
  PROVE  /\ Stream!Rest = Rest /\ Unread = pos /\ pos \in Nat /\ ~Answered
         /\ Rest \in Seq(Bytes) /\ Len(Rest) \in Nat
<1>1. pos \in Nat /\ data \in Seq(Bytes)
  BY DEF SInv, IInv, Types
<1>2. Unread = pos /\ ~Answered
  BY <1>1, Seen
<1>3. Stream!Rest = SubSeq(data, pos + 1, Len(data))
  BY <1>2 DEF Stream!Rest
<1>4. QED BY <1>1, <1>2, <1>3, RestIsPart, LenProperties DEF Rest

\* Nothing is a part of what is unread.
LEMMA NothingIsPart ==
  ASSUME NEW S, NEW s \in Seq(S)
  PROVE  SubSeq(s, 1, 0) = <<>>
<1>1. <<>> \in Seq(S) /\ Len(<<>>) = 0 /\ Len(s) \in Nat
  BY EmptySeq, LenProperties
<1>2. Len(<<>>) <= Len(s) /\ \A i \in 1..Len(<<>>) : <<>>[i] = s[i]
  BY <1>1
<1>3. SubSeq(s, 1, Len(<<>>)) = <<>>
  BY <1>1, <1>2, PartIs
<1>4. QED BY <1>1, <1>3

LEMMA TestEndServes == ASSUME SInv, TestEnd PROVE Stream!Next
<1>1. /\ pc = "format" /\ todo # <<>> /\ Head(todo).kind = "bytes" /\ Head(todo).n = 0
      /\ pos' = pos /\ data' = data /\ failed' = FALSE /\ eof' = FALSE
      /\ Head(todo).kind # "bad" /\ pc # "idle"
  BY DEF TestEnd, Format
<1>2. /\ Stream!Rest = Rest /\ Unread = pos /\ pos \in Nat /\ ~Answered
      /\ Rest \in Seq(Bytes) /\ Len(Rest) \in Nat
  BY <1>1, AtFormat
<1>3. ASSUME NEW rest
      PROVE  Stream!AnswerTo(Head(todo), rest)
             = Stream!Answer(<<>>, 0, ~eof /\ rest # <<>>, FALSE)
  <2>1. /\ ~(Head(todo).kind = "bytes" /\ Head(todo).n > 0)
        /\ Head(todo).kind = "bytes" /\ Head(todo).n = 0
        /\ Head(todo).kind \notin {"line", "all", "number"}
    BY <1>1
  <2>2. QED BY <2>1 DEF Stream!AnswerTo
<1>4. (Ahead # <<>>) = (~eof /\ Rest # <<>>)
  BY DEF Ahead
<1>5. CASE Put(<<>>, Ahead # <<>>) /\ UNCHANGED errors
  <2> DEFINE ok == Ahead # <<>>
  <2>1. Stream!AnswerTo(Head(todo), Stream!Rest) = Stream!Answer(<<>>, 0, ok, FALSE)
    BY <1>2, <1>3, <1>4
  <2>2. ok \in BOOLEAN /\ FALSE \in BOOLEAN /\ pos' \in Nat /\ pos' = Unread + 0
    BY <1>1, <1>2
  <2>3. Put(<<>>, ok)
    BY <1>5
  <2> HIDE DEF ok
  <2>4. QED BY <1>1, <1>2, <1>5, <2>1, <2>2, <2>3, Serves
<1>6. CASE errors' = errors + 1 /\ Put(<<>>, FALSE)
  <2>1. /\ 0 \in 0..Len(Stream!Rest) /\ pos' \in Nat /\ pos' = Unread + 0
        /\ 0 \in 0..0
    BY <1>1, <1>2
  <2>2. SubSeq(Stream!Rest, 1, 0) = <<>>
    BY <1>2, NothingIsPart
  <2>3. Stream!AnswerTo(Head(todo), SubSeq(Stream!Rest, 1, 0))
        = Stream!Answer(<<>>, 0, FALSE, FALSE)
    BY <1>3, <2>2
  <2>4. failed' = ~Stream!IsTest(Head(todo))
    BY <1>1 DEF Stream!IsTest
  <2>5. QED BY <1>1, <1>2, <1>6, <2>1, <2>3, <2>4, ServesLess
<1>7. QED BY <1>5, <1>6 DEF TestEnd

\* What a number is read from: the digits behind the blanks.
LEMMA NumberAnswer ==
  ASSUME NEW s \in Seq(Bytes), todo # <<>>, Head(todo).kind = "number"
  PROVE  LET blanks == Span(s, Bytes \ {NL})
             behind == SubSeq(s, blanks + 1, Len(s))
             digits == First(behind, Span(behind, Bytes \ Digits))
         IN  /\ Stream!AnswerTo(Head(todo), s)
                = Stream!Answer(digits, blanks + Len(digits), digits # <<>>,
                                blanks + Len(digits) = Len(s))
             /\ blanks \in 0..Len(s) /\ Len(s) \in Nat
             /\ behind \in Seq(Bytes) /\ Len(behind) = Len(s) - blanks
             /\ \A i \in 1..Len(behind) : behind[i] = s[blanks + i]
             /\ digits \in Seq(Bytes) /\ Len(digits) \in 0..Len(behind)
<1> DEFINE blanks == Span(s, Bytes \ {NL})
           behind == SubSeq(s, blanks + 1, Len(s))
           digits == First(behind, Span(behind, Bytes \ Digits))
<1>1. /\ Stream!Until(s, Bytes \ {NL}) = First(s, blanks)
      /\ Len(First(s, blanks)) = blanks /\ blanks \in Nat
  BY UntilIs
<1>2. blanks \in 0..Len(s) /\ Len(s) \in Nat
  BY SpanExists, LenProperties
<1>3. /\ behind \in Seq(Bytes) /\ Len(behind) = Len(s) - blanks
      /\ \A i \in 1..Len(behind) : behind[i] = s[blanks + i]
  <2> HIDE DEF blanks
  <2>1. blanks + 1 \in Int /\ \A i \in blanks + 1..Len(s) : s[i] \in Bytes
    BY <1>2, ElementOfSeq
  <2>2. /\ behind \in Seq(Bytes)
        /\ Len(behind) = IF blanks + 1 <= Len(s) THEN Len(s) - (blanks + 1) + 1 ELSE 0
        /\ \A i \in 1..Len(s) - (blanks + 1) + 1 : behind[i] = s[blanks + 1 + i - 1]
    BY <1>2, <2>1, SubSeqProperties
  <2> HIDE DEF behind
  <2>3. Len(behind) = Len(s) - blanks
    BY <1>2, <2>2
  <2>4. ASSUME NEW i \in 1..Len(behind) PROVE behind[i] = s[blanks + i]
    <3>1. i \in 1..Len(s) - (blanks + 1) + 1 /\ blanks + 1 + i - 1 = blanks + i
      BY <1>2, <2>3
    <3>2. QED BY <2>2, <3>1
  <2>5. QED BY <2>2, <2>3, <2>4
<1>4. /\ Stream!Until(behind, Bytes \ Digits) = digits
      /\ digits \in Seq(Bytes) /\ Len(digits) \in 0..Len(behind)
  <2> HIDE DEF behind
  <2>1. Span(behind, Bytes \ Digits) \in 0..Len(behind) /\ Len(behind) \in Nat
    BY <1>3, SpanExists, LenProperties
  <2>2. Stream!Until(behind, Bytes \ Digits) = digits
    BY <1>3, UntilIs
  <2>3. QED BY <1>3, <2>1, <2>2, FirstIsPart
<1>5. Stream!AnswerTo(Head(todo), s)
      = LET b == Stream!Until(s, Bytes \ {NL})
            d == Stream!Until(SubSeq(s, Len(b) + 1, Len(s)), Bytes \ Digits)
        IN  Stream!Answer(d, Len(b) + Len(d), d # <<>>, Len(b) + Len(d) = Len(s))
  <2>1. Head(todo).kind \notin {"bytes", "line", "all"}
    OBVIOUS
  <2>2. QED BY <2>1 DEF Stream!AnswerTo
<1> HIDE DEF blanks
<1>6. SubSeq(s, Len(First(s, blanks)) + 1, Len(s)) = behind
  BY <1>1
<1> HIDE DEF behind, digits
<1>7. Stream!AnswerTo(Head(todo), s)
      = Stream!Answer(digits, blanks + Len(digits), digits # <<>>,
                      blanks + Len(digits) = Len(s))
  BY <1>1, <1>4, <1>5, <1>6
<1>8. QED BY <1>2, <1>3, <1>4, <1>7 DEF blanks, behind, digits

\* A device that fails behind some digits leaves them as the number, which is the
\* answer to a file that ends there.
LEMMA NumberCutShort ==
  ASSUME NEW s \in Seq(Bytes), todo # <<>>, Head(todo).kind = "number",
         NEW taken \in 0..Len(s),
         LET blanks == Span(s, Bytes \ {NL})
             behind == SubSeq(s, blanks + 1, Len(s))
         IN  taken <= blanks + Span(behind, Bytes \ Digits)
  PROVE  LET got == SubSeq(s, Span(s, Bytes \ {NL}) + 1, taken) IN
           \E length, met :
             Stream!AnswerTo(Head(todo), SubSeq(s, 1, taken))
               = Stream!Answer(got, length, got # <<>>, met)
<1> DEFINE blanks == Span(s, Bytes \ {NL})
           behind == SubSeq(s, blanks + 1, Len(s))
           part == SubSeq(s, 1, taken)
           blanks2 == Span(part, Bytes \ {NL})
           behind2 == SubSeq(part, blanks2 + 1, Len(part))
           digits2 == First(behind2, Span(behind2, Bytes \ Digits))
           got == SubSeq(s, blanks + 1, taken)
<1>1. /\ blanks \in 0..Len(s) /\ Len(s) \in Nat /\ \A i \in 1..blanks : s[i] = NL
      /\ blanks < Len(s) => s[blanks + 1] # NL
      /\ behind \in Seq(Bytes) /\ Len(behind) = Len(s) - blanks
      /\ \A i \in 1..Len(behind) : behind[i] = s[blanks + i]
  <2>1. /\ blanks \in 0..Len(s) /\ Len(s) \in Nat
        /\ behind \in Seq(Bytes) /\ Len(behind) = Len(s) - blanks
        /\ \A i \in 1..Len(behind) : behind[i] = s[blanks + i]
    BY NumberAnswer
  <2>2. /\ \A i \in 1..blanks : s[i] \notin Bytes \ {NL}
        /\ blanks < Len(s) => s[blanks + 1] \in Bytes \ {NL}
    BY SpanExists
  <2> HIDE DEF blanks, behind
  <2>3. \A i \in 1..Len(s) : s[i] \in Bytes
    BY ElementOfSeq
  <2>4. \A i \in 1..blanks : s[i] = NL
    <3>1. \A i \in 1..blanks : i \in 1..Len(s)
      BY <2>1
    <3>2. QED BY <2>2, <2>3, <3>1
  <2>5. QED BY <2>1, <2>2, <2>4
<1>2. /\ Span(behind, Bytes \ Digits) \in 0..Len(behind)
      /\ \A i \in 1..Span(behind, Bytes \ Digits) : behind[i] \notin Bytes \ Digits
      /\ taken <= blanks + Span(behind, Bytes \ Digits)
  <2> HIDE DEF blanks, behind
  <2>1. QED BY <1>1, SpanExists DEF blanks, behind
<1>3. /\ part \in Seq(Bytes) /\ Len(part) = taken /\ taken \in Nat
      /\ \A i \in 1..taken : part[i] = s[i]
  <2>1. taken \in Int /\ 1 \in Int /\ \A i \in 1..taken : s[i] \in Bytes
    BY <1>1, ElementOfSeq
  <2>2. /\ part \in Seq(Bytes) /\ Len(part) = IF 1 <= taken THEN taken - 1 + 1 ELSE 0
        /\ \A i \in 1..taken - 1 + 1 : part[i] = s[1 + i - 1]
    BY <2>1, SubSeqProperties
  <2> HIDE DEF part
  <2>3. QED BY <1>1, <2>1, <2>2
<1> HIDE DEF behind, part
<1>4. blanks2 = IF taken <= blanks THEN taken ELSE blanks
  <2> DEFINE m == IF taken <= blanks THEN taken ELSE blanks
  <2>0. blanks \in Nat
    BY <1>1
  <2> HIDE DEF blanks
  <2>1. m \in 0..Len(part) /\ m \in Nat /\ m <= blanks /\ m <= taken
        /\ (m < Len(part) => m = blanks /\ blanks < Len(s))
    BY <1>1, <1>3, <2>0
  <2> HIDE DEF m
  <2>2. \A i \in 1..m : part[i] \notin Bytes \ {NL}
    BY <1>1, <1>3, <2>0, <2>1
  <2>3. m < Len(part) => part[m + 1] \in Bytes \ {NL}
    <3> SUFFICES ASSUME m < Len(part) PROVE part[m + 1] \in Bytes \ {NL}
      OBVIOUS
    <3>1. m = blanks /\ m + 1 \in 1..taken /\ m + 1 \in 1..Len(s) /\ blanks < Len(s)
      BY <1>1, <1>3, <2>1
    <3>2. QED BY <1>1, <1>3, <3>1, ElementOfSeq
  <2>4. blanks2 = m
    BY <1>3, <2>1, <2>2, <2>3, SpanIs
  <2>5. QED BY <2>4 DEF m
<1>5. /\ behind2 \in Seq(Bytes) /\ Len(behind2) = taken - blanks2
      /\ \A i \in 1..Len(behind2) : behind2[i] = part[blanks2 + i]
      /\ blanks2 \in 0..taken
      /\ \E length, met :
           Stream!AnswerTo(Head(todo), part)
             = Stream!Answer(digits2, length, digits2 # <<>>, met)
  <2>1. /\ Stream!AnswerTo(Head(todo), part)
           = Stream!Answer(digits2, blanks2 + Len(digits2), digits2 # <<>>,
                           blanks2 + Len(digits2) = Len(part))
        /\ blanks2 \in 0..Len(part)
        /\ behind2 \in Seq(Bytes) /\ Len(behind2) = Len(part) - blanks2
        /\ \A i \in 1..Len(behind2) : behind2[i] = part[blanks2 + i]
    BY <1>3, NumberAnswer
  <2> HIDE DEF blanks2, behind2, digits2
  <2>2. QED BY <1>3, <2>1
<1> HIDE DEF blanks2, behind2
<1>6. \A i \in 1..Len(behind2) : behind2[i] \notin Bytes \ Digits
  <2> SUFFICES ASSUME NEW i \in 1..Len(behind2) PROVE behind2[i] \notin Bytes \ Digits
    OBVIOUS
  <2> HIDE DEF blanks
  <2>1. blanks2 = blanks /\ taken > blanks
    BY <1>1, <1>3, <1>4, <1>5
  <2>2. i \in 1..Len(behind) /\ blanks + i \in 1..taken
        /\ i \in 1..Span(behind, Bytes \ Digits)
    BY <1>1, <1>2, <1>3, <1>5, <2>1
  <2>3. behind2[i] = behind[i]
    BY <1>1, <1>3, <1>5, <2>1, <2>2
  <2>4. QED BY <1>2, <2>2, <2>3
<1>7. digits2 = behind2
  <2>1. Len(behind2) \in Nat /\ Len(behind2) \in 0..Len(behind2)
    BY <1>5, LenProperties
  <2>2. Span(behind2, Bytes \ Digits) = Len(behind2)
    <3>1. behind2 \in Seq(Bytes) /\ ~(Len(behind2) < Len(behind2))
      BY <1>5, <2>1
    <3>2. QED BY ONLY <1>6, <2>1, <3>1, SpanIs
  <2>3. Least(Len(behind2), Len(behind2)) = Len(behind2)
    BY DEF Least
  <2>4. SubSeq(behind2, 1, Len(behind2)) = behind2
    BY <1>5, <2>1, PartIs
  <2>5. QED BY <2>2, <2>3, <2>4 DEF First
<1>8. behind2 = got
  <2>0. blanks \in Nat
    BY <1>1
  <2> HIDE DEF blanks
  <2>1. blanks + 1 \in Int /\ taken \in Int /\ \A i \in blanks + 1..taken : s[i] \in Bytes
    <3>1. \A i \in blanks + 1..taken : i \in 1..Len(s)
      BY <1>1, <1>3, <2>0
    <3>2. QED BY <1>3, <2>0, <3>1, ElementOfSeq
  <2>2. /\ got \in Seq(Bytes)
        /\ Len(got) = IF blanks + 1 <= taken THEN taken - (blanks + 1) + 1 ELSE 0
        /\ \A i \in 1..taken - (blanks + 1) + 1 : got[i] = s[blanks + 1 + i - 1]
    BY <2>1, SubSeqProperties
  <2> HIDE DEF got
  <2>3. Len(got) = Len(behind2)
    BY <1>3, <1>4, <1>5, <2>0, <2>2
  <2>4. ASSUME NEW i \in 1..Len(behind2) PROVE behind2[i] = got[i]
    <3>1. blanks2 = blanks /\ i \in 1..taken - (blanks + 1) + 1
          /\ blanks + 1 + i - 1 = blanks + i /\ blanks + i \in 1..taken
      BY <1>3, <1>4, <1>5, <2>0, <2>3
    <3>2. QED BY <1>3, <1>5, <2>2, <3>1
  <2>5. QED BY <1>5, <2>2, <2>3, <2>4, SeqEqual
<1>9. QED BY <1>5, <1>7, <1>8 DEF part

LEMMA ReadNumberServes == ASSUME SInv, ReadNumber PROVE Stream!Next
<1> DEFINE blanks == Span(Rest, Bytes \ {NL})
           behind == SubSeq(Rest, blanks + 1, Len(Rest))
           digits == First(behind, Span(behind, Bytes \ Digits))
<1>1. /\ pc = "format" /\ todo # <<>> /\ Head(todo).kind = "number"
      /\ data' = data /\ Head(todo).kind # "bad" /\ pc # "idle"
  BY DEF ReadNumber, Format
<1>2. /\ Stream!Rest = Rest /\ Unread = pos /\ pos \in Nat /\ ~Answered
      /\ Rest \in Seq(Bytes) /\ Len(Rest) \in Nat
  BY <1>1, AtFormat
<1>3. /\ Stream!AnswerTo(Head(todo), Rest)
         = Stream!Answer(digits, blanks + Len(digits), digits # <<>>,
                         blanks + Len(digits) = Len(Rest))
      /\ blanks \in 0..Len(Rest) /\ behind \in Seq(Bytes) /\ Len(behind) = Len(Rest) - blanks
      /\ Len(digits) \in 0..Len(behind)
  BY <1>1, <1>2, NumberAnswer
<1>4. Len(digits) = Span(behind, Bytes \ Digits)
  <2> HIDE DEF behind
  <2>1. QED BY <1>3, UntilIs
<1>5. \/ /\ Put(digits, digits # <<>>) /\ pos' = pos + blanks + Len(digits)
         /\ eof' = (blanks + Len(digits) = Len(Rest))
         /\ failed' = FALSE /\ UNCHANGED errors
      \/ \E taken \in 0..blanks + Len(digits) :
           LET got == SubSeq(Rest, blanks + 1, taken) IN
             Fails(taken) /\ Put(got, got # <<>>)
  BY DEF ReadNumber
<1>6. CASE /\ Put(digits, digits # <<>>) /\ pos' = pos + blanks + Len(digits)
           /\ eof' = (blanks + Len(digits) = Len(Rest))
           /\ failed' = FALSE /\ UNCHANGED errors
  <2> DEFINE ok == digits # <<>>
             met == blanks + Len(digits) = Len(Rest)
             length == blanks + Len(digits)
  <2>1. ok \in BOOLEAN /\ met \in BOOLEAN /\ Put(digits, ok) /\ eof' = met
        /\ Stream!AnswerTo(Head(todo), Stream!Rest) = Stream!Answer(digits, length, ok, met)
    BY <1>2, <1>3, <1>6
  <2>2. pos' \in Nat /\ pos' = Unread + length
    <3> HIDE DEF blanks, digits
    <3>1. QED BY <1>2, <1>3, <1>6
  <2> HIDE DEF ok, met, length, digits
  <2>3. QED BY <1>1, <1>2, <1>6, <2>1, <2>2, Serves
<1>7. ASSUME NEW taken \in 0..blanks + Len(digits),
             Fails(taken),
             LET got == SubSeq(Rest, blanks + 1, taken) IN Put(got, got # <<>>)
      PROVE  Stream!Next
  <2> DEFINE got == SubSeq(Rest, blanks + 1, taken)
             ok == got # <<>>
  <2>1. taken \in 0..Len(Rest) /\ taken \in 0..taken /\ taken \in Nat
        /\ taken <= blanks + Span(behind, Bytes \ Digits)
    <3> HIDE DEF blanks, digits, behind
    <3>1. QED BY <1>2, <1>3, <1>4, <1>7
  <2>2. pos' \in Nat /\ pos' = Unread + taken /\ errors' = errors + 1 /\ eof' = FALSE
    BY <1>2, <1>7, <2>1 DEF Fails
  <2>3. PICK length, met :
          Stream!AnswerTo(Head(todo), SubSeq(Stream!Rest, 1, taken))
            = Stream!Answer(got, length, ok, met)
    BY <1>1, <1>2, <2>1, NumberCutShort
  <2>4. Put(got, ok) /\ ok \in BOOLEAN
    BY <1>7
  <2>5. failed' = ~Stream!IsTest(Head(todo))
    BY <1>1, <1>7 DEF Fails, Stream!IsTest
  <2>6. taken \in 0..Len(Stream!Rest)
    BY <1>2, <2>1
  <2> HIDE DEF got, ok
  <2>7. QED BY <1>1, <1>2, <2>1, <2>2, <2>3, <2>4, <2>5, <2>6, ServesLess
<1>8. QED BY <1>5, <1>6, <1>7

\* A turn of the loop around fread is the answer of ByteStream when it is the last
\* one, and otherwise nothing that ByteStream sees.
LEMMA ReadBytesServes ==
  ASSUME SInv, ReadBytes
  PROVE  Stream!Next \/ UNCHANGED Stream!vars
<1>1. /\ pc = "bytes" /\ todo # <<>> /\ data' = data /\ Types
      /\ num_bytes \in Nat /\ num_bytes > 0 /\ num_bytes + Len(acc) = Requested
      /\ acc \in Seq(Bytes) /\ Len(acc) \in Nat /\ pos \in Nat /\ Len(acc) <= pos
      /\ Len(data) <= MaxLength /\ Len(data) \in Nat /\ failed = FALSE
      /\ eof = FALSE /\ ~Answered
      /\ \/ Head(todo).kind = "all"
         \/ Head(todo).kind = "bytes" /\ Head(todo).n > 0
  BY LenProperties DEF ReadBytes, SInv, IInv, Types, InPlace, Loops, Answered
<1>2. ReadCount \in Nat /\ ReadCount <= num_bytes /\ ReadCount > 0
  BY <1>1, SizesAssumption DEF ReadCount, Least
<1>3. PICK n \in 0..Len(First(Ahead, ReadCount)) :
        LET got == First(Ahead, n)
            all == acc \o got IN
        /\ \/ n = Len(First(Ahead, ReadCount)) /\ Succeeds(got, n < ReadCount)
           \/ ~eof /\ n < ReadCount /\ Fails(n)
        /\ IF ReadAgain(got)
           THEN /\ acc' = all /\ num_bytes' = num_bytes - n
                /\ UNCHANGED <<pc, call>>
           ELSE Put(all, all # <<>> \/ Head(todo).kind = "all")
  BY DEF ReadBytes
<1> DEFINE got == First(Ahead, n)
           all == acc \o got
           rest == Stream!Rest
<1>4. Rest \in Seq(Bytes) /\ Len(Rest) \in Nat /\ Ahead = Rest
  BY <1>1, RestIsPart, LenProperties DEF Types, Ahead
<1> HIDE DEF Ahead
<1>5. n \in Nat /\ n <= Len(Rest) /\ n <= ReadCount
  <2>1. Len(First(Ahead, ReadCount)) \in 0..Len(Rest) /\ Len(First(Ahead, ReadCount)) <= ReadCount
    BY <1>2, <1>4, FirstIsPart
  <2>2. QED BY <1>2, <1>4, <2>1
<1>6. /\ got \in Seq(Bytes) /\ Len(got) = n
      /\ \A i \in 1..n : got[i] = Rest[i]
  <2>1. n \in Int /\ n \in 0..Len(Rest)
    BY <1>4, <1>5
  <2>2. /\ First(Rest, n) \in Seq(Bytes) /\ Len(First(Rest, n)) = n
        /\ \A i \in 1..Len(First(Rest, n)) : First(Rest, n)[i] = Rest[i]
    BY ONLY <1>4, <2>1, FirstIsPart
  <2>3. got = First(Rest, n)
    BY <1>4
  <2> HIDE DEF got
  <2>4. QED BY <2>2, <2>3
<1>7. /\ rest \in Seq(Bytes) /\ Len(rest) = Len(acc) + Len(Rest) /\ Len(rest) <= Len(data)
      /\ \A i \in 1..Len(acc) : rest[i] = acc[i]
      /\ \A i \in 1..Len(Rest) : rest[Len(acc) + i] = Rest[i]
  BY <1>1, UnreadIs
<1>8. Unread = pos - Len(acc) /\ Unread \in Nat
  BY <1>1, Seen
<1> HIDE DEF got, rest
<1>9. /\ all \in Seq(Bytes) /\ Len(all) = Len(acc) + n
      /\ \A i \in 1..Len(acc) + n : all[i] = IF i <= Len(acc) THEN acc[i] ELSE got[i - Len(acc)]
  BY <1>1, <1>5, <1>6, ConcatProperties
<1> HIDE DEF all
<1>10. pos' = pos + n /\ pos' \in Nat /\ pos' = Unread + Len(all)
  <2>1. pos' = pos + n
    BY <1>3, <1>6 DEF Succeeds, Fails, got
  <2>2. QED BY <1>1, <1>5, <1>8, <1>9, <2>1
<1>11. Len(all) \in 0..Len(rest) /\ all = SubSeq(rest, 1, Len(all))
  <2>1. Len(all) \in Nat /\ Len(all) <= Len(rest)
    BY <1>1, <1>4, <1>5, <1>7, <1>9
  <2>2. ASSUME NEW i \in 1..Len(all) PROVE all[i] = rest[i]
    <3>1. i \in 1..Len(acc) + n
      BY <1>9
    <3>2. CASE i <= Len(acc)
      BY <1>1, <1>7, <1>9, <3>1, <3>2
    <3>3. CASE ~(i <= Len(acc))
      <4>1. i - Len(acc) \in 1..n /\ i - Len(acc) \in 1..Len(Rest) /\ Len(acc) + (i - Len(acc)) = i
        BY <1>1, <1>4, <1>5, <3>1, <3>3
      <4>2. all[i] = Rest[i - Len(acc)]
        BY <1>6, <1>9, <3>1, <3>3, <4>1
      <4>3. rest[Len(acc) + (i - Len(acc))] = Rest[i - Len(acc)]
        BY <1>7, <4>1
      <4>4. QED BY <4>1, <4>2, <4>3
    <3>4. QED BY <3>2, <3>3
  <2>3. Len(rest) \in Nat
    BY <1>7, LenProperties
  <2>4. QED BY <1>7, <1>9, <2>1, <2>2, <2>3, PartIs
<1>12. CASE ReadAgain(got)
  <2>1. n = ReadCount
    BY <1>6, <1>12 DEF ReadAgain
  <2>2. Succeeds(got, FALSE)
    <3>1. ~(n < ReadCount)
      BY <1>2, <2>1
    <3>2. (n < ReadCount) = FALSE /\ Succeeds(got, n < ReadCount)
      BY <1>3, <3>1 DEF got
    <3>3. QED BY <3>2
  <2>3. acc' = all /\ UNCHANGED <<pc, call>>
    BY <1>3, <1>12 DEF got, all
  <2>4. pos' - Len(acc') = pos - Len(acc)
    BY <1>1, <1>5, <1>8, <1>9, <1>10, <2>3
  <2>5. UNCHANGED <<data, todo, results, errors, failed, eof, outcome, pc>>
    BY <1>1, <2>2, <2>3 DEF Succeeds, call
  <2>6. ~Answered' /\ pc' \in {"bytes", "line"}
    BY <1>1, <2>5 DEF Answered
  <2>7. UNCHANGED <<Unread, Left, Given>>
    BY <1>1, <1>8, <2>3, <2>4, <2>5, <2>6, Seen
  <2>8. Broken' = Broken
    BY <2>5 DEF Broken
  <2>9. UNCHANGED Stream!vars
    BY <2>5, <2>7, <2>8 DEF Stream!vars
  <2>10. QED BY <2>9
<1>13. CASE ~ReadAgain(got)
  <2> DEFINE ok == all # <<>> \/ Head(todo).kind = "all"
  <2>1. Put(all, ok) /\ ok \in BOOLEAN
    BY <1>3, <1>13 DEF got, all
  <2>2. Head(todo).kind # "bad" /\ ~Stream!IsTest(Head(todo)) /\ pc # "idle"
    BY <1>1 DEF Stream!IsTest
  <2>3. CASE n < ReadCount /\ Fails(n)
    <3>1. errors' = errors + 1 /\ failed' = TRUE /\ eof' = FALSE
      BY <2>3 DEF Fails
    <3>2. failed' = ~Stream!IsTest(Head(todo))
      BY <2>2, <3>1
    <3>3. Len(all) \in 0..Len(all) /\ Len(all) \in Nat
      BY <1>11
    <3>4. PICK length, met : Stream!AnswerTo(Head(todo), all)
                             = Stream!Answer(all, length, ok, met)
      <4>1. CASE Head(todo).kind = "all"
        <5>1. Stream!AnswerTo(Head(todo), all) = Stream!Answer(all, Len(all), TRUE, TRUE)
          BY <4>1 DEF Stream!AnswerTo
        <5>2. ok = TRUE
          BY <4>1
        <5>3. QED BY <5>1, <5>2
      <4>2. CASE Head(todo).kind = "bytes" /\ Head(todo).n > 0
        <5> DEFINE k == IF Head(todo).n < Len(all) THEN Head(todo).n ELSE Len(all)
        <5>1. num_bytes + Len(acc) = Head(todo).n
          BY <1>1, <4>2 DEF Requested
        <5>2. k = Len(all)
          BY <1>1, <1>2, <1>5, <1>9, <3>3, <5>1
        <5>3. Stream!AnswerTo(Head(todo), all)
              = Stream!Answer(SubSeq(all, 1, k), k, k > 0, k < Head(todo).n)
          <6>1. /\ Head(todo).kind = "bytes" /\ Head(todo).n > 0 /\ Head(todo).n # 0
                /\ Head(todo).kind \notin {"line", "all", "number"}
            BY <4>2
          <6>2. QED BY <6>1 DEF Stream!AnswerTo
        <5> HIDE DEF k
        <5>4. SubSeq(all, 1, Len(all)) = all
          BY <1>9, <3>3, PartIs
        <5>5. ok = (Len(all) > 0)
          <6>1. all # <<>> <=> Len(all) > 0
            BY <1>9, <3>3, EmptySeq
          <6>2. Head(todo).kind # "all"
            BY <4>2
          <6>3. QED BY <6>1, <6>2
        <5>6. Stream!AnswerTo(Head(todo), all)
              = Stream!Answer(all, Len(all), ok, Len(all) < Head(todo).n)
          BY <5>2, <5>3, <5>4, <5>5
        <5>7. QED BY <5>6
      <4>3. QED BY <1>1, <4>1, <4>2
    <3>5. Stream!AnswerTo(Head(todo), SubSeq(Stream!Rest, 1, Len(all)))
          = Stream!Answer(all, length, ok, met)
      BY <1>11, <3>4 DEF rest
    <3>6. Len(all) \in 0..Len(Stream!Rest)
      BY <1>11 DEF rest
    <3> HIDE DEF ok
    <3>7. Stream!Next
      BY <1>1, <1>10, <2>1, <2>2, <3>1, <3>2, <3>3, <3>5, <3>6, ServesLess
    <3>8. QED BY <3>7
  <2>4. CASE n = Len(First(Ahead, ReadCount)) /\ Succeeds(got, n < ReadCount)
    <3>1. errors' = errors /\ failed' = FALSE /\ eof' = (n < ReadCount)
          /\ (n < ReadCount) \in BOOLEAN
      BY <1>1, <2>4 DEF Succeeds
    <3>2. n = ReadCount \/ n = Len(Rest)
      <4>1. CASE ReadCount <= Len(Rest)
        <5>1. ReadCount \in Int /\ ReadCount \in 0..Len(Rest)
          BY <1>2, <1>4, <4>1
        <5>2. Len(First(Rest, ReadCount)) = ReadCount
          BY ONLY <1>4, <5>1, FirstIsPart
        <5>3. QED BY <1>4, <2>4, <5>2
      <4>2. CASE ~(ReadCount <= Len(Rest))
        <5>1. First(Ahead, ReadCount) = SubSeq(Rest, 1, Len(Rest))
          BY <1>2, <1>4, <4>2 DEF First, Least
        <5>2. SubSeq(Rest, 1, Len(Rest)) = Rest
          BY <1>4, PartIs
        <5>3. QED BY <1>4, <2>4, <5>1, <5>2
      <4>3. QED BY <4>1, <4>2
    <3>3. n = num_bytes \/ (n = Len(Rest) /\ n <= num_bytes)
      <4>1. num_bytes - n = 0 \/ n # ReadCount
        BY <1>6, <1>13 DEF ReadAgain
      <4>2. n <= num_bytes
        BY <1>1, <1>2, <1>5
      <4>3. QED BY <1>1, <1>5, <3>2, <4>1, <4>2
    <3>4. CASE Head(todo).kind = "all"
      <4>1. num_bytes + Len(acc) = SizeMax
        BY <1>1, <3>4 DEF Requested
      <4>2. n # num_bytes
        <5>1. n = num_bytes => Len(all) = SizeMax
          BY <1>1, <1>9, <4>1
        <5>2. Len(all) <= MaxLength /\ SizeMax > MaxLength /\ MaxLength \in Nat /\ SizeMax \in Nat
          BY <1>1, <1>7, <1>11, LenProperties, SizesAssumption
        <5>3. Len(all) \in Nat
          BY <1>11
        <5>4. Len(all) # SizeMax
          BY ONLY <5>2, <5>3
        <5>5. QED BY <5>1, <5>4
      <4>3. n = Len(Rest) /\ (n < ReadCount) = TRUE
        <5>1. n # ReadCount
          BY <1>1, <1>5, <1>6, <1>13, <4>2 DEF ReadAgain
        <5>2. QED BY <1>2, <1>5, <3>3, <4>2, <5>1
      <4>4. Len(all) = Len(rest)
        BY <1>7, <1>9, <4>3
      <4>5. SubSeq(rest, 1, Len(rest)) = rest
        BY <1>7, PartIs, LenProperties
      <4>6. all = rest
        BY <1>11, <4>4, <4>5
      <4>7. Stream!AnswerTo(Head(todo), rest) = Stream!Answer(all, Len(all), TRUE, TRUE)
        BY <3>4, <4>6 DEF Stream!AnswerTo
      <4>8. Put(all, TRUE) /\ TRUE \in BOOLEAN
        BY <2>1, <3>4
      <4>9. Stream!Next
        BY <1>1, <1>10, <2>2, <3>1, <4>3, <4>7, <4>8, Serves DEF rest
      <4>10. QED BY <4>9
    <3>5. CASE Head(todo).kind = "bytes" /\ Head(todo).n > 0
      <4>1. num_bytes + Len(acc) = Head(todo).n
        BY <1>1, <3>5 DEF Requested
      <4> DEFINE k == IF Head(todo).n < Len(rest) THEN Head(todo).n ELSE Len(rest)
      <4>2. Head(todo).n \in Int /\ Len(rest) \in Nat
        BY <1>1, <1>4, <1>7, <4>1
      <4>3. k = Len(all)
        <5>1. CASE n = num_bytes
          <6>1. Len(all) = Head(todo).n
            BY <1>1, <1>9, <4>1, <5>1
          <6>2. QED BY <1>11, <4>2, <6>1
        <5>2. CASE n = Len(Rest) /\ n <= num_bytes
          <6>1. Len(all) = Len(rest)
            BY <1>7, <1>9, <5>2
          <6>2. Len(all) <= Head(todo).n
            BY <1>1, <1>5, <1>9, <4>1, <5>2
          <6>3. QED BY <4>2, <6>1, <6>2
        <5>3. QED BY <3>3, <5>1, <5>2
      <4>4. Stream!AnswerTo(Head(todo), rest)
            = Stream!Answer(SubSeq(rest, 1, k), k, k > 0, k < Head(todo).n)
        <5>1. /\ Head(todo).kind = "bytes" /\ Head(todo).n > 0 /\ Head(todo).n # 0
              /\ Head(todo).kind \notin {"line", "all", "number"}
          BY <3>5, <4>2
        <5>2. QED BY <5>1 DEF Stream!AnswerTo
      <4> HIDE DEF k
      <4>5. ok = (k > 0)
        <5>1. Head(todo).kind # "all"
          BY <3>5
        <5>2. all # <<>> <=> Len(all) > 0
          BY <1>9, <1>11, EmptySeq
        <5>3. QED BY <4>3, <5>1, <5>2
      <4>6. (n < ReadCount) = (k < Head(todo).n)
        <5>1. CASE n < ReadCount
          <6>1. n < num_bytes
            BY <1>1, <1>2, <1>5, <5>1
          <6>2. QED BY <1>1, <1>5, <1>9, <4>1, <4>2, <4>3, <5>1, <6>1
        <5>2. CASE ~(n < ReadCount)
          <6>1. num_bytes - n = 0
            BY <1>2, <1>5, <1>6, <1>13, <5>2 DEF ReadAgain
          <6>2. QED BY <1>1, <1>5, <1>9, <4>1, <4>2, <4>3, <5>2, <6>1
        <5>3. QED BY <5>1, <5>2
      <4> DEFINE met == n < ReadCount
      <4>7. Stream!AnswerTo(Head(todo), rest) = Stream!Answer(all, Len(all), ok, met)
        BY <1>11, <4>3, <4>4, <4>5, <4>6
      <4>8. eof' = met /\ met \in BOOLEAN
        BY <3>1
      <4> HIDE DEF ok, met
      <4>9. Stream!Next
        BY <1>1, <1>10, <2>1, <2>2, <3>1, <4>7, <4>8, Serves DEF rest
      <4>10. QED BY <4>9
    <3>6. QED BY <1>1, <3>4, <3>5
  <2>5. QED BY <1>3, <2>3, <2>4 DEF got
<1>14. QED BY <1>12, <1>13

\* A call of fgets that ends a line, or finds nothing more, is the answer.
LEMMA ReadLineServes ==
  ASSUME NUL \notin Bytes, SInv, ReadLine
  PROVE  Stream!Next \/ UNCHANGED Stream!vars
<1> DEFINE got == Fgets(Chunk)
           rest == Stream!Rest
<1>1. /\ pc = "line" /\ todo # <<>> /\ data' = data /\ Types
      /\ acc \in Seq(Bytes) /\ Len(acc) \in Nat /\ pos \in Nat /\ Len(acc) <= pos
      /\ \A i \in 1..Len(acc) : acc[i] # NL
      /\ failed = FALSE /\ Head(todo).kind = "line" /\ eof \in BOOLEAN
      /\ (eof => acc # <<>>) /\ outcome = "pending"
  BY LenProperties DEF ReadLine, SInv, IInv, Types, LineInPlace, Loops
<1>2. /\ Text(got) = got /\ got \in Seq(Bytes) /\ Len(got) \in 0..Len(Rest)
      /\ \A i \in 1..Len(got) : got[i] = Rest[i]
      /\ \A i \in 1..Len(got) - 1 : got[i] # NL
      /\ ~Stopped(got) => Len(got) = Len(Ahead)
  BY <1>1, LineText
<1>3. /\ Rest \in Seq(Bytes) /\ Len(Rest) \in Nat
      /\ (Ahead # <<>> => ~eof) /\ (~eof => Ahead = Rest)
  BY <1>1, RestIsPart, AheadIsPart, LenProperties DEF Types
<1> HIDE DEF Ahead
<1>14. Answered = eof
  BY <1>1 DEF Answered
<1>4. ~eof =>
      /\ rest \in Seq(Bytes) /\ Len(rest) = Len(acc) + Len(Rest)
      /\ \A i \in 1..Len(acc) : rest[i] = acc[i]
      /\ \A i \in 1..Len(Rest) : rest[Len(acc) + i] = Rest[i]
  BY <1>1, <1>14, UnreadIs
<1>5. ~eof => Unread = pos - Len(acc) /\ Unread \in Nat
  BY <1>1, <1>14, Seen
<1>6. /\ Head(todo).kind # "bad" /\ pc # "idle"
      /\ Head(todo).kind \notin {"bytes", "all", "number"}
      /\ ~Stream!IsTest(Head(todo))
  BY <1>1 DEF Stream!IsTest
<1>7. ASSUME NEW s
      PROVE  Stream!AnswerTo(Head(todo), s)
             = LET line == Stream!Until(s, {NL})
               IN  Stream!Answer(line, IF line = s THEN Len(line) ELSE Len(line) + 1,
                                 s # <<>>, line = s)
  BY <1>1, <1>6 DEF Stream!AnswerTo
<1>15. ASSUME NEW s \in Seq(Bytes), \A i \in 1..Len(s) : s[i] # NL
      PROVE  Stream!AnswerTo(Head(todo), s) = Stream!Answer(s, Len(s), s # <<>>, TRUE)
  <2>1. /\ Len(s) \in 0..Len(s) /\ Len(s) \in Nat
        /\ \A i \in 1..Len(s) : s[i] \notin {NL}
    BY <1>15, LenProperties
  <2>2. SubSeq(s, 1, Len(s)) = s
    BY <2>1, PartIs
  <2>3. Stream!Until(s, {NL}) = s
    BY <2>1, <2>2, SpanIs
  <2>4. QED BY <1>7, <2>3
<1>8. ~eof => SubSeq(rest, 1, Len(acc)) = acc
  BY <1>1, <1>3, <1>4, PartIs
<1>9. CASE /\ Ahead # <<>> /\ Succeeds(got, ~Stopped(got)) /\ LineEnds(got)
           /\ Put(acc \o First(got, Len(got) - 1), TRUE)
  <2> HIDE DEF got, rest
  <2> DEFINE m == Len(acc) + Len(got) - 1
             piece == First(got, Len(got) - 1)
             line == acc \o piece
  <2>0. ~eof
    BY <1>3, <1>9
  <2>1. Len(got) \in Nat /\ Len(got) > 0 /\ Len(got) <= Len(Rest) /\ got[Len(got)] = NL
    BY <1>2, <1>3, <1>9, EmptySeq DEF LineEnds
  <2>2. m \in 0..Len(rest) /\ m < Len(rest)
    BY <1>1, <1>3, <1>4, <2>0, <2>1
  <2>3. \A i \in 1..m : rest[i] \notin {NL}
    <3> SUFFICES ASSUME NEW i \in 1..m PROVE rest[i] # NL
      OBVIOUS
    <3>1. CASE i <= Len(acc)
      BY <1>1, <1>4, <2>0, <2>1, <3>1
    <3>2. CASE ~(i <= Len(acc))
      <4>1. /\ i - Len(acc) \in 1..Len(got) - 1 /\ i - Len(acc) \in 1..Len(Rest)
            /\ i - Len(acc) \in 1..Len(got) /\ Len(acc) + (i - Len(acc)) = i
        BY <1>1, <1>3, <2>1, <3>2
      <4>2. rest[Len(acc) + (i - Len(acc))] = got[i - Len(acc)]
        BY <1>2, <1>4, <2>0, <4>1
      <4>3. QED BY <1>2, <4>1, <4>2
    <3>3. QED BY <3>1, <3>2
  <2>4. rest[m + 1] \in {NL}
    <3>1. m + 1 = Len(acc) + Len(got) /\ Len(got) \in 1..Len(Rest) /\ Len(got) \in 1..Len(got)
      BY <1>1, <1>3, <2>1
    <3>2. rest[Len(acc) + Len(got)] = got[Len(got)]
      BY <1>2, <1>4, <2>0, <3>1
    <3>3. QED BY <2>1, <3>1, <3>2
  <2>5. piece \in Seq(Bytes) /\ Len(piece) = Len(got) - 1
        /\ \A i \in 1..Len(got) - 1 : piece[i] = got[i]
    <3>1. Len(got) - 1 \in 0..Len(got) /\ Len(got) - 1 \in Int
      BY <2>1
    <3>2. QED BY ONLY <1>2, <3>1, FirstIsPart
  <2> HIDE DEF piece
  <2>6. /\ line \in Seq(Bytes) /\ Len(line) = Len(acc) + (Len(got) - 1)
        /\ \A i \in 1..Len(acc) + (Len(got) - 1) :
             line[i] = IF i <= Len(acc) THEN acc[i] ELSE piece[i - Len(acc)]
    <3>1. /\ line \in Seq(Bytes) /\ Len(line) = Len(acc) + Len(piece)
          /\ \A i \in 1..Len(acc) + Len(piece) :
               line[i] = IF i <= Len(acc) THEN acc[i] ELSE piece[i - Len(acc)]
      BY <1>1, <2>5, ConcatProperties
    <3> HIDE DEF line
    <3>2. QED BY <2>5, <3>1
  <2>7. Len(line) = m
    BY <1>1, <2>1, <2>6
  <2>8. \A i \in 1..Len(line) : line[i] = rest[i]
    <3> SUFFICES ASSUME NEW i \in 1..Len(line) PROVE line[i] = rest[i]
      OBVIOUS
    <3>0. i \in 1..Len(acc) + (Len(got) - 1)
      BY <2>6
    <3>1. CASE i <= Len(acc)
      BY <1>1, <1>4, <2>0, <2>1, <2>6, <3>0, <3>1
    <3>2. CASE ~(i <= Len(acc))
      <4>1. /\ i - Len(acc) \in 1..Len(got) - 1 /\ i - Len(acc) \in 1..Len(Rest)
            /\ i - Len(acc) \in 1..Len(got) /\ Len(acc) + (i - Len(acc)) = i
        BY <1>1, <1>3, <2>1, <3>0, <3>2
      <4>2. rest[Len(acc) + (i - Len(acc))] = got[i - Len(acc)]
        BY <1>2, <1>4, <2>0, <4>1
      <4>3. line[i] = got[i - Len(acc)]
        BY <2>5, <2>6, <3>0, <3>2, <4>1
      <4>4. QED BY <4>1, <4>2, <4>3
    <3>3. QED BY <3>1, <3>2
  <2> HIDE DEF line
  <2>9. Stream!Until(rest, {NL}) = SubSeq(rest, 1, m)
    <3> HIDE DEF m
    <3>1. QED BY <1>4, <2>0, <2>2, <2>3, <2>4, SpanIs
  <2>10. SubSeq(rest, 1, m) = line
    <3> HIDE DEF m
    <3>1. Len(line) <= Len(rest)
      BY <2>2, <2>7
    <3>2. SubSeq(rest, 1, Len(line)) = line
      BY <1>4, <2>0, <2>6, <2>8, <3>1, PartIs
    <3>3. QED BY <2>7, <3>2
  <2>11. line # rest /\ rest # <<>> /\ Len(line) + 1 = Len(acc) + Len(got)
    <3>1. rest # <<>>
      BY <1>1, <1>3, <1>4, <2>0, <2>1, EmptySeq
    <3>2. QED BY <1>1, <2>1, <2>2, <2>7, <3>1
  <2>12. Stream!AnswerTo(Head(todo), rest)
         = Stream!Answer(line, Len(line) + 1, rest # <<>>, line = rest)
    BY <1>7, <2>9, <2>10, <2>11
  <2>13. Stream!AnswerTo(Head(todo), rest) = Stream!Answer(line, Len(line) + 1, TRUE, FALSE)
    <3>1. (rest # <<>>) = TRUE /\ (line = rest) = FALSE
      BY <2>11
    <3>2. QED BY <2>12, <3>1
  <2>14. pos' = Unread + (Len(line) + 1) /\ pos' \in Nat
    <3>1. pos' = pos + Len(got)
      BY <1>9 DEF Succeeds
    <3>2. QED BY <1>1, <1>5, <2>0, <2>1, <2>11, <3>1
  <2>15. Put(line, TRUE) /\ TRUE \in BOOLEAN
    BY <1>9 DEF line, piece
  <2>16. UNCHANGED <<data, errors>> /\ failed' = FALSE /\ eof' = FALSE /\ FALSE \in BOOLEAN
    BY <1>1, <1>9 DEF Succeeds, Stopped
  <2>17. Stream!Next
    BY <1>1, <1>6, <1>14, <2>0, <2>13, <2>14, <2>15, <2>16, Serves DEF rest
  <2>18. QED BY <2>17
<1>10. CASE /\ Ahead # <<>> /\ ~LineEnds(got) /\ acc' = acc \o got
            /\ UNCHANGED <<pc, num_bytes, call>>
  <2>1. pc' = "line"
    BY <1>1, <1>10
  <2>2. /\ acc' = acc \o got /\ pos' = pos + Len(got) /\ LineInPlace'
        /\ eof' = ~Stopped(got) /\ acc' # <<>>
        /\ UNCHANGED <<pc, num_bytes, call, failed, errors, data>>
    BY <2>1, ReadLineOn
  <2>3. /\ Len(acc') = Len(acc) + Len(got) /\ Len(got) \in Nat /\ acc' \in Seq(Bytes)
        /\ \A i \in 1..Len(acc) + Len(got) :
             acc'[i] = IF i <= Len(acc) THEN acc[i] ELSE got[i - Len(acc)]
    BY <1>1, <1>2, <2>2, ConcatProperties, LenProperties
  <2>4. ~eof
    BY <1>3, <1>10
  <2>5. Broken' = Broken /\ Broken' = FALSE
    BY <1>1, <2>2 DEF Broken, call
  <2>6. CASE Stopped(got)
    <3>1. pos' - Len(acc') = pos - Len(acc)
      BY <1>1, <2>2, <2>3
    <3>2. ~Answered' /\ eof' = eof
      BY <1>1, <2>2, <2>4, <2>6 DEF Answered
    <3>3. UNCHANGED <<Unread, Left, Given>>
      BY <1>1, <1>5, <1>14, <2>1, <2>2, <2>4, <3>1, <3>2, Seen DEF call
    <3>4. UNCHANGED Stream!vars
      BY <2>2, <2>5, <3>2, <3>3 DEF Stream!vars, call
    <3>5. QED BY <3>4
  <2>7. CASE ~Stopped(got)
    <3>1. Answered' /\ eof' = TRUE
      BY <2>1, <2>2, <2>7 DEF Answered
    <3>2. Unread' = pos' /\ Left' = Tail(todo) /\ Given' = Append(results, acc')
      <4>1. pos' \in Nat
        BY <1>1, <2>2, <2>3
      <4>2. Unread' = pos' - 0
        BY <3>1 DEF Unread
      <4>4. pos' - 0 = pos'
        <5>1. \A x \in Nat : x - 0 = x
          OBVIOUS
        <5>2. QED BY ONLY <4>1, <5>1
      <4>3. Left' = Tail(todo) /\ Given' = Append(results, acc')
        BY <2>2, <3>1 DEF Left, Given, call
      <4>5. QED BY <4>2, <4>3, <4>4
    <3>3. rest = acc'
      <4>1. Len(rest) = Len(acc) + Len(got) /\ Len(got) = Len(Rest)
        BY <1>2, <1>3, <1>4, <2>4, <2>7
      <4>2. ASSUME NEW i \in 1..Len(rest) PROVE rest[i] = acc'[i]
        <5> HIDE DEF rest, got
        <5>1. i \in 1..Len(acc) + Len(got)
          BY <4>1
        <5>2. CASE i <= Len(acc)
          BY <1>1, <1>4, <2>3, <2>4, <5>1, <5>2
        <5>3. CASE ~(i <= Len(acc))
          <6>1. /\ i - Len(acc) \in 1..Len(Rest) /\ i - Len(acc) \in 1..Len(got)
                /\ Len(acc) + (i - Len(acc)) = i
            BY <1>1, <1>3, <4>1, <5>1, <5>3
          <6>2. rest[Len(acc) + (i - Len(acc))] = Rest[i - Len(acc)]
            BY <1>4, <2>4, <6>1
          <6>3. QED BY <1>2, <2>3, <5>1, <5>3, <6>1, <6>2
        <5>4. QED BY <5>2, <5>3
      <4> HIDE DEF rest, got
      <4>3. QED BY <1>4, <2>3, <2>4, <4>1, <4>2, SeqEqual
    <3>4. \A i \in 1..Len(acc') : acc'[i] # NL
      BY <2>1, <2>2 DEF LineInPlace
    <3> DEFINE a == Stream!AnswerTo(Head(todo), rest)
    <3>5. a = Stream!Answer(acc', Len(acc'), acc' # <<>>, TRUE)
      BY <1>15, <2>3, <3>3, <3>4
    <3> HIDE DEF a
    <3>6. a.value = acc' /\ a.length = Len(acc') /\ a.ok = TRUE /\ a.met = TRUE
      <4>1. (acc' # <<>>) = TRUE
        BY <2>2
      <4>2. a = Stream!Answer(acc', Len(acc'), TRUE, TRUE)
        BY <3>5, <4>1
      <4>3. QED BY <4>2 DEF Stream!Answer
    <3>7. Left = todo /\ Given = results /\ outcome' = outcome
      BY <1>14, <2>2, <2>4, Seen DEF call
    <3>8. Unread' = Unread + a.length
      BY <1>1, <1>5, <2>2, <2>3, <2>4, <3>2, <3>6
    <3>9. Stream!Put(a.value, a.ok)
      BY <2>2, <3>2, <3>6, <3>7 DEF Stream!Put
    <3>10. Stream!Serve
      BY <1>1, <1>6, <2>2, <2>5, <3>1, <3>6, <3>7, <3>8, <3>9 DEF Stream!Serve, a, rest
    <3>11. QED BY <3>10 DEF Stream!Next
  <2>8. QED BY <2>6, <2>7
<1>11. CASE Ahead = <<>> /\ Succeeds(<<>>, TRUE) /\ Put(acc, acc # <<>>)
  <2> HIDE DEF rest
  <2>0. /\ pos' = pos /\ eof' = TRUE /\ UNCHANGED <<data, errors, failed>> /\ pc' = "format"
        /\ results' = Append(results, IF acc # <<>> THEN acc ELSE Nil)
        /\ todo' = (IF acc # <<>> THEN Tail(todo) ELSE <<>>) /\ outcome' = outcome
    <3>1. pos' = pos + Len(<<>>) /\ Len(<<>>) = 0
      BY <1>11, EmptySeq DEF Succeeds
    <3>2. QED BY <1>1, <1>11, <3>1 DEF Succeeds, Put
  <2>1. CASE eof
    <3>1. Unread = pos /\ Left = Tail(todo) /\ Given = Append(results, acc)
      BY <1>1, <1>14, <2>1 DEF Unread, Left, Given
    <3>2. Unread' = pos' /\ Left' = todo' /\ Given' = results'
      BY <1>1, <2>0, Seen
    <3>3. Broken' = FALSE /\ Broken = FALSE
      BY <1>1, <2>0 DEF Broken
    <3>4. UNCHANGED Stream!vars
      BY <1>1, <2>0, <2>1, <3>1, <3>2, <3>3 DEF Stream!vars
    <3>5. QED BY <3>4
  <2>2. CASE ~eof
    <3>1. rest = acc
      <4>1. Len(rest) = Len(acc)
        BY <1>1, <1>3, <1>4, <1>11, <2>2, EmptySeq
      <4>2. QED BY <1>1, <1>4, <2>2, <4>1, SeqEqual
    <3> DEFINE ok == acc # <<>>
    <3>2. Stream!AnswerTo(Head(todo), rest) = Stream!Answer(acc, Len(acc), ok, TRUE)
      BY <1>1, <1>15, <3>1
    <3>3. /\ pos' = Unread + Len(acc) /\ pos' \in Nat /\ ok \in BOOLEAN /\ TRUE \in BOOLEAN
          /\ Put(acc, ok)
      BY <1>1, <1>5, <1>11, <2>0, <2>2
    <3> HIDE DEF ok
    <3>4. Stream!Next
      BY <1>1, <1>6, <1>14, <2>0, <2>2, <3>2, <3>3, Serves DEF rest
    <3>5. QED BY <3>4
  <2>3. QED BY <1>1, <2>1, <2>2
<1>12. ASSUME ~eof, NEW taken \in 0..Len(got), Fails(taken), Put(acc, acc # <<>>)
       PROVE  Stream!Next
  <2> HIDE DEF got, rest
  <2> DEFINE ok == acc # <<>>
  <2>1. errors' = errors + 1 /\ failed' = TRUE /\ pos' = pos + taken /\ eof' = FALSE
    BY <1>12 DEF Fails
  <2>2. failed' = ~Stream!IsTest(Head(todo))
    BY <1>6, <2>1
  <2>3. taken \in Nat /\ taken <= Len(Rest)
    BY <1>2, <1>3, <1>12
  <2>4. /\ Len(acc) + taken \in 0..Len(rest) /\ Len(acc) \in 0..Len(acc) + taken
        /\ pos' \in Nat /\ pos' = Unread + (Len(acc) + taken)
    BY <1>1, <1>3, <1>4, <1>5, <1>12, <2>1, <2>3
  <2>5. Stream!AnswerTo(Head(todo), SubSeq(rest, 1, Len(acc)))
        = Stream!Answer(acc, Len(acc), ok, TRUE)
    BY <1>1, <1>8, <1>15, <1>12
  <2>6. ok \in BOOLEAN /\ Put(acc, ok)
    BY <1>12
  <2> HIDE DEF ok
  <2>7. QED BY <1>1, <1>6, <1>14, <1>12, <2>1, <2>2, <2>4, <2>5, <2>6, ServesLess DEF rest
<1>16. QED BY <1>1, <1>2, <1>9, <1>10, <1>11, <1>12 DEF ReadLine

LEMMA NextImplementsStream ==
  ASSUME NUL \notin Bytes, SInv, [Next]_vars
  PROVE  [Stream!Next]_Stream!vars
<1>0. pos \in Nat
  BY DEF SInv, IInv, Types
<1>1. CASE TestEnd
  BY <1>1, TestEndServes
<1>2. CASE BeginBytes \/ BeginAll \/ BeginLine
  <2>1. /\ pc = "format" /\ todo # <<>> /\ pc' \in {"bytes", "line"} /\ acc' = <<>>
        /\ eof' = FALSE /\ UNCHANGED <<data, pos, errors, call>>
        /\ outcome = "pending"
    BY <1>2 DEF BeginBytes, BeginAll, BeginLine, Format, Begin, SInv, Loops
  <2>2. ~Stream!IsTest(Head(todo))
    BY <1>2 DEF BeginBytes, BeginAll, BeginLine, Format, Stream!IsTest
  <2>3. ~Answered' /\ Unread = pos /\ Left = todo /\ Given = results
    BY <1>0, <2>1, Seen DEF Answered
  <2>4. Unread' = pos /\ Left' = todo /\ Given' = results
    BY <1>0, <2>1, <2>3, Seen, EmptySeq DEF call
  <2>5. Broken' = Broken
    BY <2>1 DEF Broken, call
  <2>6. Stream!Look
    BY <2>1, <2>2, <2>3, <2>4, <2>5 DEF Stream!Look, call
  <2>7. QED BY <2>6 DEF Stream!Next
<1>3. CASE ReadNumber
  BY <1>3, ReadNumberServes
<1>4. CASE Raise
  <2>1. /\ pc = "format" /\ pc' = "idle" /\ outcome = "pending" /\ outcome' = "raised"
        /\ todo # <<>> /\ Head(todo).kind = "bad"
        /\ UNCHANGED <<data, pos, eof, failed, errors, todo, results>>
    BY <1>4 DEF Raise, Format, SInv, Loops
  <2>2. Left = todo /\ UNCHANGED <<Unread, Left, Given>>
    BY <1>0, <2>1, Seen
  <2>3. Broken' = Broken
    BY <2>1 DEF Broken
  <2>4. Stream!Raise
    BY <2>1, <2>2, <2>3 DEF Stream!Raise
  <2>5. QED BY <2>4 DEF Stream!Next
<1>5. CASE Return
  <2>1. /\ pc = "format" /\ pc' = "idle" /\ outcome = "pending" /\ todo = <<>>
        /\ outcome' = IF failed THEN "error" ELSE "values"
        /\ UNCHANGED <<data, pos, eof, failed, errors, todo, results>>
    BY <1>5 DEF Return, SInv, Loops
  <2>2. Left = todo /\ UNCHANGED <<Unread, Left, Given>>
    BY <1>0, <2>1, Seen
  <2>3. Broken' = Broken
    BY <2>1 DEF Broken
  <2>4. outcome' = IF Broken THEN "error" ELSE "values"
    BY <2>1 DEF Broken
  <2>5. Stream!Return
    BY <2>1, <2>2, <2>3, <2>4 DEF Stream!Return
  <2>6. QED BY <2>5 DEF Stream!Next
<1>6. CASE ReadBytes
  BY <1>6, ReadBytesServes
<1>7. CASE ReadLine
  BY <1>7, ReadLineServes
<1>8. ASSUME NEW formats \in Calls, Call(formats) PROVE Stream!Next
  <2>1. /\ pc = "idle" /\ pc' = "format" /\ todo' = formats /\ results' = <<>>
        /\ outcome # "pending" /\ outcome' = "pending"
        /\ UNCHANGED <<data, pos, eof, failed, errors>>
    BY <1>8 DEF Call, SInv, Loops
  <2>2. formats \in Seq(Formats) \ {<<>>}
    <3>1. PICK n \in 1..MaxFormats : formats \in [1..n -> Formats]
      BY DEF Calls
    <3>2. n \in Nat /\ n > 0 /\ Len(formats) = n
      BY <3>1, SizesAssumption
    <3>3. QED BY <3>2, CallTypes, EmptySeq
  <2>3. Unread' = Unread /\ Left' = formats /\ Given' = <<>>
    BY <1>0, <2>1, Seen
  <2>4. Broken' = FALSE
    BY <2>1, <2>2 DEF Broken
  <2>5. Stream!Call
    BY <2>1, <2>2, <2>3, <2>4 DEF Stream!Call
  <2>6. QED BY <2>5 DEF Stream!Next
<1>9. ASSUME NEW base, NEW offset, SeekTo(base, offset) PROVE Stream!Next
  <2>1. /\ pc = "idle" /\ outcome # "pending" /\ eof' = FALSE
        /\ UNCHANGED <<data, failed, errors, pc, todo, results, outcome>>
    BY <1>9 DEF SeekTo, call, SInv, Loops
  <2>2. pos' \in Nat
    BY <1>9, SizesAssumption DEF SeekTo
  <2>3. Unread' \in Nat /\ Left' = Left /\ Given' = Given
    BY <2>1, <2>2, Seen
  <2>4. Broken' = Broken
    BY <2>1 DEF Broken
  <2>5. Stream!Seek
    BY <2>1, <2>3, <2>4 DEF Stream!Seek
  <2>6. QED BY <2>5 DEF Stream!Next
<1>10. ASSUME NEW b \in Bytes, Grow(b) PROVE Stream!Next
  <2>1. /\ data' = Append(data, b)
        /\ UNCHANGED <<pos, eof, failed, errors, pc, acc, todo, results, outcome>>
    BY <1>10 DEF Grow, call
  <2>2. UNCHANGED <<Unread, Left, Given, Broken>>
    BY <2>1 DEF Unread, Left, Given, Broken, Answered
  <2>3. Stream!Grow
    BY <2>1, <2>2 DEF Stream!Grow
  <2>4. QED BY <2>3 DEF Stream!Next
<1>11. CASE UNCHANGED vars
  <2>1. UNCHANGED <<Unread, Left, Given, Broken>>
    BY <1>11 DEF vars, call, Unread, Left, Given, Broken, Answered
  <2>2. QED BY <1>11, <2>1 DEF vars, call, Stream!vars
<1>12. QED
  BY <1>1, <1>2, <1>3, <1>4, <1>5, <1>6, <1>7, <1>8, <1>9, <1>10, <1>11 DEF Next, Step

LEMMA InitStream == Init => Stream!Init
<1> SUFFICES ASSUME Init PROVE Stream!Init
  OBVIOUS
<1>1. data \in Seq(Bytes)
  BY InitIInv DEF IInv, Types
<1>2. Unread = 0 /\ Left = todo /\ Given = results
  BY Seen DEF Init
<1>3. Broken = FALSE
  BY DEF Init, Broken
<1>4. QED BY <1>1, <1>2, <1>3 DEF Init, Stream!Init

\* FileRead implements ByteStream for every buffer size, file, call and error of the
\* device, if the file has no NUL (where strlen would cut a line,
\* LuaBoostFile.cpp:39).
THEOREM ImplementsByteStream ==
  ASSUME NUL \notin Bytes
  PROVE  Spec => StreamSpec
<1>1. SInv /\ [Next]_vars => SInv'
  BY NextSInv
<1>2. SInv /\ [Next]_vars => [Stream!Next]_Stream!vars
  BY NextImplementsStream
<1>3. QED
  BY <1>1, <1>2, InitSInv, InitStream, PTL DEF Spec, StreamSpec, Stream!Spec

-----------------------------------------------------------------------------
(* The types *)

\* What TypeOK says that SInv does not.
Bounds ==
  /\ errors \in 0..MaxErrors /\ num_bytes <= SizeMax
  /\ pc \in {"idle", "format", "bytes", "line"}
  /\ outcome \in {"none", "pending", "values", "error", "raised"}
  /\ \E S : results \in Seq(S)
  /\ Len(results) + Len(todo) <= MaxFormats

LEMMA AppendedOne ==
  ASSUME NEW s, \E S : s \in Seq(S), NEW v
  PROVE  (\E S : Append(s, v) \in Seq(S)) /\ Len(Append(s, v)) = Len(s) + 1
         /\ Len(s) \in Nat
<1>1. PICK S : s \in Seq(S)
  OBVIOUS
<1>2. s \in Seq(S \cup {v}) /\ v \in S \cup {v}
  <2>1. Len(s) \in Nat /\ \A i \in 1..Len(s) : s[i] \in S \cup {v}
    BY <1>1, ElementOfSeq, LenProperties
  <2>2. s \in [1..Len(s) -> S \cup {v}]
    BY <1>1, <2>1, LenProperties
  <2>3. QED BY <2>1, <2>2
<1> DEFINE T == S \cup {v}
<1> HIDE DEF T
<1>3. s \in Seq(T) /\ v \in T
  BY <1>2 DEF T
<1>4. Append(s, v) \in Seq(T) /\ Len(Append(s, v)) = Len(s) + 1
  BY <1>3, AppendProperties
<1>5. QED BY <1>3, <1>4, LenProperties

\* A format that has been answered: one result more, and one format less or none.
LEMMA PutBounds ==
  ASSUME Types, Bounds, todo # <<>>, NEW value, NEW success, Put(value, success),
         errors' \in 0..MaxErrors
  PROVE  Bounds'
<1> DEFINE v == IF success THEN value ELSE Nil
<1>1. /\ results' = Append(results, v) /\ num_bytes' = 0 /\ pc' = "format"
      /\ todo' = (IF success THEN Tail(todo) ELSE <<>>) /\ outcome' = outcome
  BY DEF Put
<1> HIDE DEF v
<1>2. (\E S : results' \in Seq(S)) /\ Len(results') = Len(results) + 1 /\ Len(results) \in Nat
  BY <1>1, AppendedOne DEF Bounds
<1>3. Len(todo) \in Nat /\ Len(todo) > 0
  BY EmptySeq, LenProperties DEF Types
<1>4. Len(todo') <= Len(todo) - 1 /\ Len(todo') \in Nat
  <2>1. CASE success
    BY <1>1, <1>3, <2>1, HeadTailProperties DEF Types
  <2>2. CASE ~success
    BY <1>1, <1>3, <2>2, EmptySeq
  <2>3. QED BY <2>1, <2>2
<1>5. Len(results') + Len(todo') <= MaxFormats
  BY <1>2, <1>3, <1>4, SizesAssumption DEF Bounds
<1>6. num_bytes' <= SizeMax
  BY <1>1, SizesAssumption
<1>7. /\ pc' \in {"idle", "format", "bytes", "line"}
      /\ outcome' \in {"none", "pending", "values", "error", "raised"}
  BY <1>1 DEF Bounds
<1> HIDE DEF v
<1>8. \E S : results' \in Seq(S)
  BY <1>2
<1>9. errors' \in 0..MaxErrors
  OBVIOUS
<1>10. QED BY ONLY <1>5, <1>6, <1>7, <1>8, <1>9, Zenon DEF Bounds

LEMMA NextBounds ==
  ASSUME SInv, Bounds, [Next]_vars
  PROVE  Bounds'
<1>0. Types /\ errors \in 0..MaxErrors /\ errors \in Nat /\ num_bytes \in Nat
  BY SizesAssumption DEF SInv, IInv, Types, Bounds
<1>1. ASSUME NEW taken, Fails(taken) PROVE errors' \in 0..MaxErrors
  BY <1>0, <1>1, SizesAssumption DEF Fails
<1>2. ASSUME NEW got, NEW met, Succeeds(got, met) PROVE errors' \in 0..MaxErrors
  BY <1>0, <1>2 DEF Succeeds
<1>3. CASE TestEnd
  <2>1. errors' \in 0..MaxErrors
    <3>1. errors' = errors \/ (errors < MaxErrors /\ errors' = errors + 1)
      BY <1>3 DEF TestEnd
    <3>2. QED BY <1>0, <3>1, SizesAssumption
  <2>2. todo # <<>> /\ \E value, success : Put(value, success)
    BY <1>3 DEF TestEnd, Format
  <2>3. QED BY <1>0, <2>1, <2>2, PutBounds
<1>4. CASE BeginBytes \/ BeginAll \/ BeginLine
  <2>1. /\ num_bytes' \in {Head(todo).n, SizeMax, 0} /\ pc' \in {"bytes", "line"}
        /\ UNCHANGED <<errors, todo, results, outcome>> /\ todo # <<>>
    BY <1>4 DEF BeginBytes, BeginAll, BeginLine, Begin, Format, call
  <2>2. Head(todo) \in Formats
    BY <1>0, <2>1, HeadTailProperties DEF Types
  <2>3. num_bytes' <= SizeMax
    BY <2>1, <2>2, SizesAssumption
  <2>4. QED BY <2>1, <2>3 DEF Bounds
<1>5. CASE ReadNumber
  <2>1. errors' \in 0..MaxErrors
    BY <1>0, <1>1, <1>5 DEF ReadNumber
  <2>2. todo # <<>> /\ \E value, success : Put(value, success)
    BY <1>5 DEF ReadNumber, Format
  <2>3. QED BY <1>0, <2>1, <2>2, PutBounds
<1>6. CASE Raise
  BY <1>6 DEF Raise, Bounds
<1>7. CASE Return
  BY <1>7 DEF Return, Bounds
<1>8. CASE ReadBytes
  <2>1. errors' \in 0..MaxErrors
    BY <1>1, <1>2, <1>8 DEF ReadBytes
  <2>2. todo # <<>>
    BY <1>0, <1>8 DEF ReadBytes, Types
  <2>3. CASE \E value, success : Put(value, success)
    BY <1>0, <2>1, <2>2, <2>3, PutBounds
  <2>4. CASE UNCHANGED <<pc, call>> /\ \E n \in 0..Len(First(Ahead, ReadCount)) :
                                         num_bytes' = num_bytes - n
    <3>1. ReadCount \in Nat
      BY <1>0, SizesAssumption DEF ReadCount, Least
    <3>2. Len(First(Ahead, ReadCount)) \in Nat
      BY <1>0, <3>1, AheadIsPart, FirstIsPart, LenProperties DEF Types
    <3>3. num_bytes' <= SizeMax
      BY <1>0, <2>4, <3>2, SizesAssumption DEF Bounds
    <3>4. QED BY <2>1, <2>4, <3>3 DEF Bounds, call
  <2>5. QED BY <1>8, <2>3, <2>4 DEF ReadBytes
<1>9. CASE ReadLine
  <2>1. errors' \in 0..MaxErrors
    BY <1>1, <1>2, <1>9 DEF ReadLine
  <2>2. todo # <<>>
    BY <1>0, <1>9 DEF ReadLine, Types
  <2>3. CASE \E value, success : Put(value, success)
    BY <1>0, <2>1, <2>2, <2>3, PutBounds
  <2>4. CASE UNCHANGED <<pc, num_bytes, call>>
    BY <2>1, <2>4 DEF Bounds, call
  <2>5. QED BY <1>9, <2>3, <2>4 DEF ReadLine
<1>10. ASSUME NEW formats \in Calls, Call(formats) PROVE Bounds'
  <2>1. /\ pc' = "format" /\ todo' = formats /\ results' = <<>> /\ outcome' = "pending"
        /\ UNCHANGED <<errors, num_bytes>>
    BY <1>10 DEF Call
  <2>2. Len(formats) \in Nat /\ Len(formats) <= MaxFormats
    <3>1. PICK n \in 1..MaxFormats : formats \in [1..n -> Formats]
      BY DEF Calls
    <3>2. QED BY <3>1, SizesAssumption
  <2>3. (\E S : results' \in Seq(S)) /\ Len(results') = 0
    BY <2>1, EmptySeq
  <2>4. Len(results') + Len(todo') <= MaxFormats
    BY <2>1, <2>2, <2>3
  <2>5. QED BY <2>1, <2>3, <2>4 DEF Bounds
<1>11. ASSUME NEW base, NEW offset, SeekTo(base, offset) PROVE Bounds'
  BY <1>11 DEF SeekTo, Bounds, call
<1>12. ASSUME NEW b \in Bytes, Grow(b) PROVE Bounds'
  BY <1>12 DEF Grow, Bounds, call
<1>13. CASE UNCHANGED vars
  BY <1>13 DEF vars, call, Bounds
<1>14. QED
  BY <1>3, <1>4, <1>5, <1>6, <1>7, <1>8, <1>9, <1>10, <1>11, <1>12, <1>13 DEF Next, Step

LEMMA BoundedSeq ==
  ASSUME NEW S, NEW s \in Seq(S), NEW n \in Nat, Len(s) <= n
  PROVE  s \in UNION {[1..k -> S] : k \in 0..n}
<1>1. Len(s) \in 0..n /\ s \in [1..Len(s) -> S]
  BY LenProperties
<1>2. QED BY <1>1

LEMMA TypesFollow ==
  ASSUME SInv, Bounds, acc = <<>> \/ pc \in {"bytes", "line"}
  PROVE  TypeOK
<1>1. /\ data \in Seq(Bytes) /\ pos \in Nat /\ acc \in Seq(Bytes) /\ num_bytes \in Nat
      /\ todo \in Seq(Formats) /\ (pc \in {"bytes", "line"} => todo # <<>>)
      /\ Len(data) <= MaxLength /\ failed \in BOOLEAN /\ eof \in BOOLEAN
      /\ MaxLength \in Nat /\ MaxFormats \in Nat /\ SizeMax \in Nat
      /\ Len(data) \in Nat /\ Len(acc) \in Nat /\ Len(todo) \in Nat
  BY SizesAssumption, LenProperties DEF SInv, IInv, Types, Loops
<1>2. data \in Strings
  BY <1>1, BoundedSeq DEF Strings
<1>3. Len(acc) <= MaxLength
  <2>1. CASE acc = <<>>
    BY <1>1, <2>1, EmptySeq
  <2>2. CASE acc # <<>>
    BY <1>1, <2>2 DEF SInv, IInv, InPlace, LineInPlace
  <2>3. QED BY <2>1, <2>2
<1>4. acc \in Strings
  BY <1>1, <1>3, BoundedSeq DEF Strings
<1>5. todo \in Calls \cup {<<>>}
  <2> SUFFICES ASSUME todo # <<>> PROVE todo \in Calls
    OBVIOUS
  <2>1. Len(todo) > 0
    BY <1>1, EmptySeq
  <2>2. Len(results) \in Nat
    <3>1. PICK S : results \in Seq(S)
      BY DEF Bounds
    <3>2. QED BY <3>1, LenProperties
  <2>3. Len(todo) \in 1..MaxFormats
    BY <1>1, <2>1, <2>2 DEF Bounds
  <2>4. todo \in [1..Len(todo) -> Formats]
    BY <1>1, LenProperties
  <2>5. QED BY <2>3, <2>4 DEF Calls
<1>6. num_bytes \in 0..SizeMax
  BY <1>1 DEF Bounds
<1>7. QED BY <1>1, <1>2, <1>4, <1>5, <1>6 DEF TypeOK, Bounds

\* Outside the loops nothing is held.
HeldInLoops == acc = <<>> \/ pc \in {"bytes", "line"}

LEMMA NextHeld ==
  ASSUME HeldInLoops, [Next]_vars
  PROVE  HeldInLoops'
  BY DEF HeldInLoops, Next, Step, vars, call, TestEnd, BeginBytes, BeginAll, BeginLine,
         Begin, ReadNumber, Raise, Return, ReadBytes, ReadLine, Call, SeekTo, Grow, Put,
         Format

\* Every reachable state has its types: no count passes SIZE_MAX and no result
\* the length of the file, if the file has no NUL.
THEOREM TypeCorrect ==
  ASSUME NUL \notin Bytes
  PROVE  Spec => []TypeOK
<1> DEFINE Inv == SInv /\ Bounds /\ HeldInLoops
<1>1. Init => Inv
  <2> SUFFICES ASSUME Init PROVE Inv
    OBVIOUS
  <2>1. (\E S : results \in Seq(S)) /\ Len(results) = 0 /\ Len(todo) = 0
    BY EmptySeq DEF Init
  <2>2. errors \in 0..MaxErrors /\ num_bytes <= SizeMax
    BY SizesAssumption DEF Init
  <2>3. Bounds
    BY <2>1, <2>2, SizesAssumption DEF Init, Bounds
  <2>4. QED BY <2>3, InitSInv DEF Init, HeldInLoops
<1>2. Inv /\ [Next]_vars => Inv'
  BY NextSInv, NextBounds, NextHeld
<1>3. Inv => TypeOK
  BY TypesFollow DEF HeldInLoops
<1>4. QED
  BY <1>1, <1>2, <1>3, PTL DEF Spec

=============================================================================
