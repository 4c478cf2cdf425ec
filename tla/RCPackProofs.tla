---------------------------- MODULE RCPackProofs ----------------------------
(***************************************************************************)
(* The pack, for every tree of files, every config, every order of the     *)
(* hash tables and every change of the disk while rcgen runs:              *)
(*   - no two files share a byte of the data block, and the bytes of each  *)
(*     land where the table says;                                          *)
(*   - every file that was accepted is in the builder's tree;              *)
(*   - the program reads the table to its end and no further, and builds   *)
(*     the same tree from it;                                              *)
(*   - what it gets for a path are the bytes of the file last added there. *)
(***************************************************************************)
(* The third rests on a history of the stack of writeFile: after as many   *)
(* items Root::Root's stack says what writeFile's said, and its tree has   *)
(* every node that was not below one that was left to write.               *)
(***************************************************************************)
EXTENDS RCPack, SequenceTheorems, FiniteSetTheorems, TLAPS

\* The part of TypeOK that the layout depends on.
LayoutType ==
  /\ disk \in [Sources -> Sizes \cup {Gone}]
  /\ todo \in [base : Bases \cup {<<>>}, files : SUBSET Sources]
  /\ files \in Seq(Collected)

\* No two files share a byte of the data block (RCBuilder.cpp:289).
RangesDisjoint ==
  \A j \in 1..Len(files) : \A i \in 1..j-1 :
    files[i].offset + files[i].size <= files[j].offset

\* RangesDisjoint is inductive as it stands: each file starts where the one
\* before it ends, and no size is negative.
LayoutInv == LayoutType /\ RangesDisjoint

\* The next offset lies behind every file collected so far.
LEMMA NextOffsetBehind ==
  ASSUME LayoutInv
  PROVE  /\ NextOffset \in Nat
         /\ \A i \in 1..Len(files) :
              files[i].offset + files[i].size <= NextOffset
<1>1. /\ files \in Seq(Collected) /\ Len(files) \in Nat
      /\ \A i \in 1..Len(files) : files[i] \in Collected
  BY DEF LayoutInv, LayoutType
<1>2. \A i \in 1..Len(files) : files[i].offset \in Nat /\ files[i].size \in Nat
  BY <1>1, DiskAssumption DEF Collected
<1>3. CASE files = <<>>
  BY <1>3 DEF NextOffset
<1>4. CASE files # <<>>
  <2>1. Len(files) \in 1..Len(files)
    BY <1>1, <1>4
  <2>2. NextOffset = files[Len(files)].offset + files[Len(files)].size
    BY <1>4 DEF NextOffset, Last
  <2>3. \A i \in 1 .. Len(files) - 1 :
          files[i].offset + files[i].size <= files[Len(files)].offset
    BY <2>1 DEF LayoutInv, RangesDisjoint
  <2>4. /\ Len(files) \in Nat
        /\ files[Len(files)].offset \in Nat /\ files[Len(files)].size \in Nat
    BY <1>1, <1>2, <2>1
  <2>5. NextOffset \in Nat /\ files[Len(files)].offset <= NextOffset
    BY ONLY <2>2, <2>4, SMT
  <2>6. ASSUME NEW i \in 1..Len(files)
        PROVE  files[i].offset + files[i].size <= NextOffset
    <3>1. CASE i = Len(files)
      BY <2>2, <2>4, <3>1
    <3>2. CASE i # Len(files)
      <4>1. i \in 1 .. Len(files) - 1
        BY <2>4, <3>2
      <4>2. /\ files[i].offset + files[i].size <= files[Len(files)].offset
            /\ files[i].offset + files[i].size \in Nat
        BY <1>2, <2>3, <4>1
      <4> QED
        BY ONLY <2>4, <2>5, <4>2, SMT
    <3> QED
      BY <3>1, <3>2
  <2> QED
    BY <2>5, <2>6
<1> QED
  BY <1>3, <1>4

\* addFile is the only operation that changes m_EntriesList.
LEMMA AddFileKeepsLayout ==
  ASSUME LayoutInv, NEW s \in Sources, AddFile(s)
  PROVE  LayoutInv'
<1> USE DiskAssumption DEF LayoutInv, LayoutType, Collected
<1>1. CASE UNCHANGED <<todo, files>>
  BY <1>1 DEF AddFile, RangesDisjoint
<1>2. CASE ~UNCHANGED <<todo, files>>
  <2> DEFINE f == [src |-> s, base |-> todo.base, size |-> disk[s],
                   offset |-> NextOffset]
  <2>1. /\ disk[s] # Gone /\ files' = Append(files, f) /\ disk' = disk
        /\ todo' = [todo EXCEPT !.files = @ \ {s}]
    BY <1>2 DEF AddFile
  <2>2. disk[s] \in Sizes
    BY <2>1
  <2>3. f \in Collected
    BY <2>2, NextOffsetBehind
  <2>4. LayoutType'
    BY <2>1, <2>3
  <2>5. RangesDisjoint'
    <3> SUFFICES ASSUME NEW j \in 1..Len(files'), NEW i \in 1..j-1
                 PROVE  files'[i].offset + files'[i].size <= files'[j].offset
      BY DEF RangesDisjoint
    <3> HIDE DEF f
    <3>1. i \in 1..Len(files) /\ files'[i] = files[i]
      BY <2>1, <2>3
    <3>2. CASE j = Len(files) + 1
      <4>1. files'[j] = f
        BY <2>1, <2>3, <3>2
      <4> QED
        BY <3>1, <4>1, NextOffsetBehind DEF f
    <3>3. CASE j \in 1..Len(files)
      <4>1. files'[j] = files[j]
        BY <2>1, <2>3, <3>3
      <4> QED
        BY <3>1, <3>3, <4>1 DEF RangesDisjoint
    <3>4. Len(files) \in Nat /\ Len(files') = Len(files) + 1
      BY <2>1, <2>3, AppendProperties, LenProperties
    <3>5. j = Len(files) + 1 \/ j \in 1..Len(files)
      BY ONLY <3>4, j \in 1..Len(files'), SMT
    <3> QED
      BY <3>2, <3>3, <3>5
  <2> QED
    BY <2>4, <2>5
<1> QED
  BY <1>1, <1>2

\* Every other step leaves the files alone.
LEMMA StepKeepsLayout == LayoutInv /\ [Next]_vars => LayoutInv'
<1> SUFFICES ASSUME LayoutInv, [Next]_vars
             PROVE  LayoutInv'
  OBVIOUS
<1>1. ASSUME NEW b \in Bases, NEW p \in EntryPaths, NEW rec \in BOOLEAN,
             Entry(b, p, rec)
      PROVE  LayoutInv'
  BY <1>1 DEF Entry, Selected, LayoutInv, LayoutType, RangesDisjoint
<1>2. ASSUME NEW s \in Sources, AddFile(s)
      PROVE  LayoutInv'
  BY <1>2, AddFileKeepsLayout
<1>3. ASSUME NEW s \in Sources, SkipFile(s)
      PROVE  LayoutInv'
  BY <1>3 DEF SkipFile, LayoutInv, LayoutType, RangesDisjoint
<1>4. ASSUME NEW s \in Sources, NEW size \in Sizes \cup {Gone},
             DiskChanges(s, size)
      PROVE  LayoutInv'
  BY <1>4 DEF DiskChanges, builder, LayoutInv, LayoutType, RangesDisjoint
<1>5. CASE UNCHANGED <<disk, todo, files>>
  BY <1>5 DEF LayoutInv, LayoutType, RangesDisjoint
<1>6. CASE CannotWrite
  BY <1>5, <1>6 DEF CannotWrite, builder
<1>7. ASSUME NEW children, BeginWrite(children)
      PROVE  LayoutInv'
  BY <1>5, <1>7 DEF BeginWrite, builder
<1>8. ASSUME NEW children, WriteItem(children)
      PROVE  LayoutInv'
  BY <1>5, <1>8 DEF WriteItem, builder
<1>9. CASE EndToc
  BY <1>5, <1>9 DEF EndToc, builder
<1>10. CASE WriteData
  BY <1>5, <1>10 DEF WriteData, builder
<1>11. CASE BeginLoad
  BY <1>5, <1>11 DEF BeginLoad, builder
<1>12. CASE ParseItem
  BY <1>5, <1>12 DEF ParseItem, builder
<1>13. CASE UNCHANGED vars
  BY <1>5, <1>13 DEF vars, builder
<1> QED
  BY <1>1, <1>2, <1>3, <1>4, <1>6, <1>7, <1>8, <1>9, <1>10, <1>11, <1>12,
     <1>13 DEF Next, Stopped

\* No two files of a pack share a byte of the data block, whatever files are
\* collected in whatever order (RCBuilder.cpp:289).
THEOREM LayoutDisjoint == Spec => []RangesDisjoint
<1>1. Init => LayoutInv
  BY DEF Init, LayoutInv, LayoutType, RangesDisjoint
<1>2. LayoutInv => RangesDisjoint
  BY DEF LayoutInv
<1> QED
  BY <1>1, <1>2, StepKeepsLayout, PTL DEF Spec

-----------------------------------------------------------------------------
(* The bytes *)

ByteValues == [src : Sources, at : Nat] \cup {Stale}

\* Each file begins where the one before it ends, the first at 0.
Contiguous ==
  /\ files # <<>> => files[1].offset = 0
  /\ \A j \in 1..Len(files) - 1 : files[j + 1].offset = files[j].offset + files[j].size

\* Until its bytes are written, a file that nobody has touched is what addFile saw.
Unchanged ==
  /\ touched \subseteq 1..Len(files)
  /\ phase \in {"config", "toc", "data"} =>
       \A i \in 1..Len(files) \ Written :
         i \in touched \/ disk[files[i].src] = files[i].size

\* Where the bytes of the file at c belong.
StartOf(c) == IF c <= Len(files) THEN files[c].offset ELSE NextOffset
UpToCursor ==
  /\ data \in Seq(ByteValues)
  /\ phase \in {"config", "toc"} => data = <<>>
  /\ phase = "data" => cursor \in 1..Len(files) + 1 /\ Len(data) = StartOf(cursor)

DataInv == LayoutInv /\ Contiguous /\ Unchanged /\ UpToCursor /\ DataAligned

LEMMA FilesTyped ==
  ASSUME LayoutInv
  PROVE  /\ Len(files) \in Nat /\ (files = <<>> <=> Len(files) = 0)
         /\ \A i \in 1..Len(files) :
              /\ files[i] \in Collected /\ files[i].src \in Sources
              /\ files[i].offset \in Nat /\ files[i].size \in Nat
<1>1. files \in Seq(Collected)
  BY DEF LayoutInv, LayoutType
<1>2. Len(files) \in Nat /\ (files = <<>> <=> Len(files) = 0)
      /\ \A i \in 1..Len(files) : files[i] \in Collected
  BY <1>1, LenProperties, EmptySeq, ElementOfSeq
<1>3. QED BY <1>2, DiskAssumption DEF Collected

\* The steps that leave the data and the files alone, and the phase's part of them.
LEMMA DataStays ==
  ASSUME DataInv, LayoutInv', UNCHANGED <<files, data>>,
         \/ UNCHANGED <<disk, touched>>
         \/ /\ touched \subseteq touched' /\ touched' \subseteq 1..Len(files)
            /\ \A i \in 1..Len(files) \ Written :
                 i \in touched' \/ disk'[files[i].src] = disk[files[i].src],
         \/ phase' \in {"config", "toc"} /\ phase \in {"config", "toc"}
         \/ phase' = "failed"
         \/ phase' = phase /\ cursor' = cursor
         \/ phase' \in {"parse", "loaded"} /\ phase \in {"parse", "loaded"}
  PROVE  DataInv'
<1>1. Contiguous'
  BY DEF DataInv, Contiguous
<1>2. Unchanged'
  <2>1. /\ touched' \subseteq 1..Len(files)
        /\ touched \subseteq touched'
        /\ \A i \in 1..Len(files) \ Written :
             i \in touched' \/ disk'[files[i].src] = disk[files[i].src]
    BY DEF DataInv, Unchanged
  <2>2. phase' \in {"config", "toc", "data"} =>
          phase \in {"config", "toc", "data"} /\ Written' = Written
    BY DEF Written
  <2>3. QED BY <2>1, <2>2 DEF DataInv, Unchanged
<1>3. UpToCursor'
  BY DEF DataInv, UpToCursor, StartOf, NextOffset
<1>5. \A i, k, b : ByteOf(i, k, b) => ByteOf(i, k, b)'
  BY DEF ByteOf
<1>6. Written' \subseteq Written
  BY DEF Written
<1>7. DataAligned'
  BY <1>5, <1>6 DEF DataInv, DataAligned
<1>8. QED BY <1>1, <1>2, <1>3, <1>7 DEF DataInv

LEMMA AddFileKeepsData == ASSUME DataInv, NEW s \in Sources, AddFile(s) PROVE DataInv'
<1>1. LayoutInv' /\ LayoutInv /\ phase = "config" /\ UNCHANGED <<disk, touched, data, cursor>>
  BY AddFileKeepsLayout DEF DataInv, AddFile
<1>2. CASE UNCHANGED files
  BY <1>1, <1>2, DataStays DEF AddFile
<1>3. CASE files' # files
  <2> DEFINE f == [src |-> s, base |-> todo.base, size |-> disk[s], offset |-> NextOffset]
  <2>1. files' = Append(files, f) /\ phase' = phase /\ disk[s] # Gone
    BY <1>1, <1>3 DEF AddFile
  <2>2. f \in Collected
    BY <1>1, <2>1, NextOffsetBehind DEF LayoutInv, LayoutType, Collected
  <2>3. f.offset = NextOffset /\ f.size = disk[s] /\ f.src = s
    OBVIOUS
  <2> HIDE DEF f
  <2>4. files \in Seq(Collected)
    BY <1>1 DEF LayoutInv, LayoutType
  <2>5. /\ Len(files') = Len(files) + 1 /\ Len(files) \in Nat
        /\ \A i \in 1..Len(files) : files'[i] = files[i]
        /\ files'[Len(files) + 1] = f
    BY <2>1, <2>2, <2>4, AppendProperties, LenProperties
  <2>6. Contiguous'
    <3>1. files'[1].offset = 0
      BY <1>1, <2>3, <2>5, FilesTyped DEF DataInv, Contiguous, NextOffset
    <3>2. ASSUME NEW j \in 1..Len(files') - 1
          PROVE  files'[j + 1].offset = files'[j].offset + files'[j].size
      <4>1. CASE j = Len(files)
        <5>1. files # <<>> /\ NextOffset = files[Len(files)].offset + files[Len(files)].size
          BY <1>1, <2>5, <4>1, FilesTyped DEF NextOffset, Last
        <5>2. QED BY <2>3, <2>5, <4>1, <5>1
      <4>2. CASE j \in 1..Len(files) - 1
        BY <2>5, <4>2 DEF DataInv, Contiguous
      <4>3. QED BY <2>5, <4>1, <4>2
    <3>3. QED BY <3>1, <3>2 DEF Contiguous
  <2>7. Unchanged'
    <3>1. /\ touched \subseteq 1..Len(files)
          /\ \A i \in 1..Len(files) : i \in touched \/ disk[files[i].src] = files[i].size
      BY <1>1 DEF DataInv, Unchanged, Written
    <3>2. touched' \subseteq 1..Len(files')
      BY <1>1, <2>5, <3>1
    <3>3. ASSUME NEW i \in 1..Len(files')
          PROVE  i \in touched' \/ disk'[files'[i].src] = files'[i].size
      <4>1. CASE i = Len(files) + 1
        BY <1>1, <2>3, <2>5, <4>1
      <4>2. CASE i \in 1..Len(files)
        BY <1>1, <2>5, <3>1, <4>2
      <4>3. QED BY <2>5, <4>1, <4>2
    <3>4. QED BY <3>2, <3>3 DEF Unchanged
  <2>8. UpToCursor' /\ Written' = {}
    BY <1>1, <2>1 DEF DataInv, UpToCursor, Written
  <2>9. QED BY <1>1, <2>6, <2>7, <2>8 DEF DataInv, DataAligned
<1>4. QED BY <1>2, <1>3

\* A file is written as long as it was when it was added.
LEMMA BytesWritten ==
  ASSUME LayoutInv, NEW i \in 1..Len(files), disk[files[i].src] # Gone
  PROVE  /\ Bytes(files[i]) \in Seq(ByteValues) /\ Len(Bytes(files[i])) = files[i].size
         /\ \A k \in 1..files[i].size :
              \/ Bytes(files[i])[k] = [src |-> files[i].src, at |-> k]
              \/ Bytes(files[i])[k] = Stale /\ disk[files[i].src] # files[i].size
<1>1. files[i].size \in Nat /\ files[i].src \in Sources
  BY FilesTyped
<1>2. disk[files[i].src] \in Nat
  BY <1>1, DiskAssumption DEF LayoutInv, LayoutType
<1>3. Bytes(files[i]) \in [1..files[i].size -> ByteValues]
  BY <1>1 DEF Bytes, ByteValues
<1>4. Bytes(files[i]) \in Seq(ByteValues) /\ Len(Bytes(files[i])) = files[i].size
  BY <1>1, <1>3, SeqDef, LenProperties
<1>5. QED BY <1>1, <1>2, <1>4 DEF Bytes

LEMMA Joined ==
  ASSUME NEW S, NEW s \in Seq(S), NEW d \in Seq(S)
  PROVE  /\ s \o d \in Seq(S) /\ Len(s \o d) = Len(s) + Len(d)
         /\ \A k \in 1..Len(s) : (s \o d)[k] = s[k]
         /\ \A k \in 1..Len(d) : (s \o d)[Len(s) + k] = d[k]
<1>1. Len(s) \in Nat /\ Len(d) \in Nat
  BY LenProperties
<1>2. /\ s \o d \in Seq(S) /\ Len(s \o d) = Len(s) + Len(d)
      /\ \A i \in 1..Len(s) + Len(d) : (s \o d)[i] = IF i <= Len(s) THEN s[i] ELSE d[i - Len(s)]
  BY ConcatProperties
<1>3. \A k \in 1..Len(s) : k \in 1..Len(s) + Len(d) /\ k <= Len(s)
  BY <1>1
<1>4. \A k \in 1..Len(d) : /\ Len(s) + k \in 1..Len(s) + Len(d)
                            /\ ~(Len(s) + k <= Len(s)) /\ Len(s) + k - Len(s) = k
  BY <1>1
<1>5. QED BY <1>2, <1>3, <1>4

LEMMA WriteDataKeeps == ASSUME DataInv, WriteData PROVE DataInv'
<1> DEFINE c == cursor
           f == files[c]
<1>1. /\ LayoutInv /\ phase = "data" /\ c \in 1..Len(files) + 1 /\ c <= Len(files)
      /\ UNCHANGED <<files, disk, touched, todo>>
  BY DEF DataInv, UpToCursor, WriteData, builder
<1>2. LayoutInv'
  BY <1>1 DEF LayoutInv, LayoutType, RangesDisjoint
<1>3. CASE disk[f.src] = Gone
  BY <1>1, <1>2, <1>3, DataStays DEF WriteData
<1>4. CASE disk[f.src] # Gone
  <2>1. /\ Len(files) \in Nat /\ c \in 1..Len(files)
        /\ \A i \in 1..Len(files) : files[i].offset \in Nat /\ files[i].size \in Nat
    BY <1>1, FilesTyped
  <2>2. data' = data \o Bytes(f) /\ cursor' = c + 1 /\ phase' = "data"
    BY <1>1, <1>4 DEF WriteData
  <2>3. data \in Seq(ByteValues) /\ Len(data) \in Nat /\ Len(data) = f.offset
    BY <1>1, <2>1, LenProperties DEF DataInv, UpToCursor, StartOf
  <2>4. /\ Bytes(f) \in Seq(ByteValues) /\ Len(Bytes(f)) = f.size
        /\ \A k \in 1..f.size : \/ Bytes(f)[k] = [src |-> f.src, at |-> k]
                                \/ Bytes(f)[k] = Stale /\ disk[f.src] # f.size
    BY <1>1, <1>4, <2>1, BytesWritten
  <2>5. /\ data' \in Seq(ByteValues) /\ Len(data') = Len(data) + f.size
        /\ \A k \in 1..Len(data) : data'[k] = data[k]
        /\ \A k \in 1..f.size : data'[Len(data) + k] = Bytes(f)[k]
    <3> HIDE DEF f
    <3>1. data \in Seq(ByteValues) /\ Bytes(f) \in Seq(ByteValues)
      BY <2>3, <2>4
    <3> DEFINE S == ByteValues
               d == Bytes(f)
    <3> HIDE DEF S, d
    <3>2. data \in Seq(S) /\ d \in Seq(S)
      BY <3>1 DEF S, d
    <3>3. data \o d \in Seq(S) /\ Len(data \o d) = Len(data) + Len(d)
      BY ONLY <3>2, Joined
    <3>4. \A k \in 1..Len(data) : (data \o d)[k] = data[k]
      BY ONLY <3>2, Joined
    <3>5. \A k \in 1..Len(d) : (data \o d)[Len(data) + k] = d[k]
      BY ONLY <3>2, Joined
    <3>6. QED BY <2>2, <2>4, <3>3, <3>4, <3>5 DEF S, d
  <2>6. Contiguous'
    BY <1>1 DEF DataInv, Contiguous
  <2>7. UpToCursor'
    <3>1. StartOf(cursor)' = f.offset + f.size
      <4>1. CASE c < Len(files)
        BY <1>1, <2>1, <2>2, <4>1 DEF DataInv, Contiguous, StartOf
      <4>2. CASE c = Len(files)
        BY <1>1, <2>1, <2>2, <4>2 DEF StartOf, NextOffset, Last
      <4>3. QED BY <2>1, <4>1, <4>2
    <3>2. QED BY <1>1, <2>1, <2>2, <2>3, <2>5, <3>1 DEF UpToCursor
  <2>8. Written = 1..c - 1 /\ Written' = 1..c
    BY <1>1, <2>1, <2>2 DEF Written
  <2>9. ASSUME NEW i \in 1..c - 1
         PROVE  /\ files[i].offset + files[i].size <= Len(data')
                /\ \A k \in 1..files[i].size :
                     ByteOf(i, k, data'[files[i].offset + k])
    <3>1. /\ files[i].offset + files[i].size <= Len(data)
          /\ \A k \in 1..files[i].size : ByteOf(i, k, data[files[i].offset + k])
      BY <2>8 DEF DataInv, DataAligned
    <3>2. files[i].offset \in Nat /\ files[i].size \in Nat
      BY <2>1
    <3>3. \A k \in 1..files[i].size : files[i].offset + k \in 1..Len(data)
      BY <2>3, <3>1, <3>2
    <3>4. \A k \in 1..files[i].size : data'[files[i].offset + k] = data[files[i].offset + k]
      BY <2>5, <3>3
    <3>5. files[i].offset + files[i].size <= Len(data')
      <4>1. \A a, m, n \in Nat : a <= m => a <= m + n
        OBVIOUS
      <4>2. files[i].offset + files[i].size \in Nat /\ f.size \in Nat
        BY <2>1, <3>2
      <4>3. QED BY <2>3, <2>5, <3>1, <4>1, <4>2
    <3>6. QED BY <3>1, <3>4, <3>5
  <2>10. /\ f.offset + f.size <= Len(data')
         /\ \A k \in 1..f.size : ByteOf(c, k, data'[f.offset + k])
    <3>1. disk[f.src] # f.size => c \in touched
      BY <1>1, <2>1, <2>8 DEF DataInv, Unchanged
    <3>2. \A k \in 1..f.size : ByteOf(c, k, Bytes(f)[k])
      BY <2>4, <3>1 DEF ByteOf
    <3>3. QED BY <2>1, <2>3, <2>5, <3>2
  <2>11. DataAligned'
    <3>1. \A i \in 1..c : i \in 1..c - 1 \/ i = c
      BY <2>1
    <3>2. \A i \in 1..c :
            /\ files[i].offset + files[i].size <= Len(data')
            /\ \A k \in 1..files[i].size :
                 ByteOf(i, k, data'[files[i].offset + k])
      BY <2>9, <2>10, <3>1
    <3>3. QED BY <1>1, <2>8, <3>2 DEF DataAligned, ByteOf
  <2>12. Unchanged'
    <3>1. touched' = touched /\ disk' = disk /\ files' = files
      BY <1>1
    <3>2. \A i \in 1..Len(files) : i \notin 1..c => i \notin 1..c - 1
      BY <2>1
    <3>3. QED BY <1>1, <2>8, <3>1, <3>2 DEF DataInv, Unchanged
  <2>13. QED BY <1>2, <2>6, <2>7, <2>11, <2>12 DEF DataInv
<1>5. QED BY <1>3, <1>4

LEMMA StepKeepsData == DataInv /\ [Next]_vars => DataInv'
<1> SUFFICES ASSUME DataInv, [Next]_vars PROVE DataInv'
  OBVIOUS
<1>0. LayoutInv' /\ LayoutInv
  BY StepKeepsLayout DEF DataInv
<1> USE DEF builder
<1>1. ASSUME NEW b \in Bases, NEW p \in EntryPaths, NEW rec \in BOOLEAN, Entry(b, p, rec)
      PROVE  DataInv'
  BY <1>0, <1>1, DataStays DEF Entry
<1>2. ASSUME NEW s \in Sources, AddFile(s) PROVE DataInv'
  BY <1>2, AddFileKeepsData
<1>3. ASSUME NEW s \in Sources, SkipFile(s) PROVE DataInv'
  BY <1>0, <1>3, DataStays DEF SkipFile
<1>4. ASSUME NEW s \in Sources, NEW size \in Sizes \cup {Gone}, DiskChanges(s, size)
      PROVE  DataInv'
  <2>1. /\ UNCHANGED <<files, data, phase, cursor>>
        /\ touched' = touched \cup {i \in 1..Len(files) \ Written : files[i].src = s}
        /\ disk' = [disk EXCEPT ![s] = size]
    BY <1>4 DEF DiskChanges
  <2>2. touched \subseteq touched' /\ touched' \subseteq 1..Len(files)
    BY <2>1 DEF DataInv, Unchanged
  <2>3. \A i \in 1..Len(files) \ Written :
          i \in touched' \/ disk'[files[i].src] = disk[files[i].src]
    BY <1>0, <2>1, FilesTyped DEF LayoutInv, LayoutType
  <2>4. QED BY <1>0, <2>1, <2>2, <2>3, DataStays
<1>5. CASE CannotWrite
  BY <1>0, <1>5, DataStays DEF CannotWrite
<1>6. ASSUME NEW children, BeginWrite(children) PROVE DataInv'
  BY <1>0, <1>6, DataStays DEF BeginWrite
<1>7. ASSUME NEW children, WriteItem(children) PROVE DataInv'
  BY <1>0, <1>7, DataStays DEF WriteItem
<1>8. CASE EndToc
  <2>1. /\ phase = "toc" /\ phase' = "data" /\ cursor' = 1
        /\ UNCHANGED <<files, data, disk, touched>>
    BY <1>8 DEF EndToc
  <2>2. Written' = {}
    BY <2>1 DEF Written
  <2>3. data = <<>> /\ Len(data) = 0 /\ data \in Seq(ByteValues)
    BY <2>1, EmptySeq DEF DataInv, UpToCursor
  <2>4. StartOf(cursor)' = 0 /\ 1 \in 1..Len(files) + 1
    BY <1>0, <2>1, FilesTyped DEF DataInv, Contiguous, StartOf, NextOffset
  <2>5. UpToCursor'
    BY <2>1, <2>3, <2>4 DEF UpToCursor
  <2>6. Contiguous' /\ Unchanged'
    BY <2>1, <2>2 DEF DataInv, Contiguous, Unchanged, Written
  <2>7. QED BY <1>0, <2>2, <2>5, <2>6 DEF DataInv, DataAligned
<1>9. CASE WriteData
  BY <1>9, WriteDataKeeps
<1>10. CASE BeginLoad
  <2>1. /\ phase = "data" /\ cursor > Len(files) /\ phase' \in {"parse", "loaded"}
        /\ UNCHANGED <<files, data, disk, touched>>
    BY <1>10 DEF BeginLoad
  <2>2. Written' = Written
    BY <1>0, <2>1, FilesTyped DEF DataInv, UpToCursor, Written
  <2>3. Contiguous' /\ Unchanged' /\ UpToCursor'
    BY <2>1 DEF DataInv, Contiguous, Unchanged, UpToCursor
  <2>4. DataAligned'
    BY <2>1, <2>2 DEF DataInv, DataAligned, ByteOf
  <2>5. QED BY <1>0, <2>3, <2>4 DEF DataInv
<1>11. CASE ParseItem
  <2>1. phase = "parse" /\ phase' \in {"parse", "loaded"} /\ UNCHANGED <<files, data, disk, touched>>
    BY <1>11 DEF ParseItem
  <2>2. QED BY <1>0, <2>1, DataStays
<1>12. CASE UNCHANGED vars
  BY <1>0, <1>12, DataStays DEF vars
<1>13. QED
  BY <1>1, <1>2, <1>3, <1>4, <1>5, <1>6, <1>7, <1>8, <1>9, <1>10, <1>11, <1>12
     DEF Next, Stopped

LEMMA DataHolds == Spec => []DataInv
<1>1. Init => DataInv
  <2> SUFFICES ASSUME Init PROVE DataInv
    OBVIOUS
  <2>1. LayoutInv
    BY DEF Init, LayoutInv, LayoutType, RangesDisjoint
  <2>2. Contiguous /\ Unchanged
    BY EmptySeq DEF Init, Contiguous, Unchanged
  <2>3. UpToCursor
    BY EmptySeq DEF Init, UpToCursor
  <2>4. DataAligned
    BY DEF Init, DataAligned, Written
  <2>5. QED BY <2>1, <2>2, <2>3, <2>4 DEF DataInv
<1>2. QED BY <1>1, StepKeepsData, PTL DEF Spec

\* The bytes of each file land at its offset, for every config and every disk that changes
\* while rcgen runs, and a byte that is not the file's own is one of a file that was
\* changed after it was added (RCBuilder.cpp:199-220).
THEOREM DataLands == Spec => []DataAligned
<1>1. DataInv => DataAligned
  BY DEF DataInv
<1>2. QED BY <1>1, DataHolds, PTL

-----------------------------------------------------------------------------
(* Paths *)

Paths == Seq(Names)

\* A prefix has the same names up to its length.
LEMMA PrefixIs ==
  ASSUME NEW p \in Paths, NEW q \in Paths
  PROVE  IsPrefix(p, q) <=> Len(p) <= Len(q) /\ \A i \in 1..Len(p) : p[i] = q[i]
<1>1. Len(p) \in Nat /\ Len(q) \in Nat
  BY LenProperties DEF Paths
<1>2. SubSeq(p, 1, Len(p)) = p
  BY SubSeqFull DEF Paths
<1>3. ASSUME Len(p) <= Len(q)
      PROVE  /\ SubSeq(q, 1, Len(p)) \in Seq(Names) /\ Len(SubSeq(q, 1, Len(p))) = Len(p)
             /\ \A i \in 1..Len(p) : SubSeq(q, 1, Len(p))[i] = q[i]
  <2>1. \A i \in 1..Len(p) : q[i] \in Names
    BY <1>1, <1>3, ElementOfSeq DEF Paths
  <2>2. /\ SubSeq(q, 1, Len(p)) \in Seq(Names)
        /\ Len(SubSeq(q, 1, Len(p))) = IF 1 <= Len(p) THEN Len(p) - 1 + 1 ELSE 0
        /\ \A i \in 1..Len(p) - 1 + 1 : SubSeq(q, 1, Len(p))[i] = q[1 + i - 1]
    BY <1>1, <2>1, SubSeqProperties
  <2>3. QED BY <1>1, <2>2
<1>4. ASSUME Len(p) <= Len(q), \A i \in 1..Len(p) : p[i] = q[i]
      PROVE  p = SubSeq(q, 1, Len(p))
  <2>1. p \in Seq(Names)
    BY DEF Paths
  <2>2. QED BY <1>3, <1>4, <2>1, SeqEqual
<1>5. QED BY <1>2, <1>3, <1>4 DEF IsPrefix

LEMMA PrefixOrder ==
  /\ \A p \in Paths : IsPrefix(p, p) /\ IsPrefix(<<>>, p) /\ <<>> \in Paths
  /\ \A p, q, r \in Paths : IsPrefix(p, q) /\ IsPrefix(q, r) => IsPrefix(p, r)
  /\ \A p, q \in Paths : IsPrefix(p, q) /\ Len(p) = Len(q) => p = q
  /\ \A p, q, r \in Paths :
       IsPrefix(p, r) /\ IsPrefix(q, r) /\ Len(p) <= Len(q) => IsPrefix(p, q)
  /\ \A p, q \in Paths : IsPrefix(p, q) => Len(p) <= Len(q)
  /\ \A p \in Paths : Len(p) \in Nat /\ (p = <<>> <=> Len(p) = 0)
<1>1. \A p \in Paths : Len(p) \in Nat /\ (p = <<>> <=> Len(p) = 0)
  BY LenProperties, EmptySeq DEF Paths
<1>2. <<>> \in Paths /\ Len(<<>>) = 0
  BY EmptySeq DEF Paths
<1>3. \A p \in Paths : IsPrefix(p, p) /\ IsPrefix(<<>>, p)
  BY <1>1, <1>2, PrefixIs
<1>4. \A p, q, r \in Paths : IsPrefix(p, q) /\ IsPrefix(q, r) => IsPrefix(p, r)
  <2> SUFFICES ASSUME NEW p \in Paths, NEW q \in Paths, NEW r \in Paths,
                      IsPrefix(p, q), IsPrefix(q, r)
               PROVE  IsPrefix(p, r)
    OBVIOUS
  <2>1. /\ Len(p) <= Len(q) /\ \A i \in 1..Len(p) : p[i] = q[i]
        /\ Len(q) <= Len(r) /\ \A i \in 1..Len(q) : q[i] = r[i]
    BY PrefixIs
  <2>2. Len(p) <= Len(r) /\ \A i \in 1..Len(p) : p[i] = r[i]
    BY <1>1, <2>1
  <2>3. QED BY <2>2, PrefixIs
<1>5. \A p, q \in Paths : IsPrefix(p, q) /\ Len(p) = Len(q) => p = q
  <2> SUFFICES ASSUME NEW p \in Paths, NEW q \in Paths, IsPrefix(p, q), Len(p) = Len(q)
               PROVE  p = q
    OBVIOUS
  <2>1. \A i \in 1..Len(p) : p[i] = q[i]
    BY PrefixIs
  <2>2. p \in Seq(Names) /\ q \in Seq(Names)
    BY DEF Paths
  <2>3. QED BY <2>1, <2>2, SeqEqual
<1>6. \A p, q, r \in Paths :
        IsPrefix(p, r) /\ IsPrefix(q, r) /\ Len(p) <= Len(q) => IsPrefix(p, q)
  <2> SUFFICES ASSUME NEW p \in Paths, NEW q \in Paths, NEW r \in Paths,
                      IsPrefix(p, r), IsPrefix(q, r), Len(p) <= Len(q)
               PROVE  IsPrefix(p, q)
    OBVIOUS
  <2>1. /\ \A i \in 1..Len(p) : p[i] = r[i]
        /\ \A i \in 1..Len(q) : q[i] = r[i]
    BY PrefixIs
  <2>2. \A i \in 1..Len(p) : p[i] = q[i]
    BY <1>1, <2>1
  <2>3. QED BY <2>2, PrefixIs
<1>7. \A p, q \in Paths : IsPrefix(p, q) => Len(p) <= Len(q)
  BY PrefixIs
<1>8. QED BY <1>1, <1>2, <1>3, <1>4, <1>5, <1>6, <1>7

\* The first n names of a path.
LEMMA CutIs ==
  ASSUME NEW p \in Paths, NEW n \in 0..Len(p)
  PROVE  /\ SubSeq(p, 1, n) \in Paths /\ Len(SubSeq(p, 1, n)) = n
         /\ IsPrefix(SubSeq(p, 1, n), p)
         /\ \A i \in 1..n : SubSeq(p, 1, n)[i] = p[i]
<1>1. Len(p) \in Nat /\ n \in Nat /\ n <= Len(p)
  BY LenProperties DEF Paths
<1>2. \A i \in 1..n : p[i] \in Names
  BY <1>1, ElementOfSeq DEF Paths
<1>3. /\ SubSeq(p, 1, n) \in Seq(Names)
      /\ Len(SubSeq(p, 1, n)) = IF 1 <= n THEN n - 1 + 1 ELSE 0
      /\ \A i \in 1..n - 1 + 1 : SubSeq(p, 1, n)[i] = p[1 + i - 1]
  BY <1>1, <1>2, SubSeqProperties
<1>4. /\ SubSeq(p, 1, n) \in Paths /\ Len(SubSeq(p, 1, n)) = n
      /\ \A i \in 1..n : SubSeq(p, 1, n)[i] = p[i]
  BY <1>1, <1>3 DEF Paths
<1>5. QED BY <1>1, <1>4, PrefixIs

LEMMA PrefixesAre ==
  ASSUME NEW p \in Paths
  PROVE  Prefixes(p) = {q \in Paths : IsPrefix(q, p)}
<1>1. \A q \in Prefixes(p) : q \in Paths /\ IsPrefix(q, p)
  BY CutIs DEF Prefixes
<1>2. ASSUME NEW q \in Paths, IsPrefix(q, p) PROVE q \in Prefixes(p)
  <2>1. Len(q) \in 0..Len(p)
    BY <1>2, PrefixOrder
  <2>2. /\ SubSeq(p, 1, Len(q)) \in Paths /\ Len(SubSeq(p, 1, Len(q))) = Len(q)
        /\ IsPrefix(SubSeq(p, 1, Len(q)), p)
    BY <2>1, CutIs
  <2>3. IsPrefix(q, SubSeq(p, 1, Len(q)))
    BY <1>2, <2>1, <2>2, PrefixOrder
  <2>4. q = SubSeq(p, 1, Len(q))
    <3> DEFINE s == SubSeq(p, 1, Len(q))
    <3> HIDE DEF s
    <3>1. s \in Paths /\ Len(s) = Len(q) /\ IsPrefix(q, s)
      BY <2>2, <2>3 DEF s
    <3>2. q = s
      BY <3>1, PrefixOrder
    <3>3. QED BY <3>2 DEF s
  <2>5. QED BY <2>1, <2>4 DEF Prefixes
<1>3. QED BY <1>1, <1>2

LEMMA PrefixesFinite == ASSUME NEW p \in Paths PROVE IsFiniteSet(Prefixes(p))
<1> DEFINE f == [n \in 0..Len(p) |-> SubSeq(p, 1, n)]
<1>1. Len(p) \in Nat
  BY PrefixOrder
<1>2. f \in Surjection(0..Len(p), Prefixes(p))
  BY DEF Prefixes, Surjection
<1>3. IsFiniteSet(0..Len(p))
  BY <1>1, FS_Interval
<1>4. QED BY <1>2, <1>3, FS_Surjection

\* A path is a directory and a name in it.
LEMMA FrontAndLast ==
  ASSUME NEW p \in Paths, p # <<>>
  PROVE  /\ Front(p) \in Paths /\ Len(Front(p)) = Len(p) - 1 /\ IsPrefix(Front(p), p)
         /\ Last(p) \in Names /\ p = Append(Front(p), Last(p))
<1>1. Len(p) \in Nat \ {0}
  BY PrefixOrder
<1>2. /\ Front(p) \in Paths /\ Len(Front(p)) = Len(p) - 1 /\ IsPrefix(Front(p), p)
      /\ \A i \in 1..Len(p) - 1 : Front(p)[i] = p[i]
  <2>1. Len(p) - 1 \in 0..Len(p)
    BY <1>1
  <2>2. QED BY <2>1, CutIs DEF Front
<1>3. Last(p) \in Names
  BY <1>1, ElementOfSeq DEF Last, Paths
<1>4. p = Append(Front(p), Last(p))
  <2>1. Front(p) \in Seq(Names) /\ p \in Seq(Names)
    BY <1>2 DEF Paths
  <2>2. /\ Append(Front(p), Last(p)) \in Seq(Names)
        /\ Len(Append(Front(p), Last(p))) = Len(Front(p)) + 1
        /\ \A i \in 1..Len(Front(p)) : Append(Front(p), Last(p))[i] = Front(p)[i]
        /\ Append(Front(p), Last(p))[Len(Front(p)) + 1] = Last(p)
    BY <1>3, <2>1, AppendProperties
  <2>3. \A i \in 1..Len(p) : i \in 1..Len(p) - 1 \/ i = Len(p)
    BY <1>1
  <2>4. Len(Front(p)) + 1 = Len(p)
    BY <1>1, <1>2
  <2>5. \A i \in 1..Len(p) : p[i] = Append(Front(p), Last(p))[i]
    BY <1>2, <2>2, <2>3, <2>4 DEF Last
  <2>6. QED BY <2>1, <2>2, <2>4, <2>5, SeqEqual
<1>5. QED BY <1>2, <1>3, <1>4

LEMMA Appended ==
  ASSUME NEW d \in Paths, NEW n \in Names
  PROVE  /\ Append(d, n) \in Paths /\ Append(d, n) # <<>> /\ Len(Append(d, n)) = Len(d) + 1
         /\ Front(Append(d, n)) = d /\ Last(Append(d, n)) = n /\ IsPrefix(d, Append(d, n))
<1> DEFINE p == Append(d, n)
<1>1. /\ p \in Paths /\ p # <<>> /\ Len(p) = Len(d) + 1 /\ Len(d) \in Nat
      /\ \A i \in 1..Len(d) : p[i] = d[i]
      /\ p[Len(d) + 1] = n
  BY AppendProperties, LenProperties DEF Paths
<1> HIDE DEF p
<1>2. IsPrefix(d, p)
  BY <1>1, PrefixIs
<1>3. Front(p) \in Paths /\ Len(Front(p)) = Len(p) - 1 /\ IsPrefix(Front(p), p)
  BY <1>1, FrontAndLast
<1>4. Front(p) = d
  BY <1>1, <1>2, <1>3, PrefixOrder
<1>5. Last(p) = n
  BY <1>1 DEF Last
<1>6. QED BY <1>1, <1>2, <1>4, <1>5 DEF p

\* What is strictly above a path is above its directory.
LEMMA AboveFront ==
  ASSUME NEW p \in Paths, p # <<>>, NEW q \in Paths, IsPrefix(q, p), q # p
  PROVE  IsPrefix(q, Front(p)) /\ Len(q) < Len(p)
<1>1. Front(p) \in Paths /\ Len(Front(p)) = Len(p) - 1 /\ IsPrefix(Front(p), p)
  BY FrontAndLast
<1>2. Len(q) \in Nat /\ Len(p) \in Nat /\ Len(q) <= Len(p) /\ Len(q) # Len(p)
  BY PrefixOrder
<1>3. Len(q) <= Len(Front(p)) /\ Len(q) < Len(p)
  BY <1>1, <1>2
<1>4. QED BY <1>1, <1>3, PrefixOrder

-----------------------------------------------------------------------------
(* Trees *)

Nodes == {Dir} \cup [kind : {"file"}, offset : Nat, size : Nat]

\* A finite tree in which everything above a node is a directory.
Tree(t) ==
  /\ IsFiniteSet(DOMAIN t) /\ DOMAIN t \subseteq Paths \ {<<>>}
  /\ t \in [DOMAIN t -> Nodes]
  /\ \A p \in DOMAIN t : \A q \in Prefixes(p) \ {p} : IsDir(t, q)

LEMMA TreeAbove ==
  ASSUME NEW t, Tree(t), NEW p \in DOMAIN t
  PROVE  /\ p \in Paths /\ p # <<>>
         /\ \A q \in Paths : IsPrefix(q, p) /\ q # p => IsDir(t, q)
<1>1. p \in Paths /\ p # <<>> /\ \A q \in Prefixes(p) \ {p} : IsDir(t, q)
  BY DEF Tree
<1>2. QED BY <1>1, PrefixesAre

LEMMA EmptyIsTree == Tree(EmptyTree) /\ DOMAIN EmptyTree = {}
<1>1. EmptyTree \in Seq(Nodes) /\ Len(EmptyTree) = 0
  BY EmptySeq DEF EmptyTree
<1>2. DOMAIN EmptyTree = {} /\ EmptyTree \in [DOMAIN EmptyTree -> Nodes]
  BY <1>1, LenProperties
<1>3. QED BY <1>2, FS_EmptySet DEF Tree

LEMMA TreeWellFormed == ASSUME NEW t, Tree(t) PROVE WellFormed(t)
<1> SUFFICES ASSUME NEW p \in DOMAIN t PROVE p # <<>> /\ IsDir(t, Front(p))
  BY DEF WellFormed
<1>1. p \in Paths /\ p # <<>> /\ \A q \in Paths : IsPrefix(q, p) /\ q # p => IsDir(t, q)
  BY TreeAbove
<1>2. Front(p) \in Paths /\ IsPrefix(Front(p), p) /\ Len(Front(p)) = Len(p) - 1
  BY <1>1, FrontAndLast
<1>3. Front(p) # p
  BY <1>1, <1>2, PrefixOrder
<1>4. QED BY <1>1, <1>2, <1>3

\* Directory::find gets to every node of a tree.
LEMMA FindIs ==
  ASSUME NEW t, Tree(t), NEW p \in DOMAIN t
  PROVE  Find(t, p) = {t[p]}
<1>1. p \in Paths /\ \A q \in Paths : IsPrefix(q, p) /\ q # p => IsDir(t, q)
  BY TreeAbove
<1>2. ASSUME NEW n \in 0 .. Len(p) - 1 PROVE IsDir(t, SubSeq(p, 1, n))
  <2>1. n \in 0..Len(p) /\ n # Len(p)
    BY <1>1, PrefixOrder
  <2>2. /\ SubSeq(p, 1, n) \in Paths /\ IsPrefix(SubSeq(p, 1, n), p)
        /\ Len(SubSeq(p, 1, n)) = n
    BY <1>1, <2>1, CutIs
  <2>3. SubSeq(p, 1, n) # p
    BY <2>1, <2>2
  <2>4. QED BY <1>1, <2>2, <2>3
<1>3. QED BY <1>2 DEF Find

LEMMA ChildIs ==
  ASSUME NEW t, DOMAIN t \subseteq Paths \ {<<>>}, NEW d \in Paths, NEW c \in DOMAIN t
  PROVE  c \in ChildrenOf(t, d) <=> Front(c) = d
<1>1. c \in Paths /\ c # <<>>
  OBVIOUS
<1>2. Front(c) \in Paths /\ Len(Front(c)) = Len(c) - 1 /\ IsPrefix(Front(c), c)
  BY <1>1, FrontAndLast
<1>3. Len(c) \in Nat /\ Len(d) \in Nat
  BY <1>1, PrefixOrder
<1>4. ASSUME Front(c) = d PROVE c \in ChildrenOf(t, d)
  BY <1>2, <1>3, <1>4 DEF ChildrenOf
<1>5. ASSUME c \in ChildrenOf(t, d) PROVE Front(c) = d
  <2>1. Len(c) = Len(d) + 1 /\ IsPrefix(d, c)
    BY <1>5 DEF ChildrenOf
  <2>2. d # c
    BY <1>3, <2>1
  <2>3. IsPrefix(d, Front(c))
    BY <1>1, <2>1, <2>2, AboveFront
  <2>4. Len(Front(c)) = Len(d)
    BY <1>2, <1>3, <2>1
  <2>5. QED BY <1>2, <2>3, <2>4, PrefixOrder
<1>6. QED BY <1>4, <1>5

\* Below a directory, a node is below one of its children or is one.
LEMMA ChildAbove ==
  ASSUME NEW t, Tree(t), NEW p \in DOMAIN t, NEW d \in Paths, IsPrefix(d, p), d # p
  PROVE  \E c \in ChildrenOf(t, d) : IsPrefix(c, p)
<1> DEFINE c == SubSeq(p, 1, Len(d) + 1)
<1>1. p \in Paths /\ p # <<>> /\ \A q \in Paths : IsPrefix(q, p) /\ q # p => IsDir(t, q)
  BY TreeAbove
<1>2. Len(d) \in Nat /\ Len(p) \in Nat /\ Len(d) < Len(p)
  BY <1>1, AboveFront, PrefixOrder
<1>3. c \in Paths /\ Len(c) = Len(d) + 1 /\ IsPrefix(c, p)
  BY <1>1, <1>2, CutIs
<1> HIDE DEF c
<1>4. c # <<>>
  BY <1>2, <1>3, PrefixOrder
<1>5. c \in DOMAIN t
  BY <1>1, <1>3, <1>4 DEF IsDir
<1>6. IsPrefix(d, c)
  BY <1>1, <1>2, <1>3, PrefixOrder
<1>7. QED BY <1>3, <1>5, <1>6 DEF ChildrenOf

LEMMA AddChildIs ==
  ASSUME NEW t, Tree(t), NEW path \in Paths, path # <<>>, NEW node \in Nodes,
         \A q \in Paths : IsPrefix(q, path) /\ q # path => IsDir(t, q)
  PROVE  LET t2 == AddChild(t, path, node) IN
         /\ Tree(t2) /\ path \in DOMAIN t2 /\ t2[path] = node
         /\ \A p \in DOMAIN t : ~IsPrefix(path, p) => p \in DOMAIN t2 /\ t2[p] = t[p]
         /\ \A p \in DOMAIN t2 :
              p = path \/ (p \in DOMAIN t /\ ~IsPrefix(path, p) /\ t2[p] = t[p])
<1> DEFINE t2 == AddChild(t, path, node)
           kept == {q \in DOMAIN t : ~IsPrefix(path, q)}
<1>1. DOMAIN t2 = kept \cup {path}
  BY DEF AddChild
<1>2. \A p \in DOMAIN t2 : t2[p] = IF p = path THEN node ELSE t[p]
  BY DEF AddChild
<1>3. t2 = [p \in DOMAIN t2 |-> t2[p]]
  BY DEF AddChild
<1> HIDE DEF t2
<1>4. path \notin kept
  BY PrefixOrder
<1>5. /\ path \in DOMAIN t2 /\ t2[path] = node
      /\ \A p \in DOMAIN t : ~IsPrefix(path, p) => p \in DOMAIN t2 /\ t2[p] = t[p]
      /\ \A p \in DOMAIN t2 :
           p = path \/ (p \in DOMAIN t /\ ~IsPrefix(path, p) /\ t2[p] = t[p])
  <2>1. path \in DOMAIN t2 /\ t2[path] = node
    BY <1>1, <1>2
  <2>2. ASSUME NEW p \in kept PROVE p \in DOMAIN t2 /\ t2[p] = t[p]
    BY <1>1, <1>2, <1>4
  <2>3. ASSUME NEW p \in DOMAIN t2, p # path
        PROVE  p \in DOMAIN t /\ ~IsPrefix(path, p) /\ t2[p] = t[p]
    <3>1. p \in kept
      BY <1>1, <2>3
    <3>2. QED BY <2>2, <3>1
  <2>4. QED BY <2>1, <2>2, <2>3
<1>6. IsFiniteSet(DOMAIN t2)
  <2>1. IsFiniteSet(kept)
    BY FS_Subset DEF Tree
  <2> HIDE DEF kept
  <2>2. QED BY <1>1, <2>1, FS_AddElement
<1>7. DOMAIN t2 \subseteq Paths \ {<<>>}
  BY <1>1 DEF Tree
<1>8. t2 \in [DOMAIN t2 -> Nodes]
  BY <1>3, <1>5 DEF Tree
<1>9. ASSUME NEW q \in Paths, q # <<>>, IsDir(t, q), ~IsPrefix(path, q) PROVE IsDir(t2, q)
  BY <1>5, <1>9 DEF IsDir
<1>10. ASSUME NEW p \in DOMAIN t2, NEW q \in Prefixes(p) \ {p} PROVE IsDir(t2, q)
  <2>1. p \in Paths
    BY <1>7
  <2>2. q \in Paths /\ IsPrefix(q, p) /\ q # p
    BY <2>1, PrefixesAre
  <2>3. CASE q = <<>>
    BY <2>3 DEF IsDir
  <2>4. CASE q # <<>> /\ p = path
    <3>1. ~IsPrefix(path, q)
      <4>1. Len(q) < Len(p) /\ Len(q) \in Nat /\ Len(p) \in Nat
        BY <2>1, <2>2, <2>4, AboveFront, PrefixOrder
      <4>2. QED BY <2>2, <2>4, <4>1, PrefixOrder
    <3>2. QED BY <1>9, <2>2, <2>4, <3>1
  <2>5. CASE q # <<>> /\ p # path
    <3>1. p \in DOMAIN t /\ ~IsPrefix(path, p)
      BY <1>5, <2>5
    <3>2. IsDir(t, q)
      BY <2>2, <3>1, TreeAbove
    <3>3. ~IsPrefix(path, q)
      BY <2>1, <2>2, <3>1, PrefixOrder
    <3>4. QED BY <1>9, <2>2, <2>5, <3>2, <3>3
  <2>6. QED BY <2>3, <2>4, <2>5
<1>11. Tree(t2)
  BY <1>6, <1>7, <1>8, <1>10 DEF Tree
<1>12. QED BY <1>5, <1>11 DEF t2

LEMMA WithDirsIs ==
  ASSUME NEW t, Tree(t), NEW dir \in Paths,
         \A q \in Paths : IsPrefix(q, dir) => IsDir(t, q) \/ q \notin DOMAIN t
  PROVE  LET t2 == WithDirs(t, dir) IN
         /\ Tree(t2)
         /\ \A q \in Paths : IsPrefix(q, dir) => IsDir(t2, q)
         /\ \A p \in DOMAIN t : p \in DOMAIN t2 /\ t2[p] = t[p]
         /\ \A p \in DOMAIN t2 : p \in DOMAIN t \/ (IsPrefix(p, dir) /\ t2[p] = Dir)
<1> DEFINE t2 == WithDirs(t, dir)
           D == DOMAIN t \cup (Prefixes(dir) \ {<<>>})
<1>1. DOMAIN t2 = D /\ \A p \in D : t2[p] = IF p \in DOMAIN t THEN t[p] ELSE Dir
  BY DEF WithDirs
<1>2. t2 = [p \in DOMAIN t2 |-> t2[p]]
  BY DEF WithDirs
<1> HIDE DEF t2
<1>3. Prefixes(dir) = {q \in Paths : IsPrefix(q, dir)}
  BY PrefixesAre
<1>4. /\ \A p \in DOMAIN t : p \in DOMAIN t2 /\ t2[p] = t[p]
      /\ \A p \in DOMAIN t2 : p \in DOMAIN t \/ (IsPrefix(p, dir) /\ t2[p] = Dir)
  <2>1. ASSUME NEW p \in DOMAIN t PROVE p \in DOMAIN t2 /\ t2[p] = t[p]
    BY <1>1
  <2>2. ASSUME NEW p \in DOMAIN t2, p \notin DOMAIN t PROVE IsPrefix(p, dir) /\ t2[p] = Dir
    <3>1. p \in Prefixes(dir) /\ p \in D
      BY <1>1, <2>2
    <3>2. QED BY <1>1, <1>3, <2>2, <3>1
  <2>3. QED BY <2>1, <2>2
<1>5. ASSUME NEW q \in Paths, IsPrefix(q, dir) PROVE IsDir(t2, q)
  <2>1. CASE q = <<>>
    BY <2>1 DEF IsDir
  <2>2. CASE q # <<>>
    <3>1. q \in DOMAIN t2
      BY <1>1, <1>3, <1>5, <2>2
    <3>2. t2[q] = Dir
      BY <1>1, <1>5, <2>2, <3>1 DEF IsDir
    <3>3. QED BY <3>1, <3>2 DEF IsDir
  <2>3. QED BY <2>1, <2>2
<1>6. IsFiniteSet(DOMAIN t2)
  <2>1. IsFiniteSet(DOMAIN t) /\ IsFiniteSet(Prefixes(dir))
    BY PrefixesFinite DEF Tree
  <2>2. IsFiniteSet(Prefixes(dir) \ {<<>>})
    BY <2>1, FS_Difference
  <2>3. QED BY <1>1, <2>1, <2>2, FS_Union
<1>7. DOMAIN t2 \subseteq Paths \ {<<>>}
  BY <1>1, <1>3 DEF Tree
<1>8. t2 \in [DOMAIN t2 -> Nodes]
  <2>1. \A p \in DOMAIN t2 : t2[p] \in Nodes
    BY <1>4 DEF Tree, Nodes
  <2>2. QED BY <1>2, <2>1
<1>9. ASSUME NEW p \in DOMAIN t2, NEW q \in Prefixes(p) \ {p} PROVE IsDir(t2, q)
  <2>1. p \in Paths
    BY <1>7
  <2>2. q \in Paths /\ IsPrefix(q, p) /\ q # p
    BY <2>1, PrefixesAre
  <2>3. CASE p \in DOMAIN t
    <3>1. IsDir(t, q)
      BY <2>2, <2>3, TreeAbove
    <3>2. QED BY <1>4, <3>1 DEF IsDir
  <2>4. CASE IsPrefix(p, dir)
    <3>1. IsPrefix(q, dir)
      BY <2>1, <2>2, <2>4, PrefixOrder
    <3>2. QED BY <1>5, <2>2, <3>1
  <2>5. QED BY <1>4, <2>3, <2>4
<1>10. Tree(t2)
  BY <1>6, <1>7, <1>8, <1>9 DEF Tree
<1>11. QED BY <1>4, <1>5, <1>10 DEF t2

-----------------------------------------------------------------------------
(* Where addFile puts a file *)

\* What is left of a path without "." and ".." is a path.
LEMMA ComponentsIsPath == ASSUME NEW path \in Paths PROVE Components(path) \in Paths
<1> DEFINE kept == {i \in 1..Len(path) : path[i] \notin Dots}
           upTo(i) == {j \in kept : j <= i}
           rank == [i \in kept |-> Cardinality(upTo(i))]
           N == Cardinality(kept)
<1>1. Len(path) \in Nat
  BY PrefixOrder
<1>2. IsFiniteSet(kept) /\ kept \subseteq Nat
  <2>1. IsFiniteSet(1..Len(path))
    BY <1>1, FS_Interval
  <2>2. QED BY <1>1, <2>1, FS_Subset
<1>3. N \in Nat /\ Cardinality(1..N) = N /\ IsFiniteSet(1..N)
  <2>1. N \in Nat
    BY <1>2, FS_CardinalityType
  <2> HIDE DEF N
  <2>2. QED BY <2>1, FS_Interval
<1>4. ASSUME NEW i \in kept
      PROVE  IsFiniteSet(upTo(i)) /\ Cardinality(upTo(i)) \in 1..N
  <2> DEFINE S == upTo(i)
  <2>1. S \subseteq kept /\ i \in S
    BY <1>2
  <2> HIDE DEF S, kept
  <2>2. IsFiniteSet(S) /\ Cardinality(S) <= N
    BY <1>2, <2>1, FS_Subset
  <2>3. Cardinality(S) \in Nat /\ Cardinality(S) # 0
    BY <2>1, <2>2, FS_CardinalityType, FS_EmptySet
  <2>4. Cardinality(S) \in 1..N
    BY <1>3, <2>2, <2>3
  <2>5. QED BY <2>2, <2>4 DEF S
<1>5. ASSUME NEW i \in kept, NEW k \in kept, i < k PROVE rank[i] # rank[k]
  <2>1. upTo(i) \subseteq upTo(k) /\ k \in upTo(k) /\ k \notin upTo(i)
    BY <1>2, <1>5
  <2>2. IsFiniteSet(upTo(k))
    BY <1>4
  <2> DEFINE S == upTo(i)
             T == upTo(k)
  <2> HIDE DEF S, T
  <2>3. Cardinality(S) # Cardinality(T)
    <3>1. S \subseteq T /\ S # T /\ IsFiniteSet(T)
      BY <2>1, <2>2 DEF S, T
    <3>2. QED BY ONLY <3>1, FS_Subset
  <2>4. QED BY <2>3 DEF S, T
<1>6. rank \in Injection(kept, 1..N)
  <2>1. rank \in [kept -> 1..N]
    BY <1>4
  <2>2. ASSUME NEW i \in kept, NEW k \in kept, i # k PROVE rank[i] # rank[k]
    <3>1. i < k \/ k < i
      BY <1>2, <2>2
    <3>2. QED BY <1>5, <3>1
  <2> HIDE DEF kept, rank, N
  <2>3. QED BY <2>1, <2>2 DEF Injection, IsInjective
<1>7. rank \in Surjection(kept, 1..N)
  <2> HIDE DEF kept, rank
  <2>1. Cardinality(kept) = Cardinality(1..N)
    BY <1>3 DEF N
  <2> HIDE DEF N
  <2>2. QED BY <1>3, <1>6, <2>1, FS_Injection
<1>8. ASSUME NEW n \in 1..N
      PROVE  \E i \in kept : Cardinality({j \in kept : j <= i}) = n
  <2>1. \E i \in kept : rank[i] = n
    <3> HIDE DEF kept, rank, N
    <3>1. QED BY <1>7 DEF Surjection
  <2>2. QED BY <2>1
<1> DEFINE nth(n) == CHOOSE i \in kept : Cardinality({j \in kept : j <= i}) = n
<1>9. \A n \in 1..N : nth(n) \in kept
  <2> SUFFICES ASSUME NEW n \in 1..N PROVE nth(n) \in kept
    OBVIOUS
  <2>1. \E i \in kept : Cardinality({j \in kept : j <= i}) = n
    BY <1>8
  <2> HIDE DEF kept, N
  <2>2. QED BY <2>1
<1>10. \A n \in 1..N : path[nth(n)] \in Names
  <2>1. \A i \in kept : path[i] \in Names
    BY ElementOfSeq DEF Paths
  <2> HIDE DEF kept, nth, N
  <2>2. QED BY <1>9, <2>1
<1>11. Components(path) = [n \in 1..N |-> path[nth(n)]]
  BY DEF Components
<1> HIDE DEF kept, nth, N
<1>12. [n \in 1..N |-> path[nth(n)]] \in [1..N -> Names]
  BY <1>10
<1>13. QED BY <1>3, <1>11, <1>12, SeqDef DEF Paths

LEMMA TargetIs ==
  ASSUME NEW base \in Bases \cup {<<>>}, NEW s \in Sources
  PROVE  /\ TargetDir(base, s) \in Paths
         /\ Target(base, s) \in Paths /\ Target(base, s) # <<>>
         /\ Front(Target(base, s)) = TargetDir(base, s)
         /\ IsPrefix(TargetDir(base, s), Target(base, s))
<1>1. base \in Paths /\ s \in Paths /\ s # <<>>
  BY PathsAssumption, PrefixOrder DEF Paths
<1>2. Front(s) \in Paths /\ Last(s) \in Names
  BY <1>1, FrontAndLast
<1>3. base \o Front(s) \in Paths
  BY <1>1, <1>2, ConcatProperties DEF Paths
<1>4. TargetDir(base, s) \in Paths
  BY <1>3, ComponentsIsPath DEF TargetDir
<1>5. QED BY <1>2, <1>4, Appended DEF Target

LEMMA PlacesAre ==
  ASSUME LayoutInv
  PROVE  \A i \in 1..Len(files) : Place(files[i]) \in Paths /\ Place(files[i]) # <<>>
<1> SUFFICES ASSUME NEW i \in 1..Len(files)
             PROVE  Place(files[i]) \in Paths /\ Place(files[i]) # <<>>
  OBVIOUS
<1>1. files[i] \in Collected
  BY FilesTyped
<1>2. files[i].base \in Bases \cup {<<>>} /\ files[i].src \in Sources
  BY <1>1 DEF Collected
<1>3. QED BY <1>2, TargetIs DEF Place

-----------------------------------------------------------------------------
(* The tree that addFile builds *)

\* addFile creates no directory without something in it.
NoEmptyDirs(t) == \A p \in DOMAIN t : t[p] = Dir => ChildrenOf(t, p) # {}

\* The node of files[i] is in the tree, or a later file has taken its place; and
\* each node that is a file is the latest that was placed there.
NodeOf(i) == File(files[i].offset, files[i].size)
FilesPlaced ==
  /\ \A i \in 1..Len(files) :
       \/ Place(files[i]) \in DOMAIN tree /\ tree[Place(files[i])] = NodeOf(i)
       \/ \E j \in i + 1..Len(files) : IsPrefix(Place(files[j]), Place(files[i]))
  /\ \A p \in DOMAIN tree : tree[p] # Dir =>
       \E i \in 1..Len(files) :
         /\ Place(files[i]) = p /\ tree[p] = NodeOf(i)
         /\ \A j \in i + 1..Len(files) : Place(files[j]) # p

BuilderInv == LayoutInv /\ Tree(tree) /\ NoEmptyDirs(tree) /\ FilesPlaced

\* What one call of addFile makes of the tree, if it does not throw.
LEMMA AddedFile ==
  ASSUME NEW t, Tree(t), NoEmptyDirs(t), NEW path \in Paths, path # <<>>,
         NEW node \in Nodes, node # Dir,
         \A q \in Prefixes(Front(path)) : ~(~IsDir(t, q) /\ q \in DOMAIN t)
  PROVE  LET t2 == AddChild(WithDirs(t, Front(path)), path, node) IN
         /\ Tree(t2) /\ NoEmptyDirs(t2) /\ path \in DOMAIN t2 /\ t2[path] = node
         /\ \A p \in DOMAIN t : ~IsPrefix(path, p) => p \in DOMAIN t2 /\ t2[p] = t[p]
         /\ \A p \in DOMAIN t2 : t2[p] # Dir =>
              p = path \/ (p \in DOMAIN t /\ ~IsPrefix(path, p) /\ t2[p] = t[p])
<1> DEFINE dir == Front(path)
           w == WithDirs(t, dir)
           t2 == AddChild(w, path, node)
<1>1. dir \in Paths /\ Len(dir) = Len(path) - 1 /\ IsPrefix(dir, path)
  BY FrontAndLast
<1>2. \A q \in Paths : IsPrefix(q, dir) => IsDir(t, q) \/ q \notin DOMAIN t
  BY <1>1, PrefixesAre
<1> HIDE DEF dir
<1>3. /\ Tree(w)
      /\ \A q \in Paths : IsPrefix(q, dir) => IsDir(w, q)
      /\ \A p \in DOMAIN t : p \in DOMAIN w /\ w[p] = t[p]
      /\ \A p \in DOMAIN w : p \in DOMAIN t \/ (IsPrefix(p, dir) /\ w[p] = Dir)
  BY <1>1, <1>2, WithDirsIs
<1>4. \A q \in Paths : IsPrefix(q, path) /\ q # path => IsPrefix(q, dir)
  BY AboveFront DEF dir
<1>5. \A q \in Paths : IsPrefix(q, path) /\ q # path => IsDir(w, q)
  BY <1>3, <1>4
<1> HIDE DEF w
<1>6. /\ Tree(t2) /\ path \in DOMAIN t2 /\ t2[path] = node
      /\ \A p \in DOMAIN w : ~IsPrefix(path, p) => p \in DOMAIN t2 /\ t2[p] = w[p]
      /\ \A p \in DOMAIN t2 :
           p = path \/ (p \in DOMAIN w /\ ~IsPrefix(path, p) /\ t2[p] = w[p])
  BY <1>3, <1>5, AddChildIs
<1> HIDE DEF t2
<1>7. \A p \in DOMAIN t : ~IsPrefix(path, p) => p \in DOMAIN t2 /\ t2[p] = t[p]
  BY <1>3, <1>6
<1>8. ASSUME NEW p \in DOMAIN t2, t2[p] # Dir, p # path
      PROVE  p \in DOMAIN t /\ ~IsPrefix(path, p) /\ t2[p] = t[p]
  BY <1>3, <1>6, <1>8
<1>9. DOMAIN t2 \subseteq Paths \ {<<>>} /\ DOMAIN t \subseteq Paths \ {<<>>}
  BY <1>6 DEF Tree
<1>10. ASSUME NEW p \in DOMAIN t2, t2[p] = Dir PROVE ChildrenOf(t2, p) # {}
  <2>1. p # path /\ p \in Paths /\ p # <<>> /\ p \in DOMAIN w /\ ~IsPrefix(path, p) /\ w[p] = Dir
    BY <1>6, <1>9, <1>10
  <2>2. CASE IsPrefix(p, path)
    <3>1. PICK c \in ChildrenOf(t2, p) : IsPrefix(c, path)
      BY <1>6, <2>1, <2>2, ChildAbove
    <3>2. QED BY <3>1
  <2>3. CASE ~IsPrefix(p, path)
    <3>1. ~IsPrefix(p, dir)
      BY <1>1, <2>1, <2>3, PrefixOrder
    <3>2. p \in DOMAIN t /\ t[p] = Dir
      BY <1>3, <2>1, <3>1
    <3>3. PICK c \in ChildrenOf(t, p) : TRUE
      BY <3>2 DEF NoEmptyDirs
    <3>4. c \in DOMAIN t /\ c \in Paths /\ Len(c) = Len(p) + 1 /\ IsPrefix(p, c)
      BY <1>9, <3>3 DEF ChildrenOf
    <3>5. ~IsPrefix(path, c)
      <4>1. SUFFICES ASSUME IsPrefix(path, c) PROVE FALSE
        OBVIOUS
      <4>2. Len(path) \in Nat /\ Len(c) \in Nat /\ Len(p) \in Nat /\ Len(path) <= Len(c)
        BY <2>1, <3>4, <4>1, PrefixOrder
      <4>3. CASE Len(path) <= Len(p)
        BY <2>1, <3>4, <4>1, <4>3, PrefixOrder
      <4>4. CASE Len(p) <= Len(path)
        BY <2>1, <2>3, <3>4, <4>1, <4>4, PrefixOrder
      <4>5. QED BY <4>2, <4>3, <4>4
    <3>6. c \in DOMAIN t2
      BY <1>7, <3>4, <3>5
    <3>7. QED BY <3>4, <3>6 DEF ChildrenOf
  <2>4. QED BY <2>2, <2>3
<1>11. NoEmptyDirs(t2)
  BY <1>10 DEF NoEmptyDirs
<1>12. QED BY <1>6, <1>7, <1>8, <1>11 DEF t2, w, dir

LEMMA AddFileKeepsBuilder ==
  ASSUME BuilderInv, NEW s \in Sources, AddFile(s) PROVE BuilderInv'
<1>1. LayoutInv /\ LayoutInv' /\ Tree(tree) /\ NoEmptyDirs(tree)
  BY AddFileKeepsLayout DEF BuilderInv
<1>2. CASE UNCHANGED <<tree, files>>
  BY <1>1, <1>2 DEF BuilderInv, FilesPlaced, NodeOf
<1>3. CASE ~UNCHANGED <<tree, files>>
  <2> DEFINE f == [src |-> s, base |-> todo.base, size |-> disk[s], offset |-> NextOffset]
             path == Target(todo.base, s)
             dir == TargetDir(todo.base, s)
             node == File(NextOffset, disk[s])
  <2>1. /\ ~Blocked(dir) /\ disk[s] # Gone /\ files' = Append(files, f)
        /\ tree' = AddChild(WithDirs(tree, dir), path, node)
    BY <1>3 DEF AddFile
  <2>2. todo.base \in Bases \cup {<<>>} /\ disk[s] \in Sizes
    BY <1>1, <2>1 DEF LayoutInv, LayoutType
  <2>3. /\ dir \in Paths /\ path \in Paths /\ path # <<>> /\ Front(path) = dir
    BY <2>2, TargetIs
  <2>4. NextOffset \in Nat /\ disk[s] \in Nat
    BY <1>1, <2>2, NextOffsetBehind, DiskAssumption
  <2>5. node \in Nodes /\ node # Dir
    BY <2>4 DEF Nodes, File, Dir
  <2>6. f \in Collected
    BY <2>2, <2>4 DEF Collected
  <2>7. Place(f) = path /\ File(f.offset, f.size) = node
    BY DEF Place
  <2> HIDE DEF f, path, dir, node
  <2>8. /\ Len(files') = Len(files) + 1 /\ Len(files) \in Nat
        /\ \A i \in 1..Len(files) : files'[i] = files[i]
        /\ files'[Len(files) + 1] = f
    <3>1. files \in Seq(Collected)
      BY <1>1 DEF LayoutInv, LayoutType
    <3>2. QED BY <2>1, <2>6, <3>1, AppendProperties, LenProperties
  <2>9. \A q \in Prefixes(Front(path)) : ~(~IsDir(tree, q) /\ q \in DOMAIN tree)
    BY <2>1, <2>3 DEF Blocked
  <2>10. /\ Tree(tree') /\ NoEmptyDirs(tree') /\ path \in DOMAIN tree' /\ tree'[path] = node
         /\ \A p \in DOMAIN tree : ~IsPrefix(path, p) => p \in DOMAIN tree' /\ tree'[p] = tree[p]
         /\ \A p \in DOMAIN tree' : tree'[p] # Dir =>
              p = path \/ (p \in DOMAIN tree /\ ~IsPrefix(path, p) /\ tree'[p] = tree[p])
    BY <1>1, <2>1, <2>3, <2>5, <2>9, AddedFile
  <2>0. PICK n \in Nat : n = Len(files)
    BY <2>8
  <2>11. /\ \A i \in 1..n : Place(files[i])' = Place(files[i]) /\ NodeOf(i)' = NodeOf(i)
         /\ Place(files[n + 1])' = path /\ NodeOf(n + 1)' = node
         /\ Len(files)' = n + 1 /\ n \in Nat
    BY <2>0, <2>7, <2>8 DEF Place, NodeOf
  <2>12. \A i \in 1..n : /\ Place(files[i]) \in Paths
                         /\ \/ Place(files[i]) \in DOMAIN tree /\ tree[Place(files[i])] = NodeOf(i)
                            \/ \E j \in i + 1..n : IsPrefix(Place(files[j]), Place(files[i]))
    BY <2>0, <1>1, PlacesAre DEF BuilderInv, FilesPlaced
  <2>13. ASSUME NEW i \in 1..n + 1
         PROVE  \/ /\ Place(files[i])' \in DOMAIN tree'
                   /\ tree'[Place(files[i])'] = NodeOf(i)'
                \/ \E j \in i + 1..n + 1 : IsPrefix(Place(files[j])', Place(files[i])')
    <3>1. CASE i = n + 1
      BY <2>10, <2>11, <3>1
    <3>2. CASE i \in 1..n
      <4>1. CASE IsPrefix(path, Place(files[i]))
        <5>1. n + 1 \in i + 1..n + 1
          BY <2>11, <3>2
        <5>2. QED BY <2>11, <3>2, <4>1, <5>1
      <4>2. CASE \E j \in i + 1..n : IsPrefix(Place(files[j]), Place(files[i]))
        <5>1. PICK j \in i + 1..n : IsPrefix(Place(files[j]), Place(files[i]))
          BY <4>2
        <5>2. j \in 1..n /\ j \in i + 1..n + 1
          BY <2>11, <3>2
        <5>3. QED BY <2>11, <3>2, <5>1, <5>2
      <4>3. CASE /\ ~IsPrefix(path, Place(files[i]))
                 /\ Place(files[i]) \in DOMAIN tree /\ tree[Place(files[i])] = NodeOf(i)
        BY <2>10, <2>11, <3>2, <4>3
      <4>4. QED BY <2>12, <3>2, <4>1, <4>2, <4>3
    <3>3. QED BY <2>11, <3>1, <3>2
  <2>14. ASSUME NEW p \in DOMAIN tree', tree'[p] # Dir
         PROVE  \E i \in 1..n + 1 :
                  /\ Place(files[i])' = p /\ tree'[p] = NodeOf(i)'
                  /\ \A j \in i + 1..n + 1 : Place(files[j])' # p
    <3>1. CASE p = path
      <4>1. n + 1 \in 1..n + 1 /\ (n + 1) + 1..n + 1 = {}
        BY <2>11
      <4>2. QED BY <2>10, <2>11, <3>1, <4>1
    <3>2. CASE p # path
      <4>1. p \in DOMAIN tree /\ tree'[p] = tree[p]
        BY <2>10, <2>14, <3>2
      <4>2. PICK i \in 1..n : /\ Place(files[i]) = p /\ tree[p] = NodeOf(i)
                              /\ \A j \in i + 1..n : Place(files[j]) # p
        BY <2>0, <2>14, <4>1 DEF BuilderInv, FilesPlaced
      <4>3. \A j \in i + 1..n + 1 : Place(files[j])' # p
        <5>1. \A j \in i + 1..n + 1 : j = n + 1 \/ (j \in 1..n /\ j \in i + 1..n)
          BY <2>11
        <5>2. QED BY <2>11, <3>2, <4>2, <5>1
      <4>4. i \in 1..n + 1
        BY <2>11
      <4>5. QED BY <2>11, <4>1, <4>2, <4>3, <4>4
    <3>3. QED BY <3>1, <3>2
  <2>15. FilesPlaced'
    BY <2>11, <2>13, <2>14 DEF FilesPlaced
  <2>16. QED BY <1>1, <2>10, <2>15 DEF BuilderInv
<1>4. QED BY <1>2, <1>3

LEMMA StepKeepsBuilder == BuilderInv /\ [Next]_vars => BuilderInv'
<1> SUFFICES ASSUME BuilderInv, [Next]_vars PROVE BuilderInv'
  OBVIOUS
<1>0. LayoutInv'
  BY StepKeepsLayout DEF BuilderInv
<1>1. ASSUME NEW s \in Sources, AddFile(s) PROVE BuilderInv'
  BY <1>1, AddFileKeepsBuilder
<1>2. (\E s \in Sources : AddFile(s)) \/ UNCHANGED <<tree, files>>
  BY DEF Next, vars, builder, Entry, SkipFile, DiskChanges, CannotWrite, BeginWrite,
         WriteItem, EndToc, WriteData, BeginLoad, ParseItem, Stopped
<1>3. CASE UNCHANGED <<tree, files>>
  BY <1>0, <1>3 DEF BuilderInv, FilesPlaced, NodeOf
<1>4. QED BY <1>1, <1>2, <1>3

LEMMA InitBuilder == Init => BuilderInv
<1> SUFFICES ASSUME Init PROVE BuilderInv
  OBVIOUS
<1>1. LayoutInv
  BY DEF Init, LayoutInv, LayoutType, RangesDisjoint
<1>2. tree = EmptyTree /\ files = <<>> /\ Len(files) = 0
  BY EmptySeq DEF Init
<1>3. QED BY <1>1, <1>2, EmptyIsTree DEF BuilderInv, NoEmptyDirs, FilesPlaced

\* Every file that addFile accepted is found in the builder's tree, unless a file
\* added later took its name or the name of a directory above it, whatever the
\* config and the disk (RCBuilder.cpp:268-293, Directory.cpp:13-20).
THEOREM AcceptedFiles == Spec => []AcceptedFilesFound
<1>1. BuilderInv => AcceptedFilesFound
  <2> SUFFICES ASSUME BuilderInv, NEW i \in 1..Len(files)
               PROVE  \/ Find(tree, Place(files[i])) = {File(files[i].offset, files[i].size)}
                      \/ \E j \in i + 1..Len(files) : IsPrefix(Place(files[j]), Place(files[i]))
    BY DEF AcceptedFilesFound
  <2>1. CASE Place(files[i]) \in DOMAIN tree /\ tree[Place(files[i])] = NodeOf(i)
    BY <2>1, FindIs DEF BuilderInv, NodeOf
  <2>2. QED BY <2>1 DEF BuilderInv, FilesPlaced
<1>2. QED BY <1>1, InitBuilder, StepKeepsBuilder, PTL DEF Spec

-----------------------------------------------------------------------------
(* The stacks of writeFile and of Root::Root *)

\* A set of numbers with a bound has a largest.
LEMMA LargestNat ==
  ASSUME NEW T, T \subseteq Nat, T # {}, NEW n \in Nat, \A x \in T : x <= n
  PROVE  Max(T) \in T /\ \A x \in T : x <= Max(T)
<1> DEFINE R == {ss \in Nat \X Nat : ss[1] < ss[2]}
           C == {n - x : x \in T}
<1>1. C \subseteq Nat /\ C # {}
  <2>1. \A x \in T : x \in Nat /\ n - x \in Nat
    OBVIOUS
  <2>2. QED BY <2>1
<1>2. IsWellFoundedOn(R, Nat)
  BY NatLessThanWellFounded DEF OpToRel
<1>3. \A x, y \in Nat : y < x => <<y, x>> \in R
  OBVIOUS
<1> HIDE DEF R
<1>4. PICK k \in C : \A j \in C : ~ (<<j, k>> \in R)
  <2> HIDE DEF C
  <2>1. QED BY <1>1, <1>2, WFMin
<1>5. \A j \in C : ~(j < k)
  BY <1>1, <1>3, <1>4
<1>6. PICK x \in T : k = n - x
  OBVIOUS
<1>7. ASSUME NEW y \in T PROVE y <= x
  <2>1. n - y \in C
    OBVIOUS
  <2>2. x \in Nat /\ y \in Nat
    OBVIOUS
  <2>3. ~(n - y < n - x)
    BY <1>5, <1>6, <2>1
  <2>4. QED BY <2>2, <2>3
<1>8. \A y \in T : x >= y
  BY <1>7
<1>9. Max(T) \in T /\ \A y \in T : Max(T) >= y
  BY <1>8 DEF Max
<1>10. QED BY <1>9

\* What Unwound and Closed do: nothing behind the last level of S is kept.
LEMMA CutTo ==
  ASSUME NEW X, NEW s \in Seq(X), NEW S \in SUBSET (1..Len(s))
  PROVE  LET m == Max({0} \cup S)
             s2 == SubSeq(s, 1, m) IN
         /\ m \in 0..Len(s) /\ (m # 0 => m \in S) /\ \A n \in S : n <= m
         /\ s2 \in Seq(X) /\ Len(s2) = m /\ \A n \in 1..m : s2[n] = s[n]
<1> DEFINE T == {0} \cup S
           m == Max(T)
<1>1. Len(s) \in Nat /\ \A n \in 1..Len(s) : s[n] \in X
  BY LenProperties, ElementOfSeq
<1>2. T \subseteq Nat /\ T # {} /\ \A x \in T : x <= Len(s)
  BY <1>1
<1>3. m \in T /\ \A x \in T : x <= m
  <2> HIDE DEF T
  <2>1. QED BY <1>1, <1>2, LargestNat
<1> HIDE DEF m
<1>4. m \in 0..Len(s) /\ (m # 0 => m \in S) /\ \A n \in S : n <= m
  BY <1>1, <1>2, <1>3
<1>5. \A n \in 1..m : s[n] \in X
  BY <1>1, <1>4
<1>6. /\ SubSeq(s, 1, m) \in Seq(X)
      /\ Len(SubSeq(s, 1, m)) = IF 1 <= m THEN m - 1 + 1 ELSE 0
      /\ \A n \in 1..m - 1 + 1 : SubSeq(s, 1, m)[n] = s[1 + n - 1]
  BY <1>1, <1>4, <1>5, SubSeqProperties
<1>7. m \in Nat
  BY <1>1, <1>4
<1>8. Len(SubSeq(s, 1, m)) = m /\ \A n \in 1..m : SubSeq(s, 1, m)[n] = s[n]
  BY <1>6, <1>7
<1>9. QED BY <1>4, <1>6, <1>8 DEF m

\* The last element is replaced.
LEMMA LastReplaced ==
  ASSUME NEW X, NEW s \in Seq(X), s # <<>>, NEW x \in X
  PROVE  LET s2 == Append(Front(s), x) IN
         /\ s2 \in Seq(X) /\ Len(s2) = Len(s) /\ s2[Len(s)] = x /\ Len(s) \in Nat \ {0}
         /\ \A n \in 1..Len(s) - 1 : s2[n] = s[n]
<1>1. Len(s) \in Nat \ {0} /\ \A n \in 1..Len(s) : s[n] \in X
  BY EmptySeq, ElementOfSeq
<1>2. /\ SubSeq(s, 1, Len(s) - 1) \in Seq(X)
      /\ Len(SubSeq(s, 1, Len(s) - 1))
           = IF 1 <= Len(s) - 1 THEN Len(s) - 1 - 1 + 1 ELSE 0
      /\ \A n \in 1..Len(s) - 1 - 1 + 1 : SubSeq(s, 1, Len(s) - 1)[n] = s[1 + n - 1]
  <2>1. \A n \in 1..Len(s) - 1 : s[n] \in X
    BY <1>1
  <2>2. QED BY <1>1, <2>1, SubSeqProperties
<1>3. /\ Front(s) \in Seq(X) /\ Len(Front(s)) = Len(s) - 1
      /\ \A n \in 1..Len(s) - 1 : Front(s)[n] = s[n]
  <2>0. Len(s) \in Nat \ {0}
    BY <1>1
  <2>1. Len(s) - 1 - 1 + 1 = Len(s) - 1 /\ (~(1 <= Len(s) - 1) => Len(s) - 1 = 0)
    <3>1. \A k \in Nat \ {0} : k - 1 - 1 + 1 = k - 1 /\ (~(1 <= k - 1) => k - 1 = 0)
      OBVIOUS
    <3>2. QED BY ONLY <2>0, <3>1
  <2>2. \A n \in 1..Len(s) - 1 : 1 + n - 1 = n
    BY <1>1
  <2>3. QED BY <1>2, <2>1, <2>2 DEF Front
<1>4. /\ Append(Front(s), x) \in Seq(X)
      /\ Len(Append(Front(s), x)) = Len(Front(s)) + 1
      /\ \A n \in 1..Len(Front(s)) : Append(Front(s), x)[n] = Front(s)[n]
      /\ Append(Front(s), x)[Len(Front(s)) + 1] = x
  BY <1>3, AppendProperties
<1>5. QED BY <1>1, <1>3, <1>4

\* What writeFile's stack holds: lists of siblings, of which next is the first
\* that is to be written. No two nodes that are left lie above one another.
Levels == [list : Seq(Paths), next : Nat]
DirOf(level) == Front(level.list[1])
Left(s, n) == s[n].next .. Len(s[n].list)
Siblings(t, level) ==
  /\ level.list # <<>> /\ level.next \in 1..Len(level.list) + 1
  /\ \A k \in 1..Len(level.list) :
       level.list[k] \in DOMAIN t /\ Front(level.list[k]) = DirOf(level)
Apart(s) ==
  \A n, m \in 1..Len(s) : \A k \in Left(s, n), l \in Left(s, m) :
    IsPrefix(s[n].list[k], s[m].list[l]) => n = m /\ k = l
Stack(t, s) ==
  /\ s \in Seq(Levels)
  /\ \A n \in 1..Len(s) : Siblings(t, s[n])
  /\ Apart(s)
  /\ s # <<>> => s[Len(s)].next <= Len(s[Len(s)].list)

\* The nodes that are still to be written.
IsLeft(s, p) == \E n \in 1..Len(s) : \E k \in Left(s, n) : p = s[n].list[k]
Covers(s, p) == \E q \in Paths : IsLeft(s, q) /\ IsPrefix(q, p)

\* One turn of writeFile's loop.
TopPath(s) == s[Len(s)].list[s[Len(s)].next]
Stepped(s) == Append(Front(s), [Last(s) EXCEPT !.next = @ + 1])
Deeper(s, children) == Append(Stepped(s), [list |-> children, next |-> 1])

LEMMA ChildListIs ==
  ASSUME NEW t, Tree(t), NEW d \in Paths, NEW ch \in ChildLists(t, d)
  PROVE  /\ ch \in Seq(Paths) /\ Len(ch) \in Nat
         /\ \A k \in 1..Len(ch) : ch[k] \in DOMAIN t /\ Front(ch[k]) = d
         /\ \A k, l \in 1..Len(ch) : k # l => ch[k] # ch[l]
         /\ \A c \in ChildrenOf(t, d) : \E k \in 1..Len(ch) : ch[k] = c
<1> DEFINE S == ChildrenOf(t, d)
           N == Cardinality(S)
<1>1. S \subseteq DOMAIN t /\ DOMAIN t \subseteq Paths \ {<<>>}
  BY DEF ChildrenOf, Tree
<1>2. IsFiniteSet(S) /\ N \in Nat
  <2>1. IsFiniteSet(S)
    BY <1>1, FS_Subset DEF Tree
  <2>2. QED BY <2>1, FS_CardinalityType
<1>3. \A c \in S : Front(c) = d
  BY <1>1, ChildIs
<1> HIDE DEF S
<1>4. ch \in [1..N -> S] /\ \A k, l \in 1..N : k # l => ch[k] # ch[l]
  BY DEF ChildLists, SetToSeqs, S
<1> HIDE DEF N
<1>5. ch \in Seq(Paths) /\ Len(ch) = N
  <2>1. ch \in [1..N -> Paths]
    BY <1>1, <1>4
  <2>2. ch \in Seq(Paths)
    BY <1>2, <2>1, SeqDef
  <2>3. DOMAIN ch = 1..N /\ DOMAIN ch = 1..Len(ch) /\ Len(ch) \in Nat
    BY <2>1, <2>2, LenProperties
  <2>4. QED BY <1>2, <2>2, <2>3
<1>6. ch \in Surjection(1..N, S)
  <2>1. ch \in Injection(1..N, S)
    BY <1>4 DEF Injection, IsInjective
  <2>2. Cardinality(1..N) = N
    BY <1>2, FS_Interval
  <2>3. QED BY <1>2, <2>1, <2>2, FS_Injection DEF N
<1>7. \A c \in S : \E k \in 1..N : ch[k] = c
  BY <1>6 DEF Surjection
<1>8. QED BY <1>1, <1>2, <1>3, <1>4, <1>5, <1>7 DEF S

LEMMA LevelIs ==
  ASSUME NEW s \in Seq(Levels)
  PROVE  /\ Len(s) \in Nat
         /\ \A n \in 1..Len(s) :
              /\ s[n] = [list |-> s[n].list, next |-> s[n].next]
              /\ s[n].list \in Seq(Paths) /\ s[n].next \in Nat /\ Len(s[n].list) \in Nat
<1>1. Len(s) \in Nat
  BY LenProperties
<1>2. ASSUME NEW n \in 1..Len(s)
      PROVE  /\ s[n] = [list |-> s[n].list, next |-> s[n].next]
             /\ s[n].list \in Seq(Paths) /\ s[n].next \in Nat /\ Len(s[n].list) \in Nat
  <2>1. s[n] \in Levels
    BY ElementOfSeq
  <2>2. /\ s[n] = [list |-> s[n].list, next |-> s[n].next]
        /\ s[n].list \in Seq(Paths) /\ s[n].next \in Nat
    BY <2>1 DEF Levels
  <2>3. QED BY <2>2, LenProperties
<1>3. QED BY <1>1, <1>2

LEMMA TopIs ==
  ASSUME NEW t, DOMAIN t \subseteq Paths \ {<<>>}, NEW s, Stack(t, s), s # <<>>
  PROVE  /\ Len(s) \in Nat \ {0} /\ Len(s) \in 1..Len(s)
         /\ s[Len(s)] \in Levels /\ Siblings(t, s[Len(s)])
         /\ s[Len(s)].next \in Left(s, Len(s)) /\ s[Len(s)].next \in 1..Len(s[Len(s)].list)
         /\ TopPath(s) \in DOMAIN t /\ TopPath(s) \in Paths /\ TopPath(s) # <<>>
         /\ Front(TopPath(s)) = DirOf(s[Len(s)])
<1>1. Len(s) \in Nat \ {0} /\ Len(s) \in 1..Len(s)
  BY EmptySeq DEF Stack
<1>2. s[Len(s)] \in Levels /\ Siblings(t, s[Len(s)]) /\ s[Len(s)].next <= Len(s[Len(s)].list)
  BY <1>1, ElementOfSeq DEF Stack
<1> DEFINE l == s[Len(s)]
<1>3. l.list \in Seq(Paths) /\ l.next \in Nat /\ l.next \in 1..Len(l.list) + 1
  BY <1>2 DEF Levels, Siblings
<1>4. Len(l.list) \in Nat /\ l.next \in 1..Len(l.list)
  BY <1>2, <1>3, LenProperties
<1>5. l.next \in Left(s, Len(s))
  BY <1>4 DEF Left
<1>6. l.list[l.next] \in DOMAIN t /\ Front(l.list[l.next]) = DirOf(l)
  BY <1>2, <1>4 DEF Siblings
<1>7. QED BY <1>1, <1>2, <1>4, <1>5, <1>6 DEF TopPath

\* The top's next node is written: what is left lies neither above nor below it.
LEMMA SteppedIs ==
  ASSUME NEW t, DOMAIN t \subseteq Paths \ {<<>>}, NEW s, Stack(t, s), s # <<>>
  PROVE  LET h == Stepped(s)
             q == TopPath(s) IN
         /\ h \in Seq(Levels) /\ Len(h) = Len(s) /\ h # <<>>
         /\ \A n \in 1..Len(s) :
              h[n] = [list |-> s[n].list,
                      next |-> IF n = Len(s) THEN s[n].next + 1 ELSE s[n].next]
         /\ \A n \in 1..Len(h) : Siblings(t, h[n])
         /\ Apart(h)
         /\ \A p : IsLeft(h, p) => IsLeft(s, p)
         /\ \A p : IsLeft(s, p) => IsLeft(h, p) \/ p = q
         /\ \A p : IsLeft(h, p) => ~IsPrefix(p, q) /\ ~IsPrefix(q, p)
<1> DEFINE N == Len(s)
           top == s[N]
           new == [list |-> top.list, next |-> top.next + 1]
           h == Stepped(s)
           q == TopPath(s)
<1>1. /\ N \in Nat \ {0} /\ N \in 1..N /\ top \in Levels /\ Siblings(t, top)
      /\ top.next \in Left(s, N) /\ top.next \in 1..Len(top.list) /\ s \in Seq(Levels)
  BY TopIs DEF Stack
<1>2. top.list \in Seq(Paths) /\ top.next \in Nat /\ Len(top.list) \in Nat
      /\ top = [list |-> top.list, next |-> top.next]
  <2>1. top.list \in Seq(Paths) /\ top.next \in Nat
        /\ top = [list |-> top.list, next |-> top.next]
    BY <1>1 DEF Levels
  <2>2. QED BY <2>1, LenProperties
<1>3. new \in Levels /\ [Last(s) EXCEPT !.next = @ + 1] = new
  BY <1>2 DEF Levels, Last
<1>4. h = Append(Front(s), new)
  BY <1>3 DEF Stepped
<1> HIDE DEF h, new
<1>5. /\ h \in Seq(Levels) /\ Len(h) = N /\ h[N] = new /\ \A n \in 1..N - 1 : h[n] = s[n]
  BY <1>1, <1>3, <1>4, LastReplaced
<1>6. \A n \in 1..N : n = N \/ n \in 1..N - 1
  BY <1>1
<1>7. \A n \in 1..N : s[n] = [list |-> s[n].list, next |-> s[n].next]
  BY <1>1, LevelIs
<1>8. \A n \in 1..N : h[n] = [list |-> s[n].list,
                               next |-> IF n = N THEN s[n].next + 1 ELSE s[n].next]
  BY <1>1, <1>5, <1>6, <1>7 DEF new
<1>9. \A n \in 1..N : /\ h[n].list = s[n].list
                        /\ h[n].next = IF n = N THEN s[n].next + 1 ELSE s[n].next
  <2> SUFFICES ASSUME NEW n \in 1..N
               PROVE  /\ h[n].list = s[n].list
                      /\ h[n].next = IF n = N THEN s[n].next + 1 ELSE s[n].next
    OBVIOUS
  <2>1. h[n] = [list |-> s[n].list, next |-> IF n = N THEN s[n].next + 1 ELSE s[n].next]
    BY <1>8
  <2>2. QED BY ONLY <2>1
<1>10. \A n \in 1..N : s[n].next \in Nat /\ Len(s[n].list) \in Nat
  BY <1>1, LevelIs
<1>11. \A n \in 1..N : \A k : k \in Left(h, n) =>
         k \in Left(s, n) /\ (n = N => k # top.next)
  BY <1>9, <1>10 DEF Left
<1>12. \A n \in 1..N : \A k : k \in Left(s, n) => k \in Left(h, n) \/ (n = N /\ k = top.next)
  BY <1>9, <1>10 DEF Left
<1>13. \A n \in 1..Len(h) : Siblings(t, h[n])
  <2>1. \A n \in 1..N : Siblings(t, s[n])
    BY DEF Stack
  <2>2. new.next \in 1..Len(new.list) + 1 /\ new.list = top.list
    BY <1>1, <1>2 DEF new
  <2>3. Siblings(t, new)
    BY <1>1, <2>2 DEF Siblings, DirOf
  <2>4. QED BY <1>5, <1>6, <2>1, <2>3
<1>14. \A n, m \in 1..N : \A k \in Left(s, n), l \in Left(s, m) :
         IsPrefix(s[n].list[k], s[m].list[l]) => n = m /\ k = l
  BY DEF Stack, Apart
<1>15. Apart(h)
  BY <1>5, <1>9, <1>11, <1>14 DEF Apart
<1>16. \A p : IsLeft(h, p) => IsLeft(s, p)
  BY <1>5, <1>9, <1>11 DEF IsLeft
<1>17. \A p : IsLeft(s, p) => IsLeft(h, p) \/ p = q
  BY <1>5, <1>9, <1>12 DEF IsLeft, TopPath
<1>18. ASSUME NEW p, IsLeft(h, p) PROVE ~IsPrefix(p, q) /\ ~IsPrefix(q, p)
  <2>1. PICK n \in 1..N : \E k \in Left(h, n) : p = h[n].list[k]
    BY <1>5, <1>18 DEF IsLeft
  <2>2. PICK k \in Left(h, n) : p = h[n].list[k]
    BY <2>1
  <2>3. k \in Left(s, n) /\ p = s[n].list[k] /\ ~(n = N /\ k = top.next)
    BY <1>9, <1>11, <2>2
  <2>4. q = s[N].list[top.next]
    BY DEF TopPath
  <2>5. QED BY <1>1, <1>14, <2>3, <2>4
<1>19. h # <<>>
  BY <1>1, <1>5, EmptySeq
<1>20. QED BY <1>5, <1>8, <1>13, <1>15, <1>16, <1>17, <1>18, <1>19 DEF h

LEMMA UnwoundIs ==
  ASSUME NEW t, NEW h \in Seq(Levels), \A n \in 1..Len(h) : Siblings(t, h[n]), Apart(h)
  PROVE  LET u == Unwound(h) IN
         /\ Stack(t, u) /\ Len(u) \in 0..Len(h) /\ \A n \in 1..Len(u) : u[n] = h[n]
         /\ \A p : IsLeft(u, p) <=> IsLeft(h, p)
<1> DEFINE S == {n \in 1..Len(h) : h[n].next <= Len(h[n].list)}
           m == Max({0} \cup S)
           u == Unwound(h)
<1>1. /\ m \in 0..Len(h) /\ (m # 0 => m \in S) /\ \A n \in S : n <= m
      /\ u \in Seq(Levels) /\ Len(u) = m /\ \A n \in 1..m : u[n] = h[n]
  <2>1. S \in SUBSET (1..Len(h)) /\ u = SubSeq(h, 1, m)
    BY DEF Unwound
  <2> HIDE DEF S, u
  <2>2. QED BY <2>1, CutTo
<1> HIDE DEF m, u
<1>2. Len(h) \in Nat /\ \A n \in 1..Len(h) : h[n].next \in Nat /\ Len(h[n].list) \in Nat
  BY LevelIs
<1>3. \A n \in 1..m : n \in 1..Len(h) /\ Left(u, n) = Left(h, n)
  BY <1>1, <1>2 DEF Left
<1>4. \A n \in 1..Len(h) : \A k \in Left(h, n) : n \in 1..m
  <2> SUFFICES ASSUME NEW n \in 1..Len(h), NEW k \in Left(h, n) PROVE n \in 1..m
    OBVIOUS
  <2>1. h[n].next <= Len(h[n].list)
    BY <1>2 DEF Left
  <2>2. n <= m
    BY <1>1, <2>1
  <2>3. QED BY <1>1, <1>2, <2>2
<1>5. \A p : IsLeft(u, p) <=> IsLeft(h, p)
  BY <1>1, <1>3, <1>4 DEF IsLeft
<1>6. \A n \in 1..Len(u) : Siblings(t, u[n])
  BY <1>1, <1>3
<1>7. Apart(u)
  BY <1>1, <1>3 DEF Apart
<1>8. u # <<>> => u[Len(u)].next <= Len(u[Len(u)].list)
  <2> SUFFICES ASSUME u # <<>> PROVE u[m].next <= Len(u[m].list)
    BY <1>1
  <2>1. m \in S /\ m \in 1..m
    BY <1>1, <1>2, EmptySeq
  <2>2. QED BY <1>1, <2>1
<1>9. QED BY <1>1, <1>5, <1>6, <1>7, <1>8 DEF Stack, u

\* What a turn does to the nodes that are left: the top's next is written, and
\* what is below it comes in its place.
Turned(t, s, s2) ==
  /\ Stack(t, s2)
  /\ \A p \in Paths : Covers(s2, p) => Covers(s, p)
  /\ ~Covers(s2, TopPath(s))
  /\ \A p \in DOMAIN t : Covers(s, p) => Covers(s2, p) \/ p = TopPath(s)
  /\ \A n \in 1..Len(s2) : \/ DirOf(s2[n]) = TopPath(s)
                           \/ \E i \in 1..Len(s) : DirOf(s2[n]) = DirOf(s[i])

LEMMA LeftIsPath ==
  ASSUME NEW s \in Seq(Levels),
         \A n \in 1..Len(s) : s[n].next \in 1..Len(s[n].list) + 1,
         NEW p, IsLeft(s, p)
  PROVE  p \in Paths
<1>1. PICK n \in 1..Len(s) : \E k \in Left(s, n) : p = s[n].list[k]
  BY DEF IsLeft
<1>2. PICK k \in Left(s, n) : p = s[n].list[k]
  BY <1>1
<1>3. s[n].list \in Seq(Paths) /\ Len(s[n].list) \in Nat /\ s[n].next \in Nat
  BY LevelIs
<1>4. k \in 1..Len(s[n].list)
  BY <1>3 DEF Left
<1>5. QED BY <1>2, <1>3, <1>4, ElementOfSeq

\* A node without children: a file, or nothing of the kind.
LEMMA LeafTurned ==
  ASSUME NEW t, Tree(t), NEW s, Stack(t, s), s # <<>>, ChildrenOf(t, TopPath(s)) = {}
  PROVE  Turned(t, s, Unwound(Stepped(s)))
<1> DEFINE q == TopPath(s)
           h == Stepped(s)
           u == Unwound(h)
<1>1. DOMAIN t \subseteq Paths \ {<<>>}
  BY DEF Tree
<1>2. q \in Paths /\ q \in DOMAIN t
  BY <1>1, TopIs
<1>3. /\ h \in Seq(Levels) /\ Len(h) = Len(s)
      /\ \A n \in 1..Len(s) : h[n] = [list |-> s[n].list,
                                      next |-> IF n = Len(s) THEN s[n].next + 1 ELSE s[n].next]
      /\ \A n \in 1..Len(h) : Siblings(t, h[n])
      /\ Apart(h)
      /\ \A p : IsLeft(h, p) => IsLeft(s, p)
      /\ \A p : IsLeft(s, p) => IsLeft(h, p) \/ p = q
      /\ \A p : IsLeft(h, p) => ~IsPrefix(p, q) /\ ~IsPrefix(q, p)
  BY <1>1, SteppedIs
<1> HIDE DEF h, q
<1>4. /\ Stack(t, u) /\ Len(u) \in 0..Len(h) /\ \A n \in 1..Len(u) : u[n] = h[n]
      /\ \A p : IsLeft(u, p) <=> IsLeft(h, p)
  BY <1>3, UnwoundIs
<1> HIDE DEF u
<1>5. \A p \in Paths : Covers(u, p) => Covers(s, p)
  BY <1>3, <1>4 DEF Covers
<1>6. ~Covers(u, q)
  BY <1>3, <1>4 DEF Covers
<1>7. ASSUME NEW p \in DOMAIN t, Covers(s, p), p # q PROVE Covers(u, p)
  <2>1. PICK r \in Paths : IsLeft(s, r) /\ IsPrefix(r, p)
    BY <1>7 DEF Covers
  <2>2. r # q
    <3>1. SUFFICES ASSUME r = q PROVE FALSE
      OBVIOUS
    <3>2. QED BY <1>2, <1>7, <2>1, <3>1, ChildAbove DEF q
  <2>3. QED BY <1>3, <1>4, <2>1, <2>2 DEF Covers
<1>8. \A n \in 1..Len(u) : \E i \in 1..Len(s) : DirOf(u[n]) = DirOf(s[i])
  <2> SUFFICES ASSUME NEW n \in 1..Len(u) PROVE \E i \in 1..Len(s) : DirOf(u[n]) = DirOf(s[i])
    OBVIOUS
  <2>1. n \in 1..Len(s) /\ u[n] = h[n]
    <3>1. Len(h) \in Nat
      BY <1>3, LevelIs
    <3>2. QED BY <1>3, <1>4, <3>1
  <2>2. h[n].list = s[n].list
    <3>1. h[n] = [list |-> s[n].list,
                  next |-> IF n = Len(s) THEN s[n].next + 1 ELSE s[n].next]
      BY <1>3, <2>1
    <3>2. QED BY ONLY <3>1
  <2>3. QED BY <2>1, <2>2 DEF DirOf
<1>9. QED BY <1>4, <1>5, <1>6, <1>7, <1>8 DEF Turned, q, u, h

\* A directory with children: they are pushed.
LEMMA DirTurned ==
  ASSUME NEW t, Tree(t), NEW s, Stack(t, s), s # <<>>,
         NEW ch \in ChildLists(t, TopPath(s)), ch # <<>>
  PROVE  /\ Turned(t, s, Deeper(s, ch)) /\ Unwound(Deeper(s, ch)) = Deeper(s, ch)
         /\ Len(Deeper(s, ch)) = Len(s) + 1
         /\ \A n \in 1..Len(s) : Deeper(s, ch)[n] = Stepped(s)[n]
         /\ Deeper(s, ch)[Len(s) + 1] = [list |-> ch, next |-> 1]
         /\ DirOf([list |-> ch, next |-> 1]) = TopPath(s)
<1> DEFINE q == TopPath(s)
           h == Stepped(s)
           new == [list |-> ch, next |-> 1]
           d == Deeper(s, ch)
           N == Len(s)
<1>1. DOMAIN t \subseteq Paths \ {<<>>}
  BY DEF Tree
<1>2. q \in Paths /\ q \in DOMAIN t /\ N \in Nat \ {0}
  BY <1>1, TopIs
<1>3. /\ h \in Seq(Levels) /\ Len(h) = N
      /\ \A n \in 1..N : h[n] = [list |-> s[n].list,
                                 next |-> IF n = N THEN s[n].next + 1 ELSE s[n].next]
      /\ \A n \in 1..Len(h) : Siblings(t, h[n])
      /\ Apart(h)
      /\ \A p : IsLeft(h, p) => IsLeft(s, p)
      /\ \A p : IsLeft(s, p) => IsLeft(h, p) \/ p = q
      /\ \A p : IsLeft(h, p) => ~IsPrefix(p, q) /\ ~IsPrefix(q, p)
  BY <1>1, SteppedIs
<1>4. /\ ch \in Seq(Paths) /\ Len(ch) \in Nat \ {0}
      /\ \A k \in 1..Len(ch) : ch[k] \in DOMAIN t /\ Front(ch[k]) = q
      /\ \A k, l \in 1..Len(ch) : k # l => ch[k] # ch[l]
      /\ \A c \in ChildrenOf(t, q) : \E k \in 1..Len(ch) : ch[k] = c
  BY <1>2, ChildListIs, EmptySeq
<1>5. new \in Levels /\ new.list = ch /\ new.next = 1
  BY <1>4 DEF Levels
<1>6. DirOf(new) = q /\ Siblings(t, new)
  BY <1>4, <1>5 DEF DirOf, Siblings
<1> HIDE DEF h, q, new
<1>7. /\ d \in Seq(Levels) /\ Len(d) = N + 1 /\ d # <<>>
      /\ \A n \in 1..N : d[n] = h[n]
      /\ d[N + 1] = new
  BY <1>3, <1>5, AppendProperties DEF Deeper, h, new
<1> HIDE DEF d
<1>8. \A n \in 1..N + 1 : n \in 1..N \/ n = N + 1
  BY <1>2
<1>9. \A n \in 1..N : n \in 1..N + 1 /\ Left(d, n) = Left(h, n)
  BY <1>2, <1>7 DEF Left
<1>10. Left(d, N + 1) = 1..Len(ch) /\ N + 1 \in 1..N + 1
  BY <1>2, <1>5, <1>7 DEF Left
<1>11. \A p : IsLeft(d, p) <=> IsLeft(h, p) \/ \E k \in 1..Len(ch) : p = ch[k]
  BY <1>3, <1>5, <1>7, <1>8, <1>9, <1>10 DEF IsLeft
<1>12. \A k \in 1..Len(ch) : /\ ch[k] \in Paths /\ IsPrefix(q, ch[k])
                             /\ Len(ch[k]) = Len(q) + 1 /\ ~IsPrefix(ch[k], q)
  <2> SUFFICES ASSUME NEW k \in 1..Len(ch)
               PROVE  /\ ch[k] \in Paths /\ IsPrefix(q, ch[k])
                      /\ Len(ch[k]) = Len(q) + 1 /\ ~IsPrefix(ch[k], q)
    OBVIOUS
  <2>1. ch[k] \in Paths /\ ch[k] # <<>> /\ Front(ch[k]) = q
    BY <1>1, <1>4
  <2>2. Len(q) = Len(ch[k]) - 1 /\ IsPrefix(q, ch[k])
    BY <2>1, FrontAndLast
  <2>3. Len(q) \in Nat /\ Len(ch[k]) \in Nat
    BY <1>2, <2>1, PrefixOrder
  <2>4. Len(ch[k]) = Len(q) + 1 /\ ~(Len(ch[k]) <= Len(q))
    BY <2>2, <2>3
  <2>5. QED BY <1>2, <2>1, <2>2, <2>4, PrefixOrder
<1>13. \A n \in 1..N : h[n].next \in 1..Len(h[n].list) + 1
  BY <1>3 DEF Siblings
<1>14. \A p : IsLeft(h, p) => p \in Paths
  BY <1>3, <1>13, LeftIsPath, LevelIs
<1>15. ASSUME NEW p, IsLeft(h, p), NEW k \in 1..Len(ch)
       PROVE  ~IsPrefix(p, ch[k]) /\ ~IsPrefix(ch[k], p)
  <2>1. p \in Paths /\ ~IsPrefix(p, q) /\ ~IsPrefix(q, p)
    BY <1>3, <1>14, <1>15
  <2>2. ch[k] \in Paths /\ ch[k] # <<>> /\ Front(ch[k]) = q /\ IsPrefix(q, ch[k])
    BY <1>1, <1>4, <1>12
  <2>3. ~IsPrefix(ch[k], p)
    BY <1>2, <2>1, <2>2, PrefixOrder
  <2>4. ~IsPrefix(p, ch[k])
    BY <2>1, <2>2, AboveFront
  <2>5. QED BY <2>3, <2>4
<1>16. Apart(d)
  <2> SUFFICES ASSUME NEW n \in 1..N + 1, NEW m \in 1..N + 1,
                      NEW k \in Left(d, n), NEW l \in Left(d, m),
                      IsPrefix(d[n].list[k], d[m].list[l])
               PROVE  n = m /\ k = l
    BY <1>7 DEF Apart
  <2>1. CASE n \in 1..N /\ m \in 1..N
    BY <1>3, <1>7, <1>9, <2>1 DEF Apart
  <2>2. CASE n \in 1..N /\ m = N + 1
    <3>1. IsLeft(h, h[n].list[k]) /\ l \in 1..Len(ch) /\ d[m].list[l] = ch[l]
      BY <1>3, <1>5, <1>7, <1>9, <1>10, <2>2 DEF IsLeft
    <3>2. QED BY <1>7, <1>15, <2>2, <3>1
  <2>3. CASE n = N + 1 /\ m \in 1..N
    <3>1. IsLeft(h, h[m].list[l]) /\ k \in 1..Len(ch) /\ d[n].list[k] = ch[k]
      BY <1>3, <1>5, <1>7, <1>9, <1>10, <2>3 DEF IsLeft
    <3>2. QED BY <1>7, <1>15, <2>3, <3>1
  <2>4. CASE n = N + 1 /\ m = N + 1
    <3>1. /\ k \in 1..Len(ch) /\ l \in 1..Len(ch)
          /\ d[n].list[k] = ch[k] /\ d[m].list[l] = ch[l]
      BY <1>5, <1>7, <1>10, <2>4
    <3>2. ch[k] = ch[l]
      BY <1>12, <3>1, PrefixOrder
    <3>3. QED BY <1>4, <2>4, <3>1, <3>2
  <2>5. QED BY <1>8, <2>1, <2>2, <2>3, <2>4
<1>17. Stack(t, d)
  <2>1. \A n \in 1..N + 1 : Siblings(t, d[n])
    BY <1>3, <1>6, <1>7, <1>8
  <2>2. d[N + 1].next <= Len(d[N + 1].list)
    BY <1>4, <1>5, <1>7
  <2>3. QED BY <1>7, <1>16, <2>1, <2>2 DEF Stack
<1>18. \A p \in Paths : Covers(d, p) => Covers(s, p)
  <2> SUFFICES ASSUME NEW p \in Paths, NEW r \in Paths, IsLeft(d, r), IsPrefix(r, p)
               PROVE  Covers(s, p)
    BY DEF Covers
  <2>1. CASE IsLeft(h, r)
    BY <1>3, <2>1 DEF Covers
  <2>2. CASE \E k \in 1..Len(ch) : r = ch[k]
    <3>1. IsPrefix(q, p)
      BY <1>2, <1>12, <2>2, PrefixOrder
    <3>2. IsLeft(s, q)
      <4>1. Len(s) \in 1..Len(s) /\ s[Len(s)].next \in Left(s, Len(s))
        BY <1>1, TopIs
      <4>2. QED BY <4>1 DEF IsLeft, TopPath, q
    <3>3. QED BY <1>2, <3>1, <3>2 DEF Covers
  <2>3. QED BY <1>11, <2>1, <2>2
<1>19. ~Covers(d, q)
  BY <1>3, <1>11, <1>12 DEF Covers
<1>20. ASSUME NEW p \in DOMAIN t, Covers(s, p), p # q PROVE Covers(d, p)
  <2>1. PICK r \in Paths : IsLeft(s, r) /\ IsPrefix(r, p)
    BY <1>20 DEF Covers
  <2>2. CASE r = q
    <3>1. PICK c \in ChildrenOf(t, q) : IsPrefix(c, p)
      BY <1>2, <1>20, <2>1, <2>2, ChildAbove
    <3>2. PICK k \in 1..Len(ch) : ch[k] = c
      BY <1>4
    <3>3. IsLeft(d, ch[k]) /\ ch[k] \in Paths
      BY <1>11, <1>12
    <3>4. QED BY <3>1, <3>2, <3>3 DEF Covers
  <2>3. CASE r # q
    BY <1>3, <1>11, <2>1, <2>3 DEF Covers
  <2>4. QED BY <2>2, <2>3
<1>21. ASSUME NEW n \in 1..N + 1
       PROVE  DirOf(d[n]) = q \/ \E i \in 1..N : DirOf(d[n]) = DirOf(s[i])
  <2>1. CASE n = N + 1
    BY <1>6, <1>7, <2>1
  <2>2. CASE n \in 1..N
    <3>1. d[n].list = s[n].list
      <4>1. d[n] = [list |-> s[n].list, next |-> IF n = N THEN s[n].next + 1 ELSE s[n].next]
        BY <1>3, <1>7, <2>2
      <4>2. QED BY ONLY <4>1
    <3>2. QED BY <2>2, <3>1 DEF DirOf
  <2>3. QED BY <1>8, <2>1, <2>2
<1>22. Turned(t, s, d)
  BY <1>7, <1>17, <1>18, <1>19, <1>20, <1>21 DEF Turned, q
<1>23. Unwound(d) = d
  <2> DEFINE S == {n \in 1..Len(d) : d[n].next <= Len(d[n].list)}
             m == Max({0} \cup S)
  <2>1. N + 1 \in S
    BY <1>4, <1>5, <1>7, <1>10
  <2>2. S \in SUBSET (1..Len(d)) /\ Unwound(d) = SubSeq(d, 1, m)
    BY DEF Unwound
  <2> HIDE DEF S
  <2>3. m \in 0..Len(d) /\ \A n \in S : n <= m
    BY <1>7, <2>2, CutTo
  <2> HIDE DEF m
  <2>4. m = Len(d)
    BY <1>2, <1>7, <2>1, <2>3
  <2>5. QED BY <1>7, <2>2, <2>4, SubSeqFull
<1>24. QED BY <1>6, <1>7, <1>22, <1>23 DEF q, h, d, new

-----------------------------------------------------------------------------
(* What Root::Root does with an item, by what writeFile did when it wrote it *)

\* Root::Root's stack after an item says what writeFile's said.
Frames == [dir : Paths, left : Nat]
Mirrors(ps, s) ==
  /\ ps \in Seq(Frames) /\ Len(ps) = Len(s)
  /\ \A n \in 1..Len(s) :
       ps[n] = [dir |-> DirOf(s[n]), left |-> Len(s[n].list) - s[n].next + 1]

\* What Root::Root has built when writeFile's stack was s: all but what was left.
Built(t, l, s) ==
  /\ l \in [DOMAIN l -> Nodes] /\ WellFormed(l)
  /\ \A p \in DOMAIN l : p \in DOMAIN t /\ l[p] = t[p] /\ ~Covers(s, p)
  /\ \A p \in DOMAIN t : p \in DOMAIN l \/ Covers(s, p)
  /\ \A n \in 1..Len(s) : IsDir(l, DirOf(s[n]))

LEMMA DirIs ==
  ASSUME NEW t, Tree(t), NEW s, Stack(t, s), NEW n \in 1..Len(s)
  PROVE  DirOf(s[n]) \in Paths /\ IsDir(t, DirOf(s[n]))
<1>1. s[n] \in Levels /\ Siblings(t, s[n])
  BY ElementOfSeq DEF Stack
<1>2. s[n].list \in Seq(Paths) /\ s[n].list # <<>>
  BY <1>1 DEF Levels, Siblings
<1>3. 1 \in 1..Len(s[n].list)
  BY <1>2, EmptySeq
<1> DEFINE c == s[n].list[1]
<1>4. c \in DOMAIN t
  BY <1>1, <1>3 DEF Siblings
<1>5. c \in Paths /\ c # <<>> /\ \A q \in Paths : IsPrefix(q, c) /\ q # c => IsDir(t, q)
  BY <1>4, TreeAbove
<1> HIDE DEF c
<1>6. Front(c) \in Paths /\ Len(Front(c)) = Len(c) - 1 /\ IsPrefix(Front(c), c) /\ Len(c) \in Nat
  BY <1>5, FrontAndLast, PrefixOrder
<1>7. Front(c) # c
  BY <1>6
<1>8. QED BY <1>5, <1>6, <1>7 DEF DirOf, c

LEMMA TopIsLeft ==
  ASSUME NEW t, Tree(t), NEW s, Stack(t, s), s # <<>> PROVE IsLeft(s, TopPath(s))
<1>1. Len(s) \in 1..Len(s) /\ s[Len(s)].next \in Left(s, Len(s))
  BY TopIs DEF Tree
<1>2. QED BY <1>1 DEF IsLeft, TopPath

\* The node that is written is the one that is added, and nothing is replaced by it.
LEMMA BuiltStep ==
  ASSUME NEW t, Tree(t), NEW s, Stack(t, s), s # <<>>, NEW s2, Turned(t, s, s2),
         NEW l, Built(t, l, s)
  PROVE  Built(t, AddChild(l, TopPath(s), t[TopPath(s)]), s2)
<1> DEFINE q == TopPath(s)
           l2 == AddChild(l, q, t[q])
<1>1. /\ q \in DOMAIN t /\ q \in Paths /\ q # <<>> /\ Front(q) = DirOf(s[Len(s)])
      /\ Len(s) \in 1..Len(s)
  BY TopIs DEF Tree
<1>2. IsLeft(s, q)
  BY TopIsLeft
<1> HIDE DEF q
<1>3. t[q] \in Nodes /\ \A p \in DOMAIN t : p \in Paths /\ p # <<>>
  BY <1>1 DEF Tree
<1>4. \A p \in DOMAIN l : p \in Paths /\ ~IsPrefix(q, p)
  BY <1>1, <1>2, <1>3 DEF Built, Covers
<1>5. /\ l2 = [p \in DOMAIN l \cup {q} |-> IF p = q THEN t[q] ELSE l[p]]
      /\ q \notin DOMAIN l
  <2>1. {p \in DOMAIN l : ~IsPrefix(q, p)} = DOMAIN l
    BY <1>4
  <2>2. q \notin DOMAIN l
    BY <1>1, <1>4, PrefixOrder
  <2>3. QED BY <2>1, <2>2 DEF AddChild
<1> HIDE DEF l2
<1>6. /\ DOMAIN l2 = DOMAIN l \cup {q} /\ l2[q] = t[q]
      /\ \A p \in DOMAIN l : l2[p] = l[p]
  BY <1>5
<1>7. l2 \in [DOMAIN l2 -> Nodes]
  BY <1>3, <1>5, <1>6 DEF Built
<1>8. \A d : IsDir(l, d) => IsDir(l2, d)
  BY <1>6 DEF IsDir
<1>9. WellFormed(l2)
  <2>1. IsDir(l, Front(q))
    BY <1>1 DEF Built
  <2>2. QED BY <1>1, <1>6, <1>8, <2>1 DEF Built, WellFormed
<1>10. \A p \in DOMAIN l2 : p \in DOMAIN t /\ l2[p] = t[p]
  BY <1>1, <1>6 DEF Built
<1>11. \A p \in DOMAIN l2 : ~Covers(s2, p)
  BY <1>4, <1>6 DEF Built, Turned, q
<1>12. \A p \in DOMAIN t : p \in DOMAIN l2 \/ Covers(s2, p)
  BY <1>6 DEF Built, Turned, q
<1>13. ASSUME NEW n \in 1..Len(s2) PROVE IsDir(l2, DirOf(s2[n]))
  <2>1. CASE DirOf(s2[n]) = q
    <3>1. IsDir(t, q)
      BY <2>1, DirIs DEF Turned
    <3>2. QED BY <1>1, <1>6, <2>1, <3>1 DEF IsDir
  <2>2. CASE \E i \in 1..Len(s) : DirOf(s2[n]) = DirOf(s[i])
    BY <1>8, <2>2 DEF Built
  <2>3. QED BY <2>1, <2>2 DEF Turned, q
<1>14. QED BY <1>7, <1>9, <1>10, <1>11, <1>12, <1>13 DEF Built, l2, q

\* Nothing is left: all is built.
LEMMA AllBuilt == ASSUME NEW t, Tree(t), NEW l, Built(t, l, <<>>) PROVE l = t
<1>1. \A p : ~Covers(<<>>, p)
  BY EmptySeq DEF Covers, IsLeft
<1>2. DOMAIN l = DOMAIN t /\ \A p \in DOMAIN l : l[p] = t[p]
  BY <1>1 DEF Built
<1>3. l \in [DOMAIN t -> Nodes] /\ t \in [DOMAIN t -> Nodes]
  BY <1>2 DEF Built, Tree
<1>4. QED BY <1>2, <1>3

\* state.top().second-- and next = next + 1 are the same.
LEMMA MirrorsStepped ==
  ASSUME NEW t, Tree(t), NEW s, Stack(t, s), s # <<>>, NEW ps, Mirrors(ps, s)
  PROVE  /\ ps # <<>>
         /\ Mirrors(Append(Front(ps), [Last(ps) EXCEPT !.left = CountDown(@)]), Stepped(s))
<1> DEFINE N == Len(s)
           h == Stepped(s)
           L == Len(s[N].list)
           x == [Last(ps) EXCEPT !.left = CountDown(@)]
           y == [dir |-> DirOf(s[N]), left |-> L - s[N].next]
           here == Append(Front(ps), x)
<1>1. /\ N \in Nat \ {0} /\ N \in 1..N /\ s[N].next \in 1..L /\ s \in Seq(Levels)
      /\ DirOf(s[N]) \in Paths
  BY TopIs, DirIs DEF Tree, Stack
<1>2. L \in Nat /\ s[N].next \in Nat
  BY <1>1, LevelIs
<1>3. /\ h \in Seq(Levels) /\ Len(h) = N
      /\ \A n \in 1..N : h[n] = [list |-> s[n].list,
                                 next |-> IF n = N THEN s[n].next + 1 ELSE s[n].next]
  BY SteppedIs DEF Tree
<1> HIDE DEF h
<1>4. ps \in Seq(Frames) /\ Len(ps) = N /\ ps # <<>>
  BY <1>1, EmptySeq DEF Mirrors
<1>5. x = y /\ y \in Frames
  <2>1. Last(ps) = [dir |-> DirOf(s[N]), left |-> L - s[N].next + 1]
    BY <1>1, <1>4 DEF Mirrors, Last
  <2>2. L - s[N].next + 1 - 1 = L - s[N].next /\ L - s[N].next \in Nat
    BY <1>1, <1>2
  <2> HIDE DEF L
  <2>3. QED BY <1>1, <2>1, <2>2 DEF CountDown, Frames
<1> HIDE DEF x
<1>6. here \in Seq(Frames) /\ Len(here) = N /\ here[N] = y /\ \A n \in 1..N - 1 : here[n] = ps[n]
  <2> HIDE DEF y
  <2>1. x \in Frames
    BY <1>5
  <2>2. QED BY <1>4, <1>5, <2>1, LastReplaced
<1> HIDE DEF here
<1>7. ASSUME NEW n \in 1..N
      PROVE  here[n] = [dir |-> DirOf(h[n]), left |-> Len(h[n].list) - h[n].next + 1]
  <2>1. h[n].list = s[n].list /\ h[n].next = IF n = N THEN s[n].next + 1 ELSE s[n].next
    <3>1. h[n] = [list |-> s[n].list, next |-> IF n = N THEN s[n].next + 1 ELSE s[n].next]
      BY <1>3
    <3>2. QED BY ONLY <3>1
  <2>2. CASE n = N
    <3>1. L - (s[N].next + 1) + 1 = L - s[N].next
      BY <1>2
    <3>2. QED BY <1>6, <2>1, <2>2, <3>1 DEF DirOf
  <2>3. CASE n # N
    <3>1. n \in 1..N - 1
      BY <1>1, <2>3
    <3>2. QED BY <1>6, <2>1, <2>3, <3>1 DEF Mirrors, DirOf
  <2>4. QED BY <2>2, <2>3
<1>8. QED BY <1>3, <1>4, <1>6, <1>7 DEF Mirrors, here, h, x

\* What Root::Root pops is what writeFile popped.
LEMMA MirrorsClosed ==
  ASSUME NEW t, NEW h \in Seq(Levels), \A n \in 1..Len(h) : Siblings(t, h[n]),
         NEW ps, Mirrors(ps, h)
  PROVE  Mirrors(Closed(ps), Unwound(h))
<1> DEFINE A == {n \in 1..Len(ps) : ps[n].left # 0}
           B == {n \in 1..Len(h) : h[n].next <= Len(h[n].list)}
           m == Max({0} \cup B)
           c == Closed(ps)
           u == Unwound(h)
<1>1. Len(h) \in Nat /\ \A n \in 1..Len(h) : h[n].next \in Nat /\ Len(h[n].list) \in Nat
  BY LevelIs
<1>2. \A n \in 1..Len(h) : h[n].next \in 1..Len(h[n].list) + 1
  BY DEF Siblings
<1>3. ps \in Seq(Frames) /\ Len(ps) = Len(h)
      /\ \A n \in 1..Len(h) : ps[n].left = Len(h[n].list) - h[n].next + 1
  <2>1. ASSUME NEW n \in 1..Len(h) PROVE ps[n].left = Len(h[n].list) - h[n].next + 1
    <3>1. ps[n] = [dir |-> DirOf(h[n]), left |-> Len(h[n].list) - h[n].next + 1]
      BY DEF Mirrors
    <3>2. QED BY ONLY <3>1
  <2>2. QED BY <2>1 DEF Mirrors
<1>4. A = B
  <2>1. ASSUME NEW n \in 1..Len(h)
        PROVE  ps[n].left # 0 <=> h[n].next <= Len(h[n].list)
    <3>1. \A a, b \in Nat : a <= b + 1 => (b - a + 1 # 0 <=> a <= b)
      OBVIOUS
    <3>2. h[n].next \in Nat /\ Len(h[n].list) \in Nat /\ h[n].next \in 1..Len(h[n].list) + 1
      BY <1>1, <1>2
    <3>3. ps[n].left = Len(h[n].list) - h[n].next + 1
      BY <1>3
    <3>4. QED BY <3>1, <3>2, <3>3
  <2>2. QED BY <1>3, <2>1
<1>5. c = SubSeq(ps, 1, m) /\ u = SubSeq(h, 1, m)
  BY <1>4 DEF Closed, Unwound
<1>6. B \in SUBSET (1..Len(h)) /\ B \in SUBSET (1..Len(ps))
  BY <1>3
<1> HIDE DEF B, c, u
<1>7. m \in 0..Len(h) /\ u \in Seq(Levels) /\ Len(u) = m /\ \A n \in 1..m : u[n] = h[n]
  BY <1>5, <1>6, CutTo
<1>8. c \in Seq(Frames) /\ Len(c) = m /\ \A n \in 1..m : c[n] = ps[n]
  BY <1>3, <1>5, <1>6, CutTo
<1> HIDE DEF m
<1>9. \A n \in 1..m : n \in 1..Len(h)
  BY <1>1, <1>7
<1>10. \A n \in 1..m : c[n] = [dir |-> DirOf(u[n]), left |-> Len(u[n].list) - u[n].next + 1]
  BY <1>7, <1>8, <1>9 DEF Mirrors
<1>11. QED BY <1>7, <1>8, <1>10 DEF Mirrors, c, u

\* A directory with children is pushed by both.
LEMMA MirrorsDeeper ==
  ASSUME NEW t, Tree(t), NEW s, Stack(t, s), s # <<>>,
         NEW ch \in ChildLists(t, TopPath(s)), ch # <<>>,
         NEW here, Mirrors(here, Stepped(s))
  PROVE  Mirrors(Append(here, [dir |-> TopPath(s), left |-> Len(ch)]), Deeper(s, ch))
<1> DEFINE N == Len(s)
           h == Stepped(s)
           d == Deeper(s, ch)
           new == [list |-> ch, next |-> 1]
           x == [dir |-> TopPath(s), left |-> Len(ch)]
           ps == Append(here, x)
<1>1. TopPath(s) \in Paths /\ N \in Nat /\ Len(h) = N
  BY TopIs, SteppedIs DEF Tree
<1>2. Len(ch) \in Nat
  BY <1>1, ChildListIs
<1>3. x \in Frames
  BY <1>1, <1>2 DEF Frames
<1>4. /\ Len(d) = N + 1 /\ d[N + 1] = new /\ DirOf(new) = TopPath(s)
      /\ \A n \in 1..N : d[n] = h[n]
  BY DirTurned
<1>5. here \in Seq(Frames) /\ Len(here) = N
  BY <1>1 DEF Mirrors
<1>6. x = [dir |-> DirOf(new), left |-> Len(new.list) - new.next + 1]
  <2>1. Len(ch) - 1 + 1 = Len(ch)
    BY <1>2
  <2>2. QED BY <1>4, <2>1
<1> HIDE DEF h, d, new, x
<1>7. /\ ps \in Seq(Frames) /\ Len(ps) = N + 1 /\ ps[N + 1] = x
      /\ \A n \in 1..N : ps[n] = here[n]
  BY <1>3, <1>5, AppendProperties
<1> HIDE DEF ps
<1>8. \A n \in 1..N + 1 : n \in 1..N \/ n = N + 1
  BY <1>1
<1>9. \A n \in 1..N : ps[n] = [dir |-> DirOf(d[n]), left |-> Len(d[n].list) - d[n].next + 1]
  BY <1>1, <1>4, <1>7 DEF Mirrors, h
<1>10. \A n \in 1..N + 1 :
         ps[n] = [dir |-> DirOf(d[n]), left |-> Len(d[n].list) - d[n].next + 1]
  BY <1>4, <1>6, <1>7, <1>8, <1>9
<1>11. QED BY <1>4, <1>7, <1>10 DEF Mirrors, d, ps, x

\* The root's item, and the stack after it.
Items == [kind : {"dir"}, name : Names \cup {":/"}, count : Nat]
           \cup [kind : {"file"}, name : Names, offset : Nat, size : Nat]
Begun(t, s, item) ==
  \E ch \in ChildLists(t, <<>>) :
    /\ item = [kind |-> "dir", name |-> ":/", count |-> Len(ch)]
    /\ s = IF ch = <<>> THEN <<>> ELSE <<[list |-> ch, next |-> 1]>>

\* One turn of writeFile's loop: the item it writes, and the stack after it.
DirWritten(t, s, item, s2) ==
  /\ IsDir(t, TopPath(s))
  /\ \E ch \in ChildLists(t, TopPath(s)) :
       /\ item = [kind |-> "dir", name |-> Last(TopPath(s)), count |-> Len(ch)]
       /\ s2 = IF ch = <<>> THEN Unwound(Stepped(s)) ELSE Deeper(s, ch)
FileWritten(t, s, item, s2) ==
  /\ ~IsDir(t, TopPath(s))
  /\ item = [kind |-> "file", name |-> Last(TopPath(s)),
             offset |-> t[TopPath(s)].offset, size |-> t[TopPath(s)].size]
  /\ s2 = Unwound(Stepped(s))
Turn(t, s, item, s2) == DirWritten(t, s, item, s2) \/ FileWritten(t, s, item, s2)

LEMMA BegunIs ==
  ASSUME NEW t, Tree(t), NEW s, NEW item, Begun(t, s, item)
  PROVE  /\ item \in Items /\ item.count \in Nat /\ Stack(t, s)
         /\ s = <<>> => item.count = 0 /\ DOMAIN t = {}
         /\ s # <<>> => /\ item.count # 0 /\ Built(t, EmptyTree, s)
                        /\ Mirrors(<<[dir |-> <<>>, left |-> item.count]>>, s)
<1>1. PICK ch \in ChildLists(t, <<>>) :
        /\ item = [kind |-> "dir", name |-> ":/", count |-> Len(ch)]
        /\ s = IF ch = <<>> THEN <<>> ELSE <<[list |-> ch, next |-> 1]>>
  BY DEF Begun
<1>2. <<>> \in Paths /\ DOMAIN t \subseteq Paths \ {<<>>}
  BY PrefixOrder, EmptySeq DEF Paths, Tree
<1>3. /\ ch \in Seq(Paths) /\ Len(ch) \in Nat
      /\ \A k \in 1..Len(ch) : ch[k] \in DOMAIN t /\ Front(ch[k]) = <<>>
      /\ \A k, l \in 1..Len(ch) : k # l => ch[k] # ch[l]
      /\ \A c \in ChildrenOf(t, <<>>) : \E k \in 1..Len(ch) : ch[k] = c
  BY <1>2, ChildListIs
<1>4. item.count = Len(ch) /\ item \in Items
  BY <1>1, <1>3 DEF Items
<1>5. \A p \in DOMAIN t : \E k \in 1..Len(ch) : IsPrefix(ch[k], p)
  <2> SUFFICES ASSUME NEW p \in DOMAIN t PROVE \E k \in 1..Len(ch) : IsPrefix(ch[k], p)
    OBVIOUS
  <2>1. p \in Paths /\ p # <<>> /\ IsPrefix(<<>>, p)
    BY <1>2, PrefixOrder
  <2>2. PICK c \in ChildrenOf(t, <<>>) : IsPrefix(c, p)
    BY <1>2, <2>1, ChildAbove
  <2>3. QED BY <1>3, <2>2
<1>6. CASE ch = <<>>
  <2>1. s = <<>> /\ Len(ch) = 0 /\ Len(s) = 0 /\ s \in Seq(Levels)
    BY <1>1, <1>6, EmptySeq
  <2>2. Stack(t, s)
    BY <2>1 DEF Stack, Apart
  <2>3. item.count = 0 /\ 1..Len(ch) = {}
    BY <1>4, <2>1
  <2>4. DOMAIN t = {}
    BY <1>5, <2>3
  <2>5. QED BY <1>4, <2>1, <2>2, <2>3, <2>4
<1>7. CASE ch # <<>>
  <2> DEFINE new == [list |-> ch, next |-> 1]
  <2>1. Len(ch) \in Nat \ {0} /\ 1 \in 1..Len(ch)
    BY <1>3, <1>7, EmptySeq
  <2>2. new \in Levels /\ new.list = ch /\ new.next = 1 /\ DirOf(new) = <<>>
    BY <1>3, <2>1 DEF Levels, DirOf
  <2>3. Siblings(t, new)
    BY <1>3, <1>7, <2>1, <2>2 DEF Siblings
  <2>4. s = <<new>>
    BY <1>1, <1>7
  <2> HIDE DEF new
  <2>5. s \in Seq(Levels) /\ Len(s) = 1 /\ s[1] = new /\ s # <<>>
    BY <2>2, <2>4
  <2>6. Left(s, 1) = 1..Len(ch)
    BY <2>2, <2>5 DEF Left
  <2>7. \A k \in 1..Len(ch) : /\ ch[k] \in Paths /\ Len(ch[k]) = 1
    <3> SUFFICES ASSUME NEW k \in 1..Len(ch) PROVE ch[k] \in Paths /\ Len(ch[k]) = 1
      OBVIOUS
    <3>1. ch[k] \in Paths /\ ch[k] # <<>> /\ Front(ch[k]) = <<>>
      BY <1>2, <1>3
    <3>2. Len(<<>>) = Len(ch[k]) - 1 /\ Len(ch[k]) \in Nat
      BY <3>1, FrontAndLast, PrefixOrder
    <3>3. QED BY <3>1, <3>2, EmptySeq
  <2>8. Apart(s)
    <3> SUFFICES ASSUME NEW k \in 1..Len(ch), NEW l \in 1..Len(ch), IsPrefix(ch[k], ch[l])
                 PROVE  k = l
      BY <2>2, <2>5, <2>6 DEF Apart
    <3>1. ch[k] = ch[l]
      BY <2>7, PrefixOrder
    <3>2. QED BY <1>3, <3>1
  <2>9. Stack(t, s)
    BY <2>1, <2>2, <2>3, <2>5, <2>8 DEF Stack
  <2>10. \A p \in DOMAIN t : Covers(s, p)
    <3>1. \A k \in 1..Len(ch) : IsLeft(s, ch[k])
      BY <2>2, <2>5, <2>6 DEF IsLeft
    <3>2. QED BY <1>5, <2>7, <3>1 DEF Covers
  <2>11. Built(t, EmptyTree, s)
    <3>1. DOMAIN EmptyTree = {} /\ EmptyTree \in [DOMAIN EmptyTree -> Nodes]
      BY EmptyIsTree DEF Tree
    <3>2. \A n \in 1..Len(s) : IsDir(EmptyTree, DirOf(s[n]))
      BY <2>2, <2>5 DEF IsDir
    <3>3. QED BY <2>10, <3>1, <3>2 DEF Built, WellFormed
  <2>12. Mirrors(<<[dir |-> <<>>, left |-> item.count]>>, s)
    <3> DEFINE x == [dir |-> <<>>, left |-> Len(ch)]
    <3>1. x \in Frames
      BY <1>2, <1>3 DEF Frames
    <3>2. x = [dir |-> DirOf(new), left |-> Len(new.list) - new.next + 1]
      <4>1. Len(ch) - 1 + 1 = Len(ch)
        BY <1>3
      <4>2. QED BY <2>2, <4>1
    <3> HIDE DEF x
    <3>3. <<x>> \in Seq(Frames) /\ Len(<<x>>) = 1 /\ <<x>>[1] = x
      BY <3>1
    <3>4. Mirrors(<<x>>, s)
      BY <2>5, <3>2, <3>3 DEF Mirrors
    <3>5. QED BY <1>4, <3>4 DEF x
  <2>13. QED BY <1>4, <2>1, <2>5, <2>9, <2>11, <2>12
<1>8. QED BY <1>3, <1>4, <1>6, <1>7

LEMMA TurnIs ==
  ASSUME NEW t, Tree(t), NEW s, Stack(t, s), s # <<>>, NEW item, NEW s2,
         Turn(t, s, item, s2)
  PROVE  item \in Items /\ Turned(t, s, s2) /\ Stack(t, s2)
<1> DEFINE q == TopPath(s)
<1>1. q \in DOMAIN t /\ q \in Paths /\ q # <<>> /\ Last(q) \in Names /\ t[q] \in Nodes
  BY TopIs, FrontAndLast DEF Tree
<1>2. CASE DirWritten(t, s, item, s2)
  <2>1. PICK ch \in ChildLists(t, q) :
          /\ item = [kind |-> "dir", name |-> Last(q), count |-> Len(ch)]
          /\ s2 = IF ch = <<>> THEN Unwound(Stepped(s)) ELSE Deeper(s, ch)
    BY <1>2 DEF DirWritten
  <2>2. Len(ch) \in Nat /\ \A c \in ChildrenOf(t, q) : \E k \in 1..Len(ch) : ch[k] = c
    BY <1>1, ChildListIs
  <2>3. item \in Items
    BY <1>1, <2>1, <2>2 DEF Items
  <2>4. CASE ch = <<>>
    <3>1. ChildrenOf(t, q) = {}
      BY <2>2, <2>4, EmptySeq
    <3>2. QED BY <2>1, <2>3, <2>4, <3>1, LeafTurned DEF Turned
  <2>5. CASE ch # <<>>
    <3>1. Turned(t, s, Deeper(s, ch))
      BY <2>5, DirTurned
    <3>2. QED BY <2>1, <2>3, <2>5, <3>1 DEF Turned
  <2>6. QED BY <2>4, <2>5
<1>3. CASE FileWritten(t, s, item, s2)
  <2>1. t[q] # Dir /\ t[q].offset \in Nat /\ t[q].size \in Nat
    BY <1>1, <1>3 DEF FileWritten, IsDir, Nodes
  <2>2. item \in Items
    BY <1>1, <1>3, <2>1 DEF FileWritten, Items
  <2>3. ChildrenOf(t, q) = {}
    <3> SUFFICES ASSUME NEW c \in ChildrenOf(t, q) PROVE FALSE
      OBVIOUS
    <3>1. c \in DOMAIN t /\ Len(c) = Len(q) + 1 /\ IsPrefix(q, c)
      BY DEF ChildrenOf
    <3>2. q # c
      BY <1>1, <3>1, PrefixOrder
    <3>3. IsDir(t, q)
      BY <1>1, <3>1, <3>2, TreeAbove
    <3>4. QED BY <1>3, <3>3 DEF FileWritten
  <2>4. QED BY <1>3, <2>2, <2>3, LeafTurned DEF FileWritten, Turned
<1>4. QED BY <1>2, <1>3 DEF Turn

\* Root::Root follows writeFile, turn by turn.
LEMMA Parsed ==
  ASSUME NEW t, Tree(t), NoEmptyDirs(t), NEW s, Stack(t, s), s # <<>>,
         NEW item, NEW s2, Turn(t, s, item, s2),
         NEW l, Built(t, l, s), NEW ps, Mirrors(ps, s)
  PROVE  LET path == Append(Last(ps).dir, item.name)
             here == Append(Front(ps), [Last(ps) EXCEPT !.left = CountDown(@)]) IN
         /\ item.kind = "dir" =>
              /\ item.count # 0
              /\ Built(t, AddChild(l, path, Dir), s2)
              /\ Mirrors(Append(here, [dir |-> path, left |-> item.count]), s2)
         /\ item.kind # "dir" =>
              /\ Built(t, AddChild(l, path, File(item.offset, item.size)), s2)
              /\ Mirrors(Closed(here), s2)
<1> DEFINE q == TopPath(s)
           path == Append(Last(ps).dir, item.name)
           here == Append(Front(ps), [Last(ps) EXCEPT !.left = CountDown(@)])
<1>1. /\ q \in DOMAIN t /\ q \in Paths /\ q # <<>> /\ t[q] \in Nodes
      /\ q = Append(Front(q), Last(q)) /\ Front(q) = DirOf(s[Len(s)]) /\ Len(s) \in 1..Len(s)
  BY TopIs, FrontAndLast DEF Tree
<1>2. Mirrors(here, Stepped(s))
  BY MirrorsStepped
<1>3. Turned(t, s, s2)
  BY TurnIs
<1>4. Built(t, AddChild(l, q, t[q]), s2)
  BY <1>3, BuiltStep
<1>5. item.name = Last(q)
  BY DEF Turn, DirWritten, FileWritten
<1>6. Last(ps).dir = Front(q)
  <2>1. ps[Len(s)] = [dir |-> DirOf(s[Len(s)]),
                      left |-> Len(s[Len(s)].list) - s[Len(s)].next + 1]
    BY <1>1 DEF Mirrors
  <2>2. ps[Len(s)].dir = DirOf(s[Len(s)])
    BY ONLY <2>1
  <2>3. Last(ps) = ps[Len(s)]
    BY DEF Mirrors, Last
  <2>4. QED BY <1>1, <2>2, <2>3
<1>7. path = q
  BY <1>1, <1>5, <1>6
<1> HIDE DEF here, path
<1>8. CASE DirWritten(t, s, item, s2)
  <2>1. t[q] = Dir
    BY <1>1, <1>8 DEF DirWritten, IsDir
  <2>2. PICK ch \in ChildLists(t, q) :
          /\ item = [kind |-> "dir", name |-> Last(q), count |-> Len(ch)]
          /\ s2 = IF ch = <<>> THEN Unwound(Stepped(s)) ELSE Deeper(s, ch)
    BY <1>8 DEF DirWritten
  <2>3. /\ ch \in Seq(Paths) /\ Len(ch) \in Nat
        /\ \A c \in ChildrenOf(t, q) : \E k \in 1..Len(ch) : ch[k] = c
    BY <1>1, ChildListIs
  <2>4. ChildrenOf(t, q) # {}
    BY <1>1, <2>1 DEF NoEmptyDirs
  <2>5. Len(ch) # 0 /\ ch # <<>>
    BY <2>3, <2>4, EmptySeq
  <2>6. Mirrors(Append(here, [dir |-> q, left |-> Len(ch)]), s2)
    BY <1>2, <2>2, <2>5, MirrorsDeeper
  <2>7. item.kind = "dir" /\ item.count = Len(ch)
    BY <2>2
  <2>8. QED BY <1>4, <1>7, <2>1, <2>5, <2>6, <2>7 DEF here, path
<1>9. CASE FileWritten(t, s, item, s2)
  <2>1. t[q] # Dir
    BY <1>1, <1>9 DEF FileWritten, IsDir
  <2>2. item.kind # "dir" /\ t[q] = File(item.offset, item.size)
    BY <1>1, <1>9, <2>1 DEF FileWritten, Nodes, File
  <2>3. /\ Stepped(s) \in Seq(Levels)
        /\ \A n \in 1..Len(Stepped(s)) : Siblings(t, Stepped(s)[n])
    BY SteppedIs DEF Tree
  <2>4. Mirrors(Closed(here), s2)
    BY <1>2, <1>9, <2>3, MirrorsClosed DEF FileWritten
  <2>5. QED BY <1>4, <1>7, <2>2, <2>4 DEF here, path
<1>10. QED BY <1>8, <1>9 DEF Turn

-----------------------------------------------------------------------------
(* The table, and the tree that is made from it *)

\* W is the history of writeFile's stack: W[c] is what it held after c items.
History(t, tc, W) ==
  /\ Len(tc) > 0 /\ Begun(t, W[1], tc[1])
  /\ \A c \in 1..Len(tc) : Stack(t, W[c])
  /\ \A c \in 1..Len(tc) - 1 : W[c] # <<>> /\ Turn(t, W[c], tc[c + 1], W[c + 1])

\* While Root::Root reads, its stack and its tree are what writeFile's stack was
\* when it had written as many items.
TableInv ==
  /\ toc \in Seq(Items)
  /\ phase \in {"config", "toc", "data", "parse", "loaded", "failed"}
  /\ phase = "config" => loaded = EmptyTree /\ cursor = 0
  /\ phase = "toc" => /\ \E W : History(tree, toc, W) /\ W[Len(toc)] = stack
                      /\ loaded = EmptyTree /\ cursor = 0
  /\ phase = "data" => /\ \E W : History(tree, toc, W) /\ W[Len(toc)] = <<>>
                       /\ loaded = EmptyTree /\ cursor \in 1..Len(files) + 1
  /\ phase = "parse" => /\ cursor \in 1..Len(toc) - 1
                        /\ \E W : /\ History(tree, toc, W) /\ W[Len(toc)] = <<>>
                                  /\ Mirrors(stack, W[cursor])
                                  /\ Built(tree, loaded, W[cursor])
  /\ phase = "loaded" => loaded = tree /\ cursor = Len(toc)
  /\ phase = "failed" => loaded = EmptyTree /\ cursor \in 0..Len(files) + 1

PackInv == BuilderInv /\ TableInv

LEMMA HistoryBegins ==
  ASSUME NEW t, Tree(t), NEW s, NEW item, Begun(t, s, item)
  PROVE  /\ <<item>> \in Seq(Items) /\ <<item>> # <<>>
         /\ \E W : History(t, <<item>>, W) /\ W[Len(<<item>>)] = s
<1> DEFINE W == [c \in {1} |-> s]
<1>1. item \in Items /\ Stack(t, s)
  BY BegunIs
<1>2. <<item>> \in Seq(Items) /\ Len(<<item>>) = 1 /\ <<item>>[1] = item /\ W[1] = s
  BY <1>1
<1> HIDE DEF W
<1>3. History(t, <<item>>, W)
  BY <1>1, <1>2 DEF History
<1>4. QED BY <1>2, <1>3

Extended(W, n, s) == [c \in 1..n + 1 |-> IF c = n + 1 THEN s ELSE W[c]]

LEMMA HistoryGrows ==
  ASSUME NEW t, Tree(t), NEW tc \in Seq(Items), NEW W, History(t, tc, W),
         NEW s, s = W[Len(tc)], s # <<>>, NEW item, NEW s2, Turn(t, s, item, s2),
         NEW tc2, tc2 = Append(tc, item)
  PROVE  /\ tc2 \in Seq(Items) /\ Len(tc2) = Len(tc) + 1
         /\ History(t, tc2, Extended(W, Len(tc), s2))
<1> DEFINE N == Len(tc)
           W2 == Extended(W, N, s2)
<1>1. N \in Nat \ {0} /\ N \in 1..N
  BY LenProperties DEF History
<1>2. Stack(t, W[N])
  BY <1>1 DEF History
<1>3. item \in Items /\ Stack(t, s2)
  BY <1>2, TurnIs
<1>4. /\ tc2 \in Seq(Items) /\ Len(tc2) = N + 1 /\ tc2[N + 1] = item
      /\ \A c \in 1..N : tc2[c] = tc[c]
  BY <1>3, AppendProperties
<1>5. W2[N + 1] = s2 /\ \A c \in 1..N : W2[c] = W[c]
  BY <1>1 DEF Extended
<1> HIDE DEF W2
<1>6. Begun(t, W2[1], tc2[1])
  BY <1>1, <1>4, <1>5 DEF History
<1>7. \A c \in 1..N + 1 : Stack(t, W2[c])
  <2>1. \A c \in 1..N + 1 : c = N + 1 \/ c \in 1..N
    BY <1>1
  <2>2. QED BY <1>3, <1>5, <2>1 DEF History
<1>8. ASSUME NEW c \in 1..N
      PROVE  W2[c] # <<>> /\ Turn(t, W2[c], tc2[c + 1], W2[c + 1])
  <2>1. CASE c = N
    BY <1>1, <1>4, <1>5, <2>1
  <2>2. CASE c # N
    <3>1. c \in 1..N - 1 /\ c + 1 \in 1..N
      BY <1>1, <2>2
    <3>2. QED BY <1>4, <1>5, <3>1 DEF History
  <2>3. QED BY <2>1, <2>2
<1>9. N + 1 - 1 = N /\ N + 1 > 0
  BY <1>1
<1>10. History(t, tc2, W2)
  BY <1>4, <1>6, <1>7, <1>8, <1>9 DEF History
<1>11. QED BY <1>4, <1>10 DEF W2

\* The steps that leave the table and the program's tree alone.
LEMMA TableStays ==
  ASSUME TableInv, Len(files') \in Nat, UNCHANGED <<toc, loaded, cursor>>,
         \/ phase = "config" /\ phase' \in {"config", "failed"}
         \/ phase = "data" /\ phase' = "failed" /\ files' = files
         \/ UNCHANGED <<phase, stack, tree, files>>
  PROVE  TableInv'
<1>1. CASE phase = "config" /\ phase' \in {"config", "failed"}
  BY <1>1 DEF TableInv
<1>2. CASE phase = "data" /\ phase' = "failed" /\ files' = files
  BY <1>2 DEF TableInv
<1>3. CASE UNCHANGED <<phase, stack, tree, files>>
  BY <1>3 DEF TableInv
<1>4. QED BY <1>1, <1>2, <1>3

LEMMA BeginWriteKeepsTable ==
  ASSUME PackInv, NEW children, BeginWrite(children) PROVE TableInv'
<1> DEFINE item == [kind |-> "dir", name |-> ":/", count |-> Len(children)]
<1>1. /\ phase = "config" /\ phase' = "toc" /\ tree' = tree /\ loaded' = EmptyTree /\ cursor' = 0
      /\ toc' = <<item>>
  BY DEF BeginWrite, PackInv, TableInv, builder
<1>2. Begun(tree, stack', item)
  BY DEF BeginWrite, Begun
<1> HIDE DEF item
<1>3. /\ toc' \in Seq(Items)
      /\ \E W : History(tree', toc', W) /\ W[Len(toc')] = stack'
  BY <1>1, <1>2, HistoryBegins DEF PackInv, BuilderInv
<1>4. QED BY <1>1, <1>3 DEF TableInv

LEMMA WriteItemKeepsTable ==
  ASSUME PackInv, NEW children, WriteItem(children) PROVE TableInv'
<1>1. /\ phase = "toc" /\ phase' = "toc" /\ stack # <<>> /\ tree' = tree
      /\ loaded' = EmptyTree /\ cursor' = 0 /\ toc \in Seq(Items) /\ Tree(tree)
  BY DEF WriteItem, PackInv, BuilderInv, TableInv, builder
<1>2. PICK W : History(tree, toc, W) /\ W[Len(toc)] = stack
  BY <1>1 DEF PackInv, TableInv
<1>3. Stack(tree, stack)
  BY <1>2, LenProperties, <1>1 DEF History
<1>4. PICK item : toc' = Append(toc, item) /\ Turn(tree, stack, item, stack')
  <2> DEFINE q == TopPath(stack)
  <2>1. q = Last(stack).list[Last(stack).next]
    BY DEF TopPath, Last
  <2>2. CASE IsDir(tree, q)
    <3> DEFINE item == [kind |-> "dir", name |-> Last(q), count |-> Len(children)]
    <3>1. /\ children \in ChildLists(tree, q) /\ toc' = Append(toc, item)
          /\ stack' = Unwound(IF children = <<>> THEN Stepped(stack)
                              ELSE Deeper(stack, children))
      BY <2>1, <2>2 DEF WriteItem, Stepped, Deeper
    <3>2. children # <<>> => Unwound(Deeper(stack, children)) = Deeper(stack, children)
      BY <1>1, <1>3, <3>1, DirTurned
    <3>3. DirWritten(tree, stack, item, stack')
      BY <2>2, <3>1, <3>2 DEF DirWritten
    <3>4. QED BY <3>1, <3>3 DEF Turn
  <2>3. CASE ~IsDir(tree, q)
    <3> DEFINE item == [kind |-> "file", name |-> Last(q),
                        offset |-> tree[q].offset, size |-> tree[q].size]
    <3>1. toc' = Append(toc, item) /\ stack' = Unwound(Stepped(stack))
      BY <2>1, <2>3 DEF WriteItem, Stepped
    <3>2. FileWritten(tree, stack, item, stack')
      BY <2>3, <3>1 DEF FileWritten
    <3>3. QED BY <3>1, <3>2 DEF Turn
  <2>4. QED BY <2>2, <2>3
<1>5. /\ toc' \in Seq(Items)
      /\ \E W2 : History(tree', toc', W2) /\ W2[Len(toc')] = stack'
  <2> DEFINE W2 == Extended(W, Len(toc), stack')
  <2>1. toc' \in Seq(Items) /\ Len(toc') = Len(toc) + 1 /\ History(tree, toc', W2)
    <3>1. Tree(tree) /\ toc \in Seq(Items) /\ History(tree, toc, W) /\ stack # <<>>
      BY <1>1, <1>2
    <3>2. stack = W[Len(toc)]
      BY <1>2
    <3> DEFINE s2 == stack'
               tc2 == toc'
    <3>3. Turn(tree, stack, item, s2) /\ tc2 = Append(toc, item)
      BY <1>4
    <3> HIDE DEF s2, tc2, W2
    <3>4. tc2 \in Seq(Items)
      BY ONLY <3>1, <3>2, <3>3, HistoryGrows
    <3>5. Len(tc2) = Len(toc) + 1
      BY ONLY <3>1, <3>2, <3>3, HistoryGrows
    <3>6. History(tree, tc2, Extended(W, Len(toc), s2))
      BY ONLY <3>1, <3>2, <3>3, HistoryGrows
    <3>7. QED BY <3>4, <3>5, <3>6 DEF tc2, s2, W2
  <2>2. W2[Len(toc')] = stack'
    <3>1. Len(toc) \in Nat
      BY <1>1, LenProperties
    <3>2. QED BY <2>1, <3>1 DEF Extended
  <2> HIDE DEF W2
  <2>3. QED BY <1>1, <2>1, <2>2
<1>6. QED BY <1>1, <1>5 DEF TableInv

LEMMA BeginLoadKeepsTable == ASSUME PackInv, BeginLoad PROVE TableInv'
<1>1. /\ phase = "data" /\ toc' = toc /\ tree' = tree /\ loaded' = EmptyTree /\ cursor' = 1
      /\ toc \in Seq(Items) /\ Tree(tree) /\ Len(toc) \in Nat
  BY LenProperties DEF BeginLoad, PackInv, BuilderInv, TableInv, builder
<1>2. PICK W : History(tree, toc, W) /\ W[Len(toc)] = <<>>
  BY <1>1 DEF PackInv, TableInv
<1>3. Begun(tree, W[1], toc[1]) /\ Len(toc) > 0
  BY <1>2 DEF History
<1>5. CASE W[1] = <<>>
  <2>1. toc[1].count = 0 /\ DOMAIN tree = {}
    BY <1>1, <1>3, <1>5, BegunIs
  <2>2. phase' = "loaded"
    BY <2>1 DEF BeginLoad
  <2>3. Len(toc) = 1
    <3>1. ~(1 \in 1..Len(toc) - 1)
      BY <1>2, <1>5 DEF History
    <3>2. Len(toc) \in Nat /\ Len(toc) > 0
      BY <1>1, <1>3
    <3>3. \A m \in Nat : m > 0 /\ ~(1 \in 1..m - 1) => m = 1
      OBVIOUS
    <3>4. QED BY ONLY <3>1, <3>2, <3>3
  <2>4. EmptyTree = tree
    <3>1. DOMAIN EmptyTree = {} /\ Tree(EmptyTree)
      BY EmptyIsTree
    <3>2. tree \in [{} -> Nodes] /\ EmptyTree \in [{} -> Nodes]
      BY <1>1, <2>1, <3>1 DEF Tree
    <3>3. QED BY <3>2
  <2>5. QED BY <1>1, <2>2, <2>3, <2>4 DEF TableInv
<1>6. CASE W[1] # <<>>
  <2>1. /\ toc[1].count # 0 /\ Built(tree, EmptyTree, W[1])
        /\ Mirrors(<<[dir |-> <<>>, left |-> toc[1].count]>>, W[1])
    BY <1>1, <1>3, <1>6, BegunIs
  <2>2. phase' = "parse" /\ stack' = <<[dir |-> <<>>, left |-> toc[1].count]>>
    BY <2>1 DEF BeginLoad
  <2>3. cursor' \in 1..Len(toc') - 1
    BY <1>1, <1>2, <1>3, <1>6
  <2>4. History(tree', toc', W) /\ W[Len(toc')] = <<>>
        /\ Mirrors(stack', W[cursor']) /\ Built(tree', loaded', W[cursor'])
    BY <1>1, <1>2, <2>1, <2>2
  <2>5. QED BY <1>1, <2>2, <2>3, <2>4 DEF TableInv
<1>7. QED BY <1>5, <1>6

LEMMA ParseItemKeepsTable == ASSUME PackInv, ParseItem PROVE TableInv'
<1> DEFINE item == toc[cursor + 1]
           path == Append(Last(stack).dir, item.name)
           here == Append(Front(stack), [Last(stack) EXCEPT !.left = CountDown(@)])
<1>1. /\ phase = "parse" /\ toc' = toc /\ tree' = tree /\ cursor' = cursor + 1
      /\ toc \in Seq(Items) /\ Tree(tree) /\ NoEmptyDirs(tree) /\ Len(toc) \in Nat
      /\ cursor \in 1..Len(toc) - 1
      /\ phase' = IF stack' = <<>> THEN "loaded" ELSE "parse"
  BY LenProperties DEF ParseItem, PackInv, BuilderInv, TableInv, builder
<1>2. PICK W : /\ History(tree, toc, W) /\ W[Len(toc)] = <<>>
               /\ Mirrors(stack, W[cursor]) /\ Built(tree, loaded, W[cursor])
  BY <1>1 DEF PackInv, TableInv
<1> DEFINE s == W[cursor]
           s2 == W[cursor + 1]
<1>3. cursor \in 1..Len(toc) /\ cursor + 1 \in 1..Len(toc)
  BY <1>1
<1>4. /\ Stack(tree, s) /\ s # <<>> /\ Turn(tree, s, item, s2) /\ Stack(tree, s2)
      /\ Mirrors(stack, s) /\ Built(tree, loaded, s)
  BY <1>1, <1>2, <1>3 DEF History
<1> HIDE DEF s, s2, item
<1>5. /\ item.kind = "dir" =>
           /\ item.count # 0
           /\ Built(tree, AddChild(loaded, path, Dir), s2)
           /\ Mirrors(Append(here, [dir |-> path, left |-> item.count]), s2)
      /\ item.kind # "dir" =>
           /\ Built(tree, AddChild(loaded, path, File(item.offset, item.size)), s2)
           /\ Mirrors(Closed(here), s2)
  BY <1>1, <1>4, Parsed
<1>6. Built(tree, loaded', s2) /\ Mirrors(stack', s2)
  <2>1. CASE item.kind = "dir"
    <3>1. /\ loaded' = AddChild(loaded, path, Dir)
          /\ stack' = Append(here, [dir |-> path, left |-> item.count])
      BY <1>5, <2>1 DEF ParseItem, item
    <3>2. QED BY <1>5, <2>1, <3>1
  <2>2. CASE item.kind # "dir"
    <3>1. /\ loaded' = AddChild(loaded, path, File(item.offset, item.size))
          /\ stack' = Closed(here)
      BY <2>2 DEF ParseItem, item
    <3>2. QED BY <1>5, <2>2, <3>1
  <2>3. QED BY <2>1, <2>2
<1>7. stack' = <<>> <=> s2 = <<>>
  <2>1. stack' \in Seq(Frames) /\ s2 \in Seq(Levels) /\ Len(stack') = Len(s2)
    BY <1>4, <1>6 DEF Mirrors, Stack
  <2>2. QED BY <2>1, EmptySeq
<1>8. CASE s2 = <<>>
  <2>1. phase' = "loaded" /\ loaded' = tree
    BY <1>1, <1>6, <1>7, <1>8, AllBuilt
  <2>2. cursor + 1 = Len(toc)
    <3>1. ~(cursor + 1 \in 1..Len(toc) - 1)
      BY <1>2, <1>8 DEF History, s2
    <3>2. QED BY <1>1, <3>1
  <2>3. QED BY <1>1, <2>1, <2>2 DEF TableInv
<1>9. CASE s2 # <<>>
  <2>1. phase' = "parse"
    BY <1>1, <1>7, <1>9
  <2>2. cursor' \in 1..Len(toc') - 1
    BY <1>1, <1>2, <1>9 DEF s2
  <2>3. /\ History(tree', toc', W) /\ W[Len(toc')] = <<>>
        /\ Mirrors(stack', W[cursor']) /\ Built(tree', loaded', W[cursor'])
    BY <1>1, <1>2, <1>6 DEF s2
  <2>4. QED BY <1>1, <2>1, <2>2, <2>3 DEF TableInv
<1>10. QED BY <1>8, <1>9

LEMMA StepKeepsPack == PackInv /\ [Next]_vars => PackInv'
<1> SUFFICES ASSUME PackInv, [Next]_vars PROVE PackInv'
  OBVIOUS
<1>0. /\ BuilderInv' /\ TableInv /\ Len(files') \in Nat /\ Len(files) \in Nat
  BY StepKeepsBuilder, StepKeepsLayout, FilesTyped, LenProperties
     DEF PackInv, BuilderInv, LayoutInv, LayoutType
<1> SUFFICES TableInv'
  BY <1>0 DEF PackInv
<1> USE DEF builder
<1>1. ASSUME NEW b \in Bases, NEW p \in EntryPaths, NEW rec \in BOOLEAN, Entry(b, p, rec)
      PROVE  TableInv'
  BY <1>0, <1>1, TableStays DEF Entry
<1>2. ASSUME NEW s \in Sources, AddFile(s) PROVE TableInv'
  <2>1. phase = "config" /\ phase' \in {"config", "failed"} /\ UNCHANGED <<toc, loaded, cursor>>
    BY <1>2 DEF AddFile
  <2>2. QED BY <1>0, <2>1, TableStays
<1>3. ASSUME NEW s \in Sources, SkipFile(s) PROVE TableInv'
  BY <1>0, <1>3, TableStays DEF SkipFile
<1>4. ASSUME NEW s \in Sources, NEW size \in Sizes \cup {Gone}, DiskChanges(s, size)
      PROVE  TableInv'
  BY <1>0, <1>4, TableStays DEF DiskChanges
<1>5. CASE CannotWrite
  BY <1>0, <1>5, TableStays DEF CannotWrite
<1>6. ASSUME NEW children, BeginWrite(children) PROVE TableInv'
  BY <1>6, BeginWriteKeepsTable
<1>7. ASSUME NEW children, WriteItem(children) PROVE TableInv'
  BY <1>7, WriteItemKeepsTable
<1>8. CASE EndToc
  <2>1. /\ phase = "toc" /\ stack = <<>> /\ phase' = "data" /\ cursor' = 1
        /\ UNCHANGED <<tree, files, toc, loaded>>
    BY <1>8 DEF EndToc
  <2>2. PICK W : History(tree, toc, W) /\ W[Len(toc)] = <<>>
    BY <1>0, <2>1 DEF TableInv
  <2>3. History(tree', toc', W) /\ W[Len(toc')] = <<>>
    BY <2>1, <2>2
  <2>4. cursor' \in 1..Len(files') + 1
    BY <1>0, <2>1
  <2>5. QED BY <1>0, <2>1, <2>3, <2>4 DEF TableInv
<1>9. CASE WriteData
  <2>1. /\ phase = "data" /\ cursor <= Len(files)
        /\ UNCHANGED <<stack, tree, files, toc, loaded>>
    BY <1>9 DEF WriteData
  <2>2. CASE phase' = "failed" /\ cursor' = cursor
    BY <1>0, <2>1, <2>2, TableStays
  <2>3. CASE phase' = phase /\ cursor' = cursor + 1
    <3>1. cursor' \in 1..Len(files') + 1
      BY <1>0, <2>1, <2>3 DEF TableInv
    <3>2. QED BY <1>0, <2>1, <2>3, <3>1 DEF TableInv
  <2>4. QED BY <1>9, <2>2, <2>3 DEF WriteData
<1>10. CASE BeginLoad
  BY <1>10, BeginLoadKeepsTable
<1>11. CASE ParseItem
  BY <1>11, ParseItemKeepsTable
<1>12. CASE UNCHANGED vars
  BY <1>0, <1>12, TableStays DEF vars
<1>13. QED
  BY <1>1, <1>2, <1>3, <1>4, <1>5, <1>6, <1>7, <1>8, <1>9, <1>10, <1>11, <1>12
     DEF Next, Stopped

LEMMA InitPack == Init => PackInv
<1> SUFFICES ASSUME Init PROVE PackInv
  OBVIOUS
<1>1. BuilderInv
  BY InitBuilder
<1>2. toc \in Seq(Items)
  BY EmptySeq DEF Init
<1>3. QED BY <1>1, <1>2 DEF Init, PackInv, TableInv

\* Root::Root stops before the terminator of the table, and when it stops it has
\* read every item, for every tree that was written and in whatever order the
\* children of its directories came (Root.cpp:29-47).
THEOREM ParserStops == Spec => []ParserInBounds
<1>1. PackInv => ParserInBounds
  <2> SUFFICES ASSUME PackInv PROVE ParserInBounds
    OBVIOUS
  <2>1. toc \in Seq(Items) /\ Len(toc) \in Nat
    BY LenProperties DEF PackInv, TableInv
  <2>2. QED BY <2>1 DEF PackInv, TableInv, ParserInBounds
<1>2. QED BY <1>1, InitPack, StepKeepsPack, PTL DEF Spec

\* The program's tree is the builder's, and at no time has a node that the builder's
\* has not: the table says all of it (RCBuilder.cpp:147-192, Root.cpp:12-47).
THEOREM TableRoundTrip == Spec => []RoundTrip
<1>1. PackInv => RoundTrip
  <2> SUFFICES ASSUME PackInv PROVE RoundTrip
    OBVIOUS
  <2>1. phase = "loaded" => loaded = tree
    BY DEF PackInv, TableInv
  <2>2. \A p \in DOMAIN loaded : p \in DOMAIN tree /\ loaded[p] = tree[p]
    <3>1. CASE phase = "parse"
      BY <3>1 DEF PackInv, TableInv, Built
    <3>2. CASE phase = "loaded"
      BY <2>1, <3>2
    <3>3. CASE phase \notin {"parse", "loaded"}
      <4>1. loaded = EmptyTree
        BY <3>3 DEF PackInv, TableInv
      <4>2. QED BY <4>1, EmptyIsTree
    <3>4. QED BY <3>1, <3>2, <3>3
  <2>3. QED BY <2>1, <2>2 DEF RoundTrip
<1>2. QED BY <1>1, InitPack, StepKeepsPack, PTL DEF Spec

\* Every node of both trees hangs in a directory, and the stacks, the table and
\* the counters stay what they are declared to be.
THEOREM TypeCorrect == Spec => []TypeOK
<1> DEFINE Counted == changes \in 0..MaxChanges /\ entries \in 0..MaxEntries
<1>1. Init => Counted
  BY DiskAssumption DEF Init
<1>2. Counted /\ [Next]_vars => Counted'
  <2> SUFFICES ASSUME Counted, [Next]_vars PROVE Counted'
    OBVIOUS
  <2>1. ASSUME NEW b \in Bases, NEW p \in EntryPaths, NEW rec \in BOOLEAN, Entry(b, p, rec)
        PROVE  Counted'
    BY <2>1, DiskAssumption DEF Entry
  <2>2. ASSUME NEW s \in Sources, NEW size \in Sizes \cup {Gone}, DiskChanges(s, size)
        PROVE  Counted'
    BY <2>2, DiskAssumption DEF DiskChanges, builder
  <2>3. CASE UNCHANGED <<changes, entries>>
    BY <2>3
  <2>4. \/ \E b \in Bases, p \in EntryPaths, rec \in BOOLEAN : Entry(b, p, rec)
        \/ \E s \in Sources, size \in Sizes \cup {Gone} : DiskChanges(s, size)
        \/ UNCHANGED <<changes, entries>>
    BY DEF Next, vars, builder, AddFile, SkipFile, CannotWrite, BeginWrite, WriteItem,
           EndToc, WriteData, BeginLoad, ParseItem, Stopped
  <2>5. QED BY <2>1, <2>2, <2>3, <2>4
<1>3. PackInv /\ Counted /\ DataInv => TypeOK
  <2> SUFFICES ASSUME PackInv, Counted, DataInv PROVE TypeOK
    OBVIOUS
  <2>1. LayoutType /\ Tree(tree) /\ Len(files) \in Nat /\ Len(toc) \in Nat
    BY FilesTyped, LenProperties DEF PackInv, BuilderInv, LayoutInv, TableInv
  <2>2. WellFormed(tree)
    BY <2>1, TreeWellFormed
  <2>3. WellFormed(loaded)
    <3>1. CASE phase = "parse"
      BY <3>1 DEF PackInv, TableInv, Built
    <3>2. CASE phase = "loaded"
      BY <2>2, <3>2 DEF PackInv, TableInv
    <3>3. CASE phase \notin {"parse", "loaded"}
      <4>1. loaded = EmptyTree
        BY <3>3 DEF PackInv, TableInv
      <4>2. QED BY <4>1, EmptyIsTree, TreeWellFormed
    <3>4. QED BY <3>1, <3>2, <3>3
  <2>4. cursor \in 0..Len(toc) + Len(files) + 1
    BY <2>1 DEF PackInv, TableInv
  <2>5. phase \in {"config", "toc", "data", "parse", "loaded", "failed"}
    BY DEF PackInv, TableInv
  <2>6. touched \subseteq 1..Len(files)
    BY DEF DataInv, Unchanged
  <2>7. QED BY <2>1, <2>2, <2>3, <2>4, <2>5, <2>6 DEF TypeOK, LayoutType
<1> HIDE DEF Counted
<1>4. QED BY <1>1, <1>2, <1>3, InitPack, StepKeepsPack, DataHolds, PTL DEF Spec

\* What a program gets for a path are the bytes of the file that was last added
\* under it, unless that file was changed on the disk after it was added, whatever
\* the config and the order of the hash tables and whatever happens to other files
\* (Root.cpp:56-85).
THEOREM BytesServed == Spec => []ServedBytes
<1>1. PackInv /\ DataAligned => ServedBytes
  <2> SUFFICES ASSUME PackInv, DataAligned, phase = "loaded",
                      NEW i \in 1..Len(files),
                      ~\E j \in i + 1..Len(files) : Place(files[j]) = Place(files[i]),
                      NEW n \in Find(loaded, Place(files[i])), n # Dir,
                      NEW k \in 1..n.size
               PROVE  ByteOf(i, k, data[n.offset + k])
    BY DEF ServedBytes
  <2> DEFINE p == Place(files[i])
  <2>1. loaded = tree
    BY DEF PackInv, TableInv
  <2>2. p \in DOMAIN tree /\ n = tree[p]
    BY <2>1 DEF Find
  <2>3. PICK m \in 1..Len(files) :
          /\ Place(files[m]) = p /\ tree[p] = NodeOf(m)
          /\ \A j \in m + 1..Len(files) : Place(files[j]) # p
    BY <2>2 DEF PackInv, BuilderInv, FilesPlaced
  <2>4. m = i
    <3>1. Len(files) \in Nat
      BY FilesTyped DEF PackInv, BuilderInv
    <3>2. ~(m \in i + 1..Len(files)) /\ ~(i \in m + 1..Len(files))
      BY <2>3
    <3>3. QED BY <3>1, <3>2
  <2>5. n.offset = files[i].offset /\ n.size = files[i].size
    BY <2>2, <2>3, <2>4 DEF NodeOf, File
  <2>6. i \in Written
    BY DEF Written
  <2>7. QED BY <2>5, <2>6 DEF DataAligned
<1>2. Spec => []PackInv
  BY InitPack, StepKeepsPack, PTL DEF Spec
<1>3. QED BY <1>1, <1>2, DataLands, PTL

=============================================================================
