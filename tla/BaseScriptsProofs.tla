-------------------------- MODULE BaseScriptsProofs --------------------------
(***************************************************************************)
(* For every graph of tables, whatever the order of pairs and of the keys: *)
(* table.copy and table.dump enter no table twice; table.copy returns a    *)
(* graph of the same shape; loading what table.dump wrote makes one, if no *)
(* key is a table and each number reads as a key or a value should; and    *)
(* nothing is refused but a userdata, such a key or number, and what       *)
(* Lua's parser or its stack have no room for.                             *)
(*                                                                         *)
(* A text is right in terms of two functions that the run has and no       *)
(* variable keeps: W, the place at which a table has its constructor, and  *)
(* O, the order in which the keys of a table are taken.                    *)
(***************************************************************************)
EXTENDS BaseScripts, SequenceTheorems, FiniteSetTheorems, WellFoundedInduction, TLAPS

-----------------------------------------------------------------------------
(* Stacks *)

IsStack(s) == s \in Seq({s[i] : i \in 1..Len(s)})

LEMMA SeqIsStack == ASSUME NEW S, NEW s \in Seq(S) PROVE IsStack(s)
<1>1. /\ Len(s) \in Nat /\ s \in [1..Len(s) -> S] /\ DOMAIN s = 1..Len(s)
  BY LenProperties
<1>2. s \in [1..Len(s) -> {s[i] : i \in 1..Len(s)}]
  BY <1>1
<1>3. QED BY <1>1, <1>2, SeqDef DEF IsStack

LEMMA StackLen == ASSUME NEW s, IsStack(s)
  PROVE Len(s) \in Nat /\ (s = <<>> <=> Len(s) = 0) /\ DOMAIN s = 1..Len(s)
BY LenProperties, EmptySeq DEF IsStack

LEMMA EmptyStack == IsStack(<<>>) /\ Len(<<>>) = 0
BY EmptySeq DEF IsStack

LEMMA Pushed ==
  ASSUME NEW s, IsStack(s), NEW e
  PROVE  /\ IsStack(Append(s, e)) /\ Len(Append(s, e)) = Len(s) + 1 /\ Append(s, e) # <<>>
         /\ \A i \in 1..Len(s) : Append(s, e)[i] = s[i]
         /\ Append(s, e)[Len(s) + 1] = e
<1> DEFINE S == {s[i] : i \in 1..Len(s)} \cup {e}
<1>1. Len(s) \in Nat /\ DOMAIN s = 1..Len(s) /\ s \in [1..Len(s) -> {s[i] : i \in 1..Len(s)}]
  BY LenProperties DEF IsStack
<1>2. s \in [1..Len(s) -> S]
  BY <1>1
<1>3. s \in Seq(S)
  BY <1>1, <1>2, SeqDef
<1>4. e \in S
  OBVIOUS
<1> HIDE DEF S
<1>5. /\ Append(s, e) \in Seq(S) /\ Append(s, e) # <<>> /\ Len(Append(s, e)) = Len(s) + 1
      /\ \A i \in 1..Len(s) : Append(s, e)[i] = s[i]
      /\ Append(s, e)[Len(s) + 1] = e
  BY <1>3, <1>4, AppendProperties
<1>6. IsStack(Append(s, e))
  BY <1>5, SeqIsStack
<1>7. QED BY <1>5, <1>6

LEMMA PoppedOff ==
  ASSUME NEW s, IsStack(s), s # <<>>
  PROVE  /\ IsStack(SubSeq(s, 1, Len(s) - 1)) /\ Len(SubSeq(s, 1, Len(s) - 1)) = Len(s) - 1
         /\ \A i \in 1..Len(s) - 1 : SubSeq(s, 1, Len(s) - 1)[i] = s[i]
<1> DEFINE S == {s[i] : i \in 1..Len(s)}
<1>1. Len(s) \in Nat /\ Len(s) > 0
  BY StackLen
<1>2. \A i \in 1..Len(s) - 1 : s[i] \in S
  BY <1>1
<1>3. 1 \in Int /\ Len(s) - 1 \in Int
  BY <1>1
<1> HIDE DEF S
<1>4. /\ SubSeq(s, 1, Len(s) - 1) \in Seq(S)
      /\ Len(SubSeq(s, 1, Len(s) - 1)) = IF 1 <= Len(s) - 1 THEN Len(s) - 1 - 1 + 1 ELSE 0
      /\ \A i \in 1..Len(s) - 1 - 1 + 1 : SubSeq(s, 1, Len(s) - 1)[i] = s[1 + i - 1]
  BY <1>2, <1>3, SubSeqProperties
<1>5. Len(SubSeq(s, 1, Len(s) - 1)) = Len(s) - 1
  <2> DEFINE n == Len(s)
  <2>0. n \in Nat /\ n > 0
    BY <1>1
  <2> HIDE DEF n
  <2>1. (IF 1 <= n - 1 THEN n - 1 - 1 + 1 ELSE 0) = n - 1
    BY ONLY <2>0
  <2>2. QED BY ONLY <1>4, <2>1 DEF n
<1>6. ASSUME NEW i \in 1..Len(s) - 1 PROVE SubSeq(s, 1, Len(s) - 1)[i] = s[i]
  <2>1. i \in 1..Len(s) - 1 - 1 + 1 /\ 1 + i - 1 = i
    BY <1>1
  <2>2. QED BY <1>4, <2>1
<1>7. QED BY <1>4, <1>5, <1>6, SeqIsStack

Replaces(t, s, e) == t = [s EXCEPT ![Len(s)] = e]

LEMMA TopChanged ==
  ASSUME NEW s, IsStack(s), s # <<>>, NEW e, NEW t, Replaces(t, s, e)
  PROVE  /\ IsStack(t) /\ Len(t) = Len(s) /\ t # <<>>
         /\ \A i \in 1..Len(s) - 1 : t[i] = s[i]
         /\ t[Len(s)] = e
<1> DEFINE S == {s[i] : i \in 1..Len(s)} \cup {e}
<1>1. /\ Len(s) \in Nat /\ Len(s) > 0 /\ DOMAIN s = 1..Len(s)
      /\ s \in [1..Len(s) -> {s[i] : i \in 1..Len(s)}]
  BY StackLen, LenProperties DEF IsStack
<1>2. /\ t \in [1..Len(s) -> S] /\ t[Len(s)] = e /\ \A i \in 1..Len(s) - 1 : t[i] = s[i]
  BY <1>1 DEF Replaces
<1> HIDE DEF S
<1>3. t \in Seq(S)
  BY <1>1, <1>2, SeqDef
<1>4. Len(t) = Len(s)
  BY <1>1, <1>2, <1>3, LenProperties
<1>5. IsStack(t)
  BY <1>3, SeqIsStack
<1>6. t # <<>>
  BY <1>1, <1>4, <1>5, StackLen
<1>7. QED BY <1>2, <1>4, <1>5, <1>6

-----------------------------------------------------------------------------
(* Graphs and their copies *)

Originals == {Table(a) : a \in DOMAIN given}
Fields(o) == Given(o).fields

LEMMA Graph ==
  ASSUME given \in Graphs
  PROVE  /\ Len(given) \in Nat /\ Table(1) \in Originals /\ Table(1) # Nil
         /\ \A o \in Originals :
              /\ IsTable(o) /\ o[2] \in DOMAIN given /\ o = Table(o[2]) /\ o # Nil
              /\ IsFiniteSet(DOMAIN Fields(o))
              /\ Given(o).meta = Nil \/ Given(o).meta \in Originals
              /\ \A k \in DOMAIN Fields(o) :
                   /\ k[1] \in Types /\ k # Nil /\ (IsTable(k) => k \in Originals)
                   /\ Fields(o)[k][1] \in Types /\ Fields(o)[k] # Nil
                   /\ (IsTable(Fields(o)[k]) => Fields(o)[k] \in Originals)
<1>1. Len(given) \in Nat \ {0} /\ DOMAIN given = 1..Len(given) /\ 1 \in DOMAIN given
  BY GraphsAssumption
<1>2. Table(1) \in Originals /\ Table(1) # Nil
  BY <1>1 DEF Originals, Table, Nil
<1>3. ASSUME NEW o \in Originals
      PROVE  /\ IsTable(o) /\ o[2] \in DOMAIN given /\ o = Table(o[2]) /\ o # Nil
             /\ IsFiniteSet(DOMAIN Fields(o))
             /\ Given(o).meta = Nil \/ Given(o).meta \in Originals
             /\ \A k \in DOMAIN Fields(o) :
                  /\ k[1] \in Types /\ k # Nil /\ (IsTable(k) => k \in Originals)
                  /\ Fields(o)[k][1] \in Types /\ Fields(o)[k] # Nil
                  /\ (IsTable(Fields(o)[k]) => Fields(o)[k] \in Originals)
  <2>1. PICK a \in DOMAIN given : o = Table(a)
    BY DEF Originals
  <2>2. IsTable(o) /\ o[2] = a /\ o # Nil
    BY <2>1 DEF Table, IsTable, Nil
  <2>3. /\ IsFiniteSet(DOMAIN given[a].fields)
        /\ given[a].meta = Nil \/ given[a].meta \in {Table(b) : b \in DOMAIN given}
        /\ \A k \in DOMAIN given[a].fields : \A v \in {k, given[a].fields[k]} :
             /\ v[1] \in Types /\ (IsTable(v) => v \in {Table(b) : b \in DOMAIN given})
             /\ v[1] = "number" => Reads(v[2]) \in {Nil, None} \/ Reads(v[2])[1] = "number"
    BY GraphsAssumption
  <2>4. Given(o) = given[a]
    BY <2>2 DEF Given
  <2>5. \A v : v[1] \in Types => v # Nil
    BY DEF Types, Nil
  <2>6. QED BY <2>1, <2>2, <2>3, <2>4, <2>5 DEF Originals, Fields
<1>4. QED BY <1>1, <1>2, <1>3

\* No text but that of a table reads as one.
LEMMA ReadsNoTable ==
  ASSUME given \in Graphs, NEW o \in Originals, NEW k \in DOMAIN Fields(o),
         ~IsTable(Fields(o)[k])
  PROVE  ~IsTable(Read(Fields(o)[k]))
<1> DEFINE v == Fields(o)[k]
<1>1. PICK a \in DOMAIN given : o = Table(a)
  BY DEF Originals
<1>2. k \in DOMAIN given[a].fields /\ v = given[a].fields[k]
  BY <1>1 DEF Fields, Given, Table
<1>3. v[1] = "number" => Reads(v[2]) \in {Nil, None} \/ Reads(v[2])[1] = "number"
  <2>1. \A w \in {k, given[a].fields[k]} :
          w[1] = "number" => Reads(w[2]) \in {Nil, None} \/ Reads(w[2])[1] = "number"
    BY <1>2, GraphsAssumption
  <2> HIDE DEF v
  <2>2. QED BY <1>2, <2>1
<1>4. ~IsTable(Nil) /\ ~IsTable(None)
  BY DEF IsTable, Nil, None
<1>5. ~IsTable(v)
  OBVIOUS
<1> HIDE DEF v
<1>6. ~IsTable(Read(v))
  BY <1>3, <1>4, <1>5 DEF Read, IsTable
<1>7. QED BY <1>6 DEF v

Img(L, v) == IF IsTable(v) THEN L[v] ELSE v
Seen(L, v) == IsTable(v) => v \in DOMAIN L

\* lookup_table maps tables of the script one to one to all the tables that were made.
Lookup(L, h) ==
  /\ DOMAIN L \subseteq Originals
  /\ \E n \in Nat : DOMAIN h = Len(given) + 1..Len(given) + n
  /\ \A o \in DOMAIN L : L[o] \in {Table(b) : b \in DOMAIN h}
  /\ \A o, p \in DOMAIN L : L[o] = L[p] => o = p
  /\ \A b \in DOMAIN h : \E o \in DOMAIN L : L[o] = Table(b)

\* The copy of o has the images of the fields in done.
Copied(L, h, o, done) ==
  LET u == h[L[o][2]] IN
  /\ u = [fields |-> u.fields, meta |-> u.meta]
  /\ \A k \in done : Seen(L, k) /\ Seen(L, Fields(o)[k])
  /\ DOMAIN u.fields = {Img(L, k) : k \in done}
  /\ \A k \in done : u.fields[Img(L, k)] = Img(L, Fields(o)[k])

LEMMA CopyOf ==
  ASSUME NEW L, NEW h, Lookup(L, h), NEW o \in DOMAIN L
  PROVE  L[o][2] \in DOMAIN h /\ L[o] = Table(L[o][2]) /\ IsTable(L[o]) /\ L[o] # Nil
BY DEF Lookup, Table, IsTable, Nil

LEMMA CopiesDiffer ==
  ASSUME NEW L, NEW h, Lookup(L, h), NEW o \in DOMAIN L, NEW p \in DOMAIN L, o # p
  PROVE  L[o][2] # L[p][2]
<1>1. L[o] = Table(L[o][2]) /\ L[p] = Table(L[p][2])
  BY CopyOf
<1>2. L[o] # L[p]
  BY DEF Lookup
<1>3. QED BY <1>1, <1>2

LEMMA ImgInjective ==
  ASSUME NEW L, NEW h, Lookup(L, h), NEW v, NEW w, Seen(L, v), Seen(L, w), Img(L, v) = Img(L, w)
  PROVE  v = w
<1>1. CASE IsTable(v) /\ IsTable(w)
  BY <1>1 DEF Seen, Img, Lookup
<1>2. CASE IsTable(v) /\ ~IsTable(w)
  BY <1>2, CopyOf DEF Seen, Img
<1>3. CASE ~IsTable(v) /\ IsTable(w)
  BY <1>3, CopyOf DEF Seen, Img
<1>4. CASE ~IsTable(v) /\ ~IsTable(w)
  BY <1>4 DEF Img
<1>5. QED BY <1>1, <1>2, <1>3, <1>4

\* What is copied stays so while other tables are noted and filled.
LEMMA CopiedStays ==
  ASSUME NEW L, NEW h, NEW L2, NEW h2, NEW o \in DOMAIN L, NEW done,
         DOMAIN L \subseteq DOMAIN L2, \A p \in DOMAIN L : L2[p] = L[p],
         h2[L[o][2]] = h[L[o][2]], Copied(L, h, o, done)
  PROVE  Copied(L2, h2, o, done)
<1>1. h2[L2[o][2]] = h[L[o][2]]
  OBVIOUS
<1>2. \A v : Seen(L, v) => Seen(L2, v) /\ Img(L2, v) = Img(L, v)
  BY DEF Seen, Img
<1>3. \A k \in done : Seen(L, k) /\ Seen(L, Fields(o)[k])
  BY DEF Copied
<1>4. /\ \A k \in done : Seen(L2, k) /\ Seen(L2, Fields(o)[k])
      /\ {Img(L2, k) : k \in done} = {Img(L, k) : k \in done}
      /\ \A k \in done : Img(L2, k) = Img(L, k) /\ Img(L2, Fields(o)[k]) = Img(L, Fields(o)[k])
  BY <1>2, <1>3
<1>5. QED BY <1>1, <1>4 DEF Copied

\* A field that is copied adds its image.
LEMMA FieldCopied ==
  ASSUME NEW L, NEW h, NEW h2, Lookup(L, h), NEW o \in DOMAIN L, NEW done, Copied(L, h, o, done),
         NEW k, Seen(L, k), Seen(L, Fields(o)[k]), k \notin done, Fields(o)[k] # Nil,
         h2[L[o][2]] = [h[L[o][2]] EXCEPT !.fields = Set(@, Img(L, k), Img(L, Fields(o)[k]))]
  PROVE  Copied(L, h2, o, done \cup {k})
<1> DEFINE u == h[L[o][2]]
           w == h2[L[o][2]]
           v == Img(L, Fields(o)[k])
<1>1. /\ u = [fields |-> u.fields, meta |-> u.meta]
      /\ \A j \in done : Seen(L, j) /\ Seen(L, Fields(o)[j])
      /\ DOMAIN u.fields = {Img(L, j) : j \in done}
      /\ \A j \in done : u.fields[Img(L, j)] = Img(L, Fields(o)[j])
  BY DEF Copied
<1>2. v # Nil
  BY CopyOf DEF Img, Seen
<1>3. Set(u.fields, Img(L, k), v) = Put(u.fields, Img(L, k), v)
  BY <1>2 DEF Set
<1>4. w = [u EXCEPT !.fields = Set(u.fields, Img(L, k), v)]
  OBVIOUS
<1> HIDE DEF u, w, v
<1>5. w = [fields |-> Put(u.fields, Img(L, k), v), meta |-> u.meta]
  BY <1>1, <1>3, <1>4
<1>6. DOMAIN w.fields = {Img(L, j) : j \in done \cup {k}}
  BY <1>1, <1>5 DEF Put
<1>7. \A j \in done : Img(L, j) # Img(L, k)
  BY <1>1, ImgInjective
<1>8. \A j \in done \cup {k} : w.fields[Img(L, j)] = Img(L, Fields(o)[j])
  <2>1. w.fields[Img(L, k)] = v
    BY <1>5 DEF Put
  <2>2. ASSUME NEW j \in done PROVE w.fields[Img(L, j)] = Img(L, Fields(o)[j])
    BY <1>1, <1>5, <1>7 DEF Put
  <2>3. QED BY <2>1, <2>2 DEF v
<1>9. w = [fields |-> w.fields, meta |-> w.meta]
  BY <1>5
<1>10. QED BY <1>1, <1>6, <1>8, <1>9 DEF Copied, w

-----------------------------------------------------------------------------
(* table.copy *)

\* What _copy has been called for, or will be next, in a frame.
Awaited(frame) == IF frame.key = Nil THEN frame.index ELSE Fields(frame.table)[frame.index]

Done(frame, busy) == (DOMAIN Fields(frame.table) \ frame.left) \ IF busy THEN {frame.index} ELSE {}

Frame(L, h, frame, busy) ==
  /\ frame = [table |-> frame.table, new |-> frame.new, index |-> frame.index,
              key |-> frame.key, left |-> frame.left]
  /\ frame.table \in DOMAIN L /\ L[frame.table] = Table(frame.new)
  /\ frame.left \subseteq DOMAIN Fields(frame.table)
  /\ busy => /\ frame.index \in DOMAIN Fields(frame.table) /\ frame.index \notin frame.left
             /\ frame.key # Nil => Seen(L, frame.index) /\ frame.key = Img(L, frame.index)
  /\ Copied(L, h, frame.table, Done(frame, busy))

\* In the innermost frame no field is being copied when the loop turns.
Frames(L, h, s, turning) ==
  /\ IsStack(s)
  /\ \A i \in 1..Len(s) : Frame(L, h, s[i], ~(turning /\ i = Len(s)))
  /\ \A i, j \in 1..Len(s) : s[i].table = s[j].table => i = j
  /\ \A i \in 1..Len(s) - 1 : Awaited(s[i]) = s[i + 1].table
  /\ s # <<>> => s[1].table = Table(1)

\* What the innermost frame, or the caller of table.copy, waits for.
Wanted(s) == IF s = <<>> THEN Table(1) ELSE Awaited(s[Len(s)])

OnStack(s, o) == \E i \in 1..Len(s) : s[i].table = o
Finished(L, h, s) ==
  \A o \in DOMAIN L : ~OnStack(s, o) =>
    Copied(L, h, o, DOMAIN Fields(o)) /\ h[L[o][2]].meta = Given(o).meta

CopyInv ==
  /\ pc \in {"call", "loop", "return", "done", "raised"}
  /\ pc = "raised" => Len(stack) >= MaxCalls
  /\ Lookup(lookup_table, heap)
  /\ Frames(lookup_table, heap, stack, FALSE) \/ pc = "loop"
  /\ Frames(lookup_table, heap, stack, TRUE) \/ pc # "loop"
  /\ Finished(lookup_table, heap, stack)
  /\ pc = "loop" => stack # <<>>
  /\ pc = "done" => stack = <<>>
  /\ pc = "call" => value = Wanted(stack)
  /\ pc \in {"return", "done"} =>
       Seen(lookup_table, Wanted(stack)) /\ value = Img(lookup_table, Wanted(stack))

LEMMA WantedOriginal ==
  ASSUME given \in Graphs, NEW L, NEW h, NEW s, Lookup(L, h), Frames(L, h, s, FALSE)
  PROVE  /\ Wanted(s) # Nil
         /\ IsTable(Wanted(s)) => Wanted(s) \in Originals
<1>1. CASE s = <<>>
  BY <1>1, Graph DEF Wanted
<1>2. CASE s # <<>>
  <2>1. Len(s) \in 1..Len(s)
    BY <1>2, StackLen DEF Frames
  <2> DEFINE fr == s[Len(s)]
  <2>2. Frame(L, h, fr, TRUE)
    BY <2>1 DEF Frames
  <2>3. fr.table \in Originals /\ fr.index \in DOMAIN Fields(fr.table)
    BY <2>2 DEF Frame, Lookup
  <2>4. QED BY <1>2, <2>3, Graph DEF Wanted, Awaited
<1>3. QED BY <1>1, <1>2

\* The invariant after a step, in terms of the graph that no step changes.
LEMMA CopyInvAfter ==
  ASSUME given' = given,
         pc' \in {"call", "loop", "return", "done", "raised"},
         pc' = "raised" => Len(stack') >= MaxCalls,
         Lookup(lookup_table', heap'),
         Frames(lookup_table', heap', stack', FALSE) \/ pc' = "loop",
         Frames(lookup_table', heap', stack', TRUE) \/ pc' # "loop",
         Finished(lookup_table', heap', stack'),
         pc' = "loop" => stack' # <<>>,
         pc' = "done" => stack' = <<>>,
         pc' = "call" => value' = Wanted(stack'),
         pc' \in {"return", "done"} =>
           Seen(lookup_table', Wanted(stack')) /\ value' = Img(lookup_table', Wanted(stack'))
  PROVE  CopyInv'
<1>1. Lookup(lookup_table, heap)'
  BY DEF Lookup, Originals
<1>2. /\ (Frames(lookup_table, heap, stack, FALSE) \/ pc = "loop")'
      /\ (Frames(lookup_table, heap, stack, TRUE) \/ pc # "loop")'
  <2>1. ASSUME NEW turning, Frames(lookup_table', heap', stack', turning)
        PROVE  Frames(lookup_table, heap, stack, turning)'
    <3>1. ASSUME NEW frame, NEW busy, Frame(lookup_table', heap', frame, busy)
          PROVE  Frame(lookup_table, heap, frame, busy)'
      BY <3>1 DEF Frame, Copied, Done, Fields, Given
    <3>2. \A i \in 1..Len(stack') : Frame(lookup_table', heap', stack'[i], ~(turning /\ i = Len(stack')))
      BY <2>1 DEF Frames
    <3>3. \A i \in 1..Len(stack') : Frame(lookup_table, heap, stack[i], ~(turning /\ i = Len(stack)))'
      BY <3>1, <3>2
    <3>4. \A i \in 1..Len(stack') - 1 : Awaited(stack[i])' = stack'[i + 1].table
      BY <2>1 DEF Frames, Awaited, Fields, Given
    <3>5. QED BY <2>1, <3>3, <3>4 DEF Frames
  <2>2. QED BY <2>1
<1>3. Finished(lookup_table, heap, stack)'
  BY DEF Finished, Copied, Fields, Given
<1>4. (pc = "call" => value = Wanted(stack))'
  BY DEF Wanted, Awaited, Fields, Given
<1>5. (pc \in {"return", "done"} =>
         Seen(lookup_table, Wanted(stack)) /\ value = Img(lookup_table, Wanted(stack)))'
  BY DEF Wanted, Awaited, Fields, Given
<1>6. QED BY <1>1, <1>2, <1>3, <1>4, <1>5 DEF CopyInv

\* Nothing that is noted or copied is disturbed by what is noted later.
LEMMA FrameStays ==
  ASSUME NEW L, NEW h, NEW L2, NEW h2, NEW frame, NEW busy,
         DOMAIN L \subseteq DOMAIN L2, \A p \in DOMAIN L : L2[p] = L[p],
         h2[L[frame.table][2]] = h[L[frame.table][2]], Frame(L, h, frame, busy)
  PROVE  Frame(L2, h2, frame, busy)
<1>1. /\ frame.table \in DOMAIN L /\ Copied(L, h, frame.table, Done(frame, busy))
  BY DEF Frame
<1>2. Copied(L2, h2, frame.table, Done(frame, busy))
  BY <1>1, CopiedStays
<1>3. \A v : Seen(L, v) => Seen(L2, v) /\ Img(L2, v) = Img(L, v)
  BY DEF Seen, Img
<1>4. QED BY <1>1, <1>2, <1>3 DEF Frame

LEMMA CopyCallInv == ASSUME given \in Graphs, CopyInv, CopyCall PROVE CopyInv'
<1> DEFINE L == lookup_table
           new == Len(given) + Cardinality(DOMAIN heap) + 1
           fr == [table |-> value, new |-> new, index |-> Nil, key |-> Nil,
                  left |-> DOMAIN Given(value).fields]
<1>0. /\ pc = "call" /\ value = Wanted(stack) /\ Lookup(L, heap) /\ Frames(L, heap, stack, FALSE)
      /\ Finished(L, heap, stack) /\ given' = given
  BY DEF CopyInv, CopyCall, Copying
<1>1. CASE ~IsTable(value) /\ Return(value) /\ UNCHANGED <<stack, lookup_table, heap>>
  <2>1. pc' = "return" /\ value' = value /\ Seen(L, value) /\ Img(L, value) = value
    BY <1>1 DEF Return, Seen, Img
  <2>2. QED BY <1>0, <1>1, <2>1, CopyInvAfter
<1>2. CASE value \in DOMAIN L /\ Return(L[value]) /\ UNCHANGED <<stack, lookup_table, heap>>
  <2>1. IsTable(value)
    BY <1>0, <1>2, Graph DEF Lookup
  <2>2. pc' = "return" /\ Seen(L, value) /\ value' = Img(L, value)
    BY <1>2, <2>1 DEF Return, Seen, Img
  <2>3. QED BY <1>0, <1>2, <2>2, CopyInvAfter
<1>3. CASE /\ IsTable(value) /\ value \notin DOMAIN L
           /\ lookup_table' = LookedUp(Table(new))
           /\ heap' = Put(heap, new, EmptyTable)
           /\ stack' = Append(stack, fr)
           /\ pc' = "loop"
  <2>1. PICK n \in Nat : DOMAIN heap = Len(given) + 1..Len(given) + n
    BY <1>0 DEF Lookup
  <2>2. Len(given) \in Nat /\ new = Len(given) + n + 1
    <3>1. Len(given) \in Nat
      BY Graph
    <3>2. Cardinality(Len(given) + 1..Len(given) + n) = n
      BY <3>1, FS_Interval
    <3>3. QED BY <2>1, <3>1, <3>2
  <2> HIDE DEF new
  <2>3. new \notin DOMAIN heap /\ DOMAIN heap \cup {new} = Len(given) + 1..Len(given) + (n + 1)
    BY <2>1, <2>2
  <2>4. /\ DOMAIN heap' = DOMAIN heap \cup {new} /\ heap'[new] = EmptyTable
        /\ \A b \in DOMAIN heap : heap'[b] = heap[b]
    BY <1>3, <2>3 DEF Put
  <2>5. /\ DOMAIN L' = DOMAIN L \cup {value} /\ L'[value] = Table(new)
        /\ \A p \in DOMAIN L : L'[p] = L[p]
    BY <1>3 DEF LookedUp, Put
  <2>6. value \in Originals
    BY <1>0, <1>3, WantedOriginal
  <2>7. \A p \in DOMAIN L : L[p][2] \in DOMAIN heap /\ L[p] = Table(L[p][2]) /\ L[p] # Table(new)
    BY <1>0, <2>3, CopyOf DEF Table
  <2>8. Lookup(L', heap')
    <3>1. DOMAIN L' \subseteq Originals
      BY <1>0, <2>5, <2>6 DEF Lookup
    <3>2. \E m \in Nat : DOMAIN heap' = Len(given) + 1..Len(given) + m
      <4>1. n + 1 \in Nat /\ DOMAIN heap' = Len(given) + 1..Len(given) + (n + 1)
        BY <2>3, <2>4
      <4>2. QED BY <4>1
    <3>3. \A o \in DOMAIN L' : L'[o] \in {Table(b) : b \in DOMAIN heap'}
      BY <2>4, <2>5, <2>7
    <3>4. \A o, p \in DOMAIN L' : L'[o] = L'[p] => o = p
      BY <1>0, <2>5, <2>7 DEF Lookup
    <3>5. \A b \in DOMAIN heap' : \E o \in DOMAIN L' : L'[o] = Table(b)
      BY <1>0, <2>4, <2>5 DEF Lookup
    <3>6. QED BY <3>1, <3>2, <3>3, <3>4, <3>5 DEF Lookup
  <2>9. Copied(L', heap', value, {})
    <3>1. heap'[L'[value][2]] = EmptyTable
      BY <2>4, <2>5 DEF Table
    <3>2. QED BY <3>1 DEF Copied, EmptyTable
  <2>10. Frame(L', heap', fr, FALSE)
    <3>1. Done(fr, FALSE) = {}
      BY DEF Done, Fields
    <3>2. fr.table = value /\ fr.new = new /\ fr.left = DOMAIN Fields(value)
      BY DEF Fields
    <3>3. fr = [table |-> fr.table, new |-> fr.new, index |-> fr.index,
                key |-> fr.key, left |-> fr.left]
      OBVIOUS
    <3> HIDE DEF fr
    <3>4. QED BY <2>5, <2>9, <3>1, <3>2, <3>3 DEF Frame
  <2>11. /\ IsStack(stack') /\ Len(stack') = Len(stack) + 1 /\ stack' # <<>>
         /\ \A i \in 1..Len(stack) : stack'[i] = stack[i]
         /\ stack'[Len(stack) + 1] = fr
         /\ Len(stack) \in Nat /\ (stack = <<>> <=> Len(stack) = 0)
    BY <1>0, <1>3, Pushed, StackLen DEF Frames
  <2>12. fr.table = value
    OBVIOUS
  <2> HIDE DEF fr
  <2>13. \A i \in 1..Len(stack) : Frame(L, heap, stack[i], TRUE) /\ stack[i].table \in DOMAIN L
    BY <1>0 DEF Frames, Frame
  <2>14. ASSUME NEW i \in 1..Len(stack') PROVE Frame(L', heap', stack'[i], ~(TRUE /\ i = Len(stack')))
    <3>1. CASE i \in 1..Len(stack)
      <4>1. Frame(L', heap', stack[i], TRUE)
        <5>1. Frame(L, heap, stack[i], TRUE) /\ stack[i].table \in DOMAIN L
          BY <2>13, <3>1
        <5>2. heap'[L[stack[i].table][2]] = heap[L[stack[i].table][2]]
          BY <2>4, <2>7, <5>1
        <5>3. DOMAIN L \subseteq DOMAIN L' /\ \A p \in DOMAIN L : L'[p] = L[p]
          BY <2>5
        <5> HIDE DEF L
        <5>4. QED BY <5>1, <5>2, <5>3, FrameStays
      <4>2. i # Len(stack')
        BY <2>11, <3>1
      <4>3. QED BY <2>11, <3>1, <4>1, <4>2 DEF Frame, Done
    <3>2. CASE i = Len(stack) + 1
      BY <2>10, <2>11, <3>2 DEF Frame, Done
    <3>3. QED BY <2>11, <3>1, <3>2
  <2>15. \A i, j \in 1..Len(stack') : stack'[i].table = stack'[j].table => i = j
    <3>1. \A i \in 1..Len(stack) : stack[i].table # value
      BY <1>3, <2>13
    <3>2. \A i, j \in 1..Len(stack) : stack[i].table = stack[j].table => i = j
      BY <1>0 DEF Frames
    <3>3. QED BY <2>11, <2>12, <3>1, <3>2
  <2>16. \A i \in 1..Len(stack') - 1 : Awaited(stack'[i]) = stack'[i + 1].table
    <3>1. ASSUME NEW i \in 1..Len(stack) PROVE Awaited(stack'[i]) = stack'[i + 1].table
      <4>1. CASE i = Len(stack)
        BY <1>0, <2>11, <2>12, <4>1 DEF Wanted
      <4>2. CASE i \in 1..Len(stack) - 1
        BY <1>0, <2>11, <4>2 DEF Frames
      <4>3. QED BY <2>11, <4>1, <4>2
    <3>2. QED BY <2>11, <3>1
  <2>17. stack'[1].table = Table(1)
    <3>1. CASE stack = <<>>
      BY <1>0, <2>11, <2>12, <3>1 DEF Wanted
    <3>2. CASE stack # <<>>
      BY <1>0, <2>11, <3>2 DEF Frames
    <3>3. QED BY <3>1, <3>2
  <2>18. Frames(L', heap', stack', TRUE)
    BY <2>11, <2>14, <2>15, <2>16, <2>17 DEF Frames
  <2>19. Finished(L', heap', stack')
    <3>1. SUFFICES ASSUME NEW o \in DOMAIN L', ~OnStack(stack', o)
                   PROVE  Copied(L', heap', o, DOMAIN Fields(o)) /\ heap'[L'[o][2]].meta = Given(o).meta
      BY DEF Finished
    <3>2. o \in DOMAIN L /\ ~OnStack(stack, o)
      BY <2>5, <2>11, <2>12, <3>1 DEF OnStack
    <3>3. Copied(L, heap, o, DOMAIN Fields(o)) /\ heap[L[o][2]].meta = Given(o).meta
      BY <1>0, <3>2 DEF Finished
    <3>4. heap'[L[o][2]] = heap[L[o][2]] /\ L'[o] = L[o]
      BY <2>4, <2>5, <2>7, <3>2
    <3>5. QED BY <2>5, <3>2, <3>3, <3>4, CopiedStays
  <2>20. QED BY <1>0, <1>3, <2>8, <2>11, <2>18, <2>19, CopyInvAfter
<1>4. CASE Len(stack) >= MaxCalls /\ Raise /\ UNCHANGED <<lookup_table, heap>>
  <2>1. /\ lookup_table' = L /\ heap' = heap /\ stack' = stack /\ pc' = "raised"
        /\ Len(stack') >= MaxCalls
    BY <1>4 DEF Raise
  <2>2. QED BY <1>0, <2>1, CopyInvAfter
<1>5. QED BY <1>1, <1>2, <1>3, <1>4 DEF CopyCall

\* The steps that change the innermost frame and its copy only.
LEMMA TopReplaced ==
  ASSUME NEW L, NEW h, NEW h2, NEW s, NEW s2, NEW t, NEW t2, Lookup(L, h), Frames(L, h, s, t), s # <<>>,
         IsStack(s2), Len(s2) = Len(s), \A i \in 1..Len(s) - 1 : s2[i] = s[i],
         s2[Len(s)].table = s[Len(s)].table, Frame(L, h2, s2[Len(s)], ~t2),
         \A o \in DOMAIN L : o # s[Len(s)].table => h2[L[o][2]] = h[L[o][2]],
         Finished(L, h, s)
  PROVE  /\ Frames(L, h2, s2, t2) /\ Finished(L, h2, s2)
         /\ s2 # <<>> /\ Wanted(s2) = Awaited(s2[Len(s)])
<1>1. Len(s) \in Nat /\ Len(s) > 0 /\ s2 # <<>>
  BY StackLen DEF Frames
<1>2. /\ \A i \in 1..Len(s) : s2[i].table = s[i].table
      /\ \A i, j \in 1..Len(s) : s[i].table = s[j].table => i = j
      /\ \A i \in 1..Len(s) - 1 : Awaited(s[i]) = s[i + 1].table
      /\ s[1].table = Table(1)
  <2>1. \A i \in 1..Len(s) : i \in 1..Len(s) - 1 \/ i = Len(s)
    BY <1>1
  <2>2. QED BY <2>1 DEF Frames
<1>3. ASSUME NEW i \in 1..Len(s) - 1 PROVE Frame(L, h2, s2[i], TRUE)
  <2>1. i \in 1..Len(s) /\ i # Len(s) /\ Len(s) \in 1..Len(s)
    BY <1>1
  <2>2. Frame(L, h, s[i], TRUE)
    BY <2>1 DEF Frames, Frame, Done
  <2>3. s[i].table # s[Len(s)].table /\ s[i].table \in DOMAIN L
    BY <1>2, <2>1, <2>2 DEF Frame
  <2>4. Frame(L, h2, s[i], TRUE)
    BY <2>2, <2>3, FrameStays
  <2>5. QED BY <2>4
<1>4. ASSUME NEW i \in 1..Len(s2) PROVE Frame(L, h2, s2[i], ~(t2 /\ i = Len(s2)))
  <2>1. CASE i = Len(s)
    BY <2>1 DEF Frame, Done
  <2>2. CASE i \in 1..Len(s) - 1
    BY <1>1, <1>3, <2>2 DEF Frame, Done
  <2>3. QED BY <1>1, <2>1, <2>2
<1>5. ASSUME NEW i \in 1..Len(s2) - 1 PROVE Awaited(s2[i]) = s2[i + 1].table
  <2>1. i + 1 \in 1..Len(s)
    BY <1>1
  <2>2. QED BY <1>2, <2>1
<1>6. Frames(L, h2, s2, t2)
  BY <1>1, <1>2, <1>4, <1>5 DEF Frames
<1>7. Finished(L, h2, s2)
  <2>1. SUFFICES ASSUME NEW o \in DOMAIN L, ~OnStack(s2, o)
                 PROVE  Copied(L, h2, o, DOMAIN Fields(o)) /\ h2[L[o][2]].meta = Given(o).meta
    BY DEF Finished
  <2>2. ~OnStack(s, o) /\ o # s[Len(s)].table
    BY <1>1, <1>2, <2>1 DEF OnStack
  <2>3. Copied(L, h, o, DOMAIN Fields(o)) /\ h[L[o][2]].meta = Given(o).meta
    BY <2>2 DEF Finished
  <2>4. h2[L[o][2]] = h[L[o][2]]
    BY <2>2
  <2>5. QED BY <2>3, <2>4, CopiedStays
<1>8. QED BY <1>1, <1>6, <1>7 DEF Wanted

LEMMA LookupStays ==
  ASSUME NEW L, NEW h, NEW h2, Lookup(L, h), DOMAIN h2 = DOMAIN h PROVE Lookup(L, h2)
BY DEF Lookup

Turns(f, frame, i, k, l) == f = [frame EXCEPT !.index = i, !.key = k, !.left = l]

LEMMA FrameChanged ==
  ASSUME NEW a, NEW b, NEW c, NEW d, NEW e, NEW i, NEW k, NEW l, NEW frame, NEW f,
         frame = [table |-> a, new |-> b, index |-> c, key |-> d, left |-> e],
         Turns(f, frame, i, k, l)
  PROVE  f = [table |-> a, new |-> b, index |-> i, key |-> k, left |-> l]
<1>1. PICK f1 : f1 = [frame EXCEPT !.index = i]
  OBVIOUS
<1>2. f1 = [table |-> a, new |-> b, index |-> i, key |-> d, left |-> e]
  BY <1>1
<1>3. PICK f2 : f2 = [f1 EXCEPT !.key = k]
  OBVIOUS
<1>4. f2 = [table |-> a, new |-> b, index |-> i, key |-> k, left |-> e]
  BY <1>2, <1>3
<1>5. f = [f2 EXCEPT !.left = l]
  BY <1>1, <1>3 DEF Turns
<1>6. QED BY <1>4, <1>5

\* A loop turns: a field is taken, or the table is left.
LEMMA CopyLoopInv == ASSUME given \in Graphs, CopyInv, CopyLoop PROVE CopyInv'
<1> DEFINE L == lookup_table
<1>0. /\ pc = "loop" /\ stack # <<>> /\ Lookup(L, heap) /\ Frames(L, heap, stack, TRUE)
      /\ Finished(L, heap, stack) /\ given' = given /\ L' = L
  BY DEF CopyInv, CopyLoop, Copying
<1>1. Len(stack) \in Nat /\ Len(stack) > 0 /\ IsStack(stack) /\ stack # <<>>
  BY <1>0, StackLen DEF Frames
<1>2. Frame(L, heap, Top, FALSE)
  <2>1. Len(stack) \in 1..Len(stack)
    BY <1>1
  <2>2. Frame(L, heap, stack[Len(stack)], ~(TRUE /\ Len(stack) = Len(stack)))
    BY <1>0, <2>1 DEF Frames
  <2>3. QED BY <2>2 DEF Frame, Done, Top
<1>3. /\ Top = [table |-> Top.table, new |-> Top.new, index |-> Top.index,
                key |-> Top.key, left |-> Top.left]
      /\ Top.table \in DOMAIN L /\ L[Top.table] = Table(Top.new)
      /\ Top.left \subseteq DOMAIN Fields(Top.table)
      /\ Copied(L, heap, Top.table, DOMAIN Fields(Top.table) \ Top.left)
  BY <1>2 DEF Frame, Done
<1>4. ASSUME NEW k \in Top.left,
             stack' = WithTop([Top EXCEPT !.index = k, !.key = Nil, !.left = LeftAfter(k)]),
             Call(k, path), heap' = heap
      PROVE  CopyInv'
  <2> DEFINE fr == [Top EXCEPT !.index = k, !.key = Nil, !.left = Top.left \ {k}]
  <2>1. Replaces(stack', stack, fr) /\ Turns(fr, Top, k, Nil, Top.left \ {k})
    BY <1>4 DEF WithTop, LeftAfter, Replaces, Turns
  <2> HIDE DEF fr
  <2>2. fr = [table |-> Top.table, new |-> Top.new, index |-> k, key |-> Nil, left |-> Top.left \ {k}]
    BY <1>3, <2>1, FrameChanged
  <2>3. Done(fr, TRUE) = DOMAIN Fields(Top.table) \ Top.left
    BY <2>2 DEF Done
  <2>4. Frame(L, heap, fr, TRUE)
    BY <1>3, <2>2, <2>3 DEF Frame
  <2>5. /\ IsStack(stack') /\ Len(stack') = Len(stack)
        /\ \A i \in 1..Len(stack) - 1 : stack'[i] = stack[i]
        /\ stack'[Len(stack)] = fr
    BY <1>1, <2>1, TopChanged
  <2>6. stack'[Len(stack)].table = stack[Len(stack)].table
    BY <2>2, <2>5 DEF Top
  <2>7. Frame(L, heap, stack'[Len(stack)], ~FALSE)
    BY <2>4, <2>5
  <2>8. /\ Frames(L, heap, stack', FALSE) /\ Finished(L, heap, stack')
        /\ Wanted(stack') = Awaited(fr)
    BY <1>0, <2>5, <2>6, <2>7, TopReplaced
  <2>9. Awaited(fr) = k
    BY <2>2 DEF Awaited
  <2>10. QED BY <1>0, <1>4, <2>8, <2>9, CopyInvAfter DEF Call
<1>5. CASE /\ Top.left = {}
           /\ heap' = [heap EXCEPT ![Top.new].meta = Given(Top.table).meta]
           /\ Return(Table(Top.new)) /\ stack' = Popped
  <2>1. Top.new \in DOMAIN heap /\ Top.new = L[Top.table][2]
    BY <1>0, <1>3, CopyOf DEF Table
  <2>2. /\ DOMAIN heap' = DOMAIN heap
        /\ heap'[Top.new] = [heap[Top.new] EXCEPT !.meta = Given(Top.table).meta]
        /\ \A b \in DOMAIN heap : b # Top.new => heap'[b] = heap[b]
    BY <1>5, <2>1
  <2>3. ASSUME NEW o \in DOMAIN L, o # Top.table PROVE heap'[L[o][2]] = heap[L[o][2]]
    BY <1>0, <1>3, <2>1, <2>2, <2>3, CopiesDiffer, CopyOf
  <2>4. Lookup(L, heap')
    BY <1>0, <2>2, LookupStays
  <2>5. /\ Copied(L, heap', Top.table, DOMAIN Fields(Top.table))
        /\ heap'[L[Top.table][2]].meta = Given(Top.table).meta
    <3> DEFINE D == DOMAIN Fields(Top.table)
               u == heap[L[Top.table][2]]
               v == heap'[L[Top.table][2]]
               m == Given(Top.table).meta
    <3>1. Copied(L, heap, Top.table, D)
      <4>1. D \ Top.left = D
        BY <1>5
      <4>2. QED BY <1>3, <4>1
    <3>2. u = [fields |-> u.fields, meta |-> u.meta]
      BY <3>1 DEF Copied
    <3>3. v = [u EXCEPT !.meta = m]
      BY <2>1, <2>2
    <3>4. v = [fields |-> u.fields, meta |-> m] /\ v.fields = u.fields /\ v.meta = m
      <4> HIDE DEF u, v, m
      <4>1. QED BY <3>2, <3>3
    <3>5. v = [fields |-> v.fields, meta |-> v.meta]
      BY ONLY <3>4
    <3>6. /\ \A k \in D : Seen(L, k) /\ Seen(L, Fields(Top.table)[k])
          /\ DOMAIN u.fields = {Img(L, k) : k \in D}
          /\ \A k \in D : u.fields[Img(L, k)] = Img(L, Fields(Top.table)[k])
      BY <3>1 DEF Copied
    <3> HIDE DEF u, D
    <3>7. Copied(L, heap', Top.table, D)
      BY <3>4, <3>5, <3>6 DEF Copied
    <3>8. QED BY <3>4, <3>7 DEF D
  <2>6. /\ IsStack(stack') /\ Len(stack') = Len(stack) - 1 /\ (stack' = <<>> <=> Len(stack) = 1)
        /\ \A i \in 1..Len(stack) - 1 : stack'[i] = stack[i]
    <3>1. /\ IsStack(stack') /\ Len(stack') = Len(stack) - 1
          /\ \A i \in 1..Len(stack) - 1 : stack'[i] = stack[i]
      BY <1>0, <1>1, <1>5, PoppedOff DEF Popped
    <3>2. stack' = <<>> <=> Len(stack') = 0
      BY <3>1, StackLen
    <3>3. QED BY <1>1, <3>1, <3>2
  <2>7. /\ \A i, j \in 1..Len(stack) : stack[i].table = stack[j].table => i = j
        /\ \A i \in 1..Len(stack) - 1 : Awaited(stack[i]) = stack[i + 1].table
        /\ stack[1].table = Table(1)
    BY <1>0 DEF Frames
  <2>8. ASSUME NEW i \in 1..Len(stack') PROVE Frame(L, heap', stack'[i], ~(FALSE /\ i = Len(stack')))
    <3>1. i \in 1..Len(stack) /\ i # Len(stack) /\ Len(stack) \in 1..Len(stack) /\ stack'[i] = stack[i]
      BY <1>1, <2>6
    <3>2. Frame(L, heap, stack[i], TRUE)
      BY <1>0, <3>1 DEF Frames, Frame, Done
    <3>3. stack[i].table # Top.table /\ stack[i].table \in DOMAIN L
      BY <2>7, <3>1, <3>2 DEF Frame, Top
    <3>4. Frame(L, heap', stack[i], TRUE)
      BY <2>3, <3>2, <3>3, FrameStays
    <3>5. QED BY <3>1, <3>4 DEF Frame, Done
  <2>9. Frames(L, heap', stack', FALSE)
    <3>1. \A i \in 1..Len(stack') - 1 : Awaited(stack'[i]) = stack'[i + 1].table
      <4>1. \A i \in 1..Len(stack') - 1 : i \in 1..Len(stack) - 1 /\ i + 1 \in 1..Len(stack) - 1
        BY <1>1, <2>6
      <4>2. QED BY <2>6, <2>7, <4>1
    <3>2. \A i, j \in 1..Len(stack') : stack'[i].table = stack'[j].table => i = j
      <4>1. \A i \in 1..Len(stack') : i \in 1..Len(stack) /\ stack'[i].table = stack[i].table
        BY <1>1, <2>6
      <4>2. QED BY <2>7, <4>1
    <3>3. stack' # <<>> => stack'[1].table = Table(1)
      BY <1>1, <2>6, <2>7
    <3>4. QED BY <2>6, <2>8, <3>1, <3>2, <3>3 DEF Frames
  <2>10. Finished(L, heap', stack')
    <3>1. SUFFICES ASSUME NEW o \in DOMAIN L, ~OnStack(stack', o)
                   PROVE  Copied(L, heap', o, DOMAIN Fields(o)) /\ heap'[L[o][2]].meta = Given(o).meta
      BY DEF Finished
    <3>2. CASE o = Top.table
      BY <2>5, <3>2
    <3>3. CASE o # Top.table
      <4>1. ~OnStack(stack, o)
        <5>1. \A i \in 1..Len(stack) - 1 : i \in 1..Len(stack') /\ stack[i].table # o
          BY <1>1, <2>6, <3>1 DEF OnStack
        <5>2. \A i \in 1..Len(stack) : i \in 1..Len(stack) - 1 \/ i = Len(stack)
          BY <1>1
        <5>3. QED BY <3>3, <5>1, <5>2 DEF OnStack, Top
      <4>2. Copied(L, heap, o, DOMAIN Fields(o)) /\ heap[L[o][2]].meta = Given(o).meta
        BY <1>0, <4>1 DEF Finished
      <4>3. QED BY <2>3, <3>3, <4>2, CopiedStays
    <3>4. QED BY <3>2, <3>3
  <2>11. Wanted(stack') = Top.table
    <3>1. CASE Len(stack) = 1
      BY <2>6, <2>7, <3>1 DEF Wanted, Top
    <3>2. CASE Len(stack) # 1
      <4>1. Len(stack) - 1 \in 1..Len(stack) - 1 /\ Len(stack) - 1 + 1 = Len(stack)
        <5>1. \A n \in Nat : n > 0 /\ n # 1 => n - 1 \in 1..n - 1 /\ n - 1 + 1 = n
          OBVIOUS
        <5>2. QED BY <1>1, <3>2, <5>1
      <4>2. QED BY <2>6, <2>7, <3>2, <4>1 DEF Wanted, Top
    <3>3. QED BY <3>1, <3>2
  <2>12. Seen(L, Top.table) /\ Table(Top.new) = Img(L, Top.table)
    BY <1>0, <1>3, Graph DEF Seen, Img, Lookup
  <2>13. QED BY <1>0, <1>5, <2>4, <2>9, <2>10, <2>11, <2>12, CopyInvAfter DEF Return
<1>6. QED BY <1>4, <1>5 DEF CopyLoop

\* The copy of a key or of a value comes back.
LEMMA CopyReturnInv == ASSUME given \in Graphs, CopyInv, CopyReturn PROVE CopyInv'
<1> DEFINE L == lookup_table
<1>0. /\ pc = "return" /\ Lookup(L, heap) /\ Frames(L, heap, stack, FALSE)
      /\ Finished(L, heap, stack) /\ given' = given /\ L' = L
      /\ Seen(L, Wanted(stack)) /\ value = Img(L, Wanted(stack))
  BY DEF CopyInv, CopyReturn, Copying
<1>1. CASE stack = <<>> /\ pc' = "done" /\ UNCHANGED <<value, path, stack, heap>>
  BY <1>0, <1>1, CopyInvAfter
<1>2. ASSUME stack # <<>>
      PROVE  /\ Len(stack) \in Nat /\ Len(stack) > 0 /\ IsStack(stack) /\ stack # <<>>
             /\ Wanted(stack) = Awaited(Top) /\ Frame(L, heap, Top, TRUE)
  <2>1. Len(stack) \in Nat /\ Len(stack) > 0 /\ IsStack(stack)
    BY <1>0, <1>2, StackLen DEF Frames
  <2>2. Len(stack) \in 1..Len(stack)
    BY <2>1
  <2>3. Frame(L, heap, stack[Len(stack)], ~(FALSE /\ Len(stack) = Len(stack)))
    BY <1>0, <2>2 DEF Frames
  <2>4. QED BY <1>2, <2>1, <2>3 DEF Wanted, Top, Frame, Done
<1>3. ASSUME stack # <<>>
      PROVE  /\ Top = [table |-> Top.table, new |-> Top.new, index |-> Top.index,
                       key |-> Top.key, left |-> Top.left]
             /\ Top.table \in DOMAIN L /\ L[Top.table] = Table(Top.new)
             /\ Top.left \subseteq DOMAIN Fields(Top.table)
             /\ Top.index \in DOMAIN Fields(Top.table) /\ Top.index \notin Top.left
             /\ Top.key # Nil => Seen(L, Top.index) /\ Top.key = Img(L, Top.index)
             /\ Copied(L, heap, Top.table, (DOMAIN Fields(Top.table) \ Top.left) \ {Top.index})
             /\ Top.index # Nil /\ Fields(Top.table)[Top.index] # Nil
  <2>1. Frame(L, heap, Top, TRUE)
    BY <1>2, <1>3
  <2>2. Top.table \in Originals
    BY <1>0, <2>1 DEF Frame, Lookup
  <2>3. QED BY <2>1, <2>2, Graph DEF Frame, Done
<1>4. CASE /\ stack # <<>> /\ Top.key = Nil
           /\ stack' = WithTop([Top EXCEPT !.key = CopiedKey(value)])
           /\ Call(Given(Top.table).fields[Top.index], path) /\ heap' = heap
  <2> DEFINE fr == [Top EXCEPT !.key = value]
  <2>1. fr = [table |-> Top.table, new |-> Top.new, index |-> Top.index, key |-> value, left |-> Top.left]
    BY <1>3, <1>4
  <2>2. Replaces(stack', stack, fr)
    BY <1>4 DEF WithTop, CopiedKey, Replaces
  <2> HIDE DEF fr
  <2>3. Seen(L, Top.index) /\ value = Img(L, Top.index)
    BY <1>0, <1>2, <1>4 DEF Awaited
  <2>4. value # Nil
    BY <1>0, <1>3, <1>4, <2>3, CopyOf DEF Seen, Img
  <2>5. Done(fr, TRUE) = (DOMAIN Fields(Top.table) \ Top.left) \ {Top.index}
    BY <2>1 DEF Done
  <2>6. Frame(L, heap, fr, TRUE)
    BY <1>3, <1>4, <2>1, <2>3, <2>5 DEF Frame
  <2>7. /\ IsStack(stack') /\ Len(stack') = Len(stack)
        /\ \A i \in 1..Len(stack) - 1 : stack'[i] = stack[i]
        /\ stack'[Len(stack)] = fr
    BY <1>2, <1>4, <2>2, TopChanged
  <2>8. stack'[Len(stack)].table = stack[Len(stack)].table
    BY <2>1, <2>7 DEF Top
  <2>9. Frame(L, heap, stack'[Len(stack)], ~FALSE)
    BY <2>6, <2>7
  <2>10. /\ Frames(L, heap, stack', FALSE) /\ Finished(L, heap, stack')
         /\ Wanted(stack') = Awaited(fr)
    <3>1. Lookup(L, heap) /\ Frames(L, heap, stack, FALSE) /\ Finished(L, heap, stack) /\ stack # <<>>
      BY <1>0, <1>4
    <3> HIDE DEF L
    <3>2. QED BY <2>7, <2>8, <2>9, <3>1, TopReplaced
  <2>11. Awaited(fr) = Given(Top.table).fields[Top.index]
    BY <2>1, <2>4 DEF Awaited, Fields
  <2>12. QED BY <1>0, <1>4, <2>10, <2>11, CopyInvAfter DEF Call
<1>5. CASE /\ stack # <<>> /\ Top.key # Nil
           /\ heap' = [heap EXCEPT ![Top.new].fields = Set(@, Top.key, value)]
           /\ pc' = "loop" /\ UNCHANGED <<value, path, stack>>
  <2> DEFINE done == (DOMAIN Fields(Top.table) \ Top.left) \ {Top.index}
             source == Fields(Top.table)[Top.index]
  <2>1. Top.new \in DOMAIN heap /\ Top.new = L[Top.table][2]
    BY <1>0, <1>3, <1>5, CopyOf DEF Table
  <2>2. /\ DOMAIN heap' = DOMAIN heap
        /\ heap'[Top.new] = [heap[Top.new] EXCEPT !.fields = Set(@, Top.key, value)]
        /\ \A b \in DOMAIN heap : b # Top.new => heap'[b] = heap[b]
    BY <1>5, <2>1
  <2>3. ASSUME NEW o \in DOMAIN L, o # stack[Len(stack)].table PROVE heap'[L[o][2]] = heap[L[o][2]]
    <3>1. o # Top.table
      BY <2>3 DEF Top
    <3>2. L[o][2] \in DOMAIN heap /\ L[o][2] # L[Top.table][2]
      <4>1. Lookup(L, heap) /\ o \in DOMAIN L /\ Top.table \in DOMAIN L
        <5>1. Lookup(L, heap) /\ o \in DOMAIN L
          BY <1>0, <2>3
        <5>2. Top.table \in DOMAIN L
          BY <1>3, <1>5
        <5>3. QED BY <5>1, <5>2
      <4> HIDE DEF L
      <4>2. L[o][2] \in DOMAIN heap
        BY <4>1, CopyOf
      <4>3. QED BY <3>1, <4>1, <4>2, CopiesDiffer
    <3>3. QED BY <2>1, <2>2, <3>2
  <2>4. Lookup(L, heap')
    BY <1>0, <2>2, LookupStays
  <2>5. /\ Seen(L, Top.index) /\ Top.key = Img(L, Top.index)
        /\ Seen(L, source) /\ value = Img(L, source) /\ source # Nil
    BY <1>0, <1>2, <1>3, <1>5 DEF Awaited
  <2>6. heap'[L[Top.table][2]] =
          [heap[L[Top.table][2]] EXCEPT !.fields = Set(@, Img(L, Top.index), Img(L, source))]
    BY <2>1, <2>2, <2>5
  <2>7. Copied(L, heap', Top.table, done \cup {Top.index})
    BY <1>0, <1>3, <1>5, <2>5, <2>6, FieldCopied
  <2>8. done \cup {Top.index} = Done(Top, FALSE)
    BY <1>3, <1>5 DEF Done
  <2> HIDE DEF done
  <2>9. Frame(L, heap', Top, FALSE)
    BY <1>3, <1>5, <2>7, <2>8 DEF Frame
  <2>10. Frame(L, heap', stack[Len(stack)], ~TRUE)
    BY <2>9 DEF Frame, Done, Top
  <2>11. Frames(L, heap', stack, TRUE) /\ Finished(L, heap', stack)
    <3>1. /\ Lookup(L, heap) /\ Frames(L, heap, stack, FALSE) /\ Finished(L, heap, stack)
          /\ stack # <<>> /\ IsStack(stack)
      BY <1>0, <1>5 DEF Frames
    <3> HIDE DEF L
    <3>2. QED BY <2>3, <2>10, <3>1, TopReplaced
  <2>12. QED BY <1>0, <1>5, <2>4, <2>11, CopyInvAfter
<1>6. QED BY <1>1, <1>4, <1>5 DEF CopyReturn

-----------------------------------------------------------------------------
(* table.dump *)

Walks(s, seen) ==
  /\ IsStack(s)
  /\ \A i \in 1..Len(s) :
       /\ {"table", "keys"} \subseteq DOMAIN s[i] /\ s[i].table \in seen
       /\ IsStack(s[i].keys)
       /\ \A j \in 1..Len(s[i].keys) : s[i].keys[j] \in DOMAIN Fields(s[i].table)
  /\ \A i, j \in 1..Len(s) : s[i].table = s[j].table => i = j

DumpInv ==
  /\ pc \in {"call", "loop", "return", "load", "run", "done", "raised"}
  /\ DOMAIN defined \subseteq Originals
  /\ Walks(stack, DOMAIN defined)
  /\ pc = "loop" => stack # <<>>
  /\ pc = "call" => (IsTable(value) => value \in Originals)

LEMMA DumpInvAfter ==
  ASSUME given' = given,
         pc' \in {"call", "loop", "return", "load", "run", "done", "raised"},
         DOMAIN defined' \subseteq Originals, Walks(stack', DOMAIN defined'),
         pc' = "loop" => stack' # <<>>,
         pc' = "call" => (IsTable(value') => value' \in Originals)
  PROVE  DumpInv'
<1>1. Originals' = Originals
  BY DEF Originals
<1>2. Walks(stack, DOMAIN defined)'
  BY DEF Walks, Fields, Given
<1>3. QED BY <1>1, <1>2 DEF DumpInv

LEMMA KeysOf ==
  ASSUME given \in Graphs, NEW o \in Originals, NEW ks \in Keys(Given(o))
  PROVE  IsStack(ks) /\ \A j \in 1..Len(ks) : ks[j] \in DOMAIN Fields(o)
<1> DEFINE S == DOMAIN Fields(o)
<1>1. Cardinality(S) \in Nat
  BY Graph, FS_CardinalityType
<1>2. ks \in [1..Cardinality(S) -> S]
  BY DEF Keys, SetToSeqs, Fields
<1> HIDE DEF S
<1>3. ks \in Seq(S)
  BY <1>1, <1>2, SeqDef
<1>4. QED BY <1>3, SeqIsStack, ElementOfSeq DEF S

LEMMA TopWalks ==
  ASSUME NEW s, NEW seen, Walks(s, seen), s # <<>>, NEW s2, NEW frame, Replaces(s2, s, frame),
         {"table", "keys"} \subseteq DOMAIN frame, frame.table = s[Len(s)].table,
         frame.keys = s[Len(s)].keys \/ (s[Len(s)].keys # <<>> /\ frame.keys = Tail(s[Len(s)].keys))
  PROVE  Walks(s2, seen) /\ s2 # <<>>
<1>1. /\ IsStack(s) /\ Len(s) \in Nat /\ Len(s) > 0
  BY StackLen DEF Walks
<1>2. /\ IsStack(s2) /\ Len(s2) = Len(s) /\ s2 # <<>> /\ s2[Len(s)] = frame
      /\ \A i \in 1..Len(s) - 1 : s2[i] = s[i]
  BY <1>1, TopChanged
<1>3. Len(s) \in 1..Len(s) /\ \A i \in 1..Len(s) : i \in 1..Len(s) - 1 \/ i = Len(s)
  BY <1>1
<1> DEFINE keys == s[Len(s)].keys
<1>4. /\ IsStack(keys) /\ s[Len(s)].table \in seen
      /\ \A j \in 1..Len(keys) : keys[j] \in DOMAIN Fields(s[Len(s)].table)
  BY <1>3 DEF Walks
<1> HIDE DEF keys
<1>5. ASSUME keys # <<>>
      PROVE  /\ IsStack(Tail(keys))
             /\ \A j \in 1..Len(Tail(keys)) : Tail(keys)[j] \in DOMAIN Fields(s[Len(s)].table)
  <2> DEFINE S == DOMAIN Fields(s[Len(s)].table)
  <2> HIDE DEF S
  <2>1. Len(keys) \in Nat /\ keys \in [1..Len(keys) -> {keys[j] : j \in 1..Len(keys)}]
    BY <1>4, LenProperties DEF IsStack
  <2>2. keys \in [1..Len(keys) -> S]
    BY <1>4, <2>1 DEF S
  <2>3. keys \in Seq(S)
    BY <2>1, <2>2, SeqDef
  <2>4. Tail(keys) \in Seq(S)
    BY <1>5, <2>3, HeadTailProperties
  <2>5. QED BY <2>4, SeqIsStack, ElementOfSeq DEF S
<1>6. /\ IsStack(frame.keys)
      /\ \A j \in 1..Len(frame.keys) : frame.keys[j] \in DOMAIN Fields(frame.table)
  BY <1>4, <1>5 DEF keys
<1>7. \A i \in 1..Len(s) : s2[i].table = s[i].table
  BY <1>2, <1>3
<1>8. \A i \in 1..Len(s2) :
        /\ {"table", "keys"} \subseteq DOMAIN s2[i] /\ s2[i].table \in seen
        /\ IsStack(s2[i].keys)
        /\ \A j \in 1..Len(s2[i].keys) : s2[i].keys[j] \in DOMAIN Fields(s2[i].table)
  <2>1. TAKE i \in 1..Len(s2)
  <2>2. CASE i \in 1..Len(s) - 1
    BY <1>2, <1>3, <2>1, <2>2 DEF Walks
  <2>3. CASE i = Len(s)
    BY <1>2, <1>4, <1>6, <2>3
  <2>4. QED BY <1>2, <1>3, <2>1, <2>2, <2>3
<1>9. QED BY <1>2, <1>7, <1>8 DEF Walks

LEMMA DumpCallInv == ASSUME given \in Graphs, DumpInv, DumpCall PROVE DumpInv'
<1>0. /\ pc = "call" /\ (IsTable(value) => value \in Originals) /\ given' = given
      /\ DOMAIN defined \subseteq Originals /\ Walks(stack, DOMAIN defined)
  BY DEF DumpInv, DumpCall, Dumping
<1>1. CASE UNCHANGED <<stack, defined>> /\ pc' \in {"return", "raised"}
  BY <1>0, <1>1, DumpInvAfter
<1>2. CASE /\ IsTable(value) /\ value \notin DOMAIN defined
           /\ defined' = Defined
           /\ \E ks \in Keys(Given(value)) :
                stack' = Append(stack, [table |-> value, path |-> path, place |-> Place,
                                        keys |-> ks, numidx |-> 1, key |-> Meta])
           /\ IF Given(value).meta = Nil THEN Return(Nil)
              ELSE Call(Given(value).meta, Append(path, Meta))
  <2>1. PICK ks, fr :
          /\ ks \in Keys(Given(value))
          /\ fr = [table |-> value, path |-> path, place |-> Place,
                   keys |-> ks, numidx |-> 1, key |-> Meta]
          /\ stack' = Append(stack, fr)
    BY <1>2
  <2>2. fr.table = value /\ fr.keys = ks /\ {"table", "keys"} \subseteq DOMAIN fr
    BY <2>1
  <2>3. IsStack(ks) /\ \A j \in 1..Len(ks) : ks[j] \in DOMAIN Fields(value)
    BY <1>0, <1>2, <2>1, KeysOf
  <2>4. DOMAIN defined' = DOMAIN defined \cup {value}
    BY <1>2 DEF Defined, Put
  <2>5. /\ IsStack(stack') /\ Len(stack') = Len(stack) + 1 /\ stack' # <<>> /\ Len(stack) \in Nat
        /\ \A i \in 1..Len(stack) : stack'[i] = stack[i]
        /\ stack'[Len(stack) + 1] = fr
    BY <1>0, <2>1, Pushed, StackLen DEF Walks
  <2>6. \A i \in 1..Len(stack') : i \in 1..Len(stack) \/ i = Len(stack) + 1
    BY <2>5
  <2>7. \A i \in 1..Len(stack) : stack[i].table \in DOMAIN defined /\ stack[i].table # value
    BY <1>0, <1>2 DEF Walks
  <2>8. \A i \in 1..Len(stack') :
          /\ {"table", "keys"} \subseteq DOMAIN stack'[i] /\ stack'[i].table \in DOMAIN defined'
          /\ IsStack(stack'[i].keys)
          /\ \A j \in 1..Len(stack'[i].keys) : stack'[i].keys[j] \in DOMAIN Fields(stack'[i].table)
    <3>1. TAKE i \in 1..Len(stack')
    <3>2. CASE i \in 1..Len(stack)
      BY <1>0, <2>4, <2>5, <3>2 DEF Walks
    <3>3. CASE i = Len(stack) + 1
      BY <2>2, <2>3, <2>4, <2>5, <3>3
    <3>4. QED BY <2>6, <3>1, <3>2, <3>3
  <2>9. \A i, j \in 1..Len(stack') : stack'[i].table = stack'[j].table => i = j
    <3>1. \A i, j \in 1..Len(stack) : stack[i].table = stack[j].table => i = j
      BY <1>0 DEF Walks
    <3>2. QED BY <2>2, <2>5, <2>6, <2>7, <3>1
  <2>10. Walks(stack', DOMAIN defined')
    BY <2>5, <2>8, <2>9 DEF Walks
  <2>11. pc' \in {"return", "call"} /\ (pc' = "call" => value' \in Originals)
    BY <1>0, <1>2, Graph DEF Return, Call
  <2>12. QED BY <1>0, <1>2, <2>4, <2>10, <2>11, DumpInvAfter
<1>3. QED BY <1>1, <1>2 DEF DumpCall, Return, Raise

\* The innermost frame, which DumpLoop and DumpReturn change.
LEMMA TopOfWalk ==
  ASSUME Walks(stack, DOMAIN defined), stack # <<>>
  PROVE  /\ {"table", "keys"} \subseteq DOMAIN Top /\ Top.table \in DOMAIN defined
         /\ Top.keys # <<>> => Head(Top.keys) \in DOMAIN Fields(Top.table)
<1>1. Len(stack) \in 1..Len(stack)
  BY StackLen DEF Walks
<1>2. /\ {"table", "keys"} \subseteq DOMAIN Top /\ Top.table \in DOMAIN defined /\ IsStack(Top.keys)
      /\ \A j \in 1..Len(Top.keys) : Top.keys[j] \in DOMAIN Fields(Top.table)
  BY <1>1 DEF Walks, Top
<1>3. Top.keys # <<>> => Head(Top.keys) = Top.keys[1] /\ 1 \in 1..Len(Top.keys)
  BY <1>2, StackLen
<1>4. QED BY <1>2, <1>3

LEMMA DumpLoopInv == ASSUME given \in Graphs, DumpInv, DumpLoop PROVE DumpInv'
<1> DEFINE k == Head(Top.keys)
<1>0. /\ pc = "loop" /\ stack # <<>> /\ given' = given /\ defined' = defined
      /\ DOMAIN defined \subseteq Originals /\ Walks(stack, DOMAIN defined)
  BY DEF DumpInv, DumpLoop, Dumping
<1>1. /\ {"table", "keys"} \subseteq DOMAIN Top /\ Top.table \in Originals
      /\ Top.keys # <<>> => k \in DOMAIN Fields(Top.table)
  BY <1>0, TopOfWalk
<1>2. ASSUME NEW fr, Top.keys # <<>>, stack' = WithTop(fr), Call(Given(Top.table).fields[k], Subpath(k)),
             {"table", "keys"} \subseteq DOMAIN fr, fr.table = Top.table, fr.keys = Tail(Top.keys)
      PROVE  DumpInv'
  <2>1. Replaces(stack', stack, fr)
    BY <1>2 DEF WithTop, Replaces
  <2>2. Walks(stack', DOMAIN defined) /\ stack' # <<>>
    BY <1>0, <1>2, <2>1, TopWalks DEF Top
  <2>3. pc' = "call" /\ (IsTable(value') => value' \in Originals)
    BY <1>1, <1>2, Graph DEF Call, Fields
  <2>4. QED BY <1>0, <2>2, <2>3, DumpInvAfter
<1>3. CASE Return(Inner) /\ stack' = Popped
  <2>1. /\ IsStack(stack') /\ Len(stack') = Len(stack) - 1 /\ Len(stack) \in Nat
        /\ \A i \in 1..Len(stack) - 1 : stack'[i] = stack[i]
    BY <1>0, <1>3, PoppedOff, StackLen DEF Popped, Walks
  <2>2. \A i \in 1..Len(stack') : i \in 1..Len(stack) /\ stack'[i] = stack[i]
    BY <2>1
  <2>3. Walks(stack', DOMAIN defined)
    BY <1>0, <2>1, <2>2 DEF Walks
  <2>4. QED BY <1>0, <1>3, <2>3, DumpInvAfter DEF Return
<1>4. CASE /\ Top.keys # <<>>
           /\ stack' = WithTop([Top EXCEPT !.keys = Tail(@), !.key = None, !.numidx = @ + 1])
           /\ Call(Given(Top.table).fields[k], Subpath(k))
  <2> DEFINE fr == [Top EXCEPT !.keys = Tail(@), !.key = None, !.numidx = @ + 1]
  <2>1. {"table", "keys"} \subseteq DOMAIN fr /\ fr.table = Top.table /\ fr.keys = Tail(Top.keys)
    BY <1>1
  <2>2. stack' = WithTop(fr)
    BY <1>4
  <2> HIDE DEF fr
  <2>3. QED BY <1>2, <1>4, <2>1, <2>2
<1>5. CASE /\ Top.keys # <<>>
           /\ stack' = WithTop([Top EXCEPT !.keys = Tail(@), !.key = KeyText(k)])
           /\ Call(Given(Top.table).fields[k], Subpath(k))
  <2> DEFINE fr == [Top EXCEPT !.keys = Tail(@), !.key = KeyText(k)]
  <2>1. {"table", "keys"} \subseteq DOMAIN fr /\ fr.table = Top.table /\ fr.keys = Tail(Top.keys)
    BY <1>1
  <2>2. stack' = WithTop(fr)
    BY <1>5
  <2> HIDE DEF fr
  <2>3. QED BY <1>2, <1>5, <2>1, <2>2
<1>6. CASE Raise
  BY <1>0, <1>6, DumpInvAfter DEF Raise
<1>7. QED BY <1>3, <1>4, <1>5, <1>6 DEF DumpLoop

LEMMA DumpReturnInv == ASSUME given \in Graphs, DumpInv, DumpReturn PROVE DumpInv'
<1>0. /\ pc = "return" /\ given' = given /\ defined' = defined
      /\ DOMAIN defined \subseteq Originals /\ Walks(stack, DOMAIN defined)
  BY DEF DumpInv, DumpReturn, Dumping
<1>1. CASE pc' = "load" /\ stack' = stack
  BY <1>0, <1>1, DumpInvAfter
<1>2. ASSUME NEW fr, stack # <<>>, stack' = WithTop(fr), pc' = "loop",
             {"table", "keys"} \subseteq DOMAIN fr, fr.table = Top.table, fr.keys = Top.keys
      PROVE  DumpInv'
  <2>1. Replaces(stack', stack, fr)
    BY <1>2 DEF WithTop, Replaces
  <2>2. Walks(stack', DOMAIN defined) /\ stack' # <<>>
    BY <1>0, <1>2, <2>1, TopWalks DEF Top
  <2>3. QED BY <1>0, <1>2, <2>2, DumpInvAfter
<1>3. CASE stack # <<>> /\ stack' = WithTop([Top EXCEPT !.key = Nil]) /\ pc' = "loop"
  <2> DEFINE fr == [Top EXCEPT !.key = Nil]
  <2>1. {"table", "keys"} \subseteq DOMAIN Top
    BY <1>0, <1>3, TopOfWalk
  <2>2. {"table", "keys"} \subseteq DOMAIN fr /\ fr.table = Top.table /\ fr.keys = Top.keys
    BY <2>1
  <2>3. stack' = WithTop(fr)
    BY <1>3
  <2> HIDE DEF fr
  <2>4. QED BY <1>2, <1>3, <2>2, <2>3
<1>4. CASE stack # <<>> /\ stack' = stack /\ pc' = "loop"
  BY <1>0, <1>4, DumpInvAfter
<1>5. QED BY <1>1, <1>3, <1>4 DEF DumpReturn

-----------------------------------------------------------------------------
(* The text of table.dump, when each table is plain. W maps a table to the place *)
(* of its constructor, and O to the order in which its keys are taken: item i of  *)
(* o has the key O[o][i], and its metatable is item 0.                            *)

\* What the text of its fields gives.
Plain(o) ==
  \A k \in DOMAIN Fields(o) :
    ~IsTable(k) /\ Read(k) = k /\ Read(Fields(o)[k]) \notin {Nil, None}

IsOrder(o, ks) ==
  /\ IsStack(ks)
  /\ {ks[i] : i \in 1..Len(ks)} = DOMAIN Fields(o)
  /\ \A i, j \in 1..Len(ks) : ks[i] = ks[j] => i = j

Label(O, o, i) == IF i = 0 THEN Meta ELSE O[o][i]
Target(O, o, i) == IF i = 0 THEN Given(o).meta ELSE Fields(o)[O[o][i]]

\* The target is written there and then, or it was defined before.
Tree(W, O, o, i) == Target(O, o, i) \in DOMAIN W /\ W[Target(O, o, i)] = Append(W[o], i)
Sign(W, O, o, i) ==
  IF Tree(W, O, o, i) THEN Inner ELSE IF IsTable(Target(O, o, i)) THEN Nil ELSE Target(O, o, i)

PathTo(O, D, o, i) == Append(D[o], Label(O, o, i))
Assigned(p, O, D, o, i) ==
  \E x \in 1..Len(p) : p[x] = <<PathTo(O, D, o, i), D[Target(O, o, i)]>>
Settled(W, O, D, p, o, i) ==
  IsTable(Target(O, o, i)) =>
    Target(O, o, i) \in DOMAIN W /\ (Tree(W, O, o, i) \/ Assigned(p, O, D, o, i))

\* A positional item has the number of those up to it as its key.
Nones(items, n) == Cardinality({j \in 1..n : items[j][1] = None})
Tagged(items, ks, i) ==
  \/ items[i][1] = ks[i] /\ items[i][1] # None
  \/ items[i][1] = None /\ ks[i] = <<"number", Nones(items, i)>>

\* The n first items of the constructor c of o are written; and its metatable.
ItemsWritten(W, O, D, p, c, o, n) ==
  /\ c = [items |-> c.items, meta |-> c.meta]
  /\ IsStack(c.items) /\ Len(c.items) = n
  /\ \A i \in 1..n : /\ c.items[i][2] = Sign(W, O, o, i)
                     /\ Tagged(c.items, O[o], i)
                     /\ Settled(W, O, D, p, o, i)
MetaWritten(W, O, D, p, c, o) == c.meta = Sign(W, O, o, 0) /\ Settled(W, O, D, p, o, 0)

Whole(W, O, D, p, X, o) ==
  /\ ItemsWritten(W, O, D, p, X[W[o]], o, Len(O[o]))
  /\ MetaWritten(W, O, D, p, X[W[o]], o)

\* W and D are one to one with the constructors, and lead from table to table.
Placed(W, O, D, X) ==
  /\ DOMAIN W = DOMAIN D /\ DOMAIN O = DOMAIN D /\ DOMAIN D \subseteq Originals
  /\ \A o \in DOMAIN D : IsOrder(o, O[o]) /\ IsStack(W[o]) /\ IsStack(D[o])
  /\ \A o, u \in DOMAIN D : W[o] = W[u] => o = u
  /\ DOMAIN X = {W[o] : o \in DOMAIN D}
  /\ DOMAIN D # {} => Table(1) \in DOMAIN D /\ W[Table(1)] = <<>> /\ D[Table(1)] = <<>>
  /\ \A o \in DOMAIN D \ {Table(1)} : \E u \in DOMAIN D : \E i \in 0..Len(O[u]) :
       Target(O, u, i) = o /\ W[o] = Append(W[u], i) /\ D[o] = PathTo(O, D, u, i)

\* The assignments are those that lead to tables defined before.
Assignments(W, O, D, p) ==
  /\ IsStack(p)
  /\ \A x \in 1..Len(p) : \E u \in DOMAIN D : \E i \in 0..Len(O[u]) :
       /\ Target(O, u, i) \in DOMAIN D /\ ~Tree(W, O, u, i)
       /\ p[x] = <<PathTo(O, D, u, i), D[Target(O, u, i)]>>

\* The items of a frame's constructor, and the one that is being written next.
Written(f, X) == IF f.key = Meta THEN {} ELSE 0..Len(X[f.place].items)
Coming(f, X) == IF f.key = Meta THEN 0 ELSE Len(X[f.place].items) + 1

\* An item of the innermost frame is being written unless the loop turns.
Mode(at) == IF at = "loop" THEN "idle" ELSE "busy"

DumpFrame(W, O, D, p, X, f, mode) ==
  LET busy == mode = "busy"
      n == Len(X[f.place].items)
      taken == IF f.key = Meta THEN 0 ELSE IF busy THEN n + 1 ELSE n
  IN /\ f = [table |-> f.table, path |-> f.path, place |-> f.place, keys |-> f.keys,
             numidx |-> f.numidx, key |-> f.key]
     /\ f.table \in DOMAIN D /\ f.place = W[f.table] /\ f.path = D[f.table]
     /\ ItemsWritten(W, O, D, p, X[f.place], f.table, n)
     /\ f.key = Meta => busy /\ n = 0
     /\ f.key # Meta => MetaWritten(W, O, D, p, X[f.place], f.table)
     /\ IsStack(f.keys) /\ Len(f.keys) = Len(O[f.table]) - taken
     /\ \A j \in 1..Len(f.keys) : f.keys[j] = O[f.table][taken + j]
     /\ f.numidx = 1 + Nones(X[f.place].items, n) + IF busy /\ f.key = None THEN 1 ELSE 0
     /\ busy /\ f.key # Meta =>
          \/ f.key = O[f.table][n + 1] /\ f.key # None
          \/ f.key = None /\ O[f.table][n + 1] = <<"number", f.numidx - 1>>

DumpFrames(W, O, D, p, X, s, mode) ==
  /\ IsStack(s)
  /\ \A j \in 1..Len(s) : DumpFrame(W, O, D, p, X, s[j], IF j = Len(s) THEN mode ELSE "busy")
  /\ \A j \in 1..Len(s) - 1 : /\ s[j + 1].table = Target(O, s[j].table, Coming(s[j], X))
                              /\ s[j + 1].place = Append(s[j].place, Coming(s[j], X))
  /\ s # <<>> => s[1].table = Table(1)
  /\ \A o \in DOMAIN D : ~OnStack(s, o) => Whole(W, O, D, p, X, o)

\* Where nothing was written yet there is no constructor. The innermost frame has entered
\* the item that comes next when a call returns, and the others have entered theirs.
Free(X, s, at) ==
  \A j \in 1..Len(s) : \A i : Append(s[j].place, i) \in DOMAIN X =>
    i \in Written(s[j], X) \/ (i = Coming(s[j], X) /\ (j < Len(s) \/ at = "return"))

\* at, v and q are pc, value and path.
Writing(W, O, D, X, p, s, at, v, q) ==
  LET f == s[Len(s)]
      next == Coming(f, X)
  IN /\ Placed(W, O, D, X) /\ Assignments(W, O, D, p)
     /\ DumpFrames(W, O, D, p, X, s, Mode(at))
     /\ Free(X, s, at)
     /\ at = "call" => IF s = <<>> THEN DOMAIN D = {} /\ v = Table(1) /\ q = <<>>
                       ELSE v = Target(O, f.table, next) /\ q = PathTo(O, D, f.table, next)
     /\ at = "loop" => s # <<>>
     /\ at \in {"return", "load"} => Table(1) \in DOMAIN D
     /\ at = "return" /\ s # <<>> =>
          v = Sign(W, O, f.table, next) /\ Settled(W, O, D, p, f.table, next)
     /\ at = "load" => s = <<>>

Mapped(W, v) == IF IsTable(v) THEN Table(W[v]) ELSE Read(v)
Has(W, O, h, o, i) ==
  IF i = 0 THEN h[W[o]].meta = Mapped(W, Target(O, o, 0))
  ELSE O[o][i] \in DOMAIN h[W[o]].fields /\ h[W[o]].fields[O[o][i]] = Mapped(W, Target(O, o, i))

\* What is not assigned yet was in the constructor.
Loaded(W, O, D, p, h) ==
  /\ DOMAIN h = {W[o] : o \in DOMAIN D}
  /\ \A o \in DOMAIN D :
       /\ h[W[o]] = [fields |-> h[W[o]].fields, meta |-> h[W[o]].meta]
       /\ DOMAIN h[W[o]].fields \subseteq DOMAIN Fields(o)
       /\ \A i \in 0..Len(O[o]) :
            /\ IsTable(Target(O, o, i)) => Target(O, o, i) \in DOMAIN D
            /\ Has(W, O, h, o, i) \/ Assigned(p, O, D, o, i)
            /\ ~IsTable(Target(O, o, i)) \/ Tree(W, O, o, i) => Has(W, O, h, o, i)
Running(W, O, D, X, p, h, v) ==
  /\ Table(1) \in DOMAIN D /\ v = Table(<<>>)
  /\ Placed(W, O, D, X) /\ Assignments(W, O, D, p) /\ Loaded(W, O, D, p, h)

Refused ==
  \E o \in DOMAIN defined : \E k \in DOMAIN Fields(o) :
    \/ IsTable(k) \/ "userdata" \in {k[1], Fields(o)[k][1]}
    \/ Read(k) # k \/ Read(Fields(o)[k]) \in {Nil, None}
NoRoom == Len(stack) >= MaxCalls \/ (heap = <<>> /\ ~Compiles(text, out))

LEMMA AppendsDiffer ==
  ASSUME NEW s, NEW t, IsStack(s), IsStack(t), NEW a, NEW b, Append(s, a) = Append(t, b)
  PROVE  s = t /\ a = b
<1>1. Len(s) \in Nat /\ Len(t) \in Nat
  BY StackLen
<1> DEFINE r == Append(s, a)
<1>2. /\ Len(r) = Len(s) + 1 /\ r[Len(s) + 1] = a
      /\ \A i \in 1..Len(s) : r[i] = s[i]
  BY Pushed
<1>3. /\ Len(r) = Len(t) + 1 /\ r[Len(t) + 1] = b
      /\ \A i \in 1..Len(t) : r[i] = t[i]
  <2>1. r = Append(t, b)
    OBVIOUS
  <2> HIDE DEF r
  <2>2. QED BY <2>1, Pushed
<1> HIDE DEF r
<1>4. Len(s) = Len(t)
  BY <1>1, <1>2, <1>3
<1>5. a = b /\ \A i \in 1..Len(s) : s[i] = t[i]
  BY <1>2, <1>3, <1>4
<1>6. s = [i \in 1..Len(s) |-> s[i]]
  BY LenProperties DEF IsStack
<1>7. t = [i \in 1..Len(t) |-> t[i]]
  BY LenProperties DEF IsStack
<1>8. [i \in 1..Len(s) |-> s[i]] = [i \in 1..Len(t) |-> t[i]]
  BY <1>4, <1>5
<1>9. QED BY ONLY <1>5, <1>6, <1>7, <1>8

\* What is appended leaves the count of the items before it.
LEMMA NonesAppended ==
  ASSUME NEW s, IsStack(s), NEW e
  PROVE  /\ \A n \in 0..Len(s) : Nones(Append(s, e), n) = Nones(s, n) /\ Nones(s, n) \in Nat
         /\ Nones(Append(s, e), Len(s) + 1) = Nones(s, Len(s)) + IF e[1] = None THEN 1 ELSE 0
<1> DEFINE t == Append(s, e)
           S(r, n) == {j \in 1..n : r[j][1] = None}
<1>1. /\ Len(s) \in Nat /\ \A i \in 1..Len(s) : t[i] = s[i]
      /\ t[Len(s) + 1] = e
  BY Pushed, StackLen
<1> HIDE DEF t
<1>2. \A n \in 0..Len(s) : S(t, n) = S(s, n)
  BY <1>1
<1>3. ASSUME NEW n \in 0..Len(s) PROVE IsFiniteSet(S(s, n)) /\ Cardinality(S(s, n)) \in Nat
  <2>1. IsFiniteSet(1..n)
    BY <1>1, FS_Interval
  <2>2. S(s, n) \subseteq 1..n
    OBVIOUS
  <2>3. IsFiniteSet(S(s, n))
    BY <2>1, <2>2, FS_Subset
  <2>4. QED BY <2>3, FS_CardinalityType
<1>4. S(t, Len(s) + 1) = S(s, Len(s)) \cup IF e[1] = None THEN {Len(s) + 1} ELSE {}
  <2>1. \A j \in 1..Len(s) + 1 : j \in 1..Len(s) \/ j = Len(s) + 1
    BY <1>1
  <2>2. 1..Len(s) \subseteq 1..Len(s) + 1 /\ Len(s) + 1 \in 1..Len(s) + 1
    BY <1>1
  <2>3. QED BY <1>1, <2>1, <2>2
<1>5. Len(s) + 1 \notin S(s, Len(s)) /\ Len(s) \in 0..Len(s)
  BY <1>1
<1>6. Cardinality(S(t, Len(s) + 1)) = Cardinality(S(s, Len(s))) + IF e[1] = None THEN 1 ELSE 0
  <2> DEFINE A == S(s, Len(s))
  <2>1. IsFiniteSet(A) /\ Cardinality(A) \in Nat /\ Len(s) + 1 \notin A
    BY <1>3, <1>5
  <2>2. S(t, Len(s) + 1) = A \cup IF e[1] = None THEN {Len(s) + 1} ELSE {}
    BY <1>4
  <2> HIDE DEF A, S
  <2>3. CASE e[1] = None
    <3>1. Cardinality(A \cup {Len(s) + 1}) = Cardinality(A) + 1
      BY <2>1, FS_AddElement
    <3>2. QED BY <2>2, <2>3, <3>1 DEF A
  <2>4. CASE e[1] # None
    <3>1. S(t, Len(s) + 1) = A
      BY <2>2, <2>4
    <3>2. QED BY <2>1, <2>4, <3>1 DEF A
  <2>5. QED BY <2>3, <2>4
<1>7. QED BY <1>2, <1>3, <1>6 DEF Nones, t

\* No key, no target and no label is what the text uses for other things.
LEMMA OrderIs ==
  ASSUME given \in Graphs, NEW O, NEW o \in Originals, IsOrder(o, O[o])
  PROVE  /\ Len(O[o]) \in Nat
         /\ \A i \in 1..Len(O[o]) :
              /\ i # 0 /\ O[o][i] \in DOMAIN Fields(o) /\ Label(O, o, i) = O[o][i]
              /\ Target(O, o, i) = Fields(o)[O[o][i]]
              /\ O[o][i] \notin {Meta, None, Nil, Inner, NewTable}
              /\ Target(O, o, i) \notin {Nil, Inner, None}
         /\ Label(O, o, 0) = Meta /\ Target(O, o, 0) = Given(o).meta
         /\ \A i \in 0..Len(O[o]) : /\ IsTable(Target(O, o, i)) => Target(O, o, i) \in Originals
                                    /\ Target(O, o, i) \notin {Inner, None}
         /\ \A i, j \in 0..Len(O[o]) : Label(O, o, i) = Label(O, o, j) => i = j
<1>1. Len(O[o]) \in Nat /\ \A i \in 1..Len(O[o]) : i # 0 /\ O[o][i] \in DOMAIN Fields(o)
  BY StackLen DEF IsOrder
<1>2. \A v : v[1] \in Types => v \notin {Meta, None, Nil, Inner, NewTable}
  BY DEF Types, Meta, None, Nil, Inner, NewTable
<1>3. \A k \in DOMAIN Fields(o) : k[1] \in Types /\ Fields(o)[k][1] \in Types
                                  /\ (IsTable(Fields(o)[k]) => Fields(o)[k] \in Originals)
  BY Graph
<1>4. /\ Label(O, o, 0) = Meta /\ Target(O, o, 0) = Given(o).meta
      /\ \A i \in 1..Len(O[o]) : Label(O, o, i) = O[o][i] /\ Target(O, o, i) = Fields(o)[O[o][i]]
  BY <1>1 DEF Label, Target
<1>5. \A i \in 0..Len(O[o]) : i = 0 \/ i \in 1..Len(O[o])
  BY <1>1
<1>6. /\ IsTable(Given(o).meta) => Given(o).meta \in Originals
      /\ Given(o).meta \notin {Inner, None}
  <2>1. Given(o).meta = Nil \/ Given(o).meta \in Originals
    BY Graph
  <2>2. \A u \in Originals : u \notin {Inner, None}
    BY Graph DEF Inner, None, IsTable
  <2>3. Nil \notin {Inner, None} /\ ~IsTable(Nil)
    BY DEF Nil, Inner, None, IsTable
  <2>4. QED BY <2>1, <2>2, <2>3
<1>7. \A i \in 1..Len(O[o]) : /\ O[o][i] \notin {Meta, None, Nil, Inner, NewTable}
                              /\ Target(O, o, i) \notin {Nil, Inner, None}
                              /\ (IsTable(Target(O, o, i)) => Target(O, o, i) \in Originals)
  BY <1>1, <1>2, <1>3, <1>4
<1>8. \A i, j \in 1..Len(O[o]) : O[o][i] = O[o][j] => i = j
  BY DEF IsOrder
<1>9. \A i, j \in 0..Len(O[o]) : Label(O, o, i) = Label(O, o, j) => i = j
  BY <1>4, <1>5, <1>7, <1>8
<1>10. QED BY <1>1, <1>4, <1>5, <1>6, <1>7, <1>9

\* What is written stays right while other tables are defined and assigned to.
Grows(W, O, D, p, W2, O2, D2, p2) ==
  /\ DOMAIN W = DOMAIN D /\ DOMAIN W2 = DOMAIN D2
  /\ DOMAIN D \subseteq DOMAIN D2 /\ DOMAIN D2 \subseteq Originals
  /\ \A o \in DOMAIN D : W2[o] = W[o] /\ O2[o] = O[o] /\ D2[o] = D[o]
  /\ Len(p) \in Nat /\ Len(p2) \in Nat /\ Len(p) <= Len(p2)
  /\ \A x \in 1..Len(p) : p2[x] = p[x]

LEMMA SettledStays ==
  ASSUME given \in Graphs, NEW W, NEW O, NEW D, NEW p, NEW W2, NEW O2, NEW D2, NEW p2,
         Grows(W, O, D, p, W2, O2, D2, p2), NEW o \in DOMAIN D, NEW i
  PROVE  /\ Target(O2, o, i) = Target(O, o, i) /\ PathTo(O2, D2, o, i) = PathTo(O, D, o, i)
         /\ Target(O, o, i) \in DOMAIN W => (Tree(W2, O2, o, i) <=> Tree(W, O, o, i))
         /\ Settled(W, O, D, p, o, i) =>
              Settled(W2, O2, D2, p2, o, i) /\ Sign(W2, O2, o, i) = Sign(W, O, o, i)
<1> DEFINE t == Target(O, o, i)
<1>1. W2[o] = W[o] /\ O2[o] = O[o] /\ D2[o] = D[o] /\ o \in DOMAIN W
  BY DEF Grows
<1>2. Target(O2, o, i) = t /\ PathTo(O2, D2, o, i) = PathTo(O, D, o, i)
  BY <1>1 DEF Target, PathTo, Label
<1>3. t \in DOMAIN W => t \in DOMAIN W2 /\ W2[t] = W[t] /\ t \in DOMAIN D /\ D2[t] = D[t]
  BY DEF Grows
<1>4. t \in DOMAIN W => (Tree(W2, O2, o, i) <=> Tree(W, O, o, i))
  BY <1>1, <1>2, <1>3 DEF Tree
<1>5. t \in DOMAIN W2 => IsTable(t)
  BY Graph DEF Grows
<1>6. CASE IsTable(t)
  <2>1. SUFFICES ASSUME Settled(W, O, D, p, o, i)
                 PROVE  Settled(W2, O2, D2, p2, o, i) /\ Sign(W2, O2, o, i) = Sign(W, O, o, i)
    BY <1>2, <1>4
  <2>2. t \in DOMAIN W /\ (Tree(W, O, o, i) \/ Assigned(p, O, D, o, i))
    BY <1>6, <2>1 DEF Settled
  <2>3. Assigned(p, O, D, o, i) => Assigned(p2, O2, D2, o, i)
    <3>1. SUFFICES ASSUME NEW x \in 1..Len(p), p[x] = <<PathTo(O, D, o, i), D[t]>>
                   PROVE  Assigned(p2, O2, D2, o, i)
      BY DEF Assigned
    <3>2. x \in 1..Len(p2) /\ p2[x] = p[x]
      BY DEF Grows
    <3>3. QED BY <1>2, <1>3, <2>2, <3>1, <3>2 DEF Assigned
  <2>4. QED BY <1>2, <1>3, <1>4, <1>6, <2>2, <2>3 DEF Settled, Sign
<1>7. CASE ~IsTable(t)
  <2>1. ~Tree(W, O, o, i) /\ ~Tree(W2, O2, o, i)
    BY <1>2, <1>3, <1>5, <1>7 DEF Tree
  <2>2. QED BY <1>2, <1>3, <1>7, <2>1 DEF Settled, Sign
<1>8. QED BY <1>2, <1>4, <1>6, <1>7

LEMMA WrittenStays ==
  ASSUME given \in Graphs, NEW W, NEW O, NEW D, NEW p, NEW W2, NEW O2, NEW D2, NEW p2,
         Grows(W, O, D, p, W2, O2, D2, p2), NEW o \in DOMAIN D, NEW c
  PROVE  /\ \A n : ItemsWritten(W, O, D, p, c, o, n) => ItemsWritten(W2, O2, D2, p2, c, o, n)
         /\ MetaWritten(W, O, D, p, c, o) => MetaWritten(W2, O2, D2, p2, c, o)
<1>1. \A i : Settled(W, O, D, p, o, i) =>
               Settled(W2, O2, D2, p2, o, i) /\ Sign(W2, O2, o, i) = Sign(W, O, o, i)
  BY SettledStays
<1>2. O2[o] = O[o]
  BY DEF Grows
<1>3. QED BY <1>1, <1>2 DEF ItemsWritten, MetaWritten

LEMMA WholeStays ==
  ASSUME given \in Graphs, NEW W, NEW O, NEW D, NEW p, NEW W2, NEW O2, NEW D2, NEW p2,
         Grows(W, O, D, p, W2, O2, D2, p2), NEW X, NEW X2, NEW o \in DOMAIN D,
         X2[W[o]] = X[W[o]], Whole(W, O, D, p, X, o)
  PROVE  Whole(W2, O2, D2, p2, X2, o)
<1>1. O2[o] = O[o] /\ W2[o] = W[o]
  BY DEF Grows
<1>2. QED BY <1>1, WrittenStays DEF Whole

LEMMA DumpFrameStays ==
  ASSUME given \in Graphs, NEW W, NEW O, NEW D, NEW p, NEW W2, NEW O2, NEW D2, NEW p2,
         Grows(W, O, D, p, W2, O2, D2, p2), NEW X, NEW X2, NEW f, NEW mode,
         DumpFrame(W, O, D, p, X, f, mode), X2[f.place] = X[f.place]
  PROVE  DumpFrame(W2, O2, D2, p2, X2, f, mode)
<1>1. f.table \in DOMAIN D
  BY DEF DumpFrame
<1>2. /\ f.table \in DOMAIN D2 /\ O2[f.table] = O[f.table] /\ W2[f.table] = W[f.table]
      /\ D2[f.table] = D[f.table]
  BY <1>1 DEF Grows
<1> DEFINE n == Len(X[f.place].items)
<1>3. /\ ItemsWritten(W, O, D, p, X[f.place], f.table, n) =>
           ItemsWritten(W2, O2, D2, p2, X[f.place], f.table, n)
      /\ MetaWritten(W, O, D, p, X[f.place], f.table) =>
           MetaWritten(W2, O2, D2, p2, X[f.place], f.table)
  <2> DEFINE c == X[f.place]
             o == f.table
  <2>1. o \in DOMAIN D
    BY <1>1
  <2> HIDE DEF c, o, n
  <2>2. ItemsWritten(W, O, D, p, c, o, n) => ItemsWritten(W2, O2, D2, p2, c, o, n)
    BY <2>1, WrittenStays
  <2>3. MetaWritten(W, O, D, p, c, o) => MetaWritten(W2, O2, D2, p2, c, o)
    BY <2>1, WrittenStays
  <2>4. QED BY <2>2, <2>3 DEF c, o
<1>4. QED BY <1>2, <1>3 DEF DumpFrame

\* Assignments stay what they are.
LEMMA AssignmentStays ==
  ASSUME given \in Graphs, NEW W, NEW O, NEW D, NEW p, NEW W2, NEW O2, NEW D2, NEW p2,
         Grows(W, O, D, p, W2, O2, D2, p2), NEW e,
         \E u \in DOMAIN D : \E i \in 0..Len(O[u]) :
           /\ Target(O, u, i) \in DOMAIN D /\ ~Tree(W, O, u, i)
           /\ e = <<PathTo(O, D, u, i), D[Target(O, u, i)]>>
  PROVE  \E u \in DOMAIN D2 : \E i \in 0..Len(O2[u]) :
           /\ Target(O2, u, i) \in DOMAIN D2 /\ ~Tree(W2, O2, u, i)
           /\ e = <<PathTo(O2, D2, u, i), D2[Target(O2, u, i)]>>
<1>0. PICK u \in DOMAIN D : \E i \in 0..Len(O[u]) :
        /\ Target(O, u, i) \in DOMAIN D /\ ~Tree(W, O, u, i)
        /\ e = <<PathTo(O, D, u, i), D[Target(O, u, i)]>>
  OBVIOUS
<1>1. PICK i \in 0..Len(O[u]) :
        /\ Target(O, u, i) \in DOMAIN D /\ ~Tree(W, O, u, i)
        /\ e = <<PathTo(O, D, u, i), D[Target(O, u, i)]>>
  BY <1>0
<1>2. /\ u \in DOMAIN D2 /\ O2[u] = O[u] /\ Target(O, u, i) \in DOMAIN D2
      /\ D2[Target(O, u, i)] = D[Target(O, u, i)] /\ Target(O, u, i) \in DOMAIN W
  BY <1>1 DEF Grows
<1>3. QED BY <1>1, <1>2, SettledStays

\* The step that leaves the tables as they are.
LEMMA SameGrows ==
  ASSUME NEW W, NEW O, NEW D, NEW X, NEW p, Placed(W, O, D, X), NEW p2,
         Len(p) \in Nat, Len(p2) \in Nat, Len(p) <= Len(p2), \A x \in 1..Len(p) : p2[x] = p[x]
  PROVE  Grows(W, O, D, p, W, O, D, p2)
BY DEF Placed, Grows

NoneTwice(s) == \A i, j \in 1..Len(s) : s[i].table = s[j].table => i = j

\* What is known of a frame.
LEMMA FrameIs ==
  ASSUME given \in Graphs, NEW W, NEW O, NEW D, NEW p, NEW X, NEW f, NEW mode,
         Placed(W, O, D, X), DumpFrame(W, O, D, p, X, f, mode)
  PROVE  /\ f.table \in DOMAIN D /\ f.table \in Originals /\ f.place = W[f.table]
         /\ f.path = D[f.table] /\ f.place \in DOMAIN X /\ IsStack(f.place) /\ IsStack(f.path)
         /\ IsOrder(f.table, O[f.table])
         /\ Len(X[f.place].items) \in Nat /\ Coming(f, X) \in Nat /\ Coming(f, X) \notin Written(f, X)
<1>1. /\ f.table \in DOMAIN D /\ f.place = W[f.table] /\ f.path = D[f.table]
      /\ ItemsWritten(W, O, D, p, X[f.place], f.table, Len(X[f.place].items))
  BY DEF DumpFrame
<1>2. /\ f.table \in Originals /\ f.place \in DOMAIN X /\ IsStack(f.place) /\ IsStack(f.path)
      /\ IsOrder(f.table, O[f.table])
  BY <1>1 DEF Placed
<1>3. Len(X[f.place].items) \in Nat
  BY <1>1, StackLen DEF ItemsWritten
<1>4. Coming(f, X) \in Nat /\ Coming(f, X) \notin Written(f, X)
  BY <1>3 DEF Coming, Written
<1>5. QED BY <1>1, <1>2, <1>3, <1>4

\* What is being written is an item of the table.
LEMMA ComingIs ==
  ASSUME given \in Graphs, NEW W, NEW O, NEW D, NEW p, NEW X, NEW f,
         Placed(W, O, D, X), DumpFrame(W, O, D, p, X, f, "busy")
  PROVE  Coming(f, X) \in 0..Len(O[f.table])
<1>1. /\ Len(X[f.place].items) \in Nat /\ f.table \in Originals /\ IsOrder(f.table, O[f.table])
  BY FrameIs
<1>2. Len(O[f.table]) \in Nat
  BY <1>1, OrderIs
<1>3. CASE f.key = Meta
  BY <1>2, <1>3 DEF Coming
<1>4. CASE f.key # Meta
  <2>1. /\ Len(f.keys) = Len(O[f.table]) - (Len(X[f.place].items) + 1)
        /\ Len(f.keys) \in Nat
    BY <1>4, StackLen DEF DumpFrame
  <2>2. \A a, b, c \in Nat : a = b - (c + 1) => c + 1 \in 0..b
    OBVIOUS
  <2>3. Len(X[f.place].items) + 1 \in 0..Len(O[f.table])
    BY <1>1, <1>2, <2>1, <2>2
  <2>4. QED BY <1>4, <2>3 DEF Coming
<1>5. QED BY <1>3, <1>4

LEMMA FrameOf ==
  ASSUME given \in Graphs, NEW W, NEW O, NEW D, NEW p, NEW X, NEW s, NEW inner,
         Placed(W, O, D, X), DumpFrames(W, O, D, p, X, s, inner), NEW j \in 1..Len(s)
  PROVE  /\ s[j].table \in DOMAIN D /\ s[j].table \in Originals /\ s[j].place = W[s[j].table]
         /\ s[j].path = D[s[j].table] /\ s[j].place \in DOMAIN X
         /\ IsStack(s[j].place) /\ IsStack(s[j].path)
         /\ IsOrder(s[j].table, O[s[j].table])
         /\ Len(X[s[j].place].items) \in Nat /\ Coming(s[j], X) \in Nat
         /\ Coming(s[j], X) \notin Written(s[j], X)
<1> DEFINE f == s[j]
           mode == IF j = Len(s) THEN inner ELSE "busy"
<1>1. DumpFrame(W, O, D, p, X, f, mode)
  BY DEF DumpFrames
<1> HIDE DEF f, mode
<1>2. /\ f.table \in DOMAIN D /\ f.table \in Originals /\ f.place = W[f.table]
      /\ f.path = D[f.table] /\ f.place \in DOMAIN X /\ IsStack(f.place) /\ IsStack(f.path)
      /\ IsOrder(f.table, O[f.table])
      /\ Len(X[f.place].items) \in Nat /\ Coming(f, X) \in Nat /\ Coming(f, X) \notin Written(f, X)
  BY <1>1, FrameIs
<1>3. QED BY <1>2 DEF f

\* The value is not a table, or one that was defined before.
LEMMA CallReturns ==
  ASSUME given \in Graphs, NEW W, NEW O, NEW D, NEW X, NEW p, NEW s, NEW v, NEW q,
         NEW p2, NEW v2, NEW q2, s # <<>>,
         Writing(W, O, D, X, p, s, "call", v, q),
         Assignments(W, O, D, p2), Len(p) <= Len(p2), \A x \in 1..Len(p) : p2[x] = p[x],
         v2 = Sign(W, O, s[Len(s)].table, Coming(s[Len(s)], X)),
         Settled(W, O, D, p2, s[Len(s)].table, Coming(s[Len(s)], X))
  PROVE  Writing(W, O, D, X, p2, s, "return", v2, q2)
<1>1. /\ Placed(W, O, D, X) /\ Assignments(W, O, D, p)
      /\ DumpFrames(W, O, D, p, X, s, "busy") /\ Free(X, s, "call")
  BY DEF Writing, Mode
<1>2. Grows(W, O, D, p, W, O, D, p2)
  <2>1. Len(p) \in Nat /\ Len(p2) \in Nat
    BY <1>1, StackLen DEF Assignments
  <2>2. QED BY <1>1, <2>1, SameGrows
<1>3. DumpFrames(W, O, D, p2, X, s, "busy")
  <2>1. \A j \in 1..Len(s) : DumpFrame(W, O, D, p, X, s[j], IF j = Len(s) THEN "busy" ELSE "busy")
    BY <1>1 DEF DumpFrames
  <2>2. ASSUME NEW f, NEW mode, DumpFrame(W, O, D, p, X, f, mode)
        PROVE  DumpFrame(W, O, D, p2, X, f, mode)
    BY <1>2, <2>2, DumpFrameStays
  <2>3. \A j \in 1..Len(s) : DumpFrame(W, O, D, p2, X, s[j], IF j = Len(s) THEN "busy" ELSE "busy")
    BY <2>1, <2>2
  <2>4. \A o \in DOMAIN D : ~OnStack(s, o) => Whole(W, O, D, p2, X, o)
    BY <1>1, <1>2, WholeStays DEF DumpFrames
  <2>5. QED BY <1>1, <2>3, <2>4 DEF DumpFrames
<1>4. Free(X, s, "return")
  BY <1>1 DEF Free
<1>5. Table(1) \in DOMAIN D
  <2>1. Len(s) \in 1..Len(s)
    BY <1>1, StackLen DEF DumpFrames
  <2>2. s[Len(s)].table \in DOMAIN D
    BY <1>1, <2>1, FrameOf
  <2>3. QED BY <1>1, <2>2 DEF Placed
<1>6. QED BY <1>1, <1>3, <1>4, <1>5 DEF Writing, Mode

\* A place is that of the root or lies in a constructor that is there.
LEMMA PlacesAbove ==
  ASSUME NEW W, NEW O, NEW D, NEW X, Placed(W, O, D, X), NEW r, IsStack(r), NEW i,
         Append(r, i) \in DOMAIN X
  PROVE  r \in DOMAIN X
<1>1. PICK o \in DOMAIN D : Append(r, i) = W[o]
  BY DEF Placed
<1>2. o # Table(1)
  <2>1. Append(r, i) # <<>>
    BY Pushed
  <2>2. QED BY <1>1, <2>1 DEF Placed
<1>3. PICK u \in DOMAIN D : \E n : W[o] = Append(W[u], n)
  BY <1>2 DEF Placed
<1>4. PICK n : W[o] = Append(W[u], n)
  BY <1>3
<1>5. IsStack(W[u]) /\ W[u] \in DOMAIN X
  BY DEF Placed
<1>6. r = W[u]
  <2> DEFINE t == W[u]
  <2>1. IsStack(t) /\ Append(r, i) = Append(t, n)
    BY <1>1, <1>4, <1>5
  <2> HIDE DEF t
  <2>2. r = t
    BY <2>1, AppendsDiffer
  <2>3. QED BY <2>2 DEF t
<1>7. QED BY <1>5, <1>6

\* The innermost frame.
LEMMA TopFrame ==
  ASSUME given \in Graphs, NEW W, NEW O, NEW D, NEW p, NEW X, NEW s, NEW mode,
         DumpFrames(W, O, D, p, X, s, mode), s # <<>>
  PROVE  Len(s) \in 1..Len(s) /\ DumpFrame(W, O, D, p, X, s[Len(s)], mode)
<1>1. Len(s) \in 1..Len(s)
  BY StackLen DEF DumpFrames
<1>2. QED BY <1>1 DEF DumpFrames

\* What the new table is entered with.
Entered(W, O, D, X, s, v, q, ks, place, W2, O2, D2, X2, f) ==
  /\ v \in Originals /\ v \notin DOMAIN D /\ IsOrder(v, ks)
  /\ place = IF s = <<>> THEN <<>> ELSE Append(s[Len(s)].place, Coming(s[Len(s)], X))
  /\ W2 = Put(W, v, place) /\ O2 = Put(O, v, ks) /\ D2 = Put(D, v, q)
  /\ X2 = Put(X, place, Constructor)
  /\ f = [table |-> v, path |-> q, place |-> place, keys |-> ks, numidx |-> 1, key |-> Meta]

\* It has a place of its own, and nothing is there yet.
LEMMA PlaceIsNew ==
  ASSUME given \in Graphs, NEW W, NEW O, NEW D, NEW X, NEW p, NEW s, NEW v, NEW q,
         NEW ks, NEW place, NEW W2, NEW O2, NEW D2, NEW X2, NEW f,
         Writing(W, O, D, X, p, s, "call", v, q),
         Entered(W, O, D, X, s, v, q, ks, place, W2, O2, D2, X2, f)
  PROVE  /\ place \notin DOMAIN X /\ IsStack(place) /\ IsStack(q)
         /\ \A i : Append(place, i) \notin DOMAIN X
         /\ s = <<>> => DOMAIN D = {} /\ v = Table(1) /\ place = <<>> /\ q = <<>>
         /\ s # <<>> => LET u == s[Len(s)].table
                            i == Coming(s[Len(s)], X)
                        IN /\ u \in DOMAIN D /\ i \in 0..Len(O[u]) /\ v = Target(O, u, i)
                           /\ place = Append(W[u], i) /\ q = PathTo(O, D, u, i)
                           /\ Table(1) \in DOMAIN D
<1>1. Placed(W, O, D, X) /\ DumpFrames(W, O, D, p, X, s, "busy") /\ Free(X, s, "call")
  BY DEF Writing, Mode
<1>2. ASSUME IsStack(place), place \notin DOMAIN X PROVE \A i : Append(place, i) \notin DOMAIN X
  BY <1>1, <1>2, PlacesAbove
<1>3. CASE s = <<>>
  <2>1. place = <<>> /\ DOMAIN D = {} /\ v = Table(1) /\ q = <<>>
    BY <1>3 DEF Entered, Writing
  <2>2. DOMAIN X = {}
    BY <1>1, <2>1 DEF Placed
  <2>3. QED BY <1>2, <1>3, <2>1, <2>2, EmptyStack
<1>4. CASE s # <<>>
  <2> DEFINE l == Len(s)
             t == s[l]
             u == t.table
             i == Coming(t, X)
  <2>0. t = s[Len(s)]
    OBVIOUS
  <2>1. l = Len(s)
    OBVIOUS
  <2> HIDE DEF t
  <2>2. /\ l \in 1..Len(s) /\ u \in DOMAIN D /\ t.place = W[u] /\ t.path = D[u]
        /\ IsStack(t.place) /\ IsStack(t.path) /\ Table(1) \in DOMAIN D
        /\ i \in 0..Len(O[u]) /\ i \notin Written(t, X)
    <3>1. l \in 1..Len(s) /\ DumpFrame(W, O, D, p, X, t, "busy")
      BY <1>1, <1>4, <2>0, TopFrame
    <3>2. /\ u \in DOMAIN D /\ t.place = W[u] /\ t.path = D[u]
          /\ IsStack(t.place) /\ IsStack(t.path)
          /\ i \notin Written(t, X)
      BY <1>1, <3>1, FrameIs
    <3>5. i \in 0..Len(O[u])
      BY <1>1, <3>1, ComingIs
    <3>3. Table(1) \in DOMAIN D
      BY <1>1, <3>2 DEF Placed
    <3>4. QED BY <3>1, <3>2, <3>3, <3>5
  <2> USE DEF t
  <2> HIDE DEF l
  <2>3. place = Append(t.place, i) /\ v = Target(O, u, i) /\ q = PathTo(O, D, u, i)
    BY <1>4, <2>1 DEF Entered, Writing
  <2>4. Append(t.place, i) \notin DOMAIN X
    <3>1. Append(t.place, i) \in DOMAIN X => i \in Written(t, X) \/ l < Len(s)
      BY <1>1, <2>2 DEF Free
    <3>2. ~(l < Len(s))
      BY <2>1
    <3>3. QED BY <2>2, <3>1, <3>2
  <2>5. IsStack(place) /\ IsStack(q)
    BY <2>2, <2>3, Pushed DEF PathTo
  <2> HIDE DEF t
  <2>7. QED BY <1>2, <1>4, <2>1, <2>2, <2>3, <2>4, <2>5 DEF t
<1>5. QED BY <1>3, <1>4

EnteredThere(W, O, D, X, p, v, q, ks, place, W2, O2, D2, X2) ==
  /\ Grows(W, O, D, p, W2, O2, D2, p) /\ Placed(W2, O2, D2, X2)
  /\ Assignments(W2, O2, D2, p)
  /\ \A o \in DOMAIN D : X2[W[o]] = X[W[o]]
  /\ DOMAIN D2 = DOMAIN D \cup {v} /\ W2[v] = place /\ O2[v] = ks /\ D2[v] = q
  /\ X2[place] = Constructor /\ DOMAIN X2 = DOMAIN X \cup {place}

LEMMA EnteredGrows ==
  ASSUME given \in Graphs, NEW W, NEW O, NEW D, NEW X, NEW p, NEW s, NEW v, NEW q,
         NEW ks, NEW place, NEW W2, NEW O2, NEW D2, NEW X2, NEW f,
         Writing(W, O, D, X, p, s, "call", v, q),
         Entered(W, O, D, X, s, v, q, ks, place, W2, O2, D2, X2, f)
  PROVE  EnteredThere(W, O, D, X, p, v, q, ks, place, W2, O2, D2, X2)
<1>1. Placed(W, O, D, X) /\ Assignments(W, O, D, p)
  BY DEF Writing
<1>2. v \in Originals /\ v \notin DOMAIN D /\ IsOrder(v, ks)
  BY DEF Entered
<1>3. DOMAIN W = DOMAIN D /\ DOMAIN O = DOMAIN D /\ DOMAIN D \subseteq Originals
  BY <1>1 DEF Placed
<1>4. /\ DOMAIN W2 = DOMAIN D \cup {v} /\ DOMAIN O2 = DOMAIN D \cup {v} /\ DOMAIN D2 = DOMAIN D \cup {v}
      /\ W2[v] = place /\ O2[v] = ks /\ D2[v] = q
      /\ \A o \in DOMAIN D : W2[o] = W[o] /\ O2[o] = O[o] /\ D2[o] = D[o]
  <2>1. /\ DOMAIN W2 = DOMAIN W \cup {v} /\ W2[v] = place
        /\ \A o \in DOMAIN W : W2[o] = W[o]
    <3>1. W2 = Put(W, v, place) /\ v \notin DOMAIN W
      BY <1>2, <1>3 DEF Entered
    <3>2. QED BY <3>1 DEF Put
  <2>2. /\ DOMAIN O2 = DOMAIN O \cup {v} /\ O2[v] = ks
        /\ \A o \in DOMAIN O : O2[o] = O[o]
    <3>1. O2 = Put(O, v, ks) /\ v \notin DOMAIN O
      BY <1>2, <1>3 DEF Entered
    <3>2. QED BY <3>1 DEF Put
  <2>3. /\ DOMAIN D2 = DOMAIN D \cup {v} /\ D2[v] = q
        /\ \A o \in DOMAIN D : D2[o] = D[o]
    <3>1. D2 = Put(D, v, q) /\ v \notin DOMAIN D
      BY <1>2 DEF Entered
    <3>2. QED BY <3>1 DEF Put
  <2>4. QED BY <1>3, <2>1, <2>2, <2>3
<1>5. /\ place \notin DOMAIN X /\ IsStack(place) /\ IsStack(q)
      /\ s = <<>> => DOMAIN D = {} /\ v = Table(1) /\ place = <<>> /\ q = <<>>
      /\ s # <<>> => LET u == s[Len(s)].table
                         i == Coming(s[Len(s)], X)
                     IN /\ u \in DOMAIN D /\ i \in 0..Len(O[u]) /\ v = Target(O, u, i)
                        /\ place = Append(W[u], i) /\ q = PathTo(O, D, u, i)
                        /\ Table(1) \in DOMAIN D
  BY PlaceIsNew
<1>6. \A o \in DOMAIN D : W[o] \in DOMAIN X /\ W[o] # place
  BY <1>1, <1>5 DEF Placed
<1>7. /\ DOMAIN X2 = DOMAIN X \cup {place} /\ X2[place] = Constructor
      /\ \A o \in DOMAIN D : X2[W[o]] = X[W[o]]
  <2>1. /\ DOMAIN X2 = DOMAIN X \cup {place} /\ X2[place] = Constructor
        /\ \A r \in DOMAIN X : X2[r] = X[r]
    <3>1. X2 = Put(X, place, Constructor) /\ place \notin DOMAIN X
      BY <1>5 DEF Entered
    <3>2. QED BY <3>1 DEF Put
  <2>2. QED BY <1>6, <2>1
<1>8. Grows(W, O, D, p, W2, O2, D2, p)
  <2>1. Len(p) \in Nat /\ Len(p) <= Len(p)
    BY <1>1, StackLen DEF Assignments
  <2>2. QED BY <1>2, <1>3, <1>4, <2>1 DEF Grows
<1>9. Assignments(W2, O2, D2, p)
  <2>1. SUFFICES ASSUME NEW x \in 1..Len(p)
        PROVE  \E u \in DOMAIN D2 : \E i \in 0..Len(O2[u]) :
                 /\ Target(O2, u, i) \in DOMAIN D2 /\ ~Tree(W2, O2, u, i)
                 /\ p[x] = <<PathTo(O2, D2, u, i), D2[Target(O2, u, i)]>>
    BY <1>1 DEF Assignments
  <2>2. \E u \in DOMAIN D : \E i \in 0..Len(O[u]) :
          /\ Target(O, u, i) \in DOMAIN D /\ ~Tree(W, O, u, i)
          /\ p[x] = <<PathTo(O, D, u, i), D[Target(O, u, i)]>>
    BY <1>1 DEF Assignments
  <2> DEFINE e == p[x]
  <2>3. \E u \in DOMAIN D : \E i \in 0..Len(O[u]) :
          /\ Target(O, u, i) \in DOMAIN D /\ ~Tree(W, O, u, i)
          /\ e = <<PathTo(O, D, u, i), D[Target(O, u, i)]>>
    BY <2>2
  <2> HIDE DEF e
  <2>4. \E u \in DOMAIN D2 : \E i \in 0..Len(O2[u]) :
          /\ Target(O2, u, i) \in DOMAIN D2 /\ ~Tree(W2, O2, u, i)
          /\ e = <<PathTo(O2, D2, u, i), D2[Target(O2, u, i)]>>
    BY <1>8, <2>3, AssignmentStays
  <2>5. QED BY <2>4 DEF e
<1>10. \A o \in DOMAIN D2 : IsOrder(o, O2[o]) /\ IsStack(W2[o]) /\ IsStack(D2[o])
  BY <1>1, <1>2, <1>4, <1>5 DEF Placed
<1>11. \A o, u \in DOMAIN D2 : W2[o] = W2[u] => o = u
  BY <1>1, <1>4, <1>6 DEF Placed
<1>12. DOMAIN X2 = {W2[o] : o \in DOMAIN D2}
  <2>1. DOMAIN X = {W[o] : o \in DOMAIN D}
    BY <1>1 DEF Placed
  <2>2. QED BY <1>4, <1>7, <2>1
<1>13. Table(1) \in DOMAIN D2 /\ W2[Table(1)] = <<>> /\ D2[Table(1)] = <<>>
  <2>1. CASE s = <<>>
    BY <1>4, <1>5, <2>1
  <2>2. CASE s # <<>>
    BY <1>1, <1>4, <1>5, <2>2 DEF Placed
  <2>3. QED BY <2>1, <2>2
<1>14. ASSUME NEW o \in DOMAIN D2 \ {Table(1)}
       PROVE  \E u \in DOMAIN D2 : \E i \in 0..Len(O2[u]) :
                Target(O2, u, i) = o /\ W2[o] = Append(W2[u], i) /\ D2[o] = PathTo(O2, D2, u, i)
  <2>1. \E u \in DOMAIN D : \E i \in 0..Len(O[u]) :
          Target(O, u, i) = o /\ W2[o] = Append(W[u], i) /\ D2[o] = PathTo(O, D, u, i)
    <3>1. CASE o \in DOMAIN D
      <4>1. \E u \in DOMAIN D : \E i \in 0..Len(O[u]) :
              Target(O, u, i) = o /\ W[o] = Append(W[u], i) /\ D[o] = PathTo(O, D, u, i)
        BY <1>1, <1>14, <3>1 DEF Placed
      <4>2. QED BY <1>4, <3>1, <4>1
    <3>2. CASE o = v
      <4>1. s # <<>>
        BY <1>5, <1>14, <3>2
      <4>2. QED BY <1>4, <1>5, <3>2, <4>1
    <3>3. QED BY <1>4, <1>14, <3>1, <3>2
  <2>2. PICK u \in DOMAIN D : \E i \in 0..Len(O[u]) :
          Target(O, u, i) = o /\ W2[o] = Append(W[u], i) /\ D2[o] = PathTo(O, D, u, i)
    BY <2>1
  <2>3. PICK i \in 0..Len(O[u]) :
          Target(O, u, i) = o /\ W2[o] = Append(W[u], i) /\ D2[o] = PathTo(O, D, u, i)
    BY <2>2
  <2>4. Target(O2, u, i) = o /\ PathTo(O2, D2, u, i) = PathTo(O, D, u, i)
    BY <1>8, <2>3, SettledStays
  <2>5. QED BY <1>4, <2>3, <2>4
<1>15. Placed(W2, O2, D2, X2)
  BY <1>2, <1>3, <1>4, <1>10, <1>11, <1>12, <1>13, <1>14 DEF Placed
<1>16. QED BY <1>4, <1>7, <1>8, <1>9, <1>15 DEF EnteredThere

\* The frames, with the new one on top.
LEMMA EnteredFrames ==
  ASSUME given \in Graphs, NEW W, NEW O, NEW D, NEW X, NEW p, NEW s, NEW v, NEW q,
         NEW ks, NEW place, NEW W2, NEW O2, NEW D2, NEW X2, NEW f, NEW s2,
         Writing(W, O, D, X, p, s, "call", v, q),
         Entered(W, O, D, X, s, v, q, ks, place, W2, O2, D2, X2, f), s2 = Append(s, f)
  PROVE  DumpFrames(W2, O2, D2, p, X2, s2, "busy")
<1>1. Placed(W, O, D, X) /\ DumpFrames(W, O, D, p, X, s, "busy")
  BY DEF Writing, Mode
<1>2. /\ v \in Originals /\ v \notin DOMAIN D /\ IsOrder(v, ks)
      /\ f = [table |-> v, path |-> q, place |-> place, keys |-> ks, numidx |-> 1, key |-> Meta]
  BY DEF Entered
<1>3. /\ Grows(W, O, D, p, W2, O2, D2, p) /\ Placed(W2, O2, D2, X2)
      /\ \A o \in DOMAIN D : X2[W[o]] = X[W[o]]
      /\ DOMAIN D2 = DOMAIN D \cup {v} /\ W2[v] = place /\ O2[v] = ks /\ D2[v] = q
      /\ X2[place] = Constructor
  <2>1. EnteredThere(W, O, D, X, p, v, q, ks, place, W2, O2, D2, X2)
    BY EnteredGrows
  <2>2. QED BY <2>1 DEF EnteredThere
<1>4. /\ IsStack(s2) /\ Len(s2) = Len(s) + 1 /\ s2 # <<>> /\ Len(s) \in Nat
      /\ \A j \in 1..Len(s) : s2[j] = s[j]
      /\ s2[Len(s) + 1] = f
  BY <1>1, Pushed, StackLen DEF DumpFrames
<1>5. \A j \in 1..Len(s2) : j \in 1..Len(s) \/ j = Len(s) + 1
  BY <1>4
<1>6. \A j \in 1..Len(s) : X2[s[j].place] = X[s[j].place] /\ s[j].table \in DOMAIN D
  <2>1. \A j \in 1..Len(s) : s[j].table \in DOMAIN D /\ s[j].place = W[s[j].table]
    BY <1>1 DEF DumpFrames, DumpFrame
  <2>2. QED BY <1>3, <2>1
<1>7. DumpFrame(W2, O2, D2, p, X2, f, "busy")
  <2>1. ItemsWritten(W2, O2, D2, p, X2[place], v, 0)
    BY <1>3, EmptyStack DEF ItemsWritten, Constructor
  <2>2. X2[place].items = <<>> /\ Len(<<>>) = 0
    BY <1>3, EmptyStack DEF Constructor
  <2>3. Nones(<<>>, 0) = 0
    <3>1. {j \in 1..0 : <<>>[j][1] = None} = {}
      OBVIOUS
    <3>2. QED BY <3>1, FS_EmptySet DEF Nones
  <2>4. Len(ks) \in Nat /\ IsStack(ks)
    BY <1>2, StackLen DEF IsOrder
  <2>5. /\ f.table = v /\ f.path = q /\ f.place = place /\ f.keys = ks /\ f.numidx = 1 /\ f.key = Meta
        /\ f = [table |-> f.table, path |-> f.path, place |-> f.place, keys |-> f.keys,
                numidx |-> f.numidx, key |-> f.key]
    BY <1>2
  <2>6. Meta # None
    BY DEF Meta, None
  <2>7. \A j \in 1..Len(ks) : ks[j] = ks[0 + j]
    OBVIOUS
  <2>8. QED BY <1>3, <2>1, <2>2, <2>3, <2>4, <2>5, <2>6, <2>7 DEF DumpFrame
<1>8. \A j \in 1..Len(s2) : DumpFrame(W2, O2, D2, p, X2, s2[j], IF j = Len(s2) THEN "busy" ELSE "busy")
  <2>1. \A j \in 1..Len(s) : DumpFrame(W, O, D, p, X, s[j], "busy")
    BY <1>1 DEF DumpFrames
  <2>2. ASSUME NEW g, DumpFrame(W, O, D, p, X, g, "busy"), X2[g.place] = X[g.place]
        PROVE  DumpFrame(W2, O2, D2, p, X2, g, "busy")
    BY <1>3, <2>2, DumpFrameStays
  <2>3. \A j \in 1..Len(s) : DumpFrame(W2, O2, D2, p, X2, s2[j], "busy")
    BY <1>4, <1>6, <2>1, <2>2
  <2>4. QED BY <1>4, <1>5, <1>7, <2>3
<1>9. ASSUME NEW j \in 1..Len(s2) - 1
      PROVE  /\ s2[j + 1].table = Target(O2, s2[j].table, Coming(s2[j], X2))
             /\ s2[j + 1].place = Append(s2[j].place, Coming(s2[j], X2))
  <2>1. j \in 1..Len(s) /\ s2[j] = s[j]
    BY <1>4, <1>9
  <2>2. Coming(s[j], X2) = Coming(s[j], X)
    BY <1>6, <2>1 DEF Coming
  <2>3. Target(O2, s[j].table, Coming(s[j], X)) = Target(O, s[j].table, Coming(s[j], X))
    BY <1>3, <1>6, <2>1, SettledStays
  <2>4. CASE j \in 1..Len(s) - 1
    <3>1. j + 1 \in 1..Len(s) /\ s2[j + 1] = s[j + 1]
      BY <1>4, <2>4
    <3>2. /\ s[j + 1].table = Target(O, s[j].table, Coming(s[j], X))
          /\ s[j + 1].place = Append(s[j].place, Coming(s[j], X))
      BY <1>1, <2>4 DEF DumpFrames
    <3>3. QED BY <2>1, <2>2, <2>3, <3>1, <3>2
  <2>5. CASE j = Len(s)
    <3>1. s # <<>>
      BY <1>1, <2>1, <2>5, StackLen DEF DumpFrames
    <3>2. /\ v = Target(O, s[j].table, Coming(s[j], X))
          /\ place = Append(s[j].place, Coming(s[j], X))
      BY <2>5, <3>1 DEF Writing, Entered
    <3>3. s2[j + 1] = f /\ f.table = v /\ f.place = place
      BY <1>2, <1>4, <2>5
    <3>4. QED BY <2>1, <2>2, <2>3, <3>2, <3>3
  <2>6. j \in 1..Len(s) - 1 \/ j = Len(s)
    BY <1>4, <2>1
  <2>7. QED BY <2>4, <2>5, <2>6
<1>10. s2[1].table = Table(1)
  <2>1. CASE s = <<>>
    <3>1. v = Table(1) /\ Len(s) = 0
      BY <2>1, EmptyStack DEF Writing
    <3>2. QED BY <1>2, <1>4, <3>1
  <2>2. CASE s # <<>>
    <3>1. s[1].table = Table(1) /\ 1 \in 1..Len(s)
      BY <1>1, <2>2, StackLen DEF DumpFrames
    <3>2. QED BY <1>4, <3>1
  <2>3. QED BY <2>1, <2>2
<1>11. ASSUME NEW o \in DOMAIN D2, ~OnStack(s2, o) PROVE Whole(W2, O2, D2, p, X2, o)
  <2>1. o # v
    <3>1. Len(s) + 1 \in 1..Len(s2) /\ s2[Len(s) + 1].table = v
      BY <1>2, <1>4
    <3>2. QED BY <1>11, <3>1 DEF OnStack
  <2>2. o \in DOMAIN D /\ ~OnStack(s, o)
    <3>1. \A j \in 1..Len(s) : j \in 1..Len(s2) /\ s2[j] = s[j]
      BY <1>4
    <3>2. QED BY <1>3, <1>11, <2>1, <3>1 DEF OnStack
  <2>3. Whole(W, O, D, p, X, o)
    BY <1>1, <2>2 DEF DumpFrames
  <2>4. QED BY <1>3, <2>2, <2>3, WholeStays
<1>12. QED BY <1>4, <1>8, <1>9, <1>10, <1>11 DEF DumpFrames

LEMMA EnteredFree ==
  ASSUME given \in Graphs, NEW W, NEW O, NEW D, NEW X, NEW p, NEW s, NEW v, NEW q,
         NEW ks, NEW place, NEW W2, NEW O2, NEW D2, NEW X2, NEW f, NEW s2, NEW at2,
         Writing(W, O, D, X, p, s, "call", v, q), NoneTwice(s),
         Entered(W, O, D, X, s, v, q, ks, place, W2, O2, D2, X2, f), s2 = Append(s, f)
  PROVE  Free(X2, s2, at2)
<1>1. Placed(W, O, D, X) /\ DumpFrames(W, O, D, p, X, s, "busy") /\ Free(X, s, "call")
  BY DEF Writing, Mode
<1>2. f.place = place
  BY DEF Entered
<1>3. \A o \in DOMAIN D : X2[W[o]] = X[W[o]]
  <2>1. EnteredThere(W, O, D, X, p, v, q, ks, place, W2, O2, D2, X2)
    BY EnteredGrows
  <2>2. QED BY <2>1 DEF EnteredThere
<1>4. /\ IsStack(s2) /\ Len(s2) = Len(s) + 1 /\ Len(s) \in Nat
      /\ \A j \in 1..Len(s) : s2[j] = s[j]
      /\ s2[Len(s) + 1] = f
  BY <1>1, Pushed, StackLen DEF DumpFrames
<1>5. \A j \in 1..Len(s2) : (j \in 1..Len(s) /\ j < Len(s2)) \/ j = Len(s) + 1
  BY <1>4
<1>6. DOMAIN X2 = DOMAIN X \cup {place}
  <2>1. EnteredThere(W, O, D, X, p, v, q, ks, place, W2, O2, D2, X2)
    BY EnteredGrows
  <2>2. QED BY <2>1 DEF EnteredThere
<1>7. /\ place \notin DOMAIN X /\ IsStack(place) /\ \A i : Append(place, i) \notin DOMAIN X
      /\ s = <<>> => place = <<>>
  BY PlaceIsNew
<1>8. \A i : Append(place, i) # place
  <2>1. Len(place) \in Nat /\ \A i : Len(Append(place, i)) = Len(place) + 1
    BY <1>7, Pushed, StackLen
  <2>2. Len(place) + 1 # Len(place)
    BY <2>1
  <2>3. QED BY <2>1, <2>2
<1>9. ASSUME NEW j \in 1..Len(s), NEW i, Append(s[j].place, i) \in DOMAIN X2
      PROVE  i \in Written(s[j], X2) \/ i = Coming(s[j], X2)
  <2>1. /\ s[j].table \in DOMAIN D /\ s[j].place = W[s[j].table] /\ IsStack(s[j].place)
    BY <1>1, FrameOf
  <2>2. Written(s[j], X2) = Written(s[j], X) /\ Coming(s[j], X2) = Coming(s[j], X)
    BY <1>3, <2>1 DEF Written, Coming
  <2>3. CASE Append(s[j].place, i) \in DOMAIN X
    BY <1>1, <2>2, <2>3 DEF Free
  <2>4. CASE Append(s[j].place, i) = place
    <3> DEFINE l == Len(s)
    <3>1. s # <<>> /\ l \in 1..Len(s)
      BY <1>4, <1>9, EmptyStack
    <3>2. place = Append(s[l].place, Coming(s[l], X))
      BY <3>1 DEF Entered
    <3> HIDE DEF l
    <3>3. s[l].table \in DOMAIN D /\ s[l].place = W[s[l].table] /\ IsStack(s[l].place)
      BY <1>1, <3>1, FrameOf
    <3>4. s[j].place = s[l].place /\ i = Coming(s[l], X)
      <4> DEFINE a == s[j].place
                 b == s[l].place
                 c == Coming(s[l], X)
      <4>1. IsStack(a) /\ IsStack(b) /\ Append(a, i) = Append(b, c)
        BY <2>1, <2>4, <3>2, <3>3
      <4> HIDE DEF a, b, c
      <4>2. a = b /\ i = c
        BY <4>1, AppendsDiffer
      <4>3. QED BY <4>2 DEF a, b, c
    <3>5. s[j].table = s[l].table
      BY <1>1, <2>1, <3>3, <3>4 DEF Placed
    <3>6. j = l
      BY <3>1, <3>5 DEF NoneTwice
    <3>7. QED BY <2>2, <3>4, <3>6
  <2>5. QED BY <1>6, <1>9, <2>3, <2>4
<1>10. SUFFICES ASSUME NEW j \in 1..Len(s2), NEW i, Append(s2[j].place, i) \in DOMAIN X2
       PROVE  i \in Written(s2[j], X2) \/ (i = Coming(s2[j], X2) /\ (j < Len(s2) \/ at2 = "return"))
  BY DEF Free
<1>11. CASE j \in 1..Len(s) /\ j < Len(s2)
  BY <1>4, <1>9, <1>10, <1>11
<1>12. CASE j = Len(s) + 1
  BY <1>2, <1>4, <1>6, <1>7, <1>8, <1>10, <1>12
<1>13. QED BY <1>5, <1>11, <1>12

\* Its metatable comes first.
MetaNext(s, v, q, f, s2, at2, v2, q2) ==
  /\ s2 = Append(s, f)
  /\ \/ at2 = "return" /\ Given(v).meta = Nil /\ v2 = Nil
     \/ at2 = "call" /\ v2 = Given(v).meta /\ q2 = Append(q, Meta)

\* The value is a table that was not defined yet.
LEMMA TableEntered ==
  ASSUME given \in Graphs, NEW W, NEW O, NEW D, NEW X, NEW p, NEW s, NEW v, NEW q,
         NEW ks, NEW place, NEW W2, NEW O2, NEW D2, NEW X2, NEW f, NEW s2,
         NEW at2, NEW v2, NEW q2,
         Writing(W, O, D, X, p, s, "call", v, q), NoneTwice(s),
         Entered(W, O, D, X, s, v, q, ks, place, W2, O2, D2, X2, f),
         MetaNext(s, v, q, f, s2, at2, v2, q2)
  PROVE  Writing(W2, O2, D2, X2, p, s2, at2, v2, q2)
<1>0. /\ s2 = Append(s, f)
      /\ \/ at2 = "return" /\ Given(v).meta = Nil /\ v2 = Nil
         \/ at2 = "call" /\ v2 = Given(v).meta /\ q2 = Append(q, Meta)
  BY DEF MetaNext
<1> USE <1>0
<1>1. DumpFrames(W, O, D, p, X, s, "busy") /\ Placed(W, O, D, X)
  BY DEF Writing, Mode
<1>2. s2[Len(s2)] = f /\ s2 # <<>> /\ f.table = v /\ Coming(f, X2) = 0
  <2>1. s2[Len(s2)] = f /\ s2 # <<>>
    <3>1. Len(s2) = Len(s) + 1 /\ s2[Len(s) + 1] = f /\ s2 # <<>>
      BY <1>1, Pushed DEF DumpFrames
    <3>2. QED BY <3>1
  <2>2. QED BY <2>1 DEF Entered, Coming
<1>3. /\ Placed(W2, O2, D2, X2) /\ Assignments(W2, O2, D2, p) /\ D2[v] = q
      /\ DOMAIN D2 = DOMAIN D \cup {v}
  <2>1. EnteredThere(W, O, D, X, p, v, q, ks, place, W2, O2, D2, X2)
    BY EnteredGrows
  <2>2. QED BY <2>1 DEF EnteredThere
<1>4. Target(O2, v, 0) = Given(v).meta /\ PathTo(O2, D2, v, 0) = Append(q, Meta)
  BY <1>3 DEF Target, PathTo, Label
<1>5. Table(1) \in DOMAIN D2
  BY <1>3 DEF Placed
<1>6. Given(v).meta = Nil => Settled(W2, O2, D2, p, v, 0) /\ Sign(W2, O2, v, 0) = Nil
  <2>1. ~IsTable(Nil) /\ Nil \notin DOMAIN W2
    BY <1>3, Graph DEF Placed, Nil, IsTable
  <2>2. QED BY <1>4, <2>1 DEF Settled, Sign, Tree
<1>7. DumpFrames(W2, O2, D2, p, X2, s2, "busy") /\ Free(X2, s2, at2)
  BY EnteredFrames, EnteredFree
<1>8. QED BY <1>2, <1>3, <1>4, <1>5, <1>6, <1>7 DEF Writing, Mode

\* What may be there already may be there still.
StaysOpen(f, X, at, f2, X2, at2) ==
  \A i : i \in Written(f, X) \/ (i = Coming(f, X) /\ at = "return") =>
           i \in Written(f2, X2) \/ (i = Coming(f2, X2) /\ at2 = "return")

\* Only the innermost frame changes, and its constructor.
Turned(X, s, f, X2, s2, f2) ==
  /\ s # <<>> /\ f = s[Len(s)] /\ f2.table = f.table /\ f2.place = f.place
  /\ IsStack(s2) /\ Len(s2) = Len(s) /\ s2[Len(s)] = f2 /\ \A j \in 1..Len(s) - 1 : s2[j] = s[j]
  /\ DOMAIN X2 = DOMAIN X /\ \A r \in DOMAIN X : r # f.place => X2[r] = X[r]

LEMMA TopTurned ==
  ASSUME given \in Graphs, NEW W, NEW O, NEW D, NEW X, NEW p, NEW s, NEW mode, NEW at,
         NEW X2, NEW s2, NEW mode2, NEW at2, NEW f, NEW f2,
         Placed(W, O, D, X), Assignments(W, O, D, p), DumpFrames(W, O, D, p, X, s, mode),
         Free(X, s, at), NoneTwice(s), Turned(X, s, f, X2, s2, f2),
         DumpFrame(W, O, D, p, X2, f2, mode2),
         StaysOpen(f, X, at, f2, X2, at2)
  PROVE  /\ Placed(W, O, D, X2) /\ DumpFrames(W, O, D, p, X2, s2, mode2) /\ Free(X2, s2, at2)
<1>0. /\ s # <<>> /\ f = s[Len(s)] /\ f2.table = f.table /\ f2.place = f.place
      /\ IsStack(s2) /\ Len(s2) = Len(s) /\ s2[Len(s)] = f2 /\ \A j \in 1..Len(s) - 1 : s2[j] = s[j]
      /\ DOMAIN X2 = DOMAIN X /\ \A r \in DOMAIN X : r # f.place => X2[r] = X[r]
  BY DEF Turned
<1> USE <1>0
<1>1. Len(s) \in 1..Len(s) /\ Len(s) \in Nat
  BY StackLen DEF DumpFrames
<1>2. Placed(W, O, D, X2)
  BY DEF Placed
<1>3. Grows(W, O, D, p, W, O, D, p)
  <2>1. Len(p) \in Nat /\ Len(p) <= Len(p)
    BY StackLen DEF Assignments
  <2>2. QED BY <2>1, SameGrows
<1>4. \A j \in 1..Len(s) : s[j].table \in DOMAIN D /\ s[j].place = W[s[j].table] /\ s[j].place \in DOMAIN X
  BY FrameOf
<1>5. \A o \in DOMAIN D : o # f.table => X2[W[o]] = X[W[o]]
  <2>1. f.table \in DOMAIN D /\ f.place = W[f.table]
    BY <1>1, <1>4
  <2>2. \A o \in DOMAIN D : W[o] \in DOMAIN X /\ (W[o] = f.place => o = f.table)
    BY <2>1 DEF Placed
  <2>3. QED BY <2>2
<1>6. \A j \in 1..Len(s) - 1 : /\ j \in 1..Len(s) /\ j < Len(s) /\ s2[j] = s[j]
                               /\ X2[s[j].place] = X[s[j].place]
  <2>1. \A j \in 1..Len(s) - 1 : j \in 1..Len(s) /\ j < Len(s) /\ j # Len(s)
    BY <1>1
  <2>2. \A j \in 1..Len(s) - 1 : s[j].table # f.table
    <3> DEFINE l == Len(s)
    <3>1. l \in 1..l /\ f = s[l] /\ \A j \in 1..l - 1 : j \in 1..l /\ j # l
      BY <1>1, <2>1
    <3>2. \A i, j \in 1..l : s[i].table = s[j].table => i = j
      BY DEF NoneTwice
    <3> HIDE DEF l
    <3>3. \A j \in 1..l - 1 : s[j].table # f.table
      BY <3>1, <3>2
    <3>4. QED BY <3>3 DEF l
  <2>3. QED BY <1>4, <1>5, <2>1, <2>2
<1>7. \A j \in 1..Len(s) : j \in 1..Len(s) - 1 \/ j = Len(s)
  BY <1>1
<1>8. \A j \in 1..Len(s) : s2[j].table = s[j].table /\ s2[j].place = s[j].place
  BY <1>6, <1>7
<1>9. \A j \in 1..Len(s2) : DumpFrame(W, O, D, p, X2, s2[j], IF j = Len(s2) THEN mode2 ELSE "busy")
  <2>1. \A j \in 1..Len(s) - 1 : DumpFrame(W, O, D, p, X, s[j], "busy")
    BY <1>6 DEF DumpFrames
  <2>2. ASSUME NEW g, DumpFrame(W, O, D, p, X, g, "busy"), X2[g.place] = X[g.place]
        PROVE  DumpFrame(W, O, D, p, X2, g, "busy")
    BY <1>3, <2>2, DumpFrameStays
  <2>3. ASSUME NEW j \in 1..Len(s) - 1 PROVE DumpFrame(W, O, D, p, X2, s2[j], "busy") /\ j # Len(s2)
    <3>1. j < Len(s2) /\ j \in Nat /\ s2[j] = s[j] /\ X2[s[j].place] = X[s[j].place]
      BY <1>1, <1>6
    <3>2. DumpFrame(W, O, D, p, X2, s[j], "busy")
      BY <2>1, <2>2, <3>1
    <3>3. QED BY <1>1, <3>1, <3>2
  <2>4. QED BY <1>7, <2>3
<1>10. \A j \in 1..Len(s2) - 1 : /\ s2[j + 1].table = Target(O, s2[j].table, Coming(s2[j], X2))
                                 /\ s2[j + 1].place = Append(s2[j].place, Coming(s2[j], X2))
  <2>1. TAKE j \in 1..Len(s2) - 1
  <2>2. j + 1 \in 1..Len(s) /\ j \in 1..Len(s) - 1
    BY <1>1
  <2>3. Coming(s2[j], X2) = Coming(s[j], X) /\ s2[j] = s[j]
    BY <1>6, <2>2 DEF Coming
  <2>4. /\ s[j + 1].table = Target(O, s[j].table, Coming(s[j], X))
        /\ s[j + 1].place = Append(s[j].place, Coming(s[j], X))
    BY <2>2 DEF DumpFrames
  <2>5. s2[j + 1].table = s[j + 1].table /\ s2[j + 1].place = s[j + 1].place
    BY <1>8, <2>2
  <2>6. QED BY <2>3, <2>4, <2>5
<1>11. s2 # <<>> /\ s2[1].table = Table(1)
  <2>1. s[1].table = Table(1) /\ 1 \in 1..Len(s)
    BY <1>1 DEF DumpFrames
  <2>2. s2 # <<>>
    BY <1>1, StackLen
  <2>3. QED BY <1>8, <2>1, <2>2
<1>12. \A o \in DOMAIN D : ~OnStack(s2, o) => Whole(W, O, D, p, X2, o)
  <2>1. SUFFICES ASSUME NEW o \in DOMAIN D, ~OnStack(s2, o) PROVE Whole(W, O, D, p, X2, o)
    OBVIOUS
  <2>2. ~OnStack(s, o) /\ o # f.table
    BY <1>1, <1>8, <2>1 DEF OnStack
  <2>3. Whole(W, O, D, p, X, o) /\ X2[W[o]] = X[W[o]]
    BY <1>5, <2>2 DEF DumpFrames
  <2>4. QED BY <2>3 DEF Whole
<1>13. DumpFrames(W, O, D, p, X2, s2, mode2)
  BY <1>9, <1>10, <1>11, <1>12 DEF DumpFrames
<1>14. Free(X2, s2, at2)
  <2>1. SUFFICES ASSUME NEW j \in 1..Len(s2), NEW i, Append(s2[j].place, i) \in DOMAIN X2
        PROVE  i \in Written(s2[j], X2) \/ (i = Coming(s2[j], X2) /\ (j < Len(s2) \/ at2 = "return"))
    BY DEF Free
  <2>2. i \in Written(s[j], X) \/ (i = Coming(s[j], X) /\ (j < Len(s) \/ at = "return"))
    BY <1>8, <2>1 DEF Free
  <2>3. CASE j \in 1..Len(s) - 1
    <3>1. Written(s2[j], X2) = Written(s[j], X) /\ Coming(s2[j], X2) = Coming(s[j], X)
      BY <1>6, <2>3 DEF Written, Coming
    <3>2. QED BY <1>6, <2>2, <2>3, <3>1
  <2>4. CASE j = Len(s)
    <3>1. ~(j < Len(s))
      BY <1>1, <2>4
    <3>2. QED BY <2>2, <2>4, <3>1 DEF StaysOpen
  <2>5. QED BY <1>7, <2>3, <2>4
<1>15. QED BY <1>2, <1>13, <1>14

\* The last item of a table is written.
LEMMA TableLeft ==
  ASSUME given \in Graphs, NEW W, NEW O, NEW D, NEW X, NEW p, NEW s, NEW v, NEW q, NEW q2,
         Writing(W, O, D, X, p, s, "loop", v, q), NoneTwice(s),
         s[Len(s)].keys = <<>>, NEW s2, s2 = SubSeq(s, 1, Len(s) - 1)
  PROVE  Writing(W, O, D, X, p, s2, "return", Inner, q2)
<1> DEFINE l == Len(s)
           f == s[l]
<1>1. /\ Placed(W, O, D, X) /\ Assignments(W, O, D, p) /\ DumpFrames(W, O, D, p, X, s, "idle")
      /\ Free(X, s, "loop") /\ s # <<>>
  BY DEF Writing, Mode
<1>2. /\ l \in 1..l /\ DumpFrame(W, O, D, p, X, f, "idle") /\ f.keys = <<>>
  BY <1>1, TopFrame
<1>3. /\ IsStack(s2) /\ Len(s2) = l - 1 /\ l \in Nat
      /\ \A j \in 1..l - 1 : s2[j] = s[j]
  BY <1>1, <1>2, PoppedOff, StackLen DEF DumpFrames
<1>4. l = Len(s)
  OBVIOUS
<1> HIDE DEF l
<1>5. /\ f.table \in DOMAIN D /\ f.place = W[f.table] /\ Len(X[f.place].items) \in Nat
      /\ IsOrder(f.table, O[f.table]) /\ f.table \in Originals /\ IsStack(f.place)
  BY <1>1, <1>2, FrameIs
<1>6. Whole(W, O, D, p, X, f.table)
  <2>1. /\ Len(f.keys) = Len(O[f.table]) - Len(X[f.place].items)
        /\ ItemsWritten(W, O, D, p, X[f.place], f.table, Len(X[f.place].items))
        /\ MetaWritten(W, O, D, p, X[f.place], f.table)
    BY <1>2 DEF DumpFrame
  <2>2. Len(O[f.table]) \in Nat /\ Len(f.keys) = 0
    BY <1>2, <1>5, EmptyStack, OrderIs
  <2>3. Len(X[f.place].items) = Len(O[f.table])
    <3>1. \A a, b, c \in Nat : c = a - b /\ c = 0 => b = a
      OBVIOUS
    <3>2. QED BY <1>5, <2>1, <2>2, <3>1
  <2>4. QED BY <1>5, <2>1, <2>3 DEF Whole
<1>7. \A j \in 1..l - 1 : j \in 1..l /\ j # l /\ j < l
  BY <1>3
<1>8. \A j \in 1..Len(s2) : DumpFrame(W, O, D, p, X, s2[j], IF j = Len(s2) THEN "busy" ELSE "busy")
  BY <1>1, <1>3, <1>4, <1>7 DEF DumpFrames
<1>9. \A j \in 1..Len(s2) - 1 : /\ s2[j + 1].table = Target(O, s2[j].table, Coming(s2[j], X))
                                /\ s2[j + 1].place = Append(s2[j].place, Coming(s2[j], X))
  <2>1. TAKE j \in 1..Len(s2) - 1
  <2>2. j \in 1..l - 1 /\ j + 1 \in 1..l - 1 
    BY <1>3
  <2>3. QED BY <1>1, <1>3, <1>4, <2>2 DEF DumpFrames
<1>10. s2 # <<>> => s2[1].table = Table(1)
  <2>1. s2 # <<>> => 1 \in 1..l - 1
    BY <1>3, StackLen
  <2>2. QED BY <1>1, <1>3, <2>1 DEF DumpFrames
<1>11. \A o \in DOMAIN D : ~OnStack(s2, o) => Whole(W, O, D, p, X, o)
  <2>1. SUFFICES ASSUME NEW o \in DOMAIN D, ~OnStack(s2, o), o # f.table PROVE Whole(W, O, D, p, X, o)
    BY <1>6
  <2>2. \A j \in 1..l : j \in 1..l - 1 \/ j = l
    BY <1>3
  <2>3. ~OnStack(s, o)
    BY <1>3, <1>4, <2>1, <2>2 DEF OnStack
  <2>4. QED BY <1>1, <2>1, <2>3 DEF DumpFrames
<1>12. DumpFrames(W, O, D, p, X, s2, "busy")
  BY <1>3, <1>8, <1>9, <1>10, <1>11 DEF DumpFrames
<1>13. Free(X, s2, "return")
  BY <1>1, <1>3, <1>4, <1>7 DEF Free
<1>14. ASSUME s2 # <<>>
       PROVE  LET u == s2[Len(s2)].table
                  i == Coming(s2[Len(s2)], X)
              IN Inner = Sign(W, O, u, i) /\ Settled(W, O, D, p, u, i)
  <2> DEFINE m == l - 1
             g == s[m]
             u == g.table
             i == Coming(g, X)
  <2>1. m \in 1..l - 1 /\ m + 1 = l /\ Len(s2) = m
    BY <1>3, <1>14, StackLen
  <2>2. s2[Len(s2)] = g
    BY <1>3, <2>1
  <2>3. f.table = Target(O, u, i) /\ f.place = Append(g.place, i)
    <3>1. s[m + 1].table = Target(O, s[m].table, Coming(s[m], X))
          /\ s[m + 1].place = Append(s[m].place, Coming(s[m], X))
      BY <1>1, <1>4, <2>1 DEF DumpFrames
    <3>2. QED BY <2>1, <3>1
  <2>4. g.place = W[u]
    BY <1>1, <1>4, <1>7, <2>1, FrameOf
  <2>5. DOMAIN W = DOMAIN D
    BY <1>1 DEF Placed
  <2>6. Tree(W, O, u, i)
    BY <1>5, <2>3, <2>4, <2>5 DEF Tree
  <2>7. Settled(W, O, D, p, u, i) /\ Sign(W, O, u, i) = Inner
    BY <2>6 DEF Settled, Sign, Tree
  <2>8. QED BY <2>2, <2>7
<1>15. Table(1) \in DOMAIN D
  BY <1>1, <1>5 DEF Placed
<1>16. QED BY <1>1, <1>12, <1>13, <1>14, <1>15 DEF Writing, Mode

LEMMA TailOff ==
  ASSUME NEW s, IsStack(s), s # <<>>
  PROVE  /\ IsStack(Tail(s)) /\ Len(Tail(s)) = Len(s) - 1 /\ Len(s) \in Nat /\ Len(s) > 0
         /\ \A i \in 1..Len(s) - 1 : Tail(s)[i] = s[i + 1]
         /\ Head(s) = s[1]
<1> DEFINE S == {s[i] : i \in 1..Len(s)}
<1>1. s \in Seq(S)
  BY DEF IsStack
<1> HIDE DEF S
<1>2. Tail(s) \in Seq(S) /\ Len(Tail(s)) = Len(s) - 1 /\ \A i \in 1..Len(Tail(s)) : Tail(s)[i] = s[i + 1]
  BY <1>1, HeadTailProperties
<1>3. Len(s) \in Nat /\ Len(s) > 0
  BY StackLen
<1>4. IsStack(Tail(s))
  BY <1>2, SeqIsStack
<1>5. QED BY <1>2, <1>3, <1>4

\* The metatable of the innermost table is written.
LEMMA MetaTaken ==
  ASSUME given \in Graphs, NEW W, NEW O, NEW D, NEW X, NEW p, NEW s, NEW v, NEW q,
         NEW X2, NEW s2, NEW f, NEW f2, NEW v2, NEW q2,
         Writing(W, O, D, X, p, s, "return", v, q), NoneTwice(s), s # <<>>,
         f = s[Len(s)], f.key = Meta, f2 = [f EXCEPT !.key = Nil],
         X2 = [X EXCEPT ![f.place].meta = v], Replaces(s2, s, f2)
  PROVE  Writing(W, O, D, X2, p, s2, "loop", v2, q2)
<1>1. /\ Placed(W, O, D, X) /\ Assignments(W, O, D, p) /\ DumpFrames(W, O, D, p, X, s, "busy")
      /\ Free(X, s, "return") /\ v = Sign(W, O, f.table, 0) /\ Settled(W, O, D, p, f.table, 0)
  BY DEF Writing, Mode, Coming
<1>2. DumpFrame(W, O, D, p, X, f, "busy") /\ IsStack(s)
  BY <1>1, TopFrame DEF DumpFrames
<1>3. f.place \in DOMAIN X /\ f.table \in DOMAIN D /\ Len(X[f.place].items) \in Nat
  BY <1>1, <1>2, FrameIs
<1> DEFINE c == X[f.place]
           c2 == X2[f.place]
<1>4. c2.items = c.items /\ c2.meta = v /\ c2 = [items |-> c2.items, meta |-> c2.meta]
  <2>1. c = [items |-> c.items, meta |-> c.meta]
    BY <1>2 DEF DumpFrame, ItemsWritten
  <2>2. c2 = [c EXCEPT !.meta = v]
    BY <1>3
  <2> HIDE DEF c, c2
  <2>3. QED BY <2>1, <2>2
<1>5. DOMAIN X2 = DOMAIN X /\ \A r \in DOMAIN X : r # f.place => X2[r] = X[r]
  OBVIOUS
<1>6. /\ f2 = [table |-> f.table, path |-> f.path, place |-> f.place, keys |-> f.keys,
               numidx |-> f.numidx, key |-> Nil]
      /\ f2.key # Meta /\ Nil # None /\ Meta # None
  BY <1>2 DEF DumpFrame, Meta, Nil, None
<1>7. DumpFrame(W, O, D, p, X2, f2, "idle")
  <2>1. /\ Len(c.items) = 0 /\ f.numidx = 1 + Nones(c.items, Len(c.items)) + 0
        /\ Len(f.keys) = Len(O[f.table]) - 0
    BY <1>2, <1>6 DEF DumpFrame
  <2>2. /\ \A j \in 1..Len(f.keys) : f.keys[j] = O[f.table][0 + j]
        /\ IsStack(f.keys) /\ f.place = W[f.table] /\ f.path = D[f.table]
        /\ ItemsWritten(W, O, D, p, c, f.table, 0)
    BY <1>2, <2>1 DEF DumpFrame
  <2> HIDE DEF c, c2
  <2>3. ItemsWritten(W, O, D, p, c2, f.table, 0)
    BY <1>4, <2>2 DEF ItemsWritten, Tagged
  <2>4. MetaWritten(W, O, D, p, c2, f.table)
    BY <1>1, <1>4 DEF MetaWritten
  <2>5. X2[f2.place] = c2 /\ Len(c2.items) = 0 /\ Nones(c2.items, 0) = Nones(c.items, 0)
    BY <1>4, <1>6, <2>1 DEF c2
  <2>6. f.numidx = 1 + Nones(c2.items, 0) + 0
    <3>1. Nones(c.items, 0) \in Nat
      <4>1. IsStack(c.items) /\ 0 \in 0..Len(c.items)
        BY <2>1, <2>2 DEF ItemsWritten
      <4>2. QED BY <4>1, NonesAppended
    <3>2. QED BY <2>1, <2>5, <3>1
  <2>7. /\ f2 = [table |-> f2.table, path |-> f2.path, place |-> f2.place, keys |-> f2.keys,
                numidx |-> f2.numidx, key |-> f2.key]
        /\ f2.key # Meta /\ f2.key # None
        /\ f2.table = f.table /\ f2.path = f.path /\ f2.place = f.place
        /\ f2.keys = f.keys /\ f2.numidx = f.numidx
    BY <1>6
  <2>8. /\ f2.table \in DOMAIN D /\ f2.place = W[f2.table] /\ f2.path = D[f2.table]
        /\ ItemsWritten(W, O, D, p, X2[f2.place], f2.table, 0)
        /\ MetaWritten(W, O, D, p, X2[f2.place], f2.table)
        /\ IsStack(f2.keys) /\ Len(f2.keys) = Len(O[f2.table]) - 0
        /\ \A j \in 1..Len(f2.keys) : f2.keys[j] = O[f2.table][0 + j]
    BY <1>3, <2>1, <2>2, <2>3, <2>4, <2>5, <2>7
  <2>9. Len(X2[f2.place].items) = 0 /\ f2.numidx = 1 + Nones(X2[f2.place].items, 0) + 0
    BY <2>5, <2>6, <2>7
  <2>10. QED BY ONLY <2>7, <2>8, <2>9 DEF DumpFrame
<1>8. StaysOpen(f, X, "return", f2, X2, "loop")
  <2>1. f2.place = f.place /\ Len(X2[f2.place].items) \in Nat
    BY <1>3, <1>4, <1>6
  <2>2. 0 \in Written(f2, X2) /\ Written(f, X) = {} /\ Coming(f, X) = 0
    BY <1>6, <2>1 DEF Written, Coming
  <2>3. QED BY <2>2 DEF StaysOpen
<1>9. /\ IsStack(s2) /\ Len(s2) = Len(s) /\ s2 # <<>> /\ s2[Len(s)] = f2
      /\ \A j \in 1..Len(s) - 1 : s2[j] = s[j]
  BY <1>2, TopChanged
<1>10. f2.table = f.table /\ f2.place = f.place
  BY <1>6
<1> HIDE DEF c, c2
<1>11. Placed(W, O, D, X2) /\ DumpFrames(W, O, D, p, X2, s2, "idle") /\ Free(X2, s2, "loop")
  <2>1. Turned(X, s, f, X2, s2, f2)
    BY <1>5, <1>9, <1>10 DEF Turned
  <2>2. QED BY <1>1, <1>7, <1>8, <2>1, TopTurned
<1>12. QED BY <1>1, <1>9, <1>11 DEF Writing, Mode

\* The value of a key is.
LEMMA ItemTaken ==
  ASSUME given \in Graphs, NEW W, NEW O, NEW D, NEW X, NEW p, NEW s, NEW v, NEW q,
         NEW X2, NEW f, NEW v2, NEW q2,
         Writing(W, O, D, X, p, s, "return", v, q), NoneTwice(s), s # <<>>,
         f = s[Len(s)], f.key # Meta,
         X2 = [X EXCEPT ![f.place].items = Append(@, <<f.key, v>>)]
  PROVE  Writing(W, O, D, X2, p, s, "loop", v2, q2)
<1> DEFINE n == Len(X[f.place].items)
<1>1. /\ Placed(W, O, D, X) /\ Assignments(W, O, D, p) /\ DumpFrames(W, O, D, p, X, s, "busy")
      /\ Free(X, s, "return") /\ v = Sign(W, O, f.table, n + 1) /\ Settled(W, O, D, p, f.table, n + 1)
  BY DEF Writing, Mode, Coming
<1>2. DumpFrame(W, O, D, p, X, f, "busy") /\ IsStack(s)
  BY <1>1, TopFrame DEF DumpFrames
<1>3. f.place \in DOMAIN X /\ f.table \in DOMAIN D /\ n \in Nat
  BY <1>1, <1>2, FrameIs
<1> DEFINE c == X[f.place]
           c2 == X2[f.place]
           e == <<f.key, v>>
<1>4. /\ c2.items = Append(c.items, e) /\ c2.meta = c.meta
      /\ c2 = [items |-> c2.items, meta |-> c2.meta]
  <2>1. c = [items |-> c.items, meta |-> c.meta]
    BY <1>2 DEF DumpFrame, ItemsWritten
  <2>2. c2 = [c EXCEPT !.items = Append(@, e)]
    BY <1>3
  <2> HIDE DEF c, c2, e
  <2>3. QED BY <2>1, <2>2
<1>5. DOMAIN X2 = DOMAIN X /\ \A r \in DOMAIN X : r # f.place => X2[r] = X[r]
  OBVIOUS
<1>6. IsStack(c.items) /\ n = Len(c.items) /\ ItemsWritten(W, O, D, p, c, f.table, n)
  BY <1>2 DEF DumpFrame, ItemsWritten
<1>7. /\ IsStack(c2.items) /\ Len(c2.items) = n + 1
      /\ \A i \in 1..n : c2.items[i] = c.items[i]
      /\ c2.items[n + 1] = e
      /\ \A i \in 0..n : Nones(c2.items, i) = Nones(c.items, i) /\ Nones(c.items, i) \in Nat
      /\ Nones(c2.items, n + 1) = Nones(c.items, n) + IF f.key = None THEN 1 ELSE 0
  <2>1. e[1] = f.key
    OBVIOUS
  <2> DEFINE r == c.items
             r2 == c2.items
  <2>2. IsStack(r) /\ r2 = Append(r, e) /\ n = Len(r) /\ Len(r) \in Nat
    BY <1>3, <1>4, <1>6
  <2> HIDE DEF c, c2, e, n, r, r2
  <2>3. /\ IsStack(r2) /\ Len(r2) = n + 1 /\ r2[n + 1] = e
        /\ \A i \in 1..n : r2[i] = r[i]
    BY <2>2, Pushed
  <2>4. /\ \A i \in 0..n : Nones(r2, i) = Nones(r, i) /\ Nones(r, i) \in Nat
        /\ Nones(r2, n + 1) = Nones(r, n) + IF e[1] = None THEN 1 ELSE 0
    BY <2>2, NonesAppended
  <2>5. QED BY <2>1, <2>3, <2>4 DEF r, r2
<1>8. DumpFrame(W, O, D, p, X2, f, "idle")
  <2>1. /\ f = [table |-> f.table, path |-> f.path, place |-> f.place, keys |-> f.keys,
                numidx |-> f.numidx, key |-> f.key]
        /\ f.place = W[f.table] /\ f.path = D[f.table]
        /\ MetaWritten(W, O, D, p, c, f.table)
        /\ IsStack(f.keys) /\ Len(f.keys) = Len(O[f.table]) - (n + 1)
        /\ \A j \in 1..Len(f.keys) : f.keys[j] = O[f.table][n + 1 + j]
        /\ f.numidx = 1 + Nones(c.items, n) + IF f.key = None THEN 1 ELSE 0
        /\ \/ f.key = O[f.table][n + 1] /\ f.key # None
           \/ f.key = None /\ O[f.table][n + 1] = <<"number", f.numidx - 1>>
    BY <1>2 DEF DumpFrame
  <2> HIDE DEF c, c2, n
  <2>2. Nones(c.items, n) \in Nat /\ n \in 0..n
    BY <1>3, <1>7
  <2> DEFINE one == IF f.key = None THEN 1 ELSE 0
             m == Nones(c.items, n)
  <2>a. f.numidx = 1 + m + one /\ Nones(c2.items, n + 1) = m + one
    BY <1>7, <2>1
  <2>b. m \in Nat /\ one \in {0, 1} /\ (f.key = None => one = 1)
    BY <2>2
  <2> HIDE DEF one, m
  <2>c. \A a, b \in Nat : 1 + a + b = 1 + (a + b) + 0 /\ (b = 1 => (1 + a + b) - 1 = a + b)
    OBVIOUS
  <2>3. f.numidx = 1 + Nones(c2.items, n + 1) + 0
    BY <2>a, <2>b, <2>c
  <2>4. Tagged(c2.items, O[f.table], n + 1)
    <3>1. e[1] = f.key
      OBVIOUS
    <3>2. f.key = None => f.numidx - 1 = Nones(c2.items, n + 1)
      BY <2>a, <2>b, <2>c
    <3>3. QED BY <1>7, <2>1, <3>1, <3>2 DEF Tagged
  <2>5. \A i \in 1..n + 1 : i \in 1..n \/ i = n + 1
    BY <1>3
  <2>6. \A i \in 1..n : Tagged(c2.items, O[f.table], i)
    <3>1. \A i \in 1..n : Tagged(c.items, O[f.table], i) /\ i \in 0..n
      BY <1>3, <1>6 DEF ItemsWritten
    <3>2. QED BY <1>7, <3>1 DEF Tagged
  <2>7. ItemsWritten(W, O, D, p, c2, f.table, n + 1)
    <3>1. e[2] = v
      OBVIOUS
    <3>2. \A i \in 1..n : /\ c2.items[i][2] = Sign(W, O, f.table, i)
                          /\ Settled(W, O, D, p, f.table, i)
      BY <1>6, <1>7 DEF ItemsWritten
    <3> HIDE DEF e
    <3>3. QED BY <1>1, <1>4, <1>7, <2>4, <2>5, <2>6, <3>1, <3>2 DEF ItemsWritten, n
  <2>8. MetaWritten(W, O, D, p, c2, f.table)
    BY <1>4, <2>1 DEF MetaWritten
  <2>9. X2[f.place] = c2
    BY DEF c2
  <2>10. QED BY <1>3, <1>7, <2>1, <2>3, <2>7, <2>8, <2>9 DEF DumpFrame
<1>9. StaysOpen(f, X, "return", f, X2, "loop")
  <2>1. Written(f, X) = 0..n /\ Coming(f, X) = n + 1 /\ Written(f, X2) = 0..n + 1
    BY <1>7 DEF Written, Coming
  <2>2. \A i : i \in 0..n \/ i = n + 1 => i \in 0..n + 1
    BY <1>3
  <2>3. QED BY <2>1, <2>2 DEF StaysOpen
<1>10. /\ IsStack(s) /\ Len(s) = Len(s) /\ s[Len(s)] = f
       /\ \A j \in 1..Len(s) - 1 : s[j] = s[j]
  BY <1>2
<1> HIDE DEF c, c2, n
<1>11. Placed(W, O, D, X2) /\ DumpFrames(W, O, D, p, X2, s, "idle") /\ Free(X2, s, "loop")
  <2>1. Turned(X, s, f, X2, s, f)
    BY <1>5, <1>10 DEF Turned
  <2>2. given \in Graphs /\ NoneTwice(s)
    OBVIOUS
  <2>3. QED BY ONLY <1>1, <1>8, <1>9, <2>1, <2>2, TopTurned
<1>12. QED BY <1>1, <1>11 DEF Writing, Mode

\* The next key is taken.
KeyTaken(s, f, k, f2, s2, v2, q2) ==
  /\ f = s[Len(s)] /\ f.keys # <<>> /\ k = Head(f.keys) /\ Replaces(s2, s, f2)
  /\ \/ k = <<"number", f.numidx>> /\ f2 = [f EXCEPT !.keys = Tail(@), !.key = None, !.numidx = @ + 1]
     \/ f2 = [f EXCEPT !.keys = Tail(@), !.key = k]
  /\ v2 = Fields(f.table)[k] /\ q2 = Append(f.path, k)

LEMMA ItemCalled ==
  ASSUME given \in Graphs, NEW W, NEW O, NEW D, NEW X, NEW p, NEW s, NEW v, NEW q,
         NEW s2, NEW f, NEW f2, NEW k, NEW v2, NEW q2,
         Writing(W, O, D, X, p, s, "loop", v, q), NoneTwice(s),
         KeyTaken(s, f, k, f2, s2, v2, q2)
  PROVE  Writing(W, O, D, X, p, s2, "call", v2, q2)
<1>0. /\ f = s[Len(s)] /\ f.keys # <<>> /\ k = Head(f.keys) /\ Replaces(s2, s, f2)
      /\ v2 = Fields(f.table)[k] /\ q2 = Append(f.path, k)
  BY DEF KeyTaken
<1> DEFINE n == Len(X[f.place].items)
           m == Nones(X[f.place].items, n)
<1>1. /\ Placed(W, O, D, X) /\ Assignments(W, O, D, p) /\ DumpFrames(W, O, D, p, X, s, "idle")
      /\ Free(X, s, "loop") /\ s # <<>>
  BY DEF Writing, Mode
<1>2. DumpFrame(W, O, D, p, X, f, "idle") /\ IsStack(s)
  BY <1>0, <1>1, TopFrame DEF DumpFrames
<1>3. /\ f.place \in DOMAIN X /\ f.table \in DOMAIN D /\ n \in Nat /\ f.table \in Originals
      /\ IsOrder(f.table, O[f.table]) /\ f.path = D[f.table]
  BY <1>0, <1>1, <1>2, FrameIs
<1>4. m \in Nat
  <2>1. IsStack(X[f.place].items)
    BY <1>2 DEF DumpFrame, ItemsWritten
  <2>2. n \in 0..n
    BY <1>3
  <2>3. QED BY <2>1, <2>2, NonesAppended
<1>5. /\ f = [table |-> f.table, path |-> f.path, place |-> f.place, keys |-> f.keys,
              numidx |-> f.numidx, key |-> f.key]
      /\ f.key # Meta /\ f.place = W[f.table]
      /\ ItemsWritten(W, O, D, p, X[f.place], f.table, n)
      /\ MetaWritten(W, O, D, p, X[f.place], f.table)
      /\ IsStack(f.keys) /\ Len(f.keys) = Len(O[f.table]) - n
      /\ \A j \in 1..Len(f.keys) : f.keys[j] = O[f.table][n + j]
      /\ f.numidx = 1 + m
  <2>1. f.numidx = 1 + m + 0
    BY <1>2 DEF DumpFrame
  <2>2. f.numidx = 1 + m
    BY <1>4, <2>1
  <2> HIDE DEF m
  <2>3. QED BY <1>2, <2>2 DEF DumpFrame
<1>6. Len(O[f.table]) \in Nat
  BY <1>3, OrderIs
<1> DEFINE t == Tail(f.keys)
<1>7. /\ IsStack(t) /\ Len(t) = Len(f.keys) - 1 /\ Len(f.keys) \in Nat /\ Len(f.keys) > 0
      /\ \A j \in 1..Len(f.keys) - 1 : t[j] = f.keys[j + 1]
      /\ k = f.keys[1]
  <2> DEFINE ks == f.keys
  <2>1. IsStack(ks) /\ ks # <<>> /\ k = Head(ks) /\ t = Tail(ks)
    BY <1>0, <1>5
  <2> HIDE DEF ks, t
  <2>2. QED BY <2>1, TailOff DEF ks
<1> HIDE DEF t, n, m
<1>8. /\ n + 1 \in 1..Len(O[f.table]) /\ k = O[f.table][n + 1]
      /\ Len(t) = Len(O[f.table]) - (n + 1)
      /\ \A j \in 1..Len(t) : t[j] = O[f.table][n + 1 + j]
  <2>1. \A a, b, c \in Nat : a = b - c /\ a > 0 => c + 1 \in 1..b /\ a - 1 = b - (c + 1)
    OBVIOUS
  <2>2. n + 1 \in 1..Len(O[f.table]) /\ Len(t) = Len(O[f.table]) - (n + 1)
    <3>1. /\ Len(f.keys) \in Nat /\ Len(O[f.table]) \in Nat /\ n \in Nat
          /\ Len(f.keys) = Len(O[f.table]) - n /\ Len(f.keys) > 0
          /\ Len(t) = Len(f.keys) - 1
      BY <1>3, <1>5, <1>6, <1>7
    <3>2. QED BY ONLY <2>1, <3>1
  <2>3. k = O[f.table][n + 1]
    <3>1. 1 \in 1..Len(f.keys)
      BY <1>7
    <3>2. f.keys[1] = O[f.table][n + 1]
      BY <1>5, <3>1
    <3>3. QED BY <1>7, <3>2
  <2>4. ASSUME NEW j \in 1..Len(t) PROVE t[j] = O[f.table][n + 1 + j]
    <3>1. j \in 1..Len(f.keys) - 1 /\ j + 1 \in 1..Len(f.keys) /\ n + (j + 1) = n + 1 + j
      BY <1>3, <1>7
    <3>2. QED BY <1>5, <1>7, <3>1
  <2>5. QED BY <2>2, <2>3, <2>4
<1>9. /\ Label(O, f.table, n + 1) = k /\ Target(O, f.table, n + 1) = Fields(f.table)[k]
      /\ k # Meta /\ k # None
  <2> DEFINE o == f.table
             j == n + 1
  <2>1. o \in Originals /\ IsOrder(o, O[o]) /\ j \in 1..Len(O[o]) /\ k = O[o][j]
    BY <1>3, <1>8
  <2> HIDE DEF o, j
  <2>2. /\ Label(O, o, j) = k /\ Target(O, o, j) = Fields(o)[k]
        /\ k # Meta /\ k # None
    BY <2>1, OrderIs
  <2>3. QED BY <2>2 DEF o, j
<1>10. /\ f2 = [table |-> f.table, path |-> f.path, place |-> f.place, keys |-> t,
                numidx |-> f2.numidx, key |-> f2.key]
       /\ \/ k = <<"number", f.numidx>> /\ f2.key = None /\ f2.numidx = f.numidx + 1
          \/ f2.key = k /\ f2.numidx = f.numidx
  <2>1. \/ k = <<"number", f.numidx>> /\ f2 = [f EXCEPT !.keys = Tail(@), !.key = None, !.numidx = @ + 1]
        \/ f2 = [f EXCEPT !.keys = Tail(@), !.key = k]
    BY DEF KeyTaken
  <2>2. QED BY <1>5, <2>1 DEF t
<1>11. /\ f2.table = f.table /\ f2.path = f.path /\ f2.place = f.place /\ f2.keys = t
       /\ f2.key # Meta
  <2>1. None # Meta
    BY DEF None, Meta
  <2>2. f2.key = None \/ f2.key = k
    BY <1>10
  <2>3. f2.key # Meta
    BY <1>9, <2>1, <2>2
  <2>4. QED BY <1>10, <2>3
<1>12. DumpFrame(W, O, D, p, X, f2, "busy")
  <2>1. f2.numidx = 1 + m + IF f2.key = None THEN 1 ELSE 0
    <3>1. CASE f2.key = k /\ f2.numidx = f.numidx
      <4>1. f2.key # None /\ f.numidx = 1 + m
        BY <1>5, <1>9, <3>1
      <4>2. \A a \in Nat : 1 + a = 1 + a + 0
        OBVIOUS
      <4>3. QED BY <1>4, <3>1, <4>1, <4>2
    <3>2. CASE f2.key = None /\ f2.numidx = f.numidx + 1
      <4>1. f2.numidx = (1 + m) + 1
        BY <1>5, <3>2
      <4>2. QED BY <3>2, <4>1
    <3>3. QED BY <1>10, <3>1, <3>2
  <2>2. \/ f2.key = O[f.table][n + 1] /\ f2.key # None
        \/ f2.key = None /\ O[f.table][n + 1] = <<"number", f2.numidx - 1>>
    <3>1. CASE f2.key = k
      BY <1>8, <1>9, <3>1
    <3>2. CASE k = <<"number", f.numidx>> /\ f2.key = None /\ f2.numidx = f.numidx + 1
      <4>1. f2.numidx - 1 = f.numidx
        <5>1. f.numidx = 1 + m /\ f2.numidx = f.numidx + 1
          BY <1>5, <3>2
        <5>2. \A a \in Nat : ((1 + a) + 1) - 1 = 1 + a
          OBVIOUS
        <5>3. QED BY <1>4, <5>1, <5>2
      <4>2. QED BY <1>8, <3>2, <4>1
    <3>3. QED BY <1>10, <3>1, <3>2
  <2>3. f2.table \in DOMAIN D /\ f2.place = W[f2.table] /\ f2.path = D[f2.table]
    BY <1>3, <1>5, <1>11
  <2>4. /\ ItemsWritten(W, O, D, p, X[f2.place], f2.table, n)
        /\ MetaWritten(W, O, D, p, X[f2.place], f2.table)
        /\ n = Len(X[f2.place].items) /\ m = Nones(X[f2.place].items, n)
    BY <1>5, <1>11 DEF n, m
  <2>5. /\ IsStack(f2.keys) /\ Len(f2.keys) = Len(O[f2.table]) - (n + 1)
        /\ \A j \in 1..Len(f2.keys) : f2.keys[j] = O[f2.table][n + 1 + j]
    <3>1. f2.keys = t /\ f2.table = f.table
      BY <1>11
    <3>2. /\ IsStack(t) /\ Len(t) = Len(O[f.table]) - (n + 1)
          /\ \A j \in 1..Len(t) : t[j] = O[f.table][n + 1 + j]
      BY <1>7, <1>8
    <3>3. QED BY ONLY <3>1, <3>2
  <2>6. f2 = [table |-> f2.table, path |-> f2.path, place |-> f2.place, keys |-> f2.keys,
              numidx |-> f2.numidx, key |-> f2.key]
    BY <1>10
  <2>7. QED BY <1>11, <2>1, <2>2, <2>3, <2>4, <2>5, <2>6 DEF DumpFrame
<1>13. StaysOpen(f, X, "loop", f2, X, "call")
  BY <1>5, <1>11 DEF Written, StaysOpen
<1>14. /\ IsStack(s2) /\ Len(s2) = Len(s) /\ s2 # <<>> /\ s2[Len(s)] = f2
       /\ \A j \in 1..Len(s) - 1 : s2[j] = s[j]
  BY <1>0, <1>1, <1>2, TopChanged
<1>15. Placed(W, O, D, X) /\ DumpFrames(W, O, D, p, X, s2, "busy") /\ Free(X, s2, "call")
  <2>1. Turned(X, s, f, X, s2, f2)
    BY <1>0, <1>1, <1>11, <1>14 DEF Turned
  <2>2. QED BY <1>1, <1>12, <1>13, <2>1, TopTurned
<1>16. Coming(f2, X) = n + 1
  BY <1>11 DEF Coming, n
<1>17. v2 = Target(O, f.table, n + 1) /\ q2 = PathTo(O, D, f.table, n + 1)
  BY <1>0, <1>3, <1>9 DEF PathTo
<1>18. QED BY <1>1, <1>11, <1>14, <1>15, <1>16, <1>17 DEF Writing, Mode

\* The constructor of the root is written.
LEMMA Enclosed ==
  ASSUME NEW W, NEW O, NEW D, NEW X, NEW p, NEW v, NEW q, NEW v2, NEW q2,
         Writing(W, O, D, X, p, <<>>, "return", v, q)
  PROVE  Writing(W, O, D, X, p, <<>>, "load", v2, q2)
<1>1. Free(X, <<>>, "load")
  BY EmptyStack DEF Free
<1>2. QED BY <1>1 DEF Writing, Mode

\* Induction over numbers, for a set.
LEMMA Induction ==
  ASSUME NEW T, 0 \in T, \A n \in Nat : n \in T => n + 1 \in T
  PROVE  Nat \subseteq T
<1> DEFINE R == {ss \in Nat \X Nat : ss[1] < ss[2]}
           C == Nat \ T
<1>1. SUFFICES ASSUME C # {} PROVE FALSE
  OBVIOUS
<1>2. IsWellFoundedOn(R, Nat)
  BY NatLessThanWellFounded DEF OpToRel
<1>3. \A x, y \in Nat : y < x => <<y, x>> \in R
  OBVIOUS
<1> HIDE DEF R
<1>4. PICK k \in C : \A j \in C : ~ (<<j, k>> \in R)
  <2>1. C \subseteq Nat
    OBVIOUS
  <2> HIDE DEF C
  <2>2. QED BY <1>1, <1>2, <2>1, WFMin
<1>5. k \in Nat \ {0} /\ k - 1 \in Nat /\ k - 1 + 1 = k
  OBVIOUS
<1>6. k - 1 \notin C
  <2>1. k \in Nat /\ k - 1 \in Nat /\ k - 1 < k
    BY <1>5
  <2>2. <<k - 1, k>> \in R
    BY <1>3, <2>1
  <2>3. QED BY <1>4, <2>2
<1>7. QED BY <1>5, <1>6


-----------------------------------------------------------------------------
(* What the text makes *)

\* The value of an item is there if it is no table or was written there.
MadeOf(W, O, o, u) ==
  /\ u = [fields |-> u.fields, meta |-> u.meta]
  /\ DOMAIN u.fields \subseteq DOMAIN Fields(o)
  /\ \A i \in 0..Len(O[o]) : ~IsTable(Target(O, o, i)) \/ Tree(W, O, o, i) =>
       IF i = 0 THEN u.meta = Mapped(W, Target(O, o, 0))
       ELSE O[o][i] \in DOMAIN u.fields /\ u.fields[O[o][i]] = Mapped(W, Target(O, o, i))

\* The keys and the values of the items of a constructor.
ItemsAre(W, O, o) ==
  /\ o \in Originals /\ IsOrder(o, O[o]) /\ Len(O[o]) \in Nat
  /\ Len(text[W[o]].items) = Len(O[o])
  /\ \A i \in 1..Len(O[o]) : KeyOf(W[o], i) = O[o][i]
  /\ \A i \in 0..Len(O[o]) :
       ValueOf(W[o], i) = IF Tree(W, O, o, i) \/ ~IsTable(Target(O, o, i))
                          THEN Mapped(W, Target(O, o, i)) ELSE Nil
  /\ \A i \in 1..Len(O[o]) :
       /\ ValueOf(W[o], i) # None
       /\ Tree(W, O, o, i) \/ ~IsTable(Target(O, o, i)) => ValueOf(W[o], i) # Nil

LEMMA ItemsRead ==
  ASSUME given \in Graphs, NEW W, NEW O, NEW D, NEW p, Placed(W, O, D, text),
         NEW o \in DOMAIN D, Whole(W, O, D, p, text, o), Plain(o)
  PROVE  ItemsAre(W, O, o)
<1> DEFINE r == W[o]
           ks == O[o]
           n == Len(ks)
           items == text[r].items
<1>1. /\ o \in Originals /\ IsOrder(o, ks) /\ o \in DOMAIN W
      /\ n \in Nat /\ IsStack(items) /\ Len(items) = n
      /\ \A i \in 1..n : items[i][2] = Sign(W, O, o, i) /\ Tagged(items, ks, i)
      /\ text[r].meta = Sign(W, O, o, 0)
  <2>1. o \in Originals /\ IsOrder(o, ks) /\ o \in DOMAIN W
    BY DEF Placed
  <2>2. n \in Nat
    BY <2>1, OrderIs
  <2>3. QED BY <2>1, <2>2 DEF Whole, ItemsWritten, MetaWritten
<1>2. /\ \A i \in 1..n : /\ i # 0 /\ ks[i] \in DOMAIN Fields(o) /\ ks[i] # NewTable
                         /\ Target(O, o, i) # Nil
      /\ \A i \in 0..n : Target(O, o, i) # Inner
      /\ \A i, j \in 1..n : ks[i] = ks[j] => i = j
  BY <1>1, OrderIs DEF IsOrder
<1>3. ASSUME NEW i \in 1..n PROVE KeyOf(r, i) = ks[i]
  <2>1. Tagged(items, ks, i) /\ ks[i] # NewTable
    BY <1>1, <1>2
  <2>2. CASE items[i][1] = None
    <3>1. ks[i] = <<"number", Nones(items, i)>>
      BY <2>1, <2>2 DEF Tagged
    <3>2. None # NewTable
      BY DEF None, NewTable
    <3>3. QED BY <2>2, <3>1, <3>2 DEF KeyOf, Nones
  <2>3. CASE items[i][1] # None
    <3>1. items[i][1] = ks[i]
      BY <2>1, <2>3 DEF Tagged
    <3>2. Read(ks[i]) = ks[i]
      BY <1>2 DEF Plain
    <3>3. QED BY <2>1, <2>3, <3>1, <3>2 DEF KeyOf
  <2>4. QED BY <2>2, <2>3
<1>4. ASSUME NEW i \in 0..n
      PROVE  ValueOf(r, i) = IF Tree(W, O, o, i) \/ ~IsTable(Target(O, o, i))
                             THEN Mapped(W, Target(O, o, i)) ELSE Nil
  <2> DEFINE t == Target(O, o, i)
  <2>1. (IF i = 0 THEN text[r].meta ELSE items[i][2]) = Sign(W, O, o, i)
    <3>1. i = 0 \/ i \in 1..n
      BY <1>1
    <3>2. QED BY <1>1, <1>2, <3>1
  <2>2. t # Inner /\ Nil # Inner
    BY <1>2 DEF Nil, Inner
  <2>3. t \in DOMAIN W => IsTable(t)
    BY Graph DEF Placed
  <2>4. CASE Tree(W, O, o, i)
    <3>1. IsTable(t) /\ W[t] = Append(r, i)
      BY <2>3, <2>4 DEF Tree
    <3>2. ValueOf(r, i) = Table(Append(r, i))
      BY <2>1, <2>4 DEF ValueOf, Sign
    <3>3. QED BY <2>4, <3>1, <3>2 DEF Mapped
  <2>5. CASE ~Tree(W, O, o, i)
    <3>1. Read(Nil) = Nil
      BY DEF Read, Nil
    <3>2. ValueOf(r, i) = IF IsTable(t) THEN Nil ELSE Read(t)
      BY <2>1, <2>2, <2>5, <3>1 DEF ValueOf, Sign
    <3>3. QED BY <2>5, <3>2 DEF Mapped
  <2>6. QED BY <2>4, <2>5
<1>5. ASSUME NEW i \in 1..n
      PROVE  /\ ValueOf(r, i) # None
             /\ Tree(W, O, o, i) \/ ~IsTable(Target(O, o, i)) => ValueOf(r, i) # Nil
  <2> DEFINE t == Target(O, o, i)
  <2>1. i \in 0..n /\ (~IsTable(t) => Read(t) \notin {Nil, None})
    BY <1>1, <1>2, OrderIs DEF Plain
  <2>2. \A w : Table(w) \notin {Nil, None}
    BY DEF Table, Nil, None
  <2>3. Mapped(W, t) \notin {Nil, None} /\ Nil # None
    BY <2>1, <2>2 DEF Mapped, Nil, None
  <2>4. QED BY <1>4, <2>1, <2>3
<1>6. QED BY <1>1, <1>3, <1>4, <1>5 DEF ItemsAre

\* No text of a key or a value is an error.
LEMMA NothingFails ==
  ASSUME given \in Graphs, NEW W, NEW O, NEW D, NEW p, Placed(W, O, D, text),
         NEW o \in DOMAIN D, Whole(W, O, D, p, text, o), Plain(o)
  PROVE  ~Fails(W[o])
<1>1. ItemsAre(W, O, o)
  BY ItemsRead
<1>2. /\ o \in Originals /\ IsOrder(o, O[o]) /\ Len(text[W[o]].items) = Len(O[o])
      /\ \A i \in 1..Len(O[o]) : KeyOf(W[o], i) = O[o][i] /\ ValueOf(W[o], i) # None
  BY <1>1 DEF ItemsAre
<1>3. \A i \in 1..Len(O[o]) : O[o][i] \notin {Nil, None}
  BY <1>2, OrderIs
<1>4. QED BY <1>2, <1>3 DEF Fails

LEMMA MadeIs ==
  ASSUME given \in Graphs, NEW W, NEW O, NEW D, NEW p, Placed(W, O, D, text),
         NEW o \in DOMAIN D, Whole(W, O, D, p, text, o), Plain(o)
  PROVE  MadeOf(W, O, o, Made(W[o]))
<1>0. ItemsAre(W, O, o)
  BY ItemsRead
<1> DEFINE r == W[o]
           ks == O[o]
           n == Len(ks)
           items == text[r].items
<1>1. /\ o \in Originals /\ IsOrder(o, ks) /\ n \in Nat /\ Len(items) = n
      /\ \A i \in 1..n : KeyOf(r, i) = ks[i]
      /\ \A i \in 0..n : ValueOf(r, i) = IF Tree(W, O, o, i) \/ ~IsTable(Target(O, o, i))
                                         THEN Mapped(W, Target(O, o, i)) ELSE Nil
      /\ \A i \in 1..n : Tree(W, O, o, i) \/ ~IsTable(Target(O, o, i)) => ValueOf(r, i) # Nil
  BY <1>0 DEF ItemsAre
<1>2. /\ \A i \in 1..n : i # 0 /\ ks[i] \in DOMAIN Fields(o)
      /\ \A i, j \in 1..n : ks[i] = ks[j] => i = j
  BY <1>1, OrderIs DEF IsOrder
<1>3. ASSUME NEW i \in 1..n PROVE KeyOf(r, i) = ks[i]
  BY <1>1
<1>4. ASSUME NEW i \in 0..n
      PROVE  ValueOf(r, i) = IF Tree(W, O, o, i) \/ ~IsTable(Target(O, o, i))
                             THEN Mapped(W, Target(O, o, i)) ELSE Nil
  BY <1>1
<1> DEFINE filled == {i \in 1..Len(items) : ValueOf(r, i) # Nil}
           K == {KeyOf(r, i) : i \in filled}
           V(k) == ValueOf(r, Max({i \in filled : KeyOf(r, i) = k}))
<1>5. Made(r) = [fields |-> [k \in K |-> V(k)], meta |-> ValueOf(r, 0)]
  BY DEF Made
<1>6. filled \subseteq 1..n /\ K = {ks[i] : i \in filled}
  BY <1>1, <1>3
<1>7. \A i \in filled : V(ks[i]) = ValueOf(r, i)
  <2>1. TAKE i \in filled
  <2>2. {j \in filled : KeyOf(r, j) = ks[i]} = {i}
    BY <1>2, <1>3, <1>6
  <2>3. Max({i}) = i
    <3>1. i \in Int
      BY <1>1, <1>6
    <3>2. QED BY <3>1 DEF Max
  <2>4. QED BY <2>2, <2>3
<1>8. \A i \in 1..n : Tree(W, O, o, i) \/ ~IsTable(Target(O, o, i)) => i \in filled
  BY <1>1
<1> HIDE DEF filled, V, K
<1>9. DOMAIN Made(r).fields = K /\ \A k \in K : Made(r).fields[k] = V(k)
  BY <1>5
<1>10. K \subseteq DOMAIN Fields(o)
  BY <1>2, <1>6
<1>11. ASSUME NEW i \in 0..n, ~IsTable(Target(O, o, i)) \/ Tree(W, O, o, i)
       PROVE  IF i = 0 THEN Made(r).meta = Mapped(W, Target(O, o, 0))
              ELSE ks[i] \in DOMAIN Made(r).fields /\ Made(r).fields[ks[i]] = Mapped(W, Target(O, o, i))
  <2>1. ValueOf(r, i) = Mapped(W, Target(O, o, i))
    BY <1>4, <1>11
  <2>2. CASE i = 0
    BY <1>5, <2>1, <2>2
  <2>3. CASE i # 0
    <3>1. i \in 1..n
      BY <1>1, <2>3
    <3>2. i \in filled
      BY <1>8, <1>11, <3>1
    <3>3. ks[i] \in K /\ V(ks[i]) = ValueOf(r, i)
      BY <1>6, <1>7, <3>2
    <3>4. QED BY <1>9, <2>1, <2>3, <3>3
  <2>4. QED BY <2>2, <2>3
<1>12. Made(r) = [fields |-> Made(r).fields, meta |-> Made(r).meta]
  BY <1>5
<1>13. QED BY <1>9, <1>10, <1>11, <1>12 DEF MadeOf

LEMMA TextTaken ==
  ASSUME given \in Graphs, NEW W, NEW O, NEW D, NEW p, NEW v, NEW q,
         Writing(W, O, D, text, p, <<>>, "load", v, q), \A o \in DOMAIN D : Plain(o)
  PROVE  \A r \in DOMAIN text : ~Fails(r)
<1>1. Placed(W, O, D, text) /\ DumpFrames(W, O, D, p, text, <<>>, "busy")
  BY DEF Writing, Mode
<1>2. \A o \in DOMAIN D : Whole(W, O, D, p, text, o)
  BY <1>1, EmptyStack DEF DumpFrames, OnStack
<1>3. \A o \in DOMAIN D : ~Fails(W[o])
  BY <1>1, <1>2, NothingFails
<1>4. QED BY <1>1, <1>3 DEF Placed

LEMMA TextLoaded ==
  ASSUME given \in Graphs, NEW W, NEW O, NEW D, NEW p, NEW v, NEW q,
         Writing(W, O, D, text, p, <<>>, "load", v, q), \A o \in DOMAIN D : Plain(o),
         NEW h, h = [r \in DOMAIN text |-> Made(r)], NEW v2, v2 = Table(<<>>)
  PROVE  Running(W, O, D, text, p, h, v2)
<1>1. /\ Placed(W, O, D, text) /\ Assignments(W, O, D, p) /\ Table(1) \in DOMAIN D
      /\ DumpFrames(W, O, D, p, text, <<>>, "busy")
  BY DEF Writing, Mode
<1>2. \A o \in DOMAIN D : Whole(W, O, D, p, text, o)
  BY <1>1, EmptyStack DEF DumpFrames, OnStack
<1>3. /\ DOMAIN h = {W[o] : o \in DOMAIN D} /\ DOMAIN W = DOMAIN D
      /\ \A o \in DOMAIN D : h[W[o]] = Made(W[o])
  BY <1>1 DEF Placed
<1>4. ASSUME NEW o \in DOMAIN D
      PROVE  /\ h[W[o]] = [fields |-> h[W[o]].fields, meta |-> h[W[o]].meta]
             /\ DOMAIN h[W[o]].fields \subseteq DOMAIN Fields(o)
             /\ \A i \in 0..Len(O[o]) : ~IsTable(Target(O, o, i)) \/ Tree(W, O, o, i) =>
                  Has(W, O, h, o, i)
  <2>1. Whole(W, O, D, p, text, o) /\ h[W[o]] = Made(W[o])
    BY <1>2, <1>3
  <2>2. MadeOf(W, O, o, Made(W[o]))
    BY <1>1, <2>1, MadeIs
  <2>3. MadeOf(W, O, o, h[W[o]])
    BY <2>1, <2>2
  <2>4. QED BY <2>3 DEF MadeOf, Has
<1>5. ASSUME NEW o \in DOMAIN D, NEW i \in 0..Len(O[o])
      PROVE  /\ IsTable(Target(O, o, i)) => Target(O, o, i) \in DOMAIN D
             /\ Has(W, O, h, o, i) \/ Assigned(p, O, D, o, i)
  <2>1. Settled(W, O, D, p, o, i)
    <3>1. o \in Originals /\ IsOrder(o, O[o])
      BY <1>1 DEF Placed
    <3>2. Len(O[o]) \in Nat
      BY <3>1, OrderIs
    <3>3. i = 0 \/ i \in 1..Len(O[o])
      BY <3>2
    <3>4. Whole(W, O, D, p, text, o)
      BY <1>2
    <3>5. QED BY <3>3, <3>4 DEF Whole, ItemsWritten, MetaWritten
  <2>2. QED BY <1>3, <1>4, <2>1 DEF Settled
<1>6. Loaded(W, O, D, p, h)
  BY <1>3, <1>4, <1>5 DEF Loaded
<1>7. QED BY <1>1, <1>6 DEF Running

-----------------------------------------------------------------------------
(* The paths of the assignments *)

FollowsBy(u, p, n) ==
  u = [i \in 0..n |-> IF i = 0 THEN Table(<<>>) ELSE Followed(u[i - 1], p[i])]

LEMMA FollowsByIs ==
  ASSUME NEW p, NEW n \in Nat
  PROVE  \E u : FollowsBy(u, p, n)
<1> DEFINE T == {m \in Nat : \E u : FollowsBy(u, p, m)}
<1>1. 0 \in T
  <2>1. FollowsBy([i \in 0..0 |-> Table(<<>>)], p, 0)
    BY DEF FollowsBy
  <2>2. QED BY <2>1
<1>2. ASSUME NEW m \in Nat, m \in T PROVE m + 1 \in T
  <2>1. PICK u : FollowsBy(u, p, m)
    BY <1>2
  <2> DEFINE w == [i \in 0..m + 1 |-> IF i = m + 1 THEN Followed(u[m], p[m + 1]) ELSE u[i]]
  <2>2. \A i \in 0..m : w[i] = u[i]
    OBVIOUS
  <2>3. w[m + 1] = Followed(w[m + 1 - 1], p[m + 1])
    <3>1. m + 1 - 1 = m
      OBVIOUS
    <3>2. w[m + 1] = Followed(u[m], p[m + 1]) /\ w[m] = u[m]
      OBVIOUS
    <3> HIDE DEF w
    <3>3. QED BY <3>1, <3>2
  <2>4. w[0] = Table(<<>>)
    BY <2>1 DEF FollowsBy
  <2>5. \A i \in 1..m : w[i] = Followed(w[i - 1], p[i])
    <3>1. \A i \in 1..m : u[i] = Followed(u[i - 1], p[i])
      BY <2>1 DEF FollowsBy
    <3>2. \A i \in 1..m : i \in 0..m /\ i - 1 \in 0..m
      OBVIOUS
    <3> HIDE DEF w
    <3>3. QED BY <2>2, <3>1, <3>2
  <2>6. w = [i \in 0..m + 1 |-> w[i]]
    OBVIOUS
  <2>7. FollowsBy(w, p, m + 1)
    <3>1. \A i \in 0..m + 1 : i = 0 \/ i = m + 1 \/ i \in 1..m
      OBVIOUS
    <3>2. m + 1 # 0
      OBVIOUS
    <3> HIDE DEF w
    <3>3. \A i \in 0..m + 1 : w[i] = IF i = 0 THEN Table(<<>>) ELSE Followed(w[i - 1], p[i])
      BY <2>3, <2>4, <2>5, <3>1, <3>2
    <3>4. QED BY <2>6, <3>3 DEF FollowsBy
  <2> HIDE DEF w
  <2>8. QED BY <2>7
<1>3. n \in T
  <2> HIDE DEF T
  <2>1. QED BY <1>1, <1>2, Induction
<1>4. QED BY <1>3

\* What Follow does step by step.
LEMMA FollowIs ==
  ASSUME NEW p, Len(p) \in Nat
  PROVE  \E u : /\ u[0] = Table(<<>>) /\ Follow(p) = u[Len(p)]
                /\ \A i \in 1..Len(p) : u[i] = Followed(u[i - 1], p[i])
<1> DEFINE at == CHOOSE u : u = [i \in 0..Len(p) |-> IF i = 0 THEN Table(<<>>) ELSE Followed(u[i - 1], p[i])]
<1>1. Follow(p) = at[Len(p)]
  BY DEF Follow
<1>2. FollowsBy(at, p, Len(p))
  <2>1. \E u : FollowsBy(u, p, Len(p))
    BY FollowsByIs
  <2>2. QED BY <2>1 DEF FollowsBy
<1> HIDE DEF at
<1>3. at[0] = Table(<<>>)
  BY <1>2 DEF FollowsBy
<1>4. \A i \in 1..Len(p) : at[i] = Followed(at[i - 1], p[i])
  BY <1>2 DEF FollowsBy
<1>5. QED BY <1>1, <1>3, <1>4

LEMMA FollowStep ==
  ASSUME NEW p, IsStack(p), NEW e
  PROVE  Follow(<<>>) = Table(<<>>) /\ Follow(Append(p, e)) = Followed(Follow(p), e)
<1>1. Follow(<<>>) = Table(<<>>)
  <2>1. Len(<<>>) = 0
    BY EmptyStack
  <2>2. QED BY <2>1, FollowIs
<1> DEFINE r == Append(p, e)
           n == Len(p)
<1>2. /\ Len(r) = n + 1 /\ r[n + 1] = e /\ n \in Nat
      /\ \A i \in 1..n : r[i] = p[i]
  BY Pushed, StackLen
<1> HIDE DEF r, n
<1>3. PICK u : u[0] = Table(<<>>) /\ Follow(p) = u[n] /\ \A i \in 1..n : u[i] = Followed(u[i - 1], p[i])
  BY <1>2, FollowIs DEF n
<1>4. PICK w : /\ w[0] = Table(<<>>) /\ Follow(r) = w[n + 1]
               /\ \A i \in 1..n + 1 : w[i] = Followed(w[i - 1], r[i])
  <2>1. Len(r) \in Nat
    BY <1>2
  <2>2. \E w : /\ w[0] = Table(<<>>) /\ Follow(r) = w[Len(r)]
               /\ \A i \in 1..Len(r) : w[i] = Followed(w[i - 1], r[i])
    BY <2>1, FollowIs
  <2>3. QED BY <1>2, <2>2
<1> DEFINE T == {i \in Nat : i <= n => w[i] = u[i]}
<1>5. 0 \in T
  BY <1>3, <1>4
<1>6. ASSUME NEW i \in Nat, i \in T PROVE i + 1 \in T
  <2>1. SUFFICES ASSUME i + 1 <= n PROVE w[i + 1] = u[i + 1]
    OBVIOUS
  <2>2. i + 1 \in 1..n /\ i + 1 \in 1..n + 1 /\ i + 1 - 1 = i /\ i <= n
    BY <1>2, <2>1
  <2>3. w[i] = u[i]
    BY <1>6, <2>2
  <2>4. w[i + 1] = Followed(w[i], r[i + 1]) /\ u[i + 1] = Followed(u[i], p[i + 1])
    BY <1>3, <1>4, <2>2
  <2>5. QED BY <1>2, <2>2, <2>3, <2>4
<1>7. n \in T
  <2> HIDE DEF T
  <2>1. QED BY <1>2, <1>5, <1>6, Induction
<1>8. w[n] = u[n]
  BY <1>2, <1>7
<1>9. w[n + 1] = Followed(w[n], e)
  <2>1. n + 1 \in 1..n + 1 /\ n + 1 - 1 = n
    BY <1>2
  <2>2. QED BY <1>2, <1>4, <2>1
<1>10. QED BY <1>1, <1>3, <1>4, <1>8, <1>9 DEF r

\* The path of a table leads to the one that its constructor has made.
LEMMA PathsLead ==
  ASSUME given \in Graphs, NEW W, NEW O, NEW D, NEW X, NEW p,
         Placed(W, O, D, X), Loaded(W, O, D, p, heap), \A o \in DOMAIN D : Plain(o)
  PROVE  \A o \in DOMAIN D : Follow(D[o]) = Table(W[o])
<1> DEFINE T == {n \in Nat : \A o \in DOMAIN D : Len(W[o]) = n => Follow(D[o]) = Table(W[o])}
<1>1. /\ \A o \in DOMAIN D : IsStack(W[o]) /\ IsStack(D[o]) /\ Len(W[o]) \in Nat
                             /\ o \in Originals /\ IsOrder(o, O[o])
      /\ DOMAIN W = DOMAIN D
  <2>1. \A s : IsStack(s) => Len(s) \in Nat
    BY StackLen
  <2>2. QED BY <2>1 DEF Placed
<1>2. ASSUME NEW o \in DOMAIN D, o # Table(1)
      PROVE  \E u \in DOMAIN D : /\ Len(W[o]) = Len(W[u]) + 1
                                 /\ Follow(D[u]) = Table(W[u]) => Follow(D[o]) = Table(W[o])
  <2>1. PICK u \in DOMAIN D : \E i \in 0..Len(O[u]) :
          Target(O, u, i) = o /\ W[o] = Append(W[u], i) /\ D[o] = PathTo(O, D, u, i)
    BY <1>2 DEF Placed
  <2>2. PICK i \in 0..Len(O[u]) :
          Target(O, u, i) = o /\ W[o] = Append(W[u], i) /\ D[o] = PathTo(O, D, u, i)
    BY <2>1
  <2>3. Len(W[o]) = Len(W[u]) + 1
    <3> DEFINE s == W[u]
    <3>1. IsStack(s) /\ W[o] = Append(s, i)
      BY <1>1, <2>2
    <3> HIDE DEF s
    <3>2. Len(W[o]) = Len(s) + 1
      BY <3>1, Pushed
    <3>3. QED BY <3>2 DEF s
  <2>4. IsTable(o)
    BY <1>1, Graph
  <2>5. Has(W, O, heap, u, i)
    <3>1. Tree(W, O, u, i)
      BY <1>1, <2>2 DEF Tree
    <3>2. QED BY <3>1 DEF Loaded
  <2>6. Mapped(W, Target(O, u, i)) = Table(W[o])
    BY <2>2, <2>4 DEF Mapped
  <2> DEFINE k == Label(O, u, i)
  <2>7. Followed(Table(W[u]), k) = Table(W[o])
    <3>1. IsTable(Table(W[u])) /\ Table(W[u])[2] = W[u]
      BY DEF IsTable, Table
    <3>2. CASE i = 0
      <4>1. k = Meta /\ heap[W[u]].meta = Table(W[o])
        BY <2>5, <2>6, <3>2 DEF Label, Has
      <4> HIDE DEF k
      <4>2. QED BY <3>1, <4>1 DEF Followed
    <3>3. CASE i # 0
      <4>1. k = O[u][i] /\ k \in DOMAIN heap[W[u]].fields /\ heap[W[u]].fields[k] = Table(W[o])
        BY <2>5, <2>6, <3>3 DEF Label, Has
      <4>2. k # Meta /\ Read(k) = k
        <5>1. i \in 1..Len(O[u]) /\ u \in Originals /\ IsOrder(u, O[u])
          BY <1>1, <3>3, OrderIs
        <5>2. k # Meta /\ k \in DOMAIN Fields(u)
          BY <4>1, <5>1, OrderIs
        <5> HIDE DEF k
        <5>3. QED BY <5>2 DEF Plain
      <4> HIDE DEF k
      <4>3. QED BY <3>1, <4>1, <4>2 DEF Followed
    <3>4. QED BY <3>2, <3>3
  <2>8. Follow(D[o]) = Followed(Follow(D[u]), k)
    <3> DEFINE s == D[u]
    <3>1. IsStack(s) /\ D[o] = Append(s, k)
      BY <1>1, <2>2 DEF PathTo
    <3> HIDE DEF s, k
    <3>2. Follow(D[o]) = Followed(Follow(s), k)
      BY <3>1, FollowStep
    <3>3. QED BY <3>2 DEF s
  <2>9. QED BY <2>3, <2>7, <2>8
<1>3. Table(1) \in DOMAIN D => Len(W[Table(1)]) = 0 /\ Follow(D[Table(1)]) = Table(W[Table(1)])
  <2>1. Follow(<<>>) = Table(<<>>) /\ Len(<<>>) = 0
    BY EmptyStack, FollowStep
  <2>2. QED BY <2>1 DEF Placed
<1>4. 0 \in T
  <2>1. SUFFICES ASSUME NEW o \in DOMAIN D, Len(W[o]) = 0 PROVE Follow(D[o]) = Table(W[o])
    OBVIOUS
  <2>2. \A n \in Nat : n + 1 # 0
    OBVIOUS
  <2>3. o = Table(1)
    BY <1>1, <1>2, <2>1, <2>2
  <2>4. QED BY <1>3, <2>3
<1>5. ASSUME NEW n \in Nat, n \in T PROVE n + 1 \in T
  <2>1. SUFFICES ASSUME NEW o \in DOMAIN D, Len(W[o]) = n + 1 PROVE Follow(D[o]) = Table(W[o])
    OBVIOUS
  <2>2. o # Table(1)
    BY <1>3, <2>1
  <2>3. PICK u \in DOMAIN D : /\ Len(W[o]) = Len(W[u]) + 1
                              /\ Follow(D[u]) = Table(W[u]) => Follow(D[o]) = Table(W[o])
    BY <1>2, <2>2
  <2>4. Len(W[u]) = n
    BY <1>1, <2>1, <2>3
  <2>5. QED BY <1>5, <2>3, <2>4
<1>6. Nat \subseteq T
  <2> HIDE DEF T
  <2>1. QED BY <1>4, <1>5, Induction
<1>7. QED BY <1>1, <1>6

LEMMA FrontLast ==
  ASSUME NEW s, IsStack(s), NEW e
  PROVE  Front(Append(s, e)) = s /\ Last(Append(s, e)) = e
<1> DEFINE r == Append(s, e)
<1>1. /\ IsStack(r) /\ Len(r) = Len(s) + 1 /\ r # <<>> /\ r[Len(s) + 1] = e /\ Len(s) \in Nat
      /\ \A i \in 1..Len(s) : r[i] = s[i]
  BY Pushed, StackLen
<1> HIDE DEF r
<1>2. Last(r) = e
  BY <1>1 DEF Last
<1> DEFINE q == SubSeq(r, 1, Len(r) - 1)
<1>3. IsStack(q) /\ Len(q) = Len(r) - 1 /\ \A i \in 1..Len(r) - 1 : q[i] = r[i]
  BY <1>1, PoppedOff
<1>4. q = Front(r)
  BY DEF Front
<1> HIDE DEF q
<1>5. Len(q) = Len(s) /\ \A i \in 1..Len(s) : q[i] = s[i]
  BY <1>1, <1>3
<1>6. s = [i \in 1..Len(s) |-> s[i]]
  BY LenProperties DEF IsStack
<1>7. q = [i \in 1..Len(q) |-> q[i]]
  BY <1>3, LenProperties DEF IsStack
<1>8. [i \in 1..Len(q) |-> q[i]] = [i \in 1..Len(s) |-> s[i]]
  BY <1>5
<1>9. q = s
  BY ONLY <1>6, <1>7, <1>8
<1>10. QED BY <1>2, <1>4, <1>9 DEF r

\* The item that an assignment is for.
Assigns(W, O, D, e, u, i) ==
  /\ u \in DOMAIN D /\ i \in 0..Len(O[u])
  /\ Target(O, u, i) \in DOMAIN D /\ ~Tree(W, O, u, i)
  /\ e = <<PathTo(O, D, u, i), D[Target(O, u, i)]>>

LEMMA AssignmentIs ==
  ASSUME given \in Graphs, NEW W, NEW O, NEW D, NEW X, NEW v, Running(W, O, D, X, out, heap, v),
         out # <<>>, \A o \in DOMAIN D : Plain(o)
  PROVE  \E u, i : /\ Assigns(W, O, D, out[1], u, i) /\ Head(out) = out[1]
                   /\ Follow(Front(out[1][1])) = Table(W[u])
                   /\ Last(out[1][1]) = Label(O, u, i)
                   /\ Follow(out[1][2]) = Table(W[Target(O, u, i)])
<1>1. /\ Placed(W, O, D, X) /\ Assignments(W, O, D, out) /\ Loaded(W, O, D, out, heap)
  BY DEF Running
<1>2. IsStack(out) /\ 1 \in 1..Len(out) /\ Head(out) = out[1]
  BY <1>1, TailOff DEF Assignments
<1> DEFINE e == out[1]
<1>3. \E u \in DOMAIN D : \E i \in 0..Len(O[u]) :
        /\ Target(O, u, i) \in DOMAIN D /\ ~Tree(W, O, u, i)
        /\ e = <<PathTo(O, D, u, i), D[Target(O, u, i)]>>
  BY <1>1, <1>2 DEF Assignments
<1>4. PICK u, i : Assigns(W, O, D, e, u, i)
  <2> HIDE DEF e
  <2>1. QED BY <1>3 DEF Assigns
<1>5. \A o \in DOMAIN D : Follow(D[o]) = Table(W[o])
  BY <1>1, PathsLead
<1> DEFINE s == D[u]
           k == Label(O, u, i)
<1>6. /\ u \in DOMAIN D /\ Target(O, u, i) \in DOMAIN D
      /\ e[1] = Append(s, k) /\ e[2] = D[Target(O, u, i)] /\ IsStack(s)
  BY <1>1, <1>4 DEF Assigns, PathTo, Placed
<1>7. Front(e[1]) = s /\ Last(e[1]) = k
  <2> HIDE DEF s, k, e
  <2>1. QED BY <1>6, FrontLast
<1>8. QED BY <1>2, <1>4, <1>5, <1>6, <1>7

\* An assignment gives the table its item.
AssignedTo(W, O, u, i, h, h2) ==
  LET k == Label(O, u, i)
      w == Table(W[Target(O, u, i)])
  IN h2 = IF k = Meta THEN [h EXCEPT ![W[u]].meta = w]
          ELSE [h EXCEPT ![W[u]].fields = Put(@, k, w)]

LEMMA AssignedIs ==
  ASSUME given \in Graphs, NEW W, NEW O, NEW D, NEW X, NEW p, NEW h, NEW h2, NEW u, NEW i, NEW e,
         Placed(W, O, D, X), Loaded(W, O, D, p, h), Assigns(W, O, D, e, u, i),
         AssignedTo(W, O, u, i, h, h2)
  PROVE  /\ DOMAIN h2 = DOMAIN h
         /\ \A o \in DOMAIN D : o # u => h2[W[o]] = h[W[o]]
         /\ h2[W[u]] = [fields |-> h2[W[u]].fields, meta |-> h2[W[u]].meta]
         /\ DOMAIN h2[W[u]].fields \subseteq DOMAIN Fields(u)
         /\ Has(W, O, h2, u, i)
         /\ \A j \in 0..Len(O[u]) : Has(W, O, h, u, j) => Has(W, O, h2, u, j)
<1> DEFINE k == Label(O, u, i)
           t == Target(O, u, i)
           w == Table(W[t])
           r == W[u]
<1>1. /\ u \in DOMAIN D /\ i \in 0..Len(O[u]) /\ t \in DOMAIN D /\ r \in DOMAIN h
      /\ \A o \in DOMAIN D : o # u => W[o] # r
  BY DEF Assigns, Loaded, Placed
<1>2. /\ h[r] = [fields |-> h[r].fields, meta |-> h[r].meta]
      /\ DOMAIN h[r].fields \subseteq DOMAIN Fields(u)
  BY <1>1 DEF Loaded
<1>3. u \in Originals /\ IsOrder(u, O[u]) /\ IsTable(t)
  BY <1>1, Graph DEF Placed
<1>4. Mapped(W, t) = w
  BY <1>3 DEF Mapped
<1>5. /\ Label(O, u, 0) = Meta /\ \A j \in 1..Len(O[u]) : Label(O, u, j) = O[u][j] /\ O[u][j] # Meta /\ j # 0
      /\ \A j \in 1..Len(O[u]) : O[u][j] \in DOMAIN Fields(u)
      /\ \A j, m \in 0..Len(O[u]) : Label(O, u, j) = Label(O, u, m) => j = m
      /\ Len(O[u]) \in Nat
  BY <1>3, OrderIs
<1>6. \A j \in 0..Len(O[u]) : j = 0 \/ j \in 1..Len(O[u])
  BY <1>5
<1>7. \A o \in DOMAIN D : W[o] \in DOMAIN h
  BY DEF Loaded
<1>8. CASE i = 0
  <2>1. h2 = [h EXCEPT ![r].meta = w]
    BY <1>5, <1>8 DEF AssignedTo
  <2>2. /\ DOMAIN h2 = DOMAIN h /\ h2[r] = [h[r] EXCEPT !.meta = w]
        /\ \A o \in DOMAIN D : o # u => h2[W[o]] = h[W[o]]
    BY <1>1, <1>7, <2>1
  <2> DEFINE c == h[r]
             c2 == h2[r]
  <2>3. c2.fields = c.fields /\ c2.meta = w /\ c2 = [fields |-> c2.fields, meta |-> c2.meta]
    <3>1. c = [fields |-> c.fields, meta |-> c.meta] /\ c2 = [c EXCEPT !.meta = w]
      BY <1>2, <2>2
    <3> HIDE DEF c, c2, w
    <3>2. QED BY <3>1
  <2>4. Has(W, O, h2, u, i)
    BY <1>4, <1>8, <2>3 DEF Has
  <2>5. \A j \in 0..Len(O[u]) : Has(W, O, h, u, j) => Has(W, O, h2, u, j)
    BY <1>6, <1>8, <2>3, <2>4 DEF Has
  <2>6. QED BY <1>2, <2>2, <2>3, <2>4, <2>5
<1>9. CASE i # 0
  <2>1. i \in 1..Len(O[u]) /\ k = O[u][i] /\ k # Meta
    BY <1>1, <1>5, <1>6, <1>9
  <2>2. h2 = [h EXCEPT ![r].fields = Put(@, k, w)]
    BY <2>1 DEF AssignedTo
  <2>3. /\ DOMAIN h2 = DOMAIN h /\ h2[r] = [h[r] EXCEPT !.fields = Put(@, k, w)]
        /\ \A o \in DOMAIN D : o # u => h2[W[o]] = h[W[o]]
    BY <1>1, <1>7, <2>2
  <2> DEFINE c == h[r]
             c2 == h2[r]
  <2>4. c2.fields = Put(c.fields, k, w) /\ c2.meta = c.meta /\ c2 = [fields |-> c2.fields, meta |-> c2.meta]
    <3>1. c = [fields |-> c.fields, meta |-> c.meta] /\ c2 = [c EXCEPT !.fields = Put(@, k, w)]
      BY <1>2, <2>3
    <3> HIDE DEF c, c2, w, k
    <3>2. QED BY <3>1
  <2>5. /\ DOMAIN c2.fields = DOMAIN c.fields \cup {k} /\ c2.fields[k] = w
        /\ \A j \in DOMAIN c.fields : j # k => c2.fields[j] = c.fields[j]
    <3> DEFINE g == c.fields
               g2 == c2.fields
    <3>1. g2 = Put(g, k, w)
      BY <2>4
    <3> HIDE DEF g, g2, k, w
    <3>2. DOMAIN g2 = DOMAIN g \cup {k} /\ g2[k] = w /\ \A j \in DOMAIN g : j # k => g2[j] = g[j]
      BY <3>1 DEF Put
    <3>3. QED BY <3>2 DEF g, g2
  <2>6. Has(W, O, h2, u, i)
    BY <1>4, <1>9, <2>1, <2>5 DEF Has
  <2>7. ASSUME NEW j \in 0..Len(O[u]), Has(W, O, h, u, j) PROVE Has(W, O, h2, u, j)
    <3>1. CASE j = 0
      BY <2>4, <2>7, <3>1 DEF Has
    <3>2. CASE j # 0
      <4>1. O[u][j] \in DOMAIN c.fields /\ c.fields[O[u][j]] = Mapped(W, Target(O, u, j))
        BY <2>7, <3>2 DEF Has
      <4>2. j = i \/ O[u][j] # k
        BY <1>1, <1>5, <1>6, <2>1, <2>7, <3>2
      <4>3. QED BY <2>5, <2>6, <3>2, <4>1, <4>2 DEF Has
    <3>3. QED BY <3>1, <3>2
  <2>8. DOMAIN c2.fields \subseteq DOMAIN Fields(u)
    BY <1>2, <1>5, <2>1, <2>5
  <2>9. QED BY <2>3, <2>4, <2>6, <2>7, <2>8
<1>10. QED BY <1>8, <1>9

LEMMA AssignmentDone ==
  ASSUME given \in Graphs, NEW W, NEW O, NEW D, NEW X, NEW p, NEW h, NEW v, NEW h2, NEW u, NEW i,
         Running(W, O, D, X, p, h, v), p # <<>>, Assigns(W, O, D, p[1], u, i),
         AssignedTo(W, O, u, i, h, h2), \A a, b \in DOMAIN D : D[a] = D[b] => a = b
  PROVE  Running(W, O, D, X, Tail(p), h2, v)
<1> DEFINE q == Tail(p)
<1>1. /\ Placed(W, O, D, X) /\ Assignments(W, O, D, p) /\ Loaded(W, O, D, p, h)
      /\ Table(1) \in DOMAIN D /\ v = Table(<<>>)
  BY DEF Running
<1>2. /\ IsStack(q) /\ Len(q) = Len(p) - 1 /\ Len(p) \in Nat
      /\ \A x \in 1..Len(p) - 1 : q[x] = p[x + 1]
  BY <1>1, TailOff DEF Assignments
<1> HIDE DEF q
<1>3. \A x \in 1..Len(q) : x + 1 \in 1..Len(p) /\ q[x] = p[x + 1]
  BY <1>2
<1>4. Assignments(W, O, D, q)
  <2>1. ASSUME NEW x \in 1..Len(q)
        PROVE  \E a \in DOMAIN D : \E j \in 0..Len(O[a]) :
                 /\ Target(O, a, j) \in DOMAIN D /\ ~Tree(W, O, a, j)
                 /\ q[x] = <<PathTo(O, D, a, j), D[Target(O, a, j)]>>
    BY <1>1, <1>3 DEF Assignments
  <2>2. QED BY <1>2, <2>1 DEF Assignments
<1>5. /\ DOMAIN h2 = DOMAIN h
      /\ \A o \in DOMAIN D : o # u => h2[W[o]] = h[W[o]]
      /\ h2[W[u]] = [fields |-> h2[W[u]].fields, meta |-> h2[W[u]].meta]
      /\ DOMAIN h2[W[u]].fields \subseteq DOMAIN Fields(u)
      /\ Has(W, O, h2, u, i)
      /\ \A j \in 0..Len(O[u]) : Has(W, O, h, u, j) => Has(W, O, h2, u, j)
  <2> DEFINE e == p[1]
  <2>1. Assigns(W, O, D, e, u, i)
    OBVIOUS
  <2> HIDE DEF e
  <2>2. QED BY <1>1, <2>1, AssignedIs
<1>6. ASSUME NEW o \in DOMAIN D, NEW j \in 0..Len(O[o]), Has(W, O, h, o, j) PROVE Has(W, O, h2, o, j)
  <2>1. CASE o = u
    BY <1>5, <1>6, <2>1
  <2>2. CASE o # u
    <3>1. h2[W[o]] = h[W[o]]
      BY <1>5, <2>2
    <3>2. QED BY <1>6, <3>1 DEF Has
  <2>3. QED BY <2>1, <2>2
<1>7. ASSUME NEW o \in DOMAIN D, NEW j \in 0..Len(O[o]), Assigned(p, O, D, o, j)
      PROVE  Has(W, O, h2, o, j) \/ Assigned(q, O, D, o, j)
  <2>1. PICK x \in 1..Len(p) : p[x] = <<PathTo(O, D, o, j), D[Target(O, o, j)]>>
    BY <1>7 DEF Assigned
  <2>2. CASE x = 1
    <3>1. PathTo(O, D, o, j) = PathTo(O, D, u, i)
      BY <2>1, <2>2 DEF Assigns
    <3>2. u \in DOMAIN D /\ i \in 0..Len(O[u]) /\ IsStack(D[o]) /\ IsStack(D[u])
      BY <1>1 DEF Assigns, Placed
    <3> DEFINE s == D[o]
               t == D[u]
               k == Label(O, o, j)
               m == Label(O, u, i)
    <3>3. s = t /\ k = m
      <4>1. IsStack(s) /\ IsStack(t) /\ Append(s, k) = Append(t, m)
        BY <3>1, <3>2 DEF PathTo
      <4> HIDE DEF s, t, k, m
      <4>2. QED BY <4>1, AppendsDiffer
    <3>4. o = u
      BY <3>2, <3>3
    <3>5. u \in Originals /\ IsOrder(u, O[u])
      BY <1>1, <3>2 DEF Placed
    <3>6. j = i
      BY <3>2, <3>3, <3>4, <3>5, OrderIs
    <3>7. QED BY <1>5, <3>4, <3>6
  <2>3. CASE x # 1
    <3>1. x - 1 \in 1..Len(q) /\ x - 1 \in 1..Len(p) - 1 /\ x - 1 + 1 = x
      BY <1>2, <2>3
    <3>2. q[x - 1] = p[x]
      BY <1>2, <3>1
    <3>3. QED BY <2>1, <3>1, <3>2 DEF Assigned
  <2>4. QED BY <2>2, <2>3
<1>8. Loaded(W, O, D, q, h2)
  <2>1. DOMAIN h2 = {W[o] : o \in DOMAIN D}
    BY <1>1, <1>5 DEF Loaded
  <2>2. ASSUME NEW o \in DOMAIN D
        PROVE  /\ h2[W[o]] = [fields |-> h2[W[o]].fields, meta |-> h2[W[o]].meta]
               /\ DOMAIN h2[W[o]].fields \subseteq DOMAIN Fields(o)
    <3>1. CASE o = u
      BY <1>5, <3>1
    <3>2. CASE o # u
      <4>1. h2[W[o]] = h[W[o]]
        BY <1>5, <3>2
      <4>2. QED BY <1>1, <4>1 DEF Loaded
    <3>3. QED BY <3>1, <3>2
  <2>3. ASSUME NEW o \in DOMAIN D, NEW j \in 0..Len(O[o])
        PROVE  /\ IsTable(Target(O, o, j)) => Target(O, o, j) \in DOMAIN D
               /\ Has(W, O, h2, o, j) \/ Assigned(q, O, D, o, j)
               /\ ~IsTable(Target(O, o, j)) \/ Tree(W, O, o, j) => Has(W, O, h2, o, j)
    <3>1. /\ IsTable(Target(O, o, j)) => Target(O, o, j) \in DOMAIN D
          /\ Has(W, O, h, o, j) \/ Assigned(p, O, D, o, j)
          /\ ~IsTable(Target(O, o, j)) \/ Tree(W, O, o, j) => Has(W, O, h, o, j)
      BY <1>1 DEF Loaded
    <3>2. QED BY <1>6, <1>7, <3>1
  <2>4. QED BY <2>1, <2>2, <2>3 DEF Loaded
<1>9. QED BY <1>1, <1>4, <1>8 DEF Running, q

\* No two tables have the same path.
LEMMA PathsDiffer ==
  ASSUME given \in Graphs, NEW W, NEW O, NEW D, NEW X, NEW p,
         Placed(W, O, D, X), Loaded(W, O, D, p, heap), \A o \in DOMAIN D : Plain(o)
  PROVE  \A a, b \in DOMAIN D : D[a] = D[b] => a = b
<1>1. \A o \in DOMAIN D : Follow(D[o]) = Table(W[o])
  BY PathsLead
<1>2. \A a, b \in DOMAIN D : D[a] = D[b] => W[a] = W[b]
  <2>1. \A a, b : Table(a) = Table(b) => a = b
    BY DEF Table
  <2>2. QED BY <1>1, <2>1
<1>3. QED BY <1>2 DEF Placed

LEMMA OrderOf ==
  ASSUME given \in Graphs, NEW o \in Originals, NEW ks \in Keys(Given(o))
  PROVE  IsOrder(o, ks)
<1> DEFINE S == DOMAIN Fields(o)
           n == Cardinality(S)
<1>1. IsFiniteSet(S) /\ n \in Nat
  BY Graph, FS_CardinalityType
<1>2. ks \in [1..n -> S] /\ \A i, j \in 1..n : i # j => ks[i] # ks[j]
  BY DEF Keys, SetToSeqs, Fields
<1> HIDE DEF S
<1>3. ks \in Injection(1..n, S)
  BY <1>2 DEF Injection, IsInjective
<1>4. Cardinality(1..n) = n
  BY <1>1, FS_Interval
<1>5. ks \in Surjection(1..n, S)
  BY <1>1, <1>3, <1>4, FS_Injection
<1>6. IsStack(ks) /\ Len(ks) = n
  <2>1. ks \in Seq(S)
    BY <1>1, <1>2, SeqDef
  <2>2. Len(ks) = n
    BY <1>1, <1>2, <2>1, LenProperties
  <2>3. QED BY <2>1, <2>2, SeqIsStack
<1>7. {ks[i] : i \in 1..n} = S
  BY <1>2, <1>5 DEF Surjection
<1>8. QED BY <1>2, <1>6, <1>7 DEF IsOrder, S

\* What is said of the graph stays, which no step changes.
LEMMA ItemsStay ==
  ASSUME given' = given, NEW W, NEW O, NEW D, NEW p, NEW o, NEW i
  PROVE  /\ Target(O, o, i)' = Target(O, o, i) /\ (Tree(W, O, o, i)' <=> Tree(W, O, o, i))
         /\ Sign(W, O, o, i)' = Sign(W, O, o, i) /\ (Assigned(p, O, D, o, i)' <=> Assigned(p, O, D, o, i))
         /\ Settled(W, O, D, p, o, i)' <=> Settled(W, O, D, p, o, i)
<1>1. Target(O, o, i)' = Target(O, o, i)
  BY DEF Target, Fields, Given
<1>2. Tree(W, O, o, i)' <=> Tree(W, O, o, i)
  BY <1>1 DEF Tree
<1>3. Sign(W, O, o, i)' = Sign(W, O, o, i)
  BY <1>1, <1>2 DEF Sign
<1>4. Assigned(p, O, D, o, i)' <=> Assigned(p, O, D, o, i)
  BY <1>1 DEF Assigned, PathTo, Label
<1>5. Settled(W, O, D, p, o, i)' <=> Settled(W, O, D, p, o, i)
  BY <1>1, <1>2, <1>4 DEF Settled
<1>6. QED BY <1>1, <1>2, <1>3, <1>4, <1>5

LEMMA ConstructorsStay ==
  ASSUME given' = given, NEW W, NEW O, NEW D, NEW p, NEW c, NEW o, NEW n, NEW X
  PROVE  /\ ItemsWritten(W, O, D, p, c, o, n)' <=> ItemsWritten(W, O, D, p, c, o, n)
         /\ MetaWritten(W, O, D, p, c, o)' <=> MetaWritten(W, O, D, p, c, o)
         /\ Whole(W, O, D, p, X, o)' <=> Whole(W, O, D, p, X, o)
<1>1. ASSUME NEW i
      PROVE  /\ Sign(W, O, o, i)' = Sign(W, O, o, i)
             /\ Settled(W, O, D, p, o, i)' <=> Settled(W, O, D, p, o, i)
  BY ItemsStay
<1>2. ASSUME NEW d, NEW m
      PROVE  /\ ItemsWritten(W, O, D, p, d, o, m)' <=> ItemsWritten(W, O, D, p, d, o, m)
             /\ MetaWritten(W, O, D, p, d, o)' <=> MetaWritten(W, O, D, p, d, o)
  BY <1>1 DEF ItemsWritten, MetaWritten, Tagged
<1>3. QED BY <1>2 DEF Whole

LEMMA PlacedStays ==
  ASSUME given' = given, NEW W, NEW O, NEW D, NEW p, NEW X
  PROVE  /\ Placed(W, O, D, X)' <=> Placed(W, O, D, X)
         /\ Assignments(W, O, D, p)' <=> Assignments(W, O, D, p)
<1>1. ASSUME NEW o, NEW i
      PROVE  /\ Target(O, o, i)' = Target(O, o, i) /\ (Tree(W, O, o, i)' <=> Tree(W, O, o, i))
             /\ PathTo(O, D, o, i)' = PathTo(O, D, o, i)
  BY ItemsStay DEF PathTo, Label
<1>2. ASSUME NEW o, NEW ks PROVE IsOrder(o, ks)' <=> IsOrder(o, ks)
  BY DEF IsOrder, Fields, Given
<1>3. Originals' = Originals
  BY DEF Originals
<1>4. Placed(W, O, D, X)' <=> Placed(W, O, D, X)
  BY <1>1, <1>2, <1>3 DEF Placed
<1>5. Assignments(W, O, D, p)' <=> Assignments(W, O, D, p)
  BY <1>1 DEF Assignments
<1>6. QED BY <1>4, <1>5

LEMMA FramesStay ==
  ASSUME given' = given, NEW W, NEW O, NEW D, NEW p, NEW X, NEW s, NEW mode
  PROVE  DumpFrames(W, O, D, p, X, s, mode) => DumpFrames(W, O, D, p, X, s, mode)'
<1>1. ASSUME NEW f, NEW m
      PROVE  DumpFrame(W, O, D, p, X, f, m)' <=> DumpFrame(W, O, D, p, X, f, m)
  BY ConstructorsStay DEF DumpFrame
<1>2. ASSUME NEW o PROVE Whole(W, O, D, p, X, o)' <=> Whole(W, O, D, p, X, o)
  BY ConstructorsStay
<1>3. ASSUME NEW o, NEW i PROVE Target(O, o, i)' = Target(O, o, i)
  BY ItemsStay
<1>4. QED BY <1>1, <1>2, <1>3 DEF DumpFrames, Coming, OnStack

LEMMA WritingAfter ==
  ASSUME given' = given, NEW W, NEW O,
         Writing(W, O, defined', text', out', stack', pc', value', path')
  PROVE  Writing(W, O, defined, text, out, stack, pc, value, path)'
<1>1. ASSUME NEW D, NEW X, NEW p, NEW s, NEW at, NEW v, NEW q, Writing(W, O, D, X, p, s, at, v, q)
      PROVE  Writing(W, O, D, X, p, s, at, v, q)'
  <2>1. ASSUME NEW o, NEW i
        PROVE  /\ Target(O, o, i)' = Target(O, o, i)
               /\ Sign(W, O, o, i)' = Sign(W, O, o, i) /\ PathTo(O, D, o, i)' = PathTo(O, D, o, i)
               /\ Settled(W, O, D, p, o, i)' <=> Settled(W, O, D, p, o, i)
    BY ItemsStay DEF PathTo, Label
  <2>2. Placed(W, O, D, X)' /\ Assignments(W, O, D, p)' /\ DumpFrames(W, O, D, p, X, s, Mode(at))'
    <3>1. Placed(W, O, D, X) /\ Assignments(W, O, D, p) /\ DumpFrames(W, O, D, p, X, s, Mode(at))
      BY <1>1 DEF Writing
    <3>2. QED BY <3>1, PlacedStays, FramesStay
  <2>3. QED BY <1>1, <2>1, <2>2 DEF Writing, Coming, Written, Free, Mode
<1>2. QED BY <1>1

LEMMA RunningAfter ==
  ASSUME given' = given, NEW W, NEW O, Running(W, O, defined', text', out', heap', value')
  PROVE  Running(W, O, defined, text, out, heap, value)'
<1>1. ASSUME NEW D, NEW X, NEW p, NEW h, NEW v, Running(W, O, D, X, p, h, v)
      PROVE  Running(W, O, D, X, p, h, v)'
  <2>1. ASSUME NEW o, NEW i
        PROVE  /\ Target(O, o, i)' = Target(O, o, i) /\ (Tree(W, O, o, i)' <=> Tree(W, O, o, i))
               /\ (Assigned(p, O, D, o, i)' <=> Assigned(p, O, D, o, i))
               /\ (Has(W, O, h, o, i)' <=> Has(W, O, h, o, i))
               /\ Fields(o)' = Fields(o)
    BY ItemsStay DEF Has, Mapped, Fields, Given
  <2>2. Placed(W, O, D, X)' /\ Assignments(W, O, D, p)'
    <3>1. Placed(W, O, D, X) /\ Assignments(W, O, D, p)
      BY <1>1 DEF Running
    <3>2. QED BY <3>1, PlacedStays
  <2>3. Loaded(W, O, D, p, h)'
    <3>1. Loaded(W, O, D, p, h)
      BY <1>1 DEF Running
    <3>2. QED BY <2>1, <3>1 DEF Loaded
  <2>4. QED BY <1>1, <2>2, <2>3 DEF Running
<1>2. QED BY <1>1

-----------------------------------------------------------------------------
(* table.dump, in any of its states *)

Shaped ==
  /\ pc = "raised" => Refused \/ NoRoom
  /\ Keyed => \E W, O :
       /\ pc \in {"call", "loop", "return", "load"} =>
            Writing(W, O, defined, text, out, stack, pc, value, path)
       /\ pc \in {"run", "done"} =>
            Running(W, O, defined, text, out, heap, value) /\ (pc = "done" => out = <<>>)

\* A table that is not plain is refused.
LEMMA KeyedIs ==
  ASSUME DOMAIN defined \subseteq Originals
  PROVE  /\ Keyed <=> \A o \in DOMAIN defined : Plain(o)
         /\ ~Keyed => Refused
<1>1. \A a : Given(Table(a)) = given[a]
  BY DEF Given, Table
<1>2. Keyed <=> \A o \in DOMAIN defined : Plain(o)
  BY <1>1 DEF Keyed, Visited, Originals, Fields, Plain
<1>3. QED BY <1>2 DEF Refused, Plain

\* The tables that were defined stay so.
LEMMA KeyedBefore ==
  ASSUME given' = given, DOMAIN defined \subseteq DOMAIN defined', Keyed'
  PROVE  Keyed
BY DEF Keyed, Visited

LEMMA RefusedAfter ==
  ASSUME given' = given, DOMAIN defined \subseteq DOMAIN defined', Refused
  PROVE  Refused'
BY DEF Refused, Fields, Given

\* It writes on.
LEMMA WritesOn ==
  ASSUME given' = given, pc' \in {"call", "loop", "return", "load"}, NEW W, NEW O,
         Writing(W, O, defined', text', out', stack', pc', value', path')
  PROVE  Shaped'
<1>1. Writing(W, O, defined, text, out, stack, pc, value, path)'
  BY WritingAfter
<1>2. QED BY <1>1 DEF Shaped

LEMMA RunsOn ==
  ASSUME given' = given, pc' \in {"run", "done"}, NEW W, NEW O,
         Running(W, O, defined', text', out', heap', value'), pc' = "done" => out' = <<>>
  PROVE  Shaped'
<1>1. Running(W, O, defined, text, out, heap, value)'
  BY RunningAfter
<1>2. QED BY <1>1 DEF Shaped

\* It raises, or a table is not plain.
LEMMA RaisesThen ==
  ASSUME given' = given, DOMAIN defined' = DOMAIN defined, DOMAIN defined \subseteq Originals,
         pc' = "raised", Refused
  PROVE  Shaped'
<1>1. Refused'
  BY RefusedAfter
<1>2. QED BY <1>1 DEF Shaped

LEMMA NoRoomThen ==
  ASSUME pc' = "raised", NoRoom' PROVE Shaped'
BY DEF Shaped

LEMMA NotKeyed ==
  ASSUME given' = given, DOMAIN defined \subseteq Originals, DOMAIN defined \subseteq DOMAIN defined',
         ~Keyed
  PROVE  Shaped'
<1>1. Refused' /\ ~Keyed'
  BY KeyedBefore, KeyedIs, RefusedAfter
<1>2. QED BY <1>1 DEF Shaped

\* The innermost frame is that of a table whose items are written.
LEMMA TopWrites ==
  ASSUME given \in Graphs, NEW W, NEW O, NEW at, NEW v, NEW q,
         Writing(W, O, defined, text, out, stack, at, v, q), stack # <<>>
  PROVE  /\ Top.table \in DOMAIN defined /\ Top.table \in Originals
         /\ Top.place = W[Top.table] /\ Top.path = defined[Top.table]
         /\ Coming(Top, text) = Item /\ Place = Append(Top.place, Coming(Top, text))
         /\ IsOrder(Top.table, O[Top.table]) /\ Coming(Top, text) \notin Written(Top, text)
         /\ Len(stack) \in 1..Len(stack)
<1>1. Placed(W, O, defined, text) /\ DumpFrames(W, O, defined, out, text, stack, Mode(at))
  BY DEF Writing
<1>2. Len(stack) \in 1..Len(stack) /\ DumpFrame(W, O, defined, out, text, Top, Mode(at))
  BY <1>1, TopFrame DEF Top
<1>3. /\ Top.table \in DOMAIN defined /\ Top.table \in Originals
      /\ Top.place = W[Top.table] /\ Top.path = defined[Top.table]
      /\ IsOrder(Top.table, O[Top.table]) /\ Coming(Top, text) \notin Written(Top, text)
  BY <1>1, <1>2, FrameIs
<1>4. Coming(Top, text) = Item /\ Place = Append(Top.place, Coming(Top, text))
  BY DEF Coming, Item, Place
<1>5. QED BY <1>2, <1>3, <1>4

LEMMA WritesAt ==
  ASSUME Shaped, Keyed, pc \in {"call", "loop", "return", "load"}
  PROVE  \E W, O : Writing(W, O, defined, text, out, stack, pc, value, path)
BY DEF Shaped

LEMMA ShapedCall == ASSUME given \in Graphs, DumpInv, Shaped, DumpCall PROVE Shaped'
<1>0. /\ pc = "call" /\ (IsTable(value) => value \in Originals) /\ given' = given
      /\ DOMAIN defined \subseteq Originals /\ NoneTwice(stack)
      /\ DOMAIN defined \subseteq DOMAIN defined'
  BY DEF DumpInv, Walks, NoneTwice, DumpCall, Dumping, Defined, Put
<1>1. CASE ~Keyed
  BY <1>0, <1>1, NotKeyed
<1>2. CASE Keyed
  <2>1. PICK W, O : Writing(W, O, defined, text, out, stack, "call", value, path)
    BY <1>0, <1>2, WritesAt
  <2>2. /\ Placed(W, O, defined, text) /\ Assignments(W, O, defined, out)
        /\ DumpFrames(W, O, defined, out, text, stack, "busy") /\ Free(text, stack, "call")
        /\ IF stack = <<>> THEN DOMAIN defined = {} /\ value = Table(1) /\ path = <<>>
           ELSE /\ value = Target(O, Top.table, Coming(Top, text))
                /\ path = PathTo(O, defined, Top.table, Coming(Top, text))
    BY <2>1 DEF Writing, Mode, Top
  <2>3. stack # <<>> =>
          /\ Top.table \in DOMAIN defined /\ Top.table \in Originals
          /\ Top.place = W[Top.table] /\ IsOrder(Top.table, O[Top.table])
          /\ Place = Append(Top.place, Coming(Top, text))
          /\ Coming(Top, text) \notin Written(Top, text)
          /\ Len(stack) \in 1..Len(stack)
    BY <2>1, TopWrites
  <2>4. stack # <<>> => Coming(Top, text) \in 0..Len(O[Top.table])
    <3>1. stack # <<>> => DumpFrame(W, O, defined, out, text, Top, "busy")
      BY <2>2, TopFrame DEF Top
    <3>2. QED BY <2>2, <3>1, ComingIs
  <2>5. CASE ~IsTable(value) /\ value[1] # "userdata" /\ Return(value)
             /\ UNCHANGED <<stack, defined, text, out>>
    <3>1. stack # <<>>
      BY <1>0, <2>2, <2>5, Graph
    <3> DEFINE u == Top.table
               i == Coming(Top, text)
    <3>2. Sign(W, O, u, i) = value /\ Settled(W, O, defined, out, u, i)
      <4>1. ~Tree(W, O, u, i)
        BY <2>2, <2>5, <3>1, Graph DEF Tree, Placed
      <4>2. QED BY <2>2, <2>5, <3>1, <4>1 DEF Sign, Settled
    <3>3. Len(out) <= Len(out)
      <4>1. Len(out) \in Nat
        BY <2>2, StackLen DEF Assignments
      <4>2. QED BY <4>1
    <3>4. Writing(W, O, defined, text, out, stack, "return", value, path')
      <4>1. /\ given \in Graphs /\ stack # <<>> /\ \A x \in 1..Len(out) : out[x] = out[x]
            /\ Assignments(W, O, defined, out) /\ Len(out) <= Len(out)
        BY <1>0, <2>2, <3>1, <3>3
      <4>2. /\ value = Sign(W, O, stack[Len(stack)].table, Coming(stack[Len(stack)], text))
            /\ Settled(W, O, defined, out, stack[Len(stack)].table,
                       Coming(stack[Len(stack)], text))
        BY <3>2 DEF Top
      <4>3. QED BY ONLY <2>1, <4>1, <4>2, CallReturns
    <3>5. QED BY <1>0, <2>5, <3>4, WritesOn DEF Return
  <2>6. CASE value[1] = "userdata" /\ Raise /\ UNCHANGED <<defined, text, out>>
    <3>1. value # Table(1) /\ value \notin Originals /\ value # Nil
      <4>1. ~IsTable(value)
        BY <2>6 DEF IsTable
      <4>2. value # Nil
        BY <2>6 DEF Nil
      <4>3. QED BY <4>1, <4>2, Graph
    <3>2. stack # <<>>
      BY <2>2, <3>1
    <3> DEFINE u == Top.table
               i == Coming(Top, text)
    <3>3. i # 0
      BY <2>2, <2>3, <3>1, <3>2, Graph DEF Target
    <3>4. i \in 1..Len(O[u]) /\ O[u][i] \in DOMAIN Fields(u) /\ value = Fields(u)[O[u][i]]
      <4>1. i \in 1..Len(O[u])
        BY <2>3, <2>4, <3>2, <3>3, OrderIs
      <4>2. QED BY <2>2, <2>3, <3>2, <4>1, OrderIs
    <3>5. Refused
      BY <2>3, <2>6, <3>2, <3>4 DEF Refused
    <3>6. QED BY <1>0, <2>6, <3>5, RaisesThen DEF Raise
  <2>7. CASE /\ value \in DOMAIN defined
             /\ out' = Append(out, <<path, defined[value]>>)
             /\ Return(Nil) /\ UNCHANGED <<stack, defined, text>>
    <3>1. stack # <<>> /\ IsTable(value)
      BY <1>0, <2>2, <2>7, Graph
    <3> DEFINE u == Top.table
               i == Coming(Top, text)
    <3>2. ~Tree(W, O, u, i)
      <4>1. SUFFICES ASSUME W[value] = Append(Top.place, i) PROVE FALSE
        BY <2>2, <2>3, <3>1 DEF Tree
      <4>2. W[value] \in DOMAIN text
        BY <2>2, <2>7 DEF Placed
      <4>3. i \in Written(Top, text) \/ Len(stack) < Len(stack)
        BY <2>2, <2>3, <3>1, <4>1, <4>2 DEF Free, Top
      <4>4. ~(Len(stack) < Len(stack))
        BY <2>3, <3>1
      <4>5. QED BY <2>3, <3>1, <4>3, <4>4
    <3> DEFINE e == <<path, defined[value]>>
               n == Len(out)
    <3>3. /\ IsStack(out') /\ Len(out') = n + 1 /\ out'[n + 1] = e /\ n \in Nat
          /\ \A x \in 1..n : out'[x] = out[x]
      <4>1. IsStack(out) /\ out' = Append(out, e)
        BY <2>2, <2>7 DEF Assignments
      <4> HIDE DEF e
      <4>2. QED BY <4>1, Pushed, StackLen
    <3>4. e = <<PathTo(O, defined, u, i), defined[Target(O, u, i)]>> /\ Target(O, u, i) \in DOMAIN defined
      BY <2>2, <2>7, <3>1
    <3>5. Sign(W, O, u, i) = Nil /\ Settled(W, O, defined, out', u, i)
      <4>1. Sign(W, O, u, i) = Nil
        BY <2>2, <3>1, <3>2 DEF Sign
      <4>2. n + 1 \in 1..Len(out') /\ Target(O, u, i) \in DOMAIN W
        BY <2>2, <3>3, <3>4 DEF Placed
      <4>3. Assigned(out', O, defined, u, i)
        BY <3>3, <3>4, <4>2 DEF Assigned
      <4>4. QED BY <4>1, <4>2, <4>3 DEF Settled
    <3>6. Assignments(W, O, defined, out')
      <4>1. ASSUME NEW x \in 1..Len(out')
            PROVE  \E a \in DOMAIN defined : \E j \in 0..Len(O[a]) :
                     /\ Target(O, a, j) \in DOMAIN defined /\ ~Tree(W, O, a, j)
                     /\ out'[x] = <<PathTo(O, defined, a, j), defined[Target(O, a, j)]>>
        <5>1. CASE x \in 1..n
          BY <2>2, <3>3, <5>1 DEF Assignments
        <5>2. CASE x = n + 1
          <6>1. u \in DOMAIN defined /\ i \in 0..Len(O[u])
            BY <2>3, <2>4, <3>1
          <6>2. out'[x] = e
            BY <3>3, <5>2
          <6> HIDE DEF u, i, e
          <6>3. QED BY <3>2, <3>4, <6>1, <6>2
        <5>3. QED BY <3>3, <5>1, <5>2
      <4>2. QED BY <3>3, <4>1 DEF Assignments
    <3>7. Len(out) <= Len(out') /\ \A x \in 1..Len(out) : out'[x] = out[x]
      BY <3>3
    <3> HIDE DEF e, n
    <3>8. Writing(W, O, defined, text, out', stack, "return", Nil, path')
      BY <2>1, <3>1, <3>5, <3>6, <3>7, CallReturns DEF Top
    <3>9. QED BY <1>0, <2>7, <3>8, WritesOn DEF Return
  <2>8. CASE /\ IsTable(value) /\ value \notin DOMAIN defined
             /\ defined' = Defined
             /\ text' = Put(text, Place, Constructor)
             /\ \E ks \in Keys(Given(value)) :
                  stack' = Append(stack, [table |-> value, path |-> path, place |-> Place,
                                          keys |-> ks, numidx |-> 1, key |-> Meta])
             /\ IF Given(value).meta = Nil THEN Return(Nil)
                ELSE Call(Given(value).meta, Append(path, Meta))
             /\ UNCHANGED out
    <3>1. PICK ks, f :
            /\ ks \in Keys(Given(value)) /\ stack' = Append(stack, f)
            /\ f = [table |-> value, path |-> path, place |-> Place,
                    keys |-> ks, numidx |-> 1, key |-> Meta]
      BY <2>8
    <3>2. IsOrder(value, ks) /\ value \in Originals
      BY <1>0, <2>8, <3>1, OrderOf
    <3>3. Place = IF stack = <<>> THEN <<>> ELSE Append(stack[Len(stack)].place, Coming(stack[Len(stack)], text))
      <4>1. stack = <<>> => Place = <<>>
        BY DEF Place
      <4>2. QED BY <2>3, <4>1 DEF Top
    <3> DEFINE W2 == Put(W, value, Place)
               O2 == Put(O, value, ks)
    <3>4. Entered(W, O, defined, text, stack, value, path, ks, Place, W2, O2, defined', text', f)
      BY <2>8, <3>1, <3>2, <3>3 DEF Entered, Defined
    <3> HIDE DEF W2, O2
    <3>5. \/ pc' = "return" /\ Given(value).meta = Nil /\ value' = Nil
          \/ pc' = "call" /\ value' = Given(value).meta /\ path' = Append(path, Meta)
      BY <2>8 DEF Return, Call
    <3>6. Writing(W2, O2, defined', text', out, stack', pc', value', path')
      <4> DEFINE pl == Place
                 D2 == defined'
                 X2 == text'
                 s2 == stack'
                 at2 == pc'
                 v2 == value'
                 q2 == path'
      <4>1. /\ Entered(W, O, defined, text, stack, value, path, ks, pl, W2, O2, D2, X2, f)
            /\ MetaNext(stack, value, path, f, s2, at2, v2, q2)
        BY <3>1, <3>4, <3>5 DEF MetaNext
      <4> HIDE DEF pl, D2, X2, s2, at2, v2, q2
      <4>2. Writing(W2, O2, D2, X2, out, s2, at2, v2, q2)
        BY <1>0, <2>1, <4>1, TableEntered
      <4>3. QED BY <4>2 DEF D2, X2, s2, at2, v2, q2
    <3>7. out' = out /\ pc' \in {"call", "return"}
      BY <2>8, <3>5
    <3>8. QED BY <1>0, <3>6, <3>7, WritesOn
  <2>9. CASE Len(stack) >= MaxCalls /\ Raise
    <3>1. pc' = "raised" /\ Len(stack') >= MaxCalls
      BY <2>9 DEF Raise
    <3>2. QED BY <3>1, NoRoomThen DEF NoRoom
  <2>10. QED BY <2>5, <2>6, <2>7, <2>8, <2>9 DEF DumpCall
<1>3. QED BY <1>1, <1>2

LEMMA ShapedLoop == ASSUME given \in Graphs, DumpInv, Shaped, DumpLoop PROVE Shaped'
<1> DEFINE k == Head(Top.keys)
<1>0. /\ pc = "loop" /\ stack # <<>> /\ given' = given
      /\ UNCHANGED <<defined, text, out>>
      /\ DOMAIN defined \subseteq Originals /\ NoneTwice(stack) /\ Walks(stack, DOMAIN defined)
  BY DEF DumpInv, Walks, NoneTwice, DumpLoop, Dumping
<1>1. CASE ~Keyed
  BY <1>0, <1>1, NotKeyed
<1>2. CASE Keyed
  <2>1. PICK W, O : Writing(W, O, defined, text, out, stack, "loop", value, path)
    BY <1>0, <1>2, WritesAt
  <2>2. Top.table \in DOMAIN defined /\ (Top.keys # <<>> => k \in DOMAIN Fields(Top.table) /\ ~IsTable(k))
    BY <1>0, <1>2, TopOfWalk, KeyedIs DEF Plain
  <2>3. ASSUME NEW f2, Top.keys # <<>>, stack' = WithTop(f2),
               \/ k = <<"number", Top.numidx>> /\ f2 = [Top EXCEPT !.keys = Tail(@), !.key = None, !.numidx = @ + 1]
               \/ f2 = [Top EXCEPT !.keys = Tail(@), !.key = k],
               Call(Given(Top.table).fields[k], Subpath(k))
        PROVE  Shaped'
    <3>1. value' = Fields(Top.table)[k] /\ path' = Append(Top.path, k) /\ pc' = "call"
      BY <2>2, <2>3 DEF Call, Subpath, KeyText, Fields
    <3>2. Replaces(stack', stack, f2)
      BY <2>3 DEF WithTop, Replaces
    <3>3. Writing(W, O, defined, text, out, stack', "call", value', path')
      <4> DEFINE f == Top
                 s2 == stack'
                 v2 == value'
                 q2 == path'
      <4>1. KeyTaken(stack, f, k, f2, s2, v2, q2)
        BY <2>3, <3>1, <3>2 DEF Top, KeyTaken
      <4> HIDE DEF f, s2, v2, q2, k
      <4>2. Writing(W, O, defined, text, out, s2, "call", v2, q2)
        BY <1>0, <2>1, <4>1, ItemCalled
      <4>3. QED BY <4>2 DEF s2, v2, q2
    <3>4. QED BY <1>0, <3>1, <3>3, WritesOn
  <2>4. CASE Top.keys = <<>> /\ Return(Inner) /\ stack' = Popped
    <3>1. Writing(W, O, defined, text, out, stack', "return", Inner, path')
      <4>1. stack[Len(stack)].keys = <<>> /\ stack' = SubSeq(stack, 1, Len(stack) - 1)
        BY <2>4 DEF Top, Popped
      <4>2. QED BY <1>0, <2>1, <4>1, TableLeft
    <3>2. QED BY <1>0, <2>4, <3>1, WritesOn DEF Return
  <2>5. CASE /\ Top.keys # <<>> /\ Positional(k)
             /\ stack' = WithTop([Top EXCEPT !.keys = Tail(@), !.key = None, !.numidx = @ + 1])
             /\ Call(Given(Top.table).fields[k], Subpath(k))
    <3> DEFINE f2 == [Top EXCEPT !.keys = Tail(@), !.key = None, !.numidx = @ + 1]
    <3>1. k = <<"number", Top.numidx>> /\ f2 = [Top EXCEPT !.keys = Tail(@), !.key = None, !.numidx = @ + 1]
      BY <2>5 DEF Positional
    <3>2. stack' = WithTop(f2)
      BY <2>5
    <3> HIDE DEF f2, k
    <3>3. QED BY <2>3, <2>5, <3>1, <3>2
  <2>6. CASE /\ Top.keys # <<>>
             /\ stack' = WithTop([Top EXCEPT !.keys = Tail(@), !.key = KeyText(k)])
             /\ Call(Given(Top.table).fields[k], Subpath(k))
    <3> DEFINE f2 == [Top EXCEPT !.keys = Tail(@), !.key = k]
    <3>1. KeyText(k) = k
      BY <2>2, <2>6 DEF KeyText
    <3>2. stack' = WithTop(f2) /\ f2 = [Top EXCEPT !.keys = Tail(@), !.key = k]
      BY <2>6, <3>1
    <3> HIDE DEF f2, k
    <3>3. QED BY <2>3, <2>6, <3>2
  <2>7. CASE Top.keys # <<>> /\ ~IsKey(k) /\ Raise
    <3>1. k[1] = "userdata" /\ k \in DOMAIN Fields(Top.table)
      BY <2>2, <2>7 DEF IsKey
    <3>2. Refused
      BY <2>2, <3>1 DEF Refused
    <3>3. QED BY <1>0, <2>7, <3>2, RaisesThen DEF Raise
  <2>8. QED BY <2>4, <2>5, <2>6, <2>7 DEF DumpLoop
<1>3. QED BY <1>1, <1>2

LEMMA ShapedReturn == ASSUME given \in Graphs, DumpInv, Shaped, DumpReturn PROVE Shaped'
<1>0. /\ pc = "return" /\ given' = given
      /\ UNCHANGED <<value, path, defined, out>>
      /\ DOMAIN defined \subseteq Originals /\ NoneTwice(stack)
  BY DEF DumpInv, Walks, NoneTwice, DumpReturn, Dumping
<1>1. CASE ~Keyed
  BY <1>0, <1>1, NotKeyed
<1>2. CASE Keyed
  <2>1. PICK W, O : Writing(W, O, defined, text, out, stack, "return", value, path)
    BY <1>0, <1>2, WritesAt
  <2>2. CASE stack = <<>> /\ pc' = "load" /\ UNCHANGED <<stack, text>>
    <3>1. Writing(W, O, defined, text, out, stack, "load", value, path)
      BY <2>1, <2>2, Enclosed
    <3>2. QED BY <1>0, <2>2, <3>1, WritesOn
  <2>3. CASE /\ stack # <<>> /\ Top.key = Meta
             /\ text' = [text EXCEPT ![Top.place].meta = value]
             /\ stack' = WithTop([Top EXCEPT !.key = Nil]) /\ pc' = "loop"
    <3> DEFINE f == Top
               f2 == [f EXCEPT !.key = Nil]
               X2 == text'
               s2 == stack'
    <3>1. /\ stack # <<>> /\ f = stack[Len(stack)] /\ f.key = Meta /\ f2 = [f EXCEPT !.key = Nil]
          /\ X2 = [text EXCEPT ![f.place].meta = value] /\ Replaces(s2, stack, f2)
      BY <2>3 DEF Top, WithTop, Replaces
    <3> HIDE DEF f, f2, X2, s2
    <3>2. Writing(W, O, defined, X2, out, s2, "loop", value, path)
      BY <1>0, <2>1, <3>1, MetaTaken
    <3>3. Writing(W, O, defined', text', out', stack', pc', value', path')
      BY <1>0, <2>3, <3>2 DEF X2, s2
    <3>4. QED BY <1>0, <2>3, <3>3, WritesOn
  <2>4. CASE /\ stack # <<>> /\ Top.key # Meta
             /\ text' = [text EXCEPT ![Top.place].items = Append(@, <<Top.key, value>>)]
             /\ pc' = "loop" /\ UNCHANGED stack
    <3> DEFINE f == Top
               X2 == text'
    <3>1. /\ stack # <<>> /\ f = stack[Len(stack)] /\ f.key # Meta
          /\ X2 = [text EXCEPT ![f.place].items = Append(@, <<f.key, value>>)]
      BY <2>4 DEF Top
    <3> HIDE DEF f, X2
    <3>2. Writing(W, O, defined, X2, out, stack, "loop", value, path)
      BY <1>0, <2>1, <3>1, ItemTaken
    <3>3. Writing(W, O, defined', text', out', stack', pc', value', path')
      BY <1>0, <2>4, <3>2 DEF X2
    <3>4. QED BY <1>0, <2>4, <3>3, WritesOn
  <2>5. QED BY <2>2, <2>3, <2>4 DEF DumpReturn
<1>3. QED BY <1>1, <1>2

LEMMA ShapedLoad ==
  ASSUME given \in Graphs, DumpInv, Shaped, heap = <<>>, Load PROVE Shaped'
<1>0. /\ pc = "load" /\ given' = given /\ UNCHANGED <<defined, text, out>>
      /\ DOMAIN defined \subseteq Originals
  BY DEF DumpInv, Load, Dumping
<1>1. CASE ~Keyed
  BY <1>0, <1>1, NotKeyed
<1>2. CASE Keyed
  <2>1. PICK W, O : Writing(W, O, defined, text, out, stack, "load", value, path)
    BY <1>0, <1>2, WritesAt
  <2>2. stack = <<>> /\ \A o \in DOMAIN defined : Plain(o)
    BY <1>0, <1>2, <2>1, KeyedIs DEF Writing
  <2>3. Writing(W, O, defined, text, out, <<>>, "load", value, path)
    BY <2>1, <2>2
  <2>4. \A r \in DOMAIN text : ~Fails(r)
    BY <2>2, <2>3, TextTaken
  <2>5. CASE Compiles(text, out)
    <3> DEFINE h == heap'
               v2 == value'
    <3>1. h = [r \in DOMAIN text |-> Made(r)] /\ v2 = Table(<<>>) /\ pc' = "run"
      BY <2>4, <2>5 DEF Load
    <3> HIDE DEF h, v2
    <3>2. Running(W, O, defined, text, out, h, v2)
      BY <2>2, <2>3, <3>1, TextLoaded
    <3>3. Running(W, O, defined', text', out', heap', value')
      BY <1>0, <3>2 DEF h, v2
    <3>4. QED BY <1>0, <3>1, <3>3, RunsOn
  <2>6. CASE ~Compiles(text, out)
    <3>1. pc' = "raised" /\ heap' = <<>>
      BY <2>6 DEF Load, Raise
    <3>2. ~Compiles(text', out')
      BY <1>0, <2>6
    <3>3. QED BY <3>1, <3>2, NoRoomThen DEF NoRoom
  <2>7. QED BY <2>5, <2>6
<1>3. QED BY <1>1, <1>2

LEMMA ShapedRun == ASSUME given \in Graphs, DumpInv, Shaped, Run PROVE Shaped'
<1>0. /\ pc = "run" /\ given' = given /\ UNCHANGED <<defined, text, value>>
      /\ DOMAIN defined \subseteq Originals
  BY DEF DumpInv, Run, Dumping
<1>1. CASE ~Keyed
  BY <1>0, <1>1, NotKeyed
<1>2. CASE Keyed
  <2>0. \A o \in DOMAIN defined : Plain(o)
    BY <1>0, <1>2, KeyedIs
  <2>1. PICK W, O : Running(W, O, defined, text, out, heap, value)
    BY <1>0, <1>2 DEF Shaped
  <2>2. CASE out = <<>> /\ pc' = "done" /\ UNCHANGED <<heap, out>>
    <3>1. Running(W, O, defined', text', out', heap', value')
      BY <1>0, <2>1, <2>2
    <3>2. QED BY <1>0, <2>2, <3>1, RunsOn
  <2>3. CASE out # <<>>
    <3>1. PICK u, i : /\ Assigns(W, O, defined, out[1], u, i) /\ Head(out) = out[1]
                      /\ Follow(Front(out[1][1])) = Table(W[u])
                      /\ Last(out[1][1]) = Label(O, u, i)
                      /\ Follow(out[1][2]) = Table(W[Target(O, u, i)])
      BY <2>0, <2>1, <2>3, AssignmentIs
    <3> DEFINE owner == Follow(Front(Head(out)[1]))
               source == Follow(Head(out)[2])
               k == Last(Head(out)[1])
    <3>2. /\ owner = Table(W[u]) /\ source = Table(W[Target(O, u, i)]) /\ k = Label(O, u, i)
      BY <3>1
    <3>3. k # NewTable /\ (k # Meta => Read(k) = k)
      <4>1. u \in Originals /\ IsOrder(u, O[u]) /\ i \in 0..Len(O[u])
        BY <2>1, <3>1 DEF Running, Placed, Assigns
      <4>2. Meta # NewTable
        BY DEF Meta, NewTable
      <4>3. i = 0 \/ i \in 1..Len(O[u])
        BY <4>1, OrderIs
      <4>4. u \in DOMAIN defined
        BY <3>1 DEF Assigns
      <4>5. k = Meta \/ (k \in DOMAIN Fields(u) /\ k # NewTable)
        BY <3>2, <4>1, <4>3, OrderIs
      <4> HIDE DEF k
      <4>6. QED BY <2>0, <4>2, <4>4, <4>5 DEF Plain
    <3>4. IsTable(owner) /\ owner[2] = W[u] /\ source # None /\ source # Nil
      BY <3>2 DEF IsTable, Table, None, Nil
    <3>5. /\ heap' = IF k = Meta THEN [heap EXCEPT ![owner[2]].meta = source]
                     ELSE [heap EXCEPT ![owner[2]].fields = Set(@, k, source)]
          /\ pc' = "run" /\ out' = Tail(out)
      <4> HIDE DEF owner, source, k
      <4>1. /\ IF ~IsTable(owner) \/ source = None
               THEN pc' = "raised" /\ UNCHANGED heap
               ELSE /\ heap' = IF k = Meta THEN [heap EXCEPT ![owner[2]].meta = source]
                               ELSE [heap EXCEPT ![owner[2]].fields =
                                       Set(@, IF k = NewTable THEN Table(<<-Len(out), 0>>) ELSE Read(k),
                                           source)]
                    /\ UNCHANGED pc
            /\ out' = Tail(out)
        BY <2>3 DEF Run, owner, source, k
      <4>2. QED BY <1>0, <3>3, <3>4, <4>1
    <3> DEFINE h == heap'
    <3>6. AssignedTo(W, O, u, i, heap, h)
      <4> DEFINE l == Label(O, u, i)
                 w == Table(W[Target(O, u, i)])
                 r == W[u]
      <4>1. /\ h = IF l = Meta THEN [heap EXCEPT ![r].meta = w]
                   ELSE [heap EXCEPT ![r].fields = Set(@, l, w)]
            /\ w # Nil
        BY <3>2, <3>4, <3>5
      <4> HIDE DEF h, l, w, r
      <4>2. \A g : Set(g, l, w) = Put(g, l, w)
        BY <4>1 DEF Set
      <4>3. h = IF l = Meta THEN [heap EXCEPT ![r].meta = w]
                ELSE [heap EXCEPT ![r].fields = Put(@, l, w)]
        BY <4>1, <4>2
      <4>4. QED BY <4>3 DEF AssignedTo, l, w, r
    <3>7. \A a, b \in DOMAIN defined : defined[a] = defined[b] => a = b
      BY <2>0, <2>1, PathsDiffer DEF Running
    <3> HIDE DEF h
    <3>8. Running(W, O, defined, text, Tail(out), h, value)
      BY <2>1, <2>3, <3>1, <3>6, <3>7, AssignmentDone
    <3>9. Running(W, O, defined', text', out', heap', value')
      BY <1>0, <3>5, <3>8 DEF h
    <3>10. QED BY <1>0, <3>5, <3>9, RunsOn
  <2>4. QED BY <2>2, <2>3 DEF Run
<1>3. QED BY <1>1, <1>2

\* Nothing is left to assign: each item has what it is mapped to.
LEMMA DumpDone ==
  ASSUME given \in Graphs, DumpInv, Shaped, pc = "done", Keyed
  PROVE  LET S == Visited(defined)
             f == [a \in S |-> Follow(defined[Table(a)])]
         IN Mirrors(S, f, LAMBDA m : Image(S, f, m), Read)
<1> DEFINE D == defined
           S == Visited(D)
           f == [a \in S |-> Follow(D[Table(a)])]
<1>1. PICK W, O : Running(W, O, D, text, <<>>, heap, value)
  <2>1. PICK W, O : Running(W, O, D, text, out, heap, value) /\ out = <<>>
    BY DEF Shaped
  <2>2. QED BY <2>1
<1>2. /\ Placed(W, O, D, text) /\ Loaded(W, O, D, <<>>, heap)
      /\ Table(1) \in DOMAIN D /\ value = Table(<<>>)
  BY <1>1 DEF Running
<1>0. \A o \in DOMAIN D : Plain(o)
  BY KeyedIs DEF DumpInv
<1>3. \A o \in DOMAIN D : Follow(D[o]) = Table(W[o])
  BY <1>0, <1>2, PathsLead
<1>4. \A a \in S : a \in DOMAIN given /\ Table(a) \in DOMAIN D /\ f[a] = Table(W[Table(a)])
  BY <1>3 DEF Visited
<1>5. \A o \in DOMAIN D : o \in Originals /\ IsTable(o) /\ o[2] \in S /\ o = Table(o[2]) /\ IsOrder(o, O[o])
  BY <1>2, Graph DEF Placed, Visited
<1>6. 1 \in S /\ value = f[1]
  <2>1. 1 \in DOMAIN given
    BY Graph, GraphsAssumption
  <2>2. 1 \in S /\ W[Table(1)] = <<>>
    BY <1>2, <2>1 DEF Visited, Placed
  <2>3. QED BY <1>2, <1>4, <2>2
<1>7. {f[a] : a \in S} = {Table(b) : b \in DOMAIN heap}
  <2>1. DOMAIN heap = {W[o] : o \in DOMAIN D}
    BY <1>2 DEF Loaded
  <2> HIDE DEF f, S, D
  <2>2. \A a \in S : f[a] \in {Table(b) : b \in DOMAIN heap}
    BY <1>4, <2>1
  <2>3. ASSUME NEW b \in DOMAIN heap PROVE Table(b) \in {f[a] : a \in S}
    <3>1. PICK o \in DOMAIN D : b = W[o]
      BY <2>1
    <3>2. o[2] \in S /\ o = Table(o[2])
      BY <1>5
    <3>3. f[o[2]] = Table(b)
      BY <1>4, <3>1, <3>2
    <3>4. QED BY <3>2, <3>3
  <2>4. QED BY <2>2, <2>3
<1>8. \A a, b \in S : f[a] = f[b] => a = b
  <2>1. \A v, w : Table(v) = Table(w) => v = w
    BY DEF Table
  <2>2. \A o, u \in DOMAIN D : W[o] = W[u] => o = u
    BY <1>2 DEF Placed
  <2> HIDE DEF f, S, D
  <2>3. QED BY <1>4, <2>1, <2>2
<1>9. \A v : (IF IsTable(v) THEN v \in DOMAIN D ELSE ~IsTable(Read(v))) =>
             Image(S, f, Read(v)) = Mapped(W, v)
  <2>1. TAKE v
  <2>2. CASE ~IsTable(v) /\ ~IsTable(Read(v))
    BY <2>2 DEF Image, Mapped
  <2>3. CASE IsTable(v) /\ v \in DOMAIN D
    <3>1. v[2] \in S /\ f[v[2]] = Table(W[v])
      BY <1>4, <1>5, <2>3
    <3>2. Read(v) = v
      BY <2>3 DEF IsTable, Read
    <3> HIDE DEF f, S, D
    <3>3. QED BY <2>3, <3>1, <3>2 DEF Image, Mapped
  <2>4. QED BY <2>2, <2>3
<1>10. \A k : ~IsTable(k) => Image(S, f, k) = k
  BY DEF Image
<1>11. ASSUME NEW a \in S
       PROVE  LET t == given[a]
                  u == heap[f[a][2]]
              IN /\ DOMAIN u.fields = {Image(S, f, k) : k \in DOMAIN t.fields}
                 /\ \A k \in DOMAIN t.fields :
                      u.fields[Image(S, f, k)] = Image(S, f, Read(t.fields[k]))
                 /\ u.meta = Image(S, f, t.meta)
  <2> DEFINE o == Table(a)
             u == heap[W[o]]
             ks == DOMAIN given[a].fields
  <2>1. /\ o \in DOMAIN D /\ f[a] = Table(W[o]) /\ Given(o) = given[a] /\ Fields(o) = given[a].fields
        /\ f[a][2] = W[o]
    BY <1>4 DEF Given, Fields, Table
  <2>2. \A k \in ks : ~IsTable(k)
    BY <1>0, <2>1 DEF Plain
  <2>3. \A i \in 0..Len(O[o]) : /\ Has(W, O, heap, o, i)
                                /\ IsTable(Target(O, o, i)) => Target(O, o, i) \in DOMAIN D
    <3>1. \A i : ~Assigned(<<>>, O, D, o, i)
      BY EmptyStack DEF Assigned
    <3>2. QED BY <1>2, <2>1, <3>1 DEF Loaded
  <2>4. /\ Len(O[o]) \in Nat /\ Target(O, o, 0) = given[a].meta
        /\ \A i \in 1..Len(O[o]) : Target(O, o, i) = given[a].fields[O[o][i]] /\ i # 0
    BY <1>5, <2>1, OrderIs
  <2>5. \A k \in ks : \E i \in 1..Len(O[o]) : k = O[o][i]
    <3>1. IsOrder(o, O[o]) /\ DOMAIN Fields(o) = ks
      BY <1>5, <2>1
    <3> HIDE DEF o, ks
    <3>2. {O[o][i] : i \in 1..Len(O[o])} = ks
      BY <3>1 DEF IsOrder
    <3>3. QED BY <3>2
  <2>6. \A k \in ks : /\ k \in DOMAIN u.fields /\ u.fields[k] = Mapped(W, given[a].fields[k])
                      /\ IsTable(given[a].fields[k]) => given[a].fields[k] \in DOMAIN D
    <3>1. TAKE k \in ks
    <3>2. PICK i \in 1..Len(O[o]) : k = O[o][i]
      BY <2>5
    <3>3. i \in 0..Len(O[o]) /\ i # 0 /\ Target(O, o, i) = given[a].fields[k]
      BY <2>4, <3>2
    <3>4. QED BY <2>3, <3>2, <3>3 DEF Has
  <2>7. u.meta = Mapped(W, given[a].meta) /\ (IsTable(given[a].meta) => given[a].meta \in DOMAIN D)
    <3>1. 0 \in 0..Len(O[o])
      BY <2>4
    <3>2. QED BY <2>3, <2>4, <3>1 DEF Has
  <2>8. DOMAIN u.fields = ks
    <3>1. DOMAIN u.fields \subseteq ks
      BY <1>2, <2>1 DEF Loaded
    <3>2. QED BY <2>6, <3>1
  <2>13. /\ \A k \in ks : LET v == given[a].fields[k] IN ~IsTable(v) => ~IsTable(Read(v))
         /\ Read(given[a].meta) = given[a].meta
         /\ ~IsTable(given[a].meta) => given[a].meta = Nil
    <3>1. o \in Originals /\ Given(o) = given[a] /\ Fields(o) = given[a].fields
      BY <1>5, <2>1
    <3>2. Read(Nil) = Nil /\ \A v : IsTable(v) => Read(v) = v
      BY DEF Read, Nil, IsTable
    <3> HIDE DEF o
    <3>3. QED BY <3>1, <3>2, Graph, ReadsNoTable
  <2> HIDE DEF f, S, D, o
  <2>9. \A k \in ks : Image(S, f, k) = k /\ Image(S, f, Read(given[a].fields[k])) = Mapped(W, given[a].fields[k])
    BY <1>9, <1>10, <2>2, <2>6, <2>13
  <2>10. Image(S, f, given[a].meta) = Mapped(W, given[a].meta)
    <3>1. ~IsTable(given[a].meta) => ~IsTable(Read(given[a].meta))
      BY <2>13
    <3>2. QED BY <1>9, <2>7, <2>13, <3>1
  <2>11. {Image(S, f, k) : k \in ks} = ks
    BY <2>9
  <2>12. QED BY <2>1, <2>6, <2>7, <2>8, <2>9, <2>10, <2>11
<1> HIDE DEF f, S, D
<1>12. Mirrors(S, f, LAMBDA m : Image(S, f, m), Read)
  BY <1>6, <1>7, <1>8, <1>11 DEF Mirrors
<1>13. QED BY <1>12 DEF f, S, D

\* Where nothing was done yet.
LEMMA ShapedFirst ==
  ASSUME Init PROVE Shaped
<1>1. /\ pc = "call" /\ value = Table(1) /\ path = <<>> /\ stack = <<>>
      /\ defined = <<>> /\ text = <<>> /\ out = <<>>
  BY DEF Init
<1>2. DOMAIN <<>> = {} /\ IsStack(<<>>) /\ Len(<<>>) = 0
  BY EmptyStack
<1> DEFINE e == <<>>
<1>3. e = <<>>
  OBVIOUS
<1> HIDE DEF e
<1>4. Placed(e, e, e, e)
  BY <1>2, <1>3 DEF Placed
<1>5. Assignments(e, e, e, e) /\ Free(e, e, "call")
  BY <1>2, <1>3 DEF Assignments, Free
<1>6. DumpFrames(e, e, e, e, e, e, "busy")
  BY <1>2, <1>3 DEF DumpFrames
<1>7. Writing(e, e, e, e, e, e, "call", Table(1), e)
  BY <1>2, <1>3, <1>4, <1>5, <1>6 DEF Writing, Mode
<1>8. \E W, O : Writing(W, O, defined, text, out, stack, pc, value, path)
  BY <1>1, <1>3, <1>7
<1>9. QED BY <1>1, <1>8 DEF Shaped

LEMMA ShapedStays == ASSUME UNCHANGED vars, Shaped PROVE Shaped'
<1>1. /\ given' = given /\ pc' = pc /\ defined' = defined /\ text' = text /\ out' = out
      /\ stack' = stack /\ value' = value /\ path' = path /\ heap' = heap
  BY DEF vars, walk
<1>0. pc = "raised" => Refused' \/ NoRoom'
  <2>1. NoRoom => NoRoom'
    BY <1>1 DEF NoRoom
  <2>2. QED BY <1>1, <2>1, RefusedAfter DEF Shaped
<1>2. CASE Keyed
  <2>1. PICK W, O :
          /\ pc \in {"call", "loop", "return", "load"} =>
               Writing(W, O, defined, text, out, stack, pc, value, path)
          /\ pc \in {"run", "done"} =>
               Running(W, O, defined, text, out, heap, value) /\ (pc = "done" => out = <<>>)
    BY <1>2 DEF Shaped
  <2>2. pc \in {"call", "loop", "return", "load"} =>
          Writing(W, O, defined, text, out, stack, pc, value, path)'
    <3>1. SUFFICES ASSUME Writing(W, O, defined, text, out, stack, pc, value, path)
                   PROVE  Writing(W, O, defined, text, out, stack, pc, value, path)'
      BY <2>1
    <3>2. Writing(W, O, defined', text', out', stack', pc', value', path')
      BY <1>1, <3>1
    <3>3. QED BY <1>1, <3>2, WritingAfter
  <2>3. pc \in {"run", "done"} => Running(W, O, defined, text, out, heap, value)'
    <3>1. SUFFICES ASSUME Running(W, O, defined, text, out, heap, value)
                   PROVE  Running(W, O, defined, text, out, heap, value)'
      BY <2>1
    <3>2. Running(W, O, defined', text', out', heap', value')
      BY <1>1, <3>1
    <3>3. QED BY <1>1, <3>2, RunningAfter
  <2>4. pc = "raised" => Refused' \/ NoRoom'
    BY <1>0
  <2>5. QED BY <1>1, <2>1, <2>2, <2>3, <2>4 DEF Shaped
<1>3. CASE ~Keyed
  <2>1. ~Keyed' /\ (pc = "raised" => Refused' \/ NoRoom')
    BY <1>0, <1>1, <1>3, KeyedBefore
  <2>2. QED BY <1>1, <2>1 DEF Shaped
<1>4. QED BY <1>2, <1>3

-----------------------------------------------------------------------------
(* Both *)

\* Nothing is made before the text is loaded.
NotLoaded == pc \in {"call", "loop", "return", "load"} => heap = <<>>

Inv ==
  /\ given \in Graphs /\ call \in {"copy", "dump"}
  /\ call = "copy" => CopyInv /\ DOMAIN defined = {}
  /\ call = "dump" => DumpInv /\ Shaped /\ NotLoaded /\ DOMAIN lookup_table = {}

LEMMA InitInv == Init => Inv
<1> SUFFICES ASSUME Init PROVE Inv
  OBVIOUS
<1>1. /\ given \in Graphs /\ call \in {"copy", "dump"} /\ pc = "call" /\ value = Table(1)
      /\ stack = <<>> /\ IsStack(stack) /\ Len(stack) = 0
      /\ DOMAIN defined = {} /\ DOMAIN lookup_table = {} /\ DOMAIN heap = {}
  BY EmptyStack DEF Init
<1>2. Lookup(lookup_table, heap)
  <2>1. Len(given) \in Nat
    BY <1>1, Graph
  <2>2. 0 \in Nat /\ DOMAIN heap = Len(given) + 1..Len(given) + 0
    BY <1>1, <2>1
  <2>3. QED BY <1>1, <2>2 DEF Lookup
<1>3. Frames(lookup_table, heap, stack, FALSE)
  BY <1>1 DEF Frames
<1>4. Finished(lookup_table, heap, stack)
  BY <1>1 DEF Finished
<1>5. CopyInv
  <2>1. Wanted(stack) = Table(1) /\ pc # "loop" /\ pc # "done" /\ pc \notin {"return", "done"}
    BY <1>1 DEF Wanted
  <2> HIDE DEF Wanted
  <2>2. /\ Frames(lookup_table, heap, stack, FALSE) \/ pc = "loop"
        /\ Frames(lookup_table, heap, stack, TRUE) \/ pc # "loop"
    BY <1>3, <2>1
  <2>3. pc \in {"call", "loop", "return", "done", "raised"} /\ value = Wanted(stack)
        /\ pc # "raised"
    BY <1>1, <2>1
  <2>4. QED BY <1>2, <1>4, <2>1, <2>2, <2>3 DEF CopyInv
<1>6. DumpInv
  BY <1>1, Graph DEF DumpInv, Walks
<1>7. NotLoaded
  BY DEF Init, NotLoaded
<1>8. QED BY <1>1, <1>5, <1>6, <1>7, ShapedFirst DEF Inv

LEMMA StepInv == Inv /\ [Next]_vars => Inv'
<1> SUFFICES ASSUME Inv, [Next]_vars PROVE Inv'
  OBVIOUS
<1>0. given \in Graphs /\ call \in {"copy", "dump"}
  BY DEF Inv
<1>1. ASSUME Copying, CopyCall \/ CopyLoop \/ CopyReturn PROVE Inv'
  <2>1. CopyInv /\ call = "copy" /\ call' = call /\ given' = given /\ defined' = defined
    BY <1>1 DEF Inv, Copying
  <2>2. CopyInv'
    BY <1>0, <1>1, <2>1, CopyCallInv, CopyLoopInv, CopyReturnInv
  <2>3. QED BY <2>1, <2>2 DEF Inv
<1>2. ASSUME Dumping, DumpCall \/ DumpLoop \/ DumpReturn \/ Load \/ Run PROVE Inv'
  <2>1. /\ DumpInv /\ Shaped /\ NotLoaded /\ call = "dump" /\ call' = call /\ given' = given
        /\ DOMAIN lookup_table = {} /\ lookup_table' = lookup_table
    BY <1>2 DEF Inv, Dumping
  <2>2. CASE Load \/ Run
    <3>1. /\ pc' \in {"run", "done", "raised"} /\ UNCHANGED <<stack, defined>>
          /\ Load => heap = <<>>
      BY <2>1, <2>2 DEF Load, Run, Raise, NotLoaded
    <3>2. DumpInv'
      BY <2>1, <3>1, DumpInvAfter DEF DumpInv
    <3>3. Shaped'
      BY <1>0, <2>1, <2>2, <3>1, ShapedLoad, ShapedRun
    <3>4. NotLoaded'
      BY <3>1 DEF NotLoaded
    <3>5. QED BY <1>0, <2>1, <3>2, <3>3, <3>4 DEF Inv
  <2>3. CASE DumpCall \/ DumpLoop \/ DumpReturn
    <3>1. DumpInv'
      BY <1>0, <2>1, <2>3, DumpCallInv, DumpLoopInv, DumpReturnInv
    <3>2. Shaped'
      BY <1>0, <2>1, <2>3, ShapedCall, ShapedLoop, ShapedReturn
    <3>3. NotLoaded'
      BY <2>1, <2>3 DEF NotLoaded, DumpCall, DumpLoop, DumpReturn
    <3>4. QED BY <1>0, <2>1, <3>1, <3>2, <3>3 DEF Inv
  <2>4. QED BY <1>2, <2>2, <2>3
<1>3. CASE UNCHANGED vars
  <2>1. CopyInv => CopyInv'
    BY <1>3, CopyInvAfter DEF CopyInv, vars, walk
  <2>2. DumpInv => DumpInv'
    BY <1>3, DumpInvAfter DEF DumpInv, vars, walk
  <2>3. Shaped => Shaped'
    BY <1>3, ShapedStays
  <2>4. NotLoaded => NotLoaded'
    BY <1>3 DEF NotLoaded, vars, walk
  <2>5. QED BY <1>3, <2>1, <2>2, <2>3, <2>4 DEF Inv, vars
<1>4. QED BY <1>1, <1>2, <1>3
      DEF Next, Step, Stopped, CopyCall, CopyLoop, CopyReturn, DumpCall, DumpLoop, DumpReturn, Load, Run

LEMMA InvHolds == Spec => []Inv
BY InitInv, StepInv, PTL DEF Spec

-----------------------------------------------------------------------------
(* What follows *)

\* The copy of a table, finished or not, has the images of some of its fields.
LEMMA SomeCopied ==
  ASSUME CopyInv, NEW a \in DOMAIN heap
  PROVE  \E o \in DOMAIN lookup_table : \E done :
           lookup_table[o] = Table(a) /\ Copied(lookup_table, heap, o, done)
<1>1. PICK o \in DOMAIN lookup_table : lookup_table[o] = Table(a)
  BY DEF CopyInv, Lookup
<1>2. CASE OnStack(stack, o)
  <2>1. PICK i \in 1..Len(stack) : stack[i].table = o
    BY <1>2 DEF OnStack
  <2>2. PICK busy : Frame(lookup_table, heap, stack[i], busy)
    BY DEF CopyInv, Frames
  <2>3. QED BY <1>1, <2>1, <2>2 DEF Frame
<1>3. CASE ~OnStack(stack, o)
  BY <1>1, <1>3 DEF CopyInv, Finished
<1>4. QED BY <1>2, <1>3

LEMMA CopyRefersToCopies ==
  ASSUME CopyInv, NEW a \in DOMAIN heap, NEW k \in DOMAIN heap[a].fields,
         NEW v \in {k, heap[a].fields[k]}, IsTable(v)
  PROVE  v[2] \in DOMAIN heap
<1> DEFINE L == lookup_table
<1>1. PICK o \in DOMAIN L : \E done : L[o] = Table(a) /\ Copied(L, heap, o, done)
  BY SomeCopied
<1>2. PICK done : L[o] = Table(a) /\ Copied(L, heap, o, done)
  BY <1>1
<1>3. Lookup(L, heap) /\ L[o][2] = a
  BY <1>2 DEF CopyInv, Table
<1>4. PICK j \in done : k = Img(L, j)
  BY <1>2, <1>3 DEF Copied
<1>5. heap[a].fields[k] = Img(L, Fields(o)[j]) /\ Seen(L, j) /\ Seen(L, Fields(o)[j])
  BY <1>2, <1>3, <1>4 DEF Copied
<1>6. PICK w : v = Img(L, w) /\ Seen(L, w)
  BY <1>4, <1>5
<1>7. w \in DOMAIN L /\ v = L[w]
  BY <1>6 DEF Img, Seen
<1>8. QED BY <1>3, <1>7, CopyOf

\* The tables that are walked over, noted or given a path are those of the script, and
\* while table.copy runs its copies refer to copies only (copy.lua:15-16).
THEOREM TypeCorrect == Spec => []TypeOK
<1>1. ASSUME Inv PROVE TypeOK
  <2>1. CASE call = "copy"
    <3>1. CopyInv /\ DOMAIN defined = {}
      BY <1>1, <2>1 DEF Inv
    <3>2. DOMAIN lookup_table \subseteq Originals
      BY <3>1 DEF CopyInv, Lookup
    <3>3. \A i \in 1..Len(stack) : stack[i].table \in Originals
      BY <3>1, <3>2 DEF CopyInv, Frames, Frame
    <3>4. \A a \in DOMAIN heap : \A k \in DOMAIN heap[a].fields : \A v \in {k, heap[a].fields[k]} :
            IsTable(v) => v[2] \in DOMAIN heap
      BY <3>1, CopyRefersToCopies
    <3>5. pc \in {"call", "loop", "return", "done", "raised"}
      BY <3>1 DEF CopyInv
    <3>6. QED BY <3>1, <3>2, <3>3, <3>4, <3>5 DEF TypeOK, Originals
  <2>2. CASE call = "dump"
    <3>1. DumpInv /\ DOMAIN lookup_table = {} /\ call # "copy"
      BY <1>1, <2>2 DEF Inv
    <3>2. DOMAIN defined \subseteq Originals /\ \A i \in 1..Len(stack) : stack[i].table \in Originals
      BY <3>1 DEF DumpInv, Walks
    <3>3. QED BY <3>1, <3>2 DEF TypeOK, Originals, DumpInv
  <2>3. QED BY <1>1, <2>1, <2>2 DEF Inv
<1>2. QED BY <1>1, InvHolds, PTL

\* Neither script enters a table while it is still walking over it, whatever contains it
\* (copy.lua:10-14, dump.lua:148): the recursion is no deeper than there are tables.
THEOREM NoReentry == Spec => []NoTableTwice
<1>1. ASSUME Inv PROVE NoTableTwice
  <2>1. CASE call = "copy"
    <3>1. PICK turning : Frames(lookup_table, heap, stack, turning)
      BY <1>1, <2>1 DEF Inv, CopyInv
    <3>2. QED BY <3>1 DEF Frames, NoTableTwice
  <2>2. CASE call = "dump"
    BY <1>1, <2>2 DEF Inv, DumpInv, Walks, NoTableTwice
  <2>3. QED BY <1>1, <2>1, <2>2 DEF Inv
<1>2. QED BY <1>1, InvHolds, PTL

\* Image, of the property, is Img, of the invariant.
LEMMA ImageIsImg ==
  ASSUME NEW L, NEW v, DOMAIN L \subseteq Originals, Seen(L, v)
  PROVE  Image(Visited(L), [a \in Visited(L) |-> L[Table(a)]], v) = Img(L, v)
<1>1. CASE ~IsTable(v)
  BY <1>1 DEF Image, Img
<1>2. CASE IsTable(v)
  <2>1. PICK a \in DOMAIN given : v = Table(a)
    BY <1>2 DEF Seen, Originals
  <2>2. v[2] = a /\ a \in Visited(L)
    BY <1>2, <2>1 DEF Seen, Visited, Table
  <2>3. QED BY <1>2, <2>1, <2>2 DEF Image, Img
<1>3. QED BY <1>1, <1>2

LEMMA CopyDone ==
  ASSUME given \in Graphs, CopyInv, pc = "done"
  PROVE  Mirrors(Visited(lookup_table), [a \in Visited(lookup_table) |-> lookup_table[Table(a)]],
                 LAMBDA m : m, LAMBDA v : v)
<1> DEFINE L == lookup_table
           S == Visited(L)
           f == [a \in S |-> L[Table(a)]]
<1>1. Lookup(L, heap) /\ stack = <<>> /\ Len(stack) = 0
  BY EmptyStack DEF CopyInv
<1>2. Table(1) \in DOMAIN L /\ value = L[Table(1)]
  <2>1. Wanted(stack) = Table(1) /\ IsTable(Table(1))
    BY <1>1 DEF Wanted, Table, IsTable
  <2>2. QED BY <2>1 DEF CopyInv, Seen, Img
<1>3. \A a \in S : a \in DOMAIN given /\ Table(a) \in DOMAIN L
  BY DEF Visited
<1>4. 1 \in S /\ value = f[1]
  <2>1. 1 \in DOMAIN given
    BY Graph, GraphsAssumption
  <2>2. QED BY <1>2, <2>1 DEF Visited
<1>5. {f[a] : a \in S} = {Table(b) : b \in DOMAIN heap}
  <2>1. ASSUME NEW a \in S PROVE f[a] \in {Table(b) : b \in DOMAIN heap}
    BY <1>1, <1>3 DEF Lookup
  <2>2. ASSUME NEW b \in DOMAIN heap PROVE \E a \in S : f[a] = Table(b)
    <3>1. PICK o \in DOMAIN L : L[o] = Table(b)
      BY <1>1 DEF Lookup
    <3>2. PICK a \in DOMAIN given : o = Table(a)
      BY <1>1 DEF Lookup, Originals
    <3>3. a \in S
      BY <3>1, <3>2 DEF Visited
    <3>4. QED BY <3>1, <3>2, <3>3
  <2>3. QED BY <2>1, <2>2
<1>6. ASSUME NEW a \in S, NEW b \in S, f[a] = f[b] PROVE a = b
  <2>1. Table(a) = Table(b)
    BY <1>1, <1>3, <1>6 DEF Lookup
  <2>2. QED BY <2>1 DEF Table
<1>7. ASSUME NEW a \in S
      PROVE  LET t == given[a]
                 u == heap[f[a][2]]
             IN /\ DOMAIN u.fields = {Image(S, f, k) : k \in DOMAIN t.fields}
                /\ \A k \in DOMAIN t.fields : u.fields[Image(S, f, k)] = Image(S, f, t.fields[k])
                /\ u.meta = t.meta
  <2> DEFINE o == Table(a)
             u == heap[L[o][2]]
             ks == DOMAIN given[a].fields
  <2>1. o \in DOMAIN L /\ f[a] = L[o] /\ Given(o) = given[a] /\ Fields(o) = given[a].fields
    BY <1>3 DEF Given, Fields, Table
  <2>2. ~OnStack(stack, o)
    BY <1>1 DEF OnStack
  <2>3. Copied(L, heap, o, ks) /\ u.meta = given[a].meta
    BY <2>1, <2>2 DEF CopyInv, Finished
  <2>4. /\ \A k \in ks : Seen(L, k) /\ Seen(L, given[a].fields[k])
        /\ DOMAIN u.fields = {Img(L, k) : k \in ks}
        /\ \A k \in ks : u.fields[Img(L, k)] = Img(L, given[a].fields[k])
    BY <2>1, <2>3 DEF Copied
  <2>5. \A k \in ks : Image(S, f, k) = Img(L, k)
                      /\ Image(S, f, given[a].fields[k]) = Img(L, given[a].fields[k])
    BY <1>1, <2>4, ImageIsImg DEF Lookup
  <2> HIDE DEF f, S, L
  <2>6. QED BY <2>1, <2>3, <2>4, <2>5
<1> HIDE DEF f, S, L
<1>8. Mirrors(S, f, LAMBDA m : m, LAMBDA v : v)
  BY <1>4, <1>5, <1>6, <1>7 DEF Mirrors
<1>9. QED BY <1>8 DEF f, S, L

\* What table.copy returns has the shape of its argument, for every graph and every order
\* of pairs: one copy of each table, cycles, shared tables and tables as keys included,
\* over the same metatables (copy.lua:7-22).
THEOREM CopyIsomorphic == Spec => []CopyMirrors
<1>1. ASSUME Inv PROVE CopyMirrors
  BY <1>1, CopyDone DEF Inv, CopyMirrors
<1>2. QED BY <1>1, InvHolds, PTL

\* Loading what table.dump wrote makes a graph of the same shape, metatables included, for
\* every graph in which no key is a table or a number that its text does not give, and no
\* number is infinite, and every order of the keys: each table has one constructor, each
\* path of an assignment leads to it (dump.lua:147-182), and each number is what its text
\* reads as.
THEOREM DumpIsomorphic == Spec => []DumpLoads
<1>1. ASSUME Inv PROVE DumpLoads
  BY <1>1, DumpDone DEF Inv, DumpLoads
<1>2. QED BY <1>1, InvHolds, PTL

\* As long as no more tables are being walked over than Lua's stack is sure to have room
\* for, table.copy raises no error, and table.dump with the loading of its text only for a
\* userdata, a table as a key, a key whose text reads as another or as none, an infinite
\* number, or because Lua's parser refuses the text (dump.lua:99, 104, 222-229).
THEOREM RefusesNothingElse == Spec => []OnlyRefusals
<1>1. ASSUME Inv PROVE OnlyRefusals
  <2>1. SUFFICES ASSUME pc = "raised" PROVE OnlyRefusals
    BY DEF OnlyRefusals
  <2>2. CASE call = "copy"
    BY <1>1, <2>1, <2>2 DEF Inv, CopyInv, OnlyRefusals
  <2>3. CASE call = "dump" /\ NoRoom
    BY <2>3 DEF NoRoom, OnlyRefusals
  <2>4. CASE call = "dump" /\ Refused
    <3>1. DOMAIN defined \subseteq Originals
      BY <1>1, <2>4 DEF Inv, DumpInv
    <3>2. PICK o \in DOMAIN defined : \E k \in DOMAIN Fields(o) :
            \/ IsTable(k) \/ "userdata" \in {k[1], Fields(o)[k][1]}
            \/ Read(k) # k \/ Read(Fields(o)[k]) \in {Nil, None}
      BY <2>4 DEF Refused
    <3>3. PICK a \in DOMAIN given : o = Table(a)
      BY <3>1 DEF Originals
    <3>4. a \in Visited(defined) /\ Fields(o) = given[a].fields
      BY <3>3 DEF Visited, Fields, Given, Table
    <3>5. QED BY <2>4, <3>2, <3>4 DEF OnlyRefusals
  <2>5. QED BY <1>1, <2>1, <2>2, <2>3, <2>4 DEF Inv, Shaped
<1>2. QED BY <1>1, InvHolds, PTL

=============================================================================
