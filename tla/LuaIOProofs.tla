----------------------------- MODULE LuaIOProofs -----------------------------
(***************************************************************************)
(* The safety properties of LuaIO for any number of adapters, iterators    *)
(* and formats. IInv couples the five views of one file (userdata, its     *)
(* pointer, the LuaBoostFile, the stream, the counter) and says which      *)
(* adapters are anchored while the script runs.                            *)
(***************************************************************************)
EXTENDS LuaIO, FiniteSetTheorems, TLAPS

\* The views of one file agree.
Coupled(a) ==
  /\ mem[a] = "none" => ~ptr[a] /\ file[a] = "none" /\ stream[a] = "none"
  /\ mem[a] = "live" /\ ptr[a] =>
       /\ file[a] \in {"open", "shut"}
       /\ a \in Users => (stream[a] = "open" <=> file[a] = "open")
  /\ mem[a] = "live" /\ ~ptr[a] =>
       a \in Users /\ file[a] = "deleted" /\ stream[a] = "closed"
  /\ mem[a] = "collected" /\ a \in Users =>
       file[a] = "deleted" /\ stream[a] # "open"
  /\ a \in Std => stream[a] # "closed"

\* A closing iterator is the only reference to its adapter.
Exclusive(i) ==
  iterOf[i] # NoOne /\ iterCloses[i] =>
    /\ iterOf[i] \in Users
    /\ iterOf[i] \notin held \cup {defIn, defOut}
    /\ ptr[iterOf[i]]

\* What is anchored is alive while the script runs.
AnchoredAlive ==
  /\ {defIn, defOut} \subseteq Adapters
  /\ \A a \in Std \cup held \cup {defIn, defOut} : mem[a] = "live"
  /\ \A i \in Iters :
       iterOf[i] # NoOne /\ iterCloses[i] => mem[iterOf[i]] = "live"

NothingMade ==
  /\ mem = [a \in Adapters |-> "none"]
  /\ held = {} /\ \A i \in Iters : iterOf[i] = NoOne

IInv ==
  /\ TypeOK
  /\ defIn = regIn /\ defOut = regOut
  /\ \A a \in Adapters : Coupled(a)
  /\ \A i \in Iters : Exclusive(i)
  /\ vm = "up" => AnchoredAlive
  /\ vm = "down" => NothingMade
  /\ vm # "down" => \A a \in Std : mem[a] # "none"
  /\ vm = "exited" => /\ \A a \in Adapters : mem[a] # "live"
                      /\ \A a \in Std : file[a] = "deleted"

-----------------------------------------------------------------------------
(* IInv is inductive. *)

\* Before core_startvm runs nothing exists, and IInv holds.
LEMMA InitEstablishesIInv == Init => IInv
  BY NamesDistinct, FormatsPositive
  DEF Init, IInv, TypeOK, Coupled, Exclusive, NothingMade, Adapters, Std

\* f:close() and io.close() keep IInv: the adapter called is alive, so its views
\* agree, and no closing iterator refers to it.
LEMMA CloseKeepsIInv ==
  ASSUME IInv, NEW a \in Adapters, NEW ok \in BOOLEAN, Close(a, ok)
  PROVE  IInv'
<1> USE DEF IInv, Adapters, heap, defaults, iters, reads
<1>1. mem[a] = "live" /\ ptr[a]
  BY DEF Close, Running, Callable, AnchoredAlive
<1>2. TypeOK'
  <2>1. StreamAfterClose(a) \in {"none", "open", "closed"}
    BY DEF TypeOK, StreamAfterClose
  <2>2. CASE CloseResult(a, ok)
    <3>1. count' \in Int
      BY <2>2 DEF Close, TypeOK
    <3>2. ptr' \in [Adapters -> BOOLEAN]
      BY <2>2 DEF Close, TypeOK
    <3>3. file' \in [Adapters -> {"none", "open", "shut", "deleted"}]
      BY <2>2 DEF Close, TypeOK
    <3>4. QED BY <2>1, <2>2, <3>1, <3>2, <3>3 DEF Close, TypeOK
  <2>3. CASE ~CloseResult(a, ok)
    BY <2>1, <2>3 DEF Close, TypeOK
  <2>4. QED BY <2>2, <2>3
<1>3. ASSUME NEW b \in Adapters PROVE Coupled(b)'
  <2>1. CASE b # a
    BY <2>1 DEF Close, TypeOK, Coupled
  <2>2. CASE b = a /\ CloseResult(a, ok)
    BY <1>1, <2>2, NamesDistinct
    DEF Close, TypeOK, Coupled, CloseResult, StreamAfterClose, Owns
  <2>3. CASE b = a /\ ~CloseResult(a, ok)
    BY <1>1, <2>3, NamesDistinct
    DEF Close, TypeOK, Coupled, StreamAfterClose, Owns
  <2>4. QED BY <2>1, <2>2, <2>3
<1>4. ASSUME NEW i \in Iters PROVE Exclusive(i)'
  BY NamesDistinct DEF Close, Exclusive, Callable, TypeOK, Running
<1>5. AnchoredAlive' /\ (vm' = "up")
  BY DEF Close, AnchoredAlive, Running
<1>6. QED BY <1>2, <1>3, <1>4, <1>5 DEF Close

\* Every step of the library, the script and the collector keeps IInv.
LEMMA NextKeepsIInv == IInv /\ [Next]_vars => IInv'
<1> SUFFICES ASSUME IInv, [Next]_vars PROVE IInv'
  OBVIOUS
<1> USE NamesDistinct, FormatsPositive
    DEF IInv, TypeOK, Coupled, Exclusive, AnchoredAlive, NothingMade,
        Adapters, Std, heap, defaults, iters, reads
<1>1. CASE StartVM
  <2>1. TypeOK'
    BY <1>1 DEF StartVM
  <2>2. ASSUME NEW a \in Adapters PROVE Coupled(a)'
    BY <1>1 DEF StartVM
  <2>3. \A i \in Iters : Exclusive(i)'
    BY <1>1 DEF StartVM
  <2>4. AnchoredAlive'
    BY <1>1 DEF StartVM
  <2>5. /\ (defIn = regIn /\ defOut = regOut)' /\ vm' = "up"
        /\ \A a \in Std : mem'[a] # "none"
    BY <1>1 DEF StartVM
  <2>6. QED BY <2>1, <2>2, <2>3, <2>4, <2>5
<1>2. ASSUME NEW a \in Users, OpenSucceeds(a) PROVE IInv'
  BY <1>2 DEF OpenSucceeds, NewOpen, Running
<1>3. ASSUME NEW a \in Users, OpenFails(a) PROVE IInv'
  BY <1>3 DEF OpenFails, Running
<1>4. ASSUME NEW a \in Users, InputFile(a) PROVE IInv'
  BY <1>4 DEF InputFile, SetField, NewOpen, Running
<1>5. ASSUME NEW a \in Users, OutputFile(a) PROVE IInv'
  BY <1>5 DEF OutputFile, SetField, NewOpen, Running
<1>6. ASSUME NEW a \in Adapters, InputAdapter(a) PROVE IInv'
  BY <1>6 DEF InputAdapter, SetField, Running, Callable
<1>7. ASSUME NEW a \in Adapters, OutputAdapter(a) PROVE IInv'
  BY <1>7 DEF OutputAdapter, SetField, Running, Callable
<1>8. ASSUME NEW a \in Adapters, GetDefault(a) PROVE IInv'
  BY <1>8 DEF GetDefault, Running
<1>9. ASSUME NEW a \in Adapters, DropRef(a) PROVE IInv'
  BY <1>9 DEF DropRef, Running
<1>10. ASSUME NEW i \in Iters, NEW a \in Users, LinesOfName(i, a) PROVE IInv'
  BY <1>10 DEF LinesOfName, CloseFile, NewOpen, NewIterator, Running
<1>11. ASSUME NEW i \in Iters, NEW a \in Adapters, NEW keep \in BOOLEAN, LinesOfAdapter(i, a, keep) PROVE IInv'
  BY <1>11 DEF LinesOfAdapter, CloseFile, NewIterator, Running, Callable
<1>12. ASSUME NEW i \in Iters, IteratorEnds(i) PROVE IInv'
  BY <1>12 DEF IteratorEnds, Running, StreamAfterClose, Owns
<1>13. ASSUME NEW i \in Iters, IteratorFaults(i) PROVE IInv'
  BY <1>13 DEF IteratorFaults, Fault, Running
<1>14. ASSUME NEW i \in Iters, DropIterator(i) PROVE IInv'
  BY <1>14 DEF DropIterator, Running
<1>15. ASSUME NEW a \in Adapters, NEW n \in 1..MaxFormats, NEW keep \in BOOLEAN, BeginRead(a, n, keep) PROVE IInv'
  BY <1>15 DEF BeginRead, Running, Callable
<1>16. CASE ContinueRead
  BY <1>16 DEF ContinueRead, Fault, MoreFormats
<1>17. ASSUME NEW a \in Adapters, UseShutFile(a) PROVE IInv'
  BY <1>17 DEF UseShutFile, Fault, Running
<1>18. ASSUME NEW a \in Adapters, NEW ok \in BOOLEAN, Close(a, ok) PROVE IInv'
  BY <1>18, CloseKeepsIInv
<1>19. ASSUME NEW a \in Adapters, NEW ok \in BOOLEAN, Collect(a, ok) PROVE IInv'
  BY <1>19 DEF Collect, Destroy, StreamAfterClose, CloseResult, Owns, Anchored
<1>20. ASSUME NEW a \in Adapters, NEW ok \in BOOLEAN, FinalizeAtClose(a, ok) PROVE IInv'
  BY <1>20 DEF FinalizeAtClose, Destroy, StreamAfterClose, CloseResult, Owns
<1>21. CASE BeginClose
  BY <1>21 DEF BeginClose, Running
<1>22. CASE Exit
  BY <1>22 DEF Exit
<1>23. CASE UNCHANGED vars
  BY <1>23 DEF vars
<1> HIDE NamesDistinct, FormatsPositive
         DEF IInv, TypeOK, Coupled, Exclusive, AnchoredAlive, NothingMade,
             Adapters, Std, heap, defaults, iters, reads
<1>24. CASE OpenStep
  BY <1>2, <1>3, <1>4, <1>5, <1>24 DEF OpenStep
<1>25. CASE DefaultStep
  BY <1>6, <1>7, <1>8, <1>9, <1>25 DEF DefaultStep
<1>26. CASE IteratorStep
  BY <1>10, <1>11, <1>12, <1>13, <1>14, <1>26 DEF IteratorStep
<1>27. CASE FileStep
  BY <1>15, <1>16, <1>17, <1>18, <1>27 DEF FileStep
<1>28. CASE CollectorStep
  BY <1>19, <1>20, <1>28 DEF CollectorStep
<1>29. QED
  BY <1>1, <1>21, <1>22, <1>23, <1>24, <1>25, <1>26, <1>27, <1>28
  DEF Next, Terminated

\* IInv holds in every state of every execution.
THEOREM Invariance == Spec => []IInv
<1>1. Init => IInv
  BY InitEstablishesIInv
<1>2. IInv /\ [Next]_vars => IInv'
  BY NextKeepsIInv
<1>3. QED BY <1>1, <1>2, PTL DEF Spec

-----------------------------------------------------------------------------
(* Consequences of IInv. *)

\* The variables keep their types.
THEOREM TypeCorrect == Spec => []TypeOK
<1>1. IInv => TypeOK
  BY DEF IInv
<1>2. QED BY <1>1, Invariance, PTL

\* m_StdInput and m_StdOutput equal the registry's entries, whatever a running
\* script can call is alive, and a closing iterator has its adapter.
THEOREM CallablesAlive == Spec => []CallableAlive
<1>1. IInv => CallableAlive
  BY DEF IInv, CallableAlive, AnchoredAlive, Callable, Exclusive
<1>2. QED BY <1>1, Invariance, PTL

\* A live adapter points to a LuaBoostFile that exists, and is "closed" only
\* when its stream is; an open stream has a live adapter that will close it.
THEOREM HandlesTruthful == Spec => []HandleTruthful
<1>1. ASSUME IInv, NEW a \in Adapters, mem[a] = "live"
      PROVE  /\ ptr[a] => file[a] \in {"open", "shut"}
             /\ ~ptr[a] => file[a] = "deleted" /\ stream[a] = "closed"
  BY <1>1 DEF IInv, Coupled
<1>2. ASSUME IInv, NEW a \in Users, stream[a] = "open"
      PROVE  mem[a] = "live" /\ ptr[a] /\ file[a] = "open"
  <2>1. Coupled(a) /\ mem[a] \in {"none", "live", "collected"}
    BY <1>2 DEF IInv, TypeOK, Adapters
  <2>2. QED BY <1>2, <2>1 DEF Coupled
<1>3. IInv => HandleTruthful
  BY <1>1, <1>2 DEF HandleTruthful
<1>4. QED BY <1>3, Invariance, PTL

\* The process's own streams are never closed; at the exit every stream of a script
\* is closed and every LuaBoostFile deleted.
THEOREM EverythingReleased == Spec => []AllReleased
<1>1. ASSUME IInv, NEW a \in Std PROVE stream[a] # "closed"
  BY <1>1 DEF IInv, Coupled, Adapters
<1>2. ASSUME IInv, vm = "exited", NEW a \in Adapters
      PROVE  /\ file[a] \in {"none", "deleted"}
             /\ a \in Users => stream[a] # "open"
  <2>1. Coupled(a) /\ mem[a] \in {"none", "collected"}
    BY <1>2 DEF IInv, TypeOK
  <2>2. CASE a \in Std
    BY <1>2, <2>2, NamesDistinct DEF IInv
  <2>3. CASE a \in Users
    BY <1>2, <2>1, <2>3 DEF Coupled
  <2>4. QED BY <2>2, <2>3 DEF Adapters
<1>3. IInv => AllReleased
  BY <1>1, <1>2 DEF AllReleased
<1>4. QED BY <1>3, Invariance, PTL

-----------------------------------------------------------------------------
(* The counter of open files. *)

\* Any set of adapters a script created can be counted.
LEMMA UsersCountable ==
  ASSUME NEW S, S \subseteq Users
  PROVE  IsFiniteSet(S) /\ Cardinality(S) \in Nat
  BY UsersFinite, FS_Subset, FS_CardinalityType

\* Opening one more stream makes one more open stream.
LEMMA OneMoreOpen ==
  ASSUME TypeOK, NEW a \in Users, stream[a] # "open",
         stream' = [stream EXCEPT ![a] = "open"]
  PROVE  Cardinality(OpenStreams') = Cardinality(OpenStreams) + 1
<1>1. OpenStreams' = OpenStreams \cup {a} /\ a \notin OpenStreams
  BY DEF OpenStreams, TypeOK, Adapters
<1>2. IsFiniteSet(OpenStreams)
  BY UsersCountable DEF OpenStreams
<1>3. QED BY <1>1, <1>2, FS_AddElement

\* Closing an open stream makes one less.
LEMMA OneLessOpen ==
  ASSUME TypeOK, NEW a \in Users, stream[a] = "open",
         stream' = [stream EXCEPT ![a] = "closed"]
  PROVE  Cardinality(OpenStreams') = Cardinality(OpenStreams) - 1
<1>1. OpenStreams' = OpenStreams \ {a} /\ a \in OpenStreams
  BY DEF OpenStreams, TypeOK, Adapters
<1>2. IsFiniteSet(OpenStreams)
  BY UsersCountable DEF OpenStreams
<1>3. QED BY <1>1, <1>2, FS_RemoveElement

\* fclose never makes more open streams than there were.
LEMMA CloseOpensNone ==
  ASSUME TypeOK, NEW a \in Adapters,
         stream' = [stream EXCEPT ![a] = StreamAfterClose(a)]
  PROVE  Cardinality(OpenStreams') <= Cardinality(OpenStreams)
<1>1. OpenStreams' \subseteq OpenStreams
  BY DEF OpenStreams, TypeOK, Adapters, StreamAfterClose
<1>2. IsFiniteSet(OpenStreams)
  BY UsersCountable DEF OpenStreams
<1>3. QED BY <1>1, <1>2, FS_Subset

\* close() of an adapter that is alive subtracts one from the counter only when
\* an open stream was closed.
LEMMA CloseCounts ==
  ASSUME IInv, CountCoversOpen, NEW a \in Adapters, NEW ok \in BOOLEAN,
         mem[a] = "live", ptr[a],
         stream' = [stream EXCEPT ![a] = StreamAfterClose(a)],
         count' = IF CloseResult(a, ok) THEN count - 1 ELSE count
  PROVE  CountCoversOpen'
<1>1. TypeOK /\ Coupled(a) /\ count \in Int
  BY DEF IInv, TypeOK
<1>2. Cardinality(OpenStreams) \in Nat /\ Cardinality(OpenStreams') \in Nat
  BY UsersCountable DEF OpenStreams
<1>3. CASE CloseResult(a, ok)
  <2>1. a \in Users /\ stream[a] = "open"
    BY <1>1, <1>3 DEF Coupled, CloseResult, Owns
  <2>2. stream' = [stream EXCEPT ![a] = "closed"]
    BY <1>3 DEF StreamAfterClose, CloseResult
  <2>3. Cardinality(OpenStreams') = Cardinality(OpenStreams) - 1
    BY <1>1, <2>1, <2>2, OneLessOpen
  <2>4. QED BY <1>1, <1>2, <1>3, <2>3 DEF CountCoversOpen
<1>4. CASE ~CloseResult(a, ok)
  <2>1. Cardinality(OpenStreams') <= Cardinality(OpenStreams)
    BY <1>1, CloseOpensNone
  <2>2. QED BY <1>1, <1>2, <1>4, <2>1 DEF CountCoversOpen
<1>5. QED BY <1>3, <1>4

\* A successful open adds one to both sides.
LEMMA OpenCounts ==
  ASSUME IInv, CountCoversOpen, NEW a \in Users, NewOpen(a)
  PROVE  CountCoversOpen'
<1>1. TypeOK /\ Coupled(a) /\ count \in Int
  BY DEF IInv, TypeOK, Adapters
<1>2. Cardinality(OpenStreams') = Cardinality(OpenStreams) + 1
  BY <1>1, OneMoreOpen DEF NewOpen, Coupled
<1>3. Cardinality(OpenStreams) \in Nat
  BY UsersCountable DEF OpenStreams
<1>4. QED BY <1>1, <1>2, <1>3 DEF NewOpen, CountCoversOpen

\* opened_files_count never falls below the number of open streams.
THEOREM CountCovers == Spec => []CountCoversOpen
<1>1. Init => CountCoversOpen
  <2> SUFFICES ASSUME Init PROVE CountCoversOpen
    OBVIOUS
  <2>1. OpenStreams = {}
    BY DEF Init, OpenStreams, Adapters
  <2>2. QED BY <2>1, FS_EmptySet DEF Init, CountCoversOpen
<1>2. IInv /\ CountCoversOpen /\ [Next]_vars => CountCoversOpen'
  <2> SUFFICES ASSUME IInv, CountCoversOpen, [Next]_vars
               PROVE  CountCoversOpen'
    OBVIOUS
  <2>1. CASE stream' = stream /\ count' = count
    BY <2>1 DEF CountCoversOpen, OpenStreams
  <2>2. ASSUME NEW a \in Users, NewOpen(a) PROVE CountCoversOpen'
    BY <2>2, OpenCounts
  <2>3. CASE StartVM
    <3>1. OpenStreams' = OpenStreams /\ count' = count
      BY <2>3, NamesDistinct
      DEF StartVM, OpenStreams, IInv, TypeOK, Adapters
    <3>2. QED BY <3>1 DEF CountCoversOpen
  <2>4. ASSUME NEW i \in Iters, IteratorEnds(i) PROVE CountCoversOpen'
    <3>1. TypeOK /\ iterOf[i] \in Adapters /\ count \in Int /\ count' = count
      BY <2>4 DEF IteratorEnds, IInv, TypeOK
    <3>2. Cardinality(OpenStreams') <= Cardinality(OpenStreams)
      BY <2>4, <3>1, CloseOpensNone DEF IteratorEnds
    <3>3. Cardinality(OpenStreams) \in Nat /\ Cardinality(OpenStreams') \in Nat
      BY UsersCountable DEF OpenStreams
    <3>4. QED BY <3>1, <3>2, <3>3 DEF CountCoversOpen
  <2>5. ASSUME NEW a \in Adapters, NEW ok \in BOOLEAN, Close(a, ok)
        PROVE  CountCoversOpen'
    <3>1. mem[a] = "live" /\ ptr[a]
      BY <2>5 DEF Close, Running, Callable, IInv, AnchoredAlive
    <3>2. QED BY <2>5, <3>1, CloseCounts DEF Close
  <2>6. ASSUME NEW a \in Adapters, NEW ok \in BOOLEAN, Destroy(a, ok)
        PROVE  CountCoversOpen'
    <3>1. CASE ptr[a]
      BY <2>6, <3>1, CloseCounts DEF Destroy
    <3>2. CASE ~ptr[a]
      BY <2>1, <2>6, <3>2 DEF Destroy
    <3>3. QED BY <3>1, <3>2
  <2>7. QED
    BY <2>1, <2>2, <2>3, <2>4, <2>5, <2>6
    DEF Next, OpenStep, DefaultStep, IteratorStep, FileStep, CollectorStep,
        OpenSucceeds, OpenFails, InputFile, OutputFile, InputAdapter,
        OutputAdapter, GetDefault, DropRef, LinesOfName, LinesOfAdapter,
        IteratorFaults, DropIterator, BeginRead, ContinueRead, UseShutFile,
        Collect, FinalizeAtClose, BeginClose, Exit, Terminated, Fault,
        vars, heap
<1>3. QED BY <1>1, <1>2, Invariance, PTL DEF Spec

-----------------------------------------------------------------------------
(* LuaIO implements FileHandles. *)

\* The abstract state of the files.
States == [a \in Users |-> stream[a]]

\* A step that leaves the streams alone and brings nothing into reach is Forget.
LEMMA ForgetStep ==
  ASSUME stream' = stream, Reach' \subseteq Reach
  PROVE  Handles!Next
  BY DEF Handles!Next, Handles!Forget

\* A new stream that the script refers to is Open.
LEMMA OpeningIsOpen ==
  ASSUME IInv, NEW a \in Users, NewOpen(a),
         a \in Reach', Reach' \subseteq Reach \cup {a}
  PROVE  Handles!Next
<1>1. States[a] = "none" /\ States' = [States EXCEPT ![a] = "open"]
  BY DEF States, NewOpen, IInv, TypeOK, Coupled, Adapters
<1>2. Handles!Open(a)
  BY <1>1 DEF Handles!Open, States
<1>3. QED BY <1>2 DEF Handles!Next

\* fclose on an adapter with a file is Close when the script can reach it and
\* Reclaim when it cannot; on a closed or a standard file it changes nothing.
LEMMA CloseStep ==
  ASSUME IInv, NEW a \in Adapters, mem[a] = "live", ptr[a],
         stream' = [stream EXCEPT ![a] = StreamAfterClose(a)], Reach' = Reach
  PROVE  Handles!Next
<1>1. TypeOK /\ Coupled(a)
  BY DEF IInv
<1>2. CASE StreamAfterClose(a) = stream[a]
  <2>1. stream' = stream
    BY <1>1, <1>2 DEF TypeOK
  <2>2. QED BY <2>1, ForgetStep
<1>3. CASE StreamAfterClose(a) # stream[a]
  <2>1. a \in Users /\ States[a] = "open"
    BY <1>1, <1>3 DEF StreamAfterClose, Owns, Coupled, States
  <2>2. States' = [States EXCEPT ![a] = "closed"]
    <3>1. stream' = [stream EXCEPT ![a] = "closed"]
      BY <1>3 DEF StreamAfterClose
    <3>2. QED BY <1>1, <2>1, <3>1 DEF States, TypeOK, Adapters
  <2>3. Handles!Close(a) \/ Handles!Reclaim(a)
    BY <2>1, <2>2 DEF Handles!Close, Handles!Reclaim, States
  <2>4. QED BY <2>1, <2>3 DEF Handles!Next
<1>4. QED BY <1>2, <1>3

\* Every step of the library is a step of FileHandles.
LEMMA NextImplementsHandles ==
  ASSUME IInv, [Next]_vars
  PROVE  [Handles!Next]_<<States, Reach>>
<1> USE DEF heap, defaults, iters, reads
<1>0. defIn = regIn /\ defOut = regOut
  BY DEF IInv
<1>1. CASE UNCHANGED vars
  BY <1>1, ForgetStep DEF vars, Reach, Anchored
<1>2. CASE StartVM
  <2>1. States' = States
    BY <1>2, NamesDistinct DEF StartVM, States, IInv, TypeOK, Adapters
  <2>2. Reach = {} /\ held' = {} /\ iterOf' = iterOf
    BY <1>2 DEF StartVM, Reach, IInv, NothingMade
  <2>3. \A i \in Iters : iterOf[i] = NoOne
    BY <1>2 DEF StartVM, IInv, NothingMade
  <2>4. Anchored' \subseteq Std \cup {NoOne}
    BY <1>2, <2>2, <2>3 DEF StartVM, Anchored, Std
  <2>5. Reach' = {}
    BY <2>4, NamesDistinct DEF Reach, Adapters
  <2>6. QED BY <2>1, <2>2, <2>5
<1>3. ASSUME NEW a \in Users,
             OpenSucceeds(a) \/ InputFile(a) \/ OutputFile(a)
      PROVE  Handles!Next
  BY <1>3, OpeningIsOpen, NamesDistinct
  DEF OpenSucceeds, InputFile, SetField, OutputFile, Running, Reach, Anchored
<1>4. ASSUME NEW i \in Iters, NEW a \in Users, LinesOfName(i, a)
      PROVE  Handles!Next
  BY <1>4, OpeningIsOpen, NamesDistinct
  DEF LinesOfName, CloseFile, NewIterator, Running, Reach, Anchored, IInv, TypeOK
<1>5. ASSUME NEW a \in Adapters, InputAdapter(a) \/ OutputAdapter(a)
      PROVE  Handles!Next
  BY <1>0, <1>5, ForgetStep
  DEF InputAdapter, SetField, OutputAdapter, Running, Reach, Anchored, Callable
<1>6. ASSUME NEW a \in Adapters, GetDefault(a) \/ DropRef(a)
      PROVE  Handles!Next
  BY <1>6, ForgetStep DEF GetDefault, DropRef, Running, Reach, Anchored
<1>7. ASSUME NEW i \in Iters, NEW a \in Adapters, NEW keep \in BOOLEAN,
             LinesOfAdapter(i, a, keep)
      PROVE  Handles!Next
  BY <1>7, ForgetStep
  DEF LinesOfAdapter, CloseFile, NewIterator, Running, Reach, Anchored, IInv, TypeOK
<1>8. ASSUME NEW i \in Iters, IteratorEnds(i) PROVE Handles!Next
  <2>1. iterOf[i] \in Adapters
    BY <1>8 DEF IteratorEnds, IInv, TypeOK
  <2>2. Reach' = Reach
    BY <1>8 DEF IteratorEnds, Reach, Anchored
  <2>3. QED BY <1>8, <2>1, <2>2, CloseStep DEF IteratorEnds
<1>9. ASSUME NEW i \in Iters, DropIterator(i) PROVE Handles!Next
  BY <1>9, ForgetStep
  DEF DropIterator, Running, Reach, Anchored, IInv, TypeOK
<1>10. ASSUME NEW a \in Adapters, NEW n \in 1..MaxFormats,
              NEW keep \in BOOLEAN, BeginRead(a, n, keep)
       PROVE  Handles!Next
  BY <1>10, ForgetStep DEF BeginRead, Running, Reach, Anchored
<1>11. ASSUME NEW a \in Adapters, NEW ok \in BOOLEAN, Close(a, ok)
       PROVE  Handles!Next
  <2>1. mem[a] = "live" /\ ptr[a]
    BY <1>11 DEF Close, Running, Callable, IInv, AnchoredAlive
  <2>2. QED BY <1>11, <2>1, CloseStep DEF Close, Reach, Anchored
<1>12. ASSUME NEW a \in Adapters, NEW ok \in BOOLEAN, Destroy(a, ok)
       PROVE  Handles!Next
  <2>1. CASE ptr[a]
    BY <1>12, <2>1, CloseStep DEF Destroy, Reach, Anchored
  <2>2. CASE ~ptr[a]
    BY <1>12, <2>2, ForgetStep DEF Destroy, Reach, Anchored
  <2>3. QED BY <2>1, <2>2
<1>13. ASSUME vm' # vm => vm' # "up", UNCHANGED <<stream, held, regIn, regOut>>,
              UNCHANGED iters
       PROVE  Handles!Next
  BY <1>13, ForgetStep DEF Reach, Anchored
<1>14. QED
  BY <1>1, <1>2, <1>3, <1>4, <1>5, <1>6, <1>7, <1>8, <1>9, <1>10, <1>11, <1>12,
     <1>13
  DEF Next, OpenStep, DefaultStep, IteratorStep, FileStep, CollectorStep,
      OpenFails, IteratorFaults, ContinueRead, UseShutFile, Fault, BeginClose,
      Collect, FinalizeAtClose, Exit, Terminated, Running

\* The library implements FileHandles: no stream is closed under a script that
\* can reach it except by that script, and nothing comes back into reach.
THEOREM ImplementsFileHandles == Spec => HandlesSpec
<1>1. Init => Handles!Init
  BY NamesDistinct
  DEF Init, Handles!Init, Reach, Adapters
<1>2. IInv /\ [Next]_vars => [Handles!Next]_<<States, Reach>>
  BY NextImplementsHandles
<1>3. QED BY <1>1, <1>2, Invariance, PTL DEF Spec, HandlesSpec, Handles!Spec, States

=============================================================================
