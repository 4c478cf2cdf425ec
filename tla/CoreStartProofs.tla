--------------------------- MODULE CoreStartProofs ---------------------------
(***************************************************************************)
(* For any packs, templates and number of lua_States: a search through the *)
(* templates may be interleaved with additions to the registry, because an *)
(* answer of find_node is never taken back. What a search has seen stays   *)
(* true until it ends.                                                     *)
(***************************************************************************)
EXTENDS CoreStart, TLAPS

Begins(s, t) == Len(s) <= Len(t) /\ \A i \in 1..Len(s) : t[i] = s[i]

Searched(v) == Templates[tried[v] + 1][module[v]]

\* The list a search began with is still the beginning of the list.
SinceInv == \A v \in VMs : Begins(since[v], resources)

\* rc_load will find what readable has found.
ReadyInv == \A v \in VMs : pc[v] = "load" => file[v] \in ReadableFile(resources, Searched(v))

\* There is no result before the search ends.
ResultInv == \A v \in VMs : pc[v] \in {"find", "load"} => result[v] = Nothing

IInv ==
  /\ TypeOK /\ SinceInv /\ ReadyInv /\ ResultInv
  /\ LoadsWhatWasReadable /\ NothingOverlooked

-----------------------------------------------------------------------------
(* Lookup *)

\* What find_node returns is in the tree of a pack that was added.
LEMMA FoundInTree ==
  ASSUME NEW packs \in Seq(Packs), NEW s, NEW id \in FindNode(packs, s)
  PROVE  /\ id = [pack |-> id.pack, path |-> Split(s)]
         /\ id.pack \in Packs /\ Split(s) \in DOMAIN Tree[id.pack]
<1>1. PICK i \in FirstWith(packs, Split(s)) : id = [pack |-> packs[i], path |-> Split(s)]
  BY DEF FindNode
<1>2. i \in 1..Len(packs) /\ Find(Tree[packs[i]], Split(s)) # {}
  BY DEF FirstWith, Has
<1>3. packs[i] \in Packs
  BY <1>2
<1>4. Split(s) \in DOMAIN Tree[packs[i]]
  BY <1>2 DEF Find
<1>5. QED BY <1>1, <1>3, <1>4

\* A readable file is one of the files.
LEMMA ReadableIsFile ==
  ASSUME NEW packs \in Seq(Packs), NEW s
  PROVE  ReadableFile(packs, s) \subseteq FileIds
<1> SUFFICES ASSUME NEW id \in ReadableFile(packs, s) PROVE id \in FileIds
  OBVIOUS
<1>1. id \in FindNode(packs, s) /\ IsFile(id)
  BY DEF ReadableFile
<1>2. /\ id = [pack |-> id.pack, path |-> Split(s)]
      /\ id.pack \in Packs /\ Split(s) \in DOMAIN Tree[id.pack]
  BY <1>1, FoundInTree
<1>3. id \in [pack : {id.pack}, path : DOMAIN Tree[id.pack]]
  BY <1>2
<1>4. QED BY <1>1, <1>2, <1>3 DEF FileIds

\* There is at most one answer.
LEMMA OneAnswer ==
  ASSUME NEW packs \in Seq(Packs), NEW s,
         NEW a \in FindNode(packs, s), NEW b \in FindNode(packs, s)
  PROVE  a = b
<1>1. PICK i \in FirstWith(packs, Split(s)) : a = [pack |-> packs[i], path |-> Split(s)]
  BY DEF FindNode
<1>2. PICK j \in FirstWith(packs, Split(s)) : b = [pack |-> packs[j], path |-> Split(s)]
  BY DEF FindNode
<1>3. /\ i \in 1..Len(packs) /\ Has(packs[i], Split(s))
      /\ \A k \in 1..i - 1 : ~Has(packs[k], Split(s))
  BY DEF FirstWith
<1>4. /\ j \in 1..Len(packs) /\ Has(packs[j], Split(s))
      /\ \A k \in 1..j - 1 : ~Has(packs[k], Split(s))
  BY DEF FirstWith
<1>5. ~(i < j) /\ ~(j < i)
  BY <1>3, <1>4
<1>6. i = j
  BY <1>3, <1>4, <1>5
<1>7. QED BY <1>1, <1>2, <1>6

\* A name that a list finds is found in the same place by every list that
\* begins with it.
LEMMA AnswerKept ==
  ASSUME NEW old \in Seq(Packs), NEW new \in Seq(Packs), Begins(old, new), NEW s,
         FindNode(old, s) # {}
  PROVE  FindNode(new, s) = FindNode(old, s)
<1>1. PICK i \in FirstWith(old, Split(s)) : TRUE
  BY DEF FindNode
<1>2. /\ i \in 1..Len(old) /\ Has(old[i], Split(s))
      /\ \A j \in 1..i - 1 : ~Has(old[j], Split(s))
  BY DEF FirstWith
<1>3. /\ i \in 1..Len(new) /\ new[i] = old[i]
      /\ \A j \in 1..i - 1 : j \in 1..Len(old) /\ new[j] = old[j]
  BY <1>2 DEF Begins
<1>4. /\ Has(new[i], Split(s))
      /\ \A j \in 1..i - 1 : ~Has(new[j], Split(s))
  BY <1>2, <1>3
<1>5. i \in FirstWith(new, Split(s))
  BY <1>3, <1>4 DEF FirstWith
<1> DEFINE a == [pack |-> old[i], path |-> Split(s)]
<1>6. a \in FindNode(old, s)
  BY <1>1 DEF FindNode
<1>7. a \in FindNode(new, s)
  BY <1>3, <1>5 DEF FindNode
<1>8. FindNode(old, s) = {a}
  BY <1>6, OneAnswer
<1>9. FindNode(new, s) = {a}
  BY <1>7, OneAnswer
<1>10. QED BY <1>8, <1>9

\* The same of files: neither is one lost, nor does one come from a list that
\* begins with a list that had none, unless the name was free.
LEMMA ReadableKept ==
  ASSUME NEW old \in Seq(Packs), NEW new \in Seq(Packs), Begins(old, new), NEW s
  PROVE  /\ ReadableFile(old, s) \subseteq ReadableFile(new, s)
         /\ ReadableFile(new, s) = {} => ReadableFile(old, s) = {}
<1>1. CASE FindNode(old, s) = {}
  BY <1>1 DEF ReadableFile
<1>2. CASE FindNode(old, s) # {}
  BY <1>2, AnswerKept DEF ReadableFile
<1>3. QED BY <1>1, <1>2

LEMMA BeginsAppend ==
  ASSUME NEW s \in Seq(Packs), NEW t \in Seq(Packs), Begins(s, t), NEW p \in Packs
  PROVE  /\ Append(t, p) \in Seq(Packs)
         /\ Begins(s, Append(t, p)) /\ Begins(t, Append(t, p))
  BY DEF Begins

LEMMA BeginsItself ==
  ASSUME NEW s \in Seq(Packs)
  PROVE  Begins(s, s)
  BY DEF Begins

-----------------------------------------------------------------------------
(* IInv is inductive. *)

LEMMA InitIInv == Init => IInv
<1> SUFFICES ASSUME Init PROVE IInv
  OBVIOUS
<1>1. TypeOK
  BY PacksAssumption DEF Init, TypeOK
<1>2. SinceInv
  BY DEF Init, SinceInv, Begins
<1>3. ReadyInv /\ ResultInv /\ LoadsWhatWasReadable
  BY DEF Init, ReadyInv, ResultInv, LoadsWhatWasReadable
<1>4. NothingOverlooked
  BY DEF Init, NothingOverlooked
<1>5. QED BY <1>1, <1>2, <1>3, <1>4 DEF IInv

\* What the registry's growth leaves true of searches that do not move.
LEMMA RegistryGrows ==
  ASSUME IInv, NEW p \in Packs, resources' = Added(p)
  PROVE  /\ resources' \in Seq(Packs)
         /\ \A v \in VMs : Begins(since[v], resources')
         /\ \A s : ReadableFile(resources, s) \subseteq ReadableFile(resources', s)
<1>1. resources \in Seq(Packs) /\ Begins(resources, resources)
      /\ \A v \in VMs : since[v] \in Seq(Packs) /\ Begins(since[v], resources)
  BY BeginsItself DEF IInv, TypeOK, SinceInv
<1>2. resources' = Append(resources, p)
  BY DEF Added
<1>3. resources' \in Seq(Packs) /\ Begins(resources, resources')
  BY <1>1, <1>2, BeginsAppend
<1>4. \A v \in VMs : Begins(since[v], resources')
  BY <1>1, <1>2, BeginsAppend
<1>5. QED BY <1>1, <1>3, <1>4, ReadableKept

\* A step that leaves every search alone and at most adds a pack.
LEMMA SearchesKept ==
  ASSUME IInv, UNCHANGED search,
         (\E p \in Packs : resources' = Added(p)) \/ UNCHANGED resources,
         \A v \in VMs : pc'[v] = pc[v] \/ {pc[v], pc'[v]} \subseteq {"none", "base", "up"}
  PROVE  /\ SinceInv' /\ ReadyInv' /\ ResultInv'
         /\ LoadsWhatWasReadable' /\ NothingOverlooked'
<1>1. /\ \A v \in VMs : Begins(since[v], resources')
      /\ \A s : ReadableFile(resources, s) \subseteq ReadableFile(resources', s)
  <2>1. CASE \E p \in Packs : resources' = Added(p)
    BY <2>1, RegistryGrows
  <2>2. CASE UNCHANGED resources
    BY <2>2 DEF IInv, SinceInv
  <2>3. QED BY <2>1, <2>2
<1>2. SinceInv'
  BY <1>1 DEF SinceInv, search
<1>3. ReadyInv'
  <2> SUFFICES ASSUME NEW v \in VMs, pc'[v] = "load"
               PROVE  file'[v] \in ReadableFile(resources', Searched(v)')
    BY DEF ReadyInv
  <2>1. pc[v] = "load"
    OBVIOUS
  <2>2. file[v] \in ReadableFile(resources, Searched(v))
    BY <2>1 DEF IInv, ReadyInv
  <2>3. Searched(v)' = Searched(v) /\ file'[v] = file[v]
    BY DEF Searched, search
  <2>4. QED BY <1>1, <2>2, <2>3
<1>4. ResultInv'
  <2> SUFFICES ASSUME NEW v \in VMs, pc'[v] \in {"find", "load"} PROVE result'[v] = Nothing
    BY DEF ResultInv
  <2>1. pc[v] = pc'[v]
    OBVIOUS
  <2>2. QED BY <2>1 DEF IInv, ResultInv, search
<1>5. LoadsWhatWasReadable'
  BY DEF IInv, LoadsWhatWasReadable, search
<1>6. NothingOverlooked'
  BY DEF IInv, NothingOverlooked, search
<1>7. QED BY <1>2, <1>3, <1>4, <1>5, <1>6

LEMMA NextIInv == IInv /\ [Next]_vars => IInv'
<1> SUFFICES ASSUME IInv, [Next]_vars PROVE IInv'
  OBVIOUS
<1> USE DEF IInv
<1>1. ASSUME NEW p \in Packs \ {Core}, AddResource(p) PROVE IInv'
  <2>1. SinceInv' /\ ReadyInv' /\ ResultInv' /\ LoadsWhatWasReadable' /\ NothingOverlooked'
    BY <1>1, SearchesKept DEF AddResource
  <2>2. resources' \in Seq(Packs)
    BY <1>1, RegistryGrows DEF AddResource
  <2>3. TypeOK'
    BY <1>1, <2>2 DEF AddResource, TypeOK, search
  <2>4. QED BY <2>1, <2>3
<1>2. ASSUME NEW v \in VMs, StartVM(v) PROVE IInv'
  <2>1. SinceInv' /\ ReadyInv' /\ ResultInv' /\ LoadsWhatWasReadable' /\ NothingOverlooked'
    BY <1>2, SearchesKept, PacksAssumption DEF StartVM, TypeOK
  <2>2. resources' \in Seq(Packs)
    BY <1>2, RegistryGrows, PacksAssumption DEF StartVM
  <2>3. ASSUME NEW dir \in FindNode(resources', Base)
        PROVE  FilesBelow(dir) \subseteq FileIds
    <3> SUFFICES ASSUME NEW q \in DOMAIN Tree[dir.pack], Tree[dir.pack][q] # Dir
                 PROVE  [pack |-> dir.pack, path |-> q] \in FileIds
      BY DEF FilesBelow
    <3>1. dir.pack \in Packs
      BY <2>2, <2>3, FoundInTree
    <3>2. [pack |-> dir.pack, path |-> q] \in [pack : {dir.pack}, path : DOMAIN Tree[dir.pack]]
      OBVIOUS
    <3>3. QED BY <3>1, <3>2 DEF FileIds, IsFile
  <2>4. scripts' \in [VMs -> SUBSET FileIds]
    BY <1>2, <2>3 DEF StartVM, TypeOK
  <2>5. TypeOK'
    BY <1>2, <2>2, <2>4 DEF StartVM, TypeOK, search
  <2>6. QED BY <2>1, <2>5
<1>3. ASSUME NEW v \in VMs, NEW id \in scripts[v], LoadScript(v, id) PROVE IInv'
  <2>1. SinceInv' /\ ReadyInv' /\ ResultInv' /\ LoadsWhatWasReadable' /\ NothingOverlooked'
    BY <1>3, SearchesKept DEF LoadScript
  <2>2. ReadableFile(resources, GetFullName(id.path)) \subseteq FileIds
    BY ReadableIsFile DEF TypeOK
  <2>3. TypeOK'
    BY <1>3, <2>2 DEF LoadScript, TypeOK, search
  <2>4. QED BY <2>1, <2>3
<1>4. ASSUME NEW v \in VMs, Started(v) PROVE IInv'
  <2>1. SinceInv' /\ ReadyInv' /\ ResultInv' /\ LoadsWhatWasReadable' /\ NothingOverlooked'
    BY <1>4, SearchesKept DEF Started, TypeOK
  <2>2. TypeOK'
    BY <1>4 DEF Started, TypeOK, search
  <2>3. QED BY <2>1, <2>2
<1>5. ASSUME NEW v \in VMs, NEW m \in Modules, Require(v, m) PROVE IInv'
  <2>1. TypeOK'
    BY <1>5, PacksAssumption DEF Require, TypeOK
  <2>2. SinceInv'
    BY <1>5, BeginsItself DEF Require, TypeOK, SinceInv
  <2>3. ReadyInv'
    BY <1>5 DEF Require, TypeOK, ReadyInv, Searched
  <2>4. ResultInv' /\ LoadsWhatWasReadable'
    BY <1>5 DEF Require, TypeOK, ResultInv, LoadsWhatWasReadable
  <2>5. NothingOverlooked'
    <3> SUFFICES ASSUME NEW w \in VMs, NEW k \in 1..tried'[w]
                 PROVE  ReadableFile(since'[w], Templates[k][module'[w]]) = {}
      BY DEF NothingOverlooked
    <3>1. w # v
      <4>1. w = v => tried'[w] = 0
        BY <1>5 DEF Require, TypeOK
      <4>2. QED BY <4>1
    <3>2. tried'[w] = tried[w] /\ since'[w] = since[w] /\ module'[w] = module[w]
      BY <1>5, <3>1 DEF Require, TypeOK
    <3>3. QED BY <3>2 DEF NothingOverlooked
  <2>6. QED BY <2>1, <2>2, <2>3, <2>4, <2>5
<1>6. ASSUME NEW v \in VMs, TryTemplate(v) PROVE IInv'
  <2> DEFINE found == ReadableFile(resources, Searched(v))
  <2>1. found \subseteq FileIds
    BY ReadableIsFile DEF TypeOK
  <2>2. /\ pc[v] = "find" /\ UNCHANGED <<resources, scripts, loaded, module, since, result>>
        /\ \/ /\ tried[v] = Len(Templates)
              /\ pc' = [pc EXCEPT ![v] = "up"]
              /\ UNCHANGED <<tried, file>>
           \/ /\ tried[v] < Len(Templates) /\ found = {}
              /\ tried' = [tried EXCEPT ![v] = @ + 1]
              /\ UNCHANGED <<pc, file>>
           \/ /\ tried[v] < Len(Templates)
              /\ \E id \in found : file' = [file EXCEPT ![v] = id]
              /\ pc' = [pc EXCEPT ![v] = "load"]
              /\ UNCHANGED tried
    BY <1>6 DEF TryTemplate, Searched
  <2>3. TypeOK'
    <3>1. tried' \in [VMs -> 0..Len(Templates)]
      <4>1. tried \in [VMs -> 0..Len(Templates)]
        BY DEF TypeOK
      <4>2. CASE UNCHANGED tried
        BY <4>1, <4>2
      <4>3. CASE tried[v] < Len(Templates) /\ tried' = [tried EXCEPT ![v] = tried[v] + 1]
        <5>1. tried[v] + 1 \in 0..Len(Templates)
          BY <4>1, <4>3, PacksAssumption
        <5>2. QED BY <4>1, <4>3, <5>1
      <4>4. QED BY <2>2, <4>2, <4>3
    <3>2. file' \in [VMs -> FileIds \cup {Nothing}]
      BY <2>1, <2>2 DEF TypeOK
    <3>3. pc' \in [VMs -> {"none", "base", "up", "find", "load"}]
      BY <2>2 DEF TypeOK
    <3>4. QED BY <2>2, <3>1, <3>2, <3>3 DEF TypeOK
  <2>4. SinceInv'
    BY <2>2 DEF SinceInv
  <2>5. ReadyInv'
    <3> SUFFICES ASSUME NEW w \in VMs, pc'[w] = "load"
                 PROVE  file'[w] \in ReadableFile(resources, Templates[tried'[w] + 1][module[w]])
      BY <2>2 DEF ReadyInv, Searched
    <3>1. CASE w = v
      BY <2>2, <3>1 DEF TypeOK, Searched
    <3>2. CASE w # v
      BY <2>2, <3>2 DEF TypeOK, ReadyInv, Searched
    <3>3. QED BY <3>1, <3>2
  <2>6. ResultInv'
    BY <2>2 DEF ResultInv, TypeOK
  <2>7. LoadsWhatWasReadable'
    BY <2>2 DEF LoadsWhatWasReadable, ResultInv, TypeOK
  <2>8. NothingOverlooked'
    <3> SUFFICES ASSUME NEW w \in VMs, NEW k \in 1..tried'[w]
                 PROVE  ReadableFile(since[w], Templates[k][module[w]]) = {}
      BY <2>2 DEF NothingOverlooked
    <3>1. CASE k \in 1..tried[w]
      BY <3>1 DEF NothingOverlooked
    <3>2. CASE k \notin 1..tried[w]
      <4>1. w = v /\ k = tried[v] + 1 /\ found = {}
        <5>1. tried'[w] # tried[w]
          BY <3>2
        <5>2. found = {} /\ tried' = [tried EXCEPT ![v] = tried[v] + 1]
          BY <2>2, <5>1
        <5>3. tried \in [VMs -> Nat]
          BY PacksAssumption DEF TypeOK
        <5>4. w = v
          BY <5>1, <5>2, <5>3
        <5>5. tried'[v] = tried[v] + 1 /\ tried[v] \in Nat
          BY <5>2, <5>3
        <5>6. k = tried[v] + 1
          BY <3>2, <5>4, <5>5
        <5>7. QED BY <5>2, <5>4, <5>6
      <4>2. since[v] \in Seq(Packs) /\ resources \in Seq(Packs) /\ Begins(since[v], resources)
        BY DEF TypeOK, SinceInv
      <4>3. ReadableFile(since[v], Searched(v)) = {}
        BY <4>1, <4>2, ReadableKept
      <4>4. QED BY <4>1, <4>3 DEF Searched
    <3>3. QED BY <3>1, <3>2
  <2>9. QED BY <2>3, <2>4, <2>5, <2>6, <2>7, <2>8
<1>7. ASSUME NEW v \in VMs, Load(v) PROVE IInv'
  <2> DEFINE found == ReadableFile(resources, Searched(v))
  <2>1. found \subseteq FileIds
    BY ReadableIsFile DEF TypeOK
  <2>2. file[v] \in found
    BY <1>7 DEF Load, ReadyInv
  <2>3. found = {file[v]}
    BY <2>2, OneAnswer DEF ReadableFile, TypeOK
  <2>4. /\ pc[v] = "load" /\ pc' = [pc EXCEPT ![v] = "up"]
        /\ \E r \in {file[v], Syntax} : result' = [result EXCEPT ![v] = r]
        /\ UNCHANGED <<resources, scripts, loaded, module, tried, file, since>>
    BY <1>7, <2>3 DEF Load, Searched
  <2>5. TypeOK'
    BY <2>1, <2>2, <2>4 DEF TypeOK
  <2>6. SinceInv' /\ NothingOverlooked'
    BY <2>4 DEF SinceInv, NothingOverlooked
  <2>7. ReadyInv'
    BY <2>4 DEF TypeOK, ReadyInv, Searched
  <2>8. ResultInv'
    BY <2>4 DEF TypeOK, ResultInv
  <2>9. LoadsWhatWasReadable'
    BY <2>4 DEF TypeOK, LoadsWhatWasReadable
  <2>10. QED BY <2>5, <2>6, <2>7, <2>8, <2>9
<1>8. CASE UNCHANGED vars
  <2>1. SinceInv' /\ ReadyInv' /\ ResultInv' /\ LoadsWhatWasReadable' /\ NothingOverlooked'
    BY <1>8, SearchesKept DEF vars
  <2>2. TypeOK'
    BY <1>8 DEF vars, TypeOK, search
  <2>3. QED BY <2>1, <2>2
<1>9. QED BY <1>1, <1>2, <1>3, <1>4, <1>5, <1>6, <1>7, <1>8 DEF Next

LEMMA Invariance == Spec => []IInv
<1>1. QED BY InitIInv, NextIInv, PTL DEF Spec

-----------------------------------------------------------------------------
(* The theorems *)

\* Every variable of core's start and of the loader keeps its type; what require
\* and core_open take for a script is a file of an added pack.
THEOREM TypeCorrect == Spec => []TypeOK
<1>1. IInv => TypeOK
  BY DEF IInv
<1>2. QED BY <1>1, Invariance, PTL

\* rc_load reads the file that findfile found readable, whatever other threads
\* add between its two lookups.
THEOREM LoaderReadsWhatItFound == Spec => []LoadsWhatWasReadable
<1>1. IInv => LoadsWhatWasReadable
  BY DEF IInv
<1>2. QED BY <1>1, Invariance, PTL

\* require passes over no template that had a file when it was called.
THEOREM SearchIsComplete == Spec => []NothingOverlooked
<1>1. IInv => NothingOverlooked
  BY DEF IInv
<1>2. QED BY <1>1, Invariance, PTL

\* A step leaves the node that a name was found to be.
THEOREM AnswersStay == Spec => AnswersAreStable
<1> DEFINE Stable == \A m \in Modules, k \in 1..Len(Templates) :
                       LET s == Templates[k][m] IN
                       FindNode(resources, s) # {} =>
                         FindNode(resources', s) = FindNode(resources, s)
<1>1. ASSUME IInv, [Next]_vars PROVE [Stable]_resources
  <2>1. CASE UNCHANGED resources
    BY <2>1
  <2>2. CASE \E p \in Packs : resources' = Added(p)
    <3>1. PICK p \in Packs : resources' = Added(p)
      BY <2>2
    <3>2. resources \in Seq(Packs) /\ Begins(resources, resources)
      BY <1>1, BeginsItself DEF IInv, TypeOK
    <3>3. resources' \in Seq(Packs) /\ Begins(resources, resources')
      BY <3>1, <3>2, BeginsAppend DEF Added
    <3>4. Stable
      BY <3>2, <3>3, AnswerKept
    <3>5. QED BY <3>4
  <2>3. UNCHANGED resources \/ \E p \in Packs : resources' = Added(p)
    BY <1>1, PacksAssumption
       DEF Next, vars, AddResource, StartVM, LoadScript, Started, Require, TryTemplate, Load
  <2>4. QED BY <2>1, <2>2, <2>3
<1>2. QED BY <1>1, Invariance, PTL DEF Spec, AnswersAreStable

=============================================================================
