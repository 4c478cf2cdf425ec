------------------------------ MODULE CoreStart ------------------------------
(***************************************************************************)
(* core_open and the loader of core: a starting lua_State adds core's pack *)
(* to the registry and loads the scripts below :/lua/base, and require     *)
(* searches the packs for a module with the templates of rcpath. The list  *)
(* of packs is shared by all lua_States and by the program's own calls of  *)
(* INIT_RESOURCE, so it may grow between any two lookups.                  *)
(*                                                                         *)
(* A string is a sequence of atoms, one of which is the separator. A name  *)
(* in a tree is a string without separators.                               *)
(***************************************************************************)
EXTENDS RCTree

CONSTANTS
  VMs,        \* the lua_States that core_startvm makes
  Packs, Core,
  Tree,       \* Tree[p]: the tree of pack p
  Slash,      \* the atom "/"
  Base,       \* "lua/base"
  Modules,    \* names given to require, with "/" for "."
  Templates,  \* rcpath, as functions from module names to paths
  Nothing, Missing, Syntax,   \* no file yet, and the two ways rc_load fails
  MaxPacks    \* bounds the list m_Resources that a program adds to

ASSUME PacksAssumption == Core \in Packs /\ Len(Templates) \in Nat

VARIABLES
  resources,   \* m_Resources
  pc,
  scripts,     \* the files of core_open's loop that are still to come
  loaded,      \* the files rc_load has read for core_open
  module,      \* the name given to require
  tried,       \* the templates findfile has tried in vain
  file,        \* the file readable() has seen, as [pack, path]
  since,       \* m_Resources when the search began (the model's own)
  result

search == <<module, tried, file, since, result>>
vars == <<resources, pc, scripts, loaded, search>>

IsFile(id) == Tree[id.pack][id.path] # Dir
FileIds == {id \in UNION {[pack : {p}, path : DOMAIN Tree[p]] : p \in Packs} : IsFile(id)}

TypeOK ==
  /\ resources \in Seq(Packs)
  /\ pc \in [VMs -> {"none", "base", "up", "find", "load"}]
  /\ scripts \in [VMs -> SUBSET FileIds] /\ loaded \in [VMs -> SUBSET FileIds]
  /\ module \in [VMs -> Modules \cup {Nothing}]
  /\ tried \in [VMs -> 0..Len(Templates)]
  /\ file \in [VMs -> FileIds \cup {Nothing}]
  /\ since \in [VMs -> Seq(Packs)]
  /\ result \in [VMs -> FileIds \cup {Nothing, Missing, Syntax}]

-----------------------------------------------------------------------------
(* Lookup *)

\* boost::algorithm::split( tokens, s, "/" )
Split(s) ==
  FoldLeft(LAMBDA tokens, c :
             IF c = Slash THEN Append(tokens, <<>>)
             ELSE Append(Front(tokens), Append(Last(tokens), c)),
           <<<<>>>>, s)

\* Node::getFullName, without the ":/" of the root: names joined as they are.
GetFullName(path) == FlattenSeq(path)

\* rc::find_node: the node in the first pack that has the path.
Has(p, path) == Find(Tree[p], path) # {}
FirstWith(packs, path) ==
  {i \in 1..Len(packs) :
     Has(packs[i], path) /\ \A j \in 1..i - 1 : ~Has(packs[j], path)}
FindNode(packs, s) ==
  {[pack |-> packs[i], path |-> Split(s)] : i \in FirstWith(packs, Split(s))}

\* readable: the file of that name. A directory is none, and hides the files of
\* that name in later packs.
ReadableNode(packs, s) == FindNode(packs, s)   \* mutant: the cast is not tested
ReadableFile(packs, s) == {id \in FindNode(packs, s) : IsFile(id)}

\* Directory::getChildren( files, is File, true )
FilesBelow(dir) ==
  {[pack |-> dir.pack, path |-> p] : p \in
     {q \in DOMAIN Tree[dir.pack] : IsPrefix(dir.path, q) /\ Tree[dir.pack][q] # Dir}}

-----------------------------------------------------------------------------
(* The registry *)

\* RCOwner::addResource
AddedInFront(p) == <<p>> \o resources     \* mutant: insert at begin()
Added(p) == Append(resources, p)

\* INIT_RESOURCE in the program or in another thread
AddResource(p) ==
  /\ Len(resources) < MaxPacks
  /\ resources' = Added(p)
  /\ UNCHANGED <<pc, scripts, loaded, search>>

-----------------------------------------------------------------------------
(* core_open *)

\* core_startvm up to the loop of core_open: core's pack, the loader, the base
\* directory, of the first pack that has one.
StartVM(v) ==
  /\ pc[v] = "none"
  /\ resources' = Added(Core)
  /\ scripts' = [scripts EXCEPT ![v] =
       UNION {FilesBelow(dir) : dir \in {d \in FindNode(resources', Base) : ~IsFile(d)}}]
  /\ pc' = [pc EXCEPT ![v] = "base"]
  /\ UNCHANGED <<loaded, search>>

\* rc_load( l, files[i]->getFullName() ); its result is ignored, and what it has
\* compiled is never called.
LoadScript(v, id) ==
  /\ pc[v] = "base" /\ id \in scripts[v]
  /\ scripts' = [scripts EXCEPT ![v] = @ \ {id}]
  /\ loaded' = [loaded EXCEPT ![v] =
       @ \cup ReadableFile(resources, GetFullName(id.path))]
  /\ UNCHANGED <<resources, pc, search>>

\* core_open and core_startvm return.
Started(v) ==
  /\ pc[v] = "base" /\ scripts[v] = {}
  /\ pc' = [pc EXCEPT ![v] = "up"]
  /\ UNCHANGED <<resources, scripts, loaded, search>>

-----------------------------------------------------------------------------
(* rc_lua_loader *)

Require(v, m) ==
  /\ pc[v] = "up"
  /\ pc' = [pc EXCEPT ![v] = "find"]
  /\ module' = [module EXCEPT ![v] = m]
  /\ tried' = [tried EXCEPT ![v] = 0]
  /\ file' = [file EXCEPT ![v] = Nothing]
  /\ since' = [since EXCEPT ![v] = resources]
  /\ result' = [result EXCEPT ![v] = Nothing]
  /\ UNCHANGED <<resources, scripts, loaded>>

\* findfile: the next template is tried, or none is left and nil is returned.
TryTemplate(v) ==
  LET found == ReadableFile(resources, Templates[tried[v] + 1][module[v]]) IN
  /\ pc[v] = "find"
  /\ \/ /\ tried[v] = Len(Templates)
        /\ pc' = [pc EXCEPT ![v] = "up"]
        /\ UNCHANGED <<tried, file>>
     \/ /\ tried[v] < Len(Templates) /\ found = {}
        /\ tried' = [tried EXCEPT ![v] = @ + 1]
        /\ UNCHANGED <<pc, file>>
     \/ /\ tried[v] < Len(Templates)
        /\ \E id \in found : file' = [file EXCEPT ![v] = id]
        /\ pc' = [pc EXCEPT ![v] = "load"]
        /\ UNCHANGED tried
  /\ UNCHANGED <<resources, scripts, loaded, module, since, result>>

\* rc_load looks the name up again, and the bytes may be no Lua.
Load(v) ==
  LET found == ReadableFile(resources, Templates[tried[v] + 1][module[v]]) IN
  /\ pc[v] = "load"
  /\ pc' = [pc EXCEPT ![v] = "up"]
  /\ \/ found = {} /\ result' = [result EXCEPT ![v] = Missing]
     \/ \E id \in found :
          \E r \in {id, Syntax} : result' = [result EXCEPT ![v] = r]
  /\ UNCHANGED <<resources, scripts, loaded, module, tried, file, since>>

-----------------------------------------------------------------------------

Init ==
  /\ resources = <<>>
  /\ pc = [v \in VMs |-> "none"]
  /\ scripts = [v \in VMs |-> {}] /\ loaded = [v \in VMs |-> {}]
  /\ module = [v \in VMs |-> Nothing]
  /\ tried = [v \in VMs |-> 0]
  /\ file = [v \in VMs |-> Nothing]
  /\ since = [v \in VMs |-> <<>>]
  /\ result = [v \in VMs |-> Nothing]

Next ==
  \/ \E p \in Packs \ {Core} : AddResource(p)
  \/ \E v \in VMs :
       \/ StartVM(v) \/ Started(v)
       \/ \E id \in scripts[v] : LoadScript(v, id)
       \/ \E m \in Modules : Require(v, m)
       \/ TryTemplate(v) \/ Load(v)

Spec == Init /\ [][Next]_vars

-----------------------------------------------------------------------------
(* Properties *)

\* The file that rc_load reads is the one findfile found readable, although packs
\* may have been added between the two lookups: require never fails with
\* "Failed to find" (rc_lua_loader.cpp:9, 40, 67).
LoadsWhatWasReadable ==
  \A v \in VMs : result[v] \in {Nothing, Syntax, file[v]}

\* require never overlooks a file: when it stops at a template, or finds none, no
\* earlier template had a file when it was called (rc_lua_loader.cpp:35-46).
NothingOverlooked ==
  \A v \in VMs : \A k \in 1..tried[v] :
    ReadableFile(since[v], Templates[k][module[v]]) = {}

\* A name that is found stays the same node for ever, whatever is added to the
\* registry (rc.cpp:41-59).
AnswersAreStable ==
  [][\A m \in Modules, k \in 1..Len(Templates) :
       LET s == Templates[k][m] IN
       FindNode(resources, s) # {} =>
         FindNode(resources', s) = FindNode(resources, s)]_resources

\* "Load up base scripts" (core.cpp:38): when core_startvm has returned, the
\* files below :/lua/base, at any depth, have been loaded.
BaseScriptsLoaded ==
  \A v \in VMs : pc[v] \notin {"none", "base"} =>
    \A d \in FindNode(resources, Base) : IsFile(d) \/ FilesBelow(d) \subseteq loaded[v]

=============================================================================
