------------------------------- MODULE RCTree -------------------------------
(***************************************************************************)
(* The resource tree of rc: Directory, File and Node. A tree is a function *)
(* from paths (the names from the root directory down) to nodes; the root  *)
(* directory is the empty path and is not in the domain. Looking a path up *)
(* in m_ChildrenLookup of one directory after the other is applying it.    *)
(***************************************************************************)
EXTENDS Integers, Sequences, SequencesExt

EmptyTree == <<>>
Dir == [kind |-> "dir"]
File(offset, size) == [kind |-> "file", offset |-> offset, size |-> size]

\* Directory::getChildren, one level; the hash table's order is not specified.
ChildrenOf(tree, dir) ==
  {p \in DOMAIN tree : Len(p) = Len(dir) + 1 /\ IsPrefix(dir, p)}
ChildLists(tree, dir) == SetToSeqs(ChildrenOf(tree, dir))

\* Directory::addChild: the old child of that name goes, with what is below it.
AddChild(tree, path, node) ==
  [p \in {q \in DOMAIN tree : ~IsPrefix(path, q)} \cup {path} |->
     IF p = path THEN node ELSE tree[p]]

IsDir(tree, path) ==
  \/ path = <<>>
  \/ path \in DOMAIN tree /\ tree[path] = Dir

\* Directory::find( name, true ) on the names of a path, level by level.
Find(tree, path) ==
  IF /\ path \in DOMAIN tree
     /\ \A n \in 0 .. Len(path) - 1 : IsDir(tree, SubSeq(path, 1, n))
  THEN {tree[path]} ELSE {}

\* Every node but the root directory hangs in a directory.
WellFormed(tree) ==
  \A p \in DOMAIN tree : p # <<>> /\ IsDir(tree, Front(p))

=============================================================================
