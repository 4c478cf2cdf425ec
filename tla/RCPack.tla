------------------------------- MODULE RCPack -------------------------------
(***************************************************************************)
(* A resource pack from rcgen to the program that links it:                *)
(*   config  RCBuilder::parseConfig collects files (addEntry, addFile)     *)
(*   toc     RCBuilder::writeFile writes the tree as a preorder table,     *)
(*   data    then the files' bytes, read a second time from the disk       *)
(*   parse   Root::Root rebuilds the tree from the table in the program    *)
(*   loaded  Root::find and getFilePointer serve the program               *)
(* Other processes may change the disk while rcgen runs.                   *)
(***************************************************************************)
EXTENDS RCTree, FiniteSets

CONSTANTS
  Names,        \* names of files and directories
  Bases,        \* base_path of config elements, without ":/"
  EntryPaths,   \* paths of config entries, relative to resource_path
  Sources,      \* paths of the files below resource_path
  Dots,         \* the names "." and ".."
  Sizes,        \* sizes that a file may have
  Gone,         \* the "size" of a file that is not there
  Stale,        \* a byte that was not read from the file it is written for
  MaxEntries,   \* bounds the config entries
  MaxChanges    \* bounds the changes other processes make to the disk

ASSUME PathsAssumption ==
  /\ Bases \subseteq Seq(Names)
  /\ Sources \subseteq Seq(Names) \ {<<>>}

ASSUME DiskAssumption ==
  /\ Sizes \subseteq Nat /\ Gone \notin Nat
  /\ MaxEntries \in Nat /\ MaxChanges \in Nat

VARIABLES
  phase,
  disk,      \* the size of each file on the disk
  changes, entries,
  touched,   \* the files changed since they were added (the model's own)
  todo,      \* addEntry's directory iteration: [base, files still to add]
  tree,      \* m_Root's tree
  files,     \* m_EntriesList; base, the element's base_path, is the model's own
  stack,     \* writeFile's and Root::Root's stack of directories
  toc,       \* the table written, without the terminator
  data,      \* the bytes written
  cursor,    \* the item Root::Root, or the file writeFile, is at
  loaded     \* the tree of the program's Root

builder == <<entries, todo, tree, files>>
vars == <<phase, disk, changes, touched, builder, stack, toc, data, cursor, loaded>>

Collected == [src : Sources, base : Bases \cup {<<>>}, size : Sizes, offset : Nat]

TypeOK ==
  /\ phase \in {"config", "toc", "data", "parse", "loaded", "failed"}
  /\ disk \in [Sources -> Sizes \cup {Gone}]
  /\ changes \in 0..MaxChanges /\ entries \in 0..MaxEntries
  /\ touched \subseteq 1..Len(files)
  /\ todo \in [base : Bases \cup {<<>>}, files : SUBSET Sources]
  /\ WellFormed(tree) /\ WellFormed(loaded)
  /\ files \in Seq(Collected)
  /\ cursor \in 0 .. Len(toc) + Len(files) + 1

-----------------------------------------------------------------------------
(* Collecting: parseConfig, parceConfigElement, addEntry, addFile *)

\* addEntry: a file, the files of a directory, or all files below it.
Selected(path, recursive) ==
  {s \in Sources : /\ disk[s] # Gone
                   /\ IsPrefix(path, s)
                   /\ recursive \/ Len(s) <= Len(path) + 1}

Entry(base, path, recursive) ==
  /\ phase = "config" /\ todo.files = {}
  /\ entries < MaxEntries
  /\ entries' = entries + 1
  /\ todo' = [base |-> base, files |-> Selected(path, recursive)]
  /\ UNCHANGED <<phase, disk, changes, touched, tree, files, stack, toc, data, cursor,
                 loaded>>

\* The components "", "." and ".." are skipped.
Components(path) ==
  LET kept == {i \in 1..Len(path) : path[i] \notin Dots}
      nth(n) == CHOOSE i \in kept : Cardinality({j \in kept : j <= i}) = n IN
  [n \in 1..Cardinality(kept) |-> path[nth(n)]]
TargetDir(base, s) == Components(base \o Front(s))
Target(base, s) == Append(TargetDir(base, s), Last(s))
Place(f) == Target(f.base, f.src)

\* The directories of a path that the loop of addFile creates on its way.
WithDirs(t, dir) ==
  [p \in DOMAIN t \cup (Prefixes(dir) \ {<<>>}) |->
     IF p \in DOMAIN t THEN t[p] ELSE Dir]

\* Behind the last file so far.
NextOffsetAtLast == IF files = <<>> THEN 0 ELSE Last(files).offset
                                     \* mutant: the last size is not added
NextOffset == IF files = <<>> THEN 0 ELSE Last(files).offset + Last(files).size

\* A file is in the way of a directory.
BlockedNever(dir) == FALSE    \* mutant: the cast's result is not tested
Blocked(dir) == \E p \in Prefixes(dir) : ~IsDir(tree, p) /\ p \in DOMAIN tree

\* One call of addFile. It throws when a file is in the way of a directory
\* ("RC tree error") and when the file has gone (file_size); rcgen then ends,
\* and nothing looks at its tree again.
AddFile(s) ==
  LET dir == TargetDir(todo.base, s)
      node == File(NextOffset, disk[s]) IN
  /\ phase = "config" /\ s \in todo.files
  /\ IF Blocked(dir) \/ disk[s] = Gone
     THEN phase' = "failed" /\ UNCHANGED <<todo, tree, files>>
     ELSE /\ tree' = AddChild(WithDirs(tree, dir), Target(todo.base, s), node)
          /\ files' = Append(files, [src |-> s, base |-> todo.base,
                                     size |-> disk[s], offset |-> NextOffset])
          /\ todo' = [todo EXCEPT !.files = @ \ {s}]
          /\ UNCHANGED phase
  /\ UNCHANGED <<disk, changes, touched, entries, stack, toc, data, cursor, loaded>>

\* The file has gone before addEntry asks is_regular_file.
SkipFile(s) ==
  /\ phase = "config" /\ s \in todo.files
  /\ disk[s] = Gone
  /\ todo' = [todo EXCEPT !.files = @ \ {s}]
  /\ UNCHANGED <<phase, disk, changes, touched, entries, tree, files, stack, toc, data,
                 cursor, loaded>>

\* The files whose bytes have been written.
Written == CASE phase = "data" -> 1 .. cursor - 1
             [] phase \in {"parse", "loaded"} -> 1..Len(files)
             [] OTHER -> {}

\* Another process writes or removes a file.
DiskChanges(s, size) ==
  /\ phase \in {"config", "toc", "data"}
  /\ changes < MaxChanges
  /\ disk[s] # size
  /\ changes' = changes + 1
  /\ disk' = [disk EXCEPT ![s] = size]
  /\ touched' = touched \cup {i \in 1..Len(files) \ Written : files[i].src = s}
  /\ UNCHANGED <<phase, builder, stack, toc, data, cursor, loaded>>

-----------------------------------------------------------------------------
(* Writing: writeFile *)

\* The output cannot be opened.
CannotWrite ==
  /\ phase = "config" /\ todo.files = {}
  /\ phase' = "failed"
  /\ UNCHANGED <<disk, changes, touched, builder, stack, toc, data, cursor, loaded>>

\* The first lines of writeFile: the root's item and the list of its children.
BeginWrite(children) ==
  /\ phase = "config" /\ todo.files = {}
  /\ children \in ChildLists(tree, <<>>)
  /\ phase' = "toc"
  /\ stack' = IF children = <<>> THEN <<>> ELSE <<[list |-> children, next |-> 1]>>
  /\ toc' = <<[kind |-> "dir", name |-> ":/", count |-> Len(children)]>>
  /\ UNCHANGED <<disk, changes, touched, builder, data, cursor, loaded>>

\* The directories whose children have all been written are popped.
Unwound(s) ==
  SubSeq(s, 1, Max({0} \cup {n \in 1..Len(s) : s[n].next <= Len(s[n].list)}))

\* One turn of the loop: the next child of the directory on top.
WriteItem(children) ==
  LET top  == Last(stack)
      path == top.list[top.next]
      here == Append(Front(stack), [top EXCEPT !.next = @ + 1])
      name == Last(path) IN
  /\ phase = "toc" /\ stack # <<>>
  /\ IF IsDir(tree, path)
     THEN /\ children \in ChildLists(tree, path)
          /\ toc' = Append(toc, [kind |-> "dir", name |-> name,
                                 count |-> Len(children)])
          /\ stack' = Unwound(IF children = <<>> THEN here
                              ELSE Append(here, [list |-> children, next |-> 1]))
     ELSE /\ children = <<>>
          /\ toc' = Append(toc, [kind |-> "file", name |-> name,
                                 offset |-> tree[path].offset,
                                 size |-> tree[path].size])
          /\ stack' = Unwound(here)
  /\ UNCHANGED <<phase, disk, changes, touched, builder, data, cursor, loaded>>

EndToc ==
  /\ phase = "toc" /\ stack = <<>>
  /\ phase' = "data" /\ cursor' = 1
  /\ UNCHANGED <<disk, changes, touched, builder, stack, toc, data, loaded>>

\* The bytes of a file, as many as it had when it was added. What is behind the
\* end of a file that has shrunk is an uninitialized char.
BytesOnDisk(f) ==                 \* mutant: the file is copied to its end
  [k \in 1..disk[f.src] |-> [src |-> f.src, at |-> k]]
Bytes(f) == [k \in 1..f.size |-> IF k <= disk[f.src] THEN [src |-> f.src, at |-> k]
                                 ELSE Stale]

WriteData ==
  /\ phase = "data" /\ cursor <= Len(files)
  /\ IF disk[files[cursor].src] = Gone
     THEN phase' = "failed" /\ UNCHANGED <<data, cursor>>
     ELSE /\ data' = data \o Bytes(files[cursor])
          /\ cursor' = cursor + 1
          /\ UNCHANGED phase
  /\ UNCHANGED <<disk, changes, touched, builder, stack, toc, loaded>>

-----------------------------------------------------------------------------
(* Loading: <module>_open in the program calls Root::Root *)

BeginLoad ==
  /\ phase = "data" /\ cursor > Len(files)
  /\ phase' = IF toc[1].count = 0 THEN "loaded" ELSE "parse"
  /\ stack' = <<[dir |-> <<>>, left |-> toc[1].count]>>
  /\ cursor' = 1
  /\ UNCHANGED <<disk, changes, touched, builder, toc, data, loaded>>

\* Directories whose items have all been read are popped.
ClosedOnce(s) ==              \* mutant: if instead of while
  IF s # <<>> /\ Last(s).left = 0 THEN Front(s) ELSE s
Closed(s) ==
  SubSeq(s, 1, Max({0} \cup {n \in 1..Len(s) : s[n].left # 0}))

\* state.top().second--
CountKept(n) == n             \* mutant: the decrement is missing
CountDown(n) == n - 1

\* One turn of Root::Root's loop. A directory without entries is not created.
ParseItem ==
  LET item == toc[cursor + 1]
      top  == Last(stack)
      path == Append(top.dir, item.name)
      here == Append(Front(stack), [top EXCEPT !.left = CountDown(@)]) IN
  /\ phase = "parse"
  /\ cursor < Len(toc)
  /\ cursor' = cursor + 1
  /\ IF item.kind = "dir"
     THEN IF item.count = 0
          THEN stack' = Closed(here) /\ UNCHANGED loaded
          ELSE /\ loaded' = AddChild(loaded, path, Dir)
               /\ stack' = Append(here, [dir |-> path, left |-> item.count])
     ELSE /\ loaded' = AddChild(loaded, path, File(item.offset, item.size))
          /\ stack' = Closed(here)
  /\ phase' = IF stack' = <<>> THEN "loaded" ELSE "parse"
  /\ UNCHANGED <<disk, changes, touched, builder, toc, data>>

Stopped == phase \in {"loaded", "failed"} /\ UNCHANGED vars

-----------------------------------------------------------------------------

Init ==
  /\ phase = "config"
  /\ disk \in [Sources -> Sizes \cup {Gone}]
  /\ changes = 0 /\ entries = 0 /\ touched = {}
  /\ todo = [base |-> <<>>, files |-> {}]
  /\ tree = EmptyTree /\ files = <<>>
  /\ stack = <<>> /\ toc = <<>> /\ data = <<>> /\ cursor = 0
  /\ loaded = EmptyTree

Next ==
  \/ \E b \in Bases, p \in EntryPaths, rec \in BOOLEAN : Entry(b, p, rec)
  \/ \E s \in Sources : AddFile(s)
  \/ \E s \in Sources : SkipFile(s)
  \/ \E s \in Sources, size \in Sizes \cup {Gone} : DiskChanges(s, size)
  \/ CannotWrite
  \/ \E children \in ChildLists(tree, <<>>) : BeginWrite(children)
  \/ /\ phase = "toc" /\ stack # <<>>
     /\ \E children \in ChildLists(tree, Last(stack).list[Last(stack).next]) :
          WriteItem(children)
  \/ EndToc
  \/ WriteData
  \/ BeginLoad
  \/ ParseItem
  \/ Stopped

Spec == Init /\ [][Next]_vars

-----------------------------------------------------------------------------
(* Properties *)

\* Every file that addFile accepted can be found in the builder's tree, unless
\* a file added later took its name or the name of a directory above it
\* (RCBuilder.cpp:268-293, Directory.cpp:13-20).
AcceptedFilesFound ==
  \A i \in 1..Len(files) :
    \/ Find(tree, Place(files[i])) = {File(files[i].offset, files[i].size)}
    \/ \E j \in i+1..Len(files) : IsPrefix(Place(files[j]), Place(files[i]))

\* The k-th byte of the i-th file. Only a file that another process changed between
\* addFile, which notes its size, and the writing of its bytes may leave another.
ByteOf(i, k, b) ==
  \/ b = [src |-> files[i].src, at |-> k]
  \/ b = Stale /\ i \in touched

\* While the data are written, each file's bytes land at its offset, and only
\* a file that was changed after it was added leaves bytes that are not its own,
\* whatever happens to the others (RCBuilder.cpp:199-220).
DataAligned ==
  \A i \in Written :
      /\ files[i].offset + files[i].size <= Len(data)
      /\ \A k \in 1..files[i].size :
           ByteOf(i, k, data[files[i].offset + k])

\* Root::Root stops before the terminator of the table and, once it has stopped,
\* has read every item before it (Root.cpp:29-47).
ParserInBounds ==
  /\ phase = "parse" => cursor < Len(toc)
  /\ phase = "loaded" => cursor = Len(toc)

\* The program's tree never has a node the builder's has not, and is the same
\* tree in the end: names, nesting, offsets and sizes survive the table,
\* whatever the order of the hash tables (RCBuilder.cpp:147-192, Root.cpp).
RoundTrip ==
  /\ \A p \in DOMAIN loaded : p \in DOMAIN tree /\ loaded[p] = tree[p]
  /\ phase = "loaded" => loaded = tree

\* What a program gets for a path are the bytes of the file that was last added
\* under it, unless that file was changed on the disk after it was added
\* (Root.cpp:56-85).
ServedBytes ==
  phase = "loaded" =>
    \A i \in 1..Len(files) :
      LET found == Find(loaded, Place(files[i]))
          last  == ~\E j \in i+1..Len(files) : Place(files[j]) = Place(files[i]) IN
      last => \A n \in found : n # Dir =>
        \A k \in 1..n.size : ByteOf(i, k, data[n.offset + k])

=============================================================================
