------------------------------- MODULE LuaIO -------------------------------
(***************************************************************************)
(* Ownership of file handles in core's io library: LuaIOManager (io.open,  *)
(* io.input, io.lines ...), LuaFileAdapter (the userdata a script holds),  *)
(* LuaBoostFile (the object that owns a FILE* ) and the Lua collector that *)
(* runs ~LuaFileAdapter.                                                   *)
(*                                                                         *)
(* Every adapter owns one LuaBoostFile, so both are indexed by the adapter:*)
(*   mem[a]     the userdata: not created, live, or destroyed by __gc      *)
(*   ptr[a]     LuaFileAdapter::m_FileHandle # NULL                        *)
(*   file[a]    the LuaBoostFile: its own m_FileHandle set ("open"), NULL  *)
(*              ("shut"), or the object deleted                            *)
(*   stream[a]  the C stream behind it                                     *)
(* What a script can reach decides what the collector may destroy: held,   *)
(* the registry entries and the upvalues of iterators are the roots.       *)
(***************************************************************************)
EXTENDS Integers, FiniteSets

CONSTANTS
  Users,                  \* adapters a script may create (bounds io.open ...)
  StdIn, StdOut, StdErr,  \* the adapters made by setupStdFiles
  Iters,                  \* closures made by lines (bounds io.lines, f:lines)
  NoOne,                  \* no adapter
  MaxFormats              \* bounds the number of formats given to one read

Std == {StdIn, StdOut, StdErr}
Adapters == Users \cup Std

ASSUME NamesDistinct ==
  /\ StdIn # StdOut /\ StdIn # StdErr /\ StdOut # StdErr
  /\ Users \cap Std = {}
  /\ NoOne \notin Adapters
ASSUME UsersFinite == IsFiniteSet(Users)
ASSUME FormatsPositive == MaxFormats \in Nat \ {0}

VARIABLES
  vm,          \* life of the lua_State: "down", "up", "closing", "exited"
  mem, ptr, file, stream,
  count,       \* LuaFileAdapter::opened_files_count
  defIn, defOut,    \* LuaIOManager::m_StdInput, m_StdOutput (raw pointers)
  regIn, regOut,    \* registry entries __JORD_STDIN and __JORD_STDOUT
  held,        \* adapters of Users that variables of the script refer to
  iterOf,      \* upvalue 1 of a lines closure the script holds
  iterCloses,  \* upvalue 2: the closure also closes the file at its end;
               \* set exactly when upvalue 1 is the full userdata
  reading,     \* the adapter whose read() is running, after Thunk removed it
  left,        \* formats that read() has still to serve
  fault        \* undefined behaviour that was reached, or "none"

heap     == <<mem, ptr, file, stream, count>>
defaults == <<defIn, defOut, regIn, regOut>>
iters    == <<iterOf, iterCloses>>
reads    == <<reading, left>>
vars     == <<vm, heap, defaults, held, iters, reads, fault>>

TypeOK ==
  /\ vm \in {"down", "up", "closing", "exited"}
  /\ mem \in [Adapters -> {"none", "live", "collected"}]
  /\ ptr \in [Adapters -> BOOLEAN]
  /\ file \in [Adapters -> {"none", "open", "shut", "deleted"}]
  /\ stream \in [Adapters -> {"none", "open", "closed"}]
  /\ count \in Int
  /\ {defIn, defOut, regIn, regOut} \subseteq Adapters \cup {NoOne}
  /\ held \subseteq Users
  /\ iterOf \in [Iters -> Adapters \cup {NoOne}]
  /\ iterCloses \in [Iters -> BOOLEAN]
  /\ reading \in Adapters \cup {NoOne}
  /\ left \in 0..MaxFormats
  /\ fault \in {"none", "dangling_iterator", "dangling_self",
                "null_file", "null_stream"}

-----------------------------------------------------------------------------
(* LuaBoostFile *)

\* m_OwnsFile is false only for the three files of the provider.
OwnsNone(a) == FALSE    \* mutant: m_OwnsFile left false by fopen's constructor
Owns(a) == a \in Users

\* LuaBoostFile::close: what it returns, given what fclose returned (ok), ...
CloseResultUntested(a, ok) == Owns(a) /\ ok   \* mutant: m_FileHandle not tested
CloseResult(a, ok) == Owns(a) /\ file[a] = "open" /\ ok

\* ... and the stream afterwards: fclose ends it even when it reports failure.
StreamKept(a) == stream[a]                     \* mutant: fclose not called
StreamAfterClose(a) ==
  IF Owns(a) /\ file[a] = "open" THEN "closed" ELSE stream[a]

-----------------------------------------------------------------------------
(* What the collector and the script see *)

\* The adapters the collector marks. A closure made by f:lines() or io.lines()
\* holds a light userdata, which marks nothing.
Anchored == held \cup Std \cup {regIn, regOut}
                 \cup {iterOf[i] : i \in {j \in Iters : iterCloses[j]}}

\* The adapters a script can call a function of the library on: io.stdin,
\* io.stdout, io.stderr, io.input(), io.output() and its own variables.
Callable == held \cup Std \cup {defIn, defOut}

\* The script runs: the interpreter is up, no read() is pending, no fault.
Running == vm = "up" /\ reading = NoOne /\ fault = "none"

Fault(kind) ==
  /\ fault' = kind
  /\ UNCHANGED <<vm, heap, defaults, held, iters, reads>>

-----------------------------------------------------------------------------
(* Creation *)

\* CreateUDataClass( l, LuaFileAdapter, getFile( name, mode ) ): fopen worked.
NewOpen(a) ==
  /\ mem[a] = "none" /\ a \in Users
  /\ mem' = [mem EXCEPT ![a] = "live"]
  /\ ptr' = [ptr EXCEPT ![a] = TRUE]
  /\ file' = [file EXCEPT ![a] = "open"]
  /\ stream' = [stream EXCEPT ![a] = "open"]
  /\ count' = count + 1

\* core_startvm, lua::io::open_library, LuaIOManager::setupStdFiles.
StartVM ==
  /\ vm = "down"
  /\ vm' = "up"
  /\ mem' = [a \in Adapters |-> IF a \in Std THEN "live" ELSE mem[a]]
  /\ ptr' = [a \in Adapters |-> IF a \in Std THEN TRUE ELSE ptr[a]]
  /\ file' = [a \in Adapters |-> IF a \in Std THEN "open" ELSE file[a]]
  /\ stream' = [a \in Adapters |-> IF a \in Std THEN "open" ELSE stream[a]]
  /\ defIn' = StdIn /\ defOut' = StdOut
  /\ regIn' = StdIn /\ regOut' = StdOut
  /\ UNCHANGED <<count, held, iters, reads, fault>>

\* io.open: the file opens and the adapter is returned.
OpenSucceeds(a) ==
  /\ Running
  /\ NewOpen(a)
  /\ held' = held \cup ({a} \ Std)
  /\ UNCHANGED <<vm, defaults, iters, reads, fault>>

\* io.open: fopen fails; the adapter exists, is popped and never returned.
OpenFails(a) ==
  /\ Running
  /\ mem[a] = "none" /\ a \in Users
  /\ mem' = [mem EXCEPT ![a] = "live"]
  /\ ptr' = [ptr EXCEPT ![a] = TRUE]
  /\ file' = [file EXCEPT ![a] = "shut"]
  /\ UNCHANGED <<vm, stream, count, defaults, held, iters, reads, fault>>

-----------------------------------------------------------------------------
(* Default files. A file name that does not open raises an error after the
   LuaBoostFile is deleted and changes nothing. *)

\* lua_setfield( l, LUA_REGISTRYINDEX, ... ) replaces the entry that was there.
SetFieldMissing(entry, a) == entry       \* mutant: the call is missing
SetField(entry, a) == a

\* io.input( name )
InputFile(a) ==
  /\ Running
  /\ NewOpen(a)
  /\ defIn' = a /\ regIn' = SetField(regIn, a)
  /\ held' = held \cup ({a} \ Std)
  /\ UNCHANGED <<vm, defOut, regOut, iters, reads, fault>>

\* io.input( file ); the file may already be closed.
InputAdapter(a) ==
  /\ Running
  /\ a \in Callable
  /\ defIn' = a /\ regIn' = SetField(regIn, a)
  /\ held' = held \cup ({a} \ Std)
  /\ UNCHANGED <<vm, heap, defOut, regOut, iters, reads, fault>>

\* io.output( name )
OutputFile(a) ==
  /\ Running
  /\ NewOpen(a)
  /\ defOut' = a /\ regOut' = SetField(regOut, a)
  /\ held' = held \cup ({a} \ Std)
  /\ UNCHANGED <<vm, defIn, regIn, iters, reads, fault>>

\* io.output( file )
OutputAdapter(a) ==
  /\ Running
  /\ a \in Callable
  /\ defOut' = a /\ regOut' = SetField(regOut, a)
  /\ held' = held \cup ({a} \ Std)
  /\ UNCHANGED <<vm, heap, defIn, regIn, iters, reads, fault>>

\* io.input() and io.output() without argument return the registry's adapter.
GetDefault(a) ==
  /\ Running
  /\ a \in {regIn, regOut}
  /\ held' = held \cup ({a} \ Std)
  /\ UNCHANGED <<vm, heap, defaults, iters, reads, fault>>

\* A variable of the script goes out of scope or is assigned.
DropRef(a) ==
  /\ Running
  /\ a \in held
  /\ held' = held \ {a}
  /\ UNCHANGED <<vm, heap, defaults, iters, reads, fault>>

-----------------------------------------------------------------------------
(* lines. An iterator is the C closure lines_iterator with its two upvalues. *)

\* close_file: set unless lines had to push a light userdata itself.
CloseFile(onStack) == onStack

NewIterator(i, a, closes) ==
  /\ iterOf[i] = NoOne
  /\ iterOf' = [iterOf EXCEPT ![i] = a]
  /\ iterCloses' = [iterCloses EXCEPT ![i] = closes]

\* io.lines( name ): the new adapter is on the stack, so the closure gets the
\* full userdata and closes the file when it has been read.
LinesOfName(i, a) ==
  /\ Running
  /\ NewOpen(a)
  /\ NewIterator(i, a, CloseFile(TRUE))
  /\ UNCHANGED <<vm, defaults, held, reads, fault>>

\* f:lines() and io.lines(): a light userdata. The script keeps its reference
\* to f or not: io.open( name ):lines() has none left.
LinesOfAdapter(i, a, keep) ==
  /\ Running
  /\ a \in Callable
  /\ ptr[a] /\ file[a] = "open"         \* else "attempt to read a closed file"
  /\ NewIterator(i, a, CloseFile(FALSE))
  /\ held' = IF keep THEN held ELSE held \ {a}
  /\ UNCHANGED <<vm, heap, defaults, reads, fault>>

\* A call of the iterator returns a line, or raises "file is closed".
\* Neither changes the state, so only the end of the file is an action.
IteratorEnds(i) ==
  LET a == iterOf[i] IN
  /\ Running
  /\ a # NoOne /\ mem[a] = "live" /\ ptr[a] /\ file[a] = "open"
  /\ iterCloses[i]
  /\ file' = [file EXCEPT ![a] = "shut"]
  /\ stream' = [stream EXCEPT ![a] = StreamAfterClose(a)]
  /\ UNCHANGED <<vm, mem, ptr, count, defaults, held, iters, reads, fault>>

\* lines_iterator follows upvalue 1 and then m_FileHandle without a test.
IteratorFaults(i) ==
  LET a == iterOf[i] IN
  /\ Running
  /\ a # NoOne
  /\ \/ mem[a] = "collected" /\ Fault("dangling_iterator")
     \/ mem[a] = "live" /\ ~ptr[a] /\ Fault("null_file")

\* The script drops an iterator, or its generic for ends.
DropIterator(i) ==
  /\ Running
  /\ iterOf[i] # NoOne
  /\ iterOf' = [iterOf EXCEPT ![i] = NoOne]
  /\ iterCloses' = [iterCloses EXCEPT ![i] = FALSE]
  /\ UNCHANGED <<vm, heap, defaults, held, reads, fault>>

-----------------------------------------------------------------------------
(* LuaFileAdapter::read. Each result is pushed with a call that may run the
   collector, and Thunk has removed self from the stack. *)

\* The first format is served. keep: the script has another reference to a.
BeginRead(a, formats, keep) ==
  /\ Running
  /\ a \in Callable
  /\ ptr[a] /\ file[a] = "open"         \* else "attempt to read a closed file"
  /\ reading' = a
  /\ left' = formats - 1
  /\ held' = IF keep THEN held ELSE held \ {a}
  /\ UNCHANGED <<vm, heap, defaults, iters, fault>>

\* The loop goes on while formats are left.
MoreFormatsLate == left >= 0        \* mutant: the test comes one step late
MoreFormats == left > 0

\* The next format, or the last test of hasFailed: both follow m_FileHandle.
\* A format that fails ends the loop; one that is not valid raises an error
\* before the adapter is used again.
ContinueRead ==
  /\ vm = "up" /\ fault = "none"
  /\ reading # NoOne
  /\ \/ /\ mem[reading] = "collected"
        /\ Fault("dangling_self")
     \/ /\ mem[reading] = "live"
        /\ MoreFormats
        /\ left' \in {left - 1, 0}
        /\ UNCHANGED <<vm, heap, defaults, held, iters, reading, fault>>
     \/ /\ mem[reading] = "live" \/ MoreFormats
        /\ reading' = NoOne
        /\ left' = 0
        /\ UNCHANGED <<vm, heap, defaults, held, iters, fault>>

\* write, seek and setvbuf test the adapter's pointer only, so a LuaBoostFile
\* whose own handle is NULL is passed to stdio. (flush is not: fflush( NULL )
\* is defined.) On an open file they change nothing that is modelled here.
UseShutFile(a) ==
  /\ Running
  /\ a \in Callable
  /\ ptr[a] /\ file[a] = "shut"
  /\ Fault("null_stream")

-----------------------------------------------------------------------------
(* Closing *)

\* f:close(), io.close( f ), io.close(). On success the LuaBoostFile is deleted
\* and forgotten; otherwise an error is raised before either happens.
Close(a, ok) ==
  /\ Running
  /\ a \in Callable
  /\ ptr[a]                              \* else "file is already closed"
  /\ stream' = [stream EXCEPT ![a] = StreamAfterClose(a)]
  /\ \/ /\ CloseResult(a, ok)
        /\ count' = count - 1
        /\ file' = [file EXCEPT ![a] = "deleted"]
        /\ ptr' = [ptr EXCEPT ![a] = FALSE]
     \/ /\ ~CloseResult(a, ok)
        /\ file' = [file EXCEPT ![a] = "shut"]
        /\ UNCHANGED <<count, ptr>>
  /\ UNCHANGED <<vm, mem, defaults, held, iters, reads, fault>>

\* ~LuaFileAdapter. The files of the provider are not deleted.
Destroy(a, ok) ==
  /\ mem[a] = "live"
  /\ mem' = [mem EXCEPT ![a] = "collected"]
  /\ \/ /\ ptr[a]
        /\ stream' = [stream EXCEPT ![a] = StreamAfterClose(a)]
        /\ count' = IF CloseResult(a, ok) THEN count - 1 ELSE count
        /\ file' = [file EXCEPT ![a] = IF Owns(a) THEN "deleted" ELSE "shut"]
     \/ /\ ~ptr[a]
        /\ UNCHANGED <<stream, count, file>>
  /\ UNCHANGED <<vm, ptr, defaults, held, iters, reads, fault>>

\* The collector finalizes an adapter it did not mark. It runs inside calls
\* that allocate, so also while a read() is pending.
Collect(a, ok) ==
  /\ vm = "up" /\ fault = "none"
  /\ a \notin Anchored
  /\ Destroy(a, ok)

\* lua_close finalizes what is left, ...
BeginClose ==
  /\ Running
  /\ vm' = "closing"
  /\ UNCHANGED <<heap, defaults, held, iters, reads, fault>>

FinalizeAtClose(a, ok) ==
  /\ vm = "closing"
  /\ Destroy(a, ok)

\* ... and at exit ~LuaIOManager deletes the provider and its three files.
Exit ==
  /\ vm = "closing"
  /\ \A a \in Adapters : mem[a] # "live"
  /\ vm' = "exited"
  /\ file' = [a \in Adapters |-> IF a \in Std THEN "deleted" ELSE file[a]]
  /\ UNCHANGED <<mem, ptr, stream, count, defaults, held, iters, reads, fault>>

\* After the exit, or after undefined behaviour, nothing is modelled.
Terminated ==
  /\ vm = "exited" \/ fault # "none"
  /\ UNCHANGED vars

-----------------------------------------------------------------------------

Init ==
  /\ vm = "down"
  /\ mem = [a \in Adapters |-> "none"]
  /\ ptr = [a \in Adapters |-> FALSE]
  /\ file = [a \in Adapters |-> "none"]
  /\ stream = [a \in Adapters |-> "none"]
  /\ count = 0
  /\ defIn = NoOne /\ defOut = NoOne
  /\ regIn = NoOne /\ regOut = NoOne
  /\ held = {}
  /\ iterOf = [i \in Iters |-> NoOne]
  /\ iterCloses = [i \in Iters |-> FALSE]
  /\ reading = NoOne
  /\ left = 0
  /\ fault = "none"

OpenStep == \E a \in Users :
  OpenSucceeds(a) \/ OpenFails(a) \/ InputFile(a) \/ OutputFile(a)

DefaultStep == \E a \in Adapters :
  InputAdapter(a) \/ OutputAdapter(a) \/ GetDefault(a) \/ DropRef(a)

IteratorStep == \E i \in Iters :
  \/ \E a \in Users : LinesOfName(i, a)
  \/ \E a \in Adapters, keep \in BOOLEAN : LinesOfAdapter(i, a, keep)
  \/ IteratorEnds(i)
  \/ IteratorFaults(i)
  \/ DropIterator(i)

FileStep ==
  \/ \E a \in Adapters, n \in 1..MaxFormats, keep \in BOOLEAN :
       BeginRead(a, n, keep)
  \/ ContinueRead
  \/ \E a \in Adapters : UseShutFile(a)
  \/ \E a \in Adapters, ok \in BOOLEAN : Close(a, ok)

CollectorStep == \E a \in Adapters, ok \in BOOLEAN :
  Collect(a, ok) \/ FinalizeAtClose(a, ok)

Next ==
  \/ StartVM
  \/ OpenStep
  \/ DefaultStep
  \/ IteratorStep
  \/ FileStep
  \/ CollectorStep
  \/ BeginClose
  \/ Exit
  \/ Terminated

Spec == Init /\ [][Next]_vars

\* lua_close finalizes every adapter, and the collector of a running script
\* works through its garbage: each allocation pays for a part of a cycle.
FairSpec ==
  /\ Spec
  /\ \A a \in Users :
       WF_vars(\E ok \in BOOLEAN : Collect(a, ok) \/ FinalizeAtClose(a, ok))

-----------------------------------------------------------------------------
(* Properties *)

\* No adapter a script can still call has been destroyed, although m_StdInput
\* and m_StdOutput are raw pointers the collector does not see (input and output
\* always store the same adapter in the registry, LuaIOManager.cpp:91-102,
\* 127-138), and nobody else can close the file of the iterator of
\* io.lines( name ), which keeps it alive (LuaFileAdapter.cpp:202-209).
CallableAlive ==
  vm = "up" => /\ defIn = regIn /\ defOut = regOut
               /\ \A a \in Callable : mem[a] = "live"
               /\ \A i \in Iters : iterOf[i] # NoOne /\ iterCloses[i] =>
                    mem[iterOf[i]] = "live" /\ ptr[iterOf[i]]

\* A live adapter's m_FileHandle never points to a deleted LuaBoostFile, "closed
\* file" (io.type, __tostring) is only said of a file whose stream is closed, and an
\* open stream always has a live adapter that will close it: no interleaving of
\* close, lines, failed opens and the collector leaks a FILE
\* (LuaFileAdapter.cpp:35-46, 177-193, LuaIOManager.cpp:238).
HandleTruthful ==
  /\ \A a \in Adapters : mem[a] = "live" =>
       /\ ptr[a] => file[a] \in {"open", "shut"}
       /\ ~ptr[a] => file[a] = "deleted" /\ stream[a] = "closed"
  /\ \A a \in Users : stream[a] = "open" =>
       mem[a] = "live" /\ ptr[a] /\ file[a] = "open"

\* opened_files_count is never below the number of open streams. (It can be
\* above: the end of io.lines( name ) closes without counting.)
OpenStreams == {a \in Users : stream[a] = "open"}
CountCoversOpen == count >= Cardinality(OpenStreams)

\* The library closes its own streams and only those: whatever a script closes or
\* drops, the process's stdin, stdout and stderr stay open (LuaBoostFile.cpp:101,
\* 159), and after lua_close and the exit every stream that the library opened is
\* closed and every LuaBoostFile deleted.
AllReleased ==
  /\ \A a \in Std : stream[a] # "closed"
  /\ vm = "exited" => \A a \in Adapters :
       /\ file[a] \in {"none", "deleted"}
       /\ a \in Users => stream[a] # "open"

\* "collectgarbage()  -- file should be closed by GC" (tests/io/lua/files.lua
\* line 51): a file nothing refers to is eventually closed.
GarbageIsClosed ==
  \A a \in Users :
    (stream[a] = "open" /\ a \notin Anchored) ~>
      (stream[a] = "closed" \/ fault # "none")

\* The library implements FileHandles: a stream is closed under a script that
\* can reach it only by that script, and nothing out of reach comes back,
\* although m_StdInput, m_StdOutput and light userdata are references that the
\* collector does not see.
Reach == IF vm = "up" THEN Anchored \cap Users ELSE {}
Handles == INSTANCE FileHandles
             WITH Files <- Users, state <- [a \in Users |-> stream[a]],
                  reach <- Reach
HandlesSpec == Handles!Spec

\* Claims of the code or its tests that do not hold.

\* tests/io/lua/files.lua:102-103 uses an iterator whose file has no other
\* reference; it should always find its adapter.
NoDanglingIterator == fault # "dangling_iterator"

\* A call on a closed file raises an error (LuaFileAdapter.cpp:149-150 "attempt to
\* write a closed file", 219-220 "file is closed") and never follows the NULL that
\* the close has left in the adapter or in its LuaBoostFile.
NoNullUse == fault \notin {"null_file", "null_stream"}

\* LuaIOManager.cpp:267-269: no pointer to an adapter is retained where the
\* adapter may be collected.
NoDanglingSelf == fault # "dangling_self"

=============================================================================
