# Verification of jord

TLA+ models of jord's `core` and `rc`, checked with TLC, with theorems proved
with TLAPS. Paths are relative to the repository, which `src/` names here:
`LuaIOManager.cpp` is `src/core/source/lua/io/LuaIOManager.cpp`, `rc.cpp` is
`src/rc/source/rc.cpp`, and so on. `PROJECT.json` maps every definition to its
lines.

## 1. The system

jord embeds Lua 5.1. Its own code is small: two C++ libraries and a few scripts.

| Component | State it keeps | Operations | Talks to |
|---|---|---|---|
| **io library, handles** (`LuaIOManager`, `LuaFileAdapter`, `LuaBoostFile`, `RegisterCustomClass.h`) | userdata adapters, each owning a `LuaBoostFile` that owns a `FILE*`; two default files, held as raw pointers *and* as registry entries; `opened_files_count` | `io.open/input/output/lines/close/read/write/flush/type`, the methods of a file, `__gc` | the Lua collector, stdio |
| **io library, data path** | a read buffer, stdio's position and buffer | read formats, `readLine`, `write`, `flush`, `seek`, `setvbuf`, `close` | stdio, a device that fails |
| **io library, directories** | a `directory_iterator` | `read` and its iterator | Boost.Filesystem; never registered with Lua |
| **rc tree** (`Node`, `Directory`, `File`) | a hash table of children for each directory | `addChild`, `find`, `getChildren` | the next three |
| **rcgen** (`RCBuilder`, `rc_main.cpp`) | the tree, the list of files with offsets | `parseConfig` → `addEntry` → `addFile`; `writeFile` | the disk, which others may change |
| **rc pack reader** (`Root`) | a tree and a base address | constructor (parser of the table), `find`, `getFilePointer`, `getFileSize` | generated code |
| **rc registry** (`rc.cpp`) | the `RCOwner` singleton, its list of packs, one mutex | `add_resource`, `find_node`, `get_file_pointer`, `get_file_size` | any thread |
| **VM start and loader** (`core.cpp`, `rc_lua_loader.cpp`) | `package.loaders`, `rcpath` | `core_startvm`, `core_open`, the loader | registry, Lua |
| **json** (Lua) | – | encode, decode | Lua |
| **base scripts** (Lua) | – | `table.copy`, `table.dump`, `string.split` | Lua |
| **rpc** (Lua) | – | an HTTP client for json | json, a socket library that is not here |
| **admin, io_test** | – | start the VM, load one script, run it, `lua_close` | core |
| **frontend, server**, `LuaBoostProcess*`, `LuaResource*` | empty files | | |
| **3party** | vendored Lua, luabind, sqlite3, lsqlite3, Boost.Process | | |

What is hard, and what makes each component correct:

* **Handles.** Five kinds of references to one adapter (script variables, the
  registry, raw pointers, full and light userdata upvalues), of which the
  collector sees three. Correct means: what can be called is alive, each stream
  is closed once and not under somebody who can reach it, nothing leaks, the
  process's own streams survive.
* **Registry.** A double-checked lock over a plain pointer, and a vector that
  grows while others walk it. Correct means: one owner, no use before its
  construction, and calls that behave as if they were atomic.
* **rcgen and reader.** The nesting is encoded by counts alone, in the
  unspecified order of hash tables; the reader has no length to stop at; file
  sizes are read long before the bytes. Correct means: the program's tree is the
  builder's tree and each file is served its own bytes.
* **Data path.** A read is made of pieces: short pieces, the end of the file and
  device errors come between them, and other writers too. Correct means: each
  format answers what one look at the file would, and every call returns. What is
  written stays in stdio's buffer until some later call, which may be the
  finalizer's: correct means that the file is what the calls made of it, and that
  a call says true only if the device has not failed in it.
* **VM start and loader.** Each template is looked up separately, and the file
  that is found is looked up again, in a list that may have grown. Correct means:
  no file is overlooked, and the file that is read is the one that was found.
* **json.** Numbers are written with 14 digits and read by `loadstring`. Correct
  means: encode and decode are inverse on plain data but for the digits that are
  dropped, decode reads what encode writes of finite numbers, and it ends on any text.
* **Base scripts.** Tables contain themselves, in fields, keys and metatables, and
  `pairs` visits them in any order. Correct means: the recursion ends, and a copy,
  or a dump that is loaded again, has the shape of the original; what cannot be
  dumped or loaded is refused, and nothing else.
* **Directories.** The iterator does not advance (`LuaBoostDirectory.cpp:28`), but no
  script can reach the class.

## 2. Modules

| Module | Models |
|---|---|
| `LuaIO` | ownership of file handles |
| `FileHandles` | what the io library promises about them (abstract) |
| `LuaIOProofs` | theorems about `LuaIO`, and that it implements `FileHandles` |
| `RCRegistry` | `rc.cpp`, statement by statement, for any threads |
| `ResourceList` | an atomic registry (abstract) |
| `RCRegistryProofs` | theorems about `RCRegistry`, and that it implements `ResourceList` |
| `RCTree` | directories, files, lookup (operators) |
| `RCPack` | rcgen and the reader, from the config to the served bytes |
| `RCPackProofs` | theorems about `RCPack` |
| `CoreStart` | start of a `lua_State` and the loader of `require`, over `RCTree` |
| `CoreStartProofs` | theorems about `CoreStart` |
| `FileRead` | the data path of `file:read`, by calls of stdio |
| `ByteStream` | what `file:read` promises (abstract) |
| `FileReadProofs` | theorems about `FileRead`, and that it implements `ByteStream` |
| `FileWrite` | the data path of `write`, `flush`, `seek`, `setvbuf`, `close` and `__gc`, by calls of stdio |
| `ByteSink` | what a file that is written promises (abstract) |
| `FileWriteProofs` | theorems about `FileWrite`, and that it implements `ByteSink` |
| `Json` | `decode` of `json.lua` |
| `JsonProofs` | theorems about `Json` |
| `JsonEncode` | `encode` of `json.lua`, whose texts `decode` reads |
| `BaseScripts` | `copy.lua` and `dump.lua` |
| `BaseScriptsProofs` | theorems about `BaseScripts` |
| `MCRCRegistry`, `MCRCPack`, `MCCoreStart`, `MCFileRead`, `MCFileWrite`, `MCJson`, `MCBaseScripts` | instances for TLC |

### LuaIO

Each adapter has one `LuaBoostFile`, so the state is a function of the adapter:
`mem` (the userdata), `ptr` (`LuaFileAdapter::m_FileHandle` is set), `file`
(`LuaBoostFile`, whose own `m_FileHandle` may be NULL: `"shut"`) and `stream` (the
C stream). `defIn`, `defOut` are the raw pointers `m_StdInput`, `m_StdOutput`;
`regIn`, `regOut` the registry entries. A script is what it can still reach:
`held` (its variables) and its iterators. `Anchored` is what the collector marks,
`Callable` what a script can call; they differ, and the properties are about that.

One action is one library call with all its effects, except `read`, which pushes
a result for each format. A push may run the collector, so `read` is `BeginRead`
and one `ContinueRead` per format, and `Collect` may come between. `write`,
`seek`, `setvbuf` on an open file change nothing modelled; on a shut one they are
`UseShutFile`. Calls that raise an error and change nothing have no action, and
neither has `io.tmpfile`: it only ever raises (the provider does not
override `getTempFile` const, so it gets NULL). `io.popen` is registered as `read`
(`lua_io.cpp:24`) and is covered by `BeginRead`.

Undefined behaviour is made visible: an action that would follow a dangling or
NULL pointer sets `fault`, and nothing is modelled after it. The safety
properties hold up to that point; the four `fault` values are findings 1 to 3.

Assumptions: one `lua_State` in a process, used by one thread (as `admin` and
`io_test` do; `opened_files_count` and the manager are process-wide). `lua_close`
is called at the end, as both programs do. Not enumerated: `f:lines( g )` with a
file as an extra argument.

### RCRegistry

One action per statement that another thread could observe. `instance` is read
without the lock, so a thread that has not synchronized since it was set
(`knows`) may still read NULL, and the assignment may become visible before or
after the constructor's stores (`Construct` and `Publish` in either order).
Each such read is a nondeterministic choice. Everything else is under `m_Mutex`.
`getFilePointer` and `getFileSize` take no lock and touch only the node.

Result worth knowing: the race is real in the language of C++11 but has no
observable effect in this code, because every use of `m_Resources` takes the very
mutex under which the construction happened. `RCRegistryProofs` shows it for any
number of threads.

### RCPack, RCTree

A tree is a function from paths to nodes; replacing a child drops its subtree,
as destroying a `NodePtr` does. The phases follow the programs: `config`
(`addEntry` picks files in an arbitrary order, `addFile` adds one), `toc`
(`writeFile`'s stack walk, children in any order), `data` (the bytes), `parse`
(`Root::Root` in the program), `loaded`. Between the steps of rcgen another
process may write or remove a file. A byte is the pair of its file and position,
or `Stale`: the uninitialized `char` that is written when the file has become
shorter (`RCBuilder.cpp:215`). The entry order within a table is Lua's `next`,
hence unspecified; the model lets entries come in any order.

`files[i].base` and `touched` are not in the code. The first remembers where in the
tree an entry was put. `touched` has the files that were changed on the disk after
`addFile` noted their size and before their bytes were written: these, and no
others, may leave bytes that are not their own (`ByteOf`), however often the disk
changes otherwise.

Abstracted: the text of the config and of the generated source, the bytes'
values, names with quotes or backslashes (`writeFile` does not escape them), a full
disk (`writeFile` does not test its stream).

### CoreStart

Several lua_States start (`StartVM`, a `LoadScript` for each turn of the loop of
`core_open`, `Started`) and require modules (`Require`, one `TryTemplate` per turn of
`findfile`'s loop, `Load` for `rc_load`), while the program adds packs
(`AddResource`). Each lookup of the registry is atomic; `RCRegistryProofs` is the
reason why it may be. The trees are those of `RCTree`.

Strings are sequences of atoms, one of them the separator, so that `GetFullName` may
join names without one (`Node.cpp:27-30`) and `Split` may find the result to be a
single name. The `:/` that all names begin with and that `Root::find` drops with
`substr( 2 )` is left out. `since` is not in the code: it remembers the list at the
beginning of a search. `MaxPacks` bounds what the program adds; each `StartVM` still
adds core's pack once more, as `core_open` does.

Abstracted: `rcpath` is a constant, though a script may assign the global; a file
compiles or does not (`Load` chooses); chunks are not run. Note that a pack that
is added between two tries of one search may make `require` miss a file that the
list has by then, or find one under a later template: it only never misses one
that was there when the search began.

### FileRead, ByteStream

`LuaFileAdapter::read` with its loop, `LuaBoostFile::read`, `readLine`, `isEOF` and
`readNumber`. One action is one call of stdio and what is done with its result;
`ReadBytes` is a turn of the loop around `fread`, `ReadLine` of the one around `fgets`.
Between two of them the file may grow (`Grow`), and the device may fail a call (`Fails`,
at most `MaxErrors` times), which takes fewer bytes than it was asked for. `failed` and
`eof` are the two indicators of the FILE. Once stdio has met the end it does not look
again, whatever is written meanwhile (`Ahead`), until `clearerr` or `fseek`: so a line
ends where `fgets` first met the end, and `isEOF`, which calls `getc` before `clearerr`
(`LuaBoostFile.cpp:186-192`), says that the file ends although it has grown, if the
format before it met the end. `Chunk` stands for `LUAL_BUFFERSIZE`, `SizeMax` for
`~(size_t)0`.

`ByteStream` answers each format in a single step. A read of several pieces takes
effect at its last, and a line that ends without a newline at the `fgets` that met
the end (`Answered`): until then the mapping counts what it has got as unread.
`ended` is what the test for the end repeats, and `Look` the `clearerr` of a format
that reads.
Errors show why it promises little more: each format's `clearerr` forgets the
error of the format before, so a call reports only that of its last, and
`isEOF` takes an error for the end of the file. An error behind the digits of a
number leaves the number.

Abstracted: numbers are digits behind blanks, of which the newline is the only one;
writing is the next module. `Text` models `strlen` on a
buffer with NULs, but the run has no NUL: what `readLine` should give for one is
said nowhere, and it drops the rest of the piece.

### FileWrite, ByteSink

`write` is `Write` and one `WriteArg` per argument; `Raise` is the error of
`luaL_checklstring`, `Return` the pushed result. `Flush`, `Seek`, `SetVBuf`, `Close`
and `Collect` (`~LuaFileAdapter`) are single calls. stdio is modelled as ISO C
describes it: `buffer` keeps bytes back, `vbuf` says when they have to go
(`Fits` when they may stay, `Puts` what a call writes), `disk` and `at` are the file
and the descriptor's offset, and with `append` each transfer goes to the end.
`fopen` may be given a file with bytes (`"r+"`, `"a"`) or none (`"w"`). A failing call
(`Fails`, at most `MaxErrors`) writes any prefix of what it should.

`result` is what the last call said, and `before`, which is not in the code, the number
of errors when it began. `write` goes on in its loop after an error but keeps `status`
false (`LuaFileAdapter.cpp:156-166`) and gives the device nothing more: `ErrorsAreTold`
says that a call which returns true has met no error, and one that reports an error has
met just one. Two errors are told to nobody, and the model has both: that of the
`fclose` in a destructor, and that of a `write` which then finds a bad argument, for
`luaL_checklstring` raises a message about the argument only (line 163). `ByteSink` is a
file without a buffer. The mapping lays the buffer over the disk: until the device
fails, no mode, seek, flush or finalizer loses, doubles or moves a byte.

Abstracted: the text of a number; a file is written only (ISO C wants a seek
between reads and writes, and nothing in the code enforces it).

### Json

Text is a sequence of tokens: characters, but a numeral, a constant and a comment are
one token each. A numeral stands for the number that `loadstring` reads it as; it may
also have no value (`NoValue`: `return --1` is a comment, `return e` a variable), which
gives nil, or be none at all (`Malformed`), which raises (`json.lua:224-237`). The other
way, `tostring` writes a number as `"%.14g"` does (`luaconf.h:522`): the constant
`Shown` gives the number that this text reads as, and those of `Infinite` (inf, -inf,
nan) come out as words, `Infinity`, of which `decode` knows none. An array with the
index inf has no text: the loop of `encode` up to it does not end (`Bounded`).
`Encodings` of `JsonEncode` gives all texts that `encode` may return for a value, in
every order of `pairs` and for every border that `table.getn` may return. `encodeString`
puts a backslash before quotes, backslashes and newlines; `decode_scanString` looks for
the closing quote and hands what is between to `loadstring`, whose reading of escapes is
modelled too. `decode` is the machine that its mutual recursion is: `stack` has the
tables being scanned, each action is the code from one call or return to the next.
Errors leave everything at once (`"raised"`). `decode` starts with a text of `Texts` or
with one that encodes a value of `Values`, which `given` remembers. Which texts do is
the constant `EncodingsOf` of `Json`, and the run gives it the value `Encodings`: so
`decode` is proved about for any texts, in a module without the recursion of `encode`.

Abstracted: the digits of numerals (no two of them touch, as they would be one), the
characters of comments, the escapes of Lua that
`encode` does not write, and all letters but those of the run.

### BaseScripts

A graph of tables is a sequence of them, the root first; a table has `fields` and
`meta`. `call` chooses `table.copy` or `table.dump`. The recursion of each is a stack
machine: an action is the code from one call or return of the local function to the
next, `value` the argument or the result. `CopyCall`, `CopyLoop` and `CopyReturn` are
`_copy` (`copy.lua:9-20`): `lookup_table` has each table before its fields are
copied, so that a table which contains itself finds its copy. A key is copied, then its
value (`index`, `key` and `left` of a frame are the loop's state; `pairs` takes any of
`left`).

`DumpCall`, `DumpLoop` and `DumpReturn` are `dumplua`. What it writes is in two parts.
`text` is the constructor: a function from places to constructors, each a sequence of
items and a metatable; an item that is a constructor itself is `Inner`, and what it
holds is at its own place, the place of the outer one with the number of the item
behind it. `out` has the assignments behind the constructor, for tables that it has
written already: paths of keys, for the target and for the source. `Load` makes a table
for each place, and `Run` runs one assignment. That is what says whether the text is
right: the paths lead where the constructor has put the tables (`DumpLoads`).

A text may be right and yet be refused. `Reads` gives what the text of a number reads
as: 14 digits of it (`"%.14g"`), nil for inf and nan, which are the names of no
variables, and an error for -inf, the minus of nil. `Compiles` says which texts
`loadstring` takes: `luaY_parser` limits the levels of constructors (`LUAI_MAXCCALLS`,
200), the registers (`MAXSTACK`, 250) and the constants (`MAXARG_Bx`). `MaxCalls` is the
depth up to which Lua's stack is sure to have room for the recursion; past it a call may
raise, for `LUAI_MAXCALLS` (20000) counts the calls of the script as well. The three are
constants, so the theorems hold whatever the limits are, and `OnlyRefusals` names every
reason why a call may raise.

Abstracted: functions, userdata beyond their refusal, metamethods and `__metatable`,
the text of strings, the fast mode. Two tables as keys give each other no name: their
text makes new tables, hence `Keyed` in `DumpLoads`, which also asks that no key is a
number with more digits than its text, and no number infinite.

## 3. Runs

| Run | Instance | Shows |
|---|---|---|
| `lua_io` | 2 files, 1 iterator, 2 formats, fair; 1.6 M states | what scripts can call is alive, handles say the truth, nothing leaks; that `LuaIO` implements `FileHandles`, and that forgotten files get closed |
| `lua_io_dangling_iterator`, `_null`, `_dangling_self` | 1 file, 1 iterator, 2 formats | findings 1 to 3 |
| `rc_registry` | 2 threads of 2 calls, 2 packs, 3 paths, fair; 33 k states | one owner, no early use, linearizability, every call returns |
| `rc_pack` | 3 files, 2 entries, 1 change of the disk; 1.6 M states | the pack served is the pack collected |
| `core_start_safety` | 2 lua_States, 4 packs of which 3 are added, 2 modules, 2 templates; 18 k states | searches are not confused by packs added meanwhile |
| `core_start_base` | the same | finding 4 |
| `file_read` | all files of up to 4 bytes of 3, calls of 2 of 8 formats, 1 error, fair; 0.62 M states | `FileRead` implements `ByteStream`, every call returns |
| `file_write` | calls of up to 2 of 6 arguments, a buffer of 2 bytes, files of up to 4, 2 errors; 1.2 M states | `FileWrite` implements `ByteSink`, a call says whether the device failed in it |
| `json` | all texts of up to 4 of 14 tokens, strings of up to 3 of 7 letters, tables of 2 keys of 9, 3 levels deep; 0.45 M states | decode ends and balances, encode and decode are inverse on plain data and on strings, but for the digits that are dropped |
| `base_scripts` | graphs of 2 tables of up to 2 fields, of 3 tables of 1, 4 numbers that are not read as written; 1.3 M states | copy and dump end, enter no table twice, keep the shape and refuse only what is named |

Bounds. Two user files are what the interesting cases of `LuaIO` need: one replaces
another as the default, or is closed while the other is read; the iterator is in turn
one that anchors its file and one that does not. Two formats put the collector between
`BeginRead` and `ContinueRead`, twice. Two threads make every race of `GetInstance`; two
packs that share a path tell "first pack wins" from any other rule. In `rc_pack` the
base `../f` makes a directory named like a file (in both orders), the tree is three
levels deep, sizes are 0 and 2, and adding an entry twice overwrites a path. The packs
of `core_start_*` hide each other's files: a file where another has a directory, one
below the other template, a second base directory. In `file_read` a buffer of 3 makes
`fgets` take two bytes, and counts are less than the buffer, as much, and more; a file
of 4 needs two full pieces. In `file_write` a string may be shorter than the buffer of
2, as long, or longer, with a line or a NUL in it; the offset 5 leaves a gap behind a
file of 4, and the second error may come in the finalizer. In `json` the keys are an
index, a hole, 0, `"n"`, a string and a boolean, the values include `null` and a
function that encode refuses; of the numbers one is rounded, one is inf and one -inf,
also as keys; four tokens are an object with a malformed entry, deeper nesting comes
from the encoded tables; three letters are an escape and what it is mistaken for. In
`base_scripts` two tables give every cycle (self, mutual, through a key or a metatable)
and sharing; three give a path of two steps and a table that is reached twice at
different depths. `MaxCalls` is 2, so that the third level of a graph may find no room
and all others do; the text of a metatable of a metatable is what the parser refuses.
One number is rounded to another that may be a key beside it, one reads as nil, one as
an error. Which fields are tables, which keys are the next index and which userdata
varies over the whole product.

Deadlock is checked everywhere: each model says explicitly when it has stopped
(`Terminated`, `Finished`, `Stopped`, `GivenUp`) or, as `CoreStart` and `FileRead`,
always takes another call.

### Fairness

* `LuaIO!FairSpec`: weak fairness of the collector for each user file. Lua's
  incremental collector is paid for by each allocation and `lua_close` finalizes all;
  a program that never allocates again would wait, and such a script ends.
* `RCRegistry!FairSpec`: weak fairness of each thread's own steps. `Acquire` is
  only weakly fair: `boost::mutex` promises no order. `EveryCallReturns` still
  holds as the threads make finitely many calls in the model (`MaxCalls`); with
  unboundedly many calls a thread could be overtaken for ever.
* `FileRead!FairSpec`: weak fairness of a call that has begun. `MaxLength` matters
  here: `*a` on a file that grows for ever need not end.
* `Json!Spec`, `BaseScripts!Spec`: the function runs on until it returns.

### Findings

1. **An iterator outlives its file** (`LuaFileAdapter.cpp:204`). `f:lines()` gives
   its closure a light userdata. `tests/io/lua/files.lua:102-103` relies on it:
   `io.open( otherfile ):lines()` is used while nothing else holds the file.
2. **NULL for a closed file** (`LuaFileAdapter.cpp:149-150`, `219-220`). After
   `io.close()` of the standard output, which always reports failure, `io.write`
   passes a NULL `FILE*` to stdio instead of raising "attempt to write a closed file":
   `write` tests only the outer pointer. An iterator tests only the inner one, and
   dereferences the outer, NULL after `f:close()`, where it means to raise "file is
   closed".
3. **A method outlives its object** (`RegisterCustomClass.h:75`): `self` is removed
   from the Lua stack before the method runs, and `read` with several formats may
   trigger a collection in between. `LuaIOManager.cpp:267-269` notes the hazard.
4. **No base script is loaded** (`core.cpp:38-52`). `getFullName` joins names
   without separators, so `rc_load` looks for `:/luabasecopy.lua`, fails, and
   `core_open` ignores it. A script that were found would be compiled, not run.

Seen while reading, not in a run: `decode` drops `null` from an array and moves the rest
down (`json.lua:182`), where `json.lua:26` says that null in arrays is managed
correctly, and it accepts a comment only where a value may begin, so `[1/**/]` is
refused (`json.lua:25` says comments are ignored); a carriage return is not escaped
(`json.lua:332-339`) and cannot be read back; `rpc.lua:30` requires `json`, which
`rcpath` does not find (`json.json` is found); `opened_files_count` is not decremented
at the end of `io.lines( name )`, hence `CountCoversOpen` and not equality; the inline
overloads in `rc.h:14-19` and `Root.h` that take a path have no `return` (nothing calls
them); `writeFile` prints bytes above 127 as negative numbers into a `uint8_t` array;
`encode( 1/0 )` is `inf`, which `decode` refuses, and a table with the index `math.huge`
is never encoded; `f:write( s, {} )` raises about its second argument and forgets an
error of the device with the first; `f:read( "*a", 0 )` answers from the end that `"*a"`
met, though the file has grown.

## 4. Proofs

**LuaIOProofs.** From `NamesDistinct` (the three standard adapters differ and are
not user files). `IInv` adds to the properties what makes them inductive: the
raw pointers equal the registry entries; whatever is anchored is live; an
iterator that closes has a file with its `LuaBoostFile` in place and is not
`Callable`; `mem`, `ptr`, `file` and `stream` agree for each adapter. The step
is by action, and the properties are conjuncts or short consequences.
`CountCovers` needs `UsersFinite` and facts on cardinalities. `ImplementsFileHandles` maps
`state` to `stream` and `reach` to `Anchored \cap Users` while the VM is up; each
action is an abstract `Open`, `Close`, `Forget`, `Reclaim` or a stutter.

**RCRegistryProofs.** From `RegistryAssumption`. `IInv` says who is inside the lock
at each label, that `instance`, `built`, `made` and `killer` are determined by the
holder's label, that `knows` implies `instance`, and, for linearizability, that
`findNode` has passed no pack that holds the path. `Linearizable` then maps the
answer of each call to the step in which it is computed: `PushBack` and the last
`TryPack`, both under the lock.

**CoreStartProofs.** From `PacksAssumption`. The lemma `AnswerKept` says that a name
found in a list is found at the same node in every longer list that it begins.
`SinceInv` (the list has only grown since a search began, and what was tried
had no file then), `ReadyInv` (the file found is what the template gives now) and
`ResultInv` follow one from the other, and give `LoaderReadsWhatItFound`,
`SearchIsComplete` and, for each step, `AnswersStay`, for any number of
lua_States, packs, templates and lists of any length.

**FileReadProofs.** From `SizesAssumption`. `ReadsInPlace`: what the loop of `read` has
got is the part of the file before the position, and the count it passes to `fread`
never wraps, for any size of buffer, any bytes and any error. That a prefix without some
bytes has an end (`SpanExists`) needs a least number; it is had from the
well-foundedness of `<` on the naturals. `ImplementsByteStream` and `TypeCorrect` assume
that no byte is NUL, without which `strlen` cuts a line short and the loop runs on into
the next. `SInv` adds `LineInPlace` (what `readLine` has got is the part of the file
before the position, without a newline) and `Loops` (a loop runs for its format and
without an error, and that of `read` stops when it has met the end, `readLine` one turn
later). `UnreadIs` then says that what `ByteStream` takes to be unread is what the loop
has got, and the rest of the file behind it; each `fread` or `fgets` is a stutter, or
the last one, whose result is the answer: `Serves`, or `ServesLess` if it fails.

**FileWriteProofs.** From `ArgsAssumption`. `IInv` is `TypeOK`, `ErrorsAreTold`, `Quiet`
(between calls no argument is left) and `Pending` (within a `write`, `status` is false
exactly when the device has failed once since it began, and true if it has not failed).
`ImplementsByteSink` rests on the lemma `OverlayTwice`: laying a part of the buffer over
the disk, then the rest behind it, is laying the whole; so `Drain`, which every action
uses, keeps the abstract content.

**BaseScriptsProofs.** From `GraphsAssumption` (no key or value is nil, tables lead to
tables of the graph). For `copy`: `Lookup` says that `lookup_table` maps tables one to one
onto all the tables made; `Frames` that each frame's copy has the images of the
fields done, that no table has two frames and that each frame waits for the table of the
next one (`Awaited`), up to the root; `Finished` that a table without a frame is copied
entirely. An entry is only made for a table that has none, which no frame can
be walking over: that is `NoReentry`. At the end there are no frames, so
`Finished` is `CopyIsomorphic`. For `dump`, `Walks` is the part about the frames.

`DumpIsomorphic` and `RefusesNothingElse` need what the paths mean. `Shaped` says that
there are two functions, which the code never computes: `W` gives each table with a path
the place of its constructor, one to one, and `O` the order in which its keys are taken.
While the text is written (`Writing`), each frame has written the first items of its
order (`DumpFrame`): item `i` is labelled with key `i`, or is the next one in the list
part (`Tagged`), and holds a scalar as it is, `Inner` if the value's constructor is
there, or nil, and then an assignment is in `out` (`Settled`); and a table without a
frame is written entirely (`Whole`). While the assignments run (`Running`), the tables
made have the fields of the original ones but for those whose assignment is still due.
A path is sound because it only goes through tables in the places where they were
first met, and no assignment is due there: so `Follow` ends, by induction on the length of
the path's place, at the table of `W`, before, between and after the assignments. That is
why none of them raises an error, and with `out` empty it is `DumpLoads`. A table as a
key breaks this from the first on (its path has no name in the text), and so does a key
that reads as another one, hence `Keyed`; `Plain` says the same of one table, and
`NothingFails` that a text of plain tables has no item that raises. What is left to
raise is `NoRoom`: the depth of the recursion, or the parser.

**RCPackProofs.** From `DiskAssumption` and `PathsAssumption` (bases and sources are
sequences of names, and a source has at least one). `RangesDisjoint` is inductive with the
types of `disk`, `todo` and `files`: the next offset lies behind all files. `DataLands`
adds that the files are contiguous, that the data written end where the file at the
cursor begins, and that a file which is not `touched` has the size that was seen until
its bytes are written (`Unchanged`).

`AcceptedFiles` needs `BuilderInv`: the builder's tree is finite, whatever is above a
node is a directory (`Tree`), no directory is empty, and each file node is the latest
that was placed there (`FilesPlaced`). No empty directory matters twice: `Root::Root`
does not create one, so the round trip would lose it.

`ParserStops` and `TableRoundTrip` relate two stack machines that run one after the
other. `TableInv` says that there is a history `W` of `writeFile`'s stack, `W[c]` being
what it held after `c` items (`History`): each item is what one `Turn` of the loop
writes. Reading item `c`, `Root::Root` has a stack that `Mirrors` `W[c]`, directory by
directory, with as many items still due, and a tree that is `Built`: the nodes of the
builder's tree but for those at or below what `W[c]` had left to write. That no two
nodes left lie above one another (`Apart`) makes `Turned` hold: a turn takes one node
from what is left, and adds what is below it. So `addChild` never replaces anything,
both stacks are empty after the same item, and then nothing is left. Since the history
is kept by the steps that write, no induction over the table is needed. `BytesServed`
follows from this, `FilesPlaced` and `DataAligned`. The `while` that pops is written
with the largest level to keep; that there is one (`LargestNat`) rests on the
well-foundedness of `<`.

**JsonProofs.** From `TextsAssumption` (texts are sequences, of any tokens). `UpTo[i]`
is what a reader of brackets and quotes has open after `i` tokens; it is defined by
recursion over the text, and that there is such a function is shown first (`UpToIs`).
The invariant `JsonInv` says of the stack machine that before its position just the
tables of the stack are open, and no string: blanks, commas, colons, numbers and
constants leave what is open (`OrdinaryRun`), a bracket is read exactly when a table is
pushed or popped, and a string is skipped whole (`StringScanned`): its quote is escaped
for `decode_scanString`, which counts the backslashes before it, exactly when it is for
a reader that goes from left to right and remembers whether the last backslash was
itself escaped (`EscapedNext`, parity of a cardinality). `JsonInv` also has the shape of
the tables under construction, for `TypeCorrect`. TLC has checked `JsonInv` on the
instance of the run.

Only model-checked: the liveness properties (TLAPS does not do fairness or
ENABLED); `EncodedTextsDecode` and `RoundTrip` of json, since `encode` is recursive over
the nesting of its value (induction over data, and RECURSIVE operators, which TLAPS
cannot read).

## 5. Not modelled, and plan

Done, in this order: handles, registry, tree and packs, VM start and loader, data
path of `read`, json with the characters of its strings, base scripts, data path of
`write`. What is left, and why:

* **Functions in `dump.lua`**: upvalues, the numbering of closures and its C
  functions; metamethods and `__metatable`; the fast mode, which recurs for ever on a
  cycle and which nothing in the repository uses. `split.lua` is one `gsub`.
* **Reading and writing one file** without a seek between: ISO C leaves it
  undefined, and nothing in the code forbids it to a script.
* **Several `lua_State`s** in one process: the manager, `opened_files_count` and
  `__file_buffer` are static. No program of the repository starts a second one.
* **Shutdown of rc**: static destructors against `RCOwner::instance`, and `NodePtr`s
  that outlive their `Root`. It needs a client that calls after the exit.
* **Directories** (`LuaBoostDirectory`): registered with no Lua table, so no state
  of a program holds one.
* **json's numerals and comments** inside (their digits and characters), and Lua's
  decimal escapes, which `encode` does not write.
* **rpc.lua** (an HTTP client whose library is not in the repository), the empty
  components, third-party code.

The vendored sources (sqlite3, Lua, luabind, lsqlite3) are more than nine tenths of the
lines under `src/`; they are not jord's, and the models cover its own few thousand.
