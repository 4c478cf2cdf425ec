----------------------------- MODULE BaseScripts -----------------------------
(***************************************************************************)
(* The scripts of lua/base that walk over tables: table.copy (copy.lua)    *)
(* and table.dump in its default mode (dump.lua), with the loading of the  *)
(* text that table.dump returns.                                           *)
(*                                                                         *)
(* Tables refer to each other, to themselves and to metatables, so both    *)
(* must come back to a table that they have seen. A text is the constructor*)
(* and the assignments behind it, with paths in place of their characters. *)
(* Functions, metamethods and the metafield __metatable are left out.      *)
(***************************************************************************)
EXTENDS Integers, Sequences, SequencesExt, FiniteSetsExt

CONSTANTS
  Graphs,          \* the tables that a script may have: sequences, the root first
  Reads(_),        \* what the text of a number reads as: a number, Nil ("inf", "nan", the
                   \* names of no variables), or None for an error (of the minus of "-inf")
  Compiles(_, _),  \* the texts that luaY_parser takes: LUAI_MAXCCALLS limits their levels,
                   \* MAXSTACK the registers and MAXARG_Bx the constants that they need
  MaxCalls         \* the levels of tables for which Lua's stack is sure to have room: past
                   \* them LUAI_MAXCALLS may be reached, which depends on the script

VARIABLES
  given,            \* the tables of the script (the model's own)
  call,             \* what the script calls: "copy" or "dump"
  pc,
  value,            \* the argument of the recursive call, then what it returns
  path,             \* its third argument, in dumplua
  stack,            \* the tables that are being walked over, the innermost last
  lookup_table,     \* copy: from a table to its copy
  defined,          \* dump: from a table to its path
  keycache,         \* dump: the tables among the keys it has
  text,             \* dump: the constructor that it writes
  out,              \* dump: the assignments, as <<target, source>>
  heap              \* the tables that were made

walk == <<pc, value, path, stack>>
vars == <<given, call, walk, lookup_table, defined, keycache, text, out, heap>>

Nil == <<"nil", 0>>
None == <<"none", 0>>
Table(a) == <<"table", a>>
IsTable(v) == v[1] = "table"
Meta == <<"getmetatable", 0>>      \* a step of a path, beside the keys
NewTable == <<"new", 0>>           \* a constructor without fields as a key

\* What has a type of Lua is not nil; functions and threads are left out.
Types == {"boolean", "number", "string", "userdata", "table"}

\* No key and no value is nil, and what is a table leads to a table of the graph.
ASSUME GraphsAssumption ==
  /\ MaxCalls \in Nat
  /\ \A g \in Graphs :
       /\ Len(g) \in Nat \ {0} /\ DOMAIN g = 1..Len(g)
       /\ \A a \in DOMAIN g :
            /\ IsFiniteSet(DOMAIN g[a].fields)
            /\ g[a].meta = Nil \/ g[a].meta \in {Table(b) : b \in DOMAIN g}
            /\ \A k \in DOMAIN g[a].fields : \A v \in {k, g[a].fields[k]} :
                 /\ v[1] \in Types /\ (IsTable(v) => v \in {Table(b) : b \in DOMAIN g})
                 /\ v[1] = "number" =>
                      Reads(v[2]) \in {Nil, None} \/ Reads(v[2])[1] = "number"

\* A table has fields, a function from its keys, and meta, a table or Nil.
EmptyTable == [fields |-> <<>>, meta |-> Nil]
Given(v) == given[v[2]]

Top == stack[Len(stack)]
WithTop(frame) == [stack EXCEPT ![Len(stack)] = frame]
Popped == SubSeq(stack, 1, Len(stack) - 1)
Put(f, k, v) == [j \in DOMAIN f \cup {k} |-> IF j = k THEN v ELSE f[j]]
Set(f, k, v) == IF v = Nil THEN [j \in DOMAIN f \ {k} |-> f[j]] ELSE Put(f, k, v)

Raise == pc' = "raised" /\ UNCHANGED <<value, path, stack>>
Return(v) == pc' = "return" /\ value' = v /\ UNCHANGED path
Call(v, p) == pc' = "call" /\ value' = v /\ path' = p

-----------------------------------------------------------------------------
(* table.copy *)

Copying == call = "copy" /\ UNCHANGED <<given, call, defined, keycache, text, out>>

\* lookup_table[object] = new_table, before the fields are copied.
NotLookedUp(new) == lookup_table        \* mutant: the table is not noted
LookedUp(new) == Put(lookup_table, value, new)

CopyCall ==
  /\ Copying /\ pc = "call"
  /\ \/ Len(stack) >= MaxCalls /\ Raise /\ UNCHANGED <<lookup_table, heap>>
     \/ ~IsTable(value) /\ Return(value) /\ UNCHANGED <<stack, lookup_table, heap>>
     \/ /\ value \in DOMAIN lookup_table
        /\ Return(lookup_table[value]) /\ UNCHANGED <<stack, lookup_table, heap>>
     \/ /\ IsTable(value) /\ value \notin DOMAIN lookup_table
        /\ LET new == Len(given) + Cardinality(DOMAIN heap) + 1 IN
           /\ lookup_table' = LookedUp(Table(new))
           /\ heap' = Put(heap, new, EmptyTable)
           /\ stack' = Append(stack, [table |-> value, new |-> new, index |-> Nil, key |-> Nil,
                                      left |-> DOMAIN Given(value).fields])
        /\ pc' = "loop" /\ UNCHANGED <<value, path>>

\* pairs visits the fields in any order.
LeftKept(k) == Top.left                 \* mutant: next does not advance
LeftAfter(k) == Top.left \ {k}
CopyLoop ==
  /\ Copying /\ pc = "loop"
  /\ \/ \E k \in Top.left :
          /\ stack' = WithTop([Top EXCEPT !.index = k, !.key = Nil, !.left = LeftAfter(k)])
          /\ Call(k, path) /\ UNCHANGED heap
     \/ /\ Top.left = {}
        /\ heap' = [heap EXCEPT ![Top.new].meta = Given(Top.table).meta]
        /\ Return(Table(Top.new)) /\ stack' = Popped
  /\ UNCHANGED lookup_table

KeyAsItIs(k) == Top.index               \* mutant: new_table[index] = _copy( value )
CopiedKey(k) == k
CopyReturn ==
  /\ Copying /\ pc = "return"
  /\ \/ stack = <<>> /\ pc' = "done" /\ UNCHANGED <<value, path, stack, heap>>
     \/ /\ stack # <<>> /\ Top.key = Nil
        /\ stack' = WithTop([Top EXCEPT !.key = CopiedKey(value)])
        /\ Call(Given(Top.table).fields[Top.index], path) /\ UNCHANGED heap
     \/ /\ stack # <<>> /\ Top.key # Nil
        /\ heap' = [heap EXCEPT ![Top.new].fields = Set(@, Top.key, value)]
        /\ pc' = "loop" /\ UNCHANGED <<value, path, stack>>
  /\ UNCHANGED lookup_table

-----------------------------------------------------------------------------
(* table.dump *)

Dumping == call = "dump" /\ UNCHANGED <<given, call, lookup_table>>

\* keys: sorted by type, then by value; tables stay in any order.
Before(j, k) ==
  LET rank(v) == CASE v[1] = "boolean" -> 1 [] v[1] = "number" -> 2
                   [] v[1] = "string" -> 3 [] OTHER -> 4 IN
  \/ rank(j) < rank(k)
  \/ j[1] = "number" /\ k[1] = "number" /\ j[2] < k[2]
Keys(t) ==
  {ks \in SetToSeqs(DOMAIN t.fields) :
     \A i \in 1..Len(ks) : \A j \in 1..i - 1 : ~Before(ks[i], ks[j])}

\* The constructors that the text has are at places, the numbers of the items that lead
\* to them, 0 for a metatable. Inner stands for the constructor that is written there.
Constructor == [items |-> <<>>, meta |-> Nil]
Inner == <<"constructor", 0>>
Item == IF Top.key = Meta THEN 0 ELSE Len(text[Top.place].items) + 1
Place == IF stack = <<>> THEN <<>> ELSE Append(Top.place, Item)

\* test_defined
Defined == Put(defined, value, path)

\* dumplua: fcts.table up to its first call of dumplua, or to its return.
DumpCall ==
  /\ Dumping /\ pc = "call"
  /\ \/ /\ ~IsTable(value) /\ value[1] # "userdata"
        /\ Return(value) /\ UNCHANGED <<stack, defined, text, out>>
     \/ /\ value[1] = "userdata" \/ Len(stack) >= MaxCalls
        /\ Raise /\ UNCHANGED <<defined, text, out>>
     \/ /\ value \in DOMAIN defined
        /\ out' = Append(out, <<path, defined[value]>>)
        /\ Return(Nil) /\ UNCHANGED <<stack, defined, text>>
     \/ /\ IsTable(value) /\ value \notin DOMAIN defined
        /\ defined' = Defined
        /\ text' = Put(text, Place, Constructor)
        /\ \E ks \in Keys(Given(value)) :
             stack' = Append(stack, [table |-> value, path |-> path, place |-> Place,
                                     keys |-> ks, numidx |-> 1, key |-> Meta])
        /\ IF Given(value).meta = Nil THEN Return(Nil)
           ELSE Call(Given(value).meta, Append(path, Meta))
        /\ UNCHANGED out
  /\ UNCHANGED <<keycache, heap>>

\* make_key. A table is dumped without a path, which only an empty table that
\* has none yet survives, and its text makes a new table.
IsKey(k) ==
  IF IsTable(k) THEN k \in keycache \/ (k \notin DOMAIN defined /\ Given(k) = EmptyTable)
  ELSE k[1] # "userdata"
KeyText(k) == IF IsTable(k) THEN NewTable ELSE k

SubpathAlone(k) == <<KeyText(k)>>         \* mutant: the path of the table is forgotten
Subpath(k) == Append(Top.path, KeyText(k))

AnyPositional(k) == k[1] = "number"       \* mutant: whatever the number is
Positional(k) == k = <<"number", Top.numidx>>
DumpLoop ==
  LET k == Head(Top.keys) IN
  /\ Dumping /\ pc = "loop"
  /\ \/ /\ Top.keys = <<>>
        /\ Return(Inner) /\ stack' = Popped
        /\ UNCHANGED keycache
     \/ /\ Top.keys # <<>> /\ Positional(k)
        /\ stack' = WithTop([Top EXCEPT !.keys = Tail(@), !.key = None, !.numidx = @ + 1])
        /\ Call(Given(Top.table).fields[k], Subpath(k)) /\ UNCHANGED keycache
     \/ /\ Top.keys # <<>> /\ ~Positional(k) /\ IsKey(k)
        /\ stack' = WithTop([Top EXCEPT !.keys = Tail(@), !.key = KeyText(k)])
        /\ Call(Given(Top.table).fields[k], Subpath(k))
        /\ keycache' = IF IsTable(k) THEN keycache \cup {k} ELSE keycache
     \/ Top.keys # <<>> /\ ~IsKey(k) /\ Raise /\ UNCHANGED keycache
  /\ UNCHANGED <<defined, text, out, heap>>

\* The value of a key was dumped, or the metatable.
DumpReturn ==
  /\ Dumping /\ pc = "return"
  /\ \/ stack = <<>> /\ pc' = "load" /\ UNCHANGED <<stack, text>>
     \/ /\ stack # <<>> /\ Top.key = Meta
        /\ text' = [text EXCEPT ![Top.place].meta = value]
        /\ stack' = WithTop([Top EXCEPT !.key = Nil]) /\ pc' = "loop"
     \/ /\ stack # <<>> /\ Top.key # Meta
        /\ text' = [text EXCEPT ![Top.place].items = Append(@, <<Top.key, value>>)]
        /\ pc' = "loop" /\ UNCHANGED stack
  /\ UNCHANGED <<value, path, defined, keycache, out, heap>>

-----------------------------------------------------------------------------
(* loadstring( text )(): the constructor makes a table at each of its places, then *)
(* the assignments run.                                                            *)

\* The "%.14g" of a number reads as another one, or as none.
Read(v) == IF v[1] = "number" THEN Reads(v[2]) ELSE v

KeyOf(p, i) ==
  LET items == text[p].items IN
  CASE items[i][1] = None -> <<"number", Cardinality({j \in 1..i : items[j][1] = None})>>
    [] items[i][1] = NewTable -> Table(Append(p, -i))
    [] OTHER -> Read(items[i][1])
ValueOf(p, i) ==
  LET e == IF i = 0 THEN text[p].meta ELSE text[p].items[i][2] IN
  IF e = Inner THEN Table(Append(p, i)) ELSE Read(e)
Made(p) ==
  LET filled == {i \in 1..Len(text[p].items) : ValueOf(p, i) # Nil} IN
  [fields |-> [k \in {KeyOf(p, i) : i \in filled} |->
                 ValueOf(p, Max({i \in filled : KeyOf(p, i) = k}))],
   meta |-> ValueOf(p, 0)]

\* A key that reads as nil is an error too.
Fails(p) ==
  \E i \in 1..Len(text[p].items) : KeyOf(p, i) \in {Nil, None} \/ ValueOf(p, i) = None

Load ==
  /\ Dumping /\ pc = "load"
  /\ IF Compiles(text, out) /\ \A p \in DOMAIN text : ~Fails(p)
     THEN /\ heap' = [p \in DOMAIN text |-> Made(p)]
          /\ pc' = "run" /\ value' = Table(<<>>) /\ UNCHANGED <<path, stack>>
     ELSE Raise /\ UNCHANGED heap
  /\ UNCHANGED <<defined, keycache, text, out>>

\* A path is followed from the table of the constructor; the second operand of nothing
\* is an error.
Followed(v, k) ==
  CASE ~IsTable(v) -> None
    [] IsTable(v) /\ k = Meta -> heap[v[2]].meta
    [] IsTable(v) /\ k # Meta /\ Read(k) \in DOMAIN heap[v[2]].fields ->
         heap[v[2]].fields[Read(k)]
    [] OTHER -> Nil
Follow(p) ==
  LET at[i \in 0..Len(p)] == IF i = 0 THEN Table(<<>>) ELSE Followed(at[i - 1], p[i])
  IN at[Len(p)]

Run ==
  /\ Dumping /\ pc = "run"
  /\ \/ out = <<>> /\ pc' = "done" /\ UNCHANGED <<heap, out>>
     \/ /\ out # <<>>
        /\ LET target == Head(out)[1]
               owner == Follow(Front(target))
               source == Follow(Head(out)[2])
               k == Last(target)
               key == IF k = NewTable THEN Table(<<-Len(out), 0>>) ELSE Read(k)
           IN IF ~IsTable(owner) \/ source = None
              THEN pc' = "raised" /\ UNCHANGED heap
              ELSE /\ heap' = IF k = Meta THEN [heap EXCEPT ![owner[2]].meta = source]
                              ELSE [heap EXCEPT ![owner[2]].fields = Set(@, key, source)]
                   /\ UNCHANGED pc
        /\ out' = Tail(out)
  /\ UNCHANGED <<value, path, stack, defined, keycache, text>>

-----------------------------------------------------------------------------

Init ==
  /\ given \in Graphs /\ call \in {"copy", "dump"}
  /\ pc = "call" /\ value = Table(1) /\ path = <<>> /\ stack = <<>>
  /\ lookup_table = <<>> /\ defined = <<>> /\ keycache = {}
  /\ text = <<>> /\ out = <<>> /\ heap = <<>>

Step == \/ CopyCall \/ CopyLoop \/ CopyReturn
        \/ DumpCall \/ DumpLoop \/ DumpReturn \/ Load \/ Run

Stopped == pc \in {"done", "raised"} /\ UNCHANGED vars

Next == Step \/ Stopped

\* The script runs until the call returns.
Spec == Init /\ [][Next]_vars /\ WF_vars(Step)

-----------------------------------------------------------------------------
(* Properties *)

\* The tables of which each part is being copied or dumped are given ones, and a copy
\* refers to copies only, its metatable apart: neither its fields nor its keys share
\* a table with the original (copy.lua:15-16).
TypeOK ==
  /\ pc \in {"call", "loop", "return", "load", "run", "done", "raised"}
  /\ \A i \in 1..Len(stack) : stack[i].table \in {Table(a) : a \in DOMAIN given}
  /\ DOMAIN lookup_table \cup DOMAIN defined \subseteq {Table(a) : a \in DOMAIN given}
  /\ call = "copy" =>
       \A a \in DOMAIN heap : \A k \in DOMAIN heap[a].fields : \A v \in {k, heap[a].fields[k]} :
         IsTable(v) => v[2] \in DOMAIN heap

\* A table that contains itself, in its fields, keys or metatables, is not entered
\* twice: the recursion is as deep as there are tables (copy.lua:10-14, dump.lua:148).
NoTableTwice == \A i, j \in 1..Len(stack) : stack[i].table = stack[j].table => i = j

\* f maps the tables of S one to one to those that were made, the root to the root,
\* and their fields accordingly; meta maps the metatables, scalar the other values.
Image(S, f, v) ==
  CASE ~IsTable(v) -> v [] IsTable(v) /\ v[2] \in S -> f[v[2]] [] OTHER -> None
Mirrors(S, f, meta(_), scalar(_)) ==
  /\ 1 \in S /\ value = f[1]
  /\ {f[a] : a \in S} = {Table(b) : b \in DOMAIN heap}
  /\ \A a, b \in S : f[a] = f[b] => a = b
  /\ \A a \in S :
       LET t == given[a]
           u == heap[f[a][2]]
       IN /\ DOMAIN u.fields = {Image(S, f, k) : k \in DOMAIN t.fields}
          /\ \A k \in DOMAIN t.fields :
               u.fields[Image(S, f, k)] = Image(S, f, scalar(t.fields[k]))
          /\ u.meta = meta(t.meta)

\* table.copy returns a graph of the same shape, cycles, shared tables and tables as
\* keys included, over the same metatables (copy.lua:7-22).
Visited(f) == {a \in DOMAIN given : Table(a) \in DOMAIN f}
CopyMirrors ==
  pc = "done" /\ call = "copy" =>
    Mirrors(Visited(lookup_table), [a \in Visited(lookup_table) |-> lookup_table[Table(a)]],
            LAMBDA m : m, LAMBDA v : v)

\* Loading what table.dump wrote makes a graph of the same shape, metatables included,
\* if no key is a table or a number that its text does not give, and no number is
\* infinite: the paths of the assignments lead where the constructor has put the
\* tables (dump.lua:147-182). A number of more than 14 digits comes back as its text.
Keyed ==
  \A a \in Visited(defined) : \A k \in DOMAIN given[a].fields :
    ~IsTable(k) /\ Read(k) = k /\ Read(given[a].fields[k]) \notin {Nil, None}
DumpLoads ==
  pc = "done" /\ call = "dump" /\ Keyed =>
    LET S == Visited(defined)
        f == [a \in S |-> Follow(defined[Table(a)])]
    IN Mirrors(S, f, LAMBDA m : Image(S, f, m), Read)

\* Up to the depth that Lua's stack has room for, table.copy takes every graph, and
\* table.dump, with the loading of what it wrote, refuses only a userdata, a table as
\* a key, a key whose text is another number or none, an infinite number, and a text
\* that is too much for Lua's parser (dump.lua:99, 104, 222-229).
OnlyRefusals ==
  pc = "raised" =>
    \/ Len(stack) >= MaxCalls
    \/ /\ call = "dump"
       /\ \/ heap = <<>> /\ ~Compiles(text, out)
          \/ \E a \in Visited(defined) : \E k \in DOMAIN given[a].fields :
               LET v == given[a].fields[k] IN
               \/ IsTable(k) \/ "userdata" \in {k[1], v[1]}
               \/ Read(k) # k \/ Read(v) \in {Nil, None}

\* Every call returns or raises an error, however the tables refer to each other.
EveryCallEnds == <>(pc \in {"done", "raised"})

=============================================================================
