-------------------------------- MODULE Json --------------------------------
(***************************************************************************)
(* decode of json.lua, as the stack machine that its recursion is. Text is *)
(* a sequence of tokens: characters, but a numeral, a constant and a       *)
(* comment are one token each. A numeral is the number that loadstring     *)
(* reads it as, if it reads one; no two numerals touch. What is modelled   *)
(* is where arrays, objects and strings end, what becomes of nil, of       *)
(* commas, colons, blanks and comments, and what a string means.           *)
(*                                                                         *)
(* A Lua value is a pair of its type and of what it is; a table is a       *)
(* function from the keys that it has. decode runs on the texts that       *)
(* encode writes, and on others.                                           *)
(***************************************************************************)
EXTENDS Integers, Sequences, SequencesExt

CONSTANTS
  Values, EncodingsOf(_),     \* what encode is given, and the texts that it may return
  Texts                       \* what decode is given otherwise

ASSUME TextsAssumption ==
  \A text \in Texts \cup UNION {EncodingsOf(v) : v \in Values} :
    Len(text) \in Nat /\ DOMAIN text = 1..Len(text)

VARIABLES
  given,      \* the value that s encodes, None if s was not encoded (the model's own)
  s, pos,     \* s and startPos
  pc,
  stack,      \* the tables that are being scanned, the innermost first
  ret         \* what decode has just returned

vars == <<given, s, pos, pc, stack, ret>>

Nil == <<"nil", 0>>
Number(n) == <<"number", n>>
String(chars) == <<"string", chars>>
Table(f) == <<"table", f>>
null == <<"function", "null">>
None == <<"none", 0>>

Type(v) == v[1]
EmptyTable == <<>>

Token(c) == <<"token", c>>
Comment == <<"comment", 0>>
Backslash == Token("\\")
NewLine == Token("newline")
Return == Token("return")
Tab == Token("tab")
Whitespace == {Token(" "), NewLine, Return, Tab}
Quotes == {Token("'"), Token("\"")}
Opening == {Token("["), Token("{")}
Ending == {Token("]"), Token("}")}
Comma == Token(",")
Colon == Token(":")
NoValue == Token("--")        \* a numeral that is no value: a comment or the name e
Malformed == Token("+")       \* a numeral that loadstring refuses, or that raises
Raised == <<"raised", 0>>     \* ends a text that encode has not finished

-----------------------------------------------------------------------------
(* decode *)

\* decode_scanWhitespace
Skip(p) == Min({q \in p..Len(s) : s[q] \notin Whitespace} \cup {Max({p, Len(s) + 1})})
In(p) == p <= Len(s)

\* decode_scanString: the first quote like the one at p that no backslash precedes,
\* or is preceded by one that is itself escaped.
Escaped(p, q) ==
  Cardinality({i \in p + 1..q - 1 : \A j \in i..q - 1 : s[j] = Backslash}) % 2 = 1
Closing(p) ==
  {q \in p + 1..Len(s) :
     /\ s[q] = s[p] /\ ~Escaped(p, q)
     /\ \A r \in p + 1..q - 1 : s[r] = s[p] => Escaped(p, r)}

\* What Lua reads between the quotes: loadstring raises at the end of a line. (Of the
\* escapes, those that encode does not write are left out, and an escaped pair of both
\* characters that end a line.)
Meaning(c) ==
  CASE c = Token("n") -> NewLine [] c = Return -> NewLine [] c = Token("t") -> Tab
    [] OTHER -> c
IsString(p, q) == \A i \in p + 1..q - 1 : s[i] \in {NewLine, Return} => Escaped(p, i)
Chars(p, q) ==
  FoldLeft(LAMBDA chars, i :
             IF Escaped(p, i) THEN Append(chars, Meaning(s[i]))
             ELSE IF s[i] = Backslash THEN chars ELSE Append(chars, s[i]),
           <<>>, [i \in 1..q - p - 1 |-> p + i])

With(f, k, v) == [j \in DOMAIN f \cup {k} |-> IF j = k THEN v ELSE f[j]]

\* table.insert( array, object ); nil changes nothing.
InsertedAtFront(f, v) == With(f, Number(1), v)    \* mutant
Inserted(f, v) ==
  IF v = Nil THEN f ELSE With(f, Number(Cardinality(DOMAIN f) + 1), v)

\* object[key]=value; nil removes the key.
Assigned(f, k, v) ==
  IF v = Nil THEN [j \in DOMAIN f \ {k} |-> f[j]] ELSE With(f, k, v)

Top == Head(stack)
Frame(kind) == [kind |-> kind, table |-> EmptyTable, key |-> None]

\* An assertion fails or an operator does not apply.
Raise == pc' = "raised" /\ UNCHANGED <<pos, stack, ret>>
Go(label, p) == pc' = label /\ pos' = p

BehindInPlace(p) == p      \* mutant: a bracket or a comment is not passed
Behind(p) == p + 1

\* decode: what it does up to the call of another function, or to its return.
Decode ==
  LET p == Skip(pos) IN
  /\ pc = "decode"
  /\ \/ ~In(p) /\ Raise
     \/ /\ In(p) /\ s[p] \in Opening
        /\ Go(IF s[p] = Token("[") THEN "array" ELSE "object", p + 1)
        /\ stack' = <<Frame(pc')>> \o stack /\ UNCHANGED ret
     \/ /\ In(p) /\ s[p] \in Quotes
        /\ \/ Closing(p) = {} /\ Raise
           \/ \E q \in Closing(p) :
                \/ ~IsString(p, q) /\ Raise
                \/ /\ IsString(p, q) /\ Go("return", q + 1)
                   /\ ret' = String(Chars(p, q)) /\ UNCHANGED stack
     \/ /\ In(p) /\ Type(s[p]) \in {"number", "boolean"}
        /\ Go("return", p + 1) /\ ret' = s[p] /\ UNCHANGED stack
     \/ /\ In(p) /\ s[p] \in {Token("null"), NoValue}
        /\ Go("return", p + 1) /\ ret' = Nil /\ UNCHANGED stack
     \/ In(p) /\ s[p] = Comment /\ Go("decode", Behind(p)) /\ UNCHANGED <<stack, ret>>
     \/ /\ In(p) /\ Type(s[p]) = "token"
        /\ s[p] \notin {Token("null"), NoValue} \cup Opening \cup Quotes /\ Raise
  /\ UNCHANGED <<given, s>>

\* One turn of the loops of decode_scanArray and decode_scanObject, up to their
\* call of decode.
Turn(kind, bracket) ==
  LET p == Skip(pos)
      q == IF In(p) /\ s[p] = Comma THEN Skip(p + 1) ELSE p IN
  /\ pc = kind
  /\ \/ ~In(q) /\ Raise
     \/ /\ In(q) /\ s[p] = Token(bracket)
        /\ Go("return", Behind(p)) /\ ret' = Table(Top.table) /\ stack' = Tail(stack)
     \/ In(q) /\ s[p] # Token(bracket) /\ Go("decode", q) /\ UNCHANGED <<stack, ret>>
  /\ UNCHANGED <<given, s>>

Finish ==
  /\ pc = "return" /\ stack = <<>>
  /\ Go("done", pos)
  /\ UNCHANGED <<given, s, stack, ret>>

ReturnItem ==
  /\ pc = "return" /\ stack # <<>> /\ Top.kind = "array"
  /\ Go("array", pos)
  /\ stack' = [stack EXCEPT ![1].table = Inserted(@, ret)]
  /\ UNCHANGED <<given, s, ret>>

\* The messages of the assertions are built before they are needed: '..' raises
\* for a key that is neither a string nor a number.
KeyTakenAny(k) == TRUE      \* mutant: no message
KeyTaken(k) == Type(k) \in {"string", "number"}
ReturnKey ==
  LET p == Skip(pos)
      q == Skip(p + 1) IN
  /\ pc = "return" /\ stack # <<>> /\ Top.kind = "object" /\ Top.key = None
  /\ IF KeyTaken(ret) /\ In(p) /\ s[p] = Colon /\ In(q)
     THEN Go("decode", q) /\ stack' = [stack EXCEPT ![1].key = ret] /\ UNCHANGED ret
     ELSE Raise
  /\ UNCHANGED <<given, s>>

ReturnValue ==
  /\ pc = "return" /\ stack # <<>> /\ Top.kind = "object" /\ Top.key # None
  /\ Go("object", pos)
  /\ stack' = [stack EXCEPT ![1].table = Assigned(@, Top.key, ret), ![1].key = None]
  /\ UNCHANGED <<given, s, ret>>

-----------------------------------------------------------------------------

Init ==
  /\ \/ given \in Values /\ s \in EncodingsOf(given)
     \/ given = None /\ s \in Texts
  /\ pos = 1 /\ stack = <<>> /\ ret = Nil
  /\ pc = IF \E i \in 1..Len(s) : s[i] = Raised THEN "raised" ELSE "decode"

Step == \/ Decode \/ Turn("array", "]") \/ Turn("object", "}")
        \/ Finish \/ ReturnItem \/ ReturnKey \/ ReturnValue

Stopped == pc \in {"done", "raised"} /\ UNCHANGED vars

Next == Step \/ Stopped

\* decode runs until it returns.
Spec == Init /\ [][Next]_vars /\ WF_vars(Step)

-----------------------------------------------------------------------------
(* Properties *)

\* A table is decoded with keys of strings and numbers only, and without nil; those
\* within it have been returned before it (json.lua:164-184, 245-273).
WellTyped(v) ==
  Type(v) = "table" =>
    \A k \in DOMAIN v[2] : Type(k) \in {"string", "number"} /\ v[2][k] # Nil
TypeOK ==
  /\ pc \in {"decode", "array", "object", "return", "done", "raised"}
  /\ pos \in 1..Len(s) + 1
  /\ \A i \in 1..Len(stack) :
       /\ stack[i].kind \in {"array", "object"} /\ WellTyped(Table(stack[i].table))
       /\ stack[i].key = None \/ Type(stack[i].key) \in {"string", "number"}
  /\ WellTyped(ret)

\* What is open after a token, if n was before it.
Scanned(n, t) ==
  IF n.quote # None
  THEN [depth  |-> n.depth,
        quote  |-> IF t = n.quote /\ ~n.escape THEN None ELSE n.quote,
        escape |-> t = Backslash /\ ~n.escape]
  ELSE [depth  |-> n.depth + (CASE t \in Opening -> 1 [] t \in Ending -> -1 [] OTHER -> 0),
        quote  |-> IF t \in Quotes THEN t ELSE None,
        escape |-> FALSE]
Outside == [depth |-> 0, quote |-> None, escape |-> FALSE]
UpTo[i \in 0..Len(s)] == IF i = 0 THEN Outside ELSE Scanned(UpTo[i - 1], s[i])

\* The tables being scanned are those whose brackets are open before the
\* position, strings apart, so what decode accepts is balanced (json.lua:119-311).
DepthIsNesting ==
  pc # "raised" => UpTo[pos - 1].depth = Len(stack) /\ UpTo[pos - 1].quote = None

\* decode ends on every text, with a value or an error.
EveryDecodeEnds == <>(pc \in {"done", "raised"})

=============================================================================
