----------------------------- MODULE JsonEncode -----------------------------
(***************************************************************************)
(* encode of json.lua: all the texts that it may return for a value, in    *)
(* every order of pairs and for every border that table.getn may return.   *)
(* A number is written by tostring, with 14 digits.                        *)
(***************************************************************************)
EXTENDS Json

CONSTANTS
  Shown(_),    \* the number that the text of a finite number reads as
  Infinite     \* the numbers whose texts are no numerals: inf, -inf, nan

ASSUME NumbersAssumption == Infinite \subseteq Int

-----------------------------------------------------------------------------
(* encode *)

IsEncodable(o) == Type(o) \in {"string", "boolean", "number", "nil", "table"} \/ o = null

IndexKey(k) == Type(k) = "number" /\ k[2] >= 1

\* table.getn: any border.
Lengths(f) ==
  {n \in 0..Cardinality(DOMAIN f) + 2 :
     (n = 0 \/ Number(n) \in DOMAIN f) /\ Number(n + 1) \notin DOMAIN f}

LengthKey == String(<<Token("n")>>)

\* isArray, n being what getn returns.
IsArray(f, n) ==
  \A k \in DOMAIN f :
    IF IndexKey(k) THEN IsEncodable(f[k])
    ELSE IF k = LengthKey THEN f[k] = Number(n) ELSE ~IsEncodable(f[k])

\* The loop over the items of an array ends.
Bounded(f) == \A k \in DOMAIN f : IndexKey(k) => k[2] \notin Infinite
MaxIndex(f) == Max({0} \cup {k[2] : k \in {k \in DOMAIN f : IndexKey(k)}})

\* encodeString, and the quotes around it
Gsub(chars, c, by) ==
  FlattenSeq([i \in 1..Len(chars) |-> IF chars[i] = c THEN by ELSE <<chars[i]>>])
Escape(chars, c) == Gsub(chars, c, <<Backslash, c>>)
EscapeQuotes(chars) == Escape(Escape(chars, Token("\"")), Token("'"))
EscapeControls(chars) ==
  Gsub(Gsub(chars, NewLine, <<Backslash, Token("n")>>), Tab, <<Backslash, Token("t")>>)
BackslashLast(chars) ==        \* mutant: the order of the gsubs
  Escape(EscapeControls(EscapeQuotes(chars)), Backslash)
EncodeString(chars) == EscapeControls(EscapeQuotes(Escape(chars, Backslash)))
Quoted(chars) == <<Token("\"")>> \o EncodeString(chars) \o <<Token("\"")>>

\* tostring of a number: a numeral, or a word that decode does not know.
Infinity == Token("inf")
Numeral(n) == IF n \in Infinite THEN Infinity ELSE Number(Shown(n))

\* gsub takes a number for its text and refuses other types.
Key(k) ==
  CASE Type(k) = "string" -> Quoted(k[2])
    [] Type(k) = "number" -> Quoted(<<Numeral(k[2])>>)
    [] OTHER -> <<Raised>>

Pair(k, text) == Key(k) \o <<Colon>> \o text

\* table.concat( rval, ',' )
Concat(texts) ==
  FlattenSeq([i \in 1..Len(texts) |-> (IF i = 1 THEN <<>> ELSE <<Comma>>) \o texts[i]])

\* The texts that encode may return: pairs visits a table in any order.
RECURSIVE Encodings(_)
Encodings(v) ==
  LET f == v[2]
      item(i) == IF Number(i) \in DOMAIN f THEN f[Number(i)] ELSE Nil
      \* every choice of a text for each value of a sequence
      TextsOf(values) ==
        {t \in [1..Len(values) -> UNION {Encodings(values[i]) : i \in 1..Len(values)}] :
           \A i \in 1..Len(values) : t[i] \in Encodings(values[i])}
      Arrays == IF ~Bounded(f) THEN {}
                ELSE {<<Token("[")>> \o Concat(t) \o <<Token("]")>> :
                        t \in TextsOf([i \in 1..MaxIndex(f) |-> item(i)])}
      keys == {k \in DOMAIN f : IsEncodable(k) /\ IsEncodable(f[k])}
      Objects ==
        UNION {{<<Token("{")>> \o Concat([i \in 1..Len(o) |-> Pair(o[i], t[i])]) \o <<Token("}")>> :
                  t \in TextsOf([i \in 1..Len(o) |-> f[o[i]]])} : o \in SetToSeqs(keys)}
  IN
  CASE v = Nil \/ v = null -> {<<Token("null")>>}
    [] Type(v) = "string" -> {Quoted(v[2])}
    [] Type(v) = "number" -> {<<Numeral(v[2])>>}
    [] Type(v) = "boolean" -> {<<v>>}
    [] Type(v) = "table" ->
         UNION {IF IsArray(f, n) THEN Arrays ELSE Objects : n \in Lengths(f)}
    [] OTHER -> {<<Raised>>}

-----------------------------------------------------------------------------
(* Properties *)

\* decode reads every text that encode writes, even of tables with holes, json.null
\* and values that cannot be encoded, if no string has a carriage return and no value
\* is inf, -inf or nan, which are written as words (json.lua:63-145).
EncodedTextsDecode ==
  /\ given # None
  /\ \A i \in 1..Len(s) : /\ s[i] \notin {Raised, Return}
                          /\ s[i] = Infinity => UpTo[i - 1].quote # None
  => pc # "raised"

\* Plain data: strings, finite numbers, booleans, arrays without holes, and tables with
\* string keys only, n among them only if it does not look like a length.
RECURSIVE Plain(_)
Plain(v) ==
  \/ Type(v) \in {"string", "boolean"}
  \/ Type(v) = "number" /\ v[2] \notin Infinite
  \/ /\ Type(v) = "table"
     /\ \A k \in DOMAIN v[2] : Plain(v[2][k])
     /\ \/ \A k \in DOMAIN v[2] : Type(k) = "string" /\ (k = LengthKey => v[2][k] # Number(0))
        \/ DOMAIN v[2] = {Number(i) : i \in 1..Cardinality(DOMAIN v[2])}

\* The value with what 14 digits keep of each number.
RECURSIVE Rounded(_)
Rounded(v) ==
  CASE Type(v) = "number" -> Number(Shown(v[2]))
    [] Type(v) = "table" -> Table([k \in DOMAIN v[2] |-> Rounded(v[2][k])])
    [] OTHER -> v

\* decode( encode( v ) ) is v, for plain data, but for the digits that tostring drops
\* of its numbers (json.lua:63-145).
RoundTrip == pc = "done" /\ given # None /\ Plain(given) => ret = Rounded(given)

=============================================================================
