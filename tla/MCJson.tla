------------------------------- MODULE MCJson -------------------------------
(* An instance for TLC: tables of up to two keys, three levels deep,  *)
(* strings of up to three letters, and every text of up to four tokens. Of    *)
(* the number -3, 14 digits keep what they keep of -2; 99 and -99 are inf and *)
(* -inf.                                                                      *)
EXTENDS JsonEncode, TLC

Str(c) == String(<<Token(c)>>)
Scalars == {Number(0), <<"boolean", TRUE>>, null, <<"function", "other">>}
Keys == {Number(0), Number(1), Number(2), Str("a"), LengthKey, <<"boolean", TRUE>>}

\* The tables of at most two keys whose values are of A, but for one of B.
Tables(A, B) ==
  {Table(EmptyTable)}
  \cup {Table(k :> a) : k \in Keys, a \in A \cup B}
  \cup {Table((k :> a) @@ (j :> b)) : k \in Keys, j \in Keys, a \in A, b \in B}

Flat == Tables(Scalars, Scalars)
MCShown(n) == IF n = -3 THEN -2 ELSE n
MCInfinite == {99, -99}
Numbers == {Number(-3), Number(99), Number(-99)}
Longs == {Table(k :> a) : k \in Keys \cup Numbers, a \in Numbers}
         \cup {Table((k :> a) @@ (j :> Number(1))) :
                 k \in Numbers, j \in Keys, a \in {Number(1), Number(-3)}}

Letters == {Token("n"), Backslash, NewLine, Return, Token("]")} \cup Quotes
Strings == {String(c) : c \in UNION {[1..n -> Letters] : n \in 0..3}}
MCValues == {Nil} \cup Scalars \cup Flat \cup Tables({Number(1)}, Flat)
            \cup {Table(Number(1) :> Table(Str("a") :> Table(k :> Number(1)))) : k \in Keys}
            \cup Numbers \cup Longs \cup Tables({Number(1)}, Longs)
            \cup Strings \cup {Table(c :> c) : c \in Strings}

MCTokens == {Token(c) : c \in {"[", "]", "{", "}", ",", ":", "null", " ", "\""}}
            \cup {Comment, Backslash, Number(1), NoValue, Malformed}
\* Two numerals that touch would be one.
Numerals == {Number(1), NoValue, Malformed}
MCTexts ==
  {t \in UNION {[1..n -> MCTokens] : n \in 0..4} :
     \A i \in 1..Len(t) - 1 : ~({t[i], t[i + 1]} \subseteq Numerals)}

=============================================================================
