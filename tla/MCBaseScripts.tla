--------------------------- MODULE MCBaseScripts ---------------------------
(* An instance of BaseScripts for TLC: graphs of two tables with up to two fields *)
(* each, of which a key may be a table or a number that its text does not give,   *)
(* and of three with one field each.                                              *)
EXTENDS BaseScripts, TLC

Tables(n) == {Table(a) : a \in 1..n}
Scalar == <<"number", 7>>
Userdata == <<"userdata", 0>>
Name == <<"string", "a">>
One == <<"number", 1>>
Two == <<"number", 2>>

\* More digits than its text has, an infinite number, and a negative one.
Long == <<"number", 13>>
Rounded == <<"number", 10>>
Infinite == <<"number", 99>>
MinusInfinite == <<"number", -99>>
MCReads(n) == CASE n = Long[2] -> Rounded [] n = Infinite[2] -> Nil
                [] n = MinusInfinite[2] -> None [] OTHER -> <<"number", n>>

\* The metatable of a metatable is a level too many for the parser.
MCCompiles(text1, out1) == <<0, 0>> \notin DOMAIN text1

\* The tables of up to two fields that a graph of n tables may have.
TablesOf(n, keys, values) ==
  {[fields |-> f, meta |-> m] :
     f \in {<<>>} \cup UNION {{(j :> v) @@ (k :> w) : j, k \in keys, v, w \in values}},
     m \in {Nil} \cup Tables(n)}
OneField(n, keys, values) ==
  {[fields |-> f, meta |-> m] :
     f \in {<<>>} \cup {k :> v : k \in keys, v \in values}, m \in {Nil} \cup Tables(n)}

\* The second table may be a value, a key or the metatable of the first, and so may the first.
MCGraphs ==
  {<<t, u>> : t, u \in TablesOf(2, {One, Two, Name}, {Scalar} \cup Tables(2))}
  \cup {<<t, u>> : t, u \in OneField(2, {One, Two, Name, Userdata} \cup Tables(2),
                                     {Scalar, Userdata} \cup Tables(2))}
  \cup {<<t, u>> : t \in TablesOf(2, {Name, Table(2)}, Tables(2)), u \in OneField(2, {One}, Tables(2))}
  \cup {<<t, u, v>> : t, u, v \in OneField(3, {Name}, Tables(3))}
  \cup {<<t, u>> : t \in TablesOf(2, {One, Long, Rounded, Infinite},
                                   {Long, Infinite, MinusInfinite, Table(2)}),
                   u \in OneField(2, {Name, Long, MinusInfinite}, {Long, Table(1)})}

=============================================================================
