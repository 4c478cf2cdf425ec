----------------------------- MODULE ByteStream -----------------------------
(***************************************************************************)
(* What file:read( formats ) promises: it answers its formats one after    *)
(* the other, each at one instant, from the bytes behind the position,     *)
(* which it moves behind what it has answered with. It stops after the     *)
(* first format that fails. The test for the end (read( 0 )) takes the     *)
(* file to end where the answer before it has met its end. A device error  *)
(* makes the file seem to end, and is reported if no later format is tried.*)
(***************************************************************************)
EXTENDS Integers, Sequences

CONSTANTS Bytes, NL, Digits, Formats, Nil

VARIABLES
  data,      \* the file
  pos,
  ended,     \* the answer before has met the end of the file
  todo,      \* the formats of the call that are still to be answered
  results,
  errors,    \* how many errors the device has made
  broken,    \* the answer that ended a call has met one
  outcome

vars == <<data, pos, ended, todo, results, errors, broken, outcome>>

Rest == SubSeq(data, pos + 1, Len(data))

\* The prefix of s of the bytes before the first one that P does not hold of.
IsBefore(k, s, stop) == \A i \in 1..k : s[i] \notin stop
Until(s, stop) ==
  LET k == CHOOSE k \in 0..Len(s) :
             IsBefore(k, s, stop) /\ (k = Len(s) \/ s[k + 1] \in stop)
  IN  SubSeq(s, 1, k)

IsTest(format) == format.kind = "bytes" /\ format.n = 0

\* met: the answer has met the end.
Answer(value, length, ok, met) == [value |-> value, length |-> length, ok |-> ok, met |-> met]

\* The reference definition of each format, rest being what is behind the position.
AnswerTo(format, rest) ==
  LET line   == Until(rest, {NL})
      blanks == Until(rest, Bytes \ {NL})
      digits == Until(SubSeq(rest, Len(blanks) + 1, Len(rest)), Bytes \ Digits)
      n      == IF format.n < Len(rest) THEN format.n ELSE Len(rest)
  IN
  CASE format.kind = "bytes" /\ format.n > 0 ->
         Answer(SubSeq(rest, 1, n), n, n > 0, n < format.n)
    [] format.kind = "bytes" /\ format.n = 0 -> Answer(<<>>, 0, ~ended /\ rest # <<>>, FALSE)
    [] format.kind = "line"   -> Answer(line, IF line = rest THEN Len(line) ELSE Len(line) + 1,
                                        rest # <<>>, line = rest)
    [] format.kind = "all"    -> Answer(rest, Len(rest), TRUE, TRUE)
    [] format.kind = "number" -> Answer(digits, Len(blanks) + Len(digits), digits # <<>>,
                                        Len(blanks) + Len(digits) = Len(rest))

-----------------------------------------------------------------------------

\* Somebody writes at the end of the file.
Grow == \E b \in Bytes : data' = Append(data, b) 
          /\ UNCHANGED <<pos, ended, todo, results, errors, broken, outcome>>

Seek ==
  /\ outcome # "pending"
  /\ pos' \in Nat /\ ended' = FALSE
  /\ UNCHANGED <<data, todo, results, errors, broken, outcome>>

Call ==
  /\ outcome # "pending" /\ outcome' = "pending"
  /\ todo' \in Seq(Formats) \ {<<>>}
  /\ results' = <<>> /\ broken' = FALSE
  /\ UNCHANGED <<data, pos, ended, errors>>

\* A format that reads forgets what the one before it has met.
Look ==
  /\ outcome = "pending" /\ todo # <<>> /\ ~IsTest(Head(todo))
  /\ ended' = FALSE
  /\ UNCHANGED <<data, pos, todo, results, errors, broken, outcome>>

Put(value, ok) ==
  /\ results' = Append(results, IF ok THEN value ELSE Nil)
  /\ todo' = IF ok THEN Tail(todo) ELSE <<>>
  /\ UNCHANGED <<data, outcome>>

Serve ==
  /\ outcome = "pending" /\ todo # <<>> /\ Head(todo).kind # "bad"
  /\ LET a == AnswerTo(Head(todo), Rest) IN
       Put(a.value, a.ok) /\ pos' = pos + a.length /\ ended' = a.met
  /\ broken' = FALSE /\ UNCHANGED errors

\* A read error: the answer is to the bytes before it, which may have been read on.
ServeLess ==
  /\ outcome = "pending" /\ todo # <<>> /\ Head(todo).kind # "bad"
  /\ \E k \in 0..Len(Rest) : \E j \in 0..k :
       /\ LET a == AnswerTo(Head(todo), SubSeq(Rest, 1, j)) IN Put(a.value, a.ok)
       /\ pos' = pos + k
  /\ broken' = (todo' = <<>> /\ ~IsTest(Head(todo)))
  /\ ended' = FALSE /\ errors' = errors + 1

Raise ==
  /\ outcome = "pending" /\ todo # <<>> /\ Head(todo).kind = "bad"
  /\ outcome' = "raised"
  /\ UNCHANGED <<data, pos, ended, todo, results, errors, broken>>

Return ==
  /\ outcome = "pending" /\ todo = <<>>
  /\ outcome' = IF broken THEN "error" ELSE "values"
  /\ UNCHANGED <<data, pos, ended, todo, results, errors, broken>>

Next == Grow \/ Seek \/ Call \/ Look \/ Serve \/ ServeLess \/ Raise \/ Return

Init ==
  /\ data \in Seq(Bytes) /\ pos = 0 /\ ended = FALSE /\ todo = <<>> /\ results = <<>>
  /\ errors = 0 /\ broken = FALSE /\ outcome = "none"

Spec == Init /\ [][Next]_vars
=============================================================================
