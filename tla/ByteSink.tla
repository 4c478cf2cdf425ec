------------------------------ MODULE ByteSink ------------------------------
(***************************************************************************)
(* What a file that is written promises as long as nothing fails: every    *)
(* string of a call is in the file, at the position, once it is written,   *)
(* and stays there when the file is closed or given up.                    *)
(***************************************************************************)
EXTENDS Integers, Sequences

CONSTANTS Bytes, NUL

VARIABLES
  append,    \* the file was opened to append: each string goes to its end
  content,   \* the bytes of the file, as the program that writes it takes them to be
  pos,
  todo,      \* the strings of the call that are still to be written
  failed,    \* the device has failed
  given_up   \* no more calls are possible

vars == <<append, content, pos, todo, failed, given_up>>

\* s with d written over it at position p; a gap behind the end is filled.
Overlay(s, p, d) ==
  IF d = <<>> THEN s
  ELSE [i \in 1..(IF Len(s) < p + Len(d) THEN p + Len(d) ELSE Len(s)) |->
          IF i \in p + 1..p + Len(d) THEN d[i - p]
          ELSE IF i \in 1..Len(s) THEN s[i] ELSE NUL]

-----------------------------------------------------------------------------

Call ==
  /\ ~given_up /\ todo = <<>>
  /\ todo' \in Seq(Seq(Bytes)) \ {<<>>}
  /\ UNCHANGED <<append, content, pos, failed, given_up>>

Write ==
  LET s == Head(todo)
      p == IF append /\ s # <<>> THEN Len(content) ELSE pos IN
  /\ todo # <<>> /\ todo' = Tail(todo)
  /\ content' = Overlay(content, p, s) /\ pos' = p + Len(s)
  /\ UNCHANGED <<append, failed, given_up>>

\* A value that is no string ends the call.
Raise == todo # <<>> /\ todo' = <<>> /\ UNCHANGED <<append, content, pos, failed, given_up>>

Seek == todo = <<>> /\ pos' \in Nat /\ UNCHANGED <<append, content, todo, failed, given_up>>

GiveUp == todo = <<>> /\ given_up' = TRUE /\ UNCHANGED <<append, content, pos, todo, failed>>

\* Nothing is promised of the content after that.
Fail ==
  /\ failed' = TRUE
  /\ todo' = todo \/ (todo # <<>> /\ todo' = Tail(todo))
  /\ UNCHANGED append

Next == Call \/ Write \/ Raise \/ Seek \/ GiveUp \/ Fail

Init ==
  /\ append \in BOOLEAN /\ content \in Seq(Bytes) /\ pos = 0 /\ todo = <<>>
  /\ failed = FALSE /\ given_up = FALSE

Spec == Init /\ [][Next]_vars
=============================================================================
