---------------------------- MODULE ResourceList ----------------------------
(***************************************************************************)
(* What rc.h promises to the threads of a program: the resource packs form *)
(* one list that only grows, add_resource and find_node take effect at one *)
(* instant between their call and their return, and the first pack that    *)
(* has a path answers for it.                                              *)
(***************************************************************************)
EXTENDS Naturals, Sequences

CONSTANTS
  Threads, Roots, Paths,
  ShortPaths,      \* paths of less than two characters
  Holds,           \* Holds[r]: the paths that Root r finds
  NoRoot,          \* a null NodePtr
  Raised,          \* an exception instead of an answer
  NotYet, NoCall   \* a call without answer; no call

\* add_resource( root ), find_node( path ), and get_file_pointer( node ) or
\* get_file_size( node ) of a node that belongs to root or is null.
Calls == [op : {"add"}, root : Roots] \cup [op : {"find"}, path : Paths]
           \cup [op : {"ask"}, root : Roots \cup {NoRoot}]

\* The first pack of s that has path p. A path without ":/" raises as soon as
\* there is a pack to ask.
Answers(s, p) == {i \in 1..Len(s) : p \in Holds[s[i]]}
Lookup(s, p) ==
  IF p \in ShortPaths /\ s # <<>> THEN Raised
  ELSE IF Answers(s, p) = {} THEN NoRoot
  ELSE s[CHOOSE i \in Answers(s, p) : \A j \in Answers(s, p) : i <= j]

VARIABLES list, call, answer

TypeOK ==
  /\ list \in Seq(Roots)
  /\ call \in [Threads -> Calls \cup {NoCall}]
  /\ answer \in [Threads -> Roots \cup {NoRoot, Raised, NotYet}]

Init ==
  /\ list = <<>>
  /\ call = [t \in Threads |-> NoCall]
  /\ answer = [t \in Threads |-> NotYet]

Invoke(t, c) ==
  /\ call[t] = NoCall
  /\ call' = [call EXCEPT ![t] = c]
  /\ answer' = [answer EXCEPT ![t] = NotYet]
  /\ UNCHANGED list

Pending(t, op) == call[t] # NoCall /\ call[t].op = op /\ answer[t] = NotYet

Add(t) ==
  /\ Pending(t, "add")
  /\ list' = Append(list, call[t].root)
  /\ answer' = [answer EXCEPT ![t] = call[t].root]
  /\ UNCHANGED call

Find(t) ==
  /\ Pending(t, "find")
  /\ answer' = [answer EXCEPT ![t] = Lookup(list, call[t].path)]
  /\ UNCHANGED <<list, call>>

Ask(t) ==
  /\ Pending(t, "ask")
  /\ answer' = [answer EXCEPT ![t] = call[t].root]
  /\ UNCHANGED <<list, call>>

Return(t) ==
  /\ answer[t] # NotYet
  /\ call' = [call EXCEPT ![t] = NoCall]
  /\ UNCHANGED <<list, answer>>

Next == \E t \in Threads :
  (\E c \in Calls : Invoke(t, c)) \/ Add(t) \/ Find(t) \/ Ask(t) \/ Return(t)

Spec == Init /\ [][Next]_<<list, call, answer>>

=============================================================================
