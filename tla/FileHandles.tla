---------------------------- MODULE FileHandles ----------------------------
(***************************************************************************)
(* What core's io library promises about the files a script opens, without *)
(* adapters, registry, iterators or collector: a file is opened once, is   *)
(* closed at most once, is closed under a script that can still reach it   *)
(* only by that script, and once out of reach it is never handed out again.*)
(***************************************************************************)
CONSTANT Files

VARIABLES
  state,   \* state[f]: "none", "open" or "closed"
  reach    \* the files a running script can still get at

TypeOK ==
  /\ state \in [Files -> {"none", "open", "closed"}]
  /\ reach \subseteq Files

Init ==
  /\ state = [f \in Files |-> "none"]
  /\ reach = {}

\* The new file may replace another one (io.input, io.output).
Open(f) ==
  /\ state[f] = "none"
  /\ state' = [state EXCEPT ![f] = "open"]
  /\ f \in reach'
  /\ reach' \subseteq reach \cup {f}

\* The script closes a file it can reach, or reads io.lines( name ) to its end.
Close(f) ==
  /\ f \in reach
  /\ state[f] = "open"
  /\ state' = [state EXCEPT ![f] = "closed"]
  /\ UNCHANGED reach

\* The script loses references, the last of all at lua_close.
Forget ==
  /\ reach' \subseteq reach
  /\ UNCHANGED state

\* The collector or lua_close closes a file that is out of reach.
Reclaim(f) ==
  /\ f \notin reach
  /\ state[f] = "open"
  /\ state' = [state EXCEPT ![f] = "closed"]
  /\ UNCHANGED reach

Next == Forget \/ \E f \in Files : Open(f) \/ Close(f) \/ Reclaim(f)

Spec == Init /\ [][Next]_<<state, reach>>

=============================================================================
