----------------------------- MODULE RCRegistry -----------------------------
(***************************************************************************)
(* rc.cpp: the RCOwner singleton that the threads of a program create on   *)
(* first use with a double-checked lock, and the pack list it keeps.       *)
(*                                                                         *)
(* RCOwner::instance is a plain pointer that is read without the lock.     *)
(* Nothing orders the constructor's stores before the pointer's, so both   *)
(* become visible in either order (Build), and the unlocked read of a      *)
(* thread that has not seen the pointer yet may still return NULL.         *)
(***************************************************************************)
EXTENDS Naturals, Sequences

CONSTANTS Threads, Roots, Paths, ShortPaths, Holds,
          NoRoot, Raised, NotYet, NoCall,
          NoThread,
          MaxCalls     \* bounds the calls of one thread

VARIABLES
  instance,   \* RCOwner::instance is not NULL
  built,      \* the RCOwner it points to has been constructed
  made,       \* how many RCOwners have been constructed
  killer,     \* m_Killer will delete the RCOwner at the exit
  mutex,      \* the thread that holds m_Mutex
  list,       \* m_Resources
  knows,      \* the threads that cannot read NULL from instance any more
  pc, call, answer, calls,
  pos         \* the index i of findNode's loop

owner == <<instance, built, made, killer>>
vars  == <<owner, mutex, list, knows, pc, call, answer, calls, pos>>

\* The calls, their answers and what is promised of them.
Registry == INSTANCE ResourceList

ASSUME RegistryAssumption ==
  /\ Holds \in [Roots -> SUBSET (Paths \ ShortPaths)]
  /\ {NoRoot, Raised, NotYet} \cap Roots = {}
  /\ NotYet # NoRoot /\ NotYet # Raised
  /\ NoCall \notin Registry!Calls
  /\ NoThread \notin Threads
  /\ MaxCalls \in Nat

TypeOK ==
  /\ instance \in BOOLEAN /\ built \in BOOLEAN /\ killer \in BOOLEAN
  /\ made \in {0, 1}
  /\ mutex \in Threads \cup {NoThread}
  /\ knows \subseteq Threads
  /\ pc \in [Threads -> {"idle", "read", "lock", "check", "build", "constructed",
                         "published", "ready", "unlock", "enter", "work",
                         "leave", "return"}]
  /\ Registry!TypeOK
  /\ calls \in [Threads -> 0..MaxCalls]
  /\ pos \in [Threads -> 1 .. Len(list) + 1]

GoTo(t, label) == pc' = [pc EXCEPT ![t] = label]

-----------------------------------------------------------------------------
(* RCOwner::GetInstance *)

Invoke(t, c) ==
  /\ pc[t] = "idle"
  /\ calls[t] < MaxCalls
  /\ calls' = [calls EXCEPT ![t] = @ + 1]
  /\ call' = [call EXCEPT ![t] = c]
  /\ answer' = [answer EXCEPT ![t] = NotYet]
  /\ pos' = [pos EXCEPT ![t] = 1]
  /\ GoTo(t, "read")
  /\ UNCHANGED <<owner, mutex, list, knows>>

\* if( !instance ), outside the lock
ReadInstance(t) ==
  /\ pc[t] = "read"
  /\ \/ instance /\ knows' = knows \cup {t} /\ GoTo(t, "enter")
     \/ (~instance \/ t \notin knows) /\ UNCHANGED knows /\ GoTo(t, "lock")
  /\ UNCHANGED <<owner, mutex, list, call, answer, calls, pos>>

Acquire(t) ==
  /\ mutex = NoThread
  /\ mutex' = t

LockInstance(t) ==
  /\ pc[t] = "lock"
  /\ Acquire(t)
  /\ GoTo(t, "check")
  /\ UNCHANGED <<owner, list, knows, call, answer, calls, pos>>

Release == mutex' = NoThread

\* if( !instance ), inside the lock
RecheckDropped(t) ==         \* mutant: the second test is missing
  /\ pc[t] = "check"
  /\ GoTo(t, "build")
  /\ UNCHANGED <<owner, mutex, list, knows, call, answer, calls, pos>>
Recheck(t) ==
  /\ pc[t] = "check"
  /\ GoTo(t, IF instance THEN "unlock" ELSE "build")
  /\ UNCHANGED <<owner, mutex, list, knows, call, answer, calls, pos>>

\* instance = new RCOwner: the constructor and the assignment, in either order
Construct(t) ==
  /\ pc[t] \in {"build", "published"}
  /\ GoTo(t, IF pc[t] = "build" THEN "constructed" ELSE "ready")
  /\ built' = TRUE
  /\ made' = made + 1
  /\ list' = <<>>
  /\ UNCHANGED <<instance, killer, mutex, knows, call, answer, calls, pos>>

Publish(t) ==
  /\ pc[t] \in {"build", "constructed"}
  /\ GoTo(t, IF pc[t] = "build" THEN "published" ELSE "ready")
  /\ instance' = TRUE
  /\ UNCHANGED <<built, made, killer, mutex, list, knows, call, answer, calls,
                 pos>>

\* m_Killer.setRCOwner( instance )
SetKiller(t) ==
  /\ pc[t] = "ready"
  /\ killer' = TRUE
  /\ GoTo(t, "unlock")
  /\ UNCHANGED <<instance, built, made, mutex, list, knows, call, answer,
                 calls, pos>>

UnlockInstance(t) ==
  /\ pc[t] = "unlock"
  /\ Release
  /\ knows' = knows \cup {t}
  /\ GoTo(t, "enter")
  /\ UNCHANGED <<owner, list, call, answer, calls, pos>>

-----------------------------------------------------------------------------
(* The calls on *instance *)

\* getFilePointer and getFileSize ask the node's own Root and take no lock.
Ask(t) ==
  /\ pc[t] = "enter" /\ call[t].op = "ask"
  /\ answer' = [answer EXCEPT ![t] = call[t].root]
  /\ GoTo(t, "return")
  /\ UNCHANGED <<owner, mutex, list, knows, call, calls, pos>>

\* addResource and findNode
EnterUnlocked(t) ==          \* mutant: scoped_lock is missing
  /\ pc[t] = "enter" /\ call[t].op # "ask"
  /\ GoTo(t, "work")
  /\ UNCHANGED <<owner, mutex, list, knows, call, answer, calls, pos>>
Enter(t) ==
  /\ pc[t] = "enter" /\ call[t].op # "ask"
  /\ Acquire(t)
  /\ GoTo(t, "work")
  /\ UNCHANGED <<owner, list, knows, call, answer, calls, pos>>

\* m_Resources.push_back( resource_pack )
ExtendedAtFront(r) == <<r>> \o list    \* mutant: insert at begin()
Extended(r) == Append(list, r)

PushBack(t) ==
  /\ pc[t] = "work" /\ call[t].op = "add"
  /\ list' = Extended(call[t].root)
  /\ answer' = [answer EXCEPT ![t] = call[t].root]
  /\ GoTo(t, "leave")
  /\ UNCHANGED <<owner, mutex, knows, call, calls, pos>>

\* ++i
NextPackStuck(i) == i        \* mutant: the increment is missing
NextPack(i) == i + 1

\* root->find( path ) of the next pack; path.substr( 2 ) throws when there are
\* no two characters, and the lock is released on the way out.
TryPack(t) ==
  LET p == call[t].path
      found(a) == answer' = [answer EXCEPT ![t] = a] /\ GoTo(t, "leave")
                  /\ UNCHANGED pos IN
  /\ pc[t] = "work" /\ call[t].op = "find"
  /\ \/ /\ pos[t] > Len(list)
        /\ found(NoRoot)
     \/ /\ pos[t] <= Len(list) /\ p \in ShortPaths
        /\ found(Raised)
     \/ /\ pos[t] <= Len(list) /\ p \notin ShortPaths
        /\ p \in Holds[list[pos[t]]]
        /\ found(list[pos[t]])
     \/ /\ pos[t] <= Len(list) /\ p \notin ShortPaths
        /\ p \notin Holds[list[pos[t]]]
        /\ pos' = [pos EXCEPT ![t] = NextPack(@)]
        /\ UNCHANGED <<answer, pc>>
  /\ UNCHANGED <<owner, mutex, list, knows, call, calls>>

Leave(t) ==
  /\ pc[t] = "leave"
  /\ Release
  /\ GoTo(t, "return")
  /\ UNCHANGED <<owner, list, knows, call, answer, calls, pos>>

Return(t) ==
  /\ pc[t] = "return"
  /\ call' = [call EXCEPT ![t] = NoCall]
  /\ GoTo(t, "idle")
  /\ UNCHANGED <<owner, mutex, list, knows, answer, calls, pos>>

\* Every thread has made its calls.
Finished ==
  /\ \A t \in Threads : pc[t] = "idle" /\ calls[t] = MaxCalls
  /\ UNCHANGED vars

-----------------------------------------------------------------------------

Init ==
  /\ instance = FALSE /\ built = FALSE /\ made = 0 /\ killer = FALSE
  /\ mutex = NoThread
  /\ knows = {}
  /\ pc = [t \in Threads |-> "idle"]
  /\ Registry!Init
  /\ calls = [t \in Threads |-> 0]
  /\ pos = [t \in Threads |-> 1]

Step(t) ==
  \/ ReadInstance(t) \/ LockInstance(t) \/ Recheck(t)
  \/ Construct(t) \/ Publish(t) \/ SetKiller(t) \/ UnlockInstance(t)
  \/ Ask(t) \/ Enter(t) \/ PushBack(t) \/ TryPack(t) \/ Leave(t) \/ Return(t)

Next ==
  \/ \E t \in Threads : Step(t) \/ \E c \in Registry!Calls : Invoke(t, c)
  \/ Finished

Spec == Init /\ [][Next]_vars

\* A thread that can run runs. boost::mutex promises no order among waiting
\* threads, and none is assumed.
FairSpec == Spec /\ \A t \in Threads : WF_vars(Step(t))

-----------------------------------------------------------------------------
(* Properties *)

\* Only one RCOwner is ever constructed, so no pack is added to one that is
\* thrown away, and when nobody is inside the lock the killer knows it
\* (rc.cpp:25-39).
OneOwner ==
  /\ made <= 1
  /\ mutex = NoThread => (instance <=> killer) /\ (instance <=> built)

\* Although instance may be seen before the constructor has run, m_Resources is
\* only touched by the holder of m_Mutex and after the construction
\* (rc.cpp:43, 49).
UsedWhenBuilt ==
  \A t \in Threads : pc[t] \in {"work", "leave"} => built /\ mutex = t

\* add_resource and find_node are atomic, and the list only grows at its end: no pack
\* is lost or reordered (rc.h:10-12).
RegistrySpec == Registry!Spec

\* No call waits for ever, whatever order the mutex is given in.
EveryCallReturns ==
  \A t \in Threads : pc[t] # "idle" ~> pc[t] = "idle"

=============================================================================
