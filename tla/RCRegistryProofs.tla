-------------------------- MODULE RCRegistryProofs --------------------------
(***************************************************************************)
(* For any number of threads, packs and calls: the unlocked test of        *)
(* instance is harmless, because everything a thread does with the object  *)
(* it finds there happens under the mutex that also covers its             *)
(* construction; and the registry is linearizable.                         *)
(***************************************************************************)
EXTENDS RCRegistry, SequenceTheorems, TLAPS

Building == {"build", "constructed", "published", "ready"}
InLock   == Building \cup {"check", "unlock", "work", "leave"}
Unanswered == Building \cup {"read", "lock", "check", "unlock", "enter", "work"}

\* The mutex is held exactly between its acquisition and its release.
MutexInv == \A t \in Threads : pc[t] \in InLock <=> mutex = t

\* How far the construction of the RCOwner has come.
OwnerState(i, b, k) ==
  /\ instance = i /\ built = b /\ killer = k
  /\ made = IF b THEN 1 ELSE 0
OwnerInv ==
  /\ \A t \in Threads :
       /\ pc[t] = "build" => OwnerState(FALSE, FALSE, FALSE)
       /\ pc[t] = "constructed" => OwnerState(FALSE, TRUE, FALSE)
       /\ pc[t] = "published" => OwnerState(TRUE, FALSE, FALSE)
       /\ pc[t] = "ready" => OwnerState(TRUE, TRUE, FALSE)
       /\ pc[t] \in {"unlock", "enter", "work", "leave"} => instance
  /\ (\A t \in Threads : pc[t] \notin Building) =>
       OwnerState(FALSE, FALSE, FALSE) \/ OwnerState(TRUE, TRUE, TRUE)
  /\ ~built => list = <<>>

\* Where a thread is in its call.
CallInv(t) ==
  /\ pc[t] = "idle" <=> call[t] = NoCall
  /\ pc[t] \in Unanswered => answer[t] = NotYet
  /\ pc[t] \in {"leave", "return"} => answer[t] # NotYet
  /\ pc[t] = "work" => call[t].op # "ask"
  /\ pc[t] \in Unanswered \ {"work"} => pos[t] = 1

\* findNode has asked the packs before pos in vain.
LoopInv(t) ==
  pc[t] = "work" /\ call[t].op = "find" =>
    /\ \A i \in 1 .. pos[t] - 1 : call[t].path \notin Holds[list[i]]
    /\ pos[t] > 1 => call[t].path \notin ShortPaths

IInv ==
  /\ TypeOK
  /\ MutexInv
  /\ OwnerInv
  /\ \A t \in Threads : CallInv(t) /\ LoopInv(t)

-----------------------------------------------------------------------------
(* IInv is inductive. *)

\* What a running call is.
LEMMA CallTypes ==
  ASSUME IInv, NEW t \in Threads, pc[t] # "idle"
  PROVE  /\ call[t] # NoCall
         /\ call[t].op \in {"add", "find", "ask"}
         /\ call[t].op = "add" => call[t].root \in Roots
         /\ call[t].op = "ask" => call[t].root \in Roots \cup {NoRoot}
         /\ call[t].op = "find" => call[t].path \in Paths
<1>1. call[t] \in Registry!Calls /\ call[t] # NoCall
  BY DEF IInv, TypeOK, Registry!TypeOK, CallInv
<1>2. QED BY <1>1 DEF Registry!Calls

\* Nothing exists yet.
LEMMA InitEstablishesIInv == Init => IInv
<1> SUFFICES ASSUME Init PROVE IInv
  OBVIOUS
<1> USE RegistryAssumption DEF Init, Registry!Init
<1>1. TypeOK
  <2>1. list \in Seq(Roots) /\ Len(list) = 0
    OBVIOUS
  <2>2. Registry!TypeOK
    BY <2>1 DEF Registry!TypeOK
  <2>3. pos \in [Threads -> 1 .. Len(list) + 1]
    BY <2>1
  <2>4. calls \in [Threads -> 0 .. MaxCalls]
    OBVIOUS
  <2>5. QED BY <2>2, <2>3, <2>4 DEF TypeOK
<1>2. MutexInv /\ OwnerInv
  BY DEF MutexInv, InLock, Building, OwnerInv, OwnerState
<1>3. \A t \in Threads : CallInv(t) /\ LoopInv(t)
  BY DEF CallInv, Unanswered, Building, LoopInv
<1>4. QED BY <1>1, <1>2, <1>3 DEF IInv

\* Every step keeps the types.
LEMMA TypeStep ==
  ASSUME IInv, [Next]_vars
  PROVE  TypeOK'
<1> USE RegistryAssumption DEF IInv, TypeOK, Registry!TypeOK, GoTo, owner, OwnerInv, CallInv
<1>1. ASSUME NEW t \in Threads, NEW c \in Registry!Calls, Invoke(t, c) PROVE TypeOK'
  BY <1>1 DEF Invoke
<1>2. ASSUME NEW t \in Threads, ReadInstance(t) PROVE TypeOK'
  BY <1>2 DEF ReadInstance
<1>3. ASSUME NEW t \in Threads, LockInstance(t) PROVE TypeOK'
  BY <1>3 DEF LockInstance, Acquire
<1>4. ASSUME NEW t \in Threads, Recheck(t) PROVE TypeOK'
  BY <1>4 DEF Recheck
<1>5. ASSUME NEW t \in Threads, Construct(t) PROVE TypeOK'
  <2>1. ~built /\ made = 0
    BY <1>5 DEF Construct, OwnerState
  <2>2. list' = list
    BY <1>5, <2>1 DEF Construct
  <2>3. QED BY <1>5, <2>1, <2>2 DEF Construct
<1>6. ASSUME NEW t \in Threads, Publish(t) PROVE TypeOK'
  BY <1>6 DEF Publish
<1>7. ASSUME NEW t \in Threads, SetKiller(t) PROVE TypeOK'
  BY <1>7 DEF SetKiller
<1>8. ASSUME NEW t \in Threads, UnlockInstance(t) PROVE TypeOK'
  BY <1>8 DEF UnlockInstance, Release
<1>9. ASSUME NEW t \in Threads, Ask(t) PROVE TypeOK'
  <2>1. call[t].root \in Roots \cup {NoRoot}
    BY <1>9, CallTypes DEF Ask
  <2>2. QED BY <1>9, <2>1 DEF Ask
<1>10. ASSUME NEW t \in Threads, Enter(t) PROVE TypeOK'
  BY <1>10 DEF Enter, Acquire
<1>11. ASSUME NEW t \in Threads, PushBack(t) PROVE TypeOK'
  <2>1. call[t].root \in Roots
    BY <1>11, CallTypes DEF PushBack
  <2>2. list' \in Seq(Roots) /\ Len(list') = Len(list) + 1
    BY <1>11, <2>1 DEF PushBack, Extended
  <2>3. QED BY <1>11, <2>1, <2>2 DEF PushBack
<1>12. ASSUME NEW t \in Threads, TryPack(t) PROVE TypeOK'
  <2>1. Len(list) \in Nat /\ pos[t] \in 1 .. Len(list) + 1
    OBVIOUS
  <2>2. CASE pos' = pos
    <3>0. \E a \in Roots \cup {NoRoot, Raised} : answer' = [answer EXCEPT ![t] = a]
      <4>1. pos[t] <= Len(list) => list[pos[t]] \in Roots
        BY <2>1
      <4>2. pos[t] <= Len(list) => NextPack(pos[t]) # pos[t]
        BY <2>1 DEF NextPack
      <4>3. pos' # [pos EXCEPT ![t] = NextPack(@)] \/ pos[t] > Len(list)
        BY <2>1, <2>2, <4>2
      <4>4. QED BY <1>12, <4>1, <4>3 DEF TryPack
    <3>1. answer' \in [Threads -> Roots \cup {NoRoot, Raised, NotYet}]
      BY <3>0
    <3>2. QED BY <1>12, <2>2, <3>1 DEF TryPack
  <2>3. CASE pos' # pos
    <3>1. pos[t] + 1 \in 1 .. Len(list) + 1
      BY <1>12, <2>1, <2>3 DEF TryPack
    <3>2. pos' = [pos EXCEPT ![t] = pos[t] + 1]
      BY <1>12, <2>3 DEF TryPack, NextPack
    <3>3. QED BY <1>12, <2>3, <3>1, <3>2 DEF TryPack
  <2>4. QED BY <2>2, <2>3
<1>13. ASSUME NEW t \in Threads, Leave(t) PROVE TypeOK'
  BY <1>13 DEF Leave, Release
<1>14. ASSUME NEW t \in Threads, Return(t) PROVE TypeOK'
  BY <1>14 DEF Return
<1>15. CASE UNCHANGED vars
  BY <1>15 DEF vars
<1>16. QED
  BY <1>1, <1>2, <1>3, <1>4, <1>5, <1>6, <1>7, <1>8, <1>9, <1>10, <1>11, <1>12, <1>13, <1>14, <1>15
  DEF Next, Step, Finished

\* Every step keeps the mutex with the thread inside the lock.
LEMMA MutexStep ==
  ASSUME IInv, [Next]_vars
  PROVE  MutexInv'
<1> USE RegistryAssumption DEF IInv, TypeOK, MutexInv, InLock, Building, GoTo, owner
<1>1. ASSUME NEW t \in Threads, NEW c \in Registry!Calls, Invoke(t, c) PROVE MutexInv'
  BY <1>1 DEF Invoke
<1>2. ASSUME NEW t \in Threads, ReadInstance(t) PROVE MutexInv'
  BY <1>2 DEF ReadInstance
<1>3. ASSUME NEW t \in Threads, LockInstance(t) PROVE MutexInv'
  BY <1>3 DEF LockInstance, Acquire
<1>4. ASSUME NEW t \in Threads, Recheck(t) PROVE MutexInv'
  BY <1>4 DEF Recheck
<1>5. ASSUME NEW t \in Threads, Construct(t) PROVE MutexInv'
  BY <1>5 DEF Construct
<1>6. ASSUME NEW t \in Threads, Publish(t) PROVE MutexInv'
  BY <1>6 DEF Publish
<1>7. ASSUME NEW t \in Threads, SetKiller(t) PROVE MutexInv'
  BY <1>7 DEF SetKiller
<1>8. ASSUME NEW t \in Threads, UnlockInstance(t) PROVE MutexInv'
  BY <1>8 DEF UnlockInstance, Release
<1>9. ASSUME NEW t \in Threads, Ask(t) PROVE MutexInv'
  BY <1>9 DEF Ask
<1>10. ASSUME NEW t \in Threads, Enter(t) PROVE MutexInv'
  BY <1>10 DEF Enter, Acquire
<1>11. ASSUME NEW t \in Threads, PushBack(t) PROVE MutexInv'
  BY <1>11 DEF PushBack, Extended
<1>12. ASSUME NEW t \in Threads, TryPack(t) PROVE MutexInv'
  BY <1>12 DEF TryPack, NextPack
<1>13. ASSUME NEW t \in Threads, Leave(t) PROVE MutexInv'
  BY <1>13 DEF Leave, Release
<1>14. ASSUME NEW t \in Threads, Return(t) PROVE MutexInv'
  BY <1>14 DEF Return
<1>15. CASE UNCHANGED vars
  BY <1>15 DEF vars
<1>16. QED
  BY <1>1, <1>2, <1>3, <1>4, <1>5, <1>6, <1>7, <1>8, <1>9, <1>10, <1>11, <1>12, <1>13, <1>14, <1>15
  DEF Next, Step, Finished

\* Every step keeps the construction of the RCOwner in order.
LEMMA OwnerStep ==
  ASSUME IInv, [Next]_vars
  PROVE  OwnerInv'
<1> USE RegistryAssumption DEF IInv, TypeOK, MutexInv, InLock, Building, OwnerInv, OwnerState, GoTo, owner
<1>1. ASSUME NEW t \in Threads, NEW c \in Registry!Calls, Invoke(t, c) PROVE OwnerInv'
  BY <1>1 DEF Invoke
<1>2. ASSUME NEW t \in Threads, ReadInstance(t) PROVE OwnerInv'
  BY <1>2 DEF ReadInstance
<1>3. ASSUME NEW t \in Threads, LockInstance(t) PROVE OwnerInv'
  BY <1>3 DEF LockInstance, Acquire
<1>4. ASSUME NEW t \in Threads, Recheck(t) PROVE OwnerInv'
  BY <1>4 DEF Recheck
<1>5. ASSUME NEW t \in Threads, Construct(t) PROVE OwnerInv'
  BY <1>5 DEF Construct
<1>6. ASSUME NEW t \in Threads, Publish(t) PROVE OwnerInv'
  BY <1>6 DEF Publish
<1>7. ASSUME NEW t \in Threads, SetKiller(t) PROVE OwnerInv'
  BY <1>7 DEF SetKiller
<1>8. ASSUME NEW t \in Threads, UnlockInstance(t) PROVE OwnerInv'
  BY <1>8 DEF UnlockInstance, Release
<1>9. ASSUME NEW t \in Threads, Ask(t) PROVE OwnerInv'
  BY <1>9 DEF Ask
<1>10. ASSUME NEW t \in Threads, Enter(t) PROVE OwnerInv'
  BY <1>10 DEF Enter, Acquire
<1>11. ASSUME NEW t \in Threads, PushBack(t) PROVE OwnerInv'
  BY <1>11 DEF PushBack, Extended
<1>12. ASSUME NEW t \in Threads, TryPack(t) PROVE OwnerInv'
  BY <1>12 DEF TryPack, NextPack
<1>13. ASSUME NEW t \in Threads, Leave(t) PROVE OwnerInv'
  BY <1>13 DEF Leave, Release
<1>14. ASSUME NEW t \in Threads, Return(t) PROVE OwnerInv'
  BY <1>14 DEF Return
<1>15. CASE UNCHANGED vars
  BY <1>15 DEF vars
<1>16. QED
  BY <1>1, <1>2, <1>3, <1>4, <1>5, <1>6, <1>7, <1>8, <1>9, <1>10, <1>11, <1>12, <1>13, <1>14, <1>15
  DEF Next, Step, Finished

\* Every step keeps each call's answer with its place.
LEMMA CallStep ==
  ASSUME IInv, [Next]_vars
  PROVE  (\A u \in Threads : CallInv(u))'
<1> USE RegistryAssumption DEF IInv, TypeOK, Registry!TypeOK, CallInv, Unanswered, Building, GoTo, owner
<1>1. ASSUME NEW t \in Threads, NEW c \in Registry!Calls, Invoke(t, c) PROVE (\A u \in Threads : CallInv(u))'
  BY <1>1 DEF Invoke
<1>2. ASSUME NEW t \in Threads, ReadInstance(t) PROVE (\A u \in Threads : CallInv(u))'
  BY <1>2 DEF ReadInstance
<1>3. ASSUME NEW t \in Threads, LockInstance(t) PROVE (\A u \in Threads : CallInv(u))'
  BY <1>3 DEF LockInstance, Acquire
<1>4. ASSUME NEW t \in Threads, Recheck(t) PROVE (\A u \in Threads : CallInv(u))'
  BY <1>4 DEF Recheck
<1>5. ASSUME NEW t \in Threads, Construct(t) PROVE (\A u \in Threads : CallInv(u))'
  BY <1>5 DEF Construct
<1>6. ASSUME NEW t \in Threads, Publish(t) PROVE (\A u \in Threads : CallInv(u))'
  BY <1>6 DEF Publish
<1>7. ASSUME NEW t \in Threads, SetKiller(t) PROVE (\A u \in Threads : CallInv(u))'
  BY <1>7 DEF SetKiller
<1>8. ASSUME NEW t \in Threads, UnlockInstance(t) PROVE (\A u \in Threads : CallInv(u))'
  BY <1>8 DEF UnlockInstance, Release
<1>9. ASSUME NEW t \in Threads, Ask(t) PROVE (\A u \in Threads : CallInv(u))'
  <2>1. call[t].root # NotYet
    BY <1>9, CallTypes DEF Ask
  <2>2. QED BY <1>9, <2>1 DEF Ask
<1>10. ASSUME NEW t \in Threads, Enter(t) PROVE (\A u \in Threads : CallInv(u))'
  BY <1>10 DEF Enter, Acquire
<1>11. ASSUME NEW t \in Threads, PushBack(t) PROVE (\A u \in Threads : CallInv(u))'
  <2>1. call[t].root # NotYet
    BY <1>11, CallTypes DEF PushBack
  <2>2. QED BY <1>11, <2>1 DEF PushBack
<1>12. ASSUME NEW t \in Threads, TryPack(t) PROVE (\A u \in Threads : CallInv(u))'
  BY <1>12 DEF TryPack, NextPack
<1>13. ASSUME NEW t \in Threads, Leave(t) PROVE (\A u \in Threads : CallInv(u))'
  BY <1>13 DEF Leave, Release
<1>14. ASSUME NEW t \in Threads, Return(t) PROVE (\A u \in Threads : CallInv(u))'
  BY <1>14 DEF Return
<1>15. CASE UNCHANGED vars
  BY <1>15 DEF vars
<1>16. QED
  BY <1>1, <1>2, <1>3, <1>4, <1>5, <1>6, <1>7, <1>8, <1>9, <1>10, <1>11, <1>12, <1>13, <1>14, <1>15
  DEF Next, Step, Finished

\* Every step keeps what findNode's loop has found out.
LEMMA LoopStep ==
  ASSUME IInv, [Next]_vars
  PROVE  (\A u \in Threads : LoopInv(u))'
<1> USE RegistryAssumption DEF IInv, TypeOK, Registry!TypeOK, MutexInv, InLock, CallInv, LoopInv, Unanswered, Building, GoTo, owner
<1>1. ASSUME NEW t \in Threads, NEW c \in Registry!Calls, Invoke(t, c) PROVE (\A u \in Threads : LoopInv(u))'
  BY <1>1 DEF Invoke
<1>2. ASSUME NEW t \in Threads, ReadInstance(t) PROVE (\A u \in Threads : LoopInv(u))'
  BY <1>2 DEF ReadInstance
<1>3. ASSUME NEW t \in Threads, LockInstance(t) PROVE (\A u \in Threads : LoopInv(u))'
  BY <1>3 DEF LockInstance, Acquire
<1>4. ASSUME NEW t \in Threads, Recheck(t) PROVE (\A u \in Threads : LoopInv(u))'
  BY <1>4 DEF Recheck
<1>5. ASSUME NEW t \in Threads, Construct(t) PROVE (\A u \in Threads : LoopInv(u))'
  BY <1>5 DEF Construct
<1>6. ASSUME NEW t \in Threads, Publish(t) PROVE (\A u \in Threads : LoopInv(u))'
  BY <1>6 DEF Publish
<1>7. ASSUME NEW t \in Threads, SetKiller(t) PROVE (\A u \in Threads : LoopInv(u))'
  BY <1>7 DEF SetKiller
<1>8. ASSUME NEW t \in Threads, UnlockInstance(t) PROVE (\A u \in Threads : LoopInv(u))'
  BY <1>8 DEF UnlockInstance, Release
<1>9. ASSUME NEW t \in Threads, Ask(t) PROVE (\A u \in Threads : LoopInv(u))'
  BY <1>9 DEF Ask
<1>10. ASSUME NEW t \in Threads, Enter(t) PROVE (\A u \in Threads : LoopInv(u))'
  BY <1>10 DEF Enter, Acquire
<1>11. ASSUME NEW t \in Threads, PushBack(t) PROVE (\A u \in Threads : LoopInv(u))'
  BY <1>11 DEF PushBack, Extended
<1>12. ASSUME NEW t \in Threads, TryPack(t) PROVE (\A u \in Threads : LoopInv(u))'
  BY <1>12 DEF TryPack, NextPack
<1>13. ASSUME NEW t \in Threads, Leave(t) PROVE (\A u \in Threads : LoopInv(u))'
  BY <1>13 DEF Leave, Release
<1>14. ASSUME NEW t \in Threads, Return(t) PROVE (\A u \in Threads : LoopInv(u))'
  BY <1>14 DEF Return
<1>15. CASE UNCHANGED vars
  BY <1>15 DEF vars
<1>16. QED
  BY <1>1, <1>2, <1>3, <1>4, <1>5, <1>6, <1>7, <1>8, <1>9, <1>10, <1>11, <1>12, <1>13, <1>14, <1>15
  DEF Next, Step, Finished

\* IInv holds in every state of every execution.
THEOREM Invariance == Spec => []IInv
<1>1. IInv /\ [Next]_vars => IInv'
  BY TypeStep, MutexStep, OwnerStep, CallStep, LoopStep DEF IInv
<1>2. QED BY InitEstablishesIInv, <1>1, PTL DEF Spec

-----------------------------------------------------------------------------
(* Consequences of IInv. *)

\* The variables keep their types.
THEOREM TypeCorrect == Spec => []TypeOK
<1>1. IInv => TypeOK
  BY DEF IInv
<1>2. QED BY <1>1, Invariance, PTL

\* At most one RCOwner is constructed, and outside the lock it is complete and
\* registered with the killer.
THEOREM OneOwnerOnly == Spec => []OneOwner
<1>1. IInv => OneOwner
  BY RegistryAssumption
  DEF IInv, TypeOK, MutexInv, InLock, Building, OwnerInv, OwnerState, OneOwner
<1>2. QED BY <1>1, Invariance, PTL

\* The double-checked lock is sound for this class: m_Resources is used by one
\* thread at a time and never before its constructor has run.
THEOREM NoUseBeforeConstruction == Spec => []UsedWhenBuilt
<1>1. IInv => UsedWhenBuilt
  <2> SUFFICES ASSUME IInv, NEW t \in Threads, pc[t] \in {"work", "leave"}
               PROVE  built /\ mutex = t
    BY DEF UsedWhenBuilt
  <2>1. mutex = t /\ instance
    BY DEF IInv, MutexInv, InLock, OwnerInv
  <2>2. \A u \in Threads : pc[u] \notin Building
    BY <2>1 DEF IInv, MutexInv, InLock, Building
  <2>3. QED BY <2>1, <2>2 DEF IInv, OwnerInv, OwnerState
<1>2. QED BY <1>1, Invariance, PTL

-----------------------------------------------------------------------------
(* The list. *)

\* A constructor finds the list as it was before: empty.
LEMMA ConstructKeepsList ==
  ASSUME IInv, NEW t \in Threads, Construct(t)
  PROVE  list' = list
  BY DEF IInv, OwnerInv, OwnerState, Construct

-----------------------------------------------------------------------------
(* The registry is linearizable. *)

\* When the packs before i do not have the path and pack i does, pack i answers.
LEMMA LookupHit ==
  ASSUME NEW s \in Seq(Roots), NEW p \in Paths \ ShortPaths,
         NEW i \in 1 .. Len(s), p \in Holds[s[i]],
         \A j \in 1 .. i - 1 : p \notin Holds[s[j]]
  PROVE  Registry!Lookup(s, p) = s[i]
<1> DEFINE First(k) == /\ k \in Registry!Answers(s, p)
                       /\ \A j \in Registry!Answers(s, p) : k <= j
<1>1. Len(s) \in Nat
  OBVIOUS
<1>2. First(i)
  BY <1>1 DEF Registry!Answers
<1>3. \A k : First(k) => k = i
  BY <1>1, <1>2 DEF Registry!Answers
<1>4. (CHOOSE k \in Registry!Answers(s, p) :
         \A j \in Registry!Answers(s, p) : k <= j) = i
  BY <1>2, <1>3
<1>5. QED BY <1>2, <1>4 DEF Registry!Lookup

\* When no pack has the path, nobody answers.
LEMMA LookupMiss ==
  ASSUME NEW s \in Seq(Roots), NEW p, p \notin ShortPaths \/ s = <<>>,
         \A j \in 1 .. Len(s) : p \notin Holds[s[j]]
  PROVE  Registry!Lookup(s, p) = NoRoot
  BY DEF Registry!Lookup, Registry!Answers

\* The step that ends findNode's loop is the atomic Find of the promise.
LEMMA LoopImplementsFind ==
  ASSUME IInv, NEW t \in Threads, TryPack(t)
  PROVE  [Registry!Next]_<<list, call, answer>>
<1> USE DEF TryPack
<1>1. CASE pos' # pos
  BY <1>1
<1>2. CASE pos' = pos
  <2> DEFINE p == call[t].path
             a == answer'[t]
  <2>1. /\ list \in Seq(Roots) /\ Len(list) \in Nat
        /\ pos[t] \in 1 .. Len(list) + 1
        /\ answer \in [Threads -> Roots \cup {NoRoot, Raised, NotYet}]
        /\ pos \in [Threads -> 1 .. Len(list) + 1]
    BY DEF IInv, TypeOK, Registry!TypeOK
  <2>2. p \in Paths /\ call[t] # NoCall /\ answer[t] = NotYet
    BY CallTypes DEF IInv, CallInv, Unanswered
  <2>3. /\ \A i \in 1 .. pos[t] - 1 : p \notin Holds[list[i]]
        /\ pos[t] > 1 => p \notin ShortPaths
    BY DEF IInv, LoopInv
  <2>4. CASE pos[t] > Len(list)
    <3>1. p \notin ShortPaths \/ list = <<>>
      BY <2>1, <2>3, <2>4, EmptySeq
    <3>2. Registry!Lookup(list, p) = NoRoot
      BY <2>1, <2>3, <2>4, <3>1, LookupMiss
    <3>3. answer' = [answer EXCEPT ![t] = NoRoot]
      BY <2>1, <2>4
    <3>4. Registry!Find(t)
      BY <2>2, <3>2, <3>3 DEF Registry!Find, Registry!Pending
    <3>5. QED BY <3>4 DEF Registry!Next
  <2>5. CASE pos[t] <= Len(list) /\ p \in ShortPaths
    <3>1. Registry!Lookup(list, p) = Raised
      BY <2>1, <2>5, EmptySeq DEF Registry!Lookup
    <3>2. answer' = [answer EXCEPT ![t] = Raised]
      BY <2>1, <2>5
    <3>3. Registry!Find(t)
      BY <2>2, <3>1, <3>2 DEF Registry!Find, Registry!Pending
    <3>4. QED BY <3>3 DEF Registry!Next
  <2>6. CASE pos[t] <= Len(list) /\ p \notin ShortPaths
    <3>1. p \in Holds[list[pos[t]]] /\ answer' = [answer EXCEPT ![t] = list[pos[t]]]
      BY <1>2, <2>1, <2>6 DEF NextPack
    <3>2. Registry!Lookup(list, p) = list[pos[t]]
      <4> HIDE DEF p
      <4>1. pos[t] \in 1 .. Len(list) /\ p \in Paths \ ShortPaths
        BY <2>1, <2>2, <2>6
      <4>2. list \in Seq(Roots) /\ p \in Holds[list[pos[t]]]
        BY <2>1, <3>1
      <4>3. \A i \in 1 .. pos[t] - 1 : p \notin Holds[list[i]]
        BY <2>3
      <4>4. QED BY ONLY <4>1, <4>2, <4>3, LookupHit
    <3>3. Registry!Find(t)
      BY <2>2, <3>1, <3>2 DEF Registry!Find, Registry!Pending
    <3>4. QED BY <3>3 DEF Registry!Next
  <2>7. QED BY <2>1, <2>4, <2>5, <2>6
<1>3. QED BY <1>1, <1>2

\* Every step of a thread is a step of the promise, or changes nothing there.
LEMMA NextImplementsRegistry ==
  ASSUME IInv, [Next]_vars
  PROVE  [Registry!Next]_<<list, call, answer>>
<1>1. ASSUME NEW t \in Threads, NEW c \in Registry!Calls, Invoke(t, c)
      PROVE  Registry!Next
  <2>1. Registry!Invoke(t, c)
    BY <1>1 DEF Invoke, Registry!Invoke, IInv, CallInv
  <2>2. QED BY <2>1 DEF Registry!Next
<1>2. ASSUME NEW t \in Threads, Ask(t) PROVE Registry!Next
  <2>1. Registry!Ask(t)
    BY <1>2, CallTypes
    DEF Ask, Registry!Ask, Registry!Pending, IInv, CallInv, Unanswered
  <2>2. QED BY <2>1 DEF Registry!Next
<1>3. ASSUME NEW t \in Threads, PushBack(t) PROVE Registry!Next
  <2>1. Registry!Add(t)
    BY <1>3, CallTypes
    DEF PushBack, Extended, Registry!Add, Registry!Pending, IInv, CallInv,
        Unanswered
  <2>2. QED BY <2>1 DEF Registry!Next
<1>4. ASSUME NEW t \in Threads, Return(t) PROVE Registry!Next
  <2>1. Registry!Return(t)
    BY <1>4 DEF Return, Registry!Return, IInv, CallInv
  <2>2. QED BY <2>1 DEF Registry!Next
<1>5. QED
  BY <1>1, <1>2, <1>3, <1>4, LoopImplementsFind, ConstructKeepsList
  DEF Next, Step, Finished, vars, ReadInstance, LockInstance, Recheck,
      Construct, Publish, SetKiller, UnlockInstance, Enter, Leave

\* add_resource and find_node of any number of threads take effect atomically,
\* and the first pack that has a path answers for it.
THEOREM Linearizable == Spec => RegistrySpec
<1>1. Init => Registry!Init
  BY DEF Init
<1>2. IInv /\ [Next]_vars => [Registry!Next]_<<list, call, answer>>
  BY NextImplementsRegistry
<1>3. QED BY <1>1, <1>2, Invariance, PTL DEF Spec, RegistrySpec, Registry!Spec

=============================================================================
