------------------------------ MODULE FileWrite ------------------------------
(***************************************************************************)
(* The data path of a file that is written: LuaFileAdapter's write, flush, *)
(* seek, setvbuf, close and its destruction, over a FILE of stdio, whose   *)
(* buffer keeps bytes back, on a device that may fail. One action is one   *)
(* call of stdio, with what is done with its result.                       *)
(***************************************************************************)
EXTENDS Integers, Sequences

CONSTANTS
  Bytes, NL, NUL,
  Args,        \* [kind, bytes]: "string", "number" (its text) or "bad"
  BufferSize,
  Offsets,     \* where seek moves to
  MaxArgs,     \* bounds the arguments of a call
  MaxLength,   \* bounds the file: no call begins behind it
  MaxErrors    \* bounds the errors of the device

ASSUME ArgsAssumption ==
  /\ NUL \in Bytes /\ BufferSize \in Nat /\ MaxErrors \in Nat /\ MaxArgs \in Nat
  /\ Offsets \subseteq Nat /\ \A a \in Args : a.bytes \in Seq(Bytes)

VARIABLES
  append,    \* fopen was given "a"
  disk,      \* the bytes of the file
  at,        \* the offset of the descriptor
  buffer,    \* what stdio has taken and not written
  vbuf,      \* "no", "full" or "line"
  errors,    \* the errors of the device
  handle,    \* "open", "shut" (a failed close), "closed" or "collected"
  pc,        \* "idle" or "write"
  todo,      \* the arguments that write has not come to
  status,
  result,    \* what the last call said: "true", "error" (the device's) or "raised"
             \* (a bad argument); "none" while it runs, and of the finalizer
  before     \* errors when the last call began (the model's own)

file == <<append, disk, at, buffer, vbuf, errors>>
write == <<pc, todo, status>>
told == <<result, before>>
vars == <<file, write, handle, told>>

Calls == UNION {[1..n -> Args] : n \in 1..MaxArgs}

\* s with d written over it at p; the bytes between its end and p are NUL.
Overlay(s, p, d) ==
  IF d = <<>> THEN s
  ELSE [i \in 1..(IF Len(s) < p + Len(d) THEN p + Len(d) ELSE Len(s)) |->
          IF i \in p + 1..p + Len(d) THEN d[i - p]
          ELSE IF i \in 1..Len(s) THEN s[i] ELSE NUL]

-----------------------------------------------------------------------------
(* stdio *)

Where == IF append THEN Len(disk) ELSE at

\* The first n bytes of s, and those after them.
First(s, n) == SubSeq(s, 1, n)
Behind(s, n) == SubSeq(s, n + 1, Len(s))

Drain(s, n) ==
  /\ disk' = Overlay(disk, Where, First(s, n))
  /\ at' = IF n = 0 THEN at ELSE Where + n

\* How many bytes must go to the device before the others of s fit into the buffer.
Fits(s) ==
  /\ Len(s) <= (IF vbuf = "no" THEN 0 ELSE BufferSize)
  /\ vbuf = "line" => \A i \in 1..Len(s) : s[i] # NL
Puts(s) ==
  /\ \E n \in 0..Len(s) : /\ IF Fits(s) THEN n = 0 ELSE Fits(Behind(s, n))
                          /\ Drain(s, n) /\ buffer' = Behind(s, n)
  /\ UNCHANGED <<append, vbuf, errors>>

\* The device fails after n bytes; stdio may keep some of those that follow.
Fails(s) ==
  /\ errors < MaxErrors /\ errors' = errors + 1
  /\ \E n \in 0..Len(s) - 1, k \in 0..BufferSize :
       /\ Drain(s, n) /\ n + k <= Len(s) /\ (vbuf = "no" => k = 0)
       /\ buffer' = SubSeq(s, n + 1, n + k)
  /\ UNCHANGED <<append, vbuf>>

Flushes == Drain(buffer, Len(buffer)) /\ buffer' = <<>> /\ UNCHANGED <<append, errors>>

-----------------------------------------------------------------------------
(* LuaFileAdapter and LuaBoostFile *)

\* m_FileHandle is tested. (A file that is shut passes the test: see LuaIO.)
UsableAlways == TRUE             \* mutant: the test is missing
Usable == handle = "open"

Write(args) ==
  /\ pc = "idle" /\ Usable
  /\ Len(disk) + Len(buffer) < MaxLength
  /\ pc' = "write" /\ todo' = args /\ status' = TRUE
  /\ result' = "none" /\ before' = errors
  /\ UNCHANGED <<file, handle>>

\* status && ...
AttemptsAlways == TRUE           \* mutant: status = writeBuffer( ... )
Attempts == status

\* fwrite is given the length of the data.
UpToNUL(arg) ==                  \* mutant: fputs
  First(arg.bytes, CHOOSE n \in 0..Len(arg.bytes) :
                     /\ \A i \in 1..n : arg.bytes[i] # NUL
                     /\ n < Len(arg.bytes) => arg.bytes[n + 1] = NUL)
Text(arg) == arg.bytes

TodoBehind == Tail(todo)

WriteArg ==
  LET all == buffer \o Text(Head(todo)) IN
  /\ pc = "write" /\ todo # <<>> /\ Head(todo).kind # "bad"
  /\ \/ /\ Attempts /\ Text(Head(todo)) # <<>> /\ Puts(all)
        /\ status' = TRUE
     \/ /\ Attempts /\ Text(Head(todo)) # <<>> /\ ~Fits(all) /\ Fails(all)
        /\ status' = FALSE
     \/ /\ Attempts /\ Text(Head(todo)) = <<>>
        /\ status' = TRUE /\ UNCHANGED file
     \/ ~Attempts /\ UNCHANGED <<file, status>>
  /\ todo' = TodoBehind
  /\ UNCHANGED <<handle, pc, told>>

\* luaL_checklstring leaves the loop with an error about the argument. What the device
\* did with the strings before it is in status, and goes with it.
Raise ==
  /\ pc = "write" /\ todo # <<>> /\ Head(todo).kind = "bad"
  /\ pc' = "idle" /\ todo' = <<>> /\ result' = "raised"
  /\ UNCHANGED <<file, handle, status, before>>

\* reportResult
Return ==
  /\ pc = "write" /\ todo = <<>>
  /\ pc' = "idle" /\ result' = (IF status THEN "true" ELSE "error")
  /\ UNCHANGED <<file, handle, todo, status, before>>

\* The other calls report what stdio returned.
Simple == pc = "idle" /\ before' = errors /\ UNCHANGED write

Flush ==
  /\ Simple /\ Usable
  /\ \/ Flushes /\ result' = "true" /\ UNCHANGED vbuf
     \/ Fails(buffer) /\ result' = "error"
  /\ UNCHANGED handle

\* fseek writes the buffer before it moves.
Seek(offset) ==
  /\ Simple /\ Usable
  /\ \/ /\ disk' = Overlay(disk, Where, buffer) /\ buffer' = <<>> /\ at' = offset
        /\ result' = "true" /\ UNCHANGED <<append, vbuf, errors>>
     \/ Fails(buffer) /\ result' = "error"
  /\ UNCHANGED handle

\* setvbuf may do so before it changes the mode, and does if no buffer is left.
SetVBuf(mode) ==
  /\ Simple /\ Usable
  /\ \/ Flushes /\ vbuf' = mode /\ result' = "true"
     \/ /\ mode # "no" /\ vbuf' = mode /\ result' = "true"
        /\ UNCHANGED <<append, disk, at, buffer, errors>>
     \/ Fails(buffer) /\ result' = "error"
  /\ UNCHANGED handle

\* fclose gives up the FILE and its buffer, even if it fails.
CloseFails ==
  /\ errors < MaxErrors /\ errors' = errors + 1
  /\ \E n \in 0..Len(buffer) - 1 : Drain(buffer, n)
  /\ buffer' = <<>> /\ UNCHANGED <<append, vbuf>>

Close ==
  /\ Simple /\ Usable
  /\ \/ Flushes /\ handle' = "closed" /\ result' = "true" /\ UNCHANGED vbuf
     \/ CloseFails /\ handle' = "shut" /\ result' = "error"

\* The destructor closes the file and has nobody to report an error to.
Collect ==
  /\ Simple /\ handle \in {"open", "shut"}
  /\ \/ handle = "open" /\ Flushes /\ UNCHANGED vbuf
     \/ handle = "open" /\ CloseFails
     \/ handle = "shut" /\ UNCHANGED file
  /\ handle' = "collected" /\ result' = "none"

-----------------------------------------------------------------------------

Init ==
  /\ append \in BOOLEAN
  /\ disk \in {<<>>, <<NUL, NUL>>}      \* "w" truncates, "r+" and "a" do not
  /\ at = 0 /\ buffer = <<>> /\ vbuf = "full" /\ errors = 0 /\ handle = "open"
  /\ pc = "idle" /\ todo = <<>> /\ status = TRUE
  /\ result = "none" /\ before = 0

Step == WriteArg \/ Raise \/ Return

GivenUp == handle \in {"closed", "collected"} /\ UNCHANGED vars

Next ==
  \/ Step
  \/ \E args \in Calls : Write(args)
  \/ Flush \/ Close \/ Collect
  \/ \E offset \in Offsets : Seek(offset)
  \/ \E mode \in {"no", "full", "line"} : SetVBuf(mode)
  \/ GivenUp

Spec == Init /\ [][Next]_vars

-----------------------------------------------------------------------------
(* Properties *)

TypeOK ==
  /\ append \in BOOLEAN /\ disk \in Seq(Bytes) /\ at \in Nat
  /\ buffer \in Seq(Bytes) /\ vbuf \in {"no", "full", "line"} /\ errors \in Nat
  /\ pc \in {"idle", "write"} /\ todo \in Seq(Args)
  /\ status \in BOOLEAN
  /\ result \in {"none", "true", "error", "raised"} /\ before \in Nat
  /\ handle \in {"open", "shut", "closed", "collected"}
  /\ handle # "open" => buffer = <<>> /\ pc = "idle"

\* A call that says true has met no error of the device, whichever of its strings the
\* device failed on, and one that reports an error has met just one: nothing is given
\* to the device behind it. (The message about a bad argument says nothing of the
\* device: LuaFileAdapter.cpp:151-167.)
ErrorsAreTold ==
  /\ result = "true" => errors = before
  /\ result = "error" => errors = before + 1

\* While the device does not fail, the file is what the calls have made of it, in
\* every mode of its buffer: nothing is lost, doubled or moved by flush, seek, setvbuf,
\* close or the finalizer (LuaBoostFile.cpp:74-126).
Sink == INSTANCE ByteSink
  WITH content <- Overlay(disk, Where, buffer),
       pos <- IF buffer = <<>> THEN at ELSE Where + Len(buffer),
       todo <- [i \in 1..Len(todo) |-> todo[i].bytes],
       failed <- errors > 0,
       given_up <- handle # "open"
SinkSpec == Sink!Spec

=============================================================================
