------------------------------ MODULE FileRead ------------------------------
(***************************************************************************)
(* The data path of file:read: the loop of LuaFileAdapter::read over its   *)
(* formats and, below it, LuaBoostFile's loops that read a file in pieces  *)
(* of a fixed buffer. One action is one call of stdio with what is done    *)
(* with its result; between two of them the file may grow, and the device  *)
(* may fail any of them.                                                   *)
(***************************************************************************)
EXTENDS Integers, Sequences

CONSTANTS
  Bytes, NL, NUL, Digits,
  Formats,     \* [kind, n]: "bytes" (of n bytes), "line", "all", "number", "bad"
  Nil,
  Chunk,       \* LUAL_BUFFERSIZE
  SizeMax,     \* ~((size_t)0)
  Offsets,     \* arguments of seek
  MaxFormats,  \* bounds the arguments of a call
  MaxLength,   \* bounds the file
  MaxErrors    \* bounds the errors of the device

ASSUME SizesAssumption ==
  /\ Chunk \in Nat /\ Chunk > 1 /\ SizeMax \in Nat /\ SizeMax > MaxLength
  /\ NL \in Bytes /\ Digits \subseteq Bytes \ {NL, NUL}
  /\ MaxLength \in Nat /\ MaxFormats \in Nat /\ MaxErrors \in Nat
  /\ \A f \in Formats : f.n \in 0..SizeMax

VARIABLES
  data,      \* the bytes of the file
  pos,       \* where the FILE is in it
  eof,       \* feof()
  failed,    \* ferror()
  errors,
  pc,        \* "idle", "format", "bytes" (in read) or "line" (in readLine)
  todo,      \* the formats the loop has not come to, the current one first
  acc,       \* data or line: what the current format has got
  num_bytes, \* what read has still to read
  results,   \* the values pushed
  outcome

call == <<todo, results, outcome>>
vars == <<data, pos, eof, failed, errors, pc, acc, num_bytes, call>>

Calls == UNION {[1..n -> Formats] : n \in 1..MaxFormats}
Strings == UNION {[1..n -> Bytes] : n \in 0..MaxLength}

TypeOK ==
  /\ data \in Strings /\ pos \in Nat
  /\ eof \in BOOLEAN /\ failed \in BOOLEAN /\ errors \in 0..MaxErrors
  /\ pc \in {"idle", "format", "bytes", "line"}
  /\ todo \in Calls \cup {<<>>} /\ (pc \in {"bytes", "line"} => todo # <<>>)
  /\ acc \in Strings /\ num_bytes \in 0..SizeMax
  /\ Len(results) + Len(todo) <= MaxFormats
  /\ outcome \in {"none", "pending", "values", "error", "raised"}

-----------------------------------------------------------------------------
(* stdio *)

Least(a, b) == IF a < b THEN a ELSE b
Rest == SubSeq(data, pos + 1, Len(data))
First(s, n) == SubSeq(s, 1, Least(n, Len(s)))

\* The length of the part of s without the bytes of stop.
Span(s, stop) ==
  CHOOSE n \in 0..Len(s) :
    /\ \A i \in 1..n : s[i] \notin stop
    /\ n < Len(s) => s[n + 1] \in stop

\* What stdio finds ahead: once it has met the end it does not look again (ISO C), until
\* clearerr or fseek.
Ahead == IF eof THEN <<>> ELSE Rest

\* fgets( buffer, size ): up to size - 1 bytes, a newline being the last.
Fgets(size) == First(Ahead, Least(Span(Ahead, {NL}) + 1, size - 1))

\* A call of stdio takes the bytes got, or fails after fewer than it was to take.
Succeeds(got, met) == pos' = pos + Len(got) /\ eof' = met /\ UNCHANGED <<failed, errors>>
Fails(taken) ==
  /\ errors < MaxErrors /\ errors' = errors + 1 /\ failed' = TRUE
  /\ pos' = pos + taken /\ eof' = FALSE

-----------------------------------------------------------------------------
(* LuaFileAdapter::read *)

Call(formats) ==
  /\ pc = "idle"
  /\ pc' = "format" /\ todo' = formats /\ results' = <<>> /\ outcome' = "pending"
  /\ UNCHANGED <<data, pos, eof, failed, errors, acc, num_bytes>>

\* A format has been answered: value is pushed, nil for one that fails.
Put(value, success) ==
  /\ pc' = "format"
  /\ results' = Append(results, IF success THEN value ELSE Nil)
  /\ todo' = IF success THEN Tail(todo) ELSE <<>>
  /\ acc' = <<>> /\ num_bytes' = 0
  /\ UNCHANGED outcome

Format(kind) == pc = "format" /\ todo # <<>> /\ Head(todo).kind = kind

\* LuaBoostFile::isEOF: getc, ungetc, and only then clearerr. It takes an error for
\* the end.
TestEnd ==
  /\ Format("bytes") /\ Head(todo).n = 0
  /\ \/ Put(<<>>, Ahead # <<>>) /\ UNCHANGED errors
     \/ ~eof /\ errors < MaxErrors /\ errors' = errors + 1 /\ Put(<<>>, FALSE)
  /\ eof' = FALSE /\ failed' = FALSE
  /\ UNCHANGED <<data, pos>>

\* LuaBoostFile::read and readLine up to their loops: clearerr.
Begin(loop, size) ==
  /\ pc' = loop /\ acc' = <<>> /\ num_bytes' = size
  /\ eof' = FALSE /\ failed' = FALSE
  /\ UNCHANGED <<data, pos, errors, call>>
BeginBytes == Format("bytes") /\ Head(todo).n > 0 /\ Begin("bytes", Head(todo).n)
BeginAll == Format("all") /\ Begin("bytes", SizeMax)
BeginLine == Format("line") /\ Begin("line", 0)

\* LuaBoostFile::readNumber: clearerr, and fscanf, for numbers that are digits. It looks
\* one byte beyond them, and an error there leaves the number as it is.
ReadNumber ==
  LET blanks == Span(Rest, Bytes \ {NL})
      behind == SubSeq(Rest, blanks + 1, Len(Rest))
      digits == First(behind, Span(behind, Bytes \ Digits)) IN
  /\ Format("number")
  /\ \/ Put(digits, digits # <<>>) /\ pos' = pos + blanks + Len(digits)
        /\ eof' = (blanks + Len(digits) = Len(Rest))
        /\ failed' = FALSE /\ UNCHANGED errors
     \/ \E taken \in 0..blanks + Len(digits) :
          LET got == SubSeq(Rest, blanks + 1, taken) IN Fails(taken) /\ Put(got, got # <<>>)
  /\ UNCHANGED data

\* An argument that is no format: luaL_argerror leaves the loop.
Raise ==
  /\ Format("bad")
  /\ pc' = "idle" /\ outcome' = "raised"
  /\ UNCHANGED <<data, pos, eof, failed, errors, acc, num_bytes, todo, results>>

\* After the loop: hasFailed.
Return ==
  /\ pc = "format" /\ todo = <<>>
  /\ pc' = "idle" /\ outcome' = IF failed THEN "error" ELSE "values"
  /\ UNCHANGED <<data, pos, eof, failed, errors, acc, num_bytes, todo, results>>

-----------------------------------------------------------------------------
(* LuaBoostFile *)

ReadCountFull == Chunk                  \* mutant: a full buffer each time
ReadCount == Least(num_bytes, Chunk)

ReadAgainWhileMore(got) == num_bytes - Len(got) # 0   \* mutant: no test of nr
ReadAgain(got) == num_bytes - Len(got) # 0 /\ Len(got) = ReadCount

\* read: one turn of the loop around fread. '*a' ignores the result.
ReadBytes ==
  /\ pc = "bytes"
  /\ \E n \in 0..Len(First(Ahead, ReadCount)) :
       LET got == First(Ahead, n)
           all == acc \o got IN
       /\ \/ n = Len(First(Ahead, ReadCount)) /\ Succeeds(got, n < ReadCount)
          \/ ~eof /\ n < ReadCount /\ Fails(n)
       /\ IF ReadAgain(got)
          THEN /\ acc' = all /\ num_bytes' = num_bytes - n
               /\ UNCHANGED <<pc, call>>
          ELSE Put(all, all # <<>> \/ Head(todo).kind = "all")
  /\ UNCHANGED data

\* strlen( __file_buffer )
Text(buffer) == First(buffer, Span(buffer, {NUL}))
LineEndsAtText(text) == TRUE            \* mutant: each piece is a line
LineEnds(text) == text # <<>> /\ text[Len(text)] = NL

\* fgets has what it was to take, without meeting the end.
Stopped(got) == Len(got) = Chunk - 1 \/ LineEnds(got)

\* readLine: one turn of the loop around fgets, whose NULL ends it.
ReadLine ==
  LET text == Text(Fgets(Chunk)) IN
  /\ pc = "line"
  /\ \/ /\ Ahead # <<>> /\ Succeeds(Fgets(Chunk), ~Stopped(Fgets(Chunk)))
        /\ IF LineEnds(text)
           THEN Put(acc \o First(text, Len(text) - 1), TRUE)
           ELSE acc' = acc \o text /\ UNCHANGED <<pc, num_bytes, call>>
     \/ Ahead = <<>> /\ Succeeds(<<>>, TRUE) /\ Put(acc, acc # <<>>)
     \/ /\ ~eof
        /\ \E taken \in 0..Len(Fgets(Chunk)) :
             ~Stopped(First(Ahead, taken)) /\ Fails(taken) /\ Put(acc, acc # <<>>)
  /\ UNCHANGED data

\* fseek and ftell; a position before the beginning is refused.
SeekTo(base, offset) ==
  /\ pc = "idle" /\ base + offset \in 0..MaxLength + 1
  /\ pos' = base + offset /\ eof' = FALSE
  /\ UNCHANGED <<data, failed, errors, pc, acc, num_bytes, call>>

-----------------------------------------------------------------------------

\* Another FILE or another process writes at the end of the file.
Grow(b) ==
  /\ Len(data) < MaxLength
  /\ data' = Append(data, b)
  /\ UNCHANGED <<pos, eof, failed, errors, pc, acc, num_bytes, call>>

Init ==
  /\ data \in Strings
  /\ pos = 0 /\ eof = FALSE /\ failed = FALSE /\ errors = 0
  /\ pc = "idle" /\ todo = <<>> /\ acc = <<>> /\ num_bytes = 0
  /\ results = <<>> /\ outcome = "none"

Step ==
  \/ TestEnd \/ BeginBytes \/ BeginAll \/ BeginLine \/ ReadNumber
  \/ Raise \/ Return \/ ReadBytes \/ ReadLine

Next ==
  \/ Step
  \/ \E formats \in Calls : Call(formats)
  \/ \E base \in {0, pos, Len(data)}, offset \in Offsets : SeekTo(base, offset)
  \/ \E b \in Bytes : Grow(b)

Spec == Init /\ [][Next]_vars

\* A call that has begun goes on.
FairSpec == Spec /\ WF_vars(Step)

-----------------------------------------------------------------------------
(* Properties *)

\* What a format has got does not count before it is answered, which a line is when
\* fgets has met the end.
Answered == pc = "line" /\ eof
Unread == pos - (IF pc \in {"bytes", "line"} /\ ~Answered THEN Len(acc) ELSE 0)
Left == IF Answered THEN Tail(todo) ELSE todo
Given == IF Answered THEN Append(results, acc) ELSE results
Broken == failed /\ todo = <<>>

Stream == INSTANCE ByteStream
  WITH pos <- Unread, todo <- Left, results <- Given, ended <- eof, broken <- Broken

\* In the loop of read: what it has got is the part of the file just before the
\* position, and with what it will ask for it makes up the request, so neither the
\* data nor num_bytes, a size_t, passes its bound (LuaBoostFile.cpp:57-65).
Requested == IF Head(todo).kind = "all" THEN SizeMax ELSE Head(todo).n
ReadInPlace ==
  pc = "bytes" =>
    /\ num_bytes > 0 /\ num_bytes + Len(acc) = Requested
    /\ Len(acc) <= pos /\ acc = SubSeq(data, pos - Len(acc) + 1, pos)

\* However the buffer cuts the file, and whatever is written behind it meanwhile,
\* each format answers what a single look at the file would, and the test for the end
\* repeats what the format before it has met, although the file has grown since
\* (LuaBoostFile.cpp:20-72, 186-192).
StreamSpec == Stream!Spec

\* The loops of read and readLine end, '*a' although it asks for 2^w - 1 bytes
\* (LuaBoostFile.cpp:25-65).
EveryReadReturns == outcome = "pending" ~> outcome # "pending"

=============================================================================
