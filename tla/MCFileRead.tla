----------------------------- MODULE MCFileRead -----------------------------
(* An instance of FileRead for TLC. Chunk is 3, so that fgets takes two bytes *)
(* and a count of bytes is less than the buffer, as much, or more.            *)
EXTENDS FileRead

Count(n) == [kind |-> "bytes", n |-> n]
Kind(k) == [kind |-> k, n |-> 0]

MCFormats == {Count(n) : n \in {0, 1, 3, 4}}
             \cup {Kind(k) : k \in {"line", "all", "number", "bad"}}
MCOffsets == {-1, 0, 1}

=============================================================================
