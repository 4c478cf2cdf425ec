SPECIFICATION Spec
CONSTANTS
  Users = {u1}
  StdIn = stdin
  StdOut = stdout
  StdErr = stderr
  Iters = {i1}
  NoOne = NoOne
  MaxFormats = 2
INVARIANT NoDanglingSelf
