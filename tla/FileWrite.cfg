SPECIFICATION Spec
CONSTANTS
  Bytes = {"x", "y", "1", "newline", "nul"}
  NL = "newline"
  NUL = "nul"
  Args <- MCArgs
  BufferSize = 2
  Offsets = {1, 5}
  MaxArgs = 2
  MaxLength = 4
  MaxErrors = 2
INVARIANTS
  TypeOK
  ErrorsAreTold
PROPERTIES
  SinkSpec
