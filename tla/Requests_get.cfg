SPECIFICATION Spec
CONSTANTS
  HTTP_MAXIMUM_CONTENT_LENGTH = 3
  Byte = {x}
  NUL = NUL
  ChunkLength = {0, 1, 2}
  Node <- MCPosting
  MaxRequests = 2
INVARIANTS GetsAreSentAsGets
CHECK_DEADLOCK FALSE
