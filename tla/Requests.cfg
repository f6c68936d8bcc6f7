SPECIFICATION Spec
CONSTANTS
  HTTP_MAXIMUM_CONTENT_LENGTH = 3
  Byte = {x, y}
  NUL = NUL
  ChunkLength = {0, 1, 2, 3}
  Node <- MCNode
  MaxRequests = 3
INVARIANTS JsonIsOneBody AccountIsItsOwn ShortAnswersFit SentToOneNode
CHECK_DEADLOCK FALSE
