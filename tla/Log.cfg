\* Two writers, a ring of four bytes, buffers of three, indices that wrap at eight.
SPECIFICATION Spec

CONSTANTS
  Writers = {w1, w2}
  Size = 4
  BuffSize = 3
  Range32 = 8
  MaxText = 4
  MaxPosts = 2
  Nul = Nul
  None = None

INVARIANTS
  WakeupsSuffice
  PrintIsTerminated

PROPERTIES
  ImplementsByteFifo

\* When the writers have used up MaxPosts in Format the reader waits.
CHECK_DEADLOCK FALSE
