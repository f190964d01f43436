SPECIFICATION Spec
CONSTANTS
  Procs = {p1, p2, p3}
  Nobody = Nobody
SYMMETRY Interchangeable
INVARIANTS
  TypeOK
  SocketsOwned
  WholeServerKeepsCookie
CHECK_DEADLOCK FALSE
