SPECIFICATION Spec
CONSTANTS
  Size = 2
  Dists = {"mpi_serial"}
  Algorithms = {"primaldual"}
  Sources = {"simulation"}
  Faults = {"none"}
  Sigmas = {1, 2}
  Norms = {0, 1}
  IterMax = 2
  UpdateIters = 1
CONSTANT Widefield <- NoWidefield
INVARIANT LeaveTogetherAlways
CHECK_DEADLOCK FALSE
