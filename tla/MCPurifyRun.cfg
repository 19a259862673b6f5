SPECIFICATION Spec
CONSTANTS
  Size = 2
  Dists = {"serial", "mpi_serial", "mpi_distributed", "mpi_random_updates"}
  Algorithms = {"padmm", "fb", "primaldual"}
  Sources = {"measurements", "simulation", "coverage"}
  Faults = {"none", "version", "eigenvector", "file", "skymodel", "output"}
  Sigmas = {1, 2}
  Norms = {0, 1}
  IterMax = 2
  UpdateIters = 1
CONSTANT Widefield <- AnyWidefield
INVARIANT CallsMatch LeaveTogether OneWriter
PROPERTY  EveryRankReturns
CHECK_DEADLOCK FALSE
