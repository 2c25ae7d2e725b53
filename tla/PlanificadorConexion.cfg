CONSTANTS
  p1 = p1
  p2 = p2
  i1 = i1
  NULO = NULO
  Pids = {p1, p2}
  Interfaces = {i1}
  GRADO_MULTIPROGRAMACION = 2
  ALGORITMO = "FIFO"
  Motivos = {"END_PROCESS"}
  MAX_DETENCIONES = 0
SPECIFICATION Spec
INVARIANTS
  EliminacionViva
CHECK_DEADLOCK FALSE
