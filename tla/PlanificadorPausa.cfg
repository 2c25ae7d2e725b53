CONSTANTS
  p1 = p1
  i1 = i1
  NULO = NULO
  Pids = {p1}
  Interfaces = {i1}
  GRADO_MULTIPROGRAMACION = 1
  ALGORITMO = "FIFO"
  Motivos = {"END_PROCESS"}
  MAX_DETENCIONES = 2
SPECIFICATION Spec
PROPERTIES
  PausaRespetada
CHECK_DEADLOCK FALSE
