CONSTANTS
  p1 = p1
  p2 = p2
  p3 = p3
  i1 = i1
  NULO = NULO
  Pids = {p1, p2, p3}
  Interfaces = {i1}
  GRADO_MULTIPROGRAMACION = 2
  ALGORITMO = "RR"
  Motivos = {"OPERACION_IO", "END_PROCESS", "OUT_OF_MEMORY"}
  MAX_DETENCIONES = 0
SPECIFICATION FairSpec
PROPERTIES
  LlegaACpu
  SeAdmite
  SeElimina
CHECK_DEADLOCK FALSE
