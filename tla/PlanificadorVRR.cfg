CONSTANTS
  p1 = p1
  p2 = p2
  p3 = p3
  i1 = i1
  i2 = i2
  NULO = NULO
  Pids = {p1, p2, p3}
  Interfaces = {i1, i2}
  GRADO_MULTIPROGRAMACION = 2
  ALGORITMO = "VRR"
  Motivos = {"OPERACION_IO", "END_PROCESS"}
  MAX_DETENCIONES = 2
SYMMETRY Simetria
SPECIFICATION Spec
INVARIANTS
  TokenCpu
  SemaforosExactos
  GradoExacto
  UnaSolaCola
  CompuertasAbiertas
PROPERTIES
  CicloSpec
CHECK_DEADLOCK FALSE
