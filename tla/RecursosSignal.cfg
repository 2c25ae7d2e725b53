CONSTANTS
  p1 = p1
  p2 = p2
  p3 = p3
  r1 = r1
  r2 = r2
  NULO = NULO
  Pids = {p1, p2, p3}
  Recursos = {r1}
  Instancias <- MCInstancias
  SalenCon = {}
  MAX_IO = 0
  MAX_RETENIDAS = 1
SYMMETRY Simetria
SPECIFICATION Spec
INVARIANTS
  SignalDespierta
CHECK_DEADLOCK FALSE
