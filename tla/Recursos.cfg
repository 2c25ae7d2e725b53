CONSTANTS
  p1 = p1
  p2 = p2
  p3 = p3
  r1 = r1
  r2 = r2
  NULO = NULO
  Pids = {p1, p2, p3}
  Recursos = {r1, r2}
  Instancias <- MCInstancias
  SalenCon = {r1}
  MAX_IO = 2
  MAX_RETENIDAS = 2
SYMMETRY Simetria
SPECIFICATION Spec
INVARIANTS
  TypeOK
  Conservacion
  EsperaFuera
  
CHECK_DEADLOCK FALSE
