CONSTANTS
  MAX_PIDS = 3
  GRADO_MULTIPROGRAMACION = 2
  Grados = {0, 1, 3}
  MAX_FINALIZAR = 1
  MAX_GRADOS = 2
SPECIFICATION FairSpec
INVARIANTS
  CupoExacto
  SemaforosExactos
  

  
CHECK_DEADLOCK FALSE
