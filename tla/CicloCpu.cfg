CONSTANTS
  p1 = p1
  p2 = p2
  NULO = NULO
  Pids = {p1, p2}
  ALGORITMO = "RR"
  Instrucciones = {"CALCULO", "IO", "EXIT", "WAIT", "SIGNAL", "RESIZE"}
  MAX_INTERRUPCIONES = 1
  MAX_ARRANQUES = 1
  MAX_FINALIZAR = 1
SPECIFICATION FairSpec
INVARIANTS
  TypeOK
  TokenCpu
  
PROPERTIES
  
  ConsolaRespondida
CHECK_DEADLOCK FALSE
