CONSTANTS
  p1 = p1
  p2 = p2
  p3 = p3
  Pids = {p1, p2, p3}
  NULO = NULO
  TAM_PAGINA = 2
  CANT_MARCOS = 3
  Tamanios <- MCTamanios
SPECIFICATION FairSpec
INVARIANTS
  SinMarcosCompartidos
  BitmapExacto
  BusquedaVigente
PROPERTIES
  TamanioPedido
  AsignacionSpec
  ResizeRespondido
CHECK_DEADLOCK FALSE
