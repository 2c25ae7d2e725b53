CONSTANTS
  c1 = c1
  c2 = c2
  n1 = n1
  n2 = n2
  p1 = p1
  p2 = p2
  NULO = NULO
  Pids = {p1, p2}
  Conexiones = {c1, c2}
  Nombres = {n1, n2}
  Bautismos <- UnNombreODos
  Tipo <- TipoGenerico
  Identificadores = {"IO_GEN_SLEEP", "IO_STDIN_READ"}
  MAX_DETENCIONES = 1
  MAX_MUERTES = 1
  MAX_FINALIZADOS = 1
SPECIFICATION FairSpec
INVARIANTS
  PedidoUnico
  SemaforosIO
PROPERTIES
  PedidoAtendido
CHECK_DEADLOCK FALSE
