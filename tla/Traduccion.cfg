CONSTANTS
  p1 = p1
  p2 = p2
  Pids = {p1, p2}
  tamanio_de_pagina = 2
  CANT_MARCOS = 3
  Entradas = {0, 1, 2}
  Largos = {1, 4}
  MAX_PAGINAS = 3
SYMMETRY Simetria
SPECIFICATION Spec
INVARIANTS
  TypeOK
  TraduccionExacta
  IoVigente
  AccesoResidente
CHECK_DEADLOCK FALSE
