CONSTANTS
  a = a
  b = b
  Archivos = {a, b}
  block_size = 2
  block_count = 8
  Tamanios = {0, 1, 2, 7}
  Punteros = {0, 2}
  MAX_REINICIOS = 1
SYMMETRY Simetria
SPECIFICATION Spec
INVARIANTS
  TypeOK
  SinSolapes
  SinFugas
  DatosEnSuLugar
  CompactacionContigua
CHECK_DEADLOCK FALSE
