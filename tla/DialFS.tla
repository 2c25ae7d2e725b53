------------------------------- MODULE DialFS -------------------------------
(***************************************************************************)
(* The file system of a DialFS interface (entradasalida/src): bitmap.dat   *)
(* and one metadata file per file survive the process; each change of them *)
(* reaches the disk at once (msync, config_save).  A request is therefore  *)
(* the sequence of its writes, "pendiente": the process may be killed      *)
(* between any two of them, and exits by itself on a block out of range.   *)
(* A compaction is a request of several such sequences, one for each turn  *)
(* of its loops; "compactacion" says which turns are left.                 *)
(*                                                                         *)
(* Of the data only this is kept: which disk block received block i of a   *)
(* file ("escrito").  "fuga" and "rota" record the past: a request was cut *)
(* short and may have left blocks that nobody owns; one of the requests    *)
(* was served that the code gets wrong (BorraAjeno, CreceMal, AcortaMal,   *)
(* CorteMalo, and every compaction).                                       *)
(***************************************************************************)
EXTENDS Integers, Sequences, FiniteSets, FiniteSetsExt, SequencesExt, Functions

CONSTANTS Archivos, block_size, block_count,
          Tamanios,   \* sizes that IO_FS_TRUNCATE is asked for, and of a write
          Punteros,   \* positions at which IO_FS_WRITE begins
          MAX_REINICIOS \* bound: times the process is started again

ASSUME BloquesAssumption == block_size \in Nat \ {0} /\ block_count \in Nat \ {0}
ASSUME PedidosAssumption ==
  Tamanios \subseteq Nat /\ Punteros \subseteq Nat /\ MAX_REINICIOS \in Nat

VARIABLES
  bitmap,     \* the bits that are set
  metadata,   \* of each file: BLOQUE_INICIAL and TAMANIO_ARCHIVO
  escrito,    \* <<file, block of the file, block of the disk>>
  pendiente,  \* the writes that the request being served has left
  compactacion, \* the loops of compactar_file_system
  vivo,       \* the process runs
  reinicios,  \* times it was started again
  fuga, rota  \* history

vars == <<bitmap, metadata, escrito, pendiente, compactacion, vivo, reinicios, fuga, rota>>
disco == <<bitmap, metadata, escrito>>

-----------------------------------------------------------------------------
(* Sizes and blocks.                                                       *)

\* The bitmap is a whole number of bytes: crear_bitmap.
MaxBit == 8 * ((block_count + 7) \div 8)

Techo(t) == (t + block_size - 1) \div block_size
BloquesDe(t) == IF t = 0 THEN 1 ELSE Techo(t)

Existe(f) == f \in DOMAIN metadata
Inicial(f) == metadata[f].inicial
Tamanio(f) == metadata[f].tamanio
Cantidad(f) == BloquesDe(Tamanio(f))
Extension(f) == Inicial(f) .. Inicial(f) + Cantidad(f) - 1

\* bloques_nuevos - bloques_actuales, unless it wraps round.
BloquesAdicionales(f, t) == Techo(t) - Cantidad(f)
BloquesALiberar(f, t) == Cantidad(f) - Techo(t)

\* Fault: the loop ends one block early.
SonCasiLibres(b, n) == \A i \in 1..n - 1 : b + i \notin bitmap
SonLibres(b, n) == \A i \in 1..n : b + i \notin bitmap

\* The block from which verificar_bloques_contiguos_libres counts.
UltimoAlCrecer(f) == Inicial(f) + Tamanio(f) \div block_size
FueraDeRango(f, n) == UltimoAlCrecer(f) + n > MaxBit

-----------------------------------------------------------------------------
(* The writes of a request.                                                *)

Paso(accion, f, valor) == [accion |-> accion, archivo |-> f, valor |-> valor]

\* The blocks b, b + 1, ... b + n - 1, each by its own write.
Bloques(accion, f, b, n) == [i \in 1..n |-> Paso(accion, f, b + i - 1)]

PasosDeCrear(f, b) == <<Paso("asignar", f, b), Paso("crear", f, b)>>

\* Fault: a file of size 0 has no block to free.
PasosDeBorrarDeMenos(f) ==
  Bloques("liberar", f, Inicial(f), Techo(Tamanio(f))) \o <<Paso("desvincular", f, 0)>>

\* i <= bloques_actuales, where a file of size 0 counts none.
PasosDeBorrar(f) ==
  Bloques("liberar", f, Inicial(f), Techo(Tamanio(f)) + 1) \o <<Paso("desvincular", f, 0)>>

\* From the last block backwards.
PasosDeAcortar(f, t) ==
  [i \in 1..BloquesALiberar(f, t) |->
     Paso("liberar", f, Inicial(f) + Techo(Tamanio(f)) - i)]
  \o <<Paso("tamanio", f, t)>>

PasosDeCrecer(f, t) ==
  Bloques("asignar", f, Inicial(f) + 1, BloquesAdicionales(f, t)) \o <<Paso("tamanio", f, t)>>

-----------------------------------------------------------------------------
(* compactar_file_system.  "orden" is what readdir gives, with the file    *)
(* that grows at its end; "libre" is bloque_libre, and "tamanio" what      *)
(* agrandar_archivo goes on with.                                          *)

SinCompactar == [orden |-> <<>>, liberados |-> 0, empaquetados |-> 0, libre |-> 0, tamanio |-> 0]
Compactando == compactacion # SinCompactar
EnReposo == pendiente = <<>> /\ ~Compactando

\* The other files, and the one that moves.
Otros == Len(compactacion.orden) - 1
ArchivoAMover == compactacion.orden[Otros + 1]

\* Fault: the next file begins on the last block of this one.
TrasElArchivoEncima(libre, g) == libre + Cantidad(g) - 1

\* bloque_libre after the blocks of g.
TrasElArchivo(libre, g) == libre + Cantidad(g)

\* A file that already is where it goes is skipped: its bits stay clear.
PasosDeEmpaquetar(libre, g) ==
  (IF Inicial(g) = libre THEN <<>> ELSE Bloques("asignar", g, libre, Cantidad(g)))
  \o <<Paso("inicial", g, libre)>>

PasosDeMover(libre, f, t) ==
  <<Paso("copiar", f, libre)>> \o Bloques("asignar", f, libre, Cantidad(f))
  \o <<Paso("inicial", f, libre), Paso("reverificar", f, t)>>

-----------------------------------------------------------------------------
(* What the code gets wrong.  The rest of a request is right.              *)

DeOtro(f, b) == \E g \in DOMAIN metadata \ {f} : b \in Extension(g)

\* borrar_archivo frees one block more than a file with data has.
BorraAjeno(f) == Tamanio(f) > 0 /\ DeOtro(f, Inicial(f) + Cantidad(f))

\* agrandar_archivo marks the blocks after the first one, whatever the size,
\* and when the last block is full it looks at the blocks one further on.
CreceMal(f, t) ==
  /\ BloquesAdicionales(f, t) > 0
  /\ \/ Tamanio(f) > block_size
     \/ Tamanio(f) = block_size /\ DeOtro(f, Inicial(f) + 1)

\* acortar_archivo frees the block that a file of size 0 keeps.
AcortaMal(t) == t = 0

\* A request that frees first and updates the metadata last, cut in between.
CorteMalo ==
  /\ pendiente # <<>>
  /\ \E k \in DOMAIN pendiente :
       LET p == pendiente[k]
       IN \/ p.accion = "desvincular"
          \/ p.accion = "tamanio" /\ p.valor < Tamanio(p.archivo)

Init ==
  /\ bitmap = {}
  /\ metadata = <<>>
  /\ escrito = {}
  /\ pendiente = <<>> /\ compactacion = SinCompactar
  /\ vivo = TRUE /\ reinicios = 0
  /\ fuga = FALSE /\ rota = FALSE

-----------------------------------------------------------------------------
(* Requests, one at a time: atender_cliente, case DIALFS.                  *)

Atiende == vivo /\ EnReposo

\* exit(EXIT_FAILURE), or the user kills the process.
Morir ==
  /\ vivo' = FALSE
  /\ pendiente' = <<>> /\ compactacion' = SinCompactar
  /\ fuga' = (fuga \/ ~EnReposo)
  /\ rota' = (rota \/ CorteMalo)
  /\ UNCHANGED <<disco, reinicios>>

Empezar(pasos, defecto) ==
  /\ pendiente' = pasos
  /\ rota' = (rota \/ defecto)
  /\ UNCHANGED <<disco, compactacion, vivo, reinicios, fuga>>

\* The blocks of the file that grows are the first that compactar_file_system frees.
Compactar(f, t) ==
  /\ \E orden \in SetToSeqs(DOMAIN metadata \ {f}) :
       compactacion' = [SinCompactar EXCEPT !.orden = Append(orden, f), !.tamanio = t]
  /\ pendiente' = Bloques("liberar", f, Inicial(f), Cantidad(f))
  /\ rota' = TRUE
  /\ UNCHANGED <<disco, vivo, reinicios, fuga>>

\* A file that exists, or no free block: the answer -1 ends the process.
Crear(f) ==
  LET libres == (0..MaxBit - 1) \ bitmap
  IN /\ Atiende
     /\ IF Existe(f) \/ libres = {} THEN Morir
        ELSE Empezar(PasosDeCrear(f, Min(libres)), FALSE)

Borrar(f) ==
  /\ Atiende
  /\ IF ~Existe(f) THEN Morir ELSE Empezar(PasosDeBorrar(f), BorraAjeno(f))

TruncarInexistente(f) == Atiende /\ ~Existe(f) /\ Morir

Acortar(f, t) ==
  /\ Atiende /\ Existe(f) /\ t < Tamanio(f)
  /\ Empezar(PasosDeAcortar(f, t), AcortaMal(t))

\* The number of blocks stays: only TAMANIO_ARCHIVO changes.
CrecerEnElBloque(f, t) ==
  /\ Atiende /\ Existe(f) /\ t >= Tamanio(f)
  /\ BloquesAdicionales(f, t) = 0
  /\ Empezar(<<Paso("tamanio", f, t)>>, FALSE)

CrecerFueraDeRango(f, t) ==
  /\ Atiende /\ Existe(f) /\ t >= Tamanio(f)
  /\ BloquesAdicionales(f, t) > 0
  /\ FueraDeRango(f, BloquesAdicionales(f, t))
  /\ Morir

Crecer(f, t) ==
  LET n == BloquesAdicionales(f, t)
  IN /\ Atiende /\ Existe(f) /\ t >= Tamanio(f)
     /\ n > 0 /\ ~FueraDeRango(f, n) /\ SonLibres(UltimoAlCrecer(f), n)
     /\ Empezar(PasosDeCrecer(f, t), CreceMal(f, t))

CrecerCompactando(f, t) ==
  LET n == BloquesAdicionales(f, t)
  IN /\ Atiende /\ Existe(f) /\ t >= Tamanio(f)
     /\ n > 0 /\ ~FueraDeRango(f, n) /\ ~SonLibres(UltimoAlCrecer(f), n)
     /\ Compactar(f, t)

\* An empty file truncated to 0: 0 - 1 blocks more, modulo 2^32. From block 0
\* the sum is out of range; else it wraps round, and the bits after the file
\* are read until one is set, which leads to a compaction, or until the read
\* leaves the mapping.
TruncarVacioACero(f) ==
  /\ Atiende /\ Existe(f) /\ Tamanio(f) = 0
  /\ \/ /\ Inicial(f) = 0 \/ \A b \in bitmap : b <= Inicial(f)
        /\ Morir
     \/ Inicial(f) > 0 /\ Compactar(f, 0)

\* Fault: the block after the last byte is written too.
TocadosDeMas(puntero, t) == (puntero \div block_size) .. ((puntero + t) \div block_size)

\* escribir_archivo: the blocks that hold the bytes puntero..puntero + t - 1.
Tocados(puntero, t) == (puntero \div block_size) .. ((puntero + t - 1) \div block_size)

EscribirArchivo(f, puntero, t) ==
  /\ Atiende
  /\ IF ~(Existe(f) /\ puntero + t <= Tamanio(f)) THEN Morir
     ELSE /\ escrito' = {e \in escrito : ~(e[1] = f /\ e[2] \in Tocados(puntero, t))}
                        \cup {<<f, i, Inicial(f) + i>> : i \in Tocados(puntero, t)}
          /\ \/ vivo' = TRUE
             \/ /\ \E i \in Tocados(puntero, t) : Inicial(f) + i >= block_count
                /\ vivo' = FALSE   \* memcpy past the end of bloques.dat
          /\ UNCHANGED <<bitmap, metadata, pendiente, compactacion, reinicios, fuga, rota>>

\* leer_archivo fails on the same conditions and changes nothing else.
LeerArchivo(f, puntero, t) ==
  /\ Atiende
  /\ ~(Existe(f) /\ puntero + t <= Tamanio(f))
  /\ Morir

-----------------------------------------------------------------------------
(* The writes, one at a time.                                              *)

Proximo(accion) == vivo /\ pendiente # <<>> /\ Head(pendiente).accion = accion
Sigue == pendiente' = Tail(pendiente) /\ UNCHANGED <<compactacion, vivo, reinicios, fuga, rota>>

\* Fault: > for >=.
AsignarBloqueDeMas ==
  /\ Proximo("asignar")
  /\ IF Head(pendiente).valor > MaxBit THEN Morir
     ELSE /\ bitmap' = bitmap \cup {Head(pendiente).valor}
          /\ UNCHANGED <<metadata, escrito>>
          /\ Sigue

\* asignar_bloque: a block that is already set is reported and skipped.
AsignarBloque ==
  /\ Proximo("asignar")
  /\ IF Head(pendiente).valor >= MaxBit THEN Morir
     ELSE /\ bitmap' = bitmap \cup {Head(pendiente).valor}
          /\ UNCHANGED <<metadata, escrito>>
          /\ Sigue

LiberarBloque ==
  /\ Proximo("liberar")
  /\ IF Head(pendiente).valor >= MaxBit THEN Morir
     ELSE /\ bitmap' = bitmap \ {Head(pendiente).valor}
          /\ UNCHANGED <<metadata, escrito>>
          /\ Sigue

CrearMetadata ==
  LET p == Head(pendiente)
  IN /\ Proximo("crear")
     /\ metadata' = [f \in DOMAIN metadata \cup {p.archivo} |->
                       IF f = p.archivo THEN [inicial |-> p.valor, tamanio |-> 0]
                       ELSE metadata[f]]
     /\ UNCHANGED <<bitmap, escrito>>
     /\ Sigue

\* unlink. Nobody can read the data of the file any more.
Desvincular ==
  LET f == Head(pendiente).archivo
  IN /\ Proximo("desvincular")
     /\ metadata' = Restrict(metadata, DOMAIN metadata \ {f})
     /\ escrito' = {e \in escrito : e[1] # f}
     /\ UNCHANGED bitmap
     /\ Sigue

ActualizarInicial ==
  LET p == Head(pendiente)
  IN /\ Proximo("inicial")
     /\ metadata' = [metadata EXCEPT ![p.archivo].inicial = p.valor]
     /\ UNCHANGED <<bitmap, escrito>>
     /\ Sigue

ActualizarTamanio ==
  LET p == Head(pendiente)
  IN /\ Proximo("tamanio")
     /\ metadata' = [metadata EXCEPT ![p.archivo].tamanio = p.valor]
     /\ escrito' = {e \in escrito : ~(e[1] = p.archivo /\ e[2] >= BloquesDe(p.valor))}
     /\ UNCHANGED bitmap
     /\ Sigue

\* Every block of the file that moves is copied onto the same block of the
\* disk: the last one stays. The data of the other files is not moved.
CopiarBuffer ==
  LET p == Head(pendiente)
      ultimo == Cantidad(p.archivo) - 1
  IN /\ Proximo("copiar")
     /\ escrito' = escrito \cup {<<e[1], e[2], p.valor>> :
                                   e \in {d \in escrito : d[1] = p.archivo /\ d[2] = ultimo}}
     /\ UNCHANGED <<bitmap, metadata>>
     /\ Sigue

\* After a compaction the blocks that follow are looked at again.
Reverificar ==
  LET f == Head(pendiente).archivo
      t == Head(pendiente).valor
      n == BloquesAdicionales(f, t)
  IN /\ Proximo("reverificar")
     /\ IF n < 0 \/ FueraDeRango(f, n) \/ ~SonLibres(UltimoAlCrecer(f), n) THEN Morir
        ELSE Empezar(PasosDeCrecer(f, t), TRUE)

-----------------------------------------------------------------------------
(* The turns of the loops of compactar_file_system.                        *)

Vuelta(pasos) ==
  /\ vivo /\ pendiente = <<>> /\ Compactando
  /\ pendiente' = pasos
  /\ UNCHANGED <<disco, vivo, reinicios, fuga, rota>>

\* Everything is freed first.
LiberarArchivo ==
  LET g == compactacion.orden[compactacion.liberados + 1]
  IN /\ compactacion.liberados < Otros
     /\ Vuelta(Bloques("liberar", g, Inicial(g), Cantidad(g)))
     /\ compactacion' = [compactacion EXCEPT !.liberados = @ + 1]

\* The other files are packed from block 0.
EmpaquetarArchivo ==
  LET g == compactacion.orden[compactacion.empaquetados + 1]
  IN /\ compactacion.liberados = Otros /\ compactacion.empaquetados < Otros
     /\ Vuelta(PasosDeEmpaquetar(compactacion.libre, g))
     /\ compactacion' = [compactacion EXCEPT !.empaquetados = @ + 1,
                                              !.libre = TrasElArchivo(@, g)]

\* The file that grows comes last.
MoverArchivo ==
  /\ compactacion.empaquetados = Otros
  /\ Vuelta(PasosDeMover(compactacion.libre, ArchivoAMover, compactacion.tamanio))
  /\ compactacion' = SinCompactar

Matar == vivo /\ Morir

\* levantarFileSystem maps what is on the disk.
Reiniciar ==
  /\ ~vivo /\ reinicios < MAX_REINICIOS
  /\ vivo' = TRUE
  /\ reinicios' = reinicios + 1
  /\ UNCHANGED <<disco, pendiente, compactacion, fuga, rota>>

-----------------------------------------------------------------------------
Pedido(f) ==
  \/ Crear(f) \/ Borrar(f) \/ TruncarInexistente(f) \/ TruncarVacioACero(f)
  \/ \E t \in Tamanios : Acortar(f, t) \/ CrecerEnElBloque(f, t) \/ CrecerFueraDeRango(f, t)
                         \/ Crecer(f, t) \/ CrecerCompactando(f, t)
  \/ \E t \in Tamanios \ {0}, p \in Punteros : EscribirArchivo(f, p, t) \/ LeerArchivo(f, p, t)

Escritura ==
  \/ AsignarBloque \/ LiberarBloque \/ CrearMetadata \/ Desvincular
  \/ ActualizarInicial \/ ActualizarTamanio \/ CopiarBuffer \/ Reverificar

Bucle == LiberarArchivo \/ EmpaquetarArchivo \/ MoverArchivo

Next == (\E f \in Archivos : Pedido(f)) \/ Escritura \/ Bucle \/ Matar \/ Reiniciar

Spec == Init /\ [][Next]_vars

-----------------------------------------------------------------------------
DeArchivos == UNION {Extension(f) : f \in DOMAIN metadata}

TypeOK ==
  /\ bitmap \subseteq 0..MaxBit - 1
  /\ DOMAIN metadata \subseteq Archivos
  /\ \A f \in DOMAIN metadata : metadata[f] \in [inicial : Nat, tamanio : Nat]
  /\ escrito \subseteq Archivos \X Nat \X Nat
  /\ pendiente \in Seq([accion : {"asignar", "liberar", "crear", "desvincular", "inicial",
                                  "tamanio", "copiar", "reverificar"},
                        archivo : Archivos, valor : Nat])
  /\ compactacion \in [orden : Seq(Archivos), liberados : Nat, empaquetados : Nat, libre : Nat,
                       tamanio : Nat]
  /\ vivo \in BOOLEAN /\ reinicios \in 0..MAX_REINICIOS /\ fuga \in BOOLEAN /\ rota \in BOOLEAN

\* Between two requests, two files never share a block and no block of a file
\* is offered as free, wherever the process was killed before: until one of
\* the requests that the code gets wrong is served.
SinSolapes ==
  ~rota /\ EnReposo =>
    /\ \A f, g \in DOMAIN metadata : f # g => Extension(f) \cap Extension(g) = {}
    /\ DeArchivos \subseteq bitmap

\* At rest every block that is set belongs to a file, even after the requests
\* that go wrong, unless a request was cut short.
SinFugas == ~fuga /\ EnReposo => bitmap \subseteq DeArchivos

\* The data of a file is in its own blocks and nobody wrote over it.
DatosEnSuLugar ==
  ~rota /\ EnReposo =>
    \A e \in escrito :
      /\ e[3] = Inicial(e[1]) + e[2]
      /\ \A d \in escrito : d[3] = e[3] => d = e

\* When a compaction ends the files lie one behind the other from block 0.
CompactacionContigua ==
  Proximo("reverificar") =>
    /\ \A f, g \in DOMAIN metadata : f # g => Extension(f) \cap Extension(g) = {}
    /\ DeArchivos = 0 .. Cardinality(DeArchivos) - 1

=============================================================================
