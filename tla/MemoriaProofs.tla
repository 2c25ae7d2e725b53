---------------------------- MODULE MemoriaProofs ----------------------------
(***************************************************************************)
(* Proofs about Memoria, for any number of processes and of frames and any *)
(* page size.  IndInv is inductive: the safety invariants together with    *)
(* Control, which says why the two threads stay apart (the process being   *)
(* freed is never the one the CPU resizes).                                *)
(***************************************************************************)
EXTENDS Memoria, TLAPS

IndInv == TypeOK /\ Control /\ SinMarcosCompartidos /\ BitmapExacto /\ BusquedaVigente

-----------------------------------------------------------------------------
(* The quotient of a size by the page size is a number of pages, and a     *)
(* shrink never removes more pages than the table has.                     *)
LEMMA CotaCociente ==
  ASSUME NEW T \in Nat \ {0}, NEW L \in Nat, NEW x \in Nat
  PROVE  /\ x \div T \in Nat
         /\ x <= L * T => x \div T <= L
  OBVIOUS

(* The live pages are an interval that loses or gains one end.             *)
LEMMA Intervalos ==
  ASSUME NEW a \in Nat, NEW b \in Nat
  PROVE  /\ (a + 1)..b = (a..b) \ {a}
         /\ a..(b - 1) = (a..b) \ {b}
         /\ a <= b + 1 => a..(b + 1) = (a..b) \cup {b + 1}
  OBVIOUS

(* What appending a frame to a table does, position by position. *)
LEMMA TablaConPagina ==
  ASSUME NEW s \in Seq(Marcos), NEW m \in Marcos
  PROVE  /\ Append(s, m) \in Seq(Marcos)
         /\ Len(Append(s, m)) = Len(s) + 1
         /\ \A i \in 1..Len(s) : Append(s, m)[i] = s[i]
         /\ Append(s, m)[Len(s) + 1] = m
  OBVIOUS

(* What dropping the last frame of a table does, position by position. *)
LEMMA TablaSinUltima ==
  ASSUME NEW s \in Seq(Marcos), Len(s) > 0
  PROVE  /\ SubSeq(s, 1, Len(s) - 1) \in Seq(Marcos)
         /\ Len(SubSeq(s, 1, Len(s) - 1)) = Len(s) - 1
         /\ \A i \in 1..(Len(s) - 1) : SubSeq(s, 1, Len(s) - 1)[i] = s[i]
  OBVIOUS

-----------------------------------------------------------------------------
(* The three effects a step can have on who has which frame.               *)
Suelta == \E p \in Pids, f \in Marcos :
  /\ Posee(p, f)
  /\ \A q \in Pids, m \in Marcos : Posee(q, m)' <=> Posee(q, m) /\ m # f

Toma == \E p \in Pids, f \in Marcos :
  /\ \A q \in Pids : ~Posee(q, f)
  /\ \A q \in Pids, m \in Marcos :
       Posee(q, m)' <=> Posee(q, m) \/ (q = p /\ m = f)

Conserva == \A q \in Pids, m \in Marcos : Posee(q, m)' <=> Posee(q, m)

(* The steps that touch neither the tables, nor the bitmap, nor the        *)
(* progress of END_PROCESS keep the three invariants about frames.         *)
LEMMA SinCambioDeMarcos ==
  ASSUME IndInv, UNCHANGED <<tabla, ocupado, kernelPid, kernelSig>>
  PROVE  SinMarcosCompartidos' /\ BitmapExacto' /\ Conserva
  BY DEF Conserva, IndInv, SinMarcosCompartidos, BitmapExacto, Posee, PaginasVivas

LEMMA InicioIndInv == Init => IndInv
  <1>1. 1..0 = {}
    OBVIOUS
  <1> QED
    BY <1>1, PidsAssumption
    DEF Init, IndInv, TypeOK, Control, SinMarcosCompartidos, BitmapExacto,
        BusquedaVigente, Posee, PaginasVivas, Marcos

(* One turn of liberar_tabla_paginas: the page leaves the live pages and   *)
(* its frame, which nobody else has, leaves the bitmap.                    *)
LEMMA PasoLiberarPagina == IndInv /\ LiberarPagina => IndInv' /\ Suelta
  <1> SUFFICES ASSUME IndInv, LiberarPagina PROVE IndInv' /\ Suelta
    OBVIOUS
  <1> USE DEF IndInv
  <1>1. TypeOK' /\ Control' /\ BusquedaVigente'
    BY DEF LiberarPagina, TypeOK, Control, BusquedaVigente, varsCpu
  <1> DEFINE k == kernelPid
             n == kernelSig
  <1>2. /\ k \in Pids /\ n \in Nat \ {0} /\ n <= Len(tabla[k])
        /\ tabla' = tabla /\ kernelPid' = k /\ kernelSig' = n + 1
        /\ ocupado' = ocupado \ {tabla[k][n]}
        /\ tabla \in [Pids -> Seq(Marcos)]
    BY DEF LiberarPagina, TypeOK, Control
  <1>3. \A p \in Pids : PaginasVivas(p)' =
          IF p = k THEN PaginasVivas(p) \ {n} ELSE PaginasVivas(p)
    <2> SUFFICES ASSUME NEW p \in Pids
                 PROVE  PaginasVivas(p)' = IF p = k THEN PaginasVivas(p) \ {n}
                                                    ELSE PaginasVivas(p)
      OBVIOUS
    <2>1. CASE p = k
      <3>1. Len(tabla[k]) \in Nat
        BY <1>2
      <3>2. PaginasVivas(p)' = (n + 1)..Len(tabla[k]) /\ PaginasVivas(p) = n..Len(tabla[k])
        BY <1>2, <2>1 DEF PaginasVivas
      <3> QED
        BY <1>2, <2>1, <3>1, <3>2, Intervalos
    <2>2. CASE p # k
      BY <1>2, <2>2 DEF PaginasVivas
    <2> QED
      BY <2>1, <2>2
  <1>4. n \in PaginasVivas(k)
    BY <1>2 DEF PaginasVivas
  <1>5. SinMarcosCompartidos'
    <2>1. \A p \in Pids : PaginasVivas(p)' \subseteq PaginasVivas(p)
      BY <1>3
    <2> SUFFICES ASSUME NEW p \in Pids, NEW q \in Pids,
                        NEW i \in PaginasVivas(p)', NEW j \in PaginasVivas(q)',
                        tabla'[p][i] = tabla'[q][j]
                 PROVE  p = q /\ i = j
      BY DEF SinMarcosCompartidos
    <2>2. i \in PaginasVivas(p) /\ j \in PaginasVivas(q) /\ tabla[p][i] = tabla[q][j]
      BY <1>2, <2>1
    <2> QED
      BY <2>2 DEF SinMarcosCompartidos
  <1>6. ASSUME NEW p \in Pids, NEW m \in Marcos
        PROVE  Posee(p, m)' <=> Posee(p, m) /\ m # tabla[k][n]
    <2>1. \A i \in PaginasVivas(p) :
            i \in PaginasVivas(p)' <=> tabla[p][i] # tabla[k][n]
      BY <1>2, <1>3, <1>4 DEF SinMarcosCompartidos
    <2>2. PaginasVivas(p)' \subseteq PaginasVivas(p)
      BY <1>3
    <2> QED
      BY <1>2, <2>1, <2>2 DEF Posee
  <1>7. tabla[k][n] \in Marcos /\ Posee(k, tabla[k][n])
    BY <1>2, <1>4 DEF Posee
  <1>8. Suelta
    BY <1>2, <1>6, <1>7 DEF Suelta
  <1>9. BitmapExacto'
    BY <1>2, <1>6 DEF BitmapExacto
  <1> QED
    BY <1>1, <1>5, <1>8, <1>9

(* END_PROCESS ends with no live page left in the table it destroys.       *)
LEMMA PasoTerminarFin == IndInv /\ TerminarFin => IndInv' /\ Conserva
  <1> SUFFICES ASSUME IndInv, TerminarFin PROVE IndInv' /\ Conserva
    OBVIOUS
  <1> USE DEF IndInv
  <1> DEFINE k == kernelPid
  <1>1. /\ k \in Pids /\ k # NULO /\ kernelSig > Len(tabla[k]) /\ kernelSig \in Nat
        /\ tabla \in [Pids -> Seq(Marcos)]
        /\ tabla' = [tabla EXCEPT ![k] = <<>>]
        /\ kernelPid' = NULO /\ kernelSig' = 1 /\ ocupado' = ocupado
    BY DEF TerminarFin, TypeOK, Control
  <1>2. TypeOK' /\ Control' /\ BusquedaVigente'
    BY <1>1, PidsAssumption
    DEF TerminarFin, TypeOK, Control, BusquedaVigente, varsCpu
  <1>3. \A p \in Pids : PaginasVivas(p)' = PaginasVivas(p)
    BY <1>1, PidsAssumption DEF PaginasVivas
  <1>4. PaginasVivas(k) = {}
    BY <1>1 DEF PaginasVivas
  <1>5. \A p \in Pids : p # k => tabla'[p] = tabla[p]
    BY <1>1
  <1>6. SinMarcosCompartidos'
    BY <1>3, <1>4, <1>5 DEF SinMarcosCompartidos
  <1>7. \A p \in Pids, m \in Marcos : Posee(p, m)' <=> Posee(p, m)
    BY <1>3, <1>4, <1>5 DEF Posee
  <1>8. BitmapExacto'
    BY <1>1, <1>7 DEF BitmapExacto
  <1> QED
    BY <1>2, <1>6, <1>7, <1>8 DEF Conserva

(* Growing by one page takes a frame that no live page has.                *)
LEMMA PasoAsignarPagina == IndInv /\ AsignarPagina => IndInv' /\ Toma
  <1> SUFFICES ASSUME IndInv, AsignarPagina PROVE IndInv' /\ Toma
    OBVIOUS
  <1> USE DEF IndInv
  <1> DEFINE e == enCpu
             n == Len(tabla[e])
  <1>1. /\ e \in Pids /\ e # NULO /\ e # kernelPid
        /\ tabla \in [Pids -> Seq(Marcos)] /\ n \in Nat
        /\ kernelPid' = kernelPid /\ kernelSig' = kernelSig /\ kernelSig \in Nat \ {0}
    BY DEF AsignarPagina, TypeOK, Control, varsKernel
  <1>2. PICK f \in Marcos : /\ f \notin ocupado
                            /\ ocupado' = ocupado \cup {f}
                            /\ tabla' = [tabla EXCEPT ![e] = Append(@, f)]
    BY DEF AsignarPagina, EsPrimerMarcoLibre
  <1>3. /\ tabla' \in [Pids -> Seq(Marcos)]
        /\ \A p \in Pids : p # e => tabla'[p] = tabla[p]
        /\ Len(tabla'[e]) = n + 1
        /\ \A i \in 1..n : tabla'[e][i] = tabla[e][i]
        /\ tabla'[e][n + 1] = f
    BY <1>1, <1>2, TablaConPagina
  <1>4. TypeOK' /\ Control' /\ BusquedaVigente'
    BY <1>1, <1>2, <1>3
    DEF AsignarPagina, TypeOK, Control, BusquedaVigente, varsKernel
  <1>5. \A p \in Pids : PaginasVivas(p)' =
          IF p = e THEN PaginasVivas(p) \cup {n + 1} ELSE PaginasVivas(p)
    <2> SUFFICES ASSUME NEW p \in Pids
                 PROVE  PaginasVivas(p)' = IF p = e THEN PaginasVivas(p) \cup {n + 1}
                                                    ELSE PaginasVivas(p)
      OBVIOUS
    <2>1. CASE p = e
      <3>1. PaginasVivas(p)' = 1..(n + 1) /\ PaginasVivas(p) = 1..n
        BY <1>1, <1>3, <2>1 DEF PaginasVivas
      <3> QED
        BY <1>1, <2>1, <3>1, Intervalos
    <2>2. CASE p # e
      BY <1>1, <1>3, <2>2 DEF PaginasVivas
    <2> QED
      BY <2>1, <2>2
  <1>6. PaginasVivas(e) = 1..n
    BY <1>1 DEF PaginasVivas
  <1>7. \A p \in Pids : \A i \in PaginasVivas(p) :
          tabla'[p][i] = tabla[p][i] /\ tabla[p][i] \in Marcos
    BY <1>1, <1>3, <1>6 DEF PaginasVivas
  <1>8. \A p \in Pids : \A i \in PaginasVivas(p) : tabla[p][i] # f
    BY <1>2 DEF BitmapExacto, Posee
  <1>9. SinMarcosCompartidos'
    <2> SUFFICES ASSUME NEW p \in Pids, NEW q \in Pids,
                        NEW i \in PaginasVivas(p)', NEW j \in PaginasVivas(q)',
                        tabla'[p][i] = tabla'[q][j]
                 PROVE  p = q /\ i = j
      BY DEF SinMarcosCompartidos
    <2>1. CASE i \in PaginasVivas(p) /\ j \in PaginasVivas(q)
      BY <2>1, <1>7 DEF SinMarcosCompartidos
    <2>2. CASE i \notin PaginasVivas(p) /\ j \in PaginasVivas(q)
      <3>1. p = e /\ i = n + 1
        BY <2>2, <1>5
      <3>2. tabla'[p][i] = f
        BY <3>1, <1>3
      <3>3. tabla'[q][j] = tabla[q][j]
        BY <2>2, <1>7
      <3>4. tabla[q][j] # f
        BY <2>2, <1>8
      <3> QED
        BY <3>2, <3>3, <3>4
    <2>3. CASE i \in PaginasVivas(p) /\ j \notin PaginasVivas(q)
      <3>1. q = e /\ j = n + 1
        BY <2>3, <1>5
      <3>2. tabla'[q][j] = f
        BY <3>1, <1>3
      <3>3. tabla'[p][i] = tabla[p][i]
        BY <2>3, <1>7
      <3>4. tabla[p][i] # f
        BY <2>3, <1>8
      <3> QED
        BY <3>2, <3>3, <3>4
    <2>4. CASE i \notin PaginasVivas(p) /\ j \notin PaginasVivas(q)
      BY <2>4, <1>5
    <2> QED
      BY <2>1, <2>2, <2>3, <2>4
  <1>10. ASSUME NEW p \in Pids, NEW m \in Marcos
         PROVE  Posee(p, m)' <=> Posee(p, m) \/ (p = e /\ m = f)
    <2>1. CASE p = e
      BY <1>3, <1>5, <1>7, <2>1 DEF Posee
    <2>2. CASE p # e
      BY <1>5, <1>7, <2>2 DEF Posee
    <2> QED
      BY <2>1, <2>2
  <1>11. Toma
    <2>1. \A q \in Pids : ~Posee(q, f)
      BY <1>8 DEF Posee
    <2> QED
      BY <1>1, <1>10, <2>1 DEF Toma
  <1>12. BitmapExacto'
    BY <1>1, <1>2, <1>10 DEF BitmapExacto
  <1> QED
    BY <1>4, <1>9, <1>11, <1>12

(* Shrinking by one page releases exactly the frame of the last page.      *)
LEMMA PasoReducirPagina == IndInv /\ ReducirPagina => IndInv' /\ Suelta
  <1> SUFFICES ASSUME IndInv, ReducirPagina PROVE IndInv' /\ Suelta
    OBVIOUS
  <1> USE DEF IndInv
  <1> DEFINE e == enCpu
             n == Len(tabla[e])
  <1>1. /\ e \in Pids /\ e # NULO /\ e # kernelPid
        /\ tabla \in [Pids -> Seq(Marcos)] /\ n \in Nat /\ n > 0
        /\ kernelPid' = kernelPid /\ kernelSig' = kernelSig /\ kernelSig \in Nat \ {0}
        /\ ocupado' = ocupado \ {tabla[e][n]}
        /\ tabla' = [tabla EXCEPT ![e] = SubSeq(@, 1, n - 1)]
    BY DEF ReducirPagina, TypeOK, Control, varsKernel
  <1>2. /\ tabla' \in [Pids -> Seq(Marcos)]
        /\ \A p \in Pids : p # e => tabla'[p] = tabla[p]
        /\ Len(tabla'[e]) = n - 1
        /\ \A i \in 1..(n - 1) : tabla'[e][i] = tabla[e][i]
    BY <1>1, TablaSinUltima
  <1>3. TypeOK' /\ Control' /\ BusquedaVigente'
    BY <1>1, <1>2
    DEF ReducirPagina, TypeOK, Control, BusquedaVigente, varsKernel
  <1>4. \A p \in Pids : PaginasVivas(p)' =
          IF p = e THEN PaginasVivas(p) \ {n} ELSE PaginasVivas(p)
    <2> SUFFICES ASSUME NEW p \in Pids
                 PROVE  PaginasVivas(p)' = IF p = e THEN PaginasVivas(p) \ {n}
                                                    ELSE PaginasVivas(p)
      OBVIOUS
    <2>1. CASE p = e
      <3>1. PaginasVivas(p)' = 1..(n - 1) /\ PaginasVivas(p) = 1..n
        BY <1>1, <1>2, <2>1 DEF PaginasVivas
      <3> QED
        BY <1>1, <2>1, <3>1, Intervalos
    <2>2. CASE p # e
      BY <1>1, <1>2, <2>2 DEF PaginasVivas
    <2> QED
      BY <2>1, <2>2
  <1>5. PaginasVivas(e) = 1..n
    BY <1>1 DEF PaginasVivas
  <1>6. \A p \in Pids : \A i \in PaginasVivas(p)' : tabla'[p][i] = tabla[p][i]
    BY <1>1, <1>2, <1>4, <1>5
  <1>7. SinMarcosCompartidos'
    BY <1>4, <1>6 DEF SinMarcosCompartidos
  <1>8. n \in PaginasVivas(e)
    BY <1>1, <1>5
  <1>9. ASSUME NEW p \in Pids, NEW m \in Marcos
        PROVE  Posee(p, m)' <=> Posee(p, m) /\ m # tabla[e][n]
    <2>1. \A i \in PaginasVivas(p) :
            i \in PaginasVivas(p)' <=> tabla[p][i] # tabla[e][n]
      BY <1>1, <1>4, <1>8 DEF SinMarcosCompartidos
    <2>2. PaginasVivas(p)' \subseteq PaginasVivas(p)
      BY <1>4
    <2> QED
      BY <1>6, <2>1, <2>2 DEF Posee
  <1>10. tabla[e][n] \in Marcos /\ Posee(e, tabla[e][n])
    BY <1>1, <1>8 DEF Posee
  <1>11. Suelta
    BY <1>1, <1>9, <1>10 DEF Suelta
  <1>12. BitmapExacto'
    BY <1>1, <1>9 DEF BitmapExacto
  <1> QED
    BY <1>3, <1>7, <1>11, <1>12

(* A resize request only sets up its loop; the number of pages to remove   *)
(* never exceeds the pages there are.                                      *)
LEMMA PasoAjustarTamanio ==
  ASSUME NEW t \in Tamanios PROVE IndInv /\ AjustarTamanio(t) => IndInv' /\ Conserva
  <1> SUFFICES ASSUME IndInv, AjustarTamanio(t) PROVE IndInv' /\ Conserva
    OBVIOUS
  <1> USE DEF IndInv
  <1> DEFINE n == Len(tabla[enCpu])
  <1>1. /\ t \in Nat /\ n \in Nat /\ TAM_PAGINA \in Nat \ {0}
        /\ TamanioActual = n * TAM_PAGINA
        /\ UNCHANGED <<tabla, ocupado, kernelOp, kernelPid, kernelSig, enCpu, creados, procesos>>
        /\ enCpu \in Pids /\ enCpu # NULO
        /\ cpuPedido' = t /\ respuesta' = "ninguna"
    BY TamaniosAssumption, PaginaAssumption
    DEF AjustarTamanio, PaginasFaltantes, PaginasSobrantes, TypeOK, TamanioActual, varsKernel
  <1>2. n * TAM_PAGINA \in Nat
    BY <1>1
  <1>0. t \in Nat /\ TamanioActual \in Nat
    BY <1>1, <1>2
  <1> DEFINE falta == t - TamanioActual + TAM_PAGINA - 1
             sobra == TamanioActual - t
  <1>3. \/ cpuOp' = "ampliar" /\ cpuPaginas' \in Nat
        \/ cpuOp' = "reducir" /\ cpuPaginas' \in Nat /\ cpuPaginas' <= n
    <2>1. CASE t > TamanioActual
      <3>1. falta \in Nat
        BY <1>1, <1>2, <2>1
      <3>2. cpuOp' = "ampliar" /\ cpuPaginas' = falta \div TAM_PAGINA
        BY <1>0, <2>1 DEF AjustarTamanio, PaginasFaltantes, PaginasSobrantes
      <3> HIDE DEF falta
      <3> QED
        BY <1>1, <3>1, <3>2, CotaCociente
    <2>2. CASE t <= TamanioActual
      <3>1. sobra \in Nat /\ sobra <= n * TAM_PAGINA
        BY <1>1, <1>2, <2>2
      <3>2. cpuOp' = "reducir" /\ cpuPaginas' = sobra \div TAM_PAGINA
        BY <1>0, <2>2 DEF AjustarTamanio, PaginasFaltantes, PaginasSobrantes
      <3> HIDE DEF sobra, n
      <3> QED
        BY <1>1, <3>1, <3>2, CotaCociente
    <2> QED
      BY <1>1, <1>2, <2>1, <2>2
  <1>4. TypeOK' /\ Control' /\ BusquedaVigente'
    BY <1>1, <1>3 DEF TypeOK, Control, BusquedaVigente
  <1> QED
    BY <1>1, <1>4, SinCambioDeMarcos

(* END_PROCESS starts at the first page, with every page still live.       *)
LEMMA PasoFinProceso ==
  ASSUME NEW p \in Pids PROVE IndInv /\ FinProceso(p) => IndInv' /\ Conserva
  <1> SUFFICES ASSUME IndInv, FinProceso(p) PROVE IndInv' /\ Conserva
    OBVIOUS
  <1> USE DEF IndInv
  <1>1. TypeOK' /\ Control' /\ BusquedaVigente'
    BY PidsAssumption DEF FinProceso, TypeOK, Control, BusquedaVigente, varsCpu
  <1>2. \A q \in Pids : PaginasVivas(q)' = PaginasVivas(q)
    BY PidsAssumption DEF FinProceso, TypeOK, Control, PaginasVivas
  <1>3. tabla' = tabla /\ ocupado' = ocupado
    BY DEF FinProceso
  <1>4. SinMarcosCompartidos' /\ BitmapExacto' /\ Conserva
    BY <1>2, <1>3 DEF Conserva, SinMarcosCompartidos, BitmapExacto, Posee
  <1> QED
    BY <1>1, <1>4

LEMMA PasoIndInv == IndInv /\ [Next]_vars => IndInv' /\ (Suelta \/ Toma \/ Conserva)
  <1> SUFFICES ASSUME IndInv, [Next]_vars PROVE IndInv' /\ (Suelta \/ Toma \/ Conserva)
    OBVIOUS
  <1>1. CASE \E p \in Pids : CrearProceso(p)
    <2>1. UNCHANGED <<tabla, ocupado, kernelPid, kernelSig>>
      BY <1>1 DEF CrearProceso, varsKernel
    <2>2. TypeOK' /\ Control' /\ BusquedaVigente'
      BY <1>1 DEF IndInv, CrearProceso, TypeOK, Control, BusquedaVigente, varsCpu, varsKernel
    <2> QED
      BY <2>1, <2>2, SinCambioDeMarcos DEF IndInv
  <1>2. CASE \E p \in Pids : FinProceso(p)
    BY <1>2, PasoFinProceso
  <1>3. CASE \E p \in Pids : Despachar(p)
    <2>1. UNCHANGED <<tabla, ocupado, kernelPid, kernelSig>>
      BY <1>3 DEF Despachar, varsKernel
    <2>2. TypeOK' /\ Control' /\ BusquedaVigente'
      BY <1>3 DEF IndInv, Despachar, TypeOK, Control, BusquedaVigente, varsCpu, varsKernel
    <2> QED
      BY <2>1, <2>2, SinCambioDeMarcos DEF IndInv
  <1>4. CASE Desalojar
    <2>1. UNCHANGED <<tabla, ocupado, kernelPid, kernelSig>>
      BY <1>4 DEF Desalojar, varsKernel
    <2>2. TypeOK' /\ Control' /\ BusquedaVigente'
      BY <1>4 DEF IndInv, Desalojar, TypeOK, Control, BusquedaVigente, varsKernel
    <2> QED
      BY <2>1, <2>2, SinCambioDeMarcos DEF IndInv
  <1>5. CASE \E t \in Tamanios : AjustarTamanio(t)
    BY <1>5, PasoAjustarTamanio
  <1>6. CASE LiberarPagina
    BY <1>6, PasoLiberarPagina
  <1>7. CASE TerminarFin
    BY <1>7, PasoTerminarFin
  <1>8. CASE HayMarco \/ SinMarcos \/ ResponderOK
    <2>1. UNCHANGED <<tabla, ocupado, kernelPid, kernelSig>>
      BY <1>8 DEF HayMarco, SinMarcos, ResponderOK, varsKernel
    <2>2. TypeOK' /\ Control' /\ BusquedaVigente'
      BY <1>8 DEF IndInv, HayMarco, SinMarcos, ResponderOK, TypeOK, Control,
                  BusquedaVigente, varsKernel
    <2> QED
      BY <2>1, <2>2, SinCambioDeMarcos DEF IndInv
  <1>9. CASE AsignarPagina
    BY <1>9, PasoAsignarPagina
  <1>10. CASE ReducirPagina
    BY <1>10, PasoReducirPagina
  <1>11. CASE UNCHANGED vars
    <2>1. UNCHANGED <<tabla, ocupado, kernelPid, kernelSig>>
      BY <1>11 DEF vars, varsKernel
    <2>2. TypeOK' /\ Control' /\ BusquedaVigente'
      BY <1>11 DEF IndInv, vars, varsCpu, varsKernel, TypeOK, Control, BusquedaVigente
    <2> QED
      BY <2>1, <2>2, SinCambioDeMarcos DEF IndInv
  <1> QED
    BY <1>1, <1>2, <1>3, <1>4, <1>5, <1>6, <1>7, <1>8, <1>9, <1>10, <1>11
    DEF Next, HiloKernel, HiloCpu

LEMMA SiempreIndInv == Spec => []IndInv
  BY InicioIndInv, PasoIndInv, PTL DEF Spec

-----------------------------------------------------------------------------
(* The variables stay in their types: in particular no page table ever     *)
(* holds -1 or a frame beyond the physical memory.                         *)
THEOREM TiposDeMemoria == Spec => []TypeOK
  <1>1. IndInv => TypeOK
    BY DEF IndInv
  <1> QED
    BY <1>1, SiempreIndInv, PTL

(* No frame ever backs two live pages, although the thread that resizes    *)
(* and the thread that frees share the bitmap without a mutex.             *)
THEOREM MarcosExclusivos == Spec => []SinMarcosCompartidos
  <1>1. IndInv => SinMarcosCompartidos
    BY DEF IndInv
  <1> QED
    BY <1>1, SiempreIndInv, PTL

(* The bitmap is exact: no frame in use is marked free, none is leaked.    *)
THEOREM BitmapSiempreExacto == Spec => []BitmapExacto
  <1>1. IndInv => BitmapExacto
    BY DEF IndInv
  <1> QED
    BY <1>1, SiempreIndInv, PTL

(* The second search of the growing loop finds a frame whenever the first  *)
(* one did: obtener_primer_marco_libre does not return -1 to               *)
(* inicializar_pagina.                                                     *)
THEOREM BusquedaSiempreVigente == Spec => []BusquedaVigente
  <1>1. IndInv => BusquedaVigente
    BY DEF IndInv
  <1> QED
    BY <1>1, SiempreIndInv, PTL

-----------------------------------------------------------------------------
(* A frame that p has is owned by p in the abstract state.                 *)
LEMMA DuenioUnico ==
  ASSUME IndInv
  PROVE  /\ \A p \in Pids, m \in Marcos : Posee(p, m) => Duenio[m] = p
         /\ \A m \in Marcos : (\A p \in Pids : ~Posee(p, m)) => Duenio[m] = NULO
  <1>1. ASSUME NEW p \in Pids, NEW m \in Marcos, Posee(p, m) PROVE Duenio[m] = p
    <2>1. \A q \in Pids : Posee(q, m) => q = p
      BY <1>1 DEF IndInv, SinMarcosCompartidos, Posee
    <2> QED
      BY <1>1, <2>1 DEF Duenio
  <1>2. ASSUME NEW m \in Marcos, \A p \in Pids : ~Posee(p, m) PROVE Duenio[m] = NULO
    BY <1>2 DEF Duenio
  <1> QED
    BY <1>1, <1>2

(* Each of the three effects is a step of the abstract specification, or   *)
(* none at all.                                                            *)
LEMMA PasoAsignacion ==
  ASSUME IndInv, IndInv', Suelta \/ Toma \/ Conserva
  PROVE  [Asignacion!Next]_Duenio
  <1>1. \A m \in Marcos : Duenio[m] \in Pids => Posee(Duenio[m], m)
    BY PidsAssumption DEF Duenio
  <1>2. \A m \in Marcos : Duenio[m] \notin Pids =>
          Duenio[m] = NULO /\ \A p \in Pids : ~Posee(p, m)
    BY DEF Duenio
  <1>3. /\ \A p \in Pids, m \in Marcos : Posee(p, m)' => Duenio'[m] = p
        /\ \A m \in Marcos : (\A p \in Pids : ~Posee(p, m)') => Duenio'[m] = NULO
    <2>1. ASSUME NEW p \in Pids, NEW m \in Marcos, Posee(p, m)' PROVE Duenio'[m] = p
      <3>1. \A q \in Pids : Posee(q, m)' => q = p
        BY <2>1 DEF IndInv, SinMarcosCompartidos, Posee
      <3> QED
        BY <2>1, <3>1 DEF Duenio, Marcos
    <2>2. ASSUME NEW m \in Marcos, \A p \in Pids : ~Posee(p, m)' PROVE Duenio'[m] = NULO
      BY <2>2 DEF Duenio, Marcos
    <2> QED
      BY <2>1, <2>2
  <1>4. Duenio = [m \in Marcos |-> Duenio[m]] /\ Duenio' = [m \in Marcos |-> Duenio'[m]]
    BY DEF Duenio, Marcos
  <1>5. CASE Conserva
    <2>1. \A m \in Marcos : Duenio'[m] = Duenio[m]
      BY <1>1, <1>2, <1>3, <1>5 DEF Conserva
    <2> QED
      BY <1>4, <2>1
  <1>6. CASE Suelta
    <2>1. PICK p \in Pids, f \in Marcos :
            /\ Posee(p, f)
            /\ \A q \in Pids, m \in Marcos : Posee(q, m)' <=> Posee(q, m) /\ m # f
      BY <1>6 DEF Suelta
    <2>2. Duenio[f] = p
      BY <2>1, DuenioUnico
    <2>3. Duenio'[f] = NULO /\ \A m \in Marcos \ {f} : Duenio'[m] = Duenio[m]
      BY <1>1, <1>2, <1>3, <2>1
    <2>4. Duenio' = [Duenio EXCEPT ![f] = NULO]
      BY <1>4, <2>3
    <2> QED
      BY <2>2, <2>4 DEF Asignacion!Next, Asignacion!Devolver
  <1>7. CASE Toma
    <2>1. PICK p \in Pids, f \in Marcos :
            /\ \A q \in Pids : ~Posee(q, f)
            /\ \A q \in Pids, m \in Marcos :
                 Posee(q, m)' <=> Posee(q, m) \/ (q = p /\ m = f)
      BY <1>7 DEF Toma
    <2>2. Duenio[f] = NULO
      BY <2>1, DuenioUnico
    <2>3. Duenio'[f] = p /\ \A m \in Marcos \ {f} : Duenio'[m] = Duenio[m]
      BY <1>1, <1>2, <1>3, <2>1
    <2>4. Duenio' = [Duenio EXCEPT ![f] = p]
      BY <1>4, <2>3
    <2> QED
      BY <2>2, <2>4 DEF Asignacion!Next, Asignacion!Tomar
  <1> QED
    BY <1>5, <1>6, <1>7

(* memoria implements the abstract ownership of frames: a frame never      *)
(* passes from one process to another without having been free.            *)
THEOREM ImplementaAsignacion == Spec => AsignacionSpec
  <1>1. Init => Asignacion!Init
    <2> SUFFICES ASSUME Init PROVE Asignacion!Init
      OBVIOUS
    <2>1. \A p \in Pids, m \in Marcos : ~Posee(p, m)
      BY InicioIndInv DEF IndInv, BitmapExacto, Init
    <2> QED
      BY <2>1 DEF Asignacion!Init, Duenio
  <1>2. IndInv /\ IndInv' /\ [Next]_vars => [Asignacion!Next]_Duenio
    BY PasoIndInv, PasoAsignacion
  <1> QED
    BY <1>1, <1>2, SiempreIndInv, PTL DEF Spec, AsignacionSpec, Asignacion!Spec
-----------------------------------------------------------------------------
(* The two roundings of a resize: the pages to add are the quotient        *)
(* rounded up, the pages to remove the quotient rounded down.              *)
LEMMA Redondeos ==
  ASSUME NEW T \in Nat \ {0}, NEW x \in Nat
  PROVE  /\ x <= ((x + T - 1) \div T) * T
         /\ ((x + T - 1) \div T) * T < x + T
         /\ (x \div T) * T <= x
         /\ x < (x \div T) * T + T
  OBVIOUS

LEMMA ProductoDeSuma ==
  ASSUME NEW T \in Nat, NEW a \in Nat, NEW b \in Nat
  PROVE  /\ a * T \in Nat
         /\ (a + b) * T = a * T + b * T
         /\ (a - b) * T = a * T - b * T
  OBVIOUS

(* n pages hold the size asked for, and none of them is superfluous.       *)
Encaja(n) == cpuPedido <= n * TAM_PAGINA /\ n * TAM_PAGINA < cpuPedido + TAM_PAGINA

(* Where the loop in progress will leave the table when its count is zero. *)
Rumbo ==
  /\ cpuOp \in {"ampliar", "asignar"} => Encaja(Len(tabla[enCpu]) + cpuPaginas)
  /\ cpuOp = "reducir" => Encaja(Len(tabla[enCpu]) - cpuPaginas)

(* The steps that leave alone the resize in progress and its table.        *)
LEMMA RumboAjeno ==
  ASSUME Rumbo, UNCHANGED <<cpuPaginas, cpuPedido>>,
         cpuOp' # "libre" => tabla'[enCpu'] = tabla[enCpu],
         \/ cpuOp' = cpuOp
         \/ cpuOp = "ampliar" /\ cpuOp' = "asignar"
         \/ cpuOp' = "libre"
  PROVE  Rumbo'
  BY DEF Rumbo, Encaja

(* The request computes the number of pages that makes the size fit.       *)
LEMMA RumboAjustar ==
  ASSUME NEW t \in Tamanios, IndInv, AjustarTamanio(t) PROVE Rumbo'
  <1> DEFINE n == Len(tabla[enCpu])
             T == TAM_PAGINA
  <1>1. /\ t \in Nat /\ n \in Nat /\ T \in Nat \ {0}
        /\ TamanioActual = n * T
        /\ UNCHANGED <<tabla, enCpu>>
        /\ cpuPedido' = t
    BY TamaniosAssumption, PaginaAssumption
    DEF IndInv, TypeOK, AjustarTamanio, TamanioActual
  <1>2. n * T \in Nat
    BY <1>1, ProductoDeSuma
  <1>0. t \in Nat /\ TamanioActual \in Nat
    BY <1>1, <1>2
  <1>3. CASE t > TamanioActual
    <2> DEFINE x == t - TamanioActual
               k == (x + T - 1) \div T
    <2>1. x \in Nat /\ x + T - 1 \in Nat
      BY <1>1, <1>2, <1>3
    <2>2. cpuOp' = "ampliar" /\ cpuPaginas' = k
      BY <1>0, <1>3 DEF AjustarTamanio, PaginasFaltantes
    <2>3. k \in Nat /\ x <= k * T /\ k * T < x + T
      <3> HIDE DEF x
      <3> QED
        BY <1>1, <2>1, Redondeos, CotaCociente
    <2>4. (n + k) * T = n * T + k * T /\ k * T \in Nat
      <3> HIDE DEF k, n
      <3> QED
        BY <1>1, <2>3, ProductoDeSuma
    <2> DEFINE kT == k * T
               nT == n * T
               total == (n + k) * T
    <2>5. t <= total /\ total < t + T
      <3>1. t \in Nat /\ T \in Nat /\ nT \in Nat /\ kT \in Nat /\ total = nT + kT
            /\ t - nT <= kT /\ kT < t - nT + T
        BY <1>1, <1>2, <2>3, <2>4
      <3> HIDE DEF total, kT, nT
      <3> QED
        BY <3>1
    <2>6. Len(tabla[enCpu])' + cpuPaginas' = n + k
      BY <1>1, <2>2
    <2> HIDE DEF k, n
    <2> QED
      BY <1>1, <2>2, <2>5, <2>6 DEF Rumbo, Encaja
  <1>4. CASE t <= TamanioActual
    <2> DEFINE x == TamanioActual - t
               k == x \div T
    <2>1. x \in Nat
      BY <1>1, <1>2, <1>4
    <2>2. cpuOp' = "reducir" /\ cpuPaginas' = k
      BY <1>0, <1>4 DEF AjustarTamanio, PaginasSobrantes
    <2>3. k \in Nat /\ k * T <= x /\ x < k * T + T
      <3> HIDE DEF x
      <3> QED
        BY <1>1, <2>1, Redondeos, CotaCociente
    <2>4. (n - k) * T = n * T - k * T /\ k * T \in Nat
      <3> HIDE DEF k, n
      <3> QED
        BY <1>1, <2>3, ProductoDeSuma
    <2> DEFINE kT == k * T
               nT == n * T
               total == (n - k) * T
    <2>5. t <= total /\ total < t + T
      <3>1. t \in Nat /\ T \in Nat /\ nT \in Nat /\ kT \in Nat /\ total = nT - kT
            /\ kT <= nT - t /\ nT - t < kT + T
        BY <1>1, <1>2, <2>3, <2>4
      <3> HIDE DEF total, kT, nT
      <3> QED
        BY <3>1
    <2>6. Len(tabla[enCpu])' - cpuPaginas' = n - k
      BY <1>1, <2>2
    <2> HIDE DEF k, n
    <2> QED
      BY <1>1, <2>2, <2>5, <2>6 DEF Rumbo, Encaja
  <1> QED
    BY <1>1, <1>2, <1>3, <1>4

(* A turn of either loop moves one page from the count to the table.       *)
LEMMA RumboTurno ==
  ASSUME IndInv, Rumbo, AsignarPagina \/ ReducirPagina PROVE Rumbo'
  <1> DEFINE n == Len(tabla[enCpu])
  <1>1. /\ enCpu \in Pids /\ tabla \in [Pids -> Seq(Marcos)]
        /\ tabla[enCpu] \in Seq(Marcos) /\ n \in Nat /\ cpuPaginas \in Nat
        /\ UNCHANGED <<enCpu, cpuPedido>>
        /\ cpuPaginas' = cpuPaginas - 1
    BY DEF IndInv, TypeOK, Control, AsignarPagina, ReducirPagina
  <1>2. CASE AsignarPagina
    <2>1. PICK m \in Marcos : tabla' = [tabla EXCEPT ![enCpu] = Append(@, m)]
      BY <1>2 DEF AsignarPagina
    <2>2. Len(tabla'[enCpu]) = n + 1
      BY <1>1, <2>1, TablaConPagina
    <2>3. Len(tabla'[enCpu']) + cpuPaginas' = n + cpuPaginas
      BY <1>1, <2>2
    <2>4. cpuOp = "asignar" /\ cpuOp' = "ampliar"
      BY <1>2 DEF AsignarPagina
    <2> QED
      BY <1>1, <2>3, <2>4 DEF Rumbo, Encaja
  <1>3. CASE ReducirPagina
    <2>1. /\ tabla' = [tabla EXCEPT ![enCpu] = SubSeq(@, 1, n - 1)]
          /\ n > 0 /\ cpuOp = "reducir" /\ cpuOp' = "reducir"
      BY <1>1, <1>3 DEF ReducirPagina, IndInv, Control
    <2>2. Len(tabla'[enCpu]) = n - 1
      BY <1>1, <2>1, TablaSinUltima
    <2>3. Len(tabla'[enCpu']) - cpuPaginas' = n - cpuPaginas
      BY <1>1, <2>2
    <2> QED
      BY <1>1, <2>1, <2>3 DEF Rumbo, Encaja
  <1> QED
    BY <1>2, <1>3

LEMMA PasoRumbo == IndInv /\ Rumbo /\ [Next]_vars => Rumbo'
  <1> SUFFICES ASSUME IndInv, Rumbo, [Next]_vars PROVE Rumbo'
    OBVIOUS
  <1>1. CASE \E p \in Pids : CrearProceso(p) \/ FinProceso(p)
    BY <1>1, RumboAjeno DEF CrearProceso, FinProceso, varsCpu
  <1>2. CASE \E p \in Pids : Despachar(p)
    BY <1>2, RumboAjeno DEF Despachar, varsCpu, IndInv, Control
  <1>3. CASE Desalojar \/ HayMarco
    BY <1>3, RumboAjeno DEF Desalojar, HayMarco
  <1>4. CASE SinMarcos \/ ResponderOK
    BY <1>4 DEF SinMarcos, ResponderOK, Rumbo
  <1>5. CASE \E t \in Tamanios : AjustarTamanio(t)
    BY <1>5, RumboAjustar
  <1>6. CASE AsignarPagina \/ ReducirPagina
    BY <1>6, RumboTurno
  <1>7. CASE LiberarPagina \/ UNCHANGED vars
    BY <1>7, RumboAjeno DEF LiberarPagina, vars, varsCpu
  <1>8. CASE TerminarFin
    <2>1. cpuOp # "libre" => enCpu \in Pids /\ enCpu # kernelPid
      BY <1>8 DEF TerminarFin, IndInv, TypeOK, Control
    <2>2. cpuOp # "libre" => tabla'[enCpu] = tabla[enCpu]
      BY <1>8, <2>1 DEF TerminarFin, IndInv, TypeOK
    <2> QED
      BY <1>8, <2>2, RumboAjeno DEF TerminarFin, varsCpu
  <1> QED
    BY <1>1, <1>2, <1>3, <1>4, <1>5, <1>6, <1>7, <1>8
    DEF Next, HiloKernel, HiloCpu

(* OK is only sent when the count is zero: the table then fits the size.   *)
LEMMA PasoRespuesta ==
  ASSUME IndInv, Rumbo, [Next]_vars, respuesta' = "OK", respuesta # "OK"
  PROVE  cpuPedido <= TamanioActual' /\ TamanioActual' < cpuPedido + TAM_PAGINA
  <1>1. ResponderOK
    BY DEF Next, HiloKernel, HiloCpu, CrearProceso, FinProceso, Despachar, Desalojar,
           AjustarTamanio, LiberarPagina, TerminarFin, HayMarco, SinMarcos,
           AsignarPagina, ReducirPagina, vars, varsCpu
  <1>2. /\ cpuOp \in {"ampliar", "reducir"} /\ cpuPaginas = 0
        /\ tabla' = tabla /\ enCpu' = enCpu
        /\ enCpu \in Pids /\ tabla[enCpu] \in Seq(Marcos) /\ Len(tabla[enCpu]) \in Nat
    BY <1>1 DEF ResponderOK, IndInv, TypeOK, Control
  <1>3. /\ Len(tabla[enCpu]) + cpuPaginas = Len(tabla[enCpu])
        /\ Len(tabla[enCpu]) - cpuPaginas = Len(tabla[enCpu])
    BY <1>2
  <1>4. Encaja(Len(tabla[enCpu]))
    BY <1>2, <1>3 DEF Rumbo
  <1> QED
    BY <1>2, <1>4 DEF Encaja, TamanioActual

(* A resize is answered OK only when the table holds the size asked for    *)
(* with no superfluous page, although the kernel's thread frees tables in  *)
(* between and the two directions round differently.                       *)
THEOREM TamanioRespondido == Spec => TamanioPedido
  <1>1. Init => Rumbo
    BY DEF Init, Rumbo
  <1>2. IndInv /\ Rumbo /\ [Next]_vars =>
          (respuesta' = "OK" /\ respuesta # "OK" =>
             cpuPedido <= TamanioActual' /\ TamanioActual' < cpuPedido + TAM_PAGINA)
    BY PasoRespuesta
  <1> QED
    BY <1>1, <1>2, PasoRumbo, SiempreIndInv, PTL DEF Spec, TamanioPedido
=============================================================================
