---------------------------- MODULE DialFSProofs ----------------------------
(***************************************************************************)
(* DialFS: its types, and what a crash and a compaction leave of the disk. *)
(*                                                                         *)
(* A request in progress is described by what it will leave: "Futura", the *)
(* blocks of its file when its last write is done.  Until then the other   *)
(* files keep theirs, what is still to be freed belongs to none of them,   *)
(* and what is still missing from the bitmap is still to be assigned.  A   *)
(* compaction is described by the files that its loops have freed and by   *)
(* those they have packed.                                                 *)
(***************************************************************************)
EXTENDS DialFS, FiniteSetTheorems, WellFoundedInduction, TLAPS

Acciones == {"asignar", "liberar", "crear", "desvincular", "inicial", "tamanio", "copiar",
             "reverificar"}
Pasos == [accion : Acciones, archivo : Archivos, valor : Nat]
Metadatas(m) ==
  DOMAIN m \subseteq Archivos /\ \A f \in DOMAIN m : m[f] \in [inicial : Nat, tamanio : Nat]

-----------------------------------------------------------------------------
(* Blocks of a size.                                                       *)

LEMMA Division ==
  ASSUME NEW a \in Int, NEW b \in Nat \ {0}
  PROVE  /\ a \div b \in Int
         /\ b * (a \div b) <= a
         /\ a < b * (a \div b) + b
         /\ a >= 0 => a \div b >= 0
  OBVIOUS

LEMMA DivisionCrece ==
  ASSUME NEW a \in Int, NEW c \in Int, a <= c, NEW b \in Nat \ {0}
  PROVE  a \div b <= c \div b
  <1>1. PICK p \in Int : p = a \div b /\ b * p <= a
    BY Division
  <1>2. PICK q \in Int : q = c \div b /\ c < b * q + b
    BY Division
  <1>3. ASSUME p > q PROVE FALSE
    <2>1. PICK d \in Nat : p = q + 1 + d
      BY <1>3
    <2>2. b * p = b * q + b + b * d /\ b * d >= 0
      BY <2>1
    <2> QED
      BY <1>1, <1>2, <2>2
  <1> QED
    BY <1>1, <1>2, <1>3

LEMMA DivisionSalta ==
  ASSUME NEW a \in Int, NEW b \in Nat \ {0}
  PROVE  (a + b) \div b = a \div b + 1
  <1>1. PICK p \in Int : p = a \div b /\ b * p <= a /\ a < b * p + b
    BY Division
  <1>2. PICK q \in Int : q = (a + b) \div b /\ b * q <= a + b /\ a + b < b * q + b
    BY Division
  <1>3. ASSUME q > p + 1 PROVE FALSE
    <2>1. PICK d \in Nat : q = p + 2 + d
      BY <1>3
    <2>2. b * q = b * p + b + b + b * d /\ b * d >= 0
      BY <2>1
    <2> QED
      BY <1>1, <1>2, <2>2
  <1>4. ASSUME q < p + 1 PROVE FALSE
    <2>1. PICK d \in Nat : p = q + d
      BY <1>4
    <2>2. b * p = b * q + b * d /\ b * d >= 0
      BY <2>1
    <2> QED
      BY <1>1, <1>2, <2>2
  <1>5. q = p + 1
    BY <1>3, <1>4
  <1>6. a \div b = p /\ (a + b) \div b = q
    BY <1>1, <1>2
  <1> QED
    BY <1>5, <1>6

LEMMA Techos ==
  ASSUME NEW t \in Nat
  PROVE  /\ Techo(t) \in Nat
         /\ t > 0 => Techo(t) > 0 /\ (t - 1) \div block_size = Techo(t) - 1
         /\ t > 0 /\ t <= block_size => Techo(t) = 1
         /\ t < block_size => t \div block_size = 0
         /\ t = block_size => t \div block_size = 1
         /\ t = 0 => Techo(t) = 0
  <1> USE BloquesAssumption
  <1>1. Techo(t) \in Nat
    BY Division DEF Techo
  <1>2. (t - 1) \div block_size + 1 = Techo(t)
    <2>1. (t - 1) + block_size = t + block_size - 1 /\ t - 1 \in Int
      OBVIOUS
    <2>2. ((t - 1) + block_size) \div block_size = (t - 1) \div block_size + 1
      BY <2>1, DivisionSalta
    <2>3. Techo(t) = (t + block_size - 1) \div block_size
      BY DEF Techo
    <2> QED
      BY <2>1, <2>2, <2>3
  <1>3. (t - 1) \div block_size \in Int /\ (t > 0 => (t - 1) \div block_size >= 0)
    BY Division
  <1>4. ASSUME NEW a \in Nat, a < block_size PROVE a \div block_size = 0
    BY <1>4
  <1>5. block_size \div block_size = 1
    BY <1>4, DivisionSalta
  <1>6. t > 0 /\ t <= block_size => (t - 1) \div block_size = 0
    BY <1>4
  <1>7. t = 0 => Techo(t) = 0
    BY <1>4 DEF Techo
  <1> QED
    BY <1>1, <1>2, <1>3, <1>4, <1>5, <1>6, <1>7

LEMMA TechosCrecen ==
  ASSUME NEW t \in Nat, NEW u \in Nat, t <= u
  PROVE  Techo(t) <= Techo(u)
  BY BloquesAssumption, DivisionCrece DEF Techo

LEMMA Tamanos ==
  ASSUME NEW t \in Nat
  PROVE  /\ BloquesDe(t) \in Nat /\ BloquesDe(t) > 0
         /\ t > 0 => BloquesDe(t) = Techo(t)
         /\ t <= block_size => BloquesDe(t) = 1
         /\ BloquesDe(t) >= Techo(t)
  BY Techos DEF BloquesDe

-----------------------------------------------------------------------------
(* The writes that are left: the last one, and the blocks of one kind.     *)

Ultimo(s) == s[Len(s)]
Valores(s, a) == {s[k].valor : k \in {j \in DOMAIN s : s[j].accion = a}}

\* The first write is done.
LEMMA Avance ==
  ASSUME NEW s \in Seq(Pasos), s # <<>>
  PROVE  /\ Len(s) \in Nat \ {0} /\ DOMAIN s = 1 .. Len(s)
         /\ Head(s) = s[1] /\ Head(s) \in Pasos /\ Ultimo(s) \in Pasos
         /\ Tail(s) \in Seq(Pasos) /\ Len(Tail(s)) = Len(s) - 1
         /\ \A k \in 1 .. Len(s) - 1 : Tail(s)[k] = s[k + 1]
         /\ Len(s) > 1 => Tail(s) # <<>> /\ Ultimo(Tail(s)) = Ultimo(s)
         /\ Len(s) = 1 => Tail(s) = <<>> /\ Ultimo(s) = Head(s) /\ s = <<Head(s)>>
  <1>1. /\ Len(s) \in Nat \ {0} /\ DOMAIN s = 1 .. Len(s)
        /\ Head(s) = s[1] /\ \A k \in 1 .. Len(s) : s[k] \in Pasos
    OBVIOUS
  <1>2. /\ Tail(s) \in Seq(Pasos) /\ Len(Tail(s)) = Len(s) - 1
        /\ \A k \in 1 .. Len(s) - 1 : Tail(s)[k] = s[k + 1]
    OBVIOUS
  <1>5. Len(s) = 1 => s = <<Head(s)>>
    OBVIOUS
  <1>6. Head(s) \in Pasos /\ Ultimo(s) \in Pasos
    BY <1>1 DEF Ultimo
  <1>7. \A q \in Seq(Pasos) : q = <<>> <=> Len(q) = 0
    OBVIOUS
  <1> DEFINE n == Len(s)
             r == Tail(s)
  <1>8. n \in Nat \ {0} /\ Len(r) = n - 1 /\ \A k \in 1 .. n - 1 : r[k] = s[k + 1]
    BY <1>1, <1>2
  <1>9. r = <<>> <=> n = 1
    <2>1. r \in Seq(Pasos)
      BY <1>2
    <2> HIDE DEF n, r
    <2> QED
      BY <1>7, <1>8, <2>1
  <1> HIDE DEF r, n
  <1>10. n > 1 => r[n - 1] = s[n]
    BY <1>8
  <1>11. Len(s) > 1 => Tail(s) # <<>> /\ Ultimo(Tail(s)) = Ultimo(s)
    BY <1>8, <1>9, <1>10 DEF Ultimo, n, r
  <1>12. Len(s) = 1 => Tail(s) = <<>> /\ Ultimo(s) = Head(s)
    BY <1>1, <1>9 DEF Ultimo, n, r
  <1> QED
    BY <1>1, <1>2, <1>5, <1>6, <1>11, <1>12

LEMMA ValoresAlAvanzar ==
  ASSUME NEW s \in Seq(Pasos), s # <<>>, NEW a
  PROVE  Valores(s, a) = Valores(Tail(s), a)
                         \cup (IF Head(s).accion = a THEN {Head(s).valor} ELSE {})
  <1> DEFINE r == Tail(s)
             n == Len(s)
  <1>1. /\ n \in Nat \ {0} /\ DOMAIN s = 1 .. n /\ DOMAIN r = 1 .. n - 1 /\ Head(s) = s[1]
        /\ \A k \in 1 .. n - 1 : r[k] = s[k + 1]
    BY Avance
  <1> HIDE DEF r, n
  <1>2. ASSUME NEW k \in DOMAIN s, s[k].accion = a, k # 1
        PROVE  s[k].valor \in Valores(r, a)
    <2>1. k - 1 \in DOMAIN r /\ r[k - 1] = s[k]
      BY <1>1, <1>2
    <2> QED
      BY <1>2, <2>1 DEF Valores
  <1>3. ASSUME NEW k \in DOMAIN r, r[k].accion = a
        PROVE  r[k].valor \in Valores(s, a)
    <2>1. k + 1 \in DOMAIN s /\ r[k] = s[k + 1]
      BY <1>1
    <2> QED
      BY <1>3, <2>1 DEF Valores
  <1>4. s[1].accion = a => s[1].valor \in Valores(s, a)
    BY <1>1 DEF Valores
  <1>5. Valores(s, a) \subseteq Valores(r, a) \cup (IF Head(s).accion = a THEN {Head(s).valor} ELSE {})
    BY <1>1, <1>2 DEF Valores
  <1>6. Valores(r, a) \subseteq Valores(s, a)
    BY <1>3 DEF Valores
  <1> QED
    BY <1>1, <1>4, <1>5, <1>6 DEF r

LEMMA ValoresDeNada ==
  ASSUME NEW a
  PROVE  Valores(<<>>, a) = {}
  BY DEF Valores

LEMMA ValoresDeUno ==
  ASSUME NEW p \in Pasos, NEW a, p.accion # a
  PROVE  Valores(<<p>>, a) = {}
  BY DEF Valores

\* One more write at the end.
LEMMA ConOtro ==
  ASSUME NEW q \in Seq(Pasos), NEW u \in Pasos
  PROVE  /\ q \o <<u>> \in Seq(Pasos) /\ q \o <<u>> # <<>>
         /\ Len(q \o <<u>>) = Len(q) + 1 /\ Ultimo(q \o <<u>>) = u
         /\ Len(q) \in Nat /\ \A k \in 1 .. Len(q) : (q \o <<u>>)[k] = q[k]
         /\ (q \o <<u>>)[Len(q) + 1] = u
  BY DEF Ultimo

LEMMA ValoresConOtro ==
  ASSUME NEW q \in Seq(Pasos), NEW u \in Pasos, NEW a
  PROVE  Valores(q \o <<u>>, a) = Valores(q, a) \cup (IF u.accion = a THEN {u.valor} ELSE {})
  <1> DEFINE s == q \o <<u>>
             n == Len(q)
  <1>1. /\ n \in Nat /\ DOMAIN q = 1 .. n /\ DOMAIN s = 1 .. n + 1 /\ s[n + 1] = u
        /\ \A k \in 1 .. n : s[k] = q[k]
    OBVIOUS
  <1> HIDE DEF s, n
  <1>2. ASSUME NEW k \in DOMAIN s, s[k].accion = a
        PROVE  s[k].valor \in Valores(q, a) \cup (IF u.accion = a THEN {u.valor} ELSE {})
    <2>1. CASE k = n + 1
      BY <1>1, <1>2, <2>1
    <2>2. CASE k # n + 1
      <3>1. k \in DOMAIN q /\ s[k] = q[k]
        BY <1>1, <2>2
      <3> QED
        BY <1>2, <3>1 DEF Valores
    <2> QED
      BY <2>1, <2>2
  <1>3. ASSUME NEW k \in DOMAIN q, q[k].accion = a PROVE q[k].valor \in Valores(s, a)
    <2>1. k \in DOMAIN s /\ s[k] = q[k]
      BY <1>1
    <2> QED
      BY <1>3, <2>1 DEF Valores
  <1>4. u.accion = a => u.valor \in Valores(s, a)
    <2>1. n + 1 \in DOMAIN s
      BY <1>1
    <2> QED
      BY <1>1, <2>1 DEF Valores
  <1>5. Valores(s, a) \subseteq Valores(q, a) \cup (IF u.accion = a THEN {u.valor} ELSE {})
    BY <1>2 DEF Valores
  <1>6. Valores(q, a) \subseteq Valores(s, a)
    BY <1>3 DEF Valores
  <1> QED
    BY <1>4, <1>5, <1>6 DEF s

\* Blocks b .. b + n - 1, each by its own write.
LEMMA LosBloques ==
  ASSUME NEW a \in Acciones, NEW f \in Archivos, NEW b \in Nat, NEW n \in Nat
  PROVE  /\ Bloques(a, f, b, n) \in Seq(Pasos) /\ Len(Bloques(a, f, b, n)) = n
         /\ \A k \in 1 .. n : Bloques(a, f, b, n)[k] = Paso(a, f, b + k - 1)
         /\ Valores(Bloques(a, f, b, n), a) = b .. b + n - 1
         /\ \A c : c # a => Valores(Bloques(a, f, b, n), c) = {}
  <1> DEFINE q == [i \in 1 .. n |-> Paso(a, f, b + i - 1)]
  <1>1. \A i \in 1 .. n : Paso(a, f, b + i - 1) \in Pasos
    BY DEF Paso, Pasos
  <1>2. q \in Seq(Pasos) /\ Len(q) = n /\ DOMAIN q = 1 .. n
    BY <1>1
  <1>3. \A k \in 1 .. n : q[k] = Paso(a, f, b + k - 1)
    OBVIOUS
  <1> HIDE DEF q
  <1>4. \A k \in 1 .. n : q[k].accion = a /\ q[k].valor = b + k - 1
    <2>1. \A v : Paso(a, f, v).accion = a /\ Paso(a, f, v).valor = v
      BY DEF Paso
    <2> QED
      BY <1>3, <2>1
  <1>5. Valores(q, a) = b .. b + n - 1
    <2>1. ASSUME NEW k \in 1 .. n PROVE q[k].valor \in b .. b + n - 1
      BY <1>4
    <2>2. ASSUME NEW v \in b .. b + n - 1 PROVE \E k \in 1 .. n : q[k].accion = a /\ q[k].valor = v
      <3>1. v - b + 1 \in 1 .. n /\ b + (v - b + 1) - 1 = v
        OBVIOUS
      <3> QED
        BY <1>4, <3>1
    <2>3. Valores(q, a) \subseteq b .. b + n - 1
      BY <1>2, <2>1 DEF Valores
    <2>4. b .. b + n - 1 \subseteq Valores(q, a)
      BY <1>2, <2>2 DEF Valores
    <2> QED
      BY <2>3, <2>4
  <1>6. \A c : c # a => Valores(q, c) = {}
    BY <1>2, <1>4 DEF Valores
  <1>7. Bloques(a, f, b, n) = q
    BY DEF Bloques, q
  <1> QED
    BY <1>2, <1>3, <1>5, <1>6, <1>7

Liberan(q, f, b, n) ==
  /\ q \in Seq(Pasos) /\ Len(q) = n
  /\ \A k \in 1 .. n : q[k].accion = "liberar" /\ q[k].archivo = f
  /\ Valores(q, "liberar") = b .. b + n - 1 /\ Valores(q, "asignar") = {}

LEMMA LosQueLibera ==
  ASSUME NEW f \in Archivos, NEW b \in Nat, NEW n \in Nat
  PROVE  Liberan(Bloques("liberar", f, b, n), f, b, n)
  <1> DEFINE a == "liberar"
             q == Bloques(a, f, b, n)
  <1>1. a \in Acciones /\ "asignar" # a
    BY DEF Acciones
  <1>2. \A v : Paso(a, f, v).accion = a /\ Paso(a, f, v).archivo = f
    BY DEF Paso
  <1> HIDE DEF a
  <1>3. /\ q \in Seq(Pasos) /\ Len(q) = n
        /\ \A k \in 1 .. n : q[k] = Paso(a, f, b + k - 1)
        /\ Valores(q, a) = b .. b + n - 1
    BY <1>1, LosBloques
  <1>4. \A c : c # a => Valores(q, c) = {}
    BY <1>1, LosBloques
  <1>5. Valores(q, "asignar") = {}
    BY <1>1, <1>4
  <1> HIDE DEF q
  <1>6. \A k \in 1 .. n : q[k].accion = a /\ q[k].archivo = f
    BY <1>2, <1>3
  <1> QED
    BY <1>3, <1>5, <1>6 DEF a, q, Liberan

Asignan(q, f, b, n) ==
  /\ q \in Seq(Pasos) /\ Len(q) = n
  /\ \A k \in 1 .. n : q[k].accion = "asignar" /\ q[k].archivo = f
  /\ Valores(q, "asignar") = b .. b + n - 1 /\ Valores(q, "liberar") = {}

LEMMA LosQueAsigna ==
  ASSUME NEW f \in Archivos, NEW b \in Nat, NEW n \in Nat
  PROVE  Asignan(Bloques("asignar", f, b, n), f, b, n)
  <1> DEFINE a == "asignar"
             q == Bloques(a, f, b, n)
  <1>1. a \in Acciones /\ "liberar" # a
    BY DEF Acciones
  <1>2. \A v : Paso(a, f, v).accion = a /\ Paso(a, f, v).archivo = f
    BY DEF Paso
  <1> HIDE DEF a
  <1>3. /\ q \in Seq(Pasos) /\ Len(q) = n
        /\ \A k \in 1 .. n : q[k] = Paso(a, f, b + k - 1)
        /\ Valores(q, a) = b .. b + n - 1
    BY <1>1, LosBloques
  <1>4. \A c : c # a => Valores(q, c) = {}
    BY <1>1, LosBloques
  <1>5. Valores(q, "liberar") = {}
    BY <1>1, <1>4
  <1> HIDE DEF q
  <1>6. \A k \in 1 .. n : q[k].accion = a /\ q[k].archivo = f
    BY <1>2, <1>3
  <1> QED
    BY <1>3, <1>5, <1>6 DEF a, q, Asignan

\* One more write at the beginning.
LEMMA ConPrimero ==
  ASSUME NEW q \in Seq(Pasos), NEW p \in Pasos
  PROVE  /\ <<p>> \o q \in Seq(Pasos) /\ <<p>> \o q # <<>>
         /\ Head(<<p>> \o q) = p /\ Tail(<<p>> \o q) = q
         /\ Len(<<p>> \o q) = Len(q) + 1
         /\ \A k \in 1 .. Len(q) : (<<p>> \o q)[k + 1] = q[k]
  OBVIOUS

\* The n blocks before block a + h, from the last one backwards.
DelFinal(f, a, h, n) == [i \in 1 .. n |-> Paso("liberar", f, a + h - i)]

LEMMA LosDelFinal ==
  ASSUME NEW f \in Archivos, NEW a \in Nat, NEW h \in Nat, NEW n \in Nat, n <= h
  PROVE  LET q == DelFinal(f, a, h, n)
         IN  /\ q \in Seq(Pasos) /\ Len(q) = n
             /\ \A k \in 1 .. n : q[k].accion = "liberar" /\ q[k].archivo = f
             /\ Valores(q, "liberar") = a + h - n .. a + h - 1 /\ Valores(q, "asignar") = {}
  <1> DEFINE q == DelFinal(f, a, h, n)
  <1>1. \A i \in 1 .. n : Paso("liberar", f, a + h - i) \in Pasos
    BY DEF Paso, Pasos, Acciones
  <1>2. q \in Seq(Pasos) /\ Len(q) = n /\ DOMAIN q = 1 .. n
    BY <1>1 DEF DelFinal
  <1>3. \A k \in 1 .. n : q[k] = Paso("liberar", f, a + h - k)
    BY DEF DelFinal
  <1> HIDE DEF q
  <1>4. \A k \in 1 .. n : q[k].accion = "liberar" /\ q[k].archivo = f /\ q[k].valor = a + h - k
    <2>1. \A v : /\ Paso("liberar", f, v).accion = "liberar" /\ Paso("liberar", f, v).valor = v
                 /\ Paso("liberar", f, v).archivo = f
      BY DEF Paso
    <2> QED
      BY <1>3, <2>1
  <1>5. Valores(q, "liberar") = a + h - n .. a + h - 1
    <2>1. ASSUME NEW k \in 1 .. n PROVE q[k].valor \in a + h - n .. a + h - 1
      BY <1>4
    <2>2. ASSUME NEW v \in a + h - n .. a + h - 1
          PROVE  \E k \in 1 .. n : q[k].accion = "liberar" /\ q[k].valor = v
      <3>1. a + h - v \in 1 .. n /\ a + h - (a + h - v) = v
        OBVIOUS
      <3> QED
        BY <1>4, <3>1
    <2>3. Valores(q, "liberar") \subseteq a + h - n .. a + h - 1
      BY <1>2, <2>1 DEF Valores
    <2>4. a + h - n .. a + h - 1 \subseteq Valores(q, "liberar")
      BY <1>2, <2>2 DEF Valores
    <2> QED
      BY <2>3, <2>4
  <1>6. Valores(q, "asignar") = {}
    BY <1>2, <1>4 DEF Valores
  <1> QED
    BY <1>2, <1>4, <1>5, <1>6 DEF q

-----------------------------------------------------------------------------
(* The blocks of the files, as a function of the metadata.                 *)

Ext(m, f) == m[f].inicial .. m[f].inicial + BloquesDe(m[f].tamanio) - 1
DeVarios(m, P) == UNION {Ext(m, g) : g \in P}
Otras(m, f) == DeVarios(m, DOMAIN m \ {f})
Disjuntos(m, P) == \A f, g \in P : f # g => Ext(m, f) \cap Ext(m, g) = {}

\* A file has at least one block.
LEMMA Extensiones ==
  ASSUME NEW m, Metadatas(m), NEW f \in DOMAIN m
  PROVE  /\ m[f].inicial \in Nat /\ m[f].tamanio \in Nat
         /\ BloquesDe(m[f].tamanio) \in Nat /\ BloquesDe(m[f].tamanio) > 0
         /\ m[f].inicial \in Ext(m, f) /\ Ext(m, f) \subseteq Nat
  <1>1. m[f].inicial \in Nat /\ m[f].tamanio \in Nat
    BY DEF Metadatas
  <1>2. BloquesDe(m[f].tamanio) \in Nat /\ BloquesDe(m[f].tamanio) > 0
    BY <1>1, Tamanos
  <1> DEFINE a == m[f].inicial
             b == BloquesDe(m[f].tamanio)
  <1>3. a \in Nat /\ b \in Nat /\ b > 0 /\ Ext(m, f) = a .. a + b - 1
    BY <1>1, <1>2 DEF Ext
  <1> HIDE DEF a, b
  <1>4. a \in Ext(m, f) /\ Ext(m, f) \subseteq Nat
    BY <1>3
  <1> QED
    BY <1>1, <1>2, <1>4 DEF a

\* The metadata of one file changes, and the others keep their blocks.
LEMMA SoloUna ==
  ASSUME NEW m, NEW r, NEW f, DOMAIN r \ {f} = DOMAIN m \ {f},
         \A g \in DOMAIN m \ {f} : r[g] = m[g]
  PROVE  /\ \A g \in DOMAIN m \ {f} : Ext(r, g) = Ext(m, g)
         /\ Otras(r, f) = Otras(m, f)
         /\ \A P : P \subseteq DOMAIN m \ {f} => /\ DeVarios(r, P) = DeVarios(m, P)
                                                /\ (Disjuntos(r, P) <=> Disjuntos(m, P))
  <1>1. \A g \in DOMAIN m \ {f} : Ext(r, g) = Ext(m, g)
    BY DEF Ext
  <1>2. \A P : P \subseteq DOMAIN m \ {f} => /\ DeVarios(r, P) = DeVarios(m, P)
                                            /\ (Disjuntos(r, P) <=> Disjuntos(m, P))
    BY <1>1 DEF DeVarios, Disjuntos
  <1>3. Otras(r, f) = Otras(m, f)
    BY <1>2 DEF Otras
  <1> QED
    BY <1>1, <1>2, <1>3

\* The blocks of one more file.
LEMMA Aparte ==
  ASSUME NEW m, NEW f \in DOMAIN m
  PROVE  /\ DeVarios(m, DOMAIN m) = Otras(m, f) \cup Ext(m, f)
         /\ (Disjuntos(m, DOMAIN m) <=>
               Disjuntos(m, DOMAIN m \ {f}) /\ Ext(m, f) \cap Otras(m, f) = {})
  <1>1. DeVarios(m, DOMAIN m) = Otras(m, f) \cup Ext(m, f)
    BY DEF DeVarios, Otras
  <1>2. Disjuntos(m, DOMAIN m) => Ext(m, f) \cap Otras(m, f) = {}
    BY DEF Disjuntos, DeVarios, Otras
  <1>3. Ext(m, f) \cap Otras(m, f) = {} =>
          \A g \in DOMAIN m \ {f} : Ext(m, f) \cap Ext(m, g) = {} /\ Ext(m, g) \cap Ext(m, f) = {}
    BY DEF DeVarios, Otras
  <1> QED
    BY <1>1, <1>2, <1>3 DEF Disjuntos

-----------------------------------------------------------------------------
(* A request in progress.                                                  *)

Simples == {"crear", "desvincular", "tamanio"}

\* The blocks that its file will have when the write u, the last one, is done.
Futura(m, u) ==
  CASE u.accion = "crear" -> {u.valor}
    [] u.accion = "desvincular" -> {}
    [] OTHER -> m[u.archivo].inicial .. m[u.archivo].inicial + BloquesDe(u.valor) - 1

\* It frees blocks that its file has until then.
Corta(m, u) ==
  \/ u.accion = "desvincular"
  \/ u.accion = "tamanio" /\ u.valor < m[u.archivo].tamanio

\* The writes of a request are about one file, and the last one is the one that
\* changes its metadata.
Forma(m, s) ==
  /\ \A k \in 1 .. Len(s) : s[k].archivo = Ultimo(s).archivo
  /\ Ultimo(s).accion \in Simples \cup {"liberar", "inicial", "reverificar"}
  /\ Ultimo(s).accion # "reverificar" =>
       \A k \in 1 .. Len(s) - 1 : s[k].accion \in {"asignar", "liberar"}
  /\ (Ultimo(s).accion = "crear" <=> Ultimo(s).archivo \notin DOMAIN m)

\* No request went wrong: what is left of this one leaves the other files alone
\* and will leave its own with its blocks marked.
Sano(m, bm, s) ==
  LET u == Ultimo(s)
      libera == Valores(s, "liberar")
  IN /\ Futura(m, u) \cap Otras(m, u.archivo) = {}
     /\ Otras(m, u.archivo) \subseteq bm
     /\ Futura(m, u) \subseteq bm \cup Valores(s, "asignar")
     /\ libera \cap (Futura(m, u) \cup Otras(m, u.archivo)) = {}
     /\ ~Corta(m, u) => libera = {} /\ (u.archivo \in DOMAIN m => Ext(m, u.archivo) \subseteq bm)

\* No request was cut short: a block that is set has a file, will have one, or
\* is still to be freed.
Justo(m, bm, s) ==
  LET u == Ultimo(s)
  IN /\ bm \subseteq Otras(m, u.archivo) \cup Futura(m, u) \cup Valores(s, "liberar")
     /\ Valores(s, "asignar") \subseteq Futura(m, u)

LEMMA FormaAvanza ==
  ASSUME NEW m, NEW s \in Seq(Pasos), Len(s) > 1, Forma(m, s)
  PROVE  Forma(m, Tail(s))
  <1> DEFINE r == Tail(s)
             n == Len(s)
             u == Ultimo(s)
  <1>1. /\ n \in Nat \ {0} /\ n > 1 /\ Len(r) = n - 1 /\ Ultimo(r) = u
        /\ \A k \in 1 .. n - 1 : r[k] = s[k + 1]
    BY Avance
  <1>2. /\ \A k \in 1 .. n : s[k].archivo = u.archivo
        /\ u.accion \in Simples \cup {"liberar", "inicial", "reverificar"}
        /\ u.accion # "reverificar" => \A k \in 1 .. n - 1 : s[k].accion \in {"asignar", "liberar"}
        /\ (u.accion = "crear" <=> u.archivo \notin DOMAIN m)
    BY DEF Forma
  <1> HIDE DEF r, n, u
  <1>3. \A k \in 1 .. n - 1 : k + 1 \in 1 .. n /\ (k < n - 1 => k + 1 \in 1 .. n - 1)
    BY <1>1
  <1>4. \A k \in 1 .. n - 2 : k \in 1 .. n - 1 /\ k < n - 1
    BY <1>1
  <1>5. \A k \in 1 .. n - 1 : r[k].archivo = u.archivo
    BY <1>1, <1>2, <1>3
  <1>6. u.accion # "reverificar" => \A k \in 1 .. n - 2 : r[k].accion \in {"asignar", "liberar"}
    BY <1>1, <1>2, <1>3, <1>4
  <1>7. Len(r) - 1 = n - 2
    BY <1>1
  <1> QED
    BY <1>1, <1>2, <1>5, <1>6, <1>7 DEF Forma, r

\* asignar_bloque and liberar_bloque.
LEMMA Asigna ==
  ASSUME NEW m, NEW bm, NEW s \in Seq(Pasos), Len(s) > 1, Head(s).accion = "asignar"
  PROVE  /\ Sano(m, bm, s) => Sano(m, bm \cup {Head(s).valor}, Tail(s))
         /\ Justo(m, bm, s) => Justo(m, bm \cup {Head(s).valor}, Tail(s))
  <1> DEFINE v == Head(s).valor
  <1>1. Ultimo(Tail(s)) = Ultimo(s) /\ s # <<>>
    BY Avance
  <1>0. \A a : Valores(s, a) = Valores(Tail(s), a) \cup (IF Head(s).accion = a THEN {v} ELSE {})
    BY <1>1, ValoresAlAvanzar
  <1>2. /\ Valores(s, "asignar") = Valores(Tail(s), "asignar") \cup {v}
        /\ Valores(s, "liberar") = Valores(Tail(s), "liberar")
    <2>1. Valores(s, "asignar") = Valores(Tail(s), "asignar") \cup {v}
      BY <1>0
    <2>2. Head(s).accion # "liberar"
      OBVIOUS
    <2>3. Valores(s, "liberar") = Valores(Tail(s), "liberar")
      BY <1>0, <2>2
    <2> QED
      BY <2>1, <2>3
  <1> HIDE DEF v
  <1>3. Sano(m, bm, s) => Sano(m, bm \cup {v}, Tail(s))
    BY <1>1, <1>2 DEF Sano
  <1>4. Justo(m, bm, s) => Justo(m, bm \cup {v}, Tail(s))
    BY <1>1, <1>2 DEF Justo
  <1> QED
    BY <1>3, <1>4 DEF v

LEMMA Libera ==
  ASSUME NEW m, NEW bm, NEW s \in Seq(Pasos), Len(s) > 1, Head(s).accion = "liberar"
  PROVE  /\ Sano(m, bm, s) => Sano(m, bm \ {Head(s).valor}, Tail(s))
         /\ Justo(m, bm, s) => Justo(m, bm \ {Head(s).valor}, Tail(s))
  <1> DEFINE v == Head(s).valor
  <1>1. Ultimo(Tail(s)) = Ultimo(s) /\ s # <<>>
    BY Avance
  <1>0. \A a : Valores(s, a) = Valores(Tail(s), a) \cup (IF Head(s).accion = a THEN {v} ELSE {})
    BY <1>1, ValoresAlAvanzar
  <1>2. /\ Valores(s, "asignar") = Valores(Tail(s), "asignar")
        /\ Valores(s, "liberar") = Valores(Tail(s), "liberar") \cup {v}
    <2>1. Valores(s, "liberar") = Valores(Tail(s), "liberar") \cup {v}
      BY <1>0
    <2>2. Head(s).accion # "asignar"
      OBVIOUS
    <2>3. Valores(s, "asignar") = Valores(Tail(s), "asignar")
      BY <1>0, <2>2
    <2> QED
      BY <2>1, <2>3
  <1> HIDE DEF v
  <1>3. Sano(m, bm, s) => Sano(m, bm \ {v}, Tail(s))
    BY <1>1, <1>2 DEF Sano
  <1>4. Justo(m, bm, s) => Justo(m, bm \ {v}, Tail(s))
    BY <1>1, <1>2 DEF Justo
  <1> QED
    BY <1>3, <1>4 DEF v

\* The last write is done: its file has the blocks it was to have, or is gone.
LEMMA Termina ==
  ASSUME NEW m, NEW bm, NEW r, NEW u \in Pasos, u.accion \in Simples,
         DOMAIN r \ {u.archivo} = DOMAIN m \ {u.archivo},
         \A g \in DOMAIN m \ {u.archivo} : r[g] = m[g],
         \/ u.archivo \in DOMAIN r /\ Ext(r, u.archivo) = Futura(m, u)
         \/ u.archivo \notin DOMAIN r /\ Futura(m, u) = {}
  PROVE  /\ DeVarios(r, DOMAIN r) = Otras(m, u.archivo) \cup Futura(m, u)
         /\ Disjuntos(m, DOMAIN m) /\ Sano(m, bm, <<u>>) =>
              Disjuntos(r, DOMAIN r) /\ DeVarios(r, DOMAIN r) \subseteq bm
         /\ Justo(m, bm, <<u>>) => bm \subseteq DeVarios(r, DOMAIN r)
  <1> DEFINE f == u.archivo
  <1>1. Ultimo(<<u>>) = u /\ Valores(<<u>>, "asignar") = {} /\ Valores(<<u>>, "liberar") = {}
    <2>1. u.accion # "asignar" /\ u.accion # "liberar"
      BY DEF Simples
    <2> QED
      BY <2>1, ValoresDeUno DEF Ultimo
  <1>2. Otras(r, f) = Otras(m, f) /\ (Disjuntos(r, DOMAIN m \ {f}) <=> Disjuntos(m, DOMAIN m \ {f}))
    BY SoloUna
  <1>3. DeVarios(r, DOMAIN r) = Otras(m, f) \cup Futura(m, u)
    <2>1. CASE f \in DOMAIN r /\ Ext(r, f) = Futura(m, u)
      BY <1>2, <2>1, Aparte
    <2>2. CASE f \notin DOMAIN r /\ Futura(m, u) = {}
      <3>1. DOMAIN r \ {f} = DOMAIN r
        BY <2>2
      <3> QED
        BY <1>2, <2>2, <3>1 DEF Otras
    <2> QED
      BY <2>1, <2>2
  <1>4. ASSUME Disjuntos(m, DOMAIN m), Sano(m, bm, <<u>>)
        PROVE  Disjuntos(r, DOMAIN r) /\ DeVarios(r, DOMAIN r) \subseteq bm
    <2>1. Disjuntos(m, DOMAIN m \ {f})
      BY <1>4 DEF Disjuntos
    <2>2. Futura(m, u) \cap Otras(m, f) = {} /\ Otras(m, f) \subseteq bm /\ Futura(m, u) \subseteq bm
      BY <1>1, <1>4 DEF Sano
    <2>3. Disjuntos(r, DOMAIN r)
      <3>1. CASE f \in DOMAIN r /\ Ext(r, f) = Futura(m, u)
        BY <1>2, <2>1, <2>2, <3>1, Aparte
      <3>2. CASE f \notin DOMAIN r
        BY <1>2, <2>1, <3>2 DEF Disjuntos
      <3> QED
        BY <3>1, <3>2
    <2> QED
      BY <1>3, <2>2, <2>3
  <1>5. Justo(m, bm, <<u>>) => bm \subseteq DeVarios(r, DOMAIN r)
    BY <1>1, <1>3 DEF Justo
  <1> QED
    BY <1>3, <1>4, <1>5

-----------------------------------------------------------------------------
(* The requests when they begin.                                           *)

EnMarcha(m, s) ==
  s \in Seq(Pasos) /\ s # <<>> /\ Forma(m, s) /\ Ultimo(s).accion \in Simples

\* Some writes to the bitmap, and u.
LEMMA Armado ==
  ASSUME NEW m, NEW q \in Seq(Pasos), NEW u \in Pasos,
         \A k \in 1 .. Len(q) : q[k].archivo = u.archivo /\ q[k].accion \in {"asignar", "liberar"},
         u.accion \in Simples \cup {"inicial"},
         (u.accion = "crear" <=> u.archivo \notin DOMAIN m)
  PROVE  /\ q \o <<u>> \in Seq(Pasos) /\ q \o <<u>> # <<>> /\ Forma(m, q \o <<u>>)
         /\ Ultimo(q \o <<u>>) = u
         /\ Valores(q \o <<u>>, "asignar") = Valores(q, "asignar")
         /\ Valores(q \o <<u>>, "liberar") = Valores(q, "liberar")
  <1> DEFINE s == q \o <<u>>
             n == Len(q)
  <1>1. /\ s \in Seq(Pasos) /\ s # <<>> /\ Len(s) = n + 1 /\ Ultimo(s) = u
        /\ n \in Nat /\ s[n + 1] = u /\ \A k \in 1 .. n : s[k] = q[k]
    BY ConOtro
  <1>2. u.accion # "asignar" /\ u.accion # "liberar"
    BY DEF Simples
  <1>3. \A a : Valores(s, a) = Valores(q, a) \cup (IF u.accion = a THEN {u.valor} ELSE {})
    BY ValoresConOtro
  <1> HIDE DEF s, n
  <1>4. Valores(s, "asignar") = Valores(q, "asignar") /\ Valores(s, "liberar") = Valores(q, "liberar")
    BY <1>2, <1>3
  <1>5. \A k \in 1 .. n : s[k].archivo = u.archivo /\ s[k].accion \in {"asignar", "liberar"}
    BY <1>1 DEF n
  <1>6. \A k \in 1 .. n + 1 : s[k].archivo = u.archivo
    <2>1. \A k \in 1 .. n + 1 : k \in 1 .. n \/ k = n + 1
      BY <1>1
    <2> QED
      BY <1>1, <1>5, <2>1
  <1>7. \A k \in 1 .. Len(s) - 1 : s[k].accion \in {"asignar", "liberar"}
    <2>1. Len(s) - 1 = n
      BY <1>1
    <2> QED
      BY <1>5, <2>1
  <1>8. Forma(m, s)
    BY <1>1, <1>6, <1>7 DEF Forma
  <1> QED
    BY <1>1, <1>4, <1>8 DEF s

\* crear_archivo.
LEMMA AlCrear ==
  ASSUME NEW m, NEW bm, NEW f \in Archivos, f \notin DOMAIN m, NEW b \in Nat, b \notin bm
  PROVE  LET s == PasosDeCrear(f, b)
         IN  /\ EnMarcha(m, s)
             /\ DeVarios(m, DOMAIN m) \subseteq bm => Sano(m, bm, s)
             /\ bm \subseteq DeVarios(m, DOMAIN m) => Justo(m, bm, s)
  <1> DEFINE p == Paso("asignar", f, b)
             u == Paso("crear", f, b)
             s == PasosDeCrear(f, b)
  <1>1. /\ p \in Pasos /\ p.accion = "asignar" /\ p.archivo = f /\ p.valor = b
        /\ u \in Pasos /\ u.accion = "crear" /\ u.archivo = f /\ u.valor = b
    BY DEF Paso, Pasos, Acciones
  <1> DEFINE q == <<p>>
  <1>2. s = q \o <<u>>
    BY DEF PasosDeCrear
  <1> HIDE DEF p, u, s
  <1>3. /\ q \in Seq(Pasos) /\ Len(q) = 1 /\ \A k \in 1 .. 1 : q[k] = p
        /\ q # <<>> /\ Tail(q) = <<>> /\ Head(q) = p
    BY <1>1
  <1>5. Valores(q, "liberar") = {}
    BY <1>1, ValoresDeUno
  <1> HIDE DEF q
  <1>4. Valores(q, "asignar") = {b}
    <2>1. Valores(q, "asignar") = Valores(<<>>, "asignar") \cup {b}
      BY <1>1, <1>3, ValoresAlAvanzar
    <2> QED
      BY <2>1, ValoresDeNada
  <1>6. u.accion \in Simples
    BY <1>1 DEF Simples
  <1>7. /\ \A k \in 1 .. Len(q) : q[k].archivo = u.archivo /\ q[k].accion \in {"asignar", "liberar"}
        /\ u.accion \in Simples \cup {"inicial"} /\ (u.accion = "crear" <=> u.archivo \notin DOMAIN m)
    BY <1>1, <1>3, <1>6
  <1>8. /\ s \in Seq(Pasos) /\ s # <<>> /\ Forma(m, s) /\ Ultimo(s) = u
        /\ Valores(s, "asignar") = {b} /\ Valores(s, "liberar") = {}
    <2>1. /\ q \o <<u>> \in Seq(Pasos) /\ q \o <<u>> # <<>> /\ Forma(m, q \o <<u>>)
          /\ Ultimo(q \o <<u>>) = u
          /\ Valores(q \o <<u>>, "asignar") = Valores(q, "asignar")
          /\ Valores(q \o <<u>>, "liberar") = Valores(q, "liberar")
      BY <1>1, <1>3, <1>7, Armado
    <2> QED
      BY <1>2, <1>4, <1>5, <2>1
  <1>9. Otras(m, f) = DeVarios(m, DOMAIN m) /\ Futura(m, u) = {b}
    <2>1. DOMAIN m \ {f} = DOMAIN m
      OBVIOUS
    <2> QED
      BY <1>1, <2>1 DEF Otras, Futura
  <1>10. DeVarios(m, DOMAIN m) \subseteq bm => Sano(m, bm, s)
    BY <1>1, <1>8, <1>9 DEF Sano
  <1>11. bm \subseteq DeVarios(m, DOMAIN m) => Justo(m, bm, s)
    BY <1>1, <1>8, <1>9 DEF Justo
  <1> QED
    BY <1>6, <1>8, <1>10, <1>11 DEF EnMarcha, s

LEMMA DelArchivo ==
  ASSUME NEW f
  PROVE  /\ Extension(f) = Ext(metadata, f) /\ Cantidad(f) = BloquesDe(metadata[f].tamanio)
         /\ Inicial(f) = metadata[f].inicial /\ Tamanio(f) = metadata[f].tamanio
         /\ \A b : (DeOtro(f, b) <=> b \in Otras(metadata, f))
  BY DEF Extension, Ext, Cantidad, Inicial, Tamanio, DeOtro, Otras, DeVarios

\* What a request finds: its file, and the sizes in blocks.
LEMMA Medidas ==
  ASSUME Metadatas(metadata), NEW f \in DOMAIN metadata
  PROVE  /\ f \in Archivos /\ Inicial(f) \in Nat /\ Tamanio(f) \in Nat
         /\ Techo(Tamanio(f)) \in Nat /\ Cantidad(f) \in Nat /\ Cantidad(f) > 0
         /\ Tamanio(f) = 0 => Techo(Tamanio(f)) = 0 /\ Cantidad(f) = 1
         /\ Tamanio(f) > 0 => Techo(Tamanio(f)) = Cantidad(f)
         /\ Ext(metadata, f) = Inicial(f) .. Inicial(f) + Cantidad(f) - 1
         /\ DeVarios(metadata, DOMAIN metadata) = Otras(metadata, f) \cup Ext(metadata, f)
         /\ Disjuntos(metadata, DOMAIN metadata) =>
              Ext(metadata, f) \cap Otras(metadata, f) = {}
  <1>1. f \in Archivos /\ Inicial(f) \in Nat /\ Tamanio(f) \in Nat
    BY DEF Metadatas, Inicial, Tamanio
  <1>2. /\ Techo(Tamanio(f)) \in Nat /\ Cantidad(f) \in Nat /\ Cantidad(f) > 0
        /\ Tamanio(f) = 0 => Techo(Tamanio(f)) = 0 /\ Cantidad(f) = 1
        /\ Tamanio(f) > 0 => Techo(Tamanio(f)) = Cantidad(f)
    BY <1>1, Techos, Tamanos DEF Cantidad, BloquesDe
  <1>3. Ext(metadata, f) = Inicial(f) .. Inicial(f) + Cantidad(f) - 1
    BY DEF Ext, Inicial, Cantidad, Tamanio
  <1> QED
    BY <1>1, <1>2, <1>3, Aparte

\* borrar_archivo.
LEMMA AlBorrar ==
  ASSUME Metadatas(metadata), NEW f \in DOMAIN metadata
  PROVE  LET s == PasosDeBorrar(f)
         IN  /\ EnMarcha(metadata, s)
             /\ /\ Disjuntos(metadata, DOMAIN metadata)
                /\ DeVarios(metadata, DOMAIN metadata) \subseteq bitmap
                /\ ~BorraAjeno(f)
                => Sano(metadata, bitmap, s)
             /\ bitmap \subseteq DeVarios(metadata, DOMAIN metadata) => Justo(metadata, bitmap, s)
  <1> DEFINE m == metadata
             a == Inicial(f)
             h == Techo(Tamanio(f))
             k == Cantidad(f)
             u == Paso("desvincular", f, 0)
             c == h + 1
             q == Bloques("liberar", f, a, c)
             s == PasosDeBorrar(f)
  <1>1. /\ f \in Archivos /\ a \in Nat /\ h \in Nat /\ k \in Nat /\ k > 0
        /\ (Tamanio(f) = 0 => h = 0 /\ k = 1) /\ (Tamanio(f) > 0 => h = k)
        /\ Tamanio(f) \in Nat
    BY Medidas
  <1>2. /\ Ext(m, f) = a .. a + k - 1 /\ DeVarios(m, DOMAIN m) = Otras(m, f) \cup Ext(m, f)
        /\ (Disjuntos(m, DOMAIN m) => Ext(m, f) \cap Otras(m, f) = {})
    BY Medidas
  <1>3. BorraAjeno(f) <=> Tamanio(f) > 0 /\ a + k \in Otras(m, f)
    BY DelArchivo DEF BorraAjeno
  <1>4. s = q \o <<u>>
    BY DEF PasosDeBorrar
  <1>5. /\ q \in Seq(Pasos) /\ Len(q) = c
        /\ \A j \in 1 .. c : q[j].accion = "liberar" /\ q[j].archivo = f
        /\ Valores(q, "liberar") = a .. a + c - 1 /\ Valores(q, "asignar") = {}
    <2>1. f \in Archivos /\ a \in Nat /\ c \in Nat
      BY <1>1
    <2> HIDE DEF a, c
    <2>2. Liberan(q, f, a, c)
      BY <2>1, LosQueLibera
    <2> QED
      BY <2>2 DEF Liberan
  <1>6. u \in Pasos /\ u.accion = "desvincular" /\ u.archivo = f
    BY <1>1 DEF Paso, Pasos, Acciones
  <1> HIDE DEF a, h, k, u, c, q, s
  <1>7. /\ \A j \in 1 .. Len(q) : q[j].archivo = u.archivo /\ q[j].accion \in {"asignar", "liberar"}
        /\ u.accion \in Simples /\ (u.accion = "crear" <=> u.archivo \notin DOMAIN m)
    BY <1>5, <1>6 DEF Simples
  <1>8. /\ s \in Seq(Pasos) /\ s # <<>> /\ Forma(m, s) /\ Ultimo(s) = u
        /\ Valores(s, "asignar") = {} /\ Valores(s, "liberar") = a .. a + h
    <2>1. /\ q \o <<u>> \in Seq(Pasos) /\ q \o <<u>> # <<>> /\ Forma(m, q \o <<u>>)
          /\ Ultimo(q \o <<u>>) = u
          /\ Valores(q \o <<u>>, "asignar") = Valores(q, "asignar")
          /\ Valores(q \o <<u>>, "liberar") = Valores(q, "liberar")
      BY <1>5, <1>6, <1>7, Armado
    <2>2. a + c - 1 = a + h
      BY <1>1 DEF c
    <2> QED
      BY <1>4, <1>5, <2>1, <2>2
  <1>9. Futura(m, u) = {} /\ Corta(m, u)
    BY <1>6 DEF Futura, Corta
  <1>10. /\ a .. a + k - 1 \subseteq a .. a + h
         /\ a .. a + h \subseteq (a .. a + k - 1) \cup (IF Tamanio(f) > 0 THEN {a + k} ELSE {})
    BY <1>1
  <1>11. ASSUME Disjuntos(m, DOMAIN m), DeVarios(m, DOMAIN m) \subseteq bitmap, ~BorraAjeno(f)
         PROVE  Sano(m, bitmap, s)
    <2>1. Otras(m, f) \subseteq bitmap
      BY <1>2, <1>11
    <2>2. (a .. a + h) \cap Otras(m, f) = {}
      BY <1>2, <1>3, <1>10, <1>11
    <2> QED
      BY <1>6, <1>8, <1>9, <2>1, <2>2 DEF Sano
  <1>12. ASSUME bitmap \subseteq DeVarios(m, DOMAIN m) PROVE Justo(m, bitmap, s)
    <2>1. bitmap \subseteq Otras(m, f) \cup (a .. a + h)
      BY <1>2, <1>10, <1>12
    <2> QED
      BY <1>6, <1>8, <1>9, <2>1 DEF Justo
  <1> QED
    BY <1>7, <1>8, <1>11, <1>12 DEF EnMarcha, s

\* acortar_archivo.
LEMMA AlAcortar ==
  ASSUME Metadatas(metadata), NEW f \in DOMAIN metadata, NEW t \in Nat, t < Tamanio(f)
  PROVE  LET s == PasosDeAcortar(f, t)
         IN  /\ EnMarcha(metadata, s)
             /\ /\ Disjuntos(metadata, DOMAIN metadata)
                /\ DeVarios(metadata, DOMAIN metadata) \subseteq bitmap
                /\ ~AcortaMal(t)
                => Sano(metadata, bitmap, s)
             /\ bitmap \subseteq DeVarios(metadata, DOMAIN metadata) => Justo(metadata, bitmap, s)
  <1> DEFINE m == metadata
             a == Inicial(f)
             k == Cantidad(f)
             j == Techo(t)
             n == BloquesALiberar(f, t)
             b == a + j
             u == Paso("tamanio", f, t)
             h == Techo(Tamanio(f))
             q == DelFinal(f, a, h, n)
             s == PasosDeAcortar(f, t)
  <1>1. /\ f \in Archivos /\ a \in Nat /\ k \in Nat /\ k > 0 /\ Techo(Tamanio(f)) = k
        /\ Tamanio(f) \in Nat
    <2>1. Tamanio(f) \in Nat
      BY Medidas
    <2>2. Tamanio(f) > 0
      BY <2>1
    <2> QED
      BY <2>1, <2>2, Medidas
  <1>2. /\ Ext(m, f) = a .. a + k - 1 /\ DeVarios(m, DOMAIN m) = Otras(m, f) \cup Ext(m, f)
        /\ (Disjuntos(m, DOMAIN m) => Ext(m, f) \cap Otras(m, f) = {})
    BY Medidas
  <1>3. /\ j \in Nat /\ j <= k /\ BloquesDe(t) \in Nat /\ BloquesDe(t) > 0 /\ (t > 0 => BloquesDe(t) = j)
        /\ (t = 0 => j = 0 /\ BloquesDe(t) = 1)
    <2>1. j <= Techo(Tamanio(f))
      BY <1>1, TechosCrecen
    <2> QED
      BY <1>1, <2>1, Techos, Tamanos DEF BloquesDe
  <1>4. n = k - j /\ n \in Nat /\ b \in Nat /\ b + n = a + k
    BY <1>1, <1>3 DEF BloquesALiberar
  <1>5. s = q \o <<u>>
    BY DEF PasosDeAcortar, DelFinal
  <1>6. /\ q \in Seq(Pasos) /\ Len(q) = n
        /\ \A i \in 1 .. n : q[i].accion = "liberar" /\ q[i].archivo = f
        /\ Valores(q, "liberar") = b .. b + n - 1 /\ Valores(q, "asignar") = {}
    <2>1. /\ f \in Archivos /\ a \in Nat /\ h \in Nat /\ n \in Nat /\ n <= h
          /\ a + h - n = b /\ a + h - 1 = b + n - 1
      BY <1>1, <1>3, <1>4
    <2> HIDE DEF n, h, a, b
    <2>2. /\ q \in Seq(Pasos) /\ Len(q) = n
          /\ \A i \in 1 .. n : q[i].accion = "liberar" /\ q[i].archivo = f
          /\ Valores(q, "liberar") = a + h - n .. a + h - 1 /\ Valores(q, "asignar") = {}
      BY <2>1, LosDelFinal
    <2> QED
      BY <2>1, <2>2
  <1>7. u \in Pasos /\ u.accion = "tamanio" /\ u.archivo = f /\ u.valor = t
    BY <1>1 DEF Paso, Pasos, Acciones
  <1>8. AcortaMal(t) <=> t = 0
    BY DEF AcortaMal
  <1>9. Futura(m, u) = a .. a + BloquesDe(t) - 1 /\ Corta(m, u)
    BY <1>7 DEF Futura, Corta, Inicial, Tamanio
  <1> HIDE DEF a, k, j, n, b, u, h, q, s
  <1>10. /\ \A i \in 1 .. Len(q) : q[i].archivo = u.archivo /\ q[i].accion \in {"asignar", "liberar"}
         /\ u.accion \in Simples /\ (u.accion = "crear" <=> u.archivo \notin DOMAIN m)
    BY <1>6, <1>7 DEF Simples
  <1>11. /\ s \in Seq(Pasos) /\ s # <<>> /\ Forma(m, s) /\ Ultimo(s) = u
         /\ Valores(s, "asignar") = {} /\ Valores(s, "liberar") = b .. b + n - 1
    <2>1. /\ q \o <<u>> \in Seq(Pasos) /\ q \o <<u>> # <<>> /\ Forma(m, q \o <<u>>)
          /\ Ultimo(q \o <<u>>) = u
          /\ Valores(q \o <<u>>, "asignar") = Valores(q, "asignar")
          /\ Valores(q \o <<u>>, "liberar") = Valores(q, "liberar")
      BY <1>6, <1>7, <1>10, Armado
    <2> QED
      BY <1>5, <1>6, <2>1
  <1>12. /\ b .. b + n - 1 \subseteq a .. a + k - 1
         /\ a .. a + BloquesDe(t) - 1 \subseteq a .. a + k - 1
         /\ a .. a + k - 1 \subseteq (b .. b + n - 1) \cup (a .. a + BloquesDe(t) - 1)
         /\ t > 0 => (b .. b + n - 1) \cap (a .. a + BloquesDe(t) - 1) = {}
    BY <1>1, <1>3, <1>4 DEF b
  <1>13. ASSUME Disjuntos(m, DOMAIN m), DeVarios(m, DOMAIN m) \subseteq bitmap, ~AcortaMal(t)
         PROVE  Sano(m, bitmap, s)
    <2>1. /\ Otras(m, f) \subseteq bitmap /\ Futura(m, u) \subseteq bitmap
          /\ Futura(m, u) \cap Otras(m, f) = {} /\ (b .. b + n - 1) \cap Otras(m, f) = {}
      BY <1>2, <1>9, <1>12, <1>13
    <2>2. (b .. b + n - 1) \cap Futura(m, u) = {}
      BY <1>8, <1>9, <1>12, <1>13
    <2> QED
      BY <1>7, <1>9, <1>11, <2>1, <2>2 DEF Sano
  <1>14. ASSUME bitmap \subseteq DeVarios(m, DOMAIN m) PROVE Justo(m, bitmap, s)
    <2>1. bitmap \subseteq Otras(m, f) \cup Futura(m, u) \cup (b .. b + n - 1)
      BY <1>2, <1>9, <1>12, <1>14
    <2> QED
      BY <1>7, <1>11, <2>1 DEF Justo
  <1> QED
    BY <1>10, <1>11, <1>13, <1>14 DEF EnMarcha, s

\* agrandar_archivo in the blocks that the file has.
LEMMA AlCrecerEnElBloque ==
  ASSUME Metadatas(metadata), NEW f \in DOMAIN metadata, NEW t \in Nat,
         BloquesAdicionales(f, t) = 0, t >= Tamanio(f)
  PROVE  LET s == <<Paso("tamanio", f, t)>>
         IN  /\ EnMarcha(metadata, s)
             /\ /\ Disjuntos(metadata, DOMAIN metadata)
                /\ DeVarios(metadata, DOMAIN metadata) \subseteq bitmap
                => Sano(metadata, bitmap, s)
             /\ bitmap \subseteq DeVarios(metadata, DOMAIN metadata) => Justo(metadata, bitmap, s)
  <1> DEFINE m == metadata
             u == Paso("tamanio", f, t)
             s == <<u>>
  <1>1. f \in Archivos /\ Cantidad(f) \in Nat /\ Cantidad(f) > 0 /\ Tamanio(f) \in Nat
    BY Medidas
  <1>2. /\ DeVarios(m, DOMAIN m) = Otras(m, f) \cup Ext(m, f)
        /\ (Disjuntos(m, DOMAIN m) => Ext(m, f) \cap Otras(m, f) = {})
    BY Medidas
  <1>3. BloquesDe(t) = Cantidad(f)
    <2>1. Techo(t) = Cantidad(f)
      BY <1>1, Techos DEF BloquesAdicionales
    <2> QED
      BY <1>1, <2>1, Techos DEF BloquesDe
  <1>4. u \in Pasos /\ u.accion = "tamanio" /\ u.archivo = f /\ u.valor = t
    BY <1>1 DEF Paso, Pasos, Acciones
  <1>5. Futura(m, u) = Ext(m, f) /\ ~Corta(m, u)
    <2>1. ~(t < Tamanio(f))
      BY <1>1
    <2> QED
      BY <1>3, <1>4, <2>1 DEF Futura, Corta, Ext, Cantidad, Tamanio
  <1> HIDE DEF u
  <1>6. s \in Seq(Pasos) /\ s # <<>> /\ Len(s) = 1 /\ s[1] = u
    BY <1>4
  <1>7. Ultimo(s) = u /\ Valores(s, "asignar") = {} /\ Valores(s, "liberar") = {}
    <2>1. u.accion # "asignar" /\ u.accion # "liberar"
      BY <1>4
    <2> QED
      BY <1>4, <1>6, <2>1, ValoresDeUno DEF Ultimo
  <1> HIDE DEF s
  <1>8. Forma(m, s) /\ u.accion \in Simples
    <2>1. \A i \in 1 .. 1 : s[i].archivo = u.archivo
      BY <1>6
    <2>2. \A i \in 1 .. Len(s) - 1 : FALSE
      BY <1>6
    <2> QED
      BY <1>4, <1>6, <1>7, <2>1, <2>2 DEF Forma, Simples
  <1>9. ASSUME Disjuntos(m, DOMAIN m), DeVarios(m, DOMAIN m) \subseteq bitmap
        PROVE  Sano(m, bitmap, s)
    BY <1>2, <1>4, <1>5, <1>7, <1>9 DEF Sano
  <1>10. ASSUME bitmap \subseteq DeVarios(m, DOMAIN m) PROVE Justo(m, bitmap, s)
    BY <1>2, <1>4, <1>5, <1>7, <1>10 DEF Justo
  <1> QED
    BY <1>6, <1>7, <1>8, <1>9, <1>10 DEF EnMarcha, s, u

\* agrandar_archivo with more blocks.
LEMMA AlCrecer ==
  ASSUME Metadatas(metadata), NEW f \in DOMAIN metadata, NEW t \in Nat,
         BloquesAdicionales(f, t) >= 0
  PROVE  LET s == PasosDeCrecer(f, t)
             n == BloquesAdicionales(f, t)
         IN  /\ EnMarcha(metadata, s)
             /\ /\ Disjuntos(metadata, DOMAIN metadata)
                /\ DeVarios(metadata, DOMAIN metadata) \subseteq bitmap
                /\ n > 0 /\ SonLibres(UltimoAlCrecer(f), n) /\ ~CreceMal(f, t)
                /\ t >= Tamanio(f)
                => Sano(metadata, bitmap, s)
             /\ bitmap \subseteq DeVarios(metadata, DOMAIN metadata) => Justo(metadata, bitmap, s)
  <1> DEFINE m == metadata
             a == Inicial(f)
             k == Cantidad(f)
             n == BloquesAdicionales(f, t)
             b == a + 1
             u == Paso("tamanio", f, t)
             q == Bloques("asignar", f, b, n)
             s == PasosDeCrecer(f, t)
  <1>1. /\ f \in Archivos /\ a \in Nat /\ k \in Nat /\ k > 0 /\ Tamanio(f) \in Nat
        /\ (Tamanio(f) > 0 => Techo(Tamanio(f)) = k) /\ (Tamanio(f) = 0 => k = 1)
    BY Medidas
  <1>2. /\ Ext(m, f) = a .. a + k - 1 /\ DeVarios(m, DOMAIN m) = Otras(m, f) \cup Ext(m, f)
        /\ (Disjuntos(m, DOMAIN m) => Ext(m, f) \cap Otras(m, f) = {})
    BY Medidas
  <1>3. n \in Nat /\ n = BloquesDe(t) - k /\ BloquesDe(t) = k + n
    <2>1. Techo(t) \in Nat /\ (t = 0 => Techo(t) = 0) /\ n = Techo(t) - k
      BY Techos DEF BloquesAdicionales
    <2>2. t # 0
      BY <1>1, <2>1
    <2>3. BloquesDe(t) = Techo(t)
      BY <2>2 DEF BloquesDe
    <2> QED
      BY <1>1, <2>1, <2>3
  <1>4. s = q \o <<u>>
    BY DEF PasosDeCrecer
  <1>5. /\ q \in Seq(Pasos) /\ Len(q) = n
        /\ \A i \in 1 .. n : q[i].accion = "asignar" /\ q[i].archivo = f
        /\ Valores(q, "asignar") = b .. b + n - 1 /\ Valores(q, "liberar") = {}
    <2>1. f \in Archivos /\ b \in Nat /\ n \in Nat
      BY <1>1, <1>3
    <2> HIDE DEF b, n
    <2>2. Asignan(q, f, b, n)
      BY <2>1, LosQueAsigna
    <2> HIDE DEF q
    <2> QED
      BY <2>2 DEF Asignan
  <1>6. u \in Pasos /\ u.accion = "tamanio" /\ u.archivo = f /\ u.valor = t
    BY <1>1 DEF Paso, Pasos, Acciones
  <1>7. Futura(m, u) = a .. a + BloquesDe(t) - 1 /\ (t >= Tamanio(f) => ~Corta(m, u))
    <2>1. t >= Tamanio(f) => ~(t < Tamanio(f))
      BY <1>1
    <2> QED
      BY <1>6, <2>1 DEF Futura, Corta, Inicial, Tamanio
  <1>8. \A c : SonLibres(c, n) <=> \A i \in 1 .. n : c + i \notin bitmap
    BY DEF SonLibres
  <1>9. SonLibres(UltimoAlCrecer(f), n) /\ ~CreceMal(f, t) /\ n > 0 =>
          /\ k = 1
          /\ \/ \A i \in 1 .. n : a + i \notin bitmap
             \/ /\ \A i \in 1 .. n : a + 1 + i \notin bitmap
                /\ a + 1 \notin Otras(m, f)
    <2>1. ASSUME ~CreceMal(f, t), n > 0
          PROVE  /\ Tamanio(f) <= block_size
                 /\ Tamanio(f) = block_size => a + 1 \notin Otras(m, f)
      BY <1>1, <2>1, DelArchivo, BloquesAssumption DEF CreceMal
    <2>2. ASSUME Tamanio(f) <= block_size PROVE k = 1
      BY <1>1, <2>2, Tamanos DEF Cantidad
    <2>3. Tamanio(f) < block_size => UltimoAlCrecer(f) = a
      BY <1>1, Techos DEF UltimoAlCrecer
    <2>4. Tamanio(f) = block_size => UltimoAlCrecer(f) = a + 1
      BY <1>1, Techos DEF UltimoAlCrecer
    <2>5. Tamanio(f) <= block_size => Tamanio(f) < block_size \/ Tamanio(f) = block_size
      BY <1>1, BloquesAssumption
    <2> HIDE DEF a, n
    <2> QED
      BY <1>8, <2>1, <2>2, <2>3, <2>4, <2>5
  <1> HIDE DEF a, k, n, b, u, q, s
  <1>10. /\ \A i \in 1 .. Len(q) : q[i].archivo = u.archivo /\ q[i].accion \in {"asignar", "liberar"}
         /\ u.accion \in Simples /\ (u.accion = "crear" <=> u.archivo \notin DOMAIN m)
    BY <1>5, <1>6 DEF Simples
  <1>11. /\ s \in Seq(Pasos) /\ s # <<>> /\ Forma(m, s) /\ Ultimo(s) = u
         /\ Valores(s, "asignar") = b .. b + n - 1 /\ Valores(s, "liberar") = {}
    <2>1. /\ q \o <<u>> \in Seq(Pasos) /\ q \o <<u>> # <<>> /\ Forma(m, q \o <<u>>)
          /\ Ultimo(q \o <<u>>) = u
          /\ Valores(q \o <<u>>, "asignar") = Valores(q, "asignar")
          /\ Valores(q \o <<u>>, "liberar") = Valores(q, "liberar")
      BY <1>5, <1>6, <1>10, Armado
    <2> QED
      BY <1>4, <1>5, <2>1
  <1>12. /\ a .. a + k - 1 \subseteq Futura(m, u)
         /\ b .. b + n - 1 \subseteq Futura(m, u)
         /\ k = 1 => Futura(m, u) = {a} \cup (b .. b + n - 1) /\ a \in Ext(m, f)
    <2>1. Futura(m, u) = a .. a + k + n - 1
      <3>1. a + BloquesDe(t) - 1 = a + k + n - 1
        BY <1>1, <1>3
      <3> QED
        BY <1>7, <3>1
    <2>2. a .. a + k - 1 \subseteq a .. a + k + n - 1
      BY <1>1, <1>3
    <2>3. b .. b + n - 1 \subseteq a .. a + k + n - 1
      BY <1>1, <1>3 DEF b
    <2>4. k = 1 => a .. a + k + n - 1 = {a} \cup (b .. b + n - 1) /\ a \in a .. a + k - 1
      BY <1>1, <1>3 DEF b
    <2> QED
      BY <1>2, <2>1, <2>2, <2>3, <2>4
  <1>13. ASSUME Disjuntos(m, DOMAIN m), DeVarios(m, DOMAIN m) \subseteq bitmap,
                n > 0, SonLibres(UltimoAlCrecer(f), n), ~CreceMal(f, t), t >= Tamanio(f)
         PROVE  Sano(m, bitmap, s)
    <2>1. Otras(m, f) \subseteq bitmap /\ Ext(m, f) \subseteq bitmap /\ a \notin Otras(m, f)
      BY <1>2, <1>9, <1>12, <1>13
    <2>2. (b .. b + n - 1) \cap Otras(m, f) = {}
      <3>1. CASE \A i \in 1 .. n : a + i \notin bitmap
        <4>1. ASSUME NEW v \in b .. b + n - 1 PROVE v \notin bitmap
          <5>1. v - a \in 1 .. n /\ a + (v - a) = v
            BY <1>1, <1>3 DEF b
          <5> QED
            BY <3>1, <5>1
        <4> QED
          BY <2>1, <4>1
      <3>2. CASE (\A i \in 1 .. n : a + 1 + i \notin bitmap) /\ a + 1 \notin Otras(m, f)
        <4>1. ASSUME NEW v \in b .. b + n - 1, v # a + 1 PROVE v \notin bitmap
          <5>1. v - (a + 1) \in 1 .. n /\ a + 1 + (v - (a + 1)) = v
            BY <1>1, <1>3, <4>1 DEF b
          <5> QED
            BY <3>2, <5>1
        <4> QED
          BY <2>1, <3>2, <4>1
      <3> QED
        BY <1>9, <1>13, <3>1, <3>2
    <2>3. Futura(m, u) = {a} \cup (b .. b + n - 1) /\ a \in Ext(m, f)
      BY <1>9, <1>12, <1>13
    <2>4. ~Corta(m, u)
      BY <1>7, <1>13
    <2> QED
      BY <1>6, <1>11, <2>1, <2>2, <2>3, <2>4 DEF Sano
  <1>14. ASSUME bitmap \subseteq DeVarios(m, DOMAIN m) PROVE Justo(m, bitmap, s)
    <2>1. bitmap \subseteq Otras(m, f) \cup Futura(m, u)
      BY <1>2, <1>12, <1>14
    <2> QED
      BY <1>6, <1>11, <1>12, <2>1 DEF Justo
  <1> QED
    BY <1>10, <1>11, <1>13, <1>14 DEF EnMarcha, s, n

-----------------------------------------------------------------------------
(* The inductive invariant, as predicates of the metadata m, the bitmap    *)
(* bm, the blocks written es, the writes left s and the compaction c.      *)

Datos(m, es) ==
  \A e \in es : /\ e[1] \in DOMAIN m /\ e[2] \in 0 .. BloquesDe(m[e[1]].tamanio) - 1
                /\ e[3] = m[e[1]].inicial + e[2]

\* The last write tells a request from a turn of a compaction.
EnCurso(m, s, c) ==
  s # <<>> =>
    /\ Forma(m, s)
    /\ (Ultimo(s).accion \in Simples \cup {"reverificar"} <=> c = SinCompactar)

\* Until a request goes wrong.
Sanidad(m, bm, es, s, c) ==
  /\ Disjuntos(m, DOMAIN m) /\ Datos(m, es) /\ c = SinCompactar
  /\ s = <<>> => DeVarios(m, DOMAIN m) \subseteq bm
  /\ s # <<>> => Ultimo(s).accion \in Simples /\ Sano(m, bm, s)

\* Until a request is cut short.
Justicia(m, bm, s, c) ==
  /\ s = <<>> /\ c = SinCompactar => bm \subseteq DeVarios(m, DOMAIN m)
  /\ s # <<>> /\ Ultimo(s).accion \in Simples => Justo(m, bm, s)

\* Files that lie one behind the other from block 0.
Acomodados(m, P, b) == Disjuntos(m, P) /\ DeVarios(m, P) = 0 .. b - 1
Puestos(c, n) == {c.orden[i] : i \in 1 .. n}
PorLiberar(c) == {c.orden[i] : i \in c.liberados + 1 .. Len(c.orden) - 1}

Ordenado(m, c) ==
  /\ Len(c.orden) > 0 /\ Puestos(c, Len(c.orden)) = DOMAIN m
  /\ \A i, j \in 1 .. Len(c.orden) : i # j => c.orden[i] # c.orden[j]

\* The files packed lie at the beginning; nothing is packed until all are free.
Turno(m, s, c) ==
  LET n == Len(c.orden) - 1
      u == Ultimo(s)
  IN /\ c.liberados <= n /\ c.empaquetados <= n
     /\ c.empaquetados > 0 => c.liberados = n
     /\ c.empaquetados = 0 => c.libre = 0 /\ \A k \in 1 .. Len(s) : s[k].accion = "liberar"
     /\ s = <<>> => Acomodados(m, Puestos(c, c.empaquetados), c.libre)
     /\ s # <<>> /\ c.empaquetados > 0 =>
          /\ u.accion = "inicial" /\ u.archivo = c.orden[c.empaquetados]
          /\ u.valor + BloquesDe(m[u.archivo].tamanio) = c.libre
          /\ Acomodados(m, Puestos(c, c.empaquetados - 1), u.valor)

\* The bits of the files not freed yet, and then those of the files packed.
TurnoJusto(m, bm, s, c) ==
  /\ c.empaquetados = 0 => bm \subseteq Valores(s, "liberar") \cup DeVarios(m, PorLiberar(c))
  /\ c.empaquetados > 0 => bm \cup Valores(s, "asignar") \subseteq 0 .. c.libre - 1

\* The file that grows goes behind the others.
Mudanza(m, s) ==
  LET n == Len(s)
      v == s[n - 1]
  IN /\ n = 1 => \E b \in Nat : Acomodados(m, DOMAIN m, b)
     /\ n > 1 => /\ v.accion = "inicial"
                 /\ \A k \in 1 .. n - 2 : s[k].accion \in {"copiar", "asignar"}
                 /\ Acomodados(m, DOMAIN m \ {v.archivo}, v.valor)

MudanzaJusta(m, bm, s) ==
  LET n == Len(s)
      v == s[n - 1]
  IN /\ n = 1 => bm \subseteq DeVarios(m, DOMAIN m)
     /\ n > 1 => bm \cup Valores(s, "asignar")
                   \subseteq 0 .. v.valor + BloquesDe(m[v.archivo].tamanio) - 1

Mudandose(s) == s # <<>> /\ Ultimo(s).accion = "reverificar"

IInv ==
  /\ TypeOK /\ IsFiniteSet(DOMAIN metadata)
  /\ EnCurso(metadata, pendiente, compactacion)
  /\ ~rota => Sanidad(metadata, bitmap, escrito, pendiente, compactacion)
  /\ ~fuga => Justicia(metadata, bitmap, pendiente, compactacion)
  /\ Compactando => rota /\ Ordenado(metadata, compactacion)
                    /\ Turno(metadata, pendiente, compactacion)
  /\ Compactando /\ ~fuga => TurnoJusto(metadata, bitmap, pendiente, compactacion)
  /\ Mudandose(pendiente) => rota /\ Mudanza(metadata, pendiente)
  /\ Mudandose(pendiente) /\ ~fuga => MudanzaJusta(metadata, bitmap, pendiente)

-----------------------------------------------------------------------------
(* Types.                                                                  *)

Compactaciones ==
  [orden : Seq(Archivos), liberados : Nat, empaquetados : Nat, libre : Nat, tamanio : Nat]

LEMMA Tipos ==
  ASSUME TypeOK
  PROVE  /\ bitmap \subseteq 0 .. MaxBit - 1 /\ Metadatas(metadata)
         /\ escrito \subseteq Archivos \X Nat \X Nat
         /\ pendiente \in Seq(Pasos) /\ compactacion \in Compactaciones
         /\ vivo \in BOOLEAN /\ reinicios \in 0 .. MAX_REINICIOS
         /\ fuga \in BOOLEAN /\ rota \in BOOLEAN
  BY DEF TypeOK, Metadatas, Pasos, Acciones, Compactaciones

LEMMA TiposDespues ==
  ASSUME bitmap' \subseteq 0 .. MaxBit - 1, Metadatas(metadata'),
         escrito' \subseteq Archivos \X Nat \X Nat,
         pendiente' \in Seq(Pasos), compactacion' \in Compactaciones,
         vivo' \in BOOLEAN, reinicios' \in 0 .. MAX_REINICIOS,
         fuga' \in BOOLEAN, rota' \in BOOLEAN
  PROVE  TypeOK'
  BY DEF TypeOK, Metadatas, Pasos, Acciones, Compactaciones

LEMMA SinNada == SinCompactar \in Compactaciones /\ <<>> \in Seq(Pasos)
  BY DEF SinCompactar, Compactaciones

LEMMA Bits == MaxBit \in Nat
  BY BloquesAssumption, Division DEF MaxBit

-----------------------------------------------------------------------------
(* The steps.                                                              *)

LEMMA AlEmpezarTodo == Init => IInv
  <1> SUFFICES ASSUME Init PROVE IInv
    OBVIOUS
  <1>1. /\ bitmap = {} /\ metadata = <<>> /\ escrito = {} /\ pendiente = <<>>
        /\ compactacion = SinCompactar /\ vivo = TRUE /\ reinicios = 0 /\ fuga = FALSE /\ rota = FALSE
    BY DEF Init
  <1>2. DOMAIN metadata = {}
    BY <1>1
  <1>3. TypeOK
    <2>1. SinCompactar \in [orden : Seq(Archivos), liberados : Nat, empaquetados : Nat,
                            libre : Nat, tamanio : Nat]
      BY SinNada DEF Compactaciones
    <2>2. 0 \in 0 .. MAX_REINICIOS
      BY PedidosAssumption
    <2>3. <<>> \in Seq([accion : {"asignar", "liberar", "crear", "desvincular", "inicial",
                                 "tamanio", "copiar", "reverificar"},
                       archivo : Archivos, valor : Nat])
      OBVIOUS
    <2>4. bitmap \subseteq 0 .. MaxBit - 1 /\ escrito \subseteq Archivos \X Nat \X Nat
      BY <1>1
    <2>5. /\ DOMAIN metadata \subseteq Archivos
          /\ \A f \in DOMAIN metadata : metadata[f] \in [inicial : Nat, tamanio : Nat]
      BY <1>2
    <2>6. vivo \in BOOLEAN /\ fuga \in BOOLEAN /\ rota \in BOOLEAN
      BY <1>1
    <2> QED
      BY <1>1, <2>1, <2>2, <2>3, <2>4, <2>5, <2>6 DEF TypeOK
  <1>4. IsFiniteSet(DOMAIN metadata)
    BY <1>2, FS_EmptySet
  <1>5. Sanidad(metadata, bitmap, escrito, pendiente, compactacion)
    BY <1>1, <1>2 DEF Sanidad, Disjuntos, Datos, DeVarios
  <1>6. Justicia(metadata, bitmap, pendiente, compactacion)
    BY <1>1 DEF Justicia
  <1> QED
    BY <1>1, <1>3, <1>4, <1>5, <1>6 DEF IInv, EnCurso, Compactando, Mudandose

\* A request begins.
LEMMA EmpezarIInv ==
  ASSUME IInv, ~Compactando, NEW s, NEW defecto \in BOOLEAN, Empezar(s, defecto),
         EnMarcha(metadata, s),
         ~rota /\ ~defecto => Sano(metadata, bitmap, s),
         ~fuga => Justo(metadata, bitmap, s)
  PROVE  IInv'
  <1>1. /\ TypeOK /\ IsFiniteSet(DOMAIN metadata)
        /\ ~rota => Sanidad(metadata, bitmap, escrito, pendiente, compactacion)
    BY DEF IInv
  <1>2. /\ bitmap' = bitmap /\ metadata' = metadata /\ escrito' = escrito /\ pendiente' = s
        /\ compactacion' = compactacion /\ vivo' = vivo /\ reinicios' = reinicios /\ fuga' = fuga
        /\ rota' = (rota \/ defecto)
    BY DEF Empezar, disco
  <1>3. compactacion = SinCompactar
    BY DEF Compactando
  <1>4. /\ s \in Seq(Pasos) /\ s # <<>> /\ Forma(metadata, s) /\ Ultimo(s).accion \in Simples
        /\ Ultimo(s).accion # "reverificar"
    BY DEF EnMarcha, Simples
  <1>5. TypeOK'
    <2>1. rota' \in BOOLEAN
      BY <1>1, <1>2, Tipos
    <2> QED
      BY <1>1, <1>2, <1>4, <2>1, Tipos, TiposDespues
  <1>6. EnCurso(metadata, s, compactacion)
    BY <1>3, <1>4 DEF EnCurso
  <1>7. ~rota' => Sanidad(metadata, bitmap, escrito, s, compactacion)
    <2>1. ~rota' => ~rota /\ ~defecto
      BY <1>2
    <2> QED
      BY <1>1, <1>3, <1>4, <2>1 DEF Sanidad
  <1>8. ~fuga => Justicia(metadata, bitmap, s, compactacion)
    BY <1>4 DEF Justicia
  <1>9. ~Compactando' /\ ~Mudandose(s)
    BY <1>2, <1>3, <1>4 DEF Compactando, Mudandose
  <1> QED
    BY <1>1, <1>2, <1>5, <1>6, <1>7, <1>8, <1>9 DEF IInv

\* The process ends, wherever it is: nothing of the request is left.
LEMMA MorirIInv ==
  ASSUME IInv, Morir
  PROVE  IInv'
  <1>1. /\ TypeOK /\ IsFiniteSet(DOMAIN metadata)
        /\ ~rota => Sanidad(metadata, bitmap, escrito, pendiente, compactacion)
        /\ ~fuga => Justicia(metadata, bitmap, pendiente, compactacion)
    BY DEF IInv
  <1>2. /\ bitmap' = bitmap /\ metadata' = metadata /\ escrito' = escrito /\ pendiente' = <<>>
        /\ compactacion' = SinCompactar /\ vivo' = FALSE /\ reinicios' = reinicios
        /\ fuga' = (fuga \/ ~EnReposo) /\ rota' = (rota \/ CorteMalo)
    BY DEF Morir, disco
  <1>3. TypeOK'
    <2>1. rota' \in BOOLEAN /\ fuga' \in BOOLEAN /\ vivo' \in BOOLEAN
      BY <1>1, <1>2, Tipos
    <2> QED
      BY <1>1, <1>2, <2>1, SinNada, Tipos, TiposDespues
  <1>4. ASSUME ~rota' PROVE Sanidad(metadata, bitmap, escrito, <<>>, SinCompactar)
    <2>1. ~rota /\ ~CorteMalo
      BY <1>2, <1>4
    <2>2. /\ Disjuntos(metadata, DOMAIN metadata) /\ Datos(metadata, escrito)
          /\ pendiente = <<>> => DeVarios(metadata, DOMAIN metadata) \subseteq bitmap
          /\ pendiente # <<>> => Sano(metadata, bitmap, pendiente)
      BY <1>1, <2>1 DEF Sanidad
    <2>3. ASSUME pendiente # <<>> PROVE DeVarios(metadata, DOMAIN metadata) \subseteq bitmap
      <3> DEFINE u == Ultimo(pendiente)
      <3>1. Len(pendiente) \in DOMAIN pendiente
        BY <1>1, <2>3, Tipos, Avance
      <3>2. ~Corta(metadata, u)
        BY <2>1, <2>3, <3>1 DEF CorteMalo, Corta, Ultimo, Tamanio
      <3>3. /\ Otras(metadata, u.archivo) \subseteq bitmap
            /\ u.archivo \in DOMAIN metadata => Ext(metadata, u.archivo) \subseteq bitmap
        BY <2>2, <2>3, <3>2 DEF Sano
      <3> HIDE DEF u
      <3>4. CASE u.archivo \in DOMAIN metadata
        BY <3>3, <3>4, Aparte
      <3>5. CASE u.archivo \notin DOMAIN metadata
        <4>1. DOMAIN metadata \ {u.archivo} = DOMAIN metadata
          BY <3>5
        <4> QED
          BY <3>3, <4>1 DEF Otras
      <3> QED
        BY <3>4, <3>5
    <2> QED
      BY <2>2, <2>3 DEF Sanidad
  <1>5. ASSUME ~fuga' PROVE Justicia(metadata, bitmap, <<>>, SinCompactar)
    <2>1. ~fuga /\ pendiente = <<>> /\ compactacion = SinCompactar
      BY <1>2, <1>5 DEF EnReposo, Compactando
    <2> QED
      BY <1>1, <2>1 DEF Justicia
  <1>6. ~Compactando' /\ ~Mudandose(<<>>)
    BY <1>2 DEF Compactando, Mudandose
  <1> QED
    BY <1>1, <1>2, <1>3, <1>4, <1>5, <1>6 DEF IInv, EnCurso

\* Nothing of it changes: the process starts again, a write of data.
LEMMA IgualIInv ==
  ASSUME IInv, UNCHANGED <<bitmap, metadata, pendiente, compactacion, fuga, rota>>,
         TypeOK', ~rota => Datos(metadata, escrito')
  PROVE  IInv'
  <1>1. /\ bitmap' = bitmap /\ metadata' = metadata /\ pendiente' = pendiente
        /\ compactacion' = compactacion /\ fuga' = fuga /\ rota' = rota
    OBVIOUS
  <1>2. /\ IsFiniteSet(DOMAIN metadata) /\ EnCurso(metadata, pendiente, compactacion)
        /\ ~rota => Sanidad(metadata, bitmap, escrito, pendiente, compactacion)
        /\ ~fuga => Justicia(metadata, bitmap, pendiente, compactacion)
        /\ Compactando => rota /\ Ordenado(metadata, compactacion)
                          /\ Turno(metadata, pendiente, compactacion)
        /\ Compactando /\ ~fuga => TurnoJusto(metadata, bitmap, pendiente, compactacion)
        /\ Mudandose(pendiente) => rota /\ Mudanza(metadata, pendiente)
        /\ Mudandose(pendiente) /\ ~fuga => MudanzaJusta(metadata, bitmap, pendiente)
    BY DEF IInv
  <1>3. ~rota => Sanidad(metadata, bitmap, escrito', pendiente, compactacion)
    BY <1>2 DEF Sanidad
  <1>4. Compactando' <=> Compactando
    BY <1>1 DEF Compactando
  <1> QED
    BY <1>1, <1>2, <1>3, <1>4 DEF IInv

LEMMA EnPaz ==
  ASSUME IInv, EnReposo
  PROVE  /\ Metadatas(metadata) /\ ~Compactando
         /\ ~rota => /\ Disjuntos(metadata, DOMAIN metadata) /\ Datos(metadata, escrito)
                     /\ DeVarios(metadata, DOMAIN metadata) \subseteq bitmap
         /\ ~fuga => bitmap \subseteq DeVarios(metadata, DOMAIN metadata)
  <1>1. pendiente = <<>> /\ ~Compactando /\ compactacion = SinCompactar
    BY DEF EnReposo, Compactando
  <1> QED
    BY <1>1, Tipos DEF IInv, Sanidad, Justicia

LEMMA Minimo ==
  ASSUME NEW S, S \subseteq Nat, S # {}
  PROVE  Min(S) \in S
  <1> DEFINE R == {ss \in Nat \X Nat : ss[1] < ss[2]}
  <1>1. IsWellFoundedOn(R, Nat)
    BY NatLessThanWellFounded DEF OpToRel
  <1>2. \A x, y \in Nat : y < x => <<y, x>> \in R
    OBVIOUS
  <1> HIDE DEF R
  <1>3. PICK x \in S : \A y \in S : ~(<<y, x>> \in R)
    BY <1>1, WFMin
  <1>4. \A y \in S : x \in Nat /\ y \in Nat /\ ~(y < x)
    BY <1>2, <1>3
  <1>5. \A y \in S : x <= y
    BY <1>4
  <1> QED
    BY <1>5 DEF Min

\* crear_archivo takes a free block, if there is one.
LEMMA CrearIInv ==
  ASSUME IInv, NEW f \in Archivos, Crear(f)
  PROVE  IInv'
  <1> DEFINE libres == (0 .. MaxBit - 1) \ bitmap
  <1>1. EnReposo
    BY DEF Crear, Atiende
  <1>2. CASE Existe(f) \/ libres = {}
    BY <1>2, MorirIInv DEF Crear
  <1>3. CASE ~Existe(f) /\ libres # {}
    <2> DEFINE b == Min(libres)
               s == PasosDeCrear(f, b)
    <2>1. libres \subseteq Nat
      BY Bits
    <2>2. b \in libres
      BY <1>3, <2>1, Minimo
    <2>3. b \in Nat /\ b \notin bitmap /\ f \notin DOMAIN metadata
      BY <1>3, <2>1, <2>2 DEF Existe
    <2>4. Empezar(s, FALSE)
      BY <1>3 DEF Crear
    <2> HIDE DEF b
    <2>5. /\ EnMarcha(metadata, s)
          /\ DeVarios(metadata, DOMAIN metadata) \subseteq bitmap => Sano(metadata, bitmap, s)
          /\ bitmap \subseteq DeVarios(metadata, DOMAIN metadata) => Justo(metadata, bitmap, s)
      BY <2>3, AlCrear
    <2> HIDE DEF s
    <2>6. (~rota => Sano(metadata, bitmap, s)) /\ (~fuga => Justo(metadata, bitmap, s)) /\ ~Compactando
      BY <1>1, <2>5, EnPaz
    <2> QED
      BY <2>4, <2>5, <2>6, EmpezarIInv
  <1> QED
    BY <1>2, <1>3

\* borrar_archivo.
LEMMA BorrarIInv ==
  ASSUME IInv, NEW f \in Archivos, Borrar(f)
  PROVE  IInv'
  <1>1. EnReposo
    BY DEF Borrar, Atiende
  <1>2. CASE ~Existe(f)
    BY <1>2, MorirIInv DEF Borrar
  <1>3. CASE Existe(f)
    <2> DEFINE s == PasosDeBorrar(f)
               d == BorraAjeno(f)
    <2>1. Empezar(s, d) /\ f \in DOMAIN metadata /\ d \in BOOLEAN
      BY <1>3 DEF Borrar, Existe, BorraAjeno
    <2>2. /\ Metadatas(metadata) /\ ~Compactando
          /\ ~rota => /\ Disjuntos(metadata, DOMAIN metadata)
                      /\ DeVarios(metadata, DOMAIN metadata) \subseteq bitmap
          /\ ~fuga => bitmap \subseteq DeVarios(metadata, DOMAIN metadata)
      BY <1>1, EnPaz
    <2>3. /\ EnMarcha(metadata, s)
          /\ /\ Disjuntos(metadata, DOMAIN metadata)
             /\ DeVarios(metadata, DOMAIN metadata) \subseteq bitmap
             /\ ~d
             => Sano(metadata, bitmap, s)
          /\ bitmap \subseteq DeVarios(metadata, DOMAIN metadata) => Justo(metadata, bitmap, s)
      BY <2>1, <2>2, AlBorrar
    <2> HIDE DEF s, d
    <2> QED
      BY <2>1, <2>2, <2>3, EmpezarIInv
  <1> QED
    BY <1>2, <1>3

\* acortar_archivo.
LEMMA AcortarIInv ==
  ASSUME IInv, NEW f \in Archivos, NEW t \in Nat, Acortar(f, t)
  PROVE  IInv'
  <1> DEFINE s == PasosDeAcortar(f, t)
             d == AcortaMal(t)
  <1>1. EnReposo /\ Empezar(s, d) /\ f \in DOMAIN metadata /\ t < Tamanio(f) /\ d \in BOOLEAN
    BY DEF Acortar, Atiende, Existe, AcortaMal
  <1>2. /\ Metadatas(metadata) /\ ~Compactando
        /\ ~rota => /\ Disjuntos(metadata, DOMAIN metadata)
                    /\ DeVarios(metadata, DOMAIN metadata) \subseteq bitmap
        /\ ~fuga => bitmap \subseteq DeVarios(metadata, DOMAIN metadata)
    BY <1>1, EnPaz
  <1>3. /\ EnMarcha(metadata, s)
        /\ /\ Disjuntos(metadata, DOMAIN metadata)
           /\ DeVarios(metadata, DOMAIN metadata) \subseteq bitmap
           /\ ~d
           => Sano(metadata, bitmap, s)
        /\ bitmap \subseteq DeVarios(metadata, DOMAIN metadata) => Justo(metadata, bitmap, s)
    BY <1>1, <1>2, AlAcortar
  <1> HIDE DEF s, d
  <1> QED
    BY <1>1, <1>2, <1>3, EmpezarIInv

\* agrandar_archivo, in its blocks or in the free ones that follow.
LEMMA CrecerEnElBloqueIInv ==
  ASSUME IInv, NEW f \in Archivos, NEW t \in Nat, CrecerEnElBloque(f, t)
  PROVE  IInv'
  <1> DEFINE s == <<Paso("tamanio", f, t)>>
  <1>1. /\ EnReposo /\ Empezar(s, FALSE) /\ f \in DOMAIN metadata /\ t >= Tamanio(f)
        /\ BloquesAdicionales(f, t) = 0
    BY DEF CrecerEnElBloque, Atiende, Existe
  <1>2. /\ Metadatas(metadata) /\ ~Compactando
        /\ ~rota => /\ Disjuntos(metadata, DOMAIN metadata)
                    /\ DeVarios(metadata, DOMAIN metadata) \subseteq bitmap
        /\ ~fuga => bitmap \subseteq DeVarios(metadata, DOMAIN metadata)
    BY <1>1, EnPaz
  <1>3. /\ EnMarcha(metadata, s)
        /\ /\ Disjuntos(metadata, DOMAIN metadata)
           /\ DeVarios(metadata, DOMAIN metadata) \subseteq bitmap
           => Sano(metadata, bitmap, s)
        /\ bitmap \subseteq DeVarios(metadata, DOMAIN metadata) => Justo(metadata, bitmap, s)
    BY <1>1, <1>2, AlCrecerEnElBloque
  <1> HIDE DEF s
  <1> QED
    BY <1>1, <1>2, <1>3, EmpezarIInv

LEMMA CrecerIInv ==
  ASSUME IInv, NEW f \in Archivos, NEW t \in Nat, Crecer(f, t)
  PROVE  IInv'
  <1> DEFINE s == PasosDeCrecer(f, t)
             n == BloquesAdicionales(f, t)
             d == CreceMal(f, t)
  <1>1. /\ EnReposo /\ Empezar(s, d) /\ f \in DOMAIN metadata /\ t >= Tamanio(f) /\ n > 0
        /\ SonLibres(UltimoAlCrecer(f), n) /\ d \in BOOLEAN
    BY DEF Crecer, Atiende, Existe, CreceMal
  <1>2. /\ Metadatas(metadata) /\ ~Compactando
        /\ ~rota => /\ Disjuntos(metadata, DOMAIN metadata)
                    /\ DeVarios(metadata, DOMAIN metadata) \subseteq bitmap
        /\ ~fuga => bitmap \subseteq DeVarios(metadata, DOMAIN metadata)
    BY <1>1, EnPaz
  <1>3. n >= 0
    BY <1>1, <1>2, Medidas, Techos DEF BloquesAdicionales
  <1>4. /\ EnMarcha(metadata, s)
        /\ /\ Disjuntos(metadata, DOMAIN metadata)
           /\ DeVarios(metadata, DOMAIN metadata) \subseteq bitmap
           /\ n > 0 /\ SonLibres(UltimoAlCrecer(f), n) /\ ~d /\ t >= Tamanio(f)
           => Sano(metadata, bitmap, s)
        /\ bitmap \subseteq DeVarios(metadata, DOMAIN metadata) => Justo(metadata, bitmap, s)
    BY <1>1, <1>2, <1>3, AlCrecer
  <1> HIDE DEF s, d, n
  <1> QED
    BY <1>1, <1>2, <1>4, EmpezarIInv

\* The sequences of SetToSeqs have each element once.
LEMMA Secuencias ==
  ASSUME NEW D, IsFiniteSet(D), NEW q \in SetToSeqs(D)
  PROVE  /\ q \in Seq(D) /\ Len(q) \in Nat
         /\ \A i, j \in 1 .. Len(q) : i # j => q[i] # q[j]
         /\ {q[i] : i \in 1 .. Len(q)} = D
  <1> DEFINE n == Cardinality(D)
             I == 1 .. n
  <1>1. n \in Nat
    BY FS_CardinalityType
  <1>2. q \in [I -> D] /\ \A i, j \in I : i # j => q[i] # q[j]
    BY DEF SetToSeqs
  <1>3. Cardinality(I) = n
    BY <1>1, FS_Interval
  <1>4. q \in Seq(D) /\ Len(q) = n
    BY <1>1, <1>2
  <1> HIDE DEF n, I
  <1>5. q \in Injection(I, D)
    BY <1>2 DEF Injection, IsInjective
  <1>6. q \in Surjection(I, D)
    <2>1. Cardinality(I) = Cardinality(D) <=> q \in Surjection(I, D)
      BY <1>5, FS_Injection
    <2> QED
      BY <1>3, <2>1 DEF n
  <1>7. {q[i] : i \in I} = D
    BY <1>2, <1>6 DEF Surjection
  <1> QED
    BY <1>1, <1>2, <1>4, <1>7 DEF I

ConElUltimo(o, n, D, f) ==
  /\ o \in Seq(D) /\ n \in Nat /\ n > 0 /\ o[n] = f
  /\ \A i, j \in 1 .. n : i # j => o[i] # o[j]
  /\ {o[i] : i \in 1 .. n - 1} = D \ {f} /\ {o[i] : i \in 1 .. n} = D

LEMMA SecuenciasAlFinal ==
  ASSUME NEW D, IsFiniteSet(D), NEW f \in D, NEW q \in SetToSeqs(D \ {f}),
         NEW o, o = Append(q, f)
  PROVE  ConElUltimo(o, Len(o), D, f)
  <1> DEFINE E == D \ {f}
             k == Len(q)
  <1>1. IsFiniteSet(E)
    BY FS_RemoveElement
  <1>2. /\ q \in Seq(E) /\ k \in Nat /\ \A i, j \in 1 .. k : i # j => q[i] # q[j]
        /\ {q[i] : i \in 1 .. k} = E
    <2> HIDE DEF E
    <2> QED
      BY <1>1, Secuencias DEF E
  <1>3. q \in Seq(D) /\ \A i \in 1 .. k : q[i] # f
    BY <1>2
  <1>4. o \in Seq(D) /\ Len(o) = k + 1 /\ o[k + 1] = f /\ \A i \in 1 .. k : o[i] = q[i]
    BY <1>2, <1>3
  <1> HIDE DEF k
  <1>5. {o[i] : i \in 1 .. k} = E
    BY <1>2, <1>4
  <1>6. {o[i] : i \in 1 .. k + 1} = D
    <2>1. 1 .. k + 1 = (1 .. k) \cup {k + 1}
      BY <1>2
    <2>2. {o[i] : i \in 1 .. k + 1} = {o[i] : i \in 1 .. k} \cup {o[k + 1]}
      BY <2>1
    <2> QED
      BY <1>4, <1>5, <2>2
  <1>7. \A i, j \in 1 .. k + 1 : i # j => o[i] # o[j]
    <2>1. \A i \in 1 .. k + 1 : i \in 1 .. k \/ i = k + 1
      BY <1>2
    <2> QED
      BY <1>2, <1>3, <1>4, <2>1
  <1>8. Len(o) - 1 = k /\ k + 1 > 0 /\ k + 1 \in Nat
    BY <1>2, <1>4
  <1> QED
    BY <1>4, <1>5, <1>6, <1>7, <1>8 DEF ConElUltimo

\* compactar_file_system frees the file that grows first.
LEMMA CompactarIInv ==
  ASSUME IInv, EnReposo, NEW f \in DOMAIN metadata, NEW t \in Nat, Compactar(f, t)
  PROVE  IInv'
  <1> DEFINE m == metadata
             c == compactacion'
             a == Inicial(f)
             n == Cantidad(f)
             s == Bloques("liberar", f, a, n)
  <1>1. /\ TypeOK /\ IsFiniteSet(DOMAIN m) /\ Metadatas(m)
        /\ ~fuga => bitmap \subseteq DeVarios(m, DOMAIN m)
    BY EnPaz DEF IInv
  <1>2. PICK q \in SetToSeqs(DOMAIN m \ {f}) :
          c = [SinCompactar EXCEPT !.orden = Append(q, f), !.tamanio = t]
    BY DEF Compactar
  <1>3. /\ bitmap' = bitmap /\ metadata' = metadata /\ escrito' = escrito /\ pendiente' = s
        /\ vivo' = vivo /\ reinicios' = reinicios /\ fuga' = fuga /\ rota' = TRUE
    BY DEF Compactar, disco
  <1> DEFINE o == Append(q, f)
             k == Len(o)
  <1>4. /\ c.orden = o /\ c.liberados = 0 /\ c.empaquetados = 0 /\ c.libre = 0 /\ c.tamanio = t
        /\ c = [orden |-> o, liberados |-> 0, empaquetados |-> 0, libre |-> 0, tamanio |-> t]
    BY <1>2 DEF SinCompactar
  <1>5. /\ o \in Seq(DOMAIN m) /\ k \in Nat /\ k > 0 /\ o[k] = f
        /\ \A i, j \in 1 .. k : i # j => o[i] # o[j]
        /\ {o[i] : i \in 1 .. k - 1} = DOMAIN m \ {f} /\ {o[i] : i \in 1 .. k} = DOMAIN m
    <2> DEFINE D == DOMAIN m
    <2>1. IsFiniteSet(D) /\ f \in D /\ q \in SetToSeqs(D \ {f}) /\ o = Append(q, f)
      BY <1>1
    <2> HIDE DEF D, o
    <2>2. ConElUltimo(o, Len(o), D, f)
      BY <2>1, SecuenciasAlFinal
    <2> QED
      BY <2>2 DEF D, ConElUltimo
  <1> HIDE DEF o, k
  <1>6. o \in Seq(Archivos) /\ o # <<>>
    BY <1>1, <1>5 DEF Metadatas, k
  <1>7. c \in Compactaciones
    BY <1>4, <1>6 DEF Compactaciones
  <1>8. c # SinCompactar
    <2>1. SinCompactar.orden = <<>>
      BY DEF SinCompactar
    <2> QED
      BY <1>4, <1>6, <2>1
  <1>9. /\ f \in Archivos /\ n \in Nat /\ n > 0 /\ a \in Nat
        /\ Ext(m, f) = a .. a + n - 1
        /\ DeVarios(m, DOMAIN m) = Otras(m, f) \cup Ext(m, f)
    BY <1>1, Medidas
  <1> HIDE DEF n, a
  <1>10. /\ s \in Seq(Pasos) /\ Len(s) = n /\ \A i \in 1 .. n : s[i].accion = "liberar" /\ s[i].archivo = f
         /\ Valores(s, "liberar") = Ext(m, f)
    <2>0. f \in Archivos /\ n \in Nat /\ a \in Nat
      BY <1>9
    <2>1. Liberan(s, f, a, n)
      BY <2>0, LosQueLibera
    <2> QED
      BY <1>9, <2>1 DEF Liberan
  <1> HIDE DEF s
  <1>11. /\ s # <<>> /\ Ultimo(s).accion = "liberar" /\ Ultimo(s).archivo = f
    <2>1. n \in 1 .. n
      BY <1>9
    <2>2. s # <<>>
      BY <1>9, <1>10
    <2> QED
      BY <1>10, <2>1, <2>2 DEF Ultimo
  <1>12. EnCurso(m, s, c)
    <2>1. \A i \in 1 .. n - 1 : i \in 1 .. n
      BY <1>9
    <2>2. Forma(m, s)
      BY <1>10, <1>11, <2>1 DEF Forma
    <2> QED
      BY <1>8, <1>11, <2>2 DEF EnCurso, Simples
  <1>13. ~fuga => Justicia(m, bitmap, s, c)
    BY <1>11 DEF Justicia, Simples
  <1> HIDE DEF c
  <1>14. Ordenado(m, c)
    BY <1>4, <1>5 DEF Ordenado, Puestos, k
  <1>15. Turno(m, s, c)
    <2>1. 0 <= Len(c.orden) - 1
      BY <1>4, <1>5 DEF k
    <2>2. \A i \in 1 .. Len(s) : s[i].accion = "liberar"
      BY <1>10
    <2> QED
      BY <1>4, <1>11, <2>1, <2>2 DEF Turno
  <1>16. ~fuga => TurnoJusto(m, bitmap, s, c)
    <2>1. PorLiberar(c) = DOMAIN m \ {f}
      <3>1. c.liberados + 1 = 1 /\ Len(c.orden) = k
        BY <1>4 DEF k
      <3> QED
        BY <1>4, <1>5, <3>1 DEF PorLiberar
    <2>2. DeVarios(m, PorLiberar(c)) = Otras(m, f)
      BY <2>1 DEF Otras
    <2>3. ~fuga => bitmap \subseteq Valores(s, "liberar") \cup DeVarios(m, PorLiberar(c))
      BY <1>1, <1>9, <1>10, <2>2
    <2>4. ~(c.empaquetados > 0)
      BY <1>4
    <2> QED
      BY <2>3, <2>4 DEF TurnoJusto
  <1>17. ~Mudandose(s)
    BY <1>11 DEF Mudandose
  <1>18. TypeOK'
    BY <1>1, <1>3, <1>7, <1>10, Tipos, TiposDespues DEF c
  <1> QED
    BY <1>1, <1>3, <1>12, <1>13, <1>14, <1>15, <1>16, <1>17, <1>18 DEF IInv, c

\* escribir_archivo: a write within the file stays in its blocks.
LEMMA EscribirIInv ==
  ASSUME IInv, NEW f \in Archivos, NEW p \in Nat, NEW t \in Nat \ {0}, EscribirArchivo(f, p, t)
  PROVE  IInv'
  <1> DEFINE m == metadata
             T == Tocados(p, t)
             nuevos == {<<f, i, Inicial(f) + i>> : i \in T}
  <1>1. EnReposo
    BY DEF EscribirArchivo, Atiende
  <1>2. CASE ~(Existe(f) /\ p + t <= Tamanio(f))
    BY <1>2, MorirIInv DEF EscribirArchivo
  <1>3. CASE Existe(f) /\ p + t <= Tamanio(f)
    <2>1. /\ escrito' = {e \in escrito : ~(e[1] = f /\ e[2] \in T)} \cup nuevos
          /\ UNCHANGED <<bitmap, metadata, pendiente, compactacion, reinicios, fuga, rota>>
          /\ vivo' \in BOOLEAN
      BY <1>3 DEF EscribirArchivo
    <2>2. /\ f \in DOMAIN m /\ Metadatas(m) /\ TypeOK
          /\ ~rota => Datos(m, escrito)
      BY <1>1, <1>3, EnPaz DEF Existe, IInv
    <2>3. /\ Inicial(f) \in Nat /\ Tamanio(f) \in Nat /\ Cantidad(f) \in Nat
          /\ (Tamanio(f) > 0 => Techo(Tamanio(f)) = Cantidad(f))
      BY <2>2, Medidas
    <2>4. \A i \in T : i \in 0 .. Cantidad(f) - 1
      <3> DEFINE b == p \div block_size
                 c == (p + t - 1) \div block_size
                 z == (Tamanio(f) - 1) \div block_size
      <3>1. b \in Int /\ b >= 0 /\ c \in Int /\ z \in Int
        BY <2>3, Division, BloquesAssumption
      <3>2. c <= z
        <4>1. p + t - 1 \in Int /\ Tamanio(f) - 1 \in Int /\ p + t - 1 <= Tamanio(f) - 1
          BY <1>3, <2>3
        <4> QED
          BY <4>1, DivisionCrece, BloquesAssumption
      <3>3. Tamanio(f) > 0
        BY <1>3, <2>3
      <3>4. z = Cantidad(f) - 1
        BY <2>3, <3>3, Techos
      <3>5. T = b .. c
        BY DEF Tocados
      <3> HIDE DEF b, c, z, T
      <3> QED
        BY <2>3, <3>1, <3>2, <3>4, <3>5
    <2> HIDE DEF T
    <2>5. \A e \in nuevos : /\ e[1] = f /\ e[2] \in 0 .. Cantidad(f) - 1
                            /\ e[3] = Inicial(f) + e[2] /\ e \in Archivos \X Nat \X Nat
      BY <2>3, <2>4
    <2> HIDE DEF nuevos
    <2>6. escrito' \subseteq Archivos \X Nat \X Nat
      BY <2>1, <2>2, <2>5, Tipos
    <2>7. TypeOK'
      <3>1. /\ bitmap' = bitmap /\ metadata' = metadata /\ pendiente' = pendiente
            /\ compactacion' = compactacion /\ reinicios' = reinicios /\ fuga' = fuga /\ rota' = rota
        BY <2>1
      <3> QED
        BY <2>1, <2>2, <2>6, <3>1, Tipos, TiposDespues
    <2>8. ASSUME ~rota PROVE Datos(m, escrito')
      <3>1. \A e \in escrito' : e \in escrito \/ e \in nuevos
        BY <2>1
      <3>2. \A e \in nuevos : /\ e[1] \in DOMAIN m /\ e[2] \in 0 .. BloquesDe(m[e[1]].tamanio) - 1
                              /\ e[3] = m[e[1]].inicial + e[2]
        BY <2>2, <2>5 DEF Cantidad, Inicial, Tamanio
      <3> QED
        BY <2>2, <2>8, <3>1, <3>2 DEF Datos
    <2> QED
      BY <2>1, <2>7, <2>8, IgualIInv
  <1> QED
    BY <1>2, <1>3

LEMMA ReiniciarIInv ==
  ASSUME IInv, Reiniciar
  PROVE  IInv'
  <1>1. /\ bitmap' = bitmap /\ metadata' = metadata /\ escrito' = escrito /\ pendiente' = pendiente
        /\ compactacion' = compactacion /\ fuga' = fuga /\ rota' = rota
        /\ vivo' = TRUE /\ reinicios' = reinicios + 1 /\ reinicios < MAX_REINICIOS
    BY DEF Reiniciar, disco
  <1>2. TypeOK /\ (~rota => Sanidad(metadata, bitmap, escrito, pendiente, compactacion))
    BY DEF IInv
  <1>3. reinicios' \in 0 .. MAX_REINICIOS /\ vivo' \in BOOLEAN
    <2>1. reinicios \in 0 .. MAX_REINICIOS
      BY <1>2, Tipos
    <2> QED
      BY <1>1, <2>1, PedidosAssumption
  <1>4. TypeOK'
    BY <1>1, <1>2, <1>3, Tipos, TiposDespues
  <1>5. ~rota => Datos(metadata, escrito')
    BY <1>1, <1>2 DEF Sanidad
  <1> QED
    BY <1>1, <1>4, <1>5, IgualIInv

LEMMA PedidoIInv ==
  ASSUME IInv, NEW f \in Archivos, Pedido(f)
  PROVE  IInv'
  <1>1. CASE Crear(f)
    BY <1>1, CrearIInv
  <1>2. CASE Borrar(f)
    BY <1>2, BorrarIInv
  <1>3. CASE TruncarInexistente(f)
    BY <1>3, MorirIInv DEF TruncarInexistente
  <1>4. CASE TruncarVacioACero(f)
    <2>1. EnReposo /\ f \in DOMAIN metadata /\ (Morir \/ Compactar(f, 0)) /\ 0 \in Nat
      BY <1>4 DEF TruncarVacioACero, Atiende, Existe
    <2> QED
      BY <2>1, MorirIInv, CompactarIInv
  <1>5. ASSUME NEW t \in Tamanios,
               \/ Acortar(f, t) \/ CrecerEnElBloque(f, t) \/ CrecerFueraDeRango(f, t)
               \/ Crecer(f, t) \/ CrecerCompactando(f, t)
        PROVE  IInv'
    <2>1. t \in Nat
      BY PedidosAssumption
    <2>2. CASE Acortar(f, t)
      BY <2>1, <2>2, AcortarIInv
    <2>3. CASE CrecerEnElBloque(f, t)
      BY <2>1, <2>3, CrecerEnElBloqueIInv
    <2>4. CASE CrecerFueraDeRango(f, t)
      BY <2>4, MorirIInv DEF CrecerFueraDeRango
    <2>5. CASE Crecer(f, t)
      BY <2>1, <2>5, CrecerIInv
    <2>6. CASE CrecerCompactando(f, t)
      <3>1. EnReposo /\ f \in DOMAIN metadata /\ Compactar(f, t)
        BY <2>6 DEF CrecerCompactando, Atiende, Existe
      <3> QED
        BY <2>1, <3>1, CompactarIInv
    <2> QED
      BY <1>5, <2>2, <2>3, <2>4, <2>5, <2>6
  <1>6. ASSUME NEW t \in Tamanios \ {0}, NEW p \in Punteros,
               EscribirArchivo(f, p, t) \/ LeerArchivo(f, p, t)
        PROVE  IInv'
    <2>1. t \in Nat \ {0} /\ p \in Nat
      BY PedidosAssumption
    <2>2. CASE EscribirArchivo(f, p, t)
      BY <2>1, <2>2, EscribirIInv
    <2>3. CASE LeerArchivo(f, p, t)
      BY <2>3, MorirIInv DEF LeerArchivo
    <2> QED
      BY <1>6, <2>2, <2>3
  <1> QED
    BY <1>1, <1>2, <1>3, <1>4, <1>5, <1>6 DEF Pedido

-----------------------------------------------------------------------------
(* The writes.  First the bits: asignar_bloque and liberar_bloque.         *)

\* The first write left is about a bit, and bn is the bitmap when it is done.
Marca(s, bm, bn) ==
  \/ Head(s).accion = "asignar" /\ bn = bm \cup {Head(s).valor}
  \/ Head(s).accion = "liberar" /\ bn = bm \ {Head(s).valor}

LEMMA Marcas ==
  ASSUME NEW s \in Seq(Pasos), s # <<>>, NEW bm, NEW bn, Marca(s, bm, bn)
  PROVE  /\ bn \cup Valores(Tail(s), "asignar") \subseteq bm \cup Valores(s, "asignar")
         /\ Head(s).accion = "liberar" =>
              \A P : bm \subseteq Valores(s, "liberar") \cup P =>
                       bn \subseteq Valores(Tail(s), "liberar") \cup P
  <1> DEFINE v == Head(s).valor
             a == Head(s).accion
  <1>1. \A e : Valores(s, e) = Valores(Tail(s), e) \cup (IF a = e THEN {v} ELSE {})
    BY ValoresAlAvanzar
  <1>2. (a = "asignar" /\ bn = bm \cup {v}) \/ (a = "liberar" /\ bn = bm \ {v})
    BY DEF Marca
  <1> HIDE DEF v, a
  <1>3. bn \cup Valores(Tail(s), "asignar") \subseteq bm \cup Valores(s, "asignar")
    <2>1. CASE a = "asignar" /\ bn = bm \cup {v}
      <3>1. Valores(s, "asignar") = Valores(Tail(s), "asignar") \cup {v}
        BY <1>1, <2>1
      <3> QED
        BY <2>1, <3>1
    <2>2. CASE a = "liberar" /\ bn = bm \ {v}
      <3>1. Valores(Tail(s), "asignar") \subseteq Valores(s, "asignar")
        BY <1>1
      <3> QED
        BY <2>2, <3>1
    <2> QED
      BY <1>2, <2>1, <2>2
  <1>4. ASSUME a = "liberar"
        PROVE  \A P : bm \subseteq Valores(s, "liberar") \cup P =>
                        bn \subseteq Valores(Tail(s), "liberar") \cup P
    <2>1. Valores(s, "liberar") = Valores(Tail(s), "liberar") \cup {v}
      BY <1>1, <1>4
    <2>2. bn = bm \ {v}
      BY <1>2, <1>4
    <2> QED
      BY <2>1, <2>2
  <1> QED
    BY <1>3, <1>4 DEF a

\* In a turn of a compaction.
LEMMA MarcaEnTurno ==
  ASSUME NEW m, NEW s \in Seq(Pasos), s # <<>>, NEW bm, NEW bn, Marca(s, bm, bn),
         NEW c \in Compactaciones, Turno(m, s, c)
  PROVE  /\ Turno(m, Tail(s), c)
         /\ TurnoJusto(m, bm, s, c) => TurnoJusto(m, bn, Tail(s), c)
  <1> DEFINE r == Tail(s)
             n == Len(s)
             u == Ultimo(s)
             e == c.empaquetados
  <1>1. /\ n \in Nat \ {0} /\ Head(s) = s[1] /\ Len(r) = n - 1
        /\ \A k \in 1 .. n - 1 : r[k] = s[k + 1]
        /\ n > 1 => r # <<>> /\ Ultimo(r) = u
        /\ n = 1 => r = <<>> /\ u = Head(s)
    BY Avance
  <1>2. Head(s).accion \in {"asignar", "liberar"}
    BY DEF Marca
  <1>3. e \in Nat
    BY DEF Compactaciones
  <1>4. /\ c.liberados <= Len(c.orden) - 1 /\ e <= Len(c.orden) - 1
        /\ e > 0 => c.liberados = Len(c.orden) - 1
        /\ e = 0 => c.libre = 0
    BY DEF Turno
  <1>5. e = 0 => \A k \in 1 .. n : s[k].accion = "liberar"
    BY DEF Turno
  <1>6. e > 0 => /\ u.accion = "inicial" /\ u.archivo = c.orden[e]
                 /\ u.valor + BloquesDe(m[u.archivo].tamanio) = c.libre
                 /\ Acomodados(m, Puestos(c, e - 1), u.valor)
    BY DEF Turno
  <1>7. e > 0 => n > 1
    BY <1>1, <1>2, <1>6
  <1>8. e = 0 => \A k \in 1 .. Len(r) : r[k].accion = "liberar"
    <2>1. \A k \in 1 .. n - 1 : k + 1 \in 1 .. n
      BY <1>1
    <2> QED
      BY <1>1, <1>5, <2>1
  <1>9. r = <<>> => Acomodados(m, Puestos(c, e), c.libre)
    <2>1. r = <<>> => e = 0
      BY <1>1, <1>3, <1>7
    <2>2. Puestos(c, 0) = {} /\ 0 .. 0 - 1 = {}
      BY DEF Puestos
    <2>3. Acomodados(m, {}, 0)
      BY <2>2 DEF Acomodados, Disjuntos, DeVarios
    <2> QED
      BY <1>4, <2>1, <2>2, <2>3
  <1>10. Turno(m, r, c)
    BY <1>1, <1>4, <1>6, <1>7, <1>8, <1>9 DEF Turno
  <1>11. ASSUME TurnoJusto(m, bm, s, c) PROVE TurnoJusto(m, bn, r, c)
    <2>1. CASE e = 0
      <3>1. Head(s).accion = "liberar"
        BY <1>1, <1>5, <2>1
      <3>2. bm \subseteq Valores(s, "liberar") \cup DeVarios(m, PorLiberar(c))
        BY <1>11, <2>1 DEF TurnoJusto
      <3>3. bn \subseteq Valores(r, "liberar") \cup DeVarios(m, PorLiberar(c))
        BY <3>1, <3>2, Marcas
      <3> QED
        BY <2>1, <3>3 DEF TurnoJusto
    <2>2. CASE e > 0
      <3>1. bm \cup Valores(s, "asignar") \subseteq 0 .. c.libre - 1
        BY <1>11, <2>2 DEF TurnoJusto
      <3>2. bn \cup Valores(r, "asignar") \subseteq bm \cup Valores(s, "asignar")
        BY Marcas
      <3> QED
        BY <2>2, <3>1, <3>2 DEF TurnoJusto
    <2> QED
      BY <1>3, <2>1, <2>2
  <1> QED
    BY <1>10, <1>11

\* In a request that has been cut into a move: the file that grows.
LEMMA AvanceDeMudanza ==
  ASSUME NEW m, NEW s \in Seq(Pasos), Mudandose(s), Mudanza(m, s),
         Head(s).accion \in {"asignar", "liberar", "copiar"},
         NEW bm, NEW bn,
         bn \cup Valores(Tail(s), "asignar") \subseteq bm \cup Valores(s, "asignar")
  PROVE  /\ Len(s) > 1 /\ Head(s).accion # "liberar"
         /\ Mudandose(Tail(s)) /\ Mudanza(m, Tail(s))
         /\ MudanzaJusta(m, bm, s) => MudanzaJusta(m, bn, Tail(s))
  <1> DEFINE r == Tail(s)
             n == Len(s)
             u == Ultimo(s)
             v == s[n - 1]
  <1>1. s # <<>> /\ u.accion = "reverificar"
    BY DEF Mudandose
  <1>2. /\ n \in Nat \ {0} /\ Head(s) = s[1] /\ Len(r) = n - 1
        /\ \A k \in 1 .. n - 1 : r[k] = s[k + 1]
        /\ n > 1 => r # <<>> /\ Ultimo(r) = u
        /\ n = 1 => u = Head(s)
    BY <1>1, Avance
  <1>3. n # 1
    BY <1>1, <1>2
  <1>4. /\ v.accion = "inicial" /\ \A k \in 1 .. n - 2 : s[k].accion \in {"copiar", "asignar"}
        /\ Acomodados(m, DOMAIN m \ {v.archivo}, v.valor)
    BY <1>2, <1>3 DEF Mudanza
  <1> HIDE DEF r, n, u
  <1>5. n # 2
    BY <1>2, <1>4
  <1>6. n > 2 /\ Len(r) = n - 1 /\ Len(r) - 1 = n - 2 /\ Len(r) - 2 = n - 3 /\ Len(r) > 1 /\ Len(r) # 1
    BY <1>2, <1>3, <1>5
  <1>7. r[n - 2] = v
    BY <1>2, <1>6
  <1>8. \A k \in 1 .. n - 3 : r[k].accion \in {"copiar", "asignar"}
    <2>1. \A k \in 1 .. n - 3 : k \in 1 .. n - 1 /\ k + 1 \in 1 .. n - 2
      BY <1>2, <1>6
    <2> QED
      BY <1>2, <1>4, <2>1
  <1> HIDE DEF v
  <1>9. Mudanza(m, r)
    BY <1>4, <1>6, <1>7, <1>8 DEF Mudanza
  <1>10. Mudandose(r)
    BY <1>1, <1>2, <1>6 DEF Mudandose
  <1>11. ASSUME MudanzaJusta(m, bm, s) PROVE MudanzaJusta(m, bn, r)
    <2> DEFINE B == 0 .. v.valor + BloquesDe(m[v.archivo].tamanio) - 1
    <2>1. bm \cup Valores(s, "asignar") \subseteq B
      BY <1>6, <1>11 DEF MudanzaJusta, n, v
    <2>2. bn \cup Valores(r, "asignar") \subseteq B
      <3> HIDE DEF B
      <3> QED
        BY <2>1 DEF r
    <2> QED
      BY <1>6, <1>7, <2>2 DEF MudanzaJusta
  <1>12. Head(s).accion # "liberar"
    <2>1. 1 \in 1 .. n - 2
      BY <1>2, <1>6
    <2>2. s[1].accion \in {"copiar", "asignar"}
      BY <1>4, <2>1
    <2> QED
      BY <1>2, <2>2
  <1> QED
    BY <1>6, <1>9, <1>10, <1>11, <1>12 DEF r, n

\* In a request: what it will leave stays.
LEMMA MarcaEnPedido ==
  ASSUME NEW m, NEW s \in Seq(Pasos), s # <<>>, Forma(m, s), Ultimo(s).accion \in Simples,
         NEW bm, NEW bn, Marca(s, bm, bn)
  PROVE  /\ Tail(s) # <<>> /\ Ultimo(Tail(s)) = Ultimo(s)
         /\ Sano(m, bm, s) => Sano(m, bn, Tail(s))
         /\ Justo(m, bm, s) => Justo(m, bn, Tail(s))
  <1>1. Head(s).accion \notin Simples
    BY DEF Marca, Simples
  <1>2. Len(s) > 1 /\ Tail(s) # <<>> /\ Ultimo(Tail(s)) = Ultimo(s)
    <2>1. Len(s) # 1
      BY <1>1, Avance
    <2>2. PICK n \in Nat \ {0} : n = Len(s)
      BY Avance
    <2>3. \A k \in Nat \ {0} : k # 1 => k > 1
      OBVIOUS
    <2>4. Len(s) > 1
      BY <2>1, <2>2, <2>3
    <2> QED
      BY <2>4, Avance
  <1>3. CASE Head(s).accion = "asignar" /\ bn = bm \cup {Head(s).valor}
    BY <1>2, <1>3, Asigna
  <1>4. CASE Head(s).accion = "liberar" /\ bn = bm \ {Head(s).valor}
    BY <1>2, <1>4, Libera
  <1> QED
    BY <1>2, <1>3, <1>4 DEF Marca

LEMMA MarcaIInv ==
  ASSUME IInv, pendiente # <<>>, Marca(pendiente, bitmap, bitmap'),
         bitmap' \subseteq 0 .. MaxBit - 1, UNCHANGED <<metadata, escrito>>, Sigue
  PROVE  IInv'
  <1> DEFINE m == metadata
             s == pendiente
             r == Tail(s)
             bm == bitmap
             bn == bitmap'
             c == compactacion
             u == Ultimo(pendiente)
  <1>1. /\ metadata' = m /\ escrito' = escrito /\ pendiente' = r /\ compactacion' = c
        /\ vivo' = vivo /\ reinicios' = reinicios /\ fuga' = fuga /\ rota' = rota
    BY DEF Sigue
  <1>2. /\ TypeOK /\ IsFiniteSet(DOMAIN m) /\ EnCurso(m, s, c)
        /\ ~rota => Sanidad(m, bm, escrito, s, c)
        /\ ~fuga => Justicia(m, bm, s, c)
        /\ Compactando => rota /\ Ordenado(m, c) /\ Turno(m, s, c)
        /\ Compactando /\ ~fuga => TurnoJusto(m, bm, s, c)
        /\ Mudandose(s) => rota /\ Mudanza(m, s)
        /\ Mudandose(s) /\ ~fuga => MudanzaJusta(m, bm, s)
    BY DEF IInv
  <1>3. s \in Seq(Pasos) /\ c \in Compactaciones /\ Metadatas(m)
    BY <1>2, Tipos
  <1>4. /\ r \in Seq(Pasos) /\ Len(s) \in Nat \ {0}
        /\ Len(s) > 1 => r # <<>> /\ Ultimo(r) = u
        /\ Len(s) = 1 => r = <<>>
    BY <1>3, Avance
  <1>5. Forma(m, s) /\ (u.accion \in Simples \cup {"reverificar"} <=> ~Compactando)
    BY <1>2 DEF EnCurso, Compactando
  <1>6. TypeOK'
    BY <1>1, <1>2, <1>4, Tipos, TiposDespues
  <1>7. Compactando' <=> Compactando
    BY <1>1 DEF Compactando
  <1>8. r # <<>> => Len(s) > 1 /\ Ultimo(r) = u
    BY <1>4
  <1> HIDE DEF s, r, u
  <1>9. EnCurso(m, r, c)
    <2>1. ASSUME r # <<>> PROVE Forma(m, r)
      BY <1>3, <1>5, <1>8, <2>1, FormaAvanza DEF s, r
    <2> QED
      BY <1>5, <1>8, <2>1 DEF EnCurso, Compactando
  <1>10. CASE u.accion \in Simples
    <2>1. /\ r # <<>> /\ Ultimo(r) = u
          /\ Sano(m, bm, s) => Sano(m, bn, r)
          /\ Justo(m, bm, s) => Justo(m, bn, r)
      BY <1>3, <1>5, <1>10, MarcaEnPedido DEF s, r, u
    <2>2. ~Compactando /\ ~Mudandose(r)
      BY <1>5, <1>10, <2>1 DEF Mudandose, Simples
    <2>3. s # <<>>
      BY DEF s
    <2>4. ~rota => Sanidad(m, bn, escrito, r, c)
      BY <1>2, <1>10, <2>1, <2>3 DEF Sanidad
    <2>5. ~fuga => Justicia(m, bn, r, c)
      BY <1>2, <1>10, <2>1, <2>3 DEF Justicia, u, s
    <2> QED
      BY <1>1, <1>2, <1>6, <1>7, <1>9, <2>2, <2>4, <2>5 DEF IInv
  <1>11. CASE u.accion = "reverificar"
    <2>1. Mudandose(s) /\ ~Compactando
      BY <1>5, <1>11 DEF Mudandose, s, u
    <2>2. Head(s).accion \in {"asignar", "liberar", "copiar"}
      BY DEF Marca, s
    <2>3. bn \cup Valores(r, "asignar") \subseteq bm \cup Valores(s, "asignar")
      BY <1>3, Marcas DEF s, r
    <2>4. /\ Mudandose(r) /\ Mudanza(m, r)
          /\ MudanzaJusta(m, bm, s) => MudanzaJusta(m, bn, r)
      BY <1>2, <1>3, <2>1, <2>2, <2>3, AvanceDeMudanza DEF r
    <2>5. r # <<>> /\ Ultimo(r).accion = "reverificar"
      BY <2>4 DEF Mudandose
    <2>6. Justicia(m, bn, r, c)
      BY <2>5 DEF Justicia, Simples
    <2> QED
      BY <1>1, <1>2, <1>6, <1>7, <1>9, <2>1, <2>4, <2>6 DEF IInv
  <1>12. CASE u.accion \notin Simples \cup {"reverificar"}
    <2>1. Compactando /\ rota /\ Turno(m, s, c)
      BY <1>2, <1>5, <1>12
    <2>2. /\ Turno(m, r, c)
          /\ TurnoJusto(m, bm, s, c) => TurnoJusto(m, bn, r, c)
      BY <1>3, <2>1, MarcaEnTurno DEF s, r
    <2>3. ~Mudandose(r)
      BY <1>8, <1>12 DEF Mudandose
    <2>4. Justicia(m, bn, r, c)
      BY <1>8, <1>12, <2>1 DEF Justicia, Compactando
    <2> QED
      BY <1>1, <1>2, <1>6, <1>7, <1>9, <2>1, <2>2, <2>3, <2>4 DEF IInv
  <1> QED
    BY <1>10, <1>11, <1>12

LEMMA AsignarIInv ==
  ASSUME IInv, AsignarBloque \/ LiberarBloque
  PROVE  IInv'
  <1> DEFINE v == Head(pendiente).valor
             a == Head(pendiente).accion
  <1>1. pendiente # <<>> /\ (AsignarBloque => a = "asignar") /\ (LiberarBloque => a = "liberar")
    BY DEF AsignarBloque, LiberarBloque, Proximo
  <1>2. /\ pendiente \in Seq(Pasos) /\ bitmap \subseteq 0 .. MaxBit - 1
    BY Tipos DEF IInv
  <1>3. v \in Nat
    BY <1>1, <1>2, Avance DEF Pasos
  <1>4. CASE v >= MaxBit
    BY <1>4, MorirIInv DEF AsignarBloque, LiberarBloque
  <1>5. CASE ~(v >= MaxBit)
    <2>1. /\ (AsignarBloque => bitmap' = bitmap \cup {v}) /\ (LiberarBloque => bitmap' = bitmap \ {v})
          /\ UNCHANGED <<metadata, escrito>> /\ Sigue
      BY <1>5 DEF AsignarBloque, LiberarBloque
    <2>2. v \in 0 .. MaxBit - 1
      BY <1>3, <1>5, Bits
    <2>3. Marca(pendiente, bitmap, bitmap')
      BY <1>1, <2>1 DEF Marca
    <2>4. bitmap' \subseteq 0 .. MaxBit - 1
      BY <1>2, <2>1, <2>2
    <2> QED
      BY <1>1, <2>1, <2>3, <2>4, MarcaIInv
  <1> QED
    BY <1>4, <1>5

-----------------------------------------------------------------------------
(* The metadata of a request: its last write.                              *)

LEMMA LaUltima ==
  ASSUME IInv, pendiente # <<>>, Head(pendiente).accion \in Simples
  PROVE  /\ pendiente = <<Head(pendiente)>> /\ Tail(pendiente) = <<>>
         /\ compactacion = SinCompactar /\ ~Compactando
         /\ Head(pendiente) \in Pasos
         /\ (Head(pendiente).accion = "crear" <=> Head(pendiente).archivo \notin DOMAIN metadata)
  <1> DEFINE s == pendiente
             u == Ultimo(s)
             a == Head(s).accion
  <1>1. /\ s \in Seq(Pasos) /\ EnCurso(metadata, s, compactacion)
        /\ Mudandose(s) => Mudanza(metadata, s)
    BY Tipos DEF IInv
  <1>2. Forma(metadata, s) /\ (u.accion \in Simples \cup {"reverificar"} <=> compactacion = SinCompactar)
    BY <1>1 DEF EnCurso
  <1>3. PICK n \in Nat \ {0} : /\ n = Len(s) /\ Head(s) = s[1] /\ Head(s) \in Pasos
                               /\ n = 1 => Tail(s) = <<>> /\ u = Head(s) /\ s = <<Head(s)>>
    BY <1>1, Avance
  <1>4. a # "asignar" /\ a # "liberar" /\ a # "copiar" /\ a # "inicial"
    BY DEF Simples
  <1> HIDE DEF a, u
  <1>5. ASSUME n # 1 PROVE FALSE
    <2>1. 1 \in 1 .. n - 1 /\ n > 1
      BY <1>3, <1>5
    <2>2. CASE u.accion # "reverificar"
      <3>1. \A k \in 1 .. n - 1 : s[k].accion \in {"asignar", "liberar"}
        BY <1>2, <1>3, <2>2 DEF Forma, u
      <3> QED
        BY <1>3, <1>4, <2>1, <3>1 DEF a
    <2>3. CASE u.accion = "reverificar"
      <3>1. Mudandose(s)
        BY <2>3 DEF Mudandose, u
      <3>2. /\ s[n - 1].accion = "inicial" /\ \A k \in 1 .. n - 2 : s[k].accion \in {"copiar", "asignar"}
        BY <1>1, <1>3, <2>1, <3>1 DEF Mudanza
      <3>3. CASE n = 2
        <4>1. s[1].accion = "inicial"
          BY <3>2, <3>3
        <4> QED
          BY <1>3, <1>4, <4>1 DEF a
      <3>4. CASE n # 2
        <4>1. 1 \in 1 .. n - 2
          BY <2>1, <3>4
        <4> QED
          BY <1>3, <1>4, <3>2, <4>1 DEF a
      <3> QED
        BY <3>3, <3>4
    <2> QED
      BY <2>2, <2>3
  <1>6. s = <<Head(s)>> /\ Tail(s) = <<>> /\ u = Head(s) /\ Head(s) \in Pasos
    BY <1>3, <1>5
  <1>7. compactacion = SinCompactar /\ (Head(s).accion = "crear" <=> Head(s).archivo \notin DOMAIN metadata)
    BY <1>2, <1>6 DEF Forma, u
  <1> QED
    BY <1>6, <1>7 DEF Compactando

LEMMA CierraIInv ==
  ASSUME IInv, pendiente # <<>>, NEW u, u = Head(pendiente), u.accion \in Simples,
         Sigue, bitmap' = bitmap,
         DOMAIN metadata' \ {u.archivo} = DOMAIN metadata \ {u.archivo},
         \A g \in DOMAIN metadata \ {u.archivo} : metadata'[g] = metadata[g],
         \/ u.archivo \in DOMAIN metadata' /\ Ext(metadata', u.archivo) = Futura(metadata, u)
         \/ u.archivo \notin DOMAIN metadata' /\ Futura(metadata, u) = {},
         Metadatas(metadata'), IsFiniteSet(DOMAIN metadata'),
         escrito' \subseteq escrito, ~rota => Datos(metadata', escrito')
  PROVE  IInv'
  <1> DEFINE m == metadata
             mn == metadata'
  <1>1. /\ pendiente = <<u>> /\ Tail(pendiente) = <<>> /\ u \in Pasos
        /\ compactacion = SinCompactar
    BY LaUltima
  <1>2. /\ pendiente' = <<>> /\ compactacion' = SinCompactar
        /\ vivo' = vivo /\ reinicios' = reinicios /\ fuga' = fuga /\ rota' = rota
    BY <1>1 DEF Sigue
  <1>3. /\ TypeOK
        /\ ~rota => Sanidad(m, bitmap, escrito, pendiente, compactacion)
        /\ ~fuga => Justicia(m, bitmap, pendiente, compactacion)
    BY DEF IInv
  <1>4. Ultimo(pendiente) = u
    BY <1>1 DEF Ultimo
  <1>5. /\ Disjuntos(m, DOMAIN m) /\ Sano(m, bitmap, <<u>>) =>
             Disjuntos(mn, DOMAIN mn) /\ DeVarios(mn, DOMAIN mn) \subseteq bitmap
        /\ Justo(m, bitmap, <<u>>) => bitmap \subseteq DeVarios(mn, DOMAIN mn)
    <2> HIDE DEF mn
    <2>1. /\ DOMAIN mn \ {u.archivo} = DOMAIN m \ {u.archivo}
          /\ \A g \in DOMAIN m \ {u.archivo} : mn[g] = m[g]
          /\ \/ u.archivo \in DOMAIN mn /\ Ext(mn, u.archivo) = Futura(m, u)
             \/ u.archivo \notin DOMAIN mn /\ Futura(m, u) = {}
      BY DEF mn
    <2> QED
      BY <1>1, <2>1, Termina
  <1>6. ~rota => Sanidad(mn, bitmap, escrito', <<>>, SinCompactar)
    <2>1. ~rota => Disjuntos(m, DOMAIN m) /\ Sano(m, bitmap, <<u>>)
      BY <1>1, <1>3 DEF Sanidad
    <2> QED
      BY <1>5, <2>1 DEF Sanidad
  <1>7. ~fuga => Justicia(mn, bitmap, <<>>, SinCompactar)
    <2>1. ~fuga => Justo(m, bitmap, <<u>>)
      BY <1>1, <1>3, <1>4 DEF Justicia
    <2> QED
      BY <1>5, <2>1 DEF Justicia
  <1>8. TypeOK'
    <2>1. escrito' \subseteq Archivos \X Nat \X Nat
      BY <1>3, Tipos
    <2> QED
      BY <1>2, <1>3, <2>1, SinNada, Tipos, TiposDespues
  <1>9. ~Compactando' /\ ~Mudandose(<<>>)
    BY <1>2 DEF Compactando, Mudandose
  <1> QED
    BY <1>2, <1>6, <1>7, <1>8, <1>9 DEF IInv, EnCurso

\* crear_archivo: the metadata file.
LEMMA CrearMetadataIInv ==
  ASSUME IInv, CrearMetadata
  PROVE  IInv'
  <1> DEFINE u == Head(pendiente)
             f == u.archivo
             m == metadata
  <1>1. /\ pendiente # <<>> /\ u.accion = "crear" /\ Sigue /\ bitmap' = bitmap /\ escrito' = escrito
        /\ metadata' = [g \in DOMAIN m \cup {f} |->
                          IF g = f THEN [inicial |-> u.valor, tamanio |-> 0] ELSE m[g]]
    BY DEF CrearMetadata, Proximo
  <1>2. u.accion \in Simples
    BY <1>1 DEF Simples
  <1>3. u \in Pasos /\ f \notin DOMAIN m
    BY <1>1, <1>2, LaUltima
  <1>4. f \in Archivos /\ u.valor \in Nat
    BY <1>3 DEF Pasos
  <1>5. /\ IsFiniteSet(DOMAIN m) /\ Metadatas(m)
        /\ ~rota => Datos(m, escrito)
    BY Tipos DEF IInv, Sanidad
  <1> HIDE DEF u
  <1>6. /\ DOMAIN metadata' = DOMAIN m \cup {f} /\ metadata'[f] = [inicial |-> u.valor, tamanio |-> 0]
        /\ \A g \in DOMAIN m : metadata'[g] = m[g]
    BY <1>1, <1>3
  <1>7. Ext(metadata', f) = Futura(m, u)
    <2>1. metadata'[f].inicial = u.valor /\ metadata'[f].tamanio = 0
      BY <1>6
    <2>2. BloquesDe(0) = 1
      BY DEF BloquesDe
    <2>3. u.valor .. u.valor + 1 - 1 = {u.valor}
      BY <1>4
    <2>4. Futura(m, u) = {u.valor}
      BY <1>1 DEF Futura
    <2> QED
      BY <2>1, <2>2, <2>3, <2>4 DEF Ext
  <1>8. Metadatas(metadata')
    <2>1. [inicial |-> u.valor, tamanio |-> 0] \in [inicial : Nat, tamanio : Nat]
      BY <1>4
    <2>2. DOMAIN metadata' \subseteq Archivos
      BY <1>4, <1>5, <1>6 DEF Metadatas
    <2>3. \A g \in DOMAIN metadata' : metadata'[g] \in [inicial : Nat, tamanio : Nat]
      BY <1>5, <1>6, <2>1 DEF Metadatas
    <2> QED
      BY <2>2, <2>3 DEF Metadatas
  <1>9. IsFiniteSet(DOMAIN metadata')
    BY <1>5, <1>6, FS_AddElement
  <1>10. ~rota => Datos(metadata', escrito')
    BY <1>1, <1>5, <1>6 DEF Datos
  <1>11. /\ DOMAIN metadata' \ {f} = DOMAIN m \ {f}
         /\ \A g \in DOMAIN m \ {f} : metadata'[g] = m[g]
         /\ f \in DOMAIN metadata'
    BY <1>6
  <1> QED
    BY <1>1, <1>2, <1>7, <1>8, <1>9, <1>10, <1>11, CierraIInv DEF u

\* unlink.
LEMMA DesvincularIInv ==
  ASSUME IInv, Desvincular
  PROVE  IInv'
  <1> DEFINE u == Head(pendiente)
             f == u.archivo
             m == metadata
  <1>1. /\ pendiente # <<>> /\ u.accion = "desvincular" /\ Sigue /\ bitmap' = bitmap
        /\ metadata' = [g \in DOMAIN m \ {f} |-> m[g]]
        /\ escrito' = {e \in escrito : e[1] # f}
    BY DEF Desvincular, Proximo, Restrict
  <1>2. u.accion \in Simples
    BY <1>1 DEF Simples
  <1>3. /\ IsFiniteSet(DOMAIN m) /\ Metadatas(m)
        /\ ~rota => Datos(m, escrito)
    BY Tipos DEF IInv, Sanidad
  <1> HIDE DEF u
  <1>4. DOMAIN metadata' = DOMAIN m \ {f} /\ \A g \in DOMAIN m \ {f} : metadata'[g] = m[g]
    BY <1>1
  <1>5. Futura(m, u) = {}
    BY <1>1 DEF Futura
  <1>6. Metadatas(metadata')
    BY <1>3, <1>4 DEF Metadatas
  <1>7. IsFiniteSet(DOMAIN metadata')
    BY <1>3, <1>4, FS_RemoveElement
  <1>8. ~rota => Datos(metadata', escrito')
    BY <1>1, <1>3, <1>4 DEF Datos
  <1>9. /\ DOMAIN metadata' \ {f} = DOMAIN m \ {f} /\ f \notin DOMAIN metadata'
        /\ escrito' \subseteq escrito
    BY <1>1, <1>4
  <1> QED
    BY <1>1, <1>2, <1>4, <1>5, <1>6, <1>7, <1>8, <1>9, CierraIInv DEF u

\* TAMANIO_ARCHIVO.
LEMMA ActualizarTamanioIInv ==
  ASSUME IInv, ActualizarTamanio
  PROVE  IInv'
  <1> DEFINE u == Head(pendiente)
             f == u.archivo
             m == metadata
  <1>1. /\ pendiente # <<>> /\ u.accion = "tamanio" /\ Sigue /\ bitmap' = bitmap
        /\ metadata' = [m EXCEPT ![f].tamanio = u.valor]
        /\ escrito' = {e \in escrito : ~(e[1] = f /\ e[2] >= BloquesDe(u.valor))}
    BY DEF ActualizarTamanio, Proximo
  <1>2. u.accion \in Simples
    BY <1>1 DEF Simples
  <1>3. u \in Pasos /\ f \in DOMAIN m
    BY <1>1, <1>2, LaUltima
  <1>4. u.valor \in Nat
    BY <1>3 DEF Pasos
  <1>5. /\ IsFiniteSet(DOMAIN m) /\ Metadatas(m) /\ escrito \subseteq Archivos \X Nat \X Nat
        /\ ~rota => Datos(m, escrito)
    BY Tipos DEF IInv, Sanidad
  <1> HIDE DEF u
  <1>6. /\ DOMAIN metadata' = DOMAIN m /\ \A g \in DOMAIN m \ {f} : metadata'[g] = m[g]
        /\ metadata'[f] = [m[f] EXCEPT !.tamanio = u.valor]
    BY <1>1, <1>3
  <1>7. /\ metadata'[f] \in [inicial : Nat, tamanio : Nat]
        /\ metadata'[f].inicial = m[f].inicial /\ metadata'[f].tamanio = u.valor
    <2>1. m[f] \in [inicial : Nat, tamanio : Nat]
      BY <1>3, <1>5 DEF Metadatas
    <2> QED
      BY <1>4, <1>6, <2>1
  <1>8. Ext(metadata', f) = Futura(m, u)
    BY <1>1, <1>7 DEF Ext, Futura
  <1>9. Metadatas(metadata')
    BY <1>5, <1>6, <1>7 DEF Metadatas
  <1>10. ASSUME ~rota PROVE Datos(metadata', escrito')
    <2>1. ASSUME NEW e \in escrito'
          PROVE  /\ e[1] \in DOMAIN metadata'
                 /\ e[2] \in 0 .. BloquesDe(metadata'[e[1]].tamanio) - 1
                 /\ e[3] = metadata'[e[1]].inicial + e[2]
      <3>1. /\ e \in escrito /\ e[1] \in DOMAIN m /\ e[2] \in 0 .. BloquesDe(m[e[1]].tamanio) - 1
            /\ e[3] = m[e[1]].inicial + e[2] /\ ~(e[1] = f /\ e[2] >= BloquesDe(u.valor))
        BY <1>1, <1>5, <1>10 DEF Datos
      <3>2. CASE e[1] # f
        BY <1>6, <3>1, <3>2
      <3>3. CASE e[1] = f
        <4>1. e[2] \in 0 .. BloquesDe(u.valor) - 1
          BY <1>4, <3>1, <3>3, Tamanos
        <4> QED
          BY <1>3, <1>6, <1>7, <3>1, <3>3, <4>1
      <3> QED
        BY <3>2, <3>3
    <2> QED
      BY <2>1 DEF Datos
  <1>11. /\ IsFiniteSet(DOMAIN metadata') /\ escrito' \subseteq escrito
         /\ DOMAIN metadata' \ {f} = DOMAIN m \ {f} /\ f \in DOMAIN metadata'
    BY <1>1, <1>3, <1>5, <1>6
  <1> QED
    BY <1>1, <1>2, <1>6, <1>8, <1>9, <1>10, <1>11, CierraIInv DEF u

-----------------------------------------------------------------------------
(* The writes of a compaction.                                             *)

\* A file is put behind the others.
LEMMA Acomoda ==
  ASSUME NEW m, Metadatas(m), NEW f \in DOMAIN m, NEW v \in Nat,
         NEW P, P \subseteq DOMAIN m \ {f}, Acomodados(m, P, v),
         NEW r, r = [m EXCEPT ![f].inicial = v]
  PROVE  /\ Metadatas(r) /\ DOMAIN r = DOMAIN m
         /\ BloquesDe(m[f].tamanio) \in Nat /\ v + BloquesDe(m[f].tamanio) \in Nat
         /\ Acomodados(r, P \cup {f}, v + BloquesDe(m[f].tamanio))
  <1> DEFINE k == BloquesDe(m[f].tamanio)
  <1>1. /\ DOMAIN r = DOMAIN m /\ \A g \in DOMAIN m \ {f} : r[g] = m[g]
        /\ r[f] = [m[f] EXCEPT !.inicial = v]
    OBVIOUS
  <1>2. /\ r[f] \in [inicial : Nat, tamanio : Nat]
        /\ r[f].inicial = v /\ r[f].tamanio = m[f].tamanio
    <2>1. m[f] \in [inicial : Nat, tamanio : Nat]
      BY DEF Metadatas
    <2> QED
      BY <1>1, <2>1
  <1>3. k \in Nat /\ k > 0
    BY Extensiones
  <1>4. Metadatas(r)
    BY <1>1, <1>2 DEF Metadatas
  <1>5. Ext(r, f) = v .. v + k - 1
    BY <1>2 DEF Ext
  <1>6. DeVarios(r, P) = 0 .. v - 1 /\ Disjuntos(r, P) /\ f \notin P
    BY <1>1, SoloUna DEF Acomodados
  <1> HIDE DEF k
  <1>7. DeVarios(r, P \cup {f}) = DeVarios(r, P) \cup Ext(r, f)
    BY DEF DeVarios
  <1>8. (0 .. v - 1) \cap (v .. v + k - 1) = {} /\ (0 .. v - 1) \cup (v .. v + k - 1) = 0 .. v + k - 1
    BY <1>3
  <1>9. Disjuntos(r, P \cup {f})
    <2>1. \A g \in P : Ext(r, g) \subseteq DeVarios(r, P)
      BY DEF DeVarios
    <2>2. \A g \in P : Ext(r, g) \cap Ext(r, f) = {} /\ Ext(r, f) \cap Ext(r, g) = {}
      BY <1>5, <1>6, <1>8, <2>1
    <2> QED
      BY <1>6, <2>2 DEF Disjuntos
  <1>10. Acomodados(r, P \cup {f}, v + k)
    <2>1. DeVarios(r, P \cup {f}) = 0 .. (v + k) - 1
      <3>1. (v + k) - 1 = v + k - 1
        BY <1>3
      <3> QED
        BY <1>5, <1>6, <1>7, <1>8, <3>1
    <2> QED
      BY <1>9, <2>1 DEF Acomodados
  <1> QED
    BY <1>1, <1>3, <1>4, <1>10 DEF k

\* What cannot be of a request belongs to a move.
LEMMA EsMudanza ==
  ASSUME IInv, pendiente # <<>>, Head(pendiente).accion \in {"copiar", "reverificar"}
  PROVE  /\ Mudandose(pendiente) /\ compactacion = SinCompactar /\ Forma(metadata, pendiente)
         /\ Head(pendiente).accion = "reverificar" =>
              Len(pendiente) = 1 /\ Ultimo(pendiente) = Head(pendiente)
  <1> DEFINE s == pendiente
             u == Ultimo(s)
             a == Head(s).accion
  <1>1. /\ s \in Seq(Pasos) /\ EnCurso(metadata, s, compactacion)
        /\ Mudandose(s) => Mudanza(metadata, s)
    BY Tipos DEF IInv
  <1>2. Forma(metadata, s) /\ (u.accion \in Simples \cup {"reverificar"} <=> compactacion = SinCompactar)
    BY <1>1 DEF EnCurso
  <1>3. PICK n \in Nat \ {0} : n = Len(s) /\ Head(s) = s[1] /\ (n = 1 => u = Head(s))
    BY <1>1, Avance
  <1>4. a # "asignar" /\ a # "liberar" /\ a # "inicial" /\ a \notin Simples
    BY DEF Simples
  <1>5. a = "copiar" \/ a = "reverificar"
    OBVIOUS
  <1> HIDE DEF a, u
  <1>6. u.accion = "reverificar"
    <2>1. ASSUME u.accion # "reverificar" PROVE FALSE
      <3>1. /\ u.accion \in Simples \cup {"liberar", "inicial"}
            /\ \A k \in 1 .. n - 1 : s[k].accion \in {"asignar", "liberar"}
        BY <1>2, <1>3, <2>1 DEF Forma, u
      <3>2. n # 1
        BY <1>3, <1>4, <3>1 DEF a
      <3>3. 1 \in 1 .. n - 1
        BY <1>3, <3>2
      <3> QED
        BY <1>3, <1>4, <3>1, <3>3 DEF a
    <2> QED
      BY <2>1
  <1>7. Mudandose(s)
    BY <1>6 DEF Mudandose, u
  <1>8. ASSUME a = "reverificar" PROVE n = 1
    <2>1. ASSUME n # 1 PROVE FALSE
      <3>1. n > 1
        BY <1>3, <2>1
      <3>2. /\ s[n - 1].accion = "inicial" /\ \A k \in 1 .. n - 2 : s[k].accion \in {"copiar", "asignar"}
        BY <1>1, <1>3, <1>7, <3>1 DEF Mudanza
      <3>3. CASE n = 2
        BY <1>3, <1>4, <3>2, <3>3 DEF a
      <3>4. CASE n # 2
        <4>1. 1 \in 1 .. n - 2
          BY <3>1, <3>4
        <4> QED
          BY <1>3, <1>8, <3>2, <4>1 DEF a
      <3> QED
        BY <3>3, <3>4
    <2> QED
      BY <2>1
  <1> QED
    BY <1>2, <1>3, <1>6, <1>7, <1>8 DEF u, a

LEMMA CopiarIInv ==
  ASSUME IInv, CopiarBuffer
  PROVE  IInv'
  <1> DEFINE s == pendiente
             r == Tail(s)
             m == metadata
             p == Head(s)
             ultimo == Cantidad(p.archivo) - 1
             copias == {<<e[1], e[2], p.valor>> :
                          e \in {d \in escrito : d[1] = p.archivo /\ d[2] = ultimo}}
  <1>1. /\ s # <<>> /\ p.accion = "copiar"
        /\ escrito' = escrito \cup copias
        /\ bitmap' = bitmap /\ metadata' = m /\ pendiente' = r /\ compactacion' = compactacion
        /\ vivo' = vivo /\ reinicios' = reinicios /\ fuga' = fuga /\ rota' = rota
    BY DEF CopiarBuffer, Proximo, Sigue
  <1>2. Mudandose(s) /\ compactacion = SinCompactar /\ Forma(m, s)
    BY <1>1, EsMudanza
  <1>3. /\ TypeOK /\ IsFiniteSet(DOMAIN m) /\ rota /\ Mudanza(m, s)
        /\ ~fuga => MudanzaJusta(m, bitmap, s)
    BY <1>2 DEF IInv
  <1>4. s \in Seq(Pasos) /\ escrito \subseteq Archivos \X Nat \X Nat
    BY <1>3, Tipos
  <1>5. r \in Seq(Pasos) /\ p \in Pasos
    BY <1>1, <1>4, Avance
  <1>6. escrito' \subseteq Archivos \X Nat \X Nat
    <2>1. p.valor \in Nat
      BY <1>5 DEF Pasos
    <2>2. copias \subseteq Archivos \X Nat \X Nat
      <3> HIDE DEF p, ultimo
      <3> QED
        BY <1>4, <2>1
    <2> HIDE DEF copias
    <2> QED
      BY <1>1, <1>4, <2>2
  <1>7. TypeOK'
    BY <1>1, <1>3, <1>5, <1>6, Tipos, TiposDespues
  <1>8. bitmap \cup Valores(r, "asignar") \subseteq bitmap \cup Valores(s, "asignar")
    BY <1>1, <1>4, ValoresAlAvanzar
  <1> HIDE DEF s, r
  <1>9. /\ Len(s) > 1 /\ Mudandose(r) /\ Mudanza(m, r)
        /\ MudanzaJusta(m, bitmap, s) => MudanzaJusta(m, bitmap, r)
    BY <1>1, <1>2, <1>3, <1>4, <1>8, AvanceDeMudanza DEF r
  <1>10. Forma(m, r)
    BY <1>2, <1>4, <1>9, FormaAvanza DEF r
  <1>11. r # <<>> /\ Ultimo(r).accion = "reverificar"
    BY <1>9 DEF Mudandose
  <1>12. EnCurso(m, r, compactacion) /\ Justicia(m, bitmap, r, compactacion)
    BY <1>2, <1>10, <1>11 DEF EnCurso, Justicia, Simples
  <1>13. ~Compactando'
    BY <1>1, <1>2 DEF Compactando
  <1> QED
    BY <1>1, <1>3, <1>7, <1>9, <1>12, <1>13 DEF IInv

\* After a compaction the file grows, or the process ends.
LEMMA ReverificarIInv ==
  ASSUME IInv, Reverificar
  PROVE  IInv'
  <1> DEFINE p == Head(pendiente)
             f == p.archivo
             t == p.valor
             n == BloquesAdicionales(f, t)
             s == PasosDeCrecer(f, t)
             m == metadata
  <1>1. /\ pendiente # <<>> /\ p.accion = "reverificar"
        /\ Morir \/ (~(n < 0) /\ Empezar(s, TRUE))
    BY DEF Reverificar, Proximo
  <1>2. /\ Mudandose(pendiente) /\ compactacion = SinCompactar /\ Forma(m, pendiente)
        /\ Len(pendiente) = 1 /\ Ultimo(pendiente) = p
    BY <1>1, EsMudanza
  <1>3. /\ TypeOK /\ rota /\ (~fuga => MudanzaJusta(m, bitmap, pendiente))
    BY <1>2 DEF IInv
  <1>4. pendiente \in Seq(Pasos) /\ Metadatas(m)
    BY <1>3, Tipos
  <1>5. p \in Pasos
    BY <1>1, <1>4, Avance
  <1>6. f \in DOMAIN m /\ t \in Nat
    <2>1. f \in DOMAIN m
      BY <1>1, <1>2 DEF Forma
    <2> QED
      BY <1>5, <2>1 DEF Pasos
  <1>7. ~fuga => bitmap \subseteq DeVarios(m, DOMAIN m)
    BY <1>2, <1>3 DEF MudanzaJusta
  <1>8. CASE Morir
    BY <1>8, MorirIInv
  <1>9. CASE ~(n < 0) /\ Empezar(s, TRUE)
    <2> HIDE DEF p
    <2>1. n >= 0
      <3>1. Cantidad(f) \in Nat /\ Techo(t) \in Nat
        BY <1>4, <1>6, Medidas, Techos
      <3> QED
        BY <1>9, <3>1 DEF BloquesAdicionales
    <2>2. /\ EnMarcha(m, s)
          /\ bitmap \subseteq DeVarios(m, DOMAIN m) => Justo(m, bitmap, s)
      BY <1>4, <1>6, <2>1, AlCrecer
    <2>3. ~Compactando /\ rota
      BY <1>2, <1>3 DEF Compactando
    <2> HIDE DEF s, n
    <2> QED
      BY <1>7, <1>9, <2>2, <2>3, EmpezarIInv
  <1> QED
    BY <1>1, <1>8, <1>9

\* The files put so far, and the next one.
LEMMA UnPuestoMas ==
  ASSUME NEW m, NEW c \in Compactaciones, Ordenado(m, c), NEW e \in Nat, e < Len(c.orden)
  PROVE  LET f == c.orden[e + 1]
         IN  /\ f \in DOMAIN m /\ Puestos(c, e + 1) = Puestos(c, e) \cup {f}
             /\ Puestos(c, e) \subseteq DOMAIN m \ {f}
             /\ e + 1 = Len(c.orden) => Puestos(c, e) = DOMAIN m \ {f}
  <1> DEFINE f == c.orden[e + 1]
  <1>1. PICK n \in Nat : n = Len(c.orden)
    BY DEF Compactaciones
  <1>2. /\ {c.orden[i] : i \in 1 .. n} = DOMAIN m
        /\ \A i, j \in 1 .. n : i # j => c.orden[i] # c.orden[j]
    BY <1>1 DEF Ordenado, Puestos
  <1>3. /\ 1 .. e + 1 = (1 .. e) \cup {e + 1} /\ e + 1 \in 1 .. n
        /\ \A i \in 1 .. e : i \in 1 .. n /\ i # e + 1
    BY <1>1
  <1>4. {c.orden[i] : i \in 1 .. e + 1} = {c.orden[i] : i \in 1 .. e} \cup {f}
    BY <1>3
  <1>5. \A i \in 1 .. e : c.orden[i] \in DOMAIN m /\ c.orden[i] # f
    BY <1>2, <1>3
  <1>6. f \in DOMAIN m
    BY <1>2, <1>3
  <1>7. ASSUME e + 1 = n PROVE DOMAIN m = {c.orden[i] : i \in 1 .. e} \cup {f}
    BY <1>2, <1>4, <1>7
  <1> QED
    BY <1>1, <1>4, <1>5, <1>6, <1>7 DEF Puestos

\* BLOQUE_INICIAL, when the last file packed has its blocks.
LEMMA InicialEnTurno ==
  ASSUME IInv, Compactando, pendiente # <<>>, Head(pendiente).accion = "inicial", Sigue,
         metadata' = [metadata EXCEPT ![Head(pendiente).archivo].inicial = Head(pendiente).valor],
         UNCHANGED <<bitmap, escrito>>
  PROVE  IInv'
  <1> DEFINE s == pendiente
             p == Head(s)
             f == p.archivo
             m == metadata
             r == metadata'
             c == compactacion
             e == c.empaquetados
  <1>1. /\ bitmap' = bitmap /\ escrito' = escrito /\ pendiente' = Tail(s) /\ compactacion' = c
        /\ vivo' = vivo /\ reinicios' = reinicios /\ fuga' = fuga /\ rota' = rota
    BY DEF Sigue
  <1>2. /\ TypeOK /\ IsFiniteSet(DOMAIN m) /\ EnCurso(m, s, c)
        /\ rota /\ Ordenado(m, c) /\ Turno(m, s, c)
        /\ ~fuga => TurnoJusto(m, bitmap, s, c)
    BY DEF IInv
  <1>3. s \in Seq(Pasos) /\ c \in Compactaciones /\ Metadatas(m) /\ c # SinCompactar
    BY <1>2, Tipos DEF Compactando
  <1>4. /\ p \in Pasos /\ Head(s) = s[1] /\ Len(s) \in Nat \ {0}
        /\ Len(s) = 1 => Tail(s) = <<>> /\ Ultimo(s) = p
    BY <1>3, Avance
  <1>5. /\ Ultimo(s).accion \in {"liberar", "inicial"}
        /\ \A k \in 1 .. Len(s) - 1 : s[k].accion \in {"asignar", "liberar"}
    BY <1>2, <1>3 DEF EnCurso, Forma
  <1>6. Len(s) = 1
    <2>1. PICK n \in Nat \ {0} : n = Len(s)
      BY <1>4
    <2>2. n # 1 => 1 \in 1 .. n - 1
      BY <2>1
    <2> QED
      BY <1>4, <1>5, <2>1, <2>2
  <1>7. Tail(s) = <<>> /\ Ultimo(s) = p
    BY <1>4, <1>6
  <1> HIDE DEF s, p, c, m
  <1>8. /\ c.liberados <= Len(c.orden) - 1 /\ e <= Len(c.orden) - 1
        /\ e > 0 => c.liberados = Len(c.orden) - 1
        /\ e = 0 => \A k \in 1 .. Len(s) : s[k].accion = "liberar"
        /\ e > 0 => /\ f = c.orden[e] /\ p.valor + BloquesDe(m[f].tamanio) = c.libre
                    /\ Acomodados(m, Puestos(c, e - 1), p.valor)
    <2>1. s # <<>>
      BY DEF s
    <2> DEFINE u == Ultimo(s)
    <2>2. e > 0 => /\ u.archivo = c.orden[e] /\ u.valor + BloquesDe(m[u.archivo].tamanio) = c.libre
                   /\ Acomodados(m, Puestos(c, e - 1), u.valor)
      BY <1>2, <2>1 DEF Turno
    <2>3. /\ c.liberados <= Len(c.orden) - 1 /\ e <= Len(c.orden) - 1
          /\ e > 0 => c.liberados = Len(c.orden) - 1
          /\ e = 0 => \A k \in 1 .. Len(s) : s[k].accion = "liberar"
      BY <1>2 DEF Turno
    <2>4. u = p
      BY <1>7
    <2> HIDE DEF u
    <2> QED
      BY <2>2, <2>3, <2>4
  <1>9. e \in Nat /\ e # 0 /\ Len(c.orden) \in Nat
    <2>1. 1 \in 1 .. Len(s) /\ s[1].accion # "liberar"
      BY <1>4, <1>6 DEF p, s
    <2>2. e # 0
      BY <1>8, <2>1
    <2> QED
      BY <1>3, <2>2 DEF Compactaciones
  <1> HIDE DEF e
  <1>10. PICK d \in Nat : e = d + 1 /\ e - 1 = d /\ d < Len(c.orden) /\ e > 0
    <2>1. e - 1 \in Nat /\ e = (e - 1) + 1 /\ e - 1 < Len(c.orden) /\ e > 0
      BY <1>8, <1>9
    <2> QED
      BY <2>1
  <1>11. /\ f \in DOMAIN m /\ Puestos(c, e) = Puestos(c, d) \cup {f}
         /\ Puestos(c, d) \subseteq DOMAIN m \ {f}
    BY <1>2, <1>3, <1>8, <1>10, UnPuestoMas
  <1>12. r = [m EXCEPT ![f].inicial = p.valor] /\ p.valor \in Nat
    BY <1>4 DEF m, p, s, Pasos
  <1>13. Acomodados(m, Puestos(c, d), p.valor) /\ p.valor + BloquesDe(m[f].tamanio) = c.libre
    BY <1>8, <1>10
  <1> HIDE DEF f, r
  <1>14. Metadatas(r) /\ DOMAIN r = DOMAIN m /\ Acomodados(r, Puestos(c, e), c.libre)
    <2>1. Metadatas(m) /\ p.valor \in Nat /\ r = [m EXCEPT ![f].inicial = p.valor]
      BY <1>3, <1>12
    <2>2. /\ Metadatas(r) /\ DOMAIN r = DOMAIN m
          /\ Acomodados(r, Puestos(c, d) \cup {f}, p.valor + BloquesDe(m[f].tamanio))
      BY <1>11, <1>13, <2>1, Acomoda
    <2> QED
      BY <1>11, <1>13, <2>2
  <1>15. Ordenado(r, c)
    BY <1>2, <1>14 DEF Ordenado
  <1>16. Turno(r, <<>>, c)
    <2>1. ~(e = 0) /\ e > 0
      BY <1>9, <1>10
    <2> QED
      BY <1>8, <1>14, <2>1 DEF Turno, e
  <1>17. ~fuga => TurnoJusto(r, bitmap, <<>>, c)
    <2>1. ~(e = 0) /\ e > 0
      BY <1>9, <1>10
    <2>2. ~fuga => bitmap \subseteq 0 .. c.libre - 1
      BY <1>2, <2>1 DEF TurnoJusto, e
    <2> QED
      BY <2>1, <2>2, ValoresDeNada DEF TurnoJusto, e
  <1>18. EnCurso(r, <<>>, c) /\ Justicia(r, bitmap, <<>>, c) /\ ~Mudandose(<<>>)
    BY <1>3 DEF EnCurso, Justicia, Mudandose
  <1>19. TypeOK'
    BY <1>1, <1>2, <1>7, <1>14, SinNada, Tipos, TiposDespues DEF r, s, c
  <1> QED
    BY <1>1, <1>2, <1>7, <1>14, <1>15, <1>16, <1>17, <1>18, <1>19 DEF IInv, r, s, c, m

\* BLOQUE_INICIAL of the file that grows: all the files lie in a row.
LEMMA InicialEnMudanza ==
  ASSUME IInv, Mudandose(pendiente), Head(pendiente).accion = "inicial", Sigue,
         metadata' = [metadata EXCEPT ![Head(pendiente).archivo].inicial = Head(pendiente).valor],
         UNCHANGED <<bitmap, escrito>>
  PROVE  IInv'
  <1> DEFINE s == pendiente
             q == Tail(s)
             p == Head(s)
             f == p.archivo
             m == metadata
             r == metadata'
             u == Ultimo(s)
  <1>1. /\ bitmap' = bitmap /\ escrito' = escrito /\ pendiente' = q /\ compactacion' = compactacion
        /\ vivo' = vivo /\ reinicios' = reinicios /\ fuga' = fuga /\ rota' = rota
    BY DEF Sigue
  <1>2. s # <<>> /\ u.accion = "reverificar"
    BY DEF Mudandose
  <1>3. /\ TypeOK /\ IsFiniteSet(DOMAIN m) /\ EnCurso(m, s, compactacion)
        /\ rota /\ Mudanza(m, s)
        /\ ~fuga => MudanzaJusta(m, bitmap, s)
    BY DEF IInv
  <1>4. s \in Seq(Pasos) /\ Metadatas(m)
    BY <1>3, Tipos
  <1>5. Forma(m, s) /\ compactacion = SinCompactar
    BY <1>2, <1>3 DEF EnCurso
  <1>6. PICK n \in Nat \ {0} :
          /\ n = Len(s) /\ p = s[1] /\ p \in Pasos /\ q \in Seq(Pasos) /\ Len(q) = n - 1
          /\ n > 1 => q # <<>> /\ Ultimo(q) = u
          /\ n = 1 => u = p
    BY <1>2, <1>4, Avance
  <1> HIDE DEF u, p, q, s
  <1>7. n = 2
    <2>1. n # 1
      BY <1>2, <1>6 DEF p, s
    <2>2. n > 1 => \A k \in 1 .. n - 2 : s[k].accion \in {"copiar", "asignar"}
      BY <1>3, <1>6 DEF Mudanza
    <2>3. n > 2 => 1 \in 1 .. n - 2
      BY <1>6
    <2>4. p.accion = "inicial"
      BY DEF p, s
    <2>5. ~(n > 2)
      BY <1>6, <2>2, <2>3, <2>4
    <2> QED
      BY <1>6, <2>1, <2>5
  <1>8. s[n - 1] = p /\ q # <<>> /\ Ultimo(q) = u /\ Len(q) = 1
    BY <1>6, <1>7
  <1>9. Acomodados(m, DOMAIN m \ {f}, p.valor)
    BY <1>3, <1>6, <1>7, <1>8 DEF Mudanza
  <1>10. f \in DOMAIN m /\ u.archivo = f
    <2>1. \A k \in 1 .. n : s[k].archivo = u.archivo
      BY <1>5, <1>6 DEF Forma, u
    <2>2. u.archivo = f
      BY <1>6, <1>7, <2>1
    <2>3. u.archivo \in DOMAIN m
      BY <1>2, <1>5 DEF Forma, u
    <2> QED
      BY <2>2, <2>3
  <1>11. r = [m EXCEPT ![f].inicial = p.valor] /\ p.valor \in Nat
    BY <1>6 DEF p, s, Pasos
  <1> DEFINE b == p.valor + BloquesDe(m[f].tamanio)
  <1> HIDE DEF r, m, f
  <1>12. Metadatas(r) /\ DOMAIN r = DOMAIN m /\ b \in Nat /\ Acomodados(r, DOMAIN m, b)
    <2>1. (DOMAIN m \ {f}) \cup {f} = DOMAIN m
      BY <1>10
    <2>2. /\ Metadatas(r) /\ DOMAIN r = DOMAIN m /\ b \in Nat
          /\ Acomodados(r, (DOMAIN m \ {f}) \cup {f}, b)
      BY <1>4, <1>9, <1>10, <1>11, Acomoda
    <2> QED
      BY <2>1, <2>2
  <1>13. Mudandose(q) /\ Mudanza(r, q)
    <2>1. \E k \in Nat : Acomodados(r, DOMAIN r, k)
      BY <1>12
    <2>2. ~(Len(q) > 1)
      BY <1>8
    <2> QED
      BY <1>2, <1>8, <2>1, <2>2 DEF Mudanza, Mudandose
  <1>14. ~fuga => MudanzaJusta(r, bitmap, q)
    <2>1. ~fuga => bitmap \subseteq 0 .. b - 1
      <3>1. n > 1
        BY <1>7
      <3>2. ~fuga => bitmap \subseteq 0 .. p.valor + BloquesDe(m[f].tamanio) - 1
        BY <1>3, <1>6, <1>8, <3>1 DEF MudanzaJusta, f
      <3>3. p.valor + BloquesDe(m[f].tamanio) - 1 = b - 1
        BY <1>4, <1>10, <1>11, Extensiones
      <3> QED
        BY <3>2, <3>3
    <2>2. DeVarios(r, DOMAIN r) = 0 .. b - 1
      BY <1>12 DEF Acomodados
    <2>3. ~(Len(q) > 1)
      BY <1>8
    <2> QED
      BY <2>1, <2>2, <2>3 DEF MudanzaJusta
  <1>15. Forma(r, q)
    <2>1. Forma(m, q)
      BY <1>4, <1>5, <1>6, <1>7, FormaAvanza DEF q
    <2> QED
      BY <1>12, <2>1 DEF Forma
  <1>16. EnCurso(r, q, compactacion) /\ Justicia(r, bitmap, q, compactacion)
    BY <1>2, <1>5, <1>8, <1>15 DEF EnCurso, Justicia, Simples
  <1>17. TypeOK'
    BY <1>1, <1>3, <1>6, <1>12, Tipos, TiposDespues DEF r
  <1>18. ~Compactando'
    BY <1>1, <1>5 DEF Compactando
  <1> QED
    BY <1>1, <1>3, <1>12, <1>13, <1>14, <1>16, <1>17, <1>18 DEF IInv, r, m

LEMMA ActualizarInicialIInv ==
  ASSUME IInv, ActualizarInicial
  PROVE  IInv'
  <1>1. /\ pendiente # <<>> /\ Head(pendiente).accion = "inicial" /\ Sigue
        /\ metadata' = [metadata EXCEPT ![Head(pendiente).archivo].inicial = Head(pendiente).valor]
        /\ UNCHANGED <<bitmap, escrito>>
    BY DEF ActualizarInicial, Proximo
  <1>2. CASE Compactando
    BY <1>1, <1>2, InicialEnTurno
  <1>3. CASE ~Compactando
    <2> DEFINE s == pendiente
               u == Ultimo(s)
    <2>1. /\ s \in Seq(Pasos) /\ Forma(metadata, s) /\ u.accion \in Simples \cup {"reverificar"}
      BY <1>1, <1>3, Tipos DEF IInv, EnCurso, Compactando
    <2>2. PICK n \in Nat \ {0} : n = Len(s) /\ Head(s) = s[1] /\ (n = 1 => u = Head(s))
      BY <1>1, <2>1, Avance
    <2> HIDE DEF u
    <2>3. ASSUME u.accion \in Simples PROVE FALSE
      <3>1. u.accion # "reverificar" /\ u.accion # "inicial"
        BY <2>3 DEF Simples
      <3>2. n # 1
        BY <1>1, <2>2, <3>1
      <3>3. 1 \in 1 .. n - 1
        BY <2>2, <3>2
      <3>4. \A k \in 1 .. n - 1 : s[k].accion \in {"asignar", "liberar"}
        BY <2>1, <2>2, <3>1 DEF Forma, u
      <3> QED
        BY <1>1, <2>2, <3>3, <3>4
    <2>4. Mudandose(s)
      BY <1>1, <2>1, <2>3 DEF Mudandose, u
    <2> QED
      BY <1>1, <2>4, InicialEnMudanza
  <1> QED
    BY <1>2, <1>3

-----------------------------------------------------------------------------
(* The turns of the loops of compactar_file_system.                        *)

\* Between two turns.
LEMMA EntreVueltas ==
  ASSUME IInv, NEW pasos, Vuelta(pasos)
  PROVE  /\ TypeOK /\ IsFiniteSet(DOMAIN metadata) /\ Metadatas(metadata) /\ rota
         /\ compactacion \in Compactaciones /\ compactacion # SinCompactar /\ pendiente = <<>>
         /\ Ordenado(metadata, compactacion) /\ Turno(metadata, <<>>, compactacion)
         /\ ~fuga => TurnoJusto(metadata, bitmap, <<>>, compactacion)
         /\ bitmap' = bitmap /\ metadata' = metadata /\ escrito' = escrito /\ pendiente' = pasos
         /\ vivo' = vivo /\ reinicios' = reinicios /\ fuga' = fuga /\ rota' = rota
  <1>1. /\ pendiente = <<>> /\ Compactando
        /\ bitmap' = bitmap /\ metadata' = metadata /\ escrito' = escrito /\ pendiente' = pasos
        /\ vivo' = vivo /\ reinicios' = reinicios /\ fuga' = fuga /\ rota' = rota
    BY DEF Vuelta, disco
  <1>2. /\ TypeOK /\ IsFiniteSet(DOMAIN metadata) /\ rota
        /\ Ordenado(metadata, compactacion) /\ Turno(metadata, <<>>, compactacion)
        /\ ~fuga => TurnoJusto(metadata, bitmap, <<>>, compactacion)
    BY <1>1 DEF IInv
  <1> QED
    BY <1>1, <1>2, Tipos DEF Compactando

\* What a turn must leave.
LEMMA VueltaIInv ==
  ASSUME IInv, NEW s \in Seq(Pasos), Vuelta(s), s # <<>>, Forma(metadata, s),
         Ultimo(s).accion \in {"liberar", "inicial"},
         compactacion' \in Compactaciones, compactacion' # SinCompactar,
         compactacion'.orden = compactacion.orden,
         Turno(metadata, s, compactacion'),
         ~fuga => TurnoJusto(metadata, bitmap, s, compactacion')
  PROVE  IInv'
  <1>1. /\ TypeOK /\ IsFiniteSet(DOMAIN metadata) /\ rota
        /\ Ordenado(metadata, compactacion)
        /\ bitmap' = bitmap /\ metadata' = metadata /\ escrito' = escrito /\ pendiente' = s
        /\ vivo' = vivo /\ reinicios' = reinicios /\ fuga' = fuga /\ rota' = rota
    BY EntreVueltas
  <1>2. TypeOK'
    BY <1>1, Tipos, TiposDespues
  <1> DEFINE c == compactacion'
  <1> HIDE DEF c
  <1>3. Ordenado(metadata, c)
    BY <1>1 DEF Ordenado, Puestos, c
  <1>4. Ultimo(s).accion \notin Simples /\ Ultimo(s).accion # "reverificar"
    BY DEF Simples
  <1>5. EnCurso(metadata, s, c) /\ Justicia(metadata, bitmap, s, c) /\ ~Mudandose(s)
    BY <1>4 DEF EnCurso, Justicia, Mudandose, c
  <1> QED
    BY <1>1, <1>2, <1>3, <1>5 DEF IInv, c

LEMMA LiberarArchivoIInv ==
  ASSUME IInv, LiberarArchivo
  PROVE  IInv'
  <1> DEFINE m == metadata
             c == compactacion
             d == compactacion'
             l == c.liberados
             g == c.orden[l + 1]
             a == Inicial(g)
             k == Cantidad(g)
             s == Bloques("liberar", g, a, k)
  <1>1. /\ l < Len(c.orden) - 1 /\ Vuelta(s)
        /\ d = [c EXCEPT !.liberados = l + 1]
    BY DEF LiberarArchivo, Otros
  <1>2. /\ Metadatas(m) /\ c \in Compactaciones /\ Ordenado(m, c) /\ Turno(m, <<>>, c)
        /\ ~fuga => TurnoJusto(m, bitmap, <<>>, c)
    BY <1>1, EntreVueltas
  <1>3. l \in Nat /\ c.empaquetados \in Nat /\ c.orden \in Seq(Archivos)
    BY <1>2 DEF Compactaciones
  <1>4. PICK n \in Nat : n = Len(c.orden)
    BY <1>3
  <1>5. c.empaquetados = 0 /\ c.libre = 0
    <2>1. c.empaquetados > 0 => l = n - 1
      BY <1>2, <1>4 DEF Turno
    <2>2. ~(c.empaquetados > 0)
      BY <1>1, <1>3, <1>4, <2>1
    <2>3. c.empaquetados = 0
      BY <1>3, <2>2
    <2> QED
      BY <1>2, <2>3 DEF Turno
  <1>6. g \in DOMAIN m
    BY <1>1, <1>2, <1>3, <1>4, UnPuestoMas
  <1>7. /\ d.orden = c.orden /\ d.liberados = l + 1 /\ d.empaquetados = c.empaquetados
        /\ d.libre = c.libre /\ d \in Compactaciones
    BY <1>1, <1>2, <1>3 DEF Compactaciones
  <1>8. d # SinCompactar
    <2>1. SinCompactar.orden = <<>> /\ Len(<<>>) = 0
      BY DEF SinCompactar
    <2>2. n # 0
      BY <1>1, <1>3, <1>4
    <2>3. d.orden # SinCompactar.orden
      BY <1>4, <1>7, <2>1, <2>2
    <2> HIDE DEF d
    <2> QED
      BY <2>3
  <1>9. /\ g \in Archivos /\ a \in Nat /\ k \in Nat /\ k > 0 /\ Ext(m, g) = a .. a + k - 1
    BY <1>2, <1>6, Medidas
  <1> HIDE DEF a, k, g, d
  <1>10. /\ s \in Seq(Pasos) /\ Len(s) = k
         /\ \A i \in 1 .. k : s[i].accion = "liberar" /\ s[i].archivo = g
         /\ Valores(s, "liberar") = Ext(m, g)
    <2>1. g \in Archivos /\ a \in Nat /\ k \in Nat
      BY <1>9
    <2>2. Liberan(s, g, a, k)
      BY <2>1, LosQueLibera
    <2> QED
      BY <1>9, <2>2 DEF Liberan
  <1> HIDE DEF s
  <1>11. s # <<>> /\ Ultimo(s).accion = "liberar" /\ Forma(m, s)
    <2>1. k \in 1 .. k /\ \A i \in 1 .. k - 1 : i \in 1 .. k
      BY <1>9
    <2>2. s # <<>>
      BY <1>9, <1>10
    <2>3. Ultimo(s).accion = "liberar" /\ Ultimo(s).archivo = g
      BY <1>10, <2>1 DEF Ultimo
    <2>4. Forma(m, s)
      BY <1>6, <1>10, <2>1, <2>3 DEF Forma
    <2> QED
      BY <2>2, <2>3, <2>4
  <1>12. Turno(m, s, d)
    <2>1. l + 1 <= n - 1 /\ 0 <= n - 1
      BY <1>1, <1>3, <1>4
    <2> QED
      BY <1>4, <1>5, <1>7, <1>10, <1>11, <2>1 DEF Turno
  <1>13. ~fuga => TurnoJusto(m, bitmap, s, d)
    <2>1. l + 1 .. n - 1 = {l + 1} \cup (l + 1 + 1 .. n - 1)
      BY <1>1, <1>3, <1>4
    <2>2. PorLiberar(c) = {g} \cup PorLiberar(d)
      <3>1. {c.orden[i] : i \in l + 1 .. n - 1} = {c.orden[l + 1]} \cup {c.orden[i] : i \in l + 1 + 1 .. n - 1}
        BY <2>1
      <3>2. l + 1 + 1 = (l + 1) + 1
        BY <1>3
      <3> QED
        BY <1>4, <1>7, <3>1, <3>2 DEF PorLiberar, g
    <2>3. DeVarios(m, PorLiberar(c)) = Ext(m, g) \cup DeVarios(m, PorLiberar(d))
      BY <2>2 DEF DeVarios
    <2>4. ~fuga => bitmap \subseteq DeVarios(m, PorLiberar(c))
      BY <1>2, <1>5, ValoresDeNada DEF TurnoJusto
    <2>5. ~(d.empaquetados > 0)
      BY <1>5, <1>7
    <2> QED
      BY <1>10, <2>3, <2>4, <2>5 DEF TurnoJusto
  <1> QED
    BY <1>1, <1>7, <1>8, <1>10, <1>11, <1>12, <1>13, VueltaIInv DEF d

\* The bits when nothing is left to be freed.
LEMMA YaLiberados ==
  ASSUME NEW m, NEW bm, NEW c \in Compactaciones, Turno(m, <<>>, c), TurnoJusto(m, bm, <<>>, c),
         c.liberados = Len(c.orden) - 1
  PROVE  bm \subseteq 0 .. c.libre - 1
  <1>1. c.empaquetados \in Nat /\ c.liberados \in Nat
    BY DEF Compactaciones
  <1>2. CASE c.empaquetados = 0
    <2>1. PorLiberar(c) = {}
      <3>1. PICK k \in Nat : k = c.liberados
        BY <1>1
      <3>2. k + 1 .. k = {}
        BY <3>1
      <3>3. Len(c.orden) - 1 = k
        BY <3>1
      <3> QED
        BY <3>1, <3>2, <3>3 DEF PorLiberar
    <2>2. DeVarios(m, {}) = {}
      BY DEF DeVarios
    <2> QED
      BY <1>2, <2>1, <2>2, ValoresDeNada DEF TurnoJusto
  <1>3. CASE c.empaquetados > 0
    BY <1>3 DEF TurnoJusto
  <1> QED
    BY <1>1, <1>2, <1>3

\* A file is packed: its bits, unless it is there already, and its first block.
LEMMA AlEmpaquetar ==
  ASSUME Metadatas(metadata), NEW g \in DOMAIN metadata, NEW libre \in Nat
  PROVE  LET s == PasosDeEmpaquetar(libre, g)
             u == Paso("inicial", g, libre)
         IN  /\ s \in Seq(Pasos) /\ s # <<>> /\ Forma(metadata, s) /\ Ultimo(s) = u
             /\ u.accion = "inicial" /\ u.archivo = g /\ u.valor = libre
             /\ Valores(s, "asignar") \subseteq libre .. libre + Cantidad(g) - 1
  <1> DEFINE m == metadata
             k == Cantidad(g)
             u == Paso("inicial", g, libre)
             b == Bloques("asignar", g, libre, k)
             q == IF Inicial(g) = libre THEN <<>> ELSE b
             s == PasosDeEmpaquetar(libre, g)
  <1>1. g \in Archivos /\ k \in Nat
    BY Medidas
  <1>2. u \in Pasos /\ u.accion = "inicial" /\ u.archivo = g /\ u.valor = libre
    BY <1>1 DEF Paso, Pasos, Acciones
  <1>3. s = q \o <<u>>
    BY DEF PasosDeEmpaquetar
  <1> HIDE DEF u, k, s
  <1>4. /\ b \in Seq(Pasos) /\ Len(b) = k
        /\ \A i \in 1 .. k : b[i].accion = "asignar" /\ b[i].archivo = g
        /\ Valores(b, "asignar") = libre .. libre + k - 1
    <2>1. Asignan(b, g, libre, k)
      BY <1>1, LosQueAsigna
    <2> HIDE DEF b
    <2> QED
      BY <2>1 DEF Asignan
  <1> HIDE DEF b
  <1>5. /\ q \in Seq(Pasos) /\ Valores(q, "asignar") \subseteq libre .. libre + k - 1
        /\ \A i \in 1 .. Len(q) : q[i].accion = "asignar" /\ q[i].archivo = g
    <2>1. CASE Inicial(g) = libre
      <3>1. q = <<>>
        BY <2>1
      <3>2. Valores(<<>>, "asignar") = {} /\ Len(<<>>) = 0 /\ 1 .. 0 = {} /\ <<>> \in Seq(Pasos)
        BY ValoresDeNada
      <3> HIDE DEF q
      <3> QED
        BY <3>1, <3>2
    <2>2. CASE Inicial(g) # libre
      <3>1. q = b
        BY <2>2
      <3> HIDE DEF q
      <3> QED
        BY <1>4, <3>1
    <2> QED
      BY <2>1, <2>2
  <1> HIDE DEF q
  <1>6. /\ \A i \in 1 .. Len(q) : q[i].archivo = u.archivo /\ q[i].accion \in {"asignar", "liberar"}
        /\ u.accion \in Simples \cup {"inicial"} /\ (u.accion = "crear" <=> u.archivo \notin DOMAIN m)
    BY <1>2, <1>5
  <1>7. /\ s \in Seq(Pasos) /\ s # <<>> /\ Forma(m, s) /\ Ultimo(s) = u
        /\ Valores(s, "asignar") = Valores(q, "asignar")
    <2>1. /\ q \o <<u>> \in Seq(Pasos) /\ q \o <<u>> # <<>> /\ Forma(m, q \o <<u>>)
          /\ Ultimo(q \o <<u>>) = u
          /\ Valores(q \o <<u>>, "asignar") = Valores(q, "asignar")
      BY <1>2, <1>5, <1>6, Armado
    <2> QED
      BY <1>3, <2>1
  <1> QED
    BY <1>2, <1>5, <1>7 DEF s, u, k

LEMMA EmpaquetarArchivoIInv ==
  ASSUME IInv, EmpaquetarArchivo
  PROVE  IInv'
  <1> DEFINE m == metadata
             c == compactacion
             d == compactacion'
             e == c.empaquetados
             g == c.orden[e + 1]
             k == Cantidad(g)
             b == c.libre
             s == PasosDeEmpaquetar(b, g)
             u == Paso("inicial", g, b)
  <1>1. /\ c.liberados = Len(c.orden) - 1 /\ e < Len(c.orden) - 1 /\ Vuelta(s)
        /\ d = [c EXCEPT !.empaquetados = e + 1, !.libre = b + k]
    BY DEF EmpaquetarArchivo, Otros, TrasElArchivo
  <1>2. /\ Metadatas(m) /\ c \in Compactaciones /\ Ordenado(m, c) /\ Turno(m, <<>>, c)
        /\ ~fuga => TurnoJusto(m, bitmap, <<>>, c)
    BY <1>1, EntreVueltas
  <1>3. e \in Nat /\ b \in Nat /\ c.orden \in Seq(Archivos)
    BY <1>2 DEF Compactaciones
  <1>4. PICK n \in Nat : n = Len(c.orden)
    BY <1>3
  <1>5. g \in DOMAIN m
    BY <1>1, <1>2, <1>3, <1>4, UnPuestoMas
  <1>6. k \in Nat /\ k > 0 /\ k = BloquesDe(m[g].tamanio)
    BY <1>2, <1>5, Medidas DEF Cantidad, Tamanio
  <1>7. /\ s \in Seq(Pasos) /\ s # <<>> /\ Forma(m, s) /\ Ultimo(s) = u
        /\ u.accion = "inicial" /\ u.archivo = g /\ u.valor = b
        /\ Valores(s, "asignar") \subseteq b .. b + k - 1
    <2> HIDE DEF g, b
    <2> QED
      BY <1>2, <1>3, <1>5, AlEmpaquetar
  <1> HIDE DEF s, u, k
  <1>8. /\ d.orden = c.orden /\ d.liberados = c.liberados /\ d.empaquetados = e + 1
        /\ d.libre = b + k /\ d \in Compactaciones
    <2>1. e + 1 \in Nat /\ b + k \in Nat
      BY <1>3, <1>6
    <2> HIDE DEF e, b
    <2>2. /\ c \in Compactaciones /\ e + 1 \in Nat /\ b + k \in Nat
          /\ d = [c EXCEPT !.empaquetados = e + 1, !.libre = b + k]
      BY <1>1, <1>2, <2>1
    <2> HIDE DEF c, d
    <2> QED
      BY <2>2 DEF Compactaciones
  <1>9. d # SinCompactar
    <2>1. SinCompactar.empaquetados = 0
      BY DEF SinCompactar
    <2> HIDE DEF d, e
    <2>2. d.empaquetados # 0
      BY <1>3, <1>8
    <2> QED
      BY <2>1, <2>2
  <1>10. Acomodados(m, Puestos(c, e), b)
    BY <1>2 DEF Turno
  <1> HIDE DEF d
  <1>11. Turno(m, s, d)
    <2>1. e + 1 <= n - 1 /\ e + 1 > 0 /\ e + 1 # 0 /\ (e + 1) - 1 = e
      BY <1>1, <1>3, <1>4
    <2>2. Puestos(d, (e + 1) - 1) = Puestos(c, e)
      BY <1>8, <2>1 DEF Puestos
    <2>3. u.valor + BloquesDe(m[u.archivo].tamanio) = d.libre /\ Acomodados(m, Puestos(c, e), u.valor)
      BY <1>6, <1>7, <1>8, <1>10
    <2>4. c.liberados = n - 1 /\ n - 1 <= n - 1
      BY <1>1, <1>4
    <2> DEFINE w == Ultimo(s)
    <2>5. w = u
      BY <1>7
    <2>6. w.accion = "inicial" /\ w.archivo = c.orden[e + 1] /\ w.valor + BloquesDe(m[w.archivo].tamanio) = d.libre
          /\ Acomodados(m, Puestos(c, e), w.valor)
      BY <1>7, <2>3, <2>5
    <2> HIDE DEF w, e, g
    <2> QED
      BY <1>4, <1>7, <1>8, <2>1, <2>2, <2>4, <2>6 DEF Turno, w
  <1>12. ~fuga => TurnoJusto(m, bitmap, s, d)
    <2>1. ~fuga => bitmap \subseteq 0 .. b - 1
      BY <1>1, <1>2, YaLiberados
    <2>2. (0 .. b - 1) \cup (b .. b + k - 1) \subseteq 0 .. (b + k) - 1
      BY <1>3, <1>6
    <2>3. e + 1 > 0 /\ e + 1 # 0
      BY <1>3
    <2> HIDE DEF b, e
    <2>4. ~fuga => bitmap \cup Valores(s, "asignar") \subseteq 0 .. d.libre - 1
      BY <1>7, <1>8, <2>1, <2>2
    <2> QED
      BY <1>8, <2>3, <2>4 DEF TurnoJusto
  <1>13. Ultimo(s).accion = "inicial"
    BY <1>7
  <1> QED
    BY <1>1, <1>7, <1>8, <1>9, <1>11, <1>12, <1>13, VueltaIInv DEF d

LEMMA DosMas ==
  ASSUME NEW q \in Seq(Pasos), NEW v \in Pasos, NEW w \in Pasos
  PROVE  q \o <<v, w>> = (q \o <<v>>) \o <<w>>
  <1> DEFINE a == q \o <<v, w>>
             r == q \o <<v>>
             b == r \o <<w>>
             n == Len(q)
  <1>1. /\ n \in Nat /\ a \in Seq(Pasos) /\ Len(a) = n + 2
        /\ \A k \in 1 .. n : a[k] = q[k]
        /\ a[n + 1] = v /\ a[n + 2] = w
    <2>1. <<v, w>> \in Seq(Pasos) /\ Len(<<v, w>>) = 2
      OBVIOUS
    <2> QED
      BY <2>1
  <1>2. r \in Seq(Pasos) /\ Len(r) = n + 1 /\ (\A k \in 1 .. n : r[k] = q[k]) /\ r[n + 1] = v
    BY ConOtro
  <1>3. /\ b \in Seq(Pasos) /\ Len(b) = Len(r) + 1
        /\ (\A k \in 1 .. Len(r) : b[k] = r[k]) /\ b[Len(r) + 1] = w
    BY <1>2, ConOtro
  <1> HIDE DEF a, b, r, n
  <1>4. /\ Len(b) = n + 2 /\ (\A k \in 1 .. n : b[k] = q[k]) /\ b[n + 1] = v /\ b[n + 2] = w
    <2>1. (n + 1) + 1 = n + 2 /\ n + 1 \in 1 .. n + 1 /\ \A k \in 1 .. n : k \in 1 .. n + 1
      BY <1>1
    <2> QED
      BY <1>2, <1>3, <2>1
  <1>5. \A k \in 1 .. n + 2 : k \in 1 .. n \/ k = n + 1 \/ k = n + 2
    BY <1>1
  <1>6. \A k \in 1 .. n + 2 : a[k] = b[k]
    BY <1>1, <1>4, <1>5
  <1>7. a = b
    BY <1>1, <1>3, <1>4, <1>6
  <1> QED
    BY <1>7 DEF a, b, r

\* The last file of a compaction is moved: its data, its bits, its first block,
\* and then the blocks after it are looked at.
Mueven(s, f, b, n) ==
  /\ s \in Seq(Pasos) /\ Len(s) = n + 3
  /\ Ultimo(s).accion = "reverificar" /\ Ultimo(s).archivo = f
  /\ s[n + 2].accion = "inicial" /\ s[n + 2].archivo = f /\ s[n + 2].valor = b
  /\ \A k \in 1 .. n + 1 : s[k].accion \in {"copiar", "asignar"} /\ s[k].archivo = f
  /\ Valores(s, "asignar") = b .. b + n - 1

LEMMA AlMover ==
  ASSUME NEW f \in Archivos, NEW libre \in Nat, NEW t \in Nat, Cantidad(f) \in Nat
  PROVE  Mueven(PasosDeMover(libre, f, t), f, libre, Cantidad(f))
  <1> DEFINE n == Cantidad(f)
             b == Bloques("asignar", f, libre, n)
             p == Paso("copiar", f, libre)
             v == Paso("inicial", f, libre)
             w == Paso("reverificar", f, t)
             q == <<p>> \o b
             r == q \o <<v>>
             s == r \o <<w>>
  <1>1. /\ p \in Pasos /\ p.accion = "copiar" /\ p.archivo = f
        /\ v \in Pasos /\ v.accion = "inicial" /\ v.archivo = f /\ v.valor = libre
        /\ w \in Pasos /\ w.accion = "reverificar" /\ w.archivo = f
    BY DEF Paso, Pasos, Acciones
  <1>2. PasosDeMover(libre, f, t) = q \o <<v, w>>
    BY DEF PasosDeMover
  <1> HIDE DEF p, v, w
  <1>3. f \in Archivos /\ libre \in Nat /\ n \in Nat
    OBVIOUS
  <1> HIDE DEF n
  <1>4. /\ b \in Seq(Pasos) /\ Len(b) = n
        /\ \A k \in 1 .. n : b[k].accion = "asignar" /\ b[k].archivo = f
        /\ Valores(b, "asignar") = libre .. libre + n - 1
    <2>1. Asignan(b, f, libre, n)
      BY <1>3, LosQueAsigna
    <2> HIDE DEF b
    <2> QED
      BY <2>1 DEF Asignan
  <1> HIDE DEF b
  <1>5. /\ q \in Seq(Pasos) /\ q # <<>> /\ Head(q) = p /\ Tail(q) = b
        /\ Len(q) = n + 1 /\ \A k \in 1 .. n : q[k + 1] = b[k]
    BY <1>1, <1>4, ConPrimero
  <1> HIDE DEF q
  <1>6. q[1] = p
    BY <1>5
  <1>7. \A k \in 1 .. n + 1 : q[k].accion \in {"copiar", "asignar"} /\ q[k].archivo = f
    <2>1. ASSUME NEW k \in 1 .. n + 1, k # 1
          PROVE  q[k].accion = "asignar" /\ q[k].archivo = f
      <3>1. k - 1 \in 1 .. n /\ (k - 1) + 1 = k
        BY <1>3, <2>1
      <3>2. q[k] = b[k - 1]
        BY <1>5, <3>1
      <3> QED
        BY <1>4, <3>1, <3>2
    <2> QED
      BY <1>1, <1>6, <2>1
  <1>8. Valores(q, "asignar") = libre .. libre + n - 1
    <2>1. \A a : Valores(q, a) = Valores(Tail(q), a)
                               \cup (IF Head(q).accion = a THEN {Head(q).valor} ELSE {})
      BY <1>5, ValoresAlAvanzar
    <2>2. Head(q).accion # "asignar"
      BY <1>1, <1>5
    <2>3. Valores(q, "asignar") = Valores(Tail(q), "asignar")
      BY <2>1, <2>2
    <2> QED
      BY <1>4, <1>5, <2>3
  <1>9. /\ r \in Seq(Pasos) /\ Len(r) = (n + 1) + 1 /\ r[(n + 1) + 1] = v
        /\ \A k \in 1 .. n + 1 : r[k] = q[k]
    BY <1>1, <1>5, ConOtro
  <1>10. Valores(r, "asignar") = Valores(q, "asignar")
    <2>1. \A a : Valores(r, a) = Valores(q, a) \cup (IF v.accion = a THEN {v.valor} ELSE {})
      BY <1>1, <1>5, ValoresConOtro
    <2>2. v.accion # "asignar"
      BY <1>1
    <2> QED
      BY <2>1, <2>2
  <1> HIDE DEF r
  <1>11. (n + 1) + 1 = n + 2 /\ (n + 2) + 1 = n + 3 /\ n + 2 \in 1 .. n + 2
         /\ \A k \in 1 .. n + 1 : k \in 1 .. n + 2
    BY <1>3
  <1>12. Len(r) = n + 2 /\ r[n + 2] = v
    BY <1>9, <1>11
  <1>13. /\ s \in Seq(Pasos) /\ Len(s) = (n + 2) + 1 /\ Ultimo(s) = w
         /\ \A k \in 1 .. n + 2 : s[k] = r[k]
    BY <1>1, <1>9, <1>12, ConOtro
  <1>14. Valores(s, "asignar") = Valores(r, "asignar")
    <2>1. \A a : Valores(s, a) = Valores(r, a) \cup (IF w.accion = a THEN {w.valor} ELSE {})
      BY <1>1, <1>9, ValoresConOtro
    <2>2. w.accion # "asignar"
      BY <1>1
    <2> QED
      BY <2>1, <2>2
  <1>15. PasosDeMover(libre, f, t) = s
    BY <1>1, <1>2, <1>5, DosMas DEF r
  <1> HIDE DEF s
  <1>16. Mueven(s, f, libre, n)
    BY <1>1, <1>7, <1>8, <1>9, <1>10, <1>11, <1>12, <1>13, <1>14 DEF Mueven
  <1> QED
    BY <1>15, <1>16 DEF n

LEMMA MoverArchivoIInv ==
  ASSUME IInv, MoverArchivo
  PROVE  IInv'
  <1> DEFINE m == metadata
             c == compactacion
             e == c.empaquetados
             f == ArchivoAMover
             k == Cantidad(f)
             b == c.libre
             t == c.tamanio
             s == PasosDeMover(b, f, t)
  <1>1. e = Len(c.orden) - 1 /\ Vuelta(s) /\ compactacion' = SinCompactar
    BY DEF MoverArchivo, Otros
  <1>2. /\ TypeOK /\ IsFiniteSet(DOMAIN m) /\ rota
        /\ Metadatas(m) /\ c \in Compactaciones /\ Ordenado(m, c) /\ Turno(m, <<>>, c)
        /\ ~fuga => TurnoJusto(m, bitmap, <<>>, c)
        /\ bitmap' = bitmap /\ metadata' = m /\ escrito' = escrito /\ pendiente' = s
        /\ vivo' = vivo /\ reinicios' = reinicios /\ fuga' = fuga /\ rota' = rota
    BY <1>1, EntreVueltas
  <1>3. /\ e \in Nat /\ b \in Nat /\ t \in Nat /\ c.orden \in Seq(Archivos)
        /\ c.liberados \in Nat
    BY <1>2 DEF Compactaciones
  <1>4. PICK n \in Nat : n = Len(c.orden)
    BY <1>3
  <1>5. f = c.orden[e + 1] /\ e < n /\ e + 1 = n
    BY <1>1, <1>3, <1>4 DEF ArchivoAMover, Otros
  <1>6. f \in DOMAIN m /\ Puestos(c, e) = DOMAIN m \ {f}
    <2> HIDE DEF e, f
    <2> QED
      BY <1>2, <1>3, <1>4, <1>5, UnPuestoMas
  <1>7. f \in Archivos /\ k \in Nat /\ k > 0 /\ k = BloquesDe(m[f].tamanio)
    BY <1>2, <1>6, Medidas DEF Cantidad, Tamanio
  <1> HIDE DEF f, k, b, t, e
  <1>8. Mueven(s, f, b, k)
    <2>1. f \in Archivos /\ b \in Nat /\ t \in Nat /\ Cantidad(f) \in Nat
      BY <1>3, <1>7 DEF k
    <2> QED
      BY <2>1, AlMover DEF k
  <1> HIDE DEF s
  <1>9. /\ s \in Seq(Pasos) /\ Len(s) = k + 3
        /\ Ultimo(s).accion = "reverificar" /\ Ultimo(s).archivo = f
        /\ s[k + 2].accion = "inicial" /\ s[k + 2].archivo = f /\ s[k + 2].valor = b
        /\ \A i \in 1 .. k + 1 : s[i].accion \in {"copiar", "asignar"} /\ s[i].archivo = f
        /\ Valores(s, "asignar") = b .. b + k - 1
    BY <1>8 DEF Mueven
  <1>10. s # <<>>
    BY <1>7, <1>9
  <1>11. Forma(m, s)
    <2>1. \A i \in 1 .. k + 3 : i \in 1 .. k + 1 \/ i = k + 2 \/ i = k + 3
      BY <1>7
    <2>2. s[k + 3].archivo = f
      BY <1>9 DEF Ultimo
    <2>3. \A i \in 1 .. Len(s) : s[i].archivo = Ultimo(s).archivo
      BY <1>9, <2>1, <2>2
    <2> QED
      BY <1>6, <1>9, <2>3 DEF Forma
  <1>12. Acomodados(m, DOMAIN m \ {f}, b)
    <2>1. Acomodados(m, Puestos(c, c.empaquetados), c.libre)
      BY <1>2 DEF Turno
    <2> QED
      BY <1>6, <2>1 DEF e, b
  <1>13. /\ Len(s) > 1 /\ Len(s) # 1 /\ Len(s) - 1 = k + 2 /\ Len(s) - 2 = k + 1
    BY <1>7, <1>9
  <1>14. Mudanza(m, s)
    BY <1>9, <1>12, <1>13 DEF Mudanza
  <1>15. ~fuga => MudanzaJusta(m, bitmap, s)
    <2>1. c.liberados = Len(c.orden) - 1
      <3>1. c.liberados <= n - 1 /\ (e > 0 => c.liberados = n - 1)
        BY <1>2, <1>4 DEF Turno, e
      <3> QED
        BY <1>3, <1>4, <1>5, <3>1
    <2>2. ~fuga => bitmap \subseteq 0 .. b - 1
      BY <1>2, <2>1, YaLiberados DEF b
    <2>3. (0 .. b - 1) \cup (b .. b + k - 1) \subseteq 0 .. b + k - 1
      BY <1>3, <1>7
    <2>4. ~fuga => bitmap \cup Valores(s, "asignar") \subseteq 0 .. b + k - 1
      BY <1>9, <2>2, <2>3
    <2> QED
      BY <1>7, <1>9, <1>13, <2>4 DEF MudanzaJusta
  <1>16. TypeOK'
    BY <1>1, <1>2, <1>9, SinNada, Tipos, TiposDespues
  <1>17. Ultimo(s).accion \notin Simples
    BY <1>9 DEF Simples
  <1>18. EnCurso(m, s, SinCompactar) /\ Justicia(m, bitmap, s, SinCompactar)
    BY <1>9, <1>10, <1>11, <1>17 DEF EnCurso, Justicia
  <1>19. ~Compactando'
    BY <1>1 DEF Compactando
  <1> QED
    BY <1>1, <1>2, <1>14, <1>15, <1>16, <1>18, <1>19 DEF IInv

-----------------------------------------------------------------------------
(* Every step.                                                             *)

LEMMA EscrituraIInv ==
  ASSUME IInv, Escritura
  PROVE  IInv'
  <1>1. CASE AsignarBloque \/ LiberarBloque
    BY <1>1, AsignarIInv
  <1>2. CASE CrearMetadata
    BY <1>2, CrearMetadataIInv
  <1>3. CASE Desvincular
    BY <1>3, DesvincularIInv
  <1>4. CASE ActualizarInicial
    BY <1>4, ActualizarInicialIInv
  <1>5. CASE ActualizarTamanio
    BY <1>5, ActualizarTamanioIInv
  <1>6. CASE CopiarBuffer
    BY <1>6, CopiarIInv
  <1>7. CASE Reverificar
    BY <1>7, ReverificarIInv
  <1> QED
    BY <1>1, <1>2, <1>3, <1>4, <1>5, <1>6, <1>7 DEF Escritura

LEMMA BucleIInv ==
  ASSUME IInv, Bucle
  PROVE  IInv'
  <1>1. CASE LiberarArchivo
    BY <1>1, LiberarArchivoIInv
  <1>2. CASE EmpaquetarArchivo
    BY <1>2, EmpaquetarArchivoIInv
  <1>3. CASE MoverArchivo
    BY <1>3, MoverArchivoIInv
  <1> QED
    BY <1>1, <1>2, <1>3 DEF Bucle

LEMMA PasoIInv == IInv /\ [Next]_vars => IInv'
  <1> SUFFICES ASSUME IInv, [Next]_vars PROVE IInv'
    OBVIOUS
  <1>1. ASSUME NEW f \in Archivos, Pedido(f) PROVE IInv'
    BY <1>1, PedidoIInv
  <1>2. CASE Escritura
    BY <1>2, EscrituraIInv
  <1>3. CASE Bucle
    BY <1>3, BucleIInv
  <1>4. CASE Matar
    BY <1>4, MorirIInv DEF Matar
  <1>5. CASE Reiniciar
    BY <1>5, ReiniciarIInv
  <1>6. CASE UNCHANGED vars
    <2>1. /\ bitmap' = bitmap /\ metadata' = metadata /\ escrito' = escrito
          /\ pendiente' = pendiente /\ compactacion' = compactacion /\ vivo' = vivo
          /\ reinicios' = reinicios /\ fuga' = fuga /\ rota' = rota
      BY <1>6 DEF vars
    <2>2. TypeOK /\ (~rota => Sanidad(metadata, bitmap, escrito, pendiente, compactacion))
      BY DEF IInv
    <2>3. TypeOK'
      BY <2>1, <2>2, Tipos, TiposDespues
    <2>4. ~rota => Datos(metadata, escrito')
      BY <2>1, <2>2 DEF Sanidad
    <2> QED
      BY <2>1, <2>3, <2>4, IgualIInv
  <1> QED
    BY <1>1, <1>2, <1>3, <1>4, <1>5, <1>6 DEF Next

-----------------------------------------------------------------------------
(* What follows for the disk.                                              *)

LEMMA LosDeArchivos == DeArchivos = DeVarios(metadata, DOMAIN metadata)
  BY DelArchivo DEF DeArchivos, DeVarios

\* Whatever requests the interface serves and wherever the process is killed,
\* the bits, the metadata and the writes left stay well formed: no block out of
\* the bitmap is marked, no file has a negative block or size (asignar_bloque,
\* crear_archivo, acortar_archivo, compactar_file_system).
THEOREM DiscoBienFormado == Spec => []TypeOK
  <1>1. IInv => TypeOK
    BY DEF IInv
  <1> QED
    BY <1>1, AlEmpezarTodo, PasoIInv, PTL DEF Spec

\* After any sequence of IO_FS_CREATE, IO_FS_DELETE, IO_FS_TRUNCATE and
\* IO_FS_WRITE, and a kill between any two of their writes to bitmap.dat and to
\* the metadata, two files share no block and bitmap.dat offers none of their
\* blocks as free, unless a request was served that the code gets wrong.
THEOREM NingunBloqueEsDeDos == Spec => []SinSolapes
  <1>1. ASSUME IInv, ~rota, EnReposo
        PROVE  /\ \A f, g \in DOMAIN metadata : f # g => Extension(f) \cap Extension(g) = {}
               /\ DeArchivos \subseteq bitmap
    BY <1>1, EnPaz, DelArchivo, LosDeArchivos DEF Disjuntos
  <1>2. IInv => SinSolapes
    BY <1>1 DEF SinSolapes
  <1> QED
    BY <1>2, AlEmpezarTodo, PasoIInv, PTL DEF Spec

\* Between two requests every bit set in bitmap.dat is of a block that some file
\* has, even after borrar_archivo, agrandar_archivo or compactar_file_system
\* went wrong, unless the process ended in the middle of a request.
THEOREM NingunBloqueSePierde == Spec => []SinFugas
  <1>1. ASSUME IInv, ~fuga, EnReposo PROVE bitmap \subseteq DeArchivos
    BY <1>1, EnPaz, LosDeArchivos
  <1>2. IInv => SinFugas
    BY <1>1 DEF SinFugas
  <1> QED
    BY <1>2, AlEmpezarTodo, PasoIInv, PTL DEF Spec

\* What IO_FS_WRITE put in block i of a file stays in block i of that file, and
\* no other write landed on the same block of bloques.dat, through truncations
\* and deletions of this and of other files and through kills, unless a request
\* was served that the code gets wrong.
THEOREM LosDatosQuedan == Spec => []DatosEnSuLugar
  <1>1. ASSUME IInv, ~rota, EnReposo, NEW e \in escrito
        PROVE  /\ e[3] = Inicial(e[1]) + e[2]
               /\ \A d \in escrito : d[3] = e[3] => d = e
    <2> DEFINE m == metadata
    <2>1. /\ Metadatas(m) /\ Disjuntos(m, DOMAIN m) /\ Datos(m, escrito)
          /\ escrito \subseteq Archivos \X Nat \X Nat
      BY <1>1, EnPaz, Tipos DEF IInv
    <2>2. ASSUME NEW d \in escrito
          PROVE  /\ d[1] \in DOMAIN m /\ d[3] = m[d[1]].inicial + d[2]
                 /\ d[3] \in Ext(m, d[1])
      <3>1. /\ d[1] \in DOMAIN m /\ d[2] \in 0 .. BloquesDe(m[d[1]].tamanio) - 1
            /\ d[3] = m[d[1]].inicial + d[2]
        BY <2>1 DEF Datos
      <3>2. m[d[1]].inicial \in Nat /\ BloquesDe(m[d[1]].tamanio) \in Nat
        BY <2>1, <3>1, Extensiones
      <3> QED
        BY <3>1, <3>2 DEF Ext
    <2>3. ASSUME NEW d \in escrito, d[3] = e[3] PROVE d = e
      <3>1. d[1] \in DOMAIN m /\ e[1] \in DOMAIN m /\ d[3] \in Ext(m, d[1]) \cap Ext(m, e[1])
        BY <2>2, <2>3
      <3>2. d[1] = e[1]
        BY <2>1, <3>1 DEF Disjuntos
      <3>3. m[e[1]].inicial \in Nat
        BY <2>1, <3>1, Extensiones
      <3>4. /\ d \in Archivos \X Nat \X Nat /\ e \in Archivos \X Nat \X Nat
        BY <2>1
      <3>5. d[2] \in Nat /\ e[2] \in Nat
        BY <3>4
      <3>6. m[e[1]].inicial + d[2] = m[e[1]].inicial + e[2]
        BY <2>2, <2>3, <3>2
      <3>7. d[2] = e[2]
        BY <3>3, <3>5, <3>6
      <3> QED
        BY <2>3, <3>2, <3>4, <3>7
    <2> QED
      BY <2>2, <2>3 DEF Inicial
  <1>2. IInv => DatosEnSuLugar
    BY <1>1 DEF DatosEnSuLugar
  <1> QED
    BY <1>2, AlEmpezarTodo, PasoIInv, PTL DEF Spec

\* When compactar_file_system returns and agrandar_archivo looks again at the
\* blocks after its file, all the files lie one behind the other from block 0:
\* no two share a block and none is left between them. From any disk, also one
\* that earlier requests left wrong.
THEOREM CompactarDejaContiguo == Spec => []CompactacionContigua
  <1>1. ASSUME IInv, Proximo("reverificar")
        PROVE  /\ \A f, g \in DOMAIN metadata : f # g => Extension(f) \cap Extension(g) = {}
               /\ DeArchivos = 0 .. Cardinality(DeArchivos) - 1
    <2>1. pendiente # <<>> /\ Head(pendiente).accion = "reverificar"
      BY <1>1 DEF Proximo
    <2>2. Mudandose(pendiente) /\ Len(pendiente) = 1
      BY <1>1, <2>1, EsMudanza
    <2>3. PICK b \in Nat : Acomodados(metadata, DOMAIN metadata, b)
      BY <1>1, <2>2 DEF IInv, Mudanza
    <2>4. Cardinality(0 .. b - 1) = b
      <3>1. 0 \in Int /\ b - 1 \in Int /\ (0 > b - 1 => b = 0) /\ (b - 1) - 0 + 1 = b
        BY <2>3
      <3>2. Cardinality(0 .. b - 1) = IF 0 > b - 1 THEN 0 ELSE (b - 1) - 0 + 1
        BY <3>1, FS_Interval
      <3> QED
        BY <3>1, <3>2
    <2>5. DeArchivos = 0 .. b - 1
      BY <2>3, LosDeArchivos DEF Acomodados
    <2>6. \A f, g \in DOMAIN metadata : f # g => Extension(f) \cap Extension(g) = {}
      BY <2>3, DelArchivo DEF Acomodados, Disjuntos
    <2> QED
      BY <2>4, <2>5, <2>6
  <1>2. IInv => CompactacionContigua
    BY <1>1 DEF CompactacionContigua
  <1> QED
    BY <1>2, AlEmpezarTodo, PasoIInv, PTL DEF Spec

=============================================================================
