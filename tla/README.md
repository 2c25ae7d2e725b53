# C-Comenta in TLA+

A verification project for the operating-system simulator *C-Comenta*
(`src/`, C with pthreads and sockets). It models the parts of the simulator
where threads and processes interact, model-checks them with TLC, and proves
the properties that matter most with TLAPS. Names in the modules are those of
the code; "the enunciado" is `src/C-comenta.pdf`, the specification the
program was written to (`src/README.md` links to it).

## The system

Four programs connected by TCP, and a shared library (`src/utils`):

| Program | State | Operations | Threads |
|---|---|---|---|
| **kernel** | queues NEW, READY, READY+, EXIT, `lista_procesos_blocked`, `procesos_en_sistema`, semaphores, resources, interfaces | console commands; NEW→READY; READY→EXEC; evictions; I/O answers; EXIT; WAIT/SIGNAL; quantum | console, `creacion_de_procesos`, `eliminacion_de_procesos`, `iniciar_planificador_corto_plazo`, `recibir_dispatch`, `verificar_quantum[_vrr]`, one `atender_interfaz` per interface, one `atender_cliente` per connection |
| **cpu** | registers, flags (`interruption_flag`, `end_process_flag`, `flag_out_of_memory`...), `interrupcion_recibida`, TLB | fetch, decode, execute, check interrupt; translate addresses | dispatch server, interrupt server |
| **memoria** | `procesos_en_memoria`, page tables, `marcos_ocupados`, `memoria_principal` | create, end, resize a process; page table access; read, write; fetch instruction | one `atender_cliente` per connection |
| **entradasalida** | one interface (generic, STDIN, STDOUT, DialFS); DialFS: bitmap, block file, metadata files | one I/O request at a time | one |

Interactions. The kernel sends a PCB to the CPU on the *dispatch* connection
and receives it back with a reason; it interrupts on the *interrupt*
connection. The kernel asks memoria to create and end processes on one
connection that two of its threads use; the CPU asks memoria for instructions,
frames, data and resizes on another. An interface connects to the kernel,
receives a request and answers, and reads and writes memoria. Inside the
kernel the threads hand PCBs to each other through queues with a mutex and a
counting semaphore each.

What is hard: about ten kernel threads over shared queues and flags, many read
outside their mutex; planning that can be detained and resumed at any moment
(`planificacion_detenida` and five gate semaphores); two threads on one
request/answer connection; memoria with no mutex at all; CPU flags that
survive from one process to the next; timers that race an eviction; and the
arithmetic of pages and blocks. `PROJECT.json` lists each hazard at its line.

What makes each part correct:

* *frames*: no frame is shared, lost or offered twice; a resize gives exactly the pages asked for;
* *scheduling*: a process is in one place; semaphores agree with queues; one process in the CPU; the degree of multiprogramming neither exceeded nor leaked; the five-state diagram respected; nobody forgotten;
* *resources*: instances conserved, never over-granted; a waiting process does not run; a returned instance wakes a waiter;
* *detention*: nothing moves while detained, nothing stays stuck after it;
* *translation, TLB*: an address always leads to a frame of its own process;
* *DialFS*: files occupy disjoint runs of blocks, and the bitmap says so, across growth and compaction.

## Modules

| Module | What it is |
|---|---|
| `AsignacionDeMarcos` | abstract: who owns each frame |
| `Memoria` | memoria's frame allocation: bitmap, page tables, two threads |
| `MemoriaProofs` | its theorems |
| `CicloDeVida` | abstract: the diagram of five states, one EXEC, bounded degree |
| `Planificador` | the kernel's threads from INICIAR_PROCESO to the end of a process |
| `PlanificadorProofs` | its theorems: types, semaphores and gates; where a process is, the degree and the refinement of `CicloDeVida` |
| `Recursos` | WAIT, SIGNAL and `liberar_recursos` over two threads |
| `RecursosProofs` | its theorems |
| `CicloCpu` | the instruction cycle of the CPU, its interrupts, the quantum timer, the evictions, the console that kills |
| `CicloCpuProofs` | its theorems |
| `Finalizacion` | FINALIZAR_PROCESO and MULTIPROGRAMACION against the threads of the kernel |
| `FinalizacionProofs` | its theorems |
| `Traduccion` | MMU and TLB over page tables, and addresses handed to I/O |
| `DialFS` | bitmap, metadata and compaction, write by write, with kills and restarts |
| `DialFSProofs` | its theorems |
| `InterfacesIO` | interfaces that connect, serve, die and come back: dictionaries, queues, semaphores |
| `InterfacesProofs` | its theorems |
| `Conteo` | lemmas: how many elements of a sequence are in a set, through append, pop, removal and concatenation |
| `MCMemoria`, `MCPlanificador`, `MCRecursos`, `MCCicloCpu`, `MCFinalizacion`, `MCTraduccion`, `MCDialFS`, `MCInterfacesIO` | values and symmetry sets for TLC |

The kernel is cut into models that overlap, each at the grain its
questions need: `Planificador` has every queue, semaphore and gate but a CPU
that only answers; `CicloCpu` has the CPU, the timer and the order of steps of
an eviction but one ready queue and no gates; `Finalizacion` has the console's
scans, indices and counters but no gates and no timer; `InterfacesIO` has the
dictionaries and the life of the interfaces, of which `Planificador` has one
thread each from the start; `Recursos` has WAIT, SIGNAL and the list of blocked
processes, which I/O changes too.

### Memoria

Two threads change frames: the one that serves the kernel (`kernelOp`,
`kernelPid`, `kernelSig`: CREAR_PROCESO, END_PROCESS) and the one that serves
the CPU (`cpuOp`, `cpuPaginas`, `cpuPedido`: AJUSTAR_TAMANIO_PROCESO). Each
turn of a loop is an action, and so is each of the two searches for a free
frame (`main.c:240` and `:246`), so every interleaving of the two handlers is
explored. `respuesta` is the last operation code sent to the CPU. `Despachar`
and `Desalojar` are what the module takes from the kernel and the CPU: END_PROCESS
is asked for a process that is not in the CPU, and a process in the
CPU waits for the answer of its resize. A pid is not reused, which holds for
the kernel as long as its connection to memoria delivers the answers to the
right thread (see *PlanificadorConexion*).
After OUT_OF_MEMORY the process in the CPU resizes no more. The model lets the
next one resize, which the CPU of the code no longer does (`Muda` in
`CicloCpu`): memoria's safety does not rest on that.

Abstracted: contents of memory, instructions, logging. One bit of the bitmap
changes atomically; the code rewrites the byte it is in.

### Planificador

One variable per thread says where the thread is, with the PCB it holds;
queues are sequences of pids; `sem` holds the counters of the POSIX
semaphores. A thread is cut where it can block or be overtaken: at each
`sem_wait`, between reading `planificacion_detenida` and passing the gate,
between a send and the receive of its answer, and between the handling of an
eviction and `sem_post(&cpu_libre)`. Work between two such points on queues
protected by a mutex is one action.

| Code | Actions |
|---|---|
| INICIAR_PROCESO (`consola.c:89`) | `IniciarProceso`, `RespuestaCreacion`, `Registrar` |
| DETENER_/INICIAR_PLANIFICACION | `DetenerPlanificacion`, `IniciarPlanificacion` |
| `creacion_de_procesos` | `EsperarNuevo`, `CompuertaCreacion`, `TomarGrado`, `AgregarAReady` |
| `iniciar_planificador_corto_plazo` | `EsperarReady`, `EsperarCpu`, `CompuertaCorto`, `Despachar` |
| `comenzar_proceso`, as the kernel sees it | `Salir`, `FinDeQuantum`, `SinMemoria`, `Descartar` |
| `recibir_dispatch` | `RecibirDesalojo`, `CompuertaDespacho`, `ManejarFin`, `ManejarFinDeQuantum`, `ManejarIo`, `LiberarCpu` |
| `atender_interfaz` | `TomarPedido`, `RecibirResultado`, `CompuertaIo`, `Desbloquear` |
| `eliminacion_de_procesos` | `EsperarExit`, `CompuertaEliminacion`, `PedirFin`, `RespuestaFin` |

`respuestas` is the stream of answers on `conexion_memoria`, which the console
and `eliminacion_de_procesos` both read. memoria answers at once and in order.
An expired quantum may happen at any time under RR and VRR (the timer thread
is in `CicloCpu`); whether a process under VRR has quantum left when its I/O
ends is a nondeterministic choice.

### Recursos

`hilo` gives the place of the two threads that run this code: `despacho`
(WAIT, SIGNAL) and `eliminacion` (`liberar_recursos`). `instancias` is updated
under a mutex, but it is read, and `lista_procesos_blocked` is searched,
outside it: decrement, read, queueing and blocking are four steps of a WAIT, and
increment, check, removal from the queue, search, removal from the list
and push to READY are the steps of `sumar_instancia_a_recurso`. Programs name
resources that exist and SIGNAL only what they hold. `SalenCon` are the
resources a program may still hold when it exits, which is what makes
`liberar_recursos` do something; searching the index of a pid is one step.
`PedirIo` and `TerminarIo` are what I/O does to `lista_procesos_blocked`
meanwhile; `listaRota` says that a stale index removed the wrong entry of it.
`asignadas` counts down as `liberar_recursos` walks an account, where the
code frees the account at the end.

### CicloCpu

| Code | Actions |
|---|---|
| `iniciar_planificador_corto_plazo`, `ejecutar_PCB` | `Despachar`, `ArrancarQuantum` |
| `verificar_quantum`, `verificar_quantum_vrr` | `TomarArranque`, `CpuLibreATiempo`, `Vencer` |
| `recibir_dispatch` | `Recibir`, then one of `Avisar`, `Soltar`, `Listar`, `Retirar`, `Responder`, `Matar` per step |
| FINALIZAR_PROCESO, case EXEC | `Finalizar`, `Finalizado`, `AvisarFinalizado` |
| `iniciar_servidor_interrupt` | `RecibirInterrupcion` |
| `iniciar_servidor_dispatch`, `decode_y_execute_instruccion` | `TomarPcb`, `Calculo`, `Exit`, `OperacionIo`, `ResizeFalla`, `PedirRecurso`, `LeerRespuesta` |
| the end of `comenzar_proceso`, `accion_interrupt` | `TerminarFin`, `AccionInterrupt`, `TerminarCallado` |

`tareas` is what `recibir_dispatch` has left to do for the eviction it serves,
in the order of the code, so that every other thread may run in between.
`banderas` are the flags that end the cycle: `interruption`, when an I/O
instruction was interrupted, and `out_of_memory` survive to the next PCB.
`interrupcion` is `interrupcion_recibida`, overwritten and never cleared.

The code loses track of a PCB in several ways, and the model records each and
stops there (`quiebre`): the CPU answers twice (an interrupt pending when
RESIZE fails, when WAIT blocks its process or when a resource does not exist);
KILL_PROCESS is answered with another process, because the interrupt flag
outlived an I/O instruction; the console goes on with a PCB that was freed.
`tardio`: the console frees the CPU before it tells the timer
(`consola.c:281`, `:291`), so that the next process may lose its quantum.
A program is any sequence of the kinds in `Instrucciones`.

### Finalizacion

| Code | Actions |
|---|---|
| INICIAR_PROCESO | `Iniciar` |
| `creacion_de_procesos` | `TomarNuevo`, `TomarCupo`, `SacarNuevo`, `PonerListo`, `AvisarListo` |
| `iniciar_planificador_corto_plazo` | `TomarListo`, `TomarCpu`, `Despachar` |
| `recibir_dispatch`, `atender_interfaz` | `Desalojar`, `Bloquear`, `Terminar`, `Desbloquear`, `PonerListo`, `AvisarListo` |
| `eliminacion_de_procesos` | `TomarSalida`, `ElimQuitar`, `ElimVerCupo`, `ElimDarCupo` |
| FINALIZAR_PROCESO | `Finalizar`, `LeerEstado`, `BuscarNuevo`, `BuscarListo`, `BuscarBloqueado`, `EsperarNuevo`, `EsperarListo`, `EsperarMuerte`, `Quitar`, `VerCupoConsola`, `DarCupoConsola` |
| MULTIPROGRAMACION | `SubirGrado`, `BajarGrado`, `EsperarCupo`, `AnotarResto` |

The test of `flag_grado_multi` and what follows it are two steps, as are the
search of an index in `procesos_en_sistema` and the removal. The console waits
for the post of the process it took out with the mutex of the queue held: who
pops waits, and who pushes copies the held mutex (`pcb.c:20` takes it by
value) and waits on the copy for ever (`trabado`). The scans also change the
order of the queues (`NuevosSin`, `ListosSin`). `quiebre` names the mistake
after which the program uses freed memory or a wrong counter: the process
moved between the reading of its state and the search; it was being
eliminated already; an index shifted; `flag_grado_multi`, which is unsigned,
went below 0. INICIAR_PROCESO is one step here (`Planificador` has its steps).

### InterfacesIO

| Code | Actions |
|---|---|
| `atender_cliente`, `crear_interfaz` | `Conectar`, `PublicarConexion`, `PublicarCola`, `PublicarSemaforos`, `CrearHilo` |
| `recibir_dispatch`, OPERACION_IO | `PedirIo`, `Encolar`, `Avisar` |
| `atender_interfaz` | `LeerSemaforos`, `EsperarInstruccion`, `EsperarLibre`, `SacarPedido`, `EnviarPedido`, `RecibirRespuesta`, `PasarCompuerta`, `ManejarExito`, `ManejarFalla` |
| the module at the other end | `Responder`, `Morir` |
| console | `FinalizarProceso` (a blocked process), `DetenerPlanificacion`, `IniciarPlanificacion` |

A connection stands for a socket and for the queue and the semaphores that
`crear_interfaz` makes for it, so that a dictionary entry is a connection or
NULO. The code looks each entry up by name when it needs it, and so do the
actions: after a reconnection a thread of the old registration may pop the new
queue. `nombre_entrada_salida_conectada` is the global that every
`atender_cliente` receives its name in, kept as the connection it came from.
`perdidos` is history: processes whose request got no answer.

The model stops at a `quiebre`: "nombre", a thread uses or frees the name that
another one received (`interfaces.c:158`); "nula", dispatch finds no queue or
no semaphores yet (`dispatch.c:80`, `:86`); "vacia", `atender_interfaz` pops an
empty queue; "muerto", it looks for a process that was killed and goes on with
a pointer never initialised (`pcb.c:41`).

### Traduccion

`TLB` is a sequence whose first entry is the next to be replaced:
`tiempo_creacion` under FIFO and `ultimo_acceso` under LRU give that order.
`Mover` (MOV_IN, MOV_OUT), `CopyString` and `PedirIo` (the four I/O
instructions with addresses) translate byte by byte; `Redimensionar` and
`FinProceso` change the page tables and, as in the code, not the TLB;
`TerminarIo` is the use of addresses computed when the process was in the CPU.
`achicados` remembers the processes that a RESIZE took a cached page from:
their entries are stale, and the properties except them. Only accesses within
the size of the process are made: the code checks nothing, and memoria answers
an unknown page with frame -1.

### DialFS

A request is the sequence of its writes to `bitmap.dat` and to the metadata
file, each synchronised at once; `Morir` is `exit(EXIT_FAILURE)` or a kill
between two of them, and `Reiniciar` maps what is on the disk again.
`Crear`, `Borrar`, `Acortar`, `Crecer`, `CrecerCompactando`, `EscribirArchivo`
and `LeerArchivo` are the cases of `atender_cliente`; `AsignarBloque`,
`LiberarBloque` and the rest of `Escritura` are the writes.

`compactar_file_system` is a request of several such sequences, one for each
turn of its loops: `Compactar` frees the blocks of the file that grows,
`LiberarArchivo` those of each other file, `EmpaquetarArchivo` packs the other
files one behind the other from block 0 and `MoverArchivo` puts the one that
grows after them; then `Reverificar` looks again at the blocks that follow.
`compactacion` keeps what the loops know: the order, which is that of `readdir`
(any), how many files are freed and packed, and `bloque_libre`. `escrito` says
where the data of a block of a file lies.

`rota` is set by a request that the code gets wrong, which the properties
about overlaps and data except: `borrar_archivo` frees one block more than the
file has; `agrandar_archivo` checks the blocks after the last one and marks
those after the first one; a file cut to 0 gives up the block it keeps;
compaction copies each block onto the same one and leaves clear the bits of
files that do not move; 0 - 1 blocks are wanted when an empty file is
truncated to 0. `fuga` is set by a kill in the middle of a request.

## Runs

| Run | Question | Bounds | States |
|---|---|---|---|
| Memoria | frames shared, lost, double-booked? resizes exact and answered? | 3 processes, 3 frames of 2 bytes, sizes 0, 1, 3, 4, 7 | 103 419 |
| PlanificadorVRR | semaphores, both ready queues, CPU token, degree, gates; refines `CicloDeVida` | VRR, 3 processes, 2 interfaces, degree 2, 2 detentions | 773 653 |
| PlanificadorVivo | liveness under RR, RESIZE may fail | 3 processes, 1 interface, degree 2 | 146 802 |
| Recursos | conservation, exclusion, where blocked processes are | 3 processes, resources with 1 and 2 instances, 2 instances retained at most, 2 requests of I/O | 304 193 |
| CicloCpu | who executes, who watches it, does it leave, does the console get its answer | RR, 2 processes, 1 interrupt in the socket, 1 post of `arrancar_quantum`, 1 FINALIZAR_PROCESO | 404 331 |
| Finalizacion | slots, semaphores, places of processes; does FINALIZAR_PROCESO end | 3 processes, degree 2 changed to 0, 1 or 3 twice, 1 FINALIZAR_PROCESO | 976 829 |
| Traduccion | does an address reach its byte | 2 processes, 3 frames of 2 bytes, TLB of 0 to 2 entries, FIFO and LRU, accesses of 1 and 4 bytes | 315 165 |
| DialFS | overlaps, leaks, data, compaction, kills | 2 files, 8 blocks of 2 bytes, sizes 0, 1, 2, 7, 1 restart | 4 462 976 |
| InterfacesIO | requests lost or doubled, semaphores, is each request served | 2 processes, 2 connections of one name or two, 1 death, 1 detention, 1 FINALIZAR_PROCESO | 478 872 |
| PlanificadorPausa (violation) | does a detention hold the scheduler? | 1 process, 2 detentions | |
| PlanificadorConexion (violation) | does `eliminacion_de_procesos` survive the console? | 2 processes | |
| RecursosSignal (violation) | does a SIGNAL wake a waiter? | 3 processes, 1 instance | |

Why the bounds are enough to be interesting. Three processes are one in the
CPU, one in transit and one queued, and with a degree of 2 the third waits in
NEW. Three frames of two bytes fill up with sizes 4 and 3 in two
processes, so out-of-memory happens with pages already added; 1, 3 and 7 are not
multiples of a page, 0 shrinks to nothing and 7 never fits. One detention is
enough for each thread to be caught at its gate; the second one brings in the
spare post of the first. Two interfaces
put two threads at the shared gate. One instance with three processes gives
two waiters; MAX_RETENIDAS = 2 lets a process ask twice and block on itself.
In CicloCpu two processes are one that was
evicted and one that has its place; interrupts of the timer and the console share
the socket, and one post of `arrancar_quantum` may be late. In Finalizacion the
third process waits in NEW or comes in while the console works, degree 0
leaves a debt in `flag_grado_multi`, 3 raises it, and the second command meets
the debt of the first. In Traduccion an access of 4 bytes spans three
pages of 2 when it is not aligned, one more than the TLB holds. In DialFS
7 bytes in blocks of 2 are four blocks: two such files fill the disk, and size 2 is
exactly one full block. In InterfacesIO two connections of one name are a module
that dies and comes back, and of two names two modules that connect together;
one detention leaves two threads at the gate. Two requests of I/O in
Recursos take processes out of the middle of `lista_procesos_blocked`.
`MAX_DETENCIONES`, `MAX_RETENIDAS`, `MAX_INTERRUPCIONES`, `MAX_ARRANQUES`,
`MAX_FINALIZAR`, `MAX_PIDS`, `MAX_GRADOS`, `MAX_PAGINAS`, `MAX_REINICIOS`,
`MAX_IO`, `MAX_MUERTES` and `MAX_FINALIZADOS`
are the only bounds on behaviour.
Symmetry over processes and interfaces is used in safety runs only.
Deadlock is not checked: the system rests when every process has ended and the
user types nothing, a program may block for ever on a resource, and a model
stops at a `quiebre`.

Under RR and VRR a failed RESIZE with an interrupt pending makes the CPU
answer twice, which breaks the invariants of PlanificadorVRR; its programs do
not fail a RESIZE. FIFO, with RESIZE failing, is covered by the theorems of
`PlanificadorProofs`, and the double answer is a `quiebre` of CicloCpu. The
types of Memoria, Planificador, Finalizacion and InterfacesIO are theorems, so
no run repeats them; those of Recursos and CicloCpu are both.

Fairness. In `Memoria` each of the two threads is weakly fair: neither handler
blocks. In `Planificador` each thread is weakly fair as a whole, since one
thread is one sequence of steps, enabled continuously until it takes it:
the operating system runs every thread that can run, and no two threads
compete for one semaphore except at the gate of the interfaces, where
nothing is detained in the liveness run. Weak fairness of `Cpu` says that a program
leaves the CPU in the end, and of `HiloIo` that an interface
answers. Commands of the console are not fair, except that a command that was
typed is carried out (`HiloConsola`).
`SeElimina` excepts the death of the elimination thread, and `LlegaACpu` the
CPU that became mute, which the code both allows. In `CicloCpu` and
`Finalizacion` too each thread is one weakly fair action, and programs,
interfaces and the user owe nothing: a program may compute for ever, and it is
the timer that makes it leave. Where two threads compete for a semaphore
there, the properties hold under weak fairness of each. In `InterfacesIO` the
threads of the kernel are weakly fair, and so is the answer of a module that
lives; nobody has to ask, connect, die or type.

Each passing property has a fault operator beside the definition it alters
(comments that begin with "Fault"): a plausible slip in the code under which
TLC finds the property violated.

### What the violations say

* **PausaRespetada.** `iniciar_planificacion` posts every gate, waited at or
  not. The spare post opens the gate of the next detention.
* **EliminacionViva.** INICIAR_PROCESO and the elimination of a process at the
  same time: each thread may read the other's answer, and
  `eliminacion_de_procesos` returns for good.
* **SignalDespierta.** A waiter is woken only if the counter is at least 0
  after the increment. With two waiters it goes from -2 to -1.

What the passing runs except, each by a name of its own, are defects of the
code too. The properties say that nothing else goes wrong.

* *CicloCpu*: `quiebre`, `tardio` and `Muda` (the CPU that after a failed RESIZE
  takes PCBs and answers for none, `cpu/src/main.c:449`).
* *Finalizacion*: `quiebre`, `pisado` and `Trabada` (FINALIZAR_PROCESO of a READY
  or NEW process whose post the scheduler already took waits for that post
  holding the mutex the scheduler wants).
* *Recursos*: `SalenCon`, resources held by processes that exit: the elimination
  thread then decides to wake a waiter on a reading of `instancias` that a
  WAIT has since made stale (`recursos.c:67`), and two processes hold one
  instance. `listaRota`: the index of a woken process is used after another
  thread shortened `lista_procesos_blocked` (`recursos.c:78`), and the entry of another
  process is removed.
* *InterfacesIO*: `quiebre`; a dead module (`interfaz_conectada` looks only for
  the key, which nothing removes, `interfaces.c:15`: processes wait for ever
  for an interface that is gone); `Olvidado` (one post for all the threads
  at the gate, `planificador_corto_plazo.c:209`); `Reusado` (a module that
  comes back replaces the queue before the semaphores, `interfaces.c:51` and
  `:60`: a request that arrives in between is queued in the new one and posted on
  the old one, and its process waits for ever).
* *Traduccion*: `achicados`. *DialFS*: `rota` and `fuga`.

## Proofs

Everything below is proved for any processes, frames, sizes, interfaces,
degree and algorithm, from the named assumptions on the constants.

`MemoriaProofs`. The inductive invariant is TypeOK, `SinMarcosCompartidos`,
`BitmapExacto` and `Control`, the facts that keep the threads
apart: the process being freed is not the one in the CPU, `kernelSig` stays
within the table, and the loop that shrinks never removes more pages than there
are. `Control` is needed because without it a shrink could cut the table that
END_PROCESS is walking. `BusquedaVigente` needs more: while a resize
is between its two searches the other thread only frees frames, so the frame it saw,
or a lower one, is still free. The refinement of `AsignacionDeMarcos` maps
the owner of a frame to the process with a live page on it: each step gives
one frame to one process, takes one from one, or changes no owner.
`TamanioPedido` follows from a second invariant, `Rumbo`: at every turn the
pages in the table, plus those the loop still has to add or minus those it
still has to remove, fit the size asked for. `Redondeos` gives it when the
request arrives, and each turn moves one page from the count to the table.

`PlanificadorProofs`. The inductive invariant for types is `Tipos`: TypeOK and
four facts that say at which label each thread really holds a PCB
(`ManoConsola`, `ManoHilos`, `ManoDespacho`, `ManoIo`); without them a thread
could queue "no process". `SemaforosExactos` is inductive relative to it: each
step posts exactly when it pushes, and moves the thread that pops past the
semaphore. `CompuertasAbiertas` is inductive by itself once types hold. The CPU
token, `CpuDeAUno`, is proved under `UnaRespuesta`: FIFO, or programs whose
resizes never fail. It is not true otherwise: with an interrupt pending at the moment a RESIZE
fails the CPU answers twice (`cpu/src/main.c:447` and `:588`) and the kernel
posts `cpu_libre` twice.

The second half of `PlanificadorProofs`. The places where a process can be (six queues, the hand of
each thread, the CPU, the sockets) are grouped by the state they stand for, and
each group is a number: how many times the process is in it. Lemma
`Movimiento` says what any step does to those numbers: nothing, or it takes
one process along one edge of the diagram, one place down in one group and one
up in the next. Three theorems rest on it. `ProcesoEnUnSoloLugar`
(`UnaSolaCola`): the sum over the groups is 1 for a process that entered the
system. `GradoSiempreExacto` (`GradoExacto`): free slots plus the processes
between READY and their end are the degree; this one needs no assumption on
the algorithm, because the sum counts places and not processes, so that even the CPU that
answers twice leaves it true. `ImplementaCiclo`: every step of the kernel is a step of the
diagram or changes nothing of it. The first and the third are proved under
`UnaRespuesta`, as `CpuDeAUno` is and for its reason: after a double answer one
PCB is in two queues.

`RecursosProofs`. The inductive invariant of the types is `Tipos`, `UnLugar`
(each process is in one place) and `UnaEspera` (it waits for one resource,
once). They go together because what keeps `asignadas` above zero while
`liberar_recursos` counts down is that no other thread works for that process.
`Conservacion` then needs that the instances retained are a finite set
(`Finitas`): each step moves one instance between a counter, an account and a
thread. `ExclusionMutua` is not inductive: a thread that decided to wake a waiter
must still find one. `DeudaCubierta` says it for every resource outside
`SalenCon`: what the counter is below zero is no more than the processes that wait for
it, and the elimination thread never touches it. `EsperaFuera` needs `BloqueadosAlDia`:
until a stale index is used, `lista_procesos_blocked` has exactly the processes
that wait or do I/O, less the one that joined a queue and is not in the list yet.

`FinalizacionProofs`. The semaphores of the two queues count what is in them,
less what each thread holds between its wait and its pop, whatever
FINALIZAR_PROCESO scans, takes out and reorders, and also in the state where
the model stops. The inductive invariant is `Tipos`, the two halves of
`SemaforosExactos`, and where each thread really holds a process (`Manos`). The
lemmas about the scans (`ListosSinUno`, `NuevosSinUno`) say that they leave a
queue one element shorter: that is why the console waits for one post.
`NuncaColaVacia` follows: no thread pops an empty queue.

`NadieSePierde` (`EnUnLugar`) holds until the first `quiebre`. There are ten
places, `Cuenta(p)` says how many times p is in each, and `Unico` that a living
process is in one, once. It is not inductive alone. The console trusts the
state it read, so `EnEstado` ties the state of a process to its place (`Debe`),
and `Formas` and `Avisados` say what each thread holds at each label. The CPU must be one
(`CpuUnica`: token, hands and process in EXEC add up to 1), or an eviction
would find another process in it. `EnOrden` makes a new pid new. `EnSistema`
counts each living process once in `procesos_en_sistema`, until the thread that ends it
takes it out. Each step either leaves `Cuenta` as it was or moves one process
from one place to another; the scans are covered by what they do to the count of each pid.

`NingunCupoSePierde` (`CupoExacto`): free slots, processes that hold one, the
one about to be taken and the waits that MULTIPROGRAMACION still owes add up to the
degree plus `flag_grado_multi`, except after `pisado`. It is inductive over `Orden`
(`GradoBien`): a slot is taken by `SacarNuevo` and given back by
`ElimDarCupo` or `DarCupoConsola`, and for every other step the set of
processes that hold one stays the same, which is a fact about states and places.

`InterfacesProofs`. `UnPedidoALaVez` says that of the threads that use one pair
of semaphores at most one is past `binario_io_libre`, for any number of
modules that die and come back. It is inductive with types, with what each
thread holds (`Manos`) and with `Alta`: what each step of `crear_interfaz`
published stays published. `Alta` also gives `EntradasDelHilo`: the thread of an
interface never finds NULL in a dictionary, which dispatch may.

`CadaBloqueadoUnPedido` (`PedidoUnico`), until the global name is mixed up
(`Sano`). For each process: its request is in one place, once (`UnSitio`: an index
of a queue, a thread's hand or dispatch's hand), and unless it was killed it
has one exactly while it is blocked and its request was not lost (`Pedida`).
`Cercos` keeps the sets of killed, blocked and lost processes apart. Each step
either leaves the requests where they are or moves one of them.

`SemaforosCuentan` (`SemaforosIO`) needs to know which module everyone
talks to: entries of the dictionaries are connections of that name (`Dicc`), as
are a thread's semaphores (`Firmas`); the live module of a name is the last
one that connected, and the one in `conexiones_io` (`Vivas`); a thread talks to the module of
its semaphores while that one lives, so that a failed answer means a death
(`Contactos`). Then a pair of semaphores left at 0 with no thread behind it
belongs to a dead module, and the lost requests are no more than those (`Bajas`);
the equation of counts is kept for the only connection of a name (`Cuentas`),
because a reconnection puts a new semaphore over an old queue. The
length of a queue is bounded by the blocked processes, as nobody is twice in it.
These proofs assume finitely many processes and connections
(`FinitosAssumption`), as the code has: pids and sockets are `int`s.

`CicloCpuProofs`. Types (`Tipos`) are kept by every step; the rest (`Orden`)
until the first `quiebre`, because after a double answer nothing of it holds.
`Formas` says which lists of tasks `recibir_dispatch` may have left, so that each
task is a lemma about what comes after it. `Vuelo` is the heart: a process in EXEC
has at most one thing in flight (its PCB or permission on the way to the CPU,
the cycle itself, one eviction, the work of `recibir_dispatch`, or the post of
`podes_eliminar_loko`), the others none. `Preguntas` is needed for it: to
one question of the CPU there is one answer, read before the next PCB.
`Consolas` says that an interrupt KILL_PROCESS still on its way, or the last one
received, is for a process that the console waits for or that ended: without it a
stale kill could answer for another one. `Ficha`: `cpu_libre`, whoever
occupies the CPU and the post that is due add up to 1, and who occupies it is
`pcb_en_ejecucion`. A WAIT of an unknown resource frees the CPU before it ends the
process (`AlFinal`); then the CPU will answer twice (`Condenada`). From these
`FichaUnica` (`TokenCpu`) counts the processes in EXEC: who has the CPU
and who is still to be ended.

`QuantumSiempreCubierto` (`QuantumCubierto`) needs `QInv`, about whoever runs
(`Corre`: also while its PCB or its question is on the way) and about the last
interrupt sent (`Ultima`), which is the one that stays, as
`interrupcion_recibida` is overwritten. A notice to the timer that the CPU is free
comes from `recibir_dispatch` when nobody runs (`NadieCorre`), or from a console
that is late, which `tardio` excludes.

`DialFSProofs`, for any files, block size and number of blocks. The five
invariants follow from one inductive invariant, `IInv`, which describes a request
in progress by what it will leave. `Sano`, until a request goes wrong:
`Futura`, the blocks that the file will have when its last write is done, are
free of the other files; those are all marked; what is not marked yet of `Futura` is
still to be assigned, and what is still to be freed is of nobody. A request that
does not shorten its file frees nothing and the file keeps its blocks marked
until the end: this is what a kill between any two writes leaves, and the reason
why only `CorteMalo` is an exception. `Justo`, until a request is cut short: what
is marked is of another file, of `Futura`, or still to be freed. Each write moves one
block from "still to be done" to the bitmap, so neither changes; the last write
turns `Futura` into the blocks of the file.

A compaction starts from any disk, also one where files overlap, so its
invariants say nothing of the files to come. `Turno`, between and in the turns
of its loops: the first `empaquetados` files of the order are `Acomodados`, they
fill 0 .. `libre` - 1 one behind the other; nothing is packed before everything
is freed. `TurnoJusto`: the bits that are set are those of the files not freed
yet, and after that only bits below `libre`. `Mudanza` says the same of the
file that goes last. `CompactarDejaContiguo` (`CompactacionContigua`) is what
remains of them when the loops end; `NingunBloqueSePierde` (`SinFugas`) needs
`TurnoJusto` too, since it holds through compactions.
`LosDatosQuedan` (`DatosEnSuLugar`) adds `Datos`: what was written lies in a
block that its file has now. TLC checked `IInv` as an invariant of the run before
it was proved.

Only model-checked: the invariants of Traduccion, whose addresses and TLB are
folds over the pages of an access (what a fold computes for every input is
induction over data, out of the prover's reach), and every liveness
property: the prover has no fairness and no ENABLED.

## Not modelled

* FINALIZAR_PROCESO of a process in `cola_ready_plus` (`consola.c:200`-`:227`):
  the same scan as for READY over the second queue; `Finalizacion` runs without VRR.
* How much quantum a process has left under VRR: a choice in `Planificador`.
* SET, SUM, SUB, JNZ: sequential functions on registers, without interaction.
* The byte that `bitarray_set_bit` rewrites when it changes a bit of memoria's
  bitmap, and the data race on the copies of mutexes passed by value
  (`pcb.c:20`): the first needs a model of bytes, the second has no
  outcome that the queues would show other than a lost push.
* Accesses out of the process, COPY_STRING of 0 bytes, and the byte more that
  IO_STDOUT_WRITE asks for: the code answers for addresses it never checks.
* A descriptor that is closed and given to another connection: dictionaries that
  keep a dead module would send its requests to whoever has the number.
* PROCESO_ESTADO, which only prints, and EJECUTAR_SCRIPT, which runs the same
  commands from a file.
* Serialisation, sockets (reliable and ordered, as TCP gives them),
  configuration and logging: sequential input and output.

## Plan

1. `MapaDeBits`: the bitmap of memoria with a byte as the unit of writing.
2. Register arithmetic as operators modulo 2^8 and 2^32 against a reference.
3. `cola_ready_plus` in `Finalizacion`, and the quantum left under VRR.
4. Traduccion page by page, with a step for each question to memoria instead of
   folds, so that its invariants can be proved.
