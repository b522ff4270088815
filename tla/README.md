# so-plug-pray in TLA+

Plug & Pray is a small distributed operating system in C: six programs that talk
over TCP. This directory models the ones that schedule, execute and serve memory,
checks them with TLC on small instances, and proves their main safety properties
and refinements for every instance with TLAPS. The vocabulary is the code's: a
definition has the name of the function or variable it stands for wherever TLA+
allows it, and `PROJECT.json` ("map") gives the lines of each one.

## 1. The system

```
   IO  ──NEW_IO, IO_FINISHED──▶  KERNEL SCHEDULER  ──NEW_KERNEL_SCHEDULER──▶  KERNEL MEMORY
       ◀──────IO_SLEEP────────   ▲ NEW_CPU │ EXECUTE_PROCESS                  ▲ ▲ ▲
                                 │ PCB     ▼                                  │ │ └─ SWAP
                                 CPU  ──────fetch: MOV_IN, MOV_OUT────────────┘ │
                                  └────────MOV_IN, MOV_OUT──▶ MEMORY STICK ─────┘
```

| Part | State | Operations | Talks to |
|---|---|---|---|
| `utils` | – | packets: `operation, length, { length, bytes }*`; `recibir_operacion` reads the operation and closes the descriptor when it cannot; `recibir_carga_util` reads the rest | everybody |
| Kernel Scheduler | `cola_new`, `cola_ready`, `cola_exec`, `cola_block`; `sem_new`, `sem_new_ready`, `sem_ready`; `recursos_cpu`, `recursos_io` | `long_term_scheduler`, `fifo` / `round_robin`, one `admitir` thread per client, the acceptor | CPUs and IOs (server), Kernel Memory (client, before its threads start) |
| CPU | the PCB it executes, `lista_sticks_cpu` | fetch, decode, execute, check of interrupts; fragmented reads and writes | Scheduler, Kernel Memory, Memory Stick |
| Kernel Memory | `recurso_swap`, `recursos_cpu`, `recursos_memory_stick`, `codigos`, `instrucciones_proceso`; segment tables that nothing uses | `admitir` (one operation per connection), `atender_cpu` (a loop) | all (server) |
| Memory Stick | a vector of bytes | `MOV_IN`, `MOV_OUT` | CPUs (server), Kernel Memory (client) |
| Swap | a file of blocks | write block, read block | Kernel Memory (client) |
| IO | – | sleeps and answers | Scheduler |

What is hard in it:

- **Threads.** The process passes from queue to queue by the hand of two schedulers,
  whose only agreement is three semaphores; every other thread adds resources and
  signals. The critical sections are short and several (`cola_new` is even read
  under the mutex of `cola_ready`), so the process is often in a local variable.
- **Descriptors.** `recibir_operacion` closes a descriptor and its callers close it
  again. A descriptor number is reused at once, and resources keep theirs for ever.
- **Streams.** An operation without a `case` leaves its payload in the stream, and the
  payload is then read as operations.
- **Clients that leave.** A CPU that has gone stays in `recursos_cpu`; writing to it
  may raise `SIGPIPE`; in the middle of an access the CPU itself reads an
  uninitialized length.
- **Crashes.** The swap's file outlives the swap, is created in two steps and written
  through a buffer; Kernel Memory's `recurso_swap` does not know that a swap has died.
- **Globals.** A search of a segment compares with a global that another search sets.
- **Arithmetic.** Logical addresses are unsigned, used as signed; an access is split
  over sticks whose limits wrap at 2^32.

What makes each part correct:

- Scheduler: the process is in exactly one place; each semaphore counts what it
  stands for; no wake-up is lost; a CPU that connects gets the process; it goes to a
  CPU that is there; no message crashes the scheduler; a READY process does not run.
- Server threads: a thread closes and serves only its own client.
- CPU: a register crosses memory whole, whatever sticks it is spread over; each
  request stays inside its stick; every access ends; registers keep their width.
- Kernel Memory: each request is answered once, to whoever made it; one swap; no
  registration is lost; the descriptor of a CPU that left is closed.
- Memory Stick: each request is answered once, to whoever made it; a write changes only
  bytes of its fragment.
- Swap: a store of blocks: what was answered has happened, and survives any crash.
- Segment tables: no segment is lost or freed twice; what is removed is what was asked.

The hazards of the code, each at its line with the properties that cover it, are in
`PROJECT.json`.

## 2. Modules

| Module | What it is |
|---|---|
| `Protocolo` | operations, packets as sequences of words, what a reader leaves unread |
| `Servidor` | clients, streams, descriptor table, acceptor, and the reading half of a thread; extended by each server |
| `KernelScheduler` | the Kernel Scheduler with its CPUs and IOs |
| `CicloDeVida` | what the scheduler promises: admit once, dispatch only to a free CPU, lose neither |
| `PropiedadesScheduler` | its properties, the inductive invariant and the refinement mapping |
| `KernelScheduler_proofs` | type, and everything FIFO keeps, the refinement included |
| `RoundRobin_proofs` | what either algorithm keeps |
| `Conexiones_proofs` | descriptors, the CPUs that have the process, and the crashes before a dispatch |
| `Instrucciones` | the instructions on a PCB and the arithmetic of the MMU, with C's division and widths |
| `Maquina` | what a CPU promises: whole instructions, memory at once |
| `Cpu` | the CPU, one request at a time, and Kernel Memory's answers |
| `CpuConMemoria` | `Cpu` with the sticks its code is written for: the contract the CPU relies on |
| `PropiedadesCpu` | its properties and the refinement mapping |
| `Cpu_proofs` | type, `PedidoDentro`, `EnSuSegmento` and the refinement of `Maquina` |
| `KernelMemory` | Kernel Memory's connections, with every access to an unprotected variable a step |
| `PropiedadesMemoria` | its properties |
| `KernelMemory_proofs` | type, and the requests and swaps of clients that stay |
| `Segmentos` | the functions of Kernel Memory's segment tables, called by any number of threads |
| `PropiedadesSegmentos` | their properties |
| `Segmentos_proofs` | both safety properties |
| `MemoryStick` | the Memory Stick: its vector, its threads and their streams; extends `Servidor` |
| `CpuConStick` | `MemoryStick` and an instance of `Cpu`, each waiting for the other's packets |
| `PropiedadesStick` | properties of the two together |
| `MemoryStick_proofs` | type and the four safety properties of the two together |
| `Bloques` | what the swap promises: each request takes effect once, before its answer |
| `Swap` | the swap, its file and Kernel Memory's end of the connection, with deaths of both |
| `PropiedadesSwap` | its properties and the refinement mapping |
| `Swap_proofs` | type and the refinement of `Bloques` |
| `MC*` | the constants of the instances |

A `Propiedades` module has what the runs check, and after it the inductive
invariant (`Inv...`) that the proofs of its component rest on.

### How state and actions correspond to the code

- A **thread** is a control point (`pc_lts`, `pc_sts`, `hilo[c]`, `punto`) and its
  locals. An action is what the thread does between two points where somebody else
  can see or change what it shares: a semaphore, a critical section, a `send`, a
  `recv`, or one access to a variable that no mutex protects. A critical section is
  one action; its mutex is therefore not a variable.
- **`Servidor`.** `conexion[f]` is the connection that descriptor `f` has now. A thread
  keeps the number it was given (`socket[c]`), and a `recv()` in progress keeps the
  connection it was called on (`leyendo[c]`), as in the kernel. `accept` gives the
  lowest free number. The two closes are `CerrarEnRecibir` and the server's own
  (`CerrarEnAdmitir`, `DejarCpu`).
- **`KernelScheduler`.** There is one process (the code creates only PID 0, in
  `main`), so a PCB is its pid and `estado` is a variable. The actions `Lts...`,
  `Sts...` and `Rr...` are the bodies of the three functions in order; those of
  `admitir` are its `case`s, each cut at the points above. `vivo` becomes `FALSE` where
  the code dereferences NULL or receives `SIGPIPE`. The clients send what
  `cpu/src` and `io/src` send, spelled in words where the scheduler misreads them.
- **`Cpu`.** `acceso` holds the locals of `leer_de_memory_sticks` and
  `escribir_en_memory_sticks`, which differ only in the direction of the bytes. Its own
  actions are those of the thread and the answers of Kernel Memory (`DeKm`), which
  are a text for a read and an OK for a write. The scheduler sends a PCB as `crear_pcb`
  leaves it, since it drops what comes back.
- **`CpuConMemoria`** adds the answers of the sticks as the CPU's code expects them: the
  bytes of the fragment for a read, and the bytes of the register stored for a write.
  It is a contract and not the Memory Stick of this repository, which answers no read
  of the CPU (`VLectura`) and stores the text of the size (`Escrito`). What `CpuSticks`
  shows is that the CPU's half is right for sticks that keep it; `CpuConStick` has the
  same `Cpu` with the stick as it is.
- **`KernelMemory`.** `list_add` without a mutex is two steps: find the last element
  (`Ultimo`), link the new one after it (`Enlazar`), which drops whatever was linked in
  between. Test and assignment of `recurso_swap` are two steps as well.

- **`MemoryStick`.** The actions are the `case`s of `admitir`, cut where the thread calls
  `recv` or `send`. The greeting `NEW_CPU` has no `case`: its payload is read as
  operations, and when the id does not fill its last word (`RESTO`) the stream is
  shifted for ever. `SinCarga` is what may come of a payload that is not there: the
  code reads an uninitialized length. `Escribir` copies the second parameter, which is
  the text of the size and not the bytes. A thread whose client has gone stays in
  the loop, with a descriptor number that may be somebody else's.
- **`CpuConStick`.** `C` is an instance of `Cpu` that sees the vector as its memory. Its
  requests become packets (`PedirAlStick`), and it goes on when the answer comes
  (`LlegaDelStick`), when the connection has been cut (`C!AccesoFalla`, part of
  `C!Interno`), or, for an address that no stick has, when Kernel Memory answers (`C!DeKm`). The CPU believes in a stick of a fixed size (256 in cpu/src/main.c:75)
  and the stick has its own.
- **`Swap`.** `swap[p]` is a process, its connection and the request and answer on their
  way. `Fwrite` fills the stdio buffer and `Fflush` writes it, so that a death between
  the two loses the write and one after it only the answer. `Caer` and `CaerKm` kill a
  process at any point, `Arrancar` and `ArrancarKm` start it again; `recurso_swap` is
  reset only by the restart of Kernel Memory. `Bloques` is what that implements.
- **`Segmentos`.** Here the mutex is a variable, because `buscar_segmento_en_proceso` does
  not take it. A search goes element by element (`Comparar`) and compares with
  `seg_id_buscado`, which other searches set; `CompararLiberado` is what may come of
  reading an element that has been freed.

## 3. Runs

All with TLC, breadth first. Deadlock is not checked: every program of the system
really stops when its clients have gone or its process has died.

| Run | Instance | Shows |
|---|---|---|
| `SchedulerFifo` | 2 CPUs that may leave, 1 IO, 3 descriptors, fair threads | safety of FIFO; the process is dispatched once a CPU comes; `KernelScheduler` implements `CicloDeVida`, and its fairness while it is alive; nothing ends the scheduler before a dispatch while no device has connected; until a client leaves, one client per thread, and the dispatch goes to the right CPU |
| `SchedulerRr` | 2 CPUs that may leave | what round robin keeps: no duplicate in the queues, no free CPU uncounted, no lost wake-up; until a client leaves, no CPU is sent the process it has |
| `CpuSticks` | programs of two instructions over 9 addresses and 5 sticks; Kernel Memory and a stick may close | `Cpu`, with sticks that keep their contract, implements `Maquina` until a server closes; requests stay inside their stick, and accesses inside their segment unless the address is negative; an access ends, unless it waits for a stick's answer to a read |
| `MemoriaEstable` | 2 CPUs, 2 swaps, nobody leaves | one answer per request, to its owner; a connected swap is kept |
| `MemoriaInestable` | 2 CPUs that may leave, 1 stick, 1 scheduler, 2 descriptors | descriptors of CPUs that left are closed; a CPU is cut off only on a number that a departed CPU had |
| `StickCpu` | a CPU and its stick, another CPU that may leave, ids of three lengths | until somebody leaves, with ids that fill their words (`NadieSeFue`), one answer per write, every write ends, and only a write beyond the vector ends the stick; until a second client leaves or a thread closes what is another's (`Previsto`), no answer for who did not ask, and a write stays in its fragment |
| `Swap` | 1 swap, 3 blocks, 3 deaths of each side | `Swap` implements `Bloques`; a request is answered |
| `Segmentos` | 2 threads, 5 calls, 2 processes, 2 ids | the tables lose nothing; what is removed was asked for; every call returns |

The other runs (`V...`) each check one statement of a comment or of the log that the
code does not keep; `PROJECT.json` ("findings") quotes the statement and says what
happens:

| Run | What the counterexample does |
|---|---|
| `VExit` | EXIT returns the PCB; its words are read as operations; the scheduler dies |
| `VQuantum` | the quantum signals `sem_ready` with the CPU still taken; the next turn finds no CPU and drops the process |
| `VLectura` | `MOV_IN` goes with two parameters, the stick wants three; the CPU waits for ever |
| `VSwapRechazado` | two swaps create the file at once; the one to be refused empties what the other has written |

The models contain other behaviours that the log or a comment describe differently,
and that have no run of their own:

- the second close of a descriptor (`CerrarEnAdmitir`, `DejarCpu`) closes the connection
  of a client that was accepted on it in between, while the log says that the first
  client left. In Kernel Memory that takes a CPU out of the loop in which
  `kernel_memory/src/gestion.c:227` says it stays, and leaves it without an answer:
  `EscuchaCpu` and `RespuestaPropia` hold while nobody leaves, `SigueConectada` says
  which CPUs can be reached. In the scheduler, the thread of a device that leaves may
  close a CPU's descriptor before the CPU has registered; among CPUs alone the process
  is dispatched all the same;
- a CPU that has left stays `disponible`: the dispatch goes to nobody, to whoever has
  its number now, or into a reset connection (`StsEnvia`, `Rota`), and the log says
  "PCB enviado a CPU";
- under round robin the process may be lost (`VQuantum`), which is why `UnSoloLugar` and
  `SemReadyExacto` are checked under FIFO only, and it may be sent to a second CPU
  while the first one executes it, since the quantum tells the CPU nothing
  (`DespachaAOciosa` says only that it is not the same CPU);
- two swaps that both see `recurso_swap` NULL are both accepted (`VerSwap`, `PonerSwap`),
  and a swap that restarts is refused for ever;
- `estado` stays NEW when the process passes to READY (gestion.c:412-415); the first
  `IO_FINISHED` of a device compares with a pid nobody has set (`AtenderIoFinished`); the
  nothing sets `disponible` of
  a CPU again; the packet of an interrupt is left in the stream and ends the CPU
  (`Interrumpir`); Kernel Memory reads the script into `codigos` and answers every fetch
  from `instrucciones_proceso`, with "EMPTY" (`AtenderMovIn`);
- the thread of a CPU that has left the stick stays in its loop and may serve the
  request of a client that was accepted on its number, whose own thread then finds
  nothing to read; each further `close()` frees the number of whoever has it then,
  and with a third client on it an answer, or a write, may be for somebody who did not
  ask (`Previsto` in `PropiedadesStick` says until when that cannot be);
- the stick writes the text of the size instead of the bytes (`Escrito`), and does not
  understand a CPU whose id does not fill its last word;
- an `eliminar` under way takes the id of a search that begins without the mutex, and
  removes that segment (`cruzados` in `Segmentos` marks it);
- a logical address that is negative as an `int` passes the check of the MMU and reaches
  another segment (`SegFault`; `EnSuSegmento` excepts it).

### Bounds and why they are enough

- Two CPUs and one IO are the least for two threads of the same kind to race with
  each other and with one of another kind. Clients connect once; a client that
  comes back is another client.
- `MaxFd`: as many as clients where every one must fit, fewer where descriptors
  should change hands sooner.
- `CpuSegFault` sends a report only when the previous one has been read, which keeps
  streams finite; `Cpu.Enviar` keeps one packet of the scheduler unread.
- `Cpu` is checked with bytes of one bit and segments of 8 bytes: registers have
  4 bits, so SI and DI take 16 values, of which the nine used are inside a stick,
  across two, in a hole, across the end of a segment, and negative as an `int`. Of the
  five sticks one is hidden by those before it and one has a limit that wraps at
  2^width, so that `LoTiene` is never true of it. The
  program counter has the 32 bits of the code (scaled as the registers are) and is
  compared with the length of the program as an `int` (`EnPrograma`). The widths are
  the parameters `MOD8` and `TAM_MAX_SEGMENTO`, 2^8 and 256 in the code.
- `MemoriaInestable`: both CPUs may leave, because the closes of one that has gone reach
  the other only when it has the number, and the thread of each may read what is the
  other's. Two descriptors for four clients, so that numbers are reused at once; the
  script has no lines, since no fetch is answered from it.
- `VQuantum` and `VExit`: one CPU and no device are enough for both.
- `StickCpu`: the stick has three bytes and the CPU believes in four, so that an access is
  inside, across the end, and beyond it. `Largos` is an id that fills its word and two
  that do not. A fragment has one digit, as the one and four bytes of the code's
  registers have. Of the answers that nobody reads one is kept (`Rota`).
- `Swap`: three deaths of each side are two more than a creation of the file that is cut
  needs, so that each may happen before, in and after it. A request is one block,
  which is what the code reads and writes at once. Two swaps at once are in
  `VSwapRechazado` only: with them `EscrituraQueda` fails, as the run shows.
- `Segmentos`: five calls are two registrations in a table and two calls that race over
  them, and one to spare for the other table.
- No constraint cuts the state space: every passing run is exhaustive.

### Fairness

`Equidad` of the scheduler and of Kernel Memory is weak fairness of each thread: the
threads are POSIX threads that the system schedules, each semaphore has a single
waiting thread, and a mutex is held for a bounded time, so a thread that can go on
goes on. Nothing is assumed of clients in the scheduler. In `KernelMemory` a CPU reads
the answer it is blocked on (`Recibe`), which is its own next instruction. In `CpuConMemoria`
the thread runs, Kernel Memory answers while it is up (`atender_cpu` answers whatever
it reads) and a stick answers a write, which `StickCpu` checks of the Memory Stick as
long as nobody leaves (`EscrituraTermina`); nothing is assumed of a stick's answer to
a read, which the Memory Stick does not give. In `CpuConStick` Kernel Memory answers, and
the stick does if its threads, which are fair, do. `Swap` assumes
that a process runs until it is killed, and nothing of Kernel Memory. `Segmentos` assumes
that a thread inside a call goes on; weak fairness is enough for the mutex because
the number of calls is bounded.

## 4. Theorems

Every theorem is about the specification with its constants free: any finite set of
clients, any number of descriptors, any programs, lists of sticks, widths, blocks,
threads and calls. Assumed are the named `ASSUME`s of the modules (`Supuestos...`:
the kinds of clients are disjoint, `Libre` is not a client, clients are not numbers,
and so on), which TLC
evaluates in the runs, and what the table says.

| Module | Theorem | Property | Assumes |
|---|---|---|---|
| `KernelScheduler_proofs` | `TipoCorrecto` | `TypeOK` | – |
| | `InvarianteFifo`, `SeguridadFifo`, `...Fifo` | the invariant, `UnSoloLugar`, `SemReadyExacto`, `SemNewReadyExacto`, `HayCpuLibre`, `SinDespertarPerdido` | FIFO |
| | `FifoImplementaCiclo` | `ImplementaCiclo` | FIFO |
| `RoundRobin_proofs` | `NuncaDosLugaresSiempre`, `SemReadySuficienteSiempre`, `SemNewReadyExactoSiempre`, `SinDespertarPerdidoSiempre` | the same | – |
| `Conexiones_proofs` | `ConexionPropiaSiempre`, `EnviaACpuConectadaSiempre` | the same | – |
| | `DespachaAOciosaSiempre` | `DespachaAOciosa` | – |
| | `NoSeCaeAntesDeDespacharFifo` | `NoSeCaeAntesDeDespachar` | FIFO |
| `Cpu_proofs` | `TipoCorrecto`, `PedidoDentroSiempre`, `EnSuSegmentoSiempre` | `TypeOK`, `PedidoDentro`, `EnSuSegmento` | – |
| | `CpuImplementaMaquina`, `UnStickImplementaMaquina` | `ImplementaMaquina` | `TramosEnteros`; one stick at most |
| `KernelMemory_proofs` | `TipoCorrecto` | `TypeOK` | – |
| | `EscuchaCpuSiempre`, `SwapConservadoSiempre`, `RespuestaPropiaSiempre` | the same | no client leaves (`Inestables = {}`) |
| `Segmentos_proofs` | `NadaSePierdeSiempre`, `EliminaElPedidoSiempre` | the same | – |
| `Swap_proofs` | `TipoCorrecto` | `TypeOK` | – |
| | `UnSwapImplementaBloques`, `UnSwapNoVacia` | `ImplementaBloques`, `EscrituraQueda` | one swap |
| `MemoryStick_proofs` | `TipoCorrecto`, `UnaRespuestaSiempre`, `RespuestaPedidaSiempre`, `EscribeEnSuFragmentoSiempre`, `SoloDesbordaSiempre` | `TypeOK`, `UnaRespuesta`, `RespuestaPedida`, `EscribeEnSuFragmento`, `SoloDesborda` | one stick at base 0 (`SupuestosCpuConStick`) |

The assumptions are the ones of the runs that check the same property
(`SinDespertarPerdido` is checked under round robin and proved for both). FIFO is where
the code keeps `SemReadyExacto` at all; no client leaves where the property is about
clients that are attended; one swap because with two `EscrituraQueda` fails, as
`VSwapRechazado` shows; one stick is what `cpu/src/main.c:71-77` puts in the list, and
`TramosEnteros` (no stick begins in the middle of what one before it in the list still
serves) is the weakest assumption we found on longer lists: without it the CPU asks the
first stick for bytes that the list gives to another.

### The arguments

Each theorem `Spec => []P` comes from an inductive invariant, with one lemma per group
of actions, one step per action and one below it per conjunct the action disturbs.

- **FIFO** (`InvFifo`). None of its properties is inductive by itself. That
  `list_remove` finds the process depends on `sem_new` and `sem_new_ready` being exact;
  that `sem_ready` is exact depends on nobody taking a CPU for nothing, that is on
  `buscar_cpu_libre` always finding one, which is `SemReadyExacto` at the point
  `"busca"`. So the three accounts go together, with the process in one place and the
  pointers not null. The refinement follows from it: `Lugar` moves when the process
  is linked, and `Libres` counts the CPU taken until the process is in `cola_exec`.
- **Either algorithm** (`InvRr`). A quantum gives `sem_ready` units without CPUs, so
  the equality becomes an inequality and the process may be lost; what has to be kept
  with it is that `sem_new_ready` is given back in the same order as `cola_ready`.
- **Connections** (`InvConexiones`, until a client leaves). `ConexionPropia` needs that no
  thread is about to close, at every point and not only in `recv()`, and
  `EnviaACpuConectada` that every resource of the list has its own descriptor, not only
  the chosen one.
- **The CPUs that have the process** (`InvOciosas`, until a client leaves). That a CPU
  with the process is never chosen again needs that it is in `recursos_cpu` once, and
  that is a matter of streams: its greeting is read whole, by its own thread
  (`InvConexiones`), and nothing else that it sends contains the word `NEW_CPU`.
- **No crash before a dispatch** (`InvDespacho`, `InvAntes`). FIFO sends once, and until
  then no CPU has anything to send back, so that the streams carry greetings only;
  they are read whole even by the thread of a CPU that has left.
- **`Cpu`** (`InvCpu`). `PedidoDentro` needs that the access belongs to the line at the
  program counter, so that its register has the size it asks for. `EnSuSegmento` is the arithmetic of the check, at the step that
  starts the access; the physical address keeps the segment. For the refinement,
  a partial access is mapped to its end (`PcbFinal`, `MemoriaFinal`), which no request
  changes: the bytes still to come are those of the addresses that follow.
- **`KernelMemory`** (`InvTipos`, `InvMemoria`). Who registers as a CPU is one because a
  stream carries its client's greeting. `RespuestaPropia` needs the exact shape of the
  stream (`Flujo`): the greeting, if unread, and then at most one request.
  `SwapConservado` needs that whoever is about to be refused is refused for a swap that
  has been attended (`InvPuntero`), across the two steps of the test and the assignment.
- **`Segmentos`** (`InvSegmentos`). Linking after the last element is right only because
  what `list_add` saw is still last (`InvUltimo`), which is the mutex (`InvMutex`); that
  what is removed is still there needs the cursor of the search that has the mutex to be
  in its table, and the search without it is exactly what `cruzados` excuses.
- **`Swap`** (`InvSwap`; with one swap, `CreaSolo`). The step that is hard is the creation
  of the file: `"w+"` empties it, and it must have been absent since the first `fopen`.
- **`MemoryStick` with `Cpu`** (`InvStick`). A request is in a stream, in the hands of a
  thread or answered. While nobody has left, that is a count; when one has, the request
  of a client may be read by the thread of the other, so the invariant says of each
  client (`Sano`) that at most one thread, whoever it is, has its request, and that its
  payload is still the next word. A stream whose words are shifted (`Roto`) has no
  request that anybody could understand, which is why ids of any length are covered.
  `SoloDesborda` needs it too: a thread that takes a request finds its payload next, so
  it never takes a length from something else.

### What the proofs changed

- `RespuestaPedida` and `EscribeEnSuFragmento` were stated without a condition, and the
  run with two CPUs agrees; with three, after one has left and its thread has closed the
  number of a second, they are false. They now say until when they hold (`Previsto`).
- `list_add` in `KernelMemory` was modelled by the length of the list it had seen, which
  said nothing of a list that another thread had cut since; it now links after the
  element it saw (`Ultimo`, `Enlazar`), and loses its own when that one is gone.
- `SwapConservado` says that the pointer is of a swap that is connected; it was stated
  for less. `NoSeCaeAntesDeDespachar` was stated of a system without devices; it holds
  of any, until a device connects.
- `DespachaAOciosa` needs the words of a stream to be numbers and the pid of
  `BloquearPid` (`PID_MOCK`) not to be mistaken for an operation, so `Servidor` assumes
  that clients are not numbers and `PID_MOCK` has its value.
- `Cpu` held the program counter as a natural number; it is a `uint32_t` compared as an
  `int`. A fragment whose connection is cut goes on in `CpuConStick` also when its
  answer had already come.

### Only model-checked

- Liveness, since the prover has no `ENABLED`: `SeDespacha`, `ImplementaCicloVivo`,
  `AccesoTermina`, `CpuAtendida`, `LiberaDescriptor`, `EscrituraTermina`, `PedidoAtendido`,
  `LlamadaTermina`.
- The counterexamples of the `V...` runs.

Of the safety properties, `SigueConectada` is only model-checked, and the proofs of
`EscuchaCpu`, `RespuestaPropia` and `SwapConservado` are of clients that stay. Every other
safety property, action property and safe refinement of the runs is proved.

## 5. Not modelled, and why

- A `recv()` interrupted in the middle of a word, and two threads that read the same
  connection splitting one packet between `recibir_operacion` and
  `recibir_carga_util`: operation and payload are taken together.
- The order of the backlog, and how long it is.
- The handshake of the Scheduler with Kernel Memory: `main` does it before any thread
  exists.
- `SIGPIPE` in Kernel Memory; the counter of elements of a list that two `list_add`
  leave wrong.
- Instructions without their operands, which the CPU dereferences as NULL.
- The Memory Stick's `MOV_IN` after its check of the parameters: no client sends three.
- A disk that fails under the swap (swap/src/main.c:69, 95): the code answers as if it
  had not. What a second swap does to a file in use, beyond `VSwapRechazado`.
- The queues of the scheduler with the registers of the CPU in one module. What a process
  loses across a quantum shows in the two modules side by side: the scheduler drops
  the PCB that comes back (`IgnorarOperacion`), and `Cpu` is sent the one of `crear_pcb`
  again.
- `colas_multinivel`, `medium_term_scheduler`, `atender_kernel_scheduler`,
  `parsear_instrucciones`: empty or never called. `lista_huecos_libres`: never used.
- Configuration, arguments and log.

## 6. Plan

In order, with what is done marked:

1. [done] `Protocolo`, `Servidor`, `KernelScheduler` against `CicloDeVida`; type
   correctness and the FIFO invariant proved.
2. [done] `Instrucciones`, `Cpu` against `Maquina`.
3. [done] `KernelMemory`, `Segmentos`.
4. [done] `MemoryStick` over `Servidor` and `CpuConStick`, its composition with `Cpu`.
5. [done] `Swap` against `Bloques`.
6. [done] Proofs: FIFO implements `CicloDeVida!EspecSegura`; round robin; the
   connections of the scheduler; `Swap` implements `Bloques`; `NadaSePierde` and
   `EliminaElPedido` of `Segmentos`; `Cpu` implements `Maquina`; the requests of
   `KernelMemory` and of `MemoryStick`.
7. The addresses of `CpuConStick` inside what the CPU believes of its stick.
8. `SigueConectada` proved, and `RespuestaPropia` for a CPU whose number no departed
   CPU had: `InvMemoria` said of one descriptor at a time.
9. The same for the scheduler: `ConexionPropia` after somebody has left, for the clients
   whose number has not been closed twice.
