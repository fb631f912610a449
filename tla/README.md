# Formal model of delibird (tp-2020-1c-C90)

TLA+ modules for the processes of this repository, the TLC configurations that
check them on small instances, and TLAPS proofs of what matters most for every
size. Paths are relative to the repository (`src/`). Every module says in its
header which code it models; `PROJECT.json` maps each definition to its lines.

To check: `tlc -config MCX.cfg MCX.tla` for the runs, `tlapm XProofs.tla` for
the proofs.

## 1. The system

Four programs exchange messages over TCP. A message is one of NEW, APPEARED,
CATCH, CAUGHT, GET and LOCALIZED, and each of them is a queue of the broker.

| Part | State | Operations | What is hard | Module, status |
|---|---|---|---|---|
| **Broker: memory lock** (`broker/src/mem.c:46-85`) | a mutex, a counter, a binary semaphore | lock/unlock for read and write | a reader posts what another one waited for; sleeping with a mutex held | `MemoryLock`, modelled |
| **Broker: cache** (`mem.c`, `mem_utils.c`, `buddy.c`, `dynamic.c`, `arithmetic.c`) | the list of partitions, the cache's bytes, a logical clock | save a message, evict, merge, halve, compact; replays stamp | long sequences of saves; a partition known by its position while positions change; boundaries of sizes | `BuddyMemory`, `DynamicMemory`, modelled |
| **Broker: delivery** (`broker.c`, `subscribers.c`) | records of subscribers, their mutexes, who was notified of what | publish, subscribe, push, replay, acknowledge | a subscription during a push, lost connections, acknowledgements that name no message, a recv without timeout under the write lock | `Delivery`, partly |
| **Broker: server and serialization** (`server.c`, `serialization.c`, `broker.c`) | the bytes of the connections and of the cache | receive, save, send | three layouts and their sizes must agree; a client that is cut off | `Wire`, modelled |
| **Broker: start-up and dump** (`dump.c`, `main.c`) | – | report, configuration | a signal handler that reads the list without the lock | not modelled |
| **GameCard: file system** (`fileSystem.c`, `manejoDeArchivos.c`, `mapeo.c`, `bloques.c`, `bitmap.c`, `reintentoOperacion.c`) | bitmap, blocks, one metadata file per pokemon with an OPEN flag | NEW, CATCH, GET on a pokemon's file | a thread per message, crashes between two writes, a full disk, keys found as substrings | `TallGrass`, partly |
| **GameCard: server** (`gamecard/src/server.c`) | three subscriptions and the GameBoy's port | receive, acknowledge, start a thread, publish the answer, reconnect | the acknowledgement precedes the work; either end may die | `GameCardServer`, partly |
| **Team: planner** (`ServicioDePlanificacion.c`, `Planificador.c`, `HiloEntrenadorPlanificable.c`, `TareaPlanificable.c`) | queues NEW, READY, EXEC, BLOCKED, EXIT; counting semaphores; the tasks | three planner threads and one per trainer | permits dropped, lists changed while walked, a trainer between two queues | `TeamPlanner`, `TrainerThread`, modelled |
| **Team: captures and events** (`ServicioDeCaptura.c`, `ManejadorDeEventos.c`, `ObjetivoGlobal.c`, `RegistradorDeEventos.c`, `ServidorTeam.c`, `ClienteBrokerV2.c`) | catches and GETs that wait for an answer, the names received, the global objective | APPEARED, LOCALIZED, CAUGHT | an answer that precedes its registration; reservations; a list without a mutex | `TeamEvents`, `TeamPlanner`, partly |
| **Team: deadlocks** (`ServicioDeResolucionDeDeadlocks.c`, `ServicioDeMetricas.c`) | the reported deadlocks | blocked trainers to exchanges | a cycle left unresolved, a greedy pairing | `Team`, `FinalDeadlock`, modelled |
| **Team: model** (`Entrenador.c`, `Movimiento.c`, `Mapa.c`, `ExtensionColecciones.c`) | trainers, places, counters | walk, capture, exchange | – | `Team`, partly |
| **GameBoy** (`ControladorBroker.c`) | – | sends one message, or subscribes for a while | – | `Wire`, partly |
| **Libs** | – | sockets, (de)serialization, collections | sizes counted apart from the bytes | `Wire`, `Team`, partly |

How they interact: the GameCard subscribes to NEW, CATCH and GET and publishes
APPEARED, CAUGHT and LOCALIZED; the Team subscribes to those three and
publishes GET and CATCH; the GameBoy publishes anything. The broker answers a
publication with an id, and every message that reaches a subscriber is answered
with an acknowledgement that carries nothing but itself. Inside the broker a
thread per connection works on shared memory: `new_request` holds the memory
lock to write while it saves and pushes a message, `new_suscription` holds it
to read while it replays the cached ones. In the GameCard and in the Team a
thread per queue listens, acknowledges, and leaves each message to a thread of
its own. In the Team these threads feed the planner through three counting
semaphores, and the planner hands one trainer at a time to the thread of that
trainer.

What makes each part correct:

- *Broker*: the lock excludes and starves nobody; the partitions always tile
  the cache, messages stay intact and leave in the order of the replacement
  algorithm; no subscriber misses a cached message or gets it twice; what a
  subscriber reads is what the client sent, and no connection is left with
  bytes that would be read as something else.
- *GameCard*: a file is used by one thread, owns its blocks, loses none, and
  says what its messages did to it; a message the broker was told was received
  is processed; no more catches succeed than there were pokemons.
- *Team*: a trainer is in one queue and is found there by whoever moves it; it
  never holds more than it wants; a catch under way can still be decided either
  way; an answer counts once; a deadlock of the whole team is dissolved, and
  the process ends when every trainer is done and only then.

## 2. Modules

    ReadersWriters          abstract: many readers or one writer
      ^ implemented by
    MemoryLock              mem.c, statement by statement    MemoryLockProofs
    Partitions              mem_utils.c, the shared list
      BuddyMemory           buddy.c + save_message           BuddyProofs
        Arithmetic          arithmetic.c, bit by bit (runs only)
      DynamicMemory         dynamic.c + save_message         DynamicProofs
    Delivery                broker.c, subscribers.c; uses    DeliveryProofs
                            ReadersWriters
    Wire                    a message byte by byte: clients, cache, subscribers
    TallGrass               the GameCard's file system       GameCardProofs
    GameCardServer          the GameCard's threads and       (both)
                            connections
    Team                    the Team's operators: trainers, walks, deadlocks
      FinalDeadlock         exchanges once everything   TeamProofs
                            was captured
      TeamPlanner           the planner threads, captures and their answers
    Task                    abstract: the instructions of a task, in order
      ^ implemented by
    TrainerThread           one trainer thread and its planner
                                                             TrainerThreadProofs
    TeamEvents              the Team's listeners and         TeamProofs
                            event handlers
    CollectionProofs        lemmas about lists and sums, for the proofs of
                            the memory, the GameCard and the Team
    MC*                     instances for TLC

**MemoryLock.** `pc` is where each thread is in the four functions;
`readersMutex` is the holder of `MEMORY_READERS_MUTEX`, `READERS` the counter,
`writeSemaphore` the value of `MEMORY_WRITE_MUTEX`. One action per blocking
point: `LockMemoryForRead`, `WaitWriteMutex` (the first reader's `sem_wait`),
`EnterRead`, and so on. A thread of the server locks the memory once in its
life, so each does here.

**Partitions, BuddyMemory, DynamicMemory.** `partitions` is
`memory->partitions`, in list order. A save is one request with one action per
turn of the code's loops; saves exclude each other by the write lock, hence one
at a time. `Replay` is what a subscription changes between two saves: the
access times. The algorithms of `broker.config` are chosen in `Init`, so that a
run covers all of them. `DynamicMemory` also has the bytes of the cache, each
known by the save that wrote it. Where the code dereferences NULL the model has
the step `"crashed"`. In `BuddyMemory` `next_power_of_2` and `_buddy_position`
are defined by what they compute; `MCBuddyMemory` assumes (and TLC evaluates)
that they agree with the shifts and the XOR of `arithmetic.c`, which
`Arithmetic` transcribes.

**Delivery.** One queue. `records` is its list of subscribers, `registered`
those that have a mutex, `locked` the mutexes held, `talks` the calls of
`send_message_and_wait_for_ack` under way, each by a publisher or a subscription.
`live`, `wire` and `acks` are the connections. `replay` is, for each
subscription, the messages that `messages_from_operation` found and that it has
not sent yet; it sends the one with the least id first, as the list is sorted.
The memory lock is an INSTANCE
of `ReadersWriters`, which is what the lock is proved to be; what saving does
to the cache is abstracted to a set of evicted messages. A client may lose its
connection and subscribe again; it never has two open.

**Wire.** Each connection is the sequence of bytes sent and not yet read. A
client writes its message with the layout of libs (`serialize`, sizes from
`calculate_*_bytes`), the broker's thread reads it (`recv_*`), counts its size
again (`calculate_message_size`), keeps it without the `'\0'` (`serialize_data`)
and sends it to each subscriber of the queue in the third layout. The sizes are
computed apart from the bytes, as in the code: a buffer that is larger than what
is written ends in bytes that are not the message's.

**TallGrass.** `bitmap`, `disk` and `files` are what survives a crash;
`semaphores`, `pc`, `mine` and `result` are the process. `task` says which
message each thread works on. Lines and blocks need not coincide: a file is a
text of lines of `LineLength` characters, each character known by its line and
place, cut into blocks of `BlockSize`. `string_contains` and
`string_starts_with` on keys are modelled by what they find (`Mentions`,
`StartsWith`). A crash ends all threads; the restart closes every file
(`iniciarListaSemaforosDeArchivo`). `SemaphoreMissing` is the crash the code
causes itself when `obtenerPosicionEnLista` returns -1.

**GameCardServer.** The part of the GameCard around its files. `guardados` is
what the broker has in memory, `confirmados` what it was told was received,
`porEnviar` and `enVuelo` one connection per queue. A listener is at
`suscribe`, `recibe`, `confirma` or `crea`; the acknowledgement precedes the
thread. `SeCorta`, `CaeElBroker` and `CaeGameCard` are the failures: what the
broker had in memory and the GameCard's threads are gone, `hay` (the files)
stays. `creados`, `hechos` and `muertos` are history.

**Team.** No state: what a trainer wants, has and may trade, its way, and the
five lists with which `ServicioDeResolucionDeDeadlocks.c` finds deadlocks and
pairs trainers. A counter of pokemons is a function from species to numbers.
Where the code takes the first pokemon of a dictionary, any may be taken.

**FinalDeadlock.** The end of a Team: every pokemon was captured and somebody
has what another one needs. A round of the deadlock thread is a step, and so is
an exchange. It starts from every way the pokemons may have been distributed.

**TeamPlanner.** The three planner threads, a thread per answer of the broker,
and main. `colas` are the five queues, `sem` the five counting semaphores,
`mutex` each trainer's. To change a trainer's queue is three steps (`moverACola`
looks for it, `Saca`, `Pone`) because the mutexes of the queues cover one list
operation each; the permits are posted where the code posts them, after the
move (`Avisa`) or with it. `atrapables`, `libre`, `mapa` are the capturable
pokemons, `capturados` the counter of the global objective, which is
decremented when a trainer is sent. The broker takes a catch (`enviados`)
before it is registered (`enEspera`). `caido` is a dereferenced NULL or an
operation on a list that does not exist.

**TrainerThread, Task.** A trainer's thread and whoever plans it share the task
without a mutex: two semaphores hand it over. `TrainerThread` has every step of
`trabajar`, of `ejecutarParcialmente` and its callers, and of the destruction;
`Task` is what the planner is promised. `TeamPlanner` relies on it: there the
instructions are steps of the short term thread.

**TeamEvents.** The listeners of the Team and the threads of its messages, with
connections that break. `pedidos` are the GETs the broker got; main registers
the id of each (`getEnEspera`) only after the broker answered with it.
A listener is at `suscribe`, `recibe`, `confirma` or `lanza`: the
acknowledgement and the creation of the thread are two steps.
`listaLocalizedAppearedsRecibidos`, to which threads add without a mutex, is
what the library makes of it: the nodes that are linked (`recibidos`) and their
count (`elementos`). `list_add` is its four steps: find the last of the nodes
that were counted (`Agrega`), link the new one after it (`Enlaza`), read the
count (`Suma`) and write it (`Guarda`). Of two threads that add at once, one may
lose its node and both may be counted. From then on whoever looks for as many
nodes as were counted, in `list_add` or in the search of
`procesarLocalizedRecibido`, follows a NULL (`Muere`); the process ends, its
threads and connections with it, and nothing starts it again. The module ends
where the capture service begins: what it does with a pokemon, and what a CAUGHT
does to its trainer, is in `TeamPlanner`.

## 3. Runs

Twelve, each for a question of its own. States are distinct states, times those
of four workers.

| Run | Instance | States, time | What it shows |
|---|---|---|---|
| `memory_lock` | 4 threads | 2521, 1 s | exclusion (`WriterIsAlone`), refinement of `ReadersWriters` (`IsReadersWriters`), every request ends |
| `buddy` | 16 bytes, least partition 4, messages of 3, 5, 9 and 17, 7 saves and replays | 165348, 12 s | the partitions tile the cache at every turn (`Tiling`); free buddies are merged and a message gets the smallest aligned buddy (`Buddies`); victims go in order; saves end |
| `dynamic` | 10 bytes, least partition 2, messages of 2, 3, 5 and 11, 6 saves and replays, frequencies -1, 0, 1, 2 | 537395, 34 s | tiling without free neighbours (`Gapless`), content intact, frequency 0 evicts only if it must, saves end |
| `delivery` | 2 messages; 2 connections of 2 clients, or of 1 that subscribes again | 517354, 44 s | no message missed, sent messages stay cached, acknowledgements are not confused and nothing comes twice (`OnceEach`), requests end |
| `wire` | 2 clients, any of 8 messages each, either may end before, between or after its sends | 101891, 21 s | what a subscriber reads is what was sent, once (`ArrivesAsSent`); nothing is left on a connection and a message cut off is not published (`NothingLeftOver`); every message arrives |
| `tall_grass` | 3 messages on 2 files (1 exists), 2 coordinates, 4 blocks of 2 characters, lines of 3, 1 crash | 340558, 53 s | one thread per file; blocks owned across crashes, none lost (`BlocksAccountedFor`); files say what was done (`Conserved`); messages end |
| `gamecard_server` | 4 mixtures of up to 3 messages, a break, a death of the broker or of the GameCard | 124500, 58 s | what was acknowledged is processed, and no more often than connections broke (`Attended`); no more catches are told to have succeeded than there were pokemons (`CatchesAreBacked`); every message is processed |
| `team_planner` | 3 trainers in a row, 3 pokemons, no broker, FIFO, RR, SJF with and without preemption | 84272, 24 s | a trainer is in one queue and is found there, no planner thread crashes (`InPlace`); the process ends once all are done (`Finishes`) and only then (`DoneWhenAllAre`) |
| `team_answers` | 2 trainers, 2 pokemons, a broker that answers each catch either way at any moment, the four algorithms | 1033452, 29 s | nobody captures more than it wants (`NeverOverLimit`); a catch under way can be decided either way (`PendingCatches`) |
| `trainer_thread` | tasks of 1 to 4 instructions, turns of any length | 1114, 1 s | the two threads alternate (`OneAtATime`), nothing is used beyond its end (`SafeUse`), refinement of `Task` (`InOrder`), turns and destructions end (`CallsReturn`) |
| `team_events` | 3 pairs out of 5 messages (LOCALIZED, APPEARED, CAUGHT, GameBoy, needed or not), 2 species, 1 break | 241622, 63 s | what was acknowledged is processed, and the process dies of nothing but a lost node (`Attended`); the answer of a GET or a CATCH counts once whatever is repeated (`AnsweredOnce`); every message gets through, unless the process died |
| `final_deadlock` | 5 trainers, 4 species, 8 pokemons distributed in every way | 7590, 46 s | each exchange gives a trainer what it needs (`EveryExchangeHelps`), the deadlocks reported are those there are and their exchanges are counted (`DeadlocksAreReported`), all are dissolved (`Dissolves`) |

Properties with several parts are conjunctions of definitions that stand next
to them: `Gapless` is `TypeOK /\ Tiling /\ NoFreeNeighbours`, `OnceEach` is
`TypeOK /\ NotifiedGotIt /\ GotOnce`, and so on. The type invariants of
`MemoryLock`, `BuddyMemory` and `TrainerThread` are proved (section 5) and not
run again.

### Why the bounds are enough

- *Lock*: two readers and two writers are the least with which a reader follows
  another while a writer waits behind a writer.
- *Buddy*: four least partitions give three levels of halving and merging; 3, 5,
  9 ask for each of them, 17 for more than there is. Seven saves and replays
  fill the cache, evict in both orders and refill it.
- *Dynamic*: ten bytes hold three occupied partitions with gaps between them, so
  that three free neighbours are merged and several partitions are moved. The
  least partition divides what is left over except in `MCDynamicLeast`, which is
  about that. `UnsignedModulus` is 2^16 instead of 2^32: what matters is that
  it is above every sum of sizes.
- *Delivery*: two messages are what a confused acknowledgement needs, two
  connections what a stale socket needs.
- *Wire*: names of one and three bytes, numbers of one and two bytes, none, one
  and two places: each length that is counted in two ways differs between two
  messages. A CAUGHT with the value 2 and one with 1 tell OK from FAIL. Integers
  take four bytes, of which the upper two are 0.
- *TallGrass*: four blocks let a file grow to its second line, and let two files
  run out of blocks together with something to give back. One crash is enough:
  after it nothing depends on whether there was another one before.
  `OneCreator` keeps two NEWs from creating the same file in the passing run;
  `MCTallGrassCreate` has them.
- *GameCardServer*: three catches of the one pokemon there is, over the broker
  and from the GameBoy, and a NEW that creates a file with a GET or a CATCH on
  it. One break repeats a message; one death comes between any two steps.
- *TeamPlanner*: in `team_planner` two trainers end up with each other's pokemon
  and the third with its own, so that captures, an exchange and three ends
  happen under every interleaving. `MaxPermisos` (20) is never reached
  there: no semaphore gets to 9. In `team_answers` it is 3, one more than there
  are trainers, and a thread that would post beyond it stops there; the others
  go on, and the properties of that run do not speak of permits.
- *TrainerThread*: with four instructions a turn may begin, continue or end a
  task, and leave more than one behind. The proofs remove the bound.
- *TeamEvents*: the three sets make the pairs that meet: a LOCALIZED and an
  APPEARED of another species; a LOCALIZED and what the GameBoy tells of the same
  species; an answer and a message that nobody needs. One break repeats one
  message, so that three threads use the list of names: two lose a node, and the
  third dies of it, in the search or in `list_add`.
- *FinalDeadlock*: with five trainers two separate deadlocks come about, and
  trainers that want two pokemons, or the same one twice, take part in rings.

`CHECK_DEADLOCK FALSE` stands where the system really stops: all connections
used up and nothing to send, all messages done, all trainers finished.

### Exceptions the properties state

They are part of what the runs show, and each is needed: without it TLC finds
a counterexample.

- `RequestEnds` excepts `WaitsElsewhere`: a record's socket is pointed at a new
  connection between `send` and `recv` (`broker.c:150-155`,
  `subscribers.c:69`). The thread then waits, under the write lock, for an
  acknowledgement that the client has no reason to send.
- `NotifiedGotIt` and `GotOnce` speak of clients that subscribed once. A client
  that subscribes again may be sent a message twice, and an acknowledgement may
  be taken for another message's in the window where its record has no mutex
  yet (`subscribers.c:134-135`, `81`).
- `BlocksAreOwned` excepts a crash inside a CATCH after its first
  `liberarBloque` (`cutShort`): the freed blocks are still in BLOCKS, and
  another file may get them.
- `NoBlockLost` allows one block for each NEW on an empty file that found the
  disk full (`FullDiskRestored`). This needs `BLOCK_SIZE` no larger than a
  line; with the 64 of `gamecard/tall-grass/Metadata/Metadata.bin` it does not
  happen.
- `DynamicMemory!SaveEnds` excepts frequency 0, where the NULL of
  `MCDynamicZero` may end the process.
- `AckedIsAttended` of `GameCardServer` excepts what a death of the GameCard cut
  short (`muertos`), and `EveryMessageIsProcessed` also what a broker lost with
  its memory: an acknowledgement is sent before the work it is for.
- `RepeatsAreBreaks`: a message whose acknowledgement got lost is processed
  again. The GameCard keeps no ids.
- `AnsweredOnce` of `TeamEvents` speaks of LOCALIZED and CAUGHT, whose id leaves
  its list under a mutex. An APPEARED that comes again, and one that comes with
  a LOCALIZED of its species, is handed over again (`ManejadorDeEventos.c:97-99`
  looks only at the objective).
- `EveryMessageGetsThrough` of `TeamEvents` excepts the death of the process
  (`Vive`), and `DiesOfLostNode`, a part of `Attended`, says of what alone it
  dies: a node of the list of names was lost, which takes two threads that add
  at once.
- `Finishes` is for a team without a broker; with one, a trainer may wait for an
  answer for ever (see below).

### Fairness

- *MemoryLock*: weak fairness of each thread's steps. The scheduler runs every
  thread, and critical sections end. A thread asks once, so nobody is overtaken
  for ever. Nothing makes a client connect: `Request` is not fair.
- *BuddyMemory, DynamicMemory*: weak fairness of the save in progress, which is
  sequential code. `DynamicMemory` writes it out because ENABLED of its actions
  is costly; the two are equal since a save in progress always has a step.
- *Delivery*: weak fairness of the broker's threads and of a live client's
  acknowledgement. Runs of the model are finite, so fairness of all together is
  fairness of each. Connecting, publishing and going away are not fair.
- *Wire*: weak fairness of the broker's threads, of a client that waits for its
  id and of the subscribers. A client need not write its next byte.
- *TallGrass*: weak fairness of each thread. One that finds its file open sleeps
  and tries again for ever, and the others open it once each.
- *GameCardServer, TeamEvents*: weak fairness of the broker's sending on each
  connection, of each listener (which tries to subscribe for ever) and of the
  threads of the messages; and, for the GameCard, that a broker that died is
  started again. Publishing, breaks and deaths are not fair.
- *TeamPlanner*: weak fairness of each planner thread, of main and of the thread
  of an answer once it has begun. Pokemons need not appear and the broker need
  not answer; `Finishes` supposes that all appeared.
- *TrainerThread*: weak fairness of the trainer's thread, of a turn once it was
  begun and of a destruction once it was begun.
- *FinalDeadlock*: weak fairness of the two threads that move trainers.

## 4. Where the code and its comments differ

Each of these was met while modelling, and TLC shows it: a run with the
configuration named, which is not among the runs above
(`tlc -config <cfg> <module>`), ends in a violation of the property, which says
what the comment, the log or the document does. Where a row begins with
"constants of", take the constants of that configuration with the property of
the row in the place of its own.

| Configuration, property | The code | What it is said to do |
|---|---|---|
| `MCBuddyOversize`, `BigMessageIsNotSaved` | `mem.c:9` compares the size of a pointer with that of the memory | a message that is too big is not saved (`mem.c:15`) |
| `MCDynamicLeast`, `BrokenInTwo` | `dynamic.c:298`: the rest of a partition smaller than the least size is negative, in a `uint32_t` | the partition is broken in two (`dynamic.c:266`) |
| `MCDynamicZero`, `CompactionGathers` | `dynamic.c:178`: compaction of an empty cache reads through NULL | compaction gathers the free partitions (`dynamic.c:36`) |
| `MCTallGrassFull`, `FullDiskRestored` | `manejoDeArchivos.c:51`: an empty file is taken to have had one block | what a NEW took from a full disk is given back (`manejoDeArchivos.c:52`) |
| `MCTallGrassCoordinates`, `CatchTookOne` | `manejoDeArchivos.c:104`: 1-2 is found in 1-20 | one pokemon of those coordinates is taken (`fileSystem.c:174`) |
| `MCTallGrassCreate`, `OneInside` | `fileSystem.c:112`: two threads create the same file | a file is open for one of them (`fileSystem.c:119`) |
| `MCTeamExtra`, `NoMoreThanNeeded` | `ServicioDePlanificacion.c:299` counts down what was captured when it sends a trainer | "Si vienen N ejemplares pero necesito M < N, mando M entrenadores, NO mas" (`ejemplo_flujo_CATCH_CAUGHT.md:27`) |
| `MCTeamLostPermit`, `PermitPerTrainer` | `ServicioDePlanificacion.c:341` looks whether the trainer is free after it put it in BLOCKED: for one that was sent again meanwhile no permit is posted | "Si se libera un entrenador signaleamos" (`ServicioDePlanificacion.c:10`) |
| `MCTeamUncounted`, `ExchangesAreRegistered` | `ServicioDeResolucionDeDeadlocks.c:111` reports the first deadlocks only | an exchange that was not registered "no debería" be (`ServicioDeMetricas.c:91`) |
| `MCDeadlockRing`, `DeadlocksAreComponents` | `ServicioDeResolucionDeDeadlocks.c:280` joins lists one step only, so that a long ring is several deadlocks | one list for each set in deadlock (`ServicioDeResolucionDeDeadlocks.c:117`) |
| `MCTeamEarlyAnswer`, `NoForgottenCatch` | `TareaDeCaptura.c:64`: an answer that comes before the catch is registered is thrown away, and its trainer waits for ever | the handler finds the catch of a required id (`ejemplo_flujo_CATCH_CAUGHT.md:157`) |
| constants of `MCTeamEarlyAnswer`, `PendingCatches` | `ServicioDeCaptura.c:36` looks a pokemon up by species and place, which two may share | "puedo probar con los otros ejemplares en el mapa" (`ejemplo_flujo_CATCH_CAUGHT.md:28`) |
| constants of `MCTeamAnswers`, `DoneWhenAllAre` | `ServicioDePlanificacion.c:140`: the deadlock thread and the thread of an answer move one trainer to EXIT, and main counts it twice | main goes on when the global objective is complete (`App.c:43`) |
| constants of `MCTeamEvents`, `Vive` | `ManejadorDeEventos.c:50`, `:98` add to a list without a mutex; once a node is lost and counted the next use of it dereferences NULL | the list is there "para saber de que pokemon tenemos info e ignorar sus localizeds" (`ManejadorDeEventos.c:97`) |
| constants of `MCTeamExtra` but `Inicio <- Lleno`, `NeverOverLimit` | `Planificador.c:21` offers every trainer of NEW, full or not | "Retorna los de New, Blocked sin Espera y no llenos." (same place) |

With the constants of `MCTeamLostPermit` and `PROPERTY OnlyFullAreProcessed` a
round of deadlocks processes a trainer that is not full
(`ServicioDePlanificacion.c:374` reads BLOCKED again after it looked at it), and
with those of `MCTeamEarlyAnswer` and `INVARIANT AnsweredIsFound` an answer
finds its trainer in no list (`ManejadorDeEventos.c:151`).
Two more are visible in `TeamEvents`: a LOCALIZED may be thrown away because its
GET is not registered yet (`ObjetivoGlobal.c:73` against
`ManejadorDeEventos.c:27`; the thread goes through `Tira`), and an APPEARED and
a LOCALIZED of one species may both be processed (`ManejadorDeEventos.c:35`).

## 5. Proofs

| Theorem | Says | For every |
|---|---|---|
| `MemoryLockProofs!TypeCorrect` | `Spec => []TypeOK` | finite set of threads |
| `MemoryLockProofs!Exclusion` | `Spec => []WriterIsAlone` | finite set of threads |
| `MemoryLockProofs!Refinement` | `Spec => IsReadersWriters` | finite set of threads |
| `BuddyProofs!TypeCorrect` | `Spec => []TypeOK` | memory, least partition and messages |
| `BuddyProofs!MemoryIsTiled` | `Spec => []Tiling` | the same |
| `BuddyProofs!BuddiesAreMerged` | `Spec => []Buddies` | the same |
| `BuddyProofs!VictimsLeaveInOrder` | `Spec => []VictimsInOrder` | the same |
| `DynamicProofs!CacheIsDivided` | `Spec => []Gapless` | memory, frequencies, and messages not smaller than the least partition |
| `DynamicProofs!NothingOverwritten` | `Spec => []ContentIntact` | the same |
| `DynamicProofs!EvictsForWantOfBytes` | `Spec => EvictsOnlyIfShort` | the same |
| `DeliveryProofs!SentIsCached` | `Spec => []SentStaysCached` | connections, subscribers and messages |
| `DeliveryProofs!NoneIsMissed` | `Spec => []NoMessageMissed` | the same |
| `DeliveryProofs!EachGetsItOnce` | `Spec => []OnceEach` | the same |
| `GameCardProofs!OneThreadInside` | `Spec => []OneInside` | messages of which one at most creates each file |
| `GameCardProofs!AcknowledgedIsProcessed` | `Spec => []Attended` | finite set of messages |
| `GameCardProofs!NothingGivenTwice` | `Spec => []CatchesAreBacked` | finite set of messages, and what the files have at first |
| `TrainerThreadProofs!AlternateAlways` | `Spec => []OneAtATime` | lengths of tasks and turns |
| `TrainerThreadProofs!UsedSafely` | `Spec => []SafeUse` | lengths of tasks and turns |
| `TrainerThreadProofs!ImplementsTask` | `Spec => InOrder` | lengths of tasks and turns |
| `TeamProofs!AcknowledgedIsAttended` | `Spec => []Attended` | messages, requests and breaks |
| `TeamProofs!OneCopyAnswers` | `Spec => []AnsweredOnce` | messages, requests and breaks |
| `TeamProofs!ExchangesHelp` | `Spec => EveryExchangeHelps` | team, species and distribution of the captured pokemons |

*Lock.* `WriterIsAlone` is not inductive: that the last reader may post the
semaphore rests on READERS counting exactly the readers inside, and that a
later reader may enter without waiting rests on the first one having waited.
`LockInv` adds who holds the mutex, `READERS = Cardinality(Counted)`, and that
the semaphore is 0 while anyone is inside. The refinement maps the sets
`Reading` and `Writing`, and each action to a step of the abstract lock or a
stutter. Assumption: `ThreadsAssumption`.

*Buddy.* A merge keeps the tiling because the buddy that XOR finds is the
neighbour in the list, which follows from its position only if positions grow
along the list (`Ordered`); a halving keeps it because the sizes are powers of
two (`Sizes`) and the one asked for is smaller (`Progress`). `Buddies` needs
more (`FullInv`): while a save works on a partition that one may have free
buddies, and no other free partition has (`Apart`); when the save leaves it, it
has none either, because each of two buddies is the buddy of the other
(`BuddyOfBuddy`), which holds where every partition starts at a multiple of its
size (`Aligned`); that a merge and a halving keep this is arithmetic of
multiples, which `Divided` and `Multiple` found on division with rest. The order
of the victims needs that no stamp is ahead of the clock (`Placed`).
Assumptions: `BuddyAssumption` (the powers of two that a `uint32_t` holds, the
sizes of the memory and of the least partition among them, as `main.c:49-50`
makes them) and `UnsignedModulusAssumption`.

*Dynamic partitions.* `DynamicInv` is inductive. A cut, a merge of two or three
neighbours and a compaction keep the tiling only if a partition that is looked
for by its position is the one that was meant. For the first two it is because
positions grow along the list (`PositionsGrow`), which needs that no partition
but the last is empty (`Sizes`: a compaction that finds nothing free adds an
empty one, and a message has a byte at least). The compaction removes the free
partitions by their positions after it has moved the occupied ones, so that for
a while two partitions of the list begin at the same place: the first one found
is the free one, because an occupied one before it never moves to the right
(`NotToTheRight`, from `PrefixSums`: a partition begins where the sizes of those
before it add up to). What is left after k removals enumerates, in order, the
partitions that are occupied or above k (`RemoveFree`, `RestProperties`); in the
end they divide among themselves the bytes they have (`Gathering`), and the new
free one has the rest. That there is such a sequence of lists at all, and what
it ends in, are inductions over the list, each as a set of counterexamples that
would have a least member (`LeastOf`). The copies of the messages are intact
because each byte has one source (`CompactedContent`). At most one group of free
neighbours is ever to be merged, the one around the victim (`FreeApart`), which
is why merging the first group is enough. That frequency 0 evicts only for want
of bytes needs that what is free is one partition when it is time to kill
(`Gathered`), and that a compaction loses no message.
Assumptions: `DynamicAssumption`, `UnsignedModulusAssumption`, and
`NoneIsSmaller` in each theorem: below the least size the tiling does break
(`BrokenInTwo` in section 4), so that the theorems say up to where the code is
right. Every configuration of the repository (`broker/config`, `broker/test`)
has a least partition of 4, and `serialize_data` writes at least the 4 bytes of a
`uint32_t` for every message, so that they all satisfy it; a larger
`TAMANO_MINIMO_PARTICION` need not, and nothing in the code enforces it.

*Delivery.* What is being sent was read under the lock of the memory, and
evictions need it alone (`LockInv`, from the abstract lock that `Refinement`
gives): `SentStaysCached` follows (`CacheInv`). No message is missed because a
subscription that is being replayed has each cached message among those it will
send, or in the hands of a thread that sends it, or noted (`ReplayInv`); one
that was replayed is in the list of whoever publishes later (`PushInv`,
`DoneInv`). A client that subscribed once has one record, one thread that sends
to it at a time and nothing in its connection that was noted before (`OnceInv`,
`HistoryInv`). Assumption: `DeliveryAssumption`; the names of connections are
not numbers of messages, since both name who makes a call.

*GameCard, files.* `OneInside` rests on the open flag of the file being set by
whoever is inside, and on a file that is being created not existing (`FileInv`).
The second fails when two messages create one file at once (section 4), so that
the theorem supposes one creator for each file, as a file system that has the
species from the start does. `GameCardProofs` extends `GameCardServer` and has
`TallGrass` as the instance `Files`, whose constants are its own; what
`TallGrass` assumes of them is a hypothesis of the theorem.

*GameCard's server, Team's events.* A message is at one place of its connection
(`PipeInv`, `HeldInv`), and what was acknowledged is with a thread, at its
listener on the way to one, or was processed (`AckedIsAttended`,
`AckedIsProcessed`). That repeats are no more than breaks is not inductive: a
break pays for a repeat before it happens. `Peso` weighs a message by the
threads it had beyond the first, and one more for each way it may still come
again; per queue the weights are no more than the breaks (`RepeatInv`). That
catches are backed adds up, for each species, the catches that were answered
well or will be, what is left, and what was added (`BackedInv`). In the Team an
id leaves its list with the thread that found it there, so that no two threads
of one answer have passed the test (`CopyInv`, `FoundInv`), and a break that
brings a message again finds it processed or with a thread. That the process
dies only of a lost node is a count (`ListInv`): `elementos` is written by a
thread that read a smaller one, however stale, so that it is never more than the
threads that linked their node and counted it (`Contados`). As long as no node is
lost each of them has its own in the list, since a thread is named by its message
and its number (`NameInv`), and there are as many nodes as were counted.
Assumptions: `ServerAssumption` (the messages are finitely many, the files have
natural numbers of pokemons at first) and `EventsAssumption` (an answer to a GET
tells of the species that was asked for).

*Sums.* The sums of `GameCardServer` are folds over a set. What they compute is
proved in `CollectionProofs` for every finite set: a fold is a recursive function
on the subsets, and two such functions agree because a least subset on which
they differ does not exist (`LeastSubset`, from the well-foundedness of strict
inclusion in the set form, which takes no operator). From it come the laws that
the proofs cite (`SumProperties`, `SumGrows`, `SumAdds`). `DynamicProofs` adds
up the sizes of partitions with the same laws.

*Exchanges.* A trainer that is paired for an exchange walks, and others
exchange before it arrives, so that what was worth it when the pair was made has
to be so still (`FinalInv`): the mover has one too many of what it gives and
lacks what it gets, of which the other trainer has one too many (`Helpful`), and
no trainer is in two exchanges. The service assigns such exchanges because a
dependency is just that (`DependenciasProperties`, `MatchedIsHelpful`) and
because the greedy pairing takes only trainers that are in no pair yet
(`PairsProperties`, from `BusyGrows`); it never assigns any while one is under
way, since `evaluarEstadoPosibleDeadlock` looks at READY. Then the mover lacks
one less and the other one nothing more, whatever it gets for it
(`HelpfulExchange`): also the spare pokemon that
`buscarPokemonQueNecesitoEnElOtro` falls back on does no harm, and a Team makes
no more exchanges than pokemons were lacking. Every trainer being full, which
`RepartosAssumption` says, is not needed for this, only that what the trainers
hold is counted. `TeamProofs` extends `TeamEvents` and has `FinalDeadlock` as
the instance `Final`, whose `TeamAssumption` and `RepartosAssumption` are
hypotheses of the theorem. `Filtrar` and `involucrados` are recursive functions:
that they exist and what they return are again shown by a least counterexample.

*Trainer thread.* That two threads without a mutex never meet rests on there
being one token: the permits of the two semaphores and the thread that works
are one altogether while a cycle is waited for, and none otherwise
(`TokenInv`). That no instruction is asked for beyond the last one rests on the
planner asking for as many cycles as are left, which the task itself counts
(`TurnInv`, `TaskInv`). `IInv`, their conjunction with the types, is inductive
(`Inductive`), and each step from it is a step of `Task` or a stutter.
Assumption: the lengths of tasks are natural numbers above 0.

Each of these invariants was an invariant of the run of its module before it was
proved.

*Only model-checked:* everything under fairness (`EveryRequestEnds`, `SaveEnds`,
`RequestEnds`, `MessageEnds`, `Finishes`, `CallsReturn`, `Dissolves`,
`EveryMessage...`), which this prover does not handle; the bit smearing of
`Arithmetic`, on the recursive operators of `Bitwise`; `Conserved` and
`BlocksAccountedFor` of `TallGrass`, about texts that are flattened and cut
again; the layouts of `Wire`, sequences whose length is the sum of those of
their parts; `DeadlocksAreReported` of `FinalDeadlock` and the safety properties
of `TeamPlanner`, which hold on the instances of the runs and not on every value
of the constants (the ring and the races of section 4).

## 6. Not modelled

- *Broker.* The dump writes a report from a signal handler, which walks the
  partition list without the lock (`dump.c:37`); the start-up is the `Init` of
  the modules. `list_filter` reads the subscribers of a queue without their
  mutex (`broker.c:97`), the lookup and the insertion of a record are two
  critical sections, so that two connections of one subscriber may make two
  records (`subscribers.c:65`): `Delivery` does both in one step. Queues share
  the lock and the cache; `Delivery` has one queue and lets eviction take any
  message instead.
- *Connections.* `Wire` lets what one `send` sends arrive whole: `utils.c:7`
  calls `recv` without MSG_WAITALL, and a partial read would desynchronize every
  layout the same way. The server of the GameCard does not look at what `recv`
  returns (`server.c:338`); `GameCardServer` has the two outcomes of it.
- *GameCard.* `setClaveValor`, one dump of a file and `crearPokemon` are single
  steps. In the code the first truncates and rewrites the metadata, and a
  retrying thread that reads it just then finds no OPEN
  (`reintentoOperacion.c:49`); a crash inside the last leaves a directory without
  keys (`manejoDeArchivos.c:13`). A text that a crash has cut inside a line
  counts as that line. `-format` over an existing file system is only an initial
  state. An answer is lost when the broker is down (`server.c:90`), in the model
  as in the code.
- *Team.* `Mapa.c` is a set of pokemons: its lookups by place are those of the
  list of capturable ones. That list has no mutex either: threads of messages add
  to it (`ServicioDeCaptura.c:58`) and threads of answers take from it (`:89`)
  while the planner walks it, so that it may break, and end the process, as the
  list of names does in `TeamEvents`. In `TeamPlanner` each of these is one step;
  its properties suppose that the list holds what was put there, and the
  properties of `TeamEvents` that the capture service returns. `Planificador.c:69`
  reads the queues in one step too; that three copies
  of one mutex guard the counters of the objective (`ObjetivoGlobal.c:91`) is
  not modelled. The threads of the other trainers and of the server are alive
  while `liberarRecursos` frees what they use (`App.c:179`): `TrainerThread` has
  the end of one trainer. Sockets of earlier subscriptions are kept
  (`ServidorTeam.c:44`). The estimates of SJF stay 0, because only tests call
  `asignarEstimacionATodosLosElementosDeLaLista`; the model has their
  consequence, that any trainer of READY may come first (`proximoAEjecutar`).
- *GameBoy, libs.* The command line, the configuration, the log and the
  object-like wrappers have no state of the system.

## 7. What is left

To prove more: `InPlace` of `TeamPlanner`, that a trainer is in one queue but
while a thread moves it, from what each thread may hold in its hands; then
`NeverOverLimit` and `PendingCatches`, from who may be on its way to which
pokemon. The races of section 4 break these on other values of the constants, so
each theorem needs the hypotheses that exclude the race and no more. And
`BlocksAreOwned` of `TallGrass`: that a New that finds the disk full returns no
block the file still names needs what is read to be what was written.

To model more: a partial read as a step of `Wire`; two connections of one
subscriber in `Delivery`; `setClaveValor` as two steps in `TallGrass`; the end
of a Team (`liberarRecursos`) with its listeners still alive.
