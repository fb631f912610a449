------------------------------ MODULE TallGrass ------------------------------
(***************************************************************************)
(* The file system of the GameCard (gamecard/src/fileSystem.c and what it  *)
(* calls): one file per pokemon, with its coordinates and how many there   *)
(* are at each, in blocks a bitmap hands out. A thread per message works   *)
(* on one file: it opens it, by a flag in the file's metadata that a mutex *)
(* protects, reads it whole, changes it, and closes it after a sleep.      *)
(*                                                                         *)
(* The state a crash leaves is the disk: bitmap (mapped shared), metadata  *)
(* and blocks. A restart reads no more than the directory.                 *)
(*                                                                         *)
(* A file is a text of lines, one per coordinate. Every line is taken to   *)
(* have LineLength characters, and a character is known by its line and    *)
(* its place in it; blocks and lines need not coincide. A call of          *)
(* setClaveValor, a dump of a file and crearPokemon are one step each.     *)
(***************************************************************************)
EXTENDS Integers, Sequences, FiniteSets, SequencesExt, FiniteSetsExt

CONSTANTS Threads,          \* the threads, one per message that is taken
          Pokemons,         \* the names the messages use
          Existing,         \* those that have a file, an empty one, already
          Coordinates,      \* pairs <<x, y>>, each number below 100
          Tasks,            \* which messages the threads may be given
          NumberOfBlocks,   \* BLOCKS of the file system's Metadata.bin
          BlockSize,        \* BLOCK_SIZE, in characters
          LineLength,       \* the characters of a line
          MaxCrashes        \* bound: how often the process is killed

Task == [op : {"NEW", "CATCH", "GET"}, pokemon : Pokemons,
         coordinate : Coordinates]

ASSUME TallGrassAssumption ==
    /\ IsFiniteSet(Threads)
    /\ Existing \subseteq Pokemons
    /\ Coordinates \subseteq (0 .. 99) \X (0 .. 99)
    /\ Tasks \subseteq [Threads -> Task]
    /\ NumberOfBlocks \in Nat
    /\ BlockSize \in Nat \ {0}
    /\ LineLength \in Nat \ {0}
    /\ MaxCrashes \in Nat

VARIABLES
    \* the disk
    bitmap,         \* the blocks marked as used
    disk,           \* the characters in each block
    files,          \* the metadata of each pokemon's file
    \* the process
    semaphores,     \* the pokemons with an entry in g_listaSemaforos
    task,           \* the message each thread works on; it never changes
    pc,             \* where the thread is
    mine,           \* its copy of the file: listaBloques, archivoMapeado
    result,         \* what it answers, "none" so far
    \* history
    deaths,         \* how often the process has ended
    cutShort        \* whether a Catch was among what one of them cut short

vars == <<bitmap, disk, files, semaphores, task, pc, mine, result, deaths,
          cutShort>>

Blocks == 0 .. NumberOfBlocks - 1

\* crearPokemon; size is the SIZE the metadata says.
EmptyFile == [exists |-> TRUE, open |-> FALSE, blocks |-> <<>>, size |-> 0]
NoFile == [EmptyFile EXCEPT !.exists = FALSE]

NoCopy == [blocks |-> <<>>, lines |-> <<>>]

Init ==
    /\ bitmap = {}
    /\ disk = [b \in Blocks |-> <<>>]
    /\ files = [p \in Pokemons |-> IF p \in Existing THEN EmptyFile ELSE NoFile]
    /\ semaphores = Existing
    /\ task \in Tasks
    /\ pc = [t \in Threads |-> "start"]
    /\ mine = [t \in Threads |-> NoCopy]
    /\ result = [t \in Threads |-> "none"]
    /\ deaths = 0
    /\ cutShort = FALSE

-----------------------------------------------------------------------------
(***************************************************************************)
(* Lines. string_contains looks for "x-y" anywhere in the text: it finds   *)
(* it in a line whose x ends like that x and whose y begins like that y.   *)
(* string_starts_with finds it in a line with that x.                      *)
(***************************************************************************)

Ends(number, digits) == number = digits \/ (number > 9 /\ number % 10 = digits)
Begins(number, digits) == number = digits \/ (number > 9 /\ number \div 10 = digits)

Mentions(line, c) == Ends(line.at[1], c[1]) /\ Begins(line.at[2], c[2])
StartsWith(line, c) == line.at[1] = c[1] /\ Begins(line.at[2], c[2])

\* atoi of what follows the key and one character: 0 if that is not the "=".
Value(line, c) == IF line.at = c THEN line.quantity ELSE 0

\* Fault: the coordinate is added at the end although it is there.
operarNewAppends(lines, c, quantity) ==
    Append(lines, [at |-> c, quantity |-> quantity])

(***************************************************************************)
(* A line that starts with the key is replaced, the first of them only. If *)
(* the key is found inside a line and no line starts with it, nothing is.  *)
(***************************************************************************)
operarNew(lines, c, quantity) ==
    LET first == SelectInSeq(lines, LAMBDA line : StartsWith(line, c))
    IN  IF \A i \in DOMAIN lines : ~Mentions(lines[i], c)
        THEN Append(lines, [at |-> c, quantity |-> quantity])
        ELSE IF first = 0 THEN lines
        ELSE [lines EXCEPT ![first] =
                 [at |-> c, quantity |-> quantity + Value(@, c)]]

\* Every line that starts with the key loses one; a line left with 0 goes.
operarCatch(lines, c) ==
    SelectSeq([i \in DOMAIN lines |->
                  IF StartsWith(lines[i], c)
                  THEN [at |-> c, quantity |-> Value(lines[i], c) - 1]
                  ELSE lines[i]],
              LAMBDA line : line.quantity # 0)

Text(lines) == FlattenSeq([i \in DOMAIN lines |->
                              [k \in 1 .. LineLength |-> <<lines[i], k>>]])

\* The lines string_split makes of a text: a line ends in its last character.
\* What a crash has left of a line, with its end, counts as the line.
Split(text) ==
    LET ends == SelectSeq(text, LAMBDA char : char[2] = LineLength)
    IN  [i \in DOMAIN ends |-> ends[i][1]]

Size(lines) == LineLength * Len(lines)

\* mapearArchivoEnString: BlockSize characters of each block, or what is left
\* of size. What dumpearArchivo did not fill is zero and ends the string.
Read(blocks, size) ==
    LET left(i) == Min({BlockSize, size - (i - 1) * BlockSize,
                        Len(disk[blocks[i]])})
    IN  Split(FlattenSeq([i \in DOMAIN blocks |->
                              SubSeq(disk[blocks[i]], 1, left(i))]))

\* What dumpearArchivo leaves in the i-th block of a file.
Piece(text, i) ==
    SubSeq(text, (i - 1) * BlockSize + 1, Min({i * BlockSize, Len(text)}))

calcularNumeroDeBloquesNecesarios(size) == size \div BlockSize + 1

-----------------------------------------------------------------------------

Op(t) == task[t].op
Pokemon(t) == task[t].pokemon
File(t) == files[Pokemon(t)]

Goto(t, location) == pc' = [pc EXCEPT ![t] = location]
Answer(t, value) == result' = [result EXCEPT ![t] = value]

(***************************************************************************)
(* The entry of procesarNew, procesarCatch and procesarLocalized.          *)
(***************************************************************************)
Start(t) ==
    /\ pc[t] = "start"
    /\ IF File(t).exists
       THEN Goto(t, "access") /\ UNCHANGED result
       ELSE IF Op(t) = "NEW"
       THEN Goto(t, "create") /\ UNCHANGED result
       ELSE Goto(t, "done") /\ Answer(t, "FAIL")
    /\ UNCHANGED <<bitmap, disk, files, semaphores, task, mine, deaths, cutShort>>

crearPokemon(t) ==
    /\ pc[t] = "create"
    /\ files' = [files EXCEPT ![Pokemon(t)] = EmptyFile]
    /\ Goto(t, "register")
    /\ UNCHANGED <<bitmap, disk, semaphores, task, mine, result, deaths, cutShort>>

agregarSemaforoALista(t) ==
    /\ pc[t] = "register"
    /\ semaphores' = semaphores \cup {Pokemon(t)}
    /\ Goto(t, "access")
    /\ UNCHANGED <<bitmap, disk, files, task, mine, result, deaths, cutShort>>

\* Fault: the flag is not looked at.
nuncaAbierto(p) == FALSE

estaAbierto(p) == files[p].open

(***************************************************************************)
(* The mutex covers the test of the flag and its update. A thread that     *)
(* finds the file open sleeps and tries again, which changes nothing.      *)
(***************************************************************************)
puedeAccederAArchivo(t) ==
    /\ pc[t] = "access"
    /\ Pokemon(t) \in semaphores
    /\ ~estaAbierto(Pokemon(t))
    /\ files' = [files EXCEPT ![Pokemon(t)].open = TRUE]
    /\ Goto(t, "opened")
    /\ UNCHANGED <<bitmap, disk, semaphores, task, mine, result, deaths, cutShort>>

\* cerrarArchivo, after the sleep.
cerrarArchivo(t) ==
    /\ pc[t] = "close"
    /\ files' = [files EXCEPT ![Pokemon(t)].open = FALSE]
    /\ Goto(t, "done")
    /\ UNCHANGED <<bitmap, disk, semaphores, task, mine, result, deaths, cutShort>>

-----------------------------------------------------------------------------
(***************************************************************************)
(* agregarCoordenadaPokemon.                                               *)
(***************************************************************************)

ReadNew(t) ==
    /\ pc[t] = "opened"
    /\ Op(t) = "NEW"
    /\ mine' = [mine EXCEPT ![t] =
                   [blocks |-> File(t).blocks,
                    lines  |-> operarNew(Read(File(t).blocks, File(t).size),
                                         task[t].coordinate, 1)]]
    /\ Goto(t, "allocate")
    /\ UNCHANGED <<bitmap, disk, files, semaphores, task, result, deaths, cutShort>>

LacksBlocks(t) ==
    Len(mine[t].blocks) < calcularNumeroDeBloquesNecesarios(Size(mine[t].lines))

FreeBlocks == Blocks \ bitmap

\* asignarBloqueLibre: the first free block, marked and emptied.
asignarBloqueLibre(t) ==
    /\ pc[t] = "allocate"
    /\ LacksBlocks(t)
    /\ FreeBlocks # {}
    /\ LET block == Min(FreeBlocks)
       IN  /\ bitmap' = bitmap \cup {block}
           /\ disk' = [disk EXCEPT ![block] = <<>>]
           /\ mine' = [mine EXCEPT ![t].blocks = Append(@, block)]
    /\ UNCHANGED <<files, semaphores, task, pc, result, deaths, cutShort>>

DiskFull(t) ==
    /\ pc[t] = "allocate"
    /\ LacksBlocks(t)
    /\ FreeBlocks = {}
    /\ Goto(t, "restore")
    /\ UNCHANGED <<bitmap, disk, files, semaphores, task, mine, result, deaths,
                   cutShort>>

\* liberarBloque of the last of the blocks the thread has.
liberarBloque(t) ==
    /\ bitmap' = bitmap \ {Last(mine[t].blocks)}
    /\ mine' = [mine EXCEPT ![t].blocks = Front(@)]
    /\ UNCHANGED <<disk, files, semaphores, task, pc, result, deaths, cutShort>>

\* Fault: the size it would have had.
BlocksOfNewSize(t) == calcularNumeroDeBloquesNecesarios(Size(mine[t].lines))

\* What the file is taken to have had before: an empty one had no block.
OriginalBlocks(t) == calcularNumeroDeBloquesNecesarios(File(t).size)

Restore(t) ==
    /\ pc[t] = "restore"
    /\ Len(mine[t].blocks) > OriginalBlocks(t)
    /\ liberarBloque(t)

Restored(t) ==
    /\ pc[t] = "restore"
    /\ Len(mine[t].blocks) <= OriginalBlocks(t)
    /\ Goto(t, "close")
    /\ Answer(t, "FULL")
    /\ UNCHANGED <<bitmap, disk, files, semaphores, task, mine, deaths, cutShort>>

-----------------------------------------------------------------------------
(***************************************************************************)
(* quitarCoordenadaPokemon.                                                *)
(***************************************************************************)

ReadCatch(t) ==
    LET lines == Read(File(t).blocks, File(t).size)
    IN  /\ pc[t] = "opened"
        /\ Op(t) = "CATCH"
        /\ IF \E i \in DOMAIN lines : Mentions(lines[i], task[t].coordinate)
           THEN /\ mine' = [mine EXCEPT ![t] =
                               [blocks |-> File(t).blocks,
                                lines  |-> operarCatch(lines, task[t].coordinate)]]
                /\ Goto(t, "free")
                /\ UNCHANGED result
           ELSE /\ Goto(t, "close")
                /\ Answer(t, "FAIL")
                /\ UNCHANGED mine
        /\ UNCHANGED <<bitmap, disk, files, semaphores, task, deaths, cutShort>>

\* A file without lines keeps no block.
BlocksToKeep(lines) ==
    IF lines = <<>> THEN 0 ELSE calcularNumeroDeBloquesNecesarios(Size(lines))

Free(t) ==
    /\ pc[t] = "free"
    /\ Len(mine[t].blocks) > BlocksToKeep(mine[t].lines)
    /\ liberarBloque(t)

-----------------------------------------------------------------------------
(***************************************************************************)
(* What both end with: the dump, BLOCKS and SIZE. A Catch that leaves no   *)
(* line has no block to dump to.                                           *)
(***************************************************************************)

dumpearArchivo(t) ==
    /\ \/ pc[t] = "allocate" /\ ~LacksBlocks(t)
       \/ pc[t] = "free" /\ Len(mine[t].blocks) <= BlocksToKeep(mine[t].lines)
    /\ LET blocks == mine[t].blocks
           written == {blocks[i] : i \in DOMAIN blocks}
           index(b) == CHOOSE i \in DOMAIN blocks : blocks[i] = b
       IN  disk' = [b \in Blocks |->
                       IF b \in written THEN Piece(Text(mine[t].lines), index(b))
                                        ELSE disk[b]]
    /\ Goto(t, "dumped")
    /\ UNCHANGED <<bitmap, files, semaphores, task, mine, result, deaths, cutShort>>

SetBlocks(t) ==
    /\ pc[t] = "dumped"
    /\ files' = [files EXCEPT ![Pokemon(t)].blocks = mine[t].blocks]
    /\ Goto(t, "size")
    /\ UNCHANGED <<bitmap, disk, semaphores, task, mine, result, deaths, cutShort>>

SetSize(t) ==
    /\ pc[t] = "size"
    /\ files' = [files EXCEPT ![Pokemon(t)].size = Size(mine[t].lines)]
    /\ Goto(t, "close")
    /\ Answer(t, "OK")
    /\ UNCHANGED <<bitmap, disk, semaphores, task, mine, deaths, cutShort>>

\* obtenerCoordenadasPokemon reads and changes nothing.
ReadGet(t) ==
    /\ pc[t] = "opened"
    /\ Op(t) = "GET"
    /\ Goto(t, "close")
    /\ Answer(t, "OK")
    /\ UNCHANGED <<bitmap, disk, files, semaphores, task, mine, deaths, cutShort>>

-----------------------------------------------------------------------------
(***************************************************************************)
(* The end of the process.                                                 *)
(***************************************************************************)

\* Fault: the flags are left as the crash left them.
StillOpen(file) == file

\* iniciarListaSemaforosDeArchivo closes every file it finds.
Closed(file) == [file EXCEPT !.open = FALSE]

\* A Catch that has freed a block the metadata still names.
HalfWay(t) ==
    /\ Op(t) = "CATCH"
    /\ pc[t] \in {"free", "dumped"}
    /\ mine[t].blocks # File(t).blocks

(***************************************************************************)
(* The process dies and is started again. The messages it was working on   *)
(* are lost: they had been acknowledged as they arrived (server.c:51-54).  *)
(***************************************************************************)
Die ==
    /\ pc' = [t \in Threads |->
                 IF pc[t] \in {"start", "done"} THEN pc[t] ELSE "lost"]
    /\ mine' = [t \in Threads |-> NoCopy]
    /\ files' = [p \in Pokemons |-> Closed(files[p])]
    /\ semaphores' = {p \in Pokemons : files[p].exists}
    /\ deaths' = deaths + 1
    /\ cutShort' = (cutShort \/ \E t \in Threads : HalfWay(t))
    /\ UNCHANGED <<bitmap, disk, task, result>>

Crash ==
    /\ deaths < MaxCrashes
    /\ Die

(***************************************************************************)
(* obtenerPosicionEnLista does not find the file, created by a thread that *)
(* has not added its semaphore yet: list_get returns NULL for position -1, *)
(* and puedeAccederAArchivo locks the mutex it points to.                  *)
(***************************************************************************)
SemaphoreMissing(t) ==
    /\ pc[t] = "access"
    /\ Pokemon(t) \notin semaphores
    /\ Die

Step(t) ==
    \/ Start(t)
    \/ crearPokemon(t)
    \/ agregarSemaforoALista(t)
    \/ puedeAccederAArchivo(t)
    \/ ReadNew(t)
    \/ asignarBloqueLibre(t)
    \/ DiskFull(t)
    \/ Restore(t)
    \/ Restored(t)
    \/ ReadCatch(t)
    \/ Free(t)
    \/ dumpearArchivo(t)
    \/ SetBlocks(t)
    \/ SetSize(t)
    \/ ReadGet(t)
    \/ cerrarArchivo(t)
    \/ SemaphoreMissing(t)

Next == (\E t \in Threads : Step(t)) \/ Crash

Spec == Init /\ [][Next]_vars

(***************************************************************************)
(* Every thread runs. One that waits for a file tries again for ever and   *)
(* the others open it once each, so weak fairness is enough.               *)
(***************************************************************************)
FairSpec == Spec /\ \A t \in Threads : WF_vars(Step(t))

-----------------------------------------------------------------------------

\* The variables range over the values their C types and uses allow.
TypeOK ==
    /\ bitmap \subseteq Blocks
    /\ \A p \in Pokemons :
          /\ files[p].blocks \in Seq(Blocks)
          /\ files[p].size \in Nat
    /\ semaphores \subseteq Pokemons
    /\ task \in Tasks
    /\ \A t \in Threads : mine[t].blocks \in Seq(Blocks)
    /\ deaths \in Nat

Inside(t) == pc[t] \notin {"start", "create", "register", "access", "done", "lost"}

(***************************************************************************)
(* "Hay un semáforo por archivo metadata para controlar el acceso y evitar *)
(* condiciones de carrera" (fileSystem.c:119): one thread at a time is     *)
(* between puedeAccederAArchivo and cerrarArchivo of a file.               *)
(***************************************************************************)
OneInside ==
    \A t, u \in Threads :
        Inside(t) /\ Inside(u) /\ Pokemon(t) = Pokemon(u) => t = u

ClosedFiles == {p \in Pokemons : files[p].exists /\ ~files[p].open}
BlocksOf(p) == ToSet(files[p].blocks)

(***************************************************************************)
(* A file that is closed owns its blocks: they are marked in the bitmap    *)
(* and no other file has them, whatever a crash cut short, unless it was a *)
(* Catch between its first liberarBloque and setClaveValor of BLOCKS       *)
(* (manejoDeArchivos.c:114-142).                                           *)
(***************************************************************************)
BlocksAreOwned ==
    ~cutShort =>
        \A p \in ClosedFiles :
            /\ BlocksOf(p) \subseteq bitmap
            /\ \A q \in ClosedFiles \ {p} : BlocksOf(p) \cap BlocksOf(q) = {}

(***************************************************************************)
(* No block is lost while the process lives: when no thread is inside, the *)
(* marked blocks are those of the files (bloques.c:25-49). Only a New for  *)
(* an empty file, whose first line is its only one, that finds the disk    *)
(* full may lose a block (see FullDiskRestored).                           *)
(***************************************************************************)
NoBlockLost ==
    deaths = 0 /\ (\A t \in Threads : ~Inside(t)) =>
        LET owned == UNION {BlocksOf(p) : p \in Pokemons}
        IN  /\ owned \subseteq bitmap
            /\ Cardinality(bitmap \ owned)
                   <= Cardinality({t \in Threads :
                          result[t] = "FULL" /\ Len(mine[t].lines) = 1})

(***************************************************************************)
(* Every marked block is that of one file, and every block of a file is    *)
(* marked, but for the two exceptions above.                               *)
(***************************************************************************)
BlocksAccountedFor == TypeOK /\ BlocksAreOwned /\ NoBlockLost

Answered(op, p, c) ==
    {t \in Threads : /\ pc[t] = "done"
                     /\ result[t] = "OK"
                     /\ task[t] = [op |-> op, pokemon |-> p, coordinate |-> c]}

QuantityAt(p, c) ==
    LET lines == Read(files[p].blocks, files[p].size)
        i == SelectInSeq(lines, LAMBDA line : line.at = c)
    IN  IF i = 0 THEN 0 ELSE lines[i].quantity

(***************************************************************************)
(* What a file says is what its messages did to it, in whatever order they *)
(* ran: as many pokemons at each coordinate as New messages put there less *)
(* as many as Catch messages were told they took (fileSystem.c:104-186).   *)
(***************************************************************************)
Conserved ==
    deaths = 0 =>
        \A p \in ClosedFiles, c \in Coordinates :
            QuantityAt(p, c) = Cardinality(Answered("NEW", p, c))
                                   - Cardinality(Answered("CATCH", p, c))

(***************************************************************************)
(* Every message is worked off, however long its file was open, also by a  *)
(* process that died, or is lost with the process.                         *)
(***************************************************************************)
MessageEnds ==
    \A t \in Threads : pc[t] = "access" ~> pc[t] \in {"done", "lost"}

(***************************************************************************)
(* "Rutina de restoración por disco lleno, se volverá al estado inicial de *)
(* bloques del archivo" (manejoDeArchivos.c:52): a New that found no block *)
(* leaves the file with the blocks it had and returns the others.          *)
(***************************************************************************)
FullDiskRestored ==
    \A t \in Threads :
        pc[t] = "close" /\ result[t] = "FULL" => mine[t].blocks = File(t).blocks

(***************************************************************************)
(* "Se trata de quitar la coordenada y obtiene un resultado acorde"        *)
(* (fileSystem.c:174): a Catch that is answered OK took one of those that  *)
(* the file had at its coordinate.                                         *)
(***************************************************************************)
CatchTookOne ==
    [][\A t \in Threads :
          pc[t] = "opened" /\ pc'[t] = "free" =>
              QuantityAt(Pokemon(t), task[t].coordinate) > 0]_vars

=============================================================================
