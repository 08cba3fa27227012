# A TLA+ verification of emilio/gii-2

`gii-2` is the coursework of a degree in computer engineering: a collection of
independent programs. The programs with logic worth verifying are the
concurrent ones (`ssooi`, `ssooii`: processes, signals, System V semaphores,
threads), the data structures (`eda-1`, `eda-2`) and the Java shop
(`programming/Store`). This directory models them in TLA+, checks the models
with TLC and proves theorems about them with TLAPS.

## 1. Inventory

| Component | State | Operations | What is hard | What makes it correct |
|---|---|---|---|---|
| `ssooii/pist2` | shared `GameData` (statuses, counters), two semaphores used as a double barrier, a message queue, one parent and N children | fork loop, registration, rounds (choose coordinator, shoot, count the dead), reaping, clean-up, signal handler | interleavings of N processes in reused semaphores, read-modify-write of `status`, failing forks, signals during setup, game and clean-up | one coordinator per round, the halves of a round never overlap, no shot lost or left over, the game ends, nothing outlives the parent |
| `ssooii/pist3` | shared file mapping, three counting semaphores, one thread per player | the same game with Windows semaphores | barriers built from tokens anyone may take, a semaphore maximum, dead threads that still hold a token due | the same |
| `ssooi/pistolos` | shared mapping, signals USR1/TERM/USR2, `sigsuspend` | the same game with signals only | coalesced signals, signals before `sigsuspend`, nested handlers | the same |
| `ssooi/pistolos_deferredprint` | the same, and the targets of a round | the parent prints the shots of a round when it is over | memory that everybody writes is read later | what is printed is what happened |
| `ssooii/cruce` | grid of cells, slots for the children's pids, a semaphore as mutex | main creates cars and walkers up to a limit; each moves cell by cell | a slot handed over between parent and child, kill of pid 0, pauses that fail, main interrupted anywhere | a cell has at most one occupant, slots are not leaked, nobody survives main |
| `ssooii/custom_semaphore` | spinlock, FIFO queue of pids, counter | wait, signal | a signal sent before the waiter pauses, a full queue | mutual exclusion, FIFO, no lost wake-up |
| `ssooii/session_*`, `terminal`, `lib` | pipes, semaphores, signals in small programs | take and give back, wait and remove, write and read lines | stop byte lost in a pipe, semaphore removed in use | at most as many inside as units, every line copied |
| `ssooi/bolos` | tree of ten processes and a table of pids | fork, pass the pids on the command line, wait | a branch may fail while another goes on | each pin knows the two behind it |
| `eda-2` queues, stacks, heap, graph, disjoint sets, search tree, binary tree, file of buckets | arrays, nodes, a file | insert, remove, search, traverse | growth, capacity, rotations, links that were never written, buffers that were never closed | each implements the abstract type |
| `eda-1` lists | nodes after a fake one | insert, remove, search, purge, sort | boundaries, nodes leaked or used after they are freed | implements a sequence |
| `programming/Store` | collections of models in memory and in files | imports, purchases, sales, their edition and destruction, saves | several files saved one after another, edits cut short | stock is what was bought less what was sold, files hold what the memory holds |
| `AlgorithmTester`, its tests | a table of configurations; vectors and numbers | timing of algorithms; sorting, multiplying, giving change, counting | boundaries | each gives what its definition says |
| `programming/Library`, `Library-cpp`, `Quiniela`, `MatrixDeterminant`, `gol` | - | small algorithms | - | - |
| everything else | scripts, SQL, grammars, MATLAB, documents | - | - | - |

How they interact: they do not, with three exceptions. `pist2`, `pist3` and
`pistolos` are three implementations of one game (`ShootingGame` here).
`pist2`, `pist3` and `cruce` call closed libraries (`pistoleros`, `cruce`,
`gl.h`) that are not in the repository. `eda-2/graph` uses its own copies of
the heap and of the queue. The rest is single programs and libraries; they are
checked together in two instances, `MCPrograms` and `MCLibraries`, whose
behaviours each belong to one of them.

## 2. Modules

| Module | What it is | Instances | Theorems |
|---|---|---|---|
| `ShootingGame` | the game of rounds, without processes (abstract) | - | - |
| `Pist2` | `ssooii/pist2/pist2.c` | `MCPist2` | `Pist2_proofs` |
| `Pist3` | `ssooii/pist3/pist3.c` | `MCPist3` | `Pist3_proofs` |
| `Pistolos` | `ssooi/pistolos.c` | `MCPistolos` | `Pistolos_proofs` |
| `PistolosDeferred` | `ssooi/pistolos_deferredprint.c`, on top of `Pistolos` | `MCPrograms` | `Pistolos_proofs` |
| `Semaphore` | a fair counting semaphore (abstract) | - | - |
| `CustomSemaphore` | `ssooii/custom_semaphore` and its `test.c` | `MCCustomSemaphore` | `CustomSemaphore_proofs` |
| `Cruce` | `ssooii/cruce/cruce.c` | `MCPrograms` | `Cruce_proofs` |
| `Bolos` | `ssooi/bolos.c` | `MCPrograms` | `Programs_proofs` |
| `Sessions` | `ssooii/session_1.c`, `session_1_2.c`, `session_5.c`, `lib/semaphore.c` | `MCPrograms` | `Programs_proofs` |
| `Fifo` | an unbounded queue (abstract) | - | - |
| `ContiguousQueue` | `eda-2` `queue-contiguous` (and the copy of `graph`) | `MCLibraries` | `Libraries_proofs` |
| `ContiguousStack` | `stack-contiguous`, and `cpp/stack` | `MCLibraries` | `Libraries_proofs` |
| `LinkedNodes` | `queue-list` and `stack-list` | `MCLibraries` | `Libraries_proofs` |
| `LinkedLists` | `eda-1/list`, `eda-1/listaEnterosAlumnos2014` | `MCLibraries` | - |
| `SearchTree`, `BinaryTree` | `binary-search-tree`, `binary-tree` | `MCLibraries` | - |
| `DisjointSets` | `disjoint-sets` | `MCLibraries` | `Libraries_proofs` |
| `HeapArray`, `BinaryHeap` | `binary-heap`, and the heap of `graph` | `MCLibraries` | `Libraries_proofs` |
| `Graph` | `graph` | `MCLibraries` | - |
| `HashFile` | `eda-2/session-2.c` | `MCLibraries` | `Libraries_proofs` |
| `Algorithms` | `AlgorithmTester` and `AlgorithmTester/tests` | `MCLibraries` | - |
| `Store` | `programming/Store` | `MCLibraries` | `Store_proofs` |

`PROJECT.json` maps each definition to the lines it stands for. A definition
called `Wrong...` is a mutation of the one that follows it, the form a plausible
bug would give it: no action uses it, and the property it is paired with in
`PROJECT.json` is violated when it takes the other's place. This is how we know
that each property depends on the code.

### ShootingGame

In each round every player alive shoots another one alive; when the last has
shot, those hit die together. `alive`, `shot` and `hit` are its state, `Shoot`
and `Resolve` its actions. The three programs map their statuses, their
program counters and their synchronisation objects to it (`gameAlive`,
`gameShot`, `gameHit`); that every behaviour of each is one of the game
(`ImplementsGame`) says that nobody shoots twice or not at all, that the dead
do not shoot and are not shot, and that all the deaths of a round are decided
before the next one, whatever the interleaving.

### Pist2

One parent (`ppc`, the points of `main` and of the exit handlers) and `N`
children (`pc`, those of `child_proc`; `proc`, how the kernel sees the process).
`status`, `process_count`, `alive_count`, `rounds` and `ids` are the shared
`struct GameData`; `all_shooted` and `all_received` the two System V semaphores;
`queue` the message queue, by message type; `in_game` the players the closed
library counts as alive (external, from the calls `child_proc` makes). An action is the
code between two accesses to what other processes can see: the `|=` on a
status is two (`Load`, `Store`), `semop` is one. The scan for the coordinator
is one action although it reads the array entry by entry, and
`CoordinatorStable` shows that the array does not change while anybody may be
in it. A failed call (`Faults`) takes the code's own path: exit with code 100 in a child,
the exit handlers in the parent. `SIGKILL` may arrive at any instruction.
With `Bypass` the message queue is compiled out.

The interrupt may come where `InterruptAt` says. The parent blocks every
signal until all the children are created, so it can come at the
two points where the parent waits and, because `main` has returned and nothing is blocked
then, at those of a clean-up that follows a normal end.

### Pist3

The same game with Windows threads. `semaphores` holds the three counts, with
their maximum: a `ReleaseSemaphore` that would pass it adds nothing and nobody
looks. `main` is `CreateThread`, `GatherReady`, `ReleaseReady` and `Join`; the
others are the steps of `child_proc`. Fatal errors are not modelled.

### Pistolos

The same game with signals. `pending` holds the signals not yet delivered to
each child, as a set, since standard signals do not queue; `usr2` the one to
the parent. Handlers run only inside `sigsuspend` (`Catch`), with everything
blocked; `dying` are the children inside `child_sigterm_catch`, which may call
the code of the other handler. The parent's loops over the children advance
one child per step (`next`). `known` are the ids already stored in the shared
memory: that of any other child is 0, and `kill(0, SIGKILL)` kills everybody.

### CustomSemaphore

`lock`, `count` and the ring `items`, `size`, `first` are `semaphore_t`;
`pending` the processes with a SIGUSR1 not yet taken, which only `sigsuspend`
lets in; `created`, `left` and `unreaped` the loops of `test.c`. Each process
passes through the steps of `semaphore_lock`, `critical_section` and
`semaphore_unlock`; the compare and swap, the store that releases the
spinlock, each update of the count and of the ring, and `kill` are separate
steps. `Semaphore` is what it promises: at most `Units` hold, and who gives a
unit back hands it to the one who has waited longest. The units change hands
when the count is incremented, before the signal is sent.

### PistolosDeferred

`Pistolos` with two differences. The targets of a round stay in the shared
memory, and the parent prints the shots when the round is over. `shots` is
the history of the round and `lines` what has been printed; the other actions
are those of `Pistolos`.

### Cruce

`main` is where the main process is, with its `index` and `newborn`;
`manager` the process that sets the lights; `child` each car and walker, from
its fork to its end, with the cell it is on and the next one. `children`,
`manager_id`, `alive_count` and `grid` are the shared `GameData`. `map_access` is the mutex
of the grid: taking it, looking at the next cell, moving and giving it back
are separate steps, because the pauses of the library come in between and may
fail, and a child whose pause fails takes the mutex once more, clears the cell where
it is (a car that is not on the grid yet: the one where it was to appear) and ends.
The child clears its own slot before it ends, and the parent may store the pid
afterwards (`Store`). `Kill` follows the slots in order: an empty one makes
`kill(0, SIGKILL)`, which ends main too. The ways through the grid (`WalkerBirths`,
`CarBirths`, `Advance`) are up to the closed library and are constants here.

### Bolos, Sessions

`Bolos` has one action for each call of the source, with `fork` and `execl`
failing or not; `table` are the pids that A keeps, `args` what each process is
told, and `pins` what it understood. `Sessions` has the three exercises
that use several processes; `sem` is a System V semaphore, `pipe` the lines
(a number) and null bytes in the pipe.

### The libraries

Each is a record that holds the structure as the code does (indices, addresses, balance
factors, a buffer), with one action per call, and the abstract value that it is
compared with. `Sound` of each module says what it keeps, and names the point where the
code stops keeping it:

- `ContiguousQueue`: the block as a function of the indices. `queue_grow` may
  copy between regions that overlap; the outcome is any of two, as a build
  copies upwards or downwards.
- `LinkedNodes`: addresses that are given out and freed. `next` of a new node
  holds what `malloc` left there, which is `NULL` or not.
- `LinkedLists`: nodes from `malloc` to `free`; every state is compared with
  the sequence, for every position and element.
- `SearchTree`: the tree as nested records, with the balance factors that the
  code computes. `BinaryTree`: all the pairs of strings, the walks and the
  reconstruction in the order the code tries the roots.
- `DisjointSets`: the array of parents, and the partition it stands for. The walk from a
  set to its root is the least set that contains it and is closed under the array (`Path`); that
  there is a set in it that is its own parent says that the walk ends.
- `HeapArray`: the operations on the array, for the library and for the copy of
  the graphs; `endless` when a loop does not end. A turn of each loop is an operator (`Up`,
  `Down`, `pop`, `insert`), and the loop a function of the number of turns that is defined from the one
  before. `BinaryHeap` uses the operations in any order, and counts in `held` what should be in the heap.
- `Graph`: lists of adjacents, with the weights they really keep; the sort, the
  paths and the trees are compared with their definitions over every path.
- `HashFile`: the buckets in the file and those still in the buffer of the unclosed
  stream (`flushed`). `Sound` pairs what the counts of the buckets say beyond what they hold (`Excess`)
  with what is in the overflow (`Overflowed`).
- `Algorithms`: each function, on every small input, against its definition.
- `Store`: `memory` and `disk`, the collections; `saves`, those that the current action
  has still to write; `dirty`, those whose last save failed. `faults` counts failed saves, ends
  of the program between two saves, and edits cut short.

## 3. Runs

| Run | Instance | What it shows |
|---|---|---|
| `pist2_rounds` | 4 processes, any targets | types; `PhasesApart`, `UniqueCoordinator`, `CoordinatorStable`, `AliveCountAgrees`, `NoLostShot`, `MessagesOfThisRound`; implements the game |
| `pist2_ends` | 3 processes, no queue, any targets, fair | `GameEnds`: the game ends and no child has failed |
| `pist2_faults` | 3 processes, every fault at any time, interrupts | `NoChildFails`, `ReleasedAtExit`, `CleanupCompletes`, `GameEnds` |
| `pist2_late_interrupt` | 3 processes, interrupts anywhere | violates `ReleasedAtExit` |
| `pist3_four` | 4 threads, any targets, fair | types; `PhasesApart`, `NoReleaseFails`, `ReturnsSurvivor`, `GameEnds`; implements the game |
| `pist3_five` | 5 threads | violates `PhasesApart` |
| `pistolos_rounds` | 4 children, interrupts in the game | types; `RoundsApart`, `FindsTarget`, `DumpFindsTargets`, `ReleasedAtExit`; implements the game |
| `pistolos_ends` | 3 children, any fork fails, interrupt anywhere, fair | `GameEnds` |
| `pistolos_early_interrupt` | 3 children, interrupt during the creation | violates `ReleasedAtExit` |
| `custom_semaphore` | 4 processes, 2 units, 2 passes, ring of 3, fair | types; `AtMostUnits`, `QueueHasRoom`, `FrontWaits`, `Ends`; implements a fair semaphore |
| `programs` | `cruce` with 2 slots and 3 pids; `pistolos_deferredprint` with 4 children; `bolos` with every failing `fork` and `execl`; the sessions with 2 children or 4 lines | `NobodyRunOver`, `FindsSlot`, `LostByStore`, `NobodyOutlivesMain`; `OthersSound` for the other three |
| `libraries` | each library under every sequence of calls on few elements | `StructuresSound`, `KeepPromises`, `StockAgrees` |

**Bounds.** No counter is cut off: the games end, so all the state spaces are
finite. Four players are the least with which a round can leave two or more
alive after somebody died, so that a second round takes place with dead
processes of the first still around; three are enough for everything that
happens in one round and in the set-up and the clean-up. Five players in
`pist3_five` are the least for its counterexample: two die, and three go on while a dead one is slow. `TwoDie`,
`FewVictims` and `TwoRounds` restrict the targets to keep an instance within
minutes; the other instances let everybody shoot anybody. In
`custom_semaphore` two processes can wait at once and the ring wraps around.
In `programs`, two slots are enough for one to be lost and the other to be
used again, and three pids for a child to be created while both slots are
taken; the way has two kinds of birth and a cell in common. In `libraries`
the bounds are the constants that end in a number of elements: the blocks grow at least once, the search
trees have the five nodes that a double rotation and a wrong one after it
need, the heap passes its capacity, both buckets of the file overflow, the graphs
have every set of up to three edges on three vertices, and `Store` has two refills, two sales,
one purchase and one fault. The buckets of the file, the bits of an item, the
initial capacities and the unused space a queue tolerates are smaller than in the code,
which changes when a limit is met and not what happens there.

**Fairness.** Weak fairness of each process or thread: the kernel schedules
whoever can run, a semaphore operation that stays possible is eventually made,
and a pending signal is delivered. No strong fairness is assumed. At the
spinlock of `CustomSemaphore` nobody is promised anything, and `Ends` holds
all the same because the passes are bounded. System V semaphores and Windows
semaphores that are taken again and again could starve somebody, but the
double barrier leaves every decrement enabled until it is made. The runs that
check an end set `CHECK_DEADLOCK FALSE`: a stop anywhere else violates it.
`programs` and `libraries` set it too, and state no fairness: their programs
end, or wait for ever where the source does, and the bounds end the calls.

**What the runs found.**

- `pist2_late_interrupt`: the clean-up that follows a normal end can be cut
  short. `sig_exit` calls `exit` while `exit` already runs
  `release_all_resources`, which is then not run again, and the semaphores and
  the queue survive, although `pist2.c:422` promises to "release everything".
- `pist3_five`: one semaphore per half of a round is not enough
  (`pist3.c:69`). The unit meant for a dead thread that has not taken it yet is
  taken by another in the same half of the next round, and that one starts a
  further round while the others still count the dead. With four players or fewer it
  does no harm (§4, `Pist3_proofs`): at least two die in every round, because nobody shoots himself,
  so nobody survives the second.
- `pistolos_early_interrupt`: while some child has not stored its id, the
  interrupt handler's `kill_all` calls `kill(0, SIGKILL)`, kills its own process
  before `release_data`, and the shared file stays (`pistolos.c:370`: "release
  all"). A failed fork does the same.

Places where the code stops short, which the properties of `programs` and
`libraries` name instead of hiding them:

- `cruce.c:675`: main stores the pid of a child that may have ended and
  cleared its slot. The slot is then lost (`LostByStore` says that this is the only way),
  and with enough of them `find_pid_slot` finds none.
- `cruce.c:361`: `kill_all` sends SIGKILL to pid 0 for a free slot, which kills
  the group before the semaphores are removed.
- `cruce.c:526` does not compile as it stands; it is read as the initialisation it
  means.
- `session_1.c:39`: `semaphore_wait` waits for zero, and not for the semaphore to be
  available. The parent goes on when somebody is inside and removes the semaphore next, whoever still needs it;
  if all have ended before it waits, it waits for ever.
- `session_5.c`: the null byte that ends the input may be read together with a
  line; then it is written to the file and the child never ends.
- `queue-contiguous/lib/queue.c:10`: `memcpy` between regions that overlap.
- `queue-list/lib/queue.c:25`: the `next` of a new node is not written.
- `binary-heap/lib/binary-heap.h:17`: the parent of element 1 is itself, so in the library
  a second insertion does not return, and the copy in `graph` may leave an
  element that is not the lowest at the front. `grow` does not record the capacity it allocates.
- `binary-search-tree.c:105`: the balance factors are wrong after a double
  rotation; inserting 2, 1, 1, 2, 2 ends in a failed assertion.
- `graph.c:60`: only the first adjacent of a vertex keeps its weight, so distances may
  exceed the shortest; the tree of Prim takes the heaviest edge of the queue and may
  be a forest.
- `session-2.c:53`: the file is truncated through a stream that stays open, so its last
  buckets do not exist until the program ends and nothing overflows into them:
  the student that the comment of line 224 calls "found with overflow" was refused.
- `Vector_extend` of AlgorithmTester allocates items as if they were bytes;
  `duplicaOrdenada` makes a list with -3 of an empty one.
- `Store`: the action that destroys a purchase has no arguments and is never found; a save
  that fails is ignored; an edit of a sale that is cut short by a count that is
  no number has already given the stock back.

## 4. Proofs

All are checked by TLAPS, with the named assumptions of the modules only.

`Pist2_proofs`, for every `N` below 32767 (the range of a semaphore), every
choice of targets and every set of faults:

- `TypeCorrect`: `Spec => []TypeOK`. `TypeOK` alone is not inductive: an index
  is within the array because of where the parent is (`process_count < N`
  while it forks), and the target whose status is written is a player because of where
  the shooter is. `TypeInv` adds both.
- `ReleasedByDesign`: if the interrupt comes only at the two waits of `main`,
  nothing survives the parent. `CleanInv` says what has been removed at each point of
  the clean-up. The assumption is needed: `pist2_late_interrupt` refutes the
  theorem without it.
- Wherever a signal may arrive: `BarriersSeparate` (`PhasesApart`), `OneCoordinator` (`UniqueCoordinator`),
  `CountersAgree` (`AliveCountAgrees`) and `ScanIsStable` (`CoordinatorStable`),
  all from one inductive invariant, `Phases`. The family is in one of three
  phases. In `StartPhase` READY holds at least a unit for each child that has not taken
  its own and for the parent. In `ShootPhase` the second semaphore is zero, the last of
  the living is the coordinator, and the first semaphore is zero before it has raised it
  and then exactly the number of the living who have not yet waited on it.
  In `CountPhase` the first semaphore is zero, the second one is zero before the
  coordinator raises it and then exactly the number who have not yet waited,
  and `alive_count` is the living plus those about to subtract themselves.
  `StartEnds`, `ShootEnds` and `CountEnds` say that a zero seen by who waits for
  it is the end of its phase, so the first to leave takes the whole family to
  the next. A process that fails or is killed never pays its unit: the zero does
  not come and the phase does not end, which is why no fault breaks the properties.
- `NobodyFails` (`NoChildFails`): no assertion of `child_proc` fails, nobody asks the library for a
  victim when there is none, and without faults and interrupts no child fails. `Marks` adds that a message in the
  queue, or taken from it, is of a player whose status is marked. `Company` adds that whoever is
  about to raise the semaphores or to shoot is not the only one alive, so that the library has somebody to give.
  Without faults and interrupts, `Unfailing` adds that the IPC objects are there while children need them
  and that the parent only cleans up when all have ended.

In the same module, under one more assumption: either the message
queue is compiled out (`Bypass`), or no signal comes while the parent reaps
its children. The clean-up that such a signal starts removes the queue
while a player that has been sent its SIGKILL, and has not received it yet, may go on without it:
`msgsnd` fails, `msgrcv` finds nothing, and marks and messages no longer agree.

- `MarksAreKept` (`NoLostShot`), `MessagesAreTaken` (`MessagesOfThisRound`) and `Refinement`
  (`Spec => ImplementsGame`), from `IInv`: `Phases` and two more parts. `Exchange` says what each
  phase holds. While they shoot, a player is marked exactly when somebody has stored the mark and
  aims at it, and its messages are as many as those that have sent one to it; while they
  count, who has not looked yet has a message exactly when it is marked, and nothing is left
  behind one that has. `Undisturbed` is what keeps the queue there: it exists until the parent
  goes to its clean-up, and then either nobody runs or the first barrier will never be passed.
  `Store` is the abstract `Shoot`; the process that first sees the zero of the first barrier is
  `Resolve`; the others are not seen.

`Pist3_proofs`, for every choice of the library:

- with at most four threads: `FourTyped`, `FourApart` (`PhasesApart`), `FourReleases`
  (`NoReleaseFails`), `FourReturn` (`ReturnsSurvivor`) and `FourRefine` (`ImplementsGame`);
- with any number of them, `FirstRound`: the first three of these until the second round begins. `pist3_five` shows that it is
  all that can be said: there the second round is where a unit is taken by another.

All of them follow from `Phases`, three phases again. In `StartPhase` the signals gathered and those
still to come are the pending ones. In `ShootPhase` the units of semaphore 2 are exactly the threads
that have still to take one, the signals in semaphore 0 and the living who have not signalled are what
the coordinator has left to gather, and whoever has shot has hit another one. In
`CountPhase` semaphore 1 holds a unit for each thread at the first pass, and semaphore 2 with what the
coordinator is to release one for each thread that has not returned; it is empty already unless nobody
survives. `ShootReleases`, the step in which the coordinator releases the first pass, is the only one that can break them: a thread that
died in the round before may still have its unit to take, and then another could (`InTime` is the absence of that). With four threads
it does no harm: who is dead at all has not died alone, so at most two are alive, and they have shot each other. In the first round there is no
such thread, which `UntilSecond` says: whoever leads the shooting while `rounds` is at most one does it
when nobody is still leaving a round (`Leading`, `Leaving`).

`Pistolos_proofs`, for every number of children, every targets, every fork that fails and every place of an interruption:

- `TypeCorrect` (`TypeOK`), and `DumpIsSafe` (`DumpFindsTargets`), from `TargetsInv`: the target is written before
  SHOT says so, and a second round begins when everybody has one.
- `ReleasedByDesign` (`ReleasedAtExit`), if every fork succeeds and the parent is not
  interrupted before all are ready; `pistolos_early_interrupt` shows that it is needed. `ReleaseInv`: whoever
  is ready has stored its id, so `kill_all` finds no id that is 0.
- `RoundsStayApart` (`RoundsApart`) and `TargetsAreFound` (`FindsTarget`), from `Phases`. In `PrepPhase`
  nobody has been ordered anything. In `QuietPhase` the survivors wait with nothing pending, and the dead have
  written all that they had to write. In `RoundPhase` (`Fighting`, `Struck`) an order still pending of one that
  has shot already is of one that is dying and will not take it; whoever is being shot is the target
  of somebody who has written SHOT or is about to; and nobody else dies.
  An order that was merged with a shot is the hard case: the handler of the shot runs the
  one of the order first, if it has not run (`dying`).
- `Refinement` (`Spec => ImplementsGame`), if no interrupt comes while the parent rewrites the
  statuses between two rounds: then some are as before the round and some as after it, for ever. With
  one there, two children are enough for TLC to refute it.

`CustomSemaphore_proofs`, for every number of processes, units and passes and
every ring with a slot per child:

- `MutualExclusion` (`AtMostUnits`), `SignalsArrive` (`FrontWaits`),
  `RingSuffices` (`QueueHasRoom`) and `TypeCorrect` (`TypeOK`), all from one
  inductive invariant, `IInv`. None of the four is inductive. `SpinlockInv`: one process at
  most is inside the spinlock. `UnitsInv`: the units are held by those inside
  or by those already signalled (`Holding`); the count is the units less the
  holders, less those that wait unwoken, less the one that is about to enter the ring; somebody
  waits only if all the units are held, but for the one being handed over.
  `RingInv`: the entries of the ring, without the front once it has been
  signalled, are exactly the processes that wait unwoken, each once.
  The four depend on one another: the ring has room because those that do not
  wait hold the units, the signal goes to who waits because the ring never
  overflows, and the units are respected because no signal is sent to anybody else.
  The header (`semaphore.h:9-11`) doubts that it works for more than two
  processes; it was written before the spinlock, and with it it does.

Under the same assumptions:

- `Refinement`: `Spec => ImplementsSemaphore`. `Shape` says which process the
  i-th waiter is, in terms of the ring; `Hand` says who holds and who waits,
  as sets. With both before and after a step, `Enter` is the abstract `Lock`,
  `Leave` is `Unlock`, and all the others (the entry into the ring, the signal, its
  arrival, the removal from the ring) leave the abstract semaphore as it was.

`Cruce_proofs`, for every number of slots and of cars and walkers, and every
grid with any ways through it:

- `CellsAreExclusive` (`NobodyRunOver`), `SlotIsFound` (`FindsSlot`), `AllEnd`
  (`NobodyOutlivesMain`), `SlotsLostByStoreOnly` (`LostByStore`) and `TypeCorrect`, all from
  one inductive invariant, `IInv`. `MutexInv`: one child at most is between
  taking `map_access` and giving it back, a pause that fails included. `WayInv`: the
  cells of each child by where it is, and the one it has found free is
  free until it moves. `NobodyRunOver` leaves out the cells where walkers
  appear, which they mark without a look, and what follows when `pausa_coche` fails in a car that is
  not on the grid yet (`Fled`): it clears the cell where it was to appear,
  whoever is there. `StartInv`: there is no child before the manager is ready. `CountInv`:
  `alive_count` is the number of children that main has not waited for, and
  below the limit when it makes one. `SlotInv`: each child that is alive has
  its pid in its slot, but for the one whose pid main is about to store.
  `FindsSlot` then follows by the pigeonhole principle: fewer children than slots,
  and the pids in them are all different. `EndInv`: the slots that
  `kill_all` has passed had somebody in them, who is dead.

`Libraries_proofs`, about the containers:

- The queue in a block, for every initial size, threshold and set of values. `OrderIsKept`: each
  step is a push or a pop of `Fifo`, unless the copy overlaps; `WindowFits` (`Sound`): `first_index + size`
  never exceeds the capacity, and what is in the queue are values that were pushed, after a copy that
  overlaps too; `FewNeverOverlap`: there is no overlap while the queue holds at most
  one element more than `QUEUE_MAX_ITEMS_UNUSED`, which in the code is eleven. All from `IsQueue`,
  the shape of the block, and `Window`, the elements in it: growing keeps the window and leaves a
  cell after it. Where the copy overlaps and goes on from what it has just written, each cell still
  gets what some cell of the old block held (`OverIsStored`). `QueueAssumption`, the
  hypothesis of all three, asks only for an initial size above zero and a threshold.
- The stacks in a block, C and C++, for every initial size above zero: `StackIsSound` and
  `StackKeeps`, from `IsStack` (the size is within the capacity, and every cell below it was
  written by a push) and `Reserved` (a larger block keeps them, however it was made).
- The disjoint sets, for every number of sets: `SetsAreSound`, from `Forest`: what was joined is a
  partition, each block is closed under the array, has one set that is its own parent, and no set
  of sets is closed under the array without such a root in it. The last part is what says that
  every walk ends; that a set on the way can be pointed at the root (`Shortened`) or a root at
  another (`Joins`) without losing it is the proof.
- `eda-2/session-2.c`, for every number of buckets and students: `AcceptedAreFound`, from `IsHash`. A
  bucket of the hash is full before its count exceeds what it holds, an overflow bucket that is
  still in the buffer is empty, and the excess of the counts is as large as the overflow. So
  what the late flush writes over is empty, and no search that stops at a bucket with room misses anybody.
- The queue and the stack of nodes, if NULL and garbage are no addresses (`NodesAssumption`):
  `NodesAreSound` and `NodesKeep`, from `NodesInv`: until the queue goes astray, the nodes in use
  are a chain (`IsChain`), each once in the order of its links, with the ends that the structure
  says (`Ends`); what follows the links is that chain (`ContentsAre`).
- The binary heap, the library's and the copy of the graphs, for every set of values, of integers as
  priorities, and every capacity: `HeapsAreSound` (`Sound`), from `HeapInv`: as long as no call ran without
  end or beyond the block, each element is in the heap as often as `held` says (`Copies`), the
  library's heap has one element at most, and a heap that is `heaped` is ordered from the root (`ValidFrom`). An exchange
  keeps the count of every element. While an element sinks the heap is ordered but
  at it, and its children are no less than its parent (`Sinking`), so where it stops, or where the array
  ends, everything is; heapifying from the last parent to the first therefore orders the whole.
  What is drained is sorted because the front is the least of an ordered heap
  and the rest of it stays ordered; inserted again in that order, nothing rises in the copy of the
  graphs, whose loop stops at equals. The library never gets as far: the second element is its own parent
  there, and the loop that lets it rise goes on at equals and does not end. The loops are
  functions of the turn; that there is one with each turn made from the one before, and that what a turn
  keeps holds after the last, is proved once (`TurnsExist`, `TurnsAreGood`).

`Store_proofs`, for every set of refills and every number of sales, purchases and faults, if counts
are integers and nothing is imported with a negative stock (`CountsAssumption`):

- `StoreInvariant`, `StocksAlwaysAgree`, `FilesAlwaysAgree` and `BooksAgree` (`StockAgrees`, the two together, which
  is what the run checks). `Ledger`: every stock is what was imported, and what was
  purchased less what was sold if it is the first of its id, the one that the controllers find; nothing was sold of a refill that is
  not there. It holds while there was no fault, also between the saves of one
  action. `Agreed`: a file that is not among those still to be saved, nor among those whose save
  failed, is the memory. `Distinct`: no two sales have one id; the file has to be included, because a
  restart reads it. The sums over sequences (`SumOf`) are recursive functions; what an
  appended, changed or removed element does to them is proved first.

`Programs_proofs`, about the small programs:

- The sessions, for every number of children, repetitions, lines and every size of the buffer:
  `UnitsAreKept` (`AtMostUnits`) and `ParentWaitsForTheTaken` (`WaitsForTheTaken`), from `SemaphoreInv`: until the semaphore is
  removed, its value and those inside are its units. So session_1's parent is let through `semaphore_wait` only
  while a child is inside; by the time it removes the semaphore, in a call of its own, that child may
  have ended. Who ends has had all its turns, and who fails has not. `LinesAreCopied` (`CopiesTheLines`), from `PipeInv`: what
  is in the file and then in the pipe is what was written, and after the end a null byte more.
- `PinsAreKnown` (`KnowsItsPins`) of `bolos.c`: `TreeInv` says which of the processes that A makes in
  order are there, `ToldInv` what each was told and `BranchInv` what it understood.

`Pistolos_proofs` has also `PistolosDeferred`, whose steps are those of `Pistolos` but for the
printing: `DeferredRounds`, `DeferredRefinement`, and `WhatIsPrinted` (`PrintsTheShots`), from `Recorded`: the shots of the round
are those of whoever has SHOT written or is about to write it, at the target that its memory still says.

Induction over data (walks, sums, the contents of a chain) is done by the least counterexample:
a non-empty set of numbers has a least element, from the library's `WFMin`. Only functions can be treated
so, and not recursive operators.

Only model-checked: liveness, which needs fairness and `ENABLED`; the lists of `eda-1`, the
trees, the graph and the algorithms, whose operations are recursive operators, which the provers do not
take. `OthersSound`, `StructuresSound` and `KeepPromises` are conjunctions over programs that share an
instance: all the conjuncts of the first and of the last are among the theorems above, and of the second
those of the queue, the stacks, the nodes, the sets, the heap and the file.

## 5. What is not modelled

- The closed libraries (`pistoleros`, `cruce`, `gl.h`): modelled from the calls made
  to them, and marked external.
- In `Pist2` and `Pistolos`, the log and its semaphore, the screen, and the
  state dumps apart from what they dereference. In a build of `pist2` with DEBUG a signal that arrives
  while its own process holds the log's semaphore would wait for it in the handler's `LOG`; `PROJECT.json`
  names this with the hazard of `pist2.c:424`, and no property covers it.
- In `Pist3`, the fatal errors: `exit` in a thread runs the clean-up, which
  terminates the threads.
- In `Pistolos`, `release_data` is one step, and no interrupt comes during it.
- Errors of `semop`, `waitpid` or `kill` other than those of removed objects.
- In `Cruce`, the log and its semaphore, an interrupt during the clean-up that follows
  a failed call, a SIGINT that reaches the whole group, and a `max_count` below two, which wraps
  around when two are subtracted.
- In `Sessions`, `session_2.c` and `terminal`, which have one process.
- In `Store`, the listings and menus, and the seed that no menu reaches.
- In `Algorithms`, the functions B, D, E and F of `various`, and the printed reports. Their loops
  increment one variable and test another, so that for `n` above one they do not end: where the inner loop of D and of F
  ends, `i` has wrapped around to 0, and the outer loop starts over; B reads a `j` that was never written.
- The components whose status is `not_modelled` in `PROJECT.json`: scripts, SQL,
  grammars and generated parsers, numerical exercises and documents, which have no
  state to speak of; `eda-2` `disk-hash`, which is unfinished; `Library` and
  `Quiniela`, which call the library of Java once for each operation.

## 6. Plan

Done: the three games and their variant, their common specification, the custom semaphore
and its specification, the crossing, the small concurrent programs, the libraries
and the shop, with the theorems above. What is left, in this order:

1. The lists of `eda-1` without recursive operators, and that they are sequences.
2. The fatal exits of `Pist3`, and the interrupts during the clean-ups of
   `Pistolos` and `Cruce`.
