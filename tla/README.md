# Formal model of the AESD driver, server and utilities

This directory models the repository's own programs: the ring of recent
commands, the character driver around it and its load scripts
(`src/aesd-char-driver/`), the multi-threaded socket server on top of the driver
(`src/server/`), the threading and system call examples (`src/examples/`) and
the finder utility (`src/finder-app/`). The modules are TLA+, checked with TLC on small
instances; every safety property and the refinements are also proved with TLAPS,
for every value of the constants.

All paths below are relative to the repository's root without the leading
`src/`; `main.c` is `aesd-char-driver/main.c`.

## 1. Inventory

| component | code | state | operations | modelled by |
|---|---|---|---|---|
| circular buffer | `aesd-char-driver/aesd-circular-buffer.[ch]` | `entry[]`, `in_offs`, `out_offs`, `full` | init, add_entry, find_entry_offset_for_fpos, FOREACH | `CircularBuffer`, `CircularBufferLog`, `RecentCommands` |
| character driver | `aesd-char-driver/main.c`, `aesdchar.h`, `aesd_ioctl.h` | `circ_buf`, `working_entry`, `lock`, one `f_pos` per open file, kernel heap | open, release, read, write, llseek, ioctl, module init and exit | `AesdDevice`, `AesdChar` |
| socket server | `server/aesdsocket.c` | thread list, `file_mutex`, `list_mutex`, `terminate_program`, descriptors, one stack frame per thread | accept loop, `handle_client`, `thread_cleanup`, signal handler, shutdown | `AesdSocket` |
| threading example | `examples/threading/` | one argument block per thread, a mutex they share | start a thread that sleeps, locks, sleeps, unlocks; join and free | `ObtainMutex` |
| system call examples | `examples/systemcalls/` | a child process per call, the descriptors and stdio text it inherits | `do_system`, `do_exec`, `do_exec_redirect` | `SystemCalls` |
| finder utility | `finder-app/writer.c`, `finder.sh`, `finder-test.sh` | files below `/tmp/aeld-data` | write, count files and lines, compare, remove | `FinderTest` |
| load and unload scripts | `aesdchar_load`, `aesdchar_unload`, `aesdchar-start-stop.sh`, `main.c` 250-316 | the name `/dev/aesdchar`, the module's major number | insmod, awk, rm, mknod, chgrp, chmod, rmmod | `DeviceNode` |
| socket set-up, daemonization, signals | `aesdsocket.c` 84-133, 315-416, 443-445 | `server_fd`, `terminate_program`, the address list, descriptors, syslog's lock | main up to and including its loop, daemonize, `signal_handler` | `ServerMain` |
| timer thread | `aesdsocket.c` 135-177 | none | timestamps | no: compiled out by line 42 |
| build scripts, unit tests, CI runner | `finder-app/*.sh`, `student-test/`, `bin/`, `externals/` ... | none of the programs' own | | no: tool chain and third-party code |

### How the components interact

The server's threads reach the driver with `open`, `read`, `write`, `ioctl` and
`close` on `/dev/aesdchar`; every open file is one client of the driver. The
driver keeps commands in the ring, hands it pointers it allocated, and frees the
pointer that `add_entry` returns. Inside the server, the main thread and the
connection threads share the list of `thread_info` blocks (under `list_mutex`),
the process's descriptor table, and the right to write (`file_mutex`); the
signal handler sets `terminate_program` and closes the listening socket; main
cancels and joins the threads.

Before there are clients, `ServerMain` has main set the socket up, perhaps turn
into a daemon, and come to its loop; there it hands over to `AesdSocket`, which
has the connections, and in which a signal is one step and main's end the
shutdown. `ServerMain` has the same loop and the same handler statement by
statement, with one thread for all connections, and says what that one step
leaves out: the handler inside syslog, two handlers at once, a handler in
another thread. `DeviceNode` is about the name under which the server finds the
driver. The examples and the finder are programs of their own.

    DeviceNode (who makes /dev/aesdchar)      ServerMain (set-up, signals)
                                                   |  hands over at the loop
    AesdSocket  --uses-->  AesdDevice  <--implements--  AesdChar  --uses-->  CircularBuffer
                                                                                  ^
                                             RecentCommands <--implements-- CircularBufferLog

### What is hard in each, and what makes it correct

* **Ring.** `in_offs = out_offs` means empty or full. After any number of laps
  the valid entries must be the most recent ones in order, and every pointer
  must come back exactly once. Over the sizes of the entries, the search must
  find the byte of their concatenation.
* **Driver.** Any number of processes at once; a lock paired by hand with
  unlocks on a dozen exits; a working entry shared by all writers; a commit of
  several writes; reads of the ring by the ioctl without the lock; allocation,
  copies, waiting that fail or are interrupted. To its users the driver should
  be an atomic device; every block should have one owner; every call should
  return.
* **Server.** Threads that come, go by themselves and are cancelled, in any
  order with a shutdown; a doubly linked list edited by all; descriptor numbers
  that are closed and handed out again; cancellation points inside a mutex's
  region; an answer read in several calls while others write. The list must be
  the set of live threads, no thread may touch another one's descriptor, an
  answer must be the device's content, and a signal must end the program.
* **Set-up and signals.** A handler that tests, closes and resets `server_fd`
  without a mask, in main or in any thread, on top of another handler, inside
  syslog; a flag tested before a call that blocks; descriptors 0 to 2 that the
  parent left closed. The server must start whole or not at all, a signal must
  end the loop, and no thread may lose a descriptor to a second close.
* **Scripts.** Several commands between finding a device number and giving it a
  name, while a server with O_CREAT opens the name and other drivers take
  numbers. A load that ended well must have made the module's node.
* **Examples and finder.** Blocks that are freed by one of two parties; a mutex
  whose unlock may fail; children that inherit unwritten text and leave by
  `exit`; a writer that ignores `fclose`; a test directory shared by all runs.

`PROJECT.json` lists each hazard at its line with the properties that watch it.

## 2. Modules

**`CircularBuffer`** holds the functions of `aesd-circular-buffer.c` as operators
on a record: `InitBuffer`, `AddEntry` (the composition of `StoreEntry` and
`AdvanceOut`, the order of the writes in the code, so that the driver's model
can stop between them), `Overwritten` (the return value) and
`FindEntryOffsetForFpos`. The number of slots is the constant `MaxWriteOps`
(AESDCHAR_MAX_WRITE_OPERATIONS_SUPPORTED, 10).

**`RecentCommands`** is what the ring promises: a sequence that keeps the last
`Limit` entries and returns the one it drops. **`CircularBufferLog`** puts the
ring in the hands of a caller that follows the contract in the code's comments,
with the history of all entries, and implements `RecentCommands` with the
refinement `cmds <- Window(buffer)`.

**`AesdDevice`** is what the driver promises: the last commands, the
unfinished one, one position per open file; every call takes effect at one
instant or fails and changes nothing.

**`AesdChar`** is `main.c`. A system call is a sequence of steps, `pc[p]` names
the next: `BeginWrite` (kmalloc, copy, memchr, lines 90-118), `TakeLock`,
`WriteAppend` (krealloc, memcpy), `WriteStore`, `WriteAdvance`, `WriteReclaim`
(the commit, lines 141-149), `Unlock`, and so on for the other operations. The
region under the lock is split where somebody without the lock can look (the
ioctl) or where a stolen lock would matter. Every kernel service that can fail
has an action for its failure, enabled by `Faults`. Using or freeing a freed
block sets `ub` and ends the behaviour. `AesdChar` implements `AesdDevice` with
a refinement mapping that counts a command as committed once its newline is
appended (`Settled`, `Commands`, `Partial`). `stolen` is history: an unlock has
released another process's lock. `Sound` says that neither this nor a failed
krealloc has spoiled the device.

**`AesdSocket`** is the server from `listen` on. Its device is an instance of
`AesdDevice` whose processes are the server's open files, so what the driver's
runs and theorems establish of the device is what the server's model assumes. The
descriptor table hands out the lowest free number, as the kernel does; a
variable of a thread keeps its number after `close`, as in the code. The
`thread_info` list has the head, `le_next` and `le_prev` of `sys/queue.h`
(an external header, modelled after the use made of it), and `ListInsertHead`
and `ListRemove` change exactly the pointers the macros change. A cancelled
thread acts on it at the next POSIX cancellation point, which runs
`thread_cleanup`, unless the handler has been popped already
(`CancelledInCleanup`). A chunk is what one `recv` returns: bytes, or a seek
command, well formed or not. Every call that may fail has its failure, enabled by
`Faults`; a read that fails ends an answer as the file's end does, without a word
(lines 250, 288). `undisturbed[c]` is history: since which call of
thread `c` (its open for reading, its write, or neither) the device has dropped
no command.

**`ServerMain`** is the server's main thread and its signals. `at` is main's
place, named after the call it is about to make; `stack[x]` are the handlers on
top of main or of the thread, `handler[s]` the place inside each. syslog's lock
is a variable: `MainLogs` and `MainLogged` are the beginning and end of a
syslog call of main, so that a signal can come between. `CloseServer` closes
whatever the number in `server_fd` is by then, and `stolen` notes a thread's
descriptor lost so. The parent's part of `daemonize` is only its exit; the
descriptor syslog itself opens is left out.

**`DeviceNode`** is the life of `/dev/aesdchar`: one action per command of the two
scripts that reads or changes something (`Insert`, `ReadMajor`, `RemoveNode`,
`MakeNode`, `SetAccess`; `RemoveModule`, `RemoveStale`), the module's number,
the server's open with O_CREAT, and other drivers. chgrp and chmod, which only
differ in the bits they set, are one action. `overlapped` and `settled` are
history: which runs were under way with another, and the last result that
nothing has happened to.

**`ObtainMutex`** is the threading example with its joiner, **`SystemCalls`** the
three functions and their children, from fork through open, dup2 and exec to
exit and waitpid. A file's content is one value, whose output it is, since each
descriptor writes from the file's beginning. **`FinderTest`** is `finder-test.sh` with
the writer and `finder.sh` inside it, two or more runs on one file system.

**`MCCircularBufferLog`, `MCAesdChar`, `MCAesdSocket`, `MCPrograms`** give the
constants values for TLC. `MCPrograms` holds the last five modules: its initial
states choose one program, and the variables of the others stand still (the
programs share no state), so its states are the sum of the five and each
property is checked over all behaviours of its program.

The theorems are in modules of their own, each on top of the one it needs:

    RingLemmas                      CircularBuffer: sums, scans and walks over the ring
      CircularBufferProofs          CircularBufferLog: the ring and its caller
      AesdCharProofs                AesdChar: the lock
        AesdMemoryProofs            types, ownership of blocks, stored bytes
          AesdDeviceProofs          the steps of AesdDevice, the seek
    AesdSocketProofs                AesdSocket: mutexes and the thread list
      AesdAnswerProofs              descriptors, answers
    ProgramProofs                   ObtainMutex, SystemCalls, DeviceNode, FinderTest, ServerMain

Definitions whose name begins with `Bug` are seeded faults: each is a
plausible slip in the definition it is named after, used to see that a
property notices. They are no part of any specification.

## 3. What the runs check

| run | instance | question | result |
|---|---|---|---|
| `ring` | 3 slots, 4 blocks, sizes 0-2, 7 adds | Is the ring the list of recent commands, slot by slot, pointer by pointer, byte by byte? | holds |
| `driver_sound` | 2 slots, 2 processes, 4 calls, faults that leave the driver intact | Is the driver an atomic device that leaks no command and seeks exactly? | holds |
| `driver_faults` | same, 3 calls, every fault, a negative command index | Which promises survive every failure? | lock discipline until a lock is stolen, ownership and atomicity until the device is spoiled, every call returns unless a seek to a negative index keeps the lock |
| `driver_unlock` | copy from user fails | "Mutex to protect accesses" | violated, `main.c:152` |
| `driver_krealloc` | krealloc fails | no freed block is used | violated, `main.c:129` |
| `driver_seek` | command number behind the last | the seek names a stored command | violated, `main.c:215` |
| `server_threads` | 2 clients, 1 chunk each (line, piece or seek), a device for 2 commands that is empty or has one, every fault of a thread's calls, failing reads included, shutdown at any moment | mutexes, list, descriptors, leaks, answers | holds |
| `server_live` | 2 clients, one with a line, the other with a line and a byte behind it or a seek that cannot be read; fair scheduler | is every line answered, does shutdown end? | holds |
| `server_free` | 2 clients | "The cleanup handler will remove the thread info and free memory" | violated, `aesdsocket.c:462` |
| `server_reuse` | 2 chunks per client | "Open file for appending" | violated, `aesdsocket.c:277` |
| `server_evict` | 2 lines, and a device of two with one command in it | "send the file content to the client" | violated, `aesdsocket.c:288` |
| `programs` | five programs, one at a time: 3 threads, 2 commands, 2 finder runs, 3 script runs, 2 signals; every fault | what do the examples, the finder, the scripts and the server's main thread keep? | holds |

`AnswerIsTheFile` (in `server_threads`) has two halves. As long as no command was
dropped since the thread's open for reading, what its client has been sent is a
prefix of the device's content, at every moment of the answer and however it
ends. If none was dropped since the thread's write, an answer that comes to the
file's end has the client's own line in it. An answer that a failing read or send
cuts short need not: the loop ends on any result that is not positive, the thread
closes the file and waits for the next chunk, and the client cannot tell.
Each exception of the driver's properties is one of the disagreements below.

What `programs` shows, program by program, with the exceptions the properties
spell out because the code allows them:

* *threading*: `HeldByOne`, `BlockHasOneOwner`, and under fairness `ThreadsReturn`,
  unless an unlock has failed: its thread reports failure and leaves the mutex
  locked for ever.
* *systemcalls*: `TrueMeansDone`, through every failure between fork and exec;
  `OutputIsTheCommands`, for a file no other call was given; `TextAppearsOnce`,
  unless a child of `fork` could not become its command: `exit` then writes the
  text it inherited, to the terminal or into the output file.
* *finder*: `VerdictIsDeserved` for a run that no other run disturbed. A string lost
  in `fclose` is noticed by the count of lines, though the writer says 0.
* *node*: `NameIsTheDevice` after a run that ended well and that no other run
  overlapped, whatever the server and other drivers did meanwhile;
  `NoStaleNode` outside the window between rmmod and rm, for runs that do not overlap.
* *server*: `StartsWholeOrNotAtAll`; `ThreadsKeepTheirFiles` for one signal handled by
  main (two handlers, or one beside main, may close the number twice);
  `SignalEndsAccepting`, unless a handler interrupts its own thread inside
  syslog and waits for ever, or runs in a connection's thread while main waits
  in accept, which then nothing wakes but the next client.

Each exception is reached in these instances.

### The six disagreements

1. *An early failure of a write unlocks a lock it does not hold.* kmalloc,
   copy_from_user and the interrupted wait all jump to `out:`, which unlocks.
   A second process enters beside the owner.
2. *A failed krealloc leaves a dangling pointer.* The old block is freed, its
   pointer and size stay in `working_entry`; the next write or rmmod uses it.
3. *The ioctl's bounds check never fails.* The index is reduced modulo the
   number of slots first; a command behind the last wraps around.
4. *Shutdown frees each block twice.* The cancelled thread runs
   `thread_cleanup`, which removes and frees; main does both again.
5. *A connection works for one chunk.* `file_fd` is closed after the first
   chunk, its number used for the second.
6. *An answer may skip a line.* `f_pos` counts from the oldest kept byte; an
   eviction between two reads shifts it by a command.

### Bounds, and why they are enough

* Slots: 3 in `ring`, 2 in the driver, 10 in the code. The ring's code does not
  depend on the number but through the wrap; three slots have a first, a
  middle and a last, and 7 adds are more than two laps. The theorems on the ring
  hold for every number. With two slots the third command of the driver evicts.
* Processes and clients: two. Interference in the driver and the server is
  between a process and whoever comes between two of its steps.
* Calls: `MaxCalls` system calls in all, beside open, release, insmod and rmmod.
  Four fill both slots, evict and read, or write, evict, seek and read; two
  commits and an ioctl fit.
* `MaxChunks = 1`: the code serves one chunk per connection; what happens on the
  second is what `server_reuse` shows, and behind it nothing is claimed.
* Stored commands: the device of the server's runs keeps two. `server_threads` starts
  with none or one: with none the content grows while an answer is read in several
  reads and nothing is evicted; with one the second line evicts it, before, between
  or behind the reads of the first, and all values of `undisturbed` occur.
  `server_evict` starts with one, so that two lines evict it.
* The passing runs have 3,300 distinct states (`ring`, which is sequential), about
  90,000 to 150,000 (the driver, `server_live`, `programs`) and 1.5 million
  (`server_threads`).
* `IntBits = 4` for the 32 bits of `int`. `driver_faults` has the greatest `write_cmd`
  among the ioctl's arguments: as an `int` it is -1, the index may become
  negative, and the loop of line 225 then never ends, with the lock held.
  `EveryCallReturns` names this as the one exception (`SeeksForEver`). The other
  runs enumerate arguments that the conversion does not change.
* `programs`: three threads, so that two wait for one mutex; two calls, two
  output files, so that files are shared and not; two finder runs of two files,
  one on the whole directory and one below it, which disturb each other; three
  script runs, so that a load, an unload and a load happen, overlapping or not,
  with two major numbers, one of which another driver may take; `MaxFd = 4`: the
  three standard descriptors, the socket and one for a thread, which takes the
  socket's number after a close; each signal comes once; the parent has left
  all standard descriptors open or closed 0.
* Payloads: a piece without newline and a newline with a byte behind it (driver);
  a line, a piece, a line with a byte behind it, a good and a bad seek (server):
  all of them in `server_free` and `server_reuse`, the line, the piece and the good seek
  in `server_threads`, the others beside a line in `server_live`.
* Symmetry of processes, clients and blocks is used in safety runs only.
  `CHECK_DEADLOCK FALSE` stands where the bound on the adds or calls is reached with
  nothing left to do, where the process has ended, or where behaviours stop at
  undefined behaviour.

### Fairness

* Driver: weak fairness for a process inside a system call (the kernel
  schedules it), strong fairness for taking the lock (a kernel mutex hands over
  to its waiters). No fairness for beginning a call nor for a signal that
  interrupts a wait: `EveryCallReturns` may not depend on a signal coming.
* Server: weak fairness for each thread that can run and for main. None for the
  clients, who may stay silent for ever, nor for the mutexes; with one chunk per
  client no thread can be overtaken for ever.

* Threading: weak fairness for a thread that was started (not for a call that
  fails, nor for being called or joined). A mutex is taken at most once by each
  thread, so no thread can be overtaken for ever.
* Set-up and signals: weak fairness for main, the thread's end of a syslog call and
  each handler; strong fairness for entering syslog, whose lock hands over to
  its waiters. None for clients, nor for the thread's beginning to log.

`LinesAreAnswered` is claimed until a shutdown begins. `ShutdownCompletes` is
claimed as far as the first use of a freed block: with disagreement 4 in the
code, main meets one after its first join of a thread that cleaned up after
itself, and what a use after free does is undefined.

## 4. What is proved

Every safety property of a passing run and both refinements are theorems,
for any number of slots, processes, blocks, clients, calls, runs, files and
signals, any payloads, and any set of failing calls, under the assumptions
named in the modules: `MaxWriteOpsAssumption`, `CallerAssumption`,
`DriverAssumption`, `ServerAssumption`, `ThreadingAssumption`,
`ExecAssumption`, `FinderAssumption`, `NodeAssumption`, `SetupAssumption`.
They say that special values differ from others, that sizes and limits are
numbers, and that processes, clients, callers and signals are finitely many.
Six theorems assume more, which is stated in them:

| theorem | assumes | because |
|---|---|---|
| `ExclusionWithoutEarlyFailures` | none of the three early failures of `aesd_write` | they unlock a lock that is not held: disagreement 1 |
| `NoMisuseWithoutSpoiling`, `DriverImplementsDevice` | the same, and no failure of krealloc | disagreements 1 and 2 |
| `UndisturbedSeekIsExact` | an `int` holds the number of every slot | else `write_cmd` is not the number the user gave |
| `OneChunkKeepsToItsOwn` | at most one chunk per connection | disagreement 5 |
| `OneLineIsAnsweredExactly` | the same, chunks are sequences of bytes, a line bears its client's name before its first newline | else one client's line cannot be told from another's |

### Ring (`CircularBufferProofs`)

* `TypeCorrect`, `HistoryInSlots`, `WindowCorrect`, `PointersHandedBack` and
  `RingImplementsRecentCommands`. The inductive invariant is `SlotsHoldHistory`: every
  slot is said to hold one particular entry of the history, by its place
  relative to `in_offs`. `WindowIsRecentHistory` alone is not inductive: it does not
  say what an overwritten slot held, nor that `full` comes only with a lap behind
  it. `SlotsGiveWindow` derives the window from it, `RecentHistoryStep` says what one
  more entry does to the history's end, and the refinement combines both.
* `SearchCorrect`: the search finds the byte at each offset of the concatenation,
  and nothing behind it. The sum of the sizes the scan has passed is compared
  with the length of the commands laid end to end, slot by slot.
* Facts about `%` are kept in a few lemmas: `WrapSuccessor`, `WrapWalk`, `SlotInIndex`, `PlacesStay`.

Induction over numbers, which the library states with a predicate as
parameter, is stated in `RingLemmas` for a set (`NatSetInduction`): a set that has
0 and the successors of its members has every number. The sums of the community
modules and `FlattenSeq` are functions chosen by a recursive equation, so that a
function satisfying it exists comes first (`SumExists`, `FlattenExists`).

### Driver (`AesdCharProofs`, `AesdMemoryProofs`, `AesdDeviceProofs`)

* *Lock.* `ControlTypeCorrect` and `LockDisciplineHolds`. The inductive invariant
  `LockInv` adds to the discipline that a process in the driver has the device
  open and the module is loaded (so rmmod and insmod never reset the lock under
  somebody). `ExclusionWithoutEarlyFailures` then says that exclusion is lost in no
  other way than the run `driver_unlock` shows.
* *Memory.* `DriverTypeCorrect`, `OneOwnerEach`, `NothingIsLeftBehind`, `WholeCommands`,
  `MisuseNeedsSpoiling` and `NoMisuseWithoutSpoiling` come from one invariant,
  `DriverInv`. Its heart, `MemoryOK(b, w, h, stage, leaving)`, relates ring, working
  entry and heap at each stage of a commit: between `w_store` and `w_reclaim` the
  newest slot and the working entry share a block, the overwritten one is on its
  way out, and before `w_advance` the ring has its shape only once `AdvanceOut` is
  applied. `Ownership` says nothing of stages and is not inductive without it.
  A reader under the lock is at the entry its search found
  (`ReadersAtEntries`), a freed pointer that a failed krealloc has left is not being
  committed (`FreedIsNotStored`), and `ub` needs a spoiled device (`SpoiledFirst`): the second
  half of what the two violated runs show.
* *Refinement.* `StepIsDeviceStep` has one lemma per kind of step: most are
  stutters (`HiddenSteps`, `FailingSteps`, `CommitSteps`), the append that brings the
  newline is `AesdDevice`'s write (`AppendStep`), the copy to user space its read
  (`CopyStep`: the bytes behind the entry the search found are those of the
  concatenation from `f_pos` on), llseek and ioctl its seeks. A commit's own
  steps are invisible because `Settled` is the ring as it will be. From it follow
  `DriverStepsAreDeviceSteps`, for every fault, until the device is spoiled, and
  `DriverImplementsDevice`, the refinement itself.
* *Seek.* `UndisturbedSeekIsExact`: `SeeksStand` is what a seek has read without the
  lock and still holds while no commit has come between, with the one exception
  it needs: between `w_store` and `w_advance` a size that was checked may belong
  to the slot that is being overwritten.

### Server (`AesdSocketProofs`, `AesdAnswerProofs`)

* *Mutexes.* `MutexDisciplineHolds`: a thread in the region of `file_mutex` owns it, an
  owner outside is a cancelled thread that has left it behind, and main owns
  `list_mutex` exactly in the shutdown loop. `OneWriter`: two threads are never in the
  region of `file_mutex` at once. The inductive invariant `MutexInv` adds that the
  connection main is about to start a thread for has none yet: else a dead
  owner could be revived outside the region.
* *List.* `ListIsTheThreads`: `ListInv` says that there is a numbering `L` of the members
  along which head, `le_next` and `le_prev` lead, and that the members are the live
  blocks, without one main has not inserted yet or one that is out of the
  list and not freed yet. Insertion and removal build the next numbering. `ControlInv` has
  where main and the threads can be at the same time.
* *Descriptors.* `DescInv` says of each value a connection may have in the
  descriptor table (its socket, its file for appending, its file for reading)
  at which number it can be and at which places of the thread, and what has
  been given back by when. No value is in two places, so by counting there is
  always a free number (`RoomForOneMore`), which is what the type of the table
  rests on (`ServerTypeCorrect`). `EverythingIsClosed` holds with any number of chunks;
  `OneChunkKeepsToItsOwn` with one, where a thread's variables still mean what they
  meant when it got them (`OwnBy`).
* *Answers.* `OneLineIsAnsweredExactly`: while no command is dropped, what a client
  was sent and what its thread has read and not sent (`Pending`: about to be sent, or
  left behind by a send that failed) is what lies in front of the thread's
  position (`AnswerOf`), across all the reads of its loop and all writes of others,
  which only make the content longer (`WriteGrows`). So what was sent is a prefix
  (`FrontIsPrefix`), whichever call fails. The thread's own line has been in the
  content since its write, and a read that returns nothing without an error has the
  position at the content's end (`ReadsEnd`; a failing read, `ReadFails`, has not).

### The other programs (`ProgramProofs`)

* *Threading.* `ThreadingTyped`, `MutexHeldByOne`, `BlocksHaveOneOwner`; both properties are
  inductive as they stand, beside the types. `MutualExclusion` follows.
* *System calls.* `ExecInv`: what a caller, its child, its file and the text that the
  child inherited can be at the same time; output that a command has written stays
  unless another call has the file; each child adds the text at most once, so
  that a terminal shows it no oftener than there are processes (`Printings`).
  `ResultsAreDeserved`, `RedirectedOutput`, `TextIsNotDoubled`.
* *Device node.* `NodeTyped`, `NameLeadsToTheDevice`, `NodesAreFresh`. Neither property
  is inductive: `NodeInv` adds what a run that nobody overlaps knows at each of its
  commands (it is the only one under way, the number it read is the module's, the
  node it made is the module's, what it removed has not come back) and that a result
  stands only while no run is under way.
* *Finder.* `VerdictsAreDeserved`: `RunSoFar` says of an undisturbed run which files
  its rounds so far have left, whether all strings reached them, and that the
  two counts are the numbers of such files, by cardinality: a string that
  was lost makes the count of lines smaller by at least one.
* *Server's main thread.* `ServerStartsWhole` and `DescriptorsAreKept`, from `ServerTyped`
  (where main, the handlers on its stack and syslog's lock are; descriptor 3 is free
  until main has its socket) and `ServerHolds` (who has the address list and
  the socket at each place; after at most one signal, handled by main, the
  number in `server_fd` is the socket's except between the handler's close and its
  assignment).
* `ProgramsTyped` puts the types together for `MCPrograms`.

### What is only model-checked

What holds under fairness: `EveryCallReturns`, `LinesAreAnswered`,
`ShutdownCompletes`, `ThreadsReturn` and `SignalEndsAccepting`. Liveness from WF and SF,
and with it ENABLED, is beyond the prover. That the properties violated by the
code are violated is shown by their runs.


## 5. What is not modelled

* Logging, except as a cancellation point under a mutex and for syslog's lock in
  `ServerMain`; addresses and ports; the descriptor that syslog opens.
* Signals other than the two handled: a send to a vanished client raises SIGPIPE
  and ends the process. In `AesdSocket` a signal is one step of main's; its
  finer ways are `ServerMain`'s.
* The buffer of a `recv`: its terminator at index 1024 is one byte behind it.
* Partial sends, partial copies from user space.
* The timer thread (compiled out by line 42), `writer.sh` (nothing calls it),
  `aesdsocket-start-stop.sh` (it calls an external program and nothing else).
* How long the threads of the example sleep. `threading.h` line 27 speaks of
  milliseconds and `threading.c` line 20 gives the number to `usleep`, which
  counts microseconds; no property here depends on it.
* Failures of `rm`, `find`, `grep` and `wc`, and the verdict file
  `/tmp/assignment4-result.txt`.
* Build and emulation scripts, unit tests of constants (the test submodule is
  empty), and everything vendored: `bin/`, `externals/`, `_diag/` and the scripts
  of the CI runner are by far most of the tree's lines and none of its programs.

## 6. Plan

Done: every program of the repository, their runs, and the theorems above.

What is left:

1. Theorems for the part of liveness that is safety: that a thread of the server
   or a call in the driver that has not returned is never without a step somebody
   can take (no deadlock), except where the disagreements lock a mutex for ever.
2. `MaxChunks > 1` for those halves of `OwnDescriptors` that survive it: a
   thread's own socket is its own until it closes it, as long as no other
   thread has reused a number.
3. `AesdSocket` over `AesdChar` in place of `AesdDevice` for one small instance, if it
   stays in TLC's reach.
