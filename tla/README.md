# A TLA+ model of the AESD assignments

The repository holds a Linux character device (`aesd-char-driver/`), a socket
server that writes to it or to a file (`server/`), and smaller exercises
(`examples/`, `finder-app/`). This directory models them, checks the models
with TLC and proves part of what is checked with TLAPS. Paths are relative to
the root of the repository. `PROJECT.json` says for every definition which
lines it models, and lists the runs, the hazards and the theorems.

## 1. The system

| part | state it keeps | operations | what makes it correct |
|---|---|---|---|
| **circular buffer** `aesd-char-driver/aesd-circular-buffer.{c,h}` | ten slots (pointer, size), `in_offs`, `out_offs`, `full` | init, add an entry, find the entry at an offset, total size | it is a bounded log: order, lookup, memory handed back once |
| **character device** `main.c`, `aesdchar.h`, `aesd_ioctl.h` | the buffer, the cached (partial) entry, a mutex; per open file its position | module load and unload; open, release, read, write, llseek, ioctl | one thread at a time in the buffer; no leak, double free or dangling pointer; reads give what was written; seeks land where they should; calls return |
| **socket server** `server/aesdsocket.c` | the descriptor table, the globals `datafd`, `sockfd`, `signal_exit`, a mutex, `thread_list`; per connection a buffer | set-up, accept loop, `handle_connection`, `timestamp_handler`, `handle_signal`, `cleanup`; restart | complete answers, nothing received is lost, descriptors and threads accounted for, an orderly end |
| **list macros** `server/queue.h` | the links of `thread_list` | `SLIST_INSERT_HEAD`, `_REMOVE`, `_REMOVE_HEAD`, `_FOREACH_SAFE` | (part of the server) |
| **start-stop script** `server/aesdsocket-start-stop.sh` | none | starts with `-d`, stops with SIGTERM | (part of the server) |
| **threading example** `examples/threading/` | a caller's mutex, one `thread_data` per thread | start a thread that waits, obtains, holds, releases | memory has one owner; starting does not block; started threads complete |
| **systemcalls example** `examples/systemcalls/` | child processes, the descriptor table and stdio buffer they are forked with | `do_system`, `do_exec`, `do_exec_redirect` | true only if the command ran and returned 0; the output file is the command's stdout and is closed |
| **writer** `finder-app/writer.c` | its file | check arguments, open, write, close | exit 0 only if it has written |
| scripts, CI, unit-test exercises | none | | |

How they interact. User threads enter the driver through the VFS, which
copies a file's position in and out around `read` and `write` without a lock;
the driver locks the buffer, whose functions do not lock themselves. The
server's threads share the process: the descriptor table, `datafd`, the list
and, in the file build, a mutex around the append. In the device build (the
default of `server/Makefile`) the server's `datafd` is `/dev/aesdchar`, and an
`AESDCHAR_IOCSEEKTO:x,y` line becomes the driver's ioctl. A program that uses
the examples shares its process between them: `fork` copies the descriptors and
the buffer of stdout that other threads are using.

What is hard: interleavings at the driver's interruptible mutex; memory that
`krealloc` moves under a partial command; a buffer that wraps; connections and
the timestamp thread sharing one `datafd`; a signal at any point of the accept
loop; `cleanup()` entered by several threads, with or without the mutex; a
server that is killed and started again on the old file; a device that others
write to while the server answers; a fork while other threads open and print.
The list, each at its line, is `hazards` in `PROJECT.json`.

## 2. Modules

    CircularBufferOps      the C functions as operators on the struct
      CircularBuffer       the buffer as a state machine of adds
        BoundedLog         (abstract) what the buffer promises
      AesdCharDriver       the driver: threads in its file operations
        AesdCharProperties what has to hold of it
        AesdStream         (abstract) what /dev/aesdchar promises
    AesdSocket             the server
      AesdSocketProperties what has to hold of it
        ServerOnDevice     the device build over AesdCharDriver
    Writer                 writer.c as the steps of a process
      SystemCalls          do_system, do_exec, do_exec_redirect and their children
    Threading              start_thread_obtaining_mutex and threadfunc
      ExamplePrograms      a program that uses both, and what has to hold of it
    MCCircularBuffer, MCAesdChar, MCAesdSocket, MCServerOnDevice,
    MCExamplePrograms      instances for TLC

The proofs are in modules of their own:

    InductionLemmas        least elements, recursive functions, concatenations
      CircularBufferLemmas the functions of CircularBufferOps
        CircularBufferProofs  the buffer
    AesdCharProofs         the driver: mutex, memory, types, seeks, and that it
                           implements AesdStream (with CircularBufferLemmas)
    AesdSocketProofs       the server's threads, list, descriptors and types
      AesdAnswerProofs     the server when clients come one at a time
        DeviceProofs       the device build over the driver (with AesdCharProofs)
    ExampleProofs          the examples

### Circular buffer

`Buffer` is the struct, with `uint8_t` offsets as numbers; `MaxWriteOps`
stands for `AESDCHAR_MAX_WRITE_OPERATIONS_SUPPORTED`. `AddEntry`,
`ReplacedBuffer`, `FindEntry`, `TotalSize` are the four functions; the loops
are sums and choices over `Visited`, the order in which the loop sees the
slots. `CircularBuffer` adds entries whose memory the caller keeps track of
(`held`). `LogOf` is the refinement mapping: the used slots from `out_offs` on.

### Character device

A system call is a sequence of steps of its thread, one per point where
another thread can come in:

| place (`pc`) | code | next |
|---|---|---|
| `lock` | `mutex_lock_interruptible` | `Lock`, `Interrupted` |
| `copy_out` | `aesd_read`, 79-93 | `CopyOut`, `CopyOutFails` |
| `alloc`, `copy_in`, `store` | `aesd_write`, 126-173 | `Alloc`, `AllocFails`, `WriteNothing`, `CopyIn`, `AddCommand`, `CachePartial` |
| `size`, `seek` | `aesd_llseek` | `EntriesSize`, `FixedSizeLlseek` |
| `adjust` | `aesd_adjust_file_offset` | `AdjustOffset`, `AdjustRefused` |
| `unlock`, `return` | the exit paths; the VFS storing the position | `Unlock`, `Return` |

`heap` maps each live address to its bytes, so a use of freed memory is a
state TLC cannot evaluate and a leak is an address nothing points to. `Alloc`
may move the partial command, `CopyIn` may copy a part, and `Interrupted` goes
where the code's `goto` goes: past the unlock in `aesd_llseek`, to the unlock
in the others. `Unload` needs all files closed, as the kernel does.
Load failures (no device number, `cdev_add`) leave the module unloaded and are
no action. Bytes are `a` and the newline; the growth of a partial command is cut by
`MaxPartial` in the guard of `Call`.

`AesdStream` is the abstract device: commands, a partial command, and per
thread the answer it is about to return. `ImplementsStream` maps the slots to
`commands`, the cached bytes to `partial` and the frames to `reply`; failing
allocations map to stuttering and short copies to shorter writes.

### Socket server

Threads are the connections (`Conn`), `Main` and `Stamper`. What one `recv`
returns is a *chunk* of kind text, line or seekto, so positions count chunks
and a read gives one chunk (the code's buffer holds 1024 bytes). The
descriptor table is explicit: `open` and `accept` take the lowest free number,
`close` frees whatever the number stands for now, a `recv` that waits holds on
to its socket (`on`). `datafd` is the one global of the code. `AesdSocket`
works on the data file: all of it is readable, and `O_APPEND` moves the writer's
position to the end.

| actions | code |
|---|---|
| `Start`, `CreateSocket`, `Bind`, `ListenOn`, `CreateStamper` | `daemonize`, 102-136, and `main` up to its loop, 265-326 |
| `Open` ... `WorkDone` | `handle_connection`, 138-235, in the order of its statements |
| `LockToStamp`, `Stamp`, `Wake` | `timestamp_handler`, 237-262 |
| `Accept`, `Create`, `Insert`, `Scan`, `Join`, `RemoveJoined` | the loop in `main`, 329-373 |
| `Signal` | `handle_signal`, on the main thread, which the kernel prefers |
| `TestList`, `TakeFirst`, `RemoveHead`, `RemoveHeadCrashes` | `cleanup`, 62-69: each macro is a step, so that `main` and other cleanups come in between |
| `JoinThread`, `JoinFails`, `Exit` | `cleanup`, 70-93, in whatever thread calls it |
| `Restart` | the start-stop script: a new process, on the data file the last one left |

`pthread_join` fails for the caller itself, for a thread that is joining
the caller and for one that another thread is joining; for a thread that has been
joined before it fails or crashes. A step that uses a `thread_info_t` after it was freed
finds it as it was or ends the process (`AfterUseOf`; a freed `work_done` holds
anything), and a macro that meets a null pointer ends it.
Writing to a socket whose client is gone, or to the listening socket, may end
the process (SIGPIPE). `Failures` names the calls that may fail, `SignalAt`
the places of `main` where a signal may come. A process ends by `exit`, by a
signal before the handlers are set, or by SIGPIPE; `Restart` then starts the next
one (`MaxStarts`) with everything reset but the file. Connections of the old
process are "gone".

Constants that restrict the environment, and where: `Overlap = FALSE` (a
client comes after the previous connection's thread has finished),
`StampAnytime = FALSE` (no timestamp falls into an answer), `Patient = TRUE`
(a client hangs up only between answers). The passing runs with answers use
the first two because without them the answers are wrong (section 5).

### The server on the device

`ServerOnDevice` replaces the file by `AesdCharDriver`, with a struct file per
`open`: `EnterDriver` is the system call of `handle_connection` at its place
(`write`, `read`, `ioctl`), the driver's own steps follow, and `LeaveDriver`
takes the return value where the code does, to `cleanup` if it is negative. A
text is one byte, a line a byte and a newline, a read gives up to `BufferSize`
bytes, a seek command any pair of `SeekTo`, refused ones included. Another
process (`Outsider`) opens the device, writes a line and closes it at any
point, as often as `MaxOutside` allows, so that commands are added and dropped under
an answer; what it writes is always the same complete line. The module is
loaded before the server is set up and stays loaded; the device is followed
until the server has ended.

History variables: `written` counts what a connection's writes have reported,
`asked` is the seek its answer belongs to, and `dropped` says that the device
has dropped a command since the connection opened it. Positions count from the
oldest command, so after a drop an answer may skip bytes or be empty: that is
what `AnswersReachEnd` and `AnswersSeek` exempt, and only that.

### The examples

`SystemCalls` has one step per call that another thread can come between:
`open`, `fflush`, `fork`, `waitpid`, `close`. The child is a process of its own
with the table and the stdio buffer of the moment of the fork; its steps are
`Redirect` (`dup2` and `close`), `Exec` or `ExecFails`, the steps of `Writer`,
and `Killed`. `system` forks a shell, which does not inherit the buffer. An
interrupted `waitpid` leaves `status` uninitialized, so the result is any
(`WaitInterrupted`); a failing `open` of the output aborts the program.
`Threading` has the caller's steps and the thread's; a sleep takes any time.
`ExamplePrograms` lets the same callers do both: `ERROR_LOG` prints to the buffer
that `fork` copies, callers lock and unlock the mutex that the threads want, and
joiners free the `thread_data`.

## 3. Runs

| run | what it asks | instance | states |
|---|---|---|---|
| `circular_buffer` | offsets, lookup, total size, memory, bounded log | 3 slots, 4 addresses | 2 713 |
| `chardriver_stream` | heap ownership, stream, unload | 2 threads on one file, 2 slots, 3 addresses | 985 472 |
| `chardriver_seek` | mutual exclusion and where seeks end, with signals in `llseek` | the same, lseek and ioctl added | 1 334 393 |
| `chardriver_returns` | every call returns (fair) | the same, 1 slot, 2 addresses | 148 869 |
| `server_device` | answers, seeks, what the device keeps, descriptors | 2 clients one at a time, 2 chunks each, 1 line from elsewhere; 2 slots, 3 addresses; the allocation of a write may fail | 1 191 044 |
| `server_file` | answers, nothing lost, reaping, exit and restart; liveness (fair) | 2 clients one at a time, 2 chunks, 1 timestamp, a signal in accept, 2 starts | 981 583 |
| `server_overlap` | types, `thread_list` | 2 overlapping clients, every failure, set-up included, signals anywhere but at `insert` | 2 870 922 |
| `examples` | results, descriptors, stdout, memory; liveness (fair) | 2 callers, 2 calls, 2 threads to start, every failure | 310 894 |
| `chardriver_signals` | *violated*: `MutualExclusion` when signals interrupt any operation | 2 threads | |
| `chardriver_wrapped_seek` | *violated*: the ioctl finds the command after a wrap | 1 thread | |
| `server_interleaved` | *violated*: answers of overlapping connections | 2 clients, 1 line each | |
| `server_stuck` | *violated*: shutdown after a failed write (fair) | 2 clients, 1 line each | |

**Bounds.** Three slots let the buffer fill, wrap and wrap again; for the
driver two are enough, since wrapping needs only a full buffer and the
positions an unequal pair of sizes (one and two bytes). Three addresses are two
slots and the partial command; with a free slot `krealloc` can move. Two
threads are enough for every race the mutex has to prevent: a holder and
another. `MaxPartial` bounds a command to two or three bytes, so that it can
be written at once or be put together from pieces. In the server two
connections give every pair of threads, and each descriptor hazard that needs
two; the ones that need a third (a write that reaches another client's socket)
are in the model and not reached in these runs. `MaxChunks = 2` gives a text
followed by the line that completes it, and a second answer on a connection.
In `server_device` the third line on two slots drops a command, during an answer
or between two; a buffer of 4 bytes makes an answer take one or two reads; the
seeks are to the second and third byte of the second command: one is refused
only if there is no such command, the other unless it was put together from a text
and a line. Two starts are enough for what one process leaves the next. In
`examples` two calls in all are two that overlap or two in a row, and
two started threads contend for the mutex.

**Deadlock** is checked except in `server_overlap` and the two violated runs of the
server, where it really can stop (section 5). In the other
runs `Rest` names the states that may last: the process is gone, or waits in
accept with no client left; a program of the examples makes no call.

**Fairness.** Driver: a thread in a call keeps being scheduled (`WF` on
`Proceed`) and the kernel's mutex serves its waiters in turn (`SF` on `Lock`).
Server: the scheduler runs every thread (`WF` per thread). Clients need not
come, send or close; signals need not come; no failure has to happen.
Examples: of a call and the process it has forked one keeps running (`WF`),
and a started thread is scheduled and not kept from a mutex that is free again
and again (`SF`); the program need not call, lock, unlock or join, and
`ThreadsComplete` says itself that a caller must not keep the mutex.

## 4. Proofs

Each theorem says that the specification implies the property always, for
every value of the constants that the assumptions and hypotheses below allow.

| module | theorem | property | under |
|---|---|---|---|
| `CircularBufferProofs` | `TypeCorrect` | `TypeOK` | |
| | `OffsetsConsistent` | `OffsetsAgree` | |
| | `MemoryConsistent` | `HeldIsStored` | |
| | `SearchLocates` | `FindLocatesByte` | |
| | `TotalReadable` | `TotalSizeIsReadable` | |
| | `LogImplemented` | `ImplementsLog` | |
| `AesdCharProofs` | `OneHolder` | `MutualExclusion` | no foreign unlock |
| | `DriverTypes` | `TypeOK` | signals |
| | `MemoryHasOneOwner` | `HeapIsOwned` | signals |
| | `UnloadLosesPartial` | `UnloadFreesSlots` (an action property) | signals |
| | `SeekEndsInside` | `SeekStaysInside` (an action property) | signals |
| | `SeekReachesCommand` | `SeekFindsCommand` (an action property) | signals |
| | `StreamImplemented` | `ImplementsStream` | signals |
| `AesdSocketProofs` | `NothingListedIsFreed` | `ThreadInfoIsLive` | |
| | `NoThreadIsLost` | `ThreadsAccounted` | no signal at `insert` |
| | `WalkReapsThreads` | `FinishedThreadsReaped` | one at a time, while only `main` is in `cleanup` |
| | `ServerTypes` | `TypeOK` | |
| `AesdAnswerProofs` | `TableComesBack` | `DescriptorsBalanced` | sequential |
| | `ExitJoinsAll` | `ExitJoinsWorkers` | sequential |
| | `ExitDeletesData` | `ExitForgetsData` | sequential, file build |
| | `ReceivedGetsStored` | `ReceivedIsStored` | sequential |
| | `OnlyAnswersSent` | `ClientsGetAnswers` (an action property) | sequential |
| | `AnswersAreComplete` | `RepliesComplete` (an action property) | sequential, file build, no stamp |
| `DeviceProofs` | `ServerUsesDriver` | the driver's `Spec` | one at a time, device build |
| | `ServerUsesStream` | `ImplementsStream` of that driver | one at a time, device build |
| | `DescriptorsComeBack` | `DescriptorsBalanced` | one at a time, device build |
| | `DeviceHasReceived` | `DeviceKeepsReceived` | one at a time, device build |
| | `AnswersComplete` | `AnswersReachEnd` (an action property) | one at a time, device build |
| | `AnswersStartWhereSought` | `AnswersSeek` (an action property) | one at a time, device build |
| `ExampleProofs` | `ProgramTypes` | `TypeOK` | |
| | `TrueIsDone` | `TrueMeansDone` | |
| | `OutputsAreClosed` | `OutputClosed` | |
| | `PrintedOnce` | `NothingPrintedTwice` | |
| | `CommandStdout` | `CommandHasStdout` | stdout |
| | `DataHasOneOwner` | `ThreadDataOwned` | |

**Hypotheses.** *Signals*: `Interruptible \subseteq {"llseek"}`. The code's
`goto` on a signal is right in `aesd_llseek` only; with any other operation two
threads end up in the buffer, as `chardriver_signals` shows. `OneHolder` does without:
it says that one thread at a time is inside, whatever signals interrupt, in every
behaviour without the step `UnlocksAnothers`, the `mutex_unlock` of an interrupted
read, write or ioctl while another thread owns the mutex (`main.c:75`, 121, 206).
Those three `goto`s are therefore all that is wrong with the locking.
*No signal at `insert`*: a signal between `pthread_create` and the insert loses the thread
(`aesdsocket.c:357`). `ThreadInfoIsLive` and `ThreadsAccounted` have a condition of their
own, `OnlyMainCleans`: once a connection's thread is in `cleanup`, threads are lost and
freed while listed (section 5), and only the first half of `ThreadInfoIsLive`,
that a freed `thread_info_t` has no running thread, still holds.
*One at a time*: `~Overlap`;
of overlapping clients the walk leaves all that have not finished in the list.
*Sequential*: `~Overlap`, `Failures = {}` and `SignalAt \subseteq {"accept"}`,
the restrictions of the run `server_file`. Section 5 shows what breaks when one
of them is dropped: overlapping clients share `datafd`, and a failing write or an
early signal takes a thread into `cleanup` that should not be there. Timestamps,
hang-ups, restarts and any number of clients are allowed. *File build*:
`~UseCharDevice`, since the property is about the file `cleanup` deletes or
about what the mutex protects. *Device build*: `UseCharDevice`; that module is
about no other build, and any call may fail there and a signal come anywhere
(its hypothesis is `OneAtATime`). *No stamp*: `~StampAnytime`; with it the answers
are not complete (section 5). *Stdout*: `1 \in Std`, the program has its standard
output open (section 5 says what happens otherwise).

**Assumptions on constants**, each named in the module that declares them. The
capacity is 1 to 255, since the offsets are `uint8_t` (`CapacityAssumption`);
`NULL`, `NoThread` and `NoRequest` are none of the values they stand beside
(`NullAssumption`, `NoThreadAssumption`, `NoRequestAssumption`,
`ThreadAssumption`); sizes, counts and the arguments of the system calls have
the types of C (`SizesAssumption`, `PayloadAssumption`, `CallAssumption`), and those the
server passes to the driver too (`DriverAssumption`); it reads at least a byte at once,
and bytes and processes can be told apart (`ByteAssumption`); the
callers and the connections are finitely many (`CallerAssumption`,
`ThreadAssumption`); bounds are numbers (`MaxCallsAssumption`,
`BoundAssumption`); signals come in `main`'s own code (`ParameterAssumption`).

**Data.** The model's sums are recursive functions and folds over sequences.
What they compute is proved by the least number for which it would fail
(`LeastElement`), and their defining equations come from the function they build
up to each number (`RecursionExists`); `FlattenSteps`, `FlattenOffsets` and
`PrefixEnds` say where each piece of a concatenation ends and which byte stands
where.

### Buffer

The inductive invariant is `Consistent`, that is `TypeOK`, `OffsetsAgree`,
`HeldIsStored` and `NoStaleSize`. `OffsetsAgree` says which slots are in use,
which makes the wrap of `in_offs` and `out_offs` right. `HeldIsStored` needs it:
only if the slot that is overwritten is the one at `out_offs` is the memory
handed back the memory lost. `NoStaleSize` (an unused slot has size 0) is what
lets the total size sum over all slots. `RunningSumTurns` carries a sum around
the end of the array, `FindEntryResult` and `LogEnds` turn a slot found by the
search into a place of the log. The refinement has one lemma for an add with
room (`AddGrows`: the log gets an element) and one for a full buffer
(`AddSlides`: it loses its head).

### Driver

`MutualExclusion` is not inductive. `InsideInv` adds that a thread between lock
and unlock is the mutex's owner, or on its way out of a call that may have been
interrupted (`OutUnlocked`), and that a call keeps its file open and an open
file the module loaded: `Load` resets the mutex, and is harmless only because no
call is under way. Every step but `UnlocksAnothers` keeps it. The other theorems use
`HolderInv`, the same without the exception, which holds when signals interrupt at most
an lseek.

`HeapInv` is `HolderInv` with `Typed` and `Owned`: each live address belongs to a
slot, to the partial command or to what earlier unloads have left, to one of
them only, and the bytes stored there are as many as the slot's size.
While a thread is between `krealloc` and the store, its local `temp_buf` stands
for the partial command, which is why `HolderInv` is part of it (`OneWriter`).
There is a lemma for each step that touches memory (`LoadOwns`, `UnloadOwns`,
`AllocOwns`, `CopyInOwns`, `AddCommandOwns`, `CachePartialOwns`); all others leave
it alone (`QuietStepsOwn`).

`StreamInv` adds `Backed`: what a write has put behind the partial command is the
beginning of what its caller passed, and the waiting bytes hold no newline.
Without the second part a write of no bytes could complete a command. `AddCommand`
maps to the step of the abstract device that appends a command
(`AddCommandCompletes`), `CachePartial` to the one that extends the partial command,
`Unload` to its reset, and `Load`, `Alloc` and `CopyIn` to stuttering. `ExcerptsAgree`
says that what a read copies out of one slot is what the abstract device gives.

### Server

`ThreadInv` follows a `thread_info_t`, with any failures, signals anywhere and several
threads in `cleanup` at once: the list holds started threads, each at most once, and a
joined thread has returned (`ListInv`); what `main` has in hand between `accept` and the
insert, and in its walk, is where it should be (`MainInv`); what a `cleanup` has taken has
been started and is not what `main` is about to insert (`CleanupInv`). `AloneInv` is about
`main` being the only one in `cleanup`: what it has tested and taken is still so at its next
step, and nothing freed is listed. It is an invariant because a thread that has entered
`cleanup` stays there (`CleaningGoesOn`), so that a state where `main` is alone has only
such states before it, back to the start of the process. `AccountedInv` is
`ThreadsAccounted` under the same condition. Steps that start, list and join no thread
share one description (`Plain`), so that only `main`'s loop and `cleanup` need lemmas of
their own.

`ReapedInv` adds, for clients that come one at a time, that what is listed besides
the last thread has finished and is still ahead of the walk.

`ServerInv` adds the types. That `open` and `accept` always find a free number in a
table of `4 + 2 * Cardinality(Conn)` entries is not a matter of types: `RoomInv`
counts the descriptors in use against the sockets and files opened so far
(three of the shell, the listening socket, one for each client that came and one
for each thread past its `open`), whatever number a `close` frees. `LocalInv` says
that a thread that reads, writes or sends has a descriptor and a chunk.

That only the thread `main` has started last runs (`RunInv`) is what the sequential
server rests on. From it the descriptor table is known entry by entry (`TableInv`): the
listening socket, then the client's, then the file, each at the number that `open` and
`accept` find free because everything after it is closed, and `datafd` is never a
socket. That gives `DescriptorsBalanced`, and `ClientsGetAnswers`: the timestamp's
write may find `datafd` closed, but not reused. `JoinedInv` says that a
thread leaves the list only joined, so that `main`'s `cleanup`, the only one, joins
all and exits with none left and the file deleted (`EndInv`); `FreshInv` is what the
next process makes of that: no chunk in its file, buffers and sockets is an old
client's.

A chunk goes from socket to buffer to file, or from file to buffer to socket, by the
steps `Flow` names; no other step but the timestamp's touches one (`StepsFlow`).
`StoredInv` numbers a client's chunks through all three: the file has the first,
the buffer the next, the socket the rest. For answers, `TurnsInv` says that a thread that
writes has the mutex and that no timestamp is being written while a client is
answered; `AnswerInv` that what the client has got is the file up to the position
of `datafd`, less the chunk in the buffer. The read that finds nothing is at the end, so
that the client has the whole file.

### Examples

`TypeInv` relates each caller's place to the call it is in. `DataInv` follows each
`thread_data` from `malloc` to the joiner's `free`. `CommandInv` has three parts:
an output file that is open belongs to a caller between its `open` and its `close`,
or to one whose `fork` failed (`FilesInv`); a child that has exited with 0 has done
its command's work (`DoneInv`); the buffer a child was forked with holds nothing of its caller
(`PrintInv`, which needs the `fflush` before the fork). `StdoutInv` says what a child's
table looks like before `dup2`: a copy of a table other callers have written to as
well, in which only `fd` stands for the child's own file.

### The server on the device

The first part of the invariant is about the server (`ServerSide`). `ThreadInv` carries
over from `AesdSocketProofs`, since the steps on the device start and join no thread
(`DeviceKeepsThreads`). `OneInv` says that one connection at a time is between its
`accept` and its end, and that no thread runs before the module is loaded;
`DeviceTable` says what each descriptor stands for while it is, which holds here with
failing calls and signals anywhere, since a thread that goes to `cleanup` keeps what it
has open. `CallFor` ties the two processes together: a thread in the driver is at the
`write`, `read` or `ioctl` it has called, on its own struct file, with the arguments of
that place. `ChunkFor` numbers a connection's chunks on their way from the socket to
the write.

With `CallFor` every step of `SpecOnDevice` is a step of the driver on the driver's
variables or none (`StepIsDrivers`), and so `ServerUsesDriver`; what `AesdCharProofs`
proves of the driver holds of the composition, `StreamInv` and the refinement of
`AesdStream` included. The other parts rest on `StreamInv`, by way of two lemmas: the
stream changes by stores only (`StepOnStream`), and a store that drops nothing only
appends, whoever makes it (`StoreExtends`; `DropsOrGrows`).

* `KeptFor`: the bytes of a connection in the stream and the partial command are as many
  as it has written, the write that has stored and not yet returned (`StoredIt`)
  included, and their numbers ascend up to the last one stored (`LastOf`). A store by
  the connection appends its next number, one by anybody else nothing of it, and an
  eviction takes from the front.
* `PositionFor`: the position of a connection's file lies inside the stream, and a call
  under way works on a copy of it. Only the connection's own calls move it
  (`PositionStays`), which the VFS's store of the copied position would break if two
  threads shared a file.
* `ReplyFor`: from the store of a line, or the seek, until the read that finds nothing,
  what the client has got, what is being sent and what a read has in hand make one
  stretch of the stream that ends at the position and starts before its end
  (`TakenOf`), and after a seek it starts where the seek has asked for (`SoughtAt`).
  That it starts before the end is what makes the answer not empty: the line that has
  been stored is still ahead of the position (`LineStarts`), and a seek that succeeds
  stops short of the end (`SeekStarts`).

The read that ends the answer has a position at the end of the stream (`CopyTakes`), so
that the stretch is a suffix of it.

### Model-checked only

All liveness: `CallsReturn`, `MainReturns`, `ShutdownCompletes`, `ThreadsComplete`. It
rests on fairness, hence on `ENABLED`, which the prover does not handle. All other
properties of the passing runs are theorems, under the hypotheses of the table.

## 5. Where the code differs from what it says

Checked by a run of its own:

* **Signals release a foreign mutex** (`chardriver_signals`, `main.c:121`): on
  a signal the waiting read, write or ioctl unlocks what another thread holds.
* **Seeking after a wrap** (`chardriver_wrapped_seek`, `main.c:217`): the ioctl
  counts slots, reads count from the oldest command.
* **Overlapping connections** (`server_interleaved`, `aesdsocket.c:144`): one
  `datafd` for all.
* **Shutdown that never ends** (`server_stuck`, `aesdsocket.c:190`): a failed
  write enters `cleanup` with the mutex and joins the thread that waits for it.

Seen when one constant of the listed configuration, or one exemption of the
listed property, is changed:

* `server_file` with `StampAnytime = TRUE` violates `RepliesComplete`: the
  timestamp's append moves the position the answer is read at
  (`aesdsocket.c:207`).
* `server_overlap` without the condition `OnlyMainCleans` violates `ThreadsAccounted`
  and `ThreadInfoIsLive`: `cleanup` reads the first thread and removes the head in two
  statements, without a lock (`aesdsocket.c:67`, 68). If `main` inserts in between (357)
  the new thread is removed and forgotten, and the one that is joined and freed stays
  listed; if another `cleanup` comes in between, one thread is joined twice and another
  never.
* `server_overlap` with `SignalAt <- Anywhere` violates `ThreadsAccounted`: a signal
  between `pthread_create` and the insert (`aesdsocket.c:357`) loses the thread, and
  `cleanup` exits without joining it. A signal between the join of `main`'s walk
  and its `SLIST_REMOVE` makes `cleanup` join a thread a second time
  (`aesdsocket.c:369`).
* `server_file` with `Overlap = TRUE` violates `ClientsGetAnswers`: a
  connection closes its file, the next `accept` gets that number, and the
  timestamp goes to the new client (`aesdsocket.c:251`).
* `server_file` with `Failures <- WriteOnly` violates `ExitJoinsWorkers` and
  `ExitForgetsData`: a connection's thread that calls `cleanup` joins itself,
  which fails, and exits before the file is deleted (`aesdsocket.c:70`).
* `server_device` without the exemption of `dropped` violates `AnswersReachEnd`:
  the next answer on a connection starts where the last one ended, and a
  dropped command moves the stream past it (`aesdsocket.c:209`).
* `examples` with `Std` without descriptor 1 violates `CommandHasStdout`: `open`
  returns 1, `dup2(1, 1)` does nothing, and the `close` after it takes the
  command's stdout away (`systemcalls.c:187`).
* `examples` without the exemption of `unforked` violates `OutputClosed`
  (`systemcalls.c:156`), where the comment says "This file will be closed at
  completion of the function call". A failing `open` aborts the program where
  the comment, by reference to `do_exec`, says false (`systemcalls.c:149`).
* With `Daemon = TRUE` in the file build the first timestamp, taken before any
  connection, is written to descriptor 0, the listening socket, and the
  process may be killed by SIGPIPE; otherwise it goes to the terminal
  (`aesdsocket.c:251`).
* An unload with a partial command pending leaks it (`main.c:320`): that is
  why `UnloadFreesSlots` excepts the cached entry.

## 6. Not modelled

* Each SLIST macro is a single step: another thread's step between the two assignments
  of one macro is not explored, nor is a signal inside `malloc`, `free` or `syslog` (one
  that comes while `main` is in `pthread_join` counts as one before it). A second signal
  during `cleanup` is not either, nor that `malloc` gives the address of a freed
  `thread_info_t` to the next connection.
* syslog's own descriptor, and errors of `pthread_mutex_lock` and `unlock`.
* A second server next to a running one. `aesdsocket.c:294` sets `SO_REUSEADDR |
  SO_REUSEPORT`, which is 15, that is `SO_REUSEPORT`: two servers of one user share the
  port and the file. If another user's server has the port, `bind` fails and `cleanup`
  deletes the file the first one uses (`aesdsocket.c:308`, then 85).
* On the device: signals and failing calls of the server in TLC's run (the theorems of
  `DeviceProofs` have them, `server_overlap` explores them on the file), overlapping
  clients (`Overlap = FALSE`: `server_interleaved` shows what `datafd` does to them),
  signals that interrupt a call inside the driver (`chardriver_signals`), the module
  unloaded under the server, and what the kernel does with a thread that is in the
  driver when the server ends.
* Byte counts inside a chunk in the server; `sscanf` of the seek command (a
  malformed one is text or a line).
* In the examples: a caller that goes on after an interrupted `waitpid` makes no
  further call; descriptors the commands inherit are not followed; sleeps
  whose microseconds overflow.
* `finder-app/`'s shell scripts, the load, build and test scripts and the
  unit-test exercises: no state of their own. Of `queue.h` only the five SLIST
  macros the server uses; the rest of the header is unused.

## 7. Plan

Every safety property the runs check is proved. What could follow is a promise to
state for what section 6 leaves open, overlapping calls on one struct file first, and
the device build with overlapping clients once `datafd` is a variable of the thread.
