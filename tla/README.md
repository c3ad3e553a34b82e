# A specification of the KIV/OS simulator

This directory holds a TLA+ model of the operating system simulator in `src/`: a kernel (`kernel.dll`) that keeps
processes, threads, pipes and a FAT12 file system on top of the host's threads, user programs (`user.dll`) that call it
through a software interrupt, and simulated hardware (`boot.exe`). The modules follow the code function by function;
`PROJECT.json` names the lines each definition stands for.

## 1. The system

| component | state it keeps | operations | what makes it correct |
|---|---|---|---|
| process controller (`kernel/process_controller.cpp`) | `process_table`, `tid_to_pid`, `stdtid_to_tid`, `sig_shutdown` under `process_table_mutex` | Clone, Wait_For, Read_Exit_Code, Exit, Shutdown, Register_Signal_Handler | ids name one object, an object in use is not reaped, a wait ends when what it waits for ends, a shutdown ends the kernel |
| process and thread objects (`process.cpp`, `thread.cpp`) | state, `waiting_handles`, `sleeped_handles`, `terminate_handles`, a mutex and a condition variable per thread | Start, Stop, Restart, Join | no notification is lost, an exited thread stays exited |
| PID and TID tables (`Get_Free_*`, `Set_Free_*`) | one bool per id, a hint | reserve, release | an id in use is not handed out again |
| pipes and semaphores (`pipe.cpp`, `semaphore.cpp`) | a list of bytes, two flags, two counting semaphores with hand-over | Produce, Consume, Close, P, V | a bounded queue with an end of file |
| table of handles (`handles.cpp`) | 16 bit handle -> object | Convert, Resolve, Remove | a handle names one open object |
| file calls (`io.cpp`, `io_handles.cpp`) | `io_mutex`, position and a copy of the directory entry per open file | Open, Read, Write, Seek, Close, Delete, working directory | a file reads back what was written; a directory is listed once and in order |
| FAT12 (`fat12_*.cpp`) | the table of sectors in memory and its copies on disk, directories | create, find, remove, read, write | chains are disjoint and end; free sectors belong to nobody |
| kernel boot (`kernel.cpp`) | the handles of the first shell | boot, clone and wait for the shell, remove the kernel process | everything is released at the end |
| shell, executor, parser (`user/shell.cpp`, `command_*.cpp`) | the handles and pipes of one command line | parse, open, create, wait, reap, close | programs are connected as typed, every command is waited for and reaped, every handle of the line is closed |
| programs (`user/*.cpp`) | locals, flags shared by all instances (`sig_eof`, `sig_terminate`, `is_echo_enabled`, `print_count`, `print_inverse`) | read, compute, write, exit | they show what is stored, and end when their input does |
| hardware (`boot/*.cpp`) | disk image, keyboard, console | | |

Interaction. A program is a host thread. It calls the kernel by `Sys_Call`, which runs in the caller's thread: the kernel
has no thread of its own, only the boot thread that starts the first shell and waits for it. The controller is entered
under `process_table_mutex`; Wait_For leaves it to sleep in the caller's own `Thread::Stop`, and Exit or Shutdown of
another thread wakes it through `Thread::Restart`. Signal handlers are functions of `user.dll` that Shutdown calls in the
shutting-down thread; they set global flags that the programs poll. Pipes connect two programs; the shell that started
them closes both ends after it has waited for and reaped them. `Write_File` holds one mutex for all files and pipes.

What is hard: a caller is recognised by the id of its host thread, which the host reuses; a wait spans three critical
sections; Read_Exit_Code reaps whatever it is given, in whatever state; Shutdown ends threads while they sleep; the flags
of `user.dll` outlive the programs; a pipe's end of file is announced outside the mutex its reader waits under. The list
`hazards` in `PROJECT.json` has all of them, each with its line and the properties that watch it.

## 2. The modules

| module | what it models |
|---|---|
| `IdAllocator` | `Get_Free_PID`, `Set_Free_PID`, `Get_Free_TID`, `Set_Free_TID`: one table of ids with its hint, as operators on a record. Used twice by the controller, for PIDs and for TIDs. |
| `IdAllocator_proofs` | that the loop of the search finds what `Is_Next_Free` says. |
| `Induction` | induction over numbers, said of sets of numbers, for the proofs about loops and chains. |
| `ProcessController` | the controller with its processes and threads, called by anyone with anything. |
| `ProcessController_proofs` | the inductive invariant of `ProcessController` and the theorems. |
| `Session` | the controller with its real callers: boot thread, shells, rgen with its helper thread, shutdown, and `md` for all programs that work and exit. |
| `Session_proofs` | what holds in every session, whatever is typed. |
| `SingleSession_proofs` | what holds when each line is one command: the processes lie on a stack. |
| `Channel` | what a pipe promises: a bounded queue with an end. |
| `Pipe` | one pipe of `writer | reader`: Pipe, Semaphore, the file calls, the writer's Exit and the shell that closes the ends. |
| `Pipe_proofs` | the inductive invariant of `Pipe`, and that it implements `Channel`. |
| `Fat12` | the functions of `fat12_functions.cpp` and `fat12_parts.cpp` as operators on one record: the table in memory, the table on the disk, the sectors. |
| `FileSystem` | the file calls of `io.cpp` and `io_handles.cpp` on that record, made by processes with a working directory, through handles with a copy of the entry. |
| `FileSystem_proofs` | that the table on the disk is always the one in memory, that chains end, and that short writes are stored. |
| `HandleTable` | `handles.cpp`: the map from 16 bit numbers to objects, and the number given out last. |
| `Reading` | what is computed from a volume and from words, without state: `File_Handle::Read`, `Directory_Handle::Read`, `Get_Items`, the parser, the lines of sort and find. |
| `CommandLine` | the shell from the keys to the end of the line, and the programs type, sort, find, dir, freq, echo, md, rd and tasklist, on `HandleTable` and on the volume of `Fat12` and `Reading`. |
| `CommandLine_proofs` | that an open handle names its object until the numbers wrap; that a line's programs are connected as typed and a line's handles are closed. |
| `MCProcessController`, `MCSession`, `MCPipe`, `MCFileSystem`, `MCCommandLine` | the instances for TLC. |

Definitions called `..._Something` with a comment that starts with "Mutant" are never part of a specification: each is a
plausible mistake in the definition that follows it, and shows that a property notices it.

### ProcessController

| TLA+ | C++ |
|---|---|
| `process_table`, `threads`, `tid_to_pid`, `stdtid_to_tid` | the three maps of `Process_Controller`, with `Process::threads` as a map of its own; an absent key is `None` |
| `at[os]` | where a host thread is: in its program (`user`), between the parts of Wait_For (`register`, `stop`, `marking`, `waiting`, `woken`, `stopped`), not existing (`none`), or gone wrong (`spinning`, `stuck`, `lost`) |
| `wait[os]` | the locals `pid`, `tid`, `handles` of its Wait_For |
| `raised` | the flags that signal handlers have set |
| `fault` | a null dereference or other undefined behaviour was reached; the model says nothing of what follows |

A call that runs under `process_table_mutex` from its first line to its last is one action. Wait_For is four: `Wait_For`
(lines 98-99, outside the mutex), `Register_Handles` (the loop, with its early returns), `Stop` (one round of the loop
under the thread's mutex: the test), `Mark` (the state Blocked and the sleep) and `Wait_For_Return`. Exit and Shutdown share `End_Threads`: given the set of
threads that end and the order in which the code gets to them, `Ended` says what becomes of each thread. The order is a relation and not a loop.

Stop tests the state and marks it with the thread's mutex held (`thread.cpp:53-54`). Restart takes that mutex and waits (`Awaiting_Mark`), but Join and the clearing
of `waiting_handles` do not: a thread that Shutdown ends between the two lines has its Exited overwritten with Blocked, and a Restart that follows in the same
Shutdown makes it Running (`Overtaken`).

A thread that spins in Stop, after a spurious wakeup, keeps its mutex. An Exit or a Shutdown that has to Restart it stays there for ever (`stuck`) with
`process_table_mutex` held: the threads it got to before are ended and their signal handlers called, those behind the one it stopped at never are (`Blocking`, `reached`
in `Shutdown`). What that call has done to the very thread it stopped at is left out.

`operator[]` of a map inserts a default when the key is absent. Where this is seen later the model inserts too
(`Looked_Up`, `tid_to_pid` in `Register_Handles`). `map::insert` keeps an old value (`Insert`).

What a caller finds in `rax` when Clone returns without setting it is `Unset` (the registers hold 0x0201, the number of
the call itself). An exhausted table hands out `NoId`, 65535, which then is used as a key like any other.

### Session

`prog[os]` is the place of a host thread in its program. Every call of a modelled program is there, in order; what they
read, write and print is not. What the user types is any choice of `Commands`. A host thread takes the lowest id that has
no entry in `stdtid_to_tid`, or with `ReuseStale` any id of an ended thread.

### Pipe

A step is what the code does between two points where another thread may come in. P, V and the changes of the list run
under their mutexes and are one step each; the tests of the flags and of `empty()` run under none and are steps of their
own. type stops reading at a read whose last byte is an end code (`EndCodes`, `Stops`: 0x00, 0x03, 0x04 and 0x1A in `type.cpp:4`), whatever follows: the shell
may then remove the pipe under the writer, whose Close_Handle dereferences what it does not find, or the writer sleeps in the full pipe
for ever with `io_mutex` held. The n-th byte written is the number n, so that order and loss are visible; `written`, the number of bytes written by all calls so
far, is history that the code does not keep. A sleeping thread is woken by V, which hands its token over, or by Close, which does not.
`Channel` sends one byte at a time and does not say which: that the reader gets those that were sent is what it promises.

### Fat12 and FileSystem

| TLA+ | C++ |
|---|---|
| `m.table`, `m.saved` | `table_logic` in memory, and what `Save_FAT12_Table` last wrote |
| `m.disk` | the sectors from the root directory on; a sector is a sequence of rows of 32 bytes, the size of a `File_Entry` |
| a row | `Free` (all zero), `Deleted` (first byte 0xE5), an entry, or a part of a file's text |
| `handle[h]` | `item`, a copy of the entry made when the file was opened, and `parent_dir_sector` |
| `working_dir[p]` | `working_dir` and `working_dir_sector` of `Process` |
| a path | whether it is absolute, and its names |

What a sector is used for is not written in it: a file's sector read as a directory has rows that match no name, and an entry
written into a file's sector is data of the file. Entry 0 of the table belongs to the root directory in the functions on
files too, so that `start = 0` is the root wherever it comes from: a full disk (`Find_Free_Sector` gives 0) or the zeroed
`File_Entry` a handle has when its item was not found. A name with an extension of one or two characters may be stored
`Garbled`: the padding goes into the name, and the rest of the extension is whatever the stack held (`Stored`). `Write_Item` frees nothing and links what it needs, with one mistake:
`Next_Sector(&temp1, temp1)` replaces the position before the new sector is linked to it (`Write_Next`).

`Get_Item` never resets the caller's `founded`, so that `Lookup` has it as an argument. It is still true in two calls: in `Remove_Item` when the parent is looked up
(`Remove_Parent`), and in `Open_File` when the item is looked up after it was not created (`io.cpp:145`). A name is then taken for one behind
a file. The second makes a handle with a null item (`null`) of an existing directory; the first returns a null pointer for every parent but the root
directory, and the next line follows it: to delete anything in a subdirectory is a `fault`.

`Open_File`, `Write_File` and `Delete_File` hold `io_mutex` from their first line to their last and are one action each,
with all they call. A call that returns an error before it changed anything is no step. `Restart` is the end of the
simulator at any moment between two calls and its next start, which reads the table from the disk.

### HandleTable, Reading and CommandLine

| TLA+ | C++ |
|---|---|
| `Handles`, `Last_Handle` | the two globals of `handles.cpp`; a number without an object is `NoObject`. `held` and `issued` are history: the number each opener was given, and how far `Last_Handle` would be without its wrap |
| `object[o]` | the object behind a handle: `console_in`, `console_out`, `pipe_out` and `pipe_in` (the reading and the writing end), `file`, `dir`, `procfs`, with what its class keeps (`Item_Handle`: the copy of the entry, the parent's sector, `seek`, `bfs_queue`, `loop_stop`, `first_sector`) |
| `keys` | what is still to be pressed: symbols (the newline, which the console ignores, among them), `BS`, `CR`, `NUL`, the codes `ETX`, `EOT`, `SUB`, and `closed`, the input's end |
| `shell` | the locals of `shell` and of `Execute_Commands` |
| `prog[p]` | the p-th program that was started: where it is, its handles, what it has read, what it has still to write, the locals of find and dir |
| `shown` | everything the console was given since the line was entered, by the shell, by programs and by the kernel (`Write_To_Console`) |

A text is a sequence of symbols, each one byte: in these modules a row of a sector is a byte (`RowBytes`), except in directories, where
it is an entry. `Garbage` is a byte nobody has written (behind a sector, a zeroed part read as text).

A step is one system call with the computation before or behind it. Where a program may stop in the middle of a call it has two steps:
`Start_Waiting` and `Read_Key` or `Consume` for reading, Wait_For and `Wake` for the shell, and Exit (`Exit`, then `Hang_Up`, the second
call of rtl's Exit with 0xFFFF). A program that is reaped while it runs goes on until it makes a call that needs its process.

`OrderlyLinesHold` says which lines run without a fault: `Orderly` asks that every program but the first reads its input, that rd is given an item of the root
directory, and some more; excepted are lines in which a type behind a pipe has got an end code, or a sort an EOT (`Stopped`), since the shell may then remove the
pipe under the program before it, and lines that came back too early (`hasty`). Both exceptions are met in the run.

Three results that look odd are the code's. A read from a number without an object leaves in `rax` the number of the call (0x0202), which
the program takes for the length it has read, again and again (`adrift`). A file that the shell opens for `<` is never sought
in, so that each read starts at its first byte again: the program is `adrift` too. type returns without Exit when nothing was taken from it (`left`).

## 3. What is checked

| run | instance | states | shows |
|---|---|---|---|
| `controller` | 2 host threads, 2 PIDs, 2 TIDs, any handle of 2 and 3, two pairs and a repeated handle to wait for, no signal handlers, spurious wakeups | 551 thousand | the invariants and `ExitedIsFinal`, whatever is called; from every table reached the declarative choice of the next id (`Is_Next_Free`) is what the search loop finds |
| `session` | 4 host threads, one command per line, nested shells, rgen, shutdown | 30 thousand | no fault, nobody astray, waiters and awaited agree, only exited threads are reaped; commands are reaped, a shutdown ends the kernel and leaves nothing |
| `pipeline_signals` | 5 host threads, lines of two commands, rgen and shutdown, spurious wakeups | 430 thousand | whoever registers a handler is signalled, also when it does so while the shutdown is under way; a handle that is still to be waited for or reaped names a live thread and is nobody else's, also after TIDs were reused, Clone was refused or a wait returned early |
| `pipe` | a pipe of 2 bytes, 5 bytes in two writes, the fourth an end code, three readers | 592 | the pipe is a `Channel`; tokens, pops, handles, arrival |
| `file_system` | 6 sectors for data, 2 rows in a sector, an empty directory and a file of two sectors, 8 paths, 5 calls, restarts | 114 thousand | every chain ends, the table is saved, no sector has two owners, no call touches somebody else's file, what fits a sector reads back |
| `command_line` | 71 scripts of keys (single programs, redirections, pipes of up to three, several lines), a volume with two levels of directories and files of one to three sectors | 15 thousand | handles name their objects, programs are connected as typed, a line's handles are closed, orderly lines reach no closed output unless a reader stopped at an end code, type, dir and find show what is stored, a redirection stores what was written, the prompt comes back |

and six runs in which a promise of the documents fails:

| run | property | what happens |
|---|---|---|
| `pipeline_wait` | `SignalEndsWait` | `a | b | c`: when b or c has exited before the shell waits, Wait_For returns at it and leaves the shell registered with a. The shell reaps all three, a's Exit notifies nobody, and the next command line is waited for for ever. |
| `nested_shutdown` | `ShutdownEndsKernel` | shutdown typed in a nested shell: its Thread object is destroyed while its host thread sleeps in it. |
| `stale_thread` | `ExitEnds` | rgen's helper calls Exit after it has been reaped; a command that gets its host thread's id never exits for the kernel. |
| `pipe_end` | `FreqPrints` | the notification of the end of file falls between freq's test and its sleep. |
| `pipe_full` | `OutputNotBlocked` | `rgen | type` with a full pipe: the writer sleeps with `io_mutex`, type needs it to print. |
| `long_write` | `WrittenIsStored` | a text of a sector or more: the second sector is linked to entry 0 of the table and not to the file, so that only the first can be read back, and that is free for the next file. |

Bounds. The controller is checked with as few ids as there can be so that both tables are exhausted and reused soon; two
host threads are enough for every pair of calls to interleave, since a call that holds the mutex is one step, and a third
only adds more of the same. A pair of handles is the shortest wait with an early return after a registration. In `session`
four host threads allow a nested shell with a command and rgen with its helper; five in `pipeline_signals` allow rgen and a shutdown in one line, and spurious wakeups; seven in `pipeline_wait` allow a line of
three and one more command. The number of commands is bounded by the host thread ids that are left (`Read_Command`).
A pipe of two bytes and five bytes written make the pipe full and empty several times, and one byte more than the pipe and
type's buffer hold together; in the code these are 4096 bytes each. The bytes are looked at by type only, for end codes; with
the fourth as one, type stops behind two full reads and one byte is left, so that the writer meets a pipe that is gone.
`FaultOnlyByQuitters` excepts echo and a type that stopped, and no other reader.

`HandlesOwned` is checked in `pipeline_signals` because there the shell meets a Clone that is refused after a Shutdown (`shutdown | rgen`) and reaps a program
of a line that has not ended yet, while other threads are created with the TIDs that come free.

In `file_system` five calls are enough to remove a directory somebody stands in, give its sector to a file and create something
there, to fill the disk, and to rewrite a file through an old handle. Two rows make a directory overflow at its second entry, and
texts of 3 and 5 units against sectors of 4 are one below and one beyond the boundary. One process and one handle suffice: the calls
exclude each other, a handle and a working directory that are kept from before play the part of another program's, and a second handle
only meets the first through the same sectors. What can be removed lies in the root directory, since a removal elsewhere ends the simulator; the image has
the directory before the file, so that its sector is the first to be used again. `OthersKept` catches a search for free sectors that takes the last sector of
a file for a free one (`Find_Free_Sector_Behind`). The root directory must not outgrow its first sector (`RootFits`): the code then writes
the second sector's entries over the first, and nothing is left to claim.
In `command_line` sectors have 4 bytes or entries, the buffers of sort, find and dir's handle 4 symbols and 3 entries (`LineSize`, `Batch`), type's 8
(`TypeSize`) and a line 24 (`LineMax`); the relations between them are those of the code (512, 512, 20, 4096, 256 with sectors of 512 bytes), apart from
type's, which holds 8 sectors there and 2 here. There are files below, at and above each of them, a directory with more entries than dir reads at once
and an empty one, a file with end codes at the end of a first read and of the last one, a full and an unnamed line, a name that is stored as another one, and every program with a file, without one, with one that is missing,
before and behind a pipe. Scripts instead of free typing keep the lines apart: what a key does depends on the line it belongs to only. Nobody types
after a line that came back too early (`hasty`), because the shell and the programs left behind would share the keys. Pipes have
room for everything; what a full pipe does is checked in `Pipe`. No line writes a file that another program of it reads. `Last_Handle`
grows by 1 each time, which is enough for the run (32 numbers); the proofs cover every step. There are as many objects as the scripts need;
without a free one nothing can be opened (`Enter`), where the code would allocate it.

`OwnedOnce` and `OthersKept` claim nothing once entry 0 of the table has been overwritten (`Intact`), by a long write or a full disk.

Deadlock is checked in `session`, where `Powered_Off` is the only state with nothing to do, and in `file_system`, where a
restart is always possible. In `controller`, `pipeline_signals` and
the runs of `MCSession` that expect a violation a fault or a host thread gone astray stops the model, the pipe's three actors really end, and
`command_line` ends when the keys are used up.

Fairness. Every program is a host thread, and the host runs each of them in turn: weak fairness of each thread's own steps
(`Session_Fairness`, `Pipe_Fairness`, `Fairness` of `CommandLine`). The last one is written with the conditions under which the
shell and a program can take a step (`Shell_Ready`, `Ready`) in the place of ENABLED, which TLC evaluates too slowly there; they
were compared with ENABLED in all states of the run. A mutex is held for one step only, except `io_mutex`, and the action that takes it is
weakly fair all the same, which is what the code needs where it is claimed (`BytesArrive`, for a reader that does not
write). The user is not fair: no property of `Session` relies on anything being typed; in `CommandLine` the keys of a script are pressed. `Spurious_Wakeup` is never fair.

## 4. What is proved

`ProcessController_proofs` proves, for every number of ids, host threads, programs and handles that satisfy
`ControllerAssumption`:

| theorem | |
|---|---|
| `Invariance` | `Spec => []IInv` |
| `TypeCorrect` | `TypeOK` |
| `IdsStayReserved` | `IdsReserved` |
| `TidsStayUnique` | `TidsUnique` |
| `MainThreadStays` | `MainThreadKept` |
| `SleepersStayMarked` | `SleepersMarked` |
| `ExitIsFinal` | `ExitedIsFinal` |
| `SignalsReachAll` | `SignalsDelivered` |
| `SearchAlwaysAgrees` | `SearchAgrees` |

`IInv` is the conjunction of `TypeOK`, `IdsReserved`, `TidsUnique`, `MainThreadKept` and `SleepersMarked`; none of them is inductive alone. That TIDs stay
unique rests on `IdsReserved`: a new thread gets an id nobody uses. That `IdsReserved` survives a reaping rests on
`TidsUnique`: the released id is nobody else's. Both need `MainThreadKept`, because the threads of a dead process must be
gone when its ids are. `SleepersMarked` needs the types only, and `ExitedIsFinal` is proved of each step beside the
invariant (`Exited_Stays`). It excepts a thread between the test and the mark of its own Stop, whose Exited the code does overwrite.

The assumptions say that the tables have at least one id, that `TidMin` is a multiple of `TidCount` (as 1024 is of 1024:
the code's `(tid + 1) % MAX_TID_COUNT + MIN_TID` is the next id only then), that `NoId` lies above all ids, that `Unset` is
no id, and that `None` differs from every value. There is a lemma per action; those of actions that neither add nor remove
a thread share `ObjectsKept` and `NobodyAddedOrRemoved`.

`SignalsDelivered` is inductive beside `IInv` (`NextSignals`): Register_Signal_Handler tests `sig_shutdown` under the mutex and calls the handler itself. It is
said of states in which nobody is stuck with the table locked (`Table_Unlocked`); a Shutdown behind a spinning thread calls only the handlers before it.

`SearchAgrees` follows from `SearchFindsNext` of `IdAllocator_proofs`, once for PIDs and once for TIDs. The loop of `Get_Free_TID` is a
recursive function of the model; after k turns that found nothing it stands k slots behind its start (`LoopWalks`), and the slots it has
passed are those at distances below k (`SlotsBehind`), so that the one it stops at is the nearest unused one.

### Loops

The library's induction theorems cannot be used, because they take an operator as parameter. `Induction` says induction of *sets* instead: a set of numbers
has a least element (from `WFMin` of the library, whose parameter is a relation, a set of pairs), so a set that holds 0 and with n also n + 1 is all of them, and a loop
that changes its state as a function of it has its invariant after every number of turns (`Iteration`). What holds of a loop is the set
of the numbers of turns after which it holds. `Pigeonhole` is there for chains.

### The file system

`FileSystem_proofs` proves, for every image, size of disk and table, set of paths, texts and handles, and any number of calls (`FileSystemAssumption`):

| theorem | |
|---|---|
| `TableAlwaysSaved` | `TableSaved` |
| `VolumeKept` | `FileSystem_Spec /\ [][RootWritesFit]_vars => []FsIInv` |
| `FsTypeCorrect` | `FsTypeOK`, under the same hypothesis |
| `ChainsAlwaysEnd` | `ChainsEnd`, under the same hypothesis |
| `ShortWritesAlwaysStored` | `ShortWritesStored`, under the same hypothesis |

`TableSaved` is inductive by itself. The lemmas say of each function that
it keeps the two tables equal; that rests on the order inside them, since each changes the table in memory in several places and saves it
last (`Create_Item` and `Remove_Item` save it twice). Their arguments are arbitrary, so that it holds on a full disk and through stale
handles too.

`FsIInv` says what a volume is (`Volume_OK`, which is assumed of the image) and that handles and working directories start at sectors of the table. Its parts:

- `Links_OK`: both tables hold 12 bit values; a link stays inside the table; a link from a sector of files leads to a sector of files, and one among
  the entries of the root directory leads upwards;
- `No_Loop`: no set of sectors has all its links inside. This form of "there is no loop" is what a step can be shown to keep: a new link from s leads to a sector
  that has no link itself (free a moment ago, now an end), so a closed set without s was closed before and one with s contains that end. That chains end
  follows by counting: a chain longer than the table repeats a sector (`Pigeonhole`), and the sectors from there on would be closed (`NoClosedSet`, `ChainEnds`);
- `Rows_OK`: a row of a disk sector that is taken for an entry is one, whatever text was written there before; so every walk down a path reaches
  sectors of the table.

None of them is kept without the others: the links are changed at sectors that come from rows, and the rows are found by following chains that must end.
There is a lemma for each function of `Fat12` (`WriteItemOK`, `RemoveDataOK`, `CreateOK`, `RemoveOK`, `GetItemOK`, `ParentOK` and others) with
arbitrary arguments of the right type, and one for each call. It holds on a full disk and through stale handles and working directories.

`RootWritesFit` is a hypothesis on the behaviour: what is written through a handle whose entry starts at sector 0 (the handle of an item that was not found, or one made
on a full disk) fits the entries of the root directory. Without it `Write_Item` goes on into the table's entries of the files and links each of them to the next, whoever owns
them; then `FsIInv` is not inductive, since a link that leads back would close a loop, and a text of as many sectors as the table has would pass its end. Every state and every
step of the code up to there is covered, and the run `file_system` has longer writes with no loop in them; whether one can be reached is open.

`ShortWritesStored` needs of `FsIInv` that the chain ends and that the table stays as it is: `Write_Item` then writes one sector and nothing else. That the
sector lies on the disk is part of the property: the table has entries for sectors behind the end of the disk, where
`Write_Sectors` refuses and nobody looks at it.

### The table of handles and the command line

`CommandLine_proofs` begins with the table alone. `OpenHandlesNameTheirObjects`: whoever opens and removes whatever, and whatever the random steps
are, an object that is open is reached with the number its opener got, as long as `Last_Handle` has not come round, and the number is neither 0, which
rtl's Exit takes for no handle, nor 65535, which programs take for an error. The inductive invariant adds that every number in use was passed
already (`Ordered`): a new one is above all of them, so that insert finds its place empty and no open is lost.

Then come the shell and its programs, for every volume, every sequence of keys, all sizes of buffers and any number of lines and programs (`CommandLineAssumption`
and `HandleAssumption`):

| theorem | |
|---|---|
| `LineInvariance` | `CommandLine_Spec => []LineInv` |
| `LineHandlesNameObjects` | `HandlesNameObjects` |
| `AlwaysConnectedAsTyped` | `ConnectedAsTyped`, while `issued < Invalid_Handle` |
| `LineHandlesAlwaysClosed` | `LineHandlesClosed`, while `issued < Invalid_Handle` |

`LineInv` says `HandleInv` and `CoreInv` as long as the numbers have not wrapped; behind the wrap two opens share a handle and nothing is left to say. The parts of `CoreInv`:

- `ObjectsOK`: what is open exists, has a kind, and is held under the number that leads to it;
- `ProgramsOK`, `FilesOK`: the places a program can be in and whether it has a file there (`PlaceOK`); a program's file is its own, open until the program
  is past its close, and closed from then on (`Done`). That every program closes its file on each of its paths to Exit is in `PlaceOK`;
- `ShellTypeOK`, `ProgressOK`: the locals of `shell` and `Execute_Commands`, and how far the loop over the commands is: how many pipes and programs there are;
- `LineOK`, of the parsed line: all commands but the last are piped, and no command has two outputs or two redirections. It follows from what
  `Parse_Commands` does with each token, whatever the tokens are (`ParseTurnOK`, with `Iteration`);
- `ApartOK`: no program opens, and so none closes, a handle of the shell's. Without it nothing would keep a wire in place: Close_Handle takes any number;
- `ConsoleOK`, `PipesOK`, `ReadyOK`, `WiredOK`: the console and the pipes of the line are open at both ends; what the shell has ready for the next
  command, and what each started program was given, is what the line says;
- `Owned`: whatever was opened since the line was entered is either something `Execute_Commands` will close (`To_Close`) or the file of a program.

`LineHandlesClosed` follows at the prompt: nothing is left to close, so what is open belongs to a program; but every program has exited, is therefore past its
close, and its number names nothing. There is a lemma per step of the shell and of a program (`KeyStep`, `RedirectStep`, `PipeStep`, `CreateStep`, `CloseStep`,
`OpenFileStep`, `ReadFileStep` and others), and one for each way a step can touch the table: opening (`ProgramOpens`, `ShellOpens`), closing (`ProgramCloses`, `CloseStep`) or neither
(`ProgramMoves`, `QuietShell`). That the wires survive the steps of the other programs is `ShellKept`.

What a redirection opens is the hardest part: `OpenedNamed` follows `Open_File` along any path of any volume (`WalkDownNamed`, `GotNamed`) and says what the item of the handle
is called. An input is the file named last. An output need not be: when the item cannot be created, `Open_File` looks for it again, finds nothing and opens
the directory where the search came to (`Opened_New`). That the output, too, is the file named last is false, which the proof showed at that place; the scripts have such paths.

### The pipe

`Pipe_proofs` proves, for every size of the pipe and of type's buffer, every sequence of writes and every reader (`PipeAssumption`):

| theorem | |
|---|---|
| `PipeInvariance` | `Pipe_Spec => []PipeIInv` |
| `PipeTypeCorrect` | `PipeTypeOK` |
| `TokensStay` | `TokensKept` |
| `PopAlwaysFindsByte` | `PopFindsByte` |
| `OnlyQuittersFault` | `FaultOnlyByQuitters` |
| `PipeImplementsChannel` | `ImplementsChannel`: every step of the pipe is one of `Channel` or changes nothing of it |

`PipeIInv` adds to these `Placed` (which places each of the three threads has), `SleepersCounted` (whoever sleeps in a semaphore is counted, and
the semaphore then has no value; closing the input ends that for the reader), `InOrder` (the list holds the bytes that follow those received, none
missing) and `ClosedInTime` (who has ended when the input is closed). `TokensKept` needs `SleepersCounted`, since V either raises the value
or hands its token to a sleeper, and `PopFindsByte` needs both: a reader that P let through has a token, a token is a byte of the list, and
a reader that Close woke without one is stopped by the second test when the list is empty. In the step simulation `Produce_Push` is `Send`,
`Consume_Pop` is `Receive`, the first Close of the writing end is `Close_Input`, and the reader's last Consume is `End_Of_File`, which is allowed
because of `InOrder` and because nothing is written after the input was closed.

### Sessions

`Session_proofs` is about all sessions: any command lines, nested shells and shutdowns, spurious wakeups and host thread ids that are
reused. Every step of `Session_Next` is a step `Any_Call` allows (`SessionStepIsAny`), so that `IInv` holds in sessions as well; the programs' part of
the invariant is `HandlesHeld`, that whoever waits or reaps has a handle to name.

| theorem | |
|---|---|
| `SessionInvariance` | `IInv /\ ProgIInv` in every session |
| `SessionSignals` | `SignalsDelivered` |

The other safety properties of the run `session` do not hold in every session: the behaviours of three of the runs that expect a violation lead to a
waiter nobody will notify (pipelines), a thread that sleeps on what was destroyed (shutdown in a nested shell), and a thread its Exit does
not find (reused host thread ids). `SingleSession_proofs` proves them where they hold, for every number of
host threads, ids and nested shells, under an assumption on the constants, `Orderly`, that `MCSession.cfg` satisfies:

- `MaxPipeline = 1`: one command per line (the run `pipeline_wait` shows what a longer one does to the next wait);
- `"shutdown" \notin NestedCommands`: shutdown is typed in the first shell (`nested_shutdown`);
- `~ReuseStale`: a host thread does not get the id of one whose entry is still in `stdtid_to_tid` (`stale_thread`);
- `~SpuriousWakeups`: `cond.wait` returns only when notified (a spurious wakeup makes `Stop` spin, see `hazards`);
- there are no more host threads than PIDs and TIDs: the tables of 1024 ids are never exhausted.

| theorem | |
|---|---|
| `SingleInvariance` | `Session_Spec => []SingleIInv` |
| `SingleTypeCorrect` | `SessionTypeOK` |
| `SingleNeverFaults` | `NoFault` |
| `SingleWaitersListed` | `WaitersListed` |
| `SingleExitEndsCaller` | `ExitEndsCaller` |
| `SingleNothingLeft` | `NothingLeft` |
| `SingleOnlyExitedReaped` | `OnlyExitedReaped` |

`SingleIInv` says that nothing has faulted and that for some n and k the state is `Nested(n, k)`: the processes are a stack of n, with k threads
(k is n + 1 when rgen, on top, has its helper thread, else n). Its parts:

- `IdsStacked`: exactly the PIDs below n and the TIDs below `TidMin + k` are in use, and the hints lie at most at their end. This is why
  Shutdown, which takes the PIDs 0 to size-1, meets no gap, and why the next process gets the next PID (`PidNext`, `TidNext`,
  `PidGiveBack`, `TidGiveBack`);
- `Stacked` and `Listed`: process p has its main thread `TidMin + p` and no other but the helper, and `tid_to_pid` and `stdtid_to_tid` lead back to them;
- `ProcessOK`: process 0 is the kernel, 1 the first shell; only the topmost can be over, and then its host thread has nothing left to do but to return;
- `LeafOK`: the topmost runs, awaits nobody, and is at a place of its program before a wait;
- `ParentOK`: each of the others has one handle, the one of the process above, and is at one of the places from before its wait to its reaping; it
  sleeps with the two lists entered at both ends, or has been woken, and then the process above is over;
- `HelperOK`, `OthersOK`: where the helper is, and that host threads without an entry have nothing left to do but to end;
- `SignalsOK`: which flags are raised, and how much of the stack is left once Shutdown was called.

None of them is kept without the others. That a reaped thread is over (`OnlyExitedReaped`) is `ParentOK`: the shell reaps what it waited for, and it was
woken by the Exit of that process only; that Exit finds the waiter, and changes nobody else, is `Listed` with the two lists of
`ParentOK`. There is a lemma per step of a program (`KernelClones`, `ShellCreates`, `RgenStartsHelper`, `WaitsForTop`, `ParentRegisters`, `ParentStops`,
`ParentReturns`, `ShellReaps`, `ProgramExits`, `HelperExits`, `ShutsDown` and others); `StackKept` puts them together, `StackStarts` is the initial state and
`StackTells` what follows from the stack.

### Only model-checked

- `HandlesOwned`: that early returns, refused Clones and reaped TIDs keep the shells' handles apart needs an invariant of sessions with longer lines, which is in the plan;
- `NobodyAstray`: under `Orderly` nothing makes a thread spin, and what else it says is part of `SingleIInv`;
- all liveness (`CommandsReaped`, `ShutdownEndsKernel`, `BytesArrive`, `LineEnds` and the like): fairness and ENABLED are out of the prover's reach;
- `OwnedOnce` and `OthersKept` of `FileSystem`. No inductive invariant was found: it would have to say which sectors belong to nobody because a chain was cut, and what
  handles and working directories left over from removed items may still change. They hold within the five calls of the run, `OthersKept` where `HomesStand`;
- `CommandLineTypeOK`, whose bound on the number of programs is one on the scripts;
- `OrderlyLinesHold`: what faults depends on the volume as well as on handles (a path through a broken directory), so that it needs an invariant of the volume beside `CoreInv`;
- `ShownAsStored`, `DirShows`, `FindCounts` and `RedirectStored`: each compares what a program shows or writes after many reads with a function of the whole file or directory, by
  induction over its contents, which the provers cannot do for the recursions and folds of `Reading` (`SortSeq` and `SelectSeq` among them).

## 5. What is not modelled

Exit codes of processes; in `Session` also their arguments, standard handles and working directories, which `CommandLine` has; the copying of registers, in which rtl's
Read_Exit_Code takes the exit code from `rax` although the kernel puts it into `rcx` (`user/rtl.cpp:167`). Data races on
plain `bool` flags other than their interleaving. A spurious wakeup of a semaphore: P has no loop, so that it returns without a token.
In `Session` a program whose first call is Wait_For or a file call, before Clone has registered it. Of the hardware, all but the keyboard and
what the console is given; the vendored configuration reader.

In `CommandLine`: rgen, shutdown and nested shells, which are in `Session`; what the shell itself writes as its prompt; the layout of what
programs print (tabs, the ends of dir's lines). A line is a sequence of words, so that find's arguments are symbols; NUL bytes in files are not told
from other unwritten bytes. Two readers of one keyboard.

Of files: Seek from the current position (one byte too far) or from the end, Get_Position (which counts from 1) and Set_Size, which no program
calls; Get_Working_Dir, which the prompt is made of; the packing of the table's 12 bit entries into bytes; the second copy of
the table, which the code never writes (`fat12_parts.cpp:47` writes the first copy as often as there are copies) and never reads;
attributes other than directory and file, dates; the root directory behind its first sector. The table of the instance has as many
entries as the disk has sectors; the real one has some more (3072), which `Find_Free_Sector` would hand out when the disk is full, and whose
sectors `Write_Sectors` refuses. `Write_Sectors` has this test, and its failure is ignored as in the code.

What the `status` and `note` of each component in `PROJECT.json` add.

## 6. Plan

In the order of importance:

1. The root directory beyond its first sector, as a run of its own that shows what is overwritten.
2. `CommandLine` with the pipes of `Pipe` in the place of unbounded ones, and with rgen as a writer.
3. Programs of one line on the same file, and two processes in one directory, with an abstract store that short calls implement.
4. Proofs: sessions with longer lines, up to the first wait that returns early; `OrderlyLinesHold` from `CoreInv` and an
   invariant of the volume; `CommandLine` as an implementation of `HandleTable_Spec`, behind the wrap too.
