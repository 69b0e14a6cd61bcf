# TLA+ models of wndx_sane

`wndx_sane` is a small C++ library: a `File` class that loads a file into a heap
block and writes, copies and moves it; `mkdir` with permissions; a signal handler
and the loop that installs it; a logger. This directory holds TLA+ modules that
model the parts of it with state, TLC configurations that check them on small
instances, and TLAPS proofs for every value of their constants. Line numbers are
those of the sources the modules were translated from; `PROJECT.json` maps every
definition to its lines.

## The system

| Component | State | Operations | What is hard |
|---|---|---|---|
| `file::File`, lifetime and heap (`file.cpp`, `file.hpp`) | `m_block` (raw pointer), `m_fpath`, the heap | constructors, defaulted copy and move, destructor, `clean_heap`, `alloc`, `alloc_and_read`, every member that dereferences | sequences of legal calls, exceptions in the middle of a member, an object that destroys itself |
| `file::File`, disk (`file.cpp`) | `m_block_size`, contents of the block and of the files | `alloc_and_read`, `read`, `write`, `copy_to`, `move_to`, `is_r` | system calls that fail unseen, other processes between two system calls, death between copy and remove |
| `file::mkdir` (`file.cpp`) | the directory entry | `mkdir` | several processes making the same directory (every test process does), rollback by name |
| signals (`sig_handler.cpp`, `sig_to_str.hpp`) | dispositions, running handlers | `handlers_set_defaults`, `handlers` | signals during the loop, in the handler and in the logger; numbers that differ between platforms |
| `File` comparisons (`file.hpp`) | none | `==`, `!=`, `<`, `>`, `<=`, `>=`, `memcmp` | null blocks, `!=` that is not the negation of `==`, files of one size |
| `Finfo` (`file.hpp`, `file.cpp`) | a name in an array of 79 bytes | `to_finfo`, the constructor from it | names that do not fit, an array with text in it, several hops |
| `path::trim`, `sanitize` (`path.cpp`) | none | the same | trailing separators, roots, `""` and bare names |
| `Logger`, `LL` (`log.hpp`, `log.cpp`, `ll.hpp`) | an urgency level per Logger, stderr | `log`, `set_urgency`, `errnum` | several threads, handlers inside a log call, two writes for one message, throws in `noexcept` members |
| `pl::exit`, `rc`, aliases | none | `exit` | none |
| `scripts/wndx_cmake_build.sh`, `cmake/`, CI | flags, build directory | clean, configure, build, install, test | order and exit codes |

The parts interact by calls only. The members of `File` call each other
(`move_to` calls `copy_to` calls `write`; `alloc_and_read` calls `alloc` and
`read`, which calls `is_r`), all of them log, and a `WNDX_LOG` may throw: inside a
`try` that changes the return code, elsewhere, all members being `noexcept`, it ends
the process. `handlers` runs on top of whatever the program was doing, the logger
included. Processes meet on the disk: same directory, same files.

Correct means, for the heap: a block is freed once, never used afterwards, never
lost, and the return code, with `memory()`, tells what the object holds. For the disk: SUCCESS
means that block and file agree, and a move never leaves the bytes nowhere. For
`mkdir`: what it tells the caller is so, and it removes only what it made. For
signals: installing succeeds, job control works, and only intended signals kill. For
`Finfo` and `path`: the name arrives, in the directory that was made. For the
logger: a message is not written below the level that let it pass, its trace follows
it, and the call returns.

## The modules

### FileHeap: who owns the block

`life`, `ptr` (`m_block`) and `heap` say which storage holds an object, which block
it points to and what became of each block. A block is the result of one `new[]`;
an address that malloc hands out again is another block. Actions are the members,
each one step, because they run in one thread and the blocks are not shared but
through the defaulted copy and move constructors (`CopyConstruct`), which copy the
pointer and leave it in the source. `Destructor` is `clean_heap` and then the
destruction of `m_fpath`; it runs at `ScopeEnd` and, by the explicit `File::~File()`
of the exception handlers, in `DestroySelf`, after which the object is "destroyed"
and its scope still open. `Alloc` and `AllocAndRead` have the branches of the code:
`new[]` works, throws `bad_alloc`, or works and the log after it throws. After the
allocation `alloc_and_read` may succeed, fail in `read`, or get CRIT_EX_UNHANDLED from
`read`, which catches a throw of its own log (`file.cpp:239-241`) and leaves the object
whole; the handler in `alloc_and_read` returns the same code for an object it has
destroyed. `HandlerCodes` are therefore codes a handler may have returned, no proof
that one has; `AllocVerdict` says which codes can be relied on, and that a null
`memory()` tells the two apart. `NullOnlyIfTold` is its counterpart for a client: it
meets a null block only in an object that it never gave one or whose last answer was a
handler's. `UsePath`
stands for the members that use `m_fpath` only, which is a fault in a destroyed
object. `rc` is the last verdict. The first undefined behaviour, and
`std::terminate` from a throw in a `noexcept` member (`Terminate`), ends a run;
`fault` records it. `clean_heap` is `constexpr` and defined in `file.cpp`, so clients cannot
call it. The branch `rc::CRIT_EX_ANONYMOUS` is not modelled: what it catches is no
`std::exception`, and nothing in the `try` throws such a thing.

`aliased`, `overwritten` and `failed` are history: the events the properties make
responsible for what goes wrong.

### FileTransfer, TransferPromise and FileOrder: what reaches the disk and the block

The same members cut at their system calls: status (`IsR`), open for reading
(`OpenR`, which also reads the length, `ios::ate`), read (`ReadBlock`), open for
writing (`OpenW`, which truncates or creates), any number of `Flush` steps, the end
of the stream and the return code (`Close`), `Remove`. `dir` maps paths to inodes,
`data` inodes to contents; an open file is an inode and survives its entry. `obj` is
the object and, while a call runs, the place it has reached; it also holds `old`,
the path the object had when the call began. `Faults` names what may fail at any
time; a directory at a path fails the open in any case. The code looks at the
stream after opening it for reading and nowhere else, and so does the model. The log
after the read may throw: `read` answers CRIT_EX_UNHANDLED with the block loaded, and
`alloc_and_read` passes that on or, if its own log throws, destroys the object.
`Construct` takes the size `fs::file_size` would say, as the tests do, or with
`AnySize` any size, as with a received `Finfo`. `hist` (why block and file may
differ), `carry` (whether the source was complete when a copy began) and `unfit`
(whether the path may hold more than the block) are history, and `overrun` ends a
run, because the heap is then anything.

`TransferPromise` is the abstract specification of copy and move: a file that was
loaded is complete at the old side until the new side has it; SUCCESS of a copy
means both, of a move the new one; an error means that the old one is still there.
It becomes void when the system failed unseen or somebody else changed a side.
`KeepsPromise` maps `obj`, `dir` and `data` to its two variables (`Phase`, `Sides`).

`FileOrder` has the comparison operators as functions of `m_block_size` and
`m_block`. `FileTransfer` extends it and applies them to its objects in every state,
so null blocks, blocks of zeros and blocks out of step with their files occur.

Left out: hard and symbolic links, permissions, appending by others, an exception
outside the `try` blocks (the process stops, which every prefix of a behaviour
covers), `std::filebuf`'s
choice of chunk size (any cut is allowed). Calls on an object whose block is null
are in FileHeap (`read`) or return at once (`StartWrite`).

### MkdirPromise and Mkdir: making a directory

`Mkdir` has one step for each file system call of `mkdir` and any number of calls
for one path. `kind`, `maker`, `perms` and `content` describe the directory entry,
`pc` and `rc` the calls. A status that cannot be read counts as "not a directory" in
`IsDirectory` and as "does not exist" in `Exists`, as the two functions of the
library answer. `create_directory` answers false without an error for a directory
that exists, so `Create` fails for whoever is second. `UseDirectory` is a caller
that was told SUCCESS and puts a file there. `World` is somebody making and deleting
plain files at the path. Outsiders who remove or chmod directories are not
modelled: nothing `mkdir` does could hold against them.

`MkdirPromise` is the abstract specification: SUCCESS is said while a directory is
there; a call that reports an error has changed nothing, or undone it (`Undo`), or
says that it could not (`AdmitLeft`); nobody removes what another made.
`KeepsPromise` states that `Mkdir` implements it, with `kind` as the place and
`Verdict` as what the caller was told.

### Path and Finfo: how a name travels

`Path` has `trim` and `sanitize` and, external, the parts of `std::filesystem::path`
they rest on (`filename`, `parent_path`, `operator/`), as they are on a POSIX system,
for paths as sequences of characters. `Finfo` follows one name: `to_finfo` starts
with the initialised array, `Fill` is one turn of its loop, `Terminate` the last
store, `Construct` the constructor of the next `File` in a directory that a user
typed; then it may go on to another host. `Store` does what the code does, which is
to check nothing: an index outside sets `beyond`, and the model stops, because
anything may follow. `mkdir` of the typed directory is `MadeWhereTyped`, which says
what `npath` and its parent are (`file.cpp:44-46`) for every path.

### SigHandler: installing the handler and being interrupted

`sig` is the counter of the loop, `disp` the dispositions, `frames` the handlers
that run on top of each other, `main` the program below them. `Install` is one
iteration: skip, refuse (print and `_exit`), or set. Signals arrive between any two
steps (`Deliver`), blocked only while a handler for the same signal runs, because
`sa_mask` and `sa_flags` are zero. The handler is `handlers`: `PrintSignal` (which
the logger's level may silence), and return. To enter the logger while an
interrupted flow is inside is undefined behaviour and ends the run as "undefined".
A fault of the program (`Fault`) raises its signal again each time a handler returns
to the instruction. The numbers of `enum SIG` are the source's; what a number means,
which ones sigaction refuses, and SIGRTMAX are constants, for Linux with glibc
given in `MCSigHandler`. `handlers_set_defaults` takes any function; the model has
the library's own. The Windows version does nothing. The names that
`sig_to_str.hpp` prints for the numbers are left out.

### Logger: what reaches stderr

`level` is `m_urgency_level` of each Logger, `frames` the log calls at work in each
thread, `err` the lines on stderr. A call goes from the gate (`Gate`) to the message
and, from `LL::WARN` on, to the trace; each of the two is one `fmt::print`, entered
when no other thread is inside (`Enter`) and left with its line written (`Leave`) or
with an exception because stderr failed (`Throw`), which ends the program if the
caller is `noexcept`. `SetUrgency` stores the level and starts the notice, which goes
through `log_g` whichever Logger it is called on; `errnum` logs as critical. `Signal`
is a handler that interrupts a call of its thread and logs (`sig::print`): if it has
interrupted `fmt::print`, it may find the stream's lock or the allocator's taken and
block ("blocked"). SigHandler calls the same situation undefined and stops there;
here the question is what the other threads see, so the two outcomes are
kept apart. `Assign` is the public `operator=` and, for a Logger made in the storage of
another, the copy constructors (`log.hpp:21-24`): memberwise, so the level goes along
and nothing is announced. `log_g = Logger{path}` is one, from a source whose level
nobody has set. `store` (how the level of `log_g` was stored last: announced, by two
calls that met, or assigned), `thrown` and the field `overtaken` are history.

The level is an `int`-sized enumeration read and written without synchronisation;
the model gives a read what was stored last, which is what the machines in question
do. The log path and client id of a Logger are never used by the code; an assignment in
one thread races on them with one in another, which is left out with them.

## The runs

| Run | Shows | Instance |
|---|---|---|
| `FileHeap_ownership` | the six safety properties and `EventuallyDeleted` | 2 objects, 3 blocks; 89 332 states |
| `FileHeap_doubledelete` | finding: copy or move, then both destructors | same |
| `FileTransfer_faults` | `SuccessMeansInSync`, `SourceKeptUntilRemove`, `MoveRemovesSource` and the refinement `KeepsPromise` with every failure | 1 object, 2 paths, 2 inodes, files and blocks to 2 bytes of 2 values, any size; 91 450 states |
| `FileTransfer_pair` | `SuccessMeansInSync`, `KeepsAPlace`, `OverrunOnlyIfUnfit` under interleaving, and the answers of the operators | 2 objects, 2 paths, 3 inodes, to 1 byte; 1.3 million states |
| `FileTransfer_moveloss` | finding: move to a path that cannot be opened | 1 object, no injected failure |
| `Mkdir_calls` | rollback, permissions, used directories, `KeepsPromise`, `CallsReturn` | 3 calls, every failure; 3 169 states |
| `Mkdir_race` | finding: the second of two first calls | 2 calls, no failure |
| `SigHandler_linux` | `InstallSucceeds`, `SurvivesAfterInstall`, `JobControlKept` | all 64 numbers in the loop, 12 of them sent, handlers nested 2 deep; 30 556 states |
| `SigHandler_rtmax` | finding: SIGRTMAX keeps its default | same |
| `SigHandler_finish` | finding: the handler only prints | SIGTERM alone |
| `Finfo_relay` | names arrive, the array is left only by names that do not fit, directories are made where typed | 2 letters, an array of 4, typed paths to 5 characters; 30 354 states |
| `Logger_threads` | what may stand on stderr, what the last notice tells, when calls return | 2 threads, 2 Loggers, levels NTFY and WARN, 2 calls, 1 handler, any assignments; 465 089 states |

Why the bounds are enough to be interesting. Heap: two objects allow aliasing in
both directions, three blocks allow an overwrite in one object while the other
still allocates; the proofs cover the rest. Disk: two paths are source and
destination, and with one path a move onto itself; two objects on them give every
read and write race of two processes; three inodes are two linked files and one
that is open but unlinked; with 2 bytes a write can be cut in the middle, and a file
be shorter or longer than its block; with 1 byte it can be empty or not. The pair
run injects no failures, the faults run has one object: both together exceed what
TLC can explore here. Mkdir: a third call sees what two racing ones leave. Signals:
the delivered ones have one of every kind (terminating, stopping, continuing,
ignored, skipped, refused, real-time, last, not reached by the loop), and two nested
handlers are enough for one to interrupt the other. Finfo: an array of 4 holds
its initial text of 2 with a byte to spare, fits a name of 3 exactly, and is too
short for names of 4 and 5; typed paths of 5 have a root, names, and separators before,
between and behind them. Logger: the two levels stand on either side of the two that
the code compares with (NTFY for the notice, WARN for the trace); two calls in two
threads, one interrupted by a handler, give every order of gates, stores and lines
of two calls; the proofs cover more.

Symmetry is used in the FileTransfer runs only (objects, paths and inodes are
model values; what is checked there are invariants and, in `KeepsPromise`, steps, and
no liveness). Deadlock is not checked, as
every model has behaviours that end: a run stops at its first fault, a program at
its death, and the calls of `mkdir` when all have returned.

Fairness. FileHeap: a scope that was entered is left (automatic storage); nothing
else is asked of a client. Mkdir: a call goes on from one file system call to the
next. SigHandler: the loop, the faulting instruction and a running handler go on,
signals need not come. FileTransfer has none: its properties hold between any two
steps, so they also describe the disk after a crash. Logger: every thread that is at
a step of a log call goes on (`WF_vars(Proceed(t))`); because calls and handlers are
bounded, a thread that waits for the stream finds it free for good at some point, so
weak fairness is enough. Callers, handlers and failures need not come.

## Findings

Each of these has a violation run.

1. The defaulted copy and move constructors share `m_block`: double delete.
2. `write` never looks at its stream, so `move_to` to a directory loses the file.
3. `mkdir` reports FILE_MKDIR_GENERIC_ERRO for a directory that another call just made.
4. `sig < SIGRTMAX` leaves SIGRTMAX at its default.
5. The handler prints and returns; "finish program gracefully" does not happen.

These follow from the same models and appear in them as the exceptions that the
properties name: the code does go wrong there, so the property says that it goes wrong
nowhere else, which is why some hazards of `PROJECT.json` name a property that excuses
their own case and say so in their note.

A failed `alloc` runs `File::~File()` and the end of the scope runs
it again (`WholeUnlessAllocFailed`); `read` trusts `tellg`, not `m_block_size`, and
leaves the block when the file has grown (`OverrunOnlyIfUnfit`); a name of 79 bytes
or more is copied past the array (`BeyondOnlyIfTooLong`), and ext4 allows 255;
`path.cpp:12` says "additional trailing directory separators are never introduced",
and `trim` makes `/` of `""` and `//` of `/`, so that `mkdir("")` answers SUCCESS for
the root; `mkdir` of a bare name always fails, which its message hints at
(`MadeWhereTyped`); two files of one size with different bytes, and objects without
a block, are neither `<=` nor `>=` (`OneAnswer`); a `set_urgency` above NTFY announces
nothing, one of another Logger announces itself as if it were the global one's,
two at once may announce in the wrong order, and an assignment such as
`log_g = Logger{path}`, the only way to give the global Logger its path, changes the
level without a word (`LastNoticeTells`); CRIT_EX_UNHANDLED of `alloc_and_read` may mean
a whole object or a destroyed one (`AllocVerdict`); a handler that
interrupts the logger may never return (`CallsReturn`); `alloc` on an object with a block leaks it
(`LeakOnlyOverwritten`); a write or read that fails on the disk returns SUCCESS
(`SuccessMeansInSync` excuses "io"); `move_to` onto the file's own path deletes it
("self"); a call that finds the directory between its two checks gets
FILE_PATH_UNEXPECTED_ERRO; a rollback can remove a directory that another call has
just been told to use, as long as it is empty (`UsedStays` starts at the first use); after
SIGSEGV the handler returns to the faulting instruction for ever (`Fault`); the
handler can enter the logger it interrupted ("undefined"). On macOS the numbers of
`enum SIG` are not the system's: SIGURG (16 there) gets the handler, so the
assumption of theorem `JobControl` fails, while that of `InstallNeverExits` holds.
With musl, which keeps signal 34 for itself, the latter fails too, and the program
is exited.

## What is proved

All theorems hold for every value of the constants that satisfies the named
assumptions of the modules, which are weak: the null pointer is no block, the maker
of nothing is no call, signals are positive numbers and the loop's are among them.

`FileHeap_proof`. The properties are not inductive: that a block is deleted once
says nothing about who may delete it next. `IInv` adds what the code maintains
without saying so: a block held by two objects is aliased
(`SoleOwnerUnlessAliased`), a held block that is deleted is aliased
(`DanglingOnlyAliased`), a held block is not fresh, raw storage holds nothing, and
an object that destroyed itself has reported it. One lemma for each group of
members (constructors, destructors, allocations, uses) shows that it is preserved;
`FreedOnce`, `LeakFree`, `Whole`, `NullTold` and `VerdictHonest` follow. The last two
rest on `read`'s own exception path being part of the model: what `alloc_and_read`
answers is honest but for CRIT_EX_UNHANDLED, where `memory()` has to be asked.

`Mkdir_proof`. `IInv` says that a call between `create_directory` and its return
finds the directory it made; it holds because only the maker removes, and outsiders
touch no directories. From it follow `RollbackOwn`, `PermsReported`, `UsedIsKept`
and `Refinement`, in which every step of `Mkdir` is a step of `MkdirPromise` or a
stutter. `CallsAdvance` is the part of `CallsReturn` that needs no fairness: each step
of a call leaves it with fewer file system calls to make (`Left`), so no race makes it
start again. Two theorems bound finding 3: a single call says
FILE_MKDIR_GENERIC_ERRO only if there is no directory (`AloneCreateErrorTrue`, with
`StillNoDirectory` as its invariant), and a directory that was there from the start is
found by any number of calls (`ExistingFound`). Both ask that a status can be read.

`SigHandler_proof`. `IInv` says that the loop has set exactly what it has passed,
but for the table, that a killed process died of a signal at its default, and that
an exit happened at a refused signal that the table does not name.
`InstallNeverExits`, `Survives` and `JobControl` state for every platform what its
numbers have to be for the properties to hold, and `AllHandled` what they have to be
for the comment of finding 4 to be true: no signal from SIGRTMAX on, but refused or
skipped ones. Linux does not meet that, and only by SIGRTMAX itself.

`FileTransfer_proof`. What a SUCCESS means depends on every step before it, so `IInv`
says for each object, at each place of its call, how far block and file agree:
`Control` (what a place implies for the fields), `Source` (the old path holds the
block until the remove), `InStep` (a file being written holds the first `at` bytes of
the block; a file being read is the one at the path), `Gone` (after a clean move the
old path is empty), `Fits` (an object that is not unfit has a file no longer than its
block). On the disk there are no hard links, and an open file that is linked is
linked at its object's path. The lemmas split by step; a step of one object leaves
the clauses of the others alone or marks them as touched (`Undisturbed`,
`Disturbed`). `Refinement` follows from the same invariant.

`FileTransferAlone_proof`. The properties above excuse what the system and other objects
do; these theorems say which excuses remain for one object, made with its file's size,
on a disk where opens and writes work (`Alone`, a condition on the constants):
directories, failed removes, status calls, allocations and logs stay in. They are stated
in the proof module and are no run's properties. `AloneInv`: the file at the object's
path is as long as the block whenever no write is at work (`Measured`), so that no
sequence of members leads to a read that does not fit; and only "open" of a directory,
"remove", "self" and "edited" are left in the history, each with what it says of the
last call (`Excusable`). With `IInv` this gives `SuccessAlone`, `LostAlone` and
`InBoundsAlone`: finding 2 is the only way such a program loses a file.

`FileOrder_proof`. `<` is a strict weak order, so containers accept it; `==` is an
equivalence on objects with blocks and nowhere else; `<=` is a partial order up to `==`.

`Finfo_proof`. `IInv` describes the array in the loop (the first `i` characters of the
name, nothing beyond unless it does not fit) and after it. That every path has a last
separator and a last character, on which `filename` and `parent_path` rest, is proved
from the well-foundedness of the naturals. The theorems hold for arrays, names and
typed paths of any length; with an array of 79 they are those of the code.
`TrimAgain`: a second `trim` changes nothing, exactly if the path names something
(callers may trim before `mkdir`, which trims again).

`Logger_proof`. `TracesBelong` is about lines, and what keeps it are the calls that
are still at work: `IInv` numbers the calls by age (a handler is younger than what it
interrupts, numbers are not reused), says that a call before its message has no line,
and that one before its trace has written its message and that since then only
younger calls of its thread have written (`Said`). `TracesBehind` and `NoLateLines`
hold for any number of threads, Loggers, calls and nested handlers.

`LastNoticeTells` is about the notices alone. `NoticeInv`: while the level of `log_g` was
last stored by a `set_urgency` that met no other (`store` is "announced") and the process
lives, every notice of `log_g` on its way carries the level
in force (`OnTheWay`), and if none is on its way, the last one written does (`Told`) or
the level hides notices. It is inductive only with `NoticeCalls`: a notice goes through
`log_g` at NTFY from a `noexcept` member, so a write that fails ends the process and a
gate that stops it is one that hides notices. `NoticeTold` follows. `OneThread` says
that in a program of one thread, handlers included, the exceptions of
`LateOnlyIfOvertaken` and `LastNoticeTells` that speak of other threads do not occur: a
notice of `log_g` is then true unless the level hides notices or `log_g` was assigned since.

Only model-checked: liveness (`EventuallyDeleted` and both `CallsReturn`), which this
prover does not do; of `Mkdir`'s, `CallsAdvance` proves what needs no fairness. All
other properties of the passing runs are theorems.

## Not modelled

- Formatters, `operator<<`, the names of signals and levels, the text of messages:
  output without effect on anything else.
- `rc.hpp`, `aliases.hpp`: enumerators and aliases; the codes are members of the code
  sets of the modules that return them.
- `scripts/wndx_cmake_build.sh`: a shell script that runs one command after the other
  under `set -e`; it has no state but the build directory and no concurrency.
- CMake files and modules: declarations. Tests and CI: read as statements about the
  library.
- The Windows variants: `handlers_set_defaults` is empty there, paths are wide strings.

## Plan

Done: FileHeap, FileTransfer with TransferPromise and FileOrder, Mkdir with
MkdirPromise, Path and Finfo, SigHandler, Logger, and their proofs. What could follow:

1. A larger instance of `Logger_threads` (three calls exceed five minutes today), by
   leaving out of `err` the lines no property looks at any more.
2. Hard links in FileTransfer: two paths of one file make a move delete what it wrote,
   as `"self"` does now for one path.
3. The steps that bring a log call closer to its return, as `CallsAdvance` does for
   `mkdir`: the measure is per thread, because handlers come on top.
