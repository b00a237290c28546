# A verification project for libmsr

libmsr is LLNL's C library for the model-specific registers (MSRs) of Intel
processors: it opens `/dev/cpu/*/msr_safe` (or `msr`), reads and writes
registers one at a time or in batches, measures energy and power (RAPL), sets
power limits, and comes with a power monitor, `powmon`, that uses it. This
directory holds TLA+ modules translated from its sources, the TLC
configurations that check them on small instances, and TLAPS proofs. Paths
below are relative to the repository; line numbers are in `PROJECT.json`.

Check a model with `tlc -config X.cfg M`, a proof with `tlapm M.tla`.

## 1. The system

### Components, their state and operations

| Component | State | Operations | What makes it correct |
|---|---|---|---|
| Allocation tracker, `src/memhdlr.c` | a growing array of the addresses in use, its capacity, the last slot | `libmsr_malloc/calloc/realloc/free`, `memhdlr_finalize` | every live block in the array once, never past its end, nothing left after finalize |
| Device descriptors, `src/msr_core.c` | array of file descriptors, `static init` | `init_msr`, `finalize_msr`, `read_msr_by_idx`, `write_msr_by_idx` | once initialised each processor's descriptor is open on its own file, all on one kernel module; calls return; finalize closes |
| Batches, `src/msr_core.c` | array of batches, each a block of operations with a count and a size; the batch descriptor | `allocate_batch`, `create_batch_op`, `free_batch`, `read_batch`, `write_batch` | pointers given out stay valid and distinct; a batch touches its registers and destinations only, and a refused operation is not hidden by the others |
| Topology, `src/msr_core.c` | numbers of sockets, cores, threads; which numbering Linux uses; `thread_map` | `find_cpu_top`, `core_config`, `devidx`, `*_assert`, access by coordinates, `load_*_batch` and the storage functions on top of them | coordinates lead to the processor they name; every pointer of a batch leads to a processor of its own socket, core or thread; no batch is overfilled |
| RAPL polling, `src/msr_rapl.c` | last two samples, timestamps, deltas, watts | `read_rapl_data`, `delta_rapl_data`, `poll_rapl_data` | deltas add up to the energy used, over wraps and failed reads; power is energy over its own interval |
| RAPL limits, `src/msr_rapl.c` | the limit registers, the callers' `struct rapl_limit` | `set_pkg_rapl_limit`, `set_dram_rapl_limit`, the getters | a half is set without touching the other; 0 means set; values that do not fit are refused |
| RAPL storage and flags, `src/msr_rapl.c` | flags of the platform, arrays for the readings, static pointers | `setflags`, `rapl_storage`, `rapl_init`, `check_for_locks`, `create_rapl_data_batch` | locked registers are noticed and stay known; nothing is followed that was not made |
| CSR and memory controller, `src/csr_core.c`, `src/csr_imc.c` | batches and descriptor of the uncore configuration space, pointers to counters and their configuration | `init_csr`, `finalize_csr`, `*_csr_batch*`, `mem_*_on_ctr`, `print_*_from_ctr` | what is printed beside a channel was counted there, for the event last chosen; batches go to the device |
| Counters, `src/msr_counters.c` | pointers into batches for fixed, programmable and uncore counters | enable, clear, dump | a counter that was zeroed holds only what its present event counted |
| Clocks, turbo, `src/msr_clocks.c`, `src/msr_turbo.c` | pointers into batches | `set_p_state`, `set_clock_mod`, `enable_turbo`, ... | a read-modify-write keeps the other fields |
| Thermal, misc, `src/msr_thermal.c`, `src/msr_misc.c` | structs of fields over batches | getters, setters, dumps | what is set reads back; the other bits of the register keep their value |
| Election, `demoapps/powmon/highlander.c` | two named semaphores | `highlander`, `highlander_wait`, `highlander_clean` | one monitor per node, and it waits for the others, and ends |
| Monitors, `demoapps/powmon/` | totals, `running`, a mutex, a measurement thread, a timer, a cap that moves | `take_measurement`, `power_measurement`, `power_set_measurement`, `timer_sleep`, `main` | totals are the energy between first and last poll; the library is entered by one thread at a time; the monitor ends |
| cpuid, error handler, msrmod, autoconf, tests, headers | none to speak of | | |

### How they interact

Every storage function allocates through the tracker, so `finalize_msr`, which
ends with `memhdlr_finalize`, frees what all of them point to while their
static pointers stay. Every measurement goes through a batch: the storage
functions fill a batch once with `create_batch_op` and keep the pointers it
hands out; `read_batch` then changes what they point to. Batches use the
driver `/dev/cpu/msr_batch` or, without it, the descriptors one register at a
time. RAPL limits use single reads and writes, on registers every program on
the node shares. The monitor runs one thread on the library and another, the
main one, that ends it; monitors of one node meet in the semaphores.

### What is hard

Files come and go between `stat` and `open`, and a failure restarts the loop
over the devices from inside a callee. Addresses are reused. The array of
batches moves. Registers wrap, reads are refused one by one, the clock is
corrected. A read-modify-write is two system calls. Named semaphores are
unlinked while in use. `PROJECT.json` lists these hazards at their lines with
the properties that watch them. A library used by several programs adds: setters
that read, change and write; batches that keep words nobody could read; counters
that count while they are set up; a machine that is not numbered as expected.

## 2. Modules

| Module | Models | Builds on |
|---|---|---|
| `MemoryHandler` | the tracker | |
| `MsrDevice` | the life cycle of the descriptors | |
| `CoreProofs` | theorems of tracker and descriptors | extends `MsrDevice`, `MemoryHandler` |
| `BatchRegisters` | what the batch interface promises | |
| `MsrBatch` | the batch interface | refines `BatchRegisters` |
| `MsrBatchProofs` | its theorems, the refinement included | extends `MsrBatch` |
| `RaplPoll` | energy and power | |
| `RaplLimit` | power limits | |
| `RaplProofs` | theorems of polling and limits | extends `RaplPoll`, `RaplLimit` |
| `Highlander` | the election and `main` around it | |
| `PowMon` | the two threads of the monitors | what `RaplPoll` promises |
| `MonitorProofs` | theorems of the election and the monitors | extends `Highlander`, `PowMon` |
| `RaplFlags` | the table of processor models, the size of the RAPL batch | |
| `Topology` | numbering, coordinates, loaders | |
| `BatchClients` | all storage functions on the loaders | extends `Topology`, `RaplFlags` |
| `TopologyProofs` | theorems of both | extends `BatchClients` |
| `RaplInit` | flags, locks, arrays, in any order of calls | extends `RaplFlags` |
| `RaplInitProofs` | its theorems | extends `RaplInit` |
| `CsrImc` | uncore batches and memory controller counters | |
| `CsrImcProofs` | its theorems | extends `CsrImc` |
| `FieldTables` | layout of the thermal, clock, misc and fixed counter registers | |
| `Registers` | their getters and setters among other parties | extends `FieldTables` |
| `Counters` | programmable and uncore counters | extends `Registers` |
| `RegistersProofs` | theorems of both | extends `Counters` |
| `MC*` | TLC instances | extend the module they are named after |

Modules whose theorems stand in one file keep their names apart: the
specification of `MemoryHandler` is `TrackerSpec`, that of `Highlander`
`ElectionSpec` and that of `RaplPoll` `PollSpec`, and so for `Init`, `Next` and
`TypeOK`.

### MemoryHandler

`arrays` and `size` follow the statics of `memory_handler`; `last` is the
length of `arrays`. The C allocator is an environment that hands out any free
address, so addresses are reused at once. `held` is the address in each of the
library's pointer variables, which stays there after a free (`stale`) and may be
overwritten while its block is live, as `allocate_batch` does when called twice.
The library never frees a pointer twice nor reallocates a freed one, and nothing
runs after `memhdlr_finalize`. One action per operation: `Malloc`, `Realloc`,
`Free`, `Finalize`, each with the whole of the tracker's work, growth included.

Run `memory` (three addresses, three pointers, first capacity 2, five entries,
so the array grows twice and addresses come back after a free): exact tracking,
capacity, nothing left after finalize.

### MsrDevice

One thread is in the library. A call is cut at every `stat`, `open` and
`close`, because the administrator may load or unload a module between any two
of them; each of these meets the file in any status. The kernel's descriptor
table is part of the state (lowest free descriptor, exhaustion at `MaxFd`), and
so are indeterminate values: an array `malloc`ed but not filled holds
`Garbage`, which reads as any descriptor number. `dev_idx = -1` followed by the
loop's increment is `Restart`.

Run `device` (two processors, four descriptors, any order of calls, finalize
before init and twice included): `DescriptorsReady`, `AccessReachesDevice`
and, under `WF_vars(Running)`, `CallsReturn`. Two
processors are the least for which a restart in the middle leaves something
behind; four descriptors are what a pass on `msr_safe` and one on `msr` take
together, so a further pass runs out of them.

Fairness: `WF_vars(Running)` covers the steps of a call that has been entered.
The thread is scheduled, and none of those steps waits for anything. Nothing is
assumed of the caller: it need not call.

### MsrBatch and BatchRegisters

`BatchRegisters` is the contract: every operation created owns one destination
word; a read may copy registers of the batch to its destinations, a write the
other way, and nothing else changes but through the caller's stores and other
programs. The caller's side of the contract is the way the library's storages
use batches: allocate once, create operations up to the allocated size, before
the first write. A step outside it sets `misused`, and from then on nothing is
promised.

`MsrBatch` has the array that grows with the batch number, the blocks, the
pointers of the caller (`dest`), the direction flags and their switching, the
driver's loop and the compatibility loop. An access outside a block sets
`corrupt` and the batch interface stops there. The refinement mapping reads
destinations through the caller's pointers, so it fails as soon as a pointer
stops designating its operation.

Run `batch` (two batches of up to two operations, two registers, two values,
two allocations): `StaysInBlocks`, `DestinationsStable` and
`ImplementsPromise`, the contract as a property, refused operations included. Two
batches make the array grow under pointers already given out; two operations
make the first differ from the last, which is what the switching of flags is
about; two allocations allow the double allocation the code tolerates.

### RaplPoll

One counter per socket and domain. Energy is counted in register units; bits
and joules of a sample, which the code keeps side by side, are one number, and
`UnitsPerJoule` is kept because one correction is added before and the other
after the translation. What has been consumed, and the time, are chosen when
they are read. A register wraps at most once between two successful reads, and
not past the value last read: callers poll often enough, the library cannot
tell otherwise. Refused reads keep the old sample, as `read_batch`'s ignored
result does. `start` is what a counter showed at its first read that succeeded;
if reads of it had been refused before (`late`), the old sample is the zero of
`calloc`, so the first delta is all the register shows. `EnergyAccounted` has
that energy, used before anything was measured, as a term of its own
(`Unmeasured`). Platforms have both package and DRAM counters here. Rounding of
doubles is not modelled.

Run `poll` (one socket, so two counters; W = 2; energy up to 5, two wraps; clock
0..1, forwards and backwards; any read refused, the first ones too): the deltas
add up (`EnergyAccounted`, less one unit per package wrap: the code adds
2^32 - 1, and more by what was used before a late first read), and power is over its own
interval unless the read before failed.

### RaplLimit

A register is the set of its one bits, so the code's masks and shifts are set
operations, and spilling out of a field is visible as what it is. Fields are
narrower, in the real order: watts, enable, clamp, window, and one more bit per
half, the lock in the upper one. Watts and windows are in hardware units; the
logarithm of the window is not modelled, windows that do not fit are given as
values. `set_pkg_rapl_limit` is cut between its read and its write; everything
else is one system call and one action. `lim` is the caller's `struct
rapl_limit`, whose `bits` decide the direction of the translation.

Run `limit` (one tool with both package halves, one with the upper half and the
DRAM limit; each limit is read back by one of them; fresh limits, three values of watts of which one does not fit): no
half is ever a mixture, a zero result means set, the two forms of a limit agree,
and the other half changes only where a concurrent update is undone. Two values
that fit and differ in both bits make a mixture visible as a third.

### Highlander

Semaphores are objects; a name is linked to one or to none. Every semaphore
call is a step of its process. `main` of `powmon.c` is modelled as far as the
protocol sees it: the log file that may exist, the application that ends at any
time, the last measurement and summary. `highlander_clean` runs `MaxCleans`
times, one unlink after the other.

Run `highlander` (three processes, one clean-up, failing log files): the first
K elects exactly one highlander, a foe is never blocked, and
every process ends unless it is a highlander that found two foes or more. Three
processes are needed for `v > 1`.

Fairness: `FairElectionSpec` has weak fairness of each process, that is, the kernel
schedules it, a `sem_wait` on a positive semaphore returns, and the application
started by the monitor ends. Nobody is obliged to run `powmon -c`.

### PowMon

Two threads of one monitor: `main`, and the measurement thread. A step ends
where the other thread can notice: at the mutex, at a poll, at each of the
totals, at a read of `running`. The library below is what `RaplPoll` promises:
a poll reports the energy since the poll before, the first none; the node uses
one joule in a millisecond, so `now` is both. The measurement thread adds to
the totals one by one with the mutex; `main` loads them for the summary one by
one, in any order and without the mutex (`MainRead`), so the thread may add
between two of these loads. A summary file that cannot be opened ends `powmon`
without a summary (`MainFails`). `program` chooses among `powmon`
and the two wrappers, which differ in who initialises, in the cap that moves
and in what becomes of the log. Nothing joins the thread: `Exit` kills it
wherever it is.

A cap at or below the floor of 30 W is within the module but no property's
subject: the test against the floor comes last, so the code steps above the cap
and from then on moves between the floor and a step above it.

Run `powmon` (the three monitors, caps 31 and 35 W, ten milliseconds, an
interval of two; 31 W is the first cap at which the two tests of the turn meet
in one step): `TotalsAddUp`, `LibraryExclusive`, `SummaryCoversRun`, `CapKept`
and `MonitorEnds`. `PromptThread` is the `sleep(1)` the code relies on for its
thread to have initialised; without it `main` would follow a NULL pointer.
`LibraryExclusive` leaves the dynamic wrapper out, which sets the cap without
the mutex.

Fairness: weak for each thread, which the kernel schedules; the application
ends, and the election lets `main` go (`Highlander` says when). The mutex need
not be fair: `main` asks for it once the thread has at most one measurement left.

### Topology, BatchClients and RaplFlags

`machine` has its shape and one of three numberings: the two the library tells
apart, and one that numbers siblings side by side, which it does not know.
Processors go offline and come back; hwloc sees those that are online, in its
own order. `FindCpuTop` fills `thread_map` from that, with the number of
entries `core_config` found the first time. `Devidx` is the arithmetic,
`ByCoord` an access with any coordinates, one past the last included: the
assertions' result is not looked at, so `accepted` is only recorded.

`BatchClients` has every storage function of the library as a record of three
things: whether its registers belong to sockets, cores or threads, how many it
loads and for how many it allocates. `Storage` then allocates, loads through
the loaders of `Topology` and notes a batch that is overfilled. `RaplFlags` is
the table of `msr_rapl.h`, in the code's hexadecimal numbers, from which the
size of the RAPL batch follows for each model.

Run `topology` (up to two sockets of three cores of two threads, three
numberings, one processor offline, four or eight counters, all models): the
shapes are those in which sockets, cores and threads cannot be mistaken for one
another. `CoordReachesIt` and `MapIsTrue` hold for whole machines in a numbering the
library knows; `ClientsFit` and `PointersReachTheirUnit` rest on no numbering.
`AcceptedExists` is stated and violated: the assertions accept one past the last.

### RaplInit

The life of the two things all of RAPL trusts: `flags` and `arrays`. Every
exported function is an action with the registers it reaches and its result;
`Trusting` is the call of `rapl_storage` they begin with. A call that meets a
pointer nobody set makes `broken` true. What `malloc` left in the flags, when
`setflags` failed, is any of `GarbageFlags`.

`check_for_locks` reads each limit through a getter that does not look at the
result of its read. `Refusals` are the sets of reads that may be refused one
`rapl_init`; where a read is refused, or the register is missing, the bit that is
tested is that of another register or of the stack, and any choice is
possible: a lock goes unnoticed, or a register that is not locked loses its
flag (`PkgLocks`, `MayLosePkg`, `Taken`). The result of `rapl_init`, a count
above zero, is reduced to its sign. `heard` has the sockets whose memory limit
was read as locked, `first` the result of the first `rapl_init` and what was
refused it: a lock that was read is kept and reported, which is what the
properties say, and one that was not may be lost, which `EveryLockIsReported`
shows.

Run `raplinit` (all models and one without RAPL, two sockets, every set of
locked registers, no read refused or all of the second socket's, any order of calls): `LocksStayKnown` (an action property),
`NoWriteToLocked`, `FirstInitReportsLocks`, `ReadFirstIsSafe`. Two sockets are
needed for a lock on one of them only. Stated and violated: `ReadableOnEveryModel`,
`OnlyRegistersOfTheModel`, `EveryInitReportsLocks`, `EveryLockIsReported`,
`UnsupportedStaysUnsupported`.

### CsrImc

A counter's content is the pair of its channel and the event it counts, so a
value printed beside the wrong channel, or counted for an event nobody chose,
is seen. The batches, the descriptor and its copy in `do_csr_batch_op`, and the
pointers are as in the code; the driver carries an ioctl out or does not, and
the program may close and open files of its own in the same table. What the
reset and freeze bits of `set_pmon_unit_ctrl` do to counters and events is left
out; no property speaks of counters after a reset.

The properties are about programs that keep to `Terms`: `init_csr` and
`init_pmon_ctrs` first, the counters that are loaded, one event each, no more than two
sockets, no `allocate_csr_batch` on a batch in use, no `finalize_csr`. Outside
them the code hangs, follows NULL or writes to another file, and the model
says so (`broken`, `sent`), but nothing is claimed; the instance does not
follow such a run any further (`WithinTerms`). Run `csr` (one to three sockets, two channels
per controller instead of four, counters 0, 3 and 5, two configuring calls):
`PrintsWhatWasAsked`, `NothingBroken`, `OwnDevice`. Two channels are enough to
tell a channel from a controller; counter 5 is one that does not exist.
`InitZeroMeansOpen` and `FreesItsBatch` are stated and violated.

### FieldTables, Registers and Counters

A word is the set of its one bits. `FieldTables` has, for each getter, the bits
it takes a field from and, for each setter, the bits it clears and the shift it
stores with: the code repeats these numbers in two places, and not always the
same. `Registers` runs the getters and setters of one group of registers over
two sockets, cores or threads: a setter is cut between its read and its write, a
batch serves all of its registers, all but one, or none, and keeps the words it could not read,
the hardware and other tools change bits at any time. What hardware does with
a write (`Landed`) is what the structs' documentation says: a log bit only
falls, a read-only bit stays. `known` are the units whose register the batch has
read at least once: before that its word is the zero of `calloc`, and a setter
whose read is refused writes zeros over neighbours nobody looked at
(`last.blind`). `Counters` has the enabling, zeroing and reading
of the programmable counters, which go on counting in between; a counter's
content is the set of the events it counted.

Run `registers` (two units, one field changed by hand, two calls, one change by another
party, two counters, two events): `ReadsBackAsSet` gives for every field what
reads back: the value asked, and for the thresholds and the duty cycle, of which the
setters clear only some bits, exactly the old bits among those they leave
(`Leftover`); `NeighboursAsLastRead` says that in a register that was read at
least once the bits around are those last read, whichever reads failed since;
that a register never read is not written (`NotBlind`) is stated and violated; `NoMixedCounts` that zeroing, which two writes make, leaves no
count of the event before. Two calls are a get and a set, or a set after a
failed one. Run `registers_logs`: `set_therm_stat` stores all logs one bit up.

## 3. What is proved

TLAPS proves the following for every value of the constants under the modules'
`ASSUME`s. Each component has an inductive invariant (`RaplLimit` a chain of
them, one per theorem), the lemma that every action preserves it, and
the theorems that follow. Each of these invariants was checked by TLC on the instance of
its component before it was proved. Every safety property that a passing run checks
is stated by a theorem, the refinement of `BatchRegisters` included.

* `CoreProofs`, tracker: `TrackerTypeCorrect`, `TrackingCorrect`, `NeverPastCapacity`,
  `FinalizeFreesAll`. `ExactTracking` is not inductive alone: that `Realloc`
  finds the entry it replaces, and takes no other pointer's block away, rests on
  the pointers that were not freed naming live blocks, each its own (`OwnersLive`).
  The invariant `TrackerIInv` is therefore the conjunction of the type invariant, the
  three properties and `OwnersLive`.
* `CoreProofs`, descriptors: `TypeCorrect`, `InitialisedIsReady`, `AccessCorrect`. The
  inductive invariant adds what the loop of `init_msr` knows in the middle: the
  devices below `dev_idx` are open on their own files of the module in use
  while the call has not restarted, and `init` implies that the loop is over.
* `MsrBatchProofs`: `TypeCorrect`, `InsideTheBlocks`, `PointersStayGood`
  and `KeepsThePromise`, the refinement of `BatchRegisters`. The invariant has two parts. One holds for any caller: sizes
  do not exceed their blocks and pointers lead into blocks. The other
  (`Proper`) holds until the caller leaves the contract: batches do not share a
  block, exactly the created operations were handed out, what `calloc` cleared
  is still clear behind them, and the flags of a batch are all equal, so that
  looking at the first, as `do_batch_op` does, decides for all. The refinement is
  proved with it, action by action: every action either leaves the abstract
  words, registers and running calls alone or is the step of `BatchRegisters` of
  the same name. `OneFlag` is what the compatibility path and `CallFlag` what
  the driver's path need for that.
* `RaplProofs`, polling: `PollTypeCorrect`, `EnergyAddsUp`, `NeverNegative`,
  `PowerIsOverItsInterval`, for any register width and any energies between
  readings that wrap at most once, whichever reads are refused, the first ones
  too. The sum of the deltas follows
  from what each counter's two samples are (`Samples`), in the middle of a pass
  as well, where counters not read yet still have the older pair, and from
  the division of energies by the width.
* `RaplProofs`, limits: `TypeCorrect`, `FormsStayEqual`, `ZeroMeansInstalled`,
  `LimitsInOnePiece`, `OtherHalfKept` (an action property), for any number of
  tools and any widths. The hypotheses are in the theorems because the code does
  not establish them: `WindowsFit`, since `calc_rapl_bits` does not check the
  window; `FreshLimits`, since a limit that was read back carries the
  other half along; no refused reads, since the word they should have returned is
  written as zeros. `MCRaplLimit_window`, `_stale` and `_failed` (section 4) show
  what goes wrong without each, and run `limit` satisfies all of them. The invariant
  adds what a call between its read and its write holds in its hands.
* `MonitorProofs`, election: `ElectionTypeCorrect`, `OneIsElected`, `NoSharedK`,
  `FoesAreCounted`, `FoeFindsItsPost`, for any set of processes. No semaphore is
  below the number of foes that have it open and have not waited yet (`Counts`);
  that no semaphore is both a K and an L (`Apart`), and that nobody refers to one
  not created yet (`Unborn`), keep the counts through every unlinking and new start.
* `MonitorProofs`, monitors: `TypeCorrect`, `JoulesCountedOnce`, `SummaryIsFair`,
  `CapIsKept`, and `OneThreadInLibrary` under `PromptThread`. The invariant says
  who has the mutex at which step, what the totals lack at each step
  inside `take_measurement`, and which steps of `main` and of the thread
  exclude one another. Each total of the summary, whenever it is loaded, covers the
  time up to `main`'s own last measurement and counts nothing after the last
  poll; that the totals agree with each other is not claimed, and not so.
* `RaplInitProofs`: `TypeCorrect`, `LocksNotForgotten` (an action property),
  `NoLockedWrite`, `FirstInitTells`, `ReadingFirstIsSafe`, for any number of
  sockets and the whole table of models. The flags are those of the
  model less what `rapl_init` took away (`FlagsKnown`), and once anything was
  read the arrays are complete (`ReadFirst`). Every model of the table has the
  package limit (`AllHavePkgLimit`, computed from the code's hexadecimal masks);
  without that a first result of 0 would not tell that nothing is locked. Reads may be
  refused in any way: `NoLockedWrite` is about the locks some `rapl_init` read
  (`heard`), `FirstInitTells` about the reads that were not refused to the first.
* `TopologyProofs`: `TypeCorrect`, `CoordinatesLead`, `MapTellsTheTruth`,
  `BatchesHaveRoom`, `PointersLead`, for machines of any shape. `TypeCorrect` holds
  with any processors offline and says that `core_config` divides by no zero: there are no
  fewer cores than sockets online and no fewer threads than cores
  (`OnlineCounts`). The others are about whole machines. A
  processor's number is one with three digits, and both numberings write the same
  digits in another order; that socket and core can be read off it
  (`TwoDigits`, `ThreeDigits` and what follows) is the arithmetic below all four theorems.
  The invariant says what `core_config` counted and `find_cpu_top` put in the map when
  every processor was there, and what it concluded from processor 1 about the
  numbering (`GuessRight`). The storage functions rest on the map alone: each loader is
  shown to make exactly one operation for each register and unit, in a place computed
  from both, which gives the room and the pointers at once. `BatchesHaveRoom` is about the
  models of the table, not about any set of flags: for `DRAM_PERF_STATUS` alone,
  which is no model's, the batch would have no room for the one register loaded.
* `RegistersProofs`: `TypeCorrect`, `FieldsReadBack`, `NeighboursKept`,
  `CountsAreOfOneKind`, for any number of units and counters, calls, refused pieces and
  interferences. First the tables of `FieldTables`, group by group: no two fields
  share a bit, a setter's fields lie in the getter's, a value that fits stays in
  its field when stored. Then two facts about words:
  what the batch holds outside the fields is what was last read (`HeldAsSeen`), and
  what a setter is about to write holds the values asked and of the old word only what
  it does not clear (`WordsAsAsked`); `UnclearedWhich` shows that this is `Leftover`. `NeighboursKept`
  is about registers that were read at least once. The invariant adds that fields fit
  (`FieldsFit`). For the counters: between the two
  writes of an enable the words of the counters are zero, and while the selectors change
  no counter is claimed (`CountersInv`).
* `CsrImcProofs`: `PrintsCorrect`, `NothingGoesAstray`, `OnlyOwnDevice`, for any
  number of channels, sockets and calls. All are about programs that keep to the
  terms, and so is the invariant: `~outside => InTerms`. It says that each pointer of
  `pmon_ctr_storage` leads to the register that is printed beside it (`PointersOK`),
  that the words of the batch of events are the events chosen last, whichever function
  wrote them all again (`CounterBatches`), that the registers select these once the
  write was done (`EventsOK`), and whose descriptor `batchfd` is (`DescriptorsOK`).
  The loader is the hard part: the operations it makes, in the order of
  the code's loops, are shown to be one for every channel and counter at the index that
  `init_pmon_ctrs` computes.

Only model-checked: liveness (`CallsReturn`, `EndsUnlessTwoFoes`,
`MonitorEnds`), which the provers do not reach. Where a run lists no type
invariant, a theorem establishes it, but for `CsrImc`, whose inductive invariant says
what shape the state has within the terms; its `TypeOK` holds on the instance of run
`csr` when it is added there. `ThermLogsAsAsked` is false, as run
`registers_logs` shows.

## 4. Disagreements between code and documentation

Run `registers_logs` shows one, and `PROJECT.json` quotes the line it goes
against. Further ones can be seen in seconds by hand, with another configuration
of this directory or, where the table says so, with a changed copy of one that
checks only the property named:

| Configuration | Property | What it shows |
|---|---|---|
| `MCMsrDevice_reinit` | `SuccessMeansOpen` | after `finalize_msr`, `init_msr` returns 0 with nothing open |
| `MCMsrDevice` with `MaxFd = 5`, `Disciplined = TRUE` | `FinalizeClosesAll` | the fallback to `msr` overwrites open descriptors |
| `MCMsrBatch` with `NumBatches = 1`, `MaxBlocks = 1`, no deadlock check, no symmetry | `SizeRespected` | one operation more than the size is accepted |
| the same | `FlagsMatchCall` | an operation created after a write keeps its read flag in the next write |
| `MCMsrBatch` | `FreeReleasesItsBatch` | `free_batch(b)` releases batch 2b |
| `MCRaplPoll_dram` | `DramWithinUsage` | a wrap of the DRAM register adds 2^32 - 1 joules |
| `MCRaplPoll_total` | `ExactTotal` | a package wrap loses one unit |
| `MCRaplPoll_failed` | `PowerAfterRefusedRead` | after a refused read, energy of two intervals over the time of one |
| `MCRaplPoll_dram` with `W = 8`, `PollReadsFail = TRUE` | `DramWithinUsage` | a counter whose first read is refused is reported with all its register shows |
| `MCRaplInit` | `EveryLockIsReported` | a refused read of a limit hides its lock |
| `MCRegisters` | `NotBlind` | a register that was never read is written, its other fields with zeros |
| `MCRaplLimit_stale` | `AlwaysKeepsOther` | a limit that was read back carries the other half along |
| `MCRaplLimit_window` | `WindowChecked` | a window too large is accepted and spills |
| `MCRaplLimit_race` | `AlwaysKeepsOther` | a concurrent update of the other half is undone |
| `MCRaplLimit_failed` | `AlwaysKeepsOther` | after a refused read the write clears the other half |
| `MCRaplLimit_dram` | `DramZeroMeansSet` | a refused write of the DRAM limit returns 0 |
| `MCHighlander` with `Together = TRUE`, `LogFails = FALSE`, `MaxCleans = 0` | `WaitsNoLonger` | with two foes the highlander never ends, although both have |
| the same with `SPECIFICATION ElectionSpec` and two processes | `WaitsForFoes` | with one foe the highlander does not wait |
| `MCPowMon` | `StoppedMeansStopped` | `main` ends while the thread measures: nothing waits for it |

## 5. Plan

Modelled in this order: tracker, descriptors, batches, RAPL polling and limits,
election, monitor threads, topology with the storages, RAPL initialisation,
uncore counters, registers and counters. Left to model: the dumps of
`msr_thermal.c` (which reading is printed for which core), `dump_turbo`, and
`cpuid.c` as the pure functions it consists of.

Theorems proved in this order: tracker, descriptors, monitor threads, RAPL polling,
limits, batches with their refinement, election, RAPL initialisation, registers and
counters, topology with the storages, uncore counters. With that no safety property
of a passing run is left; liveness stays with TLC.

## 6. Not modelled

Cpuid and the error handler (no state), the dumps that read and print,
`enable_turbo` and `disable_turbo` (they follow an array that `malloc` made and
nobody fills, in every execution), `msrmod` and `autoconf` (argument
parsing and printing), the tests, platform headers, build files and
documentation. `write_msr_by_idx_and_verify` is a write and a read of
`MsrDevice`. Exits on allocation failure end the program. Threads inside the
library are modelled where the repository creates them, which is only in the
monitor.
