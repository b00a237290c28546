------------------------------ MODULE RaplInit ------------------------------
(***************************************************************************)
(* How the RAPL part of libmsr comes to life, src/src/msr_rapl.c:          *)
(* rapl_storage makes the one block of data and of flags and asks setflags *)
(* what the model has; rapl_init then looks for locked registers and takes *)
(* their flags away; read_rapl_data makes the arrays its readings go to;   *)
(* everything else trusts these flags and arrays, in whatever order it is  *)
(* called.  An access through a pointer nobody set makes "broken" true:    *)
(* nothing follows.                                                        *)
(***************************************************************************)
EXTENDS RaplFlags, Integers, Sequences

CONSTANTS
    Socket,          \* the sockets: 0 .. N - 1
    Platforms,       \* models the program may run on; NoModel has no RAPL
    NoModel,
    GarbageFlags,    \* what malloc may leave where the flags go
    Refusals         \* the sets of reads the driver may refuse one rapl_init

\* What check_for_locks looks at, socket by socket, each after a read of its
\* own: bit 63 of the first package limit, bit 31 of the second, which is no
\* lock but reserved, bit 31 of the memory limit and of the turbo register.
LockReads == {"pkg", "pkg2", "dram", "tar"}
Lockable == {"pkg", "dram", "tar"}

ASSUME RaplInitAssumption ==
    /\ Socket # {} /\ Socket \subseteq Nat /\ IsFiniteSet(Socket)
    /\ Platforms \subseteq Models \cup {NoModel} /\ NoModel \notin Models
    /\ GarbageFlags \subseteq SUBSET FlagBits
    /\ Refusals \subseteq SUBSET (LockReads \X Socket)

VARIABLES
    model,      \* of the processors
    locked,     \* pairs of a register and a socket whose lock bit is set
    storage,    \* rapl_storage: "none", or initialised: "ok", "failed"
    flags,      \* *rapl_flags
    arrays,     \* the pointers in *rapl that lead to arrays
    readInit,   \* static init of read_rapl_data
    deltaInit,  \* static init of delta_rapl_data
    dumpInit,   \* static init of dump_rapl_data: "no", "yes", or "null" when
                \* its pointers stayed NULL
    last,       \* the last call: its name, its result and the registers it
                \* accessed, each as the bit the table gives it
    broken,     \* a pointer nobody set was followed
    first,      \* history: the result of the first rapl_init and the reads
                \* that were refused it
    heard,      \* history: the sockets whose memory limit is locked and was
                \* read by some rapl_init
    hasty       \* history: a delta or dump came before the first read

vars == <<model, locked, storage, flags, arrays, readInit, deltaInit,
          dumpInit, last, broken, first, heard, hasty>>

Platform == <<model, locked>>

Result(name, rc, regs) == [call |-> name, rc |-> rc, regs |-> regs]
NoResult == Result("none", 0, {})
FirstInit(rc, refused) == [rc |-> rc, refused |-> refused]
NotCalled == FirstInit(-2, {})
Energies == {PKG_ENERGY_STATUS, DRAM_ENERGY_STATUS}

Init ==
    /\ model \in Platforms
    /\ locked \in SUBSET (Lockable \X Socket)
    /\ storage = "none"
    /\ flags = {}
    /\ arrays = {}
    /\ readInit = FALSE
    /\ deltaInit = FALSE
    /\ dumpInit = "no"
    /\ last = NoResult
    /\ broken = FALSE
    /\ first = NotCalled
    /\ heard = {}
    /\ hasty = FALSE

Ready == ~broken

-----------------------------------------------------------------------------
(* rapl_storage: initialised by its first call, whether setflags succeeds  *)
(* or not; a later call returns 0 and the same pointers.                   *)

Outcome(st, fl, fails) == [storage |-> st, flags |-> fl, fails |-> fails]

\* Mutant: every call looks the flags up again.
RaplStorageAlways ==
    IF model = NoModel THEN {Outcome("failed", fl, TRUE) : fl \in GarbageFlags}
    ELSE {Outcome("ok", FlagsOf(model), FALSE)}

RaplStorage ==
    IF storage # "none" THEN {Outcome(storage, flags, FALSE)}
    ELSE IF model = NoModel THEN {Outcome("failed", fl, TRUE) : fl \in GarbageFlags}
    ELSE {Outcome("ok", FlagsOf(model), FALSE)}

\* A call that asks rapl_storage first and gives up when that fails.  After the
\* first call that did so its own static pointers are set, and lead to the same.
Trusting(name, then(_)) ==
    /\ Ready
    /\ \E st \in RaplStorage :
          /\ storage' = st.storage
          /\ \/ st.fails /\ flags' = st.flags /\ last' = Result(name, -1, {})
                /\ UNCHANGED <<arrays, readInit, deltaInit, broken>>
             \/ ~st.fails /\ then(st.flags)
    /\ UNCHANGED Platform

-----------------------------------------------------------------------------
(* rapl_init and check_for_locks.                                          *)

LockedIn(reg) == {s \in Socket : <<reg, s>> \in locked}

\* The turbo register is read where bit 9 is set, which the table gives to
\* MSR_PP0_POWER_LIMIT; the register itself is bit 16.
FlagOf == [dram |-> DRAM_POWER_LIMIT, tar |-> TURBO_ACTIVATION_RATIO]
Checked(fl) == {reg \in DOMAIN FlagOf : FlagOf[reg] \in fl}
Missing ==
    IF model = NoModel THEN LockReads
    ELSE {reg \in {"tar"} : 16 \notin FlagsOf(model)}

\* Sockets whose lock bit is set and is read.  The result of a read is not
\* looked at: where it is refused, or the register missing, the bit looked at
\* is that of another register or of the stack, and set or not.
ReadLocked(reg, refused) ==
    {s \in LockedIn(reg) : reg \notin Missing /\ <<reg, s>> \notin refused}
Unread(reg, refused) == {s \in Socket : reg \in Missing \/ <<reg, s>> \in refused}

\* Mutant of PkgLocks: the bits of both limits have to be set.
PkgLocksNever(fl, refused) == {FALSE}

\* Is a lock of the package limits counted?  A limit that reads 0 gets a time
\* window made of seconds nobody set (calc_rapl_bits), which may reach the lock
\* bit, and without the flag the second limit is not set at all: what is not
\* locked may look so.
PkgLocks(fl, refused) ==
    IF PKG_POWER_LIMIT \in fl /\ ReadLocked("pkg", refused) # {} THEN {TRUE} ELSE BOOLEAN

\* May the flag of the package limit go?  For that bit 31, reserved there, must
\* seem set in both limits of a socket; no read of a locked register shows it.
MayLosePkg(refused) == Unread("pkg2", refused) \ ReadLocked("pkg", refused) # {}

\* Mutant of Taken: only what every socket has locked.
TakenAll(fl, refused) == {{reg \in Checked(fl) : ReadLocked(reg, refused) = Socket}}

\* Registers whose flag goes, the first time one seems locked.  A memory limit
\* that reads 0 may; the turbo register is looked at as it was read.
Taken(fl, refused) ==
    {t \in SUBSET Checked(fl) :
        /\ \A reg \in Checked(fl) : ReadLocked(reg, refused) # {} => reg \in t
        /\ "tar" \in t => ReadLocked("tar", refused) \cup Unread("tar", refused) # {}}

\* The number of locks is 0, or 1 for any other.  (A library built for model 2D
\* leaves the turbo register out.)
CallRaplInit ==
    \E refused \in Refusals :
    LET check(fl) ==
          \E some \in PkgLocks(fl, refused), taken \in Taken(fl, refused), lost \in BOOLEAN :
             /\ lost => MayLosePkg(refused)
             /\ flags' = fl \ ({FlagOf[reg] : reg \in taken}
                                   \cup (IF lost THEN {PKG_POWER_LIMIT} ELSE {}))
             /\ last' = Result("rapl_init", IF some \/ lost \/ taken # {} THEN 1 ELSE 0,
                    (fl \cap {PKG_POWER_LIMIT, DRAM_POWER_LIMIT})
                       \cup {16 : reg \in Checked(fl) \cap {"tar"}})
             /\ UNCHANGED <<arrays, readInit, deltaInit, broken>>
    IN  /\ Trusting("rapl_init", check)
        /\ heard' = IF last'.rc = -1 THEN heard ELSE heard \cup ReadLocked("dram", refused)
        /\ first' = IF first = NotCalled THEN FirstInit(last'.rc, refused) ELSE first
        /\ UNCHANGED <<dumpInit, hasty>>

-----------------------------------------------------------------------------
(* Calls that read or write registers and keep nothing.                    *)

Plain(name, access(_)) ==
    LET done(fl) ==
          /\ flags' = fl
          /\ last' = Result(name, access(fl).rc, access(fl).regs)
          /\ UNCHANGED <<arrays, readInit, deltaInit, broken>>
    IN  /\ Trusting(name, done)
        /\ UNCHANGED <<dumpInit, first, heard, hasty>>

Access(rc, regs) == [rc |-> rc, regs |-> regs]

\* print_available_rapl.
PrintAvailableRapl == Plain("print_available_rapl", LAMBDA fl : Access(0, {}))

\* dump_rapl_data_terse_label: only the flags are looked at.
DumpRaplDataTerseLabel == Plain("dump_rapl_data_terse_label", LAMBDA fl : Access(0, {}))

\* dump_rapl_power_info: get_rapl_power_info, below, for every socket.
DumpRaplPowerInfo ==
    Plain("dump_rapl_power_info",
          LAMBDA fl : Access(0, fl \cap {PKG_POWER_INFO, DRAM_POWER_INFO}))

GetRaplPowerInfo ==
    Plain("get_rapl_power_info",
          LAMBDA fl : Access(0, fl \cap {PKG_POWER_INFO, DRAM_POWER_INFO}))

\* set_pkg_rapl_limit: a locked register refuses the write.
SetPkgRaplLimit(s) ==
    Plain("set_pkg_rapl_limit", LAMBDA fl :
        IF PKG_POWER_LIMIT \notin fl THEN Access(-1, {})
        ELSE Access(IF model = NoModel \/ s \in LockedIn("pkg") THEN -1 ELSE 0, {PKG_POWER_LIMIT}))

\* set_dram_rapl_limit: the result of the write is not looked at.
SetDramRaplLimit(s) ==
    Plain("set_dram_rapl_limit", LAMBDA fl :
        IF DRAM_POWER_LIMIT \notin fl THEN Access(-1, {})
        ELSE Access(0, {DRAM_POWER_LIMIT}))

\* get_max_turbo_activation_ratio.
GetMaxTurboActivationRatio ==
    Plain("get_max_turbo_activation_ratio", LAMBDA fl :
        IF TURBO_ACTIVATION_RATIO \in fl THEN Access(0, {16}) ELSE Access(-1, {}))

\* get_turbo_ratio_limit: the second register is looked for after the first.
GetTurboRatioLimit ==
    Plain("get_turbo_ratio_limit", LAMBDA fl :
        CASE TURBO_RATIO_LIMIT \notin fl -> Access(-1, {})
          [] {TURBO_RATIO_LIMIT, TURBO_RATIO_LIMIT1} \subseteq fl -> Access(0, {21, 22})
          [] OTHER -> Access(-1, {21}))

-----------------------------------------------------------------------------
(* Calls that use the arrays.                                              *)

\* Mutant of ArraysMade: the readings of the memory are made room for where
\* the register of its throttling is.
ArraysMadePerf(fl) ==
    (fl \cap {PKG_ENERGY_STATUS})
       \cup {DRAM_ENERGY_STATUS : f \in fl \cap {DRAM_PERF_STATUS}}

\* create_rapl_data_batch makes arrays for the energies the model has; the rest
\* of *rapl holds what malloc left.
ArraysMade(fl) == fl \cap Energies

\* The first read then clears the joules of package and memory, has the model
\* them or not.
ReadEffect(fl) ==
    /\ arrays' = IF readInit THEN arrays ELSE ArraysMade(fl)
    /\ readInit' = TRUE
    /\ broken' = (arrays' # Energies)

CallReadRaplData ==
    LET read(fl) == /\ flags' = fl
                    /\ ReadEffect(fl)
                    /\ last' = Result("read_rapl_data", 0, RaplDataLoaded(fl))
                    /\ UNCHANGED deltaInit
    IN  Trusting("read_rapl_data", read) /\ UNCHANGED <<dumpInit, first, heard, hasty>>

\* The first delta clears the watts of what the model has; a later one uses all
\* arrays it has, and those of the package even without, when no time passed.
DeltaBreaks(fl) ==
    IF ~deltaInit THEN {~(fl \cap Energies \subseteq arrays)}
    ELSE {~(fl \cap Energies \subseteq arrays), ~(PKG_ENERGY_STATUS \in arrays)}

CallDeltaRaplData ==
    LET delta(fl) == /\ flags' = fl
                     /\ broken' \in DeltaBreaks(fl)
                     /\ deltaInit' = TRUE
                     /\ last' = Result("delta_rapl_data", 0, {})
                     /\ UNCHANGED <<arrays, readInit>>
    IN  /\ Trusting("delta_rapl_data", delta)
        /\ hasty' = (hasty \/ ~readInit)
        /\ UNCHANGED <<dumpInit, first, heard>>

\* A read, then a delta.
ReadThenDelta(name) ==
    LET poll(fl) == /\ flags' = fl
                    /\ ReadEffect(fl)
                    /\ deltaInit' = TRUE
                    /\ last' = Result(name, 0, RaplDataLoaded(fl))
    IN  Trusting(name, poll) /\ UNCHANGED <<dumpInit, first, heard, hasty>>

CallPollRaplData == ReadThenDelta("poll_rapl_data")

\* dump_rapl_data_terse prints the watts of what the model has, which the delta
\* has just used.
DumpRaplDataTerse == ReadThenDelta("dump_rapl_data_terse")

\* dump_rapl_data marks itself initialised before it asks rapl_storage: after a
\* failure the next call goes on with NULL.
CallDumpRaplData ==
    /\ Ready
    /\ hasty' = (hasty \/ ~readInit)
    /\ \E st \in IF dumpInit = "no" THEN RaplStorage
                 ELSE {Outcome(storage, flags, FALSE)} :
          /\ storage' = st.storage
          /\ flags' = st.flags
          /\ dumpInit' = IF st.fails THEN "null" ELSE IF dumpInit = "no" THEN "yes" ELSE dumpInit
          /\ broken' = (~st.fails /\ (dumpInit = "null"
                                      \/ ~(st.flags \cap Energies \subseteq arrays)))
          /\ last' = Result("dump_rapl_data", IF st.fails THEN -1 ELSE 0, {})
    /\ UNCHANGED <<model, locked, arrays, readInit, deltaInit, first, heard>>

Next ==
    \/ CallRaplInit
    \/ PrintAvailableRapl
    \/ DumpRaplDataTerseLabel
    \/ DumpRaplPowerInfo
    \/ GetRaplPowerInfo
    \/ \E s \in Socket : SetPkgRaplLimit(s) \/ SetDramRaplLimit(s)
    \/ GetMaxTurboActivationRatio
    \/ GetTurboRatioLimit
    \/ CallReadRaplData
    \/ CallDeltaRaplData
    \/ CallPollRaplData
    \/ DumpRaplDataTerse
    \/ CallDumpRaplData

Spec == Init /\ [][Next]_vars

-----------------------------------------------------------------------------
(* Properties.                                                             *)

CallNames ==
    {"none", "rapl_init", "print_available_rapl", "dump_rapl_data_terse_label",
     "dump_rapl_power_info", "get_rapl_power_info", "set_pkg_rapl_limit",
     "set_dram_rapl_limit", "get_max_turbo_activation_ratio",
     "get_turbo_ratio_limit", "read_rapl_data", "delta_rapl_data",
     "poll_rapl_data", "dump_rapl_data_terse", "dump_rapl_data"}

\* The state of the initialisation has its type.
TypeOK ==
    /\ model \in Platforms /\ locked \subseteq Lockable \X Socket
    /\ storage \in {"none", "ok", "failed"}
    /\ flags \subseteq FlagBits /\ arrays \subseteq Energies
    /\ readInit \in BOOLEAN /\ deltaInit \in BOOLEAN
    /\ dumpInit \in {"no", "yes", "null"}
    /\ last \in [call : CallNames, rc : Int, regs : SUBSET FlagBits]
    /\ broken \in BOOLEAN /\ hasty \in BOOLEAN
    /\ first \in [rc : Int, refused : SUBSET (LockReads \X Socket)]
    /\ heard \subseteq Socket

\* Flags taken away because a register is locked (msr_rapl.c:205) do not come
\* back, however often rapl_init is called ("Can now call init more than
\* once") and from whichever function rapl_storage is reached.
LocksStayKnown == [][storage = "ok" => storage' = "ok" /\ flags' \subseteq flags]_vars

\* Once a rapl_init has read a locked DRAM limit, on any socket, no call writes
\* one: it says that it cannot.  What earlier reads found, or were refused,
\* makes no difference.
NoWriteToLocked ==
    heard # {} => ~(last.call = "set_dram_rapl_limit" /\ last.rc = 0 /\ model # NoModel)

\* The first rapl_init returns 0 only if no power limit the model has is
\* locked on a socket where it could be read: its callers take any other value
\* for trouble.
FirstInitReportsLocks ==
    first.rc = 0 /\ model # NoModel =>
        \A s \in Socket :
            /\ <<"pkg", s>> \notin locked \ first.refused
            /\ DRAM_POWER_LIMIT \in FlagsOf(model) => <<"dram", s>> \notin locked \ first.refused

\* On a model with the energies of package and memory every order of calls in
\* which a read comes before the first delta and dump stays inside the arrays.
ReadFirstIsSafe ==
    model # NoModel /\ Energies \subseteq FlagsOf(model) /\ ~hasty => ~broken

\* "Make sure the dram energy status register exists" (msr_rapl.c:1383): a
\* model that lacks it can be read as well.  It cannot: msr_rapl.c:1350.
ReadableOnEveryModel == model # NoModel /\ ~hasty => ~broken

\* "Check if MSR_TURBO_ACTIVATION_RATIO exists on this platform"
\* (msr_turbo.c:154): only registers the table gives the model are read.
OnlyRegistersOfTheModel == storage = "ok" => last.regs \subseteq FlagsOf(model)

\* "Number of locked registers" (msr_rapl.h): 0 if there is none.  Also if the
\* driver refused the reads: their results are dropped (msr_rapl.c:918, 950).
EveryLockIsReported ==
    first.rc = 0 /\ model # NoModel => \A s \in Socket : <<"pkg", s>> \notin locked

\* "Number of locked registers" (msr_rapl.h): also the second time.
EveryInitReportsLocks ==
    last.call = "rapl_init" /\ model # NoModel => last.rc = first.rc

\* "else -1 if setflags() fails" (msr_rapl.h): also the second time.
UnsupportedStaysUnsupported ==
    last.call = "rapl_init" /\ model = NoModel => last.rc = -1
=============================================================================
