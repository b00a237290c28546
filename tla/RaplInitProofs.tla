--------------------------- MODULE RaplInitProofs ---------------------------
(***************************************************************************)
(* For any sockets, locked registers, refused reads and model of the table:*)
(* what rapl_init learns about locks stays known, its first result reports *)
(* those it could read, no memory limit it read as locked is written after *)
(* it, and reading first keeps every order of calls inside the arrays.     *)
(***************************************************************************)
EXTENDS RaplInit, FiniteSetTheorems, TLAPS

\* Before rapl_storage was asked nothing has happened.
Fresh ==
    storage = "none" => /\ flags = {} /\ arrays = {} /\ first = NotCalled /\ heard = {}
                        /\ ~readInit /\ ~deltaInit /\ dumpInit = "no"

\* The flags rapl_init may take away.
Loseable == {PKG_POWER_LIMIT, DRAM_POWER_LIMIT, TURBO_ACTIVATION_RATIO}

\* The flags are those of the model, less what rapl_init took away.
FlagsKnown ==
    model # NoModel /\ storage # "none" =>
        /\ storage = "ok" /\ dumpInit # "null"
        /\ flags \subseteq FlagsOf(model)
        /\ FlagsOf(model) \ Loseable \subseteq flags
        /\ first = NotCalled => flags = FlagsOf(model)
        /\ heard # {} => DRAM_POWER_LIMIT \notin flags

\* A read made the arrays for all later calls.
ReadFirst ==
    model # NoModel /\ Energies \subseteq FlagsOf(model) /\ ~hasty =>
        /\ ~broken
        /\ readInit => arrays = Energies
        /\ deltaInit \/ dumpInit # "no" => readInit

IInv == TypeOK /\ Fresh /\ FlagsKnown /\ ReadFirst /\ NoWriteToLocked /\ FirstInitReportsLocks

-----------------------------------------------------------------------------
(* The table of models.                                                    *)

LEMMA FlagNumbers ==
    /\ PKG_POWER_LIMIT = 1 /\ PKG_ENERGY_STATUS = 2 /\ DRAM_POWER_LIMIT = 5
    /\ DRAM_ENERGY_STATUS = 6 /\ TURBO_ACTIVATION_RATIO = 9
    /\ Energies = {2, 6} /\ FlagBits = 0 .. 22 /\ Loseable = {1, 5, 9}
BY DEF PKG_POWER_LIMIT, PKG_ENERGY_STATUS, DRAM_POWER_LIMIT, DRAM_ENERGY_STATUS,
       TURBO_ACTIVATION_RATIO, Energies, FlagBits, Loseable

LEMMA FlagsInTable == \A m : FlagsOf(m) \subseteq FlagBits
BY DEF FlagsOf, Bits

\* Every model of the table has a package limit.
LEMMA AllHavePkgLimit == \A m \in Models : PKG_POWER_LIMIT \in FlagsOf(m)
<1> DEFINE Masks == {\h407, \h20003, \h607, \hFE17, \h7FF, \h6007F7, \h1CEE17, \h1C01FF,
                     \h1CFE17, \h177, \h507FF, \h1EFE17}
<1>1. \A m \in Models : MF[m] \in Masks
  BY DEF Models, MF
<1>2. \A x \in Masks : 1 \in Bits(x)
  <2>1. 2^1 = 2
    OBVIOUS
  <2>2. QED
    BY <2>1 DEF Bits, FlagBits
<1>3. QED
  BY <1>1, <1>2 DEF FlagsOf, PKG_POWER_LIMIT

-----------------------------------------------------------------------------
(* rapl_storage.                                                           *)

\* What rapl_storage hands out, whether it is its first call or not.
LEMMA Asked ==
    ASSUME IInv, NEW st \in RaplStorage
    PROVE  /\ st.storage \in {"ok", "failed"} /\ st.flags \subseteq FlagBits
           /\ st.fails \in BOOLEAN
           /\ model # NoModel =>
                /\ st.storage = "ok" /\ st.fails = FALSE
                /\ st.flags \subseteq FlagsOf(model)
                /\ FlagsOf(model) \ Loseable \subseteq st.flags
                /\ first = NotCalled => st.flags = FlagsOf(model)
                /\ heard # {} => DRAM_POWER_LIMIT \notin st.flags
<1>1. CASE storage # "none"
  <2>1. st = Outcome(storage, flags, FALSE)
    BY <1>1 DEF RaplStorage
  <2>2. st.storage = storage /\ st.flags = flags /\ st.fails = FALSE
    BY <2>1 DEF Outcome
  <2>3. QED
    BY <1>1, <2>2 DEF IInv, TypeOK, FlagsKnown
<1>2. CASE storage = "none" /\ model = NoModel
  <2>1. PICK fl \in GarbageFlags : st = Outcome("failed", fl, TRUE)
    BY <1>2 DEF RaplStorage
  <2>2. st.storage = "failed" /\ st.flags = fl /\ st.fails = TRUE
    BY <2>1 DEF Outcome
  <2>3. fl \subseteq FlagBits
    BY RaplInitAssumption
  <2>4. QED
    BY <1>2, <2>2, <2>3
<1>3. CASE storage = "none" /\ model # NoModel
  <2>1. st = Outcome("ok", FlagsOf(model), FALSE)
    BY <1>3 DEF RaplStorage
  <2>2. st.storage = "ok" /\ st.flags = FlagsOf(model) /\ st.fails = FALSE
    BY <2>1 DEF Outcome
  <2>3. first = NotCalled /\ heard = {}
    BY <1>3 DEF IInv, Fresh
  <2>4. QED
    BY <2>2, <2>3, FlagsInTable
<1>4. QED
  BY <1>1, <1>2, <1>3

\* A step that asks rapl_storage, takes no flags away and reports no init.
Asks ==
    /\ \E st \in RaplStorage : storage' = st.storage /\ flags' = st.flags
    /\ UNCHANGED <<model, locked, first, heard>>
    /\ last' \in [call : CallNames, rc : Int, regs : SUBSET FlagBits]
    /\ last'.call = "set_dram_rapl_limit" /\ last'.rc = 0 /\ model # NoModel =>
          DRAM_POWER_LIMIT \in flags'

LEMMA AsksKeeps ==
    ASSUME IInv, Asks
    PROVE  /\ model' \in Platforms /\ locked' \subseteq Lockable \X Socket
           /\ storage' \in {"none", "ok", "failed"} /\ flags' \subseteq FlagBits
           /\ last' \in [call : CallNames, rc : Int, regs : SUBSET FlagBits]
           /\ first' \in [rc : Int, refused : SUBSET (LockReads \X Socket)]
           /\ heard' \subseteq Socket
           /\ storage' # "none"
           /\ (model # NoModel => dumpInit' # "null") => FlagsKnown'
           /\ NoWriteToLocked' /\ FirstInitReportsLocks'
<1>1. PICK st \in RaplStorage : storage' = st.storage /\ flags' = st.flags
  BY DEF Asks
<1>2. UNCHANGED <<model, locked, first, heard>>
  BY DEF Asks
<1>3. FirstInitReportsLocks'
  BY <1>2 DEF IInv, FirstInitReportsLocks
<1>4. NoWriteToLocked'
  BY <1>1, <1>2, Asked DEF Asks, NoWriteToLocked
<1>5. (model # NoModel => dumpInit' # "null") => FlagsKnown'
  BY <1>1, <1>2, Asked DEF FlagsKnown
<1>6. QED
  BY <1>1, <1>2, <1>3, <1>4, <1>5, Asked DEF IInv, TypeOK, Asks

-----------------------------------------------------------------------------
(* Calls that keep nothing.                                                *)

LastResults == [call : CallNames, rc : Int, regs : SUBSET FlagBits]

LEMMA ResultTyped ==
    ASSUME NEW name \in CallNames, NEW rc \in Int, NEW regs \in SUBSET FlagBits
    PROVE  /\ Result(name, rc, regs) \in LastResults
           /\ Result(name, rc, regs).call = name /\ Result(name, rc, regs).rc = rc
BY DEF Result, LastResults

\* What such a call may do.
Looks(name) ==
    /\ \E st \in RaplStorage, rc \in {0, -1}, regs \in SUBSET FlagBits :
          /\ storage' = st.storage /\ flags' = st.flags
          /\ last' = Result(name, rc, regs)
          /\ name = "set_dram_rapl_limit" /\ rc = 0 => DRAM_POWER_LIMIT \in st.flags
    /\ UNCHANGED <<model, locked, arrays, readInit, deltaInit, broken, dumpInit, first, heard, hasty>>

LEMMA AllLook ==
    ASSUME IInv
    PROVE  /\ PrintAvailableRapl => Looks("print_available_rapl")
           /\ DumpRaplDataTerseLabel => Looks("dump_rapl_data_terse_label")
           /\ DumpRaplPowerInfo => Looks("dump_rapl_power_info")
           /\ GetRaplPowerInfo => Looks("get_rapl_power_info")
           /\ (\E s \in Socket : SetPkgRaplLimit(s)) => Looks("set_pkg_rapl_limit")
           /\ (\E s \in Socket : SetDramRaplLimit(s)) => Looks("set_dram_rapl_limit")
           /\ GetMaxTurboActivationRatio => Looks("get_max_turbo_activation_ratio")
           /\ GetTurboRatioLimit => Looks("get_turbo_ratio_limit")
<1>1. PrintAvailableRapl => Looks("print_available_rapl")
  BY Asked, FlagNumbers DEF PrintAvailableRapl, Plain, Trusting, Access, Looks, Platform
<1>2. DumpRaplDataTerseLabel => Looks("dump_rapl_data_terse_label")
  BY Asked, FlagNumbers DEF DumpRaplDataTerseLabel, Plain, Trusting, Access, Looks, Platform
<1>3. DumpRaplPowerInfo => Looks("dump_rapl_power_info")
  BY Asked, FlagNumbers DEF DumpRaplPowerInfo, Plain, Trusting, Access, Looks, Platform,
         PKG_POWER_INFO, DRAM_POWER_INFO
<1>4. GetRaplPowerInfo => Looks("get_rapl_power_info")
  BY Asked, FlagNumbers DEF GetRaplPowerInfo, Plain, Trusting, Access, Looks, Platform,
         PKG_POWER_INFO, DRAM_POWER_INFO
<1>5. (\E s \in Socket : SetPkgRaplLimit(s)) => Looks("set_pkg_rapl_limit")
  BY Asked, FlagNumbers DEF SetPkgRaplLimit, Plain, Trusting, Access, Looks, Platform,
         PKG_POWER_LIMIT
<1>6. (\E s \in Socket : SetDramRaplLimit(s)) => Looks("set_dram_rapl_limit")
  BY Asked, FlagNumbers DEF SetDramRaplLimit, Plain, Trusting, Access, Looks, Platform,
         DRAM_POWER_LIMIT
<1>7. GetMaxTurboActivationRatio => Looks("get_max_turbo_activation_ratio")
  BY Asked, FlagNumbers DEF GetMaxTurboActivationRatio, Plain, Trusting, Access, Looks, Platform,
         TURBO_ACTIVATION_RATIO
<1>8. GetTurboRatioLimit => Looks("get_turbo_ratio_limit")
  BY Asked, FlagNumbers DEF GetTurboRatioLimit, Plain, Trusting, Access, Looks, Platform,
         TURBO_RATIO_LIMIT, TURBO_RATIO_LIMIT1
<1>9. QED
  BY <1>1, <1>2, <1>3, <1>4, <1>5, <1>6, <1>7, <1>8

LEMMA LooksInv ==
    ASSUME IInv, NEW name \in CallNames, Looks(name)
    PROVE  IInv'
<1>1. PICK st \in RaplStorage, rc \in {0, -1}, regs \in SUBSET FlagBits :
         /\ storage' = st.storage /\ flags' = st.flags
         /\ last' = Result(name, rc, regs)
         /\ name = "set_dram_rapl_limit" /\ rc = 0 => DRAM_POWER_LIMIT \in st.flags
  BY DEF Looks
<1>2. UNCHANGED <<model, locked, arrays, readInit, deltaInit, broken, dumpInit, first, heard, hasty>>
  BY DEF Looks
<1>3. rc \in Int
  OBVIOUS
<1>4. Asks
  BY <1>1, <1>2, <1>3, ResultTyped DEF Asks, LastResults
<1>5. model # NoModel => dumpInit # "null"
  BY DEF IInv, Fresh, FlagsKnown
<1>6. ReadFirst'
  BY <1>2 DEF IInv, ReadFirst
<1>7. QED
  BY <1>2, <1>4, <1>5, <1>6, AsksKeeps DEF IInv, TypeOK, Fresh

-----------------------------------------------------------------------------
(* Calls that use the arrays.                                              *)

\* What a read does to the arrays on a model with both energies.
LEMMA ReadMakesArrays ==
    ASSUME IInv, NEW fl, fl \subseteq FlagBits, ReadEffect(fl),
           model # NoModel /\ Energies \subseteq FlagsOf(model) =>
              FlagsOf(model) \ Loseable \subseteq fl
    PROVE  /\ arrays' \subseteq Energies /\ readInit' = TRUE /\ broken' \in BOOLEAN
           /\ model # NoModel /\ Energies \subseteq FlagsOf(model) /\ ~hasty =>
                ~broken' /\ arrays' = Energies
<1>1. arrays' \subseteq Energies
  BY DEF ReadEffect, ArraysMade, IInv, TypeOK
<1>2. ASSUME model # NoModel, Energies \subseteq FlagsOf(model), ~hasty
      PROVE  arrays' = Energies
  <2>1. Energies \subseteq fl
    BY <1>2, FlagNumbers
  <2>2. QED
    BY <1>2, <2>1 DEF ReadEffect, ArraysMade, IInv, ReadFirst
<1>3. QED
  BY <1>1, <1>2 DEF ReadEffect

\* A call that reads, and may go on with a delta.
Reads(name) ==
    /\ \E st \in RaplStorage, rc \in {0, -1}, regs \in SUBSET FlagBits :
          /\ storage' = st.storage /\ flags' = st.flags
          /\ last' = Result(name, rc, regs)
          /\ \/ st.fails /\ UNCHANGED <<arrays, readInit, deltaInit, broken>>
             \/ ~st.fails /\ ReadEffect(st.flags) /\ deltaInit' \in {deltaInit, TRUE}
    /\ UNCHANGED <<model, locked, dumpInit, first, heard, hasty>>

LEMMA LoadedTyped == \A fl \in SUBSET FlagBits : RaplDataLoaded(fl) \subseteq FlagBits
BY FlagNumbers DEF RaplDataLoaded

\* The same, as the actions say it.
Polls(name) ==
    /\ \E st \in RaplStorage :
          /\ storage' = st.storage
          /\ \/ st.fails /\ flags' = st.flags /\ last' = Result(name, -1, {})
                /\ UNCHANGED <<arrays, readInit, deltaInit, broken>>
             \/ ~st.fails /\ flags' = st.flags /\ ReadEffect(st.flags)
                /\ deltaInit' \in {deltaInit, TRUE}
                /\ last' = Result(name, 0, RaplDataLoaded(st.flags))
    /\ UNCHANGED <<model, locked, dumpInit, first, heard, hasty>>

LEMMA PollsReads == ASSUME IInv, NEW name, Polls(name) PROVE Reads(name)
<1>1. PICK st \in RaplStorage :
         /\ storage' = st.storage
         /\ \/ st.fails /\ flags' = st.flags /\ last' = Result(name, -1, {})
               /\ UNCHANGED <<arrays, readInit, deltaInit, broken>>
            \/ ~st.fails /\ flags' = st.flags /\ ReadEffect(st.flags)
               /\ deltaInit' \in {deltaInit, TRUE}
               /\ last' = Result(name, 0, RaplDataLoaded(st.flags))
  BY DEF Polls
<1>2. {} \in SUBSET FlagBits /\ RaplDataLoaded(st.flags) \in SUBSET FlagBits
  BY Asked, LoadedTyped
<1>3. UNCHANGED <<model, locked, dumpInit, first, heard, hasty>>
  BY DEF Polls
<1>4. CASE st.fails
  BY <1>1, <1>2, <1>3, <1>4 DEF Reads
<1>5. CASE ~st.fails
  BY <1>1, <1>2, <1>3, <1>5 DEF Reads
<1>6. QED
  BY <1>4, <1>5

LEMMA AllRead ==
    ASSUME IInv
    PROVE  /\ CallReadRaplData => Reads("read_rapl_data")
           /\ CallPollRaplData => Reads("poll_rapl_data")
           /\ DumpRaplDataTerse => Reads("dump_rapl_data_terse")
<1>1. CallReadRaplData => Polls("read_rapl_data")
  BY DEF CallReadRaplData, Trusting, Polls, Platform
<1>2. CallPollRaplData => Polls("poll_rapl_data")
  BY DEF CallPollRaplData, ReadThenDelta, Trusting, Polls, Platform
<1>3. DumpRaplDataTerse => Polls("dump_rapl_data_terse")
  BY DEF DumpRaplDataTerse, ReadThenDelta, Trusting, Polls, Platform
<1>4. QED
  BY <1>1, <1>2, <1>3, PollsReads

LEMMA ReadsInv ==
    ASSUME IInv, NEW name \in CallNames, name # "set_dram_rapl_limit", Reads(name)
    PROVE  IInv'
<1>1. PICK st \in RaplStorage, rc \in {0, -1}, regs \in SUBSET FlagBits :
         /\ storage' = st.storage /\ flags' = st.flags
         /\ last' = Result(name, rc, regs)
         /\ \/ st.fails /\ UNCHANGED <<arrays, readInit, deltaInit, broken>>
            \/ ~st.fails /\ ReadEffect(st.flags) /\ deltaInit' \in {deltaInit, TRUE}
  BY DEF Reads
<1>2. UNCHANGED <<model, locked, dumpInit, first, heard, hasty>>
  BY DEF Reads
<1>3. rc \in Int
  OBVIOUS
<1>4. Asks
  BY <1>1, <1>2, <1>3, ResultTyped DEF Asks, LastResults
<1>5. model # NoModel => dumpInit # "null"
  BY DEF IInv, Fresh, FlagsKnown
<1>6. /\ arrays' \subseteq Energies /\ readInit' \in BOOLEAN /\ deltaInit' \in BOOLEAN
      /\ broken' \in BOOLEAN /\ ReadFirst'
  <2>1. CASE st.fails
    <3>1. model = NoModel
      BY <2>1, Asked
    <3>2. UNCHANGED <<arrays, readInit, deltaInit, broken>>
      BY <1>1, <2>1
    <3>3. QED
      BY <1>2, <3>1, <3>2 DEF IInv, TypeOK, ReadFirst
  <2>2. CASE ~st.fails
    <3>1. ReadEffect(st.flags) /\ deltaInit' \in {deltaInit, TRUE}
      BY <1>1, <2>2
    <3>2. /\ arrays' \subseteq Energies /\ readInit' = TRUE /\ broken' \in BOOLEAN
          /\ model # NoModel /\ Energies \subseteq FlagsOf(model) /\ ~hasty =>
               ~broken' /\ arrays' = Energies
      BY <3>1, Asked, ReadMakesArrays
    <3>3. QED
      BY <1>2, <3>1, <3>2 DEF IInv, TypeOK, ReadFirst
  <2>3. QED
    BY <2>1, <2>2
<1>7. QED
  BY <1>2, <1>4, <1>5, <1>6, AsksKeeps DEF IInv, TypeOK, Fresh

\* delta_rapl_data, as its two outcomes.
Deltas ==
    /\ \E st \in RaplStorage, rc \in {0, -1} :
          /\ storage' = st.storage /\ flags' = st.flags
          /\ last' = Result("delta_rapl_data", rc, {})
          /\ UNCHANGED <<arrays, readInit>>
          /\ \/ st.fails /\ UNCHANGED <<deltaInit, broken>>
             \/ ~st.fails /\ broken' \in DeltaBreaks(st.flags) /\ deltaInit' = TRUE
    /\ hasty' = (hasty \/ ~readInit)
    /\ UNCHANGED <<model, locked, dumpInit, first, heard>>

LEMMA DeltaInv == ASSUME IInv, CallDeltaRaplData PROVE IInv'
<1>1. Deltas
  BY DEF CallDeltaRaplData, Trusting, Deltas, Platform
<1>2. PICK st \in RaplStorage, rc \in {0, -1} :
         /\ storage' = st.storage /\ flags' = st.flags
         /\ last' = Result("delta_rapl_data", rc, {})
         /\ UNCHANGED <<arrays, readInit>>
         /\ \/ st.fails /\ UNCHANGED <<deltaInit, broken>>
            \/ ~st.fails /\ broken' \in DeltaBreaks(st.flags) /\ deltaInit' = TRUE
  BY <1>1 DEF Deltas
<1>3. hasty' = (hasty \/ ~readInit) /\ UNCHANGED <<model, locked, dumpInit, first, heard>>
  BY <1>1 DEF Deltas
<1>4. rc \in Int /\ {} \in SUBSET FlagBits /\ "delta_rapl_data" \in CallNames
  <2>1. rc \in Int
    OBVIOUS
  <2>2. "delta_rapl_data" \in CallNames
    BY DEF CallNames
  <2>3. QED
    BY <2>1, <2>2
<1>5. Asks
  <2>1. last' \in LastResults /\ last'.call = "delta_rapl_data"
    <3>1. last' = Result("delta_rapl_data", rc, {})
      BY <1>2
    <3>2. last'.call = "delta_rapl_data"
      BY <3>1 DEF Result
    <3>3. Result("delta_rapl_data", rc, {}) \in LastResults
      BY <1>4, ResultTyped
    <3>4. QED
      BY <3>1, <3>2, <3>3
  <2>2. QED
    BY <1>2, <1>3, <2>1 DEF Asks, LastResults
<1>6. model # NoModel => dumpInit # "null"
  BY DEF IInv, Fresh, FlagsKnown
<1>7. broken' \in BOOLEAN /\ deltaInit' \in BOOLEAN /\ hasty' \in BOOLEAN
  BY <1>2, <1>3 DEF DeltaBreaks, IInv, TypeOK
<1>8. ReadFirst'
  <2>1. SUFFICES ASSUME model # NoModel, Energies \subseteq FlagsOf(model), ~hasty'
                 PROVE  ~broken' /\ arrays' = Energies /\ readInit'
    BY <1>3 DEF ReadFirst
  <2>2. ~hasty /\ readInit /\ arrays = Energies
    BY <2>1, <1>3 DEF IInv, TypeOK, ReadFirst
  <2>3. st.fails = FALSE
    BY <2>1, Asked
  <2>4. DeltaBreaks(st.flags) = {FALSE}
    BY <2>2 DEF DeltaBreaks, Energies
  <2>5. QED
    BY <1>2, <2>2, <2>3, <2>4
<1>9. QED
  BY <1>2, <1>3, <1>5, <1>6, <1>7, <1>8, AsksKeeps DEF IInv, TypeOK, Fresh

LEMMA DumpInv == ASSUME IInv, CallDumpRaplData PROVE IInv'
<1>1. PICK st \in IF dumpInit = "no" THEN RaplStorage
                  ELSE {Outcome(storage, flags, FALSE)} :
         /\ storage' = st.storage
         /\ flags' = st.flags
         /\ dumpInit' = IF st.fails THEN "null" ELSE IF dumpInit = "no" THEN "yes" ELSE dumpInit
         /\ broken' = (~st.fails /\ (dumpInit = "null"
                                     \/ ~(st.flags \cap Energies \subseteq arrays)))
         /\ last' = Result("dump_rapl_data", IF st.fails THEN -1 ELSE 0, {})
  BY DEF CallDumpRaplData
<1>2. hasty' = (hasty \/ ~readInit)
  BY DEF CallDumpRaplData
<1>3. UNCHANGED <<model, locked, arrays, readInit, deltaInit, first, heard>>
  BY DEF CallDumpRaplData
<1>4. st \in RaplStorage
  BY <1>1 DEF RaplStorage, IInv, Fresh
<1>5. /\ (IF st.fails THEN -1 ELSE 0) \in Int
      /\ {} \in SUBSET FlagBits /\ "dump_rapl_data" \in CallNames
  <2>1. (IF st.fails THEN -1 ELSE 0) \in Int
    OBVIOUS
  <2>2. "dump_rapl_data" \in CallNames
    BY DEF CallNames
  <2>3. QED
    BY <2>1, <2>2
<1>6. Asks
  <2>1. last' \in LastResults /\ last'.call = "dump_rapl_data"
    <3>1. last' = Result("dump_rapl_data", (IF st.fails THEN -1 ELSE 0), {})
      BY <1>1
    <3>2. last'.call = "dump_rapl_data"
      BY <3>1 DEF Result
    <3>3. Result("dump_rapl_data", (IF st.fails THEN -1 ELSE 0), {}) \in LastResults
      BY <1>5, ResultTyped
    <3>4. QED
      BY <3>1, <3>2, <3>3
  <2>2. QED
    BY <1>1, <1>3, <1>4, <2>1 DEF Asks, LastResults
<1>7. /\ dumpInit' \in {"no", "yes", "null"} /\ broken' \in BOOLEAN /\ hasty' \in BOOLEAN
      /\ model # NoModel => dumpInit' # "null"
  <2>1. model # NoModel => st.fails = FALSE
    BY <1>4, Asked
  <2>2. model # NoModel => dumpInit # "null"
    BY DEF IInv, Fresh, FlagsKnown
  <2>3. QED
    BY <1>1, <1>2, <2>1, <2>2 DEF IInv, TypeOK
<1>8. ReadFirst'
  <2>1. SUFFICES ASSUME model # NoModel, Energies \subseteq FlagsOf(model), ~hasty'
                 PROVE  ~broken' /\ arrays' = Energies /\ readInit'
    BY <1>3 DEF ReadFirst
  <2>2. ~hasty /\ readInit /\ arrays = Energies
    BY <2>1, <1>2 DEF IInv, TypeOK, ReadFirst
  <2>3. dumpInit # "null"
    BY <2>1 DEF IInv, Fresh, FlagsKnown
  <2>4. st.flags \cap Energies \subseteq arrays
    BY <2>2
  <2>5. QED
    BY <1>1, <1>3, <2>2, <2>3, <2>4
<1>9. QED
  BY <1>1, <1>3, <1>6, <1>7, <1>8, AsksKeeps DEF IInv, TypeOK, Fresh

-----------------------------------------------------------------------------
(* rapl_init.                                                              *)

\* What Taken may take, and when it takes nothing.
LEMMA TakesTheLocked ==
    ASSUME NEW fl, NEW refused, NEW t \in Taken(fl, refused)
    PROVE  /\ {FlagOf[reg] : reg \in t} \subseteq Loseable
           /\ ReadLocked("dram", refused) # {} /\ DRAM_POWER_LIMIT \in fl =>
                "dram" \in t /\ DRAM_POWER_LIMIT \in {FlagOf[reg] : reg \in t}
<1>1. DOMAIN FlagOf = {"dram", "tar"}
  BY DEF FlagOf
<1>2. FlagOf["dram"] = DRAM_POWER_LIMIT /\ FlagOf["tar"] = TURBO_ACTIVATION_RATIO
  BY DEF FlagOf
<1>3. t \subseteq {"dram", "tar"}
  BY <1>1 DEF Taken, Checked
<1>4. DRAM_POWER_LIMIT \in fl => "dram" \in Checked(fl)
  BY <1>1, <1>2 DEF Checked
<1>5. ReadLocked("dram", refused) # {} /\ DRAM_POWER_LIMIT \in fl => "dram" \in t
  BY <1>4 DEF Taken
<1>6. QED
  BY <1>2, <1>3, <1>5 DEF Loseable

\* On a model of the table the limits can be read unless the driver refuses.
LEMMA LimitsAreThere ==
    ASSUME model # NoModel, NEW refused, NEW reg \in {"pkg", "dram"}
    PROVE  ReadLocked(reg, refused) = {s \in Socket : <<reg, s>> \in locked \ refused}
BY DEF ReadLocked, Missing, LockedIn

\* rapl_init that got as far as its checks.
Checks(fl, refused) ==
    /\ \E some \in PkgLocks(fl, refused), taken \in Taken(fl, refused), lost \in BOOLEAN,
          regs \in SUBSET FlagBits :
          /\ flags' = fl \ ({FlagOf[reg] : reg \in taken}
                                \cup (IF lost THEN {PKG_POWER_LIMIT} ELSE {}))
          /\ last' = Result("rapl_init", IF some \/ lost \/ taken # {} THEN 1 ELSE 0, regs)
    /\ UNCHANGED <<arrays, readInit, deltaInit, broken>>

\* rapl_init, as its two outcomes.
Begins(refused) ==
    /\ \E st \in RaplStorage :
          /\ storage' = st.storage
          /\ \/ st.fails /\ flags' = st.flags /\ last' = Result("rapl_init", -1, {})
                /\ UNCHANGED <<arrays, readInit, deltaInit, broken>>
             \/ ~st.fails /\ Checks(st.flags, refused)
    /\ heard' = IF last'.rc = -1 THEN heard ELSE heard \cup ReadLocked("dram", refused)
    /\ first' = IF first = NotCalled THEN FirstInit(last'.rc, refused) ELSE first
    /\ UNCHANGED <<model, locked, dumpInit, hasty>>

LEMMA InitBegins == ASSUME IInv, CallRaplInit PROVE \E refused \in Refusals : Begins(refused)
<1> DEFINE regs(fl) == (fl \cap {PKG_POWER_LIMIT, DRAM_POWER_LIMIT})
                          \cup {16 : reg \in Checked(fl) \cap {"tar"}}
<1>1. \A fl \in SUBSET FlagBits : regs(fl) \in SUBSET FlagBits
  BY FlagNumbers
<1> HIDE DEF regs
<1>2. PICK refused \in Refusals, st \in RaplStorage :
         /\ storage' = st.storage
         /\ \/ st.fails /\ flags' = st.flags /\ last' = Result("rapl_init", -1, {})
               /\ UNCHANGED <<arrays, readInit, deltaInit, broken>>
            \/ /\ ~st.fails
               /\ \E some \in PkgLocks(st.flags, refused), taken \in Taken(st.flags, refused),
                     lost \in BOOLEAN :
                     /\ flags' = st.flags \ ({FlagOf[reg] : reg \in taken}
                                               \cup (IF lost THEN {PKG_POWER_LIMIT} ELSE {}))
                     /\ last' = Result("rapl_init", IF some \/ lost \/ taken # {} THEN 1 ELSE 0,
                                       regs(st.flags))
                     /\ UNCHANGED <<arrays, readInit, deltaInit, broken>>
         /\ heard' = IF last'.rc = -1 THEN heard ELSE heard \cup ReadLocked("dram", refused)
         /\ first' = IF first = NotCalled THEN FirstInit(last'.rc, refused) ELSE first
         /\ UNCHANGED <<model, locked, dumpInit, hasty>>
  BY DEF CallRaplInit, Trusting, Platform, regs
<1>3. regs(st.flags) \in SUBSET FlagBits
  BY <1>1, Asked
<1>4. CASE st.fails
  BY <1>2, <1>4 DEF Begins
<1>5. CASE ~st.fails
  <2>1. Checks(st.flags, refused)
    BY <1>2, <1>3, <1>5 DEF Checks
  <2>2. QED
    BY <1>2, <1>5, <2>1 DEF Begins
<1>6. QED
  BY <1>4, <1>5

\* What rapl_init leaves in the flags, and what its result tells.
LEMMA CheckedLocks ==
    ASSUME IInv, NEW st \in RaplStorage, NEW refused, Checks(st.flags, refused)
    PROVE  /\ flags' \subseteq st.flags
           /\ last' \in LastResults /\ last'.call = "rapl_init" /\ last'.rc \in {0, 1}
           /\ FlagsOf(model) \ Loseable \subseteq st.flags => FlagsOf(model) \ Loseable \subseteq flags'
           /\ ReadLocked("dram", refused) # {} => DRAM_POWER_LIMIT \notin flags'
           /\ last'.rc = 0 =>
                /\ PKG_POWER_LIMIT \in st.flags => ReadLocked("pkg", refused) = {}
                /\ DRAM_POWER_LIMIT \in st.flags => ReadLocked("dram", refused) = {}
<1>1. PICK some \in PkgLocks(st.flags, refused), taken \in Taken(st.flags, refused),
           lost \in BOOLEAN, regs \in SUBSET FlagBits :
         /\ flags' = st.flags \ ({FlagOf[reg] : reg \in taken}
                                   \cup (IF lost THEN {PKG_POWER_LIMIT} ELSE {}))
         /\ last' = Result("rapl_init", IF some \/ lost \/ taken # {} THEN 1 ELSE 0, regs)
  BY DEF Checks
<1> DEFINE rc == IF some \/ lost \/ taken # {} THEN 1 ELSE 0
<1>2. rc \in {0, 1} /\ rc \in Int
  OBVIOUS
<1>3. last' \in LastResults /\ last'.call = "rapl_init" /\ last'.rc = rc
  <2>1. "rapl_init" \in CallNames
    BY DEF CallNames
  <2>2. last' = Result("rapl_init", rc, regs)
    BY <1>1
  <2> HIDE DEF rc
  <2>3. QED
    BY <1>2, <2>1, <2>2, ResultTyped
<1>4. ASSUME rc = 0
      PROVE  /\ PKG_POWER_LIMIT \in st.flags => ReadLocked("pkg", refused) = {}
             /\ DRAM_POWER_LIMIT \in st.flags => ReadLocked("dram", refused) = {}
  <2>1. ~some /\ taken = {}
    BY <1>4
  <2>2. PKG_POWER_LIMIT \in st.flags => ReadLocked("pkg", refused) = {}
    BY <2>1 DEF PkgLocks
  <2>3. QED
    BY <2>1, <2>2, TakesTheLocked
<1>5. ReadLocked("dram", refused) # {} => DRAM_POWER_LIMIT \notin flags'
  BY <1>1, TakesTheLocked
<1>6. PKG_POWER_LIMIT \in Loseable
  BY DEF Loseable
<1> HIDE DEF rc
<1>7. QED
  BY <1>1, <1>2, <1>3, <1>4, <1>5, <1>6, TakesTheLocked

LEMMA RaplInitInv == ASSUME IInv, CallRaplInit PROVE IInv'
<1>1. PICK refused \in Refusals : Begins(refused)
  BY InitBegins
<1>2. PICK st \in RaplStorage :
         /\ storage' = st.storage
         /\ \/ st.fails /\ flags' = st.flags /\ last' = Result("rapl_init", -1, {})
               /\ UNCHANGED <<arrays, readInit, deltaInit, broken>>
            \/ ~st.fails /\ Checks(st.flags, refused)
  BY <1>1 DEF Begins
<1>3. /\ heard' = IF last'.rc = -1 THEN heard ELSE heard \cup ReadLocked("dram", refused)
      /\ first' = IF first = NotCalled THEN FirstInit(last'.rc, refused) ELSE first
  BY <1>1 DEF Begins
<1>4. UNCHANGED <<model, locked, dumpInit, hasty>>
  BY <1>1 DEF Begins
<1>5. UNCHANGED <<arrays, readInit, deltaInit, broken>>
  BY <1>2 DEF Checks
<1>6. last' \in LastResults /\ last'.call = "rapl_init" /\ last'.rc \in {-1, 0, 1}
  <2>1. CASE st.fails
    <3>1. last' = Result("rapl_init", -1, {})
      BY <1>2, <2>1
    <3>2. -1 \in Int
      OBVIOUS
    <3>3. "rapl_init" \in CallNames
      BY DEF CallNames
    <3>4. QED
      BY <3>1, <3>2, <3>3, ResultTyped
  <2>2. CASE ~st.fails
    BY <1>2, <2>2, CheckedLocks
  <2>3. QED
    BY <2>1, <2>2
<1>7. first' \in [rc : Int, refused : SUBSET (LockReads \X Socket)] /\ heard' \subseteq Socket
  <2>1. refused \in SUBSET (LockReads \X Socket)
    BY RaplInitAssumption
  <2>2. FirstInit(last'.rc, refused) \in [rc : Int, refused : SUBSET (LockReads \X Socket)]
    BY <1>6, <2>1 DEF FirstInit
  <2>3. ReadLocked("dram", refused) \subseteq Socket
    BY DEF ReadLocked, LockedIn
  <2>4. QED
    BY <1>3, <2>2, <2>3 DEF IInv, TypeOK
<1>8. first' # NotCalled
  <2>1. FirstInit(last'.rc, refused).rc = last'.rc /\ NotCalled.rc = -2
    BY DEF FirstInit, NotCalled
  <2>2. last'.rc # -2
    BY <1>6
  <2>3. QED
    BY <1>3, <2>1, <2>2
<1>9. TypeOK'
  <2>1. storage' \in {"ok", "failed"} /\ flags' \subseteq FlagBits
    BY <1>2, Asked, CheckedLocks
  <2>2. QED
    BY <1>4, <1>5, <1>6, <1>7, <2>1 DEF IInv, TypeOK, LastResults
<1>10. Fresh'
  BY <1>2, Asked DEF Fresh
<1>11. ASSUME model # NoModel PROVE st.fails = FALSE /\ Checks(st.flags, refused)
  BY <1>2, <1>11, Asked
<1>12. FlagsKnown'
  <2>1. SUFFICES ASSUME model # NoModel PROVE FlagsKnown'
    BY <1>4 DEF FlagsKnown
  <2>2. storage' = "ok" /\ dumpInit' # "null"
    BY <1>2, <1>4, <2>1, Asked DEF IInv, Fresh, FlagsKnown
  <2>3. flags' \subseteq FlagsOf(model) /\ FlagsOf(model) \ Loseable \subseteq flags'
    BY <1>11, <2>1, Asked, CheckedLocks
  <2>4. ASSUME heard' # {} PROVE DRAM_POWER_LIMIT \notin flags'
    <3>1. CASE heard # {}
      BY <1>11, <2>1, <3>1, Asked, CheckedLocks
    <3>2. CASE heard = {}
      <4>1. ReadLocked("dram", refused) # {}
        BY <1>3, <2>4, <3>2
      <4>2. QED
        BY <1>11, <2>1, <4>1, CheckedLocks
    <3>3. QED
      BY <3>1, <3>2
  <2>5. QED
    BY <1>4, <1>8, <2>2, <2>3, <2>4 DEF FlagsKnown
<1>13. ReadFirst'
  BY <1>4, <1>5 DEF IInv, ReadFirst
<1>14. NoWriteToLocked'
  BY <1>6 DEF NoWriteToLocked
<1>15. FirstInitReportsLocks'
  <2>1. SUFFICES ASSUME first'.rc = 0, model # NoModel, NEW s \in Socket
                 PROVE  /\ <<"pkg", s>> \notin locked \ first'.refused
                        /\ DRAM_POWER_LIMIT \in FlagsOf(model) => <<"dram", s>> \notin locked \ first'.refused
    BY <1>4 DEF FirstInitReportsLocks
  <2>2. CASE first = NotCalled
    <3>1. first'.rc = last'.rc /\ first'.refused = refused
      BY <1>3, <2>2 DEF FirstInit
    <3>2. st.flags = FlagsOf(model)
      BY <2>1, <2>2, Asked
    <3>3. model \in Models
      BY <2>1, RaplInitAssumption DEF IInv, TypeOK
    <3>4. PKG_POWER_LIMIT \in st.flags
      BY <3>2, <3>3, AllHavePkgLimit
    <3>5. /\ ReadLocked("pkg", refused) = {}
          /\ DRAM_POWER_LIMIT \in FlagsOf(model) => ReadLocked("dram", refused) = {}
      BY <1>11, <2>1, <3>1, <3>2, <3>4, CheckedLocks
    <3>6. QED
      BY <2>1, <3>1, <3>5, LimitsAreThere
  <2>3. CASE first # NotCalled
    BY <1>3, <2>1, <2>3 DEF IInv, FirstInitReportsLocks
  <2>4. QED
    BY <2>2, <2>3
<1>16. QED
  BY <1>9, <1>10, <1>12, <1>13, <1>14, <1>15 DEF IInv

-----------------------------------------------------------------------------
(* The theorems.                                                           *)

LEMMA InitInv == ASSUME Init PROVE IInv
<1>1. first \in [rc : Int, refused : SUBSET (LockReads \X Socket)] /\ first.rc = -2
  BY DEF Init, NotCalled, FirstInit
<1>2. last \in [call : CallNames, rc : Int, regs : SUBSET FlagBits]
  <2>1. "none" \in CallNames
    BY DEF CallNames
  <2>2. last = Result("none", 0, {}) /\ 0 \in Int /\ {} \in SUBSET FlagBits
    BY DEF Init, NoResult
  <2>3. QED
    BY <2>1, <2>2, ResultTyped DEF LastResults
<1>3. last.call = "none"
  BY DEF Init, NoResult, Result
<1>4. TypeOK
  <2>1. first \in [rc : Int, refused : SUBSET (LockReads \X Socket)] /\ heard \subseteq Socket
    BY <1>1 DEF Init
  <2>2. readInit \in BOOLEAN /\ deltaInit \in BOOLEAN /\ broken \in BOOLEAN /\ hasty \in BOOLEAN
    BY DEF Init
  <2>3. locked \subseteq Lockable \X Socket
    BY DEF Init
  <2>4. QED
    BY <1>2, <2>1, <2>2, <2>3 DEF Init, TypeOK
<1>5. Fresh /\ FlagsKnown
  BY DEF Init, Fresh, FlagsKnown
<1>6. ReadFirst
  BY DEF Init, ReadFirst
<1>7. NoWriteToLocked /\ FirstInitReportsLocks
  BY <1>1 DEF Init, NoWriteToLocked, FirstInitReportsLocks
<1>8. QED
  BY <1>4, <1>5, <1>6, <1>7 DEF IInv

LEMMA NamesOfCalls ==
    /\ "print_available_rapl" \in CallNames /\ "dump_rapl_data_terse_label" \in CallNames
    /\ "dump_rapl_power_info" \in CallNames /\ "get_rapl_power_info" \in CallNames
    /\ "set_pkg_rapl_limit" \in CallNames /\ "set_dram_rapl_limit" \in CallNames
    /\ "get_max_turbo_activation_ratio" \in CallNames /\ "get_turbo_ratio_limit" \in CallNames
    /\ "read_rapl_data" \in CallNames /\ "poll_rapl_data" \in CallNames
    /\ "dump_rapl_data_terse" \in CallNames
BY DEF CallNames

LEMMA Step == ASSUME IInv, [Next]_vars PROVE IInv'
<1>1. CASE CallRaplInit
  BY <1>1, RaplInitInv
<1>2. CASE PrintAvailableRapl
  BY <1>2, AllLook, LooksInv, NamesOfCalls
<1>3. CASE DumpRaplDataTerseLabel
  BY <1>3, AllLook, LooksInv, NamesOfCalls
<1>4. CASE DumpRaplPowerInfo
  BY <1>4, AllLook, LooksInv, NamesOfCalls
<1>5. CASE GetRaplPowerInfo
  BY <1>5, AllLook, LooksInv, NamesOfCalls
<1>6. CASE \E s \in Socket : SetPkgRaplLimit(s)
  BY <1>6, AllLook, LooksInv, NamesOfCalls
<1>7. CASE \E s \in Socket : SetDramRaplLimit(s)
  BY <1>7, AllLook, LooksInv, NamesOfCalls
<1>8. CASE GetMaxTurboActivationRatio
  BY <1>8, AllLook, LooksInv, NamesOfCalls
<1>9. CASE GetTurboRatioLimit
  BY <1>9, AllLook, LooksInv, NamesOfCalls
<1>10. CASE CallReadRaplData
  BY <1>10, AllRead, ReadsInv, NamesOfCalls
<1>11. CASE CallDeltaRaplData
  BY <1>11, DeltaInv
<1>12. CASE CallPollRaplData
  BY <1>12, AllRead, ReadsInv, NamesOfCalls
<1>13. CASE DumpRaplDataTerse
  BY <1>13, AllRead, ReadsInv, NamesOfCalls
<1>14. CASE CallDumpRaplData
  BY <1>14, DumpInv
<1>15. CASE UNCHANGED vars
  BY <1>15 DEF vars, IInv, TypeOK, Fresh, FlagsKnown, ReadFirst, NoWriteToLocked,
               FirstInitReportsLocks, LockedIn
<1>16. QED
  BY <1>1, <1>2, <1>3, <1>4, <1>5, <1>6, <1>7, <1>8, <1>9, <1>10, <1>11, <1>12,
     <1>13, <1>14, <1>15 DEF Next

\* The inductive invariant holds in every state the calls can reach.
THEOREM Invariance == Spec => []IInv
<1>1. Init => IInv
  BY InitInv
<1>2. IInv /\ [Next]_vars => IInv'
  BY Step
<1>3. QED
  BY <1>1, <1>2, PTL DEF Spec

\* The state rapl_storage and the calls keep has its type.
THEOREM TypeCorrect == Spec => []TypeOK
<1>1. IInv => TypeOK
  BY DEF IInv
<1>2. QED
  BY <1>1, Invariance, PTL

\* Once a rapl_init was not refused the read of a locked memory limit, no call
\* writes one (set_dram_rapl_limit trusts the flag check_for_locks took away),
\* whatever the reads of other calls and registers brought.
THEOREM NoLockedWrite == Spec => []NoWriteToLocked
<1>1. IInv => NoWriteToLocked
  BY DEF IInv
<1>2. QED
  BY <1>1, Invariance, PTL

\* A first rapl_init that returns 0 found no power limit locked among those it
\* was not refused to read; which may be refused is any choice of reads.
THEOREM FirstInitTells == Spec => []FirstInitReportsLocks
<1>1. IInv => FirstInitReportsLocks
  BY DEF IInv
<1>2. QED
  BY <1>1, Invariance, PTL

\* Where the model has the energies of package and memory, calls that read
\* before the first delta_rapl_data and dump_rapl_data follow no pointer that
\* create_rapl_data_batch did not set, whatever else is called in between.
THEOREM ReadingFirstIsSafe == Spec => []ReadFirstIsSafe
<1>1. IInv => ReadFirstIsSafe
  BY DEF IInv, ReadFirst, ReadFirstIsSafe
<1>2. QED
  BY <1>1, Invariance, PTL

-----------------------------------------------------------------------------
(* No call gives a flag back.                                              *)

\* Every call takes what rapl_storage says and adds no flag to it.
KeepsStorage == \E st \in RaplStorage : storage' = st.storage /\ flags' \subseteq st.flags

LEMMA KindsKeepStorage ==
    /\ \A name : Looks(name) => KeepsStorage
    /\ \A name : Reads(name) => KeepsStorage
    /\ Deltas => KeepsStorage
<1>1. \A name : Looks(name) => KeepsStorage
  BY DEF Looks, KeepsStorage
<1>2. \A name : Reads(name) => KeepsStorage
  BY DEF Reads, KeepsStorage
<1>3. Deltas => KeepsStorage
  BY DEF Deltas, KeepsStorage
<1>4. QED
  BY <1>1, <1>2, <1>3

LEMMA AllKeepStorage == ASSUME IInv, Next PROVE KeepsStorage
<1>1. CASE CallRaplInit
  BY <1>1, InitBegins, CheckedLocks DEF Begins, KeepsStorage
<1>2. CASE PrintAvailableRapl \/ DumpRaplDataTerseLabel \/ DumpRaplPowerInfo \/ GetRaplPowerInfo
  BY <1>2, AllLook, KindsKeepStorage
<1>3. CASE \E s \in Socket : SetPkgRaplLimit(s) \/ SetDramRaplLimit(s)
  BY <1>3, AllLook, KindsKeepStorage
<1>4. CASE GetMaxTurboActivationRatio \/ GetTurboRatioLimit
  BY <1>4, AllLook, KindsKeepStorage
<1>5. CASE CallReadRaplData \/ CallPollRaplData \/ DumpRaplDataTerse
  BY <1>5, AllRead, KindsKeepStorage
<1>6. CASE CallDeltaRaplData
  <2>1. Deltas
    BY <1>6 DEF CallDeltaRaplData, Trusting, Deltas, Platform
  <2>2. QED
    BY <2>1, KindsKeepStorage
<1>7. CASE CallDumpRaplData
  <2>1. PICK st \in IF dumpInit = "no" THEN RaplStorage
                    ELSE {Outcome(storage, flags, FALSE)} :
           storage' = st.storage /\ flags' = st.flags
    BY <1>7 DEF CallDumpRaplData
  <2>2. st \in RaplStorage
    BY <2>1 DEF RaplStorage, IInv, Fresh
  <2>3. QED
    BY <2>1, <2>2 DEF KeepsStorage
<1>8. QED
  BY <1>1, <1>2, <1>3, <1>4, <1>5, <1>6, <1>7 DEF Next

\* A flag that rapl_init took away because its register is locked stays away,
\* whichever functions are called and however often.
THEOREM LocksNotForgotten == Spec => LocksStayKnown
<1>1. ASSUME IInv, [Next]_vars, storage = "ok"
      PROVE  storage' = "ok" /\ flags' \subseteq flags
  <2>1. RaplStorage = {Outcome(storage, flags, FALSE)}
    BY <1>1 DEF RaplStorage
  <2>2. \A st \in RaplStorage : st.storage = storage /\ st.flags = flags
    BY <2>1 DEF Outcome
  <2>3. CASE Next
    BY <1>1, <2>2, <2>3, AllKeepStorage DEF KeepsStorage
  <2>4. CASE UNCHANGED vars
    BY <1>1, <2>4 DEF vars
  <2>5. QED
    BY <1>1, <2>3, <2>4
<1>2. IInv /\ [Next]_vars =>
         [storage = "ok" => storage' = "ok" /\ flags' \subseteq flags]_vars
  BY <1>1
<1>3. QED
  BY <1>2, Invariance, PTL DEF Spec, LocksStayKnown
=============================================================================
