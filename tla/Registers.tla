------------------------------ MODULE Registers ------------------------------
(***************************************************************************)
(* One application at the getters and setters of one group of registers:   *)
(* IA32_THERM_STATUS, IA32_THERM_INTERRUPT and their package-wide forms,   *)
(* the control registers of the fixed counters, IA32_CLOCK_MODULATION,     *)
(* IA32_MISC_ENABLE and IA32_PERF_CTL.  The layout is FieldTables'.        *)
(*                                                                         *)
(* A setter reads the registers, replaces the fields and writes the words  *)
(* back.  Most do it through a batch, whose words persist between calls:   *)
(* a register the driver could not read leaves its old word there, and     *)
(* nobody looks.  Another tool, or the hardware, may change a register at  *)
(* any time, between the read and the write too.                           *)
(***************************************************************************)
EXTENDS FieldTables, FiniteSets

CONSTANTS
    NumUnits,     \* sockets, cores or threads, as the group has it
    MaxFills,     \* bound: fields the application changes by hand
    MaxCalls,     \* bound: calls of getters and setters
    MaxOthers     \* bound: changes by another tool or by the hardware

ASSUME BoundsAssumption ==
    /\ NumUnits \in Nat \ {0}
    /\ {MaxFills, MaxCalls, MaxOthers} \subseteq Nat

Units == 0 .. NumUnits - 1

Groups == {"therm_stat", "therm_interr", "pkg_therm_stat", "pkg_therm_interr",
           "fixed_ctr_ctrl", "clock_mod", "misc_enable", "perf_ctl"}

\* The two that read and write one register, by its coordinates.
Coord == {"clock_mod", "misc_enable"}

VARIABLES
    group,      \* the registers the application uses
    regs,       \* [Units -> word]: the hardware
    held,       \* [Units -> word]: the batch's words, or the raw of a struct
    fields,     \* [Units -> [field -> value]]: the structs the application fills
    step,       \* "ready", "filled" (enable_ or disable_fixed_counters has
                \* filled the structs), "read" (the setter has read) or "data"
    word,       \* [Units -> word]: the words the setter will write
    counted,    \* [Units -> set of control words]: what fixed counters counted under
    seen,       \* [Units -> word]: the registers as last read successfully
    known,      \* history: the pieces of them that were read at least once
    last,       \* the last setter call until the application does something
                \* else, for the properties
    left        \* the bounds not yet used

vars == <<group, regs, held, fields, step, word, counted, seen, known, last, left>>

Get(g) == CASE g = "therm_stat"       -> GetThermStat
            [] g = "therm_interr"     -> GetThermInterrupt
            [] g = "pkg_therm_stat"   -> GetPkgThermStat
            [] g = "pkg_therm_interr" -> GetPkgThermInterrupt
            [] g = "fixed_ctr_ctrl"   -> GetFixedCtrCtrl
            [] g = "clock_mod"        -> GetClockMod
            [] g = "misc_enable"      -> GetMiscEnable
            [] g = "perf_ctl"         -> [pstate |-> <<63, 0>>]

Set(g) == CASE g = "therm_stat"       -> SetThermStat
            [] g = "therm_interr"     -> SetThermInterrupt
            [] g = "pkg_therm_stat"   -> SetPkgThermStat
            [] g = "pkg_therm_interr" -> SetPkgThermInterrupt
            [] g = "fixed_ctr_ctrl"   -> SetFixedCounterCtrl
            [] g = "clock_mod"        -> SetClockMod
            [] g = "misc_enable"      -> SetMiscEnable
            [] g = "perf_ctl"         -> SetPState

Logs(g) == CASE g = "therm_stat"     -> ThermStatLogs
             [] g = "pkg_therm_stat" -> PkgThermStatLogs
             [] OTHER                -> {}

ReadOnly(g) == CASE g \in {"therm_stat", "pkg_therm_stat"} -> DOMAIN Get(g) \ Logs(g)
                 [] g = "misc_enable"                      -> MiscReadOnly
                 [] OTHER                                  -> {}

FieldBits(g, fs) == UNION {BitsOf(Get(g), f) : f \in fs}

\* What an application stores into a field: flags, a threshold, a duty cycle
\* or its switch (0 and 2 are refused), a ring level.
Values(f) ==
    CASE group = "fixed_ctr_ctrl"   -> IF f[1] = "ring_level" THEN {{}, {0, 1}} ELSE {{}, {0}}
      [] group = "clock_mod"        -> IF f = "duty_cycle" THEN {{}, {0}, {1, 2}}
                                       ELSE {{}, {0}, {1}}
      [] OTHER                      -> IF f \in Thresholds THEN {{0}, {3, 5}, 0..6}
                                       ELSE {{}, {0}}

PStates == {{8}, {9, 11}}

-----------------------------------------------------------------------------
(* A batch read or write serves any part of the registers: the driver      *)
(* marks the operations that failed, and no caller here looks.  A group    *)
(* of two registers per unit has its words in halves of 64 bits.           *)

Half(h) == 64 * h .. 64 * h + 63

Pieces(us) == us \X (IF group = "fixed_ctr_ctrl" THEN {0, 1} ELSE {0})

\* bound: of a batch one operation fails, or all of them
Outcomes(us) == {p \in SUBSET Pieces(us) : p = {} \/ Cardinality(Pieces(us) \ p) <= 1}

Copied(to, from, pieces) ==
    [u \in Units |-> LET bits == UNION {Half(p[2]) : p \in {q \in pieces : q[1] = u}}
                     IN (to[u] \ bits) \cup (from[u] \cap bits)]

\* what a write makes of a register: a log bit only falls, a read-only bit stays
Landed(old, new) ==
    LET logs == FieldBits(group, Logs(group))
        ro == FieldBits(group, ReadOnly(group))
    IN (new \ (logs \cup ro)) \cup (new \cap old \cap logs) \cup (old \cap ro)

\* sampled words: nothing set, every field and some reserved bits set
SampleWords(g) == {{}, FieldBits(g, DOMAIN Get(g)) \cup {25, 40}}

NoCall == [units |-> {}, read |-> {}, done |-> {}, before |-> <<>>, blind |-> {},
           zeroed |-> {}, quiet |-> FALSE]

InitRegs ==
    /\ group \in Groups
    /\ \E w \in SampleWords(group) : regs = [u \in Units |-> w]
    /\ held = [u \in Units |-> {}]
    /\ fields = [u \in Units |-> [f \in DOMAIN Get(group) |-> {}]]
    /\ step = "ready"
    /\ word = <<>>
    /\ counted = [u \in Units |-> {}]
    /\ seen = [u \in Units |-> {}]
    /\ known = {}
    /\ last = NoCall
    /\ left = [fills |-> MaxFills, calls |-> MaxCalls,
                \* bound: nobody else is at the fixed counters' registers
                others |-> IF group = "fixed_ctr_ctrl" THEN 0 ELSE MaxOthers]

\* the units a call is about: one by its coordinates, or all of the batch
Addressed == IF group \in Coord THEN {{u} : u \in Units} ELSE {Units}

(* get_therm_stat, get_pkg_therm_interrupt, get_clock_mod, ...: read, then *)
(* decode the words, those that were not read too.                         *)
CallGet ==
    /\ step = "ready" /\ group # "perf_ctl" /\ left.calls > 0
    /\ \E us \in Addressed : \E got \in Outcomes(us) :
         /\ held' = Copied(held, regs, got)
         /\ seen' = Copied(seen, regs, got)
         /\ known' = known \cup got
         /\ fields' = [u \in Units |-> IF u \in us THEN Decode(Get(group), held'[u])
                                       ELSE fields[u]]
    /\ left' = [left EXCEPT !.calls = @ - 1]
    /\ last' = NoCall
    /\ UNCHANGED <<group, regs, step, word, counted>>

(* The application changes a field of a struct. *)
Fill(u, f, v) ==
    /\ step = "ready" /\ group # "perf_ctl" /\ left.fills > 0
    /\ fields[u][f] # v
    /\ fields' = [fields EXCEPT ![u][f] = v]
    /\ left' = [left EXCEPT !.fills = @ - 1]
    /\ last' = NoCall
    /\ UNCHANGED <<group, regs, held, step, word, counted, seen, known>>

(* enable_fixed_counters and disable_fixed_counters fill every struct and  *)
(* go on to set_fixed_counter_ctrl: BeginSet is the only way from here.    *)
FillFixed(on) ==
    /\ step = "ready" /\ group = "fixed_ctr_ctrl"
    /\ left.fills > 0 /\ left.calls > 0
    /\ step' = "filled"
    /\ fields' = [u \in Units |-> [f \in FixedFields |->
                    CASE f[1] = "enable"     -> on
                      [] f[1] = "ring_level" -> {0, 1}
                      [] f[1] = "anyThread"  -> {0}
                      [] f[1] = "pmi"        -> {}]]
    /\ left' = [left EXCEPT !.fills = @ - 1]
    /\ last' = NoCall
    /\ UNCHANGED <<group, regs, held, word, counted, seen, known>>

\* set_clock_mod looks at the struct once it has read the register
Refused(u) ==
    /\ group = "clock_mod"
    /\ \/ fields[u].duty_cycle = {}
       \/ fields[u].duty_cycle_enable \notin {{}, {0}}

(* The first half of a setter: the read and the new words.  By coordinates *)
(* the word is a local the failed read leaves as it was, anything at all;  *)
(* in a batch it is what the batch held: 0 if it was never read.  In both  *)
(* cases the call is blind on these units.                                 *)
BeginSet ==
    /\ step \in {"ready", "filled"} /\ group # "perf_ctl" /\ left.calls > 0
    /\ \E us \in Addressed : \E got \in Outcomes(us) : \E rest \in SampleWords(group) :
         LET unset == IF group \in Coord /\ got = {} THEN us ELSE {}
             read == IF unset = {} THEN Copied(held, regs, got)
                     ELSE [u \in Units |-> rest]
         IN /\ unset = {} => rest = {}
            /\ seen' = Copied(seen, regs, got)
            /\ known' = known \cup got
            /\ IF \E u \in us : Refused(u)
                 THEN /\ last' = NoCall
                      /\ UNCHANGED <<word, step, held>>
                 ELSE /\ word' = [u \in us |-> Encode(Set(group), fields[u], read[u])]
                      /\ held' = IF group \in Coord THEN held ELSE word'
                      /\ step' = "read"
                      /\ last' = [NoCall EXCEPT !.units = us, !.read = got,
                                         !.blind = unset \cup {u \in us : ~(Pieces({u}) \subseteq known')}]
    /\ left' = [left EXCEPT !.calls = @ - 1]
    /\ UNCHANGED <<group, regs, fields, counted>>

(* set_p_state: one word of the batch, and the whole batch is written,     *)
(* blindly where no P-state was ever asked for.                            *)
SetPStateOf(u, p) ==
    /\ step = "ready" /\ group = "perf_ctl" /\ left.calls > 0
    /\ fields' = [fields EXCEPT ![u].pstate = p]
    /\ held' = [held EXCEPT ![u] = p]
    /\ word' = held'
    /\ step' = "read"
    /\ last' = [NoCall EXCEPT !.units = Units,
                              !.blind = {v \in Units \ {u} : fields[v].pstate = {}}]
    /\ left' = [left EXCEPT !.calls = @ - 1]
    /\ UNCHANGED <<group, regs, counted, seen, known>>

(* The second half: write_batch, or write_msr_by_coord. *)
EndSet ==
    /\ step = "read"
    /\ \E done \in Outcomes(last.units) :
         /\ regs' = [u \in Units |->
                       IF u \in last.units
                         THEN Copied(regs, [r \in Units |-> IF r \in last.units
                                              THEN Landed(regs[r], word[r]) ELSE {}], done)[u]
                         ELSE regs[u]]
         /\ last' = [last EXCEPT !.done = done, !.quiet = TRUE,
                                 !.before = IF Logs(group) = {} THEN <<>> ELSE regs]
    /\ step' = IF group = "fixed_ctr_ctrl" THEN "data" ELSE "ready"
    /\ word' = <<>>
    /\ UNCHANGED <<group, held, fields, counted, seen, known, left>>

(* set_fixed_counter_ctrl goes on: the zeroed counters are written. *)
WriteFixedData ==
    /\ step = "data"
    /\ \E zeroed \in SUBSET Units :
         /\ counted' = [u \in Units |-> IF u \in zeroed THEN {} ELSE counted[u]]
         /\ last' = [last EXCEPT !.zeroed = zeroed]
    /\ step' = "ready"
    /\ UNCHANGED <<group, regs, held, fields, word, seen, known, left>>

\* a fixed counter is enabled, in some ring
Counting(u) ==
    \E ctr \in 0..2 : /\ MaskVal(regs[u], 32 + ctr, 32 + ctr) # {}
                      /\ MaskVal(regs[u], 65 + 4 * ctr, 64 + 4 * ctr) # {}

(* The fixed counters of a thread count. *)
Count(u) ==
    /\ group = "fixed_ctr_ctrl" /\ Counting(u)
    /\ counted' = [counted EXCEPT ![u] = @ \cup {regs[u]}]
    /\ UNCHANGED <<group, regs, held, fields, step, word, seen, known, last, left>>

(* Another tool writes, or the hardware sets or resets a bit. *)
Other(u, b) ==
    /\ left.others > 0
    /\ regs' = [regs EXCEPT ![u] = IF b \in @ THEN @ \ {b} ELSE @ \cup {b}]
    /\ last' = IF step = "ready" THEN NoCall ELSE [last EXCEPT !.quiet = FALSE]
    /\ left' = [left EXCEPT !.others = @ - 1]
    /\ UNCHANGED <<group, held, fields, step, word, counted, seen, known>>

\* the fields changed one at a time: those of one fixed counter stand for all
Fillable == {f \in DOMAIN Set(group) : group = "fixed_ctr_ctrl" => f[2] = 1}

\* bits the other party changes: two a field's in most groups, one nobody's
OtherBits == {1, 9, 40}

NextRegs ==
    \/ CallGet
    \/ \E u \in Units, f \in Fillable : \E v \in Values(f) : Fill(u, f, v)
    \/ \E on \in {{}, {0}} : FillFixed(on)
    \/ BeginSet
    \/ \E u \in Units : \E p \in PStates : SetPStateOf(u, p)
    \/ EndSet
    \/ WriteFixedData
    \/ \E u \in Units : Count(u)
    \/ \E u \in Units, b \in OtherBits : Other(u, b)

RegsSpec == InitRegs /\ [][NextRegs]_vars

-----------------------------------------------------------------------------
(* Properties *)

\* The units a completed call wrote whole, nothing else having changed since.
Written == IF last.quiet THEN {u \in last.units : Pieces({u}) \subseteq last.done} ELSE {}

\* The bits of a field's value that its setter does not clear: of a threshold
\* the four above the third (msr_thermal.c:638), of the duty cycle the third
\* (msr_clocks.c:253).
Leftover(f) ==
    CASE group \in {"therm_interr", "pkg_therm_interr"} /\ f \in Thresholds -> 3..6
      [] group = "clock_mod" /\ f = "duty_cycle" -> {2}
      [] OTHER -> {}

\* What a setter stored reads back: a log bit is up if it was up and was asked
\* to be, any other field holds the value asked for, or'ed for thresholds and
\* the duty cycle with the bits that are not cleared, exactly as the setter
\* read them; where its read failed, with any of these bits.
\* (set_therm_stat is apart: see ThermLogsAsAsked.)
ReadsBackAsSet ==
    group # "therm_stat" =>
      \A u \in Written : \A f \in DOMAIN Set(group) :
        LET got   == Decode(Get(group), regs[u])[f]
            asked == fields[u][f]
        IN IF f \in Logs(group)
             THEN got = asked \cap Decode(Get(group), last.before[u])[f]
             ELSE /\ asked \subseteq got /\ got \subseteq asked \cup Leftover(f)
                  /\ Pieces({u}) \subseteq last.read =>
                       got = asked \cup (Decode(Get(group), seen[u])[f] \cap Leftover(f))

\* Where a setter's register was read by it or by an earlier call, the bits that
\* are not its fields stay as they were when it was last read, whichever reads
\* and writes failed in between: they are not those of an older word or of
\* another register.  (What was never read is written blindly, see NotBlind.)
NeighboursAsLastRead ==
    \A u \in Written \ last.blind :
        LET mine == FieldBits(group, DOMAIN Set(group) \cup ReadOnly(group))
        IN regs[u] \ mine = seen[u] \ mine

\* No setter writes a register of which it does not know the rest.  They do:
\* the result of the read is dropped (msr_thermal.c:608, msr_clocks.c:243), and
\* set_p_state does not read.
NotBlind == Written \cap last.blind = {}

\* include/msr_thermal.h: a log of IA32_THERM_STATUS "is R/W, but software can
\* only clear the bit by writing a 0": set_therm_stat leaves up the logs whose
\* field is 1 and clears those whose field is 0.
ThermLogsAsAsked ==
    group = "therm_stat" =>
      \A u \in Written : \A f \in ThermStatLogs :
        Decode(GetThermStat, regs[u])[f]
          = fields[u][f] \cap Decode(GetThermStat, last.before[u])[f]
=============================================================================
