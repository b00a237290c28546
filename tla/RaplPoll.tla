------------------------------ MODULE RaplPoll ------------------------------
(***************************************************************************)
(* Energy measurement in src/src/msr_rapl.c: poll_rapl_data is             *)
(* read_rapl_data (take a timestamp, keep the old samples, read the energy *)
(* registers of every socket as one batch) followed by delta_rapl_data     *)
(* (energy since the last sample, corrected for a wrapped register, and    *)
(* power).  Power is consumed, time passes and registers wrap meanwhile:   *)
(* what has been consumed, and the time, are chosen when they are read,    *)
(* since nothing looks at them before.                                     *)
(*                                                                         *)
(* Energy is counted in register units: the two doubles of a sample, bits  *)
(* and joules, are one number.  A joule is UnitsPerJoule of them.          *)
(***************************************************************************)
EXTENDS Integers, FiniteSets

CONSTANTS
    Socket,
    W,              \* an energy register counts modulo W (2^32 on the machine)
    UnitsPerJoule,
    MaxEnergy, MaxTime,   \* bounds on the energy consumed and on the clock
    PollReadsFail,      \* TRUE: a register read may be refused
    ClockSteps      \* TRUE: the wall clock may be set back

ASSUME PollAssumption == /\ {W, UnitsPerJoule, MaxEnergy, MaxTime} \subseteq Nat \ {0}
                         /\ W > 1
                         /\ {PollReadsFail, ClockSteps} \subseteq BOOLEAN

Counter == Socket \X {"pkg", "dram"}
None == -1

VARIABLES
    phase,      \* "idle", "read" or "delta": progress of poll_rapl_data
    todo,       \* counters the running batch read has still to read
    bits, old,  \* *pkg_bits, *dram_bits and the sample before
    now, elapsed,
    readInit, deltaInit,   \* the static init flags
    delta,      \* pkg_delta_joules, dram_delta_joules
    watts,      \* <<energy, time>>: power as the quotient it is computed from
    \* History of the measurement, for the properties.
    start, seen,    \* energy at the first read, and at the last, that succeeded
    late,           \* that first read was not in the first poll
    seenAt, interval,  \* its timestamp, and the time since the one before
    refused, gap,   \* whether the last read of a counter was refused, and the
                    \* one before it
    total           \* sum of the deltas a caller was given

code == <<bits, old, now, elapsed, readInit, deltaInit, delta, watts>>
reads == <<start, late, seen, seenAt, interval>>
history == <<reads, refused, gap, total>>
pollVars == <<phase, todo, code, history>>

PollInit ==
    /\ phase = "idle"
    /\ todo = {}
    /\ bits = [c \in Counter |-> 0]
    /\ old = [c \in Counter |-> 0]
    /\ now = 0
    /\ elapsed = 0
    /\ readInit = FALSE
    /\ deltaInit = FALSE
    /\ delta = [c \in Counter |-> 0]
    /\ watts = [c \in Counter |-> <<0, 1>>]
    /\ start = [c \in Counter |-> None]
    /\ late = [c \in Counter |-> FALSE]
    /\ seen = [c \in Counter |-> None]
    /\ seenAt = [c \in Counter |-> 0]
    /\ interval = [c \in Counter |-> 0]
    /\ refused = [c \in Counter |-> FALSE]
    /\ gap = [c \in Counter |-> FALSE]
    /\ total = [c \in Counter |-> 0]

-----------------------------------------------------------------------------
(* The machine.                                                            *)

\* What a counter may have consumed, since power-on, when it is read.  Between two
\* successful reads a register wraps at most once, and not past the value last
\* read: callers poll often enough for that.
Consumed(c) ==
    IF seen[c] = None THEN 0 .. MaxEnergy
    ELSE {e \in seen[c] .. seen[c] + W - 1 : e <= MaxEnergy}

\* The wall clock when it is read; ntpd or an administrator may set it back.
Clock == {t \in 0 .. MaxTime : ClockSteps \/ t >= now}

-----------------------------------------------------------------------------
(* read_rapl_data.                                                         *)

\* Mutant of Older: the old sample is moved only while it is still zero.
OlderOnce == [c \in Counter |-> IF old[c] = 0 THEN bits[c] ELSE old[c]]

\* "Move current variables to old variables."
Older == bits

\* Mutant of Elapsed: the old timestamp was not kept.
ElapsedNoOld(t) == t

\* Time since the last sample.
Elapsed(t) == t - now

\* Timestamp and old samples; the first call has no old sample to keep.
StartRead ==
    /\ phase = "idle"
    /\ phase' = "read"
    /\ todo' = Counter
    /\ now' \in Clock
    /\ IF readInit
       THEN elapsed' = Elapsed(now') /\ old' = Older
       ELSE elapsed' = 0 /\ old' = old
    /\ UNCHANGED <<bits, readInit, deltaInit, delta, watts, history>>

\* read_batch(RAPL_DATA), whose result is ignored: each register is read, in any
\* order, or keeps the sample it has.
ReadCounter(c) ==
    /\ phase = "read"
    /\ c \in todo
    /\ todo' = todo \ {c}
    /\ phase' = IF todo' = {} THEN "delta" ELSE "read"
    /\ readInit' = (readInit \/ todo' = {})
    /\ \/ \E e \in Consumed(c) :
          /\ bits' = [bits EXCEPT ![c] = e % W]
          /\ seen' = [seen EXCEPT ![c] = e]
          /\ IF seen[c] = None
             THEN /\ start' = [start EXCEPT ![c] = e]
                  /\ late' = [late EXCEPT ![c] = readInit]
             ELSE UNCHANGED <<start, late>>
          /\ seenAt' = [seenAt EXCEPT ![c] = now]
          /\ interval' = [interval EXCEPT ![c] = now - seenAt[c]]
          /\ refused' = [refused EXCEPT ![c] = FALSE]
       \/ /\ PollReadsFail
          /\ refused' = [refused EXCEPT ![c] = TRUE]
          /\ UNCHANGED <<bits, reads>>
    /\ gap' = [gap EXCEPT ![c] = refused[c]]
    /\ UNCHANGED <<old, now, elapsed, deltaInit, delta, watts, total>>

-----------------------------------------------------------------------------
(* delta_rapl_data.                                                        *)

\* max_joules, UINT_MAX: the package register adds it in register units before
\* the translation, the DRAM register in joules after it.
WrapCorrection(c) == IF c[2] = "pkg" THEN W - 1 ELSE (W - 1) * UnitsPerJoule

\* Mutant of EnergyUsed: without wraparound handling.
EnergyUsedPlain(c) == bits[c] - old[c]

\* Energy used since the last sample.
EnergyUsed(c) ==
    IF bits[c] < old[c] THEN bits[c] + WrapCorrection(c) - old[c]
    ELSE bits[c] - old[c]

\* Mutant of Watts: without the test on the elapsed time.
WattsUnguarded(e) == <<e, elapsed>>

\* Power, zero if no time elapsed.
Watts(e) == IF elapsed > 0 THEN <<e, elapsed>> ELSE <<0, 1>>

\* The first call only initialises, it does not look at the samples.
Delta ==
    /\ phase = "delta"
    /\ phase' = "idle"
    /\ deltaInit' = TRUE
    /\ IF deltaInit
       THEN /\ delta' = [c \in Counter |-> EnergyUsed(c)]
            /\ watts' = [c \in Counter |-> Watts(EnergyUsed(c))]
            /\ total' = [c \in Counter |-> total[c] + EnergyUsed(c)]
            /\ UNCHANGED elapsed
       ELSE /\ watts' = [c \in Counter |-> <<0, 1>>]
            /\ elapsed' = 0
            /\ UNCHANGED <<delta, total>>
    /\ UNCHANGED <<todo, bits, old, now, readInit,
                   reads, refused, gap>>

PollNext ==
    \/ StartRead
    \/ \E c \in Counter : ReadCounter(c)
    \/ Delta

PollSpec == PollInit /\ [][PollNext]_pollVars

-----------------------------------------------------------------------------
(* Properties.                                                             *)

PollTypeOK ==
    /\ phase \in {"idle", "read", "delta"}
    /\ todo \subseteq Counter
    /\ bits \in [Counter -> 0 .. W - 1]
    /\ old \in [Counter -> 0 .. W - 1]
    /\ now \in 0 .. MaxTime
    /\ elapsed \in Int
    /\ readInit \in BOOLEAN /\ deltaInit \in BOOLEAN
    /\ delta \in [Counter -> Int]
    /\ watts \in [Counter -> Int \X (Nat \ {0})]
    /\ start \in [Counter -> Nat \cup {None}]
    /\ late \in [Counter -> BOOLEAN]
    /\ seen \in [Counter -> Nat \cup {None}]
    /\ seenAt \in [Counter -> 0 .. MaxTime]
    /\ interval \in [Counter -> Int]
    /\ refused \in [Counter -> BOOLEAN] /\ gap \in [Counter -> BOOLEAN]
    /\ total \in [Counter -> Int]

\* Wraps of a counter between its first and its last successful read.
Wraps(c) == seen[c] \div W - start[c] \div W

\* What a counter showed before it was measured is reported with the rest when
\* its first poll was refused: the sample before is then the zero of the batch.
Unmeasured(c) == IF late[c] THEN start[c] % W ELSE 0

\* Between polls, the energy handed to the caller adds up to the energy consumed
\* between the first sample and the last, over failed reads and wraps: less one
\* unit per wrap for a package, while a DRAM register has not wrapped, and with
\* what a counter showed at its first read if that was not in the first poll
\* (read_rapl_data, delta_rapl_data).
EnergyAccounted ==
    phase = "idle" => \A c \in Counter :
        (seen[c] # None /\ (c[2] = "pkg" \/ Wraps(c) = 0))
            => total[c] = seen[c] - start[c] - Wraps(c) + Unmeasured(c)

\* The energy used since the last sample is never negative (delta_rapl_data's
\* "This case should not happen"), whatever reads fail and registers wrap.
EnergyNeverNegative == \A c \in Counter : delta[c] >= 0

OverItsInterval(c) == watts[c][1] > 0 => watts[c] = <<delta[c], interval[c]>>

\* The power reported is the energy over the time between the two samples that it
\* was measured between, while the clock is set back and reads of other counters
\* are refused, as long as the read before the last one was not (read_rapl_data,
\* delta_rapl_data).
PowerOverItsInterval ==
    phase = "idle" => \A c \in Counter : gap[c] \/ OverItsInterval(c)

\* The same after a refused read: "derived by dividing difference in package-level
\* energy usage by time elapsed between data measurements" (include/msr_rapl.h).
PowerAfterRefusedRead == phase = "idle" => \A c \in Counter : OverItsInterval(c)

\* Energy lost to no wrap: "Now handles wraparound" (delta_rapl_data).
ExactTotal ==
    phase = "idle" => \A s \in Socket :
        start[<<s, "pkg">>] # None =>
            total[<<s, "pkg">>] = seen[<<s, "pkg">>] - start[<<s, "pkg">>]

\* A DRAM difference is energy that was used: "Difference in DRAM energy usage
\* between two data measurements" (include/msr_rapl.h).
DramWithinUsage ==
    phase = "idle" => \A s \in Socket :
        start[<<s, "dram">>] # None =>
            total[<<s, "dram">>] <= seen[<<s, "dram">>] - start[<<s, "dram">>]

\* A negative elapsed time "should not happen" (read_rapl_data).
ElapsedNeverNegative == elapsed >= 0
=============================================================================
