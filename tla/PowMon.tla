------------------------------- MODULE PowMon -------------------------------
(***************************************************************************)
(* The three monitors of demoapps/powmon on the node's highlander:         *)
(* powmon.c, power_wrapper_static.c and power_wrapper_dynamic.c, with      *)
(* common.c, rapl2.c and the timer of ghighres.c.  Two threads: main       *)
(* starts the application, waits for it, takes a last measurement and      *)
(* writes the summary; the measurement thread takes one at every interval. *)
(* They share the totals, the log file, the library and "running".         *)
(*                                                                         *)
(* What is below the library is what RaplPoll promises: a poll reports the *)
(* energy since the previous one and the first poll reports none.  The     *)
(* node uses one joule in a millisecond, so "now" also counts the energy.  *)
(* The election (highlander_wait) is in Highlander: here it takes any time.*)
(***************************************************************************)
EXTENDS Naturals, Integers, FiniteSets

CONSTANTS
    Programs,     \* the monitors that are run
    Caps,         \* the watt_cap arguments of the wrappers
    Interval,     \* milliseconds between measurements (100, 1500 if dynamic)
    AdjustEvery,  \* measurements between two changes of the cap (5)
    Width,        \* number of values of an unsigned int (2^32)
    MaxNow,       \* bound on the clock
    PromptThread  \* TRUE: sleep(1) is enough for the thread to initialise

ASSUME PowMonAssumption ==
    /\ Programs \subseteq {"powmon", "static", "dynamic"}
    /\ Caps \subseteq Nat
    /\ {Interval, AdjustEvery, Width} \subseteq Nat \ {0}
    /\ MaxNow \in Nat
    /\ PromptThread \in BOOLEAN

Floor == 30      \* watts
WattStep == 5
Thread == {"main", "measure"}
Socket == {0, 1}
Never == -1      \* no poll yet

VARIABLES
    program, watt_cap,   \* which monitor this is, and its argument
    now,                 \* milliseconds
    pc,                  \* what each thread does next
    mlock,               \* owner of the mutex, or "free"
    running,
    ready,               \* read_rapl_init is done
    polled, first,       \* time of the last poll_rapl_data and of the first
    rapl_data,           \* the joules in each thread's local array
    totals,              \* total_joules, limit_joules and what was logged
    logfile,             \* "open" or "closed"
    summary,             \* the totals as main read them for the summary
    timer,               \* struct mstimer of the measurement thread
    polls, watts, dir,   \* the thread's counter, its cap, poll_dir
    limit,               \* the power limit register of each socket
    mine                 \* history: when main polled

shared == <<running, ready, polled, first, mine, totals, logfile, summary, mlock>>
dynamic == <<polls, watts, dir, limit>>
constant == <<program, watt_cap>>
vars == <<constant, now, pc, mlock, running, ready, polled, first, rapl_data,
          totals, logfile, summary, timer, polls, watts, dir, limit, mine>>

NoTotals == [joules |-> 0, limit |-> 0, logged |-> 0]
Summarised == {"joules", "limit"}
NoSummary == [total \in Summarised |-> Never]

Init ==
    /\ program \in Programs
    /\ watt_cap \in (IF program = "powmon" THEN {0} ELSE Caps)
    /\ now = 0
    /\ pc = [main |-> IF program = "powmon" THEN "create" ELSE "init",
             measure |-> "none"]
    /\ mlock = "free"
    /\ running = TRUE
    /\ ready = FALSE
    /\ polled = Never /\ first = Never
    /\ rapl_data = [t \in Thread |-> 0]
    /\ totals = NoTotals
    /\ logfile = "open"
    /\ summary = NoSummary
    /\ timer = [start |-> 0, step |-> 0, next |-> 0]
    /\ polls = 0 /\ watts = watt_cap /\ dir = WattStep
    /\ limit = [s \in Socket |-> 0]
    /\ mine = Never

Go(t, from, to) == pc[t] = from /\ pc' = [pc EXCEPT ![t] = to]

\* Time passes; it is also the energy used.
Tick ==
    /\ now < MaxNow
    /\ pc["main"] \notin {"exit", "crash"}
    /\ now' = now + 1
    /\ UNCHANGED <<constant, pc, shared, rapl_data, timer, dynamic>>

-----------------------------------------------------------------------------
(* take_measurement and read_rapl_energy_and_power: by both threads.       *)

\* Mutant of Lock: the mutex is not looked at.
LockIgnored(t) ==
    /\ Go(t, "lock", "poll")
    /\ mlock' = t
    /\ UNCHANGED <<constant, now, running, ready, polled, first, mine, rapl_data,
                   totals, logfile, summary, timer, dynamic>>

Lock(t) ==
    /\ Go(t, "lock", "poll")
    /\ mlock = "free"
    /\ mlock' = t
    /\ UNCHANGED <<constant, now, running, ready, polled, first, mine, rapl_data,
                   totals, logfile, summary, timer, dynamic>>

\* Mutants of Delta: the first poll counts what was used before; the samples
\* are swapped.
DeltaFromZero == IF polled = Never THEN now ELSE now - polled
DeltaSwapped == IF polled = Never THEN 0 ELSE polled - now

\* The energy that poll_rapl_data reports.
Delta == IF polled = Never THEN 0 ELSE now - polled

\* read_rapl_energy_and_power.  Without read_rapl_init the pointer rdat is still
\* NULL.  The limits it reads are not distinguished.
Poll(t) ==
    /\ Go(t, "poll", IF ready THEN "joules" ELSE "crash")
    /\ polled' = now
    /\ first' = IF polled = Never THEN now ELSE first
    /\ mine' = IF t = "main" THEN now ELSE mine
    /\ rapl_data' = [rapl_data EXCEPT ![t] = Delta]
    /\ UNCHANGED <<constant, now, running, ready, totals, logfile, summary,
                   mlock, timer, dynamic>>

\* total_joules; then limit_joules with max_watts and min_watts.
AddJoules(t) ==
    /\ Go(t, "joules", "watts")
    /\ totals' = [totals EXCEPT !.joules = @ + rapl_data[t]]
    /\ UNCHANGED <<constant, now, running, ready, polled, first, mine, rapl_data,
                   logfile, summary, mlock, timer, dynamic>>

AddLimits(t) ==
    /\ Go(t, "watts", "log")
    /\ totals' = [totals EXCEPT !.limit = @ + rapl_data[t]]
    /\ UNCHANGED <<constant, now, running, ready, polled, first, mine, rapl_data,
                   logfile, summary, mlock, timer, dynamic>>

\* fprintf to the log; to a log that was closed it is undefined, and lost here.
Log(t) ==
    /\ Go(t, "log", "unlock")
    /\ totals' = IF logfile = "open"
                 THEN [totals EXCEPT !.logged = @ + rapl_data[t]] ELSE totals
    /\ UNCHANGED <<constant, now, running, ready, polled, first, mine, rapl_data,
                   logfile, summary, mlock, timer, dynamic>>

AfterMeasurement(t) == IF t = "main" THEN "summary"
                       ELSE IF program = "dynamic" THEN "adjust" ELSE "sleep"

\* Mutant of Unlock: the mutex is not released.
UnlockForgotten(t) ==
    /\ Go(t, "unlock", AfterMeasurement(t))
    /\ rapl_data' = [rapl_data EXCEPT ![t] = 0]
    /\ UNCHANGED <<constant, now, shared, timer, dynamic>>

Unlock(t) ==
    /\ Go(t, "unlock", AfterMeasurement(t))
    /\ mlock' = "free"
    /\ rapl_data' = [rapl_data EXCEPT ![t] = 0]
    /\ UNCHANGED <<constant, now, running, ready, polled, first, mine, totals,
                   logfile, summary, timer, dynamic>>

Measurement(t) == \/ Lock(t) \/ Poll(t) \/ AddJoules(t)
                  \/ AddLimits(t) \/ Log(t) \/ Unlock(t)

-----------------------------------------------------------------------------
(* The measurement thread.                                                 *)

\* power_measurement calls read_rapl_init itself; the wrappers' main did.
ThreadInit ==
    /\ Go("measure", "init", "sleep")
    /\ ready' = TRUE
    /\ timer' = [start |-> now, step |-> 1, next |-> now + (Interval % Width)]
    /\ UNCHANGED <<constant, now, running, polled, first, mine, rapl_data, totals,
                   logfile, summary, mlock, dynamic>>

\* power_set_measurement starts with the cap and an empty counter.
ThreadStart ==
    /\ Go("measure", "start", "sleep")
    /\ timer' = [start |-> now, step |-> 1, next |-> now + (Interval % Width)]
    /\ limit' = [s \in Socket |-> watt_cap]
    /\ polls' = 1 % AdjustEvery
    /\ UNCHANGED <<constant, now, shared, rapl_data, watts, dir>>

\* Where the timer stands at step k: a product of two unsigned ints.
FiresAt(k) == timer.start + ((k * Interval) % Width)

\* The first step that is not overdue; there is none once Width is passed.
NextStep ==
    CHOOSE k \in timer.step + 1 .. timer.step + Width :
        /\ FiresAt(k) > now
        /\ \A j \in timer.step + 1 .. k - 1 : FiresAt(j) <= now
Overdue == now >= timer.next
NoStepLeft == \A k \in timer.step + 1 .. timer.step + Width : FiresAt(k) <= now

\* timer_sleep finds the timer overdue: it returns at once, at the next step
\* that is not, or never.
TimerCatchUp ==
    /\ Overdue
    /\ IF NoStepLeft
       THEN Go("measure", "sleep", "spin") /\ UNCHANGED timer
       ELSE /\ Go("measure", "sleep", "test")
            /\ timer' = [timer EXCEPT !.step = NextStep, !.next = FiresAt(NextStep)]
    /\ UNCHANGED <<constant, now, shared, rapl_data, dynamic>>

\* timer_sleep sleeps until the timer fires.
TimerSleep ==
    /\ ~Overdue
    /\ Go("measure", "sleep", "asleep")
    /\ UNCHANGED <<constant, now, shared, rapl_data, timer, dynamic>>

\* Mutant of TimerWake: select() is interrupted.
TimerWakeEarly ==
    /\ Go("measure", "asleep", "test")
    /\ timer' = [timer EXCEPT !.step = @ + 1, !.next = FiresAt(timer.step + 1)]
    /\ UNCHANGED <<constant, now, shared, rapl_data, dynamic>>

TimerWake ==
    /\ now >= timer.next
    /\ Go("measure", "asleep", "test")
    /\ timer' = [timer EXCEPT !.step = @ + 1, !.next = FiresAt(timer.step + 1)]
    /\ UNCHANGED <<constant, now, shared, rapl_data, dynamic>>

TestRunning ==
    /\ IF running THEN Go("measure", "test", "lock") ELSE Go("measure", "test", "end")
    /\ UNCHANGED <<constant, now, shared, rapl_data, timer, dynamic>>

\* Mutant of Direction: the floor is forgotten.
DirectionDown == IF watts >= watt_cap THEN -WattStep ELSE dir

\* The cap goes down from watt_cap and up again from the floor.
Direction == IF watts <= Floor THEN WattStep
             ELSE IF watts >= watt_cap THEN -WattStep ELSE dir

\* After every fifth measurement the dynamic wrapper moves the cap, first that
\* of socket 0 (set_rapl_power).
Adjust ==
    /\ IF polls = 0
       THEN /\ dir' = Direction
            /\ watts' = watts + Direction
            /\ limit' = [limit EXCEPT ![0] = watts + Direction]
            /\ Go("measure", "adjust", "adjusted")
       ELSE Go("measure", "adjust", "sleep") /\ UNCHANGED <<dir, watts, limit>>
    /\ polls' = (polls + 1) % AdjustEvery
    /\ UNCHANGED <<constant, now, shared, rapl_data, timer>>

AdjustOther ==
    /\ Go("measure", "adjusted", "sleep")
    /\ limit' = [limit EXCEPT ![1] = watts]
    /\ UNCHANGED <<constant, now, shared, rapl_data, timer, polls, watts, dir>>

ThreadStep == \/ ThreadInit \/ ThreadStart \/ TimerCatchUp \/ TimerSleep
              \/ TimerWake \/ TestRunning \/ Adjust \/ AdjustOther
              \/ Measurement("measure")

-----------------------------------------------------------------------------
(* main.                                                                   *)

\* The wrappers initialise the library and set the cap before they start.
MainInit ==
    /\ Go("main", "init", "create")
    /\ ready' = TRUE
    /\ limit' = [s \in Socket |-> watt_cap]
    /\ UNCHANGED <<constant, now, running, polled, first, mine, rapl_data, totals,
                   logfile, summary, mlock, timer, polls, watts, dir>>

\* pthread_create, then fork: the application runs until waitpid returns.
MainCreate ==
    /\ pc["main"] = "create"
    /\ pc' = [main |-> "wait",
              measure |-> IF program = "dynamic" THEN "start" ELSE "init"]
    /\ UNCHANGED <<constant, now, shared, rapl_data, timer, dynamic>>

\* The application has ended, sleep(1) and highlander_wait have returned.
MainWait ==
    /\ PromptThread => pc["measure"] \notin {"init", "start"}
    /\ Go("main", "wait", "stop")
    /\ UNCHANGED <<constant, now, shared, rapl_data, timer, dynamic>>

\* Mutant of MainStop: the summary comes before the last measurement.
MainStopAtOnce ==
    /\ Go("main", "stop", "summary")
    /\ running' = FALSE
    /\ UNCHANGED <<constant, now, ready, polled, first, mine, rapl_data, totals,
                   logfile, summary, mlock, timer, dynamic>>

\* Stop power measurement thread.
MainStop ==
    /\ Go("main", "stop", "lock")
    /\ running' = FALSE
    /\ UNCHANGED <<constant, now, ready, polled, first, mine, rapl_data, totals,
                   logfile, summary, mlock, timer, dynamic>>

\* The arguments of asprintf: total_joules and limit_joules are read without
\* the mutex, one at a time and in the order the compiler chose.
MainRead(total) ==
    /\ pc["main"] = "summary"
    /\ summary[total] = Never
    /\ summary' = [summary EXCEPT ![total] = totals[total]]
    /\ UNCHANGED <<constant, now, pc, running, ready, polled, first, mine,
                   rapl_data, totals, logfile, mlock, timer, dynamic>>

MainSummary ==
    /\ \A total \in Summarised : summary[total] # Never
    /\ Go("main", "summary", "close")
    /\ UNCHANGED <<constant, now, shared, rapl_data, timer, dynamic>>

\* There is no file for powmon's summary (O_EXCL), or no memory for its text:
\* main returns without one, and the log stays open.
MainFails ==
    /\ \/ program = "powmon" /\ summary = NoSummary
       \/ \A total \in Summarised : summary[total] # Never
    /\ Go("main", "summary", "exit")
    /\ UNCHANGED <<constant, now, shared, rapl_data, timer, dynamic>>

\* The wrappers append the summary to the log and close it; powmon has a file
\* for it and leaves the log open.
MainClose ==
    /\ Go("main", "close", "exit")
    /\ logfile' = IF program = "powmon" THEN logfile ELSE "closed"
    /\ UNCHANGED <<constant, now, running, ready, polled, first, mine, rapl_data,
                   totals, summary, mlock, timer, dynamic>>

\* main returned: the process ends, and whatever the thread was doing.
Exit ==
    /\ pc["main"] = "exit" /\ pc["measure"] # "killed"
    /\ pc' = [pc EXCEPT !["measure"] = "killed"]
    /\ UNCHANGED <<constant, now, shared, rapl_data, timer, dynamic>>

MainStep == \/ MainInit \/ MainCreate \/ MainWait \/ MainStop
            \/ (\E total \in Summarised : MainRead(total))
            \/ MainSummary \/ MainFails \/ MainClose \/ Exit \/ Measurement("main")

Next == Tick \/ ThreadStep \/ MainStep

\* Both threads are scheduled, the application ends and the election lets main
\* go; the mutex need not be fair.
Spec == Init /\ [][Next]_vars /\ WF_vars(ThreadStep) /\ WF_vars(MainStep)

-----------------------------------------------------------------------------
(* Properties.                                                             *)

MainPc == {"init", "create", "wait", "stop", "lock", "poll", "joules", "watts",
           "log", "unlock", "summary", "close", "exit", "crash"}
MeasurePc == {"none", "init", "start", "sleep", "asleep", "test", "lock", "poll",
              "joules", "watts", "log", "unlock", "adjust", "adjusted", "end",
              "crash", "spin", "killed"}
Time == 0 .. MaxNow
Totals == [joules : Nat, limit : Nat, logged : Nat]

TypeOK ==
    /\ program \in Programs /\ watt_cap \in Caps \cup {0}
    /\ now \in Time
    /\ pc \in [Thread -> MainPc \cup MeasurePc]
    /\ pc["main"] \in MainPc /\ pc["measure"] \in MeasurePc
    /\ mlock \in Thread \cup {"free"}
    /\ running \in BOOLEAN /\ ready \in BOOLEAN
    /\ polled \in Time \cup {Never} /\ first \in Time \cup {Never}
    /\ mine \in Time \cup {Never}
    /\ rapl_data \in [Thread -> Nat]
    /\ totals \in Totals
    /\ summary \in [Summarised -> Nat \cup {Never}]
    /\ logfile \in {"open", "closed"}
    /\ timer \in [start : Nat, step : Nat, next : Nat]
    /\ polls \in 0 .. AdjustEvery - 1
    /\ watts \in Nat /\ dir \in {WattStep, -WattStep}
    /\ limit \in [Socket -> Nat]

\* Whenever no measurement is going on, the totals are the energy between the
\* first poll and the last, each joule once whichever thread measured it, and
\* the log accounts for all of it as long as it is open (take_measurement).
TotalsAddUp ==
    mlock = "free" =>
        /\ totals.joules = polled - first
        /\ totals.limit = totals.joules
        /\ logfile = "open" => totals.logged = totals.joules

\* The library is not safe for threads: the lock, and initialising before the
\* threads meet, keep two of them from being inside it at once; except that the
\* dynamic wrapper moves the cap without the lock.
InLibrary(t) == pc[t] \in {"init", "start", "poll", "adjusted"}
LibraryExclusive == program # "dynamic" => ~(InLibrary("main") /\ InLibrary("measure"))

\* The summary covers the measured part of the application's run: each total in
\* it is no less than the energy from the first poll to main's own, which is
\* after the application's end, and no more than was measured, although main
\* reads them one by one without the mutex.  (They need not agree: the thread
\* may add to both in between.)
SummaryCoversRun ==
    \A total \in Summarised :
        summary[total] # Never =>
            /\ mine # Never
            /\ mine - first <= summary[total]
            /\ summary[total] <= polled - first

\* For a cap above the floor the dynamic wrapper sets limits between the floor
\* less a step and the cap, however often it turns around (power_set_measurement).
CapKept ==
    (program = "dynamic" /\ watt_cap > Floor /\ ready) =>
        \A s \in Socket : limit[s] \in Floor - WattStep + 1 .. watt_cap

\* Measurements of the timer's thread come no faster than one per interval, also
\* when the thread was held up (timer_sleep).
NeverFaster == timer.step > 0 => (timer.step - 1) * Interval <= now - timer.start

\* Once the application has ended and the election lets it go, the monitor ends,
\* whatever the measurement thread is doing (main).
MonitorEnds == (pc["main"] = "stop") ~> (pc["main"] = "exit")

\* "Stop power measurement thread." (main): once main has taken the last
\* measurement, wrapped up the totals and closed the log, nothing is measured.
StoppedMeansStopped == pc["main"] = "exit" => mlock = "free"

=============================================================================
