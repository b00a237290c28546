----------------------------- MODULE Highlander -----------------------------
(***************************************************************************)
(* demoapps/powmon/highlander.c and the main of powmon.c: the monitors     *)
(* started on a node elect one, the highlander, that measures; the others, *)
(* its foes, only run their application.  The election and the wait at the *)
(* end use two named semaphores, K and L.                                  *)
(*                                                                         *)
(* A semaphore is an object that a name may be linked to: sem_unlink frees *)
(* the name while processes go on using the object they opened.            *)
(***************************************************************************)
EXTENDS Naturals, Sequences, FiniteSets

CONSTANTS
    Proc,            \* the processes that run a monitor
    Together,        \* TRUE: applications end after all monitors have started
    LogFails,        \* TRUE: the log file may exist already
    MaxCleans        \* how often somebody runs powmon -c

ASSUME HighlanderAssumption ==
    /\ IsFiniteSet(Proc)
    /\ {Together, LogFails} \subseteq BOOLEAN
    /\ MaxCleans \in Nat

None == 0

VARIABLES
    name,     \* the object each of the names "K", "L" is linked to
    sem,      \* the value of every semaphore object
    semk, seml,   \* the objects a process has open
    am,       \* amHighlander: "unknown", "highlander" or "foe"
    at,       \* what a process does next
    v,        \* the value sem_getvalue returned in highlander_wait
    cleaner   \* unlinks done by the runs of highlander_clean

electionVars == <<name, sem, semk, seml, am, at, v, cleaner>>

Starting == {"openK", "reopenK", "openL", "post"}

ElectionInit ==
    /\ name = [n \in {"K", "L"} |-> None]
    /\ sem = << >>
    /\ semk = [p \in Proc |-> None]
    /\ seml = [p \in Proc |-> None]
    /\ am = [p \in Proc |-> "unknown"]
    /\ at = [p \in Proc |-> "openK"]
    /\ v = [p \in Proc |-> 0]
    /\ cleaner = 0

-----------------------------------------------------------------------------
(* Named semaphores.                                                       *)

\* sem_open(n, O_CREAT): the object of the name, or a new one with value 0.
OpenOrCreate(n, object) ==
    IF name[n] = None
    THEN /\ object = Len(sem) + 1
         /\ sem' = Append(sem, 0)
         /\ name' = [name EXCEPT ![n] = object]
    ELSE /\ object = name[n]
         /\ UNCHANGED <<sem, name>>

Post(object) == sem' = [sem EXCEPT ![object] = @ + 1]
Wait(object) == sem[object] > 0 /\ sem' = [sem EXCEPT ![object] = @ - 1]
Unlink(n) == name' = [name EXCEPT ![n] = None]

Move(p, from, to) == at[p] = from /\ at' = [at EXCEPT ![p] = to]

-----------------------------------------------------------------------------
(* highlander().                                                           *)

\* Mutant of ExclusiveFails: O_EXCL is forgotten.
NeverFails == FALSE

\* sem_open with O_CREAT and O_EXCL fails if the name is linked.
ExclusiveFails == name["K"] # None

\* The first sem_open: who creates K is the highlander.
OpenK(p) ==
    IF ExclusiveFails
    THEN /\ Move(p, "openK", "reopenK")
         /\ UNCHANGED <<name, sem, semk, seml, am, v, cleaner>>
    ELSE /\ Move(p, "openK", "openL")
         /\ \E o \in 1 .. Len(sem) + 1 :
               /\ OpenOrCreate("K", o)
               /\ semk' = [semk EXCEPT ![p] = o]
         /\ am' = [am EXCEPT ![p] = "highlander"]
         /\ UNCHANGED <<seml, v, cleaner>>

\* The others open it once more; it may have been unlinked meanwhile.
ReopenK(p) ==
    /\ Move(p, "reopenK", "openL")
    /\ \E o \in 1 .. Len(sem) + 1 :
          /\ OpenOrCreate("K", o)
          /\ semk' = [semk EXCEPT ![p] = o]
    /\ am' = [am EXCEPT ![p] = "foe"]
    /\ UNCHANGED <<seml, v, cleaner>>

\* Mutant of OpenL: only the foes open L.
OpenLFoeOnly(p) ==
    /\ Move(p, "openL", IF am[p] = "foe" THEN "post" ELSE "log")
    /\ IF am[p] # "foe" THEN UNCHANGED <<name, sem, seml>>
       ELSE \E o \in 1 .. Len(sem) + 1 :
               OpenOrCreate("L", o) /\ seml' = [seml EXCEPT ![p] = o]
    /\ UNCHANGED <<semk, am, v, cleaner>>

OpenL(p) ==
    /\ Move(p, "openL", IF am[p] = "foe" THEN "post" ELSE "log")
    /\ \E o \in 1 .. Len(sem) + 1 :
          /\ OpenOrCreate("L", o)
          /\ seml' = [seml EXCEPT ![p] = o]
    /\ UNCHANGED <<semk, am, v, cleaner>>

\* Mutant of Announced: the foe posts L instead of K.
AnnouncedL(p) == seml[p]

\* The semaphore a foe announces itself on.
Announced(p) == semk[p]

PostK(p) ==
    /\ Move(p, "post", "run")
    /\ Post(Announced(p))
    /\ UNCHANGED <<name, semk, seml, am, v, cleaner>>

-----------------------------------------------------------------------------
(* main().                                                                 *)

\* The highlander opens its log file and starts measuring, or gives up at once
\* with the semaphores left behind.
OpenLog(p) ==
    /\ \/ Move(p, "log", "run")
       \/ LogFails /\ Move(p, "log", "done")
    /\ UNCHANGED <<name, sem, semk, seml, am, v, cleaner>>

\* The application of p ends, and p enters highlander_wait.
ApplicationEnds(p) ==
    /\ Together => \A q \in Proc : at[q] \notin Starting
    /\ Move(p, "run", "wait")
    /\ UNCHANGED <<name, sem, semk, seml, am, v, cleaner>>

\* The last measurement and the summary.
Finish(p) ==
    /\ Move(p, "finish", "done")
    /\ UNCHANGED <<name, sem, semk, seml, am, v, cleaner>>

-----------------------------------------------------------------------------
(* highlander_wait().                                                      *)

\* Mutant of MustWait: one foe is enough to wait for.
MustWaitOne(count) == count > 0

\* "while (v > 1)"; v is read once, before the loop.
MustWait(count) == count > 1

GetValue(p) ==
    /\ am[p] = "highlander"
    /\ v' = [v EXCEPT ![p] = sem[semk[p]]]
    /\ Move(p, "wait", IF MustWait(v'[p]) THEN "waitL" ELSE "unlinkK")
    /\ UNCHANGED <<name, sem, semk, seml, am, cleaner>>

\* The loop tests the same v after every sem_wait.
WaitL(p) ==
    /\ Move(p, "waitL", IF MustWait(v[p]) THEN "waitL" ELSE "unlinkK")
    /\ Wait(seml[p])
    /\ UNCHANGED <<name, semk, seml, am, v, cleaner>>

UnlinkK(p) ==
    /\ Move(p, "unlinkK", "unlinkL")
    /\ Unlink("K")
    /\ UNCHANGED <<sem, semk, seml, am, v, cleaner>>

UnlinkL(p) ==
    /\ Move(p, "unlinkL", "finish")
    /\ Unlink("L")
    /\ UNCHANGED <<sem, semk, seml, am, v, cleaner>>

FoeWaitK(p) ==
    /\ am[p] = "foe"
    /\ Move(p, "wait", "postL")
    /\ Wait(semk[p])
    /\ UNCHANGED <<name, semk, seml, am, v, cleaner>>

FoePostL(p) ==
    /\ Move(p, "postL", "done")
    /\ Post(seml[p])
    /\ UNCHANGED <<name, semk, seml, am, v, cleaner>>

\* highlander_clean(): two unlinks, at any time.
Clean ==
    /\ cleaner < 2 * MaxCleans
    /\ cleaner' = cleaner + 1
    /\ Unlink(IF cleaner % 2 = 0 THEN "K" ELSE "L")
    /\ UNCHANGED <<sem, semk, seml, am, at, v>>

Step(p) ==
    \/ OpenK(p) \/ ReopenK(p) \/ OpenL(p) \/ PostK(p)
    \/ OpenLog(p) \/ ApplicationEnds(p) \/ Finish(p)
    \/ GetValue(p) \/ WaitL(p) \/ UnlinkK(p) \/ UnlinkL(p)
    \/ FoeWaitK(p) \/ FoePostL(p)

ElectionNext == (\E p \in Proc : Step(p)) \/ Clean

ElectionSpec == ElectionInit /\ [][ElectionNext]_electionVars

\* The kernel schedules every process and every application ends.
FairElectionSpec == ElectionSpec /\ \A p \in Proc : WF_electionVars(Step(p))

-----------------------------------------------------------------------------
(* Properties.                                                             *)

ElectionTypeOK ==
    /\ name \in [{"K", "L"} -> 0 .. Len(sem)]
    /\ sem \in Seq(Nat)
    /\ semk \in [Proc -> 0 .. Len(sem)]
    /\ seml \in [Proc -> 0 .. Len(sem)]
    /\ am \in [Proc -> {"unknown", "highlander", "foe"}]
    /\ at \in [Proc -> Starting \cup {"log", "run", "wait", "waitL", "unlinkK",
                                      "unlinkL", "postL", "finish", "done"}]
    /\ \A p \in Proc : at[p] \notin Starting => None \notin {semk[p], seml[p]}
    /\ v \in [Proc -> Nat]
    /\ cleaner \in 0 .. 2 * MaxCleans

Highlanders == {p \in Proc : am[p] = "highlander"}

\* No semaphore K has two highlanders, whatever monitors start, end, are cleaned
\* up after or give up in between (highlander).
OneHighlanderEach == \A p, q \in Highlanders : p # q => semk[p] # semk[q]

\* The foes that have announced themselves on a K and not taken that back.
Outstanding(o) ==
    {p \in Proc : am[p] = "foe" /\ semk[p] = o /\ at[p] \in {"run", "wait"}}

\* Every K counts its foes that have not called wait, so a foe is never blocked
\* in highlander_wait, even after its K was unlinked (highlander_wait).
FoesNeverBlock ==
    \A p \in Proc : am[p] = "foe" /\ at[p] = "wait"
        => sem[semk[p]] >= Cardinality(Outstanding(semk[p]))

Monitoring(p) == am[p] = "highlander" /\ at[p] \notin Starting \cup {"done"}

\* From the creation of the first K until it is unlinked the node has one
\* highlander, and every other monitor that has opened a K is its foe, however
\* their two calls of sem_open interleave (highlander).
OneElected ==
    name["K"] = 1 => /\ Cardinality(Highlanders) = 1
                     /\ \A p \in Proc : semk[p] \in {None, 1}

\* Every monitor ends, but for a highlander that found two foes or more when its
\* application ended: with fewer nothing blocks (highlander_wait).
EndsUnlessTwoFoes == \A p \in Proc : <>(at[p] = "done" \/ v[p] > 1)

\* "... include logic so that only one monitor is run per node"
\* (demoapps/powmon/README.md).
OnlyOneMonitor == \A p, q \in Proc : Monitoring(p) /\ Monitoring(q) => p = q

\* "Causes the highlander to wait until all foes have called wait" (highlander.c):
\* it does not go on before.
WaitsForFoes ==
    \A p \in Highlanders : at[p] \in {"unlinkK", "unlinkL", "finish"} =>
        \A q \in Proc : am[q] = "foe" /\ semk[q] = semk[p]
            => at[q] \notin {"post", "run"}

\* The same: it does go on when they have.
WaitsNoLonger ==
    \A p \in Proc :
        (am[p] = "highlander" /\ at[p] = "waitL"
            /\ \A q \in Proc \ {p} : am[q] = "foe" /\ at[q] = "done")
        ~> at[p] = "done"
=============================================================================
