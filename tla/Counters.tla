------------------------------ MODULE Counters -------------------------------
(***************************************************************************)
(* The programmable counters of msr_counters.c beside the registers of     *)
(* Registers: the application uses either one group of those, or one bank  *)
(* of counters, the PMCs of the threads or the PCU counters of the         *)
(* sockets.  A counter is the set of the events it has counted since it    *)
(* was last zero.                                                          *)
(*                                                                         *)
(* enable_pmc and enable_pcu write the events' registers, zero the words   *)
(* of the counters and write those.  Neither looks at what became of the   *)
(* writes.                                                                 *)
(***************************************************************************)
EXTENDS Registers

CONSTANTS
    NumPmc,     \* cpuid_num_pmc()
    NumPcu,     \* 4 in the code; the PCU's counters do not concern one another
    Events,     \* what the application may count
    Off,        \* no event
    MaxConfigs  \* bound: changes of the words of the events' registers

ASSUME CountersAssumption ==
    /\ NumPmc \in 0..8
    /\ NumPcu \in 1..4
    /\ Off \notin Events
    /\ MaxConfigs \in Nat

VARIABLES
    bank,       \* "pmc", "pcu", or "none" when the registers are used
    evtsel,     \* [Counters -> event]: the batch's words for the selectors
    hwsel,      \* [Counters -> event]: the selectors
    data,       \* [Counters -> set of events]: the batch's words for the counters
    hwdata,     \* [Counters -> set of events]: the counters
    doing,      \* "no" call, or the writes still to do: "sel", "data"
    lost,       \* the counters whose pointer clear_pcu has set to NULL
    broken,     \* a NULL pointer has been followed
    zeroed,     \* the counters that the last write of them reached
    budget      \* the bounds not yet used

cvars == <<bank, evtsel, hwsel, data, hwdata, doing, lost, broken, zeroed, budget>>

Slots == CASE bank = "pmc" -> 1..NumPmc [] bank = "pcu" -> 1..NumPcu [] OTHER -> {}

Counters == Units \X Slots

RegistersIdle ==
    /\ group = "perf_ctl"
    /\ regs = [u \in Units |-> {}] /\ held = regs
    /\ fields = [u \in Units |-> [pstate |-> {}]]
    /\ step = "ready" /\ word = <<>>
    /\ counted = regs /\ seen = regs /\ known = {} /\ last = NoCall
    /\ left = [fills |-> 0, calls |-> 0, others |-> 0]

\* the selectors hold what an earlier user left, the batch's words are 0
Init ==
    /\ bank \in {"pmc", "pcu", "none"}
    /\ IF bank = "none" THEN InitRegs ELSE RegistersIdle
    /\ \E e \in Events \cup {Off} : hwsel = [c \in Counters |-> e]
    /\ evtsel = [c \in Counters |-> Off]
    /\ data = [c \in Counters |-> {}]
    /\ hwdata = [c \in Counters |-> {}]
    /\ doing = "no" /\ lost = {} /\ broken = FALSE /\ zeroed = {}
    /\ budget = IF bank = "none" THEN [configs |-> 0, calls |-> 0]
                ELSE [configs |-> MaxConfigs, calls |-> MaxCalls]

Calling == doing = "no" /\ ~broken /\ budget.calls > 0

Spend == budget' = [budget EXCEPT !.calls = @ - 1]

\* the words zeroed, when every pointer to them is there
Zero == [c \in Counters |-> {}]

(* set_pmc_ctrl_flags, set_pcu_ctrl_flags for one unit; set_all_pmc_ctrl,  *)
(* set_all_pcu_ctrl for all.  The slot is one the processor has: beyond it *)
(* there is no pointer to follow.                                          *)
SetCtrlFlags(us, slot, e) ==
    /\ doing = "no" /\ ~broken /\ budget.configs > 0
    /\ slot \in Slots
    /\ evtsel' = [c \in Counters |-> IF c[1] \in us /\ c[2] = slot THEN e ELSE evtsel[c]]
    /\ budget' = [budget EXCEPT !.configs = @ - 1]
    /\ UNCHANGED <<bank, hwsel, data, hwdata, doing, lost, broken, zeroed>>

(* enable_pmc, enable_pcu; without a PMC it is refused. *)
Enable ==
    /\ Calling
    /\ Slots # {}
    /\ doing' = "sel" /\ zeroed' = {}
    /\ Spend
    /\ UNCHANGED <<bank, evtsel, hwsel, data, hwdata, lost, broken>>

ZeroWordsForgotten ==
    /\ doing' = "data"
    /\ UNCHANGED <<data, broken>>

\* clear_all_pmc, clear_all_pcu as far as the words
ZeroWords ==
    IF lost # {} THEN /\ broken' = TRUE /\ doing' = "no"
                      /\ UNCHANGED data
    ELSE /\ data' = Zero /\ doing' = "data"
         /\ UNCHANGED broken

WriteSelectors ==
    /\ doing = "sel"
    /\ \E done \in SUBSET Counters :
         hwsel' = [c \in Counters |-> IF c \in done THEN evtsel[c] ELSE hwsel[c]]
    /\ ZeroWords
    /\ UNCHANGED <<bank, evtsel, hwdata, lost, zeroed, budget>>

(* clear_all_pmc, clear_all_pcu called by the application. *)
ClearAll ==
    /\ Calling
    /\ zeroed' = {}
    /\ ZeroWords
    /\ Spend
    /\ UNCHANGED <<bank, evtsel, hwsel, hwdata, lost>>

WriteData ==
    /\ doing = "data"
    /\ \E done \in SUBSET Counters :
         /\ hwdata' = [c \in Counters |-> IF c \in done THEN data[c] ELSE hwdata[c]]
         /\ zeroed' = done
    /\ doing' = "no"
    /\ UNCHANGED <<bank, evtsel, hwsel, data, lost, broken, budget>>

(* clear_pmc(idx) zeroes the words of idx's first counters and writes none *)
(* of them; it compares idx with the number of PMCs, not of threads.       *)
ClearPmc(idx) ==
    /\ Calling /\ bank = "pmc"
    /\ data' = IF idx < NumPmc
                 THEN [c \in Counters |-> IF c[1] = idx /\ c[2] <= idx THEN {} ELSE data[c]]
                 ELSE data
    /\ Spend
    /\ UNCHANGED <<bank, evtsel, hwsel, hwdata, doing, lost, broken, zeroed>>

(* clear_pcu(idx) sets the pointer to the first counter's word to 0. *)
ClearPcu(idx) ==
    /\ Calling /\ bank = "pcu"
    /\ lost' = lost \cup {<<idx, 1>>}
    /\ Spend
    /\ UNCHANGED <<bank, evtsel, hwsel, data, hwdata, doing, broken, zeroed>>

(* dump_pmc_data_readable reads the counters; dump_unc_counter_data prints *)
(* the words that are there.                                               *)
Dump ==
    /\ Calling
    /\ \/ /\ bank = "pmc"
          /\ \E got \in SUBSET Counters :
               data' = [c \in Counters |-> IF c \in got THEN hwdata[c] ELSE data[c]]
          /\ UNCHANGED broken
       \/ /\ bank = "pcu"
          /\ broken' = (lost # {})
          /\ UNCHANGED data
    /\ Spend
    /\ UNCHANGED <<bank, evtsel, hwsel, hwdata, doing, lost, zeroed>>

(* A counter whose selector has an event counts it, at any time. *)
CountEvent(c) ==
    /\ hwsel[c] # Off
    /\ hwdata' = [hwdata EXCEPT ![c] = @ \cup {hwsel[c]}]
    /\ UNCHANGED <<bank, evtsel, hwsel, data, doing, lost, broken, zeroed, budget>>

NextCounters ==
    \/ \E us \in {{u} : u \in Units} \cup {Units}, slot \in {1, 2}, e \in Events :
          SetCtrlFlags(us, slot, e)
    \/ Enable
    \/ WriteSelectors
    \/ ClearAll
    \/ WriteData
    \/ \E idx \in Units : ClearPmc(idx)
    \/ \E idx \in Units : ClearPcu(idx)
    \/ Dump
    \/ \E c \in Counters : CountEvent(c)

Next == \/ bank = "none" /\ NextRegs /\ UNCHANGED cvars
        \/ bank # "none" /\ NextCounters /\ UNCHANGED vars

Spec == Init /\ [][Next]_<<vars, cvars>>

-----------------------------------------------------------------------------
(* Properties *)

\* A counter that the last enable or clear has reached holds only what its
\* present configuration has counted, whichever of the selectors the call
\* reached and whatever was counted between its two writes; so do the fixed
\* counters that set_fixed_counter_ctrl has reached.
NoMixedCounts ==
    /\ \A c \in zeroed : hwdata[c] \subseteq {hwsel[c]}
    /\ \A u \in last.zeroed : counted[u] \subseteq {regs[u]}

TypeOK ==
    /\ group \in Groups
    /\ step \in {"ready", "filled", "read", "data"}
    /\ last.blind \subseteq last.units /\ last.units \subseteq Units
    /\ known \subseteq Units \X {0, 1}
    /\ doing \in {"no", "sel", "data"}
    /\ lost \subseteq Counters /\ zeroed \subseteq Counters
    /\ broken \in BOOLEAN
=============================================================================
