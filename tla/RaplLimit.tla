------------------------------ MODULE RaplLimit ------------------------------
(***************************************************************************)
(* Power limits in src/src/msr_rapl.c: set_pkg_rapl_limit changes one half *)
(* of the package register, or both, with a read and a write;              *)
(* set_dram_rapl_limit writes the DRAM register; the get functions read    *)
(* them back.  Several tools on the node do so at once.                    *)
(*                                                                         *)
(* A register is the set of its bits that are one, so "or" is union and    *)
(* "mask" is intersection.  The layout is the real one with narrower       *)
(* fields: per half watts, enable, clamp, time window and one more bit     *)
(* (reserved in the lower half, the lock in the upper one).  A number of   *)
(* watts or of window units is the set of its one bits too.                *)
(***************************************************************************)
EXTENDS Naturals, Integers, FiniteSets

CONSTANTS
    Tool,            \* programs that use the library
    WattsBits, WindowBits,
    Uses,            \* pairs of a tool and a limit it sets
    ReadsBack,       \* pairs of a tool and a limit it reads back
    WattsValues, WindowValues,   \* what they ask for, in hardware units
    FreshLimits,     \* TRUE: tools fill in a limit, bits cleared, to set it
    ReadsFail        \* TRUE: a register read may be refused

ASSUME LimitAssumption ==
    /\ {WattsBits, WindowBits} \subseteq Nat \ {0}
    /\ \A v \in WattsValues \cup WindowValues : v \subseteq Nat
    /\ Uses \cup ReadsBack \subseteq Tool \X {"pkg1", "pkg2", "dram"}
    /\ {FreshLimits, ReadsFail} \subseteq BOOLEAN

HalfBits == WattsBits + WindowBits + 3
Bit == 0 .. 2 * HalfBits - 1
Limit == {"pkg1", "pkg2", "dram"}
Package == {"pkg1", "pkg2"}
Register(l) == IF l = "dram" THEN "dram" ELSE "pkg"
Offset(l) == IF l = "pkg2" THEN HalfBits ELSE 0

Field(l, first, width) == Offset(l) + first .. Offset(l) + first + width - 1
HalfOf(l) == Field(l, 0, HalfBits)
Enable(l) == {Offset(l) + WattsBits}
Clamp(l) == {Offset(l) + WattsBits + 1}
WindowAt == WattsBits + 2
Lock == 2 * HalfBits - 1

VARIABLES
    msr,     \* the two power limit registers
    lim,     \* each tool's struct rapl_limit for every limit
    pc,      \* "idle" or "write": inside set_pkg_rapl_limit, before the write
    args,    \* the limits that are not NULL in the running call
    value,   \* pkg_limit, what the running call will write
    ret,     \* result of the last set: rc, and whether its limits were installed
    changed  \* history: the halves that others changed during the call

vars == <<msr, lim, pc, args, value, ret, changed>>

NoResult == [rc |-> 0, limits |-> {}, installed |-> TRUE]
NewLimit == [bits |-> {}, watts |-> {}, window |-> {}]

Fitting(values, width) == {v \in values : v \subseteq 0 .. width - 1}

\* At reset the DRAM register may be zero, the package register holds a limit.
Init ==
    /\ \E w \in Fitting(WattsValues, WattsBits), s \in Fitting(WindowValues, WindowBits) :
          msr = [pkg |-> UNION {{Offset(l) + i : i \in w} \cup Enable(l)
                                \cup {Offset(l) + WindowAt + i : i \in s} : l \in Package},
                 dram |-> {}]
    /\ lim = [t \in Tool |-> [l \in Limit |-> NewLimit]]
    /\ pc = [t \in Tool |-> "idle"]
    /\ args = [t \in Tool |-> {}]
    /\ value = [t \in Tool |-> {}]
    /\ ret = [t \in Tool |-> NoResult]
    /\ changed = [t \in Tool |-> {}]

-----------------------------------------------------------------------------
(* calc_rapl_from_bits, calc_rapl_bits.                                    *)

\* A number shifted into the register; bits shifted out at the top are lost.
Shift(v, by) == {i + by : i \in v} \cap Bit
Extract(bits, l, first, width) ==
    {i - Offset(l) - first : i \in bits \cap Field(l, first, width)}

\* Mutant of FromBits: the offset of the upper limit is forgotten.
FromBitsLow(s, l) ==
    [s EXCEPT !.watts = Extract(s.bits, "pkg1", 0, WattsBits),
              !.window = Extract(s.bits, "pkg1", WindowAt, WindowBits)]

\* calc_rapl_from_bits: watts and window follow the bits.
FromBits(s, l) ==
    [s EXCEPT !.watts = Extract(s.bits, l, 0, WattsBits),
              !.window = Extract(s.bits, l, WindowAt, WindowBits)]

\* Only the watts are checked against their field; the check of the time window
\* is commented out.
TooLarge(s) == \E i \in s.watts : i >= WattsBits

ToBits(s, l) ==
    [s EXCEPT !.bits = @ \cup Shift(s.watts, Offset(l))
                         \cup Shift(s.window, Offset(l) + WindowAt)]

\* Nonzero bits win over watts and seconds.
CalcFails(s) == s.bits = {} /\ TooLarge(s)
Calc(s, l) == IF s.bits # {} THEN FromBits(s, l)
              ELSE IF TooLarge(s) THEN s
              ELSE ToBits(s, l)

-----------------------------------------------------------------------------
(* The calls.                                                              *)

\* A tool fills in a struct rapl_limit.
Fill(t, l, watts, window) ==
    /\ pc[t] = "idle"
    /\ lim' = [lim EXCEPT ![t][l] =
                  [bits |-> {}, watts |-> watts, window |-> window]]
    /\ ret' = [ret EXCEPT ![t] = NoResult]
    /\ UNCHANGED <<msr, pc, args, value, changed>>

Filled(s) == s.bits = {} /\ s.watts \in WattsValues /\ s.window \in WindowValues

\* Mutants of Kept: nothing is masked off; the wrong half is.
KeptUnmasked(ls) == IF ls = Package THEN {} ELSE msr.pkg
KeptWrong(ls) == UNION {msr.pkg \cap HalfOf(l) : l \in ls}

\* What the first half of the call takes from the register: the half whose
\* limit is NULL.
Kept(ls) == UNION {msr.pkg \cap HalfOf(l) : l \in Package \ ls}

\* What a limit contributes to the register, enabled and clamped.
Requested(s, l) == s.bits \cup Enable(l) \cup Clamp(l)

\* The limits calc_pkg_rapl_limit computes, the lower one first: an error there
\* returns before the upper one is looked at.
Computed(t, ls) ==
    IF "pkg1" \in ls /\ CalcFails(lim[t]["pkg1"]) THEN {} ELSE ls

\* set_pkg_rapl_limit up to the write: with one limit NULL the register is read
\* and the other half kept; a failed read is only added to the result.
BeginSet(t, ls) ==
    /\ pc[t] = "idle"
    /\ FreshLimits => \A l \in ls : Filled(lim[t][l])
    /\ lim' = [lim EXCEPT ![t] =
                  [l \in Limit |-> IF l \in Computed(t, ls) THEN Calc(@[l], l) ELSE @[l]]]
    /\ \E ok \in {TRUE} \cup (IF ReadsFail /\ ls # Package THEN {FALSE} ELSE {}) :
          IF \E l \in ls : CalcFails(lim[t][l])
          THEN /\ ret' = [ret EXCEPT ![t] = [rc |-> -1, limits |-> ls, installed |-> FALSE]]
               /\ UNCHANGED <<pc, args, value>>
          ELSE /\ pc' = [pc EXCEPT ![t] = "write"]
               /\ args' = [args EXCEPT ![t] = ls]
               /\ value' = [value EXCEPT ![t] =
                      (IF ok THEN Kept(ls) ELSE {})
                          \cup UNION {Requested(lim'[t][l], l) : l \in ls}]
               /\ ret' = [ret EXCEPT ![t] = [NoResult EXCEPT !.rc = IF ok THEN 0 ELSE -1]]
    /\ changed' = [changed EXCEPT ![t] = {}]
    /\ UNCHANGED msr

\* Whether the register holds what the limits of tool t ask for.
Installed(reg, t, ls) ==
    \A l \in ls : /\ Extract(reg, l, 0, WattsBits) = lim[t][l].watts
                  /\ Enable(l) \subseteq reg

\* Mutants of WriteResult: only the read counts; a positive error number.
WriteResultLost(rc, ok) == rc
WriteResultErrno(rc, ok) == IF ok THEN rc ELSE rc + 2

WriteResult(rc, ok) == IF ok THEN rc ELSE rc - 1

Untouched(l) == msr'.pkg \cap HalfOf(l) = msr.pkg \cap HalfOf(l)

\* The write of set_pkg_rapl_limit; a locked register refuses it.
WriteSet(t) ==
    /\ pc[t] = "write"
    /\ pc' = [pc EXCEPT ![t] = "idle"]
    /\ \E ok \in {FALSE} \cup (IF Lock \in msr.pkg THEN {} ELSE {TRUE}) :
          /\ msr' = IF ok THEN [msr EXCEPT !.pkg = value[t]] ELSE msr
          /\ ret' = [ret EXCEPT ![t] =
                        [rc |-> WriteResult(@.rc, ok), limits |-> args[t],
                         installed |-> Installed(msr'.pkg, t, args[t])]]
          /\ changed' = [u \in Tool |-> IF u = t \/ pc[u] = "idle" THEN {}
                             ELSE changed[u] \cup {l \in Package : ~Untouched(l)}]
    /\ args' = [args EXCEPT ![t] = {}]
    /\ value' = [value EXCEPT ![t] = {}]
    /\ UNCHANGED lim

\* set_dram_rapl_limit: the whole register is written, the result ignored.
SetDram(t) ==
    /\ pc[t] = "idle"
    /\ FreshLimits => Filled(lim[t]["dram"])
    /\ LET s == Calc(lim[t]["dram"], "dram")
       IN  IF CalcFails(lim[t]["dram"])
           THEN /\ ret' = [ret EXCEPT ![t] = [rc |-> -1, limits |-> {"dram"},
                                              installed |-> FALSE]]
                /\ UNCHANGED <<msr, lim>>
           ELSE /\ lim' = [lim EXCEPT ![t]["dram"] = s]
                /\ \E ok \in BOOLEAN :
                     /\ msr' = IF ok THEN [msr EXCEPT !.dram = s.bits \cup Enable("dram")]
                               ELSE msr
                     /\ ret' = [ret EXCEPT ![t] =
                           [rc |-> 0, limits |-> {"dram"},
                            installed |-> Extract(msr'.dram, "dram", 0, WattsBits) = s.watts]]
    /\ UNCHANGED <<pc, args, value, changed>>

\* get_pkg_rapl_limit, get_dram_rapl_limit for one limit: the register is read
\* into bits, which keep their value if that fails, and whatever they are then
\* decides the direction of the translation.
Get(t, l) ==
    /\ pc[t] = "idle"
    /\ \E ok \in {TRUE} \cup (IF ReadsFail THEN {FALSE} ELSE {}) :
          lim' = [lim EXCEPT ![t][l] =
                     Calc(IF ok THEN [@ EXCEPT !.bits = msr[Register(l)]] ELSE @, l)]
    /\ ret' = [ret EXCEPT ![t] = NoResult]
    /\ UNCHANGED <<msr, pc, args, value, changed>>

UsedBy(t) == {l \in Limit : <<t, l>> \in Uses}

Next == \E t \in Tool :
    \/ \E l \in UsedBy(t), w \in WattsValues, s \in WindowValues : Fill(t, l, w, s)
    \/ \E ls \in SUBSET (Package \cap UsedBy(t)) \ {{}} : BeginSet(t, ls)
    \/ WriteSet(t)
    \/ "dram" \in UsedBy(t) /\ SetDram(t)
    \/ \E l \in Limit : <<t, l>> \in ReadsBack /\ Get(t, l)

Spec == Init /\ [][Next]_vars

-----------------------------------------------------------------------------
(* Properties.                                                             *)

TypeOK ==
    /\ msr \in [pkg : SUBSET Bit, dram : SUBSET Bit]
    /\ lim \in [Tool -> [Limit -> [bits : SUBSET Bit, watts : SUBSET Nat,
                                   window : SUBSET Nat]]]
    /\ pc \in [Tool -> {"idle", "write"}]
    /\ args \in [Tool -> SUBSET Package]
    /\ value \in [Tool -> SUBSET Bit]
    /\ changed \in [Tool -> SUBSET Package]
    /\ ret \in [Tool -> [rc : {0, -1, -2}, limits : SUBSET Limit, installed : BOOLEAN]]

\* Each half of the package register is always one of the limits that tools ask
\* for, enabled and in one piece, however the reads and writes of several tools
\* interleave: at worst an update is lost (set_pkg_rapl_limit).
NoMixedLimit ==
    \A l \in Package :
        /\ Enable(l) \subseteq msr.pkg
        /\ Extract(msr.pkg, l, 0, WattsBits) \in WattsValues
        /\ Extract(msr.pkg, l, WindowAt, WindowBits + 1) \in WindowValues

\* set_pkg_rapl_limit returns 0 only if the limits it was given are in the
\* register when its write is done.
PkgZeroMeansSet ==
    \A t \in Tool : (ret[t].rc = 0 /\ ret[t].limits \subseteq Package) => ret[t].installed

Writes(t) == pc[t] = "write" /\ pc'[t] = "idle"

\* A call with one limit leaves the other half as it is, except that it may undo
\* what another tool changed there since the call read the register
\* (set_pkg_rapl_limit).
KeepsOther ==
    [][\A t \in Tool : Writes(t) =>
          \A l \in Package \ (args[t] \cup changed[t]) : Untouched(l)]_vars

\* The same without exception: "We want to keep the lower limit so mask off all
\* other bits", and the same for the upper one (set_pkg_rapl_limit).
AlwaysKeepsOther ==
    [][\A t \in Tool : Writes(t) =>
          \A l \in Package \ args[t] : Untouched(l)]_vars

\* The two forms of a limit agree as soon as it has bits: watts and window are
\* those of its bits, whichever was computed from which by whatever sequence of
\* calls (calc_rapl_bits, calc_rapl_from_bits).
FormsAgree ==
    \A t \in Tool, l \in Limit :
        LET s == lim[t][l]
        IN  s.bits # {} => /\ s.watts = Extract(s.bits, l, 0, WattsBits)
                           /\ s.window = Extract(s.bits, l, WindowAt, WindowBits)

\* A limit that was read back has the watts of the register: "read the msr value
\* into the bit vector and translate into watts and seconds" (include/msr_rapl.h).
GetReflectsRegister ==
    [][\A t \in Tool, l \in Limit : Get(t, l) =>
          lim'[t][l].watts = Extract(msr[Register(l)], l, 0, WattsBits)]_vars

\* A time window too large for its field is refused: "else -1 if ... the Watts
\* value or seconds value overflow the bit field" (calc_rapl_bits).
WindowChecked ==
    [][\A t \in Tool, l \in Package : \A ls \in SUBSET Package :
          (BeginSet(t, ls) /\ l \in ls /\ lim[t][l].bits = {}
              /\ \E i \in lim[t][l].window : i >= WindowBits)
          => ret'[t].rc = -1]_vars

\* set_dram_rapl_limit returns 0 only if the limit is set: "@return 0 if
\* successful" (include/msr_rapl.h).
DramZeroMeansSet ==
    \A t \in Tool : (ret[t].rc = 0 /\ ret[t].limits = {"dram"}) => ret[t].installed
=============================================================================
