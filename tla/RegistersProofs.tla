-------------------------- MODULE RegistersProofs --------------------------
(***************************************************************************)
(* What a setter leaves in the registers, and what the counters hold, for  *)
(* any number of units and of counters and any bounds.                     *)
(*                                                                         *)
(* First what the tables of FieldTables promise, group by group; then what *)
(* the words made from them hold; then the invariant, action by action.    *)
(***************************************************************************)
EXTENDS Counters, TLAPS

\* the bits of a unit's word: the control registers of the fixed counters are two
AllBits == IF group = "fixed_ctr_ctrl" THEN 0..127 ELSE 0..63

Words == [Units -> SUBSET AllBits]

\* the bits a setter may change, or cannot
Mine == FieldBits(group, DOMAIN Set(group) \cup ReadOnly(group))

Width(g, f) == 0 .. Get(g)[f][1] - Get(g)[f][2]

\* What a setter loses: the bits of the old value that it does not clear stay in
\* the register beside the new one.
Uncleared(getter, setter, f) == BitsOf(getter, f) \ setter[f].clear

CallType == [units : SUBSET Units, read : SUBSET (Units \X {0, 1}),
             done : SUBSET (Units \X {0, 1}), before : {<<>>} \cup Words,
             blind : SUBSET Units, zeroed : SUBSET Units, quiet : BOOLEAN]

FieldsType == [Units -> [DOMAIN Get(group) -> SUBSET Nat]]

\* Every field holds a value of its width, except the switch of the duty cycle:
\* the application may store 2 in it, and set_clock_mod refuses that.
FieldsFit ==
    \A u \in Units : \A f \in DOMAIN Get(group) :
        \/ fields[u][f] \subseteq Width(group, f)
        \/ group = "clock_mod" /\ f = "duty_cycle_enable"

RegsType ==
    /\ group \in Groups
    /\ regs \in Words /\ held \in Words /\ seen \in Words
    /\ fields \in FieldsType
    /\ step \in {"ready", "filled", "read", "data"}
    /\ counted \in [Units -> SUBSET SUBSET AllBits]
    /\ known \in SUBSET (Units \X {0, 1}) /\ last \in CallType

\* Outside the fields the batch holds what the registers held when they were
\* last read; a P-state is stored as it was asked.
HeldAsSeen ==
    /\ group \notin Coord => \A u \in Units : held[u] \ Mine = seen[u] \ Mine
    /\ group = "perf_ctl" => \A u \in Units : held[u] = fields[u]["pstate"]

\* The words a setter is about to write hold the values asked; of the old word
\* what the setter does not clear, exactly as it was read if the setter read it;
\* and outside its fields what was read.
WordsAsAsked ==
    step = "read" =>
        /\ word \in [last.units -> SUBSET AllBits]
        /\ \A u \in last.units : \A f \in DOMAIN Set(group) :
              /\ fields[u][f] \subseteq Width(group, f)
              /\ Shift(fields[u][f], Set(group)[f].shift) \subseteq word[u]
              /\ group # "therm_stat" =>
                   word[u] \cap BitsOf(Get(group), f)
                     \subseteq Shift(fields[u][f], Set(group)[f].shift)
                                \cup Uncleared(Get(group), Set(group), f)
              /\ group # "therm_stat" /\ Pieces({u}) \subseteq last.read =>
                   word[u] \cap BitsOf(Get(group), f)
                     = Shift(fields[u][f], Set(group)[f].shift)
                         \cup (seen[u] \cap Uncleared(Get(group), Set(group), f))
        /\ \A u \in last.units \ last.blind : word[u] \ Mine = seen[u] \ Mine

\* What happened since the last call is known to the properties.
CallSteps ==
    /\ step # "ready" => last.zeroed = {}
    /\ step \in {"read", "filled"} => ~last.quiet
    /\ last.blind \subseteq last.units

RegsCounts == \A u \in last.zeroed : counted[u] \subseteq {regs[u]}

RegsInv ==
    /\ RegsType /\ FieldsFit /\ HeldAsSeen /\ WordsAsAsked /\ CallSteps /\ RegsCounts
    /\ NeighboursAsLastRead /\ ReadsBackAsSet

-----------------------------------------------------------------------------
(* The tables.                                                             *)

\* Every field has its bits, inside the word, and no two fields share one.
Layout(getter, top) ==
    \A f \in DOMAIN getter :
        /\ getter[f][1] \in 0..top /\ getter[f][2] \in 0..getter[f][1]
        /\ \A h \in DOMAIN getter \ {f} : \/ getter[f][1] < getter[h][2]
                                          \/ getter[h][1] < getter[f][2]

\* A setter stores fields of the getter, where the getter finds them.
StoredInPlace(getter, setter) ==
    \A f \in DOMAIN setter :
        /\ f \in DOMAIN getter
        /\ setter[f].clear \subseteq BitsOf(getter, f)
        /\ setter[f].shift = getter[f][2]

LEMMA ThermStatTable ==
    /\ Layout(GetThermStat, 63)
    /\ \A f \in DOMAIN SetThermStat :
          /\ f \in DOMAIN GetThermStat
          /\ SetThermStat[f].clear \subseteq BitsOf(GetThermStat, f)
          /\ SetThermStat[f].shift = 1
          /\ GetThermStat[f][1] = GetThermStat[f][2]
    /\ DOMAIN SetThermStat = ThermStatLogs
<1>1. Layout(GetThermStat, 63)
  BY DEF Layout, GetThermStat
<1>2. \A f \in DOMAIN SetThermStat :
          /\ f \in DOMAIN GetThermStat
          /\ SetThermStat[f].clear \subseteq BitsOf(GetThermStat, f)
          /\ SetThermStat[f].shift = 1
          /\ GetThermStat[f][1] = GetThermStat[f][2]
  BY DEF GetThermStat, SetThermStat, BitsOf, Stored
<1>3. DOMAIN SetThermStat = ThermStatLogs
  BY DEF SetThermStat, ThermStatLogs
<1> QED
  BY <1>1, <1>2, <1>3

LEMMA PkgThermStatTable ==
    /\ Layout(GetPkgThermStat, 63)
    /\ StoredInPlace(GetPkgThermStat, SetPkgThermStat)
    /\ \A f \in DOMAIN SetPkgThermStat :
          /\ SetPkgThermStat[f].clear = {GetPkgThermStat[f][2]}
          /\ GetPkgThermStat[f][1] = GetPkgThermStat[f][2]
    /\ DOMAIN SetPkgThermStat = PkgThermStatLogs
<1>1. Layout(GetPkgThermStat, 63)
  BY DEF Layout, GetPkgThermStat
<1>2. StoredInPlace(GetPkgThermStat, SetPkgThermStat)
  BY DEF StoredInPlace, GetPkgThermStat, SetPkgThermStat, BitsOf, Stored
<1>3. \A f \in DOMAIN SetPkgThermStat :
          /\ SetPkgThermStat[f].clear = {GetPkgThermStat[f][2]}
          /\ GetPkgThermStat[f][1] = GetPkgThermStat[f][2]
  BY DEF GetPkgThermStat, SetPkgThermStat, Stored
<1>4. DOMAIN SetPkgThermStat = PkgThermStatLogs
  BY DEF SetPkgThermStat, PkgThermStatLogs
<1> QED
  BY <1>1, <1>2, <1>3, <1>4

LEMMA InterruptTables ==
    /\ Layout(GetPkgThermInterrupt, 63)
    /\ StoredInPlace(GetPkgThermInterrupt, SetPkgThermInterrupt)
    /\ Layout(GetThermInterrupt, 63)
    /\ StoredInPlace(GetThermInterrupt, SetThermInterrupt)
<1>1. Layout(GetPkgThermInterrupt, 63)
  BY DEF Layout, GetPkgThermInterrupt
<1>2. StoredInPlace(GetPkgThermInterrupt, SetPkgThermInterrupt)
  BY DEF StoredInPlace, GetPkgThermInterrupt, SetPkgThermInterrupt, BitsOf, Stored
<1>3. Layout(GetThermInterrupt, 63)
  BY DEF Layout, GetThermInterrupt, GetPkgThermInterrupt
<1>4. StoredInPlace(GetThermInterrupt, SetThermInterrupt)
  BY <1>2 DEF StoredInPlace, GetThermInterrupt, SetThermInterrupt, BitsOf, Stored
<1> QED
  BY <1>1, <1>2, <1>3, <1>4

LEMMA FixedTable ==
    /\ Layout(GetFixedCtrCtrl, 127)
    /\ StoredInPlace(GetFixedCtrCtrl, SetFixedCounterCtrl)
<1>1. Layout(GetFixedCtrCtrl, 127)
  <2> SUFFICES ASSUME NEW f \in FixedFields
               PROVE  /\ GetFixedCtrCtrl[f][1] \in 0..127
                      /\ GetFixedCtrCtrl[f][2] \in 0..GetFixedCtrCtrl[f][1]
                      /\ \A h \in FixedFields \ {f} :
                            \/ GetFixedCtrCtrl[f][1] < GetFixedCtrCtrl[h][2]
                            \/ GetFixedCtrCtrl[h][1] < GetFixedCtrCtrl[f][2]
    BY DEF Layout, GetFixedCtrCtrl
  <2>1. PICK k \in {"enable", "ring_level", "anyThread", "pmi"}, i \in 0..2 : f = <<k, i>>
    BY DEF FixedFields
  <2>2. /\ GetFixedCtrCtrl[f][1] \in 0..127
        /\ GetFixedCtrCtrl[f][2] \in 0..GetFixedCtrCtrl[f][1]
    BY <2>1 DEF GetFixedCtrCtrl
  <2>3. ASSUME NEW h \in FixedFields \ {f}
        PROVE  \/ GetFixedCtrCtrl[f][1] < GetFixedCtrCtrl[h][2]
               \/ GetFixedCtrCtrl[h][1] < GetFixedCtrCtrl[f][2]
    <3>1. PICK m \in {"enable", "ring_level", "anyThread", "pmi"}, j \in 0..2 : h = <<m, j>>
      BY DEF FixedFields
    <3>2. k # m \/ i # j
      BY <2>1, <3>1
    <3> QED
      BY <2>1, <3>1, <3>2 DEF GetFixedCtrCtrl
  <2> QED
    BY <2>2, <2>3
<1>2. StoredInPlace(GetFixedCtrCtrl, SetFixedCounterCtrl)
  BY DEF StoredInPlace, GetFixedCtrCtrl, SetFixedCounterCtrl, FixedFields, BitsOf, Stored
<1> QED
  BY <1>1, <1>2

LEMMA ClockTables ==
    /\ Layout(GetClockMod, 63)
    /\ StoredInPlace(GetClockMod, SetClockMod)
    /\ Layout(GetMiscEnable, 63)
    /\ StoredInPlace(GetMiscEnable, SetMiscEnable)
    /\ MiscReadOnly \subseteq DOMAIN GetMiscEnable \ DOMAIN SetMiscEnable
<1>1. Layout(GetClockMod, 63) /\ StoredInPlace(GetClockMod, SetClockMod)
  BY DEF Layout, StoredInPlace, GetClockMod, SetClockMod, BitsOf, Stored
<1>2. Layout(GetMiscEnable, 63)
  BY DEF Layout, GetMiscEnable
<1>3. StoredInPlace(GetMiscEnable, SetMiscEnable)
  BY DEF StoredInPlace, GetMiscEnable, SetMiscEnable, BitsOf, Stored
<1>4. MiscReadOnly \subseteq DOMAIN GetMiscEnable \ DOMAIN SetMiscEnable
  BY DEF MiscReadOnly, GetMiscEnable, SetMiscEnable
<1> QED
  BY <1>1, <1>2, <1>3, <1>4

Top == IF group = "fixed_ctr_ctrl" THEN 127 ELSE 63

\* What the proofs need of the table of the group in use.
LEMMA Table ==
    ASSUME group \in Groups
    PROVE  /\ Layout(Get(group), Top)
           /\ \A f \in DOMAIN Set(group) :
                 /\ f \in DOMAIN Get(group)
                 /\ Set(group)[f].clear \subseteq BitsOf(Get(group), f)
                 /\ group # "therm_stat" => Set(group)[f].shift = Get(group)[f][2]
                 /\ group = "therm_stat" => /\ Set(group)[f].shift = 1
                                            /\ Get(group)[f][1] = Get(group)[f][2]
           /\ Logs(group) \subseteq DOMAIN Set(group)
           /\ group # "therm_stat" =>
                 \A f \in Logs(group) : /\ Set(group)[f].clear = {Get(group)[f][2]}
                                        /\ Get(group)[f][1] = Get(group)[f][2]
           /\ ReadOnly(group) \subseteq DOMAIN Get(group) \ DOMAIN Set(group)
<1>1. CASE group = "therm_stat"
  <2>1. Get(group) = GetThermStat /\ Set(group) = SetThermStat /\ Logs(group) = ThermStatLogs
    BY <1>1 DEF Get, Set, Logs
  <2>2. ReadOnly(group) = DOMAIN Get(group) \ Logs(group)
    BY <1>1 DEF ReadOnly
  <2> QED
    BY <1>1, <2>1, <2>2, ThermStatTable DEF Top
<1>2. CASE group = "pkg_therm_stat"
  <2>1. /\ Get(group) = GetPkgThermStat /\ Set(group) = SetPkgThermStat
        /\ Logs(group) = PkgThermStatLogs
    BY <1>2 DEF Get, Set, Logs
  <2>2. ReadOnly(group) = DOMAIN Get(group) \ Logs(group)
    BY <1>2 DEF ReadOnly
  <2> QED
    BY <1>2, <2>1, <2>2, PkgThermStatTable DEF Top, StoredInPlace
<1>3. CASE group \in {"therm_interr", "pkg_therm_interr"}
  <2>1. Logs(group) = {} /\ ReadOnly(group) = {}
    BY <1>3 DEF Logs, ReadOnly
  <2>2. \/ Get(group) = GetThermInterrupt /\ Set(group) = SetThermInterrupt
        \/ Get(group) = GetPkgThermInterrupt /\ Set(group) = SetPkgThermInterrupt
    BY <1>3 DEF Get, Set
  <2> QED
    BY <1>3, <2>1, <2>2, InterruptTables DEF Top, StoredInPlace
<1>4. CASE group = "fixed_ctr_ctrl"
  <2>1. Logs(group) = {} /\ ReadOnly(group) = {}
    BY <1>4 DEF Logs, ReadOnly
  <2>2. Get(group) = GetFixedCtrCtrl /\ Set(group) = SetFixedCounterCtrl
    BY <1>4 DEF Get, Set
  <2> QED
    BY <1>4, <2>1, <2>2, FixedTable DEF Top, StoredInPlace
<1>5. CASE group = "clock_mod"
  <2>1. Logs(group) = {} /\ ReadOnly(group) = {}
    BY <1>5 DEF Logs, ReadOnly
  <2>2. Get(group) = GetClockMod /\ Set(group) = SetClockMod
    BY <1>5 DEF Get, Set
  <2> QED
    BY <1>5, <2>1, <2>2, ClockTables DEF Top, StoredInPlace
<1>6. CASE group = "misc_enable"
  <2>1. Logs(group) = {} /\ ReadOnly(group) = MiscReadOnly
    BY <1>6 DEF Logs, ReadOnly
  <2>2. Get(group) = GetMiscEnable /\ Set(group) = SetMiscEnable
    BY <1>6 DEF Get, Set
  <2> QED
    BY <1>6, <2>1, <2>2, ClockTables DEF Top, StoredInPlace
<1>7. CASE group = "perf_ctl"
  <2>1. Logs(group) = {} /\ ReadOnly(group) = {}
    BY <1>7 DEF Logs, ReadOnly
  <2>2. Get(group) = [pstate |-> <<63, 0>>] /\ Set(group) = [pstate |-> Stored(0..63, 0)]
    BY <1>7 DEF Get, Set, SetPState
  <2>3. /\ Layout([pstate |-> <<63, 0>>], 63)
        /\ BitsOf([pstate |-> <<63, 0>>], "pstate") = 0..63
    BY DEF Layout, BitsOf
  <2> QED
    BY <1>7, <2>1, <2>2, <2>3 DEF Top, Stored
<1> QED
  BY <1>1, <1>2, <1>3, <1>4, <1>5, <1>6, <1>7 DEF Groups

\* The bits a setter does not clear are those the property names, field by field.
LEMMA UnclearedWhich ==
    ASSUME group \in Groups, group # "therm_stat", NEW f \in DOMAIN Set(group)
    PROVE  /\ Uncleared(Get(group), Set(group), f) = Shift(Leftover(f), Get(group)[f][2])
           /\ Leftover(f) \in SUBSET Nat
<1>0. Shift({}, Get(group)[f][2]) = {}
  BY DEF Shift
<1>1. CASE group = "pkg_therm_stat"
  <2>1. Get(group) = GetPkgThermStat /\ Set(group) = SetPkgThermStat /\ Leftover(f) = {}
    BY <1>1 DEF Get, Set, Leftover
  <2>2. Uncleared(GetPkgThermStat, SetPkgThermStat, f) = {}
    BY <2>1 DEF Uncleared, BitsOf, GetPkgThermStat, SetPkgThermStat, Stored
  <2> QED
    BY <1>0, <2>1, <2>2
<1>2. CASE group \in {"therm_interr", "pkg_therm_interr"}
  <2>1. \A h \in DOMAIN SetPkgThermInterrupt :
           Uncleared(GetPkgThermInterrupt, SetPkgThermInterrupt, h)
             = IF h \in Thresholds
                 THEN (GetPkgThermInterrupt[h][2] + 3)..(GetPkgThermInterrupt[h][2] + 6) ELSE {}
    BY DEF Uncleared, BitsOf, GetPkgThermInterrupt, SetPkgThermInterrupt, Stored, Thresholds
  <2>2. /\ Leftover(f) = IF f \in Thresholds THEN 3..6 ELSE {}
    BY <1>2 DEF Leftover
  <2>3. ASSUME f \in Thresholds
        PROVE  Shift(3..6, GetPkgThermInterrupt[f][2])
                 = (GetPkgThermInterrupt[f][2] + 3)..(GetPkgThermInterrupt[f][2] + 6)
    <3>1. GetPkgThermInterrupt[f][2] \in {8, 16}
      BY <2>3 DEF GetPkgThermInterrupt, Thresholds
    <3>2. ASSUME NEW lo \in Nat PROVE Shift(3..6, lo) = (lo + 3)..(lo + 6)
      <4>1. \A x \in (lo + 3)..(lo + 6) : x - lo \in 3..6 /\ x = (x - lo) + lo
        OBVIOUS
      <4> QED
        BY <4>1 DEF Shift
    <3> QED
      BY <3>1, <3>2
  <2>4. /\ Get(group)[f] = IF f = "FORCEPR_enable" THEN <<3, 3>> ELSE GetPkgThermInterrupt[f]
        /\ Set(group)[f] = IF f = "FORCEPR_enable" THEN Stored({3}, 3) ELSE SetPkgThermInterrupt[f]
        /\ f # "FORCEPR_enable" => f \in DOMAIN SetPkgThermInterrupt
    <3>1. /\ DOMAIN SetPkgThermInterrupt = DOMAIN GetPkgThermInterrupt
          /\ "FORCEPR_enable" \notin DOMAIN SetPkgThermInterrupt
      BY DEF SetPkgThermInterrupt, GetPkgThermInterrupt
    <3>2. \/ Get(group) = GetThermInterrupt /\ Set(group) = SetThermInterrupt
          \/ Get(group) = GetPkgThermInterrupt /\ Set(group) = SetPkgThermInterrupt
      BY <1>2 DEF Get, Set
    <3> QED
      BY <3>1, <3>2 DEF GetThermInterrupt, SetThermInterrupt
  <2>5. f = "FORCEPR_enable" => Uncleared(Get(group), Set(group), f) = {} /\ f \notin Thresholds
    BY <2>4 DEF Uncleared, BitsOf, Stored, Thresholds
  <2>6. f # "FORCEPR_enable" => Uncleared(Get(group), Set(group), f)
                                  = Uncleared(GetPkgThermInterrupt, SetPkgThermInterrupt, f)
    BY <2>4 DEF Uncleared, BitsOf
  <2>7. CASE f \in Thresholds
    <3>1. f # "FORCEPR_enable"
      BY <2>7 DEF Thresholds
    <3>2. Uncleared(Get(group), Set(group), f)
            = (GetPkgThermInterrupt[f][2] + 3)..(GetPkgThermInterrupt[f][2] + 6)
      BY <2>1, <2>4, <2>6, <2>7, <3>1
    <3>3. Get(group)[f] = GetPkgThermInterrupt[f]
      BY <2>4, <3>1
    <3>4. Leftover(f) = 3..6
      BY <2>2, <2>7
    <3> QED
      BY <2>3, <2>7, <3>2, <3>3, <3>4
  <2>8. CASE f \notin Thresholds
    <3>1. Uncleared(Get(group), Set(group), f) = {}
      BY <2>1, <2>4, <2>5, <2>6, <2>8
    <3>2. Leftover(f) = {}
      BY <2>2, <2>8
    <3> QED
      BY <1>0, <3>1, <3>2
  <2> QED
    BY <2>7, <2>8
<1>3. CASE group = "fixed_ctr_ctrl"
  <2>1. Get(group) = GetFixedCtrCtrl /\ Set(group) = SetFixedCounterCtrl /\ Leftover(f) = {}
    BY <1>3 DEF Get, Set, Leftover
  <2>2. PICK k \in {"enable", "ring_level", "anyThread", "pmi"}, i \in 0..2 : f = <<k, i>>
    BY <2>1 DEF SetFixedCounterCtrl, FixedFields
  <2>3. SetFixedCounterCtrl[f].clear = GetFixedCtrCtrl[f][2]..GetFixedCtrCtrl[f][1]
    <3>1. CASE k = "ring_level"
      <4>1. /\ SetFixedCounterCtrl[f].clear = {64 + 4 * i, 65 + 4 * i}
            /\ GetFixedCtrCtrl[f][2] = 64 + 4 * i /\ GetFixedCtrCtrl[f][1] = 64 + 4 * i + 1
        BY <2>2, <3>1 DEF GetFixedCtrCtrl, SetFixedCounterCtrl, FixedFields, Stored
      <4>2. {64 + 4 * i, 65 + 4 * i} = (64 + 4 * i)..(64 + 4 * i + 1)
        OBVIOUS
      <4> QED
        BY <4>1, <4>2
    <3>2. CASE k = "enable"
      <4>1. /\ SetFixedCounterCtrl[f].clear = {32 + i}
            /\ GetFixedCtrCtrl[f][2] = 32 + i /\ GetFixedCtrCtrl[f][1] = 32 + i
        BY <2>2, <3>2 DEF GetFixedCtrCtrl, SetFixedCounterCtrl, FixedFields, Stored
      <4> QED
        BY <4>1
    <3>3. CASE k = "anyThread"
      <4>1. /\ SetFixedCounterCtrl[f].clear = {66 + 4 * i}
            /\ GetFixedCtrCtrl[f][2] = 66 + 4 * i /\ GetFixedCtrCtrl[f][1] = 66 + 4 * i
        BY <2>2, <3>3 DEF GetFixedCtrCtrl, SetFixedCounterCtrl, FixedFields, Stored
      <4> QED
        BY <4>1
    <3>4. CASE k = "pmi"
      <4>1. /\ SetFixedCounterCtrl[f].clear = {67 + 4 * i}
            /\ GetFixedCtrCtrl[f][2] = 67 + 4 * i /\ GetFixedCtrCtrl[f][1] = 67 + 4 * i
        BY <2>2, <3>4 DEF GetFixedCtrCtrl, SetFixedCounterCtrl, FixedFields, Stored
      <4> QED
        BY <4>1
    <3> QED
      BY <3>1, <3>2, <3>3, <3>4
  <2>4. Uncleared(GetFixedCtrCtrl, SetFixedCounterCtrl, f) = {}
    BY <2>3 DEF Uncleared, BitsOf
  <2> QED
    BY <1>0, <2>1, <2>4
<1>4. CASE group = "clock_mod"
  <2>1. /\ Get(group) = GetClockMod /\ Set(group) = SetClockMod
        /\ Leftover(f) = IF f = "duty_cycle" THEN {2} ELSE {}
    BY <1>4 DEF Get, Set, Leftover
  <2>2. /\ f \in {"duty_cycle", "duty_cycle_enable"}
        /\ Uncleared(GetClockMod, SetClockMod, f) = IF f = "duty_cycle" THEN {3} ELSE {}
        /\ GetClockMod["duty_cycle"][2] = 1
    BY <2>1 DEF Uncleared, BitsOf, GetClockMod, SetClockMod, Stored
  <2>3. Shift({2}, 1) = {3}
    BY DEF Shift
  <2> QED
    BY <1>0, <2>1, <2>2, <2>3
<1>5. CASE group = "misc_enable"
  <2>1. Get(group) = GetMiscEnable /\ Set(group) = SetMiscEnable /\ Leftover(f) = {}
    BY <1>5 DEF Get, Set, Leftover
  <2>2. Uncleared(GetMiscEnable, SetMiscEnable, f) = {}
    BY <2>1 DEF Uncleared, BitsOf, GetMiscEnable, SetMiscEnable, Stored
  <2> QED
    BY <1>0, <2>1, <2>2
<1>6. CASE group = "perf_ctl"
  <2>1. /\ Get(group) = [pstate |-> <<63, 0>>] /\ Set(group) = [pstate |-> Stored(0..63, 0)]
        /\ Leftover(f) = {}
    BY <1>6 DEF Get, Set, SetPState, Leftover
  <2>2. Uncleared(Get(group), Set(group), f) = {}
    BY <2>1 DEF Uncleared, BitsOf, Stored
  <2> QED
    BY <1>0, <2>1, <2>2
<1> QED
  BY <1>1, <1>2, <1>3, <1>4, <1>5, <1>6 DEF Groups

-----------------------------------------------------------------------------
(* Words.                                                                  *)

LEMMA ShiftFits ==
    ASSUME NEW hi \in Nat, NEW lo \in Nat, NEW v \in SUBSET Nat, v \subseteq 0..(hi - lo)
    PROVE  Shift(v, lo) \subseteq lo..hi
BY DEF Shift

LEMMA MaskOf ==
    ASSUME NEW hi \in Nat, NEW lo \in Nat, NEW w \in SUBSET Nat
    PROVE  /\ MaskVal(w, hi, lo) \subseteq 0..(hi - lo)
           /\ \A x \in Nat : x \in MaskVal(w, hi, lo) <=> x + lo \in w /\ x + lo <= hi
BY DEF MaskVal

LEMMA EncodeOutside ==
    ASSUME NEW setter, NEW fs, NEW w, NEW mine,
           \A f \in DOMAIN setter : /\ setter[f].clear \subseteq mine
                                    /\ Shift(fs[f], setter[f].shift) \subseteq mine
    PROVE  Encode(setter, fs, w) \ mine = w \ mine
BY DEF Encode

LEMMA EncodeInside ==
    ASSUME NEW getter, NEW setter, NEW fs, NEW w, NEW top, Layout(getter, top), top \in Nat,
           \A f \in DOMAIN setter :
              /\ f \in DOMAIN getter
              /\ setter[f].clear \subseteq BitsOf(getter, f)
              /\ Shift(fs[f], setter[f].shift) \subseteq BitsOf(getter, f),
           NEW f \in DOMAIN setter
    PROVE  Encode(setter, fs, w) \cap BitsOf(getter, f)
             = Shift(fs[f], setter[f].shift) \cup (w \cap Uncleared(getter, setter, f))
<1>1. \A h \in DOMAIN setter \ {f} : BitsOf(getter, h) \cap BitsOf(getter, f) = {}
  BY DEF Layout, BitsOf
<1>2. \A h \in DOMAIN setter \ {f} : /\ Shift(fs[h], setter[h].shift) \cap BitsOf(getter, f) = {}
                                     /\ setter[h].clear \cap BitsOf(getter, f) = {}
  BY <1>1
<1> QED
  BY <1>2 DEF Encode, Uncleared

LEMMA BitsApart ==
    ASSUME group \in Groups
    PROVE  /\ AllBits = 0..Top /\ Top \in Nat
           /\ \A f \in DOMAIN Get(group) :
                 /\ Get(group)[f][1] \in Nat /\ Get(group)[f][2] \in Nat
                 /\ Get(group)[f][2] <= Get(group)[f][1]
                 /\ BitsOf(Get(group), f) \subseteq AllBits
                 /\ \A h \in DOMAIN Get(group) \ {f} :
                       BitsOf(Get(group), f) \cap BitsOf(Get(group), h) = {}
           /\ Mine \subseteq AllBits
           /\ \A f \in DOMAIN Set(group) \cup ReadOnly(group) :
                 BitsOf(Get(group), f) \subseteq Mine
<1>1. AllBits = 0..Top /\ Top \in Nat
  BY DEF AllBits, Top
<1>2. \A f \in DOMAIN Get(group) :
         /\ Get(group)[f][1] \in Nat /\ Get(group)[f][2] \in Nat
         /\ Get(group)[f][2] <= Get(group)[f][1]
         /\ BitsOf(Get(group), f) \subseteq AllBits
         /\ \A h \in DOMAIN Get(group) \ {f} :
               BitsOf(Get(group), f) \cap BitsOf(Get(group), h) = {}
  <2>1. Layout(Get(group), Top)
    BY Table
  <2> QED
    BY <1>1, <2>1 DEF Layout, BitsOf
<1>3. DOMAIN Set(group) \cup ReadOnly(group) \subseteq DOMAIN Get(group)
  BY Table
<1>4. Mine \subseteq AllBits
  BY <1>2, <1>3 DEF Mine, FieldBits
<1>5. \A f \in DOMAIN Set(group) \cup ReadOnly(group) : BitsOf(Get(group), f) \subseteq Mine
  BY DEF Mine, FieldBits
<1> QED
  BY <1>1, <1>2, <1>4, <1>5

\* A value that fits its field is stored into the setter's bits, and by all
\* setters but set_therm_stat into the field's own.
LEMMA StoredWhere ==
    ASSUME RegsType, FieldsFit, NEW u \in Units, ~Refused(u), NEW f \in DOMAIN Set(group)
    PROVE  /\ fields[u][f] \subseteq Width(group, f)
           /\ Shift(fields[u][f], Set(group)[f].shift) \subseteq Mine
           /\ group # "therm_stat" =>
                Shift(fields[u][f], Set(group)[f].shift) \subseteq BitsOf(Get(group), f)
<1>0. group \in Groups /\ f \in DOMAIN Get(group) /\ fields[u][f] \in SUBSET Nat
  BY Table DEF RegsType, FieldsType
<1>1. fields[u][f] \subseteq 0..(Get(group)[f][1] - Get(group)[f][2])
  <2>1. CASE group = "clock_mod" /\ f = "duty_cycle_enable"
    <3>1. fields[u].duty_cycle_enable \in {{}, {0}}
      BY <2>1 DEF Refused
    <3> QED
      BY <1>0, <2>1, <3>1, BitsApart
  <2>2. CASE ~(group = "clock_mod" /\ f = "duty_cycle_enable")
    BY <1>0, <2>2 DEF FieldsFit, Width
  <2> QED
    BY <2>1, <2>2
<1>2. CASE group # "therm_stat"
  <2>1. Shift(fields[u][f], Get(group)[f][2]) \subseteq Get(group)[f][2]..Get(group)[f][1]
    BY <1>0, <1>1, BitsApart, ShiftFits
  <2>2. Set(group)[f].shift = Get(group)[f][2]
    BY <1>0, <1>2, Table
  <2>3. Shift(fields[u][f], Set(group)[f].shift) \subseteq BitsOf(Get(group), f)
    BY <2>1, <2>2 DEF BitsOf
  <2> QED
    BY <1>0, <1>1, <2>3, BitsApart DEF Width
<1>3. CASE group = "therm_stat"
  <2>1. Set(group)[f].shift = 1 /\ Get(group)[f][1] = Get(group)[f][2]
    BY <1>0, <1>3, Table
  <2>2. fields[u][f] \subseteq {0}
    BY <1>0, <1>1, <2>1, BitsApart
  <2>3. Shift(fields[u][f], Set(group)[f].shift) \subseteq {1}
    BY <2>1, <2>2 DEF Shift
  <2>4. "status_log" \in DOMAIN Set(group) /\ BitsOf(Get(group), "status_log") = 1..1
    <3>1. Set(group) = SetThermStat /\ Get(group) = GetThermStat
      BY <1>3 DEF Get, Set
    <3>2. "status_log" \in DOMAIN SetThermStat /\ BitsOf(GetThermStat, "status_log") = 1..1
      BY DEF GetThermStat, SetThermStat, BitsOf
    <3> QED
      BY <3>1, <3>2
  <2>5. 1 \in Mine
    BY <1>0, <2>4, BitsApart
  <2> QED
    BY <1>1, <1>3, <2>3, <2>5 DEF Width
<1> QED
  BY <1>2, <1>3

\* What a setter makes of a word w and a unit's struct.
LEMMA WordMade ==
    ASSUME RegsType, FieldsFit, NEW u \in Units, ~Refused(u), NEW w \in SUBSET AllBits
    PROVE  /\ Encode(Set(group), fields[u], w) \in SUBSET AllBits
           /\ \A f \in DOMAIN Set(group) :
                /\ Shift(fields[u][f], Set(group)[f].shift)
                      \subseteq Encode(Set(group), fields[u], w)
                /\ group # "therm_stat" =>
                     Encode(Set(group), fields[u], w) \cap BitsOf(Get(group), f)
                       = Shift(fields[u][f], Set(group)[f].shift)
                           \cup (w \cap Uncleared(Get(group), Set(group), f))
           /\ Encode(Set(group), fields[u], w) \ Mine = w \ Mine
<1>0. group \in Groups
  BY DEF RegsType
<1>1. \A f \in DOMAIN Set(group) :
         /\ f \in DOMAIN Get(group)
         /\ Set(group)[f].clear \subseteq BitsOf(Get(group), f)
         /\ Set(group)[f].clear \subseteq Mine
         /\ Shift(fields[u][f], Set(group)[f].shift) \subseteq Mine
         /\ group # "therm_stat" =>
              Shift(fields[u][f], Set(group)[f].shift) \subseteq BitsOf(Get(group), f)
  BY <1>0, Table, BitsApart, StoredWhere
<1>2. \A f \in DOMAIN Set(group) :
         Shift(fields[u][f], Set(group)[f].shift) \subseteq Encode(Set(group), fields[u], w)
  BY DEF Encode
<1>3. ASSUME group # "therm_stat", NEW f \in DOMAIN Set(group)
      PROVE  Encode(Set(group), fields[u], w) \cap BitsOf(Get(group), f)
               = Shift(fields[u][f], Set(group)[f].shift)
                   \cup (w \cap Uncleared(Get(group), Set(group), f))
  <2>1. Layout(Get(group), Top) /\ Top \in Nat
    BY <1>0, Table, BitsApart
  <2> QED
    BY <1>1, <1>3, <2>1, EncodeInside
<1>4. Encode(Set(group), fields[u], w) \ Mine = w \ Mine
  BY <1>1, EncodeOutside
<1>5. Encode(Set(group), fields[u], w) \in SUBSET AllBits
  BY <1>0, <1>4, BitsApart
<1> QED
  BY <1>2, <1>3, <1>4, <1>5

\* What the hardware makes of a word: outside the setter's fields and the bits
\* that ignore a write it takes it, a stored field too, a log only falls.
LEMMA LandedWhere ==
    ASSUME group \in Groups, NEW old \in SUBSET AllBits, NEW new \in SUBSET AllBits
    PROVE  /\ Landed(old, new) \in SUBSET AllBits
           /\ Landed(old, new) \ Mine = new \ Mine
           /\ \A f \in DOMAIN Set(group) \ Logs(group) :
                 Landed(old, new) \cap BitsOf(Get(group), f) = new \cap BitsOf(Get(group), f)
           /\ \A f \in Logs(group) :
                 Landed(old, new) \cap BitsOf(Get(group), f)
                   = new \cap old \cap BitsOf(Get(group), f)
<1> DEFINE logs == FieldBits(group, Logs(group))
           ro   == FieldBits(group, ReadOnly(group))
<1>1. Landed(old, new)
        = (new \ (logs \cup ro)) \cup ((new \cap old) \cap logs) \cup (old \cap ro)
  BY DEF Landed
<1>2. Landed(old, new) \in SUBSET AllBits
  BY <1>1
<1>3. logs \subseteq Mine /\ ro \subseteq Mine
  BY Table DEF Mine, FieldBits
<1>4. ASSUME NEW f \in DOMAIN Set(group)
      PROVE  /\ ro \cap BitsOf(Get(group), f) = {}
             /\ f \in Logs(group) => BitsOf(Get(group), f) \subseteq logs
             /\ f \notin Logs(group) => BitsOf(Get(group), f) \cap logs = {}
  <2>1. /\ ReadOnly(group) \subseteq DOMAIN Get(group) \ {f}
        /\ Logs(group) \subseteq DOMAIN Get(group)
        /\ f \in DOMAIN Get(group)
    BY Table
  <2>2. \A h \in DOMAIN Get(group) \ {f} :
           BitsOf(Get(group), f) \cap BitsOf(Get(group), h) = {}
    BY <2>1, BitsApart
  <2> QED
    BY <2>1, <2>2 DEF FieldBits
<1> HIDE DEF logs, ro
<1>5. Logs(group) \subseteq DOMAIN Set(group)
  BY Table
<1> QED
  BY <1>1, <1>2, <1>3, <1>4, <1>5

\* What a batch served are halves of registers it addressed.
LEMMA ServedWhere ==
    ASSUME NEW us \in Addressed, NEW got \in Outcomes(us)
    PROVE  got \in SUBSET (Units \X {0, 1})
<1>1. us \subseteq Units
  BY DEF Addressed
<1>2. Pieces(us) \subseteq Units \X {0, 1}
  BY <1>1 DEF Pieces
<1> QED
  BY <1>2 DEF Outcomes

LEMMA CopiedOf ==
    ASSUME NEW to \in Words, NEW from \in Words, NEW pieces
    PROVE  /\ Copied(to, from, pieces) \in Words
           /\ \A u \in Units : Pieces({u}) \subseteq pieces
                                 => Copied(to, from, pieces)[u] = from[u]
           /\ \A u \in Units : to[u] \ Mine = from[u] \ Mine
                                 => Copied(to, from, pieces)[u] \ Mine = to[u] \ Mine
<1>1. \A u \in Units : Copied(to, from, pieces)[u] \subseteq to[u] \cup from[u]
  BY DEF Copied
<1>2. Copied(to, from, pieces) \in Words
  <2>1. Copied(to, from, pieces) = [u \in Units |-> Copied(to, from, pieces)[u]]
    BY DEF Copied
  <2>2. \A u \in Units : to[u] \subseteq AllBits /\ from[u] \subseteq AllBits
    BY DEF Words
  <2> QED
    BY <1>1, <2>1, <2>2 DEF Words
<1>3. ASSUME NEW u \in Units, Pieces({u}) \subseteq pieces
      PROVE  Copied(to, from, pieces)[u] = from[u]
  <2> DEFINE bits == UNION {Half(p[2]) : p \in {q \in pieces : q[1] = u}}
  <2>1. AllBits \subseteq bits
    <3>1. <<u, 0>> \in pieces /\ (group = "fixed_ctr_ctrl" => <<u, 1>> \in pieces)
      BY <1>3 DEF Pieces
    <3>2. Half(0) = 0..63 /\ Half(1) = 64..127
      BY DEF Half
    <3>3. Half(0) \subseteq bits /\ (group = "fixed_ctr_ctrl" => Half(1) \subseteq bits)
      BY <3>1
    <3> QED
      BY <3>2, <3>3 DEF AllBits
  <2>2. Copied(to, from, pieces)[u] = (to[u] \ bits) \cup (from[u] \cap bits)
    BY DEF Copied
  <2>3. to[u] \subseteq AllBits /\ from[u] \subseteq AllBits
    BY DEF Words
  <2> HIDE DEF bits
  <2> QED
    BY <2>1, <2>2, <2>3
<1>4. \A u \in Units : to[u] \ Mine = from[u] \ Mine
                         => Copied(to, from, pieces)[u] \ Mine = to[u] \ Mine
  BY DEF Copied
<1> QED
  BY <1>2, <1>3, <1>4

\* Two sets of words that agree outside the fields still do when the same
\* pieces of the same registers are read into both.
LEMMA CopiedAlike ==
    ASSUME NEW one \in Words, NEW two \in Words, NEW from \in Words, NEW pieces, NEW u \in Units,
           one[u] \ Mine = two[u] \ Mine
    PROVE  Copied(one, from, pieces)[u] \ Mine = Copied(two, from, pieces)[u] \ Mine
BY DEF Copied

LEMMA DecodeFits ==
    ASSUME group \in Groups, NEW w \in SUBSET AllBits
    PROVE  /\ Decode(Get(group), w) \in [DOMAIN Get(group) -> SUBSET Nat]
           /\ \A f \in DOMAIN Get(group) : Decode(Get(group), w)[f] \subseteq Width(group, f)
<1>1. w \in SUBSET Nat
  BY DEF AllBits
<1>2. ASSUME NEW f \in DOMAIN Get(group)
      PROVE  /\ MaskVal(w, Get(group)[f][1], Get(group)[f][2]) \subseteq Width(group, f)
             /\ Width(group, f) \subseteq Nat
  BY <1>1, BitsApart, MaskOf DEF Width
<1> QED
  BY <1>2 DEF Decode

\* What ReadsBackAsSet says of one field of one register.
ReadsAs(u, f) ==
    LET got   == Decode(Get(group), regs[u])[f]
        asked == fields[u][f]
    IN IF f \in Logs(group)
         THEN got = asked \cap Decode(Get(group), last.before[u])[f]
         ELSE /\ asked \subseteq got /\ got \subseteq asked \cup Leftover(f)
              /\ Pieces({u}) \subseteq last.read =>
                   got = asked \cup (Decode(Get(group), seen[u])[f] \cap Leftover(f))

\* With no call to speak of, nothing is said of it.
LEMMA NothingSaid ==
    ASSUME last' = NoCall, step' \in {"ready", "filled"}
    PROVE  /\ NeighboursAsLastRead' /\ ReadsBackAsSet' /\ RegsCounts' /\ CallSteps'
           /\ WordsAsAsked' /\ last' \in CallType'
<1>1. last.zeroed' = {} /\ last.quiet' = FALSE /\ last.units' = {}
  BY DEF NoCall
<1>2. Written' = {}
  BY <1>1 DEF Written
<1>3. last' \in CallType'
  BY DEF NoCall, CallType
<1> QED
  BY <1>1, <1>2, <1>3 DEF NoCall, NeighboursAsLastRead, ReadsBackAsSet, RegsCounts, CallSteps,
     WordsAsAsked

\* What depends on nothing but the group in use.
LEMMA SameGroup ==
    ASSUME group' = group
    PROVE  /\ AllBits' = AllBits /\ Words' = Words /\ Mine' = Mine /\ CallType' = CallType
           /\ FieldsType' = FieldsType
<1>1. AllBits' = AllBits
  BY DEF AllBits
<1>2. Words' = Words
  BY <1>1 DEF Words
<1>3. Mine' = Mine
  BY DEF Mine, FieldBits
<1>4. CallType' = CallType
  BY <1>2 DEF CallType
<1>5. FieldsType' = FieldsType
  BY DEF FieldsType
<1> QED
  BY <1>1, <1>2, <1>3, <1>4, <1>5

-----------------------------------------------------------------------------
(* The steps of Registers, one by one.                                     *)

LEMMA CallGetInv == ASSUME RegsInv, CallGet PROVE RegsInv'
<1>1. /\ step = "ready" /\ group # "perf_ctl"
      /\ UNCHANGED <<group, regs, step, word, counted>> /\ last' = NoCall
  BY DEF CallGet
<1>u. PICK us \in Addressed : \E got \in Outcomes(us) :
         /\ held' = Copied(held, regs, got)
         /\ seen' = Copied(seen, regs, got)
         /\ known' = known \cup got
         /\ fields' = [u \in Units |-> IF u \in us THEN Decode(Get(group), held'[u])
                                       ELSE fields[u]]
  BY DEF CallGet
<1>2. PICK got \in Outcomes(us) :
         /\ held' = Copied(held, regs, got)
         /\ seen' = Copied(seen, regs, got)
         /\ known' = known \cup got
         /\ fields' = [u \in Units |-> IF u \in us THEN Decode(Get(group), held'[u])
                                       ELSE fields[u]]
  BY <1>u
<1>3. /\ group \in Groups /\ regs \in Words /\ held \in Words /\ seen \in Words
      /\ fields \in FieldsType
  BY DEF RegsInv, RegsType
<1>4. held' \in Words /\ seen' \in Words /\ known' \in SUBSET (Units \X {0, 1})
  BY <1>2, <1>3, CopiedOf, ServedWhere DEF RegsInv, RegsType
<1>5. \A u \in Units : /\ fields'[u] \in [DOMAIN Get(group) -> SUBSET Nat]
                       /\ fields'[u] # fields[u] => \A f \in DOMAIN Get(group) :
                                                      fields'[u][f] \subseteq Width(group, f)
  <2>1. \A u \in Units : held'[u] \in SUBSET AllBits
    BY <1>4 DEF Words
  <2> QED
    BY <1>2, <1>3, <2>1, DecodeFits DEF FieldsType
<1>6. fields' \in FieldsType
  BY <1>2, <1>5 DEF FieldsType
<1>7. RegsType'
  <2>1. last' \in CallType' /\ AllBits' = AllBits /\ Words' = Words /\ FieldsType' = FieldsType
    BY <1>1, SameGroup, NothingSaid
  <2>2. counted \in [Units -> SUBSET SUBSET AllBits] /\ step \in {"ready", "filled", "read", "data"}
    BY DEF RegsInv, RegsType
  <2> QED
    BY <1>1, <1>3, <1>4, <1>6, <2>1, <2>2 DEF RegsType
<1>8. FieldsFit'
  BY <1>1, <1>5 DEF RegsInv, FieldsFit, Width
<1>9. HeldAsSeen'
  <2>1. group \notin Coord => \A u \in Units : held'[u] \ Mine = seen'[u] \ Mine
    <3> SUFFICES ASSUME group \notin Coord, NEW u \in Units
                 PROVE  Copied(held, regs, got)[u] \ Mine = Copied(seen, regs, got)[u] \ Mine
      BY <1>2
    <3>1. held[u] \ Mine = seen[u] \ Mine
      BY DEF RegsInv, HeldAsSeen
    <3> QED
      BY <1>3, <3>1, CopiedAlike
  <2> QED
    BY <1>1, <2>1, SameGroup DEF HeldAsSeen
<1> QED
  BY <1>1, <1>7, <1>8, <1>9, NothingSaid DEF RegsInv

LEMMA FillInv ==
    ASSUME RegsInv, NEW u \in Units, NEW f \in Fillable, NEW v \in Values(f), Fill(u, f, v)
    PROVE  RegsInv'
<1>1. /\ step = "ready" /\ group # "perf_ctl"
      /\ fields' = [fields EXCEPT ![u][f] = v]
      /\ UNCHANGED <<group, regs, held, step, word, counted, seen, known>> /\ last' = NoCall
  BY DEF Fill
<1>2. group \in Groups /\ fields \in FieldsType /\ f \in DOMAIN Get(group)
  BY Table DEF RegsInv, RegsType, Fillable
<1>3. /\ v \in SUBSET Nat
      /\ \/ v \subseteq Width(group, f)
         \/ group = "clock_mod" /\ f = "duty_cycle_enable"
  <2>1. CASE group = "fixed_ctr_ctrl"
    <3>1. Get(group) = GetFixedCtrCtrl /\ Set(group) = SetFixedCounterCtrl /\ f \in FixedFields
      BY <2>1 DEF Get, Set, Fillable, SetFixedCounterCtrl
    <3>2. PICK k \in {"enable", "ring_level", "anyThread", "pmi"}, i \in 0..2 : f = <<k, i>>
      BY <3>1 DEF FixedFields
    <3>3. Width(group, f) = IF k = "ring_level" THEN 0..1 ELSE 0..0
      <4>1. GetFixedCtrCtrl[f][1] - GetFixedCtrCtrl[f][2] = IF k = "ring_level" THEN 1 ELSE 0
        BY <3>1, <3>2 DEF GetFixedCtrCtrl
      <4> QED
        BY <3>1, <4>1 DEF Width
    <3>4. v \in {{}, {0}} \/ (k = "ring_level" /\ v \in {{}, {0, 1}})
      BY <2>1, <3>2 DEF Values
    <3> QED
      BY <3>3, <3>4
  <2>2. CASE group = "clock_mod"
    <3>1. Get(group) = GetClockMod
      BY <2>2 DEF Get
    <3>2. f = "duty_cycle" => Width(group, f) = 0..2
      BY <3>1 DEF Width, GetClockMod
    <3>3. f \in {"duty_cycle", "duty_cycle_enable"}
      BY <1>2, <3>1 DEF GetClockMod
    <3>4. v \in {{}, {0}, {1, 2}} \/ (f = "duty_cycle_enable" /\ v \in {{}, {0}, {1}})
      BY <2>2, <3>3 DEF Values
    <3> QED
      BY <2>2, <3>2, <3>3, <3>4
  <2>3. CASE group \notin {"fixed_ctr_ctrl", "clock_mod"}
    <3>1. 0 \in Width(group, f)
      BY <1>2, BitsApart DEF Width
    <3>2. f \in Thresholds => Width(group, f) = 0..6
      <4>1. SUFFICES ASSUME f \in Thresholds
                     PROVE  Get(group)[f][1] - Get(group)[f][2] = 6
        BY DEF Width
      <4>2. GetPkgThermInterrupt[f][1] - GetPkgThermInterrupt[f][2] = 6
        BY <4>1 DEF Thresholds, GetPkgThermInterrupt
      <4>3. GetThermInterrupt[f] = GetPkgThermInterrupt[f]
        BY <4>1 DEF Thresholds, GetThermInterrupt, GetPkgThermInterrupt
      <4>4. Get(group) = GetThermInterrupt \/ Get(group) = GetPkgThermInterrupt
        <5>1. f \notin DOMAIN GetThermStat /\ f \notin DOMAIN GetPkgThermStat
              /\ f \notin DOMAIN GetMiscEnable
          BY <4>1 DEF Thresholds, GetThermStat, GetPkgThermStat, GetMiscEnable
        <5> QED
          BY <1>1, <1>2, <2>3, <5>1 DEF Get, Groups
      <4> QED
        BY <4>2, <4>3, <4>4
    <3>3. v \in {{}, {0}} \/ (f \in Thresholds /\ v \in {{0}, {3, 5}, 0..6})
      BY <2>3 DEF Values
    <3>4. {} \in SUBSET Nat /\ {0} \in SUBSET Nat /\ {3, 5} \in SUBSET (0..6)
      OBVIOUS
    <3> QED
      BY <3>1, <3>2, <3>3, <3>4
  <2> QED
    BY <2>1, <2>2, <2>3
<1>4. fields' \in FieldsType
  BY <1>1, <1>2, <1>3 DEF FieldsType
<1>5. FieldsFit'
  BY <1>1, <1>2, <1>3 DEF RegsInv, FieldsFit, Width, FieldsType
<1>6. HeldAsSeen'
  BY <1>1, SameGroup DEF RegsInv, HeldAsSeen
<1> QED
  BY <1>1, <1>4, <1>5, <1>6, NothingSaid, SameGroup DEF RegsInv, RegsType

LEMMA FillFixedInv ==
    ASSUME RegsInv, NEW on \in {{}, {0}}, FillFixed(on) PROVE RegsInv'
<1>1. /\ group = "fixed_ctr_ctrl" /\ step' = "filled" /\ last' = NoCall
      /\ UNCHANGED <<group, regs, held, word, counted, seen, known>>
  BY DEF FillFixed
<1>2. fields' = [u \in Units |-> [f \in FixedFields |->
                    CASE f[1] = "enable"     -> on
                      [] f[1] = "ring_level" -> {0, 1}
                      [] f[1] = "anyThread"  -> {0}
                      [] f[1] = "pmi"        -> {}]]
  BY DEF FillFixed
<1>3. Get(group) = GetFixedCtrCtrl /\ DOMAIN GetFixedCtrCtrl = FixedFields
  BY <1>1 DEF Get, GetFixedCtrCtrl
<1>4. ASSUME NEW u \in Units, NEW f \in FixedFields
      PROVE  /\ fields'[u][f] \in SUBSET Nat
             /\ fields'[u][f] \subseteq Width(group, f)
  <2>1. PICK k \in {"enable", "ring_level", "anyThread", "pmi"}, i \in 0..2 : f = <<k, i>>
    BY DEF FixedFields
  <2>2. Width(group, f) = IF k = "ring_level" THEN 0..1 ELSE 0..0
    <3>1. GetFixedCtrCtrl[f][1] - GetFixedCtrCtrl[f][2] = IF k = "ring_level" THEN 1 ELSE 0
      BY <2>1 DEF GetFixedCtrCtrl
    <3> QED
      BY <1>3, <3>1 DEF Width
  <2>3. fields'[u][f] \in {{}, {0}} \/ (k = "ring_level" /\ fields'[u][f] = {0, 1})
    BY <1>2, <2>1
  <2> QED
    BY <2>2, <2>3
<1>5. fields' \in FieldsType
  BY <1>2, <1>3, <1>4 DEF FieldsType
<1>6. FieldsFit'
  BY <1>1, <1>3, <1>4 DEF FieldsFit, Width
<1>7. HeldAsSeen'
  BY <1>1, SameGroup DEF RegsInv, HeldAsSeen
<1> QED
  BY <1>1, <1>5, <1>6, <1>7, NothingSaid, SameGroup DEF RegsInv, RegsType

\* A setter that goes on: the words it has made.  The units in unset had their
\* word in a local that the failed read did not set.
LEMMA BeginSetWords ==
    ASSUME RegsInv, NEW us \in Addressed, NEW got \in Outcomes(us), NEW unset \in SUBSET us,
           NEW read \in Words, \A u \in us : ~Refused(u), NEW never \in SUBSET us,
           group # "perf_ctl", step \in {"ready", "filled"},
           seen' = Copied(seen, regs, got), known' = known \cup got,
           unset = {} => read = Copied(held, regs, got),
           unset = {} /\ group \in Coord => got # {},
           unset # {} => unset = us /\ group \in Coord /\ got = {},
           word' = [u \in us |-> Encode(Set(group), fields[u], read[u])],
           held' = (IF group \in Coord THEN held ELSE word'),
           step' = "read",
           last' = [NoCall EXCEPT !.units = us, !.read = got, !.blind = unset \cup never],
           UNCHANGED <<group, regs, fields, counted>>
    PROVE  RegsInv'
<1>1. /\ group \in Groups /\ regs \in Words /\ held \in Words /\ seen \in Words
      /\ fields \in FieldsType /\ RegsType /\ FieldsFit
      /\ counted \in [Units -> SUBSET SUBSET AllBits]
  BY DEF RegsInv, RegsType
<1>2. us \subseteq Units /\ (group \notin Coord => us = Units)
  BY DEF Addressed
<1>3. seen' \in Words /\ got \in SUBSET (Units \X {0, 1}) /\ known' \in SUBSET (Units \X {0, 1})
  BY <1>1, CopiedOf, ServedWhere DEF RegsType
<1>4. \A u \in us : /\ word'[u] \in SUBSET AllBits
                    /\ \A f \in DOMAIN Set(group) :
                         /\ fields[u][f] \subseteq Width(group, f)
                         /\ Shift(fields[u][f], Set(group)[f].shift) \subseteq word'[u]
                         /\ group # "therm_stat" =>
                              word'[u] \cap BitsOf(Get(group), f)
                                = Shift(fields[u][f], Set(group)[f].shift)
                                    \cup (read[u] \cap Uncleared(Get(group), Set(group), f))
                    /\ word'[u] \ Mine = read[u] \ Mine
  <2> TAKE u \in us
  <2>1. u \in Units /\ ~Refused(u) /\ read[u] \in SUBSET AllBits
    BY <1>2 DEF Words
  <2>2. word'[u] = Encode(Set(group), fields[u], read[u])
    OBVIOUS
  <2>3. \A f \in DOMAIN Set(group) : fields[u][f] \subseteq Width(group, f)
    BY <1>1, <2>1, StoredWhere
  <2> DEFINE w == read[u]
  <2>4. /\ Encode(Set(group), fields[u], w) \in SUBSET AllBits
        /\ \A f \in DOMAIN Set(group) :
             /\ Shift(fields[u][f], Set(group)[f].shift) \subseteq Encode(Set(group), fields[u], w)
             /\ group # "therm_stat" =>
                  Encode(Set(group), fields[u], w) \cap BitsOf(Get(group), f)
                    = Shift(fields[u][f], Set(group)[f].shift)
                        \cup (w \cap Uncleared(Get(group), Set(group), f))
        /\ Encode(Set(group), fields[u], w) \ Mine = w \ Mine
    <3>1. w \in SUBSET AllBits
      BY <2>1
    <3> HIDE DEF w
    <3> QED
      BY <1>1, <2>1, <3>1, WordMade
  <2> QED
    BY <2>2, <2>3, <2>4
<1>5. word' \in [us -> SUBSET AllBits]
  BY <1>4
<1>r. ASSUME NEW u \in us, Pieces({u}) \subseteq got PROVE read[u] = seen'[u]
  <2>1. <<u, 0>> \in Pieces({u})
    BY DEF Pieces
  <2>2. read = Copied(held, regs, got)
    BY <1>r, <2>1
  <2> QED
    BY <1>1, <1>2, <1>r, <2>2, CopiedOf
<1>6. ASSUME NEW u \in us \ unset PROVE word'[u] \ Mine = seen'[u] \ Mine
  <2>1. unset = {} /\ read = Copied(held, regs, got)
    BY <1>6
  <2>2. CASE group \in Coord
    <3>1. us = {u}
      BY <1>2, <1>6, <2>2 DEF Addressed
    <3>2. Pieces({u}) = {<<u, 0>>}
      BY <2>2 DEF Pieces, Coord
    <3>3. got = Pieces({u})
      <4>1. got \subseteq Pieces(us) /\ got # {}
        BY <2>1, <2>2 DEF Outcomes
      <4> QED
        BY <3>1, <3>2, <4>1
    <3>4. read[u] = seen'[u]
      BY <1>r, <3>3
    <3> QED
      BY <1>4, <3>4
  <2>3. CASE group \notin Coord
    <3>1. held[u] \ Mine = seen[u] \ Mine
      BY <1>2, <2>3 DEF RegsInv, HeldAsSeen
    <3>2. Copied(held, regs, got)[u] \ Mine = Copied(seen, regs, got)[u] \ Mine
      BY <1>1, <1>2, <3>1, CopiedAlike
    <3> QED
      BY <1>4, <2>1, <3>2
  <2> QED
    BY <2>2, <2>3
<1>7. unset = {} \/ group \in Coord
  OBVIOUS
<1>8. held' \in Words
  BY <1>1, <1>2, <1>5 DEF Words
<1>9. /\ last' \in CallType' /\ last'.units = us /\ last'.read = got
      /\ last'.blind = unset \cup never /\ last'.zeroed = {} /\ last'.quiet = FALSE
  BY <1>2, <1>3 DEF NoCall, CallType
<1>10. RegsType'
  BY <1>1, <1>3, <1>8, <1>9, SameGroup DEF RegsType
<1>11. FieldsFit'
  BY <1>1 DEF FieldsFit, Width
<1>12. HeldAsSeen'
  <2>1. ASSUME group \notin Coord, NEW u \in Units PROVE held'[u] \ Mine = seen'[u] \ Mine
    BY <1>2, <1>6, <1>7, <2>1
  <2> QED
    BY <2>1, SameGroup DEF HeldAsSeen
<1>13. WordsAsAsked'
  <2>1. word' \in [last'.units -> SUBSET AllBits']
    BY <1>5, <1>9, SameGroup
  <2>2. \A u \in last'.units \ last'.blind : word'[u] \ Mine' = seen'[u] \ Mine'
    BY <1>6, <1>9, SameGroup
  <2>3. ASSUME NEW u \in last'.units, NEW f \in DOMAIN Set(group')
        PROVE  /\ fields'[u][f] \subseteq Width(group', f)
               /\ Shift(fields'[u][f], Set(group')[f].shift) \subseteq word'[u]
               /\ group' # "therm_stat" =>
                    word'[u] \cap BitsOf(Get(group'), f)
                      \subseteq Shift(fields'[u][f], Set(group')[f].shift)
                                 \cup Uncleared(Get(group'), Set(group'), f)
               /\ group' # "therm_stat" /\ Pieces({u})' \subseteq last'.read =>
                    word'[u] \cap BitsOf(Get(group'), f)
                      = Shift(fields'[u][f], Set(group')[f].shift)
                          \cup (seen'[u] \cap Uncleared(Get(group'), Set(group'), f))
    <3>1. group' # "therm_stat" =>
            word'[u] \cap BitsOf(Get(group'), f)
              = Shift(fields'[u][f], Set(group')[f].shift)
                  \cup (read[u] \cap Uncleared(Get(group'), Set(group'), f))
      BY <1>4, <1>9
    <3>2. Pieces({u})' \subseteq last'.read => read[u] = seen'[u]
      BY <1>r, <1>9 DEF Pieces
    <3> QED
      BY <1>4, <1>9, <3>1, <3>2
  <2> QED
    BY <2>1, <2>2, <2>3 DEF WordsAsAsked
<1>14. Written' = {}
  BY <1>9 DEF Written
<1>15. NeighboursAsLastRead' /\ ReadsBackAsSet'
  BY <1>14 DEF NeighboursAsLastRead, ReadsBackAsSet
<1>16. RegsCounts' /\ CallSteps'
  BY <1>9 DEF RegsCounts, CallSteps
<1> QED
  BY <1>10, <1>11, <1>12, <1>13, <1>15, <1>16 DEF RegsInv

LEMMA BeginSetInv == ASSUME RegsInv, BeginSet PROVE RegsInv'
<1>1. /\ step \in {"ready", "filled"} /\ group # "perf_ctl"
      /\ UNCHANGED <<group, regs, fields, counted>>
  BY DEF BeginSet
<1>2. PICK us \in Addressed : \E got \in Outcomes(us) : \E rest \in SampleWords(group) :
         LET unset == IF group \in Coord /\ got = {} THEN us ELSE {}
             read == IF unset = {} THEN Copied(held, regs, got)
                     ELSE [u \in Units |-> rest]
         IN /\ unset = {} => rest = {}
            /\ seen' = Copied(seen, regs, got)
            /\ known' = known \cup got
            /\ IF \E u \in us : Refused(u)
                 THEN /\ last' = NoCall
                      /\ UNCHANGED <<word, step, held>>
                 ELSE /\ word' = [u \in us |-> Encode(Set(group), fields[u], read[u])]
                      /\ held' = IF group \in Coord THEN held ELSE word'
                      /\ step' = "read"
                      /\ last' = [NoCall EXCEPT !.units = us, !.read = got,
                                         !.blind = unset \cup {u \in us : ~(Pieces({u}) \subseteq known')}]
  BY DEF BeginSet
<1>3. PICK got \in Outcomes(us) : \E rest \in SampleWords(group) :
         LET unset == IF group \in Coord /\ got = {} THEN us ELSE {}
             read == IF unset = {} THEN Copied(held, regs, got)
                     ELSE [u \in Units |-> rest]
         IN /\ unset = {} => rest = {}
            /\ seen' = Copied(seen, regs, got)
            /\ known' = known \cup got
            /\ IF \E u \in us : Refused(u)
                 THEN /\ last' = NoCall
                      /\ UNCHANGED <<word, step, held>>
                 ELSE /\ word' = [u \in us |-> Encode(Set(group), fields[u], read[u])]
                      /\ held' = IF group \in Coord THEN held ELSE word'
                      /\ step' = "read"
                      /\ last' = [NoCall EXCEPT !.units = us, !.read = got,
                                         !.blind = unset \cup {u \in us : ~(Pieces({u}) \subseteq known')}]
  BY <1>2
<1>4. PICK rest \in SampleWords(group) :
         LET unset == IF group \in Coord /\ got = {} THEN us ELSE {}
             read == IF unset = {} THEN Copied(held, regs, got)
                     ELSE [u \in Units |-> rest]
         IN /\ unset = {} => rest = {}
            /\ seen' = Copied(seen, regs, got)
            /\ known' = known \cup got
            /\ IF \E u \in us : Refused(u)
                 THEN /\ last' = NoCall
                      /\ UNCHANGED <<word, step, held>>
                 ELSE /\ word' = [u \in us |-> Encode(Set(group), fields[u], read[u])]
                      /\ held' = IF group \in Coord THEN held ELSE word'
                      /\ step' = "read"
                      /\ last' = [NoCall EXCEPT !.units = us, !.read = got,
                                         !.blind = unset \cup {u \in us : ~(Pieces({u}) \subseteq known')}]
  BY <1>3
<1> DEFINE unset == IF group \in Coord /\ got = {} THEN us ELSE {}
           read  == IF unset = {} THEN Copied(held, regs, got) ELSE [u \in Units |-> rest]
           never == {u \in us : ~(Pieces({u}) \subseteq known')}
<1>5. /\ RegsType /\ group \in Groups /\ regs \in Words /\ held \in Words /\ seen \in Words
  BY DEF RegsInv, RegsType
<1>6. /\ seen' = Copied(seen, regs, got) /\ seen' \in Words
      /\ known' = known \cup got /\ known' \in SUBSET (Units \X {0, 1})
  BY <1>4, <1>5, CopiedOf, ServedWhere DEF RegsType
<1>7. CASE \E u \in us : Refused(u)
  <2>1. last' = NoCall /\ UNCHANGED <<word, step, held>>
    BY <1>4, <1>7
  <2>2. HeldAsSeen'
    <3>1. group # "clock_mod" => FALSE
      BY <1>7 DEF Refused
    <3> QED
      BY <1>1, <3>1 DEF HeldAsSeen, Coord
  <2>3. RegsType' /\ FieldsFit'
    BY <1>1, <1>6, <2>1, NothingSaid, SameGroup DEF RegsInv, RegsType, FieldsFit, Width
  <2> QED
    BY <1>1, <2>1, <2>2, <2>3, NothingSaid DEF RegsInv
<1>8. CASE \A u \in us : ~Refused(u)
  <2>1. /\ word' = [u \in us |-> Encode(Set(group), fields[u], read[u])]
        /\ held' = IF group \in Coord THEN held ELSE word'
        /\ step' = "read"
        /\ last' = [NoCall EXCEPT !.units = us, !.read = got, !.blind = unset \cup never]
    BY <1>4, <1>8
  <2>2. rest \in SUBSET AllBits
    <3>1. \A f \in DOMAIN Get(group) : BitsOf(Get(group), f) \subseteq AllBits
      BY <1>5, BitsApart
    <3>2. FieldBits(group, DOMAIN Get(group)) \subseteq AllBits /\ {25, 40} \subseteq AllBits
      BY <3>1 DEF FieldBits, AllBits
    <3> QED
      BY <3>2 DEF SampleWords
  <2>3. read \in Words
    BY <1>5, <2>2, CopiedOf DEF Words
  <2>4. /\ unset \in SUBSET us /\ never \in SUBSET us
        /\ unset = {} => read = Copied(held, regs, got)
        /\ unset # {} => unset = us /\ group \in Coord /\ got = {}
    OBVIOUS
  <2>5. unset = {} /\ group \in Coord => got # {}
    BY DEF Addressed
  <2> HIDE DEF unset, read, never
  <2> QED
    BY <1>1, <1>6, <1>8, <2>1, <2>3, <2>4, <2>5, BeginSetWords
<1> QED
  BY <1>7, <1>8

LEMMA SetPStateInv ==
    ASSUME RegsInv, NEW x \in Units, NEW p \in PStates, SetPStateOf(x, p) PROVE RegsInv'
<1>1. /\ group = "perf_ctl" /\ step = "ready"
      /\ fields' = [fields EXCEPT ![x].pstate = p]
      /\ held' = [held EXCEPT ![x] = p]
      /\ word' = held' /\ step' = "read"
      /\ last' = [NoCall EXCEPT !.units = Units,
                                !.blind = {v \in Units \ {x} : fields[v].pstate = {}}]
      /\ UNCHANGED <<group, regs, counted, seen, known>>
  BY DEF SetPStateOf
<1>2. Get(group) = [pstate |-> <<63, 0>>] /\ Set(group) = [pstate |-> Stored(0..63, 0)]
  BY <1>1 DEF Get, Set, SetPState
<1>3. /\ AllBits = 0..63 /\ Logs(group) = {} /\ ReadOnly(group) = {}
      /\ Width(group, "pstate") = 0..63
      /\ BitsOf(Get(group), "pstate") = 0..63 /\ DOMAIN Get(group) = {"pstate"}
      /\ DOMAIN Set(group) = {"pstate"} /\ Set(group)["pstate"].shift = 0
  BY <1>1, <1>2 DEF AllBits, Logs, ReadOnly, Width, BitsOf, Stored
<1>4. Mine = AllBits
  BY <1>3 DEF Mine, FieldBits
<1>5. p \in SUBSET (0..63)
  BY DEF PStates
<1>6. held \in Words /\ fields \in FieldsType /\ RegsType /\ FieldsFit
      /\ \A u \in Units : held[u] = fields[u]["pstate"]
  BY <1>1 DEF RegsInv, RegsType, HeldAsSeen
<1>7. held' \in Words
  BY <1>1, <1>3, <1>5, <1>6 DEF Words
<1>8. /\ fields' \in FieldsType
      /\ \A u \in Units : fields'[u]["pstate"] = held'[u]
  <2>1. fields' = [u \in Units |-> [f \in {"pstate"} |-> IF u = x THEN p ELSE fields[u][f]]]
    BY <1>1, <1>3, <1>6 DEF FieldsType
  <2>2. held' = [u \in Units |-> IF u = x THEN p ELSE held[u]]
    BY <1>1, <1>6 DEF Words
  <2>3. fields' \in FieldsType
    <3>1. FieldsType = [Units -> [{"pstate"} -> SUBSET Nat]]
      BY <1>3 DEF FieldsType
    <3>2. \A u \in Units : \A f \in {"pstate"} : fields[u][f] \in SUBSET Nat
      BY <1>6, <3>1
    <3>3. p \in SUBSET Nat
      BY <1>5
    <3> QED
      BY <2>1, <3>1, <3>2, <3>3
  <2>4. \A u \in Units : fields'[u]["pstate"] = held'[u]
    BY <1>6, <2>1, <2>2
  <2> QED
    BY <2>3, <2>4
<1>9. /\ last' \in CallType' /\ last'.units = Units /\ last'.blind \subseteq Units
      /\ last'.read = {} /\ last'.zeroed = {} /\ last'.quiet = FALSE
  BY <1>1 DEF NoCall, CallType
<1>10. RegsType'
  BY <1>1, <1>6, <1>7, <1>8, <1>9, SameGroup DEF RegsType
<1>11. FieldsFit'
  BY <1>1, <1>3, <1>7, <1>8 DEF FieldsFit, Words, Width
<1>12. HeldAsSeen'
  <2>1. \A u \in Units : held'[u] \ Mine = {} /\ seen'[u] \ Mine = {}
    BY <1>1, <1>4, <1>6, <1>7 DEF Words, RegsType
  <2> QED
    BY <1>1, <1>8, <2>1, SameGroup DEF HeldAsSeen
<1>13. WordsAsAsked'
  <2>1. \A u \in Units : Shift(fields'[u]["pstate"], 0) = held'[u]
    <3>1. \A u \in Units : held'[u] \in SUBSET (0..63)
      BY <1>3, <1>7 DEF Words
    <3>2. ASSUME NEW v \in SUBSET (0..63) PROVE Shift(v, 0) = v
      <4>1. \A b \in v : b \in 0..63 /\ b + 0 = b
        OBVIOUS
      <4>2. \A b : b \in Shift(v, 0) <=> b \in v
        BY <4>1 DEF Shift
      <4> QED
        BY <4>2
    <3> QED
      BY <1>8, <3>1, <3>2
  <2>2. \A u \in Units : held'[u] \ Mine = {} /\ seen'[u] \ Mine = {}
    BY <1>1, <1>4, <1>6, <1>7 DEF Words, RegsType
  <2>3. word' \in [last'.units -> SUBSET AllBits']
    BY <1>1, <1>7, <1>9, SameGroup DEF Words
  <2>4. \A u \in Units : fields'[u]["pstate"] \subseteq Width(group, "pstate")
    BY <1>3, <1>7, <1>8 DEF Words
  <2>5. ASSUME NEW u \in Units PROVE ~(Pieces({u})' \subseteq last'.read)
    <3>1. <<u, 0>> \in Pieces({u})'
      BY DEF Pieces
    <3> QED
      BY <1>9, <3>1
  <2> QED
    BY <1>1, <1>3, <1>9, <2>1, <2>2, <2>3, <2>4, <2>5, SameGroup DEF WordsAsAsked
<1>14. Written' = {}
  BY <1>9 DEF Written
<1>15. NeighboursAsLastRead' /\ ReadsBackAsSet'
  BY <1>14 DEF NeighboursAsLastRead, ReadsBackAsSet
<1>16. RegsCounts' /\ CallSteps'
  BY <1>9 DEF RegsCounts, CallSteps
<1> QED
  BY <1>10, <1>11, <1>12, <1>13, <1>15, <1>16 DEF RegsInv

\* A field that holds the value stored and some bits of those not cleared reads
\* as that value with some of these; with those of an older word, if it holds them.
LEMMA ReadBack ==
    ASSUME NEW hi \in Nat, NEW lo \in Nat, NEW w \in SUBSET Nat, NEW v \in SUBSET Nat,
           v \subseteq 0..(hi - lo), NEW rest \in SUBSET Nat, NEW old \in SUBSET Nat,
           Shift(v, lo) \subseteq w,
           w \cap (lo..hi) \subseteq Shift(v, lo) \cup Shift(rest, lo)
    PROVE  /\ v \subseteq MaskVal(w, hi, lo)
           /\ MaskVal(w, hi, lo) \subseteq v \cup rest
           /\ w \cap (lo..hi) = Shift(v, lo) \cup (old \cap Shift(rest, lo))
                => MaskVal(w, hi, lo) = v \cup (MaskVal(old, hi, lo) \cap rest)
<1>1. \A x \in Nat : /\ x \in v <=> x + lo \in Shift(v, lo)
                     /\ x \in rest <=> x + lo \in Shift(rest, lo)
  BY DEF Shift
<1>2. \A x \in Nat : /\ x \in MaskVal(w, hi, lo) <=> x + lo \in w \cap (lo..hi)
                     /\ x \in MaskVal(old, hi, lo) <=> x + lo \in old \cap (lo..hi)
  BY MaskOf
<1>3. MaskVal(w, hi, lo) \subseteq Nat /\ MaskVal(old, hi, lo) \subseteq Nat
  BY MaskOf
<1>4. v \subseteq MaskVal(w, hi, lo)
  <2> SUFFICES ASSUME NEW x \in v PROVE x \in MaskVal(w, hi, lo)
    OBVIOUS
  <2>1. x \in Nat /\ x + lo \in lo..hi
    OBVIOUS
  <2>2. x + lo \in w
    BY <1>1, <2>1
  <2> QED
    BY <1>2, <2>1, <2>2
<1>5. MaskVal(w, hi, lo) \subseteq v \cup rest
  BY <1>1, <1>2, <1>3
<1>6. ASSUME w \cap (lo..hi) = Shift(v, lo) \cup (old \cap Shift(rest, lo))
      PROVE  MaskVal(w, hi, lo) = v \cup (MaskVal(old, hi, lo) \cap rest)
  <2>1. ASSUME NEW x \in Nat
        PROVE  x \in MaskVal(w, hi, lo) <=> x \in v \/ (x \in MaskVal(old, hi, lo) /\ x \in rest)
    <3> DEFINE b == x + lo
    <3>1. /\ x \in v <=> b \in Shift(v, lo)
          /\ x \in rest <=> b \in Shift(rest, lo)
          /\ x \in MaskVal(w, hi, lo) <=> b \in w \cap (lo..hi)
          /\ x \in MaskVal(old, hi, lo) <=> b \in old \cap (lo..hi)
      BY <1>1, <1>2
    <3>2. b \in w \cap (lo..hi) <=> b \in Shift(v, lo) \/ (b \in old /\ b \in Shift(rest, lo))
      BY <1>6
    <3> HIDE DEF b
    <3> QED
      BY <3>1, <3>2
  <2> QED
    BY <1>3, <2>1
<1> QED
  BY <1>4, <1>5, <1>6

\* A log bit reads as it was and as was asked.
LEMMA ReadBackLog ==
    ASSUME NEW lo \in Nat, NEW w \in SUBSET Nat, NEW v \in SUBSET Nat, v \subseteq 0..0,
           NEW old \in SUBSET Nat,
           \A b \in lo..lo : b \in w <=> b \in old /\ b \in Shift(v, lo)
    PROVE  MaskVal(w, lo, lo) = v \cap MaskVal(old, lo, lo)
<1>1. lo \in w <=> lo \in old /\ 0 \in v
  BY DEF Shift
<1>2. /\ 0 \in MaskVal(w, lo, lo) <=> lo \in w
      /\ 0 \in MaskVal(old, lo, lo) <=> lo \in old
  BY MaskOf
<1>3. MaskVal(w, lo, lo) \subseteq {0} /\ MaskVal(old, lo, lo) \subseteq {0} /\ v \subseteq {0}
  BY MaskOf
<1> QED
  BY <1>1, <1>2, <1>3

LEMMA EndSetInv == ASSUME RegsInv, EndSet PROVE RegsInv'
<1> DEFINE there == [r \in Units |-> IF r \in last.units THEN Landed(regs[r], word[r]) ELSE {}]
<1>1. /\ step = "read" /\ step' \in {"data", "ready"}
      /\ UNCHANGED <<group, held, fields, counted, seen, known>>
  BY DEF EndSet
<1>2. PICK done \in Outcomes(last.units) :
         /\ regs' = [u \in Units |-> IF u \in last.units THEN Copied(regs, there, done)[u]
                                     ELSE regs[u]]
         /\ last' = [last EXCEPT !.done = done, !.quiet = TRUE,
                                 !.before = IF Logs(group) = {} THEN <<>> ELSE regs]
  BY DEF EndSet
<1>3. /\ RegsType /\ group \in Groups /\ regs \in Words /\ last \in CallType
      /\ last.units \subseteq Units /\ last.zeroed = {}
      /\ word \in [last.units -> SUBSET AllBits]
  BY <1>1 DEF RegsInv, RegsType, CallType, CallSteps, WordsAsAsked
<1>4. there \in Words
  <2>1. \A r \in last.units : Landed(regs[r], word[r]) \in SUBSET AllBits
    BY <1>3, LandedWhere DEF Words
  <2> QED
    BY <2>1 DEF Words
<1>5. regs' \in Words
  BY <1>2, <1>3, <1>4, CopiedOf DEF Words
<1>6. /\ last' \in CallType /\ last'.units = last.units /\ last'.blind = last.blind
      /\ last'.done = done /\ last'.zeroed = {} /\ last'.quiet = TRUE /\ last'.read = last.read
      /\ Logs(group) # {} => last'.before = regs
  <2>1. done \in SUBSET (Units \X {0, 1})
    <3>1. done \subseteq Pieces(last.units)
      BY DEF Outcomes
    <3>2. Pieces(last.units) \subseteq Units \X {0, 1}
      BY <1>3 DEF Pieces
    <3> QED
      BY <3>1, <3>2
  <2> QED
    BY <1>2, <1>3, <2>1 DEF CallType
<1>7. ASSUME NEW u \in last.units, Pieces({u}) \subseteq done
      PROVE  /\ regs'[u] = Landed(regs[u], word[u])
             /\ u \in Units /\ regs[u] \in SUBSET AllBits /\ word[u] \in SUBSET AllBits
  <2>1. u \in Units /\ regs[u] \in SUBSET AllBits /\ word[u] \in SUBSET AllBits
    BY <1>3 DEF Words
  <2>2. Copied(regs, there, done)[u] = there[u]
    BY <1>3, <1>4, <1>7, <2>1, CopiedOf
  <2>3. there[u] = Landed(regs[u], word[u])
    BY <2>1
  <2> HIDE DEF there
  <2> QED
    BY <1>2, <2>1, <2>2, <2>3
<1> HIDE DEF there
<1>8. ASSUME NEW u \in Written' PROVE u \in last.units /\ Pieces({u}) \subseteq done
  BY <1>1, <1>6 DEF Written, Pieces
<1>9. NeighboursAsLastRead'
  <2> SUFFICES ASSUME NEW u \in Written' \ last'.blind PROVE regs'[u] \ Mine = seen'[u] \ Mine
    BY <1>1, SameGroup DEF NeighboursAsLastRead, Mine
  <2>1. regs'[u] = Landed(regs[u], word[u]) /\ Landed(regs[u], word[u]) \ Mine = word[u] \ Mine
    BY <1>3, <1>7, <1>8, LandedWhere
  <2>2. word[u] \ Mine = seen[u] \ Mine
    BY <1>1, <1>6, <1>8 DEF RegsInv, WordsAsAsked
  <2> QED
    BY <1>1, <2>1, <2>2
<1>10. ReadsBackAsSet'
  <2> SUFFICES ASSUME group # "therm_stat", NEW u \in Written', NEW f \in DOMAIN Set(group)
               PROVE  ReadsAs(u, f)'
    <3> SUFFICES ASSUME group' # "therm_stat", NEW u \in Written', NEW f \in DOMAIN Set(group')
                 PROVE  ReadsAs(u, f)'
      BY DEF ReadsBackAsSet, ReadsAs
    <3> QED
      BY <1>1
  <2> DEFINE hi == Get(group)[f][1]
             lo == Get(group)[f][2]
             v  == fields[u][f]
             keep == Uncleared(Get(group), Set(group), f)
  <2>1. /\ regs'[u] = Landed(regs[u], word[u]) /\ u \in last.units /\ u \in Units
        /\ regs[u] \in SUBSET AllBits /\ word[u] \in SUBSET AllBits
    BY <1>7, <1>8
  <2>2. /\ v \subseteq 0..(hi - lo)
        /\ Shift(v, Set(group)[f].shift) \subseteq word[u]
        /\ word[u] \cap BitsOf(Get(group), f) \subseteq Shift(v, Set(group)[f].shift) \cup keep
        /\ Pieces({u}) \subseteq last.read =>
             word[u] \cap BitsOf(Get(group), f)
               = Shift(v, Set(group)[f].shift) \cup (seen[u] \cap keep)
    BY <1>1, <2>1 DEF RegsInv, WordsAsAsked, Width
  <2>3. /\ f \in DOMAIN Get(group) /\ Set(group)[f].shift = lo
        /\ f \in Logs(group) => keep = {} /\ hi = lo
    BY <1>3, Table DEF Uncleared, BitsOf
  <2>4. /\ hi \in Nat /\ lo \in Nat /\ BitsOf(Get(group), f) = lo..hi
        /\ keep \in SUBSET Nat /\ regs'[u] \in SUBSET Nat /\ regs[u] \in SUBSET Nat
        /\ v \in SUBSET Nat
    <3>1. AllBits \subseteq Nat
      BY DEF AllBits
    <3>2. regs'[u] \in SUBSET AllBits
      BY <1>5, <2>1 DEF Words
    <3>3. BitsOf(Get(group), f) = lo..hi
      BY DEF BitsOf
    <3>4. hi \in Nat /\ lo \in Nat
      BY <1>3, <2>3, BitsApart
    <3>5. keep \subseteq lo..hi
      BY <3>3 DEF Uncleared
    <3> HIDE DEF hi, lo, v, keep
    <3>6. keep \in SUBSET Nat /\ v \in SUBSET Nat
      BY <2>2, <3>4, <3>5
    <3>7. regs'[u] \in SUBSET Nat /\ regs[u] \in SUBSET Nat
      BY <2>1, <3>1, <3>2
    <3> QED
      BY <3>3, <3>4, <3>6, <3>7
  <2>5. Shift(v, lo) \subseteq lo..hi
    BY <2>2, <2>4, ShiftFits
  <2>6. /\ Decode(Get(group), regs'[u])[f] = MaskVal(regs'[u], hi, lo)
        /\ Decode(Get(group), regs[u])[f] = MaskVal(regs[u], hi, lo)
    BY <2>3 DEF Decode
  <2>7. CASE f \in Logs(group)
    <3>1. regs'[u] \cap (lo..hi) = word[u] \cap regs[u] \cap (lo..hi)
      <4>1. Landed(regs[u], word[u]) \cap BitsOf(Get(group), f)
              = word[u] \cap regs[u] \cap BitsOf(Get(group), f)
        BY <1>3, <2>1, <2>7, LandedWhere
      <4> QED
        BY <2>1, <4>1 DEF BitsOf
    <3>2. word[u] \cap (lo..hi) = Shift(v, lo)
      BY <2>2, <2>3, <2>4, <2>5, <2>7
    <3>3. \A b \in lo..lo : b \in regs'[u] <=> b \in regs[u] /\ b \in Shift(v, lo)
      BY <2>3, <2>7, <3>1, <3>2
    <3>4. hi = lo /\ v \subseteq 0..0
      BY <2>2, <2>3, <2>4, <2>7
    <3>5. MaskVal(regs'[u], lo, lo) = v \cap MaskVal(regs[u], lo, lo)
      <4> HIDE DEF hi, lo, v, keep
      <4> QED
        BY <2>4, <3>3, <3>4, ReadBackLog
    <3>6. last'.before = regs
      BY <1>6, <2>7
    <3> QED
      <4>1. Decode(Get(group), regs'[u])[f] = v \cap Decode(Get(group), last'.before[u])[f]
        BY <2>6, <3>4, <3>5, <3>6
      <4> QED
        BY <1>1, <2>7, <4>1 DEF ReadsAs
  <2>8. CASE f \notin Logs(group)
    <3>1. regs'[u] \cap (lo..hi) = word[u] \cap (lo..hi)
      <4>1. Landed(regs[u], word[u]) \cap BitsOf(Get(group), f)
              = word[u] \cap BitsOf(Get(group), f)
        BY <1>3, <2>1, <2>8, LandedWhere
      <4> QED
        BY <2>1, <4>1 DEF BitsOf
    <3>2. /\ Shift(v, lo) \subseteq regs'[u]
          /\ regs'[u] \cap (lo..hi) \subseteq Shift(v, lo) \cup keep
          /\ Pieces({u}) \subseteq last.read =>
               regs'[u] \cap (lo..hi) = Shift(v, lo) \cup (seen[u] \cap keep)
      BY <2>2, <2>3, <2>4, <2>5, <3>1
    <3>3. keep = Shift(Leftover(f), lo) /\ Leftover(f) \in SUBSET Nat
      BY <1>3, UnclearedWhich
    <3>4. seen[u] \in SUBSET Nat
      BY <1>3, <2>1 DEF RegsType, Words, AllBits
    <3> DEFINE w == regs'[u]
               rest == Leftover(f)
               old == seen[u]
               whole == Pieces({u}) \subseteq last.read
    <3>5. /\ v \subseteq MaskVal(w, hi, lo) /\ MaskVal(w, hi, lo) \subseteq v \cup rest
          /\ whole =>
               MaskVal(w, hi, lo) = v \cup (MaskVal(old, hi, lo) \cap rest)
      <4>1. /\ hi \in Nat /\ lo \in Nat /\ w \in SUBSET Nat /\ v \in SUBSET Nat
            /\ v \subseteq 0..(hi - lo) /\ rest \in SUBSET Nat /\ Shift(v, lo) \subseteq w
            /\ old \in SUBSET Nat
            /\ w \cap (lo..hi) \subseteq Shift(v, lo) \cup Shift(rest, lo)
            /\ whole => w \cap (lo..hi) = Shift(v, lo) \cup (old \cap Shift(rest, lo))
        BY <2>2, <2>4, <3>2, <3>3, <3>4
      <4> HIDE DEF hi, lo, v, keep, w, rest, old, whole
      <4>2. /\ v \subseteq MaskVal(w, hi, lo)
            /\ MaskVal(w, hi, lo) \subseteq v \cup rest
            /\ w \cap (lo..hi) = Shift(v, lo) \cup (old \cap Shift(rest, lo))
                 => MaskVal(w, hi, lo) = v \cup (MaskVal(old, hi, lo) \cap rest)
        BY <4>1, ReadBack
      <4> QED
        BY <4>1, <4>2
    <3>6. /\ Decode(Get(group), seen[u])[f] = MaskVal(old, hi, lo)
          /\ Leftover(f)' = rest /\ Pieces({u})' = Pieces({u})
      BY <1>1, <2>3 DEF Decode, Leftover, Pieces
    <3> QED
      BY <1>1, <1>6, <2>6, <2>8, <3>5, <3>6 DEF ReadsAs
  <2> QED
    BY <2>7, <2>8
<1>11. RegsType'
  BY <1>1, <1>3, <1>5, <1>6, SameGroup DEF RegsType
<1>12. FieldsFit' /\ HeldAsSeen'
  BY <1>1, SameGroup DEF RegsInv, FieldsFit, Width, HeldAsSeen
<1>13. WordsAsAsked' /\ RegsCounts'
  BY <1>1, <1>6 DEF WordsAsAsked, RegsCounts
<1>14. CallSteps'
  BY <1>1, <1>3, <1>6 DEF RegsInv, CallSteps
<1> QED
  BY <1>9, <1>10, <1>11, <1>12, <1>13, <1>14 DEF RegsInv

\* A step that leaves alone what the properties speak of, but for what the fixed
\* counters have counted and which of them were zeroed.
LEMMA QuietInv ==
    ASSUME RegsInv, UNCHANGED <<group, regs, held, fields, word, seen, known>>,
           step' = step \/ (step = "data" /\ step' = "ready"), last'.read = last.read,
           last' \in CallType, last'.units = last.units, last'.done = last.done,
           last'.before = last.before, last'.blind = last.blind, last'.quiet = last.quiet,
           step' # "ready" => last'.zeroed = {},
           counted' \in [Units -> SUBSET SUBSET AllBits], RegsCounts'
    PROVE  RegsInv'
<1>1. RegsType'
  BY SameGroup DEF RegsInv, RegsType
<1>2. FieldsFit' /\ HeldAsSeen'
  BY SameGroup DEF RegsInv, FieldsFit, Width, HeldAsSeen
<1>3. WordsAsAsked'
  <2>1. CASE step' = "read"
    <3>1. step = "read"
      BY <2>1
    <3> QED
      BY <3>1, SameGroup DEF RegsInv, WordsAsAsked, Width, Pieces
  <2>2. CASE step' # "read"
    BY <2>2 DEF WordsAsAsked
  <2> QED
    BY <2>1, <2>2
<1>4. CallSteps'
  BY SameGroup DEF RegsInv, CallSteps
<1>5. Written' = Written
  BY DEF Written, Pieces
<1>6. NeighboursAsLastRead'
  <2> SUFFICES ASSUME NEW u \in Written' \ last'.blind PROVE regs'[u] \ Mine = seen'[u] \ Mine
    BY SameGroup DEF NeighboursAsLastRead, Mine
  <2> QED
    BY <1>5 DEF RegsInv, NeighboursAsLastRead, Mine
<1>7. ReadsBackAsSet'
  <2> SUFFICES ASSUME group' # "therm_stat", NEW u \in Written', NEW f \in DOMAIN Set(group')
               PROVE  ReadsAs(u, f)'
    BY DEF ReadsBackAsSet, ReadsAs
  <2>1. ReadsAs(u, f)
    BY <1>5 DEF RegsInv, ReadsBackAsSet, ReadsAs
  <2>2. Leftover(f)' = Leftover(f) /\ Pieces({u})' = Pieces({u})
    BY DEF Leftover, Pieces
  <2> QED
    BY <2>1, <2>2 DEF ReadsAs
<1> QED
  BY <1>1, <1>2, <1>3, <1>4, <1>6, <1>7 DEF RegsInv

LEMMA WriteFixedDataInv == ASSUME RegsInv, WriteFixedData PROVE RegsInv'
<1>1. /\ step = "data" /\ step' = "ready"
      /\ UNCHANGED <<group, regs, held, fields, word, seen, known>>
  BY DEF WriteFixedData
<1>2. PICK zeroed_ \in SUBSET Units :
         /\ counted' = [u \in Units |-> IF u \in zeroed_ THEN {} ELSE counted[u]]
         /\ last' = [last EXCEPT !.zeroed = zeroed_]
  BY DEF WriteFixedData
<1>3. last \in CallType /\ counted \in [Units -> SUBSET SUBSET AllBits]
  BY DEF RegsInv, RegsType
<1>4. /\ last' \in CallType /\ last'.units = last.units /\ last'.done = last.done
      /\ last'.before = last.before /\ last'.blind = last.blind /\ last'.quiet = last.quiet
      /\ last'.zeroed = zeroed_ /\ last'.read = last.read
  BY <1>2, <1>3 DEF CallType
<1>5. counted' \in [Units -> SUBSET SUBSET AllBits] /\ RegsCounts'
  BY <1>2, <1>3, <1>4 DEF RegsCounts
<1> QED
  BY <1>1, <1>4, <1>5, QuietInv

LEMMA CountInv == ASSUME RegsInv, NEW x \in Units, Count(x) PROVE RegsInv'
<1>1. /\ counted' = [counted EXCEPT ![x] = @ \cup {regs[x]}]
      /\ UNCHANGED <<group, regs, held, fields, step, word, seen, known, last>>
  BY DEF Count
<1>2. /\ last \in CallType /\ counted \in [Units -> SUBSET SUBSET AllBits]
      /\ regs[x] \in SUBSET AllBits
  BY DEF RegsInv, RegsType, Words
<1>3. counted' \in [Units -> SUBSET SUBSET AllBits]
  BY <1>1, <1>2
<1>4. RegsCounts'
  BY <1>1, <1>2 DEF RegsInv, RegsCounts, CallType
<1>5. step' # "ready" => last'.zeroed = {}
  BY <1>1 DEF RegsInv, CallSteps
<1> QED
  BY <1>1, <1>2, <1>3, <1>4, <1>5, QuietInv

LEMMA OtherInv ==
    ASSUME RegsInv, NEW x \in Units, NEW b \in OtherBits, Other(x, b) PROVE RegsInv'
<1>1. /\ regs' = [regs EXCEPT ![x] = IF b \in @ THEN @ \ {b} ELSE @ \cup {b}]
      /\ last' = IF step = "ready" THEN NoCall ELSE [last EXCEPT !.quiet = FALSE]
      /\ UNCHANGED <<group, held, fields, step, word, counted, seen, known>>
  BY DEF Other
<1>2. /\ RegsType /\ group \in Groups /\ regs \in Words /\ last \in CallType
  BY DEF RegsInv, RegsType
<1>3. regs' \in Words
  <2>1. b \in AllBits
    BY DEF OtherBits, AllBits
  <2> QED
    BY <1>1, <1>2, <2>1 DEF Words
<1>4. FieldsFit' /\ HeldAsSeen'
  BY <1>1, SameGroup DEF RegsInv, FieldsFit, Width, HeldAsSeen
<1>5. CASE step = "ready"
  <2>1. last' = NoCall /\ step' = "ready"
    BY <1>1, <1>5
  <2>2. RegsType'
    BY <1>1, <1>2, <1>3, <2>1, NothingSaid, SameGroup DEF RegsType
  <2> QED
    BY <1>4, <2>1, <2>2, NothingSaid DEF RegsInv
<1>6. CASE step # "ready"
  <2>1. /\ last' \in CallType /\ last'.units = last.units /\ last'.blind = last.blind
        /\ last'.read = last.read /\ last'.zeroed = {} /\ last'.quiet = FALSE
    BY <1>1, <1>2, <1>6 DEF CallType, RegsInv, CallSteps
  <2>2. RegsType'
    BY <1>1, <1>2, <1>3, <2>1, SameGroup DEF RegsType
  <2>3. WordsAsAsked'
    <3>1. CASE step = "read"
      BY <1>1, <2>1, <3>1, SameGroup DEF RegsInv, WordsAsAsked, Width, Pieces
    <3>2. CASE step # "read"
      BY <1>1, <3>2 DEF WordsAsAsked
    <3> QED
      BY <3>1, <3>2
  <2>4. CallSteps' /\ RegsCounts'
    BY <2>1 DEF RegsInv, CallSteps, RegsCounts
  <2>5. Written' = {}
    BY <2>1 DEF Written
  <2>6. NeighboursAsLastRead' /\ ReadsBackAsSet'
    BY <2>5 DEF NeighboursAsLastRead, ReadsBackAsSet
  <2> QED
    BY <1>4, <2>2, <2>3, <2>4, <2>6 DEF RegsInv
<1> QED
  BY <1>5, <1>6

LEMMA RegsStep == ASSUME RegsInv, NextRegs PROVE RegsInv'
<1>1. CASE CallGet
  BY <1>1, CallGetInv
<1>2. CASE \E u \in Units, f \in Fillable : \E v \in Values(f) : Fill(u, f, v)
  BY <1>2, FillInv
<1>3. CASE \E on \in {{}, {0}} : FillFixed(on)
  BY <1>3, FillFixedInv
<1>4. CASE BeginSet
  BY <1>4, BeginSetInv
<1>5. CASE \E u \in Units : \E p \in PStates : SetPStateOf(u, p)
  BY <1>5, SetPStateInv
<1>6. CASE EndSet
  BY <1>6, EndSetInv
<1>7. CASE WriteFixedData
  BY <1>7, WriteFixedDataInv
<1>8. CASE \E u \in Units : Count(u)
  BY <1>8, CountInv
<1>9. CASE \E u \in Units, b \in OtherBits : Other(u, b)
  BY <1>9, OtherInv
<1> QED
  BY <1>1, <1>2, <1>3, <1>4, <1>5, <1>6, <1>7, <1>8, <1>9 DEF NextRegs

LEMMA RegsSame == ASSUME RegsInv, UNCHANGED vars PROVE RegsInv'
<1>1. UNCHANGED <<group, regs, held, fields, step, word, counted, seen, known, last>>
  BY DEF vars
<1>2. last \in CallType /\ counted \in [Units -> SUBSET SUBSET AllBits]
  BY DEF RegsInv, RegsType
<1>3. RegsCounts' /\ (step' # "ready" => last'.zeroed = {})
  BY <1>1 DEF RegsInv, RegsCounts, CallSteps
<1> QED
  BY <1>1, <1>2, <1>3, QuietInv

LEMMA RegsStart == ASSUME InitRegs \/ RegistersIdle PROVE RegsInv
<1>1. group \in Groups /\ step = "ready" /\ last = NoCall /\ known = {}
  BY DEF InitRegs, RegistersIdle, Groups
<1>2. \A w \in SampleWords(group) : w \in SUBSET AllBits
  <2>1. \A f \in DOMAIN Get(group) : BitsOf(Get(group), f) \subseteq AllBits
    BY <1>1, BitsApart
  <2>2. FieldBits(group, DOMAIN Get(group)) \subseteq AllBits /\ {25, 40} \subseteq AllBits
    BY <2>1 DEF FieldBits, AllBits
  <2> QED
    BY <2>2 DEF SampleWords
<1>3. /\ regs \in Words /\ held \in Words /\ seen \in Words
      /\ counted \in [Units -> SUBSET SUBSET AllBits]
      /\ \A u \in Units : held[u] = {} /\ seen[u] = {}
  <2>1. CASE InitRegs
    BY <1>2, <2>1 DEF InitRegs, Words
  <2>2. CASE RegistersIdle
    BY <2>2 DEF RegistersIdle, Words
  <2> QED
    BY <2>1, <2>2
<1>4. /\ fields \in FieldsType
      /\ \A u \in Units : \A f \in DOMAIN Get(group) : fields[u][f] = {}
  <2>1. CASE InitRegs
    BY <2>1 DEF InitRegs, FieldsType
  <2>2. CASE RegistersIdle
    <3>1. DOMAIN Get(group) = {"pstate"}
      BY <2>2 DEF RegistersIdle, Get
    <3>2. fields = [u \in Units |-> [pstate |-> {}]]
      BY <2>2 DEF RegistersIdle
    <3> QED
      BY <3>1, <3>2 DEF FieldsType
  <2> QED
    BY <2>1, <2>2
<1>5. /\ last \in CallType /\ last.zeroed = {} /\ last.units = {} /\ last.blind = {}
      /\ last.quiet = FALSE
  BY <1>1 DEF NoCall, CallType
<1>6. RegsType /\ FieldsFit
  BY <1>1, <1>3, <1>4, <1>5 DEF RegsType, FieldsFit
<1>7. HeldAsSeen
  <2>1. group = "perf_ctl" => "pstate" \in DOMAIN Get(group)
    BY DEF Get
  <2> QED
    BY <1>3, <1>4, <2>1 DEF HeldAsSeen
<1>8. WordsAsAsked /\ CallSteps /\ RegsCounts
  BY <1>1, <1>5 DEF WordsAsAsked, CallSteps, RegsCounts
<1>9. Written = {}
  BY <1>5 DEF Written
<1>10. NeighboursAsLastRead /\ ReadsBackAsSet
  BY <1>9 DEF NeighboursAsLastRead, ReadsBackAsSet
<1> QED
  BY <1>6, <1>7, <1>8, <1>10 DEF RegsInv

-----------------------------------------------------------------------------
(* The banks of counters.                                                  *)

CountersType ==
    /\ evtsel \in [Counters -> Events \cup {Off}] /\ hwsel \in [Counters -> Events \cup {Off}]
    /\ data \in [Counters -> SUBSET (Events \cup {Off})]
    /\ hwdata \in [Counters -> SUBSET (Events \cup {Off})]
    /\ doing \in {"no", "sel", "data"}
    /\ lost \subseteq Counters /\ zeroed \subseteq Counters /\ broken \in BOOLEAN

\* Between the two writes of an enable the words of the counters are zero, and
\* no counter is claimed while the selectors change.
CountersInv ==
    /\ CountersType
    /\ doing = "sel" => zeroed = {}
    /\ doing = "data" => data = Zero
    /\ \A c \in zeroed : hwdata[c] \subseteq {hwsel[c]}

LEMMA CountersStart == ASSUME Init PROVE CountersInv
<1>1. /\ hwsel \in [Counters -> Events \cup {Off}]
      /\ evtsel = [c \in Counters |-> Off] /\ data = [c \in Counters |-> {}]
      /\ hwdata = [c \in Counters |-> {}]
      /\ doing = "no" /\ lost = {} /\ broken = FALSE /\ zeroed = {}
  BY DEF Init
<1> QED
  BY <1>1 DEF CountersInv, CountersType

LEMMA SameCounters ==
    ASSUME bank' = bank
    PROVE  Counters' = Counters /\ Zero' = Zero
<1>1. Counters' = Counters
  BY DEF Counters, Slots
<1> QED
  BY <1>1 DEF Zero

LEMMA ZeroWordsType ==
    ASSUME CountersInv, ZeroWords
    PROVE  /\ data' \in [Counters -> SUBSET (Events \cup {Off})]
           /\ doing' \in {"no", "data"} /\ broken' \in BOOLEAN
           /\ doing' = "data" => data' = Zero
BY DEF ZeroWords, Zero, CountersInv, CountersType

LEMMA CountersStep == ASSUME CountersInv, NextCounters PROVE CountersInv'
<1>0. /\ evtsel \in [Counters -> Events \cup {Off}] /\ hwsel \in [Counters -> Events \cup {Off}]
      /\ data \in [Counters -> SUBSET (Events \cup {Off})]
      /\ hwdata \in [Counters -> SUBSET (Events \cup {Off})]
      /\ lost \subseteq Counters /\ zeroed \subseteq Counters /\ broken \in BOOLEAN
  BY DEF CountersInv, CountersType
<1>1. ASSUME NEW us \in {{u} : u \in Units} \cup {Units}, NEW slot \in {1, 2}, NEW e \in Events,
             SetCtrlFlags(us, slot, e)
      PROVE  CountersInv'
  <2>1. /\ doing = "no"
        /\ evtsel' = [c \in Counters |-> IF c[1] \in us /\ c[2] = slot THEN e ELSE evtsel[c]]
        /\ UNCHANGED <<bank, hwsel, data, hwdata, doing, lost, broken, zeroed>>
    BY <1>1 DEF SetCtrlFlags
  <2> QED
    BY <1>0, <2>1, SameCounters DEF CountersInv, CountersType
<1>2. CASE Enable
  BY <1>0, <1>2, SameCounters DEF Enable, Calling, CountersInv, CountersType
<1>3. CASE WriteSelectors
  <2>1. /\ doing = "sel" /\ ZeroWords /\ UNCHANGED <<bank, evtsel, hwdata, lost, zeroed, budget>>
    BY <1>3 DEF WriteSelectors
  <2>2. PICK done \in SUBSET Counters :
           hwsel' = [c \in Counters |-> IF c \in done THEN evtsel[c] ELSE hwsel[c]]
    BY <1>3 DEF WriteSelectors
  <2>3. zeroed' = {}
    BY <2>1 DEF CountersInv
  <2> QED
    BY <1>0, <2>1, <2>2, <2>3, ZeroWordsType, SameCounters DEF CountersInv, CountersType
<1>4. CASE ClearAll
  <2>1. zeroed' = {} /\ ZeroWords /\ UNCHANGED <<bank, evtsel, hwsel, hwdata, lost>>
    BY <1>4 DEF ClearAll
  <2> QED
    BY <1>0, <2>1, ZeroWordsType, SameCounters DEF CountersInv, CountersType
<1>5. CASE WriteData
  <2>1. /\ doing = "data" /\ doing' = "no"
        /\ UNCHANGED <<bank, evtsel, hwsel, data, lost, broken, budget>>
    BY <1>5 DEF WriteData
  <2>2. PICK done \in SUBSET Counters :
           /\ hwdata' = [c \in Counters |-> IF c \in done THEN data[c] ELSE hwdata[c]]
           /\ zeroed' = done
    BY <1>5 DEF WriteData
  <2>3. \A c \in Counters : data[c] = {}
    BY <2>1 DEF CountersInv, Zero
  <2> QED
    BY <1>0, <2>1, <2>2, <2>3, SameCounters DEF CountersInv, CountersType
<1>6. ASSUME NEW idx \in Units, ClearPmc(idx) PROVE CountersInv'
  <2>1. /\ doing = "no"
        /\ data' = IF idx < NumPmc
                     THEN [c \in Counters |-> IF c[1] = idx /\ c[2] <= idx THEN {} ELSE data[c]]
                     ELSE data
        /\ UNCHANGED <<bank, evtsel, hwsel, hwdata, doing, lost, broken, zeroed>>
    BY <1>6 DEF ClearPmc, Calling
  <2> QED
    BY <1>0, <2>1, SameCounters DEF CountersInv, CountersType
<1>7. ASSUME NEW idx \in Units, ClearPcu(idx) PROVE CountersInv'
  <2>1. /\ doing = "no" /\ bank = "pcu" /\ lost' = lost \cup {<<idx, 1>>}
        /\ UNCHANGED <<bank, evtsel, hwsel, data, hwdata, doing, broken, zeroed>>
    BY <1>7 DEF ClearPcu, Calling
  <2>2. <<idx, 1>> \in Counters
    BY <2>1, CountersAssumption DEF Counters, Slots
  <2> QED
    BY <1>0, <2>1, <2>2, SameCounters DEF CountersInv, CountersType
<1>8. CASE Dump
  <2>1. doing = "no" /\ UNCHANGED <<bank, evtsel, hwsel, hwdata, doing, lost, zeroed>>
    BY <1>8 DEF Dump, Calling
  <2>2. data' \in [Counters -> SUBSET (Events \cup {Off})] /\ broken' \in BOOLEAN
    BY <1>0, <1>8 DEF Dump
  <2> QED
    BY <1>0, <2>1, <2>2, SameCounters DEF CountersInv, CountersType
<1>9. ASSUME NEW c \in Counters, CountEvent(c) PROVE CountersInv'
  <2>1. /\ hwdata' = [hwdata EXCEPT ![c] = @ \cup {hwsel[c]}]
        /\ UNCHANGED <<bank, evtsel, hwsel, data, doing, lost, broken, zeroed, budget>>
    BY <1>9 DEF CountEvent
  <2>2. hwdata' \in [Counters -> SUBSET (Events \cup {Off})]
    BY <1>0, <2>1
  <2>3. \A d \in zeroed' : hwdata'[d] \subseteq {hwsel'[d]}
    BY <1>0, <2>1 DEF CountersInv
  <2>4. CountersType'
    BY <1>0, <2>1, <2>2, SameCounters DEF CountersInv, CountersType
  <2> QED
    BY <2>1, <2>3, <2>4, SameCounters DEF CountersInv
<1> QED
  BY <1>1, <1>2, <1>3, <1>4, <1>5, <1>6, <1>7, <1>8, <1>9 DEF NextCounters

LEMMA CountersSame == ASSUME CountersInv, UNCHANGED cvars PROVE CountersInv'
<1>1. UNCHANGED <<bank, evtsel, hwsel, data, hwdata, doing, lost, broken, zeroed>>
  BY DEF cvars
<1> QED
  BY <1>1, SameCounters DEF CountersInv, CountersType

-----------------------------------------------------------------------------
(* The theorems.                                                           *)

LEMMA StepInv ==
    ASSUME RegsInv, CountersInv, [Next]_<<vars, cvars>>
    PROVE  RegsInv' /\ CountersInv'
<1>1. CASE bank = "none" /\ NextRegs /\ UNCHANGED cvars
  BY <1>1, RegsStep, CountersSame
<1>2. CASE bank # "none" /\ NextCounters /\ UNCHANGED vars
  BY <1>2, RegsSame, CountersStep
<1>3. CASE UNCHANGED <<vars, cvars>>
  BY <1>3, RegsSame, CountersSame
<1> QED
  BY <1>1, <1>2, <1>3 DEF Next

LEMMA StartInv == ASSUME Init PROVE RegsInv /\ CountersInv
<1>1. InitRegs \/ RegistersIdle
  BY DEF Init
<1> QED
  BY <1>1, RegsStart, CountersStart

\* The inductive invariant of the registers and the counters.
THEOREM RegistersInvariance == Spec => [](RegsInv /\ CountersInv)
<1>1. Init => RegsInv /\ CountersInv
  BY StartInv
<1>2. (RegsInv /\ CountersInv) /\ [Next]_<<vars, cvars>> => (RegsInv /\ CountersInv)'
  BY StepInv
<1> QED
  BY <1>1, <1>2, PTL DEF Spec

\* The registers, the structs and the counters keep their types.
THEOREM TypeCorrect == Spec => []TypeOK
<1>1. RegsInv /\ CountersInv => TypeOK
  BY DEF RegsInv, RegsType, CallSteps, CallType, CountersInv, CountersType, TypeOK
<1> QED
  BY <1>1, RegistersInvariance, PTL

\* Once a setter has written a register, its fields read back as asked, but for
\* the bits of a threshold or of the duty cycle that the setter does not clear:
\* those are as the setter read them.  Whatever reads and writes failed before and
\* for any number of units.
THEOREM FieldsReadBack == Spec => []ReadsBackAsSet
<1>1. RegsInv /\ CountersInv => ReadsBackAsSet
  BY DEF RegsInv
<1> QED
  BY <1>1, RegistersInvariance, PTL

\* A setter writes the bits that are not its fields as they were when they were
\* last read, unless its register has never been read (see NotBlind).
THEOREM NeighboursKept == Spec => []NeighboursAsLastRead
<1>1. RegsInv /\ CountersInv => NeighboursAsLastRead
  BY DEF RegsInv
<1> QED
  BY <1>1, RegistersInvariance, PTL

\* A counter that was zeroed holds what its present configuration has counted.
THEOREM CountsAreOfOneKind == Spec => []NoMixedCounts
<1>1. RegsInv /\ CountersInv => NoMixedCounts
  BY DEF RegsInv, RegsCounts, CountersInv, NoMixedCounts
<1> QED
  BY <1>1, RegistersInvariance, PTL
=============================================================================
