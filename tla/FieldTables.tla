----------------------------- MODULE FieldTables -----------------------------
(***************************************************************************)
(* The layout of the registers of msr_thermal.c, msr_clocks.c, msr_misc.c  *)
(* and of the fixed counters of msr_counters.c, as their getters and       *)
(* setters know it.  A number is the set of its one bits.                  *)
(*                                                                         *)
(*   - a getter table gives the bits hi..lo a getter takes a field from;   *)
(*   - a setter table gives, of a field a setter stores, the bits it       *)
(*     clears and the shift it stores the value with;                      *)
(*   - Logs and ReadOnly are what the structs' own documentation says of   *)
(*     the hardware: a log bit only goes to 0 when software writes 0 to    *)
(*     it, a read-only bit ignores a write.                                *)
(*                                                                         *)
(* The setters' assignments are done together: no value an application     *)
(* may store is wider than its field, so none spills into the bits a later *)
(* assignment clears.                                                      *)
(***************************************************************************)
EXTENDS Integers

\* MASK_VAL(w, hi, lo)
MaskVal(w, hi, lo) == {b - lo : b \in w \cap (lo..hi)}

Shift(v, s) == {b + s : b \in v}

Stored(bits, s) == [clear |-> bits, shift |-> s]

\* the fields a getter takes out of word w
Decode(getter, w) == [f \in DOMAIN getter |-> MaskVal(w, getter[f][1], getter[f][2])]

EncodeFresh(setter, fields, w) ==
    UNION {Shift(fields[f], setter[f].shift) : f \in DOMAIN setter}

\* the word a setter makes of word w and the fields of the struct
Encode(setter, fields, w) ==
    (w \ UNION {setter[f].clear : f \in DOMAIN setter})
      \cup UNION {Shift(fields[f], setter[f].shift) : f \in DOMAIN setter}

BitsOf(getter, f) == getter[f][2] .. getter[f][1]

-----------------------------------------------------------------------------
(* IA32_THERM_STATUS, one per core *)

ThermStatLogs == {"status_log", "PROCHOT_or_FORCEPR_log", "crit_temp_log",
                  "therm_thresh1_log", "therm_thresh2_log", "power_notification_log"}

GetThermStat ==
    [status |-> <<0, 0>>, status_log |-> <<1, 1>>,
     PROCHOT_or_FORCEPR_event |-> <<2, 2>>, PROCHOT_or_FORCEPR_log |-> <<3, 3>>,
     crit_temp_status |-> <<4, 4>>, crit_temp_log |-> <<5, 5>>,
     therm_thresh1_status |-> <<6, 6>>, therm_thresh1_log |-> <<7, 7>>,
     therm_thresh2_status |-> <<8, 8>>, therm_thresh2_log |-> <<9, 9>>,
     power_limit_status |-> <<10, 10>>, power_notification_log |-> <<11, 11>>,
     readout |-> <<22, 16>>, resolution_deg_celsius |-> <<30, 27>>,
     readout_valid |-> <<31, 31>>]

\* every log is shifted by one, whatever bit was cleared for it
SetThermStat ==
    [status_log |-> Stored({1}, 1), PROCHOT_or_FORCEPR_log |-> Stored({3}, 1),
     crit_temp_log |-> Stored({5}, 1), therm_thresh1_log |-> Stored({7}, 1),
     therm_thresh2_log |-> Stored({9}, 1), power_notification_log |-> Stored({11}, 1)]

(* IA32_PACKAGE_THERM_STATUS, one per socket *)

PkgThermStatLogs == {"status_log", "PROCHOT_log", "crit_temp_log",
                     "therm_thresh1_log", "therm_thresh2_log", "power_notification_log"}

GetPkgThermStat ==
    [status |-> <<0, 0>>, status_log |-> <<1, 1>>,
     PROCHOT_event |-> <<2, 2>>, PROCHOT_log |-> <<3, 3>>,
     crit_temp_status |-> <<4, 4>>, crit_temp_log |-> <<5, 5>>,
     therm_thresh1_status |-> <<6, 6>>, therm_thresh1_log |-> <<7, 7>>,
     therm_thresh2_status |-> <<8, 8>>, therm_thresh2_log |-> <<9, 9>>,
     power_limit_status |-> <<10, 10>>, power_notification_log |-> <<11, 11>>,
     readout |-> <<22, 16>>]

SetPkgThermStatShifted ==
    [status_log |-> Stored({1}, 1), PROCHOT_log |-> Stored({3}, 1),
     crit_temp_log |-> Stored({5}, 1), therm_thresh1_log |-> Stored({7}, 1),
     therm_thresh2_log |-> Stored({9}, 1), power_notification_log |-> Stored({11}, 1)]

SetPkgThermStat ==
    [status_log |-> Stored({1}, 1), PROCHOT_log |-> Stored({3}, 3),
     crit_temp_log |-> Stored({5}, 5), therm_thresh1_log |-> Stored({7}, 7),
     therm_thresh2_log |-> Stored({9}, 9), power_notification_log |-> Stored({11}, 11)]

-----------------------------------------------------------------------------
(* IA32_THERM_INTERRUPT, one per core, and IA32_PACKAGE_THERM_INTERRUPT,   *)
(* one per socket.  Of the seven bits of a threshold the setters clear     *)
(* three.                                                                  *)

GetPkgThermInterrupt ==
    [high_temp_enable |-> <<0, 0>>, low_temp_enable |-> <<1, 1>>,
     PROCHOT_enable |-> <<2, 2>>, crit_temp_enable |-> <<4, 4>>,
     thresh1_val |-> <<14, 8>>, thresh1_enable |-> <<15, 15>>,
     thresh2_val |-> <<22, 16>>, thresh2_enable |-> <<23, 23>>,
     pwr_limit_notification_enable |-> <<24, 24>>]

GetThermInterrupt ==
    [f \in DOMAIN GetPkgThermInterrupt \cup {"FORCEPR_enable"} |->
        IF f = "FORCEPR_enable" THEN <<3, 3>> ELSE GetPkgThermInterrupt[f]]

Thresholds == {"thresh1_val", "thresh2_val"}

SetPkgThermInterrupt ==
    [high_temp_enable |-> Stored({0}, 0), low_temp_enable |-> Stored({1}, 1),
     PROCHOT_enable |-> Stored({2}, 2), crit_temp_enable |-> Stored({4}, 4),
     thresh1_val |-> Stored(8..10, 8), thresh1_enable |-> Stored({15}, 15),
     thresh2_val |-> Stored(16..18, 16), thresh2_enable |-> Stored({23}, 23),
     pwr_limit_notification_enable |-> Stored({24}, 24)]

SetThermInterrupt ==
    [f \in DOMAIN SetPkgThermInterrupt \cup {"FORCEPR_enable"} |->
        IF f = "FORCEPR_enable" THEN Stored({3}, 3) ELSE SetPkgThermInterrupt[f]]

-----------------------------------------------------------------------------
(* IA32_PERF_GLOBAL_CTRL and IA32_FIXED_CTR_CTRL, one of each per thread:  *)
(* bit 64 + b stands for bit b of the second one.                          *)

FixedFields == {"enable", "ring_level", "anyThread", "pmi"} \X (0..2)

GetFixedCtrCtrl ==
    [f \in FixedFields |->
        CASE f[1] = "enable"     -> <<32 + f[2], 32 + f[2]>>
          [] f[1] = "ring_level" -> <<64 + 4 * f[2] + 1, 64 + 4 * f[2]>>
          [] f[1] = "anyThread"  -> <<64 + 4 * f[2] + 2, 64 + 4 * f[2] + 2>>
          [] f[1] = "pmi"        -> <<64 + 4 * f[2] + 3, 64 + 4 * f[2] + 3>>]

SetFixedCounterCtrl ==
    [f \in FixedFields |->
        CASE f[1] = "enable"     -> Stored({32 + f[2]}, 32 + f[2])
          [] f[1] = "ring_level" -> Stored({64 + 4 * f[2], 65 + 4 * f[2]}, 64 + 4 * f[2])
          [] f[1] = "anyThread"  -> Stored({66 + 4 * f[2]}, 66 + 4 * f[2])
          [] f[1] = "pmi"        -> Stored({67 + 4 * f[2]}, 67 + 4 * f[2])]

-----------------------------------------------------------------------------
(* IA32_CLOCK_MODULATION, one per core, and IA32_MISC_ENABLE, one per      *)
(* socket.  Of the three bits of the duty cycle set_clock_mod clears two.  *)

GetClockMod == [duty_cycle |-> <<3, 1>>, duty_cycle_enable |-> <<4, 4>>]

SetClockMod == [duty_cycle |-> Stored({1, 2}, 1), duty_cycle_enable |-> Stored({4}, 4)]

MiscReadOnly == {"performance_monitoring", "branch_trace_storage_unavail",
                 "precise_event_based_sampling_unavail"}

GetMiscEnable ==
    [fast_string_enable |-> <<0, 0>>, auto_TCC_enable |-> <<3, 3>>,
     performance_monitoring |-> <<7, 7>>, branch_trace_storage_unavail |-> <<11, 11>>,
     precise_event_based_sampling_unavail |-> <<12, 12>>, TM2_enable |-> <<13, 13>>,
     enhanced_Intel_SpeedStep_Tech_enable |-> <<16, 16>>,
     enable_monitor_fsm |-> <<18, 18>>, limit_CPUID_maxval |-> <<22, 22>>,
     xTPR_message_disable |-> <<23, 23>>, XD_bit_disable |-> <<34, 34>>,
     turbo_mode_disable |-> <<38, 38>>]

SetMiscEnable ==
    [fast_string_enable |-> Stored({0}, 0), auto_TCC_enable |-> Stored({3}, 3),
     TM2_enable |-> Stored({13}, 13),
     enhanced_Intel_SpeedStep_Tech_enable |-> Stored({16}, 16),
     limit_CPUID_maxval |-> Stored({22}, 22), xTPR_message_disable |-> Stored({23}, 23),
     XD_bit_disable |-> Stored({34}, 34), turbo_mode_disable |-> Stored({38}, 38)]

(***************************************************************************)
(* IA32_PERF_CTL, one per socket: set_p_state stores the whole word.       *)
(***************************************************************************)
SetPState == [pstate |-> Stored(0..63, 0)]
=============================================================================
