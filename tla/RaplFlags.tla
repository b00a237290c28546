----------------------------- MODULE RaplFlags -----------------------------
(***************************************************************************)
(* The table of processor models in src/include/msr_rapl.h and setflags in *)
(* src/src/msr_rapl.c: which RAPL registers a model has, as the set of the *)
(* bits that are one in its flags; and the size of the RAPL_DATA batch for *)
(* given flags.                                                            *)
(***************************************************************************)
EXTENDS Naturals, FiniteSets

FlagBits == 0 .. 22
Bits(mask) == {b \in FlagBits : (mask \div 2^b) % 2 = 1}

\* Model numbers with equal flags share a name.
MF ==
    [m37_4A_5A |-> \h407,    m4D |-> \h20003,  m4C |-> \h607,
     m2A_3A    |-> \hFE17,   m2D |-> \h7FF,    m3E |-> \h6007F7,
     m3C       |-> \h1CEE17, m3F |-> \h1C01FF, m45_46_3D_47_56 |-> \h1CFE17,
     m4F_55    |-> \h177,    m57 |-> \h507FF,  m4E_5E |-> \h1EFE17]

Models == DOMAIN MF

\* The flags the code tests, as bit numbers.
POWER_UNIT             == 0
PKG_POWER_LIMIT        == 1
PKG_ENERGY_STATUS      == 2
PKG_PERF_STATUS        == 3
PKG_POWER_INFO         == 4
DRAM_POWER_LIMIT       == 5
DRAM_ENERGY_STATUS     == 6
DRAM_PERF_STATUS       == 7
DRAM_POWER_INFO        == 8
TURBO_ACTIVATION_RATIO == 9
TURBO_RATIO_LIMIT      == 14
TURBO_RATIO_LIMIT1     == 15

\* setflags: it fails for a model without RAPL; every model has POWER_UNIT.
FlagsOf(model) == Bits(MF[model])

\* Mutant of RaplDataBatchSize: the register that is counted twice, once.
RaplDataBatchSizeOnce(flags) ==
    Cardinality(flags \cap {PKG_PERF_STATUS, PKG_ENERGY_STATUS, DRAM_ENERGY_STATUS})

\* rapl_data_batch_size: the energy of the package counts twice, the time the
\* memory was throttled not at all.
RaplDataBatchSize(flags) ==
    Cardinality(flags \cap {PKG_PERF_STATUS, PKG_ENERGY_STATUS, DRAM_ENERGY_STATUS})
        + Cardinality(flags \cap {PKG_ENERGY_STATUS})

\* The registers create_rapl_data_batch puts on the batch.
RaplDataLoaded(flags) ==
    flags \cap {PKG_ENERGY_STATUS, PKG_PERF_STATUS, DRAM_ENERGY_STATUS,
                DRAM_PERF_STATUS}
=============================================================================
