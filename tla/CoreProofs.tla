----------------------------- MODULE CoreProofs -----------------------------
(***************************************************************************)
(* What everything in libmsr stands on.  The descriptors: an initialised   *)
(* library holds every processor's own file and each access reaches the    *)
(* processor asked for, for any number of processors and descriptors.  The *)
(* allocation tracker: it lists every live block exactly once and frees    *)
(* all of them at finalization, for any set of addresses and of pointers   *)
(* and any initial capacity.                                               *)
(***************************************************************************)
EXTENDS MsrDevice, MemoryHandler, SequenceTheorems, TLAPS

-----------------------------------------------------------------------------
(* THE DESCRIPTORS                                                         *)

\* Inside init_msr's loop the processors before dev_idx are open on the module
\* now in use: the fact a restart must re-establish.
OpenedSoFar ==
    (~finalizeCalled /\ pc \in {"stat", "open"})
        => \A d \in Dev : d < dev_idx => OnOwnDevice(d, kerneltype)

\* init_msr runs only before init is set, finalize_msr only after it is entered.
PhaseOK == /\ pc \in {"whitelist", "stat", "open"} => ~init
           /\ pc = "close" => finalizeCalled

IInv == /\ TypeOK
        /\ PhaseOK
        /\ OpenedSoFar
        /\ DescriptorsReady
        /\ AccessReachesDevice

\* The values the descriptors are compared with are pairwise different.
LEMMA Distinct ==
    /\ Garbage \notin Fd /\ Failed \notin Fd /\ Stdin \in Fd
    /\ \A m \in Module, d \in Dev : /\ MsrFile(m, d) \in File
                                    /\ MsrFile(m, d) # Closed
                                    /\ MsrFile(m, d).kind = "msr"
                                    /\ MsrFile(m, d).dev = d
    /\ Closed \in File /\ StdinFile \in File
    /\ 0 \in Dev /\ Dev \subseteq Nat
<1>1. Garbage \notin Fd /\ Failed \notin Fd /\ Stdin \in Fd
  BY DeviceAssumption DEF Garbage, Failed, Stdin, Fd
<1>2. Closed \in File /\ StdinFile \in File
  BY DEF File
<1>3. 0 \in Dev /\ Dev \subseteq Nat
  BY DeviceAssumption DEF Dev
<1>4. ASSUME NEW m \in Module, NEW d \in Dev
      PROVE  /\ MsrFile(m, d) \in File
             /\ MsrFile(m, d) # Closed
             /\ MsrFile(m, d).kind = "msr"
             /\ MsrFile(m, d).dev = d
  <2>1. MsrFile(m, d) \in File
    BY DEF File
  <2>2. MsrFile(m, d).kind = "msr" /\ MsrFile(m, d).dev = d
    BY DEF MsrFile
  <2>3. Closed.kind = "closed"
    BY DEF Closed
  <2>4. QED
    BY <2>1, <2>2, <2>3
<1>5. QED
  BY <1>1, <1>2, <1>3, <1>4

\* The results of the calls have the type of "last".
LEMMA ResultType ==
    \A c \in {"none", "init", "access", "finalize"}, r \in {0, -1} :
        Result(c, r) \in [call : {"none", "init", "access", "finalize"},
                          rc : {0, -1}, dev : Dev, target : File]
BY Distinct DEF Result

-----------------------------------------------------------------------------
(* Type correctness, one lemma per action with something to show.          *)

LEMMA InitType == Init => TypeOK
<1> SUFFICES ASSUME Init PROVE TypeOK
  OBVIOUS
<1>1. ktable \in [Fd -> File]
  BY Distinct DEF Init
<1>2. file_descriptors \in [Dev -> Fd \cup {Failed, Garbage}]
  BY DEF Init
<1>3. last \in [call : {"none", "init", "access", "finalize"}, rc : {0, -1},
                dev : Dev, target : File]
  BY Distinct DEF Init, NoCall
<1>4. kerneltype \in Module /\ dev_idx \in Dev
  BY Distinct DEF Init, Module
<1>5. QED
  BY <1>1, <1>2, <1>3, <1>4 DEF Init, TypeOK

LEMMA TypeStep == ASSUME TypeOK, [Next]_vars PROVE TypeOK'
<1> USE DEF TypeOK, Module
<1>1. CASE CallInit
  BY <1>1, ResultType DEF CallInit, Return
<1>2. CASE StatWhitelist
  BY <1>2, Distinct DEF StatWhitelist
<1>3. CASE StatDevice
  <2>1. pc' \in {"idle", "stat", "open"} /\ kerneltype' \in {0, 1} /\ dev_idx' \in Dev
    BY <1>3, Distinct DEF StatDevice, Return, Restart, RestartAt
  <2>2. last' = last \/ last' = Result("init", -1)
    BY <1>3 DEF StatDevice, Return
  <2>3. fallback' \in BOOLEAN
    BY <1>3 DEF StatDevice, Restart, RestartAt
  <2>4. msrUnusable' \in BOOLEAN
    BY <1>3, Zenon DEF StatDevice
  <2>5. QED
    BY <1>3, <2>1, <2>2, <2>3, <2>4, ResultType DEF StatDevice
<1>4. CASE OpenDevice
  <2>1. PICK f \in Fd :
           /\ ktable' = [ktable EXCEPT ![f] = MsrFile(kerneltype, dev_idx)]
           /\ file_descriptors' = [file_descriptors EXCEPT ![dev_idx] = f]
    BY <1>4 DEF OpenDevice
  <2>2. ktable' \in [Fd -> File]
    BY <2>1, Distinct
  <2>3. file_descriptors' \in [Dev -> Fd \cup {Failed, Garbage}]
    BY <2>1
  <2>4. dev_idx' \in Dev
    BY <1>4, DeviceAssumption DEF OpenDevice, Dev
  <2>5. storage' \in {"unallocated", "live", "freed"}
    BY <1>4 DEF OpenDevice, CoreFd
  <2>6. QED
    BY <1>4, <2>2, <2>3, <2>4, <2>5, ResultType DEF OpenDevice, Return
<1>5. CASE OpenFails
  <2>1. pc' \in {"idle", "stat"} /\ kerneltype' \in {0, 1} /\ dev_idx' \in Dev
    BY <1>5, Distinct DEF OpenFails, Return, Restart, RestartAt
  <2>2. last' = last \/ last' = Result("init", -1)
    BY <1>5 DEF OpenFails, Return
  <2>3. fallback' \in BOOLEAN /\ msrUnusable' \in BOOLEAN
    BY <1>5 DEF OpenFails, Restart, RestartAt
  <2>4. file_descriptors' \in [Dev -> Fd \cup {Failed, Garbage}]
    BY <1>5 DEF OpenFails
  <2>5. storage' \in {"unallocated", "live", "freed"}
    BY <1>5 DEF OpenFails, CoreFd
  <2>6. QED
    BY <1>5, <2>1, <2>2, <2>3, <2>4, <2>5, ResultType DEF OpenFails
<1>6. CASE Access
  <2>1. PICK d \in Dev : \E f \in Values(d), r \in {0, -1} :
           /\ r = 0 => IsOpen(f)
           /\ last' = [call |-> "access", rc |-> r, dev |-> d,
                       target |-> IF r = 0 THEN ktable[f] ELSE Closed]
    BY <1>6 DEF Access
  <2>2. PICK f \in Values(d), r \in {0, -1} :
           /\ r = 0 => IsOpen(f)
           /\ last' = [call |-> "access", rc |-> r, dev |-> d,
                       target |-> IF r = 0 THEN ktable[f] ELSE Closed]
    BY <2>1
  <2>3. (IF r = 0 THEN ktable[f] ELSE Closed) \in File
    BY <2>2, Distinct DEF IsOpen
  <2>4. last' \in [call : {"none", "init", "access", "finalize"}, rc : {0, -1},
                   dev : Dev, target : File]
    BY <2>2, <2>3
  <2>5. QED
    BY <1>6, <2>4 DEF Access, CoreFd
<1>7. CASE CallFinalize
  BY <1>7, Distinct DEF CallFinalize
<1>8. CASE CloseDevice
  <2>1. ktable' \in [Fd -> File]
    BY <1>8, Distinct DEF CloseDevice, IsOpen
  <2>2. file_descriptors' \in [Dev -> Fd \cup {Failed, Garbage}]
    BY <1>8, Distinct DEF CloseDevice, Stdin
  <2>3. dev_idx' \in Dev
    BY <1>8, DeviceAssumption DEF CloseDevice, Dev
  <2>4. storage' \in {"unallocated", "live", "freed"}
    BY <1>8 DEF CloseDevice, CoreFd
  <2>5. QED
    BY <1>8, <2>1, <2>2, <2>3, <2>4, ResultType DEF CloseDevice, Return
<1>9. CASE CloseFails
  BY <1>9, ResultType DEF CloseFails, Return, CoreFd
<1>10. CASE UNCHANGED vars
  BY <1>10 DEF vars
<1>11. QED
  BY <1>1, <1>2, <1>3, <1>4, <1>5, <1>6, <1>7, <1>8, <1>9, <1>10
     DEF Next, Running

-----------------------------------------------------------------------------
(* The inductive invariant.                                                *)

\* Opening one more device leaves the descriptors opened before it in place:
\* the kernel hands out a descriptor that was free (OpenDevice).
LEMMA OpenKeepsOthers ==
    ASSUME TypeOK, NEW f \in Fd, IsFree(f), NEW m \in Module, NEW e \in Dev,
           ktable' = [ktable EXCEPT ![f] = MsrFile(m, e)],
           file_descriptors' = [file_descriptors EXCEPT ![e] = f]
    PROVE  /\ OnOwnDevice(e, m)'
           /\ \A d \in Dev, k \in Module :
                 (d # e /\ OnOwnDevice(d, k)) => OnOwnDevice(d, k)'
<1>1. ktable'[f] = MsrFile(m, e) /\ \A g \in Fd : g # f => ktable'[g] = ktable[g]
  BY DEF TypeOK
<1>2. file_descriptors'[e] = f
        /\ \A d \in Dev : d # e => file_descriptors'[d] = file_descriptors[d]
  BY DEF TypeOK
<1>3. ktable[f] = Closed
  BY DEF IsFree
<1>4. ASSUME NEW d \in Dev, NEW k \in Module, d # e, OnOwnDevice(d, k)
      PROVE  OnOwnDevice(d, k)'
  <2>1. file_descriptors[d] # f
    BY <1>3, <1>4, Distinct DEF OnOwnDevice
  <2>2. QED
    BY <1>1, <1>2, <1>4, <2>1 DEF OnOwnDevice
<1>5. OnOwnDevice(e, m)'
  BY <1>1, <1>2 DEF OnOwnDevice
<1>6. QED
  BY <1>4, <1>5

LEMMA InitIInv == Init => IInv
<1>1. Init => PhaseOK /\ OpenedSoFar /\ DescriptorsReady /\ AccessReachesDevice
  BY DEF Init, PhaseOK, OpenedSoFar, DescriptorsReady, AccessReachesDevice, NoCall
<1>2. QED
  BY <1>1, InitType DEF IInv

LEMMA OpenIInv == ASSUME IInv, OpenDevice, TypeOK' PROVE IInv'
<1>1. /\ TypeOK /\ kerneltype \in Module /\ dev_idx \in Dev
      /\ pc = "open" /\ ~init
      /\ kerneltype' = kerneltype /\ finalizeCalled' = finalizeCalled
  BY DEF IInv, TypeOK, PhaseOK, OpenDevice
<1>2. PICK e \in Dev, m \in Module : e = dev_idx /\ m = kerneltype
  BY <1>1
<1>3. PICK f \in Fd :
         /\ Lowest(f)
         /\ ktable' = [ktable EXCEPT ![f] = MsrFile(m, e)]
         /\ file_descriptors' = [file_descriptors EXCEPT ![e] = f]
  BY <1>2 DEF OpenDevice
<1>4. /\ OnOwnDevice(e, m)'
      /\ \A d \in Dev, k \in Module :
            (d # e /\ OnOwnDevice(d, k)) => OnOwnDevice(d, k)'
  <2>1. IsFree(f)
    BY <1>3 DEF Lowest
  <2>2. QED
    BY <1>1, <1>3, <2>1, OpenKeepsOthers
<1>5. ASSUME ~finalizeCalled, NEW d \in Dev, d <= e
      PROVE  OnOwnDevice(d, m)'
  <2>1. CASE d = e
    BY <1>4, <2>1
  <2>2. CASE d # e
    <3>1. d < dev_idx
      BY <1>2, <1>5, <2>2, Distinct
    <3>2. OnOwnDevice(d, m)
      BY <1>1, <1>2, <1>5, <3>1 DEF IInv, OpenedSoFar
    <3>3. QED
      BY <1>4, <2>2, <3>2
  <2>3. QED
    BY <2>1, <2>2
<1>6. CASE dev_idx = NumDevs - 1
  <2>1. init' /\ pc' = "idle" /\ last' = Result("init", 0)
    BY <1>6 DEF OpenDevice, Return
  <2>2. \A d \in Dev : d <= e
    BY <1>2, <1>6, DeviceAssumption DEF Dev
  <2>3. ~finalizeCalled => \A d \in Dev : OnOwnDevice(d, m)'
    BY <1>5, <2>2
  <2>4. DescriptorsReady'
    BY <1>1, <2>3 DEF DescriptorsReady, AllOpen
  <2>5. QED
    BY <2>1, <2>4 DEF IInv, PhaseOK, OpenedSoFar, AccessReachesDevice, Result
<1>7. CASE dev_idx # NumDevs - 1
  <2>1. pc' = "stat" /\ dev_idx' = e + 1 /\ init' = init /\ last' = last
    BY <1>2, <1>7 DEF OpenDevice
  <2>2. \A d \in Dev : d < dev_idx' => d <= e
    BY <2>1, Distinct
  <2>3. kerneltype' = m
    BY <1>1, <1>2
  <2>4. OpenedSoFar'
    BY <1>1, <1>5, <2>2, <2>3 DEF OpenedSoFar, OnOwnDevice
  <2>5. QED
    BY <1>1, <2>1, <2>4 DEF IInv, PhaseOK, DescriptorsReady, AccessReachesDevice
<1>8. QED
  BY <1>6, <1>7

LEMMA AccessIInv == ASSUME IInv, Access, TypeOK' PROVE IInv'
<1>0. PICK d \in Dev : \E f \in Values(d), r \in {0, -1} :
         last' = [call |-> "access", rc |-> r, dev |-> d,
                  target |-> IF r = 0 THEN ktable[f] ELSE Closed]
  BY DEF Access
<1>1. PICK f \in Values(d), r \in {0, -1} :
         last' = [call |-> "access", rc |-> r, dev |-> d,
                  target |-> IF r = 0 THEN ktable[f] ELSE Closed]
  BY <1>0
<1>2. /\ pc = "idle" /\ pc' = pc /\ init' = init
      /\ finalizeCalled' = finalizeCalled /\ ktable' = ktable
      /\ file_descriptors' = file_descriptors
  BY DEF Access
<1>3. AccessReachesDevice'
  <2>1. SUFFICES ASSUME init, ~finalizeCalled, r = 0
                 PROVE  last'.target.kind = "msr" /\ last'.target.dev = d
    BY <1>1, <1>2 DEF AccessReachesDevice
  <2>2. PICK m \in Module : OnOwnDevice(d, m)
    BY <2>1 DEF IInv, DescriptorsReady, AllOpen
  <2>3. f = file_descriptors[d] /\ ktable[f] = MsrFile(m, d)
    BY <2>2, Distinct DEF OnOwnDevice, Values
  <2>4. QED
    BY <1>1, <2>1, <2>3, Distinct
<1>4. QED
  BY <1>2, <1>3 DEF IInv, PhaseOK, OpenedSoFar, DescriptorsReady, AllOpen,
                    OnOwnDevice

LEMMA NextIInv == IInv /\ [Next]_vars => IInv'
<1> SUFFICES ASSUME IInv, [Next]_vars PROVE IInv'
  OBVIOUS
<1>1. TypeOK'
  BY TypeStep DEF IInv
<1>2. CASE CallInit
  BY <1>1, <1>2 DEF CallInit, Return, Result, IInv, PhaseOK, OpenedSoFar,
                    DescriptorsReady, AllOpen, OnOwnDevice, AccessReachesDevice
<1>3. CASE StatWhitelist
  BY <1>1, <1>3, Distinct DEF StatWhitelist, IInv, PhaseOK, OpenedSoFar,
                    DescriptorsReady, AccessReachesDevice
<1>4. CASE StatDevice
  <2>1. ~init /\ init' = init /\ pc' \in {"idle", "stat", "open"}
    BY <1>4 DEF StatDevice, IInv, PhaseOK, Return, Restart, RestartAt
  <2>2. OpenedSoFar'
    <3>1. CASE pc' = "open"
      <4>1. /\ kerneltype' = kerneltype /\ dev_idx' = dev_idx /\ pc = "stat"
            /\ ktable' = ktable /\ file_descriptors' = file_descriptors
            /\ finalizeCalled' = finalizeCalled
        BY <1>4, <3>1 DEF StatDevice, Return, Restart, RestartAt
      <4>2. QED
        BY <4>1 DEF IInv, OpenedSoFar, OnOwnDevice
    <3>2. CASE pc' = "stat"
      <4>1. dev_idx' = 0
        BY <1>4, <3>2 DEF StatDevice, Return, Restart, RestartAt
      <4>2. QED
        BY <4>1, Distinct DEF OpenedSoFar
    <3>3. CASE pc' = "idle"
      BY <3>3 DEF OpenedSoFar
    <3>4. QED
      BY <2>1, <3>1, <3>2, <3>3
  <2>3. QED
    BY <1>1, <2>1, <2>2 DEF IInv, PhaseOK, DescriptorsReady, AccessReachesDevice
<1>5. CASE OpenDevice
  BY <1>1, <1>5, OpenIInv
<1>6. CASE OpenFails
  <2>1. ~init /\ init' = init /\ pc' \in {"idle", "stat"}
    BY <1>6 DEF OpenFails, IInv, PhaseOK, Return, Restart, RestartAt
  <2>2. OpenedSoFar'
    BY <1>6, Distinct DEF OpenFails, Return, Restart, RestartAt, OpenedSoFar
  <2>3. QED
    BY <1>1, <2>1, <2>2 DEF IInv, PhaseOK, DescriptorsReady, AccessReachesDevice
<1>7. CASE Access
  BY <1>1, <1>7, AccessIInv
<1>8. CASE CallFinalize
  BY <1>1, <1>8 DEF CallFinalize, IInv, PhaseOK, OpenedSoFar, DescriptorsReady,
                    AccessReachesDevice
<1>9. CASE CloseDevice
  BY <1>1, <1>9 DEF CloseDevice, Return, IInv, PhaseOK, OpenedSoFar,
                    DescriptorsReady, AccessReachesDevice
<1>10. CASE CloseFails
  BY <1>1, <1>10 DEF CloseFails, Return, IInv, PhaseOK, OpenedSoFar,
                    DescriptorsReady, AccessReachesDevice
<1>11. CASE UNCHANGED vars
  BY <1>1, <1>11 DEF vars, IInv, PhaseOK, OpenedSoFar, DescriptorsReady, AllOpen,
                    OnOwnDevice, AccessReachesDevice
<1>12. QED
  BY <1>2, <1>3, <1>4, <1>5, <1>6, <1>7, <1>8, <1>9, <1>10, <1>11
     DEF Next, Running

-----------------------------------------------------------------------------
(* The results.                                                            *)

\* Every state of the life cycle satisfies the inductive invariant.
THEOREM Invariance == Spec => []IInv
BY InitIInv, NextIInv, PTL DEF Spec

\* The variables of init_msr and finalize_msr keep their types.
THEOREM TypeCorrect == Spec => []TypeOK
<1>1. IInv => TypeOK
  BY DEF IInv
<1>2. QED
  BY <1>1, Invariance, PTL

\* From the completion of init_msr to finalize_msr every processor's descriptor
\* is open on that processor's own file, all on one kernel module (init_msr).
THEOREM InitialisedIsReady == Spec => []DescriptorsReady
<1>1. IInv => DescriptorsReady
  BY DEF IInv
<1>2. QED
  BY <1>1, Invariance, PTL

\* A successful read or write reaches the registers of the processor it names
\* (read_msr_by_idx, write_msr_by_idx).
THEOREM AccessCorrect == Spec => []AccessReachesDevice
<1>1. IInv => AccessReachesDevice
  BY DEF IInv
<1>2. QED
  BY <1>1, Invariance, PTL

-----------------------------------------------------------------------------
(* THE ALLOCATION TRACKER                                                  *)

\* A pointer that was not freed points to a live block, and no two such
\* pointers share a block.  Without it a realloc could move a block the tracker
\* does not hold.
OwnersLive ==
    ~finalized =>
        /\ \A p \in Pointer \ stale : held[p] # NULL => held[p] \in heap
        /\ \A p, q \in Pointer \ stale :
              (held[p] = held[q] /\ held[p] # NULL) => p = q

TrackerIInv ==
    /\ TrackerTypeOK
    /\ ExactTracking
    /\ TrackerInBounds
    /\ NothingLeftAfterFinalize
    /\ OwnersLive

-----------------------------------------------------------------------------
(* Lemmas on the tracker's array.                                          *)

\* Appending an address that is not tracked adds it, once (LIBMSR_MALLOC).
LEMMA AppendTracked ==
    ASSUME NEW S, NEW s \in Seq(S), NEW a \in S
    PROVE  /\ Append(s, a) \in Seq(S)
           /\ Len(Append(s, a)) = Len(s) + 1
           /\ DOMAIN Append(s, a) = 1 .. Len(s) + 1
           /\ \A i \in 1 .. Len(s) : Append(s, a)[i] = s[i]
           /\ Append(s, a)[Len(s) + 1] = a
           /\ Entries(Append(s, a)) = Entries(s) \cup {a}
<1>1. /\ Append(s, a) \in Seq(S)
      /\ Len(Append(s, a)) = Len(s) + 1
      /\ \A i \in 1 .. Len(s) : Append(s, a)[i] = s[i]
      /\ Append(s, a)[Len(s) + 1] = a
  BY AppendProperties
<1>2. DOMAIN Append(s, a) = 1 .. Len(s) + 1 /\ DOMAIN s = 1 .. Len(s)
        /\ Len(s) \in Nat
  BY <1>1, LenProperties
<1>3. Entries(Append(s, a)) \subseteq Entries(s) \cup {a}
  BY <1>1, <1>2 DEF Entries
<1>4. Entries(s) \subseteq Entries(Append(s, a))
  <2>1. \A i \in 1 .. Len(s) : i \in 1 .. Len(s) + 1 /\ Append(s, a)[i] = s[i]
    BY <1>1, <1>2
  <2>2. QED
    BY <2>1, <1>2 DEF Entries
<1>5. a \in Entries(Append(s, a))
  <2>1. Len(s) + 1 \in 1 .. Len(s) + 1
    BY <1>2
  <2>2. QED
    BY <2>1, <1>1, <1>2 DEF Entries
<1>6. QED
  BY <1>1, <1>2, <1>3, <1>4, <1>5

\* Replacing the entries equal to old changes no other entry and keeps the
\* length (LIBMSR_REALLOC, LIBMSR_FREE).
LEMMA ReplacedType ==
    ASSUME NEW S, arrays \in Seq(S), NEW old, NEW new \in S
    PROVE  /\ Replaced(old, new) \in Seq(S)
           /\ Len(Replaced(old, new)) = Len(arrays)
           /\ DOMAIN Replaced(old, new) = DOMAIN arrays
           /\ \A i \in DOMAIN arrays : Replaced(old, new)[i] =
                 IF arrays[i] = old THEN new ELSE arrays[i]
<1>1. DOMAIN arrays = 1 .. Len(arrays) /\ Len(arrays) \in Nat
        /\ \A i \in 1 .. Len(arrays) : arrays[i] \in S
  BY LenProperties, ElementOfSeq
<1>2. Replaced(old, new) \in [1 .. Len(arrays) -> S]
  BY <1>1 DEF Replaced
<1>3. Replaced(old, new) \in Seq(S)
  BY <1>1, <1>2, IsASeq DEF Replaced
<1>4. DOMAIN Replaced(old, new) = 1 .. Len(arrays)
  BY <1>2
<1>5. Len(Replaced(old, new)) = Len(arrays)
  BY <1>1, <1>3, <1>4, LenProperties
<1>6. QED
  BY <1>1, <1>3, <1>4, <1>5 DEF Replaced

\* Replacing an entry by another replaces it in the set of entries.
LEMMA ReplacedEntries ==
    ASSUME NEW S, arrays \in Seq(S), NEW old, NEW new \in S
    PROVE  /\ old \in Entries(arrays) =>
                 Entries(Replaced(old, new)) = (Entries(arrays) \ {old}) \cup {new}
           /\ old \notin Entries(arrays) =>
                 Entries(Replaced(old, new)) = Entries(arrays)
<1>1. /\ DOMAIN Replaced(old, new) = DOMAIN arrays
      /\ \A i \in DOMAIN arrays : Replaced(old, new)[i] =
            IF arrays[i] = old THEN new ELSE arrays[i]
  BY ReplacedType
<1>2. ASSUME old \in Entries(arrays)
      PROVE  Entries(Replaced(old, new)) = (Entries(arrays) \ {old}) \cup {new}
  <2>1. PICK k \in DOMAIN arrays : arrays[k] = old
    BY <1>2 DEF Entries
  <2>2. Entries(Replaced(old, new)) \subseteq (Entries(arrays) \ {old}) \cup {new}
    BY <1>1 DEF Entries
  <2>3. new \in Entries(Replaced(old, new))
    BY <1>1, <2>1 DEF Entries
  <2>4. ASSUME NEW x \in Entries(arrays) \ {old}
        PROVE  x \in Entries(Replaced(old, new))
    <3>1. PICK i \in DOMAIN arrays : arrays[i] = x
      BY <2>4 DEF Entries
    <3>2. Replaced(old, new)[i] = x
      BY <1>1, <2>4, <3>1
    <3>3. QED
      BY <1>1, <3>2 DEF Entries
  <2>5. QED
    BY <2>2, <2>3, <2>4
<1>3. ASSUME old \notin Entries(arrays)
      PROVE  Entries(Replaced(old, new)) = Entries(arrays)
  <2>1. \A i \in DOMAIN arrays : Replaced(old, new)[i] = arrays[i]
    BY <1>1, <1>3 DEF Entries
  <2>2. QED
    BY <1>1, <2>1 DEF Entries
<1>4. QED
  BY <1>2, <1>3

-----------------------------------------------------------------------------
(* The inductive invariant.                                                *)

LEMMA TrackerInitIInv == TrackerInit => TrackerIInv
<1> SUFFICES ASSUME TrackerInit PROVE TrackerIInv
  OBVIOUS
<1>2. TrackerTypeOK
  <2>1. arrays \in Seq(Addr \cup {NULL})
    BY EmptySeq DEF TrackerInit
  <2>2. heap \subseteq Addr /\ stale \subseteq Pointer
    BY DEF TrackerInit
  <2>3. held \in [Pointer -> Addr \cup {NULL}]
    BY DEF TrackerInit
  <2>4. QED
    BY <2>1, <2>2, <2>3, MemoryAssumption DEF TrackerInit, TrackerTypeOK
<1>3. Len(arrays) = 0 /\ DOMAIN arrays = {} /\ Entries(arrays) = {}
  <2>1. arrays = << >>
    BY DEF TrackerInit
  <2>2. Len(arrays) = 0 /\ DOMAIN arrays = {}
    BY <2>1, EmptySeq
  <2>3. QED
    BY <2>2 DEF Entries
<1>4. ExactTracking /\ TrackerInBounds
  BY <1>3, MemoryAssumption DEF TrackerInit, ExactTracking, TrackerInBounds
<1>5. NothingLeftAfterFinalize /\ OwnersLive
  BY DEF TrackerInit, NothingLeftAfterFinalize, OwnersLive
<1>6. QED
  BY <1>2, <1>4, <1>5 DEF TrackerIInv

LEMMA MallocIInv == ASSUME TrackerIInv, NEW p \in Pointer, Malloc(p) PROVE TrackerIInv'
<1>1. PICK a \in Addr \ heap : /\ heap' = heap \cup {a}
                               /\ held' = [held EXCEPT ![p] = a]
                               /\ Track(a)
  BY DEF Malloc
<1>2. /\ ~finalized /\ finalized' = finalized
      /\ stale' = stale \ {p}
  BY DEF Malloc
<1>3. /\ arrays \in Seq(Addr \cup {NULL}) /\ Len(arrays) \in Nat
      /\ DOMAIN arrays = 1 .. Len(arrays)
      /\ size \in Nat \ {0} /\ Len(arrays) <= size
      /\ a # NULL /\ a \in Addr \cup {NULL}
  BY MemoryAssumption, LenProperties DEF TrackerIInv, TrackerTypeOK, TrackerInBounds
<1>4. arrays' = Append(arrays, a) /\ size' = Grown
  BY <1>1 DEF Track
<1>5. /\ arrays' \in Seq(Addr \cup {NULL})
      /\ Len(arrays') = Len(arrays) + 1
      /\ DOMAIN arrays' = 1 .. Len(arrays) + 1
      /\ \A i \in 1 .. Len(arrays) : arrays'[i] = arrays[i]
      /\ arrays'[Len(arrays) + 1] = a
      /\ Entries(arrays') = Entries(arrays) \cup {a}
  BY <1>3, <1>4, AppendTracked
<1>6. size' \in Nat \ {0} /\ Len(arrays') <= size'
  BY <1>3, <1>4, <1>5 DEF Grown
<1>7. TrackerTypeOK'
  BY <1>1, <1>2, <1>5, <1>6 DEF TrackerIInv, TrackerTypeOK
<1>8. ExactTracking'
  <2>1. Entries(arrays') \ {NULL} = heap'
    BY <1>1, <1>2, <1>3, <1>5 DEF TrackerIInv, ExactTracking
  <2>2. \A i \in 1 .. Len(arrays) : arrays[i] # a
    BY <1>2, <1>3 DEF TrackerIInv, ExactTracking, Entries
  <2>3. ASSUME NEW i \in DOMAIN arrays', NEW j \in DOMAIN arrays',
               arrays'[i] = arrays'[j], arrays'[i] # NULL
        PROVE  i = j
    <3>1. CASE i \in 1 .. Len(arrays) /\ j \in 1 .. Len(arrays)
      BY <3>1, <2>3, <1>2, <1>3, <1>5 DEF TrackerIInv, ExactTracking
    <3>2. CASE i = Len(arrays) + 1 \/ j = Len(arrays) + 1
      BY <3>2, <2>2, <2>3, <1>3, <1>5
    <3>3. QED
      BY <3>1, <3>2, <1>3, <1>5
  <2>4. QED
    BY <2>1, <2>3 DEF ExactTracking
<1>9. OwnersLive'
  <2>1. held \in [Pointer -> Addr \cup {NULL}]
    BY DEF TrackerIInv, TrackerTypeOK
  <2>2. \A q \in Pointer \ stale' : q # p => q \in Pointer \ stale /\ held'[q] = held[q]
    BY <1>1, <1>2, <2>1
  <2>3. held'[p] = a
    BY <1>1, <2>1
  <2>4. QED
    BY <1>1, <1>2, <2>2, <2>3 DEF TrackerIInv, OwnersLive
<1>10. QED
  BY <1>2, <1>6, <1>7, <1>8, <1>9 DEF TrackerIInv, TrackerInBounds, NothingLeftAfterFinalize

LEMMA ReallocIInv == ASSUME TrackerIInv, NEW p \in Pointer, Realloc(p) PROVE TrackerIInv'
<1>1. PICK a \in (Addr \ heap) \cup {held[p]} :
               /\ heap' = (heap \ {held[p]}) \cup {a}
               /\ arrays' = Replaced(held[p], a)
               /\ held' = [held EXCEPT ![p] = a]
  BY DEF Realloc
<1> DEFINE old == held[p]
<1>2. /\ ~finalized /\ finalized' = finalized /\ size' = size /\ stale' = stale
      /\ old # NULL /\ p \notin stale
  BY DEF Realloc
<1>3. /\ arrays \in Seq(Addr \cup {NULL})
      /\ held \in [Pointer -> Addr \cup {NULL}]
      /\ heap \subseteq Addr
  BY DEF TrackerIInv, TrackerTypeOK
<1>4. old \in heap /\ a \in Addr /\ a # NULL
  BY <1>2, <1>3, MemoryAssumption DEF TrackerIInv, OwnersLive
<1>5. old \in Entries(arrays) /\ Entries(arrays) \ {NULL} = heap
  BY <1>2, <1>4 DEF TrackerIInv, ExactTracking
<1>6. /\ arrays' \in Seq(Addr \cup {NULL})
      /\ Len(arrays') = Len(arrays)
      /\ DOMAIN arrays' = DOMAIN arrays
      /\ \A i \in DOMAIN arrays :
            arrays'[i] = IF arrays[i] = old THEN a ELSE arrays[i]
  BY <1>1, <1>3, <1>4, ReplacedType
<1>7. Entries(arrays') = (Entries(arrays) \ {old}) \cup {a}
  BY <1>1, <1>3, <1>4, <1>5, ReplacedEntries
<1>8. TrackerTypeOK'
  BY <1>1, <1>2, <1>3, <1>4, <1>6 DEF TrackerIInv, TrackerTypeOK
<1>9. ExactTracking'
  <2>1. Entries(arrays') \ {NULL} = heap'
    BY <1>1, <1>4, <1>5, <1>7
  <2>2. \A i \in DOMAIN arrays : arrays[i] = a => a = old
    BY <1>1, <1>4, <1>5 DEF Entries
  <2>3. \A i, j \in DOMAIN arrays' :
           (arrays'[i] = arrays'[j] /\ arrays'[i] # NULL) => i = j
    BY <1>2, <1>4, <1>6, <2>2 DEF TrackerIInv, ExactTracking
  <2>4. QED
    BY <2>1, <2>3 DEF ExactTracking
<1>10. OwnersLive'
  <2>1. \A q \in Pointer : held'[q] = IF q = p THEN a ELSE held[q]
    BY <1>1, <1>3
  <2>2. \A q \in Pointer \ stale : (q # p /\ held[q] # NULL)
           => held[q] \in heap /\ held[q] # old
    BY <1>2 DEF TrackerIInv, OwnersLive
  <2>3. QED
    BY <1>1, <1>2, <1>4, <2>1, <2>2 DEF TrackerIInv, OwnersLive
<1>11. QED
  BY <1>2, <1>6, <1>8, <1>9, <1>10 DEF TrackerIInv, TrackerInBounds, NothingLeftAfterFinalize

LEMMA FreeIInv == ASSUME TrackerIInv, NEW p \in Pointer, Free(p) PROVE TrackerIInv'
<1> DEFINE old == held[p]
<1>1. /\ ~finalized /\ finalized' = finalized /\ size' = size /\ held' = held
      /\ old # NULL /\ p \notin stale
      /\ heap' = heap \ ({old} \cap Entries(arrays))
      /\ arrays' = Replaced(old, NULL)
      /\ stale' = stale \cup {p}
  BY DEF Free
<1>2. /\ arrays \in Seq(Addr \cup {NULL})
      /\ heap \subseteq Addr
  BY DEF TrackerIInv, TrackerTypeOK
<1>3. old \in heap
  BY <1>1 DEF TrackerIInv, OwnersLive
<1>4. old \in Entries(arrays) /\ Entries(arrays) \ {NULL} = heap
  BY <1>1, <1>3 DEF TrackerIInv, ExactTracking
<1>5. /\ arrays' \in Seq(Addr \cup {NULL})
      /\ Len(arrays') = Len(arrays)
      /\ DOMAIN arrays' = DOMAIN arrays
      /\ \A i \in DOMAIN arrays :
            arrays'[i] = IF arrays[i] = old THEN NULL ELSE arrays[i]
  BY <1>1, <1>2, ReplacedType
<1>6. Entries(arrays') = (Entries(arrays) \ {old}) \cup {NULL}
  BY <1>1, <1>2, <1>4, ReplacedEntries
<1>7. TrackerTypeOK'
  BY <1>1, <1>5 DEF TrackerIInv, TrackerTypeOK
<1>8. ExactTracking'
  <2>1. Entries(arrays') \ {NULL} = heap'
    BY <1>1, <1>4, <1>6
  <2>2. \A i, j \in DOMAIN arrays' :
           (arrays'[i] = arrays'[j] /\ arrays'[i] # NULL) => i = j
    BY <1>1, <1>5 DEF TrackerIInv, ExactTracking
  <2>3. QED
    BY <2>1, <2>2 DEF ExactTracking
<1>9. OwnersLive'
  BY <1>1 DEF TrackerIInv, OwnersLive
<1>10. QED
  BY <1>1, <1>5, <1>7, <1>8, <1>9 DEF TrackerIInv, TrackerInBounds, NothingLeftAfterFinalize

LEMMA FinalizeIInv == ASSUME TrackerIInv, Finalize PROVE TrackerIInv'
<1>1. /\ ~finalized /\ finalized' = TRUE /\ heap' = heap \ Entries(arrays)
      /\ arrays' = arrays /\ size' = size /\ held' = held /\ stale' = stale
  BY DEF Finalize
<1>2. heap' = {}
  BY <1>1 DEF TrackerIInv, ExactTracking
<1>3. QED
  BY <1>1, <1>2 DEF TrackerIInv, TrackerTypeOK, ExactTracking, TrackerInBounds,
                    NothingLeftAfterFinalize, OwnersLive

LEMMA TrackerNextIInv == TrackerIInv /\ [TrackerNext]_trackerVars => TrackerIInv'
<1>1. SUFFICES ASSUME TrackerIInv, [TrackerNext]_trackerVars PROVE TrackerIInv'
  OBVIOUS
<1>2. CASE UNCHANGED trackerVars
  BY <1>1, <1>2 DEF trackerVars, TrackerIInv, TrackerTypeOK, ExactTracking, TrackerInBounds,
                    NothingLeftAfterFinalize, OwnersLive, Entries
<1>3. ASSUME NEW p \in Pointer, Malloc(p) PROVE TrackerIInv'
  BY <1>1, <1>3, MallocIInv
<1>4. ASSUME NEW p \in Pointer, Realloc(p) PROVE TrackerIInv'
  BY <1>1, <1>4, ReallocIInv
<1>5. ASSUME NEW p \in Pointer, Free(p) PROVE TrackerIInv'
  BY <1>1, <1>5, FreeIInv
<1>6. CASE Finalize
  BY <1>1, <1>6, FinalizeIInv
<1>7. QED
  BY <1>1, <1>2, <1>3, <1>4, <1>5, <1>6 DEF TrackerNext

-----------------------------------------------------------------------------
(* The results.                                                            *)

\* Every state of the tracker satisfies the inductive invariant.
THEOREM TrackerInvariance == TrackerSpec => []TrackerIInv
BY TrackerInitIInv, TrackerNextIInv, PTL DEF TrackerSpec

\* The tracker's variables keep their types (memory_handler).
THEOREM TrackerTypeCorrect == TrackerSpec => []TrackerTypeOK
<1>1. TrackerIInv => TrackerTypeOK
  BY DEF TrackerIInv
<1>2. QED
  BY <1>1, TrackerInvariance, PTL

\* The tracker lists every live block, only live blocks, and each once, up to
\* finalization (memory_handler).
THEOREM TrackingCorrect == TrackerSpec => []ExactTracking
<1>1. TrackerIInv => ExactTracking
  BY DEF TrackerIInv
<1>2. QED
  BY <1>1, TrackerInvariance, PTL

\* The tracker's array is never written past its capacity (memory_handler).
THEOREM NeverPastCapacity == TrackerSpec => []TrackerInBounds
<1>1. TrackerIInv => TrackerInBounds
  BY DEF TrackerIInv
<1>2. QED
  BY <1>1, TrackerInvariance, PTL

\* memhdlr_finalize leaves nothing allocated.
THEOREM FinalizeFreesAll == TrackerSpec => []NothingLeftAfterFinalize
<1>1. TrackerIInv => NothingLeftAfterFinalize
  BY DEF TrackerIInv
<1>2. QED
  BY <1>1, TrackerInvariance, PTL
=============================================================================
