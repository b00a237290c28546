------------------------------ MODULE MsrDevice ------------------------------
(***************************************************************************)
(* The life cycle of the MSR device files (src/src/msr_core.c): init_msr   *)
(* opens one file descriptor per logical processor, falling back from the  *)
(* msr_safe module to the msr module, read_msr_by_idx/write_msr_by_idx use *)
(* them, finalize_msr closes them and frees every allocation.              *)
(*                                                                         *)
(* One thread of the program runs the library.  The administrator may load, *)
(* unload or re-permission a module at any time, so every call is cut at its *)
(* stat, open and close and each of them meets the file in any status.     *)
(***************************************************************************)
EXTENDS Naturals, Integers

CONSTANTS
    NumDevs,      \* num_devs(): logical processors
    MaxFd,        \* largest descriptor number the process may hold
    Disciplined   \* TRUE: the caller finalizes once, after a successful init_msr

ASSUME DeviceAssumption == /\ NumDevs \in Nat \ {0}
                           /\ MaxFd \in Nat
                           /\ Disciplined \in BOOLEAN

Dev == 0 .. NumDevs - 1
Module == {0, 1}                        \* kerneltype: 0 is msr_safe, 1 is msr
Status == {"rw", "denied", "absent"}    \* what stat() tells of a file
Stdin == 0                              \* also what finalize_msr stores
Fd == {Stdin} \cup (3 .. MaxFd)
Failed == -1                            \* what a failing open() returns
Garbage == -2                           \* indeterminate: malloc'ed or freed memory
Closed == [kind |-> "closed", mod |-> 0, dev |-> 0]
StdinFile == [kind |-> "stdin", mod |-> 0, dev |-> 0]
MsrFile(m, d) == [kind |-> "msr", mod |-> m, dev |-> d]
File == {Closed, StdinFile} \cup {MsrFile(m, d) : m \in Module, d \in Dev}

VARIABLES
    ktable,           \* the kernel's descriptor table of the process
    file_descriptors, \* the array of core_fd
    storage,          \* is that array not yet allocated, live or freed
    init,             \* the static of init_msr
    pc, kerneltype, dev_idx, \* where the running call is, and its locals
    last,             \* the last completed call, its result and what it reached
    finalizeCalled,   \* history: finalize_msr was entered
    fallback,         \* history: some init_msr restarted or failed
    msrUnusable       \* history: stat or open of a plain msr file went wrong

vars == <<ktable, file_descriptors, storage, init, pc, kerneltype, dev_idx,
          last, finalizeCalled, fallback, msrUnusable>>

NoCall == [call |-> "none", rc |-> 0, dev |-> 0, target |-> Closed]
Result(c, r) == [call |-> c, rc |-> r, dev |-> 0, target |-> Closed]

TypeOK ==
    /\ ktable \in [Fd -> File]
    /\ file_descriptors \in [Dev -> Fd \cup {Failed, Garbage}]
    /\ storage \in {"unallocated", "live", "freed"}
    /\ init \in BOOLEAN
    /\ pc \in {"idle", "whitelist", "stat", "open", "close", "abort"}
    /\ kerneltype \in Module
    /\ dev_idx \in Dev
    /\ last \in [call : {"none", "init", "access", "finalize"}, rc : {0, -1},
                 dev : Dev, target : File]
    /\ finalizeCalled \in BOOLEAN
    /\ fallback \in BOOLEAN
    /\ msrUnusable \in BOOLEAN

Init ==
    /\ ktable = [f \in Fd |-> IF f = Stdin THEN StdinFile ELSE Closed]
    /\ file_descriptors = [d \in Dev |-> Garbage]
    /\ storage = "unallocated"
    /\ init = FALSE
    /\ pc = "idle"
    /\ kerneltype = 1
    /\ dev_idx = 0
    /\ last = NoCall
    /\ finalizeCalled = FALSE
    /\ fallback = FALSE
    /\ msrUnusable = FALSE

-----------------------------------------------------------------------------
(* Helpers: core_fd, the values an indeterminate descriptor may have, and  *)
(* the ways a call returns.                                                *)

CoreFd == storage' = IF storage = "unallocated" THEN "live" ELSE storage

Values(d) == IF file_descriptors[d] = Garbage
             THEN Fd \cup {Failed} ELSE {file_descriptors[d]}

IsOpen(f) == f \in Fd /\ ktable[f] # Closed

IsFree(f) == f # Stdin /\ ktable[f] = Closed

Lowest(f) == IsFree(f) /\ \A g \in Fd : IsFree(g) => f <= g

Return(c, r) == pc' = "idle" /\ last' = Result(c, r)

\* Mutants of Restart: the loop's increment is forgotten; the index is not
\* reset; it is reset to 0 before the increment; the module is not switched.
RestartAt(k, d) == /\ kerneltype' = k
                   /\ dev_idx' = d
                   /\ pc' = "stat"
                   /\ fallback' = TRUE
RestartNoIncrement == RestartAt(1, -1)
RestartKeepsIndex  == RestartAt(1, dev_idx)
RestartSkipsFirst  == RestartAt(1, IF NumDevs > 1 THEN 1 ELSE 0)
RestartSameModule  == RestartAt(kerneltype, 0)

\* dev_idx = -1 in the code, which the loop's increment turns into 0.
Restart == RestartAt(1, 0)

-----------------------------------------------------------------------------
(* init_msr.                                                               *)

\* Mutant of CallInit: the early return on init is missing.
CallInitAgain ==
    /\ pc = "idle"
    /\ Disciplined => ~finalizeCalled
    /\ pc' = "whitelist"
    /\ UNCHANGED <<ktable, file_descriptors, storage, init, kerneltype, dev_idx,
                   last, finalizeCalled, fallback, msrUnusable>>

\* Entry: a second successful call is the early return on the static init.
CallInit ==
    /\ pc = "idle"
    /\ Disciplined => ~finalizeCalled
    /\ IF init THEN Return("init", 0)
               ELSE pc' = "whitelist" /\ UNCHANGED last
    /\ UNCHANGED <<ktable, file_descriptors, storage, init, kerneltype,
                   dev_idx, finalizeCalled, fallback, msrUnusable>>

\* stat_module with kerneltype 3: the whitelist selects msr_safe or msr.
StatWhitelist ==
    /\ pc = "whitelist"
    /\ pc' = "stat"
    /\ \E st \in Status : kerneltype' = IF st = "rw" THEN 0 ELSE 1
    /\ dev_idx' = 0
    /\ UNCHANGED <<ktable, file_descriptors, storage, init, last,
                   finalizeCalled, fallback, msrUnusable>>

\* stat_module on a device file.  A file without rw permission ends init_msr
\* whatever the module: the code tests the pointer kerneltype, not its value.
StatDevice ==
    /\ pc = "stat"
    /\ \E st \in Status :
           \/ /\ st = "rw"
              /\ pc' = "open"
              /\ UNCHANGED <<kerneltype, dev_idx, last, fallback, msrUnusable>>
           \/ /\ st = "absent" /\ kerneltype = 0
              /\ Restart
              /\ UNCHANGED <<last, msrUnusable>>
           \/ /\ st = "absent" /\ kerneltype = 1
              /\ Return("init", -1)
              /\ fallback' = TRUE
              /\ msrUnusable' = TRUE
              /\ UNCHANGED <<kerneltype, dev_idx>>
           \/ /\ st = "denied"
              /\ Return("init", -1)
              /\ kerneltype' = 1
              /\ fallback' = TRUE
              /\ msrUnusable' = (msrUnusable \/ kerneltype = 1)
              /\ UNCHANGED dev_idx
    /\ UNCHANGED <<ktable, file_descriptors, storage, init, finalizeCalled>>

\* open() of the device file succeeds: the kernel hands out the lowest free
\* descriptor.  The last device completes init_msr.
OpenDevice ==
    /\ pc = "open"
    /\ CoreFd
    /\ \E f \in Fd :
          /\ Lowest(f)
          /\ ktable' = [ktable EXCEPT ![f] = MsrFile(kerneltype, dev_idx)]
          /\ file_descriptors' = [file_descriptors EXCEPT ![dev_idx] = f]
    /\ IF dev_idx = NumDevs - 1
       THEN /\ init' = TRUE
            /\ Return("init", 0)
            /\ UNCHANGED dev_idx
       ELSE /\ dev_idx' = dev_idx + 1
            /\ pc' = "stat"
            /\ UNCHANGED <<init, last>>
    /\ UNCHANGED <<kerneltype, finalizeCalled, fallback, msrUnusable>>

\* open() fails (the file is gone, CAP_SYS_RAWIO is missing, no descriptor is
\* left): msr_safe falls back to msr from the first device on, without closing
\* what it opened; msr gives up.
OpenFails ==
    /\ pc = "open"
    /\ CoreFd
    /\ file_descriptors' = [file_descriptors EXCEPT ![dev_idx] = Failed]
    /\ IF kerneltype = 1
       THEN /\ Return("init", -1)
            /\ fallback' = TRUE
            /\ msrUnusable' = TRUE
            /\ UNCHANGED <<kerneltype, dev_idx>>
       ELSE Restart /\ UNCHANGED <<last, msrUnusable>>
    /\ UNCHANGED <<ktable, init, finalizeCalled>>

-----------------------------------------------------------------------------
(* read_msr_by_idx and write_msr_by_idx: one pread or pwrite on the        *)
(* descriptor of the device.  On a descriptor that is not an MSR file the  *)
(* call fails, or succeeds on standard input when that is a regular file.  *)

Access ==
    /\ pc = "idle"
    /\ Disciplined => init /\ ~finalizeCalled
    /\ CoreFd
    /\ \E d \in Dev : \E f \in Values(d) : \E r \in {0, -1} :
          /\ r = 0 => IsOpen(f)
          /\ last' = [call |-> "access", rc |-> r, dev |-> d,
                      target |-> IF r = 0 THEN ktable[f] ELSE Closed]
    /\ UNCHANGED <<ktable, file_descriptors, init, pc, kerneltype, dev_idx,
                   finalizeCalled, fallback, msrUnusable>>

-----------------------------------------------------------------------------
(* finalize_msr.                                                           *)

CallFinalize ==
    /\ pc = "idle"
    /\ Disciplined => init /\ ~finalizeCalled
    /\ pc' = "close"
    /\ dev_idx' = 0
    /\ finalizeCalled' = TRUE
    /\ UNCHANGED <<ktable, file_descriptors, storage, init, kerneltype,
                   last, fallback, msrUnusable>>

\* close() of one descriptor; after the last one memhdlr_finalize frees the
\* array of core_fd (a second time: the C library aborts the process).
CloseDevice ==
    /\ pc = "close"
    /\ \E f \in Values(dev_idx) :
          /\ IsOpen(f)
          /\ ktable' = [ktable EXCEPT ![f] = Closed]
    /\ IF dev_idx < NumDevs - 1
       THEN /\ file_descriptors' = [file_descriptors EXCEPT ![dev_idx] = 0]
            /\ dev_idx' = dev_idx + 1
            /\ CoreFd
            /\ UNCHANGED <<pc, last>>
       ELSE /\ storage' = "freed"
            /\ file_descriptors' = [d \in Dev |-> Garbage]
            /\ IF storage = "freed"
               THEN pc' = "abort" /\ UNCHANGED last
               ELSE Return("finalize", 0)
            /\ UNCHANGED dev_idx
    /\ UNCHANGED <<init, kerneltype, finalizeCalled, fallback, msrUnusable>>

\* close() of something that is not open: finalize_msr stops there.
CloseFails ==
    /\ pc = "close"
    /\ CoreFd
    /\ \E f \in Values(dev_idx) : ~IsOpen(f)
    /\ Return("finalize", -1)
    /\ UNCHANGED <<ktable, file_descriptors, init, kerneltype, dev_idx,
                   finalizeCalled, fallback, msrUnusable>>

Running == \/ StatWhitelist \/ StatDevice \/ OpenDevice \/ OpenFails
           \/ CloseDevice \/ CloseFails

Next == \/ CallInit \/ Access \/ CallFinalize
        \/ Running

\* A call in progress is a thread of the program: the scheduler runs it.
Spec == Init /\ [][Next]_vars /\ WF_vars(Running)

-----------------------------------------------------------------------------
(* Properties.                                                             *)

OnOwnDevice(d, m) ==
    /\ file_descriptors[d] \in Fd
    /\ ktable[file_descriptors[d]] = MsrFile(m, d)

AllOpen == \E m \in Module : \A d \in Dev : OnOwnDevice(d, m)

\* From the completion of init_msr until finalize_msr is entered, every logical
\* processor's descriptor is open on that processor's own file, and all of them
\* on the same kernel module, whatever restarts the initialisation went through
\* and whatever the administrator did meanwhile (init_msr's loop).
DescriptorsReady == (init /\ ~finalizeCalled) => AllOpen

\* A read or write of device d that reports success reached the registers of
\* processor d (read_msr_by_idx, write_msr_by_idx on an initialised library).
AccessReachesDevice ==
    (last.call = "access" /\ last.rc = 0 /\ init /\ ~finalizeCalled)
        => last.target.kind = "msr" /\ last.target.dev = last.dev

\* When no initialisation was restarted or failed, finalize_msr leaves no MSR
\* descriptor open (finalize_msr against init_msr).
ClosedAfterCleanRun ==
    (last.call = "finalize" /\ last.rc = 0 /\ ~fallback)
        => \A f \in Fd : ktable[f].kind # "msr"

\* The restart with dev_idx = -1 happens at most once: every call of the library
\* that was entered returns (or the C library aborts it).
CallsReturn == (pc \in {"whitelist", "stat", "open", "close"})
                   ~> (pc \in {"idle", "abort"})

\* init_msr returns 0 only with every descriptor open: "@return 0 if
\* initialization was a success" (include/msr_core.h).
SuccessMeansOpen ==
    (pc = "idle" /\ last.call = "init" /\ last.rc = 0) => AllOpen

\* After finalize_msr returned 0 no MSR descriptor is open: "Close the MSR module
\* file descriptors exposed in the /dev filesystem" (include/msr_core.h).
FinalizeClosesAll ==
    (last.call = "finalize" /\ last.rc = 0)
        => \A f \in Fd : ktable[f].kind # "msr"

\* init_msr fails only when the plain msr module could not be used: "else -1 if
\* can't find any msr module with RW permissions" (include/msr_core.h).
FailsOnlyWithoutModule ==
    (last.call = "init" /\ last.rc = -1) => msrUnusable
=============================================================================
