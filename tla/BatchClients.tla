---------------------------- MODULE BatchClients ----------------------------
(***************************************************************************)
(* Every part of libmsr that reads or writes registers of all sockets,     *)
(* cores or threads has a storage function that allocates one batch and    *)
(* loads its registers on it through Topology's loaders.  Each storage     *)
(* function is here a record: the scope of its registers, how many it      *)
(* loads, and for how many per socket, core or thread it allocates room.   *)
(***************************************************************************)
EXTENDS Topology, RaplFlags, Sequences

CONSTANT Avail           \* numbers of programmable counters processors have

ASSUME AvailAssumption == Avail \subseteq 1 .. 8

Client(scope, loaded, allocated) ==
    [scope |-> scope, loaded |-> loaded, allocated |-> allocated]

\* Mutant of ClocksStorage: room for two of the three registers.
ClocksStorageSmall == Client("thread", 3, 2)

ClocksStorage           == Client("thread", 3, 3)
PerfStatusStorage       == Client("socket", 1, 2)
PerfCtlStorage          == Client("socket", 1, 2)
PerfevtselStorage(n)    == Client("thread", n, n)
PmcStorage(n)           == Client("thread", n, n)
UncPerfevtselStorage    == Client("socket", 4, 4)
UncCounterStorage       == Client("socket", 4, 4)
FixedCounterStorage     == Client("thread", 3, 3)
FixedCounterCtrlStorage == Client("thread", 2, 2)
PkgCresStorage          == Client("socket", 4, 4)
CoreCresStorage         == Client("core", 3, 3)
TempTargetStorage       == Client("socket", 1, 1)
ThermStatStorage        == Client("core", 1, 1)
ThermInterruptStorage   == Client("core", 1, 1)
PkgThermStatStorage     == Client("socket", 1, 1)
PkgThermInterruptStorage == Client("socket", 1, 1)
RaplUnitStorage         == Client("socket", 1, 1)
RaplDataStorage(model) ==
    Client("socket", Cardinality(RaplDataLoaded(FlagsOf(model))),
           RaplDataBatchSize(FlagsOf(model)))

Clients ==
    {ClocksStorage, PerfStatusStorage, PerfCtlStorage, UncPerfevtselStorage,
     UncCounterStorage, FixedCounterStorage, FixedCounterCtrlStorage,
     PkgCresStorage, CoreCresStorage, TempTargetStorage, ThermStatStorage,
     ThermInterruptStorage, PkgThermStatStorage, PkgThermInterruptStorage,
     RaplUnitStorage}
      \cup {PerfevtselStorage(n) : n \in Avail} \cup {PmcStorage(n) : n \in Avail}
      \cup {RaplDataStorage(m) : m \in Models}

NoClient == Client("none", 0, 0)

VARIABLES
    client,     \* the client whose batch is followed
    ops,        \* the operations on its batch: register, index, device
    early       \* history: it loaded its batch before init_msr

allvars == <<vars, client, ops, early>>

Units(scope, cc) ==
    CASE scope = "socket" -> cc.sockets
      [] scope = "core"   -> cc.sockets * cc.cores
      [] scope = "thread" -> NumDevs(cc)

Devices(scope, cc) ==
    CASE scope = "socket" -> LoadSocketBatch(cc)
      [] scope = "core"   -> LoadCoreBatch(cc)
      [] scope = "thread" -> LoadThreadBatch(cc)

\* A storage function runs: allocate_batch, then one loader per register.
\* create_batch_op refuses an operation when more than the size are there, one
\* too late, and nobody looks at its result.  Before init_msr thread_map is
\* NULL and the loaders for sockets and cores follow it.
Storage(c) ==
    /\ Ready
    /\ client = NoClient
    /\ client' = c
    /\ counts' = CoreConfig
    /\ early' = (thread_map = << >>)
    /\ LET devices == Devices(c.scope, counts')
           perReg  == Len(devices)
           total   == c.loaded * perReg
           room    == c.allocated * Units(c.scope, counts')
       IN  /\ broken' = (\/ total > room
                         \/ early' /\ c.scope # "thread" /\ c.loaded > 0)
           /\ ops' = [k \in 1 .. Min({total, room}) |->
                        LET d == devices[1 + ((k - 1) % perReg)]
                        IN  [reg |-> (k - 1) \div perReg, idx |-> d.idx, cpu |-> d.cpu]]
    /\ access' = NoAccess
    /\ UNCHANGED <<machine, online, thread_map, discontinuous, moved>>

ClientsInit == Init /\ client = NoClient /\ ops = << >> /\ early = FALSE

ClientsNext ==
    \/ /\ Next
       /\ client # NoClient => access' = NoAccess    \* no bearing on the batch
       /\ UNCHANGED <<client, ops, early>>
    \/ \E c \in Clients : Storage(c)

ClientsSpec == ClientsInit /\ [][ClientsNext]_allvars

-----------------------------------------------------------------------------
(* Properties.                                                             *)

\* No client puts more operations on its batch than it allocated (the loaders
\* ignore what create_batch_op says, msr_core.c:778) and no loader follows a
\* map that is not there or names what is not there, as long as init_msr came
\* first and no processor went offline.
ClientsFit == ~moved /\ Cardinality(online) = Cardinality(Processors) /\ ~early => ~broken

Member(scope, p) ==
    CASE scope = "socket" -> p[1]
      [] scope = "core"   -> p[1] * machine.cores + p[2]
      [] scope = "thread" -> Os(p)

\* After a storage function every pointer of every register is set, once, and
\* leads to a processor of the socket, core or thread whose index it has: later
\* reads and writes through it touch no other processor.
PointersReachTheirUnit ==
    Whole /\ ~broken /\ client # NoClient =>
        \A r \in 0 .. client.loaded - 1, i \in 0 .. Units(client.scope, counts) - 1 :
            \E k \in DOMAIN ops :
                /\ ops[k].reg = r /\ ops[k].idx = i
                /\ \E p \in online : Os(p) = ops[k].cpu /\ Member(client.scope, p) = i
                /\ \A j \in DOMAIN ops \ {k} : ops[j].reg # r \/ ops[j].idx # i

\* A register of a socket or core is reached on the same processor through a
\* batch and by coordinates with core and thread 0: the code writes limits one
\* way and reads counters the other.
BatchAgreesWithCoord ==
    Whole /\ Regular /\ ~broken /\ thread_map # << >> =>
        \A k \in DOMAIN ops :
            CASE client.scope = "socket" -> ops[k].cpu = Devidx(ops[k].idx, 0, 0)
              [] client.scope = "core" ->
                    ops[k].cpu = Devidx(ops[k].idx \div counts.cores,
                                        ops[k].idx % counts.cores, 0)
              [] OTHER -> TRUE
=============================================================================
