------------------------------ MODULE Topology ------------------------------
(***************************************************************************)
(* How src/src/msr_core.c finds its way from sockets, cores and threads to *)
(* the kernel's processor numbers: core_config counts what hwloc sees, once*)
(* per process; find_cpu_top fills thread_map and guesses the numbering    *)
(* scheme; devidx computes a number from coordinates; the load_* functions *)
(* put one register of every socket, core or thread on a batch.            *)
(*                                                                         *)
(* The machine numbers its processors by one of several schemes, and the   *)
(* administrator may take processors offline between calls.  An access     *)
(* outside a block or through NULL sets "broken": nothing follows.         *)
(***************************************************************************)
EXTENDS Integers, FiniteSets, FiniteSetsExt

CONSTANTS
    MaxSockets, MaxCores, MaxThreads,   \* bounds on the machine's shape
    Numberings,                         \* schemes the machine may use
    MaxOffline,                         \* processors that may be offline
    NoEntry                             \* thread_map entry nobody wrote

ASSUME TopologyAssumption ==
    /\ {MaxSockets, MaxCores, MaxThreads} \subseteq Nat \ {0}
    /\ MaxOffline \in Nat
    /\ Numberings \subseteq {"continuous", "discontinuous", "siblings"}

None == -1
NoAccess == [asked |-> << >>, accepted |-> TRUE, reached |-> None]

VARIABLES
    machine,       \* [sockets, cores, threads, numbering], fixed
    online,        \* the processors that are online: <<socket, core, thread>>
    counts,        \* statics of core_config and its callers; << >> before
    thread_map,    \* g_topo_list.thread_map
    discontinuous, \* g_topo_list.discontinuous_mapping
    access,        \* last call with coordinates: what was asked, whether the
                   \* assertions accepted it, the device reached
    broken,        \* an access went outside a block
    moved          \* history: processors came or went since the counts

vars == <<machine, online, counts, thread_map, discontinuous, access, broken,
          moved>>

-----------------------------------------------------------------------------
(* The machine.                                                            *)

Processors ==
    (0 .. machine.sockets - 1) \X (0 .. machine.cores - 1)
        \X (0 .. machine.threads - 1)

\* The kernel's number of a processor.
Os(p) ==
    LET S == machine.sockets
        C == machine.cores
        T == machine.threads
    IN  CASE machine.numbering = "continuous"    -> p[3]*S*C + p[1]*C + p[2]
          [] machine.numbering = "discontinuous" -> p[3]*S*C + p[2]*S + p[1]
          [] machine.numbering = "siblings"      -> (p[1]*C + p[2])*T + p[3]

\* hwloc's order: by socket, then core, then thread.
Order(p) == (p[1] * machine.cores + p[2]) * machine.threads + p[3]
Sockets  == {p[1] : p \in online}
Cores    == {<<p[1], p[2]>> : p \in online}

LogicalPu(p)     == Cardinality({q \in online : Order(q) < Order(p)})
LogicalSocket(p) == Cardinality({s \in Sockets : s < p[1]})
LogicalCore(p)   == Cardinality({c \in Cores : \/ c[1] < p[1]
                                               \/ c[1] = p[1] /\ c[2] < p[2]})

-----------------------------------------------------------------------------
(* core_config, find_cpu_top, devidx.                                      *)

\* The counts, detected on the first call and kept.
CoreConfig ==
    IF counts # << >> THEN counts
    ELSE LET s == Cardinality(Sockets)
             c == Cardinality(Cores)
         IN  [sockets |-> s, cores |-> c \div s,
              threads |-> Cardinality(online) \div c]

NumDevs(cc) == cc.sockets * cc.cores * cc.threads

\* Mutant of Entry: the number the core has within its socket.
EntryCoreInSocket(p) ==
    [core |-> Cardinality({c \in Cores : c[1] = p[1] /\ c[2] < p[2]}),
     socket |-> LogicalSocket(p)]

Entry(p) == [core |-> LogicalCore(p), socket |-> LogicalSocket(p)]

\* One pass over hwloc's first n processors.  Their number comes from the
\* counts, so there may be fewer; the kernel's number may lie past the map.
FindCpuTop ==
    LET cc   == CoreConfig
        n    == NumDevs(cc)
        seen == {p \in online : LogicalPu(p) < n}
        At(d) == {p \in seen : Os(p) = d}
    IN  /\ counts' = cc
        /\ thread_map' = [d \in 0 .. n - 1 |->
                             IF At(d) = {} THEN NoEntry
                             ELSE Entry(CHOOSE p \in At(d) : TRUE)]
        /\ discontinuous' = (discontinuous
              \/ \E p \in seen : Os(p) = 1 /\ Entry(p).core # 1)
        /\ broken' = (\/ Cardinality(online) < n
                      \/ \E p \in seen : Os(p) >= n)

\* Mutant of Devidx: the socket's base counts sockets, not the cores of a socket.
DevidxBase(s, c, t) ==
    IF discontinuous
    THEN t * counts.sockets * counts.cores + c * counts.sockets + s
    ELSE t * counts.sockets * counts.cores + s * counts.sockets + c

Devidx(s, c, t) ==
    IF discontinuous
    THEN t * counts.sockets * counts.cores + c * counts.sockets + s
    ELSE t * counts.sockets * counts.cores + s * counts.cores + c

Init ==
    /\ machine \in [sockets : 1 .. MaxSockets, cores : 1 .. MaxCores,
                    threads : 1 .. MaxThreads, numbering : Numberings]
    /\ \E off \in SUBSET Processors :
          /\ Cardinality(off) <= MaxOffline
          /\ off # Processors
          /\ online = Processors \ off
    /\ counts = << >>
    /\ thread_map = << >>
    /\ discontinuous = FALSE
    /\ access = NoAccess
    /\ broken = FALSE
    /\ moved = FALSE

Ready == ~broken

\* init_msr begins with find_cpu_top, on the first call and on every other.
InitMsr ==
    /\ Ready
    /\ FindCpuTop
    /\ access' = NoAccess
    /\ UNCHANGED <<machine, online, moved>>

-----------------------------------------------------------------------------
(* Access by coordinates.                                                  *)

Mapped == Ready /\ counts # << >>

\* sockets_assert, cores_assert and threads_assert: one past the last passes.
Accepts(a) == a[1] <= counts.sockets /\ a[2] <= counts.cores /\ a[3] <= counts.threads

\* Their callers ignore the result, and core_fd refuses what is no device.  An
\* access changes nothing but the record of it, so none follows another.
ByCoord(a) ==
    LET d == Devidx(a[1], a[2], a[3])
    IN  /\ Mapped /\ access = NoAccess
        /\ access' = [asked |-> a, accepted |-> Accepts(a),
                      reached |-> IF d < NumDevs(counts) THEN d ELSE None]
        /\ UNCHANGED <<machine, online, counts, thread_map, discontinuous,
                       broken, moved>>

-----------------------------------------------------------------------------
(* The loaders: the devices load_socket_batch, load_core_batch and         *)
(* load_thread_batch put on a batch, in order, as pairs of the index of the*)
(* pointer and the device.                                                 *)

\* Mutant of Matching: the search leaves out device 0.
MatchingLate(field, v) == {d \in DOMAIN thread_map \ {0} : thread_map[d][field] = v}

\* The devices of socket or core v, of which the loaders take the first.
Matching(field, v) == {d \in DOMAIN thread_map : thread_map[d][field] = v}

\* A socket or core without a device in the map gets no operation.
LoadByMap(field, n) ==
    LET found == {v \in 0 .. n - 1 : Matching(field, v) # {}}
        nth(i) == CHOOSE v \in found : Cardinality({w \in found : w < v}) = i - 1
    IN  [i \in 1 .. Cardinality(found) |->
            [idx |-> nth(i), cpu |-> Min(Matching(field, nth(i)))]]

LoadSocketBatch(cc) == LoadByMap("socket", cc.sockets)
LoadCoreBatch(cc)   == LoadByMap("core", cc.sockets * cc.cores)
LoadThreadBatch(cc) == [i \in 1 .. NumDevs(cc) |-> [idx |-> i - 1, cpu |-> i - 1]]

-----------------------------------------------------------------------------
\* A processor goes offline or comes back between two calls.
Hotplug(p) ==
    /\ Ready
    /\ online' = IF p \in online THEN online \ {p} ELSE online \cup {p}
    /\ online' # {}
    /\ Cardinality(Processors \ online') <= MaxOffline
    /\ moved' = (moved \/ counts # << >>)
    /\ access' = NoAccess
    /\ UNCHANGED <<machine, counts, thread_map, discontinuous, broken>>

\* Coordinates a caller asks for: also one past the last of each kind.
Coordinates == (0 .. MaxSockets) \X (0 .. MaxCores) \X (0 .. MaxThreads)

Next ==
    \/ InitMsr
    \/ \E a \in Coordinates : ByCoord(a)
    \/ \E p \in Processors : Hotplug(p)

Spec == Init /\ [][Next]_vars

-----------------------------------------------------------------------------
(* Properties.                                                             *)

\* All processors of the machine are there, and have been.
Whole == online = Processors /\ ~moved
\* The numberings the library knows.
Regular == machine.numbering # "siblings"

Exists(a) == a \in Processors

\* The state of the topology has its type.
TypeOK ==
    /\ machine \in [sockets : 1 .. MaxSockets, cores : 1 .. MaxCores,
                    threads : 1 .. MaxThreads, numbering : Numberings]
    /\ online \subseteq Processors
    /\ counts = << >> \/ counts \in [sockets : 1 .. MaxSockets,
                          cores : 1 .. MaxCores, threads : 1 .. MaxThreads]
    /\ \A d \in DOMAIN thread_map :
          thread_map[d] = NoEntry \/
          thread_map[d] \in [core : 0 .. MaxSockets * MaxCores - 1,
                            socket : 0 .. MaxSockets - 1]
    /\ {discontinuous, broken, moved, access.accepted} \subseteq BOOLEAN
    /\ access.reached \in Nat \cup {None}

\* On a whole machine numbered in one of the two ways the library tells apart
\* from processor 1 alone (msr_core.c:320), the coordinates of a processor lead
\* to that processor and to no other.
CoordReachesIt ==
    Whole /\ Regular /\ thread_map # << >> /\ access # NoAccess /\ Exists(access.asked)
        => access.reached = Os(access.asked)

\* The map names, for every processor of such a machine, its own socket, and
\* processors share a core in the map exactly when they share one in the
\* machine, whatever the numbering.
MapIsTrue ==
    Whole /\ ~broken /\ thread_map # << >> =>
        \A p, q \in online :
            /\ thread_map[Os(p)].socket = p[1]
            /\ thread_map[Os(p)].core = thread_map[Os(q)].core
                  <=> <<p[1], p[2]>> = <<q[1], q[2]>>

\* Coordinates of no processor are reported ("Validate specific core exists in
\* the platform configuration", src/include/msr_core.h): they are not, for the
\* number just past the last.
AcceptedExists ==
    Whole /\ access # NoAccess /\ access.accepted => Exists(access.asked)
=============================================================================
