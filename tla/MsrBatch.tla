------------------------------ MODULE MsrBatch ------------------------------
(***************************************************************************)
(* The batch interface of src/src/msr_core.c: batch_storage keeps an array *)
(* of batches that grows with the largest batch number used, allocate_batch*)
(* gives a batch its block of operations, create_batch_op fills the next   *)
(* one and hands out a pointer to its data word, read_batch and write_batch*)
(* run the whole batch through the msr_batch driver or, without it, one    *)
(* register at a time.                                                     *)
(*                                                                         *)
(* An access outside a block sets "corrupt": what the program does next is *)
(* undefined and not modelled.                                             *)
(***************************************************************************)
EXTENDS Naturals, Integers, Sequences, FiniteSets

CONSTANTS
    NumBatches,   \* batch numbers used: 0 .. NumBatches - 1
    MaxOps,       \* largest bsize passed to allocate_batch
    MaxBlocks,    \* bound on the calls of allocate_batch
    Register, Value, NoRegister

ASSUME BatchAssumption == /\ {NumBatches, MaxOps, MaxBlocks} \subseteq Nat \ {0}
                          /\ 0 \in Value
                          /\ NoRegister \notin Register

Batch == 0 .. NumBatches - 1
Index == 1 .. MaxOps
Block == 1 .. MaxBlocks
Null == 0                         \* ops == NULL

VARIABLES
    batch,     \* batch_storage: per batch [ops, numops, size]; << >> if NULL
    block,     \* the operations in each allocated block
    freed,     \* blocks that were released
    dest,      \* the caller's pointers: <<block, index>> per batch and index
    regs,      \* the registers
    batchfd,   \* "unopened", "driver" or "none"
    call,      \* the running do_batch_op: type, batch, next operation, errors
    ret,       \* result of the last do_batch_op, and whether an operation failed
    corrupt,   \* an access went outside a block
    misused    \* history: a batch was used otherwise than the library's storages
               \* use theirs, allocated once and filled once, to their size,
               \* before the first write

vars == <<batch, block, freed, dest, regs, batchfd, call, ret, corrupt, misused>>

EmptyBatch == [ops |-> Null, numops |-> 0, size |-> 0]

\* Mutant of ZeroOp: malloc, so the data word holds whatever the block held.
MallocOp(r) == [reg |-> r, isrdmsr |-> FALSE, data |-> NoRegister]

\* An operation as libmsr_calloc leaves it.
ZeroOp(r) == [reg |-> r, isrdmsr |-> FALSE, data |-> 0]

Idle == [type |-> "none", b |-> 0, k |-> 0, failed |-> FALSE]

Init ==
    /\ batch = << >>
    /\ block = << >>
    /\ freed = {}
    /\ dest = [b \in Batch |-> [i \in Index |-> << >>]]
    /\ regs \in [Register -> Value]
    /\ batchfd = "unopened"
    /\ call = Idle
    /\ ret = [rc |-> 0, type |-> "none", failed |-> FALSE]
    /\ corrupt = FALSE
    /\ misused = FALSE

-----------------------------------------------------------------------------
(* batch_storage.                                                          *)

\* Mutant: the new elements of a grown array are not initialised, and take
\* what an older batch holds.
StorageStale(b) ==
    [n \in 0 .. b |-> IF n \in DOMAIN batch THEN batch[n]
                      ELSE IF batch = << >> THEN EmptyBatch ELSE batch[0]]

\* Mutant: the counts of the new elements are not initialised.
StorageNoCount(b) ==
    IF b \in DOMAIN batch THEN batch
    ELSE [n \in 0 .. b |-> IF n \in DOMAIN batch THEN batch[n]
                          ELSE [EmptyBatch EXCEPT !.numops = 1]]

\* The array once it has room for batch b; elements in use keep their content.
Storage(b) ==
    IF b \in DOMAIN batch THEN batch
    ELSE [n \in 0 .. b |-> IF n \in DOMAIN batch THEN batch[n] ELSE EmptyBatch]

Ready == call = Idle /\ ~corrupt

-----------------------------------------------------------------------------
(* allocate_batch, create_batch_op, free_batch, and stores by the caller.  *)

\* A second allocation is reported ("Conflicting batch pointers") and done: the
\* operation count stays and the old block loses its pointer.
AllocateBatch(b, bsize) ==
    /\ Ready
    /\ Len(block) < MaxBlocks
    /\ misused' = (misused \/ Storage(b)[b].ops # Null)
    /\ batch' = [Storage(b) EXCEPT ![b].ops = Len(block) + 1, ![b].size = bsize]
    /\ \E r \in Register :
          block' = Append(block, [i \in 1 .. bsize |-> ZeroOp(r)])
    /\ UNCHANGED <<freed, dest, regs, batchfd, call, ret, corrupt>>

\* The test "numops > size" lets one operation too many through.
CreateBatchOp(b, r) ==
    /\ Ready
    /\ LET s   == Storage(b)
           n   == s[b].numops + 1
           id  == s[b].ops
           top == n <= s[b].size
       IN  /\ n - 1 <= s[b].size
           /\ corrupt' = (id \in freed \cup {Null} \/ ~top)
           /\ misused' = (misused \/ id = Null \/ ~top
                             \/ \E i \in 1 .. n - 1 : ~block[id][i].isrdmsr)
           /\ IF corrupt'
              THEN batch' = s /\ UNCHANGED <<block, dest>>
              ELSE /\ batch' = [s EXCEPT ![b].numops = n]
                   /\ block' = [block EXCEPT ![id][n] =
                                   [@ EXCEPT !.reg = r, !.isrdmsr = TRUE]]
                   /\ dest' = [dest EXCEPT ![b][n] = <<id, n>>]
    /\ UNCHANGED <<freed, regs, batchfd, call, ret>>

\* free_batch indexes the element it was given, and its size, once more by the
\* batch number; the pointer and the count of the batch stay.
FreeBatch(b) ==
    /\ Ready
    /\ misused' = TRUE
    /\ LET s == Storage(b)
           e == 2 * b
       IN  /\ corrupt' = (e \notin DOMAIN s)
           /\ batch' = IF corrupt' THEN s ELSE [s EXCEPT ![e].size = 0]
           /\ freed' = IF corrupt' \/ s[e].ops = Null THEN freed
                       ELSE freed \cup {s[e].ops}
    /\ ret' = [rc |-> 0, type |-> "free", failed |-> (b \in DOMAIN batch
                  /\ batch[b].ops \notin freed' \cup {Null})]
    /\ UNCHANGED <<block, dest, regs, batchfd, call>>

\* The caller writes through a pointer it was given.
Store(b, i, v) ==
    /\ Ready
    /\ dest[b][i] # << >>
    /\ LET id == dest[b][i][1]
       IN  /\ corrupt' = (id \in freed)
           /\ block' = [block EXCEPT ![id][dest[b][i][2]].data = v]
    /\ UNCHANGED <<batch, freed, dest, regs, batchfd, call, ret, misused>>

-----------------------------------------------------------------------------
(* do_batch_op.                                                            *)

\* Mutant of SwitchFlags: the last operation is missed.
SwitchFlagsShort(ops, n, t) ==
    IF ops[1].isrdmsr = (t = "read") THEN ops
    ELSE [i \in DOMAIN ops |-> IF i < n THEN [ops[i] EXCEPT !.isrdmsr = (t = "read")]
                               ELSE ops[i]]

\* The flags follow the first operation's: when it disagrees with the type of
\* the call all are switched, otherwise none is looked at.
SwitchFlags(ops, n, t) ==
    IF ops[1].isrdmsr = (t = "read") THEN ops
    ELSE [i \in DOMAIN ops |-> IF i <= n THEN [ops[i] EXCEPT !.isrdmsr = (t = "read")]
                               ELSE ops[i]]

\* read_batch(b), write_batch(b): the driver file is opened by the first call;
\* the driver refuses an empty batch, the compatibility loop ignores it.
StartBatchOp(t, b) ==
    /\ Ready
    /\ batch' = Storage(b)
    /\ batchfd' \in IF batchfd = "unopened" THEN {"driver", "none"} ELSE {batchfd}
    /\ LET n  == batch'[b].numops
           id == batch'[b].ops
       IN  IF n = 0
           THEN /\ ret' = [rc |-> IF batchfd' = "driver" THEN -1 ELSE 0,
                           type |-> t, failed |-> FALSE]
                /\ UNCHANGED <<block, call, corrupt>>
           ELSE /\ corrupt' = (id \in freed \cup {Null} \/ n > Len(block[id]))
                /\ call' = IF corrupt' THEN Idle
                           ELSE [type |-> t, b |-> b, k |-> 1, failed |-> FALSE]
                /\ block' = IF corrupt' \/ batchfd' = "none" THEN block
                            ELSE [block EXCEPT ![id] = SwitchFlags(@, n, t)]
                /\ UNCHANGED ret
    /\ UNCHANGED <<freed, dest, regs, misused>>

\* The direction an operation runs in: its own flag in the driver, the type of
\* the call in compatibility_batch.
Reads(op) == IF batchfd = "driver" THEN op.isrdmsr ELSE call.type = "read"

\* ioctl reports an operation that failed; compatibility_batch returns 0.
BatchResult(failed) == IF failed /\ batchfd = "driver" THEN -1 ELSE 0

\* One operation of the batch: a register is read or written, or the access is
\* refused and nothing changes.
ExecuteOp ==
    /\ call # Idle
    /\ LET id == batch[call.b].ops
           op == block[id][call.k]
       IN  \E ok \in BOOLEAN :
             /\ IF ok /\ Reads(op)
                THEN /\ block' = [block EXCEPT ![id][call.k].data = regs[op.reg]]
                     /\ UNCHANGED regs
                ELSE IF ok
                THEN /\ regs' = [regs EXCEPT ![op.reg] = op.data]
                     /\ UNCHANGED block
                ELSE UNCHANGED <<block, regs>>
             /\ LET failed == call.failed \/ ~ok
                IN  IF call.k = batch[call.b].numops
                    THEN /\ call' = Idle
                         /\ ret' = [rc |-> BatchResult(failed), type |-> call.type,
                                    failed |-> failed]
                    ELSE /\ call' = [call EXCEPT !.k = @ + 1, !.failed = failed]
                         /\ UNCHANGED ret
    /\ UNCHANGED <<batch, freed, dest, batchfd, corrupt, misused>>

\* Another program on the node writes a register.
OtherProgram(r, v) ==
    /\ regs' = [regs EXCEPT ![r] = v]
    /\ UNCHANGED <<batch, block, freed, dest, batchfd, call, ret, corrupt, misused>>

Next ==
    \/ \E b \in Batch, n \in Index : AllocateBatch(b, n)
    \/ \E b \in Batch, r \in Register : CreateBatchOp(b, r)
    \/ \E b \in Batch : FreeBatch(b)
    \/ \E b \in Batch, i \in Index, v \in Value : Store(b, i, v)
    \/ \E t \in {"read", "write"}, b \in Batch : StartBatchOp(t, b)
    \/ ExecuteOp
    \/ \E r \in Register, v \in Value : OtherProgram(r, v)

Spec == Init /\ [][Next]_vars

-----------------------------------------------------------------------------
(* Properties.                                                             *)

Op == [reg : Register, isrdmsr : BOOLEAN, data : Value]
BatchRecord == [ops : Block \cup {Null}, numops : 0 .. MaxOps, size : 0 .. MaxOps]

TypeOK ==
    /\ batch \in UNION {[0 .. n - 1 -> BatchRecord] : n \in 0 .. NumBatches}
    /\ block \in Seq(Seq(Op))
    /\ \A id \in DOMAIN block : Len(block[id]) \in Index
    /\ freed \subseteq DOMAIN block
    /\ dest \in [Batch -> [Index -> {<< >>} \cup (Block \X Index)]]
    /\ regs \in [Register -> Value]
    /\ batchfd \in {"unopened", "driver", "none"}
    /\ call \in [type : {"none", "read", "write"}, b : Batch, k : 0 .. MaxOps,
                 failed : BOOLEAN]
    /\ ret \in [rc : {0, -1}, type : {"none", "read", "write", "free"},
                failed : BOOLEAN]
    /\ corrupt \in BOOLEAN /\ misused \in BOOLEAN

\* Used as the library's own storages use it, the interface stays inside the
\* blocks it allocated (batch_storage, create_batch_op, do_batch_op).
StaysInBlocks == ~misused => ~corrupt

\* Every pointer handed out by create_batch_op keeps designating its own
\* operation of its own batch while the array of batches is reallocated for
\* larger batch numbers (batch_storage), and no two of them share a data word.
DestinationsStable ==
    ~misused => \A b \in Batch, i \in Index :
        dest[b][i] # << >> =>
            /\ b \in DOMAIN batch
            /\ i <= batch[b].numops
            /\ dest[b][i] = <<batch[b].ops, i>>
            /\ \A c \in DOMAIN batch \ {b} : batch[c].ops # batch[b].ops

\* The interface implements the abstract batch registers.
DataOf(p) == IF p = << >> THEN 0 ELSE block[p[1]][p[2]].data
RegOf(p) == IF p = << >> THEN NoRegister ELSE block[p[1]][p[2]].reg

Words == [b \in Batch |-> [i \in Index |-> DataOf(dest[b][i])]]
Targets == [b \in Batch |-> [i \in Index |-> RegOf(dest[b][i])]]
Running ==
    IF call = Idle THEN [type |-> "none", batch |-> 0, todo |-> {}]
    ELSE [type |-> call.type, batch |-> call.b, todo |-> call.k .. batch[call.b].numops]

Promise == INSTANCE BatchRegisters WITH
    dest <- Words, target <- Targets, call <- Running

\* A batch read changes only the destinations of its batch, a batch write only
\* the registers of its batch, each with the value of its partner, whatever the
\* flags, the path (driver or compatibility loop) and other batches do.
ImplementsPromise == Promise!Spec

\* create_batch_op refuses an operation beyond the allocated size: "else -1 if
\* ... the number of batch operations exceeds the allocated size"
\* (include/msr_core.h).
SizeRespected ==
    [][\A b \in Batch, r \in Register :
          (CreateBatchOp(b, r) /\ b \in DOMAIN batch /\ batch[b].ops \notin freed \cup {Null})
              => batch[b].numops < batch[b].size]_vars

\* While the driver runs a batch, all operations still to come have the direction
\* of the call: "If current flag is the opposite type, switch the flags."
\* (src/msr_core.c).
FlagsMatchCall ==
    (call # Idle /\ batchfd = "driver") =>
        \A k \in call.k .. batch[call.b].numops :
            block[batch[call.b].ops][k].isrdmsr = (call.type = "read")

\* A batch operation returns 0 only if every register was accessed: "@return 0
\* if successful" (src/msr_core.c, compatibility_batch).
ZeroMeansDone == (ret.type \in {"read", "write"} /\ ret.rc = 0) => ~ret.failed

\* free_batch releases the operations of the batch it is given: "Deallocate
\* memory for specific set of batch operations" (include/msr_core.h).
FreeReleasesItsBatch == ret.type = "free" => ~ret.failed
=============================================================================
