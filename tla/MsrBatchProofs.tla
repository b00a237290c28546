--------------------------- MODULE MsrBatchProofs ---------------------------
(***************************************************************************)
(* For any number of batches, registers and blocks: used as the library's  *)
(* own storages use it, the batch interface stays inside its blocks, its   *)
(* pointers stay good, and it implements BatchRegisters.                   *)
(***************************************************************************)
EXTENDS MsrBatch, SequenceTheorems, TLAPS

\* A batch, whether the array reaches that far or not.
At(b) == IF b \in DOMAIN batch THEN batch[b] ELSE EmptyBatch

\* However the interface is used, its pointers lead to blocks.
Sizes ==
    \A b \in Batch : At(b).ops # Null =>
        At(b).ops \in DOMAIN block /\ At(b).size <= Len(block[At(b).ops])

Pointers ==
    \A b \in Batch, i \in Index : dest[b][i] # << >> =>
        /\ dest[b][i][1] \in DOMAIN block
        /\ dest[b][i][2] \in 1 .. Len(block[dest[b][i][1]])

InCall ==
    call # Idle =>
        /\ ~corrupt /\ batchfd # "unopened" /\ call.type \in {"read", "write"}
        /\ At(call.b).ops \in DOMAIN block
        /\ call.k \in 1 .. At(call.b).numops
        /\ At(call.b).numops <= Len(block[At(call.b).ops])

\* The rest holds as long as the interface is used properly.
Counted ==
    \A b \in Batch : /\ At(b).numops <= At(b).size
                     /\ At(b).ops = Null => At(b).numops = 0

OwnBlocks ==
    \A b, c \in Batch : b # c /\ At(b).ops = At(c).ops => At(b).ops = Null

Handed ==
    \A b \in Batch, i \in Index :
        dest[b][i] = IF i <= At(b).numops THEN <<At(b).ops, i>> ELSE << >>

\* What calloc left is still there where no operation was created.
Untouched ==
    \A b \in Batch : At(b).ops # Null =>
        \A i \in At(b).numops + 1 .. Len(block[At(b).ops]) : block[At(b).ops][i].data = 0

\* All flags of a batch are equal; the driver's batch has those of the call.
OneFlag ==
    \A b \in Batch : At(b).ops # Null =>
        \A i \in 1 .. At(b).numops :
            block[At(b).ops][i].isrdmsr = block[At(b).ops][1].isrdmsr

CallFlag ==
    call # Idle /\ batchfd = "driver" =>
        \A i \in 1 .. At(call.b).numops :
            block[At(call.b).ops][i].isrdmsr = (call.type = "read")

Proper ==
    /\ freed = {} /\ ~corrupt
    /\ Counted /\ OwnBlocks /\ Handed /\ Untouched /\ OneFlag /\ CallFlag

BaseInv == TypeOK /\ Sizes /\ Pointers /\ InCall
IInv == BaseInv /\ (~misused => Proper)
-----------------------------------------------------------------------------
(* The array of batches and the blocks.                                    *)

BlocksOK == block \in Seq(Seq(Op)) /\ \A id \in DOMAIN block : Len(block[id]) \in Index

LEMMA Bounds ==
    /\ NumBatches \in Nat \ {0} /\ MaxOps \in Nat \ {0} /\ MaxBlocks \in Nat \ {0}
    /\ Batch = 0 .. NumBatches - 1 /\ Index = 1 .. MaxOps /\ Block = 1 .. MaxBlocks
    /\ Null = 0 /\ 0 \in Value /\ NoRegister \notin Register
BY BatchAssumption DEF Batch, Index, Block, Null

LEMMA EmptyIsRecord == EmptyBatch \in BatchRecord
BY Bounds DEF EmptyBatch, BatchRecord

LEMMA AtIsRecord ==
    ASSUME TypeOK
    PROVE  /\ \A b \in Batch : At(b) \in BatchRecord
           /\ \A b \in DOMAIN batch : b \in Batch /\ batch[b] = At(b)
<1>1. PICK n \in 0 .. NumBatches : batch \in [0 .. n - 1 -> BatchRecord]
  BY DEF TypeOK
<1>2. QED
  BY <1>1, EmptyIsRecord, Bounds DEF At

\* batch_storage changes what no batch holds.
LEMMA StorageAt ==
    ASSUME TypeOK, NEW b \in Batch
    PROVE  \E m \in 1 .. NumBatches :
              /\ Storage(b) \in [0 .. m - 1 -> BatchRecord]
              /\ b \in 0 .. m - 1
              /\ \A c \in Batch : At(c) = IF c \in 0 .. m - 1 THEN Storage(b)[c] ELSE EmptyBatch
<1>1. PICK n \in 0 .. NumBatches : batch \in [0 .. n - 1 -> BatchRecord]
  BY DEF TypeOK
<1>2. CASE b \in 0 .. n - 1
  <2>1. Storage(b) = batch
    BY <1>1, <1>2 DEF Storage
  <2>2. n \in 1 .. NumBatches
    BY <1>2
  <2>3. \A c \in Batch : At(c) = IF c \in 0 .. n - 1 THEN batch[c] ELSE EmptyBatch
    BY <1>1 DEF At
  <2>4. QED
    BY <1>1, <1>2, <2>1, <2>2, <2>3
<1>3. CASE b \notin 0 .. n - 1
  <2> DEFINE m == b + 1
  <2>1. m \in 1 .. NumBatches /\ m - 1 = b /\ n <= b
    BY <1>3, Bounds
  <2>2. Storage(b) = [k \in 0 .. b |-> At(k)]
    BY <1>1, <1>3 DEF Storage, At
  <2>3. \A k \in 0 .. b : At(k) \in BatchRecord
    BY AtIsRecord, Bounds, <2>1
  <2>4. Storage(b) \in [0 .. m - 1 -> BatchRecord] /\ b \in 0 .. m - 1
    BY <2>1, <2>2, <2>3, Bounds
  <2>5. ASSUME NEW c \in Batch
        PROVE  At(c) = IF c \in 0 .. m - 1 THEN Storage(b)[c] ELSE EmptyBatch
    BY <1>1, <2>1, <2>2, Bounds DEF At
  <2>6. QED
    BY <2>1, <2>4, <2>5
<1>4. QED
  BY <1>2, <1>3

\* One batch gets new fields.
LEMMA PutBatch ==
    ASSUME TypeOK, NEW b \in Batch, NEW x \in BatchRecord,
           batch' = [Storage(b) EXCEPT ![b] = x]
    PROVE  /\ batch' \in UNION {[0 .. n - 1 -> BatchRecord] : n \in 0 .. NumBatches}
           /\ \A c \in Batch : At(c)' = IF c = b THEN x ELSE At(c)
<1>1. PICK m \in 1 .. NumBatches :
        /\ Storage(b) \in [0 .. m - 1 -> BatchRecord]
        /\ b \in 0 .. m - 1
        /\ \A c \in Batch : At(c) = IF c \in 0 .. m - 1 THEN Storage(b)[c] ELSE EmptyBatch
  BY StorageAt
<1>2. batch' \in [0 .. m - 1 -> BatchRecord]
  BY <1>1
<1>3. m \in 0 .. NumBatches
  BY Bounds
<1>4. \A c \in Batch : At(c)' = IF c = b THEN x ELSE At(c)
  BY <1>1, <1>2 DEF At
<1>5. QED
  BY <1>2, <1>3, <1>4

LEMMA KeepBatch ==
    ASSUME TypeOK, NEW b \in Batch, batch' = Storage(b)
    PROVE  /\ batch' \in UNION {[0 .. n - 1 -> BatchRecord] : n \in 0 .. NumBatches}
           /\ b \in DOMAIN batch'
           /\ \A c \in Batch : At(c)' = At(c)
<1>1. PICK m \in 1 .. NumBatches :
        /\ Storage(b) \in [0 .. m - 1 -> BatchRecord]
        /\ b \in 0 .. m - 1
        /\ \A c \in Batch : At(c) = IF c \in 0 .. m - 1 THEN Storage(b)[c] ELSE EmptyBatch
  BY StorageAt
<1>2. batch' \in [0 .. m - 1 -> BatchRecord]
  BY <1>1
<1>3. m \in 0 .. NumBatches
  BY Bounds
<1>4. \A c \in Batch : At(c)' = At(c)
  BY <1>1, <1>2 DEF At
<1>5. QED
  BY <1>1, <1>2, <1>3, <1>4

LEMMA InStorage ==
    ASSUME TypeOK, NEW b \in Batch
    PROVE  b \in DOMAIN Storage(b) /\ Storage(b)[b] = At(b)
BY StorageAt

LEMMA BlockFacts ==
    ASSUME BlocksOK
    PROVE  /\ DOMAIN block = 1 .. Len(block) /\ Len(block) \in Nat
           /\ \A id \in DOMAIN block :
                 /\ block[id] \in Seq(Op) /\ Len(block[id]) \in Index
                 /\ DOMAIN block[id] = 1 .. Len(block[id])
                 /\ \A i \in 1 .. Len(block[id]) : block[id][i] \in Op
BY DEF BlocksOK

\* One block gets new operations.
LEMMA SetBlock ==
    ASSUME BlocksOK, NEW id \in DOMAIN block, NEW y \in Seq(Op), Len(y) = Len(block[id]),
           block' = [block EXCEPT ![id] = y]
    PROVE  /\ BlocksOK' /\ DOMAIN block' = DOMAIN block /\ Len(block') = Len(block)
           /\ \A j \in DOMAIN block : block'[j] = IF j = id THEN y ELSE block[j]
           /\ \A j \in DOMAIN block : Len(block'[j]) = Len(block[j])
<1>1. block' \in Seq(Seq(Op)) /\ DOMAIN block' = DOMAIN block /\ Len(block') = Len(block)
  BY ExceptSeq DEF BlocksOK
<1>2. \A j \in DOMAIN block : block'[j] = IF j = id THEN y ELSE block[j]
  BY DEF BlocksOK
<1>3. QED
  BY <1>1, <1>2 DEF BlocksOK

\* One operation of a block is replaced.
LEMMA SetOp ==
    ASSUME BlocksOK, NEW id \in DOMAIN block, NEW k \in 1 .. Len(block[id]), NEW x \in Op,
           block' = [block EXCEPT ![id][k] = x]
    PROVE  /\ BlocksOK' /\ DOMAIN block' = DOMAIN block /\ Len(block') = Len(block)
           /\ \A j \in DOMAIN block : Len(block'[j]) = Len(block[j])
           /\ \A j \in DOMAIN block : \A i \in 1 .. Len(block[j]) :
                 block'[j][i] = IF j = id /\ i = k THEN x ELSE block[j][i]
<1> DEFINE y == [block[id] EXCEPT ![k] = x]
<1>1. block[id] \in Seq(Op) /\ DOMAIN block[id] = 1 .. Len(block[id])
  BY BlockFacts
<1>2. y \in Seq(Op) /\ Len(y) = Len(block[id])
  BY <1>1, ExceptSeq
<1>3. \A i \in 1 .. Len(block[id]) : y[i] = IF i = k THEN x ELSE block[id][i]
  BY <1>1
<1>4. block' = [block EXCEPT ![id] = y]
  OBVIOUS
<1> HIDE DEF y
<1>5. QED
  BY <1>2, <1>3, <1>4, SetBlock

LEMMA Facts ==
    ASSUME BaseInv
    PROVE  /\ TypeOK /\ BlocksOK
           /\ \A b \in Batch : /\ At(b) \in BatchRecord
                             /\ At(b).numops \in 0 .. MaxOps /\ At(b).size \in 0 .. MaxOps
                             /\ At(b).ops \in Nat
<1>1. TypeOK /\ BlocksOK
  BY DEF BaseInv, TypeOK, BlocksOK
<1>2. \A b \in Batch : At(b) \in BatchRecord
  BY <1>1, AtIsRecord
<1>3. QED
  BY <1>1, <1>2, Bounds DEF BatchRecord

\* The operations created on a batch lie in its block.
LEMMA CreatedInBlock ==
    ASSUME BaseInv, Counted, NEW c \in Batch, At(c).ops # Null
    PROVE  /\ At(c).ops \in DOMAIN block /\ Len(block[At(c).ops]) \in Nat
           /\ At(c).numops \in Nat /\ At(c).numops <= Len(block[At(c).ops])
<1>1. At(c).ops \in DOMAIN block /\ At(c).size <= Len(block[At(c).ops])
  BY DEF BaseInv, Sizes
<1>2. At(c).numops <= At(c).size /\ At(c).numops \in Nat /\ At(c).size \in Nat
  BY Facts DEF Counted
<1>3. Len(block[At(c).ops]) \in Nat
  BY <1>1, Facts, BlockFacts, Bounds
<1>4. QED
  BY <1>1, <1>2, <1>3

-----------------------------------------------------------------------------
(* What the interface promises, in the terms of batches and blocks.        *)

\* A step that keeps the promise of BatchRegisters.
Promised == misused' \/ (Promise!Next /\ UNCHANGED misused) \/ UNCHANGED Promise!vars

IsTable(F) == F = [b \in Batch |-> [i \in Index |-> F[b][i]]]

LEMMA SameTable ==
    ASSUME NEW F, NEW G, IsTable(F), IsTable(G),
           \A b \in Batch, i \in Index : G[b][i] = F[b][i]
    PROVE  G = F
<1>1. [b \in Batch |-> [i \in Index |-> G[b][i]]] = [b \in Batch |-> [i \in Index |-> F[b][i]]]
  OBVIOUS
<1>2. QED
  BY <1>1 DEF IsTable

OneChanged(F, G, c, k, x) == G = [F EXCEPT ![c][k] = x]

LEMMA OneCell ==
    ASSUME NEW F, NEW G, IsTable(F), IsTable(G), NEW c \in Batch, NEW k \in Index, NEW x,
           \A b \in Batch, i \in Index : G[b][i] = IF b = c /\ i = k THEN x ELSE F[b][i]
    PROVE  OneChanged(F, G, c, k, x)
<1> DEFINE H == [F EXCEPT ![c][k] = x]
<1>1. DOMAIN F = Batch /\ \A b \in Batch : F[b] = [i \in Index |-> F[b][i]]
  BY DEF IsTable
<1>2. H = [b \in Batch |-> IF b = c THEN [F[c] EXCEPT ![k] = x] ELSE F[b]]
  BY <1>1
<1>3. [F[c] EXCEPT ![k] = x] = [i \in Index |-> IF i = k THEN x ELSE F[c][i]]
  BY <1>1
<1>4. \A b \in Batch : H[b] = [i \in Index |-> H[b][i]]
  BY <1>1, <1>2, <1>3
<1>5. IsTable(H)
  BY <1>2, <1>4 DEF IsTable
<1>6. \A b \in Batch, i \in Index : H[b][i] = IF b = c /\ i = k THEN x ELSE F[b][i]
  BY <1>2, <1>3
<1> HIDE DEF H
<1>7. \A b \in Batch, i \in Index : G[b][i] = H[b][i]
  BY <1>6
<1>8. G = H
  BY <1>5, <1>7, SameTable
<1>9. QED
  BY <1>8 DEF H, OneChanged

LEMMA Tables ==
    IsTable(Words) /\ IsTable(Targets) /\ IsTable(Words') /\ IsTable(Targets')
BY DEF IsTable, Words, Targets

LEMMA WordsHere ==
    ASSUME Handed
    PROVE  \A c \in Batch, i \in Index :
              /\ Words[c][i] = IF i <= At(c).numops THEN block[At(c).ops][i].data ELSE 0
              /\ Targets[c][i] = IF i <= At(c).numops THEN block[At(c).ops][i].reg
                                 ELSE NoRegister
<1> SUFFICES ASSUME NEW c \in Batch, NEW i \in Index
             PROVE  /\ Words[c][i] = IF i <= At(c).numops
                                       THEN block[At(c).ops][i].data ELSE 0
                    /\ Targets[c][i] = IF i <= At(c).numops
                                         THEN block[At(c).ops][i].reg ELSE NoRegister
  OBVIOUS
<1>1. Words[c][i] = DataOf(dest[c][i]) /\ Targets[c][i] = RegOf(dest[c][i])
  BY DEF Words, Targets
<1>2. dest[c][i] = IF i <= At(c).numops THEN <<At(c).ops, i>> ELSE << >>
  BY DEF Handed
<1>3. <<At(c).ops, i>> # << >>
  OBVIOUS
<1>4. QED
  BY <1>1, <1>2, <1>3 DEF DataOf, RegOf

LEMMA WordsThere ==
    ASSUME Handed'
    PROVE  \A c \in Batch, i \in Index :
              /\ Words'[c][i] = IF i <= At(c)'.numops THEN block'[At(c)'.ops][i].data ELSE 0
              /\ Targets'[c][i] = IF i <= At(c)'.numops THEN block'[At(c)'.ops][i].reg
                                  ELSE NoRegister
<1> SUFFICES ASSUME NEW c \in Batch, NEW i \in Index
             PROVE  /\ Words'[c][i] = IF i <= At(c)'.numops
                                       THEN block'[At(c)'.ops][i].data ELSE 0
                    /\ Targets'[c][i] = IF i <= At(c)'.numops
                                         THEN block'[At(c)'.ops][i].reg ELSE NoRegister
  OBVIOUS
<1>1. Words'[c][i] = DataOf(dest[c][i])' /\ Targets'[c][i] = RegOf(dest[c][i])'
  BY DEF Words, Targets
<1>2. dest'[c][i] = IF i <= At(c)'.numops THEN <<At(c)'.ops, i>> ELSE << >>
  BY DEF Handed
<1>3. <<At(c)'.ops, i>> # << >>
  OBVIOUS
<1>4. QED
  BY <1>1, <1>2, <1>3 DEF DataOf, RegOf

\* Operations that stay where they are keep their words and registers.
LEMMA SameWords ==
    ASSUME Handed, Handed', \A c \in Batch : At(c)'.numops = At(c).numops
    PROVE  /\ (\A c \in Batch : \A i \in Index : i <= At(c).numops =>
                  block'[At(c)'.ops][i].data = block[At(c).ops][i].data) => Words' = Words
           /\ (\A c \in Batch : \A i \in Index : i <= At(c).numops =>
                  block'[At(c)'.ops][i].reg = block[At(c).ops][i].reg) => Targets' = Targets
BY WordsHere, WordsThere, Tables, SameTable

LEMMA CreatedAre ==
    ASSUME BaseInv, Proper, NEW c \in Batch
    PROVE  /\ Promise!Created(c) = 1 .. At(c).numops
           /\ \A i \in 1 .. At(c).numops : i \in Index
<1>1. At(c).numops \in 0 .. MaxOps
  BY Facts
<1>2. \A i \in Index : i <= At(c).numops => block[At(c).ops][i].reg \in Register
  <2> SUFFICES ASSUME NEW i \in Index, i <= At(c).numops
               PROVE  block[At(c).ops][i] \in Op
    BY DEF Op
  <2>1. At(c).ops # Null
    BY <1>1, Bounds DEF Proper, Counted
  <2>2. At(c).ops \in DOMAIN block /\ i \in 1 .. Len(block[At(c).ops])
    BY <1>1, <2>1, CreatedInBlock, Bounds DEF Proper
  <2>3. QED
    BY <2>2, Facts, BlockFacts
<1>3. \A i \in Index : Targets[c][i] # NoRegister <=> i <= At(c).numops
  BY <1>2, WordsHere, Bounds DEF Proper
<1>4. \A i : i \in Promise!Created(c) <=> i \in 1 .. At(c).numops
  BY <1>1, <1>3, Bounds DEF Promise!Created
<1>5. Promise!Created(c) = 1 .. At(c).numops
  BY <1>4
<1>6. QED
  BY <1>1, <1>5, Bounds

-----------------------------------------------------------------------------
(* Each action keeps the invariant and the promise.                        *)

LEMMA InitInv == Init => IInv
<1> SUFFICES ASSUME Init PROVE IInv
  OBVIOUS
<1>1. batch = << >> /\ block = << >> /\ DOMAIN batch = {}
  BY DEF Init
<1>2. \A b \in Batch : At(b) = EmptyBatch
  BY <1>1 DEF At
<1>3. batch \in [0 .. 0 - 1 -> BatchRecord]
  BY <1>1
<1>4. block \in Seq(Seq(Op)) /\ \A id \in DOMAIN block : Len(block[id]) \in Index
  BY <1>1
<1>5. dest \in [Batch -> [Index -> {<< >>} \cup (Block \X Index)]]
  BY DEF Init
<1>6. /\ call = Idle /\ ret = [rc |-> 0, type |-> "none", failed |-> FALSE]
      /\ call \in [type : {"none", "read", "write"}, b : Batch, k : 0 .. MaxOps, failed : BOOLEAN]
      /\ ret \in [rc : {0, -1}, type : {"none", "read", "write", "free"}, failed : BOOLEAN]
  BY Bounds DEF Init, Idle
<1>7. TypeOK
  <2>1. batch \in UNION {[0 .. n - 1 -> BatchRecord] : n \in 0 .. NumBatches}
    <3>1. 0 \in 0 .. NumBatches
      BY Bounds
    <3>2. QED
      BY <1>3, <3>1
  <2>2. QED
    BY <1>1, <1>4, <1>5, <1>6, <2>1 DEF TypeOK, Init
<1>8. BaseInv
  BY <1>2, <1>6, <1>7 DEF BaseInv, Sizes, Pointers, InCall,
                          EmptyBatch, Init
<1>9. Proper
  BY <1>2, <1>6, Bounds DEF Proper, Counted, OwnBlocks, Handed, Untouched, OneFlag, CallFlag,
                            EmptyBatch, Init
<1>10. QED
  BY <1>8, <1>9 DEF IInv

LEMMA AllocateInv ==
    ASSUME IInv, NEW b \in Batch, NEW n \in Index, AllocateBatch(b, n)
    PROVE  IInv' /\ Promised
<1>0. /\ TypeOK /\ BlocksOK
      /\ \A c \in Batch : /\ At(c) \in BatchRecord
                        /\ At(c).numops \in 0 .. MaxOps /\ At(c).size \in 0 .. MaxOps
                        /\ At(c).ops \in Nat
  BY Facts DEF IInv
<1> DEFINE id == Len(block) + 1
           x == [[At(b) EXCEPT !.ops = id] EXCEPT !.size = n]
<1>1. id \in Block /\ id # Null /\ id \notin DOMAIN block
  BY <1>0, BlockFacts, Bounds DEF AllocateBatch
<1>2. x \in BatchRecord /\ x.ops = id /\ x.numops = At(b).numops /\ x.size = n
  <2>1. At(b) \in BatchRecord /\ id \in Block \cup {Null} /\ n \in 0 .. MaxOps
    BY <1>0, <1>1, Bounds
  <2> HIDE DEF id
  <2>2. QED
    BY <2>1 DEF BatchRecord
<1>3. batch' = [Storage(b) EXCEPT ![b] = x]
  <2>1. batch' = [Storage(b) EXCEPT ![b].ops = id, ![b].size = n]
    BY DEF AllocateBatch
  <2>2. PICK m \in 1 .. NumBatches : Storage(b) \in [0 .. m - 1 -> BatchRecord]
                                   /\ b \in 0 .. m - 1
    BY <1>0, StorageAt
  <2>3. Storage(b)[b] = At(b)
    BY <1>0, InStorage
  <2>4. QED
    BY <2>1, <2>2, <2>3
<1> HIDE DEF x
<1>4. /\ batch' \in UNION {[0 .. k - 1 -> BatchRecord] : k \in 0 .. NumBatches}
      /\ \A c \in Batch : At(c)' = IF c = b THEN x ELSE At(c)
  BY <1>0, <1>2, <1>3, PutBatch
<1>5. PICK r \in Register : block' = Append(block, [i \in 1 .. n |-> ZeroOp(r)])
  BY DEF AllocateBatch
<1> DEFINE z == [i \in 1 .. n |-> ZeroOp(r)]
<1>6. z \in Seq(Op) /\ Len(z) = n /\ \A i \in 1 .. n : z[i].data = 0
  <2>1. ZeroOp(r) \in Op /\ ZeroOp(r).data = 0
    BY Bounds DEF ZeroOp, Op
  <2>2. n \in Nat
    BY Bounds
  <2>3. QED
    BY <2>1, <2>2
<1> HIDE DEF z
<1>7. /\ BlocksOK' /\ DOMAIN block' = DOMAIN block \cup {id}
      /\ block'[id] = z /\ \A j \in DOMAIN block : block'[j] = block[j]
  <2>1. block' = Append(block, z)
    BY <1>5 DEF z
  <2>2. /\ block' \in Seq(Seq(Op)) /\ Len(block') = id
        /\ \A j \in 1 .. Len(block) : block'[j] = block[j]
        /\ block'[id] = z
    BY <1>0, <1>6, <2>1, AppendProperties DEF BlocksOK
  <2>3. DOMAIN block' = DOMAIN block \cup {id} /\ DOMAIN block = 1 .. Len(block)
    BY <1>0, <2>2 DEF BlocksOK
  <2>4. QED
    BY <1>0, <1>6, <2>2, <2>3 DEF BlocksOK
<1>8. /\ UNCHANGED <<freed, dest, regs, batchfd, call, ret, corrupt>>
      /\ call = Idle /\ ~corrupt
      /\ misused' = (misused \/ At(b).ops # Null)
  BY <1>0, InStorage DEF AllocateBatch, Ready
<1>9. TypeOK'
  BY <1>0, <1>4, <1>7, <1>8 DEF TypeOK, BlocksOK
<1>10. BaseInv'
  <2>1. Sizes'
    BY <1>2, <1>4, <1>6, <1>7, Bounds DEF Sizes, IInv, BaseInv
  <2>2. Pointers'
    BY <1>7, <1>8 DEF Pointers, IInv, BaseInv
  <2>3. InCall'
    BY <1>8 DEF InCall, IInv, BaseInv, Idle
  <2>4. QED
    BY <1>9, <2>1, <2>2, <2>3 DEF BaseInv
<1>11. ASSUME ~misused'
       PROVE  Proper'
  <2>1. Proper /\ At(b).ops = Null /\ At(b).numops = 0
    BY <1>8, <1>11 DEF IInv, Proper, Counted
  <2>2. Counted'
    BY <1>1, <1>2, <1>4, <2>1, Bounds DEF Counted, Proper
  <2>3. OwnBlocks'
    BY <1>1, <1>2, <1>4, <2>1 DEF OwnBlocks, Proper, IInv, BaseInv, Sizes
  <2>4. Handed'
    <3> SUFFICES ASSUME NEW c \in Batch, NEW i \in Index
                 PROVE  dest[c][i] = IF i <= At(c)'.numops THEN <<At(c)'.ops, i>> ELSE << >>
      BY <1>8 DEF Handed
    <3>1. i > 0
      BY Bounds
    <3>2. dest[c][i] = IF i <= At(c).numops THEN <<At(c).ops, i>> ELSE << >>
      BY <2>1 DEF Handed, Proper
    <3>3. CASE c = b
      BY <1>2, <1>4, <2>1, <3>1, <3>2, <3>3, Bounds
    <3>4. CASE c # b
      BY <1>4, <3>2, <3>4
    <3>5. QED
      BY <3>3, <3>4
  <2>5. Untouched'
    BY <1>2, <1>4, <1>6, <1>7, <2>1 DEF Untouched, Proper, IInv, BaseInv, Sizes
  <2>6. OneFlag'
    BY <1>2, <1>4, <1>7, <2>1 DEF OneFlag, Proper, IInv, BaseInv, Sizes
  <2>7. QED
    BY <1>8, <2>1, <2>2, <2>3, <2>4, <2>5, <2>6 DEF Proper, CallFlag
<1>12. ASSUME ~misused'
       PROVE  UNCHANGED Promise!vars
  <2>1. Proper /\ Proper' /\ At(b).numops = 0
    BY <1>8, <1>11, <1>12 DEF IInv, Proper, Counted
  <2>2. \A c \in Batch : At(c)'.numops = At(c).numops
    BY <1>2, <1>4
  <2>3. \A c \in Batch : \A i \in Index : i <= At(c).numops =>
           block'[At(c)'.ops][i] = block[At(c).ops][i]
    <3> SUFFICES ASSUME NEW c \in Batch, NEW i \in Index, i <= At(c).numops
                 PROVE  block'[At(c)'.ops][i] = block[At(c).ops][i]
      OBVIOUS
    <3>1. c # b /\ At(c).ops # Null
      BY <1>0, <2>1, Bounds DEF Proper, Counted
    <3>2. At(c).ops \in DOMAIN block
      BY <2>1, <3>1, CreatedInBlock DEF IInv, Proper
    <3>3. QED
      BY <1>4, <1>7, <3>1, <3>2
  <2>4. Words' = Words /\ Targets' = Targets
    BY <2>1, <2>2, <2>3, SameWords DEF Proper
  <2>5. Running' = Running
    BY <1>8 DEF Running
  <2>6. misused' = misused
    BY <1>0, <1>8, <1>12 DEF TypeOK
  <2>7. QED
    BY <1>8, <2>4, <2>5, <2>6 DEF Promise!vars
<1>13. QED
  BY <1>10, <1>11, <1>12 DEF IInv, Promised
\* An operation too many, or none allocated, leaves only the array changed.
LEMMA CreateInv ==
    ASSUME IInv, NEW b \in Batch, NEW r \in Register, CreateBatchOp(b, r)
    PROVE  IInv' /\ Promised
<1>0. /\ TypeOK /\ BlocksOK
      /\ \A c \in Batch : /\ At(c) \in BatchRecord
                        /\ At(c).numops \in 0 .. MaxOps /\ At(c).size \in 0 .. MaxOps
                        /\ At(c).ops \in Nat
  BY Facts DEF IInv
<1> DEFINE n == At(b).numops + 1
           id == At(b).ops
<1>1. /\ call = Idle /\ ~corrupt
      /\ UNCHANGED <<freed, regs, batchfd, call, ret>>
      /\ corrupt' = (id \in freed \cup {Null} \/ ~(n <= At(b).size))
      /\ misused' = (misused \/ id = Null \/ ~(n <= At(b).size)
                        \/ \E i \in 1 .. n - 1 : ~block[id][i].isrdmsr)
  BY <1>0, InStorage DEF CreateBatchOp, Ready
<1>2. corrupt' \in BOOLEAN /\ misused' \in BOOLEAN
  BY <1>1
<1>a. n = At(b).numops + 1 /\ id = At(b).ops /\ n \in Nat /\ n >= 1
  BY <1>0
<1> HIDE DEF n, id
<1> USE <1>a
<1>3. CASE corrupt'
  <2>1. batch' = Storage(b) /\ UNCHANGED <<block, dest>>
    BY <1>3 DEF CreateBatchOp
  <2>2. /\ batch' \in UNION {[0 .. k - 1 -> BatchRecord] : k \in 0 .. NumBatches}
        /\ \A c \in Batch : At(c)' = At(c)
    BY <1>0, <2>1, KeepBatch
  <2>3. TypeOK'
    BY <1>0, <1>1, <1>2, <2>1, <2>2 DEF TypeOK
  <2>4. Sizes' /\ Pointers'
    BY <2>1, <2>2 DEF Sizes, Pointers, IInv, BaseInv
  <2>5. InCall'
    BY <1>1 DEF InCall, IInv, BaseInv, Idle
  <2>6. misused'
    BY <1>1, <1>3 DEF IInv, Proper
  <2>7. QED
    BY <2>3, <2>4, <2>5, <2>6 DEF IInv, BaseInv, Promised
<1>4. CASE ~corrupt'
  <2> DEFINE x == [At(b) EXCEPT !.numops = n]
  <2>1. id # Null /\ n <= At(b).size /\ n \in 1 .. MaxOps /\ n \in Index /\ id \in Block
    <3>1. id # Null /\ n <= At(b).size
      BY <1>1, <1>4
    <3>2. id \in Block \cup {Null} /\ At(b).size \in 0 .. MaxOps
      BY <1>0, <1>a DEF BatchRecord
    <3>3. QED
      BY <1>a, <3>1, <3>2, Bounds
  <2>2. x \in BatchRecord /\ x.ops = id /\ x.numops = n /\ x.size = At(b).size
    BY <1>0, <2>1 DEF BatchRecord
  <2>3. batch' = [Storage(b) EXCEPT ![b] = x]
    <3>1. batch' = [Storage(b) EXCEPT ![b].numops = n]
      BY <1>0, <1>4, <1>a, InStorage DEF CreateBatchOp
    <3>2. PICK m \in 1 .. NumBatches : Storage(b) \in [0 .. m - 1 -> BatchRecord]
                                     /\ b \in 0 .. m - 1
      BY <1>0, StorageAt
    <3>3. Storage(b)[b] = At(b)
      BY <1>0, InStorage
    <3>4. QED
      BY <3>1, <3>2, <3>3
  <2> HIDE DEF x
  <2>4. /\ batch' \in UNION {[0 .. k - 1 -> BatchRecord] : k \in 0 .. NumBatches}
        /\ \A c \in Batch : At(c)' = IF c = b THEN x ELSE At(c)
    BY <1>0, <2>2, <2>3, PutBatch
  <2>5. id \in DOMAIN block /\ n \in 1 .. Len(block[id])
    <3>1. id \in DOMAIN block /\ At(b).size <= Len(block[id])
      BY <1>a, <2>1 DEF IInv, BaseInv, Sizes
    <3>2. Len(block[id]) \in Nat
      BY <1>0, <3>1, BlockFacts, Bounds
    <3>3. QED
      BY <1>0, <2>1, <3>1, <3>2
  <2> DEFINE y == [[block[id][n] EXCEPT !.reg = r] EXCEPT !.isrdmsr = TRUE]
  <2>6. block[id][n] \in Op
    BY <1>0, <2>5, BlockFacts
  <2>7. y \in Op /\ y.isrdmsr = TRUE /\ y.data = block[id][n].data
    BY <2>6 DEF Op
  <2>8. block' = [block EXCEPT ![id][n] = y] /\ dest' = [dest EXCEPT ![b][n] = <<id, n>>]
    BY <1>0, <1>4, <1>a, InStorage DEF CreateBatchOp
  <2> HIDE DEF y
  <2>9. /\ BlocksOK' /\ DOMAIN block' = DOMAIN block
        /\ \A j \in DOMAIN block : Len(block'[j]) = Len(block[j])
        /\ \A j \in DOMAIN block : \A i \in 1 .. Len(block[j]) :
              block'[j][i] = IF j = id /\ i = n THEN y ELSE block[j][i]
    <3>1. /\ BlocksOK /\ id \in DOMAIN block /\ n \in 1 .. Len(block[id]) /\ y \in Op
          /\ block' = [block EXCEPT ![id][n] = y]
      BY <1>0, <2>5, <2>7, <2>8
    <3>2. BlocksOK' /\ DOMAIN block' = DOMAIN block
      BY <3>1, SetOp
    <3>3. \A j \in DOMAIN block : Len(block'[j]) = Len(block[j])
      BY <3>1, SetOp
    <3>4. \A j \in DOMAIN block : \A i \in 1 .. Len(block[j]) :
             block'[j][i] = IF j = id /\ i = n THEN y ELSE block[j][i]
      BY <3>1, SetOp
    <3>5. QED
      BY <3>2, <3>3, <3>4
  <2>10. /\ dest' \in [Batch -> [Index -> {<< >>} \cup (Block \X Index)]]
         /\ \A c \in Batch, i \in Index :
               dest'[c][i] = IF c = b /\ i = n THEN <<id, n>> ELSE dest[c][i]
    BY <1>0, <2>1, <2>8 DEF TypeOK
  <2>11. TypeOK'
    BY <1>0, <1>1, <1>2, <2>4, <2>9, <2>10 DEF TypeOK, BlocksOK
  <2>12. Sizes' /\ Pointers'
    <3>1. Sizes'
      BY <2>2, <2>4, <2>9 DEF Sizes, IInv, BaseInv
    <3>2. Pointers'
      BY <2>5, <2>9, <2>10 DEF Pointers, IInv, BaseInv
    <3>3. QED
      BY <3>1, <3>2
  <2>13. InCall'
    BY <1>1 DEF InCall, IInv, BaseInv, Idle
  <2>14. ASSUME ~misused'
         PROVE  Proper'
    <3>1. Proper /\ \A i \in 1 .. n - 1 : block[id][i].isrdmsr
      BY <1>1, <2>14 DEF IInv
    <3>2. Counted'
      BY <1>0, <2>1, <2>2, <2>4, <3>1 DEF Counted, Proper
    <3>3. OwnBlocks'
      BY <2>2, <2>4, <3>1 DEF OwnBlocks, Proper
    <3>4. Handed'
      <4> SUFFICES ASSUME NEW c \in Batch, NEW i \in Index
                   PROVE  dest'[c][i] = IF i <= At(c)'.numops THEN <<At(c)'.ops, i>> ELSE << >>
        BY DEF Handed
      <4>1. dest[c][i] = IF i <= At(c).numops THEN <<At(c).ops, i>> ELSE << >>
        BY <3>1 DEF Handed, Proper
      <4>2. CASE c # b
        BY <2>4, <2>10, <4>1, <4>2
      <4>3. CASE c = b
        <5>1. At(c)'.numops = n /\ At(c)'.ops = id
          BY <2>2, <2>4, <4>3
        <5>2. i \in Nat /\ (i <= n <=> i = n \/ i <= At(b).numops)
          BY <1>0, <1>a, Bounds
        <5>3. QED
          BY <1>a, <2>10, <4>1, <4>3, <5>1, <5>2
      <4>4. QED
        BY <4>2, <4>3
    <3>5. \A c \in Batch : c # b /\ At(c).ops # Null =>
             /\ At(c).ops \in DOMAIN block
             /\ \A i \in 1 .. Len(block[At(c).ops]) :
                   block'[At(c).ops][i] = block[At(c).ops][i]
      BY <2>1, <2>9, <3>1 DEF OwnBlocks, Proper, IInv, BaseInv, Sizes
    <3>6. Untouched'
      <4> SUFFICES ASSUME NEW c \in Batch, At(c)'.ops # Null,
                          NEW i \in At(c)'.numops + 1 .. Len(block'[At(c)'.ops])
                   PROVE  block'[At(c)'.ops][i].data = 0
        BY DEF Untouched
      <4>1. At(c)'.ops = At(c).ops /\ At(c).ops \in DOMAIN block
        BY <2>2, <2>4, <2>5 DEF IInv, BaseInv, Sizes
      <4>2. /\ Len(block'[At(c)'.ops]) = Len(block[At(c).ops])
            /\ At(c)'.numops >= At(c).numops /\ Len(block[At(c).ops]) \in Nat
        <5>1. At(c)'.numops >= At(c).numops
          BY <1>0, <2>2, <2>4
        <5>2. Len(block[At(c).ops]) \in Nat
          BY <1>0, <4>1, BlockFacts, Bounds
        <5>3. QED
          BY <2>9, <4>1, <5>1, <5>2
      <4>3. i \in At(c).numops + 1 .. Len(block[At(c).ops]) /\ i \in 1 .. Len(block[At(c).ops])
        BY <1>0, <2>2, <2>4, <4>2
      <4>4. block[At(c).ops][i].data = 0
        BY <3>1, <4>1, <4>3 DEF Untouched, Proper
      <4>5. block'[At(c).ops][i] = IF At(c).ops = id /\ i = n THEN y ELSE block[At(c).ops][i]
        BY <2>9, <4>1, <4>3
      <4>6. QED
        BY <2>7, <4>1, <4>4, <4>5
    <3>7. OneFlag'
      <4> SUFFICES ASSUME NEW c \in Batch, At(c)'.ops # Null, NEW i \in 1 .. At(c)'.numops
                   PROVE  block'[At(c)'.ops][i].isrdmsr = block'[At(c)'.ops][1].isrdmsr
        BY DEF OneFlag
      <4>1. CASE c = b
        <5>1. At(c)'.ops = id /\ At(c)'.numops = n
          BY <2>2, <2>4, <4>1
        <5>2. \A k \in 1 .. n : k \in 1 .. Len(block[id]) /\ (k # n => k \in 1 .. n - 1)
          BY <1>0, <2>1, <2>5
        <5>3. \A k \in 1 .. n : block'[id][k].isrdmsr = IF k = n THEN TRUE
                                                       ELSE block[id][k].isrdmsr
          BY <2>5, <2>7, <2>9, <5>2
        <5>4. \A k \in 1 .. n - 1 : block[id][k].isrdmsr = TRUE
          <6>1. \A k \in 1 .. n - 1 : block[id][k].isrdmsr \in BOOLEAN
            <7>1. \A k \in 1 .. n : block[id][k] \in Op
              BY <1>0, <2>5, <5>2, BlockFacts
            <7>2. \A k \in 1 .. n - 1 : k \in 1 .. n
              BY <2>1
            <7>3. QED
              BY <7>1, <7>2 DEF Op
          <6>2. QED
            BY <3>1, <6>1
        <5>5. \A k \in 1 .. n : block'[id][k].isrdmsr = TRUE
          BY <5>2, <5>3, <5>4
        <5>6. 1 \in 1 .. n
          BY <2>1
        <5>7. QED
          BY <5>1, <5>5, <5>6
      <4>2. CASE c # b
        <5>1. At(c)' = At(c)
          BY <2>4, <4>2
        <5>2. At(c).numops <= Len(block[At(c).ops])
          <6>1. At(c).size <= Len(block[At(c).ops]) /\ At(c).ops \in DOMAIN block
            BY <5>1 DEF IInv, BaseInv, Sizes
          <6>2. At(c).numops <= At(c).size
            BY <3>1 DEF Proper, Counted
          <6>3. Len(block[At(c).ops]) \in Nat
            BY <1>0, <6>1, BlockFacts, Bounds
          <6>4. QED
            BY <1>0, <6>1, <6>2, <6>3
        <5>3. i \in 1 .. Len(block[At(c).ops]) /\ 1 \in 1 .. Len(block[At(c).ops])
          BY <1>0, <3>5, <4>2, <5>1, <5>2, BlockFacts, Bounds
        <5>4. QED
          BY <3>1, <3>5, <4>2, <5>1, <5>3 DEF OneFlag, Proper
      <4>3. QED
        BY <4>1, <4>2
    <3>8. QED
      BY <1>1, <1>4, <3>1, <3>2, <3>3, <3>4, <3>6, <3>7 DEF Proper, CallFlag
  <2>15. IInv'
    BY <2>11, <2>12, <2>13, <2>14 DEF IInv, BaseInv
  <2>16. ASSUME ~misused'
         PROVE  Promise!Create(b, n, r) /\ UNCHANGED misused
    <3>1. Proper /\ Proper' /\ misused' = misused
      BY <1>0, <1>1, <2>14, <2>16 DEF IInv, TypeOK
    <3>2. /\ \A c \in Batch : At(c)'.ops = At(c).ops
          /\ \A c \in Batch : At(c)'.numops = IF c = b THEN n ELSE At(c).numops
      BY <2>2, <2>4
    <3>3. ASSUME NEW c \in Batch, NEW i \in Index, i <= At(c)'.numops
          PROVE  block'[At(c).ops][i] = IF c = b /\ i = n THEN y ELSE block[At(c).ops][i]
      <4>1. At(c)'.ops # Null /\ BaseInv'
        BY <1>a, <2>1, <2>15, <3>1, <3>2, <3>3, Bounds DEF Proper, Counted, IInv
      <4>2. At(c).ops = id <=> c = b
        BY <3>1, <3>2, <4>1 DEF Proper, OwnBlocks
      <4>3. At(c).ops \in DOMAIN block /\ At(c).size <= Len(block[At(c).ops])
        BY <3>2, <4>1 DEF IInv, BaseInv, Sizes
      <4>4. At(c)'.numops <= At(c)'.size /\ At(c)'.size = At(c).size
        BY <2>2, <2>4, <3>1 DEF Proper, Counted
      <4>5. At(c)'.numops \in Nat /\ At(c).size \in Nat /\ Len(block[At(c).ops]) \in Nat
        <5>1. At(c)'.numops \in Nat /\ At(c).size \in Nat
          BY <1>0, <1>a, <3>2, Bounds
        <5>2. Len(block[At(c).ops]) \in Nat
          BY <1>0, <4>3, BlockFacts, Bounds
        <5>3. QED
          BY <5>1, <5>2
      <4>6. i \in 1 .. Len(block[At(c).ops])
        <5>1. i \in Nat /\ i >= 1
          BY Bounds
        <5>2. i <= At(c).size
          BY <3>3, <4>4, <4>5, <5>1
        <5>3. QED
          BY <4>3, <4>5, <5>1, <5>2
      <4>7. QED
        BY <2>9, <4>2, <4>3, <4>6
    <3>4. y.data = 0 /\ y.reg = r
      <4>1. y.reg = r
        BY <2>6 DEF Op, y
      <4>2. n \in At(b).numops + 1 .. Len(block[id])
        BY <1>0, <2>5
      <4>3. block[id][n].data = 0
        BY <2>1, <3>1, <4>2 DEF Proper, Untouched
      <4>4. QED
        BY <2>7, <4>1, <4>3
    <3>5. \A c \in Batch, i \in Index : Words'[c][i] = Words[c][i]
      <4> SUFFICES ASSUME NEW c \in Batch, NEW i \in Index
                   PROVE  Words'[c][i] = Words[c][i]
        OBVIOUS
      <4>1. Words[c][i] = IF i <= At(c).numops THEN block[At(c).ops][i].data ELSE 0
        BY <3>1, WordsHere DEF Proper
      <4>2. Words'[c][i] = IF i <= At(c)'.numops THEN block'[At(c).ops][i].data ELSE 0
        BY <3>1, <3>2, WordsThere DEF Proper
      <4>3. i \in Nat /\ At(c).numops \in Nat
        BY <1>0, Bounds
      <4>4. QED
        BY <1>a, <3>2, <3>3, <3>4, <4>1, <4>2, <4>3
    <3>6. \A c \in Batch, i \in Index :
             Targets'[c][i] = IF c = b /\ i = n THEN r ELSE Targets[c][i]
      <4> SUFFICES ASSUME NEW c \in Batch, NEW i \in Index
                   PROVE  Targets'[c][i] = IF c = b /\ i = n THEN r ELSE Targets[c][i]
        OBVIOUS
      <4>1. Targets[c][i] = IF i <= At(c).numops THEN block[At(c).ops][i].reg
                            ELSE NoRegister
        BY <3>1, WordsHere DEF Proper
      <4>2. Targets'[c][i] = IF i <= At(c)'.numops THEN block'[At(c).ops][i].reg
                             ELSE NoRegister
        BY <3>1, <3>2, WordsThere DEF Proper
      <4>3. i \in Nat /\ At(c).numops \in Nat
        BY <1>0, Bounds
      <4>4. QED
        BY <1>a, <3>2, <3>3, <3>4, <4>1, <4>2, <4>3
    <3>7. Words' = Words
      BY <3>5, Tables, SameTable
    <3>8. OneChanged(Targets, Targets', b, n, r)
      BY <2>1, <3>6, Tables, OneCell
    <3>9. Targets[b][n] = NoRegister
      <4>1. ~(n <= At(b).numops)
        BY <1>0, <1>a
      <4>2. QED
        BY <2>1, <3>1, <4>1, WordsHere DEF Proper
    <3>10. Running = Promise!Idle /\ Running' = Running
      BY <1>1 DEF Running, Promise!Idle
    <3>11. QED
      BY <1>1, <3>1, <3>7, <3>8, <3>9, <3>10 DEF Promise!Create, OneChanged
  <2>17. QED
    BY <2>1, <2>15, <2>16 DEF Promised, Promise!Next
<1>5. QED
  BY <1>3, <1>4

LEMMA FreeInv ==
    ASSUME IInv, NEW b \in Batch, FreeBatch(b)
    PROVE  IInv' /\ Promised
<1>0. /\ TypeOK /\ BlocksOK
      /\ \A c \in Batch : /\ At(c) \in BatchRecord
                        /\ At(c).numops \in 0 .. MaxOps /\ At(c).size \in 0 .. MaxOps
                        /\ At(c).ops \in Nat
  BY Facts DEF IInv
<1> DEFINE e == 2 * b
<1>1. /\ call = Idle /\ misused' = TRUE /\ ret'.type = "free"
      /\ UNCHANGED <<block, dest, regs, batchfd, call>>
      /\ corrupt' = (e \notin DOMAIN Storage(b))
      /\ batch' = IF corrupt' THEN Storage(b) ELSE [Storage(b) EXCEPT ![e].size = 0]
  BY DEF FreeBatch, Ready
<1>2. PICK m \in 1 .. NumBatches :
        /\ Storage(b) \in [0 .. m - 1 -> BatchRecord]
        /\ \A c \in Batch : At(c) = IF c \in 0 .. m - 1 THEN Storage(b)[c] ELSE EmptyBatch
  BY <1>0, StorageAt
<1>3. /\ batch' \in [0 .. m - 1 -> BatchRecord]
      /\ \A k \in 0 .. m - 1 : /\ batch'[k].ops = Storage(b)[k].ops
                             /\ batch'[k].size \in {0, Storage(b)[k].size}
  <2>1. CASE corrupt'
    BY <1>1, <1>2, <2>1
  <2>2. CASE ~corrupt'
    <3>1. e \in 0 .. m - 1 /\ Storage(b)[e] \in BatchRecord
      BY <1>1, <1>2, <2>2
    <3> DEFINE x == [Storage(b)[e] EXCEPT !.size = 0]
    <3>2. x \in BatchRecord /\ x.ops = Storage(b)[e].ops /\ x.size = 0
      BY <3>1, Bounds DEF BatchRecord
    <3>3. batch' = [Storage(b) EXCEPT ![e] = x]
      BY <1>1, <2>2
    <3> HIDE DEF x, e
    <3>4. QED
      BY <1>2, <3>1, <3>2, <3>3
  <2>3. QED
    BY <2>1, <2>2
<1>4. \A c \in Batch : At(c)'.ops = At(c).ops /\ At(c)'.size \in {0, At(c).size}
  BY <1>2, <1>3 DEF At
<1>5. freed' \subseteq DOMAIN block
  <2>1. \/ freed' = freed
        \/ /\ e \in DOMAIN Storage(b) /\ Storage(b)[e].ops # Null
           /\ freed' = freed \cup {Storage(b)[e].ops}
    BY DEF FreeBatch
  <2>2. ASSUME e \in DOMAIN Storage(b), Storage(b)[e].ops # Null
        PROVE  Storage(b)[e].ops \in DOMAIN block
    <3>1. e \in Batch /\ Storage(b)[e] = At(e)
      BY <1>2, <2>2, Bounds
    <3>2. QED
      BY <2>2, <3>1 DEF IInv, BaseInv, Sizes
  <2>3. QED
    BY <1>0, <2>1, <2>2 DEF TypeOK
<1>6. ret' \in [rc : {0, -1}, type : {"none", "read", "write", "free"}, failed : BOOLEAN]
  <2>1. \A p \in BOOLEAN : [rc |-> 0, type |-> "free", failed |-> p] \in
          [rc : {0, -1}, type : {"none", "read", "write", "free"}, failed : BOOLEAN]
    OBVIOUS
  <2>2. QED
    BY <2>1 DEF FreeBatch
<1>7. TypeOK'
  <2>1. m \in 0 .. NumBatches
    BY Bounds
  <2>2. batch' \in UNION {[0 .. k - 1 -> BatchRecord] : k \in 0 .. NumBatches}
    BY <1>3, <2>1
  <2>3. QED
    BY <1>0, <1>1, <1>5, <1>6, <2>2 DEF TypeOK
<1>8. Sizes'
  <2>1. \A id \in DOMAIN block : Len(block[id]) \in Nat
    BY <1>0, BlockFacts, Bounds
  <2>2. QED
    BY <1>1, <1>4, <2>1 DEF Sizes, IInv, BaseInv
<1>9. Pointers' /\ InCall'
  BY <1>1 DEF Pointers, InCall, IInv, BaseInv
<1>10. QED
  BY <1>1, <1>7, <1>8, <1>9 DEF IInv, BaseInv, Promised

SameShape ==
    /\ DOMAIN block' = DOMAIN block
    /\ \A j \in DOMAIN block : Len(block'[j]) = Len(block[j])

\* Data words may change, but for those where no operation was created.
LEMMA DataOnly ==
    ASSUME BaseInv, Proper, SameShape, \A c \in Batch : At(c)' = At(c),
           \A j \in DOMAIN block : \A i \in 1 .. Len(block[j]) :
               block'[j][i].isrdmsr = block[j][i].isrdmsr,
           \A c \in Batch : At(c).ops # Null =>
               \A i \in At(c).numops + 1 .. Len(block[At(c).ops]) :
                   block'[At(c).ops][i].data = block[At(c).ops][i].data
    PROVE  /\ Counted' /\ OwnBlocks' /\ Untouched' /\ OneFlag'
           /\ UNCHANGED dest => Handed'
<1>1. Counted' /\ OwnBlocks' /\ (UNCHANGED dest => Handed')
  BY DEF Proper, Counted, OwnBlocks, Handed
<1>2. Untouched'
  <2>1. \A c \in Batch : At(c).ops # Null => Len(block'[At(c).ops]) = Len(block[At(c).ops])
    BY CreatedInBlock DEF Proper, SameShape
  <2>2. QED
    BY <2>1 DEF Proper, Untouched
<1>3. OneFlag'
  <2> SUFFICES ASSUME NEW c \in Batch, At(c).ops # Null, NEW i \in 1 .. At(c).numops
               PROVE  block'[At(c).ops][i].isrdmsr = block'[At(c).ops][1].isrdmsr
    BY DEF OneFlag
  <2>1. /\ At(c).ops \in DOMAIN block
        /\ i \in 1 .. Len(block[At(c).ops]) /\ 1 \in 1 .. Len(block[At(c).ops])
    BY CreatedInBlock DEF Proper
  <2>2. QED
    BY <2>1 DEF Proper, OneFlag
<1>4. QED
  BY <1>1, <1>2, <1>3

LEMMA StoreInv ==
    ASSUME IInv, NEW b \in Batch, NEW i \in Index, NEW v \in Value, Store(b, i, v)
    PROVE  IInv' /\ Promised
<1>0. /\ TypeOK /\ BlocksOK
      /\ \A c \in Batch : /\ At(c) \in BatchRecord
                        /\ At(c).numops \in 0 .. MaxOps /\ At(c).size \in 0 .. MaxOps
                        /\ At(c).ops \in Nat
  BY Facts DEF IInv
<1> DEFINE id == dest[b][i][1]
           k == dest[b][i][2]
           y == [block[id][k] EXCEPT !.data = v]
<1>1. /\ call = Idle /\ ~corrupt /\ corrupt' = (id \in freed)
      /\ UNCHANGED <<batch, freed, dest, regs, batchfd, call, ret, misused>>
      /\ dest[b][i] # << >>
      /\ block' = [block EXCEPT ![id][k] = y]
  BY DEF Store, Ready
<1>2. id \in DOMAIN block /\ k \in 1 .. Len(block[id])
  BY <1>1 DEF IInv, BaseInv, Pointers
<1>3. y \in Op /\ y.isrdmsr = block[id][k].isrdmsr
  <2>1. block[id][k] \in Op
    BY <1>0, <1>2, BlockFacts
  <2>2. QED
    BY <2>1 DEF Op
<1> HIDE DEF id, k, y
<1>4. BlocksOK' /\ DOMAIN block' = DOMAIN block
  BY <1>0, <1>1, <1>2, <1>3, SetOp
<1>5. \A j \in DOMAIN block : Len(block'[j]) = Len(block[j])
  BY <1>0, <1>1, <1>2, <1>3, SetOp
<1>6. \A j \in DOMAIN block : \A m \in 1 .. Len(block[j]) :
         block'[j][m] = IF j = id /\ m = k THEN y ELSE block[j][m]
  BY <1>0, <1>1, <1>2, <1>3, SetOp
<1>7. \A c \in Batch : At(c)' = At(c)
  BY <1>1 DEF At
<1>8. TypeOK'
  BY <1>0, <1>1, <1>4 DEF TypeOK, BlocksOK
<1>9. BaseInv'
  <2>1. Sizes' /\ Pointers'
    BY <1>1, <1>4, <1>5, <1>7 DEF Sizes, Pointers, IInv, BaseInv
  <2>2. InCall'
    BY <1>1 DEF InCall, IInv, BaseInv
  <2>3. QED
    BY <1>8, <2>1, <2>2 DEF BaseInv
<1>10. ASSUME ~misused'
       PROVE  Proper'
  <2>1. Proper /\ BaseInv
    BY <1>1, <1>10 DEF IInv
  <2>2. id = At(b).ops /\ k = i /\ i <= At(b).numops
    <3>1. dest[b][i] = IF i <= At(b).numops THEN <<At(b).ops, i>> ELSE << >>
      BY <2>1 DEF Proper, Handed
    <3>2. i <= At(b).numops /\ dest[b][i] = <<At(b).ops, i>>
      BY <1>1, <3>1
    <3>3. QED
      BY <3>2 DEF id, k
  <2>3. SameShape
    BY <1>4, <1>5 DEF SameShape
  <2>4. \A j \in DOMAIN block : \A m \in 1 .. Len(block[j]) :
           block'[j][m].isrdmsr = block[j][m].isrdmsr
    BY <1>3, <1>6
  <2>5. ASSUME NEW c \in Batch, At(c).ops # Null,
               NEW m \in At(c).numops + 1 .. Len(block[At(c).ops])
        PROVE  block'[At(c).ops][m].data = block[At(c).ops][m].data
    <3>1. At(c).ops \in DOMAIN block /\ m \in 1 .. Len(block[At(c).ops])
      BY <1>0, <2>1, <2>5, CreatedInBlock DEF Proper
    <3>2. ~(At(c).ops = id /\ m = k)
      <4>1. At(c).ops = id => c = b
        BY <2>1, <2>2, <2>5 DEF Proper, OwnBlocks
      <4>2. c = b => m # k
        BY <1>0, <2>2, Bounds
      <4>3. QED
        BY <4>1, <4>2
    <3>3. QED
      BY <1>6, <3>1, <3>2
  <2>6. Counted' /\ OwnBlocks' /\ Untouched' /\ OneFlag' /\ Handed'
    BY <1>1, <1>7, <2>1, <2>3, <2>4, <2>5, DataOnly
  <2>7. freed' = {} /\ ~corrupt' /\ CallFlag'
    BY <1>1, <2>1 DEF Proper, CallFlag
  <2>8. QED
    BY <2>6, <2>7 DEF Proper
<1>11. ASSUME ~misused'
       PROVE  Promise!Store(b, i, v) /\ UNCHANGED misused
  <2>1. BaseInv /\ Proper /\ Proper'
    BY <1>1, <1>10, <1>11 DEF IInv
  <2>2. id = At(b).ops /\ k = i /\ i <= At(b).numops
    <3>1. dest[b][i] = IF i <= At(b).numops THEN <<At(b).ops, i>> ELSE << >>
      BY <2>1 DEF Proper, Handed
    <3>2. i <= At(b).numops /\ dest[b][i] = <<At(b).ops, i>>
      BY <1>1, <3>1
    <3>3. QED
      BY <3>2 DEF id, k
  <2>3. y.data = v /\ y.reg = block[id][k].reg
    <3>1. block[id][k] \in Op
      BY <1>0, <1>2, BlockFacts
    <3>2. QED
      BY <3>1 DEF Op, y
  <2>4. ASSUME NEW c \in Batch, NEW m \in Index, m <= At(c).numops
        PROVE  block'[At(c).ops][m] = IF c = b /\ m = i THEN y ELSE block[At(c).ops][m]
    <3>1. At(c).ops # Null
      BY <1>0, <2>1, <2>4, Bounds DEF Proper, Counted
    <3>2. At(c).ops \in DOMAIN block /\ m \in 1 .. Len(block[At(c).ops])
      BY <2>1, <2>4, <3>1, CreatedInBlock, Bounds DEF Proper
    <3>3. At(c).ops = id <=> c = b
      BY <2>1, <2>2, <3>1 DEF Proper, OwnBlocks
    <3>4. QED
      BY <1>6, <2>2, <3>2, <3>3
  <2>5. Targets' = Targets
    <3>1. \A c \in Batch : \A m \in Index : m <= At(c).numops =>
             block'[At(c)'.ops][m].reg = block[At(c).ops][m].reg
      BY <1>7, <2>2, <2>3, <2>4
    <3>2. \A c \in Batch : At(c)'.numops = At(c).numops
      BY <1>7
    <3>3. QED
      BY <2>1, <3>1, <3>2, SameWords DEF Proper
  <2>6. OneChanged(Words, Words', b, i, v)
    <3>1. ASSUME NEW c \in Batch, NEW m \in Index
          PROVE  Words'[c][m] = IF c = b /\ m = i THEN v ELSE Words[c][m]
      <4>1. Words[c][m] = IF m <= At(c).numops THEN block[At(c).ops][m].data ELSE 0
        BY <2>1, WordsHere DEF Proper
      <4>2. Words'[c][m] = IF m <= At(c).numops THEN block'[At(c).ops][m].data ELSE 0
        BY <1>7, <2>1, WordsThere DEF Proper
      <4>3. QED
        BY <2>2, <2>3, <2>4, <4>1, <4>2
    <3>2. QED
      BY <3>1, Tables, OneCell
  <2>7. Running = Promise!Idle /\ Running' = Running
    BY <1>1 DEF Running, Promise!Idle
  <2>8. i \in Promise!Created(b)
    BY <1>0, <2>1, <2>2, CreatedAre, Bounds
  <2>9. QED
    BY <1>1, <2>5, <2>6, <2>7, <2>8 DEF Promise!Store, OneChanged
<1>12. QED
  BY <1>9, <1>10, <1>11 DEF IInv, Promised, Promise!Next

LEMMA Switched ==
    ASSUME NEW ops \in Seq(Op), NEW n \in 1 .. Len(ops), NEW t
    PROVE  /\ SwitchFlags(ops, n, t) \in Seq(Op) /\ Len(SwitchFlags(ops, n, t)) = Len(ops)
           /\ \A i \in 1 .. Len(ops) :
                 /\ SwitchFlags(ops, n, t)[i].data = ops[i].data
                 /\ SwitchFlags(ops, n, t)[i].reg = ops[i].reg
           /\ \A i \in 1 .. n :
                 SwitchFlags(ops, n, t)[i].isrdmsr =
                    IF ops[1].isrdmsr = (t = "read") THEN ops[i].isrdmsr ELSE (t = "read")
<1> DEFINE f == (t = "read")
<1>1. f \in BOOLEAN
  OBVIOUS
<1>2. SwitchFlags(ops, n, t) = IF ops[1].isrdmsr = f THEN ops
         ELSE [i \in DOMAIN ops |-> IF i <= n THEN [ops[i] EXCEPT !.isrdmsr = f] ELSE ops[i]]
  BY DEF SwitchFlags
<1> HIDE DEF f
<1>3. DOMAIN ops = 1 .. Len(ops) /\ Len(ops) \in Nat /\ \A i \in 1 .. Len(ops) : ops[i] \in Op
  OBVIOUS
<1>4. CASE ops[1].isrdmsr = f
  BY <1>2, <1>3, <1>4 DEF f
<1>5. CASE ops[1].isrdmsr # f
  <2> DEFINE g(i) == [ops[i] EXCEPT !.isrdmsr = f]
  <2>1. \A i \in 1 .. Len(ops) : /\ g(i) \in Op /\ g(i).isrdmsr = f
                               /\ g(i).data = ops[i].data /\ g(i).reg = ops[i].reg
    BY <1>1, <1>3 DEF Op
  <2>2. SwitchFlags(ops, n, t) = [i \in 1 .. Len(ops) |-> IF i <= n THEN g(i) ELSE ops[i]]
    BY <1>2, <1>3, <1>5
  <2> HIDE DEF g
  <2>3. /\ SwitchFlags(ops, n, t) \in Seq(Op)
        /\ Len(SwitchFlags(ops, n, t)) = Len(ops)
    BY <1>3, <2>1, <2>2
  <2>4. \A i \in 1 .. Len(ops) : SwitchFlags(ops, n, t)[i] = IF i <= n THEN g(i) ELSE ops[i]
    BY <2>2
  <2>5. \A i \in 1 .. n : i \in 1 .. Len(ops) /\ i <= n
    BY <1>3
  <2>6. QED
    BY <1>3, <1>5, <2>1, <2>3, <2>4, <2>5 DEF f
<1>6. QED
  BY <1>4, <1>5
LEMMA StartInv ==
    ASSUME IInv, NEW t \in {"read", "write"}, NEW b \in Batch, StartBatchOp(t, b)
    PROVE  IInv' /\ Promised
<1>0. /\ TypeOK /\ BlocksOK
      /\ \A c \in Batch : /\ At(c) \in BatchRecord
                        /\ At(c).numops \in 0 .. MaxOps /\ At(c).size \in 0 .. MaxOps
                        /\ At(c).ops \in Nat
  BY Facts DEF IInv
<1> DEFINE n == At(b).numops
           id == At(b).ops
<1>1. /\ batch' \in UNION {[0 .. k - 1 -> BatchRecord] : k \in 0 .. NumBatches}
      /\ \A c \in Batch : At(c)' = At(c)
      /\ batch'[b].numops = n /\ batch'[b].ops = id
  <2>1. batch' = Storage(b)
    BY DEF StartBatchOp
  <2>2. QED
    BY <1>0, <2>1, KeepBatch, InStorage
<1>2. /\ call = Idle /\ ~corrupt /\ batchfd' \in {"driver", "none"}
      /\ batchfd # "unopened" => batchfd' = batchfd
      /\ UNCHANGED <<freed, dest, regs, misused>>
  BY <1>0 DEF StartBatchOp, Ready, TypeOK
<1>3. n \in 0 .. MaxOps
  BY <1>0
<1> HIDE DEF n, id
<1>4. CASE n = 0
  <2>1. /\ ret' = [rc |-> IF batchfd' = "driver" THEN -1 ELSE 0, type |-> t, failed |-> FALSE]
        /\ UNCHANGED <<block, call, corrupt>>
    BY <1>1, <1>4 DEF StartBatchOp
  <2>2. ret' \in [rc : {0, -1}, type : {"none", "read", "write", "free"}, failed : BOOLEAN]
    <3>1. \A rc \in {0, -1} : [rc |-> rc, type |-> t, failed |-> FALSE] \in
            [rc : {0, -1}, type : {"none", "read", "write", "free"}, failed : BOOLEAN]
      OBVIOUS
    <3>2. QED
      BY <2>1, <3>1
  <2>3. TypeOK'
    BY <1>0, <1>1, <1>2, <2>1, <2>2 DEF TypeOK
  <2>4. Sizes' /\ Pointers'
    BY <1>1, <1>2, <2>1 DEF IInv, BaseInv, Sizes, Pointers
  <2>5. InCall'
    BY <1>2, <2>1 DEF IInv, BaseInv, InCall, Idle
  <2>6. Proper => Proper'
    BY <1>1, <1>2, <2>1 DEF Proper, Counted, OwnBlocks, Handed, Untouched, OneFlag, CallFlag
  <2>7. IInv'
    BY <1>2, <2>3, <2>4, <2>5, <2>6 DEF IInv, BaseInv
  <2>8. ASSUME ~misused'
        PROVE  UNCHANGED Promise!vars
    <3>1. Proper /\ Proper'
      BY <1>2, <2>7, <2>8 DEF IInv
    <3>2. Words' = Words /\ Targets' = Targets
      BY <1>1, <2>1, <3>1, SameWords DEF Proper
    <3>3. Running' = Running
      BY <1>2, <2>1 DEF Running
    <3>4. QED
      BY <1>2, <3>2, <3>3 DEF Promise!vars
  <2>9. QED
    BY <2>7, <2>8 DEF Promised
<1>5. CASE n # 0
  <2>1. /\ corrupt' = (id \in freed \cup {Null} \/ n > Len(block[id]))
        /\ call' = IF corrupt' THEN Idle ELSE [type |-> t, b |-> b, k |-> 1, failed |-> FALSE]
        /\ block' = IF corrupt' \/ batchfd' = "none" THEN block
                    ELSE [block EXCEPT ![id] = SwitchFlags(@, n, t)]
        /\ UNCHANGED ret
    BY <1>1, <1>5 DEF StartBatchOp
  <2>a. corrupt' <=> id = Null \/ id \in freed \/ n > Len(block[id])
    BY <2>1
  <2>3. CASE corrupt'
    <3>1. UNCHANGED <<block, call>>
      BY <1>2, <2>1, <2>3
    <3>2. TypeOK'
      BY <1>0, <1>1, <1>2, <2>1, <2>3, <3>1 DEF TypeOK
    <3>3. Sizes' /\ Pointers' /\ InCall'
      BY <1>1, <1>2, <3>1 DEF IInv, BaseInv, Sizes, Pointers, InCall
    <3>4. misused
      <4> SUFFICES ASSUME ~misused PROVE FALSE
        OBVIOUS
      <4>1. Proper /\ BaseInv
        BY DEF IInv
      <4>2. id # Null /\ id \notin freed
        BY <1>5, <4>1 DEF Proper, Counted, n, id
      <4>3. n <= Len(block[id]) /\ Len(block[id]) \in Nat
        BY <4>1, <4>2, CreatedInBlock DEF Proper, n, id
      <4>4. QED
        BY <1>3, <2>a, <2>3, <4>2, <4>3
    <3>5. QED
      BY <1>2, <3>2, <3>3, <3>4 DEF IInv, BaseInv, Promised
  <2>4. CASE ~corrupt'
    <3>1. /\ id # Null /\ id \in DOMAIN block /\ Len(block[id]) \in Nat
          /\ n \in 1 .. Len(block[id]) /\ block[id] \in Seq(Op)
      <4>1. id # Null /\ id \in DOMAIN block
        BY <2>a, <2>4 DEF IInv, BaseInv, Sizes, id
      <4>2. Len(block[id]) \in Nat /\ block[id] \in Seq(Op)
        BY <1>0, <4>1, BlockFacts, Bounds
      <4>3. QED
        BY <1>3, <1>5, <2>a, <2>4, <4>1, <4>2
    <3> DEFINE y == IF batchfd' = "none" THEN block[id] ELSE SwitchFlags(block[id], n, t)
    <3>2. block' = [block EXCEPT ![id] = y]
      <4>1. CASE batchfd' = "none"
        <5>1. block \in [1 .. Len(block) -> Seq(Op)]
          BY <1>0 DEF BlocksOK
        <5>2. [block EXCEPT ![id] = block[id]] = block
          BY <3>1, <5>1
        <5>3. QED
          BY <2>1, <4>1, <5>2
      <4>2. CASE batchfd' # "none"
        BY <2>1, <2>4, <4>2
      <4>3. QED
        BY <4>1, <4>2
    <3>3. y \in Seq(Op) /\ Len(y) = Len(block[id])
      BY <3>1, Switched
    <3>4. \A i \in 1 .. Len(block[id]) : y[i].data = block[id][i].data
      BY <3>1, Switched
    <3>45. \A i \in 1 .. Len(block[id]) : y[i].reg = block[id][i].reg
      BY <3>1, Switched
    <3>5. \A i \in 1 .. n :
             y[i].isrdmsr = IF batchfd' = "none" \/ block[id][1].isrdmsr = (t = "read")
                            THEN block[id][i].isrdmsr ELSE (t = "read")
      BY <3>1, Switched
    <3> HIDE DEF y
    <3>6. BlocksOK' /\ DOMAIN block' = DOMAIN block
      BY <1>0, <3>1, <3>2, <3>3, SetBlock
    <3>7. \A j \in DOMAIN block : block'[j] = IF j = id THEN y ELSE block[j]
      BY <1>0, <3>1, <3>2, <3>3, SetBlock
    <3>8. \A j \in DOMAIN block : Len(block'[j]) = Len(block[j])
      BY <1>0, <3>1, <3>2, <3>3, SetBlock
    <3>9. /\ call' = [type |-> t, b |-> b, k |-> 1, failed |-> FALSE]
          /\ call' \in [type : {"none", "read", "write"}, b : Batch, k : 0 .. MaxOps,
                        failed : BOOLEAN]
          /\ call'.type = t /\ call'.b = b /\ call'.k = 1
      BY <2>1, <2>4, Bounds
    <3>10. TypeOK'
      BY <1>0, <1>1, <1>2, <2>1, <2>4, <3>6, <3>9 DEF TypeOK, BlocksOK
    <3>11. Sizes' /\ Pointers'
      BY <1>1, <1>2, <3>6, <3>8 DEF IInv, BaseInv, Sizes, Pointers
    <3>12. InCall'
      BY <1>1, <1>2, <2>4, <3>1, <3>6, <3>8, <3>9 DEF InCall, n, id
    <3>13. ASSUME ~misused
           PROVE  Proper'
      <4>1. Proper /\ BaseInv
        BY <3>13 DEF IInv
      <4>2. SameShape
        BY <3>6, <3>8 DEF SameShape
      <4>3. OneFlag' /\ CallFlag'
        <5>1. \A i \in 1 .. n : block[id][i].isrdmsr = block[id][1].isrdmsr
          BY <3>1, <4>1 DEF Proper, OneFlag, n, id
        <5>2. 1 \in 1 .. n
          BY <3>1
        <5>3. \A i \in 1 .. n : y[i].isrdmsr = y[1].isrdmsr
          BY <3>5, <5>1, <5>2
        <5>4. batchfd' = "driver" => \A i \in 1 .. n : y[i].isrdmsr = (t = "read")
          BY <3>5, <5>1
        <5>5. ASSUME NEW c \in Batch, At(c).ops # Null, NEW i \in 1 .. At(c).numops
              PROVE  block'[At(c).ops][i].isrdmsr = block'[At(c).ops][1].isrdmsr
          <6>1. CASE At(c).ops = id
            <7>1. c = b
              BY <3>1, <4>1, <6>1 DEF Proper, OwnBlocks, id
            <7>2. QED
              BY <3>1, <3>7, <5>3, <6>1, <7>1 DEF n
          <6>2. CASE At(c).ops # id
            <7>1. At(c).ops \in DOMAIN block
              BY <4>1, <5>5, CreatedInBlock DEF Proper
            <7>2. block'[At(c).ops] = block[At(c).ops]
              BY <3>7, <6>2, <7>1
            <7>3. QED
              BY <4>1, <5>5, <7>2 DEF Proper, OneFlag
          <6>3. QED
            BY <6>1, <6>2
        <5>6. OneFlag'
          BY <1>1, <5>5 DEF OneFlag
        <5>7. CallFlag'
          BY <1>1, <3>1, <3>7, <3>9, <5>4 DEF CallFlag, n, id
        <5>8. QED
          BY <5>6, <5>7
      <4>4. Counted' /\ OwnBlocks' /\ Handed'
        BY <1>1, <1>2, <4>1 DEF Proper, Counted, OwnBlocks, Handed
      <4>5. Untouched'
        <5> SUFFICES ASSUME NEW c \in Batch, At(c).ops # Null,
                            NEW i \in At(c).numops + 1 .. Len(block'[At(c).ops])
                     PROVE  block'[At(c).ops][i].data = 0
          BY <1>1 DEF Untouched
        <5>1. /\ At(c).ops \in DOMAIN block /\ i \in At(c).numops + 1 .. Len(block[At(c).ops])
              /\ i \in 1 .. Len(block[At(c).ops])
          BY <1>0, <3>8, <4>1, CreatedInBlock DEF Proper
        <5>2. block[At(c).ops][i].data = 0
          BY <4>1, <5>1 DEF Proper, Untouched
        <5>3. block'[At(c).ops][i].data = block[At(c).ops][i].data
          <6>1. CASE At(c).ops = id
            <7>1. block'[id] = y /\ i \in 1 .. Len(block[id])
              BY <3>7, <5>1, <6>1
            <7>2. y[i].data = block[id][i].data
              BY <3>4, <7>1
            <7>3. QED
              BY <6>1, <7>1, <7>2
          <6>2. CASE At(c).ops # id
            BY <3>7, <5>1, <6>2
          <6>3. QED
            BY <6>1, <6>2
        <5>4. QED
          BY <5>2, <5>3
      <4>6. QED
        BY <1>2, <2>4, <4>1, <4>3, <4>4, <4>5 DEF Proper
    <3>14. IInv'
      BY <1>2, <3>10, <3>11, <3>12, <3>13 DEF IInv, BaseInv
    <3>15. ASSUME ~misused'
           PROVE  Promise!Start(t, b) /\ UNCHANGED misused
      <4>1. BaseInv /\ Proper /\ Proper'
        BY <1>2, <3>14, <3>15 DEF IInv
      <4>2. ASSUME NEW c \in Batch, NEW i \in Index, i <= At(c).numops
            PROVE  /\ block'[At(c).ops][i].data = block[At(c).ops][i].data
                   /\ block'[At(c).ops][i].reg = block[At(c).ops][i].reg
        <5>1. At(c).ops # Null
          BY <1>0, <4>1, <4>2, Bounds DEF Proper, Counted
        <5>2. At(c).ops \in DOMAIN block /\ i \in 1 .. Len(block[At(c).ops])
          BY <4>1, <4>2, <5>1, CreatedInBlock, Bounds DEF Proper
        <5>3. block'[At(c).ops] = IF At(c).ops = id THEN y ELSE block[At(c).ops]
          BY <3>7, <5>2
        <5>4. QED
          BY <3>4, <3>45, <5>2, <5>3
      <4>3. Words' = Words /\ Targets' = Targets
        <5>1. \A c \in Batch : At(c)'.numops = At(c).numops /\ At(c)'.ops = At(c).ops
          BY <1>1
        <5>2. QED
          BY <4>1, <4>2, <5>1, SameWords DEF Proper
      <4>4. Running = Promise!Idle
        BY <1>2 DEF Running, Promise!Idle
      <4>5. Promise!Created(b) = 1 .. n /\ Promise!Created(b) # {}
        <5>1. Promise!Created(b) = 1 .. n
          BY <4>1, CreatedAre DEF n
        <5>2. QED
          BY <1>3, <1>5, <5>1
      <4>6. Running' = [type |-> t, batch |-> b, todo |-> 1 .. n]
        <5>1. call' # Idle
          BY <3>9 DEF Idle
        <5>2. Running' = [type |-> call'.type, batch |-> call'.b,
                          todo |-> call'.k .. batch'[call'.b].numops]
          BY <5>1 DEF Running
        <5>3. QED
          BY <1>1, <3>9, <5>2
      <4>7. QED
        BY <1>2, <4>3, <4>4, <4>5, <4>6 DEF Promise!Start
    <3>16. QED
      BY <3>14, <3>15 DEF Promised, Promise!Next
  <2>5. QED
    BY <2>3, <2>4
<1>6. QED
  BY <1>4, <1>5
\* The batch of the running call, and its next operation.
LEMMA CallBatch ==
    ASSUME BaseInv, call # Idle
    PROVE  /\ call.b \in Batch /\ call.b \in DOMAIN batch /\ batch[call.b] = At(call.b)
           /\ At(call.b).ops \in DOMAIN block /\ At(call.b).ops # Null
           /\ call.k \in 1 .. At(call.b).numops /\ At(call.b).numops \in 1 .. MaxOps
           /\ call.k \in 1 .. Len(block[At(call.b).ops])
           /\ block[At(call.b).ops][call.k] \in Op
<1>1. /\ call.b \in Batch /\ At(call.b).ops \in DOMAIN block
      /\ call.k \in 1 .. At(call.b).numops
      /\ At(call.b).numops <= Len(block[At(call.b).ops])
  BY DEF BaseInv, TypeOK, InCall
<1>2. At(call.b).numops \in 1 .. MaxOps
  BY <1>1, Facts
<1>3. call.b \in DOMAIN batch /\ batch[call.b] = At(call.b)
  BY <1>2 DEF At, EmptyBatch
<1>4. Len(block[At(call.b).ops]) \in Nat /\ At(call.b).ops # Null
  BY <1>1, Facts, BlockFacts, Bounds
<1>5. call.k \in 1 .. Len(block[At(call.b).ops])
  BY <1>1, <1>2, <1>4
<1>6. QED
  BY <1>1, <1>2, <1>3, <1>4, <1>5, Facts, BlockFacts

\* What one operation does to the blocks, in the terms of its data word.
LEMMA ExecuteEffect ==
    ASSUME BaseInv, ExecuteOp
    PROVE  LET id == At(call.b).ops
               op == block[id][call.k]
           IN  \E w \in Op :
                 /\ block' = [block EXCEPT ![id][call.k] = w]
                 /\ w.isrdmsr = op.isrdmsr /\ w.reg = op.reg
                 /\ \/ UNCHANGED regs /\ w.data = op.data
                    \/ UNCHANGED regs /\ w.data = regs[op.reg] /\ Reads(op)
                    \/ /\ regs' = [regs EXCEPT ![op.reg] = op.data] /\ w.data = op.data
                       /\ ~Reads(op)
<1> DEFINE id == At(call.b).ops
           op == block[id][call.k]
           w == [op EXCEPT !.data = regs[op.reg]]
<1>1. call # Idle /\ batch[call.b] = At(call.b) /\ op \in Op
  BY CallBatch DEF ExecuteOp
<1>2. \/ /\ block' = [block EXCEPT ![id][call.k].data = regs[op.reg]]
         /\ UNCHANGED regs /\ Reads(op)
      \/ /\ regs' = [regs EXCEPT ![op.reg] = op.data]
         /\ UNCHANGED block /\ ~Reads(op)
      \/ UNCHANGED <<block, regs>>
  BY <1>1 DEF ExecuteOp
<1>3. [block EXCEPT ![id][call.k] = op] = block
  <2>1. /\ block \in [1 .. Len(block) -> Seq(Op)] /\ id \in 1 .. Len(block)
        /\ block[id] \in [1 .. Len(block[id]) -> Op] /\ call.k \in 1 .. Len(block[id])
    BY <1>1, CallBatch, Facts, BlockFacts DEF BlocksOK
  <2>2. [block[id] EXCEPT ![call.k] = op] = block[id]
    BY <2>1
  <2>3. [block EXCEPT ![id] = block[id]] = block
    BY <2>1
  <2>4. QED
    BY <2>2, <2>3
<1>4. CASE UNCHANGED block
  BY <1>1, <1>2, <1>3, <1>4 DEF Op
<1>5. CASE ~UNCHANGED block
  <2>1. UNCHANGED regs /\ Reads(op) /\ block' = [block EXCEPT ![id][call.k] = w]
    BY <1>2, <1>5
  <2>2. regs[op.reg] \in Value
    BY <1>1, Facts DEF TypeOK, Op
  <2>3. w \in Op /\ w.isrdmsr = op.isrdmsr /\ w.reg = op.reg /\ w.data = regs[op.reg]
    BY <1>1, <2>2 DEF Op
  <2> HIDE DEF w
  <2>4. QED
    BY <2>1, <2>3
<1>6. QED
  BY <1>4, <1>5

TodoLess(R, t, b, S, k) ==
    [R EXCEPT !.todo = R.todo \ {k}] = [type |-> t, batch |-> b, todo |-> S \ {k}]

LEMMA OneDone ==
    ASSUME NEW R, NEW t, NEW b, NEW S, R = [type |-> t, batch |-> b, todo |-> S], NEW k
    PROVE  TodoLess(R, t, b, S, k)
BY DEF TodoLess

LEMMA ExecuteInv ==
    ASSUME IInv, ExecuteOp
    PROVE  IInv' /\ Promised
<1>0. /\ TypeOK /\ BlocksOK
      /\ \A c \in Batch : /\ At(c) \in BatchRecord
                        /\ At(c).numops \in 0 .. MaxOps /\ At(c).size \in 0 .. MaxOps
                        /\ At(c).ops \in Nat
  BY Facts DEF IInv
<1> DEFINE id == At(call.b).ops
           k == call.k
           n == At(call.b).numops
           op == block[id][k]
<1>1. /\ call # Idle /\ BaseInv
      /\ UNCHANGED <<batch, freed, dest, batchfd, corrupt, misused>>
  BY DEF ExecuteOp, IInv
<1>2. /\ call.b \in Batch /\ batch[call.b] = At(call.b) /\ id \in DOMAIN block /\ id # Null
      /\ k \in 1 .. n /\ n \in 1 .. MaxOps /\ k \in 1 .. Len(block[id])
      /\ block[id][k] \in Op
  BY <1>1, CallBatch
<1>3. PICK w \in Op : /\ block' = [block EXCEPT ![id][k] = w]
                      /\ w.isrdmsr = op.isrdmsr /\ w.reg = op.reg
                      /\ \/ UNCHANGED regs /\ w.data = op.data
                         \/ UNCHANGED regs /\ w.data = regs[op.reg] /\ Reads(op)
                         \/ /\ regs' = [regs EXCEPT ![op.reg] = op.data] /\ w.data = op.data
                            /\ ~Reads(op)
  BY <1>1, ExecuteEffect
<1>4. \E failed \in BOOLEAN :
         IF k = n
         THEN /\ call' = Idle
              /\ ret' = [rc |-> BatchResult(failed), type |-> call.type, failed |-> failed]
         ELSE /\ call' = [call EXCEPT !.k = k + 1, !.failed = failed]
              /\ UNCHANGED ret
  <2>1. \A ok \in BOOLEAN : (call.failed \/ ~ok) \in BOOLEAN
    OBVIOUS
  <2>2. QED
    BY <1>2, <2>1 DEF ExecuteOp
<1> HIDE DEF id, k, n, op
<1>5. BlocksOK' /\ DOMAIN block' = DOMAIN block
  BY <1>0, <1>2, <1>3, SetOp
<1>6. \A j \in DOMAIN block : Len(block'[j]) = Len(block[j])
  BY <1>0, <1>2, <1>3, SetOp
<1>7. \A j \in DOMAIN block : \A i \in 1 .. Len(block[j]) :
         block'[j][i] = IF j = id /\ i = k THEN w ELSE block[j][i]
  BY <1>0, <1>2, <1>3, SetOp
<1>8. \A c \in Batch : At(c)' = At(c)
  BY <1>1 DEF At
<1>9. regs' \in [Register -> Value]
  BY <1>0, <1>2, <1>3 DEF TypeOK, Op
<1>10. /\ call.type \in {"read", "write"} /\ call.failed \in BOOLEAN /\ ~corrupt
       /\ call \in [type : {"none", "read", "write"}, b : Batch, k : 0 .. MaxOps,
                    failed : BOOLEAN]
       /\ batchfd # "unopened"
  BY <1>0, <1>1 DEF BaseInv, InCall, TypeOK
<1>11. ASSUME k = n PROVE BaseInv'
  <2>1. PICK failed \in BOOLEAN :
          /\ call' = Idle
          /\ ret' = [rc |-> BatchResult(failed), type |-> call.type, failed |-> failed]
    BY <1>4, <1>11
  <2>2. BatchResult(failed) \in {0, -1}
    BY DEF BatchResult
  <2>3. ret' \in [rc : {0, -1}, type : {"none", "read", "write", "free"}, failed : BOOLEAN]
    BY <1>10, <2>1, <2>2
  <2>4. Idle \in [type : {"none", "read", "write"}, b : Batch, k : 0 .. MaxOps,
                  failed : BOOLEAN]
    BY Bounds DEF Idle
  <2>5. TypeOK'
    BY <1>0, <1>1, <1>5, <1>9, <2>1, <2>3, <2>4 DEF TypeOK, BlocksOK
  <2>6. Sizes' /\ Pointers'
    BY <1>1, <1>5, <1>6, <1>8 DEF BaseInv, Sizes, Pointers
  <2>7. InCall' /\ CallFlag'
    BY <1>1, <1>10, <2>1 DEF InCall, CallFlag
  <2>8. QED
    BY <2>5, <2>6, <2>7 DEF BaseInv
<1>12. ASSUME k # n PROVE BaseInv'
  <2>1. PICK failed \in BOOLEAN :
          call' = [call EXCEPT !.k = k + 1, !.failed = failed] /\ UNCHANGED ret
    BY <1>4, <1>12
  <2>2. k + 1 \in 1 .. n /\ k + 1 \in 0 .. MaxOps
    BY <1>2, <1>12, Bounds
  <2>3. /\ call' \in [type : {"none", "read", "write"}, b : Batch, k : 0 .. MaxOps,
                      failed : BOOLEAN]
        /\ call'.type = call.type /\ call'.b = call.b /\ call'.k = k + 1
    BY <1>10, <2>1, <2>2
  <2>4. TypeOK'
    BY <1>0, <1>1, <1>5, <1>9, <2>1, <2>3 DEF TypeOK, BlocksOK
  <2>5. Sizes' /\ Pointers'
    BY <1>1, <1>5, <1>6, <1>8 DEF BaseInv, Sizes, Pointers
  <2>6. InCall'
    BY <1>1, <1>2, <1>5, <1>6, <1>8, <1>10, <2>2, <2>3 DEF BaseInv, InCall, id, n
  <2>7. QED
    BY <2>4, <2>5, <2>6 DEF BaseInv
<1>13. ASSUME ~misused'
       PROVE  Proper'
  <2>1. Proper
    BY <1>1, <1>13 DEF IInv
  <2>2. SameShape
    BY <1>5, <1>6 DEF SameShape
  <2>3. \A j \in DOMAIN block : \A i \in 1 .. Len(block[j]) :
           block'[j][i].isrdmsr = block[j][i].isrdmsr
    BY <1>3, <1>7 DEF op
  <2>4. ASSUME NEW c \in Batch, At(c).ops # Null,
               NEW m \in At(c).numops + 1 .. Len(block[At(c).ops])
        PROVE  block'[At(c).ops][m].data = block[At(c).ops][m].data
    <3>1. At(c).ops \in DOMAIN block /\ m \in 1 .. Len(block[At(c).ops])
      BY <1>0, <1>1, <2>1, <2>4, CreatedInBlock DEF Proper
    <3>2. ~(At(c).ops = id /\ m = k)
      <4>1. At(c).ops = id => c = call.b
        BY <1>2, <2>1, <2>4 DEF Proper, OwnBlocks, id
      <4>2. c = call.b => m # k
        BY <1>0, <1>2 DEF n
      <4>3. QED
        BY <4>1, <4>2
    <3>3. QED
      BY <1>7, <3>1, <3>2
  <2>5. Counted' /\ OwnBlocks' /\ Untouched' /\ OneFlag' /\ Handed'
    BY <1>1, <1>8, <2>1, <2>2, <2>3, <2>4, DataOnly
  <2>6. CallFlag'
    <3>1. CASE k = n
      BY <1>4, <3>1 DEF CallFlag
    <3>2. CASE k # n
      <4>1. call'.type = call.type /\ call'.b = call.b
        BY <1>4, <1>10, <3>2
      <4>2. \A i \in 1 .. n : block'[id][i].isrdmsr = block[id][i].isrdmsr
        BY <1>1, <1>2, <2>1, <2>3, CreatedInBlock DEF Proper, id, n
      <4>3. QED
        BY <1>1, <1>2, <1>8, <2>1, <4>1, <4>2 DEF CallFlag, Proper, id, n
    <3>3. QED
      BY <3>1, <3>2
  <2>7. QED
    BY <1>1, <2>1, <2>5, <2>6 DEF Proper
<1>14. IInv'
  BY <1>11, <1>12, <1>13 DEF IInv
<1>15. ASSUME ~misused'
       PROVE  Promise!Execute(k) /\ UNCHANGED misused
  <2>1. Proper /\ Proper' /\ k \in Index
    <3>1. Proper /\ Proper'
      BY <1>1, <1>14, <1>15 DEF IInv
    <3>2. k \in Index
      BY <1>2, Bounds
    <3>3. QED
      BY <3>1, <3>2
  <2>2. ASSUME NEW c \in Batch, NEW m \in Index, m <= At(c).numops
        PROVE  block'[At(c).ops][m] = IF c = call.b /\ m = k THEN w
                                      ELSE block[At(c).ops][m]
    <3>1. At(c).ops # Null
      BY <1>0, <2>1, <2>2, Bounds DEF Proper, Counted
    <3>2. At(c).ops \in DOMAIN block /\ m \in 1 .. Len(block[At(c).ops])
      BY <1>1, <2>1, <2>2, <3>1, CreatedInBlock, Bounds DEF Proper
    <3>3. At(c).ops = id <=> c = call.b
      BY <1>2, <2>1, <3>1 DEF Proper, OwnBlocks, id
    <3>4. QED
      BY <1>7, <3>2, <3>3
  <2>3. Words[call.b][k] = op.data /\ Targets[call.b][k] = op.reg
    BY <1>2, <2>1, WordsHere DEF Proper, id, n, op
  <2>4. Targets' = Targets
    <3>1. \A c \in Batch : \A m \in Index : m <= At(c).numops =>
             block'[At(c)'.ops][m].reg = block[At(c).ops][m].reg
      BY <1>3, <1>8, <2>2 DEF op, id
    <3>2. \A c \in Batch : At(c)'.numops = At(c).numops
      BY <1>8
    <3>3. QED
      BY <2>1, <3>1, <3>2, SameWords DEF Proper
  <2>5. \A c \in Batch, m \in Index :
           Words'[c][m] = IF c = call.b /\ m = k THEN w.data ELSE Words[c][m]
    <3> SUFFICES ASSUME NEW c \in Batch, NEW m \in Index
                 PROVE  Words'[c][m] = IF c = call.b /\ m = k THEN w.data ELSE Words[c][m]
      OBVIOUS
    <3>1. Words[c][m] = IF m <= At(c).numops THEN block[At(c).ops][m].data ELSE 0
      BY <2>1, WordsHere DEF Proper
    <3>2. Words'[c][m] = IF m <= At(c).numops THEN block'[At(c).ops][m].data ELSE 0
      BY <1>8, <2>1, WordsThere DEF Proper
    <3>3. k <= n
      BY <1>2
    <3>4. QED
      BY <2>2, <3>1, <3>2, <3>3 DEF n
  <2>6. Reads(op) <=> call.type = "read"
    BY <1>1, <1>2, <2>1 DEF Proper, CallFlag, Reads, op, id, n
  <2>7. \/ call.type = "read" /\ OneChanged(Words, Words', call.b, k, regs[op.reg])
           /\ UNCHANGED regs
        \/ call.type = "write" /\ regs' = [regs EXCEPT ![op.reg] = op.data]
           /\ Words' = Words
        \/ Words' = Words /\ UNCHANGED regs
    <3>1. w.data = op.data => Words' = Words
      BY <2>3, <2>5, Tables, SameTable
    <3>2. OneChanged(Words, Words', call.b, k, w.data)
      BY <1>2, <2>1, <2>5, Tables, OneCell
    <3>3. QED
      BY <1>3, <1>10, <2>6, <3>1, <3>2
  <2>8. Running = [type |-> call.type, batch |-> call.b, todo |-> k .. n]
    BY <1>1, <1>2 DEF Running, k, n
  <2>9. Running' = IF k .. n = {k} THEN Promise!Idle
                   ELSE [type |-> call.type, batch |-> call.b, todo |-> (k .. n) \ {k}]
    <3>1. k \in Int /\ n \in Int /\ k <= n
      BY <1>2
    <3>2. CASE k = n
      <4>1. call' = Idle
        BY <1>4, <3>2
      <4>2. k .. n = {k}
        BY <3>1, <3>2
      <4>3. QED
        BY <4>1, <4>2 DEF Running, Promise!Idle
    <3>3. CASE k # n
      <4>1. /\ call'.type = call.type /\ call'.b = call.b /\ call'.k = k + 1
        BY <1>4, <1>10, <3>3
      <4>2. call' # Idle
        BY <1>10, <4>1 DEF Idle
      <4>3. batch'[call'.b].numops = n
        BY <1>1, <1>2, <4>1 DEF n
      <4>4. (k .. n) \ {k} = k + 1 .. n /\ k .. n # {k}
        BY <3>1, <3>3
      <4>5. QED
        BY <4>1, <4>2, <4>3, <4>4 DEF Running
    <3>4. QED
      BY <3>2, <3>3
  <2>10. k \in k .. n
    <3>1. n \in Int
      BY <1>2, Bounds
    <3>2. k \in 1 .. n
      BY <1>2
    <3>3. QED
      BY <3>1, <3>2
  <2>11. TodoLess(Running, call.type, call.b, k .. n, k)
    BY <2>8, OneDone
  <2>12. Running.todo = k .. n /\ Running.type = call.type /\ Running.batch = call.b
    BY <2>8
  <2>13. QED
    BY <1>1, <2>3, <2>4, <2>7, <2>9, <2>10, <2>11, <2>12
       DEF Promise!Execute, OneChanged, TodoLess
<1>16. QED
  BY <1>2, <1>14, <1>15, Bounds DEF Promised, Promise!Next

LEMMA OtherInv ==
    ASSUME IInv, \/ UNCHANGED vars
                 \/ \E r \in Register, v \in Value : OtherProgram(r, v)
    PROVE  IInv' /\ Promised
<1>1. /\ regs \in [Register -> Value] => regs' \in [Register -> Value]
      /\ UNCHANGED <<batch, block, freed, dest, batchfd, call, ret, corrupt, misused>>
  BY DEF vars, OtherProgram
<1>2. \A c \in Batch : At(c)' = At(c)
  BY <1>1 DEF At
<1>3. BaseInv'
  BY <1>1, <1>2 DEF IInv, BaseInv, TypeOK, Sizes, Pointers, InCall
<1>4. ASSUME Proper
      PROVE  Proper'
  <2>1. Counted' /\ OwnBlocks' /\ Handed'
    BY <1>1, <1>2, <1>4 DEF Proper, Counted, OwnBlocks, Handed
  <2>2. Untouched'
    BY <1>1, <1>2, <1>4 DEF Proper, Untouched
  <2>3. OneFlag'
    BY <1>1, <1>2, <1>4 DEF Proper, OneFlag
  <2>4. CallFlag'
    <3>1. At(call.b)' = At(call.b)
      BY <1>1 DEF At
    <3>2. QED
      BY <1>1, <1>4, <3>1 DEF Proper, CallFlag
  <2>5. QED
    BY <1>1, <1>4, <2>1, <2>2, <2>3, <2>4 DEF Proper
<1>5. Words' = Words /\ Targets' = Targets /\ Running' = Running
  BY <1>1 DEF Words, Targets, Running, DataOf, RegOf
<1>6. Promised
  <2>1. CASE UNCHANGED vars
    BY <1>1, <1>5, <2>1 DEF Promised, Promise!vars, vars
  <2>2. ASSUME NEW r \in Register, NEW v \in Value, OtherProgram(r, v)
        PROVE  Promise!OtherProgram(r, v)
    BY <1>5, <2>2 DEF OtherProgram, Promise!OtherProgram
  <2>3. QED
    BY <1>1, <2>1, <2>2 DEF Promised, Promise!Next
<1>7. QED
  BY <1>1, <1>3, <1>4, <1>6 DEF IInv

LEMMA Step ==
    ASSUME IInv, [Next]_vars
    PROVE  IInv' /\ Promised
BY AllocateInv, CreateInv, FreeInv, StoreInv, StartInv, ExecuteInv, OtherInv DEF Next

-----------------------------------------------------------------------------
(* The theorems.                                                           *)

\* Every state of the batch interface satisfies the inductive invariant.
THEOREM Invariance == Spec => []IInv
<1>1. Init => IInv
  BY InitInv
<1>2. IInv /\ [Next]_vars => IInv'
  BY Step
<1>3. QED
  BY <1>1, <1>2, PTL DEF Spec

\* The state keeps its shape: batches, blocks, the caller's pointers and the
\* running do_batch_op.
THEOREM TypeCorrect == Spec => []TypeOK
<1>1. IInv => TypeOK
  BY DEF IInv, BaseInv
<1>2. QED
  BY <1>1, Invariance, PTL

\* Used as the library's storages use it, create_batch_op and do_batch_op never
\* touch memory outside the blocks allocate_batch gave.
THEOREM InsideTheBlocks == Spec => []StaysInBlocks
<1>1. IInv => StaysInBlocks
  BY DEF IInv, Proper, StaysInBlocks
<1>2. QED
  BY <1>1, Invariance, PTL

\* The pointers create_batch_op handed out stay good while batch_storage moves
\* its array, and no two share a word.
THEOREM PointersStayGood == Spec => []DestinationsStable
<1>1. IInv => DestinationsStable
  <2> SUFFICES ASSUME IInv, ~misused, NEW b \in Batch, NEW i \in Index, dest[b][i] # << >>
               PROVE  /\ b \in DOMAIN batch
                      /\ i <= batch[b].numops
                      /\ dest[b][i] = <<batch[b].ops, i>>
                      /\ \A c \in DOMAIN batch \ {b} : batch[c].ops # batch[b].ops
    BY DEF DestinationsStable
  <2>1. Proper /\ BaseInv
    BY DEF IInv
  <2>2. i <= At(b).numops /\ dest[b][i] = <<At(b).ops, i>>
    BY <2>1 DEF Proper, Handed
  <2>3. b \in DOMAIN batch /\ batch[b] = At(b)
    BY <2>2, Bounds DEF At, EmptyBatch
  <2>4. At(b).ops # Null
    BY <2>1, <2>2, Bounds DEF Proper, Counted
  <2>5. \A c \in DOMAIN batch : c \in Batch /\ batch[c] = At(c)
    BY <2>1, AtIsRecord DEF BaseInv
  <2>6. QED
    BY <2>1, <2>2, <2>3, <2>4, <2>5 DEF Proper, OwnBlocks
<1>2. QED
  BY <1>1, Invariance, PTL

LEMMA InitPromise == Init => Promise!Init
<1> SUFFICES ASSUME Init PROVE Promise!Init
  OBVIOUS
<1>1. \A b \in Batch, i \in Index : dest[b][i] = << >>
  BY DEF Init
<1>2. Words = [b \in Batch |-> [i \in Index |-> 0]]
  BY <1>1 DEF Words, DataOf
<1>3. Targets = [b \in Batch |-> [i \in Index |-> NoRegister]]
  BY <1>1 DEF Targets, RegOf
<1>4. Running = Promise!Idle
  BY DEF Init, Running, Promise!Idle
<1>5. QED
  BY <1>2, <1>3, <1>4 DEF Init, Promise!Init

\* With its storage, its flags and both of its paths, the interface does what
\* BatchRegisters promises: a read changes the destinations of its batch only, a
\* write the registers of its batch only, each from its partner.
THEOREM KeepsThePromise == Spec => ImplementsPromise
<1>1. Init => Promise!Init
  BY InitPromise
<1>2. IInv /\ [Next]_vars => [misused' \/ (Promise!Next /\ UNCHANGED misused)]_Promise!vars
  BY Step DEF Promised
<1>3. QED
  BY <1>1, <1>2, Invariance, PTL DEF Spec, ImplementsPromise, Promise!Spec
=============================================================================
