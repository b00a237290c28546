--------------------------- MODULE BatchRegisters ---------------------------
(***************************************************************************)
(* What the batch interface of libmsr promises, without its storage: every *)
(* operation created on a batch owns one destination word of the caller;   *)
(* a batch read may copy registers into the destinations of that batch and *)
(* nothing else, a batch write may copy those destinations into registers  *)
(* and nothing else.  Other programs on the node write registers too.      *)
(***************************************************************************)
EXTENDS Naturals

CONSTANTS Batch, Index, Register, Value, NoRegister

VARIABLES
    regs,     \* the registers
    dest,     \* destination words, one per batch and index
    target,   \* the register each destination stands for, once created
    call,     \* the running batch call: its type, batch and pending indices
    misused   \* the caller broke the terms: nothing is promised any more

Idle == [type |-> "none", batch |-> 0, todo |-> {}]

Init ==
    /\ regs \in [Register -> Value]
    /\ dest = [b \in Batch |-> [i \in Index |-> 0]]
    /\ target = [b \in Batch |-> [i \in Index |-> NoRegister]]
    /\ call = Idle
    /\ misused = FALSE

Created(b) == {i \in Index : target[b][i] # NoRegister}

Create(b, i, r) ==
    /\ call = Idle
    /\ target[b][i] = NoRegister
    /\ target' = [target EXCEPT ![b][i] = r]
    /\ UNCHANGED <<regs, dest, call>>

Store(b, i, v) ==
    /\ call = Idle
    /\ i \in Created(b)
    /\ dest' = [dest EXCEPT ![b][i] = v]
    /\ UNCHANGED <<regs, target, call>>

Start(t, b) ==
    /\ call = Idle
    /\ Created(b) # {}
    /\ call' = [type |-> t, batch |-> b, todo |-> Created(b)]
    /\ UNCHANGED <<regs, dest, target>>

\* One pending operation takes effect, in the direction of the call, or fails.
Execute(i) ==
    /\ i \in call.todo
    /\ call' = IF call.todo = {i} THEN Idle
               ELSE [call EXCEPT !.todo = @ \ {i}]
    /\ LET b == call.batch
           r == target[b][i]
       IN  \/ /\ call.type = "read"
              /\ dest' = [dest EXCEPT ![b][i] = regs[r]]
              /\ UNCHANGED regs
           \/ /\ call.type = "write"
              /\ regs' = [regs EXCEPT ![r] = dest[b][i]]
              /\ UNCHANGED dest
           \/ UNCHANGED <<regs, dest>>
    /\ UNCHANGED target

OtherProgram(r, v) ==
    /\ regs' = [regs EXCEPT ![r] = v]
    /\ UNCHANGED <<dest, target, call>>

Next ==
    \/ \E b \in Batch, i \in Index, r \in Register : Create(b, i, r)
    \/ \E b \in Batch, i \in Index, v \in Value : Store(b, i, v)
    \/ \E t \in {"read", "write"}, b \in Batch : Start(t, b)
    \/ \E i \in Index : Execute(i)
    \/ \E r \in Register, v \in Value : OtherProgram(r, v)

vars == <<regs, dest, target, call, misused>>

Spec == Init /\ [][misused' \/ (Next /\ UNCHANGED misused)]_vars
=============================================================================
