------------------------------- MODULE CsrImc -------------------------------
(***************************************************************************)
(* The uncore registers: src/src/csr_core.c has its own descriptor and     *)
(* batches, apart from those of msr_core.c; src/src/csr_imc.c uses them to *)
(* choose the event every counter of the memory controllers counts and to  *)
(* print what was counted.                                                 *)
(*                                                                         *)
(* What a counter holds is named by its channel and the event the channel's*)
(* configuration register selects for it.  An access through NULL or past a*)
(* block sets "broken": nothing follows.                                   *)
(***************************************************************************)
EXTENDS Integers, Sequences, FiniteSets, SequencesExt

CONSTANTS
    Func,          \* channels of a memory controller (4 in the code)
    MaxSockets,    \* bound on the sockets of the machine
    CounterArgs,   \* counters callers name
    MaxCalls       \* bound on the calls that configure counters

ASSUME ImcAssumption == /\ {Func, MaxSockets, MaxCalls} \subseteq Nat \ {0}
                        /\ CounterArgs \subseteq Nat

NUMCTRS == 2 * Func                     \* channels of a socket
Null == << >>
NoFile == -1                            \* what a failed open returns

CSR_IMC_CTRS == 0
CSR_IMC_EVTS == 1
CSR_IMC_PMONUNITCTRL == 2
CSR_IMC_PMONUNITSTAT == 3
BatchNum == 0 .. 3
Counter == 0 .. 4
Loaded == 0 .. 3                        \* the counters init_pmon_ctrs loads
UnitCtrl == 5                           \* the other registers of a channel
UnitStatus == 6

VARIABLES
    sockets,    \* num_sockets()
    csr,        \* event per channel and counter configuration register
    descr,      \* what the process has open as descriptors 0 and 1
    fd,         \* *csr_fd()
    batchfd,    \* static of do_csr_batch_op
    begun,      \* statics "init": functions that ran once
    batch,      \* csr_batch_storage: per number whether it has a block, the
                \* data word per register, direction, numops and size
    pmon,       \* pmon_ctr_storage: the register whose word each pointer leads
                \* to, or Null
    sent,       \* the file the last ioctl went to, and whether it was done
    ret,        \* result of the last call
    printed,    \* rows of the last print: label, and what was read
    wanted,     \* history: the event last set up, per counter
    applied,    \* history: the last write of the events was done
    calls,      \* history: number of configuring calls
    outside,    \* history: a call outside the terms, see Terms
    broken

vars == <<sockets, csr, descr, fd, batchfd, begun, batch, pmon, sent, ret,
          printed, wanted, applied, calls, outside, broken>>

Channels(n) == (0 .. n - 1) \X (0 .. 1) \X (0 .. Func - 1)  \* socket, device, function

NoBlock == [live |-> FALSE, data |-> << >>, isread |-> FALSE, numops |-> 0, size |-> 8]
NotSent == [to |-> "none", done |-> TRUE]
Positions == 0 .. NUMCTRS * sockets - 1
NoPointers == [k \in Counter |-> [i \in Positions |-> Null]]

Init ==
    /\ sockets \in 1 .. MaxSockets
    /\ csr = [r \in Channels(sockets) \X Counter |-> "none"]
    /\ descr = <<"stdin", "closed">>    \* descriptors 0 and 1, in this order
    /\ fd = 0
    /\ batchfd = 0
    /\ begun = {}
    /\ batch = << >>
    /\ pmon = [ctr |-> NoPointers, cfg |-> NoPointers]
    /\ sent = NotSent
    /\ ret = 0
    /\ printed = << >>
    /\ wanted = [k \in Counter |-> "none"]
    /\ applied = TRUE
    /\ calls = 0
    /\ outside = FALSE
    /\ broken = FALSE

\* The lines of a print are looked at before the next call.
Ready == ~broken /\ printed = << >>

-----------------------------------------------------------------------------
(* init_csr, finalize_csr.                                                 *)

Closed == {d \in 0 .. 1 : descr[d + 1] = "closed"}
Lowest == CHOOSE d \in Closed : \A e \in Closed : d <= e
File(d) == IF d \in 0 .. 1 THEN descr[d + 1] ELSE "closed"

\* The first call opens the module, whatever stat said, and returns 0 though
\* open failed; every later call returns -1.
InitCsr ==
    /\ Ready
    /\ IF "init_csr" \in begun
       THEN /\ ret' = -1
            /\ UNCHANGED <<descr, fd, begun>>
       ELSE /\ ret' = 0
            /\ begun' = begun \cup {"init_csr"}
            /\ \/ /\ fd' = NoFile
                  /\ UNCHANGED descr
               \/ /\ Closed # {}
                  /\ fd' = Lowest
                  /\ descr' = [descr EXCEPT ![Lowest + 1] = "csr"]
    /\ printed' = << >>
    /\ UNCHANGED <<sockets, csr, batchfd, batch, pmon, sent, wanted, applied, calls,
                   outside, broken>>

\* Closes whatever fd is, descriptor 0 if init_csr never ran.
FinalizeCsr ==
    /\ Ready
    /\ IF File(fd) = "closed"
       THEN ret' = -1 /\ UNCHANGED <<descr, fd>>
       ELSE /\ ret' = 0
            /\ descr' = [descr EXCEPT ![fd + 1] = "closed"]
            /\ fd' = 0
    /\ outside' = TRUE
    /\ printed' = << >>
    /\ UNCHANGED <<sockets, csr, batchfd, begun, batch, pmon, sent, wanted, applied, calls,
                   broken>>

\* The program opens a file of its own.
AppOpens ==
    /\ Ready
    /\ Closed # {}
    /\ descr' = [descr EXCEPT ![Lowest + 1] = "other"]
    /\ printed' = << >>
    /\ UNCHANGED <<sockets, csr, fd, batchfd, begun, batch, pmon, sent, ret, wanted, applied,
                   calls, outside, broken>>

-----------------------------------------------------------------------------
(* Batches.                                                                *)

\* csr_batch_storage: the array grows to hold number b.
Storage(bs, b) ==
    [n \in DOMAIN bs \cup 0 .. b |-> IF n \in DOMAIN bs THEN bs[n] ELSE NoBlock]

\* allocate_csr_batch: a block there already is only reported.  The loop over
\* the operations does not end once there are some.
Allocate(bs, b, n) ==
    [Storage(bs, b) EXCEPT ![b].live = TRUE, ![b].data = << >>, ![b].size = n]
LoopsFor(bs, b) == Storage(bs, b)[b].numops > 0

Room(e) == IF e.size >= e.numops THEN e.size - e.numops ELSE 0

\* create_csr_batch_op for every register of the sequence new, as long as there
\* is room: calloc left the words zero.
Create(e, new, isread) ==
    LET put == SubSeq(new, 1, IF Len(new) <= Room(e) THEN Len(new) ELSE Room(e))
    IN  [e EXCEPT !.data = [r \in DOMAIN @ \cup ToSet(put) |->
                              IF r \notin ToSet(put) THEN @[r]
                              ELSE IF isread THEN << >> ELSE "none"],
                  !.isread = isread,
                  !.numops = @ + Len(put)]

\* Mutant of BatchFile: the static is used before it is set.
BatchFileStatic == batchfd

\* The descriptor an ioctl goes to: batchfd keeps the descriptor of the first time.
BatchFile == IF batchfd = 0 THEN fd ELSE batchfd

\* do_csr_batch_op on batch b of bs, for a driver that carries it out or does
\* not: the batches and registers after it and what it returns.
DoBatch(bs, regs, b, works) ==
    LET e    == Storage(bs, b)[b]
        file == File(BatchFile)
        done == e.numops > 0 /\ e.live /\ file = "csr" /\ works
    IN  [bs |-> IF ~(done /\ e.isread) THEN Storage(bs, b)
                ELSE [bs EXCEPT ![b].data = [r \in DOMAIN @ |-> <<r[1], regs[r]>>]],
         regs |-> IF ~done \/ e.isread THEN regs
                  ELSE [r \in DOMAIN regs |-> IF r \in DOMAIN e.data THEN e.data[r]
                                              ELSE regs[r]],
         sent |-> [to |-> IF e.numops = 0 THEN "none" ELSE file, done |-> done],
         ret |-> IF e.numops = 0 THEN -1 ELSE 0]

\* allocate_csr_batch as a caller of its own uses it.
AllocateCsrBatch(b, n) ==
    /\ Ready
    /\ broken' = LoopsFor(batch, b)
    /\ batch' = Allocate(batch, b, n)
    /\ ret' = 0
    /\ outside' = TRUE
    /\ printed' = << >>
    /\ UNCHANGED <<sockets, csr, descr, fd, batchfd, begun, pmon, sent, wanted, applied,
                   calls>>

\* free_csr_batch: it counts b elements on from element b.
FreeCsrBatch(b) ==
    LET bs == Storage(batch, b)
    IN  /\ Ready
        /\ broken' = (2 * b \notin DOMAIN bs)
        /\ batch' = IF broken' THEN bs
                    ELSE [bs EXCEPT ![2*b].live = FALSE, ![2*b].data = << >>,
                                    ![2*b].size = 0]
        /\ ret' = 0
        /\ outside' = TRUE
        /\ printed' = << >>
        /\ UNCHANGED <<sockets, csr, descr, fd, batchfd, begun, pmon, sent, wanted, applied,
                       calls>>

-----------------------------------------------------------------------------
(* csr_imc.c: storage.                                                     *)

ImcRegs(dev, s, k) == [f \in 1 .. Func |-> <<<<s, dev, f - 1>>, k>>]

\* Mutant of LoadImc: the second controller before the first.
LoadImcSwapped(k) ==
    ImcRegs(1, 0, k) \o ImcRegs(0, 0, k)
       \o (IF sockets > 1 THEN ImcRegs(1, 1, k) \o ImcRegs(0, 1, k) ELSE << >>)

\* load_imc_batch_for_each: the channels of socket 0, and of socket 1 if there
\* are more; of no third.
LoadImc(k) ==
    ImcRegs(0, 0, k) \o ImcRegs(1, 0, k)
       \o (IF sockets > 1 THEN ImcRegs(0, 1, k) \o ImcRegs(1, 1, k) ELSE << >>)

LoadAll == LoadImc(0) \o LoadImc(1) \o LoadImc(2) \o LoadImc(3)

\* The registers the pointers for counter k lead to, for n operations created.
Pointers(n) ==
    LET per == Len(LoadImc(0))
    IN  [k \in Counter |-> [i \in Positions |->
            IF k \in Loaded /\ i < per /\ k * per + i < n THEN LoadImc(k)[i + 1]
            ELSE Null]]

\* Mutant of RoomFor: room for one counter.
RoomForOne == NUMCTRS * sockets

RoomFor == NUMCTRS * sockets * 4

\* init_pmon_ctrs.  The storages of counters and events are filled at once.
PmonCtrs(bs) ==
    LET allocated == Allocate(Allocate(bs, CSR_IMC_CTRS, RoomFor), CSR_IMC_EVTS, RoomFor)
    IN  [allocated EXCEPT ![CSR_IMC_CTRS] = Create(@, LoadAll, TRUE),
                          ![CSR_IMC_EVTS] = Create(@, LoadAll, FALSE)]

InitPmonCtrs ==
    /\ Ready
    /\ IF "init_pmon_ctrs" \in begun
       THEN ret' = -1 /\ UNCHANGED <<begun, batch, pmon, broken>>
       ELSE /\ begun' = begun \cup {"init_pmon_ctrs"}
            /\ broken' = (LoopsFor(batch, CSR_IMC_CTRS) \/ LoopsFor(batch, CSR_IMC_EVTS))
            /\ batch' = PmonCtrs(batch)
            /\ pmon' = [ctr |-> Pointers(batch'[CSR_IMC_CTRS].numops),
                        cfg |-> Pointers(batch'[CSR_IMC_EVTS].numops)]
            /\ ret' = 10 * NUMCTRS * sockets
    /\ printed' = << >>
    /\ UNCHANGED <<sockets, csr, descr, fd, batchfd, sent, wanted, applied, calls, outside>>

\* init_pmonctr_global: both batches are loaded for writing.
InitPmonctrGlobal ==
    /\ Ready
    /\ IF "init_pmonctr_global" \in begun
       THEN ret' = -1 /\ UNCHANGED <<begun, batch, broken>>
       ELSE /\ begun' = begun \cup {"init_pmonctr_global"}
            /\ broken' = (LoopsFor(batch, CSR_IMC_PMONUNITCTRL)
                             \/ LoopsFor(batch, CSR_IMC_PMONUNITSTAT))
            /\ LET n == NUMCTRS * sockets
                   a == Allocate(Allocate(batch, CSR_IMC_PMONUNITCTRL, n),
                                 CSR_IMC_PMONUNITSTAT, n)
               IN  batch' = [a EXCEPT
                      ![CSR_IMC_PMONUNITCTRL] = Create(@, LoadImc(UnitCtrl), FALSE),
                      ![CSR_IMC_PMONUNITSTAT] = Create(@, LoadImc(UnitStatus), FALSE)]
            /\ ret' = 2 * NUMCTRS * sockets
    /\ printed' = << >>
    /\ UNCHANGED <<sockets, csr, descr, fd, batchfd, pmon, sent, wanted, applied, calls, outside>>

-----------------------------------------------------------------------------
(* Choosing events.                                                        *)

\* The state a chain of pmon_config calls works on.
Now == [bs |-> batch, regs |-> csr, ret |-> 0, sent |-> sent, set |-> wanted, applied |-> applied,
        broken |-> FALSE]

\* set_pmon_config: only the first pointer is looked at before all are followed.
SetPmonConfig(bs, k, event) ==
    [bs EXCEPT ![CSR_IMC_EVTS].data = [r \in DOMAIN @ |->
        IF \E i \in Positions : pmon.cfg[k][i] = r THEN event ELSE @[r]]]

\* pmon_config: the event goes into the words of its counter, and the words of
\* all counters are written.  For counter 4 they are written too, and the call
\* fails; there is no counter above.
PmonConfig(st, k, event, works) ==
    IF k \notin Counter THEN [st EXCEPT !.ret = -1]
    ELSE LET unset   == pmon.cfg[k][0] = Null
             through == ~unset /\ \E i \in Positions : pmon.cfg[k][i] = Null
             words   == IF unset \/ through THEN st.bs ELSE SetPmonConfig(st.bs, k, event)
             done    == DoBatch(words, st.regs, CSR_IMC_EVTS, works)
         IN  [bs |-> done.bs, regs |-> done.regs, sent |-> done.sent,
              ret |-> IF unset \/ done.ret # 0 THEN -1 ELSE st.ret,
              set |-> IF unset THEN st.set ELSE [st.set EXCEPT ![k] = event],
              applied |-> done.sent.done,
              broken |-> st.broken \/ through]

BwEvent == <<"CAS_RD", "CAS_WR", "CAS_ALL">>

\* What each call sets up, in its order: counters and events.
MemBw(c, type)         == <<<<c, BwEvent[type + 1]>>>>
MemPctRw(r, w)         == <<<<r, "RPQ_INSERTS">>, <<w, "WPQ_INSERTS">>>>
MemPageEmpty(act, pre, cas) ==
    <<<<cas, "CAS_ALL">>, <<act, "ACT_COUNT">>, <<pre, "PRE_COUNT">>>>
MemPageMiss(pre, cas)  == <<<<pre, "PRE_COUNT">>, <<cas, "CAS_ALL">>>>

\* All that a caller may ask for.  The counters of "checked" are compared with 4
\* first; mem_page_miss_on_ctr compares one of its two twice.
Requests ==
    {[events |-> MemBw(c, t), checked |-> {c}] : c \in CounterArgs, t \in 0 .. 2}
      \cup {[events |-> MemPctRw(r, w), checked |-> {r, w}] :
               r \in CounterArgs, w \in CounterArgs}
      \cup {[events |-> MemPageEmpty(a, p, c), checked |-> {a, p, c}] :
               a \in CounterArgs, p \in CounterArgs, c \in CounterArgs}
      \cup {[events |-> MemPageMiss(p, c), checked |-> {p}] :
               p \in CounterArgs, c \in CounterArgs}

Distinct(q) == \A i, j \in DOMAIN q : i # j => q[i][1] # q[j][1]

\* Terms of a call that configures or prints: after init_pmon_ctrs, at most two
\* sockets, counters that were loaded, each for one event.
Terms(counters) ==
    /\ {"init_csr", "init_pmon_ctrs"} \subseteq begun
    /\ sockets <= 2
    /\ counters \subseteq Loaded

\* The pmon_config call for event i of q, if q has that many.
Configure(st, q, i, works) ==
    IF i \in DOMAIN q THEN PmonConfig(st, q[i][1], q[i][2], works[i]) ELSE st

\* One of the mem_*_on_ctr functions, which set up at most three events.  That
\* two events share a counter is only reported.  The driver works for the first
\* ioctls of the call, or for all.
ConfigureCounters(request, works) ==
    LET q   == request.events
        end == Configure(Configure(Configure(Now, q, 1, works), q, 2, works), q, 3, works)
    IN  /\ Ready
        /\ calls < MaxCalls
        /\ calls' = calls + 1
        /\ IF \E k \in request.checked : k > 4
           THEN /\ ret' = -1
                /\ UNCHANGED <<batch, csr, sent, wanted, applied, batchfd, broken, outside>>
           ELSE /\ batch' = end.bs
                /\ csr' = end.regs
                /\ sent' = end.sent
                /\ ret' = end.ret
                /\ broken' = end.broken
                /\ wanted' = end.set
                /\ applied' = end.applied
                /\ outside' = (\/ outside
                               \/ ~Terms({q[i][1] : i \in DOMAIN q})
                               \/ ~Distinct(q))
                /\ batchfd' = IF \E i \in DOMAIN q : q[i][1] \in Counter
                              THEN BatchFile ELSE batchfd
        /\ printed' = << >>
        /\ UNCHANGED <<sockets, descr, fd, begun, pmon>>

\* set_pmon_unit_ctrl: the pointers are followed, set or not; one setting is
\* written to the control register of every channel.  What its reset and freeze
\* bits do to the counters and their events is left out: applied stays, and no
\* property speaks of counters after a reset.
SetPmonUnitCtrl(works) ==
    LET done == DoBatch(batch, csr, CSR_IMC_PMONUNITCTRL, works)
    IN  /\ Ready
        /\ broken' = (\/ "init_pmonctr_global" \notin begun
                      \/ sockets > 2
                      \/ ~batch[CSR_IMC_PMONUNITCTRL].live)
        /\ IF broken' THEN UNCHANGED <<batch, sent, ret, batchfd>>
           ELSE /\ batch' = done.bs
                /\ sent' = done.sent
                /\ ret' = done.ret
                /\ batchfd' = BatchFile
        /\ outside' = (outside \/ sockets > 2
                          \/ ~({"init_csr", "init_pmonctr_global"} \subseteq begun))
        /\ printed' = << >>
        /\ UNCHANGED <<sockets, csr, descr, fd, begun, pmon, wanted, applied, calls>>

-----------------------------------------------------------------------------
(* Printing.                                                               *)

\* Mutant of Label: the socket changes with the controller.
LabelEarly(i) == <<i \div Func, (i \div Func) % 2, i % Func>>

\* The socket, device and function printed beside value i.
Label(i) == <<i \div NUMCTRS, (i \div Func) % 2, i % Func>>

\* read_imc_counter_batch, for each counter of cs: the same batch again, so one
\* of the reads that succeeds is enough.
ReadImcCounterBatch(cs, works) ==
    IF \A n \in DOMAIN cs : cs[n] \notin Counter THEN Now
    ELSE LET d == DoBatch(batch, csr, CSR_IMC_CTRS, works)
         IN  [Now EXCEPT !.bs = d.bs, !.sent = d.sent]

\* The print functions for one, two and three counters.  They look at no result,
\* and follow the pointers of the counters, set or not.
PrintCounters(cs, works) ==
    LET st == ReadImcCounterBatch(cs, works)
        data == st.bs[CSR_IMC_CTRS].data
    IN  /\ Ready
        /\ CSR_IMC_CTRS \in DOMAIN batch
        /\ broken' = (\E n \in DOMAIN cs : \/ ~st.bs[CSR_IMC_CTRS].live
                                          \/ cs[n] \notin Counter
                                          \/ \E i \in Positions : pmon.ctr[cs[n]][i] = Null)
        /\ batch' = st.bs
        /\ sent' = st.sent
        /\ batchfd' = IF \E n \in DOMAIN cs : cs[n] \in Counter
                      THEN BatchFile ELSE batchfd
        /\ printed' = IF broken' THEN << >>
                      ELSE [i \in Positions |->
                              [label |-> Label(i),
                               values |-> [n \in DOMAIN cs |->
                                             data[pmon.ctr[cs[n]][i]]],
                               counters |-> cs]]
        /\ ret' = 0
        /\ outside' = (outside \/ ~Terms(ToSet(cs)))
        /\ UNCHANGED <<sockets, csr, descr, fd, begun, pmon, wanted, applied, calls>>

PrintMemBw          == \E c \in CounterArgs, w \in BOOLEAN :
                          PrintCounters(<<c>>, w)
PrintMemPctRw       == \E r, c \in CounterArgs, w \in BOOLEAN :
                          PrintCounters(<<r, c>>, w)
PrintMemPageEmpty   == \E a, p, c \in CounterArgs, w \in BOOLEAN :
                          PrintCounters(<<a, p, c>>, w)
PrintMemPageMiss    == \E p, c \in CounterArgs, w \in BOOLEAN :
                          PrintCounters(<<p, c>>, w)

\* print_pmon_ctrs: on the first use of the counters it sets them up and reports
\* that they are not; later it follows the pointers of counter 4, never set.
PrintPmonCtrs ==
    /\ Ready
    /\ outside' = TRUE
    /\ printed' = << >>
    /\ IF "init_pmon_ctrs" \notin begun
       THEN /\ begun' = begun \cup {"init_pmon_ctrs"}
            /\ broken' = (LoopsFor(batch, CSR_IMC_CTRS) \/ LoopsFor(batch, CSR_IMC_EVTS))
            /\ batch' = PmonCtrs(batch)
            /\ pmon' = [ctr |-> Pointers(batch'[CSR_IMC_CTRS].numops),
                        cfg |-> Pointers(batch'[CSR_IMC_EVTS].numops)]
            /\ ret' = -1
            /\ UNCHANGED <<sent, batchfd>>
       ELSE /\ broken' = TRUE
            /\ sent' = DoBatch(batch, csr, CSR_IMC_CTRS, TRUE).sent
            /\ batchfd' = BatchFile
            /\ UNCHANGED <<begun, batch, pmon, ret>>
    /\ UNCHANGED <<sockets, csr, descr, fd, wanted, applied, calls>>

LookAtLines ==
    /\ printed # << >>
    /\ printed' = << >>
    /\ sent' = NotSent
    /\ UNCHANGED <<sockets, csr, descr, fd, batchfd, begun, batch, pmon, ret, wanted,
                   applied, calls, outside, broken>>

Next ==
    \/ LookAtLines
    \/ InitCsr
    \/ FinalizeCsr
    \/ AppOpens
    \/ \E b \in BatchNum : AllocateCsrBatch(b, RoomFor)
    \/ \E b \in BatchNum : FreeCsrBatch(b)
    \/ InitPmonCtrs
    \/ InitPmonctrGlobal
    \/ \E r \in Requests : \E n \in 0 .. Len(r.events) :
          ConfigureCounters(r, [i \in DOMAIN r.events |-> i <= n])
    \/ \E w \in BOOLEAN : SetPmonUnitCtrl(w)
    \/ PrintMemBw
    \/ PrintMemPctRw
    \/ PrintMemPageEmpty
    \/ PrintMemPageMiss
    \/ PrintPmonCtrs

Spec == Init /\ [][Next]_vars

-----------------------------------------------------------------------------
(* Properties.                                                             *)

\* The state has its type.
TypeOK ==
    /\ csr \in [Channels(sockets) \X Counter ->
                   {"none", "CAS_RD", "CAS_WR", "CAS_ALL", "RPQ_INSERTS",
                    "WPQ_INSERTS", "ACT_COUNT", "PRE_COUNT"}]
    /\ descr \in [1 .. 2 -> {"stdin", "closed", "csr", "other"}]
    /\ {fd, batchfd} \subseteq -1 .. 1
    /\ DOMAIN batch \in SUBSET BatchNum
    /\ \A b \in DOMAIN batch : ~broken /\ batch[b].live =>
          Cardinality(DOMAIN batch[b].data) = batch[b].numops
    /\ \A k \in Counter, i \in Positions :
          pmon.ctr[k][i] = Null \/ pmon.ctr[k][i] \in Channels(2) \X Loaded

\* What is printed beside a socket, device and function was read from the
\* counter of that channel, and the counter was counting the event the caller
\* last chose for it: through the order the operations were loaded in
\* (csr_imc.c:52), the words that every configuring call writes again for all
\* counters, and the arithmetic of the labels.
PrintsWhatWasAsked ==
    ~outside /\ applied /\ sent.done =>
        \A i \in DOMAIN printed : \A n \in DOMAIN printed[i].counters :
            printed[i].values[n] = <<printed[i].label, wanted[printed[i].counters[n]]>>

\* A program that sets the counters up first, names counters that are loaded and
\* runs on one or two sockets follows no pointer that was never set and writes
\* past no block (csr_imc.c:204, csr_core.c:175), whatever the driver does.
NothingBroken == ~outside => ~broken

\* Until finalize_csr the batches go to the device, or to a descriptor that is
\* not open, never to another file of the program (csr_core.c:250).
OwnDevice == ~outside => sent.to \in {"none", "csr", "closed"}

\* "0 if initialization was a success, else -1 if could not stat file
\* descriptors or open any csr module" (src/include/csr_core.h).
InitZeroMeansOpen ==
    [][begun' # begun /\ "init_csr" \in begun' => fd' # NoFile]_vars

\* "Deallocate memory for specific set of uncore batch operations"
\* (src/include/csr_core.h).
FreesItsBatch ==
    [][\A b \in BatchNum : FreeCsrBatch(b) =>
          \A n \in DOMAIN batch \ {b} : batch'[n] = batch[n]]_vars
=============================================================================
