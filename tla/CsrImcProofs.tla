---------------------------- MODULE CsrImcProofs ----------------------------
(***************************************************************************)
(* What CsrImc promises a program that keeps to its terms, for every       *)
(* number of channels, sockets, counters and calls.  The register that     *)
(* each pointer leads to, the words of the batch of events and the events  *)
(* the registers select are tied to the events the caller chose last; with *)
(* the descriptor the batches go to they make the inductive invariant.     *)
(***************************************************************************)
EXTENDS CsrImc, TLAPS

\* The register of counter k on the channel printed beside value i.
Reg(i, k) == <<Label(i), k>>

IsBlock(e) == DOMAIN e = {"live", "data", "isread", "numops", "size"}

MachineOK ==
    /\ sockets \in 1 .. MaxSockets
    /\ csr = [r \in Channels(sockets) \X Counter |-> csr[r]]

\* init_csr leaves the device or no file in fd, and batchfd has no other.
DescriptorsOK ==
    /\ descr = <<"stdin", descr[2]>>
    /\ "init_csr" \notin begun => fd = 0 /\ batchfd = 0
    /\ "init_csr" \in begun => /\ fd = NoFile \/ (fd = 1 /\ descr[2] = "csr")
                               /\ batchfd \in {0, fd}

AreBlocks(bs) ==
    /\ bs = [n \in DOMAIN bs |-> bs[n]]
    /\ \A n \in DOMAIN bs : IsBlock(bs[n])

\* No operation was created on batch b.
Untried(bs, b) == b \in DOMAIN bs => bs[b].numops = 0

\* The batches of counters and of events of a machine with one or two sockets:
\* the words of the events are those the caller chose last.
CounterBatches(bs, set) ==
    /\ {CSR_IMC_CTRS, CSR_IMC_EVTS} \subseteq DOMAIN bs
    /\ \A b \in {CSR_IMC_CTRS, CSR_IMC_EVTS} : bs[b].live /\ bs[b].numops > 0
    /\ bs[CSR_IMC_CTRS].isread /\ ~bs[CSR_IMC_EVTS].isread
    /\ \A i \in Positions, k \in Loaded :
          /\ Reg(i, k) \in DOMAIN bs[CSR_IMC_CTRS].data
          /\ Reg(i, k) \in DOMAIN bs[CSR_IMC_EVTS].data
          /\ bs[CSR_IMC_EVTS].data[Reg(i, k)] = set[k]

PointersOK ==
    \A i \in Positions, k \in Loaded :
        pmon.ctr[k][i] = Reg(i, k) /\ pmon.cfg[k][i] = Reg(i, k)

CountersOK ==
    /\ "init_pmon_ctrs" \notin begun =>
          Untried(batch, CSR_IMC_CTRS) /\ Untried(batch, CSR_IMC_EVTS)
    /\ "init_pmon_ctrs" \in begun /\ sockets <= 2 =>
          CounterBatches(batch, wanted) /\ PointersOK

UnitsOK ==
    /\ "init_pmonctr_global" \notin begun =>
          Untried(batch, CSR_IMC_PMONUNITCTRL) /\ Untried(batch, CSR_IMC_PMONUNITSTAT)
    /\ "init_pmonctr_global" \in begun =>
          CSR_IMC_PMONUNITCTRL \in DOMAIN batch /\ batch[CSR_IMC_PMONUNITCTRL].live

\* The registers select the events chosen last, if their write was done.
Selected(regs, set) == \A i \in Positions, k \in Loaded : regs[Reg(i, k)] = set[k]

EventsOK ==
    /\ wanted = [k \in Counter |-> wanted[k]]
    /\ "init_pmon_ctrs" \notin begun => \A k \in Counter : wanted[k] = "none"
    /\ applied => Selected(csr, wanted)

InTerms ==
    /\ MachineOK /\ DescriptorsOK /\ AreBlocks(batch) /\ CountersOK /\ UnitsOK /\ EventsOK
    /\ PrintsWhatWasAsked /\ NothingBroken /\ OwnDevice

IInv == ~outside => InTerms

-----------------------------------------------------------------------------
(* The state a batch number is in.                                         *)

LEMMA StorageIs ==
    ASSUME NEW bs, AreBlocks(bs), NEW b
    PROVE  /\ AreBlocks(Storage(bs, b))
           /\ DOMAIN Storage(bs, b) = DOMAIN bs \cup 0 .. b
           /\ \A n \in DOMAIN bs : Storage(bs, b)[n] = bs[n]
           /\ \A n \in (0 .. b) \ DOMAIN bs : Storage(bs, b)[n] = NoBlock
<1>1. IsBlock(NoBlock)
  BY DEF IsBlock, NoBlock
<1>2. QED
  BY <1>1 DEF Storage, AreBlocks

\* A batch nothing was created on still has no operation when the array grew.
LEMMA StorageUntried ==
    ASSUME NEW bs, AreBlocks(bs), NEW b, NEW n, Untried(bs, n)
    PROVE  Untried(Storage(bs, b), n)
<1>1. NoBlock.numops = 0
  BY DEF NoBlock
<1>2. /\ DOMAIN Storage(bs, b) = DOMAIN bs \cup 0 .. b
      /\ \A m \in DOMAIN bs : Storage(bs, b)[m] = bs[m]
      /\ \A m \in (0 .. b) \ DOMAIN bs : Storage(bs, b)[m] = NoBlock
  BY StorageIs
<1>3. QED
  BY <1>1, <1>2 DEF Untried

\* al is bs, with room for n operations on batch b.
Allocated(al, bs, b, n) ==
    /\ AreBlocks(al) /\ DOMAIN al = DOMAIN bs \cup 0 .. b
    /\ al[b].live /\ al[b].data = << >> /\ al[b].numops = 0 /\ al[b].size = n
    /\ \A m \in DOMAIN bs \ {b} : al[m] = bs[m]
    /\ \A m \in (0 .. b) \ (DOMAIN bs \cup {b}) : al[m] = NoBlock

LEMMA BlocksExcept ==
    ASSUME NEW bs, AreBlocks(bs), NEW b \in DOMAIN bs, NEW e, IsBlock(e),
           NEW new, new = [bs EXCEPT ![b] = e]
    PROVE  /\ AreBlocks(new) /\ DOMAIN new = DOMAIN bs /\ new[b] = e
           /\ \A m \in DOMAIN bs \ {b} : new[m] = bs[m]
BY DEF AreBlocks

\* allocate_csr_batch on a batch without operations does not loop for ever.
LEMMA AllocateIs ==
    ASSUME NEW bs, AreBlocks(bs), NEW b \in Nat, Untried(bs, b), NEW n
    PROVE  ~LoopsFor(bs, b) /\ Allocated(Allocate(bs, b, n), bs, b, n)
<1> DEFINE st == Storage(bs, b)
           al == Allocate(bs, b, n)
<1>1. /\ AreBlocks(st) /\ DOMAIN st = DOMAIN bs \cup 0 .. b /\ Untried(st, b)
      /\ \A m \in DOMAIN bs : st[m] = bs[m]
      /\ \A m \in (0 .. b) \ DOMAIN bs : st[m] = NoBlock
  BY StorageIs, StorageUntried
<1>2. b \in DOMAIN st /\ st[b].numops = 0 /\ IsBlock(st[b])
  BY <1>1 DEF Untried, AreBlocks
<1> DEFINE e == [[[st[b] EXCEPT !.live = TRUE] EXCEPT !.data = << >>] EXCEPT !.size = n]
<1>3. al = [st EXCEPT ![b] = e]
  BY <1>2 DEF Allocate
<1>4. IsBlock(e) /\ e.live /\ e.data = << >> /\ e.numops = 0 /\ e.size = n
  BY <1>2 DEF IsBlock
<1>5. /\ DOMAIN al = DOMAIN st /\ AreBlocks(al) /\ al[b] = e
      /\ \A m \in DOMAIN st \ {b} : al[m] = st[m]
  <2> HIDE DEF st, al, e
  <2> QED BY <1>1, <1>2, <1>3, <1>4 DEF AreBlocks
<1>6. ~LoopsFor(bs, b)
  BY <1>2 DEF LoopsFor
<1>7. QED
  <2> HIDE DEF st, al, e
  <2>1. Allocated(al, bs, b, n)
    BY <1>1, <1>2, <1>4, <1>5 DEF Allocated
  <2>2. QED
    BY <1>6, <2>1 DEF al

-----------------------------------------------------------------------------
(* The order in which the registers are loaded.                            *)

\* Value i stands beside a channel of the machine.
LEMMA LabelIs ==
    ASSUME sockets \in Nat \ {0}, NEW i \in Positions
    PROVE  Label(i) \in Channels(sockets)
<1> DEFINE F == Func
<1>1. F \in Nat \ {0}
  BY ImcAssumption
<1>2. i \in Nat /\ i < 2 * F * sockets
  BY <1>1 DEF Positions, NUMCTRS
<1>3. i \div (2 * F) \in 0 .. sockets - 1
  <2> HIDE DEF F
  <2> DEFINE w == 2 * F
  <2>1. w \in Nat \ {0} /\ i < w * sockets
    BY <1>1, <1>2
  <2> HIDE DEF w
  <2>2. i \div w \in Nat /\ (i \div w) * w <= i
    BY <1>2, <2>1
  <2>3. i \div w < sockets
    BY <1>2, <2>1, <2>2
  <2>4. QED
    BY <2>2, <2>3 DEF w
<1>4. i % F \in 0 .. F - 1
  <2> HIDE DEF F
  <2> QED BY <1>1, <1>2
<1>5. (i \div F) % 2 \in 0 .. 1
  <2> HIDE DEF F
  <2>1. i \div F \in Nat
    BY <1>1, <1>2
  <2>2. QED
    BY <2>1
<1>6. QED
  BY <1>3, <1>4, <1>5 DEF Label, Channels, NUMCTRS

LEMMA DivMod ==
    ASSUME NEW F \in Nat \ {0}, NEW j \in Nat, NEW f \in 0 .. F - 1, NEW i, i = j * F + f
    PROVE  i \in Nat /\ i \div F = j /\ i % F = f
OBVIOUS

\* Halving what a number of channels makes is dividing by those of a socket.
LEMMA DivTwice ==
    ASSUME NEW F \in Nat \ {0}, NEW i \in Nat
    PROVE  i \div (2 * F) = (i \div F) \div 2
<1> DEFINE j == i \div F
           f == i % F
           s == j \div 2
           d == j % 2
           w == 2 * F
           g == d * F + f
<1>1. j \in Nat /\ f \in 0 .. F - 1 /\ i = j * F + f
  OBVIOUS
<1>2. s \in Nat /\ d \in 0 .. 1 /\ j = 2 * s + d
  <2> HIDE DEF j
  <2> QED BY <1>1
<1> HIDE DEF j, f, s, d
<1>3. g \in 0 .. w - 1 /\ w \in Nat \ {0}
  <2>1. d = 0 \/ d = 1
    BY <1>2
  <2>2. QED
    BY <1>1, <2>1
<1>4. i = s * w + g
  <2>1. CASE d = 0
    BY <1>1, <1>2, <2>1
  <2>2. CASE d = 1
    BY <1>1, <1>2, <2>2
  <2>3. QED
    BY <1>2, <2>1, <2>2
<1>5. i \div w = s
  <2> HIDE DEF w, g
  <2> QED BY <1>2, <1>3, <1>4, DivMod
<1>6. QED
  BY <1>5 DEF j, s

\* The sequence R is A and then B, both of length n.
Halves(R, A, B, n) ==
    Len(R) = 2 * n /\ \A f \in 1 .. n : R[f] = A[f] /\ R[n + f] = B[f]

\* The sequence R is A, B, C and D, each of length n.
Quarters(R, A, B, C, D, n) ==
    /\ Len(R) = 4 * n
    /\ \A f \in 1 .. n : /\ R[f] = A[f] /\ R[n + f] = B[f]
                         /\ R[2 * n + f] = C[f] /\ R[3 * n + f] = D[f]

\* Two and four sequences as long as each other, one after the other.
LEMMA TwoParts ==
    ASSUME NEW S, NEW n \in Nat, NEW A \in Seq(S), NEW B \in Seq(S), Len(A) = n, Len(B) = n
    PROVE  A \o B \in Seq(S) /\ Halves(A \o B, A, B, n)
BY DEF Halves

LEMMA FourParts ==
    ASSUME NEW S, NEW F \in Nat, NEW A \in Seq(S), NEW B \in Seq(S), NEW C \in Seq(S),
           NEW D \in Seq(S), Len(A) = F, Len(B) = F, Len(C) = F, Len(D) = F
    PROVE  /\ (A \o B) \o (C \o D) \in Seq(S)
           /\ Quarters((A \o B) \o (C \o D), A, B, C, D, F)
<1> DEFINE P == A \o B
           Q == C \o D
<1>1. /\ P \in Seq(S) /\ Len(P) = 2 * F
      /\ \A f \in 1 .. F : P[f] = A[f] /\ P[F + f] = B[f]
  OBVIOUS
<1>2. /\ Q \in Seq(S) /\ Len(Q) = 2 * F
      /\ \A f \in 1 .. F : Q[f] = C[f] /\ Q[F + f] = D[f]
  OBVIOUS
<1> HIDE DEF P, Q
<1> DEFINE R == P \o Q
<1>3. /\ R \in Seq(S) /\ Len(R) = 4 * F
      /\ \A g \in 1 .. 2 * F : R[g] = P[g] /\ R[2 * F + g] = Q[g]
  <2> DEFINE w == 2 * F
  <2>1. w \in Nat /\ Len(P) = w /\ Len(Q) = w /\ 2 * w = 4 * F
    BY <1>1, <1>2
  <2> HIDE DEF w
  <2>2. R \in Seq(S) /\ Halves(R, P, Q, w)
    BY <1>1, <1>2, <2>1, TwoParts
  <2>3. QED
    BY <2>1, <2>2 DEF w, Halves
<1> HIDE DEF R
<1>4. ASSUME NEW f \in 1 .. F
      PROVE  R[f] = A[f] /\ R[F + f] = B[f] /\ R[2 * F + f] = C[f] /\ R[3 * F + f] = D[f]
  <2>1. f \in 1 .. 2 * F /\ F + f \in 1 .. 2 * F /\ 2 * F + (F + f) = 3 * F + f
    OBVIOUS
  <2>2. R[2 * F + (F + f)] = Q[F + f]
    BY <1>3, <2>1
  <2>3. QED
    BY <1>1, <1>2, <1>3, <2>1, <2>2
<1>5. QED
  BY <1>3, <1>4 DEF P, Q, R, Quarters

Loads == Channels(sockets) \X Loaded

LEMMA ImcRegsIs ==
    ASSUME sockets \in Nat, NEW dev \in 0 .. 1, NEW s \in 0 .. sockets - 1, NEW k \in Loaded
    PROVE  /\ ImcRegs(dev, s, k) \in Seq(Loads) /\ Len(ImcRegs(dev, s, k)) = Func
           /\ \A f \in 0 .. Func - 1 : ImcRegs(dev, s, k)[f + 1] = <<<<s, dev, f>>, k>>
<1>1. Func \in Nat
  BY ImcAssumption
<1>2. \A f \in 1 .. Func : <<<<s, dev, f - 1>>, k>> \in Loads
  BY <1>1 DEF Loads, Channels
<1>3. ImcRegs(dev, s, k) \in Seq(Loads) /\ Len(ImcRegs(dev, s, k)) = Func
  BY <1>1, <1>2 DEF ImcRegs
<1>4. \A f \in 0 .. Func - 1 : f + 1 \in 1 .. Func /\ (f + 1) - 1 = f
  BY <1>1
<1>5. QED
  BY <1>3, <1>4 DEF ImcRegs

\* Pointer i of each counter is of the channel printed beside value i, on one
\* socket and on two (load_imc_batch_for_each and the print functions).
LEMMA LoadImcIs ==
    ASSUME sockets \in 1 .. 2, NEW k \in Loaded
    PROVE  /\ LoadImc(k) \in Seq(Loads) /\ Len(LoadImc(k)) = NUMCTRS * sockets
           /\ \A i \in Positions : i + 1 \in DOMAIN LoadImc(k) /\ LoadImc(k)[i + 1] = Reg(i, k)
<1> DEFINE F == Func
           L == LoadImc(k)
<1>1. F \in Nat \ {0} /\ NUMCTRS = 2 * F
  BY ImcAssumption DEF NUMCTRS
<1>2. ASSUME NEW s \in 0 .. sockets - 1, NEW d \in 0 .. 1, NEW f \in 0 .. F - 1,
             NEW i, i = (2 * s + d) * F + f
      PROVE  Label(i) = <<s, d, f>>
  <2> DEFINE j == 2 * s + d
  <2>1. j \in Nat /\ j \div 2 = s /\ j % 2 = d
    OBVIOUS
  <2>2. i \in Nat /\ i \div F = j /\ i % F = f
    <3> HIDE DEF F
    <3>1. i = j * F + f
      BY <1>2
    <3> HIDE DEF j
    <3>2. QED
      BY <1>1, <1>2, <2>1, <3>1, DivMod
  <2>3. i \div (2 * F) = (i \div F) \div 2
    BY <1>1, <2>2, DivTwice
  <2>4. QED
    <3> HIDE DEF j, F
    <3>1. i \div (2 * F) = s /\ (i \div F) % 2 = d /\ i % F = f
      BY <2>1, <2>2, <2>3
    <3>2. QED
      BY <1>1, <3>1 DEF Label, F
<1>3. CASE sockets = 1
  <2> DEFINE A == ImcRegs(0, 0, k)
             B == ImcRegs(1, 0, k)
  <2>1. /\ A \in Seq(Loads) /\ Len(A) = F
        /\ \A f \in 0 .. F - 1 : A[f + 1] = <<<<0, 0, f>>, k>>
    BY <1>3, ImcRegsIs
  <2>2. /\ B \in Seq(Loads) /\ Len(B) = F
        /\ \A f \in 0 .. F - 1 : B[f + 1] = <<<<0, 1, f>>, k>>
    BY <1>3, ImcRegsIs
  <2>3. L = (A \o B) \o << >>
    BY <1>3 DEF LoadImc
  <2> HIDE DEF A, B, L, F
  <2>4. A \o B \in Seq(Loads) /\ Halves(A \o B, A, B, F)
    BY <1>1, <2>1, <2>2, TwoParts
  <2>5. L = A \o B
    BY <2>3, <2>4
  <2>6. L \in Seq(Loads) /\ Len(L) = NUMCTRS * sockets
    BY <1>1, <1>3, <2>4, <2>5 DEF Halves
  <2>7. ASSUME NEW i \in Positions
        PROVE  i + 1 \in DOMAIN L /\ L[i + 1] = Reg(i, k)
    <3>1. i \in 0 .. 2 * F - 1
      BY <1>1, <1>3 DEF Positions
    <3>2. i + 1 \in DOMAIN L
      BY <1>1, <1>3, <2>6, <3>1
    <3>3. CASE i < F
      <4>1. i \in 0 .. F - 1 /\ i = (2 * 0 + 0) * F + i /\ i + 1 \in 1 .. F
        BY <1>1, <3>1, <3>3
      <4>2. Label(i) = <<0, 0, i>>
        BY <1>2, <1>3, <4>1
      <4>3. L[i + 1] = A[i + 1]
        BY <2>4, <2>5, <4>1 DEF Halves
      <4>4. QED
        BY <2>1, <3>2, <4>1, <4>2, <4>3 DEF Reg
    <3>4. CASE i >= F
      <4> DEFINE f == i - F
      <4>1. /\ f \in 0 .. F - 1 /\ i = (2 * 0 + 1) * F + f /\ f + 1 \in 1 .. F
            /\ F + (f + 1) = i + 1
        BY <1>1, <3>1, <3>4
      <4> HIDE DEF f
      <4>2. Label(i) = <<0, 1, f>>
        BY <1>2, <1>3, <4>1
      <4>3. L[F + (f + 1)] = B[f + 1]
        BY <2>4, <2>5, <4>1 DEF Halves
      <4>4. QED
        BY <2>2, <3>2, <4>1, <4>2, <4>3 DEF Reg
    <3>5. QED
      BY <1>1, <3>1, <3>3, <3>4
  <2>8. QED
    BY <2>6, <2>7 DEF L
<1>4. CASE sockets = 2
  <2> DEFINE A == ImcRegs(0, 0, k)
             B == ImcRegs(1, 0, k)
             C == ImcRegs(0, 1, k)
             D == ImcRegs(1, 1, k)
  <2>1. /\ A \in Seq(Loads) /\ Len(A) = F
        /\ \A f \in 0 .. F - 1 : A[f + 1] = <<<<0, 0, f>>, k>>
    BY <1>4, ImcRegsIs
  <2>2. /\ B \in Seq(Loads) /\ Len(B) = F
        /\ \A f \in 0 .. F - 1 : B[f + 1] = <<<<0, 1, f>>, k>>
    BY <1>4, ImcRegsIs
  <2>3. /\ C \in Seq(Loads) /\ Len(C) = F
        /\ \A f \in 0 .. F - 1 : C[f + 1] = <<<<1, 0, f>>, k>>
    BY <1>4, ImcRegsIs
  <2>4. /\ D \in Seq(Loads) /\ Len(D) = F
        /\ \A f \in 0 .. F - 1 : D[f + 1] = <<<<1, 1, f>>, k>>
    BY <1>4, ImcRegsIs
  <2>5. L = (A \o B) \o (C \o D)
    BY <1>4 DEF LoadImc
  <2> HIDE DEF A, B, C, D, L, F
  <2>6. /\ L \in Seq(Loads) /\ Len(L) = 4 * F
        /\ \A f \in 1 .. F : /\ L[f] = A[f] /\ L[F + f] = B[f]
                             /\ L[2 * F + f] = C[f] /\ L[3 * F + f] = D[f]
    <3>1. L \in Seq(Loads) /\ Quarters(L, A, B, C, D, F)
      BY <1>1, <2>1, <2>2, <2>3, <2>4, <2>5, FourParts
    <3>2. QED
      BY <3>1 DEF Quarters
  <2>7. Len(L) = NUMCTRS * sockets
    BY <1>1, <1>4, <2>6
  <2>8. ASSUME NEW i \in Positions
        PROVE  i + 1 \in DOMAIN L /\ L[i + 1] = Reg(i, k)
    <3>1. i \in 0 .. 4 * F - 1
      BY <1>1, <1>4 DEF Positions
    <3>2. i + 1 \in DOMAIN L
      BY <1>1, <2>6, <3>1
    <3>3. ASSUME NEW s \in 0 .. 1, NEW d \in 0 .. 1, NEW X, NEW f \in 0 .. F - 1,
                 i = (2 * s + d) * F + f, L[i + 1] = X[f + 1],
                 X[f + 1] = <<<<s, d, f>>, k>>
          PROVE  L[i + 1] = Reg(i, k)
      <4>1. Label(i) = <<s, d, f>>
        BY <1>2, <1>4, <3>3
      <4>2. QED
        BY <3>3, <4>1 DEF Reg
    <3>4. CASE i < F
      <4>1. i \in 0 .. F - 1 /\ i = (2 * 0 + 0) * F + i /\ i + 1 \in 1 .. F
        BY <1>1, <3>1, <3>4
      <4>2. L[i + 1] = A[i + 1] /\ A[i + 1] = <<<<0, 0, i>>, k>>
        BY <2>1, <2>6, <4>1
      <4>3. QED
        BY <3>2, <3>3, <4>1, <4>2
    <3>5. CASE i >= F /\ i < 2 * F
      <4> DEFINE f == i - F
      <4>1. /\ f \in 0 .. F - 1 /\ i = (2 * 0 + 1) * F + f /\ f + 1 \in 1 .. F
            /\ F + (f + 1) = i + 1
        BY <1>1, <3>1, <3>5
      <4> HIDE DEF f
      <4>2. L[i + 1] = B[f + 1] /\ B[f + 1] = <<<<0, 1, f>>, k>>
        BY <2>2, <2>6, <4>1
      <4>3. QED
        BY <3>2, <3>3, <4>1, <4>2
    <3>6. CASE i >= 2 * F /\ i < 3 * F
      <4> DEFINE f == i - 2 * F
      <4>1. /\ f \in 0 .. F - 1 /\ i = (2 * 1 + 0) * F + f /\ f + 1 \in 1 .. F
            /\ 2 * F + (f + 1) = i + 1
        BY <1>1, <3>1, <3>6
      <4> HIDE DEF f
      <4>2. L[i + 1] = C[f + 1] /\ C[f + 1] = <<<<1, 0, f>>, k>>
        BY <2>3, <2>6, <4>1
      <4>3. QED
        BY <3>2, <3>3, <4>1, <4>2
    <3>7. CASE i >= 3 * F
      <4> DEFINE f == i - 3 * F
      <4>1. /\ f \in 0 .. F - 1 /\ i = (2 * 1 + 1) * F + f /\ f + 1 \in 1 .. F
            /\ 3 * F + (f + 1) = i + 1
        BY <1>1, <3>1, <3>7
      <4> HIDE DEF f
      <4>2. L[i + 1] = D[f + 1] /\ D[f + 1] = <<<<1, 1, f>>, k>>
        BY <2>4, <2>6, <4>1
      <4>3. QED
        BY <3>2, <3>3, <4>1, <4>2
    <3>8. QED
      BY <1>1, <3>1, <3>4, <3>5, <3>6, <3>7
  <2>9. QED
    BY <2>6, <2>7, <2>8 DEF L
<1>5. QED
  BY <1>3, <1>4

LEMMA SetOfTwo ==
    ASSUME NEW S, NEW A \in Seq(S), NEW B \in Seq(S)
    PROVE  /\ A \o B \in Seq(S) /\ Len(A \o B) = Len(A) + Len(B)
           /\ ToSet(A) \subseteq ToSet(A \o B) /\ ToSet(B) \subseteq ToSet(A \o B)
<1>1. /\ A \o B \in Seq(S) /\ Len(A \o B) = Len(A) + Len(B)
      /\ \A i \in 1 .. Len(A) : (A \o B)[i] = A[i]
      /\ \A i \in 1 .. Len(B) : (A \o B)[Len(A) + i] = B[i]
  OBVIOUS
<1>2. /\ DOMAIN A = 1 .. Len(A) /\ Len(A) \in Nat /\ DOMAIN B = 1 .. Len(B) /\ Len(B) \in Nat
      /\ DOMAIN (A \o B) = 1 .. Len(A) + Len(B)
  OBVIOUS
<1>3. ASSUME NEW i \in DOMAIN A
      PROVE  A[i] \in ToSet(A \o B)
  <2>1. i \in DOMAIN (A \o B) /\ (A \o B)[i] = A[i]
    BY <1>1, <1>2
  <2>2. QED
    BY <2>1 DEF ToSet
<1>4. ASSUME NEW i \in DOMAIN B
      PROVE  B[i] \in ToSet(A \o B)
  <2>1. Len(A) + i \in DOMAIN (A \o B) /\ (A \o B)[Len(A) + i] = B[i]
    BY <1>1, <1>2
  <2>2. QED
    BY <2>1 DEF ToSet
<1>5. QED
  BY <1>1, <1>3, <1>4 DEF ToSet

\* init_pmon_ctrs loads all that it allocated room for.
LEMMA LoadAllIs ==
    ASSUME sockets \in 1 .. 2
    PROVE  /\ LoadAll \in Seq(Loads) /\ Len(LoadAll) = RoomFor /\ RoomFor \in Nat \ {0}
           /\ \A i \in Positions, k \in Loaded : Reg(i, k) \in ToSet(LoadAll)
<1> DEFINE n == NUMCTRS * sockets
           A == LoadImc(0)
           B == LoadImc(1)
           C == LoadImc(2)
           D == LoadImc(3)
<1>1. n \in Nat \ {0} /\ RoomFor = 4 * n
  BY ImcAssumption DEF NUMCTRS, RoomFor
<1>2. ASSUME NEW k \in Loaded
      PROVE  /\ LoadImc(k) \in Seq(Loads) /\ Len(LoadImc(k)) = n
             /\ \A i \in Positions : Reg(i, k) \in ToSet(LoadImc(k))
  BY LoadImcIs DEF ToSet
<1>3. 0 \in Loaded /\ 1 \in Loaded /\ 2 \in Loaded /\ 3 \in Loaded
  BY DEF Loaded
<1>4. /\ A \in Seq(Loads) /\ Len(A) = n /\ B \in Seq(Loads) /\ Len(B) = n
      /\ C \in Seq(Loads) /\ Len(C) = n /\ D \in Seq(Loads) /\ Len(D) = n
  BY <1>2, <1>3
<1>5. LoadAll = ((A \o B) \o C) \o D
  BY DEF LoadAll
<1>6. \A i \in Positions : /\ Reg(i, 0) \in ToSet(A) /\ Reg(i, 1) \in ToSet(B)
                           /\ Reg(i, 2) \in ToSet(C) /\ Reg(i, 3) \in ToSet(D)
  BY <1>2, <1>3
<1> HIDE DEF n, A, B, C, D
<1> DEFINE P == A \o B
           Q == P \o C
<1>7. /\ P \in Seq(Loads) /\ Len(P) = 2 * n
      /\ ToSet(A) \subseteq ToSet(P) /\ ToSet(B) \subseteq ToSet(P)
  BY <1>1, <1>4, SetOfTwo
<1> HIDE DEF P
<1>8. /\ Q \in Seq(Loads) /\ Len(Q) = 3 * n
      /\ ToSet(P) \subseteq ToSet(Q) /\ ToSet(C) \subseteq ToSet(Q)
  BY <1>1, <1>4, <1>7, SetOfTwo
<1>9. LoadAll = Q \o D
  BY <1>5 DEF P
<1> HIDE DEF Q
<1>10. /\ LoadAll \in Seq(Loads) /\ Len(LoadAll) = 4 * n
       /\ ToSet(Q) \subseteq ToSet(LoadAll) /\ ToSet(D) \subseteq ToSet(LoadAll)
  <2> DEFINE R == Q \o D
  <2>1. /\ R \in Seq(Loads) /\ Len(R) = Len(Q) + Len(D)
        /\ ToSet(Q) \subseteq ToSet(R) /\ ToSet(D) \subseteq ToSet(R)
    BY <1>4, <1>8, SetOfTwo
  <2>2. LoadAll = R
    BY <1>9
  <2> HIDE DEF R
  <2>3. QED
    BY <1>1, <1>4, <1>8, <2>1, <2>2
<1>11. ASSUME NEW i \in Positions, NEW k \in Loaded
       PROVE  Reg(i, k) \in ToSet(LoadAll)
  <2>1. k = 0 \/ k = 1 \/ k = 2 \/ k = 3
    BY DEF Loaded
  <2>2. QED
    BY <1>6, <1>7, <1>8, <1>10, <2>1
<1>12. QED
  BY <1>1, <1>10, <1>11

-----------------------------------------------------------------------------
(* Batches that are filled.                                                *)

LEMMA CreateKeeps ==
    ASSUME NEW e, IsBlock(e), NEW new, NEW isread
    PROVE  IsBlock(Create(e, new, isread)) /\ Create(e, new, isread).live = e.live
BY DEF Create, IsBlock

\* Batch e has an operation for every register of new.
Filled(e, new, isread) ==
    /\ e.isread = isread /\ e.numops = Len(new)
    /\ ToSet(new) \subseteq DOMAIN e.data
    /\ ~isread => \A r \in ToSet(new) : e.data[r] = "none"

\* A batch with room for all that is created on it.
LEMMA CreateAll ==
    ASSUME NEW e, IsBlock(e), e.data = << >>, e.numops = 0, NEW S, NEW new \in Seq(S),
           e.size = Len(new), NEW isread \in BOOLEAN
    PROVE  Filled(Create(e, new, isread), new, isread)
<1> DEFINE put == SubSeq(new, 1, IF Len(new) <= Room(e) THEN Len(new) ELSE Room(e))
           words == [r \in DOMAIN e.data \cup ToSet(put) |->
                       IF r \notin ToSet(put) THEN e.data[r]
                       ELSE IF isread THEN << >> ELSE "none"]
<1>1. Len(new) \in Nat /\ Room(e) = Len(new)
  BY DEF Room
<1>2. put = new
  BY <1>1
<1>3. Create(e, new, isread)
        = [[[e EXCEPT !.data = words] EXCEPT !.isread = isread]
              EXCEPT !.numops = e.numops + Len(put)]
  BY DEF Create, IsBlock
<1> HIDE DEF put, words
<1>4. /\ Create(e, new, isread).isread = isread
      /\ Create(e, new, isread).numops = Len(new)
      /\ Create(e, new, isread).data = words
  BY <1>1, <1>2, <1>3 DEF IsBlock
<1>5. /\ ToSet(new) \subseteq DOMAIN words
      /\ ~isread => \A r \in ToSet(new) : words[r] = "none"
  BY <1>2 DEF words
<1>6. QED
  BY <1>4, <1>5 DEF Filled

NothingChosen == [k \in Counter |-> "none"]

\* init_pmon_ctrs fills the batches of counters and events and no other.
LEMMA PmonCtrsIs ==
    ASSUME NEW bs, AreBlocks(bs), Untried(bs, CSR_IMC_CTRS), Untried(bs, CSR_IMC_EVTS)
    PROVE  /\ ~LoopsFor(bs, CSR_IMC_CTRS) /\ ~LoopsFor(bs, CSR_IMC_EVTS)
           /\ AreBlocks(PmonCtrs(bs))
           /\ DOMAIN PmonCtrs(bs) = DOMAIN bs \cup 0 .. 1
           /\ \A m \in DOMAIN bs \ {0, 1} : PmonCtrs(bs)[m] = bs[m]
           /\ sockets \in 1 .. 2 =>
                 /\ CounterBatches(PmonCtrs(bs), NothingChosen)
                 /\ PmonCtrs(bs)[CSR_IMC_CTRS].numops = RoomFor
                 /\ PmonCtrs(bs)[CSR_IMC_EVTS].numops = RoomFor
<1> USE DEF CSR_IMC_CTRS, CSR_IMC_EVTS
<1> DEFINE one == Allocate(bs, 0, RoomFor)
           two == Allocate(one, 1, RoomFor)
           ctrs == Create(two[0], LoadAll, TRUE)
           evts == Create(two[1], LoadAll, FALSE)
           P == PmonCtrs(bs)
<1>1. /\ ~LoopsFor(bs, 0) /\ AreBlocks(one) /\ DOMAIN one = DOMAIN bs \cup 0 .. 0
      /\ one[0].live /\ one[0].data = << >> /\ one[0].numops = 0 /\ one[0].size = RoomFor
      /\ \A m \in DOMAIN bs \ {0} : one[m] = bs[m]
  <2>1. ~LoopsFor(bs, 0) /\ Allocated(one, bs, 0, RoomFor)
    BY AllocateIs
  <2> HIDE DEF one
  <2>2. QED
    BY <2>1 DEF Allocated
<1>2. ~LoopsFor(bs, 1)
  BY AllocateIs
<1>3. Untried(one, 1)
  BY <1>1 DEF Untried
<1> HIDE DEF one
<1>4. /\ AreBlocks(two) /\ DOMAIN two = DOMAIN one \cup 0 .. 1
      /\ two[1].live /\ two[1].data = << >> /\ two[1].numops = 0 /\ two[1].size = RoomFor
      /\ \A m \in DOMAIN one \ {1} : two[m] = one[m]
  <2>1. Allocated(two, one, 1, RoomFor)
    BY <1>1, <1>3, AllocateIs
  <2> HIDE DEF two
  <2>2. QED
    BY <2>1 DEF Allocated
<1>5. P = [[two EXCEPT ![0] = ctrs] EXCEPT ![1] = evts]
  <2>1. 0 \in DOMAIN two /\ 1 \in DOMAIN two
    BY <1>4
  <2>2. QED
    BY <2>1 DEF PmonCtrs, one
<1> HIDE DEF two
<1>6. IsBlock(two[0]) /\ IsBlock(two[1]) /\ two[0] = one[0]
  BY <1>1, <1>4 DEF AreBlocks
<1>7. IsBlock(ctrs) /\ ctrs.live = two[0].live /\ IsBlock(evts) /\ evts.live = two[1].live
  BY <1>6, CreateKeeps
<1> HIDE DEF ctrs, evts, P
<1>8. /\ AreBlocks(P) /\ DOMAIN P = DOMAIN two /\ P[0] = ctrs /\ P[1] = evts
      /\ \A m \in DOMAIN two \ {0, 1} : P[m] = two[m]
  <2> DEFINE O == [two EXCEPT ![0] = ctrs]
  <2>1. 0 \in DOMAIN two /\ 1 \in DOMAIN two
    BY <1>4
  <2>2. /\ AreBlocks(O) /\ DOMAIN O = DOMAIN two /\ O[0] = ctrs
        /\ \A m \in DOMAIN two \ {0} : O[m] = two[m]
    BY <1>4, <1>7, <2>1, BlocksExcept
  <2>3. P = [O EXCEPT ![1] = evts]
    BY <1>5
  <2> HIDE DEF O
  <2>4. /\ AreBlocks(P) /\ DOMAIN P = DOMAIN O /\ P[1] = evts
        /\ \A m \in DOMAIN O \ {1} : P[m] = O[m]
    BY <1>7, <2>1, <2>2, <2>3, BlocksExcept
  <2>5. QED
    BY <2>1, <2>2, <2>4
<1>9. DOMAIN P = DOMAIN bs \cup 0 .. 1 /\ \A m \in DOMAIN bs \ {0, 1} : P[m] = bs[m]
  <2>1. DOMAIN P = DOMAIN bs \cup 0 .. 1
    BY <1>1, <1>4, <1>8
  <2>2. \A m \in DOMAIN bs \ {0, 1} : m \in DOMAIN one \ {1} /\ m \in DOMAIN two
    BY <1>1, <1>4
  <2>3. QED
    BY <1>1, <1>4, <1>8, <2>1, <2>2
<1>10. ASSUME sockets \in 1 .. 2
       PROVE  CounterBatches(P, NothingChosen) /\ P[0].numops = RoomFor /\ P[1].numops = RoomFor
  <2>1. /\ LoadAll \in Seq(Loads) /\ Len(LoadAll) = RoomFor /\ RoomFor \in Nat \ {0}
        /\ \A i \in Positions, k \in Loaded : Reg(i, k) \in ToSet(LoadAll)
    BY <1>10, LoadAllIs
  <2>2. ctrs.isread = TRUE /\ ctrs.numops = RoomFor /\ ToSet(LoadAll) \subseteq DOMAIN ctrs.data
    <3>1. Filled(ctrs, LoadAll, TRUE)
      BY <1>1, <1>6, <2>1, CreateAll DEF ctrs
    <3>2. QED
      BY <2>1, <3>1 DEF Filled
  <2>3. /\ evts.isread = FALSE /\ evts.numops = RoomFor
        /\ ToSet(LoadAll) \subseteq DOMAIN evts.data
        /\ \A r \in ToSet(LoadAll) : evts.data[r] = "none"
    <3>1. Filled(evts, LoadAll, FALSE)
      BY <1>4, <1>6, <2>1, CreateAll DEF evts
    <3>2. QED
      BY <2>1, <3>1 DEF Filled
  <2>4. ctrs.live /\ evts.live
    BY <1>1, <1>4, <1>6, <1>7
  <2>5. \A k \in Loaded : NothingChosen[k] = "none"
    BY DEF NothingChosen, Loaded, Counter
  <2>6. QED
    BY <1>8, <1>9, <2>1, <2>2, <2>3, <2>4, <2>5 DEF CounterBatches
<1>11. QED
  BY <1>1, <1>2, <1>8, <1>9, <1>10 DEF P

\* The pointers to counters and events that init_pmon_ctrs leaves.
LEMMA PointersAre ==
    ASSUME sockets \in 1 .. 2, NEW i \in Positions, NEW k \in Loaded
    PROVE  Pointers(RoomFor)[k][i] = Reg(i, k)
<1> DEFINE n == NUMCTRS * sockets
<1>1. n \in Nat \ {0} /\ RoomFor = 4 * n
  BY ImcAssumption DEF NUMCTRS, RoomFor
<1>2. Len(LoadImc(0)) = n /\ LoadImc(k)[i + 1] = Reg(i, k)
  BY LoadImcIs DEF Loaded
<1>3. i \in 0 .. n - 1 /\ k \in 0 .. 3 /\ k \in Counter
  BY DEF Positions, Loaded, Counter
<1>4. i < n /\ k * n + i < RoomFor
  <2> HIDE DEF n
  <2>1. k = 0 \/ k = 1 \/ k = 2 \/ k = 3
    BY <1>3
  <2>2. CASE k = 0
    BY <1>1, <1>3, <2>2
  <2>3. CASE k = 1
    BY <1>1, <1>3, <2>3
  <2>4. CASE k = 2
    BY <1>1, <1>3, <2>4
  <2>5. CASE k = 3
    BY <1>1, <1>3, <2>5
  <2>6. QED
    BY <1>3, <2>1, <2>2, <2>3, <2>4, <2>5
<1>5. QED
  BY <1>2, <1>3, <1>4 DEF Pointers

-----------------------------------------------------------------------------
(* do_csr_batch_op and pmon_config.                                        *)

\* What do_csr_batch_op leaves, d, when batch b of bs is there: the words of a
\* batch that was read, or the registers of one that was written.
Carried(d, bs, regs, b) ==
    /\ AreBlocks(d.bs) /\ DOMAIN bs \subseteq DOMAIN d.bs
    /\ \A m \in DOMAIN d.bs \ DOMAIN bs : d.bs[m] = NoBlock
    /\ \A m \in DOMAIN bs \ {b} : d.bs[m] = bs[m]
    /\ d.bs[b].live = bs[b].live /\ d.bs[b].isread = bs[b].isread
    /\ d.bs[b].numops = bs[b].numops /\ DOMAIN d.bs[b].data = DOMAIN bs[b].data
    /\ d.sent.to \in {"none", File(BatchFile)}
    /\ bs[b].isread => d.regs = regs
    /\ bs[b].isread /\ d.sent.done =>
          \A r \in DOMAIN bs[b].data : d.bs[b].data[r] = <<r[1], regs[r]>>
    /\ ~bs[b].isread => d.bs[b] = bs[b]
    /\ ~bs[b].isread /\ ~d.sent.done => d.regs = regs
    /\ ~bs[b].isread /\ d.sent.done =>
          d.regs = [r \in DOMAIN regs |-> IF r \in DOMAIN bs[b].data THEN bs[b].data[r]
                                          ELSE regs[r]]

LEMMA DoBatchIs ==
    ASSUME NEW bs, AreBlocks(bs), NEW b \in DOMAIN bs, NEW regs, NEW works
    PROVE  Carried(DoBatch(bs, regs, b, works), bs, regs, b)
<1> DEFINE st == Storage(bs, b)
           e == st[b]
           file == File(BatchFile)
           done == e.numops > 0 /\ e.live /\ file = "csr" /\ works
           read == [bs EXCEPT ![b].data = [r \in DOMAIN @ |-> <<r[1], regs[r]>>]]
           d == DoBatch(bs, regs, b, works)
<1>1. /\ AreBlocks(st) /\ DOMAIN st = DOMAIN bs \cup 0 .. b
      /\ \A m \in DOMAIN bs : st[m] = bs[m]
      /\ \A m \in (0 .. b) \ DOMAIN bs : st[m] = NoBlock
  BY StorageIs
<1>2. e = bs[b] /\ IsBlock(bs[b])
  BY <1>1 DEF AreBlocks
<1>3. /\ d.bs = IF ~(done /\ e.isread) THEN st ELSE read
      /\ d.regs = IF ~done \/ e.isread THEN regs
                  ELSE [r \in DOMAIN regs |-> IF r \in DOMAIN e.data THEN e.data[r]
                                              ELSE regs[r]]
      /\ d.sent = [to |-> IF e.numops = 0 THEN "none" ELSE file, done |-> done]
  BY DEF DoBatch
<1> HIDE DEF st, done, file, d, e
<1> DEFINE words == [r \in DOMAIN bs[b].data |-> <<r[1], regs[r]>>]
           f == [bs[b] EXCEPT !.data = words]
<1>4. read = [bs EXCEPT ![b] = f]
  OBVIOUS
<1>5. IsBlock(f) /\ f.live = bs[b].live /\ f.isread = bs[b].isread
      /\ f.numops = bs[b].numops /\ f.data = words
  <2> HIDE DEF words
  <2> QED BY <1>2 DEF IsBlock
<1>6. DOMAIN words = DOMAIN bs[b].data /\ \A r \in DOMAIN bs[b].data : words[r] = <<r[1], regs[r]>>
  OBVIOUS
<1> HIDE DEF f, words, read
<1>7. /\ AreBlocks(read) /\ DOMAIN read = DOMAIN bs /\ read[b] = f
      /\ \A m \in DOMAIN bs \ {b} : read[m] = bs[m]
  BY <1>4, <1>5, BlocksExcept

<1>8. ASSUME done, e.isread PROVE Carried(d, bs, regs, b)
  <2>1. d.bs = read /\ d.regs = regs /\ d.sent.to \in {"none", file}
    BY <1>3, <1>8
  <2>2. QED
    BY <1>2, <1>5, <1>6, <1>7, <1>8, <2>1 DEF Carried, file
<1>9. ASSUME ~done PROVE Carried(d, bs, regs, b)
  <2>1. d.bs = st /\ d.regs = regs /\ d.sent.to \in {"none", file} /\ ~d.sent.done
    BY <1>3, <1>9
  <2>2. QED
    BY <1>1, <1>2, <2>1 DEF Carried, file
<1>10. ASSUME done, ~e.isread PROVE Carried(d, bs, regs, b)
  <2>1. /\ d.bs = st /\ d.sent.to \in {"none", file} /\ d.sent.done
        /\ d.regs = [r \in DOMAIN regs |-> IF r \in DOMAIN bs[b].data THEN bs[b].data[r]
                                           ELSE regs[r]]
    BY <1>2, <1>3, <1>10
  <2>2. QED
    BY <1>1, <1>2, <1>10, <2>1 DEF Carried, file
<1>11. QED
  BY <1>8, <1>9, <1>10 DEF d

\* The batches go to the device or to a descriptor that is not open.
LEMMA FileIsOurs ==
    ASSUME DescriptorsOK, "init_csr" \in begun
    PROVE  /\ File(BatchFile) \in {"csr", "closed"}
           /\ BatchFile \in {0, fd}
<1>1. descr[1] = "stdin" /\ (fd = -1 \/ (fd = 1 /\ descr[2] = "csr")) /\ batchfd \in {0, fd}
  BY DEF DescriptorsOK, NoFile
<1>2. BatchFile = fd
  BY <1>1 DEF BatchFile
<1>3. QED
  BY <1>1, <1>2 DEF File

\* Between the pmon_config calls of a program that keeps to its terms.
Consistent(st) ==
    /\ AreBlocks(st.bs) /\ CounterBatches(st.bs, st.set)
    /\ st.regs = [r \in Channels(sockets) \X Counter |-> st.regs[r]]
    /\ st.set = [k \in Counter |-> st.set[k]]
    /\ st.applied => Selected(st.regs, st.set)
    /\ ~st.broken
    /\ st.sent.to \in {"none", "csr", "closed"}
    /\ {0, 1} \subseteq DOMAIN batch /\ DOMAIN batch \subseteq DOMAIN st.bs
    /\ \A m \in DOMAIN st.bs \ DOMAIN batch : st.bs[m] = NoBlock
    /\ \A m \in DOMAIN batch \ {0, 1} : st.bs[m] = batch[m]

LEMMA SetPmonConfigIs ==
    ASSUME sockets \in 1 .. 2, PointersOK, NEW bs, AreBlocks(bs), NEW set,
           set = [k \in Counter |-> set[k]], CounterBatches(bs, set),
           NEW k \in Loaded, NEW event
    PROVE  /\ AreBlocks(SetPmonConfig(bs, k, event))
           /\ DOMAIN SetPmonConfig(bs, k, event) = DOMAIN bs
           /\ \A m \in DOMAIN bs \ {1} : SetPmonConfig(bs, k, event)[m] = bs[m]
           /\ CounterBatches(SetPmonConfig(bs, k, event), [set EXCEPT ![k] = event])
<1> USE DEF CSR_IMC_CTRS, CSR_IMC_EVTS
<1> DEFINE words == [r \in DOMAIN bs[1].data |->
                       IF \E i \in Positions : pmon.cfg[k][i] = r THEN event
                       ELSE bs[1].data[r]]
           e == [bs[1] EXCEPT !.data = words]
           new == SetPmonConfig(bs, k, event)
           chosen == [set EXCEPT ![k] = event]
<1>1. 1 \in DOMAIN bs /\ 0 \in DOMAIN bs /\ IsBlock(bs[1])
  BY DEF CounterBatches, AreBlocks
<1>2. new = [bs EXCEPT ![1] = e]
  BY DEF SetPmonConfig
<1>3. DOMAIN words = DOMAIN bs[1].data
  OBVIOUS
<1>4. ASSUME NEW i \in Positions, NEW m \in Loaded
      PROVE  Reg(i, m) \in DOMAIN words /\ words[Reg(i, m)] = chosen[m]
  <2>1. Reg(i, m) \in DOMAIN bs[1].data /\ bs[1].data[Reg(i, m)] = set[m]
    BY DEF CounterBatches
  <2>2. \A j \in Positions : pmon.cfg[k][j] = Reg(j, k)
    BY DEF PointersOK
  <2>3. k \in Counter /\ m \in Counter
    BY DEF Loaded, Counter
  <2>4. CASE m = k
    <3>1. \E j \in Positions : pmon.cfg[k][j] = Reg(i, m)
      BY <2>2, <2>4
    <3>2. QED
      BY <2>1, <2>3, <2>4, <3>1
  <2>5. CASE m # k
    <3>1. ~ \E j \in Positions : pmon.cfg[k][j] = Reg(i, m)
      BY <2>2, <2>5 DEF Reg
    <3>2. words[Reg(i, m)] = set[m]
      BY <2>1, <3>1
    <3>3. chosen[m] = set[m]
      BY <2>3, <2>5
    <3>4. QED
      BY <2>1, <3>2, <3>3
  <2>6. QED
    BY <2>4, <2>5
<1> HIDE DEF words
<1>5. /\ IsBlock(e) /\ e.live = bs[1].live /\ e.isread = bs[1].isread
      /\ e.numops = bs[1].numops /\ e.data = words
  BY <1>1 DEF IsBlock
<1> HIDE DEF e, new, chosen
<1>6. /\ AreBlocks(new) /\ DOMAIN new = DOMAIN bs /\ new[1] = e
      /\ \A m \in DOMAIN bs \ {1} : new[m] = bs[m]
  BY <1>1, <1>2, <1>5, BlocksExcept
<1>7. CounterBatches(new, chosen)
  BY <1>1, <1>4, <1>5, <1>6 DEF CounterBatches
<1>8. QED
  BY <1>6, <1>7 DEF new, chosen

LEMMA RegIsThere ==
    ASSUME sockets \in Nat \ {0}, NEW i \in Positions, NEW k \in Loaded
    PROVE  Reg(i, k) \in Channels(sockets) \X Counter
<1>1. Label(i) \in Channels(sockets)
  BY LabelIs
<1>2. QED
  BY <1>1 DEF Reg, Loaded, Counter

\* One pmon_config call: the event is in the words of all channels, whatever the
\* driver does, and in their registers if the write was done.
LEMMA PmonConfigIs ==
    ASSUME sockets \in 1 .. 2, PointersOK, DescriptorsOK, "init_csr" \in begun,
           NEW st, Consistent(st), NEW k \in Loaded, NEW event, NEW works
    PROVE  Consistent(PmonConfig(st, k, event, works))
<1> USE DEF CSR_IMC_CTRS, CSR_IMC_EVTS
<1> DEFINE words == SetPmonConfig(st.bs, k, event)
           chosen == [st.set EXCEPT ![k] = event]
           done == DoBatch(words, st.regs, 1, works)
           end == PmonConfig(st, k, event, works)
<1>1. /\ AreBlocks(st.bs) /\ CounterBatches(st.bs, st.set)
      /\ st.regs = [r \in Channels(sockets) \X Counter |-> st.regs[r]]
      /\ st.set = [m \in Counter |-> st.set[m]] /\ ~st.broken
      /\ {0, 1} \subseteq DOMAIN batch /\ DOMAIN batch \subseteq DOMAIN st.bs
      /\ \A m \in DOMAIN st.bs \ DOMAIN batch : st.bs[m] = NoBlock
      /\ \A m \in DOMAIN batch \ {0, 1} : st.bs[m] = batch[m]
  BY DEF Consistent
<1>2. /\ AreBlocks(words) /\ DOMAIN words = DOMAIN st.bs
      /\ \A m \in DOMAIN st.bs \ {1} : words[m] = st.bs[m]
      /\ CounterBatches(words, chosen)
  BY <1>1, SetPmonConfigIs
<1>3. k \in Counter /\ 0 \in Positions
  BY ImcAssumption DEF Loaded, Counter, Positions, NUMCTRS
<1>4. \A i \in Positions : pmon.cfg[k][i] # Null
  BY DEF PointersOK, Reg, Null
<1> HIDE DEF words, done, chosen
<1>5. /\ end.bs = done.bs /\ end.regs = done.regs /\ end.sent = done.sent
      /\ end.set = chosen /\ end.applied = done.sent.done /\ ~end.broken
  <2> DEFINE unset == pmon.cfg[k][0] = Null
             through == ~unset /\ \E i \in Positions : pmon.cfg[k][i] = Null
  <2>1. ~unset /\ ~through
    BY <1>3, <1>4
  <2> DEFINE astray == st.broken \/ through
             ws == IF unset \/ through THEN st.bs ELSE SetPmonConfig(st.bs, k, event)
             dn == DoBatch(ws, st.regs, 1, works)
  <2>2. end = [bs |-> dn.bs, regs |-> dn.regs, sent |-> dn.sent,
               ret |-> IF unset \/ dn.ret # 0 THEN -1 ELSE st.ret,
               set |-> IF unset THEN st.set ELSE [st.set EXCEPT ![k] = event],
               applied |-> dn.sent.done, broken |-> astray]
    BY <1>3 DEF PmonConfig
  <2>3. ~astray
    BY <1>1, <2>1
  <2>4. ws = words /\ dn = done
    BY <2>1 DEF words, done
  <2> HIDE DEF unset, through, end, astray, ws, dn
  <2>5. QED
    BY <2>1, <2>2, <2>3, <2>4 DEF chosen
<1> HIDE DEF end
<1>6. 1 \in DOMAIN words /\ ~words[1].isread
  BY <1>2 DEF CounterBatches
<1>7. Carried(done, words, st.regs, 1)
  BY <1>2, <1>6, DoBatchIs DEF done
<1>8. /\ AreBlocks(done.bs) /\ DOMAIN words \subseteq DOMAIN done.bs
      /\ \A m \in DOMAIN done.bs \ DOMAIN words : done.bs[m] = NoBlock
      /\ \A m \in DOMAIN words : done.bs[m] = words[m]
      /\ done.sent.to \in {"none", File(BatchFile)}
  BY <1>6, <1>7 DEF Carried
<1>9. CounterBatches(done.bs, chosen)
  BY <1>2, <1>8 DEF CounterBatches
<1>10. ASSUME done.sent.done
       PROVE  Selected(done.regs, chosen)
  <2>1. done.regs = [r \in DOMAIN st.regs |->
                       IF r \in DOMAIN words[1].data THEN words[1].data[r] ELSE st.regs[r]]
    BY <1>6, <1>7, <1>10 DEF Carried
  <2>2. ASSUME NEW i \in Positions, NEW m \in Loaded
        PROVE  done.regs[Reg(i, m)] = chosen[m]
    <3>1. Reg(i, m) \in DOMAIN words[1].data /\ words[1].data[Reg(i, m)] = chosen[m]
      BY <1>2 DEF CounterBatches
    <3>2. Reg(i, m) \in DOMAIN st.regs
      BY <1>1, RegIsThere
    <3>3. QED
      BY <2>1, <3>1, <3>2
  <2>3. QED
    BY <2>2 DEF Selected
<1>11. done.regs = [r \in Channels(sockets) \X Counter |-> done.regs[r]]
  <2>1. CASE done.sent.done
    BY <1>1, <1>6, <1>7, <2>1 DEF Carried
  <2>2. CASE ~done.sent.done
    BY <1>1, <1>6, <1>7, <2>2 DEF Carried
  <2>3. QED
    BY <2>1, <2>2
<1>12. chosen = [m \in Counter |-> chosen[m]]
  BY <1>1 DEF chosen
<1>13. done.sent.to \in {"none", "csr", "closed"}
  BY <1>8, FileIsOurs
<1>14. /\ DOMAIN batch \subseteq DOMAIN done.bs
       /\ \A m \in DOMAIN done.bs \ DOMAIN batch : done.bs[m] = NoBlock
       /\ \A m \in DOMAIN batch \ {0, 1} : done.bs[m] = batch[m]
  <2>1. \A m \in DOMAIN st.bs \ {0, 1} : done.bs[m] = st.bs[m]
    BY <1>2, <1>8
  <2>2. {0, 1} \subseteq DOMAIN batch /\ DOMAIN batch \subseteq DOMAIN st.bs
    BY <1>1
  <2>3. ASSUME NEW m \in DOMAIN done.bs \ DOMAIN batch
        PROVE  done.bs[m] = NoBlock
    <3>1. CASE m \in DOMAIN st.bs
      BY <1>1, <2>1, <2>2, <2>3, <3>1
    <3>2. CASE m \notin DOMAIN st.bs
      BY <1>2, <1>8, <2>3, <3>2
    <3>3. QED
      BY <3>1, <3>2
  <2>4. \A m \in DOMAIN batch \ {0, 1} : done.bs[m] = batch[m]
    BY <1>1, <2>1, <2>2
  <2>5. QED
    BY <1>2, <1>8, <2>2, <2>3, <2>4
<1>15. QED
  <2>1. Consistent(end)
    BY <1>1, <1>5, <1>8, <1>9, <1>10, <1>11, <1>12, <1>13, <1>14 DEF Consistent
  <2>2. QED
    BY <2>1 DEF end

-----------------------------------------------------------------------------
(* The steps.                                                              *)

LEMMA InitInv == Init => IInv
<1> SUFFICES ASSUME Init PROVE InTerms
  BY DEF IInv
<1>1. MachineOK
  BY DEF Init, MachineOK
<1>2. DescriptorsOK
  BY DEF Init, DescriptorsOK
<1>3. DOMAIN batch = {}
  BY DEF Init
<1>4. AreBlocks(batch) /\ CountersOK /\ UnitsOK
  BY <1>3 DEF Init, AreBlocks, CountersOK, UnitsOK, Untried
<1>5. EventsOK
  <2>1. sockets \in Nat \ {0}
    BY ImcAssumption DEF Init
  <2>2. \A k \in Loaded : k \in Counter
    BY DEF Loaded, Counter
  <2>3. Selected(csr, wanted)
    BY <2>1, <2>2, RegIsThere DEF Init, Selected
  <2>4. QED
    BY <2>3 DEF Init, EventsOK
<1>6. PrintsWhatWasAsked /\ NothingBroken /\ OwnDevice
  BY DEF Init, PrintsWhatWasAsked, NothingBroken, OwnDevice, NotSent
<1>7. QED
  BY <1>1, <1>2, <1>4, <1>5, <1>6 DEF InTerms

\* What stays true when neither batches nor registers nor events change.
LEMMA SameBatches ==
    ASSUME InTerms, UNCHANGED <<sockets, csr, batch, pmon, wanted, applied>>,
           ("init_pmon_ctrs" \in begun') <=> ("init_pmon_ctrs" \in begun),
           ("init_pmonctr_global" \in begun') <=> ("init_pmonctr_global" \in begun)
    PROVE  MachineOK' /\ AreBlocks(batch)' /\ CountersOK' /\ UnitsOK' /\ EventsOK'
<1>1. MachineOK' /\ AreBlocks(batch)'
  BY DEF InTerms, MachineOK, AreBlocks
<1>2. Positions' = Positions
  BY DEF Positions
<1>3. (CounterBatches(batch, wanted) => CounterBatches(batch, wanted)')
      /\ (PointersOK => PointersOK') /\ (Selected(csr, wanted) => Selected(csr, wanted)')
  BY <1>2 DEF CounterBatches, PointersOK, Selected
<1>4. CountersOK' /\ UnitsOK' /\ EventsOK'
  BY <1>3 DEF InTerms, CountersOK, UnitsOK, EventsOK, Untried
<1>5. QED
  BY <1>1, <1>4

\* Nothing is printed.
LEMMA NoLines ==
    ASSUME printed' = << >>
    PROVE  PrintsWhatWasAsked'
BY DEF PrintsWhatWasAsked

LEMMA LookAtLinesInv ==
    ASSUME InTerms, LookAtLines, ~outside
    PROVE  InTerms'
<1>1. /\ MachineOK' /\ AreBlocks(batch)' /\ CountersOK' /\ UnitsOK' /\ EventsOK'
      /\ PrintsWhatWasAsked'
  BY SameBatches, NoLines DEF LookAtLines
<1>2. DescriptorsOK' /\ NothingBroken' /\ OwnDevice'
  BY DEF LookAtLines, InTerms, DescriptorsOK, NothingBroken, OwnDevice, NotSent
<1>3. QED
  BY <1>1, <1>2 DEF InTerms

LEMMA InitCsrInv ==
    ASSUME InTerms, InitCsr, ~outside
    PROVE  InTerms'
<1>1. /\ UNCHANGED <<sockets, csr, batchfd, batch, pmon, sent, wanted, applied, outside, broken>>
      /\ begun' = begun \/ begun' = begun \cup {"init_csr"}
      /\ printed' = << >>
  BY DEF InitCsr
<1>2. /\ MachineOK' /\ AreBlocks(batch)' /\ CountersOK' /\ UnitsOK' /\ EventsOK'
      /\ PrintsWhatWasAsked'
  BY <1>1, SameBatches, NoLines
<1>3. DescriptorsOK'
  <2>1. CASE "init_csr" \in begun
    BY <2>1 DEF InitCsr, InTerms, DescriptorsOK
  <2>2. CASE "init_csr" \notin begun
    <3>1. fd = 0 /\ batchfd = 0 /\ descr[1] = "stdin" /\ descr = <<"stdin", descr[2]>>
      BY <2>2 DEF InTerms, DescriptorsOK
    <3>2. begun' = begun \cup {"init_csr"}
      BY <2>2 DEF InitCsr
    <3>3. CASE fd' = NoFile /\ UNCHANGED descr
      BY <1>1, <3>1, <3>2, <3>3 DEF DescriptorsOK
    <3>4. CASE Closed # {} /\ fd' = Lowest /\ descr' = [descr EXCEPT ![Lowest + 1] = "csr"]
      <4>1. Closed = {1}
        BY <3>1, <3>4 DEF Closed
      <4>2. Lowest = 1
        BY <4>1 DEF Lowest
      <4>3. descr' = <<"stdin", "csr">>
        BY <3>1, <3>4, <4>2
      <4>4. QED
        BY <1>1, <3>1, <3>2, <3>4, <4>2, <4>3 DEF DescriptorsOK
    <3>5. QED
      BY <2>2, <3>3, <3>4 DEF InitCsr
  <2>3. QED
    BY <2>1, <2>2
<1>4. NothingBroken' /\ OwnDevice'
  BY <1>1 DEF InTerms, NothingBroken, OwnDevice
<1>5. QED
  BY <1>2, <1>3, <1>4 DEF InTerms

LEMMA AppOpensInv ==
    ASSUME InTerms, AppOpens, ~outside
    PROVE  InTerms'
<1>1. /\ UNCHANGED <<sockets, csr, fd, batchfd, begun, batch, pmon, sent, wanted, applied,
                     outside, broken>>
      /\ printed' = << >> /\ Closed # {}
      /\ descr' = [descr EXCEPT ![Lowest + 1] = "other"]
  BY DEF AppOpens
<1>2. /\ MachineOK' /\ AreBlocks(batch)' /\ CountersOK' /\ UnitsOK' /\ EventsOK'
      /\ PrintsWhatWasAsked'
  BY <1>1, SameBatches, NoLines
<1>3. DescriptorsOK'
  <2>1. descr[1] = "stdin" /\ descr = <<"stdin", descr[2]>>
    BY DEF InTerms, DescriptorsOK
  <2>2. Closed = {1} /\ descr[2] = "closed"
    BY <1>1, <2>1 DEF Closed
  <2>3. Lowest = 1
    BY <2>2 DEF Lowest
  <2>4. descr' = <<"stdin", "other">>
    BY <1>1, <2>1, <2>3
  <2>5. QED
    BY <1>1, <2>2, <2>4 DEF InTerms, DescriptorsOK
<1>4. NothingBroken' /\ OwnDevice'
  BY <1>1 DEF InTerms, NothingBroken, OwnDevice
<1>5. QED
  BY <1>2, <1>3, <1>4 DEF InTerms

LEMMA InitPmonCtrsInv ==
    ASSUME InTerms, InitPmonCtrs, ~outside
    PROVE  InTerms'
<1> USE DEF CSR_IMC_CTRS, CSR_IMC_EVTS
<1>1. /\ UNCHANGED <<sockets, csr, descr, fd, batchfd, sent, wanted, applied, outside>>
      /\ printed' = << >>
      /\ begun' = begun \cup {"init_pmon_ctrs"}
  BY DEF InitPmonCtrs
<1>2. DescriptorsOK' /\ PrintsWhatWasAsked' /\ OwnDevice'
  BY <1>1, NoLines DEF InTerms, DescriptorsOK, OwnDevice
<1>3. CASE "init_pmon_ctrs" \in begun
  <2>1. UNCHANGED <<begun, batch, pmon, broken>>
    BY <1>3 DEF InitPmonCtrs
  <2>2. MachineOK' /\ AreBlocks(batch)' /\ CountersOK' /\ UnitsOK' /\ EventsOK'
    BY <1>1, <2>1, SameBatches
  <2>3. NothingBroken'
    BY <1>1, <2>1 DEF InTerms, NothingBroken
  <2>4. QED
    BY <1>2, <2>2, <2>3 DEF InTerms
<1>4. CASE "init_pmon_ctrs" \notin begun
  <2>1. /\ broken' = (LoopsFor(batch, 0) \/ LoopsFor(batch, 1))
        /\ batch' = PmonCtrs(batch)
        /\ pmon' = [ctr |-> Pointers(batch'[0].numops), cfg |-> Pointers(batch'[1].numops)]
    BY <1>4 DEF InitPmonCtrs
  <2>2. /\ AreBlocks(batch) /\ Untried(batch, 0) /\ Untried(batch, 1)
        /\ \A k \in Counter : wanted[k] = "none"
        /\ wanted = [k \in Counter |-> wanted[k]]
    BY <1>4 DEF InTerms, CountersOK, EventsOK
  <2>3. /\ ~LoopsFor(batch, 0) /\ ~LoopsFor(batch, 1) /\ AreBlocks(batch')
        /\ DOMAIN batch' = DOMAIN batch \cup 0 .. 1
        /\ \A m \in DOMAIN batch \ {0, 1} : batch'[m] = batch[m]
        /\ sockets \in 1 .. 2 => /\ CounterBatches(batch', NothingChosen)
                                 /\ batch'[0].numops = RoomFor
                                 /\ batch'[1].numops = RoomFor
    BY <2>1, <2>2, PmonCtrsIs
  <2>4. MachineOK' /\ AreBlocks(batch)' /\ NothingBroken'
    <3>1. ~broken'
      BY <2>1, <2>3
    <3>2. QED
      BY <1>1, <2>3, <3>1 DEF InTerms, MachineOK, NothingBroken, AreBlocks
  <2>5. wanted = NothingChosen
    BY <2>2 DEF NothingChosen
  <2>6. Positions' = Positions
    BY <1>1 DEF Positions
  <2>7. CountersOK'
    <3>1. ASSUME sockets <= 2
          PROVE  CounterBatches(batch, wanted)' /\ PointersOK'
      <4>1. sockets \in 1 .. 2
        BY <3>1, ImcAssumption DEF InTerms, MachineOK
      <4>2. CounterBatches(batch', wanted)
        BY <2>3, <2>5, <4>1
      <4>3. CounterBatches(batch, wanted)'
        BY <1>1, <2>6, <4>2 DEF CounterBatches
      <4>4. \A i \in Positions, k \in Loaded : Pointers(RoomFor)[k][i] = Reg(i, k)
        BY <4>1, PointersAre
      <4>5. pmon'.ctr = Pointers(RoomFor) /\ pmon'.cfg = Pointers(RoomFor)
        BY <2>1, <2>3, <4>1
      <4>6. PointersOK'
        BY <2>6, <4>4, <4>5 DEF PointersOK
      <4>7. QED
        BY <4>3, <4>6
    <3>2. QED
      BY <1>1, <3>1 DEF CountersOK
  <2>8. UnitsOK'
    <3>1. ("init_pmonctr_global" \in begun') <=> ("init_pmonctr_global" \in begun)
      BY <1>1
    <3>2. \A m \in {2, 3} : /\ (m \in DOMAIN batch') <=> (m \in DOMAIN batch)
                            /\ m \in DOMAIN batch => batch'[m] = batch[m]
      BY <2>3
    <3>3. QED
      BY <3>1, <3>2 DEF InTerms, UnitsOK, Untried, CSR_IMC_PMONUNITCTRL, CSR_IMC_PMONUNITSTAT
  <2>9. EventsOK'
    BY <1>1, <2>6 DEF InTerms, EventsOK, Selected
  <2>10. QED
    BY <1>2, <2>4, <2>7, <2>8, <2>9 DEF InTerms
<1>5. QED
  BY <1>3, <1>4

LEMMA InitPmonctrGlobalInv ==
    ASSUME InTerms, InitPmonctrGlobal, ~outside
    PROVE  InTerms'
<1> USE DEF CSR_IMC_CTRS, CSR_IMC_EVTS, CSR_IMC_PMONUNITCTRL, CSR_IMC_PMONUNITSTAT
<1>1. /\ UNCHANGED <<sockets, csr, descr, fd, batchfd, pmon, sent, wanted, applied, outside>>
      /\ printed' = << >>
      /\ begun' = begun \cup {"init_pmonctr_global"}
  BY DEF InitPmonctrGlobal
<1>2. DescriptorsOK' /\ PrintsWhatWasAsked' /\ OwnDevice' /\ MachineOK'
  BY <1>1, NoLines DEF InTerms, DescriptorsOK, OwnDevice, MachineOK
<1>3. CASE "init_pmonctr_global" \in begun
  <2>1. UNCHANGED <<begun, batch, broken>>
    BY <1>3 DEF InitPmonctrGlobal
  <2>2. AreBlocks(batch)' /\ CountersOK' /\ UnitsOK' /\ EventsOK'
    BY <1>1, <2>1, SameBatches
  <2>3. NothingBroken'
    BY <1>1, <2>1 DEF InTerms, NothingBroken
  <2>4. QED
    BY <1>2, <2>2, <2>3 DEF InTerms
<1>4. CASE "init_pmonctr_global" \notin begun
  <2> DEFINE n == NUMCTRS * sockets
             one == Allocate(batch, 2, n)
             two == Allocate(one, 3, n)
             ctrl == Create(two[2], LoadImc(UnitCtrl), FALSE)
             stat == Create(two[3], LoadImc(UnitStatus), FALSE)
  <2>1. /\ broken' = (LoopsFor(batch, 2) \/ LoopsFor(batch, 3))
        /\ batch' = [two EXCEPT ![2] = Create(@, LoadImc(UnitCtrl), FALSE),
                                ![3] = Create(@, LoadImc(UnitStatus), FALSE)]
    BY <1>4 DEF InitPmonctrGlobal
  <2>2. AreBlocks(batch) /\ Untried(batch, 2) /\ Untried(batch, 3)
    BY <1>4 DEF InTerms, UnitsOK
  <2>3. ~LoopsFor(batch, 2) /\ ~LoopsFor(batch, 3) /\ Allocated(one, batch, 2, n)
    BY <2>2, AllocateIs
  <2>4. AreBlocks(one) /\ Untried(one, 3)
    <3> HIDE DEF one, n
    <3>1. NoBlock.numops = 0
      BY DEF NoBlock
    <3>2. QED
      BY <2>2, <2>3, <3>1 DEF Allocated, Untried
  <2>5. Allocated(two, one, 3, n)
    <3> HIDE DEF one, n
    <3> QED BY <2>4, AllocateIs
  <2> HIDE DEF n, one
  <2>6. batch' = [[two EXCEPT ![2] = ctrl] EXCEPT ![3] = stat]
    <3> HIDE DEF two
    <3>1. 2 \in DOMAIN two /\ 3 \in DOMAIN two
      BY <2>5 DEF Allocated
    <3>2. QED
      BY <2>1, <3>1 DEF two
  <2> HIDE DEF two
  <2>7. /\ AreBlocks(two) /\ DOMAIN two = DOMAIN batch \cup 0 .. 3
        /\ two[2].live
        /\ \A m \in DOMAIN batch \ {2, 3} : two[m] = batch[m]
        /\ \A m \in {0, 1} \ DOMAIN batch : two[m] = NoBlock
    BY <2>3, <2>5 DEF Allocated
  <2>8. IsBlock(two[2]) /\ IsBlock(two[3])
    BY <2>7 DEF AreBlocks
  <2>9. IsBlock(ctrl) /\ ctrl.live /\ IsBlock(stat)
    BY <2>7, <2>8, CreateKeeps
  <2> HIDE DEF ctrl, stat
  <2>10. /\ AreBlocks(batch') /\ DOMAIN batch' = DOMAIN two /\ batch'[2] = ctrl
         /\ \A m \in DOMAIN two \ {2, 3} : batch'[m] = two[m]
    <3> DEFINE O == [two EXCEPT ![2] = ctrl]
    <3>1. 2 \in DOMAIN two /\ 3 \in DOMAIN two
      BY <2>7
    <3>2. /\ AreBlocks(O) /\ DOMAIN O = DOMAIN two /\ O[2] = ctrl
          /\ \A m \in DOMAIN two \ {2} : O[m] = two[m]
      BY <2>7, <2>9, <3>1, BlocksExcept
    <3>3. batch' = [O EXCEPT ![3] = stat]
      BY <2>6
    <3> HIDE DEF O
    <3>4. /\ AreBlocks(batch') /\ DOMAIN batch' = DOMAIN O
          /\ \A m \in DOMAIN O \ {3} : batch'[m] = O[m]
      BY <2>9, <3>1, <3>2, <3>3, BlocksExcept
    <3>5. QED
      BY <3>1, <3>2, <3>4
  <2>11. AreBlocks(batch)' /\ NothingBroken'
    <3>1. ~broken'
      BY <2>1, <2>3
    <3>2. QED
      BY <2>10, <3>1 DEF NothingBroken, AreBlocks
  <2>12. Positions' = Positions
    BY <1>1 DEF Positions
  <2>13. CountersOK'
    <3>1. \A m \in {0, 1} : /\ m \in DOMAIN batch'
                            /\ m \in DOMAIN batch => batch'[m] = batch[m]
                            /\ m \notin DOMAIN batch => batch'[m] = NoBlock
      BY <2>7, <2>10
    <3>2. ("init_pmon_ctrs" \in begun') <=> ("init_pmon_ctrs" \in begun)
      BY <1>1
    <3>3. NoBlock.numops = 0
      BY DEF NoBlock
    <3>4. \A m \in {0, 1} : Untried(batch, m) => Untried(batch', m)
      BY <3>1, <3>3 DEF Untried
    <3>5. CounterBatches(batch, wanted) => CounterBatches(batch, wanted)'
      BY <1>1, <2>12, <3>1 DEF CounterBatches
    <3>6. PointersOK => PointersOK'
      BY <1>1, <2>12 DEF PointersOK
    <3>7. QED
      BY <1>1, <3>2, <3>4, <3>5, <3>6 DEF InTerms, CountersOK, Untried
  <2>14. UnitsOK'
    BY <1>1, <2>7, <2>9, <2>10 DEF UnitsOK
  <2>15. EventsOK'
    BY <1>1, <2>12 DEF InTerms, EventsOK, Selected
  <2>16. QED
    BY <1>2, <2>11, <2>13, <2>14, <2>15 DEF InTerms
<1>5. QED
  BY <1>3, <1>4

\* Both ways of keeping batchfd leave it the descriptor of the device.
LEMMA KeepsDescriptors ==
    ASSUME InTerms, "init_csr" \in begun, UNCHANGED <<descr, fd, begun>>,
           batchfd' \in {batchfd, BatchFile}
    PROVE  DescriptorsOK'
<1>1. batchfd' \in {0, fd}
  BY FileIsOurs DEF InTerms, DescriptorsOK
<1>2. QED
  BY <1>1 DEF InTerms, DescriptorsOK

LEMMA NowIsConsistent ==
    ASSUME InTerms, sockets \in 1 .. 2, "init_pmon_ctrs" \in begun, ~outside
    PROVE  Consistent(Now) /\ PointersOK
<1>1. AreBlocks(batch) /\ CounterBatches(batch, wanted) /\ PointersOK
  BY DEF InTerms, CountersOK
<1>2. {0, 1} \subseteq DOMAIN batch
  BY <1>1 DEF CounterBatches, CSR_IMC_CTRS, CSR_IMC_EVTS
<1>3. /\ csr = [r \in Channels(sockets) \X Counter |-> csr[r]]
      /\ wanted = [k \in Counter |-> wanted[k]]
      /\ applied => Selected(csr, wanted)
      /\ sent.to \in {"none", "csr", "closed"}
  BY DEF InTerms, MachineOK, EventsOK, OwnDevice
<1>4. /\ Now.bs = batch /\ Now.regs = csr /\ Now.set = wanted /\ Now.applied = applied
      /\ ~Now.broken /\ Now.sent = sent
  BY DEF Now
<1> HIDE DEF Now
<1>5. QED
  BY <1>1, <1>2, <1>3, <1>4 DEF Consistent

LEMMA ConfigureIs ==
    ASSUME sockets \in 1 .. 2, PointersOK, DescriptorsOK, "init_csr" \in begun,
           NEW st, Consistent(st), NEW q, {q[i][1] : i \in DOMAIN q} \subseteq Loaded,
           NEW i, NEW works
    PROVE  Consistent(Configure(st, q, i, works))
<1>1. CASE i \in DOMAIN q
  <2>1. q[i][1] \in Loaded
    BY <1>1
  <2>2. Consistent(PmonConfig(st, q[i][1], q[i][2], works[i]))
    BY <2>1, PmonConfigIs
  <2>3. QED
    BY <1>1, <2>2 DEF Configure
<1>2. CASE i \notin DOMAIN q
  BY <1>2 DEF Configure
<1>3. QED
  BY <1>1, <1>2

LEMMA ConfigureCountersInv ==
    ASSUME InTerms, ~outside, ~outside', NEW request, NEW works,
           ConfigureCounters(request, works)
    PROVE  InTerms'
<1> DEFINE q == request.events
           one == Configure(Now, q, 1, works)
           two == Configure(one, q, 2, works)
           end == Configure(two, q, 3, works)
           terms == Terms({q[i][1] : i \in DOMAIN q})
<1>1. UNCHANGED <<sockets, descr, fd, begun, pmon>> /\ printed' = << >>
  BY DEF ConfigureCounters
<1>2. CASE \E k \in request.checked : k > 4
  <2>1. UNCHANGED <<batch, csr, sent, wanted, applied, batchfd, broken, outside>>
    BY <1>2 DEF ConfigureCounters
  <2>2. /\ MachineOK' /\ AreBlocks(batch)' /\ CountersOK' /\ UnitsOK' /\ EventsOK'
        /\ PrintsWhatWasAsked'
    BY <1>1, <2>1, SameBatches, NoLines
  <2>3. DescriptorsOK' /\ NothingBroken' /\ OwnDevice'
    BY <1>1, <2>1 DEF InTerms, DescriptorsOK, NothingBroken, OwnDevice
  <2>4. QED
    BY <2>2, <2>3 DEF InTerms
<1>3. CASE ~ \E k \in request.checked : k > 4
  <2>1. /\ batch' = end.bs /\ csr' = end.regs /\ sent' = end.sent /\ broken' = end.broken
        /\ wanted' = end.set /\ applied' = end.applied
        /\ outside' = (outside \/ ~terms \/ ~Distinct(q))
        /\ batchfd' \in {batchfd, BatchFile}
    BY <1>3 DEF ConfigureCounters
  <2>2. terms
    <3> HIDE DEF terms, q
    <3> QED BY <2>1
  <2>3. /\ {"init_csr", "init_pmon_ctrs"} \subseteq begun /\ sockets \in 1 .. 2
        /\ {q[i][1] : i \in DOMAIN q} \subseteq Loaded
    BY <2>2, ImcAssumption DEF Terms, InTerms, MachineOK
  <2>4. Consistent(Now) /\ PointersOK /\ DescriptorsOK
    BY <2>3, NowIsConsistent DEF InTerms
  <2>5. Consistent(one)
    BY <2>3, <2>4, ConfigureIs
  <2> HIDE DEF one
  <2>6. Consistent(two)
    BY <2>3, <2>4, <2>5, ConfigureIs
  <2> HIDE DEF two
  <2>7. Consistent(end)
    BY <2>3, <2>4, <2>6, ConfigureIs
  <2> HIDE DEF end, terms, q
  <2>8. Positions' = Positions
    BY <1>1 DEF Positions
  <2>9. MachineOK' /\ AreBlocks(batch)' /\ NothingBroken' /\ OwnDevice'
    <3>1. AreBlocks(batch')
      BY <2>1, <2>7 DEF Consistent
    <3>2. AreBlocks(batch)'
      BY <3>1 DEF AreBlocks
    <3>3. csr' = [r \in Channels(sockets) \X Counter |-> csr'[r]]
      BY <2>1, <2>7 DEF Consistent
    <3>4. MachineOK'
      BY <1>1, <3>3 DEF InTerms, MachineOK
    <3>5. ~broken' /\ sent'.to \in {"none", "csr", "closed"}
      BY <2>1, <2>7 DEF Consistent
    <3>6. QED
      BY <3>2, <3>4, <3>5 DEF NothingBroken, OwnDevice
  <2>10. DescriptorsOK'
    BY <1>1, <2>1, <2>3, KeepsDescriptors
  <2>11. CountersOK'
    <3>1. CounterBatches(batch', wanted')
      BY <2>1, <2>7 DEF Consistent
    <3>2. CounterBatches(batch, wanted)'
      BY <2>8, <3>1 DEF CounterBatches
    <3>3. PointersOK'
      BY <1>1, <2>4, <2>8 DEF PointersOK
    <3>4. QED
      BY <1>1, <2>3, <3>2, <3>3 DEF CountersOK
  <2>12. UnitsOK'
    <3>1. /\ {0, 1} \subseteq DOMAIN batch /\ DOMAIN batch \subseteq DOMAIN batch'
          /\ \A m \in DOMAIN batch' \ DOMAIN batch : batch'[m] = NoBlock
          /\ \A m \in DOMAIN batch \ {0, 1} : batch'[m] = batch[m]
      BY <2>1, <2>7 DEF Consistent
    <3>2. NoBlock.numops = 0
      BY DEF NoBlock
    <3>3. QED
      BY <1>1, <3>1, <3>2 DEF InTerms, UnitsOK, Untried, CSR_IMC_PMONUNITCTRL,
                              CSR_IMC_PMONUNITSTAT
  <2>13. EventsOK'
    <3>1. wanted' = [k \in Counter |-> wanted'[k]] /\ (applied' => Selected(csr', wanted'))
      BY <2>1, <2>7 DEF Consistent
    <3>2. QED
      BY <1>1, <2>3, <2>8, <3>1 DEF EventsOK, Selected
  <2>14. QED
    BY <1>1, <2>9, <2>10, <2>11, <2>12, <2>13, NoLines DEF InTerms
<1>4. QED
  BY <1>2, <1>3

LEMMA SetPmonUnitCtrlInv ==
    ASSUME InTerms, ~outside, ~outside', NEW works, SetPmonUnitCtrl(works)
    PROVE  InTerms'
<1> USE DEF CSR_IMC_CTRS, CSR_IMC_EVTS, CSR_IMC_PMONUNITCTRL, CSR_IMC_PMONUNITSTAT
<1> DEFINE done == DoBatch(batch, csr, 2, works)
           afar == sockets > 2
           unset == ~({"init_csr", "init_pmonctr_global"} \subseteq begun)
           early == "init_pmonctr_global" \notin begun
           gone == ~batch[2].live
<1>1. /\ UNCHANGED <<sockets, csr, descr, fd, begun, pmon, wanted, applied>>
      /\ printed' = << >>
      /\ outside' = (outside \/ afar \/ unset) /\ broken' = (early \/ afar \/ gone)
  BY DEF SetPmonUnitCtrl
<1>2. ~afar /\ ~unset
  <2> HIDE DEF afar, unset
  <2> QED BY <1>1
<1>3. /\ "init_csr" \in begun /\ "init_pmonctr_global" \in begun
      /\ AreBlocks(batch) /\ 2 \in DOMAIN batch /\ batch[2].live
  BY <1>2 DEF InTerms, UnitsOK
<1>4. ~broken'
  <2>1. ~early /\ ~gone
    BY <1>3
  <2> HIDE DEF early, gone, afar
  <2>2. QED
    BY <1>1, <1>2, <2>1
<1>5. batch' = done.bs /\ sent' = done.sent /\ batchfd' = BatchFile
  BY <1>4 DEF SetPmonUnitCtrl
<1>6. Carried(done, batch, csr, 2)
  BY <1>3, DoBatchIs
<1> HIDE DEF done
<1>7. /\ AreBlocks(batch') /\ DOMAIN batch \subseteq DOMAIN batch'
      /\ \A m \in DOMAIN batch' \ DOMAIN batch : batch'[m] = NoBlock
      /\ \A m \in DOMAIN batch \ {2} : batch'[m] = batch[m]
      /\ batch'[2].live = batch[2].live
      /\ sent'.to \in {"none", File(BatchFile)}
  BY <1>5, <1>6 DEF Carried
<1>8. Positions' = Positions
  BY <1>1 DEF Positions
<1>9. DescriptorsOK' /\ OwnDevice' /\ NothingBroken' /\ PrintsWhatWasAsked' /\ AreBlocks(batch)'
  <2>1. DescriptorsOK'
    BY <1>1, <1>3, <1>5, KeepsDescriptors
  <2>2. File(BatchFile) \in {"csr", "closed"}
    BY <1>3, FileIsOurs DEF InTerms
  <2>3. AreBlocks(batch)'
    BY <1>7 DEF AreBlocks
  <2>4. QED
    BY <1>1, <1>4, <1>7, <2>1, <2>2, <2>3, NoLines DEF OwnDevice, NothingBroken
<1>10. MachineOK' /\ EventsOK'
  BY <1>1, <1>8 DEF InTerms, MachineOK, EventsOK, Selected
<1>11. CountersOK'
  <2>1. NoBlock.numops = 0
    BY DEF NoBlock
  <2>2. \A m \in {0, 1} : Untried(batch, m) => Untried(batch', m)
    BY <1>7, <2>1 DEF Untried
  <2>3. CounterBatches(batch, wanted) => CounterBatches(batch, wanted)'
    <3>1. SUFFICES ASSUME CounterBatches(batch, wanted) PROVE CounterBatches(batch, wanted)'
      OBVIOUS
    <3>2. 0 \in DOMAIN batch /\ 1 \in DOMAIN batch
      BY <3>1 DEF CounterBatches
    <3>3. 0 \in DOMAIN batch' /\ 1 \in DOMAIN batch' /\ batch'[0] = batch[0] /\ batch'[1] = batch[1]
      BY <1>7, <3>2
    <3>4. QED
      BY <1>1, <1>8, <3>1, <3>3 DEF CounterBatches
  <2>4. PointersOK => PointersOK'
    BY <1>1, <1>8 DEF PointersOK
  <2>5. QED
    BY <1>1, <2>2, <2>3, <2>4 DEF InTerms, CountersOK, Untried
<1>12. UnitsOK'
  BY <1>1, <1>3, <1>7 DEF UnitsOK
<1>13. QED
  BY <1>9, <1>10, <1>11, <1>12 DEF InTerms

\* The print functions: value i was read from the channel printed beside it,
\* and its register selects the event chosen last.
LEMMA PrintCountersInv ==
    ASSUME InTerms, ~outside, ~outside', NEW cs, DOMAIN cs # {}, NEW works,
           PrintCounters(cs, works)
    PROVE  InTerms'
<1> USE DEF CSR_IMC_CTRS, CSR_IMC_EVTS
<1> DEFINE done == DoBatch(batch, csr, 0, works)
           st == ReadImcCounterBatch(cs, works)
           terms == Terms(ToSet(cs))
<1>1. /\ UNCHANGED <<sockets, csr, descr, fd, begun, pmon, wanted, applied>>
      /\ outside' = (outside \/ ~terms)
  BY DEF PrintCounters
<1>2. terms
  <2> HIDE DEF terms
  <2> QED BY <1>1
<1>3. /\ "init_csr" \in begun /\ "init_pmon_ctrs" \in begun /\ sockets \in 1 .. 2
      /\ ToSet(cs) \subseteq Loaded
  BY <1>2, ImcAssumption DEF Terms, InTerms, MachineOK
<1>4. AreBlocks(batch) /\ CounterBatches(batch, wanted) /\ PointersOK
  BY <1>3 DEF InTerms, CountersOK
<1>5. /\ 0 \in DOMAIN batch /\ 1 \in DOMAIN batch /\ batch[0].live /\ batch[0].isread
      /\ ~batch[1].isread
  BY <1>4 DEF CounterBatches
<1>6. \A n \in DOMAIN cs : cs[n] \in Loaded /\ cs[n] \in Counter
  BY <1>3 DEF ToSet, Loaded, Counter
<1>7. st.bs = done.bs /\ st.sent = done.sent
  BY <1>6 DEF ReadImcCounterBatch, Now
<1>8. Carried(done, batch, csr, 0)
  BY <1>4, <1>5, DoBatchIs
<1> HIDE DEF done, st, terms
<1>9. /\ AreBlocks(st.bs) /\ DOMAIN batch \subseteq DOMAIN st.bs
      /\ \A m \in DOMAIN st.bs \ DOMAIN batch : st.bs[m] = NoBlock
      /\ \A m \in DOMAIN batch \ {0} : st.bs[m] = batch[m]
      /\ st.bs[0].live /\ st.bs[0].isread /\ st.bs[0].numops = batch[0].numops
      /\ DOMAIN st.bs[0].data = DOMAIN batch[0].data
      /\ st.sent.to \in {"none", File(BatchFile)}
      /\ st.sent.done => \A r \in DOMAIN batch[0].data : st.bs[0].data[r] = <<r[1], csr[r]>>
  BY <1>5, <1>7, <1>8 DEF Carried
<1>10. /\ batch' = st.bs /\ sent' = st.sent /\ batchfd' \in {batchfd, BatchFile}
  BY DEF PrintCounters, st
<1>11. \A n \in DOMAIN cs, i \in Positions : pmon.ctr[cs[n]][i] = Reg(i, cs[n])
  BY <1>4, <1>6 DEF PointersOK
<1>12. ~broken'
  <2> DEFINE fault(n) == \/ ~st.bs[0].live
                         \/ cs[n] \notin Counter
                         \/ \E i \in Positions : pmon.ctr[cs[n]][i] = Null
  <2>1. broken' = (\E n \in DOMAIN cs : fault(n))
    BY DEF PrintCounters, st
  <2>2. \A n \in DOMAIN cs : ~fault(n)
    <3>1. \A i, k : Reg(i, k) # Null
      BY DEF Null, Reg
    <3>2. \A n \in DOMAIN cs, i \in Positions : pmon.ctr[cs[n]][i] # Null
      BY <1>11, <3>1
    <3>3. QED
      BY <1>6, <1>9, <3>2
  <2> HIDE DEF fault
  <2>3. QED
    BY <2>1, <2>2
<1>13. printed' = [i \in Positions |-> [label |-> Label(i),
                                        values |-> [n \in DOMAIN cs |->
                                                      st.bs[0].data[pmon.ctr[cs[n]][i]]],
                                        counters |-> cs]]
  BY <1>12 DEF PrintCounters, st
<1>14. Positions' = Positions
  BY <1>1 DEF Positions
<1>15. DescriptorsOK' /\ OwnDevice' /\ NothingBroken' /\ AreBlocks(batch)'
  <2>1. DescriptorsOK'
    BY <1>1, <1>3, <1>10, KeepsDescriptors
  <2>2. File(BatchFile) \in {"csr", "closed"}
    BY <1>3, FileIsOurs DEF InTerms
  <2>3. AreBlocks(batch)'
    BY <1>9, <1>10 DEF AreBlocks
  <2>4. QED
    BY <1>9, <1>10, <1>12, <2>1, <2>2, <2>3 DEF OwnDevice, NothingBroken
<1>16. MachineOK' /\ EventsOK'
  BY <1>1, <1>14 DEF InTerms, MachineOK, EventsOK, Selected
<1>17. CountersOK'
  <2>1. batch'[1] = batch[1] /\ 0 \in DOMAIN batch' /\ 1 \in DOMAIN batch'
    BY <1>5, <1>9, <1>10
  <2>2. CounterBatches(batch, wanted)'
    BY <1>1, <1>4, <1>9, <1>10, <1>14, <2>1 DEF CounterBatches
  <2>3. PointersOK'
    BY <1>1, <1>4, <1>14 DEF PointersOK
  <2>4. QED
    BY <1>1, <1>3, <2>2, <2>3 DEF CountersOK
<1>18. UnitsOK'
  <2>1. NoBlock.numops = 0
    BY DEF NoBlock
  <2>2. \A m \in {2, 3} : /\ m \in DOMAIN batch => m \in DOMAIN batch' /\ batch'[m] = batch[m]
                          /\ m \in DOMAIN batch' \ DOMAIN batch => batch'[m].numops = 0
    BY <1>9, <1>10, <2>1
  <2>3. QED
    BY <1>1, <2>2 DEF InTerms, UnitsOK, Untried, CSR_IMC_PMONUNITCTRL, CSR_IMC_PMONUNITSTAT
<1>19. PrintsWhatWasAsked'
  <2> SUFFICES ASSUME applied', sent'.done, NEW i \in Positions, NEW n \in DOMAIN cs
               PROVE  printed'[i].values[n]
                        = <<printed'[i].label, wanted'[printed'[i].counters[n]]>>
    BY <1>13 DEF PrintsWhatWasAsked
  <2>1. /\ printed'[i].label = Label(i) /\ printed'[i].counters = cs
        /\ printed'[i].values[n] = st.bs[0].data[pmon.ctr[cs[n]][i]]
    BY <1>13
  <2>2. pmon.ctr[cs[n]][i] = Reg(i, cs[n])
    BY <1>11
  <2>3. Reg(i, cs[n]) \in DOMAIN batch[0].data
    BY <1>4, <1>6 DEF CounterBatches
  <2>4. st.bs[0].data[Reg(i, cs[n])] = <<Reg(i, cs[n])[1], csr[Reg(i, cs[n])]>>
    BY <1>9, <1>10, <2>3
  <2>5. csr[Reg(i, cs[n])] = wanted[cs[n]]
    BY <1>1, <1>6 DEF InTerms, EventsOK, Selected
  <2>6. Reg(i, cs[n])[1] = Label(i)
    BY DEF Reg
  <2>7. QED
    BY <1>1, <2>1, <2>2, <2>4, <2>5, <2>6
<1>20. QED
  BY <1>15, <1>16, <1>17, <1>18, <1>19 DEF InTerms

LEMMA NextInv ==
    ASSUME IInv, [Next]_vars
    PROVE  IInv'
<1> SUFFICES ASSUME ~outside' PROVE InTerms'
  BY DEF IInv
<1>1. CASE UNCHANGED vars
  <2>1. InTerms /\ UNCHANGED <<sockets, csr, descr, fd, batchfd, begun, batch, pmon, sent,
                               printed, wanted, applied, outside, broken>>
    BY <1>1 DEF IInv, vars
  <2>2. MachineOK' /\ AreBlocks(batch)' /\ CountersOK' /\ UnitsOK' /\ EventsOK'
    BY <2>1, SameBatches
  <2>3. DescriptorsOK' /\ PrintsWhatWasAsked' /\ NothingBroken' /\ OwnDevice'
    BY <2>1 DEF InTerms, DescriptorsOK, PrintsWhatWasAsked, NothingBroken, OwnDevice
  <2>4. QED
    BY <2>2, <2>3 DEF InTerms
<1>2. CASE LookAtLines
  <2>1. ~outside
    BY <1>2 DEF LookAtLines
  <2>2. QED
    BY <1>2, <2>1, LookAtLinesInv DEF IInv
<1>3. CASE InitCsr
  <2>1. ~outside
    BY <1>3 DEF InitCsr
  <2>2. QED
    BY <1>3, <2>1, InitCsrInv DEF IInv
<1>4. ~FinalizeCsr /\ ~PrintPmonCtrs
  BY DEF FinalizeCsr, PrintPmonCtrs
<1>5. CASE AppOpens
  <2>1. ~outside
    BY <1>5 DEF AppOpens
  <2>2. QED
    BY <1>5, <2>1, AppOpensInv DEF IInv
<1>6. ~ \E b \in BatchNum : AllocateCsrBatch(b, RoomFor) \/ FreeCsrBatch(b)
  BY DEF AllocateCsrBatch, FreeCsrBatch
<1>7. CASE InitPmonCtrs
  <2>1. ~outside
    BY <1>7 DEF InitPmonCtrs
  <2>2. QED
    BY <1>7, <2>1, InitPmonCtrsInv DEF IInv
<1>8. CASE InitPmonctrGlobal
  <2>1. ~outside
    BY <1>8 DEF InitPmonctrGlobal
  <2>2. QED
    BY <1>8, <2>1, InitPmonctrGlobalInv DEF IInv
<1>9. ASSUME NEW r \in Requests, NEW n \in 0 .. Len(r.events),
             ConfigureCounters(r, [i \in DOMAIN r.events |-> i <= n])
      PROVE  InTerms'
  <2> DEFINE works == [i \in DOMAIN r.events |-> i <= n]
             terms == Terms({r.events[i][1] : i \in DOMAIN r.events})
             distinct == Distinct(r.events)
  <2>1. ConfigureCounters(r, works)
    BY <1>9
  <2> HIDE DEF works
  <2>2. UNCHANGED outside \/ outside' = (outside \/ ~terms \/ ~distinct)
    BY <2>1 DEF ConfigureCounters
  <2>3. ~outside
    <3> HIDE DEF terms, distinct
    <3> QED BY <2>2
  <2>4. QED
    BY <2>1, <2>3, ConfigureCountersInv DEF IInv
<1>10. ASSUME NEW w \in BOOLEAN, SetPmonUnitCtrl(w)
       PROVE  InTerms'
  <2> DEFINE away == sockets > 2 \/ ~({"init_csr", "init_pmonctr_global"} \subseteq begun)
  <2>1. outside' = (outside \/ away)
    BY <1>10 DEF SetPmonUnitCtrl
  <2>2. ~outside
    <3> HIDE DEF away
    <3> QED BY <2>1
  <2>3. QED
    BY <1>10, <2>2, SetPmonUnitCtrlInv DEF IInv
<1>11. ASSUME NEW cs, DOMAIN cs # {}, NEW w \in BOOLEAN, PrintCounters(cs, w)
       PROVE  InTerms'
  <2> DEFINE terms == Terms(ToSet(cs))
  <2>1. outside' = (outside \/ ~terms)
    BY <1>11 DEF PrintCounters
  <2>2. ~outside
    <3> HIDE DEF terms
    <3> QED BY <2>1
  <2>3. QED
    BY <1>11, <2>2, PrintCountersInv DEF IInv
<1>12. CASE PrintMemBw
  BY <1>11, <1>12 DEF PrintMemBw
<1>13. CASE PrintMemPctRw
  BY <1>11, <1>13 DEF PrintMemPctRw
<1>14. CASE PrintMemPageEmpty
  BY <1>11, <1>14 DEF PrintMemPageEmpty
<1>15. CASE PrintMemPageMiss
  BY <1>11, <1>15 DEF PrintMemPageMiss
<1>16. QED
  BY <1>1, <1>2, <1>3, <1>4, <1>5, <1>6, <1>7, <1>8, <1>9, <1>10, <1>12, <1>13, <1>14, <1>15
     DEF Next

-----------------------------------------------------------------------------
(* The theorems.                                                           *)

\* Every state of a program that kept to the terms is one in which the words of
\* its batches, its pointers and its descriptor are in order (csr_imc.c and
\* csr_core.c).
THEOREM Invariance == Spec => []IInv
<1>1. Init => IInv
  BY InitInv
<1>2. IInv /\ [Next]_vars => IInv'
  BY NextInv
<1>3. QED
  BY <1>1, <1>2, PTL DEF Spec

\* What is printed beside a channel was counted there, for the event chosen last
\* (load_imc_batch_for_each, pmon_config, print_mem_bw_from_ctr and the others).
THEOREM PrintsCorrect == Spec => []PrintsWhatWasAsked
<1>1. IInv => PrintsWhatWasAsked
  BY DEF IInv, InTerms, PrintsWhatWasAsked
<1>2. QED
  BY <1>1, Invariance, PTL

\* Within the terms no pointer is followed that was never set and no block is
\* left, whatever the driver does (set_pmon_config, create_csr_batch_op).
THEOREM NothingGoesAstray == Spec => []NothingBroken
<1>1. IInv => NothingBroken
  BY DEF IInv, InTerms, NothingBroken
<1>2. QED
  BY <1>1, Invariance, PTL

\* Until finalize_csr no batch goes to a file of the program (do_csr_batch_op,
\* whose descriptor is remembered from its first use).
THEOREM OnlyOwnDevice == Spec => []OwnDevice
<1>1. IInv => OwnDevice
  BY DEF IInv, InTerms, OwnDevice
<1>2. QED
  BY <1>1, Invariance, PTL
=============================================================================
