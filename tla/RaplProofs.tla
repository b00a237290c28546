----------------------------- MODULE RaplProofs -----------------------------
(***************************************************************************)
(* The two halves of src/src/msr_rapl.c, with nothing in common but the    *)
(* machine.                                                                *)
(*                                                                         *)
(* Polling, for any number of sockets, any register width W, any energy    *)
(* consumed and any clock: the energy that poll_rapl_data reports adds up  *)
(* to what was consumed between the first sample and the last, and the     *)
(* power it reports is that energy over the time it was measured in.       *)
(*                                                                         *)
(* Limits, for any number of tools, any widths of the fields and any       *)
(* limits: what the interleaved reads and writes of set_pkg_rapl_limit     *)
(* leave in the register.  Each theorem names what it needs of the tools:  *)
(* WindowsFit, since calc_rapl_bits does not check the time window,        *)
(* FreshLimits, since a limit that was read back carries the other half    *)
(* along, and no refused reads, since the half they should have returned   *)
(* is written as zero.                                                     *)
(***************************************************************************)
EXTENDS RaplPoll, RaplLimit, TLAPS

-----------------------------------------------------------------------------
(* Polling.                                                                *)

\* What a complete pass leaves behind, and where a pass is.
Passes ==
    /\ phase # "read" => todo = {}
    /\ phase = "delta" => readInit
    /\ phase # "delta" => (readInit <=> deltaInit)
    /\ deltaInit => readInit

\* The samples are the registers as last read, or zero; a counter that this pass
\* has not read yet has its old sample twice.
Samples ==
    \A c \in Counter :
        /\ seen[c] # None => bits[c] = seen[c] % W
        /\ seen[c] = None => bits[c] = 0 /\ old[c] = 0
        /\ start[c] # None <=> seen[c] # None
        /\ start[c] # None => start[c] <= seen[c]
        /\ ~readInit /\ (phase = "idle" \/ c \in todo) => seen[c] = None
        /\ phase = "read" /\ readInit /\ c \in todo => bits[c] = old[c]

\* The counters EnergyAccounted is about, and what it says they should show.
Accountable(c) == seen[c] # None /\ (c[2] = "pkg" \/ Wraps(c) = 0)
Accounted(c) == seen[c] - start[c] - Wraps(c) + Unmeasured(c)

\* The energy measured and not yet handed to the caller.
Due(c) == IF phase = "idle" THEN 0 ELSE EnergyUsed(c)

Energy ==
    \A c \in Counter :
        /\ ~deltaInit => total[c] = 0 /\ start[c] = seen[c] /\ ~late[c]
        /\ seen[c] = None => total[c] = 0
        /\ deltaInit /\ Accountable(c) => total[c] + Due(c) = Accounted(c)

\* The timestamps of the reads that were not refused.
Times ==
    \A c \in Counter :
        /\ readInit /\ phase = "idle" /\ ~refused[c] => seenAt[c] = now
        /\ phase # "idle" /\ c \notin todo /\ ~refused[c] => seenAt[c] = now
        /\ readInit /\ phase = "read" /\ c \in todo /\ ~refused[c]
              => elapsed = now - seenAt[c]
        /\ deltaInit /\ phase # "idle" /\ c \notin todo /\ ~gap[c]
              => bits[c] = old[c] \/ interval[c] = elapsed

PollInv == /\ PollTypeOK /\ Passes /\ Samples /\ Energy /\ Times
        /\ PowerOverItsInterval /\ EnergyNeverNegative

-----------------------------------------------------------------------------
(* Arithmetic of a register of W values.                                   *)

LEMMA Division ==
    ASSUME NEW e \in Nat
    PROVE  /\ e \div W \in Nat /\ e % W \in 0 .. W - 1
           /\ e = W * (e \div W) + (e % W)
<1>1. W \in Nat /\ W > 0
  BY PollAssumption
<1>2. e % W \in 0 .. W - 1
  BY <1>1
<1>3. e \div W \in Int /\ e = W * (e \div W) + (e % W)
  BY <1>1
<1>4. e \div W \in Nat
  BY <1>1
<1>5. QED
  BY <1>2, <1>3, <1>4

LEMMA Multiple ==
    ASSUME NEW n \in Int
    PROVE  /\ n >= 2 => W * n >= 2 * W
           /\ n <= -1 => W * n <= -W
           /\ W * 0 = 0 /\ W * 1 = W
BY PollAssumption

\* Between two reads the register wraps at most once.
LEMMA OneWrap ==
    ASSUME NEW s \in Nat, NEW e \in s .. s + W - 1
    PROVE  \/ /\ e \div W = s \div W
              /\ e % W = (s % W) + (e - s)
           \/ /\ e \div W = s \div W + 1
              /\ e % W = (s % W) + (e - s) - W
<1> DEFINE q == e \div W   r == e % W
           p == s \div W   t == s % W
           n == q - p
<1>1. W \in Nat /\ W > 1 /\ e \in Nat
  BY PollAssumption
<1>2. /\ q \in Nat /\ r \in 0 .. W - 1 /\ e = W * q + r
      /\ p \in Nat /\ t \in 0 .. W - 1 /\ s = W * p + t
  BY <1>1, Division
<1> HIDE DEF q, r, p, t
<1>3. n \in Int /\ W * n = W * q - W * p
  BY <1>1, <1>2
<1> HIDE DEF n
<1>4. W * n = t - r + (e - s)
  BY <1>1, <1>2, <1>3
<1>5. W * n > -W /\ W * n < 2 * W
  BY <1>1, <1>2, <1>4
<1>6. n = 0 \/ n = 1
  BY <1>1, <1>3, <1>5, Multiple
<1>7. q = p + n
  BY <1>2 DEF n
<1>8. r = t + (e - s) - W * n
  BY <1>1, <1>2, <1>3, <1>4
<1>9. QED
  BY <1>1, <1>2, <1>6, <1>7, <1>8, Multiple DEF q, r, p, t

\* A later reading has wrapped no less often.
LEMMA WrapsGrow ==
    ASSUME NEW s \in Nat, NEW e \in Nat, s <= e
    PROVE  s \div W <= e \div W
<1> DEFINE n == (e \div W) - (s \div W)
<1>1. W \in Nat /\ W > 1
  BY PollAssumption
<1>2. n \in Int /\ W * n = W * (e \div W) - W * (s \div W)
  BY <1>1, Division
<1>3. W * n > -W
  BY <1>1, <1>2, Division
<1> HIDE DEF n
<1>4. ~(n <= -1)
  BY <1>1, <1>2, <1>3, Multiple
<1>5. QED
  BY <1>1, <1>2, <1>4, Division DEF n

\* The correction for a wrap covers the largest sample.
LEMMA CorrectionType ==
    ASSUME NEW c \in Counter
    PROVE  /\ WrapCorrection(c) \in Nat /\ WrapCorrection(c) >= W - 1
           /\ c[2] = "pkg" => WrapCorrection(c) = W - 1
<1>1. W \in Nat /\ W > 1 /\ UnitsPerJoule \in Nat /\ UnitsPerJoule >= 1
  BY PollAssumption
<1>2. (W - 1) * UnitsPerJoule \in Nat /\ (W - 1) * UnitsPerJoule >= W - 1
  BY <1>1
<1>3. QED
  BY <1>1, <1>2 DEF WrapCorrection

\* The energy used is a number and never negative.
LEMMA EnergyUsedType ==
    ASSUME PollTypeOK, NEW c \in Counter
    PROVE  EnergyUsed(c) \in Nat
<1>1. W \in Nat /\ W > 1
  BY PollAssumption
<1>2. bits[c] \in 0 .. W - 1 /\ old[c] \in 0 .. W - 1
  BY DEF PollTypeOK
<1>3. QED
  BY <1>1, <1>2, CorrectionType DEF EnergyUsed

-----------------------------------------------------------------------------
LEMMA PollInitInv == PollInit => PollInv
<1> SUFFICES ASSUME PollInit PROVE PollInv
  OBVIOUS
<1>1. W \in Nat /\ W > 1 /\ MaxTime \in Nat
  BY PollAssumption
<1>2. PollTypeOK
  <2>1. watts \in [Counter -> Int \X (Nat \ {0})]
    <3>1. <<0, 1>> \in Int \X (Nat \ {0})
      OBVIOUS
    <3>2. QED
      BY <3>1 DEF PollInit
  <2>2. /\ bits \in [Counter -> 0 .. W - 1] /\ old \in [Counter -> 0 .. W - 1]
        /\ now \in 0 .. MaxTime /\ seenAt \in [Counter -> 0 .. MaxTime]
    BY <1>1 DEF PollInit
  <2>3. /\ start \in [Counter -> Nat \cup {None}] /\ seen \in [Counter -> Nat \cup {None}]
        /\ delta \in [Counter -> Int] /\ interval \in [Counter -> Int]
        /\ total \in [Counter -> Int] /\ elapsed \in Int
    BY DEF PollInit
  <2>4. refused \in [Counter -> BOOLEAN] /\ gap \in [Counter -> BOOLEAN]
        /\ late \in [Counter -> BOOLEAN]
    BY DEF PollInit
  <2>5. QED
    BY <2>1, <2>2, <2>3, <2>4 DEF PollInit, PollTypeOK
<1>3. Passes /\ Samples /\ Energy /\ Times
  BY DEF PollInit, Passes, Samples, Energy, Times, None, Accountable
<1>4. PowerOverItsInterval /\ EnergyNeverNegative
  BY DEF PollInit, PowerOverItsInterval, OverItsInterval, EnergyNeverNegative
<1>5. QED
  BY <1>2, <1>3, <1>4 DEF PollInv

\* read_rapl_data begins: nothing is due yet, and the counters read last time
\* were read at the old timestamp.
LEMMA StartReadStep == ASSUME PollInv, StartRead PROVE PollInv'
<1> USE DEF PollInv, StartRead, history, reads
<1>1. now \in Nat /\ now' \in 0 .. MaxTime /\ now' \in Nat
  BY PollAssumption DEF PollTypeOK, Clock
<1>2. PollTypeOK'
  BY <1>1 DEF PollTypeOK, Elapsed, Older
<1>3. Passes'
  BY DEF Passes
<1>4. Samples'
  BY DEF Samples, Passes, Older
<1>5. ASSUME NEW c \in Counter, deltaInit
      PROVE  EnergyUsed(c)' = 0
  BY <1>5, PollAssumption DEF EnergyUsed, Passes, Older, PollTypeOK
<1>6. Energy'
  BY <1>5 DEF Energy, Due, Accountable, Accounted, Wraps, Unmeasured, PollTypeOK
<1>7. Times'
  BY <1>1 DEF Times, Passes, Elapsed, PollTypeOK
<1>8. (PowerOverItsInterval /\ EnergyNeverNegative)'
  BY DEF PowerOverItsInterval, EnergyNeverNegative
<1>9. QED
  BY <1>2, <1>3, <1>4, <1>6, <1>7, <1>8

\* A register that was read as e: its sample moves, and so does what is due.
ReadAs(c, e) ==
    /\ bits' = [bits EXCEPT ![c] = e % W]
    /\ seen' = [seen EXCEPT ![c] = e]
    /\ IF seen[c] = None
       THEN /\ start' = [start EXCEPT ![c] = e]
            /\ late' = [late EXCEPT ![c] = readInit]
       ELSE UNCHANGED <<start, late>>
    /\ seenAt' = [seenAt EXCEPT ![c] = now]
    /\ interval' = [interval EXCEPT ![c] = now - seenAt[c]]
    /\ refused' = [refused EXCEPT ![c] = FALSE]

\* The energy of one read is accounted for, over a wrap or without.
LEMMA ReadAccounted ==
    ASSUME PollInv, NEW c \in Counter, ReadCounter(c), NEW e \in Consumed(c),
           ReadAs(c, e), deltaInit, seen[c] # None, Accountable(c)'
    PROVE  total[c] + EnergyUsed(c)' = Accounted(c)'
<1> USE DEF None
<1>1. W \in Nat /\ W > 1 /\ MaxEnergy \in Nat
  BY PollAssumption
<1>2. /\ phase = "read" /\ c \in todo /\ readInit
      /\ old' = old /\ total' = total /\ start' = start /\ late' = late
  BY DEF ReadCounter, ReadAs, PollInv, Passes
<1>3. start[c] # None /\ start[c] \in Nat /\ seen[c] \in Nat /\ start[c] <= seen[c]
  BY <1>2 DEF Accountable, PollInv, PollTypeOK, Samples
<1> DEFINE u == Unmeasured(c)
<1>0. u \in Int /\ Unmeasured(c)' = u
  <2>1. start[c] % W \in Int
    BY <1>1, <1>3, Division
  <2>2. u \in Int
    BY <2>1 DEF Unmeasured
  <2>3. QED
    BY <1>2, <2>2 DEF Unmeasured
<1> HIDE DEF u
<1>4. e \in seen[c] .. seen[c] + W - 1 /\ e \in Nat
  BY <1>1, <1>3 DEF Consumed
<1>5. seen'[c] = e /\ bits'[c] = e % W
  BY DEF ReadAs, PollInv, PollTypeOK
<1>6. bits[c] = old[c] /\ old[c] = seen[c] % W /\ old[c] \in 0 .. W - 1
  BY <1>2, <1>3 DEF PollInv, Samples, PollTypeOK
<1>7. seen[c] \div W <= e \div W /\ start[c] \div W <= seen[c] \div W
  BY <1>1, <1>3, <1>4, WrapsGrow
<1>8. seen[c] \div W \in Nat /\ start[c] \div W \in Nat /\ e \div W \in Nat
  BY <1>3, <1>4, Division
<1>9. Accountable(c)
  BY <1>2, <1>3, <1>5, <1>7, <1>8 DEF Accountable, Wraps
<1>10. EnergyUsed(c) = 0
  BY <1>1, <1>6 DEF EnergyUsed
<1>11. total[c] = seen[c] - start[c] - (seen[c] \div W - start[c] \div W) + u
  BY <1>2, <1>9, <1>10 DEF PollInv, Energy, Due, Accounted, Wraps, PollTypeOK, u
<1>12. Accounted(c)' = e - start[c] - (e \div W - start[c] \div W) + u
  BY <1>0, <1>2, <1>5 DEF Accounted, Wraps
<1>13. c[2] = "pkg" \/ e \div W = seen[c] \div W
  BY <1>2, <1>5, <1>7, <1>8 DEF Accountable, Wraps
<1>14. CASE e \div W = seen[c] \div W /\ e % W = (seen[c] % W) + (e - seen[c])
  <2>1. EnergyUsed(c)' = e - seen[c]
    BY <1>1, <1>2, <1>3, <1>4, <1>5, <1>6, <1>14 DEF EnergyUsed
  <2>2. QED
    BY <2>1, <1>0, <1>3, <1>4, <1>8, <1>11, <1>12, <1>14
<1>15. CASE /\ e \div W = seen[c] \div W + 1
            /\ e % W = (seen[c] % W) + (e - seen[c]) - W
  <2>1. WrapCorrection(c) = W - 1
    BY <1>8, <1>13, <1>15, CorrectionType
  <2>2. EnergyUsed(c)' = e - seen[c] - 1
    BY <2>1, <1>1, <1>2, <1>3, <1>4, <1>5, <1>6, <1>15 DEF EnergyUsed, WrapCorrection
  <2>3. QED
    BY <2>2, <1>0, <1>3, <1>4, <1>8, <1>11, <1>12, <1>15
<1>16. QED
  BY <1>3, <1>4, <1>14, <1>15, OneWrap

\* So is the first read of a counter, after others: the register is the energy.
LEMMA FirstReadAccounted ==
    ASSUME PollInv, NEW c \in Counter, ReadCounter(c), NEW e \in Consumed(c),
           ReadAs(c, e), deltaInit, seen[c] = None
    PROVE  total[c] + EnergyUsed(c)' = Accounted(c)'
<1>1. W \in Nat /\ W > 1 /\ MaxEnergy \in Nat
  BY PollAssumption
<1>2. e \in Nat /\ e % W \in 0 .. W - 1 /\ e \div W \in Nat
  BY <1>1, Division DEF Consumed
<1>3. /\ seen'[c] = e /\ start'[c] = e /\ late'[c] /\ bits'[c] = e % W
      /\ old'[c] = 0 /\ total[c] = 0
  BY DEF ReadAs, ReadCounter, PollInv, Passes, PollTypeOK, Samples, Energy
<1>4. EnergyUsed(c)' = e % W
  BY <1>1, <1>2, <1>3 DEF EnergyUsed
<1>5. Accounted(c)' = e % W
  BY <1>2, <1>3 DEF Accounted, Wraps, Unmeasured
<1>6. QED
  BY <1>2, <1>3, <1>4, <1>5

\* One register is read, or refused and its sample kept.
LEMMA ReadCounterStep ==
    ASSUME PollInv, NEW c \in Counter, ReadCounter(c)
    PROVE  PollInv'
<1>1. W \in Nat /\ W > 1 /\ MaxEnergy \in Nat
  BY PollAssumption
<1>2. \/ \E e \in Consumed(c) : ReadAs(c, e)
      \/ /\ refused' = [refused EXCEPT ![c] = TRUE]
         /\ UNCHANGED <<bits, reads>>
  BY DEF ReadCounter, ReadAs
<1>3. Passes'
  BY DEF PollInv, ReadCounter, Passes, PollTypeOK
<1>4. /\ phase = "read" /\ c \in todo /\ todo' = todo \ {c} /\ deltaInit' = deltaInit
      /\ gap' = [gap EXCEPT ![c] = refused[c]] /\ (readInit <=> deltaInit)
      /\ phase' \in {"read", "delta"} /\ readInit' \in BOOLEAN
      /\ (readInit => readInit') /\ (phase' = "read" => readInit' = readInit)
      /\ UNCHANGED <<old, now, elapsed, delta, watts, total>>
  BY <1>3 DEF PollInv, ReadCounter, Passes, PollTypeOK
<1>5. (PowerOverItsInterval /\ EnergyNeverNegative)'
  BY <1>4 DEF PollInv, PowerOverItsInterval, EnergyNeverNegative
<1>6. CASE /\ refused' = [refused EXCEPT ![c] = TRUE]
           /\ UNCHANGED <<bits, reads>>
  <2> USE <1>4, <1>6 DEF reads
  <2>1. PollTypeOK'
    BY DEF PollInv, PollTypeOK
  <2>2. Samples'
    BY DEF PollInv, Samples
  <2>3. \A d \in Counter : EnergyUsed(d)' = EnergyUsed(d)
    BY DEF EnergyUsed
  <2>4. Energy'
    BY <2>3 DEF PollInv, Energy, Due, Accountable, Accounted, Wraps, Unmeasured
  <2>5. Times'
    BY DEF PollInv, Times, Samples, PollTypeOK
  <2>6. QED
    BY <1>3, <1>5, <2>1, <2>2, <2>4, <2>5 DEF PollInv
<1>7. ASSUME NEW e \in Consumed(c), ReadAs(c, e)
      PROVE  PollInv'
  <2>1. e \in Nat /\ (seen[c] # None => e >= seen[c])
    BY <1>1 DEF Consumed, PollInv, PollTypeOK, None
  <2>2. e % W \in 0 .. W - 1
    BY <2>1, Division
  <2>3. PollTypeOK'
    BY <1>4, <1>7, <2>1, <2>2, PollAssumption DEF ReadAs, PollInv, PollTypeOK
  <2>4. Samples'
    BY <1>4, <1>7, <2>1 DEF ReadAs, PollInv, PollTypeOK, Samples, None
  <2>5. ASSUME NEW d \in Counter, d # c
        PROVE  /\ EnergyUsed(d)' = EnergyUsed(d)
               /\ Accountable(d)' <=> Accountable(d)
               /\ Accounted(d)' = Accounted(d)
    <3>1. /\ bits'[d] = bits[d] /\ old'[d] = old[d] /\ start'[d] = start[d]
          /\ late'[d] = late[d] /\ seen'[d] = seen[d]
      BY <1>4, <1>7, <2>5 DEF ReadAs, PollInv, PollTypeOK
    <3>2. QED
      BY <3>1 DEF EnergyUsed, WrapCorrection, Accountable, Accounted, Wraps, Unmeasured
  <2>6. ASSUME deltaInit, Accountable(c)'
        PROVE  total[c] + EnergyUsed(c)' = Accounted(c)'
    BY <1>7, <2>6, ReadAccounted, FirstReadAccounted
  <2>7. ASSUME ~deltaInit
        PROVE  \A d \in Counter : total'[d] = 0 /\ start'[d] = seen'[d] /\ ~late'[d]
    <3>1. seen[c] = None /\ ~readInit
      BY <1>4, <2>7 DEF PollInv, Samples
    <3>2. start'[c] = seen'[c] /\ ~late'[c] /\ total' = total
      BY <1>4, <1>7, <3>1 DEF ReadAs, PollInv, PollTypeOK
    <3>3. \A d \in Counter : d # c =>
            start'[d] = start[d] /\ seen'[d] = seen[d] /\ late'[d] = late[d]
      BY <1>7 DEF ReadAs, PollInv, PollTypeOK
    <3>4. QED
      BY <2>7, <3>2, <3>3 DEF PollInv, Energy
  <2>8. Energy'
    <3>1. \A d \in Counter : seen'[d] = None => seen[d] = None
      BY <1>7, <2>1 DEF ReadAs, PollInv, PollTypeOK, None
    <3>2. \A d \in Counter : seen'[d] = None => total'[d] = 0
      BY <1>4, <3>1 DEF PollInv, Energy
    <3>3. QED
      BY <1>4, <2>5, <2>6, <2>7, <3>2 DEF PollInv, Energy, Due
  <2>9. Times'
    BY <1>4, <1>7 DEF ReadAs, PollInv, Times, Passes, PollTypeOK
  <2>10. QED
    BY <1>3, <1>5, <2>3, <2>4, <2>8, <2>9 DEF PollInv
<1>8. QED
  BY <1>2, <1>6, <1>7

\* delta_rapl_data hands the energy out and divides it by the time.
LEMMA DeltaStep == ASSUME PollInv, Delta PROVE PollInv'
<1>1. W \in Nat /\ W > 1
  BY PollAssumption
<1>2. \A c \in Counter : EnergyUsed(c) \in Nat
  BY EnergyUsedType DEF PollInv
<1>3. /\ phase = "delta" /\ phase' = "idle" /\ deltaInit' /\ todo = {} /\ readInit
      /\ UNCHANGED <<todo, bits, old, now, readInit, start, late, seen, seenAt, interval,
                     refused, gap>>
  BY DEF PollInv, Delta, reads, Passes
<1>4. elapsed \in Int /\ elapsed' \in Int
  BY DEF PollInv, PollTypeOK, Delta
<1>5. CASE deltaInit
  <2>1. /\ delta' = [c \in Counter |-> EnergyUsed(c)]
        /\ watts' = [c \in Counter |-> Watts(EnergyUsed(c))]
        /\ total' = [c \in Counter |-> total[c] + EnergyUsed(c)]
        /\ elapsed' = elapsed
    BY <1>5 DEF Delta
  <2>2. \A c \in Counter : Watts(EnergyUsed(c)) \in Int \X (Nat \ {0})
    <3>1. <<0, 1>> \in Int \X (Nat \ {0})
      OBVIOUS
    <3>2. QED
      BY <1>2, <1>4, <3>1 DEF Watts
  <2>3. PollTypeOK'
    BY <1>2, <1>3, <2>1, <2>2 DEF PollInv, PollTypeOK
  <2>4. Energy'
    <3>1. \A c \in Counter : Accountable(c)' = Accountable(c) /\ Accounted(c)' = Accounted(c)
      BY <1>3 DEF Accountable, Accounted, Wraps, Unmeasured
    <3>2. \A c \in Counter : seen[c] = None => EnergyUsed(c) = 0
      BY <1>1 DEF PollInv, Samples, EnergyUsed
    <3>3. \A c \in Counter : total'[c] = total[c] + EnergyUsed(c) /\ total[c] \in Int
      BY <2>1 DEF PollInv, PollTypeOK
    <3>4. QED
      BY <1>2, <1>3, <1>5, <3>1, <3>2, <3>3 DEF PollInv, Energy, Due
  <2>5. ASSUME NEW c \in Counter, ~gap[c], watts'[c][1] > 0
        PROVE  watts'[c] = <<delta'[c], interval[c]>>
    <3>1. elapsed > 0 /\ EnergyUsed(c) > 0 /\ watts'[c] = <<EnergyUsed(c), elapsed>>
      BY <2>1, <2>5, <1>2, <1>4 DEF Watts
    <3>2. bits[c] # old[c]
      BY <1>1, <3>1 DEF EnergyUsed, PollInv, PollTypeOK
    <3>3. interval[c] = elapsed
      BY <1>3, <1>5, <2>5, <3>2 DEF PollInv, Times
    <3>4. QED
      BY <2>1, <3>1, <3>3
  <2>6. (PowerOverItsInterval /\ EnergyNeverNegative)'
    BY <1>2, <1>3, <2>1, <2>5 DEF PowerOverItsInterval, OverItsInterval, EnergyNeverNegative
  <2>7. QED
    BY <1>3, <1>5, <2>3, <2>4, <2>6 DEF PollInv, Passes, Samples, Times
<1>6. CASE ~deltaInit
  <2>1. /\ watts' = [c \in Counter |-> <<0, 1>>] /\ elapsed' = 0
        /\ delta' = delta /\ total' = total
    BY <1>6 DEF Delta
  <2>2. PollTypeOK'
    <3>1. <<0, 1>> \in Int \X (Nat \ {0})
      OBVIOUS
    <3>2. QED
      BY <1>3, <2>1, <3>1 DEF PollInv, PollTypeOK
  <2>3. ASSUME NEW c \in Counter, Accountable(c)
        PROVE  total[c] = Accounted(c) /\ start[c] = seen[c] /\ ~late[c]
    <3>1. start[c] = seen[c] /\ seen[c] \in Nat /\ total[c] = 0 /\ ~late[c]
      BY <1>6, <2>3 DEF Accountable, PollInv, Energy, PollTypeOK
    <3>2. seen[c] \div W \in Nat
      BY <3>1, Division
    <3>3. QED
      BY <3>1, <3>2 DEF Accounted, Wraps, Unmeasured
  <2>4. Energy'
    BY <1>3, <2>1, <2>3 DEF PollInv, Energy, Due, Accountable, Accounted, Wraps, Unmeasured, PollTypeOK
  <2>5. (PowerOverItsInterval /\ EnergyNeverNegative)'
    BY <2>1 DEF PollInv, PowerOverItsInterval, OverItsInterval, EnergyNeverNegative
  <2>6. QED
    BY <1>3, <1>6, <2>2, <2>4, <2>5 DEF PollInv, Passes, Samples, Times
<1>7. QED
  BY <1>5, <1>6 DEF PollInv, PollTypeOK

-----------------------------------------------------------------------------
(* The results.                                                            *)

LEMMA PollNextInv == ASSUME PollInv, [PollNext]_pollVars PROVE PollInv'
<1>1. CASE UNCHANGED pollVars
  <2>1. \A c \in Counter : /\ EnergyUsed(c)' = EnergyUsed(c)
                           /\ Accountable(c)' <=> Accountable(c)
                           /\ Accounted(c)' = Accounted(c)
    BY <1>1 DEF pollVars, code, history, reads, EnergyUsed, WrapCorrection, Accountable,
                Accounted, Wraps, Unmeasured
  <2>2. QED
    BY <1>1, <2>1 DEF pollVars, code, history, reads, PollInv, PollTypeOK, Passes,
                Samples, Energy, Due, Times, PowerOverItsInterval, OverItsInterval, EnergyNeverNegative
<1>2. QED
  BY <1>1, StartReadStep, ReadCounterStep, DeltaStep DEF PollNext

\* Every state of the polling satisfies the inductive invariant.
THEOREM PollInvariance == PollSpec => []PollInv
BY PollInitInv, PollNextInv, PTL DEF PollSpec

\* The variables of read_rapl_data and delta_rapl_data keep their types.
THEOREM PollTypeCorrect == PollSpec => []PollTypeOK
<1>1. PollInv => PollTypeOK
  BY DEF PollInv
<1>2. QED
  BY <1>1, PollInvariance, PTL

\* The joules handed to the caller add up to those consumed from the first sample
\* to the last, less one unit for every wrap of a package register, over refused
\* reads and with the clock set back; a counter whose first poll was refused is
\* reported with all its register showed (read_rapl_data, delta_rapl_data).
THEOREM EnergyAddsUp == PollSpec => []EnergyAccounted
<1>1. PollInv => EnergyAccounted
  <2> SUFFICES ASSUME PollInv, phase = "idle", NEW c \in Counter, Accountable(c)
               PROVE  total[c] = Accounted(c)
    BY DEF EnergyAccounted, Accountable, Accounted
  <2>1. CASE deltaInit
    BY <2>1 DEF PollInv, Energy, Due, PollTypeOK
  <2>2. CASE ~deltaInit
    <3>1. start[c] = seen[c] /\ seen[c] \in Nat /\ total[c] = 0 /\ ~late[c]
      BY <2>2 DEF Accountable, PollInv, Energy, PollTypeOK
    <3>2. seen[c] \div W \in Nat
      BY <3>1, Division
    <3>3. QED
      BY <3>1, <3>2 DEF Accounted, Wraps, Unmeasured
  <2>3. QED
    BY <2>1, <2>2 DEF PollInv, PollTypeOK
<1>2. QED
  BY <1>1, PollInvariance, PTL

\* A difference of energies is never negative, whatever wraps and is refused
\* (delta_rapl_data).
THEOREM NeverNegative == PollSpec => []EnergyNeverNegative
<1>1. PollInv => EnergyNeverNegative
  BY DEF PollInv
<1>2. QED
  BY <1>1, PollInvariance, PTL

\* The power reported is the energy over the time between the two samples, unless
\* the read before the last was refused (read_rapl_data, delta_rapl_data).
THEOREM PowerIsOverItsInterval == PollSpec => []PowerOverItsInterval
<1>1. PollInv => PowerOverItsInterval
  BY DEF PollInv
<1>2. QED
  BY <1>1, PollInvariance, PTL

-----------------------------------------------------------------------------
(* Limits.                                                                 *)

\* The tools ask for time windows that fit their field.
WindowsFit == \A v \in WindowValues : v \subseteq 0 .. WindowBits - 1

LimitRecord == [bits : SUBSET Bit, watts : SUBSET Nat, window : SUBSET Nat]

\* The invariant of one struct rapl_limit; FormsAgree for all of them.
GoodForms(s, l) ==
    /\ s.window \subseteq 0 .. WindowBits - 1
    /\ s.bits # {} => /\ s.watts = Extract(s.bits, l, 0, WattsBits)
                      /\ s.window = Extract(s.bits, l, WindowAt, WindowBits)

LimitsGood == \A t \in Tool, l \in Limit : GoodForms(lim[t][l], l)

\* What a call has computed is what it was asked for.
PendingInstalled ==
    \A t \in Tool : pc[t] = "write" => Installed(value[t], t, args[t])

\* A half that is one limit, as NoMixedLimit wants it.
OneLimit(reg, l) ==
    /\ Enable(l) \subseteq reg
    /\ Extract(reg, l, 0, WattsBits) \in WattsValues
    /\ Extract(reg, l, WindowAt, WindowBits + 1) \in WindowValues

PendingUnmixed ==
    \A t \in Tool : pc[t] = "write" => \A l \in Package : OneLimit(value[t], l)

\* The half a call was not asked about is still the register's, unless another
\* tool has changed that since.
PendingKeeps ==
    \A t \in Tool : pc[t] = "write" =>
        \A l \in Package \ (args[t] \cup changed[t]) :
            value[t] \cap HalfOf(l) = msr.pkg \cap HalfOf(l)

\* A call that is about to write has at most counted the failed read.
PendingResult == \A t \in Tool : pc[t] = "write" => ret[t].rc \in {0, -1}

FormsInv == TypeOK /\ PendingResult /\ LimitsGood
SetInv == FormsInv /\ PendingInstalled /\ PkgZeroMeansSet
KeepInv == FormsInv /\ NoMixedLimit /\ PendingUnmixed /\ PendingKeeps
-----------------------------------------------------------------------------
(* The layout of a register and the operators on sets of bits.             *)

LEMMA Layout ==
    /\ WattsBits \in Nat \ {0} /\ WindowBits \in Nat \ {0}
    /\ WindowAt \in Nat /\ WindowAt = WattsBits + 2
    /\ HalfBits \in Nat /\ HalfBits = WindowAt + WindowBits + 1
    /\ Bit = 0 .. 2 * HalfBits - 1
    /\ \A l \in Limit : Offset(l) \in {0, HalfBits}
    /\ Offset("pkg1") = 0 /\ Offset("pkg2") = HalfBits
BY LimitAssumption DEF WindowAt, HalfBits, Bit, Limit, Offset

\* The numbers of the layout, without the sets of bits.
LEMMA Numbers ==
    ASSUME NEW l \in Limit
    PROVE  /\ Offset(l) \in Nat /\ WattsBits \in Nat /\ WindowBits \in Nat
           /\ WindowAt = WattsBits + 2
<1>1. /\ WattsBits \in Nat /\ WindowBits \in Nat /\ HalfBits \in Nat
      /\ WindowAt = WattsBits + 2
  BY Layout
<1>2. QED
  BY <1>1, Layout

LEMMA InExtract ==
    ASSUME NEW B \in SUBSET Bit, NEW l \in Limit, NEW f \in Nat, NEW w \in Nat, NEW i
    PROVE  i \in Extract(B, l, f, w) <=> i \in 0 .. w - 1 /\ Offset(l) + f + i \in B
<1>1. Offset(l) \in Nat /\ B \subseteq Int
  BY Layout
<1>2. ASSUME i \in Extract(B, l, f, w)
      PROVE  i \in 0 .. w - 1 /\ Offset(l) + f + i \in B
  <2>1. PICK j \in B : /\ j \in Offset(l) + f .. Offset(l) + f + w - 1
                       /\ i = j - Offset(l) - f
    BY <1>2 DEF Extract, Field
  <2>2. QED
    BY <1>1, <2>1
<1>3. ASSUME i \in 0 .. w - 1, Offset(l) + f + i \in B
      PROVE  i \in Extract(B, l, f, w)
  <2> DEFINE j == Offset(l) + f + i
  <2>1. j \in B \cap Field(l, f, w) /\ i = j - Offset(l) - f
    BY <1>1, <1>3 DEF Field
  <2>2. QED
    BY <2>1 DEF Extract
<1>4. QED
  BY <1>2, <1>3

LEMMA InHalf ==
    ASSUME NEW l \in Limit, NEW i
    PROVE  i \in HalfOf(l) <=> i \in Offset(l) .. Offset(l) + HalfBits - 1
BY Layout DEF HalfOf, Field

LEMMA HalvesDisjoint ==
    ASSUME NEW l \in Package, NEW m \in Package, l # m
    PROVE  HalfOf(l) \cap HalfOf(m) = {}
<1>1. Package \subseteq Limit
  BY DEF Package, Limit
<1>2. QED
  BY <1>1, InHalf, Layout DEF Package

\* A field shows nothing of the other half.
LEMMA ExtractOfHalf ==
    ASSUME NEW A \in SUBSET Bit, NEW B \in SUBSET Bit, NEW l \in Limit,
           A \cap HalfOf(l) = B \cap HalfOf(l),
           NEW f \in Nat, NEW w \in Nat, f + w <= HalfBits
    PROVE  Extract(A, l, f, w) = Extract(B, l, f, w)
<1>1. ASSUME NEW i \in 0 .. w - 1
      PROVE  Offset(l) + f + i \in HalfOf(l)
  BY InHalf, Layout
<1>2. \A i \in 0 .. w - 1 : Offset(l) + f + i \in A <=> Offset(l) + f + i \in B
  BY <1>1
<1>3. /\ \A i : i \in Extract(A, l, f, w) <=> i \in 0 .. w - 1 /\ Offset(l) + f + i \in A
      /\ \A i : i \in Extract(B, l, f, w) <=> i \in 0 .. w - 1 /\ Offset(l) + f + i \in B
  BY InExtract
<1>4. \A i : i \in Extract(A, l, f, w) <=> i \in Extract(B, l, f, w)
  BY <1>2, <1>3
<1>5. QED
  BY <1>4

LEMMA OneLimitOfHalf ==
    ASSUME NEW A \in SUBSET Bit, NEW B \in SUBSET Bit, NEW l \in Limit,
           A \cap HalfOf(l) = B \cap HalfOf(l), OneLimit(A, l)
    PROVE  OneLimit(B, l)
<1>1. Enable(l) \subseteq HalfOf(l)
  BY InHalf, Layout DEF Enable
<1>2. /\ Extract(A, l, 0, WattsBits) = Extract(B, l, 0, WattsBits)
      /\ Extract(A, l, WindowAt, WindowBits + 1) = Extract(B, l, WindowAt, WindowBits + 1)
  BY ExtractOfHalf, Layout
<1>3. QED
  BY <1>1, <1>2 DEF OneLimit

-----------------------------------------------------------------------------
(* calc_rapl_bits and calc_rapl_from_bits.                                 *)

BitsOf(p, q, l) == Shift(p, Offset(l)) \cup Shift(q, Offset(l) + WindowAt)

\* The bits of a limit whose numbers fit their fields.
LEMMA BitsOfNumbers ==
    ASSUME NEW l \in Limit, NEW p \in SUBSET (0 .. WattsBits - 1),
           NEW q \in SUBSET (0 .. WindowBits - 1)
    PROVE  /\ BitsOf(p, q, l) \subseteq Bit /\ BitsOf(p, q, l) \subseteq HalfOf(l)
           /\ Extract(BitsOf(p, q, l), l, 0, WattsBits) = p
           /\ Extract(BitsOf(p, q, l), l, WindowAt, WindowBits) = q
           /\ \A j \in Int : j \in BitsOf(p, q, l) <=> \/ j - Offset(l) \in p
                                       \/ j - Offset(l) - WindowAt \in q
<1> DEFINE B == BitsOf(p, q, l)
<1>1. \A j \in Int : j \in B <=> \/ j - Offset(l) \in p
                             \/ j - Offset(l) - WindowAt \in q
  <2> TAKE j \in Int
  <2>1. j \in Shift(p, Offset(l)) <=> j - Offset(l) \in p
    <3>1. ASSUME j - Offset(l) \in p
          PROVE  j \in Shift(p, Offset(l))
      <4>1. j = (j - Offset(l)) + Offset(l) /\ j \in Bit
        BY <3>1, Layout
      <4>2. QED
        BY <3>1, <4>1 DEF Shift
    <3>2. QED
      BY <3>1, Layout DEF Shift
  <2>2. j \in Shift(q, Offset(l) + WindowAt) <=> j - Offset(l) - WindowAt \in q
    <3>1. ASSUME j - Offset(l) - WindowAt \in q
          PROVE  j \in Shift(q, Offset(l) + WindowAt)
      <4>1. j = (j - Offset(l) - WindowAt) + (Offset(l) + WindowAt) /\ j \in Bit
        BY <3>1, Layout
      <4>2. QED
        BY <3>1, <4>1 DEF Shift
    <3>2. QED
      BY <3>1, Layout DEF Shift
  <2>3. QED
    BY <2>1, <2>2 DEF BitsOf
<1>2. B \subseteq Bit
  BY DEF Shift, BitsOf
<1> HIDE DEF B
<1>3. B \subseteq HalfOf(l)
  <2>1. B \subseteq Int
    BY <1>2, Layout
  <2>2. \A j \in B : j \in Offset(l) .. Offset(l) + HalfBits - 1
    BY <1>1, <2>1, Layout
  <2>3. QED
    BY <2>2, InHalf
<1>4. Extract(B, l, 0, WattsBits) = p
  <2>1. \A i \in 0 .. WattsBits - 1 : Offset(l) + 0 + i \in B <=> i \in p
    BY <1>1, Layout
  <2>2. \A i : i \in Extract(B, l, 0, WattsBits)
                  <=> i \in 0 .. WattsBits - 1 /\ Offset(l) + 0 + i \in B
    BY <1>2, InExtract, Layout
  <2>3. \A i : i \in Extract(B, l, 0, WattsBits) <=> i \in p
    BY <2>1, <2>2
  <2>4. QED
    BY <2>3
<1>5. Extract(B, l, WindowAt, WindowBits) = q
  <2>1. \A i \in 0 .. WindowBits - 1 : Offset(l) + WindowAt + i \in B <=> i \in q
    BY <1>1, Layout
  <2>2. \A i : i \in Extract(B, l, WindowAt, WindowBits)
                  <=> i \in 0 .. WindowBits - 1 /\ Offset(l) + WindowAt + i \in B
    BY <1>2, InExtract, Layout
  <2>3. \A i : i \in Extract(B, l, WindowAt, WindowBits) <=> i \in q
    BY <2>1, <2>2
  <2>4. QED
    BY <2>3
<1>6. QED
  BY <1>1, <1>2, <1>3, <1>4, <1>5 DEF B

\* The two forms of a limit agree after either translation.
LEMMA CalcForms ==
    ASSUME NEW l \in Limit, NEW s \in LimitRecord, s.window \subseteq 0 .. WindowBits - 1
    PROVE  Calc(s, l) \in LimitRecord /\ GoodForms(Calc(s, l), l)
<1>1. CASE s.bits # {}
  <2>1. Calc(s, l) = FromBits(s, l)
    BY <1>1 DEF Calc
  <2> DEFINE p == Extract(s.bits, l, 0, WattsBits)
             q == Extract(s.bits, l, WindowAt, WindowBits)
  <2>2. p \subseteq 0 .. WattsBits - 1 /\ q \subseteq 0 .. WindowBits - 1
    BY InExtract, Layout DEF LimitRecord
  <2>3. FromBits(s, l) = [[s EXCEPT !.watts = p] EXCEPT !.window = q]
    BY DEF FromBits
  <2> HIDE DEF p, q
  <2>4. /\ FromBits(s, l) \in LimitRecord
        /\ FromBits(s, l).bits = s.bits
        /\ FromBits(s, l).watts = p /\ FromBits(s, l).window = q
    <3>1. p \in SUBSET Nat /\ q \in SUBSET Nat
      BY <2>2, Layout
    <3>2. QED
      BY <2>3, <3>1 DEF LimitRecord
  <2>5. GoodForms(FromBits(s, l), l)
    BY <2>2, <2>4 DEF GoodForms, p, q
  <2>6. QED
    BY <2>1, <2>4, <2>5
<1>2. CASE s.bits = {} /\ TooLarge(s)
  BY <1>2 DEF Calc, GoodForms
<1>3. CASE s.bits = {} /\ ~TooLarge(s)
  <2>1. Calc(s, l) = ToBits(s, l)
    BY <1>3 DEF Calc
  <2>2. s.watts \subseteq 0 .. WattsBits - 1
    BY <1>3, Layout DEF TooLarge, LimitRecord
  <2> DEFINE B == BitsOf(s.watts, s.window, l)
  <2>3. /\ B \subseteq Bit
        /\ Extract(B, l, 0, WattsBits) = s.watts
        /\ Extract(B, l, WindowAt, WindowBits) = s.window
    BY <2>2, BitsOfNumbers
  <2>4. ToBits(s, l) = [s EXCEPT !.bits = B]
    BY <1>3 DEF ToBits, BitsOf
  <2> HIDE DEF B
  <2>5. ToBits(s, l) \in LimitRecord /\ GoodForms(ToBits(s, l), l)
    BY <2>3, <2>4 DEF LimitRecord, GoodForms
  <2>6. QED
    BY <2>1, <2>5
<1>4. QED
  BY <1>1, <1>2, <1>3

\* A limit filled in by a tool stays in its half, and its half shows it.
LEMMA CalcFresh ==
    ASSUME NEW l \in Limit, NEW s \in LimitRecord, s.window \subseteq 0 .. WindowBits - 1,
           s.bits = {}, ~TooLarge(s),
           NEW R, R = Requested(Calc(s, l), l)
    PROVE  /\ Calc(s, l).watts = s.watts /\ Calc(s, l).window = s.window
           /\ R \subseteq Bit /\ R \subseteq HalfOf(l) /\ Enable(l) \subseteq R
           /\ Extract(R, l, 0, WattsBits) = s.watts
           /\ Extract(R, l, WindowAt, WindowBits + 1) = s.window
<1> DEFINE B == BitsOf(s.watts, s.window, l)
<1>1. s.watts \subseteq 0 .. WattsBits - 1
  BY Layout DEF TooLarge, LimitRecord
<1>2. /\ Calc(s, l).bits = B
      /\ Calc(s, l).watts = s.watts /\ Calc(s, l).window = s.window
  <2>1. Calc(s, l) = [s EXCEPT !.bits = B]
    BY DEF Calc, ToBits, BitsOf
  <2> HIDE DEF B
  <2>2. QED
    BY <2>1 DEF LimitRecord
<1>3. \A j : j \in R <=> \/ j \in B
                      \/ j = Offset(l) + WattsBits
                      \/ j = Offset(l) + WattsBits + 1
  BY <1>2 DEF Requested, Enable, Clamp
<1>4. /\ B \subseteq Bit /\ B \subseteq HalfOf(l)
      /\ \A j \in Int : j \in B <=> \/ j - Offset(l) \in s.watts
                                  \/ j - Offset(l) - WindowAt \in s.window
  BY <1>1, BitsOfNumbers
<1> HIDE DEF B
<1>5. R \subseteq HalfOf(l) /\ Enable(l) \subseteq R
  <2>1. Offset(l) + WattsBits \in HalfOf(l) /\ Offset(l) + WattsBits + 1 \in HalfOf(l)
    BY Layout DEF HalfOf, Field
  <2>2. QED
    BY <1>3, <1>4, <2>1 DEF Enable
<1>6. R \subseteq Bit
  BY <1>5, InHalf, Layout
<1>7. Extract(R, l, 0, WattsBits) = s.watts
  <2>1. ASSUME NEW i \in 0 .. WattsBits - 1
        PROVE  Offset(l) + 0 + i \in R <=> i \in s.watts
    <3> DEFINE j == Offset(l) + 0 + i
    <3>1. /\ j \in Int /\ j - Offset(l) = i
          /\ j # Offset(l) + WattsBits /\ j # Offset(l) + WattsBits + 1
          /\ j - Offset(l) - WindowAt \notin 0 .. WindowBits - 1
      BY Numbers
    <3>2. j \in R <=> j \in B
      BY <1>3, <3>1
    <3>3. j \in B <=> i \in s.watts
      BY <1>4, <3>1
    <3>4. QED
      BY <3>2, <3>3
  <2>2. \A i : i \in Extract(R, l, 0, WattsBits)
                  <=> i \in 0 .. WattsBits - 1 /\ Offset(l) + 0 + i \in R
    BY <1>6, InExtract, Layout
  <2>3. \A i : i \in Extract(R, l, 0, WattsBits) <=> i \in s.watts
    BY <1>1, <2>1, <2>2
  <2>4. QED
    BY <2>3
<1>8. Extract(R, l, WindowAt, WindowBits + 1) = s.window
  <2>1. ASSUME NEW i \in 0 .. WindowBits
        PROVE  Offset(l) + WindowAt + i \in R <=> i \in s.window
    <3> DEFINE j == Offset(l) + WindowAt + i
    <3>1. /\ j \in Int /\ j - Offset(l) - WindowAt = i
          /\ j # Offset(l) + WattsBits /\ j # Offset(l) + WattsBits + 1
          /\ j - Offset(l) \notin 0 .. WattsBits - 1
      BY Numbers
    <3>2. j \in R <=> j \in B
      BY <1>3, <3>1
    <3>3. j \in B <=> i \in s.window
      BY <1>1, <1>4, <3>1
    <3>4. QED
      BY <3>2, <3>3
  <2>2. \A i : i \in Extract(R, l, WindowAt, WindowBits + 1)
                  <=> i \in 0 .. WindowBits + 1 - 1 /\ Offset(l) + WindowAt + i \in R
    BY <1>6, InExtract, Layout
  <2>3. \A i : i \in Extract(R, l, WindowAt, WindowBits + 1) <=> i \in s.window
    BY <2>1, <2>2, Layout
  <2>4. QED
    BY <2>3
<1>9. QED
  BY <1>2, <1>5, <1>6, <1>7, <1>8
-----------------------------------------------------------------------------
(* Types, and the two forms of every limit.                                *)

LimType == [Tool -> [Limit -> LimitRecord]]

LEMMA Types ==
    TypeOK <=> /\ msr \in [pkg : SUBSET Bit, dram : SUBSET Bit]
               /\ lim \in LimType
               /\ pc \in [Tool -> {"idle", "write"}]
               /\ args \in [Tool -> SUBSET Package]
               /\ value \in [Tool -> SUBSET Bit]
               /\ changed \in [Tool -> SUBSET Package]
               /\ ret \in [Tool -> [rc : {0, -1, -2}, limits : SUBSET Limit,
                                    installed : BOOLEAN]]
BY DEF TypeOK, LimType, LimitRecord

LEMMA PackageIsLimit == Package \subseteq Limit /\ "dram" \in Limit \ Package
BY DEF Package, Limit

LEMMA RequestedBits ==
    ASSUME NEW l \in Limit, NEW s \in LimitRecord
    PROVE  Requested(s, l) \in SUBSET Bit
<1>1. Offset(l) + WattsBits \in Bit /\ Offset(l) + WattsBits + 1 \in Bit
  BY Layout
<1>2. s.bits \subseteq Bit
  BY DEF LimitRecord
<1>3. QED
  BY <1>1, <1>2 DEF Requested, Enable, Clamp

\* One struct rapl_limit is replaced.
LEMMA PutLimit ==
    ASSUME lim \in LimType, LimitsGood, NEW t \in Tool, NEW l \in Limit,
           NEW x \in LimitRecord, GoodForms(x, l), lim' = [lim EXCEPT ![t][l] = x]
    PROVE  lim' \in LimType /\ LimitsGood'
<1>1. lim' \in LimType
  BY DEF LimType
<1>2. ASSUME NEW u \in Tool, NEW m \in Limit
      PROVE  GoodForms(lim'[u][m], m)
  <2>1. lim'[u][m] = IF u = t /\ m = l THEN x ELSE lim[u][m]
    BY DEF LimType
  <2>2. QED
    BY <2>1 DEF LimitsGood
<1>3. QED
  BY <1>1, <1>2 DEF LimitsGood

LEMMA InitForms == Init => FormsInv
<1> SUFFICES ASSUME Init PROVE FormsInv
  OBVIOUS
<1>1. msr \in [pkg : SUBSET Bit, dram : SUBSET Bit]
  <2>1. PICK w \in Fitting(WattsValues, WattsBits), s \in Fitting(WindowValues, WindowBits) :
          msr = [pkg |-> UNION {{Offset(l) + i : i \in w} \cup Enable(l)
                                \cup {Offset(l) + WindowAt + i : i \in s} : l \in Package},
                 dram |-> {}]
    BY DEF Init
  <2>2. w \subseteq 0 .. WattsBits - 1 /\ s \subseteq 0 .. WindowBits - 1
    BY DEF Fitting
  <2>3. ASSUME NEW l \in Package
        PROVE  ({Offset(l) + i : i \in w} \cup Enable(l)
                  \cup {Offset(l) + WindowAt + i : i \in s}) \subseteq Bit
    <3>1. /\ \A i \in w : Offset(l) + i \in Bit
          /\ \A i \in s : Offset(l) + WindowAt + i \in Bit
          /\ Offset(l) + WattsBits \in Bit
      BY <2>2, Layout, PackageIsLimit
    <3>2. QED
      BY <3>1 DEF Enable
  <2>4. UNION {{Offset(l) + i : i \in w} \cup Enable(l)
                \cup {Offset(l) + WindowAt + i : i \in s} : l \in Package} \subseteq Bit
    BY <2>3
  <2>5. QED
    BY <2>1, <2>4
<1>2. NewLimit \in LimitRecord
  BY DEF NewLimit, LimitRecord
<1>3. lim \in LimType
  BY <1>2 DEF Init, LimType
<1>4. NoResult \in [rc : {0, -1, -2}, limits : SUBSET Limit, installed : BOOLEAN]
  BY DEF NoResult
<1>5. TypeOK
  BY <1>1, <1>3, <1>4, Types DEF Init
<1>6. \A t \in Tool, l \in Limit : lim[t][l] = NewLimit
  BY DEF Init
<1>7. LimitsGood
  BY <1>6 DEF LimitsGood, GoodForms, NewLimit
<1>8. QED
  BY <1>5, <1>7 DEF FormsInv, PendingResult, Init

LEMMA FormsStep ==
    ASSUME WindowsFit, FormsInv, [Next]_vars
    PROVE  FormsInv'
<1> USE DEF FormsInv
<1>0. \A t \in Tool, l \in Limit : /\ lim[t][l] \in LimitRecord
                                 /\ lim[t][l].window \subseteq 0 .. WindowBits - 1
  BY Types DEF LimType, LimitsGood, GoodForms
<1>1. ASSUME NEW t \in Tool, NEW l \in UsedBy(t),
             NEW w \in WattsValues, NEW s \in WindowValues, Fill(t, l, w, s)
      PROVE  FormsInv'
  <2> DEFINE x == [bits |-> {}, watts |-> w, window |-> s]
  <2>1. l \in Limit /\ w \in SUBSET Nat /\ s \in SUBSET Nat
    BY LimitAssumption DEF UsedBy
  <2>2. x \in LimitRecord /\ GoodForms(x, l)
    BY <2>1 DEF LimitRecord, GoodForms, WindowsFit
  <2>3. lim' = [lim EXCEPT ![t][l] = x]
    BY <1>1 DEF Fill
  <2> HIDE DEF x
  <2>4. lim' \in LimType /\ LimitsGood'
    BY <2>1, <2>2, <2>3, PutLimit, Types
  <2>5. NoResult \in [rc : {0, -1, -2}, limits : SUBSET Limit, installed : BOOLEAN]
    BY DEF NoResult
  <2>6. TypeOK'
    BY <1>1, <2>4, <2>5, Types DEF Fill, TypeOK, LimType, LimitRecord
  <2>7. PendingResult'
    BY <1>1, Types DEF Fill, PendingResult
  <2>8. QED
    BY <2>4, <2>6, <2>7
<1>2. ASSUME NEW t \in Tool, NEW ls \in SUBSET (Package \cap UsedBy(t)) \ {{}}, BeginSet(t, ls)
      PROVE  FormsInv'
  <2> DEFINE new(l) == IF l \in Computed(t, ls) THEN Calc(lim[t][l], l) ELSE lim[t][l]
  <2>1. ls \in SUBSET Package
    OBVIOUS
  <2>2. \A l \in Limit : new(l) \in LimitRecord /\ GoodForms(new(l), l)
    BY <1>0, CalcForms DEF LimitsGood
  <2>3. lim' = [lim EXCEPT ![t] = [l \in Limit |-> new(l)]]
    BY <1>2, Types DEF BeginSet, LimType
  <2> HIDE DEF new
  <2>4. lim' \in LimType
    BY <2>2, <2>3, Types DEF LimType
  <2>5. ASSUME NEW u \in Tool, NEW l \in Limit
        PROVE  GoodForms(lim'[u][l], l)
    <3>1. lim'[u][l] = IF u = t THEN new(l) ELSE lim[u][l]
      BY <2>3, Types DEF LimType
    <3>2. QED
      BY <2>2, <3>1 DEF LimitsGood
  <2>6. LimitsGood'
    BY <2>5 DEF LimitsGood
  <2>7. pc' \in [Tool -> {"idle", "write"}] /\ args' \in [Tool -> SUBSET Package]
    BY <1>2, <2>1, Types DEF BeginSet
  <2>8. value' \in [Tool -> SUBSET Bit]
    <3>1. UNION {Requested(lim'[t][l], l) : l \in ls} \subseteq Bit
      BY <2>1, <2>4, RequestedBits, PackageIsLimit DEF LimType
    <3>2. Kept(ls) \subseteq Bit
      BY Types DEF Kept
    <3> DEFINE X(ok) == (IF ok THEN Kept(ls) ELSE {})
                           \cup UNION {Requested(lim'[t][l], l) : l \in ls}
    <3>3. \/ UNCHANGED value
          \/ \E ok \in BOOLEAN : value' = [value EXCEPT ![t] = X(ok)]
      BY <1>2 DEF BeginSet
    <3>4. \A ok \in BOOLEAN : X(ok) \in SUBSET Bit
      BY <3>1, <3>2
    <3> HIDE DEF X
    <3>5. QED
      BY <3>3, <3>4, Types
  <2>9. /\ ret' \in [Tool -> [rc : {0, -1, -2}, limits : SUBSET Limit, installed : BOOLEAN]]
        /\ PendingResult'
    <3> DEFINE failed == [rc |-> -1, limits |-> ls, installed |-> FALSE]
               so(ok) == [NoResult EXCEPT !.rc = IF ok THEN 0 ELSE -1]
    <3>1. \E r \in {failed, so(TRUE), so(FALSE)} : ret' = [ret EXCEPT ![t] = r]
      BY <1>2 DEF BeginSet
    <3>2. \A r \in {failed, so(TRUE), so(FALSE)} :
             /\ r \in [rc : {0, -1, -2}, limits : SUBSET Limit, installed : BOOLEAN]
             /\ r.rc \in {0, -1}
      <4>1. failed \in [rc : {0, -1, -2}, limits : SUBSET Limit, installed : BOOLEAN]
            /\ failed.rc = -1
        BY <2>1, PackageIsLimit
      <4>2. NoResult \in [rc : {0, -1, -2}, limits : SUBSET Limit, installed : BOOLEAN]
        BY DEF NoResult
      <4>3. \A n \in {0, -1} :
               /\ [NoResult EXCEPT !.rc = n] \in
                     [rc : {0, -1, -2}, limits : SUBSET Limit, installed : BOOLEAN]
               /\ [NoResult EXCEPT !.rc = n].rc = n
        BY <4>2
      <4>4. QED
        BY <4>1, <4>3
    <3> HIDE DEF failed, so
    <3>3. \A u \in Tool \ {t} : pc'[u] = pc[u] /\ ret'[u] = ret[u]
      BY <1>2, <3>1, Types DEF BeginSet
    <3>4. ret'[t].rc \in {0, -1}
      BY <3>1, <3>2, Types
    <3>5. QED
      <4>1. ret' \in [Tool -> [rc : {0, -1, -2}, limits : SUBSET Limit, installed : BOOLEAN]]
        BY <3>1, <3>2, Types
      <4>2. PendingResult'
        BY <3>3, <3>4 DEF PendingResult
      <4>3. QED
        BY <4>1, <4>2
  <2>10. changed' \in [Tool -> SUBSET Package] /\ UNCHANGED msr
    BY <1>2, Types DEF BeginSet
  <2>11. TypeOK'
    BY <2>4, <2>7, <2>8, <2>9, <2>10, Types DEF TypeOK, LimType, LimitRecord
  <2>12. QED
    BY <2>6, <2>9, <2>11
<1>3. ASSUME NEW t \in Tool, WriteSet(t)
      PROVE  FormsInv'
  <2>1. msr' \in [pkg : SUBSET Bit, dram : SUBSET Bit]
    BY <1>3, Types DEF WriteSet
  <2>2. /\ pc' \in [Tool -> {"idle", "write"}] /\ args' \in [Tool -> SUBSET Package]
        /\ value' \in [Tool -> SUBSET Bit] /\ changed' \in [Tool -> SUBSET Package]
        /\ UNCHANGED lim
    BY <1>3, Types DEF WriteSet
  <2>3. /\ ret' \in [Tool -> [rc : {0, -1, -2}, limits : SUBSET Limit, installed : BOOLEAN]]
        /\ \A u \in Tool \ {t} : ret'[u] = ret[u]
    <3>1. PICK ok \in BOOLEAN :
             ret' = [ret EXCEPT ![t] =
                        [rc |-> WriteResult(ret[t].rc, ok), limits |-> args[t],
                         installed |-> Installed(msr'.pkg, t, args[t])]]
      BY <1>3, Types DEF WriteSet
    <3>2. WriteResult(ret[t].rc, ok) \in {0, -1, -2} /\ args[t] \in SUBSET Limit
      BY <1>3, Types, PackageIsLimit DEF WriteResult, PendingResult, WriteSet
    <3>3. Installed(msr'.pkg, t, args[t]) \in BOOLEAN
      BY DEF Installed
    <3> DEFINE r == [rc |-> WriteResult(ret[t].rc, ok), limits |-> args[t],
                     installed |-> Installed(msr'.pkg, t, args[t])]
    <3>4. r \in [rc : {0, -1, -2}, limits : SUBSET Limit, installed : BOOLEAN]
      BY <3>2, <3>3
    <3> HIDE DEF r
    <3>5. ret' = [ret EXCEPT ![t] = r]
      BY <3>1 DEF r
    <3>6. QED
      BY <3>4, <3>5, Types
  <2>4. TypeOK'
    BY <2>1, <2>2, <2>3, Types DEF TypeOK, LimType, LimitRecord
  <2>5. PendingResult'
    BY <1>3, <2>3, Types DEF WriteSet, PendingResult
  <2>6. LimitsGood'
    BY <2>2 DEF LimitsGood
  <2>7. QED
    BY <2>4, <2>5, <2>6
<1>4. ASSUME NEW t \in Tool, SetDram(t)
      PROVE  FormsInv'
  <2> DEFINE s == Calc(lim[t]["dram"], "dram")
  <2>1. s \in LimitRecord /\ GoodForms(s, "dram")
    BY <1>0, CalcForms, PackageIsLimit
  <2>2. \/ UNCHANGED lim
        \/ lim' = [lim EXCEPT ![t]["dram"] = s]
    BY <1>4 DEF SetDram
  <2>3. msr' \in [pkg : SUBSET Bit, dram : SUBSET Bit]
    <3>1. \/ UNCHANGED msr
          \/ msr' = [msr EXCEPT !.dram = s.bits \cup Enable("dram")]
      BY <1>4 DEF SetDram
    <3>2. s.bits \cup Enable("dram") \in SUBSET Bit
      BY <2>1, RequestedBits, PackageIsLimit DEF Requested
    <3>3. QED
      BY <3>1, <3>2, Types
  <2>4. /\ ret' \in [Tool -> [rc : {0, -1, -2}, limits : SUBSET Limit, installed : BOOLEAN]]
        /\ \A u \in Tool \ {t} : ret'[u] = ret[u]
    <3> DEFINE r(rc, done) == [rc |-> rc, limits |-> {"dram"}, installed |-> done]
    <3>1. \E rc \in {0, -1}, done \in BOOLEAN : ret' = [ret EXCEPT ![t] = r(rc, done)]
      BY <1>4 DEF SetDram
    <3>2. \A rc \in {0, -1}, done \in BOOLEAN :
             r(rc, done) \in [rc : {0, -1, -2}, limits : SUBSET Limit, installed : BOOLEAN]
      BY PackageIsLimit
    <3> HIDE DEF r
    <3>3. QED
      BY <3>1, <3>2, Types
  <2> HIDE DEF s
  <2>5. lim' \in LimType /\ LimitsGood'
    BY <2>1, <2>2, PutLimit, PackageIsLimit, Types DEF LimitsGood
  <2>6. TypeOK'
    BY <1>4, <2>3, <2>4, <2>5, Types DEF SetDram, TypeOK, LimType, LimitRecord
  <2>7. PendingResult'
    BY <1>4, <2>4, Types DEF SetDram, PendingResult
  <2>8. QED
    BY <2>5, <2>6, <2>7
<1>5. ASSUME NEW t \in Tool, NEW l \in Limit, Get(t, l)
      PROVE  FormsInv'
  <2>1. PICK ok \in BOOLEAN :
           lim' = [lim EXCEPT ![t][l] =
                      Calc(IF ok THEN [lim[t][l] EXCEPT !.bits = msr[Register(l)]]
                           ELSE lim[t][l], l)]
    BY <1>5, Types DEF Get, LimType
  <2> DEFINE r == IF ok THEN [lim[t][l] EXCEPT !.bits = msr[Register(l)]] ELSE lim[t][l]
  <2>2. msr[Register(l)] \in SUBSET Bit
    BY Types DEF Register
  <2>3. r \in LimitRecord /\ r.window \subseteq 0 .. WindowBits - 1
    BY <1>0, <2>2 DEF LimitRecord
  <2>4. lim' = [lim EXCEPT ![t][l] = Calc(r, l)]
    BY <2>1
  <2> HIDE DEF r
  <2>5. lim' \in LimType /\ LimitsGood'
    BY <2>3, <2>4, CalcForms, PutLimit, Types
  <2>6. NoResult \in [rc : {0, -1, -2}, limits : SUBSET Limit, installed : BOOLEAN]
    BY DEF NoResult
  <2>7. TypeOK'
    BY <1>5, <2>5, <2>6, Types DEF Get, TypeOK, LimType, LimitRecord
  <2>8. PendingResult'
    BY <1>5, Types DEF Get, PendingResult
  <2>9. QED
    BY <2>5, <2>7, <2>8
<1>6. CASE UNCHANGED vars
  BY <1>6 DEF vars, TypeOK, PendingResult, LimitsGood
<1>7. QED
  BY <1>1, <1>2, <1>3, <1>4, <1>5, <1>6 DEF Next
-----------------------------------------------------------------------------
(* What a call is about to write, half by half.                            *)

CallFails(t, ls) == \E l \in ls : CalcFails(lim[t][l])

LEMMA ValueOfCall ==
    ASSUME WindowsFit, FreshLimits, FormsInv, NEW t \in Tool, NEW ls \in SUBSET Package,
           BeginSet(t, ls), ~CallFails(t, ls)
    PROVE  /\ \A l \in ls : /\ OneLimit(value'[t], l)
                           /\ Extract(value'[t], l, 0, WattsBits) = lim'[t][l].watts
           /\ ~ReadsFail => \A l \in Package \ ls :
                                 value'[t] \cap HalfOf(l) = msr.pkg \cap HalfOf(l)
<1> USE DEF FormsInv
<1> DEFINE R(l) == Requested(Calc(lim[t][l], l), l)
<1>1. \A l \in ls : /\ l \in Limit /\ lim[t][l] \in LimitRecord
                    /\ lim[t][l].window \subseteq 0 .. WindowBits - 1
                    /\ lim[t][l].bits = {} /\ ~TooLarge(lim[t][l])
                    /\ lim[t][l].watts \in WattsValues /\ lim[t][l].window \in WindowValues
  <2>1. \A l \in ls : Filled(lim[t][l])
    BY DEF BeginSet
  <2>2. QED
    BY <2>1, Types, PackageIsLimit
      DEF LimType, LimitsGood, GoodForms, Filled, CallFails, CalcFails
<1>2. \A l \in ls : lim'[t][l] = Calc(lim[t][l], l)
  <2>1. Computed(t, ls) = ls
    BY DEF Computed, CallFails
  <2>2. \A l \in Limit : lim'[t][l] = IF l \in Computed(t, ls) THEN Calc(lim[t][l], l)
                                      ELSE lim[t][l]
    BY Types DEF BeginSet, LimType
  <2>3. QED
    BY <2>1, <2>2, PackageIsLimit
<1>3. ASSUME NEW l \in ls
      PROVE  /\ lim'[t][l].watts = lim[t][l].watts
             /\ R(l) \subseteq Bit /\ R(l) \subseteq HalfOf(l) /\ Enable(l) \subseteq R(l)
             /\ Extract(R(l), l, 0, WattsBits) = lim[t][l].watts
             /\ Extract(R(l), l, WindowAt, WindowBits + 1) = lim[t][l].window
  BY <1>1, <1>2, CalcFresh
<1> HIDE DEF R
<1>4. PICK ok \in BOOLEAN :
         /\ value'[t] = (IF ok THEN Kept(ls) ELSE {}) \cup UNION {R(l) : l \in ls}
         /\ ~ReadsFail => ok
  <2>1. {Requested(lim'[t][l], l) : l \in ls} = {R(l) : l \in ls}
    BY <1>2 DEF R
  <2>2. \E ok \in {TRUE} \cup (IF ReadsFail /\ ls # Package THEN {FALSE} ELSE {}) :
           value' = [value EXCEPT ![t] = (IF ok THEN Kept(ls) ELSE {})
                       \cup UNION {Requested(lim'[t][l], l) : l \in ls}]
    BY DEF BeginSet, CallFails
  <2>3. QED
    BY <2>1, <2>2, Types
<1> DEFINE kept == IF ok THEN Kept(ls) ELSE {}
           V == value'[t]
<1>5. /\ kept \subseteq Bit
      /\ \A l \in Package \ ls : ok => kept \cap HalfOf(l) = msr.pkg \cap HalfOf(l)
  <2>1. Kept(ls) \subseteq Bit
    BY Types DEF Kept
  <2>2. ASSUME NEW l \in Package \ ls
        PROVE  Kept(ls) \cap HalfOf(l) = msr.pkg \cap HalfOf(l)
    BY HalvesDisjoint DEF Kept
  <2>3. QED
    BY <2>1, <2>2
<1>6. \A l \in ls : kept \cap HalfOf(l) = {}
  BY HalvesDisjoint DEF Kept
<1> HIDE DEF kept
<1>7. V = kept \cup UNION {R(l) : l \in ls}
  BY <1>4 DEF kept
<1>8. V \in SUBSET Bit
  BY <1>3, <1>5, <1>7
<1> HIDE DEF V
<1>9. ASSUME NEW l \in ls
      PROVE  OneLimit(V, l) /\ Extract(V, l, 0, WattsBits) = lim'[t][l].watts
  <2>1. R(l) \cap HalfOf(l) = V \cap HalfOf(l)
    <3>1. \A m \in ls : m # l => R(m) \cap HalfOf(l) = {}
      BY <1>3, HalvesDisjoint
    <3>2. ASSUME NEW i \in V \cap HalfOf(l)
          PROVE  i \in R(l)
      BY <1>6, <1>7, <3>1
    <3>3. R(l) \subseteq V
      BY <1>7
    <3>4. QED
      BY <3>2, <3>3
  <2>2. OneLimit(R(l), l)
    BY <1>1, <1>3 DEF OneLimit
  <2>3. R(l) \in SUBSET Bit /\ l \in Limit
    BY <1>1, <1>3
  <2>4. OneLimit(V, l)
    BY <1>8, <2>1, <2>2, <2>3, OneLimitOfHalf
  <2>5. Extract(R(l), l, 0, WattsBits) = Extract(V, l, 0, WattsBits)
    BY <1>8, <2>1, <2>3, ExtractOfHalf, Layout
  <2>6. QED
    BY <1>3, <2>4, <2>5
<1>10. ASSUME ~ReadsFail, NEW l \in Package \ ls
       PROVE  V \cap HalfOf(l) = msr.pkg \cap HalfOf(l)
  <2>1. \A m \in ls : R(m) \cap HalfOf(l) = {}
    BY <1>3, HalvesDisjoint
  <2>2. V \cap HalfOf(l) = kept \cap HalfOf(l)
    BY <1>7, <2>1
  <2>3. QED
    BY <1>4, <1>5, <1>10, <2>2
<1>11. QED
  BY <1>9, <1>10 DEF V

\* A call that begins is the only one whose value, arguments and limits change.
LEMMA BeginFrame ==
    ASSUME TypeOK, NEW t \in Tool, NEW ls \in SUBSET Package, BeginSet(t, ls)
    PROVE  /\ pc[t] = "idle" /\ UNCHANGED msr
           /\ \A u \in Tool \ {t} :
                 /\ pc'[u] = pc[u] /\ args'[u] = args[u] /\ value'[u] = value[u]
                 /\ lim'[u] = lim[u] /\ ret'[u] = ret[u] /\ changed'[u] = changed[u]
           /\ pc'[t] = "write" => ~CallFails(t, ls) /\ args'[t] = ls
           /\ CallFails(t, ls) => ret'[t].rc = -1
           /\ ~CallFails(t, ls) => ret'[t].installed
           /\ changed'[t] = {}
<1>1. pc[t] = "idle" /\ UNCHANGED msr /\ changed'[t] = {}
  BY Types DEF BeginSet
<1>2. CASE CallFails(t, ls)
  BY <1>1, <1>2, Types DEF BeginSet, CallFails, LimType
<1>3. CASE ~CallFails(t, ls)
  <2>1. PICK ok \in BOOLEAN :
           ret' = [ret EXCEPT ![t] = [NoResult EXCEPT !.rc = IF ok THEN 0 ELSE -1]]
    BY <1>3 DEF BeginSet, CallFails
  <2>2. ret'[t].installed
    BY <2>1, Types DEF NoResult
  <2>3. \A u \in Tool \ {t} : ret'[u] = ret[u]
    BY <2>1, Types
  <2>4. pc' = [pc EXCEPT ![t] = "write"] /\ args' = [args EXCEPT ![t] = ls]
    BY <1>3 DEF BeginSet, CallFails
  <2>5. /\ \A u \in Tool \ {t} : value'[u] = value[u]
        /\ \A u \in Tool \ {t} : lim'[u] = lim[u] /\ changed'[u] = changed[u]
    BY <1>3, Types DEF BeginSet, CallFails, LimType
  <2>6. QED
    BY <1>1, <1>3, <2>2, <2>3, <2>4, <2>5, Types
<1>4. QED
  BY <1>2, <1>3

\* The calls that leave the package register and every running call alone.
LEMMA OtherFrame ==
    ASSUME TypeOK, NEW t \in Tool,
           \/ \E l \in UsedBy(t), w \in WattsValues, s \in WindowValues : Fill(t, l, w, s)
           \/ SetDram(t)
           \/ \E l \in Limit : Get(t, l)
    PROVE  /\ pc[t] = "idle" /\ msr'.pkg = msr.pkg
           /\ UNCHANGED <<pc, args, value, changed>>
           /\ \A u \in Tool \ {t} : lim'[u] = lim[u] /\ ret'[u] = ret[u]
           /\ ret'[t].installed \/ ret'[t].limits = {"dram"}
<1>1. CASE \E l \in UsedBy(t), w \in WattsValues, s \in WindowValues : Fill(t, l, w, s)
  BY <1>1, Types DEF Fill, LimType, NoResult
<1>2. CASE SetDram(t)
  <2>1. \A u \in Tool \ {t} : lim'[u] = lim[u]
    BY <1>2, Types DEF SetDram, LimType
  <2>2. /\ pc[t] = "idle" /\ msr'.pkg = msr.pkg
        /\ UNCHANGED <<pc, args, value, changed>>
    BY <1>2, Types DEF SetDram
  <2>3. /\ ret'[t].limits = {"dram"}
        /\ \A u \in Tool \ {t} : ret'[u] = ret[u]
    BY <1>2, Types DEF SetDram
  <2>4. QED
    BY <2>1, <2>2, <2>3
<1>3. CASE \E l \in Limit : Get(t, l)
  BY <1>3, Types DEF Get, LimType, NoResult
<1>4. QED
  BY <1>1, <1>2, <1>3
-----------------------------------------------------------------------------
(* Zero means that the limits are in the register.                         *)

LEMMA InitSet == Init => SetInv
<1> SUFFICES ASSUME Init PROVE SetInv
  OBVIOUS
<1>1. PendingInstalled
  BY DEF Init, PendingInstalled
<1>2. PkgZeroMeansSet
  BY DEF Init, PkgZeroMeansSet, NoResult
<1>3. QED
  BY <1>1, <1>2, InitForms DEF SetInv

LEMMA SetStep ==
    ASSUME WindowsFit, FreshLimits, SetInv, [Next]_vars
    PROVE  SetInv'
<1>0. FormsInv /\ FormsInv' /\ TypeOK
  BY FormsStep DEF SetInv, FormsInv
<1>1. ASSUME NEW t \in Tool,
             \/ \E l \in UsedBy(t), w \in WattsValues, s \in WindowValues : Fill(t, l, w, s)
             \/ SetDram(t)
             \/ \E l \in Limit : Get(t, l)
      PROVE  PendingInstalled' /\ PkgZeroMeansSet'
  <2>1. PendingInstalled'
    BY <1>0, <1>1, OtherFrame DEF SetInv, PendingInstalled, Installed
  <2>2. PkgZeroMeansSet'
    BY <1>0, <1>1, OtherFrame, PackageIsLimit DEF SetInv, PkgZeroMeansSet
  <2>3. QED
    BY <2>1, <2>2
<1>2. ASSUME NEW t \in Tool, NEW ls \in SUBSET Package, BeginSet(t, ls)
      PROVE  PendingInstalled' /\ PkgZeroMeansSet'
  <2>1. ASSUME NEW u \in Tool, pc'[u] = "write"
        PROVE  Installed(value[u], u, args[u])'
    <3>1. CASE u # t
      BY <1>0, <1>2, <2>1, <3>1, BeginFrame DEF SetInv, PendingInstalled, Installed
    <3>2. CASE u = t
      <4>1. /\ args'[t] = ls
            /\ \A l \in ls : /\ OneLimit(value'[t], l)
                             /\ Extract(value'[t], l, 0, WattsBits) = lim'[t][l].watts
        BY <1>0, <1>2, <2>1, <3>2, BeginFrame, ValueOfCall
      <4>2. QED
        BY <3>2, <4>1 DEF Installed, OneLimit
    <3>3. QED
      BY <3>1, <3>2
  <2>2. PkgZeroMeansSet'
    BY <1>0, <1>2, BeginFrame DEF SetInv, PkgZeroMeansSet
  <2>3. QED
    BY <2>1, <2>2 DEF PendingInstalled
<1>3. ASSUME NEW t \in Tool, WriteSet(t)
      PROVE  PendingInstalled' /\ PkgZeroMeansSet'
  <2>1. /\ UNCHANGED lim /\ pc'[t] = "idle"
        /\ \A u \in Tool \ {t} : /\ pc'[u] = pc[u] /\ args'[u] = args[u]
                                /\ value'[u] = value[u] /\ ret'[u] = ret[u]
    BY <1>0, <1>3, Types DEF WriteSet
  <2>2. PendingInstalled'
    BY <2>1 DEF SetInv, PendingInstalled, Installed
  <2>3. ASSUME ret'[t].rc = 0
        PROVE  ret'[t].installed
    <3>1. PICK ok \in BOOLEAN :
             /\ msr' = IF ok THEN [msr EXCEPT !.pkg = value[t]] ELSE msr
             /\ ret'[t] = [rc |-> WriteResult(ret[t].rc, ok), limits |-> args[t],
                            installed |-> Installed(msr'.pkg, t, args[t])]
      BY <1>0, <1>3, Types DEF WriteSet
    <3>2. ret[t].rc \in {0, -1}
      BY <1>0, <1>3 DEF WriteSet, FormsInv, PendingResult
    <3>3. WriteResult(ret[t].rc, ok) = 0
      BY <2>3, <3>1
    <3>4. ok = TRUE
      BY <3>2, <3>3 DEF WriteResult
    <3>5. msr'.pkg = value[t]
      BY <1>0, <3>1, <3>4, Types
    <3>6. Installed(value[t], t, args[t])
      BY <1>3 DEF SetInv, PendingInstalled, WriteSet
    <3>7. QED
      BY <3>1, <3>5, <3>6
  <2>4. PkgZeroMeansSet'
    BY <2>1, <2>3 DEF SetInv, PkgZeroMeansSet
  <2>5. QED
    BY <2>2, <2>4
<1>4. CASE UNCHANGED vars
  BY <1>0, <1>4 DEF vars, SetInv, PendingInstalled, PkgZeroMeansSet, Installed
<1>5. QED
  BY <1>0, <1>1, <1>2, <1>3, <1>4 DEF Next, SetInv

-----------------------------------------------------------------------------
(* No half is a mixture of limits, and the other half is kept.             *)

LEMMA NoMixedIs == NoMixedLimit <=> \A l \in Package : OneLimit(msr.pkg, l)
BY DEF NoMixedLimit, OneLimit

LEMMA InitKeep == ASSUME WindowsFit PROVE Init => KeepInv
<1> SUFFICES ASSUME Init PROVE KeepInv
  OBVIOUS
<1>1. PICK w \in Fitting(WattsValues, WattsBits), s \in Fitting(WindowValues, WindowBits) :
        msr = [pkg |-> UNION {{Offset(l) + i : i \in w} \cup Enable(l)
                              \cup {Offset(l) + WindowAt + i : i \in s} : l \in Package},
               dram |-> {}]
  BY DEF Init
<1>2. /\ w \subseteq 0 .. WattsBits - 1 /\ s \subseteq 0 .. WindowBits - 1
      /\ w \in WattsValues /\ s \in WindowValues
  BY DEF Fitting
<1> DEFINE H(l) == {Offset(l) + i : i \in w} \cup Enable(l)
                       \cup {Offset(l) + WindowAt + i : i \in s}
<1>3. ASSUME NEW l \in Package
      PROVE  OneLimit(msr.pkg, l)
  <2>1. /\ msr.pkg \in SUBSET Bit /\ l \in Limit
        /\ msr.pkg = UNION {H(m) : m \in Package}
    BY <1>1, InitForms, Types, PackageIsLimit DEF FormsInv
  <2>2. \A j : j \in H(l) <=> \/ \E i \in w : j = Offset(l) + i
                             \/ j = Offset(l) + WattsBits
                             \/ \E i \in s : j = Offset(l) + WindowAt + i
    BY DEF Enable
  <2>3. \A m \in Package : H(m) \subseteq HalfOf(m)
    <3> SUFFICES ASSUME NEW m \in Package PROVE H(m) \subseteq HalfOf(m)
      OBVIOUS
    <3>1. /\ \A i \in w : Offset(m) + i \in HalfOf(m)
          /\ \A i \in s : Offset(m) + WindowAt + i \in HalfOf(m)
          /\ Offset(m) + WattsBits \in HalfOf(m)
      BY <1>2, Layout, PackageIsLimit DEF HalfOf, Field
    <3>2. QED
      BY <3>1 DEF Enable
  <2> HIDE DEF H
  <2>4. H(l) \cap HalfOf(l) = msr.pkg \cap HalfOf(l)
    <3>1. \A m \in Package : m # l => H(m) \cap HalfOf(l) = {}
      BY <2>3, HalvesDisjoint
    <3>2. ASSUME NEW j \in msr.pkg \cap HalfOf(l)
          PROVE  j \in H(l)
      BY <2>1, <3>1
    <3>3. H(l) \subseteq msr.pkg
      BY <2>1
    <3>4. QED
      BY <3>2, <3>3
  <2>5. H(l) \in SUBSET Bit
    BY <2>1
  <2>6. Extract(H(l), l, 0, WattsBits) = w
    <3>1. ASSUME NEW i \in 0 .. WattsBits - 1
          PROVE  Offset(l) + 0 + i \in H(l) <=> i \in w
      <4>1. Offset(l) + 0 + i = Offset(l) + i
        BY <2>1, Layout
      <4>2. /\ Offset(l) + i # Offset(l) + WattsBits
            /\ \A k \in s : Offset(l) + i # Offset(l) + WindowAt + k
            /\ \A k \in w : Offset(l) + i = Offset(l) + k => i = k
        BY <1>2, <2>1, Layout
      <4>3. QED
        BY <2>2, <4>1, <4>2
    <3>2. \A i : i \in Extract(H(l), l, 0, WattsBits)
                    <=> i \in 0 .. WattsBits - 1 /\ Offset(l) + 0 + i \in H(l)
      BY <2>1, <2>5, InExtract, Layout
    <3>3. \A i : i \in Extract(H(l), l, 0, WattsBits) <=> i \in w
      BY <1>2, <3>1, <3>2
    <3>4. QED
      BY <3>3
  <2>7. Extract(H(l), l, WindowAt, WindowBits + 1) = s
    <3>1. ASSUME NEW i \in 0 .. WindowBits
          PROVE  Offset(l) + WindowAt + i \in H(l) <=> i \in s
      <4>0. /\ Offset(l) \in Nat /\ i \in Nat /\ WindowAt = WattsBits + 2
            /\ WattsBits \in Nat /\ w \subseteq 0 .. WattsBits - 1 /\ s \subseteq Nat
        BY <1>2, <2>1, Numbers
      <4>1. /\ Offset(l) + WindowAt + i # Offset(l) + WattsBits
            /\ \A k \in w : Offset(l) + WindowAt + i # Offset(l) + k
            /\ \A k \in s : Offset(l) + WindowAt + i = Offset(l) + WindowAt + k => i = k
        BY <4>0
      <4>2. QED
        BY <2>2, <4>1
    <3>2. \A i : i \in Extract(H(l), l, WindowAt, WindowBits + 1)
                    <=> i \in 0 .. WindowBits + 1 - 1 /\ Offset(l) + WindowAt + i \in H(l)
      BY <2>1, <2>5, InExtract, Layout
    <3>3. \A i : i \in Extract(H(l), l, WindowAt, WindowBits + 1) <=> i \in s
      <4>1. \A i : i \in 0 .. WindowBits + 1 - 1 <=> i \in 0 .. WindowBits
        BY Layout
      <4>2. \A i \in s : i \in 0 .. WindowBits
        BY <1>2, Layout
      <4>3. QED
        BY <3>1, <3>2, <4>1, <4>2
    <3>4. QED
      BY <3>3
  <2>8. OneLimit(H(l), l)
    BY <1>2, <2>2, <2>6, <2>7 DEF OneLimit, Enable
  <2>9. QED
    BY <2>1, <2>4, <2>5, <2>8, OneLimitOfHalf
<1>4. PendingUnmixed /\ PendingKeeps
  BY DEF Init, PendingUnmixed, PendingKeeps
<1>5. QED
  BY <1>3, <1>4, InitForms, NoMixedIs DEF KeepInv

LEMMA KeepStep ==
    ASSUME WindowsFit, FreshLimits, ~ReadsFail, KeepInv, [Next]_vars
    PROVE  KeepInv'
<1>0. FormsInv /\ FormsInv' /\ TypeOK /\ \A l \in Package : OneLimit(msr.pkg, l)
  BY FormsStep, NoMixedIs DEF KeepInv, FormsInv
<1> DEFINE Rest == PendingUnmixed /\ PendingKeeps /\ \A l \in Package : OneLimit(msr.pkg, l)
<1>1. ASSUME NEW t \in Tool,
             \/ \E l \in UsedBy(t), w \in WattsValues, s \in WindowValues : Fill(t, l, w, s)
             \/ SetDram(t)
             \/ \E l \in Limit : Get(t, l)
      PROVE  Rest'
  <2>1. msr'.pkg = msr.pkg /\ UNCHANGED <<pc, args, value, changed>>
    BY <1>0, <1>1, OtherFrame
  <2>2. QED
    BY <1>0, <2>1 DEF KeepInv, PendingUnmixed, PendingKeeps, OneLimit
<1>2. ASSUME NEW t \in Tool, NEW ls \in SUBSET Package, BeginSet(t, ls)
      PROVE  Rest'
  <2>1. /\ UNCHANGED msr
        /\ \A u \in Tool \ {t} :
              /\ pc'[u] = pc[u] /\ args'[u] = args[u] /\ value'[u] = value[u]
              /\ changed'[u] = changed[u]
        /\ pc'[t] = "write" => ~CallFails(t, ls) /\ args'[t] = ls
        /\ changed'[t] = {}
    BY <1>0, <1>2, BeginFrame
  <2>2. ASSUME pc'[t] = "write"
        PROVE  /\ \A l \in ls : OneLimit(value'[t], l)
               /\ \A l \in Package \ ls : value'[t] \cap HalfOf(l) = msr.pkg \cap HalfOf(l)
    BY <1>0, <1>2, <2>1, <2>2, ValueOfCall
  <2>3. ASSUME pc'[t] = "write", NEW l \in Package
        PROVE  OneLimit(value'[t], l)
    <3>1. /\ l \in Limit /\ msr.pkg \in SUBSET Bit /\ value'[t] \in SUBSET Bit
      BY <1>0, Types, PackageIsLimit DEF FormsInv, TypeOK
    <3>2. QED
      BY <1>0, <2>2, <2>3, <3>1, OneLimitOfHalf
  <2>4. PendingUnmixed'
    BY <2>1, <2>3 DEF KeepInv, PendingUnmixed, OneLimit
  <2>5. PendingKeeps'
    BY <2>1, <2>2 DEF KeepInv, PendingKeeps
  <2>6. QED
    BY <1>0, <2>1, <2>4, <2>5 DEF OneLimit
<1>3. ASSUME NEW t \in Tool, WriteSet(t)
      PROVE  Rest'
  <2>1. /\ pc[t] = "write" /\ pc'[t] = "idle"
        /\ \A u \in Tool \ {t} : /\ pc'[u] = pc[u] /\ args'[u] = args[u]
                                /\ value'[u] = value[u]
        /\ \A u \in Tool \ {t} : pc[u] = "write" =>
              changed'[u] = changed[u] \cup {l \in Package : ~Untouched(l)}
        /\ msr'.pkg \in {msr.pkg, value[t]}
    BY <1>0, <1>3, Types DEF WriteSet
  <2>2. PendingUnmixed'
    BY <2>1 DEF KeepInv, PendingUnmixed, OneLimit
  <2>3. ASSUME NEW u \in Tool, pc'[u] = "write", NEW l \in Package \ (args'[u] \cup changed'[u])
        PROVE  value'[u] \cap HalfOf(l) = msr'.pkg \cap HalfOf(l)
    <3>1. u # t /\ pc[u] = "write" /\ l \in Package \ (args[u] \cup changed[u]) /\ Untouched(l)
      BY <2>1, <2>3
    <3>2. QED
      BY <2>1, <3>1 DEF KeepInv, PendingKeeps, Untouched
  <2>4. \A l \in Package : OneLimit(msr'.pkg, l)
    BY <1>0, <2>1 DEF KeepInv, PendingUnmixed
  <2>5. QED
    BY <2>2, <2>3, <2>4 DEF PendingKeeps, OneLimit
<1>4. ASSUME UNCHANGED vars
      PROVE  Rest'
  BY <1>0, <1>4 DEF vars, KeepInv, PendingUnmixed, PendingKeeps, OneLimit
<1>5. Rest'
  BY <1>1, <1>2, <1>3, <1>4 DEF Next
<1>6. QED
  BY <1>0, <1>5, NoMixedIs DEF KeepInv, NoMixedLimit, OneLimit
-----------------------------------------------------------------------------
(* Theorems.                                                               *)

\* Every variable keeps its type: bits stay in the register, calls in the
\* package register's two limits, results between 0 and -2 (msr_rapl.c).
THEOREM TypeCorrect == WindowsFit => (Spec => []TypeOK)
<1> SUFFICES ASSUME WindowsFit PROVE Spec => []TypeOK
  OBVIOUS
<1>1. FormsInv => TypeOK
  BY DEF FormsInv
<1>2. FormsInv /\ [Next]_vars => FormsInv'
  BY FormsStep
<1>3. QED
  BY InitForms, <1>1, <1>2, PTL DEF Spec

\* The watts and the window of a limit are those of its bits after any sequence
\* of calls, of failed reads and of limits used again after they were read back
\* (calc_rapl_bits, calc_rapl_from_bits).
THEOREM FormsStayEqual == WindowsFit => (Spec => []FormsAgree)
<1> SUFFICES ASSUME WindowsFit PROVE Spec => []FormsAgree
  OBVIOUS
<1>1. FormsInv => FormsAgree
  BY DEF FormsInv, LimitsGood, GoodForms, FormsAgree
<1>2. FormsInv /\ [Next]_vars => FormsInv'
  BY FormsStep
<1>3. QED
  BY InitForms, <1>1, <1>2, PTL DEF Spec

\* set_pkg_rapl_limit returns 0 only if its limits are in the register, with
\* refused reads and locked registers too.
THEOREM ZeroMeansInstalled == WindowsFit /\ FreshLimits => (Spec => []PkgZeroMeansSet)
<1> SUFFICES ASSUME WindowsFit, FreshLimits PROVE Spec => []PkgZeroMeansSet
  OBVIOUS
<1>1. SetInv => PkgZeroMeansSet
  BY DEF SetInv
<1>2. SetInv /\ [Next]_vars => SetInv'
  BY SetStep
<1>3. QED
  BY InitSet, <1>1, <1>2, PTL DEF Spec

\* Each half of the package register is one of the limits that were asked for,
\* enabled, however the calls of any number of tools interleave.
THEOREM LimitsInOnePiece ==
    WindowsFit /\ FreshLimits /\ ~ReadsFail => (Spec => []NoMixedLimit)
<1> SUFFICES ASSUME WindowsFit, FreshLimits, ~ReadsFail PROVE Spec => []NoMixedLimit
  OBVIOUS
<1>1. KeepInv => NoMixedLimit
  BY DEF KeepInv
<1>2. KeepInv /\ [Next]_vars => KeepInv'
  BY KeepStep
<1>3. QED
  BY InitKeep, <1>1, <1>2, PTL DEF Spec

\* The write of set_pkg_rapl_limit leaves the half it was not asked about as it
\* is, unless another tool has changed that half during the call.
THEOREM OtherHalfKept ==
    WindowsFit /\ FreshLimits /\ ~ReadsFail => (Spec => KeepsOther)
<1> SUFFICES ASSUME WindowsFit, FreshLimits, ~ReadsFail PROVE Spec => KeepsOther
  OBVIOUS
<1> DEFINE Kept1 == \A t \in Tool : Writes(t) =>
                      \A l \in Package \ (args[t] \cup changed[t]) : Untouched(l)
<1>1. KeepInv /\ [Next]_vars => [Kept1]_vars
  <2> SUFFICES ASSUME KeepInv, Next, NEW t \in Tool, Writes(t),
                      NEW l \in Package \ (args[t] \cup changed[t])
               PROVE  Untouched(l)
    OBVIOUS
  <2>1. TypeOK
    BY DEF KeepInv, FormsInv
  <2>2. PICK u \in Tool :
           \/ \E m \in UsedBy(u), w \in WattsValues, s \in WindowValues : Fill(u, m, w, s)
           \/ \E ls \in SUBSET (Package \cap UsedBy(u)) \ {{}} : BeginSet(u, ls)
           \/ WriteSet(u)
           \/ SetDram(u)
           \/ \E m \in Limit : Get(u, m)
    BY DEF Next
  <2>3. WriteSet(u) /\ u = t
    BY <2>1, <2>2, OtherFrame, BeginFrame, Types DEF Writes, WriteSet
  <2>4. msr'.pkg \in {msr.pkg, value[t]}
    BY <2>1, <2>3, Types DEF WriteSet
  <2>5. value[t] \cap HalfOf(l) = msr.pkg \cap HalfOf(l)
    BY DEF KeepInv, PendingKeeps, Writes
  <2>6. QED
    BY <2>4, <2>5 DEF Untouched
<1>2. KeepInv /\ [Next]_vars => KeepInv'
  BY KeepStep
<1>3. QED
  BY InitKeep, <1>1, <1>2, PTL DEF Spec, KeepsOther

=============================================================================
