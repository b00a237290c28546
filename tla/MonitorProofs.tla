---------------------------- MODULE MonitorProofs ----------------------------
(***************************************************************************)
(* The power monitors of a node.  Their election: for any set of monitors, *)
(* and any number of cleanings in between, the creator of the first K is   *)
(* the only highlander while that is linked, no two share a K, and no foe  *)
(* ever blocks when its application has ended.                             *)
(* The threads of the elected one: the theorems on PowMon.                 *)
(***************************************************************************)
EXTENDS Highlander, PowMon, FiniteSetTheorems, WellFoundedInduction, TLAPS

-----------------------------------------------------------------------------
(* THE ELECTION                                                            *)

States == Starting \cup {"log", "run", "wait", "waitL", "unlinkK", "unlinkL", "postL",
                         "finish", "done"}

\* A process has no part before it has K open, which it has when it comes to L;
\* and it has L open when it posts.
HasOpened ==
    \A p \in Proc : /\ at[p] \in {"openK", "reopenK"} => am[p] = "unknown"
                    /\ at[p] = "openL" => semk[p] # None
                    /\ at[p] = "post" => None \notin {semk[p], seml[p]}
                    /\ at[p] = "log" => am[p] # "foe"

\* No object serves as K and as L: names are never linked across.
Apart ==
    /\ name["K"] # None => name["K"] # name["L"] /\ \A p \in Proc : seml[p] # name["K"]
    /\ name["L"] # None => \A p \in Proc : semk[p] # name["L"]
    /\ \A p, q \in Proc : semk[p] # None => semk[p] # seml[q]

\* Every object counts at least its outstanding foes.
Counts == \A o \in 1 .. Len(sem) : sem[o] >= Cardinality(Outstanding(o))

\* The first object is the first K.
Unborn ==
    sem = << >> => /\ name = [n \in {"K", "L"} |-> None]
                   /\ \A p \in Proc : /\ at[p] = "openK" /\ am[p] = "unknown"
                                      /\ semk[p] = None

Elected ==
    name["K"] = 1 => \E h \in Proc : Highlanders = {h} /\ \A p \in Proc : semk[p] \in {None, 1}

ElectionIInv ==
    /\ ElectionTypeOK
    /\ HasOpened /\ Apart /\ Counts /\ Unborn /\ Elected
    /\ OneHighlanderEach

-----------------------------------------------------------------------------
(* Semaphores and outstanding foes.                                        *)

LEMMA Typed ==
    ASSUME ElectionTypeOK
    PROVE  /\ Len(sem) \in Nat /\ DOMAIN sem = 1 .. Len(sem)
           /\ \A o \in 1 .. Len(sem) : sem[o] \in Nat
           /\ \A n \in {"K", "L"} : name[n] \in 0 .. Len(sem)
           /\ \A p \in Proc : semk[p] \in 0 .. Len(sem) /\ seml[p] \in 0 .. Len(sem)
BY DEF ElectionTypeOK

LEMMA FiniteOutstanding ==
    \A o : IsFiniteSet(Outstanding(o)) /\ Cardinality(Outstanding(o)) \in Nat
BY HighlanderAssumption, FS_Subset, FS_CardinalityType DEF Outstanding

\* sem_open leaves every semaphore as it is; a new one has no foe.
LEMMA OpenEffect ==
    ASSUME ElectionTypeOK, NEW n \in {"K", "L"}, NEW o, OpenOrCreate(n, o)
    PROVE  /\ sem' \in Seq(Nat) /\ Len(sem) <= Len(sem')
           /\ o \in 1 .. Len(sem')
           /\ name' \in [{"K", "L"} -> 0 .. Len(sem')]
           /\ name' = [name EXCEPT ![n] = o]
           /\ o = Len(sem) + 1 \/ (o = name[n] /\ name[n] # None)
           /\ name[n] = None => o = Len(sem) + 1
           /\ \A i \in 1 .. Len(sem) : sem'[i] = sem[i]
           /\ \A i \in 1 .. Len(sem') : i \in 1 .. Len(sem) \/ (i = Len(sem) + 1 /\ sem'[i] = 0)
<1>1. CASE name[n] = None
  <2>1. o = Len(sem) + 1 /\ sem' = Append(sem, 0) /\ name' = [name EXCEPT ![n] = o]
    BY <1>1 DEF OpenOrCreate
  <2>2. Len(sem) \in Nat /\ sem \in Seq(Nat) /\ name \in [{"K", "L"} -> 0 .. Len(sem)]
    BY DEF ElectionTypeOK
  <2>3. /\ sem' \in Seq(Nat) /\ Len(sem') = Len(sem) + 1
        /\ \A i \in 1 .. Len(sem) : sem'[i] = sem[i]
        /\ sem'[Len(sem) + 1] = 0
    BY <2>1, <2>2
  <2>4. name' \in [{"K", "L"} -> 0 .. Len(sem')]
    BY <2>1, <2>2, <2>3
  <2>5. QED
    BY <1>1, <2>1, <2>2, <2>3, <2>4
<1>2. CASE name[n] # None
  <2>1. o = name[n] /\ sem' = sem /\ name' = name
    BY <1>2 DEF OpenOrCreate
  <2>2. Len(sem) \in Nat /\ sem \in Seq(Nat) /\ name \in [{"K", "L"} -> 0 .. Len(sem)]
    BY DEF ElectionTypeOK
  <2>3. name' = [name EXCEPT ![n] = o] /\ o \in 1 .. Len(sem')
    BY <1>2, <2>1, <2>2 DEF None
  <2>4. /\ sem' \in Seq(Nat) /\ Len(sem) <= Len(sem')
        /\ name' \in [{"K", "L"} -> 0 .. Len(sem')]
        /\ o = name[n] /\ name[n] # None
        /\ \A i \in 1 .. Len(sem) : sem'[i] = sem[i]
        /\ \A i \in 1 .. Len(sem') : i \in 1 .. Len(sem)
    BY <1>2, <2>1, <2>2
  <2>5. QED
    BY <2>3, <2>4
<1>3. QED
  BY <1>1, <1>2

LEMMA OpenCounts ==
    ASSUME ElectionTypeOK, Counts, NEW p \in Proc, NEW n \in {"K", "L"}, NEW o, OpenOrCreate(n, o),
           \A q \in Proc \ {p} : semk'[q] = semk[q] /\ am'[q] = am[q] /\ at'[q] = at[q],
           at'[p] \notin {"run", "wait"}
    PROVE  Counts'
<1> SUFFICES ASSUME NEW i \in 1 .. Len(sem')
             PROVE  sem'[i] >= Cardinality(Outstanding(i)')
  BY DEF Counts
<1>1. CASE i \in 1 .. Len(sem)
  <2>1. Outstanding(i)' \subseteq Outstanding(i)
    BY DEF Outstanding
  <2>2. Cardinality(Outstanding(i)') <= Cardinality(Outstanding(i))
    BY <2>1, FiniteOutstanding, FS_Subset
  <2>3. Cardinality(Outstanding(i)') \in Nat
    BY <2>1, FiniteOutstanding, FS_Subset, FS_CardinalityType
  <2>4. sem'[i] = sem[i] /\ sem[i] \in Nat
    BY <1>1, OpenEffect, Typed
  <2>5. QED
    BY <1>1, <2>2, <2>3, <2>4, FiniteOutstanding DEF Counts
<1>2. CASE i = Len(sem) + 1 /\ sem'[i] = 0
  <2>1. Outstanding(i)' = {}
    BY <1>2, Typed DEF Outstanding
  <2>2. Cardinality(Outstanding(i)') = 0
    BY <2>1, FS_EmptySet
  <2>3. QED
    BY <1>2, <2>2
<1>3. QED
  BY <1>1, <1>2, OpenEffect

\* A step that changes no semaphore and announces nobody.
LEMMA SameCounts ==
    ASSUME ElectionTypeOK, Counts, UNCHANGED <<sem, semk, am>>,
           \A q \in Proc : at'[q] \in {"run", "wait"} =>
                              at[q] \in {"run", "wait"} \/ am[q] # "foe"
    PROVE  Counts'
<1> SUFFICES ASSUME NEW i \in 1 .. Len(sem)
             PROVE  sem[i] >= Cardinality(Outstanding(i)')
  BY DEF Counts
<1>1. Outstanding(i)' \subseteq Outstanding(i)
  BY DEF Outstanding
<1>2. Cardinality(Outstanding(i)') <= Cardinality(Outstanding(i))
  BY <1>1, FiniteOutstanding, FS_Subset
<1>3. Cardinality(Outstanding(i)') \in Nat
  BY <1>1, FiniteOutstanding, FS_Subset, FS_CardinalityType
<1>4. QED
  BY <1>2, <1>3, FiniteOutstanding, Typed DEF Counts

-----------------------------------------------------------------------------
(* highlander().                                                           *)

LEMMA ElectionInitInv == ElectionInit => ElectionIInv
<1> SUFFICES ASSUME ElectionInit PROVE ElectionIInv
  OBVIOUS
<1>1. ElectionTypeOK
  BY HighlanderAssumption DEF ElectionInit, ElectionTypeOK, Starting, None
<1>2. HasOpened /\ Apart /\ Unborn
  BY DEF ElectionInit, HasOpened, Apart, Unborn, None
<1>3. Counts
  BY DEF ElectionInit, Counts
<1>4. Elected
  BY DEF ElectionInit, Elected, None
<1>5. OneHighlanderEach
  BY DEF ElectionInit, OneHighlanderEach, Highlanders
<1>6. QED
  BY <1>1, <1>2, <1>3, <1>4, <1>5 DEF ElectionIInv

LEMMA OpenKInv ==
    ASSUME ElectionIInv, NEW p \in Proc, OpenK(p)
    PROVE  ElectionIInv'
<1>1. CASE ExclusiveFails
  <2>1. /\ UNCHANGED <<name, sem, semk, seml, am, v, cleaner>>
        /\ at[p] = "openK" /\ at' = [at EXCEPT ![p] = "reopenK"]
    BY <1>1 DEF OpenK, Move
  <2>2. ElectionTypeOK'
    BY <2>1 DEF ElectionIInv, ElectionTypeOK, Starting
  <2>3. HasOpened'
    BY <2>1 DEF ElectionIInv, ElectionTypeOK, HasOpened
  <2>4. Apart' /\ Elected' /\ OneHighlanderEach'
    BY <2>1 DEF ElectionIInv, Apart, Elected, Highlanders, OneHighlanderEach
  <2>5. Counts'
    BY <2>1, SameCounts DEF ElectionIInv, ElectionTypeOK
  <2>6. Unborn'
    BY <1>1, <2>1 DEF ElectionIInv, Unborn, ExclusiveFails
  <2>7. QED
    BY <2>2, <2>3, <2>4, <2>5, <2>6 DEF ElectionIInv
<1>2. CASE ~ExclusiveFails
  <2> DEFINE o == Len(sem) + 1
  <2>1. /\ UNCHANGED <<seml, v, cleaner>> /\ name["K"] = None
        /\ at[p] = "openK" /\ at' = [at EXCEPT ![p] = "openL"]
        /\ am' = [am EXCEPT ![p] = "highlander"]
        /\ OpenOrCreate("K", o) /\ semk' = [semk EXCEPT ![p] = o]
    BY <1>2 DEF OpenK, Move, ExclusiveFails, OpenOrCreate
  <2>2. ElectionTypeOK /\ Len(sem) \in Nat /\ o \in Nat /\ o # None
    BY Typed DEF ElectionIInv, None
  <2>3. /\ sem' \in Seq(Nat) /\ Len(sem) <= Len(sem') /\ o \in 1 .. Len(sem')
        /\ name' \in [{"K", "L"} -> 0 .. Len(sem')] /\ name' = [name EXCEPT !["K"] = o]
    BY <2>1, <2>2, OpenEffect
  <2> HIDE DEF o
  <2>4. ElectionTypeOK'
    <3>1. /\ semk' \in [Proc -> 0 .. Len(sem')] /\ seml' \in [Proc -> 0 .. Len(sem')]
          /\ Len(sem') \in Nat
      BY <2>1, <2>2, <2>3 DEF ElectionTypeOK
    <3>2. \A q \in Proc : at'[q] \notin Starting => None \notin {semk'[q], seml'[q]}
      BY <2>1, <2>2 DEF ElectionTypeOK, Starting
    <3>3. QED
      BY <2>1, <2>2, <2>3, <3>1, <3>2 DEF ElectionTypeOK, Starting
  <2>5. HasOpened'
    BY <2>1, <2>2 DEF ElectionIInv, ElectionTypeOK, HasOpened
  <2>6. /\ \A q \in Proc : semk[q] # o /\ seml[q] # o
        /\ name["L"] # o
    BY <2>2, Typed DEF o
  <2>7. Apart'
    BY <2>1, <2>2, <2>3, <2>6 DEF ElectionIInv, ElectionTypeOK, Apart
  <2>8. Counts'
    BY <2>1, <2>2, OpenCounts DEF ElectionIInv, ElectionTypeOK
  <2>9. Unborn'
    BY <2>2, <2>3 DEF Unborn, o
  <2>10. Elected'
    <3>1. name'["K"] = o
      BY <2>2, <2>3 DEF ElectionTypeOK
    <3>2. CASE o = 1
      <4>1. sem = << >>
        BY <2>2, <3>2 DEF o, ElectionTypeOK
      <4>2. \A q \in Proc : am[q] = "unknown" /\ semk[q] = None
        BY <4>1 DEF ElectionIInv, Unborn
      <4>3. Highlanders' = {p} /\ \A q \in Proc : semk'[q] \in {None, 1}
        BY <2>1, <2>2, <3>2, <4>2 DEF Highlanders, ElectionTypeOK
      <4>4. QED
        BY <4>3 DEF Elected
    <3>3. QED
      BY <3>1, <3>2 DEF Elected
  <2>11. OneHighlanderEach'
    BY <2>1, <2>2, <2>6 DEF ElectionIInv, ElectionTypeOK, OneHighlanderEach, Highlanders
  <2>12. QED
    BY <2>4, <2>5, <2>7, <2>8, <2>9, <2>10, <2>11 DEF ElectionIInv
<1>3. QED
  BY <1>1, <1>2
LEMMA ReopenKInv ==
    ASSUME ElectionIInv, NEW p \in Proc, ReopenK(p)
    PROVE  ElectionIInv'
<1>1. PICK o \in 1 .. Len(sem) + 1 :
        OpenOrCreate("K", o) /\ semk' = [semk EXCEPT ![p] = o]
  BY DEF ReopenK
<1>2. /\ UNCHANGED <<seml, v, cleaner>> /\ am' = [am EXCEPT ![p] = "foe"]
      /\ at[p] = "reopenK" /\ at' = [at EXCEPT ![p] = "openL"]
  BY DEF ReopenK, Move
<1>3. ElectionTypeOK /\ Len(sem) \in Nat /\ o # None /\ o \in Nat /\ sem # << >>
  BY <1>2, Typed DEF ElectionIInv, None, Unborn
<1>4. /\ sem' \in Seq(Nat) /\ Len(sem) <= Len(sem') /\ o \in 1 .. Len(sem')
      /\ name' \in [{"K", "L"} -> 0 .. Len(sem')] /\ name' = [name EXCEPT !["K"] = o]
      /\ o = Len(sem) + 1 \/ (o = name["K"] /\ name["K"] # None)
  BY <1>1, <1>3, OpenEffect
<1>5. ElectionTypeOK'
  <2>1. Len(sem') \in Nat /\ \A q \in Proc : semk[q] \in 0 .. Len(sem')
                                           /\ seml[q] \in 0 .. Len(sem')
    BY <1>3, <1>4, Typed
  <2>2. semk' \in [Proc -> 0 .. Len(sem')]
    BY <1>1, <1>3, <1>4, <2>1 DEF ElectionTypeOK
  <2>3. seml' \in [Proc -> 0 .. Len(sem')]
    BY <1>2, <1>3, <2>1 DEF ElectionTypeOK
  <2>4. \A q \in Proc : at'[q] \notin Starting => None \notin {semk'[q], seml'[q]}
    BY <1>1, <1>2, <1>3 DEF ElectionTypeOK, Starting
  <2>5. QED
    BY <1>2, <1>3, <1>4, <2>2, <2>3, <2>4 DEF ElectionTypeOK, Starting
<1>6. HasOpened'
  BY <1>1, <1>2, <1>3 DEF ElectionIInv, ElectionTypeOK, HasOpened
<1>7. (\A q \in Proc : seml[q] # o) /\ name["L"] # o
  BY <1>3, <1>4, Typed DEF ElectionIInv, Apart
<1>8. Apart'
  BY <1>1, <1>2, <1>3, <1>4, <1>7 DEF ElectionIInv, ElectionTypeOK, Apart
<1>9. Counts'
  BY <1>1, <1>2, <1>3, OpenCounts DEF ElectionIInv, ElectionTypeOK
<1>10. Unborn'
  BY <1>3, <1>4 DEF Unborn
<1>11. Highlanders' = Highlanders \ {p}
  BY <1>2, <1>3 DEF Highlanders, ElectionTypeOK
<1>12. Elected'
  <2>1. name'["K"] = o /\ (o = 1 => name["K"] = 1)
    <3>1. name'["K"] = o
      BY <1>3, <1>4 DEF ElectionTypeOK
    <3>2. Len(sem) # 0
      BY <1>3 DEF ElectionTypeOK
    <3>3. QED
      BY <1>3, <1>4, <3>1, <3>2
  <2>2. Highlanders' = Highlanders
    BY <1>2, <1>11 DEF ElectionIInv, HasOpened, Highlanders
  <2>3. QED
    BY <1>1, <1>3, <2>1, <2>2 DEF ElectionIInv, Elected, ElectionTypeOK
<1>13. OneHighlanderEach'
  BY <1>1, <1>3, <1>11 DEF ElectionIInv, ElectionTypeOK, OneHighlanderEach, Highlanders
<1>14. QED
  BY <1>5, <1>6, <1>8, <1>9, <1>10, <1>12, <1>13 DEF ElectionIInv

LEMMA OpenLInv ==
    ASSUME ElectionIInv, NEW p \in Proc, OpenL(p)
    PROVE  ElectionIInv'
<1>1. PICK o \in 1 .. Len(sem) + 1 :
        OpenOrCreate("L", o) /\ seml' = [seml EXCEPT ![p] = o]
  BY DEF OpenL
<1>2. /\ UNCHANGED <<semk, am, v, cleaner>>
      /\ at[p] = "openL" /\ at' = [at EXCEPT ![p] = IF am[p] = "foe" THEN "post" ELSE "log"]
  BY DEF OpenL, Move
<1>3. ElectionTypeOK /\ Len(sem) \in Nat /\ o # None /\ o \in Nat /\ sem # << >> /\ semk[p] # None
  BY <1>2, Typed DEF ElectionIInv, None, Unborn, HasOpened
<1>4. /\ sem' \in Seq(Nat) /\ Len(sem) <= Len(sem') /\ o \in 1 .. Len(sem')
      /\ name' \in [{"K", "L"} -> 0 .. Len(sem')] /\ name' = [name EXCEPT !["L"] = o]
      /\ o = Len(sem) + 1 \/ (o = name["L"] /\ name["L"] # None)
  BY <1>1, <1>3, OpenEffect
<1>5. ElectionTypeOK'
  <2>1. Len(sem') \in Nat /\ \A q \in Proc : semk[q] \in 0 .. Len(sem')
                                           /\ seml[q] \in 0 .. Len(sem')
    BY <1>3, <1>4, Typed
  <2>2. semk' \in [Proc -> 0 .. Len(sem')]
    BY <1>2, <1>3, <2>1 DEF ElectionTypeOK
  <2>3. seml' \in [Proc -> 0 .. Len(sem')]
    BY <1>1, <1>3, <1>4, <2>1 DEF ElectionTypeOK
  <2>4. \A q \in Proc : at'[q] \notin Starting => None \notin {semk'[q], seml'[q]}
    BY <1>1, <1>2, <1>3 DEF ElectionTypeOK, Starting
  <2>5. QED
    BY <1>2, <1>3, <1>4, <2>2, <2>3, <2>4 DEF ElectionTypeOK, Starting
<1>6. HasOpened'
  BY <1>1, <1>2, <1>3 DEF ElectionIInv, ElectionTypeOK, HasOpened
<1>7. (\A q \in Proc : semk[q] # o) /\ name["K"] # o
  BY <1>3, <1>4, Typed DEF ElectionIInv, Apart
<1>8. Apart'
  BY <1>1, <1>2, <1>3, <1>4, <1>7 DEF ElectionIInv, ElectionTypeOK, Apart
<1>9. Counts'
  BY <1>1, <1>2, <1>3, OpenCounts DEF ElectionIInv, ElectionTypeOK
<1>10. Unborn'
  BY <1>3, <1>4 DEF Unborn, ElectionTypeOK
<1>11. Elected' /\ OneHighlanderEach'
  BY <1>2, <1>3, <1>4 DEF ElectionIInv, ElectionTypeOK, Elected, OneHighlanderEach, Highlanders
<1>12. QED
  BY <1>5, <1>6, <1>8, <1>9, <1>10, <1>11 DEF ElectionIInv

-----------------------------------------------------------------------------
(* All other steps open nothing.                                           *)

Entered == {"run", "wait", "waitL", "unlinkK", "unlinkL", "postL", "finish", "done"}

\* A step of a process that has its semaphores, or an unlink of somebody else.
Later ==
    /\ UNCHANGED <<semk, seml, am>>
    /\ sem' \in Seq(Nat) /\ Len(sem') = Len(sem)
    /\ name' = name \/ \E n \in {"K", "L"} : Unlink(n)
    /\ v' \in [Proc -> Nat]
    /\ cleaner' \in 0 .. 2 * MaxCleans
    /\ \/ at' = at
       \/ \E p \in Proc, to \in Entered :
             /\ at[p] \notin {"openK", "reopenK", "openL"}
             /\ at' = [at EXCEPT ![p] = to]

LEMMA LaterInv ==
    ASSUME ElectionIInv, Later, Counts'
    PROVE  ElectionIInv'
<1>1. ElectionTypeOK /\ Len(sem) \in Nat
  BY Typed DEF ElectionIInv
<1>2. /\ name' \in [{"K", "L"} -> 0 .. Len(sem')]
      /\ \A n \in {"K", "L"} : name'[n] \in {name[n], None}
  <2>1. CASE name' = name
    BY <1>1, <2>1 DEF ElectionTypeOK, Later
  <2>2. ASSUME NEW n \in {"K", "L"}, Unlink(n)
        PROVE  <1>2!1 /\ <1>2!2
    BY <1>1, <2>2 DEF ElectionTypeOK, Later, Unlink, None
  <2>3. QED
    BY <2>1, <2>2 DEF Later
<1>3. \A q \in Proc : at'[q] = at[q] \/ ( /\ at[q] \notin {"openK", "reopenK", "openL"}
                                          /\ at'[q] \in Entered)
  BY <1>1 DEF ElectionTypeOK, Later
<1>4. at' \in [Proc -> States] /\ Entered \cap Starting = {} /\ Entered \subseteq States
  BY <1>1 DEF ElectionTypeOK, Later, States, Starting, Entered
<1>5. ElectionTypeOK'
  <2>1. ASSUME NEW q \in Proc, at'[q] \notin Starting
        PROVE  None \notin {semk'[q], seml'[q]}
    BY <1>1, <1>3, <2>1 DEF ElectionIInv, ElectionTypeOK, HasOpened, Later, Starting
  <2>2. semk' \in [Proc -> 0 .. Len(sem')] /\ seml' \in [Proc -> 0 .. Len(sem')]
        /\ am' \in [Proc -> {"unknown", "highlander", "foe"}]
    BY <1>1 DEF ElectionTypeOK, Later
  <2>3. QED
    BY <1>1, <1>2, <1>4, <2>1, <2>2 DEF ElectionTypeOK, Later, States
<1>6. HasOpened'
  BY <1>3 DEF ElectionIInv, HasOpened, Later, Entered
<1>7. Apart'
  BY <1>2 DEF ElectionIInv, Apart, Later
<1>8. Unborn'
  <2> SUFFICES ASSUME sem' = << >>
               PROVE  /\ name' = [n \in {"K", "L"} |-> None]
                      /\ \A p \in Proc : at'[p] = "openK" /\ am'[p] = "unknown"
                                         /\ semk'[p] = None
    BY DEF Unborn
  <2>1. sem = << >>
    BY <1>1 DEF ElectionTypeOK, Later
  <2>2. /\ name = [n \in {"K", "L"} |-> None]
        /\ \A p \in Proc : at[p] = "openK" /\ am[p] = "unknown" /\ semk[p] = None
    BY <2>1 DEF ElectionIInv, Unborn
  <2>3. name' = [n \in {"K", "L"} |-> None]
    BY <1>2, <2>2
  <2>4. QED
    BY <1>3, <2>2, <2>3 DEF Later
<1>9. Elected' /\ OneHighlanderEach'
  BY <1>2 DEF ElectionIInv, Elected, OneHighlanderEach, Highlanders, Later, None
<1>10. QED
  BY <1>5, <1>6, <1>7, <1>8, <1>9 DEF ElectionIInv

\* Steps that use no semaphore but for its name.
LEMMA QuietInv ==
    ASSUME ElectionIInv, NEW p \in Proc,
           \/ OpenLog(p) \/ ApplicationEnds(p) \/ Finish(p) \/ GetValue(p)
           \/ UnlinkK(p) \/ UnlinkL(p)
    PROVE  ElectionIInv'
<1>1. ElectionTypeOK /\ UNCHANGED <<sem, semk, seml, am, cleaner>>
  BY DEF ElectionIInv, OpenLog, ApplicationEnds, Finish, GetValue, UnlinkK, UnlinkL
<1>2. name' = name \/ \E n \in {"K", "L"} : Unlink(n)
  BY DEF OpenLog, ApplicationEnds, Finish, GetValue, UnlinkK, UnlinkL
<1>3. PICK to \in Entered : /\ at[p] \in {"log", "run", "wait", "unlinkK", "unlinkL", "finish"}
                            /\ at' = [at EXCEPT ![p] = to]
                            /\ to \in {"run", "wait"} => at[p] \in {"log", "run"}
  BY DEF OpenLog, ApplicationEnds, Finish, GetValue, UnlinkK, UnlinkL, Move, Entered, MustWait
<1>4. v' \in [Proc -> Nat]
  <2>1. CASE GetValue(p)
    <3>1. semk[p] \in 1 .. Len(sem)
      <4>1. at[p] = "wait"
        BY <2>1 DEF GetValue, Move
      <4>2. semk[p] # None
        BY <1>1, <4>1 DEF ElectionTypeOK, Starting
      <4>3. QED
        BY <1>1, <4>2, Typed DEF None
    <3>2. QED
      BY <1>1, <2>1, <3>1, Typed DEF GetValue, ElectionTypeOK
  <2>2. CASE ~GetValue(p)
    <3>1. v' = v
      BY <2>2 DEF OpenLog, ApplicationEnds, Finish, UnlinkK, UnlinkL
    <3>2. QED
      BY <1>1, <3>1 DEF ElectionTypeOK
  <2>3. QED
    BY <2>1, <2>2
<1>5. Later
  <2>1. /\ sem' \in Seq(Nat) /\ Len(sem') = Len(sem)
        /\ cleaner' \in 0 .. 2 * MaxCleans
    BY <1>1 DEF ElectionTypeOK
  <2>2. at[p] \notin {"openK", "reopenK", "openL"}
    BY <1>3
  <2>3. QED
    BY <1>1, <1>2, <1>3, <1>4, <2>1, <2>2 DEF Later
<1>6. Counts'
  <2>1. \A q \in Proc : at'[q] \in {"run", "wait"} =>
                           at[q] \in {"run", "wait"} \/ am[q] # "foe"
    BY <1>1, <1>3 DEF ElectionIInv, HasOpened, ElectionTypeOK
  <2>2. QED
    BY <1>1, <2>1, SameCounts DEF ElectionIInv
<1>7. QED
  BY <1>5, <1>6, LaterInv

LEMMA CleanInv ==
    ASSUME ElectionIInv, Clean
    PROVE  ElectionIInv'
<1>1. ElectionTypeOK /\ UNCHANGED <<sem, semk, seml, am, at, v>> /\ \E n \in {"K", "L"} : Unlink(n)
  BY DEF ElectionIInv, Clean
<1>2. cleaner' \in 0 .. 2 * MaxCleans
  BY <1>1, HighlanderAssumption DEF Clean, ElectionTypeOK
<1>3. Later
  BY <1>1, <1>2 DEF Later, ElectionTypeOK
<1>4. Counts'
  BY <1>1, SameCounts DEF ElectionIInv
<1>5. QED
  BY <1>3, <1>4, LaterInv

\* One semaphore gets another value.
LEMMA NewValue ==
    ASSUME ElectionTypeOK, NEW o \in 1 .. Len(sem), NEW x \in Nat, sem' = [sem EXCEPT ![o] = x]
    PROVE  /\ sem' \in Seq(Nat) /\ Len(sem') = Len(sem)
           /\ \A i \in 1 .. Len(sem) : sem'[i] = IF i = o THEN x ELSE sem[i]
BY DEF ElectionTypeOK

\* The foe announces itself, then it is counted.
LEMMA PostKInv ==
    ASSUME ElectionIInv, NEW p \in Proc, PostK(p)
    PROVE  ElectionIInv'
<1> DEFINE o == semk[p]
<1>1. /\ ElectionTypeOK /\ UNCHANGED <<name, semk, seml, am, v, cleaner>>
      /\ at[p] = "post" /\ at' = [at EXCEPT ![p] = "run"]
      /\ sem' = [sem EXCEPT ![o] = sem[o] + 1]
  BY DEF ElectionIInv, PostK, Move, Post, Announced
<1>2. o \in 1 .. Len(sem) /\ sem[o] \in Nat /\ sem[o] + 1 \in Nat
  <2>1. o \in 1 .. Len(sem) /\ sem[o] \in Nat
    BY <1>1, Typed DEF ElectionIInv, HasOpened, None
  <2>2. QED
    BY <2>1
<1>3. /\ sem' \in Seq(Nat) /\ Len(sem') = Len(sem)
      /\ \A i \in 1 .. Len(sem) : sem'[i] = IF i = o THEN sem[o] + 1 ELSE sem[i]
  BY <1>1, <1>2, NewValue
<1>4. Later
  BY <1>1, <1>3 DEF Later, ElectionTypeOK, Entered
<1>5. Counts'
  <2> SUFFICES ASSUME NEW i \in 1 .. Len(sem)
               PROVE  sem'[i] >= Cardinality(Outstanding(i)')
    BY <1>3 DEF Counts
  <2>1. sem[i] >= Cardinality(Outstanding(i)) /\ sem[i] \in Nat
    BY <1>1, Typed DEF ElectionIInv, Counts
  <2>2. CASE i = o
    <3>1. Outstanding(i)' \subseteq Outstanding(i) \cup {p}
      BY <1>1 DEF Outstanding, ElectionTypeOK
    <3>2. /\ IsFiniteSet(Outstanding(i) \cup {p})
          /\ Cardinality(Outstanding(i) \cup {p}) <= Cardinality(Outstanding(i)) + 1
      <4>1. IsFiniteSet(Outstanding(i)) /\ Cardinality(Outstanding(i)) \in Nat
        BY FiniteOutstanding
      <4>2. /\ IsFiniteSet(Outstanding(i) \cup {p})
            /\ \/ Cardinality(Outstanding(i) \cup {p}) = Cardinality(Outstanding(i))
               \/ Cardinality(Outstanding(i) \cup {p}) = Cardinality(Outstanding(i)) + 1
        BY <4>1, FS_AddElement
      <4>3. QED
        BY <4>1, <4>2
    <3>3. /\ Cardinality(Outstanding(i)') <= Cardinality(Outstanding(i) \cup {p})
          /\ IsFiniteSet(Outstanding(i)')
      BY <3>1, <3>2, FS_Subset
    <3>4. /\ Cardinality(Outstanding(i)') \in Nat /\ Cardinality(Outstanding(i)) \in Nat
          /\ Cardinality(Outstanding(i) \cup {p}) \in Nat
      BY <3>2, <3>3, FiniteOutstanding, FS_CardinalityType
    <3>5. QED
      BY <1>3, <2>1, <2>2, <3>2, <3>3, <3>4
  <2>3. CASE i # o
    <3>1. Outstanding(i)' \subseteq Outstanding(i)
      BY <1>1, <2>3 DEF Outstanding, ElectionTypeOK
    <3>2. Cardinality(Outstanding(i)') <= Cardinality(Outstanding(i))
      BY <3>1, FiniteOutstanding, FS_Subset
    <3>3. Cardinality(Outstanding(i)') \in Nat /\ Cardinality(Outstanding(i)) \in Nat
      BY <3>1, FiniteOutstanding, FS_Subset, FS_CardinalityType
    <3>4. QED
      BY <1>3, <2>1, <2>3, <3>2, <3>3
  <2>4. QED
    BY <2>2, <2>3
<1>6. QED
  BY <1>4, <1>5, LaterInv

\* The foe takes its announcement back: there is one, and it leaves the count.
LEMMA FoeWaitKInv ==
    ASSUME ElectionIInv, NEW p \in Proc, FoeWaitK(p)
    PROVE  ElectionIInv'
<1> DEFINE o == semk[p]
<1>1. /\ ElectionTypeOK /\ UNCHANGED <<name, semk, seml, am, v, cleaner>> /\ am[p] = "foe"
      /\ at[p] = "wait" /\ at' = [at EXCEPT ![p] = "postL"]
      /\ sem[o] > 0 /\ sem' = [sem EXCEPT ![o] = sem[o] - 1]
  BY DEF ElectionIInv, FoeWaitK, Move, Wait
<1>2. o \in 1 .. Len(sem) /\ sem[o] \in Nat /\ sem[o] - 1 \in Nat
  <2>1. o # None
    BY <1>1 DEF ElectionTypeOK, Starting
  <2>2. o \in 1 .. Len(sem) /\ sem[o] \in Nat
    BY <1>1, <2>1, Typed DEF None
  <2>3. QED
    BY <1>1, <2>2
<1>3. /\ sem' \in Seq(Nat) /\ Len(sem') = Len(sem)
      /\ \A i \in 1 .. Len(sem) : sem'[i] = IF i = o THEN sem[o] - 1 ELSE sem[i]
  BY <1>1, <1>2, NewValue
<1>4. Later
  BY <1>1, <1>3 DEF Later, ElectionTypeOK, Entered
<1>5. Counts'
  <2> SUFFICES ASSUME NEW i \in 1 .. Len(sem)
               PROVE  sem'[i] >= Cardinality(Outstanding(i)')
    BY <1>3 DEF Counts
  <2>1. sem[i] >= Cardinality(Outstanding(i)) /\ sem[i] \in Nat
    BY <1>1, Typed DEF ElectionIInv, Counts
  <2>2. /\ Outstanding(i)' \subseteq Outstanding(i)
        /\ i = o => p \in Outstanding(i) /\ Outstanding(i)' \subseteq Outstanding(i) \ {p}
    BY <1>1 DEF Outstanding, ElectionTypeOK
  <2>3. CASE i = o
    <3>1. /\ IsFiniteSet(Outstanding(i) \ {p})
          /\ Cardinality(Outstanding(i) \ {p}) = Cardinality(Outstanding(i)) - 1
      BY <2>2, <2>3, FiniteOutstanding, FS_RemoveElement
    <3>2. /\ Cardinality(Outstanding(i)') <= Cardinality(Outstanding(i) \ {p})
          /\ IsFiniteSet(Outstanding(i)')
      BY <2>2, <2>3, <3>1, FS_Subset
    <3>3. Cardinality(Outstanding(i)') \in Nat /\ Cardinality(Outstanding(i)) \in Nat
      BY <3>2, FiniteOutstanding, FS_CardinalityType
    <3>4. QED
      BY <1>3, <2>1, <2>3, <3>1, <3>2, <3>3
  <2>4. CASE i # o
    <3>1. Cardinality(Outstanding(i)') <= Cardinality(Outstanding(i))
      BY <2>2, FiniteOutstanding, FS_Subset
    <3>2. Cardinality(Outstanding(i)') \in Nat /\ Cardinality(Outstanding(i)) \in Nat
      BY <2>2, FiniteOutstanding, FS_Subset, FS_CardinalityType
    <3>3. QED
      BY <1>3, <2>1, <2>4, <3>1, <3>2
  <2>5. QED
    BY <2>3, <2>4
<1>6. QED
  BY <1>4, <1>5, LaterInv

\* What happens to an L touches no count.
LEMMA UsesLInv ==
    ASSUME ElectionIInv, NEW p \in Proc, WaitL(p) \/ FoePostL(p)
    PROVE  ElectionIInv'
<1> DEFINE o == seml[p]
<1>1. /\ ElectionTypeOK /\ UNCHANGED <<name, semk, seml, am, v, cleaner>>
      /\ at[p] \in {"waitL", "postL"}
      /\ \E to \in Entered \ {"run", "wait"} : at' = [at EXCEPT ![p] = to]
  BY DEF ElectionIInv, WaitL, FoePostL, Move, Entered, MustWait
<1>2. o \in 1 .. Len(sem)
  <2>1. o # None
    BY <1>1 DEF ElectionTypeOK, Starting
  <2>2. QED
    BY <1>1, <2>1, Typed DEF None
<1>3. PICK x \in Nat : sem' = [sem EXCEPT ![o] = x]
  <2>1. sem[o] \in Nat /\ sem[o] + 1 \in Nat /\ (sem[o] > 0 => sem[o] - 1 \in Nat)
    BY <1>1, <1>2, Typed
  <2>2. \/ sem[o] > 0 /\ sem' = [sem EXCEPT ![o] = sem[o] - 1]
        \/ sem' = [sem EXCEPT ![o] = sem[o] + 1]
    BY DEF WaitL, FoePostL, Wait, Post
  <2>3. QED
    BY <2>1, <2>2
<1>4. /\ sem' \in Seq(Nat) /\ Len(sem') = Len(sem)
      /\ \A i \in 1 .. Len(sem) : sem'[i] = IF i = o THEN x ELSE sem[i]
  BY <1>1, <1>2, <1>3, NewValue
<1>5. Later
  BY <1>1, <1>4 DEF Later, ElectionTypeOK, Entered
<1>6. Counts'
  <2> SUFFICES ASSUME NEW i \in 1 .. Len(sem)
               PROVE  sem'[i] >= Cardinality(Outstanding(i)')
    BY <1>4 DEF Counts
  <2>1. Outstanding(i)' \subseteq Outstanding(i)
    BY <1>1 DEF Outstanding, ElectionTypeOK
  <2>2. CASE i = o
    <3>1. Outstanding(i) = {}
      BY <1>1, <1>2, <2>2 DEF Outstanding, ElectionIInv, Apart, None
    <3>2. Cardinality(Outstanding(i)') = 0
      BY <2>1, <3>1, FS_EmptySet
    <3>3. QED
      BY <1>4, <2>2, <3>2
  <2>3. CASE i # o
    <3>1. sem[i] >= Cardinality(Outstanding(i)) /\ sem[i] \in Nat
      BY <1>1, Typed DEF ElectionIInv, Counts
    <3>2. Cardinality(Outstanding(i)') <= Cardinality(Outstanding(i))
      BY <2>1, FiniteOutstanding, FS_Subset
    <3>3. Cardinality(Outstanding(i)') \in Nat /\ Cardinality(Outstanding(i)) \in Nat
      BY <2>1, FiniteOutstanding, FS_Subset, FS_CardinalityType
    <3>4. QED
      BY <1>4, <2>3, <3>1, <3>2, <3>3
  <2>4. QED
    BY <2>2, <2>3
<1>7. QED
  BY <1>5, <1>6, LaterInv

LEMMA ElectionNextInv ==
    ASSUME ElectionIInv, [ElectionNext]_electionVars
    PROVE  ElectionIInv'
<1>1. CASE UNCHANGED electionVars
  BY <1>1 DEF electionVars, ElectionIInv, ElectionTypeOK, HasOpened, Apart, Counts, Outstanding,
              Unborn, Elected,
              OneHighlanderEach, Highlanders
<1>2. ASSUME NEW p \in Proc, Step(p)
      PROVE  ElectionIInv'
  BY <1>2, OpenKInv, ReopenKInv, OpenLInv, QuietInv, PostKInv, FoeWaitKInv, UsesLInv DEF Step
<1>3. QED
  BY <1>1, <1>2, CleanInv DEF ElectionNext

-----------------------------------------------------------------------------
(* The theorems.                                                           *)

\* Every state of the election satisfies the inductive invariant.
THEOREM ElectionInvariance == ElectionSpec => []ElectionIInv
<1>1. ElectionInit => ElectionIInv
  BY ElectionInitInv
<1>2. ElectionIInv /\ [ElectionNext]_electionVars => ElectionIInv'
  BY ElectionNextInv
<1>3. QED
  BY <1>1, <1>2, PTL DEF ElectionSpec

\* Names lead to semaphores, semaphores never get below zero, and who has left
\* the opening part of highlander() has both of them.
THEOREM ElectionTypeCorrect == ElectionSpec => []ElectionTypeOK
<1>1. ElectionIInv => ElectionTypeOK
  BY DEF ElectionIInv
<1>2. QED
  BY <1>1, ElectionInvariance, PTL

\* While the first K is linked, the process that created it is the only
\* highlander of the node (the two sem_open of highlander).
THEOREM OneIsElected == ElectionSpec => []OneElected
<1>1. ElectionIInv => OneElected
  <2> SUFFICES ASSUME ElectionIInv, name["K"] = 1
               PROVE  Cardinality(Highlanders) = 1 /\ \A p \in Proc : semk[p] \in {None, 1}
    BY DEF OneElected
  <2>1. PICK h \in Proc : Highlanders = {h} /\ \A p \in Proc : semk[p] \in {None, 1}
    BY DEF ElectionIInv, Elected
  <2>2. Cardinality({h}) = 1
    BY FS_Singleton
  <2>3. QED
    BY <2>1, <2>2
<1>2. QED
  BY <1>1, ElectionInvariance, PTL

\* Whenever they start, and whoever cleans up in between, two highlanders never
\* have the same K (highlander).
THEOREM NoSharedK == ElectionSpec => []OneHighlanderEach
<1>1. ElectionIInv => OneHighlanderEach
  BY DEF ElectionIInv
<1>2. QED
  BY <1>1, ElectionInvariance, PTL

\* Every K counts the foes that have not called highlander_wait.
THEOREM FoesAreCounted == ElectionSpec => []FoesNeverBlock
<1>1. ElectionIInv => FoesNeverBlock
  <2> SUFFICES ASSUME ElectionIInv, NEW p \in Proc, am[p] = "foe", at[p] = "wait"
               PROVE  sem[semk[p]] >= Cardinality(Outstanding(semk[p]))
    BY DEF FoesNeverBlock
  <2>1. semk[p] \in 1 .. Len(sem)
    <3>1. semk[p] # None
      BY DEF ElectionIInv, ElectionTypeOK, Starting
    <3>2. QED
      BY <3>1, Typed DEF ElectionIInv, None
  <2>2. QED
    BY <2>1 DEF ElectionIInv, Counts
<1>2. QED
  BY <1>1, ElectionInvariance, PTL

\* So the sem_wait of a foe in highlander_wait always finds something.
THEOREM FoeFindsItsPost ==
    ElectionSpec => [](\A p \in Proc : am[p] = "foe" /\ at[p] = "wait" => sem[semk[p]] > 0)
<1>1. ElectionTypeOK /\ FoesNeverBlock =>
        \A p \in Proc : am[p] = "foe" /\ at[p] = "wait" => sem[semk[p]] > 0
  <2> SUFFICES ASSUME ElectionTypeOK, FoesNeverBlock, NEW p \in Proc, am[p] = "foe", at[p] = "wait"
               PROVE  sem[semk[p]] > 0
    OBVIOUS
  <2>1. p \in Outstanding(semk[p])
    BY DEF Outstanding
  <2>2. Cardinality(Outstanding(semk[p])) \in Nat /\ Cardinality(Outstanding(semk[p])) # 0
    BY <2>1, FiniteOutstanding, FS_EmptySet
  <2>3. sem[semk[p]] >= Cardinality(Outstanding(semk[p]))
    BY DEF FoesNeverBlock
  <2>4. sem[semk[p]] \in Nat
    <3>1. semk[p] # None
      BY DEF ElectionTypeOK, Starting
    <3>2. semk[p] \in 1 .. Len(sem)
      BY <3>1, Typed DEF None
    <3>3. QED
      BY <3>2, Typed
  <2>5. QED
    BY <2>2, <2>3, <2>4
<1>2. QED
  BY <1>1, ElectionTypeCorrect, FoesAreCounted, PTL

-----------------------------------------------------------------------------
(* THE THREADS OF A MONITOR                                                *)

\* Inside take_measurement with the mutex.
Busy == {"poll", "joules", "watts", "log", "unlock"}

\* The mutex belongs to the one thread that is measuring, or died measuring.
Mutex ==
    \A t \in Thread : /\ pc[t] \in Busy => mlock = t
                      /\ mlock = t => pc[t] \in Busy \cup {"crash", "killed"}

\* What TotalsAddUp says when no measurement is going on.
Settled == /\ totals.joules = polled - first
           /\ totals.limit = totals.joules
           /\ logfile = "open" => totals.logged = totals.joules

\* How far the totals are behind inside a measurement.
Underway(t) ==
    /\ pc[t] \in {"poll", "unlock"} => Settled
    /\ pc[t] = "joules" => /\ totals.joules + rapl_data[t] = polled - first
                           /\ totals.limit = totals.joules
                           /\ logfile = "open" => totals.logged = totals.joules
    /\ pc[t] = "watts" => /\ totals.joules = polled - first
                          /\ totals.limit + rapl_data[t] = polled - first
                          /\ logfile = "open" => totals.logged = totals.limit
    /\ pc[t] = "log" => /\ totals.joules = polled - first
                        /\ totals.limit = totals.joules
                        /\ logfile = "open" =>
                              totals.logged + rapl_data[t] = totals.joules

Accounts ==
    /\ polled = Never <=> first = Never
    /\ first <= polled /\ polled <= now
    /\ totals.limit <= totals.joules /\ totals.joules <= polled - first
    /\ \A t \in Thread : Underway(t)
    /\ TotalsAddUp

\* What main's own poll has added, on its way to the summary.
MainCovers ==
    /\ mine <= polled
    /\ pc["main"] \in {"joules", "watts"} => mine # Never /\ mine = polled
    /\ pc["main"] \in {"log", "unlock", "summary"} =>
          mine # Never /\ mine - first <= totals.limit
    /\ \A total \in Summarised : summary[total] # Never =>
          pc["main"] \in {"summary", "close", "exit"}

\* How the progress of one thread limits that of the other.
Phases ==
    /\ pc["main"] \in {"init", "create"} <=> pc["measure"] = "none"
    /\ pc["measure"] \in {"start", "adjust", "adjusted"} => program = "dynamic"
    /\ pc["measure"] = "init" => program # "dynamic"
    /\ PromptThread /\ pc["measure"] \in {"init", "start"} => pc["main"] = "wait"

\* The thread's cap moves in steps below watt_cap.
CapSteps ==
    (program = "dynamic" /\ watt_cap > Floor) =>
        /\ watts \in Floor - WattStep + 1 .. watt_cap
        /\ (watt_cap - watts) % WattStep = 0

IInv == /\ TypeOK /\ Mutex /\ Accounts /\ MainCovers /\ SummaryCoversRun
        /\ Phases /\ CapSteps /\ CapKept

-----------------------------------------------------------------------------
\* A set of numbers that is not empty has a least one.
LEMMA LeastNumber ==
    ASSUME NEW S, S \subseteq Nat, S # {}
    PROVE  \E n \in S : \A m \in S : n <= m
<1> DEFINE R == {p \in Nat \X Nat : p[1] < p[2]}
<1>1. IsWellFoundedOn(R, Nat)
  BY NatLessThanWellFounded DEF OpToRel
<1>2. PICK n \in S : \A m \in S : ~(<<m, n>> \in R)
  <2> HIDE DEF R
  <2> QED BY <1>1, WFMin
<1>3. \A m \in S : ~(m < n)
  BY <1>2
<1>4. QED
  BY <1>3

LEMMA FiresAtType == ASSUME TypeOK PROVE \A k \in Nat : FiresAt(k) \in Nat
BY PowMonAssumption DEF TypeOK, FiresAt

\* When a step of the timer is left, timer_sleep finds one that is not overdue.
LEMMA NextStepType ==
    ASSUME TypeOK, ~NoStepLeft
    PROVE  /\ NextStep \in Nat
           /\ FiresAt(NextStep) \in Nat
           /\ FiresAt(NextStep) > now
<1> DEFINE Steps == timer.step + 1 .. timer.step + Width
           Good == {k \in Steps : FiresAt(k) > now}
<1>1. timer.step \in Nat /\ timer.start \in Nat /\ now \in Nat
  BY PowMonAssumption DEF TypeOK, Time
<1>2. \A k \in Nat : FiresAt(k) \in Nat
  BY FiresAtType
<1>3. Good \subseteq Nat /\ Good # {}
  BY <1>1, <1>2, PowMonAssumption DEF NoStepLeft
<1>4. PICK k \in Good : \A j \in Good : k <= j
  BY <1>3, LeastNumber
<1>5. \A j \in timer.step + 1 .. k - 1 : FiresAt(j) <= now
  BY <1>1, <1>2, <1>4, PowMonAssumption
<1>6. \E i \in Steps : /\ FiresAt(i) > now
                       /\ \A j \in timer.step + 1 .. i - 1 : FiresAt(j) <= now
  BY <1>4, <1>5
<1>7. NextStep \in Steps /\ FiresAt(NextStep) > now
  BY <1>6 DEF NextStep
<1>8. QED
  BY <1>1, <1>2, <1>7, PowMonAssumption

-----------------------------------------------------------------------------
LEMMA InitIInv == Init => IInv
<1> SUFFICES ASSUME Init PROVE IInv
  OBVIOUS
<1> USE PowMonAssumption DEF Init, Thread, Socket, Never, NoTotals, WattStep, Floor,
           MainPc, MeasurePc, Time, Totals
<1>1. TypeOK
  <2>1. pc \in [Thread -> MainPc \cup MeasurePc]
    BY DEF Thread
  <2>2. pc["main"] \in MainPc /\ pc["measure"] \in MeasurePc
    OBVIOUS
  <2>3. totals \in Totals /\ summary \in [Summarised -> Nat \cup {Never}]
    BY DEF NoSummary
  <2>4. timer \in [start : Nat, step : Nat, next : Nat]
    OBVIOUS
  <2>5. watts \in Nat /\ program \in Programs /\ watt_cap \in Caps \cup {0}
    OBVIOUS
  <2>6. rapl_data \in [Thread -> Nat] /\ limit \in [Socket -> Nat]
    OBVIOUS
  <2>7. polls \in 0 .. AdjustEvery - 1
    OBVIOUS
  <2>8. now \in Time /\ polled \in Time \cup {Never} /\ first \in Time \cup {Never}
           /\ mine \in Time \cup {Never}
    OBVIOUS
  <2>9. mlock \in Thread \cup {"free"} /\ running \in BOOLEAN /\ ready \in BOOLEAN
           /\ logfile \in {"open", "closed"} /\ dir \in {WattStep, -WattStep}
    OBVIOUS
  <2> HIDE PowMonAssumption DEF Init, Thread, Socket, Never, NoTotals, WattStep, Floor,
           MainPc, MeasurePc, Time, Totals
  <2>10. QED
    BY <2>7, <2>8, <2>9, <2>1, <2>2, <2>3, <2>4, <2>5, <2>6 DEF TypeOK
<1>2. Mutex
  BY DEF Mutex, Busy
<1>3. Accounts
  BY DEF Accounts, Underway, TotalsAddUp
<1>4. MainCovers /\ SummaryCoversRun /\ Phases
  BY DEF MainCovers, SummaryCoversRun, Phases, NoSummary
<1>5. CapSteps /\ CapKept
  BY DEF CapSteps, CapKept
<1>6. QED
  BY <1>1, <1>2, <1>3, <1>4, <1>5 DEF IInv

\* The variables of the monitor keep their types.
LEMMA TypeStep == ASSUME TypeOK, Accounts, [Next]_vars PROVE TypeOK'
<1> USE PowMonAssumption DEF TypeOK, Thread, Socket, Never, NoTotals, WattStep, MainPc, MeasurePc,
           Time, Totals
<1>1. CASE Tick
  BY <1>1 DEF Tick, shared, dynamic, constant
<1>2. CASE ThreadInit
  BY <1>2 DEF ThreadInit, Go, shared, dynamic, constant
<1>3. CASE ThreadStart
  BY <1>3 DEF ThreadStart, Go, shared, dynamic, constant
<1>4. CASE TimerCatchUp
  <2>1. timer' \in [start : Nat, step : Nat, next : Nat]
    BY <1>4, NextStepType DEF TimerCatchUp
  <2>2. QED
    BY <1>4, <2>1 DEF TimerCatchUp, Go, shared, dynamic, constant
<1>5. CASE TimerSleep
  BY <1>5 DEF TimerSleep, Go, shared, dynamic, constant
<1>6. CASE TimerWake
  <2>1. timer.step + 1 \in Nat /\ FiresAt(timer.step + 1) \in Nat
    BY FiresAtType
  <2>2. timer' \in [start : Nat, step : Nat, next : Nat]
    BY <1>6, <2>1 DEF TimerWake
  <2>3. QED
    BY <1>6, <2>2 DEF TimerWake, Go, shared, dynamic, constant
<1>7. CASE TestRunning
  BY <1>7 DEF TestRunning, Go, shared, dynamic, constant
<1>8. CASE Adjust
  BY <1>8 DEF Adjust, Go, shared, dynamic, constant, Direction, Floor
<1>9. CASE AdjustOther
  BY <1>9 DEF AdjustOther, Go, shared, dynamic, constant
<1>10. CASE MainInit
  BY <1>10 DEF MainInit, Go, shared, dynamic, constant
<1>11. CASE MainCreate
  BY <1>11 DEF MainCreate, Go, shared, dynamic, constant
<1>12. CASE MainWait
  BY <1>12 DEF MainWait, Go, shared, dynamic, constant
<1>13. CASE MainStop
  BY <1>13 DEF MainStop, Go, shared, dynamic, constant
<1>14. ASSUME NEW total \in Summarised, MainRead(total) PROVE TypeOK'
  BY <1>14 DEF MainRead, shared, dynamic, constant, Summarised
<1>14a. CASE MainSummary
  BY <1>14a DEF MainSummary, Go, shared, dynamic, constant
<1>14b. CASE MainFails
  BY <1>14b DEF MainFails, Go, shared, dynamic, constant
<1>15. CASE MainClose
  BY <1>15 DEF MainClose, Go, shared, dynamic, constant
<1>16. CASE Exit
  BY <1>16 DEF Exit, Go, shared, dynamic, constant
<1>17. ASSUME NEW t \in Thread, Lock(t) PROVE TypeOK'
  BY <1>17 DEF Lock, Go, shared, dynamic, constant
<1>18. ASSUME NEW t \in Thread, Poll(t) PROVE TypeOK'
  BY <1>18 DEF Poll, Go, shared, dynamic, constant, Accounts, Delta
<1>19. ASSUME NEW t \in Thread, AddJoules(t) PROVE TypeOK'
  BY <1>19 DEF AddJoules, Go, shared, dynamic, constant
<1>20. ASSUME NEW t \in Thread, AddLimits(t) PROVE TypeOK'
  BY <1>20 DEF AddLimits, Go, shared, dynamic, constant
<1>21. ASSUME NEW t \in Thread, Log(t) PROVE TypeOK'
  BY <1>21 DEF Log, Go, shared, dynamic, constant
<1>22. ASSUME NEW t \in Thread, Unlock(t) PROVE TypeOK'
  BY <1>22 DEF Unlock, Go, shared, dynamic, constant, AfterMeasurement
<1>23. CASE UNCHANGED vars
  BY <1>23 DEF vars, shared, dynamic, constant
<1>24. QED
  BY <1>1, <1>2, <1>3, <1>4, <1>5, <1>6, <1>7, <1>8, <1>9, <1>10, <1>11, <1>12,
     <1>13, <1>14, <1>14a, <1>14b, <1>15, <1>16, <1>17, <1>18, <1>19, <1>20, <1>21, <1>22, <1>23
     DEF Next, ThreadStep, MainStep, Measurement, Thread

\* One thread at a time is inside a measurement.
LEMMA MutexStep == ASSUME TypeOK, Mutex, Phases, [Next]_vars PROVE Mutex'
<1> USE PowMonAssumption DEF TypeOK, Mutex, Busy, Thread, MainPc, MeasurePc
<1>1. CASE Tick
  BY <1>1 DEF Tick, shared, dynamic, constant
<1>2. CASE ThreadInit
  BY <1>2 DEF ThreadInit, Go, shared, dynamic, constant
<1>3. CASE ThreadStart
  BY <1>3 DEF ThreadStart, Go, shared, dynamic, constant
<1>4. CASE TimerCatchUp
  BY <1>4 DEF TimerCatchUp, Go, shared, dynamic, constant
<1>5. CASE TimerSleep
  BY <1>5 DEF TimerSleep, Go, shared, dynamic, constant
<1>6. CASE TimerWake
  BY <1>6 DEF TimerWake, Go, shared, dynamic, constant
<1>7. CASE TestRunning
  BY <1>7 DEF TestRunning, Go, shared, dynamic, constant
<1>8. CASE Adjust
  BY <1>8 DEF Adjust, Go, shared, dynamic, constant
<1>9. CASE AdjustOther
  BY <1>9 DEF AdjustOther, Go, shared, dynamic, constant
<1>10. CASE MainInit
  BY <1>10 DEF MainInit, Go, shared, dynamic, constant
<1>11. CASE MainCreate
  BY <1>11 DEF MainCreate, Go, shared, dynamic, constant, Phases
<1>12. CASE MainWait
  BY <1>12 DEF MainWait, Go, shared, dynamic, constant
<1>13. CASE MainStop
  BY <1>13 DEF MainStop, Go, shared, dynamic, constant
<1>14. ASSUME NEW total \in Summarised, MainRead(total) PROVE Mutex'
  BY <1>14 DEF MainRead, shared, dynamic, constant
<1>14a. CASE MainSummary
  BY <1>14a DEF MainSummary, Go, shared, dynamic, constant
<1>14b. CASE MainFails
  BY <1>14b DEF MainFails, Go, shared, dynamic, constant
<1>15. CASE MainClose
  BY <1>15 DEF MainClose, Go, shared, dynamic, constant
<1>16. CASE Exit
  BY <1>16 DEF Exit, Go, shared, dynamic, constant
<1>17. ASSUME NEW t \in Thread, Lock(t) PROVE Mutex'
  BY <1>17 DEF Lock, Go, shared, dynamic, constant
<1>18. ASSUME NEW t \in Thread, Poll(t) PROVE Mutex'
  BY <1>18 DEF Poll, Go, shared, dynamic, constant
<1>19. ASSUME NEW t \in Thread, AddJoules(t) PROVE Mutex'
  BY <1>19 DEF AddJoules, Go, shared, dynamic, constant
<1>20. ASSUME NEW t \in Thread, AddLimits(t) PROVE Mutex'
  BY <1>20 DEF AddLimits, Go, shared, dynamic, constant
<1>21. ASSUME NEW t \in Thread, Log(t) PROVE Mutex'
  BY <1>21 DEF Log, Go, shared, dynamic, constant
<1>22. ASSUME NEW t \in Thread, Unlock(t) PROVE Mutex'
  BY <1>22 DEF Unlock, Go, shared, dynamic, constant, AfterMeasurement
<1>23. CASE UNCHANGED vars
  BY <1>23 DEF vars, shared, dynamic, constant
<1>24. QED
  BY <1>1, <1>2, <1>3, <1>4, <1>5, <1>6, <1>7, <1>8, <1>9, <1>10, <1>11, <1>12,
     <1>13, <1>14, <1>14a, <1>14b, <1>15, <1>16, <1>17, <1>18, <1>19, <1>20, <1>21, <1>22, <1>23
     DEF Next, ThreadStep, MainStep, Measurement, Thread

\* Every joule polled is added to each total once.
LEMMA AccountsStep ==
    ASSUME TypeOK, Mutex, Accounts, [Next]_vars
    PROVE  Accounts'
<1> USE PowMonAssumption DEF TypeOK, Thread, MainPc, MeasurePc, Time, Totals, Never, Mutex, Busy,
           Accounts, Underway, Settled, TotalsAddUp
<1>1. CASE Tick
  BY <1>1 DEF Tick, shared, dynamic, constant
<1>2. CASE ThreadInit
  BY <1>2 DEF ThreadInit, Go, shared, dynamic, constant
<1>3. CASE ThreadStart
  BY <1>3 DEF ThreadStart, Go, shared, dynamic, constant
<1>4. CASE TimerCatchUp
  BY <1>4 DEF TimerCatchUp, Go, shared, dynamic, constant
<1>5. CASE TimerSleep
  BY <1>5 DEF TimerSleep, Go, shared, dynamic, constant
<1>6. CASE TimerWake
  BY <1>6 DEF TimerWake, Go, shared, dynamic, constant
<1>7. CASE TestRunning
  BY <1>7 DEF TestRunning, Go, shared, dynamic, constant
<1>8. CASE Adjust
  BY <1>8 DEF Adjust, Go, shared, dynamic, constant
<1>9. CASE AdjustOther
  BY <1>9 DEF AdjustOther, Go, shared, dynamic, constant
<1>10. CASE MainInit
  BY <1>10 DEF MainInit, Go, shared, dynamic, constant
<1>11. CASE MainCreate
  BY <1>11 DEF MainCreate, Go, shared, dynamic, constant
<1>12. CASE MainWait
  BY <1>12 DEF MainWait, Go, shared, dynamic, constant
<1>13. CASE MainStop
  BY <1>13 DEF MainStop, Go, shared, dynamic, constant
<1>14. ASSUME NEW total \in Summarised, MainRead(total) PROVE Accounts'
  BY <1>14 DEF MainRead, shared, dynamic, constant
<1>14a. CASE MainSummary
  BY <1>14a DEF MainSummary, Go, shared, dynamic, constant
<1>14b. CASE MainFails
  BY <1>14b DEF MainFails, Go, shared, dynamic, constant
<1>15. CASE MainClose
  BY <1>15 DEF MainClose, Go, shared, dynamic, constant
<1>16. CASE Exit
  BY <1>16 DEF Exit, Go, shared, dynamic, constant
<1>17. ASSUME NEW t \in Thread, Lock(t) PROVE Accounts'
  BY <1>17 DEF Lock, Go, shared, dynamic, constant
<1>18. ASSUME NEW t \in Thread, Poll(t) PROVE Accounts'
  BY <1>18 DEF Poll, Go, shared, dynamic, constant, Delta
<1>19. ASSUME NEW t \in Thread, AddJoules(t) PROVE Accounts'
  BY <1>19 DEF AddJoules, Go, shared, dynamic, constant
<1>20. ASSUME NEW t \in Thread, AddLimits(t) PROVE Accounts'
  BY <1>20 DEF AddLimits, Go, shared, dynamic, constant
<1>21. ASSUME NEW t \in Thread, Log(t) PROVE Accounts'
  BY <1>21 DEF Log, Go, shared, dynamic, constant
<1>22. ASSUME NEW t \in Thread, Unlock(t) PROVE Accounts'
  BY <1>22 DEF Unlock, Go, shared, dynamic, constant, AfterMeasurement
<1>23. CASE UNCHANGED vars
  BY <1>23 DEF vars, shared, dynamic, constant
<1>24. QED
  BY <1>1, <1>2, <1>3, <1>4, <1>5, <1>6, <1>7, <1>8, <1>9, <1>10, <1>11,
     <1>12, <1>13, <1>14, <1>14a, <1>14b, <1>15, <1>16, <1>17, <1>18, <1>19, <1>20, <1>21, <1>22, <1>23
     DEF Next, ThreadStep, MainStep, Measurement, Thread

\* What main polled last is in the totals when it writes the summary.
LEMMA MainCoversStep ==
    ASSUME TypeOK, Mutex, Accounts, MainCovers, SummaryCoversRun, [Next]_vars
    PROVE  (MainCovers /\ SummaryCoversRun)'
<1> USE PowMonAssumption DEF TypeOK, Thread, MainPc, MeasurePc, Time, Totals, Never, Mutex, Busy,
           Accounts, Underway, Settled, MainCovers, SummaryCoversRun
<1>1. CASE Tick
  BY <1>1 DEF Tick, shared, dynamic, constant
<1>2. CASE ThreadInit
  BY <1>2 DEF ThreadInit, Go, shared, dynamic, constant
<1>3. CASE ThreadStart
  BY <1>3 DEF ThreadStart, Go, shared, dynamic, constant
<1>4. CASE TimerCatchUp
  BY <1>4 DEF TimerCatchUp, Go, shared, dynamic, constant
<1>5. CASE TimerSleep
  BY <1>5 DEF TimerSleep, Go, shared, dynamic, constant
<1>6. CASE TimerWake
  BY <1>6 DEF TimerWake, Go, shared, dynamic, constant
<1>7. CASE TestRunning
  BY <1>7 DEF TestRunning, Go, shared, dynamic, constant
<1>8. CASE Adjust
  BY <1>8 DEF Adjust, Go, shared, dynamic, constant
<1>9. CASE AdjustOther
  BY <1>9 DEF AdjustOther, Go, shared, dynamic, constant
<1>10. CASE MainInit
  BY <1>10 DEF MainInit, Go, shared, dynamic, constant
<1>11. CASE MainCreate
  BY <1>11 DEF MainCreate, Go, shared, dynamic, constant
<1>12. CASE MainWait
  BY <1>12 DEF MainWait, Go, shared, dynamic, constant
<1>13. CASE MainStop
  BY <1>13 DEF MainStop, Go, shared, dynamic, constant
<1>14. ASSUME NEW total \in Summarised, MainRead(total) PROVE (MainCovers /\ SummaryCoversRun)'
  BY <1>14 DEF MainRead, shared, dynamic, constant, Summarised
<1>14a. CASE MainSummary
  BY <1>14a DEF MainSummary, Go, shared, dynamic, constant
<1>14b. CASE MainFails
  BY <1>14b DEF MainFails, Go, shared, dynamic, constant
<1>15. CASE MainClose
  BY <1>15 DEF MainClose, Go, shared, dynamic, constant
<1>16. CASE Exit
  BY <1>16 DEF Exit, Go, shared, dynamic, constant
<1>17. ASSUME NEW t \in Thread, Lock(t) PROVE (MainCovers /\ SummaryCoversRun)'
  BY <1>17 DEF Lock, Go, shared, dynamic, constant
<1>18. ASSUME NEW t \in Thread, Poll(t) PROVE (MainCovers /\ SummaryCoversRun)'
  BY <1>18 DEF Poll, Go, shared, dynamic, constant, Delta
<1>19. ASSUME NEW t \in Thread, AddJoules(t) PROVE (MainCovers /\ SummaryCoversRun)'
  BY <1>19 DEF AddJoules, Go, shared, dynamic, constant
<1>20. ASSUME NEW t \in Thread, AddLimits(t) PROVE (MainCovers /\ SummaryCoversRun)'
  BY <1>20 DEF AddLimits, Go, shared, dynamic, constant
<1>21. ASSUME NEW t \in Thread, Log(t) PROVE (MainCovers /\ SummaryCoversRun)'
  BY <1>21 DEF Log, Go, shared, dynamic, constant
<1>22. ASSUME NEW t \in Thread, Unlock(t) PROVE (MainCovers /\ SummaryCoversRun)'
  BY <1>22 DEF Unlock, Go, shared, dynamic, constant, AfterMeasurement
<1>23. CASE UNCHANGED vars
  BY <1>23 DEF vars, shared, dynamic, constant
<1>24. QED
  BY <1>1, <1>2, <1>3, <1>4, <1>5, <1>6, <1>7, <1>8, <1>9, <1>10, <1>11,
     <1>12, <1>13, <1>14, <1>14a, <1>14b, <1>15, <1>16, <1>17, <1>18, <1>19, <1>20, <1>21, <1>22, <1>23
     DEF Next, ThreadStep, MainStep, Measurement, Thread

\* The threads keep out of each other's initialisation.
LEMMA PhasesStep ==
    ASSUME TypeOK, Phases, [Next]_vars
    PROVE  Phases'
<1> USE PowMonAssumption DEF TypeOK, Thread, MainPc, MeasurePc, Phases
<1>1. CASE Tick
  BY <1>1 DEF Tick, shared, dynamic, constant
<1>2. CASE ThreadInit
  BY <1>2 DEF ThreadInit, Go, shared, dynamic, constant
<1>3. CASE ThreadStart
  BY <1>3 DEF ThreadStart, Go, shared, dynamic, constant
<1>4. CASE TimerCatchUp
  BY <1>4 DEF TimerCatchUp, Go, shared, dynamic, constant
<1>5. CASE TimerSleep
  BY <1>5 DEF TimerSleep, Go, shared, dynamic, constant
<1>6. CASE TimerWake
  BY <1>6 DEF TimerWake, Go, shared, dynamic, constant
<1>7. CASE TestRunning
  BY <1>7 DEF TestRunning, Go, shared, dynamic, constant
<1>8. CASE Adjust
  BY <1>8 DEF Adjust, Go, shared, dynamic, constant
<1>9. CASE AdjustOther
  BY <1>9 DEF AdjustOther, Go, shared, dynamic, constant
<1>10. CASE MainInit
  BY <1>10 DEF MainInit, Go, shared, dynamic, constant
<1>11. CASE MainCreate
  BY <1>11 DEF MainCreate, Go, shared, dynamic, constant
<1>12. CASE MainWait
  BY <1>12 DEF MainWait, Go, shared, dynamic, constant
<1>13. CASE MainStop
  BY <1>13 DEF MainStop, Go, shared, dynamic, constant
<1>14. ASSUME NEW total \in Summarised, MainRead(total) PROVE Phases'
  BY <1>14 DEF MainRead, shared, dynamic, constant
<1>14a. CASE MainSummary
  BY <1>14a DEF MainSummary, Go, shared, dynamic, constant
<1>14b. CASE MainFails
  BY <1>14b DEF MainFails, Go, shared, dynamic, constant
<1>15. CASE MainClose
  BY <1>15 DEF MainClose, Go, shared, dynamic, constant
<1>16. CASE Exit
  BY <1>16 DEF Exit, Go, shared, dynamic, constant
<1>17. ASSUME NEW t \in Thread, Lock(t) PROVE Phases'
  BY <1>17 DEF Lock, Go, shared, dynamic, constant
<1>18. ASSUME NEW t \in Thread, Poll(t) PROVE Phases'
  BY <1>18 DEF Poll, Go, shared, dynamic, constant
<1>19. ASSUME NEW t \in Thread, AddJoules(t) PROVE Phases'
  BY <1>19 DEF AddJoules, Go, shared, dynamic, constant
<1>20. ASSUME NEW t \in Thread, AddLimits(t) PROVE Phases'
  BY <1>20 DEF AddLimits, Go, shared, dynamic, constant
<1>21. ASSUME NEW t \in Thread, Log(t) PROVE Phases'
  BY <1>21 DEF Log, Go, shared, dynamic, constant
<1>22. ASSUME NEW t \in Thread, Unlock(t) PROVE Phases'
  BY <1>22 DEF Unlock, Go, shared, dynamic, constant, AfterMeasurement
<1>23. CASE UNCHANGED vars
  BY <1>23 DEF vars, shared, dynamic, constant
<1>24. QED
  BY <1>1, <1>2, <1>3, <1>4, <1>5, <1>6, <1>7, <1>8, <1>9, <1>10, <1>11,
     <1>12, <1>13, <1>14, <1>14a, <1>14b, <1>15, <1>16, <1>17, <1>18, <1>19, <1>20, <1>21, <1>22, <1>23
     DEF Next, ThreadStep, MainStep, Measurement, Thread

\* The cap of the dynamic wrapper turns at the floor and at watt_cap.
LEMMA CapStep ==
    ASSUME TypeOK, Phases, CapSteps, CapKept, [Next]_vars
    PROVE  (CapSteps /\ CapKept)'
<1> USE PowMonAssumption DEF TypeOK, Thread, Socket, Floor, WattStep,
           Phases, CapSteps, CapKept
<1>1. CASE Tick
  BY <1>1 DEF Tick, shared, dynamic, constant
<1>2. CASE ThreadInit
  BY <1>2 DEF ThreadInit, Go, shared, dynamic, constant
<1>3. CASE ThreadStart
  BY <1>3 DEF ThreadStart, Go, shared, dynamic, constant
<1>4. CASE TimerCatchUp
  BY <1>4 DEF TimerCatchUp, Go, shared, dynamic, constant
<1>5. CASE TimerSleep
  BY <1>5 DEF TimerSleep, Go, shared, dynamic, constant
<1>6. CASE TimerWake
  BY <1>6 DEF TimerWake, Go, shared, dynamic, constant
<1>7. CASE TestRunning
  BY <1>7 DEF TestRunning, Go, shared, dynamic, constant
<1>8. CASE Adjust
  BY <1>8 DEF Adjust, Go, shared, dynamic, constant, Direction
<1>9. CASE AdjustOther
  BY <1>9 DEF AdjustOther, Go, shared, dynamic, constant
<1>10. CASE MainInit
  BY <1>10 DEF MainInit, Go, shared, dynamic, constant
<1>11. CASE MainCreate
  BY <1>11 DEF MainCreate, Go, shared, dynamic, constant
<1>12. CASE MainWait
  BY <1>12 DEF MainWait, Go, shared, dynamic, constant
<1>13. CASE MainStop
  BY <1>13 DEF MainStop, Go, shared, dynamic, constant
<1>14. ASSUME NEW total \in Summarised, MainRead(total) PROVE (CapSteps /\ CapKept)'
  BY <1>14 DEF MainRead, shared, dynamic, constant
<1>14a. CASE MainSummary
  BY <1>14a DEF MainSummary, Go, shared, dynamic, constant
<1>14b. CASE MainFails
  BY <1>14b DEF MainFails, Go, shared, dynamic, constant
<1>15. CASE MainClose
  BY <1>15 DEF MainClose, Go, shared, dynamic, constant
<1>16. CASE Exit
  BY <1>16 DEF Exit, Go, shared, dynamic, constant
<1>17. ASSUME NEW t \in Thread, Lock(t) PROVE (CapSteps /\ CapKept)'
  BY <1>17 DEF Lock, Go, shared, dynamic, constant
<1>18. ASSUME NEW t \in Thread, Poll(t) PROVE (CapSteps /\ CapKept)'
  BY <1>18 DEF Poll, Go, shared, dynamic, constant
<1>19. ASSUME NEW t \in Thread, AddJoules(t) PROVE (CapSteps /\ CapKept)'
  BY <1>19 DEF AddJoules, Go, shared, dynamic, constant
<1>20. ASSUME NEW t \in Thread, AddLimits(t) PROVE (CapSteps /\ CapKept)'
  BY <1>20 DEF AddLimits, Go, shared, dynamic, constant
<1>21. ASSUME NEW t \in Thread, Log(t) PROVE (CapSteps /\ CapKept)'
  BY <1>21 DEF Log, Go, shared, dynamic, constant
<1>22. ASSUME NEW t \in Thread, Unlock(t) PROVE (CapSteps /\ CapKept)'
  BY <1>22 DEF Unlock, Go, shared, dynamic, constant
<1>23. CASE UNCHANGED vars
  BY <1>23 DEF vars, shared, dynamic, constant
<1>24. QED
  BY <1>1, <1>2, <1>3, <1>4, <1>5, <1>6, <1>7, <1>8, <1>9, <1>10, <1>11,
     <1>12, <1>13, <1>14, <1>14a, <1>14b, <1>15, <1>16, <1>17, <1>18, <1>19, <1>20, <1>21, <1>22, <1>23
     DEF Next, ThreadStep, MainStep, Measurement, Thread

-----------------------------------------------------------------------------
(* The results.                                                            *)

\* Every state of a monitor satisfies the inductive invariant.
THEOREM Invariance == Spec => []IInv
<1>1. IInv /\ [Next]_vars => IInv'
  BY TypeStep, MutexStep, AccountsStep, MainCoversStep, PhasesStep, CapStep DEF IInv
<1>2. QED
  BY InitIInv, <1>1, PTL DEF Spec

\* The variables of both threads keep their types.
THEOREM TypeCorrect == Spec => []TypeOK
<1>1. IInv => TypeOK
  BY DEF IInv
<1>2. QED
  BY <1>1, Invariance, PTL

\* Outside measurements the totals and the log are the energy between the first
\* poll and the last, whichever threads took it (take_measurement).
THEOREM JoulesCountedOnce == Spec => []TotalsAddUp
<1>1. IInv => TotalsAddUp
  BY DEF IInv, Accounts
<1>2. QED
  BY <1>1, Invariance, PTL

\* Each total of the summary lies between the energy up to main's own poll and all
\* that was measured, although main reads them one by one without the mutex (main).
THEOREM SummaryIsFair == Spec => []SummaryCoversRun
<1>1. IInv => SummaryCoversRun
  BY DEF IInv
<1>2. QED
  BY <1>1, Invariance, PTL

\* The dynamic wrapper's limits stay between the floor less a step and the cap
\* (power_set_measurement).
THEOREM CapIsKept == Spec => []CapKept
<1>1. IInv => CapKept
  BY DEF IInv
<1>2. QED
  BY <1>1, Invariance, PTL

\* When the thread initialises within main's sleep, never two threads of powmon or
\* of the static wrapper are inside the library.
THEOREM OneThreadInLibrary == PromptThread => (Spec => []LibraryExclusive)
<1> SUFFICES ASSUME PromptThread PROVE Spec => []LibraryExclusive
  OBVIOUS
<1>1. IInv => LibraryExclusive
  BY DEF IInv, TypeOK, Thread, MainPc, MeasurePc, Mutex, Busy, Phases,
         LibraryExclusive, InLibrary
<1>2. QED
  BY <1>1, Invariance, PTL
=============================================================================
