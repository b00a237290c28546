--------------------------- MODULE TopologyProofs ---------------------------
(***************************************************************************)
(* For a machine of any shape: on a whole machine find_cpu_top maps every  *)
(* processor to its own core and socket, devidx leads from coordinates to  *)
(* the processor that has them when the numbering is one of the two the    *)
(* library knows, no storage function puts more on its batch than it has   *)
(* room for, and every pointer it sets leads to its own socket, core or    *)
(* thread.                                                                 *)
(***************************************************************************)
EXTENDS BatchClients, FiniteSetTheorems, FunctionTheorems, WellFoundedInduction, TLAPS

Shape == [sockets |-> machine.sockets, cores |-> machine.cores,
          threads |-> machine.threads]

\* What find_cpu_top is to write for processor p.
InPlace(p) == [core |-> p[1] * machine.cores + p[2], socket |-> p[1]]

MachineOK ==
    /\ machine \in [sockets : 1 .. MaxSockets, cores : 1 .. MaxCores,
                    threads : 1 .. MaxThreads, numbering : Numberings]
    /\ online \subseteq Processors
    /\ client = NoClient \/ client \in Clients

\* Nothing is known before the first call that counts.
NothingBefore ==
    counts = << >> => /\ thread_map = << >> /\ ~discontinuous
                      /\ access = NoAccess /\ client = NoClient

CountsRight == Whole /\ counts # << >> => counts = Shape

MapRight ==
    Whole /\ thread_map # << >> =>
        /\ DOMAIN thread_map = 0 .. NumDevs(Shape) - 1
        /\ \A p \in Processors : thread_map[Os(p)] = InPlace(p)

\* Processor 1 tells the numberings apart, except on machines where both give
\* every processor the same number.
GuessRight ==
    Whole /\ counts # << >> =>
        /\ machine.numbering = "continuous" /\ discontinuous
              => machine.sockets = 1 /\ machine.cores = 1
        /\ machine.numbering = "discontinuous" /\ thread_map # << >> /\ ~discontinuous
              => machine.sockets = 1 \/ machine.cores = 1

\* The counts and the guess that an access used are still the current ones.
AccessRight ==
    access # NoAccess =>
        LET a == access.asked
            d == Devidx(a[1], a[2], a[3])
        IN  access.reached = IF d < NumDevs(counts) THEN d ELSE None

Fits == Whole /\ ~early => ~broken

IInv == /\ MachineOK /\ NothingBefore /\ CountsRight /\ MapRight /\ GuessRight
        /\ AccessRight /\ Fits /\ PointersReachTheirUnit

-----------------------------------------------------------------------------
(* Numbers written with two and with three digits.                         *)

LEMMA TwoDigits ==
    ASSUME NEW A \in Nat, NEW B \in Nat, NEW a \in 0 .. A - 1, NEW b \in 0 .. B - 1
    PROVE  a * B + b \in 0 .. A * B - 1
OBVIOUS

LEMMA TwoDigitsUnique ==
    ASSUME NEW B \in Nat, NEW a \in Nat, NEW c \in Nat, NEW b \in 0 .. B - 1,
           NEW d \in 0 .. B - 1, a * B + b = c * B + d
    PROVE  a = c /\ b = d
OBVIOUS

LEMMA TwoDigitsAll ==
    ASSUME NEW A \in Nat \ {0}, NEW B \in Nat \ {0}, NEW k \in 0 .. A * B - 1
    PROVE  \E a \in 0 .. A - 1, b \in 0 .. B - 1 : k = a * B + b
<1> DEFINE a == k \div B
           b == k % B
<1>1. k = a * B + b /\ b \in 0 .. B - 1 /\ a \in Nat
  OBVIOUS
<1> HIDE DEF a, b
<1>2. a < A
  <2>1. SUFFICES ASSUME a >= A PROVE FALSE
    BY <1>1
  <2>2. a * B >= A * B
    BY <1>1, <2>1
  <2>3. QED
    BY <1>1, <2>2
<1>3. a \in 0 .. A - 1
  BY <1>1, <1>2
<1>4. QED
  BY <1>1, <1>3

\* The number with digits x, y, z, of which y is below Y and z below Z.
Number(x, y, z, Y, Z) == (x * Y + y) * Z + z

LEMMA ThreeDigits ==
    ASSUME NEW X \in Nat \ {0}, NEW Y \in Nat \ {0}, NEW Z \in Nat \ {0},
           NEW x \in 0 .. X - 1, NEW y \in 0 .. Y - 1, NEW z \in 0 .. Z - 1
    PROVE  Number(x, y, z, Y, Z) \in 0 .. X * Y * Z - 1
<1> DEFINE XY == X * Y
           n == x * Y + y
<1>1. XY \in Nat
  OBVIOUS
<1>2. n \in 0 .. XY - 1
  BY TwoDigits
<1> HIDE DEF n, XY
<1>3. n * Z + z \in 0 .. XY * Z - 1
  BY <1>1, <1>2, TwoDigits
<1>4. QED
  BY <1>3 DEF Number, n, XY

LEMMA ThreeDigitsUnique ==
    ASSUME NEW Y \in Nat \ {0}, NEW Z \in Nat \ {0}, NEW x \in Nat, NEW u \in Nat,
           NEW y \in 0 .. Y - 1, NEW v \in 0 .. Y - 1,
           NEW z \in 0 .. Z - 1, NEW w \in 0 .. Z - 1,
           Number(x, y, z, Y, Z) = Number(u, v, w, Y, Z)
    PROVE  x = u /\ y = v /\ z = w
<1> DEFINE n == x * Y + y
           m == u * Y + v
<1>1. n \in Nat /\ m \in Nat
  OBVIOUS
<1>2. n * Z + z = m * Z + w
  BY DEF Number
<1>3. n = m /\ z = w
  <2> HIDE DEF n, m
  <2> QED BY <1>1, <1>2, TwoDigitsUnique
<1>4. x = u /\ y = v
  BY <1>3, TwoDigitsUnique
<1>5. QED
  BY <1>3, <1>4

\* Every number below X * Y * Z has three such digits.
AllNumbers(X, Y, Z) ==
    \A k \in 0 .. X * Y * Z - 1 :
        \E x \in 0 .. X - 1, y \in 0 .. Y - 1, z \in 0 .. Z - 1 : Number(x, y, z, Y, Z) = k

LEMMA ThreeDigitsAll ==
    ASSUME NEW X \in Nat \ {0}, NEW Y \in Nat \ {0}, NEW Z \in Nat \ {0}
    PROVE  AllNumbers(X, Y, Z)
<1> DEFINE XY == X * Y
<1>1. XY \in Nat \ {0}
  OBVIOUS
<1> SUFFICES ASSUME NEW k \in 0 .. XY * Z - 1
             PROVE  \E x \in 0 .. X - 1, y \in 0 .. Y - 1, z \in 0 .. Z - 1 :
                       Number(x, y, z, Y, Z) = k
  BY DEF AllNumbers
<1>2. PICK n \in 0 .. XY - 1, z \in 0 .. Z - 1 : k = n * Z + z
  <2> HIDE DEF XY
  <2> QED BY <1>1, TwoDigitsAll
<1>3. PICK x \in 0 .. X - 1, y \in 0 .. Y - 1 : n = x * Y + y
  BY TwoDigitsAll
<1>4. Number(x, y, z, Y, Z) = k
  BY <1>2, <1>3 DEF Number
<1>5. QED
  BY <1>4

-----------------------------------------------------------------------------
(* The machine.                                                            *)

LEMMA ShapeType ==
    ASSUME MachineOK
    PROVE  /\ machine.sockets \in Nat \ {0} /\ machine.cores \in Nat \ {0}
           /\ machine.threads \in Nat \ {0}
           /\ machine.numbering \in {"continuous", "discontinuous", "siblings"}
           /\ Shape.sockets = machine.sockets /\ Shape.cores = machine.cores
           /\ Shape.threads = machine.threads
           /\ NumDevs(Shape) = machine.sockets * machine.cores * machine.threads
           /\ NumDevs(Shape) \in Nat \ {0}
<1>1. machine \in [sockets : 1 .. MaxSockets, cores : 1 .. MaxCores,
                   threads : 1 .. MaxThreads, numbering : Numberings]
  BY DEF MachineOK
<1>2. /\ machine.sockets \in 1 .. MaxSockets /\ machine.cores \in 1 .. MaxCores
      /\ machine.threads \in 1 .. MaxThreads /\ machine.numbering \in Numberings
  BY <1>1
<1>3. /\ machine.sockets \in Nat \ {0} /\ machine.cores \in Nat \ {0}
      /\ machine.threads \in Nat \ {0}
      /\ machine.numbering \in {"continuous", "discontinuous", "siblings"}
  <2>1. MaxSockets \in Nat /\ MaxCores \in Nat /\ MaxThreads \in Nat
    BY TopologyAssumption
  <2>2. machine.numbering \in {"continuous", "discontinuous", "siblings"}
    BY <1>2, TopologyAssumption
  <2>3. QED
    BY <1>2, <2>1, <2>2
<1>4. machine.sockets * machine.cores * machine.threads \in Nat \ {0}
  BY <1>3
<1>5. QED
  BY <1>3, <1>4 DEF Shape, NumDevs

LEMMA Digits ==
    ASSUME NEW p \in Processors
    PROVE  /\ p = <<p[1], p[2], p[3]>>
           /\ p[1] \in 0 .. machine.sockets - 1
           /\ p[2] \in 0 .. machine.cores - 1
           /\ p[3] \in 0 .. machine.threads - 1
BY DEF Processors

\* Every numbering writes the coordinates as digits, in an order of its own.
LEMMA OsIs ==
    ASSUME MachineOK, NEW p \in Processors
    PROVE  /\ machine.numbering = "continuous" =>
                 Os(p) = Number(p[3], p[1], p[2], machine.sockets, machine.cores)
           /\ machine.numbering = "discontinuous" =>
                 Os(p) = Number(p[3], p[2], p[1], machine.cores, machine.sockets)
           /\ machine.numbering = "siblings" =>
                 Os(p) = Number(p[1], p[2], p[3], machine.cores, machine.threads)
<1> DEFINE S == machine.sockets
           C == machine.cores
           T == machine.threads
<1>1. S \in Nat \ {0} /\ C \in Nat \ {0} /\ T \in Nat \ {0}
  BY ShapeType
<1>2. p[1] \in Nat /\ p[2] \in Nat /\ p[3] \in Nat
  BY <1>1, Digits
<1>3. /\ Number(p[3], p[1], p[2], S, C) = p[3]*S*C + p[1]*C + p[2]
      /\ Number(p[3], p[2], p[1], C, S) = p[3]*S*C + p[2]*S + p[1]
      /\ Number(p[1], p[2], p[3], C, T) = (p[1]*C + p[2])*T + p[3]
  <2> HIDE DEF S, C, T
  <2> QED BY <1>1, <1>2 DEF Number
<1>4. QED
  BY <1>3 DEF Os

\* The kernel numbers the processors of a machine from 0, each once.
LEMMA OsNumbers ==
    ASSUME MachineOK
    PROVE  /\ \A p \in Processors : Os(p) \in 0 .. NumDevs(Shape) - 1
           /\ \A p, q \in Processors : Os(p) = Os(q) => p = q
           /\ \A k \in 0 .. NumDevs(Shape) - 1 : \E p \in Processors : Os(p) = k
<1> DEFINE S == machine.sockets
           C == machine.cores
           T == machine.threads
<1>1. S \in Nat \ {0} /\ C \in Nat \ {0} /\ T \in Nat \ {0} /\ NumDevs(Shape) = S * C * T
  BY ShapeType
<1>2. T * S * C = S * C * T /\ T * C * S = S * C * T
  <2> HIDE DEF S, C, T
  <2> QED BY <1>1
<1>3. \A p \in Processors : /\ p = <<p[1], p[2], p[3]>> /\ p[1] \in 0 .. S - 1
                            /\ p[2] \in 0 .. C - 1 /\ p[3] \in 0 .. T - 1
  BY Digits
<1>4. \A x \in 0 .. S - 1, y \in 0 .. C - 1, z \in 0 .. T - 1 :
         LET p == <<x, y, z>> IN p \in Processors /\ p[1] = x /\ p[2] = y /\ p[3] = z
  BY DEF Processors
<1>5. CASE machine.numbering = "continuous"
  <2>1. \A p \in Processors : Os(p) = Number(p[3], p[1], p[2], S, C)
    BY <1>5, OsIs
  <2> HIDE DEF S, C, T
  <2>2. \A p \in Processors : Os(p) \in 0 .. T * S * C - 1
    BY <1>1, <1>3, <2>1, ThreeDigits
  <2>3. ASSUME NEW p \in Processors, NEW q \in Processors, Os(p) = Os(q)
        PROVE  p = q
    <3>1. Number(p[3], p[1], p[2], S, C) = Number(q[3], q[1], q[2], S, C)
      BY <2>1, <2>3
    <3>2. p[3] = q[3] /\ p[1] = q[1] /\ p[2] = q[2]
      <4>1. p[3] \in Nat /\ q[3] \in Nat
        BY <1>3
      <4>2. QED
        BY <1>1, <1>3, <3>1, <4>1, ThreeDigitsUnique
    <3>3. QED
      BY <1>3, <3>2
  <2>4. ASSUME NEW k \in 0 .. T * S * C - 1
        PROVE  \E p \in Processors : Os(p) = k
    <3>1. PICK x \in 0 .. T - 1, y \in 0 .. S - 1, z \in 0 .. C - 1 :
             Number(x, y, z, S, C) = k
      <4>1. AllNumbers(T, S, C)
        BY <1>1, ThreeDigitsAll
      <4>2. QED
        BY <4>1 DEF AllNumbers
    <3> DEFINE p == <<y, z, x>>
    <3>2. p \in Processors /\ p[1] = y /\ p[2] = z /\ p[3] = x
      BY <1>4, <3>1
    <3>3. QED
      <4> HIDE DEF p
      <4> QED BY <2>1, <3>1, <3>2
  <2>5. QED
    BY <1>1, <1>2, <2>2, <2>3, <2>4
<1>6. CASE machine.numbering = "discontinuous"
  <2>1. \A p \in Processors : Os(p) = Number(p[3], p[2], p[1], C, S)
    BY <1>6, OsIs
  <2> HIDE DEF S, C, T
  <2>2. \A p \in Processors : Os(p) \in 0 .. T * C * S - 1
    BY <1>1, <1>3, <2>1, ThreeDigits
  <2>3. ASSUME NEW p \in Processors, NEW q \in Processors, Os(p) = Os(q)
        PROVE  p = q
    <3>1. Number(p[3], p[2], p[1], C, S) = Number(q[3], q[2], q[1], C, S)
      BY <2>1, <2>3
    <3>2. p[3] = q[3] /\ p[2] = q[2] /\ p[1] = q[1]
      <4>1. p[3] \in Nat /\ q[3] \in Nat
        BY <1>3
      <4>2. QED
        BY <1>1, <1>3, <3>1, <4>1, ThreeDigitsUnique
    <3>3. QED
      BY <1>3, <3>2
  <2>4. ASSUME NEW k \in 0 .. T * C * S - 1
        PROVE  \E p \in Processors : Os(p) = k
    <3>1. PICK x \in 0 .. T - 1, y \in 0 .. C - 1, z \in 0 .. S - 1 :
             Number(x, y, z, C, S) = k
      <4>1. AllNumbers(T, C, S)
        BY <1>1, ThreeDigitsAll
      <4>2. QED
        BY <4>1 DEF AllNumbers
    <3> DEFINE p == <<z, y, x>>
    <3>2. p \in Processors /\ p[1] = z /\ p[2] = y /\ p[3] = x
      BY <1>4, <3>1
    <3>3. QED
      <4> HIDE DEF p
      <4> QED BY <2>1, <3>1, <3>2
  <2>5. QED
    BY <1>1, <1>2, <2>2, <2>3, <2>4
<1>7. CASE machine.numbering = "siblings"
  <2>1. \A p \in Processors : Os(p) = Number(p[1], p[2], p[3], C, T)
    BY <1>7, OsIs
  <2> HIDE DEF S, C, T
  <2>2. \A p \in Processors : Os(p) \in 0 .. S * C * T - 1
    BY <1>1, <1>3, <2>1, ThreeDigits
  <2>3. ASSUME NEW p \in Processors, NEW q \in Processors, Os(p) = Os(q)
        PROVE  p = q
    <3>1. Number(p[1], p[2], p[3], C, T) = Number(q[1], q[2], q[3], C, T)
      BY <2>1, <2>3
    <3>2. p[1] = q[1] /\ p[2] = q[2] /\ p[3] = q[3]
      <4>1. p[1] \in Nat /\ q[1] \in Nat
        BY <1>3
      <4>2. QED
        BY <1>1, <1>3, <3>1, <4>1, ThreeDigitsUnique
    <3>3. QED
      BY <1>3, <3>2
  <2>4. ASSUME NEW k \in 0 .. S * C * T - 1
        PROVE  \E p \in Processors : Os(p) = k
    <3>1. PICK x \in 0 .. S - 1, y \in 0 .. C - 1, z \in 0 .. T - 1 :
             Number(x, y, z, C, T) = k
      <4>1. AllNumbers(S, C, T)
        BY <1>1, ThreeDigitsAll
      <4>2. QED
        BY <4>1 DEF AllNumbers
    <3> DEFINE p == <<x, y, z>>
    <3>2. p \in Processors /\ p[1] = x /\ p[2] = y /\ p[3] = z
      BY <1>4, <3>1
    <3>3. QED
      <4> HIDE DEF p
      <4> QED BY <2>1, <3>1, <3>2
  <2>5. QED
    BY <1>1, <1>2, <2>2, <2>3, <2>4
<1>8. QED
  BY <1>5, <1>6, <1>7, ShapeType

-----------------------------------------------------------------------------
(* Counting.                                                               *)

\* A set that a function numbers 0 .. n - 1 has n elements.
LEMMA Counted ==
    ASSUME NEW X, NEW n \in Nat, NEW f \in [X -> 0 .. n - 1],
           \A x, y \in X : f[x] = f[y] => x = y,
           \A k \in 0 .. n - 1 : \E x \in X : f[x] = k
    PROVE  IsFiniteSet(X) /\ Cardinality(X) = n
<1>1. IsFiniteSet(0 .. n - 1) /\ Cardinality(0 .. n - 1) = n
  BY FS_Interval
<1>2. f \in Bijection(X, 0 .. n - 1)
  BY DEF Bijection, Injection, Surjection, IsInjective
<1>3. ExistsBijection(0 .. n - 1, X)
  BY <1>2, Fun_ExistsBijSymmetric DEF ExistsBijection
<1>4. QED
  BY <1>1, <1>3, FS_Bijection

LEMMA Below ==
    ASSUME NEW n \in Nat
    PROVE  /\ IsFiniteSet(0 .. n - 1) /\ Cardinality(0 .. n - 1) = n
           /\ \A m \in 0 .. n : Cardinality({k \in 0 .. n - 1 : k < m}) = m
<1>1. IsFiniteSet(0 .. n - 1) /\ Cardinality(0 .. n - 1) = n
  BY FS_Interval
<1>2. ASSUME NEW m \in 0 .. n
      PROVE  Cardinality({k \in 0 .. n - 1 : k < m}) = m
  <2>1. {k \in 0 .. n - 1 : k < m} = 0 .. m - 1
    OBVIOUS
  <2>2. Cardinality(0 .. m - 1) = m
    BY FS_Interval
  <2>3. QED
    BY <2>1, <2>2
<1>3. QED
  BY <1>1, <1>2

\* The pairs that come before <<a, b>> in a grid with B columns.
LEMMA GridBefore ==
    ASSUME NEW A \in Nat, NEW B \in Nat, NEW a \in 0 .. A - 1, NEW b \in 0 .. B - 1
    PROVE  LET before == {c \in (0 .. A - 1) \X (0 .. B - 1) :
                             c[1] < a \/ (c[1] = a /\ c[2] < b)}
           IN  IsFiniteSet(before) /\ Cardinality(before) = a * B + b
<1> DEFINE G == (0 .. A - 1) \X (0 .. B - 1)
           before == {c \in G : c[1] < a \/ (c[1] = a /\ c[2] < b)}
           f == [c \in before |-> c[1] * B + c[2]]
           n == a * B + b
<1>1. n \in Nat /\ A \in Nat \ {0} /\ B \in Nat \ {0} /\ a \in Nat
  OBVIOUS
<1>2. \A c \in G : c = <<c[1], c[2]>> /\ c[1] \in 0 .. A - 1 /\ c[2] \in 0 .. B - 1
  OBVIOUS
<1>3. f \in [before -> 0 .. n - 1]
  <2> SUFFICES ASSUME NEW c \in before PROVE c[1] * B + c[2] \in 0 .. n - 1
    OBVIOUS
  <2> DEFINE x == c[1]
             y == c[2]
  <2>1. /\ x \in Nat /\ y \in Nat /\ y < B
        /\ x < a \/ (x = a /\ y < b)
    BY <1>2
  <2> HIDE DEF x, y
  <2>2. x * B + y < a * B + b
    <3>1. CASE x < a
      <4>1. (x + 1) * B <= a * B
        BY <1>1, <2>1, <3>1
      <4>2. QED
        BY <1>1, <2>1, <4>1
    <3>2. CASE x = a /\ y < b
      BY <1>1, <2>1, <3>2
    <3>3. QED
      BY <2>1, <3>1, <3>2
  <2>3. x * B + y \in 0 .. n - 1
    BY <1>1, <2>1, <2>2
  <2>4. QED
    BY <2>3 DEF x, y
<1>4. ASSUME NEW c \in before, NEW d \in before, f[c] = f[d]
      PROVE  c = d
  <2>1. c[1] * B + c[2] = d[1] * B + d[2]
    BY <1>4
  <2>2. /\ c[1] \in Nat /\ d[1] \in Nat
        /\ c[2] \in 0 .. B - 1 /\ d[2] \in 0 .. B - 1
    BY <1>2
  <2>3. c[1] = d[1] /\ c[2] = d[2]
    BY <1>1, <2>1, <2>2, TwoDigitsUnique
  <2>4. QED
    BY <1>2, <2>3
<1>5. ASSUME NEW k \in 0 .. n - 1
      PROVE  \E c \in before : f[c] = k
  <2>1. k \in 0 .. A * B - 1
    <3>1. n \in 0 .. A * B - 1
      BY TwoDigits
    <3>2. QED
      BY <1>1, <3>1
  <2>2. PICK x \in 0 .. A - 1, y \in 0 .. B - 1 : k = x * B + y
    BY <1>1, <2>1, TwoDigitsAll
  <2>3. x < a \/ (x = a /\ y < b)
    <3>1. CASE x > a
      <4>1. x * B >= (a + 1) * B
        BY <1>1, <3>1
      <4>2. QED
        BY <1>1, <2>2, <4>1
    <3>2. CASE x = a /\ y >= b
      BY <1>1, <2>2, <3>2
    <3>3. QED
      BY <3>1, <3>2
  <2> DEFINE c == <<x, y>>
  <2>4. c \in before /\ c[1] = x /\ c[2] = y
    BY <2>3
  <2>5. f[c] = k
    BY <2>2, <2>4
  <2>6. QED
    BY <2>4, <2>5
<1>6. IsFiniteSet(before) /\ Cardinality(before) = n
  <2> HIDE DEF before, f, n
  <2> QED BY <1>1, <1>3, <1>4, <1>5, Counted
<1>7. QED
  BY <1>6

-----------------------------------------------------------------------------
(* What hwloc shows of a whole machine.                                    *)

LEMMA ProcessorsCounted ==
    ASSUME MachineOK
    PROVE  IsFiniteSet(Processors) /\ Cardinality(Processors) = NumDevs(Shape)
<1> DEFINE f == [p \in Processors |-> Os(p)]
           n == NumDevs(Shape)
<1>1. n \in Nat
  BY ShapeType
<1>2. /\ f \in [Processors -> 0 .. n - 1]
      /\ \A p, q \in Processors : f[p] = f[q] => p = q
      /\ \A k \in 0 .. n - 1 : \E p \in Processors : f[p] = k
  BY OsNumbers
<1>3. QED
  <2> HIDE DEF f, n
  <2>1. IsFiniteSet(Processors) /\ Cardinality(Processors) = n
    BY <1>1, <1>2, Counted
  <2>2. QED
    BY <2>1 DEF n

\* All processors are online when as many are online as there are.
LEMMA AllOnline ==
    ASSUME MachineOK, Cardinality(online) = Cardinality(Processors)
    PROVE  online = Processors
BY ProcessorsCounted, FS_Subset DEF MachineOK

LEMMA WholeSets ==
    ASSUME MachineOK, online = Processors
    PROVE  /\ Sockets = 0 .. machine.sockets - 1
           /\ Cores = (0 .. machine.sockets - 1) \X (0 .. machine.cores - 1)
<1> DEFINE S == machine.sockets
           C == machine.cores
           T == machine.threads
<1>1. S \in Nat \ {0} /\ C \in Nat \ {0} /\ T \in Nat \ {0}
  BY ShapeType
<1>2. \A x \in 0 .. S - 1, y \in 0 .. C - 1 :
         LET p == <<x, y, 0>> IN p \in Processors /\ p[1] = x /\ p[2] = y
  BY <1>1 DEF Processors
<1>3. \A p \in Processors : p[1] \in 0 .. S - 1 /\ p[2] \in 0 .. C - 1
  BY Digits
<1>4. 0 \in 0 .. C - 1
  BY <1>1
<1>5. Sockets = 0 .. S - 1
  <2> HIDE DEF S, C, T
  <2> QED BY <1>2, <1>3, <1>4 DEF Sockets
<1>6. Cores = (0 .. S - 1) \X (0 .. C - 1)
  <2> HIDE DEF S, C, T
  <2>1. Cores \subseteq (0 .. S - 1) \X (0 .. C - 1)
    BY <1>3 DEF Cores
  <2>2. ASSUME NEW x \in 0 .. S - 1, NEW y \in 0 .. C - 1
        PROVE  <<x, y>> \in Cores
    <3> DEFINE p == <<x, y, 0>>
    <3>1. p \in Processors /\ p[1] = x /\ p[2] = y
      BY <1>2
    <3> HIDE DEF p
    <3>2. QED
      BY <3>1 DEF Cores
  <2>3. QED
    BY <2>1, <2>2
<1>7. QED
  BY <1>5, <1>6

\* core_config counts a whole machine right.
LEMMA WholeCounts ==
    ASSUME MachineOK, online = Processors, counts = << >>
    PROVE  CoreConfig = Shape
<1> DEFINE S == machine.sockets
           C == machine.cores
           T == machine.threads
<1>1. /\ S \in Nat \ {0} /\ C \in Nat \ {0} /\ T \in Nat \ {0}
      /\ NumDevs(Shape) = S * C * T
  BY ShapeType
<1>2. Cardinality(Sockets) = S
  BY <1>1, WholeSets, Below
<1>3. Cardinality(Cores) = S * C
  <2>1. /\ IsFiniteSet(0 .. S - 1) /\ Cardinality(0 .. S - 1) = S
        /\ IsFiniteSet(0 .. C - 1) /\ Cardinality(0 .. C - 1) = C
    BY <1>1, Below
  <2>2. Cardinality((0 .. S - 1) \X (0 .. C - 1)) = S * C
    <3> DEFINE X == 0 .. S - 1
               Y == 0 .. C - 1
    <3> HIDE DEF X, Y
    <3>1. Cardinality(X \X Y) = Cardinality(X) * Cardinality(Y)
      BY <2>1, FS_Product DEF X, Y
    <3>2. QED
      BY <2>1, <3>1 DEF X, Y
  <2>3. QED
    BY <2>2, WholeSets
<1>4. Cardinality(online) = S * C * T
  BY <1>1, ProcessorsCounted
<1>5. (S * C) \div S = C
  <2> HIDE DEF S, C, T
  <2>1. (S * C) \div S = (C * S + 0) \div S
    BY <1>1
  <2>2. QED
    BY <1>1
<1>6. (S * C * T) \div (S * C) = T
  <2> DEFINE B == S * C
  <2> HIDE DEF S, C, T
  <2>1. B \in Nat \ {0}
    BY <1>1
  <2> HIDE DEF B
  <2>2. (B * T) \div B = T
    BY <1>1, <2>1
  <2>3. QED
    BY <2>2 DEF B
<1>7. QED
  BY <1>2, <1>3, <1>4, <1>5, <1>6 DEF CoreConfig, Shape

\* hwloc's logical numbers on a whole machine.
LEMMA WholeEntry ==
    ASSUME MachineOK, online = Processors, NEW p \in Processors
    PROVE  Entry(p) = InPlace(p)
<1> DEFINE S == machine.sockets
           C == machine.cores
<1>1. S \in Nat /\ C \in Nat
  BY ShapeType
<1>2. p[1] \in 0 .. S - 1 /\ p[2] \in 0 .. C - 1
  BY Digits
<1>3. Sockets = 0 .. S - 1 /\ Cores = (0 .. S - 1) \X (0 .. C - 1)
  BY WholeSets
<1>4. LogicalSocket(p) = p[1]
  <2>1. p[1] \in 0 .. S
    BY <1>1, <1>2
  <2>2. QED
    BY <1>1, <1>3, <2>1, Below DEF LogicalSocket
<1>5. LogicalCore(p) = p[1] * C + p[2]
  BY <1>1, <1>2, <1>3, GridBefore DEF LogicalCore
<1>6. QED
  BY <1>4, <1>5 DEF Entry, InPlace

LEMMA WholePu ==
    ASSUME MachineOK, online = Processors, NEW p \in Processors
    PROVE  LogicalPu(p) < NumDevs(Shape)
<1> DEFINE before == {q \in Processors : Order(q) < Order(p)}
<1>1. NumDevs(Shape) \in Nat
  BY ShapeType
<1>2. IsFiniteSet(Processors) /\ Cardinality(Processors) = NumDevs(Shape)
  BY ProcessorsCounted
<1>3. Order(p) \in Nat
  BY ShapeType, Digits DEF Order
<1>4. before \subseteq Processors /\ p \notin before
  BY <1>3
<1>5. /\ IsFiniteSet(before) /\ Cardinality(before) <= Cardinality(Processors)
      /\ Cardinality(before) # Cardinality(Processors)
  <2> HIDE DEF before
  <2> QED BY <1>2, <1>4, FS_Subset
<1>6. Cardinality(before) \in Nat
  BY <1>5, FS_CardinalityType
<1>7. QED
  BY <1>1, <1>2, <1>5, <1>6 DEF LogicalPu

-----------------------------------------------------------------------------
(* The storage functions.                                                  *)

\* A model that tells how long its memory was throttled also tells the energy
\* of its package, the register rapl_data_batch_size counts twice.
LEMMA ThrottledHaveEnergy ==
    ASSUME NEW m \in Models, DRAM_PERF_STATUS \in FlagsOf(m)
    PROVE  PKG_ENERGY_STATUS \in FlagsOf(m)
<1> DEFINE Masks == {\h407, \h20003, \h607, \hFE17, \h7FF, \h6007F7, \h1CEE17, \h1C01FF,
                     \h1CFE17, \h177, \h507FF, \h1EFE17}
<1>1. MF[m] \in Masks
  BY DEF Models, MF
<1>2. 2^7 = 128 /\ 2^2 = 4
  OBVIOUS
<1>3. \A x \in Masks : (x \div 128) % 2 = 1 => (x \div 4) % 2 = 1
  OBVIOUS
<1>4. \A x : /\ 7 \in Bits(x) => (x \div 128) % 2 = 1
             /\ (x \div 4) % 2 = 1 => 2 \in Bits(x)
  BY <1>2 DEF Bits, FlagBits
<1>5. QED
  BY <1>1, <1>3, <1>4 DEF FlagsOf, DRAM_PERF_STATUS, PKG_ENERGY_STATUS

LEMMA RaplDataFits ==
    ASSUME NEW m \in Models
    PROVE  /\ RaplDataStorage(m).scope = "socket"
           /\ RaplDataStorage(m).loaded \in Nat /\ RaplDataStorage(m).allocated \in Nat
           /\ RaplDataStorage(m).loaded <= RaplDataStorage(m).allocated
<1> DEFINE F == FlagsOf(m)
           X == F \cap {PKG_PERF_STATUS, PKG_ENERGY_STATUS, DRAM_ENERGY_STATUS}
           Y == F \cap {PKG_ENERGY_STATUS}
           L == RaplDataLoaded(F)
<1>1. IsFiniteSet(FlagBits)
  <2> DEFINE a == 0
             b == 22
  <2>1. a \in Int /\ b \in Int
    OBVIOUS
  <2>2. IsFiniteSet(a .. b)
    <3> HIDE DEF a, b
    <3> QED BY <2>1, FS_Interval
  <2>3. QED
    BY <2>2 DEF FlagBits
<1>2. F \subseteq FlagBits
  BY DEF FlagsOf, Bits
<1>3. IsFiniteSet(X) /\ IsFiniteSet(Y) /\ IsFiniteSet(L)
  BY <1>1, <1>2, FS_Subset DEF RaplDataLoaded
<1>4. Cardinality(X) \in Nat /\ Cardinality(Y) \in Nat /\ Cardinality(L) \in Nat
  BY <1>3, FS_CardinalityType
<1>5. Cardinality(L) <= Cardinality(X) + Cardinality(Y)
  <2>1. CASE DRAM_PERF_STATUS \notin F
    <3>1. L \subseteq X
      BY <2>1 DEF RaplDataLoaded
    <3>2. Cardinality(L) <= Cardinality(X)
      BY <1>3, <3>1, FS_Subset
    <3>3. QED
      BY <1>4, <3>2
  <2>2. CASE DRAM_PERF_STATUS \in F
    <3>1. Y = {PKG_ENERGY_STATUS}
      BY <2>2, ThrottledHaveEnergy
    <3>2. Cardinality(Y) = 1
      BY <3>1, FS_Singleton
    <3>3. L \subseteq X \cup {DRAM_PERF_STATUS}
      BY DEF RaplDataLoaded
    <3>4. /\ IsFiniteSet(X \cup {DRAM_PERF_STATUS})
          /\ \/ Cardinality(X \cup {DRAM_PERF_STATUS}) = Cardinality(X)
             \/ Cardinality(X \cup {DRAM_PERF_STATUS}) = Cardinality(X) + 1
      BY <1>3, FS_AddElement
    <3>5. Cardinality(L) <= Cardinality(X \cup {DRAM_PERF_STATUS})
      BY <3>3, <3>4, FS_Subset
    <3>6. QED
      BY <1>4, <3>2, <3>4, <3>5
  <2>3. QED
    BY <2>1, <2>2
<1>6. RaplDataBatchSize(F) = Cardinality(X) + Cardinality(Y)
  BY DEF RaplDataBatchSize
<1>7. QED
  <2> HIDE DEF X, Y, L
  <2>1. /\ RaplDataStorage(m).scope = "socket"
        /\ RaplDataStorage(m).loaded = Cardinality(L)
        /\ RaplDataStorage(m).allocated = Cardinality(X) + Cardinality(Y)
    BY <1>6 DEF RaplDataStorage, Client, L
  <2>2. QED
    BY <1>4, <1>5, <2>1

\* Every storage function allocates room for what it loads.
LEMMA ClientsHaveRoom ==
    ASSUME NEW c \in Clients
    PROVE  /\ c.scope \in {"socket", "core", "thread"}
           /\ c.loaded \in Nat /\ c.allocated \in Nat
           /\ c.loaded <= c.allocated
<1> DEFINE Good(d) == /\ d.scope \in {"socket", "core", "thread"}
                      /\ d.loaded \in Nat /\ d.allocated \in Nat
                      /\ d.loaded <= d.allocated
<1>1. \A n \in Avail : Good(PerfevtselStorage(n)) /\ Good(PmcStorage(n))
  BY AvailAssumption DEF PerfevtselStorage, PmcStorage, Client
<1>2. \A m \in Models : Good(RaplDataStorage(m))
  BY RaplDataFits
<1>3. /\ Good(ClocksStorage) /\ Good(PerfStatusStorage) /\ Good(PerfCtlStorage)
      /\ Good(UncPerfevtselStorage) /\ Good(UncCounterStorage) /\ Good(FixedCounterStorage)
  BY DEF ClocksStorage, PerfStatusStorage, PerfCtlStorage, UncPerfevtselStorage,
         UncCounterStorage, FixedCounterStorage, Client
<1>4. /\ Good(FixedCounterCtrlStorage) /\ Good(PkgCresStorage) /\ Good(CoreCresStorage)
      /\ Good(TempTargetStorage) /\ Good(ThermStatStorage) /\ Good(ThermInterruptStorage)
  BY DEF FixedCounterCtrlStorage, PkgCresStorage, CoreCresStorage, TempTargetStorage,
         ThermStatStorage, ThermInterruptStorage, Client
<1>5. /\ Good(PkgThermStatStorage) /\ Good(PkgThermInterruptStorage) /\ Good(RaplUnitStorage)
  BY DEF PkgThermStatStorage, PkgThermInterruptStorage, RaplUnitStorage, Client
<1> HIDE DEF Good
<1>6. Good(c)
  BY <1>1, <1>2, <1>3, <1>4, <1>5 DEF Clients
<1>7. QED
  BY <1>6 DEF Good

-----------------------------------------------------------------------------
(* The loaders.                                                            *)

\* A set of numbers that is not empty has a least one.
LEMMA LeastNumber ==
    ASSUME NEW Z, Z \subseteq Nat, Z # {}
    PROVE  Min(Z) \in Z
<1> DEFINE R == {p \in Nat \X Nat : p[1] < p[2]}
<1>1. IsWellFoundedOn(R, Nat)
  BY NatLessThanWellFounded DEF OpToRel
<1>2. PICK n \in Z : \A m \in Z : ~(<<m, n>> \in R)
  <2> HIDE DEF R
  <2> QED BY <1>1, WFMin
<1>3. \A m \in Z : ~(m < n)
  BY <1>2
<1>4. \A m \in Z : n <= m
  BY <1>3
<1>5. QED
  BY <1>4 DEF Min

LEMMA Smaller ==
    ASSUME NEW a \in Nat, NEW b \in Nat, a <= b
    PROVE  Min({a, b}) = a
BY DEF Min

\* When every unit has a device in the map, the loaders put one of each unit on
\* the batch, in the order of the units.
LEMMA LoadAll ==
    ASSUME NEW n \in Nat, NEW field, \A v \in 0 .. n - 1 : Matching(field, v) # {}
    PROVE  LoadByMap(field, n) =
             [i \in 1 .. n |-> [idx |-> i - 1, cpu |-> Min(Matching(field, i - 1))]]
<1> DEFINE found == {v \in 0 .. n - 1 : Matching(field, v) # {}}
           nth(i) == CHOOSE v \in found : Cardinality({w \in found : w < v}) = i - 1
<1>1. found = 0 .. n - 1
  OBVIOUS
<1>2. Cardinality(found) = n /\ \A v \in found : Cardinality({w \in found : w < v}) = v
  <2>1. \A v \in 0 .. n - 1 : v \in 0 .. n
    OBVIOUS
  <2>2. QED
    BY <1>1, <2>1, Below
<1>3. ASSUME NEW i \in 1 .. n
      PROVE  nth(i) = i - 1
  <2>1. i - 1 \in found
    BY <1>1
  <2> HIDE DEF found
  <2>2. \A v \in found : Cardinality({w \in found : w < v}) = i - 1 <=> v = i - 1
    BY <1>2
  <2>3. QED
    BY <2>1, <2>2
<1>4. LoadByMap(field, n) = [i \in 1 .. Cardinality(found) |->
                               [idx |-> nth(i), cpu |-> Min(Matching(field, nth(i)))]]
  BY DEF LoadByMap
<1>5. QED
  <2> HIDE DEF found, nth
  <2> QED BY <1>2, <1>3, <1>4

\* The devices of a whole machine: one for every unit, and of that unit.
\* Operation k of a batch of l registers, u operations each, on devices.
BatchOf(devices, l, u) ==
    [k \in 1 .. l * u |-> LET d == devices[1 + ((k - 1) % u)]
                          IN  [reg |-> (k - 1) \div u, idx |-> d.idx, cpu |-> d.cpu]]

\* One operation of batch o is about register r of the socket, core or thread i.
LeadsTo(o, scope, r, i) ==
    \E k \in DOMAIN o :
        /\ o[k].reg = r /\ o[k].idx = i
        /\ \E p \in Processors : Os(p) = o[k].cpu /\ Member(scope, p) = i
        /\ \A j \in DOMAIN o \ {k} : o[j].reg # r \/ o[j].idx # i

Reaches(devices, scope) ==
    /\ devices = [i \in 1 .. Units(scope, Shape) |-> devices[i]]
    /\ \A i \in 0 .. Units(scope, Shape) - 1 :
          /\ devices[i + 1].idx = i
          /\ \E p \in Processors : Os(p) = devices[i + 1].cpu /\ Member(scope, p) = i

LEMMA UnitsType ==
    ASSUME MachineOK, NEW scope \in {"socket", "core", "thread"}
    PROVE  Units(scope, Shape) \in Nat \ {0}
<1> DEFINE S == machine.sockets
           C == machine.cores
<1>1. S \in Nat \ {0} /\ C \in Nat \ {0} /\ NumDevs(Shape) \in Nat \ {0}
      /\ Shape.sockets = S /\ Shape.cores = C
  BY ShapeType
<1>2. S * C \in Nat \ {0}
  BY <1>1
<1>3. QED
  <2> HIDE DEF S, C
  <2> QED BY <1>1, <1>2 DEF Units

LEMMA MapReaches ==
    ASSUME MachineOK, MapRight, Whole, thread_map # << >>,
           NEW scope \in {"socket", "core"}, NEW v \in 0 .. Units(scope, Shape) - 1
    PROVE  /\ Matching(scope, v) # {}
           /\ \E p \in Processors : Os(p) = Min(Matching(scope, v)) /\ Member(scope, p) = v
<1> DEFINE S == machine.sockets
           C == machine.cores
           T == machine.threads
<1>1. /\ S \in Nat \ {0} /\ C \in Nat \ {0} /\ T \in Nat \ {0}
      /\ Shape.sockets = S /\ Shape.cores = C /\ NumDevs(Shape) \in Nat
  BY ShapeType
<1>2. /\ DOMAIN thread_map = 0 .. NumDevs(Shape) - 1
      /\ \A p \in Processors : thread_map[Os(p)] = InPlace(p)
  BY DEF MapRight
<1>3. \A p \in Processors : InPlace(p)[scope] = Member(scope, p)
  BY DEF InPlace, Member
<1>4. \E p \in Processors : Member(scope, p) = v
  <2>1. CASE scope = "socket"
    <3>1. v \in 0 .. S - 1
      BY <1>1, <2>1 DEF Units
    <3> DEFINE p == <<v, 0, 0>>
    <3>2. p \in Processors /\ p[1] = v
      BY <1>1, <3>1 DEF Processors
    <3> HIDE DEF p
    <3>3. QED
      BY <2>1, <3>2 DEF Member
  <2>2. CASE scope = "core"
    <3>1. v \in 0 .. S * C - 1
      BY <1>1, <2>2 DEF Units
    <3>2. PICK x \in 0 .. S - 1, y \in 0 .. C - 1 : v = x * C + y
      <4>1. \A k \in 0 .. S * C - 1 :
               \E x \in 0 .. S - 1, y \in 0 .. C - 1 : k = x * C + y
        <5> HIDE DEF S, C
        <5>1. S \in Nat \ {0} /\ C \in Nat \ {0}
          BY <1>1
        <5>2. QED
          BY <5>1, TwoDigitsAll
      <4>2. QED
        BY <3>1, <4>1
    <3> DEFINE p == <<x, y, 0>>
    <3>3. p \in Processors /\ p[1] = x /\ p[2] = y
      BY <1>1, <3>2 DEF Processors
    <3> HIDE DEF p
    <3>4. QED
      BY <2>2, <3>2, <3>3 DEF Member
  <2>3. QED
    BY <2>1, <2>2
<1>5. \A d \in DOMAIN thread_map : \E p \in Processors : Os(p) = d
  BY <1>2, OsNumbers
<1>6. \A p \in Processors : Os(p) \in DOMAIN thread_map
  BY <1>2, OsNumbers
<1>7. Matching(scope, v) # {}
  <2>1. PICK p \in Processors : Member(scope, p) = v
    BY <1>4
  <2>2. Os(p) \in Matching(scope, v)
    BY <1>2, <1>3, <1>6, <2>1 DEF Matching
  <2>3. QED
    BY <2>2
<1>8. Matching(scope, v) \subseteq Nat
  BY <1>1, <1>2 DEF Matching
<1>9. Min(Matching(scope, v)) \in Matching(scope, v)
  BY <1>7, <1>8, LeastNumber
<1>10. PICK p \in Processors : Os(p) = Min(Matching(scope, v))
  BY <1>5, <1>9 DEF Matching
<1>11. thread_map[Min(Matching(scope, v))][scope] = v
  BY <1>9 DEF Matching
<1>12. Member(scope, p) = v
  BY <1>2, <1>3, <1>10, <1>11
<1>13. QED
  BY <1>7, <1>10, <1>12

\* So does each of the three loaders; the one for threads does without the map.
LEMMA LoadersReach ==
    ASSUME MachineOK, MapRight, Whole, NEW scope \in {"socket", "core", "thread"},
           thread_map # << >> \/ scope = "thread"
    PROVE  Reaches(Devices(scope, Shape), scope)
<1> DEFINE n == Units(scope, Shape)
<1>1. n \in Nat \ {0}
  BY UnitsType
<1>2. CASE scope = "thread"
  <2>1. n = NumDevs(Shape)
    BY <1>2 DEF Units
  <2>2. Devices(scope, Shape) = [i \in 1 .. n |-> [idx |-> i - 1, cpu |-> i - 1]]
    BY <1>2, <2>1 DEF Devices, LoadThreadBatch
  <2>3. \A i \in 0 .. n - 1 : \E p \in Processors : Os(p) = i /\ Member(scope, p) = i
    BY <1>2, <2>1, OsNumbers DEF Member
  <2> HIDE DEF n
  <2>4. \A i \in 0 .. n - 1 : i + 1 \in 1 .. n /\ i + 1 - 1 = i
    BY <1>1
  <2>5. \A i \in 0 .. n - 1 : /\ Devices(scope, Shape)[i + 1].idx = i
                              /\ Devices(scope, Shape)[i + 1].cpu = i
    BY <2>2, <2>4
  <2>6. QED
    BY <2>2, <2>3, <2>5 DEF Reaches, n
<1>3. CASE scope \in {"socket", "core"}
  <2>1. \A v \in 0 .. n - 1 :
           /\ Matching(scope, v) # {}
           /\ \E p \in Processors : Os(p) = Min(Matching(scope, v)) /\ Member(scope, p) = v
    BY <1>3, MapReaches
  <2>2. Devices(scope, Shape) = LoadByMap(scope, n)
    BY <1>3 DEF Devices, Units, LoadSocketBatch, LoadCoreBatch
  <2>3. LoadByMap(scope, n) =
           [i \in 1 .. n |-> [idx |-> i - 1, cpu |-> Min(Matching(scope, i - 1))]]
    <3> HIDE DEF n
    <3> QED BY <1>1, <2>1, LoadAll
  <2> HIDE DEF n
  <2>4. \A i \in 0 .. n - 1 : i + 1 \in 1 .. n /\ i + 1 - 1 = i
    BY <1>1
  <2>5. \A i \in 0 .. n - 1 : /\ Devices(scope, Shape)[i + 1].idx = i
                              /\ Devices(scope, Shape)[i + 1].cpu = Min(Matching(scope, i))
    BY <2>2, <2>3, <2>4
  <2>6. Devices(scope, Shape) = [i \in 1 .. n |-> Devices(scope, Shape)[i]]
    BY <2>2, <2>3
  <2>7. QED
    BY <2>1, <2>5, <2>6 DEF Reaches, n
<1>4. QED
  BY <1>2, <1>3

\* Operation k of a batch of l registers, u operations each, is the one of
\* register r for the socket, core or thread i.
IsAt(k, l, u, r, i) == k \in 1 .. l * u /\ (k - 1) \div u = r /\ (k - 1) % u = i

LEMMA Position ==
    ASSUME NEW l \in Nat, NEW u \in Nat \ {0}, NEW r \in 0 .. l - 1, NEW i \in 0 .. u - 1,
           NEW k, k = r * u + i + 1
    PROVE  IsAt(k, l, u, r, i)
<1> DEFINE m == r * u + i
<1>1. m \in 0 .. l * u - 1
  BY TwoDigits
<1>2. m \div u = r /\ m % u = i
  OBVIOUS
<1>3. k = m + 1
  OBVIOUS
<1> HIDE DEF m
<1>4. k - 1 = m /\ k \in 1 .. l * u
  BY <1>1, <1>3
<1>5. QED
  BY <1>2, <1>4 DEF IsAt

LEMMA PositionBack ==
    ASSUME NEW u \in Nat \ {0}, NEW k \in Nat \ {0}
    PROVE  k = ((k - 1) \div u) * u + ((k - 1) % u) + 1
<1> DEFINE m == k - 1
<1>1. m \in Nat /\ k = m + 1
  OBVIOUS
<1>2. m = (m \div u) * u + (m % u)
  <2> HIDE DEF m
  <2> QED BY <1>1
<1>3. QED
  BY <1>1, <1>2

-----------------------------------------------------------------------------
(* The steps.                                                              *)

LEMMA SameMachine ==
    ASSUME UNCHANGED machine
    PROVE  /\ Processors' = Processors /\ Shape' = Shape
           /\ \A p : Os(p)' = Os(p) /\ InPlace(p)' = InPlace(p)
           /\ \A scope, p : Member(scope, p)' = Member(scope, p)
           /\ NumDevs(Shape)' = NumDevs(Shape)
           /\ Regular' = Regular
BY DEF Processors, Shape, Os, InPlace, Member, NumDevs, Regular

LEMMA SamePointers ==
    ASSUME UNCHANGED <<machine, online, counts, client, ops>>,
           Whole' => Whole, ~broken, PointersReachTheirUnit
    PROVE  PointersReachTheirUnit'
<1>1. /\ \A p : Os(p)' = Os(p)
      /\ \A scope, p : Member(scope, p)' = Member(scope, p)
  BY SameMachine
<1>2. Units(client.scope, counts)' = Units(client.scope, counts)
  BY DEF Units, NumDevs
<1>3. QED
  BY <1>1, <1>2 DEF PointersReachTheirUnit

LEMMA CountsAreCounts ==
    CoreConfig # << >>
BY DEF CoreConfig

\* core_config and find_cpu_top on a whole machine.
LEMMA FindWhole ==
    ASSUME IInv, Whole, FindCpuTop
    PROVE  /\ counts' = Shape /\ broken' = FALSE
           /\ DOMAIN thread_map' = 0 .. NumDevs(Shape) - 1
           /\ \A p \in Processors : thread_map'[Os(p)] = InPlace(p)
           /\ discontinuous' = (discontinuous \/ \E p \in Processors :
                                   Os(p) = 1 /\ InPlace(p).core # 1)
<1> DEFINE n == NumDevs(Shape)
           seen == {p \in online : LogicalPu(p) < n}
           At(d) == {p \in seen : Os(p) = d}
<1>1. MachineOK /\ online = Processors /\ n \in Nat
  BY ShapeType DEF IInv, Whole
<1>2. CoreConfig = Shape
  BY <1>1, WholeCounts DEF IInv, CountsRight, CoreConfig
<1>3. seen = Processors
  BY <1>1, WholePu
<1>4. \A p \in Processors : Entry(p) = InPlace(p) /\ Os(p) \in 0 .. n - 1
  BY <1>1, WholeEntry, OsNumbers
<1>5. /\ counts' = Shape
      /\ thread_map' = [d \in 0 .. n - 1 |-> IF At(d) = {} THEN NoEntry
                                             ELSE Entry(CHOOSE p \in At(d) : TRUE)]
      /\ discontinuous' = (discontinuous
            \/ \E p \in seen : Os(p) = 1 /\ Entry(p).core # 1)
      /\ broken' = (Cardinality(online) < n \/ \E p \in seen : Os(p) >= n)
  <2> DEFINE m == NumDevs(CoreConfig)
  <2>1. m = n
    BY <1>2
  <2>2. counts' = Shape
    BY <1>2 DEF FindCpuTop
  <2>3. thread_map' = [d \in 0 .. m - 1 |->
                         IF {p \in {p \in online : LogicalPu(p) < m} : Os(p) = d} = {}
                         THEN NoEntry
                         ELSE Entry(CHOOSE p \in {p \in {p \in online : LogicalPu(p) < m} :
                                                   Os(p) = d} : TRUE)]
    BY DEF FindCpuTop
  <2>4. discontinuous' = (discontinuous
           \/ \E p \in {p \in online : LogicalPu(p) < m} : Os(p) = 1 /\ Entry(p).core # 1)
    BY DEF FindCpuTop
  <2>5. broken' = (\/ Cardinality(online) < m
                   \/ \E p \in {p \in online : LogicalPu(p) < m} : Os(p) >= m)
    BY DEF FindCpuTop
  <2> HIDE DEF m, n
  <2>6. {p \in online : LogicalPu(p) < m} = seen
    BY <2>1
  <2>7. \A d : {p \in {p \in online : LogicalPu(p) < m} : Os(p) = d} = At(d)
    BY <2>6
  <2> HIDE DEF seen, At
  <2>8. thread_map' = [d \in 0 .. n - 1 |-> IF At(d) = {} THEN NoEntry
                                             ELSE Entry(CHOOSE p \in At(d) : TRUE)]
    BY <2>1, <2>3, <2>7
  <2>9. QED
    BY <2>1, <2>2, <2>4, <2>5, <2>6, <2>8
<1>6. broken' = FALSE
  <2>1. Cardinality(online) = n
    BY <1>1, ProcessorsCounted
  <2>2. \A p \in seen : ~(Os(p) >= n)
    <3> HIDE DEF n, seen
    <3> QED BY <1>1, <1>3, <1>4
  <2>3. ~(Cardinality(online) < n)
    BY <1>1, <2>1
  <2> HIDE DEF n, seen
  <2>4. QED
    BY <1>5, <2>2, <2>3
<1>7. ASSUME NEW p \in Processors
      PROVE  thread_map'[Os(p)] = InPlace(p)
  <2>1. At(Os(p)) = {p}
    BY <1>1, <1>3, OsNumbers
  <2>2. (CHOOSE q \in At(Os(p)) : TRUE) = p
    BY <2>1
  <2> HIDE DEF At, seen, n
  <2>3. thread_map'[Os(p)] = Entry(p)
    BY <1>4, <1>5, <2>1, <2>2
  <2>4. QED
    BY <1>4, <2>3
<1>8. discontinuous' = (discontinuous \/ \E p \in Processors :
                           Os(p) = 1 /\ InPlace(p).core # 1)
  <2> HIDE DEF seen
  <2> QED BY <1>3, <1>4, <1>5
<1>9. QED
  BY <1>5, <1>6, <1>7, <1>8

\* What processor 1 says about the numbering.
LEMMA GuessFromOne ==
    ASSUME MachineOK
    PROVE  LET tells == \E p \in Processors : Os(p) = 1 /\ InPlace(p).core # 1
           IN  /\ machine.numbering = "continuous" /\ tells
                     => machine.sockets = 1 /\ machine.cores = 1
               /\ machine.numbering = "discontinuous" /\ ~tells
                     => machine.sockets = 1 \/ machine.cores = 1
<1> DEFINE S == machine.sockets
           C == machine.cores
           T == machine.threads
<1>1. S \in Nat \ {0} /\ C \in Nat \ {0} /\ T \in Nat \ {0}
  BY ShapeType
<1>2. ASSUME machine.numbering = "continuous", NEW p \in Processors,
             Os(p) = 1, InPlace(p).core # 1
      PROVE  S = 1 /\ C = 1
  <2> DEFINE x == p[3]
             m == p[1] * C + p[2]
             B == S * C
  <2>1. x \in Nat /\ m \in 0 .. B - 1 /\ B \in Nat \ {0}
    <3>1. p[1] \in 0 .. S - 1 /\ p[2] \in 0 .. C - 1 /\ x \in Nat
      BY Digits
    <3>2. QED
      BY <1>1, <3>1, TwoDigits
  <2>2. m # 1
    BY <1>2 DEF InPlace
  <2>3. x * B + m = 1
    <3>1. Number(x, p[1], p[2], S, C) = 1
      BY <1>2, OsIs
    <3>2. p[1] \in Nat /\ p[2] \in Nat
      BY Digits
    <3>3. Number(x, p[1], p[2], S, C) = x * B + m
      <4> DEFINE a == p[1]
                 b == p[2]
      <4>1. a \in Nat /\ b \in Nat
        BY <3>2
      <4> HIDE DEF S, C, x, a, b
      <4>2. (x * S + a) * C + b = x * (S * C) + (a * C + b)
        BY <1>1, <2>1, <4>1
      <4>3. QED
        BY <4>2 DEF Number, a, b
    <3>4. QED
      BY <3>1, <3>3
  <2>4. B = 1
    <3> HIDE DEF x, m, B
    <3>1. x # 0
      BY <2>1, <2>2, <2>3
    <3>2. x * B >= B
      BY <2>1, <3>1
    <3>3. QED
      BY <2>1, <2>3, <3>2
  <2>5. QED
    <3> HIDE DEF S, C
    <3>1. S * C = 1
      BY <2>4
    <3>2. QED
      BY <1>1, <3>1
<1>3. ASSUME machine.numbering = "discontinuous", S # 1, C # 1
      PROVE  \E p \in Processors : Os(p) = 1 /\ InPlace(p).core # 1
  <2> DEFINE p == <<1, 0, 0>>
  <2>1. p \in Processors /\ p[1] = 1 /\ p[2] = 0 /\ p[3] = 0
    BY <1>1, <1>3 DEF Processors
  <2> HIDE DEF p
  <2>2. Os(p) = 1
    <3>1. Os(p) = Number(0, 0, 1, C, S)
      BY <1>3, <2>1, OsIs
    <3>2. (0 * C + 0) * S + 1 = 1
      BY <1>1
    <3>3. QED
      BY <3>1, <3>2 DEF Number
  <2>3. InPlace(p).core = C
    BY <1>1, <2>1 DEF InPlace
  <2>4. QED
    BY <1>3, <2>1, <2>2, <2>3
<1>4. QED
  BY <1>2, <1>3

LEMMA InitInv == ClientsInit => IInv
<1> SUFFICES ASSUME ClientsInit PROVE IInv
  OBVIOUS
<1>1. /\ machine \in [sockets : 1 .. MaxSockets, cores : 1 .. MaxCores,
                      threads : 1 .. MaxThreads, numbering : Numberings]
      /\ online \subseteq Processors /\ counts = << >> /\ thread_map = << >>
      /\ discontinuous = FALSE /\ access = NoAccess /\ broken = FALSE
      /\ client = NoClient
  BY DEF ClientsInit, Init
<1>2. MachineOK /\ NothingBefore /\ CountsRight /\ MapRight /\ GuessRight /\ AccessRight /\ Fits
  BY <1>1 DEF MachineOK, NothingBefore, CountsRight, MapRight, GuessRight, AccessRight, Fits
<1>3. PointersReachTheirUnit
  BY <1>1 DEF PointersReachTheirUnit
<1>4. QED
  BY <1>2, <1>3 DEF IInv

LEMMA InitMsrInv ==
    ASSUME IInv, InitMsr, UNCHANGED <<client, ops, early>>
    PROVE  IInv'
<1>1. /\ FindCpuTop /\ ~broken /\ access' = NoAccess
      /\ UNCHANGED <<machine, online, moved, client, ops, early>>
  BY DEF InitMsr, Ready
<1>2. /\ Processors' = Processors /\ Shape' = Shape /\ NumDevs(Shape)' = NumDevs(Shape)
      /\ \A p : Os(p)' = Os(p) /\ InPlace(p)' = InPlace(p)
  BY <1>1, SameMachine
<1>3. Whole' = Whole
  BY <1>1, <1>2 DEF Whole
<1>4. counts' = CoreConfig /\ counts' # << >> /\ (counts # << >> => counts' = counts)
  BY <1>1, CountsAreCounts DEF FindCpuTop, CoreConfig
<1>5. MachineOK'
  BY <1>1, <1>2 DEF IInv, MachineOK
<1>6. NothingBefore' /\ AccessRight'
  BY <1>1, <1>4 DEF NothingBefore, AccessRight
<1>7. CountsRight' /\ MapRight' /\ Fits'
  <2>1. CASE Whole
    BY <1>1, <1>2, <2>1, FindWhole DEF CountsRight, MapRight, Fits
  <2>2. CASE ~Whole
    BY <1>3, <2>2 DEF CountsRight, MapRight, Fits
  <2>3. QED
    BY <2>1, <2>2
<1>8. GuessRight'
  <2> SUFFICES ASSUME Whole
               PROVE  /\ machine.numbering = "continuous" /\ discontinuous'
                            => machine.sockets = 1 /\ machine.cores = 1
                      /\ machine.numbering = "discontinuous" /\ ~discontinuous'
                            => machine.sockets = 1 \/ machine.cores = 1
    BY <1>1, <1>3 DEF GuessRight
  <2> DEFINE tells == \E p \in Processors : Os(p) = 1 /\ InPlace(p).core # 1
  <2>1. discontinuous' = (discontinuous \/ tells)
    BY <1>1, FindWhole
  <2>2. /\ machine.numbering = "continuous" /\ tells
              => machine.sockets = 1 /\ machine.cores = 1
        /\ machine.numbering = "discontinuous" /\ ~tells
              => machine.sockets = 1 \/ machine.cores = 1
    BY GuessFromOne DEF IInv
  <2>3. discontinuous => counts # << >>
    BY DEF IInv, NothingBefore
  <2> HIDE DEF tells
  <2>4. QED
    BY <2>1, <2>2, <2>3 DEF IInv, GuessRight
<1>9. PointersReachTheirUnit'
  <2>1. CASE client = NoClient
    BY <1>1, <2>1 DEF PointersReachTheirUnit
  <2>2. CASE client # NoClient
    <3>1. counts' = counts
      BY <1>4, <2>2 DEF IInv, NothingBefore
    <3>2. QED
      BY <1>1, <1>3, <3>1, SamePointers DEF IInv
  <2>3. QED
    BY <2>1, <2>2
<1>10. QED
  BY <1>5, <1>6, <1>7, <1>8, <1>9 DEF IInv

LEMMA ByCoordInv ==
    ASSUME IInv, NEW a \in Coordinates, ByCoord(a), UNCHANGED <<client, ops, early>>
    PROVE  IInv'
<1>1. /\ counts # << >> /\ ~broken
      /\ UNCHANGED <<machine, online, counts, thread_map, discontinuous, broken, moved,
                     client, ops, early>>
  BY DEF ByCoord, Mapped, Ready
<1>2. /\ Processors' = Processors /\ Shape' = Shape /\ NumDevs(Shape)' = NumDevs(Shape)
      /\ \A p : Os(p)' = Os(p) /\ InPlace(p)' = InPlace(p)
  BY <1>1, SameMachine
<1>3. Whole' = Whole
  BY <1>1, <1>2 DEF Whole
<1>4. MachineOK' /\ NothingBefore' /\ CountsRight' /\ Fits'
  BY <1>1, <1>2, <1>3 DEF IInv, MachineOK, NothingBefore, CountsRight, Fits
<1>5. MapRight' /\ GuessRight'
  BY <1>1, <1>2, <1>3 DEF IInv, MapRight, GuessRight
<1>6. AccessRight'
  <2> DEFINE d == Devidx(a[1], a[2], a[3])
  <2>1. access'.asked = a /\ access'.reached = IF d < NumDevs(counts) THEN d ELSE None
    BY DEF ByCoord
  <2>2. Devidx(a[1], a[2], a[3])' = d /\ NumDevs(counts)' = NumDevs(counts)
    BY <1>1 DEF Devidx, NumDevs
  <2>3. QED
    BY <2>1, <2>2 DEF AccessRight
<1>7. PointersReachTheirUnit'
  BY <1>1, <1>3, SamePointers DEF IInv
<1>8. QED
  BY <1>4, <1>5, <1>6, <1>7 DEF IInv

\* A machine that changes after it was counted is not whole any more, also when
\* all its processors come back.
LEMMA HotplugInv ==
    ASSUME IInv, NEW p \in Processors, Hotplug(p), UNCHANGED <<client, ops, early>>
    PROVE  IInv'
<1>1. /\ ~broken /\ online' = (IF p \in online THEN online \ {p} ELSE online \cup {p})
      /\ moved' = (moved \/ counts # << >>) /\ access' = NoAccess
      /\ UNCHANGED <<machine, counts, thread_map, discontinuous, broken, client, ops, early>>
  BY DEF Hotplug, Ready
<1>2. Processors' = Processors
  BY <1>1, SameMachine
<1>3. MachineOK'
  BY <1>1, <1>2 DEF IInv, MachineOK
<1>4. NothingBefore'
  BY <1>1 DEF IInv, NothingBefore
<1>5. Whole' => counts = << >>
  BY <1>1 DEF Whole
<1>6. counts = << >> => thread_map = << >> /\ client = NoClient
  BY DEF IInv, NothingBefore
<1>7. CountsRight' /\ MapRight' /\ GuessRight' /\ AccessRight' /\ Fits'
  BY <1>1, <1>5, <1>6 DEF CountsRight, MapRight, GuessRight, AccessRight, Fits
<1>8. PointersReachTheirUnit'
  BY <1>1, <1>5, <1>6 DEF PointersReachTheirUnit
<1>9. QED
  BY <1>3, <1>4, <1>7, <1>8 DEF IInv

\* The batch of a storage function on a whole machine.
LEMMA StorageWhole ==
    ASSUME IInv, Whole, NEW c \in Clients, Storage(c)
    PROVE  /\ counts' = Shape
           /\ thread_map # << >> => ~broken'
           /\ ~broken' => (\/ c.loaded = 0
                           \/ \E devices :
                                 /\ Reaches(devices, c.scope)
                                 /\ ops' = BatchOf(devices, c.loaded,
                                                   Units(c.scope, Shape)))
<1> DEFINE u == Units(c.scope, Shape)
           devices == Devices(c.scope, Shape)
           total == c.loaded * Len(devices)
           room == c.allocated * u
<1>1. MachineOK /\ online = Processors /\ MapRight
  BY DEF IInv, Whole
<1>2. counts' = Shape
  BY <1>1, WholeCounts DEF IInv, CountsRight, CoreConfig, Storage
<1>3. /\ c.scope \in {"socket", "core", "thread"} /\ c.loaded \in Nat
      /\ c.allocated \in Nat /\ c.loaded <= c.allocated
  BY ClientsHaveRoom
<1>4. u \in Nat \ {0}
  BY <1>1, <1>3, UnitsType
<1>5. /\ broken' => total > room \/ thread_map = << >>
      /\ thread_map = << >> /\ c.scope # "thread" /\ c.loaded > 0 => broken'
      /\ ops' = [k \in 1 .. Min({total, room}) |->
                   LET d == devices[1 + ((k - 1) % Len(devices))]
                   IN  [reg |-> (k - 1) \div Len(devices), idx |-> d.idx, cpu |-> d.cpu]]
  <2>1. /\ broken' = (\/ total > room
                      \/ early' /\ c.scope # "thread" /\ c.loaded > 0)
        /\ early' = (thread_map = << >>)
    BY <1>2 DEF Storage
  <2> DEFINE A == total > room
             B == c.scope # "thread" /\ c.loaded > 0
             E == thread_map = << >>
  <2>2. broken' = (A \/ (early' /\ B)) /\ early' = E
    BY <2>1
  <2>3. (broken' => A \/ E) /\ (E /\ B => broken')
    <3> HIDE DEF A, B, E
    <3> QED BY <2>2
  <2>4. ops' = [k \in 1 .. Min({total, room}) |->
                  LET d == devices[1 + ((k - 1) % Len(devices))]
                  IN  [reg |-> (k - 1) \div Len(devices), idx |-> d.idx, cpu |-> d.cpu]]
    BY <1>2 DEF Storage
  <2>5. QED
    BY <2>3, <2>4
<1>6. ASSUME thread_map # << >> \/ c.scope = "thread"
      PROVE  Reaches(devices, c.scope) /\ total = c.loaded * u /\ total <= room
  <2>1. Reaches(devices, c.scope)
    BY <1>1, <1>3, <1>6, LoadersReach
  <2>2. Len(devices) = u
    <3> HIDE DEF devices
    <3>1. devices = [i \in 1 .. u |-> devices[i]]
      BY <2>1 DEF Reaches
    <3>2. DOMAIN devices = 1 .. u
      BY <3>1
    <3> HIDE DEF u
    <3>3. devices \in Seq({devices[i] : i \in 1 .. u})
      BY <1>4, <3>1
    <3>4. QED
      BY <1>4, <3>2, <3>3
  <2>3. c.loaded * u <= c.allocated * u
    <3> HIDE DEF u
    <3> QED BY <1>3, <1>4
  <2>4. QED
    BY <2>1, <2>2, <2>3
<1>7. thread_map # << >> => ~broken'
  <2> SUFFICES ASSUME thread_map # << >> PROVE ~broken'
    OBVIOUS
  <2>1. total = c.loaded * u /\ total <= room
    BY <1>6
  <2>2. total \in Nat /\ room \in Nat
    <3> HIDE DEF u
    <3> QED BY <1>3, <1>4, <2>1
  <2> HIDE DEF total, room, devices, u
  <2>3. QED
    BY <1>5, <2>1, <2>2
<1>8. ASSUME ~broken', c.loaded # 0
      PROVE  /\ Reaches(devices, c.scope)
             /\ ops' = BatchOf(devices, c.loaded, u)
  <2>1. thread_map # << >> \/ c.scope = "thread"
    BY <1>3, <1>5, <1>8
  <2>2. Reaches(devices, c.scope) /\ total = c.loaded * u /\ total <= room
    BY <1>6, <2>1
  <2>3. Len(devices) = u
    <3> DEFINE w == Len(devices)
    <3>1. devices = [i \in 1 .. u |-> devices[i]]
      BY <2>2 DEF Reaches
    <3> HIDE DEF u, devices
    <3>2. devices \in Seq({devices[i] : i \in 1 .. u}) /\ DOMAIN devices = 1 .. u
      BY <1>4, <3>1
    <3>3. QED
      BY <1>4, <3>2
  <2>4. Min({total, room}) = c.loaded * u
    <3> HIDE DEF u, devices
    <3>1. total \in Nat /\ room \in Nat
      BY <1>3, <1>4, <2>2
    <3> HIDE DEF total, room
    <3>2. QED
      BY <2>2, <3>1, Smaller
  <2> HIDE DEF total, room, devices, u
  <2>5. QED
    BY <1>5, <2>2, <2>3, <2>4 DEF BatchOf
<1>9. QED
  BY <1>2, <1>7, <1>8

\* Such a batch has one pointer for every register and unit, and it is right.
LEMMA BatchReaches ==
    ASSUME NEW scope, NEW l \in Nat, NEW u \in Nat \ {0}, u = Units(scope, Shape),
           NEW devices, Reaches(devices, scope), NEW o, o = BatchOf(devices, l, u),
           NEW r \in 0 .. l - 1, NEW i \in 0 .. u - 1
    PROVE  LeadsTo(o, scope, r, i)
<1> DEFINE k == r * u + i + 1
<1>1. k \in 1 .. l * u /\ (k - 1) \div u = r /\ (k - 1) % u = i
  <2>1. k = r * u + i + 1
    OBVIOUS
  <2> HIDE DEF k
  <2>2. IsAt(k, l, u, r, i)
    BY <2>1, Position
  <2>3. QED
    BY <2>2 DEF IsAt
<1>2. DOMAIN o = 1 .. l * u
  BY DEF BatchOf
<1>3. \A j \in 1 .. l * u : (j - 1) % u \in 0 .. u - 1
  <2> SUFFICES ASSUME NEW j \in 1 .. l * u PROVE (j - 1) % u \in 0 .. u - 1
    OBVIOUS
  <2>1. j - 1 \in Nat
    OBVIOUS
  <2>2. QED
    BY <2>1
<1>4. \A x \in 0 .. u - 1 :
         /\ devices[1 + x].idx = x
         /\ \E p \in Processors : Os(p) = devices[1 + x].cpu /\ Member(scope, p) = x
  <2> SUFFICES ASSUME NEW x \in 0 .. u - 1
               PROVE  /\ devices[1 + x].idx = x
                      /\ \E p \in Processors : /\ Os(p) = devices[1 + x].cpu
                                               /\ Member(scope, p) = x
    OBVIOUS
  <2>1. 1 + x = x + 1
    OBVIOUS
  <2>2. QED
    BY <2>1 DEF Reaches
<1>5. ASSUME NEW j \in 1 .. l * u
      PROVE  /\ o[j].reg = (j - 1) \div u
             /\ o[j].idx = (j - 1) % u
             /\ o[j].cpu = devices[1 + ((j - 1) % u)].cpu
  <2> DEFINE x == (j - 1) % u
             y == (j - 1) \div u
  <2>1. devices[1 + x].idx = x
    BY <1>3, <1>4
  <2>2. o[j] = [reg |-> y, idx |-> devices[1 + x].idx, cpu |-> devices[1 + x].cpu]
    BY DEF BatchOf
  <2> HIDE DEF x, y
  <2>3. o[j].reg = y /\ o[j].idx = x /\ o[j].cpu = devices[1 + x].cpu
    BY <2>1, <2>2
  <2>4. QED
    BY <2>3 DEF x, y
<1>6. o[k].reg = r /\ o[k].idx = i /\ o[k].cpu = devices[1 + i].cpu
  <2> HIDE DEF k
  <2> QED BY <1>1, <1>5
<1>7. ASSUME NEW j \in 1 .. l * u, o[j].reg = r, o[j].idx = i
      PROVE  j = k
  <2>1. (j - 1) \div u = r /\ (j - 1) % u = i
    BY <1>5, <1>7
  <2>2. j = ((j - 1) \div u) * u + ((j - 1) % u) + 1
    <3>1. j \in Nat \ {0}
      OBVIOUS
    <3>2. QED
      BY <3>1, PositionBack
  <2>3. QED
    BY <2>1, <2>2
<1>8. \E p \in Processors : Os(p) = o[k].cpu /\ Member(scope, p) = i
  <2> HIDE DEF k
  <2> QED BY <1>4, <1>6
<1>9. QED
  <2> HIDE DEF k
  <2>1. k \in DOMAIN o
    BY <1>1, <1>2
  <2>2. \A j \in DOMAIN o \ {k} : o[j].reg # r \/ o[j].idx # i
    BY <1>2, <1>7
  <2>3. QED
    BY <1>6, <1>8, <2>1, <2>2 DEF LeadsTo

LEMMA StorageInv ==
    ASSUME IInv, NEW c \in Clients, Storage(c)
    PROVE  IInv'
<1>1. /\ ~broken /\ client = NoClient /\ client' = c /\ counts' = CoreConfig
      /\ access' = NoAccess
      /\ UNCHANGED <<machine, online, thread_map, discontinuous, moved>>
  BY DEF Storage, Ready
<1>2. /\ Processors' = Processors /\ Shape' = Shape /\ NumDevs(Shape)' = NumDevs(Shape)
      /\ \A p : Os(p)' = Os(p) /\ InPlace(p)' = InPlace(p)
      /\ \A scope, p : Member(scope, p)' = Member(scope, p)
  BY <1>1, SameMachine
<1>3. Whole' = Whole
  BY <1>1, <1>2 DEF Whole
<1>4. counts' # << >>
  BY <1>1, CountsAreCounts
<1>5. MachineOK' /\ NothingBefore' /\ MapRight' /\ AccessRight'
  BY <1>1, <1>2, <1>3, <1>4 DEF IInv, MachineOK, NothingBefore, MapRight, AccessRight
<1>6. GuessRight'
  BY <1>1, <1>3 DEF IInv, GuessRight, NothingBefore
<1>7. CountsRight' /\ Fits'
  <2>1. CASE Whole
    <3>1. counts' = Shape /\ (thread_map # << >> => ~broken')
      BY <2>1, StorageWhole
    <3>2. ~early' => thread_map # << >>
      BY DEF Storage
    <3>3. QED
      BY <1>2, <3>1, <3>2 DEF CountsRight, Fits
  <2>2. CASE ~Whole
    BY <1>3, <2>2 DEF CountsRight, Fits
  <2>3. QED
    BY <2>1, <2>2
<1>8. PointersReachTheirUnit'
  <2> DEFINE u == Units(c.scope, Shape)
  <2> SUFFICES ASSUME Whole, ~broken',
                      NEW r \in 0 .. c.loaded - 1, NEW i \in 0 .. Units(c.scope, counts)' - 1
               PROVE  \E k \in DOMAIN ops' :
                         /\ ops'[k].reg = r /\ ops'[k].idx = i
                         /\ \E p \in online : /\ Os(p)' = ops'[k].cpu
                                              /\ Member(c.scope, p)' = i
                         /\ \A j \in DOMAIN ops' \ {k} : ops'[j].reg # r \/ ops'[j].idx # i
    BY <1>1, <1>3 DEF PointersReachTheirUnit
  <2>1. MachineOK /\ online = Processors
    BY DEF IInv, Whole
  <2>2. c.scope \in {"socket", "core", "thread"} /\ c.loaded \in Nat /\ c.loaded # 0
    BY ClientsHaveRoom
  <2>3. u \in Nat \ {0}
    BY <2>1, <2>2, UnitsType
  <2>4. counts' = Shape
    BY StorageWhole
  <2>5. Units(c.scope, counts)' = u
    BY <2>4 DEF Units, NumDevs
  <2>6. PICK devices :
           /\ Reaches(devices, c.scope)
           /\ ops' = BatchOf(devices, c.loaded, u)
    BY <2>2, StorageWhole
  <2>7. LeadsTo(ops', c.scope, r, i)
    <3>1. r \in 0 .. c.loaded - 1 /\ i \in 0 .. u - 1
      BY <2>5
    <3> DEFINE o == ops'
               l == c.loaded
               scope == c.scope
    <3>2. l \in Nat /\ o = BatchOf(devices, l, u) /\ Reaches(devices, scope)
      BY <2>2, <2>6
    <3>3. u = Units(scope, Shape)
      OBVIOUS
    <3> HIDE DEF o, l, u
    <3>4. r \in 0 .. l - 1
      BY <3>1 DEF l
    <3> HIDE DEF scope
    <3>5. LeadsTo(o, scope, r, i)
      BY <2>3, <3>1, <3>2, <3>3, <3>4, BatchReaches
    <3>6. QED
      BY <3>5 DEF o, scope
  <2>8. QED
    BY <1>2, <2>1, <2>7 DEF LeadsTo
<1>9. QED
  BY <1>5, <1>6, <1>7, <1>8 DEF IInv

LEMMA NextInv ==
    ASSUME IInv, [ClientsNext]_allvars
    PROVE  IInv'
<1>1. CASE UNCHANGED allvars
  <2>1. /\ UNCHANGED <<machine, online, counts, thread_map, discontinuous, access, broken,
                       moved, client, ops, early>>
    BY <1>1 DEF allvars, vars
  <2>2. /\ Processors' = Processors /\ Shape' = Shape /\ NumDevs(Shape)' = NumDevs(Shape)
        /\ \A p : Os(p)' = Os(p) /\ InPlace(p)' = InPlace(p)
    BY <2>1, SameMachine
  <2>3. Whole' = Whole
    BY <2>1, <2>2 DEF Whole
  <2>4. MachineOK' /\ NothingBefore' /\ CountsRight' /\ Fits'
    BY <2>1, <2>2, <2>3 DEF IInv, MachineOK, NothingBefore, CountsRight, Fits
  <2>5. MapRight' /\ GuessRight'
    BY <2>1, <2>2, <2>3 DEF IInv, MapRight, GuessRight
  <2>6. AccessRight'
    <3>1. \A s, c, t : Devidx(s, c, t)' = Devidx(s, c, t)
      BY <2>1 DEF Devidx
    <3>2. NumDevs(counts)' = NumDevs(counts)
      BY <2>1 DEF NumDevs
    <3>3. QED
      BY <2>1, <3>1, <3>2 DEF IInv, AccessRight
  <2>7. PointersReachTheirUnit'
    <3>1. \A scope, p : Member(scope, p)' = Member(scope, p)
      BY <2>1, SameMachine
    <3>2. Units(client.scope, counts)' = Units(client.scope, counts)
      BY <2>1 DEF Units, NumDevs
    <3>3. QED
      BY <2>1, <2>2, <2>3, <3>1, <3>2 DEF IInv, PointersReachTheirUnit
  <2>8. QED
    BY <2>4, <2>5, <2>6, <2>7 DEF IInv
<1>2. CASE Next /\ UNCHANGED <<client, ops, early>>
  <2>1. CASE InitMsr
    BY <1>2, <2>1, InitMsrInv
  <2>2. ASSUME NEW a \in Coordinates, ByCoord(a)
        PROVE  IInv'
    BY <1>2, <2>2, ByCoordInv
  <2>3. ASSUME NEW p \in Processors, Hotplug(p)
        PROVE  IInv'
    BY <1>2, <2>3, HotplugInv
  <2>4. QED
    BY <1>2, <2>1, <2>2, <2>3 DEF Next
<1>3. ASSUME NEW c \in Clients, Storage(c)
      PROVE  IInv'
  BY <1>3, StorageInv
<1>4. QED
  BY <1>1, <1>2, <1>3 DEF ClientsNext

-----------------------------------------------------------------------------
(* The theorems.                                                           *)

\* Every state of the topology and of its clients satisfies the inductive
\* invariant.
THEOREM Invariance == ClientsSpec => []IInv
<1>1. ClientsInit => IInv
  BY InitInv
<1>2. IInv /\ [ClientsNext]_allvars => IInv'
  BY NextInv
<1>3. QED
  BY <1>1, <1>2, PTL DEF ClientsSpec

\* On a whole machine with one of the two numberings devidx leads from the
\* coordinates of a processor to that processor, although find_cpu_top looks at
\* processor 1 only.
THEOREM CoordinatesLead == ClientsSpec => []CoordReachesIt
<1>1. IInv => CoordReachesIt
  <2> DEFINE a == access.asked
             S == machine.sockets
             C == machine.cores
             T == machine.threads
             n == NumDevs(Shape)
  <2> SUFFICES ASSUME IInv, Whole, Regular, thread_map # << >>, access # NoAccess,
                      a \in Processors
               PROVE  access.reached = Os(a)
    BY DEF CoordReachesIt, Exists
  <2>1. /\ MachineOK /\ counts = Shape
        /\ S \in Nat \ {0} /\ C \in Nat \ {0} /\ T \in Nat \ {0}
        /\ Shape.sockets = S /\ Shape.cores = C
        /\ machine.numbering \in {"continuous", "discontinuous", "siblings"}
    BY ShapeType DEF IInv, NothingBefore, CountsRight
  <2>2. a[1] \in 0 .. S - 1 /\ a[2] \in 0 .. C - 1 /\ a[3] \in 0 .. T - 1
    BY Digits
  <2>3. Devidx(a[1], a[2], a[3]) =
           IF discontinuous THEN a[3] * S * C + a[2] * S + a[1]
                            ELSE a[3] * S * C + a[1] * C + a[2]
    BY <2>1 DEF Devidx
  <2>4. Devidx(a[1], a[2], a[3]) = Os(a)
    <3> DEFINE x == a[1]
               y == a[2]
               z == a[3]
    <3>1. x \in 0 .. S - 1 /\ y \in 0 .. C - 1 /\ z \in Nat
      BY <2>2
    <3>2. CASE machine.numbering = "continuous"
      <4>1. Os(a) = z * S * C + x * C + y
        BY <3>2 DEF Os
      <4>2. discontinuous => S = 1 /\ C = 1
        BY <3>2 DEF IInv, GuessRight, NothingBefore
      <4> HIDE DEF S, C, x, y, z
      <4>3. CASE ~discontinuous
        BY <2>3, <4>1, <4>3 DEF x, y, z
      <4>4. CASE discontinuous
        <5>1. S = 1 /\ C = 1 /\ x = 0 /\ y = 0
          BY <3>1, <4>2, <4>4
        <5>2. z * S * C + y * S + x = z * S * C + x * C + y
          BY <3>1, <5>1
        <5>3. QED
          BY <2>3, <4>1, <4>4, <5>2 DEF x, y, z
      <4>5. QED
        BY <4>3, <4>4
    <3>3. CASE machine.numbering = "discontinuous"
      <4>1. Os(a) = z * S * C + y * S + x
        BY <3>3 DEF Os
      <4>2. ~discontinuous => S = 1 \/ C = 1
        BY <3>3 DEF IInv, GuessRight, NothingBefore
      <4> HIDE DEF S, C, x, y, z
      <4>3. CASE discontinuous
        BY <2>3, <4>1, <4>3 DEF x, y, z
      <4>4. CASE ~discontinuous
        <5>1. y * S + x = x * C + y
          <6>1. CASE S = 1
            BY <2>1, <3>1, <6>1
          <6>2. CASE C = 1
            BY <2>1, <3>1, <6>2
          <6>3. QED
            BY <4>2, <4>4, <6>1, <6>2
        <5>2. z * S * C + y * S + x = z * S * C + x * C + y
          BY <2>1, <3>1, <5>1
        <5>3. QED
          BY <2>3, <4>1, <4>4, <5>2 DEF x, y, z
      <4>5. QED
        BY <4>3, <4>4
    <3>4. QED
      BY <2>1, <3>2, <3>3 DEF Regular
  <2>5. Os(a) < n
    <3>1. Os(a) \in 0 .. n - 1 /\ n \in Nat
      BY <2>1, OsNumbers, ShapeType
    <3> HIDE DEF n
    <3>2. QED
      BY <3>1
  <2>6. QED
    BY <2>1, <2>4, <2>5 DEF IInv, AccessRight
<1>2. QED
  BY <1>1, Invariance, PTL

\* The map of a whole machine names every processor's own socket, and one core
\* for those that share one, with any numbering (find_cpu_top).
THEOREM MapTellsTheTruth == ClientsSpec => []MapIsTrue
<1>1. IInv => MapIsTrue
  <2> SUFFICES ASSUME IInv, Whole, thread_map # << >>, NEW p \in Processors,
                      NEW q \in Processors
               PROVE  /\ thread_map[Os(p)].socket = p[1]
                      /\ thread_map[Os(p)].core = thread_map[Os(q)].core
                            <=> <<p[1], p[2]>> = <<q[1], q[2]>>
    BY DEF MapIsTrue, Whole
  <2> DEFINE C == machine.cores
  <2>1. MachineOK /\ C \in Nat \ {0} /\ machine.sockets \in Nat
    BY ShapeType DEF IInv
  <2>2. \A x \in Processors : /\ thread_map[Os(x)].socket = x[1]
                              /\ thread_map[Os(x)].core = x[1] * C + x[2]
    <3>1. \A x \in Processors : thread_map[Os(x)] = InPlace(x)
      BY DEF IInv, MapRight
    <3>2. \A x : InPlace(x).socket = x[1] /\ InPlace(x).core = x[1] * C + x[2]
      BY DEF InPlace
    <3>3. QED
      BY <3>1, <3>2
  <2>3. p[1] \in Nat /\ q[1] \in Nat /\ p[2] \in 0 .. C - 1 /\ q[2] \in 0 .. C - 1
    BY <2>1, Digits
  <2>4. p[1] * C + p[2] = q[1] * C + q[2] => p[1] = q[1] /\ p[2] = q[2]
    <3> DEFINE a == p[1]
               b == p[2]
               c == q[1]
               d == q[2]
    <3>1. C \in Nat /\ a \in Nat /\ c \in Nat /\ b \in 0 .. C - 1 /\ d \in 0 .. C - 1
      BY <2>1, <2>3
    <3> HIDE DEF C, a, b, c, d
    <3>2. ASSUME a * C + b = c * C + d PROVE a = c /\ b = d
      BY <3>1, <3>2, TwoDigitsUnique
    <3>3. QED
      BY <3>2 DEF a, b, c, d
  <2>5. QED
    BY <2>2, <2>4
<1>2. QED
  BY <1>1, Invariance, PTL

\* On every model of the table no storage function puts more operations on its
\* batch than it allocated, and no loader goes astray, when init_msr came first
\* and the machine is whole.
THEOREM BatchesHaveRoom == ClientsSpec => []ClientsFit
<1>1. IInv => ClientsFit
  BY AllOnline DEF IInv, Fits, Whole, ClientsFit
<1>2. QED
  BY <1>1, Invariance, PTL

\* After a storage function every pointer of every register is set, once, and
\* leads to a processor of its own socket, core or thread (load_socket_batch,
\* load_core_batch, load_thread_batch).
THEOREM PointersLead == ClientsSpec => []PointersReachTheirUnit
<1>1. IInv => PointersReachTheirUnit
  BY DEF IInv
<1>2. QED
  BY <1>1, Invariance, PTL

-----------------------------------------------------------------------------
(* Types, on any machine with any processor offline.                       *)

\* A quotient of two counts.
LEMMA Quotient ==
    ASSUME NEW s \in Nat \ {0}, NEW k \in Nat, NEW c \in s .. s * k
    PROVE  c \div s \in 1 .. k
<1> DEFINE q == c \div s   r == c % s
<1>1. q \in Nat /\ r \in 0 .. s - 1 /\ c = s * q + r
  OBVIOUS
<1> HIDE DEF q, r
<1>2. c \in Nat /\ s * k \in Nat /\ s <= c /\ c <= s * k
  OBVIOUS
<1>3. q # 0
  BY <1>1, <1>2
<1>4. ASSUME q > k PROVE FALSE
  <2>1. s * q >= s * (k + 1)
    BY <1>1, <1>4
  <2>2. s * (k + 1) = s * k + s
    OBVIOUS
  <2>3. QED
    BY <1>1, <1>2, <2>1, <2>2
<1>5. q \in 1 .. k
  BY <1>1, <1>3, <1>4
<1>6. QED
  BY <1>5 DEF q

\* The machine that hwloc shows has at least one processor of one core of one
\* socket, and no more than there are.
LEMMA OnlineCounts ==
    ASSUME MachineOK, online # {}
    PROVE  /\ IsFiniteSet(Sockets) /\ IsFiniteSet(Cores) /\ IsFiniteSet(online)
           /\ Cardinality(Sockets) \in 1 .. machine.sockets
           /\ Cardinality(Cores)
                \in Cardinality(Sockets) .. Cardinality(Sockets) * machine.cores
           /\ Cardinality(online)
                \in Cardinality(Cores) .. Cardinality(Cores) * machine.threads
<1> DEFINE S == machine.sockets   C == machine.cores   T == machine.threads
<1>1. S \in Nat \ {0} /\ C \in Nat \ {0} /\ T \in Nat \ {0}
  BY TopologyAssumption DEF MachineOK
<1>2. /\ IsFiniteSet(0 .. S - 1) /\ Cardinality(0 .. S - 1) = S
      /\ IsFiniteSet(0 .. C - 1) /\ Cardinality(0 .. C - 1) = C
      /\ IsFiniteSet(0 .. T - 1) /\ Cardinality(0 .. T - 1) = T
  BY <1>1, Below
<1>3. IsFiniteSet(online)
  BY ProcessorsCounted, FS_Subset DEF MachineOK
<1>4. \A p \in online : /\ p[1] \in 0 .. S - 1 /\ p[2] \in 0 .. C - 1
                        /\ p[3] \in 0 .. T - 1 /\ p = <<p[1], p[2], p[3]>>
  BY DEF MachineOK, Processors
<1>5. IsFiniteSet(Cores) /\ Cardinality(Cores) <= Cardinality(online)
  <2> DEFINE f == [p \in online |-> <<p[1], p[2]>>]
  <2>1. f \in Surjection(online, Cores)
    BY DEF Surjection, Cores
  <2>2. QED
    BY <2>1, <1>3, FS_Surjection
<1>6. IsFiniteSet(Sockets) /\ Cardinality(Sockets) <= Cardinality(Cores)
  <2> DEFINE f == [c \in Cores |-> c[1]]
  <2>1. f \in Surjection(Cores, Sockets)
    <3>1. \A c \in Cores : c[1] \in Sockets
      BY DEF Cores, Sockets
    <3>2. \A s \in Sockets : \E c \in Cores : c[1] = s
      <4> SUFFICES ASSUME NEW s \in Sockets PROVE \E c \in Cores : c[1] = s
        OBVIOUS
      <4>1. PICK p \in online : s = p[1]
        BY DEF Sockets
      <4>2. <<p[1], p[2]>> \in Cores /\ <<p[1], p[2]>>[1] = s
        BY <4>1 DEF Cores
      <4>3. QED
        BY <4>2
    <3>3. QED
      BY <3>1, <3>2 DEF Surjection
  <2>2. QED
    BY <2>1, <1>5, FS_Surjection
<1>7. Sockets # {} /\ Sockets \in SUBSET (0 .. S - 1)
  BY <1>4 DEF Sockets
<1>8. Cardinality(Sockets) \in 1 .. S
  <2>1. Cardinality(Sockets) <= S
    BY <1>2, <1>7, FS_Subset
  <2>2. Cardinality(Sockets) # 0
    BY <1>6, <1>7, FS_EmptySet
  <2>3. Cardinality(Sockets) \in Nat
    BY <1>6, FS_CardinalityType
  <2>4. QED
    BY <1>1, <2>1, <2>2, <2>3
<1>9. Cardinality(Cores) <= Cardinality(Sockets) * C
  <2>1. Cores \in SUBSET (Sockets \X (0 .. C - 1))
    BY <1>4 DEF Cores, Sockets
  <2>2. /\ IsFiniteSet(Sockets \X (0 .. C - 1))
        /\ Cardinality(Sockets \X (0 .. C - 1)) = Cardinality(Sockets) * C
    BY <1>2, <1>6, FS_Product
  <2>3. QED
    BY <2>1, <2>2, FS_Subset
<1>10. Cardinality(online) <= Cardinality(Cores) * T
  <2> DEFINE f == [p \in online |-> << <<p[1], p[2]>>, p[3]>>]
             G == Cores \X (0 .. T - 1)
  <2>1. IsFiniteSet(G) /\ Cardinality(G) = Cardinality(Cores) * T
    BY <1>2, <1>5, FS_Product
  <2>2. f \in [online -> G]
    BY <1>4 DEF Cores
  <2>3. \A p, q \in online : f[p] = f[q] => p = q
    BY <1>4
  <2> HIDE DEF f, G
  <2>4. f \in Injection(online, G)
    BY <2>2, <2>3 DEF Injection, IsInjective
  <2>5. QED
    BY <2>1, <2>4, FS_Injection
<1>11. /\ Cardinality(Sockets) \in Nat /\ Cardinality(Cores) \in Nat
       /\ Cardinality(online) \in Nat
  BY <1>3, <1>5, <1>6, FS_CardinalityType
<1>12. QED
  BY <1>1, <1>3, <1>5, <1>6, <1>8, <1>9, <1>10, <1>11

\* What core_config counts is never zero and never more than there is, so
\* nothing is divided by zero.
CountsType == [sockets : 1 .. MaxSockets, cores : 1 .. MaxCores, threads : 1 .. MaxThreads]

LEMMA CoreConfigType ==
    ASSUME MachineOK, online # {}, counts = << >> \/ counts \in CountsType
    PROVE  CoreConfig \in CountsType
<1> DEFINE s == Cardinality(Sockets)   c == Cardinality(Cores)   n == Cardinality(online)
<1>1. /\ machine.sockets \in 1 .. MaxSockets /\ machine.cores \in 1 .. MaxCores
      /\ machine.threads \in 1 .. MaxThreads
      /\ MaxSockets \in Nat /\ MaxCores \in Nat /\ MaxThreads \in Nat
  BY TopologyAssumption DEF MachineOK
<1>2. /\ s \in 1 .. machine.sockets /\ c \in s .. s * machine.cores
      /\ n \in c .. c * machine.threads
  BY OnlineCounts
<1> HIDE DEF s, c, n
<1>3. s \in Nat \ {0} /\ c \in Nat \ {0}
  BY <1>1, <1>2
<1>4. c \div s \in 1 .. machine.cores /\ n \div c \in 1 .. machine.threads
  <2>1. machine.cores \in Nat /\ machine.threads \in Nat
    BY <1>1
  <2>2. c \div s \in 1 .. machine.cores
    BY <1>2, <1>3, <2>1, Quotient
  <2>3. n \div c \in 1 .. machine.threads
    BY <1>2, <1>3, <2>1, Quotient
  <2>4. QED
    BY <2>2, <2>3
<1>5. [sockets |-> s, cores |-> c \div s, threads |-> n \div c] \in CountsType
  BY <1>1, <1>2, <1>4 DEF CountsType
<1>6. QED
  BY <1>5 DEF CoreConfig, s, c, n

\* An entry of the map names a socket and a core there may be.
LEMMA EntryType ==
    ASSUME MachineOK, NEW p \in online
    PROVE  Entry(p) \in [core : 0 .. MaxSockets * MaxCores - 1, socket : 0 .. MaxSockets - 1]
<1> DEFINE s == Cardinality(Sockets)   c == Cardinality(Cores)
<1>1. /\ machine.sockets \in 1 .. MaxSockets /\ machine.cores \in 1 .. MaxCores
      /\ MaxSockets \in Nat /\ MaxCores \in Nat
      /\ machine.sockets \in Nat /\ machine.cores \in Nat
  BY TopologyAssumption DEF MachineOK
<1>2. /\ IsFiniteSet(Sockets) /\ IsFiniteSet(Cores)
      /\ s \in 1 .. machine.sockets /\ c \in s .. s * machine.cores
  BY OnlineCounts
<1>3. p[1] \in Sockets /\ <<p[1], p[2]>> \in Cores
  BY DEF Sockets, Cores
<1>4. LogicalSocket(p) \in 0 .. MaxSockets - 1
  <2> DEFINE B == {t \in Sockets : t < p[1]}
  <2>1. p[1] \in Nat
    BY DEF MachineOK, Processors
  <2>2. B \in SUBSET (Sockets \ {p[1]})
    BY <2>1
  <2>3. IsFiniteSet(Sockets \ {p[1]}) /\ Cardinality(Sockets \ {p[1]}) = s - 1
    BY <1>2, <1>3, FS_RemoveElement
  <2>4. Cardinality(B) \in Nat /\ Cardinality(B) <= s - 1
    BY <2>2, <2>3, FS_Subset, FS_CardinalityType
  <2> HIDE DEF B, s
  <2>5. Cardinality(B) \in 0 .. MaxSockets - 1
    BY <1>1, <1>2, <2>4
  <2>6. QED
    BY <2>5 DEF LogicalSocket, B
<1>5. LogicalCore(p) \in 0 .. MaxSockets * MaxCores - 1
  <2> DEFINE B == {d \in Cores : d[1] < p[1] \/ (d[1] = p[1] /\ d[2] < p[2])}
             r == <<p[1], p[2]>>
  <2>1. p[1] \in Nat /\ p[2] \in Nat
    BY DEF MachineOK, Processors
  <2>2. B \in SUBSET (Cores \ {r})
    BY <2>1
  <2>3. IsFiniteSet(Cores \ {r}) /\ Cardinality(Cores \ {r}) = c - 1
    BY <1>2, <1>3, FS_RemoveElement
  <2>4. Cardinality(B) \in Nat /\ Cardinality(B) <= c - 1
    BY <2>2, <2>3, FS_Subset, FS_CardinalityType
  <2> HIDE DEF B, s, c
  <2>5. s * machine.cores <= MaxSockets * MaxCores
    <3>1. s * machine.cores <= MaxSockets * machine.cores
      BY <1>1, <1>2
    <3>2. MaxSockets * machine.cores <= MaxSockets * MaxCores
      BY <1>1
    <3>3. QED
      BY <1>1, <1>2, <3>1, <3>2
  <2>6. Cardinality(B) \in 0 .. MaxSockets * MaxCores - 1
    BY <1>1, <1>2, <2>4, <2>5
  <2>7. QED
    BY <2>6 DEF LogicalCore, B
<1>6. QED
  BY <1>4, <1>5 DEF Entry
TypesKept == TypeOK /\ online # {}

LEMMA InitTypes == ASSUME ClientsInit PROVE TypesKept
<1>1. online \subseteq Processors /\ online # {}
  BY DEF ClientsInit, Init
<1>2. access.accepted = TRUE /\ access.reached = None
  BY DEF ClientsInit, Init, NoAccess
<1>3. thread_map = << >> /\ DOMAIN thread_map = {}
  BY DEF ClientsInit, Init
<1>4. counts = << >> /\ {discontinuous, broken, moved} \subseteq BOOLEAN
  BY DEF ClientsInit, Init
<1>5. machine \in [sockets : 1 .. MaxSockets, cores : 1 .. MaxCores,
                   threads : 1 .. MaxThreads, numbering : Numberings]
  BY DEF ClientsInit, Init
<1>6. QED
  BY <1>1, <1>2, <1>3, <1>4, <1>5 DEF TypesKept, TypeOK

LEMMA InitMsrTypes ==
    ASSUME MachineOK, TypesKept, InitMsr
    PROVE  TypesKept'
<1> USE DEF TypesKept
<1>1. UNCHANGED <<machine, online, moved>> /\ access' = NoAccess
  BY DEF InitMsr
<1>2. Processors' = Processors
  BY <1>1 DEF Processors
<1>3. counts' \in CountsType
  BY CoreConfigType DEF InitMsr, FindCpuTop, TypeOK, CountsType
<1>4. ASSUME NEW d \in DOMAIN thread_map'
      PROVE  \/ thread_map'[d] = NoEntry
             \/ thread_map'[d] \in [core : 0 .. MaxSockets * MaxCores - 1,
                                   socket : 0 .. MaxSockets - 1]
  <2> DEFINE n == NumDevs(CoreConfig)
             seen == {p \in online : LogicalPu(p) < n}
             At(e) == {p \in seen : Os(p) = e}
  <2>1. thread_map' = [e \in 0 .. n - 1 |-> IF At(e) = {} THEN NoEntry
                                           ELSE Entry(CHOOSE p \in At(e) : TRUE)]
    BY DEF InitMsr, FindCpuTop
  <2>2. At(d) # {} => (CHOOSE p \in At(d) : TRUE) \in online
    OBVIOUS
  <2> HIDE DEF At, n
  <2>3. QED
    BY <1>4, <2>1, <2>2, EntryType
<1>5. {discontinuous', broken'} \subseteq BOOLEAN
  BY DEF InitMsr, FindCpuTop, TypeOK
<1>6. access'.accepted = TRUE /\ access'.reached = None
  BY <1>1 DEF NoAccess
<1>7. QED
  BY <1>1, <1>2, <1>3, <1>4, <1>5, <1>6 DEF TypeOK, CountsType

LEMMA ByCoordTypes ==
    ASSUME TypesKept, NEW a \in Coordinates, ByCoord(a)
    PROVE  TypesKept'
<1> USE DEF TypesKept
<1> DEFINE d == Devidx(a[1], a[2], a[3])
<1>1. /\ access' = [asked |-> a, accepted |-> Accepts(a),
                    reached |-> IF d < NumDevs(counts) THEN d ELSE None]
      /\ UNCHANGED <<machine, online, counts, thread_map, discontinuous, broken, moved>>
      /\ counts # << >>
  BY DEF ByCoord, Mapped
<1>2. Processors' = Processors
  BY <1>1 DEF Processors
<1>3. d \in Nat
  <2>1. counts.sockets \in Nat /\ counts.cores \in Nat
    BY <1>1, TopologyAssumption DEF TypeOK
  <2>2. a[1] \in Nat /\ a[2] \in Nat /\ a[3] \in Nat
    BY TopologyAssumption DEF Coordinates
  <2>3. /\ a[3] * counts.sockets * counts.cores \in Nat
        /\ a[2] * counts.sockets \in Nat /\ a[1] * counts.cores \in Nat
    BY <2>1, <2>2
  <2>4. QED
    BY <2>2, <2>3 DEF Devidx
<1>4. access'.accepted \in BOOLEAN /\ access'.reached \in Nat \cup {None}
  BY <1>1, <1>3 DEF Accepts
<1>5. QED
  BY <1>1, <1>2, <1>4 DEF TypeOK

LEMMA HotplugTypes ==
    ASSUME TypesKept, NEW p \in Processors, Hotplug(p)
    PROVE  TypesKept'
<1> USE DEF TypesKept
<1>1. /\ UNCHANGED <<machine, counts, thread_map, discontinuous, broken>>
      /\ access' = NoAccess /\ moved' \in BOOLEAN /\ online' # {}
      /\ online' \subseteq Processors
  BY DEF Hotplug, TypeOK
<1>2. Processors' = Processors
  BY <1>1 DEF Processors
<1>3. access'.accepted = TRUE /\ access'.reached = None
  BY <1>1 DEF NoAccess
<1>4. QED
  BY <1>1, <1>2, <1>3 DEF TypeOK

LEMMA StorageTypes ==
    ASSUME MachineOK, TypesKept, NEW c \in Clients, Storage(c)
    PROVE  TypesKept'
<1> USE DEF TypesKept
<1>1. /\ UNCHANGED <<machine, online, thread_map, discontinuous, moved>>
      /\ access' = NoAccess /\ counts' = CoreConfig /\ broken' \in BOOLEAN
  BY DEF Storage
<1>2. Processors' = Processors
  BY <1>1 DEF Processors
<1>3. counts' \in CountsType
  BY <1>1, CoreConfigType DEF TypeOK, CountsType
<1>4. access'.accepted = TRUE /\ access'.reached = None
  BY <1>1 DEF NoAccess
<1>5. QED
  BY <1>1, <1>2, <1>3, <1>4 DEF TypeOK, CountsType

\* The topology keeps its types on a machine of any shape whose processors come
\* and go: the counts are never zero, so core_config divides by none, and the map
\* names only sockets and cores there may be.
THEOREM TypeCorrect == ClientsSpec => []TypeOK
<1>1. ClientsInit => TypesKept
  BY InitTypes
<1>2. ASSUME IInv, TypesKept, [ClientsNext]_allvars PROVE TypesKept'
  <2>1. CASE UNCHANGED allvars
    <3>1. UNCHANGED <<machine, online, counts, thread_map, discontinuous, access,
                      broken, moved>>
      BY <2>1 DEF allvars, vars
    <3>2. Processors' = Processors
      BY <3>1 DEF Processors
    <3>3. QED
      BY <1>2, <3>1, <3>2 DEF TypesKept, TypeOK
  <2>2. CASE InitMsr
    BY <1>2, <2>2, InitMsrTypes DEF IInv
  <2>3. ASSUME NEW a \in Coordinates, ByCoord(a) PROVE TypesKept'
    BY <1>2, <2>3, ByCoordTypes
  <2>4. ASSUME NEW p \in Processors, Hotplug(p) PROVE TypesKept'
    BY <1>2, <2>4, HotplugTypes
  <2>5. ASSUME NEW c \in Clients, Storage(c) PROVE TypesKept'
    BY <1>2, <2>5, StorageTypes DEF IInv
  <2>6. QED
    BY <1>2, <2>1, <2>2, <2>3, <2>4, <2>5 DEF ClientsNext, Next
<1>3. TypesKept => TypeOK
  BY DEF TypesKept
<1>4. QED
  BY <1>1, <1>2, <1>3, Invariance, PTL DEF ClientsSpec
=============================================================================
