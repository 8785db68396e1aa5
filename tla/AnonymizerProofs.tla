-------------------------- MODULE AnonymizerProofs --------------------------
(***************************************************************************)
(* Theorems about Anonymizer, for any gateways, any settings and any       *)
(* inputs of any length.                                                   *)
(*                                                                         *)
(* The induction theorems of the library take a predicate as a parameter.  *)
(* Here induction is over sets: NatHasLeast, from the well-foundedness of  *)
(* the naturals, gives a set of exceptions a least member, and Iteration   *)
(* makes of that the function that a recursive definition asks for.        *)
(*                                                                         *)
(* The parts: the loop of Geohash; what normalization, trimming and        *)
(* delimiters do to texts; what the vendor holds; and the properties.      *)
(***************************************************************************)
EXTENDS Anonymizer, FiniteSetTheorems, SequenceTheorems, WellFoundedInduction, TLAPS

-----------------------------------------------------------------------------
(* Natural numbers *)

Less == {pair \in Nat \X Nat : pair[1] < pair[2]}

LEMMA LessIsWellFounded == IsWellFoundedOn(Less, Nat)
<1>1. Less = OpToRel(<, Nat)
  BY DEF Less, OpToRel
<1>. QED
  BY <1>1, NatLessThanWellFounded, Zenon

LEMMA NatHasLeast ==
    ASSUME NEW T \in SUBSET Nat, T # {}
    PROVE  \E x \in T : \A y \in T : x <= y
<1>1. PICK x \in T : \A y \in T : <<y, x>> \notin Less
  BY LessIsWellFounded, WFMin
<1>2. ASSUME NEW y \in T, y < x PROVE FALSE
  <2>1. <<y, x>> \in Nat \X Nat /\ <<y, x>>[1] = y /\ <<y, x>>[2] = x
    OBVIOUS
  <2>. QED
    BY <1>1, <1>2, <2>1 DEF Less
<1>3. \A y \in T : ~(y < x) => x <= y
  OBVIOUS
<1>. QED
  BY <1>2, <1>3

LEMMA NatBySteps ==
    ASSUME NEW S, 0 \in S, \A n \in Nat : n \in S => n + 1 \in S
    PROVE  \A n \in Nat : n \in S
<1>. SUFFICES ASSUME Nat \ S # {} PROVE FALSE
  OBVIOUS
<1>1. PICK x \in Nat \ S : \A y \in Nat \ S : x <= y
  BY NatHasLeast
<1>2. x - 1 \in Nat /\ x - 1 < x /\ (x - 1) + 1 = x
  BY <1>1
<1>3. x - 1 \in S
  BY <1>1, <1>2
<1>. QED
  BY <1>2, <1>3

\* The functions that begin with a and go on with step, up to n.
Begun(S, a, step, n) ==
    {f \in [0 .. n -> S] : f[0] = a /\ \A k \in 0 .. n - 1 : f[k + 1] = step[f[k]]}

\* A value can be iterated for ever.
LEMMA Iteration ==
    ASSUME NEW S, NEW a \in S, NEW step \in [S -> S]
    PROVE  \E f \in [Nat -> S] : f[0] = a /\ \A n \in Nat : f[n + 1] = step[f[n]]
<1>. DEFINE B(n) == Begun(S, a, step, n)
            Agree == {k \in Nat : \A n, m \in Nat : k <= n /\ k <= m =>
                                     \A f \in B(n), g \in B(m) : f[k] = g[k]}
            Some == {n \in Nat : B(n) # {}}
            Best(n) == CHOOSE f \in B(n) : TRUE
            F == [n \in Nat |-> Best(n)[n]]
<1>1. \A n \in Nat : n \in Agree
  <2>1. 0 \in Agree
    BY DEF Begun
  <2>2. ASSUME NEW k \in Nat, k \in Agree PROVE k + 1 \in Agree
    <3>1. ASSUME NEW n \in Nat, NEW m \in Nat, k + 1 <= n, k + 1 <= m, NEW f \in B(n), NEW g \in B(m)
          PROVE  f[k + 1] = g[k + 1]
      <4>1. k \in 0 .. n - 1 /\ k \in 0 .. m - 1 /\ k <= n /\ k <= m
        BY <3>1
      <4>2. f[k] = g[k]
        BY <2>2, <4>1
      <4>. QED
        BY <4>1, <4>2 DEF Begun
    <3>. QED
      BY <3>1
  <2>. QED
    <3>. HIDE DEF Agree
    <3>. QED
      BY <2>1, <2>2, NatBySteps
<1>2. \A n \in Nat : n \in Some
  <2>1. 0 \in Some
    <3>1. [k \in 0 .. 0 |-> a] \in B(0)
      BY DEF Begun
    <3>. QED
      BY <3>1
  <2>2. ASSUME NEW n \in Nat, n \in Some PROVE n + 1 \in Some
    <3>1. PICK f \in B(n) : TRUE
      BY <2>2
    <3>2. [k \in 0 .. n + 1 |-> IF k <= n THEN f[k] ELSE step[f[n]]] \in B(n + 1)
      BY <3>1 DEF Begun
    <3>. QED
      BY <3>2
  <2>. QED
    <3>. HIDE DEF Some
    <3>. QED
      BY <2>1, <2>2, NatBySteps
<1>3. \A n \in Nat : Best(n) \in B(n)
  BY <1>2
<1>. HIDE DEF Best
<1>4. ASSUME NEW n \in Nat PROVE F[n] \in S /\ (n = 0 => F[n] = a)
  BY <1>3 DEF Begun
<1>5. ASSUME NEW n \in Nat PROVE F[n + 1] = step[F[n]]
  <2>1. Best(n) \in B(n) /\ Best(n + 1) \in B(n + 1) /\ n <= n + 1 /\ n \in 0 .. (n + 1) - 1
    BY <1>3
  <2>2. Best(n)[n] = Best(n + 1)[n]
    BY <1>1, <2>1
  <2>3. Best(n + 1)[n + 1] = step[Best(n + 1)[n]]
    BY <2>1 DEF Begun
  <2>. QED
    BY <2>2, <2>3
<1>. QED
  BY <1>4, <1>5

\* The recursive definition of TwoTo defines a function.
LEMMA TwoToUnfolds == TwoTo = [n \in Nat |-> IF n = 0 THEN 1 ELSE 2 * TwoTo[n - 1]]
<1>. DEFINE S == Nat \ {0}
<1>1. PICK f \in [Nat -> S] : f[0] = 1 /\ \A n \in Nat : f[n + 1] = 2 * f[n]
  <2>1. PICK a \in S : a = 1
    OBVIOUS
  <2>2. PICK step \in [S -> S] : \A p \in S : step[p] = 2 * p
    <3>1. [p \in S |-> 2 * p] \in [S -> S]
      OBVIOUS
    <3>. QED
      BY <3>1
  <2>3. PICK f \in [Nat -> S] : f[0] = a /\ \A n \in Nat : f[n + 1] = step[f[n]]
    <3>. HIDE DEF S
    <3>. QED
      BY Iteration
  <2>. QED
    BY <2>1, <2>2, <2>3
<1>2. ASSUME NEW n \in Nat PROVE f[n] = IF n = 0 THEN 1 ELSE 2 * f[n - 1]
  <2>1. CASE n = 0
    BY <1>1, <2>1
  <2>2. CASE n # 0
    <3>1. n - 1 \in Nat /\ (n - 1) + 1 = n
      BY <2>2
    <3>2. f[(n - 1) + 1] = 2 * f[n - 1]
      BY <1>1, <3>1
    <3>. QED
      BY <2>2, <3>1, <3>2
  <2>. QED
    BY <2>1, <2>2
<1>3. f = [n \in Nat |-> IF n = 0 THEN 1 ELSE 2 * f[n - 1]]
  BY <1>1, <1>2
<1>. QED
  BY <1>3, Zenon DEF TwoTo

LEMMA TwoToDoubles ==
    /\ TwoTo[0] = 1
    /\ \A n \in Nat : TwoTo[n + 1] = 2 * TwoTo[n]
    /\ \A n \in Nat : TwoTo[n] \in Nat \ {0}
<1>1. TwoTo[0] = 1
  BY TwoToUnfolds
<1>2. ASSUME NEW n \in Nat PROVE TwoTo[n + 1] = 2 * TwoTo[n]
  <2>1. n + 1 \in Nat /\ n + 1 # 0 /\ (n + 1) - 1 = n
    OBVIOUS
  <2>2. TwoTo[n + 1] = 2 * TwoTo[(n + 1) - 1]
    BY <2>1, TwoToUnfolds
  <2>. QED
    BY <2>1, <2>2
<1>3. \A n \in Nat : TwoTo[n] \in Nat \ {0}
  <2>. DEFINE S == {n \in Nat : TwoTo[n] \in Nat \ {0}}
  <2>1. 0 \in S
    BY <1>1
  <2>2. \A n \in Nat : n \in S => n + 1 \in S
    <3>. SUFFICES ASSUME NEW n \in Nat, TwoTo[n] \in Nat \ {0} PROVE TwoTo[n + 1] \in Nat \ {0}
      OBVIOUS
    <3>. QED
      BY <1>2
  <2>3. \A n \in Nat : n \in S
    <3>. HIDE DEF S
    <3>. QED
      BY <2>1, <2>2, NatBySteps
  <2>. QED
    BY <2>3
<1>. QED
  BY <1>1, <1>2, <1>3

-----------------------------------------------------------------------------
(* The geohash *)

CutRecords == [from : Int, to : Int, bits : Seq({0, 1})]

LEMMA HalfIsCut ==
    ASSUME NEW x \in Int, NEW cut \in CutRecords
    PROVE  Half(x, cut) \in CutRecords
<1>1. cut.from \in Int /\ cut.to \in Int /\ cut.bits \in Seq({0, 1})
  BY DEF CutRecords
<1>2. (cut.from + cut.to) \div 2 \in Int
  BY <1>1
<1>3. Append(cut.bits, 1) \in Seq({0, 1}) /\ Append(cut.bits, 0) \in Seq({0, 1})
  BY <1>1, AppendProperties
<1>. QED
  BY <1>1, <1>2, <1>3 DEF Half, CutRecords

\* The recursive definition of Cuts defines a function.
LEMMA CutsUnfold ==
    ASSUME NEW x \in Int, NEW size \in Int
    PROVE  Cuts(x, size) =
               [k \in Nat |-> IF k = 0 THEN [from |-> 0, to |-> size, bits |-> <<>>]
                              ELSE Half(x, Cuts(x, size)[k - 1])]
<1>. DEFINE whole == [from |-> 0, to |-> size, bits |-> <<>>]
<1>1. PICK f \in [Nat -> CutRecords] : f[0] = whole /\ \A n \in Nat : f[n + 1] = Half(x, f[n])
  <2>1. whole \in CutRecords
    BY DEF CutRecords
  <2>2. PICK step \in [CutRecords -> CutRecords] : \A cut \in CutRecords : step[cut] = Half(x, cut)
    <3>1. [cut \in CutRecords |-> Half(x, cut)] \in [CutRecords -> CutRecords]
      BY HalfIsCut
    <3>. QED
      BY <3>1
  <2>3. PICK f \in [Nat -> CutRecords] : f[0] = whole /\ \A n \in Nat : f[n + 1] = step[f[n]]
    <3>. HIDE DEF whole
    <3>. QED
      BY <2>1, Iteration
  <2>. QED
    BY <2>2, <2>3
<1>. HIDE DEF whole
<1>2. ASSUME NEW n \in Nat PROVE f[n] = IF n = 0 THEN whole ELSE Half(x, f[n - 1])
  <2>1. CASE n = 0
    BY <1>1, <2>1
  <2>2. CASE n # 0
    <3>1. n - 1 \in Nat /\ (n - 1) + 1 = n
      BY <2>2
    <3>2. f[(n - 1) + 1] = Half(x, f[n - 1])
      BY <1>1, <3>1
    <3>. QED
      BY <2>2, <3>1, <3>2
  <2>. QED
    BY <2>1, <2>2
<1>3. f = [k \in Nat |-> IF k = 0 THEN whole ELSE Half(x, f[k - 1])]
  BY <1>1, <1>2
<1>. QED
  BY <1>3, Zenon DEF Cuts, whole

LEMMA CutsStep ==
    ASSUME NEW x \in Int, NEW size \in Int
    PROVE  /\ Cuts(x, size)[0] = [from |-> 0, to |-> size, bits |-> <<>>]
           /\ \A k \in Nat : Cuts(x, size)[k + 1] = Half(x, Cuts(x, size)[k])
           /\ \A k \in Nat : Cuts(x, size)[k] \in CutRecords
<1>1. Cuts(x, size)[0] = [from |-> 0, to |-> size, bits |-> <<>>]
  BY CutsUnfold
<1>2. ASSUME NEW k \in Nat PROVE Cuts(x, size)[k + 1] = Half(x, Cuts(x, size)[k])
  <2>1. k + 1 \in Nat /\ k + 1 # 0 /\ (k + 1) - 1 = k
    OBVIOUS
  <2>2. Cuts(x, size)[k + 1] = Half(x, Cuts(x, size)[(k + 1) - 1])
    BY <2>1, CutsUnfold
  <2>. QED
    BY <2>1, <2>2
<1>3. \A k \in Nat : Cuts(x, size)[k] \in CutRecords
  <2>. DEFINE S == {k \in Nat : Cuts(x, size)[k] \in CutRecords}
  <2>1. 0 \in S
    <3>1. [from |-> 0, to |-> size, bits |-> <<>>] \in CutRecords
      BY DEF CutRecords
    <3>. QED
      BY <1>1, <3>1
  <2>2. ASSUME NEW k \in Nat, k \in S PROVE k + 1 \in S
    <3>1. Cuts(x, size)[k] \in CutRecords /\ k + 1 \in Nat
      BY <2>2
    <3>. QED
      BY <1>2, <3>1, HalfIsCut
  <2>. HIDE DEF S
  <2>3. \A k \in Nat : k \in S
    BY <2>1, <2>2, NatBySteps
  <2>. QED
    BY <2>3 DEF S
<1>. QED
  BY <1>1, <1>2, <1>3

\* After k turns on a map of TwoTo[B + 1] half cells: the interval has the width
\* that is left, begins on the edge of a cell, and holds x.
Located(B, x, k) ==
    LET size == TwoTo[B + 1]
        cut  == Cuts(x, size)[k]
    IN  /\ cut \in CutRecords
        /\ cut.to = cut.from + TwoTo[B + 1 - k]
        /\ \E m \in Nat : cut.from = 2 * m
        /\ cut.to <= size
        /\ cut.from <= x /\ (x < cut.to \/ (x = size /\ cut.to = size))

\* As long as turns are left, the middle is the edge of a cell, and inside.
LEMMA MiddleIsEdge ==
    ASSUME NEW B \in Nat, NEW x \in 0 .. TwoTo[B + 1], NEW k \in 0 .. B - 1, Located(B, x, k)
    PROVE  LET cut == Cuts(x, TwoTo[B + 1])[k]
               mid == (cut.from + cut.to) \div 2
           IN  /\ mid = cut.from + TwoTo[B + 1 - (k + 1)] /\ cut.to = mid + TwoTo[B + 1 - (k + 1)]
               /\ \E m \in Nat : mid = 2 * m /\ m < TwoTo[B]
<1>. DEFINE cut == Cuts(x, TwoTo[B + 1])[k]
<1>1. PICK m \in Nat : cut.from = 2 * m
  BY DEF Located
<1>2. PICK w \in Nat \ {0} : w = TwoTo[B - 1 - k] /\ TwoTo[B + 1 - (k + 1)] = 2 * w
                          /\ TwoTo[B + 1 - k] = 4 * w
  <2>1. B - 1 - k \in Nat /\ B - k \in Nat /\ B - k = (B - 1 - k) + 1
        /\ B + 1 - (k + 1) = B - k /\ B + 1 - k = (B - k) + 1
    OBVIOUS
  <2>2. TwoTo[B - k] = 2 * TwoTo[B - 1 - k] /\ TwoTo[B + 1 - k] = 2 * TwoTo[B - k]
        /\ TwoTo[B - 1 - k] \in Nat \ {0}
    BY <2>1, TwoToDoubles
  <2>. QED
    BY <2>1, <2>2
<1>3. cut.to = 2 * m + 4 * w /\ cut.to <= TwoTo[B + 1] /\ TwoTo[B + 1] = 2 * TwoTo[B]
      /\ TwoTo[B] \in Nat
  BY <1>1, <1>2, TwoToDoubles DEF Located
<1>4. (cut.from + cut.to) \div 2 = 2 * (m + w) /\ m + w < TwoTo[B] /\ m + w \in Nat
  BY <1>1, <1>2, <1>3
<1>5. (cut.from + cut.to) \div 2 = cut.from + TwoTo[B + 1 - (k + 1)]
  BY <1>1, <1>2, <1>4
<1>6. cut.to = (cut.from + cut.to) \div 2 + TwoTo[B + 1 - (k + 1)]
  BY <1>2, <1>3, <1>4
<1>7. \E n \in Nat : (cut.from + cut.to) \div 2 = 2 * n /\ n < TwoTo[B]
  BY <1>4
<1>. QED
  BY <1>5, <1>6, <1>7

LEMMA CutsLocate ==
    ASSUME NEW B \in Nat, NEW x \in 0 .. TwoTo[B + 1]
    PROVE  \A k \in 0 .. B : Located(B, x, k)
<1>. DEFINE size == TwoTo[B + 1]
            S == {k \in Nat : k <= B => Located(B, x, k)}
<1>1. x \in Int /\ x <= size /\ size \in Nat
  BY TwoToDoubles
<1>0. /\ Cuts(x, size)[0] = [from |-> 0, to |-> size, bits |-> <<>>]
      /\ \A k \in Nat : Cuts(x, size)[k + 1] = Half(x, Cuts(x, size)[k])
      /\ \A k \in Nat : Cuts(x, size)[k] \in CutRecords
  <2>. HIDE DEF size
  <2>. QED
    BY <1>1, CutsStep
<1>2. 0 \in S
  <2>1. Cuts(x, size)[0] = [from |-> 0, to |-> size, bits |-> <<>>] /\ Cuts(x, size)[0] \in CutRecords
    BY <1>0
  <2>2. B + 1 - 0 = B + 1
    OBVIOUS
  <2>. QED
    BY <1>1, <2>1, <2>2 DEF Located
<1>3. ASSUME NEW k \in Nat, k \in S PROVE k + 1 \in S
  <2>. SUFFICES ASSUME k + 1 <= B PROVE Located(B, x, k + 1)
    OBVIOUS
  <2>. DEFINE cut == Cuts(x, size)[k]
              mid == (cut.from + cut.to) \div 2
              w == TwoTo[B + 1 - (k + 1)]
  <2>1. Located(B, x, k) /\ k \in 0 .. B - 1
    BY <1>3
  <2>2. Cuts(x, size)[k + 1] = Half(x, cut) /\ Cuts(x, size)[k + 1] \in CutRecords
        /\ cut \in CutRecords
    <3>1. k + 1 \in Nat
      OBVIOUS
    <3>. QED
      BY <1>0, <3>1
  <2>3. mid = cut.from + w /\ cut.to = mid + w /\ \E m \in Nat : mid = 2 * m
    BY <2>1, MiddleIsEdge
  <2>4. w \in Nat \ {0}
    <3>1. B + 1 - (k + 1) \in Nat
      OBVIOUS
    <3>. QED
      BY <3>1, TwoToDoubles
  <2>5. CASE x >= mid
    <3>1. Cuts(x, size)[k + 1].from = mid /\ Cuts(x, size)[k + 1].to = cut.to
      BY <2>2, <2>5 DEF Half
    <3>. QED
      BY <2>1, <2>2, <2>3, <2>5, <3>1 DEF Located
  <2>6. CASE ~(x >= mid)
    <3>1. Cuts(x, size)[k + 1].from = cut.from /\ Cuts(x, size)[k + 1].to = mid
      BY <2>2, <2>6 DEF Half
    <3>2. cut.from \in Int /\ cut.to <= size /\ cut.from <= x /\ \E m \in Nat : cut.from = 2 * m
      BY <2>1, <2>2 DEF Located, CutRecords
    <3>3. mid \in Int /\ x < mid /\ mid <= size
      BY <1>1, <2>3, <2>4, <2>6, <3>2
    <3>. QED
      BY <2>2, <2>3, <3>1, <3>2, <3>3 DEF Located
  <2>. QED
    BY <2>5, <2>6
<1>4. \A k \in Nat : k \in S
  <2>. HIDE DEF S
  <2>. QED
    BY <1>2, <1>3, NatBySteps
<1>. QED
  BY <1>4

\* Which side of the middle a place is on is told by its cell.
LEMMA CellTellsSide ==
    ASSUME NEW B \in Nat, NEW x \in 0 .. TwoTo[B + 1], NEW m \in Nat, m < TwoTo[B]
    PROVE  x >= 2 * m <=> Cell(x, B) >= m
<1>1. TwoTo[B] \in Nat /\ x \in Nat /\ x \div 2 \in Nat
  BY TwoToDoubles
<1>2. x >= 2 * m <=> x \div 2 >= m
  BY <1>1
<1>. QED
  BY <1>1, <1>2 DEF Cell

\* The side taken decides what is left and the bit that is set.
LEMMA HalfBySide ==
    ASSUME NEW x \in Int, NEW y \in Int, NEW cut \in CutRecords
    PROVE  LET mid == (cut.from + cut.to) \div 2
           IN  /\ (x >= mid <=> y >= mid) => Half(x, cut) = Half(y, cut)
               /\ Half(x, cut).bits = Append(cut.bits, IF x >= mid THEN 1 ELSE 0)
<1>. DEFINE mid == (cut.from + cut.to) \div 2
<1>1. ASSUME x >= mid, y >= mid PROVE Half(x, cut) = Half(y, cut)
  BY <1>1 DEF Half
<1>2. ASSUME ~(x >= mid), ~(y >= mid) PROVE Half(x, cut) = Half(y, cut)
  BY <1>2 DEF Half
<1>3. CASE x >= mid
  BY <1>1, <1>3 DEF Half
<1>4. CASE ~(x >= mid)
  BY <1>2, <1>4 DEF Half
<1>. QED
  BY <1>3, <1>4

\* Places of one cell take the same side in every turn.
LEMMA SameCellSameBits ==
    ASSUME NEW B \in Nat, NEW x \in 0 .. TwoTo[B + 1], NEW y \in 0 .. TwoTo[B + 1],
           Cell(x, B) = Cell(y, B)
    PROVE  Bisect(x, TwoTo[B + 1], B) = Bisect(y, TwoTo[B + 1], B)
<1>. DEFINE size == TwoTo[B + 1]
            S == {k \in Nat : k <= B => Cuts(x, size)[k] = Cuts(y, size)[k]}
<1>1. x \in Int /\ y \in Int /\ size \in Int
  BY TwoToDoubles
<1>2. /\ Cuts(x, size)[0] = Cuts(y, size)[0]
      /\ \A k \in Nat : Cuts(x, size)[k + 1] = Half(x, Cuts(x, size)[k])
                       /\ Cuts(y, size)[k + 1] = Half(y, Cuts(y, size)[k])
  <2>. HIDE DEF size
  <2>. QED
    BY <1>1, CutsStep
<1>3. 0 \in S
  BY <1>2
<1>4. ASSUME NEW k \in Nat, k \in S PROVE k + 1 \in S
  <2>. SUFFICES ASSUME k + 1 <= B PROVE Cuts(x, size)[k + 1] = Cuts(y, size)[k + 1]
    OBVIOUS
  <2>. DEFINE cut == Cuts(x, size)[k]
              mid == (cut.from + cut.to) \div 2
  <2>1. cut = Cuts(y, size)[k] /\ k \in 0 .. B - 1 /\ Located(B, x, k)
    BY <1>4, CutsLocate
  <2>2. PICK m \in Nat : mid = 2 * m /\ m < TwoTo[B]
    BY <2>1, MiddleIsEdge
  <2>3. x >= mid <=> y >= mid
    BY <2>2, CellTellsSide
  <2>4. cut \in CutRecords
    BY <2>1 DEF Located
  <2>5. Half(x, cut) = Half(y, cut)
    BY <1>1, <2>3, <2>4, HalfBySide
  <2>. QED
    BY <1>2, <2>1, <2>5
<1>5. \A k \in Nat : k \in S
  <2>. HIDE DEF S
  <2>. QED
    BY <1>3, <1>4, NatBySteps
<1>. QED
  BY <1>5 DEF Bisect

\* Equal bits are of equal turns, and leave one cell.
LEMMA SameBitsSameCell ==
    ASSUME NEW B \in Nat, NEW x \in 0 .. TwoTo[B + 1], NEW y \in 0 .. TwoTo[B + 1],
           Bisect(x, TwoTo[B + 1], B) = Bisect(y, TwoTo[B + 1], B)
    PROVE  Cell(x, B) = Cell(y, B)
<1>. DEFINE size == TwoTo[B + 1]
            S == {k \in Nat : Cuts(x, size)[k].bits = Cuts(y, size)[k].bits
                                  => Cuts(x, size)[k] = Cuts(y, size)[k]}
<1>1. x \in Int /\ y \in Int /\ size \in Int
  BY TwoToDoubles
<1>2. /\ Cuts(x, size)[0] = Cuts(y, size)[0]
      /\ \A k \in Nat : /\ Cuts(x, size)[k] \in CutRecords /\ Cuts(y, size)[k] \in CutRecords
                       /\ Cuts(x, size)[k + 1] = Half(x, Cuts(x, size)[k])
                       /\ Cuts(y, size)[k + 1] = Half(y, Cuts(y, size)[k])
  <2>. HIDE DEF size
  <2>. QED
    BY <1>1, CutsStep
<1>3. 0 \in S
  BY <1>2
<1>4. ASSUME NEW k \in Nat, k \in S PROVE k + 1 \in S
  <2>. SUFFICES ASSUME Cuts(x, size)[k + 1].bits = Cuts(y, size)[k + 1].bits
                PROVE  Cuts(x, size)[k + 1] = Cuts(y, size)[k + 1]
    OBVIOUS
  <2>. DEFINE c == Cuts(x, size)[k]
              d == Cuts(y, size)[k]
  <2>1. /\ c \in CutRecords /\ d \in CutRecords
        /\ Cuts(x, size)[k + 1] = Half(x, c) /\ Cuts(y, size)[k + 1] = Half(y, d)
        /\ c.bits = d.bits => c = d
    BY <1>2, <1>4
  <2>. HIDE DEF size, c, d
  <2>2. c.bits \in Seq({0, 1}) /\ d.bits \in Seq({0, 1})
    BY <2>1 DEF CutRecords
  <2>3. PICK b \in {0, 1} : /\ Half(x, c).bits = Append(c.bits, b)
                            /\ b = 1 <=> x >= (c.from + c.to) \div 2
    BY <1>1, <2>1, HalfBySide
  <2>4. PICK e \in {0, 1} : /\ Half(y, d).bits = Append(d.bits, e)
                            /\ e = 1 <=> y >= (d.from + d.to) \div 2
    BY <1>1, <2>1, HalfBySide
  <2>5. Append(c.bits, b) = Append(d.bits, e)
    BY <2>1, <2>3, <2>4
  <2>6. c.bits = d.bits /\ b = e
    <3>1. \A p, q \in Seq({0, 1}) : Append(p, b) = Append(q, e) => p = q /\ b = e
      BY AppendInjective
    <3>. QED
      BY <2>2, <2>5, <3>1
  <2>7. c = d /\ (x >= (c.from + c.to) \div 2 <=> y >= (c.from + c.to) \div 2)
    BY <2>1, <2>3, <2>4, <2>6
  <2>8. Half(x, c) = Half(y, c)
    BY <1>1, <2>1, <2>7, HalfBySide
  <2>. QED
    BY <2>1, <2>7, <2>8
<1>5. \A k \in Nat : k \in S
  <2>. HIDE DEF S
  <2>. QED
    BY <1>3, <1>4, NatBySteps
<1>6. Cuts(x, size)[B] = Cuts(y, size)[B]
  BY <1>5 DEF Bisect
<1>7. Located(B, x, B) /\ Located(B, y, B)
  BY CutsLocate
<1>8. TwoTo[B + 1 - B] = 2 /\ size = 2 * TwoTo[B] /\ TwoTo[B] \in Nat \ {0}
  <2>1. B + 1 - B = 0 + 1
    OBVIOUS
  <2>. QED
    BY <2>1, TwoToDoubles
<1>9. ASSUME NEW z \in {x, y} PROVE 2 * Cell(z, B) = Cuts(x, size)[B].from
  <2>1. z \in Nat /\ Located(B, z, B) /\ Cuts(z, size)[B] = Cuts(x, size)[B]
    BY <1>6, <1>7
  <2>2. PICK m \in Nat : Cuts(x, size)[B].from = 2 * m
    BY <2>1 DEF Located
  <2>3. 2 * m + 2 <= size /\ 2 * m <= z /\ (z < 2 * m + 2 \/ (z = size /\ 2 * m + 2 = size))
    BY <1>8, <2>1, <2>2 DEF Located
  <2>4. m < TwoTo[B]
    BY <1>8, <2>3
  <2>5. CASE z < 2 * m + 2
    <3>1. z \div 2 = m
      BY <2>1, <2>3, <2>5
    <3>. QED
      BY <2>2, <2>4, <3>1 DEF Cell
  <2>6. CASE z = size /\ 2 * m + 2 = size
    <3>1. z \div 2 = TwoTo[B] /\ TwoTo[B] - 1 = m
      BY <1>8, <2>6
    <3>. QED
      BY <1>8, <2>2, <3>1 DEF Cell
  <2>. QED
    BY <2>3, <2>5, <2>6
<1>10. Cell(x, B) \in Int /\ Cell(y, B) \in Int
  BY <1>8 DEF Cell
<1>. QED
  BY <1>9, <1>10

-----------------------------------------------------------------------------
(* Texts *)

UpTo(kept, m) == {j \in kept : j <= m}

LEMMA UpToStep ==
    ASSUME NEW kept, NEW m \in Int, \A j \in kept : j \in Int
    PROVE  /\ m \notin kept => UpTo(kept, m) = UpTo(kept, m - 1)
           /\ m \in kept => UpTo(kept, m) = UpTo(kept, m - 1) \cup {m} /\ m \notin UpTo(kept, m - 1)
<1>1. \A j \in kept : j <= m <=> (j <= m - 1 \/ j = m)
  OBVIOUS
<1>2. ASSUME m \notin kept PROVE UpTo(kept, m) = UpTo(kept, m - 1)
  <2>1. \A j \in kept : j <= m <=> j <= m - 1
    BY <1>1, <1>2
  <2>. QED
    BY <2>1, Zenon DEF UpTo
<1>3. ASSUME m \in kept PROVE UpTo(kept, m) = UpTo(kept, m - 1) \cup {m} /\ m \notin UpTo(kept, m - 1)
  <2>1. ~(m <= m - 1)
    OBVIOUS
  <2>2. \A j : j \in UpTo(kept, m) <=> j \in UpTo(kept, m - 1) \cup {m}
    BY <1>1, <1>3 DEF UpTo
  <2>3. m \notin UpTo(kept, m - 1)
    BY <2>1, Zenon DEF UpTo
  <2>. QED
    BY <2>2, <2>3, Zenon
<1>. QED
  BY <1>2, <1>3

LEMMA UpToEnds ==
    ASSUME NEW L \in Nat, NEW kept, \A j \in kept : j \in 1 .. L
    PROVE  UpTo(kept, L) = kept /\ UpTo(kept, 0) = {}
<1>1. \A j \in kept : j <= L /\ ~(j <= 0)
  OBVIOUS
<1>. QED
  BY <1>1, Zenon DEF UpTo

\* In a set of numbers there is one of every rank.
LEMMA RankIsHeld ==
    ASSUME NEW L \in Nat, NEW kept \in SUBSET (1 .. L), NEW n \in 1 .. Cardinality(kept)
    PROVE  \E i \in kept : Cardinality(UpTo(kept, i)) = n
<1>. DEFINE enough == {m \in Nat : Cardinality(UpTo(kept, m)) >= n}
<1>1. (\A j \in kept : j \in Int) /\ UpTo(kept, L) = kept /\ UpTo(kept, 0) = {}
  <2>1. \A j \in kept : j \in 1 .. L
    OBVIOUS
  <2>2. UpTo(kept, L) = kept /\ UpTo(kept, 0) = {}
    BY <2>1, UpToEnds, Zenon
  <2>3. \A j \in kept : j \in Int
    BY <2>1
  <2>. QED
    BY <2>2, <2>3
<1>2. IsFiniteSet(kept) /\ n \in Nat \ {0}
  <2>1. IsFiniteSet(1 .. L)
    BY FS_Interval
  <2>2. IsFiniteSet(kept)
    BY <2>1, FS_Subset
  <2>3. Cardinality(kept) \in Nat
    BY <2>2, FS_CardinalityType
  <2>. QED
    BY <2>2, <2>3
<1>3. \A m \in Nat : IsFiniteSet(UpTo(kept, m)) /\ Cardinality(UpTo(kept, m)) \in Nat
  <2>. SUFFICES ASSUME NEW m \in Nat
                PROVE  IsFiniteSet(UpTo(kept, m)) /\ Cardinality(UpTo(kept, m)) \in Nat
    OBVIOUS
  <2>1. UpTo(kept, m) \in SUBSET kept
    BY DEF UpTo
  <2>. QED
    BY <1>2, <2>1, FS_Subset, FS_CardinalityType
<1>4. PICK m \in enough : \A y \in enough : m <= y
  <2>1. enough \in SUBSET Nat /\ enough # {}
    <3>1. Cardinality(kept) \in Nat /\ Cardinality(UpTo(kept, L)) >= n
      BY <1>1, <1>2, FS_CardinalityType
    <3>. QED
      BY <3>1
  <2>. HIDE DEF enough
  <2>. QED
    BY <2>1, NatHasLeast
<1>5. m \in Nat /\ Cardinality(UpTo(kept, m)) >= n
  BY <1>4
<1>6. m # 0
  BY <1>1, <1>2, <1>5, FS_EmptySet
<1>7. m - 1 \in Nat /\ ~(Cardinality(UpTo(kept, m - 1)) >= n)
  <2>1. m - 1 \in Nat /\ ~(m <= m - 1)
    BY <1>5, <1>6
  <2>. QED
    BY <1>4, <2>1
<1>8. m \in kept
  <2>1. m \notin kept => UpTo(kept, m) = UpTo(kept, m - 1)
    <3>1. m \in Int
      BY <1>5
    <3>. QED
      BY <1>1, <3>1, UpToStep, Zenon
  <2>. QED
    BY <1>5, <1>7, <2>1
<1>9. Cardinality(UpTo(kept, m)) = Cardinality(UpTo(kept, m - 1)) + 1
  <2>1. UpTo(kept, m) = UpTo(kept, m - 1) \cup {m} /\ m \notin UpTo(kept, m - 1)
    BY <1>1, <1>5, <1>8, UpToStep
  <2>. QED
    BY <1>3, <1>7, <2>1, FS_AddElement
<1>10. Cardinality(UpTo(kept, m - 1)) \in Nat
  BY <1>3, <1>7
<1>. QED
  BY <1>2, <1>5, <1>7, <1>8, <1>9, <1>10

\* What is kept of a text is a text, of characters of that text.
LEMMA KeepIsText ==
    ASSUME NEW s \in Seq(Alphabet), NEW kept \in SUBSET DOMAIN s
    PROVE  /\ Keep(s, kept) \in Seq(Alphabet)
           /\ \A n \in DOMAIN Keep(s, kept) : \E i \in DOMAIN s : Keep(s, kept)[n] = s[i]
<1>1. Len(s) \in Nat /\ DOMAIN s = 1 .. Len(s) /\ \A i \in DOMAIN s : s[i] \in Alphabet
  BY LenProperties, ElementOfSeq
<1>2. Cardinality(kept) \in Nat
  <2>1. IsFiniteSet(1 .. Len(s))
    BY <1>1, FS_Interval
  <2>2. IsFiniteSet(kept)
    BY <1>1, <2>1, FS_Subset
  <2>. QED
    BY <2>2, FS_CardinalityType
<1>. DEFINE at(n) == CHOOSE i \in kept : Cardinality({j \in kept : j <= i}) = n
<1>3. \A n \in 1 .. Cardinality(kept) : at(n) \in kept
  <2>1. \A n \in 1 .. Cardinality(kept) :
            \E i \in kept : Cardinality({j \in kept : j <= i}) = n
    BY <1>1, RankIsHeld DEF UpTo
  <2>. QED
    BY <2>1
<1>4. Keep(s, kept) = [n \in 1 .. Cardinality(kept) |-> s[at(n)]]
  BY DEF Keep
<1>. HIDE DEF at
<1>5. \A n \in 1 .. Cardinality(kept) : s[at(n)] \in Alphabet /\ at(n) \in DOMAIN s
  BY <1>1, <1>3
<1>. QED
  BY <1>2, <1>4, <1>5

LEMMA UppercaseIsText ==
    ASSUME NEW s \in Seq(Alphabet)
    PROVE  /\ Uppercase(s) \in Seq(Alphabet)
           /\ Undelimited(s) => Undelimited(Uppercase(s))
<1>1. Len(s) \in Nat /\ DOMAIN s = 1 .. Len(s) /\ \A i \in 1 .. Len(s) : s[i] \in Alphabet
  BY LenProperties, ElementOfSeq
<1>2. \A c \in Alphabet : Upper(c) \in Alphabet /\ (c # "|" => Upper(c) # "|")
  <2>1. {"A", "B"} \subseteq Alphabet
    BY AnonymizerAssumption
  <2>. QED
    BY <2>1 DEF Upper
<1>3. Uppercase(s) = [i \in 1 .. Len(s) |-> Upper(s[i])]
  BY <1>1 DEF Uppercase
<1>4. \A i \in 1 .. Len(s) : Upper(s[i]) \in Alphabet
  BY <1>1, <1>2
<1>5. Uppercase(s) \in Seq(Alphabet)
  BY <1>1, <1>3, <1>4
<1>6. Undelimited(s) => Undelimited(Uppercase(s))
  BY <1>1, <1>2, <1>3 DEF Undelimited
<1>. QED
  BY <1>5, <1>6

LEMMA NormalizedIDIsText ==
    ASSUME NEW s \in Seq(Alphabet)
    PROVE  /\ NormalizeID(s) \in Seq(Alphabet)
           /\ Undelimited(s) => Undelimited(NormalizeID(s))
<1>. DEFINE kept == {i \in DOMAIN s : s[i] \notin Separators}
<1>1. /\ Keep(s, kept) \in Seq(Alphabet)
      /\ \A n \in DOMAIN Keep(s, kept) : \E i \in DOMAIN s : Keep(s, kept)[n] = s[i]
  <2>1. kept \in SUBSET DOMAIN s
    OBVIOUS
  <2>. HIDE DEF kept
  <2>. QED
    BY <2>1, KeepIsText
<1>2. NormalizeID(s) = Uppercase(Keep(s, kept))
  BY DEF NormalizeID
<1>. HIDE DEF kept
<1>3. Undelimited(s) => Undelimited(Keep(s, kept))
  BY <1>1 DEF Undelimited
<1>. QED
  BY <1>1, <1>2, <1>3, UppercaseIsText

LEMMA TrimIsText ==
    ASSUME NEW s \in Seq(Alphabet)
    PROVE  Trim(s) \in Seq(Alphabet)
<1>. DEFINE words == {i \in DOMAIN s : s[i] # " "}
            kept == {i \in DOMAIN s : \E a, b \in words : a <= i /\ i <= b}
<1>1. kept \in SUBSET DOMAIN s
  OBVIOUS
<1>2. Trim(s) = Keep(s, kept)
  BY DEF Trim
<1>. HIDE DEF kept
<1>. QED
  BY <1>1, <1>2, KeepIsText

\* The characters of a name that are kept: its letters, and the first of the
\* spaces between two words.
KeptOfName(s) ==
    {i \in DOMAIN s : i \in Letters(s) \/ (i - 1 \in Letters(s) /\ \E j \in Letters(s) : i < j)}

LEMMA NormalizedNameIsText ==
    ASSUME NEW s \in Seq(Alphabet)
    PROVE  /\ NormalizeName(s) \in Seq(Alphabet)
           /\ NormalizeName(s) = Uppercase(Keep(s, KeptOfName(s)))
<1>1. KeptOfName(s) \in SUBSET DOMAIN s
  BY DEF KeptOfName
<1>2. NormalizeName(s) = Uppercase(Keep(s, KeptOfName(s)))
  BY Zenon DEF NormalizeName, KeptOfName, Letters
<1>3. Keep(s, KeptOfName(s)) \in Seq(Alphabet)
  BY <1>1, KeepIsText
<1>. QED
  BY <1>2, <1>3, UppercaseIsText

\* The place of i among the numbers of kept.
Rank(kept, i) == Cardinality(UpTo(kept, i))

LEMMA Ranks ==
    ASSUME NEW L \in Nat, NEW kept \in SUBSET (1 .. L)
    PROVE  /\ IsFiniteSet(kept) /\ Cardinality(kept) \in Nat
           /\ \A i \in kept : IsFiniteSet(UpTo(kept, i)) /\ Rank(kept, i) \in 1 .. Cardinality(kept)
           /\ \A i, j \in kept : i < j => Rank(kept, i) < Rank(kept, j)
<1>1. IsFiniteSet(kept) /\ Cardinality(kept) \in Nat
  <2>1. IsFiniteSet(1 .. L)
    BY FS_Interval
  <2>. QED
    BY <2>1, FS_Subset, FS_CardinalityType
<1>2. \A i \in kept : i \in Int /\ i <= i
  OBVIOUS
<1>3. ASSUME NEW i \in kept
      PROVE  /\ IsFiniteSet(UpTo(kept, i)) /\ Rank(kept, i) \in Nat
             /\ Rank(kept, i) <= Cardinality(kept) /\ Rank(kept, i) # 0
  <2>1. UpTo(kept, i) \in SUBSET kept /\ i \in UpTo(kept, i)
    BY <1>2, Zenon DEF UpTo
  <2>2. IsFiniteSet(UpTo(kept, i)) /\ Cardinality(UpTo(kept, i)) <= Cardinality(kept)
    BY <1>1, <2>1, FS_Subset
  <2>3. Cardinality(UpTo(kept, i)) \in Nat
    BY <2>2, FS_CardinalityType
  <2>4. Cardinality(UpTo(kept, i)) # 0
    BY <2>1, <2>2, FS_EmptySet
  <2>. QED
    BY <2>2, <2>3, <2>4 DEF Rank
<1>4. ASSUME NEW i \in kept, NEW j \in kept, i < j PROVE Rank(kept, i) < Rank(kept, j)
  <2>1. /\ j <= j /\ ~(j <= i)
        /\ \A k \in kept : k <= i => k <= j
    BY <1>2, <1>4
  <2>2. UpTo(kept, i) \in SUBSET UpTo(kept, j) /\ UpTo(kept, j) # UpTo(kept, i)
    BY <2>1, Zenon DEF UpTo
  <2>3. /\ Cardinality(UpTo(kept, i)) <= Cardinality(UpTo(kept, j))
        /\ Cardinality(UpTo(kept, i)) # Cardinality(UpTo(kept, j))
    BY <1>3, <2>2, FS_Subset
  <2>4. Cardinality(UpTo(kept, i)) \in Nat /\ Cardinality(UpTo(kept, j)) \in Nat
    BY <1>3 DEF Rank
  <2>. QED
    BY <2>3, <2>4 DEF Rank
<1>5. ASSUME NEW i \in kept PROVE Rank(kept, i) \in 1 .. Cardinality(kept)
  BY <1>1, <1>3
<1>. QED
  BY <1>1, <1>3, <1>4, <1>5

\* What is kept stands at its rank.
LEMMA KeepAtRank ==
    ASSUME NEW L \in Nat, NEW kept \in SUBSET (1 .. L), NEW s
    PROVE  /\ DOMAIN Keep(s, kept) = 1 .. Cardinality(kept)
           /\ \A i \in kept : Keep(s, kept)[Rank(kept, i)] = s[i]
<1>. DEFINE at(n) == CHOOSE i \in kept : Rank(kept, i) = n
<1>1. Keep(s, kept) = [n \in 1 .. Cardinality(kept) |-> s[at(n)]]
  BY Zenon DEF Keep, Rank, UpTo
<1>2. ASSUME NEW i \in kept PROVE at(Rank(kept, i)) = i
  <2>1. PICK j \in kept : j = at(Rank(kept, i)) /\ Rank(kept, j) = Rank(kept, i)
    OBVIOUS
  <2>2. ~(i < j) /\ ~(j < i)
    <3>1. Rank(kept, i) \in 1 .. Cardinality(kept) /\ Cardinality(kept) \in Nat
      BY Ranks
    <3>2. ~(Rank(kept, i) < Rank(kept, i))
      BY <3>1
    <3>. QED
      BY <2>1, <3>2, Ranks
  <2>3. \A m, n \in 1 .. L : ~(m < n) /\ ~(n < m) => m = n
    OBVIOUS
  <2>. QED
    BY <2>1, <2>2, <2>3
<1>. HIDE DEF at
<1>3. \A i \in kept : Rank(kept, i) \in 1 .. Cardinality(kept)
  BY Ranks
<1>. QED
  BY <1>1, <1>2, <1>3

\* Matches of all of K with all of H, in order.
Matches(K, H) ==
    {f \in [K -> H] : /\ \A m \in H : \E i \in K : f[i] = m
                      /\ \A i, j \in K : i < j => f[i] < f[j]}

LEMMA MatchKeepsRank ==
    ASSUME NEW L \in Nat, NEW P \in Nat, NEW kept \in SUBSET (1 .. L), NEW H \in SUBSET (1 .. P),
           NEW f \in Matches(kept, H)
    PROVE  /\ Cardinality(kept) = Cardinality(H)
           /\ \A i \in kept : Rank(H, f[i]) = Rank(kept, i)
<1>0. /\ f \in [kept -> H] /\ \A m \in H : \E i \in kept : f[i] = m
      /\ \A i, j \in kept : i < j => f[i] < f[j]
  BY DEF Matches
<1>1. \A i \in kept : i \in Int /\ f[i] \in Int
  <2>1. \A m \in H : m \in Int
    OBVIOUS
  <2>2. \A i \in kept : i \in Int /\ f[i] \in H
    BY <1>0
  <2>. QED
    BY <2>1, <2>2
<1>2. \A i, j \in kept : (j <= i <=> f[j] <= f[i]) /\ (f[i] = f[j] => i = j)
  <2>. SUFFICES ASSUME NEW i \in kept, NEW j \in kept
                PROVE  (j <= i <=> f[j] <= f[i]) /\ (f[i] = f[j] => i = j)
    OBVIOUS
  <2>1. i < j => f[i] < f[j]
    BY <1>0
  <2>2. j < i => f[j] < f[i]
    BY <1>0
  <2>3. i = j => f[i] = f[j]
    OBVIOUS
  <2>4. i \in Int /\ j \in Int /\ f[i] \in Int /\ f[j] \in Int
    BY <1>1
  <2>. QED
    BY <2>1, <2>2, <2>3, <2>4
<1>3. IsFiniteSet(kept) /\ \A i \in kept : IsFiniteSet(UpTo(kept, i))
  BY Ranks
<1>4. Cardinality(kept) = Cardinality(H)
  <2>1. f \in Surjection(kept, H) /\ f \in Injection(kept, H)
    BY <1>0, <1>2 DEF Surjection, Injection, IsInjective
  <2>. QED
    BY <1>3, <2>1, FS_Surjection
<1>5. ASSUME NEW i \in kept PROVE Rank(H, f[i]) = Rank(kept, i)
  <2>1. PICK S, T : S = UpTo(kept, i) /\ T = UpTo(H, f[i])
    BY Zenon
  <2>2. S \in SUBSET kept /\ IsFiniteSet(S) /\ \A j \in S : f[j] \in T
    BY <1>0, <1>2, <1>3, <2>1 DEF UpTo
  <2>3. PICK g : g = [j \in S |-> f[j]]
    BY Zenon
  <2>4. g \in [S -> T] /\ \A j \in S : g[j] = f[j]
    BY <2>2, <2>3
  <2>5. \A m \in T : \E j \in S : g[j] = m
    <3>. SUFFICES ASSUME NEW m \in T PROVE \E j \in S : g[j] = m
      OBVIOUS
    <3>1. m \in H /\ m <= f[i]
      BY <2>1 DEF UpTo
    <3>2. PICK j \in kept : f[j] = m
      BY <1>0, <3>1
    <3>3. j \in S
      BY <1>2, <2>1, <3>1, <3>2 DEF UpTo
    <3>. QED
      BY <2>4, <3>2, <3>3
  <2>6. \A j, k \in S : g[j] = g[k] => j = k
    BY <1>2, <2>2, <2>4
  <2>7. g \in Surjection(S, T)
    BY <2>4, <2>5 DEF Surjection
  <2>8. g \in Injection(S, T)
    BY <2>4, <2>6 DEF Injection, IsInjective
  <2>9. Cardinality(T) = Cardinality(S)
    BY <2>2, <2>7, <2>8, FS_Surjection
  <2>. QED
    BY <2>1, <2>9 DEF Rank
<1>. QED
  BY <1>4, <1>5

LEMMA UpperTellsSpaces == \A c : Upper(c) = " " <=> c = " "
  BY DEF Upper

LEMMA SameInterval ==
    ASSUME NEW m \in Nat, NEW n \in Nat, 1 .. m = 1 .. n
    PROVE  m = n
<1>1. m >= 1 => m \in 1 .. n
  BY SMT
<1>2. n >= 1 => n \in 1 .. m
  BY SMT
<1>. QED
  BY <1>1, <1>2

\* Two texts agree in what is kept of them, but for the case, exactly when one
\* can be read for the other.
LEMMA KeptAlike ==
    ASSUME NEW s \in Seq(Alphabet), NEW t \in Seq(Alphabet),
           NEW K \in SUBSET DOMAIN s, NEW H \in SUBSET DOMAIN t
    PROVE  Uppercase(Keep(s, K)) = Uppercase(Keep(t, H)) <=> Readings(s, K, t, H) # {}
<1>1. PICK L \in Nat, P \in Nat : DOMAIN s = 1 .. L /\ DOMAIN t = 1 .. P
  BY LenProperties
<1>2. K \in SUBSET (1 .. L) /\ H \in SUBSET (1 .. P)
  BY <1>1
<1>3. PICK a, b : a = Keep(s, K) /\ b = Keep(t, H)
  BY Zenon
<1>4. /\ DOMAIN a = 1 .. Cardinality(K) /\ \A i \in K : a[Rank(K, i)] = s[i]
      /\ DOMAIN b = 1 .. Cardinality(H) /\ \A m \in H : b[Rank(H, m)] = t[m]
  BY <1>2, <1>3, KeepAtRank
<1>5. /\ Uppercase(a) = [n \in 1 .. Cardinality(K) |-> Upper(a[n])]
      /\ Uppercase(b) = [n \in 1 .. Cardinality(H) |-> Upper(b[n])]
  BY <1>4 DEF Uppercase
<1>6. /\ Cardinality(K) \in Nat /\ \A i \in K : Rank(K, i) \in 1 .. Cardinality(K)
      /\ \A i, j \in K : i < j => Rank(K, i) < Rank(K, j)
  BY <1>2, Ranks
<1>7. /\ Cardinality(H) \in Nat /\ \A i \in H : Rank(H, i) \in 1 .. Cardinality(H)
      /\ \A i, j \in H : i < j => Rank(H, i) < Rank(H, j)
  BY <1>2, Ranks
<1>8. ASSUME Uppercase(a) = Uppercase(b) PROVE Readings(s, K, t, H) # {}
  <2>1. Cardinality(K) = Cardinality(H) /\ \A n \in 1 .. Cardinality(K) : Upper(a[n]) = Upper(b[n])
    <3>1. DOMAIN Uppercase(a) = 1 .. Cardinality(K) /\ DOMAIN Uppercase(b) = 1 .. Cardinality(H)
      BY <1>5
    <3>2. Cardinality(K) = Cardinality(H)
      BY <1>6, <1>7, <1>8, <3>1, SameInterval
    <3>3. ASSUME NEW n \in 1 .. Cardinality(K) PROVE Upper(a[n]) = Upper(b[n])
      <4>1. Uppercase(a)[n] = Upper(a[n])
        BY <1>5
      <4>2. Uppercase(b)[n] = Upper(b[n])
        BY <1>5, <3>2
      <4>. QED
        BY <1>8, <4>1, <4>2
    <3>. QED
      BY <3>2, <3>3
  <2>2. \A i \in K : \E m \in H : Rank(H, m) = Rank(K, i)
    BY <1>2, <1>6, <2>1, RankIsHeld DEF Rank
  <2>3. PICK f : f = [i \in K |-> CHOOSE m \in H : Rank(H, m) = Rank(K, i)]
    BY Zenon
  <2>4. f \in [K -> H] /\ \A i \in K : Rank(H, f[i]) = Rank(K, i)
    BY <2>2, <2>3
  <2>5. \A i, j \in K : i < j => f[i] < f[j]
    <3>. SUFFICES ASSUME NEW i \in K, NEW j \in K, i < j PROVE f[i] < f[j]
      OBVIOUS
    <3>1. f[i] \in H /\ f[j] \in H /\ Rank(H, f[i]) < Rank(H, f[j])
      BY <1>6, <2>4
    <3>2. f[i] \in Int /\ f[j] \in Int /\ Rank(H, f[i]) \in Int /\ Rank(H, f[j]) \in Int
      BY <1>2, <1>7, <3>1
    <3>3. ~(f[j] < f[i]) /\ f[i] # f[j]
      BY <1>7, <3>1, <3>2
    <3>. QED
      BY <3>2, <3>3
  <2>6. \A i \in K : Upper(s[i]) = Upper(t[f[i]])
    BY <1>4, <1>6, <2>1, <2>4
  <2>7. ASSUME NEW m \in H PROVE \E i \in K : f[i] = m
    <3>1. PICK i \in K : Rank(K, i) = Rank(H, m)
      BY <1>2, <1>7, <2>1, RankIsHeld DEF Rank
    <3>2. f[i] \in H /\ ~(f[i] < m) /\ ~(m < f[i])
      <4>1. f[i] \in H /\ Rank(H, f[i]) = Rank(H, m) /\ Rank(H, m) \in Int
        BY <1>7, <2>4, <3>1
      <4>. QED
        BY <1>7, <4>1
    <3>. QED
      BY <1>2, <3>2
  <2>. QED
    BY <2>4, <2>5, <2>6, <2>7 DEF Readings
<1>9. ASSUME NEW f \in Readings(s, K, t, H) PROVE Uppercase(a) = Uppercase(b)
  <2>1. /\ f \in [K -> H] /\ \A m \in H : \E i \in K : f[i] = m
        /\ \A i \in K : Upper(s[i]) = Upper(t[f[i]])
        /\ \A i, j \in K : i < j => f[i] < f[j]
    BY DEF Readings
  <2>2. Cardinality(K) = Cardinality(H) /\ \A i \in K : Rank(H, f[i]) = Rank(K, i)
    <3>1. f \in Matches(K, H)
      BY <2>1 DEF Matches
    <3>. QED
      BY <1>2, <3>1, MatchKeepsRank
  <2>3. ASSUME NEW n \in 1 .. Cardinality(K) PROVE Upper(a[n]) = Upper(b[n])
    <3>1. PICK i \in K : Rank(K, i) = n
      BY <1>2, RankIsHeld DEF Rank
    <3>. QED
      BY <1>4, <2>1, <2>2, <3>1
  <2>. QED
    BY <1>5, <2>2, <2>3
<1>. QED
  BY <1>3, <1>8, <1>9

\* NormalizeID takes for one exactly the identifiers that are read alike, and
\* finds nothing exactly where there is nothing to read.
THEOREM IDsReadAlike ==
    ASSUME NEW s \in Seq(Alphabet), NEW t \in Seq(Alphabet)
    PROVE  /\ NormalizeID(s) = NormalizeID(t) <=> SameID(s, t)
           /\ NormalizeID(s) = <<>> <=> Figures(s) = {}
<1>1. Figures(s) \in SUBSET DOMAIN s /\ Figures(t) \in SUBSET DOMAIN t
  BY DEF Figures
<1>2. /\ NormalizeID(s) = Uppercase(Keep(s, Figures(s)))
      /\ NormalizeID(t) = Uppercase(Keep(t, Figures(t)))
  BY Zenon DEF NormalizeID, Figures, Separators
<1>3. NormalizeID(s) = NormalizeID(t) <=> SameID(s, t)
  BY <1>1, <1>2, KeptAlike DEF SameID
<1>4. PICK L \in Nat : DOMAIN s = 1 .. L
  BY LenProperties
<1>5. PICK n \in Nat : n = Cardinality(Figures(s)) /\ (n = 0 <=> Figures(s) = {})
  BY <1>1, <1>4, Ranks, FS_EmptySet
<1>6. DOMAIN Keep(s, Figures(s)) = 1 .. n
  BY <1>1, <1>4, <1>5, KeepAtRank
<1>7. NormalizeID(s) = [i \in 1 .. n |-> Upper(Keep(s, Figures(s))[i])]
  BY <1>2, <1>6 DEF Uppercase
<1>8. NormalizeID(s) = <<>> <=> n = 0
  <2>1. DOMAIN NormalizeID(s) = 1 .. n
    BY <1>7
  <2>2. n = 0 => NormalizeID(s) = <<>>
    BY <1>7
  <2>3. n # 0 => 1 \in DOMAIN NormalizeID(s)
    BY <2>1
  <2>. QED
    BY <2>2, <2>3
<1>. QED
  BY <1>3, <1>5, <1>8

\* Two words with none between them.
Adjacent(s, i, j) == i < j /\ \A l \in Letters(s) : ~(i < l /\ l < j)

\* What is no letter is a space.
LEMMA SpacesAreTheRest ==
    ASSUME NEW s \in Seq(Alphabet)
    PROVE  /\ \A k \in DOMAIN s : s[k] = " " <=> k \notin Letters(s)
           /\ \A i, j \in Letters(s) : Parted(s, i, j) <=> \E k \in i .. j : k \notin Letters(s)
<1>1. \A k \in DOMAIN s : s[k] = " " <=> k \notin Letters(s)
  BY Zenon DEF Letters
<1>2. PICK L \in Nat : DOMAIN s = 1 .. L
  BY LenProperties
<1>3. Letters(s) \subseteq DOMAIN s
  BY Zenon DEF Letters
<1>4. \A i, j \in Letters(s) : \A k \in i .. j : k \in DOMAIN s
  BY <1>2, <1>3
<1>5. \A i, j \in Letters(s) : Parted(s, i, j) <=> \E k \in i .. j : k \notin Letters(s)
  BY <1>1, <1>4, Zenon DEF Parted
<1>. QED
  BY <1>1, <1>5

\* The positions of a text, its letters and what is kept of it.
LEMMA KeptPositions ==
    ASSUME NEW s \in Seq(Alphabet)
    PROVE  \E L \in Nat : /\ DOMAIN s = 1 .. L /\ KeptOfName(s) \in SUBSET (1 .. L)
                          /\ Letters(s) \in SUBSET KeptOfName(s)
<1>1. PICK L \in Nat : DOMAIN s = 1 .. L
  BY LenProperties
<1>2. KeptOfName(s) \subseteq DOMAIN s /\ Letters(s) \subseteq KeptOfName(s)
  BY Zenon DEF KeptOfName, Letters
<1>. QED
  BY <1>1, <1>2

\* Where a word ends and is not the last, a space is kept; and nowhere else.
LEMMA SpaceIsKept ==
    ASSUME NEW s \in Seq(Alphabet), NEW i \in Letters(s), NEW j \in Letters(s),
           Adjacent(s, i, j), Parted(s, i, j)
    PROVE  i + 1 \in KeptOfName(s) /\ i + 1 \notin Letters(s) /\ i + 1 < j
<1>1. PICK L \in Nat : /\ DOMAIN s = 1 .. L /\ KeptOfName(s) \in SUBSET (1 .. L)
                       /\ Letters(s) \in SUBSET KeptOfName(s)
  BY KeptPositions
<1>2. i \in 1 .. L /\ j \in 1 .. L /\ i < j
  BY <1>1 DEF Adjacent
<1>3. PICK k \in i .. j : k \notin Letters(s)
  BY SpacesAreTheRest
<1>4. k # i /\ k # j
  BY <1>3
<1>5. i + 1 \in DOMAIN s /\ i + 1 < j /\ i < i + 1 /\ (i + 1) - 1 = i
  BY <1>1, <1>2, <1>3, <1>4
<1>6. i + 1 \notin Letters(s)
  BY <1>5 DEF Adjacent
<1>7. i + 1 \in KeptOfName(s)
  BY <1>5, Zenon DEF KeptOfName
<1>. QED
  BY <1>5, <1>6, <1>7

LEMMA KeptSpace ==
    ASSUME NEW s \in Seq(Alphabet), NEW k \in KeptOfName(s), k \notin Letters(s)
    PROVE  /\ k - 1 \in Letters(s)
           /\ \E j \in Letters(s) : Adjacent(s, k - 1, j) /\ Parted(s, k - 1, j) /\ k < j
<1>1. PICK L \in Nat : /\ DOMAIN s = 1 .. L /\ KeptOfName(s) \in SUBSET (1 .. L)
                       /\ Letters(s) \in SUBSET KeptOfName(s)
  BY KeptPositions
<1>2. k - 1 \in Letters(s) /\ \E l \in Letters(s) : k < l
  BY Zenon DEF KeptOfName
<1>3. k \in 1 .. L /\ \A l \in Letters(s) : l \in Nat
  BY <1>1
<1>. DEFINE after == {l \in Letters(s) : k < l}
<1>4. PICK j \in after : \A l \in after : j <= l
  <2>1. after \in SUBSET Nat /\ after # {}
    BY <1>2, <1>3
  <2>. HIDE DEF after
  <2>. QED
    BY <2>1, NatHasLeast
<1>5. j \in Letters(s) /\ k < j /\ j \in Nat
  BY <1>3, <1>4
<1>6. Adjacent(s, k - 1, j)
  <2>1. k - 1 < j
    BY <1>3, <1>5
  <2>2. ASSUME NEW l \in Letters(s), k - 1 < l, l < j PROVE FALSE
    <3>1. k < l
      BY <1>3, <2>2
    <3>2. j <= l
      BY <1>4, <3>1
    <3>. QED
      BY <1>3, <1>5, <2>2, <3>2
  <2>. QED
    BY <2>1, <2>2 DEF Adjacent
<1>7. Parted(s, k - 1, j)
  <2>1. k \in (k - 1) .. j
    BY <1>3, <1>5
  <2>. QED
    BY <1>2, <1>5, <2>1, SpacesAreTheRest
<1>. QED
  BY <1>2, <1>5, <1>6, <1>7

\* Words that are parted are parted by a space that is kept.
LEMMA PartedByKept ==
    ASSUME NEW s \in Seq(Alphabet), NEW i \in Letters(s), NEW j \in Letters(s), i < j
    PROVE  Parted(s, i, j) <=> \E k \in KeptOfName(s) : k \notin Letters(s) /\ i < k /\ k < j
<1>1. PICK L \in Nat : /\ DOMAIN s = 1 .. L /\ KeptOfName(s) \in SUBSET (1 .. L)
                       /\ Letters(s) \in SUBSET KeptOfName(s)
  BY KeptPositions
<1>2. i \in 1 .. L /\ j \in 1 .. L
  BY <1>1
<1>3. ASSUME Parted(s, i, j) PROVE \E k \in KeptOfName(s) : k \notin Letters(s) /\ i < k /\ k < j
  <2>. DEFINE spaces == {k \in i .. j : k \notin Letters(s)}
  <2>1. PICK k \in spaces : \A l \in spaces : k <= l
    <3>1. \A k \in i .. j : k \in Nat
      BY <1>2
    <3>2. spaces \in SUBSET Nat /\ spaces # {}
      BY <1>3, <3>1, SpacesAreTheRest
    <3>. HIDE DEF spaces
    <3>. QED
      BY <3>2, NatHasLeast
  <2>2. k \in i .. j /\ k \notin Letters(s) /\ k # i /\ k # j
    BY <2>1
  <2>3. k \in DOMAIN s /\ i < k /\ k < j /\ k - 1 \in i .. j /\ ~(k <= k - 1)
    BY <1>1, <1>2, <2>2
  <2>4. k - 1 \in Letters(s)
    BY <2>1, <2>3
  <2>5. k \in KeptOfName(s)
    BY <2>3, <2>4, Zenon DEF KeptOfName
  <2>. QED
    BY <2>2, <2>3, <2>5
<1>4. ASSUME NEW k \in KeptOfName(s), k \notin Letters(s), i < k, k < j PROVE Parted(s, i, j)
  <2>1. k \in i .. j
    BY <1>1, <1>2, <1>4
  <2>. QED
    BY <1>4, <2>1, SpacesAreTheRest
<1>. QED
  BY <1>3, <1>4

\* A match of characters that are the same but for the case matches letters
\* with letters.
LEMMA LettersMatch ==
    ASSUME NEW s \in Seq(Alphabet), NEW t \in Seq(Alphabet), NEW i \in DOMAIN s, NEW m \in DOMAIN t
    PROVE  /\ Upper(s[i]) = Upper(t[m]) => (i \in Letters(s) <=> m \in Letters(t))
           /\ i \notin Letters(s) /\ m \notin Letters(t) => Upper(s[i]) = Upper(t[m])
<1>1. (i \notin Letters(s) <=> s[i] = " ") /\ (m \notin Letters(t) <=> t[m] = " ")
  BY SpacesAreTheRest, Zenon
<1>2. Upper(s[i]) = Upper(t[m]) => (s[i] = " " <=> t[m] = " ")
  BY UpperTellsSpaces, Zenon
<1>. QED
  BY <1>1, <1>2, Zenon

\* A reading of all that is kept reads the letters, and parts the same words.
LEMMA LettersOfReading ==
    ASSUME NEW s \in Seq(Alphabet), NEW t \in Seq(Alphabet),
           NEW f \in Readings(s, KeptOfName(s), t, KeptOfName(t))
    PROVE  SameName(s, t)
<1>1. PICK L \in Nat : /\ DOMAIN s = 1 .. L /\ KeptOfName(s) \in SUBSET (1 .. L)
                       /\ Letters(s) \in SUBSET KeptOfName(s)
  BY KeptPositions
<1>2. PICK P \in Nat : /\ DOMAIN t = 1 .. P /\ KeptOfName(t) \in SUBSET (1 .. P)
                       /\ Letters(t) \in SUBSET KeptOfName(t)
  BY KeptPositions
<1>3. /\ f \in [KeptOfName(s) -> KeptOfName(t)]
      /\ \A m \in KeptOfName(t) : \E i \in KeptOfName(s) : f[i] = m
      /\ \A i \in KeptOfName(s) : Upper(s[i]) = Upper(t[f[i]])
      /\ \A i, j \in KeptOfName(s) : i < j => f[i] < f[j]
  BY DEF Readings
<1>4. \A i \in KeptOfName(s) : i \in Int /\ f[i] \in KeptOfName(t) /\ f[i] \in Int
  <2>1. \A m \in KeptOfName(t) : m \in Int
    BY <1>2
  <2>. QED
    BY <1>1, <1>3, <2>1
<1>5. \A i \in KeptOfName(s) : i \in Letters(s) <=> f[i] \in Letters(t)
  BY <1>1, <1>2, <1>3, <1>4, LettersMatch
<1>6. PICK g \in [Letters(s) -> Letters(t)] : \A i \in Letters(s) : g[i] = f[i]
  <2>1. [i \in Letters(s) |-> f[i]] \in [Letters(s) -> Letters(t)]
    BY <1>1, <1>5
  <2>. QED
    BY <2>1
<1>7. g \in Readings(s, Letters(s), t, Letters(t))
  <2>1. \A m \in Letters(t) : \E i \in Letters(s) : g[i] = m
    BY <1>2, <1>3, <1>5, <1>6
  <2>2. \A i \in Letters(s) : Upper(s[i]) = Upper(t[g[i]])
    BY <1>1, <1>3, <1>6
  <2>3. \A i, j \in Letters(s) : i < j => g[i] < g[j]
    BY <1>1, <1>3, <1>6
  <2>. QED
    BY <1>6, <2>1, <2>2, <2>3 DEF Readings
<1>8. ASSUME NEW i \in Letters(s), NEW j \in Letters(s), i < j
      PROVE  Parted(s, i, j) <=> Parted(t, g[i], g[j])
  <2>1. PICK a \in Letters(t), b \in Letters(t) : a = f[i] /\ b = f[j] /\ g[i] = a /\ g[j] = b /\ a < b
    BY <1>1, <1>3, <1>5, <1>6, <1>8
  <2>2. Parted(s, i, j) <=> \E k \in KeptOfName(s) : k \notin Letters(s) /\ i < k /\ k < j
    BY <1>8, PartedByKept
  <2>3. Parted(t, a, b) <=> \E k \in KeptOfName(t) : k \notin Letters(t) /\ a < k /\ k < b
    BY <2>1, PartedByKept
  <2>4. ASSUME NEW k \in KeptOfName(s)
        PROVE  i < k /\ k < j <=> a < f[k] /\ f[k] < b
    <3>1. /\ i < k => f[i] < f[k]
          /\ k < i => f[k] < f[i]
          /\ k < j => f[k] < f[j]
          /\ j < k => f[j] < f[k]
      BY <1>1, <1>3
    <3>2. (i = k => f[i] = f[k]) /\ (j = k => f[j] = f[k])
      OBVIOUS
    <3>3. /\ i \in Int /\ j \in Int /\ k \in Int
          /\ f[i] \in Int /\ f[j] \in Int /\ f[k] \in Int
      BY <1>1, <1>4
    <3>. QED
      BY <2>1, <3>1, <3>2, <3>3
  <2>5. ASSUME NEW k \in KeptOfName(s), k \notin Letters(s), i < k, k < j PROVE Parted(t, a, b)
    BY <1>4, <1>5, <2>3, <2>4, <2>5
  <2>6. ASSUME NEW m \in KeptOfName(t), m \notin Letters(t), a < m, m < b PROVE Parted(s, i, j)
    <3>1. PICK k \in KeptOfName(s) : f[k] = m
      BY <1>3
    <3>. QED
      BY <1>5, <2>2, <2>4, <2>6, <3>1
  <2>. QED
    BY <2>1, <2>2, <2>3, <2>5, <2>6
<1>. QED
  BY <1>7, <1>8 DEF SameName

\* A reading of the letters that parts the same words reads the spaces between
\* them, too.
LEMMA ReadingOfLetters ==
    ASSUME NEW s \in Seq(Alphabet), NEW t \in Seq(Alphabet), SameName(s, t)
    PROVE  Readings(s, KeptOfName(s), t, KeptOfName(t)) # {}
<1>1. PICK L \in Nat : /\ DOMAIN s = 1 .. L /\ KeptOfName(s) \in SUBSET (1 .. L)
                       /\ Letters(s) \in SUBSET KeptOfName(s)
  BY KeptPositions
<1>2. PICK P \in Nat : /\ DOMAIN t = 1 .. P /\ KeptOfName(t) \in SUBSET (1 .. P)
                       /\ Letters(t) \in SUBSET KeptOfName(t)
  BY KeptPositions
<1>3. PICK f \in Readings(s, Letters(s), t, Letters(t)) :
          \A i, j \in Letters(s) : i < j => (Parted(s, i, j) <=> Parted(t, f[i], f[j]))
  BY DEF SameName
<1>4. /\ f \in [Letters(s) -> Letters(t)]
      /\ \A m \in Letters(t) : \E i \in Letters(s) : f[i] = m
      /\ \A i \in Letters(s) : Upper(s[i]) = Upper(t[f[i]])
      /\ \A i, j \in Letters(s) : i < j => f[i] < f[j]
  BY DEF Readings
<1>5. \A i \in Letters(s) : i \in Int /\ f[i] \in Letters(t) /\ f[i] \in Int
  <2>1. \A m \in Letters(t) : m \in Int
    BY <1>2
  <2>. QED
    BY <1>1, <1>4, <2>1
<1>6. \A i, j \in Letters(s) : i < j <=> f[i] < f[j]
  <2>. SUFFICES ASSUME NEW i \in Letters(s), NEW j \in Letters(s) PROVE i < j <=> f[i] < f[j]
    OBVIOUS
  <2>1. (i < j => f[i] < f[j]) /\ (j < i => f[j] < f[i]) /\ (i = j => f[i] = f[j])
    BY <1>4
  <2>. QED
    BY <1>5, <2>1
<1>7. ASSUME NEW i \in Letters(s), NEW j \in Letters(s)
      PROVE  Adjacent(s, i, j) <=> Adjacent(t, f[i], f[j])
  BY <1>4, <1>5, <1>6 DEF Adjacent
<1>8. ASSUME NEW k \in KeptOfName(s), k \notin Letters(s)
      PROVE  /\ k - 1 \in Letters(s)
             /\ f[k - 1] + 1 \in KeptOfName(t) /\ f[k - 1] + 1 \notin Letters(t)
             /\ \A j \in Letters(s) : k < j => f[k - 1] + 1 < f[j]
  <2>1. k - 1 \in Letters(s) /\ k \in Int
    BY <1>1, <1>8, KeptSpace
  <2>2. PICK j \in Letters(s) : Adjacent(s, k - 1, j) /\ Parted(s, k - 1, j) /\ k < j
    BY <1>8, KeptSpace
  <2>3. PICK a \in Letters(t), b \in Letters(t) : a = f[k - 1] /\ b = f[j]
    BY <1>5, <2>1
  <2>4. Adjacent(t, a, b) /\ Parted(t, a, b)
    <3>1. k - 1 < j
      BY <2>2 DEF Adjacent
    <3>. QED
      BY <1>3, <1>7, <2>1, <2>2, <2>3, <3>1
  <2>5. a + 1 \in KeptOfName(t) /\ a + 1 \notin Letters(t) /\ a + 1 < b
    BY <2>4, SpaceIsKept
  <2>6. ASSUME NEW l \in Letters(s), k < l PROVE a + 1 < f[l]
    <3>1. k - 1 < l /\ ~(l < j)
      <4>1. l \in Int /\ j \in Int
        BY <1>5
      <4>2. k - 1 < l
        BY <2>1, <2>6, <4>1
      <4>. QED
        BY <2>2, <4>2 DEF Adjacent
    <3>2. ~(f[l] < b)
      BY <1>6, <2>3, <3>1
    <3>3. a \in Int /\ b \in Int /\ f[l] \in Int
      BY <1>5, <2>1, <2>3
    <3>. QED
      BY <2>5, <3>2, <3>3
  <2>. QED
    BY <2>1, <2>3, <2>5, <2>6
<1>9. PICK g : g = [k \in KeptOfName(s) |-> IF k \in Letters(s) THEN f[k] ELSE f[k - 1] + 1]
  BY Zenon
<1>10. /\ \A k \in KeptOfName(s) : k \in Letters(s) => g[k] = f[k]
       /\ \A k \in KeptOfName(s) : k \notin Letters(s) => g[k] = f[k - 1] + 1
  BY <1>9
<1>11. \A k \in KeptOfName(s) : g[k] \in KeptOfName(t) /\ (k \in Letters(s) <=> g[k] \in Letters(t))
  BY <1>2, <1>5, <1>8, <1>10
<1>12. g \in [KeptOfName(s) -> KeptOfName(t)]
  BY <1>9, <1>11
<1>13. ASSUME NEW m \in KeptOfName(t) PROVE \E k \in KeptOfName(s) : g[k] = m
  <2>1. CASE m \in Letters(t)
    BY <1>1, <1>4, <1>10, <2>1
  <2>2. CASE m \notin Letters(t)
    <3>1. m - 1 \in Letters(t) /\ m \in Int
      BY <1>2, <2>2, KeptSpace
    <3>2. PICK b \in Letters(t) : Adjacent(t, m - 1, b) /\ Parted(t, m - 1, b)
      BY <2>2, KeptSpace
    <3>3. PICK i \in Letters(s), j \in Letters(s) : f[i] = m - 1 /\ f[j] = b
      BY <1>4, <3>1
    <3>4. Adjacent(s, i, j)
      BY <1>7, <3>2, <3>3
    <3>5. Parted(s, i, j)
      BY <1>3, <3>2, <3>3, <3>4 DEF Adjacent
    <3>6. i + 1 \in KeptOfName(s) /\ i + 1 \notin Letters(s)
      BY <3>4, <3>5, SpaceIsKept
    <3>7. g[i + 1] = f[(i + 1) - 1] + 1
      BY <1>10, <3>6
    <3>8. (i + 1) - 1 = i /\ (m - 1) + 1 = m
      BY <1>5, <3>1
    <3>. QED
      BY <3>3, <3>6, <3>7, <3>8
  <2>. QED
    BY <2>1, <2>2
<1>14. ASSUME NEW k \in KeptOfName(s) PROVE Upper(s[k]) = Upper(t[g[k]])
  <2>1. CASE k \in Letters(s)
    BY <1>4, <1>10, <2>1
  <2>2. CASE k \notin Letters(s)
    <3>1. k \in DOMAIN s /\ g[k] \in DOMAIN t
      BY <1>1, <1>2, <1>11
    <3>. QED
      BY <1>11, <2>2, <3>1, LettersMatch
  <2>. QED
    BY <2>1, <2>2
<1>15. ASSUME NEW p \in KeptOfName(s), NEW q \in KeptOfName(s), p < q PROVE g[p] < g[q]
  <2>1. p \in Int /\ q \in Int
    BY <1>1
  <2>2. CASE p \in Letters(s) /\ q \in Letters(s)
    BY <1>4, <1>10, <1>15, <2>2
  <2>3. CASE p \notin Letters(s) /\ q \in Letters(s)
    BY <1>8, <1>10, <1>15, <2>3
  <2>4. CASE q \notin Letters(s)
    <3>1. q - 1 \in Letters(s) /\ g[q] = f[q - 1] + 1 /\ f[q - 1] \in Int
      BY <1>5, <1>8, <1>10, <2>4
    <3>2. p < q - 1 \/ p = q - 1
      BY <1>15, <2>1
    <3>3. CASE p = q - 1
      BY <1>10, <3>1, <3>3
    <3>4. CASE p \in Letters(s) /\ p < q - 1
      <4>1. g[p] = f[p] /\ f[p] \in Int /\ f[p] < f[q - 1]
        BY <1>4, <1>5, <1>10, <3>1, <3>4
      <4>. QED
        BY <3>1, <4>1
    <3>5. CASE p \notin Letters(s) /\ p < q - 1
      <4>1. p - 1 \in Letters(s) /\ g[p] = f[p - 1] + 1 /\ f[p - 1] + 1 < f[q - 1]
        BY <1>8, <1>10, <3>1, <3>5
      <4>2. f[p - 1] \in Int
        BY <1>5, <4>1
      <4>. QED
        BY <3>1, <4>1, <4>2
    <3>. QED
      BY <3>2, <3>3, <3>4, <3>5
  <2>. QED
    BY <2>2, <2>3, <2>4
<1>16. g \in Readings(s, KeptOfName(s), t, KeptOfName(t))
  BY <1>12, <1>13, <1>14, <1>15 DEF Readings
<1>. QED
  BY <1>16

\* NormalizeName takes for one exactly the names that are read alike: the same
\* words, whatever their case and the spaces between them.
THEOREM NamesReadAlike ==
    ASSUME NEW s \in Seq(Alphabet), NEW t \in Seq(Alphabet)
    PROVE  NormalizeName(s) = NormalizeName(t) <=> SameName(s, t)
<1>1. /\ NormalizeName(s) = Uppercase(Keep(s, KeptOfName(s)))
      /\ NormalizeName(t) = Uppercase(Keep(t, KeptOfName(t)))
  BY NormalizedNameIsText
<1>2. KeptOfName(s) \in SUBSET DOMAIN s /\ KeptOfName(t) \in SUBSET DOMAIN t
  BY Zenon DEF KeptOfName
<1>3. NormalizeName(s) = NormalizeName(t)
          <=> Readings(s, KeptOfName(s), t, KeptOfName(t)) # {}
  BY <1>1, <1>2, KeptAlike
<1>. QED
  BY <1>3, LettersOfReading, ReadingOfLetters

LEMMA BarIsText == <<"|">> \in Seq(Alphabet) /\ Len(<<"|">>) = 1 /\ <<"|">>[1] = "|"
<1>1. PICK c \in Alphabet : c = "|"
  BY AnonymizerAssumption
<1>2. <<c>> \in Seq(Alphabet) /\ Len(<<c>>) = 1 /\ <<c>>[1] = c
  OBVIOUS
<1>. QED
  BY <1>1, <1>2

LEMMA JoinedTexts ==
    ASSUME NEW s \in Seq(Alphabet), NEW p \in Seq(Alphabet)
    PROVE  LET u == s \o <<"|">> \o p
           IN  /\ u \in Seq(Alphabet) /\ Len(s) + 1 \in DOMAIN u /\ u[Len(s) + 1] = "|"
               /\ \A i \in 1 .. Len(s) : u[i] = s[i]
<1>1. <<"|">> \in Seq(Alphabet) /\ Len(<<"|">>) = 1 /\ <<"|">>[1] = "|"
  BY BarIsText
<1>2. PICK v \in Seq(Alphabet) : /\ v = s \o <<"|">>
                              /\ Len(v) = Len(s) + 1 /\ v[Len(s) + 1] = "|"
                              /\ \A i \in 1 .. Len(s) : v[i] = s[i]
  <2>1. s \o <<"|">> \in Seq(Alphabet)
    BY <1>1, ConcatProperties
  <2>2. Len(s) \in Nat /\ Len(s \o <<"|">>) = Len(s) + 1
    BY <1>1, ConcatProperties, LenProperties
  <2>3. \A i \in 1 .. Len(s) + 1 : (s \o <<"|">>)[i] = IF i <= Len(s) THEN s[i] ELSE <<"|">>[i - Len(s)]
    BY <1>1, ConcatProperties
  <2>4. (s \o <<"|">>)[Len(s) + 1] = "|"
    BY <1>1, <2>2, <2>3
  <2>5. \A i \in 1 .. Len(s) : (s \o <<"|">>)[i] = s[i]
    BY <2>2, <2>3
  <2>. QED
    BY <2>1, <2>2, <2>4, <2>5
<1>3. /\ v \o p \in Seq(Alphabet) /\ Len(v \o p) = Len(v) + Len(p)
      /\ \A i \in 1 .. Len(v) + Len(p) : (v \o p)[i] = IF i <= Len(v) THEN v[i] ELSE p[i - Len(v)]
  BY ConcatProperties
<1>4. Len(s) \in Nat /\ Len(p) \in Nat /\ DOMAIN (v \o p) = 1 .. Len(v \o p)
  BY <1>3, LenProperties
<1>5. Len(s) + 1 \in DOMAIN (v \o p) /\ (v \o p)[Len(s) + 1] = "|"
  BY <1>2, <1>3, <1>4
<1>6. \A i \in 1 .. Len(s) : (v \o p)[i] = s[i]
  BY <1>2, <1>3, <1>4
<1>. QED
  BY <1>2, <1>3, <1>5, <1>6

LEMMA ConcatCancelsLeft ==
    \A s, t, v \in Seq(Alphabet) : s \o t = s \o v => t = v
  BY ConcatSimplifications

\* The first delimiter ends the first field.
LEMMA DelimiterSplits ==
    ASSUME NEW s \in Seq(Alphabet), NEW t \in Seq(Alphabet), NEW p \in Seq(Alphabet), NEW q \in Seq(Alphabet),
           Undelimited(s), Undelimited(t), s \o <<"|">> \o p = t \o <<"|">> \o q
    PROVE  s = t /\ p = q
<1>1. Len(s) \in Nat /\ Len(t) \in Nat /\ DOMAIN s = 1 .. Len(s) /\ DOMAIN t = 1 .. Len(t)
  BY LenProperties
<1>2. PICK u \in Seq(Alphabet) : /\ u = s \o <<"|">> \o p /\ u[Len(s) + 1] = "|"
                                /\ \A i \in 1 .. Len(s) : u[i] = s[i]
  <2>. DEFINE v == s \o <<"|">> \o p
  <2>1. v \in Seq(Alphabet) /\ v[Len(s) + 1] = "|" /\ \A i \in 1 .. Len(s) : v[i] = s[i]
    BY JoinedTexts
  <2>. QED
    BY <2>1
<1>10. u[Len(t) + 1] = "|" /\ \A i \in 1 .. Len(t) : u[i] = t[i]
  <2>. DEFINE v == t \o <<"|">> \o q
  <2>1. v[Len(t) + 1] = "|" /\ \A i \in 1 .. Len(t) : v[i] = t[i]
    BY JoinedTexts
  <2>. QED
    BY <1>2, <2>1
<1>3. ~(Len(s) < Len(t))
  BY <1>1, <1>2, <1>10 DEF Undelimited
<1>4. ~(Len(t) < Len(s))
  BY <1>1, <1>2, <1>10 DEF Undelimited
<1>5. Len(s) = Len(t) /\ \A i \in 1 .. Len(s) : s[i] = t[i]
  <2>1. \A m, n \in Nat : ~(m < n) /\ ~(n < m) => m = n
    OBVIOUS
  <2>2. Len(s) = Len(t)
    BY <1>1, <1>3, <1>4, <2>1
  <2>. QED
    BY <1>2, <1>10, <2>2
<1>6. s = t
  BY <1>5, SeqEqual
<1>7. <<"|">> \in Seq(Alphabet) /\ s \o <<"|">> \in Seq(Alphabet)
  BY BarIsText, ConcatProperties
<1>8. \A v \in Seq(Alphabet) : v \o p = v \o q => p = q
  BY ConcatCancelsLeft
<1>. QED
  BY <1>6, <1>7, <1>8

LEMMA PrefixCancels ==
    ASSUME NEW c \in Alphabet, NEW s \in Seq(Alphabet), NEW t \in Seq(Alphabet), <<c>> \o s = <<c>> \o t
    PROVE  s = t
<1>1. PICK v \in Seq(Alphabet) : v = <<c>>
  <2>1. <<c>> \in Seq(Alphabet)
    OBVIOUS
  <2>. QED
    BY <2>1
<1>2. \A a, b \in Seq(Alphabet) : v \o a = v \o b => a = b
  BY ConcatCancelsLeft
<1>. QED
  BY <1>1, <1>2

-----------------------------------------------------------------------------
(* What the vendor holds *)

\* A signal is what AnonymizeSignal makes of a request that was accepted.
Backed(z) ==
    /\ z.by \in Gateways /\ z.raw \in Inputs /\ Validate(z.raw)
    /\ z.signal.identity = IdentityMosaic(z.by, z.raw)
    /\ z.signal.destination = DestinationMosaic(z.by, z.raw)
    /\ z.signal.timestamp = BucketTimestamp(z.raw.time)
    /\ z.signal.zone = Zone(z.raw.place)
    /\ ~Blank(z.raw.transactionRef) => z.signal.signalID = SignalID(z.by, z.raw, 0)

\* The fallback of a signal without a reference was drawn when fewer signals
\* had been sent than now.
Drawn(z) ==
    Blank(z.raw.transactionRef) =>
        \E k \in 0 .. Cardinality(sent) - 1 : z.signal.signalID = [random |-> k]

SentInv ==
    /\ IsFiniteSet(sent)
    /\ \A z \in sent : Backed(z) /\ Drawn(z)
    /\ \A x, y \in sent :
           Blank(x.raw.transactionRef) /\ Blank(y.raw.transactionRef)
               /\ x.signal.signalID = y.signal.signalID => x = y

LEMMA SignalFields ==
    ASSUME NEW g, NEW raw, NEW n
    PROVE  LET signal == AnonymizeSignal(g, raw, n)
           IN  /\ signal.signalID = SignalID(g, raw, n)
               /\ signal.identity = IdentityMosaic(g, raw)
               /\ signal.destination = DestinationMosaic(g, raw)
               /\ signal.timestamp = BucketTimestamp(raw.time)
               /\ signal.zone = Zone(raw.place)
  BY Zenon DEF AnonymizeSignal

LEMMA SentStep == SentInv /\ [Next]_sent => SentInv'
<1>. SUFFICES ASSUME SentInv, [Next]_sent PROVE SentInv'
  OBVIOUS
<1>1. CASE UNCHANGED sent
  BY <1>1 DEF SentInv, Drawn
<1>2. ASSUME NEW g \in Gateways, NEW raw \in Inputs, Send(g, raw) PROVE SentInv'
  <2>. DEFINE n == Cardinality(sent)
              z == [by |-> g, raw |-> raw, signal |-> AnonymizeSignal(g, raw, n)]
  <2>1. sent' = sent \cup {z} /\ Validate(raw)
    BY <1>2 DEF Send
  <2>2. z.by = g /\ z.raw = raw /\ z.signal = AnonymizeSignal(g, raw, n)
    OBVIOUS
  <2>. HIDE DEF z
  <2>3. IsFiniteSet(sent') /\ n \in Nat /\ n <= Cardinality(sent')
        /\ (z \notin sent => Cardinality(sent') = n + 1)
    <3>1. IsFiniteSet(sent) /\ n \in Nat
      BY FS_CardinalityType DEF SentInv
    <3>2. IsFiniteSet(sent') /\ Cardinality(sent') = IF z \in sent THEN n ELSE n + 1
      BY <2>1, <3>1, FS_AddElement
    <3>. QED
      BY <3>1, <3>2
  <2>4. Backed(z)
    <3>1. z.signal.identity = IdentityMosaic(g, raw)
          /\ z.signal.destination = DestinationMosaic(g, raw)
          /\ z.signal.timestamp = BucketTimestamp(raw.time) /\ z.signal.zone = Zone(raw.place)
          /\ z.signal.signalID = SignalID(g, raw, n)
      BY <2>2, SignalFields
    <3>2. ~Blank(raw.transactionRef) => SignalID(g, raw, n) = SignalID(g, raw, 0)
      BY DEF SignalID
    <3>. QED
      BY <2>1, <2>2, <3>1, <3>2 DEF Backed
  <2>5. Blank(raw.transactionRef) => z.signal.signalID = [random |-> n]
    <3>1. z.signal.signalID = SignalID(g, raw, n)
      BY <2>2, SignalFields
    <3>. QED
      BY <3>1 DEF SignalID
  <2>6. ASSUME NEW y \in sent, Blank(y.raw.transactionRef), Blank(raw.transactionRef)
        PROVE  y.signal.signalID # z.signal.signalID
    <3>1. PICK k \in 0 .. n - 1 : y.signal.signalID = [random |-> k]
      BY <2>6 DEF SentInv, Drawn
    <3>2. [random |-> k].random # [random |-> n].random
      BY <2>3
    <3>. QED
      BY <2>5, <2>6, <3>1, <3>2
  <2>7. ASSUME NEW y \in sent' PROVE Backed(y) /\ Drawn(y)'
    <3>1. CASE y \in sent
      <4>1. Backed(y) /\ Drawn(y)
        BY <3>1 DEF SentInv
      <4>2. 0 .. n - 1 \subseteq 0 .. Cardinality(sent') - 1
        <5>1. Cardinality(sent') \in Nat
          BY <2>3, FS_CardinalityType
        <5>. QED
          BY <2>3, <5>1
      <4>. QED
        BY <4>1, <4>2 DEF Drawn
    <3>2. CASE y = z
      <4>1. ASSUME Blank(raw.transactionRef) PROVE n \in 0 .. Cardinality(sent') - 1
        <5>1. z \notin sent
          BY <2>2, <2>6, <4>1
        <5>. QED
          BY <2>3, <5>1
      <4>. QED
        BY <2>2, <2>4, <2>5, <3>2, <4>1 DEF Drawn
    <3>. QED
      BY <2>1, <3>1, <3>2
  <2>8. ASSUME NEW x \in sent', NEW y \in sent', Blank(x.raw.transactionRef),
               Blank(y.raw.transactionRef), x.signal.signalID = y.signal.signalID
        PROVE  x = y
    <3>1. CASE x \in sent /\ y \in sent
      BY <2>8, <3>1 DEF SentInv
    <3>2. CASE x = z \/ y = z
      BY <2>1, <2>2, <2>6, <2>8, <3>2
    <3>. QED
      BY <2>1, <3>1, <3>2
  <2>9. \A y \in sent' : Backed(y)' /\ Drawn(y)'
    BY <2>7 DEF Backed
  <2>. QED
    BY <2>3, <2>8, <2>9 DEF SentInv
<1>. QED
  BY <1>1, <1>2 DEF Next

LEMMA SentAlways == Spec => []SentInv
<1>1. Init => SentInv
  BY FS_EmptySet DEF Init, SentInv
<1>. QED
  BY <1>1, SentStep, PTL DEF Spec

\* Geohash: two places on the map have one zone exactly when they lie in one
\* cell, at every precision, the edges of the map included.
THEOREM ZonesAreCells == Spec => []ZoneIsCell
<1>1. SentInv => ZoneIsCell
  <2>. SUFFICES ASSUME SentInv,
                       NEW x \in sent, NEW y \in sent,
                       x.raw.place.kind = "point", y.raw.place.kind = "point"
                PROVE  x.signal.zone = y.signal.zone <=>
                           /\ Cell(x.raw.place.lon, LonBits) = Cell(y.raw.place.lon, LonBits)
                           /\ Cell(x.raw.place.lat, LatBits) = Cell(y.raw.place.lat, LatBits)
    BY DEF ZoneIsCell
  <2>1. LonBits \in Nat /\ LatBits \in Nat
    <3>1. Precision \in Nat
      BY AnonymizerAssumption
    <3>. QED
      BY <3>1 DEF LonBits, LatBits
  <2>2. PICK a \in 0 .. TwoTo[LonBits + 1] : a = x.raw.place.lon
    BY InputsAssumption DEF SentInv, Backed
  <2>3. PICK b \in 0 .. TwoTo[LonBits + 1] : b = y.raw.place.lon
    BY InputsAssumption DEF SentInv, Backed
  <2>4. PICK c \in 0 .. TwoTo[LatBits + 1] : c = x.raw.place.lat
    BY InputsAssumption DEF SentInv, Backed
  <2>5. PICK d \in 0 .. TwoTo[LatBits + 1] : d = y.raw.place.lat
    BY InputsAssumption DEF SentInv, Backed
  <2>6. x.signal.zone = Geohash(c, a)
    BY <2>2, <2>4 DEF SentInv, Backed, Zone
  <2>7. y.signal.zone = Geohash(d, b)
    BY <2>3, <2>5 DEF SentInv, Backed, Zone
  <2>8. Geohash(c, a) = Geohash(d, b) <=>
            /\ Bisect(a, TwoTo[LonBits + 1], LonBits) = Bisect(b, TwoTo[LonBits + 1], LonBits)
            /\ Bisect(c, TwoTo[LatBits + 1], LatBits) = Bisect(d, TwoTo[LatBits + 1], LatBits)
    BY DEF Geohash
  <2>9. Bisect(a, TwoTo[LonBits + 1], LonBits) = Bisect(b, TwoTo[LonBits + 1], LonBits)
            <=> Cell(a, LonBits) = Cell(b, LonBits)
    BY <2>1, SameCellSameBits, SameBitsSameCell
  <2>10. Bisect(c, TwoTo[LatBits + 1], LatBits) = Bisect(d, TwoTo[LatBits + 1], LatBits)
            <=> Cell(c, LatBits) = Cell(d, LatBits)
    BY <2>1, SameCellSameBits, SameBitsSameCell
  <2>. QED
    BY <2>2, <2>3, <2>4, <2>5, <2>6, <2>7, <2>8, <2>9, <2>10
<1>. QED
  BY <1>1, SentAlways, PTL

\* BucketTimestamp: the bucket begins at a quarter of an hour in UTC and holds
\* the instant, for every offset.
THEOREM BucketsHoldInstants == Spec => []BucketHoldsInstant
<1>1. SentInv => BucketHoldsInstant
  <2>. SUFFICES ASSUME SentInv, NEW x \in sent
                PROVE  LET instant == x.raw.time.minutes - x.raw.time.offset
                       IN  /\ x.signal.timestamp % 15 = 0
                           /\ x.signal.timestamp <= instant
                           /\ instant < x.signal.timestamp + 15
    BY DEF BucketHoldsInstant
  <2>1. x.raw.time.minutes \in Int /\ x.raw.time.offset \in Int
    BY InputsAssumption DEF SentInv, Backed
  <2>2. PICK t \in Int : t = x.raw.time.minutes - x.raw.time.offset
    BY <2>1
  <2>3. x.signal.timestamp = (t \div 15) * 15
    BY <2>2 DEF SentInv, Backed, BucketTimestamp
  <2>. QED
    BY <2>2, <2>3
<1>. QED
  BY <1>1, SentAlways, PTL

-----------------------------------------------------------------------------
(* Mosaics *)

LEMMA HashIsIdeal ==
    ASSUME NEW k, NEW m, NEW l, NEW n
    PROVE  HMACHash(k, m) = HMACHash(l, n) <=> k = l /\ m = n
  BY DEF HMACHash

LEMMA PrefixesAreCharacters == {"v3|id|", "v3|local|", "v2|sigid|"} \subseteq Alphabet
  BY AnonymizerAssumption

LEMMA InputTexts ==
    ASSUME NEW raw \in Inputs
    PROVE  /\ raw.id \in Seq(Alphabet) /\ raw.transactionRef \in Seq(Alphabet)
           /\ raw.nationalID \in Seq(Alphabet) /\ raw.counterpartyNationalID \in Seq(Alphabet)
           /\ raw.name \in Seq(Alphabet)
           /\ NormalizeID(raw.id) \in Seq(Alphabet)
           /\ NormalizeID(raw.nationalID) \in Seq(Alphabet)
           /\ NormalizeID(raw.counterpartyNationalID) \in Seq(Alphabet)
           /\ NormalizeName(raw.name) \in Seq(Alphabet)
           /\ Trim(raw.transactionRef) \in Seq(Alphabet)
<1>1. /\ raw.id \in Seq(Alphabet) /\ raw.transactionRef \in Seq(Alphabet)
      /\ raw.nationalID \in Seq(Alphabet) /\ raw.counterpartyNationalID \in Seq(Alphabet)
      /\ raw.name \in Seq(Alphabet)
  BY InputsAssumption
<1>. QED
  BY <1>1, NormalizedIDIsText, NormalizedNameIsText, TrimIsText

LEMMA MosaicFields ==
    ASSUME NEW g \in Gateways, NEW text
    PROVE  /\ NationalIDMosaic(g, text).basis = "national_id"
           /\ NationalIDMosaic(g, text).scope = Keying[g]
           /\ NationalIDMosaic(g, text).hash =
                  HMACHash(IF Keying[g] = "regional" THEN Pepper[g]
                           ELSE mosaicKeyMaterial(Salt[g], Pepper[g]), <<"v3|id|">> \o text)
           /\ LocalMosaic(g, text).basis = "internal_id_fallback"
           /\ LocalMosaic(g, text).scope = "bank"
           /\ LocalMosaic(g, text).hash =
                  HMACHash(mosaicKeyMaterial(Salt[g], Pepper[g]), <<"v3|local|">> \o text)
<1>1. Keying[g] \in {"bank", "regional"}
  BY AnonymizerAssumption
<1>2. CASE Keying[g] = "regional"
  BY <1>2 DEF NationalIDMosaic, LocalMosaic
<1>3. CASE Keying[g] = "bank"
  BY <1>3 DEF NationalIDMosaic, LocalMosaic
<1>. QED
  BY <1>1, <1>2, <1>3

LEMMA SameKeySameText ==
    ASSUME NEW g \in Gateways, NEW h \in Gateways,
           NEW s \in Seq(Alphabet), NEW t \in Seq(Alphabet),
           g = h \/ (Keying[g] = "regional" /\ Keying[h] = "regional" /\ Pepper[g] = Pepper[h])
    PROVE  NationalIDMosaic(g, s).hash = NationalIDMosaic(h, t).hash <=> s = t
<1>1. PICK k : k = IF Keying[g] = "regional" THEN Pepper[g] ELSE mosaicKeyMaterial(Salt[g], Pepper[g])
  BY Zenon
<1>2. NationalIDMosaic(g, s).hash = HMACHash(k, <<"v3|id|">> \o s)
  BY <1>1, MosaicFields
<1>3. NationalIDMosaic(h, t).hash = HMACHash(k, <<"v3|id|">> \o t)
  BY <1>1, MosaicFields
<1>4. PICK c \in Alphabet : c = "v3|id|"
  BY PrefixesAreCharacters
<1>5. <<c>> \o s = <<c>> \o t => s = t
  BY PrefixCancels
<1>6. \A m, n : HMACHash(k, m) = HMACHash(k, n) <=> m = n
  BY HashIsIdeal
<1>7. NationalIDMosaic(g, s).hash = NationalIDMosaic(h, t).hash <=> <<"v3|id|">> \o s = <<"v3|id|">> \o t
  BY <1>2, <1>3, <1>6, Zenon
<1>. QED
  BY <1>4, <1>5, <1>7

LEMMA IdentityCases ==
    ASSUME NEW g \in Gateways, NEW raw
    PROVE  LET m == IdentityMosaic(g, raw)
               nid == NormalizeID(raw.nationalID)
           IN  \/ nid # <<>> /\ m.basis = "national_id" /\ m = NationalIDMosaic(g, nid)
               \/ /\ nid = <<>> /\ m.basis = "internal_id_fallback"
                  /\ m = LocalMosaic(g, NormalizeID(raw.id) \o <<"|">> \o NormalizeName(raw.name))
  BY MosaicFields DEF IdentityMosaic

LEMMA DestinationCases ==
    ASSUME NEW g \in Gateways, NEW raw
    PROVE  LET m == DestinationMosaic(g, raw)
               cn == NormalizeID(raw.counterpartyNationalID)
           IN  \/ cn # <<>> /\ m.basis = "national_id" /\ m = NationalIDMosaic(g, cn)
               \/ /\ m.basis = "internal_id_fallback"
                  /\ m = LocalMosaic(g, NormalizeID(raw.counterpartyID))
               \/ m = NoMosaic /\ m.basis = ""
<1>1. NoMosaic.basis = ""
  BY DEF NoMosaic
<1>. QED
  BY <1>1, MosaicFields DEF DestinationMosaic

LEMMA PeopleByID ==
    ASSUME IDsNamePeople, NEW q \in Inputs, NEW r \in Inputs, NormalizeID(r.nationalID) # <<>>
    PROVE  /\ NormalizeID(q.nationalID) # <<>> =>
                  (NormalizeID(q.nationalID) = NormalizeID(r.nationalID) <=> q.person = r.person)
           /\ NormalizeID(q.counterpartyNationalID) # <<>> =>
                  (NormalizeID(q.counterpartyNationalID) = NormalizeID(r.nationalID)
                       <=> q.payee = r.person)
<1>. DEFINE IDs == {<<p.nationalID, p.person>> : p \in Inputs}
                       \cup {<<p.counterpartyNationalID, p.payee>> : p \in Inputs}
<1>1. \A i, j \in IDs :
          Figures(i[1]) # {} /\ Figures(j[1]) # {} => (SameID(i[1], j[1]) <=> i[2] = j[2])
  BY Zenon DEF IDsNamePeople
<1>2. /\ <<r.nationalID, r.person>> \in IDs
      /\ <<q.nationalID, q.person>> \in IDs
      /\ <<q.counterpartyNationalID, q.payee>> \in IDs
  BY Zenon
<1>. HIDE DEF IDs
<1>3. PICK d \in Seq(Alphabet), e \in Seq(Alphabet), c \in Seq(Alphabet) :
          d = q.nationalID /\ e = r.nationalID /\ c = q.counterpartyNationalID
  BY InputTexts
<1>4. /\ NormalizeID(e) = <<>> <=> Figures(e) = {}
      /\ NormalizeID(d) = <<>> <=> Figures(d) = {}
      /\ NormalizeID(c) = <<>> <=> Figures(c) = {}
      /\ NormalizeID(d) = NormalizeID(e) <=> SameID(d, e)
      /\ NormalizeID(c) = NormalizeID(e) <=> SameID(c, e)
  BY IDsReadAlike
<1>. QED
  BY <1>1, <1>2, <1>3, <1>4

\* Mosaics that may be compared are under one key.
LEMMA ComparableKeys ==
    ASSUME NEW x, NEW y, x.by \in Gateways, y.by \in Gateways, NEW s, NEW t,
           Comparable(x, NationalIDMosaic(x.by, s), y, NationalIDMosaic(y.by, t))
    PROVE  \/ x.by = y.by
           \/ Keying[x.by] = "regional" /\ Keying[y.by] = "regional" /\ Pepper[x.by] = Pepper[y.by]
  BY MosaicFields DEF Comparable

\* identity_mosaic: if a national ID names one person, who has no other, the
\* vendor joins exactly the signals about one person, at any number of banks,
\* however the IDs were typed.
THEOREM MosaicsJoin == ASSUME IDsNamePeople PROVE Spec => []MosaicsJoinPeople
<1>1. SentInv => MosaicsJoinPeople
  <2>. SUFFICES ASSUME SentInv, NEW x \in sent, NEW y \in sent,
                       Comparable(x, x.signal.identity, y, y.signal.identity)
                PROVE  x.signal.identity.hash = y.signal.identity.hash
                           <=> x.raw.person = y.raw.person
    BY DEF MosaicsJoinPeople
  <2>1. /\ x.by \in Gateways /\ x.raw \in Inputs /\ y.by \in Gateways /\ y.raw \in Inputs
        /\ x.signal.identity = IdentityMosaic(x.by, x.raw)
        /\ y.signal.identity = IdentityMosaic(y.by, y.raw)
    BY DEF SentInv, Backed
  <2>2. x.signal.identity.basis = "national_id" /\ y.signal.identity.basis = "national_id"
    BY DEF Comparable
  <2>3. PICK s \in Seq(Alphabet) : /\ s # <<>> /\ s = NormalizeID(x.raw.nationalID)
                                   /\ x.signal.identity = NationalIDMosaic(x.by, s)
    BY <2>1, <2>2, IdentityCases, InputTexts
  <2>4. PICK t \in Seq(Alphabet) : /\ t # <<>> /\ t = NormalizeID(y.raw.nationalID)
                                   /\ y.signal.identity = NationalIDMosaic(y.by, t)
    BY <2>1, <2>2, IdentityCases, InputTexts
  <2>5. x.signal.identity.hash = y.signal.identity.hash <=> s = t
    <3>1. Comparable(x, NationalIDMosaic(x.by, s), y, NationalIDMosaic(y.by, t))
      BY <2>3, <2>4
    <3>2. NationalIDMosaic(x.by, s).hash = NationalIDMosaic(y.by, t).hash <=> s = t
      <4>1. PICK g \in Gateways, h \in Gateways : g = x.by /\ h = y.by
        BY <2>1
      <4>2. g = h \/ (Keying[g] = "regional" /\ Keying[h] = "regional" /\ Pepper[g] = Pepper[h])
        BY <2>1, <3>1, <4>1, ComparableKeys
      <4>3. NationalIDMosaic(g, s).hash = NationalIDMosaic(h, t).hash <=> s = t
        BY <4>2, SameKeySameText
      <4>. QED
        BY <4>1, <4>3
    <3>. QED
      BY <2>3, <2>4, <3>2
  <2>6. s = t <=> x.raw.person = y.raw.person
    BY <2>1, <2>3, <2>4, PeopleByID
  <2>. QED
    BY <2>5, <2>6
<1>. QED
  BY <1>1, SentAlways, PTL

\* destination_mosaic: under the same hypothesis money can be followed from a
\* payment to the payee's own signals, and to nobody else's.
THEOREM RoutesJoin == ASSUME IDsNamePeople PROVE Spec => []RoutesCanBeFollowed
<1>1. SentInv => RoutesCanBeFollowed
  <2>. SUFFICES ASSUME SentInv, NEW x \in sent, NEW y \in sent,
                       Comparable(x, x.signal.destination, y, y.signal.identity)
                PROVE  x.signal.destination.hash = y.signal.identity.hash
                           <=> x.raw.payee = y.raw.person
    BY DEF RoutesCanBeFollowed
  <2>1. /\ x.by \in Gateways /\ x.raw \in Inputs /\ y.by \in Gateways /\ y.raw \in Inputs
        /\ x.signal.destination = DestinationMosaic(x.by, x.raw)
        /\ y.signal.identity = IdentityMosaic(y.by, y.raw)
    BY DEF SentInv, Backed
  <2>2. x.signal.destination.basis = "national_id" /\ y.signal.identity.basis = "national_id"
    BY DEF Comparable
  <2>3. PICK s \in Seq(Alphabet) : /\ s # <<>> /\ s = NormalizeID(x.raw.counterpartyNationalID)
                                   /\ x.signal.destination = NationalIDMosaic(x.by, s)
    BY <2>1, <2>2, DestinationCases, InputTexts
  <2>4. PICK t \in Seq(Alphabet) : /\ t # <<>> /\ t = NormalizeID(y.raw.nationalID)
                                   /\ y.signal.identity = NationalIDMosaic(y.by, t)
    BY <2>1, <2>2, IdentityCases, InputTexts
  <2>5. x.signal.destination.hash = y.signal.identity.hash <=> s = t
    <3>1. Comparable(x, NationalIDMosaic(x.by, s), y, NationalIDMosaic(y.by, t))
      BY <2>3, <2>4
    <3>2. NationalIDMosaic(x.by, s).hash = NationalIDMosaic(y.by, t).hash <=> s = t
      <4>1. PICK g \in Gateways, h \in Gateways : g = x.by /\ h = y.by
        BY <2>1
      <4>2. g = h \/ (Keying[g] = "regional" /\ Keying[h] = "regional" /\ Pepper[g] = Pepper[h])
        BY <2>1, <3>1, <4>1, ComparableKeys
      <4>3. NationalIDMosaic(g, s).hash = NationalIDMosaic(h, t).hash <=> s = t
        BY <4>2, SameKeySameText
      <4>. QED
        BY <4>1, <4>3
    <3>. QED
      BY <2>3, <2>4, <3>2
  <2>6. s = t <=> x.raw.payee = y.raw.person
    BY <2>1, <2>3, <2>4, PeopleByID
  <2>. QED
    BY <2>5, <2>6
<1>. QED
  BY <1>1, SentAlways, PTL

-----------------------------------------------------------------------------
(* Keys *)

\* The delimiter between salt and pepper keeps the keys of two gateways apart.
LEMMA KeysApart ==
    ASSUME SecretsApart, NEW g \in Gateways, NEW h \in Gateways, g # h
    PROVE  /\ mosaicKeyMaterial(Salt[g], Pepper[g]) # mosaicKeyMaterial(Salt[h], Pepper[h])
           /\ mosaicKeyMaterial(Salt[g], Pepper[g]) # Pepper[h]
<1>1. PICK s \in Seq(Alphabet), t \in Seq(Alphabet), p \in Seq(Alphabet), q \in Seq(Alphabet) :
          s = Salt[g] /\ t = Salt[h] /\ p = Pepper[g] /\ q = Pepper[h]
  BY AnonymizerAssumption
<1>2. /\ Undelimited(s) /\ Undelimited(t) /\ Undelimited(q)
      /\ s # t /\ s # q
  BY <1>1, AnonymizerAssumption DEF SecretsApart
<1>3. \A u, v, w \in Seq(Alphabet) : Undelimited(w) => u \o <<"|">> \o v # w
  <2>. SUFFICES ASSUME NEW u \in Seq(Alphabet), NEW v \in Seq(Alphabet), NEW w \in Seq(Alphabet),
                       u \o <<"|">> \o v = w
                PROVE  ~Undelimited(w)
    OBVIOUS
  <2>1. Len(u) + 1 \in DOMAIN w /\ w[Len(u) + 1] = "|"
    BY JoinedTexts
  <2>. QED
    BY <2>1 DEF Undelimited
<1>4. s \o <<"|">> \o p # t \o <<"|">> \o q
  BY <1>2, DelimiterSplits
<1>5. s \o <<"|">> \o p # t /\ s \o <<"|">> \o p # q /\ t \o <<"|">> \o q # s
  BY <1>2, <1>3
<1>6. /\ mosaicKeyMaterial(s, p) \in {s, s \o <<"|">> \o p}
      /\ mosaicKeyMaterial(t, q) \in {t, t \o <<"|">> \o q}
  BY DEF mosaicKeyMaterial
<1>7. mosaicKeyMaterial(s, p) # mosaicKeyMaterial(t, q) /\ mosaicKeyMaterial(s, p) # q
  BY <1>2, <1>4, <1>5, <1>6
<1>. QED
  BY <1>1, <1>7

\* Every mosaic is a hash under the key of its scope, or none.
Keyed(g, m) ==
    \E k, message :
        /\ m.hash = HMACHash(k, message)
        /\ k \in {mosaicKeyMaterial(Salt[g], Pepper[g]), Pepper[g]}
        /\ m.scope = "bank" => k = mosaicKeyMaterial(Salt[g], Pepper[g])

LEMMA MosaicsAreKeyed ==
    ASSUME NEW g \in Gateways, NEW text
    PROVE  Keyed(g, NationalIDMosaic(g, text)) /\ Keyed(g, LocalMosaic(g, text))
<1>1. Keying[g] \in {"bank", "regional"}
  BY AnonymizerAssumption
<1>2. Keyed(g, LocalMosaic(g, text))
  BY MosaicFields DEF Keyed
<1>3. CASE Keying[g] = "regional"
  <2>1. /\ NationalIDMosaic(g, text).hash = HMACHash(Pepper[g], <<"v3|id|">> \o text)
        /\ NationalIDMosaic(g, text).scope = "regional"
    BY <1>3, MosaicFields
  <2>. QED
    BY <1>2, <2>1 DEF Keyed
<1>4. CASE Keying[g] = "bank"
  <2>1. NationalIDMosaic(g, text).hash =
            HMACHash(mosaicKeyMaterial(Salt[g], Pepper[g]), <<"v3|id|">> \o text)
    BY <1>4, MosaicFields
  <2>. QED
    BY <1>2, <2>1 DEF Keyed
<1>. QED
  BY <1>1, <1>3, <1>4

LEMMA SentMosaicsAreKeyed ==
    ASSUME NEW z, Backed(z), NEW m \in {z.signal.identity, z.signal.destination}
    PROVE  Keyed(z.by, m) \/ m = NoMosaic
<1>1. PICK g \in Gateways : g = z.by
  BY DEF Backed
<1>2. CASE m = z.signal.identity
  BY <1>1, <1>2, IdentityCases, MosaicsAreKeyed DEF Backed
<1>3. CASE m = z.signal.destination
  <2>1. m = DestinationMosaic(g, z.raw)
    BY <1>1, <1>3 DEF Backed
  <2>2. \/ \E text : m = NationalIDMosaic(g, text)
        \/ \E text : m = LocalMosaic(g, text)
        \/ m = NoMosaic
    BY <2>1, DestinationCases, Zenon
  <2>. QED
    BY <1>1, <2>2, MosaicsAreKeyed
<1>. QED
  BY <1>2, <1>3

LEMMA NoHash == \A k, message : HMACHash(k, message) # NoMosaic.hash
<1>. SUFFICES ASSUME NEW k, NEW message PROVE HMACHash(k, message) # NoMosaic.hash
  OBVIOUS
<1>1. NoMosaic.hash = <<>> /\ DOMAIN <<>> = {}
  BY DEF NoMosaic
<1>2. "key" \in DOMAIN HMACHash(k, message)
  BY DEF HMACHash
<1>. QED
  BY <1>1, <1>2

\* mosaicKeyMaterial: if the secrets are free of the delimiter and nobody's
\* salt is another's pepper, no mosaic of scope "bank" is ever met at another
\* gateway.
THEOREM BankScopeStays == ASSUME SecretsApart PROVE Spec => []BankScopeStaysInBank
<1>1. SentInv => BankScopeStaysInBank
  <2>. SUFFICES ASSUME SentInv, NEW x \in sent, NEW y \in sent, x.by # y.by,
                       NEW m \in {x.signal.identity, x.signal.destination} \ {NoMosaic},
                       NEW n \in {y.signal.identity, y.signal.destination},
                       m.scope = "bank", m.hash = n.hash
                PROVE  FALSE
    BY DEF BankScopeStaysInBank
  <2>1. Backed(x) /\ Backed(y) /\ Keyed(x.by, m) /\ (Keyed(y.by, n) \/ n = NoMosaic)
    BY SentMosaicsAreKeyed DEF SentInv
  <2>2. PICK g \in Gateways, h \in Gateways : g = x.by /\ h = y.by /\ g # h
    BY <2>1 DEF Backed
  <2>3. PICK message : m.hash = HMACHash(mosaicKeyMaterial(Salt[g], Pepper[g]), message)
    BY <2>1, <2>2 DEF Keyed
  <2>4. n # NoMosaic
    BY <2>3, NoHash
  <2>5. PICK k \in {mosaicKeyMaterial(Salt[h], Pepper[h]), Pepper[h]} :
            \E other : n.hash = HMACHash(k, other)
    BY <2>1, <2>2, <2>4 DEF Keyed
  <2>6. k = mosaicKeyMaterial(Salt[g], Pepper[g])
    <3>1. PICK other : n.hash = HMACHash(k, other)
      BY <2>5
    <3>2. PICK l : l = mosaicKeyMaterial(Salt[g], Pepper[g])
      BY Zenon
    <3>3. HMACHash(l, message) = HMACHash(k, other)
      BY <2>3, <3>1, <3>2
    <3>4. l = k
      BY <3>3, HashIsIdeal
    <3>. QED
      BY <3>2, <3>4
  <2>. QED
    BY <2>2, <2>5, <2>6, KeysApart
<1>. QED
  BY <1>1, SentAlways, PTL

-----------------------------------------------------------------------------
(* Signal IDs and fallbacks *)

LEMMA SignalIDHashes ==
    ASSUME NEW g \in Gateways, NEW h \in Gateways, NEW q \in Inputs, NEW r \in Inputs,
           ~Blank(q.transactionRef), ~Blank(r.transactionRef)
    PROVE  SignalID(g, q, 0) = SignalID(h, r, 0)
               <=> g = h /\ Trim(q.transactionRef) = Trim(r.transactionRef)
<1>1. PICK s \in Seq(Alphabet), t \in Seq(Alphabet) :
          s = Trim(q.transactionRef) /\ t = Trim(r.transactionRef)
  BY InputTexts
<1>2. /\ SignalID(g, q, 0) = HMACHash(Salt[g], <<"v2|sigid|">> \o s)
      /\ SignalID(h, r, 0) = HMACHash(Salt[h], <<"v2|sigid|">> \o t)
  BY <1>1 DEF SignalID
<1>3. SignalID(g, q, 0) = SignalID(h, r, 0)
          <=> Salt[g] = Salt[h] /\ <<"v2|sigid|">> \o s = <<"v2|sigid|">> \o t
  <2>1. PICK k, l, m, n : /\ k = Salt[g] /\ m = <<"v2|sigid|">> \o s
                          /\ l = Salt[h] /\ n = <<"v2|sigid|">> \o t
    BY Zenon
  <2>2. HMACHash(k, m) = HMACHash(l, n) <=> k = l /\ m = n
    BY HashIsIdeal
  <2>. QED
    BY <1>2, <2>1, <2>2
<1>4. Salt[g] = Salt[h] <=> g = h
  BY AnonymizerAssumption
<1>5. PICK c \in Alphabet : c = "v2|sigid|"
  BY PrefixesAreCharacters
<1>6. <<c>> \o s = <<c>> \o t => s = t
  BY PrefixCancels
<1>. QED
  BY <1>1, <1>3, <1>4, <1>5, <1>6

\* Only a blank text is trimmed to nothing.
LEMMA TrimKeepsWords ==
    ASSUME NEW s \in Seq(Alphabet)
    PROVE  1 \in DOMAIN Trim(s) <=> ~Blank(s)
<1>. DEFINE words == {i \in DOMAIN s : s[i] # " "}
            kept == {i \in DOMAIN s : \E a, b \in words : a <= i /\ i <= b}
<1>1. DOMAIN s = 1 .. Len(s) /\ Len(s) \in Nat
  BY LenProperties
<1>2. kept = {} <=> Blank(s)
  <2>1. ASSUME NEW i \in words PROVE i \in kept
    <3>1. i \in DOMAIN s /\ i <= i
      <4>1. i \in DOMAIN s
        BY Zenon
      <4>. HIDE DEF words
      <4>2. i \in Int
        BY <1>1, <4>1
      <4>. QED
        BY <4>1, <4>2
    <3>. QED
      BY <3>1
  <2>2. words = {} <=> Blank(s)
    BY DEF Blank
  <2>3. words = {} => kept = {}
    OBVIOUS
  <2>. QED
    BY <2>1, <2>2, <2>3
<1>3. IsFiniteSet(kept) /\ Cardinality(kept) \in Nat
  <2>1. IsFiniteSet(DOMAIN s)
    BY <1>1, FS_Interval
  <2>2. IsFiniteSet(kept)
    BY <2>1, FS_Subset
  <2>. QED
    BY <2>2, FS_CardinalityType
<1>4. DOMAIN Trim(s) = 1 .. Cardinality(kept)
  BY Zenon DEF Trim, Keep
<1>. HIDE DEF kept
<1>5. Cardinality(kept) = 0 <=> kept = {}
  BY <1>3, FS_EmptySet
<1>. QED
  BY <1>2, <1>3, <1>4, <1>5

LEMMA RandomIsNoHash == \A k, m, n : [random |-> n] # HMACHash(k, m)
<1>. SUFFICES ASSUME NEW k, NEW m, NEW n PROVE [random |-> n] # HMACHash(k, m)
  OBVIOUS
<1>1. "key" \in DOMAIN HMACHash(k, m) /\ "key" \notin DOMAIN [random |-> n]
  BY DEF HMACHash
<1>. QED
  BY <1>1

\* signal_id: equal exactly for one gateway's retries of one reference, however
\* many signals were sent.
THEOREM SignalIDsKey == Spec => []SignalIDsAreKeys
<1>1. SentInv => SignalIDsAreKeys
  <2>. SUFFICES ASSUME SentInv, NEW x \in sent, NEW y \in sent, x # y
                PROVE  x.signal.signalID = y.signal.signalID <=>
                           /\ x.by = y.by
                           /\ ~Blank(x.raw.transactionRef)
                           /\ Trim(x.raw.transactionRef) = Trim(y.raw.transactionRef)
    BY DEF SignalIDsAreKeys
  <2>1. /\ x.by \in Gateways /\ x.raw \in Inputs /\ y.by \in Gateways /\ y.raw \in Inputs
        /\ ~Blank(x.raw.transactionRef) => x.signal.signalID = SignalID(x.by, x.raw, 0)
        /\ ~Blank(y.raw.transactionRef) => y.signal.signalID = SignalID(y.by, y.raw, 0)
    BY DEF SentInv, Backed
  <2>2. 1 \in DOMAIN Trim(x.raw.transactionRef) <=> ~Blank(x.raw.transactionRef)
    BY <2>1, InputTexts, TrimKeepsWords
  <2>3. 1 \in DOMAIN Trim(y.raw.transactionRef) <=> ~Blank(y.raw.transactionRef)
    BY <2>1, InputTexts, TrimKeepsWords
  <2>4. CASE ~Blank(x.raw.transactionRef) /\ ~Blank(y.raw.transactionRef)
    BY <2>1, <2>4, SignalIDHashes
  <2>5. CASE Blank(x.raw.transactionRef) /\ Blank(y.raw.transactionRef)
    BY <2>5 DEF SentInv
  <2>6. CASE Blank(x.raw.transactionRef) /\ ~Blank(y.raw.transactionRef)
    <3>1. (\E n : x.signal.signalID = [random |-> n]) /\ y.signal.signalID = SignalID(y.by, y.raw, 0)
      BY <2>1, <2>6 DEF SentInv, Drawn
    <3>. QED
      BY <2>6, <3>1, RandomIsNoHash DEF SignalID
  <2>7. CASE ~Blank(x.raw.transactionRef) /\ Blank(y.raw.transactionRef)
    <3>1. (\E n : y.signal.signalID = [random |-> n]) /\ x.signal.signalID = SignalID(x.by, x.raw, 0)
      BY <2>1, <2>7 DEF SentInv, Drawn
    <3>2. x.signal.signalID # y.signal.signalID
      BY <2>7, <3>1, RandomIsNoHash DEF SignalID
    <3>. QED
      BY <2>2, <2>3, <2>7, <3>2
  <2>. QED
    BY <2>4, <2>5, <2>6, <2>7
<1>. QED
  BY <1>1, SentAlways, PTL

LEMMA LocalTexts ==
    ASSUME NEW g \in Gateways, NEW s \in Seq(Alphabet), NEW t \in Seq(Alphabet)
    PROVE  LocalMosaic(g, s).hash = LocalMosaic(g, t).hash <=> s = t
<1>1. PICK k : k = mosaicKeyMaterial(Salt[g], Pepper[g])
  BY Zenon
<1>2. /\ LocalMosaic(g, s).hash = HMACHash(k, <<"v3|local|">> \o s)
      /\ LocalMosaic(g, t).hash = HMACHash(k, <<"v3|local|">> \o t)
  BY <1>1, MosaicFields
<1>3. LocalMosaic(g, s).hash = LocalMosaic(g, t).hash
          <=> <<"v3|local|">> \o s = <<"v3|local|">> \o t
  <2>1. \A m, n : HMACHash(k, m) = HMACHash(k, n) <=> m = n
    BY HashIsIdeal
  <2>. QED
    BY <1>2, <2>1, Zenon
<1>4. PICK c \in Alphabet : c = "v3|local|"
  BY PrefixesAreCharacters
<1>5. <<c>> \o s = <<c>> \o t => s = t
  BY PrefixCancels
<1>. QED
  BY <1>3, <1>4, <1>5

\* What stands behind a fallback mosaic.
LEMMA FallbackBehind ==
    ASSUME SentInv, NEW z \in sent, z.signal.identity.basis = "internal_id_fallback",
           Undelimited(z.raw.id)
    PROVE  /\ z.by \in Gateways /\ z.raw \in Inputs /\ Validate(z.raw)
           /\ NormalizeID(z.raw.nationalID) = <<>>
           /\ \E i \in Seq(Alphabet), n \in Seq(Alphabet) :
                  /\ i = NormalizeID(z.raw.id) /\ n = NormalizeName(z.raw.name) /\ Undelimited(i)
                  /\ z.signal.identity = LocalMosaic(z.by, i \o <<"|">> \o n)
                  /\ i \o <<"|">> \o n \in Seq(Alphabet)
<1>1. z.by \in Gateways /\ z.raw \in Inputs /\ Validate(z.raw)
      /\ z.signal.identity = IdentityMosaic(z.by, z.raw)
  BY DEF SentInv, Backed
<1>2. /\ NormalizeID(z.raw.nationalID) = <<>>
      /\ z.signal.identity =
             LocalMosaic(z.by, NormalizeID(z.raw.id) \o <<"|">> \o NormalizeName(z.raw.name))
  BY <1>1, IdentityCases
<1>3. PICK i \in Seq(Alphabet), n \in Seq(Alphabet) :
          i = NormalizeID(z.raw.id) /\ n = NormalizeName(z.raw.name) /\ Undelimited(i)
  BY <1>1, InputTexts, NormalizedIDIsText
<1>4. i \o <<"|">> \o n \in Seq(Alphabet)
  BY JoinedTexts
<1>. QED
  BY <1>1, <1>2, <1>3, <1>4

\* identity_mosaic without a national ID: if identifier and name together name
\* one customer of the gateway, no two customers share a fallback mosaic and
\* none has two, as long as neither field contains the delimiter.
THEOREM FallbacksTell == ASSUME CustomersAreTold PROVE Spec => []FallbackUnambiguous
<1>1. SentInv => FallbackUnambiguous
  <2>. SUFFICES ASSUME SentInv, NEW x \in sent, NEW y \in sent,
                       x.signal.identity.basis = "internal_id_fallback",
                       y.signal.identity.basis = "internal_id_fallback",
                       Undelimited(x.raw.id), Undelimited(x.raw.name),
                       Undelimited(y.raw.id), Undelimited(y.raw.name), x.by = y.by
                PROVE  x.signal.identity.hash = y.signal.identity.hash
                           <=> x.raw.person = y.raw.person
    BY DEF FallbackUnambiguous
  <2>1. PICK g \in Gateways : g = x.by
    BY FallbackBehind
  <2>2. PICK i \in Seq(Alphabet), n \in Seq(Alphabet) :
            /\ i = NormalizeID(x.raw.id) /\ n = NormalizeName(x.raw.name) /\ Undelimited(i)
            /\ x.signal.identity = LocalMosaic(g, i \o <<"|">> \o n)
            /\ i \o <<"|">> \o n \in Seq(Alphabet)
    BY <2>1, FallbackBehind
  <2>3. PICK j \in Seq(Alphabet), m \in Seq(Alphabet) :
            /\ j = NormalizeID(y.raw.id) /\ m = NormalizeName(y.raw.name) /\ Undelimited(j)
            /\ y.signal.identity = LocalMosaic(g, j \o <<"|">> \o m)
            /\ j \o <<"|">> \o m \in Seq(Alphabet)
    BY <2>1, FallbackBehind
  <2>4. x.signal.identity.hash = y.signal.identity.hash
            <=> i \o <<"|">> \o n = j \o <<"|">> \o m
    <3>1. \A a, b \in Seq(Alphabet) : LocalMosaic(g, a).hash = LocalMosaic(g, b).hash <=> a = b
      BY LocalTexts
    <3>2. PICK a \in Seq(Alphabet), b \in Seq(Alphabet) :
              a = i \o <<"|">> \o n /\ b = j \o <<"|">> \o m
      BY <2>2, <2>3
    <3>3. LocalMosaic(g, a).hash = LocalMosaic(g, b).hash <=> a = b
      BY <3>1
    <3>. QED
      BY <2>2, <2>3, <3>2, <3>3
  <2>5. i \o <<"|">> \o n = j \o <<"|">> \o m <=> i = j /\ n = m
    <3>1. Undelimited(i) /\ Undelimited(j)
      BY <2>2, <2>3
    <3>2. i \o <<"|">> \o n = j \o <<"|">> \o m => i = j /\ n = m
      BY <3>1, DelimiterSplits
    <3>. QED
      BY <3>2
  <2>6. i = j /\ n = m <=> x.raw.person = y.raw.person
    <3>1. /\ x.raw \in Inputs /\ y.raw \in Inputs /\ Validate(x.raw) /\ Validate(y.raw)
          /\ Figures(x.raw.nationalID) = {} /\ Figures(y.raw.nationalID) = {}
      BY FallbackBehind, InputTexts, IDsReadAlike
    <3>2. SameID(x.raw.id, y.raw.id) /\ SameName(x.raw.name, y.raw.name)
              <=> x.raw.person = y.raw.person
      BY <3>1 DEF CustomersAreTold
    <3>3. /\ i = j <=> SameID(x.raw.id, y.raw.id)
          /\ n = m <=> SameName(x.raw.name, y.raw.name)
      <4>1. PICK a \in Seq(Alphabet), b \in Seq(Alphabet), c \in Seq(Alphabet), d \in Seq(Alphabet) :
                a = x.raw.id /\ b = y.raw.id /\ c = x.raw.name /\ d = y.raw.name
        BY <3>1, InputTexts
      <4>2. NormalizeID(a) = NormalizeID(b) <=> SameID(a, b)
        BY IDsReadAlike
      <4>3. NormalizeName(c) = NormalizeName(d) <=> SameName(c, d)
        BY NamesReadAlike
      <4>. QED
        BY <2>2, <2>3, <4>1, <4>2, <4>3
    <3>. QED
      BY <3>2, <3>3
  <2>. QED
    BY <2>4, <2>5, <2>6
<1>. QED
  BY <1>1, SentAlways, PTL

=============================================================================
