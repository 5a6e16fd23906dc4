--------------------------- MODULE ExternalProofs ---------------------------
(***************************************************************************)
(* The ledger of one external case, for all offices, staff, times and any  *)
(* number of dispatches.                                                   *)
(*                                                                         *)
(* The history is inductive with one more fact, Worked: there is work only *)
(* under a custody that began, and none of it from the future.  So a       *)
(* receipt reported late finds no work under its step, and a dispatch at   *)
(* or after LatestActual is later than all that is known.  The notices     *)
(* name ResponsibleOffice, which corrections leave alone because they do   *)
(* not change an inside recipient.                                         *)
(*                                                                         *)
(* That the report charges every moment once needs the order of the turns  *)
(* as well (TurnsInv): a reopening meets the dispatch its completion left, *)
(* so a pause lies within one custody, and a case ends with its last       *)
(* completion.  Waits, custodies and pauses then tile the time from the    *)
(* first dispatch to the end of the case.                                  *)
(***************************************************************************)
EXTENDS ExternalTracking, WellFoundedInduction, TLAPS

-----------------------------------------------------------------------------
(* Greatest and least elements *)

\* A bounded set of natural numbers has a greatest element, and Max returns it.
LEMMA MaxOfBounded ==
    ASSUME NEW n \in Nat, NEW T \in SUBSET (0..n), T # {}
    PROVE  Max(T) \in T /\ \A t \in T : t <= Max(T)
<1> DEFINE R == {ss \in Nat \X Nat : ss[1] < ss[2]}
           D == {n - t : t \in T}
<1>1. IsWellFoundedOn(R, Nat)
  <2>1. R = OpToRel(<, Nat)
    BY DEF OpToRel
  <2> QED BY <2>1, NatLessThanWellFounded
<1>2. D \subseteq Nat /\ D # {}
  <2>1. PICK t \in T : TRUE
    OBVIOUS
  <2>2. n - t \in D
    OBVIOUS
  <2>3. \A u \in T : n - u \in Nat
    OBVIOUS
  <2> QED BY <2>2, <2>3
<1>3. \E d \in D : \A e \in D : ~(<<e, d>> \in R)
  <2> HIDE DEF D, R
  <2> QED BY <1>1, <1>2, WFMin
<1>4. PICK d \in D : \A e \in D : ~(<<e, d>> \in R)
  BY <1>3
<1>5. \A e \in D : d <= e
  <2>1. ASSUME NEW e \in D PROVE d <= e
    <3>1. e \in Nat /\ d \in Nat
      BY <1>2
    <3>2. ~(<<e, d>> \in R)
      BY <1>4
    <3> QED BY <3>1, <3>2
  <2> QED BY <2>1
<1>6. PICK x \in T : d = n - x
  BY <1>4
<1>7. \A t \in T : x >= t
  <2>1. ASSUME NEW t \in T PROVE x >= t
    <3>1. n - t \in D
      OBVIOUS
    <3>2. d <= n - t
      BY <1>5, <3>1
    <3> HIDE DEF D
    <3> QED BY <1>6, <3>2
  <2> QED BY <2>1
<1>8. \A y \in T : Max(T) >= y /\ Max(T) \in T
  <2> HIDE DEF D
  <2> QED BY <1>7 DEF Max
<1> QED BY <1>8

\* A set of natural numbers has a least element, and Min returns it.
LEMMA MinOfNat ==
    ASSUME NEW T \in SUBSET Nat, T # {}
    PROVE  Min(T) \in T /\ \A t \in T : Min(T) <= t
<1> DEFINE R == {ss \in Nat \X Nat : ss[1] < ss[2]}
<1>1. IsWellFoundedOn(R, Nat)
  <2>1. R = OpToRel(<, Nat)
    BY DEF OpToRel
  <2> QED BY <2>1, NatLessThanWellFounded
<1>2. PICK d \in T : \A e \in T : ~(<<e, d>> \in R)
  <2> HIDE DEF R
  <2> QED BY <1>1, WFMin
<1>3. ASSUME NEW e \in T PROVE d <= e
  <2>1. e \in Nat /\ d \in Nat /\ ~(<<e, d>> \in R)
    BY <1>2
  <2> QED BY <2>1
<1> QED BY <1>3 DEF Min

LEMMA OfTwo ==
    ASSUME NEW a \in Nat, NEW b \in Nat
    PROVE  /\ Min({a, b}) = IF a <= b THEN a ELSE b
           /\ Max({a, b}) = IF a >= b THEN a ELSE b
BY DEF Min, Max

-----------------------------------------------------------------------------
(* Sums over sequences *)

\* A set of numbers with 0 and each next number up to n has all up to n.
LEMMA UpTo ==
    ASSUME NEW n \in Nat, NEW P, 0 \in P, \A k \in 1..n : k - 1 \in P => k \in P
    PROVE  \A k \in 0..n : k \in P
<1> DEFINE R == {ss \in Nat \X Nat : ss[1] < ss[2]}
           D == {k \in 0..n : k \notin P}
<1>1. IsWellFoundedOn(R, Nat)
  <2>1. R = OpToRel(<, Nat)
    BY DEF OpToRel
  <2> QED BY <2>1, NatLessThanWellFounded
<1>2. SUFFICES ASSUME D # {} PROVE FALSE
  OBVIOUS
<1>3. D \subseteq Nat
  OBVIOUS
<1>4. PICK d \in D : \A e \in D : ~(<<e, d>> \in R)
  <2> HIDE DEF D, R
  <2> QED BY <1>1, <1>2, <1>3, WFMin
<1>5. d \in Nat /\ d # 0 /\ d <= n /\ d \notin P
  OBVIOUS
<1>6. d - 1 \notin P
  BY <1>5
<1>7. d - 1 \in D /\ <<d - 1, d>> \in R
  BY <1>5, <1>6
<1> QED BY <1>4, <1>7

\* The running sums of a sequence.
Sums(f, n) ==
    {s \in [0..n -> Int] : s[0] = 0 /\ \A k \in 1..n : s[k] = s[k - 1] + f[k]}

LEMMA SumsExist ==
    ASSUME NEW n \in Nat, NEW f \in [1..n -> Int]
    PROVE  \E s : s \in Sums(f, n)
<1> DEFINE P == {m \in 0..n : \E s : s \in Sums(f, m)}
<1>1. 0 \in P
  <2>1. [k \in 0..0 |-> 0] \in Sums(f, 0)
    BY DEF Sums
  <2> QED BY <2>1
<1>2. ASSUME NEW m \in 1..n, m - 1 \in P PROVE m \in P
  <2>1. PICK s : s \in Sums(f, m - 1)
    BY <1>2
  <2> DEFINE t == [k \in 0..m |-> IF k = m THEN s[m - 1] + f[m] ELSE s[k]]
  <2>2. s \in [0..(m - 1) -> Int] /\ s[0] = 0 /\ \A k \in 1..(m - 1) : s[k] = s[k - 1] + f[k]
    BY <2>1 DEF Sums
  <2>3. f[m] \in Int /\ s[m - 1] \in Int /\ m - 1 \in 0..(m - 1)
    BY <2>2
  <2>4. t \in [0..m -> Int]
    BY <2>2, <2>3
  <2>5. t[0] = 0 /\ \A k \in 1..m : t[k] = t[k - 1] + f[k]
    BY <2>2, <2>3
  <2> HIDE DEF t
  <2>6. t \in Sums(f, m)
    BY <2>4, <2>5 DEF Sums
  <2> QED BY <2>6
<1>3. n \in 0..n
  OBVIOUS
<1>4. n \in P
  <2> HIDE DEF P
  <2> QED BY <1>1, <1>2, <1>3, UpTo
<1> QED BY <1>4

LEMMA TotalIsLast ==
    ASSUME NEW n \in Nat, NEW f \in [1..n -> Int]
    PROVE  \E s \in Sums(f, n) : Total(f) = s[n]
<1> DEFINE Run(s) == s = [k \in 0..Len(f) |-> IF k = 0 THEN 0 ELSE s[k - 1] + f[k]]
           t == CHOOSE s : Run(s)
<1>1. Len(f) = n
  OBVIOUS
<1>2. PICK r : r \in Sums(f, n)
  BY SumsExist
<1>3. r = [k \in 0..n |-> IF k = 0 THEN 0 ELSE r[k - 1] + f[k]]
  BY <1>2 DEF Sums
<1>4. Run(r)
  BY <1>1, <1>3
<1>5. Run(t)
  <2> HIDE DEF Run
  <2> QED BY <1>4
<1>6. Total(f) = t[n]
  BY <1>1 DEF Total
<1> HIDE DEF t
<1>7. t = [k \in 0..n |-> IF k = 0 THEN 0 ELSE t[k - 1] + f[k]]
  BY <1>1, <1>5
<1> HIDE DEF Run
<1>8. DOMAIN t = 0..n /\ t[0] = 0 /\ \A k \in 1..n : t[k] = t[k - 1] + f[k]
  BY <1>7
<1>9. \A k \in 0..n : t[k] \in Int
  <2> DEFINE P == {k \in 0..n : t[k] \in Int}
  <2>1. 0 \in P
    BY <1>8
  <2>2. \A k \in 1..n : k - 1 \in P => k \in P
    BY <1>8
  <2> HIDE DEF P
  <2>3. \A k \in 0..n : k \in P
    BY <2>1, <2>2, UpTo
  <2> QED BY <2>3 DEF P
<1>10. t = [k \in 0..n |-> t[k]]
  BY <1>7
<1>11. t \in Sums(f, n)
  BY <1>8, <1>9, <1>10 DEF Sums
<1> QED BY <1>6, <1>11

LEMMA TotalIsInt ==
    ASSUME NEW n \in Nat, NEW f \in [1..n -> Int]
    PROVE  Total(f) \in Int
<1>1. PICK s \in Sums(f, n) : Total(f) = s[n]
  BY TotalIsLast
<1> QED BY <1>1 DEF Sums

\* Totals of sequences of which each number is the sum of the others'.
LEMMA TotalAdds ==
    ASSUME NEW n \in Nat, NEW f \in [1..n -> Int], NEW g \in [1..n -> Int],
           NEW h \in [1..n -> Int], \A k \in 1..n : h[k] = f[k] + g[k]
    PROVE  Total(h) = Total(f) + Total(g)
<1>1. PICK r \in Sums(f, n) : Total(f) = r[n]
  BY TotalIsLast
<1>2. PICK s \in Sums(g, n) : Total(g) = s[n]
  BY TotalIsLast
<1>3. PICK t \in Sums(h, n) : Total(h) = t[n]
  BY TotalIsLast
<1>4. /\ r \in [0..n -> Int] /\ s \in [0..n -> Int] /\ t \in [0..n -> Int]
      /\ r[0] = 0 /\ s[0] = 0 /\ t[0] = 0
      /\ \A k \in 1..n : /\ r[k] = r[k - 1] + f[k] /\ s[k] = s[k - 1] + g[k]
                         /\ t[k] = t[k - 1] + h[k]
  BY DEF Sums
<1> DEFINE P == {k \in 0..n : t[k] = r[k] + s[k]}
<1>5. 0 \in P
  BY <1>4
<1>6. ASSUME NEW k \in 1..n, k - 1 \in P PROVE k \in P
  <2>1. k - 1 \in 0..n /\ k \in 0..n
    OBVIOUS
  <2>2. r[k - 1] \in Int /\ s[k - 1] \in Int /\ f[k] \in Int /\ g[k] \in Int
    BY <1>4, <2>1
  <2>3. t[k] = (r[k - 1] + s[k - 1]) + (f[k] + g[k])
    BY <1>4, <1>6
  <2>4. t[k] = r[k] + s[k]
    BY <1>4, <2>2, <2>3
  <2> QED BY <2>1, <2>4
<1> HIDE DEF P
<1>7. n \in 0..n
  OBVIOUS
<1>8. n \in P
  BY <1>5, <1>6, <1>7, UpTo
<1> QED BY <1>1, <1>2, <1>3, <1>8 DEF P

\* Only one of the numbers is not 0, if any.
LEMMA TotalOfOne ==
    ASSUME NEW n \in Nat, NEW f \in [1..n -> Int], NEW m \in 1..n,
           \A k \in 1..n : k # m => f[k] = 0
    PROVE  Total(f) = f[m]
<1>1. PICK s \in Sums(f, n) : Total(f) = s[n]
  BY TotalIsLast
<1>2. s \in [0..n -> Int] /\ s[0] = 0 /\ \A k \in 1..n : s[k] = s[k - 1] + f[k]
  BY DEF Sums
<1> DEFINE P == {k \in 0..n : s[k] = IF k < m THEN 0 ELSE f[m]}
<1>3. 0 \in P
  BY <1>2
<1>4. ASSUME NEW k \in 1..n, k - 1 \in P PROVE k \in P
  <2>1. s[k] = s[k - 1] + f[k] /\ f[k] \in Int /\ f[m] \in Int
    BY <1>2
  <2> QED BY <1>4, <2>1
<1> HIDE DEF P
<1>5. n \in 0..n
  OBVIOUS
<1>6. n \in P
  BY <1>3, <1>4, <1>5, UpTo
<1> QED BY <1>1, <1>6 DEF P

LEMMA TotalOfNone ==
    ASSUME NEW n \in Nat, NEW f \in [1..n -> Int], \A k \in 1..n : f[k] = 0
    PROVE  Total(f) = 0
<1>1. CASE n = 0
  <2>1. PICK s \in Sums(f, n) : Total(f) = s[n]
    BY TotalIsLast
  <2> QED BY <1>1, <2>1 DEF Sums
<1>2. CASE n # 0
  <2>1. 1 \in 1..n /\ f[1] = 0
    BY <1>2
  <2> QED BY <2>1, TotalOfOne
<1> QED BY <1>1, <1>2

\* The distances between neighbours add up to the distance of the ends.
LEMMA TotalTelescopes ==
    ASSUME NEW n \in Nat, NEW f \in [1..n -> Int], NEW b \in [1..(n + 1) -> Int],
           \A k \in 1..n : f[k] = b[k + 1] - b[k]
    PROVE  Total(f) = b[n + 1] - b[1]
<1>1. PICK s \in Sums(f, n) : Total(f) = s[n]
  BY TotalIsLast
<1>2. s \in [0..n -> Int] /\ s[0] = 0 /\ \A k \in 1..n : s[k] = s[k - 1] + f[k]
  BY DEF Sums
<1> DEFINE P == {k \in 0..n : s[k] = b[k + 1] - b[1]}
<1>3. 0 \in P
  BY <1>2
<1>4. ASSUME NEW k \in 1..n, k - 1 \in P PROVE k \in P
  <2>1. s[k] = s[k - 1] + f[k] /\ s[k - 1] = b[(k - 1) + 1] - b[1] /\ (k - 1) + 1 = k
    BY <1>2, <1>4
  <2>2. b[k] \in Int /\ b[k + 1] \in Int /\ b[1] \in Int
    OBVIOUS
  <2> QED BY <2>1, <2>2
<1> HIDE DEF P
<1>5. n \in 0..n
  OBVIOUS
<1>6. n \in P
  BY <1>3, <1>4, <1>5, UpTo
<1> QED BY <1>1, <1>6 DEF P

\* n rows of m numbers with one entry q[j] in each column.
OneInEachColumn(n, m, o, q, row) ==
    /\ o \in [1..n -> [1..m -> Int]] /\ q \in [1..m -> Int] /\ row \in [1..m -> 1..n]
    /\ \A j \in 1..m : /\ o[row[j]][j] = q[j]
                       /\ \A i \in 1..n : i # row[j] => o[i][j] = 0

\* The totals of the rows add up to the total of the entries.
LEMMA RowsAndColumns ==
    ASSUME NEW n \in Nat, NEW m \in Nat, NEW o, NEW q, NEW row,
           OneInEachColumn(n, m, o, q, row),
           NEW R, R = [i \in 1..n |-> Total(o[i])]
    PROVE  R \in [1..n -> Int] /\ Total(R) = Total(q)
<1>0. /\ o \in [1..n -> [1..m -> Int]] /\ q \in [1..m -> Int] /\ row \in [1..m -> 1..n]
      /\ \A j \in 1..m : /\ o[row[j]][j] = q[j]
                         /\ \A i \in 1..n : i # row[j] => o[i][j] = 0
  BY DEF OneInEachColumn
<1> DEFINE r == [i \in 1..n |-> CHOOSE s : s \in Sums(o[i], m) /\ Total(o[i]) = s[m]]
<1>1. ASSUME NEW i \in 1..n PROVE r[i] \in Sums(o[i], m) /\ Total(o[i]) = r[i][m]
  <2>1. o[i] \in [1..m -> Int]
    BY <1>0
  <2>2. \E s : s \in Sums(o[i], m) /\ Total(o[i]) = s[m]
    BY <2>1, TotalIsLast
  <2> QED BY <2>2
<1> HIDE DEF r
<1>2. ASSUME NEW i \in 1..n
      PROVE  r[i] \in [0..m -> Int] /\ r[i][0] = 0 /\ \A j \in 1..m : r[i][j] = r[i][j - 1] + o[i][j]
  BY <1>1 DEF Sums
<1>3. PICK t \in Sums(q, m) : Total(q) = t[m]
  BY <1>0, TotalIsLast
<1>4. t \in [0..m -> Int] /\ t[0] = 0 /\ \A j \in 1..m : t[j] = t[j - 1] + q[j]
  BY <1>3 DEF Sums
<1> DEFINE Column(j) == [i \in 1..n |-> r[i][j]]
           P == {j \in 0..m : Total(Column(j)) = t[j]}
<1>5. \A j \in 0..m : Column(j) \in [1..n -> Int]
  BY <1>2
<1>6. 0 \in P
  <2>1. \A i \in 1..n : Column(0)[i] = 0
    BY <1>2
  <2>2. Column(0) \in [1..n -> Int]
    BY <1>5
  <2> HIDE DEF Column
  <2>3. Total(Column(0)) = 0
    BY <2>1, <2>2, TotalOfNone
  <2> QED BY <1>4, <2>3
<1>7. ASSUME NEW j \in 1..m, j - 1 \in P PROVE j \in P
  <2> DEFINE e == [i \in 1..n |-> o[i][j]]
  <2>1. e \in [1..n -> Int] /\ row[j] \in 1..n /\ e[row[j]] = q[j]
        /\ \A i \in 1..n : i # row[j] => e[i] = 0
    BY <1>0
  <2>2. \A i \in 1..n : Column(j)[i] = Column(j - 1)[i] + e[i]
    BY <1>2
  <2>3. Column(j) \in [1..n -> Int] /\ Column(j - 1) \in [1..n -> Int]
    <3>1. j \in 0..m /\ j - 1 \in 0..m
      OBVIOUS
    <3> HIDE DEF Column
    <3> QED BY <1>5, <3>1
  <2> HIDE DEF e, Column
  <2>4. Total(e) = q[j]
    BY <2>1, TotalOfOne
  <2>5. Total(Column(j)) = Total(Column(j - 1)) + Total(e)
    BY <2>1, <2>2, <2>3, TotalAdds
  <2> QED BY <1>4, <1>7, <2>4, <2>5
<1>8. m \in P
  <2>1. m \in 0..m
    OBVIOUS
  <2> HIDE DEF P
  <2> QED BY <1>6, <1>7, <2>1, UpTo
<1>9. R = Column(m)
  BY <1>1
<1>10. Column(m) \in [1..n -> Int]
  BY <1>5
<1> HIDE DEF Column
<1> QED BY <1>3, <1>8, <1>9, <1>10

\* Neighbours in order are in order.
LEMMA InOrder ==
    ASSUME NEW n \in Nat, NEW f \in [1..n -> Nat], \A i \in 1..n - 1 : f[i] <= f[i + 1],
           NEW i \in 1..n, NEW k \in 1..n, i <= k
    PROVE  f[i] <= f[k]
<1> DEFINE P == {j \in 0..n : i <= j => f[i] <= f[j]}
<1>1. 0 \in P
  OBVIOUS
<1>2. ASSUME NEW j \in 1..n, j - 1 \in P PROVE j \in P
  <2>1. CASE i <= j - 1
    <3>1. j - 1 \in 1..n - 1 /\ (j - 1) + 1 = j
      BY <2>1
    <3>2. f[i] <= f[j - 1] /\ f[j - 1] <= f[j]
      BY <1>2, <2>1, <3>1
    <3>3. f[i] \in Nat /\ f[j - 1] \in Nat /\ f[j] \in Nat
      BY <3>1
    <3> QED BY <3>2, <3>3
  <2>2. CASE i = j
    BY <2>2
  <2>3. CASE i > j
    BY <2>3
  <2> QED BY <2>1, <2>2, <2>3
<1>3. k \in 0..n
  OBVIOUS
<1>4. k \in P
  <2> HIDE DEF P
  <2> QED BY <1>1, <1>2, <1>3, UpTo
<1> QED BY <1>4

-----------------------------------------------------------------------------
(* The case, its steps and the work under them *)

Kinds == {"ROUTED", "COMPLETED", "UNRECEIVED", "OVERDUE"}
Case == [status: {"ABSENT", "DRAFT"} \cup Moving \cup Closed, manager: Inside \cup {NoParty},
         custodian: Parties \cup {NoParty}, completedAt: Nat, filedFor: Inside \cup {NoParty}]
Step == [from: Parties, to: Parties, sentAt: Nat, receivedAt: Nat]
Turn == [event: {"COMPLETED", "REOPENED"}, step: Nat, at: Nat]

ExtShape ==
    /\ xcase \in Case /\ xsteps \in Seq(Step)
    /\ origin \in Nat /\ now \in Nat /\ origin <= now /\ 1 <= now
    /\ work \subseteq [step: Nat, at: Nat] /\ turns \in Seq(Turn)
    /\ xnotices \subseteq [kind: Kinds, office: Inside]

\* Work is done under a custody that began, and is not reported from the future.
Worked ==
    \A i \in Nat : \A t \in WorkOf(i) :
        /\ t \in Nat /\ t <= now /\ i <= Len(xsteps)
        /\ i > 0 => xsteps[i].receivedAt # 0

CaseFits ==
    /\ xcase.status \in {"ABSENT", "DRAFT"} <=> ~HasStep
    /\ xcase.status = "ABSENT" => matching = {}
    /\ xcase.status # "ABSENT" => xcase.custodian \in Parties /\ xcase.manager \in Inside

HistoryInv == ExtShape /\ Worked /\ CaseFits /\ CaseHistoryHolds

ExtInv == HistoryInv /\ matching \subseteq fresh /\ ExternalNoticesAreTrue

LEMMA StepFacts ==
    ASSUME ExtShape
    PROVE  /\ Len(xsteps) \in Nat /\ DOMAIN xsteps = 1..Len(xsteps)
           /\ HasStep <=> Len(xsteps) > 0
           /\ HasStep => Len(xsteps) \in 1..Len(xsteps)
           /\ \A i \in 1..Len(xsteps) :
                /\ xsteps[i] \in Step /\ xsteps[i].from \in Parties /\ xsteps[i].to \in Parties
                /\ xsteps[i].sentAt \in Nat /\ xsteps[i].receivedAt \in Nat
<1>1. Len(xsteps) \in Nat /\ DOMAIN xsteps = 1..Len(xsteps)
  BY DEF ExtShape
<1>2. HasStep <=> Len(xsteps) > 0
  BY DEF ExtShape, HasStep
<1>3. \A i \in 1..Len(xsteps) : xsteps[i] \in Step
  BY DEF ExtShape
<1> QED BY <1>1, <1>2, <1>3 DEF Step

\* The latest time the case knows of is none of the future's.
LEMMA LatestFacts ==
    ASSUME HistoryInv
    PROVE  /\ LatestActual \in Nat /\ LatestActual <= now /\ origin <= LatestActual
           /\ \A i \in 1..Len(xsteps) :
                xsteps[i].sentAt <= LatestActual /\ xsteps[i].receivedAt <= LatestActual
           /\ \A i \in 0..Len(xsteps) : \A t \in WorkOf(i) : t <= LatestActual
<1> DEFINE Sent == {xsteps[i].sentAt : i \in 1..Len(xsteps)}
           Received == {xsteps[i].receivedAt : i \in 1..Len(xsteps)}
           Done == UNION {WorkOf(i) : i \in 0..Len(xsteps)}
           All == {origin} \cup Sent \cup Received \cup Done
<1>1. ExtShape /\ Worked /\ Chronology /\ now \in Nat /\ Len(xsteps) \in Nat
  BY StepFacts DEF HistoryInv, CaseHistoryHolds, ExtShape
<1>2. Sent \subseteq 0..now /\ Received \subseteq 0..now
  <2>1. \A i \in 1..Len(xsteps) : xsteps[i].sentAt \in 0..now /\ xsteps[i].receivedAt \in 0..now
    BY <1>1, StepFacts DEF Chronology
  <2> QED BY <2>1
<1>3. Done \subseteq 0..now
  <2>1. \A i \in 0..Len(xsteps) : WorkOf(i) \subseteq 0..now
    BY <1>1 DEF Worked
  <2> QED BY <2>1
<1>4. origin \in 0..now
  BY DEF HistoryInv, ExtShape
<1>5. LatestActual = Max(All)
  BY DEF LatestActual
<1>6. All \in SUBSET (0..now) /\ All # {}
  BY <1>2, <1>3, <1>4
<1>7. \A i \in 1..Len(xsteps) : xsteps[i].sentAt \in All /\ xsteps[i].receivedAt \in All
  OBVIOUS
<1>8. \A i \in 0..Len(xsteps) : WorkOf(i) \subseteq All
  OBVIOUS
<1>9. origin \in All
  OBVIOUS
<1> HIDE DEF All
<1>10. LatestActual \in All /\ \A t \in All : t <= LatestActual
  BY <1>1, <1>5, <1>6, MaxOfBounded
<1>11. LatestActual \in 0..now
  BY <1>6, <1>10
<1> HIDE DEF Sent, Received, Done
<1>12. \A i \in 1..Len(xsteps) :
          xsteps[i].sentAt <= LatestActual /\ xsteps[i].receivedAt <= LatestActual
  BY <1>7, <1>10
<1>13. \A i \in 0..Len(xsteps) : \A t \in WorkOf(i) : t <= LatestActual
  BY <1>8, <1>10
<1>14. origin <= LatestActual /\ LatestActual \in Nat /\ LatestActual <= now
  BY <1>1, <1>9, <1>10, <1>11
<1> QED BY <1>12, <1>13, <1>14

LEMMA TimeGiven ==
    ASSUME HistoryInv, MaxNow \in Nat, NEW at \in TimesToday(LatestActual)
    PROVE  at \in Nat /\ 1 <= at /\ at <= now /\ LatestActual <= at
<1>1. LatestActual \in Nat /\ LatestActual <= now /\ now \in Nat /\ 1 <= now
  BY LatestFacts DEF HistoryInv, ExtShape
<1> QED BY <1>1 DEF TimesToday, Reportable, Clock

\* Work or a turn that is added at time x under the present custody.
LEMMA WorkGrows ==
    ASSUME ExtShape, NEW k \in Nat, NEW x \in Nat, NEW e \in {"COMPLETED", "REOPENED"},
           \/ work' = work \cup {[step |-> k, at |-> x]} /\ turns' = turns
           \/ turns' = Append(turns, [event |-> e, step |-> k, at |-> x]) /\ work' = work
    PROVE  /\ work' \subseteq [step: Nat, at: Nat] /\ turns' \in Seq(Turn)
           /\ \A i \in Nat : WorkOf(i)' \subseteq WorkOf(i) \cup (IF i = k THEN {x} ELSE {})
<1>1. CASE work' = work \cup {[step |-> k, at |-> x]} /\ turns' = turns
  <2> DEFINE w == [step |-> k, at |-> x]
  <2>1. w \in [step: Nat, at: Nat] /\ w.step = k /\ w.at = x
    OBVIOUS
  <2>2. work' = work \cup {w} /\ turns' = turns
    BY <1>1
  <2> HIDE DEF w
  <2> QED BY <2>1, <2>2 DEF ExtShape, WorkOf
<1>2. CASE turns' = Append(turns, [event |-> e, step |-> k, at |-> x]) /\ work' = work
  <2> DEFINE w == [event |-> e, step |-> k, at |-> x]
  <2>1. w \in Turn /\ w.step = k /\ w.at = x
    BY DEF Turn
  <2>2. turns' = Append(turns, w) /\ work' = work
    BY <1>2
  <2> HIDE DEF w
  <2>3. /\ turns' \in Seq(Turn) /\ Len(turns) \in Nat /\ Len(turns') = Len(turns) + 1
        /\ turns'[Len(turns) + 1] = w /\ \A j \in 1..Len(turns) : turns'[j] = turns[j]
    BY <2>1, <2>2 DEF ExtShape
  <2>4. ASSUME NEW i \in Nat, NEW t \in WorkOf(i)'
        PROVE  t \in WorkOf(i) \/ (i = k /\ t = x)
    <3>1. CASE \E v \in {u \in work' : u.step = i} : t = v.at
      BY <2>2, <3>1 DEF WorkOf
    <3>2. CASE \E j \in {l \in 1..Len(turns') : turns'[l].step = i} : t = turns'[j].at
      BY <2>1, <2>3, <3>2 DEF WorkOf
    <3> QED BY <2>4, <3>1, <3>2 DEF WorkOf
  <2> QED BY <2>2, <2>3, <2>4 DEF ExtShape
<1> QED BY <1>1, <1>2

-----------------------------------------------------------------------------
(* The history through every operation *)

\* Steps that leave the dispatches alone; work may be added under the custody that is.
LEMMA CaseMoves ==
    ASSUME HistoryInv, xsteps' = xsteps, origin' = origin, now' \in Nat, now <= now',
           xcase' \in Case, xcase'.custodian = xcase.custodian, xcase'.manager = xcase.manager,
           \/ xcase'.status = xcase.status
           \/ HasStep /\ ~AwaitsReceipt /\ xcase'.status \in {"RECEIVED", "IN_PROCESS"} \cup Closed,
           xcase'.status \in Closed <=> xcase'.completedAt # 0,
           xcase'.status = "ABSENT" => matching' = {},
           xnotices' \subseteq [kind: Kinds, office: Inside],
           work' \subseteq [step: Nat, at: Nat], turns' \in Seq(Turn),
           NEW x \in Nat,
           \A i \in Nat : \A t \in WorkOf(i)' :
               \/ t \in WorkOf(i)
               \/ /\ i = Len(xsteps) /\ t = x /\ x <= now
                  /\ HasStep => xsteps[i].receivedAt # 0 /\ xsteps[i].receivedAt <= x
    PROVE  HistoryInv'
<1>0. \A i \in 1..Len(xsteps) : xsteps[i].sentAt \in Nat /\ xsteps[i].receivedAt \in Nat /\ i \in Nat
  <2>1. ExtShape
    BY DEF HistoryInv
  <2>2. Len(xsteps) \in Nat
    BY <2>1, StepFacts
  <2>3. \A i \in 1..Len(xsteps) : xsteps[i].sentAt \in Nat /\ xsteps[i].receivedAt \in Nat
    BY <2>1, StepFacts
  <2> QED BY <2>2, <2>3
<1>1. /\ ExtShape /\ Worked /\ CaseFits /\ Chronology /\ ExternalCustodyChain
      /\ now \in Nat /\ Len(xsteps) \in Nat
  BY StepFacts DEF HistoryInv, CaseHistoryHolds, ExtShape
<1>2. HasStep' = HasStep /\ LastStep' = LastStep /\ AwaitsReceipt' = AwaitsReceipt
  BY DEF HasStep, LastStep, AwaitsReceipt
<1>3. ExtShape'
  BY <1>1 DEF ExtShape
<1>4. Worked'
  <2>1. ASSUME NEW i \in Nat, NEW t \in WorkOf(i)'
        PROVE  t \in Nat /\ t <= now' /\ i <= Len(xsteps) /\ (i > 0 => xsteps[i].receivedAt # 0)
    <3>1. CASE t \in WorkOf(i)
      <4>1. t \in Nat /\ t <= now /\ i <= Len(xsteps) /\ (i > 0 => xsteps[i].receivedAt # 0)
        BY <1>1, <3>1 DEF Worked
      <4> QED BY <1>1, <4>1
    <3>2. CASE /\ i = Len(xsteps) /\ t = x /\ x <= now
               /\ HasStep => xsteps[i].receivedAt # 0 /\ xsteps[i].receivedAt <= x
      <4>1. i > 0 => HasStep
        BY <1>1, <3>2, StepFacts
      <4> QED BY <1>1, <3>2, <4>1
    <3> QED BY <2>1, <3>1, <3>2
  <2> QED BY <2>1 DEF Worked
<1>5. CaseFits'
  BY <1>1, <1>2 DEF CaseFits, Moving, Closed
<1>6. Chronology'
  <2>1. HasStep => origin' <= xsteps'[1].sentAt
    BY <1>1 DEF Chronology
  <2>2. ASSUME NEW i \in 1..Len(xsteps)
        PROVE  /\ xsteps[i].sentAt <= now'
               /\ xsteps[i].receivedAt # 0 =>
                    /\ xsteps[i].sentAt <= xsteps[i].receivedAt /\ xsteps[i].receivedAt <= now'
                    /\ \A t \in WorkOf(i)' : xsteps[i].receivedAt <= t /\ t <= now'
               /\ i < Len(xsteps) =>
                    /\ xsteps[i].receivedAt <= xsteps[i + 1].sentAt
                    /\ \A t \in WorkOf(i)' : t <= xsteps[i + 1].sentAt
    <3>1. /\ xsteps[i].sentAt \in Nat /\ xsteps[i].receivedAt \in Nat /\ i \in Nat
          /\ xsteps[i].sentAt <= now
          /\ xsteps[i].receivedAt # 0 =>
               xsteps[i].sentAt <= xsteps[i].receivedAt /\ xsteps[i].receivedAt <= now
          /\ i < Len(xsteps) => xsteps[i].receivedAt <= xsteps[i + 1].sentAt
      <4>1. xsteps[i].sentAt \in Nat /\ xsteps[i].receivedAt \in Nat /\ i \in Nat
        BY <1>0
      <4> QED BY <1>1, <4>1 DEF Chronology
    <3>2. ASSUME NEW t \in WorkOf(i)', xsteps[i].receivedAt # 0
          PROVE  xsteps[i].receivedAt <= t /\ t <= now'
      <4>1. CASE t \in WorkOf(i)
        <5>1. xsteps[i].receivedAt <= t /\ t <= now /\ t \in Nat
          BY <1>1, <3>1, <3>2, <4>1 DEF Chronology, Worked
        <5> QED BY <1>1, <5>1
      <4>2. CASE /\ i = Len(xsteps) /\ t = x /\ x <= now
                 /\ HasStep => xsteps[i].receivedAt # 0 /\ xsteps[i].receivedAt <= x
        <5>1. HasStep
          BY <1>1, StepFacts
        <5> QED BY <1>1, <4>2, <5>1
      <4> QED BY <3>1, <3>2, <4>1, <4>2
    <3>3. ASSUME NEW t \in WorkOf(i)', i < Len(xsteps) PROVE t <= xsteps[i + 1].sentAt
      <4>1. t \in WorkOf(i)
        BY <1>1, <3>1, <3>3
      <4> QED BY <1>1, <3>3, <4>1 DEF Chronology
    <3>4. xsteps[i].sentAt <= now' /\ (xsteps[i].receivedAt # 0 => xsteps[i].receivedAt <= now')
      BY <1>1, <3>1
    <3> QED BY <3>1, <3>2, <3>3, <3>4
  <2> QED BY <1>2, <2>1, <2>2 DEF Chronology
<1>7. ExternalCustodyChain'
  BY <1>1, <1>2 DEF ExternalCustodyChain, CaseFits, Moving, Closed
<1> QED BY <1>3, <1>4, <1>5, <1>6, <1>7 DEF HistoryInv, CaseHistoryHolds

\* Nothing happened to the case but time.
LEMMA CaseStays ==
    ASSUME HistoryInv, UNCHANGED <<xcase, xsteps, origin, work, turns>>, now' \in Nat, now <= now',
           xcase.status = "ABSENT" => matching' = {},
           xnotices' \subseteq [kind: Kinds, office: Inside]
    PROVE  HistoryInv'
<1>1. \A i \in Nat : WorkOf(i)' = WorkOf(i)
  BY DEF WorkOf
<1>2. /\ xcase' \in Case /\ (xcase'.status \in Closed <=> xcase'.completedAt # 0)
      /\ work' \subseteq [step: Nat, at: Nat] /\ turns' \in Seq(Turn)
  BY DEF HistoryInv, ExtShape, CaseHistoryHolds, ExternalCustodyChain
<1>3. 0 \in Nat
  OBVIOUS
<1> QED BY <1>1, <1>2, <1>3, CaseMoves

\* The history of a new case is empty.
LEMMA CreateHistory ==
    ASSUME HistoryInv, NEW u \in Staff, CreateRecord(u)
    PROVE  HistoryInv' /\ xcase.status = "ABSENT" /\ xcase'.status = "DRAFT"
           /\ xsteps' = <<>> /\ xsteps = <<>>
<1>1. /\ ExtShape /\ Worked /\ CaseFits /\ Chronology /\ ExternalCustodyChain /\ now \in Nat
      /\ origin \in Nat
  BY DEF HistoryInv, CaseHistoryHolds, ExtShape
<1>2. /\ xcase.status = "ABSENT"
      /\ UNCHANGED <<xsteps, work, turns, xnotices, matching, fresh, now>>
      /\ origin' \in {0} \cup Reportable(0)
  BY DEF CreateRecord
<1>3. xsteps = <<>> /\ ~HasStep /\ Len(xsteps) = 0 /\ ~HasStep' /\ ~AwaitsReceipt'
  BY <1>1, <1>2 DEF CaseFits, HasStep, AwaitsReceipt, ExtShape
<1>4. origin' \in Nat /\ origin' <= now
  BY <1>1, <1>2, ExternalAssumption DEF Reportable, Clock
<1>5. PICK o \in Inside, custodian \in Parties :
        xcase' = [NoCase EXCEPT !.status = "DRAFT", !.manager = o, !.custodian = custodian]
  BY DEF CreateRecord, Parties
<1>6. xcase' \in Case /\ xcase'.status = "DRAFT" /\ xcase'.manager = o
      /\ xcase'.custodian = custodian /\ xcase'.completedAt = 0
  BY <1>5 DEF NoCase, Case
<1>7. ExtShape'
  BY <1>1, <1>2, <1>4, <1>6 DEF ExtShape
<1>8. Worked'
  BY <1>1, <1>2 DEF Worked, WorkOf
<1>9. CaseFits'
  BY <1>3, <1>6 DEF CaseFits
<1>10. Chronology' /\ ExternalCustodyChain'
  BY <1>2, <1>3, <1>6 DEF Chronology, ExternalCustodyChain, Closed
<1> QED BY <1>2, <1>3, <1>6, <1>7, <1>8, <1>9, <1>10 DEF HistoryInv, CaseHistoryHolds

\* A dispatch starts at the holder, after everything that is known of the case.
LEMMA RouteHistory ==
    ASSUME HistoryInv, NEW u \in Staff, RouteRecord(u)
    PROVE  /\ HistoryInv'
           /\ AwaitsReceipt' /\ xnotices' = {Notice("ROUTED", o) : o \in {LastStep.to}' \cap Inside}
           /\ \A i \in 1..Len(xsteps) : xsteps'[i] = xsteps[i]
<1>1. /\ ExtShape /\ Worked /\ CaseFits /\ Chronology /\ ExternalCustodyChain
      /\ now \in Nat /\ origin \in Nat /\ Len(xsteps) \in Nat /\ xcase \in Case
  BY StepFacts DEF HistoryInv, CaseHistoryHolds, ExtShape
<1>2. /\ xcase.status \notin Closed /\ ~AwaitsReceipt /\ xcase.status # "ABSENT"
      /\ UNCHANGED <<work, turns, origin, now>>
      /\ xcase' = [xcase EXCEPT !.status = "PENDING_RECEIPT"]
      /\ matching' = {}
  <2>1. xcase.status # "ABSENT"
    BY <1>1 DEF RouteRecord, Mutation, CaseFits
  <2> QED BY <2>1 DEF RouteRecord, CanAct, Mutation, BumpRevision
<1>3. xcase.custodian \in Parties /\ xcase.manager \in Inside
  BY <1>1, <1>2 DEF CaseFits
<1>4. PICK to \in Parties \ {xcase.custodian}, sent \in TimesToday(LatestActual) :
        /\ xsteps' = Append(xsteps, [from |-> xcase.custodian, to |-> to,
                                     sentAt |-> sent, receivedAt |-> 0])
        /\ OnlyNotices({Notice("ROUTED", o) : o \in {to} \cap Inside})
  BY DEF RouteRecord
<1> DEFINE s == [from |-> xcase.custodian, to |-> to, sentAt |-> sent, receivedAt |-> 0]
<1>5. sent \in Nat /\ 1 <= sent /\ sent <= now /\ LatestActual <= sent
  BY TimeGiven, ExternalAssumption
<1>6. /\ s \in Step /\ s.from = xcase.custodian /\ s.to = to /\ s.sentAt = sent
      /\ s.receivedAt = 0 /\ s.from # s.to
  BY <1>3, <1>5 DEF Step
<1>7. xsteps' = Append(xsteps, s)
  BY <1>4
<1> HIDE DEF s
<1>8. /\ xsteps' \in Seq(Step) /\ Len(xsteps') = Len(xsteps) + 1
      /\ \A i \in 1..Len(xsteps) : xsteps'[i] = xsteps[i]
      /\ xsteps'[Len(xsteps) + 1] = s
  BY <1>1, <1>6, <1>7 DEF ExtShape
<1>9. HasStep' /\ LastStep' = s /\ AwaitsReceipt'
  BY <1>1, <1>6, <1>8 DEF HasStep, LastStep, AwaitsReceipt
<1>10. xcase' \in Case /\ xcase'.status = "PENDING_RECEIPT" /\ xcase'.custodian = xcase.custodian
       /\ xcase'.manager = xcase.manager /\ xcase'.completedAt = xcase.completedAt
  BY <1>1, <1>2 DEF Case, Moving
<1>11. xnotices' = {Notice("ROUTED", o) : o \in {to} \cap Inside}
  BY <1>4 DEF OnlyNotices
<1>12. ExtShape'
  <2>1. xnotices' \subseteq [kind: Kinds, office: Inside]
    BY <1>11 DEF Notice, Kinds
  <2> QED BY <1>1, <1>2, <1>8, <1>10, <2>1 DEF ExtShape
<1>13. \A i \in Nat : WorkOf(i)' = WorkOf(i)
  BY <1>2 DEF WorkOf
<1>14. Worked'
  <2>1. ASSUME NEW i \in Nat, NEW t \in WorkOf(i)
        PROVE  t \in Nat /\ t <= now /\ i <= Len(xsteps) + 1 /\ (i > 0 => xsteps'[i].receivedAt # 0)
    <3>1. t \in Nat /\ t <= now /\ i <= Len(xsteps) /\ (i > 0 => xsteps[i].receivedAt # 0)
      BY <1>1, <2>1 DEF Worked
    <3> QED BY <1>1, <1>8, <3>1
  <2> QED BY <1>2, <1>8, <1>13, <2>1 DEF Worked
<1>15. CaseFits'
  BY <1>1, <1>2, <1>3, <1>9, <1>10 DEF CaseFits
<1>16. Chronology'
  <2> DEFINE n == Len(xsteps)
  <2>1. \A i \in 1..n : xsteps[i].sentAt \in Nat /\ xsteps[i].receivedAt \in Nat
    <3>1. ExtShape
      BY <1>1
    <3> QED BY <3>1, StepFacts
  <2>2. /\ origin <= LatestActual /\ LatestActual \in Nat
        /\ n > 0 => /\ xsteps[n].sentAt <= LatestActual /\ xsteps[n].receivedAt <= LatestActual
                    /\ \A t \in WorkOf(n) : t <= LatestActual
    BY <1>1, LatestFacts
  <2>3. origin <= xsteps'[1].sentAt
    <3>1. CASE n = 0
      BY <1>1, <1>5, <1>6, <1>8, <2>2, <3>1
    <3>2. CASE n > 0
      BY <1>1, <1>8, <3>2, StepFacts DEF Chronology
    <3> QED BY <1>1, <3>1, <3>2
  <2>4. ASSUME NEW i \in 1..(n + 1)
        PROVE  /\ xsteps'[i].sentAt <= now
               /\ xsteps'[i].receivedAt # 0 =>
                    /\ xsteps'[i].sentAt <= xsteps'[i].receivedAt /\ xsteps'[i].receivedAt <= now
                    /\ \A t \in WorkOf(i) : xsteps'[i].receivedAt <= t /\ t <= now
               /\ i < n + 1 =>
                    /\ xsteps'[i].receivedAt <= xsteps'[i + 1].sentAt
                    /\ \A t \in WorkOf(i) : t <= xsteps'[i + 1].sentAt
    <3>1. CASE i = n + 1
      BY <1>1, <1>5, <1>6, <1>8, <3>1
    <3>2. CASE i = n /\ n > 0
      <4>1. \A t \in WorkOf(n) : t \in Nat
        BY <1>1 DEF Worked
      <4>2. xsteps'[n] = xsteps[n] /\ xsteps'[n + 1] = s
        BY <1>1, <1>8, <3>2
      <4>3. xsteps[n].receivedAt <= sent /\ \A t \in WorkOf(n) : t <= sent
        BY <1>1, <1>5, <2>1, <2>2, <3>2, <4>1
      <4> QED BY <1>1, <1>6, <3>2, <4>2, <4>3 DEF Chronology
    <3>3. CASE i < n
      <4>1. i \in 1..n /\ i + 1 \in 1..n /\ i < n + 1
        BY <1>1, <3>3
      <4>2. xsteps'[i] = xsteps[i] /\ xsteps'[i + 1] = xsteps[i + 1]
        BY <1>8, <4>1
      <4> QED BY <1>1, <3>3, <4>1, <4>2 DEF Chronology
    <3> QED BY <1>1, <3>1, <3>2, <3>3
  <2>5. \A i \in 1..(n + 1) : WorkOf(i)' = WorkOf(i)
    BY <1>1, <1>13
  <2> QED BY <1>2, <1>8, <2>3, <2>4, <2>5 DEF Chronology
<1>17. ExternalCustodyChain'
  <2>1. \A i \in 1..Len(xsteps) :
            xsteps'[i].receivedAt # 0 /\ xsteps'[i].to = xsteps'[i + 1].from
    <3>1. ASSUME NEW i \in 1..Len(xsteps)
          PROVE  xsteps'[i].receivedAt # 0 /\ xsteps'[i].to = xsteps'[i + 1].from
      <4>1. CASE i = Len(xsteps)
        <5>1. HasStep
          BY <1>1, <4>1, StepFacts
        <5>2. xsteps[i].receivedAt # 0 /\ xcase.custodian = xsteps[i].to
          BY <1>1, <1>2, <4>1, <5>1 DEF ExternalCustodyChain, AwaitsReceipt, LastStep
        <5> QED BY <1>1, <1>6, <1>8, <4>1, <5>2
      <4>2. CASE i < Len(xsteps)
        BY <1>1, <1>8, <4>2 DEF ExternalCustodyChain
      <4> QED BY <1>1, <4>1, <4>2
    <3> QED BY <3>1
  <2>2. \A i \in 1..(Len(xsteps) + 1) : xsteps'[i].from # xsteps'[i].to
    BY <1>1, <1>6, <1>8 DEF ExternalCustodyChain
  <2>3. xcase'.status \in Closed <=> xcase'.completedAt # 0
    BY <1>1, <1>2, <1>10 DEF ExternalCustodyChain, Closed
  <2>4. HasStep' => /\ xcase'.status # "DRAFT"
                    /\ xcase'.custodian = (IF AwaitsReceipt THEN LastStep.from ELSE LastStep.to)'
    BY <1>6, <1>9, <1>10
  <2>5. Len(xsteps') - 1 = Len(xsteps)
    BY <1>1, <1>8
  <2> QED BY <1>8, <1>9, <1>10, <2>1, <2>2, <2>3, <2>4, <2>5 DEF ExternalCustodyChain
<1>18. HistoryInv'
  BY <1>12, <1>14, <1>15, <1>16, <1>17 DEF HistoryInv, CaseHistoryHolds
<1> QED BY <1>6, <1>8, <1>9, <1>11, <1>18

\* A receipt is reported for the last dispatch, which no work could wait for.
LEMMA ReceiveHistory ==
    ASSUME HistoryInv, NEW at \in Nat, 1 <= at, at <= now, LastStep.sentAt <= at,
           matching' = {}, origin' = origin, now' = now, ReceiveStep(at)
    PROVE  /\ HistoryInv' /\ ~AwaitsReceipt' /\ AwaitsReceipt /\ xnotices' = {}
           /\ Len(xsteps) \in 1..Len(xsteps)
           /\ \A i \in 1..Len(xsteps) :
                /\ xsteps'[i].from = xsteps[i].from /\ xsteps'[i].to = xsteps[i].to
                /\ xsteps'[i].sentAt = xsteps[i].sentAt
                /\ xsteps[i].receivedAt # 0 => xsteps'[i] = xsteps[i]
<1> DEFINE n == Len(xsteps)
           s == [xsteps[n] EXCEPT !.receivedAt = at]
<1>1. /\ ExtShape /\ Worked /\ CaseFits /\ Chronology /\ ExternalCustodyChain
      /\ now \in Nat /\ origin \in Nat /\ n \in Nat /\ xcase \in Case
  BY StepFacts DEF HistoryInv, CaseHistoryHolds, ExtShape
<1>2. /\ AwaitsReceipt /\ HasStep /\ xcase.status \notin Closed
      /\ UNCHANGED <<work, turns, origin, now>> /\ xnotices' = {} /\ matching' = {}
      /\ xcase' = [xcase EXCEPT !.status = "RECEIVED", !.custodian = LastStep.to]
  BY DEF ReceiveStep, AwaitsReceipt, OnlyNotices
<1>3. n \in 1..n /\ xsteps[n] \in Step /\ xsteps[n].receivedAt = 0 /\ LastStep = xsteps[n]
  <2>1. ExtShape
    BY <1>1
  <2> QED BY <1>2, <2>1, StepFacts DEF AwaitsReceipt, LastStep
<1>4. /\ s \in Step /\ s.from = xsteps[n].from /\ s.to = xsteps[n].to
      /\ s.sentAt = xsteps[n].sentAt /\ s.receivedAt = at
  BY <1>3 DEF Step
<1>5. xsteps' = [xsteps EXCEPT ![n] = s]
  BY DEF ReceiveStep
<1> HIDE DEF s
<1>6. /\ xsteps' \in Seq(Step) /\ Len(xsteps') = n /\ xsteps'[n] = s
      /\ \A i \in 1..n : i # n => xsteps'[i] = xsteps[i]
  BY <1>1, <1>3, <1>4, <1>5 DEF ExtShape
<1>7. HasStep' /\ LastStep' = s /\ ~AwaitsReceipt'
  BY <1>1, <1>3, <1>4, <1>6 DEF HasStep, LastStep, AwaitsReceipt
<1>8. /\ xcase' \in Case /\ xcase'.status = "RECEIVED" /\ xcase'.custodian = s.to
      /\ xcase'.manager = xcase.manager /\ xcase'.completedAt = xcase.completedAt
  <2>1. s.to \in Parties
    BY <1>4 DEF Step
  <2> QED BY <1>1, <1>2, <1>3, <1>4, <2>1 DEF Case, Moving
<1>9. ExtShape'
  BY <1>1, <1>2, <1>6, <1>8 DEF ExtShape
<1>10. \A i \in Nat : WorkOf(i)' = WorkOf(i)
  BY <1>2 DEF WorkOf
<1>11. WorkOf(n) = {}
  BY <1>1, <1>3 DEF Worked
<1>12. Worked'
  <2>1. ASSUME NEW i \in Nat, NEW t \in WorkOf(i)
        PROVE  t \in Nat /\ t <= now /\ i <= n /\ (i > 0 => xsteps'[i].receivedAt # 0)
    <3>1. t \in Nat /\ t <= now /\ i <= n /\ (i > 0 => xsteps[i].receivedAt # 0)
      BY <1>1, <2>1 DEF Worked
    <3> QED BY <1>1, <1>6, <1>11, <2>1, <3>1
  <2> QED BY <1>2, <1>6, <1>10, <2>1 DEF Worked
<1>13. CaseFits'
  <2>1. s.to \in Parties
    BY <1>4 DEF Step
  <2>2. xcase.manager \in Inside
    BY <1>1, <1>2 DEF CaseFits
  <2> QED BY <1>7, <1>8, <2>1, <2>2 DEF CaseFits
<1>14. Chronology'
  <2>1. origin <= xsteps'[1].sentAt
    BY <1>1, <1>2, <1>3, <1>4, <1>6 DEF Chronology
  <2>2. ASSUME NEW i \in 1..n
        PROVE  /\ xsteps'[i].sentAt <= now
               /\ xsteps'[i].receivedAt # 0 =>
                    /\ xsteps'[i].sentAt <= xsteps'[i].receivedAt /\ xsteps'[i].receivedAt <= now
                    /\ \A t \in WorkOf(i) : xsteps'[i].receivedAt <= t /\ t <= now
               /\ i < n =>
                    /\ xsteps'[i].receivedAt <= xsteps'[i + 1].sentAt
                    /\ \A t \in WorkOf(i) : t <= xsteps'[i + 1].sentAt
    <3>1. CASE i = n
      BY <1>1, <1>3, <1>4, <1>6, <1>11, <3>1 DEF Chronology
    <3>2. CASE i < n
      <4>1. xsteps'[i] = xsteps[i] /\ xsteps'[i + 1].sentAt = xsteps[i + 1].sentAt /\ i + 1 \in 1..n
        BY <1>1, <1>4, <1>6, <3>2
      <4> QED BY <1>1, <3>2, <4>1 DEF Chronology
    <3> QED BY <1>1, <3>1, <3>2
  <2>3. \A i \in 1..n : WorkOf(i)' = WorkOf(i)
    BY <1>1, <1>10
  <2> QED BY <1>2, <1>6, <2>1, <2>2, <2>3 DEF Chronology
<1>15. ExternalCustodyChain'
  <2>1. ASSUME NEW i \in 1..(n - 1)
        PROVE  xsteps'[i].receivedAt # 0 /\ xsteps'[i].to = xsteps'[i + 1].from
    <3>1. xsteps'[i] = xsteps[i] /\ xsteps'[i + 1].from = xsteps[i + 1].from
      BY <1>1, <1>3, <1>4, <1>6
    <3> QED BY <1>1, <3>1 DEF ExternalCustodyChain
  <2>2. \A i \in 1..n : xsteps'[i].from # xsteps'[i].to
    BY <1>1, <1>3, <1>4, <1>6 DEF ExternalCustodyChain
  <2>3. xcase'.status \in Closed <=> xcase'.completedAt # 0
    BY <1>1, <1>2, <1>8 DEF ExternalCustodyChain, Closed
  <2> QED BY <1>6, <1>7, <1>8, <2>1, <2>2, <2>3 DEF ExternalCustodyChain
<1>16. HistoryInv'
  BY <1>9, <1>12, <1>13, <1>14, <1>15 DEF HistoryInv, CaseHistoryHolds
<1> QED BY <1>2, <1>3, <1>4, <1>6, <1>7, <1>16

\* A correction keeps who received what, and every order the history has.
LEMMA CorrectHistory ==
    ASSUME HistoryInv, NEW u \in Staff, CorrectStep(u)
    PROVE  /\ HistoryInv' /\ (AwaitsReceipt' <=> AwaitsReceipt) /\ xnotices' = xnotices
           /\ xcase'.status = xcase.status /\ xcase'.manager = xcase.manager
           /\ xcase'.filedFor = xcase.filedFor /\ HasStep
           /\ xcase'.custodian # xcase.custodian =>
                xcase.custodian \in Outside /\ xcase'.custodian \in Outside
           /\ Len(xsteps') = Len(xsteps)
           /\ \A i \in 1..Len(xsteps) :
                /\ xsteps'[i].receivedAt = 0 <=> xsteps[i].receivedAt = 0
                /\ xsteps[i].from \in Inside => xsteps'[i].sentAt = xsteps[i].sentAt
                /\ xsteps[i].to \in Inside => /\ xsteps'[i].receivedAt = xsteps[i].receivedAt
                                              /\ xsteps'[i].to = xsteps[i].to
                /\ xsteps[i].to \in Outside => xsteps'[i].to \in Outside
                /\ xsteps[i].receivedAt # 0 =>
                     xsteps'[i].from = xsteps[i].from /\ xsteps'[i].to = xsteps[i].to
<1> DEFINE n == Len(xsteps)
<1>1. /\ ExtShape /\ Worked /\ CaseFits /\ Chronology /\ ExternalCustodyChain
      /\ now \in Nat /\ origin \in Nat /\ n \in Nat /\ xcase \in Case
  BY StepFacts DEF HistoryInv, CaseHistoryHolds, ExtShape
<1>2. UNCHANGED <<work, turns, origin, now, xnotices>> /\ matching' = {}
  BY DEF CorrectStep, Mutation, BumpRevision
<1>3. PICK k \in 1..n : \E x \in Corrections(k) \ {xsteps[k]} :
        /\ x.from # x.to /\ MayCorrect(k, x) /\ TimesFit(k, x)
        /\ xsteps' = [xsteps EXCEPT ![k] = x]
        /\ xcase' = [xcase EXCEPT !.custodian = IF x.from # xsteps[k].from THEN x.from ELSE @]
  BY DEF CorrectStep
<1>4. PICK s \in Corrections(k) :
        /\ s.from # s.to /\ MayCorrect(k, s) /\ TimesFit(k, s)
        /\ xsteps' = [xsteps EXCEPT ![k] = s]
        /\ xcase' = [xcase EXCEPT !.custodian = IF s.from # xsteps[k].from THEN s.from ELSE @]
  BY <1>3
<1>5. xsteps[k] \in Step /\ k \in Nat /\ k <= n
  BY <1>1 DEF ExtShape
<1>6. /\ s \in Step /\ 1 <= s.sentAt /\ s.sentAt <= now
      /\ s.receivedAt = 0 <=> xsteps[k].receivedAt = 0
      /\ s.receivedAt <= now
      /\ xsteps[k].to \in Outside => s.to \in Outside
      /\ xsteps[k].to \notin Outside => s.to = xsteps[k].to
      /\ xsteps[k].from \in Outside => s.from \in Outside
      /\ xsteps[k].from \notin Outside => s.from = xsteps[k].from
  <2>1. /\ s.sentAt \in 1..now
        /\ s.receivedAt \in IF xsteps[k].receivedAt = 0 THEN {0} ELSE 1..now
        /\ s.from \in IF xsteps[k].from \in Outside THEN Outside ELSE {xsteps[k].from}
        /\ s.to \in IF xsteps[k].to \in Outside THEN Outside ELSE {xsteps[k].to}
        /\ s = [from |-> s.from, to |-> s.to, sentAt |-> s.sentAt, receivedAt |-> s.receivedAt]
    BY <1>4 DEF Corrections
  <2>2. s.receivedAt \in Nat /\ s.sentAt \in Nat /\ s.receivedAt <= now
        /\ 1 <= s.sentAt /\ s.sentAt <= now /\ (s.receivedAt = 0 <=> xsteps[k].receivedAt = 0)
    BY <1>1, <2>1
  <2>3. s.from \in Parties /\ s.to \in Parties
    BY <1>5, <2>1 DEF Step, Parties
  <2>4. s \in Step
    BY <2>1, <2>2, <2>3 DEF Step
  <2> QED BY <2>1, <2>2, <2>4
<1>7. /\ s.sentAt # xsteps[k].sentAt => xsteps[k].from \in Outside
      /\ s.receivedAt # xsteps[k].receivedAt => xsteps[k].to \in Outside
      /\ s.from # xsteps[k].from => xsteps[k].from \in Outside /\ k = 1
      /\ s.from # xsteps[k].from \/ s.to # xsteps[k].to =>
          xsteps[k].receivedAt = 0 /\ k = n
  BY <1>4 DEF MayCorrect
<1>8. /\ xsteps' \in Seq(Step) /\ Len(xsteps') = n /\ xsteps'[k] = s
      /\ \A i \in 1..n : i # k => xsteps'[i] = xsteps[i]
  BY <1>1, <1>4, <1>6 DEF ExtShape
<1>9. /\ HasStep /\ HasStep' /\ n \in 1..n /\ LastStep = xsteps[n] /\ LastStep' = xsteps'[n]
      /\ AwaitsReceipt <=> xsteps[n].receivedAt = 0
      /\ AwaitsReceipt' <=> xsteps'[n].receivedAt = 0
  BY <1>1, <1>5, <1>8 DEF HasStep, LastStep, AwaitsReceipt
<1>10. AwaitsReceipt' <=> AwaitsReceipt
  BY <1>6, <1>8, <1>9
<1>11. /\ xcase' \in Case /\ xcase'.status = xcase.status /\ xcase'.manager = xcase.manager
       /\ xcase'.completedAt = xcase.completedAt /\ xcase'.filedFor = xcase.filedFor
       /\ xcase'.custodian = IF s.from # xsteps[k].from THEN s.from ELSE xcase.custodian
  <2>1. s.from \in Parties
    BY <1>6 DEF Step
  <2> QED BY <1>1, <1>4, <2>1 DEF Case
<1>12. s.from # xsteps[k].from =>
         k = 1 /\ n = 1 /\ AwaitsReceipt /\ xcase.custodian = xsteps[k].from
         /\ xcase.custodian \in Outside /\ xcase'.custodian \in Outside
  BY <1>1, <1>6, <1>7, <1>9, <1>11 DEF ExternalCustodyChain
<1>13. ExtShape'
  BY <1>1, <1>2, <1>8, <1>11 DEF ExtShape
<1>14. \A i \in Nat : WorkOf(i)' = WorkOf(i)
  BY <1>2 DEF WorkOf
<1>15. Worked'
  <2>1. ASSUME NEW i \in Nat, NEW t \in WorkOf(i)
        PROVE  t \in Nat /\ t <= now /\ i <= n /\ (i > 0 => xsteps'[i].receivedAt # 0)
    <3>1. t \in Nat /\ t <= now /\ i <= n /\ (i > 0 => xsteps[i].receivedAt # 0)
      BY <1>1, <2>1 DEF Worked
    <3> QED BY <1>1, <1>6, <1>8, <2>1, <3>1
  <2> QED BY <1>2, <1>8, <1>14, <2>1 DEF Worked
<1>16. CaseFits'
  <2>1. s.from \in Parties
    BY <1>6 DEF Step
  <2> QED BY <1>1, <1>9, <1>11, <2>1, <1>2 DEF CaseFits
<1>17. Chronology'
  <2>1. /\ s.receivedAt # 0 => s.sentAt <= s.receivedAt
        /\ k > 1 => s.sentAt >= xsteps[k - 1].receivedAt
        /\ k < n /\ s.receivedAt # 0 => xsteps[k + 1].sentAt >= s.receivedAt
        /\ s.sentAt # xsteps[k].sentAt =>
            /\ k > 1 => \A t \in WorkOf(k - 1) : t <= s.sentAt
            /\ k = 1 => s.sentAt >= origin
        /\ s.receivedAt # xsteps[k].receivedAt => \A t \in WorkOf(k) : s.receivedAt <= t
    BY <1>4 DEF TimesFit
  <2>2. s.sentAt \in Nat /\ s.receivedAt \in Nat
    BY <1>6 DEF Step
  <2>3. origin <= xsteps'[1].sentAt
    BY <1>1, <1>5, <1>8, <1>9, <2>1, <2>2 DEF Chronology
  <2>4. ASSUME NEW i \in 1..n
        PROVE  /\ xsteps'[i].sentAt <= now
               /\ xsteps'[i].receivedAt # 0 =>
                    /\ xsteps'[i].sentAt <= xsteps'[i].receivedAt /\ xsteps'[i].receivedAt <= now
                    /\ \A t \in WorkOf(i) : xsteps'[i].receivedAt <= t /\ t <= now
               /\ i < n =>
                    /\ xsteps'[i].receivedAt <= xsteps'[i + 1].sentAt
                    /\ \A t \in WorkOf(i) : t <= xsteps'[i + 1].sentAt
    <3>1. /\ xsteps[i].sentAt <= now
          /\ xsteps[i].receivedAt # 0 =>
                /\ xsteps[i].sentAt <= xsteps[i].receivedAt /\ xsteps[i].receivedAt <= now
                /\ \A t \in WorkOf(i) : xsteps[i].receivedAt <= t /\ t <= now
          /\ i < n =>
                /\ xsteps[i].receivedAt <= xsteps[i + 1].sentAt
                /\ \A t \in WorkOf(i) : t <= xsteps[i + 1].sentAt
      BY <1>1 DEF Chronology
    <3>2. xsteps[i].sentAt \in Nat /\ xsteps[i].receivedAt \in Nat
      <4>1. xsteps[i] \in Step
        BY <1>1 DEF ExtShape
      <4> QED BY <4>1 DEF Step
    <3>3. CASE i = k
      <4>1. s.receivedAt # 0 => \A t \in WorkOf(i) : s.receivedAt <= t /\ t <= now
        BY <1>6, <2>1, <3>1, <3>3
      <4>2. i < n => /\ xsteps'[i + 1] = xsteps[i + 1]
                     /\ s.receivedAt <= xsteps[i + 1].sentAt
        <5>1. ASSUME i < n PROVE s.receivedAt <= xsteps[i + 1].sentAt
          <6>1. xsteps[i].receivedAt # 0
            BY <1>1, <3>3, <5>1 DEF ExternalCustodyChain
          <6> QED BY <1>6, <2>1, <3>3, <5>1, <6>1
        <5> QED BY <1>1, <1>8, <3>3, <5>1
      <4> QED BY <1>6, <1>8, <2>1, <3>1, <3>3, <4>1, <4>2
    <3>4. CASE i + 1 = k
      <4>1. xsteps'[i] = xsteps[i] /\ xsteps'[i + 1] = s /\ k > 1 /\ k - 1 = i /\ i < n
        BY <1>1, <1>8, <1>5, <3>4
      <4>2. xsteps[i].receivedAt <= s.sentAt
        BY <2>1, <2>2, <3>2, <4>1
      <4>3. \A t \in WorkOf(i) : t <= s.sentAt
        BY <2>1, <3>1, <3>4, <4>1
      <4> QED BY <3>1, <3>4, <4>1, <4>2, <4>3
    <3>5. CASE i # k /\ i + 1 # k
      <4>1. xsteps'[i] = xsteps[i] /\ (i < n => xsteps'[i + 1] = xsteps[i + 1])
        BY <1>1, <1>8, <3>5
      <4> QED BY <3>1, <4>1
    <3> QED BY <3>3, <3>4, <3>5
  <2>5. \A i \in 1..n : WorkOf(i)' = WorkOf(i)
    BY <1>1, <1>14
  <2> QED BY <1>2, <1>8, <2>3, <2>4, <2>5 DEF Chronology
<1>18. ExternalCustodyChain'
  <2>1. ASSUME NEW i \in 1..(n - 1)
        PROVE  xsteps'[i].receivedAt # 0 /\ xsteps'[i].to = xsteps'[i + 1].from
    <3>1. xsteps[i].receivedAt # 0 /\ xsteps[i].to = xsteps[i + 1].from /\ i \in 1..n
          /\ i + 1 \in 1..n
      BY <1>1 DEF ExternalCustodyChain
    <3>2. xsteps'[i].receivedAt # 0 /\ xsteps'[i].to = xsteps[i].to
      BY <1>6, <1>7, <1>8, <3>1
    <3>3. xsteps'[i + 1].from = xsteps[i + 1].from
      BY <1>1, <1>7, <1>8, <3>1
    <3> QED BY <3>1, <3>2, <3>3
  <2>2. \A i \in 1..n : xsteps'[i].from # xsteps'[i].to
    BY <1>1, <1>4, <1>8 DEF ExternalCustodyChain
  <2>3. xcase'.custodian = IF AwaitsReceipt' THEN xsteps'[n].from ELSE xsteps'[n].to
    <3>1. xcase.custodian = IF AwaitsReceipt THEN xsteps[n].from ELSE xsteps[n].to
      BY <1>1, <1>9 DEF ExternalCustodyChain
    <3>2. CASE n = k
      BY <1>7, <1>8, <1>9, <1>10, <1>11, <1>12, <3>1, <3>2
    <3>3. CASE n # k
      <4>1. xsteps'[n] = xsteps[n] /\ xcase'.custodian = xcase.custodian
        BY <1>7, <1>8, <1>9, <1>11, <3>3
      <4> QED BY <1>10, <3>1, <4>1
    <3> QED BY <3>2, <3>3
  <2>4. xcase'.status # "DRAFT"
    BY <1>1, <1>9, <1>11 DEF ExternalCustodyChain
  <2>5. xcase'.status = "PENDING_RECEIPT" <=> AwaitsReceipt'
    BY <1>1, <1>10, <1>11 DEF ExternalCustodyChain
  <2>6. xcase'.status \in Closed <=> xcase'.completedAt # 0
    BY <1>1, <1>11 DEF ExternalCustodyChain
  <2> QED BY <1>8, <1>9, <2>1, <2>2, <2>3, <2>4, <2>5, <2>6 DEF ExternalCustodyChain
<1>19. HistoryInv'
  BY <1>13, <1>15, <1>16, <1>17, <1>18 DEF HistoryInv, CaseHistoryHolds
<1>20. ASSUME NEW i \in 1..n
       PROVE  /\ xsteps'[i].receivedAt = 0 <=> xsteps[i].receivedAt = 0
              /\ xsteps[i].from \in Inside => xsteps'[i].sentAt = xsteps[i].sentAt
              /\ xsteps[i].to \in Inside => /\ xsteps'[i].receivedAt = xsteps[i].receivedAt
                                            /\ xsteps'[i].to = xsteps[i].to
              /\ xsteps[i].to \in Outside => xsteps'[i].to \in Outside
              /\ xsteps[i].receivedAt # 0 =>
                   xsteps'[i].from = xsteps[i].from /\ xsteps'[i].to = xsteps[i].to
  <2>1. CASE i = k
    BY <1>6, <1>7, <1>8, <2>1, ExternalAssumption
  <2>2. CASE i # k
    BY <1>8, <2>2
  <2> QED BY <2>1, <2>2
<1> QED BY <1>2, <1>8, <1>9, <1>10, <1>11, <1>12, <1>19, <1>20

-----------------------------------------------------------------------------
(* The office that answers for the case *)

LEMMA Responsible ==
    ASSUME HistoryInv, xcase.status # "ABSENT"
    PROVE  /\ ResponsibleOffice \in Inside
           /\ \/ ResponsibleOffice \in {xcase.filedFor, xcase.manager}
              \/ ResponsibleOffice = xcase.custodian
              \/ \E i \in 1..Len(xsteps) : xsteps[i].to = ResponsibleOffice
<1> DEFINE inner == {i \in 1..Len(xsteps) : xsteps[i].receivedAt # 0 /\ xsteps[i].to \in Inside}
<1>1. Len(xsteps) \in Nat /\ xcase \in Case /\ xcase.manager \in Inside
  <2>1. ExtShape /\ CaseFits
    BY DEF HistoryInv
  <2> QED BY <2>1, StepFacts DEF CaseFits, ExtShape
<1>2. CASE xcase.filedFor # NoParty
  <2>1. xcase.filedFor \in Inside
    BY <1>1, <1>2 DEF Case
  <2>2. ResponsibleOffice = xcase.filedFor
    BY <1>2 DEF ResponsibleOffice
  <2> QED BY <2>1, <2>2
<1>3. CASE xcase.filedFor = NoParty /\ xcase.custodian \in Inside
  <2>1. ResponsibleOffice = xcase.custodian
    BY <1>3 DEF ResponsibleOffice
  <2> QED BY <1>3, <2>1
<1>4. CASE xcase.filedFor = NoParty /\ xcase.custodian \notin Inside /\ inner # {}
  <2>1. inner \in SUBSET (0..Len(xsteps))
    BY <1>1
  <2>2. Max(inner) \in inner
    <3> HIDE DEF inner
    <3> QED BY <1>1, <1>4, <2>1, MaxOfBounded
  <2>3. ResponsibleOffice = xsteps[Max(inner)].to
    BY <1>4 DEF ResponsibleOffice
  <2> QED BY <2>2, <2>3
<1>5. CASE xcase.filedFor = NoParty /\ xcase.custodian \notin Inside /\ inner = {}
  BY <1>1, <1>5 DEF ResponsibleOffice
<1> QED BY <1>2, <1>3, <1>4, <1>5

\* It is the same office as long as the same inside offices held the paper.
LEMMA ResponsibleKept ==
    ASSUME xcase'.filedFor = xcase.filedFor, xcase'.manager = xcase.manager,
           xcase'.custodian # xcase.custodian =>
               xcase.custodian \in Outside /\ xcase'.custodian \in Outside,
           Len(xsteps) \in Nat, Len(xsteps') = Len(xsteps),
           \A i \in 1..Len(xsteps) :
               /\ xsteps[i].to \in Parties
               /\ xsteps'[i].receivedAt = 0 <=> xsteps[i].receivedAt = 0
               /\ xsteps[i].to \in Inside => xsteps'[i].to = xsteps[i].to
               /\ xsteps[i].to \in Outside => xsteps'[i].to \in Outside
    PROVE  ResponsibleOffice' = ResponsibleOffice
<1> DEFINE inner == {i \in 1..Len(xsteps) : xsteps[i].receivedAt # 0 /\ xsteps[i].to \in Inside}
           later == {i \in 1..Len(xsteps') : xsteps'[i].receivedAt # 0 /\ xsteps'[i].to \in Inside}
<1>1. inner = later
  BY ExternalAssumption DEF Parties
<1>3. CASE xcase.filedFor # NoParty
  BY <1>3 DEF ResponsibleOffice
<1>4. CASE xcase.filedFor = NoParty /\ xcase.custodian \in Inside
  BY <1>4, ExternalAssumption DEF ResponsibleOffice
<1>5. CASE xcase.filedFor = NoParty /\ xcase.custodian \notin Inside /\ inner = {}
  BY <1>1, <1>5, ExternalAssumption DEF ResponsibleOffice
<1>6. CASE xcase.filedFor = NoParty /\ xcase.custodian \notin Inside /\ inner # {}
  <2>1. ResponsibleOffice = xsteps[Max(inner)].to
    BY <1>6 DEF ResponsibleOffice
  <2>2. ResponsibleOffice' = xsteps'[Max(later)].to
    <3>1. xcase'.custodian \notin Inside /\ later # {} /\ xcase'.filedFor = NoParty
      BY <1>1, <1>6, ExternalAssumption
    <3> QED BY <3>1 DEF ResponsibleOffice
  <2>3. Max(inner) \in inner
    <3>1. inner \in SUBSET (0..Len(xsteps))
      OBVIOUS
    <3> HIDE DEF inner
    <3> QED BY <1>6, <3>1, MaxOfBounded
  <2> QED BY <1>1, <2>1, <2>2, <2>3
<1> QED BY <1>3, <1>4, <1>5, <1>6

-----------------------------------------------------------------------------
(* What the operations keep *)

LEMMA MutationFacts ==
    ASSUME HistoryInv, NEW u \in Staff, Mutation(u)
    PROVE  /\ xcase.status # "ABSENT" /\ matching' = {} /\ fresh' = {}
           /\ origin' = origin /\ now' = now /\ now \in Nat /\ 1 <= now /\ xcase \in Case
           /\ Len(xsteps) \in Nat /\ ResponsibleOffice \in Inside
           /\ xcase.status # "DRAFT" => HasStep
           /\ HasStep /\ ~AwaitsReceipt => xsteps[Len(xsteps)].receivedAt # 0
           /\ HasStep => Len(xsteps) \in 1..Len(xsteps)
<1>1. ExtShape /\ CaseFits
  BY DEF HistoryInv
<1>2. xcase.status # "ABSENT"
  BY <1>1 DEF Mutation, CaseFits
<1>3. ResponsibleOffice \in Inside
  BY <1>2, Responsible
<1>4. Len(xsteps) \in Nat /\ (HasStep => Len(xsteps) \in 1..Len(xsteps))
  BY <1>1, StepFacts
<1> QED BY <1>1, <1>2, <1>3, <1>4
        DEF Mutation, BumpRevision, ExtShape, CaseFits, AwaitsReceipt, LastStep

\* Without dispatches or receipts the notices stay true.
LEMMA SameNotices ==
    ASSUME HistoryInv, ExternalNoticesAreTrue,
           xsteps' = xsteps, xnotices' = xnotices, xcase'.custodian = xcase.custodian,
           xcase'.filedFor = xcase.filedFor, xcase'.manager = xcase.manager,
           \/ xcase'.status = xcase.status
           \/ ~AwaitsReceipt /\ xcase.status \notin Closed /\ xcase'.status \in Moving
    PROVE  ExternalNoticesAreTrue'
<1>1. ResponsibleOffice' = ResponsibleOffice /\ AwaitsReceipt' = AwaitsReceipt
      /\ LastStep' = LastStep
  BY DEF ResponsibleOffice, AwaitsReceipt, LastStep, HasStep
<1>2. \A n \in xnotices : n.kind = "COMPLETED" => xcase.status \in Closed /\ xcase'.status = xcase.status
  BY DEF ExternalNoticesAreTrue
<1>3. \A n \in xnotices : n.kind = "OVERDUE" => xcase'.status \in Moving
  BY DEF ExternalNoticesAreTrue
<1> QED BY <1>1, <1>2, <1>3 DEF ExternalNoticesAreTrue, Notice

LEMMA AddRemarkKeeps ==
    ASSUME HistoryInv, ExternalNoticesAreTrue, NEW u \in Staff, AddRemark(u)
    PROVE  HistoryInv' /\ ExternalNoticesAreTrue'
<1> DEFINE n == Len(xsteps)
<1>1. Mutation(u) /\ xcase.status \notin Closed /\ ~AwaitsReceipt
      /\ UNCHANGED <<xsteps, turns, xnotices>>
  BY DEF AddRemark, CanAct
<1>2. /\ xcase.status # "ABSENT" /\ matching' = {} /\ origin' = origin /\ now' = now
      /\ now \in Nat /\ xcase \in Case /\ n \in Nat
      /\ xcase.status # "DRAFT" => HasStep
      /\ HasStep => xsteps[n].receivedAt # 0 /\ n \in 1..n
  BY <1>1, MutationFacts
<1>3. /\ ExtShape /\ xcase.completedAt = 0 /\ xnotices \subseteq [kind: Kinds, office: Inside]
      /\ HasStep => xsteps[n].receivedAt <= now
      /\ work \subseteq [step: Nat, at: Nat] /\ turns \in Seq(Turn)
  BY <1>1, <1>2 DEF HistoryInv, ExtShape, CaseHistoryHolds, ExternalCustodyChain, Chronology
<1>4. CASE xcase.custodian \in Inside
  <2>1. /\ work' = work \cup {[step |-> n, at |-> now]}
        /\ xcase' = [xcase EXCEPT !.status = IF @ = "DRAFT" THEN @ ELSE "IN_PROCESS"]
    BY <1>4 DEF AddRemark
  <2>2. /\ xcase' \in Case /\ xcase'.custodian = xcase.custodian /\ xcase'.manager = xcase.manager
        /\ xcase'.filedFor = xcase.filedFor /\ xcase'.completedAt = 0
        /\ xcase'.status = IF xcase.status = "DRAFT" THEN "DRAFT" ELSE "IN_PROCESS"
    BY <1>2, <1>3, <2>1 DEF Case, Moving
  <2>3. /\ work' \subseteq [step: Nat, at: Nat] /\ turns' \in Seq(Turn)
        /\ \A i \in Nat : WorkOf(i)' \subseteq WorkOf(i) \cup (IF i = n THEN {now} ELSE {})
    <3>1. turns' = turns
      BY <1>1
    <3> QED BY <1>2, <1>3, <2>1, <3>1, WorkGrows
  <2>4. \A i \in Nat : \A t \in WorkOf(i)' :
            \/ t \in WorkOf(i)
            \/ /\ i = n /\ t = now /\ now <= now
               /\ HasStep => xsteps[i].receivedAt # 0 /\ xsteps[i].receivedAt <= now
    BY <1>2, <1>3, <2>3
  <2>5. HistoryInv'
    <3>1. \/ xcase'.status = xcase.status
          \/ HasStep /\ ~AwaitsReceipt /\ xcase'.status \in {"RECEIVED", "IN_PROCESS"} \cup Closed
      BY <1>1, <1>2, <2>2
    <3>2. xcase'.status \in Closed <=> xcase'.completedAt # 0
      BY <2>2 DEF Closed
    <3>3. xsteps' = xsteps /\ xnotices' = xnotices /\ now <= now'
      BY <1>1, <1>2
    <3> QED BY <1>2, <1>3, <2>2, <2>3, <2>4, <3>1, <3>2, <3>3, CaseMoves
  <2>6. ExternalNoticesAreTrue'
    <3>1. \/ xcase'.status = xcase.status
          \/ ~AwaitsReceipt /\ xcase.status \notin Closed /\ xcase'.status \in Moving
      BY <1>1, <2>2 DEF Moving
    <3> QED BY <1>1, <2>2, <3>1, SameNotices
  <2> QED BY <2>5, <2>6
<1>5. CASE xcase.custodian \notin Inside
  <2>1. UNCHANGED <<xcase, work>>
    BY <1>5 DEF AddRemark
  <2>2. UNCHANGED <<xcase, xsteps, origin, work, turns>> /\ now' \in Nat /\ now <= now'
        /\ xnotices' = xnotices
    BY <1>1, <1>2, <2>1
  <2>3. HistoryInv'
    BY <1>2, <1>3, <2>2, CaseStays
  <2>4. ExternalNoticesAreTrue'
    BY <2>2, SameNotices
  <2> QED BY <2>3, <2>4
<1> QED BY <1>4, <1>5

LEMMA RecordWorkKeeps ==
    ASSUME HistoryInv, ExternalNoticesAreTrue, NEW u \in Staff, RecordExternalWork(u)
    PROVE  HistoryInv' /\ ExternalNoticesAreTrue'
<1> DEFINE n == Len(xsteps)
           Times == {turns[j].at : j \in {k \in 1..Len(turns) :
                                     turns[k].step = n /\ turns[k].event = "REOPENED"}}
<1>1. Mutation(u) /\ xcase.status \notin Closed /\ ~AwaitsReceipt /\ xcase.status # "DRAFT"
      /\ UNCHANGED <<xsteps, turns, xnotices>>
      /\ xcase' = [xcase EXCEPT !.status = "IN_PROCESS"]
  BY DEF RecordExternalWork, CanAct
<1>2. /\ xcase.status # "ABSENT" /\ matching' = {} /\ origin' = origin /\ now' = now
      /\ now \in Nat /\ xcase \in Case /\ n \in Nat /\ HasStep /\ n \in 1..n
      /\ xsteps[n].receivedAt # 0
  BY <1>1, MutationFacts
<1>3. /\ ExtShape /\ Worked /\ xcase.completedAt = 0 /\ xnotices \subseteq [kind: Kinds, office: Inside]
      /\ xsteps[n].receivedAt <= now /\ xsteps[n].receivedAt \in Nat
      /\ work \subseteq [step: Nat, at: Nat] /\ turns \in Seq(Turn)
  <2>1. ExtShape
    BY DEF HistoryInv
  <2>2. xsteps[n].receivedAt \in Nat
    BY <1>2, <2>1, StepFacts
  <2> QED BY <1>1, <1>2, <2>1, <2>2
          DEF HistoryInv, ExtShape, CaseHistoryHolds, ExternalCustodyChain, Chronology
<1>4. PICK at \in Reportable(Max({LastStep.receivedAt, ReopenedAt(n)})) :
        work' = work \cup {[step |-> n, at |-> at]}
  BY DEF RecordExternalWork
<1>5. ReopenedAt(n) \in 0..now
  <2>1. Times \subseteq WorkOf(n)
    BY DEF WorkOf
  <2>2. WorkOf(n) \subseteq 0..now
    BY <1>2, <1>3 DEF Worked
  <2>3. {0} \cup Times \in SUBSET (0..now) /\ {0} \cup Times # {}
    BY <1>2, <2>1, <2>2
  <2>4. ReopenedAt(n) = Max({0} \cup Times)
    BY DEF ReopenedAt
  <2> HIDE DEF Times
  <2>5. Max({0} \cup Times) \in {0} \cup Times
    BY <1>2, <2>3, MaxOfBounded
  <2> QED BY <2>3, <2>4, <2>5
<1>6. at \in Nat /\ at <= now /\ xsteps[n].receivedAt <= at
  <2> DEFINE T == {LastStep.receivedAt, ReopenedAt(n)}
  <2>1. T \in SUBSET (0..now) /\ T # {} /\ xsteps[n].receivedAt \in T
    BY <1>2, <1>3, <1>5 DEF LastStep
  <2>2. at \in Reportable(Max(T))
    BY <1>4
  <2> HIDE DEF T
  <2>3. Max(T) \in T /\ xsteps[n].receivedAt <= Max(T)
    BY <1>2, <2>1, MaxOfBounded
  <2>4. at \in Nat /\ at <= now /\ Max(T) <= at
    BY <2>2, ExternalAssumption DEF Reportable, Clock
  <2>5. Max(T) \in Nat
    <3>1. Max(T) \in T
      BY <2>3
    <3>2. Max(T) \in 0..now
      BY <2>1, <3>1
    <3> QED BY <1>2, <3>2
  <2> QED BY <1>3, <2>3, <2>4, <2>5
<1>7. /\ xcase' \in Case /\ xcase'.custodian = xcase.custodian /\ xcase'.manager = xcase.manager
      /\ xcase'.filedFor = xcase.filedFor /\ xcase'.completedAt = 0
      /\ xcase'.status = "IN_PROCESS"
  BY <1>1, <1>2, <1>3 DEF Case, Moving
<1>8. /\ work' \subseteq [step: Nat, at: Nat] /\ turns' \in Seq(Turn)
      /\ \A i \in Nat : WorkOf(i)' \subseteq WorkOf(i) \cup (IF i = n THEN {at} ELSE {})
  <2>1. turns' = turns
    BY <1>1
  <2> QED BY <1>2, <1>3, <1>4, <1>6, <2>1, WorkGrows
<1>9. \A i \in Nat : \A t \in WorkOf(i)' :
          \/ t \in WorkOf(i)
          \/ /\ i = n /\ t = at /\ at <= now
             /\ HasStep => xsteps[i].receivedAt # 0 /\ xsteps[i].receivedAt <= at
  BY <1>2, <1>6, <1>8
<1>10. HistoryInv'
  <2>1. HasStep /\ ~AwaitsReceipt /\ xcase'.status \in {"RECEIVED", "IN_PROCESS"} \cup Closed
    BY <1>1, <1>2, <1>7
  <2>2. xcase'.status \in Closed <=> xcase'.completedAt # 0
    BY <1>7 DEF Closed
  <2>3. xsteps' = xsteps /\ xnotices' = xnotices /\ now <= now'
    BY <1>1, <1>2
  <2> QED BY <1>2, <1>3, <1>6, <1>7, <1>8, <1>9, <2>1, <2>2, <2>3, CaseMoves
<1>11. ExternalNoticesAreTrue'
  <2>1. ~AwaitsReceipt /\ xcase.status \notin Closed /\ xcase'.status \in Moving
    BY <1>1, <1>7 DEF Moving
  <2> QED BY <1>1, <1>7, <2>1, SameNotices
<1> QED BY <1>10, <1>11

LEMMA CompleteKeeps ==
    ASSUME HistoryInv, NEW u \in Staff, CompleteRecord(u)
    PROVE  HistoryInv' /\ ExternalNoticesAreTrue'
<1> DEFINE n == Len(xsteps)
<1>1. Mutation(u) /\ xcase.status \notin Closed /\ ~AwaitsReceipt /\ xcase.status # "DRAFT"
      /\ UNCHANGED <<xsteps, work>> /\ xnotices' = {Notice("COMPLETED", ResponsibleOffice)}
  BY DEF CompleteRecord, CanAct, OnlyNotices
<1>2. /\ xcase.status # "ABSENT" /\ matching' = {} /\ origin' = origin /\ now' = now
      /\ now \in Nat /\ xcase \in Case /\ n \in Nat /\ HasStep /\ n \in 1..n
      /\ xsteps[n].receivedAt # 0 /\ ResponsibleOffice \in Inside
  BY <1>1, MutationFacts
<1>3. PICK at \in TimesToday(LatestActual) :
        /\ xcase' = [xcase EXCEPT !.status = "COMPLETED_PENDING_UPLOAD", !.completedAt = at]
        /\ turns' = Append(turns, [event |-> "COMPLETED", step |-> n, at |-> at])
  BY DEF CompleteRecord
<1>4. at \in Nat /\ 1 <= at /\ at <= now /\ LatestActual <= at
  BY TimeGiven, ExternalAssumption
<1>5. ExtShape /\ xsteps[n].receivedAt <= at
  <2>1. ExtShape
    BY DEF HistoryInv
  <2>2. xsteps[n].receivedAt \in Nat
    BY <1>2, <2>1, StepFacts
  <2>3. xsteps[n].receivedAt <= LatestActual /\ LatestActual \in Nat
    BY <1>2, LatestFacts
  <2> QED BY <1>4, <2>1, <2>2, <2>3
<1>6. /\ xcase' \in Case /\ xcase'.custodian = xcase.custodian /\ xcase'.manager = xcase.manager
      /\ xcase'.filedFor = xcase.filedFor /\ xcase'.completedAt = at
      /\ xcase'.status = "COMPLETED_PENDING_UPLOAD"
  BY <1>2, <1>3, <1>4 DEF Case, Closed
<1>7. /\ work' \subseteq [step: Nat, at: Nat] /\ turns' \in Seq(Turn)
      /\ \A i \in Nat : WorkOf(i)' \subseteq WorkOf(i) \cup (IF i = n THEN {at} ELSE {})
  <2>1. work' = work /\ "COMPLETED" \in {"COMPLETED", "REOPENED"}
    BY <1>1
  <2> QED BY <1>2, <1>3, <1>4, <1>5, <2>1, WorkGrows
<1>8. \A i \in Nat : \A t \in WorkOf(i)' :
          \/ t \in WorkOf(i)
          \/ /\ i = n /\ t = at /\ at <= now
             /\ HasStep => xsteps[i].receivedAt # 0 /\ xsteps[i].receivedAt <= at
  BY <1>2, <1>4, <1>5, <1>7
<1>9. HistoryInv'
  <2>1. HasStep /\ ~AwaitsReceipt /\ xcase'.status \in {"RECEIVED", "IN_PROCESS"} \cup Closed
    BY <1>1, <1>2, <1>6 DEF Closed
  <2>2. xcase'.status \in Closed <=> xcase'.completedAt # 0
    BY <1>4, <1>6 DEF Closed
  <2>3. xsteps' = xsteps /\ now <= now'
    BY <1>1, <1>2
  <2>4. xnotices' \subseteq [kind: Kinds, office: Inside]
    BY <1>1, <1>2 DEF Kinds, Notice
  <2>5. xcase'.status = "ABSENT" => matching' = {}
    BY <1>2
  <2> QED BY <1>2, <1>4, <1>6, <1>7, <1>8, <2>1, <2>2, <2>3, <2>4, <2>5, CaseMoves
<1>10. ExternalNoticesAreTrue'
  <2>1. ResponsibleOffice' = ResponsibleOffice /\ ~AwaitsReceipt'
    BY <1>1, <1>6 DEF ResponsibleOffice, AwaitsReceipt, LastStep, HasStep
  <2> QED BY <1>1, <1>6, <2>1 DEF ExternalNoticesAreTrue, Notice, Closed
<1> QED BY <1>9, <1>10

LEMMA ReopenKeeps ==
    ASSUME HistoryInv, NEW u \in Staff, ReopenRecord(u)
    PROVE  HistoryInv' /\ ExternalNoticesAreTrue'
<1> DEFINE n == Len(xsteps)
<1>1. Mutation(u) /\ xcase.status = "COMPLETED_PENDING_UPLOAD"
      /\ UNCHANGED <<xsteps, work>> /\ xnotices' = {}
      /\ xcase' = [xcase EXCEPT !.status = "RECEIVED", !.completedAt = 0]
      /\ turns' = Append(turns, [event |-> "REOPENED", step |-> n, at |-> now])
  BY DEF ReopenRecord, OnlyNotices
<1>2. ~AwaitsReceipt
  BY <1>1 DEF HistoryInv, CaseHistoryHolds, ExternalCustodyChain
<1>3. /\ xcase.status # "ABSENT" /\ matching' = {} /\ origin' = origin /\ now' = now
      /\ now \in Nat /\ xcase \in Case /\ n \in Nat /\ HasStep /\ n \in 1..n
      /\ xsteps[n].receivedAt # 0
  BY <1>1, <1>2, MutationFacts
<1>4. ExtShape /\ xsteps[n].receivedAt <= now
  BY <1>3 DEF HistoryInv, CaseHistoryHolds, Chronology
<1>5. /\ xcase' \in Case /\ xcase'.custodian = xcase.custodian /\ xcase'.manager = xcase.manager
      /\ xcase'.completedAt = 0 /\ xcase'.status = "RECEIVED"
  BY <1>1, <1>3 DEF Case, Moving
<1>6. /\ work' \subseteq [step: Nat, at: Nat] /\ turns' \in Seq(Turn)
      /\ \A i \in Nat : WorkOf(i)' \subseteq WorkOf(i) \cup (IF i = n THEN {now} ELSE {})
  <2>1. work' = work /\ "REOPENED" \in {"COMPLETED", "REOPENED"}
    BY <1>1
  <2> QED BY <1>1, <1>3, <1>4, <2>1, WorkGrows
<1>7. \A i \in Nat : \A t \in WorkOf(i)' :
          \/ t \in WorkOf(i)
          \/ /\ i = n /\ t = now /\ now <= now
             /\ HasStep => xsteps[i].receivedAt # 0 /\ xsteps[i].receivedAt <= now
  BY <1>3, <1>4, <1>6
<1>8. HistoryInv'
  <2>1. HasStep /\ ~AwaitsReceipt /\ xcase'.status \in {"RECEIVED", "IN_PROCESS"} \cup Closed
    BY <1>2, <1>3, <1>5
  <2>2. xcase'.status \in Closed <=> xcase'.completedAt # 0
    BY <1>5 DEF Closed
  <2>3. xsteps' = xsteps /\ now <= now' /\ xnotices' \subseteq [kind: Kinds, office: Inside]
    BY <1>1, <1>3
  <2>4. xcase'.status = "ABSENT" => matching' = {}
    BY <1>3
  <2> QED BY <1>3, <1>5, <1>6, <1>7, <2>1, <2>2, <2>3, <2>4, CaseMoves
<1>9. ExternalNoticesAreTrue'
  <2>1. ~AwaitsReceipt'
    BY <1>1, <1>2 DEF AwaitsReceipt, LastStep, HasStep
  <2> QED BY <1>1, <2>1 DEF ExternalNoticesAreTrue
<1> QED BY <1>8, <1>9

LEMMA ArchiveKeeps ==
    ASSUME HistoryInv, NEW u \in Staff, ArchiveExternalRecord(u)
    PROVE  HistoryInv' /\ ExternalNoticesAreTrue'
<1>1. /\ xcase.status = "COMPLETED_PENDING_UPLOAD" /\ matching' = {}
      /\ UNCHANGED <<xsteps, origin, work, turns, now>>
      /\ xcase' = [xcase EXCEPT !.status = "COMPLETED", !.filedFor = ResponsibleOffice]
      /\ xnotices' = {Notice("COMPLETED", ResponsibleOffice)}
  BY DEF ArchiveExternalRecord, OnlyNotices, BumpRevision
<1>2. /\ ExtShape /\ CaseFits /\ ~AwaitsReceipt /\ xcase.completedAt # 0 /\ HasStep
      /\ xcase \in Case /\ now \in Nat
  BY <1>1 DEF HistoryInv, CaseHistoryHolds, ExternalCustodyChain, CaseFits, ExtShape, Closed
<1>3. ResponsibleOffice \in Inside
  BY <1>1, Responsible
<1>4. /\ xcase' \in Case /\ xcase'.custodian = xcase.custodian /\ xcase'.manager = xcase.manager
      /\ xcase'.filedFor = ResponsibleOffice /\ xcase'.completedAt = xcase.completedAt
      /\ xcase'.status = "COMPLETED"
  BY <1>1, <1>2, <1>3 DEF Case, Closed
<1>5. HistoryInv'
  <2>1. \A i \in Nat : WorkOf(i)' = WorkOf(i)
    BY <1>1 DEF WorkOf
  <2>2. HasStep /\ ~AwaitsReceipt /\ xcase'.status \in {"RECEIVED", "IN_PROCESS"} \cup Closed
    BY <1>2, <1>4 DEF Closed
  <2>3. xcase'.status \in Closed <=> xcase'.completedAt # 0
    BY <1>2, <1>4 DEF Closed
  <2>4. xnotices' \subseteq [kind: Kinds, office: Inside] /\ now' \in Nat /\ now <= now'
    BY <1>1, <1>2, <1>3 DEF Kinds, Notice
  <2>5. work' \subseteq [step: Nat, at: Nat] /\ turns' \in Seq(Turn)
    BY <1>1, <1>2 DEF ExtShape
  <2>6. xsteps' = xsteps /\ origin' = origin /\ (xcase'.status = "ABSENT" => matching' = {}) /\ 0 \in Nat
    BY <1>1
  <2> QED BY <1>4, <2>1, <2>2, <2>3, <2>4, <2>5, <2>6, CaseMoves
<1>6. ExternalNoticesAreTrue'
  <2>1. ResponsibleOffice' = ResponsibleOffice
    <3>1. xcase'.filedFor # NoParty
      BY <1>3, <1>4, ExternalAssumption
    <3> QED BY <1>4, <3>1 DEF ResponsibleOffice
  <2>2. ~AwaitsReceipt'
    BY <1>1, <1>2 DEF AwaitsReceipt, LastStep, HasStep
  <2> QED BY <1>1, <1>4, <2>1, <2>2 DEF ExternalNoticesAreTrue, Notice, Closed
<1> QED BY <1>5, <1>6

LEMMA ReceiveKeeps ==
    ASSUME HistoryInv, NEW u \in Staff, ConfirmReceipt(u) \/ RecordExternalReceipt(u)
    PROVE  /\ HistoryInv' /\ ExternalNoticesAreTrue' /\ matching' = {}
           /\ \A i \in 1..Len(xsteps) :
                /\ xsteps'[i].from = xsteps[i].from /\ xsteps'[i].to = xsteps[i].to
                /\ xsteps'[i].sentAt = xsteps[i].sentAt
                /\ xsteps[i].receivedAt # 0 => xsteps'[i] = xsteps[i]
<1>1. Mutation(u)
  BY DEF ConfirmReceipt, RecordExternalReceipt
<1>2. /\ matching' = {} /\ origin' = origin /\ now' = now /\ now \in Nat /\ 1 <= now
  BY <1>1, MutationFacts
<1>3. AwaitsReceipt => LastStep.sentAt <= now
  <2>1. ExtShape /\ Chronology
    BY DEF HistoryInv, CaseHistoryHolds
  <2>2. ASSUME AwaitsReceipt PROVE Len(xsteps) \in 1..Len(xsteps)
    <3>1. HasStep
      BY <2>2 DEF AwaitsReceipt
    <3> QED BY <2>1, <3>1, StepFacts
  <2> QED BY <2>1, <2>2 DEF Chronology, LastStep
<1>4. PICK at \in Nat : 1 <= at /\ at <= now /\ LastStep.sentAt <= at /\ ReceiveStep(at)
  <2>1. CASE ConfirmReceipt(u)
    <3>1. ReceiveStep(now) /\ AwaitsReceipt
      BY <2>1 DEF ConfirmReceipt, ReceiveStep
    <3> QED BY <1>2, <1>3, <3>1
  <2>2. CASE RecordExternalReceipt(u)
    BY <2>2, ExternalAssumption DEF RecordExternalReceipt, Reportable, Clock
  <2> QED BY <2>1, <2>2
<1>5. /\ HistoryInv' /\ ~AwaitsReceipt' /\ xnotices' = {}
      /\ \A i \in 1..Len(xsteps) :
                /\ xsteps'[i].from = xsteps[i].from /\ xsteps'[i].to = xsteps[i].to
                /\ xsteps'[i].sentAt = xsteps[i].sentAt
                /\ xsteps[i].receivedAt # 0 => xsteps'[i] = xsteps[i]
  BY <1>2, <1>4, ReceiveHistory
<1> QED BY <1>2, <1>5 DEF ExternalNoticesAreTrue

LEMMA RouteKeeps ==
    ASSUME HistoryInv, NEW u \in Staff, RouteRecord(u)
    PROVE  HistoryInv' /\ ExternalNoticesAreTrue'
<1>1. HistoryInv' /\ AwaitsReceipt' /\ xnotices' = {Notice("ROUTED", o) : o \in {LastStep.to}' \cap Inside}
  BY RouteHistory
<1> QED BY <1>1 DEF ExternalNoticesAreTrue, Notice

LEMMA CreateKeeps ==
    ASSUME HistoryInv, ExternalNoticesAreTrue, NEW u \in Staff, CreateRecord(u)
    PROVE  HistoryInv' /\ ExternalNoticesAreTrue' /\ matching' \subseteq fresh'
<1>1. /\ HistoryInv' /\ xcase.status = "ABSENT" /\ xcase'.status = "DRAFT"
      /\ xsteps' = <<>> /\ xsteps = <<>>
  BY CreateHistory
<1>2. UNCHANGED <<xnotices, matching, fresh>> /\ xnotices \subseteq [kind: Kinds, office: Inside]
  BY DEF CreateRecord, HistoryInv, ExtShape
<1>3. ~AwaitsReceipt /\ ~AwaitsReceipt'
  BY <1>1 DEF AwaitsReceipt, HasStep
<1>4. xnotices = {}
  BY <1>1, <1>2, <1>3 DEF ExternalNoticesAreTrue, Closed, Moving, Kinds
<1>5. matching = {}
  BY <1>1 DEF HistoryInv, CaseFits
<1> QED BY <1>1, <1>2, <1>3, <1>4, <1>5 DEF ExternalNoticesAreTrue

LEMMA CorrectKeeps ==
    ASSUME HistoryInv, ExternalNoticesAreTrue, NEW u \in Staff, CorrectStep(u)
    PROVE  HistoryInv' /\ ExternalNoticesAreTrue'
<1> DEFINE n == Len(xsteps)
<1>1. /\ HistoryInv' /\ (AwaitsReceipt' <=> AwaitsReceipt) /\ xnotices' = xnotices
      /\ xcase'.status = xcase.status /\ xcase'.manager = xcase.manager
      /\ xcase'.filedFor = xcase.filedFor /\ HasStep
      /\ xcase'.custodian # xcase.custodian =>
           xcase.custodian \in Outside /\ xcase'.custodian \in Outside
      /\ Len(xsteps') = n
      /\ \A i \in 1..n :
           /\ xsteps'[i].receivedAt = 0 <=> xsteps[i].receivedAt = 0
           /\ xsteps[i].to \in Inside => xsteps'[i].to = xsteps[i].to
           /\ xsteps[i].to \in Outside => xsteps'[i].to \in Outside
  BY CorrectHistory
<1>2. ExtShape /\ n \in Nat /\ n \in 1..n /\ \A i \in 1..n : xsteps[i].to \in Parties
  <2>1. ExtShape
    BY DEF HistoryInv
  <2>2. HasStep
    BY <1>1
  <2> QED BY <2>1, <2>2, StepFacts
<1>3. ResponsibleOffice' = ResponsibleOffice
  BY <1>1, <1>2, ResponsibleKept
<1>4. LastStep = xsteps[n] /\ LastStep' = xsteps'[n]
  BY <1>1 DEF LastStep
<1>5. ASSUME NEW m \in xnotices, m.kind = "ROUTED" PROVE m.office = xsteps'[n].to
  <2>1. m.office = xsteps[n].to /\ m.office \in Inside
    BY <1>2, <1>4, <1>5 DEF ExternalNoticesAreTrue, ExtShape
  <2> QED BY <1>1, <1>2, <2>1
<1>6. xsteps'[n].to \in Inside => xsteps'[n].to = xsteps[n].to
  BY <1>1, <1>2, ExternalAssumption DEF Parties
<1> QED BY <1>1, <1>3, <1>4, <1>5, <1>6 DEF ExternalNoticesAreTrue, Notice

\* A chase reads the case and rewrites its reminders.
LEMMA ChaseKeeps ==
    ASSUME ExtInv, NEW overdue \in BOOLEAN, ChaseExternalFollowups(overdue)
    PROVE  HistoryInv' /\ ExternalNoticesAreTrue'
<1> DEFINE due  == IF AwaitsReceipt THEN LastStep.to ELSE xcase.custodian
           late == AwaitsReceipt /\ LastStep.sentAt + NudgeAge < now
           keep == {n \in xnotices : n.kind \notin {"UNRECEIVED", "OVERDUE"}}
           owner == IF due \in Inside THEN due ELSE ResponsibleOffice
<1>1. /\ xcase.status \in Moving
      /\ UNCHANGED <<xcase, xsteps, origin, work, turns, matching, fresh, now>>
      /\ xnotices' = keep
            \cup (IF late THEN {Notice("UNRECEIVED", ResponsibleOffice)} ELSE {})
            \cup (IF overdue THEN {Notice("OVERDUE", owner)} ELSE {})
  BY DEF ChaseExternalFollowups
<1>2. HistoryInv /\ ExternalNoticesAreTrue /\ now \in Nat
      /\ xnotices \subseteq [kind: Kinds, office: Inside] /\ (xcase.status = "ABSENT" => matching = {})
  BY DEF ExtInv, HistoryInv, ExtShape, CaseFits
<1>3. ResponsibleOffice \in Inside /\ owner \in Inside
  <2>1. xcase.status # "ABSENT"
    BY <1>1 DEF Moving
  <2> QED BY <1>2, <2>1, Responsible
<1>4. ResponsibleOffice' = ResponsibleOffice /\ AwaitsReceipt' = AwaitsReceipt /\ LastStep' = LastStep
  BY <1>1 DEF ResponsibleOffice, AwaitsReceipt, LastStep, HasStep
<1> HIDE DEF owner
<1>5. \A m \in xnotices' : \/ m \in xnotices /\ m.kind \notin {"UNRECEIVED", "OVERDUE"}
                           \/ AwaitsReceipt /\ m = Notice("UNRECEIVED", ResponsibleOffice)
                           \/ m = Notice("OVERDUE", owner)
  BY <1>1
<1>6. \A m \in xnotices : m.kind = "ROUTED" => m \in xnotices'
  BY <1>1
<1> HIDE DEF late, keep, due
<1>7. xnotices' \subseteq [kind: Kinds, office: Inside]
  BY <1>2, <1>3, <1>5 DEF Notice, Kinds
<1>8. HistoryInv'
  BY <1>1, <1>2, <1>7, CaseStays
<1>9. ExternalNoticesAreTrue'
  <2>1. \A m \in xnotices' :
           /\ m.kind = "ROUTED" => AwaitsReceipt /\ m.office = LastStep.to
           /\ m.kind = "UNRECEIVED" => AwaitsReceipt /\ m.office = ResponsibleOffice
           /\ m.kind = "COMPLETED" => xcase.status \in Closed /\ m.office = ResponsibleOffice
    BY <1>2, <1>5 DEF Notice, ExternalNoticesAreTrue
  <2>2. AwaitsReceipt /\ LastStep.to \in Inside => Notice("ROUTED", LastStep.to) \in xnotices'
    BY <1>2, <1>6 DEF Notice, ExternalNoticesAreTrue
  <2> QED BY <1>1, <1>4, <2>1, <2>2 DEF ExternalNoticesAreTrue
<1> QED BY <1>8, <1>9

-----------------------------------------------------------------------------
(* The invariant                                                            *)

LEMMA ExtInductive == ExtSpec => []ExtInv
<1>1. ExtInit => ExtInv
  <2> SUFFICES ASSUME ExtInit PROVE ExtInv
    OBVIOUS
  <2>1. xcase \in Case /\ xcase.status = "ABSENT" /\ xcase.completedAt = 0
    BY DEF ExtInit, NoCase, Case
  <2>2. ~HasStep /\ ~AwaitsReceipt /\ Len(xsteps) = 0 /\ xsteps \in Seq(Step) /\ turns \in Seq(Turn)
    BY DEF ExtInit, HasStep, AwaitsReceipt
  <2>3. ExtShape
    BY <2>1, <2>2 DEF ExtShape, ExtInit
  <2>4. \A i \in Nat : WorkOf(i) = {}
    BY DEF ExtInit, WorkOf
  <2>5. Worked /\ CaseFits /\ Chronology /\ ExternalCustodyChain
    BY <2>1, <2>2, <2>4 DEF Worked, CaseFits, Chronology, ExternalCustodyChain, ExtInit, Closed
  <2>6. matching \subseteq fresh /\ ExternalNoticesAreTrue
    BY <2>2 DEF ExtInit, ExternalNoticesAreTrue
  <2> QED BY <2>3, <2>5, <2>6 DEF ExtInv, HistoryInv, CaseHistoryHolds
<1>2. ExtInv /\ [ExtNext]_extVars => ExtInv'
  <2> SUFFICES ASSUME ExtInv, [ExtNext]_extVars PROVE ExtInv'
    OBVIOUS
  <2>1. HistoryInv /\ ExternalNoticesAreTrue /\ matching \subseteq fresh /\ now \in Nat
        /\ (xcase.status = "ABSENT" => matching = {})
        /\ xnotices \subseteq [kind: Kinds, office: Inside]
    BY DEF ExtInv, HistoryInv, ExtShape, CaseFits
  <2>2. CASE UNCHANGED extVars
    <3>1. UNCHANGED <<xcase, xsteps, origin, work, turns>> /\ now' = now /\ now <= now'
          /\ xnotices' = xnotices /\ matching' = matching /\ fresh' = fresh
      BY <2>1, <2>2 DEF extVars
    <3>2. HistoryInv'
      BY <2>1, <3>1, CaseStays
    <3>3. ExternalNoticesAreTrue'
      BY <2>1, <3>1, SameNotices
    <3> QED BY <2>1, <3>1, <3>2, <3>3 DEF ExtInv
  <2>3. CASE Tick
    <3>1. UNCHANGED <<xcase, xsteps, origin, work, turns>> /\ now' \in Nat /\ now <= now'
          /\ xnotices' = xnotices /\ matching' = matching /\ fresh' = fresh
      BY <2>1, <2>3 DEF Tick
    <3>2. HistoryInv'
      BY <2>1, <3>1, CaseStays
    <3>3. ExternalNoticesAreTrue'
      BY <2>1, <3>1, SameNotices
    <3> QED BY <2>1, <3>1, <3>2, <3>3 DEF ExtInv
  <2>4. CASE \E overdue \in BOOLEAN : ChaseExternalFollowups(overdue)
    <3>1. HistoryInv' /\ ExternalNoticesAreTrue'
      BY <2>4, ChaseKeeps
    <3>2. matching' = matching /\ fresh' = fresh
      BY <2>4 DEF ChaseExternalFollowups
    <3> QED BY <2>1, <3>1, <3>2 DEF ExtInv
  <2>5. ASSUME NEW u \in Staff, StaffNext(u) PROVE ExtInv'
    <3>1. CASE OpenPage(u)
      <4>1. UNCHANGED <<xcase, xsteps, origin, work, turns>> /\ now' \in Nat /\ now <= now'
            /\ xnotices' = xnotices /\ matching' \subseteq fresh' /\ xcase.status # "ABSENT"
        BY <2>1, <3>1 DEF OpenPage
      <4>2. HistoryInv'
        BY <2>1, <4>1, CaseStays
      <4>3. ExternalNoticesAreTrue'
        BY <2>1, <4>1, SameNotices
      <4> QED BY <4>1, <4>2, <4>3 DEF ExtInv
    <3>2. CASE CreateRecord(u)
      BY <2>1, <3>2, CreateKeeps DEF ExtInv
    <3>3. CASE Mutation(u) /\ ~AnnotateRecord(u)
      <4>1. matching' = {}
        BY <3>3 DEF Mutation, BumpRevision
      <4>2. HistoryInv' /\ ExternalNoticesAreTrue'
        <5>1. \/ RouteRecord(u) \/ ConfirmReceipt(u) \/ RecordExternalReceipt(u) \/ AddRemark(u)
              \/ RecordExternalWork(u) \/ CompleteRecord(u) \/ ReopenRecord(u) \/ CorrectStep(u)
              \/ ArchiveExternalRecord(u) \/ OpenPage(u) \/ CreateRecord(u)
          BY <2>5, <3>3 DEF StaffNext
        <5> QED BY <2>1, <3>1, <3>2, <5>1, RouteKeeps, ReceiveKeeps, AddRemarkKeeps,
                   RecordWorkKeeps, CompleteKeeps, ReopenKeeps, CorrectKeeps, ArchiveKeeps DEF ExtInv
      <4> QED BY <4>1, <4>2 DEF ExtInv
    <3>4. CASE AnnotateRecord(u)
      <4>1. Mutation(u) /\ UNCHANGED <<xcase, xsteps, work, turns, xnotices>>
        BY <3>4 DEF AnnotateRecord
      <4>2. matching' = {} /\ origin' = origin /\ now' = now /\ now <= now'
        BY <2>1, <4>1, MutationFacts
      <4>3. HistoryInv'
        BY <2>1, <4>1, <4>2, CaseStays
      <4>4. ExternalNoticesAreTrue'
        BY <2>1, <4>1, SameNotices
      <4> QED BY <4>2, <4>3, <4>4 DEF ExtInv
    <3>5. CASE ArchiveExternalRecord(u)
      <4>1. matching' = {}
        BY <3>5 DEF ArchiveExternalRecord, BumpRevision
      <4> QED BY <2>1, <3>5, <4>1, ArchiveKeeps DEF ExtInv
    <3>6. OpenPage(u) \/ CreateRecord(u) \/ Mutation(u) \/ ArchiveExternalRecord(u)
      BY <2>5 DEF StaffNext, RouteRecord, ConfirmReceipt, RecordExternalReceipt, AddRemark,
                  RecordExternalWork, CompleteRecord, ReopenRecord, CorrectStep, AnnotateRecord
    <3> QED BY <3>1, <3>2, <3>3, <3>4, <3>5, <3>6
  <2> QED BY <2>2, <2>3, <2>4, <2>5 DEF ExtNext
<1> QED BY <1>1, <1>2, PTL DEF ExtSpec

\* Late reports and corrections keep the history of a case in order: source,
\* dispatch, receipt, the work under that custody, the next dispatch; and the
\* row's status and custodian say what the steps say.
THEOREM CaseHistoryAlwaysHolds == ExtSpec => []CaseHistoryHolds
<1>1. ExtInv => CaseHistoryHolds
  BY DEF ExtInv, HistoryInv
<1> QED BY <1>1, ExtInductive, PTL

\* Every open notice of a case is about work its office owes, and an office a
\* paper is on its way to has one.
THEOREM ExternalNoticesStayTrue == ExtSpec => []ExternalNoticesAreTrue
<1>1. ExtInv => ExternalNoticesAreTrue
  BY DEF ExtInv
<1> QED BY <1>1, ExtInductive, PTL

\* A form with the present revision shows the present case, whoever may act on
\* a case can open it, and the direction links count what they list.
THEOREM CaseViewsAlwaysAgree == ExtSpec => []CaseViewsAgree
<1>1. ASSUME ExtInv PROVE NobodyManagesUnseen
  <2>1. ASSUME xcase.status \notin {"ABSENT", "DRAFT"}, NEW u \in Staff,
               CanAct(u) \/ CanConfirmReceipt(u) \/ (MayWrite(u) /\ CanManage(u))
        PROVE  CaseVisibleTo(u)
    <3>1. /\ ExtShape /\ CaseFits /\ ExternalCustodyChain /\ HasStep
          /\ Len(xsteps) \in Nat /\ Len(xsteps) \in 1..Len(xsteps)
          /\ LastStep = xsteps[Len(xsteps)]
      <4>1. ExtShape /\ CaseFits /\ ExternalCustodyChain
        BY <1>1 DEF ExtInv, HistoryInv, CaseHistoryHolds
      <4>2. HasStep
        BY <2>1, <4>1 DEF CaseFits
      <4> QED BY <4>1, <4>2, StepFacts DEF LastStep
    <3>2. SystemAdmin(u) \/ StaffOffice[u] # NoParty
      BY <2>1 DEF CanAct, CanConfirmReceipt, MayWrite
    <3>3. \/ SystemAdmin(u)
          \/ StaffOffice[u] = ResponsibleOffice
          \/ StaffOffice[u] \in {xcase.custodian, LastStep.to}
      BY <2>1 DEF CanAct, CanConfirmReceipt, CanManage
    <3>4. xcase.custodian \in {LastStep.from, LastStep.to}
      BY <3>1 DEF ExternalCustodyChain
    <3>5. CASE StaffOffice[u] \in {xcase.custodian, LastStep.to} /\ StaffOffice[u] # NoParty
      BY <2>1, <3>1, <3>4, <3>5 DEF CaseVisibleTo
    <3>6. CASE StaffOffice[u] = ResponsibleOffice /\ StaffOffice[u] # NoParty
      <4>1. \/ ResponsibleOffice \in {xcase.filedFor, xcase.manager}
            \/ ResponsibleOffice = xcase.custodian
            \/ \E i \in 1..Len(xsteps) : xsteps[i].to = ResponsibleOffice
        <5>1. HistoryInv /\ xcase.status # "ABSENT"
          BY <1>1, <2>1 DEF ExtInv
        <5> QED BY <5>1, Responsible
      <4> QED BY <2>1, <3>5, <3>6, <4>1 DEF CaseVisibleTo
    <3> QED BY <3>2, <3>3, <3>5, <3>6 DEF CaseVisibleTo
  <2> QED BY <2>1 DEF NobodyManagesUnseen
<1>2. ASSUME ExtInv PROVE DirectionsPartition
  <2>1. HasStep => LastStep.from # LastStep.to
    <3>1. ExtShape /\ ExternalCustodyChain
      BY <1>2 DEF ExtInv, HistoryInv, CaseHistoryHolds
    <3> QED BY <3>1, StepFacts DEF ExternalCustodyChain, LastStep
  <2>2. ASSUME NEW o \in Inside PROVE
            /\ ListedUnder(o, "incoming") <=> Direction(o) = "incoming"
            /\ ListedUnder(o, "outgoing") <=> Direction(o) = "outgoing"
            /\ ListedUnder(o, "other") <=> Direction(o) = "other"
    <3>1. CASE HasStep /\ LastStep.to = o
      BY <2>1, <3>1 DEF ListedUnder, Direction
    <3>2. CASE HasStep /\ LastStep.to # o /\ LastStep.from = o
      BY <2>1, <3>2 DEF ListedUnder, Direction
    <3>3. CASE ~HasStep \/ (LastStep.to # o /\ LastStep.from # o)
      BY <2>1, <3>3 DEF ListedUnder, Direction
    <3> QED BY <3>1, <3>2, <3>3
  <2> QED BY <2>2 DEF DirectionsPartition
<1>3. ExtInv => MatchingPageIsCurrent
  BY DEF ExtInv, MatchingPageIsCurrent
<1>4. ExtInv => CaseViewsAgree
  BY <1>1, <1>2, <1>3 DEF CaseViewsAgree
<1> QED BY <1>4, ExtInductive, PTL

\* What an inside office did itself no later step rewrites, corrections included.
THEOREM OwnFactsAlwaysStand == ExtSpec => OwnFactsStand
<1> DEFINE Stand == \A i \in 1..Len(xsteps) :
        /\ xsteps[i].from \in Inside => xsteps'[i].sentAt = xsteps[i].sentAt
        /\ xsteps[i].to \in Inside /\ xsteps[i].receivedAt # 0 =>
            xsteps'[i].receivedAt = xsteps[i].receivedAt
        /\ xsteps[i].receivedAt # 0 =>
            xsteps'[i].from = xsteps[i].from /\ xsteps'[i].to = xsteps[i].to
<1>1. ExtInv /\ [ExtNext]_extVars => [Stand]_extVars
  <2> SUFFICES ASSUME ExtInv, ExtNext PROVE Stand
    OBVIOUS
  <2>1. HistoryInv
    BY DEF ExtInv
  <2>2. CASE xsteps' = xsteps
    BY <2>2
  <2>3. ASSUME NEW u \in Staff, RouteRecord(u) PROVE Stand
    <3>1. \A i \in 1..Len(xsteps) : xsteps'[i] = xsteps[i]
      BY <2>1, <2>3, RouteHistory
    <3> QED BY <3>1
  <2>4. ASSUME NEW u \in Staff, ConfirmReceipt(u) \/ RecordExternalReceipt(u) PROVE Stand
    <3>1. \A i \in 1..Len(xsteps) :
                /\ xsteps'[i].from = xsteps[i].from /\ xsteps'[i].to = xsteps[i].to
                /\ xsteps'[i].sentAt = xsteps[i].sentAt
                /\ xsteps[i].receivedAt # 0 => xsteps'[i] = xsteps[i]
      BY <2>1, <2>4, ReceiveKeeps
    <3> QED BY <3>1
  <2>5. ASSUME NEW u \in Staff, CorrectStep(u) PROVE Stand
    <3>1. \A i \in 1..Len(xsteps) :
                /\ xsteps[i].from \in Inside => xsteps'[i].sentAt = xsteps[i].sentAt
                /\ xsteps[i].to \in Inside => xsteps'[i].receivedAt = xsteps[i].receivedAt
                /\ xsteps[i].receivedAt # 0 =>
                     xsteps'[i].from = xsteps[i].from /\ xsteps'[i].to = xsteps[i].to
      BY <2>1, <2>5, CorrectHistory
    <3> QED BY <3>1
  <2>6. \/ xsteps' = xsteps
        \/ \E u \in Staff : \/ RouteRecord(u) \/ ConfirmReceipt(u) \/ RecordExternalReceipt(u)
                            \/ CorrectStep(u)
    BY DEF ExtNext, StaffNext, Tick, ChaseExternalFollowups, OpenPage, CreateRecord, AddRemark,
           RecordExternalWork, CompleteRecord, ReopenRecord, AnnotateRecord, ArchiveExternalRecord
  <2> QED BY <2>2, <2>3, <2>4, <2>5, <2>6
<1> QED BY <1>1, ExtInductive, PTL DEF ExtSpec, OwnFactsStand

-----------------------------------------------------------------------------
(* The turns of a case, and its source *)

LastTurn == turns[Len(turns)]

\* Completions and reopenings are kept in the order of their times, under a
\* dispatch; a reopening meets the dispatch its completion left.
TurnsInOrder ==
    /\ \A j \in 1..Len(turns) : turns[j].step # 0
    /\ \A j \in 1..Len(turns) - 1 :
        /\ turns[j].at <= turns[j + 1].at
        /\ j \in Pause => turns[j + 1].step = turns[j].step

\* A case is closed from its last completion on.
ClosedByTurn ==
    /\ xcase.status \in Closed <=> turns # <<>> /\ LastTurn.event = "COMPLETED"
    /\ xcase.status \in Closed =>
        LastTurn.step = Len(xsteps) /\ LastTurn.at = xcase.completedAt

Source == IF HasStep THEN xsteps[1].from ELSE xcase.custodian

\* A draft outside has no work that is timed.
SourceIdle ==
    /\ \A i \in 1..Len(xsteps) : xsteps[i].sentAt # 0
    /\ xcase.status = "ABSENT" => work = {}
    /\ Source \in Outside => \A w \in work : w.step # 0

TurnsInv == TurnsInOrder /\ ClosedByTurn /\ SourceIdle

\* A turn is work under its dispatch.
LEMMA TurnFacts ==
    ASSUME HistoryInv, NEW j \in 1..Len(turns)
    PROVE  /\ turns[j].at \in WorkOf(turns[j].step) /\ turns[j].step \in Nat /\ turns[j].at \in Nat
           /\ turns[j].step <= Len(xsteps) /\ turns[j].at <= now
           /\ turns[j].step # 0 => xsteps[turns[j].step].receivedAt # 0
<1>1. turns \in Seq(Turn) /\ Worked
  BY DEF HistoryInv, ExtShape
<1>2. turns[j] \in Turn
  BY <1>1
<1>3. turns[j].at \in WorkOf(turns[j].step)
  BY DEF WorkOf
<1>4. turns[j].step \in Nat /\ turns[j].at \in Nat
  BY <1>2 DEF Turn
<1> QED BY <1>1, <1>3, <1>4 DEF Worked

LEMMA TurnsStay ==
    ASSUME TurnsInv, turns' = turns, xcase'.completedAt = xcase.completedAt,
           xcase'.status \in Closed <=> xcase.status \in Closed,
           xcase.status \in Closed => Len(xsteps') = Len(xsteps)
    PROVE  TurnsInOrder' /\ ClosedByTurn'
BY DEF TurnsInv, TurnsInOrder, ClosedByTurn, LastTurn, Pause

LEMMA TurnAdded ==
    ASSUME HistoryInv, TurnsInv, NEW e \in {"COMPLETED", "REOPENED"}, NEW at \in Nat, HasStep,
           turns' = Append(turns, [event |-> e, step |-> Len(xsteps), at |-> at]),
           xsteps' = xsteps, \A j \in 1..Len(turns) : turns[j].at <= at,
           e = "COMPLETED" => xcase.status \notin Closed /\ xcase'.status \in Closed
                              /\ xcase'.completedAt = at,
           e = "REOPENED" => xcase'.status \notin Closed /\ xcase.status \in Closed
    PROVE  TurnsInOrder' /\ ClosedByTurn'
<1> DEFINE t == [event |-> e, step |-> Len(xsteps), at |-> at]
           n == Len(turns)
<1>1. ExtShape /\ TurnsInOrder /\ ClosedByTurn
  BY DEF HistoryInv, TurnsInv
<1>2. Len(xsteps) \in Nat /\ Len(xsteps) > 0
  BY <1>1, StepFacts
<1>3. t \in Turn /\ t.event = e /\ t.step = Len(xsteps) /\ t.at = at
  BY <1>2 DEF Turn
<1>4. turns' = Append(turns, t) /\ turns \in Seq(Turn)
  BY <1>1 DEF ExtShape
<1> HIDE DEF t
<1>5. /\ n \in Nat /\ Len(turns') = n + 1 /\ turns'[n + 1] = t /\ turns' # <<>>
      /\ \A j \in 1..n : turns'[j] = turns[j]
  BY <1>3, <1>4
<1>6. \A j \in 1..(n + 1) : turns'[j].step # 0
  BY <1>1, <1>2, <1>3, <1>5 DEF TurnsInOrder
<1>7. ASSUME NEW j \in 1..n
      PROVE  /\ turns'[j].at <= turns'[j + 1].at
             /\ j \in Pause' => turns'[j + 1].step = turns'[j].step
  <2>1. j \in Pause' => turns[j].event = "COMPLETED"
    BY <1>5 DEF Pause
  <2>2. CASE j < n
    <3>1. j \in 1..(n - 1) /\ j + 1 \in 1..n
      BY <1>5, <2>2
    <3>2. j \in Pause' => j \in Pause
      BY <1>5, <2>1 DEF Pause
    <3>3. turns[j].at <= turns[j + 1].at /\ (j \in Pause => turns[j + 1].step = turns[j].step)
      BY <1>1, <3>1 DEF TurnsInOrder
    <3> QED BY <1>5, <3>1, <3>2, <3>3
  <2>3. CASE j = n
    <3>1. turns'[j] = turns[n] /\ turns'[j + 1] = t /\ turns[n].at <= at /\ turns # <<>>
      BY <1>5, <2>3
    <3>2. j \in Pause' => LastTurn.event = "COMPLETED" /\ xcase.status \in Closed
      BY <1>1, <2>1, <2>3, <3>1 DEF LastTurn, ClosedByTurn
    <3>3. j \in Pause' => LastTurn.step = Len(xsteps)
      BY <1>1, <3>2 DEF ClosedByTurn
    <3> QED BY <1>3, <2>3, <3>1, <3>3 DEF LastTurn
  <2> QED BY <1>5, <2>2, <2>3
<1>8. TurnsInOrder'
  BY <1>5, <1>6, <1>7 DEF TurnsInOrder
<1>9. LastTurn' = t
  BY <1>5 DEF LastTurn
<1>10. ClosedByTurn'
  BY <1>3, <1>5, <1>9 DEF ClosedByTurn
<1> QED BY <1>8, <1>10

LEMMA SourceStays ==
    ASSUME SourceIdle, xsteps' = xsteps, xcase'.custodian = xcase.custodian,
           xcase'.status = "ABSENT" => xcase.status = "ABSENT" /\ work' = {},
           \A w \in work' : w \in work \/ w.step # 0 \/ (~HasStep /\ xcase.custodian \notin Outside)
    PROVE  SourceIdle'
BY DEF SourceIdle, Source, HasStep

\* Steps that add no turn and leave the dispatches alone.
LEMMA QuietSteps ==
    ASSUME HistoryInv, TurnsInv, UNCHANGED <<turns, xsteps>>,
           \/ UNCHANGED <<xcase, work>>
           \/ \E u \in Staff : \/ AddRemark(u) \/ RecordExternalWork(u)
                               \/ ArchiveExternalRecord(u)
    PROVE  TurnsInv'
<1>1. SourceIdle /\ ExtShape /\ CaseFits /\ xcase \in Case
  BY DEF HistoryInv, ExtShape, TurnsInv
<1>2. CASE UNCHANGED <<xcase, work>>
  BY <1>1, <1>2, TurnsStay, SourceStays DEF TurnsInv, SourceIdle
<1>3. ASSUME NEW u \in Staff, AddRemark(u) PROVE TurnsInv'
  <2>1. /\ xcase.status # "ABSENT" /\ xcase.status \notin Closed
        /\ xcase'.status # "ABSENT" /\ xcase'.status \notin Closed
        /\ xcase'.completedAt = xcase.completedAt /\ xcase'.custodian = xcase.custodian
        /\ \/ work' = work
           \/ work' = work \cup {[step |-> Len(xsteps), at |-> now]} /\ xcase.custodian \in Inside
    BY <1>1, <1>3, MutationFacts DEF AddRemark, Case, Closed
  <2>2. ~HasStep <=> Len(xsteps) = 0
    BY <1>1, StepFacts
  <2>3. \A w \in work' : w \in work \/ w.step # 0 \/ (~HasStep /\ xcase.custodian \notin Outside)
    BY <2>1, <2>2, ExternalAssumption
  <2> QED BY <1>1, <2>1, <2>3, TurnsStay, SourceStays DEF TurnsInv
<1>4. ASSUME NEW u \in Staff, RecordExternalWork(u) PROVE TurnsInv'
  <2>1. /\ xcase.status \notin Closed \cup {"DRAFT", "ABSENT"}
        /\ xcase'.status = "IN_PROCESS"
        /\ xcase'.completedAt = xcase.completedAt /\ xcase'.custodian = xcase.custodian
    BY <1>1, <1>4, MutationFacts DEF RecordExternalWork, Case, Closed
  <2>2. HasStep /\ Len(xsteps) # 0
    BY <1>1, <2>1, StepFacts DEF CaseFits
  <2>3. \A w \in work' : w \in work \/ w.step # 0
    BY <1>4, <2>2 DEF RecordExternalWork
  <2> QED BY <1>1, <2>1, <2>3, TurnsStay, SourceStays DEF TurnsInv, Closed
<1>5. ASSUME NEW u \in Staff, ArchiveExternalRecord(u) PROVE TurnsInv'
  <2>1. /\ xcase.status \in Closed /\ xcase'.status = "COMPLETED" /\ work' = work
        /\ xcase'.completedAt = xcase.completedAt /\ xcase'.custodian = xcase.custodian
    BY <1>1, <1>5 DEF ArchiveExternalRecord, Case, Closed
  <2> QED BY <1>1, <2>1, TurnsStay, SourceStays DEF TurnsInv, Closed
<1> QED BY <1>2, <1>3, <1>4, <1>5

\* A new case.
LEMMA CreateTurns ==
    ASSUME HistoryInv, TurnsInv, NEW u \in Staff, CreateRecord(u)
    PROVE  TurnsInv'
<1>1. /\ xcase.status = "ABSENT" /\ xcase'.status = "DRAFT" /\ xsteps' = <<>> /\ xsteps = <<>>
      /\ UNCHANGED <<work, turns>> /\ work = {}
  BY CreateHistory DEF CreateRecord, TurnsInv, SourceIdle
<1>2. xcase'.completedAt = 0 /\ xcase.completedAt = 0 
  <2>1. xcase.completedAt = 0
    BY <1>1 DEF HistoryInv, CaseHistoryHolds, ExternalCustodyChain, Closed
  <2>2. xcase'.completedAt = 0
    BY DEF CreateRecord, NoCase
  <2> QED BY <2>1, <2>2
<1> QED BY <1>1, <1>2, TurnsStay DEF TurnsInv, SourceIdle, Closed

LEMMA RouteTurns ==
    ASSUME HistoryInv, TurnsInv, NEW u \in Staff, RouteRecord(u)
    PROVE  TurnsInv'
<1>1. /\ ExtShape /\ xcase \in Case /\ SourceIdle /\ Len(xsteps) \in Nat
      /\ (HasStep <=> Len(xsteps) > 0)
  BY StepFacts DEF HistoryInv, ExtShape, TurnsInv
<1>2. PICK to \in Parties \ {xcase.custodian}, sent \in TimesToday(LatestActual) :
        xsteps' = Append(xsteps, [from |-> xcase.custodian, to |-> to,
                                  sentAt |-> sent, receivedAt |-> 0])
  BY DEF RouteRecord
<1> DEFINE s == [from |-> xcase.custodian, to |-> to, sentAt |-> sent, receivedAt |-> 0]
<1>3. sent # 0
  BY TimeGiven, ExternalAssumption
<1>4. s.from = xcase.custodian /\ s.sentAt # 0 /\ xsteps' = Append(xsteps, s)
  BY <1>2, <1>3
<1> HIDE DEF s
<1>5. /\ Len(xsteps') = Len(xsteps) + 1 /\ xsteps'[Len(xsteps) + 1] = s /\ xsteps' # <<>>
      /\ \A i \in 1..Len(xsteps) : xsteps'[i] = xsteps[i]
  BY <1>1, <1>4 DEF ExtShape
<1>6. Source' = Source
  BY <1>1, <1>4, <1>5 DEF Source, HasStep
<1>7. /\ xcase.status \notin Closed /\ xcase'.status = "PENDING_RECEIPT"
      /\ xcase'.completedAt = xcase.completedAt /\ UNCHANGED <<work, turns>>
  BY <1>1 DEF RouteRecord, Case
<1>8. SourceIdle'
  BY <1>1, <1>4, <1>5, <1>6, <1>7 DEF SourceIdle
<1> QED BY <1>7, <1>8, TurnsStay DEF TurnsInv, Closed

LEMMA ReceiveTurns ==
    ASSUME HistoryInv, TurnsInv, NEW at, ReceiveStep(at)
    PROVE  TurnsInv'
<1>1. ExtShape /\ xcase \in Case /\ SourceIdle /\ HasStep
  BY DEF HistoryInv, ExtShape, TurnsInv, ReceiveStep, AwaitsReceipt
<1>2. Len(xsteps) \in Nat /\ DOMAIN xsteps = 1..Len(xsteps) /\ 1 \in 1..Len(xsteps)
  BY <1>1, StepFacts
<1>3. /\ xcase.status \notin Closed /\ xcase'.status = "RECEIVED"
      /\ xcase'.completedAt = xcase.completedAt /\ UNCHANGED <<work, turns>>
      /\ xsteps' = [xsteps EXCEPT ![Len(xsteps)].receivedAt = at]
  BY <1>1 DEF ReceiveStep, Case
<1>4. /\ Len(xsteps') = Len(xsteps) /\ HasStep'
      /\ \A i \in 1..Len(xsteps) :
            xsteps'[i].sentAt = xsteps[i].sentAt /\ xsteps'[i].from = xsteps[i].from
  <2>1. \A i \in 1..Len(xsteps) : xsteps[i] \in Step
    BY <1>1, StepFacts
  <2> QED BY <1>1, <1>2, <1>3, <2>1 DEF ExtShape, HasStep, Step
<1>5. SourceIdle'
  BY <1>1, <1>2, <1>3, <1>4 DEF SourceIdle, Source
<1> QED BY <1>3, <1>5, TurnsStay DEF TurnsInv, Closed

LEMMA CorrectTurns ==
    ASSUME HistoryInv, TurnsInv, NEW u \in Staff, CorrectStep(u)
    PROVE  TurnsInv'
<1>1. /\ ExtShape /\ xcase \in Case /\ SourceIdle /\ HasStep /\ Len(xsteps') = Len(xsteps)
      /\ xcase'.status = xcase.status /\ work' = work /\ turns' = turns
  BY CorrectHistory DEF HistoryInv, ExtShape, TurnsInv, CorrectStep
<1>2. Len(xsteps) \in Nat /\ DOMAIN xsteps = 1..Len(xsteps) /\ 1 \in 1..Len(xsteps)
  BY <1>1, StepFacts
<1>3. PICK k \in 1..Len(xsteps) : \E s \in Corrections(k) \ {xsteps[k]} :
        /\ MayCorrect(k, s) /\ xsteps' = [xsteps EXCEPT ![k] = s]
        /\ xcase' = [xcase EXCEPT !.custodian = IF s.from # xsteps[k].from THEN s.from ELSE @]
  BY DEF CorrectStep
<1>4. PICK s \in Corrections(k) :
        /\ MayCorrect(k, s) /\ xsteps' = [xsteps EXCEPT ![k] = s]
        /\ xcase' = [xcase EXCEPT !.custodian = IF s.from # xsteps[k].from THEN s.from ELSE @]
  BY <1>3
<1>5. s.sentAt # 0 /\ (s.from # xsteps[k].from => xsteps[k].from \in Outside)
  BY <1>4 DEF Corrections, MayCorrect
<1>6. \A i \in 1..Len(xsteps) :
        xsteps'[i].sentAt # 0 /\ (xsteps'[i].from # xsteps[i].from => xsteps[i].from \in Outside)
  BY <1>1, <1>2, <1>4, <1>5 DEF SourceIdle
<1>7. HasStep' /\ Source = xsteps[1].from /\ Source' = xsteps'[1].from
  <2>1. HasStep'
    BY <1>1, <1>2 DEF HasStep
  <2> QED BY <1>1, <2>1 DEF Source
<1>8. Source' \in Outside => Source \in Outside
  BY <1>2, <1>6, <1>7
<1>9. SourceIdle'
  BY <1>1, <1>6, <1>8 DEF SourceIdle
<1>10. xcase'.completedAt = xcase.completedAt
  BY <1>1, <1>4 DEF Case
<1> QED BY <1>1, <1>9, <1>10, TurnsStay DEF TurnsInv

LEMMA CompleteTurns ==
    ASSUME HistoryInv, TurnsInv, NEW u \in Staff, CompleteRecord(u)
    PROVE  TurnsInv'
<1>1. ExtShape /\ CaseFits /\ xcase \in Case /\ SourceIdle
  BY DEF HistoryInv, ExtShape, TurnsInv
<1>2. PICK at \in TimesToday(LatestActual) :
        /\ xcase' = [xcase EXCEPT !.status = "COMPLETED_PENDING_UPLOAD", !.completedAt = at]
        /\ turns' = Append(turns, [event |-> "COMPLETED", step |-> Len(xsteps), at |-> at])
  BY DEF CompleteRecord
<1>3. /\ xcase.status \notin Closed \cup {"DRAFT", "ABSENT"} /\ xsteps' = xsteps /\ work' = work
      /\ HasStep
  BY MutationFacts DEF CompleteRecord
<1>4. /\ xcase'.status = "COMPLETED_PENDING_UPLOAD" /\ xcase'.completedAt = at
      /\ xcase'.custodian = xcase.custodian
  BY <1>1, <1>2 DEF Case
<1>5. at \in Nat /\ LatestActual <= at /\ LatestActual \in Nat /\ Len(xsteps) \in Nat
  BY <1>1, TimeGiven, LatestFacts, StepFacts, ExternalAssumption
<1>6. \A j \in 1..Len(turns) : turns[j].at <= at
  <2>1. ASSUME NEW j \in 1..Len(turns) PROVE turns[j].at <= at
    <3>1. turns[j].at \in WorkOf(turns[j].step) /\ turns[j].step \in 0..Len(xsteps) /\ turns[j].at \in Nat
      BY <1>5, TurnFacts
    <3>2. turns[j].at <= LatestActual
      BY <3>1, LatestFacts
    <3> QED BY <1>5, <3>1, <3>2
  <2> QED BY <2>1
<1>7. TurnsInOrder' /\ ClosedByTurn'
  BY <1>2, <1>3, <1>4, <1>5, <1>6, TurnAdded DEF Closed
<1>8. SourceIdle'
  BY <1>1, <1>3, <1>4, SourceStays
<1> QED BY <1>7, <1>8 DEF TurnsInv

LEMMA ReopenTurns ==
    ASSUME HistoryInv, TurnsInv, NEW u \in Staff, ReopenRecord(u)
    PROVE  TurnsInv'
<1>1. ExtShape /\ CaseFits /\ xcase \in Case /\ SourceIdle /\ now \in Nat
  BY DEF HistoryInv, ExtShape, TurnsInv
<1>2. /\ xcase.status = "COMPLETED_PENDING_UPLOAD" /\ xcase'.status = "RECEIVED"
      /\ xcase'.custodian = xcase.custodian /\ xsteps' = xsteps /\ work' = work /\ HasStep
      /\ turns' = Append(turns, [event |-> "REOPENED", step |-> Len(xsteps), at |-> now])
  BY <1>1 DEF ReopenRecord, Case, CaseFits
<1>3. \A j \in 1..Len(turns) : turns[j].at <= now
  BY TurnFacts
<1>4. TurnsInOrder' /\ ClosedByTurn'
  BY <1>1, <1>2, <1>3, TurnAdded DEF Closed
<1>5. SourceIdle'
  BY <1>1, <1>2, SourceStays
<1> QED BY <1>4, <1>5 DEF TurnsInv

LEMMA TurnsInductive == ExtSpec => []TurnsInv
<1>1. ExtInit => TurnsInv
  BY DEF ExtInit, NoCase, Closed, TurnsInv, TurnsInOrder, ClosedByTurn, SourceIdle, Source, HasStep
<1>2. ExtInv /\ TurnsInv /\ [ExtNext]_extVars => TurnsInv'
  <2> SUFFICES ASSUME ExtInv, TurnsInv, [ExtNext]_extVars PROVE TurnsInv'
    OBVIOUS
  <2>1. HistoryInv
    BY DEF ExtInv
  <2>2. CASE UNCHANGED <<turns, xsteps, xcase, work>>
    BY <2>1, <2>2, QuietSteps
  <2>3. ASSUME NEW u \in Staff, StaffNext(u), ~UNCHANGED <<turns, xsteps, xcase, work>>
        PROVE  TurnsInv'
    <3>1. \/ CreateRecord(u) \/ RouteRecord(u) \/ (\E at : ReceiveStep(at)) \/ AddRemark(u)
          \/ RecordExternalWork(u) \/ CompleteRecord(u) \/ ReopenRecord(u) \/ CorrectStep(u)
          \/ ArchiveExternalRecord(u)
      BY <2>3 DEF StaffNext, OpenPage, AnnotateRecord, ConfirmReceipt, RecordExternalReceipt
    <3>2. AddRemark(u) \/ RecordExternalWork(u) \/ ArchiveExternalRecord(u) => UNCHANGED <<turns, xsteps>>
      BY DEF AddRemark, RecordExternalWork, ArchiveExternalRecord
    <3> QED BY <2>1, <3>1, <3>2, QuietSteps, CreateTurns, RouteTurns, ReceiveTurns, CorrectTurns,
               CompleteTurns, ReopenTurns
  <2> QED BY <2>2, <2>3 DEF ExtNext, Tick, ChaseExternalFollowups, extVars
<1> QED BY <1>1, <1>2, ExtInductive, PTL DEF ExtSpec

-----------------------------------------------------------------------------
(* The times of a case *)

\* Dispatches are in order, and nothing happens after the end of the case.
LEMMA CaseTimes ==
    ASSUME HistoryInv, TurnsInv, HasStep
    PROVE  /\ EndOfCase \in Nat /\ Len(xsteps) \in Nat /\ Len(xsteps) >= 1 /\ Len(turns) \in Nat
           /\ \A i \in 1..Len(xsteps) :
                /\ xsteps[i].sentAt \in Nat /\ xsteps[i].receivedAt \in Nat
                /\ xsteps[i].sentAt <= EndOfCase /\ xsteps[i].receivedAt <= EndOfCase
                /\ xsteps[i].receivedAt # 0 => xsteps[i].sentAt <= xsteps[i].receivedAt
                /\ i < Len(xsteps) => /\ xsteps[i].receivedAt # 0
                                      /\ xsteps[i].receivedAt <= xsteps[i + 1].sentAt
           /\ \A i, k \in 1..Len(xsteps) : i <= k => xsteps[i].sentAt <= xsteps[k].sentAt
           /\ \A j \in 1..Len(turns) : turns[j].at \in Nat /\ turns[j].at <= EndOfCase
<1> DEFINE n == Len(xsteps)
           m == Len(turns)
           sent == [i \in 1..n |-> xsteps[i].sentAt]
           at == [j \in 1..m |-> turns[j].at]
<1>1. /\ ExtShape /\ Chronology /\ ExternalCustodyChain /\ TurnsInOrder /\ ClosedByTurn
      /\ now \in Nat /\ n \in Nat /\ n >= 1 /\ m \in Nat
  BY StepFacts DEF HistoryInv, CaseHistoryHolds, ExtShape, TurnsInv
<1>2. ASSUME NEW i \in 1..n
      PROVE  /\ xsteps[i].sentAt \in Nat /\ xsteps[i].receivedAt \in Nat
             /\ xsteps[i].sentAt <= now /\ xsteps[i].receivedAt <= now
             /\ xsteps[i].receivedAt # 0 => xsteps[i].sentAt <= xsteps[i].receivedAt
             /\ i < n => /\ xsteps[i].receivedAt # 0
                         /\ xsteps[i].receivedAt <= xsteps[i + 1].sentAt
  <2>1. xsteps[i].sentAt \in Nat /\ xsteps[i].receivedAt \in Nat
    BY <1>1, StepFacts
  <2>2. i < n => i \in 1..n - 1
    BY <1>1
  <2> QED BY <1>1, <2>1, <2>2 DEF Chronology, ExternalCustodyChain
<1>3. ASSUME NEW i \in 1..n, NEW k \in 1..n, i <= k PROVE xsteps[i].sentAt <= xsteps[k].sentAt
  <2>1. sent \in [1..n -> Nat]
    BY <1>2
  <2>2. ASSUME NEW j \in 1..n - 1 PROVE sent[j] <= sent[j + 1]
    <3>1. j \in 1..n /\ j + 1 \in 1..n /\ j < n
      BY <1>1
    <3>2. /\ xsteps[j].sentAt \in Nat /\ xsteps[j].receivedAt \in Nat /\ xsteps[j + 1].sentAt \in Nat
          /\ xsteps[j].sentAt <= xsteps[j].receivedAt /\ xsteps[j].receivedAt <= xsteps[j + 1].sentAt
      BY <1>2, <3>1
    <3> QED BY <3>1, <3>2
  <2>3. sent[i] <= sent[k]
    <3> HIDE DEF sent, n
    <3> QED BY <1>1, <1>3, <2>1, <2>2, InOrder
  <2> QED BY <2>3
<1>4. \A j \in 1..m : turns[j].at \in Nat /\ turns[j].at <= now
  BY TurnFacts
<1>5. \A j, k \in 1..m : j <= k => turns[j].at <= turns[k].at
  <2>1. ASSUME NEW j \in 1..m, NEW k \in 1..m, j <= k PROVE turns[j].at <= turns[k].at
    <3>1. at \in [1..m -> Nat]
      BY <1>4
    <3>2. \A l \in 1..m - 1 : at[l] <= at[l + 1]
      BY <1>1 DEF TurnsInOrder
    <3>3. at[j] <= at[k]
      <4> HIDE DEF at, m
      <4> QED BY <1>1, <2>1, <3>1, <3>2, InOrder
    <3> QED BY <3>3
  <2> QED BY <2>1
<1>6. CASE xcase.status \notin Closed
  <2>1. EndOfCase = now
    BY <1>1, <1>6 DEF EndOfCase, ExternalCustodyChain
  <2> QED BY <1>1, <1>2, <1>3, <1>4, <2>1
<1>7. CASE xcase.status \in Closed
  <2>1. EndOfCase = turns[m].at /\ m \in 1..m /\ turns[m].step = n
    <3>1. turns # <<>>
      BY <1>1, <1>7 DEF ClosedByTurn
    <3>2. m \in 1..m
      BY <1>1, <3>1 DEF ExtShape
    <3> QED BY <1>1, <1>7, <3>2 DEF EndOfCase, ExternalCustodyChain, ClosedByTurn, LastTurn
  <2>2. turns[m].at \in WorkOf(n) /\ xsteps[n].receivedAt # 0
    BY <1>1, <2>1, TurnFacts
  <2>3. n \in 1..n /\ xsteps[n].receivedAt <= turns[m].at
    BY <1>1, <2>2 DEF Chronology
  <2>4. \A j \in 1..m : turns[j].at <= EndOfCase /\ turns[j].at \in Nat
    BY <1>1, <1>4, <1>5, <2>1
  <2>5. ASSUME NEW i \in 1..n
        PROVE  xsteps[i].sentAt <= EndOfCase /\ xsteps[i].receivedAt <= EndOfCase
    <3>1. /\ xsteps[i].sentAt <= xsteps[n].sentAt /\ xsteps[n].sentAt <= xsteps[n].receivedAt
          /\ xsteps[n].receivedAt <= EndOfCase /\ i <= n /\ i \in Nat
      BY <1>1, <1>2, <1>3, <2>1, <2>2, <2>3
    <3>2. EndOfCase \in Nat
      BY <1>4, <2>1
    <3>3. xsteps[i].sentAt <= EndOfCase
      BY <1>2, <2>3, <3>1, <3>2
    <3>4. CASE i = n
      BY <3>1, <3>3, <3>4
    <3>5. CASE i < n
      <4>1. i + 1 \in 1..n
        BY <1>1, <3>1, <3>5
      <4>2. xsteps[i + 1].sentAt <= xsteps[n].sentAt /\ xsteps[i].receivedAt <= xsteps[i + 1].sentAt
        BY <1>2, <1>3, <2>3, <3>1, <3>5, <4>1
      <4>3. /\ xsteps[i].receivedAt \in Nat /\ xsteps[i + 1].sentAt \in Nat
            /\ xsteps[n].sentAt \in Nat /\ xsteps[n].receivedAt \in Nat
        BY <1>2, <2>3, <4>1
      <4> QED BY <3>1, <3>2, <3>3, <4>2, <4>3
    <3> QED BY <1>1, <3>1, <3>4, <3>5
  <2>6. EndOfCase \in Nat
    BY <1>4, <2>1
  <2> QED BY <1>1, <1>2, <1>3, <2>4, <2>5, <2>6
<1> QED BY <1>6, <1>7

LEMMA CustodyEnds ==
    ASSUME HistoryInv, TurnsInv, HasStep, NEW i \in 1..Len(xsteps)
    PROVE  /\ CustodyEnd(i) \in Nat /\ CustodyEnd(i) <= EndOfCase
           /\ xsteps[i].sentAt <= CustodyEnd(i) /\ xsteps[i].receivedAt <= CustodyEnd(i)
<1>1. CASE i < Len(xsteps)
  <2>1. i + 1 \in 1..Len(xsteps) /\ i <= i + 1
    BY <1>1, CaseTimes
  <2> QED BY <1>1, <2>1, CaseTimes DEF CustodyEnd
<1>2. CASE ~(i < Len(xsteps))
  BY <1>2, CaseTimes DEF CustodyEnd
<1> QED BY <1>1, <1>2

\* A pause lies within the custody it interrupts.
LEMMA PauseTimes ==
    ASSUME HistoryInv, TurnsInv, HasStep, NEW j \in 1..Len(turns)
    PROVE  /\ PauseEnd(j) \in Nat /\ turns[j].at \in Nat
           /\ turns[j].at <= PauseEnd(j) /\ PauseEnd(j) <= EndOfCase
           /\ turns[j].step \in 1..Len(xsteps)
           /\ xsteps[turns[j].step].receivedAt # 0
           /\ xsteps[turns[j].step].receivedAt <= turns[j].at
           /\ j \in Pause => PauseEnd(j) <= CustodyEnd(turns[j].step)
<1> DEFINE n == Len(xsteps)
           m == Len(turns)
           i == turns[j].step
<1>1. Chronology /\ TurnsInOrder /\ ClosedByTurn /\ n \in Nat /\ m \in Nat /\ EndOfCase \in Nat
  BY CaseTimes DEF HistoryInv, CaseHistoryHolds, TurnsInv
<1>2. /\ i \in 1..n /\ turns[j].at \in WorkOf(i) /\ turns[j].at \in Nat
      /\ turns[j].at <= EndOfCase /\ xsteps[i].receivedAt # 0
  BY <1>1, TurnFacts, CaseTimes DEF TurnsInOrder
<1>3. xsteps[i].receivedAt <= turns[j].at
  BY <1>2, <1>1 DEF Chronology
<1>4. CASE j < m
  <2>1. j + 1 \in 1..m /\ j \in 1..m - 1 /\ PauseEnd(j) = turns[j + 1].at
    BY <1>1, <1>4 DEF PauseEnd
  <2>2. turns[j].at <= turns[j + 1].at /\ (j \in Pause => turns[j + 1].step = i)
    BY <1>1, <2>1 DEF TurnsInOrder
  <2>3. turns[j + 1].at \in Nat /\ turns[j + 1].at <= EndOfCase
    BY <2>1, CaseTimes
  <2>4. ASSUME j \in Pause PROVE turns[j + 1].at <= CustodyEnd(i)
    <3>1. turns[j + 1].at \in WorkOf(i)
      BY <2>1, <2>2, <2>4, TurnFacts
    <3>2. i < n => turns[j + 1].at <= xsteps[i + 1].sentAt
      BY <1>1, <1>2, <3>1 DEF Chronology
    <3> QED BY <2>3, <3>2 DEF CustodyEnd
  <2> QED BY <1>2, <1>3, <2>1, <2>2, <2>3, <2>4
<1>5. CASE j = m
  <2>1. PauseEnd(j) = EndOfCase
    BY <1>5 DEF PauseEnd
  <2>2. j \in Pause => i = n
    <3>1. j \in Pause => turns # <<>> /\ LastTurn.event = "COMPLETED"
      BY <1>5 DEF Pause, LastTurn
    <3> QED BY <1>1, <1>5, <3>1 DEF ClosedByTurn, LastTurn
  <2>3. i = n => CustodyEnd(i) = EndOfCase
    BY <1>1 DEF CustodyEnd
  <2> QED BY <1>1, <1>2, <1>3, <2>1, <2>2, <2>3
<1> QED BY <1>1, <1>4, <1>5

-----------------------------------------------------------------------------
(* What is charged *)

\* Of an interval from start until some time, what is before b, and what a
\* pause from a to b takes.
Before(b, start, until) == Span(start, IF until <= b THEN until ELSE b)

Taken(a, b, start, until) ==
    Span(IF start >= a THEN start ELSE a, IF until <= b THEN until ELSE b)

LEMMA ApartOrWithin ==
    ASSUME NEW a \in Nat, NEW b \in Nat, NEW start \in Nat, NEW until \in Nat, a <= b
    PROVE  /\ until <= a \/ b <= start => Taken(a, b, start, until) = 0
           /\ start <= a /\ b <= until => Taken(a, b, start, until) = b - a
BY DEF Taken, Span

LEMMA SpansAdd ==
    ASSUME NEW a \in Nat, NEW b \in Nat, NEW start \in Nat, NEW until \in Nat, a <= b,
           NEW x \in Int, NEW y \in Int,
           x <= Before(a, start, until), y = 0 \/ y = Taken(a, b, start, until)
    PROVE  x + y <= Before(b, start, until)
BY DEF Before, Taken, Span

LEMMA OverlapAt ==
    ASSUME HistoryInv, TurnsInv, HasStep, NEW start \in Nat, NEW until \in Nat,
           NEW j \in 1..Len(turns)
    PROVE  /\ Overlaps(start, until) \in [1..Len(turns) -> Int]
           /\ Overlaps(start, until)[j] \in Int
           /\ j \notin Pause => Overlaps(start, until)[j] = 0
           /\ j \in Pause =>
                Overlaps(start, until)[j] = Taken(turns[j].at, PauseEnd(j), start, until)
<1>1. ASSUME NEW k \in 1..Len(turns)
      PROVE  /\ Max({start, turns[k].at}) = IF start >= turns[k].at THEN start ELSE turns[k].at
             /\ Min({until, PauseEnd(k)}) = IF until <= PauseEnd(k) THEN until ELSE PauseEnd(k)
             /\ Span(Max({start, turns[k].at}), Min({until, PauseEnd(k)})) \in Int
             /\ Span(Max({start, turns[k].at}), Min({until, PauseEnd(k)}))
                    = Taken(turns[k].at, PauseEnd(k), start, until)
  <2>1. turns[k].at \in Nat /\ PauseEnd(k) \in Nat
    BY PauseTimes
  <2>2. /\ Max({start, turns[k].at}) = IF start >= turns[k].at THEN start ELSE turns[k].at
        /\ Min({until, PauseEnd(k)}) = IF until <= PauseEnd(k) THEN until ELSE PauseEnd(k)
    BY <2>1, OfTwo
  <2> QED BY <2>1, <2>2 DEF Span, Taken
<1> QED BY <1>1 DEF Overlaps

\* Pauses do not overlap each other: they take no more than there is.
LEMMA OverlapsFit ==
    ASSUME HistoryInv, TurnsInv, HasStep, NEW start \in Nat, NEW until \in Nat, start <= until
    PROVE  /\ Overlaps(start, until) \in [1..Len(turns) -> Int]
           /\ Total(Overlaps(start, until)) \in Int
           /\ Total(Overlaps(start, until)) <= until - start
<1> DEFINE m == Len(turns)
           o == Overlaps(start, until)
           room(k) == IF k = 0 THEN 0 ELSE Before(PauseEnd(k), start, until)
<1>1. m \in Nat /\ o \in [1..m -> Int]
  <2>1. CASE m = 0
    BY <2>1 DEF Overlaps
  <2>2. CASE m # 0
    <3>1. m \in Nat
      BY CaseTimes
    <3>2. 1 \in 1..m
      BY <2>2, <3>1
    <3> QED BY <3>1, <3>2, OverlapAt
  <2> QED BY <2>1, <2>2
<1> HIDE DEF o
<1>2. PICK s \in Sums(o, m) : Total(o) = s[m]
  BY <1>1, TotalIsLast
<1>3. s \in [0..m -> Int] /\ s[0] = 0 /\ \A k \in 1..m : s[k] = s[k - 1] + o[k]
  BY DEF Sums
<1> DEFINE P == {k \in 0..m : s[k] <= room(k)}
<1>4. 0 \in P
  BY <1>3
<1>5. ASSUME NEW k \in 1..m, k - 1 \in P PROVE k \in P
  <2>1. /\ PauseEnd(k) \in Nat /\ turns[k].at \in Nat /\ turns[k].at <= PauseEnd(k)
    BY PauseTimes
  <2>2. s[k] = s[k - 1] + o[k] /\ s[k - 1] \in Int /\ s[k] \in Int /\ o[k] \in Int
    BY <1>1, <1>3
  <2>3. s[k - 1] <= Before(turns[k].at, start, until)
    <3>1. CASE k = 1
      BY <1>3, <2>1, <3>1 DEF Before, Span
    <3>2. CASE k > 1
      <4>1. PauseEnd(k - 1) = turns[k].at
        BY <1>1, <3>2 DEF PauseEnd
      <4>2. s[k - 1] <= room(k - 1)
        BY <1>5
      <4> QED BY <3>2, <4>1, <4>2
    <3> QED BY <1>1, <3>1, <3>2
  <2>4. CASE k \in Pause
    <3>1. o[k] = Taken(turns[k].at, PauseEnd(k), start, until)
      BY <2>4, OverlapAt DEF o
    <3>2. s[k] <= room(k)
      <4>1. s[k - 1] + o[k] <= Before(PauseEnd(k), start, until)
        BY <2>1, <2>2, <2>3, <3>1, SpansAdd
      <4> QED BY <2>2, <4>1
    <3> QED BY <3>2
  <2>5. CASE k \notin Pause
    <3>1. o[k] = 0
      BY <2>5, OverlapAt DEF o
    <3>2. s[k] <= room(k)
      <4>1. s[k - 1] + o[k] <= Before(PauseEnd(k), start, until)
        BY <2>1, <2>2, <2>3, <3>1, SpansAdd
      <4> QED BY <2>2, <4>1
    <3> QED BY <3>2
  <2> QED BY <2>4, <2>5
<1>6. m \in P
  <2>1. m \in 0..m
    BY <1>1
  <2> HIDE DEF P
  <2> QED BY <1>1, <1>4, <1>5, <2>1, UpTo
<1>7. room(m) <= until - start
  <2>1. CASE m = 0
    BY <2>1
  <2>2. CASE m # 0
    <3>1. m \in 1..m
      BY <1>1, <2>2
    <3>2. PauseEnd(m) \in Nat
      BY <3>1, PauseTimes
    <3> QED BY <2>2, <3>2 DEF Before, Span
  <2> QED BY <2>1, <2>2
<1>8. s[m] \in Int /\ s[m] <= room(m)
  BY <1>1, <1>3, <1>6
<1>9. room(m) \in Int
  <2>1. CASE m = 0
    BY <2>1
  <2>2. CASE m # 0
    <3>1. m \in 1..m
      BY <1>1, <2>2
    <3>2. PauseEnd(m) \in Nat
      BY <3>1, PauseTimes
    <3> QED BY <2>2, <3>2 DEF Before, Span
  <2> QED BY <2>1, <2>2
<1> HIDE DEF room
<1>10. Total(o) \in Int /\ Total(o) <= until - start
  BY <1>2, <1>7, <1>8, <1>9
<1> QED BY <1>1, <1>10 DEF o

\* So an interval of the case is charged for all but its pauses.
LEMMA ChargedIs ==
    ASSUME HistoryInv, TurnsInv, HasStep, NEW start \in Nat, NEW finish \in Nat,
           start <= finish, finish <= EndOfCase
    PROVE  /\ Charged(start, finish, FALSE) = finish - start
           /\ Charged(start, finish, TRUE) = (finish - start) - Total(Overlaps(start, finish))
<1>1. Min({finish, EndOfCase}) = finish
  <2>1. EndOfCase \in Nat
    BY CaseTimes
  <2> QED BY <2>1, OfTwo
<1>2. /\ Total(Overlaps(start, finish)) \in Int
      /\ Total(Overlaps(start, finish)) <= finish - start
  BY OverlapsFit
<1>3. Charged(start, finish, FALSE) = Span(0, Span(start, finish))
  BY <1>1 DEF Charged
<1>4. Charged(start, finish, TRUE) = Span(Total(Overlaps(start, finish)), Span(start, finish))
  BY <1>1 DEF Charged
<1>5. Span(start, finish) = finish - start
  BY DEF Span
<1>6. Span(0, finish - start) = finish - start
  BY DEF Span
<1>7. Span(Total(Overlaps(start, finish)), finish - start)
        = (finish - start) - Total(Overlaps(start, finish))
  BY <1>2 DEF Span
<1> QED BY <1>3, <1>4, <1>5, <1>6, <1>7

\* A pause overlaps the custody it interrupts, all of it, and no other.
LEMMA PauseInCustody ==
    ASSUME HistoryInv, TurnsInv, HasStep, NEW i \in 1..Len(xsteps), NEW j \in Pause,
           xsteps[i].receivedAt # 0
    PROVE  Overlaps(xsteps[i].receivedAt, CustodyEnd(i))[j] =
                IF i = turns[j].step THEN PauseEnd(j) - turns[j].at ELSE 0
<1> DEFINE k == turns[j].step
           a == turns[j].at
           b == PauseEnd(j)
           start == xsteps[i].receivedAt
           until == CustodyEnd(i)
<1>1. j \in 1..Len(turns)
  BY DEF Pause
<1>2. /\ a \in Nat /\ b \in Nat /\ a <= b /\ k \in 1..Len(xsteps)
      /\ xsteps[k].receivedAt # 0 /\ xsteps[k].receivedAt <= a /\ b <= CustodyEnd(k)
  BY <1>1, PauseTimes
<1>3. start \in Nat /\ until \in Nat /\ CustodyEnd(k) \in Nat /\ i \in Nat /\ k \in Nat
      /\ xsteps[k].receivedAt \in Nat /\ xsteps[k].sentAt \in Nat /\ xsteps[i].sentAt \in Nat
      /\ xsteps[i].sentAt <= start /\ xsteps[k].sentAt <= xsteps[k].receivedAt
  <2>1. i \in Nat /\ k \in Nat /\ k \in 1..Len(xsteps)
    BY <1>2
  <2>2. until \in Nat /\ CustodyEnd(k) \in Nat
    BY <2>1, CustodyEnds
  <2>3. start \in Nat /\ xsteps[i].sentAt \in Nat /\ xsteps[i].sentAt <= start
    BY CaseTimes
  <2>4. /\ xsteps[k].receivedAt \in Nat /\ xsteps[k].sentAt \in Nat
        /\ xsteps[k].sentAt <= xsteps[k].receivedAt
    BY <1>2, <2>1, CaseTimes
  <2> QED BY <2>1, <2>2, <2>3, <2>4
<1>4. Overlaps(start, until)[j] = Taken(a, b, start, until)
  <2>1. start \in Nat /\ until \in Nat /\ j \in 1..Len(turns) /\ j \in Pause
    BY <1>1, <1>3
  <2> HIDE DEF start, until
  <2> QED BY <2>1, OverlapAt
<1>5. CASE i = k
  BY <1>2, <1>3, <1>4, <1>5, ApartOrWithin
<1>6. CASE i < k
  <2>1. i + 1 \in 1..Len(xsteps) /\ i + 1 <= k /\ CustodyEnd(i) = xsteps[i + 1].sentAt
    BY <1>2, <1>3, <1>6, CaseTimes DEF CustodyEnd
  <2>2. xsteps[i + 1].sentAt <= xsteps[k].sentAt
    BY <1>2, <2>1, CaseTimes
  <2>3. until <= a
    BY <1>2, <1>3, <2>1, <2>2
  <2>4. i # k
    BY <1>3, <1>6
  <2> HIDE DEF start, until, a, b, k
  <2>5. Overlaps(start, until)[j] = 0
    BY <1>2, <1>3, <1>4, <2>3, ApartOrWithin
  <2> QED BY <2>4, <2>5 DEF start, until, k
<1>7. CASE i > k
  <2>1. k + 1 \in 1..Len(xsteps) /\ k + 1 <= i /\ CustodyEnd(k) = xsteps[k + 1].sentAt
    <3>1. Len(xsteps) \in Nat /\ k < Len(xsteps)
      BY <1>2, <1>3, <1>7, CaseTimes
    <3>2. CustodyEnd(k) = xsteps[k + 1].sentAt
      BY <3>1 DEF CustodyEnd
    <3> QED BY <1>2, <1>3, <1>7, <3>1, <3>2
  <2>2. xsteps[k + 1].sentAt <= xsteps[i].sentAt
    BY <2>1, CaseTimes
  <2>3. b <= start
    BY <1>2, <1>3, <2>1, <2>2
  <2>4. i # k
    BY <1>3, <1>7
  <2> HIDE DEF start, until, a, b, k
  <2>5. Overlaps(start, until)[j] = 0
    BY <1>2, <1>3, <1>4, <2>3, ApartOrWithin
  <2> QED BY <2>4, <2>5 DEF start, until, k
<1> QED BY <1>3, <1>5, <1>6, <1>7

-----------------------------------------------------------------------------
(* Every moment is charged once *)

Paused == [j \in 1..Len(turns) |-> IF j \in Pause THEN PauseEnd(j) - turns[j].at ELSE 0]

LEMMA PausedShape ==
    ASSUME HistoryInv, TurnsInv, HasStep
    PROVE  Paused \in [1..Len(turns) -> Int] /\ Total(Paused) \in Int
<1>1. \A j \in 1..Len(turns) : turns[j].at \in Nat /\ PauseEnd(j) \in Nat
  BY PauseTimes
<1>2. Len(turns) \in Nat
  BY CaseTimes
<1>3. Paused \in [1..Len(turns) -> Int]
  BY <1>1 DEF Paused
<1> QED BY <1>2, <1>3, TotalIsInt

\* From the first dispatch on: waits, custodies and pauses fill the time.
LEMMA DispatchedTime ==
    ASSUME HistoryInv, TurnsInv, HasStep
    PROVE  /\ WaitingSeconds + CustodySeconds(Parties) + Total(Paused) = EndOfCase - xsteps[1].sentAt
           /\ WaitingSeconds \in Int /\ CustodySeconds(Parties) \in Int /\ Total(Paused) \in Int
<1> DEFINE n == Len(xsteps)
           m == Len(turns)
           none == [j \in 1..m |-> 0]
           held(i) == xsteps[i].receivedAt # 0
           o == [i \in 1..n |-> IF held(i) THEN Overlaps(xsteps[i].receivedAt, CustodyEnd(i)) ELSE none]
           row == [j \in 1..m |-> turns[j].step]
           W == [i \in 1..n |-> Charged(xsteps[i].sentAt, ReceiptEnd(i), FALSE)]
           C == [i \in 1..n |->
                    IF xsteps[i].to \in Parties /\ xsteps[i].receivedAt \in 1..EndOfCase
                    THEN Charged(xsteps[i].receivedAt, CustodyEnd(i), TRUE) ELSE 0]
           R == [i \in 1..n |-> Total(o[i])]
           F == [i \in 1..n |-> CustodyEnd(i) - xsteps[i].sentAt]
           G == [i \in 1..n |-> W[i] + C[i]]
           b == [i \in 1..(n + 1) |-> IF i <= n THEN xsteps[i].sentAt ELSE EndOfCase]
<1>1. n \in Nat /\ n >= 1 /\ m \in Nat /\ EndOfCase \in Nat
  BY CaseTimes
<1>2. ASSUME NEW i \in 1..n
      PROVE  /\ xsteps[i].sentAt \in Nat /\ xsteps[i].receivedAt \in Nat
             /\ xsteps[i].sentAt <= EndOfCase /\ xsteps[i].receivedAt <= EndOfCase
             /\ held(i) => xsteps[i].sentAt <= xsteps[i].receivedAt
             /\ i < n => held(i)
             /\ CustodyEnd(i) \in Nat /\ CustodyEnd(i) <= EndOfCase
             /\ xsteps[i].receivedAt <= CustodyEnd(i) /\ xsteps[i].to \in Parties
  <2>1. xsteps[i].to \in Parties
    BY StepFacts DEF HistoryInv
  <2> QED BY <2>1, CaseTimes, CustodyEnds
<1>3. ASSUME NEW i \in 1..n PROVE o[i] \in [1..m -> Int]
  <2>1. CASE held(i)
    BY <1>2, <2>1, OverlapsFit
  <2>2. CASE ~held(i)
    BY <2>2
  <2> QED BY <2>1, <2>2
<1>4. R \in [1..n -> Int] /\ Total(R) = Total(Paused)
  <2>1. o \in [1..n -> [1..m -> Int]]
    BY <1>3
  <2>2. row \in [1..m -> 1..n]
    BY PauseTimes
  <2>3. ASSUME NEW j \in 1..m
        PROVE  /\ o[row[j]][j] = Paused[j]
               /\ \A i \in 1..n : i # row[j] => o[i][j] = 0
    <3>1. row[j] = turns[j].step /\ row[j] \in 1..n /\ held(row[j])
      BY PauseTimes
    <3>2. ASSUME NEW i \in 1..n PROVE o[i][j] = IF i = row[j] THEN Paused[j] ELSE 0
      <4>1. CASE ~held(i)
        BY <3>1, <4>1
      <4>2. CASE held(i) /\ j \in Pause
        <5>1. o[i][j] = IF i = turns[j].step THEN PauseEnd(j) - turns[j].at ELSE 0
          BY <4>2, PauseInCustody
        <5>2. Paused[j] = PauseEnd(j) - turns[j].at
          BY <4>2 DEF Paused
        <5> QED BY <3>1, <5>1, <5>2
      <4>3. CASE held(i) /\ j \notin Pause
        <5>1. Overlaps(xsteps[i].receivedAt, CustodyEnd(i))[j] = 0
          BY <1>2, <4>3, OverlapAt
        <5>2. Paused[j] = 0
          BY <4>3 DEF Paused
        <5> QED BY <4>3, <5>1, <5>2
      <4> QED BY <4>1, <4>2, <4>3
    <3> HIDE DEF o, row
    <3> QED BY <3>1, <3>2
  <2>4. Paused \in [1..m -> Int]
    BY PausedShape
  <2>5. R = [i \in 1..n |-> Total(o[i])]
    OBVIOUS
  <2> HIDE DEF R, o, row, n, m
  <2>6. \A j \in 1..m : o[row[j]][j] = Paused[j] /\ \A i \in 1..n : i # row[j] => o[i][j] = 0
    BY <2>3
  <2>7. n \in Nat /\ m \in Nat
    BY <1>1
  <2>8. OneInEachColumn(n, m, o, Paused, row)
    BY <2>1, <2>2, <2>4, <2>6 DEF OneInEachColumn
  <2> QED BY <2>5, <2>7, <2>8, RowsAndColumns
<1>5. ASSUME NEW i \in 1..n
      PROVE  W[i] \in Int /\ C[i] \in Int /\ F[i] = (W[i] + C[i]) + R[i]
  <2>1. R[i] = Total(o[i]) /\ R[i] \in Int
    BY <1>4
  <2>2. CASE held(i)
    <3>1. W[i] = xsteps[i].receivedAt - xsteps[i].sentAt
      <4>1. ReceiptEnd(i) = xsteps[i].receivedAt
        BY <2>2 DEF ReceiptEnd
      <4>2. Charged(xsteps[i].sentAt, xsteps[i].receivedAt, FALSE)
                = xsteps[i].receivedAt - xsteps[i].sentAt
        BY <1>2, <2>2, ChargedIs
      <4> QED BY <4>1, <4>2
    <3>2. C[i] = (CustodyEnd(i) - xsteps[i].receivedAt) - R[i]
      <4>1. Charged(xsteps[i].receivedAt, CustodyEnd(i), TRUE)
              = (CustodyEnd(i) - xsteps[i].receivedAt)
                - Total(Overlaps(xsteps[i].receivedAt, CustodyEnd(i)))
        BY <1>2, ChargedIs
      <4>2. xsteps[i].receivedAt \in 1..EndOfCase
        BY <1>1, <1>2, <2>2
      <4>3. C[i] = Charged(xsteps[i].receivedAt, CustodyEnd(i), TRUE)
        BY <1>2, <4>2
      <4>4. R[i] = Total(Overlaps(xsteps[i].receivedAt, CustodyEnd(i)))
        BY <2>1, <2>2
      <4> QED BY <4>1, <4>3, <4>4
    <3>3. F[i] = CustodyEnd(i) - xsteps[i].sentAt
      OBVIOUS
    <3> HIDE DEF W, C, R, F
    <3> QED BY <1>2, <2>1, <3>1, <3>2, <3>3
  <2>3. CASE ~held(i)
    <3>1. CustodyEnd(i) = EndOfCase /\ ReceiptEnd(i) = EndOfCase
      BY <1>2, <2>3 DEF CustodyEnd, ReceiptEnd
    <3>2. Charged(xsteps[i].sentAt, EndOfCase, FALSE) = EndOfCase - xsteps[i].sentAt
      <4>1. xsteps[i].sentAt \in Nat /\ xsteps[i].sentAt <= EndOfCase
        BY <1>2
      <4>2. EndOfCase \in Nat /\ EndOfCase <= EndOfCase
        BY <1>1
      <4> QED BY <4>1, <4>2, ChargedIs
    <3>3. W[i] = EndOfCase - xsteps[i].sentAt
      BY <3>1, <3>2
    <3>4. C[i] = 0
      <4>1. xsteps[i].receivedAt \notin 1..EndOfCase
        BY <1>1, <2>3
      <4> QED BY <4>1
    <3>5. R[i] = 0
      <4>1. o[i] = none
        BY <2>3
      <4>2. none \in [1..m -> Int] /\ \A j \in 1..m : none[j] = 0
        OBVIOUS
      <4> HIDE DEF none, o, m
      <4>3. Total(none) = 0
        BY <1>1, <4>2, TotalOfNone
      <4> QED BY <2>1, <4>1, <4>3
    <3>6. F[i] = EndOfCase - xsteps[i].sentAt
      BY <3>1
    <3> HIDE DEF W, C, R, F
    <3> QED BY <1>1, <1>2, <3>3, <3>4, <3>5, <3>6
  <2> QED BY <2>2, <2>3
<1>6. ASSUME NEW i \in 1..n PROVE F[i] = b[i + 1] - b[i] /\ F[i] \in Int
  <2>1. b[i] = xsteps[i].sentAt /\ b[i + 1] = CustodyEnd(i)
    BY <1>1 DEF CustodyEnd
  <2> QED BY <1>2, <2>1
<1>7. b \in [1..(n + 1) -> Int] /\ b[1] = xsteps[1].sentAt /\ b[n + 1] = EndOfCase
  BY <1>1, <1>2
<1>8. /\ W \in [1..n -> Int] /\ C \in [1..n -> Int] /\ F \in [1..n -> Int] /\ G \in [1..n -> Int]
      /\ \A i \in 1..n : G[i] = W[i] + C[i] /\ F[i] = G[i] + R[i]
  <2>1. W \in [1..n -> Int] /\ C \in [1..n -> Int]
    BY <1>5
  <2>2. F \in [1..n -> Int]
    BY <1>6
  <2> HIDE DEF W, C, F, R
  <2>3. G \in [1..n -> Int] /\ \A i \in 1..n : G[i] = W[i] + C[i]
    BY <2>1
  <2> QED BY <1>5, <2>1, <2>2, <2>3
<1>9. WaitingSeconds = Total(W) /\ CustodySeconds(Parties) = Total(C)
  BY DEF WaitingSeconds, CustodySeconds
<1> HIDE DEF W, C, R, F, G, b, n
<1>10. Total(F) = EndOfCase - xsteps[1].sentAt
  BY <1>1, <1>6, <1>7, <1>8, TotalTelescopes
<1>11. Total(G) = Total(W) + Total(C)
  BY <1>1, <1>8, TotalAdds
<1>12. Total(F) = Total(G) + Total(R)
  <2>1. n \in Nat /\ G \in [1..n -> Int] /\ R \in [1..n -> Int] /\ F \in [1..n -> Int]
    BY <1>1, <1>4, <1>8
  <2>2. \A i \in 1..n : F[i] = G[i] + R[i]
    BY <1>8
  <2> QED BY <2>1, <2>2, TotalAdds
<1>13. Total(W) \in Int /\ Total(C) \in Int
  BY <1>1, <1>8, TotalIsInt
<1>14. Total(Paused) \in Int
  BY PausedShape
<1> QED BY <1>4, <1>9, <1>10, <1>11, <1>12, <1>13, <1>14

\* No pause is earlier than the first dispatch.
LEMMA NoEarlyPause ==
    ASSUME HistoryInv, TurnsInv, HasStep, origin <= xsteps[1].sentAt
    PROVE  Total(Overlaps(origin, xsteps[1].sentAt)) = 0
<1> DEFINE m == Len(turns)
           o == Overlaps(origin, xsteps[1].sentAt)
<1>1. m \in Nat /\ origin \in Nat /\ 1 \in 1..Len(xsteps) /\ xsteps[1].sentAt \in Nat
  BY CaseTimes DEF HistoryInv, ExtShape
<1>2. o \in [1..m -> Int]
  BY <1>1, OverlapsFit
<1>3. ASSUME NEW j \in 1..m PROVE o[j] = 0
  <2> DEFINE a == turns[j].at
             b == PauseEnd(j)
             k == turns[j].step
             start == origin
             until == xsteps[1].sentAt
  <2>1. a \in Nat /\ b \in Nat /\ a <= b /\ k \in 1..Len(xsteps)
        /\ xsteps[k].receivedAt # 0 /\ xsteps[k].receivedAt <= a
    BY PauseTimes
  <2>2. until <= xsteps[k].sentAt /\ xsteps[k].sentAt <= xsteps[k].receivedAt
        /\ xsteps[k].sentAt \in Nat /\ xsteps[k].receivedAt \in Nat
    <3>1. 1 <= k
      BY <2>1
    <3> QED BY <1>1, <2>1, <3>1, CaseTimes
  <2>3. until <= a
    BY <1>1, <2>1, <2>2
  <2>4. \/ o[j] = 0
        \/ o[j] = Taken(a, b, start, until)
    BY <1>1, OverlapAt
  <2>5. start \in Nat /\ until \in Nat
    BY <1>1
  <2> HIDE DEF o, a, b, start, until
  <2> QED BY <2>1, <2>3, <2>4, <2>5, ApartOrWithin
<1> HIDE DEF o
<1>4. Total(o) = 0
  BY <1>1, <1>2, <1>3, TotalOfNone
<1> QED BY <1>4 DEF o

\* A known source outside comes before all that is known of its case.
LEMMA SourceIsEarliest ==
    ASSUME HistoryInv, TurnsInv, HasStep
    PROVE  /\ Earliest \in Nat /\ Earliest <= xsteps[1].sentAt
           /\ origin # 0 /\ xsteps[1].from \in Outside => Earliest = origin
<1> DEFINE n == Len(xsteps)
           T == ({origin} \cup {xsteps[i].sentAt : i \in 1..n} \cup UNION {WorkOf(i) : i \in 0..n}) \ {0}
<1>1. /\ Chronology /\ Worked /\ SourceIdle /\ TurnsInOrder
      /\ n \in Nat /\ 1 \in 1..n /\ origin \in Nat /\ origin <= xsteps[1].sentAt
      /\ xsteps[1].sentAt # 0
  <2>1. Chronology /\ Worked /\ SourceIdle /\ TurnsInOrder /\ origin \in Nat
    BY DEF HistoryInv, CaseHistoryHolds, TurnsInv, ExtShape
  <2>2. n \in Nat /\ 1 \in 1..n
    BY CaseTimes
  <2> QED BY <2>1, <2>2 DEF Chronology, SourceIdle
<1>2. T \subseteq Nat
  <2>1. \A i \in 1..n : xsteps[i].sentAt \in Nat
    BY CaseTimes
  <2>2. \A i \in 0..n : WorkOf(i) \subseteq Nat
    BY <1>1 DEF Worked
  <2> QED BY <1>1, <2>1, <2>2
<1>3. xsteps[1].sentAt \in T
  BY <1>1
<1>4. Earliest = Min(T)
  BY DEF Earliest
<1>5. origin # 0 => origin \in T
  OBVIOUS
<1>6. ASSUME xsteps[1].from \in Outside, NEW t \in T PROVE origin <= t
  <2>1. CASE t = origin
    BY <1>1, <2>1
  <2>2. ASSUME NEW i \in 1..n PROVE origin <= xsteps[i].sentAt /\ xsteps[i].sentAt \in Nat
    <3>1. 1 <= i
      OBVIOUS
    <3>2. xsteps[1].sentAt <= xsteps[i].sentAt /\ xsteps[1].sentAt \in Nat /\ xsteps[i].sentAt \in Nat
      BY <1>1, <3>1, CaseTimes
    <3> QED BY <1>1, <3>2
  <2>3. ASSUME NEW i \in 0..n, t \in WorkOf(i) PROVE origin <= t
    <3>1. i # 0
      <4>1. \A w \in work : w.step # 0
        BY <1>1, <1>6 DEF SourceIdle, Source
      <4> QED BY <1>1, <2>3, <4>1 DEF TurnsInOrder, WorkOf
    <3>2. i \in 1..n /\ xsteps[i].receivedAt # 0
      BY <1>1, <2>3, <3>1 DEF Worked
    <3>3. xsteps[i].receivedAt <= t /\ xsteps[i].sentAt <= xsteps[i].receivedAt
      BY <1>1, <2>3, <3>2 DEF Chronology
    <3>4. t \in Nat /\ xsteps[i].receivedAt \in Nat
      BY <1>2, <3>2, CaseTimes
    <3> QED BY <1>1, <2>2, <3>2, <3>3, <3>4
  <2> QED BY <2>1, <2>2, <2>3
<1> HIDE DEF T
<1>7. Min(T) \in T /\ \A t \in T : Min(T) <= t
  BY <1>2, <1>3, MinOfNat
<1>8. Min(T) \in Nat
  BY <1>2, <1>7
<1>9. ASSUME origin # 0, xsteps[1].from \in Outside PROVE Min(T) = origin
  <2>1. Min(T) <= origin /\ origin <= Min(T)
    BY <1>5, <1>6, <1>7, <1>9
  <2> QED BY <1>1, <1>8, <2>1
<1> QED BY <1>3, <1>4, <1>7, <1>8, <1>9

LEMMA ChargedOnce ==
    ASSUME HistoryInv, TurnsInv
    PROVE  EveryMomentChargedOnce
<1> DEFINE E == EndOfCase
           s == xsteps[1].sentAt
           known == origin # 0 /\ xsteps[1].from \in Outside
           drafted == IF SourceSeconds = 0 THEN Span(Earliest, s) ELSE 0
<1>1. SUFFICES ASSUME HasStep
               PROVE  OverallSeconds = drafted + SourceSeconds + WaitingSeconds
                                       + CustodySeconds(Parties) + Total(Paused)
  BY DEF EveryMomentChargedOnce, Paused
<1>2. E \in Nat /\ s \in Nat /\ s <= E /\ origin \in Nat /\ origin <= s
  <2>1. 1 \in 1..Len(xsteps) /\ origin \in Nat /\ Chronology
    BY CaseTimes, <1>1 DEF HistoryInv, CaseHistoryHolds, ExtShape
  <2> QED BY <1>1, <2>1, CaseTimes DEF Chronology
<1>3. Earliest \in Nat /\ Earliest <= s /\ (known => Earliest = origin)
  BY <1>1, SourceIsEarliest
<1>4. SourceSeconds = IF known THEN s - origin ELSE 0
  <2>1. Charged(origin, s, TRUE) = s - origin
    <3>1. Charged(origin, s, TRUE) = (s - origin) - Total(Overlaps(origin, s))
      <4> HIDE DEF E, s
      <4>1. s <= EndOfCase
        BY <1>2 DEF E
      <4> QED BY <1>1, <1>2, <4>1, ChargedIs
    <3>2. Total(Overlaps(origin, s)) = 0
      BY <1>1, <1>2, NoEarlyPause
    <3> HIDE DEF s
    <3>3. (s - origin) - 0 = s - origin
      BY <1>2
    <3> QED BY <3>1, <3>2, <3>3
  <2>2. SourceSeconds = IF known THEN Charged(origin, s, TRUE) ELSE 0
    BY <1>1 DEF SourceSeconds
  <2> QED BY <2>1, <2>2
<1>5. OverallSeconds = E - Earliest /\ Span(Earliest, s) = s - Earliest
  BY <1>2, <1>3 DEF OverallSeconds, Span
<1>6. WaitingSeconds + CustodySeconds(Parties) + Total(Paused) = E - s
  BY <1>1, DispatchedTime
<1>7. drafted + SourceSeconds = s - Earliest
  BY <1>2, <1>3, <1>4, <1>5
<1>8. WaitingSeconds \in Int /\ CustodySeconds(Parties) \in Int /\ Total(Paused) \in Int
  BY <1>1, DispatchedTime
<1>9. drafted \in Int /\ SourceSeconds \in Int
  BY <1>2, <1>3, <1>4, <1>5
<1> HIDE DEF E, s, drafted
<1> QED BY <1>2, <1>3, <1>5, <1>6, <1>7, <1>8, <1>9

\* The turnaround report of a dispatched case charges every moment once,
\* however late its times were reported and however they were corrected.
THEOREM EveryMomentIsChargedOnce == ExtSpec => []EveryMomentChargedOnce
<1>1. ExtInv /\ TurnsInv => EveryMomentChargedOnce
  BY ChargedOnce DEF ExtInv
<1> QED BY <1>1, ExtInductive, TurnsInductive, PTL
=============================================================================
