--------------------------- MODULE MFALoginProofs ---------------------------
(***************************************************************************)
(* The guess budgets of the second factor hold for any finite number of    *)
(* requests and challenges, any limits, and whatever a lockout and the     *)
(* life of a challenge have to do with each other.                         *)
(***************************************************************************)
EXTENDS MFALogin, FiniteSetTheorems, TLAPS

-----------------------------------------------------------------------------
(* Sums.                                                                   *)

LEMMA UnitsFinite ==
  ASSUME NEW S, IsFiniteSet(S), NEW f, \A x \in S : f[x] \in Nat
  PROVE  IsFiniteSet(Units(f, S)) /\ Total(f, S) \in Nat
<1> DEFINE Column(x) == {x} \X (1..f[x])
           Columns == {Column(x) : x \in S}
           column == [x \in S |-> Column(x)]
<1>1. column \in Surjection(S, Columns)
  BY DEF Surjection
<1>2. IsFiniteSet(Columns)
  BY <1>1, FS_Surjection
<1>3. ASSUME NEW x \in S PROVE IsFiniteSet(Column(x))
  <2>1. IsFiniteSet({x})
    BY FS_Singleton
  <2>2. IsFiniteSet(1..f[x])
    BY FS_Interval
  <2> QED
    BY <2>1, <2>2, FS_Product
<1>4. IsFiniteSet(Units(f, S))
  <2>1. \A T \in Columns : IsFiniteSet(T)
    BY <1>3
  <2> QED
    BY <1>2, <2>1, FS_UNION DEF Units
<1> QED
  BY <1>4, FS_CardinalityType DEF Total

LEMMA UnitOf ==
  ASSUME NEW f, NEW S, NEW x, NEW k
  PROVE  <<x, k>> \in Units(f, S) <=> x \in S /\ k \in 1..f[x]
BY DEF Units

LEMMA UnitIs ==
  ASSUME NEW f, NEW S, NEW u \in Units(f, S)
  PROVE  u = <<u[1], u[2]>> /\ u[1] \in S /\ u[2] \in 1..f[u[1]]
BY DEF Units

\* What m carries over without merging does not shrink.
LEMMA TotalCarried ==
  ASSUME NEW S, NEW T, IsFiniteSet(T), NEW f, NEW g, NEW m,
         \A x \in S : f[x] \in Nat, \A x \in T : g[x] \in Nat,
         \A x \in S : f[x] > 0 => m[x] \in T /\ f[x] <= g[m[x]],
         \A x, y \in S : f[x] > 0 /\ f[y] > 0 /\ m[x] = m[y] => x = y
  PROVE  Total(f, S) <= Total(g, T)
<1> DEFINE carry == [u \in Units(f, S) |-> <<m[u[1]], u[2]>>]
<1>1. ASSUME NEW u \in Units(f, S)
      PROVE  carry[u] \in Units(g, T) /\ f[u[1]] > 0
  <2>1. u[1] \in S /\ u[2] \in 1..f[u[1]]
    BY UnitIs
  <2>2. f[u[1]] \in Nat /\ f[u[1]] > 0
    BY <2>1
  <2>3. m[u[1]] \in T /\ f[u[1]] <= g[m[u[1]]] /\ g[m[u[1]]] \in Nat
    BY <2>1, <2>2
  <2>4. u[2] \in 1..g[m[u[1]]]
    BY <2>1, <2>2, <2>3
  <2> QED
    BY <2>2, <2>3, <2>4, UnitOf
<1>2. ASSUME NEW u \in Units(f, S), NEW v \in Units(f, S), carry[u] = carry[v]
      PROVE  u = v
  <2>1. m[u[1]] = m[v[1]] /\ u[2] = v[2]
    BY <1>2
  <2>2. u[1] = v[1]
    BY <2>1, <1>1, UnitIs
  <2> QED
    BY <2>1, <2>2, UnitIs
<1>3. carry \in Injection(Units(f, S), Units(g, T))
  BY <1>1, <1>2 DEF Injection, IsInjective
<1>4. IsFiniteSet(Units(g, T))
  BY UnitsFinite
<1> HIDE DEF carry
<1> QED
  BY <1>3, <1>4, FS_Injection DEF Total

LEMMA TotalMonotone ==
  ASSUME NEW S, IsFiniteSet(S), NEW f, NEW g,
         \A x \in S : f[x] \in Nat /\ g[x] \in Nat /\ f[x] <= g[x]
  PROVE  Total(f, S) <= Total(g, S)
<1> DEFINE same == [x \in S |-> x]
<1> QED
  BY TotalCarried, \A x \in S : same[x] = x

LEMMA TotalOfSame ==
  ASSUME NEW S, NEW f, NEW g, \A x \in S : f[x] = g[x]
  PROVE  Total(f, S) = Total(g, S)
BY DEF Total, Units

LEMMA TotalOfNone ==
  ASSUME NEW S, NEW f, \A x \in S : f[x] = 0
  PROVE  Total(f, S) = 0
<1>1. Units(f, S) = {}
  BY DEF Units
<1> QED
  BY <1>1, FS_EmptySet DEF Total

\* One more at one place is one more.
LEMMA TotalOneMore ==
  ASSUME NEW S, IsFiniteSet(S), NEW f, NEW g, NEW x \in S,
         \A y \in S : f[y] \in Nat, g[x] = f[x] + 1, \A y \in S \ {x} : g[y] = f[y]
  PROVE  Total(g, S) = Total(f, S) + 1
<1> DEFINE new == <<x, f[x] + 1>>
<1>1. new \notin Units(f, S)
  BY UnitOf
<1>2. ASSUME NEW u PROVE u \in Units(g, S) <=> u \in Units(f, S) \cup {new}
  <2>1. ASSUME u \in Units(g, S) PROVE u \in Units(f, S) \cup {new}
    <3>1. u = <<u[1], u[2]>> /\ u[1] \in S /\ u[2] \in 1..g[u[1]]
      BY <2>1, UnitIs
    <3>2. CASE u[1] # x
      BY <3>1, <3>2, UnitOf
    <3>3. CASE u[1] = x
      <4>1. u[2] \in 1..f[x] \/ u[2] = f[x] + 1
        BY <3>1, <3>3
      <4> QED
        BY <3>1, <3>3, <4>1, UnitOf
    <3> QED
      BY <3>2, <3>3
  <2>2. ASSUME u \in Units(f, S) PROVE u \in Units(g, S)
    <3>1. u = <<u[1], u[2]>> /\ u[1] \in S /\ u[2] \in 1..f[u[1]]
      BY <2>2, UnitIs
    <3>2. u[2] \in 1..g[u[1]]
      BY <3>1
    <3> QED
      BY <3>1, <3>2, UnitOf
  <2>3. new \in Units(g, S)
    BY UnitOf
  <2> QED
    BY <2>1, <2>2, <2>3
<1>3. Units(g, S) = Units(f, S) \cup {new}
  BY <1>2
<1> QED
  BY <1>1, <1>3, UnitsFinite, FS_AddElement DEF Total

-----------------------------------------------------------------------------
(* The clock and the rows.                                                 *)

LEMMA MaxOfTwo ==
  ASSUME NEW a \in Int, NEW b \in Int
  PROVE  Max({a, b}) = IF a >= b THEN a ELSE b
<1>1. \E x \in {a, b} : \A y \in {a, b} : x >= y
  OBVIOUS
<1>2. Max({a, b}) \in {a, b} /\ Max({a, b}) >= a /\ Max({a, b}) >= b
  BY <1>1 DEF Max
<1> QED
  BY <1>2

LEMMA MinOfTwo ==
  ASSUME NEW a \in Int, NEW b \in Int
  PROVE  Min({a, b}) = IF a <= b THEN a ELSE b
<1>1. \E x \in {a, b} : \A y \in {a, b} : x <= y
  OBVIOUS
<1>2. Min({a, b}) \in {a, b} /\ Min({a, b}) <= a /\ Min({a, b}) <= b
  BY <1>1 DEF Min
<1> QED
  BY <1>2

LEMMA CapBeyond ==
  /\ Cap \in Nat /\ Cap > MaxAge /\ Cap > Window
  /\ Max({Window, MaxAge}) \in Nat
  /\ Max({Window, MaxAge}) >= MaxAge /\ Max({Window, MaxAge}) >= Window
BY MFAAssumption, MaxOfTwo DEF Cap

Counts == [Age -> Nat]

LEMMA AgesFinite ==
  ASSUME NEW w \in 0..Cap
  PROVE  IsFiniteSet(0..w) /\ 0..w \subseteq Age /\ 0..w \subseteq Nat
<1>1. 0 \in Int /\ w \in Int /\ w <= Cap /\ Cap \in Nat
  BY CapBeyond
<1>2. IsFiniteSet(0..w)
  BY <1>1, FS_Interval
<1> QED
  BY <1>1, <1>2 DEF Age

LEMMA WithinType ==
  ASSUME NEW count \in Counts, NEW w \in 0..Cap
  PROVE  Within(count, w) \in Nat
BY AgesFinite, UnitsFinite DEF Within, Counts

LEMMA PurgedType ==
  ASSUME NEW count \in Counts
  PROVE  /\ Purged(count) \in Counts
         /\ \A a \in Age : Purged(count)[a] <= count[a]
         /\ \A a \in 0..Window : Purged(count)[a] = count[a]
<1> DEFINE kept == Max({Window, MaxAge})
<1>1. /\ kept \in Nat /\ kept >= Window /\ Window \in Nat
      /\ \A a \in 0..Window : a \in Age /\ ~ (a > kept)
  BY CapBeyond, MFAAssumption DEF Age
<1>2. \A a \in Age : Purged(count)[a] = IF a > kept THEN 0 ELSE count[a]
  BY DEF Purged
<1>3. \A a \in Age : count[a] \in Nat
  BY DEF Counts
<1> HIDE DEF kept
<1>4. Purged(count) = [a \in Age |-> Purged(count)[a]]
  BY DEF Purged
<1> QED
  BY <1>1, <1>2, <1>3, <1>4 DEF Counts

LEMMA OlderType ==
  ASSUME NEW count \in Counts
  PROVE  /\ Older(count) \in Counts
         /\ Older(count)[0] = 0
         /\ \A a \in 1..(Cap - 1) : Older(count)[a] = count[a - 1]
         /\ Older(count)[Cap] = count[Cap] + count[Cap - 1]
<1>1. 0 \in Age /\ Cap \in Age /\ (Cap - 1) \in Age /\ Cap # 0
  BY CapBeyond, MFAAssumption DEF Age
<1>2. \A a \in Age \ {0} : a - 1 \in Age
  BY CapBeyond DEF Age
<1>3. 1..(Cap - 1) \subseteq Age \ {0, Cap}
  BY CapBeyond DEF Age
<1> QED
  BY <1>1, <1>2, <1>3 DEF Older, Counts

\* A tick moves what is counted up to w - 1 to w, below the cap.
LEMMA WithinOlder ==
  ASSUME NEW count \in Counts, NEW w \in 1..(Cap - 1)
  PROVE  Within(Older(count), w) = Within(count, w - 1)
<1> DEFINE up == [a \in Age |-> a + 1]
           down == [a \in Age |-> a - 1]
<1>1. /\ w \in 0..Cap /\ w - 1 \in 0..Cap
      /\ \A a \in 0..(w - 1) : a \in Age /\ a + 1 \in 1..(Cap - 1) /\ a + 1 \in 0..w
      /\ \A a \in 0..w : a \in Age /\ (a = 0 \/ (a \in 1..(Cap - 1) /\ a - 1 \in 0..(w - 1)))
  BY CapBeyond DEF Age
<1>2. /\ \A a \in 0..(w - 1) : count[a] \in Nat /\ Older(count)[a + 1] = count[a]
      /\ \A a \in 0..w : Older(count)[a] \in Nat
      /\ \A a \in 0..w : a # 0 => Older(count)[a] = count[a - 1]
      /\ Older(count)[0] = 0
  BY <1>1, OlderType DEF Counts
<1>3. Within(count, w - 1) <= Within(Older(count), w)
  <2>1. \A a \in 0..(w - 1) : up[a] \in 0..w /\ count[a] <= Older(count)[up[a]]
    BY <1>1, <1>2
  <2>2. \A a, b \in 0..(w - 1) : up[a] = up[b] => a = b
    BY <1>1
  <2> HIDE DEF up
  <2>3. IsFiniteSet(0..w)
    BY <1>1, AgesFinite
  <2>4. /\ \A a \in 0..(w - 1) : count[a] \in Nat
        /\ \A a \in 0..w : Older(count)[a] \in Nat
    BY <1>1, <1>2 DEF Counts
  <2>5. Total(count, 0..(w - 1)) <= Total(Older(count), 0..w)
    BY <2>1, <2>2, <2>3, <2>4, TotalCarried
  <2> QED
    BY <2>5 DEF Within
<1>4. Within(Older(count), w) <= Within(count, w - 1)
  <2>1. \A a \in 0..w : Older(count)[a] > 0
           => down[a] \in 0..(w - 1) /\ Older(count)[a] <= count[down[a]]
    BY <1>1, <1>2
  <2>2. \A a, b \in 0..w : down[a] = down[b] => a = b
    BY <1>1
  <2> HIDE DEF down
  <2>3. IsFiniteSet(0..(w - 1))
    BY <1>1, AgesFinite
  <2>4. /\ \A a \in 0..w : Older(count)[a] \in Nat
        /\ \A a \in 0..(w - 1) : count[a] \in Nat
    BY <1>1, <1>2 DEF Counts
  <2>5. Total(Older(count), 0..w) <= Total(count, 0..(w - 1))
    BY <2>1, <2>2, <2>3, <2>4, TotalCarried
  <2> QED
    BY <2>5 DEF Within
<1> QED
  BY <1>1, <1>3, <1>4, WithinType, OlderType

Ledger == [Challenge -> Counts]

\* The rows of every challenge, one by one.
RowsOf(ledger) == [row \in Challenge \X Age |-> ledger[row[1]][row[2]]]

LEMMA RowsFinite ==
  ASSUME NEW ledger \in Ledger, NEW w \in 0..Cap
  PROVE  /\ IsFiniteSet(Challenge \X (0..w))
         /\ \A c \in Challenge, a \in 0..w :
              <<c, a>> \in Challenge \X Age /\ RowsOf(ledger)[<<c, a>>] = ledger[c][a]
         /\ \A x \in Challenge \X (0..w) : RowsOf(ledger)[x] \in Nat
<1>1. IsFiniteSet(Challenge \X (0..w))
  BY AgesFinite, FS_Product, MFAAssumption
<1> QED
  BY <1>1, AgesFinite DEF RowsOf, Ledger, Counts

RecordedIn(ledger, w) == Total(RowsOf(ledger), Challenge \X (0..w))

LEMMA RecordedType ==
  ASSUME NEW ledger \in Ledger, NEW w \in 0..Cap
  PROVE  RecordedIn(ledger, w) \in Nat
BY RowsFinite, UnitsFinite DEF RecordedIn

LEMMA RecordedMonotone ==
  ASSUME NEW ledger \in Ledger, NEW w \in 0..Cap, NEW v \in 0..w
  PROVE  RecordedIn(ledger, v) <= RecordedIn(ledger, w)
<1> DEFINE same == [x \in Challenge \X (0..v) |-> x]
<1>1. v \in 0..Cap /\ Challenge \X (0..v) \subseteq Challenge \X (0..w)
  BY CapBeyond
<1>2. \A x \in Challenge \X (0..v) : RowsOf(ledger)[x] \in Nat /\ same[x] = x
  BY <1>1, RowsFinite
<1> HIDE DEF same
<1>3. \A x \in Challenge \X (0..w) : RowsOf(ledger)[x] \in Nat
  BY RowsFinite
<1> QED
  BY <1>1, <1>2, <1>3, RowsFinite, TotalCarried DEF RecordedIn

\* A purge takes nothing that the lockout counts.
LEMMA RecordedPurged ==
  ASSUME NEW ledger \in Ledger, NEW w \in 0..Window
  PROVE  RecordedIn([c \in Challenge |-> Purged(ledger[c])], w) = RecordedIn(ledger, w)
<1> DEFINE after == [c \in Challenge |-> Purged(ledger[c])]
<1>1. w \in 0..Cap /\ 0..w \subseteq 0..Window
  BY CapBeyond, MFAAssumption
<1>2. ASSUME NEW x \in Challenge \X (0..w)
      PROVE  RowsOf(after)[x] = RowsOf(ledger)[x]
  <2>1. x[1] \in Challenge /\ x[2] \in 0..Window /\ x \in Challenge \X Age
    BY <1>1, AgesFinite
  <2>2. Purged(ledger[x[1]])[x[2]] = ledger[x[1]][x[2]]
    BY <2>1, PurgedType DEF Ledger
  <2> QED
    BY <2>1, <2>2 DEF RowsOf
<1> QED
  BY <1>2, TotalOfSame DEF RecordedIn

LEMMA RecordedOneMore ==
  ASSUME NEW ledger \in Ledger, NEW c \in Challenge, NEW w \in 0..Cap
  PROVE  RecordedIn([ledger EXCEPT ![c][0] = @ + 1], w) = RecordedIn(ledger, w) + 1
<1> DEFINE after == [ledger EXCEPT ![c][0] = @ + 1]
<1>1. <<c, 0>> \in Challenge \X (0..w) /\ 0 \in Age
  BY CapBeyond DEF Age
<1>2. RowsOf(after)[<<c, 0>>] = RowsOf(ledger)[<<c, 0>>] + 1
  BY <1>1 DEF RowsOf, Ledger, Counts
<1>3. ASSUME NEW x \in (Challenge \X (0..w)) \ {<<c, 0>>}
      PROVE  RowsOf(after)[x] = RowsOf(ledger)[x]
  <2>1. x \in Challenge \X Age /\ x = <<x[1], x[2]>> /\ x[1] \in Challenge /\ x[2] \in Age
    BY AgesFinite
  <2>2. x[1] # c \/ x[2] # 0
    BY <2>1
  <2> QED
    BY <2>1, <2>2 DEF RowsOf, Ledger, Counts
<1> HIDE DEF after
<1>4. RecordedIn(after, w) = RecordedIn(ledger, w) + 1
  <2>1. IsFiniteSet(Challenge \X (0..w)) /\ \A x \in Challenge \X (0..w) : RowsOf(ledger)[x] \in Nat
    BY RowsFinite
  <2> QED
    BY <1>1, <1>2, <1>3, <2>1, TotalOneMore DEF RecordedIn
<1> QED
  BY <1>4 DEF after

LEMMA RecordedOlder ==
  ASSUME NEW ledger \in Ledger, NEW w \in 0..(Cap - 1)
  PROVE  RecordedIn([c \in Challenge |-> Older(ledger[c])], w)
           = IF w = 0 THEN 0 ELSE RecordedIn(ledger, w - 1)
<1> DEFINE after == [c \in Challenge |-> Older(ledger[c])]
           down == [x \in Challenge \X Age |-> <<x[1], x[2] - 1>>]
           up == [x \in Challenge \X Age |-> <<x[1], x[2] + 1>>]
<1>1. after \in Ledger
  BY OlderType DEF Ledger
<1>2. w \in 0..Cap /\ (w # 0 => w - 1 \in 0..Cap)
  BY CapBeyond
<1>3. ASSUME NEW x \in Challenge \X (0..w), RowsOf(after)[x] > 0
      PROVE  /\ down[x] = <<x[1], x[2] - 1>> /\ down[x] \in Challenge \X (0..(w - 1))
             /\ RowsOf(after)[x] = RowsOf(ledger)[down[x]]
  <2>1. x[1] \in Challenge /\ x[2] \in 0..w /\ x \in Challenge \X Age
    BY <1>2, AgesFinite
  <2>2. RowsOf(after)[x] = Older(ledger[x[1]])[x[2]]
    BY <2>1 DEF RowsOf
  <2>3. x[2] # 0
    BY <1>3, <2>1, <2>2, OlderType DEF Ledger
  <2>4. x[2] \in 1..(Cap - 1) /\ x[2] - 1 \in 0..(w - 1) /\ x[2] - 1 \in Age
    BY <2>1, <2>3, CapBeyond DEF Age
  <2>5. Older(ledger[x[1]])[x[2]] = ledger[x[1]][x[2] - 1]
    BY <2>1, <2>4, OlderType DEF Ledger
  <2>6. down[x] = <<x[1], x[2] - 1>>
    BY <2>1
  <2> QED
    BY <2>1, <2>2, <2>4, <2>5, <2>6 DEF RowsOf
<1>4. CASE w = 0
  <2>1. \A x \in Challenge \X (0..w) : RowsOf(after)[x] = 0
    <3> SUFFICES ASSUME NEW x \in Challenge \X (0..w), RowsOf(after)[x] # 0 PROVE FALSE
      OBVIOUS
    <3>1. RowsOf(after)[x] \in Nat
      BY <1>1, <1>2, RowsFinite
    <3> HIDE DEF down, after
    <3>2. down[x] \in Challenge \X (0..(w - 1))
      BY <3>1, <1>3
    <3>3. 0..(w - 1) = {}
      BY <1>4
    <3> QED
      BY <3>2, <3>3
  <2>2. RecordedIn(after, w) = 0
    BY <2>1, TotalOfNone DEF RecordedIn
  <2> QED
    BY <2>2, <1>4
<1>5. CASE w # 0
  <2>1. \A x, y \in Challenge \X (0..w) :
          RowsOf(after)[x] > 0 /\ RowsOf(after)[y] > 0 /\ down[x] = down[y] => x = y
    <3> SUFFICES ASSUME NEW x \in Challenge \X (0..w), NEW y \in Challenge \X (0..w),
                        RowsOf(after)[x] > 0, RowsOf(after)[y] > 0, down[x] = down[y]
                 PROVE  x = y
      OBVIOUS
    <3>1. <<x[1], x[2] - 1>> = <<y[1], y[2] - 1>>
      BY <1>3
    <3>2. x[1] = y[1] /\ x[2] - 1 = y[2] - 1
      BY <3>1
    <3>3. x = <<x[1], x[2]>> /\ y = <<y[1], y[2]>> /\ x[2] \in Int /\ y[2] \in Int
      OBVIOUS
    <3> HIDE DEF down, after
    <3>4. x[2] = y[2]
      BY <3>2, <3>3
    <3> QED
      BY <3>2, <3>3, <3>4
  <2>2. IsFiniteSet(Challenge \X (0..(w - 1)))
    BY <1>2, <1>5, RowsFinite
  <2>3. \A x \in Challenge \X (0..(w - 1)) : RowsOf(ledger)[x] \in Nat
    BY <1>2, <1>5, RowsFinite
  <2>4. \A x \in Challenge \X (0..w) : RowsOf(after)[x] \in Nat
    BY <1>1, <1>2, RowsFinite
  <2>5. \A x \in Challenge \X (0..w) : RowsOf(after)[x] > 0
          => down[x] \in Challenge \X (0..(w - 1)) /\ RowsOf(after)[x] <= RowsOf(ledger)[down[x]]
    <3> SUFFICES ASSUME NEW x \in Challenge \X (0..w), RowsOf(after)[x] > 0
                 PROVE  /\ down[x] \in Challenge \X (0..(w - 1))
                        /\ RowsOf(after)[x] <= RowsOf(ledger)[down[x]]
      OBVIOUS
    <3>1. RowsOf(after)[x] \in Nat
      BY <2>4
    <3> HIDE DEF down, after
    <3> QED
      BY <1>3, <3>1
  <2> HIDE DEF down, after
  <2>6. RecordedIn(after, w) <= RecordedIn(ledger, w - 1)
    BY <2>1, <2>2, <2>3, <2>4, <2>5, TotalCarried DEF RecordedIn
  <2>7. ASSUME NEW x \in Challenge \X (0..(w - 1))
        PROVE  /\ up[x] = <<x[1], x[2] + 1>> /\ up[x] \in Challenge \X (0..w)
               /\ RowsOf(ledger)[x] = RowsOf(after)[up[x]]
    <3>1. /\ x[1] \in Challenge /\ x[2] + 1 \in 0..w /\ x[2] + 1 \in 1..(Cap - 1)
          /\ x[2] \in Age /\ x[2] + 1 \in Age /\ x \in Challenge \X Age /\ x[2] \in Nat
          /\ (x[2] + 1) - 1 = x[2]
      BY <1>2, <1>5, CapBeyond DEF Age
    <3>2. up[x] = <<x[1], x[2] + 1>>
      BY <3>1 DEF up
    <3>3. Older(ledger[x[1]])[x[2] + 1] = ledger[x[1]][x[2]]
      BY <3>1, OlderType DEF Ledger
    <3> QED
      BY <3>1, <3>2, <3>3 DEF RowsOf, after
  <2>8. \A x, y \in Challenge \X (0..(w - 1)) : up[x] = up[y] => x = y
    <3> SUFFICES ASSUME NEW x \in Challenge \X (0..(w - 1)), NEW y \in Challenge \X (0..(w - 1)),
                        up[x] = up[y]
                 PROVE  x = y
      OBVIOUS
    <3>1. <<x[1], x[2] + 1>> = <<y[1], y[2] + 1>>
      BY <2>7
    <3> HIDE DEF up
    <3>2. x[1] = y[1] /\ x[2] + 1 = y[2] + 1
      BY <3>1
    <3>3. x = <<x[1], x[2]>> /\ y = <<y[1], y[2]>> /\ x[2] \in Int /\ y[2] \in Int
      OBVIOUS
    <3>4. x[2] = y[2]
      BY <3>2, <3>3
    <3> QED
      BY <3>2, <3>3, <3>4
  <2>9. IsFiniteSet(Challenge \X (0..w))
    BY <1>2, RowsFinite
  <2>10. \A x \in Challenge \X (0..(w - 1)) : RowsOf(ledger)[x] > 0
           => up[x] \in Challenge \X (0..w) /\ RowsOf(ledger)[x] <= RowsOf(after)[up[x]]
    <3> HIDE DEF up
    <3> QED
      BY <2>3, <2>7
  <2> HIDE DEF up
  <2>11. RecordedIn(ledger, w - 1) <= RecordedIn(after, w)
    BY <2>3, <2>4, <2>8, <2>9, <2>10, TotalCarried DEF RecordedIn
  <2>12. RecordedIn(ledger, w - 1) \in Nat /\ RecordedIn(after, w) \in Nat
    BY <1>1, <1>2, <1>5, RecordedType
  <2>13. RecordedIn(after, w) = RecordedIn(ledger, w - 1)
    BY <2>6, <2>11, <2>12
  <2> QED
    BY <2>13, <1>5 DEF after
<1> QED
  BY <1>4, <1>5

LEMMA WithinOneMore ==
  ASSUME NEW count \in Counts, NEW w \in 0..Cap
  PROVE  Within([count EXCEPT ![0] = @ + 1], w) = Within(count, w) + 1
<1> DEFINE after == [count EXCEPT ![0] = @ + 1]
<1>1. 0 \in 0..w /\ 0 \in Age /\ IsFiniteSet(0..w) /\ 0..w \subseteq Age
  BY AgesFinite, CapBeyond DEF Age
<1>2. after[0] = count[0] + 1 /\ \A a \in (0..w) \ {0} : after[a] = count[a]
  BY <1>1 DEF Counts
<1>3. \A a \in 0..w : count[a] \in Nat
  BY <1>1 DEF Counts
<1> HIDE DEF after
<1>4. Within(after, w) = Within(count, w) + 1
  BY <1>1, <1>2, <1>3, TotalOneMore DEF Within
<1> QED
  BY <1>4 DEF after

LEMMA NothingWithin ==
  /\ None \in Counts
  /\ \A w \in 0..Cap : Within(None, w) = 0
  /\ \A w \in 0..Cap : RecordedIn([c \in Challenge |-> None], w) = 0
<1>1. \A w \in 0..Cap : 0..w \subseteq Age
  BY AgesFinite
<1>2. ASSUME NEW w \in 0..Cap PROVE Within(None, w) = 0
  BY <1>1, TotalOfNone DEF Within, None
<1>3. ASSUME NEW w \in 0..Cap
      PROVE  RecordedIn([c \in Challenge |-> None], w) = 0
  <2>1. \A x \in Challenge \X (0..w) : RowsOf([c \in Challenge |-> None])[x] = 0
    BY <1>1 DEF RowsOf, None
  <2> QED
    BY <2>1, TotalOfNone DEF RecordedIn
<1> QED
  BY <1>2, <1>3 DEF None, Counts

\* What is beyond the oldest row adds nothing.
LEMMA WithinTrim ==
  ASSUME NEW count \in Counts, NEW w \in 0..Cap, \A a \in Age : count[a] > 0 => a <= w
  PROVE  Within(count, Cap) = Within(count, w)
<1>1. \A a \in 0..Cap : a \in Age /\ count[a] \in Nat
  BY DEF Age, Counts
<1>2. \A a \in 0..Cap : \A k : k \in 1..count[a] => a \in 0..w
  BY <1>1 DEF Age
<1>3. 0..w \subseteq 0..Cap
  BY CapBeyond
<1>4. Units(count, 0..Cap) = Units(count, 0..w)
  BY <1>2, <1>3 DEF Units
<1> QED
  BY <1>4 DEF Within, Total


-----------------------------------------------------------------------------
(* The inductive invariant.  A request is charged to the budgets from the  *)
(* moment it has passed the lockout, so that what it may still add is      *)
(* counted before it is recorded.                                          *)

\* The requests at one of the steps P, and those of them that present c.
At(P) == {r \in Req : pc[r] \in P}
Held(c, P) == {r \in Req : on[r] = c /\ pc[r] \in P}

\* A request presents a challenge from its start to its answer.
Presenting ==
  \A r \in Req : on[r] = NoChallenge <=> pc[r] \in {"idle", "create"}

\* What is recorded, and what is about to be, within the window.
AccountLimit == Recent + Cardinality(At({"code", "record"})) <= UserMax - 1 + Cardinality(Req)

\* A wrong code is a row or is about to be one.
GuessesRecorded ==
  \A w \in 0..Window : Within(guesses, w) <= Recorded(w) + Cardinality(At({"record"}))

\* What was tried on a challenge, and what is about to be.
ChallengeLimit ==
  \A c \in Challenge :
    tries[c] + Cardinality(Held(c, {"lockout", "code"})) <= ChallengeMax - 1 + Cardinality(Req)

\* While a challenge is in force its rows are all there, and within its budget.
TriesRecorded ==
  \A c \in challenges : ~ Expired(c) =>
    /\ tries[c] <= Within(attempts[c], Cap) + Cardinality(Held(c, {"record"}))
    /\ Within(attempts[c], Cap) <= ChallengeMax - 1
    /\ \A a \in Age : attempts[c][a] > 0 => a <= age[c]

\* Who has used a challenge has yet to delete it, if it exists.
WinsLimit ==
  \A c \in Challenge :
    /\ wins[c] + Cardinality(Held(c, {"lockout", "code"})) <= Cardinality(Req)
    /\ c \in challenges => wins[c] <= Cardinality(Held(c, {"forget"}))

MFAInv ==
  /\ MFATypeOK /\ attempts \in Ledger
  /\ Presenting
  /\ AccountLimit /\ GuessesRecorded
  /\ ChallengeLimit /\ TriesRecorded
  /\ WinsLimit

-----------------------------------------------------------------------------
(* How many requests are where.                                            *)

Bit(b) == IF b THEN 1 ELSE 0

\* A request is in at most one of the sets counted.
LEMMA SomeRequests ==
  ASSUME NEW S, S \subseteq Req
  PROVE  IsFiniteSet(S) /\ Cardinality(S) \in Nat /\ Cardinality(S) <= Cardinality(Req)
         /\ Cardinality(Req) \in Nat
BY MFAAssumption, FS_Subset, FS_CardinalityType

LEMMA OneRequestMoves ==
  ASSUME NEW S, NEW T, S \subseteq Req, T \subseteq Req, NEW r \in Req,
         \A q \in Req \ {r} : q \in S <=> q \in T
  PROVE  Cardinality(T) = Cardinality(S) + Bit(r \in T) - Bit(r \in S)
<1> DEFINE Others == S \ {r}
<1>1. Others = T \ {r}
  OBVIOUS
<1>2. Cardinality(Others) = Cardinality(S) - Bit(r \in S)
  BY SomeRequests, FS_RemoveElement DEF Bit
<1>3. Cardinality(T \ {r}) = Cardinality(T) - Bit(r \in T)
  BY SomeRequests, FS_RemoveElement DEF Bit
<1>4. Cardinality(S) \in Nat /\ Cardinality(T) \in Nat
  BY SomeRequests
<1> QED
  BY <1>1, <1>2, <1>3, <1>4 DEF Bit

\* Requests that do different things.
LEMMA TwoGroups ==
  ASSUME NEW S, NEW T, S \subseteq Req, T \subseteq Req, S \cap T = {}
  PROVE  /\ Cardinality(S) + Cardinality(T) <= Cardinality(Req)
         /\ \A r \in Req : r \notin S /\ r \notin T
              => Cardinality(S) + Cardinality(T) + 1 <= Cardinality(Req)
<1>1. Cardinality(S \cup T) = Cardinality(S) + Cardinality(T)
  <2>1. IsFiniteSet(S) /\ IsFiniteSet(T) /\ Cardinality(S) \in Nat /\ Cardinality(T) \in Nat
    BY SomeRequests
  <2>2. Cardinality(S \cup T) = Cardinality(S) + Cardinality(T) - Cardinality(S \cap T)
    BY <2>1, FS_Union
  <2>3. Cardinality(S \cap T) = 0
    BY FS_EmptySet
  <2> QED
    BY <2>1, <2>2, <2>3
<1>2. Cardinality(S \cup T) <= Cardinality(Req)
  BY SomeRequests
<1>3. ASSUME NEW r \in Req, r \notin S, r \notin T
      PROVE  Cardinality(S \cup T) + 1 <= Cardinality(Req)
  <2>1. Cardinality((S \cup T) \cup {r}) = Cardinality(S \cup T) + 1
    BY <1>3, SomeRequests, FS_AddElement
  <2>2. (S \cup T) \cup {r} \subseteq Req
    BY <1>3
  <2> QED
    BY <2>1, <2>2, SomeRequests
<1> QED
  BY <1>1, <1>2, <1>3

\* What the move of r from one step to another does to the counts.
LEMMA Moves ==
  ASSUME MFATypeOK, NEW r \in Req, NEW from, NEW to, Move(r, from, to), NEW P
  PROVE  Cardinality(At(P)') = Cardinality(At(P)) + Bit(to \in P) - Bit(from \in P)
<1>1. At(P) \subseteq Req /\ At(P)' \subseteq Req
  BY DEF At
<1>2. pc[r] = from /\ pc'[r] = to /\ \A q \in Req \ {r} : pc'[q] = pc[q]
  BY DEF Move, MFATypeOK
<1>3. (r \in At(P)' <=> to \in P) /\ (r \in At(P) <=> from \in P)
  BY <1>2 DEF At
<1>4. \A q \in Req \ {r} : q \in At(P) <=> q \in At(P)'
  BY <1>2 DEF At
<1> QED
  BY <1>1, <1>3, <1>4, OneRequestMoves DEF Bit

LEMMA HeldMoves ==
  ASSUME MFATypeOK, NEW r \in Req, NEW from, NEW to, Move(r, from, to),
         \A q \in Req \ {r} : on'[q] = on[q], NEW c, NEW P
  PROVE  Cardinality(Held(c, P)')
           = Cardinality(Held(c, P)) + Bit(on'[r] = c /\ to \in P)
                                     - Bit(on[r] = c /\ from \in P)
<1>1. Held(c, P) \subseteq Req /\ Held(c, P)' \subseteq Req
  BY DEF Held
<1>2. pc[r] = from /\ pc'[r] = to /\ \A q \in Req \ {r} : pc'[q] = pc[q]
  BY DEF Move, MFATypeOK
<1>3. /\ r \in Held(c, P)' <=> on'[r] = c /\ to \in P
      /\ r \in Held(c, P) <=> on[r] = c /\ from \in P
  BY <1>2 DEF Held
<1>4. \A q \in Req \ {r} : q \in Held(c, P) <=> q \in Held(c, P)'
  BY <1>2 DEF Held
<1> QED
  BY <1>1, <1>3, <1>4, OneRequestMoves DEF Bit

LEMMA CountsType ==
  ASSUME NEW c, NEW P
  PROVE  /\ Cardinality(At(P)) \in Nat /\ Cardinality(At(P)) <= Cardinality(Req)
         /\ Cardinality(Held(c, P)) \in Nat /\ Cardinality(Held(c, P)) <= Cardinality(Req)
         /\ Cardinality(Req) \in Nat
<1>1. At(P) \subseteq Req /\ Held(c, P) \subseteq Req
  BY DEF At, Held
<1> QED
  BY <1>1, SomeRequests

\* Nothing moves where no request does.
LEMMA NobodyMoves ==
  ASSUME UNCHANGED reqVars, NEW c, NEW P
  PROVE  At(P)' = At(P) /\ Held(c, P)' = Held(c, P)
BY DEF reqVars, At, Held

-----------------------------------------------------------------------------
(* The limits are natural numbers.                                         *)

LEMMA RecordedIs ==
  ASSUME NEW w
  PROVE  Recorded(w) = RecordedIn(attempts, w) /\ Recorded(w)' = RecordedIn(attempts', w)
BY DEF Recorded, RecordedIn, RowsOf

LEMMA WindowWithin ==
  /\ Window \in Nat /\ Window \in 0..Window
  /\ 0..Window \subseteq 0..(Cap - 1) /\ 0..Window \subseteq 0..Cap
BY CapBeyond, MFAAssumption

LEMMA MFAInitInv == MFAInit => MFAInv
<1> SUFFICES ASSUME MFAInit PROVE MFAInv
  OBVIOUS
<1> USE DEF MFAInit
<1>1. MFATypeOK /\ attempts \in Ledger
  BY NothingWithin, CapBeyond DEF MFATypeOK, Ledger, Counts, Age, PC
<1>2. Presenting
  BY DEF Presenting
<1>3. \A P \in SUBSET (PC \ {"idle"}) : At(P) = {} /\ \A c \in Challenge : Held(c, P) = {}
  BY MFAAssumption DEF At, Held
<1>4. Cardinality(Req) \in Nat /\ Cardinality({}) = 0
  BY SomeRequests, FS_EmptySet
<1>5. \A w \in 0..Window : Recorded(w) = 0 /\ Within(guesses, w) = 0
  <2> SUFFICES ASSUME NEW w \in 0..Window PROVE Recorded(w) = 0 /\ Within(guesses, w) = 0
    OBVIOUS
  <2>1. w \in 0..Cap /\ guesses = None /\ attempts = [c \in Challenge |-> None]
    BY WindowWithin
  <2>2. Within(guesses, w) = 0 /\ RecordedIn(attempts, w) = 0
    BY <2>1, NothingWithin
  <2> QED
    BY <2>2, RecordedIs
<1>6. AccountLimit /\ GuessesRecorded
  <2>1. Cardinality(At({"code", "record"})) = 0 /\ Cardinality(At({"record"})) = 0
    BY <1>3, <1>4 DEF PC
  <2>2. Recent = 0
    BY <1>5, WindowWithin DEF Recent
  <2>3. AccountLimit
    BY <2>1, <2>2, <1>4, MFAAssumption DEF AccountLimit
  <2>4. GuessesRecorded
    BY <2>1, <1>5 DEF GuessesRecorded
  <2> QED
    BY <2>3, <2>4
<1>7. ChallengeLimit /\ TriesRecorded /\ WinsLimit
  <2>1. \A c \in Challenge : Cardinality(Held(c, {"lockout", "code"})) = 0
    BY <1>3, <1>4 DEF PC
  <2>2. \A c \in Challenge : tries[c] = 0 /\ wins[c] = 0 /\ c \notin challenges
    OBVIOUS
  <2>3. ChallengeLimit
    BY <2>1, <2>2, <1>4, MFAAssumption DEF ChallengeLimit
  <2>4. TriesRecorded
    BY DEF TriesRecorded
  <2>5. WinsLimit
    BY <2>1, <2>2, <1>4 DEF WinsLimit
  <2> QED
    BY <2>3, <2>4, <2>5
<1> QED
  BY <1>1, <1>2, <1>6, <1>7 DEF MFAInv

-----------------------------------------------------------------------------
(* Every step keeps the invariant.                                         *)

LEMMA LedgerIs ==
  ASSUME MFATypeOK, attempts \in Ledger
  PROVE  /\ \A c \in Challenge : attempts[c] \in Counts
         /\ [c \in Challenge |-> Purged(attempts[c])] \in Ledger
         /\ guesses \in Counts
BY PurgedType DEF Ledger, Counts, MFATypeOK

\* What a recorded failure does, whichever budget it uses up.
LEMMA FailureFacts ==
  ASSUME MFAInv, NEW r \in Req, RecordFailure(r)
  PROVE  /\ on[r] \in Challenge /\ pc[r] = "record"
         /\ attempts' = [[d \in Challenge |-> Purged(attempts[d])] EXCEPT ![on[r]][0] = @ + 1]
         /\ attempts' \in Ledger
         /\ attempts'[on[r]] = [Purged(attempts[on[r]]) EXCEPT ![0] = @ + 1]
         /\ \A d \in Challenge \ {on[r]} : attempts'[d] = Purged(attempts[d])
         /\ challenges' \subseteq challenges
         /\ on[r] \in challenges' => Within(attempts'[on[r]], Cap) <= ChallengeMax - 1
<1> DEFINE purged == [d \in Challenge |-> Purged(attempts[d])]
           c == on[r]
<1>1. pc[r] = "record" /\ c \in Challenge
  BY DEF MFAInv, MFATypeOK, Presenting, RecordFailure, Answer, Move
<1>2. purged \in [Challenge -> Counts] /\ 0 \in Age
  BY LedgerIs, CapBeyond DEF MFAInv, Ledger, Age
<1>3. attempts' = [purged EXCEPT ![c][0] = @ + 1]
  BY DEF RecordFailure
<1>4. attempts' \in Ledger
  BY <1>1, <1>2, <1>3 DEF Ledger, Counts
<1>5. attempts'[c] = [Purged(attempts[c]) EXCEPT ![0] = @ + 1]
  BY <1>1, <1>2, <1>3
<1>6. \A d \in Challenge \ {c} : attempts'[d] = Purged(attempts[d])
  BY <1>2, <1>3
<1>7. challenges' \subseteq challenges
  BY DEF RecordFailure
<1>8. ASSUME c \in challenges' PROVE Within(attempts'[c], Cap) <= ChallengeMax - 1
  <2>1. ~ (Within(attempts'[c], Cap) >= ChallengeMax)
    BY <1>8 DEF RecordFailure
  <2>2. Within(attempts'[c], Cap) \in Nat
    BY <1>1, <1>4, WithinType, CapBeyond DEF Ledger
  <2> QED
    BY <2>1, <2>2, MFAAssumption
<1> QED
  BY <1>1, <1>3, <1>4, <1>5, <1>6, <1>7, <1>8

LEMMA TickFacts ==
  ASSUME MFAInv, Tick
  PROVE  /\ attempts' \in Ledger /\ guesses' \in Counts
         /\ \A c \in Challenge : attempts'[c] = Older(attempts[c])
         /\ \A c \in Challenge : age'[c] \in Age
              /\ (age'[c] <= MaxAge => age[c] + 1 <= MaxAge /\ age'[c] = age[c] + 1)
         /\ \A a \in 0..(Cap - 1) : guesses'[a] = Older(guesses)[a]
<1>1. attempts' \in Ledger /\ \A c \in Challenge : attempts'[c] = Older(attempts[c])
  BY LedgerIs, OlderType DEF MFAInv, Ledger, Tick
<1>2. guesses' \in Counts /\ \A a \in 0..(Cap - 1) : guesses'[a] = Older(guesses)[a]
  <2>1. Older(guesses) \in Counts /\ guesses' = [Older(guesses) EXCEPT ![Cap] = 0]
    BY LedgerIs, OlderType DEF MFAInv, Tick
  <2>2. \A a \in 0..(Cap - 1) : a \in Age /\ a # Cap
    BY CapBeyond DEF Age
  <2> QED
    BY <2>1, <2>2 DEF Counts
<1>3. ASSUME NEW c \in Challenge
      PROVE  /\ age'[c] \in Age
             /\ age'[c] <= MaxAge => age[c] + 1 <= MaxAge /\ age'[c] = age[c] + 1
  <2>1. age[c] \in 0..Cap /\ age'[c] = Min({age[c] + 1, Cap})
    BY DEF MFAInv, MFATypeOK, Age, Tick
  <2>2. age'[c] = IF age[c] + 1 <= Cap THEN age[c] + 1 ELSE Cap
    BY <2>1, CapBeyond, MinOfTwo
  <2> QED
    BY <2>1, <2>2, CapBeyond, MFAAssumption DEF Age
<1> QED
  BY <1>1, <1>2, <1>3

\* Who checks a code has a challenge.
LEMMA AtWork ==
  ASSUME MFAInv, NEW r \in Req, pc[r] \notin {"idle", "create"}
  PROVE  on[r] \in Challenge
BY DEF MFAInv, MFATypeOK, Presenting

LEMMA TypeNext ==
  ASSUME MFAInv, [MFANext]_mfaVars
  PROVE  MFATypeOK' /\ (attempts \in Ledger)'
<1>1. /\ challenges \subseteq Challenge /\ age \in [Challenge -> Age]
      /\ attempts \in Ledger /\ guesses \in Counts
      /\ pc \in [Req -> PC] /\ on \in [Req -> Challenge \cup {NoChallenge}]
      /\ tries \in [Challenge -> Nat] /\ wins \in [Challenge -> Nat]
  BY LedgerIs DEF MFAInv, MFATypeOK
<1>2. ASSUME /\ challenges' \subseteq Challenge /\ age' \in [Challenge -> Age]
             /\ attempts' \in Ledger /\ guesses' \in Counts
             /\ pc' \in [Req -> PC] /\ on' \in [Req -> Challenge \cup {NoChallenge}]
             /\ tries' \in [Challenge -> Nat] /\ wins' \in [Challenge -> Nat]
      PROVE  MFATypeOK' /\ (attempts \in Ledger)'
  BY <1>2 DEF MFATypeOK, Ledger, Counts
<1>3. CASE UNCHANGED mfaVars
  BY <1>1, <1>2, <1>3 DEF mfaVars, rowVars, reqVars, histVars
<1>4. ASSUME NEW r \in Req, Login(r) PROVE MFATypeOK' /\ (attempts \in Ledger)'
  BY <1>1, <1>2, <1>4 DEF Login, Move, PC, rowVars, histVars
<1>5. ASSUME NEW r \in Req, CreateChallenge(r) PROVE MFATypeOK' /\ (attempts \in Ledger)'
  <2>1. attempts' \in Ledger
    BY <1>5, LedgerIs DEF CreateChallenge, MFAInv
  <2>2. 0 \in Age
    BY CapBeyond DEF Age
  <2> QED
    BY <1>1, <1>2, <1>5, <2>1, <2>2 DEF CreateChallenge, Move, PC
<1>6. ASSUME NEW r \in Req, CheckLockout(r) PROVE MFATypeOK' /\ (attempts \in Ledger)'
  BY <1>1, <1>2, <1>6 DEF CheckLockout, Answer, Move, PC, rowVars, histVars
<1>7. ASSUME NEW r \in Req, CodeAccepted(r) PROVE MFATypeOK' /\ (attempts \in Ledger)'
  <2>1. wins' \in [Challenge -> Nat]
    BY <1>1, <1>7, AtWork DEF CodeAccepted, Move
  <2> QED
    BY <1>1, <1>2, <1>7, <2>1 DEF CodeAccepted, Move, PC, rowVars
<1>8. ASSUME NEW r \in Req, CodeRejected(r) PROVE MFATypeOK' /\ (attempts \in Ledger)'
  <2>1. guesses' \in Counts
    BY <1>1, <1>8, CapBeyond DEF CodeRejected, Counts, Age
  <2>2. tries' \in [Challenge -> Nat]
    BY <1>1, <1>8, AtWork DEF CodeRejected, Move
  <2> QED
    BY <1>1, <1>2, <1>8, <2>1, <2>2 DEF CodeRejected, Move, PC, rowVars
<1>9. ASSUME NEW r \in Req, RecordFailure(r) PROVE MFATypeOK' /\ (attempts \in Ledger)'
  <2>1. attempts' \in Ledger /\ challenges' \subseteq Challenge
    BY <1>1, <1>9, FailureFacts
  <2> QED
    BY <1>1, <1>2, <1>9, <2>1 DEF RecordFailure, Answer, Move, PC, histVars
<1>10. ASSUME NEW r \in Req, ForgetChallenge(r) PROVE MFATypeOK' /\ (attempts \in Ledger)'
  BY <1>1, <1>2, <1>10 DEF ForgetChallenge, Move, PC, histVars
<1>11. ASSUME NEW r \in Req, ClearFailures(r) PROVE MFATypeOK' /\ (attempts \in Ledger)'
  <2>1. attempts' \in Ledger /\ guesses' \in Counts
    BY <1>11, NothingWithin DEF ClearFailures, Ledger
  <2> QED
    BY <1>1, <1>2, <1>11, <2>1 DEF ClearFailures, Answer, Move, PC
<1>12. ASSUME NEW r \in Req, NEW c \in Challenge, Present(r, c)
       PROVE  MFATypeOK' /\ (attempts \in Ledger)'
  BY <1>1, <1>2, <1>12 DEF Present, Move, PC, rowVars, histVars
<1>13. ASSUME NEW c \in Challenge, PresentExpired(c) PROVE MFATypeOK' /\ (attempts \in Ledger)'
  BY <1>1, <1>2, <1>13 DEF PresentExpired, reqVars, histVars
<1>14. CASE CredentialsChanged
  BY <1>1, <1>2, <1>14 DEF CredentialsChanged, reqVars, histVars
<1>15. CASE Tick
  <2>1. age' \in [Challenge -> Age]
    BY <1>15, TickFacts DEF Tick
  <2> QED
    BY <1>1, <1>2, <1>15, <2>1, TickFacts DEF Tick, reqVars
<1> QED
  BY <1>3, <1>4, <1>5, <1>6, <1>7, <1>8, <1>9, <1>10, <1>11, <1>12, <1>13, <1>14, <1>15
  DEF MFANext, Verify

LEMMA PresentingNext == ASSUME MFAInv, [MFANext]_mfaVars PROVE Presenting'
<1> USE DEF Move
<1>1. /\ pc \in [Req -> PC] /\ on \in [Req -> Challenge \cup {NoChallenge}]
      /\ NoChallenge \notin Challenge
      /\ \A q \in Req : on[q] = NoChallenge <=> pc[q] \in {"idle", "create"}
  BY MFAAssumption DEF MFAInv, MFATypeOK, Presenting
<1>2. CASE UNCHANGED reqVars
  BY <1>1, <1>2 DEF reqVars, Presenting
<1>3. ASSUME NEW r \in Req, Login(r) \/ CreateChallenge(r) PROVE Presenting'
  BY <1>1, <1>3 DEF Login, CreateChallenge, Presenting
<1>4. ASSUME NEW r \in Req, Verify(r) PROVE Presenting'
  BY <1>1, <1>4 DEF Verify, CheckLockout, CodeAccepted, CodeRejected, RecordFailure,
     ForgetChallenge, ClearFailures, Answer, Presenting
<1>5. ASSUME NEW r \in Req, NEW c \in Challenge, Present(r, c) PROVE Presenting'
  BY <1>1, <1>5 DEF Present, Presenting
<1> QED
  BY <1>2, <1>3, <1>4, <1>5
  DEF MFANext, mfaVars, PresentExpired, CredentialsChanged, Tick

LEMMA AccountNext ==
  ASSUME MFAInv, [MFANext]_mfaVars
  PROVE  (AccountLimit /\ GuessesRecorded)'
<1> DEFINE busy == Cardinality(At({"code", "record"}))
           recording == Cardinality(At({"record"}))
<1>1. /\ MFATypeOK /\ attempts \in Ledger /\ guesses \in Counts
      /\ \A w \in 0..Window : w \in 0..Cap /\ w \in Nat
      /\ busy \in Nat /\ recording \in Nat /\ Cardinality(Req) \in Nat /\ UserMax \in Nat
  BY LedgerIs, WindowWithin, CountsType, MFAAssumption DEF MFAInv
<1>2. /\ \A w \in 0..Window : Recorded(w) \in Nat /\ Within(guesses, w) \in Nat
      /\ \A w \in 0..Window : Within(guesses, w) <= Recorded(w) + recording
      /\ Recent \in Nat /\ Recent + busy <= UserMax - 1 + Cardinality(Req)
  <2>1. \A w \in 0..Window : Recorded(w) \in Nat /\ Within(guesses, w) \in Nat
    BY <1>1, RecordedType, RecordedIs, WithinType
  <2> QED
    BY <2>1, WindowWithin DEF MFAInv, AccountLimit, GuessesRecorded, Recent
<1> HIDE DEF busy, recording
\* What has to be shown of a step.
<1>3. ASSUME /\ \A w \in 0..Window : Within(guesses', w) <= Recorded(w)' + recording'
             /\ Recent' + busy' <= UserMax - 1 + Cardinality(Req)
      PROVE  (AccountLimit /\ GuessesRecorded)'
  BY <1>3 DEF AccountLimit, GuessesRecorded, busy, recording, Within, Total, Units
\* Rows and guesses stay.
<1>4. ASSUME \A w \in 0..Window : Recorded(w)' = Recorded(w), guesses' = guesses,
             \/ busy' <= busy /\ recording' = recording
             \/ /\ ~ Locked /\ busy' <= Cardinality(Req) /\ recording' = recording
      PROVE  (AccountLimit /\ GuessesRecorded)'
  <2>1. Recent' = Recent
    BY <1>4, WindowWithin DEF Recent
  <2>2. \A w \in 0..Window : Within(guesses', w) <= Recorded(w)' + recording'
    BY <1>2, <1>4
  <2>3. Locked <=> Recent >= UserMax
    BY DEF Locked
  <2>4. busy' \in Nat
    <3>1. At({"code", "record"})' \subseteq Req
      BY DEF At
    <3> QED
      BY <3>1, SomeRequests DEF busy
  <2>5. Recent' + busy' <= UserMax - 1 + Cardinality(Req)
    BY <1>1, <1>2, <1>4, <2>1, <2>3, <2>4
  <2> QED
    BY <1>3, <2>2, <2>5
<1>5. ASSUME UNCHANGED attempts PROVE \A w \in 0..Window : Recorded(w)' = Recorded(w)
  BY <1>5, RecordedIs
<1>6. ASSUME attempts' = [c \in Challenge |-> Purged(attempts[c])]
      PROVE  \A w \in 0..Window : Recorded(w)' = Recorded(w)
  BY <1>1, <1>6, RecordedIs, RecordedPurged
<1>7. ASSUME UNCHANGED reqVars PROVE busy' = busy /\ recording' = recording
  BY <1>7, NobodyMoves DEF busy, recording
<1>8. ASSUME NEW r \in Req, NEW from, NEW to, Move(r, from, to)
      PROVE  /\ busy' = busy + Bit(to \in {"code", "record"}) - Bit(from \in {"code", "record"})
             /\ recording' = recording + Bit(to \in {"record"}) - Bit(from \in {"record"})
             /\ busy' <= Cardinality(Req)
  <2>1. At({"code", "record"})' \subseteq Req
    BY DEF At
  <2> QED
    BY <1>1, <1>8, <2>1, Moves, SomeRequests DEF busy, recording
<1>9. CASE UNCHANGED mfaVars
  BY <1>1, <1>4, <1>5, <1>7, <1>9 DEF mfaVars, rowVars, histVars
<1>10. ASSUME NEW r \in Req, Login(r) PROVE (AccountLimit /\ GuessesRecorded)'
  BY <1>1, <1>4, <1>5, <1>8, <1>10 DEF Login, rowVars, histVars, Bit
<1>11. ASSUME NEW r \in Req, CreateChallenge(r) PROVE (AccountLimit /\ GuessesRecorded)'
  BY <1>1, <1>4, <1>6, <1>8, <1>11 DEF CreateChallenge, Bit
<1>12. ASSUME NEW r \in Req, CheckLockout(r) PROVE (AccountLimit /\ GuessesRecorded)'
  <2>1. CASE Locked
    BY <1>1, <1>4, <1>5, <1>8, <1>12, <2>1 DEF CheckLockout, Answer, rowVars, histVars, Bit
  <2>2. CASE ~ Locked
    BY <1>1, <1>4, <1>5, <1>8, <1>12, <2>2 DEF CheckLockout, rowVars, histVars, Bit
  <2> QED
    BY <2>1, <2>2
<1>13. ASSUME NEW r \in Req, CodeAccepted(r) PROVE (AccountLimit /\ GuessesRecorded)'
  BY <1>1, <1>4, <1>5, <1>8, <1>13 DEF CodeAccepted, rowVars, Bit
<1>14. ASSUME NEW r \in Req, CodeRejected(r) PROVE (AccountLimit /\ GuessesRecorded)'
  <2>1. busy' = busy /\ recording' = recording + 1
    BY <1>1, <1>8, <1>14 DEF CodeRejected, Bit
  <2>2. \A w \in 0..Window : Recorded(w)' = Recorded(w)
    BY <1>5, <1>14 DEF CodeRejected, rowVars
  <2>3. \A w \in 0..Window : Within(guesses', w) = Within(guesses, w) + 1
    BY <1>1, <1>14, WithinOneMore DEF CodeRejected
  <2>4. Recent' = Recent
    BY <2>2, WindowWithin DEF Recent
  <2>5. \A w \in 0..Window : Within(guesses', w) <= Recorded(w)' + recording'
    BY <1>1, <1>2, <2>1, <2>2, <2>3
  <2> QED
    BY <1>2, <1>3, <2>1, <2>4, <2>5
<1>15. ASSUME NEW r \in Req, RecordFailure(r) PROVE (AccountLimit /\ GuessesRecorded)'
  <2>1. busy' = busy - 1 /\ recording' = recording - 1
    BY <1>1, <1>8, <1>15 DEF RecordFailure, Answer, Bit
  <2>2. \A w \in 0..Window : Recorded(w)' = Recorded(w) + 1
    <3> DEFINE purged == [d \in Challenge |-> Purged(attempts[d])]
    <3> SUFFICES ASSUME NEW w \in 0..Window PROVE Recorded(w)' = Recorded(w) + 1
      OBVIOUS
    <3>1. attempts' = [purged EXCEPT ![on[r]][0] = @ + 1] /\ on[r] \in Challenge
      BY <1>15, FailureFacts
    <3>2. purged \in Ledger
      BY LedgerIs DEF MFAInv
    <3>3. RecordedIn(purged, w) = RecordedIn(attempts, w)
      BY <1>1, RecordedPurged
    <3> HIDE DEF purged
    <3>4. RecordedIn(attempts', w) = RecordedIn(purged, w) + 1
      BY <1>1, <3>1, <3>2, RecordedOneMore
    <3> QED
      BY <3>3, <3>4, RecordedIs
  <2>3. guesses' = guesses
    BY <1>15 DEF RecordFailure, histVars
  <2>4. Recent' = Recent + 1
    BY <2>2, WindowWithin DEF Recent
  <2>5. \A w \in 0..Window : Within(guesses', w) <= Recorded(w)' + recording'
    BY <1>1, <1>2, <2>1, <2>2, <2>3
  <2>6. Recent' + busy' <= UserMax - 1 + Cardinality(Req)
    BY <1>1, <1>2, <2>1, <2>4
  <2> QED
    BY <1>3, <2>5, <2>6
<1>16. ASSUME NEW r \in Req, ForgetChallenge(r) PROVE (AccountLimit /\ GuessesRecorded)'
  BY <1>1, <1>4, <1>5, <1>8, <1>16 DEF ForgetChallenge, histVars, Bit
<1>17. ASSUME NEW r \in Req, ClearFailures(r) PROVE (AccountLimit /\ GuessesRecorded)'
  <2>1. busy' <= Cardinality(Req) /\ busy' \in Nat /\ recording' \in Nat
    BY <1>1, <1>8, <1>17 DEF ClearFailures, Answer, Bit
  <2>2. \A w \in 0..Window : Recorded(w)' = 0 /\ Within(guesses', w) = 0
    BY <1>1, <1>17, NothingWithin, RecordedIs DEF ClearFailures
  <2>3. Recent' = 0
    BY <2>2, WindowWithin DEF Recent
  <2>4. \A w \in 0..Window : Within(guesses', w) <= Recorded(w)' + recording'
    BY <2>1, <2>2
  <2>5. Recent' + busy' <= UserMax - 1 + Cardinality(Req)
    BY <1>1, <2>1, <2>3, MFAAssumption
  <2> QED
    BY <1>3, <2>4, <2>5
<1>18. ASSUME NEW r \in Req, NEW c \in Challenge, Present(r, c)
       PROVE  (AccountLimit /\ GuessesRecorded)'
  BY <1>1, <1>4, <1>5, <1>8, <1>18 DEF Present, rowVars, histVars, Bit
<1>19. ASSUME NEW c \in Challenge, PresentExpired(c) PROVE (AccountLimit /\ GuessesRecorded)'
  BY <1>1, <1>4, <1>5, <1>7, <1>19 DEF PresentExpired, histVars
<1>20. CASE CredentialsChanged
  BY <1>1, <1>4, <1>5, <1>7, <1>20 DEF CredentialsChanged, histVars
<1>21. CASE Tick
  <2>1. busy' = busy /\ recording' = recording
    BY <1>7, <1>21 DEF Tick
  <2>2. \A w \in 0..Window : Recorded(w)' = IF w = 0 THEN 0 ELSE Recorded(w - 1)
    <3> SUFFICES ASSUME NEW w \in 0..Window
                 PROVE  RecordedIn(attempts', w) = IF w = 0 THEN 0 ELSE RecordedIn(attempts, w - 1)
      BY RecordedIs
    <3>1. attempts' = [c \in Challenge |-> Older(attempts[c])]
      BY <1>21 DEF Tick
    <3> QED
      BY <1>1, <3>1, RecordedOlder, WindowWithin
  <2>3. \A w \in 0..Window : Within(guesses', w) = IF w = 0 THEN 0 ELSE Within(guesses, w - 1)
    <3> SUFFICES ASSUME NEW w \in 0..Window
                 PROVE  Within(guesses', w) = IF w = 0 THEN 0 ELSE Within(guesses, w - 1)
      OBVIOUS
    <3>1. w \in 0..(Cap - 1) /\ \A a \in 0..w : a \in 0..(Cap - 1)
      BY WindowWithin, CapBeyond
    <3>2. Within(guesses', w) = Within(Older(guesses), w)
      BY <3>1, <1>21, TickFacts, TotalOfSame DEF Within
    <3>3. CASE w = 0
      <4>1. \A a \in 0..w : Older(guesses)[a] = 0
        BY <1>1, <3>3, OlderType
      <4> QED
        BY <3>2, <3>3, <4>1, TotalOfNone DEF Within
    <3>4. CASE w # 0
      BY <1>1, <3>1, <3>2, <3>4, WithinOlder
    <3> QED
      BY <3>3, <3>4
  <2>4. \A w \in 0..Window : Within(guesses', w) <= Recorded(w)' + recording'
    <3> SUFFICES ASSUME NEW w \in 0..Window PROVE Within(guesses', w) <= Recorded(w)' + recording'
      OBVIOUS
    <3>1. CASE w = 0
      BY <1>1, <2>1, <2>2, <2>3, <3>1
    <3>2. CASE w # 0
      <4>1. w - 1 \in 0..Window
        BY <3>2, WindowWithin
      <4> QED
        BY <1>2, <2>1, <2>2, <2>3, <3>2, <4>1
    <3> QED
      BY <3>1, <3>2
  <2>5. Recent' <= Recent /\ Recent' \in Nat
    <3>1. Window # 0 => Recorded(Window - 1) <= Recorded(Window) /\ Recorded(Window - 1) \in Nat
      BY <1>1, RecordedMonotone, RecordedType, RecordedIs, WindowWithin, CapBeyond
    <3>2. Recent' = IF Window = 0 THEN 0 ELSE Recorded(Window - 1)
      BY <2>2, WindowWithin DEF Recent
    <3> QED
      BY <1>2, <3>1, <3>2 DEF Recent
  <2>6. Recent' + busy' <= UserMax - 1 + Cardinality(Req)
    BY <1>1, <1>2, <2>1, <2>5
  <2> QED
    BY <1>3, <2>4, <2>6
<1> QED
  BY <1>9, <1>10, <1>11, <1>12, <1>13, <1>14, <1>15, <1>16, <1>17, <1>18, <1>19, <1>20, <1>21
  DEF MFANext, Verify

\* The rows of a challenge in force are too young to be purged.
LEMMA NotPurged ==
  ASSUME MFAInv, NEW c \in challenges, ~ Expired(c)
  PROVE  Purged(attempts[c]) = attempts[c]
<1>1. c \in Challenge /\ attempts[c] \in Counts /\ age[c] \in Nat /\ age[c] <= MaxAge
  <2>1. c \in Challenge /\ attempts[c] \in Counts
    BY LedgerIs DEF MFAInv, MFATypeOK
  <2>2. age[c] \in 0..Cap
    BY <2>1 DEF MFAInv, MFATypeOK, Age
  <2> QED
    BY <2>1, <2>2, CapBeyond, MFAAssumption DEF Expired
<1>2. \A a \in Age : attempts[c][a] > 0 => a <= age[c]
  BY DEF MFAInv, TriesRecorded
<1>3. \A a \in Age : a \in Nat /\ attempts[c][a] \in Nat
  BY <1>1, CapBeyond DEF Age, Counts
<1>4. \A a \in Age : a > Max({Window, MaxAge}) => attempts[c][a] = 0
  BY <1>1, <1>2, <1>3, CapBeyond, MFAAssumption
<1>5. \A a \in Age : Purged(attempts[c])[a] = attempts[c][a]
  BY <1>4 DEF Purged
<1> QED
  BY <1>1, <1>5, PurgedType DEF Counts

LEMMA ChallengeNext ==
  ASSUME MFAInv, [MFANext]_mfaVars
  PROVE  (ChallengeLimit /\ TriesRecorded /\ WinsLimit)'
<1> DEFINE pending(c) == Cardinality(Held(c, {"lockout", "code"}))
           recording(c) == Cardinality(Held(c, {"record"}))
           forgetting(c) == Cardinality(Held(c, {"forget"}))
           N == Cardinality(Req)
           Kept(c) ==
             /\ tries[c] + pending(c) <= ChallengeMax - 1 + N
             /\ c \in challenges /\ ~ Expired(c) =>
                  /\ tries[c] <= Within(attempts[c], Cap) + recording(c)
                  /\ Within(attempts[c], Cap) <= ChallengeMax - 1
                  /\ \A a \in Age : attempts[c][a] > 0 => a <= age[c]
             /\ wins[c] + pending(c) <= N
             /\ c \in challenges => wins[c] <= forgetting(c)
<1>1. challenges' \subseteq Challenge
  BY TypeNext DEF MFATypeOK
<1> SUFFICES ASSUME NEW c \in Challenge PROVE Kept(c)'
  BY <1>1 DEF ChallengeLimit, TriesRecorded, WinsLimit
<1>2. Kept(c)
  BY DEF MFAInv, ChallengeLimit, TriesRecorded, WinsLimit
<1>3. /\ MFATypeOK /\ attempts[c] \in Counts /\ Within(attempts[c], Cap) \in Nat
      /\ tries[c] \in Nat /\ wins[c] \in Nat /\ age[c] \in Nat
      /\ ChallengeMax \in Nat \ {0} /\ MaxAge \in Nat /\ NoChallenge # c /\ N \in Nat
  <2>1. MFATypeOK /\ attempts[c] \in Counts
    BY LedgerIs DEF MFAInv
  <2>2. Within(attempts[c], Cap) \in Nat
    BY <2>1, WithinType, CapBeyond
  <2>3. age[c] \in 0..Cap /\ tries[c] \in Nat /\ wins[c] \in Nat
    BY <2>1 DEF MFATypeOK, Age
  <2>4. age[c] \in Nat
    BY <2>3, CapBeyond
  <2> QED
    BY <2>1, <2>2, <2>3, <2>4, CountsType, MFAAssumption
<1>4. pending(c) \in Nat /\ recording(c) \in Nat /\ forgetting(c) \in Nat
  BY CountsType
<1>5. pending(c)' \in Nat /\ recording(c)' \in Nat /\ forgetting(c)' \in Nat /\ pending(c)' <= N
  <2>1. \A P : Held(c, P)' \subseteq Req
    BY DEF Held
  <2> QED
    BY <2>1, SomeRequests
<1>6. /\ Expired(c) <=> age[c] > MaxAge
      /\ Expired(c)' <=> age'[c] > MaxAge
  BY DEF Expired
<1>7. ASSUME NEW r \in Req, NEW from, NEW to, Move(r, from, to),
             \A q \in Req \ {r} : on'[q] = on[q]
      PROVE  /\ pending(c)' = pending(c) + Bit(on'[r] = c /\ to \in {"lockout", "code"})
                                         - Bit(on[r] = c /\ from \in {"lockout", "code"})
             /\ recording(c)' = recording(c) + Bit(on'[r] = c /\ to \in {"record"})
                                             - Bit(on[r] = c /\ from \in {"record"})
             /\ forgetting(c)' = forgetting(c) + Bit(on'[r] = c /\ to \in {"forget"})
                                               - Bit(on[r] = c /\ from \in {"forget"})
  BY <1>3, <1>7, HeldMoves
<1>8. ASSUME UNCHANGED reqVars
      PROVE  pending(c)' = pending(c) /\ recording(c)' = recording(c) /\ forgetting(c)' = forgetting(c)
  BY <1>8, NobodyMoves
<1> HIDE DEF pending, recording, forgetting, N
\* Nothing happens to c, but that it may be deleted.
<1>9. ASSUME tries'[c] = tries[c], wins'[c] = wins[c], age'[c] = age[c],
             c \in challenges /\ ~ Expired(c) => attempts'[c] = attempts[c],
             pending(c)' <= pending(c), recording(c)' = recording(c),
             c \in challenges' => c \in challenges /\ forgetting(c)' >= forgetting(c)
      PROVE  Kept(c)'
  BY <1>2, <1>3, <1>4, <1>5, <1>6, <1>9
<1>10. CASE UNCHANGED mfaVars
  BY <1>4, <1>8, <1>9, <1>10 DEF mfaVars, rowVars, histVars
<1>11. ASSUME NEW r \in Req, Login(r) PROVE Kept(c)'
  BY <1>4, <1>7, <1>9, <1>11 DEF Login, rowVars, histVars, Bit
<1>12. ASSUME NEW r \in Req, CreateChallenge(r) PROVE Kept(c)'
  <2>1. PICK d \in Challenge \ challenges :
          /\ \A q \in Req : on[q] # d
          /\ Purged(attempts[d]) = None
          /\ challenges' = {e \in challenges : ~ Expired(e)} \cup {d}
          /\ age' = [age EXCEPT ![d] = 0]
          /\ tries' = [tries EXCEPT ![d] = 0]
          /\ wins' = [wins EXCEPT ![d] = 0]
    BY <1>12 DEF CreateChallenge
  <2>2. attempts'[c] = Purged(attempts[c])
    BY <1>12 DEF CreateChallenge
  <2>3. pending(c)' = pending(c) /\ recording(c)' = recording(c) /\ forgetting(c)' = forgetting(c)
    BY <1>4, <1>7, <1>12 DEF CreateChallenge, Bit
  <2>4. CASE c = d
    <3>1. Within(attempts'[c], Cap) = 0 /\ \A a \in Age : attempts'[c][a] = 0
      BY <2>1, <2>2, <2>4, NothingWithin, CapBeyond DEF None
    <3>2. tries'[c] = 0 /\ wins'[c] = 0
      BY <2>1, <2>4, <1>3 DEF MFATypeOK
    <3> QED
      BY <1>3, <1>5, <3>1, <3>2
  <2>5. CASE c # d
    <3>1. tries'[c] = tries[c] /\ wins'[c] = wins[c] /\ age'[c] = age[c]
      BY <2>1, <2>5, <1>3 DEF MFATypeOK
    <3>2. c \in challenges /\ ~ Expired(c) => attempts'[c] = attempts[c]
      BY <2>2, NotPurged
    <3> QED
      BY <1>4, <1>9, <2>1, <2>3, <2>5, <3>1, <3>2
  <2> QED
    BY <2>4, <2>5
<1>13. ASSUME NEW r \in Req, CheckLockout(r) PROVE Kept(c)'
  <2>1. pending(c)' <= pending(c) /\ recording(c)' = recording(c) /\ forgetting(c)' = forgetting(c)
    <3>1. CASE Locked
      BY <1>3, <1>4, <1>7, <1>13, <3>1 DEF CheckLockout, Answer, Bit, MFATypeOK
    <3>2. CASE ~ Locked
      BY <1>4, <1>7, <1>13, <3>2 DEF CheckLockout, Bit
    <3> QED
      BY <3>1, <3>2
  <2> QED
    BY <1>4, <1>9, <1>13, <2>1 DEF CheckLockout, rowVars, histVars
<1>14. ASSUME NEW r \in Req, CodeAccepted(r) PROVE Kept(c)'
  <2>1. CASE on[r] = c
    <3>1. /\ pending(c)' = pending(c) - 1 /\ recording(c)' = recording(c)
          /\ forgetting(c)' = forgetting(c) + 1
      BY <1>4, <1>7, <1>14, <2>1 DEF CodeAccepted, Bit
    <3>2. wins'[c] = wins[c] + 1 /\ tries' = tries
      BY <1>3, <1>14, <2>1 DEF CodeAccepted, MFATypeOK
    <3>3. UNCHANGED rowVars
      BY <1>14 DEF CodeAccepted
    <3> QED
      BY <1>2, <1>3, <1>4, <1>5, <1>6, <3>1, <3>2, <3>3 DEF rowVars
  <2>2. CASE on[r] # c
    <3>1. wins'[c] = wins[c]
      BY <1>3, <1>14, <2>2 DEF CodeAccepted, MFATypeOK
    <3> QED
      BY <1>4, <1>7, <1>9, <1>14, <2>2, <3>1 DEF CodeAccepted, rowVars, Bit
  <2> QED
    BY <2>1, <2>2
<1>15. ASSUME NEW r \in Req, CodeRejected(r) PROVE Kept(c)'
  <2>1. CASE on[r] = c
    <3>1. /\ pending(c)' = pending(c) - 1 /\ recording(c)' = recording(c) + 1
          /\ forgetting(c)' = forgetting(c)
      BY <1>4, <1>7, <1>15, <2>1 DEF CodeRejected, Bit
    <3>2. tries'[c] = tries[c] + 1 /\ wins' = wins
      BY <1>3, <1>15, <2>1 DEF CodeRejected, MFATypeOK
    <3>3. UNCHANGED rowVars
      BY <1>15 DEF CodeRejected
    <3> QED
      BY <1>2, <1>3, <1>4, <1>5, <1>6, <3>1, <3>2, <3>3 DEF rowVars
  <2>2. CASE on[r] # c
    <3>1. tries'[c] = tries[c]
      BY <1>3, <1>15, <2>2 DEF CodeRejected, MFATypeOK
    <3> QED
      BY <1>4, <1>7, <1>9, <1>15, <2>2, <3>1 DEF CodeRejected, rowVars, Bit
  <2> QED
    BY <2>1, <2>2
<1>16. ASSUME NEW r \in Req, RecordFailure(r) PROVE Kept(c)'
  <2>1. /\ UNCHANGED <<age, tries, wins>> /\ challenges' \subseteq challenges
        /\ on[r] \in Challenge /\ pc[r] = "record" /\ on' = [on EXCEPT ![r] = NoChallenge]
    BY <1>16, FailureFacts DEF RecordFailure, Answer, histVars
  <2>2. /\ pending(c)' = pending(c) /\ forgetting(c)' = forgetting(c)
        /\ recording(c)' = recording(c) - Bit(on[r] = c)
    BY <1>3, <1>4, <1>7, <1>16, <2>1 DEF RecordFailure, Answer, Bit, MFATypeOK
  <2>3. CASE on[r] = c
    <3>1. /\ attempts'[c] = [Purged(attempts[c]) EXCEPT ![0] = @ + 1]
          /\ c \in challenges' => Within(attempts'[c], Cap) <= ChallengeMax - 1
      BY <1>16, <2>3, FailureFacts
    <3>2. ASSUME c \in challenges', ~ Expired(c)'
          PROVE  /\ tries'[c] <= Within(attempts'[c], Cap) + recording(c)'
                 /\ \A a \in Age : attempts'[c][a] > 0 => a <= age'[c]
      <4>1. c \in challenges /\ ~ Expired(c) /\ attempts'[c] = [attempts[c] EXCEPT ![0] = @ + 1]
        BY <1>6, <2>1, <3>1, <3>2, NotPurged
      <4>2. Within(attempts'[c], Cap) = Within(attempts[c], Cap) + 1
        BY <1>3, <4>1, CapBeyond, WithinOneMore
      <4>3. \A a \in Age : a # 0 => attempts'[c][a] = attempts[c][a]
        BY <1>3, <4>1 DEF Counts
      <4> QED
        BY <1>2, <1>3, <1>4, <2>1, <2>2, <2>3, <4>1, <4>2, <4>3 DEF Bit
    <3> QED
      BY <1>2, <1>3, <1>4, <1>5, <2>1, <2>2, <3>1, <3>2
  <2>4. CASE on[r] # c
    <3>1. c \in challenges /\ ~ Expired(c) => attempts'[c] = attempts[c]
      BY <1>16, <2>4, FailureFacts, NotPurged
    <3> QED
      BY <1>4, <1>9, <2>1, <2>2, <2>4, <3>1 DEF Bit
  <2> QED
    BY <2>3, <2>4
<1>17. ASSUME NEW r \in Req, ForgetChallenge(r) PROVE Kept(c)'
  <2>1. pending(c)' = pending(c) /\ recording(c)' = recording(c)
    BY <1>4, <1>7, <1>17 DEF ForgetChallenge, Bit
  <2>2. c \in challenges' => c \in challenges /\ forgetting(c)' >= forgetting(c)
    BY <1>4, <1>7, <1>17 DEF ForgetChallenge, Bit
  <2> QED
    BY <1>4, <1>9, <1>17, <2>1, <2>2 DEF ForgetChallenge, histVars
<1>18. ASSUME NEW r \in Req, ClearFailures(r) PROVE Kept(c)'
  <2>1. pending(c)' = pending(c) /\ recording(c)' = recording(c) /\ forgetting(c)' = forgetting(c)
    BY <1>3, <1>4, <1>7, <1>18 DEF ClearFailures, Answer, Bit, MFATypeOK
  <2>2. Within(attempts'[c], Cap) = 0 /\ \A a \in Age : attempts'[c][a] = 0
    BY <1>18, NothingWithin, CapBeyond DEF ClearFailures, None
  <2>3. tries'[c] = 0 /\ wins' = wins /\ challenges' = challenges
    BY <1>18 DEF ClearFailures
  <2> QED
    BY <1>2, <1>3, <1>4, <1>5, <2>1, <2>2, <2>3
<1>19. ASSUME NEW r \in Req, NEW d \in Challenge, Present(r, d) PROVE Kept(c)'
  <2>1. /\ d \in challenges /\ ~ Expired(d) /\ pc[r] = "idle"
        /\ on' = [on EXCEPT ![r] = d] /\ UNCHANGED <<challenges, age, attempts, tries, wins>>
    BY <1>19 DEF Present, Move, rowVars, histVars
  <2>2. CASE c = d
    <3>1. /\ pending(c)' = pending(c) + 1 /\ recording(c)' = recording(c)
          /\ forgetting(c)' = forgetting(c)
      BY <1>3, <1>4, <1>7, <1>19, <2>2 DEF Present, Bit, MFATypeOK
    <3>2. pending(c) + recording(c) + 1 <= N /\ pending(c) + forgetting(c) + 1 <= N
      <4>1. /\ Held(c, {"lockout", "code"}) \cap Held(c, {"record"}) = {}
            /\ Held(c, {"lockout", "code"}) \cap Held(c, {"forget"}) = {}
            /\ \A P : Held(c, P) \subseteq Req
        BY DEF Held
      <4>2. \A P : r \in Held(c, P) => "idle" \in P
        BY <2>1 DEF Held
      <4> QED
        BY <4>1, <4>2, TwoGroups DEF pending, recording, forgetting, N
    <3> QED
      BY <1>2, <1>3, <1>4, <1>5, <2>1, <2>2, <3>1, <3>2 DEF Expired
  <2>3. CASE c # d
    BY <1>3, <1>4, <1>7, <1>9, <1>19, <2>1, <2>3 DEF Present, Bit, MFATypeOK
  <2> QED
    BY <2>2, <2>3
<1>20. ASSUME NEW d \in Challenge, PresentExpired(d) PROVE Kept(c)'
  BY <1>4, <1>8, <1>9, <1>20 DEF PresentExpired, histVars
<1>21. CASE CredentialsChanged
  BY <1>4, <1>8, <1>9, <1>21 DEF CredentialsChanged, histVars
<1>22. CASE Tick
  <2>1. pending(c)' = pending(c) /\ recording(c)' = recording(c) /\ forgetting(c)' = forgetting(c)
    BY <1>8, <1>22 DEF Tick
  <2>2. tries' = tries /\ wins' = wins /\ challenges' = challenges
    BY <1>22 DEF Tick
  <2>3. ASSUME c \in challenges, ~ Expired(c)'
        PROVE  /\ Within(attempts'[c], Cap) = Within(attempts[c], Cap)
               /\ \A a \in Age : attempts'[c][a] > 0 => a <= age'[c]
               /\ ~ Expired(c)
    <3> DEFINE old == age[c]
    <3>1. /\ age'[c] = old + 1 /\ old + 1 <= MaxAge /\ attempts'[c] = Older(attempts[c])
          /\ attempts'[c] \in Counts
      <4>1. age'[c] \in Age /\ ~ (age'[c] > MaxAge)
        BY <1>6, <1>22, <2>3, TickFacts
      <4>2. age'[c] <= MaxAge
        BY <4>1, CapBeyond, MFAAssumption DEF Age
      <4> QED
        BY <1>22, <4>2, TickFacts DEF Ledger
    <3>2. ~ Expired(c) /\ old \in Nat
      BY <1>3, <3>1 DEF Expired
    <3>3. \A a \in Age : attempts[c][a] > 0 => a <= old
      BY <1>2, <2>3, <3>2
    <3>4. \A a \in Age : a \in Nat /\ attempts[c][a] \in Nat
      BY <1>3, CapBeyond DEF Age, Counts
    <3>5. \A a \in Age : attempts'[c][a] > 0 => a <= old + 1
      <4> SUFFICES ASSUME NEW a \in Age, attempts'[c][a] > 0 PROVE a <= old + 1
        OBVIOUS
      <4>1. a # 0
        BY <1>3, <3>1, OlderType
      <4>2. CASE a = Cap
        <5>1. Cap \in Age /\ Cap - 1 \in Age /\ ~ (Cap <= old) /\ ~ (Cap - 1 <= old)
          BY <3>1, <3>2, CapBeyond, MFAAssumption DEF Age
        <5>2. attempts[c][Cap] = 0 /\ attempts[c][Cap - 1] = 0
          BY <3>3, <3>4, <5>1
        <5> QED
          BY <1>3, <3>1, <4>2, <5>2, OlderType
      <4>3. CASE a # Cap
        <5>1. a \in 1..(Cap - 1) /\ a - 1 \in Age
          BY <4>1, <4>3, CapBeyond DEF Age
        <5>2. attempts[c][a - 1] > 0
          BY <1>3, <3>1, <5>1, OlderType
        <5>3. a - 1 <= old
          BY <3>3, <5>1, <5>2
        <5> QED
          BY <3>2, <3>4, <5>3
      <4> QED
        BY <4>2, <4>3
    <3>6. old \in 0..Cap /\ old + 1 \in 1..(Cap - 1) /\ old + 1 \in 0..Cap /\ (old + 1) - 1 = old
      BY <3>1, <3>2, CapBeyond, MFAAssumption
    <3> HIDE DEF old
    <3>7. Within(attempts[c], Cap) = Within(attempts[c], old)
      BY <1>3, <3>3, <3>6, WithinTrim
    <3>8. Within(attempts'[c], Cap) = Within(attempts'[c], old + 1)
      BY <3>1, <3>5, <3>6, WithinTrim
    <3>9. Within(Older(attempts[c]), old + 1) = Within(attempts[c], (old + 1) - 1)
      BY <1>3, <3>6, WithinOlder
    <3> QED
      BY <3>1, <3>2, <3>5, <3>6, <3>7, <3>8, <3>9
  <2> QED
    BY <1>2, <1>3, <1>4, <1>5, <2>1, <2>2, <2>3
<1> QED
  BY <1>10, <1>11, <1>12, <1>13, <1>14, <1>15, <1>16, <1>17, <1>18, <1>19, <1>20, <1>21, <1>22
  DEF MFANext, Verify

LEMMA MFANextInv == MFAInv /\ [MFANext]_mfaVars => MFAInv'
<1> SUFFICES ASSUME MFAInv, [MFANext]_mfaVars PROVE MFAInv'
  OBVIOUS
<1> QED
  BY TypeNext, PresentingNext, AccountNext, ChallengeNext DEF MFAInv

LEMMA MFAInvariant == MFASpec => []MFAInv
BY MFAInitInv, MFANextInv, PTL DEF MFASpec

-----------------------------------------------------------------------------
\* Type correctness of MFALogin.
THEOREM MFATypeCorrect == MFASpec => []MFATypeOK
<1>1. MFAInv => MFATypeOK
  BY DEF MFAInv
<1> QED
  BY <1>1, MFAInvariant, PTL

\* However many requests run at once and however challenges are dropped, purged or forgotten, no
\* more wrong codes are checked for one challenge than its budget and the requests allow, and it
\* opens no more sessions than there were requests at once.
THEOREM ChallengeBudgetHolds == MFASpec => []ChallengeBudget
<1>1. MFAInv => ChallengeBudget
  <2> SUFFICES ASSUME MFAInv, NEW c \in Challenge
               PROVE  /\ tries[c] <= ChallengeMax - 1 + Cardinality(Req)
                      /\ wins[c] <= Cardinality(Req)
    BY DEF ChallengeBudget
  <2>1. tries[c] \in Nat /\ wins[c] \in Nat /\ ChallengeMax \in Nat
    BY MFAAssumption DEF MFAInv, MFATypeOK
  <2> QED
    BY <2>1, CountsType DEF MFAInv, ChallengeLimit, WinsLimit
<1> QED
  BY <1>1, MFAInvariant, PTL

\* The budget of the account holds within every lockout window: neither fresh challenges nor
\* waiting for a purge nor a password change buys a guess.
THEOREM AccountBudgetHolds == MFASpec => []AccountBudget
<1>1. MFAInv => AccountBudget
  <2> SUFFICES ASSUME MFAInv PROVE AccountBudget
    OBVIOUS
  <2>1. Within(guesses, Window) <= Recent + Cardinality(At({"record"}))
    BY WindowWithin DEF MFAInv, GuessesRecorded, Recent
  <2>2. At({"record"}) \subseteq At({"code", "record"}) /\ At({"code", "record"}) \subseteq Req
    BY DEF At
  <2>3. Cardinality(At({"record"})) <= Cardinality(At({"code", "record"}))
    BY <2>2, SomeRequests, FS_Subset
  <2>4. Recent \in Nat /\ Within(guesses, Window) \in Nat
    BY LedgerIs, RecordedType, RecordedIs, WithinType, WindowWithin DEF MFAInv, Recent
  <2> QED
    BY <2>1, <2>3, <2>4, CountsType, MFAAssumption DEF MFAInv, AccountLimit, AccountBudget
<1> QED
  BY <1>1, MFAInvariant, PTL
=============================================================================
