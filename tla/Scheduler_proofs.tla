------------------------- MODULE Scheduler_proofs --------------------------
(***************************************************************************)
(* Theorems about Scheduler and about next_scheduled_time, which its       *)
(* cursors are computed with: for any calendar and any zones whose clocks  *)
(* change as ClockAssumption says.                                         *)
(*                                                                         *)
(* First numbers, clocks and calendar; then next_scheduled_time, kind by   *)
(* kind (Good, NextIsGood); then what each operation leaves in the row of  *)
(* a profile (Fit).                                                        *)
(***************************************************************************)
EXTENDS Scheduler, TLAPS, FiniteSetTheorems, WellFoundedInduction

-----------------------------------------------------------------------------
(* Numbers                                                                 *)

\* Quotient and remainder of a number, and of a number put together from them.
LEMMA DivMod ==
    ASSUME NEW x \in Int, NEW d \in Nat \ {0}
    PROVE  /\ x \div d \in Int /\ x % d \in 0 .. d - 1
           /\ x = (x \div d) * d + (x % d)
OBVIOUS

LEMMA DivModUnique ==
    ASSUME NEW q \in Int, NEW d \in Nat \ {0}, NEW r \in 0 .. d - 1
    PROVE  (q * d + r) \div d = q /\ (q * d + r) % d = r
OBVIOUS

LEMMA ProductGrows ==
    ASSUME NEW a \in Int, NEW b \in Int, NEW d \in Nat \ {0}, a < b
    PROVE  a * d + d <= b * d
OBVIOUS

LEMMA LeastElement ==
    ASSUME NEW S \in SUBSET Nat, S # {}
    PROVE  Min(S) \in S /\ \A y \in S : Min(S) <= y
<1>1. PICK x \in S : \A y \in S : ~(<<y, x>> \in OpToRel(<, Nat))
  BY NatLessThanWellFounded, WFMin
<1>2. \A y \in S : ~(y < x)
  BY <1>1 DEF OpToRel
<1>3. \A y \in S : x =< y
  <2> TAKE y \in S
  <2>1. x \in Nat /\ y \in Nat /\ ~(y < x)
    BY <1>1, <1>2
  <2> QED BY <2>1
<1> QED BY <1>1, <1>3 DEF Min

LEMMA GreatestElement ==
    ASSUME NEW S \in SUBSET Nat, S # {}, NEW k \in Nat, \A x \in S : x <= k
    PROVE  Max(S) \in S /\ \A y \in S : y <= Max(S)
<1> DEFINE T == {i \in Nat : k - i \in S}
<1>1. PICK y \in S : TRUE
  OBVIOUS
<1>2. k - y \in Nat /\ k - (k - y) = y
  BY <1>1
<1>3. T # {}
  BY <1>1, <1>2
<1>4. Min(T) \in T /\ \A i \in T : Min(T) <= i
  BY <1>3, LeastElement
<1> DEFINE x == k - Min(T)
<1>5. x \in S
  BY <1>4
<1>6. ASSUME NEW v \in S PROVE v <= x
  <2>1. k - v \in Nat /\ k - (k - v) = v
    OBVIOUS
  <2>2. k - v \in T
    BY <2>1
  <2> QED BY <1>4, <2>1, <2>2
<1>7. \A v \in S : x >= v
  BY <1>5, <1>6
<1> HIDE DEF x
<1>8. Max(S) \in S /\ \A v \in S : Max(S) >= v
  BY <1>5, <1>7 DEF Max
<1> QED BY <1>8

-----------------------------------------------------------------------------
(* Clocks                                                                  *)

Lengths == DayLength \in Nat \ {0} /\ WeekLength \in Nat \ {0} /\ MaxOffset \in Nat
           /\ LastInstant \in Nat

LEMMA LengthsHold == Lengths
BY CalendarAssumption DEF Lengths

LEMMA OffsetIs ==
    ASSUME NEW z \in Zone, NEW t \in -1 .. LastInstant
    PROVE  /\ Offset(z, t) \in 0 .. MaxOffset
           /\ \A u \in -1 .. LastInstant : Offset(z, t) - Offset(z, u) <= DayLength
BY ClockAssumption DEF OffsetsAreClose

LEMMA WallIs ==
    ASSUME NEW z \in Zone, NEW t \in Instants
    PROVE  /\ Wall(z, t) \in Nat /\ t <= Wall(z, t) /\ Wall(z, t) <= t + MaxOffset
           /\ t \in Int /\ t >= 0 /\ t <= LastInstant
<1>1. t \in -1 .. LastInstant
  BY LengthsHold DEF Lengths, Instants
<1> QED BY <1>1, OffsetIs, LengthsHold DEF Lengths, Instants, Wall

\* The instants that show a reading, and fold.
LEMMA ShowingIs ==
    ASSUME NEW z \in Zone, NEW w \in 0 .. LastInstant
    PROVE  /\ Showing(z, w) \subseteq Instants
           /\ \A t \in Showing(z, w) : Wall(z, t) = w /\ t \in Nat /\ t <= w
           /\ \A t \in Instants : Wall(z, t) = w => t \in Showing(z, w)
<1>1. Showing(z, w) \subseteq Instants
  BY LengthsHold DEF Lengths, Showing, Instants
<1>2. \A t \in Showing(z, w) : Wall(z, t) = w /\ t \in Nat /\ t <= w
  BY LengthsHold DEF Lengths, Showing
<1>3. ASSUME NEW t \in Instants, Wall(z, t) = w PROVE t \in Showing(z, w)
  BY <1>3, WallIs, LengthsHold DEF Lengths, Showing
<1> QED BY <1>1, <1>2, <1>3

LEMMA FoldIs ==
    ASSUME NEW z \in Zone, NEW t \in Instants
    PROVE  Fold(z, t) <=> \E u \in Instants : u < t /\ Wall(z, u) = Wall(z, t)
<1>1. ASSUME NEW u \in Instants, u < t, Wall(z, u) = Wall(z, t) PROVE Fold(z, t)
  <2>1. /\ Wall(z, t) \in Nat /\ u \in Int /\ u >= 0
        /\ u <= Wall(z, t) /\ Wall(z, t) <= u + MaxOffset
    BY <1>1, WallIs
  <2>2. u \in Showing(z, Wall(z, t))
    BY <1>1, <2>1, LengthsHold DEF Lengths, Showing
  <2> QED BY <1>1, <2>2 DEF Fold
<1>2. ASSUME Fold(z, t) PROVE \E u \in Instants : u < t /\ Wall(z, u) = Wall(z, t)
  <2>1. PICK u \in Showing(z, Wall(z, t)) : u < t
    BY <1>2 DEF Fold
  <2> DEFINE w == Wall(z, t)
  <2>2. u \in Int /\ u >= 0 /\ Wall(z, u) = Wall(z, t)
    <3>1. w \in Nat
      BY WallIs
    <3>2. u \in Showing(z, w)
      OBVIOUS
    <3> HIDE DEF w
    <3>3. u \in Int /\ u >= 0 /\ Wall(z, u) = w
      BY <3>1, <3>2, LengthsHold DEF Lengths, Showing
    <3> QED BY <3>3 DEF w
  <2>3. u \in Instants
    <3>1. t \in Int /\ t <= LastInstant /\ LastInstant \in Nat
      BY WallIs, LengthsHold DEF Lengths
    <3> HIDE DEF w
    <3> QED BY <2>1, <2>2, <3>1 DEF Instants
  <2> QED BY <2>1, <2>2, <2>3
<1> QED BY <1>1, <1>2

LEMMA FallShows ==
    ASSUME NEW z \in Zone, NEW t \in Instants, NEW u \in Instants, t < u,
           Wall(z, t) > Wall(z, u), NEW w \in Wall(z, u) .. Wall(z, t)
    PROVE  /\ DayOf(Wall(z, t)) = DayOf(Wall(z, u))
           /\ \E v \in Instants : v <= t /\ Wall(z, v) = w
           /\ \E v \in Instants : u <= v /\ Wall(z, v) = w
<1>1. FallsRepeat(z)
  BY ClockAssumption
<1>2. /\ DayOf(Wall(z, t)) = DayOf(Wall(z, u))
      /\ \E v \in 0 .. t : Wall(z, v) = w
      /\ \E v \in u .. LastInstant : Wall(z, v) = w
  BY <1>1 DEF FallsRepeat
<1>3. 0 .. t \subseteq Instants /\ u .. LastInstant \subseteq Instants
  BY LengthsHold DEF Lengths, Instants
<1>4. \A v \in 0 .. t : v <= t
  BY LengthsHold DEF Lengths, Instants
<1>5. \A v \in u .. LastInstant : u <= v
  BY LengthsHold DEF Lengths, Instants
<1> QED BY <1>2, <1>3, <1>4, <1>5

\* Clocks that show no more than earlier show a reading again, and will show
\* the earlier one again.
LEMMA NoMoreThanBefore ==
    ASSUME NEW z \in Zone, NEW t \in Instants, NEW u \in Instants, t < u,
           Wall(z, t) >= Wall(z, u)
    PROVE  /\ Fold(z, u)
           /\ \E v \in Instants : v <= t /\ Wall(z, v) = Wall(z, u)
           /\ \E v \in Instants : u <= v /\ Wall(z, v) = Wall(z, t)
           /\ DayOf(Wall(z, t)) = DayOf(Wall(z, u))
<1>0. /\ Wall(z, t) \in Nat /\ Wall(z, u) \in Nat
      /\ t \in Int /\ u \in Int
  BY WallIs
<1>1. CASE Wall(z, t) = Wall(z, u)
  BY <1>0, <1>1, FoldIs
<1>2. CASE Wall(z, t) > Wall(z, u)
  <2>1. Wall(z, u) \in Wall(z, u) .. Wall(z, t) /\ Wall(z, t) \in Wall(z, u) .. Wall(z, t)
    BY <1>0, <1>2
  <2>2. PICK v \in Instants : v <= t /\ Wall(z, v) = Wall(z, u)
    BY <1>2, <2>1, FallShows
  <2>3. v < u
    BY <1>0, <2>2, WallIs
  <2>4. Fold(z, u)
    BY <2>2, <2>3, FoldIs
  <2> QED BY <1>2, <2>1, <2>2, <2>4, FallShows
<1> QED BY <1>0, <1>1, <1>2
-----------------------------------------------------------------------------
(* From a reading to an instant                                            *)

\* A reading that is shown is taken at its last instant with fold, at its
\* first one without.
LEMMA FromWallShown ==
    ASSUME NEW z \in Zone, NEW w \in 0 .. LastInstant, NEW fold \in BOOLEAN,
           Showing(z, w) # {}
    PROVE  LET n == FromWall(z, w, fold)
           IN /\ n \in Instants /\ Wall(z, n) = w
              /\ \A t \in Instants : Wall(z, t) = w => IF fold THEN t <= n ELSE n <= t
<1> DEFINE S == Showing(z, w)
           n == FromWall(z, w, fold)
<1>1. S \subseteq Instants /\ \A t \in S : Wall(z, t) = w /\ t \in Nat /\ t <= w
  BY ShowingIs
<1>2. \A t \in Instants : Wall(z, t) = w => t \in S
  BY ShowingIs
<1>3. S \in SUBSET Nat /\ w \in Nat
  BY <1>1, LengthsHold DEF Lengths
<1>4. n = IF fold THEN Max(S) ELSE Min(S)
  BY DEF FromWall
<1> HIDE DEF S, n
<1>5. S # {}
  BY DEF S
<1>6. Max(S) \in S /\ \A t \in S : t <= Max(S)
  BY <1>1, <1>3, <1>5, GreatestElement
<1>7. Min(S) \in S /\ \A t \in S : Min(S) <= t
  BY <1>3, <1>5, LeastElement
<1>8. n \in S
  BY <1>4, <1>6, <1>7
<1>9. \A t \in S : IF fold THEN t <= n ELSE n <= t
  BY <1>4, <1>6, <1>7
<1>10. /\ n \in Instants /\ Wall(z, n) = w
       /\ \A t \in Instants : Wall(z, t) = w => IF fold THEN t <= n ELSE n <= t
  BY <1>1, <1>2, <1>8, <1>9
<1> QED BY <1>10 DEF n

\* A reading that is left out: first is the instant after the leap.
LeftOut(z, w, first) ==
    /\ first \in 0 .. w /\ Wall(z, first) > w
    /\ \A t \in 0 .. first - 1 : Wall(z, t) < w

LEMMA FromWallLeftOut ==
    ASSUME NEW z \in Zone, NEW w \in 0 .. LastInstant, NEW fold \in BOOLEAN,
           Showing(z, w) = {}
    PROVE  \E first \in Instants :
              /\ LeftOut(z, w, first)
              /\ FromWall(z, w, fold) = w - Offset(z, IF fold THEN first ELSE first - 1)
<1> DEFINE S == {t \in (w - MaxOffset) .. w : t >= 0 /\ Wall(z, t) > w}
           first == Min(S)
<1>0. w \in Nat /\ w \in Instants /\ MaxOffset \in Nat /\ 0 .. w \subseteq Instants
      /\ w - MaxOffset \in Int
  BY LengthsHold DEF Lengths, Instants
<1>1. \A t \in Instants : Wall(z, t) # w
  BY ShowingIs
<1>2. FromWall(z, w, fold) = w - Offset(z, IF fold THEN first ELSE first - 1)
  BY DEF FromWall
<1>3. S \in SUBSET Nat
  BY <1>0
<1>4. Wall(z, w) > w
  BY <1>0, <1>1, WallIs
<1>5. S # {}
  <2>1. w \in S
    BY <1>0, <1>4
  <2> QED BY <2>1
<1>6. \A t \in 0 .. w : t \in S <=> (t >= w - MaxOffset /\ Wall(z, t) > w)
  BY <1>0
<1>7. \A t \in S : t \in 0 .. w /\ Wall(z, t) > w
  BY <1>0
<1> HIDE DEF S
<1>8. first \in S /\ \A t \in S : first <= t
  BY <1>3, <1>5, LeastElement
<1> HIDE DEF first
<1>9. first \in 0 .. w /\ Wall(z, first) > w /\ first \in Instants
  BY <1>0, <1>7, <1>8
<1>10. ASSUME NEW t \in 0 .. first - 1 PROVE Wall(z, t) < w
  <2>1. t \in 0 .. w /\ t < first /\ t \in Instants /\ t \in Int
    BY <1>0, <1>9
  <2>2. Wall(z, t) \in Nat /\ Wall(z, t) <= t + MaxOffset /\ Wall(z, t) # w
    BY <1>1, <2>1, WallIs
  <2>3. t \notin S
    BY <1>0, <1>8, <1>9, <2>1
  <2>4. ~(t >= w - MaxOffset /\ Wall(z, t) > w)
    BY <1>6, <2>1, <2>3
  <2> QED BY <1>0, <2>1, <2>2, <2>4
<1> QED BY <1>2, <1>9, <1>10 DEF LeftOut

\* Whichever way it is taken, a reading is an instant not far behind it.
LEMMA FromWallIsNear ==
    ASSUME NEW z \in Zone, NEW w \in 0 .. LastInstant, NEW fold \in BOOLEAN
    PROVE  /\ FromWall(z, w, fold) \in Int
           /\ w \in FromWall(z, w, fold) .. FromWall(z, w, fold) + MaxOffset
<1> DEFINE n == FromWall(z, w, fold)
<1>0. w \in Nat /\ MaxOffset \in Nat
  BY LengthsHold DEF Lengths
<1>1. CASE Showing(z, w) # {}
  <2>1. n \in Instants /\ Wall(z, n) = w
    BY <1>1, FromWallShown
  <2> HIDE DEF n
  <2>2. n \in Int /\ n <= w /\ w <= n + MaxOffset
    BY <2>1, WallIs
  <2>3. n \in Int /\ w \in n .. n + MaxOffset
    BY <1>0, <2>2
  <2> QED BY <2>3 DEF n
<1>2. CASE Showing(z, w) = {}
  <2>1. PICK first \in Instants :
            /\ LeftOut(z, w, first)
            /\ n = w - Offset(z, IF fold THEN first ELSE first - 1)
    BY <1>2, FromWallLeftOut
  <2> HIDE DEF n
  <2> DEFINE i == IF fold THEN first ELSE first - 1
             off == Offset(z, i)
  <2>2. i \in -1 .. LastInstant
    BY LengthsHold DEF Lengths, Instants
  <2> HIDE DEF i
  <2>3. off \in 0 .. MaxOffset
    BY <2>2, OffsetIs
  <2>4. n = w - off
    BY <2>1 DEF i
  <2> HIDE DEF off
  <2>5. n \in Int /\ w \in n .. n + MaxOffset
    BY <1>0, <2>3, <2>4
  <2> QED BY <2>5 DEF n
<1> QED BY <1>1, <1>2
LEMMA RepeatsIs ==
    ASSUME NEW z \in Zone, NEW w \in 0 .. LastInstant, NEW n \in Instants, NEW v \in Instants,
           Wall(z, n) = w, Wall(z, v) = w, n # v
    PROVE  Repeats(z, n)
<1> DEFINE S == Showing(z, w)
<1>1. n \in S /\ v \in S /\ S \subseteq Instants
  BY ShowingIs
<1>2. IsFiniteSet(Instants)
  BY FS_Interval, LengthsHold DEF Lengths, Instants
<1>3. IsFiniteSet(S)
  BY <1>1, <1>2, FS_Subset
<1>4. IsFiniteSet({n}) /\ Cardinality({n}) = 1
  BY FS_Singleton
<1>5. IsFiniteSet({n} \union {v}) /\ Cardinality({n} \union {v}) = 2
  <2>1. v \notin {n}
    OBVIOUS
  <2>2. /\ IsFiniteSet({n} \union {v})
        /\ Cardinality({n} \union {v}) =
              IF v \in {n} THEN Cardinality({n}) ELSE Cardinality({n}) + 1
    BY <1>4, FS_AddElement, Zenon
  <2> QED BY <1>4, <2>1, <2>2
<1>6. Cardinality({n} \union {v}) <= Cardinality(S)
  BY <1>1, <1>3, FS_Subset
<1>7. Cardinality(S) \in Nat
  BY <1>3, FS_CardinalityType
<1> QED BY <1>5, <1>6, <1>7 DEF Repeats

\* Where a later reading is taken: later than the present, except without fold
\* in the second pass of a repeated one; and no first pass in between shows it
\* or more, but for what a leap leaves out.
LEMMA UpcomingInstant ==
    ASSUME NEW z \in Zone, NEW u \in Instants, NEW w \in 0 .. LastInstant, Wall(z, u) < w,
           NEW fold \in BOOLEAN,
           fold => Fold(z, u) /\ ~(MonthOf(w) > NextMonth(MonthOf(Wall(z, u))))
    PROVE  LET n == FromWall(z, w, fold)
           IN /\ n \in Instants
              /\ \/ u < n
                 \/ ~fold /\ Fold(z, u) /\ Repeats(z, n) /\ DayOf(w) = DayOf(Wall(z, u))
              /\ \A t \in Instants : u < t /\ t < n /\ ~Fold(z, t) =>
                    Wall(z, t) < w \/ (w < Wall(z, t) /\ Wall(z, t) < w + DayLength)
<1> DEFINE n == FromWall(z, w, fold)
           Goal ==
              /\ n \in Instants
              /\ \/ u < n
                 \/ ~fold /\ Fold(z, u) /\ Repeats(z, n) /\ DayOf(w) = DayOf(Wall(z, u))
              /\ \A t \in Instants : u < t /\ t < n /\ ~Fold(z, t) =>
                    Wall(z, t) < w \/ (w < Wall(z, t) /\ Wall(z, t) < w + DayLength)
<1>0. /\ w \in Nat /\ DayLength \in Nat
      /\ u \in Int /\ u >= 0 /\ Wall(z, u) \in Nat
  BY WallIs, LengthsHold DEF Lengths
<1>1. CASE Showing(z, w) # {}
  <2>1. /\ n \in Instants /\ Wall(z, n) = w
        /\ \A t \in Instants : Wall(z, t) = w => IF fold THEN t <= n ELSE n <= t
    BY <1>1, FromWallShown
  <2> HIDE DEF n
  <2>2. n \in Int /\ n >= 0
    BY <2>1, WallIs
  <2>3. ASSUME ~(u < n)
        PROVE  ~fold /\ Fold(z, u) /\ Repeats(z, n) /\ DayOf(w) = DayOf(Wall(z, u))
    <3>1. n < u
      BY <1>0, <2>1, <2>2, <2>3
    <3>2. /\ Fold(z, u) /\ DayOf(w) = DayOf(Wall(z, u))
          /\ \E v \in Instants : u <= v /\ Wall(z, v) = w
      BY <1>0, <2>1, <3>1, NoMoreThanBefore
    <3>3. PICK v \in Instants : u <= v /\ Wall(z, v) = w
      BY <3>2
    <3>4. v \in Int /\ ~(v <= n)
      BY <1>0, <2>2, <3>1, <3>3, WallIs
    <3>5. ~fold
      BY <2>1, <3>3, <3>4
    <3>6. n # v
      BY <2>2, <3>4
    <3> QED BY <2>1, <3>2, <3>3, <3>5, <3>6, RepeatsIs
  <2>4. ASSUME NEW t \in Instants, u < t, t < n, ~Fold(z, t)
        PROVE  Wall(z, t) < w
    <3>0. t \in Int /\ Wall(z, t) \in Nat
      BY WallIs
    <3>1. SUFFICES ASSUME Wall(z, t) >= w PROVE FALSE
      BY <1>0, <3>0
    <3>2. /\ Fold(z, n)
          /\ \E v \in Instants : v <= t /\ Wall(z, v) = w
      BY <2>1, <2>4, <3>1, NoMoreThanBefore
    <3>3. CASE fold
      <4>1. ChangesAreApart(z)
        BY ClockAssumption
      <4>2. u < n /\ t \in u .. n
        BY <1>0, <2>2, <2>4, <3>0
      <4>3. MonthOf(Wall(z, n)) > NextMonth(MonthOf(Wall(z, u)))
        BY <2>1, <2>4, <3>2, <3>3, <4>1, <4>2 DEF ChangesAreApart
      <4> QED BY <2>1, <3>3, <4>3
    <3>4. CASE ~fold
      <4>1. PICK v \in Instants : v <= t /\ Wall(z, v) = w
        BY <3>2
      <4>2. n <= v
        BY <2>1, <3>4, <4>1
      <4> QED BY <2>2, <2>4, <3>0, <4>1, <4>2, WallIs
    <3> QED BY <3>3, <3>4
  <2>5. Goal
    BY <2>1, <2>3, <2>4
  <2> QED BY <2>5 DEF n
<1>2. CASE Showing(z, w) = {}
  <2>1. PICK first \in Instants :
            /\ LeftOut(z, w, first)
            /\ n = w - Offset(z, IF fold THEN first ELSE first - 1)
    BY <1>2, FromWallLeftOut
  <2> HIDE DEF n
  <2>2. \A t \in Instants : Wall(z, t) # w
    BY <1>2, ShowingIs
  <2>3. first \in Int /\ Wall(z, first) \in Nat /\ Wall(z, first) > w
    BY <2>1, WallIs DEF LeftOut
  <2>4. u < first
    <3>1. SUFFICES ASSUME ~(u < first) PROVE FALSE
      OBVIOUS
    <3>2. first < u
      BY <1>0, <2>3, <3>1
    <3>3. Wall(z, first) > Wall(z, u) /\ w \in Wall(z, u) .. Wall(z, first)
      BY <1>0, <2>3
    <3>4. \E v \in Instants : Wall(z, v) = w
      BY <3>2, <3>3, FallShows
    <3> QED BY <2>2, <3>4
  <2> DEFINE off == Offset(z, first)
             old == Offset(z, first - 1)
  <2>5. /\ first \in -1 .. LastInstant /\ first - 1 \in -1 .. LastInstant
        /\ first - 1 \in Instants /\ first - 1 \in 0 .. first - 1
        /\ LastInstant \in Nat /\ w <= LastInstant
    BY <1>0, <2>3, <2>4, WallIs, LengthsHold DEF Lengths, Instants
  <2>6. off \in Nat /\ old \in Nat
    BY <2>5, OffsetIs, LengthsHold DEF Lengths
  <2>7. first - 1 + old < w
    <3>1. Wall(z, first - 1) < w
      BY <2>1, <2>5 DEF LeftOut
    <3> QED BY <3>1 DEF Wall
  <2>8. first + off > w
    BY <2>3 DEF Wall
  <2>9. \A t \in Instants : t \in Int /\ Wall(z, t) \in Nat
    BY WallIs
  <2>10. CASE fold
    <3>1. n = w - off
      BY <2>1, <2>10
    <3>2. u < first - (off - old)
      <4>1. ChangesAreApart(z)
        BY ClockAssumption
      <4> QED BY <2>4, <2>10, <4>1 DEF ChangesAreApart
    <3> HIDE DEF off, old
    <3>3. u < n /\ n < first /\ n \in Instants
      BY <1>0, <2>3, <2>5, <2>6, <2>7, <2>8, <3>1, <3>2 DEF Instants
    <3>4. ASSUME NEW t \in Instants, t < n PROVE Wall(z, t) < w
      <4>1. t \in 0 .. first - 1
        BY <2>3, <3>3, <3>4, LengthsHold DEF Lengths, Instants
      <4> QED BY <2>1, <4>1 DEF LeftOut
    <3>5. Goal
      BY <3>3, <3>4
    <3> QED BY <3>5 DEF n
  <2>11. CASE ~fold
    <3>1. n = w - old
      BY <2>1, <2>11
    <3>2. ASSUME NEW t \in Instants, u < t, t < n
          PROVE  Wall(z, t) < w \/ (w < Wall(z, t) /\ Wall(z, t) < w + DayLength)
      <4> DEFINE here == Offset(z, t)
      <4>1. t \in -1 .. LastInstant
        BY LengthsHold DEF Lengths, Instants
      <4>2. here \in Nat /\ here - old <= DayLength
        BY <2>5, <4>1, OffsetIs, LengthsHold DEF Lengths
      <4>3. Wall(z, t) = t + here /\ t \in Int /\ Wall(z, t) # w
        BY <2>2, <2>9 DEF Wall
      <4> HIDE DEF here, old
      <4> QED BY <1>0, <2>6, <3>1, <3>2, <4>2, <4>3
    <3> HIDE DEF off, old
    <3>3. u < n /\ n \in Instants
      BY <1>0, <2>3, <2>4, <2>5, <2>6, <2>7, <3>1 DEF Instants
    <3>4. Goal
      BY <3>2, <3>3
    <3> QED BY <3>4 DEF n
  <2> QED BY <2>10, <2>11
<1> QED BY <1>1, <1>2
-----------------------------------------------------------------------------
(* Days and months                                                         *)

LEMMA DayIs ==
    ASSUME NEW x \in Nat
    PROVE  /\ DayOf(x) \in Nat /\ DayOf(x) * DayLength \in Nat
           /\ x = DayOf(x) * DayLength + (x % DayLength)
           /\ x % DayLength \in 0 .. DayLength - 1
           /\ DayOf(x) * DayLength <= x /\ x < DayOf(x) * DayLength + DayLength
<1> DEFINE d == DayLength
           q == x \div d
<1>1. d \in Nat \ {0}
  BY LengthsHold DEF Lengths
<1>2. /\ q \in Int /\ x % d \in 0 .. d - 1
      /\ x = q * d + (x % d)
  BY <1>1, DivMod
<1>3. DayOf(x) = q
  BY DEF DayOf
<1> HIDE DEF q
<1>4. q >= 0
  <2>1. ASSUME q < 0 PROVE FALSE
    <3>1. q * d + d <= 0 * d
      BY <1>1, <1>2, <2>1, ProductGrows
    <3> QED BY <1>1, <1>2, <3>1
  <2> QED BY <1>2, <2>1
<1>5. q \in Nat /\ q * d \in Nat
  BY <1>1, <1>2, <1>4
<1> QED BY <1>1, <1>2, <1>3, <1>5

\* A schedule's time on a day.
Timed(s) == s.at \in 0 .. DayLength - 1

LEMMA AtIs ==
    ASSUME NEW s, Timed(s), NEW d \in Nat
    PROVE  /\ At(d, s) \in Nat
           /\ DayOf(At(d, s)) = d /\ At(d, s) % DayLength = s.at
           /\ d * DayLength \in Nat
           /\ d * DayLength <= At(d, s) /\ At(d, s) < d * DayLength + DayLength
<1>1. DayLength \in Nat \ {0} /\ d \in Int /\ s.at \in 0 .. DayLength - 1
  BY LengthsHold DEF Lengths, Timed
<1>2. (d * DayLength + s.at) \div DayLength = d /\ (d * DayLength + s.at) % DayLength = s.at
  BY <1>1, DivModUnique
<1>3. d * DayLength \in Nat
  BY <1>1
<1> QED BY <1>1, <1>2, <1>3 DEF At, DayOf

LEMMA AtGrows ==
    ASSUME NEW s, Timed(s), NEW d \in Nat, NEW e \in Nat
    PROVE  /\ d < e => At(d, s) + DayLength <= At(e, s)
           /\ At(d, s) < At(e, s) => d < e
           /\ At(d + e, s) = At(d, s) + e * DayLength
<1>1. /\ DayLength \in Nat \ {0} /\ s.at \in Nat /\ d \in Int /\ e \in Int
      /\ d * DayLength \in Int /\ e * DayLength \in Int
  BY LengthsHold DEF Lengths, Timed
<1>2. d < e => d * DayLength + DayLength <= e * DayLength
  BY <1>1, ProductGrows
<1>3. e < d => e * DayLength + DayLength <= d * DayLength
  BY <1>1, ProductGrows
<1>4. (d + e) * DayLength = d * DayLength + e * DayLength
  BY <1>1
<1> QED BY <1>1, <1>2, <1>3, <1>4 DEF At

LEMMA DueIsAt ==
    ASSUME NEW s, Timed(s), NEW x \in Nat, Due(s, x)
    PROVE  x = At(DayOf(x), s)
BY DayIs DEF Due, At

\* Two readings at which a schedule is due are a day apart at least.
LEMMA DueApart ==
    ASSUME NEW s, Timed(s), NEW x \in Nat, NEW y \in Nat, Due(s, x), Due(s, y), x < y
    PROVE  x + DayLength <= y
<1>1. DayOf(x) \in Nat /\ DayOf(y) \in Nat /\ x = At(DayOf(x), s) /\ y = At(DayOf(y), s)
  BY DayIs, DueIsAt
<1> QED BY <1>1, AtGrows

\* An earlier reading is not of a later day.
LEMMA DayGrows ==
    ASSUME NEW x \in Nat, NEW y \in Nat, x <= y
    PROVE  DayOf(x) <= DayOf(y)
<1>1. /\ DayOf(x) \in Nat /\ DayOf(y) \in Nat /\ DayLength \in Nat \ {0}
      /\ DayOf(x) * DayLength \in Nat /\ DayOf(y) * DayLength \in Nat
      /\ DayOf(x) * DayLength <= x /\ y < DayOf(y) * DayLength + DayLength
  BY DayIs, LengthsHold DEF Lengths
<1>2. DayOf(y) < DayOf(x) => DayOf(y) * DayLength + DayLength <= DayOf(x) * DayLength
  BY <1>1, ProductGrows
<1> QED BY <1>1, <1>2

LEMMA MonthIs ==
    ASSUME NEW x \in Nat
    PROVE  /\ MonthOf(x) \in MonthStarts /\ MonthOf(x) \in Nat /\ MonthOf(x) <= DayOf(x)
           /\ \A k \in MonthStarts : k <= DayOf(x) => k <= MonthOf(x)
<1> DEFINE S == {m \in MonthStarts : m <= DayOf(x)}
<1>1. DayOf(x) \in Nat
  BY DayIs
<1>2. S \in SUBSET Nat /\ 0 \in S
  <2>1. MonthStarts \subseteq Nat /\ 0 \in MonthStarts /\ 0 <= DayOf(x)
    BY <1>1, CalendarAssumption
  <2> QED BY <2>1
<1>3. \A m \in S : m <= DayOf(x)
  OBVIOUS
<1> HIDE DEF S
<1>4. Max(S) \in S /\ \A y \in S : y <= Max(S)
  BY <1>1, <1>2, <1>3, GreatestElement
<1>5. MonthOf(x) = Max(S)
  BY DEF MonthOf, S
<1> QED BY <1>2, <1>4, <1>5 DEF S

LEMMA NextMonthIs ==
    ASSUME NEW m \in Nat, \E k \in MonthStarts : k > m
    PROVE  /\ NextMonth(m) \in MonthStarts /\ NextMonth(m) \in Nat /\ NextMonth(m) > m
           /\ \A k \in MonthStarts : k > m => NextMonth(m) <= k
<1> DEFINE S == {n \in MonthStarts : n > m}
<1>1. S \in SUBSET Nat /\ S # {}
  BY CalendarAssumption
<1>2. Min(S) \in S /\ \A y \in S : Min(S) <= y
  BY <1>1, LeastElement
<1> QED BY <1>1, <1>2 DEF NextMonth

\* monthday lies in its month.
LEMMA MonthDayIs ==
    ASSUME NEW s, s.day \in Nat \ {0}, NEW m \in Nat, NextMonth(m) \in Nat, NextMonth(m) > m
    PROVE  MonthDay(m, s) \in Nat /\ m <= MonthDay(m, s) /\ MonthDay(m, s) < NextMonth(m)
<1> DEFINE S == {s.day, NextMonth(m) - m}
<1>1. S \in SUBSET Nat /\ S # {}
  OBVIOUS
<1>2. Min(S) \in S /\ \A y \in S : Min(S) <= y
  BY <1>1, LeastElement
<1>3. Min(S) \in Nat \ {0} /\ Min(S) <= NextMonth(m) - m
  BY <1>2
<1> QED BY <1>3 DEF MonthDay

LEMMA SameMonth ==
    ASSUME NEW x \in Nat, NEW m \in MonthStarts, NextMonth(m) \in Nat,
           \A k \in MonthStarts : k > m => NextMonth(m) <= k,
           m <= DayOf(x), DayOf(x) < NextMonth(m)
    PROVE  MonthOf(x) = m
<1>1. /\ MonthOf(x) \in MonthStarts /\ MonthOf(x) \in Nat /\ MonthOf(x) <= DayOf(x)
      /\ m <= MonthOf(x) /\ m \in Nat /\ DayOf(x) \in Nat
  BY MonthIs, DayIs, CalendarAssumption
<1> QED BY <1>1
-----------------------------------------------------------------------------
(* The next reading                                                        *)

\* w is the first reading after l at which s is due.
Upcoming(s, l, w) ==
    /\ w \in 0 .. LastInstant /\ l < w /\ Due(s, w)
    /\ \A x \in Nat : l < x /\ Due(s, x) => w <= x

\* A reading after which the calendar has a day, a week and a month to come.
WithinReach(l) ==
    /\ l \in Nat /\ l + 3 * (WeekLength * DayLength) <= LastInstant
    /\ \E m, n \in MonthStarts : m < n /\ DayOf(l) < m

LEMMA HorizonIsWithinReach ==
    ASSUME NEW z \in Zone, NEW u \in 0 .. Horizon
    PROVE  u \in Instants /\ WithinReach(Wall(z, u))
<1> DEFINE l == Wall(z, u)
           week == WeekLength * DayLength
<1>1. /\ Horizon \in Nat /\ Horizon + MaxOffset + 3 * week <= LastInstant
      /\ week \in Nat /\ DayLength \in Nat \ {0}
      /\ MaxOffset \in Nat /\ LastInstant \in Nat
  BY SchedulerAssumption, LengthsHold DEF Lengths
<1> HIDE DEF week
<1>2. u \in Instants
  BY <1>1 DEF Instants
<1>3. l \in Nat /\ l <= Horizon + MaxOffset
  <2>1. l \in Nat /\ l <= u + MaxOffset
    BY <1>2, WallIs
  <2> QED BY <1>1, <2>1
<1> HIDE DEF l
<1>4. l + 3 * week <= LastInstant
  BY <1>1, <1>3
<1>5. PICK m, n \in MonthStarts : m < n /\ Horizon + MaxOffset < m * DayLength
  BY SchedulerAssumption
<1>6. DayOf(l) < m
  <2>1. m \in Nat /\ m * DayLength \in Nat
    BY <1>1, CalendarAssumption
  <2>2. DayOf(l) \in Nat /\ DayOf(l) * DayLength \in Nat /\ DayOf(l) * DayLength <= l
    BY <1>3, DayIs
  <2>3. m = DayOf(l) \/ m < DayOf(l) \/ DayOf(l) < m
    BY <2>1, <2>2
  <2>4. m < DayOf(l) => m * DayLength + DayLength <= DayOf(l) * DayLength
    BY <1>1, <2>1, <2>2, ProductGrows
  <2> QED BY <1>1, <1>3, <1>5, <2>1, <2>2, <2>3, <2>4
<1>7. WithinReach(l)
  BY <1>3, <1>4, <1>5, <1>6 DEF WithinReach, week
<1> QED BY <1>2, <1>7 DEF l

\* The days of the calendar from the present one on.
LEMMA ReachIs ==
    ASSUME NEW l, WithinReach(l), NEW s, Timed(s), NEW d \in Nat,
           d < DayOf(l) + 2 * WeekLength \/ d < DayOf(l) + 3
    PROVE  At(d, s) \in 0 .. LastInstant
<1>1. /\ WeekLength \in Nat \ {0} /\ DayLength \in Nat \ {0} /\ LastInstant \in Nat
      /\ l \in Nat
  BY LengthsHold DEF Lengths, WithinReach
<1> DEFINE week == WeekLength * DayLength
           day == DayOf(l)
           e == IF d < day + 3 THEN day + 3 ELSE day + 2 * WeekLength
<1>2. week \in Nat /\ DayLength <= week /\ l + 3 * week <= LastInstant
  <2>1. 0 * DayLength + DayLength <= WeekLength * DayLength
    BY <1>1, ProductGrows
  <2> QED BY <1>1, <2>1 DEF WithinReach
<1>3. day \in Nat /\ day * DayLength \in Nat /\ day * DayLength <= l
  BY <1>1, DayIs
<1>4. e * DayLength <= l + 3 * week /\ e \in Nat
  <2>1. (day + 3) * DayLength = day * DayLength + 3 * DayLength
    BY <1>1, <1>3
  <2>2. (day + 2 * WeekLength) * DayLength = day * DayLength + 2 * week
    BY <1>1, <1>3
  <2>3. CASE d < day + 3
    BY <1>1, <1>2, <1>3, <2>1, <2>3
  <2>4. CASE ~(d < day + 3)
    <3>1. e = day + 2 * WeekLength
      BY <2>4
    <3> QED BY <1>1, <1>2, <1>3, <2>2, <3>1
  <2> QED BY <2>3, <2>4
<1>5. d < e
  BY <1>1, <1>3
<1>6. d * DayLength + DayLength <= e * DayLength
  <2> HIDE DEF e
  <2> QED BY <1>1, <1>4, <1>5, ProductGrows
<1>7. At(d, s) \in Nat /\ At(d, s) < d * DayLength + DayLength /\ d * DayLength \in Nat
  BY AtIs
<1>8. e * DayLength \in Nat
  BY <1>1, <1>4
<1> HIDE DEF e, week, day
<1> QED BY <1>1, <1>2, <1>4, <1>6, <1>7, <1>8

DailyReading(s, l) ==
    IF At(DayOf(l), s) > l THEN At(DayOf(l), s) ELSE At(DayOf(l), s) + DayLength

LEMMA DailyIsUpcoming ==
    ASSUME NEW s, Timed(s), s.kind = "DAILY", NEW l, WithinReach(l)
    PROVE  /\ Upcoming(s, l, DailyReading(s, l))
           /\ At(DayOf(l), s) > l => DayOf(DailyReading(s, l)) = DayOf(l)
           /\ ~(At(DayOf(l), s) > l) => DayOf(DailyReading(s, l)) = DayOf(l) + 1
<1> DEFINE day == DayOf(l)
           d == IF At(day, s) > l THEN day ELSE day + 1
<1>1. /\ l \in Nat /\ day \in Nat /\ d \in Nat /\ d < day + 3
      /\ WeekLength \in Nat \ {0} /\ DayLength \in Nat \ {0}
  <2>1. l \in Nat /\ WeekLength \in Nat \ {0} /\ DayLength \in Nat \ {0}
    BY LengthsHold DEF WithinReach, Lengths
  <2>2. day \in Nat
    BY <2>1, DayIs
  <2> HIDE DEF day
  <2> QED BY <2>1, <2>2
<1>2. DailyReading(s, l) = At(d, s)
  <2>1. At(day + 1, s) = At(day, s) + 1 * DayLength
    BY <1>1, AtGrows
  <2>2. At(day + 1, s) = At(day, s) + DayLength
    BY <1>1, <2>1
  <2> QED BY <2>2 DEF DailyReading
<1>3. At(d, s) \in 0 .. LastInstant /\ DayOf(At(d, s)) = d /\ At(d, s) % DayLength = s.at
  BY <1>1, ReachIs, AtIs
<1>4. Due(s, At(d, s))
  BY <1>3 DEF Due
<1>5. l < At(d, s)
  <2>1. CASE At(day, s) > l
    BY <1>1, <2>1, AtIs
  <2>2. CASE ~(At(day, s) > l)
    <3>1. l < day * DayLength + DayLength
      BY <1>1, DayIs
    <3>2. At(day + 1, s) = At(day, s) + 1 * DayLength /\ day * DayLength <= At(day, s)
      BY <1>1, AtIs, AtGrows
    <3>3. At(day, s) \in Nat /\ day * DayLength \in Nat
      BY <1>1, AtIs
    <3> QED BY <1>1, <2>2, <3>1, <3>2, <3>3
  <2> QED BY <2>1, <2>2
<1>6. ASSUME NEW x \in Nat, l < x, Due(s, x) PROVE At(d, s) <= x
  <2>1. x = At(DayOf(x), s) /\ DayOf(x) \in Nat /\ day <= DayOf(x)
    BY <1>1, <1>6, DueIsAt, DayIs, DayGrows
  <2>2. d <= DayOf(x)
    BY <1>1, <1>6, <2>1
  <2>3. At(d, s) \in Nat /\ DayLength \in Nat
    BY <1>1, AtIs
  <2>4. d = DayOf(x) \/ d < DayOf(x)
    BY <1>1, <2>1, <2>2
  <2> HIDE DEF d
  <2>5. d < DayOf(x) => At(d, s) + DayLength <= At(DayOf(x), s)
    BY <1>1, <2>1, AtGrows
  <2> QED BY <2>1, <2>3, <2>4, <2>5
<1>7. Upcoming(s, l, At(d, s))
  BY <1>3, <1>4, <1>5, <1>6 DEF Upcoming
<1> QED BY <1>2, <1>3, <1>7
\* The first day from a given one on with a weekday, and the one a week after.
LEMMA WeekdayReached ==
    ASSUME NEW day \in Nat, NEW w \in Nat \ {0}, NEW to \in 0 .. w - 1
    PROVE  LET k == (to - (day % w)) % w
           IN /\ k \in 0 .. w - 1
              /\ (day + k) % w = to /\ (day + k + w) % w = to
              /\ \A e \in Nat : day <= e /\ e % w = to =>
                    day + k <= e /\ (day + k # e => day + k + w <= e)
<1> DEFINE a == to - (day % w)
           k == a % w
           q == day \div w
           c == a \div w
<1>1. q \in Int /\ day % w \in 0 .. w - 1 /\ day = q * w + (day % w)
  BY DivMod
<1>2. a \in Int
  BY <1>1
<1>3. c \in Int /\ k \in 0 .. w - 1 /\ a = c * w + k
  <2> HIDE DEF a
  <2> QED BY <1>2, DivMod
<1>4. day + k = (q - c) * w + to
  <2>1. (q - c) * w = q * w - c * w
    BY <1>1, <1>3
  <2>2. q * w \in Int /\ c * w \in Int
    BY <1>1, <1>3
  <2> HIDE DEF q, c, k
  <2> QED BY <1>1, <1>3, <2>1, <2>2
<1> DEFINE r == q - c
<1>5. r \in Int /\ day + k = r * w + to
  BY <1>1, <1>3, <1>4
<1> HIDE DEF a, k, q, c, r
<1>6. (day + k) % w = to
  BY <1>5, DivModUnique
<1>7. day + k + w = (r + 1) * w + to
  <2>1. (r + 1) * w = r * w + w /\ r * w \in Int
    BY <1>5
  <2> QED BY <1>3, <1>5, <2>1
<1>8. (day + k + w) % w = to
  <2>1. r + 1 \in Int
    BY <1>5
  <2>2. ((r + 1) * w + to) % w = to
    BY <2>1, DivModUnique
  <2> QED BY <1>7, <2>2
<1>9. ASSUME NEW e \in Nat, day <= e, e % w = to
      PROVE  day + k <= e /\ (day + k # e => day + k + w <= e)
  <2> DEFINE g == e \div w
  <2>1. g \in Int /\ e = g * w + to
    BY <1>9, DivMod
  <2> HIDE DEF g
  <2>2. r * w \in Int /\ g * w \in Int
    BY <1>5, <2>1
  <2>3. g < r => g * w + w <= r * w
    BY <1>5, <2>1, ProductGrows
  <2>4. r < g => r * w + w <= g * w
    BY <1>5, <2>1, ProductGrows
  <2>5. ~(g < r)
    BY <1>3, <1>5, <1>9, <2>1, <2>2, <2>3
  <2>6. g = r \/ r < g
    BY <1>5, <2>1, <2>5
  <2> QED BY <1>3, <1>5, <2>1, <2>2, <2>4, <2>6
<1> QED BY <1>3, <1>6, <1>8, <1>9 DEF k, a

WeeklyReading(s, l) ==
    LET days  == (s.day - Weekday(l)) % WeekLength
        first == At(DayOf(l) + days, s)
    IN IF first > l THEN first ELSE first + WeekLength * DayLength

LEMMA WeeklyIsUpcoming ==
    ASSUME NEW s, Timed(s), s.kind = "WEEKLY", s.day \in 0 .. WeekLength - 1,
           NEW l, WithinReach(l)
    PROVE  Upcoming(s, l, WeeklyReading(s, l))
<1> DEFINE day == DayOf(l)
           k == (s.day - (day % WeekLength)) % WeekLength
           one == day + k
           two == day + k + WeekLength
           d == IF At(one, s) > l THEN one ELSE two
<1>0. WeekLength \in Nat \ {0} /\ DayLength \in Nat \ {0}
  BY LengthsHold DEF Lengths
<1>1. l \in Nat /\ day \in Nat
  BY DayIs DEF WithinReach
<1>2. /\ k \in 0 .. WeekLength - 1
      /\ one % WeekLength = s.day /\ two % WeekLength = s.day
      /\ \A e \in Nat : day <= e /\ e % WeekLength = s.day =>
            one <= e /\ (one # e => two <= e)
  <2> HIDE DEF day
  <2> QED BY <1>0, <1>1, WeekdayReached
<1>3. WeeklyReading(s, l) = IF At(one, s) > l THEN At(one, s)
                            ELSE At(one, s) + WeekLength * DayLength
  BY DEF WeeklyReading, Weekday
<1> HIDE DEF k, day
<1>4. one \in Nat /\ two \in Nat /\ one < two
  BY <1>0, <1>1, <1>2
<1>5. At(two, s) = At(one, s) + WeekLength * DayLength
  BY <1>0, <1>4, AtGrows
<1>6. WeeklyReading(s, l) = At(d, s)
  BY <1>3, <1>5
<1>7. d \in Nat /\ d < day + 2 * WeekLength /\ d % WeekLength = s.day
  BY <1>0, <1>1, <1>2, <1>4
<1>8. l < At(d, s)
  <2>1. CASE At(one, s) > l
    BY <1>1, <1>4, <2>1, AtIs
  <2>2. CASE ~(At(one, s) > l)
    <3>1. day * DayLength \in Nat /\ l < day * DayLength + DayLength
      BY <1>1, DayIs DEF day
    <3>2. day < two
      BY <1>0, <1>1, <1>2
    <3>3. day * DayLength + DayLength <= two * DayLength
      BY <1>0, <1>1, <1>4, <3>2, ProductGrows
    <3>4. At(two, s) \in Nat /\ two * DayLength \in Nat /\ two * DayLength <= At(two, s)
      BY <1>4, AtIs
    <3>5. l < At(two, s)
      <4> HIDE DEF two
      <4> QED BY <1>0, <1>1, <3>1, <3>3, <3>4
    <3> QED BY <2>2, <3>5
  <2> QED BY <2>1, <2>2
<1>9. At(d, s) \in 0 .. LastInstant /\ DayOf(At(d, s)) = d /\ At(d, s) % DayLength = s.at
  <2> HIDE DEF d
  <2> QED BY <1>7, ReachIs, AtIs DEF day
<1>10. Due(s, At(d, s))
  <2> HIDE DEF d
  <2> QED BY <1>7, <1>9 DEF Due, Weekday
<1>11. ASSUME NEW x \in Nat, l < x, Due(s, x) PROVE At(d, s) <= x
  <2> DEFINE e == DayOf(x)
  <2>1. x = At(e, s) /\ e \in Nat /\ day <= e
    BY <1>1, <1>11, DueIsAt, DayIs, DayGrows DEF day
  <2>2. e % WeekLength = s.day
    BY <1>11 DEF Due, Weekday
  <2> HIDE DEF e
  <2>3. one <= e /\ (one # e => two <= e)
    BY <1>2, <2>1, <2>2
  <2>4. d <= e
    <3>1. CASE At(one, s) > l
      BY <2>3, <3>1
    <3>2. CASE ~(At(one, s) > l)
      <4>1. one # e
        BY <1>1, <1>4, <1>11, <2>1, <3>2, AtIs
      <4> QED BY <2>3, <3>2, <4>1
    <3> QED BY <3>1, <3>2
  <2> HIDE DEF d
  <2>5. At(d, s) \in Nat /\ (d < e => At(d, s) + DayLength <= At(e, s)) /\ (d = e \/ d < e)
    <3>1. At(d, s) \in Nat
      BY <1>7, AtIs
    <3>2. d < e => At(d, s) + DayLength <= At(e, s)
      BY <1>7, <2>1, AtGrows
    <3> QED BY <1>7, <2>1, <2>4, <3>1, <3>2
  <2> QED BY <1>0, <2>1, <2>5
<1>12. Upcoming(s, l, At(d, s))
  BY <1>8, <1>9, <1>10, <1>11 DEF Upcoming
<1> QED BY <1>6, <1>12

MonthlyReading(s, l) ==
    LET month == MonthOf(l)
        first == At(MonthDay(month, s), s)
        later == At(MonthDay(NextMonth(month), s), s)
    IN IF first > l THEN first ELSE later

LEMMA MonthlyIsUpcoming ==
    ASSUME NEW s, Timed(s), s.kind = "MONTHLY", s.day \in Nat \ {0},
           NEW l, WithinReach(l)
    PROVE  /\ Upcoming(s, l, MonthlyReading(s, l))
           /\ ~(MonthOf(MonthlyReading(s, l)) > NextMonth(MonthOf(l)))
<1> DEFINE month == MonthOf(l)
           next == NextMonth(month)
           after == NextMonth(next)
           one == MonthDay(month, s)
           two == MonthDay(next, s)
           m == IF At(one, s) > l THEN month ELSE next
           d == MonthDay(m, s)
<1>0. DayLength \in Nat \ {0} /\ LastInstant \in Nat /\ MonthStarts \subseteq Nat
      /\ \A k \in MonthStarts : k * DayLength <= LastInstant
  BY CalendarAssumption
<1>1. /\ l \in Nat /\ DayOf(l) \in Nat
      /\ month \in MonthStarts /\ month \in Nat /\ month <= DayOf(l)
      /\ \A k \in MonthStarts : k <= DayOf(l) => k <= month
  BY DayIs, MonthIs DEF WithinReach
<1>2. PICK i, j \in MonthStarts : i < j /\ DayOf(l) < i
  BY DEF WithinReach
<1> HIDE DEF month
<1>3. i \in Nat /\ j \in Nat /\ i > month
  BY <1>0, <1>1, <1>2
<1>4. /\ next \in MonthStarts /\ next \in Nat /\ next > month /\ next <= i
      /\ \A k \in MonthStarts : k > month => next <= k
  BY <1>1, <1>2, <1>3, NextMonthIs
<1>5. DayOf(l) < next
  BY <1>1, <1>4
<1>6. j > next
  BY <1>2, <1>3, <1>4
<1> DEFINE isNext(a) == /\ NextMonth(a) \in MonthStarts /\ NextMonth(a) \in Nat /\ NextMonth(a) > a
                        /\ \A k \in MonthStarts : k > a => NextMonth(a) <= k
<1>7. isNext(month)
  BY <1>4
<1>8. isNext(next)
  <2> HIDE DEF next
  <2> QED BY <1>2, <1>4, <1>6, NextMonthIs
<1>9. one \in Nat /\ month <= one /\ one < next
  BY <1>1, <1>4, MonthDayIs
<1>10. two \in Nat /\ next <= two /\ two < after
  <2> HIDE DEF next
  <2> QED BY <1>4, <1>8, MonthDayIs
<1>11. m \in MonthStarts /\ m \in Nat /\ isNext(m) /\ (m = month \/ m = next)
  BY <1>1, <1>4, <1>7, <1>8
<1>12. d \in Nat /\ m <= d /\ d < NextMonth(m)
  <2> HIDE DEF m
  <2> QED BY <1>11, MonthDayIs
<1>13. MonthlyReading(s, l) = At(d, s)
  BY DEF MonthlyReading, month
<1>14. At(d, s) \in Nat /\ DayOf(At(d, s)) = d /\ At(d, s) % DayLength = s.at
  <2> HIDE DEF d
  <2> QED BY <1>12, AtIs
<1>15. At(d, s) <= LastInstant
  <2> DEFINE k == NextMonth(m)
  <2>1. k \in Nat /\ k * DayLength <= LastInstant
    BY <1>0, <1>11
  <2> HIDE DEF d, k
  <2>2. d * DayLength + DayLength <= k * DayLength
    BY <1>0, <1>12, <2>1, ProductGrows DEF k
  <2>3. d * DayLength \in Nat /\ At(d, s) < d * DayLength + DayLength /\ k * DayLength \in Nat
    BY <1>0, <1>12, <2>1, AtIs
  <2> QED BY <1>0, <1>14, <2>1, <2>2, <2>3
<1>16. MonthOf(At(d, s)) = m
  <2> DEFINE x == At(d, s)
  <2> HIDE DEF m, d
  <2>1. x \in Nat /\ DayOf(x) = d
    BY <1>14
  <2> HIDE DEF x
  <2>2. MonthOf(x) = m
    BY <1>11, <1>12, <2>1, SameMonth
  <2> QED BY <2>2 DEF x
<1>17. Due(s, At(d, s))
  BY <1>14, <1>16 DEF Due
<1>18. l < At(d, s)
  <2>1. CASE At(one, s) > l
    BY <1>1, <1>14, <2>1
  <2>2. CASE ~(At(one, s) > l)
    <3>1. l < DayOf(l) * DayLength + DayLength /\ DayOf(l) * DayLength \in Nat
      BY <1>1, DayIs
    <3>2. DayOf(l) < two
      BY <1>1, <1>4, <1>5, <1>10
    <3>3. DayOf(l) * DayLength + DayLength <= two * DayLength
      BY <1>0, <1>1, <1>10, <3>2, ProductGrows
    <3>4. At(two, s) \in Nat /\ two * DayLength \in Nat /\ two * DayLength <= At(two, s)
      BY <1>10, AtIs
    <3>5. l < At(two, s)
      <4> HIDE DEF two
      <4> QED BY <1>0, <1>1, <3>1, <3>3, <3>4
    <3> QED BY <2>2, <3>5
  <2> QED BY <2>1, <2>2
<1>19. ASSUME NEW x \in Nat, l < x, Due(s, x) PROVE At(d, s) <= x
  <2> DEFINE e == DayOf(x)
             its == MonthOf(x)
  <2>1. /\ x = At(e, s) /\ e \in Nat /\ DayOf(l) <= e
        /\ its \in MonthStarts /\ its \in Nat /\ its <= e /\ e = MonthDay(its, s)
        /\ \A k \in MonthStarts : k <= e => k <= its
    <3>1. x = At(e, s) /\ e \in Nat /\ DayOf(l) <= e
      BY <1>1, <1>19, DueIsAt, DayIs, DayGrows
    <3>2. /\ its \in MonthStarts /\ its \in Nat /\ its <= e
          /\ \A k \in MonthStarts : k <= e => k <= its
      BY MonthIs
    <3>3. e = MonthDay(its, s)
      BY <1>19 DEF Due
    <3> QED BY <3>1, <3>2, <3>3
  <2> HIDE DEF e, its
  <2>2. month <= its
    BY <1>1, <2>1
  <2>3. d <= e
    <3>1. CASE At(one, s) > l
      <4>1. d = one
        BY <3>1
      <4>2. CASE its = month
        BY <1>9, <2>1, <4>1, <4>2
      <4>3. CASE its # month
        <5>1. next <= its
          BY <1>1, <1>4, <2>1, <2>2, <4>3
        <5> QED BY <1>4, <1>9, <2>1, <4>1, <5>1
      <4> QED BY <4>2, <4>3
    <3>2. CASE ~(At(one, s) > l)
      <4>1. d = two
        BY <3>2
      <4>2. its # month
        BY <1>1, <1>9, <1>19, <2>1, <3>2, AtIs
      <4>3. next <= its
        BY <1>1, <1>4, <2>1, <2>2, <4>2
      <4>4. CASE its = next
        BY <1>10, <2>1, <4>1, <4>4
      <4>5. CASE its # next
        <5>1. after <= its
          BY <1>4, <1>8, <2>1, <4>3, <4>5
        <5> QED BY <1>8, <1>10, <2>1, <4>1, <5>1
      <4> QED BY <4>4, <4>5
    <3> QED BY <3>1, <3>2
  <2> HIDE DEF d
  <2>4. (d < e => At(d, s) + DayLength <= At(e, s)) /\ (d = e \/ d < e)
    <3>1. d < e => At(d, s) + DayLength <= At(e, s)
      BY <1>12, <2>1, AtGrows
    <3> QED BY <1>12, <2>1, <2>3, <3>1
  <2> QED BY <1>0, <1>14, <2>1, <2>4
<1>20. Upcoming(s, l, At(d, s))
  BY <1>14, <1>15, <1>17, <1>18, <1>19 DEF Upcoming
<1>21. ~(m > next)
  BY <1>4, <1>11
<1> QED BY <1>13, <1>16, <1>20, <1>21 DEF month
-----------------------------------------------------------------------------
(* next_scheduled_time                                                     *)

\* What NextIsNext asks of a cursor n that was computed at u.
Follows(s, z, u, n) ==
    /\ Occurs(s, z, n)
    /\ \A t \in u + 1 .. n - 1 : ~(Due(s, Wall(z, t)) /\ ~Fold(z, t))

\* The instant of the upcoming reading is an occurrence with none before it.
LEMMA UpcomingFollows ==
    ASSUME NEW s, Timed(s), NEW z \in Zone, NEW u \in 0 .. Horizon, NEW w,
           Upcoming(s, Wall(z, u), w), NEW fold \in BOOLEAN,
           fold => Fold(z, u) /\ ~(MonthOf(w) > NextMonth(MonthOf(Wall(z, u))))
    PROVE  LET n == FromWall(z, w, fold)
           IN /\ n \in Nat
              /\ \/ u < n
                 \/ ~fold /\ Fold(z, u) /\ Repeats(z, n) /\ DayOf(w) = DayOf(Wall(z, u))
              /\ Follows(s, z, u, n)
<1> DEFINE n == FromWall(z, w, fold)
           l == Wall(z, u)
<1>1. u \in Instants /\ u \in Int /\ u >= 0 /\ l \in Nat /\ LastInstant \in Nat
      /\ MaxOffset \in Nat /\ DayLength \in Nat
  BY HorizonIsWithinReach, WallIs, LengthsHold DEF Lengths
<1>2. /\ w \in 0 .. LastInstant /\ l < w /\ Due(s, w) /\ w \in Nat
      /\ \A x \in Nat : l < x /\ Due(s, x) => w <= x
  BY <1>1 DEF Upcoming
<1>3. /\ n \in Instants
      /\ \/ u < n
         \/ ~fold /\ Fold(z, u) /\ Repeats(z, n) /\ DayOf(w) = DayOf(l)
      /\ \A t \in Instants : u < t /\ t < n /\ ~Fold(z, t) =>
            Wall(z, t) < w \/ (w < Wall(z, t) /\ Wall(z, t) < w + DayLength)
  BY <1>1, <1>2, UpcomingInstant
<1>4. w \in n .. n + MaxOffset /\ n \in Nat /\ n <= LastInstant
  BY <1>1, <1>2, <1>3, FromWallIsNear DEF Instants
<1>5. Occurs(s, z, n)
  <2>1. w \in n .. n + 2 * MaxOffset
    BY <1>1, <1>4
  <2> QED BY <1>2, <2>1 DEF Occurs
<1> HIDE DEF n
<1>6. ASSUME NEW t \in u + 1 .. n - 1, Due(s, Wall(z, t)), ~Fold(z, t)
      PROVE  FALSE
  <2>1. t \in Instants /\ u < t /\ t < n /\ t \in Int
    BY <1>1, <1>4 DEF Instants
  <2> DEFINE x == Wall(z, t)
  <2>2. x \in Nat
    BY <2>1, WallIs
  <2>3. l < x
    <3>1. SUFFICES ASSUME l >= x PROVE FALSE
      BY <1>1, <2>2
    <3> QED BY <1>1, <1>6, <2>1, <3>1, NoMoreThanBefore
  <2>4. w <= x
    BY <1>2, <1>6, <2>2, <2>3
  <2>5. x < w \/ (w < x /\ x < w + DayLength)
    BY <1>3, <1>6, <2>1
  <2>6. w < x => w + DayLength <= x
    BY <1>2, <1>6, <2>2, DueApart
  <2> HIDE DEF x
  <2> QED BY <1>1, <1>2, <2>2, <2>4, <2>5, <2>6
<1>7. Follows(s, z, u, n)
  BY <1>5, <1>6 DEF Follows
<1> QED BY <1>3, <1>4, <1>7 DEF n

LEMMA ScheduleIs ==
    ASSUME NEW s \in Schedules
    PROVE  /\ s.kind \in ScheduleKind /\ Timed(s)
           /\ s.kind \in IntervalKinds => s.every \in Nat /\ s.every > 0
           /\ s.kind = "WEEKLY" => s.day \in 0 .. WeekLength - 1
           /\ s.kind = "MONTHLY" => s.day \in Nat \ {0}
<1>1. ValidSchedule(s)
  BY SchedulerAssumption
<1>2. s.kind = "WEEKLY" => s.day \in 0 .. WeekLength - 1
  BY <1>1 DEF ValidSchedule
<1>3. s.kind = "MONTHLY" => s.day \in 1 .. ShortestMonth
  BY <1>1 DEF ValidSchedule
<1>4. \A k : s.day \in 1 .. k => s.day \in Nat \ {0}
  OBVIOUS
<1> QED BY <1>1, <1>2, <1>3, <1>4 DEF ValidSchedule, Timed

\* A cursor that next_scheduled_time may leave.
Good(s, z, u, n) ==
    /\ n \in Nat
    /\ u < n \/ (s.kind = "WEEKLY" /\ Repeats(z, n))
    /\ OnCalendar(s) => Follows(s, z, u, n)

LEMMA DailyIsGood ==
    ASSUME NEW s \in Schedules, s.kind = "DAILY", NEW z \in Zone, NEW u \in 0 .. Horizon
    PROVE  Good(s, z, u, NextDaily(s, u, z))
<1> DEFINE l == Wall(z, u)
           w == DailyReading(s, l)
           today == At(DayOf(l), s)
           fold == IF today > l THEN Fold(z, u) ELSE FALSE
<1>1. Timed(s) /\ u \in Instants /\ WithinReach(l) /\ l \in Nat /\ DayOf(l) \in Nat
  BY ScheduleIs, HorizonIsWithinReach, WallIs, DayIs
<1>2. /\ Upcoming(s, l, w)
      /\ today > l => DayOf(w) = DayOf(l)
      /\ ~(today > l) => DayOf(w) = DayOf(l) + 1
  BY <1>1, DailyIsUpcoming
<1>3. NextDaily(s, u, z) = FromWall(z, w, fold)
  BY DEF NextDaily, DailyReading
<1>4. fold \in BOOLEAN
  BY DEF Fold
<1>5. ASSUME fold PROVE Fold(z, u) /\ ~(MonthOf(w) > NextMonth(MonthOf(l)))
  <2>1. today > l /\ Fold(z, u)
    BY <1>5
  <2>2. DayOf(w) = DayOf(l)
    BY <1>2, <2>1
  <2>3. MonthOf(w) = MonthOf(l)
    BY <2>2 DEF MonthOf
  <2>4. MonthOf(l) \in Nat /\ \E k \in MonthStarts : k > MonthOf(l)
    <3>1. MonthOf(l) \in Nat /\ MonthOf(l) <= DayOf(l)
      BY <1>1, MonthIs
    <3>2. PICK m \in MonthStarts : DayOf(l) < m
      BY <1>1 DEF WithinReach
    <3>3. m \in Nat
      BY CalendarAssumption
    <3> QED BY <1>1, <3>1, <3>2, <3>3
  <2>5. NextMonth(MonthOf(l)) \in Nat /\ NextMonth(MonthOf(l)) > MonthOf(l)
    BY <2>4, NextMonthIs
  <2> QED BY <2>1, <2>3, <2>4, <2>5
<1> DEFINE n == FromWall(z, w, fold)
<1>6. /\ n \in Nat
      /\ u < n \/ (~fold /\ Fold(z, u) /\ Repeats(z, n) /\ DayOf(w) = DayOf(l))
      /\ Follows(s, z, u, n)
  <2> HIDE DEF w, fold
  <2> QED BY <1>1, <1>2, <1>4, <1>5, UpcomingFollows
<1>7. u < n
  <2>1. CASE today > l
    <3>1. fold = Fold(z, u)
      BY <2>1
    <3> HIDE DEF n, fold
    <3> QED BY <1>6, <3>1
  <2>2. CASE ~(today > l)
    <3> HIDE DEF n, fold
    <3> QED BY <1>1, <1>2, <1>6, <2>2
  <2> QED BY <2>1, <2>2
<1> HIDE DEF n
<1>8. Good(s, z, u, n)
  BY <1>6, <1>7 DEF Good
<1> QED BY <1>3, <1>8 DEF n

LEMMA WeeklyIsGood ==
    ASSUME NEW s \in Schedules, s.kind = "WEEKLY", NEW z \in Zone, NEW u \in 0 .. Horizon
    PROVE  Good(s, z, u, NextWeekly(s, u, z))
<1> DEFINE l == Wall(z, u)
           w == WeeklyReading(s, l)
           n == FromWall(z, w, FALSE)
<1>1. Timed(s) /\ WithinReach(l) /\ s.day \in 0 .. WeekLength - 1
  BY ScheduleIs, HorizonIsWithinReach
<1>2. Upcoming(s, l, w)
  BY <1>1, WeeklyIsUpcoming
<1>3. NextWeekly(s, u, z) = n
  BY DEF NextWeekly, WeeklyReading
<1>4. n \in Nat /\ (u < n \/ Repeats(z, n)) /\ Follows(s, z, u, n)
  <2> HIDE DEF w
  <2> QED BY <1>1, <1>2, UpcomingFollows
<1> HIDE DEF n
<1> QED BY <1>3, <1>4 DEF Good

LEMMA MonthlyIsGood ==
    ASSUME NEW s \in Schedules, s.kind = "MONTHLY", NEW z \in Zone, NEW u \in 0 .. Horizon
    PROVE  Good(s, z, u, NextMonthly(s, u, z))
<1> DEFINE l == Wall(z, u)
           w == MonthlyReading(s, l)
           fold == Fold(z, u)
           n == FromWall(z, w, fold)
<1>1. Timed(s) /\ WithinReach(l) /\ s.day \in Nat \ {0}
  BY ScheduleIs, HorizonIsWithinReach
<1>2. Upcoming(s, l, w) /\ ~(MonthOf(w) > NextMonth(MonthOf(l)))
  BY <1>1, MonthlyIsUpcoming
<1>3. NextMonthly(s, u, z) = n
  BY DEF NextMonthly, MonthlyReading
<1>4. fold \in BOOLEAN
  BY DEF Fold
<1>5. n \in Nat /\ u < n /\ Follows(s, z, u, n)
  <2> HIDE DEF w
  <2> QED BY <1>1, <1>2, <1>4, UpcomingFollows
<1> HIDE DEF n
<1> QED BY <1>3, <1>5 DEF Good
\* The instants among which cron looks for the next one.
Matches(s, z, day) == {FromWall(z, At(d, s), fold) : d \in day .. day + 2, fold \in BOOLEAN}

LEMMA CronIsGood ==
    ASSUME NEW s \in Schedules, s.kind = "CRON", NEW z \in Zone, NEW u \in 0 .. Horizon
    PROVE  Good(s, z, u, NextCron(s, u, z))
<1> DEFINE l == Wall(z, u)
           day == DayOf(l)
           M == Matches(s, z, day)
           S == {t \in M : t > u}
           n == Min(S)
           next == At(day + 1, s)
           m == FromWall(z, next, FALSE)
<1>0. DayLength \in Nat \ {0} /\ MaxOffset \in Nat /\ LastInstant \in Nat
  BY LengthsHold DEF Lengths
<1>1. /\ Timed(s) /\ WithinReach(l) /\ u \in Instants /\ u \in Int /\ u >= 0
      /\ l \in Nat /\ day \in Nat
  BY ScheduleIs, HorizonIsWithinReach, WallIs, DayIs
<1>2. NextCron(s, u, z) = n
  BY DEF NextCron, Matches
<1>3. \A d \in day .. day + 2 : d \in Nat /\ At(d, s) \in 0 .. LastInstant
  <2> TAKE d \in day .. day + 2
  <2>1. d \in Nat /\ d < day + 3
    BY <1>1
  <2> QED BY <1>1, <2>1, ReachIs
<1>4. \A t \in M : \E d \in day .. day + 2, fold \in BOOLEAN : t = FromWall(z, At(d, s), fold)
  BY DEF Matches
<1>5. \A d \in day .. day + 2, fold \in BOOLEAN : FromWall(z, At(d, s), fold) \in M
  BY DEF Matches
<1> HIDE DEF M, day
<1>6. M \subseteq Int
  BY <1>3, <1>4, FromWallIsNear
<1>7. /\ next \in 0 .. LastInstant /\ l < next /\ DayOf(next) = day + 1
      /\ next \in Nat /\ day + 1 \in day .. day + 2
  <2>1. day + 1 \in day .. day + 2 /\ day + 1 \in Nat
    BY <1>1
  <2>2. next \in 0 .. LastInstant /\ DayOf(next) = day + 1 /\ next \in Nat
    BY <1>1, <1>3, <2>1, AtIs
  <2>3. l < day * DayLength + DayLength /\ day * DayLength \in Nat
    BY <1>1, DayIs DEF day
  <2>4. day * DayLength <= At(day, s) /\ At(day, s) \in Nat
    BY <1>1, AtIs
  <2>5. At(day, s) + DayLength <= next
    BY <1>1, <2>1, AtGrows
  <2> QED BY <1>0, <1>1, <2>1, <2>2, <2>3, <2>4, <2>5
<1>8. /\ m \in Instants /\ u < m
      /\ \A t \in Instants : u < t /\ t < m /\ ~Fold(z, t) =>
            Wall(z, t) < next \/ (next < Wall(z, t) /\ Wall(z, t) < next + DayLength)
  <2>1. DayOf(next) # DayOf(l)
    BY <1>1, <1>7 DEF day
  <2> HIDE DEF next
  <2> QED BY <1>1, <1>7, <2>1, UpcomingInstant
<1>9. m \in S
  BY <1>5, <1>7, <1>8
<1>10. S \in SUBSET Nat
  <2>1. ASSUME NEW t \in S PROVE t \in Nat
    <3>1. t \in M /\ t > u
      OBVIOUS
    <3>2. t \in Int
      BY <1>6, <3>1
    <3> QED BY <1>1, <3>1, <3>2
  <2> QED BY <2>1
<1>11. n \in S /\ \A t \in S : n <= t
  BY <1>9, <1>10, LeastElement
<1>12. n \in M /\ n \in Nat /\ u < n /\ n <= m
  BY <1>1, <1>9, <1>10, <1>11
<1>13. \A t \in M : u < t => n <= t
  BY <1>1, <1>6, <1>11
<1> HIDE DEF S, n, m
<1>14. Occurs(s, z, n)
  <2>1. PICK d \in day .. day + 2, fold \in BOOLEAN : n = FromWall(z, At(d, s), fold)
    BY <1>4, <1>12
  <2> DEFINE w == At(d, s)
  <2>2. w \in 0 .. LastInstant /\ d \in Nat
    BY <1>3
  <2>3. Due(s, w)
    BY <1>1, <2>2, AtIs DEF Due
  <2>4. w \in n .. n + MaxOffset
    BY <2>1, <2>2, FromWallIsNear
  <2> HIDE DEF w
  <2>5. w \in n .. n + 2 * MaxOffset
    BY <1>0, <1>12, <2>4
  <2>6. FromWall(z, w, fold) = n
    BY <2>1 DEF w
  <2> QED BY <2>3, <2>5, <2>6 DEF Occurs
<1>15. ASSUME NEW t \in u + 1 .. n - 1, Due(s, Wall(z, t)), ~Fold(z, t)
       PROVE  FALSE
  <2> DEFINE x == Wall(z, t)
             d == DayOf(x)
  <2>1. t \in Instants /\ u < t /\ t < n /\ t \in Int /\ t < m
    <3>1. m \in Int /\ m <= LastInstant
      BY <1>8 DEF Instants
    <3> QED BY <1>0, <1>1, <1>12, <3>1 DEF Instants
  <2>2. x \in Nat /\ d \in Nat /\ x = At(d, s)
    BY <1>1, <1>15, <2>1, WallIs, DayIs, DueIsAt
  <2>3. l < x
    <3>1. SUFFICES ASSUME l >= x PROVE FALSE
      BY <1>1, <2>2
    <3> QED BY <1>1, <1>15, <2>1, <3>1, NoMoreThanBefore
  <2>4. day <= d
    BY <1>1, <2>2, <2>3, DayGrows DEF day
  <2>5. x < next \/ (next < x /\ x < next + DayLength)
    BY <1>8, <1>15, <2>1
  <2>6. d \in day .. day + 2
    <3>1. SUFFICES ASSUME day + 1 < d PROVE FALSE
      BY <1>1, <2>2, <2>4
    <3>2. next + DayLength <= At(d, s)
      BY <1>1, <1>7, <2>2, <3>1, AtGrows
    <3> HIDE DEF x, d, next
    <3> QED BY <1>0, <1>7, <2>2, <2>5, <3>2
  <2>7. x \in 0 .. LastInstant
    BY <1>3, <2>2, <2>6
  <2>8. t = FromWall(z, x, FALSE)
    <3> DEFINE v == FromWall(z, x, FALSE)
    <3>1. Showing(z, x) # {}
      BY <2>1, <2>7, ShowingIs
    <3>2. v \in Instants /\ Wall(z, v) = x /\ v <= t
      BY <2>1, <2>7, <3>1, FromWallShown
    <3> HIDE DEF v
    <3>3. ~(v < t)
      BY <1>15, <2>1, <3>2, FoldIs
    <3>4. v \in Int
      BY <3>2, WallIs
    <3>5. t = v
      BY <2>1, <3>2, <3>3, <3>4
    <3> QED BY <3>5 DEF v
  <2>9. t \in M
    BY <1>5, <2>2, <2>6, <2>8
  <2> QED BY <1>12, <1>13, <2>1, <2>9
<1>16. Follows(s, z, u, n)
  BY <1>14, <1>15 DEF Follows
<1> QED BY <1>2, <1>12, <1>16 DEF Good

\* For any calendar: what next_scheduled_time returns is later than the cursor
\* it is given, or a weekly reading in the second pass of a repeated one; and,
\* for days, weeks, months and cron, it is an occurrence with none before it.
THEOREM NextIsGood ==
    ASSUME NEW s \in Schedules, s.kind \notin {"MANUAL", "ONCE"},
           NEW z \in Zone, NEW u \in 0 .. Horizon
    PROVE  NextTime[s][u][z] = next_scheduled_time(s, u, z) /\ Good(s, z, u, NextTime[s][u][z])
<1> DEFINE n == next_scheduled_time(s, u, z)
<1>1. NextTime[s][u][z] = n
  BY DEF NextTime
<1>2. CASE s.kind \in IntervalKinds
  <2>1. n = NextInterval(s, u)
    <3>1. s.kind \notin {"CRON", "DAILY", "WEEKLY", "MONTHLY"}
      BY <1>2 DEF IntervalKinds
    <3> QED BY <1>2, <3>1, Zenon DEF next_scheduled_time
  <2>2. s.every \in Nat /\ s.every > 0
    BY <1>2, ScheduleIs
  <2>3. u \in Nat
    BY SchedulerAssumption
  <2>4. n \in Nat /\ u < n
    BY <2>1, <2>2, <2>3 DEF NextInterval
  <2>5. ~OnCalendar(s)
    BY <1>2 DEF OnCalendar, IntervalKinds, CalendarKinds
  <2>6. Good(s, z, u, n)
    <3> HIDE DEF n
    <3> QED BY <2>4, <2>5 DEF Good
  <2> QED BY <1>1, <2>6
<1>3. CASE s.kind = "CRON"
  <2>1. s.kind \notin IntervalKinds
    BY <1>3 DEF IntervalKinds
  <2>2. n = NextCron(s, u, z)
    BY <1>3, <2>1, Zenon DEF next_scheduled_time
  <2> QED BY <1>1, <1>3, <2>2, CronIsGood
<1>4. CASE s.kind = "DAILY"
  <2>1. s.kind \notin IntervalKinds
    BY <1>4 DEF IntervalKinds
  <2>2. n = NextDaily(s, u, z)
    BY <1>4, <2>1, Zenon DEF next_scheduled_time
  <2> QED BY <1>1, <1>4, <2>2, DailyIsGood
<1>5. CASE s.kind = "WEEKLY"
  <2>1. s.kind \notin IntervalKinds
    BY <1>5 DEF IntervalKinds
  <2>2. n = NextWeekly(s, u, z)
    BY <1>5, <2>1, Zenon DEF next_scheduled_time
  <2> QED BY <1>1, <1>5, <2>2, WeeklyIsGood
<1>6. CASE s.kind = "MONTHLY"
  <2>1. s.kind \notin IntervalKinds
    BY <1>6 DEF IntervalKinds
  <2>2. n = NextMonthly(s, u, z)
    BY <1>6, <2>1, Zenon DEF next_scheduled_time
  <2> QED BY <1>1, <1>6, <2>2, MonthlyIsGood
<1>7. s.kind \in ScheduleKind
  BY ScheduleIs
<1> QED BY <1>2, <1>3, <1>4, <1>5, <1>6, <1>7 DEF ScheduleKind, CalendarKinds
-----------------------------------------------------------------------------
(* The cursors                                                             *)

\* A row as it should be at n in the timezone z, for a schedule that was
\* registered at q and has had o slots since it became ONCE.
Fit(row, n, z, q, o) ==
    LET live == row.exists /\ ~row.archived
        kind == row.schedule.kind
    IN /\ row \in Row /\ q \in Nat /\ q <= n /\ o \in Nat
       /\ live /\ kind # "ONCE" => (row.cursor # Never <=> row.enabled /\ kind # "MANUAL")
       /\ kind = "ONCE" => o <= 1
       /\ kind = "ONCE" /\ row.cursor # Never => o = 0
       /\ ~row.exists => o = 0
       /\ live /\ row.cursor # Never =>
             (kind = "WEEKLY" /\ Repeats(z, row.cursor)) \/ row.cursor >= q
       /\ live /\ OnCalendar(row.schedule) /\ row.cursor # Never /\ row.cursor > n =>
             \E u \in 0 .. n : Follows(row.schedule, z, u, row.cursor)

\* An edit has read enabled under the lock that all who change it take,
\* but for archiving.
SeenIsEnabled == editor # Nobody /\ Live(editor) => profile[editor].enabled = seen

IInv ==
    /\ SchedulerTypeOK
    /\ SeenIsEnabled
    /\ \A p \in Profile : Fit(profile[p], now, zone, since[p], once[p])

LEMMA NeverIsNever == Never \notin Nat /\ NoSchedule.kind = "MANUAL"
BY CalendarAssumption DEF NoSchedule

LEMMA NewCursor ==
    ASSUME NEW s \in Schedules \union {NoSchedule}, s.kind \notin {"MANUAL", "ONCE"},
           NEW z \in Zone, NEW n \in 0 .. Horizon
    PROVE  Good(s, z, n, NextTime[s][n][z])
<1>1. s \in Schedules
  BY NeverIsNever
<1> QED BY <1>1, NextIsGood

\* A cursor that is absent, the present or computed from it.
LEMMA NewRowFits ==
    ASSUME NEW row \in Row, NEW n \in 0 .. Horizon, NEW z \in Zone,
           NEW q \in Nat, q <= n, NEW o \in Nat,
           row.schedule.kind = "ONCE" => o <= 1,
           row.schedule.kind = "ONCE" /\ row.cursor # Never => o = 0,
           ~row.exists => o = 0,
           row.exists /\ ~row.archived /\ row.schedule.kind # "ONCE" =>
              (row.cursor # Never <=> row.enabled /\ row.schedule.kind # "MANUAL"),
           \/ row.cursor \in {Never, n}
           \/ /\ row.schedule.kind \notin {"MANUAL", "ONCE"}
              /\ row.cursor = NextTime[row.schedule][n][z]
    PROVE  Fit(row, n, z, q, o)
<1> DEFINE s == row.schedule
           c == row.cursor
<1>1. n \in Nat /\ s \in Schedules \union {NoSchedule}
  BY SchedulerAssumption DEF Row
<1>2. CASE c \in {Never, n}
  <2>1. c # Never => c >= q /\ ~(c > n)
    BY <1>1, <1>2
  <2> QED BY <2>1 DEF Fit
<1>3. CASE s.kind \notin {"MANUAL", "ONCE"} /\ c = NextTime[s][n][z]
  <2>1. Good(s, z, n, c)
    BY <1>1, <1>3, NewCursor
  <2>2. c >= q \/ (s.kind = "WEEKLY" /\ Repeats(z, c))
    BY <1>1, <2>1 DEF Good
  <2>3. OnCalendar(s) => \E u \in 0 .. n : Follows(s, z, u, c)
    <3>1. n \in 0 .. n
      BY <1>1
    <3> QED BY <2>1, <3>1 DEF Good
  <2> QED BY <1>3, <2>2, <2>3 DEF Fit
<1> QED BY <1>2, <1>3

LEMMA FitLasts ==
    ASSUME NEW row, NEW n \in Nat, NEW z, NEW q, NEW o, Fit(row, n, z, q, o)
    PROVE  Fit(row, n + 1, z, q, o)
<1>1. q <= n + 1
  BY DEF Fit
<1>2. 0 .. n \subseteq 0 .. n + 1
  OBVIOUS
<1>3. row.cursor # Never /\ row.cursor > n + 1 => row.cursor > n
  <2>1. row.cursor # Never => row.cursor \in Nat
    BY DEF Fit, Row
  <2> QED BY <2>1
<1> QED BY <1>1, <1>2, <1>3 DEF Fit

\* The facts that every step starts from.
LEMMA StateIs ==
    ASSUME IInv
    PROVE  /\ now \in 0 .. Horizon /\ now \in Nat /\ zone \in Zone
           /\ profile \in [Profile -> Row]
           /\ slots \in [Profile -> SUBSET (0 .. now)]
           /\ active \subseteq Profile
           /\ editor \in Profile \union {Nobody} /\ seen \in BOOLEAN
           /\ edits \in 0 .. MaxEdits
           /\ since \in [Profile -> Nat] /\ once \in [Profile -> Nat]
           /\ \A p \in Profile : Fit(profile[p], now, zone, since[p], once[p])
BY SchedulerAssumption DEF IInv, SchedulerTypeOK

LEMMA MovedFromNow ==
    ASSUME NEW c \in Nat, NEW n \in Nat, c <= n
    PROVE  Max({c, n}) = n
<1>1. Max({c, n}) \in {c, n} /\ \A y \in {c, n} : y <= Max({c, n})
  BY GreatestElement
<1> QED BY <1>1

\* The first registration of a schedule, or one after a change.
LEMMA RegisteredIs ==
    ASSUME NEW row \in Row, now \in 0 .. Horizon, zone \in Zone,
           NEW c, c = Registered(row)
    PROVE  /\ c \in Nat \union {Never}
           /\ row.schedule.kind # "ONCE" =>
                 (c # Never <=> row.enabled /\ row.schedule.kind # "MANUAL")
           /\ \/ c \in {Never, now}
              \/ /\ row.schedule.kind \notin {"MANUAL", "ONCE"}
                 /\ c = NextTime[row.schedule][now][zone]
<1>1. now \in Nat /\ row.schedule \in Schedules \union {NoSchedule} /\ row.enabled \in BOOLEAN
  BY SchedulerAssumption DEF Row
<1>2. CASE row.schedule.kind = "MANUAL" \/ ~row.enabled
  BY <1>1, <1>2, NeverIsNever DEF Registered
<1>3. CASE ~(row.schedule.kind = "MANUAL" \/ ~row.enabled) /\ row.schedule.kind = "CRON"
  <2>1. c = NextTime[row.schedule][now][zone]
    BY <1>3 DEF Registered
  <2>2. c \in Nat
    BY <1>1, <1>3, <2>1, NewCursor DEF Good
  <2> QED BY <1>3, <2>1, <2>2, NeverIsNever
<1>4. CASE ~(row.schedule.kind = "MANUAL" \/ ~row.enabled) /\ row.schedule.kind # "CRON"
  <2>1. c = now
    BY <1>4 DEF Registered
  <2> QED BY <1>1, <1>4, <2>1, NeverIsNever
<1> QED BY <1>2, <1>3, <1>4

-----------------------------------------------------------------------------
(* The worker                                                              *)

\* The cursor of a row after a tick, and the slot that it is served for.
LEMMA TickMoves ==
    ASSUME IInv, NEW p \in Profile
    PROVE  LET c == TickedCursor(p)
               o == IF p \in Served THEN once[p] + 1 ELSE once[p]
           IN /\ Fit([profile[p] EXCEPT !.cursor = c], now, zone, since[p], o)
              /\ p \in Served =>
                    /\ profile[p].cursor \in 0 .. now
                    /\ \/ c = Never \/ c > now
                       \/ Kind(p) = "WEEKLY" /\ Repeats(zone, c)
<1> DEFINE row == profile[p]
           s == row.schedule
           c == TickedCursor(p)
           new == [row EXCEPT !.cursor = c]
           o == IF p \in Served THEN once[p] + 1 ELSE once[p]
<1>1. /\ now \in 0 .. Horizon /\ now \in Nat /\ zone \in Zone /\ row \in Row
      /\ since[p] \in Nat /\ once[p] \in Nat /\ Fit(row, now, zone, since[p], once[p])
  BY StateIs
<1>2. /\ s \in Schedules \union {NoSchedule} /\ row.cursor \in Nat \union {Never}
      /\ row.exists \in BOOLEAN /\ row.archived \in BOOLEAN /\ row.enabled \in BOOLEAN
      /\ Kind(p) = s.kind /\ since[p] <= now
  BY <1>1 DEF Row, Kind, Fit
<1>3. CASE ~Scheduled(p) \/ (row.cursor # Never /\ ~IsDue(p))
            \/ (row.cursor = Never /\ s.kind = "ONCE")
  <2>1. c = row.cursor
    BY <1>3 DEF TickedCursor
  <2>2. p \notin Served
    BY <1>3 DEF Served, IsDue
  <2>3. new = row
    BY <1>1, <2>1 DEF Row
  <2> QED BY <1>1, <2>2, <2>3
<1>4. CASE Scheduled(p) /\ row.cursor = Never /\ s.kind # "ONCE"
  <2>1. s.kind # "MANUAL" /\ row.exists /\ ~row.archived /\ row.enabled
    BY <1>2, <1>4 DEF Scheduled, Live
  <2> QED BY <1>1, <1>4, <2>1 DEF Fit
<1>5. CASE Scheduled(p) /\ IsDue(p)
  <2>1. /\ row.cursor \in Nat /\ row.cursor <= now /\ row.cursor # Never
        /\ s.kind # "MANUAL" /\ row.exists /\ ~row.archived /\ row.enabled
    BY <1>2, <1>5, NeverIsNever DEF IsDue, Scheduled, Live
  <2>2. MovedFrom(p) = now
    BY <1>1, <2>1, MovedFromNow DEF MovedFrom
  <2>3. row.cursor \in 0 .. now
    BY <1>1, <2>1
  <2>4. o \in Nat /\ (s.kind = "ONCE" => o <= 1)
    BY <1>1, <2>1 DEF Fit
  <2>5. CASE s.kind = "ONCE"
    <3>1. c = Never
      BY <1>5, <2>1, <2>5 DEF TickedCursor
    <3>2. new \in Row /\ new.cursor = Never /\ new.schedule = s /\ new.exists
      BY <1>1, <2>1, <3>1 DEF Row
    <3> HIDE DEF new, o, c, row
    <3>3. Fit(new, now, zone, since[p], o)
      BY <1>1, <1>2, <2>4, <2>5, <3>2, NewRowFits
    <3> QED BY <2>3, <3>1, <3>3 DEF new, o, c, row
  <2>6. CASE s.kind # "ONCE"
    <3>1. c = NextTime[s][now][zone]
      BY <1>5, <2>1, <2>2, <2>6 DEF TickedCursor
    <3>2. Good(s, zone, now, c)
      BY <1>1, <1>2, <2>1, <2>6, <3>1, NewCursor
    <3>3. c \in Nat /\ c # Never /\ (c > now \/ (s.kind = "WEEKLY" /\ Repeats(zone, c)))
      BY <1>1, <3>2, NeverIsNever DEF Good
    <3> HIDE DEF c
    <3>4. /\ new \in Row /\ new.cursor = c /\ new.schedule = s /\ new.exists
          /\ new.enabled /\ ~new.archived
      BY <1>1, <2>1, <3>3 DEF Row
    <3> HIDE DEF new, o, row
    <3>5. Fit(new, now, zone, since[p], o)
      BY <1>1, <1>2, <2>1, <2>4, <2>6, <3>1, <3>3, <3>4, NewRowFits
    <3> QED BY <1>2, <2>3, <3>3, <3>5 DEF new, o, c, row
  <2> QED BY <2>5, <2>6
<1> QED BY <1>3, <1>4, <1>5 DEF IsDue

LEMMA TickKeeps == IInv /\ Tick => IInv'
<1> SUFFICES ASSUME IInv, Tick PROVE IInv'
  OBVIOUS
<1>1. /\ now' = now /\ zone' = zone /\ editor = Nobody /\ editor' = Nobody
      /\ seen' = seen /\ edits' = edits /\ since' = since /\ active' = active \union Served
      /\ profile' = [p \in Profile |-> [profile[p] EXCEPT !.cursor = TickedCursor(p)]]
      /\ slots' = [p \in Profile |->
                    IF p \in Served THEN slots[p] \union {profile[p].cursor} ELSE slots[p]]
      /\ once' = [p \in Profile |-> IF p \in Served THEN once[p] + 1 ELSE once[p]]
  BY DEF Tick
<1>2. \A p \in Profile : Fit(profile'[p], now', zone', since'[p], once'[p])
  BY <1>1, TickMoves
<1>3. Served \subseteq Profile
  BY DEF Served
<1>4. profile' \in [Profile -> Row] /\ once' \in [Profile -> Nat]
  <2>1. \A p \in Profile : profile'[p] \in Row /\ once'[p] \in Nat
    BY <1>2 DEF Fit
  <2> QED BY <1>1, <2>1
<1>5. slots' \in [Profile -> SUBSET (0 .. now)]
  BY <1>1, StateIs, TickMoves
<1>6. SchedulerTypeOK'
  BY <1>1, <1>3, <1>4, <1>5, StateIs DEF SchedulerTypeOK
<1>7. SeenIsEnabled'
  BY <1>1 DEF SeenIsEnabled
<1> QED BY <1>2, <1>6, <1>7 DEF IInv

LEMMA AdvanceKeeps == IInv /\ Advance => IInv'
<1> SUFFICES ASSUME IInv, Advance PROVE IInv'
  OBVIOUS
<1>1. /\ now < Horizon /\ now' = now + 1 /\ zone' = zone /\ profile' = profile
      /\ slots' = slots /\ active' = active /\ editor' = editor /\ seen' = seen
      /\ edits' = edits /\ since' = since /\ once' = once
  BY DEF Advance
<1>2. now \in Nat /\ now' \in 0 .. Horizon /\ 0 .. now \subseteq 0 .. now'
  BY <1>1, StateIs, SchedulerAssumption
<1>3. \A p \in Profile : Fit(profile[p], now + 1, zone, since[p], once[p])
  BY <1>2, StateIs, FitLasts
<1>4. slots \in [Profile -> SUBSET (0 .. now')]
  <2>1. SUBSET (0 .. now) \subseteq SUBSET (0 .. now')
    BY <1>2
  <2> QED BY <2>1, StateIs
<1>5. SchedulerTypeOK'
  BY <1>1, <1>2, <1>4, StateIs DEF SchedulerTypeOK
<1>6. SeenIsEnabled'
  BY <1>1 DEF IInv, SeenIsEnabled, Live
<1> QED BY <1>1, <1>3, <1>5, <1>6 DEF IInv

\* Steps that leave the rows and the time alone.
LEMMA RowsStay ==
    ASSUME IInv, UNCHANGED <<now, zone, profile, slots, since, once>>,
           active' \subseteq Profile, editor' \in Profile \union {Nobody},
           seen' \in BOOLEAN, edits' \in 0 .. MaxEdits, SeenIsEnabled'
    PROVE  IInv'
<1>1. /\ now' = now /\ zone' = zone /\ profile' = profile
      /\ slots' = slots /\ since' = since /\ once' = once
  OBVIOUS
<1>2. SchedulerTypeOK'
  BY <1>1, StateIs DEF SchedulerTypeOK
<1> QED BY <1>1, <1>2, StateIs DEF IInv

LEMMA RunEndsKeeps ==
    ASSUME IInv, NEW p \in Profile, RunEnds(p)
    PROVE  IInv'
<1>1. /\ active' = active \ {p} /\ editor' = editor /\ seen' = seen /\ edits' = edits
      /\ UNCHANGED <<now, zone, profile, slots, since, once>>
  BY DEF RunEnds
<1>2. SeenIsEnabled'
  BY <1>1 DEF IInv, SeenIsEnabled, Live
<1> QED BY <1>1, <1>2, StateIs, RowsStay

-----------------------------------------------------------------------------
(* The bot                                                                 *)

LEMMA OperatesIs ==
    ASSUME IInv, Operates
    PROVE  edits' \in 0 .. MaxEdits
<1>1. edits < MaxEdits /\ edits' = edits + 1 /\ edits \in 0 .. MaxEdits /\ MaxEdits \in Nat
  BY StateIs, SchedulerAssumption DEF Operates
<1> QED BY <1>1

LEMMA RunManuallyKeeps ==
    ASSUME IInv, NEW p \in Profile, RunManually(p)
    PROVE  IInv'
<1>1. /\ active' = active \union {p} /\ editor' = editor /\ seen' = seen /\ Operates
      /\ UNCHANGED <<now, zone, profile, slots, since, once>>
  BY DEF RunManually
<1>2. SeenIsEnabled'
  BY <1>1 DEF IInv, SeenIsEnabled, Live
<1> QED BY <1>1, <1>2, StateIs, RowsStay, OperatesIs

LEMMA BeginEditKeeps ==
    ASSUME IInv, NEW p \in Profile, BeginEdit(p)
    PROVE  IInv'
<1>1. /\ active' = active /\ editor' = p /\ seen' = profile[p].enabled /\ Operates
      /\ UNCHANGED <<now, zone, profile, slots, since, once>>
  BY DEF BeginEdit
<1>2. SeenIsEnabled'
  BY <1>1 DEF SeenIsEnabled
<1>3. seen' \in BOOLEAN
  <2>1. profile[p] \in Row
    BY StateIs
  <2> QED BY <1>1, <2>1 DEF Row
<1> QED BY <1>1, <1>2, <1>3, StateIs, RowsStay, OperatesIs

LEMMA EndEditKeeps == IInv /\ EndEdit => IInv'
<1> SUFFICES ASSUME IInv, EndEdit PROVE IInv'
  OBVIOUS
<1>1. /\ active' = active /\ editor' = Nobody /\ seen' = FALSE /\ edits' = edits
      /\ UNCHANGED <<now, zone, profile, slots, since, once>>
  BY DEF EndEdit
<1>2. SeenIsEnabled'
  BY <1>1 DEF SeenIsEnabled
<1> QED BY <1>1, <1>2, StateIs, RowsStay

\* Steps that write one row.
LEMMA RowKeeps ==
    ASSUME IInv, NEW p \in Profile, NEW new, NEW q, NEW o,
           Fit(new, now, zone, q, o),
           profile' = [profile EXCEPT ![p] = new],
           since' = [since EXCEPT ![p] = q],
           once' = [once EXCEPT ![p] = o],
           UNCHANGED <<now, zone, slots, active>>,
           editor' \in Profile \union {Nobody}, seen' \in BOOLEAN,
           edits' \in 0 .. MaxEdits, SeenIsEnabled'
    PROVE  IInv'
<1>1. now' = now /\ zone' = zone /\ slots' = slots /\ active' = active
  OBVIOUS
<1>2. new \in Row /\ q \in Nat /\ o \in Nat
  BY DEF Fit
<1>3. /\ profile' \in [Profile -> Row]
      /\ since' \in [Profile -> Nat] /\ once' \in [Profile -> Nat]
  BY <1>2, StateIs
<1>4. SchedulerTypeOK'
  BY <1>1, <1>3, StateIs DEF SchedulerTypeOK
<1>5. ASSUME NEW x \in Profile
      PROVE  Fit(profile'[x], now', zone', since'[x], once'[x])
  <2>1. CASE x = p
    <3>1. profile'[x] = new /\ since'[x] = q /\ once'[x] = o
      BY <2>1, StateIs
    <3> QED BY <1>1, <3>1
  <2>2. CASE x # p
    <3>1. profile'[x] = profile[x] /\ since'[x] = since[x] /\ once'[x] = once[x]
      BY <2>2, StateIs
    <3> QED BY <1>1, <3>1, StateIs
  <2> QED BY <2>1, <2>2
<1> QED BY <1>4, <1>5 DEF IInv

LEMMA CreateKeeps ==
    ASSUME IInv, NEW p \in Profile, NEW s \in Schedules, Create(p, s)
    PROVE  IInv'
<1> DEFINE row == [exists |-> TRUE, enabled |-> TRUE, archived |-> FALSE,
                   schedule |-> s, cursor |-> Never]
           c == Registered(row)
           new == [row EXCEPT !.cursor = c]
<1>1. /\ ~profile[p].exists /\ editor = Nobody /\ editor' = editor /\ seen' = seen
      /\ Operates /\ profile' = [profile EXCEPT ![p] = new]
      /\ since' = [since EXCEPT ![p] = now] /\ once' = once
      /\ UNCHANGED <<now, zone, slots, active>>
  BY DEF Create
<1>2. once[p] = 0 /\ now \in 0 .. Horizon /\ now \in Nat /\ zone \in Zone
  BY <1>1, StateIs DEF Fit
<1>3. once' = [once EXCEPT ![p] = 0]
  BY <1>1, <1>2, StateIs
<1>4. row \in Row
  BY DEF Row
<1>5. /\ c \in Nat \union {Never}
      /\ s.kind # "ONCE" => (c # Never <=> s.kind # "MANUAL")
      /\ \/ c \in {Never, now}
         \/ s.kind \notin {"MANUAL", "ONCE"} /\ c = NextTime[s][now][zone]
  <2> HIDE DEF c
  <2>1. row.schedule = s /\ row.enabled
    OBVIOUS
  <2> HIDE DEF row
  <2> QED BY <1>2, <1>4, <2>1, RegisteredIs DEF c
<1> HIDE DEF c
<1>6. /\ new \in Row /\ new.schedule = s /\ new.cursor = c /\ new.exists /\ new.enabled
      /\ ~new.archived
  BY <1>5 DEF Row
<1> HIDE DEF new, row
<1>7. Fit(new, now, zone, now, 0)
  BY <1>2, <1>5, <1>6, NewRowFits
<1>8. SeenIsEnabled'
  BY <1>1 DEF SeenIsEnabled
<1> QED BY <1>1, <1>3, <1>7, <1>8, StateIs, OperatesIs, RowKeeps

LEMMA ToggleKeeps ==
    ASSUME IInv, NEW on \in BOOLEAN, Toggle(on)
    PROVE  IInv'
<1> DEFINE p == editor
           row == profile[p]
           s == row.schedule
           c == ToggledCursor(p, on)
           new == [row EXCEPT !.enabled = on, !.cursor = c]
           fresh == on /\ ~row.enabled /\ s.kind # "ONCE"
           q == IF fresh THEN now ELSE since[p]
           o == once[p]
<1>1. /\ p # Nobody /\ editor' = Nobody /\ seen' = FALSE /\ edits' = edits
      /\ profile' = [profile EXCEPT ![p] = new]
      /\ since' = IF fresh THEN [since EXCEPT ![p] = now] ELSE since
      /\ once' = once /\ UNCHANGED <<now, zone, slots, active>>
  BY DEF Toggle, Kind
<1>2. /\ p \in Profile /\ now \in 0 .. Horizon /\ now \in Nat /\ zone \in Zone
      /\ row \in Row /\ Fit(row, now, zone, since[p], o) /\ since[p] \in Nat /\ o \in Nat
  BY <1>1, StateIs
<1>3. since' = [since EXCEPT ![p] = q] /\ once' = [once EXCEPT ![p] = o]
  BY <1>1, <1>2, StateIs
<1>4. /\ s \in Schedules \union {NoSchedule} /\ row.cursor \in Nat \union {Never}
      /\ row.exists \in BOOLEAN /\ row.archived \in BOOLEAN /\ row.enabled \in BOOLEAN
      /\ since[p] <= now
  BY <1>2 DEF Row, Fit
<1>5. Fit(new, now, zone, q, o)
  <2>1. CASE s.kind = "MANUAL" \/ (~on /\ s.kind # "ONCE")
    <3>1. c = Never
      BY <2>1 DEF ToggledCursor
    <3>2. /\ new \in Row /\ new.schedule = s /\ new.cursor = Never
          /\ new.exists = row.exists /\ new.enabled = on /\ new.archived = row.archived
      BY <1>2, <3>1 DEF Row
    <3>3. q \in Nat /\ q <= now
      BY <1>2, <1>4
    <3>4. (s.kind = "ONCE" => o <= 1) /\ (~row.exists => o = 0)
      BY <1>2 DEF Fit
    <3> HIDE DEF new, q, fresh, row, o
    <3> QED BY <1>2, <1>4, <2>1, <3>2, <3>3, <3>4, NewRowFits
  <2>2. CASE s.kind # "MANUAL" /\ on /\ ~row.enabled /\ s.kind # "ONCE"
    <3> DEFINE read == [row EXCEPT !.enabled = on]
    <3>1. c = Registered(read) /\ q = now
      BY <2>2 DEF ToggledCursor
    <3>2. read \in Row /\ read.schedule = s /\ read.enabled = on
      BY <1>2 DEF Row
    <3> HIDE DEF read, c
    <3>3. /\ c \in Nat \union {Never}
          /\ c # Never
          /\ c \in {Never, now} \/ c = NextTime[s][now][zone]
      BY <1>2, <2>2, <3>1, <3>2, RegisteredIs
    <3>4. /\ new \in Row /\ new.schedule = s /\ new.cursor = c
          /\ new.exists = row.exists /\ new.enabled = on /\ new.archived = row.archived
      BY <1>2, <3>3 DEF Row
    <3>5. ~row.exists => o = 0
      BY <1>2 DEF Fit
    <3>6. q \in Nat /\ q <= now
      BY <1>2, <3>1
    <3> HIDE DEF new, q, fresh, row, o
    <3> QED BY <1>2, <1>4, <2>2, <3>3, <3>4, <3>5, <3>6, NewRowFits
  <2>3. CASE s.kind # "MANUAL" /\ (s.kind = "ONCE" \/ (on /\ row.enabled))
    <3>1. c = row.cursor /\ ~fresh
      BY <2>3 DEF ToggledCursor
    <3>2. /\ new \in Row /\ new.schedule = s /\ new.cursor = row.cursor
          /\ new.exists = row.exists /\ new.enabled = on /\ new.archived = row.archived
      BY <1>2, <3>1 DEF Row
    <3>3. q = since[p]
      BY <3>1
    <3> HIDE DEF new, q, fresh, row
    <3> QED BY <1>2, <1>4, <2>3, <3>2, <3>3 DEF Fit
  <2> QED BY <1>4, <2>1, <2>2, <2>3
<1>6. SeenIsEnabled'
  BY <1>1 DEF SeenIsEnabled
<1>7. editor' \in Profile \union {Nobody} /\ seen' \in BOOLEAN /\ edits' \in 0 .. MaxEdits
  BY <1>1, StateIs
<1> HIDE DEF new, q, o, row, fresh
<1> QED BY <1>1, <1>2, <1>3, <1>5, <1>6, <1>7, RowKeeps

LEMMA UpdateKeeps ==
    ASSUME IInv, NEW s \in Schedules, NEW on \in BOOLEAN, Update(s, on)
    PROVE  IInv'
<1> DEFINE p == editor
           row == profile[p]
           old == row.schedule.kind
           e == UpdatedEnabled(p, on)
           c == UpdatedCursor(p, s, on)
           new == [row EXCEPT !.enabled = e, !.schedule = s, !.cursor = c]
           same == s.kind = "ONCE" /\ old = "ONCE"
           q == IF same THEN since[p] ELSE now
           o == IF same THEN once[p] ELSE 0
<1>1. /\ p # Nobody /\ editor' = Nobody /\ seen' = FALSE /\ edits' = edits
      /\ profile' = [profile EXCEPT ![p] = new]
      /\ IF same THEN since' = since /\ once' = once
         ELSE since' = [since EXCEPT ![p] = now] /\ once' = [once EXCEPT ![p] = 0]
      /\ UNCHANGED <<now, zone, slots, active>>
  BY DEF Update, Kind
<1>2. /\ p \in Profile /\ now \in 0 .. Horizon /\ now \in Nat /\ zone \in Zone
      /\ row \in Row /\ Fit(row, now, zone, since[p], once[p])
      /\ since[p] \in Nat /\ once[p] \in Nat /\ seen \in BOOLEAN
  BY <1>1, StateIs
<1>3. since' = [since EXCEPT ![p] = q] /\ once' = [once EXCEPT ![p] = o]
  BY <1>1, <1>2, StateIs
<1>4. /\ row.cursor \in Nat \union {Never}
      /\ row.exists \in BOOLEAN /\ row.archived \in BOOLEAN /\ row.enabled \in BOOLEAN
      /\ since[p] <= now
  BY <1>2 DEF Row, Fit
<1>5. e \in BOOLEAN
  BY <1>4 DEF UpdatedEnabled
<1>6. row.exists /\ ~row.archived => e = on
  <2>1. Live(p) => row.enabled = seen
    BY <1>1 DEF IInv, SeenIsEnabled
  <2> QED BY <2>1 DEF Live, UpdatedEnabled
<1>7. Fit(new, now, zone, q, o)
  <2>1. CASE same
    <3>1. c = row.cursor /\ q = since[p] /\ o = once[p]
      BY <2>1 DEF UpdatedCursor, Kind
    <3>2. /\ new \in Row /\ new.schedule = s /\ new.cursor = row.cursor
          /\ new.exists = row.exists /\ new.enabled = e /\ new.archived = row.archived
      BY <1>2, <1>5, <3>1 DEF Row
    <3>3. ~OnCalendar(s)
      BY <2>1 DEF OnCalendar, CalendarKinds
    <3> HIDE DEF new, q, o, row, e
    <3> QED BY <1>2, <1>4, <2>1, <3>1, <3>2, <3>3 DEF Fit
  <2>2. CASE ~same
    <3>1. q = now /\ o = 0
      BY <2>2
    <3>2. /\ c \in Nat \union {Never}
          /\ s.kind # "ONCE" => (c # Never <=> on /\ s.kind # "MANUAL")
          /\ \/ c \in {Never, now}
             \/ s.kind \notin {"MANUAL", "ONCE"} /\ c = NextTime[s][now][zone]
      <4>1. CASE s.kind = "MANUAL"
        BY <4>1 DEF UpdatedCursor
      <4>2. CASE s.kind = "ONCE"
        BY <1>2, <2>2, <4>2 DEF UpdatedCursor, Kind
      <4>3. CASE s.kind \notin {"MANUAL", "ONCE"}
        <5> DEFINE read == [row EXCEPT !.schedule = s, !.enabled = on]
        <5>1. c = Registered(read)
          BY <4>3 DEF UpdatedCursor
        <5>2. read \in Row /\ read.schedule = s /\ read.enabled = on
          BY <1>2 DEF Row
        <5> HIDE DEF read, c
        <5> QED BY <1>2, <4>3, <5>1, <5>2, RegisteredIs
      <4> QED BY <4>1, <4>2, <4>3
    <3> HIDE DEF c
    <3>3. /\ new \in Row /\ new.schedule = s /\ new.cursor = c
          /\ new.exists = row.exists /\ new.enabled = e /\ new.archived = row.archived
      BY <1>2, <1>5, <3>2 DEF Row
    <3> HIDE DEF new, q, o, row, e
    <3> QED BY <1>2, <1>4, <1>5, <1>6, <3>1, <3>2, <3>3, NewRowFits
  <2> QED BY <2>1, <2>2
<1>8. SeenIsEnabled'
  BY <1>1 DEF SeenIsEnabled
<1>9. editor' \in Profile \union {Nobody} /\ seen' \in BOOLEAN /\ edits' \in 0 .. MaxEdits
  BY <1>1, StateIs
<1> HIDE DEF new, q, o, row, same
<1> QED BY <1>1, <1>2, <1>3, <1>7, <1>8, <1>9, RowKeeps

LEMMA ArchiveKeeps ==
    ASSUME IInv, NEW p \in Profile, Archive(p)
    PROVE  IInv'
<1> DEFINE row == profile[p]
           new == [row EXCEPT !.enabled = FALSE, !.archived = TRUE]
           q == since[p]
           o == once[p]
<1>1. /\ profile' = [profile EXCEPT ![p].enabled = FALSE, ![p].archived = TRUE]
      /\ UNCHANGED <<now, zone, slots, active>> /\ editor' = editor /\ seen' = seen
      /\ edits' = edits /\ since' = since /\ once' = once
  BY DEF Archive
<1>2. /\ row \in Row /\ Fit(row, now, zone, since[p], once[p])
      /\ profile \in [Profile -> Row]
  BY StateIs
<1>3. profile' = [profile EXCEPT ![p] = new]
  BY <1>1, <1>2
<1>4. since' = [since EXCEPT ![p] = q] /\ once' = [once EXCEPT ![p] = o]
  BY <1>1, StateIs
<1>5. /\ new \in Row /\ new.schedule = row.schedule /\ new.cursor = row.cursor
      /\ new.exists = row.exists /\ new.archived
  BY <1>2 DEF Row
<1>6. profile'[p] = new /\ \A x \in Profile \ {p} : profile'[x] = profile[x]
  BY <1>2, <1>3
<1> HIDE DEF new
<1>7. Fit(new, now, zone, q, o)
  BY <1>2, <1>5 DEF Fit
<1>8. SeenIsEnabled'
  <2> SUFFICES ASSUME editor # Nobody, Live(editor)'
               PROVE  profile'[editor].enabled = seen
    BY <1>1 DEF SeenIsEnabled
  <2>1. editor \in Profile
    BY StateIs
  <2>2. profile'[editor].exists /\ ~profile'[editor].archived
    BY <1>1 DEF Live
  <2>3. editor # p
    BY <1>5, <1>6, <2>2
  <2>4. profile'[editor] = profile[editor]
    BY <1>6, <2>1, <2>3
  <2> QED BY <2>2, <2>4 DEF IInv, SeenIsEnabled, Live
<1>9. editor' \in Profile \union {Nobody} /\ seen' \in BOOLEAN /\ edits' \in 0 .. MaxEdits
  BY <1>1, StateIs
<1>10. UNCHANGED <<now, zone, slots, active>>
  BY <1>1
<1> HIDE DEF row, q, o
<1> QED BY <1>3, <1>4, <1>7, <1>8, <1>9, <1>10, RowKeeps

LEMMA SetTimezoneKeeps ==
    ASSUME IInv, NEW z \in Zone, SetTimezone(z)
    PROVE  IInv'
<1>1. /\ editor = Nobody /\ editor' = editor /\ seen' = seen /\ Operates
      /\ now' = now /\ zone' = z /\ slots' = slots /\ active' = active /\ once' = once
      /\ profile' = [p \in Profile |->
                        IF p \in Rezoned
                        THEN [profile[p] EXCEPT !.cursor = NextTime[profile[p].schedule][now][z]]
                        ELSE profile[p]]
      /\ since' = [p \in Profile |-> IF p \in Rezoned THEN now ELSE since[p]]
  BY DEF SetTimezone
<1>2. ASSUME NEW p \in Profile
      PROVE  Fit(profile'[p], now, z, since'[p], once[p])
  <2> DEFINE row == profile[p]
             s == row.schedule
             c == NextTime[s][now][z]
             new == [row EXCEPT !.cursor = c]
  <2>1. /\ now \in 0 .. Horizon /\ now \in Nat /\ row \in Row
        /\ Fit(row, now, zone, since[p], once[p]) /\ once[p] \in Nat
    BY StateIs
  <2>2. s \in Schedules \union {NoSchedule}
    BY <2>1 DEF Row
  <2>3. CASE p \in Rezoned
    <3>1. /\ row.exists /\ ~row.archived /\ row.enabled /\ OnCalendar(s)
      BY <2>3 DEF Rezoned, Live
    <3>2. s.kind \notin {"MANUAL", "ONCE"}
      BY <3>1 DEF OnCalendar, CalendarKinds
    <3>3. profile'[p] = new /\ since'[p] = now
      BY <1>1, <2>3
    <3>4. c \in Nat /\ c # Never
      BY <2>1, <2>2, <3>2, NewCursor, NeverIsNever DEF Good
    <3>5. c = NextTime[s][now][z]
      OBVIOUS
    <3> HIDE DEF c
    <3>6. /\ new \in Row /\ new.schedule = s /\ new.cursor = c /\ new.exists /\ new.enabled
      BY <2>1, <3>1, <3>4 DEF Row
    <3> HIDE DEF new
    <3> QED BY <2>1, <3>2, <3>3, <3>4, <3>5, <3>6, NewRowFits
  <2>4. CASE p \notin Rezoned
    <3>1. profile'[p] = row /\ since'[p] = since[p]
      BY <1>1, <2>4
    <3>2. row.exists /\ ~row.archived /\ OnCalendar(s) => row.cursor = Never
      <4>1. SUFFICES ASSUME row.exists, ~row.archived, OnCalendar(s), row.cursor # Never
                     PROVE  p \in Rezoned
        BY <2>4
      <4>2. s.kind # "ONCE"
        BY <4>1 DEF OnCalendar, CalendarKinds
      <4>3. row.enabled
        BY <2>1, <4>1, <4>2 DEF Fit
      <4> QED BY <4>1, <4>3 DEF Rezoned, Live
    <3>3. s.kind = "WEEKLY" => OnCalendar(s)
      BY DEF OnCalendar, CalendarKinds
    <3>4. Fit(row, now, z, since[p], once[p])
      <4> HIDE DEF row
      <4> QED BY <2>1, <3>2, <3>3 DEF Fit
    <3> QED BY <3>1, <3>4
  <2> QED BY <2>3, <2>4
<1>3. profile' \in [Profile -> Row] /\ since' \in [Profile -> Nat]
  <2>1. \A p \in Profile : profile'[p] \in Row /\ since'[p] \in Nat
    BY <1>2 DEF Fit
  <2> QED BY <1>1, <2>1
<1>4. SchedulerTypeOK'
  BY <1>1, <1>3, StateIs, OperatesIs DEF SchedulerTypeOK
<1>5. SeenIsEnabled'
  BY <1>1 DEF SeenIsEnabled
<1> QED BY <1>1, <1>2, <1>4, <1>5 DEF IInv

-----------------------------------------------------------------------------
(* Theorems                                                                *)

LEMMA InitHolds == Init => IInv
<1> SUFFICES ASSUME Init PROVE IInv
  OBVIOUS
<1> DEFINE row == [exists |-> FALSE, enabled |-> FALSE, archived |-> FALSE,
                   schedule |-> NoSchedule, cursor |-> Never]
<1>1. row \in Row /\ row.schedule.kind = "MANUAL" /\ row.cursor = Never /\ ~row.exists
  BY NeverIsNever DEF Row
<1>2. profile = [p \in Profile |-> row]
  BY DEF Init
<1> HIDE DEF row
<1>3. \A p \in Profile : Fit(profile[p], now, zone, since[p], once[p])
  <2> SUFFICES ASSUME NEW p \in Profile
               PROVE  Fit(profile[p], now, zone, since[p], once[p])
    OBVIOUS
  <2>1. profile[p] = row /\ now = 0 /\ since[p] = 0 /\ once[p] = 0
    BY <1>2 DEF Init
  <2>2. row.schedule.kind # "ONCE"
    BY <1>1
  <2>3. Fit(row, 0, zone, 0, 0)
    BY <1>1, <2>2 DEF Fit
  <2> QED BY <2>1, <2>3
<1>4. SchedulerTypeOK
  <2>1. now \in 0 .. Horizon /\ edits \in 0 .. MaxEdits
    BY SchedulerAssumption DEF Init
  <2> QED BY <1>1, <1>2, <2>1 DEF Init, SchedulerTypeOK
<1>5. SeenIsEnabled
  BY DEF Init, SeenIsEnabled
<1> QED BY <1>3, <1>4, <1>5 DEF IInv

LEMMA NextKeeps == IInv /\ [Next]_vars => IInv'
<1> SUFFICES ASSUME IInv, [Next]_vars PROVE IInv'
  OBVIOUS
<1>1. CASE Tick
  BY <1>1, TickKeeps
<1>2. CASE Advance
  BY <1>2, AdvanceKeeps
<1>3. CASE BotActs
  BY <1>3, BeginEditKeeps, ArchiveKeeps, RunManuallyKeeps, CreateKeeps, SetTimezoneKeeps
     DEF BotActs
<1>4. CASE EditCommits
  BY <1>4, EndEditKeeps, ToggleKeeps, UpdateKeeps DEF EditCommits
<1>5. ASSUME NEW p \in Profile, RunEnds(p) PROVE IInv'
  BY <1>5, RunEndsKeeps
<1>6. CASE UNCHANGED vars
  <2>1. /\ UNCHANGED <<now, zone, profile, slots, since, once>>
        /\ active' = active /\ editor' = editor /\ seen' = seen /\ edits' = edits
    BY <1>6 DEF vars
  <2>2. SeenIsEnabled'
    BY <2>1 DEF IInv, SeenIsEnabled, Live
  <2> QED BY <2>1, <2>2, StateIs, RowsStay
<1> QED BY <1>1, <1>2, <1>3, <1>4, <1>5, <1>6 DEF Next

\* Every cursor is one that _register_schedule, edit or tick would compute from
\* some moment since its schedule was registered, in the timezone stored now.
THEOREM Invariant == Spec => []IInv
<1> QED BY InitHolds, NextKeeps, PTL DEF Spec

\* Live profiles that recur and are enabled, and no others, know when they are
\* due; a ONCE profile has had one slot at most.
THEOREM CursorsAreRight == Spec => []SchedulerInv
<1>1. IInv => SchedulerInv
  <2> SUFFICES ASSUME IInv PROVE SchedulerInv
    OBVIOUS
  <2>1. CursorMatchesSchedule
    BY StateIs DEF CursorMatchesSchedule, Live, Kind, Fit
  <2>2. OnceIsOnce
    BY StateIs DEF OnceIsOnce, Kind, Fit
  <2> QED BY <2>1, <2>2 DEF IInv, SchedulerInv
<1> QED BY <1>1, Invariant, PTL

\* A cursor that lies ahead is an occurrence of the schedule in the timezone
\* stored now and jumps over none, whatever the calendar and the zones.
THEOREM CursorIsTheNext == Spec => []NextIsNext
<1>1. IInv => NextIsNext
  <2> SUFFICES ASSUME IInv, NEW p \in Profile, Live(p), OnCalendar(profile[p].schedule),
                      profile[p].cursor # Never, profile[p].cursor > now
               PROVE  /\ Occurs(profile[p].schedule, zone, profile[p].cursor)
                      /\ \A t \in now + 1 .. profile[p].cursor - 1 :
                            ~(Due(profile[p].schedule, Wall(zone, t)) /\ ~Fold(zone, t))
    BY DEF NextIsNext
  <2> DEFINE s == profile[p].schedule
             c == profile[p].cursor
  <2>1. Fit(profile[p], now, zone, since[p], once[p]) /\ now \in Nat
    BY StateIs
  <2>2. c \in Nat
    BY <2>1 DEF Fit, Row
  <2>3. PICK u \in 0 .. now : Follows(s, zone, u, c)
    BY <2>1 DEF Fit, Live
  <2>4. now + 1 .. c - 1 \subseteq u + 1 .. c - 1
    BY <2>1, <2>2
  <2> QED BY <2>3, <2>4 DEF Follows
<1> QED BY <1>1, Invariant, PTL

\* Nothing is queued or skipped that was due before the last edit, enabling or
\* change of timezone.
THEOREM OwedSinceRegistered == Spec => OnlySinceRegistered
<1> DEFINE A == \A p \in Profile : FellBack(p) \/ \A t \in slots'[p] \ slots[p] : t >= since[p]
<1>1. IInv /\ [Next]_vars => [A]_vars
  <2> SUFFICES ASSUME IInv, Next, NEW p \in Profile, ~FellBack(p),
                      NEW t \in slots'[p] \ slots[p]
               PROVE  t >= since[p]
    OBVIOUS
  <2>1. CASE Tick
    <3>1. slots'[p] = IF p \in Served THEN slots[p] \union {profile[p].cursor} ELSE slots[p]
      BY <2>1 DEF Tick
    <3>2. p \in Served /\ t = profile[p].cursor
      BY <3>1
    <3>3. Live(p) /\ profile[p].cursor # Never
      BY <3>2 DEF Served, Scheduled, IsDue
    <3>4. Fit(profile[p], now, zone, since[p], once[p])
      BY StateIs
    <3> QED BY <3>2, <3>3, <3>4 DEF Fit, FellBack, Live, Kind
  <2>2. CASE ~Tick
    <3>1. slots' = slots
      BY <2>2 DEF Next, Advance, BotActs, EditCommits, RunEnds, BeginEdit, Archive, RunManually,
                  Create, SetTimezone, EndEdit, Toggle, Update
    <3> QED BY <3>1
  <2> QED BY <2>1, <2>2
<1> QED BY <1>1, Invariant, PTL DEF Spec, OnlySinceRegistered

\* A tick serves a profile for one slot and leaves it due in the future,
\* however long the worker was away.
THEOREM NoneIsCaughtUp == Spec => NoCatchUp
<1> DEFINE A == \A p \in Profile : slots'[p] # slots[p] => ~IsDue(p)' \/ FellBack(p)'
<1>1. IInv /\ [Next]_vars => [A]_vars
  <2> SUFFICES ASSUME IInv, Next, NEW p \in Profile, slots'[p] # slots[p]
               PROVE  ~IsDue(p)' \/ FellBack(p)'
    OBVIOUS
  <2>1. CASE Tick
    <3> DEFINE c == TickedCursor(p)
    <3>1. /\ slots'[p] = IF p \in Served THEN slots[p] \union {profile[p].cursor} ELSE slots[p]
          /\ profile' = [x \in Profile |-> [profile[x] EXCEPT !.cursor = TickedCursor(x)]]
          /\ now' = now /\ zone' = zone
      BY <2>1 DEF Tick
    <3>2. p \in Served
      BY <3>1
    <3>3. c = Never \/ c > now \/ (Kind(p) = "WEEKLY" /\ Repeats(zone, c))
      BY <3>2, TickMoves
    <3>4. profile[p] \in Row /\ now \in Nat
      BY StateIs
    <3>5. profile'[p].cursor = c /\ profile'[p].schedule = profile[p].schedule
      BY <3>1, <3>4 DEF Row
    <3> HIDE DEF c
    <3>6. c \in Nat \union {Never}
      <4>1. Fit([profile[p] EXCEPT !.cursor = c], now, zone, since[p],
                IF p \in Served THEN once[p] + 1 ELSE once[p])
        BY TickMoves DEF c
      <4>2. [profile[p] EXCEPT !.cursor = c] \in Row
        BY <4>1 DEF Fit
      <4> QED BY <3>4, <4>2 DEF Row
    <3>7. CASE c = Never \/ c > now
      BY <3>1, <3>4, <3>5, <3>6, <3>7 DEF IsDue
    <3>8. CASE c # Never /\ Kind(p) = "WEEKLY" /\ Repeats(zone, c)
      BY <3>1, <3>5, <3>8 DEF FellBack, Kind
    <3> QED BY <3>3, <3>7, <3>8
  <2>2. CASE ~Tick
    <3>1. slots' = slots
      BY <2>2 DEF Next, Advance, BotActs, EditCommits, RunEnds, BeginEdit, Archive, RunManually,
                  Create, SetTimezone, EndEdit, Toggle, Update
    <3> QED BY <3>1
  <2> QED BY <2>1, <2>2
<1> QED BY <1>1, Invariant, PTL DEF Spec, NoCatchUp
=============================================================================
