---------------------------- MODULE DocumentProofs ----------------------------
(***************************************************************************)
(* The documents at the two ends of a run.  The plan: topological_checks   *)
(* is right for every set of checks, what it has ordered never comes       *)
(* before a dependency, and what it leaves over does have a cycle.  The    *)
(* receipt: a date that is written and read back is the same instant, and  *)
(* the verifier accepts a receipt exactly when it is the whole record of a *)
(* run that its policy is meant to accept.                                 *)
(***************************************************************************)
EXTENDS CheckOrder, Verification, FiniteSetTheorems, TLAPS

\* The time limits of the provers, in seconds.
USE SMTT(30), ZenonT(30)

\* The tables as StartOrder leaves them, of checks that depend on checks of the plan
\* (validate_dependencies).
LoopInit ==
    /\ \A c \in Ids : IsFiniteSet(deps[c]) /\ deps[c] \subseteq Ids
    /\ indegree = [c \in Ids |-> Cardinality(deps[c])]
    /\ ready = {c \in Ids : deps[c] = {}}
    /\ ordered = <<>>

LoopSpec == LoopInit /\ [][PopReady]_orderVars

Placed == {ordered[i] : i \in DOMAIN ordered}

(***************************************************************************)
(* When the loop stops short, every check it has not ordered waits for     *)
(* another such check, and DependencyCycle names exactly these: following  *)
(* the dependencies among them never ends, so that there is a cycle.       *)
(***************************************************************************)
LeftoverIsCyclic ==
    ready = {} => /\ Blamed = Ids \ Placed
                  /\ \A c \in Blamed : \E d \in Blamed : d \in deps[c]

(***************************************************************************)
(* A check's indegree is the number of its dependencies that are still to  *)
(* be placed, and it is ready or placed exactly when there are none.       *)
(***************************************************************************)
OrderInv ==
    /\ \A c \in Ids : IsFiniteSet(deps[c]) /\ deps[c] \subseteq Ids
    /\ ordered \in Seq(Ids)
    /\ ready \subseteq Ids \ Placed
    /\ indegree = [c \in Ids |-> Cardinality(deps[c] \ Placed)]
    /\ \A c \in Ids : c \in ready \cup Placed <=> deps[c] \subseteq Placed
    /\ DependenciesComeFirst

-----------------------------------------------------------------------------
\* Counting: nothing is left exactly when the count is zero, and one element less counts one less.
LEMMA Counting ==
  ASSUME NEW S, IsFiniteSet(S)
  PROVE  /\ Cardinality(S) \in Nat
         /\ Cardinality(S) = 0 <=> S = {}
         /\ \A x \in S : Cardinality(S \ {x}) = Cardinality(S) - 1 /\ IsFiniteSet(S \ {x})
BY FS_CardinalityType, FS_EmptySet, FS_RemoveElement

\* The loop starts right.
LEMMA OrderStarts == LoopInit => OrderInv
<1> SUFFICES ASSUME LoopInit PROVE OrderInv
  OBVIOUS
<1>1. Placed = {} /\ ordered \in Seq(Ids) /\ DOMAIN ordered = {}
  BY DEF LoopInit, Placed
<1>2. \A c \in Ids : deps[c] \ Placed = deps[c]
  BY <1>1
<1>3. indegree = [c \in Ids |-> Cardinality(deps[c] \ Placed)]
  BY <1>2, Zenon DEF LoopInit
<1>4. QED
  BY <1>1, <1>3 DEF OrderInv, LoopInit, DependenciesComeFirst

\* Each turn of the loop places one check, whose dependencies are all placed.
LEMMA OrderTurns ==
  ASSUME OrderInv, PopReady
  PROVE  OrderInv'
<1> DEFINE Children(x) == {c \in Ids : x \in deps[c]}
<1>1. PICK id \in ready :
        /\ ordered' = Append(ordered, id)
        /\ indegree' = [c \in Ids |-> IF c \in Children(id) THEN indegree[c] - 1 ELSE indegree[c]]
        /\ ready' = (ready \ {id}) \cup {c \in Children(id) : indegree[c] = 1}
        /\ deps' = deps
  BY DEF PopReady
<1>2. /\ id \in Ids /\ id \notin Placed /\ deps[id] \subseteq Placed
      /\ Ids' = Ids /\ ordered \in Seq(Ids)
  BY <1>1 DEF OrderInv, Ids
<1>3. ordered' \in Seq(Ids') /\ Placed' = Placed \cup {id}
  <2>1. /\ DOMAIN ordered' = 1..(Len(ordered) + 1) /\ DOMAIN ordered = 1..Len(ordered)
        /\ Len(ordered) \in Nat
        /\ \A i \in 1..Len(ordered) : ordered'[i] = ordered[i]
        /\ ordered'[Len(ordered) + 1] = id
    BY <1>1, <1>2
  <2>2. Placed' \subseteq Placed \cup {id}
    BY <2>1 DEF Placed
  <2>3. Placed \cup {id} \subseteq Placed'
    BY <2>1 DEF Placed
  <2>4. QED
    BY <1>1, <1>2, <2>2, <2>3
<1>4. ASSUME NEW c \in Ids
      PROVE  /\ IsFiniteSet(deps[c] \ Placed) /\ Cardinality(deps[c] \ Placed) \in Nat
             /\ c \in Children(id) =>
                  /\ Cardinality(deps[c] \ Placed') = Cardinality(deps[c] \ Placed) - 1
                  /\ Cardinality(deps[c] \ Placed) = 1 <=> deps[c] \subseteq Placed'
             /\ c \notin Children(id) => deps[c] \ Placed' = deps[c] \ Placed
  <2>1. IsFiniteSet(deps[c] \ Placed)
    BY FS_Subset DEF OrderInv
  <2>2. CASE c \in Children(id)
    <3>1. id \in deps[c] \ Placed /\ deps[c] \ Placed' = (deps[c] \ Placed) \ {id}
      BY <1>2, <1>3, <2>2
    <3>2. /\ Cardinality(deps[c] \ Placed') = Cardinality(deps[c] \ Placed) - 1
          /\ IsFiniteSet(deps[c] \ Placed') /\ Cardinality(deps[c] \ Placed) \in Nat
      BY <2>1, <3>1, Counting
    <3>3. Cardinality(deps[c] \ Placed') = 0 <=> deps[c] \ Placed' = {}
      BY <3>2, Counting
    <3>4. QED
      BY <2>1, <2>2, <3>2, <3>3
  <2>3. CASE c \notin Children(id)
    BY <1>3, <2>1, <2>3, Counting
  <2>4. QED
    BY <2>2, <2>3
<1>5. indegree' = [c \in Ids' |-> Cardinality(deps'[c] \ Placed')]
  BY <1>1, <1>2, <1>4, Zenon DEF OrderInv
<1>6. ready' \subseteq Ids' \ Placed'
  <2>1. ASSUME NEW c \in Children(id), indegree[c] = 1 PROVE c \notin Placed /\ c # id
    <3>1. ~(deps[c] \subseteq Placed)
      BY <1>2, <2>1
    <3>2. c \notin Placed
      BY <2>1, <3>1 DEF OrderInv
    <3>3. QED
      BY <1>2, <3>1, <3>2
  <2>2. QED
    BY <1>1, <1>2, <1>3, <2>1 DEF OrderInv
<1>7. \A c \in Ids' : c \in ready' \cup Placed' <=> deps'[c] \subseteq Placed'
  <2> SUFFICES ASSUME NEW c \in Ids PROVE c \in ready' \cup Placed' <=> deps[c] \subseteq Placed'
    BY <1>1, <1>2
  <2>1. indegree[c] = Cardinality(deps[c] \ Placed)
    BY DEF OrderInv
  <2>2. c \in ready \cup Placed <=> deps[c] \subseteq Placed
    BY DEF OrderInv
  <2>3. CASE c \in Children(id)
    <3>1. c \notin ready \cup Placed
      BY <1>2, <2>2, <2>3
    <3>2. c \in ready' \cup Placed' <=> indegree[c] = 1
      BY <1>1, <1>3, <2>3, <3>1
    <3>3. QED
      BY <1>4, <2>1, <2>3, <3>2, Zenon
  <2>4. CASE c \notin Children(id)
    <3>1. c \in ready' \cup Placed' <=> c \in ready \cup Placed
      BY <1>1, <1>3, <2>4
    <3>2. QED
      BY <1>3, <2>2, <2>4, <3>1
  <2>5. QED
    BY <2>3, <2>4
<1>8. DependenciesComeFirst'
  <2> SUFFICES ASSUME NEW i \in DOMAIN ordered', NEW d \in deps[ordered'[i]]
               PROVE  \E j \in 1..(i - 1) : ordered'[j] = d
    BY <1>1, Zenon DEF DependenciesComeFirst
  <2>1. /\ DOMAIN ordered' = 1..(Len(ordered) + 1) /\ DOMAIN ordered = 1..Len(ordered)
        /\ Len(ordered) \in Nat
        /\ \A k \in 1..Len(ordered) : ordered'[k] = ordered[k]
        /\ ordered'[Len(ordered) + 1] = id
    BY <1>1, <1>2
  <2>2. CASE i \in DOMAIN ordered
    <3>1. PICK j \in 1..(i - 1) : ordered[j] = d
      BY <2>1, <2>2 DEF OrderInv, DependenciesComeFirst
    <3>2. QED
      BY <2>1, <2>2, <3>1
  <2>3. CASE i = Len(ordered) + 1
    <3>1. d \in Placed
      BY <1>2, <2>1, <2>3
    <3>2. PICK j \in 1..Len(ordered) : ordered[j] = d
      BY <2>1, <3>1 DEF Placed
    <3>3. QED
      BY <2>1, <2>3, <3>2
  <2>4. QED
    BY <2>1, <2>2, <2>3
<1>9. QED
  BY <1>1, <1>2, <1>3, <1>5, <1>6, <1>7, <1>8 DEF OrderInv

\* OrderInv holds at every turn.
LEMMA OrderInvariance == LoopSpec => []OrderInv
<1>1. ASSUME OrderInv, [PopReady]_orderVars PROVE OrderInv'
  <2>1. CASE UNCHANGED orderVars
    <3>1. deps' = deps /\ indegree' = indegree /\ ready' = ready /\ ordered' = ordered
      BY <2>1 DEF orderVars
    <3>2. Ids' = Ids /\ Placed' = Placed /\ (DependenciesComeFirst' <=> DependenciesComeFirst)
      BY <3>1 DEF Ids, Placed, DependenciesComeFirst
    <3>3. QED
      BY <1>1, <3>1, <3>2 DEF OrderInv
  <2>2. QED
    BY <1>1, <2>1, OrderTurns
<1>2. QED
  BY <1>1, OrderStarts, PTL DEF LoopSpec

(***************************************************************************)
(* At no turn of the loop does a check come before one it depends on,      *)
(* however many checks there are and whatever they depend on               *)
(* (topological_checks).                                                   *)
(***************************************************************************)
THEOREM DependenciesFirst == LoopSpec => []DependenciesComeFirst
<1>1. OrderInv => DependenciesComeFirst
  BY DEF OrderInv
<1>2. QED
  BY <1>1, OrderInvariance, PTL

(***************************************************************************)
(* A configuration is refused with DependencyCycle only if the checks it   *)
(* names wait for each other (topological_checks).                         *)
(***************************************************************************)
THEOREM CycleNamed == LoopSpec => []LeftoverIsCyclic
<1>1. ASSUME OrderInv PROVE LeftoverIsCyclic
  <2> SUFFICES ASSUME ready = {} PROVE /\ Blamed = Ids \ Placed
                                       /\ \A c \in Blamed : \E d \in Blamed : d \in deps[c]
    BY DEF LeftoverIsCyclic
  <2>1. \A c \in Ids : /\ indegree[c] = Cardinality(deps[c] \ Placed)
                       /\ c \in Placed <=> deps[c] \subseteq Placed
                       /\ deps[c] \subseteq Ids
    BY <1>1 DEF OrderInv
  <2>2. ASSUME NEW c \in Ids PROVE indegree[c] > 0 <=> c \notin Placed
    <3>1. IsFiniteSet(deps[c] \ Placed)
      BY <1>1, FS_Subset DEF OrderInv
    <3>2. /\ Cardinality(deps[c] \ Placed) \in Nat
          /\ Cardinality(deps[c] \ Placed) = 0 <=> deps[c] \ Placed = {}
      BY <3>1, Counting
    <3>3. QED
      BY <2>1, <3>2
  <2>3. Blamed = Ids \ Placed
    BY <2>2 DEF Blamed
  <2>4. \A c \in Ids \ Placed : \E d \in Ids \ Placed : d \in deps[c]
    BY <2>1, Zenon
  <2>5. QED
    BY <2>3, <2>4
<1>2. QED
  BY <1>1, OrderInvariance, PTL

-----------------------------------------------------------------------------
\* Division by a constant of the calendar; the quotient has a name, which the provers need.
LEMMA Quotient ==
  ASSUME NEW n \in Nat,
         NEW k \in {4, 5, 60, 100, 153, 365, 400, 1460, 3600, 36524, 86400, 146096, 146097},
         NEW q, q = n \div k
  PROVE  q \in Nat /\ k * q <= n /\ n < k * q + k
  OBVIOUS

\* Division with remainder.
LEMMA Remainder ==
  ASSUME NEW n \in Nat, NEW k \in {60, 3600, 86400}, NEW q, q = n \div k, NEW r, r = n % k
  PROVE  q \in Nat /\ r \in Nat /\ r < k /\ n = k * q + r
<1>1. q \in Nat /\ k * q <= n /\ n < k * q + k
  BY Quotient
<1>2. PICK d \in Nat : d < k /\ n = k * q + d
  <2>1. n - k * q \in Nat /\ n - k * q < k /\ n = k * q + (n - k * q)
    BY <1>1
  <2>2. QED
    BY <2>1
<1>3. n % k = d
  BY <1>1, <1>2
<1>4. QED
  BY <1>1, <1>2, <1>3

\* The hours, minutes and seconds of a day make up its seconds (format_utc).
LEMMA TimeOfDay ==
  ASSUME NEW s \in Nat, NEW h, NEW m, NEW v,
         h = s \div 3600, m = (s % 3600) \div 60, v = s % 60
  PROVE  h \in Nat /\ m \in Nat /\ v \in Nat /\ s = 3600 * h + 60 * m + v
<1>1. PICK u : u = s % 3600
  OBVIOUS
<1>2. PICK w : w = u % 60
  OBVIOUS
<1>3. h \in Nat /\ u \in Nat /\ s = 3600 * h + u
  BY <1>1, Remainder
<1>4. m \in Nat /\ w \in Nat /\ u = 60 * m + w /\ w < 60
  BY <1>1, <1>2, <1>3, Remainder
<1>5. PICK x \in Nat : x = 60 * h + m /\ s = 60 * x + w
  <2>1. 60 * h + m \in Nat /\ s = 60 * (60 * h + m) + w
    BY <1>3, <1>4
  <2>2. QED
    BY <2>1
<1>6. s % 60 = w
  BY <1>4, <1>5
<1>7. QED
  BY <1>3, <1>4, <1>6

\* The day of the year of a day of an era.
DayOfYear(doe) == doe - DaysBeforeYear(YearOfEra(doe))

\* Days and months of a year that begins in March.
YearDays == {d \in Nat : d <= 366}
YearMonths == {m \in Nat : m <= 11}

\* The leap years before a year of an era.
LEMMA LeapYears ==
  ASSUME NEW n \in Nat, NEW q, NEW h, q = n \div 4, h = n \div 100
  PROVE  /\ q \in Nat /\ 4 * q <= n /\ n < 4 * q + 4
         /\ h \in Nat /\ 100 * h <= n /\ n < 100 * h + 100
<1>1. q \in Nat /\ 4 * q <= n /\ n < 4 * q + 4
  BY Quotient
<1>2. h \in Nat /\ 100 * h <= n /\ n < 100 * h + 100
  BY Quotient
<1>3. QED
  BY <1>1, <1>2

\* The year that a day of an era belongs to, and the day of that year.
LEMMA YearBounds ==
  ASSUME NEW doe \in Nat, doe < EraDays
  PROVE  /\ YearOfEra(doe) \in Nat /\ YearOfEra(doe) < EraYears
         /\ DaysBeforeYear(YearOfEra(doe)) \in Int /\ DayOfYear(doe) \in YearDays
<1> DEFINE a == doe \div 1460
           b == doe \div 36524
           c == doe \div 146096
           n == doe - a + b - c
           y == YearOfEra(doe)
           q == y \div 4
           h == y \div 100
<1>1. a = doe \div 1460 /\ b = doe \div 36524 /\ c = doe \div 146096
  OBVIOUS
<1>2. y = n \div 365
  BY DEF YearOfEra
<1>3. DaysBeforeYear(y) = 365 * y + q - h
  BY DEF DaysBeforeYear
<1>4. q = y \div 4
  OBVIOUS
<1>04. h = y \div 100
  OBVIOUS
<1>5. doe < 146097
  BY DEF EraDays
<1> HIDE DEF a, b, c, y, q, h
<1>6. a \in Nat /\ 1460 * a <= doe /\ doe < 1460 * a + 1460
  BY <1>1, Quotient
<1>7. b \in Nat /\ 36524 * b <= doe /\ doe < 36524 * b + 36524
  BY <1>1, Quotient
<1>8. c \in Nat /\ 146096 * c <= doe /\ doe < 146096 * c + 146096
  BY <1>1, Quotient
<1>9. n \in Nat /\ n = doe - a + b - c
  BY <1>6, <1>7, <1>8
<1> HIDE DEF n
<1>10. y \in Nat /\ 365 * y <= n /\ n < 365 * y + 365
  BY <1>2, <1>9, Quotient
<1>11. /\ q \in Nat /\ 4 * q <= y /\ y < 4 * q + 4
       /\ h \in Nat /\ 100 * h <= y /\ y < 100 * h + 100
  <2>1. y \in Nat
    BY <1>10
  <2>2. QED
    BY <1>4, <1>04, <2>1, LeapYears
<1>13. y < 400
  BY <1>5, <1>6, <1>7, <1>8, <1>9, <1>10
<1>14. DaysBeforeYear(y) \in Int
  BY <1>3, <1>10, <1>11
<1>15. doe - (365 * y + q - h) \in Nat /\ doe - (365 * y + q - h) <= 366
  BY <1>5, <1>6, <1>7, <1>8, <1>9, <1>10, <1>11
<1>16. DayOfYear(doe) = doe - (365 * y + q - h)
  BY <1>3 DEF DayOfYear, y
<1>17. DayOfYear(doe) \in YearDays
  BY <1>15, <1>16 DEF YearDays
<1>18. y < EraYears
  BY <1>13 DEF EraYears
<1>19. QED
  BY <1>10, <1>14, <1>17, <1>18, Zenon DEF y

\* The month that a day of a year belongs to.
LEMMA MonthBounds ==
  ASSUME NEW doy \in YearDays
  PROVE  MonthOfYear(doy) \in YearMonths
<1> DEFINE n == 5 * doy + 2
           mp == MonthOfYear(doy)
<1>1. n \in Nat /\ n <= 1832
  BY DEF YearDays
<1>2. mp = n \div 153
  BY DEF MonthOfYear
<1> HIDE DEF n, mp
<1>3. mp \in Nat /\ 153 * mp <= n
  BY <1>1, <1>2, Quotient
<1>4. mp \in YearMonths
  BY <1>1, <1>3 DEF YearMonths
<1>5. QED
  BY <1>4 DEF mp

\* A date, taken apart.
LEMMA DateFields ==
  ASSUME NEW n \in Nat
  PROVE  \E era \in Nat, y \in Nat, doy \in YearDays, mp \in YearMonths :
           /\ CivilFromDays(n) = <<y + era * EraYears + (IF MonthNumber(mp) <= 2 THEN 1 ELSE 0),
                                   MonthNumber(mp), doy - DaysBeforeMonth(mp) + 1>>
           /\ y < EraYears /\ DaysBeforeYear(y) \in Int
           /\ n = era * EraDays + (DaysBeforeYear(y) + doy) - EpochDay
<1> DEFINE shifted == n + EpochDay
           era == shifted \div EraDays
           doe == shifted - era * EraDays
           y == YearOfEra(doe)
           doy == doe - DaysBeforeYear(y)
           mp == MonthOfYear(doy)
<1>1. CivilFromDays(n) = <<y + era * EraYears + (IF MonthNumber(mp) <= 2 THEN 1 ELSE 0),
                           MonthNumber(mp), doy - DaysBeforeMonth(mp) + 1>>
  BY Zenon DEF CivilFromDays
<1>2. era = shifted \div EraDays
  BY Zenon
<1>02. doe = shifted - era * EraDays
  BY Zenon
<1>03. shifted = n + EpochDay
  BY Zenon
<1>3. doy = DayOfYear(doe)
  BY Zenon DEF DayOfYear
<1>4. doy = doe - DaysBeforeYear(y)
  BY Zenon
<1> HIDE DEF shifted, era, doe
<1>5. shifted \in Nat
  BY <1>03 DEF EpochDay
<1>6. era \in Nat /\ 146097 * era <= shifted /\ shifted < 146097 * era + 146097
  BY <1>2, <1>5, Quotient DEF EraDays
<1>7. doe \in Nat /\ doe < EraDays
  BY <1>02, <1>5, <1>6 DEF EraDays
<1>8. y \in Nat /\ y < EraYears /\ DaysBeforeYear(y) \in Int /\ DayOfYear(doe) \in YearDays
  BY <1>7, YearBounds, Zenon
<1>9. doy \in YearDays
  BY <1>3, <1>8, Zenon
<1> HIDE DEF y, doy
<1>10. mp \in YearMonths
  BY <1>9, MonthBounds, Zenon
<1> HIDE DEF mp
<1>11. era \in Nat
  BY <1>6
<1>12. n = era * EraDays + (DaysBeforeYear(y) + doy) - EpochDay
  <2>1. doe = DaysBeforeYear(y) + doy
    BY <1>4, <1>7, <1>8
  <2>2. doe = (n + EpochDay) - era * EraDays
    BY <1>02, <1>03
  <2>3. QED
    BY <1>11, <2>1, <2>2, <1>7 DEF EraDays, EpochDay
<1>13. QED
  BY <1>1, <1>8, <1>9, <1>10, <1>11, <1>12, Zenon

\* The two conversions between days and dates are inverse (civil_from_days, parse_utc_seconds).
LEMMA DaysRoundTrip ==
  ASSUME NEW n \in Nat
  PROVE  \E year, month, day : /\ CivilFromDays(n) = <<year, month, day>>
                               /\ DaysFromCivil(year, month, day) = n
<1>1. PICK era \in Nat, y \in Nat, doy \in YearDays, mp \in YearMonths :
        /\ CivilFromDays(n) = <<y + era * EraYears + (IF MonthNumber(mp) <= 2 THEN 1 ELSE 0),
                                MonthNumber(mp), doy - DaysBeforeMonth(mp) + 1>>
        /\ y < EraYears /\ DaysBeforeYear(y) \in Int
        /\ n = era * EraDays + (DaysBeforeYear(y) + doy) - EpochDay
  BY DateFields, Zenon
<1> DEFINE month == MonthNumber(mp)
           year == y + era * EraYears + (IF month <= 2 THEN 1 ELSE 0)
           day == doy - DaysBeforeMonth(mp) + 1
           f == y + era * EraYears
           sy == IF month <= 2 THEN year - 1 ELSE year
           sm == IF month > 2 THEN month - 3 ELSE month + 9
<1>2. f \in Nat /\ f \div EraYears = era /\ f - era * EraYears = y
  BY <1>1 DEF EraYears
<1>3. month \in Int
  BY DEF MonthNumber, YearMonths
<1>4. sy = f
  <2>1. year = f + (IF month <= 2 THEN 1 ELSE 0)
    BY Zenon
  <2>2. sy = IF month <= 2 THEN year - 1 ELSE year
    BY Zenon
  <2> HIDE DEF f, month, year, sy
  <2>3. QED
    BY <1>2, <1>3, <2>1, <2>2
<1>5. sm = mp
  BY DEF MonthNumber, YearMonths
<1>6. DaysBeforeMonth(mp) \in Int
  BY DEF DaysBeforeMonth, YearMonths
<1>7. DaysBeforeMonth(mp) + day - 1 = doy
  BY <1>6 DEF YearDays
<1>8. CivilFromDays(n) = <<year, month, day>>
  BY <1>1, Zenon
<1>9. DaysFromCivil(year, month, day) =
        (sy \div EraYears) * EraDays
        + (DaysBeforeYear(sy - (sy \div EraYears) * EraYears) + (DaysBeforeMonth(sm) + day - 1))
        - EpochDay
  BY Zenon DEF DaysFromCivil
<1> HIDE DEF month, year, day, f, sy, sm
<1>10. sy \div EraYears = era /\ sy - era * EraYears = y /\ DaysBeforeMonth(sm) + day - 1 = doy
  BY <1>2, <1>4, <1>5, <1>7, Zenon
<1>11. DaysFromCivil(year, month, day) = era * EraDays + (DaysBeforeYear(y) + doy) - EpochDay
  BY <1>9, <1>10, Zenon
<1>12. DaysFromCivil(year, month, day) = n
  BY <1>1, <1>11, Zenon
<1>13. QED
  BY <1>8, <1>12, Zenon

(***************************************************************************)
(* The date that a run writes into its receipt (format_utc of src/run.rs)  *)
(* is read back by the verifier (parse_utc_seconds of src/verify.rs) as    *)
(* the same second, for every instant since 1970: leap days, centuries and *)
(* the turn of a year included.                                            *)
(***************************************************************************)
THEOREM RoundTrip ==
  ASSUME NEW t \in Nat
  PROVE  ParseUtc(FormatUtc(t)) = t
<1> DEFINE n == t \div DaySeconds
           s == t % DaySeconds
           h == s \div 3600
           m == (s % 3600) \div 60
           v == s % 60
<1>1. FormatUtc(t) = CivilFromDays(n) \o <<h, m, v>>
  BY DEF FormatUtc
<1>2. n = t \div 86400 /\ s = t % 86400
  BY DEF DaySeconds
<1>3. h = s \div 3600 /\ m = (s % 3600) \div 60 /\ v = s % 60
  OBVIOUS
<1> HIDE DEF n, s, h, m, v
<1>4. n \in Nat /\ s \in Nat /\ t = 86400 * n + s
  BY <1>2, Remainder
<1>5. h \in Nat /\ m \in Nat /\ v \in Nat /\ s = 3600 * h + 60 * m + v
  BY <1>3, <1>4, TimeOfDay
<1>6. n \in Nat
  BY <1>4
<1>7. PICK year, month, day : /\ CivilFromDays(n) = <<year, month, day>>
                              /\ DaysFromCivil(year, month, day) = n
  BY <1>6, DaysRoundTrip, Zenon
<1> DEFINE d == FormatUtc(t)
<1>8. d = <<year, month, day>> \o <<h, m, v>>
  BY <1>1, <1>7, Zenon
<1> HIDE DEF d
<1>9. d[1] = year /\ d[2] = month /\ d[3] = day /\ d[4] = h /\ d[5] = m /\ d[6] = v
  BY <1>8
<1>10. ParseUtc(d) = n * DaySeconds + h * 3600 + m * 60 + v
  BY <1>7, <1>9 DEF ParseUtc
<1>11. ParseUtc(d) = t
  BY <1>4, <1>5, <1>10 DEF DaySeconds
<1>12. QED
  BY <1>11 DEF d

-----------------------------------------------------------------------------
\* A finding is reported exactly when its condition holds.
LEMMA FoundNone ==
  ASSUME NEW condition \in BOOLEAN, NEW code
  PROVE  Found(condition, code) = {} <=> ~condition
  BY DEF Found

\* The age of a receipt is measured to the second.
LEMMA AgeNone ==
  ASSUME NEW finished \in Nat, NEW now \in Nat, NEW maxAge \in Nat,
         ValidTimestamp(FormatUtc(finished))
  PROVE  AgeFindings(FormatUtc(finished), FormatUtc(now), maxAge) = {}
           <=> now - finished \in 0..maxAge
<1>1. ParseUtc(FormatUtc(finished)) = finished /\ ParseUtc(FormatUtc(now)) = now
  BY RoundTrip
<1>2. AgeFindings(FormatUtc(finished), FormatUtc(now), maxAge) =
        IF now - finished < 0 THEN {"future_receipt"}
        ELSE IF now - finished > maxAge THEN {"stale_receipt"} ELSE {}
  BY <1>1 DEF AgeFindings
<1>3. now - finished \in Int
  OBVIOUS
<1>4. QED
  BY <1>2, <1>3

\* What a receipt says of its checks, and of one row of the plan.
ChecksOf(checks, r, row) ==
    /\ DOMAIN checks = DOMAIN row.plan.checks
    /\ \A i \in DOMAIN checks :
         /\ checks[i].id = row.plan.checks[i].id
         /\ checks[i].required = row.plan.checks[i].required
         /\ checks[i].evidence = r.results[row.plan.checks[i].id]

\* What a receipt says of a run and its row of the plan, apart from the checks.
FieldsOf(c, r, row) ==
    /\ c.project = row.plan.project /\ c.commit = r.commit /\ c.dirty = FALSE
    /\ c.finished = FormatUtc(r.clocks[row.runtime].finished) /\ c.platform = r.platform
    /\ c.image = row.plan.image /\ c.digest = Digest(row.plan) /\ c.producer = r.producer
    /\ c.overall = DeriveStatus(Statuses(c.checks))

\* A row requires a check of this id, or one that ended with this status.
Requires(row, id) ==
    \E i \in DOMAIN row.plan.checks : row.plan.checks[i].required /\ id = row.plan.checks[i].id
EndedWith(row, r, s) ==
    \E i \in DOMAIN row.plan.checks :
        row.plan.checks[i].required /\ s = r.results[row.plan.checks[i].id].status

\* A receipt says of a run what happened in it.
LEMMA CommonFields ==
  ASSUME NEW version, NEW r, NEW row
  PROVE  /\ FieldsOf(Common(version, r, row), r, row)
         /\ ChecksOf(Common(version, r, row).checks, r, row)
<1> DEFINE c == Common(version, r, row)
<1> DEFINE checks == [i \in DOMAIN row.plan.checks |->
                     [id |-> row.plan.checks[i].id, required |-> row.plan.checks[i].required,
                      evidence |-> r.results[row.plan.checks[i].id]]]
<1>1. c = [schema |-> version, producer |-> r.producer, project |-> row.plan.project,
         commit |-> r.commit, dirty |-> FALSE,
         started |-> FormatUtc(r.clocks[row.runtime].started),
         finished |-> FormatUtc(r.clocks[row.runtime].finished),
         platform |-> r.platform, image |-> row.plan.image, digest |-> Digest(row.plan),
         checks |-> checks, overall |-> DeriveStatus(Statuses(checks))]
  BY Zenon DEF Common
<1>2. ChecksOf(checks, r, row)
  BY DEF ChecksOf
<1> HIDE DEF checks, c
<1>3. c.checks = checks
  BY <1>1
<1>4. FieldsOf(c, r, row)
  BY <1>1 DEF FieldsOf
<1>5. QED
  BY <1>2, <1>3, <1>4, Zenon DEF c

\* The checks of a receipt that are required, and their results, are those of the plan.
LEMMA RequiredFields ==
  ASSUME NEW checks, NEW r, NEW row, ChecksOf(checks, r, row)
  PROVE  /\ \A id : id \in IdsRequired(checks) <=> Requires(row, id)
         /\ \A s : s \in Statuses(checks) <=> EndedWith(row, r, s)
  BY DEF IdsRequired, Statuses, Range, ChecksOf, Requires, EndedWith

\* The ids of the checks that a plan requires.
LEMMA RequiredPlan ==
  ASSUME NEW plan
  PROVE  \A id : id \in RequiredIds(plan) <=>
           \E k \in DOMAIN plan : Requires(plan[k], id)
  BY DEF RequiredIds, Range, Requires

\* The results of the required checks, together.
LEMMA StatusPass ==
  ASSUME NEW statuses
  PROVE  /\ (\A s \in statuses : s = "pass") => DeriveStatus(statuses) = "pass"
         /\ DeriveStatus(statuses) = "pass" => "fail" \notin statuses /\ "not_run" \notin statuses
  BY DEF DeriveStatus

-----------------------------------------------------------------------------
\* evaluate_policy finds nothing exactly when the run is the one the policy is meant to accept.
LEMMA SinglePolicy ==
  ASSUME NEW version, NEW r, NEW p, DOMAIN r.plan = {1}, r.finished \in Nat, evaluated \in Nat,
         p.maxAge \in Nat, ValidTimestamp(FormatUtc(r.finished)),
         r.clocks[r.plan[1].runtime].finished = r.finished
  PROVE  EvaluatePolicy(Common(version, r, r.plan[1]), p) = {} <=>
           /\ Digest(r.plan[1].plan) = p.digest /\ r.commit = expected
           /\ r.plan[1].plan.project = p.project /\ r.plan[1].plan.image = p.image
           /\ r.platform \in p.platforms
           /\ RequiredIds(r.plan) = p.required /\ AllRequiredPassed(r)
           /\ evaluated - r.finished \in 0..p.maxAge
<1> DEFINE row == r.plan[1]
           c == Common(version, r, row)
           age == AgeFindings(FormatUtc(r.finished), FormatUtc(evaluated), p.maxAge)
           failing == \E k \in Range(c.checks) : k.id \in p.required /\ k.evidence.status # "pass"
<1>1. FieldsOf(c, r, row) /\ ChecksOf(c.checks, r, row)
  BY CommonFields, Zenon
<1>2. age = {} <=> evaluated - r.finished \in 0..p.maxAge
  BY AgeNone
<1> HIDE DEF age, c, row
<1>3. EvaluatePolicy(c, p) = {} <=>
        /\ c.project = p.project /\ c.commit = expected /\ ~c.dirty /\ c.digest = p.digest
        /\ c.image = p.image /\ c.platform \in p.platforms /\ c.overall = "pass"
        /\ IdsRequired(c.checks) = p.required /\ ~failing
        /\ AgeFindings(c.finished, FormatUtc(evaluated), p.maxAge) = {}
  BY DEF EvaluatePolicy, Found
<1>4. /\ \A id : id \in IdsRequired(c.checks) <=> Requires(row, id)
      /\ \A s : s \in Statuses(c.checks) <=> EndedWith(row, r, s)
  BY <1>1, RequiredFields, Zenon
<1>5. \A id : id \in RequiredIds(r.plan) <=> Requires(row, id)
  BY RequiredPlan, Zenon DEF row
<1>6. IdsRequired(c.checks) = RequiredIds(r.plan)
  BY <1>4, <1>5, Zenon
<1>7. RequiredIds(r.plan) = p.required /\ ~failing => AllRequiredPassed(r)
  BY <1>1, <1>5 DEF ChecksOf, AllRequiredPassed, Range, Requires
<1>8. RequiredIds(r.plan) = p.required /\ AllRequiredPassed(r) => ~failing
  BY <1>1, <1>5 DEF ChecksOf, AllRequiredPassed, Range, Requires
<1>9. AllRequiredPassed(r) => DeriveStatus(Statuses(c.checks)) = "pass"
  <2>1. AllRequiredPassed(r) => \A id : Requires(row, id) => r.results[id].status = "pass"
    BY <1>5, Zenon DEF AllRequiredPassed
  <2>2. \A s : EndedWith(row, r, s) => \E id : Requires(row, id) /\ s = r.results[id].status
    BY Zenon DEF Requires, EndedWith
  <2>3. AllRequiredPassed(r) => \A s \in Statuses(c.checks) : s = "pass"
    BY <1>4, <2>1, <2>2, Zenon
  <2>4. QED
    BY <2>3, StatusPass, Zenon
<1> HIDE DEF failing
<1>10. /\ c.project = row.plan.project /\ c.commit = r.commit /\ c.dirty = FALSE
       /\ c.finished = FormatUtc(r.finished) /\ c.platform = r.platform
       /\ c.image = row.plan.image /\ c.digest = Digest(row.plan)
       /\ c.overall = DeriveStatus(Statuses(c.checks))
  BY <1>1, Zenon DEF FieldsOf, row
<1>11. AgeFindings(c.finished, FormatUtc(evaluated), p.maxAge) = age
  BY <1>10 DEF age
<1>12. EvaluatePolicy(c, p) = {} <=>
           /\ Digest(row.plan) = p.digest /\ r.commit = expected
           /\ row.plan.project = p.project /\ row.plan.image = p.image
           /\ r.platform \in p.platforms
           /\ RequiredIds(r.plan) = p.required /\ AllRequiredPassed(r)
           /\ age = {}
  BY <1>3, <1>6, <1>7, <1>8, <1>9, <1>10, <1>11, Zenon
<1>13. QED
  BY <1>2, <1>12, Zenon DEF c, row

-----------------------------------------------------------------------------
\* A row of a matrix receipt is the receipt of a row of the plan.
LEMMA MatrixFields ==
  ASSUME NEW r, 1 \in DOMAIN r.plan
  PROVE  LET m == ReceiptMatrix(r)
         IN  /\ DOMAIN m.rows = DOMAIN r.plan
             /\ \A k \in DOMAIN r.plan :
                  /\ m.rows[k].runtime = r.plan[k].runtime
                  /\ m.rows[k].receipt.receipt.common = Common("1.0", r, r.plan[k])
             /\ m.project = r.plan[1].plan.project /\ m.commit = r.commit /\ m.dirty = FALSE
             /\ m.finished = FormatUtc(r.finished) /\ m.digest = Digest(r.plan)
             /\ m.overall = DeriveStatus(UNION {Statuses(m.rows[k].receipt.receipt.common.checks) :
                                           k \in DOMAIN m.rows})
<1> DEFINE m == ReceiptMatrix(r)
           rows == [k \in DOMAIN r.plan |->
                      [runtime |-> r.plan[k].runtime,
                       receipt |-> Seal("v1", ReceiptV1(r, r.plan[k]))]]
           first == rows[1].receipt.receipt.common
           overall == DeriveStatus(UNION {Statuses(rows[k].receipt.receipt.common.checks) :
                                           k \in DOMAIN rows})
<1>1. m = [schema |-> "2.0", producer |-> first.producer, project |-> first.project,
         commit |-> first.commit, dirty |-> first.dirty, started |-> FormatUtc(r.started),
         finished |-> FormatUtc(r.finished), digest |-> Digest(r.plan), rows |-> rows,
         overall |-> overall]
  BY Zenon DEF ReceiptMatrix
<1>2. /\ DOMAIN rows = DOMAIN r.plan
      /\ \A k \in DOMAIN r.plan :
           /\ rows[k].runtime = r.plan[k].runtime
           /\ rows[k].receipt.receipt.common = Common("1.0", r, r.plan[k])
  BY DEF Seal, ReceiptV1
<1>3. first = Common("1.0", r, r.plan[1])
  BY <1>2, Zenon
<1>4. overall = DeriveStatus(UNION {Statuses(rows[k].receipt.receipt.common.checks) :
                                           k \in DOMAIN rows})
  BY Zenon
<1> HIDE DEF m, rows, first, overall
<1>5. /\ first.project = r.plan[1].plan.project /\ first.commit = r.commit /\ first.dirty = FALSE
  <2>1. FieldsOf(first, r, r.plan[1])
    BY <1>3, CommonFields, Zenon
  <2>2. QED
    BY <2>1, Zenon DEF FieldsOf
<1>6. /\ m.rows = rows /\ m.project = first.project /\ m.commit = first.commit
      /\ m.dirty = first.dirty /\ m.finished = FormatUtc(r.finished) /\ m.digest = Digest(r.plan)
      /\ m.overall = overall
  BY <1>1
<1>7. /\ DOMAIN m.rows = DOMAIN r.plan
      /\ \A k \in DOMAIN r.plan :
           /\ m.rows[k].runtime = r.plan[k].runtime
           /\ m.rows[k].receipt.receipt.common = Common("1.0", r, r.plan[k])
      /\ m.project = r.plan[1].plan.project /\ m.commit = r.commit /\ m.dirty = FALSE
      /\ m.finished = FormatUtc(r.finished) /\ m.digest = Digest(r.plan)
      /\ m.overall = DeriveStatus(UNION {Statuses(m.rows[k].receipt.receipt.common.checks) :
                                           k \in DOMAIN m.rows})
  BY <1>2, <1>4, <1>5, <1>6, Zenon
<1>8. QED
  BY <1>7, Zenon DEF m

\* Two rows of the plan have different runtimes, as MatrixReceiptV2::validate asks.
Apart(plan) == \A i, j \in DOMAIN plan : plan[i].runtime = plan[j].runtime => i = j

\* What the findings about a matrix receipt come to, in terms of the run.
MatrixAgrees(r, p) ==
    /\ r.plan[1].plan.project = p.project /\ r.commit = expected /\ Digest(r.plan) = p.digest
    /\ {r.plan[i].runtime : i \in DOMAIN r.plan} = DOMAIN p.runtimes
    /\ \A i \in DOMAIN r.plan :
         LET agreed == p.runtimes[r.plan[i].runtime]
         IN  /\ Digest(r.plan[i].plan) = agreed.digest /\ r.plan[i].plan.image = agreed.image
             /\ r.platform \in agreed.platforms
             /\ \A c : Requires(r.plan[i], c) =>
                  c \in DOMAIN p.required /\ p.required[c] = r.plan[i].runtime
    /\ RequiredIds(r.plan) = DOMAIN p.required /\ AllRequiredPassed(r)
    /\ evaluated - r.finished \in 0..p.maxAge

\* The required checks of a matrix receipt are those of the rows of the plan.
LEMMA RequiredRows ==
  ASSUME NEW r, 1 \in DOMAIN r.plan, NEW e
  PROVE  e \in RequiredOf(ReceiptMatrix(r)) <=>
           \E k \in DOMAIN r.plan : \E i \in DOMAIN r.plan[k].plan.checks :
             /\ r.plan[k].plan.checks[i].required
             /\ e = [id |-> r.plan[k].plan.checks[i].id, runtime |-> r.plan[k].runtime,
                     status |-> r.results[r.plan[k].plan.checks[i].id].status]
<1> DEFINE m == ReceiptMatrix(r)
           checks(k) == Common("1.0", r, r.plan[k]).checks
<1>1. /\ DOMAIN m.rows = DOMAIN r.plan
      /\ \A k \in DOMAIN r.plan :
           /\ m.rows[k].runtime = r.plan[k].runtime
           /\ m.rows[k].receipt.receipt.common.checks = checks(k)
  BY MatrixFields, Zenon
<1>2. \A k \in DOMAIN r.plan : ChecksOf(checks(k), r, r.plan[k])
  BY CommonFields, Zenon
<1> HIDE DEF m, checks
<1>3. e \in RequiredOf(m) <=>
        \E k \in DOMAIN m.rows : \E c \in Range(m.rows[k].receipt.receipt.common.checks) :
           /\ c.required
           /\ e = [id |-> c.id, runtime |-> m.rows[k].runtime, status |-> c.evidence.status]
  <2> DEFINE Entry(c, k) == [id |-> c.id, runtime |-> m.rows[k].runtime, status |-> c.evidence.status]
             Of(k) == Range(m.rows[k].receipt.receipt.common.checks)
             Row(k) == {Entry(c, k) : c \in {d \in Of(k) : d.required}}
  <2>1. RequiredOf(m) = UNION {Row(k) : k \in DOMAIN m.rows}
    BY Zenon DEF RequiredOf
  <2>2. \A k : e \in Row(k) <=> \E c \in Of(k) : c.required /\ e = Entry(c, k)
    <3> HIDE DEF Entry, Of
    <3>1. QED
      BY Zenon
  <2> HIDE DEF Row
  <2>3. e \in RequiredOf(m) <=> \E k \in DOMAIN m.rows : e \in Row(k)
    BY <2>1
  <2>4. QED
    BY <2>2, <2>3, Zenon
<1>4. e \in RequiredOf(m) <=>
        \E k \in DOMAIN r.plan : \E c \in Range(checks(k)) :
           /\ c.required
           /\ e = [id |-> c.id, runtime |-> r.plan[k].runtime, status |-> c.evidence.status]
  BY <1>1, <1>3, Zenon
<1>5. ASSUME NEW k \in DOMAIN r.plan
      PROVE  (\E c \in Range(checks(k)) :
                /\ c.required
                /\ e = [id |-> c.id, runtime |-> r.plan[k].runtime, status |-> c.evidence.status])
             <=> \E i \in DOMAIN r.plan[k].plan.checks :
                    /\ r.plan[k].plan.checks[i].required
                    /\ e = [id |-> r.plan[k].plan.checks[i].id, runtime |-> r.plan[k].runtime,
                            status |-> r.results[r.plan[k].plan.checks[i].id].status]
  <2> DEFINE Entry(id, status) == [id |-> id, runtime |-> r.plan[k].runtime, status |-> status]
             planned == r.plan[k].plan.checks
  <2>1. ChecksOf(checks(k), r, r.plan[k])
    BY <1>2
  <2>2. (\E c \in Range(checks(k)) : c.required /\ e = Entry(c.id, c.evidence.status))
        <=> \E i \in DOMAIN planned :
               planned[i].required /\ e = Entry(planned[i].id, r.results[planned[i].id].status)
    <3> DEFINE cs == checks(k)
    <3>1. /\ DOMAIN cs = DOMAIN planned
          /\ \A i \in DOMAIN cs : /\ cs[i].id = planned[i].id
                                  /\ cs[i].required = planned[i].required
                                  /\ cs[i].evidence = r.results[planned[i].id]
      BY <2>1, Zenon DEF ChecksOf
    <3>2. \A c : c \in Range(cs) <=> \E i \in DOMAIN cs : c = cs[i]
      BY DEF Range
    <3> HIDE DEF Entry, cs, planned
    <3>3. (\E c \in Range(cs) : c.required /\ e = Entry(c.id, c.evidence.status))
          <=> \E i \in DOMAIN cs : cs[i].required /\ e = Entry(cs[i].id, cs[i].evidence.status)
      BY <3>2, Zenon
    <3>4. \A i \in DOMAIN planned :
            Entry(cs[i].id, cs[i].evidence.status)
              = Entry(planned[i].id, r.results[planned[i].id].status)
      BY <3>1, Zenon
    <3>5. QED
      BY <3>1, <3>3, <3>4 DEF cs
  <2>3. QED
    BY <2>2, Zenon
<1>6. QED
  BY <1>4, <1>5, Zenon DEF m

\* The row of a matrix receipt for a runtime.
LEMMA RowFound ==
  ASSUME NEW r, 1 \in DOMAIN r.plan, Apart(r.plan), NEW k \in DOMAIN r.plan
  PROVE  RowOf(ReceiptMatrix(r), r.plan[k].runtime) = Common("1.0", r, r.plan[k])
<1> DEFINE m == ReceiptMatrix(r)
           id == r.plan[k].runtime
           j == CHOOSE i \in DOMAIN m.rows : m.rows[i].runtime = id
<1>1. /\ DOMAIN m.rows = DOMAIN r.plan
      /\ \A i \in DOMAIN r.plan :
           /\ m.rows[i].runtime = r.plan[i].runtime
           /\ m.rows[i].receipt.receipt.common = Common("1.0", r, r.plan[i])
  BY MatrixFields, Zenon
<1> HIDE DEF m
<1>2. j \in DOMAIN m.rows /\ m.rows[j].runtime = id
  <2>1. \E i \in DOMAIN m.rows : m.rows[i].runtime = id
    BY <1>1, Zenon
  <2>2. QED
    BY <2>1, Zenon
<1>3. RowOf(m, id) = m.rows[j].receipt.receipt.common
  BY Zenon DEF RowOf
<1> HIDE DEF j
<1>4. j = k
  BY <1>1, <1>2, Zenon DEF Apart
<1>5. QED
  BY <1>1, <1>3, <1>4, Zenon DEF m

\* A row is found to agree with the policy exactly when its plan, image and platform do.
LEMMA RowAgrees ==
  ASSUME NEW r, NEW row, NEW agreed
  PROVE  RowFindings(Common("1.0", r, row), agreed) = {} <=>
           /\ Digest(row.plan) = agreed.digest /\ row.plan.image = agreed.image
           /\ r.platform \in agreed.platforms
<1> DEFINE c == Common("1.0", r, row)
<1>1. FieldsOf(c, r, row)
  BY CommonFields, Zenon
<1> HIDE DEF c
<1>2. c.digest = Digest(row.plan) /\ c.image = row.plan.image /\ c.platform = r.platform
  BY <1>1, Zenon DEF FieldsOf
<1>3. RowFindings(c, agreed) = {} <=>
        c.digest = agreed.digest /\ c.image = agreed.image /\ c.platform \in agreed.platforms
  BY DEF RowFindings, Found
<1>4. QED
  BY <1>2, <1>3, Zenon DEF c

\* evaluate_matrix_policy, finding by finding.
LEMMA MatrixFindings ==
  ASSUME NEW m, NEW p
  PROVE  EvaluateMatrixPolicy(m, p) = {} <=>
           /\ m.project = p.project /\ m.commit = expected /\ ~m.dirty /\ m.digest = p.digest
           /\ m.overall = "pass" /\ RuntimesOf(m) = DOMAIN p.runtimes
           /\ \A id \in RuntimesOf(m) \cap DOMAIN p.runtimes :
                RowFindings(RowOf(m, id), p.runtimes[id]) = {}
           /\ {c.id : c \in RequiredOf(m)} = DOMAIN p.required
           /\ \A c \in RequiredOf(m) : c.id \in DOMAIN p.required =>
                c.runtime = p.required[c.id] /\ c.status = "pass"
           /\ AgeFindings(m.finished, FormatUtc(evaluated), p.maxAge) = {}
<1>1. RuntimeFindings(m, p) = {} <=>
        /\ RuntimesOf(m) = DOMAIN p.runtimes
        /\ \A id \in RuntimesOf(m) \cap DOMAIN p.runtimes :
             RowFindings(RowOf(m, id), p.runtimes[id]) = {}
  BY DEF RuntimeFindings, Found
<1>2. CheckFindings(m, p) = {} <=>
        /\ {c.id : c \in RequiredOf(m)} = DOMAIN p.required
        /\ \A c \in RequiredOf(m) : c.id \in DOMAIN p.required =>
             c.runtime = p.required[c.id] /\ c.status = "pass"
  <2> DEFINE Of(c) == Found(c.runtime # p.required[c.id], "check_runtime")
                      \cup Found(c.runtime = p.required[c.id] /\ c.status # "pass",
                                 "required_check_result")
             some == {d \in RequiredOf(m) : d.id \in DOMAIN p.required}
  <2>1. \A c : Of(c) = {} <=> c.runtime = p.required[c.id] /\ c.status = "pass"
    BY DEF Found
  <2>2. CheckFindings(m, p) = {} <=>
          {c.id : c \in RequiredOf(m)} = DOMAIN p.required /\ \A c \in some : Of(c) = {}
    BY DEF CheckFindings, Found
  <2> HIDE DEF Of
  <2>3. QED
    BY <2>1, <2>2, Zenon
<1>3. EvaluateMatrixPolicy(m, p) = {} <=>
        /\ m.project = p.project /\ m.commit = expected /\ ~m.dirty /\ m.digest = p.digest
        /\ m.overall = "pass" /\ RuntimeFindings(m, p) = {} /\ CheckFindings(m, p) = {}
        /\ AgeFindings(m.finished, FormatUtc(evaluated), p.maxAge) = {}
  BY DEF EvaluateMatrixPolicy, Found
<1>4. QED
  BY <1>1, <1>2, <1>3, Zenon

\* evaluate_matrix_policy finds nothing exactly when the run is one the policy is meant to accept.
LEMMA MatrixPolicy ==
  ASSUME NEW r, NEW p, 1 \in DOMAIN r.plan, Apart(r.plan), r.finished \in Nat, evaluated \in Nat,
         p.maxAge \in Nat, ValidTimestamp(FormatUtc(r.finished))
  PROVE  EvaluateMatrixPolicy(ReceiptMatrix(r), p) = {} <=> MatrixAgrees(r, p)
<1> DEFINE m == ReceiptMatrix(r)
           inAge == evaluated - r.finished \in 0..p.maxAge
           runtimes == {r.plan[i].runtime : i \in DOMAIN r.plan}
           RowOk(i) == LET agreed == p.runtimes[r.plan[i].runtime]
                       IN  /\ Digest(r.plan[i].plan) = agreed.digest
                           /\ r.plan[i].plan.image = agreed.image
                           /\ r.platform \in agreed.platforms
           InPlace(i) == \A c : Requires(r.plan[i], c) =>
                          c \in DOMAIN p.required /\ p.required[c] = r.plan[i].runtime
           Listed(e) == \E k \in DOMAIN r.plan : \E i \in DOMAIN r.plan[k].plan.checks :
             /\ r.plan[k].plan.checks[i].required
             /\ e = [id |-> r.plan[k].plan.checks[i].id, runtime |-> r.plan[k].runtime,
                     status |-> r.results[r.plan[k].plan.checks[i].id].status]
<1>1. /\ DOMAIN m.rows = DOMAIN r.plan
      /\ \A k \in DOMAIN r.plan :
           /\ m.rows[k].runtime = r.plan[k].runtime
           /\ m.rows[k].receipt.receipt.common = Common("1.0", r, r.plan[k])
      /\ m.project = r.plan[1].plan.project /\ m.commit = r.commit /\ m.dirty = FALSE
      /\ m.finished = FormatUtc(r.finished) /\ m.digest = Digest(r.plan)
      /\ m.overall = DeriveStatus(UNION {Statuses(m.rows[k].receipt.receipt.common.checks) :
                                           k \in DOMAIN m.rows})
  BY MatrixFields, Zenon
<1>2. AgeFindings(FormatUtc(r.finished), FormatUtc(evaluated), p.maxAge) = {} <=> inAge
  BY AgeNone, Zenon
<1>3. EvaluateMatrixPolicy(m, p) = {} <=>
           /\ m.project = p.project /\ m.commit = expected /\ ~m.dirty /\ m.digest = p.digest
           /\ m.overall = "pass" /\ RuntimesOf(m) = DOMAIN p.runtimes
           /\ \A id \in RuntimesOf(m) \cap DOMAIN p.runtimes :
                RowFindings(RowOf(m, id), p.runtimes[id]) = {}
           /\ {c.id : c \in RequiredOf(m)} = DOMAIN p.required
           /\ \A c \in RequiredOf(m) : c.id \in DOMAIN p.required =>
                c.runtime = p.required[c.id] /\ c.status = "pass"
           /\ AgeFindings(m.finished, FormatUtc(evaluated), p.maxAge) = {}
  BY MatrixFindings, Zenon
<1>4. \A k \in DOMAIN r.plan :
        RowFindings(RowOf(m, r.plan[k].runtime), p.runtimes[r.plan[k].runtime]) = {} <=> RowOk(k)
  <2>1. TAKE k \in DOMAIN r.plan
  <2>2. RowOf(m, r.plan[k].runtime) = Common("1.0", r, r.plan[k])
    BY RowFound, Zenon
  <2> DEFINE agreed == p.runtimes[r.plan[k].runtime]
  <2>3. RowFindings(Common("1.0", r, r.plan[k]), agreed) = {} <=> RowOk(k)
    <3>1. RowFindings(Common("1.0", r, r.plan[k]), agreed) = {} <=>
            /\ Digest(r.plan[k].plan) = agreed.digest /\ r.plan[k].plan.image = agreed.image
            /\ r.platform \in agreed.platforms
      <4> HIDE DEF agreed
      <4>1. QED
        BY RowAgrees, Zenon
    <3>2. QED
      BY <3>1, Zenon
  <2> HIDE DEF m, RowOk
  <2>4. QED
    BY <2>2, <2>3, Zenon
<1>5. \A e : e \in RequiredOf(m) <=> Listed(e)
  BY RequiredRows, Zenon
<1>6. \A s : s \in UNION {Statuses(m.rows[k].receipt.receipt.common.checks) : k \in DOMAIN m.rows}
             <=> \E k \in DOMAIN r.plan : EndedWith(r.plan[k], r, s)
  <2>1. \A k \in DOMAIN r.plan : \A s :
          s \in Statuses(m.rows[k].receipt.receipt.common.checks) <=> EndedWith(r.plan[k], r, s)
    <3>1. TAKE k \in DOMAIN r.plan
    <3>2. ChecksOf(Common("1.0", r, r.plan[k]).checks, r, r.plan[k])
      BY CommonFields, Zenon
    <3>3. ChecksOf(m.rows[k].receipt.receipt.common.checks, r, r.plan[k])
      BY <1>1, <3>2, Zenon
    <3>4. QED
      BY <3>3, RequiredFields, Zenon
  <2> HIDE DEF m
  <2>2. QED
    BY <1>1, <2>1, Zenon
<1>7. RuntimesOf(m) = runtimes
  <2> HIDE DEF m
  <2>1. QED
    BY <1>1 DEF RuntimesOf
<1>8. \A id : id \in RequiredIds(r.plan) <=> \E k \in DOMAIN r.plan : Requires(r.plan[k], id)
  BY RequiredPlan, Zenon
<1>9. MatrixAgrees(r, p) <=>
        /\ r.plan[1].plan.project = p.project /\ r.commit = expected /\ Digest(r.plan) = p.digest
        /\ runtimes = DOMAIN p.runtimes
        /\ \A i \in DOMAIN r.plan : RowOk(i) /\ InPlace(i)
        /\ RequiredIds(r.plan) = DOMAIN p.required /\ AllRequiredPassed(r) /\ inAge
  BY Zenon DEF MatrixAgrees
<1>10. \A id : id \in {c.id : c \in RequiredOf(m)} <=> id \in RequiredIds(r.plan)
  <2> HIDE DEF m
  <2>1. ASSUME NEW c \in RequiredOf(m)
        PROVE  c.id \in RequiredIds(r.plan)
    <3>0. PICK k \in DOMAIN r.plan : \E i \in DOMAIN r.plan[k].plan.checks :
             /\ r.plan[k].plan.checks[i].required
             /\ c = [id |-> r.plan[k].plan.checks[i].id, runtime |-> r.plan[k].runtime,
                     status |-> r.results[r.plan[k].plan.checks[i].id].status]
      BY <1>5, Zenon
    <3>1. PICK i \in DOMAIN r.plan[k].plan.checks :
             /\ r.plan[k].plan.checks[i].required
             /\ c = [id |-> r.plan[k].plan.checks[i].id, runtime |-> r.plan[k].runtime,
                     status |-> r.results[r.plan[k].plan.checks[i].id].status]
      BY <3>0, Zenon
    <3>2. c.id = r.plan[k].plan.checks[i].id
      BY <3>1
    <3>3. QED
      BY <1>8, <3>1, <3>2, Zenon DEF Requires
  <2>2. ASSUME NEW id \in RequiredIds(r.plan)
        PROVE  \E c \in RequiredOf(m) : id = c.id
    <3>0. PICK k \in DOMAIN r.plan : Requires(r.plan[k], id)
      BY <1>8, Zenon
    <3>1. PICK i \in DOMAIN r.plan[k].plan.checks :
            r.plan[k].plan.checks[i].required /\ id = r.plan[k].plan.checks[i].id
      BY <3>0, Zenon DEF Requires
    <3> DEFINE c == [id |-> r.plan[k].plan.checks[i].id, runtime |-> r.plan[k].runtime,
                     status |-> r.results[r.plan[k].plan.checks[i].id].status]
    <3>2. c \in RequiredOf(m)
      BY <1>5, <3>1, Zenon
    <3>3. c.id = id
      BY <3>1
    <3>4. QED
      BY <3>2, <3>3, Zenon
  <2>3. QED
    BY <2>1, <2>2, Zenon
<1> HIDE DEF m, inAge, runtimes, RowOk, Listed, InPlace
<1>11. {c.id : c \in RequiredOf(m)} = RequiredIds(r.plan)
  BY <1>10, Zenon
<1> DEFINE results == \A c \in RequiredOf(m) : c.id \in DOMAIN p.required =>
                        c.runtime = p.required[c.id] /\ c.status = "pass"
<1>12. RequiredIds(r.plan) = DOMAIN p.required =>
         (results <=> AllRequiredPassed(r) /\ \A i \in DOMAIN r.plan : InPlace(i))
  <2>1. SUFFICES ASSUME RequiredIds(r.plan) = DOMAIN p.required
                 PROVE  results <=> AllRequiredPassed(r) /\ \A i \in DOMAIN r.plan : InPlace(i)
    OBVIOUS
  <2>2. \A k \in DOMAIN r.plan : \A i \in DOMAIN r.plan[k].plan.checks :
          r.plan[k].plan.checks[i].required =>
            /\ Requires(r.plan[k], r.plan[k].plan.checks[i].id)
            /\ r.plan[k].plan.checks[i].id \in DOMAIN p.required
    BY <1>8, <2>1, Zenon DEF Requires
  <2>3. results <=>
          \A k \in DOMAIN r.plan : \A i \in DOMAIN r.plan[k].plan.checks :
            r.plan[k].plan.checks[i].required =>
              /\ r.plan[k].runtime = p.required[r.plan[k].plan.checks[i].id]
              /\ r.results[r.plan[k].plan.checks[i].id].status = "pass"
    <3> DEFINE Entry(id, runtime, status) == [id |-> id, runtime |-> runtime, status |-> status]
    <3>2. \A e : e \in RequiredOf(m) <=>
            \E k \in DOMAIN r.plan : \E i \in DOMAIN r.plan[k].plan.checks :
              /\ r.plan[k].plan.checks[i].required
              /\ e = Entry(r.plan[k].plan.checks[i].id, r.plan[k].runtime,
                           r.results[r.plan[k].plan.checks[i].id].status)
      BY <1>5, Zenon DEF Listed
    <3> HIDE DEF Entry
    <3>3. ASSUME results, NEW k \in DOMAIN r.plan, NEW i \in DOMAIN r.plan[k].plan.checks,
                 r.plan[k].plan.checks[i].required
          PROVE  /\ r.plan[k].runtime = p.required[r.plan[k].plan.checks[i].id]
                 /\ r.results[r.plan[k].plan.checks[i].id].status = "pass"
      <4> DEFINE e == Entry(r.plan[k].plan.checks[i].id, r.plan[k].runtime,
                            r.results[r.plan[k].plan.checks[i].id].status)
      <4>1. e \in RequiredOf(m)
        BY <3>2, <3>3, Zenon
      <4>2. /\ e.id = r.plan[k].plan.checks[i].id /\ e.runtime = r.plan[k].runtime
            /\ e.status = r.results[r.plan[k].plan.checks[i].id].status
        BY DEF Entry
      <4> HIDE DEF e
      <4>3. e.id \in DOMAIN p.required
        BY <2>2, <3>3, <4>2, Zenon
      <4>4. e.runtime = p.required[e.id] /\ e.status = "pass"
        BY <3>3, <4>1, <4>3, Zenon
      <4>5. QED
        BY <4>2, <4>4, Zenon
    <3>4. ASSUME \A k \in DOMAIN r.plan : \A i \in DOMAIN r.plan[k].plan.checks :
                   r.plan[k].plan.checks[i].required =>
                     /\ r.plan[k].runtime = p.required[r.plan[k].plan.checks[i].id]
                     /\ r.results[r.plan[k].plan.checks[i].id].status = "pass",
                 NEW e \in RequiredOf(m)
          PROVE  e.runtime = p.required[e.id] /\ e.status = "pass"
      <4>1. PICK k \in DOMAIN r.plan : \E i \in DOMAIN r.plan[k].plan.checks :
              /\ r.plan[k].plan.checks[i].required
              /\ e = Entry(r.plan[k].plan.checks[i].id, r.plan[k].runtime,
                           r.results[r.plan[k].plan.checks[i].id].status)
        BY <3>2, Zenon
      <4>2. PICK i \in DOMAIN r.plan[k].plan.checks :
              /\ r.plan[k].plan.checks[i].required
              /\ e = Entry(r.plan[k].plan.checks[i].id, r.plan[k].runtime,
                           r.results[r.plan[k].plan.checks[i].id].status)
        BY <4>1, Zenon
      <4>3. /\ e.id = r.plan[k].plan.checks[i].id /\ e.runtime = r.plan[k].runtime
            /\ e.status = r.results[r.plan[k].plan.checks[i].id].status
        BY <4>2 DEF Entry
      <4>4. /\ r.plan[k].runtime = p.required[r.plan[k].plan.checks[i].id]
            /\ r.results[r.plan[k].plan.checks[i].id].status = "pass"
        BY <3>4, <4>2
      <4>5. QED
        BY <4>3, <4>4
    <3>5. QED
      BY <3>3, <3>4, Zenon
  <2>4. AllRequiredPassed(r) <=>
          \A k \in DOMAIN r.plan : \A i \in DOMAIN r.plan[k].plan.checks :
            r.plan[k].plan.checks[i].required => r.results[r.plan[k].plan.checks[i].id].status = "pass"
    <3>1. ASSUME AllRequiredPassed(r), NEW k \in DOMAIN r.plan,
                 NEW i \in DOMAIN r.plan[k].plan.checks, r.plan[k].plan.checks[i].required
          PROVE  r.results[r.plan[k].plan.checks[i].id].status = "pass"
      <4>1. r.plan[k].plan.checks[i].id \in RequiredIds(r.plan)
        BY <1>8, <2>2, <3>1, Zenon
      <4>2. QED
        BY <3>1, <4>1, Zenon DEF AllRequiredPassed
    <3>2. ASSUME \A k \in DOMAIN r.plan : \A i \in DOMAIN r.plan[k].plan.checks :
                   r.plan[k].plan.checks[i].required =>
                     r.results[r.plan[k].plan.checks[i].id].status = "pass",
                 NEW c \in RequiredIds(r.plan)
          PROVE  r.results[c].status = "pass"
      <4>1. PICK k \in DOMAIN r.plan : Requires(r.plan[k], c)
        BY <1>8, Zenon
      <4>2. PICK i \in DOMAIN r.plan[k].plan.checks :
              r.plan[k].plan.checks[i].required /\ c = r.plan[k].plan.checks[i].id
        BY <4>1, Zenon DEF Requires
      <4>3. r.results[r.plan[k].plan.checks[i].id].status = "pass"
        BY <3>2, <4>2
      <4>4. QED
        BY <4>2, <4>3
    <3>3. QED
      BY <3>1, <3>2, Zenon DEF AllRequiredPassed
  <2>5. (\A i \in DOMAIN r.plan : InPlace(i)) <=>
          \A k \in DOMAIN r.plan : \A i \in DOMAIN r.plan[k].plan.checks :
            r.plan[k].plan.checks[i].required =>
              r.plan[k].runtime = p.required[r.plan[k].plan.checks[i].id]
    <3>1. ASSUME NEW k \in DOMAIN r.plan, InPlace(k),
                 NEW i \in DOMAIN r.plan[k].plan.checks, r.plan[k].plan.checks[i].required
          PROVE  r.plan[k].runtime = p.required[r.plan[k].plan.checks[i].id]
      <4>1. Requires(r.plan[k], r.plan[k].plan.checks[i].id)
        BY <2>2, <3>1, Zenon
      <4>2. QED
        BY <3>1, <4>1, Zenon DEF InPlace
    <3>2. ASSUME NEW k \in DOMAIN r.plan, \A i \in DOMAIN r.plan[k].plan.checks :
                   r.plan[k].plan.checks[i].required =>
                     r.plan[k].runtime = p.required[r.plan[k].plan.checks[i].id]
          PROVE  InPlace(k)
      <4>1. ASSUME NEW c, Requires(r.plan[k], c)
            PROVE  c \in DOMAIN p.required /\ p.required[c] = r.plan[k].runtime
        <5>1. PICK i \in DOMAIN r.plan[k].plan.checks :
                r.plan[k].plan.checks[i].required /\ c = r.plan[k].plan.checks[i].id
          BY <4>1, Zenon DEF Requires
        <5>2. QED
          BY <2>2, <3>2, <5>1, Zenon
      <4>2. QED
        BY <4>1, Zenon DEF InPlace
    <3>3. QED
      BY <3>1, <3>2, Zenon
  <2> HIDE DEF results
  <2>6. QED
    BY <2>3, <2>4, <2>5, Zenon
<1>13. AllRequiredPassed(r) => m.overall = "pass"
  <2>1. SUFFICES ASSUME AllRequiredPassed(r) PROVE m.overall = "pass"
    OBVIOUS
  <2>2. \A s \in UNION {Statuses(m.rows[k].receipt.receipt.common.checks) : k \in DOMAIN m.rows} :
          s = "pass"
    BY <1>6, <1>8, <2>1 DEF AllRequiredPassed, EndedWith, Requires
  <2>3. QED
    BY <1>1, <2>2, StatusPass, Zenon
<1>14. runtimes = DOMAIN p.runtimes =>
         ((\A id \in RuntimesOf(m) \cap DOMAIN p.runtimes :
             RowFindings(RowOf(m, id), p.runtimes[id]) = {})
          <=> \A i \in DOMAIN r.plan : RowOk(i))
  BY <1>4, <1>7, Zenon DEF runtimes
<1> HIDE DEF results
<1>15. EvaluateMatrixPolicy(m, p) = {} <=>
        /\ r.plan[1].plan.project = p.project /\ r.commit = expected /\ Digest(r.plan) = p.digest
        /\ runtimes = DOMAIN p.runtimes
        /\ \A i \in DOMAIN r.plan : RowOk(i) /\ InPlace(i)
        /\ RequiredIds(r.plan) = DOMAIN p.required /\ AllRequiredPassed(r) /\ inAge
  <2>1. EvaluateMatrixPolicy(m, p) = {} <=>
           /\ r.plan[1].plan.project = p.project /\ r.commit = expected /\ Digest(r.plan) = p.digest
           /\ m.overall = "pass" /\ runtimes = DOMAIN p.runtimes
           /\ \A id \in RuntimesOf(m) \cap DOMAIN p.runtimes :
                RowFindings(RowOf(m, id), p.runtimes[id]) = {}
           /\ RequiredIds(r.plan) = DOMAIN p.required /\ results /\ inAge
    BY <1>1, <1>2, <1>3, <1>7, <1>11, Zenon DEF results
  <2>2. QED
    BY <2>1, <1>12, <1>13, <1>14, Zenon
<1>16. QED
  BY <1>9, <1>15, Zenon DEF m

-----------------------------------------------------------------------------
(***************************************************************************)
(* A receipt file: the run that wrote it had a plan and sealed a receipt   *)
(* that verifies, its only row ended with it, and the file is garbage or   *)
(* still has the identifier that the run gave it.                          *)
(***************************************************************************)
Recorded(x) ==
    /\ x = [doc |-> x.doc, run |-> x.run]
    /\ x.run.plan \in Configs \ {<<>>} /\ x.run.finished \in Nat
    /\ Len(x.run.plan) = 1 => x.run.clocks[x.run.plan[1].runtime].finished = x.run.finished
    /\ VerifyEnvelope(Document(x.run))
    /\ \/ x.doc = Garbage
       \/ \E content : x.doc = [shape |-> Document(x.run).shape, id |-> Document(x.run).id,
                                receipt |-> content]

\* The document of a run is one of these three.
LEMMA Shapes ==
  ASSUME NEW r
  PROVE  /\ Document(r) = Seal(Document(r).shape, Document(r).receipt)
         /\ Document(r).id = Digest(Document(r).receipt)
         /\ Len(r.plan) > 1 =>
              Document(r).shape = "matrix" /\ Document(r).receipt = ReceiptMatrix(r)
         /\ ~(Len(r.plan) > 1) /\ r.snapshot =>
              Document(r).shape = "v2" /\ Document(r).receipt = ReceiptV2(r, r.plan[1])
         /\ ~(Len(r.plan) > 1) /\ ~r.snapshot =>
              Document(r).shape = "v1" /\ Document(r).receipt = ReceiptV1(r, r.plan[1])
<1>2. CASE Len(r.plan) > 1
  <2>1. Document(r) = Seal("matrix", ReceiptMatrix(r))
    BY <1>2, Zenon DEF Document
  <2>2. Document(r).shape = "matrix"
    BY <2>1 DEF Seal
  <2>3. Document(r).receipt = ReceiptMatrix(r)
    BY <2>1 DEF Seal
  <2>4. Document(r).id = Digest(ReceiptMatrix(r))
    BY <2>1 DEF Seal
  <2>5. QED
    BY <1>2, <2>1, <2>2, <2>3, <2>4, Zenon
<1>3. CASE ~(Len(r.plan) > 1) /\ r.snapshot
  <2>1. Document(r) = Seal("v2", ReceiptV2(r, r.plan[1]))
    BY <1>3, Zenon DEF Document
  <2>2. Document(r).shape = "v2"
    BY <2>1 DEF Seal
  <2>3. Document(r).receipt = ReceiptV2(r, r.plan[1])
    BY <2>1 DEF Seal
  <2>4. Document(r).id = Digest(ReceiptV2(r, r.plan[1]))
    BY <2>1 DEF Seal
  <2>5. QED
    BY <1>3, <2>1, <2>2, <2>3, <2>4, Zenon
<1>4. CASE ~(Len(r.plan) > 1) /\ ~r.snapshot
  <2>1. Document(r) = Seal("v1", ReceiptV1(r, r.plan[1]))
    BY <1>4, Zenon DEF Document
  <2>2. Document(r).shape = "v1"
    BY <2>1 DEF Seal
  <2>3. Document(r).receipt = ReceiptV1(r, r.plan[1])
    BY <2>1 DEF Seal
  <2>4. Document(r).id = Digest(ReceiptV1(r, r.plan[1]))
    BY <2>1 DEF Seal
  <2>5. QED
    BY <1>4, <2>1, <2>2, <2>3, <2>4, Zenon
<1>5. QED
  BY <1>2, <1>3, <1>4, Zenon

\* What verifies has the digest of its content as its identifier.
LEMMA Identified ==
  ASSUME NEW doc, VerifyEnvelope(doc)
  PROVE  /\ doc.id = Digest(doc.receipt)
         /\ doc.shape = "v1" => ValidCommon("1.0", doc.receipt.common)
         /\ doc.shape = "v2" => ValidV2(doc.receipt)
         /\ doc.shape = "matrix" => ValidMatrix(doc.receipt)
         /\ doc.shape \in {"v1", "v2", "matrix"}
  BY DEF VerifyEnvelope, Verifies

\* A receipt file that verifies is the receipt that its run sealed.
LEMMA IntactReceipt ==
  ASSUME NEW x, Recorded(x), VerifyEnvelope(x.doc)
  PROVE  x.doc = Document(x.run)
<1>1. x.doc # Garbage
  BY Identified DEF Garbage
<1>2. PICK content : x.doc = [shape |-> Document(x.run).shape, id |-> Document(x.run).id,
                              receipt |-> content]
  BY <1>1, Zenon DEF Recorded
<1>3. x.doc.id = Document(x.run).id /\ x.doc.receipt = content /\ x.doc.shape = Document(x.run).shape
  BY <1>2
<1>4. Digest(content) = Digest(Document(x.run).receipt)
  <2>1. Document(x.run).id = Digest(Document(x.run).receipt)
    BY Shapes, Zenon
  <2>2. x.doc.id = Digest(x.doc.receipt)
    BY Identified, Zenon
  <2>3. QED
    BY <1>3, <2>1, <2>2, Zenon
<1>5. content = Document(x.run).receipt
  BY <1>4 DEF Digest
<1>6. QED
  BY <1>2, <1>5, Shapes, Zenon DEF Seal

\* Damage to a receipt file leaves its identifier or makes it garbage.
LEMMA DamagedReceipt ==
  ASSUME NEW x, Recorded(x), NEW d \in Damaged(x.doc, Commits)
  PROVE  Recorded([x EXCEPT !.doc = d])
<1>1. x.doc # Garbage
  BY Zenon DEF Damaged
<1>2. PICK content : x.doc = [shape |-> Document(x.run).shape, id |-> Document(x.run).id,
                              receipt |-> content]
  BY <1>1, Zenon DEF Recorded
<1> DEFINE doc == x.doc
<1>3. \/ d = Garbage
      \/ \E c : \/ d = [doc EXCEPT !.receipt.common.commit = c]
                \/ d = [doc EXCEPT !.receipt.common.finished = c]
                \/ d = [doc EXCEPT !.receipt.common.overall = c]
                \/ d = [doc EXCEPT !.receipt.commit = c]
                \/ d = [doc EXCEPT !.receipt.rows[1].receipt.receipt.common.commit = c]
  BY <1>1, Zenon DEF Damaged
<1>4. d = Garbage \/ \E c : d = [doc EXCEPT !.receipt = c]
  BY <1>3, Zenon
<1>5. d = Garbage \/ \E c : d = [shape |-> Document(x.run).shape, id |-> Document(x.run).id, receipt |-> c]
  BY <1>2, <1>4
<1>6. [x EXCEPT !.doc = d].run = x.run /\ [x EXCEPT !.doc = d].doc = d
      /\ [x EXCEPT !.doc = d] = [doc |-> d, run |-> x.run]
  BY DEF Recorded
<1>7. QED
  BY <1>5, <1>6, Zenon DEF Recorded

\* The age that a valid policy allows.
LEMMA PolicyAge ==
  ASSUME NEW p, PolicyValid(p)
  PROVE  p.maxAge \in Nat
<1>1. p.maxAge \in 1..MaxFreshnessSeconds
  BY DEF PolicyValid, PolicyValidV1, PolicyValidV11, PolicyValidV2
<1>2. MaxFreshnessSeconds \in Nat
  BY DEF MaxFreshnessSeconds
<1>3. QED
  BY <1>1, <1>2

\* The plan of a recorded run, and the time at which it finished.
LEMMA RecordedRun ==
  ASSUME NEW x, Recorded(x), NEW r, r = x.run
  PROVE  /\ Len(r.plan) \in Nat \ {0} /\ DOMAIN r.plan = 1..Len(r.plan)
         /\ r.finished \in Nat /\ ValidTimestamp(FormatUtc(r.finished))
         /\ ~(Len(r.plan) > 1) => r.clocks[r.plan[1].runtime].finished = r.finished
         /\ Len(r.plan) > 1 => /\ Apart(r.plan)
                               /\ \A k \in DOMAIN r.plan :
                                    r.plan[k].plan.project = r.plan[1].plan.project
<1>1. Len(r.plan) \in Nat \ {0} /\ DOMAIN r.plan = 1..Len(r.plan) /\ r.finished \in Nat
  BY ConfigAssumption, Zenon DEF Recorded
<1>2. VerifyEnvelope(Document(r))
  BY Zenon DEF Recorded
<1>3. CASE Len(r.plan) > 1
  <2> DEFINE m == ReceiptMatrix(r)
             inner(k) == m.rows[k].receipt.receipt.common
  <2>1. ValidMatrix(m)
    BY <1>2, <1>3, Identified, Shapes, Zenon
  <2>2. 1 \in DOMAIN r.plan
    BY <1>1, <1>3
  <2>3. /\ DOMAIN m.rows = DOMAIN r.plan
        /\ \A k \in DOMAIN r.plan : /\ m.rows[k].runtime = r.plan[k].runtime
                                     /\ inner(k) = Common("1.0", r, r.plan[k])
        /\ m.project = r.plan[1].plan.project /\ m.finished = FormatUtc(r.finished)
    BY <2>2, MatrixFields, Zenon
  <2> HIDE DEF m
  <2>4. /\ \A i, j \in DOMAIN m.rows : m.rows[i].runtime = m.rows[j].runtime => i = j
        /\ \A i \in DOMAIN m.rows : inner(i).project = m.project
    BY <2>1, Zenon DEF ValidMatrix
  <2>5. Apart(r.plan)
    BY <2>3, <2>4, Zenon DEF Apart
  <2>6. \A k \in DOMAIN r.plan : r.plan[k].plan.project = r.plan[1].plan.project
    <3>1. TAKE k \in DOMAIN r.plan
    <3>2. FieldsOf(Common("1.0", r, r.plan[k]), r, r.plan[k])
      BY CommonFields, Zenon
    <3>3. Common("1.0", r, r.plan[k]).project = r.plan[k].plan.project
      BY <3>2, Zenon DEF FieldsOf
    <3>4. inner(k) = Common("1.0", r, r.plan[k]) /\ inner(k).project = m.project
      BY <2>3, <2>4, Zenon
    <3>5. QED
      BY <2>3, <3>3, <3>4, Zenon
  <2>7. ValidTimestamp(m.finished)
    <3> DEFINE all == ChecksOfRows(m.rows)
               outer == [inner(1) EXCEPT !.started = m.started, !.finished = m.finished,
                                 !.digest = m.digest, !.checks = all, !.overall = m.overall]
    <3>1. ValidCommon("1.0", outer)
      BY <2>1, Zenon DEF ValidMatrix
    <3>2. outer.finished = m.finished
      <4>1. inner(1) = Common("1.0", r, r.plan[1])
        BY <2>2, <2>3, Zenon
      <4> HIDE DEF inner, all
      <4>2. QED
        BY <4>1 DEF Common
    <3> HIDE DEF outer
    <3>3. QED
      BY <3>1, <3>2, Zenon DEF ValidCommon
  <2>8. QED
    BY <1>1, <1>3, <2>3, <2>5, <2>6, <2>7, Zenon
<1>4. CASE ~(Len(r.plan) > 1)
  <2>1. PICK version : ValidCommon(version, Common(version, r, r.plan[1]))
    <3>1. CASE r.snapshot
      <4>1. ValidV2(ReceiptV2(r, r.plan[1]))
        BY <1>2, <1>4, <3>1, Identified, Shapes, Zenon
      <4>2. ReceiptV2(r, r.plan[1]).common = Common("2.0", r, r.plan[1])
        BY DEF ReceiptV2
      <4>3. QED
        BY <4>1, <4>2, Zenon DEF ValidV2
    <3>2. CASE ~r.snapshot
      <4>1. ValidCommon("1.0", ReceiptV1(r, r.plan[1]).common)
        BY <1>2, <1>4, <3>2, Identified, Shapes, Zenon
      <4>2. ReceiptV1(r, r.plan[1]).common = Common("1.0", r, r.plan[1])
        BY DEF ReceiptV1
      <4>3. QED
        BY <4>1, <4>2, Zenon
    <3>3. QED
      BY <3>1, <3>2, Zenon
  <2>2. ValidTimestamp(Common(version, r, r.plan[1]).finished)
    BY <2>1, Zenon DEF ValidCommon
  <2>3. r.clocks[r.plan[1].runtime].finished = r.finished
    <3>1. \A n \in Nat \ {0} : n = 1 <=> ~(n > 1)
      OBVIOUS
    <3>2. Len(r.plan) = 1
      BY <1>1, <1>4, <3>1, Zenon
    <3>3. QED
      BY <3>2, Zenon DEF Recorded
  <2>4. Common(version, r, r.plan[1]).finished = FormatUtc(r.finished)
    <3>1. FieldsOf(Common(version, r, r.plan[1]), r, r.plan[1])
      BY CommonFields, Zenon
    <3>2. QED
      BY <2>3, <3>1, Zenon DEF FieldsOf
  <2>5. QED
    BY <1>1, <1>4, <2>2, <2>3, <2>4, Zenon
<1>5. QED
  BY <1>3, <1>4, Zenon

-----------------------------------------------------------------------------
\* The run deserves a matrix policy exactly when it has rows and agrees with it.
LEMMA MatrixDeserves ==
  ASSUME Recorded(bytes[1]), NEW p, NEW r, r = bytes[1].run
  PROVE  DeservesMatrix(r, p) <=> Len(r.plan) > 1 /\ MatrixAgrees(r, p)
<1>1. Len(r.plan) > 1 => 1 \in DOMAIN r.plan /\ \A k \in DOMAIN r.plan :
                           r.plan[k].plan.project = r.plan[1].plan.project
  <2>1. /\ Len(r.plan) \in Nat \ {0} /\ DOMAIN r.plan = 1..Len(r.plan)
        /\ Len(r.plan) > 1 => \A k \in DOMAIN r.plan :
                                r.plan[k].plan.project = r.plan[1].plan.project
    BY RecordedRun, Zenon
  <2>2. QED
    BY <2>1
<1>2. \A k : \A c : c \in RequiredIds(<<r.plan[k]>>) <=> Requires(r.plan[k], c)
  <2>1. TAKE k
  <2> DEFINE row == r.plan[k]
             one == <<row>>
  <2>2. DOMAIN one = {1} /\ one[1] = row
    OBVIOUS
  <2> HIDE DEF row, one
  <2>3. \A c : c \in RequiredIds(one) <=> Requires(row, c)
    BY <2>2, RequiredPlan, Zenon
  <2>4. QED
    BY <2>3, Zenon DEF row, one
<1> DEFINE RowOk(i) == LET agreed == p.runtimes[r.plan[i].runtime]
                       IN  /\ Digest(r.plan[i].plan) = agreed.digest
                           /\ r.plan[i].plan.image = agreed.image
                           /\ r.platform \in agreed.platforms
           Agreed(i, c) == c \in DOMAIN p.required /\ p.required[c] = r.plan[i].runtime
           runtimes == {r.plan[i].runtime : i \in DOMAIN r.plan}
           inAge == evaluated - r.finished \in 0..p.maxAge
<1>3. DeservesMatrix(r, p) <=>
        /\ Len(r.plan) > 1 /\ Digest(r.plan) = p.digest /\ r.commit = expected
        /\ runtimes = DOMAIN p.runtimes
        /\ \A i \in DOMAIN r.plan : /\ RowOk(i) /\ r.plan[i].plan.project = p.project
                                    /\ \A c \in RequiredIds(<<r.plan[i]>>) : Agreed(i, c)
        /\ RequiredIds(r.plan) = DOMAIN p.required /\ AllRequiredPassed(r) /\ inAge
  BY Zenon DEF DeservesMatrix, Age
<1>4. MatrixAgrees(r, p) <=>
        /\ r.plan[1].plan.project = p.project /\ r.commit = expected /\ Digest(r.plan) = p.digest
        /\ runtimes = DOMAIN p.runtimes
        /\ \A i \in DOMAIN r.plan : RowOk(i) /\ \A c : Requires(r.plan[i], c) => Agreed(i, c)
        /\ RequiredIds(r.plan) = DOMAIN p.required /\ AllRequiredPassed(r) /\ inAge
  BY Zenon DEF MatrixAgrees
<1> HIDE DEF RowOk, Agreed, runtimes, inAge
<1>5. QED
  BY <1>1, <1>2, <1>3, <1>4, Zenon

\* verify_trusted_plan_receipt_document finds nothing exactly when the run deserves the trust.
LEMMA TrustDeserved ==
  ASSUME NEW r, NEW p, ~(Len(r.plan) > 1)
  PROVE  TrustedFindings(Document(r), p, trusted[1].plan) = {} <=> DeservesTrust(r, p)
<1> DEFINE doc == Document(r)
           plan == trusted[1].plan
<1>1. CASE r.snapshot
  <2>1. doc.shape = "v2" /\ doc.receipt = ReceiptV2(r, r.plan[1])
    BY <1>1, Shapes, Zenon
  <2>2. /\ ReceiptV2(r, r.plan[1]).plan = r.plan[1].plan
        /\ ReceiptV2(r, r.plan[1]).strategy = "git_object"
        /\ ReceiptV2(r, r.plan[1]).common = Common("2.0", r, r.plan[1])
    BY DEF ReceiptV2
  <2>3. Common("2.0", r, r.plan[1]).producer = r.producer
    <3>1. FieldsOf(Common("2.0", r, r.plan[1]), r, r.plan[1])
      BY CommonFields, Zenon
    <3>2. QED
      BY <3>1, Zenon DEF FieldsOf
  <2> HIDE DEF doc, plan
  <2>4. /\ doc.receipt.plan = r.plan[1].plan /\ doc.receipt.strategy = "git_object"
        /\ doc.receipt.common.producer = r.producer
    BY <2>1, <2>2, <2>3, Zenon
  <2>5. TrustedFindings(doc, p, plan) = {} <=>
          /\ Digest(plan) = p.digest /\ doc.receipt.plan = plan /\ doc.receipt.strategy = p.strategy
          /\ doc.receipt.common.producer \notin p.revoked
          /\ doc.receipt.common.producer \in p.supported \cup p.revoked
    BY <2>1 DEF TrustedFindings, CompareExecutionPlan, Found
  <2>6. DeservesTrust(r, p) <=>
          /\ Digest(plan) = p.digest /\ r.plan[1].plan = plan /\ "git_object" = p.strategy
          /\ r.producer \notin p.revoked /\ r.producer \in p.supported \cup p.revoked
    BY <1>1, Zenon DEF DeservesTrust, plan
  <2>7. QED
    BY <2>4, <2>5, <2>6, Zenon DEF doc, plan
<1>2. CASE ~r.snapshot
  <2>1. doc.shape = "v1"
    BY <1>2, Shapes, Zenon
  <2> HIDE DEF doc, plan
  <2>2. "receipt_schema" \in TrustedFindings(doc, p, plan)
    BY <2>1 DEF TrustedFindings
  <2>3. QED
    BY <1>2, <2>2, Zenon DEF DeservesTrust, doc, plan
<1>3. QED
  BY <1>1, <1>2, Zenon

\* The baseline policy, of the document of a run with one row.
LEMMA SingleDeserves ==
  ASSUME Recorded(bytes[1]), NEW p, NEW r, r = bytes[1].run, evaluated \in Nat, p.maxAge \in Nat
  PROVE  /\ Len(r.plan) = 1 <=> ~(Len(r.plan) > 1)
         /\ ~(Len(r.plan) > 1) =>
              (EvaluatePolicy(Document(r).receipt.common, p) = {} <=> DeservesSingle(r, p))
<1>1. /\ Len(r.plan) \in Nat \ {0} /\ DOMAIN r.plan = 1..Len(r.plan)
      /\ r.finished \in Nat /\ ValidTimestamp(FormatUtc(r.finished))
      /\ ~(Len(r.plan) > 1) => r.clocks[r.plan[1].runtime].finished = r.finished
  BY RecordedRun, Zenon
<1>2. Len(r.plan) = 1 <=> ~(Len(r.plan) > 1)
  <2>1. \A n \in Nat \ {0} : n = 1 <=> ~(n > 1)
    OBVIOUS
  <2>2. QED
    BY <1>1, <2>1, Zenon
<1>3. SUFFICES ASSUME ~(Len(r.plan) > 1)
               PROVE  EvaluatePolicy(Document(r).receipt.common, p) = {} <=> DeservesSingle(r, p)
  BY <1>2, Zenon
<1>4. DOMAIN r.plan = {1}
  BY <1>1, <1>2, <1>3
<1>5. PICK version : Document(r).receipt.common = Common(version, r, r.plan[1])
  <2>1. ReceiptV2(r, r.plan[1]).common = Common("2.0", r, r.plan[1])
    BY DEF ReceiptV2
  <2>2. ReceiptV1(r, r.plan[1]).common = Common("1.0", r, r.plan[1])
    BY DEF ReceiptV1
  <2>3. QED
    BY <1>3, <2>1, <2>2, Shapes, Zenon
<1>6. EvaluatePolicy(Common(version, r, r.plan[1]), p) = {} <=>
        /\ Digest(r.plan[1].plan) = p.digest /\ r.commit = expected
        /\ r.plan[1].plan.project = p.project /\ r.plan[1].plan.image = p.image
        /\ r.platform \in p.platforms
        /\ RequiredIds(r.plan) = p.required /\ AllRequiredPassed(r)
        /\ evaluated - r.finished \in 0..p.maxAge
  BY <1>1, <1>3, <1>4, SinglePolicy, Zenon
<1>7. DeservesSingle(r, p) <=>
        /\ Digest(r.plan[1].plan) = p.digest /\ r.commit = expected
        /\ r.plan[1].plan.project = p.project /\ r.plan[1].plan.image = p.image
        /\ r.platform \in p.platforms
        /\ RequiredIds(r.plan) = p.required /\ AllRequiredPassed(r)
        /\ evaluated - r.finished \in 0..p.maxAge
  BY <1>2, <1>3, Zenon DEF DeservesSingle, Age
<1>8. QED
  BY <1>5, <1>6, <1>7, Zenon

\* The decision is to pass exactly the whole receipts of runs that deserve it.
LEMMA Verdict ==
  ASSUME Recorded(bytes[1]), NEW p \in Policies, PolicyValid(p), evaluated \in Nat
  PROVE  VerifyDocument(p).decision = "pass" <=> Intact /\ Deserves(bytes[1].run, p)
<1> DEFINE r == bytes[1].run
           doc == bytes[1].doc
<1>1. p.maxAge \in Nat
  BY PolicyAge, Zenon
<1>2. VerifyEnvelope(doc) <=> doc = Document(r)
  BY IntactReceipt, Zenon DEF Recorded
<1>3. Intact <=> doc = Document(r)
  BY Zenon DEF Intact, Doc
<1>4. \A code : IntegrityFails(code).decision = "fail"
  BY DEF IntegrityFails
<1>5. \A findings : Report(findings).decision = "pass" <=> findings = {}
  BY DEF Report
<1>6. p.version \in {"1.0", "1.1", "2.0"}
  BY PolicyAssumption, Zenon
<1>7. CASE p.version = "2.0"
  <2>1. VerifyDocument(p) =
          IF doc.shape \notin {"matrix"} THEN IntegrityFails("parse_or_shape")
          ELSE IF ~VerifyEnvelope(doc) THEN IntegrityFails("semantic_or_digest_invalid")
          ELSE Report(EvaluateMatrixPolicy(doc.receipt, p))
    BY <1>7 DEF VerifyDocument, Doc
  <2>2. VerifyDocument(p).decision = "pass" <=>
          doc.shape = "matrix" /\ doc = Document(r) /\ EvaluateMatrixPolicy(doc.receipt, p) = {}
    <3> HIDE DEF doc, r
    <3>1. QED
      BY <1>2, <1>4, <1>5, <2>1
  <2>3. Document(r).shape = "matrix" <=> Len(r.plan) > 1
    BY Shapes
  <2>4. Len(r.plan) > 1 =>
          (EvaluateMatrixPolicy(Document(r).receipt, p) = {} <=> MatrixAgrees(r, p))
    <3>1. SUFFICES ASSUME Len(r.plan) > 1
                   PROVE  EvaluateMatrixPolicy(Document(r).receipt, p) = {} <=> MatrixAgrees(r, p)
      BY Zenon
    <3>2. /\ Len(r.plan) \in Nat \ {0} /\ DOMAIN r.plan = 1..Len(r.plan)
          /\ r.finished \in Nat /\ ValidTimestamp(FormatUtc(r.finished)) /\ Apart(r.plan)
      BY <3>1, RecordedRun, Zenon
    <3>3. 1 \in DOMAIN r.plan
      BY <3>1, <3>2
    <3>4. Document(r).receipt = ReceiptMatrix(r)
      BY <3>1, Shapes, Zenon
    <3>5. EvaluateMatrixPolicy(ReceiptMatrix(r), p) = {} <=> MatrixAgrees(r, p)
      BY <1>1, <3>2, <3>3, MatrixPolicy, Zenon
    <3>6. QED
      BY <3>4, <3>5, Zenon
  <2>5. DeservesMatrix(r, p) <=> Len(r.plan) > 1 /\ MatrixAgrees(r, p)
    BY MatrixDeserves, Zenon
  <2>6. Deserves(r, p) <=> DeservesMatrix(r, p)
    BY <1>7, Zenon DEF Deserves
  <2>7. QED
    BY <1>3, <2>2, <2>3, <2>4, <2>5, <2>6, Zenon
<1>8. CASE p.version # "2.0"
  <2>1. Document(r).shape \in {"v1", "v2"} <=> ~(Len(r.plan) > 1)
    BY Shapes
  <2>2. /\ Len(r.plan) = 1 <=> ~(Len(r.plan) > 1)
        /\ ~(Len(r.plan) > 1) =>
             (EvaluatePolicy(Document(r).receipt.common, p) = {} <=> DeservesSingle(r, p))
    BY <1>1, SingleDeserves, Zenon
  <2>3. DeservesSingle(r, p) => Len(r.plan) = 1
    BY Zenon DEF DeservesSingle
  <2>4. CASE p.version = "1.0"
    <3>1. VerifyDocument(p) =
            IF doc.shape \notin {"v1", "v2"} THEN IntegrityFails("parse_or_shape")
            ELSE IF ~VerifyEnvelope(doc) THEN IntegrityFails("semantic_or_digest_invalid")
            ELSE Report(EvaluatePolicy(doc.receipt.common, p))
      BY <2>4 DEF VerifyDocument, Doc
    <3>2. VerifyDocument(p).decision = "pass" <=>
            doc.shape \in {"v1", "v2"} /\ doc = Document(r)
              /\ EvaluatePolicy(doc.receipt.common, p) = {}
      <4> HIDE DEF doc, r
      <4>1. QED
        BY <1>2, <1>4, <1>5, <3>1
    <3>3. Deserves(r, p) <=> DeservesSingle(r, p)
      BY <2>4 DEF Deserves
    <3>4. QED
      BY <1>3, <2>1, <2>2, <2>3, <3>2, <3>3, Zenon
  <2>5. CASE p.version = "1.1"
    <3>1. VerifyDocument(p) =
            IF doc.shape \notin {"v1", "v2"} THEN IntegrityFails("parse_or_shape")
            ELSE IF ~VerifyEnvelope(doc) THEN IntegrityFails("semantic_or_digest_invalid")
            ELSE Report(EvaluatePolicy(doc.receipt.common, p)
                          \cup TrustedFindings(doc, p, trusted[1].plan))
      BY <2>5 DEF VerifyDocument, Doc
    <3>2. VerifyDocument(p).decision = "pass" <=>
            /\ doc.shape \in {"v1", "v2"} /\ doc = Document(r)
            /\ EvaluatePolicy(doc.receipt.common, p) = {}
            /\ TrustedFindings(doc, p, trusted[1].plan) = {}
      <4> DEFINE basic == EvaluatePolicy(doc.receipt.common, p)
                 trust == TrustedFindings(doc, p, trusted[1].plan)
      <4>1. basic \cup trust = {} <=> basic = {} /\ trust = {}
        <5> HIDE DEF basic, trust
        <5>1. QED
          OBVIOUS
      <4> HIDE DEF doc, r
      <4>2. QED
        BY <1>2, <1>4, <1>5, <3>1, <4>1, Zenon
    <3>3. Deserves(r, p) <=> DeservesSingle(r, p) /\ DeservesTrust(r, p)
      BY <2>5 DEF Deserves
    <3>4. ~(Len(r.plan) > 1) =>
            (TrustedFindings(Document(r), p, trusted[1].plan) = {} <=> DeservesTrust(r, p))
      BY TrustDeserved, Zenon
    <3>5. QED
      BY <1>3, <2>1, <2>2, <2>3, <3>2, <3>3, <3>4, Zenon
  <2>6. QED
    BY <1>6, <1>8, <2>4, <2>5, Zenon
<1>9. QED
  BY <1>7, <1>8, Zenon

(***************************************************************************)
(* A run that is in progress has a plan, both copies of a receipt are      *)
(* records of their runs, and a report other than a refusal is the verdict *)
(* on the receipt and the policy as they were read, of which the policy is *)
(* valid.  Nothing runs beside the verification, and no file changes once  *)
(* it has been read for the last time.                                     *)
(***************************************************************************)
Files ==
    /\ midnight \in Midnights /\ config \in Configs /\ policyFile \in Policies /\ evaluated \in Nat
    /\ run # <<>> => run[1].plan \in Configs \ {<<>>} /\ pc = "idle"
    /\ receipt # <<>> => Recorded(receipt[1])
    /\ bytes # <<>> => Recorded(bytes[1])

Steps ==
    /\ pc \in {"load", "trust", "evaluate"} => bytes # <<>>
    /\ pc \in {"trust", "evaluate"} => policy[1] \in Policies /\ PolicyValid(policy[1])
    /\ pc # "done" => report = NoReport

Reported ==
    pc = "done" =>
        \/ report.integrity = "not_run" /\ report.decision = "error"
        \/ bytes = <<>> /\ report.decision = "fail"
        \/ /\ bytes # <<>> /\ policy[1] \in Policies /\ PolicyValid(policy[1])
           /\ report.decision = "pass" <=> Intact /\ Deserves(bytes[1].run, policy[1])

Fresh ==
    /\ pc \in {"load", "trust", "evaluate"} => bytes = receipt
    /\ pc \in {"trust", "evaluate"} => policy = <<policyFile>>
    /\ pc = "evaluate" => UpToDate
    /\ pc = "done" /\ report.decision # "error" /\ bytes # <<>> => UpToDate

VerifyInv == Files /\ Steps /\ Reported /\ Fresh

\* It holds before anything has run.
LEMMA VerifyInit == Init => VerifyInv
  BY DEF Init, VerifyInv, Files, Steps, Reported, Fresh

\* The instants that clocks show.
LEMMA InstantsNat ==
  ASSUME midnight \in Midnights, NEW now \in Instants
  PROVE  now \in Nat
  BY ClockAssumption, Zenon DEF Instants

\* What a receipt deserves depends only on what has been read.
LEMMA SameVerdict ==
  ASSUME expected' = expected, evaluated' = evaluated, bytes' = bytes, policy' = policy,
         trusted' = trusted
  PROVE  Intact' /\ Deserves(bytes[1].run, policy[1])' <=> Intact /\ Deserves(bytes[1].run, policy[1])
<1>1. Intact' <=> Intact
  BY Zenon DEF Intact, Doc
<1>2. DeservesSingle(bytes[1].run, policy[1])' <=> DeservesSingle(bytes[1].run, policy[1])
  BY Zenon DEF DeservesSingle, Age
<1>3. DeservesTrust(bytes[1].run, policy[1])' <=> DeservesTrust(bytes[1].run, policy[1])
  BY Zenon DEF DeservesTrust
<1>4. DeservesMatrix(bytes[1].run, policy[1])' <=> DeservesMatrix(bytes[1].run, policy[1])
  <2> DEFINE Meant(r, p, commit, age) ==
        /\ Len(r.plan) > 1 /\ Digest(r.plan) = p.digest /\ r.commit = commit
        /\ {r.plan[i].runtime : i \in DOMAIN r.plan} = DOMAIN p.runtimes
        /\ \A i \in DOMAIN r.plan :
             LET agreed == p.runtimes[r.plan[i].runtime]
             IN  /\ Digest(r.plan[i].plan) = agreed.digest /\ r.plan[i].plan.image = agreed.image
                 /\ r.plan[i].plan.project = p.project /\ r.platform \in agreed.platforms
                 /\ \A c \in RequiredIds(<<r.plan[i]>>) :
                      c \in DOMAIN p.required /\ p.required[c] = r.plan[i].runtime
        /\ RequiredIds(r.plan) = DOMAIN p.required /\ AllRequiredPassed(r)
        /\ age \in 0..p.maxAge
  <2>1. DeservesMatrix(bytes[1].run, policy[1]) <=> Meant(bytes[1].run, policy[1], expected, Age)
    BY Zenon DEF DeservesMatrix
  <2>2. DeservesMatrix(bytes[1].run, policy[1])'
          <=> Meant(bytes'[1].run, policy'[1], expected', Age')
    BY Zenon DEF DeservesMatrix
  <2>3. Age' = Age
    BY Zenon DEF Age
  <2> HIDE DEF Meant
  <2>4. QED
    BY <2>1, <2>2, <2>3, Zenon
<1>5. QED
  BY <1>1, <1>2, <1>3, <1>4, Zenon DEF Deserves

\* A step that leaves the verification alone leaves what it relies on and its verdict.
LEMMA Aside ==
  ASSUME Steps, Reported, UNCHANGED reading
  PROVE  Steps' /\ Reported'
<1>1. /\ pc' = pc /\ expected' = expected /\ evaluated' = evaluated /\ bytes' = bytes
      /\ policy' = policy /\ trusted' = trusted /\ report' = report
  BY Zenon DEF reading
<1>2. Steps'
  BY <1>1, Zenon DEF Steps
<1>3. Intact' /\ Deserves(bytes[1].run, policy[1])' <=> Intact /\ Deserves(bytes[1].run, policy[1])
  BY <1>1, SameVerdict
<1>4. Reported'
  BY <1>1, <1>3, Zenon DEF Reported
<1>5. QED
  BY <1>2, <1>4

\* The only row of an ordinary run ends with it.
LEMMA SingleClock ==
  ASSUME NEW begun, NEW now, NEW clocks \in RowClocks(begun, now), Len(begun.plan) = 1,
         DOMAIN begun.plan = 1..Len(begun.plan)
  PROVE  clocks[begun.plan[1].runtime].finished = now
<1> DEFINE rows == {begun.plan[r].runtime : r \in DOMAIN begun.plan}
<1>1. clocks = [id \in rows |-> [started |-> begun.started, finished |-> now]]
  BY Zenon DEF RowClocks
<1>2. begun.plan[1].runtime \in rows
  <2>1. 1 \in DOMAIN begun.plan
    OBVIOUS
  <2>2. QED
    BY <2>1, Zenon
<1> HIDE DEF rows
<1>3. QED
  BY <1>1, <1>2

\* No file changes once it has been read for the last time.
LEMMA FreshStep ==
  ASSUME VerifyInv, [Next]_vars
  PROVE  Fresh'
<1> USE DEF VerifyInv
<1>1. CASE BeginRun \/ FinishRun
  <2>1. pc = "idle" /\ pc' = pc
    BY <1>1, Zenon DEF BeginRun, FinishRun, Files, reading
  <2>2. QED
    BY <2>1 DEF Fresh
<1>2. CASE Edit
  <2>1. UNCHANGED reading
    BY <1>2, Zenon DEF Edit
  <2>2. CASE pc \in {"idle", "read"}
    BY <2>1, <2>2 DEF Fresh, reading
  <2>3. CASE pc = "load"
    <3>1. receipt' = receipt
      BY <1>2, <2>3 DEF Edit
    <3>2. QED
      BY <2>1, <2>3, <3>1 DEF Fresh, reading
  <2>4. CASE pc = "trust"
    <3>1. receipt' = receipt /\ policyFile' = policyFile
      BY <1>2, <2>4 DEF Edit
    <3>2. QED
      BY <2>1, <2>4, <3>1 DEF Fresh, reading
  <2>5. QED
    BY <1>2, <2>2, <2>3, <2>4 DEF Edit
<1>3. CASE ValidatePolicy
  <2>1. \/ pc' = "read"
        \/ pc' = "done" /\ report' = [NoReport EXCEPT !.decision = "error"]
    BY <1>3, Zenon DEF ValidatePolicy, Refuse, End
  <2>2. QED
    BY <2>1 DEF Fresh, NoReport
<1>4. CASE ReadReceipt
  <2>1. \/ pc' = "done" /\ bytes' = <<>>
        \/ pc' = "load" /\ bytes' = receipt /\ receipt' = receipt
    BY <1>4, Zenon DEF ReadReceipt, End, files
  <2>2. QED
    BY <2>1 DEF Fresh
<1>5. CASE LoadPolicy
  <2>1. /\ pc = "load" /\ policy' = <<policyFile>> /\ bytes' = bytes /\ trusted' = trusted
        /\ receipt' = receipt /\ policyFile' = policyFile /\ config' = config
        /\ \/ pc' = "done" /\ report' = [NoReport EXCEPT !.decision = "error"]
           \/ pc' = "trust"
           \/ pc' = "evaluate" /\ policyFile.version # "1.1"
    BY <1>5, Zenon DEF LoadPolicy, Refuse, End, files
  <2>2. QED
    BY <2>1 DEF Fresh, UpToDate, NoReport
<1>6. CASE LoadTrustedPlan
  <2>1. /\ pc = "trust" /\ trusted' = config /\ bytes' = bytes /\ policy' = policy
        /\ receipt' = receipt /\ policyFile' = policyFile /\ config' = config
        /\ \/ pc' = "done" /\ report' = [NoReport EXCEPT !.decision = "error"]
           \/ pc' = "evaluate"
    BY <1>6, Zenon DEF LoadTrustedPlan, Refuse, End, files
  <2>2. QED
    BY <2>1 DEF Fresh, UpToDate, NoReport
<1>7. CASE Evaluate
  <2>1. /\ pc = "evaluate" /\ pc' = "done" /\ trusted' = trusted /\ bytes' = bytes
        /\ policy' = policy /\ receipt' = receipt /\ policyFile' = policyFile /\ config' = config
    BY <1>7, Zenon DEF Evaluate, End, files
  <2>2. QED
    BY <2>1 DEF Fresh, UpToDate
<1>8. CASE UNCHANGED vars
  BY <1>8, Zenon DEF vars, files, reading, Fresh, UpToDate
<1>9. QED
  BY <1>1, <1>2, <1>3, <1>4, <1>5, <1>6, <1>7, <1>8, Zenon DEF Next

\* Every step keeps it.
LEMMA VerifyStep ==
  ASSUME VerifyInv, [Next]_vars
  PROVE  VerifyInv'
<1> USE DEF VerifyInv
<1>0. Fresh'
  BY FreshStep
<1> SUFFICES Files' /\ Steps' /\ Reported'
  BY <1>0
<1>1. CASE BeginRun
  <2>1. PICK host \in Hosts, commit \in Commits, snapshot \in BOOLEAN, entries \in 0..1,
             now \in Instants :
          run' = <<[plan |-> config, producer |-> host.producer, platform |-> host.platform,
                    commit |-> commit, snapshot |-> snapshot, entries |-> entries,
                    started |-> now]>>
    BY <1>1, Zenon DEF BeginRun
  <2>2. run'[1].plan = config
    BY <2>1
  <2>3. pc = "idle" /\ config # <<>> /\ UNCHANGED <<midnight, files, edits, reading>>
    BY <1>1, Zenon DEF BeginRun
  <2>4. Files'
    BY <2>2, <2>3 DEF Files, files, reading
  <2>5. QED
    BY <2>3, <2>4, Aside
<1>2. CASE FinishRun
  <2>1. PICK now \in Instants, results \in [CheckIds(run[1].plan) -> Outcomes],
             measured \in [ArtifactIds(run[1].plan) -> Sizes] :
         \E clocks \in RowClocks(run[1], now) :
         LET done == [plan |-> run[1].plan, producer |-> run[1].producer,
                      platform |-> run[1].platform, commit |-> run[1].commit,
                      snapshot |-> run[1].snapshot, entries |-> run[1].entries,
                      started |-> run[1].started, finished |-> now, clocks |-> clocks,
                      results |-> results, measured |-> measured]
             doc == Document(done)
         IN  receipt' = IF VerifyEnvelope(doc) THEN <<[doc |-> doc, run |-> done]>> ELSE receipt
    BY <1>2, Zenon DEF FinishRun
  <2>c. PICK clocks \in RowClocks(run[1], now) :
         LET done == [plan |-> run[1].plan, producer |-> run[1].producer,
                      platform |-> run[1].platform, commit |-> run[1].commit,
                      snapshot |-> run[1].snapshot, entries |-> run[1].entries,
                      started |-> run[1].started, finished |-> now, clocks |-> clocks,
                      results |-> results, measured |-> measured]
             doc == Document(done)
         IN  receipt' = IF VerifyEnvelope(doc) THEN <<[doc |-> doc, run |-> done]>> ELSE receipt
    BY <2>1, Zenon
  <2> DEFINE done == [plan |-> run[1].plan, producer |-> run[1].producer,
                      platform |-> run[1].platform, commit |-> run[1].commit,
                      snapshot |-> run[1].snapshot, entries |-> run[1].entries,
                      started |-> run[1].started, finished |-> now, clocks |-> clocks,
                      results |-> results, measured |-> measured]
             doc == Document(done)
  <2>2. done.plan = run[1].plan /\ done.finished = now /\ done.clocks = clocks
    OBVIOUS
  <2>3. receipt' = IF VerifyEnvelope(doc) THEN <<[doc |-> doc, run |-> done]>> ELSE receipt
    BY <2>c, Zenon
  <2>4. run # <<>> /\ run' = <<>> /\ UNCHANGED <<midnight, config, policyFile, edits, reading>>
    BY <1>2, Zenon DEF FinishRun
  <2>5. run[1].plan \in Configs \ {<<>>} /\ now \in Nat
    BY <2>4, InstantsNat, Zenon DEF Files
  <2>d. Len(run[1].plan) = 1 => clocks[run[1].plan[1].runtime].finished = now
    BY <2>5, SingleClock, ConfigAssumption, Zenon
  <2>6. doc = Seal(doc.shape, doc.receipt)
    BY Shapes, Zenon
  <2>7. doc = [shape |-> doc.shape, id |-> doc.id, receipt |-> doc.receipt]
    <3> HIDE DEF doc
    <3>1. QED
      BY <2>6 DEF Seal
  <2> HIDE DEF done
  <2>8. VerifyEnvelope(doc) => Recorded([doc |-> doc, run |-> done])
    <3> DEFINE x == [doc |-> doc, run |-> done]
    <3>1. x.doc = doc /\ x.run = done
      OBVIOUS
    <3> HIDE DEF x
    <3>2. x = [doc |-> x.doc, run |-> x.run]
      BY <3>1, Zenon DEF x
    <3>3. VerifyEnvelope(doc) => Recorded(x)
      BY <2>2, <2>5, <2>7, <2>d, <3>1, <3>2, Zenon DEF Recorded
    <3>4. QED
      BY <3>3, Zenon DEF x
  <2> HIDE DEF doc
  <2>9. receipt' # <<>> => Recorded(receipt'[1])
    <3>1. CASE VerifyEnvelope(doc)
      <4>1. receipt' = <<[doc |-> doc, run |-> done]>>
        BY <2>3, <3>1, Zenon
      <4>2. receipt'[1] = [doc |-> doc, run |-> done]
        BY <4>1
      <4>3. QED
        BY <2>8, <3>1, <4>2, Zenon
    <3>2. CASE ~VerifyEnvelope(doc)
      BY <2>3, <3>2, Zenon DEF Files
    <3>3. QED
      BY <3>1, <3>2, Zenon
  <2>10. Files'
    BY <2>4, <2>9, Zenon DEF Files, reading
  <2>11. QED
    BY <2>4, <2>10, Aside
<1>3. CASE Edit
  <2>1. run = <<>> /\ UNCHANGED <<midnight, run, reading>>
    BY <1>3, Zenon DEF Edit
  <2>2. config' \in Configs /\ policyFile' \in Policies
    BY <1>3, Zenon DEF Edit, Files
  <2>3. receipt' = receipt \/ (receipt # <<>> /\ \E d \in Damaged(receipt[1].doc, Commits) :
                                 receipt' = <<[receipt[1] EXCEPT !.doc = d]>>)
    BY <1>3, Zenon DEF Edit
  <2>4. receipt' # <<>> => Recorded(receipt'[1])
    <3>1. CASE receipt' = receipt
      BY <3>1, Zenon DEF Files
    <3>2. CASE receipt # <<>> /\ \E d \in Damaged(receipt[1].doc, Commits) :
                                   receipt' = <<[receipt[1] EXCEPT !.doc = d]>>
      <4>1. PICK d \in Damaged(receipt[1].doc, Commits) : receipt' = <<[receipt[1] EXCEPT !.doc = d]>>
        BY <3>2, Zenon
      <4>2. Recorded([receipt[1] EXCEPT !.doc = d])
        BY <3>2, <4>1, DamagedReceipt, Zenon DEF Files
      <4>3. receipt'[1] = [receipt[1] EXCEPT !.doc = d]
        BY <4>1
      <4>4. QED
        BY <4>2, <4>3, Zenon
    <3>3. QED
      BY <2>3, <3>1, <3>2, Zenon
  <2>5. Files'
    BY <2>1, <2>2, <2>4, Zenon DEF Files, reading
  <2>6. QED
    BY <2>1, <2>5, Aside
<1>4. CASE ValidatePolicy
  <2>1. /\ pc = "idle" /\ run = <<>> /\ evaluated' \in Instants
        /\ \/ pc' = "read" /\ report' = report
           \/ pc' = "done" /\ report' = [NoReport EXCEPT !.decision = "error"]
        /\ UNCHANGED <<midnight, files, run, edits, expected, bytes, policy, trusted>>
    BY <1>4, Zenon DEF ValidatePolicy, Refuse, End
  <2>2. evaluated' \in Nat
    BY <2>1, InstantsNat, Zenon DEF Files
  <2>3. Files'
    BY <2>1, <2>2, Zenon DEF Files, files
  <2>4. Steps' /\ Reported'
    BY <2>1 DEF Steps, Reported, NoReport
  <2>5. QED
    BY <2>3, <2>4
<1>5. CASE ReadReceipt
  <2>1. /\ pc = "read" /\ bytes' = receipt
        /\ \/ receipt = <<>> /\ pc' = "done" /\ report' = IntegrityFails("read_failed")
           \/ receipt # <<>> /\ pc' = "load" /\ report' = report
        /\ UNCHANGED <<midnight, files, run, edits, expected, evaluated, policy, trusted>>
    BY <1>5, Zenon DEF ReadReceipt, End
  <2>2. Files'
    BY <2>1, Zenon DEF Files, files
  <2>3. Steps' /\ Reported'
    BY <2>1 DEF Steps, Reported, IntegrityFails
  <2>4. QED
    BY <2>2, <2>3
<1>6. CASE LoadPolicy
  <2>1. /\ pc = "load" /\ policy' = <<policyFile>>
        /\ \/ pc' = "done" /\ report' = [NoReport EXCEPT !.decision = "error"]
           \/ PolicyValid(policyFile) /\ pc' \in {"trust", "evaluate"} /\ report' = report
        /\ UNCHANGED <<midnight, files, run, edits, expected, evaluated, bytes, trusted>>
    BY <1>6, Zenon DEF LoadPolicy, Refuse, End
  <2>2. policy'[1] = policyFile
    BY <2>1
  <2>3. Files'
    BY <2>1, Zenon DEF Files, files
  <2>4. Steps' /\ Reported'
    BY <2>1, <2>2 DEF Files, Steps, Reported, NoReport
  <2>5. QED
    BY <2>3, <2>4
<1>7. CASE LoadTrustedPlan
  <2>1. /\ pc = "trust"
        /\ \/ pc' = "done" /\ report' = [NoReport EXCEPT !.decision = "error"]
           \/ pc' = "evaluate" /\ report' = report
        /\ UNCHANGED <<midnight, files, run, edits, expected, evaluated, bytes, policy>>
    BY <1>7, Zenon DEF LoadTrustedPlan, Refuse, End
  <2>2. Files'
    BY <2>1, Zenon DEF Files, files
  <2>3. Steps' /\ Reported'
    BY <2>1 DEF Steps, Reported, NoReport
  <2>4. QED
    BY <2>2, <2>3
<1>8. CASE Evaluate
  <2>1. /\ pc = "evaluate" /\ pc' = "done" /\ report' = VerifyDocument(policy[1])
        /\ UNCHANGED <<midnight, files, run, edits, expected, evaluated, bytes, policy, trusted>>
    BY <1>8, Zenon DEF Evaluate, End
  <2>2. Files'
    BY <2>1, Zenon DEF Files, files
  <2>3. bytes # <<>> /\ policy[1] \in Policies /\ PolicyValid(policy[1]) /\ Recorded(bytes[1])
    BY <2>1, Zenon DEF Steps, Files
  <2>4. report'.decision = "pass" <=> Intact /\ Deserves(bytes[1].run, policy[1])
    BY <2>1, <2>3, Verdict, Zenon DEF Files
  <2>5. Intact' /\ Deserves(bytes[1].run, policy[1])' <=> Intact /\ Deserves(bytes[1].run, policy[1])
    <3>1. /\ expected' = expected /\ evaluated' = evaluated /\ bytes' = bytes
          /\ policy' = policy /\ trusted' = trusted
      BY <2>1, Zenon
    <3>2. QED
      BY <3>1, SameVerdict
  <2>6. Steps' /\ Reported'
    BY <2>1, <2>3, <2>4, <2>5, Zenon DEF Steps, Reported
  <2>7. QED
    BY <2>2, <2>6
<1>9. CASE UNCHANGED vars
  <2>1. UNCHANGED <<midnight, files, run, edits, reading>>
    BY <1>9, Zenon DEF vars
  <2>2. Files'
    BY <2>1, Zenon DEF Files, files, reading
  <2>3. QED
    BY <2>1, <2>2, Aside
<1>10. QED
  BY <1>1, <1>2, <1>3, <1>4, <1>5, <1>6, <1>7, <1>8, <1>9, Zenon DEF Next

\* It always holds.
LEMMA VerifyInvariant == Spec => []VerifyInv
  BY VerifyInit, VerifyStep, PTL DEF Spec

(***************************************************************************)
(* Whatever the configurations, policies, hosts, commits and clocks: what  *)
(* the verify command accepts is the undamaged record of a run that the    *)
(* policy is meant to accept, measured on the files as they were read last *)
(* (print_verify, evaluate_policy, verify_trusted_plan_receipt_document,   *)
(* evaluate_matrix_policy).                                                *)
(***************************************************************************)
THEOREM AcceptedAreDeserved == Spec => []AcceptedMeansDeserved
<1>1. VerifyInv => AcceptedMeansDeserved
  <2>1. SUFFICES ASSUME VerifyInv, Accepted
                 PROVE  UpToDate /\ Intact /\ Deserves(bytes[1].run, policy[1])
    BY DEF AcceptedMeansDeserved
  <2>2. pc = "done" /\ report.decision = "pass"
    BY <2>1 DEF VerifyInv, Steps, Accepted, NoReport
  <2>3. bytes # <<>> /\ Intact /\ Deserves(bytes[1].run, policy[1])
    BY <2>1, <2>2 DEF VerifyInv, Reported
  <2>4. UpToDate
    BY <2>1, <2>2, <2>3 DEF VerifyInv, Fresh
  <2>5. QED
    BY <2>3, <2>4
<1>2. QED
  BY <1>1, VerifyInvariant, PTL

(***************************************************************************)
(* The converse: a whole receipt of a run that the policy is meant to      *)
(* accept is never refused, in any month and at any age within the limit.  *)
(***************************************************************************)
THEOREM DeservingAreAccepted == Spec => []DeservingRunAccepted
<1>1. VerifyInv => DeservingRunAccepted
  BY Zenon DEF VerifyInv, Reported, DeservingRunAccepted, Accepted
<1>2. QED
  BY <1>1, VerifyInvariant, PTL
===============================================================================
