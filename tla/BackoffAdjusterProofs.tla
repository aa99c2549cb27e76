------------------------ MODULE BackoffAdjusterProofs ------------------------
(***************************************************************************)
(* The period of the backoff stays within its maximum for every number of  *)
(* threads that overlap in any way, all settings and stored values; and    *)
(* unless calls have overlapped, no download starts before the period that *)
(* the last failure began is over.                                         *)
(***************************************************************************)
EXTENDS BackoffAdjuster, WellFoundedInduction, TLAPS

Places == {"idle", "download", "adjust", "first", "double", "stamp", "reset",
           "zero", "epoch", "clear"}

(* The minimum, which the first failure sets, is within the maximum: the   *)
(* assertion of set_max_backoff() sees to it.  What is stored is within    *)
(* the maximum of the process that stored it.                              *)
Limits ==
    /\ period \in Nat /\ storedPeriod \in Nat
    /\ minBackoff \in Int /\ maxBackoff \in Int
    /\ service = "up" => 0 < minBackoff /\ minBackoff <= maxBackoff
    /\ service # "aborted" => storedPeriod <= maxBackoff

(* Calls of the adjuster are made by a running service only. *)
CallsWhileUp ==
    /\ pc \in [Requests -> Places]
    /\ \A r \in Requests : pc[r] \notin Outside => service = "up"

IInv == Limits /\ CallsWhileUp /\ PeriodBounded
-----------------------------------------------------------------------------
(* What an int holds. *)
LEMMA Truncated == ASSUME NEW n \in Int PROVE to_int(n) \in -(INT_MAX + 1)..INT_MAX
<1> DEFINE m == (n + INT_MAX + 1) % (2 * (INT_MAX + 1))
<1>1. n + INT_MAX + 1 \in Int /\ 2 * (INT_MAX + 1) \in Nat \ {0} /\ INT_MAX \in Nat
  BY SettingsAssumption
<1>2. \A a \in Int, b \in Nat \ {0} : a % b \in 0..(b - 1)
  BY Z3
<1>3. m \in 0..(2 * (INT_MAX + 1) - 1)
  BY <1>1, <1>2
<1> HIDE DEF m
<1>4. m - (INT_MAX + 1) \in -(INT_MAX + 1)..INT_MAX
  BY <1>1, <1>3
<1>5. QED
  BY <1>4 DEF to_int, m

(* The minimum and the maximum that the settings give are ints. *)
LEMMA LimitsAreInts ==
    ASSUME NEW t \in get_positive_int(Timeouts), NEW h \in get_positive_int(Hours)
    PROVE  /\ t \in Nat /\ t > 0 /\ to_int(t * 2) \in -(INT_MAX + 1)..INT_MAX
           /\ retry_error_max_seconds(t, h) \in -(INT_MAX + 1)..INT_MAX
           /\ to_int(t * 2) \in Int /\ retry_error_max_seconds(t, h) \in Int
<1>1. t \in Nat /\ t > 0 /\ h \in Nat /\ Hour \in Nat /\ INT_MAX \in Nat
  BY SettingsAssumption DEF get_positive_int
<1>2. h * Hour \in Nat /\ t * 2 \in Int /\ 2 * t \in Int
  BY <1>1
<1>3. to_int(t * 2) \in -(INT_MAX + 1)..INT_MAX /\ to_int(2 * t) \in Int
  BY <1>1, <1>2, Truncated
<1>4. \A n \in Int : to_int(n) \in -(INT_MAX + 1)..INT_MAX
  BY Truncated
<1>5. retry_error_max_seconds(t, h) \in -(INT_MAX + 1)..INT_MAX
  BY <1>2, <1>3, <1>4 DEF retry_error_max_seconds
<1>6. QED
  BY <1>1, <1>3, <1>5

(* The limits before the first start. *)
LEMMA InitIInv == Init => IInv
  BY DEF Init, IInv, Limits, CallsWhileUp, PeriodBounded, Places, Outside

(* The constructor: an assertion stops it when a limit would not hold. *)
LEMMA StartIInv == IInv /\ start => IInv'
<1> SUFFICES ASSUME IInv, start PROVE IInv'
  OBVIOUS
<1>1. PICK t \in get_positive_int(Timeouts), h \in get_positive_int(Hours) :
        \/ setters(t, h, storedAge, storedPeriod) /\ UNCHANGED stored
        \/ setters(t, h, Ever, 0) /\ service' = "up" /\ Wiped
  BY DEF start
<1> DEFINE m == retry_error_max_seconds(t, h)
           n == to_int(t * 2)
<1>2. n \in Int /\ m \in Int
  BY LimitsAreInts
<1>3. /\ minBackoff' = n /\ maxBackoff' = m
      /\ period' \in {storedPeriod, 0} /\ storedPeriod' \in {storedPeriod, 0}
      /\ service' # "aborted" => n > 0 /\ m >= 2 * n /\ storedPeriod <= m
  BY <1>1 DEF setters, Wiped, stored
<1> HIDE DEF m, n
<1>4. Limits' /\ PeriodBounded'
  <2>1. service' = "up" => service' # "aborted"
    OBVIOUS
  <2>2. QED
    BY <1>2, <1>3, <2>1 DEF IInv, Limits, PeriodBounded
<1>5. CallsWhileUp'
  BY DEF start, IInv, CallsWhileUp
<1>6. QED
  BY <1>4, <1>5 DEF IInv

(* Every step of every thread, and every start, stop and crash. *)
LEMMA NextIInv == IInv /\ [Next]_vars => IInv'
<1> SUFFICES ASSUME IInv, [Next]_vars PROVE IInv'
  OBVIOUS
<1> USE DEF IInv, Limits, CallsWhileUp, PeriodBounded, Places, Outside, At,
            backoff, stored
<1>1. CASE start
  BY <1>1, StartIInv
<1>2. CASE stop
  BY <1>2 DEF stop
<1>3. CASE crash
  BY <1>3 DEF crash
<1>4. CASE tick
  BY <1>4 DEF tick
<1>5. ASSUME NEW r \in Requests, check(r) \/ fetched(r) \/ clearTime(r) PROVE IInv'
  BY <1>5 DEF check, fetched, clearTime, Wiped
<1>6. ASSUME NEW r \in Requests, Call(r) PROVE IInv'
  <2>1. CASE adjustReads(r)
    BY <2>1 DEF adjustReads
  <2>2. CASE adjustPeriod(r)
    BY <2>2 DEF adjustPeriod, minimum
  <2>3. CASE adjustTime(r)
    BY <2>3 DEF adjustTime
  <2>4. CASE resetReads(r)
    BY <2>4 DEF resetReads
  <2>5. CASE resetPeriod(r)
    BY <2>5 DEF resetPeriod
  <2>6. CASE resetTime(r)
    BY <2>6 DEF resetTime
  <2>7. CASE clearPeriod(r)
    BY <2>7 DEF clearPeriod
  <2>8. QED
    BY <1>6, <2>1, <2>2, <2>3, <2>4, <2>5, <2>6, <2>7 DEF Call
<1>7. CASE UNCHANGED vars
  BY <1>7 DEF vars
<1>8. CASE discard
  BY <1>8 DEF discard
<1>9. QED
  BY <1>1, <1>2, <1>3, <1>4, <1>5, <1>6, <1>7, <1>8 DEF Next

(* An assertion stops a start only for settings that leave too little room *)
(* or less than before.                                                    *)
LEMMA StartAsserts ==
    IInv /\ start /\ service = "down" /\ service' = "aborted" =>
       minBackoff' <= 0 \/ maxBackoff' < 2 * minBackoff' \/ maxBackoff' < maxBackoff
<1> SUFFICES ASSUME IInv, start, service = "down", service' = "aborted"
             PROVE  \/ minBackoff' <= 0
                    \/ maxBackoff' < 2 * minBackoff' \/ maxBackoff' < maxBackoff
  OBVIOUS
<1>1. PICK t \in get_positive_int(Timeouts), h \in get_positive_int(Hours) :
        \/ setters(t, h, storedAge, storedPeriod)
        \/ setters(t, h, Ever, 0)
  BY DEF start
<1> DEFINE m == retry_error_max_seconds(t, h)
           n == to_int(t * 2)
<1>2. n \in Int /\ m \in Int
  BY LimitsAreInts
<1>3. /\ minBackoff' = n /\ maxBackoff' = m
      /\ ~(n > 0 /\ m > 0 /\ m >= 2 * n /\ storedPeriod <= m)
  BY <1>1 DEF setters
<1>4. storedPeriod \in Nat /\ maxBackoff \in Nat /\ storedPeriod <= maxBackoff
  BY DEF IInv, Limits
<1> HIDE DEF m, n
<1>5. QED
  BY <1>2, <1>3, <1>4

(* The same for every step: only a start can end in an abort. *)
LEMMA NextAsserts ==
    IInv /\ [Next]_vars /\ service = "down" /\ service' = "aborted" => start
  BY DEF Next, vars, stop, crash, tick, discard, check, fetched, clearTime, Call,
         adjustReads, adjustPeriod, adjustTime, resetReads, resetPeriod, resetTime,
         clearPeriod

(* The assertions of the setters hold for every sequence of settings, but  *)
(* for a time-out whose double overflows, a maximum below four time-outs   *)
(* or one that was lowered.                                                *)
THEOREM AssertionsKept == Spec => AssertionsHold
<1>1. IInv /\ [Next]_vars =>
        [service = "down" /\ service' = "aborted" =>
           \/ minBackoff' <= 0
           \/ maxBackoff' < 2 * minBackoff'
           \/ maxBackoff' < maxBackoff]_vars
  BY StartAsserts, NextAsserts
<1>2. QED
  BY <1>1, InitIInv, NextIInv, PTL DEF Spec, AssertionsHold

(* The period of a running service is within the configured maximum. *)
THEOREM PeriodIsBounded == Spec => []PeriodBounded
<1>1. IInv => PeriodBounded
  BY DEF IInv
<1>2. QED
  BY <1>1, InitIInv, NextIInv, PTL DEF Spec
-----------------------------------------------------------------------------
(* A lemma on numbers: a set of numbers with a bound has a largest one, and *)
(* the operator Max of the library returns it.                              *)
LEMMA MaxOfBounded ==
    ASSUME NEW S, S \subseteq Int, S # {}, NEW b \in Nat, \A x \in S : x <= b
    PROVE  Max(S) \in S /\ \A x \in S : x <= Max(S)
<1> DEFINE T == {b - x : x \in S}
<1>1. T \subseteq Nat /\ T # {}
  <2>1. \A x \in S : b - x \in Nat
    OBVIOUS
  <2>2. PICK x \in S : TRUE
    OBVIOUS
  <2>3. b - x \in T
    OBVIOUS
  <2>4. QED
    BY <2>1, <2>3
<1>2. \E x \in T : \A y \in T : ~(<<y, x>> \in OpToRel(<, Nat))
  BY <1>1, WFMin, NatLessThanWellFounded, Zenon
<1>3. PICK z \in T : \A y \in T : ~(<<y, z>> \in OpToRel(<, Nat))
  BY <1>2
<1>4. \A y \in T : z <= y
  <2> SUFFICES ASSUME NEW y \in T, ~(z <= y) PROVE FALSE
    OBVIOUS
  <2>1. y \in Nat /\ z \in Nat /\ y < z
    BY <1>1
  <2>2. <<y, z>> \in OpToRel(<, Nat)
    BY <2>1 DEF OpToRel
  <2>3. QED
    BY <1>3, <2>2
<1>5. PICK m \in S : z = b - m
  OBVIOUS
<1>6. \A x \in S : m >= x
  <2> SUFFICES ASSUME NEW x \in S PROVE m >= x
    OBVIOUS
  <2>1. b - x \in T
    OBVIOUS
  <2>2. z <= b - x
    BY <1>4, <2>1
  <2>3. QED
    BY <1>5, <2>2
<1>7. Max(S) \in S /\ \A x \in S : Max(S) >= x
  BY <1>6 DEF Max
<1>8. QED
  BY <1>7

(* MaxPeriod is the largest maximum that the settings can give, and 2 at   *)
(* least.                                                                  *)
LEMMA MaxPeriodCovers ==
    /\ MaxPeriod \in Nat /\ MaxPeriod >= 2
    /\ \A t \in get_positive_int(Timeouts), h \in get_positive_int(Hours) :
         retry_error_max_seconds(t, h) \in -(INT_MAX + 1)..MaxPeriod
<1> DEFINE R == {retry_error_max_seconds(t, h) :
                   t \in get_positive_int(Timeouts), h \in get_positive_int(Hours)}
           S == {2} \union R
<1>1. INT_MAX \in Nat /\ INT_MAX + 2 \in Nat
  BY SettingsAssumption
<1>2. \A x \in R : x \in -(INT_MAX + 1)..INT_MAX
  BY LimitsAreInts
<1>3. S \subseteq Int /\ 2 \in S /\ R \subseteq S
  BY <1>1, <1>2
<1>4. \A x \in S : x <= INT_MAX + 2
  BY <1>1, <1>2
<1>5. MaxPeriod = Max(S)
  BY DEF MaxPeriod
<1> HIDE DEF S, R
<1>6. MaxPeriod \in S /\ \A x \in S : x <= MaxPeriod
  BY <1>1, <1>3, <1>4, <1>5, MaxOfBounded
<1>7. MaxPeriod \in Nat /\ MaxPeriod >= 2
  BY <1>3, <1>6
<1>8. \A x \in R : x \in -(INT_MAX + 1)..MaxPeriod
  BY <1>1, <1>2, <1>3, <1>6, <1>7
<1>9. QED
  BY <1>7, <1>8 DEF R
-----------------------------------------------------------------------------
(* Why the server is spared.  While the period that the last failure began *)
(* lasts, no call is past its first read (but for one that reads a period  *)
(* not over, and so ends), and the adjuster has this period and the time of*)
(* this failure; or the failure cache has them, while no service is up.    *)
(* The time may be one unit off, once, when it has been stored.            *)
Lasts == since < owed

TimeKept == age <= since + (IF whole THEN 1 ELSE 0)

PeriodKept ==
    ~raced /\ Lasts =>
      /\ \A r \in Requests : pc[r] \in {"idle", "download", "adjust", "reset"}
      /\ service = "up" => period = owed /\ TimeKept
      /\ service # "up" => storedPeriod = owed /\ storedAge <= since + 1

SparedInv == IInv /\ TypeOK /\ owed <= MaxPeriod /\ PeriodKept

(* Before the first start no failure has counted. *)
LEMMA InitSpared == Init => SparedInv
<1> SUFFICES ASSUME Init PROVE SparedInv
  OBVIOUS
<1>1. IInv
  BY InitIInv
<1>2. TypeOK
  <2>1. /\ Ever \in Ages /\ 1 \in -(INT_MAX + 1)..INT_MAX
        /\ 2 \in -(INT_MAX + 1)..MaxPeriod
    BY SettingsAssumption, MaxPeriodCovers DEF Ages, Ever
  <2>2. QED
    BY <2>1 DEF Init, TypeOK
<1>3. owed <= MaxPeriod /\ ~Lasts
  BY MaxPeriodCovers DEF Init, Lasts, Ever
<1>4. QED
  BY <1>1, <1>2, <1>3 DEF SparedInv, PeriodKept

(* The constructor restores the period and the time that were stored. *)
LEMMA StartSpared == SparedInv /\ start => TypeOK' /\ owed' <= MaxPeriod /\ PeriodKept'
<1> SUFFICES ASSUME SparedInv, start
             PROVE  TypeOK' /\ owed' <= MaxPeriod /\ PeriodKept'
  OBVIOUS
<1>1. PICK t \in get_positive_int(Timeouts), h \in get_positive_int(Hours) :
        \/ setters(t, h, storedAge, storedPeriod) /\ UNCHANGED <<stored, history>>
        \/ setters(t, h, Ever, 0) /\ service' = "up" /\ Wiped /\ UNCHANGED raced
  BY DEF start
<1> DEFINE m == retry_error_max_seconds(t, h)
           n == to_int(t * 2)
<1>2. /\ n \in -(INT_MAX + 1)..INT_MAX /\ m \in -(INT_MAX + 1)..MaxPeriod
      /\ MaxPeriod \in Nat
  BY LimitsAreInts, MaxPeriodCovers
<1>3. /\ minBackoff' = n /\ maxBackoff' = m /\ whole' = TRUE
      /\ service' \in {"up", "aborted"} /\ pc' = pc /\ service # "up"
  BY <1>1 DEF setters, start
<1> HIDE DEF m, n
<1>4. minBackoff' \in -(INT_MAX + 1)..INT_MAX /\ maxBackoff' \in -(INT_MAX + 1)..MaxPeriod
  BY <1>2, <1>3
<1> USE DEF SparedInv, TypeOK, Ages, Ever
<1>5. CASE setters(t, h, storedAge, storedPeriod) /\ UNCHANGED <<stored, history>>
  <2>1. /\ age' = storedAge /\ period' = storedPeriod /\ storedAge' = storedAge
        /\ storedPeriod' = storedPeriod /\ since' = since /\ owed' = owed
        /\ raced' = raced
    BY <1>5 DEF setters, stored, history
  <2>2. TypeOK' /\ owed' <= MaxPeriod
    BY <1>3, <1>4, <2>1
  <2>3. PeriodKept'
    BY <1>3, <2>1 DEF PeriodKept, Lasts, TimeKept
  <2>4. QED
    BY <2>2, <2>3
<1>6. CASE setters(t, h, Ever, 0) /\ service' = "up" /\ Wiped /\ UNCHANGED raced
  <2>1. /\ age' = Ever /\ period' = 0 /\ storedAge' = Ever /\ storedPeriod' = 0
        /\ since' = Ever /\ owed' = 0 /\ raced' = raced
    BY <1>6 DEF setters, Wiped
  <2>2. TypeOK' /\ owed' <= MaxPeriod
    BY <1>2, <1>3, <1>4, <2>1
  <2>3. ~Lasts'
    BY <1>2, <2>1 DEF Lasts
  <2>4. QED
    BY <2>2, <2>3 DEF PeriodKept
<1>7. QED
  BY <1>1, <1>5, <1>6

(* A call of the adjuster by one thread. *)
LEMMA CallSpared ==
    ASSUME SparedInv, NEW r \in Requests, Call(r)
    PROVE  TypeOK' /\ owed' <= MaxPeriod /\ PeriodKept'
<1> USE DEF SparedInv, TypeOK, At, backoff, stored
<1>1. raced' \in BOOLEAN /\ (~raced' => ~raced /\ ~Inside(r))
  BY DEF Call
<1>2. CASE adjustReads(r)
  <2>1. TypeOK' /\ owed' <= MaxPeriod
    BY <1>1, <1>2 DEF adjustReads
  <2>2. ASSUME ~raced', Lasts' PROVE pc' = [pc EXCEPT ![r] = "idle"]
    <3>1. period = owed /\ age <= since + 1 /\ Lasts
      BY <1>1, <1>2, <2>2 DEF adjustReads, PeriodKept, Lasts, TimeKept, IInv,
         CallsWhileUp, Outside, Ages
    <3>2. period # 0 /\ ~Expired
      BY <3>1, MaxPeriodCovers DEF Lasts, Expired, Ages, Ever
    <3>3. QED
      BY <1>2, <3>2 DEF adjustReads
  <2>3. PeriodKept'
    BY <1>1, <1>2, <2>2 DEF adjustReads, PeriodKept, Lasts, TimeKept
  <2>4. QED
    BY <2>1, <2>3
<1>3. CASE adjustPeriod(r)
  <2>1. period' \in Nat
    BY <1>3 DEF adjustPeriod, minimum, IInv, Limits, CallsWhileUp, Outside
  <2>2. TypeOK' /\ owed' <= MaxPeriod
    BY <1>1, <1>3, <2>1 DEF adjustPeriod
  <2>3. PeriodKept'
    BY <1>1, <1>3 DEF adjustPeriod, PeriodKept, Lasts
  <2>4. QED
    BY <2>2, <2>3
<1>4. CASE adjustTime(r)
  <2>1. service = "up" /\ period <= MaxPeriod
    BY <1>4, MaxPeriodCovers DEF adjustTime, IInv, CallsWhileUp, PeriodBounded, Outside
  <2>2. TypeOK' /\ owed' <= MaxPeriod
    <3>1. 0 \in Ages
      BY MaxPeriodCovers DEF Ages, Ever
    <3>2. QED
      BY <1>1, <1>4, <2>1, <3>1 DEF adjustTime
  <2>3. PeriodKept'
    BY <1>1, <1>4, <2>1 DEF adjustTime, PeriodKept, TimeKept, Inside, Outside
  <2>4. QED
    BY <2>2, <2>3
<1>5. CASE resetReads(r)
  <2>1. TypeOK' /\ owed' <= MaxPeriod
    BY <1>1, <1>5 DEF resetReads
  <2>2. ASSUME ~raced', Lasts' PROVE pc' = [pc EXCEPT ![r] = "idle"]
    <3>1. period = owed /\ age <= since + 1 /\ Lasts
      BY <1>1, <1>5, <2>2 DEF resetReads, PeriodKept, Lasts, TimeKept, IInv,
         CallsWhileUp, Outside, Ages
    <3>2. ~Expired
      BY <3>1, MaxPeriodCovers DEF Lasts, Expired, Ages, Ever
    <3>3. QED
      BY <1>5, <3>2 DEF resetReads
  <2>3. PeriodKept'
    BY <1>1, <1>5, <2>2 DEF resetReads, PeriodKept, Lasts, TimeKept
  <2>4. QED
    BY <2>1, <2>3
<1>6. CASE resetPeriod(r)
  BY <1>1, <1>6 DEF resetPeriod, PeriodKept, Lasts
<1>7. CASE resetTime(r)
  BY <1>1, <1>7, MaxPeriodCovers DEF resetTime, PeriodKept, Lasts, Ages, Ever
<1>8. CASE clearPeriod(r)
  BY <1>1, <1>8 DEF clearPeriod, PeriodKept, Lasts
<1>9. QED
  BY <1>2, <1>3, <1>4, <1>5, <1>6, <1>7, <1>8 DEF Call

(* Time passes for the adjuster, the failure cache and the last failure    *)
(* alike.                                                                  *)
LEMMA TickSpared == SparedInv /\ tick => TypeOK' /\ owed' <= MaxPeriod /\ PeriodKept'
<1> SUFFICES ASSUME SparedInv, tick PROVE TypeOK' /\ owed' <= MaxPeriod /\ PeriodKept'
  OBVIOUS
<1> USE MaxPeriodCovers DEF SparedInv, TypeOK, Ages, Ever
<1>1. TypeOK' /\ owed' <= MaxPeriod
  BY DEF tick, minimum
<1>2. Lasts' => Lasts /\ since' = since + 1
  BY DEF tick, minimum, Lasts
<1>3. age' <= age + 1 /\ storedAge' <= storedAge + 1
  BY DEF tick, minimum
<1>4. /\ UNCHANGED <<period, whole, storedPeriod, service, pc, owed, raced>>
  BY DEF tick
<1>5. PeriodKept'
  BY <1>1, <1>2, <1>3, <1>4 DEF PeriodKept, TimeKept
<1>6. QED
  BY <1>1, <1>5

(* Every step keeps the period that a failure began. *)
LEMMA NextSpared == SparedInv /\ [Next]_vars => SparedInv'
<1> SUFFICES ASSUME SparedInv, [Next]_vars PROVE SparedInv'
  OBVIOUS
<1>1. IInv'
  BY NextIInv DEF SparedInv
<1> SUFFICES TypeOK' /\ owed' <= MaxPeriod /\ PeriodKept'
  BY <1>1 DEF SparedInv
<1>2. CASE start
  BY <1>2, StartSpared
<1>3. CASE tick
  BY <1>3, TickSpared
<1>4. ASSUME NEW r \in Requests, Call(r)
      PROVE  TypeOK' /\ owed' <= MaxPeriod /\ PeriodKept'
  BY <1>4, CallSpared
<1> USE DEF SparedInv, TypeOK, At, backoff, stored, history
<1>5. CASE stop
  <2>1. PICK a \in IF whole THEN {age} ELSE {age, minimum(age + 1, Ever)} :
          storedPeriod' = period /\ storedAge' = a
    BY <1>5 DEF stop
  <2>2. a \in Ages /\ a <= age + (IF whole THEN 0 ELSE 1)
    BY MaxPeriodCovers DEF minimum, Ages, Ever
  <2>3. TypeOK' /\ owed' <= MaxPeriod
    BY <1>5, <2>1, <2>2 DEF stop
  <2>4. PeriodKept'
    BY <1>5, <2>1, <2>2 DEF stop, PeriodKept, Lasts, TimeKept, Ages
  <2>5. QED
    BY <2>3, <2>4
<1>6. CASE crash
  BY <1>6, MaxPeriodCovers DEF crash, PeriodKept, Lasts, Ages, Ever
<1>7. CASE discard
  BY <1>7, MaxPeriodCovers DEF discard, PeriodKept, Lasts, TimeKept, Ages, Ever
<1>8. ASSUME NEW r \in Requests, check(r)
      PROVE  TypeOK' /\ owed' <= MaxPeriod /\ PeriodKept'
  BY <1>8 DEF check, PeriodKept, Lasts, TimeKept
<1>9. ASSUME NEW r \in Requests, fetched(r)
      PROVE  TypeOK' /\ owed' <= MaxPeriod /\ PeriodKept'
  BY <1>9 DEF fetched, PeriodKept, Lasts, TimeKept
<1>10. ASSUME NEW r \in Requests, clearTime(r)
       PROVE  TypeOK' /\ owed' <= MaxPeriod /\ PeriodKept'
  BY <1>10, MaxPeriodCovers DEF clearTime, Wiped, PeriodKept, Lasts, Ages, Ever
<1>11. CASE UNCHANGED vars
  BY <1>11 DEF vars, PeriodKept, Lasts, TimeKept
<1>12. QED
  BY <1>2, <1>3, <1>4, <1>5, <1>6, <1>7, <1>8, <1>9, <1>10, <1>11 DEF Next

(* Only check() starts a download, and it does not while the period lasts. *)
LEMMA CheckSpares ==
    ASSUME SparedInv, [Next]_vars, NEW r \in Requests,
           ~raced, pc[r] = "idle", pc'[r] = "download"
    PROVE  since + 1 > owed
<1>1. retry_ok /\ service = "up"
  BY DEF Next, SparedInv, TypeOK, vars, start, stop, crash, tick, discard, check, fetched,
         clearTime, Call, adjustReads, adjustPeriod, adjustTime, resetReads,
         resetPeriod, resetTime, clearPeriod, At
<1>2. Lasts => period = owed /\ age <= since + 1 /\ period # 0
  BY <1>1 DEF SparedInv, PeriodKept, TimeKept, TypeOK, Lasts, Ages
<1>3. QED
  BY <1>1, <1>2, MaxPeriodCovers
  DEF SparedInv, TypeOK, Lasts, retry_ok, Expired, Ages, Ever

(* While calls have not overlapped, a download is started only after the   *)
(* period that the last counted failure began, whatever was stored and     *)
(* restored between.                                                       *)
THEOREM ServerIsSpared == Spec => ServerSpared
<1>1. SparedInv /\ [Next]_vars =>
        [\A r \in Requests :
           ~raced /\ pc[r] = "idle" /\ pc'[r] = "download" => since + 1 > owed]_vars
  BY CheckSpares
<1>2. QED
  BY <1>1, InitSpared, NextSpared, PTL DEF Spec, ServerSpared

(* Every variable has its type. *)
THEOREM BackoffTypes == Spec => []TypeOK
<1>1. SparedInv => TypeOK
  BY DEF SparedInv
<1>2. QED
  BY <1>1, InitSpared, NextSpared, PTL DEF Spec
=============================================================================
