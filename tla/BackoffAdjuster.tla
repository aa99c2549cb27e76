--------------------------- MODULE BackoffAdjuster ---------------------------
(***************************************************************************)
(* BackoffAdjuster (src/backoff_adjuster.cpp) and its use by the requests  *)
(* for remote artwork (RequestBase::thumbnail) and by the constructor and  *)
(* destructor of Thumbnailer, which keep it across restarts.               *)
(*                                                                         *)
(* thumbnail() runs in pool threads and nothing locks the adjuster, so its *)
(* methods overlap: each is split where it has read and is yet to write.   *)
(* Instead of the wall clock and last_fail_time_ the model keeps their     *)
(* difference, capped at Ever, where no period is in effect any more.      *)
(***************************************************************************)
EXTENDS Integers, FiniteSetsExt

CONSTANTS Requests,     \* requests that are served at the same time
          Timeouts,     \* values of the setting extraction-timeout
          Hours,        \* values of the setting retry-error-hours
          Hour,         \* seconds of an hour
          INT_MAX       \* of the type int, which the settings have

ASSUME SettingsAssumption ==
    /\ Timeouts \subseteq Int /\ \E t \in Timeouts : t > 0
    /\ Hours \subseteq Int /\ \E h \in Hours : h > 0
    /\ \A v \in Timeouts \union Hours : v <= INT_MAX
    /\ Hour \in Nat \ {0} /\ INT_MAX \in Nat \ {0}

VARIABLES period,     \* backoff_period_
          age,        \* now - last_fail_time_
          whole,      \* whether last_fail_time_ is a whole second
          minBackoff, maxBackoff,
          storedPeriod, storedAge,  \* the two entries in the failure cache
          service,    \* up, down or aborted (an assertion failed)
          pc,         \* what each request is doing
          since,      \* history: time since the last failure that counted
          owed,       \* history: the period that this failure began
          raced       \* history: calls of two threads have overlapped

backoff == <<period, age, whole, minBackoff, maxBackoff>>
history == <<since, owed, raced>>
stored == <<storedPeriod, storedAge>>
vars == <<period, age, whole, minBackoff, maxBackoff, storedPeriod, storedAge,
          service, pc, since, owed, raced>>

minimum(a, b) == IF a < b THEN a ELSE b

(* Settings::get_positive_int() throws for any other value, and the        *)
(* service does not start.                                                 *)
get_positive_int(values) == {v \in values : v > 0}

(* What an int holds after it was given the number n: the conversion of a  *)
(* longer type keeps the low bits, and the build does the same where a     *)
(* product of two ints overflows.                                          *)
to_int(n) == ((n + INT_MAX + 1) % (2 * (INT_MAX + 1))) - (INT_MAX + 1)

(* Settings::retry_error_max_seconds(): chrono counts the seconds of the   *)
(* hours in 64 bits; twice the time-out, and what is returned, are ints.   *)
retry_error_max_seconds(t, h) ==
    LET retry_max == h * Hour
        retry_min == to_int(2 * t)
    IN  to_int(IF retry_max < retry_min THEN retry_min ELSE retry_max)

(* No period is longer, and the maximum before the first start is 2. *)
MaxPeriod == Max({2} \union {retry_error_max_seconds(t, h) :
                    t \in get_positive_int(Timeouts), h \in get_positive_int(Hours)})
Ever == MaxPeriod + 1
Ages == 0..Ever
At(r, where) == pc' = [pc EXCEPT ![r] = where]

(* now > last_fail_time_ + backoff_period_ *)
Expired == age > period

Outside == {"idle", "download"}
Inside(r) == \E q \in Requests \ {r} : pc[q] \notin Outside

Init ==
    /\ period = 0 /\ age = Ever /\ whole = TRUE /\ minBackoff = 1 /\ maxBackoff = 2
    /\ storedPeriod = 0 /\ storedAge = Ever
    /\ service = "down"
    /\ pc = [r \in Requests |-> "idle"]
    /\ since = Ever /\ owed = 0 /\ raced = FALSE
-----------------------------------------------------------------------------
(* Thumbnailer(): the setters with their assertions, in their order. *)

(* Mutant: the period is restored before the maximum is set. *)
setters_PeriodFirst(t, h, a, p) ==
    LET m == retry_error_max_seconds(t, h)
        n == to_int(t * 2)
        periodOK == storedPeriod <= 2
        maxOK == m > 0 /\ m >= 2 * n
    IN  /\ minBackoff' = n
        /\ maxBackoff' = m
        /\ age' = a /\ whole' = TRUE
        /\ period' = p
        /\ service' = IF n > 0 /\ maxOK /\ periodOK THEN "up" ELSE "aborted"

setters(t, h, a, p) ==
    LET m == retry_error_max_seconds(t, h)
        n == to_int(t * 2)
        maxOK == m > 0 /\ m >= 2 * n
        periodOK == storedPeriod <= m
    IN  /\ minBackoff' = n
        /\ maxBackoff' = m
        /\ age' = a /\ whole' = TRUE
        /\ period' = p
        /\ service' = IF n > 0 /\ maxOK /\ periodOK THEN "up" ELSE "aborted"

(* Mutant: the time of the failure is not restored. *)
start_Restamps ==
    /\ service \in {"down", "aborted"}
    /\ \E t \in get_positive_int(Timeouts), h \in get_positive_int(Hours) :
         setters(t, h, 0, storedPeriod)
    /\ UNCHANGED <<stored, pc, history>>

(* A service that an assertion stopped is activated again by the bus.      *)
(* apply_upgrade_actions() may end with clear(all), which wipes what was   *)
(* stored and has been restored.                                           *)
Wiped == storedPeriod' = 0 /\ storedAge' = Ever /\ since' = Ever /\ owed' = 0

start ==
    /\ service \in {"down", "aborted"}
    /\ \E t \in get_positive_int(Timeouts), h \in get_positive_int(Hours) :
         \/ setters(t, h, storedAge, storedPeriod) /\ UNCHANGED <<stored, history>>
         \/ setters(t, h, Ever, 0) /\ service' = "up" /\ Wiped /\ UNCHANGED raced
    /\ UNCHANGED pc

(* ~Thumbnailer(), after the thread pools have finished; downloads that    *)
(* are under way are abandoned.  duration_cast to seconds moves the time   *)
(* of the failure back to a whole second.                                  *)
stop ==
    /\ service = "up"
    /\ \A r \in Requests : pc[r] \in Outside
    /\ service' = "down"
    /\ \E a \in IF whole THEN {age} ELSE {age, minimum(age + 1, Ever)} :
          storedPeriod' = period /\ storedAge' = a
    /\ pc' = [r \in Requests |-> "idle"]
    /\ UNCHANGED <<backoff, history>>

(* The process ends without its destructors: the last failure is unknown   *)
(* to the next one.                                                        *)
crash ==
    /\ service = "up"
    /\ service' = "down"
    /\ pc' = [r \in Requests |-> "idle"]
    /\ since' = Ever /\ owed' = 0
    /\ UNCHANGED <<backoff, stored, raced>>

tick ==
    /\ \E v \in {age, storedAge, since} : v < Ever
    /\ age' = minimum(age + 1, Ever)
    /\ storedAge' = minimum(storedAge + 1, Ever)
    /\ since' = minimum(since + 1, Ever)
    /\ UNCHANGED <<period, whole, minBackoff, maxBackoff, storedPeriod, service,
                   pc, owed, raced>>

(* The failure cache discards an entry, or both in a recovery. *)
discard ==
    /\ service = "up" /\ (storedPeriod # 0 \/ storedAge # Ever)
    /\ storedPeriod' \in {0, storedPeriod} /\ storedAge' \in {storedAge, Ever}
    /\ UNCHANGED <<backoff, service, pc, history>>

(* Thumbnailer::clear() of the failure cache, called by the main thread    *)
(* ("Force retry on next remote retrieval"), for which an idle request     *)
(* stands: the entries go first, then the time, then the period.           *)
clearTime(r) ==
    /\ service = "up" /\ pc[r] = "idle"
    /\ Wiped
    /\ age' = Ever /\ whole' = TRUE
    /\ At(r, "clear")
    /\ UNCHANGED <<period, minBackoff, maxBackoff, service, raced>>

clearPeriod(r) ==
    /\ pc[r] = "clear"
    /\ period' = 0
    /\ At(r, "idle")
    /\ UNCHANGED <<age, whole, minBackoff, maxBackoff, stored, service,
                   since, owed>>
-----------------------------------------------------------------------------
(* thumbnail() before the download: fetch() answered needs_download. *)

retry_ok == period = 0 \/ Expired

check(r) ==
    /\ service = "up" /\ pc[r] = "idle"
    /\ retry_ok
    /\ At(r, "download")
    /\ UNCHANGED <<backoff, stored, service, history>>

(* thumbnail() after the download: success, not_found and hard_error call  *)
(* reset(), temporary_error adjust_retry_limit(), timeout and network_down *)
(* neither.                                                                *)
fetched(r) ==
    /\ service = "up" /\ pc[r] = "download"
    /\ \E called \in {"reset", "adjust", "idle"} : At(r, called)
    /\ UNCHANGED <<backoff, stored, service, history>>

(* adjust_retry_limit() *)
adjustReads(r) ==
    /\ pc[r] = "adjust"
    /\ At(r, IF period = 0 THEN "first"
             ELSE IF Expired THEN "double" ELSE "idle")
    /\ UNCHANGED <<backoff, stored, service, since, owed>>

(* Mutant: the maximum is forgotten. *)
adjustPeriod_Unbounded(r) ==
    /\ pc[r] \in {"first", "double"}
    /\ period' = IF pc[r] = "first" THEN minBackoff ELSE 2 * period
    /\ At(r, "stamp")
    /\ UNCHANGED <<age, whole, minBackoff, maxBackoff, stored, service,
                   since, owed>>

adjustPeriod(r) ==
    /\ pc[r] \in {"first", "double"}
    /\ period' = IF pc[r] = "first" THEN minBackoff
                 ELSE minimum(2 * period, maxBackoff)
    /\ At(r, "stamp")
    /\ UNCHANGED <<age, whole, minBackoff, maxBackoff, stored, service,
                   since, owed>>

adjustTime(r) ==
    /\ pc[r] = "stamp"
    /\ age' = 0 /\ whole' = FALSE
    /\ since' = 0 /\ owed' = period
    /\ At(r, "idle")
    /\ UNCHANGED <<period, minBackoff, maxBackoff, stored, service>>

(* reset() *)

(* Mutant: every success ends the period. *)
resetReads_Always(r) ==
    /\ pc[r] = "reset"
    /\ At(r, "zero")
    /\ UNCHANGED <<backoff, stored, service, since, owed>>

resetReads(r) ==
    /\ pc[r] = "reset"
    /\ At(r, IF period # 0 /\ Expired THEN "zero" ELSE "idle")
    /\ UNCHANGED <<backoff, stored, service, since, owed>>

resetPeriod(r) ==
    /\ pc[r] = "zero"
    /\ period' = 0
    /\ At(r, "epoch")
    /\ UNCHANGED <<age, whole, minBackoff, maxBackoff, stored, service,
                   since, owed>>

resetTime(r) ==
    /\ pc[r] = "epoch"
    /\ age' = Ever /\ whole' = TRUE
    /\ At(r, "idle")
    /\ UNCHANGED <<period, minBackoff, maxBackoff, stored, service, since, owed>>

Call(r) ==
    /\ \/ adjustReads(r) \/ adjustPeriod(r) \/ adjustTime(r)
       \/ resetReads(r) \/ resetPeriod(r) \/ resetTime(r) \/ clearPeriod(r)
    /\ raced' = (raced \/ Inside(r))

Next ==
    \/ start \/ stop \/ crash \/ tick \/ discard
    \/ \E r \in Requests : check(r) \/ fetched(r) \/ clearTime(r) \/ Call(r)

Spec == Init /\ [][Next]_vars

(* Time passes, the service is started when it is down, and a thread that  *)
(* is in a call completes it.                                              *)
FairSpec ==
    /\ Spec
    /\ WF_vars(tick) /\ WF_vars(start)
    /\ \A r \in Requests : WF_vars(Call(r))
-----------------------------------------------------------------------------
(* Every variable has its type. *)
TypeOK ==
    /\ period \in Nat /\ age \in Ages /\ whole \in BOOLEAN
    /\ minBackoff \in -(INT_MAX + 1)..INT_MAX /\ maxBackoff \in -(INT_MAX + 1)..MaxPeriod
    /\ storedPeriod \in Nat /\ storedAge \in Ages
    /\ service \in {"up", "down", "aborted"}
    /\ pc \in [Requests -> {"idle", "download", "adjust", "first", "double",
                            "stamp", "reset", "zero", "epoch", "clear"}]
    /\ since \in Ages /\ owed \in Nat /\ raced \in BOOLEAN

(* The period of a running service never exceeds the configured maximum,   *)
(* whatever calls overlap and whatever was stored by an earlier process    *)
(* (backoff_adjuster.cpp:60, 119).                                         *)
PeriodBounded == service = "up" => period <= maxBackoff

(* The assertions of the setters (backoff_adjuster.cpp:60, 72, 84-85) stop *)
(* a service only if twice the time-out is more than an int holds, if the  *)
(* maximum is less than four time-outs (also because its seconds are more  *)
(* than an int holds), all of which the settings allow, or less than that  *)
(* of the process before it: what is restored was stored within the        *)
(* limits, whatever crashed, was cleared or lost since.                    *)
AssertionsHold ==
    [][service = "down" /\ service' = "aborted" =>
          \/ minBackoff' <= 0
          \/ maxBackoff' < 2 * minBackoff'
          \/ maxBackoff' < maxBackoff]_vars

(* A download is started only when the period that the last counted        *)
(* failure began is over, up to the second that storing loses: neither     *)
(* late results of requests that were sent earlier, nor restarts, end it   *)
(* sooner; clear() and an upgrade may (thumbnailer.cpp:374, 769-783, 955). *)
(* This needs calls that do not overlap: between its two assignments       *)
(* adjust_retry_limit() shows another thread in reset() the new period     *)
(* with the old time, which looks over.                                    *)
ServerSpared ==
    [][\A r \in Requests :
          ~raced /\ pc[r] = "idle" /\ pc'[r] = "download" => since + 1 > owed]_vars

(* However often requests fail and the service is restarted, the server    *)
(* can be contacted again and again, unless an assertion stops the service.*)
RetriedAgain == []<>(service = "aborted" \/ (service = "up" /\ retry_ok))
=============================================================================
