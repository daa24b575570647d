---------------------------- MODULE ClassifiedRetry ----------------------------
(***************************************************************************)
(* The retry loop around every adapter call (credentials.                  *)
(* DoWithClassifiedRetry), run by several workers at once on one backend,  *)
(* with the degradation state they share (types.FSDegradationState): the   *)
(* backoff streak, the rate limit window the migration engine reads, and   *)
(* the evidence that ambiguous errors are throttling (AmbiguousTracker).   *)
(*                                                                         *)
(* Time is relative: a window and a sleep are what is left of them, in     *)
(* seconds, and Tick lets one second pass for everybody. Jitter and the    *)
(* sub-second sleeps of the other buckets are left out.                    *)
(***************************************************************************)
EXTENDS AmbiguousTracker

CONSTANTS
  Workers,              \* goroutines with an adapter call in the loop
  MaxIterations,
  MaxAmbiguousRetries,
  MaxGenericRetries,
  MaxStreak,            \* where the backoff stops doubling (6 in the code)
  MaxRateLimitSleep,
  RetryAfters,          \* what a provider may send; 0 is no Retry-After
  Adapters,             \* the ways adapters configure the loop
  MaxEvidence           \* bound: ambiguous errors of one backend

\* scheduled: the adapter schedules its backoff in classifyError and reports
\* exhaustion (the cloud adapters). waits: its limit on rate limit waits.
Config(scheduled, waits) == [scheduled |-> scheduled, waits |-> waits]

ASSUME RetryAssumption ==
  /\ MaxIterations \in Nat
  /\ MaxAmbiguousRetries \in Nat /\ MaxGenericRetries \in Nat
  /\ MaxStreak \in 1 .. 6 /\ MaxRateLimitSleep \in Nat \ {0}
  /\ RetryAfters \subseteq Nat
  /\ Adapters \subseteq [scheduled: BOOLEAN, waits: Nat]
  /\ MaxEvidence \in Nat

VARIABLES
  adapter,  \* the configuration of the backend the workers share
  streak,   \* throttleStreak, up to where it stops mattering
  window,   \* what is left of rateLimitedUntil
  evidence, \* what the tracker of the backend remembers
  job       \* the loop of each worker

vars == <<adapter, streak, window, evidence, job>>

\* i: iterations begun; rate, ambiguous, generic: the loop's counters.
\* after: the Retry-After of the last throttle. left: what is left to sleep,
\* or of the backoff reported.
Idle == [at |-> "idle", i |-> 0, refreshed |-> FALSE, rate |-> 0, ambiguous |-> 0,
         generic |-> 0, after |-> 0, left |-> 0]

Init ==
  /\ adapter \in Adapters
  /\ streak = 0
  /\ window = 0
  /\ evidence = NoEvidence
  /\ job = [w \in Workers |-> Idle]
-----------------------------------------------------------------------------
Least(a, b) == IF a <= b THEN a ELSE b
Most(a, b)  == IF a >= b THEN a ELSE b

At(w, a) == job[w].at = a
Set(w, j) == job' = [job EXCEPT ![w] = j]

\* The next iteration, unless they are used up.
Again(j) == IF j.i < MaxIterations THEN [j EXCEPT !.at = "op", !.i = @ + 1]
            ELSE [Idle EXCEPT !.at = "returned"]
Returned == [Idle EXCEPT !.at = "returned"]

\* Mutant: the exponent grows with the streak.
AdvancedUncapped == streak + 1

\* ScheduleThrottleBackoff: 1, 2, 4, ... by the streak it has just advanced.
Advanced == Least(streak + 1, MaxStreak)
Backoff(n) == 2 ^ (n - 1)

\* Mutant: the last report wins.
RecordSignalLast(d) == window' = d

\* RecordSignal: the window is only ever extended.
RecordSignal(d) == window' = Most(window, d)
-----------------------------------------------------------------------------
Call(w) ==
  /\ At(w, "idle")
  /\ Set(w, Again(Idle))
  /\ UNCHANGED <<adapter, streak, window, evidence>>

\* ctx.Err() before an attempt, or sleepCtx cut short.
Cancel(w) ==
  /\ job[w].at \in {"op", "rateSleep", "ambiguousSleep", "genericSleep"}
  /\ Set(w, Returned)
  /\ UNCHANGED <<adapter, streak, window, evidence>>

\* op succeeds: ClearThrottleStreak.
Succeed(w) ==
  /\ At(w, "op")
  /\ streak' = 0
  /\ Set(w, Returned)
  /\ UNCHANGED <<adapter, window, evidence>>

Fatal(w) ==
  /\ At(w, "op")
  /\ Set(w, Returned)
  /\ UNCHANGED <<adapter, streak, window, evidence>>

\* Mutant: every auth failure refreshes.
AuthFailureAgain(w) ==
  /\ At(w, "op")
  /\ Set(w, [job[w] EXCEPT !.at = "refresh"])
  /\ UNCHANGED <<adapter, streak, window, evidence>>

\* An auth failure refreshes once; a later one is classified like any error.
AuthFailure(w) ==
  /\ At(w, "op") /\ ~job[w].refreshed
  /\ Set(w, [job[w] EXCEPT !.at = "refresh"])
  /\ UNCHANGED <<adapter, streak, window, evidence>>

\* The loop goes round without touching rateWaits.
Refresh(w) ==
  /\ At(w, "refresh")
  /\ Set(w, Again([job[w] EXCEPT !.refreshed = TRUE]))
  /\ UNCHANGED <<adapter, streak, window, evidence>>

RefreshFails(w) ==
  /\ At(w, "refresh")
  /\ Set(w, Returned)
  /\ UNCHANGED <<adapter, streak, window, evidence>>

\* Classify finds a throttle. A scheduling adapter picks the backoff now.
Throttled(w, after) ==
  /\ At(w, "op")
  /\ IF adapter.scheduled /\ after = 0
     THEN /\ streak' = Advanced
          /\ Set(w, [job[w] EXCEPT !.at = "throttled", !.after = 0,
                                   !.left = Backoff(Advanced)])
     ELSE /\ Set(w, [job[w] EXCEPT !.at = "throttled", !.after = after,
                                   !.left = IF after = 0 THEN 1 ELSE after])
          /\ UNCHANGED streak
  /\ UNCHANGED <<adapter, window, evidence>>

\* OnRateLimitWait reports the sleep, capped, before it begins.
Wait(w) ==
  LET sleep == Least(job[w].left, MaxRateLimitSleep)
  IN  /\ At(w, "throttled") /\ job[w].rate < adapter.waits
      /\ RecordSignal(sleep)
      /\ Set(w, [job[w] EXCEPT !.at = "rateSleep", !.left = sleep])
      /\ UNCHANGED <<adapter, streak, evidence>>

\* OnRateLimitExhausted picks a backoff of its own, for the same error ...
Exhaust(w) ==
  /\ At(w, "throttled") /\ job[w].rate >= adapter.waits
  /\ IF ~adapter.scheduled
     THEN Set(w, Returned) /\ UNCHANGED streak
     ELSE IF job[w].after = 0
          THEN /\ streak' = Advanced
               /\ Set(w, [job[w] EXCEPT !.at = "exhausted", !.left = Backoff(Advanced)])
          ELSE Set(w, [job[w] EXCEPT !.at = "exhausted"]) /\ UNCHANGED streak
  /\ UNCHANGED <<adapter, window, evidence>>

\* ... and reports it; then the call returns the throttle to its worker.
Report(w) ==
  /\ At(w, "exhausted")
  /\ RecordSignal(job[w].left)
  /\ Set(w, [Idle EXCEPT !.at = "limited", !.left = job[w].left])
  /\ UNCHANGED <<adapter, streak, evidence>>

\* An ambiguous error, which the cloud services' errors never are. It is recorded
\* with the number of workers the engine last reported, and if the tracker takes
\* it for a hidden throttle it is reported and slept like one.
Ambiguous(w, high) ==
  /\ At(w, "op") /\ ~adapter.scheduled
  /\ IF job[w].ambiguous >= MaxAmbiguousRetries
     THEN Set(w, Returned) /\ UNCHANGED <<window, evidence>>
     ELSE /\ Total(evidence) < MaxEvidence
          /\ evidence' = Record(evidence, high)
          /\ LET suspected == SuspectedThrottle(evidence')
             IN /\ Set(w, [job[w] EXCEPT !.at = "ambiguousSleep", !.rate = 0,
                                         !.left = IF suspected THEN 1 ELSE 0])
                /\ IF suspected THEN RecordSignal(1) ELSE UNCHANGED window
  /\ UNCHANGED <<adapter, streak>>

Generic(w) ==
  /\ At(w, "op")
  /\ Set(w, IF job[w].generic >= MaxGenericRetries THEN Returned
            ELSE [job[w] EXCEPT !.at = "genericSleep", !.rate = 0, !.left = 0])
  /\ UNCHANGED <<adapter, streak, window, evidence>>

\* A sleep is over: its counter goes up and the loop goes round.
Wake(w) ==
  /\ job[w].left = 0
  /\ \/ At(w, "rateSleep") /\ Set(w, Again([job[w] EXCEPT !.rate = @ + 1]))
     \/ At(w, "ambiguousSleep") /\ Set(w, Again([job[w] EXCEPT !.ambiguous = @ + 1]))
     \/ At(w, "genericSleep") /\ Set(w, Again([job[w] EXCEPT !.generic = @ + 1]))
  /\ UNCHANGED <<adapter, streak, window, evidence>>

\* The worker goes on to its next call.
Leave(w) ==
  /\ job[w].at \in {"returned", "limited"}
  /\ Set(w, Idle)
  /\ UNCHANGED <<adapter, streak, window, evidence>>

Tick ==
  /\ \/ window > 0 \/ evidence # Passes(evidence)
     \/ \E w \in Workers : job[w].at # "throttled" /\ job[w].left > 0
  /\ window' = Most(window - 1, 0)
  /\ evidence' = Passes(evidence)
  /\ job' = [w \in Workers |->
               IF job[w].at \in {"rateSleep", "ambiguousSleep", "limited"}
               THEN [job[w] EXCEPT !.left = Most(@ - 1, 0)] ELSE job[w]]
  /\ UNCHANGED <<adapter, streak>>
-----------------------------------------------------------------------------
Attempt(w) ==
  \/ Succeed(w) \/ Fatal(w) \/ AuthFailure(w) \/ Generic(w)
  \/ \E after \in RetryAfters : Throttled(w, after)
  \/ \E high \in BOOLEAN : Ambiguous(w, high)

InLoop(w) ==
  \/ Attempt(w) \/ Refresh(w) \/ RefreshFails(w)
  \/ Wait(w) \/ Exhaust(w) \/ Report(w) \/ Wake(w)

Next == Tick \/ \E w \in Workers : Call(w) \/ Cancel(w) \/ InLoop(w) \/ Leave(w)

Spec == Init /\ [][Next]_vars

-----------------------------------------------------------------------------
Ats == {"idle", "op", "refresh", "throttled", "rateSleep", "exhausted", "limited",
        "ambiguousSleep", "genericSleep", "returned"}

\* Every variable keeps its type.
TypeOK ==
  /\ adapter \in Adapters
  /\ streak \in 0 .. MaxStreak
  /\ window \in Nat
  /\ evidence \in [highWorkers: Nat, lowWorkers: Nat, gaps: Seq(0 .. BurstWindow + 1)]
  /\ Len(evidence.gaps) = Least(Total(evidence), MaxTimestamps)
  /\ job \in [Workers ->
       [at: Ats, i: Nat, refreshed: BOOLEAN, rate: Nat, ambiguous: Nat, generic: Nat,
        after: RetryAfters \cup {0}, left: Nat]]

\* Every attempt after the first is paid for out of a budget: the one refresh,
\* the ambiguous and the generic retries, and a fresh run of rate limit waits
\* after each of those. So the attempts of a call are bounded by the budgets
\* alone, whatever mix of errors the provider returns, MaxIterations apart.
RefreshesOf(j) == IF j.refreshed THEN 1 ELSE 0
AttemptsAreBudgeted ==
  \A w \in Workers :
    LET j == job[w] IN
      j.i <= 1 + RefreshesOf(j)
               + (adapter.waits + 1) * (j.ambiguous + j.generic)
               + (IF j.at \in {"ambiguousSleep", "genericSleep"}
                  THEN adapter.waits ELSE j.rate)

\* A worker that sleeps for a throttle, told or suspected, or has just been turned
\* away by one, has announced it: the window other workers and the engine see
\* lasts at least as long, whoever else reports in between.
ThrottleIsAnnounced ==
  \A w \in Workers :
    job[w].at \in {"rateSleep", "ambiguousSleep", "limited"} => window >= job[w].left

=============================================================================
