---------------------------- MODULE AmbiguousTracker ----------------------------
(***************************************************************************)
(* What a backend remembers of its ambiguous errors (types.                *)
(* AmbiguousErrorTracker), for one operation and one code, and when it     *)
(* takes them for hidden throttling. Of its timestamps, which are compared *)
(* with one another only, the gaps between them are kept.                  *)
(***************************************************************************)
EXTENDS Integers, Sequences

LOCAL INSTANCE Functions

CONSTANTS
  MinSamples,    \* errors before anything is suspected (4 in the code)
  BurstCount,    \* errors that make a burst (3) ...
  BurstWindow,   \* ... within so many seconds (2)
  MaxTimestamps  \* the latest errors that are remembered (32)

ASSUME TrackerAssumption ==
  /\ {MinSamples, BurstCount, MaxTimestamps} \subseteq Nat \ {0}
  /\ BurstWindow \in Nat

\* highWorkers, lowWorkers: errors under high concurrency, and the others. gaps:
\* the seconds between one remembered error and the next, ended by those since
\* the last one; past BurstWindow they all count alike.
NoEvidence == [highWorkers |-> 0, lowWorkers |-> 0, gaps |-> << >>]

Total(st) == st.highWorkers + st.lowWorkers

Record(st, high) ==
  [highWorkers |-> st.highWorkers + (IF high THEN 1 ELSE 0),
   lowWorkers  |-> st.lowWorkers + (IF high THEN 0 ELSE 1),
   gaps        |-> LET all == Append(st.gaps, 0)
                   IN IF Len(all) > MaxTimestamps THEN Tail(all) ELSE all]

Passes(st) ==
  [st EXCEPT !.gaps = [i \in DOMAIN @ |->
     IF i = Len(@) /\ @[i] <= BurstWindow THEN @[i] + 1 ELSE @[i]]]

\* A burst counts however long ago it was, until it is forgotten.
HasBurst(st) ==
  \E i \in 1 .. Len(st.gaps) - BurstCount + 1 :
    SumFunctionOnSet(st.gaps, i .. i + BurstCount - 2) <= BurstWindow

SuspectedThrottle(st) ==
  /\ Total(st) >= MinSamples
  /\ HasBurst(st)
  /\ st.highWorkers >= 2
  /\ \/ st.highWorkers >= st.lowWorkers + 2
     \/ st.lowWorkers = 0 /\ st.highWorkers >= MinSamples
=============================================================================
