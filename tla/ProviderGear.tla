----------------------------- MODULE ProviderGear -----------------------------
(***************************************************************************)
(* One external provider behind its gear, providers/resilient.py: cache,   *)
(* daily quota, token bucket, circuit breaker, then the real service, and  *)
(* a deterministic fallback for whatever is refused or fails.  The gear is *)
(* one set of objects per process; each of its methods takes a lock of its *)
(* own, and nothing is held across two of them or across the call itself,  *)
(* so the calls of the threads interleave between the gates.               *)
(***************************************************************************)
EXTENDS Naturals, FiniteSets

CONSTANTS
  Callers,      \* threads that call the provider
  Near,         \* 90 percent of the daily maximum
  Capacity,     \* tokens of the bucket
  Threshold,    \* failures that open the breaker
  Recovery      \* successes that close it again

ASSUME GearAssumption ==
  /\ Near \in Nat /\ Capacity \in Nat \ {0} /\ Threshold \in Nat \ {0}
  /\ Recovery \in Nat \ {0} /\ IsFiniteSet(Callers)

VARIABLES
  at,        \* the gate a call stands before
  keeps,     \* whether the operation of a call has a time to live
  answer,    \* what the service will say to a call in flight
  breaker,   \* state, failures in the window, successes since half open, cooled down
  quota,     \* used today, as counted and as really spent
  tokens,
  tiers,     \* the caches that hold a live answer
  world      \* whether the service and Redis are up

gearVars == <<at, keeps, answer, breaker, quota, tokens, tiers, world>>

Gates == {"idle", "cache", "quota", "limiter", "breaker", "primary"}
BreakerStates == {"closed", "open", "half_open"}

GearInit ==
  /\ at = [c \in Callers |-> "idle"]
  /\ keeps = [c \in Callers |-> FALSE]
  /\ answer = [c \in Callers |-> "ok"]
  /\ breaker = [state |-> "closed", failures |-> 0, successes |-> 0, cooled |-> FALSE]
  /\ quota = [used |-> 0, spent |-> 0]
  /\ tokens = Capacity
  /\ tiers = {}
  /\ world = [service |-> TRUE, redis |-> TRUE]

Goes(c, gate) == at' = [at EXCEPT ![c] = gate]
Returns(c) == Goes(c, "idle")

(* The fallback's answer is marked as degraded and carries the reason; it  *)
(* is not cached and not counted.                                          *)
FallsBack(c) == Returns(c)

------------------------------------------------------------------------------
Call(c) ==
  /\ at[c] = "idle"
  /\ Goes(c, "cache")
  /\ \E k \in BOOLEAN : keeps' = [keeps EXCEPT ![c] = k]
  /\ UNCHANGED <<answer, breaker, quota, tokens, tiers, world>>

(* Redis first when it answers, else the memory of the process. *)
Readable == {t \in tiers : t = "redis" => world.redis}

CheckCache(c) ==
  /\ at[c] = "cache"
  /\ IF keeps[c] /\ Readable # {} THEN Returns(c) ELSE Goes(c, "quota")
  /\ UNCHANGED <<keeps, answer, breaker, quota, tokens, tiers, world>>

NearLimit == quota.used >= Near

CheckQuota(c) ==
  /\ at[c] = "quota"
  /\ IF NearLimit THEN FallsBack(c) ELSE Goes(c, "limiter")
  /\ UNCHANGED <<keeps, answer, breaker, quota, tokens, tiers, world>>

CheckLimiter(c) ==
  /\ at[c] = "limiter"
  /\ IF tokens = 0 THEN FallsBack(c) /\ UNCHANGED tokens
     ELSE Goes(c, "breaker") /\ tokens' = tokens - 1
  /\ UNCHANGED <<keeps, answer, breaker, quota, tiers, world>>

(* The first to ask after the cool-down makes it half open; from then on   *)
(* every caller passes until one of them reports.                          *)
Refuses == breaker.state = "open" /\ ~breaker.cooled

\* Mutant: each probe starts the count of successes again.
ProbedAgain ==
  IF breaker.state # "closed" THEN [breaker EXCEPT !.state = "half_open", !.successes = 0]
  ELSE breaker
Probed ==
  IF breaker.state = "open" THEN [breaker EXCEPT !.state = "half_open", !.successes = 0]
  ELSE breaker

CheckBreaker(c) ==
  /\ at[c] = "breaker"
  /\ IF Refuses THEN FallsBack(c) /\ UNCHANGED <<breaker, answer>>
     ELSE /\ Goes(c, "primary") /\ breaker' = Probed
          /\ answer' = [answer EXCEPT ![c] = IF world.service THEN "ok" ELSE "failed"]
  /\ UNCHANGED <<keeps, quota, tokens, tiers, world>>

Succeeded ==
  IF breaker.state # "half_open" THEN [breaker EXCEPT !.failures = 0]
  ELSE IF breaker.successes + 1 >= Recovery
       THEN [breaker EXCEPT !.state = "closed", !.failures = 0, !.successes = 0]
       ELSE [breaker EXCEPT !.failures = 0, !.successes = @ + 1]

Opened(b) == [b EXCEPT !.state = "open", !.cooled = FALSE]

(* The window is the last Threshold failures with no success in between,   *)
(* however old.  A late failure of an open breaker starts its cool-down    *)
(* again.                                                                  *)
Failed ==
  LET failures == IF breaker.failures = Threshold THEN Threshold ELSE breaker.failures + 1
      counted == [breaker EXCEPT !.failures = failures]
  IN  IF breaker.state = "half_open" THEN Opened(breaker)
      ELSE IF failures = Threshold THEN Opened(counted) ELSE counted

Put(c) == IF ~keeps[c] THEN tiers ELSE tiers \cup {IF world.redis THEN "redis" ELSE "memory"}

\* Mutant: only what is cached is counted.
CountedWithCache(c) == [used |-> quota.used + (IF keeps[c] THEN 1 ELSE 0), spent |-> quota.spent + 1]
Counted(c) == [used |-> quota.used + 1, spent |-> quota.spent + 1]

PrimaryAnswers(c) ==
  /\ at[c] = "primary" /\ answer[c] = "ok"
  /\ breaker' = Succeeded
  /\ quota' = Counted(c)
  /\ tiers' = Put(c)
  /\ Returns(c)
  /\ UNCHANGED <<keeps, answer, tokens, world>>

(* An exception, a time-out or an answer that is not ok. *)
PrimaryFails(c) ==
  /\ at[c] = "primary" /\ answer[c] = "failed"
  /\ breaker' = Failed
  /\ FallsBack(c)
  /\ UNCHANGED <<keeps, answer, quota, tokens, tiers, world>>

------------------------------------------------------------------------------
CoolsDown ==
  /\ breaker.state = "open" /\ ~breaker.cooled
  /\ breaker' = [breaker EXCEPT !.cooled = TRUE]
  /\ UNCHANGED <<at, keeps, answer, quota, tokens, tiers, world>>

Refill ==
  /\ tokens < Capacity
  /\ tokens' = tokens + 1
  /\ UNCHANGED <<at, keeps, answer, breaker, quota, tiers, world>>

DayTurns ==
  /\ quota.spent > 0
  /\ quota' = [used |-> 0, spent |-> 0]
  /\ UNCHANGED <<at, keeps, answer, breaker, tokens, tiers, world>>

Expires ==
  /\ \E t \in tiers : tiers' = tiers \ {t}
  /\ UNCHANGED <<at, keeps, answer, breaker, quota, tokens, world>>

(* A call that is in flight when the service goes away fails with it. *)
ServiceTurns ==
  /\ world' = [world EXCEPT !.service = ~@]
  /\ answer' = [c \in Callers |-> IF world.service /\ at[c] = "primary" THEN "failed" ELSE answer[c]]
  /\ UNCHANGED <<at, keeps, breaker, quota, tokens, tiers>>

RedisTurns ==
  /\ world' = [world EXCEPT !.redis = ~@]
  /\ UNCHANGED <<at, keeps, answer, breaker, quota, tokens, tiers>>

Thread(c) ==
  \/ Call(c) \/ CheckCache(c) \/ CheckQuota(c) \/ CheckLimiter(c) \/ CheckBreaker(c)
  \/ PrimaryAnswers(c) \/ PrimaryFails(c)
Time == CoolsDown \/ Refill \/ DayTurns \/ Expires

GearNext == (\E c \in Callers : Thread(c)) \/ Time \/ ServiceTurns \/ RedisTurns

(* Threads run and an HTTP call ends, with an answer or its time-out; time *)
(* passes.  Calls keep coming: the promise below is about a provider that  *)
(* is used.                                                                *)
GearSpec ==
  /\ GearInit /\ [][GearNext]_gearVars
  /\ \A c \in Callers : WF_gearVars(Thread(c))
  /\ WF_gearVars(CoolsDown) /\ WF_gearVars(Refill) /\ WF_gearVars(DayTurns)
  /\ WF_gearVars(Expires)

------------------------------------------------------------------------------
TypeOK ==
  /\ at \in [Callers -> Gates] /\ keeps \in [Callers -> BOOLEAN]
  /\ answer \in [Callers -> {"ok", "failed"}]
  /\ breaker \in [state : BreakerStates, failures : 0 .. Threshold,
                  successes : 0 .. Recovery, cooled : BOOLEAN]
  /\ quota \in [used : Nat, spent : Nat] /\ tokens \in 0 .. Capacity
  /\ tiers \subseteq {"redis", "memory"} /\ world \in [service : BOOLEAN, redis : BOOLEAN]

(* The quota is read before the call and counted after it, so calls may    *)
(* pass together; but never by more than one each (gear/quota.py).         *)
QuotaHolds == quota.spent < Near + Cardinality(Callers)

(* A breaker that opened, by itself or again by the failure of a call that *)
(* was sent before, does not keep a service away that is well again        *)
(* (gear/breaker.py: cool-down, half open, closed).                        *)
ServiceIsUsedAgain == <>[]world.service => <>[](breaker.state = "closed")
=============================================================================
