------------------------------ MODULE Throttle ------------------------------
(***************************************************************************)
(* The in-memory attempt limiter (transport.Throttle): a map from keys to  *)
(* attempt states.  Every operation holds the map's mutex, so each is one  *)
(* step.                                                                   *)
(*                                                                         *)
(* Instants are kept as ages: lock is lockedUntil - now and idle is        *)
(* now - lastSeen, counted in ticks of the clock and no further than the   *)
(* code tells them apart.                                                  *)
(***************************************************************************)
EXTENDS Integers, FiniteSets

CONSTANTS
    Keys, Absent,
    MaxFailures,    \* security.login-max-failures; 0 builds no limiter at all
    BaseLockout,    \* security.login-lockout, in ticks
    MaxMultiplier,  \* maxBackoffMultiplier: 32 in the code
    SoftCap,        \* throttleSoftCap: 10000 in the code
    Second          \* ticks in a second

VARIABLE states     \* states[k]: the attempt state of key k, or Absent

\* The multiplier stops growing by then: the bound of the counters.
FailureCap == MaxFailures + 5

-----------------------------------------------------------------------------

Doublings == <<1, 2, 4, 8, 16>>

\* backoff: the base doubled once per failure beyond the threshold, capped.
backoffUncapped(failures) ==
    BaseLockout * (IF failures - MaxFailures < 5
                   THEN Doublings[failures - MaxFailures + 1] ELSE 32)
backoff(failures) ==
    LET excess == failures - MaxFailures IN
    BaseLockout * (IF excess < 5 /\ Doublings[excess + 1] < MaxMultiplier
                   THEN Doublings[excess + 1] ELSE MaxMultiplier)

retention == BaseLockout * MaxMultiplier

AttemptState == [failures: 1 .. FailureCap, lock: -1 .. retention, idle: 0 .. retention + 1]

ASSUME ConstantsAssumption ==
    /\ IsFiniteSet(Keys)
    /\ MaxFailures \in Nat \ {0}
    /\ BaseLockout \in Nat \ {0}
    /\ MaxMultiplier \in 1 .. 32
    /\ SoftCap \in Nat
    /\ Second \in Nat \ {0}
    /\ Absent \notin AttemptState

Allowed(k) == states[k] # Absent => states[k].lock <= 0

isExpiredOnceIdle(st) == st.idle >= BaseLockout
isExpired(st) == st.lock < 0 /\ st.idle > retention

\* sweepLocked, on the map ss.
sweepIdle(ss) ==
    IF Cardinality({k \in Keys : ss[k] # Absent}) <= SoftCap THEN ss
    ELSE [k \in Keys |-> IF ss[k] # Absent /\ ss[k].idle > BaseLockout THEN Absent ELSE ss[k]]
sweepLocked(ss) ==
    IF Cardinality({k \in Keys : ss[k] # Absent}) <= SoftCap THEN ss
    ELSE [k \in Keys |-> IF ss[k] # Absent /\ isExpired(ss[k]) THEN Absent ELSE ss[k]]

\* One more bad attempt: an unknown or expired state starts over.
FailedUnseen(st) ==
    LET known == st # Absent
        failures == IF known
                    THEN IF st.failures < FailureCap THEN st.failures + 1 ELSE FailureCap
                    ELSE 1
    IN  [failures |-> failures,
         lock |-> IF failures >= MaxFailures THEN backoff(failures)
                  ELSE IF known THEN st.lock ELSE -1,
         idle |-> IF known THEN st.idle ELSE 0]
Failed(st) ==
    LET known    == st # Absent /\ ~isExpired(st)
        failures == IF known
                    THEN IF st.failures < FailureCap THEN st.failures + 1 ELSE FailureCap
                    ELSE 1
    IN  [failures |-> failures,
         lock |-> IF failures >= MaxFailures THEN backoff(failures)
                  ELSE IF known THEN st.lock ELSE -1,
         idle |-> 0]

\* retryAfterSeconds, of a lock of d ticks.
retryAfterRoundedDown(d) == IF d \div Second < 1 THEN 1 ELSE d \div Second
retryAfterSeconds(d) ==
    LET secs == (d + Second - 1) \div Second IN IF secs < 1 THEN 1 ELSE secs

-----------------------------------------------------------------------------

Init == states = [k \in Keys |-> Absent]

Penalize(k) == states' = sweepLocked([states EXCEPT ![k] = Failed(@)])

Reset(k) == states' = [states EXCEPT ![k] = Absent]

\* The clock advances.
Older(st) == [failures |-> st.failures,
              lock |-> IF st.lock > -1 THEN st.lock - 1 ELSE -1,
              idle |-> IF st.idle <= retention THEN st.idle + 1 ELSE st.idle]
Tick == states' = [k \in Keys |-> IF states[k] = Absent THEN Absent ELSE Older(states[k])]

\* The limiter lives in the process.
Restart == states' = [k \in Keys |-> Absent]

Next == Tick \/ Restart \/ \E k \in Keys : Penalize(k) \/ Reset(k)

Spec == Init /\ [][Next]_states

-----------------------------------------------------------------------------
(* Properties *)

TypeOK == states \in [Keys -> AttemptState \cup {Absent}]

Locked(k) == ~Allowed(k)

\* The lock of a key follows from its failures and from when the last one was:
\* below the threshold there is none, from there on it is the backoff.
LockFollowsFailures ==
    \A k \in Keys : states[k] # Absent =>
        LET st   == states[k]
            left == backoff(st.failures) - st.idle
        IN  st.lock = IF st.failures >= MaxFailures /\ left >= 0 THEN left ELSE -1

\* A lock in force gives way to the clock, to a good attempt and to a restart
\* only: no further failure shortens it, and neither the fresh start of a stale
\* key nor the sweep ever meets a key that is still locked.
LockOnlyGrows ==
    [][\A k \in Keys :
        Locked(k) /\ ~Tick /\ ~Reset(k) /\ ~Restart =>
            states'[k] # Absent /\ states'[k].lock >= states[k].lock]_states

\* The Retry-After of a refusal is the time to wait in whole seconds, rounded
\* up: enough, and by less than a second too much.
RetryAfterIsRight ==
    \A k \in Keys : Locked(k) =>
        LET wait == Second * retryAfterSeconds(states[k].lock) IN
        wait >= states[k].lock /\ wait < states[k].lock + Second

\* Keeping stale states around, starting over from them and sweeping some of
\* them now and then cannot be told from forgetting each when its time comes.
Known(k) == states[k] # Absent /\ ~(states[k].lock < 0 /\ states[k].idle > retention)
L == INSTANCE Limiter WITH
        count     <- [k \in Keys |-> IF Known(k) THEN states[k].failures ELSE 0],
        lock      <- [k \in Keys |-> IF Known(k) /\ states[k].lock > 0 THEN states[k].lock ELSE 0],
        quiet     <- [k \in Keys |-> IF Known(k) THEN states[k].idle ELSE 0],
        Lockout   <- [n \in MaxFailures .. FailureCap |-> backoff(n)],
        Retention <- retention
ImplementsLimiter == L!Spec

=============================================================================
