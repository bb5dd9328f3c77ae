--------------------------- MODULE ThrottleProofs ---------------------------
(***************************************************************************)
(* Theorems about the attempt limiter, for any keys, thresholds, lockouts, *)
(* caps and clock resolution, and about the handlers that use it.          *)
(***************************************************************************)
EXTENDS Login, TLAPS

-----------------------------------------------------------------------------
(* Durations *)

LEMMA Scales ==
    ASSUME NEW b \in Nat, NEW m \in Nat, NEW n \in Nat, m <= n
    PROVE  b * m \in Nat /\ b * m <= b * n
<1>1. PICK d \in Nat : n = m + d
  BY n - m \in Nat
<1>2. b * n = b * m + b * d /\ b * d \in Nat /\ b * m \in Nat
  BY <1>1
<1> QED
  BY <1>2

\* The multiplier of a lockout.
multiplier(f) ==
    IF f - MaxFailures < 5 /\ Doublings[f - MaxFailures + 1] < MaxMultiplier
    THEN Doublings[f - MaxFailures + 1] ELSE MaxMultiplier

LEMMA MultiplierFacts ==
    ASSUME NEW f \in MaxFailures .. FailureCap
    PROVE  /\ multiplier(f) \in 1 .. MaxMultiplier
           /\ \A g \in MaxFailures .. FailureCap : f <= g => multiplier(f) <= multiplier(g)
<1>1. MaxFailures \in Nat /\ MaxMultiplier \in Nat /\ MaxMultiplier >= 1 /\ MaxMultiplier <= 32
  BY ConstantsAssumption
<1>2. /\ Doublings[1] = 1 /\ Doublings[2] = 2 /\ Doublings[3] = 4
      /\ Doublings[4] = 8 /\ Doublings[5] = 16
  BY DEF Doublings
<1>3. \A g \in MaxFailures .. FailureCap : g - MaxFailures \in {0, 1, 2, 3, 4, 5}
  BY <1>1 DEF FailureCap
<1>4. \A g \in MaxFailures .. FailureCap :
         LET e == g - MaxFailures IN
         /\ e = 0 => multiplier(g) = IF 1 < MaxMultiplier THEN 1 ELSE MaxMultiplier
         /\ e = 1 => multiplier(g) = IF 2 < MaxMultiplier THEN 2 ELSE MaxMultiplier
         /\ e = 2 => multiplier(g) = IF 4 < MaxMultiplier THEN 4 ELSE MaxMultiplier
         /\ e = 3 => multiplier(g) = IF 8 < MaxMultiplier THEN 8 ELSE MaxMultiplier
         /\ e = 4 => multiplier(g) = IF 16 < MaxMultiplier THEN 16 ELSE MaxMultiplier
         /\ e = 5 => multiplier(g) = MaxMultiplier
  BY <1>1, <1>2 DEF multiplier
<1>5. \A g \in MaxFailures .. FailureCap : multiplier(g) \in 1 .. MaxMultiplier
  BY <1>1, <1>3, <1>4
<1>6. \A g \in MaxFailures .. FailureCap : f <= g => f - MaxFailures <= g - MaxFailures
  BY <1>1 DEF FailureCap
<1> QED
  BY <1>1, <1>3, <1>4, <1>5, <1>6

\* A lockout is between one tick and the retention, and never shorter than
\* the one before.
LEMMA BackoffFacts ==
    /\ retention \in Nat /\ retention >= 1
    /\ \A f \in MaxFailures .. FailureCap : backoff(f) \in 1 .. retention
    /\ \A f, g \in MaxFailures .. FailureCap : f <= g => backoff(f) <= backoff(g)
<1>1. BaseLockout \in Nat /\ BaseLockout >= 1 /\ MaxMultiplier \in Nat /\ MaxMultiplier >= 1
  BY ConstantsAssumption
<1>2. \A f : backoff(f) = BaseLockout * multiplier(f)
  BY DEF backoff, multiplier
<1>3. BaseLockout * 1 = BaseLockout
  BY <1>1
<1>4. retention \in Nat /\ retention >= 1
  BY <1>1, <1>3, Scales DEF retention
<1>5. ASSUME NEW f \in MaxFailures .. FailureCap
      PROVE  backoff(f) \in 1 .. retention
  <2>1. multiplier(f) \in Nat /\ 1 <= multiplier(f) /\ multiplier(f) <= MaxMultiplier
    BY MultiplierFacts, <1>1
  <2>2. BaseLockout * 1 <= BaseLockout * multiplier(f)
    BY <2>1, <1>1, Scales
  <2>3. BaseLockout * multiplier(f) \in Nat
        /\ BaseLockout * multiplier(f) <= BaseLockout * MaxMultiplier
    BY <2>1, <1>1, Scales
  <2> QED
    BY <2>2, <2>3, <1>1, <1>2, <1>3, <1>4 DEF retention
<1>6. ASSUME NEW f \in MaxFailures .. FailureCap, NEW g \in MaxFailures .. FailureCap, f <= g
      PROVE  backoff(f) <= backoff(g)
  <2>1. multiplier(f) \in Nat /\ multiplier(g) \in Nat /\ multiplier(f) <= multiplier(g)
    BY MultiplierFacts, <1>1, <1>6
  <2> QED
    BY <2>1, <1>1, <1>2, Scales
<1> QED
  BY <1>4, <1>5, <1>6

-----------------------------------------------------------------------------
(* One attempt state *)

\* What LockFollowsFailures says of one state.
Consistent(st) ==
    st.lock = IF st.failures >= MaxFailures /\ backoff(st.failures) - st.idle >= 0
              THEN backoff(st.failures) - st.idle ELSE -1

Sound(st) == st \in AttemptState /\ Consistent(st)

LEMMA Numbers ==
    /\ MaxFailures \in Nat /\ MaxFailures >= 1
    /\ FailureCap = MaxFailures + 5 /\ FailureCap \in Nat
BY ConstantsAssumption DEF FailureCap

\* The state after one more failure: it is consistent, counts at least as far
\* and locks at least as long as the state it replaces, if that was locked.
LEMMA FailedSound ==
    ASSUME NEW st, st # Absent => Sound(st)
    PROVE  /\ Sound(Failed(st))
           /\ st # Absent /\ st.lock > 0 => Failed(st).lock >= st.lock
<1> DEFINE known == st # Absent /\ ~isExpired(st)
           f == IF known THEN IF st.failures < FailureCap THEN st.failures + 1 ELSE FailureCap
                ELSE 1
           l == IF f >= MaxFailures THEN backoff(f) ELSE IF known THEN st.lock ELSE -1
<1>1. Failed(st) = [failures |-> f, lock |-> l, idle |-> 0]
  BY DEF Failed
<1>2. st # Absent => /\ st.failures \in 1 .. FailureCap /\ st.lock \in -1 .. retention
                     /\ st.idle \in 0 .. retention + 1
                     /\ Consistent(st)
  BY DEF Sound, AttemptState
<1>3. f \in 1 .. FailureCap /\ (known => st.failures <= f)
  BY <1>2, Numbers
<1>4. f < MaxFailures => l = -1
  BY <1>2, <1>3, Numbers DEF Consistent
<1>5. f >= MaxFailures => l = backoff(f) /\ f \in MaxFailures .. FailureCap
  BY <1>3, Numbers
<1>6. l \in -1 .. retention
  BY <1>3, <1>4, <1>5, BackoffFacts, Numbers
<1> HIDE DEF f, l
<1>7. ASSUME st # Absent, st.lock > 0 PROVE l >= st.lock
  <2>1. known
    BY <1>2, <1>7, BackoffFacts DEF isExpired
  <2>2. st.failures >= MaxFailures /\ st.lock = backoff(st.failures) - st.idle
    BY <1>2, <1>7 DEF Consistent
  <2>3. st.failures \in MaxFailures .. FailureCap /\ st.failures <= f /\ f >= MaxFailures
    BY <2>1, <2>2, <1>2, <1>3, Numbers
  <2>4. backoff(st.failures) <= backoff(f) /\ backoff(st.failures) \in Nat
    BY <2>3, <1>5, BackoffFacts
  <2>5. st.idle \in Nat /\ l = backoff(f) /\ backoff(f) \in Nat
    BY <1>2, <1>7, <2>3, <1>5, BackoffFacts
  <2> QED
    BY <2>2, <2>4, <2>5
<1>8. Failed(st) \in AttemptState
  BY <1>1, <1>3, <1>6, BackoffFacts DEF AttemptState
<1>9. Consistent(Failed(st))
  <2>1. CASE f >= MaxFailures
    BY <2>1, <1>1, <1>5, BackoffFacts DEF Consistent
  <2>2. CASE ~(f >= MaxFailures)
    BY <2>2, <1>1, <1>3, <1>4, Numbers DEF Consistent
  <2> QED
    BY <2>1, <2>2
<1> QED
  BY <1>1, <1>7, <1>8, <1>9 DEF Sound

LEMMA OlderSound ==
    ASSUME NEW st, Sound(st)
    PROVE  Sound(Older(st)) /\ Older(st).lock >= st.lock - 1 /\ Older(st) # Absent
<1> DEFINE l == IF st.lock > -1 THEN st.lock - 1 ELSE -1
           i == IF st.idle <= retention THEN st.idle + 1 ELSE st.idle
<1>1. /\ st.failures \in 1 .. FailureCap /\ st.lock \in -1 .. retention
      /\ st.idle \in 0 .. retention + 1 /\ Consistent(st)
  BY DEF Sound, AttemptState
<1>2. Older(st) = [failures |-> st.failures, lock |-> l, idle |-> i]
  BY DEF Older
<1>3. l \in -1 .. retention /\ i \in 0 .. retention + 1 /\ l >= st.lock - 1
  BY <1>1, BackoffFacts
<1>4. st.failures >= MaxFailures => backoff(st.failures) \in 1 .. retention
  BY <1>1, BackoffFacts, Numbers
<1>5. l = IF st.failures >= MaxFailures /\ backoff(st.failures) - i >= 0
          THEN backoff(st.failures) - i ELSE -1
  BY <1>1, <1>4, BackoffFacts DEF Consistent
<1> HIDE DEF l, i
<1>6. Older(st) \in AttemptState
  BY <1>1, <1>2, <1>3 DEF AttemptState
<1> QED
  BY <1>2, <1>3, <1>5, <1>6, ConstantsAssumption DEF Sound, Consistent

\* A locked state is not expired.
LEMMA LockedNotExpired ==
    ASSUME NEW st, Sound(st), st.lock > 0
    PROVE  ~isExpired(st)
BY BackoffFacts DEF isExpired, Sound, AttemptState

-----------------------------------------------------------------------------
(* The limiter *)

IInv == \A k \in Keys : states[k] # Absent => Sound(states[k])

TInv == DOMAIN states = Keys /\ states = [k \in Keys |-> states[k]] /\ IInv

LEMMA AbsentIsNone == \A st : st \in AttemptState => st # Absent
BY ConstantsAssumption

LEMMA TInvTypes == TInv <=> TypeOK /\ LockFollowsFailures
<1>1. ASSUME TInv PROVE TypeOK /\ LockFollowsFailures
  BY <1>1 DEF TInv, IInv, TypeOK, LockFollowsFailures, Sound, Consistent
<1>2. ASSUME TypeOK, LockFollowsFailures PROVE TInv
  BY <1>2 DEF TInv, IInv, TypeOK, LockFollowsFailures, Sound, Consistent
<1> QED
  BY <1>1, <1>2

LEMMA InitTInv == Init => TInv
BY DEF Init, TInv, IInv

\* The sweep removes expired states only.
LEMMA SweepFacts ==
    ASSUME NEW ss, DOMAIN ss = Keys, ss = [k \in Keys |-> ss[k]]
    PROVE  /\ DOMAIN sweepLocked(ss) = Keys
           /\ sweepLocked(ss) = [k \in Keys |-> sweepLocked(ss)[k]]
           /\ \A k \in Keys : \/ sweepLocked(ss)[k] = ss[k]
                              \/ /\ ss[k] # Absent /\ isExpired(ss[k])
                                 /\ sweepLocked(ss)[k] = Absent
BY DEF sweepLocked

\* What a failure does to each key.
LEMMA PenalizeFacts ==
    ASSUME TInv, NEW k \in Keys, Penalize(k)
    PROVE  /\ DOMAIN states' = Keys
           /\ states' = [j \in Keys |-> states'[j]]
           /\ Sound(Failed(states[k]))
           /\ states'[k] = Failed(states[k])
           /\ \A j \in Keys \ {k} : \/ states'[j] = states[j]
                                    \/ /\ states[j] # Absent /\ isExpired(states[j])
                                       /\ states'[j] = Absent
<1> DEFINE ss == [states EXCEPT ![k] = Failed(@)]
<1>1. DOMAIN ss = Keys /\ ss = [j \in Keys |-> ss[j]]
      /\ ss[k] = Failed(states[k]) /\ \A j \in Keys \ {k} : ss[j] = states[j]
  BY DEF TInv
<1>2. states' = sweepLocked(ss)
  BY DEF Penalize
<1>3. Sound(Failed(states[k]))
  BY FailedSound DEF TInv, IInv
<1>4. Failed(states[k]).idle = 0
  BY DEF Failed
<1>5. ~isExpired(Failed(states[k]))
  BY <1>4, BackoffFacts DEF isExpired
<1> HIDE DEF ss
<1> QED
  BY <1>1, <1>2, <1>3, <1>5, SweepFacts

LEMMA NextTInv == TInv /\ [Next]_states => TInv'
<1> SUFFICES ASSUME TInv, [Next]_states PROVE TInv'
  OBVIOUS
<1>1. CASE Tick
  BY <1>1, OlderSound DEF Tick, TInv, IInv
<1>2. CASE Restart
  BY <1>2 DEF Restart, TInv, IInv
<1>3. ASSUME NEW k \in Keys, Penalize(k) PROVE TInv'
  BY <1>3, PenalizeFacts DEF TInv, IInv
<1>4. ASSUME NEW k \in Keys, Reset(k) PROVE TInv'
  BY <1>4 DEF Reset, TInv, IInv
<1>5. CASE UNCHANGED states
  BY <1>5 DEF TInv, IInv
<1> QED
  BY <1>1, <1>2, <1>3, <1>4, <1>5 DEF Next

LEMMA TInvAlways == Spec => []TInv
BY InitTInv, NextTInv, PTL DEF Spec

\* The states of the limiter keep their shape; no lock exceeds the retention.
THEOREM TypeCorrect == Spec => []TypeOK
BY TInvAlways, TInvTypes, PTL

\* In every reachable state the lock of a key is what its failures and the age
\* of the last one make it.
THEOREM LocksFollow == Spec => []LockFollowsFailures
BY TInvAlways, TInvTypes, PTL

\* A Retry-After is enough, and less than a second too much.
THEOREM RetryAfterRight == Spec => []RetryAfterIsRight
<1>1. ASSUME NEW d \in Nat, d >= 1
      PROVE  LET wait == Second * retryAfterSeconds(d) IN wait >= d /\ wait < d + Second
  <2> DEFINE q == (d + Second - 1) \div Second
             m == (d + Second - 1) % Second
  <2>1. Second \in Nat /\ Second >= 1
    BY ConstantsAssumption
  <2>2. /\ q \in Int /\ m \in Int /\ m >= 0 /\ m < Second
        /\ d + Second - 1 = Second * q + m
    BY <2>1, SMT
  <2> HIDE DEF q, m
  <2>3. Second * q >= d /\ Second * q < d + Second
    BY <2>1, <2>2
  <2>4. q >= 1
    <3>1. SUFFICES ASSUME q <= 0 PROVE FALSE
      BY <2>2
    <3>2. Second * q <= 0
      BY <3>1, <2>1, <2>2
    <3>3. Second * q \in Int
      BY <2>1, <2>2
    <3> QED
      BY <1>1, <2>3, <3>2, <3>3
  <2>5. retryAfterSeconds(d) = q
    BY <2>2, <2>4 DEF retryAfterSeconds, q
  <2> QED
    BY <2>3, <2>5
<1>2. TInv => RetryAfterIsRight
  <2> SUFFICES ASSUME TInv, NEW k \in Keys, Locked(k)
               PROVE  LET wait == Second * retryAfterSeconds(states[k].lock) IN
                      wait >= states[k].lock /\ wait < states[k].lock + Second
    BY DEF RetryAfterIsRight
  <2>1. states[k].lock \in Nat /\ states[k].lock >= 1
    BY BackoffFacts DEF Locked, Allowed, TInv, IInv, Sound, AttemptState
  <2> QED
    BY <1>1, <2>1
<1> QED
  BY TInvAlways, <1>2, PTL

\* No failure and no sweep ever shortens a lock in force.
LEMMA GrowsStep ==
    ASSUME TInv, [Next]_states, NEW k \in Keys, Locked(k), ~Tick, ~Reset(k), ~Restart
    PROVE  states'[k] # Absent /\ states'[k].lock >= states[k].lock
<1>1. states[k] # Absent /\ Sound(states[k]) /\ states[k].lock > 0
  BY BackoffFacts DEF Locked, Allowed, TInv, IInv, Sound, AttemptState
<1>2. states[k].lock >= states[k].lock
  BY <1>1, BackoffFacts DEF Sound, AttemptState
<1>3. ASSUME NEW j \in Keys, Penalize(j)
      PROVE  states'[k] # Absent /\ states'[k].lock >= states[k].lock
  <2>1. CASE j = k
    BY <1>1, <1>3, <2>1, PenalizeFacts, FailedSound, AbsentIsNone DEF Sound
  <2>2. CASE j # k
    BY <1>1, <1>2, <1>3, <2>2, PenalizeFacts, LockedNotExpired
  <2> QED
    BY <2>1, <2>2
<1>4. ASSUME NEW j \in Keys, Reset(j), j # k
      PROVE  states'[k] = states[k]
  BY <1>4 DEF Reset
<1> QED
  BY <1>1, <1>2, <1>3, <1>4 DEF Next

\* A lock in force gives way to the clock, a good attempt or a restart only.
THEOREM LocksGrow == Spec => LockOnlyGrows
<1>1. TInv /\ [Next]_states =>
        [\A k \in Keys :
            Locked(k) /\ ~Tick /\ ~Reset(k) /\ ~Restart =>
                states'[k] # Absent /\ states'[k].lock >= states[k].lock]_states
  BY GrowsStep
<1> QED
  BY TInvAlways, <1>1, PTL DEF Spec, LockOnlyGrows

-----------------------------------------------------------------------------
(* The limiter implements its abstract specification *)

\* What is remembered of each key.
Count(st) == IF st # Absent /\ ~isExpired(st) THEN st.failures ELSE 0
LockOf(st) == IF st # Absent /\ ~isExpired(st) /\ st.lock > 0 THEN st.lock ELSE 0
Quiet(st) == IF st # Absent /\ ~isExpired(st) THEN st.idle ELSE 0

LEMMA FailedView ==
    ASSUME NEW st, st # Absent => Sound(st)
    PROVE  LET n == IF Count(st) < FailureCap THEN Count(st) + 1 ELSE FailureCap IN
           /\ Count(Failed(st)) = n
           /\ LockOf(Failed(st)) = IF n >= MaxFailures THEN backoff(n) ELSE 0
           /\ Quiet(Failed(st)) = 0
           /\ n >= MaxFailures => n \in MaxFailures .. FailureCap
<1> DEFINE n == IF Count(st) < FailureCap THEN Count(st) + 1 ELSE FailureCap
           x == Failed(st)
<1>1. Sound(x) /\ x # Absent
  BY FailedSound, AbsentIsNone DEF Sound
<1>2. x.idle = 0
  BY DEF Failed
<1>3. ~isExpired(x)
  BY <1>2, BackoffFacts DEF isExpired
<1>4. x.failures = n
  BY Numbers DEF Failed, Count, Sound, AttemptState
<1>5. n >= MaxFailures => n \in MaxFailures .. FailureCap
  BY <1>1, <1>4 DEF Sound, AttemptState
<1> HIDE DEF x, n
<1>6. LockOf(x) = IF n >= MaxFailures THEN backoff(n) ELSE 0
  BY <1>1, <1>2, <1>3, <1>4, <1>5, BackoffFacts DEF LockOf, Sound, Consistent
<1> QED
  BY <1>1, <1>2, <1>3, <1>4, <1>5, <1>6 DEF Count, Quiet, x, n

LEMMA OlderView ==
    ASSUME NEW st, Sound(st)
    PROVE  /\ Count(Older(st)) = IF Quiet(st) < retention THEN Count(st) ELSE 0
           /\ LockOf(Older(st)) = IF LockOf(st) > 0 THEN LockOf(st) - 1 ELSE 0
           /\ Quiet(Older(st)) = IF Count(st) > 0 /\ Quiet(st) < retention
                                 THEN Quiet(st) + 1 ELSE 0
<1>1. /\ st.failures \in 1 .. FailureCap /\ st.lock \in -1 .. retention
      /\ st.idle \in 0 .. retention + 1 /\ Consistent(st)
      /\ retention \in Nat /\ retention >= 1 /\ st # Absent
      /\ Older(st) # Absent
  BY BackoffFacts, OlderSound, AbsentIsNone DEF Sound, AttemptState
<1>2. /\ Older(st).failures = st.failures
      /\ Older(st).lock = IF st.lock > -1 THEN st.lock - 1 ELSE -1
      /\ Older(st).idle = IF st.idle <= retention THEN st.idle + 1 ELSE st.idle
  BY DEF Older
<1>3. st.failures >= MaxFailures => backoff(st.failures) \in 1 .. retention
  BY <1>1, BackoffFacts, Numbers
<1>4. st.lock <= 0 \/ st.lock <= retention - st.idle
  BY <1>1, <1>3, Numbers DEF Consistent
<1>5. st.idle >= retention => st.lock <= 0
  BY <1>1, <1>4
<1>6. st.idle > retention => st.lock = -1
  BY <1>1, <1>3, Numbers DEF Consistent
<1>7. isExpired(st) <=> st.idle = retention + 1
  BY <1>1, <1>6 DEF isExpired
<1>8. isExpired(Older(st)) <=> st.idle >= retention
  BY <1>1, <1>2, <1>5 DEF isExpired
<1> QED
  BY <1>1, <1>2, <1>5, <1>7, <1>8, Numbers DEF Count, LockOf, Quiet

LEMMA NothingView == Count(Absent) = 0 /\ LockOf(Absent) = 0 /\ Quiet(Absent) = 0
BY DEF Count, LockOf, Quiet

LEMMA ExpiredView ==
    ASSUME NEW st, isExpired(st)
    PROVE  Count(st) = 0 /\ LockOf(st) = 0 /\ Quiet(st) = 0
BY DEF Count, LockOf, Quiet

\* Every step of the limiter is one of the abstract limiter, or none at all.
LEMMA LimiterStep == TInv /\ [Next]_states => [L!Next]_(L!vars)
<1> SUFFICES ASSUME TInv, [Next]_states PROVE [L!Next]_(L!vars)
  OBVIOUS
<1> DEFINE c == [k \in Keys |-> Count(states[k])]
           l == [k \in Keys |-> LockOf(states[k])]
           q == [k \in Keys |-> Quiet(states[k])]
<1>0. /\ [k \in Keys |-> IF Known(k) THEN states[k].failures ELSE 0] = c
      /\ [k \in Keys |-> IF Known(k) /\ states[k].lock > 0 THEN states[k].lock ELSE 0] = l
      /\ [k \in Keys |-> IF Known(k) THEN states[k].idle ELSE 0] = q
      /\ [k \in Keys |-> IF Known(k)' THEN states'[k].failures ELSE 0] = c'
      /\ [k \in Keys |-> IF Known(k)' /\ states'[k].lock > 0 THEN states'[k].lock ELSE 0] = l'
      /\ [k \in Keys |-> IF Known(k)' THEN states'[k].idle ELSE 0] = q'
  BY DEF Known, Count, LockOf, Quiet, isExpired
<1>1. CASE Tick
  <2>1. \A k \in Keys : states[k] = Absent \/ Sound(states[k])
    BY DEF TInv, IInv
  <2>2. \A k \in Keys : states'[k] = IF states[k] = Absent THEN Absent ELSE Older(states[k])
    BY <1>1 DEF Tick
  <2>3. \A k \in Keys :
          /\ Count(states'[k]) = IF Quiet(states[k]) < retention THEN Count(states[k]) ELSE 0
          /\ LockOf(states'[k]) = IF LockOf(states[k]) > 0 THEN LockOf(states[k]) - 1 ELSE 0
          /\ Quiet(states'[k]) = IF Count(states[k]) > 0 /\ Quiet(states[k]) < retention
                                 THEN Quiet(states[k]) + 1 ELSE 0
    <3> TAKE k \in Keys
    <3>1. CASE states[k] = Absent
      BY <3>1, <2>2, NothingView
    <3>2. CASE states[k] # Absent
      BY <3>2, <2>1, <2>2, OlderView
    <3> QED
      BY <3>1, <3>2
  <2>4. /\ c' = [k \in Keys |-> IF q[k] < retention THEN c[k] ELSE 0]
        /\ l' = [k \in Keys |-> IF l[k] > 0 THEN l[k] - 1 ELSE 0]
        /\ q' = [k \in Keys |-> IF c[k] > 0 /\ q[k] < retention THEN q[k] + 1 ELSE 0]
    BY <2>3
  <2> HIDE DEF c, l, q
  <2>5. L!Tick
    BY <1>0, <2>4 DEF L!Tick
  <2> QED
    BY <2>5 DEF L!Next
<1>2. CASE Restart
  <2>1. \A k \in Keys : states'[k] = Absent
    BY <1>2 DEF Restart
  <2>2. c' = [k \in Keys |-> 0] /\ l' = [k \in Keys |-> 0] /\ q' = [k \in Keys |-> 0]
    BY <2>1, NothingView
  <2> HIDE DEF c, l, q
  <2>3. L!ForgetAll
    BY <1>0, <2>2 DEF L!ForgetAll, L!Nothing
  <2> QED
    BY <2>3 DEF L!Next
<1>3. ASSUME NEW k \in Keys, Penalize(k) PROVE L!Next
  <2> DEFINE n == IF c[k] < FailureCap THEN c[k] + 1 ELSE FailureCap
  <2>1. \A j \in Keys \ {k} : /\ Count(states'[j]) = Count(states[j])
                              /\ LockOf(states'[j]) = LockOf(states[j])
                              /\ Quiet(states'[j]) = Quiet(states[j])
    BY <1>3, PenalizeFacts, NothingView, ExpiredView
  <2>2. states'[k] = Failed(states[k]) /\ (states[k] # Absent => Sound(states[k]))
    BY <1>3, PenalizeFacts DEF TInv, IInv
  <2>3. /\ Count(states'[k]) = n
        /\ LockOf(states'[k]) = IF n >= MaxFailures THEN backoff(n) ELSE 0
        /\ Quiet(states'[k]) = 0
        /\ n >= MaxFailures => n \in MaxFailures .. FailureCap
    BY <2>2, FailedView
  <2>4. n >= MaxFailures => [m \in MaxFailures .. FailureCap |-> backoff(m)][n] = backoff(n)
    BY <2>3
  <2>5. /\ c' = [c EXCEPT ![k] = n]
        /\ l' = [l EXCEPT ![k] = IF n >= MaxFailures
                    THEN [m \in MaxFailures .. FailureCap |-> backoff(m)][n] ELSE 0]
        /\ q' = [q EXCEPT ![k] = 0]
    <3> HIDE DEF n
    <3> QED
      BY <2>1, <2>3, <2>4
  <2> HIDE DEF c, l, q
  <2>6. L!Fail(k)
    BY <1>0, <2>5 DEF L!Fail
  <2> QED
    BY <2>6 DEF L!Next
<1>4. ASSUME NEW k \in Keys, Reset(k) PROVE L!Next
  <2>1. states'[k] = Absent /\ \A j \in Keys \ {k} : states'[j] = states[j]
    BY <1>4 DEF Reset, TInv
  <2>2. c' = [c EXCEPT ![k] = 0] /\ l' = [l EXCEPT ![k] = 0] /\ q' = [q EXCEPT ![k] = 0]
    BY <2>1, NothingView
  <2> HIDE DEF c, l, q
  <2>3. L!Forgive(k)
    BY <1>0, <2>2 DEF L!Forgive
  <2> QED
    BY <2>3 DEF L!Next
<1>5. CASE UNCHANGED states
  BY <1>5 DEF L!vars, Known
<1> QED
  BY <1>1, <1>2, <1>3, <1>4, <1>5 DEF Next

\* The map with its stale states, fresh starts and sweeps implements the
\* limiter that forgets each key when its time comes.
THEOREM ThrottleImplementsLimiter == Spec => ImplementsLimiter
<1>1. Init => L!Init
  BY DEF Init, L!Init, L!Nothing, Known
<1> QED
  BY <1>1, TInvAlways, LimiterStep, PTL DEF Spec, ImplementsLimiter, L!Spec

-----------------------------------------------------------------------------
(* The handlers *)

\* What the handlers know of a request where it calls the limiter.
AttemptInv ==
    /\ attempt = [c \in Clients |-> attempt[c]]
    /\ \A c \in Clients : attempt[c] # Idle => attempt[c] \in Attempt

LEMMA AttemptShape ==
    ASSUME NEW a \in Attempt
    PROVE  /\ a.key \in Accounts \cup Resets
           /\ a.step \in {"check account", "verify", "charge ip", "clear"} =>
                 a.ip \in IPs /\ a.key \in Accounts
           /\ \A s \in {"verify", "charge ip", "charge account", "clear"} :
                 a.step \notin {"reset", "charge account"} => [a EXCEPT !.step = s] \in Attempt
           /\ a.step = "reset" => [a EXCEPT !.step = "charge account"] \in Attempt
BY DEF Attempt

LEMMA AttemptInit == LoginInit => AttemptInv
BY DEF LoginInit, AttemptInv

LEMMA AttemptStep == AttemptInv /\ [LoginNext]_loginVars => AttemptInv'
<1> SUFFICES ASSUME AttemptInv, [LoginNext]_loginVars PROVE AttemptInv'
  OBVIOUS
<1>1. ASSUME NEW c \in Clients, End(c) PROVE AttemptInv'
  BY <1>1 DEF End, AttemptInv
<1>2. ASSUME NEW c \in Clients, attempt[c] # Idle,
             attempt[c].step \notin {"reset", "charge account"},
             NEW s \in {"verify", "charge ip", "charge account", "clear"}, GoTo(c, s)
      PROVE  AttemptInv'
  <2>1. [attempt[c] EXCEPT !.step = s] \in Attempt
    BY <1>2, AttemptShape DEF AttemptInv
  <2>2. attempt' = [attempt EXCEPT ![c] = [attempt[c] EXCEPT !.step = s]]
    BY <1>2 DEF GoTo
  <2> QED
    BY <2>1, <2>2 DEF AttemptInv
<1>3. ASSUME NEW c \in Clients, NEW ip \in IPs, NEW acct \in Accounts, CheckIP(c, ip, acct)
      PROVE  AttemptInv'
  <2>1. [step |-> "check account", ip |-> ip, key |-> acct] \in Attempt
    BY DEF Attempt
  <2> QED
    BY <1>3, <2>1 DEF CheckIP, AttemptInv
<1>4. ASSUME NEW c \in Clients, NEW key \in Resets, CheckReset(c, key)
      PROVE  AttemptInv'
  <2>1. [step |-> "reset", ip |-> Idle, key |-> key] \in Attempt
    BY DEF Attempt
  <2> QED
    BY <1>4, <2>1 DEF CheckReset, AttemptInv
<1>5. ASSUME NEW c \in Clients, ResetPassword(c) PROVE AttemptInv'
  <2>1. attempt[c] \in Attempt /\ attempt[c].step = "reset"
    BY <1>5 DEF ResetPassword, At, AttemptInv
  <2>2. [attempt[c] EXCEPT !.step = "charge account"] \in Attempt
    BY <2>1, AttemptShape
  <2>3. attempt' = [attempt EXCEPT ![c] = [attempt[c] EXCEPT !.step = "charge account"]]
    BY <1>5 DEF ResetPassword, GoTo
  <2> QED
    BY <2>2, <2>3 DEF AttemptInv
<1>6. ASSUME NEW c \in Clients,
             CheckAccount(c) \/ Reject(c) \/ Accept(c) \/ ChargeIP(c)
      PROVE  AttemptInv'
  BY <1>1, <1>2, <1>6 DEF CheckAccount, Reject, Accept, ChargeIP, At
<1>7. ASSUME NEW c \in Clients, ChargeAccount(c) \/ Clear(c) \/ Fault(c)
      PROVE  AttemptInv'
  BY <1>1, <1>7 DEF ChargeAccount, Clear, Fault
<1>8. CASE Crash
  BY <1>8 DEF Crash, AttemptInv
<1>9. CASE Clock \/ UNCHANGED loginVars
  BY <1>9 DEF Clock, loginVars, AttemptInv
<1> QED
  BY <1>3, <1>4, <1>5, <1>6, <1>7, <1>8, <1>9 DEF LoginNext

\* The requests keep their shape.
THEOREM AttemptsCorrect == LoginSpec => []AttemptsOK
<1>1. AttemptInv => AttemptsOK
  BY DEF AttemptInv, AttemptsOK
<1> QED
  BY AttemptInit, AttemptStep, <1>1, PTL DEF LoginSpec

\* A step of a handler calls at most one operation of the limiter, on a key of
\* its own.
LEMMA HandlerStep ==
    ASSUME AttemptInv, [LoginNext]_loginVars
    PROVE  \/ Tick /\ Clock
           \/ Crash /\ Restart
           \/ \E k \in Keys : Penalize(k)
           \/ \E c \in Clients : /\ At(c, "clear") /\ Clear(c)
                                 /\ attempt[c].key \in Accounts /\ Reset(attempt[c].key)
           \/ UNCHANGED states
<1>1. Keys = IPs \cup Accounts \cup Resets
  BY KeysAssumption
<1>2. ASSUME NEW c \in Clients, ChargeIP(c) PROVE \E k \in Keys : Penalize(k)
  <2>1. attempt[c].ip \in IPs
    BY <1>2, AttemptShape DEF ChargeIP, At, AttemptInv
  <2> QED
    BY <1>1, <1>2, <2>1 DEF ChargeIP
<1>3. ASSUME NEW c \in Clients, ChargeAccount(c) PROVE \E k \in Keys : Penalize(k)
  <2>1. attempt[c].key \in Accounts \cup Resets
    BY <1>3, AttemptShape DEF ChargeAccount, At, AttemptInv
  <2> QED
    BY <1>1, <1>3, <2>1 DEF ChargeAccount
<1>4. ASSUME NEW c \in Clients, Clear(c)
      PROVE  At(c, "clear") /\ attempt[c].key \in Accounts /\ Reset(attempt[c].key)
  BY <1>4, AttemptShape DEF Clear, At, AttemptInv
<1>5. ASSUME NEW c \in Clients,
             \/ \E ip \in IPs, acct \in Accounts : CheckIP(c, ip, acct)
             \/ \E key \in Resets : CheckReset(c, key)
             \/ CheckAccount(c) \/ Reject(c) \/ Accept(c) \/ ResetPassword(c) \/ Fault(c)
      PROVE  UNCHANGED states
  BY <1>5 DEF CheckIP, CheckReset, CheckAccount, Reject, Accept, ResetPassword, Fault
<1> QED
  BY <1>2, <1>3, <1>4, <1>5 DEF LoginNext, loginVars, Crash, Clock

LEMMA HandlerRefines == AttemptInv /\ [LoginNext]_loginVars => [Next]_states
<1> SUFFICES ASSUME AttemptInv, [LoginNext]_loginVars PROVE [Next]_states
  OBVIOUS
<1>1. \A c \in Clients : attempt[c].key \in Accounts => attempt[c].key \in Keys
  BY KeysAssumption
<1> QED
  BY <1>1, HandlerStep DEF Next

\* Whatever the requests, the limiter behaves as its own specification says, so
\* every theorem above holds of it.
THEOREM HandlersUseThrottle == LoginSpec => UsesThrottle
<1>1. LoginInit => Init
  BY DEF LoginInit
<1> QED
  BY <1>1, AttemptInit, AttemptStep, HandlerRefines, PTL DEF LoginSpec, UsesThrottle, Spec

\* A lock in force on the account survives all but three things.
LEMMA LockStandsStep ==
    ASSUME AttemptInv, TInv, [LoginNext]_loginVars, NEW k \in Keys, Locked(k), ~Crash,
           ~\E c \in Clients : k \in Accounts /\ At(c, "clear") /\ attempt[c].key = k /\ Clear(c)
    PROVE  /\ states'[k] # Absent
           /\ states'[k].lock >= states[k].lock - (IF Clock THEN 1 ELSE 0)
<1>1. states[k] # Absent /\ Sound(states[k]) /\ states[k].lock > 0 /\ states[k].lock \in Int
  BY BackoffFacts DEF Locked, Allowed, TInv, IInv, Sound, AttemptState
<1>2. CASE Tick /\ Clock
  <2>1. states'[k] = Older(states[k])
    BY <1>1, <1>2 DEF Tick
  <2> QED
    BY <1>1, <1>2, <2>1, OlderSound
<1>3. ASSUME NEW j \in Keys, Penalize(j)
      PROVE  /\ states'[k] # Absent
             /\ states'[k].lock \in Int
             /\ states'[k].lock >= states[k].lock
  <2>1. CASE j = k
    <3>1. states'[k] = Failed(states[k]) /\ Sound(Failed(states[k]))
      BY <1>3, <2>1, PenalizeFacts
    <3>2. Failed(states[k]).lock >= states[k].lock
      BY <1>1, FailedSound
    <3> QED
      BY <3>1, <3>2, AbsentIsNone, BackoffFacts DEF Sound, AttemptState
  <2>2. CASE j # k
    BY <1>1, <1>3, <2>2, PenalizeFacts, LockedNotExpired
  <2> QED
    BY <2>1, <2>2
<1>4. ASSUME NEW c \in Clients, At(c, "clear"), Clear(c), attempt[c].key \in Accounts,
             Reset(attempt[c].key)
      PROVE  states'[k] = states[k]
  <2>1. attempt[c].key # k
    BY <1>4
  <2> QED
    BY <1>4, <2>1 DEF Reset, TInv
<1>5. \/ Tick /\ Clock
      \/ \E j \in Keys : Penalize(j)
      \/ states'[k] = states[k]
  BY <1>4, HandlerStep
<1> QED
  BY <1>1, <1>2, <1>3, <1>5

\* Whatever the requests in flight, the lock of an address or a reset target
\* runs its time, and the lock of an account does unless a login succeeds.
THEOREM LocksStand == LoginSpec => LockStands
<1>1. AttemptInv /\ TInv /\ [LoginNext]_loginVars =>
        [\A k \in Keys :
            /\ Locked(k)
            /\ ~Crash
            /\ ~\E c \in Clients : k \in Accounts /\ At(c, "clear") /\ attempt[c].key = k /\ Clear(c)
            => /\ states'[k] # Absent
               /\ states'[k].lock >= states[k].lock - (IF Clock THEN 1 ELSE 0)]_loginVars
  BY LockStandsStep
<1>2. LoginSpec => []TInv
  BY HandlersUseThrottle, TInvAlways, PTL DEF UsesThrottle
<1> QED
  BY AttemptInit, AttemptStep, <1>1, <1>2, PTL DEF LoginSpec, LockStands

=============================================================================
