---------------------------- MODULE ServerProofs ----------------------------
(***************************************************************************)
(* Theorems about an installation, for any processes, clients, accounts and*)
(* keys: a token outlives restarts, what has to exist once does, and a     *)
(* shutdown waits for the requests in flight.                              *)
(***************************************************************************)
EXTENDS Server, TLAPS, FiniteSetTheorems

-----------------------------------------------------------------------------
(* Shapes *)

Proc == [kind: {"serve", "init"}, step: Steps, missing: BOOLEAN, key: SigningKeys \cup {NoKey},
         stopped: 0 .. 2, late: BOOLEAN]

\* A process has a key from the step that loads or makes it on, and only one
\* that is being shut down has stopped anything.
ProcOK(r) ==
    /\ r \in Proc
    /\ r.missing => r.step \in {"keys", "general", "template", "setup"}
    /\ r.step \in {"down", "migrate"} => r.key = NoKey
    /\ r.step = "keys" /\ ~r.missing => r.key = NoKey
    /\ r.step \notin {"down", "migrate", "keys"} => r.key \in SigningKeys
    /\ r.step # "stopping" => r.stopped = 0 /\ ~r.late

\* A request is on a process that serves or is being shut down; a password is
\* reset of an account that was found.
ReqOK(r) ==
    /\ r.on \in Procs /\ r.email \in Emails
    /\ r.kind \in {"setup", "create", "reset", "login"}
    /\ r.kind = "reset" => users[r.email] # NoUser
    /\ proc[r.on].step \in {"serving", "stopping"}

Typed ==
    /\ keyFile \in SigningKeys \cup {NoKey, Torn}
    /\ systems \in [Types -> Nat]
    /\ users \in [Emails -> Account \cup {NoUser}]
    /\ DOMAIN proc = Procs /\ \A p \in Procs : ProcOK(proc[p])
    /\ DOMAIN req = Clients /\ \A c \in Clients : req[c] # Idle => ReqOK(req[c])

LEMMA DownOK == ProcOK(Down)
BY DEF Down, ProcOK, Proc, Steps

LEMMA TypedInit == Init => Typed
BY DownOK DEF Init, Typed, Types

-----------------------------------------------------------------------------
(* Steps of one process *)

\* A step that leaves every other process alone.
Only(p) == DOMAIN proc' = Procs /\ \A q \in Procs \ {p} : proc'[q] = proc[q]

LEMMA GoToOK ==
    ASSUME Typed, NEW p \in Procs, NEW step \in Steps, GoTo(p, step)
    PROVE  /\ Only(p) /\ proc'[p] \in Proc
           /\ proc'[p].step = step /\ proc'[p].missing = FALSE /\ proc'[p].key = proc[p].key
           /\ proc'[p].stopped = proc[p].stopped /\ proc'[p].late = proc[p].late
<1> DEFINE r == [proc[p] EXCEPT !.step = step, !.missing = FALSE]
<1>1. proc[p] \in Proc
  BY DEF Typed, ProcOK
<1>2. proc' = [proc EXCEPT ![p] = r]
  BY DEF GoTo
<1>3. r \in Proc /\ r.step = step /\ r.missing = FALSE /\ r.key = proc[p].key
      /\ r.stopped = proc[p].stopped /\ r.late = proc[p].late
  BY <1>1 DEF Proc
<1> HIDE DEF r
<1> QED
  BY <1>2, <1>3 DEF Only, Typed

LEMMA MissesOK ==
    ASSUME Typed, NEW p \in Procs, Misses(p)
    PROVE  /\ Only(p) /\ proc'[p] \in Proc
           /\ proc'[p].step = proc[p].step /\ proc'[p].missing = TRUE
           /\ proc'[p].key = proc[p].key
           /\ proc'[p].stopped = proc[p].stopped /\ proc'[p].late = proc[p].late
<1> DEFINE r == [proc[p] EXCEPT !.missing = TRUE]
<1>1. proc[p] \in Proc
  BY DEF Typed, ProcOK
<1>2. proc' = [proc EXCEPT ![p] = r]
  BY DEF Misses
<1>3. r \in Proc /\ r.step = proc[p].step /\ r.missing = TRUE /\ r.key = proc[p].key
      /\ r.stopped = proc[p].stopped /\ r.late = proc[p].late
  BY <1>1 DEF Proc
<1> HIDE DEF r
<1> QED
  BY <1>2, <1>3 DEF Only, Typed

LEMMA GoneOK ==
    ASSUME Typed, NEW p \in Procs, proc' = [proc EXCEPT ![p] = Down]
    PROVE  /\ Only(p) /\ proc'[p] = Down /\ ProcOK(proc'[p])
           /\ proc'[p].key = NoKey /\ proc'[p].step = "down" /\ ~proc'[p].missing
BY DownOK DEF Only, Typed, Down

LEMMA StartOK ==
    ASSUME Typed, NEW p \in Procs, NEW kind \in {"serve", "init"}, Start(p, kind)
    PROVE  /\ Only(p) /\ ProcOK(proc'[p])
           /\ proc'[p].key = NoKey /\ proc'[p].step = "migrate" /\ ~proc'[p].missing
<1> DEFINE r == [proc[p] EXCEPT !.kind = kind, !.step = "migrate"]
<1>1. proc[p] = Down /\ ProcOK(Down)
  BY DownOK DEF Start
<1>2. proc' = [proc EXCEPT ![p] = r]
  BY DEF Start
<1>3. r.step = "migrate" /\ ProcOK(r) /\ ~r.missing /\ r.key = NoKey
  BY <1>1 DEF ProcOK, Proc, Down, Steps
<1> HIDE DEF r
<1> QED
  BY <1>2, <1>3 DEF Only, Typed

LEMMA LoadKeyOK ==
    ASSUME Typed, NEW p \in Procs, LoadKey(p)
    PROVE  /\ Only(p) /\ ProcOK(proc'[p])
           /\ proc'[p].key = keyFile /\ keyFile \in SigningKeys
           /\ proc'[p].step \in {"setup", "general"} /\ ~proc'[p].missing
<1> DEFINE r == [proc[p] EXCEPT !.key = keyFile, !.step = AfterKeys(p)]
<1>1. ProcOK(proc[p]) /\ proc[p].step = "keys" /\ ~proc[p].missing /\ keyFile \in SigningKeys
  BY DEF Typed, LoadKey, At, Stat
<1>2. proc' = [proc EXCEPT ![p] = r]
  BY DEF LoadKey
<1>3. AfterKeys(p) \in {"setup", "general"}
  BY DEF AfterKeys
<1>4. r \in Proc /\ r.key = keyFile /\ r.step = AfterKeys(p) /\ ~r.missing
      /\ r.stopped = proc[p].stopped /\ r.late = proc[p].late
  BY <1>1, <1>3 DEF ProcOK, Proc, Steps
<1>5. ProcOK(r)
  BY <1>1, <1>3, <1>4 DEF ProcOK
<1> HIDE DEF r
<1> QED
  BY <1>1, <1>2, <1>3, <1>4, <1>5 DEF Only, Typed

LEMMA GenerateKeyOK ==
    ASSUME Typed, NEW p \in Procs, NEW k \in SigningKeys, GenerateKey(p, k)
    PROVE  /\ Only(p) /\ ProcOK(proc'[p])
           /\ proc'[p].key = k /\ proc'[p].step = "keys" /\ proc'[p].missing
<1> DEFINE r == [proc[p] EXCEPT !.key = k]
<1>1. ProcOK(proc[p]) /\ proc[p].step = "keys" /\ proc[p].missing
  BY DEF Typed, GenerateKey, Creates
<1>2. proc' = [proc EXCEPT ![p] = r]
  BY DEF GenerateKey
<1>3. r \in Proc /\ r.key = k /\ r.step = "keys" /\ r.missing
      /\ r.stopped = proc[p].stopped /\ r.late = proc[p].late
  BY <1>1 DEF ProcOK, Proc
<1>4. ProcOK(r)
  BY <1>1, <1>3 DEF ProcOK
<1> HIDE DEF r
<1> QED
  BY <1>2, <1>3, <1>4 DEF Only, Typed

\* A server told to stop, out of time, or one component further.
LEMMA StoppingOK ==
    ASSUME Typed, NEW p \in Procs, Interrupt(p) \/ TimeOut(p) \/ ShutdownNext(p)
    PROVE  /\ Only(p) /\ ProcOK(proc'[p])
           /\ proc'[p].step = "stopping" /\ ~proc'[p].missing /\ proc'[p].key = proc[p].key
           /\ proc[p].step \in {"serving", "stopping"} /\ ~proc[p].missing
           /\ req' = req
           /\ \/ proc[p].step = "serving" /\ proc'[p].stopped = 0
              \/ proc'[p].stopped = proc[p].stopped /\ proc'[p].late
              \/ /\ proc'[p].stopped = proc[p].stopped + 1 /\ proc'[p].late = proc[p].late
                 /\ proc[p].stopped = 0 => InFlight(p) = {} \/ proc[p].late
<1> DEFINE r1 == [proc[p] EXCEPT !.step = "stopping"]
           r2 == [proc[p] EXCEPT !.late = TRUE]
           r3 == [proc[p] EXCEPT !.stopped = @ + 1]
<1>0. ProcOK(proc[p])
  BY DEF Typed
<1>1. CASE Interrupt(p)
  <2>1. proc' = [proc EXCEPT ![p] = r1] /\ proc[p].step = "serving" /\ ~proc[p].missing /\ req' = req
    BY <1>1 DEF Interrupt, At
  <2>2. r1 \in Proc /\ r1.step = "stopping" /\ ~r1.missing /\ r1.key = proc[p].key
        /\ r1.stopped = proc[p].stopped /\ r1.late = proc[p].late
    BY <1>0, <2>1 DEF ProcOK, Proc, Steps
  <2>3. ProcOK(r1) /\ r1.stopped = 0
    BY <1>0, <2>1, <2>2 DEF ProcOK
  <2> HIDE DEF r1
  <2> QED
    BY <2>1, <2>2, <2>3 DEF Only, Typed
<1>2. CASE TimeOut(p)
  <2>1. proc' = [proc EXCEPT ![p] = r2] /\ proc[p].step = "stopping" /\ ~proc[p].missing /\ req' = req
    BY <1>2 DEF TimeOut, Deadline, At
  <2>2. r2 \in Proc /\ r2.step = "stopping" /\ ~r2.missing /\ r2.key = proc[p].key
        /\ r2.stopped = proc[p].stopped /\ r2.late = TRUE
    BY <1>0, <2>1 DEF ProcOK, Proc, Steps
  <2>3. ProcOK(r2)
    BY <1>0, <2>1, <2>2 DEF ProcOK
  <2> HIDE DEF r2
  <2> QED
    BY <2>1, <2>2, <2>3 DEF Only, Typed
<1>3. CASE ShutdownNext(p)
  <2>1. /\ proc' = [proc EXCEPT ![p] = r3] /\ proc[p].step = "stopping" /\ ~proc[p].missing
        /\ req' = req /\ proc[p].stopped < 2
        /\ proc[p].stopped = 0 => InFlight(p) = {} \/ proc[p].late
    BY <1>3 DEF ShutdownNext, At, Components
  <2>2. r3 \in Proc /\ r3.step = "stopping" /\ ~r3.missing /\ r3.key = proc[p].key
        /\ r3.stopped = proc[p].stopped + 1 /\ r3.late = proc[p].late
    <3>1. proc[p] \in Proc /\ proc[p].stopped + 1 \in 0 .. 2
      BY <1>0, <2>1 DEF ProcOK, Proc
    <3> QED
      BY <2>1, <3>1 DEF Proc
  <2>3. ProcOK(r3)
    BY <1>0, <2>1, <2>2 DEF ProcOK
  <2> HIDE DEF r3
  <2> QED
    BY <2>1, <2>2, <2>3 DEF Only, Typed
<1> QED
  BY <1>1, <1>2, <1>3

\* A process no request is on, or that stays up, keeps the shapes; so does one
\* that is gone with its requests.
LEMMA ProcTyped ==
    ASSUME Typed, NEW p \in Procs, Only(p), ProcOK(proc'[p]),
           \/ proc[p].step \notin {"serving", "stopping"} /\ req' = req
           \/ proc'[p].step \in {"serving", "stopping"} /\ req' = req
           \/ req' = [c \in Clients |-> IF req[c] # Idle /\ req[c].on = p THEN Idle ELSE req[c]],
           keyFile' \in SigningKeys \cup {NoKey, Torn},
           systems' \in [Types -> Nat], users' \in [Emails -> Account \cup {NoUser}],
           \A e \in Emails : users[e] # NoUser => users'[e] # NoUser
    PROVE  Typed'
<1>1. \A q \in Procs : ProcOK(proc'[q])
  BY DEF Typed, Only
<1>2. ASSUME NEW c \in Clients, req'[c] # Idle
      PROVE  ReqOK(req[c])'
  <2>1. req'[c] = req[c] /\ ReqOK(req[c])
    BY <1>2 DEF Typed
  <2>2. CASE req[c].on # p
    BY <2>1, <2>2 DEF ReqOK, Only
  <2>3. CASE req[c].on = p
    BY <1>2, <2>1, <2>3 DEF ReqOK
  <2> QED
    BY <2>2, <2>3
<1> QED
  BY <1>1, <1>2 DEF Typed, Only, ProcOK

-----------------------------------------------------------------------------
(* Shapes, one action at a time *)

Rises(p) ==
    \/ \E kind \in {"serve", "init"} : Start(p, kind)
    \/ Migrate(p) \/ LoadKey(p) \/ KeyUnreadable(p) \/ KeyMissing(p)
    \/ \E k \in SigningKeys : GenerateKey(p, k)
    \/ WriteKey(p) \/ WritePublicKey(p)
    \/ \E type \in Types : FindSystem(p, type) \/ CreateSystem(p, type)
    \/ Seed(p) \/ InitCounts(p) \/ \E e \in Emails : InitCreates(p, e)

Falls(p) == Crash(p) \/ Interrupt(p) \/ TimeOut(p) \/ ShutdownNext(p) \/ Exit(p)

Requests(c) ==
    \/ \E p \in Procs, e \in Emails :
        \/ SetupCounts(c, p, e) \/ CreateChecks(c, p, e) \/ ResetChecks(c, p, e)
        \/ \E password \in 0 .. MaxResets : LoginVerifies(c, p, e, password)
    \/ SetupCreates(c) \/ \E gm \in BOOLEAN : CreateAccount(c, gm)
    \/ ResetPassword(c) \/ Login(c) \/ Refuse(c)

LEMMA NextSplit ==
    ASSUME Next
    PROVE  \/ \E p \in Procs : Rises(p) \/ Falls(p)
           \/ \E c \in Clients : Requests(c)
           \/ \E token \in tokens : Expire(token)
BY DEF Next, Rises, Falls, Requests

LEMMA RisesTyped ==
    ASSUME Typed, NEW p \in Procs, Rises(p)
    PROVE  Typed'
<1>0. /\ keyFile \in SigningKeys \cup {NoKey, Torn}
      /\ systems \in [Types -> Nat] /\ users \in [Emails -> Account \cup {NoUser}]
      /\ ProcOK(proc[p])
  BY DEF Typed
<1>1. ASSUME NEW kind \in {"serve", "init"}, Start(p, kind)
      PROVE  Typed'
  <2>1. Only(p) /\ ProcOK(proc'[p])
    BY <1>1, StartOK
  <2>2. proc[p].step = "down" /\ UNCHANGED <<keyFile, systems, users, req>>
    BY <1>1 DEF Start, stored, Down
  <2> QED
    BY <1>0, <2>1, <2>2, ProcTyped
<1>2. CASE Migrate(p)
  <2>1. CASE UNCHANGED proc
    BY <1>0, <1>2, <2>1, ProcTyped DEF Migrate, Only, Typed, At
  <2>2. CASE GoTo(p, "keys")
    <3>1. Only(p) /\ ProcOK(proc'[p])
      BY <1>0, <1>2, <2>2, GoToOK DEF Migrate, At, ProcOK, Steps
    <3> QED
      BY <1>0, <1>2, <3>1, ProcTyped DEF Migrate, At
  <2> QED
    BY <1>2, <2>1, <2>2 DEF Migrate
<1>3. CASE LoadKey(p)
  BY <1>0, <1>3, LoadKeyOK, ProcTyped DEF LoadKey, stored, At
<1>4. CASE KeyUnreadable(p)
  BY <1>0, <1>4, GoneOK, ProcTyped DEF KeyUnreadable, stored, At
<1>5. CASE KeyMissing(p)
  <2>1. Only(p) /\ ProcOK(proc'[p])
    BY <1>0, <1>5, MissesOK DEF KeyMissing, At, ProcOK
  <2> QED
    BY <1>0, <1>5, <2>1, ProcTyped DEF KeyMissing, stored, At
<1>6. ASSUME NEW k \in SigningKeys, GenerateKey(p, k)
      PROVE  Typed'
  BY <1>0, <1>6, GenerateKeyOK, ProcTyped DEF GenerateKey, Creates
<1>7. CASE WriteKey(p)
  <2>1. proc[p].key \in SigningKeys /\ proc[p].step = "keys"
    BY <1>0, <1>7 DEF WriteKey, Creates, ProcOK, Proc
  <2>2. Only(p) /\ ProcOK(proc'[p])
    BY <1>0, <1>7, <2>1, GoToOK DEF WriteKey, ProcOK, Steps
  <2> QED
    BY <1>0, <1>7, <2>1, <2>2, ProcTyped DEF WriteKey
<1>8. CASE WritePublicKey(p)
  <2>1. AfterKeys(p) \in {"setup", "general"} /\ AfterKeys(p) \in Steps
    BY DEF AfterKeys, Steps
  <2>2. Only(p) /\ ProcOK(proc'[p])
    BY <1>0, <1>8, <2>1, GoToOK DEF WritePublicKey, At, ProcOK
  <2> QED
    BY <1>0, <1>8, <2>2, ProcTyped DEF WritePublicKey, stored, At
<1>9. ASSUME NEW type \in Types, FindSystem(p, type) \/ CreateSystem(p, type)
      PROVE  Typed'
  <2>1. AfterType(type) \in {"template", "seed"} /\ AfterType(type) \in Steps
        /\ type \in {"general", "template"}
    BY DEF AfterType, Steps, Types
  <2>2. CASE FindSystem(p, type)
    <3>1. Only(p) /\ ProcOK(proc'[p])
      BY <1>0, <2>1, <2>2, GoToOK, MissesOK DEF FindSystem, At, ProcOK
    <3> QED
      BY <1>0, <2>1, <2>2, <3>1, ProcTyped DEF FindSystem, stored, At
  <2>3. CASE CreateSystem(p, type)
    <3>1. Only(p) /\ ProcOK(proc'[p])
      BY <1>0, <2>1, <2>3, GoToOK DEF CreateSystem, Creates, ProcOK
    <3>2. systems' \in [Types -> Nat]
      BY <1>0, <2>3 DEF CreateSystem
    <3> QED
      BY <1>0, <2>1, <2>3, <3>1, <3>2, ProcTyped DEF CreateSystem, Creates
  <2> QED
    BY <1>9, <2>2, <2>3
<1>10. CASE Seed(p)
  <2>1. Only(p) /\ ProcOK(proc'[p])
    BY <1>0, <1>10, GoToOK DEF Seed, At, ProcOK, Steps
  <2> QED
    BY <1>0, <1>10, <2>1, ProcTyped DEF Seed, stored, At
<1>11. CASE InitCounts(p)
  <2>1. Only(p) /\ ProcOK(proc'[p])
    BY <1>0, <1>11, GoneOK, MissesOK DEF InitCounts, At, ProcOK
  <2> QED
    BY <1>0, <1>11, <2>1, ProcTyped DEF InitCounts, stored, At
<1>12. ASSUME NEW e \in Emails, InitCreates(p, e)
       PROVE  Typed'
  <2>1. InitialGM \in Account
    BY DEF InitialGM, Account
  <2>2. users' \in [Emails -> Account \cup {NoUser}]
        /\ \A f \in Emails : users[f] # NoUser => users'[f] # NoUser
    BY <1>0, <1>12, <2>1 DEF InitCreates
  <2> QED
    BY <1>0, <1>12, <2>2, GoneOK, ProcTyped DEF InitCreates, Creates
<1> QED
  BY <1>1, <1>2, <1>3, <1>4, <1>5, <1>6, <1>7, <1>8, <1>9, <1>10, <1>11, <1>12 DEF Rises

LEMMA FallsTyped ==
    ASSUME Typed, NEW p \in Procs, Falls(p)
    PROVE  Typed'
<1>0. /\ keyFile \in SigningKeys \cup {NoKey, Torn}
      /\ systems \in [Types -> Nat] /\ users \in [Emails -> Account \cup {NoUser}]
  BY DEF Typed
<1>1. CASE Crash(p) \/ Exit(p)
  BY <1>0, <1>1, GoneOK, ProcTyped DEF Crash, Exit, Gone, stored
<1>2. CASE Interrupt(p) \/ TimeOut(p) \/ ShutdownNext(p)
  BY <1>0, <1>2, StoppingOK, ProcTyped DEF Interrupt, TimeOut, ShutdownNext, stored
<1> QED
  BY <1>1, <1>2 DEF Falls

\* Requests are taken by servers that listen, and answered.
LEMMA RequestsKeep ==
    ASSUME Typed, NEW c \in Clients, Requests(c)
    PROVE  /\ UNCHANGED <<keyFile, systems, proc>>
           /\ DOMAIN req' = Clients /\ \A d \in Clients \ {c} : req'[d] = req[d]
           /\ req'[c] # Idle => ReqOK(req'[c]) /\ Listens(req'[c].on)
<1>1. ASSUME NEW p \in Procs, NEW e \in Emails,
             \/ SetupCounts(c, p, e) \/ CreateChecks(c, p, e) \/ ResetChecks(c, p, e)
             \/ \E password \in 0 .. MaxResets : LoginVerifies(c, p, e, password)
      PROVE  /\ UNCHANGED <<keyFile, systems, proc>>
             /\ DOMAIN req' = Clients /\ \A d \in Clients \ {c} : req'[d] = req[d]
             /\ ReqOK(req'[c]) /\ Listens(req'[c].on)
  <2>1. \E r : /\ Takes(c, p, r) /\ r.on = p /\ r.email = e
               /\ r.kind \in {"setup", "create", "reset", "login"}
               /\ r.kind = "reset" => users[e] # NoUser
    BY <1>1 DEF SetupCounts, CreateChecks, ResetChecks, LoginVerifies, Request
  <2>2. PICK r : /\ Takes(c, p, r) /\ r.on = p /\ r.email = e
                 /\ r.kind \in {"setup", "create", "reset", "login"}
                 /\ r.kind = "reset" => users[e] # NoUser
    BY <2>1
  <2>3. req' = [req EXCEPT ![c] = r] /\ Listens(p)
    BY <2>2 DEF Takes
  <2>4. req'[c] = r /\ DOMAIN req' = Clients /\ \A d \in Clients \ {c} : req'[d] = req[d]
    BY <2>3 DEF Typed
  <2>5. ReqOK(r) /\ Listens(r.on)
    BY <2>2, <2>3 DEF ReqOK, Listens, At
  <2>6. UNCHANGED <<keyFile, systems, proc>>
    BY <1>1 DEF SetupCounts, CreateChecks, ResetChecks, LoginVerifies, stored
  <2> QED
    BY <2>4, <2>5, <2>6
<1>2. CASE \/ SetupCreates(c) \/ \E gm \in BOOLEAN : CreateAccount(c, gm)
           \/ ResetPassword(c) \/ Login(c) \/ Refuse(c)
  <2>1. req' = [req EXCEPT ![c] = Idle] /\ UNCHANGED <<keyFile, systems, proc>>
    BY <1>2 DEF SetupCreates, CreateAccount, ResetPassword, Login, Refuse, Answers, stored
  <2> QED
    BY <2>1 DEF Typed
<1> QED
  BY <1>1, <1>2 DEF Requests

LEMMA RequestsTyped ==
    ASSUME Typed, NEW c \in Clients, Requests(c)
    PROVE  Typed'
<1>1. /\ users' \in [Emails -> Account \cup {NoUser}]
      /\ \A e \in Emails : users[e] # NoUser => users'[e] # NoUser
  <2>0. users \in [Emails -> Account \cup {NoUser}]
    BY DEF Typed
  <2>1. CASE UNCHANGED users
    BY <2>0, <2>1
  <2>2. CASE SetupCreates(c)
    <3>1. InitialGM \in Account
      BY DEF InitialGM, Account
    <3> QED
      BY <2>0, <2>2, <3>1 DEF SetupCreates
  <2>3. ASSUME NEW gm \in BOOLEAN, CreateAccount(c, gm)
        PROVE  /\ users' \in [Emails -> Account \cup {NoUser}]
               /\ \A e \in Emails : users[e] # NoUser => users'[e] # NoUser
    <3>1. [gm |-> gm, initial |-> FALSE, password |-> 0] \in Account
      BY DEF Account
    <3> QED
      BY <2>0, <2>3, <3>1 DEF CreateAccount
  <2>4. CASE ResetPassword(c)
    <3> DEFINE e == req[c].email
    <3>1. users[e] \in Account /\ users' = [users EXCEPT ![e].password = @ + 1]
      BY <2>0, <2>4 DEF ResetPassword, Doing, Typed, ReqOK
    <3>2. [users[e] EXCEPT !.password = @ + 1] \in Account
      BY <3>1 DEF Account
    <3> HIDE DEF e
    <3> QED
      BY <2>0, <3>1, <3>2, ConstantsAssumption
  <2> QED
    BY <2>1, <2>2, <2>3, <2>4 DEF Requests, SetupCounts, CreateChecks, ResetChecks, LoginVerifies,
                                  Login, Refuse, stored
<1>2. \A d \in Clients : req'[d] # Idle => ReqOK(req[d])'
  BY <1>1, RequestsKeep DEF Typed, ReqOK
<1> QED
  BY <1>1, <1>2, RequestsKeep DEF Typed, ProcOK

LEMMA TypedStep ==
    ASSUME Typed, [Next]_vars
    PROVE  Typed'
<1>1. CASE UNCHANGED vars
  BY <1>1 DEF vars, stored, Typed, ProcOK, ReqOK
<1>2. CASE \E token \in tokens : Expire(token)
  BY <1>2 DEF Expire, stored, Typed, ProcOK, ReqOK
<1> QED
  BY <1>1, <1>2, NextSplit, RisesTyped, FallsTyped, RequestsTyped

-----------------------------------------------------------------------------
(* A shutdown *)

\* Once the listener is stopped before its time, no request is left.
Drained ==
    \A p \in Procs :
        proc[p].step = "stopping" /\ proc[p].stopped >= 1 /\ ~proc[p].late =>
            \A c \in Clients : req[c] # Idle => req[c].on # p

LEMMA DrainedStep ==
    ASSUME Typed, Drained, [Next]_vars
    PROVE  Drained'
<1> USE DEF Drained
<1>1. CASE UNCHANGED <<proc, req>>
  BY <1>1
<1>2. ASSUME NEW p \in Procs, Rises(p)
      PROVE  Drained'
  <2>1. req' = req /\ Only(p) /\ proc'[p].step # "stopping"
    <3>0. ProcOK(proc[p]) /\ Types = {"general", "template"}
      BY DEF Typed, Types
    <3>1. ASSUME NEW kind \in {"serve", "init"}, Start(p, kind)
          PROVE  req' = req /\ Only(p) /\ proc'[p].step # "stopping"
      BY <3>1, StartOK DEF Start
    <3>2. CASE Migrate(p)
      BY <3>2, GoToOK DEF Migrate, At, Only, Typed, Steps
    <3>3. CASE LoadKey(p)
      BY <3>3, LoadKeyOK DEF LoadKey
    <3>4. CASE KeyUnreadable(p)
      BY <3>4, GoneOK DEF KeyUnreadable
    <3>5. CASE KeyMissing(p)
      BY <3>5, MissesOK DEF KeyMissing, At
    <3>6. ASSUME NEW k \in SigningKeys, GenerateKey(p, k)
          PROVE  req' = req /\ Only(p) /\ proc'[p].step # "stopping"
      BY <3>6, GenerateKeyOK DEF GenerateKey
    <3>7. CASE WriteKey(p)
      BY <3>7, GoToOK DEF WriteKey, Steps
    <3>8. CASE WritePublicKey(p)
      BY <3>8, GoToOK DEF WritePublicKey, AfterKeys, Steps
    <3>9. ASSUME NEW type \in Types, FindSystem(p, type) \/ CreateSystem(p, type)
          PROVE  req' = req /\ Only(p) /\ proc'[p].step # "stopping"
      BY <3>0, <3>9, GoToOK, MissesOK DEF FindSystem, CreateSystem, AfterType, Steps, At
    <3>10. CASE Seed(p)
      BY <3>10, GoToOK DEF Seed, Steps
    <3>11. CASE InitCounts(p)
      BY <3>11, GoneOK, MissesOK DEF InitCounts, At
    <3>12. ASSUME NEW e \in Emails, InitCreates(p, e)
           PROVE  req' = req /\ Only(p) /\ proc'[p].step # "stopping"
      BY <3>12, GoneOK DEF InitCreates
    <3> QED
      BY <1>2, <3>1, <3>2, <3>3, <3>4, <3>5, <3>6, <3>7, <3>8, <3>9, <3>10, <3>11, <3>12 DEF Rises
  <2> QED
    BY <2>1 DEF Only
<1>3. ASSUME NEW p \in Procs, Crash(p) \/ Exit(p)
      PROVE  Drained'
  <2>1. /\ Only(p) /\ proc'[p].step = "down"
        /\ \A c \in Clients : req'[c] # Idle => req'[c] = req[c]
    BY <1>3, GoneOK DEF Crash, Exit, Gone
  <2> QED
    BY <2>1 DEF Only
<1>4. ASSUME NEW p \in Procs, Interrupt(p) \/ TimeOut(p) \/ ShutdownNext(p)
      PROVE  Drained'
  <2>1. ProcOK(proc[p]) /\ proc[p].stopped \in 0 .. 2
    BY DEF Typed, ProcOK, Proc
  <2>2. /\ Only(p) /\ req' = req
        /\ \/ proc[p].step = "serving" /\ proc'[p].stopped = 0
           \/ proc'[p].stopped = proc[p].stopped /\ proc'[p].late
           \/ /\ proc'[p].stopped = proc[p].stopped + 1 /\ proc'[p].late = proc[p].late
              /\ proc[p].stopped = 0 => InFlight(p) = {} \/ proc[p].late
        /\ proc[p].step = "serving" => proc[p].stopped = 0
        /\ proc[p].step \in {"serving", "stopping"}
    BY <1>4, <2>1, StoppingOK DEF ProcOK
  <2>3. ASSUME proc'[p].stopped >= 1, ~proc'[p].late, NEW c \in Clients, req[c] # Idle
        PROVE  req[c].on # p
    <3>1. proc[p].stopped = 0 => InFlight(p) = {}
      BY <2>1, <2>2, <2>3
    <3>2. CASE proc[p].stopped = 0
      BY <2>3, <3>1, <3>2 DEF InFlight
    <3>3. CASE proc[p].stopped # 0
      BY <2>1, <2>2, <2>3, <3>3
    <3> QED
      BY <3>2, <3>3
  <2> QED
    BY <2>2, <2>3 DEF Only
<1>5. ASSUME NEW c \in Clients, Requests(c)
      PROVE  Drained'
  BY <1>5, RequestsKeep DEF Listens, At
<1>6. CASE \E token \in tokens : Expire(token)
  BY <1>1, <1>6 DEF Expire
<1> QED
  BY <1>1, <1>2, <1>3, <1>4, <1>5, <1>6, NextSplit DEF vars, Falls

LEMMA DrainedServes ==
    ASSUME Typed, Drained
    PROVE  ServedToTheEnd
<1> SUFFICES ASSUME NEW c \in Clients, req[c] # Idle, ~proc[req[c].on].late
             PROVE  DatabaseOpen(req[c].on)
  BY DEF ServedToTheEnd
<1> DEFINE p == req[c].on
<1>1. p \in Procs /\ proc[p].step \in {"serving", "stopping"} /\ ProcOK(proc[p])
      /\ proc[p].stopped \in 0 .. 2 /\ ~proc[p].missing
  BY DEF Typed, ReqOK, ProcOK, Proc
<1>2. CASE proc[p].step = "serving"
  BY <1>1, <1>2 DEF DatabaseOpen, Listens, At
<1>3. CASE proc[p].step = "stopping"
  <2>1. proc[p].stopped = 0
    BY <1>1, <1>3 DEF Drained
  <2> QED
    BY <1>1, <1>3, <2>1 DEF DatabaseOpen, At
<1> QED
  BY <1>1, <1>2, <1>3

\* No request meets a closed database before its server's minute has passed
\* (lifecycle.go, Shutdown: the listener goes first and waits for its requests).
THEOREM AlwaysServedToTheEnd == Spec => []ServedToTheEnd
<1>1. Init => Drained
  BY DEF Init, Drained, Down
<1>2. Typed /\ Drained /\ [Next]_vars => Typed' /\ Drained'
  BY TypedStep, DrainedStep
<1>3. Typed /\ Drained => ServedToTheEnd
  BY DrainedServes
<1> QED
  BY <1>1, <1>2, <1>3, TypedInit, PTL DEF Spec

-----------------------------------------------------------------------------
(* The steps that create nothing *)

\* A process that goes on or is gone, and leaves what is stored alone.
Passes(p) ==
    /\ UNCHANGED <<keyFile, systems, users, tokens, raced>>
    /\ \A c \in Clients : req'[c] # Idle => req'[c] = req[c]
    /\ Only(p) /\ ~proc'[p].missing
    /\ \/ proc'[p].key \in {NoKey, keyFile}
       \/ proc'[p].key = proc[p].key /\ ~proc[p].missing
    /\ \/ proc'[p].step \in {"down", "migrate", "keys", "public", "general", "setup", "stopping"}
       \/ proc[p].step = "seed" /\ proc'[p].step = "serving"

\* One that looks for what has to exist once, or creates it.
Once(p) ==
    \/ KeyMissing(p) \/ (\E k \in SigningKeys : GenerateKey(p, k)) \/ WriteKey(p)
    \/ \E type \in Types : FindSystem(p, type) \/ CreateSystem(p, type)
    \/ InitCounts(p) \/ \E e \in Emails : InitCreates(p, e)

LEMMA ProcessSteps ==
    ASSUME Typed, NEW p \in Procs, Rises(p) \/ Falls(p)
    PROVE  Passes(p) \/ Once(p)
<1>0. ProcOK(proc[p])
  BY DEF Typed
<1>1. ASSUME NEW kind \in {"serve", "init"}, Start(p, kind)
      PROVE  Passes(p)
  BY <1>1, StartOK DEF Start, Passes, stored
<1>2. CASE Migrate(p)
  <2>1. CASE UNCHANGED proc
    BY <1>0, <1>2, <2>1 DEF Migrate, At, Passes, Only, Typed, ProcOK
  <2>2. CASE GoTo(p, "keys")
    BY <1>0, <1>2, <2>2, GoToOK DEF Migrate, At, Passes, ProcOK, Steps
  <2> QED
    BY <1>2, <2>1, <2>2 DEF Migrate
<1>3. CASE LoadKey(p)
  BY <1>3, LoadKeyOK DEF LoadKey, Passes, stored
<1>4. CASE KeyUnreadable(p)
  BY <1>4, GoneOK DEF KeyUnreadable, Passes, stored
<1>5. CASE WritePublicKey(p)
  <2>1. AfterKeys(p) \in {"general", "setup"} /\ AfterKeys(p) \in Steps
    BY DEF AfterKeys, Steps
  <2> QED
    BY <1>5, <2>1, GoToOK DEF WritePublicKey, Passes, stored, At
<1>6. CASE Seed(p)
  BY <1>6, GoToOK DEF Seed, Passes, stored, At, Steps
<1>7. CASE Crash(p) \/ Exit(p)
  BY <1>7, GoneOK DEF Crash, Exit, Gone, Passes, stored
<1>8. CASE Interrupt(p) \/ TimeOut(p) \/ ShutdownNext(p)
  BY <1>8, StoppingOK DEF Interrupt, TimeOut, ShutdownNext, Passes, stored
<1> QED
  BY <1>1, <1>2, <1>3, <1>4, <1>5, <1>6, <1>7, <1>8 DEF Rises, Falls, Once

\* The requests: a token is signed with the key of the server that answers.
LEMMA RequestTokens ==
    ASSUME Typed, NEW c \in Clients, Requests(c)
    PROVE  /\ raced => raced'
           /\ \A token \in tokens' : token \in tokens \/
                (/\ req[c] # Idle /\ token.key = proc[req[c].on].key
                 /\ token.user = req[c].email)
<1>1. CASE \E p \in Procs, e \in Emails : SetupCounts(c, p, e)
  BY <1>1 DEF SetupCounts
<1>2. CASE \E p \in Procs, e \in Emails :
                \/ CreateChecks(c, p, e) \/ ResetChecks(c, p, e)
                \/ \E password \in 0 .. MaxResets : LoginVerifies(c, p, e, password)
  BY <1>2 DEF CreateChecks, ResetChecks, LoginVerifies
<1>3. CASE ResetPassword(c) \/ Refuse(c) \/ \E gm \in BOOLEAN : CreateAccount(c, gm)
  <2>1. raced' = raced /\ tokens' = tokens
    BY <1>3 DEF ResetPassword, Refuse, CreateAccount
  <2> QED
    BY <2>1
<1>4. CASE SetupCreates(c) \/ Login(c)
  <2>1. /\ tokens' = tokens \cup {[user |-> req[c].email, key |-> proc[req[c].on].key]}
        /\ req[c] # Idle /\ raced' = raced
    BY <1>4 DEF SetupCreates, Login, Issues, Doing
  <2> QED
    BY <2>1
<1> QED
  BY <1>1, <1>2, <1>3, <1>4 DEF Requests

LEMMA MissesRace ==
    ASSUME NEW p \in Procs, Misses(p)
    PROVE  raced => raced'
BY DEF Misses

\* Who misses something is alone in it, or there was a race.
LEMMA MissesAlone ==
    ASSUME Typed, NEW p \in Procs, Misses(p), ~raced'
    PROVE  /\ ~raced
           /\ \A q \in Procs : ~Creates(q, proc[p].step)
           /\ \A c \in Clients : ~(req[c] # Idle /\ req[c].kind = proc[p].step /\ req[c].missing)
BY DEF Misses, Creating

-----------------------------------------------------------------------------
(* The signing key *)

\* While nothing was raced, the file decides: whoever has a key has that of the
\* file, except the one process that is making it, before there is any token.
OneKey ==
    ~raced =>
        /\ \A p, q \in Procs : Creates(p, "keys") /\ Creates(q, "keys") => p = q
        /\ \A p \in Procs : Creates(p, "keys") => keyFile \notin SigningKeys
        /\ \A p \in Procs : proc[p].key # NoKey => proc[p].key = keyFile \/ Creates(p, "keys")
        /\ \A token \in tokens : token.key = keyFile /\ keyFile \in SigningKeys

\* A step of p that leaves the file alone.
LEMMA OneKeyKept ==
    ASSUME OneKey, NEW p \in Procs, Only(p), keyFile' = keyFile, tokens' = tokens, raced => raced',
           ~Creates(p, "keys")',
           \/ proc'[p].key \in {NoKey, keyFile}
           \/ proc'[p].key = proc[p].key /\ ~Creates(p, "keys")
    PROVE  OneKey'
BY DEF OneKey, Only, Creates

LEMMA OneKeyStep ==
    ASSUME Typed, OneKey, [Next]_vars
    PROVE  OneKey'
<1>0. \A p \in Procs : ProcOK(proc[p])
  BY DEF Typed
<1>1. CASE UNCHANGED vars
  BY <1>1 DEF vars, stored, OneKey, Creates
<1>2. CASE \E token \in tokens : Expire(token)
  BY <1>2 DEF Expire, stored, OneKey, Creates
<1>3. ASSUME NEW p \in Procs, Passes(p)
      PROVE  OneKey'
  BY <1>3, OneKeyKept DEF Passes, Creates
<1>4. ASSUME NEW p \in Procs, KeyMissing(p)
      PROVE  OneKey'
  <2> SUFFICES ASSUME ~raced' PROVE OneKey'
    BY DEF OneKey
  <2>1. /\ keyFile = NoKey /\ NoKey \notin SigningKeys /\ UNCHANGED <<keyFile, tokens>> /\ Misses(p)
        /\ proc[p].step = "keys" /\ proc[p].key = NoKey
    BY <1>0, <1>4, ConstantsAssumption DEF KeyMissing, Stat, At, stored, ProcOK
  <2>2. /\ Only(p) /\ Creates(p, "keys")' /\ proc'[p].key = NoKey
        /\ \A q \in Procs : ~Creates(q, "keys") /\ ~raced
    BY <2>1, MissesOK, MissesAlone DEF Creates
  <2> QED
    BY <2>1, <2>2 DEF OneKey, Only, Creates
<1>5. ASSUME NEW p \in Procs, NEW k \in SigningKeys, GenerateKey(p, k)
      PROVE  OneKey'
  <2>1. /\ Only(p) /\ Creates(p, "keys") /\ Creates(p, "keys")' /\ keyFile' = Torn
        /\ Torn \notin SigningKeys /\ UNCHANGED <<tokens, raced>>
    BY <1>5, GenerateKeyOK, ConstantsAssumption DEF GenerateKey, Creates
  <2>2. \A q \in Procs : proc[q].key \in SigningKeys \cup {NoKey}
    BY <1>0 DEF ProcOK, Proc
  <2> QED
    BY <2>1, <2>2 DEF OneKey, Only, Creates
<1>6. ASSUME NEW p \in Procs, WriteKey(p)
      PROVE  OneKey'
  <2>1. /\ Only(p) /\ Creates(p, "keys") /\ ~Creates(p, "keys")'
        /\ keyFile' = proc[p].key /\ proc'[p].key = proc[p].key /\ proc[p].key \in SigningKeys
        /\ UNCHANGED <<tokens, raced>>
    BY <1>0, <1>6, GoToOK DEF WriteKey, Creates, ProcOK, Proc, Steps
  <2>2. \A q \in Procs : proc[q].key \in SigningKeys \cup {NoKey}
    BY <1>0 DEF ProcOK, Proc
  <2> QED
    BY <2>1, <2>2 DEF OneKey, Only, Creates
<1>7. ASSUME NEW p \in Procs, NEW type \in Types, FindSystem(p, type) \/ CreateSystem(p, type)
      PROVE  OneKey'
  <2>1. AfterType(type) \in {"template", "seed"} /\ AfterType(type) \in Steps
        /\ type \in {"general", "template"} /\ proc[p].step = type
    BY <1>7 DEF AfterType, Steps, Types, FindSystem, CreateSystem, At, Creates
  <2>2. /\ Only(p) /\ ~Creates(p, "keys")' /\ ~Creates(p, "keys") /\ proc'[p].key = proc[p].key
        /\ UNCHANGED <<keyFile, tokens>> /\ (raced => raced')
    <3>1. UNCHANGED <<keyFile, tokens>>
          /\ (Misses(p) \/ (GoTo(p, AfterType(type)) /\ UNCHANGED raced))
      BY <1>7 DEF FindSystem, CreateSystem, stored
    <3>2. CASE Misses(p)
      BY <2>1, <3>1, <3>2, MissesOK, MissesRace DEF Creates
    <3>3. CASE GoTo(p, AfterType(type)) /\ UNCHANGED raced
      <4>1. Only(p) /\ ~proc'[p].missing /\ proc'[p].key = proc[p].key
        BY <2>1, <3>3, GoToOK
      <4>2. raced => raced'
        BY <3>3
      <4> QED
        BY <2>1, <3>1, <4>1, <4>2 DEF Creates
    <3> QED
      BY <3>1, <3>2, <3>3
  <2> QED
    BY <2>2, OneKeyKept
<1>8. ASSUME NEW p \in Procs, InitCounts(p) \/ \E e \in Emails : InitCreates(p, e)
      PROVE  OneKey'
  <2>1. /\ Only(p) /\ ~Creates(p, "keys")' /\ ~Creates(p, "keys")
        /\ proc'[p].key \in {NoKey, proc[p].key}
        /\ UNCHANGED <<keyFile, tokens>> /\ (raced => raced')
    <3>1. /\ UNCHANGED <<keyFile, tokens>> /\ proc[p].step = "setup"
          /\ Misses(p) \/ (proc' = [proc EXCEPT ![p] = Down] /\ UNCHANGED raced)
      BY <1>8 DEF InitCounts, InitCreates, At, Creates, stored
    <3>2. CASE Misses(p)
      BY <3>1, <3>2, MissesOK, MissesRace DEF Creates
    <3>3. CASE proc' = [proc EXCEPT ![p] = Down] /\ UNCHANGED raced
      BY <3>1, <3>3, GoneOK DEF Creates
    <3> QED
      BY <3>1, <3>2, <3>3
  <2> QED
    BY <2>1, OneKeyKept
<1>9. ASSUME NEW c \in Clients, Requests(c)
      PROVE  OneKey'
  <2>1. UNCHANGED <<keyFile, proc>> /\ (raced => raced')
        /\ \A token \in tokens' : token \in tokens \/
                (req[c] # Idle /\ token.key = proc[req[c].on].key)
    BY <1>9, RequestsKeep, RequestTokens
  <2>2. req[c] # Idle => /\ req[c].on \in Procs /\ proc[req[c].on].key \in SigningKeys
                         /\ ~Creates(req[c].on, "keys")
    BY <1>0 DEF Typed, ReqOK, ProcOK, Creates
  <2> QED
    BY <2>1, <2>2, ConstantsAssumption DEF OneKey, Creates
<1> QED
  BY <1>1, <1>2, <1>3, <1>4, <1>5, <1>6, <1>7, <1>8, <1>9, NextSplit, ProcessSteps DEF Once

\* A token that has not expired is accepted by every server that runs, after any
\* crashes and restarts, as long as no two processes made the key at once
\* (keys.go, NewKeyStore; tokens.go, Issue).
THEOREM TokensAlwaysOutliveRestarts == Spec => []TokensOutliveRestarts
<1>1. Init => OneKey
  BY DEF Init, OneKey, Creates, Down
<1>2. Typed /\ OneKey /\ [Next]_vars => Typed' /\ OneKey'
  BY TypedStep, OneKeyStep
<1>3. Typed /\ OneKey => TokensOutliveRestarts
  <2> SUFFICES ASSUME Typed, OneKey, ~raced, NEW token \in tokens, NEW p \in Procs, Listens(p)
               PROVE  token.key = proc[p].key
    BY DEF TokensOutliveRestarts
  <2>1. proc[p].key \in SigningKeys /\ ~Creates(p, "keys")
    BY DEF Typed, ProcOK, Listens, At, Creates
  <2> QED
    BY <2>1, ConstantsAssumption DEF OneKey
<1> QED
  BY <1>1, <1>2, <1>3, TypedInit, PTL DEF Spec

-----------------------------------------------------------------------------
(* The system repositories *)

\* While nothing was raced, a repository is created by one process, when there
\* is none; and no process passes a repository that is not there.
OneSystem ==
    /\ ~raced => \A type \in Types :
        /\ \A p, q \in Procs : Creates(p, type) /\ Creates(q, type) => p = q
        /\ \A p \in Procs : Creates(p, type) => systems[type] = 0
        /\ systems[type] <= 1
    /\ \A p \in Procs :
        /\ proc[p].step \in {"template", "seed", "serving"} => systems["general"] >= 1
        /\ proc[p].step \in {"seed", "serving"} => systems["template"] >= 1

\* A step of p that creates no repository.
LEMMA OneSystemKept ==
    ASSUME OneSystem, NEW p \in Procs, Only(p), systems' = systems, raced => raced',
           \A type \in Types : ~Creates(p, type)',
           \/ proc'[p].step \notin {"template", "seed", "serving"}
           \/ proc[p].step = "seed" /\ proc'[p].step = "serving"
    PROVE  OneSystem'
BY DEF OneSystem, Only, Creates

LEMMA FindSystemOne ==
    ASSUME Typed, OneSystem, NEW p \in Procs, NEW type \in Types, FindSystem(p, type)
    PROVE  OneSystem'
<1>1. /\ proc[p].step = type /\ systems' = systems /\ Types = {"general", "template"}
      /\ systems[type] \in Nat
      /\ AfterType(type) = IF type = "general" THEN "template" ELSE "seed"
      /\ AfterType(type) \in Steps
  BY DEF FindSystem, At, stored, Types, AfterType, Steps, Typed
<1>2. CASE NotFound(type)
  <2>1. Misses(p)
    BY <1>2 DEF FindSystem
  <2>2. Only(p) /\ proc'[p].step = type /\ proc'[p].missing /\ systems[type] = 0
    BY <1>1, <1>2, <2>1, MissesOK DEF NotFound
  <2>3. ~raced' => ~raced /\ \A q \in Procs : ~Creates(q, type)
    BY <1>1, <2>1, MissesAlone
  <2> QED
    BY <1>1, <2>2, <2>3 DEF OneSystem, Only, Creates
<1>3. CASE ~NotFound(type)
  <2>1. GoTo(p, AfterType(type)) /\ raced' = raced /\ systems[type] >= 1
    BY <1>1, <1>3 DEF FindSystem, NotFound
  <2>2. Only(p) /\ proc'[p].step = AfterType(type) /\ ~proc'[p].missing
    BY <1>1, <2>1, GoToOK
  <2>3. \A t \in Types : ~Creates(p, t)'
    BY <2>2 DEF Creates
  <2>4. /\ proc'[p].step \in {"template", "seed", "serving"} => systems'["general"] >= 1
        /\ proc'[p].step \in {"seed", "serving"} => systems'["template"] >= 1
    BY <1>1, <2>1, <2>2 DEF OneSystem
  <2> QED
    BY <1>1, <2>1, <2>2, <2>3, <2>4 DEF OneSystem, Only, Creates
<1> QED
  BY <1>2, <1>3

LEMMA CreateSystemOne ==
    ASSUME Typed, OneSystem, NEW p \in Procs, NEW type \in Types, CreateSystem(p, type)
    PROVE  OneSystem'
<1>1. /\ proc[p].step = type /\ Creates(p, type) /\ Types = {"general", "template"}
      /\ systems \in [Types -> Nat] /\ systems' = [systems EXCEPT ![type] = @ + 1]
      /\ raced' = raced /\ GoTo(p, AfterType(type))
      /\ AfterType(type) = IF type = "general" THEN "template" ELSE "seed"
      /\ AfterType(type) \in Steps
  BY DEF CreateSystem, Creates, Types, AfterType, Steps, Typed
<1>2. Only(p) /\ proc'[p].step = AfterType(type) /\ ~proc'[p].missing
  BY <1>1, GoToOK
<1>3. \A t \in Types : ~Creates(p, t)'
  BY <1>2 DEF Creates
<1>4. /\ systems'[type] = systems[type] + 1
      /\ \A t \in Types : t # type => systems'[t] = systems[t]
      /\ \A t \in Types : systems[t] \in Nat /\ systems'[t] >= systems[t]
  BY <1>1
<1>5. ~raced' => \A t \in Types :
        /\ \A q, r \in Procs : Creates(q, t)' /\ Creates(r, t)' => q = r
        /\ \A q \in Procs : Creates(q, t)' => systems'[t] = 0
        /\ systems'[t] <= 1
  <2> SUFFICES ASSUME ~raced', NEW t \in Types
               PROVE  /\ \A q, r \in Procs : Creates(q, t)' /\ Creates(r, t)' => q = r
                      /\ \A q \in Procs : Creates(q, t)' => systems'[t] = 0
                      /\ systems'[t] <= 1
    OBVIOUS
  <2>1. \A q \in Procs : Creates(q, t)' => q # p /\ Creates(q, t)
    BY <1>2, <1>3 DEF Only, Creates
  <2>2. /\ \A q, r \in Procs : Creates(q, t) /\ Creates(r, t) => q = r
        /\ \A q \in Procs : Creates(q, t) => systems[t] = 0
        /\ systems[t] <= 1
    BY <1>1 DEF OneSystem
  <2>3. CASE t = type
    BY <1>1, <1>4, <2>1, <2>2, <2>3
  <2>4. CASE t # type
    BY <1>4, <2>1, <2>2, <2>4
  <2> QED
    BY <2>3, <2>4
<1>6. ASSUME NEW q \in Procs
      PROVE  /\ proc'[q].step \in {"template", "seed", "serving"} => systems'["general"] >= 1
             /\ proc'[q].step \in {"seed", "serving"} => systems'["template"] >= 1
  <2>1. systems["general"] \in Nat /\ systems["template"] \in Nat
        /\ systems'["general"] >= systems["general"] /\ systems'["template"] >= systems["template"]
        /\ systems'["general"] \in Nat /\ systems'["template"] \in Nat
    BY <1>1
  <2>2. CASE q # p
    BY <1>2, <2>1, <2>2 DEF OneSystem, Only
  <2>3. CASE q = p
    <3>1. type = "template" => systems["general"] >= 1
      BY <1>1 DEF OneSystem
    <3> QED
      BY <1>1, <1>2, <1>4, <2>1, <2>3, <3>1
  <2> QED
    BY <2>2, <2>3
<1> QED
  BY <1>5, <1>6 DEF OneSystem

LEMMA OneSystemStep ==
    ASSUME Typed, OneSystem, [Next]_vars
    PROVE  OneSystem'
<1>0. \A p \in Procs : ProcOK(proc[p])
  BY DEF Typed
<1>1. CASE UNCHANGED vars
  BY <1>1 DEF vars, stored, OneSystem, Creates
<1>2. CASE \E token \in tokens : Expire(token)
  BY <1>2 DEF Expire, stored, OneSystem, Creates
<1>3. ASSUME NEW p \in Procs, Passes(p)
      PROVE  OneSystem'
  BY <1>3, OneSystemKept DEF Passes, Creates
<1>4. ASSUME NEW p \in Procs, KeyMissing(p)
      PROVE  OneSystem'
  <2>1. /\ Only(p) /\ proc'[p].step = "keys" /\ systems' = systems /\ (raced => raced')
    BY <1>4, MissesOK, MissesRace DEF KeyMissing, At, stored
  <2> QED
    BY <2>1, OneSystemKept DEF Creates, Types
<1>5. ASSUME NEW p \in Procs, NEW k \in SigningKeys, GenerateKey(p, k)
      PROVE  OneSystem'
  BY <1>5, GenerateKeyOK, OneSystemKept DEF GenerateKey, Creates, Types
<1>6. ASSUME NEW p \in Procs, WriteKey(p)
      PROVE  OneSystem'
  BY <1>6, GoToOK, OneSystemKept DEF WriteKey, Creates, Steps
<1>7. ASSUME NEW p \in Procs, InitCounts(p) \/ \E e \in Emails : InitCreates(p, e)
      PROVE  OneSystem'
  <2>1. /\ systems' = systems /\ proc[p].step = "setup"
        /\ Misses(p) \/ (proc' = [proc EXCEPT ![p] = Down] /\ UNCHANGED raced)
    BY <1>7 DEF InitCounts, InitCreates, At, Creates, stored
  <2>2. Only(p) /\ proc'[p].step \in {"setup", "down"} /\ (raced => raced')
    <3>1. CASE Misses(p)
      BY <2>1, <3>1, MissesOK, MissesRace
    <3>2. CASE proc' = [proc EXCEPT ![p] = Down] /\ UNCHANGED raced
      BY <3>2, GoneOK
    <3> QED
      BY <2>1, <3>1, <3>2
  <2> QED
    BY <2>1, <2>2, OneSystemKept DEF Creates, Types
<1>8. ASSUME NEW c \in Clients, Requests(c)
      PROVE  OneSystem'
  BY <1>8, RequestsKeep, RequestTokens DEF OneSystem, Creates
<1> QED
  BY <1>1, <1>2, <1>3, <1>4, <1>5, <1>6, <1>7, <1>8, FindSystemOne, CreateSystemOne, NextSplit,
     ProcessSteps DEF Once

-----------------------------------------------------------------------------
(* The first account *)

SetsUp(c) == req[c] # Idle /\ req[c].kind = "setup" /\ req[c].missing
First(e) == users[e] # NoUser /\ users[e].initial

\* A setup in flight is about to create; whoever creates accounts for others has
\* one to do it with.
Founded ==
    \A c \in Clients : req[c] # Idle =>
        /\ req[c].kind = "setup" => SetsUp(c)
        /\ req[c].kind = "create" => ~NoAccounts

\* While nothing was raced, one process or one request sets up, while there is
\* no account; and there is one first account.
OneFirst ==
    ~raced =>
        /\ \A p, q \in Procs : Creates(p, "setup") /\ Creates(q, "setup") => p = q
        /\ \A c, d \in Clients : SetsUp(c) /\ SetsUp(d) => c = d
        /\ \A p \in Procs, c \in Clients : ~(Creates(p, "setup") /\ SetsUp(c))
        /\ \A p \in Procs : Creates(p, "setup") => NoAccounts
        /\ \A c \in Clients : SetsUp(c) => NoAccounts
        /\ \A e, f \in Emails : First(e) /\ First(f) => e = f

FirstOK == Founded /\ OneFirst

\* A step of p that creates no account.
LEMMA FirstKept ==
    ASSUME FirstOK, NEW p \in Procs, Only(p), users' = users, raced => raced',
           \A c \in Clients : req'[c] # Idle => req'[c] = req[c],
           ~Creates(p, "setup")'
    PROVE  FirstOK'
<1>1. NoAccounts' = NoAccounts /\ \A e \in Emails : First(e)' <=> First(e)
  BY DEF NoAccounts, First
<1>2. \A c \in Clients : SetsUp(c)' => SetsUp(c)
  BY DEF SetsUp
<1>3. \A q \in Procs : Creates(q, "setup")' => Creates(q, "setup")
  BY DEF Only, Creates
<1>4. Founded'
  BY <1>1 DEF FirstOK, Founded, SetsUp
<1>5. OneFirst'
  BY <1>1, <1>2, <1>3 DEF FirstOK, OneFirst
<1> QED
  BY <1>4, <1>5 DEF FirstOK

LEMMA InitCountsFirst ==
    ASSUME Typed, FirstOK, NEW p \in Procs, InitCounts(p)
    PROVE  FirstOK'
<1>1. /\ proc[p].step = "setup" /\ users' = users /\ req' = req
  BY DEF InitCounts, At, stored
<1>2. CASE NoAccounts
  <2>1. Misses(p)
    BY <1>2 DEF InitCounts
  <2>2. Only(p)
    BY <2>1, MissesOK
  <2>3. ~raced' => /\ ~raced /\ \A q \in Procs : ~Creates(q, "setup")
                   /\ \A c \in Clients : ~SetsUp(c)
    BY <1>1, <2>1, MissesAlone DEF SetsUp
  <2>4. Founded'
    BY <1>1 DEF FirstOK, Founded, SetsUp, NoAccounts
  <2>5. ~raced' => OneFirst'
    <3> SUFFICES ASSUME ~raced' PROVE OneFirst'
      OBVIOUS
    <3>1. \A q \in Procs : Creates(q, "setup")' => q = p
      BY <2>2, <2>3 DEF Only, Creates
    <3>2. \A c \in Clients : ~SetsUp(c)'
      BY <1>1, <2>3 DEF SetsUp
    <3>3. NoAccounts' /\ \A e \in Emails : First(e)' <=> First(e)
      BY <1>1, <1>2 DEF NoAccounts, First
    <3> QED
      BY <2>3, <3>1, <3>2, <3>3 DEF FirstOK, OneFirst
  <2> QED
    BY <2>4, <2>5 DEF FirstOK, OneFirst
<1>3. CASE ~NoAccounts
  <2>1. proc' = [proc EXCEPT ![p] = Down] /\ raced' = raced
    BY <1>3 DEF InitCounts
  <2> QED
    BY <1>1, <2>1, GoneOK, FirstKept DEF Creates
<1> QED
  BY <1>2, <1>3

\* The first account is created for e; whoever else could create one is not
\* there.
LEMMA FirstCreated ==
    ASSUME Typed, OneFirst, NoAccounts, raced' = raced, NEW e \in Emails,
           users' = [users EXCEPT ![e] = InitialGM] \/ users' = users,
           \A q \in Procs : ~Creates(q, "setup")',
           \A c \in Clients : ~SetsUp(c)'
    PROVE  OneFirst'
<1>1. \A f \in Emails : First(f)' => f = e
  <2>1. \A f \in Emails : f # e => users'[f] = NoUser
    BY DEF NoAccounts, Typed
  <2> QED
    BY <2>1 DEF First
<1> QED
  BY <1>1 DEF OneFirst

LEMMA InitCreatesFirst ==
    ASSUME Typed, FirstOK, NEW p \in Procs, NEW e \in Emails, InitCreates(p, e)
    PROVE  FirstOK'
<1>1. /\ Creates(p, "setup") /\ req' = req /\ raced' = raced
      /\ users' = [users EXCEPT ![e] = InitialGM] \/ users' = users
      /\ proc' = [proc EXCEPT ![p] = Down]
  BY DEF InitCreates
<1>2. Only(p) /\ ~Creates(p, "setup")'
  BY <1>1, GoneOK DEF Creates
<1>3. Founded'
  <2>1. InitialGM \in Account /\ NoUser \notin Account /\ users \in [Emails -> Account \cup {NoUser}]
    BY ConstantsAssumption DEF InitialGM, Account, Typed
  <2>2. ~NoAccounts => ~NoAccounts'
    BY <1>1, <2>1 DEF NoAccounts
  <2> QED
    BY <1>1, <2>2 DEF FirstOK, Founded, SetsUp
<1>4. OneFirst'
  <2> SUFFICES ASSUME ~raced' PROVE OneFirst'
    BY DEF OneFirst
  <2>1. NoAccounts /\ (\A c \in Clients : ~SetsUp(c))
        /\ (\A q \in Procs : Creates(q, "setup") => q = p)
    BY <1>1 DEF FirstOK, OneFirst
  <2>2. (\A q \in Procs : ~Creates(q, "setup")') /\ (\A c \in Clients : ~SetsUp(c)')
    BY <1>1, <1>2, <2>1 DEF Only, Creates, SetsUp
  <2> QED
    BY <1>1, <2>1, <2>2, FirstCreated DEF FirstOK
<1> QED
  BY <1>3, <1>4 DEF FirstOK

LEMMA SetupCountsFirst ==
    ASSUME Typed, FirstOK, NEW c \in Clients, NEW p \in Procs, NEW e \in Emails, SetupCounts(c, p, e)
    PROVE  FirstOK'
<1> DEFINE r == [Request(p, "setup", e) EXCEPT !.missing = TRUE]
<1>1. /\ NoAccounts /\ req' = [req EXCEPT ![c] = r] /\ req[c] = Idle
      /\ UNCHANGED <<users, proc>>
      /\ raced' = (raced \/ Creating("setup") # {})
  BY DEF SetupCounts, Takes, stored
<1>2. r.kind = "setup" /\ r.missing
  BY DEF Request
<1> HIDE DEF r
<1>3. req'[c] = r /\ \A d \in Clients \ {c} : req'[d] = req[d]
  BY <1>1 DEF Typed
<1>4. NoAccounts' /\ (\A f \in Emails : First(f)' <=> First(f))
      /\ \A q \in Procs : Creates(q, "setup")' <=> Creates(q, "setup")
  BY <1>1 DEF NoAccounts, First, Creates
<1>5. Founded'
  BY <1>1, <1>2, <1>3 DEF FirstOK, Founded, SetsUp, NoAccounts
<1>6. OneFirst'
  <2> SUFFICES ASSUME ~raced' PROVE OneFirst'
    BY DEF OneFirst
  <2>1. /\ ~raced /\ (\A q \in Procs : ~Creates(q, "setup")) /\ \A d \in Clients : ~SetsUp(d)
    BY <1>1 DEF Creating, SetsUp
  <2>2. \A d \in Clients : SetsUp(d)' => d = c
    BY <1>3, <2>1 DEF SetsUp
  <2> QED
    BY <1>4, <2>1, <2>2 DEF FirstOK, OneFirst
<1> QED
  BY <1>5, <1>6 DEF FirstOK

LEMMA SetupCreatesFirst ==
    ASSUME Typed, FirstOK, NEW c \in Clients, SetupCreates(c)
    PROVE  FirstOK'
<1> DEFINE e == req[c].email
<1>1. /\ req[c] # Idle /\ req[c].kind = "setup" /\ req' = [req EXCEPT ![c] = Idle]
      /\ users' = [users EXCEPT ![e] = InitialGM] /\ UNCHANGED <<proc, raced>>
      /\ e \in Emails
  BY DEF SetupCreates, Doing, Answers, Typed, ReqOK
<1>2. SetsUp(c)
  BY <1>1 DEF FirstOK, Founded
<1>3. req'[c] = Idle /\ \A d \in Clients \ {c} : req'[d] = req[d]
  BY <1>1 DEF Typed
<1> HIDE DEF e
<1>4. Founded'
  <2>1. InitialGM \in Account /\ NoUser \notin Account /\ users \in [Emails -> Account \cup {NoUser}]
    BY ConstantsAssumption DEF InitialGM, Account, Typed
  <2>2. ~NoAccounts'
    BY <1>1, <2>1 DEF NoAccounts
  <2> QED
    BY <1>3, <2>2 DEF FirstOK, Founded, SetsUp
<1>5. OneFirst'
  <2> SUFFICES ASSUME ~raced' PROVE OneFirst'
    BY DEF OneFirst
  <2>1. NoAccounts /\ (\A d \in Clients : SetsUp(d) => d = c)
        /\ (\A q \in Procs : ~Creates(q, "setup"))
    BY <1>1, <1>2 DEF FirstOK, OneFirst
  <2>2. (\A q \in Procs : ~Creates(q, "setup")') /\ (\A d \in Clients : ~SetsUp(d)')
    BY <1>1, <1>3, <2>1 DEF Creates, SetsUp
  <2> QED
    BY <1>1, <2>1, <2>2, FirstCreated DEF FirstOK
<1> QED
  BY <1>4, <1>5 DEF FirstOK

\* Accounts are changed when there is one, so that nobody sets up.
LEMMA LaterAccounts ==
    ASSUME Typed, FirstOK, NEW c \in Clients, NEW e \in Emails, ~NoAccounts,
           UNCHANGED <<proc, raced>>, req' = [req EXCEPT ![c] = Idle],
           \A f \in Emails : f # e => users'[f] = users[f],
           users'[e] # NoUser, First(e)' => First(e)
    PROVE  FirstOK'
<1>1. req'[c] = Idle /\ \A d \in Clients \ {c} : req'[d] = req[d]
  BY DEF Typed
<1>2. ~NoAccounts'
  BY DEF NoAccounts
<1>3. Founded'
  BY <1>1, <1>2 DEF FirstOK, Founded, SetsUp
<1>4. \A f \in Emails : First(f)' => First(f)
  BY DEF First
<1>5. OneFirst'
  <2>1. \A d \in Clients : SetsUp(d)' => SetsUp(d)
    BY <1>1 DEF SetsUp
  <2>2. \A q \in Procs : Creates(q, "setup")' => Creates(q, "setup")
    BY DEF Creates
  <2> QED
    BY <1>4, <2>1, <2>2 DEF FirstOK, OneFirst
<1> QED
  BY <1>3, <1>5 DEF FirstOK

LEMMA CreateAccountFirst ==
    ASSUME Typed, FirstOK, NEW c \in Clients, NEW gm \in BOOLEAN, CreateAccount(c, gm)
    PROVE  FirstOK'
<1> DEFINE e == req[c].email
           account == [gm |-> gm, initial |-> FALSE, password |-> 0]
<1>1. /\ req[c] # Idle /\ req[c].kind = "create" /\ req' = [req EXCEPT ![c] = Idle]
      /\ users' = [users EXCEPT ![e] = account] /\ UNCHANGED <<proc, raced>>
      /\ e \in Emails /\ DOMAIN users = Emails
  BY DEF CreateAccount, Doing, Answers, Typed, ReqOK
<1>2. ~NoAccounts
  BY <1>1 DEF FirstOK, Founded
<1>3. account \in Account /\ ~account.initial
  BY DEF Account
<1> HIDE DEF e, account
<1>4. /\ users'[e] = account /\ account # NoUser
      /\ \A f \in Emails : f # e => users'[f] = users[f]
  BY <1>1, <1>3, ConstantsAssumption
<1> QED
  BY <1>1, <1>2, <1>3, <1>4, LaterAccounts DEF First

LEMMA ResetPasswordFirst ==
    ASSUME Typed, FirstOK, NEW c \in Clients, ResetPassword(c)
    PROVE  FirstOK'
<1> DEFINE e == req[c].email
           account == [users[e] EXCEPT !.password = @ + 1]
<1>1. /\ req' = [req EXCEPT ![c] = Idle] /\ users' = [users EXCEPT ![e] = account]
      /\ UNCHANGED <<proc, raced>>
      /\ e \in Emails /\ DOMAIN users = Emails /\ users[e] # NoUser /\ users[e] \in Account
  BY DEF ResetPassword, Doing, Answers, Typed, ReqOK
<1>2. ~NoAccounts
  BY <1>1 DEF NoAccounts
<1>3. account \in Account /\ account.initial = users[e].initial
  BY <1>1 DEF Account
<1> HIDE DEF e, account
<1>4. /\ users'[e] = account /\ account # NoUser
      /\ \A f \in Emails : f # e => users'[f] = users[f]
  BY <1>1, <1>3, ConstantsAssumption
<1> QED
  BY <1>1, <1>2, <1>3, <1>4, LaterAccounts DEF First

\* Tokens are issued to accounts.
TokensNamed == \A token \in tokens : token.user \in Emails

LEMMA NamedStep ==
    ASSUME Typed, TokensNamed, [Next]_vars
    PROVE  TokensNamed'
<1>1. CASE tokens' \subseteq tokens
  BY <1>1 DEF TokensNamed
<1>2. ASSUME NEW c \in Clients, Requests(c)
      PROVE  TokensNamed'
  BY <1>2, RequestTokens DEF TokensNamed, Typed, ReqOK
<1>3. ASSUME NEW p \in Procs, Once(p)
      PROVE  tokens' = tokens
  BY <1>3 DEF Once, KeyMissing, GenerateKey, WriteKey, FindSystem, CreateSystem, InitCounts,
              InitCreates
<1> QED
  BY <1>1, <1>2, <1>3, NextSplit, ProcessSteps DEF vars, Expire, Passes

\* The requests that leave the accounts alone.
LEMMA OtherRequestsFirst ==
    ASSUME Typed, TokensNamed, FirstOK, NEW c \in Clients,
           \/ \E p \in Procs, e \in Emails :
                \/ CreateChecks(c, p, e) \/ ResetChecks(c, p, e)
                \/ \E password \in 0 .. MaxResets : LoginVerifies(c, p, e, password)
           \/ Login(c) \/ Refuse(c)
    PROVE  FirstOK'
<1>1. /\ UNCHANGED <<users, proc, raced>>
      /\ \E r : /\ req' = [req EXCEPT ![c] = r]
                /\ r = Idle \/ r.kind \in {"reset", "login"} \/ (r.kind = "create" /\ ~NoAccounts)
  <2>1. ASSUME NEW p \in Procs, NEW e \in Emails, CreateChecks(c, p, e)
        PROVE  /\ UNCHANGED <<users, proc, raced>>
               /\ req' = [req EXCEPT ![c] = Request(p, "create", e)] /\ ~NoAccounts
    <3>1. PICK token \in tokens : users[token.user] # NoUser
      BY <2>1 DEF CreateChecks, GMToken
    <3>2. ~NoAccounts
      BY <3>1 DEF TokensNamed, NoAccounts
    <3> QED
      BY <2>1, <3>2 DEF CreateChecks, Takes, stored
  <2>2. ASSUME NEW p \in Procs, NEW e \in Emails, ResetChecks(c, p, e)
        PROVE  /\ UNCHANGED <<users, proc, raced>>
               /\ req' = [req EXCEPT ![c] = Request(p, "reset", e)]
    BY <2>2 DEF ResetChecks, Takes, stored
  <2>3. ASSUME NEW p \in Procs, NEW e \in Emails, NEW password \in 0 .. MaxResets,
               LoginVerifies(c, p, e, password)
        PROVE  /\ UNCHANGED <<users, proc, raced>>
               /\ req' = [req EXCEPT ![c] = Request(p, "login", e)]
    BY <2>3 DEF LoginVerifies, Takes, stored
  <2>4. ASSUME Login(c) \/ Refuse(c)
        PROVE  UNCHANGED <<users, proc, raced>> /\ req' = [req EXCEPT ![c] = Idle]
    BY <2>4 DEF Login, Refuse, Answers, stored
  <2>5. \A p \in Procs : \A kind, e : Request(p, kind, e).kind = kind
    BY DEF Request
  <2> QED
    BY <2>1, <2>2, <2>3, <2>4, <2>5
<1>2. PICK r : /\ req' = [req EXCEPT ![c] = r]
               /\ r = Idle \/ r.kind \in {"reset", "login"} \/ (r.kind = "create" /\ ~NoAccounts)
  BY <1>1
<1>3. req'[c] = r /\ \A d \in Clients \ {c} : req'[d] = req[d]
  BY <1>2 DEF Typed
<1>4. /\ NoAccounts' <=> NoAccounts
      /\ \A e \in Emails : First(e)' <=> First(e)
      /\ \A q \in Procs : Creates(q, "setup")' <=> Creates(q, "setup")
  BY <1>1 DEF NoAccounts, First, Creates
<1>5. Founded'
  BY <1>2, <1>3, <1>4 DEF FirstOK, Founded, SetsUp
<1>6. \A d \in Clients : SetsUp(d)' => SetsUp(d)
  BY <1>2, <1>3 DEF SetsUp
<1>7. OneFirst'
  BY <1>1, <1>4, <1>6 DEF FirstOK, OneFirst
<1> QED
  BY <1>5, <1>7 DEF FirstOK

LEMMA FirstStep ==
    ASSUME Typed, TokensNamed, FirstOK, [Next]_vars
    PROVE  FirstOK'
<1>1. CASE UNCHANGED <<stored, req, proc, raced>>
  BY <1>1 DEF stored, FirstOK, Founded, OneFirst, SetsUp, First, Creates, NoAccounts
<1>2. ASSUME NEW p \in Procs, Passes(p)
      PROVE  FirstOK'
  BY <1>2, FirstKept DEF Passes, Creates
<1>3. ASSUME NEW p \in Procs, KeyMissing(p)
      PROVE  FirstOK'
  <2>1. Misses(p) /\ proc[p].step = "keys" /\ UNCHANGED <<users, req>>
    BY <1>3 DEF KeyMissing, At, stored
  <2>2. Only(p) /\ ~Creates(p, "setup")' /\ (raced => raced')
    BY <2>1, MissesOK, MissesRace DEF Creates
  <2> QED
    BY <2>1, <2>2, FirstKept
<1>4. ASSUME NEW p \in Procs, NEW k \in SigningKeys, GenerateKey(p, k)
      PROVE  FirstOK'
  BY <1>4, GenerateKeyOK, FirstKept DEF GenerateKey, Creates
<1>5. ASSUME NEW p \in Procs, WriteKey(p)
      PROVE  FirstOK'
  BY <1>5, GoToOK, FirstKept DEF WriteKey, Creates, Steps
<1>6. ASSUME NEW p \in Procs, NEW type \in Types, FindSystem(p, type) \/ CreateSystem(p, type)
      PROVE  FirstOK'
  <2>1. /\ UNCHANGED <<users, req>> /\ proc[p].step = type /\ type # "setup"
        /\ AfterType(type) \in Steps
        /\ (Misses(p) \/ (GoTo(p, AfterType(type)) /\ UNCHANGED raced))
    BY <1>6 DEF FindSystem, CreateSystem, At, Creates, stored, Types, AfterType, Steps
  <2>2. CASE Misses(p)
    <3>1. Only(p) /\ ~Creates(p, "setup")' /\ (raced => raced')
      BY <2>1, <2>2, MissesOK, MissesRace DEF Creates
    <3> QED
      BY <2>1, <3>1, FirstKept
  <2>3. CASE GoTo(p, AfterType(type)) /\ UNCHANGED raced
    <3>1. Only(p) /\ ~Creates(p, "setup")'
      BY <2>1, <2>3, GoToOK DEF Creates
    <3> QED
      BY <2>1, <2>3, <3>1, FirstKept
  <2> QED
    BY <2>1, <2>2, <2>3
<1>7. ASSUME NEW c \in Clients, Requests(c)
      PROVE  FirstOK'
  BY <1>7, SetupCountsFirst, SetupCreatesFirst, CreateAccountFirst, ResetPasswordFirst,
     OtherRequestsFirst DEF Requests
<1>8. CASE \E token \in tokens : Expire(token)
  BY <1>1, <1>8 DEF Expire
<1> QED
  BY <1>1, <1>2, <1>3, <1>4, <1>5, <1>6, <1>7, <1>8, InitCountsFirst, InitCreatesFirst, NextSplit,
     ProcessSteps DEF Once, vars

\* However the server and the init command start, crash and set up: as long as
\* no two find the same thing missing at once, there is one first account and
\* one repository of each system type, and a server that serves has them
\* (knowledge_repositories.go, EnsureSystem; setup.go, CreateInitialGM).
THEOREM AlwaysOneOfEach == Spec => []OneOfEach
<1>1. Init => OneSystem /\ FirstOK /\ TokensNamed
  BY DEF Init, OneSystem, FirstOK, Founded, OneFirst, TokensNamed, Creates, SetsUp, First, Down,
         NoAccounts
<1>2. Typed /\ TokensNamed /\ OneSystem /\ FirstOK /\ [Next]_vars
        => Typed' /\ TokensNamed' /\ OneSystem' /\ FirstOK'
  BY TypedStep, NamedStep, OneSystemStep, FirstStep
<1>3. Typed /\ OneSystem /\ FirstOK => OneOfEach
  <2> SUFFICES ASSUME Typed, OneSystem, FirstOK PROVE OneOfEach
    OBVIOUS
  <2> DEFINE firsts == {e \in Emails : users[e] # NoUser /\ users[e].initial}
  <2>1. ~raced => Cardinality(firsts) <= 1
    <3> SUFFICES ASSUME ~raced PROVE Cardinality(firsts) <= 1
      OBVIOUS
    <3>1. CASE firsts = {}
      BY <3>1, FS_EmptySet
    <3>2. CASE firsts # {}
      <4>1. PICK e \in firsts : TRUE
        BY <3>2
      <4>2. firsts = {e}
        BY <4>1 DEF FirstOK, OneFirst, First
      <4>3. Cardinality({e}) = 1
        BY FS_Singleton
      <4> HIDE DEF firsts
      <4> QED
        BY <4>2, <4>3
    <3> QED
      BY <3>1, <3>2
  <2>2. \A p \in Procs : Listens(p) => \A type \in Types : systems[type] >= 1
    BY DEF OneSystem, Listens, At, Types
  <2> QED
    BY <2>1, <2>2 DEF OneOfEach, OneSystem
<1> QED
  BY <1>1, <1>2, <1>3, TypedInit, PTL DEF Spec

=============================================================================
