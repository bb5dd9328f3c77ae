------------------------------- MODULE Server -------------------------------
(***************************************************************************)
(* An installation over its lifetime: processes that start, serve, stop    *)
(* and crash over one database and one directory of keys.                  *)
(*                                                                         *)
(* A process is the server or the init command.  Both run the pending      *)
(* migrations and load or generate the signing key; the server then makes  *)
(* sure of the system repositories, seeds the catalog and serves, the init *)
(* command creates the first GM.  Whatever has to exist once is looked for *)
(* and then created, in two steps, with nothing held in between.           *)
(***************************************************************************)
EXTENDS Integers, FiniteSets, Sequences

CONSTANTS
    Procs, Clients, Emails, SigningKeys,
    Idle, NoUser, NoKey, Torn,  \* Torn: a key file that was not written to its end
    Migrations,                 \* how many migrations there are
    MaxStarts,                  \* bound: processes started
    MaxRequests,                \* bound: requests served
    MaxResets                   \* bound: passwords an account has had

Account == [gm: BOOLEAN, initial: BOOLEAN, password: Nat]

ASSUME ConstantsAssumption ==
    /\ NoUser \notin Account
    /\ {NoKey, Torn} \cap SigningKeys = {} /\ NoKey # Torn
    /\ IsFiniteSet(Procs) /\ IsFiniteSet(Clients)
    /\ Migrations \in Nat /\ MaxStarts \in Nat /\ MaxRequests \in Nat /\ MaxResets \in Nat

VARIABLES
    schema,     \* migrations recorded as applied
    keyFile,    \* private.pem
    systems,    \* systems[type]: how many repositories of the type there are
    users,      \* users[e]: the account with email e
    proc,       \* proc[p]: what process p is doing
    req,        \* req[c]: the request client c has in flight
    tokens,     \* the tokens issued and not expired
    starts, served,
    raced       \* whether two were ever about to create the same thing

stored == <<schema, keyFile, systems, users>>
counts == <<starts, served>>
vars == <<stored, proc, req, tokens, counts, raced>>

Types == {"general", "template"}

\* The steps of a process, in order; a server passes over "setup" and the init
\* command goes from the key to it.
Steps == {"down", "migrate", "keys", "public", "general", "template", "seed",
          "serving", "stopping", "setup"}
Down == [kind |-> "serve", step |-> "down", missing |-> FALSE, key |-> NoKey, stopped |-> 0,
         late |-> FALSE]

\* The components in the order Shutdown hands them to ShutdownAll.
DatabaseFirst == <<"database", "server">>
Components == <<"server", "database">>

Init ==
    /\ schema = 0
    /\ keyFile = NoKey
    /\ systems = [type \in Types |-> 0]
    /\ users = [e \in Emails |-> NoUser]
    /\ proc = [p \in Procs |-> Down]
    /\ req = [c \in Clients |-> Idle]
    /\ tokens = {}
    /\ starts = 0 /\ served = 0
    /\ raced = FALSE

-----------------------------------------------------------------------------
(* Looking for what has to exist once *)

At(p, step) == proc[p].step = step /\ ~proc[p].missing
Creates(p, step) == proc[p].step = step /\ proc[p].missing

Creating(step) == {p \in Procs : Creates(p, step)}
                      \cup {c \in Clients : req[c] # Idle /\ req[c].kind = step /\ req[c].missing}

GoTo(p, step) == proc' = [proc EXCEPT ![p].step = step, ![p].missing = FALSE]

\* Process p did not find what the step looks for and is about to create it.
Misses(p) ==
    /\ proc' = [proc EXCEPT ![p].missing = TRUE]
    /\ raced' = (raced \/ Creating(proc[p].step) # {})

NoAccounts == \A e \in Emails : users[e] = NoUser

-----------------------------------------------------------------------------
(* Starting *)

Start(p, kind) ==
    /\ proc[p] = Down
    /\ starts < MaxStarts
    /\ proc' = [proc EXCEPT ![p].kind = kind, ![p].step = "migrate"]
    /\ starts' = starts + 1
    /\ UNCHANGED <<stored, req, tokens, served, raced>>

\* Each pending migration is applied and recorded; applying one again is harmless.
Migrate(p) ==
    /\ At(p, "migrate")
    /\ IF schema < Migrations
       THEN schema' = schema + 1 /\ UNCHANGED proc
       ELSE GoTo(p, "keys") /\ UNCHANGED schema
    /\ UNCHANGED <<keyFile, systems, users, req, tokens, counts, raced>>

AfterKeys(p) == IF proc[p].kind = "init" THEN "setup" ELSE "general"

\* NewKeyStore finds private.pem and loads it; a torn file it cannot decode.
StatElsewhere(file) == NoKey
Stat(file) == file

LoadKey(p) ==
    /\ At(p, "keys")
    /\ Stat(keyFile) \in SigningKeys
    /\ proc' = [proc EXCEPT ![p].key = keyFile, ![p].step = AfterKeys(p)]
    /\ UNCHANGED <<stored, req, tokens, counts, raced>>

KeyUnreadable(p) ==
    /\ At(p, "keys")
    /\ Stat(keyFile) = Torn
    /\ proc' = [proc EXCEPT ![p] = Down]
    /\ UNCHANGED <<stored, req, tokens, counts, raced>>

KeyMissing(p) ==
    /\ At(p, "keys")
    /\ Stat(keyFile) = NoKey
    /\ Misses(p)
    /\ UNCHANGED <<stored, req, tokens, counts>>

\* generateKeyStore: the file is truncated, then written.
GenerateKey(p, k) ==
    /\ Creates(p, "keys")
    /\ proc[p].key = NoKey
    /\ k # keyFile /\ \A q \in Procs : proc[q].key # k
    /\ \A token \in tokens : token.key # k
    /\ keyFile' = Torn
    /\ proc' = [proc EXCEPT ![p].key = k]
    /\ UNCHANGED <<schema, systems, users, req, tokens, counts, raced>>

WriteKey(p) ==
    /\ Creates(p, "keys")
    /\ proc[p].key # NoKey
    /\ keyFile' = proc[p].key
    /\ GoTo(p, "public")
    /\ UNCHANGED <<schema, systems, users, req, tokens, counts, raced>>

\* Nothing reads public.pem.
WritePublicKey(p) ==
    /\ At(p, "public")
    /\ GoTo(p, AfterKeys(p))
    /\ UNCHANGED <<stored, req, tokens, counts, raced>>

\* ensureSingleton: the general repository, then the template.
Unfound(type) == TRUE
NotFound(type) == systems[type] = 0
AfterType(type) == IF type = "general" THEN "template" ELSE "seed"

FindSystem(p, type) ==
    /\ At(p, type)
    /\ IF NotFound(type) THEN Misses(p) ELSE GoTo(p, AfterType(type)) /\ UNCHANGED raced
    /\ UNCHANGED <<stored, req, tokens, counts>>

CreateSystem(p, type) ==
    /\ Creates(p, type)
    /\ systems' = [systems EXCEPT ![type] = @ + 1]
    /\ GoTo(p, AfterType(type))
    /\ UNCHANGED <<schema, keyFile, users, req, tokens, counts, raced>>

\* The catalog file is loaded, and the listener opened.
Seed(p) ==
    /\ At(p, "seed")
    /\ GoTo(p, "serving")
    /\ UNCHANGED <<stored, req, tokens, counts, raced>>

\* The init command: NeedsSetup, then the first account.
InitCounts(p) ==
    /\ At(p, "setup")
    /\ IF NoAccounts THEN Misses(p) ELSE proc' = [proc EXCEPT ![p] = Down] /\ UNCHANGED raced
    /\ UNCHANGED <<stored, req, tokens, counts>>

InitialGM == [gm |-> TRUE, initial |-> TRUE, password |-> 0]

InitCreates(p, e) ==
    /\ Creates(p, "setup")
    /\ users' = IF users[e] = NoUser THEN [users EXCEPT ![e] = InitialGM] ELSE users
    /\ proc' = [proc EXCEPT ![p] = Down]
    /\ UNCHANGED <<schema, keyFile, systems, req, tokens, counts, raced>>

-----------------------------------------------------------------------------
(* Stopping *)

\* The process is gone, and its requests with it: a crash, a kill, an I/O error
\* on the way up, the end of a shutdown.
Gone(p) ==
    /\ proc' = [proc EXCEPT ![p] = Down]
    /\ req' = [c \in Clients |-> IF req[c] # Idle /\ req[c].on = p THEN Idle ELSE req[c]]

Crash(p) ==
    /\ proc[p] # Down
    /\ Gone(p)
    /\ UNCHANGED <<stored, tokens, counts, raced>>

Interrupt(p) ==
    /\ At(p, "serving")
    /\ proc' = [proc EXCEPT ![p].step = "stopping"]
    /\ UNCHANGED <<stored, req, tokens, counts, raced>>

InFlight(p) == {c \in Clients : req[c] # Idle /\ req[c].on = p}

\* One minute after the interrupt.
NoDeadline(p) == FALSE
Deadline(p) == At(p, "stopping") /\ ~proc[p].late

TimeOut(p) ==
    /\ Deadline(p)
    /\ proc' = [proc EXCEPT ![p].late = TRUE]
    /\ UNCHANGED <<stored, req, tokens, counts, raced>>

\* runShutdown: the server waits for its requests until the deadline, the
\* database closes at once.
ShutdownNext(p) ==
    /\ At(p, "stopping")
    /\ proc[p].stopped < Len(Components)
    /\ Components[proc[p].stopped + 1] = "server" => InFlight(p) = {} \/ proc[p].late
    /\ proc' = [proc EXCEPT ![p].stopped = @ + 1]
    /\ UNCHANGED <<stored, req, tokens, counts, raced>>

Exit(p) ==
    /\ At(p, "stopping")
    /\ proc[p].stopped = Len(Components)
    /\ Gone(p)
    /\ UNCHANGED <<stored, tokens, counts, raced>>

Listens(p) == At(p, "serving")
DatabaseOpen(p) ==
    \/ Listens(p)
    \/ /\ At(p, "stopping")
       /\ \A i \in 1 .. proc[p].stopped : Components[i] # "database"

-----------------------------------------------------------------------------
(* Requests *)

Takes(c, p, r) ==
    /\ Listens(p)
    /\ req[c] = Idle
    /\ served < MaxRequests
    /\ req' = [req EXCEPT ![c] = r]
    /\ served' = served + 1

Doing(c, kind) == req[c] # Idle /\ req[c].kind = kind /\ DatabaseOpen(req[c].on)
Answers(c) == req' = [req EXCEPT ![c] = Idle]

Request(p, kind, e) == [on |-> p, kind |-> kind, email |-> e, missing |-> FALSE]

\* TokenService.Issue: signed with the key the process holds.
Issues(c) == tokens' = tokens \cup {[user |-> req[c].email, key |-> proc[req[c].on].key]}

\* RequireAuth for an operation of GMs.
GMToken(p) == \E token \in tokens :
    token.key = proc[p].key /\ users[token.user] # NoUser /\ users[token.user].gm

\* CreateInitialGM: count, create, issue.
SetupCounts(c, p, e) ==
    /\ NoAccounts
    /\ Takes(c, p, [Request(p, "setup", e) EXCEPT !.missing = TRUE])
    /\ raced' = (raced \/ Creating("setup") # {})
    /\ UNCHANGED <<stored, proc, tokens, starts>>

SetupCreates(c) ==
    /\ Doing(c, "setup")
    /\ users[req[c].email] = NoUser
    /\ users' = [users EXCEPT ![req[c].email] = InitialGM]
    /\ Issues(c)
    /\ Answers(c)
    /\ UNCHANGED <<schema, keyFile, systems, proc, counts, raced>>

\* CreateAccount: the email is looked up, then the account created.
CreateChecks(c, p, e) ==
    /\ GMToken(p)
    /\ users[e] = NoUser
    /\ Takes(c, p, Request(p, "create", e))
    /\ UNCHANGED <<stored, proc, tokens, starts, raced>>

CreateAccount(c, gm) ==
    /\ Doing(c, "create")
    /\ users[req[c].email] = NoUser
    /\ users' = [users EXCEPT ![req[c].email] = [gm |-> gm, initial |-> FALSE, password |-> 0]]
    /\ Answers(c)
    /\ UNCHANGED <<schema, keyFile, systems, proc, tokens, counts, raced>>

\* ResetPassword: a new password, the account having been found.
ResetChecks(c, p, e) ==
    /\ GMToken(p)
    /\ users[e] # NoUser
    /\ Takes(c, p, Request(p, "reset", e))
    /\ UNCHANGED <<stored, proc, tokens, starts, raced>>

ResetPassword(c) ==
    LET e == req[c].email IN
    /\ Doing(c, "reset")
    /\ users[e].password < MaxResets
    /\ users' = [users EXCEPT ![e].password = @ + 1]
    /\ Answers(c)
    /\ UNCHANGED <<schema, keyFile, systems, proc, tokens, counts, raced>>

\* Login: the row is read and its password verified; a token follows.
LoginVerifies(c, p, e, password) ==
    /\ users[e] # NoUser
    /\ users[e].password = password
    /\ Takes(c, p, Request(p, "login", e))
    /\ UNCHANGED <<stored, proc, tokens, starts, raced>>

Login(c) ==
    /\ req[c] # Idle /\ req[c].kind = "login"
    /\ Issues(c)
    /\ Answers(c)
    /\ UNCHANGED <<stored, proc, counts, raced>>

\* An error answer: an account created meanwhile, a database that is closed.
Refuse(c) ==
    /\ req[c] # Idle
    /\ Answers(c)
    /\ UNCHANGED <<stored, proc, tokens, counts, raced>>

Expire(token) ==
    /\ tokens' = tokens \ {token}
    /\ UNCHANGED <<stored, proc, req, counts, raced>>

-----------------------------------------------------------------------------

Next ==
    \/ \E p \in Procs :
        \/ \E kind \in {"serve", "init"} : Start(p, kind)
        \/ Migrate(p)
        \/ LoadKey(p)
        \/ KeyUnreadable(p)
        \/ KeyMissing(p)
        \/ \E k \in SigningKeys : GenerateKey(p, k)
        \/ WriteKey(p)
        \/ WritePublicKey(p)
        \/ \E type \in Types : FindSystem(p, type) \/ CreateSystem(p, type)
        \/ Seed(p)
        \/ InitCounts(p)
        \/ \E e \in Emails : InitCreates(p, e)
        \/ Crash(p)
        \/ Interrupt(p)
        \/ TimeOut(p)
        \/ ShutdownNext(p)
        \/ Exit(p)
    \/ \E c \in Clients :
        \/ \E p \in Procs, e \in Emails :
            \/ SetupCounts(c, p, e)
            \/ CreateChecks(c, p, e)
            \/ ResetChecks(c, p, e)
            \/ \E password \in 0 .. MaxResets : LoginVerifies(c, p, e, password)
        \/ SetupCreates(c)
        \/ \E gm \in BOOLEAN : CreateAccount(c, gm)
        \/ ResetPassword(c)
        \/ Login(c)
        \/ Refuse(c)
    \/ \E token \in tokens : Expire(token)

\* A shutdown that has begun goes on and its minute passes; requests may never end.
Spec ==
    /\ Init
    /\ [][Next]_vars
    /\ \A p \in Procs : WF_vars(ShutdownNext(p)) /\ WF_vars(Exit(p)) /\ WF_vars(TimeOut(p))

-----------------------------------------------------------------------------
(* Properties *)

\* However often the server crashes on its way up and is started again, and
\* whoever runs the setup: as long as no two find the same thing missing at
\* once, there is one first GM and one repository of each system type, and a
\* server that serves has them.
OneOfEach ==
    /\ ~raced =>
        /\ \A type \in Types : systems[type] <= 1
        /\ Cardinality({e \in Emails : users[e] # NoUser /\ users[e].initial}) <= 1
    /\ \A p \in Procs : Listens(p) => \A type \in Types : systems[type] >= 1

\* A token is accepted by every server that runs before it expires, whatever
\* crashes, restarts and init commands lie between, as long as no two find the
\* key missing at once.
TokensOutliveRestarts ==
    ~raced => \A token \in tokens, p \in Procs : Listens(p) => token.key = proc[p].key

\* A request meets a closed database only when its server's minute has passed.
ServedToTheEnd ==
    \A c \in Clients : req[c] # Idle =>
        DatabaseOpen(req[c].on) \/ proc[req[c].on].late

\* A server that is told to stop is gone in the end, whatever its requests do.
StopsInTheEnd ==
    \A p \in Procs : proc[p].step = "stopping" ~> proc[p] = Down

=============================================================================
