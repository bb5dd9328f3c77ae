------------------------------- MODULE Login -------------------------------
(***************************************************************************)
(* The handlers the limiter guards, served concurrently: a login checks    *)
(* and charges one key for the client's address and one for the account, a *)
(* password reset one for the target account.  Each call of the limiter is *)
(* a step of its own, with the work of the request between them.           *)
(*                                                                         *)
(* Whether a password is right is the environment's choice.                *)
(***************************************************************************)
EXTENDS Throttle

CONSTANTS
    Clients, Idle,
    IPs, Accounts, Resets   \* the keys login:ip:, login:acct: and reset:acct:

ASSUME KeysAssumption ==
    /\ Keys = IPs \cup Accounts \cup Resets
    /\ IPs \cap Accounts = {} /\ IPs \cap Resets = {} /\ Accounts \cap Resets = {}
    /\ Idle \notin [step: STRING, ip: IPs, key: Accounts \cup Resets]

VARIABLE attempt    \* attempt[c]: where the request of client c is, or Idle

loginVars == <<states, attempt>>

Attempt ==
    [step: {"check account", "verify", "charge ip", "charge account", "clear"},
     ip: IPs, key: Accounts]
        \cup [step: {"reset", "charge account"}, ip: {Idle}, key: Resets]

At(c, step) == attempt[c] # Idle /\ attempt[c].step = step

GoTo(c, step) == attempt' = [attempt EXCEPT ![c].step = step]

End(c) == attempt' = [attempt EXCEPT ![c] = Idle]

-----------------------------------------------------------------------------

LoginInit ==
    /\ Init
    /\ attempt = [c \in Clients |-> Idle]

\* A login from an address that is not locked; otherwise the answer is 429.
CheckIPChargingRefusals(c, ip, acct) ==
    /\ attempt[c] = Idle
    /\ IF Allowed(ip)
       THEN /\ attempt' = [attempt EXCEPT ![c] =
                              [step |-> "check account", ip |-> ip, key |-> acct]]
            /\ UNCHANGED states
       ELSE Penalize(ip) /\ UNCHANGED attempt
CheckIP(c, ip, acct) ==
    /\ attempt[c] = Idle
    /\ Allowed(ip)
    /\ attempt' = [attempt EXCEPT ![c] = [step |-> "check account", ip |-> ip, key |-> acct]]
    /\ UNCHANGED states

CheckAccount(c) ==
    /\ At(c, "check account")
    /\ IF Allowed(attempt[c].key) THEN GoTo(c, "verify") ELSE End(c)
    /\ UNCHANGED states

\* AuthService.Login rejects the credentials.
Reject(c) == At(c, "verify") /\ GoTo(c, "charge ip") /\ UNCHANGED states

\* AuthService.Login accepts them and issues a token.
Accept(c) == At(c, "verify") /\ GoTo(c, "clear") /\ UNCHANGED states

ChargeIP(c) ==
    /\ At(c, "charge ip")
    /\ Penalize(attempt[c].ip)
    /\ GoTo(c, "charge account")

\* The last step of a rejected login and of a reset that was done.
ChargeAccount(c) ==
    /\ At(c, "charge account")
    /\ Penalize(attempt[c].key)
    /\ End(c)

\* A success clears the account's failures and not the address's.
ClearBoth(c) ==
    /\ At(c, "clear")
    /\ states' = [k \in Keys |->
                     IF k \in {attempt[c].key, attempt[c].ip} THEN Absent ELSE states[k]]
    /\ End(c)
Clear(c) ==
    /\ At(c, "clear")
    /\ Reset(attempt[c].key)
    /\ End(c)

\* ResetPassword.
CheckReset(c, key) ==
    /\ attempt[c] = Idle
    /\ Allowed(key)
    /\ attempt' = [attempt EXCEPT ![c] = [step |-> "reset", ip |-> Idle, key |-> key]]
    /\ UNCHANGED states

ResetPassword(c) == At(c, "reset") /\ GoTo(c, "charge account") /\ UNCHANGED states

\* A server error, an unknown target or a caller who is no GM: nothing is charged.
Fault(c) == (At(c, "verify") \/ At(c, "reset")) /\ End(c) /\ UNCHANGED states

\* The process stops: requests and limiter go with it.
Crash == Restart /\ attempt' = [c \in Clients |-> Idle]

Clock == Tick /\ UNCHANGED attempt

LoginNext ==
    \/ \E c \in Clients :
        \/ \E ip \in IPs, acct \in Accounts : CheckIP(c, ip, acct)
        \/ \E key \in Resets : CheckReset(c, key)
        \/ CheckAccount(c)
        \/ Reject(c)
        \/ Accept(c)
        \/ ChargeIP(c)
        \/ ChargeAccount(c)
        \/ Clear(c)
        \/ ResetPassword(c)
        \/ Fault(c)
    \/ Crash
    \/ Clock

\* Time passes; nothing else is sure to happen.
LoginSpec == LoginInit /\ [][LoginNext]_loginVars /\ WF_loginVars(Clock)

-----------------------------------------------------------------------------
(* Properties *)

AttemptsOK == attempt \in [Clients -> Attempt \cup {Idle}]

\* The handlers use the limiter only through its operations.
UsesThrottle == Spec

\* A lock is cut short by nothing but a restart and, on an account, a login to
\* that account that had passed its checks: a success clears the account's
\* failures, not the address's, and a reset target's are never cleared.
LockStands ==
    [][\A k \in Keys :
        /\ Locked(k)
        /\ ~Crash
        /\ ~\E c \in Clients : k \in Accounts /\ At(c, "clear") /\ attempt[c].key = k /\ Clear(c)
        => /\ states'[k] # Absent
           /\ states'[k].lock >= states[k].lock - (IF Clock THEN 1 ELSE 0)]_loginVars

\* Every lock ends, however many requests keep coming: a refused request is not
\* charged, so only those that had passed the check can extend it.
LocksEnd == \A k \in Keys : Locked(k) ~> ~Locked(k)

=============================================================================
