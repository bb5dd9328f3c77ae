------------------------------- MODULE Coins -------------------------------
(***************************************************************************)
(* Money: the catalog of currencies and items, the balances that refer to  *)
(* it, and the arithmetic on amounts.                                      *)
(*                                                                         *)
(* The catalog is seeded from a file at every start, one committed row at  *)
(* a time, before requests are served; a crash or an invalid row ends the  *)
(* start with the rows before it applied.  While requests are served, a GM *)
(* may add rows.  Creating a row and setting a balance both read first and *)
(* write in a later transaction: a request of someone else may commit in   *)
(* between.                                                                *)
(*                                                                         *)
(* Amounts and ratios are integers of -Half .. Half - 1, and the sums of   *)
(* the code wrap around.                                                   *)
(***************************************************************************)
EXTENDS Integers, FiniteSets, Sequences, SequencesExt

CONSTANTS
    Users, GMs,
    Characters, Groups,     \* the owners of money
    Access,                 \* Access[u]: the owners user u may act for without being a GM
    Codes,                  \* currency codes, numbered in the order the code sorts them
    ItemNames,              \* names of item definitions
    Ids,                    \* identifiers of catalog rows (uuid)
    Files,                  \* the seed files an operator may configure
    Ratios, Amounts,        \* what requests may carry
    Purses,                 \* the lists of amounts a request may ask about
    NoRow, Idle, NoReply,
    Half,                   \* half the number of integers: 2^63 in the code
    MaxBalances,            \* bound: balance rows when a request for a new one begins
    MaxStarts               \* bound: starts of the server

Owners == Characters \cup Groups
Keys == Codes \cup ItemNames

\* A row's value is the ratio of a currency, the category of an item.
Row == [id : Ids, value : Nat]

Balance == [owner : Owners, currency : Ids, amount : Nat]

ASSUME ConstantsAssumption ==
    /\ GMs \subseteq Users
    /\ Characters \cap Groups = {}
    /\ Access \in [Users -> SUBSET Owners]
    /\ Codes \subseteq Nat /\ IsFiniteSet(Codes)
    /\ Codes \cap ItemNames = {}
    /\ Files \subseteq Seq([key : Keys, value : Nat])
    /\ Ratios \subseteq Nat
    /\ Amounts \subseteq Nat
    /\ Purses \subseteq Seq([code : Codes, amount : Int])
    /\ NoRow \notin Row
    /\ Half \in Nat \ {0}
    /\ MaxBalances \in Nat
    /\ MaxStarts \in Nat

VARIABLES
    catalog,    \* catalog[k]: the row whose unique code or name is k
    balances,   \* the balance rows, in the order they were inserted
    news,       \* the groups the last transaction wrote an activity entry for
    mode,       \* "down", "seeding" or "serving"
    file,       \* the seed file of the last start
    next,       \* the row of it that is seeded next
    starts,     \* how often the server was started
    req,        \* req[u]: what the request of u has read and not yet acted on
    reply       \* the last answer of Convert or Simplify

vars == <<catalog, balances, news, mode, file, next, starts, req, reply>>

catalogued == {k \in Keys : catalog[k] # NoRow}
Currencies == {c \in Codes : catalog[c] # NoRow}
CurrencyIds == {catalog[c].id : c \in Currencies}

\* Identifiers no row has and no balance refers to.
FreshIds == Ids \ ({catalog[k].id : k \in catalogued}
                    \cup {balances[j].currency : j \in DOMAIN balances})

-----------------------------------------------------------------------------
(* Arithmetic                                                                *)

\* int64 arithmetic wraps around; Go's division truncates toward zero.
wrap(n) == ((n + Half) % (2 * Half)) - Half
Quotient(n, d) == IF n >= 0 THEN n \div d ELSE -((-n) \div d)

ratio(c) == catalog[c].value

\* resolveCurrency and baseValue.
Resolves(purse) ==
    /\ purse # <<>>
    /\ \A j \in DOMAIN purse : purse[j].code \in Currencies /\ purse[j].amount >= 0
baseValue(purse) ==
    FoldLeft(LAMBDA total, a : wrap(total + wrap(a.amount * ratio(a.code))), 0, purse)

\* Currencies.List: by ratio, then code.
Before(c, d) == ratio(c) < ratio(d) \/ (ratio(c) = ratio(d) /\ c < d)
List == CHOOSE s \in SetToSeqs(Currencies) :
            \A i, j \in DOMAIN s : i < j => Before(s[i], s[j])

\* Simplify: from the highest ratio down, as many units as the rest allows.
NoCoins == [c \in Currencies |-> 0]
TakeCoins(s, c) ==
    LET units == Quotient(s.rest, ratio(c))
    IN  [rest  |-> s.rest - units * ratio(c),
         coins |-> [s.coins EXCEPT ![c] = units]]
BreakdownUp(total) == FoldLeft(TakeCoins, [rest |-> total, coins |-> NoCoins], List)
Descending == Reverse(List)
Breakdown(total) == FoldLeft(TakeCoins, [rest |-> total, coins |-> NoCoins], Descending)

-----------------------------------------------------------------------------
(* Starting: the seed file                                                   *)

\* A ratio below 1 and an empty name are refused; 0 stands for either.
Valid(r) == r.value > 0

\* UpsertByCode, UpsertByName: the row of that key keeps its identifier.
UpsertReplaces(key, value) ==
    {[catalog EXCEPT ![key] = [id |-> i, value |-> value]] : i \in FreshIds}
UpsertKeeps(key, value) ==
    IF catalog[key] = NoRow
    THEN {[catalog EXCEPT ![key] = [id |-> i, value |-> value]] : i \in FreshIds}
    ELSE {catalog}
Upsert(key, value) ==
    IF catalog[key] = NoRow
    THEN {[catalog EXCEPT ![key] = [id |-> i, value |-> value]] : i \in FreshIds}
    ELSE {[catalog EXCEPT ![key].value = value]}

Init ==
    /\ catalog = [k \in Keys |-> NoRow]
    /\ balances = <<>>
    /\ news = {}
    /\ mode = "down"
    /\ file = <<>> /\ next = 1
    /\ starts = 0
    /\ req = [u \in Users |-> Idle]
    /\ reply = NoReply

Start(f) ==
    /\ mode = "down" /\ starts < MaxStarts
    /\ mode' = "seeding"
    /\ file' = f /\ next' = 1
    /\ starts' = starts + 1
    /\ UNCHANGED <<catalog, balances, news, req, reply>>

\* LoadFile, one row.
SeedRow ==
    /\ mode = "seeding" /\ next <= Len(file)
    /\ Valid(file[next])
    /\ catalog' \in Upsert(file[next].key, file[next].value)
    /\ next' = next + 1
    /\ UNCHANGED <<balances, news, mode, file, starts, req, reply>>

\* LoadFile at an invalid row: the start fails.
SeedFails ==
    /\ mode = "seeding" /\ next <= Len(file)
    /\ ~Valid(file[next])
    /\ mode' = "down"
    /\ UNCHANGED <<catalog, balances, news, file, next, starts, req, reply>>

Serve ==
    /\ mode = "seeding" /\ next > Len(file)
    /\ mode' = "serving"
    /\ UNCHANGED <<catalog, balances, news, file, next, starts, req, reply>>

\* The process ends, whatever it was doing.
Crash ==
    /\ mode # "down"
    /\ mode' = "down"
    /\ req' = [u \in Users |-> Idle]
    /\ reply' = NoReply
    /\ UNCHANGED <<catalog, balances, news, file, next, starts>>

-----------------------------------------------------------------------------
(* Requests                                                                  *)

Reads(u, r) ==
    /\ mode = "serving"
    /\ req[u] = Idle
    /\ req' = [req EXCEPT ![u] = r]
    /\ reply' = NoReply
    /\ UNCHANGED <<catalog, balances, news, mode, file, next, starts>>

Writes(u) ==
    /\ req' = [req EXCEPT ![u] = Idle]
    /\ reply' = NoReply
    /\ UNCHANGED <<mode, file, next, starts>>

Doing(u, kind) == req[u] # Idle /\ req[u].kind = kind

\* CreateCurrency and CreateItemDefinition up to their insert.
ReadCreate(u, key, value) ==
    /\ u \in GMs
    /\ value > 0
    /\ catalog[key] = NoRow
    /\ Reads(u, [kind |-> "create", key |-> key, value |-> value])

\* The insert: the unique index refuses a key that was taken meanwhile.
Insert(key, value) ==
    IF catalog[key] = NoRow
    THEN {[catalog EXCEPT ![key] = [id |-> i, value |-> value]] : i \in FreshIds}
    ELSE {catalog}
Create(u) ==
    /\ Doing(u, "create")
    /\ catalog' \in Insert(req[u].key, req[u].value)
    /\ Writes(u)
    /\ UNCHANGED <<balances, news>>

\* GetByOwnerAndCurrency: the row, 0 when there is none.
BalanceOf(o, i) ==
    LET rows == {j \in DOMAIN balances : balances[j].owner = o /\ balances[j].currency = i}
    IN  IF rows = {} THEN 0 ELSE CHOOSE j \in rows : TRUE

\* SetMoney up to the transaction of MoneyBalances.Set.
requireOwnerAccess(u, o) == u \in GMs \/ o \in Access[u]
ReadMoney(u, o, i, amount) ==
    /\ requireOwnerAccess(u, o)
    /\ amount >= 0
    /\ i \in CurrencyIds
    /\ BalanceOf(o, i) = 0 => Len(balances) < MaxBalances
    /\ Reads(u, [kind |-> "money", owner |-> o, currency |-> i, amount |-> amount,
                 row |-> BalanceOf(o, i)])

\* MoneyBalances.Set on the table bs: a row that was found is saved whole; a
\* new one meets the unique index on owner and currency.
Save(bs, row, new) ==
    IF row > 0
    THEN [bs EXCEPT ![row] = new]
    ELSE IF BalanceOf(new.owner, new.currency) > 0 THEN bs ELSE Append(bs, new)

\* The entry of a shared inventory is written with the balance, or not at all.
MoneyEntry(o, saved) == IF saved THEN Groups \cap {o} ELSE {}

SetMoney(u) ==
    /\ Doing(u, "money")
    /\ LET r == req[u]
           new == [owner |-> r.owner, currency |-> r.currency, amount |-> r.amount]
       IN  /\ balances' = Save(balances, r.row, new)
           /\ news' = MoneyEntry(r.owner, r.row > 0 \/ BalanceOf(r.owner, r.currency) = 0)
    /\ Writes(u)
    /\ UNCHANGED catalog

\* Simplify up to the listing of the catalog.
ReadSimplify(u, purse) ==
    /\ Resolves(purse)
    /\ Reads(u, [kind |-> "simplify", purse |-> purse, total |-> baseValue(purse)])

Simplify(u) ==
    /\ Doing(u, "simplify")
    /\ req' = [req EXCEPT ![u] = Idle]
    /\ reply' = [kind |-> "simplify", purse |-> req[u].purse,
                 coins |-> Breakdown(req[u].total).coins]
    /\ UNCHANGED <<catalog, balances, news, mode, file, next, starts>>

\* Convert; ratios do not change while it looks the currencies up.
Convert(u, purse, target) ==
    /\ mode = "serving"
    /\ req[u] = Idle
    /\ Resolves(purse)
    /\ target \in Currencies
    /\ LET total == baseValue(purse)
           whole == Quotient(total, ratio(target))
       IN  reply' = [kind |-> "convert", purse |-> purse, target |-> target, whole |-> whole,
                     remainder |-> total - whole * ratio(target), base |-> total]
    /\ UNCHANGED <<catalog, balances, news, mode, file, next, starts, req>>

Next ==
    \/ \E f \in Files : Start(f)
    \/ SeedRow
    \/ SeedFails
    \/ Serve
    \/ Crash
    \/ \E u \in Users :
        \/ \E c \in Codes, v \in Ratios : ReadCreate(u, c, v)
        \/ \E n \in ItemNames : ReadCreate(u, n, 1)
        \/ Create(u)
        \/ \E o \in Owners, i \in Ids, a \in Amounts : ReadMoney(u, o, i, a)
        \/ SetMoney(u)
        \/ \E purse \in Purses :
            \/ ReadSimplify(u, purse)
            \/ \E c \in Codes : Convert(u, purse, c)
        \/ Simplify(u)

Spec == Init /\ [][Next]_vars

-----------------------------------------------------------------------------
(* Properties                                                                *)

TypeOK ==
    /\ catalog \in [Keys -> Row \cup {NoRow}]
    /\ balances \in Seq(Balance)
    /\ news \subseteq Groups
    /\ mode \in {"down", "seeding", "serving"}
    /\ file \in Files \cup {<<>>} /\ next \in 1 .. Len(file) + 1
    /\ starts \in 0 .. MaxStarts

\* However many requests set the same balance at once, and however often the
\* catalog is seeded anew, an owner has one balance per currency, and every
\* balance is in a currency the catalog still has (MoneyBalances.Set against
\* UpsertByCode: a re-seeded row keeps its identifier).
OneBalanceEach ==
    \A j, k \in DOMAIN balances :
        balances[j].owner = balances[k].owner /\ balances[j].currency = balances[k].currency
            => j = k
CurrenciesStay == \A j \in DOMAIN balances : balances[j].currency \in CurrencyIds
BalancesStand == OneBalanceEach /\ CurrenciesStay

\* While requests are served, the catalog holds every row of the seed file as
\* the file has it, whatever an earlier start left half done and whatever GMs
\* created before or since (LoadFile is safe to run on every startup).
LastRow(k) == \A j \in k + 1 .. Len(file) : file[j].key # file[k].key
SeededAsFile ==
    mode = "serving" =>
        \A k \in DOMAIN file : LastRow(k) =>
            /\ catalog[file[k].key] # NoRow
            /\ catalog[file[k].key].value = file[k].value

\* What amounts and coins are worth without a bound on integers, and how many
\* coins they are.
Total(numbers) == FoldLeft(LAMBDA t, n : t + n, 0, numbers)
TrueWorth(purse) ==
    Total([j \in DOMAIN purse |-> purse[j].amount * ratio(purse[j].code)])
Worth(coins) ==
    Total([j \in DOMAIN Descending |-> coins[Descending[j]] * ratio(Descending[j])])
Count(coins) == Total([j \in DOMAIN Descending |-> coins[Descending[j]]])
Divides(a, b) == b % a = 0

\* When the worth of what was asked about fits an integer, a conversion is
\* exact, and a simplification leaves over less than the smallest currency;
\* where each ratio divides the next, no choice of coins of that worth has
\* fewer of them (Convert, Simplify).
ExactConversion ==
    /\ reply.whole * ratio(reply.target) + reply.remainder = TrueWorth(reply.purse)
    /\ reply.remainder \in 0 .. ratio(reply.target) - 1
FewestCoins ==
    LET left == TrueWorth(reply.purse) - Worth(reply.coins)
        fair == \A c, d \in Currencies :
                    Divides(ratio(c), ratio(d)) \/ Divides(ratio(d), ratio(c))
    IN  /\ \A c \in Currencies : left \in 0 .. ratio(c) - 1
        /\ fair => \A coins \in [Currencies -> 0 .. Count(reply.coins)] :
                    Worth(coins) = Worth(reply.coins) => Count(coins) >= Count(reply.coins)
AnswersExact ==
    reply # NoReply =>
        (TrueWorth(reply.purse) < Half =>
            IF reply.kind = "convert" THEN ExactConversion ELSE FewestCoins)

=============================================================================
