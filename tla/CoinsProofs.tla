---------------------------- MODULE CoinsProofs ----------------------------
(***************************************************************************)
(* Theorems about money, for any catalog, seed files, owners and users: an *)
(* owner has one balance per currency, its currency is never lost, the     *)
(* catalog that is served is the one the file describes, and conversions   *)
(* and simplifications are exact.                                          *)
(***************************************************************************)
EXTENDS Coins, FiniteSetTheorems, WellFoundedInduction, TLAPS

-----------------------------------------------------------------------------
(* Shapes *)

\* What a request has read: the row of a balance is still there, and is still
\* of that owner and currency.
RequestOK(r) ==
    /\ r.kind = "create" => r.key \in Keys /\ r.value \in Nat
    /\ r.kind = "money" =>
        /\ r.owner \in Owners /\ r.currency \in CurrencyIds /\ r.amount \in Nat
        /\ r.row \in 0 .. Len(balances)
        /\ r.row > 0 => /\ balances[r.row].owner = r.owner
                        /\ balances[r.row].currency = r.currency

\* A row of the seed file.
FileRow == [key : Keys, value : Nat]

Typed ==
    /\ catalog \in [Keys -> Row \cup {NoRow}]
    /\ balances \in Seq(Balance)
    /\ mode \in {"down", "seeding", "serving"}
    /\ file \in Seq(FileRow)
    /\ next \in Nat \ {0}
    /\ DOMAIN req = Users
    /\ \A u \in Users : req[u] # Idle => RequestOK(req[u])

LEMMA FilesTyped == Files \subseteq Seq(FileRow)
BY ConstantsAssumption DEF FileRow

LEMMA RowsOfFile ==
    ASSUME Typed, NEW k \in DOMAIN file
    PROVE  file[k].key \in Keys /\ file[k].value \in Nat
<1>1. file[k] \in FileRow
  BY DEF Typed
<1> QED
  BY <1>1 DEF FileRow

LEMMA TypedInit == Init => Typed
BY DEF Init, Typed

-----------------------------------------------------------------------------
(* The catalog *)

\* A transaction on the catalog puts a row under one key, and a row that was
\* there keeps its identifier.
Puts(key, value) ==
    /\ catalog' \in [Keys -> Row \cup {NoRow}]
    /\ \A k \in Keys \ {key} : catalog'[k] = catalog[k]
    /\ catalog'[key] \in Row /\ catalog'[key].value = value
    /\ catalog[key] # NoRow => catalog'[key].id = catalog[key].id

LEMMA UpsertPuts ==
    ASSUME Typed, NEW key \in Keys, NEW value \in Nat, catalog' \in Upsert(key, value)
    PROVE  Puts(key, value)
<1>0. catalog \in [Keys -> Row \cup {NoRow}]
  BY DEF Typed
<1>1. CASE catalog[key] = NoRow
  <2>1. PICK i \in FreshIds : catalog' = [catalog EXCEPT ![key] = [id |-> i, value |-> value]]
    BY <1>1 DEF Upsert
  <2>2. [id |-> i, value |-> value] \in Row
    BY DEF Row, FreshIds
  <2> QED
    BY <1>0, <1>1, <2>1, <2>2 DEF Puts
<1>2. CASE catalog[key] # NoRow
  <2>1. catalog' = [catalog EXCEPT ![key].value = value] /\ catalog[key] \in Row
    BY <1>0, <1>2 DEF Upsert
  <2>2. [catalog[key] EXCEPT !.value = value] \in Row
        /\ [catalog[key] EXCEPT !.value = value].value = value
        /\ [catalog[key] EXCEPT !.value = value].id = catalog[key].id
    BY <2>1 DEF Row
  <2> QED
    BY <1>0, <2>1, <2>2 DEF Puts
<1> QED
  BY <1>1, <1>2

\* An insert leaves the catalog alone when the key was taken meanwhile.
LEMMA InsertPuts ==
    ASSUME Typed, NEW key \in Keys, NEW value \in Nat, catalog' \in Insert(key, value)
    PROVE  catalog' = catalog \/ (catalog[key] = NoRow /\ Puts(key, value))
<1>1. CASE catalog[key] = NoRow
  <2>1. PICK i \in FreshIds : catalog' = [catalog EXCEPT ![key] = [id |-> i, value |-> value]]
    BY <1>1 DEF Insert
  <2>2. [id |-> i, value |-> value] \in Row
    BY DEF Row, FreshIds
  <2> QED
    BY <1>1, <2>1, <2>2 DEF Puts, Typed
<1> QED
  BY <1>1 DEF Insert

\* No currency is ever lost.
LEMMA CurrenciesKept ==
    ASSUME Typed, NEW key \in Keys, NEW value \in Nat, Puts(key, value)
    PROVE  CurrencyIds \subseteq CurrencyIds'
<1>1. ASSUME NEW i \in CurrencyIds
      PROVE  i \in CurrencyIds'
  <2>1. PICK c \in Codes : catalog[c] # NoRow /\ catalog[c].id = i
    BY DEF CurrencyIds, Currencies
  <2>2. c \in Keys /\ NoRow \notin Row
    BY ConstantsAssumption DEF Keys
  <2>3. catalog'[c] # NoRow /\ catalog'[c].id = i
    BY <2>1, <2>2 DEF Puts
  <2> QED
    BY <2>1, <2>3 DEF CurrencyIds, Currencies
<1> QED
  BY <1>1

-----------------------------------------------------------------------------
(* Balances *)

\* The row found is one of that owner and currency; none is found when there
\* is none.
LEMMA BalanceFound ==
    ASSUME Typed, NEW o, NEW i
    PROVE  /\ BalanceOf(o, i) \in 0 .. Len(balances)
           /\ BalanceOf(o, i) > 0 => /\ balances[BalanceOf(o, i)].owner = o
                                     /\ balances[BalanceOf(o, i)].currency = i
           /\ BalanceOf(o, i) = 0 => \A j \in DOMAIN balances :
                ~(balances[j].owner = o /\ balances[j].currency = i)
<1> DEFINE found == {j \in DOMAIN balances : balances[j].owner = o /\ balances[j].currency = i}
<1>1. DOMAIN balances = 1 .. Len(balances) /\ Len(balances) \in Nat
  BY DEF Typed
<1>2. CASE found = {}
  BY <1>1, <1>2 DEF BalanceOf
<1>3. CASE found # {}
  <2>1. BalanceOf(o, i) = CHOOSE j \in found : TRUE
    BY <1>3 DEF BalanceOf
  <2>2. BalanceOf(o, i) \in found
    BY <1>3, <2>1
  <2> QED
    BY <1>1, <2>2
<1> QED
  BY <1>2, <1>3

\* Saving a balance changes one amount, adds one row that was missing, or
\* leaves the table alone.
LEMMA SaveRows ==
    ASSUME Typed, NEW r, RequestOK(r), r.kind = "money",
           NEW after,
           after = Save(balances, r.row,
                        [owner |-> r.owner, currency |-> r.currency, amount |-> r.amount])
    PROVE  /\ after \in Seq(Balance)
           /\ Len(after) >= Len(balances)
           /\ \A j \in 1 .. Len(balances) :
                after[j].owner = balances[j].owner /\ after[j].currency = balances[j].currency
           /\ \/ Len(after) = Len(balances)
              \/ /\ Len(after) = Len(balances) + 1
                 /\ after[Len(after)].owner = r.owner /\ after[Len(after)].currency = r.currency
                 /\ \A j \in DOMAIN balances :
                        ~(balances[j].owner = r.owner /\ balances[j].currency = r.currency)
<1> DEFINE new == [owner |-> r.owner, currency |-> r.currency, amount |-> r.amount]
<1>1. new \in Balance /\ new.owner = r.owner /\ new.currency = r.currency
  BY DEF RequestOK, Balance, CurrencyIds, Currencies, Typed, Keys, Row
<1>2. balances \in Seq(Balance) /\ Len(balances) \in Nat
  BY DEF Typed
<1> HIDE DEF new
<1>3. CASE r.row > 0
  <2>1. r.row \in 1 .. Len(balances) /\ balances[r.row].owner = r.owner
        /\ balances[r.row].currency = r.currency
    BY <1>2, <1>3 DEF RequestOK
  <2>2. after = [balances EXCEPT ![r.row] = new]
    BY <1>3 DEF Save, new
  <2> QED
    BY <1>1, <1>2, <2>1, <2>2
<1>4. CASE ~(r.row > 0) /\ BalanceOf(r.owner, r.currency) > 0
  <2>1. after = balances
    BY <1>1, <1>4 DEF Save, new
  <2> QED
    BY <1>2, <2>1
<1>5. CASE ~(r.row > 0) /\ ~(BalanceOf(r.owner, r.currency) > 0)
  <2>1. after = Append(balances, new)
    BY <1>1, <1>5 DEF Save, new
  <2>2. \A j \in DOMAIN balances :
            ~(balances[j].owner = r.owner /\ balances[j].currency = r.currency)
    BY <1>5, BalanceFound
  <2> QED
    BY <1>1, <1>2, <2>1, <2>2
<1> QED
  BY <1>3, <1>4, <1>5

-----------------------------------------------------------------------------
(* Steps *)

\* The steps that write a row, and what is left of the state by all others.
Quiet ==
    /\ UNCHANGED <<catalog, balances>>
    /\ mode' \in {"down", "seeding", "serving"}
    /\ DOMAIN req' = Users
    /\ \A u \in Users : req'[u] # Idle => req'[u] = req[u] \/ RequestOK(req'[u])
    /\ \/ UNCHANGED <<mode, file, next>>
       \/ mode' = "down" /\ UNCHANGED <<file, next>>
       \/ mode = "seeding" /\ mode' = "serving" /\ UNCHANGED <<file, next>> /\ next > Len(file)
       \/ mode' = "seeding" /\ file' \in Files /\ next' = 1

LEMMA ReadsQuiet ==
    ASSUME Typed, NEW u \in Users, NEW r, RequestOK(r), Reads(u, r)
    PROVE  Quiet
BY DEF Typed, Reads, Quiet

LEMMA StepSplit ==
    ASSUME Typed, [Next]_vars
    PROVE  \/ Quiet
           \/ SeedRow
           \/ \E u \in Users : Create(u) \/ SetMoney(u)
<1>1. CASE UNCHANGED vars
  BY <1>1 DEF vars, Quiet, Typed
<1>2. ASSUME NEW f \in Files, Start(f)
      PROVE  Quiet
  BY <1>2 DEF Start, Quiet, Typed
<1>3. CASE SeedFails \/ Serve \/ Crash
  BY <1>3 DEF SeedFails, Serve, Crash, Quiet, Typed
<1>4. ASSUME NEW u \in Users, NEW key \in Keys, NEW v \in Nat, ReadCreate(u, key, v)
      PROVE  Quiet
  <2>1. RequestOK([kind |-> "create", key |-> key, value |-> v])
    BY DEF RequestOK
  <2> QED
    BY <1>4, <2>1, ReadsQuiet DEF ReadCreate
<1>5. ASSUME NEW u \in Users, NEW o \in Owners, NEW i \in Ids, NEW a \in Amounts,
             ReadMoney(u, o, i, a)
      PROVE  Quiet
  <2> DEFINE r == [kind |-> "money", owner |-> o, currency |-> i, amount |-> a,
                   row |-> BalanceOf(o, i)]
  <2>1. i \in CurrencyIds /\ a \in Nat /\ Reads(u, r)
    BY <1>5, ConstantsAssumption DEF ReadMoney
  <2>2. RequestOK(r)
    BY <2>1, BalanceFound DEF RequestOK
  <2> QED
    BY <2>1, <2>2, ReadsQuiet
<1>6. ASSUME NEW u \in Users, NEW purse \in Purses, ReadSimplify(u, purse)
      PROVE  Quiet
  <2>1. RequestOK([kind |-> "simplify", purse |-> purse, total |-> baseValue(purse)])
    BY DEF RequestOK
  <2> QED
    BY <1>6, <2>1, ReadsQuiet DEF ReadSimplify
<1>7. ASSUME NEW u \in Users, NEW purse \in Purses, NEW c \in Codes,
             Simplify(u) \/ Convert(u, purse, c)
      PROVE  Quiet
  BY <1>7 DEF Simplify, Convert, Quiet, Typed
<1>8. ASSUME NEW u \in Users, Simplify(u)
      PROVE  Quiet
  BY <1>8 DEF Simplify, Quiet, Typed
<1> QED
  BY <1>1, <1>2, <1>3, <1>4, <1>5, <1>6, <1>7, <1>8, ConstantsAssumption DEF Next, Keys

\* A request stays sound while rows are only added or given new amounts.
LEMMA RequestStays ==
    ASSUME NEW r, RequestOK(r), CurrencyIds \subseteq CurrencyIds',
           Len(balances) \in Nat, Len(balances') \in Nat, Len(balances') >= Len(balances),
           \A j \in 1 .. Len(balances) : /\ balances'[j].owner = balances[j].owner
                                         /\ balances'[j].currency = balances[j].currency
    PROVE  /\ r.kind = "create" => r.key \in Keys /\ r.value \in Nat
           /\ r.kind = "money" =>
                /\ r.owner \in Owners /\ r.currency \in CurrencyIds' /\ r.amount \in Nat
                /\ r.row \in 0 .. Len(balances')
                /\ r.row > 0 => /\ balances'[r.row].owner = r.owner
                                /\ balances'[r.row].currency = r.currency
BY DEF RequestOK

\* What the steps do to the tables.
LEMMA QuietTyped ==
    ASSUME Typed, Quiet
    PROVE  Typed'
<1>1. CurrencyIds' = CurrencyIds /\ balances' = balances
  BY DEF Quiet, CurrencyIds, Currencies
<1>2. \A u \in Users : req'[u] # Idle => RequestOK(req[u])'
  BY <1>1 DEF Quiet, Typed, RequestOK
<1>3. file' \in Seq(FileRow) /\ next' \in Nat \ {0}
  <2>1. CASE UNCHANGED <<file, next>>
    BY <2>1 DEF Typed
  <2>2. CASE file' \in Files /\ next' = 1
    BY <2>2, FilesTyped
  <2> QED
    BY <2>1, <2>2 DEF Quiet
<1>4. catalog' \in [Keys -> Row \cup {NoRow}] /\ balances' \in Seq(Balance)
      /\ mode' \in {"down", "seeding", "serving"} /\ DOMAIN req' = Users
  BY DEF Quiet, Typed
<1> QED
  BY <1>2, <1>3, <1>4 DEF Typed

LEMMA PutsTyped ==
    ASSUME Typed, NEW key \in Keys, NEW value \in Nat, Puts(key, value), balances' = balances,
           NEW u \in Users, req' = req \/ req' = [req EXCEPT ![u] = Idle],
           mode' = mode, file' = file, next' \in Nat \ {0}
    PROVE  Typed'
<1>1. CurrencyIds \subseteq CurrencyIds'
  BY CurrenciesKept
<1>2. ASSUME NEW v \in Users, req'[v] # Idle
      PROVE  RequestOK(req[v])'
  <2>1. req'[v] = req[v] /\ RequestOK(req[v])
    BY <1>2 DEF Typed
  <2> QED
    BY <1>1, <2>1, RequestStays DEF Typed, RequestOK
<1> QED
  BY <1>2 DEF Typed, Puts

LEMMA SeedRowPuts ==
    ASSUME Typed, SeedRow
    PROVE  /\ next \in DOMAIN file
           /\ file[next].key \in Keys /\ file[next].value \in Nat
           /\ Puts(file[next].key, file[next].value)
           /\ UNCHANGED <<balances, mode, file, req>> /\ next' = next + 1
<1>1. next \in DOMAIN file
  BY DEF Typed, SeedRow
<1> QED
  BY <1>1, RowsOfFile, UpsertPuts DEF SeedRow

LEMMA CreateInserts ==
    ASSUME Typed, NEW u \in Users, Create(u)
    PROVE  /\ \/ catalog' = catalog
              \/ \E key \in Keys, value \in Nat : catalog[key] = NoRow /\ Puts(key, value)
           /\ UNCHANGED <<balances, mode, file, next>> /\ req' = [req EXCEPT ![u] = Idle]
<1>1. req[u].key \in Keys /\ req[u].value \in Nat
  BY DEF Create, Doing, Typed, RequestOK
<1> QED
  BY <1>1, InsertPuts DEF Create, Writes

LEMMA SetMoneySaves ==
    ASSUME Typed, NEW u \in Users, SetMoney(u)
    PROVE  /\ RequestOK(req[u]) /\ req[u].kind = "money"
           /\ balances' = Save(balances, req[u].row,
                               [owner |-> req[u].owner, currency |-> req[u].currency,
                                amount |-> req[u].amount])
           /\ req' = [req EXCEPT ![u] = Idle] /\ UNCHANGED <<catalog, mode, file, next>>
BY DEF SetMoney, Writes, Doing, Typed

LEMMA SetMoneyRows ==
    ASSUME Typed, NEW u \in Users, SetMoney(u)
    PROVE  /\ balances' \in Seq(Balance)
           /\ Len(balances') >= Len(balances)
           /\ \A j \in 1 .. Len(balances) : /\ balances'[j].owner = balances[j].owner
                                            /\ balances'[j].currency = balances[j].currency
           /\ \/ Len(balances') = Len(balances)
              \/ /\ Len(balances') = Len(balances) + 1
                 /\ balances'[Len(balances')].owner = req[u].owner
                 /\ balances'[Len(balances')].currency = req[u].currency
                 /\ \A j \in DOMAIN balances :
                        ~(balances[j].owner = req[u].owner
                            /\ balances[j].currency = req[u].currency)
<1> DEFINE r == req[u]
           after == Save(balances, r.row,
                         [owner |-> r.owner, currency |-> r.currency, amount |-> r.amount])
<1>1. RequestOK(r) /\ r.kind = "money" /\ balances' = after
  BY SetMoneySaves
<1>2. /\ after \in Seq(Balance)
      /\ Len(after) >= Len(balances)
      /\ \A j \in 1 .. Len(balances) :
            after[j].owner = balances[j].owner /\ after[j].currency = balances[j].currency
      /\ \/ Len(after) = Len(balances)
         \/ /\ Len(after) = Len(balances) + 1
            /\ after[Len(after)].owner = r.owner /\ after[Len(after)].currency = r.currency
            /\ \A j \in DOMAIN balances :
                    ~(balances[j].owner = r.owner /\ balances[j].currency = r.currency)
  BY <1>1, SaveRows
<1> HIDE DEF after, r
<1> QED
  BY <1>1, <1>2 DEF r

LEMMA SetMoneyTyped ==
    ASSUME Typed, NEW u \in Users, SetMoney(u)
    PROVE  Typed'
<1>1. /\ balances' \in Seq(Balance) /\ Len(balances') >= Len(balances)
      /\ \A j \in 1 .. Len(balances) : /\ balances'[j].owner = balances[j].owner
                                       /\ balances'[j].currency = balances[j].currency
      /\ req' = [req EXCEPT ![u] = Idle] /\ UNCHANGED <<catalog, mode, file, next>>
  BY SetMoneySaves, SetMoneyRows
<1>2. CurrencyIds' = CurrencyIds
  BY <1>1 DEF CurrencyIds, Currencies
<1>3. ASSUME NEW v \in Users, req'[v] # Idle
      PROVE  RequestOK(req[v])'
  <2>1. req'[v] = req[v] /\ RequestOK(req[v])
    BY <1>1, <1>3 DEF Typed
  <2>2. Len(balances) \in Nat /\ Len(balances') \in Nat
    BY <1>1 DEF Typed
  <2> QED
    BY <1>1, <1>2, <2>1, <2>2, RequestStays DEF RequestOK
<1> QED
  BY <1>1, <1>3 DEF Typed

LEMMA TypedStep ==
    ASSUME Typed, [Next]_vars
    PROVE  Typed'
<1>1. CASE SeedRow
  <2>1. next' \in Nat \ {0}
    BY <1>1, SeedRowPuts DEF Typed
  <2>2. CASE \E u \in Users : TRUE
    BY <1>1, <2>1, <2>2, SeedRowPuts, PutsTyped
  <2>3. CASE Users = {}
    BY <1>1, <2>1, <2>3, SeedRowPuts DEF Typed, Puts
  <2> QED
    BY <2>2, <2>3
<1>2. ASSUME NEW u \in Users, Create(u)
      PROVE  Typed'
  <2>1. CASE catalog' = catalog
    <3>1. CurrencyIds' = CurrencyIds
      BY <2>1 DEF CurrencyIds, Currencies
    <3>2. /\ UNCHANGED <<balances, mode, file, next>> /\ req' = [req EXCEPT ![u] = Idle]
      BY <1>2, CreateInserts
    <3>3. ASSUME NEW v \in Users, req'[v] # Idle
          PROVE  RequestOK(req[v])'
      <4>1. req'[v] = req[v] /\ RequestOK(req[v])
        BY <3>2, <3>3 DEF Typed
      <4> QED
        BY <3>1, <3>2, <4>1 DEF RequestOK
    <3> QED
      BY <2>1, <3>2, <3>3 DEF Typed
  <2>2. CASE \E key \in Keys, value \in Nat : catalog[key] = NoRow /\ Puts(key, value)
    <3>1. /\ balances' = balances /\ mode' = mode /\ file' = file /\ next' \in Nat \ {0}
          /\ req' = [req EXCEPT ![u] = Idle]
      BY <1>2, CreateInserts DEF Typed
    <3> QED
      BY <2>2, <3>1, PutsTyped
  <2> QED
    BY <1>2, <2>1, <2>2, CreateInserts
<1> QED
  BY <1>1, <1>2, StepSplit, QuietTyped, SetMoneyTyped

-----------------------------------------------------------------------------
(* The theorems *)

LEMMA BalancesKept ==
    ASSUME BalancesStand, balances' = balances, CurrencyIds \subseteq CurrencyIds'
    PROVE  BalancesStand'
BY DEF BalancesStand, OneBalanceEach, CurrenciesStay

LEMMA SetMoneyStands ==
    ASSUME Typed, BalancesStand, NEW u \in Users, SetMoney(u)
    PROVE  BalancesStand'
<1> DEFINE r == req[u]
           n == Len(balances)
<1>0. /\ balances \in Seq(Balance) /\ n \in Nat /\ DOMAIN balances = 1 .. n
      /\ \A j, k \in 1 .. n : balances[j].owner = balances[k].owner
                                /\ balances[j].currency = balances[k].currency => j = k
      /\ \A j \in 1 .. n : balances[j].currency \in CurrencyIds
  BY DEF Typed, BalancesStand, OneBalanceEach, CurrenciesStay
<1>1. /\ balances' \in Seq(Balance)
      /\ \A j \in 1 .. n : /\ balances'[j].owner = balances[j].owner
                           /\ balances'[j].currency = balances[j].currency
      /\ \/ Len(balances') = n
         \/ /\ Len(balances') = n + 1
            /\ balances'[n + 1].owner = r.owner /\ balances'[n + 1].currency = r.currency
            /\ \A j \in 1 .. n : ~(balances[j].owner = r.owner /\ balances[j].currency = r.currency)
  <2> HIDE DEF r
  <2> QED
    BY <1>0, SetMoneyRows DEF r
<1>2. DOMAIN balances' = 1 .. Len(balances')
  BY <1>1
<1>3. CurrencyIds' = CurrencyIds /\ r.currency \in CurrencyIds
  <2>1. RequestOK(r) /\ r.kind = "money" /\ catalog' = catalog
    BY SetMoneySaves
  <2>2. r.currency \in CurrencyIds
    BY <2>1 DEF RequestOK
  <2> QED
    BY <2>1, <2>2 DEF CurrencyIds, Currencies
<1> HIDE DEF r, n
<1>4. ASSUME NEW j \in DOMAIN balances'
      PROVE  \/ j \in 1 .. n
             \/ j = n + 1 /\ Len(balances') = n + 1
                /\ balances'[j].owner = r.owner /\ balances'[j].currency = r.currency
                /\ \A k \in 1 .. n : ~(/\ balances'[k].owner = r.owner
                                       /\ balances'[k].currency = r.currency)
  <2>1. j \in 1 .. Len(balances')
    BY <1>2
  <2>2. CASE Len(balances') = n
    BY <2>1, <2>2
  <2>3. CASE Len(balances') # n
    BY <1>0, <1>1, <2>1, <2>3
  <2> QED
    BY <2>2, <2>3
<1>5. OneBalanceEach'
  <2> SUFFICES ASSUME NEW j \in DOMAIN balances', NEW k \in DOMAIN balances',
                      balances'[j].owner = balances'[k].owner,
                      balances'[j].currency = balances'[k].currency
               PROVE  j = k
    BY DEF OneBalanceEach
  <2>1. CASE j \in 1 .. n /\ k \in 1 .. n
    BY <1>0, <1>1, <2>1
  <2>2. CASE ~(j \in 1 .. n /\ k \in 1 .. n)
    BY <1>4, <2>2
  <2> QED
    BY <2>1, <2>2
<1>6. CurrenciesStay'
  <2> SUFFICES ASSUME NEW j \in DOMAIN balances'
               PROVE  balances'[j].currency \in CurrencyIds'
    BY DEF CurrenciesStay
  <2> QED
    BY <1>0, <1>1, <1>3, <1>4
<1> QED
  BY <1>5, <1>6 DEF BalancesStand

LEMMA BalancesStep ==
    ASSUME Typed, BalancesStand, [Next]_vars
    PROVE  BalancesStand'
<1>1. CASE catalog' = catalog /\ balances' = balances
  BY <1>1, BalancesKept DEF CurrencyIds, Currencies
<1>2. CASE SeedRow
  BY <1>2, SeedRowPuts, CurrenciesKept, BalancesKept
<1>3. ASSUME NEW u \in Users, Create(u)
      PROVE  BalancesStand'
  BY <1>1, <1>3, CreateInserts, CurrenciesKept, BalancesKept
<1> QED
  BY <1>1, <1>2, <1>3, StepSplit, SetMoneyStands DEF Quiet

\* However requests for the same balance overlap and however often the catalog
\* is seeded, there is one balance per owner and currency, in a currency that
\* exists (money_balances.go, Set; currencies.go, UpsertByCode).
THEOREM BalancesAlwaysStand == Spec => []BalancesStand
<1>1. Init => BalancesStand
  BY DEF Init, BalancesStand, OneBalanceEach, CurrenciesStay
<1>2. Typed /\ BalancesStand /\ [Next]_vars => Typed' /\ BalancesStand'
  BY TypedStep, BalancesStep
<1> QED
  BY <1>1, <1>2, TypedInit, PTL DEF Spec

\* As far as a start has got through the file, the catalog agrees with it.
Seeded ==
    mode \in {"seeding", "serving"} =>
        \A k \in DOMAIN file :
            /\ k < next
            /\ \A j \in k + 1 .. Len(file) : j < next => file[j].key # file[k].key
            => catalog[file[k].key] # NoRow /\ catalog[file[k].key].value = file[k].value

Passed == mode = "serving" => next > Len(file)

LEMMA SeedRowAgrees ==
    ASSUME Typed, Seeded, SeedRow
    PROVE  Seeded'
<1>1. /\ next \in DOMAIN file /\ Puts(file[next].key, file[next].value)
      /\ UNCHANGED <<mode, file>> /\ next' = next + 1
  BY SeedRowPuts
<1>2. /\ DOMAIN file = 1 .. Len(file) /\ Len(file) \in Nat /\ next \in Nat /\ NoRow \notin Row
      /\ \A k \in DOMAIN file : file[k].key \in Keys
      /\ mode = "seeding"
  BY RowsOfFile, ConstantsAssumption DEF Typed, SeedRow
<1>3. ASSUME NEW k \in DOMAIN file, k < next',
             \A j \in k + 1 .. Len(file) : j < next' => file[j].key # file[k].key
      PROVE  catalog'[file[k].key] # NoRow /\ catalog'[file[k].key].value = file[k].value
  <2>1. CASE k = next
    BY <1>1, <1>2, <2>1 DEF Puts
  <2>2. CASE k < next
    <3>1. file[next].key # file[k].key
      BY <1>1, <1>2, <1>3, <2>2
    <3>2. catalog[file[k].key] # NoRow /\ catalog[file[k].key].value = file[k].value
      <4>1. \A j \in k + 1 .. Len(file) : j < next => file[j].key # file[k].key
        BY <1>1, <1>2, <1>3
      <4> QED
        BY <1>2, <2>2, <4>1 DEF Seeded
    <3> QED
      BY <1>1, <1>2, <3>1, <3>2 DEF Puts
  <2> QED
    BY <1>1, <1>2, <1>3, <2>1, <2>2
<1> QED
  BY <1>1, <1>3 DEF Seeded

LEMMA SeededStep ==
    ASSUME Typed, Seeded, Passed, [Next]_vars
    PROVE  Seeded' /\ Passed'
<1>0. Len(file) \in Nat /\ next \in Nat /\ \A k \in DOMAIN file : file[k].key \in Keys
  BY RowsOfFile DEF Typed
<1>1. CASE Quiet
  <2>1. CASE UNCHANGED <<mode, file, next>>
    BY <1>1, <2>1 DEF Quiet, Seeded, Passed
  <2>2. CASE mode' = "down"
    BY <2>2 DEF Seeded, Passed
  <2>3. CASE mode = "seeding" /\ mode' = "serving" /\ UNCHANGED <<file, next>> /\ next > Len(file)
    BY <1>1, <2>3 DEF Quiet, Seeded, Passed
  <2>4. CASE mode' = "seeding" /\ file' \in Files /\ next' = 1
    <3>1. \A k \in DOMAIN file' : ~(k < next')
      BY <2>4, ConstantsAssumption
    <3> QED
      BY <2>4, <3>1 DEF Seeded, Passed
  <2> QED
    BY <1>1, <2>1, <2>2, <2>3, <2>4 DEF Quiet
<1>2. CASE SeedRow
  BY <1>0, <1>2, SeedRowAgrees, SeedRowPuts DEF SeedRow, Passed
<1>3. ASSUME NEW u \in Users, Create(u)
      PROVE  Seeded' /\ Passed'
  <2>1. UNCHANGED <<mode, file, next>>
    BY <1>3, CreateInserts
  <2>2. \A k \in Keys : catalog[k] # NoRow => catalog'[k] = catalog[k]
    BY <1>3, CreateInserts DEF Puts
  <2> QED
    BY <1>0, <2>1, <2>2 DEF Seeded, Passed
<1>4. ASSUME NEW u \in Users, SetMoney(u)
      PROVE  Seeded' /\ Passed'
  BY <1>4, SetMoneySaves DEF Seeded, Passed
<1> QED
  BY <1>1, <1>2, <1>3, <1>4, StepSplit

LEMMA SeededThrough ==
    ASSUME Typed, Seeded, Passed
    PROVE  SeededAsFile
<1> SUFFICES ASSUME mode = "serving", NEW k \in DOMAIN file, LastRow(k)
             PROVE  catalog[file[k].key] # NoRow /\ catalog[file[k].key].value = file[k].value
  BY DEF SeededAsFile
<1>1. k < next
  BY DEF Typed, Passed
<1> QED
  BY <1>1 DEF Seeded, LastRow

\* The catalog that is served has every row of the file as the file has it,
\* after any number of starts, crashes and failed starts before, and under any
\* requests since (catalog.go, LoadFile).
THEOREM CatalogAlwaysSeeded == Spec => []SeededAsFile
<1>1. Init => Seeded /\ Passed
  BY DEF Init, Seeded, Passed
<1>2. Typed /\ Seeded /\ Passed /\ [Next]_vars => Typed' /\ Seeded' /\ Passed'
  BY TypedStep, SeededStep
<1>3. Typed /\ Seeded /\ Passed => SeededAsFile
  BY SeededThrough
<1> QED
  BY <1>1, <1>2, <1>3, TypedInit, PTL DEF Spec

-----------------------------------------------------------------------------
(* The rest of the state *)

\* What the start that is under way reads, and what the last write announced.
Bounded ==
    /\ news \subseteq Groups
    /\ file \in Files \cup {<<>>} /\ next \in 1 .. Len(file) + 1
    /\ starts \in 0 .. MaxStarts

LEMMA BoundedStep ==
    ASSUME Typed, Bounded, [Next]_vars
    PROVE  Bounded'
<1>0. Len(file) \in Nat /\ next \in Nat /\ MaxStarts \in Nat
  BY ConstantsAssumption DEF Typed
<1>1. CASE UNCHANGED <<news, file, next, starts>>
  BY <1>1 DEF Bounded
<1>2. ASSUME NEW f \in Files, Start(f)
      PROVE  Bounded'
  <2>1. f \in Seq(FileRow)
    BY FilesTyped
  <2>2. Len(f) \in Nat
    BY <2>1
  <2> QED
    BY <1>0, <1>2, <2>2 DEF Start, Bounded
<1>3. CASE SeedRow
  BY <1>0, <1>3 DEF SeedRow, Bounded
<1>4. ASSUME NEW u \in Users, SetMoney(u)
      PROVE  Bounded'
  BY <1>4 DEF SetMoney, Writes, MoneyEntry, Bounded
<1>5. ASSUME NEW u \in Users, Create(u) \/ Simplify(u)
      PROVE  UNCHANGED <<news, file, next, starts>>
  BY <1>5 DEF Create, Writes, Simplify
<1>6. CASE SeedFails \/ Serve \/ Crash
  BY <1>1, <1>6 DEF SeedFails, Serve, Crash
<1>7. ASSUME NEW u \in Users,
             \/ \E key \in Keys, v \in Nat : ReadCreate(u, key, v)
             \/ \E o \in Owners, i \in Ids, a \in Amounts : ReadMoney(u, o, i, a)
             \/ \E purse \in Purses :
                    ReadSimplify(u, purse) \/ \E c \in Codes : Convert(u, purse, c)
      PROVE  UNCHANGED <<news, file, next, starts>>
  BY <1>7 DEF ReadCreate, ReadMoney, ReadSimplify, Convert, Reads
<1>8. CASE UNCHANGED vars
  BY <1>1, <1>8 DEF vars
<1> QED
  BY <1>1, <1>2, <1>3, <1>4, <1>5, <1>6, <1>7, <1>8, ConstantsAssumption DEF Next, Keys

\* The catalog, the balances and the progress of a start keep their shapes, for
\* any seed files (catalog.go, LoadFile; money_balances.go, Set).
THEOREM TypeCorrect == Spec => []TypeOK
<1>1. Init => Bounded
  BY ConstantsAssumption DEF Init, Bounded
<1>2. Typed /\ Bounded /\ [Next]_vars => Typed' /\ Bounded'
  BY TypedStep, BoundedStep
<1>3. Typed /\ Bounded => TypeOK
  BY DEF Typed, Bounded, TypeOK
<1> QED
  BY <1>1, <1>2, <1>3, TypedInit, PTL DEF Spec

-----------------------------------------------------------------------------
(* Induction on numbers, and folds along a sequence *)

LEMMA Least ==
    ASSUME NEW T \in SUBSET Nat, T # {}
    PROVE  \E n \in T : \A m \in T : ~(m < n)
<1> DEFINE R == OpToRel(<, Nat)
<1>1. IsWellFoundedOn(R, Nat)
  BY NatLessThanWellFounded
<1>2. \A m, n \in Nat : <<m, n>> \in R <=> m < n
  BY DEF OpToRel
<1> HIDE DEF R
<1>3. PICK n \in T : \A m \in T : ~(<<m, n>> \in R)
  BY <1>1, WFMin
<1>4. \A m \in T : m \in Nat /\ n \in Nat /\ (m < n => <<m, n>> \in R)
  BY <1>2
<1> QED
  BY <1>3, <1>4

\* A set that holds 0 and with n < N also n + 1 holds all of 0 .. N.
LEMMA UpTo ==
    ASSUME NEW N \in Nat, NEW T, 0 \in T, \A n \in 0 .. N - 1 : n \in T => n + 1 \in T
    PROVE  \A n \in 0 .. N : n \in T
<1> DEFINE B == {n \in 0 .. N : n \notin T}
<1>1. SUFFICES ASSUME B # {} PROVE FALSE
  OBVIOUS
<1>2. B \in SUBSET Nat
  OBVIOUS
<1>3. PICK n \in B : \A m \in B : ~(m < n)
  BY <1>1, <1>2, Least
<1>4. n - 1 \in 0 .. N - 1 /\ n - 1 < n /\ (n - 1) + 1 = n
  BY <1>3
<1> QED
  BY <1>3, <1>4

\* The last element of a set of positions, which a fold takes last.
LEMMA LastPosition ==
    ASSUME NEW N \in Nat, NEW s \in SUBSET (1 .. N), s # {}
    PROVE  /\ Max(s) \in s /\ \A i \in s : Max(s) >= i
           /\ s \ {Max(s)} \in SUBSET (1 .. Max(s) - 1)
<1> DEFINE T == {N - i : i \in s}
<1>0. \A i \in s : i \in 1 .. N /\ N - i \in Nat /\ N - (N - i) = i
  OBVIOUS
<1>1. T \in SUBSET Nat /\ T # {}
  BY <1>0
<1>2. PICK x \in T : \A y \in T : ~(y < x)
  BY <1>1, Least
<1>3. PICK m \in s : x = N - m
  BY <1>2
<1>4. \A i \in s : N - i \in T
  OBVIOUS
<1> HIDE DEF T
<1>5. \A i \in s : m >= i
  <2> TAKE i \in s
  <2>1. ~(N - i < N - m)
    BY <1>2, <1>3, <1>4
  <2> QED
    BY <1>0, <2>1
<1>6. Max(s) \in s /\ \A i \in s : Max(s) >= i
  BY <1>5 DEF Max
<1>7. \A i \in s \ {Max(s)} : i \in 1 .. Max(s) - 1
  <2> DEFINE k == Max(s)
  <2>1. k \in 1 .. N /\ \A i \in s : i \in 1 .. N /\ k >= i
    BY <1>6
  <2> HIDE DEF k
  <2>2. \A i \in s \ {k} : i \in 1 .. k - 1
    BY <2>1
  <2> QED
    BY <2>2 DEF k
<1> QED
  BY <1>6, <1>7

\* One step of a fold of F: from the fold over the positions before the last.
StepOf(g, base, F, s) ==
    IF s = {} THEN base ELSE F[<<g[s \ {Max(s)}], Max(s)>>]

Folds(g, N, T, base, F) ==
    /\ g \in [SUBSET (1 .. N) -> T]
    /\ \A s \in SUBSET (1 .. N) : g[s] = StepOf(g, base, F, s)

LEMMA FoldsExist ==
    ASSUME NEW N \in Nat, NEW T, NEW base \in T, NEW F \in [T \X (1 .. N) -> T]
    PROVE  \E g : Folds(g, N, T, base, F)
<1> DEFINE Good(n) == \E g \in [SUBSET (1 .. n) -> T] :
                          \A s \in SUBSET (1 .. n) : g[s] = StepOf(g, base, F, s)
           B == {n \in 0 .. N : Good(n)}
<1>1. 0 \in B
  <2> DEFINE g == [s \in SUBSET (1 .. 0) |-> base]
  <2>1. \A s \in SUBSET (1 .. 0) : s = {}
    OBVIOUS
  <2>2. g \in [SUBSET (1 .. 0) -> T] /\ \A s \in SUBSET (1 .. 0) : g[s] = StepOf(g, base, F, s)
    BY <2>1 DEF StepOf
  <2> HIDE DEF g
  <2>3. Good(0)
    <3>1. \E f \in [SUBSET (1 .. 0) -> T] :
              \A s \in SUBSET (1 .. 0) : f[s] = StepOf(f, base, F, s)
      BY <2>2
    <3> QED
      BY <3>1, Zenon
  <2> HIDE DEF Good
  <2> QED
    BY <2>3
<1>2. ASSUME NEW n \in 0 .. N - 1, n \in B
      PROVE  n + 1 \in B
  <2>1. PICK g \in [SUBSET (1 .. n) -> T] :
            \A s \in SUBSET (1 .. n) : g[s] = StepOf(g, base, F, s)
    BY <1>2
  <2>2. n \in Nat /\ n + 1 \in 0 .. N /\ n + 1 \in Nat
    OBVIOUS
  <2>3. ASSUME NEW s \in SUBSET (1 .. n + 1), s # {}
        PROVE  s \ {Max(s)} \in SUBSET (1 .. n) /\ Max(s) \in 1 .. N
    <3>1. Max(s) \in s /\ s \ {Max(s)} \in SUBSET (1 .. Max(s) - 1)
      BY <2>2, <2>3, LastPosition
    <3> DEFINE k == Max(s)
    <3>2. k \in 1 .. n + 1 /\ s \ {k} \in SUBSET (1 .. k - 1)
      BY <3>1
    <3> HIDE DEF k
    <3>3. \A i \in 1 .. k - 1 : i \in 1 .. n
      BY <2>2, <3>2
    <3>4. k \in 1 .. N
      BY <2>2, <3>2
    <3> QED
      BY <3>2, <3>3, <3>4 DEF k
  <2> DEFINE h == [s \in SUBSET (1 .. n + 1) |-> StepOf(g, base, F, s)]
  <2>4. \A s \in SUBSET (1 .. n + 1) : StepOf(g, base, F, s) \in T
    BY <2>3 DEF StepOf
  <2>5. h \in [SUBSET (1 .. n + 1) -> T]
    BY <2>4
  <2>6. \A s \in SUBSET (1 .. n) : s \in SUBSET (1 .. n + 1) /\ h[s] = g[s]
    BY <2>1, <2>2
  <2>7. \A s \in SUBSET (1 .. n + 1) : h[s] = StepOf(g, base, F, s)
    OBVIOUS
  <2> HIDE DEF h
  <2>8. \A s \in SUBSET (1 .. n + 1) : h[s] = StepOf(h, base, F, s)
    BY <2>3, <2>6, <2>7 DEF StepOf
  <2> QED
    BY <2>2, <2>5, <2>8
<1> HIDE DEF Good
<1> HIDE DEF B
<1>3. N \in B
  <2>1. \A n \in 0 .. N : n \in B
    BY <1>1, <1>2, UpTo
  <2> QED
    BY <2>1
<1> QED
  BY <1>3 DEF Good, B, Folds

\* The values of a fold along a sequence: p[n] is the fold over the first n.
Along(p, N, T, base, F) ==
    /\ p \in [0 .. N -> T] /\ p[0] = base
    /\ \A n \in 1 .. N : p[n] = F[<<p[n - 1], n>>]

LEMMA FoldsAlong ==
    ASSUME NEW N \in Nat, NEW T, NEW base \in T, NEW F \in [T \X (1 .. N) -> T],
           NEW g, g[{}] = base,
           \A s \in SUBSET (1 .. N) : s # {} /\ g[s \ {Max(s)}] \in T =>
                g[s] = F[<<g[s \ {Max(s)}], Max(s)>>]
    PROVE  Along([n \in 0 .. N |-> g[1 .. n]], N, T, base, F)
<1> DEFINE p == [n \in 0 .. N |-> g[1 .. n]]
           B == {n \in 0 .. N : p[n] \in T}
<1>1. p[0] = base
  <2>1. 1 .. 0 = {}
    OBVIOUS
  <2> QED
    BY <2>1
<1>2. ASSUME NEW n \in 1 .. N, p[n - 1] \in T
      PROVE  p[n] = F[<<p[n - 1], n>>]
  <2>1. 1 .. n \in SUBSET (1 .. N) /\ 1 .. n # {} /\ n - 1 \in 0 .. N /\ n \in 0 .. N
    OBVIOUS
  <2>2. Max(1 .. n) \in 1 .. n /\ \A i \in 1 .. n : Max(1 .. n) >= i
    BY <2>1, LastPosition
  <2>3. Max(1 .. n) = n
    BY <2>2
  <2>4. (1 .. n) \ {n} = 1 .. n - 1
    OBVIOUS
  <2>5. p[n - 1] = g[1 .. n - 1] /\ p[n] = g[1 .. n]
    BY <2>1
  <2> HIDE DEF p
  <2> QED
    BY <1>2, <2>1, <2>3, <2>4, <2>5
<1> HIDE DEF p
<1>3. \A n \in 0 .. N : n \in B
  <2>1. 0 \in B
    BY <1>1
  <2>2. ASSUME NEW n \in 0 .. N - 1, n \in B PROVE n + 1 \in B
    <3>1. n + 1 \in 1 .. N /\ (n + 1) - 1 = n /\ n + 1 \in 0 .. N
      OBVIOUS
    <3>2. p[n] \in T /\ p[n + 1] = F[<<p[n], n + 1>>]
      BY <1>2, <2>2, <3>1
    <3> QED
      BY <3>1, <3>2
  <2> HIDE DEF B
  <2> QED
    BY <2>1, <2>2, UpTo
<1>4. \A n \in 1 .. N : n - 1 \in 0 .. N
  OBVIOUS
<1>5. p \in [0 .. N -> T]
  BY <1>3 DEF p
<1>6. \A n \in 1 .. N : p[n] = F[<<p[n - 1], n>>]
  BY <1>2, <1>3, <1>4
<1> QED
  BY <1>1, <1>5, <1>6 DEF Along, p

-----------------------------------------------------------------------------
(* Amounts and their worth *)

\* The amounts of a purse that resolves, with the rows of a catalog cat.
Sum == [code : Codes, amount : Nat]
Fine(purse, cat) ==
    /\ purse \in Seq(Sum)
    /\ \A j \in DOMAIN purse : cat[purse[j].code] \in Row

\* What amount j adds.
Adds(purse, cat, j) == purse[j].amount * cat[purse[j].code].value

\* The sum of the code grows by one amount after the other.
BaseF(purse, cat) ==
    [x \in Int \X (1 .. Len(purse)) |-> wrap(x[1] + wrap(Adds(purse, cat, x[2])))]

BaseFold(g, purse, cat) ==
    g = [s \in SUBSET DOMAIN purse |->
            IF s = {} THEN 0
            ELSE wrap(g[s \ {Max(s)}] + wrap(purse[Max(s)].amount * cat[purse[Max(s)].code].value))]
LEMMA WrapInt ==
    ASSUME NEW n \in Int
    PROVE  wrap(n) \in Int /\ (n \in 0 .. Half - 1 => wrap(n) = n)
<1>1. Half \in Nat \ {0}
  BY ConstantsAssumption
<1>2. (n + Half) % (2 * Half) \in Int
  BY <1>1
<1>3. ASSUME n \in 0 .. Half - 1
      PROVE  (n + Half) % (2 * Half) = n + Half
  BY <1>1, <1>3
<1> QED
  BY <1>1, <1>2, <1>3 DEF wrap

LEMMA AddsNat ==
    ASSUME NEW purse, NEW cat, Fine(purse, cat), NEW j \in 1 .. Len(purse)
    PROVE  Adds(purse, cat, j) \in Nat /\ Len(purse) \in Nat /\ DOMAIN purse = 1 .. Len(purse)
<1>0. purse \in Seq(Sum)
  BY DEF Fine
<1>a. Len(purse) \in Nat /\ DOMAIN purse = 1 .. Len(purse) /\ j \in DOMAIN purse
  BY <1>0
<1>b. purse[j] \in Sum
  BY <1>0, <1>a
<1>c. cat[purse[j].code] \in Row
  BY <1>a DEF Fine
<1>1. purse[j] \in Sum /\ cat[purse[j].code] \in Row
  BY <1>b, <1>c
<1>2. purse[j].amount \in Nat /\ cat[purse[j].code].value \in Nat
  BY <1>1 DEF Row, Sum
<1>3. purse[j].amount * cat[purse[j].code].value \in Nat
  BY <1>2
<1> QED
  BY <1>a, <1>3 DEF Adds

\* baseValue sums up along the purse.
LEMMA BaseAlong ==
    ASSUME NEW purse, NEW cat, cat = catalog, Fine(purse, cat)
    PROVE  \E p : /\ Along(p, Len(purse), Int, 0, BaseF(purse, cat))
                  /\ baseValue(purse) = p[Len(purse)]
<1> DEFINE N == Len(purse)
           F == BaseF(purse, cat)
<1>1. N \in Nat /\ DOMAIN purse = 1 .. N
  BY DEF Fine
<1>2. \A j \in 1 .. N : Adds(purse, cat, j) \in Int
  BY AddsNat
<1>3. F \in [Int \X (1 .. N) -> Int]
  <2>1. \A t \in Int, j \in 1 .. N : wrap(t + wrap(Adds(purse, cat, j))) \in Int
    BY <1>2, WrapInt
  <2> QED
    BY <2>1 DEF BaseF
<1>4. baseValue(purse) = (CHOOSE g : BaseFold(g, purse, cat))[DOMAIN purse]
  BY Zenon DEF baseValue, FoldLeft, MapThenFoldSet, BaseFold, ratio
<1>5. \A t \in Int, j \in 1 .. N : F[<<t, j>>] = wrap(t + wrap(purse[j].amount * cat[purse[j].code].value))
  BY DEF BaseF, Adds
<1> HIDE DEF F, N
<1>6. \E g : BaseFold(g, purse, cat)
  <2>1. PICK g \in [SUBSET (1 .. N) -> Int] : \A s \in SUBSET (1 .. N) : g[s] = StepOf(g, 0, F, s)
    <3> DEFINE T == Int
           zero == 0
    <3>1. zero \in T /\ F \in [T \X (1 .. N) -> T] /\ N \in Nat
      BY <1>1, <1>3
    <3> HIDE DEF T, zero
    <3>2. \E g : Folds(g, N, T, zero, F)
      BY <3>1, FoldsExist
    <3> QED
      BY <3>2 DEF T, zero, Folds
  <2>2. ASSUME NEW s \in SUBSET (1 .. N), s # {}
        PROVE  g[s] = wrap(g[s \ {Max(s)}] + wrap(purse[Max(s)].amount * cat[purse[Max(s)].code].value))
    <3>1. Max(s) \in 1 .. N /\ g[s \ {Max(s)}] \in Int
      BY <1>1, <2>2, LastPosition
    <3> QED
      BY <1>5, <2>1, <2>2, <3>1 DEF StepOf
  <2>3. g[{}] = 0
    BY <2>1 DEF StepOf
  <2> QED
    BY <1>1, <2>1, <2>2, <2>3 DEF BaseFold
<1> DEFINE h == CHOOSE g : BaseFold(g, purse, cat)
<1>7. BaseFold(h, purse, cat)
  BY <1>6, Zenon
<1> HIDE DEF h
<1>8. h[{}] = 0
  BY <1>7 DEF BaseFold
<1>9. \A s \in SUBSET (1 .. N) : s # {} /\ h[s \ {Max(s)}] \in Int =>
            h[s] = F[<<h[s \ {Max(s)}], Max(s)>>]
  <2> TAKE s \in SUBSET (1 .. N)
  <2> HAVE s # {} /\ h[s \ {Max(s)}] \in Int
  <2>1. Max(s) \in 1 .. N
    BY <1>1, LastPosition
  <2>2. h[s] = wrap(h[s \ {Max(s)}] + wrap(purse[Max(s)].amount * cat[purse[Max(s)].code].value))
    BY <1>1, <1>7 DEF BaseFold
  <2> QED
    BY <1>5, <2>1, <2>2
<1> DEFINE p == [n \in 0 .. N |-> h[1 .. n]]
<1>10. Along(p, N, Int, 0, F)
  <2> DEFINE T == Int
         zero == 0
  <2>1. /\ zero \in T /\ F \in [T \X (1 .. N) -> T] /\ N \in Nat /\ h[{}] = zero
        /\ \A s \in SUBSET (1 .. N) : s # {} /\ h[s \ {Max(s)}] \in T =>
                h[s] = F[<<h[s \ {Max(s)}], Max(s)>>]
    BY <1>1, <1>3, <1>8, <1>9
  <2> HIDE DEF T, zero
  <2>2. Along(p, N, T, zero, F)
    BY <2>1, FoldsAlong
  <2> QED
    BY <2>2 DEF T, zero
<1>11. baseValue(purse) = p[N]
  BY <1>1, <1>4 DEF h
<1> HIDE DEF p
<1> QED
  BY <1>10, <1>11 DEF F, N

\* Numbers add up along their sequence.
SumsUp(p, N, f) ==
    /\ p \in [0 .. N -> Int] /\ p[0] = 0
    /\ \A n \in 1 .. N : p[n] = p[n - 1] + f[n]

TotalFold(g, f) ==
    g = [s \in SUBSET DOMAIN f |-> IF s = {} THEN 0 ELSE g[s \ {Max(s)}] + f[Max(s)]]

LEMMA TotalAlong ==
    ASSUME NEW N \in Nat, NEW f \in [1 .. N -> Int]
    PROVE  \E p : SumsUp(p, N, f) /\ Total(f) = p[N]
<1> DEFINE F == [x \in Int \X (1 .. N) |-> x[1] + f[x[2]]]
           T == Int
           zero == 0
<1>1. /\ \A t \in Int, j \in 1 .. N : F[<<t, j>>] = t + f[j]
      /\ F \in [T \X (1 .. N) -> T] /\ zero \in T
  OBVIOUS
<1>2. Total(f) = (CHOOSE g : TotalFold(g, f))[DOMAIN f]
  BY Zenon DEF Total, FoldLeft, MapThenFoldSet, TotalFold
<1> HIDE DEF F, T, zero
<1>3. \E g : TotalFold(g, f)
  <2>1. PICK g : Folds(g, N, T, zero, F)
    BY <1>1, FoldsExist
  <2>2. g \in [SUBSET (1 .. N) -> Int]
    BY <2>1 DEF Folds, T
  <2>3. ASSUME NEW s \in SUBSET (1 .. N), s # {}
        PROVE  g[s] = g[s \ {Max(s)}] + f[Max(s)]
    <3>1. Max(s) \in 1 .. N /\ g[s \ {Max(s)}] \in Int
      BY <2>2, <2>3, LastPosition
    <3> QED
      BY <1>1, <2>1, <2>3, <3>1 DEF StepOf, Folds
  <2>4. g[{}] = 0
    BY <2>1 DEF StepOf, Folds, zero
  <2> QED
    BY <2>2, <2>3, <2>4 DEF TotalFold
<1> DEFINE h == CHOOSE g : TotalFold(g, f)
           p == [n \in 0 .. N |-> h[1 .. n]]
<1>4. TotalFold(h, f)
  BY <1>3, Zenon
<1> HIDE DEF h
<1>5. ASSUME NEW s \in SUBSET (1 .. N), s # {}, h[s \ {Max(s)}] \in T
      PROVE  h[s] = F[<<h[s \ {Max(s)}], Max(s)>>]
  <2>1. Max(s) \in 1 .. N
    BY <1>5, LastPosition
  <2>2. h[s] = h[s \ {Max(s)}] + f[Max(s)]
    BY <1>4, <1>5 DEF TotalFold
  <2> QED
    BY <1>1, <1>5, <2>1, <2>2 DEF T
<1>6. h[{}] = zero
  BY <1>4 DEF TotalFold, zero
<1>7. Along(p, N, T, zero, F)
  BY <1>1, <1>5, <1>6, FoldsAlong
<1>8. Total(f) = p[N]
  BY <1>2 DEF h
<1> HIDE DEF p
<1>9. SumsUp(p, N, f)
  <2>1. p \in [0 .. N -> Int] /\ p[0] = 0
    BY <1>7 DEF Along, T, zero
  <2>2. \A n \in 1 .. N : n - 1 \in 0 .. N
    OBVIOUS
  <2> QED
    BY <1>1, <1>7, <2>1, <2>2 DEF Along, SumsUp
<1> QED
  BY <1>8, <1>9

\* Sums of what is not negative only grow.
LEMMA SumsGrow ==
    ASSUME NEW N \in Nat, NEW f \in [1 .. N -> Int], \A n \in 1 .. N : f[n] >= 0,
           NEW p, SumsUp(p, N, f)
    PROVE  \A n \in 0 .. N : 0 <= p[n] /\ p[n] <= p[N]
<1>1. /\ p \in [0 .. N -> Int] /\ p[0] = 0
      /\ \A n \in 1 .. N : p[n] = p[n - 1] + f[n]
  BY DEF SumsUp
<1>2. \A n \in 0 .. N - 1 : n + 1 \in 1 .. N /\ (n + 1) - 1 = n /\ n \in 0 .. N /\ n + 1 \in 0 .. N
  OBVIOUS
<1> DEFINE B == {n \in 0 .. N : 0 <= p[n]}
           C == {k \in 0 .. N : p[N - k] <= p[N]}
<1>3. \A n \in 0 .. N : n \in B
  <2>1. 0 \in B
    BY <1>1
  <2>2. ASSUME NEW n \in 0 .. N - 1, n \in B PROVE n + 1 \in B
    <3>1. p[n + 1] = p[n] + f[n + 1] /\ f[n + 1] >= 0 /\ f[n + 1] \in Int /\ p[n] \in Int
      BY <1>1, <1>2
    <3> QED
      BY <1>2, <2>2, <3>1
  <2> HIDE DEF B
  <2> QED
    BY <2>1, <2>2, UpTo
<1>4. \A k \in 0 .. N : k \in C
  <2>1. 0 \in C
    BY <1>1
  <2>2. ASSUME NEW k \in 0 .. N - 1, k \in C PROVE k + 1 \in C
    <3>1. /\ N - k \in 1 .. N /\ N - (k + 1) = (N - k) - 1 /\ N - k \in 0 .. N
          /\ N - (k + 1) \in 0 .. N /\ k + 1 \in 0 .. N
      OBVIOUS
    <3>2. p[N - k] = p[(N - k) - 1] + f[N - k] /\ f[N - k] >= 0 /\ f[N - k] \in Int
      BY <1>1, <3>1
    <3>3. p[N - (k + 1)] \in Int /\ p[N - k] \in Int /\ p[N] \in Int /\ p[N - k] <= p[N]
      BY <1>1, <2>2, <3>1
    <3>4. p[N - k] = p[N - (k + 1)] + f[N - k]
      BY <3>1, <3>2
    <3>5. p[N - (k + 1)] <= p[N]
      BY <3>2, <3>3, <3>4
    <3> QED
      BY <3>1, <3>5
  <2> HIDE DEF C
  <2> QED
    BY <2>1, <2>2, UpTo
<1>5. ASSUME NEW n \in 0 .. N
      PROVE  0 <= p[n] /\ p[n] <= p[N]
  <2>1. N - n \in 0 .. N /\ N - (N - n) = n
    OBVIOUS
  <2>2. n \in B /\ N - n \in C
    BY <1>3, <1>4, <2>1
  <2> QED
    BY <2>1, <2>2
<1> QED
  BY <1>5

\* The terms that are added.
Terms(purse, cat) == [j \in 1 .. Len(purse) |-> Adds(purse, cat, j)]

\* As long as the true worth fits an integer, nothing wraps on the way.
LEMMA BaseIsTrue ==
    ASSUME NEW purse, NEW cat, Fine(purse, cat),
           NEW p, Along(p, Len(purse), Int, 0, BaseF(purse, cat)),
           NEW q, SumsUp(q, Len(purse), Terms(purse, cat)), q[Len(purse)] < Half
    PROVE  p[Len(purse)] = q[Len(purse)] /\ q[Len(purse)] \in Nat
<1> DEFINE N == Len(purse)
           f == Terms(purse, cat)
<1>1. N \in Nat /\ DOMAIN purse = 1 .. N
  BY DEF Fine
<1>2. \A j \in 1 .. N : f[j] = Adds(purse, cat, j) /\ f[j] \in Nat
  BY AddsNat DEF Terms
<1>3. f \in [1 .. N -> Int] /\ \A n \in 1 .. N : f[n] >= 0
  BY <1>2 DEF Terms
<1>4. /\ p \in [0 .. N -> Int] /\ p[0] = 0
      /\ \A n \in 1 .. N : p[n] = wrap(p[n - 1] + wrap(f[n]))
  <2>1. \A n \in 1 .. N : n - 1 \in 0 .. N
    OBVIOUS
  <2> QED
    BY <1>2, <2>1 DEF Along, BaseF
<1>5. q \in [0 .. N -> Int] /\ q[0] = 0 /\ \A n \in 1 .. N : q[n] = q[n - 1] + f[n]
  BY DEF SumsUp
<1> HIDE DEF f
<1>6. \A n \in 0 .. N : 0 <= q[n] /\ q[n] <= q[N]
  <2> HIDE DEF N
  <2>1. SumsUp(q, N, f)
    BY DEF N, f
  <2> QED
    BY <1>1, <1>3, <2>1, SumsGrow
<1>7. q[N] < Half /\ Half \in Nat
  BY ConstantsAssumption
<1> HIDE DEF N
<1> DEFINE B == {n \in 0 .. N : p[n] = q[n]}
<1>8. \A n \in 0 .. N : n \in B
  <2>1. 0 \in B
    BY <1>1, <1>4, <1>5
  <2>2. ASSUME NEW n \in 0 .. N - 1, n \in B PROVE n + 1 \in B
    <3>1. n + 1 \in 1 .. N /\ (n + 1) - 1 = n /\ n \in 0 .. N /\ n + 1 \in 0 .. N
      BY <1>1
    <3>2. p[n + 1] = wrap(p[n] + wrap(f[n + 1])) /\ q[n + 1] = q[n] + f[n + 1]
      BY <1>4, <1>5, <3>1
    <3>3. /\ q[n] \in Int /\ q[n + 1] \in Int /\ f[n + 1] \in Int /\ q[N] \in Int
          /\ 0 <= q[n] /\ q[n + 1] <= q[N] /\ 0 <= f[n + 1]
      BY <1>1, <1>3, <1>5, <1>6, <3>1
    <3>4. f[n + 1] \in 0 .. Half - 1 /\ q[n] + f[n + 1] \in 0 .. Half - 1
      BY <1>7, <3>2, <3>3
    <3>5. wrap(f[n + 1]) = f[n + 1]
      BY <3>3, <3>4, WrapInt
    <3>6. wrap(q[n] + f[n + 1]) = q[n] + f[n + 1]
      BY <3>3, <3>4, WrapInt
    <3>7. p[n] = q[n]
      BY <2>2
    <3> QED
      BY <3>1, <3>2, <3>5, <3>6, <3>7
  <2> HIDE DEF B
  <2> QED
    BY <1>1, <2>1, <2>2, UpTo
<1>9. N \in 0 .. N
  BY <1>1
<1>10. p[N] = q[N] /\ q[N] \in Nat
  BY <1>1, <1>5, <1>6, <1>8, <1>9
<1> QED
  BY <1>10 DEF N

-----------------------------------------------------------------------------
(* The sorted catalog *)

Priced(S, cat) ==
    /\ IsFiniteSet(S) /\ S \subseteq Nat
    /\ \A c \in S : cat[c].value \in Nat \ {0}

Below(c, d, cat) ==
    cat[c].value < cat[d].value \/ (cat[c].value = cat[d].value /\ c < d)

Sorted(s, S, cat) ==
    /\ s \in SetToSeqs(S)
    /\ \A i, j \in DOMAIN s : i < j => Below(s[i], s[j], cat)

\* The smallest currency of a set that is not empty.
LEMMA Lowest ==
    ASSUME NEW S, NEW cat, Priced(S, cat), S # {}
    PROVE  \E c \in S : \A d \in S \ {c} : Below(c, d, cat)
<1> DEFINE T == {cat[c].value : c \in S}
<1>1. T \in SUBSET Nat /\ T # {}
  BY DEF Priced
<1>2. PICK v \in T : \A w \in T : ~(w < v)
  BY <1>1, Least
<1> DEFINE U == {c \in S : cat[c].value = v}
<1>3. U \in SUBSET Nat /\ U # {}
  BY <1>2 DEF Priced
<1>4. PICK c \in U : \A d \in U : ~(d < c)
  BY <1>3, Least
<1>5. ASSUME NEW d \in S \ {c}
      PROVE  Below(c, d, cat)
  <2>1. cat[d].value \in T /\ cat[d].value \in Nat /\ v \in Nat /\ c \in Nat /\ d \in Nat
    BY <1>1, <1>2, <1>3, <1>4, <1>5 DEF Priced
  <2>2. ~(cat[d].value < v) /\ cat[c].value = v
    BY <1>2, <1>4, <2>1
  <2>3. cat[d].value = v => d \in U
    BY <1>5
  <2>4. cat[d].value = v => c < d
    BY <1>4, <1>5, <2>1, <2>3
  <2> HIDE DEF T, U
  <2> QED
    BY <2>1, <2>2, <2>4 DEF Below
<1> QED
  BY <1>4, <1>5

LEMMA SortedExists ==
    ASSUME NEW S, NEW cat, Priced(S, cat)
    PROVE  \E s : Sorted(s, S, cat)
<1> DEFINE N == Cardinality(S)
           Good(n) == \A R \in SUBSET S : Cardinality(R) = n => \E s : Sorted(s, R, cat)
           B == {n \in 0 .. N : Good(n)}
<1>0. N \in Nat /\ \A R \in SUBSET S : IsFiniteSet(R) /\ Cardinality(R) \in Nat
  BY FS_CardinalityType, FS_Subset DEF Priced
<1>1. 0 \in B
  <2>1. ASSUME NEW R \in SUBSET S, Cardinality(R) = 0
        PROVE  Sorted(<<>>, R, cat)
    <3>1. R = {} /\ 1 .. Cardinality(R) = {}
      BY <1>0, <2>1, FS_EmptySet
    <3>2. <<>> \in [1 .. Cardinality(R) -> R] /\ DOMAIN <<>> = {}
      BY <3>1
    <3> QED
      BY <3>1, <3>2 DEF Sorted, SetToSeqs
  <2>2. Good(0)
    BY <2>1, Zenon
  <2> HIDE DEF Good
  <2> QED
    BY <1>0, <2>2
<1>2. ASSUME NEW n \in 0 .. N - 1, n \in B
      PROVE  n + 1 \in B
  <2>0. n \in Nat /\ n + 1 \in 0 .. N
    BY <1>0
  <2>1. ASSUME NEW R \in SUBSET S, Cardinality(R) = n + 1
        PROVE  \E s : Sorted(s, R, cat)
    <3>1. R # {} /\ Priced(R, cat)
      BY <1>0, <2>0, <2>1, FS_EmptySet DEF Priced
    <3>2. PICK c \in R : \A d \in R \ {c} : Below(c, d, cat)
      BY <3>1, Lowest
    <3>3. R \ {c} \in SUBSET S /\ Cardinality(R \ {c}) = n
      BY <1>0, <2>0, <2>1, FS_RemoveElement
    <3>4. PICK t : Sorted(t, R \ {c}, cat)
      BY <1>2, <3>3
    <3>5. /\ t \in [1 .. n -> R \ {c}] /\ DOMAIN t = 1 .. n
          /\ \A i, j \in 1 .. n : i # j => t[i] # t[j]
          /\ \A i, j \in 1 .. n : i < j => Below(t[i], t[j], cat)
      BY <3>3, <3>4 DEF Sorted, SetToSeqs
    <3> DEFINE s == [i \in 1 .. n + 1 |-> IF i = 1 THEN c ELSE t[i - 1]]
    <3>6. \A i \in 1 .. n + 1 : i # 1 => i - 1 \in 1 .. n /\ t[i - 1] \in R \ {c}
      BY <2>0, <3>5
    <3>7. s \in [1 .. n + 1 -> R] /\ DOMAIN s = 1 .. n + 1
      BY <3>6
    <3>8. \A i \in 1 .. n + 1 : s[i] = IF i = 1 THEN c ELSE t[i - 1]
      OBVIOUS
    <3> HIDE DEF s
    <3>9. ASSUME NEW i \in 1 .. n + 1, NEW j \in 1 .. n + 1, i # j
          PROVE  s[i] # s[j]
      BY <2>0, <3>5, <3>6, <3>8, <3>9
    <3>10. ASSUME NEW i \in 1 .. n + 1, NEW j \in 1 .. n + 1, i < j
           PROVE  Below(s[i], s[j], cat)
      <4>1. j # 1 /\ j - 1 \in 1 .. n /\ s[j] = t[j - 1] /\ t[j - 1] \in R \ {c}
        BY <2>0, <3>6, <3>8, <3>10
      <4>2. CASE i = 1
        BY <3>2, <3>8, <4>1, <4>2
      <4>3. CASE i # 1
        <5>1. i - 1 \in 1 .. n /\ s[i] = t[i - 1] /\ i - 1 < j - 1
          BY <2>0, <3>6, <3>8, <3>10, <4>3
        <5> QED
          BY <3>5, <4>1, <5>1
      <4> QED
        BY <4>2, <4>3
    <3>11. s \in SetToSeqs(R)
      BY <2>1, <3>7, <3>9 DEF SetToSeqs
    <3> QED
      BY <3>7, <3>10, <3>11 DEF Sorted
  <2>2. Good(n + 1)
    BY <2>1, Zenon
  <2> HIDE DEF Good
  <2> QED
    BY <2>0, <2>2
<1> HIDE DEF Good
<1> HIDE DEF B
<1>3. \A n \in 0 .. N : n \in B
  BY <1>0, <1>1, <1>2, UpTo
<1>4. Good(N)
  BY <1>0, <1>3 DEF B
<1> QED
  BY <1>4 DEF Good

\* What the descending list of a set is: every element once, the larger ratio
\* first.
Falling(d, N, S, cat) ==
    /\ N \in Nat
    /\ d \in [1 .. N -> S]
    /\ \A c \in S : \E n \in 1 .. N : d[n] = c
    /\ \A i, j \in 1 .. N : i < j => d[i] # d[j] /\ cat[d[j]].value <= cat[d[i]].value

LEMMA ReverseFalls ==
    ASSUME NEW S, NEW cat, Priced(S, cat), NEW s, Sorted(s, S, cat)
    PROVE  Falling(Reverse(s), Len(s), S, cat)
<1> DEFINE N == Cardinality(S)
<1>1. N \in Nat /\ IsFiniteSet(S)
  BY FS_CardinalityType DEF Priced
<1>2. /\ s \in [1 .. N -> S]
      /\ \A i, j \in 1 .. N : i # j => s[i] # s[j]
      /\ \A i, j \in 1 .. N : i < j => Below(s[i], s[j], cat)
  BY DEF Sorted, SetToSeqs
<1>3. Len(s) = N
  BY <1>1, <1>2
<1>4. \A c \in S : \E n \in 1 .. N : s[n] = c
  <2>1. s \in Injection(1 .. N, S)
    BY <1>2 DEF Injection, IsInjective
  <2>2. Cardinality(1 .. N) = N
    BY <1>1, FS_Interval
  <2>3. s \in Surjection(1 .. N, S)
    BY <1>1, <2>1, <2>2, FS_Injection
  <2> QED
    BY <2>3 DEF Surjection
<1> HIDE DEF N
<1> DEFINE d == Reverse(s)
<1>5. d = [i \in 1 .. N |-> s[(N - i) + 1]]
  BY <1>3 DEF Reverse
<1>6. \A i \in 1 .. N : (N - i) + 1 \in 1 .. N /\ d[i] = s[(N - i) + 1] /\ d[i] \in S
  BY <1>1, <1>2, <1>5
<1>7. d \in [1 .. N -> S]
  BY <1>5, <1>6
<1> HIDE DEF d
<1>8. ASSUME NEW c \in S
      PROVE  \E n \in 1 .. N : d[n] = c
  <2>1. PICK n \in 1 .. N : s[n] = c
    BY <1>4
  <2>2. (N - n) + 1 \in 1 .. N /\ (N - ((N - n) + 1)) + 1 = n
    BY <1>1
  <2> QED
    BY <1>6, <2>1, <2>2
<1>9. ASSUME NEW i \in 1 .. N, NEW j \in 1 .. N, i < j
      PROVE  d[i] # d[j] /\ cat[d[j]].value <= cat[d[i]].value
  <2> DEFINE a == (N - j) + 1
             b == (N - i) + 1
  <2>1. a \in 1 .. N /\ b \in 1 .. N /\ a < b
    BY <1>1, <1>9
  <2>2. d[i] = s[b] /\ d[j] = s[a] /\ d[i] \in S /\ d[j] \in S
    BY <1>6
  <2> HIDE DEF a, b
  <2>3. Below(s[a], s[b], cat) /\ s[a] # s[b]
    BY <1>1, <1>2, <2>1
  <2>4. cat[d[i]].value \in Nat /\ cat[d[j]].value \in Nat
    BY <2>2 DEF Priced
  <2> QED
    BY <2>2, <2>3, <2>4 DEF Below
<1> QED
  BY <1>1, <1>3, <1>7, <1>8, <1>9 DEF Falling, d

-----------------------------------------------------------------------------
(* The operators of Coins, of a catalog that does not change *)

CurrenciesIn(cat) == {c \in Codes : cat[c] # NoRow}
ListOf(S, cat) == CHOOSE s \in SetToSeqs(S) :
                      \A i, j \in DOMAIN s : i < j => Below(s[i], s[j], cat)
DescendingIn(cat) == Reverse(ListOf(CurrenciesIn(cat), cat))

LEMMA CatalogRead ==
    ASSUME NEW cat, cat = catalog
    PROVE  Currencies = CurrenciesIn(cat) /\ Descending = DescendingIn(cat)
<1>1. Currencies = CurrenciesIn(cat)
  BY DEF Currencies, CurrenciesIn
<1>2. List = ListOf(Currencies, cat)
  BY SMT DEF List, ListOf, Before, Below, ratio
<1> QED
  BY <1>1, <1>2 DEF Descending, DescendingIn

\* The catalog as requests find it: ratios are at least 1.
Rated(cat) ==
    /\ cat \in [Keys -> Row \cup {NoRow}]
    /\ \A k \in Keys : cat[k] # NoRow => cat[k].value > 0

LEMMA RatedPrices ==
    ASSUME NEW cat, Rated(cat)
    PROVE  Priced(CurrenciesIn(cat), cat)
<1>1. IsFiniteSet(Codes) /\ Codes \subseteq Nat /\ Codes \subseteq Keys
  BY ConstantsAssumption DEF Keys
<1>2. CurrenciesIn(cat) \in SUBSET Codes
  BY DEF CurrenciesIn
<1>3. IsFiniteSet(CurrenciesIn(cat))
  BY <1>1, <1>2, FS_Subset
<1>4. ASSUME NEW c \in CurrenciesIn(cat)
      PROVE  cat[c].value \in Nat \ {0}
  <2>1. c \in Keys /\ cat[c] # NoRow /\ cat[c] \in Row
    BY <1>1, <1>4 DEF CurrenciesIn, Rated
  <2> QED
    BY <2>1 DEF Rated, Row
<1> QED
  BY <1>1, <1>2, <1>3, <1>4 DEF Priced

LEMMA Descends ==
    ASSUME NEW cat, Rated(cat)
    PROVE  Falling(DescendingIn(cat), Len(DescendingIn(cat)), CurrenciesIn(cat), cat)
<1> DEFINE S == CurrenciesIn(cat)
           s == ListOf(S, cat)
<1>1. Priced(S, cat)
  BY RatedPrices
<1>2. \E t : Sorted(t, S, cat)
  BY <1>1, SortedExists
<1>3. Sorted(s, S, cat)
  BY <1>2, Zenon DEF Sorted, ListOf
<1> HIDE DEF S, s
<1>4. Falling(Reverse(s), Len(s), S, cat)
  BY <1>1, <1>3, ReverseFalls
<1>5. Len(Reverse(s)) = Len(s)
  BY <1>4 DEF Falling
<1> QED
  BY <1>4, <1>5 DEF S, s, DescendingIn

-----------------------------------------------------------------------------
(* Breaking a total down *)

\* Along the list d: what is left after each currency, and its coins.
Broken(coins, left, total, d, N, S, cat) ==
    /\ coins \in [S -> Int]
    /\ left \in [0 .. N -> Int] /\ left[0] = total
    /\ \A n \in 1 .. N :
        /\ coins[d[n]] = Quotient(left[n - 1], cat[d[n]].value)
        /\ left[n] = left[n - 1] - coins[d[n]] * cat[d[n]].value

Taken(s, c, cat) ==
    [rest  |-> s.rest - Quotient(s.rest, cat[c].value) * cat[c].value,
     coins |-> [s.coins EXCEPT ![c] = Quotient(s.rest, cat[c].value)]]

BreakFold(g, base, d, cat) ==
    g = [s \in SUBSET DOMAIN d |->
            IF s = {} THEN base ELSE Taken(g[s \ {Max(s)}], d[Max(s)], cat)]

LEMMA QuotientInt ==
    ASSUME NEW n \in Int, NEW d \in Nat \ {0}
    PROVE  Quotient(n, d) \in Int
BY DEF Quotient

\* What is left of a total and the coins so far.
Partial(S) == [rest : Int, coins : [S -> Int]]

LEMMA TakenTyped ==
    ASSUME NEW S, NEW cat, NEW c \in S, cat[c].value \in Nat \ {0},
           NEW s \in Partial(S)
    PROVE  /\ Taken(s, c, cat) \in Partial(S)
           /\ Taken(s, c, cat).rest = s.rest - Quotient(s.rest, cat[c].value) * cat[c].value
           /\ Taken(s, c, cat).coins = [s.coins EXCEPT ![c] = Quotient(s.rest, cat[c].value)]
<1>1. s.rest \in Int /\ s.coins \in [S -> Int]
  BY DEF Partial
<1>2. Quotient(s.rest, cat[c].value) \in Int
  BY <1>1, QuotientInt
<1> DEFINE q == Quotient(s.rest, cat[c].value)
           v == cat[c].value
<1>3. q \in Int /\ v \in Nat
  BY <1>2
<1> HIDE DEF q, v
<1>4. s.rest - q * v \in Int /\ [s.coins EXCEPT ![c] = q] \in [S -> Int]
  BY <1>1, <1>3
<1> QED
  BY <1>4 DEF Taken, q, v, Partial

\* Breakdown takes one step per currency of the descending list.
LEMMA BreakdownFold ==
    ASSUME NEW cat, cat = catalog, NEW total
    PROVE  Breakdown(total)
            = (CHOOSE g : BreakFold(g, [rest |-> total, coins |-> [c \in CurrenciesIn(cat) |-> 0]],
                                    DescendingIn(cat), cat))[DOMAIN DescendingIn(cat)]
<1> DEFINE S == CurrenciesIn(cat)
           d == DescendingIn(cat)
           base == [rest |-> total, coins |-> [c \in S |-> 0]]
<1>1. [rest |-> total, coins |-> NoCoins] = base /\ Descending = d
  BY CatalogRead DEF NoCoins
<1> HIDE DEF S, d, base
<1>2. Breakdown(total) = FoldLeft(TakeCoins, base, d)
  BY <1>1, Zenon DEF Breakdown
<1>3. FoldLeft(TakeCoins, base, d)
        = (CHOOSE g : BreakFold(g, base, d, cat))[DOMAIN d]
  BY Zenon DEF FoldLeft, MapThenFoldSet, BreakFold, TakeCoins, Taken, ratio
<1> QED
  BY <1>2, <1>3 DEF S, d, base

\* What a chain of such steps leaves in its parts: the coins of a currency are
\* those its own step took.
Chain(p, total, d, N, S, cat) ==
    /\ p \in [0 .. N -> Partial(S)]
    /\ p[0].rest = total
    /\ \A n \in 1 .. N : p[n] = Taken(p[n - 1], d[n], cat)

LEMMA ChainBreaks ==
    ASSUME NEW S, NEW cat, NEW N, NEW d, Falling(d, N, S, cat),
           \A c \in S : cat[c].value \in Nat \ {0},
           NEW total \in Int, NEW p, Chain(p, total, d, N, S, cat)
    PROVE  \E left : Broken(p[N].coins, left, total, d, N, S, cat)
<1> DEFINE left == [n \in 0 .. N |-> p[n].rest]
           q(n) == Quotient(p[n - 1].rest, cat[d[n]].value)
<1>0. /\ p \in [0 .. N -> Partial(S)] /\ p[0].rest = total
      /\ \A n \in 1 .. N : p[n] = Taken(p[n - 1], d[n], cat)
  BY DEF Chain
<1>1. /\ N \in Nat /\ d \in [1 .. N -> S]
      /\ \A i, j \in 1 .. N : i # j => d[i] # d[j]
  <2>1. N \in Nat /\ d \in [1 .. N -> S] /\ \A i, j \in 1 .. N : i < j => d[i] # d[j]
    BY DEF Falling
  <2>2. \A i, j \in 1 .. N : i # j => i < j \/ j < i
    BY <2>1
  <2> QED
    BY <2>1, <2>2
<1>2. \A n \in 0 .. N : p[n].rest \in Int /\ p[n].coins \in [S -> Int]
  BY <1>0 DEF Partial
<1>3. \A n \in 1 .. N : n - 1 \in 0 .. N /\ n \in 0 .. N
  BY <1>1
<1>4. ASSUME NEW n \in 1 .. N
      PROVE  /\ p[n].rest = p[n - 1].rest - q(n) * cat[d[n]].value
             /\ p[n].coins = [p[n - 1].coins EXCEPT ![d[n]] = q(n)]
  <2>1. /\ d[n] \in S /\ cat[d[n]].value \in Nat \ {0}
        /\ p[n - 1] \in Partial(S) /\ p[n] = Taken(p[n - 1], d[n], cat)
    BY <1>0, <1>1, <1>3
  <2> DEFINE t == p[n - 1]
             c == d[n]
  <2>2. c \in S /\ cat[c].value \in Nat \ {0} /\ t \in Partial(S)
    BY <2>1
  <2> HIDE DEF t, c
  <2>3. /\ Taken(t, c, cat).rest = t.rest - Quotient(t.rest, cat[c].value) * cat[c].value
        /\ Taken(t, c, cat).coins = [t.coins EXCEPT ![c] = Quotient(t.rest, cat[c].value)]
    BY <2>2, TakenTyped
  <2> QED
    BY <2>1, <2>3 DEF t, c
<1> HIDE DEF q
<1> DEFINE B == {n \in 0 .. N : \A j \in 1 .. n : p[n].coins[d[j]] = q(j)}
<1>5. \A n \in 0 .. N : n \in B
  <2>1. 0 \in B
    BY <1>1
  <2>2. ASSUME NEW n \in 0 .. N - 1, n \in B PROVE n + 1 \in B
    <3>1. n + 1 \in 1 .. N /\ (n + 1) - 1 = n /\ n \in 0 .. N /\ n + 1 \in 0 .. N
      BY <1>1
    <3>2. p[n + 1].coins = [p[n].coins EXCEPT ![d[n + 1]] = q(n + 1)]
      BY <1>4, <3>1
    <3>3. p[n].coins \in [S -> Int]
      BY <1>2, <3>1
    <3>4. ASSUME NEW j \in 1 .. n + 1 PROVE p[n + 1].coins[d[j]] = q(j)
      <4>1. d[n + 1] \in S
        BY <1>1, <3>1
      <4>2. CASE j = n + 1
        BY <3>2, <3>3, <4>1, <4>2
      <4>3. CASE j # n + 1
        <5>1. j \in 1 .. n /\ j \in 1 .. N
          BY <1>1, <3>1, <4>3
        <5>2. d[j] # d[n + 1] /\ d[j] \in S
          BY <1>1, <3>1, <4>3, <5>1
        <5>3. p[n].coins[d[j]] = q(j)
          BY <2>2, <5>1
        <5> QED
          BY <3>2, <3>3, <4>1, <5>2, <5>3
      <4> QED
        BY <4>2, <4>3
    <3> QED
      BY <3>1, <3>4
  <2> HIDE DEF B
  <2> QED
    BY <1>1, <2>1, <2>2, UpTo
<1>6. \A n \in 1 .. N : p[N].coins[d[n]] = q(n)
  <2>1. N \in 0 .. N
    BY <1>1
  <2> QED
    BY <1>5, <2>1
<1>7. left \in [0 .. N -> Int] /\ left[0] = total /\ p[N].coins \in [S -> Int]
  BY <1>0, <1>1, <1>2
<1>8. \A n \in 0 .. N : left[n] = p[n].rest
  OBVIOUS
<1> HIDE DEF left
<1>9. ASSUME NEW n \in 1 .. N
      PROVE  /\ p[N].coins[d[n]] = Quotient(left[n - 1], cat[d[n]].value)
             /\ left[n] = left[n - 1] - p[N].coins[d[n]] * cat[d[n]].value
  <2>1. left[n] = p[n].rest /\ left[n - 1] = p[n - 1].rest
    BY <1>3, <1>8
  <2>2. p[N].coins[d[n]] = q(n) /\ q(n) = Quotient(p[n - 1].rest, cat[d[n]].value)
    BY <1>6 DEF q
  <2> QED
    BY <1>4, <2>1, <2>2
<1> QED
  BY <1>7, <1>9 DEF Broken

LEMMA BreaksDown ==
    ASSUME NEW cat, cat = catalog, Rated(cat), NEW total \in Int
    PROVE  \E left : Broken(Breakdown(total).coins, left, total, DescendingIn(cat),
                            Len(DescendingIn(cat)), CurrenciesIn(cat), cat)
<1> DEFINE S == CurrenciesIn(cat)
           d == DescendingIn(cat)
           N == Len(d)
           T == Partial(S)
           base == [rest |-> total, coins |-> [c \in S |-> 0]]
           F == [x \in T \X (1 .. N) |-> Taken(x[1], d[x[2]], cat)]
<1>1. Falling(d, N, S, cat) /\ \A c \in S : cat[c].value \in Nat \ {0}
  BY Descends, RatedPrices DEF Priced
<1>2. Breakdown(total) = (CHOOSE g : BreakFold(g, base, d, cat))[DOMAIN d]
  BY BreakdownFold
<1> HIDE DEF d, S
<1>3. N \in Nat /\ d \in [1 .. N -> S] /\ DOMAIN d = 1 .. N
  BY <1>1 DEF Falling
<1>4. base \in T
  BY DEF Partial
<1>5. \A t \in T, j \in 1 .. N : Taken(t, d[j], cat) \in T
  BY <1>1, <1>3, TakenTyped
<1> HIDE DEF T, base, N
<1>6. F \in [T \X (1 .. N) -> T] /\ \A t \in T, j \in 1 .. N : F[<<t, j>>] = Taken(t, d[j], cat)
  BY <1>5
<1> HIDE DEF F
<1>7. \E g : BreakFold(g, base, d, cat)
  <2>1. PICK g : Folds(g, N, T, base, F)
    BY <1>3, <1>4, <1>6, FoldsExist
  <2>2. g \in [SUBSET (1 .. N) -> T]
    BY <2>1 DEF Folds
  <2>3. ASSUME NEW s \in SUBSET (1 .. N), s # {}
        PROVE  g[s] = Taken(g[s \ {Max(s)}], d[Max(s)], cat)
    <3>1. Max(s) \in 1 .. N /\ g[s \ {Max(s)}] \in T
      BY <1>3, <2>2, <2>3, LastPosition
    <3> QED
      BY <1>6, <2>1, <2>3, <3>1 DEF StepOf, Folds
  <2>4. g[{}] = base
    BY <2>1 DEF StepOf, Folds
  <2> QED
    BY <1>3, <2>2, <2>3, <2>4 DEF BreakFold
<1> DEFINE h == CHOOSE g : BreakFold(g, base, d, cat)
           p == [n \in 0 .. N |-> h[1 .. n]]
<1>8. BreakFold(h, base, d, cat)
  BY <1>7, Zenon
<1> HIDE DEF h
<1>9. ASSUME NEW s \in SUBSET (1 .. N), s # {}, h[s \ {Max(s)}] \in T
      PROVE  h[s] = F[<<h[s \ {Max(s)}], Max(s)>>]
  <2>1. Max(s) \in 1 .. N
    BY <1>3, <1>9, LastPosition
  <2>2. h[s] = Taken(h[s \ {Max(s)}], d[Max(s)], cat)
    BY <1>3, <1>8, <1>9 DEF BreakFold
  <2> QED
    BY <1>6, <1>9, <2>1, <2>2
<1>10. h[{}] = base
  BY <1>8 DEF BreakFold
<1>11. Along(p, N, T, base, F)
  BY <1>3, <1>4, <1>6, <1>9, <1>10, FoldsAlong
<1>12. Breakdown(total) = p[N]
  BY <1>2, <1>3 DEF h
<1> HIDE DEF p
<1>13. p \in [0 .. N -> T] /\ p[0] = base
  BY <1>11 DEF Along
<1>14. \A n \in 1 .. N : p[n] = Taken(p[n - 1], d[n], cat)
  <2>1. \A n \in 1 .. N : n - 1 \in 0 .. N
    BY <1>3
  <2> QED
    BY <1>6, <1>11, <1>13, <2>1 DEF Along
<1>15. p[0].rest = total
  BY <1>13 DEF base
<1>16. p \in [0 .. N -> Partial(S)]
  BY <1>13 DEF T
<1> HIDE DEF T
<1>17. Chain(p, total, d, N, S, cat)
  BY <1>14, <1>15, <1>16 DEF Chain
<1>18. \E left : Broken(p[N].coins, left, total, d, N, S, cat)
  BY <1>1, <1>17, ChainBreaks
<1> QED
  BY <1>12, <1>18 DEF N, d, S

-----------------------------------------------------------------------------
(* Division *)

LEMMA DivMod ==
    ASSUME NEW n \in Nat, NEW d \in Nat \ {0}
    PROVE  \E q \in Nat, x \in 0 .. d - 1 :
                q = n \div d /\ x = n % d /\ n = d * q + x
<1>1. n \div d \in Nat /\ n % d \in 0 .. d - 1
  <2>1. n \div d \in Int /\ n \div d >= 0
    OBVIOUS
  <2>2. n % d \in 0 .. d - 1
    OBVIOUS
  <2> QED
    BY <2>1, <2>2
<1>2. PICK q \in Nat, x \in 0 .. d - 1 : q = n \div d /\ x = n % d
  BY <1>1
<1>3. n = d * q + x
  BY <1>2, SMTT(30)
<1> QED
  BY <1>2, <1>3

LEMMA QuotientRest ==
    ASSUME NEW n \in Nat, NEW d \in Nat \ {0}
    PROVE  /\ Quotient(n, d) \in Nat
           /\ n - Quotient(n, d) * d \in 0 .. d - 1
<1>1. PICK q \in Nat, x \in 0 .. d - 1 : q = n \div d /\ n = d * q + x
  BY DivMod
<1>2. Quotient(n, d) = q
  BY <1>1 DEF Quotient
<1>3. n - q * d = x
  BY <1>1
<1> QED
  BY <1>1, <1>2, <1>3

LEMMA Multiple ==
    ASSUME NEW a \in Nat \ {0}, NEW b \in Nat \ {0}, Divides(a, b)
    PROVE  \E k \in Nat \ {0} : b = a * k
<1>1. PICK k \in Nat, x \in 0 .. a - 1 : x = b % a /\ b = a * k + x
  BY DivMod
<1>2. x = 0
  BY <1>1 DEF Divides
<1>3. b = a * k /\ k # 0
  <2>1. b = a * k
    BY <1>1, <1>2
  <2>2. k = 0 => a * k = 0
    OBVIOUS
  <2> QED
    BY <2>1, <2>2
<1> QED
  BY <1>1, <1>3

\* The larger of two ratios, one of which divides the other, is a multiple.
LEMMA LargerIsMultiple ==
    ASSUME NEW a \in Nat \ {0}, NEW b \in Nat \ {0}, a <= b, Divides(a, b) \/ Divides(b, a)
    PROVE  \E k \in Nat \ {0} : b = a * k
<1>1. CASE Divides(a, b)
  BY <1>1, Multiple
<1>2. CASE Divides(b, a)
  <2>1. PICK k \in Nat \ {0} : a = b * k
    BY <1>2, Multiple
  <2>2. b * k >= b
    <3>1. k = (k - 1) + 1 /\ k - 1 \in Nat
      OBVIOUS
    <3>2. b * k = b * (k - 1) + b
      BY <3>1
    <3>3. b * (k - 1) \in Nat
      BY <3>1
    <3> QED
      BY <3>2, <3>3
  <2>3. a = b
    BY <2>1, <2>2
  <2>4. b = a * 1
    BY <2>3
  <2> QED
    BY <2>4
<1> QED
  BY <1>1, <1>2

\* A multiple of r that is less than r is not above 0.
LEMMA MultipleBelow ==
    ASSUME NEW r \in Nat \ {0}, NEW k \in Int, k * r < r
    PROVE  k <= 0
<1> SUFFICES ASSUME k > 0 PROVE FALSE
  OBVIOUS
<1>1. k - 1 \in Nat /\ k * r = (k - 1) * r + r
  OBVIOUS
<1>2. (k - 1) * r \in Nat
  BY <1>1
<1> QED
  BY <1>1, <1>2

-----------------------------------------------------------------------------
(* What a total that is broken down leaves, and how few coins it takes *)

WorthTerms(coins, d, N, cat) == [j \in 1 .. N |-> coins[d[j]] * cat[d[j]].value]
CountTerms(coins, d, N) == [j \in 1 .. N |-> coins[d[j]]]

Ladder(d, N, S, cat) ==
    Falling(d, N, S, cat) /\ \A c \in S : cat[c].value \in Nat \ {0}

LEMMA Leftovers ==
    ASSUME NEW S, NEW cat, NEW N, NEW d, Ladder(d, N, S, cat),
           NEW total \in Nat, NEW coins, NEW left, Broken(coins, left, total, d, N, S, cat)
    PROVE  /\ \A n \in 0 .. N : left[n] \in Nat
           /\ \A n \in 1 .. N : /\ coins[d[n]] \in Nat
                                /\ left[n] \in 0 .. cat[d[n]].value - 1
<1>1. /\ N \in Nat /\ d \in [1 .. N -> S] /\ \A c \in S : cat[c].value \in Nat \ {0}
  BY DEF Ladder, Falling
<1>2. /\ left \in [0 .. N -> Int] /\ left[0] = total
      /\ \A n \in 1 .. N :
            /\ coins[d[n]] = Quotient(left[n - 1], cat[d[n]].value)
            /\ left[n] = left[n - 1] - coins[d[n]] * cat[d[n]].value
  BY DEF Broken
<1>3. ASSUME NEW n \in 1 .. N, left[n - 1] \in Nat
      PROVE  coins[d[n]] \in Nat /\ left[n] \in 0 .. cat[d[n]].value - 1
  <2>1. cat[d[n]].value \in Nat \ {0}
    BY <1>1
  <2>2. /\ Quotient(left[n - 1], cat[d[n]].value) \in Nat
        /\ left[n - 1] - Quotient(left[n - 1], cat[d[n]].value) * cat[d[n]].value
                \in 0 .. cat[d[n]].value - 1
    BY <1>3, <2>1, QuotientRest
  <2> QED
    BY <1>2, <2>2
<1> DEFINE B == {n \in 0 .. N : left[n] \in Nat}
<1>4. \A n \in 0 .. N : n \in B
  <2>1. 0 \in B
    BY <1>1, <1>2
  <2>2. ASSUME NEW n \in 0 .. N - 1, n \in B PROVE n + 1 \in B
    <3>1. n + 1 \in 1 .. N /\ (n + 1) - 1 = n /\ n + 1 \in 0 .. N /\ left[n] \in Nat
      BY <1>1, <2>2
    <3>2. left[n + 1] \in 0 .. cat[d[n + 1]].value - 1 /\ d[n + 1] \in S
      BY <1>1, <1>3, <3>1
    <3>3. cat[d[n + 1]].value \in Nat
      BY <1>1, <3>2
    <3> QED
      BY <3>1, <3>2, <3>3
  <2> HIDE DEF B
  <2> QED
    BY <1>1, <2>1, <2>2, UpTo
<1>5. \A n \in 1 .. N : n - 1 \in 0 .. N
  BY <1>1
<1> QED
  BY <1>3, <1>4, <1>5

\* What the coins so far are worth is what is gone of the total.
LEMMA WorthSoFar ==
    ASSUME NEW S, NEW cat, NEW N, NEW d, Ladder(d, N, S, cat),
           NEW total \in Nat, NEW coins, NEW left, Broken(coins, left, total, d, N, S, cat),
           NEW w, SumsUp(w, N, WorthTerms(coins, d, N, cat))
    PROVE  /\ \A n \in 0 .. N : w[n] = total - left[n] /\ left[N] <= left[n]
           /\ \A c \in S : left[N] \in 0 .. cat[c].value - 1
<1>1. /\ N \in Nat /\ d \in [1 .. N -> S] /\ \A c \in S : \E n \in 1 .. N : d[n] = c
      /\ \A c \in S : cat[c].value \in Nat \ {0}
  BY DEF Ladder, Falling
<1>2. /\ \A n \in 0 .. N : left[n] \in Nat
      /\ \A n \in 1 .. N : coins[d[n]] \in Nat /\ left[n] \in 0 .. cat[d[n]].value - 1
  BY Leftovers
<1>3. /\ left[0] = total
      /\ \A n \in 1 .. N : left[n] = left[n - 1] - coins[d[n]] * cat[d[n]].value
  BY DEF Broken
<1> DEFINE f == WorthTerms(coins, d, N, cat)
<1>4. f \in [1 .. N -> Int] /\ \A n \in 1 .. N : f[n] = coins[d[n]] * cat[d[n]].value /\ f[n] >= 0
  <2>1. \A n \in 1 .. N : coins[d[n]] * cat[d[n]].value \in Nat
    BY <1>1, <1>2
  <2> QED
    BY <2>1 DEF WorthTerms
<1> HIDE DEF f
<1>5. SumsUp(w, N, f)
  BY DEF f
<1>6. w \in [0 .. N -> Int] /\ w[0] = 0 /\ \A n \in 1 .. N : w[n] = w[n - 1] + f[n]
  BY <1>5 DEF SumsUp
<1> DEFINE B == {n \in 0 .. N : w[n] = total - left[n]}
<1>7. \A n \in 0 .. N : n \in B
  <2>1. 0 \in B
    BY <1>1, <1>3, <1>6
  <2>2. ASSUME NEW n \in 0 .. N - 1, n \in B PROVE n + 1 \in B
    <3>1. n + 1 \in 1 .. N /\ (n + 1) - 1 = n /\ n + 1 \in 0 .. N /\ n \in 0 .. N
      BY <1>1
    <3>2. w[n + 1] = w[n] + f[n + 1] /\ left[n + 1] = left[n] - f[n + 1] /\ f[n + 1] \in Int
      BY <1>3, <1>4, <1>6, <3>1
    <3>3. w[n] = total - left[n] /\ left[n] \in Int
      BY <1>2, <2>2
    <3>4. w[n + 1] = total - left[n + 1]
      BY <3>2, <3>3
    <3> QED
      BY <3>1, <3>4
  <2> HIDE DEF B
  <2> QED
    BY <1>1, <2>1, <2>2, UpTo
<1>8. \A n \in 0 .. N : w[n] <= w[N]
  BY <1>1, <1>4, <1>5, SumsGrow
<1>9. \A n \in 0 .. N : w[n] = total - left[n] /\ left[N] <= left[n]
  <2> TAKE n \in 0 .. N
  <2>1. N \in 0 .. N
    BY <1>1
  <2>2. w[n] = total - left[n] /\ w[N] = total - left[N]
    BY <1>7, <2>1
  <2>3. left[n] \in Nat /\ left[N] \in Nat /\ w[n] <= w[N]
    BY <1>2, <1>8, <2>1
  <2> QED
    BY <2>2, <2>3
<1>10. ASSUME NEW c \in S
       PROVE  left[N] \in 0 .. cat[c].value - 1
  <2>1. PICK n \in 1 .. N : d[n] = c
    BY <1>1
  <2>2. n \in 0 .. N /\ N \in 0 .. N
    BY <1>1
  <2>3. left[n] \in 0 .. cat[c].value - 1 /\ left[N] <= left[n] /\ left[N] \in Nat
    BY <1>2, <1>9, <2>1, <2>2
  <2>4. cat[c].value \in Nat
    BY <1>1
  <2> QED
    BY <2>3, <2>4
<1> QED
  BY <1>9, <1>10

\* Where each ratio divides the larger ones, no other coins of that worth are
\* fewer: so far, the other coins fall short by a multiple of the ratio at
\* hand, and by at most that many coins.
LEMMA Fewest ==
    ASSUME NEW S, NEW cat, NEW N, NEW d, Ladder(d, N, S, cat),
           NEW total \in Nat, NEW coins, NEW left, Broken(coins, left, total, d, N, S, cat),
           \A c, e \in S : \/ Divides(cat[c].value, cat[e].value)
                           \/ Divides(cat[e].value, cat[c].value),
           NEW other \in [S -> Nat],
           NEW w, SumsUp(w, N, WorthTerms(coins, d, N, cat)),
           NEW x, SumsUp(x, N, WorthTerms(other, d, N, cat)),
           NEW m, SumsUp(m, N, CountTerms(coins, d, N)),
           NEW k, SumsUp(k, N, CountTerms(other, d, N)),
           x[N] = w[N]
    PROVE  k[N] >= m[N]
<1> DEFINE v(n) == cat[d[n]].value
<1>1. /\ N \in Nat /\ d \in [1 .. N -> S]
      /\ \A c \in S : cat[c].value \in Nat \ {0}
      /\ \A i, j \in 1 .. N : i < j => v(j) <= v(i)
  BY DEF Ladder, Falling
<1>2. /\ \A n \in 0 .. N : left[n] \in Nat
      /\ \A n \in 1 .. N : coins[d[n]] \in Nat /\ left[n] \in 0 .. v(n) - 1
  BY Leftovers
<1>3. \A n \in 0 .. N : w[n] = total - left[n] /\ left[N] <= left[n]
  BY WorthSoFar
<1>4. \A n \in 1 .. N : other[d[n]] \in Nat /\ v(n) \in Nat \ {0}
  BY <1>1
<1>5. \A n \in 0 .. N : x[n] \in Int /\ x[n] <= x[N]
  <2> DEFINE f == WorthTerms(other, d, N, cat)
  <2>1. \A n \in 1 .. N : other[d[n]] * v(n) \in Nat
    BY <1>4
  <2>2. f \in [1 .. N -> Int] /\ \A n \in 1 .. N : f[n] >= 0
    BY <2>1 DEF WorthTerms
  <2>3. SumsUp(x, N, f)
    OBVIOUS
  <2> HIDE DEF f
  <2>4. \A n \in 0 .. N : x[n] <= x[N]
    BY <1>1, <2>2, <2>3, SumsGrow
  <2> QED
    BY <2>3, <2>4 DEF SumsUp
<1>6. \A n \in 0 .. N : w[n] \in Int /\ m[n] \in Int /\ k[n] \in Int
  BY DEF SumsUp
<1>7. w[0] = 0 /\ x[0] = 0 /\ m[0] = 0 /\ k[0] = 0
  BY DEF SumsUp
<1>8. \A n \in 1 .. N : /\ w[n] = w[n - 1] + coins[d[n]] * v(n)
                        /\ x[n] = x[n - 1] + other[d[n]] * v(n)
                        /\ m[n] = m[n - 1] + coins[d[n]]
                        /\ k[n] = k[n - 1] + other[d[n]]
  BY DEF SumsUp, WorthTerms, CountTerms
<1>9. \A i, j \in 1 .. N : i < j => \E q \in Nat \ {0} : v(i) = v(j) * q
  <2> SUFFICES ASSUME NEW i \in 1 .. N, NEW j \in 1 .. N, i < j
               PROVE  \E q \in Nat \ {0} : v(i) = v(j) * q
    OBVIOUS
  <2> DEFINE a == v(j)
             b == v(i)
  <2>1. a \in Nat \ {0} /\ b \in Nat \ {0} /\ a <= b
    BY <1>1, <1>4
  <2>2. Divides(a, b) \/ Divides(b, a)
    <3>1. d[i] \in S /\ d[j] \in S
      BY <1>1
    <3> QED
      BY <3>1
  <2> HIDE DEF a, b
  <2>3. \E q \in Nat \ {0} : b = a * q
    BY <2>1, <2>2, LargerIsMultiple
  <2> QED
    BY <2>3 DEF a, b
<1> HIDE DEF v
<1> DEFINE Short(n, t) == x[n] - w[n] = t * v(n) /\ t <= 0 /\ k[n] - m[n] >= t
           B == {n \in 0 .. N : n = 0 \/ \E t \in Int : Short(n, t)}
\* A multiple of the ratio by which the other coins are ahead is at most 0.
<1>10. ASSUME NEW n \in 1 .. N, NEW t \in Int, x[n] - w[n] = t * v(n)
       PROVE  t <= 0
  <2>1. n \in 0 .. N /\ N \in 0 .. N
    BY <1>1
  <2>2. /\ x[n] \in Int /\ x[n] <= x[N] /\ x[N] \in Int /\ w[n] \in Int
        /\ w[n] = total - left[n] /\ w[N] = total - left[N]
        /\ left[n] \in Nat /\ left[N] \in Nat /\ left[n] \in 0 .. v(n) - 1
        /\ v(n) \in Nat \ {0}
    BY <1>2, <1>3, <1>4, <1>5, <1>6, <2>1
  <2>3. x[n] - w[n] < v(n)
    BY <2>2
  <2>4. t * v(n) < v(n)
    BY <1>10, <2>3
  <2> QED
    BY <2>2, <2>4, MultipleBelow
<1>11. \A n \in 0 .. N : n \in B
  <2>1. 0 \in B
    BY <1>1
  <2>2. ASSUME NEW n \in 0 .. N - 1, n \in B PROVE n + 1 \in B
    <3> DEFINE o == other[d[n + 1]]
               u == coins[d[n + 1]]
               y == v(n + 1)
    <3>1. n + 1 \in 1 .. N /\ (n + 1) - 1 = n /\ n \in 0 .. N /\ n + 1 \in 0 .. N /\ n \in Nat
      BY <1>1
    <3>2. o \in Nat /\ u \in Nat /\ y \in Nat \ {0}
      BY <1>2, <1>4, <3>1
    <3>3. /\ w[n + 1] = w[n] + u * y /\ x[n + 1] = x[n] + o * y
          /\ m[n + 1] = m[n] + u /\ k[n + 1] = k[n] + o
      BY <1>8, <3>1
    <3>4. w[n] \in Int /\ x[n] \in Int /\ m[n] \in Int /\ k[n] \in Int
      BY <1>5, <1>6, <3>1
    <3> HIDE DEF o, u, y
    <3>5. x[n + 1] - w[n + 1] = (x[n] - w[n]) + (o - u) * y
      <4>1. (o - u) * y = o * y - u * y /\ o * y \in Int /\ u * y \in Int
        BY <3>2
      <4> QED
        BY <3>3, <3>4, <4>1
    <3>6. k[n + 1] - m[n + 1] = (k[n] - m[n]) + (o - u)
      BY <3>2, <3>3, <3>4
    <3>7. \E t \in Int : x[n + 1] - w[n + 1] = t * y /\ k[n + 1] - m[n + 1] >= t
      <4>1. CASE n = 0
        <5>1. x[n + 1] - w[n + 1] = (o - u) * y /\ k[n + 1] - m[n + 1] = o - u
          <6>1. (o - u) * y \in Int
            BY <3>2
          <6> QED
            BY <1>7, <3>2, <3>5, <3>6, <4>1, <6>1
        <5> QED
          BY <3>2, <5>1
      <4>2. CASE n # 0
        <5>1. n \in 1 .. N /\ n < n + 1
          BY <3>1, <4>2
        <5>2. PICK t \in Int : Short(n, t)
          BY <2>2, <4>2
        <5>3. PICK q \in Nat \ {0} : v(n) = y * q
          BY <1>9, <3>1, <5>1 DEF y
        <5>4. x[n] - w[n] = t * (y * q) /\ t <= 0 /\ k[n] - m[n] >= t
          BY <5>2, <5>3
        <5> DEFINE z == t * q + (o - u)
        <5>5. z \in Int
          BY <3>2
        <5>6. x[n + 1] - w[n + 1] = z * y
          <6>1. z * y = t * (y * q) + (o - u) * y
            BY <3>2
          <6> QED
            BY <3>5, <5>4, <6>1
        <5>7. t * q <= t
          <6>1. q - 1 \in Nat /\ t * q = t * (q - 1) + t
            OBVIOUS
          <6>2. t * (q - 1) <= 0
            <7>1. -t \in Nat /\ t * (q - 1) = -((-t) * (q - 1))
              BY <5>4, <6>1
            <7>2. (-t) * (q - 1) \in Nat
              BY <6>1, <7>1
            <7> QED
              BY <7>1, <7>2
          <6>3. t * (q - 1) \in Int
            BY <6>1
          <6> QED
            BY <6>1, <6>2, <6>3
        <5>8. k[n + 1] - m[n + 1] >= z
          <6>1. t * q \in Int
            OBVIOUS
          <6> QED
            BY <3>2, <3>4, <3>6, <5>4, <5>7, <6>1
        <5> HIDE DEF z
        <5> QED
          BY <5>5, <5>6, <5>8
      <4> QED
        BY <4>1, <4>2
    <3>8. PICK t \in Int : x[n + 1] - w[n + 1] = t * y /\ k[n + 1] - m[n + 1] >= t
      BY <3>7
    <3>9. t <= 0
      BY <1>10, <3>1, <3>8 DEF y
    <3>10. Short(n + 1, t)
      BY <3>8, <3>9 DEF y
    <3> HIDE DEF Short
    <3> QED
      BY <3>1, <3>10
  <2> HIDE DEF B
  <2> QED
    BY <1>1, <2>1, <2>2, UpTo
<1>12. N \in 0 .. N /\ N \in B
  BY <1>1, <1>11
<1>13. CASE N = 0
  BY <1>7, <1>13
<1>14. CASE N # 0
  <2>1. PICK t \in Int : Short(N, t)
    BY <1>12, <1>14
  <2>2. N \in 1 .. N /\ v(N) \in Nat \ {0}
    BY <1>1, <1>4, <1>14
  <2>3. t * v(N) = 0
    BY <1>5, <1>6, <1>12, <2>1
  <2>4. t = 0
    BY <2>2, <2>3
  <2> QED
    BY <1>6, <1>12, <2>1, <2>4
<1> QED
  BY <1>13, <1>14

-----------------------------------------------------------------------------
(* Exact answers *)

TrueWorthIn(purse, cat) ==
    Total([j \in DOMAIN purse |-> purse[j].amount * cat[purse[j].code].value])
WorthIn(coins, cat) ==
    Total([j \in DOMAIN DescendingIn(cat) |->
              coins[DescendingIn(cat)[j]] * cat[DescendingIn(cat)[j]].value])
CountIn(coins, cat) == Total([j \in DOMAIN DescendingIn(cat) |-> coins[DescendingIn(cat)[j]]])

ConvertedIn(r, cat) ==
    /\ r.whole * cat[r.target].value + r.remainder = TrueWorthIn(r.purse, cat)
    /\ r.remainder \in 0 .. cat[r.target].value - 1
FairIn(cat) ==
    \A c, d \in CurrenciesIn(cat) : \/ Divides(cat[c].value, cat[d].value)
                                    \/ Divides(cat[d].value, cat[c].value)
FewestIn(r, cat) ==
    /\ \A c \in CurrenciesIn(cat) :
            TrueWorthIn(r.purse, cat) - WorthIn(r.coins, cat) \in 0 .. cat[c].value - 1
    /\ FairIn(cat) => \A coins \in [CurrenciesIn(cat) -> 0 .. CountIn(r.coins, cat)] :
            WorthIn(coins, cat) = WorthIn(r.coins, cat)
                => CountIn(coins, cat) >= CountIn(r.coins, cat)
ExactIn(r, cat) ==
    r # NoReply =>
        (TrueWorthIn(r.purse, cat) < Half =>
            IF r.kind = "convert" THEN ConvertedIn(r, cat) ELSE FewestIn(r, cat))

LEMMA SumsRead ==
    ASSUME NEW cat, cat = catalog
    PROVE  /\ \A purse : TrueWorth(purse) = TrueWorthIn(purse, cat)
           /\ \A coins : Worth(coins) = WorthIn(coins, cat)
           /\ \A coins : Count(coins) = CountIn(coins, cat)
<1>1. ASSUME NEW purse PROVE TrueWorth(purse) = TrueWorthIn(purse, cat)
  BY DEF TrueWorth, TrueWorthIn, ratio
<1>2. ASSUME NEW coins PROVE Worth(coins) = WorthIn(coins, cat)
  <2> DEFINE d == DescendingIn(cat)
  <2>1. Descending = d
    BY CatalogRead
  <2> HIDE DEF d
  <2>2. Worth(coins) = Total([j \in DOMAIN d |-> coins[d[j]] * cat[d[j]].value])
    BY <2>1 DEF Worth, ratio
  <2> QED
    BY <2>2 DEF WorthIn, d
<1>3. ASSUME NEW coins PROVE Count(coins) = CountIn(coins, cat)
  <2> DEFINE d == DescendingIn(cat)
  <2>1. Descending = d
    BY CatalogRead
  <2> HIDE DEF d
  <2>2. Count(coins) = Total([j \in DOMAIN d |-> coins[d[j]]])
    BY <2>1 DEF Count
  <2> QED
    BY <2>2 DEF CountIn, d
<1> QED
  BY <1>1, <1>2, <1>3

LEMMA AnswersRead == AnswersExact <=> ExactIn(reply, catalog)
<1>1. PICK cat : cat = catalog
  OBVIOUS
<1>2. Currencies = CurrenciesIn(cat)
  BY <1>1, CatalogRead
<1>3. /\ \A purse : TrueWorth(purse) = TrueWorthIn(purse, cat)
      /\ \A coins : Worth(coins) = WorthIn(coins, cat)
      /\ \A coins : Count(coins) = CountIn(coins, cat)
  BY <1>1, SumsRead
<1>4. \A c : ratio(c) = cat[c].value
  BY <1>1 DEF ratio
<1>5. ExactConversion <=> ConvertedIn(reply, cat)
  BY <1>3, <1>4 DEF ExactConversion, ConvertedIn
<1>6. FewestCoins <=> FewestIn(reply, cat)
  BY <1>2, <1>3, <1>4 DEF FewestCoins, FewestIn, FairIn
<1>7. AnswersExact <=> ExactIn(reply, cat)
  BY <1>3, <1>5, <1>6 DEF AnswersExact, ExactIn
<1> QED
  BY <1>1, <1>7

\* The sum the code has computed for a purse.
HasBase(total, purse, cat) ==
    \E p : Along(p, Len(purse), Int, 0, BaseF(purse, cat)) /\ total = p[Len(purse)]

LEMMA BaseInt ==
    ASSUME NEW purse, NEW cat, Fine(purse, cat), NEW total, HasBase(total, purse, cat)
    PROVE  total \in Int
<1>1. Len(purse) \in Nat
  BY DEF Fine
<1>2. Len(purse) \in 0 .. Len(purse)
  BY <1>1
<1> QED
  BY <1>2 DEF HasBase, Along

LEMMA BaseTrue ==
    ASSUME NEW purse, NEW cat, Fine(purse, cat), NEW total, HasBase(total, purse, cat),
           TrueWorthIn(purse, cat) < Half
    PROVE  total = TrueWorthIn(purse, cat) /\ total \in Nat
<1> DEFINE N == Len(purse)
           f == Terms(purse, cat)
<1>1. N \in Nat /\ DOMAIN purse = 1 .. N
  BY DEF Fine
<1>2. f \in [1 .. N -> Int]
  BY AddsNat DEF Terms
<1>3. TrueWorthIn(purse, cat) = Total(f)
  BY <1>1 DEF TrueWorthIn, Terms, Adds
<1>4. PICK q : SumsUp(q, N, f) /\ Total(f) = q[N]
  <2> HIDE DEF f, N
  <2> QED
    BY <1>1, <1>2, TotalAlong
<1>5. PICK p : Along(p, N, Int, 0, BaseF(purse, cat)) /\ total = p[N]
  BY DEF HasBase
<1>6. p[N] = q[N] /\ q[N] \in Nat
  BY <1>3, <1>4, <1>5, BaseIsTrue
<1> QED
  BY <1>3, <1>4, <1>5, <1>6

LEMMA ConvertExact ==
    ASSUME NEW cat, Rated(cat), NEW purse, Fine(purse, cat),
           NEW total, HasBase(total, purse, cat), NEW c \in CurrenciesIn(cat),
           NEW r, r.kind = "convert", r.purse = purse, r.target = c,
           r.whole = Quotient(total, cat[c].value),
           r.remainder = total - Quotient(total, cat[c].value) * cat[c].value
    PROVE  ExactIn(r, cat)
<1> SUFFICES ASSUME TrueWorthIn(purse, cat) < Half
             PROVE  ConvertedIn(r, cat)
  BY DEF ExactIn
<1> DEFINE v == cat[c].value
           q == Quotient(total, v)
<1>1. v \in Nat \ {0}
  BY RatedPrices DEF Priced
<1>2. total = TrueWorthIn(purse, cat) /\ total \in Nat
  BY BaseTrue
<1> HIDE DEF v
<1>3. q \in Nat /\ total - q * v \in 0 .. v - 1
  BY <1>1, <1>2, QuotientRest
<1>4. q * v \in Int
  BY <1>1, <1>3
<1> HIDE DEF q
<1>5. q * v + (total - q * v) = total
  BY <1>2, <1>4
<1> QED
  BY <1>2, <1>3, <1>5 DEF ConvertedIn, v, q

LEMMA SimplifyExact ==
    ASSUME NEW cat, Rated(cat), NEW purse, Fine(purse, cat),
           NEW total, HasBase(total, purse, cat), NEW left,
           NEW r, r.kind = "simplify", r.purse = purse,
           Broken(r.coins, left, total, DescendingIn(cat), Len(DescendingIn(cat)),
                  CurrenciesIn(cat), cat)
    PROVE  ExactIn(r, cat)
<1> SUFFICES ASSUME TrueWorthIn(purse, cat) < Half
             PROVE  FewestIn(r, cat)
  BY DEF ExactIn
<1> DEFINE S == CurrenciesIn(cat)
           d == DescendingIn(cat)
           N == Len(d)
           coins == r.coins
<1>1. total = TrueWorthIn(purse, cat) /\ total \in Nat
  BY BaseTrue
<1>2. Ladder(d, N, S, cat) /\ Broken(coins, left, total, d, N, S, cat)
  BY Descends, RatedPrices DEF Ladder, Priced
<1>3. /\ N \in Nat /\ DOMAIN d = 1 .. N /\ d \in [1 .. N -> S]
      /\ \A c \in S : cat[c].value \in Nat \ {0}
  BY <1>2 DEF Ladder, Falling
<1>4. \A other : /\ WorthIn(other, cat) = Total(WorthTerms(other, d, N, cat))
                 /\ CountIn(other, cat) = Total(CountTerms(other, d, N))
  BY <1>3 DEF WorthIn, CountIn, WorthTerms, CountTerms
<1> HIDE DEF S, d, N
<1>5. ASSUME NEW other \in [S -> Int]
      PROVE  /\ \E w : SumsUp(w, N, WorthTerms(other, d, N, cat))
                        /\ WorthIn(other, cat) = w[N]
             /\ \E m : SumsUp(m, N, CountTerms(other, d, N)) /\ CountIn(other, cat) = m[N]
  <2> DEFINE f == WorthTerms(other, d, N, cat)
             g == CountTerms(other, d, N)
  <2>1. \A j \in 1 .. N : other[d[j]] \in Int /\ cat[d[j]].value \in Int
    BY <1>3
  <2>2. f \in [1 .. N -> Int] /\ g \in [1 .. N -> Int]
    BY <2>1 DEF WorthTerms, CountTerms
  <2>3. WorthIn(other, cat) = Total(f) /\ CountIn(other, cat) = Total(g)
    BY <1>4
  <2> HIDE DEF f, g
  <2>4. (\E w : SumsUp(w, N, f) /\ Total(f) = w[N]) /\ (\E m : SumsUp(m, N, g) /\ Total(g) = m[N])
    BY <1>3, <2>2, TotalAlong
  <2> QED
    BY <2>3, <2>4 DEF f, g
<1>6. coins \in [S -> Int]
  BY <1>2 DEF Broken
<1>7. PICK w : SumsUp(w, N, WorthTerms(coins, d, N, cat)) /\ WorthIn(coins, cat) = w[N]
  BY <1>5, <1>6
<1>8. PICK m : SumsUp(m, N, CountTerms(coins, d, N)) /\ CountIn(coins, cat) = m[N]
  BY <1>5, <1>6
<1>9. N \in 0 .. N
  BY <1>3
<1>10. /\ w[N] = total - left[N] /\ left[N] \in Int
       /\ \A c \in S : left[N] \in 0 .. cat[c].value - 1
  <2>1. /\ \A n \in 0 .. N : w[n] = total - left[n] /\ left[N] <= left[n]
        /\ \A c \in S : left[N] \in 0 .. cat[c].value - 1
    BY <1>1, <1>2, <1>7, WorthSoFar
  <2>2. left[N] \in Int
    BY <1>2, <1>9 DEF Broken
  <2> QED
    BY <1>9, <2>1, <2>2
<1>11. \A c \in S : TrueWorthIn(purse, cat) - WorthIn(coins, cat) \in 0 .. cat[c].value - 1
  <2>1. total - w[N] = left[N]
    BY <1>1, <1>10
  <2> QED
    BY <1>1, <1>7, <1>10, <2>1
<1>12. ASSUME FairIn(cat), NEW other \in [S -> 0 .. CountIn(coins, cat)],
              WorthIn(other, cat) = WorthIn(coins, cat)
       PROVE  CountIn(other, cat) >= CountIn(coins, cat)
  <2>0. m[N] \in Int
    BY <1>8, <1>9 DEF SumsUp
  <2>1. other \in [S -> Nat] /\ other \in [S -> Int]
    BY <1>8, <2>0
  <2>2. PICK x : SumsUp(x, N, WorthTerms(other, d, N, cat)) /\ WorthIn(other, cat) = x[N]
    BY <1>5, <2>1
  <2>3. PICK k : SumsUp(k, N, CountTerms(other, d, N)) /\ CountIn(other, cat) = k[N]
    BY <1>5, <2>1
  <2>4. \A c, e \in S : Divides(cat[c].value, cat[e].value) \/ Divides(cat[e].value, cat[c].value)
    BY <1>12 DEF FairIn, S
  <2>5. x[N] = w[N]
    BY <1>7, <1>12, <2>2
  <2>6. k[N] >= m[N]
    BY <1>1, <1>2, <1>7, <1>8, <2>1, <2>2, <2>3, <2>4, <2>5, Fewest
  <2> QED
    BY <1>8, <2>3, <2>6
<1> QED
  BY <1>11, <1>12 DEF FewestIn, S

-----------------------------------------------------------------------------
(* Every answer is exact *)

\* A request that has read sums has read them from rows that are still there.
Sound(r, cat) ==
    /\ r.kind = "create" => r.value > 0
    /\ r.kind = "simplify" => Fine(r.purse, cat) /\ HasBase(r.total, r.purse, cat)

Answering ==
    /\ Rated(catalog)
    /\ mode # "serving" => reply = NoReply /\ \A u \in Users : req[u] = Idle
    /\ \A u \in Users : req[u] # Idle => Sound(req[u], catalog)
    /\ ExactIn(reply, catalog)

\* While requests are served, rows are only added.
Grows(cat, after) == \A k \in Keys : cat[k] # NoRow => after[k] = cat[k]

LEMMA SoundStays ==
    ASSUME NEW cat, NEW after, Grows(cat, after), NEW r, Sound(r, cat)
    PROVE  Sound(r, after)
<1> SUFFICES ASSUME r.kind = "simplify"
             PROVE  Fine(r.purse, after) /\ HasBase(r.total, r.purse, after)
  BY DEF Sound
<1> DEFINE purse == r.purse
<1>1. Fine(purse, cat) /\ HasBase(r.total, purse, cat)
  BY DEF Sound
<1> HIDE DEF purse
<1>2. purse \in Seq(Sum) /\ Codes \subseteq Keys /\ NoRow \notin Row
  BY <1>1, ConstantsAssumption DEF Fine, Keys
<1>3. DOMAIN purse = 1 .. Len(purse)
  BY <1>2
<1>4. ASSUME NEW j \in DOMAIN purse
      PROVE  after[purse[j].code] = cat[purse[j].code] /\ cat[purse[j].code] \in Row
  <2>1. purse[j] \in Sum
    BY <1>2
  <2>2. purse[j].code \in Keys
    BY <1>2, <2>1 DEF Sum
  <2>3. cat[purse[j].code] \in Row
    BY <1>1 DEF Fine
  <2> QED
    BY <1>2, <2>2, <2>3 DEF Grows
<1>5. Fine(purse, after)
  BY <1>2, <1>4 DEF Fine
<1>6. \A j \in 1 .. Len(purse) : Adds(purse, after, j) = Adds(purse, cat, j)
  BY <1>3, <1>4 DEF Adds
<1>7. BaseF(purse, after) = BaseF(purse, cat)
  BY <1>6 DEF BaseF
<1>8. HasBase(r.total, purse, after)
  BY <1>1, <1>7 DEF HasBase
<1> QED
  BY <1>5, <1>8 DEF purse

LEMMA NoAnswer ==
    ASSUME NEW cat
    PROVE  ExactIn(NoReply, cat)
BY DEF ExactIn

\* What requests are about, and what they find.
Asked == [code : Codes, amount : Int]

LEMMA ResolvesFine ==
    ASSUME Typed, NEW purse \in Purses, Resolves(purse)
    PROVE  Fine(purse, catalog) /\ HasBase(baseValue(purse), purse, catalog)
<1>1. purse \in Seq(Asked) /\ Codes \subseteq Keys
  BY ConstantsAssumption DEF Keys, Asked
<1>2. Len(purse) \in Nat /\ DOMAIN purse = 1 .. Len(purse)
  BY <1>1
<1>3. ASSUME NEW j \in DOMAIN purse
      PROVE  purse[j] \in Sum /\ catalog[purse[j].code] \in Row
  <2>1. purse[j] \in Asked
    BY <1>1, <1>3
  <2>2. purse[j].code \in Currencies /\ purse[j].amount >= 0
    BY <1>3 DEF Resolves
  <2>3. purse[j] \in Sum
    BY <2>1, <2>2 DEF Sum, Asked
  <2>4. purse[j].code \in Keys /\ catalog[purse[j].code] # NoRow
    BY <1>1, <2>1, <2>2 DEF Currencies, Asked
  <2> QED
    BY <2>3, <2>4 DEF Typed
<1>4. purse \in [1 .. Len(purse) -> Sum]
  BY <1>1, <1>2, <1>3
<1>5. purse \in Seq(Sum)
  BY <1>2, <1>4
<1>6. Fine(purse, catalog)
  BY <1>3, <1>5 DEF Fine
<1>7. PICK cat : cat = catalog
  OBVIOUS
<1>8. \E p : Along(p, Len(purse), Int, 0, BaseF(purse, cat)) /\ baseValue(purse) = p[Len(purse)]
  BY <1>6, <1>7, BaseAlong
<1> QED
  BY <1>6, <1>7, <1>8 DEF HasBase

\* Steps after which nobody has been answered.
LEMMA UnansweredStep ==
    ASSUME Answering, Rated(catalog'), Grows(catalog, catalog'), reply' = NoReply,
           mode' # "serving" => \A u \in Users : req'[u] = Idle,
           \A u \in Users : req'[u] # Idle => req'[u] = req[u] \/ Sound(req'[u], catalog')
    PROVE  Answering'
<1>1. \A u \in Users : req'[u] # Idle => Sound(req'[u], catalog')
  BY SoundStays DEF Answering
<1>2. ExactIn(reply', catalog')
  BY NoAnswer
<1> QED
  BY <1>1, <1>2 DEF Answering

LEMMA GrowsSelf == Grows(catalog, catalog)
BY DEF Grows

LEMMA ReadsAnswering ==
    ASSUME Typed, Answering, NEW u \in Users, NEW r, Sound(r, catalog), Reads(u, r)
    PROVE  Answering'
<1>1. catalog' = catalog /\ reply' = NoReply /\ mode' = "serving"
      /\ req' = [req EXCEPT ![u] = r] /\ DOMAIN req = Users
  BY DEF Reads, Typed
<1>2. \A v \in Users : req'[v] # Idle => req'[v] = req[v] \/ Sound(req'[v], catalog')
  BY <1>1
<1>3. Rated(catalog') /\ Grows(catalog, catalog')
  BY <1>1, GrowsSelf DEF Answering
<1> QED
  BY <1>1, <1>2, <1>3, UnansweredStep

LEMMA CreateAnswering ==
    ASSUME Typed, Answering, NEW u \in Users, Create(u)
    PROVE  Answering'
<1> DEFINE key == req[u].key
           value == req[u].value
<1>1. /\ req[u] # Idle /\ mode = "serving" /\ mode' = mode /\ reply' = NoReply
      /\ req' = [req EXCEPT ![u] = Idle] /\ DOMAIN req = Users
      /\ key \in Keys /\ value \in Nat /\ value > 0 /\ catalog' \in Insert(key, value)
  <2>1. req[u] # Idle /\ req[u].kind = "create"
    BY DEF Create, Doing
  <2>2. RequestOK(req[u]) /\ Sound(req[u], catalog)
    BY <2>1 DEF Typed, Answering
  <2> QED
    BY <2>1, <2>2 DEF Create, Writes, Answering, Typed, RequestOK, Sound
<1> HIDE DEF key, value
<1>2. catalog' = catalog \/ (catalog[key] = NoRow /\ Puts(key, value))
  BY <1>1, InsertPuts
<1>3. Grows(catalog, catalog')
  BY <1>2 DEF Grows, Puts
<1>4. Rated(catalog')
  BY <1>1, <1>2 DEF Answering, Rated, Puts
<1>5. \A v \in Users : req'[v] # Idle => req'[v] = req[v]
  BY <1>1
<1> QED
  BY <1>1, <1>3, <1>4, <1>5, UnansweredStep

LEMMA SimplifyAnswering ==
    ASSUME Typed, Answering, NEW u \in Users, Simplify(u)
    PROVE  Answering'
<1>1. /\ req[u] # Idle /\ req[u].kind = "simplify" /\ mode = "serving"
      /\ DOMAIN req = Users /\ req' = [req EXCEPT ![u] = Idle]
      /\ catalog' = catalog /\ mode' = mode
  BY DEF Simplify, Doing, Answering, Typed
<1>2. PICK cat : cat = catalog
  OBVIOUS
<1>3. PICK r : r = [kind |-> "simplify", purse |-> req[u].purse,
                    coins |-> Breakdown(req[u].total).coins]
  OBVIOUS
<1>4. PICK purse : purse = req[u].purse
  OBVIOUS
<1>5. PICK total : total = req[u].total
  OBVIOUS
<1>6. Rated(cat) /\ Fine(purse, cat) /\ HasBase(total, purse, cat)
  BY <1>1, <1>2, <1>4, <1>5 DEF Answering, Sound
<1>7. total \in Int
  BY <1>6, BaseInt
<1>8. PICK left : Broken(Breakdown(total).coins, left, total, DescendingIn(cat),
                         Len(DescendingIn(cat)), CurrenciesIn(cat), cat)
  BY <1>2, <1>6, <1>7, BreaksDown
<1>9. r.kind = "simplify" /\ r.purse = purse /\ r.coins = Breakdown(total).coins
  BY <1>3, <1>4, <1>5
<1>10. ExactIn(r, cat)
  BY <1>6, <1>8, <1>9, SimplifyExact
<1>11. reply' = r
  BY <1>3 DEF Simplify
<1>12. \A v \in Users : req'[v] # Idle => Sound(req'[v], catalog')
  BY <1>1 DEF Answering
<1> QED
  BY <1>1, <1>2, <1>6, <1>10, <1>11, <1>12 DEF Answering

LEMMA ConvertAnswering ==
    ASSUME Typed, Answering, NEW u \in Users, NEW purse \in Purses, NEW c \in Codes,
           Convert(u, purse, c)
    PROVE  Answering'
<1>1. PICK cat : cat = catalog
  OBVIOUS
<1>2. PICK total : total = baseValue(purse)
  OBVIOUS
<1>3. /\ mode = "serving" /\ UNCHANGED <<catalog, mode, req>>
      /\ Resolves(purse) /\ c \in Currencies
      /\ reply' = [kind |-> "convert", purse |-> purse, target |-> c,
                   whole |-> Quotient(total, ratio(c)),
                   remainder |-> total - Quotient(total, ratio(c)) * ratio(c), base |-> total]
  BY <1>2 DEF Convert
<1>4. Fine(purse, cat) /\ HasBase(total, purse, cat) /\ Rated(cat)
  BY <1>1, <1>2, <1>3, ResolvesFine DEF Answering
<1>5. c \in CurrenciesIn(cat) /\ ratio(c) = cat[c].value
  BY <1>1, <1>3 DEF Currencies, CurrenciesIn, ratio
<1>6. PICK r : r = reply'
  OBVIOUS
<1>7. /\ r.kind = "convert" /\ r.purse = purse /\ r.target = c
      /\ r.whole = Quotient(total, cat[c].value)
      /\ r.remainder = total - Quotient(total, cat[c].value) * cat[c].value
  BY <1>3, <1>5, <1>6
<1>8. ExactIn(r, cat)
  BY <1>4, <1>5, <1>7, ConvertExact
<1> QED
  BY <1>1, <1>3, <1>6, <1>8 DEF Answering

LEMMA AnsweringStep ==
    ASSUME Typed, Answering, [Next]_vars
    PROVE  Answering'
<1>1. CASE UNCHANGED vars
  BY <1>1 DEF vars, Answering
<1>2. ASSUME NEW f \in Files, Start(f)
      PROVE  Answering'
  BY <1>2 DEF Start, Answering
<1>3. CASE SeedRow
  <2>1. /\ file[next].key \in Keys /\ file[next].value \in Nat
        /\ Puts(file[next].key, file[next].value)
        /\ UNCHANGED <<mode, req>>
    BY <1>3, SeedRowPuts
  <2>2. mode = "seeding" /\ file[next].value > 0 /\ reply' = reply
    BY <1>3 DEF SeedRow, Valid
  <2>3. Rated(catalog')
    BY <2>1, <2>2 DEF Rated, Answering, Puts
  <2>4. reply' = NoReply /\ \A u \in Users : req'[u] = Idle
    BY <2>1, <2>2 DEF Answering
  <2> QED
    BY <2>3, <2>4, NoAnswer DEF Answering
<1>4. CASE SeedFails \/ Serve \/ Crash
  <2>1. catalog' = catalog /\ reply' = NoReply
    BY <1>4 DEF SeedFails, Serve, Crash, Answering
  <2>2. \A u \in Users : req'[u] = Idle
    BY <1>4 DEF SeedFails, Serve, Crash, Answering
  <2> QED
    BY <2>1, <2>2, NoAnswer DEF Answering
<1>5. ASSUME NEW u \in Users, NEW key \in Keys, NEW v \in Nat, ReadCreate(u, key, v)
      PROVE  Answering'
  <2>1. Sound([kind |-> "create", key |-> key, value |-> v], catalog)
    BY <1>5 DEF ReadCreate, Sound
  <2> QED
    BY <1>5, <2>1, ReadsAnswering DEF ReadCreate
<1>6. ASSUME NEW u \in Users, NEW o \in Owners, NEW i \in Ids, NEW a \in Amounts,
             ReadMoney(u, o, i, a)
      PROVE  Answering'
  <2>1. Sound([kind |-> "money", owner |-> o, currency |-> i, amount |-> a,
               row |-> BalanceOf(o, i)], catalog)
    BY DEF Sound
  <2> QED
    BY <1>6, <2>1, ReadsAnswering DEF ReadMoney
<1>7. ASSUME NEW u \in Users, NEW purse \in Purses, ReadSimplify(u, purse)
      PROVE  Answering'
  <2>1. Sound([kind |-> "simplify", purse |-> purse, total |-> baseValue(purse)], catalog)
    BY <1>7, ResolvesFine DEF ReadSimplify, Sound
  <2> QED
    BY <1>7, <2>1, ReadsAnswering DEF ReadSimplify
<1>8. ASSUME NEW u \in Users, SetMoney(u)
      PROVE  Answering'
  <2>1. /\ catalog' = catalog /\ mode' = mode /\ reply' = NoReply /\ req[u] # Idle
        /\ req' = [req EXCEPT ![u] = Idle] /\ DOMAIN req = Users
    BY <1>8 DEF SetMoney, Writes, Doing, Typed
  <2>2. Rated(catalog') /\ Grows(catalog, catalog') /\ mode' = "serving"
    BY <2>1, GrowsSelf DEF Answering
  <2>3. \A v \in Users : req'[v] # Idle => req'[v] = req[v]
    BY <2>1
  <2> QED
    BY <2>1, <2>2, <2>3, UnansweredStep
<1> QED
  BY <1>1, <1>2, <1>3, <1>4, <1>5, <1>6, <1>7, <1>8, CreateAnswering, SimplifyAnswering,
     ConvertAnswering, ConstantsAssumption DEF Next, Keys

\* Whatever the catalog, the purses and the width of integers, an answer of
\* Convert is exact and one of Simplify leaves less than the smallest currency,
\* in the fewest coins where ratios divide one another, unless the sum does
\* not fit; requests of others may add currencies between the sum and the
\* breakdown (catalog.go, Convert and Simplify).
THEOREM AnswersAlwaysExact == Spec => []AnswersExact
<1>1. Init => Answering
  BY NoAnswer DEF Init, Answering, Rated
<1>2. Typed /\ Answering /\ [Next]_vars => Typed' /\ Answering'
  BY TypedStep, AnsweringStep
<1>3. Answering => AnswersExact
  BY AnswersRead DEF Answering
<1> QED
  BY <1>1, <1>2, <1>3, TypedInit, PTL DEF Spec

=============================================================================
