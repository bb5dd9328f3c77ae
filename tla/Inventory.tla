------------------------------ MODULE Inventory ------------------------------
(***************************************************************************)
(* The inventories of characters, groups and locations: item lines and the *)
(* requests that add, change, remove and move them concurrently.           *)
(*                                                                         *)
(* A request that works on an existing line reads and checks it outside    *)
(* any transaction; the repository writes the line, and the activity       *)
(* entries, inside one.  Other requests may commit in between.             *)
(*                                                                         *)
(* Who may use which inventory (Access) does not change here.              *)
(***************************************************************************)
EXTENDS Integers, FiniteSets, Functions

CONSTANTS
    Users, GMs,
    Characters, Groups, Locations,  \* the owners of inventories
    Access,         \* Access[u]: the inventories user u may use without being a GM
    Names,          \* a line's name with its catalog reference: what makes lines match
    LineIds,        \* identifiers of lines (uuid)
    NoLine, Idle,
    MaxQuantity,    \* bound: units in one line
    MaxInFlight     \* bound: requests being served at the same time

Owners == Characters \cup Groups \cup Locations

\* Inventories whose changes are recorded; a character's own are private.
Shared == Groups \cup Locations

Line == [owner: Owners, name: Names, qty: Nat]

ASSUME ConstantsAssumption ==
    /\ GMs \subseteq Users
    /\ Characters \cap Shared = {}
    /\ Access \in [Users -> SUBSET Owners]
    /\ IsFiniteSet(Users) /\ IsFiniteSet(LineIds)
    /\ NoLine \notin Line
    /\ MaxQuantity \in Nat
    /\ MaxInFlight \in Nat

VARIABLES
    lines,  \* lines[i]: the row of line i; a soft-deleted row is NoLine, as no read sees it
    news,   \* the activity entries the last transaction wrote
    req     \* req[u]: the request of user u that has read a line and not yet committed

vars == <<lines, news, req>>

-----------------------------------------------------------------------------

requireOwnerAccess(u, o) == u \in GMs \/ o \in Access[u]

\* A move needs access to both ends and two different inventories.
MoveAccessSourceOnly(u, source, target) ==
    requireOwnerAccess(u, source) /\ target # source
MoveAccess(u, source, target) ==
    requireOwnerAccess(u, source) /\ target # source /\ requireOwnerAccess(u, target)

\* inventoryEntry: changes of private inventories are not recorded.
inventoryEntryGroupsOnly(o, action) ==
    {[scope |-> g, action |-> action] : g \in Groups \cap {o}}
inventoryEntryPrivateToo(o, action) == {[scope |-> o, action |-> action]}
inventoryEntry(o, action) ==
    {[scope |-> g, action |-> action] : g \in Shared \cap {o}}

Entries == [scope: Shared, action: {"added", "updated", "removed"}]

\* findMatch: lines of the target the moved units can merge into.
AnyNameMatches(target, source) ==
    {m \in LineIds : lines[m] # NoLine /\ lines[m].owner = target}
findMatch(target, source) ==
    {m \in LineIds : /\ lines[m] # NoLine
                     /\ lines[m].owner = target
                     /\ lines[m].name = source.name}

\* drainSource, on the table ls: the source row as it was read, less the moved
\* units, is saved, or the row is deleted when none are left.
drainSourceNever(ls, i, source, q) == ls
drainSourceByOneTooMany(ls, i, source, q) ==
    [ls EXCEPT ![i] = [source EXCEPT !.qty = @ - q]]
drainSource(ls, i, source, q) ==
    [ls EXCEPT ![i] = IF q = source.qty THEN NoLine ELSE [source EXCEPT !.qty = @ - q]]

\* Identifiers no live line has, nor any request in flight refers to.
Fresh == {i \in LineIds : /\ lines[i] = NoLine
                          /\ \A u \in Users : req[u] # Idle => req[u].line # i}

-----------------------------------------------------------------------------
(* Requests: the line as read, the row an update will save, and where to and *)
(* how much a move takes.                                                    *)

Request(kind, i, row, target, q) ==
    [kind |-> kind, line |-> i, read |-> lines[i], row |-> row, target |-> target, qty |-> q]

IsRequest(r) ==
    /\ r.kind \in {"update", "remove", "move"}
    /\ r.line \in LineIds /\ r.read \in Line /\ r.row \in Line
    /\ r.target \in Owners /\ r.qty \in Nat

Init ==
    /\ lines = [i \in LineIds |-> NoLine]
    /\ news = {}
    /\ req = [u \in Users |-> Idle]

MayRead(u, i) ==
    /\ req[u] = Idle
    /\ Cardinality({v \in Users : req[v] # Idle}) < MaxInFlight
    /\ lines[i] # NoLine

Reads(u, r) ==
    /\ req' = [req EXCEPT ![u] = r]
    /\ UNCHANGED <<lines, news>>

\* AddItem.
AddItem(u, o, n, q) ==
    /\ req[u] = Idle
    /\ requireOwnerAccess(u, o)
    /\ \E i \in Fresh : lines' = [lines EXCEPT ![i] = [owner |-> o, name |-> n, qty |-> q]]
    /\ news' = inventoryEntry(o, "added")
    /\ UNCHANGED req

\* UpdateItem up to its transaction; the line is addressed through its owner.
ReadUpdate(u, i, n, q) ==
    /\ MayRead(u, i)
    /\ requireOwnerAccess(u, lines[i].owner)
    /\ Reads(u, Request("update", i, [lines[i] EXCEPT !.name = n, !.qty = q],
                        lines[i].owner, 0))

\* RemoveItem up to its transaction.
ReadRemove(u, i) ==
    /\ MayRead(u, i)
    /\ requireOwnerAccess(u, lines[i].owner)
    /\ Reads(u, Request("remove", i, lines[i], lines[i].owner, 0))

\* MoveItem up to its transaction.
ReadMove(u, i, target, q) ==
    /\ MayRead(u, i)
    /\ MoveAccess(u, lines[i].owner, target)
    /\ q <= lines[i].qty
    /\ Reads(u, Request("move", i, lines[i], target, q))

Doing(u, kind) == req[u] # Idle /\ req[u].kind = kind

Done(u) == req' = [req EXCEPT ![u] = Idle]

\* InventoryItems.Update: every column of the row is saved, and a row deleted
\* since it was read is inserted again.
CommitUpdate(u) ==
    LET r == req[u] IN
    /\ Doing(u, "update")
    /\ lines' = [lines EXCEPT ![r.line] = r.row]
    /\ news' = inventoryEntry(r.read.owner, "updated")
    /\ Done(u)

\* InventoryItems.Delete.
CommitRemove(u) ==
    LET r == req[u] IN
    /\ Doing(u, "remove")
    /\ lines' = [lines EXCEPT ![r.line] = NoLine]
    /\ news' = inventoryEntry(r.read.owner, "removed")
    /\ Done(u)

\* InventoryItems.Move: merge into a matching line, or re-own the whole line,
\* or split off a new one.
CommitMove(u) ==
    LET r       == req[u]
        matches == findMatch(r.target, r.read)
    IN
    /\ Doing(u, "move")
    /\ \/ \E m \in matches :
            /\ lines[m].qty + r.qty <= MaxQuantity
            /\ lines' = drainSource([lines EXCEPT ![m].qty = @ + r.qty], r.line, r.read, r.qty)
       \/ /\ matches = {} /\ r.qty = r.read.qty
          /\ lines' = [lines EXCEPT ![r.line] = [r.read EXCEPT !.owner = r.target]]
       \/ /\ matches = {} /\ r.qty # r.read.qty
          /\ \E i \in Fresh :
                lines' = drainSource(
                    [lines EXCEPT ![i] = [owner |-> r.target, name |-> r.read.name, qty |-> r.qty]],
                    r.line, r.read, r.qty)
    /\ news' = inventoryEntry(r.read.owner, "removed") \cup inventoryEntry(r.target, "added")
    /\ Done(u)

\* An error answer, a rolled-back transaction or a process that stops.
Abandon(u) ==
    /\ req[u] # Idle
    /\ Done(u)
    /\ UNCHANGED <<lines, news>>

Commit(u) == CommitUpdate(u) \/ CommitRemove(u) \/ CommitMove(u)

Next ==
    \E u \in Users :
        \/ \E o \in Owners, n \in Names, q \in 1 .. MaxQuantity : AddItem(u, o, n, q)
        \/ \E i \in LineIds :
            \/ \E n \in Names, q \in 1 .. MaxQuantity : ReadUpdate(u, i, n, q)
            \/ ReadRemove(u, i)
            \/ \E o \in Owners, q \in 1 .. MaxQuantity : ReadMove(u, i, o, q)
        \/ CommitUpdate(u)
        \/ CommitRemove(u)
        \/ CommitMove(u)
        \/ Abandon(u)

Spec == Init /\ [][Next]_vars

-----------------------------------------------------------------------------
(* Properties *)

\* Lines, entries and requests in flight have their shape.
TypeOK ==
    /\ lines \in [LineIds -> Line \cup {NoLine}]
    /\ news \subseteq Entries
    /\ DOMAIN req = Users /\ \A u \in Users : req[u] # Idle => IsRequest(req[u])

\* The lines of one inventory.
Contents(o) ==
    [i \in {j \in LineIds : lines[j] # NoLine /\ lines[j].owner = o} |-> lines[i]]

\* The units of n in the inventory of o.
Held(o, n) ==
    LET mine == {i \in LineIds : lines[i] # NoLine /\ lines[i].owner = o /\ lines[i].name = n}
    IN  FoldFunctionOnSet(LAMBDA line, sum : line.qty + sum, 0, lines, mine)

Total(n) ==
    LET all == {i \in LineIds : lines[i] # NoLine /\ lines[i].name = n}
    IN  FoldFunctionOnSet(LAMBDA line, sum : line.qty + sum, 0, lines, all)

\* No line is ever empty: a move that takes everything deletes or re-owns the
\* line, and the bound checked on the line as read is the one that is used.
NoEmptyLine == \A i \in LineIds : lines[i] # NoLine => lines[i].qty >= 1

\* A move neither creates nor loses units of anything.
MoveConserves ==
    [][\A u \in Users, n \in Names : CommitMove(u) => Total(n)' = Total(n)]_vars

\* Nobody's request changes an inventory that user may not use.
OnlyWithAccess ==
    [][\A u \in Users \ GMs, o \in Owners :
        Commit(u) /\ o \notin Access[u] => Contents(o)' = Contents(o)]_vars

\* A shared inventory changes exactly when a transaction records an entry for
\* it; an "updated" entry may record an edit that changed nothing.
EntriesMatchChanges ==
    [][\A o \in Shared :
        /\ Contents(o)' # Contents(o) => \E e \in news' : e.scope = o
        /\ \A u \in Users :
             CommitRemove(u) \/ CommitMove(u) =>
                (\A e \in news' : e.scope = o => Contents(o)' # Contents(o))]_vars

\* A move of a line nobody touched since it was read takes the asked units
\* from its inventory, gives them to the target and changes nothing else.
FreshMoveIsExact ==
    [][\A u \in Users, o \in Owners, n \in Names :
        CommitMove(u) /\ lines[req[u].line] = req[u].read =>
            Held(o, n)' = Held(o, n)
                + (IF o = req[u].target /\ n = req[u].read.name THEN req[u].qty ELSE 0)
                - (IF o = req[u].read.owner /\ n = req[u].read.name THEN req[u].qty ELSE 0)]_vars

\* Requests served one at a time implement the ledger of units.
held == [o \in Owners |-> [n \in Names |-> Held(o, n)]]
L == INSTANCE Ledger
KeepsLedger == L!Spec

=============================================================================
