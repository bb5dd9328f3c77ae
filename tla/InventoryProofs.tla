--------------------------- MODULE InventoryProofs ---------------------------
(***************************************************************************)
(* Theorems about the inventories, for any users, owners, lines, names and *)
(* quantities: what holds whatever the interleaving, and what holds when   *)
(* one request at a time works on the lines.                               *)
(***************************************************************************)
EXTENDS Inventory, FiniteSetTheorems, WellFoundedInduction, TLAPS

-----------------------------------------------------------------------------
(* Types and quantities, whatever the interleaving *)

\* What MoveItem and UpdateItem have checked of a request in flight.
Checked(u, r) ==
    /\ IsRequest(r)
    /\ r.read.qty >= 1 /\ r.row.qty >= 1
    /\ r.row.owner = r.read.owner
    /\ requireOwnerAccess(u, r.read.owner)
    /\ requireOwnerAccess(u, r.target)
    /\ r.kind = "move" => r.qty \in 1 .. r.read.qty /\ r.target # r.read.owner

IInv ==
    /\ TypeOK
    /\ NoEmptyLine
    /\ \A u \in Users : req[u] # Idle => Checked(u, req[u])

\* Entries name shared inventories only.
LEMMA EntriesTyped ==
    ASSUME NEW o, NEW a \in {"added", "updated", "removed"}
    PROVE  inventoryEntry(o, a) \subseteq Entries
BY DEF inventoryEntry, Entries

\* A table in which one line is replaced by a full line or by none.
LEMMA PutTyped ==
    ASSUME NEW ls \in [LineIds -> Line \cup {NoLine}],
           \A i \in LineIds : ls[i] # NoLine => ls[i].qty >= 1,
           NEW i \in LineIds, NEW x \in Line \cup {NoLine},
           x # NoLine => x.qty >= 1
    PROVE  /\ [ls EXCEPT ![i] = x] \in [LineIds -> Line \cup {NoLine}]
           /\ \A j \in LineIds : [ls EXCEPT ![i] = x][j] # NoLine
                                    => [ls EXCEPT ![i] = x][j].qty >= 1
OBVIOUS

\* Draining keeps the table well formed: what remains of the line is not empty.
LEMMA DrainTyped ==
    ASSUME NEW ls \in [LineIds -> Line \cup {NoLine}],
           \A i \in LineIds : ls[i] # NoLine => ls[i].qty >= 1,
           NEW i \in LineIds, NEW source \in Line, NEW q \in 1 .. source.qty
    PROVE  /\ drainSource(ls, i, source, q) \in [LineIds -> Line \cup {NoLine}]
           /\ \A j \in LineIds : drainSource(ls, i, source, q)[j] # NoLine
                                    => drainSource(ls, i, source, q)[j].qty >= 1
<1>1. CASE q = source.qty
  BY <1>1, PutTyped DEF drainSource
<1>2. CASE q # source.qty
  <2> DEFINE x == [source EXCEPT !.qty = @ - q]
  <2>1. x \in Line /\ x.qty >= 1
    BY <1>2 DEF Line
  <2> HIDE DEF x
  <2>2. [ls EXCEPT ![i] = x] \in [LineIds -> Line \cup {NoLine}]
        /\ \A j \in LineIds : [ls EXCEPT ![i] = x][j] # NoLine
                                    => [ls EXCEPT ![i] = x][j].qty >= 1
    BY <2>1, PutTyped
  <2> QED
    BY <2>2, <1>2 DEF drainSource, x
<1> QED
  BY <1>1, <1>2

\* A request that has just been checked is recorded.
LEMMA ReadsKeep ==
    ASSUME IInv, NEW u \in Users, NEW r, Checked(u, r), Reads(u, r)
    PROVE  IInv'
<1>1. TypeOK'
  BY DEF IInv, TypeOK, Reads, Checked
<1>2. NoEmptyLine'
  BY DEF IInv, NoEmptyLine, Reads
<1>3. (\A v \in Users : req[v] # Idle => Checked(v, req[v]))'
  BY DEF IInv, TypeOK, Reads, Checked, IsRequest, requireOwnerAccess
<1> QED
  BY <1>1, <1>2, <1>3 DEF IInv

\* A request ends with a well-formed table and well-formed entries.
LEMMA EndsKeep ==
    ASSUME IInv, NEW u \in Users, req' = req \/ Done(u),
           lines' \in [LineIds -> Line \cup {NoLine}],
           \A i \in LineIds : lines'[i] # NoLine => lines'[i].qty >= 1,
           news' \subseteq Entries
    PROVE  IInv'
<1>1. TypeOK'
  BY DEF IInv, TypeOK, Done
<1>2. NoEmptyLine'
  BY DEF NoEmptyLine
<1>3. (\A v \in Users : req[v] # Idle => Checked(v, req[v]))'
  BY DEF IInv, TypeOK, Done, Checked, IsRequest, requireOwnerAccess
<1> QED
  BY <1>1, <1>2, <1>3 DEF IInv

LEMMA InitInv == Init => IInv
BY DEF Init, IInv, TypeOK, NoEmptyLine, Entries

LEMMA StepInv == IInv /\ [Next]_vars => IInv'
<1> SUFFICES ASSUME IInv, [Next]_vars PROVE IInv'
  OBVIOUS
<1> USE DEF vars
<1>0. /\ lines \in [LineIds -> Line \cup {NoLine}]
      /\ \A i \in LineIds : lines[i] # NoLine => lines[i].qty >= 1
      /\ news \subseteq Entries
      /\ \A u \in Users : req[u] # Idle => Checked(u, req[u])
      /\ MaxQuantity \in Nat
  BY ConstantsAssumption DEF IInv, TypeOK, NoEmptyLine
<1>1. ASSUME NEW u \in Users, NEW o \in Owners, NEW n \in Names,
             NEW q \in 1 .. MaxQuantity, AddItem(u, o, n, q)
      PROVE  IInv'
  <2>1. PICK i \in Fresh : lines' = [lines EXCEPT ![i] = [owner |-> o, name |-> n, qty |-> q]]
    BY <1>1 DEF AddItem
  <2>2. [owner |-> o, name |-> n, qty |-> q] \in Line /\ q >= 1
    BY <1>0, <1>1 DEF Line
  <2>3. /\ lines' \in [LineIds -> Line \cup {NoLine}]
        /\ \A j \in LineIds : lines'[j] # NoLine => lines'[j].qty >= 1
    BY <1>0, <2>1, <2>2, PutTyped DEF Fresh
  <2>4. news' \subseteq Entries /\ req' = req
    BY <1>1, EntriesTyped DEF AddItem
  <2> QED
    BY <2>3, <2>4, EndsKeep
<1>2. ASSUME NEW u \in Users, NEW i \in LineIds, NEW n \in Names,
             NEW q \in 1 .. MaxQuantity, ReadUpdate(u, i, n, q)
      PROVE  IInv'
  <2> DEFINE row == [lines[i] EXCEPT !.name = n, !.qty = q]
  <2>1. lines[i] \in Line /\ lines[i].qty >= 1 /\ requireOwnerAccess(u, lines[i].owner)
    BY <1>0, <1>2 DEF ReadUpdate, MayRead
  <2>2. q \in Nat /\ q >= 1
    BY <1>0
  <2>3. \A b \in Line : LET c == [b EXCEPT !.name = n, !.qty = q]
                        IN  c \in Line /\ c.qty = q /\ c.owner = b.owner
    BY <2>2 DEF Line
  <2>4. row \in Line /\ row.qty >= 1 /\ row.owner = lines[i].owner
    BY <2>1, <2>2, <2>3
  <2> HIDE DEF row
  <2>5. Checked(u, Request("update", i, row, lines[i].owner, 0))
    BY <2>1, <2>4 DEF Checked, IsRequest, Request, Line
  <2> QED
    BY <1>2, <2>5, ReadsKeep DEF ReadUpdate, row
<1>3. ASSUME NEW u \in Users, NEW i \in LineIds, ReadRemove(u, i)
      PROVE  IInv'
  <2>1. lines[i] \in Line /\ lines[i].qty >= 1 /\ requireOwnerAccess(u, lines[i].owner)
    BY <1>0, <1>3 DEF ReadRemove, MayRead
  <2>2. Checked(u, Request("remove", i, lines[i], lines[i].owner, 0))
    BY <2>1 DEF Checked, IsRequest, Request, Line
  <2> QED
    BY <1>3, <2>2, ReadsKeep DEF ReadRemove
<1>4. ASSUME NEW u \in Users, NEW i \in LineIds, NEW o \in Owners,
             NEW q \in 1 .. MaxQuantity, ReadMove(u, i, o, q)
      PROVE  IInv'
  <2>1. /\ lines[i] \in Line /\ lines[i].qty >= 1
        /\ requireOwnerAccess(u, lines[i].owner) /\ requireOwnerAccess(u, o)
        /\ o # lines[i].owner /\ q <= lines[i].qty
    BY <1>0, <1>4 DEF ReadMove, MayRead, MoveAccess
  <2>2. q \in 1 .. lines[i].qty
    BY <2>1, <1>0, <1>4 DEF Line
  <2>3. Checked(u, Request("move", i, lines[i], o, q))
    BY <2>1, <2>2 DEF Checked, IsRequest, Request, Line
  <2> QED
    BY <1>4, <2>3, ReadsKeep DEF ReadMove
<1>5. ASSUME NEW u \in Users, CommitUpdate(u)
      PROVE  IInv'
  <2>1. Checked(u, req[u]) /\ lines' = [lines EXCEPT ![req[u].line] = req[u].row]
    BY <1>0, <1>5 DEF CommitUpdate, Doing
  <2>2. /\ lines' \in [LineIds -> Line \cup {NoLine}]
        /\ \A j \in LineIds : lines'[j] # NoLine => lines'[j].qty >= 1
    BY <1>0, <2>1, PutTyped DEF Checked, IsRequest
  <2>3. news' \subseteq Entries /\ Done(u)
    BY <1>5, EntriesTyped DEF CommitUpdate
  <2> QED
    BY <2>2, <2>3, EndsKeep
<1>6. ASSUME NEW u \in Users, CommitRemove(u)
      PROVE  IInv'
  <2>1. Checked(u, req[u]) /\ lines' = [lines EXCEPT ![req[u].line] = NoLine]
    BY <1>0, <1>6 DEF CommitRemove, Doing
  <2>2. /\ lines' \in [LineIds -> Line \cup {NoLine}]
        /\ \A j \in LineIds : lines'[j] # NoLine => lines'[j].qty >= 1
    BY <1>0, <2>1, PutTyped DEF Checked, IsRequest
  <2>3. news' \subseteq Entries /\ Done(u)
    BY <1>6, EntriesTyped DEF CommitRemove
  <2> QED
    BY <2>2, <2>3, EndsKeep
<1>7. ASSUME NEW u \in Users, CommitMove(u)
      PROVE  IInv'
  <2> DEFINE r == req[u]
  <2>1. Checked(u, r) /\ r.kind = "move"
    BY <1>0, <1>7 DEF CommitMove, Doing
  <2>2. /\ r.line \in LineIds /\ r.read \in Line /\ r.target \in Owners
        /\ r.qty \in 1 .. r.read.qty /\ r.read.qty >= 1
        /\ r.read.qty \in Nat /\ r.qty \in Nat /\ r.qty >= 1
    BY <2>1 DEF Checked, IsRequest, Line
  <2>3. news' \subseteq Entries
    BY <1>7, EntriesTyped DEF CommitMove
  <2>4. /\ lines' \in [LineIds -> Line \cup {NoLine}]
        /\ \A j \in LineIds : lines'[j] # NoLine => lines'[j].qty >= 1
    <3>1. ASSUME NEW m \in findMatch(r.target, r.read),
                 lines' = drainSource([lines EXCEPT ![m].qty = @ + r.qty], r.line, r.read, r.qty)
          PROVE  <2>4
      <4> DEFINE x == [lines[m] EXCEPT !.qty = @ + r.qty]
      <4>1. m \in LineIds /\ lines[m] \in Line /\ lines[m].qty >= 1
        BY <1>0 DEF findMatch
      <4>2. x \in Line /\ x.qty >= 1
        BY <4>1, <2>2 DEF Line
      <4>3. [lines EXCEPT ![m].qty = @ + r.qty] = [lines EXCEPT ![m] = x]
        OBVIOUS
      <4> HIDE DEF x
      <4>4. /\ [lines EXCEPT ![m] = x] \in [LineIds -> Line \cup {NoLine}]
            /\ \A j \in LineIds : [lines EXCEPT ![m] = x][j] # NoLine
                                    => [lines EXCEPT ![m] = x][j].qty >= 1
        BY <4>1, <4>2, <1>0, PutTyped
      <4> QED
        BY <3>1, <4>3, <4>4, <2>2, DrainTyped
    <3>2. ASSUME lines' = [lines EXCEPT ![r.line] = [r.read EXCEPT !.owner = r.target]]
          PROVE  <2>4
      <4>1. [r.read EXCEPT !.owner = r.target] \in Line
            /\ [r.read EXCEPT !.owner = r.target].qty >= 1
        BY <2>2 DEF Line
      <4> QED
        BY <3>2, <4>1, <2>2, <1>0, PutTyped
    <3>3. ASSUME NEW i \in Fresh,
                 lines' = drainSource(
                    [lines EXCEPT ![i] = [owner |-> r.target, name |-> r.read.name, qty |-> r.qty]],
                    r.line, r.read, r.qty)
          PROVE  <2>4
      <4> DEFINE x == [owner |-> r.target, name |-> r.read.name, qty |-> r.qty]
      <4>1. x \in Line /\ x.qty >= 1 /\ i \in LineIds
        BY <2>2 DEF Line, Fresh
      <4> HIDE DEF x
      <4>2. /\ [lines EXCEPT ![i] = x] \in [LineIds -> Line \cup {NoLine}]
            /\ \A j \in LineIds : [lines EXCEPT ![i] = x][j] # NoLine
                                    => [lines EXCEPT ![i] = x][j].qty >= 1
        BY <4>1, <1>0, PutTyped
      <4> QED
        BY <3>3, <4>2, <2>2, DrainTyped DEF x
    <3> QED
      BY <1>7, <3>1, <3>2, <3>3 DEF CommitMove
  <2> QED
    BY <1>7, <2>3, <2>4, EndsKeep DEF CommitMove
<1>8. ASSUME NEW u \in Users, Abandon(u)
      PROVE  IInv'
  BY <1>0, <1>8, EndsKeep DEF Abandon
<1>9. ASSUME UNCHANGED vars
      PROVE  IInv'
  BY <1>9 DEF IInv, TypeOK, NoEmptyLine, Checked, IsRequest, requireOwnerAccess
<1> QED
  BY <1>1, <1>2, <1>3, <1>4, <1>5, <1>6, <1>7, <1>8, <1>9 DEF Next

\* Lines, entries and requests keep their shape; in particular an entry names
\* a shared inventory, never a private one.
THEOREM TypeCorrect == Spec => []TypeOK
<1>1. IInv => TypeOK
  BY DEF IInv
<1> QED
  BY InitInv, StepInv, <1>1, PTL DEF Spec

\* No interleaving of additions, edits, removals and moves leaves a line
\* without units.
THEOREM LinesNeverEmpty == Spec => []NoEmptyLine
<1>1. IInv => NoEmptyLine
  BY DEF IInv
<1> QED
  BY InitInv, StepInv, <1>1, PTL DEF Spec

-----------------------------------------------------------------------------
(* One request at a time on the lines *)

\* The only request in flight still knows its line as it is.
Undisturbed ==
    /\ \A u, v \in Users : req[u] # Idle /\ req[v] # Idle => u = v
    /\ \A u \in Users : req[u] # Idle => lines[req[u].line] = req[u].read

SerialInv == IInv /\ Undisturbed

LEMMA SerialStep ==
    ASSUME MaxInFlight = 1, SerialInv, [Next]_vars
    PROVE  SerialInv'
<1> USE DEF vars
<1>0. IInv' /\ DOMAIN req = Users
  BY StepInv DEF SerialInv, IInv, TypeOK
<1>1. ASSUME NEW u \in Users, NEW o \in Owners, NEW n \in Names,
             NEW q \in 1 .. MaxQuantity, AddItem(u, o, n, q)
      PROVE  Undisturbed'
  <2>1. PICK i \in Fresh : lines' = [lines EXCEPT ![i] = [owner |-> o, name |-> n, qty |-> q]]
    BY <1>1 DEF AddItem
  <2>2. req' = req
    BY <1>1 DEF AddItem
  <2>3. \A v \in Users : req[v] # Idle => req[v].line \in LineIds /\ req[v].line # i
    BY DEF Fresh, SerialInv, IInv, TypeOK, IsRequest
  <2> QED
    BY <2>1, <2>2, <2>3 DEF Undisturbed, SerialInv, IInv, TypeOK
<1>2. ASSUME NEW u \in Users, NEW i \in LineIds, NEW r,
             MayRead(u, i), r.line = i, r.read = lines[i], Reads(u, r)
      PROVE  Undisturbed'
  <2> DEFINE busy == {v \in Users : req[v] # Idle}
  <2>1. IsFiniteSet(busy) /\ Cardinality(busy) \in Nat
    BY ConstantsAssumption, FS_Subset, FS_CardinalityType
  <2>2. Cardinality(busy) < 1
    BY <1>2 DEF MayRead
  <2>3. busy = {}
    BY <2>1, <2>2, FS_EmptySet
  <2>4. \A v \in Users : req[v] = Idle
    BY <2>3
  <2> QED
    BY <1>0, <1>2, <2>4 DEF Reads, Undisturbed
<1>3. ASSUME NEW u \in Users, req[u] # Idle, Done(u)
      PROVE  Undisturbed'
  <2>1. \A v \in Users : req'[v] = Idle
    BY <1>0, <1>3 DEF Done, Undisturbed, SerialInv
  <2> QED
    BY <2>1 DEF Undisturbed
<1>4. ASSUME NEW u \in Users, Commit(u) \/ Abandon(u)
      PROVE  Undisturbed'
  BY <1>3, <1>4 DEF Commit, CommitUpdate, CommitRemove, CommitMove, Abandon, Doing
<1>5. ASSUME NEW u \in Users, NEW i \in LineIds,
             \/ \E n \in Names, q \in 1 .. MaxQuantity : ReadUpdate(u, i, n, q)
             \/ ReadRemove(u, i)
             \/ \E o \in Owners, q \in 1 .. MaxQuantity : ReadMove(u, i, o, q)
      PROVE  Undisturbed'
  BY <1>2, <1>5 DEF ReadUpdate, ReadRemove, ReadMove, Request
<1>6. ASSUME UNCHANGED vars
      PROVE  Undisturbed'
  BY <1>6 DEF Undisturbed, SerialInv
<1>7. Undisturbed'
  BY <1>1, <1>4, <1>5, <1>6 DEF Next, Commit
<1> QED
  BY <1>0, <1>7 DEF SerialInv

\* A line in the inventory of o.
In(line, o) == line # NoLine /\ line.owner = o

\* An inventory changes exactly when one of its lines does.
LEMMA ContentsSame ==
    ASSUME NEW o,
           \A i \in LineIds : lines'[i] # lines[i] => ~In(lines[i], o) /\ ~In(lines'[i], o)
    PROVE  Contents(o)' = Contents(o)
<1> DEFINE S == {j \in LineIds : lines[j] # NoLine /\ lines[j].owner = o}
           T == {j \in LineIds : lines'[j] # NoLine /\ lines'[j].owner = o}
<1>1. S = T
  BY DEF In
<1>2. \A i \in S : lines'[i] = lines[i]
  BY DEF In
<1>3. Contents(o) = [i \in S |-> lines[i]] /\ Contents(o)' = [i \in T |-> lines'[i]]
  BY DEF Contents
<1> HIDE DEF S, T
<1> QED
  BY <1>1, <1>2, <1>3

LEMMA ContentsDiffer ==
    ASSUME NEW o, NEW i \in LineIds, lines'[i] # lines[i],
           In(lines[i], o) \/ In(lines'[i], o)
    PROVE  Contents(o)' # Contents(o)
<1> DEFINE S == {j \in LineIds : lines[j] # NoLine /\ lines[j].owner = o}
           T == {j \in LineIds : lines'[j] # NoLine /\ lines'[j].owner = o}
<1>1. i \in S \/ i \in T
  BY DEF In
<1>3. Contents(o) = [j \in S |-> lines[j]] /\ Contents(o)' = [j \in T |-> lines'[j]]
  BY DEF Contents
<1> HIDE DEF S, T
<1>4. SUFFICES ASSUME [j \in T |-> lines'[j]] = [j \in S |-> lines[j]] PROVE FALSE
  BY <1>3
<1>5. S = T
  <2>1. DOMAIN [j \in T |-> lines'[j]] = T /\ DOMAIN [j \in S |-> lines[j]] = S
    OBVIOUS
  <2> QED
    BY <2>1, <1>4
<1>6. [j \in T |-> lines'[j]][i] = lines'[i] /\ [j \in S |-> lines[j]][i] = lines[i]
  BY <1>1, <1>5
<1> QED
  BY <1>4, <1>6

\* Draining touches one line, which stays with its owner or goes, and always
\* loses units.
LEMMA DrainFacts ==
    ASSUME NEW ls, DOMAIN ls = LineIds, NEW i \in LineIds,
           NEW source \in Line, NEW q \in 1 .. source.qty
    PROVE  LET d == drainSource(ls, i, source, q) IN
           /\ \A j \in LineIds \ {i} : d[j] = ls[j]
           /\ d[i] = NoLine \/ (d[i].owner = source.owner /\ d[i].qty # source.qty)
           /\ d[i] # source
<1>1. NoLine # source /\ source.qty \in Nat /\ q \in Nat
  BY ConstantsAssumption DEF Line
<1>2. CASE q = source.qty
  BY <1>1, <1>2 DEF drainSource
<1>3. CASE q # source.qty
  <2> DEFINE x == [source EXCEPT !.qty = @ - q]
  <2>1. x.owner = source.owner /\ x.qty = source.qty - q
    BY DEF Line
  <2> HIDE DEF x
  <2>2. x.qty # source.qty
    BY <2>1, <1>1
  <2>3. drainSource(ls, i, source, q) = [ls EXCEPT ![i] = x]
    BY <1>3 DEF drainSource, x
  <2> QED
    BY <2>1, <2>2, <2>3
<1> QED
  BY <1>2, <1>3

\* What a request ready to commit knows.
LEMMA Ready ==
    ASSUME SerialInv, NEW u \in Users, req[u] # Idle
    PROVE  LET r == req[u] IN
           /\ Checked(u, r)
           /\ r.line \in LineIds /\ r.read \in Line /\ r.row \in Line /\ r.target \in Owners
           /\ lines[r.line] = r.read /\ r.read # NoLine /\ r.row.owner = r.read.owner
           /\ DOMAIN lines = LineIds
BY ConstantsAssumption DEF SerialInv, IInv, TypeOK, Undisturbed, Checked, IsRequest

\* An edit or a removal touches its own line only.
LEMMA OneLineTouched ==
    ASSUME SerialInv, NEW u \in Users, CommitUpdate(u) \/ CommitRemove(u)
    PROVE  /\ req[u] # Idle
           /\ \A i \in LineIds : lines'[i] # lines[i] =>
                 /\ In(lines[i], req[u].read.owner)
                 /\ lines'[i] # NoLine => In(lines'[i], req[u].read.owner)
<1>1. req[u] # Idle
  BY DEF CommitUpdate, CommitRemove, Doing
<1> QED
  BY <1>1, Ready DEF CommitUpdate, CommitRemove, In

\* A move touches lines of its two ends only, and at least one of each.
LEMMA TwoEndsTouched ==
    ASSUME SerialInv, NEW u \in Users, CommitMove(u)
    PROVE  LET r == req[u] IN
           /\ r # Idle /\ r.target # r.read.owner
           /\ \A i \in LineIds : lines'[i] # lines[i] =>
                 /\ lines[i] # NoLine => lines[i].owner \in {r.read.owner, r.target}
                 /\ lines'[i] # NoLine => lines'[i].owner \in {r.read.owner, r.target}
           /\ lines'[r.line] # lines[r.line] /\ In(lines[r.line], r.read.owner)
           /\ \E i \in LineIds : lines'[i] # lines[i] /\ In(lines'[i], r.target)
<1> DEFINE r == req[u]
<1>1. r # Idle /\ r.kind = "move"
  BY DEF CommitMove, Doing
<1>2. /\ r.line \in LineIds /\ r.read \in Line /\ lines[r.line] = r.read
      /\ r.read # NoLine /\ DOMAIN lines = LineIds /\ r.target \in Owners
      /\ r.target # r.read.owner /\ r.qty \in 1 .. r.read.qty
  BY <1>1, Ready DEF Checked
<1>3. r.qty \in Nat /\ r.qty >= 1
  BY <1>2 DEF Line
<1>4. lines \in [LineIds -> Line \cup {NoLine}]
  BY DEF SerialInv, IInv, TypeOK
<1>5. In(lines[r.line], r.read.owner)
  BY <1>2 DEF In
<1> HIDE DEF r
<1>6. ASSUME NEW i \in LineIds, i # r.line, NEW x \in Line,
             x.owner = r.target, x # lines[i],
             lines[i] # NoLine => lines[i].owner = r.target,
             lines' = drainSource([lines EXCEPT ![i] = x], r.line, r.read, r.qty)
      PROVE  /\ \A j \in LineIds : lines'[j] # lines[j] =>
                 /\ lines[j] # NoLine => lines[j].owner \in {r.read.owner, r.target}
                 /\ lines'[j] # NoLine => lines'[j].owner \in {r.read.owner, r.target}
             /\ lines'[r.line] # lines[r.line]
             /\ lines'[i] # lines[i] /\ In(lines'[i], r.target)
  <2> DEFINE ls == [lines EXCEPT ![i] = x]
  <2>1. DOMAIN ls = LineIds /\ ls[i] = x /\ \A j \in LineIds \ {i} : ls[j] = lines[j]
    BY <1>2, <1>6
  <2>2. lines' = drainSource(ls, r.line, r.read, r.qty)
    BY <1>6
  <2> HIDE DEF ls
  <2>3. /\ \A j \in LineIds \ {r.line} : lines'[j] = ls[j]
        /\ lines'[r.line] = NoLine \/ lines'[r.line].owner = r.read.owner
        /\ lines'[r.line] # r.read
    BY <2>1, <2>2, <1>2, DrainFacts
  <2>4. x # NoLine
    BY <1>6, ConstantsAssumption
  <2> QED
    BY <2>1, <2>3, <2>4, <1>2, <1>6 DEF In
<1>7. ASSUME NEW m \in findMatch(r.target, r.read),
             lines' = drainSource([lines EXCEPT ![m].qty = @ + r.qty], r.line, r.read, r.qty)
      PROVE  \E i \in LineIds, x \in Line :
                /\ i # r.line /\ x.owner = r.target /\ x # lines[i]
                /\ lines[i] # NoLine => lines[i].owner = r.target
                /\ lines' = drainSource([lines EXCEPT ![i] = x], r.line, r.read, r.qty)
  <2>1. m \in LineIds /\ lines[m] \in Line /\ lines[m].owner = r.target
    BY <1>4 DEF findMatch
  <2>2. m # r.line
    BY <2>1, <1>2
  <2> DEFINE x == [lines[m] EXCEPT !.qty = @ + r.qty]
  <2>3. x \in Line /\ x.owner = r.target /\ x.qty = lines[m].qty + r.qty /\ lines[m].qty \in Nat
    BY <2>1, <1>3 DEF Line
  <2>4. [lines EXCEPT ![m].qty = @ + r.qty] = [lines EXCEPT ![m] = x]
    OBVIOUS
  <2> HIDE DEF x
  <2>5. x # lines[m]
    BY <2>3, <1>3
  <2> QED
    BY <1>7, <2>1, <2>2, <2>3, <2>4, <2>5
<1>8. ASSUME NEW i \in Fresh,
             lines' = drainSource(
                [lines EXCEPT ![i] = [owner |-> r.target, name |-> r.read.name, qty |-> r.qty]],
                r.line, r.read, r.qty)
      PROVE  \E j \in LineIds, x \in Line :
                /\ j # r.line /\ x.owner = r.target /\ x # lines[j]
                /\ lines[j] # NoLine => lines[j].owner = r.target
                /\ lines' = drainSource([lines EXCEPT ![j] = x], r.line, r.read, r.qty)
  <2> DEFINE x == [owner |-> r.target, name |-> r.read.name, qty |-> r.qty]
  <2>1. x \in Line /\ x.owner = r.target
    BY <1>2, <1>3 DEF Line
  <2>2. i \in LineIds /\ lines[i] = NoLine /\ i # r.line
    BY <1>2 DEF Fresh
  <2> HIDE DEF x
  <2>3. x # lines[i]
    BY <2>1, <2>2, ConstantsAssumption
  <2>4. lines' = drainSource([lines EXCEPT ![i] = x], r.line, r.read, r.qty)
    BY <1>8 DEF x
  <2> QED
    BY <2>1, <2>2, <2>3, <2>4
<1>9. ASSUME lines' = [lines EXCEPT ![r.line] = [r.read EXCEPT !.owner = r.target]]
      PROVE  /\ \A j \in LineIds : lines'[j] # lines[j] =>
                 /\ lines[j] # NoLine => lines[j].owner \in {r.read.owner, r.target}
                 /\ lines'[j] # NoLine => lines'[j].owner \in {r.read.owner, r.target}
             /\ lines'[r.line] # lines[r.line] /\ In(lines'[r.line], r.target)
  <2> DEFINE x == [r.read EXCEPT !.owner = r.target]
  <2>1. x \in Line /\ x.owner = r.target
    BY <1>2 DEF Line
  <2>2. lines' = [lines EXCEPT ![r.line] = x]
    BY <1>9
  <2> HIDE DEF x
  <2>3. x # NoLine /\ x # r.read
    BY <2>1, <1>2, ConstantsAssumption
  <2> QED
    BY <2>1, <2>2, <2>3, <1>2 DEF In
<1>10. \/ \E m \in findMatch(r.target, r.read) :
             lines' = drainSource([lines EXCEPT ![m].qty = @ + r.qty], r.line, r.read, r.qty)
       \/ lines' = [lines EXCEPT ![r.line] = [r.read EXCEPT !.owner = r.target]]
       \/ \E i \in Fresh : lines' = drainSource(
                [lines EXCEPT ![i] = [owner |-> r.target, name |-> r.read.name, qty |-> r.qty]],
                r.line, r.read, r.qty)
  BY DEF CommitMove, r
<1>11. /\ \A j \in LineIds : lines'[j] # lines[j] =>
                 /\ lines[j] # NoLine => lines[j].owner \in {r.read.owner, r.target}
                 /\ lines'[j] # NoLine => lines'[j].owner \in {r.read.owner, r.target}
       /\ lines'[r.line] # lines[r.line]
       /\ \E i \in LineIds : lines'[i] # lines[i] /\ In(lines'[i], r.target)
  <2>1. ASSUME \E i \in LineIds, x \in Line :
                /\ i # r.line /\ x.owner = r.target /\ x # lines[i]
                /\ lines[i] # NoLine => lines[i].owner = r.target
                /\ lines' = drainSource([lines EXCEPT ![i] = x], r.line, r.read, r.qty)
        PROVE  <1>11
    BY <2>1, <1>6
  <2>2. ASSUME lines' = [lines EXCEPT ![r.line] = [r.read EXCEPT !.owner = r.target]]
        PROVE  <1>11
    BY <2>2, <1>9, <1>2
  <2> QED
    BY <2>1, <2>2, <1>7, <1>8, <1>10
<1> QED
  BY <1>1, <1>2, <1>5, <1>11 DEF r

LEMMA SerialInit == Init => SerialInv
BY InitInv DEF Init, SerialInv, Undisturbed

LEMMA AccessStep ==
    ASSUME SerialInv, NEW u \in Users \ GMs, NEW o \in Owners,
           Commit(u), o \notin Access[u]
    PROVE  Contents(o)' = Contents(o)
<1>1. req[u] # Idle
  BY DEF Commit, CommitUpdate, CommitRemove, CommitMove, Doing
<1>2. o # req[u].read.owner /\ o # req[u].target
  BY <1>1, Ready DEF Checked, requireOwnerAccess
<1>3. \A i \in LineIds : lines'[i] # lines[i] => ~In(lines[i], o) /\ ~In(lines'[i], o)
  BY <1>2, OneLineTouched, TwoEndsTouched DEF Commit, In
<1> QED
  BY <1>3, ContentsSame

\* While one request at a time works on the lines, no edit, removal or move
\* changes an inventory its user may not use: the check of the line as read
\* then is a check of the line as it is.
THEOREM SerialAccess ==
    ASSUME MaxInFlight = 1
    PROVE  Spec => OnlyWithAccess
<1>1. SerialInv /\ [Next]_vars => SerialInv'
  BY SerialStep
<1>2. SerialInv => [\A u \in Users \ GMs, o \in Owners :
          Commit(u) /\ o \notin Access[u] => Contents(o)' = Contents(o)]_vars
  BY AccessStep
<1> QED
  BY SerialInit, <1>1, <1>2, PTL DEF Spec, OnlyWithAccess

LEMMA EntriesStep ==
    ASSUME SerialInv, [Next]_vars, NEW o \in Shared
    PROVE  \/ UNCHANGED vars
           \/ /\ Contents(o)' # Contents(o) => \E e \in news' : e.scope = o
              /\ \A u \in Users :
                   CommitRemove(u) \/ CommitMove(u) =>
                      (\A e \in news' : e.scope = o => Contents(o)' # Contents(o))
<1> USE DEF vars
<1>0. \A p, a : /\ o = p => \E e \in inventoryEntry(p, a) : e.scope = o
                /\ \A e \in inventoryEntry(p, a) : e.scope = p
  <2> TAKE p, a
  <2>1. o = p => [scope |-> o, action |-> a] \in inventoryEntry(p, a)
    BY DEF inventoryEntry
  <2>2. [scope |-> o, action |-> a].scope = o
    OBVIOUS
  <2>3. \A e \in inventoryEntry(p, a) : e.scope = p
    BY DEF inventoryEntry
  <2> QED
    BY <2>1, <2>2, <2>3
<1>1. ASSUME Contents(o)' # Contents(o) PROVE \E e \in news' : e.scope = o
  <2>1. PICK i \in LineIds : lines'[i] # lines[i] /\ (In(lines[i], o) \/ In(lines'[i], o))
    BY <1>1, ContentsSame
  <2>2. ASSUME NEW u \in Users, NEW p \in Owners, NEW n \in Names,
               NEW q \in 1 .. MaxQuantity, AddItem(u, p, n, q)
        PROVE  \E e \in news' : e.scope = o
    <3>1. PICK j \in Fresh : lines' = [lines EXCEPT ![j] = [owner |-> p, name |-> n, qty |-> q]]
      BY <2>2 DEF AddItem
    <3>2. i = j /\ lines[i] = NoLine /\ lines'[i].owner = p
      BY <2>1, <3>1 DEF Fresh, SerialInv, IInv, TypeOK
    <3>3. o = p
      BY <2>1, <3>2 DEF In
    <3> QED
      BY <1>0, <2>2, <3>3 DEF AddItem
  <2>3. ASSUME NEW u \in Users, CommitUpdate(u) \/ CommitRemove(u)
        PROVE  \E e \in news' : e.scope = o
    <3>1. o = req[u].read.owner
      BY <2>1, <2>3, OneLineTouched DEF In
    <3> QED
      BY <1>0, <2>3, <3>1 DEF CommitUpdate, CommitRemove
  <2>4. ASSUME NEW u \in Users, CommitMove(u)
        PROVE  \E e \in news' : e.scope = o
    <3>1. o = req[u].read.owner \/ o = req[u].target
      BY <2>1, <2>4, TwoEndsTouched DEF In
    <3> QED
      BY <1>0, <2>4, <3>1 DEF CommitMove
  <2>5. \A u \in Users : ~Abandon(u)
    BY <2>1 DEF Abandon
  <2>6. \A u, r : ~Reads(u, r)
    BY <2>1 DEF Reads
  <2>7. lines' # lines
    BY <2>1
  <2> QED
    BY <2>2, <2>3, <2>4, <2>5, <2>6, <2>7 DEF Next, ReadUpdate, ReadRemove, ReadMove
<1>2. ASSUME NEW u \in Users, CommitRemove(u), NEW e \in news', e.scope = o
      PROVE  Contents(o)' # Contents(o)
  <2>1. req[u] # Idle /\ o = req[u].read.owner
    BY <1>0, <1>2 DEF CommitRemove, Doing
  <2>2. /\ req[u].line \in LineIds /\ lines'[req[u].line] = NoLine
        /\ In(lines[req[u].line], o)
    BY <1>2, <2>1, Ready DEF CommitRemove, In
  <2> QED
    BY <2>2, ContentsDiffer DEF In
<1>3. ASSUME NEW u \in Users, CommitMove(u), NEW e \in news', e.scope = o
      PROVE  Contents(o)' # Contents(o)
  <2>1. o = req[u].read.owner \/ o = req[u].target
    BY <1>0, <1>3 DEF CommitMove
  <2>2. \E i \in LineIds : lines'[i] # lines[i] /\ (In(lines[i], o) \/ In(lines'[i], o))
    <3>1. req[u] # Idle
      BY <1>3, TwoEndsTouched
    <3>2. req[u].line \in LineIds
      BY <3>1, Ready
    <3> QED
      BY <1>3, <2>1, <3>2, TwoEndsTouched
  <2> QED
    BY <2>2, ContentsDiffer
<1> QED
  BY <1>1, <1>2, <1>3

\* While one request at a time works on the lines, the activity log of every
\* shared inventory is exact: no change without an entry, and no entry for a
\* removal or a move that did not happen.
THEOREM SerialEntries ==
    ASSUME MaxInFlight = 1
    PROVE  Spec => EntriesMatchChanges
<1>1. SerialInv /\ [Next]_vars => SerialInv'
  BY SerialStep
<1>2. SerialInv /\ [Next]_vars => [\A o \in Shared :
        /\ Contents(o)' # Contents(o) => \E e \in news' : e.scope = o
        /\ \A u \in Users :
             CommitRemove(u) \/ CommitMove(u) =>
                (\A e \in news' : e.scope = o => Contents(o)' # Contents(o))]_vars
  BY EntriesStep
<1> QED
  BY SerialInit, <1>1, <1>2, PTL DEF Spec, EntriesMatchChanges

-----------------------------------------------------------------------------
(* Least elements: what the proofs about sums use for induction *)

\* Every set of natural numbers with an element has a least one.
LEMMA Least ==
    ASSUME NEW T \in SUBSET Nat, T # {}
    PROVE  \E n \in T : \A m \in T : ~(m < n)
<1> DEFINE R == OpToRel(<, Nat)
<1>1. IsWellFoundedOn(R, Nat)
  BY NatLessThanWellFounded
<1>2. \A m, n \in Nat : <<m, n>> \in R <=> m < n
  BY DEF OpToRel
<1> HIDE DEF R
<1>3. PICK n \in T : \A m \in T : ~(<<m, n>> \in R)
  BY <1>1, WFMin
<1>4. \A m \in T : m \in Nat /\ n \in Nat /\ (m < n => <<m, n>> \in R)
  BY <1>2
<1> QED
  BY <1>3, <1>4

\* Induction on the natural numbers, for a set of them.
LEMMA SetInduction ==
    ASSUME NEW T \in SUBSET Nat, 0 \in T, \A n \in T : n + 1 \in T
    PROVE  \A n \in Nat : n \in T
<1>1. SUFFICES ASSUME Nat \ T # {} PROVE FALSE
  OBVIOUS
<1>2. PICK n \in Nat \ T : \A m \in Nat \ T : ~(m < n)
  BY <1>1, Least
<1>3. n - 1 \in Nat /\ n - 1 < n
  BY <1>2
<1>4. n - 1 \in T /\ (n - 1) + 1 = n
  BY <1>2, <1>3
<1> QED
  BY <1>2, <1>4

\* Among subsets of a finite set, one that loses its kind with any element.
LEMMA Smallest ==
    ASSUME NEW S, IsFiniteSet(S), NEW B \in SUBSET (SUBSET S), B # {}
    PROVE  \E s \in B : \A x \in s : s \ {x} \notin B
<1> DEFINE T == {Cardinality(s) : s \in B}
<1>1. \A s \in B : IsFiniteSet(s) /\ Cardinality(s) \in Nat
  BY FS_Subset, FS_CardinalityType
<1>0a. \A s \in B : Cardinality(s) \in T
  OBVIOUS
<1>0b. \A n \in T : \E s \in B : n = Cardinality(s)
  OBVIOUS
<1>0c. T \in SUBSET Nat /\ T # {}
  BY <1>1
<1> HIDE DEF T
<1>2. PICK n \in T : \A m \in T : ~(m < n)
  BY <1>0c, Least
<1>3. PICK s \in B : n = Cardinality(s)
  BY <1>0b
<1>4. ASSUME NEW x \in s, s \ {x} \in B PROVE FALSE
  <2>1. Cardinality(s \ {x}) = Cardinality(s) - 1
    BY <1>1, FS_RemoveElement
  <2> QED
    BY <1>1, <1>2, <1>3, <1>4, <1>0a, <2>1
<1> QED
  BY <1>4

-----------------------------------------------------------------------------
(* Sums of quantities: the units of the lines S of a table ls, computed line *)
(* by line from an arbitrarily chosen one, are the same in every order.      *)

Units(ls, S) == FoldFunctionOnSet(LAMBDA line, sum : line.qty + sum, 0, ls, S)

\* What the fold computes: g[s] is the sum over s, for every subset s of S.
Chosen(s) == CHOOSE x \in s : TRUE
SumOf(g, ls, s) == IF s = {} THEN 0 ELSE ls[Chosen(s)].qty + g[s \ {Chosen(s)}]
Sums(g, ls, S) == g = [s \in SUBSET S |-> SumOf(g, ls, s)]

LEMMA ChosenIn ==
    ASSUME NEW s, s # {}
    PROVE  Chosen(s) \in s
BY Zenon DEF Chosen

\* There is such a function: it extends from the subsets of n lines to those of
\* n + 1.
LEMMA SumsExist ==
    ASSUME NEW ls, NEW S, IsFiniteSet(S), \A i \in S : ls[i].qty \in Nat
    PROVE  \E g \in [SUBSET S -> Nat] : Sums(g, ls, S)
<1> DEFINE D(n) == {s \in SUBSET S : Cardinality(s) <= n}
           Good(n) == \E g \in [D(n) -> Nat] : \A s \in D(n) : g[s] = SumOf(g, ls, s)
           T == {n \in Nat : Good(n)}
<1>1. \A s \in SUBSET S : IsFiniteSet(s) /\ Cardinality(s) \in Nat
  BY FS_Subset, FS_CardinalityType
<1>2. 0 \in T
  <2>1. \A s \in D(0) : s = {}
    BY <1>1, FS_EmptySet
  <2> DEFINE g == [s \in D(0) |-> 0]
  <2>2. g \in [D(0) -> Nat]
    OBVIOUS
  <2>3. \A s \in D(0) : g[s] = SumOf(g, ls, s)
    BY <2>1 DEF SumOf
  <2> HIDE DEF g
  <2> QED
    BY <2>2, <2>3
<1>3. ASSUME NEW n \in T PROVE n + 1 \in T
  <2>1. PICK g \in [D(n) -> Nat] : \A s \in D(n) : g[s] = SumOf(g, ls, s)
    OBVIOUS
  <2> DEFINE h == [s \in D(n + 1) |-> SumOf(g, ls, s)]
  <2>2. ASSUME NEW s \in D(n + 1), s # {}
        PROVE  /\ s \ {Chosen(s)} \in D(n) /\ Chosen(s) \in S
    <3>1. Chosen(s) \in s
      BY <2>2, ChosenIn
    <3>2. Cardinality(s \ {Chosen(s)}) = Cardinality(s) - 1
      BY <1>1, <3>1, FS_RemoveElement
    <3> QED
      BY <1>1, <3>1, <3>2
  <2>3. \A s \in D(n + 1) : SumOf(g, ls, s) \in Nat
    BY <2>2 DEF SumOf
  <2>4. h \in [D(n + 1) -> Nat]
    BY <2>3
  <2>5. D(n) \subseteq D(n + 1)
    BY <1>1
  <2>6. \A s \in D(n) : h[s] = g[s]
    BY <2>1, <2>5
  <2>7. \A s \in D(n + 1) : h[s] = SumOf(g, ls, s)
    OBVIOUS
  <2> HIDE DEF h, D
  <2>8. \A s \in D(n + 1) : h[s] = SumOf(h, ls, s)
    BY <2>2, <2>6, <2>7 DEF SumOf
  <2>9. Good(n + 1)
    BY <2>4, <2>8
  <2> QED
    BY <2>9
<1> HIDE DEF Good
<1>4. \A n \in Nat : n \in T
  BY <1>2, <1>3, SetInduction
<1>5. Cardinality(S) \in Nat /\ Good(Cardinality(S))
  BY <1>1, <1>4
<1>6. D(Cardinality(S)) = SUBSET S
  BY <1>1, <1>5, FS_Subset
<1>7. PICK g \in [SUBSET S -> Nat] : \A s \in SUBSET S : g[s] = SumOf(g, ls, s)
  BY <1>5, <1>6 DEF Good
<1> QED
  BY <1>7 DEF Sums

\* Two sums of the same quantities agree, whatever sets they are defined on.
LEMMA SumsAgree ==
    ASSUME NEW a, NEW b, NEW S, NEW R, NEW g, NEW h, Sums(g, a, S), Sums(h, b, R),
           NEW s \in SUBSET S, s \subseteq R, IsFiniteSet(s), \A i \in s : a[i].qty = b[i].qty
    PROVE  g[s] = h[s]
<1> DEFINE B == {r \in SUBSET s : g[r] # h[r]}
<1>1. SUFFICES ASSUME B # {} PROVE FALSE
  OBVIOUS
<1>2. PICK r \in B : \A x \in r : r \ {x} \notin B
  BY <1>1, Smallest
<1>3. g[r] = SumOf(g, a, r) /\ h[r] = SumOf(h, b, r)
  BY DEF Sums
<1>4. r # {}
  BY <1>3 DEF SumOf
<1>5. Chosen(r) \in r
  BY <1>4, ChosenIn
<1> QED
  BY <1>2, <1>3, <1>5 DEF SumOf

\* The fold is one of those functions, at S.
LEMMA UnitsSums ==
    ASSUME NEW ls, NEW S, IsFiniteSet(S), \A i \in S : ls[i].qty \in Nat
    PROVE  \E g \in [SUBSET S -> Nat] : Sums(g, ls, S) /\ Units(ls, S) = g[S]
<1>1. Units(ls, S) = (CHOOSE g : Sums(g, ls, S))[S]
  BY Zenon DEF Units, FoldFunctionOnSet, MapThenFoldSet, Chosen, Sums, SumOf
<1>2. PICK g \in [SUBSET S -> Nat] : Sums(g, ls, S)
  BY SumsExist
<1> DEFINE h == CHOOSE f : Sums(f, ls, S)
<1>3. Sums(h, ls, S)
  BY <1>2, Zenon
<1> HIDE DEF h
<1>4. h[S] = g[S]
  BY <1>2, <1>3, SumsAgree
<1> QED
  BY <1>1, <1>2, <1>4 DEF h

\* The fold is a natural number and unfolds at the chosen line.
LEMMA UnitsChosen ==
    ASSUME NEW ls, NEW S, IsFiniteSet(S), \A i \in S : ls[i].qty \in Nat
    PROVE  /\ Units(ls, S) \in Nat
           /\ S = {} => Units(ls, S) = 0
           /\ S # {} => Units(ls, S) = ls[Chosen(S)].qty + Units(ls, S \ {Chosen(S)})
<1>1. PICK g \in [SUBSET S -> Nat] : Sums(g, ls, S) /\ Units(ls, S) = g[S]
  BY UnitsSums
<1>2. g[S] = SumOf(g, ls, S)
  BY <1>1 DEF Sums
<1>3. CASE S # {}
  <2> DEFINE R == S \ {Chosen(S)}
  <2>1. IsFiniteSet(R) /\ R \subseteq S
    BY FS_Subset
  <2> HIDE DEF R
  <2>2. PICK h \in [SUBSET R -> Nat] : Sums(h, ls, R) /\ Units(ls, R) = h[R]
    BY <2>1, UnitsSums
  <2>3. g[R] = h[R]
    BY <1>1, <2>1, <2>2, SumsAgree
  <2> QED
    BY <1>1, <1>2, <1>3, <2>2, <2>3 DEF SumOf, R
<1>4. CASE S = {}
  BY <1>1, <1>2, <1>4 DEF SumOf
<1> QED
  BY <1>1, <1>3, <1>4

\* Tables that agree on the quantities in S hold the same units there.
LEMMA UnitsSame ==
    ASSUME NEW a, NEW b, NEW S, IsFiniteSet(S),
           \A i \in S : a[i].qty \in Nat /\ a[i].qty = b[i].qty
    PROVE  Units(a, S) = Units(b, S)
<1>1. PICK g : Sums(g, a, S) /\ Units(a, S) = g[S]
  BY UnitsSums
<1>2. PICK h : Sums(h, b, S) /\ Units(b, S) = h[S]
  BY UnitsSums
<1> QED
  BY <1>1, <1>2, SumsAgree

\* Any line can be taken out of the sum, not only the chosen one.
LEMMA UnitsWithout ==
    ASSUME NEW ls, NEW S, IsFiniteSet(S), \A i \in S : ls[i].qty \in Nat, NEW x \in S
    PROVE  Units(ls, S) = ls[x].qty + Units(ls, S \ {x})
<1> DEFINE B == {s \in SUBSET S : \E y \in s : Units(ls, s) # ls[y].qty + Units(ls, s \ {y})}
<1>1. SUFFICES ASSUME B # {} PROVE FALSE
  OBVIOUS
<1>2. PICK s \in B : \A y \in s : s \ {y} \notin B
  BY <1>1, Smallest
<1>3. PICK y \in s : Units(ls, s) # ls[y].qty + Units(ls, s \ {y})
  OBVIOUS
<1> DEFINE c == Chosen(s)
<1>4. c \in s
  BY <1>3, ChosenIn
<1>5. \A r \in SUBSET s : IsFiniteSet(r) /\ Units(ls, r) \in Nat
  BY FS_Subset, UnitsChosen
<1>6. Units(ls, s) = ls[c].qty + Units(ls, s \ {c})
  BY <1>3, <1>5, UnitsChosen
<1> HIDE DEF c
<1>7. c # y
  BY <1>3, <1>6
<1>8. Units(ls, s \ {c}) = ls[y].qty + Units(ls, (s \ {c}) \ {y})
  BY <1>2, <1>4, <1>7
<1>9. Units(ls, s \ {y}) = ls[c].qty + Units(ls, (s \ {y}) \ {c})
  BY <1>2, <1>4, <1>7
<1>10. (s \ {c}) \ {y} = (s \ {y}) \ {c}
  OBVIOUS
<1>11. ls[c].qty \in Nat /\ ls[y].qty \in Nat /\ Units(ls, (s \ {y}) \ {c}) \in Nat
  BY <1>4, <1>5
<1> HIDE DEF B
<1> QED
  BY <1>3, <1>6, <1>8, <1>9, <1>10, <1>11

-----------------------------------------------------------------------------
(* The units of n in the inventories O of a table ls, and what a line x adds *)

Mine(ls, O, n) == {i \in LineIds : ls[i] # NoLine /\ ls[i].owner \in O /\ ls[i].name = n}

HeldIn(ls, O, n) == Units(ls, Mine(ls, O, n))

Weight(x, O, n) == IF x # NoLine /\ x.owner \in O /\ x.name = n THEN x.qty ELSE 0

Table == [LineIds -> Line \cup {NoLine}]

\* The units of one line and those of the others.
LEMMA HeldRest ==
    ASSUME NEW ls \in Table, NEW O, NEW n, NEW i \in LineIds
    PROVE  /\ HeldIn(ls, O, n) \in Nat
           /\ Weight(ls[i], O, n) \in Nat
           /\ Units(ls, Mine(ls, O, n) \ {i}) \in Nat
           /\ HeldIn(ls, O, n) = Weight(ls[i], O, n) + Units(ls, Mine(ls, O, n) \ {i})
<1> DEFINE S == Mine(ls, O, n)
<1>1. IsFiniteSet(S) /\ IsFiniteSet(S \ {i})
  BY ConstantsAssumption, FS_Subset DEF Mine
<1>2. \A j \in S : ls[j].qty \in Nat
  BY DEF Mine, Table, Line
<1>3. Units(ls, S) \in Nat /\ Units(ls, S \ {i}) \in Nat
  BY <1>1, <1>2, UnitsChosen
<1>4. CASE i \in S
  <2>1. Weight(ls[i], O, n) = ls[i].qty
    BY <1>4 DEF Mine, Weight
  <2> QED
    BY <1>1, <1>2, <1>3, <1>4, <2>1, UnitsWithout DEF HeldIn
<1>5. CASE i \notin S
  <2>1. Weight(ls[i], O, n) = 0
    BY <1>5 DEF Mine, Weight
  <2>2. S \ {i} = S
    BY <1>5
  <2> QED
    BY <1>3, <2>1, <2>2 DEF HeldIn
<1> QED
  BY <1>4, <1>5

\* Replacing one line changes the units held by the difference of the two.
LEMMA HeldPut ==
    ASSUME NEW ls \in Table, NEW O, NEW n, NEW i \in LineIds, NEW x \in Line \cup {NoLine}
    PROVE  /\ [ls EXCEPT ![i] = x] \in Table
           /\ HeldIn([ls EXCEPT ![i] = x], O, n)
                = HeldIn(ls, O, n) - Weight(ls[i], O, n) + Weight(x, O, n)
<1> DEFINE mt == [ls EXCEPT ![i] = x]
           S == Mine(ls, O, n) \ {i}
<1>1. mt \in Table /\ mt[i] = x /\ \A j \in LineIds \ {i} : mt[j] = ls[j]
  BY DEF Table
<1> HIDE DEF mt
<1>2. Mine(mt, O, n) \ {i} = S
  BY <1>1 DEF Mine
<1>3. IsFiniteSet(S)
  BY ConstantsAssumption, FS_Subset DEF Mine
<1>4. \A j \in S : ls[j].qty \in Nat /\ ls[j].qty = mt[j].qty
  BY <1>1 DEF Mine, Table, Line
<1>5. Units(ls, S) = Units(mt, S)
  BY <1>3, <1>4, UnitsSame
<1>6. HeldIn(mt, O, n) = Weight(x, O, n) + Units(mt, S)
      /\ Weight(x, O, n) \in Nat /\ Units(mt, S) \in Nat
  <2>1. /\ Weight(mt[i], O, n) \in Nat
        /\ Units(mt, Mine(mt, O, n) \ {i}) \in Nat
        /\ HeldIn(mt, O, n) = Weight(mt[i], O, n) + Units(mt, Mine(mt, O, n) \ {i})
    BY <1>1, HeldRest
  <2> QED
    BY <1>1, <1>2, <2>1
<1>7. HeldIn(ls, O, n) = Weight(ls[i], O, n) + Units(ls, S) /\ Weight(ls[i], O, n) \in Nat
  BY HeldRest
<1> QED
  BY <1>1, <1>5, <1>6, <1>7 DEF mt

\* q units of n when the inventory o is one of O, none otherwise.
Part(o, m, q, O, n) == IF o \in O /\ m = n THEN q ELSE 0

\* Draining a line nobody touched takes exactly the units asked.
LEMMA HeldDrain ==
    ASSUME NEW ls \in Table, NEW O, NEW n, NEW i \in LineIds,
           NEW source \in Line, ls[i] = source, NEW q \in 1 .. source.qty
    PROVE  HeldIn(drainSource(ls, i, source, q), O, n)
             = HeldIn(ls, O, n) - Part(source.owner, source.name, q, O, n)
<1>1. source # NoLine /\ source.qty \in Nat /\ q \in Nat
  BY ConstantsAssumption DEF Line
<1>2. HeldIn(ls, O, n) \in Nat
  BY HeldRest
<1>3. CASE q = source.qty
  <2>1. HeldIn([ls EXCEPT ![i] = NoLine], O, n)
          = HeldIn(ls, O, n) - Weight(source, O, n) + Weight(NoLine, O, n)
    BY HeldPut
  <2>2. Weight(source, O, n) = Part(source.owner, source.name, q, O, n)
        /\ Weight(NoLine, O, n) = 0
    BY <1>1, <1>3 DEF Weight, Part
  <2>3. drainSource(ls, i, source, q) = [ls EXCEPT ![i] = NoLine]
    BY <1>3 DEF drainSource
  <2>4. Part(source.owner, source.name, q, O, n) \in Nat
    BY <1>1 DEF Part
  <2> QED
    BY <1>2, <2>1, <2>2, <2>3, <2>4
<1>4. CASE q # source.qty
  <2> DEFINE x == [source EXCEPT !.qty = @ - q]
  <2>1. x \in Line /\ x.owner = source.owner /\ x.name = source.name /\ x.qty = source.qty - q
    BY <1>1, <1>4 DEF Line
  <2>2. drainSource(ls, i, source, q) = [ls EXCEPT ![i] = x]
    BY <1>4 DEF drainSource
  <2> HIDE DEF x
  <2>3. HeldIn([ls EXCEPT ![i] = x], O, n)
          = HeldIn(ls, O, n) - Weight(source, O, n) + Weight(x, O, n)
    BY <2>1, HeldPut
  <2>4. x # NoLine
    BY <2>1, ConstantsAssumption
  <2>5. - Weight(source, O, n) + Weight(x, O, n) = - Part(source.owner, source.name, q, O, n)
        /\ Weight(source, O, n) \in Nat /\ Weight(x, O, n) \in Nat
    BY <1>1, <2>1, <2>4 DEF Weight, Part
  <2>6. Part(source.owner, source.name, q, O, n) \in Nat
    BY <1>1 DEF Part
  <2> QED
    BY <1>2, <2>2, <2>3, <2>5, <2>6
<1> QED
  BY <1>3, <1>4

\* Giving units to the target and draining the source moves exactly q units.
LEMMA HeldMoved ==
    ASSUME NEW ls \in Table, NEW O, NEW n, NEW i \in LineIds,
           NEW source \in Line, ls[i] = source, NEW q \in 1 .. source.qty,
           NEW j \in LineIds \ {i}, NEW x \in Line,
           x.name = source.name,
           \/ ls[j] = NoLine /\ x.qty = q
           \/ ls[j] # NoLine /\ ls[j].owner = x.owner /\ ls[j].name = x.name /\ x.qty = ls[j].qty + q
    PROVE  HeldIn(drainSource([ls EXCEPT ![j] = x], i, source, q), O, n)
             = HeldIn(ls, O, n) + Part(x.owner, source.name, q, O, n)
                                - Part(source.owner, source.name, q, O, n)
<1> DEFINE mt == [ls EXCEPT ![j] = x]
<1>1. mt \in Table /\ HeldIn(mt, O, n) = HeldIn(ls, O, n) - Weight(ls[j], O, n) + Weight(x, O, n)
  BY HeldPut
<1>2. mt[i] = source
  BY DEF Table
<1> HIDE DEF mt
<1>3. HeldIn(drainSource(mt, i, source, q), O, n)
        = HeldIn(mt, O, n) - Part(source.owner, source.name, q, O, n)
  BY <1>1, <1>2, HeldDrain
<1>4. x # NoLine /\ q \in Nat /\ x.qty \in Nat /\ (ls[j] # NoLine => ls[j].qty \in Nat)
  BY ConstantsAssumption DEF Line, Table
<1>5. - Weight(ls[j], O, n) + Weight(x, O, n) = Part(x.owner, source.name, q, O, n)
      /\ Weight(ls[j], O, n) \in Nat /\ Weight(x, O, n) \in Nat
  BY <1>4 DEF Weight, Part
<1>6. HeldIn(ls, O, n) \in Nat /\ HeldIn(mt, O, n) \in Nat
  BY <1>1, HeldRest
<1>7. Part(source.owner, source.name, q, O, n) \in Nat /\ Part(x.owner, source.name, q, O, n) \in Nat
  BY <1>4 DEF Part
<1> QED
  BY <1>1, <1>3, <1>5, <1>6, <1>7 DEF mt

-----------------------------------------------------------------------------
(* Moves and the units held *)

\* What CommitMove knows of a line nobody touched since it was read.
LEMMA MoveHeld ==
    ASSUME IInv, NEW u \in Users, CommitMove(u), lines[req[u].line] = req[u].read,
           NEW O, NEW n
    PROVE  LET r == req[u] IN
           HeldIn(lines', O, n) = HeldIn(lines, O, n) + Part(r.target, r.read.name, r.qty, O, n)
                                    - Part(r.read.owner, r.read.name, r.qty, O, n)
<1> DEFINE r == req[u]
           Exact(ls) == HeldIn(ls, O, n) = HeldIn(lines, O, n)
                          + Part(r.target, r.read.name, r.qty, O, n)
                          - Part(r.read.owner, r.read.name, r.qty, O, n)
<1>1. r # Idle /\ r.kind = "move"
  BY DEF CommitMove, Doing
<1>2. /\ r.line \in LineIds /\ r.read \in Line /\ lines[r.line] = r.read
      /\ r.read # NoLine /\ lines \in Table /\ r.target \in Owners
      /\ r.target # r.read.owner /\ r.qty \in 1 .. r.read.qty
  BY <1>1, ConstantsAssumption DEF IInv, TypeOK, Checked, IsRequest, Table
<1>3. r.qty \in Nat /\ r.read.qty \in Nat
  BY <1>2 DEF Line
<1> HIDE DEF r
<1>4. ASSUME NEW m \in findMatch(r.target, r.read)
      PROVE  Exact(drainSource([lines EXCEPT ![m].qty = @ + r.qty], r.line, r.read, r.qty))
  <2>1. m \in LineIds /\ lines[m] \in Line /\ lines[m] # NoLine
        /\ lines[m].owner = r.target /\ lines[m].name = r.read.name
    BY <1>2 DEF findMatch, Table
  <2>2. m \in LineIds \ {r.line}
    BY <2>1, <1>2
  <2> DEFINE x == [lines[m] EXCEPT !.qty = @ + r.qty]
  <2>3. x \in Line /\ x.owner = r.target /\ x.name = r.read.name /\ x.qty = lines[m].qty + r.qty
    BY <2>1, <1>3 DEF Line
  <2>4. [lines EXCEPT ![m].qty = @ + r.qty] = [lines EXCEPT ![m] = x]
    OBVIOUS
  <2> HIDE DEF x
  <2> QED
    BY <1>2, <2>1, <2>2, <2>3, <2>4, HeldMoved
<1>5. ASSUME r.qty = r.read.qty
      PROVE  Exact([lines EXCEPT ![r.line] = [r.read EXCEPT !.owner = r.target]])
  <2> DEFINE x == [r.read EXCEPT !.owner = r.target]
  <2>1. x \in Line /\ x.owner = r.target /\ x.name = r.read.name /\ x.qty = r.qty
    BY <1>2, <1>5 DEF Line
  <2> HIDE DEF x
  <2>2. HeldIn([lines EXCEPT ![r.line] = x], O, n)
          = HeldIn(lines, O, n) - Weight(r.read, O, n) + Weight(x, O, n)
    BY <1>2, <2>1, HeldPut
  <2>3. x # NoLine
    BY <2>1, ConstantsAssumption
  <2>4. Weight(r.read, O, n) = Part(r.read.owner, r.read.name, r.qty, O, n)
        /\ Weight(x, O, n) = Part(r.target, r.read.name, r.qty, O, n)
    BY <1>2, <1>5, <2>1, <2>3 DEF Weight, Part
  <2>5. HeldIn(lines, O, n) \in Nat
    BY <1>2, HeldRest
  <2>6. Part(r.read.owner, r.read.name, r.qty, O, n) \in Nat
        /\ Part(r.target, r.read.name, r.qty, O, n) \in Nat
    BY <1>3 DEF Part
  <2> QED
    BY <2>2, <2>4, <2>5, <2>6 DEF x
<1>6. ASSUME NEW i \in Fresh
      PROVE  Exact(drainSource(
                [lines EXCEPT ![i] = [owner |-> r.target, name |-> r.read.name, qty |-> r.qty]],
                r.line, r.read, r.qty))
  <2> DEFINE x == [owner |-> r.target, name |-> r.read.name, qty |-> r.qty]
  <2>1. x \in Line /\ x.owner = r.target /\ x.name = r.read.name /\ x.qty = r.qty
    BY <1>2, <1>3 DEF Line
  <2>2. i \in LineIds \ {r.line} /\ lines[i] = NoLine
    BY <1>2 DEF Fresh
  <2> HIDE DEF x
  <2>3. Exact(drainSource([lines EXCEPT ![i] = x], r.line, r.read, r.qty))
    BY <1>2, <2>1, <2>2, HeldMoved
  <2> QED
    BY <2>3 DEF x
<1>7. \/ \E m \in findMatch(r.target, r.read) :
            lines' = drainSource([lines EXCEPT ![m].qty = @ + r.qty], r.line, r.read, r.qty)
      \/ r.qty = r.read.qty /\ lines' = [lines EXCEPT ![r.line] = [r.read EXCEPT !.owner = r.target]]
      \/ \E i \in Fresh : lines' = drainSource(
            [lines EXCEPT ![i] = [owner |-> r.target, name |-> r.read.name, qty |-> r.qty]],
            r.line, r.read, r.qty)
  BY DEF CommitMove, r
<1> HIDE DEF Exact
<1>8. Exact(lines')
  BY <1>4, <1>5, <1>6, <1>7
<1> QED
  BY <1>8 DEF Exact, r

\* The units the model's Held and Total count.
LEMMA HeldDefs ==
    ASSUME NEW n
    PROVE  /\ \A o : Held(o, n) = HeldIn(lines, {o}, n) /\ Held(o, n)' = HeldIn(lines', {o}, n)
           /\ lines \in Table => Total(n) = HeldIn(lines, Owners, n)
           /\ lines' \in Table => Total(n)' = HeldIn(lines', Owners, n)
<1>1. ASSUME NEW o
      PROVE  Held(o, n) = HeldIn(lines, {o}, n) /\ Held(o, n)' = HeldIn(lines', {o}, n)
  <2>1. /\ Mine(lines, {o}, n) = {i \in LineIds : lines[i] # NoLine /\ lines[i].owner = o /\ lines[i].name = n}
        /\ Mine(lines', {o}, n) = {i \in LineIds : lines'[i] # NoLine /\ lines'[i].owner = o /\ lines'[i].name = n}
    BY DEF Mine
  <2> QED
    BY <2>1, Zenon DEF Held, HeldIn, Units, FoldFunctionOnSet, MapThenFoldSet
<1>2. ASSUME NEW ls \in Table
      PROVE  Mine(ls, Owners, n) = {i \in LineIds : ls[i] # NoLine /\ ls[i].name = n}
  BY DEF Mine, Table, Line
<1>3. /\ lines \in Table => Total(n) = HeldIn(lines, Owners, n)
      /\ lines' \in Table => Total(n)' = HeldIn(lines', Owners, n)
  BY <1>2, Zenon DEF Total, HeldIn, Units, FoldFunctionOnSet, MapThenFoldSet
<1> QED
  BY <1>1, <1>3

\* Whatever else is going on, a move of a line nobody touched since it was
\* read takes the asked units from its inventory, gives them to the target and
\* leaves every other inventory and every other thing as it was.
THEOREM FreshMovesExact == Spec => FreshMoveIsExact
<1>1. ASSUME IInv, NEW u \in Users, NEW o \in Owners, NEW n \in Names,
             CommitMove(u), lines[req[u].line] = req[u].read
      PROVE  Held(o, n)' = Held(o, n)
                + (IF o = req[u].target /\ n = req[u].read.name THEN req[u].qty ELSE 0)
                - (IF o = req[u].read.owner /\ n = req[u].read.name THEN req[u].qty ELSE 0)
  <2> DEFINE r == req[u]
  <2>1. HeldIn(lines', {o}, n) = HeldIn(lines, {o}, n) + Part(r.target, r.read.name, r.qty, {o}, n)
                                    - Part(r.read.owner, r.read.name, r.qty, {o}, n)
    BY <1>1, MoveHeld
  <2> HIDE DEF r
  <2>2. /\ Part(r.target, r.read.name, r.qty, {o}, n)
             = (IF o = r.target /\ n = r.read.name THEN r.qty ELSE 0)
        /\ Part(r.read.owner, r.read.name, r.qty, {o}, n)
             = (IF o = r.read.owner /\ n = r.read.name THEN r.qty ELSE 0)
    BY DEF Part
  <2> QED
    BY <2>1, <2>2, HeldDefs DEF r
<1>2. IInv => [\A u \in Users, o \in Owners, n \in Names :
        CommitMove(u) /\ lines[req[u].line] = req[u].read =>
            Held(o, n)' = Held(o, n)
                + (IF o = req[u].target /\ n = req[u].read.name THEN req[u].qty ELSE 0)
                - (IF o = req[u].read.owner /\ n = req[u].read.name THEN req[u].qty ELSE 0)]_vars
  BY <1>1
<1> QED
  BY InitInv, StepInv, <1>2, PTL DEF Spec, FreshMoveIsExact

\* While one request at a time works on the lines, moves conserve the units of
\* everything (with two, they do not: the inventory_units run).
THEOREM SerialMovesConserve ==
    ASSUME MaxInFlight = 1
    PROVE  Spec => MoveConserves
<1>1. SerialInv /\ [Next]_vars => SerialInv'
  BY SerialStep
<1>2. ASSUME SerialInv, SerialInv', NEW u \in Users, NEW n \in Names, CommitMove(u)
      PROVE  Total(n)' = Total(n)
  <2> DEFINE r == req[u]
  <2>1. r # Idle
    BY <1>2 DEF CommitMove, Doing
  <2>2. /\ r.read \in Line /\ r.target \in Owners /\ lines[r.line] = r.read /\ r.qty \in Nat
        /\ lines \in Table /\ lines' \in Table /\ IInv
    BY <1>2, <2>1, Ready DEF SerialInv, IInv, TypeOK, Table, Checked, IsRequest
  <2>3. HeldIn(lines', Owners, n) = HeldIn(lines, Owners, n)
                + Part(r.target, r.read.name, r.qty, Owners, n)
                - Part(r.read.owner, r.read.name, r.qty, Owners, n)
    BY <1>2, <2>2, MoveHeld
  <2> HIDE DEF r
  <2>4. Part(r.target, r.read.name, r.qty, Owners, n) = Part(r.read.owner, r.read.name, r.qty, Owners, n)
        /\ Part(r.target, r.read.name, r.qty, Owners, n) \in Nat
    BY <2>2 DEF Part, Line
  <2>5. HeldIn(lines, Owners, n) \in Nat
    <3>1. r.line \in LineIds
      BY <1>2, <2>1, Ready DEF r
    <3> QED
      BY <2>2, <3>1, HeldRest
  <2> QED
    BY <2>2, <2>3, <2>4, <2>5, HeldDefs
<1>3. SerialInv /\ SerialInv' => [\A u \in Users, n \in Names :
        CommitMove(u) => Total(n)' = Total(n)]_vars
  BY <1>2
<1> QED
  BY SerialInit, <1>1, <1>3, PTL DEF Spec, MoveConserves

-----------------------------------------------------------------------------
(* One request at a time: the inventories implement the ledger *)

\* No line, and no line an edit is about to save, exceeds the bound on units.
Bounded ==
    /\ \A i \in LineIds : lines[i] # NoLine => lines[i].qty <= MaxQuantity
    /\ \A u \in Users : req[u] # Idle => req[u].row.qty <= MaxQuantity

LedgerInv == SerialInv /\ Bounded

LEMMA HeldNat ==
    ASSUME NEW ls \in Table, NEW O, NEW n
    PROVE  HeldIn(ls, O, n) \in Nat
<1>1. IsFiniteSet(Mine(ls, O, n)) /\ \A j \in Mine(ls, O, n) : ls[j].qty \in Nat
  BY ConstantsAssumption, FS_Subset DEF Mine, Table, Line
<1> QED
  BY <1>1, UnitsChosen DEF HeldIn

\* A line's units are among those its inventory holds.
LEMMA LineHeld ==
    ASSUME NEW i \in LineIds, lines \in Table, lines[i] # NoLine
    PROVE  lines[i].qty <= HeldIn(lines, {lines[i].owner}, lines[i].name)
<1>1. Weight(lines[i], {lines[i].owner}, lines[i].name) = lines[i].qty /\ lines[i].qty \in Nat
  BY DEF Weight, Table, Line
<1> DEFINE O == {lines[i].owner}
           n == lines[i].name
<1>2. HeldIn(lines, O, n) = Weight(lines[i], O, n) + Units(lines, Mine(lines, O, n) \ {i})
      /\ Units(lines, Mine(lines, O, n) \ {i}) \in Nat
  BY HeldRest
<1> QED
  BY <1>1, <1>2

\* The ledger before and after a step, inventory by inventory.
LEMMA HeldMap ==
    ASSUME lines \in Table, lines' \in Table
    PROVE  /\ held \in [Owners -> [Names -> Nat]] /\ held' \in [Owners -> [Names -> Nat]]
           /\ \A o \in Owners, n \in Names :
                /\ held[o][n] = HeldIn(lines, {o}, n)
                /\ held'[o][n] = HeldIn(lines', {o}, n)
<1>1. \A n : \A o : /\ Held(o, n) = HeldIn(lines, {o}, n)
                    /\ Held(o, n)' = HeldIn(lines', {o}, n)
  BY HeldDefs
<1>2. \A o, n : Held(o, n) \in Nat /\ Held(o, n)' \in Nat
  BY <1>1, HeldNat
<1>3. /\ held = [o \in Owners |-> [n \in Names |-> Held(o, n)]]
      /\ held' = [o \in Owners |-> [n \in Names |-> Held(o, n)']]
  BY DEF held
<1> QED
  BY <1>1, <1>2, <1>3

\* Ledgers with the same entries are the same.
LEMMA LedgerSame ==
    ASSUME NEW h \in [Owners -> [Names -> Int]], NEW k \in [Owners -> [Names -> Int]],
           \A p \in Owners, x \in Names : k[p][x] = h[p][x]
    PROVE  k = h
<1>1. \A p \in Owners : h[p] = [x \in Names |-> h[p][x]] /\ k[p] = [x \in Names |-> k[p][x]]
  OBVIOUS
<1>2. \A p \in Owners : k[p] = h[p]
  BY <1>1
<1> QED
  BY <1>2

LEMMA BoundedStep ==
    ASSUME MaxInFlight = 1, LedgerInv, [Next]_vars
    PROVE  LedgerInv'
<1> USE DEF vars
<1>1. SerialInv' /\ lines \in Table /\ DOMAIN req = Users /\ MaxQuantity \in Nat
  BY SerialStep, ConstantsAssumption DEF LedgerInv, SerialInv, IInv, TypeOK, Table
<1>2. /\ \A i \in LineIds : lines[i] # NoLine => lines[i].qty <= MaxQuantity
      /\ \A u \in Users : req[u] # Idle => req[u].row.qty <= MaxQuantity
  BY DEF LedgerInv, Bounded
<1>3. ASSUME NEW u \in Users, NEW o \in Owners, NEW n \in Names,
             NEW q \in 1 .. MaxQuantity, AddItem(u, o, n, q)
      PROVE  Bounded'
  BY <1>1, <1>2, <1>3 DEF AddItem, Fresh, Bounded, Table
<1>4. ASSUME NEW u \in Users, NEW r, Reads(u, r), r.row.qty <= MaxQuantity
      PROVE  Bounded'
  BY <1>1, <1>2, <1>4 DEF Reads, Bounded
<1>5. ASSUME NEW u \in Users, NEW i \in LineIds,
             \/ \E n \in Names, q \in 1 .. MaxQuantity : ReadUpdate(u, i, n, q)
             \/ ReadRemove(u, i)
             \/ \E o \in Owners, q \in 1 .. MaxQuantity : ReadMove(u, i, o, q)
      PROVE  Bounded'
  <2>1. lines[i] # NoLine /\ lines[i] \in Line
    BY <1>1, <1>5 DEF ReadUpdate, ReadRemove, ReadMove, MayRead, Table
  <2>2. lines[i].qty <= MaxQuantity
    BY <1>2, <2>1
  <2>3. \A n \in Names, q \in 1 .. MaxQuantity :
            LET row == [lines[i] EXCEPT !.name = n, !.qty = q]
            IN  Request("update", i, row, lines[i].owner, 0).row.qty <= MaxQuantity
    <3> TAKE n \in Names, q \in 1 .. MaxQuantity
    <3> DEFINE row == [lines[i] EXCEPT !.name = n, !.qty = q]
    <3>1. row.qty <= MaxQuantity
      BY <1>1, <2>1 DEF Line
    <3> HIDE DEF row
    <3>2. Request("update", i, row, lines[i].owner, 0).row.qty <= MaxQuantity
      BY <3>1 DEF Request
    <3> QED
      BY <3>2 DEF row
  <2>4. \A o \in Owners, q \in 1 .. MaxQuantity :
            Request("move", i, lines[i], o, q).row.qty <= MaxQuantity
    BY <2>2 DEF Request
  <2>5. Request("remove", i, lines[i], lines[i].owner, 0).row.qty <= MaxQuantity
    BY <2>2 DEF Request
  <2> QED
    BY <1>4, <1>5, <2>3, <2>4, <2>5 DEF ReadUpdate, ReadRemove, ReadMove
<1>6. ASSUME NEW u \in Users, Done(u),
             \A i \in LineIds : lines'[i] # NoLine => lines'[i].qty <= MaxQuantity
      PROVE  Bounded'
  BY <1>1, <1>2, <1>6 DEF Done, Bounded
<1>7. ASSUME NEW u \in Users, CommitUpdate(u)
      PROVE  Bounded'
  <2>1. req[u] # Idle
    BY <1>7 DEF CommitUpdate, Doing
  <2> QED
    BY <1>1, <1>2, <1>6, <1>7, <2>1 DEF CommitUpdate, Table
<1>8. ASSUME NEW u \in Users, CommitRemove(u)
      PROVE  Bounded'
  BY <1>1, <1>2, <1>6, <1>8 DEF CommitRemove, Table
<1>9. ASSUME NEW u \in Users, CommitMove(u)
      PROVE  Bounded'
  <2> DEFINE r == req[u]
             Fits(ls) == \A i \in LineIds : ls[i] # NoLine => ls[i].qty <= MaxQuantity
  <2>1. r # Idle /\ r.kind = "move"
    BY <1>9 DEF CommitMove, Doing
  <2>2. /\ r.line \in LineIds /\ r.read \in Line /\ r.read.qty <= MaxQuantity
        /\ r.qty \in 1 .. r.read.qty /\ r.target \in Owners
    BY <1>2, <2>1, Ready DEF LedgerInv, Checked
  <2>3. r.qty \in Nat /\ r.read.qty \in Nat
    BY <2>2 DEF Line
  <2> HIDE DEF r
  <2>4. ASSUME NEW ls \in Table, Fits(ls)
        PROVE  Fits(drainSource(ls, r.line, r.read, r.qty))
    <3> DEFINE x == [r.read EXCEPT !.qty = @ - r.qty]
    <3>1. x.qty <= MaxQuantity
      BY <1>1, <2>2, <2>3 DEF Line
    <3> HIDE DEF x
    <3>2. Fits([ls EXCEPT ![r.line] = NoLine]) /\ Fits([ls EXCEPT ![r.line] = x])
      BY <2>4, <3>1 DEF Table
    <3>3. drainSource(ls, r.line, r.read, r.qty)
            \in {[ls EXCEPT ![r.line] = NoLine], [ls EXCEPT ![r.line] = x]}
      BY DEF drainSource, x
    <3> HIDE DEF Fits
    <3> QED
      BY <3>2, <3>3
  <2>5. ASSUME NEW i \in LineIds, NEW x \in Line, x.qty <= MaxQuantity
        PROVE  [lines EXCEPT ![i] = x] \in Table /\ Fits([lines EXCEPT ![i] = x])
    BY <1>1, <1>2, <2>5 DEF Table
  <2>6. ASSUME NEW m \in findMatch(r.target, r.read), lines[m].qty + r.qty <= MaxQuantity
        PROVE  Fits(drainSource([lines EXCEPT ![m].qty = @ + r.qty], r.line, r.read, r.qty))
    <3> DEFINE x == [lines[m] EXCEPT !.qty = @ + r.qty]
    <3>1. m \in LineIds /\ x \in Line /\ x.qty = lines[m].qty + r.qty
      BY <1>1, <2>3 DEF findMatch, Table, Line
    <3>2. [lines EXCEPT ![m].qty = @ + r.qty] = [lines EXCEPT ![m] = x]
      OBVIOUS
    <3> HIDE DEF x, Fits
    <3> QED
      BY <2>4, <2>5, <2>6, <3>1, <3>2
  <2>7. Fits([lines EXCEPT ![r.line] = [r.read EXCEPT !.owner = r.target]])
    <3>1. [r.read EXCEPT !.owner = r.target] \in Line
          /\ [r.read EXCEPT !.owner = r.target].qty = r.read.qty
      BY <2>2 DEF Line
    <3> HIDE DEF Fits
    <3> QED
      BY <2>2, <2>5, <3>1
  <2>8. ASSUME NEW i \in Fresh
        PROVE  Fits(drainSource(
                [lines EXCEPT ![i] = [owner |-> r.target, name |-> r.read.name, qty |-> r.qty]],
                r.line, r.read, r.qty))
    <3> DEFINE x == [owner |-> r.target, name |-> r.read.name, qty |-> r.qty]
    <3>1. i \in LineIds /\ x \in Line /\ x.qty <= MaxQuantity
      BY <1>1, <2>2, <2>3 DEF Fresh, Line
    <3> HIDE DEF x, Fits
    <3>2. Fits(drainSource([lines EXCEPT ![i] = x], r.line, r.read, r.qty))
      BY <2>4, <2>5, <3>1
    <3> QED
      BY <3>2 DEF x
  <2> HIDE DEF Fits
  <2>9. Fits(lines')
    BY <1>9, <2>6, <2>7, <2>8 DEF CommitMove, r
  <2> QED
    BY <1>6, <1>9, <2>9 DEF CommitMove, Fits
<1>10. ASSUME NEW u \in Users, Abandon(u)
       PROVE  Bounded'
  BY <1>2, <1>6, <1>10 DEF Abandon
<1>11. ASSUME UNCHANGED vars
       PROVE  Bounded'
  BY <1>2, <1>11 DEF Bounded
<1>12. Bounded'
  BY <1>3, <1>5, <1>7, <1>8, <1>9, <1>10, <1>11 DEF Next
<1> QED
  BY <1>1, <1>12 DEF LedgerInv

LEMMA LedgerInit == Init => LedgerInv /\ L!Init
<1> SUFFICES ASSUME Init PROVE LedgerInv /\ L!Init
  OBVIOUS
<1>1. LedgerInv
  BY SerialInit DEF Init, LedgerInv, Bounded
<1>2. lines \in Table /\ \A i \in LineIds : lines[i] = NoLine
  BY DEF Init, Table
<1>3. ASSUME NEW o \in Owners, NEW n \in Names
      PROVE  Held(o, n) = 0
  <2>1. Mine(lines, {o}, n) = {}
    BY <1>2 DEF Mine
  <2>2. HeldIn(lines, {o}, n) = 0
    BY <2>1, FS_EmptySet, UnitsChosen DEF HeldIn
  <2> QED
    BY <2>2, HeldDefs
<1>4. held = [o \in Owners |-> [n \in Names |-> 0]]
  BY <1>3 DEF held
<1> QED
  BY <1>1, <1>4 DEF L!Init

\* Every step of the inventories is a step of the ledger or leaves it alone.
LEMMA LedgerStep ==
    ASSUME LedgerInv, LedgerInv', [Next]_vars
    PROVE  [L!Next]_held
<1> USE DEF vars
<1>1. /\ lines \in Table /\ lines' \in Table /\ MaxQuantity \in Nat
      /\ SerialInv /\ IInv
      /\ \A i \in LineIds : lines[i] # NoLine => lines[i].qty <= MaxQuantity
      /\ \A u \in Users : req[u] # Idle => req[u].row.qty <= MaxQuantity
  BY ConstantsAssumption DEF LedgerInv, SerialInv, IInv, TypeOK, Table, Bounded
<1> DEFINE h == held
           k == held'
<1>0. h \in [Owners -> [Names -> Nat]] /\ k \in [Owners -> [Names -> Nat]]
  BY <1>1, HeldMap
<1>0a. h \in [Owners -> [Names -> Int]] /\ k \in [Owners -> [Names -> Int]]
  BY <1>0
<1>2. \A o \in Owners, n \in Names : /\ h[o][n] = HeldIn(lines, {o}, n)
                                     /\ k[o][n] = HeldIn(lines', {o}, n)
  BY <1>1, HeldMap
<1> HIDE DEF h, k
<1>3. ASSUME lines' = lines
      PROVE  k = h
  <2>1. \A p \in Owners, x \in Names : k[p][x] = h[p][x]
    BY <1>2, <1>3
  <2> QED
    BY <1>0a, <2>1, LedgerSame, Zenon
<1>4. ASSUME NEW u \in Users, NEW o \in Owners, NEW n \in Names,
             NEW q \in 1 .. MaxQuantity, AddItem(u, o, n, q)
      PROVE  L!Next
  <2>1. PICK i \in Fresh : lines' = [lines EXCEPT ![i] = [owner |-> o, name |-> n, qty |-> q]]
    BY <1>4 DEF AddItem
  <2> DEFINE x == [owner |-> o, name |-> n, qty |-> q]
  <2>2. x \in Line /\ x # NoLine /\ q \in Nat /\ i \in LineIds /\ lines[i] = NoLine
    BY <1>1, ConstantsAssumption DEF Line, Fresh
  <2>3. \A O, m : Weight(x, O, m) = Part(o, n, q, O, m) /\ Weight(lines[i], O, m) = 0
    BY <2>2 DEF Weight, Part
  <2>4. lines' = [lines EXCEPT ![i] = x]
    BY <2>1
  <2> HIDE DEF x
  <2>5. \A O, m : HeldIn(lines', O, m) = HeldIn(lines, O, m) + Part(o, n, q, O, m)
    <3> TAKE O, m
    <3>1. HeldIn([lines EXCEPT ![i] = x], O, m)
            = HeldIn(lines, O, m) - Weight(lines[i], O, m) + Weight(x, O, m)
      BY <1>1, <2>2, HeldPut
    <3>2. HeldIn(lines, O, m) \in Nat
      BY <1>1, HeldNat
    <3> QED
      BY <2>3, <2>4, <3>1, <3>2
  <2>9. \A p \in Owners, y \in Names : k[p][y] = h[p][y] + Part(o, n, q, {p}, y)
    BY <1>2, <2>5
  <2>6. k = [h EXCEPT ![o][n] = @ + q]
    <3> DEFINE g == [h EXCEPT ![o][n] = @ + q]
    <3>1. g \in [Owners -> [Names -> Int]] /\ k \in [Owners -> [Names -> Int]]
      BY <1>0, <2>2, <2>9
    <3>2. \A p \in Owners, y \in Names : g[p][y] = k[p][y]
      BY <1>0, <2>2, <2>9 DEF Part
    <3> HIDE DEF g
    <3>3. k = g
      BY <3>1, <3>2, LedgerSame, Zenon
    <3> QED
      BY <3>3 DEF g
  <2> QED
    BY <2>6 DEF L!Next, L!Deposit, h, k
<1>5. ASSUME NEW u \in Users, CommitUpdate(u)
      PROVE  L!Next
  <2> DEFINE r == req[u]
  <2>1. lines' = [lines EXCEPT ![r.line] = r.row]
    BY <1>5 DEF CommitUpdate
  <2>2. /\ r.line \in LineIds /\ r.read \in Line /\ r.row \in Line /\ lines[r.line] = r.read
        /\ r.read # NoLine /\ r.row.owner = r.read.owner
        /\ r.read.qty >= 1 /\ r.row.qty >= 1 /\ r.read.qty <= MaxQuantity /\ r.row.qty <= MaxQuantity
    BY <1>1, <1>5, Ready DEF Checked, CommitUpdate, Doing
  <2> HIDE DEF r
  <2> DEFINE o == r.read.owner
             n == r.read.name
             q == r.read.qty
             m == r.row.name
             s == r.row.qty
  <2>3. /\ o \in Owners /\ n \in Names /\ m \in Names
        /\ q \in 1 .. MaxQuantity /\ s \in 1 .. MaxQuantity /\ q \in Nat /\ s \in Nat
    BY <1>1, <2>2 DEF Line
  <2>4. r.row # NoLine
    BY <2>2, ConstantsAssumption
  <2>5. \A O, x : Weight(r.row, O, x) = Part(o, m, s, O, x)
                  /\ Weight(lines[r.line], O, x) = Part(o, n, q, O, x)
    BY <2>2, <2>4 DEF Weight, Part
  <2>6. \A O, x : HeldIn(lines', O, x)
                    = HeldIn(lines, O, x) + Part(o, m, s, O, x) - Part(o, n, q, O, x)
    <3> TAKE O, x
    <3>0. HeldIn([lines EXCEPT ![r.line] = r.row], O, x)
            = HeldIn(lines, O, x) - Weight(lines[r.line], O, x) + Weight(r.row, O, x)
      BY <1>1, <2>2, HeldPut
    <3>1. HeldIn(lines', O, x)
            = HeldIn(lines, O, x) - Weight(lines[r.line], O, x) + Weight(r.row, O, x)
      BY <2>1, <3>0
    <3>2. HeldIn(lines, O, x) \in Nat
      BY <1>1, HeldNat
    <3>3. Part(o, n, q, O, x) \in Nat /\ Part(o, m, s, O, x) \in Nat
      BY <2>3 DEF Part
    <3> QED
      BY <2>5, <3>1, <3>2, <3>3
  <2>7. q <= h[o][n]
    BY <1>1, <1>2, <2>2, <2>3, LineHeld
  <2>9. \A p \in Owners, y \in Names :
           k[p][y] = h[p][y] + Part(o, m, s, {p}, y) - Part(o, n, q, {p}, y)
    BY <1>2, <2>6
  <2> HIDE DEF o, n, q, m, s
  <2>8. k = [h EXCEPT ![o] = [x \in Names |->
                    h[o][x] - (IF x = n THEN q ELSE 0) + (IF x = m THEN s ELSE 0)]]
    <3> DEFINE g == [h EXCEPT ![o] = [x \in Names |->
                    h[o][x] - (IF x = n THEN q ELSE 0) + (IF x = m THEN s ELSE 0)]]
    <3>1. g \in [Owners -> [Names -> Int]] /\ k \in [Owners -> [Names -> Int]]
      BY <1>0, <2>3, <2>9
    <3>2. \A p \in Owners, y \in Names : g[p][y] = k[p][y]
      <4> TAKE p \in Owners, y \in Names
      <4>1. k[p][y] = h[p][y] + Part(o, m, s, {p}, y) - Part(o, n, q, {p}, y)
            /\ h[p][y] \in Nat
        BY <1>0, <2>9
      <4>2. CASE p = o
        <5>1. g[p][y] = h[p][y] - (IF y = n THEN q ELSE 0) + (IF y = m THEN s ELSE 0)
          BY <1>0, <2>3, <4>2
        <5> QED
          BY <2>3, <4>1, <4>2, <5>1 DEF Part
      <4>3. CASE p # o
        <5>1. g[p][y] = h[p][y]
          BY <1>0, <4>3
        <5> QED
          BY <4>1, <4>3, <5>1 DEF Part
      <4> QED
        BY <4>2, <4>3
    <3> HIDE DEF g
    <3>3. k = g
      BY <3>1, <3>2, LedgerSame, Zenon
    <3> QED
      BY <3>3 DEF g
  <2>10. L!Recount(o, n, q, m, s)
    BY <2>7, <2>8 DEF L!Recount, h, k
  <2> QED
    BY <2>3, <2>10 DEF L!Next
<1>6. ASSUME NEW u \in Users, CommitRemove(u)
      PROVE  L!Next
  <2> DEFINE r == req[u]
  <2>1. lines' = [lines EXCEPT ![r.line] = NoLine]
    BY <1>6 DEF CommitRemove
  <2>2. /\ r.line \in LineIds /\ r.read \in Line /\ lines[r.line] = r.read
        /\ r.read # NoLine /\ r.read.qty >= 1 /\ r.read.qty <= MaxQuantity
    BY <1>1, <1>6, Ready DEF Checked, CommitRemove, Doing
  <2> HIDE DEF r
  <2> DEFINE o == r.read.owner
             n == r.read.name
             q == r.read.qty
  <2>3. o \in Owners /\ n \in Names /\ q \in 1 .. MaxQuantity /\ q \in Nat
    BY <1>1, <2>2 DEF Line
  <2>4. \A O, x : Weight(NoLine, O, x) = 0
                  /\ Weight(lines[r.line], O, x) = Part(o, n, q, O, x)
    BY <2>2 DEF Weight, Part
  <2>5. \A O, x : HeldIn(lines', O, x) = HeldIn(lines, O, x) - Part(o, n, q, O, x)
    <3> TAKE O, x
    <3>0. HeldIn([lines EXCEPT ![r.line] = NoLine], O, x)
            = HeldIn(lines, O, x) - Weight(lines[r.line], O, x) + Weight(NoLine, O, x)
      <4>1. NoLine \in Line \cup {NoLine} /\ r.line \in LineIds /\ lines \in Table
        BY <1>1, <2>2
      <4> DEFINE i == r.line
      <4>2. i \in LineIds
        BY <4>1
      <4> HIDE DEF i
      <4>3. HeldIn([lines EXCEPT ![i] = NoLine], O, x)
              = HeldIn(lines, O, x) - Weight(lines[i], O, x) + Weight(NoLine, O, x)
        BY <4>1, <4>2, HeldPut
      <4> QED
        BY <4>3 DEF i
    <3>1. HeldIn(lines', O, x)
            = HeldIn(lines, O, x) - Weight(lines[r.line], O, x) + Weight(NoLine, O, x)
      BY <2>1, <3>0
    <3>2. HeldIn(lines, O, x) \in Nat
      BY <1>1, HeldNat
    <3>3. Part(o, n, q, O, x) \in Nat
      BY <2>3 DEF Part
    <3> QED
      BY <2>4, <3>1, <3>2, <3>3
  <2>6. q <= h[o][n]
    BY <1>1, <1>2, <2>2, <2>3, LineHeld
  <2>9. \A p \in Owners, y \in Names : k[p][y] = h[p][y] - Part(o, n, q, {p}, y)
    BY <1>2, <2>5
  <2> HIDE DEF o, n, q
  <2>7. k = [h EXCEPT ![o][n] = @ - q]
    <3> DEFINE g == [h EXCEPT ![o][n] = @ - q]
    <3>1. g \in [Owners -> [Names -> Int]] /\ k \in [Owners -> [Names -> Int]]
      BY <1>0, <2>3, <2>9
    <3>2. \A p \in Owners, y \in Names : g[p][y] = k[p][y]
      BY <1>0, <2>3, <2>9 DEF Part
    <3> HIDE DEF g
    <3>3. k = g
      BY <3>1, <3>2, LedgerSame, Zenon
    <3> QED
      BY <3>3 DEF g
  <2> QED
    BY <2>3, <2>6, <2>7 DEF L!Next, L!Withdraw, h, k
<1>7. ASSUME NEW u \in Users, CommitMove(u)
      PROVE  L!Next
  <2> DEFINE r == req[u]
  <2>1. r # Idle /\ r.kind = "move"
    BY <1>7 DEF CommitMove, Doing
  <2>2. /\ r.line \in LineIds /\ r.read \in Line /\ lines[r.line] = r.read
        /\ r.read # NoLine /\ r.read.qty <= MaxQuantity
        /\ r.target \in Owners /\ r.target # r.read.owner /\ r.qty \in 1 .. r.read.qty
    BY <1>1, <2>1, Ready DEF Checked
  <2>3. \A O, x : HeldIn(lines', O, x) = HeldIn(lines, O, x)
                    + Part(r.target, r.read.name, r.qty, O, x)
                    - Part(r.read.owner, r.read.name, r.qty, O, x)
    BY <1>1, <1>7, <2>2, MoveHeld
  <2> HIDE DEF r
  <2> DEFINE o == r.read.owner
             n == r.read.name
             q == r.qty
             b == r.target
  <2>4. o \in Owners /\ n \in Names /\ q \in 1 .. MaxQuantity /\ q \in Nat /\ r.read.qty \in Nat
    BY <1>1, <2>2 DEF Line
  <2>5. r.read.qty <= h[o][n]
    BY <1>1, <1>2, <2>2, <2>4, LineHeld
  <2>6. q <= h[o][n]
    <3> HIDE DEF o, n
    <3>1. h[o][n] \in Nat
      BY <1>0, <2>4
    <3> QED
      BY <2>2, <2>4, <2>5, <3>1
  <2>7. \A p \in Owners, x \in Names :
           k[p][x] = h[p][x] + Part(b, n, q, {p}, x) - Part(o, n, q, {p}, x)
    BY <1>2, <2>3
  <2>8. b \in Owners \ {o}
    BY <2>2
  <2> HIDE DEF o, n, q, b
  <2>9. k = [h EXCEPT ![o][n] = @ - q, ![b][n] = @ + q]
    <3> DEFINE g == [h EXCEPT ![o][n] = @ - q, ![b][n] = @ + q]
    <3> DEFINE f == [h EXCEPT ![o][n] = @ - q]
    <3>0. f \in [Owners -> [Names -> Int]] /\ f[b] = h[b] /\ g = [f EXCEPT ![b][n] = @ + q]
      BY <1>0, <2>4, <2>8
    <3>1. g \in [Owners -> [Names -> Int]] /\ k \in [Owners -> [Names -> Int]]
      <4> HIDE DEF f, g
      <4> QED
        BY <1>0a, <2>4, <2>8, <3>0
    <3>2. \A p \in Owners, y \in Names : g[p][y] = k[p][y]
      <4> TAKE p \in Owners, y \in Names
      <4>1. k[p][y] = h[p][y] + Part(b, n, q, {p}, y) - Part(o, n, q, {p}, y)
            /\ h[p][y] \in Nat
        BY <1>0, <2>7
      <4>2. g[p][y] = IF p = o /\ y = n THEN h[p][y] - q
                      ELSE IF p = b /\ y = n THEN h[p][y] + q ELSE h[p][y]
        BY <1>0, <2>4, <2>8
      <4> QED
        BY <2>4, <2>8, <4>1, <4>2 DEF Part
    <3> HIDE DEF g
    <3>3. k = g
      BY <3>1, <3>2, LedgerSame, Zenon
    <3> QED
      BY <3>3 DEF g
  <2> QED
    BY <2>4, <2>6, <2>8, <2>9 DEF L!Next, L!Transfer, h, k
<1>8. \A u, r : Reads(u, r) => lines' = lines
  BY DEF Reads
<1>9. \A u : Abandon(u) => lines' = lines
  BY DEF Abandon
<1>10. [Next]_vars => L!Next \/ lines' = lines
  BY <1>4, <1>5, <1>6, <1>7, <1>8, <1>9 DEF Next, ReadUpdate, ReadRemove, ReadMove
<1> QED
  BY <1>3, <1>10 DEF h, k

\* While one request at a time works on the lines, the inventories implement
\* the ledger of units: whatever merges, splits and re-ownings a request makes
\* of the lines, what every inventory holds changes by a deposit, a withdrawal,
\* a recount or a transfer of the quantities asked.
THEOREM SerialLedger ==
    ASSUME MaxInFlight = 1
    PROVE  Spec => KeepsLedger
<1>1. LedgerInv /\ [Next]_vars => LedgerInv'
  BY BoundedStep
<1>2. LedgerInv /\ LedgerInv' /\ [Next]_vars => [L!Next]_held
  BY LedgerStep
<1> QED
  BY LedgerInit, <1>1, <1>2, PTL DEF Spec, KeepsLedger, L!Spec

=============================================================================
