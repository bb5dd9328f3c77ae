------------------------- MODULE DocumentsSaveProofs -------------------------
(***************************************************************************)
(* What a save leaves behind, for any number of tabs, documents, sections  *)
(* and requests in flight: sections no two of which share a position, and,  *)
(* where nobody else changed the document, exactly one version more.       *)
(***************************************************************************)
EXTENDS DocumentsProofs

-----------------------------------------------------------------------------
(* The order of a list *)

Ordered(f) == \A s, u \in DOMAIN f : f[s].pos = f[u].pos => s = u

Before(f, s) == {u \in DOMAIN f : f[u].pos < f[s].pos}

\* The new position of a row is the number of rows before it.
LEMMA RenumberPos ==
    ASSUME NEW f, IsList(f), NEW s \in DOMAIN f
    PROVE  /\ DOMAIN Renumber(f) = DOMAIN f
           /\ Renumber(f)[s].pos = Cardinality(Before(f, s))
           /\ Renumber(f)[s].pos \in 0 .. Cardinality(DOMAIN f) - 1
<1>1. Renumber(f)[s] = [f[s] EXCEPT !.pos = Cardinality(Before(f, s))]
  BY DEF Renumber, Before
<1>2. Renumber(f)[s].pos = Cardinality(Before(f, s))
  BY <1>1, ListFacts DEF SecBody
<1>3. /\ Before(f, s) \in SUBSET DOMAIN f /\ s \notin Before(f, s)
  BY ListFacts DEF Before, SecBody
<1>4. /\ Cardinality(Before(f, s)) \in Nat
      /\ Cardinality(Before(f, s)) <= Cardinality(DOMAIN f)
      /\ Cardinality(Before(f, s)) # Cardinality(DOMAIN f)
  BY <1>3, ListFacts, FS_Subset, FS_CardinalityType
<1>5. Cardinality(DOMAIN f) \in Nat
  BY ListFacts
<1> QED
  BY <1>2, <1>4, <1>5, RenumberIsList

\* Numbering keeps the order of the rows.
LEMMA RenumberKeepsOrder ==
    ASSUME NEW f, IsList(f), NEW s \in DOMAIN f, NEW u \in DOMAIN f
    PROVE  Renumber(f)[u].pos < Renumber(f)[s].pos <=> f[u].pos < f[s].pos
<1>1. f[s].pos \in Nat /\ f[u].pos \in Nat
  BY ListFacts DEF SecBody
<1>2. /\ IsFiniteSet(Before(f, s)) /\ IsFiniteSet(Before(f, u))
      /\ Cardinality(Before(f, s)) \in Nat /\ Cardinality(Before(f, u)) \in Nat
  <2>1. Before(f, s) \in SUBSET DOMAIN f /\ Before(f, u) \in SUBSET DOMAIN f
    BY DEF Before
  <2> QED
    BY <2>1, ListFacts, FS_Subset, FS_CardinalityType
<1>3. CASE f[u].pos < f[s].pos
  <2>1. Before(f, u) \in SUBSET Before(f, s) /\ u \in Before(f, s) /\ u \notin Before(f, u)
    BY <1>1, <1>3, ListFacts DEF Before, SecBody
  <2>2. /\ Cardinality(Before(f, u)) <= Cardinality(Before(f, s))
        /\ Cardinality(Before(f, s)) # Cardinality(Before(f, u))
    BY <1>2, <2>1, FS_Subset
  <2> QED
    BY <1>2, <1>3, <2>2, RenumberPos
<1>4. CASE ~(f[u].pos < f[s].pos)
  <2>1. Before(f, s) \in SUBSET Before(f, u)
    BY <1>1, <1>4, ListFacts DEF Before, SecBody
  <2>2. Cardinality(Before(f, s)) <= Cardinality(Before(f, u))
    BY <1>2, <2>1, FS_Subset
  <2> QED
    BY <1>2, <1>4, <2>2, RenumberPos
<1> QED
  BY <1>3, <1>4

\* Numbering leaves rows of different positions at different positions.
LEMMA RenumberOrdered ==
    ASSUME NEW f, IsList(f), Ordered(f)
    PROVE  Ordered(Renumber(f))
<1>1. ASSUME NEW s \in DOMAIN f, NEW u \in DOMAIN f, Renumber(f)[s].pos = Renumber(f)[u].pos
      PROVE  s = u
  <2>1. Renumber(f)[s].pos \in Int /\ f[s].pos \in Nat /\ f[u].pos \in Nat
    BY RenumberPos, ListFacts DEF SecBody
  <2>2. ~(f[u].pos < f[s].pos) /\ ~(f[s].pos < f[u].pos)
    BY <1>1, <2>1, RenumberKeepsOrder
  <2> QED
    BY <2>1, <2>2 DEF Ordered
<1> QED
  BY <1>1, RenumberIsList DEF Ordered

-----------------------------------------------------------------------------
(* Saves of a document nobody else changed *)

\* The GM-only rows of a list read are in the list to save, as they were read and
\* in their order.
GMRowsIn(base, final) ==
    \A s \in DOMAIN base : base[s].gm =>
        /\ s \in DOMAIN final /\ final[s].gm /\ final[s].text = base[s].text
        /\ \A u \in DOMAIN base : base[u].gm =>
            (base[u].pos < base[s].pos <=> final[u].pos < final[s].pos)

\* What a request that is ready to save has of what it read.
Safe(t, r) ==
    r.step = "ready" /\ r.kind \in {"update", "share"} =>
        /\ r.row.version = r.read.version + 1
        /\ r.kind = "update" /\ r.guarded =>
                page[t] # NoPage /\ r.read.version = page[t].row.version
        /\ t \notin GMTabs => GMRowsIn(r.base, r.final)
        /\ t \notin GMTabs /\ r.kind = "update" => r.row.day = r.read.day

RequestsSafe == \A t \in Tabs : req[t] # Idle => Safe(t, req[t])

\* A step of a tab other than t leaves t's request and page alone; what t's
\* own step leaves is named.
LEMMA OwnStep ==
    ASSUME TypeOK, [Next]_vars
    PROVE  \/ UNCHANGED vars
           \/ \E t \in Tabs :
                /\ \A u \in Tabs \ {t} : req'[u] = req[u] /\ page'[u] = page[u]
                /\ \/ req'[t] = Idle
                   \/ req'[t].step # "ready"
                   \/ req'[t].kind = "create"
                   \/ \E path \in Paths, day \in Days, guarded \in BOOLEAN, allow \in BOOLEAN :
                        CheckUpdate(t, path, day, guarded, allow)
                   \/ \E target \in GroupRepos, day \in Days, allow \in BOOLEAN :
                        CheckShare(t, target, day, allow)
<1> DEFINE Others(t) == \A u \in Tabs \ {t} : req'[u] = req[u] /\ page'[u] = page[u]
           Quiet(t) == req'[t] = Idle \/ req'[t].step # "ready" \/ req'[t].kind = "create"
<1>1. ASSUME NEW t \in Tabs, NEW d \in DocIds, NotFound(t, d) PROVE UNCHANGED vars
  BY <1>1 DEF NotFound
<1>2. ASSUME NEW t \in Tabs, NEW d \in DocIds, NEW kind, ReadRow(t, d, kind)
      PROVE  Others(t) /\ Quiet(t)
  <2> DEFINE v == Request(kind, "row", d, docs[d], docs[d], NoRows, NoRows, FALSE, FALSE)
  <2>1. v.step # "ready"
    BY DEF Request
  <2>2. req' = [req EXCEPT ![t] = v] /\ page' = page
    BY <1>2 DEF ReadRow
  <2> HIDE DEF v
  <2> QED
    BY <2>1, <2>2 DEF TypeOK
<1>3. ASSUME NEW t \in Tabs, NEW d \in DocIds, NEW repo, NEW path, NEW day, NEW allow,
             CheckCreate(t, d, repo, path, day, allow)
      PROVE  Others(t) /\ Quiet(t)
  <2> DEFINE row     == [repo |-> repo, path |-> path, day |-> day, version |-> 1]
             v(rows) == Request("create", "ready", d, row, row, NoRows, rows, FALSE, allow)
  <2>1. PICK rows : req' = [req EXCEPT ![t] = v(rows)] /\ page' = page
    BY <1>3 DEF CheckCreate
  <2>2. v(rows).kind = "create"
    BY DEF Request
  <2> HIDE DEF v
  <2> QED
    BY <2>1, <2>2 DEF TypeOK
<1>4. ASSUME NEW t \in Tabs, Get(t) \/ Delete(t) \/ Abandon(t) PROVE Others(t) /\ Quiet(t)
  BY <1>4 DEF Get, Delete, Abandon, TypeOK
<1>5. ASSUME NEW t \in Tabs, Reload(t) PROVE Others(t) /\ Quiet(t)
  <2> DEFINE d == req[t].doc
             v == Request("reload", "row", d, docs[d], docs[d], NoRows, NoRows, FALSE, FALSE)
  <2>1. v.step # "ready"
    BY DEF Request
  <2>2. req' = [req EXCEPT ![t] = IF Live(d) THEN v ELSE Idle] /\ page' = page
    BY <1>5 DEF Reload
  <2> HIDE DEF v
  <2> QED
    BY <2>1, <2>2 DEF TypeOK
<1>6. ASSUME NEW t \in Tabs, Save(t) PROVE Others(t) /\ Quiet(t)
  <2> DEFINE r == req[t]
             v == Request("reload", "saved", r.doc, r.row, r.row, NoRows, NoRows, FALSE, FALSE)
  <2>1. v.step # "ready"
    BY DEF Request
  <2>2. \/ req' = [req EXCEPT ![t] = v] /\ page' = page
        \/ req' = [req EXCEPT ![t] = Idle] /\ \E p : page' = [page EXCEPT ![t] = p]
    BY <1>6 DEF Save
  <2> HIDE DEF v
  <2> QED
    BY <2>1, <2>2 DEF TypeOK
<1>7. ASSUME NEW t \in Tabs, NEW row, NEW base, NEW final, NEW guarded, NEW allow,
             Ready(t, row, base, final, guarded, allow)
      PROVE  Others(t)
  BY <1>7 DEF Ready, TypeOK
<1>8. ASSUME NEW t \in Tabs,
             \/ \E path \in Paths, day \in Days, guarded \in BOOLEAN, allow \in BOOLEAN :
                    CheckUpdate(t, path, day, guarded, allow)
             \/ \E target \in GroupRepos, day \in Days, allow \in BOOLEAN :
                    CheckShare(t, target, day, allow)
      PROVE  Others(t)
  BY <1>7, <1>8 DEF CheckUpdate, CheckShare
<1> HIDE DEF Others, Quiet
<1>9. \/ UNCHANGED vars
      \/ \E t \in Tabs :
            /\ Others(t)
            /\ \/ Quiet(t)
               \/ \E path \in Paths, day \in Days, guarded \in BOOLEAN, allow \in BOOLEAN :
                    CheckUpdate(t, path, day, guarded, allow)
               \/ \E target \in GroupRepos, day \in Days, allow \in BOOLEAN :
                    CheckShare(t, target, day, allow)
  BY <1>1, <1>2, <1>3, <1>4, <1>5, <1>6, <1>8 DEF Next
<1> QED
  BY <1>9 DEF Others, Quiet

\* The request of a tab that becomes ready.
LEMMA ReadyRequest ==
    ASSUME TypeOK, NEW t \in Tabs, NEW row, NEW base, NEW final, NEW guarded, NEW allow,
           Ready(t, row, base, final, guarded, allow)
    PROVE  /\ req'[t].kind = req[t].kind /\ req'[t].doc = req[t].doc
           /\ req'[t].read = req[t].read /\ req'[t].row = row
           /\ req'[t].base = base /\ req'[t].final = final /\ req'[t].guarded = guarded
           /\ \A u \in Tabs \ {t} : req'[u] = req[u]
           /\ UNCHANGED <<docs, secs, log, page>>
<1> DEFINE v == Request(req[t].kind, "ready", req[t].doc, req[t].read,
                        row, base, final, guarded, allow)
<1>1. /\ v.kind = req[t].kind /\ v.doc = req[t].doc /\ v.read = req[t].read /\ v.row = row
      /\ v.base = base /\ v.final = final /\ v.guarded = guarded
  BY DEF Request
<1>2. req' = [req EXCEPT ![t] = v] /\ UNCHANGED <<docs, secs, log, page>>
  BY DEF Ready
<1> HIDE DEF v
<1> QED
  BY <1>1, <1>2 DEF TypeOK

\* Numbering keeps the GM-only rows and their order.
LEMMA RenumberKeepsGMRows ==
    ASSUME NEW f, IsList(f)
    PROVE  GMRowsIn(f, Renumber(f))
  BY RenumberIsList, RenumberKeepsOrder DEF GMRowsIn

\* A player's merge keeps the GM-only rows and their order.
LEMMA MergeKeepsGMRows ==
    ASSUME NEW t, t \notin GMTabs, NEW base, NEW rows, IsList(base), IsList(rows),
           NEW final \in mergeSections(t, base, rows)
    PROVE  GMRowsIn(base, final)
<1> DEFINE b == Renumber(base)
           m == MergedRows(b, rows)
<1>1. final = Renumber(m)
  BY DEF mergeSections, mergeSectionsPlayer
<1>2. /\ IsList(b) /\ GMRowsIn(base, b) /\ DOMAIN b = DOMAIN base
      /\ \A s \in DOMAIN base : b[s].gm = base[s].gm
  BY RenumberIsList, RenumberKeepsGMRows
<1>3. IsList(m) /\ GMRowsIn(m, Renumber(m))
  BY <1>2, MergedRowsIsList, RenumberKeepsGMRows
<1>4. \A s \in DOMAIN b : b[s].gm => s \in DOMAIN m /\ m[s] = b[s]
  BY DEF MergedRows, Visible
<1> HIDE DEF b, m
<1> QED
  BY <1>1, <1>2, <1>3, <1>4 DEF GMRowsIn

LEMMA CheckUpdateSafe ==
    ASSUME TypeOK, NEW t \in Tabs, NEW path \in Paths, NEW day \in Days,
           NEW guarded \in BOOLEAN, NEW allow \in BOOLEAN, CheckUpdate(t, path, day, guarded, allow)
    PROVE  Safe(t, req[t])'
<1> DEFINE r    == req[t]
           base == Preload(r.doc)
           row  == Bumped([r.read EXCEPT !.path = path, !.day = day])
<1>0. PICK rows \in Submissions(t) : \E final \in mergeSections(t, base, rows) :
        Ready(t, row, base, final, guarded, allow)
  BY DEF CheckUpdate
<1>1. PICK final \in mergeSections(t, base, rows) : Ready(t, row, base, final, guarded, allow)
  BY <1>0
<1>2. r.read \in DocRow
  BY DEF CheckUpdate, At, TypeOK, IsRequest
<1>3. row.version = r.read.version + 1 /\ row.day = day
  BY <1>2 DEF DocRow, Bumped
<1>4. /\ page[t] # NoPage /\ page' = page /\ req'[t].kind = "update"
      /\ req'[t].read = r.read /\ req'[t].row = row /\ req'[t].base = base
      /\ req'[t].final = final /\ req'[t].guarded = guarded
  BY <1>1, ReadyRequest DEF CheckUpdate, At
<1>5. guarded => r.read.version = page[t].row.version
  BY DEF CheckUpdate, VersionOk
<1>6. t \notin GMTabs => day = r.read.day
  BY DEF CheckUpdate, RevealDayOk
<1>7. t \notin GMTabs => GMRowsIn(base, final)
  <2>1. IsList(base) /\ IsList(rows)
    BY PreloadIsList, SubmissionsAreLists DEF CheckUpdate, TypeOK, IsPage
  <2> QED
    BY <2>1, MergeKeepsGMRows
<1> HIDE DEF r, base, row
<1> QED
  BY <1>3, <1>4, <1>5, <1>6, <1>7 DEF Safe, GMRowsIn

LEMMA CheckShareSafe ==
    ASSUME TypeOK, NEW t \in Tabs, NEW target \in GroupRepos, NEW day \in Days,
           NEW allow \in BOOLEAN, CheckShare(t, target, day, allow)
    PROVE  Safe(t, req[t])'
<1> DEFINE r    == req[t]
           base == Preload(r.doc)
           row  == Bumped([r.read EXCEPT !.repo = target, !.day = day])
<1>1. Ready(t, row, base, Renumber(base), FALSE, allow)
  BY DEF CheckShare
<1>2. r.read \in DocRow
  BY DEF CheckShare, At, TypeOK, IsRequest
<1>3. row.version = r.read.version + 1
  BY <1>2 DEF DocRow, Bumped
<1>4. /\ req'[t].kind = "share" /\ req'[t].read = r.read /\ req'[t].row = row
      /\ req'[t].base = base /\ req'[t].final = Renumber(base)
  <2>1. req[t].kind = "share"
    BY DEF CheckShare, At
  <2> HIDE DEF base, row
  <2> DEFINE v == Request(req[t].kind, "ready", req[t].doc, req[t].read,
                          row, base, Renumber(base), FALSE, allow)
  <2>2. req' = [req EXCEPT ![t] = v]
    BY <1>1 DEF Ready
  <2>3. /\ v.kind = req[t].kind /\ v.read = req[t].read /\ v.row = row
        /\ v.base = base /\ v.final = Renumber(base)
    BY DEF Request
  <2> HIDE DEF v
  <2> QED
    BY <2>1, <2>2, <2>3 DEF TypeOK
<1>5. GMRowsIn(base, Renumber(base))
  BY PreloadIsList, RenumberKeepsGMRows
<1> HIDE DEF r, base, row
<1> QED
  BY <1>3, <1>4, <1>5 DEF Safe, GMRowsIn

LEMMA SafeStep == TypeOK /\ RequestsSafe /\ [Next]_vars => RequestsSafe'
<1> SUFFICES ASSUME TypeOK, RequestsSafe, [Next]_vars, NEW u \in Tabs, req'[u] # Idle
             PROVE  Safe(u, req[u])'
  BY DEF RequestsSafe
<1>1. CASE req'[u] = req[u] /\ page'[u] = page[u]
  BY <1>1 DEF RequestsSafe, Safe, GMRowsIn
<1>2. CASE req'[u].step # "ready" \/ req'[u].kind = "create"
  BY <1>2 DEF Safe
<1> QED
  BY <1>1, <1>2, OwnStep, CheckUpdateSafe, CheckShareSafe DEF vars

\* The section rows after a save: the listed ones are its document's, the other
\* rows of the document are deleted, and the rest is as it was.
LEMMA SavedRows ==
    ASSUME TypeOK, NEW t \in Tabs, Save(t), NEW d, d = req[t].doc
    PROVE  /\ \A s \in DOMAIN req[t].final :
                /\ s \in SecIds /\ secs'[s] \notin {Unborn, Deleted}
                /\ secs'[s].doc = d /\ secs'[s].body = req[t].final[s]
           /\ \A s \in SecIds \ DOMAIN req[t].final :
                secs'[s] = IF s \in Sections(d) THEN Deleted ELSE secs[s]
<1> DEFINE r == req[t]
<1>1. IsList(r.final) /\ d \in DocIds
  BY SaveSections DEF IsRequest
<1>3. \A s \in SecIds : secs'[s] = IF s \in DOMAIN r.final
                                   THEN [doc |-> d, body |-> r.final[s]]
                                   ELSE SectionsDeleted(d)[s]
  BY SaveSections
<1> HIDE DEF r
<1>4. ASSUME NEW s \in DOMAIN r.final
      PROVE  /\ s \in SecIds /\ secs'[s] \notin {Unborn, Deleted}
             /\ secs'[s].doc = d /\ secs'[s].body = r.final[s]
  <2> DEFINE new == [doc |-> d, body |-> r.final[s]]
  <2>1. s \in SecIds /\ r.final[s] \in SecBody
    BY <1>1, ListFacts
  <2>2. new \in SecRow
    BY <1>1, <2>1 DEF SecRow
  <2>3. new \notin {Unborn, Deleted}
    BY <2>2, ConstantsAssumption
  <2>4. secs'[s] = new
    BY <1>3, <2>1
  <2>5. new.doc = d /\ new.body = r.final[s]
    OBVIOUS
  <2> HIDE DEF new
  <2> QED
    BY <2>1, <2>3, <2>4, <2>5
<1>5. \A s \in SecIds \ DOMAIN r.final : secs'[s] = IF s \in Sections(d) THEN Deleted ELSE secs[s]
  BY <1>3 DEF SectionsDeleted
<1> QED
  BY <1>4, <1>5 DEF r

\* The list a save leaves its document: the one it was given.
LEMMA PreloadAfterSave ==
    ASSUME TypeOK, NEW t \in Tabs, Save(t), NEW d, d = req[t].doc
    PROVE  Preload(d)' = req[t].final
<1> DEFINE list == req[t].final
<1>1. IsList(list)
  BY SaveSections DEF IsRequest
<1>2. Sections(d)' = DOMAIN list
  BY <1>1, SavedRows DEF Sections
<1>3. \A s \in DOMAIN list : secs'[s].body = list[s]
  BY <1>1, SavedRows
<1> HIDE DEF list
<1>4. list = [s \in DOMAIN list |-> list[s]]
  BY <1>1, ListFacts
<1>5. Preload(d)' = [s \in DOMAIN list |-> list[s]]
  BY <1>2, <1>3 DEF Preload
<1> QED
  BY <1>4, <1>5 DEF list

LEMMA SafeInit == Init => RequestsSafe
  BY DEF Init, RequestsSafe

LEMMA FreshSaveStep ==
    ASSUME TypeOK, RequestsSafe, NEW t \in Tabs, NEW d \in DocIds,
           Saves(t, d, {"update", "share"}), docs[d] = req[t].read, Preload(d) = req[t].base
    PROVE  /\ docs'[d].version = docs[d].version + 1
           /\ req[t].kind = "update" /\ req[t].guarded => docs[d].version = page[t].row.version
           /\ t \notin GMTabs => GMOnlyKept(d)
           /\ t \notin GMTabs /\ req[t].kind = "update" => docs'[d].day = docs[d].day
<1> DEFINE r == req[t]
<1>1. Save(t) /\ r.doc = d /\ r.kind \in {"update", "share"}
  BY DEF Saves
<1>2. r # Idle /\ r.step = "ready" /\ docs'[d] = r.row
  BY <1>1 DEF Save, TypeOK
<1>3. /\ r.row.version = r.read.version + 1
      /\ r.kind = "update" /\ r.guarded =>
            page[t] # NoPage /\ r.read.version = page[t].row.version
      /\ t \notin GMTabs => GMRowsIn(r.base, r.final)
      /\ t \notin GMTabs /\ r.kind = "update" => r.row.day = r.read.day
  BY <1>1, <1>2 DEF RequestsSafe, Safe
<1>4. ASSUME t \notin GMTabs PROVE GMOnlyKept(d)
  <2>2. Preload(d)' = r.final /\ Preload(d) = r.base
    BY <1>1, PreloadAfterSave
  <2>3. GMRowsIn(r.base, r.final)
    BY <1>3, <1>4
  <2> HIDE DEF r
  <2> QED
    BY <2>2, <2>3 DEF GMOnlyKept, GMRowsIn
<1> QED
  BY <1>2, <1>3, <1>4

\* A save whose document nobody else changed since the request read it counts
\* exactly one version, replaces the version its page shows if it carries that
\* version and is not forced, and, where a player saves, leaves the GM-only
\* sections, their order and the reveal day: whatever else is in flight (Update,
\* ShareToGroup).
THEOREM FreshSavesAreSafe == Spec => FreshSaveIsSafe
<1>1. TypeOK /\ RequestsSafe =>
        [\A t \in Tabs, d \in DocIds :
            Saves(t, d, {"update", "share"}) /\ docs[d] = req[t].read /\ Preload(d) = req[t].base =>
                /\ docs'[d].version = docs[d].version + 1
                /\ req[t].kind = "update" /\ req[t].guarded => docs[d].version = page[t].row.version
                /\ t \notin GMTabs => GMOnlyKept(d)
                /\ t \notin GMTabs /\ req[t].kind = "update" => docs'[d].day = docs[d].day]_vars
  BY FreshSaveStep
<1>2. Spec => []TypeOK
  BY TypeCorrect
<1> QED
  BY <1>1, <1>2, SafeInit, SafeStep, PTL DEF Spec, FreshSaveIsSafe

-----------------------------------------------------------------------------
(* No two sections at one position *)

\* The list f that tab t is to save into document d: no two rows at one
\* position, no row of another document and none that a request for another
\* document is about to save.
Owned(t, f, d) ==
    /\ Ordered(f)
    /\ \A s \in DOMAIN f :
        /\ secs[s] \notin {Unborn, Deleted} => secs[s].doc = d
        /\ \A u \in Tabs \ {t} : req[u] # Idle /\ s \in DOMAIN req[u].final => req[u].doc = d

\* The rows a page shows have been saved once, and its positions differ.
PageOrdered(t) ==
    /\ \A s \in DOMAIN page[t].rows : secs[s] # Unborn
    /\ Ordered(page[t].rows)

RowsOrdered  == \A d \in DocIds : Ordered(Preload(d))
PagesOrdered == \A t \in Tabs : page[t] # NoPage => PageOrdered(t)
ListsOwned   == \A t \in Tabs : req[t] # Idle => Owned(t, req[t].final, req[t].doc)

\* The inductive invariant behind PositionsDistinct.
PositionsInv == RowsOrdered /\ PagesOrdered /\ ListsOwned

LEMMA NoRowsOrdered == Ordered(NoRows)
  BY DEF Ordered, NoRows

LEMMA PositionsInit == Init => PositionsInv
<1> SUFFICES ASSUME Init PROVE PositionsInv
  OBVIOUS
<1>1. ASSUME NEW d \in DocIds PROVE Preload(d) = NoRows
  <2>1. Sections(d) = {}
    BY DEF Init, Sections
  <2> QED
    BY <2>1 DEF Preload, NoRows
<1>2. RowsOrdered
  BY <1>1, NoRowsOrdered DEF RowsOrdered
<1> QED
  BY <1>2 DEF Init, PositionsInv, PagesOrdered, ListsOwned

LEMMA OrderedPositions == RowsOrdered => PositionsDistinct
<1>1. ASSUME NEW d \in DocIds
      PROVE  /\ DOMAIN Preload(d) = Sections(d)
             /\ \A s \in Sections(d) : Preload(d)[s] = secs[s].body
  BY DEF Preload
<1> QED
  BY <1>1 DEF RowsOrdered, Ordered, PositionsDistinct

\* Every live row of the document read is one of its sections.
LEMMA PreloadOwned ==
    ASSUME TypeOK, ListsOwned, NEW t \in Tabs, NEW d, Ordered(Preload(d))
    PROVE  Owned(t, Preload(d), d)
<1>1. ASSUME NEW s \in DOMAIN Preload(d)
      PROVE  s \in SecIds /\ secs[s] \notin {Unborn, Deleted} /\ secs[s].doc = d
  BY DEF Preload, Sections
<1> QED
  BY <1>1 DEF Owned, ListsOwned

\* The positions of f, a list to submit, differ and are below its length.
Numbered(f) == Ordered(f) /\ \A s \in DOMAIN f : f[s].pos \in 0 .. Cardinality(DOMAIN f) - 1

LEMMA RenumberNumbered ==
    ASSUME NEW f, IsList(f), Ordered(f)
    PROVE  IsList(Renumber(f)) /\ DOMAIN Renumber(f) = DOMAIN f /\ Numbered(Renumber(f))
  BY RenumberIsList, RenumberPos, RenumberOrdered DEF Numbered

\* One row appended to a numbered list.
LEMMA AppendedOrdered ==
    ASSUME NEW f, IsList(f), Numbered(f), NEW s, s \notin DOMAIN f, NEW g, NEW x
    PROVE  Ordered(WithRow(f, s, g, x))
<1> DEFINE n == Cardinality(DOMAIN f)
           h == WithRow(f, s, g, x)
<1>1. n \in Nat
  BY ListFacts
<1>2. \A u \in DOMAIN f : f[u].pos \in 0 .. n - 1
  BY DEF Numbered
<1>3. /\ DOMAIN h = DOMAIN f \cup {s} /\ h[s].pos = n
      /\ \A u \in DOMAIN f : h[u] = f[u]
  BY DEF WithRow
<1> HIDE DEF n, h
<1>4. ASSUME NEW u \in DOMAIN f PROVE f[u].pos # n
  BY <1>1, <1>2, <1>4
<1>5. Ordered(f)
  BY DEF Numbered
<1> QED
  BY <1>3, <1>4, <1>5 DEF Ordered, h

\* Two rows of a list that trade their positions.
LEMMA SwappedRows ==
    ASSUME NEW f, IsList(f), Ordered(f), NEW rows, rows \in Swapped(f)
    PROVE  DOMAIN rows = DOMAIN f /\ Ordered(rows)
<1>1. PICK s \in DOMAIN f, u \in DOMAIN f : rows = Swap(f, s, u)
  BY DEF Swapped
<1>2. \A v \in DOMAIN f : f[v] \in SecBody
  BY ListFacts
<1>3. /\ DOMAIN rows = DOMAIN f
      /\ \A v \in DOMAIN f : rows[v].pos = IF v = u THEN f[s].pos
                                            ELSE IF v = s THEN f[u].pos ELSE f[v].pos
  BY <1>1, <1>2 DEF SecBody, Swap
<1> QED
  BY <1>3 DEF Ordered

\* What an editor submits: the rows its page shows and at most one that no
\* document has, at positions that differ.
LEMMA SubmittedRows ==
    ASSUME TypeOK, NEW t \in Tabs, page[t] # NoPage, PageOrdered(t), NEW rows \in Submissions(t)
    PROVE  /\ \A s, u \in DOMAIN rows \ DOMAIN page[t].rows : s = u /\ s \in Fresh
           /\ Ordered(rows)
<1> DEFINE old == Renumber(page[t].rows)
           Kept(f) == DOMAIN f \in SUBSET DOMAIN old /\ Ordered(f)
           New(f)  == /\ \A s, u \in DOMAIN f \ DOMAIN old : s = u /\ s \in Fresh
                      /\ Ordered(f)
<1>1. IsList(old) /\ DOMAIN old = DOMAIN page[t].rows /\ Numbered(old) /\ Ordered(old)
  BY RenumberNumbered DEF TypeOK, IsPage, PageOrdered, Numbered
<1>2. \A s \in DOMAIN old : old[s] \in SecBody
  BY <1>1, ListFacts
<1>3. rows = old \/ rows \in Retyped(old) \/ rows \in Shortened(old) \/ rows \in Appended(t, old)
        \/ rows \in Reflagged(old) \/ rows \in Swapped(old)
  BY DEF Submissions
<1> HIDE DEF old
<1>4. ASSUME NEW f \in Retyped(old) PROVE Kept(f)
  <2>1. PICK s \in DOMAIN old, x \in Texts : f = [old EXCEPT ![s].text = x]
    BY <1>4 DEF Retyped
  <2>2. DOMAIN f = DOMAIN old /\ \A u \in DOMAIN old : f[u].pos = old[u].pos
    BY <1>2, <2>1 DEF SecBody
  <2> QED
    BY <1>1, <2>2 DEF Ordered
<1>5. ASSUME NEW f \in Shortened(old) PROVE Kept(f)
  <2>1. PICK s \in DOMAIN old : f = [u \in DOMAIN old \ {s} |-> old[u]]
    BY <1>5 DEF Shortened
  <2>2. DOMAIN f \in SUBSET DOMAIN old /\ \A u \in DOMAIN f : f[u] = old[u]
    BY <2>1
  <2> QED
    BY <1>1, <2>2 DEF Ordered
<1>6. ASSUME NEW f \in Reflagged(old) PROVE Kept(f)
  <2>1. PICK s \in DOMAIN old : f = [old EXCEPT ![s].gm = ~@]
    BY <1>6 DEF Reflagged
  <2>2. DOMAIN f = DOMAIN old /\ \A u \in DOMAIN old : f[u].pos = old[u].pos
    BY <1>2, <2>1 DEF SecBody
  <2> QED
    BY <1>1, <2>2 DEF Ordered
<1>7. ASSUME rows \in Swapped(old) PROVE Kept(rows)
  BY <1>1, <1>7, SwappedRows
<1>8. ASSUME NEW f \in Appended(t, old) PROVE New(f)
  <2>1. PICK s \in Fresh, g \in Flags(t), x \in Texts : f = WithRow(old, s, g, x)
    BY <1>8 DEF Appended
  <2>2. s \notin DOMAIN old
    BY <1>1, <2>1 DEF PageOrdered, Fresh
  <2>3. DOMAIN f = DOMAIN old \cup {s}
    BY <2>1 DEF WithRow
  <2>4. Ordered(f)
    BY <1>1, <2>1, <2>2, AppendedOrdered
  <2> QED
    BY <2>1, <2>3, <2>4
<1>9. Kept(rows) \/ New(rows)
  BY <1>1, <1>3, <1>4, <1>5, <1>6, <1>7, <1>8
<1> QED
  BY <1>1, <1>9

\* The rows of a player's merge: those of the base, at most one new, all at
\* positions that differ.
LEMMA MergedRowsOrdered ==
    ASSUME NEW base, NEW rows, IsList(base), IsList(rows), Numbered(base),
           \A s, u \in DOMAIN rows \ DOMAIN base : s = u
    PROVE  Ordered(MergedRows(base, rows))
<1> DEFINE n == Cardinality(DOMAIN base)
           m == MergedRows(base, rows)
<1>1. n \in Nat /\ \A s \in DOMAIN base : base[s].pos \in 0 .. n - 1 /\ base[s] \in SecBody
  BY ListFacts DEF Numbered
<1>2. \A s \in DOMAIN rows : rows[s].pos \in Nat
  BY ListFacts DEF SecBody
<1>3. \A s \in DOMAIN m :
        \/ s \in DOMAIN base /\ m[s].pos = base[s].pos
        \/ s \in DOMAIN rows \ DOMAIN base /\ m[s].pos = n + rows[s].pos
  BY <1>1 DEF MergedRows, SecBody
<1>4. Ordered(base)
  BY DEF Numbered
<1> HIDE DEF n, m
<1>5. ASSUME NEW s \in DOMAIN base, NEW u \in DOMAIN rows
      PROVE  base[s].pos # n + rows[u].pos
  BY <1>1, <1>2
<1>6. Ordered(m)
  BY <1>3, <1>4, <1>5 DEF Ordered
<1> QED
  BY <1>6 DEF m

\* The list a merge leaves: rows of the base or submitted, at positions that
\* differ.
LEMMA MergeOrdered ==
    ASSUME NEW t, NEW base, NEW rows, IsList(base), IsList(rows), Ordered(base), Ordered(rows),
           \A s, u \in DOMAIN rows \ DOMAIN base : s = u,
           NEW final \in mergeSections(t, base, rows)
    PROVE  Ordered(final) /\ DOMAIN final \subseteq DOMAIN base \cup DOMAIN rows
<1>1. CASE t \in GMTabs
  <2>1. /\ IsList(final) /\ DOMAIN final = DOMAIN rows
        /\ \A s, u \in DOMAIN rows : final[u].pos < final[s].pos <=> rows[u].pos < rows[s].pos
    BY <1>1, GMMerge DEF mergeSections
  <2>2. \A s \in DOMAIN rows : rows[s].pos \in Nat /\ final[s].pos \in Nat
    BY <2>1, ListFacts DEF SecBody
  <2> QED
    BY <2>1, <2>2 DEF Ordered
<1>2. CASE t \notin GMTabs
  <2> DEFINE b == Renumber(base)
             m == MergedRows(b, rows)
  <2>1. final = Renumber(m)
    BY <1>2 DEF mergeSections, mergeSectionsPlayer
  <2>2. IsList(b) /\ DOMAIN b = DOMAIN base /\ Numbered(b)
    BY RenumberNumbered
  <2>3. DOMAIN m \subseteq DOMAIN b \cup DOMAIN rows
    BY DEF MergedRows
  <2>4. IsList(m) /\ Ordered(m)
    <3> HIDE DEF b
    <3> QED
      BY <2>2, MergedRowsIsList, MergedRowsOrdered
  <2> HIDE DEF b, m
  <2> QED
    BY <2>1, <2>2, <2>3, <2>4, RenumberIsList, RenumberOrdered
<1> QED
  BY <1>1, <1>2

\* A merge of what an editor submits leaves a list its document owns.
LEMMA MergedOwned ==
    ASSUME TypeOK, ListsOwned, NEW t \in Tabs, page[t] # NoPage, PageOrdered(t),
           NEW rows \in Submissions(t), NEW d, Ordered(Preload(d)),
           MergeOk(t, Preload(d), rows), NEW list \in mergeSections(t, Preload(d), rows)
    PROVE  Owned(t, list, d)
<1> DEFINE base == Preload(d)
<1>1. /\ IsList(base) /\ IsList(rows)
      /\ \A s \in DOMAIN rows : secs[s] # Unborn => s \in DOMAIN base
  BY PreloadIsList, SubmissionsAreLists
     DEF MergeOk, GMMergeOk, PlayerMergeOk, Referenced, Visible, TypeOK, IsPage
<1>2. \A s, u \in DOMAIN rows \ DOMAIN base : s = u /\ s \in Fresh
  BY <1>1, SubmittedRows DEF PageOrdered
<1>3. Ordered(list) /\ DOMAIN list \subseteq DOMAIN base \cup DOMAIN rows
  BY <1>1, <1>2, SubmittedRows, MergeOrdered
<1>4. Owned(t, base, d)
  BY PreloadOwned
<1> HIDE DEF base
<1>5. ASSUME NEW s \in DOMAIN list
      PROVE  /\ secs[s] \notin {Unborn, Deleted} => secs[s].doc = d
             /\ \A u \in Tabs \ {t} : req[u] # Idle /\ s \in DOMAIN req[u].final => req[u].doc = d
  <2>1. CASE s \in DOMAIN base
    BY <1>4, <2>1 DEF Owned
  <2>2. CASE s \notin DOMAIN base
    BY <1>2, <1>3, <2>2 DEF Fresh
  <2> QED
    BY <2>1, <2>2
<1> QED
  BY <1>3, <1>5 DEF Owned

\* What GMs and players see of a list keeps its order.
LEMMA ViewOrdered ==
    ASSUME NEW t, NEW f, Ordered(f)
    PROVE  DOMAIN view(t, f) \in SUBSET DOMAIN f /\ Ordered(view(t, f))
<1>1. /\ DOMAIN view(t, f) \in SUBSET DOMAIN f
      /\ \A s \in DOMAIN view(t, f) : view(t, f)[s] = f[s]
  BY DEF view
<1> QED
  BY <1>1 DEF Ordered

\* A step of tab t that writes no section and leaves t's request, if any, with a
\* list its document owns.
LEMMA OwnedByReads ==
    ASSUME ListsOwned, NEW t \in Tabs, secs' = secs,
           \A u \in Tabs \ {t} : req'[u] = req[u],
           NEW f, NEW d,
           req'[t] # Idle => req'[t].final = f /\ req'[t].doc = d /\ Owned(t, f, d)
    PROVE  ListsOwned'
<1> SUFFICES ASSUME NEW u \in Tabs, req'[u] # Idle
             PROVE  Owned(u, req[u].final, req[u].doc)'
  BY DEF ListsOwned
<1>1. CASE u = t
  BY <1>1 DEF Owned
<1>2. CASE u # t
  <2>1. req'[u] = req[u] /\ Owned(u, req[u].final, req[u].doc)
    BY <1>2 DEF ListsOwned
  <2> QED
    BY <1>2, <2>1 DEF Owned
<1> QED
  BY <1>1, <1>2

\* A step of tab t that leaves t's page, if any, in order, and no row unborn.
LEMMA PagesKept ==
    ASSUME TypeOK, PagesOrdered, NEW t \in Tabs,
           \A u \in Tabs \ {t} : page'[u] = page[u],
           \A s \in SecIds : secs[s] # Unborn => secs'[s] # Unborn,
           page'[t] = page[t] \/ PageOrdered(t)'
    PROVE  PagesOrdered'
<1> SUFFICES ASSUME NEW u \in Tabs, page'[u] # NoPage
             PROVE  PageOrdered(u)'
  BY DEF PagesOrdered
<1>1. CASE page'[u] = page[u]
  <2>1. PageOrdered(u) /\ DOMAIN page[u].rows \in SUBSET SecIds
    BY <1>1, ListFacts DEF PagesOrdered, TypeOK, IsPage
  <2> QED
    BY <1>1, <2>1 DEF PageOrdered
<1> QED
  BY <1>1

\* A step that writes neither sections nor pages and leaves tab t's request, if
\* any, with a list its document owns.
LEMMA PositionsReads ==
    ASSUME TypeOK, PositionsInv, NEW t \in Tabs, UNCHANGED <<secs, page>>,
           \A u \in Tabs \ {t} : req'[u] = req[u],
           NEW f, NEW d,
           req'[t] # Idle => req'[t].final = f /\ req'[t].doc = d /\ Owned(t, f, d)
    PROVE  PositionsInv'
<1>1. RowsOrdered'
  <2> SUFFICES ASSUME NEW e \in DocIds PROVE Ordered(Preload(e)')
    BY DEF RowsOrdered, Ordered
  <2>1. Preload(e)' = Preload(e)
    BY DEF Preload, Sections
  <2> QED
    BY <2>1 DEF PositionsInv, RowsOrdered
<1>2. PagesOrdered'
  BY DEF PositionsInv, PagesOrdered, PageOrdered, Ordered
<1>3. ListsOwned'
  BY OwnedByReads DEF PositionsInv
<1> QED
  BY <1>1, <1>2, <1>3 DEF PositionsInv

LEMMA NoRowsOwned ==
    ASSUME NEW t, NEW d
    PROVE  Owned(t, NoRows, d)
  BY NoRowsOrdered DEF Owned, NoRows

LEMMA PositionsReadRow ==
    ASSUME TypeOK, PositionsInv, NEW t \in Tabs, NEW d \in DocIds, NEW kind, ReadRow(t, d, kind)
    PROVE  PositionsInv'
<1> DEFINE v == Request(kind, "row", d, docs[d], docs[d], NoRows, NoRows, FALSE, FALSE)
<1>1. v.final = NoRows /\ v.doc = d
  BY DEF Request
<1>2. req' = [req EXCEPT ![t] = v] /\ UNCHANGED <<secs, page>>
  BY DEF ReadRow
<1> HIDE DEF v
<1>3. req'[t] = v /\ \A u \in Tabs \ {t} : req'[u] = req[u]
  BY <1>2 DEF TypeOK
<1> QED
  BY <1>1, <1>2, <1>3, PositionsReads, NoRowsOwned

LEMMA PositionsReload ==
    ASSUME TypeOK, PositionsInv, NEW t \in Tabs, Reload(t)
    PROVE  PositionsInv'
<1> DEFINE d == req[t].doc
           v == Request("reload", "row", d, docs[d], docs[d], NoRows, NoRows, FALSE, FALSE)
<1>1. v.final = NoRows /\ v.doc = d
  BY DEF Request
<1>2. req' = [req EXCEPT ![t] = IF Live(d) THEN v ELSE Idle] /\ UNCHANGED <<secs, page>>
  BY DEF Reload
<1> HIDE DEF v, d
<1>3. req'[t] \in {v, Idle} /\ \A u \in Tabs \ {t} : req'[u] = req[u]
  BY <1>2 DEF TypeOK
<1> QED
  BY <1>1, <1>2, <1>3, PositionsReads, NoRowsOwned

LEMMA PositionsAbandon ==
    ASSUME TypeOK, PositionsInv, NEW t \in Tabs, Abandon(t)
    PROVE  PositionsInv'
<1>1. req'[t] = Idle /\ (\A u \in Tabs \ {t} : req'[u] = req[u]) /\ UNCHANGED <<secs, page>>
  BY DEF Abandon, TypeOK
<1> QED
  BY <1>1, PositionsReads

LEMMA PositionsCreate ==
    ASSUME TypeOK, PositionsInv, NEW t \in Tabs, NEW d \in DocIds,
           NEW repo, NEW path, NEW day, NEW allow, CheckCreate(t, d, repo, path, day, allow)
    PROVE  PositionsInv'
<1> DEFINE row     == [repo |-> repo, path |-> path, day |-> day, version |-> 1]
           v(rows) == Request("create", "ready", d, row, row, NoRows, rows, FALSE, allow)
<1>1. PICK rows \in {NoRows} \cup Appended(t, NoRows) :
        req' = [req EXCEPT ![t] = v(rows)] /\ UNCHANGED <<secs, page>>
  BY DEF CheckCreate
<1>2. v(rows).final = rows /\ v(rows).doc = d
  BY DEF Request
<1> HIDE DEF v
<1>3. Owned(t, rows, d)
  <2>1. CASE rows = NoRows
    BY <2>1, NoRowsOwned
  <2>2. CASE rows \in Appended(t, NoRows)
    <3>1. PICK s \in Fresh, g \in Flags(t), x \in Texts : rows = WithRow(NoRows, s, g, x)
      BY <2>2 DEF Appended
    <3>2. DOMAIN rows = {s}
      BY <3>1 DEF WithRow, NoRows
    <3> QED
      BY <3>1, <3>2 DEF Owned, Ordered, Fresh
  <2> QED
    BY <1>1, <2>1, <2>2
<1>4. req'[t] = v(rows) /\ \A u \in Tabs \ {t} : req'[u] = req[u]
  BY <1>1 DEF TypeOK
<1> QED
  BY <1>1, <1>2, <1>3, <1>4, PositionsReads

LEMMA PositionsUpdate ==
    ASSUME TypeOK, PositionsInv, NEW t \in Tabs, NEW path \in Paths, NEW day \in Days,
           NEW guarded \in BOOLEAN, NEW allow \in BOOLEAN, CheckUpdate(t, path, day, guarded, allow)
    PROVE  PositionsInv'
<1> DEFINE d    == req[t].doc
           base == Preload(d)
           row  == Bumped([req[t].read EXCEPT !.path = path, !.day = day])
<1>0. PICK rows \in Submissions(t) :
        MergeOk(t, base, rows) /\ \E final \in mergeSections(t, base, rows) :
            Ready(t, row, base, final, guarded, allow)
  BY DEF CheckUpdate
<1>1. PICK final \in mergeSections(t, base, rows) : Ready(t, row, base, final, guarded, allow)
  BY <1>0
<1>2. page[t] # NoPage /\ d \in DocIds
  BY DEF CheckUpdate, At, TypeOK, IsRequest
<1>3. PageOrdered(t) /\ Ordered(base) /\ ListsOwned
  BY <1>2 DEF PositionsInv, PagesOrdered, RowsOrdered
<1>4. Owned(t, final, d)
  BY <1>0, <1>2, <1>3, MergedOwned
<1>5. /\ req'[t].final = final /\ req'[t].doc = d
      /\ UNCHANGED <<secs, page>> /\ \A u \in Tabs \ {t} : req'[u] = req[u]
  BY <1>1, ReadyRequest
<1> HIDE DEF d, base
<1> QED
  BY <1>4, <1>5, PositionsReads

LEMMA PositionsShare ==
    ASSUME TypeOK, PositionsInv, NEW t \in Tabs, NEW target \in GroupRepos, NEW day \in Days,
           NEW allow \in BOOLEAN, CheckShare(t, target, day, allow)
    PROVE  PositionsInv'
<1> DEFINE d    == req[t].doc
           base == Preload(d)
           row  == Bumped([req[t].read EXCEPT !.repo = target, !.day = day])
           v    == Request(req[t].kind, "ready", d, req[t].read,
                           row, base, Renumber(base), FALSE, allow)
<1>1. req' = [req EXCEPT ![t] = v] /\ UNCHANGED <<secs, page>>
  BY DEF CheckShare, Ready
<1>2. d \in DocIds
  BY DEF CheckShare, At, TypeOK, IsRequest
<1>3. Owned(t, Renumber(base), d)
  <2>1. Owned(t, base, d) /\ IsList(base)
    BY <1>2, PreloadOwned, PreloadIsList DEF PositionsInv, RowsOrdered
  <2> HIDE DEF base, d
  <2> QED
    BY <2>1, RenumberNumbered DEF Owned, Numbered
<1>4. v.final = Renumber(base) /\ v.doc = d
  BY DEF Request
<1> HIDE DEF v, base, d
<1>5. req'[t] = v /\ \A u \in Tabs \ {t} : req'[u] = req[u]
  BY <1>1 DEF TypeOK
<1> QED
  BY <1>1, <1>3, <1>4, <1>5, PositionsReads

LEMMA PositionsGet ==
    ASSUME TypeOK, PositionsInv, NEW t \in Tabs, Get(t)
    PROVE  PositionsInv'
<1> DEFINE r == req[t]
           p == [doc |-> r.doc, row |-> r.read, rows |-> view(t, Preload(r.doc))]
<1>1. r.doc \in DocIds
  BY DEF Get, At, TypeOK, IsRequest
<1>2. page' = [page EXCEPT ![t] = p] /\ p.rows = view(t, Preload(r.doc)) /\ secs' = secs
  BY DEF Get
<1>3. req'[t] = Idle /\ \A u \in Tabs \ {t} : req'[u] = req[u]
  BY DEF Get, TypeOK
<1> HIDE DEF p
<1>4. page'[t] = p /\ \A u \in Tabs \ {t} : page'[u] = page[u]
  BY <1>2 DEF TypeOK
<1>5. ListsOwned'
  BY <1>2, <1>3, OwnedByReads DEF PositionsInv
<1>6. RowsOrdered'
  <2> SUFFICES ASSUME NEW e \in DocIds PROVE Ordered(Preload(e)')
    BY DEF RowsOrdered, Ordered
  <2>1. Preload(e)' = Preload(e)
    BY <1>2 DEF Preload, Sections
  <2> QED
    BY <2>1 DEF PositionsInv, RowsOrdered
<1>7. PageOrdered(t)'
  <2> DEFINE f == Preload(r.doc)
  <2>1. Ordered(f)
    BY <1>1 DEF PositionsInv, RowsOrdered
  <2>2. \A s \in DOMAIN f : secs[s] # Unborn
    BY DEF Preload, Sections
  <2>3. page'[t].rows = view(t, f)
    BY <1>2, <1>4
  <2> HIDE DEF f, r
  <2>4. /\ \A s \in DOMAIN page'[t].rows : secs'[s] # Unborn
        /\ Ordered(page'[t].rows)
    BY <1>2, <2>1, <2>2, <2>3, ViewOrdered
  <2> QED
    BY <2>4 DEF PageOrdered, Ordered
<1>8. PagesOrdered'
  BY <1>2, <1>4, <1>7, PagesKept DEF PositionsInv
<1> QED
  BY <1>5, <1>6, <1>8 DEF PositionsInv

LEMMA PositionsDelete ==
    ASSUME TypeOK, PositionsInv, NEW t \in Tabs, Delete(t)
    PROVE  PositionsInv'
<1> DEFINE d == req[t].doc
<1>1. secs' = SectionsDeleted(d) /\ page' = page
  BY DEF Delete
<1>2. req'[t] = Idle /\ \A u \in Tabs \ {t} : req'[u] = req[u]
  BY DEF Delete, TypeOK
<1> HIDE DEF d
<1>3. \A s \in SecIds : secs'[s] = IF s \in Sections(d) THEN Deleted ELSE secs[s]
  BY <1>1 DEF SectionsDeleted
<1>4. RowsOrdered'
  <2> SUFFICES ASSUME NEW e \in DocIds PROVE Ordered(Preload(e)')
    BY DEF RowsOrdered, Ordered
  <2>1. CASE e = d
    <3>1. Sections(e)' = {}
      BY <2>1, SectionsAfterDelete DEF d
    <3>2. Preload(e)' = NoRows
      BY <3>1 DEF Preload, NoRows
    <3> QED
      BY <3>2, NoRowsOrdered
  <2>2. CASE e # d
    <3>1. Sections(e)' = Sections(e)
      BY <2>2, SectionsAfterDelete DEF d
    <3>2. \A s \in Sections(e) : secs'[s] = secs[s]
      BY <1>3, <2>2 DEF Sections
    <3>3. Preload(e)' = Preload(e)
      BY <3>1, <3>2 DEF Preload
    <3> QED
      BY <3>3 DEF PositionsInv, RowsOrdered
  <2> QED
    BY <2>1, <2>2
<1>5. PagesOrdered'
  <2>1. \A s \in SecIds : secs[s] # Unborn => secs'[s] # Unborn
    BY <1>3, ConstantsAssumption
  <2> QED
    BY <1>1, <2>1, PagesKept DEF PositionsInv
<1>6. ListsOwned'
  <2> SUFFICES ASSUME NEW u \in Tabs, req'[u] # Idle
               PROVE  Owned(u, req[u].final, req[u].doc)'
    BY DEF ListsOwned
  <2>1. u # t /\ req'[u] = req[u] /\ Owned(u, req[u].final, req[u].doc)
    BY <1>2 DEF PositionsInv, ListsOwned
  <2>2. DOMAIN req[u].final \in SUBSET SecIds
    BY <2>1, ListFacts DEF TypeOK, IsRequest
  <2>3. \A s \in DOMAIN req[u].final : secs'[s] \notin {Unborn, Deleted} => secs'[s] = secs[s]
    BY <1>3, <2>2
  <2>4. \A v \in Tabs : req'[v] # Idle => req'[v] = req[v]
    BY <1>2
  <2> QED
    BY <2>1, <2>3, <2>4 DEF Owned
<1> QED
  BY <1>4, <1>5, <1>6 DEF PositionsInv

\* A save leaves the sections of every other document as they were.
LEMMA PreloadOfOthers ==
    ASSUME TypeOK, PositionsInv, NEW t \in Tabs, Save(t), NEW e, e # req[t].doc
    PROVE  Preload(e)' = Preload(e)
<1> DEFINE d == req[t].doc
           f == req[t].final
<1>1. Owned(t, f, d)
  BY DEF Save, PositionsInv, ListsOwned
<1>2. /\ \A s \in DOMAIN f : s \in SecIds /\ secs'[s] \notin {Unborn, Deleted} /\ secs'[s].doc = d
      /\ \A s \in SecIds \ DOMAIN f : secs'[s] = IF s \in Sections(d) THEN Deleted ELSE secs[s]
  BY SavedRows
<1> HIDE DEF f
<1>3. Sections(e)' = Sections(e)
  BY <1>1, <1>2 DEF Sections, Owned
<1>4. \A s \in Sections(e) : secs'[s] = secs[s]
  BY <1>1, <1>2 DEF Sections, Owned
<1> QED
  BY <1>3, <1>4 DEF Preload

LEMMA PositionsSave ==
    ASSUME TypeOK, PositionsInv, NEW t \in Tabs, Save(t)
    PROVE  PositionsInv'
<1> DEFINE r    == req[t]
           d    == r.doc
           list == r.final
           v    == Request("reload", "saved", r.doc, r.row, r.row, NoRows, NoRows, FALSE, FALSE)
           p    == [doc |-> r.doc, row |-> r.row, rows |-> view(t, list)]
<1>1. d \in DocIds
  BY SaveSections DEF IsRequest
<1>2. Owned(t, r.final, d)
  BY DEF Save, PositionsInv, ListsOwned
<1>3. list = r.final /\ Ordered(list)
  BY <1>2 DEF Owned
<1>4. /\ \A s \in DOMAIN r.final : /\ s \in SecIds /\ secs'[s] \notin {Unborn, Deleted}
                                   /\ secs'[s].doc = d
      /\ \A s \in SecIds \ DOMAIN r.final :
            secs'[s] = IF s \in Sections(d) THEN Deleted ELSE secs[s]
  BY SavedRows
<1>5. v.final = NoRows /\ p.rows = view(t, list)
  BY DEF Request
<1>6. \/ req' = [req EXCEPT ![t] = v] /\ page' = page
      \/ req' = [req EXCEPT ![t] = Idle] /\ page' = [page EXCEPT ![t] = p]
  BY DEF Save
<1> HIDE DEF v, p, list, d, r
<1>7. /\ req'[t] \in {v, Idle} /\ \A u \in Tabs \ {t} : req'[u] = req[u]
      /\ page'[t] \in {page[t], p} /\ \A u \in Tabs \ {t} : page'[u] = page[u]
  BY <1>6 DEF TypeOK
<1>8. RowsOrdered'
  <2> SUFFICES ASSUME NEW e \in DocIds PROVE Ordered(Preload(e)')
    BY DEF RowsOrdered, Ordered
  <2>1. CASE e # d
    <3>1. Preload(e)' = Preload(e)
      BY <2>1, PreloadOfOthers DEF d, r
    <3> QED
      BY <3>1 DEF PositionsInv, RowsOrdered
  <2>2. CASE e = d
    <3>1. Preload(e)' = list
      BY <1>1, <2>2, PreloadAfterSave DEF list, d, r
    <3> QED
      BY <1>3, <3>1
  <2> QED
    BY <2>1, <2>2
<1>9. PagesOrdered'
  <2>1. \A s \in SecIds : secs[s] # Unborn => secs'[s] # Unborn
    BY <1>4, ConstantsAssumption
  <2>2. ASSUME page'[t] = p PROVE PageOrdered(t)'
    <3>1. /\ \A s \in DOMAIN page'[t].rows : secs'[s] # Unborn
          /\ Ordered(page'[t].rows)
        BY <1>3, <1>4, <1>5, <2>2, ViewOrdered
    <3> QED
      BY <3>1 DEF PageOrdered, Ordered
  <2> QED
    BY <1>7, <2>1, <2>2, PagesKept DEF PositionsInv
<1>10. ListsOwned'
  <2> SUFFICES ASSUME NEW u \in Tabs, req'[u] # Idle
               PROVE  Owned(u, req[u].final, req[u].doc)'
    BY DEF ListsOwned
  <2>1. CASE u = t
    <3>1. req'[u].final = NoRows
      BY <1>5, <1>7, <2>1
    <3> QED
      BY <3>1, NoRowsOrdered DEF Owned, Ordered, NoRows
  <2>2. CASE u # t
    <3>1. req'[u] = req[u] /\ Owned(u, req[u].final, req[u].doc)
      BY <1>7, <2>2 DEF PositionsInv, ListsOwned
    <3>2. DOMAIN req[u].final \in SUBSET SecIds
      BY <3>1, ListFacts DEF TypeOK, IsRequest
    <3>3. ASSUME NEW s \in DOMAIN req[u].final, secs'[s] \notin {Unborn, Deleted}
          PROVE  secs'[s].doc = req[u].doc
      <4>1. CASE s \in DOMAIN r.final
        <5>1. r # Idle /\ req[u].doc = d
          BY <1>2, <2>2, <3>1, <4>1 DEF Owned, Save, r
        <5> QED
          BY <1>4, <4>1, <5>1
      <4>2. CASE s \notin DOMAIN r.final
        BY <1>4, <3>1, <3>2, <3>3, <4>2 DEF Owned
      <4> QED
        BY <4>1, <4>2
    <3>4. ASSUME NEW s \in DOMAIN req[u].final, NEW w \in Tabs \ {u}, req'[w] # Idle,
                 s \in DOMAIN req'[w].final
          PROVE  req'[w].doc = req[u].doc
      <4>1. w # t
        BY <1>5, <1>7, <3>4 DEF NoRows
      <4> QED
        BY <1>7, <3>1, <3>4, <4>1 DEF Owned
    <3> QED
      BY <3>1, <3>3, <3>4 DEF Owned, Ordered
  <2> QED
    BY <2>1, <2>2
<1> QED
  BY <1>8, <1>9, <1>10 DEF PositionsInv

LEMMA PositionsStep == TypeOK /\ PositionsInv /\ [Next]_vars => PositionsInv'
<1> SUFFICES ASSUME TypeOK, PositionsInv, [Next]_vars PROVE PositionsInv'
  OBVIOUS
<1>1. CASE UNCHANGED vars
  <2>1. docs' = docs /\ secs' = secs /\ page' = page /\ req' = req
    BY <1>1 DEF vars
  <2>2. RowsOrdered'
    <3> SUFFICES ASSUME NEW e \in DocIds PROVE Ordered(Preload(e)')
      BY DEF RowsOrdered, Ordered
    <3>1. Preload(e)' = Preload(e)
      BY <2>1 DEF Preload, Sections
    <3> QED
      BY <3>1 DEF PositionsInv, RowsOrdered
  <2>3. PagesOrdered'
    BY <2>1 DEF PositionsInv, PagesOrdered, PageOrdered, Ordered
  <2>4. ListsOwned'
    BY <2>1 DEF PositionsInv, ListsOwned, Owned, Ordered
  <2> QED
    BY <2>2, <2>3, <2>4 DEF PositionsInv
<1>2. ASSUME NEW t \in Tabs, NEW d \in DocIds, NotFound(t, d) PROVE UNCHANGED vars
  BY <1>2 DEF NotFound
<1>3. CASE Next
  BY <1>1, <1>2, <1>3, PositionsReadRow, PositionsCreate, PositionsGet, PositionsUpdate,
     PositionsShare, PositionsSave, PositionsReload, PositionsDelete, PositionsAbandon DEF Next
<1> QED
  BY <1>1, <1>3

\* No two sections of a document share a position, whatever saves are
\* interleaved and whatever lists name a section twice: Documents.Update gives
\* each row its last index in the list it saves, deletes the rows the list does
\* not name, and that list has none of another document's rows (mergeSections).
THEOREM PositionsAlwaysDistinct == Spec => []PositionsDistinct
<1>1. Spec => []TypeOK
  BY TypeCorrect
<1>2. PositionsInv => PositionsDistinct
  BY OrderedPositions DEF PositionsInv
<1> QED
  BY <1>1, <1>2, PositionsInit, PositionsStep, PTL DEF Spec

-----------------------------------------------------------------------------
(* One request at a time *)

OneAtATime == \A t, u \in Tabs : req[t] # Idle /\ req[u] # Idle => t = u

\* The path a request is to save its document under was free, or was the
\* document's own.
PathFree(r) ==
    \/ ~ExistsAtPath(r.row.repo, r.row.path, r.doc)
    \/ r.kind = "update" /\ r.row.repo = r.read.repo /\ r.row.path = r.read.path

\* What a request alone in flight has read is still what is stored.
AsRead(t, r) ==
    /\ r.step = "row" => docs[r.doc] = r.read
    /\ r.step = "ready" =>
        /\ r.kind \in {"create", "update", "share"}
        /\ r.kind = "create" => docs[r.doc] = Unborn
        /\ r.kind # "create" => docs[r.doc] = r.read /\ Preload(r.doc) = r.base
        /\ ~r.allow => PathFree(r)
    /\ r.kind = "update" => page[t] # NoPage /\ page[t].doc = r.doc

\* A page shows a version that was stored, and what is stored now if that is
\* still the version: a version identifies one state of a document.
PageTrue(t) ==
    LET d == page[t].doc IN
    /\ docs[d] # Unborn
    /\ Live(d) => /\ page[t].row.version <= docs[d].version
                  /\ page[t].row.version = docs[d].version => Current(t, d)

PagesTrue == \A t \in Tabs : page[t] # NoPage => PageTrue(t)

SerialInv ==
    /\ OneAtATime
    /\ \A t \in Tabs : req[t] # Idle => AsRead(t, req[t])
    /\ PagesTrue

LEMMA SerialInit == Init => SerialInv
BY DEF Init, SerialInv, OneAtATime, PagesTrue

\* Pages stay true as long as nothing is stored and no page is loaded.
LEMMA PagesTrueKept ==
    ASSUME PagesTrue, UNCHANGED <<docs, secs, page>>
    PROVE  PagesTrue'
<1> SUFFICES ASSUME NEW t \in Tabs, page[t] # NoPage PROVE PageTrue(t)'
  BY DEF PagesTrue
<1>1. \A d : Preload(d)' = Preload(d)
  BY DEF Preload, Sections
<1>2. \A d : view(t, Preload(d))' = view(t, Preload(d))
  BY <1>1 DEF view
<1>3. PageTrue(t)
  BY DEF PagesTrue
<1> QED
  BY <1>2, <1>3 DEF PageTrue, Live, Current

\* A step of tab t when no other tab has a request in flight.
LEMMA SerialAlone ==
    ASSUME TypeOK, NEW t \in Tabs, \A u \in Tabs \ {t} : req[u] = Idle /\ req'[u] = req[u],
           req'[t] # Idle => AsRead(t, req[t])', PagesTrue'
    PROVE  SerialInv'
<1>1. \A u \in Tabs : req'[u] # Idle => u = t
  OBVIOUS
<1> QED
  BY <1>1 DEF SerialInv, OneAtATime

\* A request begins only when no other is in flight.
LEMMA NoneInFlight ==
    ASSUME MaxInFlight = 1, Cardinality(InFlight) < MaxInFlight
    PROVE  \A u \in Tabs : req[u] = Idle
<1>1. IsFiniteSet(InFlight) /\ Cardinality(InFlight) \in Nat
  BY ConstantsAssumption, FS_Subset, FS_CardinalityType DEF InFlight
<1>2. InFlight = {}
  BY <1>1, FS_EmptySet
<1> QED
  BY <1>2 DEF InFlight

LEMMA SerialReadRow ==
    ASSUME MaxInFlight = 1, TypeOK, SerialInv, NEW t \in Tabs, NEW d \in DocIds,
           NEW kind \in {"get", "update", "share", "delete"}, ReadRow(t, d, kind)
    PROVE  SerialInv'
<1> DEFINE v == Request(kind, "row", d, docs[d], docs[d], NoRows, NoRows, FALSE, FALSE)
<1>1. v.step = "row" /\ v.kind = kind /\ v.doc = d /\ v.read = docs[d]
  BY DEF Request
<1>2. /\ req' = [req EXCEPT ![t] = v] /\ UNCHANGED <<docs, secs, page>>
      /\ kind = "update" => page[t] # NoPage /\ page[t].doc = d
      /\ \A u \in Tabs : req[u] = Idle
  BY NoneInFlight DEF ReadRow
<1> HIDE DEF v
<1>3. req'[t] = v /\ \A u \in Tabs \ {t} : req'[u] = req[u]
  BY <1>2 DEF TypeOK
<1>4. AsRead(t, req[t])'
  BY <1>1, <1>2, <1>3 DEF AsRead
<1>5. PagesTrue'
  BY <1>2, PagesTrueKept DEF SerialInv
<1> QED
  BY <1>2, <1>3, <1>4, <1>5, SerialAlone

LEMMA SerialCreate ==
    ASSUME MaxInFlight = 1, TypeOK, SerialInv, NEW t \in Tabs, NEW d \in DocIds,
           NEW repo, NEW path, NEW day, NEW allow, CheckCreate(t, d, repo, path, day, allow)
    PROVE  SerialInv'
<1> DEFINE row     == [repo |-> repo, path |-> path, day |-> day, version |-> 1]
           v(rows) == Request("create", "ready", d, row, row, NoRows, rows, FALSE, allow)
<1>1. PICK rows : req' = [req EXCEPT ![t] = v(rows)]
  BY DEF CheckCreate
<1>2. /\ v(rows).step = "ready" /\ v(rows).kind = "create" /\ v(rows).doc = d
      /\ v(rows).row.repo = repo /\ v(rows).row.path = path /\ v(rows).allow = allow
  BY DEF Request
<1> HIDE DEF v
<1>3. /\ UNCHANGED <<docs, secs, page>> /\ docs[d] = Unborn
      /\ allow = ExistsAtPath(repo, path, d)
      /\ \A u \in Tabs : req[u] = Idle
  BY NoneInFlight DEF CheckCreate
<1>4. req'[t] = v(rows) /\ \A u \in Tabs \ {t} : req'[u] = req[u]
  BY <1>1 DEF TypeOK
<1>5. AsRead(t, req[t])'
  BY <1>2, <1>3, <1>4 DEF AsRead, PathFree, ExistsAtPath, Live
<1>6. PagesTrue'
  BY <1>3, PagesTrueKept DEF SerialInv
<1> QED
  BY <1>3, <1>4, <1>5, <1>6, SerialAlone

\* A request that becomes ready alone keeps what it has read.
LEMMA SerialReady ==
    ASSUME TypeOK, SerialInv, NEW t \in Tabs, req[t] # Idle,
           req[t].step = "row", req[t].kind \in {"update", "share"},
           NEW row, NEW base, NEW final, NEW guarded, NEW allow,
           Ready(t, row, base, final, guarded, allow), base = Preload(req[t].doc),
           ~allow => \/ ~ExistsAtPath(row.repo, row.path, req[t].doc)
                     \/ /\ req[t].kind = "update"
                        /\ row.repo = req[t].read.repo /\ row.path = req[t].read.path
    PROVE  SerialInv'
<1> DEFINE r == req[t]
           v == Request(r.kind, "ready", r.doc, r.read, row, base, final, guarded, allow)
<1>1. /\ v.step = "ready" /\ v.kind = r.kind /\ v.doc = r.doc /\ v.read = r.read
      /\ v.row = row /\ v.base = base /\ v.allow = allow
  BY DEF Request
<1>2. req' = [req EXCEPT ![t] = v] /\ UNCHANGED <<docs, secs, page>>
  BY DEF Ready
<1> HIDE DEF v
<1>3. req'[t] = v /\ \A u \in Tabs \ {t} : req'[u] = req[u] /\ req[u] = Idle
  BY <1>2 DEF TypeOK, SerialInv, OneAtATime
<1>4. docs[r.doc] = r.read /\ (r.kind = "update" => page[t] # NoPage /\ page[t].doc = r.doc)
  BY DEF SerialInv, AsRead
<1>5. \A d : Preload(d)' = Preload(d)
  BY <1>2 DEF Preload, Sections
<1>6. \A repo, path, d : ExistsAtPath(repo, path, d)' <=> ExistsAtPath(repo, path, d)
  BY <1>2 DEF ExistsAtPath, Live
<1>0. PICK d : d = r.doc
  OBVIOUS
<1>7. Preload(d)' = base
  BY <1>0, <1>5
<1>8. ~allow => \/ ~ExistsAtPath(row.repo, row.path, d)'
                \/ r.kind = "update" /\ row.repo = r.read.repo /\ row.path = r.read.path
  BY <1>0, <1>6
<1>9. AsRead(t, req[t])'
  <2>1. r.kind \in {"update", "share"}
    OBVIOUS
  <2> HIDE DEF r
  <2>2. /\ req'[t].step = "ready" /\ req'[t].kind = r.kind /\ req'[t].doc = d
        /\ req'[t].read = r.read /\ req'[t].row = row /\ req'[t].base = base
        /\ req'[t].allow = allow
    BY <1>0, <1>1, <1>3
  <2>3. docs'[d] = r.read /\ (r.kind = "update" => page'[t] # NoPage /\ page'[t].doc = d)
    BY <1>0, <1>2, <1>4
  <2>4. (~req[t].allow => PathFree(req[t]))'
    BY <1>8, <2>2 DEF PathFree, ExistsAtPath, Live
  <2>5. (docs[req[t].doc] = req[t].read /\ Preload(req[t].doc) = req[t].base)'
    BY <1>7, <2>2, <2>3 DEF Preload, Sections
  <2> QED
    BY <2>1, <2>2, <2>3, <2>4, <2>5 DEF AsRead
<1>10. PagesTrue'
  BY <1>2, PagesTrueKept DEF SerialInv
<1> QED
  BY <1>3, <1>9, <1>10, SerialAlone

LEMMA SerialUpdate ==
    ASSUME TypeOK, SerialInv, NEW t \in Tabs, NEW path \in Paths, NEW day \in Days,
           NEW guarded \in BOOLEAN, NEW allow \in BOOLEAN, CheckUpdate(t, path, day, guarded, allow)
    PROVE  SerialInv'
<1> DEFINE r    == req[t]
           base == Preload(r.doc)
           row  == Bumped([r.read EXCEPT !.path = path, !.day = day])
<1>1. PICK rows, final : Ready(t, row, base, final, guarded, allow)
  BY DEF CheckUpdate
<1>2. r # Idle /\ r.step = "row" /\ r.kind = "update" /\ r.read \in DocRow
  BY DEF CheckUpdate, At, TypeOK, IsRequest
<1>3. row.repo = r.read.repo /\ row.path = path
  BY <1>2 DEF DocRow, Bumped
<1>4. allow = (path # r.read.path /\ ExistsAtPath(r.read.repo, path, r.doc))
  BY DEF CheckUpdate
<1>5. ~allow => ~ExistsAtPath(row.repo, row.path, r.doc)
                \/ (row.repo = r.read.repo /\ row.path = r.read.path)
  BY <1>3, <1>4
<1> HIDE DEF row, base
<1>6. base = Preload(r.doc)
  BY DEF base
<1> QED
  BY <1>1, <1>2, <1>5, <1>6, SerialReady

LEMMA SerialShare ==
    ASSUME TypeOK, SerialInv, NEW t \in Tabs, NEW target \in GroupRepos, NEW day \in Days,
           NEW allow \in BOOLEAN, CheckShare(t, target, day, allow)
    PROVE  SerialInv'
<1> DEFINE r    == req[t]
           base == Preload(r.doc)
           row  == Bumped([r.read EXCEPT !.repo = target, !.day = day])
<1>1. Ready(t, row, base, Renumber(base), FALSE, allow)
  BY DEF CheckShare
<1>2. r # Idle /\ r.step = "row" /\ r.kind = "share" /\ r.read \in DocRow
  BY DEF CheckShare, At, TypeOK, IsRequest
<1>3. row.repo = target /\ row.path = r.read.path
  BY <1>2 DEF DocRow, Bumped
<1>4. ~allow => ~ExistsAtPath(row.repo, row.path, r.doc)
  BY <1>3 DEF CheckShare
<1> HIDE DEF row, base
<1>6. base = Preload(r.doc)
  BY DEF base
<1> DEFINE no == FALSE
<1>7. Ready(t, row, base, Renumber(base), no, allow)
  BY <1>1
<1> HIDE DEF no
<1> QED
  BY <1>2, <1>4, <1>6, <1>7, SerialReady

LEMMA SerialReload ==
    ASSUME TypeOK, SerialInv, NEW t \in Tabs, Reload(t)
    PROVE  SerialInv'
<1> DEFINE d == req[t].doc
           v == Request("reload", "row", d, docs[d], docs[d], NoRows, NoRows, FALSE, FALSE)
<1>1. v.step = "row" /\ v.kind = "reload" /\ v.doc = d /\ v.read = docs[d]
  BY DEF Request
<1>2. /\ req' = [req EXCEPT ![t] = IF Live(d) THEN v ELSE Idle]
      /\ UNCHANGED <<docs, secs, page>> /\ req[t] # Idle
  BY DEF Reload, At
<1> HIDE DEF v, d
<1>3. req'[t] \in {v, Idle} /\ \A u \in Tabs \ {t} : req'[u] = req[u] /\ req[u] = Idle
  BY <1>2 DEF TypeOK, SerialInv, OneAtATime
<1>4. req'[t] # Idle => AsRead(t, req[t])'
  BY <1>1, <1>2, <1>3 DEF AsRead
<1>5. PagesTrue'
  BY <1>2, PagesTrueKept DEF SerialInv
<1> QED
  BY <1>3, <1>4, <1>5, SerialAlone

LEMMA SerialAbandon ==
    ASSUME TypeOK, SerialInv, NEW t \in Tabs, Abandon(t)
    PROVE  SerialInv'
<1>1. /\ req'[t] = Idle /\ UNCHANGED <<docs, secs, page>>
      /\ \A u \in Tabs \ {t} : req'[u] = req[u] /\ req[u] = Idle
  BY DEF Abandon, TypeOK, SerialInv, OneAtATime
<1>2. PagesTrue'
  BY <1>1, PagesTrueKept DEF SerialInv
<1> QED
  BY <1>1, <1>2, SerialAlone

LEMMA SerialGet ==
    ASSUME TypeOK, SerialInv, NEW t \in Tabs, Get(t)
    PROVE  SerialInv'
<1> DEFINE r == req[t]
           d == r.doc
           p == [doc |-> d, row |-> r.read, rows |-> view(t, Preload(d))]
<1>1. r # Idle /\ r.step = "row" /\ r.read \in DocRow /\ d \in DocIds
  BY DEF Get, At, TypeOK, IsRequest
<1>2. docs[d] = r.read
  BY <1>1 DEF SerialInv, AsRead
<1>3. p.doc = d /\ p.row = r.read /\ p.rows = view(t, Preload(d))
  OBVIOUS
<1>4. page' = [page EXCEPT ![t] = p] /\ UNCHANGED <<docs, secs>> /\ req' = [req EXCEPT ![t] = Idle]
  BY DEF Get
<1> HIDE DEF p, d, r
<1>5. /\ page'[t] = p /\ req'[t] = Idle
      /\ \A u \in Tabs \ {t} : page'[u] = page[u] /\ req'[u] = req[u] /\ req[u] = Idle
  BY <1>1, <1>4 DEF TypeOK, SerialInv, OneAtATime, r
<1>6. \A u, e : /\ Preload(e)' = Preload(e) /\ view(u, Preload(e))' = view(u, Preload(e))
                /\ Live(e)' = Live(e)
  <2>1. \A e : Preload(e)' = Preload(e)
    BY <1>4 DEF Preload, Sections
  <2> QED
    BY <1>4, <2>1 DEF view, Live
<1>7. PageTrue(t)'
  <2>1. docs[d] \in DocRow /\ docs[d] # Unborn /\ docs[d].version \in Nat
    BY <1>1, <1>2, ConstantsAssumption DEF DocRow
  <2> QED
    BY <1>2, <1>3, <1>4, <1>5, <1>6, <2>1 DEF PageTrue, Current
<1>8. ASSUME NEW u \in Tabs \ {t}, page[u] # NoPage PROVE PageTrue(u)'
  BY <1>4, <1>5, <1>6, <1>8 DEF PageTrue, Current, SerialInv, PagesTrue
<1>9. PagesTrue'
  BY <1>5, <1>7, <1>8 DEF PagesTrue
<1> QED
  BY <1>5, <1>9, SerialAlone

\* A page of a document the step leaves alone stays true.
LEMMA OtherPageTrue ==
    ASSUME SerialInv, NEW u \in Tabs, page[u] # NoPage, page'[u] = page[u],
           NEW e, e = page[u].doc, docs'[e] = docs[e], Preload(e)' = Preload(e)
    PROVE  PageTrue(u)'
<1>1. PageTrue(u)
  BY DEF SerialInv, PagesTrue
<1>2. view(u, Preload(e))' = view(u, Preload(e))
  BY DEF view
<1>3. view(u, Preload(page[u].doc))' = view(u, Preload(page[u].doc))
  BY <1>2
<1> QED
  BY <1>1, <1>3 DEF PageTrue, Current, Live

LEMMA SerialDelete ==
    ASSUME TypeOK, SerialInv, NEW t \in Tabs, Delete(t)
    PROVE  SerialInv'
<1>0. PICK d : d = req[t].doc
  OBVIOUS
<1>1. /\ req[t] # Idle /\ d \in DocIds
      /\ docs' = [docs EXCEPT ![d] = Deleted] /\ secs' = SectionsDeleted(d)
      /\ page' = page /\ req' = [req EXCEPT ![t] = Idle]
  BY <1>0 DEF Delete, At, TypeOK, IsRequest
<1>2. req'[t] = Idle /\ \A u \in Tabs \ {t} : req'[u] = req[u] /\ req[u] = Idle
  BY <1>1 DEF TypeOK, SerialInv, OneAtATime
<1>3. docs'[d] = Deleted /\ \A e \in DocIds \ {d} : docs'[e] = docs[e]
  BY <1>1 DEF TypeOK
<1>4. ASSUME NEW e \in DocIds \ {d}
      PROVE  Preload(e)' = Preload(e)
  <2>1. Sections(e)' = Sections(e)
    BY <1>0, <1>1, SectionsAfterDelete
  <2>2. \A s \in Sections(e) : secs'[s] = secs[s]
    BY <1>1 DEF SectionsDeleted, Sections
  <2> QED
    BY <2>1, <2>2 DEF Preload
<1>5. ASSUME NEW u \in Tabs, page[u] # NoPage
      PROVE  PageTrue(u)'
  <2>1. PICK e \in DocIds : e = page[u].doc
    BY <1>5 DEF TypeOK, IsPage
  <2>2. CASE e = d
    BY <1>1, <1>3, <2>1, <2>2, ConstantsAssumption DEF PageTrue, Live
  <2>3. CASE e # d
    BY <1>1, <1>3, <1>4, <1>5, <2>1, <2>3, OtherPageTrue
  <2> QED
    BY <2>2, <2>3
<1>6. PagesTrue'
  BY <1>1, <1>5 DEF PagesTrue
<1> QED
  BY <1>2, <1>6, SerialAlone

LEMMA SerialSave ==
    ASSUME TypeOK, PositionsInv, RequestsSafe, SerialInv, NEW t \in Tabs, Save(t)
    PROVE  SerialInv'
<1> DEFINE r    == req[t]
           list == r.final
           v    == Request("reload", "saved", r.doc, r.row, r.row, NoRows, NoRows, FALSE, FALSE)
           p    == [doc |-> r.doc, row |-> r.row, rows |-> view(t, list)]
<1>0. PICK d : d = r.doc
  OBVIOUS
<1>1. /\ r # Idle /\ r.step = "ready" /\ r.row \in DocRow /\ r.read \in DocRow /\ d \in DocIds
      /\ docs' = [docs EXCEPT ![d] = r.row]
      /\ \/ /\ r.kind = "create"
            /\ page' = [page EXCEPT ![t] = p] /\ req' = [req EXCEPT ![t] = Idle]
         \/ r.kind # "create" /\ page' = page /\ req' = [req EXCEPT ![t] = v]
  BY <1>0 DEF Save, TypeOK, IsRequest
<1>2. /\ r.kind \in {"create", "update", "share"}
      /\ r.kind = "create" => docs[d] = Unborn
      /\ r.kind # "create" => docs[d] = r.read
  BY <1>0, <1>1 DEF SerialInv, AsRead
<1>3. r.kind # "create" => r.row.version = r.read.version + 1
  BY <1>1, <1>2 DEF RequestsSafe, Safe
<1>4. Preload(d)' = list /\ \A e : e # d => Preload(e)' = Preload(e)
  BY <1>0, PreloadAfterSave, PreloadOfOthers
<1>5. /\ v.step = "saved" /\ v.kind = "reload"
      /\ p.doc = d /\ p.row = r.row /\ p.rows = view(t, list)
  BY <1>0 DEF Request
<1> HIDE DEF p, v, list, r
<1>6. docs'[d] = r.row /\ \A e \in DocIds \ {d} : docs'[e] = docs[e]
  BY <1>1 DEF TypeOK
<1>7. /\ req'[t] \in {v, Idle}
      /\ \A u \in Tabs \ {t} : req'[u] = req[u] /\ req[u] = Idle /\ page'[u] = page[u]
      /\ r.kind = "create" => page'[t] = p
      /\ r.kind # "create" => page'[t] = page[t]
  BY <1>1 DEF TypeOK, SerialInv, OneAtATime, r
<1>8. r.row \notin {Unborn, Deleted} /\ r.row.version \in Nat
  BY <1>1, ConstantsAssumption DEF DocRow
<1>9. ASSUME NEW u \in Tabs, page[u] # NoPage, page'[u] = page[u]
      PROVE  PageTrue(u)'
  <2>1. PICK e \in DocIds : e = page[u].doc
    BY <1>9 DEF TypeOK, IsPage
  <2>2. page[u].row.version \in Nat /\ PageTrue(u)
    BY <1>9 DEF TypeOK, IsPage, DocRow, SerialInv, PagesTrue
  <2>3. CASE e = d
    <3>1. r.kind # "create" /\ docs[d] = r.read
      BY <1>2, <2>1, <2>2, <2>3 DEF PageTrue
    <3>2. r.read.version \in Nat /\ r.read \notin {Unborn, Deleted}
      BY <1>1, ConstantsAssumption DEF DocRow
    <3>3. page[u].row.version <= r.read.version
      BY <2>1, <2>2, <2>3, <3>1, <3>2 DEF PageTrue, Live
    <3>4. page[u].row.version < r.row.version
      BY <1>3, <2>2, <3>1, <3>2, <3>3
    <3>5. docs'[page'[u].doc] = r.row /\ page'[u].row.version = page[u].row.version
      BY <1>6, <1>9, <2>1, <2>3
    <3> QED
      BY <1>8, <2>2, <3>4, <3>5 DEF PageTrue
  <2>4. CASE e # d
    BY <1>4, <1>6, <1>9, <2>1, <2>4, OtherPageTrue
  <2> QED
    BY <2>3, <2>4
<1>10. ASSUME r.kind = "create"
       PROVE  PageTrue(t)'
  <2>1. page'[t].doc = d /\ page'[t].row = r.row /\ page'[t].rows = view(t, list)
    BY <1>5, <1>7, <1>10
  <2>2. view(t, Preload(d)') = view(t, list)
    BY <1>4
  <2>3. view(t, Preload(page[t].doc))' = page'[t].rows
    BY <2>1, <2>2 DEF view, Preload, Sections
  <2> QED
    BY <1>6, <1>8, <2>1, <2>3 DEF PageTrue, Current
<1>11. PagesTrue'
  BY <1>7, <1>9, <1>10 DEF PagesTrue
<1>12. req'[t] # Idle => AsRead(t, req[t])'
  BY <1>5, <1>7 DEF AsRead
<1> QED
  BY <1>7, <1>11, <1>12, SerialAlone

LEMMA SerialStep ==
    ASSUME MaxInFlight = 1, TypeOK, PositionsInv, RequestsSafe, SerialInv, [Next]_vars
    PROVE  SerialInv'
<1>1. CASE UNCHANGED vars
  <2>1. UNCHANGED <<docs, secs, page, req>>
    BY <1>1 DEF vars
  <2>2. PagesTrue'
    BY <2>1, PagesTrueKept DEF SerialInv
  <2>3. \A d : Preload(d)' = Preload(d)
    BY <2>1 DEF Preload, Sections
  <2>4. ASSUME NEW t \in Tabs, req[t] # Idle PROVE AsRead(t, req[t])'
    <3>1. AsRead(t, req[t])
      BY <2>4 DEF SerialInv
    <3>2. PICK d : d = req[t].doc
      OBVIOUS
    <3>3. Preload(req[t].doc)' = Preload(req[t].doc)
      BY <2>1, <2>3, <3>2 DEF Preload, Sections
    <3> QED
      BY <2>1, <3>1, <3>3 DEF AsRead, PathFree, ExistsAtPath, Live
  <2> QED
    BY <2>1, <2>2, <2>4 DEF SerialInv, OneAtATime
<1>2. ASSUME NEW t \in Tabs, NEW d \in DocIds, NotFound(t, d) PROVE UNCHANGED vars
  BY <1>2 DEF NotFound
<1>3. CASE Next
  BY <1>1, <1>2, <1>3, SerialReadRow, SerialCreate, SerialGet, SerialUpdate, SerialShare,
     SerialSave, SerialReload, SerialDelete, SerialAbandon DEF Next
<1> QED
  BY <1>1, <1>3

\* What holds with one request at a time, with all it rests on.
SerialIInv == TypeOK /\ PositionsInv /\ RequestsSafe /\ SerialInv

LEMMA SerialSpec ==
    ASSUME MaxInFlight = 1
    PROVE  Spec => []SerialIInv
<1>1. Spec => []TypeOK
  BY TypeCorrect
<1>2. TypeOK /\ PositionsInv /\ RequestsSafe /\ SerialInv /\ [Next]_vars => SerialInv'
  BY SerialStep
<1> QED
  BY <1>1, <1>2, PositionsInit, PositionsStep, SafeInit, SafeStep, SerialInit, PTL
     DEF Spec, SerialIInv

\* With one request at a time, a save that carries its page's version and is not
\* forced replaces exactly what its editor had loaded: the version it was checked
\* against identifies the row and the sections the page shows (core domain rule 7,
\* ErrConcurrentEdit).
THEOREM SerialOverwrite ==
    ASSUME MaxInFlight = 1
    PROVE  Spec => NoSilentOverwrite
<1>1. ASSUME SerialIInv, NEW t \in Tabs, NEW d \in DocIds, Saves(t, d, {"update"}), req[t].guarded
      PROVE  Current(t, d)
  <2> DEFINE r == req[t]
  <2>1. r # Idle /\ r.step = "ready" /\ r.kind = "update" /\ r.doc = d
    BY <1>1 DEF Saves, Save
  <2>2. docs[d] = r.read /\ page[t] # NoPage /\ page[t].doc = d
    BY <1>1, <2>1 DEF SerialIInv, SerialInv, AsRead
  <2>3. r.read.version = page[t].row.version /\ r.read \in DocRow
    BY <1>1, <2>1 DEF SerialIInv, RequestsSafe, Safe, TypeOK, IsRequest
  <2>4. Live(d)
    BY <2>2, <2>3, ConstantsAssumption DEF Live
  <2> QED
    BY <1>1, <2>2, <2>3, <2>4 DEF SerialIInv, SerialInv, PagesTrue, PageTrue
<1>2. SerialIInv => [\A t \in Tabs, d \in DocIds :
        Saves(t, d, {"update"}) /\ req[t].guarded => Current(t, d)]_vars
  BY <1>1
<1> QED
  BY <1>2, SerialSpec, PTL DEF NoSilentOverwrite

\* With one request at a time, a player's save or share leaves the GM-only
\* sections and their order as they are stored.
THEOREM SerialGMOnly ==
    ASSUME MaxInFlight = 1
    PROVE  Spec => GMOnlyUntouched
<1>1. ASSUME SerialIInv, NEW t \in Tabs \ GMTabs, NEW d \in DocIds,
             Saves(t, d, {"update", "share"})
      PROVE  GMOnlyKept(d)
  <2>1. req[t] # Idle /\ req[t].step = "ready" /\ req[t].kind # "create" /\ req[t].doc = d
    BY <1>1 DEF Saves, Save
  <2>2. docs[d] = req[t].read /\ Preload(d) = req[t].base
    BY <1>1, <2>1 DEF SerialIInv, SerialInv, AsRead
  <2> QED
    BY <1>1, <2>2, FreshSaveStep DEF SerialIInv
<1>2. SerialIInv => [\A t \in Tabs \ GMTabs, d \in DocIds :
        Saves(t, d, {"update", "share"}) => GMOnlyKept(d)]_vars
  BY <1>1
<1> QED
  BY <1>2, SerialSpec, PTL DEF GMOnlyUntouched

\* With one request at a time, a document lands on an occupied path only where
\* the caller allowed it, or stays on the path it already shared.
THEOREM SerialCollision ==
    ASSUME MaxInFlight = 1
    PROVE  Spec => CollisionWarned
<1>1. ASSUME SerialIInv, NEW t \in Tabs, NEW d \in DocIds, NEW e \in DocIds,
             Saves(t, d, Kinds), ~req[t].allow, e # d, Live(d)', Live(e),
             <<docs'[d].repo, docs'[d].path>> = <<docs[e].repo, docs[e].path>>
      PROVE  Live(d) /\ <<docs[d].repo, docs[d].path>> = <<docs[e].repo, docs[e].path>>
  <2> DEFINE r == req[t]
  <2>1. r # Idle /\ r.step = "ready" /\ r.doc = d /\ docs'[d] = r.row
    BY <1>1 DEF SerialIInv, Saves, Save, TypeOK
  <2>2. PathFree(r)
    BY <1>1, <2>1 DEF SerialIInv, SerialInv, AsRead
  <2>3. docs[e].repo = r.row.repo /\ docs[e].path = r.row.path
    BY <1>1, <2>1
  <2>4. ExistsAtPath(r.row.repo, r.row.path, d)
    BY <1>1, <2>3 DEF ExistsAtPath
  <2>5. r.kind = "update" /\ r.row.repo = r.read.repo /\ r.row.path = r.read.path
    BY <2>1, <2>2, <2>4 DEF PathFree
  <2>6. docs[d] = r.read /\ r.read \in DocRow
    BY <1>1, <2>1, <2>5 DEF SerialIInv, SerialInv, AsRead, TypeOK, IsRequest
  <2> QED
    BY <2>3, <2>5, <2>6, ConstantsAssumption DEF Live
<1>2. SerialIInv => [\A t \in Tabs, d, e \in DocIds :
        Saves(t, d, Kinds) /\ ~req[t].allow /\ e # d /\ Live(d)' /\ Live(e)
            /\ <<docs'[d].repo, docs'[d].path>> = <<docs[e].repo, docs[e].path>>
        => Live(d) /\ <<docs[d].repo, docs[d].path>> = <<docs[e].repo, docs[e].path>>]_vars
  BY <1>1
<1> QED
  BY <1>2, SerialSpec, PTL DEF CollisionWarned

=============================================================================
