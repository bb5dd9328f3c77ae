-------------------------- MODULE DocumentsProofs --------------------------
(***************************************************************************)
(* Theorems about the document service, for any number of tabs, documents, *)
(* sections and requests in flight.                                        *)
(***************************************************************************)
EXTENDS Documents, FiniteSetTheorems, TLAPS

-----------------------------------------------------------------------------
(* Section lists *)

\* What it means to be a section list, element by element.
LEMMA ListFacts ==
    ASSUME NEW f, IsList(f)
    PROVE  /\ DOMAIN f \in SUBSET SecIds
           /\ f \in [DOMAIN f -> SecBody]
           /\ \A s \in DOMAIN f : f[s] \in SecBody
           /\ IsFiniteSet(DOMAIN f)
           /\ Cardinality(DOMAIN f) \in Nat
<1>1. PICK S \in SUBSET SecIds : f \in [S -> SecBody]
  BY DEF IsList
<1>2. DOMAIN f = S
  BY <1>1
<1>3. IsFiniteSet(S)
  BY FS_Subset, ConstantsAssumption
<1> QED
  BY <1>1, <1>2, <1>3, FS_CardinalityType

\* The empty list is a list.
LEMMA NoRowsIsList == IsList(NoRows)
<1>1. NoRows \in [{} -> SecBody]
  BY DEF NoRows
<1> QED
  BY <1>1 DEF IsList

\* The section rows of a document, as read, form a list.
LEMMA PreloadIsList ==
    ASSUME TypeOK, NEW d
    PROVE  IsList(Preload(d)) /\ DOMAIN Preload(d) = Sections(d)
<1>1. Sections(d) \in SUBSET SecIds
  BY DEF Sections
<1>2. \A s \in Sections(d) : secs[s].body \in SecBody
  BY DEF Sections, TypeOK, SecRow
<1>3. Preload(d) \in [Sections(d) -> SecBody]
  BY <1>2 DEF Preload
<1> QED
  BY <1>1, <1>3 DEF IsList

\* Stripping a list leaves a list.
LEMMA ViewIsList ==
    ASSUME NEW t, NEW f, IsList(f)
    PROVE  IsList(view(t, f))
<1> DEFINE S == {s \in DOMAIN f : t \in GMTabs \/ ~f[s].gm}
<1>1. S \in SUBSET SecIds
  BY ListFacts
<1>2. view(t, f) \in [S -> SecBody]
  BY ListFacts DEF view
<1> QED
  BY <1>1, <1>2 DEF IsList

\* Numbering a list leaves a list of the same rows.
LEMMA RenumberIsList ==
    ASSUME NEW f, IsList(f)
    PROVE  /\ IsList(Renumber(f))
           /\ DOMAIN Renumber(f) = DOMAIN f
           /\ \A s \in DOMAIN f : /\ Renumber(f)[s].gm = f[s].gm
                                  /\ Renumber(f)[s].text = f[s].text
<1> DEFINE rank(s) == Cardinality({u \in DOMAIN f : f[u].pos < f[s].pos})
<1>1. \A s \in DOMAIN f : rank(s) \in Nat
  <2> TAKE s \in DOMAIN f
  <2>1. {u \in DOMAIN f : f[u].pos < f[s].pos} \subseteq DOMAIN f
    OBVIOUS
  <2> QED
    BY <2>1, ListFacts, FS_Subset, FS_CardinalityType
<1>2. Renumber(f) = [s \in DOMAIN f |-> [f[s] EXCEPT !.pos = rank(s)]]
  BY DEF Renumber
<1> HIDE DEF rank
<1>3. \A s \in DOMAIN f : /\ [f[s] EXCEPT !.pos = rank(s)] \in SecBody
                          /\ [f[s] EXCEPT !.pos = rank(s)].gm = f[s].gm
                          /\ [f[s] EXCEPT !.pos = rank(s)].text = f[s].text
  BY <1>1, ListFacts DEF SecBody
<1>4. Renumber(f) \in [DOMAIN f -> SecBody]
  BY <1>2, <1>3
<1> QED
  BY <1>2, <1>3, <1>4, ListFacts DEF IsList

\* Everything an editor submits is a list.
LEMMA AppendedAreLists ==
    ASSUME NEW t, NEW f, IsList(f), NEW rows \in Appended(t, f)
    PROVE  IsList(rows)
<1>1. PICK s \in Fresh, g \in Flags(t), x \in Texts : rows = WithRow(f, s, g, x)
  BY DEF Appended
<1>2. [pos |-> Cardinality(DOMAIN f), gm |-> g, text |-> x] \in SecBody
  BY <1>1, ListFacts DEF SecBody, Flags
<1>3. rows \in [DOMAIN f \cup {s} -> SecBody]
  BY <1>1, <1>2, ListFacts DEF WithRow
<1>4. DOMAIN f \cup {s} \in SUBSET SecIds
  BY ListFacts DEF Fresh
<1> QED
  BY <1>3, <1>4 DEF IsList

LEMMA SwappedAreLists ==
    ASSUME NEW f, IsList(f), NEW rows, rows \in Swapped(f)
    PROVE  IsList(rows)
<1>1. PICK s \in DOMAIN f, u \in DOMAIN f : rows = Swap(f, s, u)
  BY DEF Swapped
<1>2. \A b, c \in SecBody : [b EXCEPT !.pos = c.pos] \in SecBody
  BY DEF SecBody
<1>3. [f EXCEPT ![s].pos = f[u].pos] \in [DOMAIN f -> SecBody]
  BY <1>2, ListFacts
<1>4. rows \in [DOMAIN f -> SecBody]
  BY <1>1, <1>2, <1>3, ListFacts DEF Swap
<1> QED
  BY <1>4, ListFacts DEF IsList

LEMMA SubmissionsAreLists ==
    ASSUME NEW t, IsList(page[t].rows), NEW rows \in Submissions(t)
    PROVE  IsList(rows) /\ Discreet(t, rows)
<1> DEFINE f == Renumber(page[t].rows)
<1>a. IsList(f) /\ f \in [DOMAIN f -> SecBody] /\ DOMAIN f \in SUBSET SecIds
  BY RenumberIsList, ListFacts
<1> HIDE DEF f
<1>b. /\ Discreet(t, rows)
      /\ \/ rows = f \/ rows \in Retyped(f) \/ rows \in Shortened(f)
         \/ rows \in Appended(t, f) \/ rows \in Reflagged(f) \/ rows \in Swapped(f)
  BY DEF Submissions, f
<1>1. CASE rows \in Retyped(f)
  <2>1. PICK s \in DOMAIN f, x \in Texts : rows = [f EXCEPT ![s].text = x]
    BY <1>1 DEF Retyped
  <2>2. [f[s] EXCEPT !.text = x] \in SecBody
    BY <1>a DEF SecBody
  <2>3. rows \in [DOMAIN f -> SecBody]
    BY <2>1, <2>2, <1>a
  <2> QED
    BY <2>3, <1>a, <1>b DEF IsList
<1>2. CASE rows \in Shortened(f)
  <2>1. PICK s \in DOMAIN f : rows = [u \in DOMAIN f \ {s} |-> f[u]]
    BY <1>2 DEF Shortened
  <2>2. rows \in [DOMAIN f \ {s} -> SecBody]
    BY <2>1, <1>a
  <2>3. DOMAIN f \ {s} \in SUBSET SecIds
    BY <1>a
  <2> QED
    BY <2>2, <2>3, <1>b DEF IsList
<1>3. CASE rows \in Reflagged(f)
  <2>1. PICK s \in DOMAIN f : rows = [f EXCEPT ![s].gm = ~@]
    BY <1>3 DEF Reflagged
  <2>2. [f[s] EXCEPT !.gm = ~@] \in SecBody
    BY <1>a DEF SecBody
  <2>3. rows \in [DOMAIN f -> SecBody]
    BY <2>1, <2>2, <1>a
  <2> QED
    BY <2>3, <1>a, <1>b DEF IsList
<1>4. CASE rows \in Swapped(f)
  BY <1>a, <1>b, <1>4, SwappedAreLists
<1>5. CASE rows \in Appended(t, f)
  BY <1>a, <1>b, <1>5, AppendedAreLists
<1>6. CASE rows = f
  BY <1>a, <1>b, <1>6
<1> QED
  BY <1>1, <1>2, <1>3, <1>4, <1>5, <1>6, <1>b

\* What a GM's submission can stand for: the same rows, in their order, each at
\* the index of its last mention.
LEMMA GMMerge ==
    ASSUME NEW rows, IsList(rows), NEW final \in mergeSectionsGM(rows)
    PROVE  /\ IsList(final)
           /\ DOMAIN final = DOMAIN rows
           /\ \A s \in DOMAIN rows : final[s].gm = rows[s].gm /\ final[s].text = rows[s].text
           /\ \A s, u \in DOMAIN rows : final[u].pos < final[s].pos <=> rows[u].pos < rows[s].pos
<1>1. PICK at \in LastMentions(rows) :
        final = [s \in DOMAIN rows |-> [rows[s] EXCEPT !.pos = at[s]]]
  BY DEF mergeSectionsGM
<1>2. /\ \A s \in DOMAIN rows : at[s] \in Nat
      /\ \A s, u \in DOMAIN rows : at[u] < at[s] <=> rows[u].pos < rows[s].pos
  <2> DEFINE n == Cardinality(DOMAIN rows) + MaxRepeats - 1
  <2>1. n \in Int
    BY ListFacts, ConstantsAssumption
  <2>2. at \in [DOMAIN rows -> 0 .. n]
    BY DEF LastMentions
  <2> HIDE DEF n
  <2>3. \A s \in DOMAIN rows : at[s] \in Nat
    BY <2>1, <2>2
  <2> QED
    BY <2>3 DEF LastMentions
<1>3. \A s \in DOMAIN rows : /\ final[s] \in SecBody /\ final[s].pos = at[s]
                            /\ final[s].gm = rows[s].gm /\ final[s].text = rows[s].text
  BY <1>1, <1>2, ListFacts DEF SecBody
<1>4. final \in [DOMAIN rows -> SecBody] /\ DOMAIN rows \in SUBSET SecIds
  BY <1>1, <1>3, ListFacts
<1> QED
  BY <1>2, <1>3, <1>4 DEF IsList

\* The rows of a player's merge, before they are numbered.
LEMMA MergedRowsIsList ==
    ASSUME NEW base, NEW rows, IsList(base), IsList(rows)
    PROVE  IsList(MergedRows(base, rows))
<1> DEFINE D == (DOMAIN base \ Visible(base)) \cup DOMAIN rows
           val(s) == IF s \in DOMAIN base
                     THEN IF base[s].gm THEN base[s] ELSE [base[s] EXCEPT !.text = rows[s].text]
                     ELSE [pos |-> Cardinality(DOMAIN base) + rows[s].pos, gm |-> FALSE,
                           text |-> rows[s].text]
<1>1. D \in SUBSET SecIds
  BY ListFacts
<1>2. \A s \in D : val(s) \in SecBody
  BY ListFacts DEF SecBody, Visible
<1>3. MergedRows(base, rows) = [s \in D |-> val(s)]
  BY DEF MergedRows
<1> HIDE DEF D, val
<1>4. MergedRows(base, rows) \in [D -> SecBody]
  BY <1>2, <1>3
<1> QED
  BY <1>1, <1>4 DEF IsList

\* The merge of an update makes lists of two lists.
LEMMA MergeIsList ==
    ASSUME NEW t, NEW base, NEW rows, IsList(base), IsList(rows),
           NEW final \in mergeSections(t, base, rows)
    PROVE  IsList(final)
<1>1. CASE t \in GMTabs
  BY <1>1, GMMerge DEF mergeSections
<1>2. CASE t \notin GMTabs
  <2>1. final = mergeSectionsPlayer(base, rows)
    BY <1>2 DEF mergeSections
  <2>2. IsList(MergedRows(Renumber(base), rows))
    BY RenumberIsList, MergedRowsIsList
  <2> QED
    BY <2>1, <2>2, RenumberIsList DEF mergeSectionsPlayer
<1> QED
  BY <1>1, <1>2

-----------------------------------------------------------------------------
(* Types *)

\* A request record built from typed parts is a request.
LEMMA RequestTyped ==
    ASSUME NEW kind \in Kinds, NEW step \in {"row", "ready", "saved"}, NEW d \in DocIds,
           NEW read \in DocRow, NEW row \in DocRow, NEW base, NEW final,
           IsList(base), IsList(final), NEW guarded \in BOOLEAN, NEW allow \in BOOLEAN
    PROVE  IsRequest(Request(kind, step, d, read, row, base, final, guarded, allow))
  BY DEF IsRequest, Request

\* Deleting the sections of a document leaves section rows or Deleted marks.
LEMMA SectionsDeletedTyped ==
    ASSUME TypeOK, NEW d
    PROVE  SectionsDeleted(d) \in [SecIds -> SecRow \cup {Unborn, Deleted}]
  BY DEF TypeOK, SectionsDeleted

\* A row changed by an update or a share is still a row.
LEMMA BumpedTyped ==
    ASSUME NEW row \in DocRow, NEW repo \in Repos, NEW path \in Paths, NEW day \in Days
    PROVE  /\ Bumped([row EXCEPT !.path = path, !.day = day]) \in DocRow
           /\ Bumped([row EXCEPT !.repo = repo, !.day = day]) \in DocRow
<1>1. /\ [row EXCEPT !.path = path, !.day = day] \in DocRow
      /\ [row EXCEPT !.repo = repo, !.day = day] \in DocRow
  BY DEF DocRow
<1>2. \A r \in DocRow : Bumped(r) \in DocRow
  BY DEF DocRow, Bumped
<1> QED
  BY <1>1, <1>2

\* The activity entry of a typed change is an entry.
LEMMA EntryTyped ==
    ASSUME NEW d \in DocIds, NEW row \in DocRow, NEW action \in {"added", "updated", "removed"}
    PROVE  documentEntry(d, row.repo, row.day, action) \in Entries
  BY DEF documentEntry, Entries, DocRow

\* Steps that change only the requests in flight keep the types.
LEMMA RequestStepTyped ==
    ASSUME TypeOK, NEW t \in Tabs, NEW v, v = Idle \/ IsRequest(v),
           req' = [req EXCEPT ![t] = v], UNCHANGED <<docs, secs, log, page>>
    PROVE  TypeOK'
  BY DEF TypeOK

LEMMA TypeInit == Init => TypeOK
  BY DEF Init, TypeOK

LEMMA CheckCreateTyped ==
    ASSUME TypeOK, NEW t \in Tabs, NEW d \in DocIds, NEW repo \in Repos, NEW path \in Paths,
           NEW day \in Days, NEW allow \in BOOLEAN, CheckCreate(t, d, repo, path, day, allow)
    PROVE  TypeOK'
<1> DEFINE row == [repo |-> repo, path |-> path, day |-> day, version |-> 1]
<1>1. row \in DocRow
  BY DEF DocRow
<1>2. PICK rows \in {NoRows} \cup Appended(t, NoRows) :
        req' = [req EXCEPT ![t] =
                  Request("create", "ready", d, row, row, NoRows, rows, FALSE, allow)]
  BY DEF CheckCreate
<1>3. IsList(rows)
  BY NoRowsIsList, AppendedAreLists
<1>4. IsRequest(Request("create", "ready", d, row, row, NoRows, rows, FALSE, allow))
  BY <1>1, <1>3, NoRowsIsList, RequestTyped DEF Kinds
<1> HIDE DEF row
<1> QED
  BY <1>2, <1>4, RequestStepTyped DEF CheckCreate

LEMMA ReadyTyped ==
    ASSUME TypeOK, NEW t \in Tabs, req[t] # Idle, NEW row \in DocRow, NEW base, NEW final,
           IsList(base), IsList(final), NEW guarded \in BOOLEAN, NEW allow \in BOOLEAN,
           Ready(t, row, base, final, guarded, allow)
    PROVE  TypeOK'
<1> DEFINE v == Request(req[t].kind, "ready", req[t].doc, req[t].read,
                        row, base, final, guarded, allow)
<1>1. IsRequest(v)
  <2>1. IsRequest(req[t])
    BY DEF TypeOK
  <2>2. req[t].kind \in Kinds /\ req[t].doc \in DocIds /\ req[t].read \in DocRow
    BY <2>1 DEF IsRequest
  <2> QED
    BY <2>2, RequestTyped
<1> QED
  BY <1>1, RequestStepTyped DEF Ready

LEMMA CheckUpdateTyped ==
    ASSUME TypeOK, NEW t \in Tabs, NEW path \in Paths, NEW day \in Days,
           NEW guarded \in BOOLEAN, NEW allow \in BOOLEAN, CheckUpdate(t, path, day, guarded, allow)
    PROVE  TypeOK'
<1> DEFINE r    == req[t]
           base == Preload(r.doc)
           row  == Bumped([r.read EXCEPT !.path = path, !.day = day])
<1>1. r # Idle /\ IsRequest(r)
  BY DEF CheckUpdate, At, TypeOK
<1>2. row \in DocRow
  <2>1. r.read \in DocRow /\ r.read.repo \in Repos
    BY <1>1 DEF IsRequest, DocRow
  <2> QED
    BY <2>1, BumpedTyped
<1>3. IsList(base)
  BY PreloadIsList
<1>4. PICK rows \in Submissions(t) : \E final \in mergeSections(t, base, rows) :
        Ready(t, row, base, final, guarded, allow)
  BY DEF CheckUpdate
<1>5. IsList(rows)
  BY SubmissionsAreLists DEF TypeOK, IsPage, CheckUpdate
<1>6. PICK final \in mergeSections(t, base, rows) : Ready(t, row, base, final, guarded, allow)
  BY <1>4
<1>7. IsList(final)
  BY <1>3, <1>5, MergeIsList
<1> HIDE DEF r, base, row
<1> QED
  BY <1>1, <1>2, <1>3, <1>6, <1>7, ReadyTyped DEF r

LEMMA CheckShareTyped ==
    ASSUME TypeOK, NEW t \in Tabs, NEW target \in GroupRepos, NEW day \in Days,
           NEW allow \in BOOLEAN, CheckShare(t, target, day, allow)
    PROVE  TypeOK'
<1> DEFINE r    == req[t]
           base == Preload(r.doc)
           row  == Bumped([r.read EXCEPT !.repo = target, !.day = day])
<1>1. r # Idle /\ IsRequest(r)
  BY DEF CheckShare, At, TypeOK
<1>2. row \in DocRow
  <2>1. r.read \in DocRow /\ r.read.path \in Paths /\ target \in Repos
    BY <1>1 DEF IsRequest, DocRow, Repos
  <2> QED
    BY <2>1, BumpedTyped
<1>3. IsList(base) /\ IsList(Renumber(base))
  BY PreloadIsList, RenumberIsList
<1>4. Ready(t, row, base, Renumber(base), FALSE, allow)
  BY DEF CheckShare
<1> HIDE DEF r, base, row
<1> QED
  BY <1>1, <1>2, <1>3, <1>4, ReadyTyped DEF r

\* The section table after a save: the listed rows of the document, its other
\* rows deleted, every other document's rows as they were.
LEMMA SaveSections ==
    ASSUME TypeOK, NEW t \in Tabs, Save(t)
    PROVE  /\ IsRequest(req[t])
           /\ \A s \in SecIds :
                secs'[s] = IF s \in DOMAIN req[t].final
                           THEN [doc |-> req[t].doc, body |-> req[t].final[s]]
                           ELSE SectionsDeleted(req[t].doc)[s]
           /\ secs' \in [SecIds -> SecRow \cup {Unborn, Deleted}]
<1> DEFINE r == req[t]
<1>1. IsRequest(r)
  BY DEF Save, TypeOK
<1>2. IsList(r.final) /\ r.doc \in DocIds
  BY <1>1 DEF IsRequest
<1>3. \A s \in DOMAIN r.final : [doc |-> r.doc, body |-> r.final[s]] \in SecRow
  BY <1>2, ListFacts DEF SecRow
<1>4. secs' = [s \in SecIds |-> IF s \in DOMAIN r.final THEN [doc |-> r.doc, body |-> r.final[s]]
                                ELSE SectionsDeleted(r.doc)[s]]
  BY DEF Save
<1> HIDE DEF r
<1>5. secs' \in [SecIds -> SecRow \cup {Unborn, Deleted}]
  BY <1>3, <1>4, SectionsDeletedTyped
<1> QED
  BY <1>1, <1>4, <1>5 DEF r

LEMMA SaveTyped ==
    ASSUME TypeOK, NEW t \in Tabs, Save(t)
    PROVE  TypeOK'
<1> DEFINE r == req[t]
<1>1. IsRequest(r)
  BY SaveSections
<1>2. r.doc \in DocIds /\ r.row \in DocRow /\ IsList(r.final)
  BY <1>1 DEF IsRequest
<1>3. docs' \in [DocIds -> DocRow \cup {Unborn, Deleted}]
  BY <1>2 DEF Save, TypeOK
<1>4. secs' \in [SecIds -> SecRow \cup {Unborn, Deleted}]
  BY SaveSections
<1>5. log' \subseteq Entries
  <2> DEFINE a == IF r.kind = "update" THEN "updated" ELSE "added"
  <2>1. log' = log \cup {documentEntry(r.doc, r.row.repo, r.row.day, a)}
    BY DEF Save
  <2>2. a \in {"added", "updated", "removed"}
    OBVIOUS
  <2> QED
    BY <1>2, <2>1, <2>2, EntryTyped DEF TypeOK
<1>6. DOMAIN page' = Tabs /\ \A u \in Tabs : page'[u] # NoPage => IsPage(page'[u])
  <2>1. CASE r.kind = "create"
    <3> DEFINE v == [doc |-> r.doc, row |-> r.row, rows |-> view(t, r.final)]
    <3>1. IsPage(v)
      BY <1>2, ViewIsList DEF IsPage
    <3>2. page' = [page EXCEPT ![t] = v]
      BY <2>1 DEF Save
    <3> HIDE DEF v
    <3> QED
      BY <3>1, <3>2 DEF TypeOK
  <2>2. CASE r.kind # "create"
    BY <2>2 DEF Save, TypeOK
  <2> QED
    BY <2>1, <2>2
<1>7. DOMAIN req' = Tabs /\ \A u \in Tabs : req'[u] # Idle => IsRequest(req'[u])
  <2>1. CASE r.kind = "create"
    BY <2>1 DEF Save, TypeOK
  <2>2. CASE r.kind # "create"
    <3> DEFINE v == Request("reload", "saved", r.doc, r.row, r.row, NoRows, NoRows, FALSE, FALSE)
    <3>1. IsRequest(v)
      BY <1>2, NoRowsIsList, RequestTyped DEF Kinds
    <3>2. req' = [req EXCEPT ![t] = v]
      BY <2>2 DEF Save
    <3> HIDE DEF v
    <3> QED
      BY <3>1, <3>2 DEF TypeOK
  <2> QED
    BY <2>1, <2>2
<1> QED
  BY <1>3, <1>4, <1>5, <1>6, <1>7 DEF TypeOK

LEMMA TypeStep == TypeOK /\ [Next]_vars => TypeOK'
<1> SUFFICES ASSUME TypeOK, [Next]_vars PROVE TypeOK'
  OBVIOUS
<1>1. CASE UNCHANGED vars
  BY <1>1 DEF TypeOK, vars
<1>2. ASSUME NEW t \in Tabs, NEW d \in DocIds, NotFound(t, d) PROVE TypeOK'
  BY <1>2 DEF NotFound, TypeOK, vars
<1>3. ASSUME NEW t \in Tabs, NEW d \in DocIds,
             NEW kind \in {"get", "update", "share", "delete"}, ReadRow(t, d, kind)
      PROVE  TypeOK'
  <2> DEFINE v == Request(kind, "row", d, docs[d], docs[d], NoRows, NoRows, FALSE, FALSE)
  <2>1. docs[d] \in DocRow
    BY <1>3 DEF ReadRow, Live, TypeOK
  <2>2. IsRequest(v)
    BY <2>1, NoRowsIsList, RequestTyped DEF Kinds
  <2> QED
    BY <1>3, <2>2, RequestStepTyped DEF ReadRow
<1>4. ASSUME NEW t \in Tabs, Get(t) PROVE TypeOK'
  <2> DEFINE r == req[t]
             v == [doc |-> r.doc, row |-> r.read, rows |-> view(t, Preload(r.doc))]
  <2>1. r.doc \in DocIds /\ r.read \in DocRow
    BY <1>4 DEF Get, At, TypeOK, IsRequest
  <2>2. IsPage(v)
    BY <2>1, PreloadIsList, ViewIsList DEF IsPage
  <2>3. page' = [page EXCEPT ![t] = v] /\ req' = [req EXCEPT ![t] = Idle]
        /\ UNCHANGED <<docs, secs, log>>
    BY <1>4 DEF Get
  <2> HIDE DEF v
  <2> QED
    BY <2>2, <2>3 DEF TypeOK
<1>5. ASSUME NEW t \in Tabs, Reload(t) PROVE TypeOK'
  <2> DEFINE r == req[t]
             w == Request("reload", "row", r.doc, docs[r.doc], docs[r.doc],
                          NoRows, NoRows, FALSE, FALSE)
             v == IF Live(r.doc) THEN w ELSE Idle
  <2>1. r.doc \in DocIds
    BY <1>5 DEF Reload, At, TypeOK, IsRequest
  <2>2. ASSUME Live(r.doc) PROVE IsRequest(w)
    <3>1. docs[r.doc] \in DocRow
      BY <2>1, <2>2 DEF Live, TypeOK
    <3> QED
      BY <2>1, <3>1, NoRowsIsList, RequestTyped DEF Kinds
  <2>3. v = Idle \/ IsRequest(v)
    BY <2>2
  <2>4. req' = [req EXCEPT ![t] = v] /\ UNCHANGED <<docs, secs, log, page>>
    BY <1>5 DEF Reload
  <2> HIDE DEF v
  <2> QED
    BY <2>3, <2>4, RequestStepTyped
<1>6. ASSUME NEW t \in Tabs, Delete(t) PROVE TypeOK'
  <2> DEFINE r == req[t]
  <2>1. r.doc \in DocIds /\ r.read \in DocRow
    BY <1>6 DEF Delete, At, TypeOK, IsRequest
  <2>2. documentEntry(r.doc, r.read.repo, r.read.day, "removed") \in Entries
    BY <2>1, EntryTyped
  <2> QED
    BY <1>6, <2>1, <2>2, SectionsDeletedTyped DEF Delete, TypeOK
<1>7. ASSUME NEW t \in Tabs, Abandon(t) PROVE TypeOK'
  BY <1>7, RequestStepTyped DEF Abandon
<1> QED
  BY <1>1, <1>2, <1>3, <1>4, <1>5, <1>6, <1>7, CheckCreateTyped, CheckUpdateTyped,
     CheckShareTyped, SaveTyped DEF Next

\* Rows, entries, pages and requests keep their shapes, whatever requests are
\* interleaved.
THEOREM TypeCorrect == Spec => []TypeOK
  BY TypeInit, TypeStep, PTL DEF Spec

-----------------------------------------------------------------------------
(* No orphan sections *)

\* Only a save or a delete writes to the database.
LEMMA Writers ==
    ASSUME [Next]_vars
    PROVE  UNCHANGED <<docs, secs, log>> \/ \E t \in Tabs : Save(t) \/ Delete(t)
<1>1. CASE UNCHANGED vars
  BY <1>1 DEF vars
<1>2. ASSUME NEW t \in Tabs, NEW d \in DocIds, NotFound(t, d)
      PROVE  UNCHANGED <<docs, secs, log>>
  BY <1>2 DEF NotFound, vars
<1>3. ASSUME NEW t \in Tabs, NEW d \in DocIds, NEW kind, ReadRow(t, d, kind)
      PROVE  UNCHANGED <<docs, secs, log>>
  BY <1>3 DEF ReadRow
<1>4. ASSUME NEW t \in Tabs, NEW d \in DocIds, NEW repo, NEW path, NEW day, NEW allow,
             CheckCreate(t, d, repo, path, day, allow)
      PROVE  UNCHANGED <<docs, secs, log>>
  BY <1>4 DEF CheckCreate
<1>5. ASSUME NEW t \in Tabs, NEW path, NEW day, NEW guarded, NEW allow,
             CheckUpdate(t, path, day, guarded, allow)
      PROVE  UNCHANGED <<docs, secs, log>>
  BY <1>5 DEF CheckUpdate, Ready
<1>6. ASSUME NEW t \in Tabs, NEW target, NEW day, NEW allow, CheckShare(t, target, day, allow)
      PROVE  UNCHANGED <<docs, secs, log>>
  BY <1>6 DEF CheckShare, Ready
<1>7. ASSUME NEW t \in Tabs, Get(t) \/ Reload(t) \/ Abandon(t)
      PROVE  UNCHANGED <<docs, secs, log>>
  BY <1>7 DEF Get, Reload, Abandon
<1> QED
  BY <1>1, <1>2, <1>3, <1>4, <1>5, <1>6, <1>7 DEF Next

LEMMA NoOrphanInit == Init => NoOrphanSections
  BY DEF Init, NoOrphanSections, Sections

\* Deleting a document's sections leaves it none and the others theirs.
LEMMA SectionsAfterDelete ==
    ASSUME TypeOK, NEW t \in Tabs, Delete(t), NEW e \in DocIds
    PROVE  Sections(e)' = IF e = req[t].doc THEN {} ELSE Sections(e)
<1>1. secs' = SectionsDeleted(req[t].doc)
  BY DEF Delete
<1> QED
  BY <1>1 DEF Sections, SectionsDeleted

\* A save leaves its document the listed sections and the others theirs, or
\* fewer.
LEMMA SectionsAfterSave ==
    ASSUME TypeOK, NEW t \in Tabs, Save(t), NEW e \in DocIds
    PROVE  /\ e = req[t].doc => Sections(e)' \subseteq DOMAIN req[t].final
           /\ e # req[t].doc => Sections(e)' \subseteq Sections(e)
<1> DEFINE r == req[t]
<1>1. \A s \in SecIds : secs'[s] = IF s \in DOMAIN r.final
                                   THEN [doc |-> r.doc, body |-> r.final[s]]
                                   ELSE SectionsDeleted(r.doc)[s]
  BY SaveSections
<1>2. ASSUME NEW s \in Sections(e)' PROVE (e = r.doc => s \in DOMAIN r.final)
                                          /\ (e # r.doc => s \in Sections(e))
  <2>1. s \in SecIds /\ secs'[s] \notin {Unborn, Deleted} /\ secs'[s].doc = e
    BY <1>2 DEF Sections
  <2>2. CASE s \in DOMAIN r.final
    <3>1. secs'[s] = [doc |-> r.doc, body |-> r.final[s]]
      BY <1>1, <2>1, <2>2
    <3>2. secs'[s].doc = r.doc
      BY <3>1
    <3> QED
      BY <2>1, <2>2, <3>2
  <2>3. CASE s \notin DOMAIN r.final
    BY <1>1, <2>1, <2>3 DEF SectionsDeleted, Sections
  <2> QED
    BY <2>2, <2>3
<1> QED
  BY <1>2

LEMMA NoOrphanStep == TypeOK /\ NoOrphanSections /\ [Next]_vars => NoOrphanSections'
<1> SUFFICES ASSUME TypeOK, NoOrphanSections, [Next]_vars,
                    NEW e \in DocIds, ~Live(e)'
             PROVE  Sections(e)' = {}
  BY DEF NoOrphanSections
<1>1. CASE UNCHANGED <<docs, secs>>
  BY <1>1 DEF NoOrphanSections, Live, Sections
<1>2. ASSUME NEW t \in Tabs, Save(t) PROVE Sections(e)' = {}
  <2>1. /\ req[t].doc \in DocIds /\ req[t].row \in DocRow
        /\ docs' = [docs EXCEPT ![req[t].doc] = req[t].row]
    BY <1>2, SaveSections DEF Save, IsRequest
  <2>2. e # req[t].doc
    BY <2>1, ConstantsAssumption DEF Live, TypeOK
  <2>3. ~Live(e)
    BY <2>1, <2>2 DEF Live, TypeOK
  <2> QED
    BY <1>2, <2>2, <2>3, SectionsAfterSave DEF NoOrphanSections
<1>3. ASSUME NEW t \in Tabs, Delete(t) PROVE Sections(e)' = {}
  <2>1. e # req[t].doc => ~Live(e)
    BY <1>3 DEF Delete, Live, TypeOK
  <2> QED
    BY <1>3, <2>1, SectionsAfterDelete DEF NoOrphanSections
<1> QED
  BY <1>1, <1>2, <1>3, Writers

\* Sections never outlive their document: a save that races a delete brings the
\* document back with them, and a delete takes the sections it finds.
THEOREM NoOrphans == Spec => []NoOrphanSections
<1>1. Spec => []TypeOK
  BY TypeCorrect
<1> QED
  BY <1>1, NoOrphanInit, NoOrphanStep, PTL DEF Spec

-----------------------------------------------------------------------------
(* Every document has an activity entry *)

LEMMA HasEntryInit == Init => DocumentHasEntry
  BY DEF Init, DocumentHasEntry, Live

LEMMA HasEntryStep == TypeOK /\ DocumentHasEntry /\ [Next]_vars => DocumentHasEntry'
<1> DEFINE Has(e, row, l) == \E n \in l : /\ n.doc = e /\ n.action # "removed"
                                          /\ n.repo = row.repo /\ n.day = row.day
<1> SUFFICES ASSUME TypeOK, DocumentHasEntry, [Next]_vars, NEW e \in DocIds, Live(e)'
             PROVE  Has(e, docs'[e], log')
  BY DEF DocumentHasEntry
<1>1. CASE UNCHANGED <<docs, secs, log>>
  BY <1>1 DEF DocumentHasEntry, Live
<1>2. ASSUME NEW t \in Tabs, Save(t) PROVE Has(e, docs'[e], log')
  <2> DEFINE r == req[t]
             a == IF r.kind = "update" THEN "updated" ELSE "added"
             n == documentEntry(r.doc, r.row.repo, r.row.day, a)
  <2>1. r.doc \in DocIds /\ docs' = [docs EXCEPT ![r.doc] = r.row] /\ log' = log \cup {n}
    BY <1>2, SaveSections DEF Save, IsRequest
  <2>2. CASE e = r.doc
    <3>1. docs'[e] = r.row
      BY <2>1, <2>2 DEF TypeOK
    <3>2. n.doc = e /\ n.action # "removed" /\ n.repo = r.row.repo /\ n.day = r.row.day
      BY <2>2 DEF documentEntry
    <3> QED
      BY <2>1, <3>1, <3>2
  <2>3. CASE e # r.doc
    <3>1. docs'[e] = docs[e] /\ Live(e)
      BY <2>1, <2>3 DEF Live, TypeOK
    <3> QED
      BY <2>1, <3>1 DEF DocumentHasEntry
  <2> QED
    BY <2>2, <2>3
<1>3. ASSUME NEW t \in Tabs, Delete(t) PROVE Has(e, docs'[e], log')
  <2>1. docs' = [docs EXCEPT ![req[t].doc] = Deleted] /\ log \subseteq log'
    BY <1>3 DEF Delete
  <2>2. docs'[e] = docs[e] /\ Live(e)
    BY <2>1 DEF Live, TypeOK
  <2> QED
    BY <2>1, <2>2 DEF DocumentHasEntry
<1> QED
  BY <1>1, <1>2, <1>3, Writers

\* Wherever a document is, an entry of the log is scoped and dated so that
\* whoever comes to see the document sees an event about it.
THEOREM HasEntry == Spec => []DocumentHasEntry
<1>1. Spec => []TypeOK
  BY TypeCorrect
<1> QED
  BY <1>1, HasEntryInit, HasEntryStep, PTL DEF Spec

-----------------------------------------------------------------------------
(* Secrets *)

\* The rows that hold a secret are GM-only, in every copy of a section list.
Guarded(rows) == \A s \in DOMAIN rows : rows[s].text \in Secrets => rows[s].gm

SecretsGuarded ==
    /\ \A s \in SecIds :
        secs[s] \notin {Unborn, Deleted} /\ secs[s].body.text \in Secrets => secs[s].body.gm
    /\ \A t \in Tabs : req[t] # Idle => Guarded(req[t].base) /\ Guarded(req[t].final)
    /\ \A t \in Tabs \ GMTabs : page[t] # NoPage =>
        Guarded(page[t].rows) /\ \A s \in DOMAIN page[t].rows : ~page[t].rows[s].gm

LEMMA GuardedHides == SecretsGuarded => SecretsStayHidden
  BY DEF SecretsGuarded, SecretsStayHidden, Guarded

LEMMA NoRowsGuarded == Guarded(NoRows)
  BY DEF Guarded, NoRows

LEMMA PreloadGuarded ==
    ASSUME SecretsGuarded, NEW d
    PROVE  Guarded(Preload(d))
  BY DEF SecretsGuarded, Guarded, Preload, Sections

LEMMA ViewGuarded ==
    ASSUME NEW t, NEW f, Guarded(f)
    PROVE  /\ Guarded(view(t, f))
           /\ t \notin GMTabs => \A s \in DOMAIN view(t, f) : ~view(t, f)[s].gm
  BY DEF Guarded, view

LEMMA RenumberGuarded ==
    ASSUME NEW f, IsList(f), Guarded(f)
    PROVE  Guarded(Renumber(f))
  BY RenumberIsList DEF Guarded

LEMMA DiscreetGuarded ==
    ASSUME NEW t, NEW f, Discreet(t, f)
    PROVE  Guarded(f)
  BY DEF Discreet, Guarded

LEMMA GMMergeGuarded ==
    ASSUME NEW rows, IsList(rows), Guarded(rows), NEW final \in mergeSectionsGM(rows)
    PROVE  Guarded(final)
  BY GMMerge DEF Guarded

LEMMA MergedRowsGuarded ==
    ASSUME NEW t, t \notin GMTabs, NEW base, NEW rows, IsList(base), IsList(rows), Guarded(base),
           Discreet(t, rows)
    PROVE  Guarded(MergedRows(base, rows))
<1> DEFINE m == MergedRows(base, rows)
<1>1. ASSUME NEW s \in DOMAIN m, m[s].text \in Secrets PROVE m[s].gm
  <2>1. \A u \in DOMAIN rows : rows[u].text \notin Secrets
    BY DEF Discreet
  <2>2. CASE s \in DOMAIN base /\ base[s].gm
    <3>1. m[s] = base[s]
      BY <2>2 DEF MergedRows
    <3> QED
      BY <2>2, <3>1
  <2>3. CASE s \in DOMAIN base /\ ~base[s].gm
    <3>1. s \in DOMAIN rows /\ m[s] = [base[s] EXCEPT !.text = rows[s].text]
      BY <2>3 DEF MergedRows, Visible
    <3>2. base[s] \in SecBody
      BY <2>3, ListFacts
    <3>3. m[s].text = rows[s].text
      BY <3>1, <3>2 DEF SecBody
    <3> QED
      BY <1>1, <2>1, <3>1, <3>3
  <2>4. CASE s \notin DOMAIN base
    <3>1. s \in DOMAIN rows /\ m[s].text = rows[s].text
      BY <2>4 DEF MergedRows
    <3> QED
      BY <1>1, <2>1, <3>1
  <2> QED
    BY <2>2, <2>3, <2>4
<1> QED
  BY <1>1 DEF Guarded

LEMMA MergeGuarded ==
    ASSUME NEW t, NEW base, NEW rows, IsList(base), IsList(rows), Guarded(base),
           Discreet(t, rows), NEW final \in mergeSections(t, base, rows)
    PROVE  Guarded(final)
<1>1. CASE t \in GMTabs
  BY <1>1, DiscreetGuarded, GMMergeGuarded DEF mergeSections
<1>2. CASE t \notin GMTabs
  <2>1. final = mergeSectionsPlayer(base, rows)
    BY <1>2 DEF mergeSections
  <2>2. IsList(Renumber(base)) /\ Guarded(Renumber(base))
    BY RenumberIsList, RenumberGuarded
  <2>3. IsList(MergedRows(Renumber(base), rows)) /\ Guarded(MergedRows(Renumber(base), rows))
    BY <1>2, <2>2, MergedRowsIsList, MergedRowsGuarded
  <2> QED
    BY <2>1, <2>3, RenumberGuarded DEF mergeSectionsPlayer
<1> QED
  BY <1>1, <1>2

\* Steps that change only the requests in flight, to a guarded one.
LEMMA RequestStepGuarded ==
    ASSUME TypeOK, SecretsGuarded, NEW t \in Tabs, NEW v,
           v = Idle \/ (Guarded(v.base) /\ Guarded(v.final)),
           req' = [req EXCEPT ![t] = v], UNCHANGED <<docs, secs, log, page>>
    PROVE  SecretsGuarded'
<1>1. ASSUME NEW u \in Tabs, req'[u] # Idle
      PROVE  Guarded(req'[u].base) /\ Guarded(req'[u].final)
  BY <1>1 DEF TypeOK, SecretsGuarded
<1> QED
  BY <1>1 DEF SecretsGuarded

LEMMA GuardedInit == Init => SecretsGuarded
  BY DEF Init, SecretsGuarded

LEMMA SaveGuarded ==
    ASSUME TypeOK, SecretsGuarded, NEW t \in Tabs, Save(t)
    PROVE  SecretsGuarded'
<1> DEFINE r == req[t]
<1>1. IsRequest(r) /\ Guarded(r.final)
  BY SaveSections DEF SecretsGuarded, Save
<1>2. IsList(r.final)
  BY <1>1 DEF IsRequest
<1>3. ASSUME NEW s \in SecIds, secs'[s] \notin {Unborn, Deleted}, secs'[s].body.text \in Secrets
      PROVE  secs'[s].body.gm
  <2>1. secs'[s] = IF s \in DOMAIN r.final THEN [doc |-> r.doc, body |-> r.final[s]]
                   ELSE SectionsDeleted(r.doc)[s]
    BY SaveSections
  <2>2. CASE s \in DOMAIN r.final
    <3>1. secs'[s].body = r.final[s]
      BY <2>1, <2>2
    <3> QED
      BY <1>1, <1>3, <2>2, <3>1 DEF Guarded
  <2>3. CASE s \notin DOMAIN r.final
    <3>1. secs'[s] = secs[s]
      BY <1>3, <2>1, <2>3 DEF SectionsDeleted
    <3> QED
      BY <1>3, <3>1 DEF SecretsGuarded
  <2> QED
    BY <2>2, <2>3
<1>4. ASSUME NEW u \in Tabs, req'[u] # Idle
      PROVE  Guarded(req'[u].base) /\ Guarded(req'[u].final)
  <2>1. CASE r.kind = "create"
    BY <1>4, <2>1 DEF Save, TypeOK, SecretsGuarded
  <2>2. CASE r.kind # "create"
    <3> DEFINE v == Request("reload", "saved", r.doc, r.row, r.row, NoRows, NoRows, FALSE, FALSE)
    <3>1. Guarded(v.base) /\ Guarded(v.final)
      BY NoRowsGuarded DEF Request
    <3>2. req' = [req EXCEPT ![t] = v]
      BY <2>2 DEF Save
    <3> HIDE DEF v
    <3> QED
      BY <1>4, <3>1, <3>2 DEF TypeOK, SecretsGuarded
  <2> QED
    BY <2>1, <2>2
<1>5. ASSUME NEW u \in Tabs \ GMTabs, page'[u] # NoPage
      PROVE  Guarded(page'[u].rows) /\ \A s \in DOMAIN page'[u].rows : ~page'[u].rows[s].gm
  <2>1. CASE r.kind = "create"
    <3> DEFINE v == [doc |-> r.doc, row |-> r.row, rows |-> view(t, r.final)]
    <3>1. page' = [page EXCEPT ![t] = v]
      BY <2>1 DEF Save
    <3>2. v.rows = view(t, r.final)
      OBVIOUS
    <3> HIDE DEF v, r
    <3>3. CASE u = t
      BY <1>1, <1>5, <3>1, <3>2, <3>3, ViewGuarded DEF TypeOK
    <3>4. CASE u # t
      BY <1>5, <3>1, <3>4 DEF TypeOK, SecretsGuarded
    <3> QED
      BY <3>3, <3>4
  <2>2. CASE r.kind # "create"
    BY <1>5, <2>2 DEF Save, SecretsGuarded
  <2> QED
    BY <2>1, <2>2
<1> QED
  BY <1>3, <1>4, <1>5 DEF SecretsGuarded

LEMMA CheckGuarded ==
    ASSUME TypeOK, SecretsGuarded, NEW t \in Tabs,
           \/ \E d \in DocIds, repo \in Repos, path \in Paths, day \in Days, allow \in BOOLEAN :
                CheckCreate(t, d, repo, path, day, allow)
           \/ \E path \in Paths, day \in Days, guarded \in BOOLEAN, allow \in BOOLEAN :
                CheckUpdate(t, path, day, guarded, allow)
           \/ \E target \in GroupRepos, day \in Days, allow \in BOOLEAN :
                CheckShare(t, target, day, allow)
    PROVE  SecretsGuarded'
<1>1. ASSUME NEW d \in DocIds, NEW repo, NEW path, NEW day, NEW allow,
             CheckCreate(t, d, repo, path, day, allow)
      PROVE  SecretsGuarded'
  <2> DEFINE row     == [repo |-> repo, path |-> path, day |-> day, version |-> 1]
             v(rows) == Request("create", "ready", d, row, row, NoRows, rows, FALSE, allow)
  <2>1. PICK rows : Discreet(t, rows) /\ req' = [req EXCEPT ![t] = v(rows)]
    BY <1>1 DEF CheckCreate
  <2>2. Guarded(v(rows).base) /\ Guarded(v(rows).final)
    BY <2>1, NoRowsGuarded, DiscreetGuarded DEF Request
  <2>3. UNCHANGED <<docs, secs, log, page>>
    BY <1>1 DEF CheckCreate
  <2> HIDE DEF v
  <2> QED
    BY <2>1, <2>2, <2>3, RequestStepGuarded
<1>2. ASSUME NEW row, NEW base, NEW final, NEW guarded, NEW allow,
             Guarded(base), Guarded(final), Ready(t, row, base, final, guarded, allow)
      PROVE  SecretsGuarded'
  <2> DEFINE v == Request(req[t].kind, "ready", req[t].doc, req[t].read,
                          row, base, final, guarded, allow)
  <2>1. Guarded(v.base) /\ Guarded(v.final)
    BY <1>2 DEF Request
  <2>2. req' = [req EXCEPT ![t] = v] /\ UNCHANGED <<docs, secs, log, page>>
    BY <1>2 DEF Ready
  <2> HIDE DEF v
  <2> QED
    BY <2>1, <2>2, RequestStepGuarded
<1>3. ASSUME NEW path, NEW day, NEW guarded, NEW allow, CheckUpdate(t, path, day, guarded, allow)
      PROVE  SecretsGuarded'
  <2> DEFINE base == Preload(req[t].doc)
             row  == Bumped([req[t].read EXCEPT !.path = path, !.day = day])
  <2>1. PICK rows \in Submissions(t) : \E final \in mergeSections(t, base, rows) :
          Ready(t, row, base, final, guarded, allow)
    BY <1>3 DEF CheckUpdate
  <2>2. IsList(rows) /\ Discreet(t, rows)
    BY <1>3, SubmissionsAreLists DEF TypeOK, IsPage, CheckUpdate
  <2>3. IsList(base) /\ Guarded(base)
    BY PreloadIsList, PreloadGuarded
  <2>4. PICK final \in mergeSections(t, base, rows) :
          Ready(t, row, base, final, guarded, allow)
    BY <2>1
  <2>5. Guarded(final)
    BY <2>2, <2>3, MergeGuarded
  <2> QED
    BY <1>2, <2>3, <2>4, <2>5
<1>4. ASSUME NEW target, NEW day, NEW allow, CheckShare(t, target, day, allow)
      PROVE  SecretsGuarded'
  <2> DEFINE base == Preload(req[t].doc)
             row  == Bumped([req[t].read EXCEPT !.repo = target, !.day = day])
  <2>1. Ready(t, row, base, Renumber(base), FALSE, allow)
    BY <1>4 DEF CheckShare
  <2>2. Guarded(base) /\ Guarded(Renumber(base))
    BY PreloadIsList, PreloadGuarded, RenumberGuarded
  <2> QED
    BY <1>2, <2>1, <2>2
<1> QED
  BY <1>1, <1>3, <1>4

LEMMA GuardedStep == TypeOK /\ SecretsGuarded /\ [Next]_vars => SecretsGuarded'
<1> SUFFICES ASSUME TypeOK, SecretsGuarded, [Next]_vars PROVE SecretsGuarded'
  OBVIOUS
<1>1. CASE UNCHANGED vars
  BY <1>1 DEF SecretsGuarded, vars
<1>2. ASSUME NEW t \in Tabs, NEW d \in DocIds, NotFound(t, d) PROVE SecretsGuarded'
  BY <1>2 DEF NotFound, SecretsGuarded, vars
<1>3. ASSUME NEW t \in Tabs, NEW d \in DocIds, NEW kind, ReadRow(t, d, kind)
      PROVE  SecretsGuarded'
  <2> DEFINE v == Request(kind, "row", d, docs[d], docs[d], NoRows, NoRows, FALSE, FALSE)
  <2>1. Guarded(v.base) /\ Guarded(v.final)
    BY NoRowsGuarded DEF Request
  <2>2. req' = [req EXCEPT ![t] = v] /\ UNCHANGED <<docs, secs, log, page>>
    BY <1>3 DEF ReadRow
  <2> HIDE DEF v
  <2> QED
    BY <2>1, <2>2, RequestStepGuarded
<1>4. ASSUME NEW t \in Tabs, Get(t) PROVE SecretsGuarded'
  <2> DEFINE r == req[t]
             f == view(t, Preload(r.doc))
             v == [doc |-> r.doc, row |-> r.read, rows |-> f]
  <2>1. /\ page' = [page EXCEPT ![t] = v] /\ req' = [req EXCEPT ![t] = Idle]
        /\ UNCHANGED <<docs, secs, log>>
    BY <1>4 DEF Get
  <2>2. Guarded(f) /\ (t \notin GMTabs => \A s \in DOMAIN f : ~f[s].gm)
    BY PreloadGuarded, ViewGuarded
  <2>3. v.rows = f
    OBVIOUS
  <2> HIDE DEF v, f
  <2>4. ASSUME NEW u \in Tabs \ GMTabs, page'[u] # NoPage
        PROVE  Guarded(page'[u].rows) /\ \A s \in DOMAIN page'[u].rows : ~page'[u].rows[s].gm
    <3>1. CASE u = t
      <4>1. page'[u].rows = f
        BY <2>1, <2>3, <3>1 DEF TypeOK
      <4> QED
        BY <2>2, <3>1, <4>1
    <3>2. CASE u # t
      BY <2>1, <2>4, <3>2 DEF TypeOK, SecretsGuarded
    <3> QED
      BY <3>1, <3>2
  <2>5. ASSUME NEW u \in Tabs, req'[u] # Idle
        PROVE  Guarded(req'[u].base) /\ Guarded(req'[u].final)
    BY <2>1, <2>5 DEF TypeOK, SecretsGuarded
  <2> QED
    BY <2>1, <2>4, <2>5 DEF SecretsGuarded
<1>5. ASSUME NEW t \in Tabs, Reload(t) PROVE SecretsGuarded'
  <2> DEFINE r == req[t]
             w == Request("reload", "row", r.doc, docs[r.doc], docs[r.doc],
                          NoRows, NoRows, FALSE, FALSE)
             v == IF Live(r.doc) THEN w ELSE Idle
  <2>1. Guarded(w.base) /\ Guarded(w.final)
    BY NoRowsGuarded DEF Request
  <2>2. req' = [req EXCEPT ![t] = v] /\ UNCHANGED <<docs, secs, log, page>>
    BY <1>5 DEF Reload
  <2>3. v = Idle \/ (Guarded(v.base) /\ Guarded(v.final))
    BY <2>1
  <2> HIDE DEF v
  <2> QED
    BY <2>2, <2>3, RequestStepGuarded
<1>6. ASSUME NEW t \in Tabs, Delete(t) PROVE SecretsGuarded'
  <2>1. ASSUME NEW s \in SecIds, secs'[s] \notin {Unborn, Deleted}
        PROVE  secs'[s] = secs[s]
    BY <1>6, <2>1 DEF Delete, SectionsDeleted
  <2>2. ASSUME NEW u \in Tabs, req'[u] # Idle PROVE req'[u] = req[u]
    BY <1>6, <2>2 DEF Delete, TypeOK
  <2>3. page' = page
    BY <1>6 DEF Delete
  <2> QED
    BY <2>1, <2>2, <2>3 DEF SecretsGuarded
<1>7. ASSUME NEW t \in Tabs, Abandon(t) PROVE SecretsGuarded'
  BY <1>7, RequestStepGuarded DEF Abandon
<1> QED
  BY <1>1, <1>2, <1>3, <1>4, <1>5, <1>6, <1>7, CheckGuarded, SaveGuarded DEF Next

\* A text kept in GM-only sections never reaches a player's editor, whatever
\* saves, shares, deletes and reads are interleaved.
THEOREM SecretsHidden == Spec => []SecretsStayHidden
<1>1. Spec => []TypeOK
  BY TypeCorrect
<1> QED
  BY <1>1, GuardedInit, GuardedStep, GuardedHides, PTL DEF Spec

=============================================================================
