------------------------------ MODULE Documents ------------------------------
(***************************************************************************)
(* The document service: knowledge documents, their section rows and the   *)
(* requests that read and change them concurrently.                        *)
(*                                                                         *)
(* A request runs in a few steps, because the service reads and      *)
(* checks outside any transaction and the repository writes inside one:    *)
(*   row    the document row has been read (first query of GetByID);       *)
(*   ready  the section rows have been read (the preload query), access,   *)
(*          version and path have been checked, the new row and the final  *)
(*          section list are built in memory;                              *)
(*   saved  the transaction has committed; an update or a share reads the  *)
(*          document again to answer with what is stored;                  *)
(*   Idle   the request has been answered or abandoned.                    *)
(* Other requests may commit between any two of these steps.               *)
(*                                                                         *)
(* A tab is one browser tab of one user; page[t] is what its editor last   *)
(* loaded.  How far a user's characters are (Reach) and which documents    *)
(* were shared with them directly (DirectShares) do not change here.       *)
(***************************************************************************)
EXTENDS Integers, FiniteSets

CONSTANTS
    Tabs,           \* browser tabs, each signed in as one user
    GMTabs,         \* the tabs whose user is a game master
    DocIds,         \* identifiers a document may get (uuid)
    SecIds,         \* identifiers a section row may get (uuid)
    CharacterRepos, \* repositories of type character
    GroupRepos,     \* repositories of type group
    OtherRepos,     \* the general and template repositories
    Paths,          \* normalised document paths
    Days,           \* reveal days
    Texts,          \* section contents
    Secrets,        \* the texts only GMs know, written into GM-only sections only
    Reach,          \* Reach[t][r]: furthest game day of t's characters with access to r
    DirectShares,   \* DirectShares[t]: documents shared with t on a day it has reached
    Unborn, Deleted, NoPage, Idle,
    MaxVersion,     \* bound: saves are not issued from a row at this version
    MaxSections,    \* bound: an editor does not grow a document beyond this
    MaxRepeats,     \* bound: mentions beyond one per section in a GM's submission
    MaxInFlight     \* bound: requests being served at the same time

Repos == CharacterRepos \cup GroupRepos \cup OtherRepos

\* effectiveGameDay's "ok is false": no character of theirs reaches the repository.
NoReach == -1

VARIABLES
    docs,   \* docs[d]: the row of document d
    secs,   \* secs[s]: the row of section s
    log,    \* activity entries written about documents (the set of them)
    page,   \* page[t]: what tab t has loaded
    req     \* req[t]: the request tab t has in flight

vars == <<docs, secs, log, page, req>>

-----------------------------------------------------------------------------
(* Rows *)

\* A document row.  docs[d] is Unborn before the row exists and Deleted once
\* deleted_at is set; every read skips both.
DocRow == [repo: Repos, path: Paths, day: Days, version: Nat]

\* The editable part of a section, and lists of them: a list is a function
\* from section identifiers, ordered by pos.
SecBody == [pos: Nat, gm: BOOLEAN, text: Texts]
IsList(f) == \E S \in SUBSET SecIds : f \in [S -> SecBody]
NoRows == [s \in {} |-> 0]

\* A section row: the document it belongs to and its body.
SecRow == [doc: DocIds, body: SecBody]

ASSUME ConstantsAssumption ==
    /\ GMTabs \subseteq Tabs
    /\ IsFiniteSet(Tabs)
    /\ IsFiniteSet(SecIds)
    /\ Days \subseteq Nat
    /\ Secrets \subseteq Texts
    /\ Reach \in [Tabs -> [Repos -> Nat \cup {NoReach}]]
    /\ DirectShares \in [Tabs -> SUBSET DocIds]
    /\ MaxVersion \in Nat
    /\ MaxSections \in Nat
    /\ MaxRepeats \in Nat
    /\ MaxInFlight \in Nat
    /\ DocRow \cap {Unborn, Deleted} = {}
    /\ SecRow \cap {Unborn, Deleted} = {}
    /\ Unborn # Deleted

Live(d) == docs[d] \notin {Unborn, Deleted}

\* The section rows of document d, as the preload query returns them.
Sections(d) == {s \in SecIds : secs[s] \notin {Unborn, Deleted} /\ secs[s].doc = d}
Preload(d)  == [s \in Sections(d) |-> secs[s].body]

\* view: GM-only sections are stripped before a document leaves the service.
viewWhole(t, rows) == rows
view(t, rows) ==
    [s \in {s \in DOMAIN rows : t \in GMTabs \/ ~rows[s].gm} |-> rows[s]]

\* documentEntry: stamped with the document's reveal day and scoped to the
\* repository that gates it.
documentEntryUndated(d, repo, day, action) ==
    [doc |-> d, repo |-> repo, day |-> 0, action |-> action]
documentEntry(d, repo, day, action) ==
    [doc |-> d, repo |-> repo, day |-> day, action |-> action]

Entries == [doc: DocIds, repo: Repos, day: Days,
            action: {"added", "updated", "removed"}]

-----------------------------------------------------------------------------
(* Access *)

\* RepositoryService.Get: GMs see every repository, everyone the general ones,
\* players those their characters reach.
RepoAccess(t, r) == t \in GMTabs \/ r \in OtherRepos \/ Reach[t][r] # NoReach

\* getAccessible, with the direct share as its fallback.
Accessible(t, d, row) ==
    \/ t \in GMTabs
    \/ Reach[t][row.repo] >= row.day
    \/ d \in DirectShares[t]

\* Documents.ExistsAtPath, not counting document d itself.
NeverExistsAtPath(r, p, d) == FALSE
ExistsAtPath(r, p, d) ==
    \E e \in DocIds \ {d} : Live(e) /\ docs[e].repo = r /\ docs[e].path = p

-----------------------------------------------------------------------------
(* Section lists *)

\* Documents.Update gives a section the index it has in the final list: here of
\* a list that names no section twice.
RenumberNot(rows) == rows
RenumberFromMinusOne(rows) ==
    [s \in DOMAIN rows |->
        [rows[s] EXCEPT !.pos =
            Cardinality({u \in DOMAIN rows : rows[u].pos < rows[s].pos}) - 1]]
Renumber(rows) ==
    [s \in DOMAIN rows |->
        [rows[s] EXCEPT !.pos =
            Cardinality({u \in DOMAIN rows : rows[u].pos < rows[s].pos})]]

\* Identifiers no section row has, nor any request in flight is about to use.
Fresh == {s \in SecIds : /\ secs[s] = Unborn
                         /\ \A t \in Tabs : req[t] # Idle => s \notin DOMAIN req[t].final}

\* The submitted sections that reference an existing row.
Referenced(rows) == {s \in DOMAIN rows : secs[s] # Unborn}

\* mergeSectionsGM: the submitted list replaces the document's.  It may name an
\* existing section several times: the row is then saved at each of the indices
\* and keeps the last one, with the content submitted there, so that up to the
\* last index every index belongs to a section or to one named again further on.
GMMergeOk(base, rows) == Referenced(rows) \subseteq DOMAIN base
LastMentions(rows) ==
    {at \in [DOMAIN rows -> 0 .. Cardinality(DOMAIN rows) + MaxRepeats - 1] :
        \A s \in DOMAIN rows :
            /\ \A u \in DOMAIN rows : at[u] < at[s] <=> rows[u].pos < rows[s].pos
            /\ \A i \in 0 .. at[s] : \/ \E u \in DOMAIN rows : at[u] = i
                                     \/ \E u \in Referenced(rows) : at[u] > i}
mergeSectionsGM(rows) ==
    {[s \in DOMAIN rows |-> [rows[s] EXCEPT !.pos = at[s]]] : at \in LastMentions(rows)}

\* mergeSectionsPlayer: GM-only rows stay, visible rows are replaced by the
\* submitted ones or dropped, new sections come last and are never GM-only.  A
\* section submitted twice is one row of the result.
Visible(base) == {s \in DOMAIN base : ~base[s].gm}
PlayerMergeOk(base, rows) ==
    /\ \A s \in DOMAIN rows : ~rows[s].gm
    /\ Referenced(rows) \subseteq Visible(base)
mergeSectionsSubmittedOnly(base, rows) == Renumber(rows)
MergedRows(base, rows) ==
    [s \in (DOMAIN base \ Visible(base)) \cup DOMAIN rows |->
        IF s \in DOMAIN base
        THEN IF base[s].gm THEN base[s] ELSE [base[s] EXCEPT !.text = rows[s].text]
        ELSE [pos |-> Cardinality(DOMAIN base) + rows[s].pos, gm |-> FALSE,
              text |-> rows[s].text]]
mergeSectionsPlayer(base, rows) == Renumber(MergedRows(Renumber(base), rows))

MergeOk(t, base, rows) ==
    IF t \in GMTabs THEN GMMergeOk(base, rows) ELSE PlayerMergeOk(base, rows)

\* The final lists that submitting rows can stand for.
mergeSections(t, base, rows) ==
    IF t \in GMTabs THEN mergeSectionsGM(rows) ELSE {mergeSectionsPlayer(base, rows)}

-----------------------------------------------------------------------------
(* The checks and changes of a save *)

\* The concurrent-edit warning, ErrConcurrentEdit: a save that carries its page's
\* version (ExpectedVersion) and is not forced is refused if the row has another.
\* A save without ExpectedVersion is not checked at all.
VersionUnchecked(t, version, guarded) == TRUE
VersionOk(t, version, guarded) == guarded => page[t].row.version = version

\* applyMetadata: only a GM changes the reveal day.
RevealDayOk(t, old, new) == new = old \/ t \in GMTabs

\* Version++ on the copy in memory.
Bumped(row) == [row EXCEPT !.version = @ + 1]

\* The section rows of d soft-deleted with it.
SectionsKept(d) == secs
SectionsDeleted(d) == [s \in SecIds |-> IF s \in Sections(d) THEN Deleted ELSE secs[s]]

-----------------------------------------------------------------------------
(* What an editor submits: the list its page shows, in order, with one     *)
(* thing changed.                                                          *)

Retyped(rows) == {[rows EXCEPT ![s].text = x] : s \in DOMAIN rows, x \in Texts}

Shortened(rows) == {[u \in DOMAIN rows \ {s} |-> rows[u]] : s \in DOMAIN rows}

WithRow(rows, s, g, x) ==
    [u \in DOMAIN rows \cup {s} |->
        IF u = s THEN [pos |-> Cardinality(DOMAIN rows), gm |-> g, text |-> x] ELSE rows[u]]
Flags(t) == IF t \in GMTabs THEN BOOLEAN ELSE {FALSE}
Appended(t, rows) == {WithRow(rows, s, g, x) : s \in Fresh, g \in Flags(t), x \in Texts}

Reflagged(rows) == {[rows EXCEPT ![s].gm = ~@] : s \in DOMAIN rows}

Swap(rows, s, u) == [rows EXCEPT ![s].pos = rows[u].pos, ![u].pos = rows[s].pos]
Swapped(rows)    == {Swap(rows, s, u) : s \in DOMAIN rows, u \in DOMAIN rows}

\* A GM keeps secrets in GM-only sections; a player has none to write.
Discreet(t, rows) ==
    \A s \in DOMAIN rows : rows[s].text \in Secrets => t \in GMTabs /\ rows[s].gm

Submissions(t) ==
    LET rows == Renumber(page[t].rows)
        all  == {rows} \cup Retyped(rows) \cup Shortened(rows)
                \cup (IF Cardinality(DOMAIN rows) < MaxSections THEN Appended(t, rows) ELSE {})
                \cup (IF t \in GMTabs THEN Reflagged(rows) \cup Swapped(rows) ELSE {})
    IN  {r \in all : Discreet(t, r)}

-----------------------------------------------------------------------------
(* Requests *)

\* A request in flight: the document row as read and as it will be saved, the
\* sections as read and as they will be saved (final, each at its index in the
\* list), whether the save is guarded, that is carries ExpectedVersion and not
\* Force, and whether it overrides the path warning (AllowCollision).  A save
\* that finds its path free is the same with AllowCollision and without, and is
\* recorded without.
Request(kind, step, d, read, row, base, final, guarded, allow) ==
    [kind |-> kind, step |-> step, doc |-> d, read |-> read, row |-> row,
     base |-> base, final |-> final, guarded |-> guarded, allow |-> allow]

Kinds == {"get", "create", "update", "share", "delete", "reload"}

IsRequest(r) ==
    /\ r.kind \in Kinds /\ r.step \in {"row", "ready", "saved"}
    /\ r.doc \in DocIds /\ r.read \in DocRow /\ r.row \in DocRow
    /\ IsList(r.base) /\ IsList(r.final)
    /\ r.guarded \in BOOLEAN /\ r.allow \in BOOLEAN

IsPage(p) == p.doc \in DocIds /\ p.row \in DocRow /\ IsList(p.rows)

Init ==
    /\ docs = [d \in DocIds |-> Unborn]
    /\ secs = [s \in SecIds |-> Unborn]
    /\ log = {}
    /\ page = [t \in Tabs |-> NoPage]
    /\ req = [t \in Tabs |-> Idle]

InFlight == {t \in Tabs : req[t] # Idle}

\* GetByID's first query.  An identifier without a live row is answered 404.
ReadRow(t, d, kind) ==
    /\ req[t] = Idle
    /\ Cardinality(InFlight) < MaxInFlight
    /\ Live(d)
    /\ kind = "update" => page[t] # NoPage /\ page[t].doc = d
    /\ kind = "delete" => t \in GMTabs
    /\ req' = [req EXCEPT ![t] =
                  Request(kind, "row", d, docs[d], docs[d], NoRows, NoRows, FALSE, FALSE)]
    /\ UNCHANGED <<docs, secs, log, page>>

NotFound(t, d) ==
    /\ req[t] = Idle
    /\ ~Live(d)
    /\ UNCHANGED vars

\* The second query and the checks: the request moves on with the row and the
\* list it will save.
Ready(t, row, base, final, guarded, allow) ==
    /\ req' = [req EXCEPT ![t] = Request(req[t].kind, "ready", req[t].doc, req[t].read,
                                         row, base, final, guarded, allow)]
    /\ UNCHANGED <<docs, secs, log, page>>

At(t, kind, step) == req[t] # Idle /\ req[t].kind = kind /\ req[t].step = step

\* Get, and the end of a reload, which checks no access: the answer is what the
\* tab's editor shows from then on.
Get(t) ==
    LET r == req[t] IN
    /\ \/ At(t, "get", "row") /\ Accessible(t, r.doc, r.read)
       \/ At(t, "reload", "row")
    /\ page' = [page EXCEPT ![t] = [doc |-> r.doc, row |-> r.read,
                                    rows |-> view(t, Preload(r.doc))]]
    /\ req' = [req EXCEPT ![t] = Idle]
    /\ UNCHANGED <<docs, secs, log>>

\* Create up to its transaction: repository access, the path warning, and the
\* document and its sections built in memory.
CheckCreate(t, d, repo, path, day, allow) ==
    LET row == [repo |-> repo, path |-> path, day |-> day, version |-> 1] IN
    /\ req[t] = Idle
    /\ Cardinality(InFlight) < MaxInFlight
    /\ docs[d] = Unborn
    /\ \A u \in InFlight : req[u].doc # d
    /\ RepoAccess(t, repo)
    /\ allow = ExistsAtPath(repo, path, d)
    /\ \E rows \in {NoRows} \cup Appended(t, NoRows) :
        /\ Discreet(t, rows)
        /\ req' = [req EXCEPT ![t] =
                      Request("create", "ready", d, row, row, NoRows, rows, FALSE, allow)]
    /\ UNCHANGED <<docs, secs, log, page>>

\* Update up to its transaction: getAccessible, the concurrent-edit warning,
\* applyMetadata, mergeSections, Version++.
CheckUpdate(t, path, day, guarded, allow) ==
    LET r    == req[t]
        base == Preload(r.doc)
        row  == Bumped([r.read EXCEPT !.path = path, !.day = day])
    IN
    /\ At(t, "update", "row")
    /\ page[t] # NoPage
    /\ r.read.version < MaxVersion
    /\ Accessible(t, r.doc, r.read)
    /\ VersionOk(t, r.read.version, guarded)
    /\ allow = (path # r.read.path /\ ExistsAtPath(r.read.repo, path, r.doc))
    /\ RevealDayOk(t, r.read.day, day)
    /\ \E rows \in Submissions(t) :
        /\ MergeOk(t, base, rows)
        /\ \E final \in mergeSections(t, base, rows) :
            Ready(t, row, base, final, guarded, allow)

\* ShareToGroup up to its transaction: the document moves from a character
\* repository to a group repository with the sections it was read with.
CheckShare(t, target, day, allow) ==
    LET r    == req[t]
        base == Preload(r.doc)
        row  == Bumped([r.read EXCEPT !.repo = target, !.day = day])
    IN
    /\ At(t, "share", "row")
    /\ r.read.version < MaxVersion
    /\ Accessible(t, r.doc, r.read)
    /\ r.read.repo \in CharacterRepos
    /\ RepoAccess(t, target)
    /\ allow = ExistsAtPath(target, r.read.path, r.doc)
    /\ Ready(t, row, base, Renumber(base), FALSE, allow)

\* An error answer, a failed query, a rolled-back transaction or a process that
\* stops: the request ends and the database keeps what was committed.
Abandon(t) ==
    /\ req[t] # Idle
    /\ req' = [req EXCEPT ![t] = Idle]
    /\ UNCHANGED <<docs, secs, log, page>>

\* Create, Update and ShareToGroup end in Documents.Create or Update: one
\* transaction saves every column of the row (bringing a deleted row back), saves
\* the listed sections by identifier, each at its index, deletes the document's
\* other sections and writes the entry.
Save(t) ==
    LET r == req[t] IN
    /\ r # Idle
    /\ r.step = "ready"
    /\ docs' = [docs EXCEPT ![r.doc] = r.row]
    /\ secs' = [s \in SecIds |->
                   IF s \in DOMAIN r.final THEN [doc |-> r.doc, body |-> r.final[s]]
                   ELSE SectionsDeleted(r.doc)[s]]
    /\ log' = log \cup {documentEntry(r.doc, r.row.repo, r.row.day,
                          IF r.kind = "update" THEN "updated" ELSE "added")}
    /\ \/ /\ r.kind = "create"
          /\ page' = [page EXCEPT ![t] = [doc |-> r.doc, row |-> r.row,
                                           rows |-> view(t, r.final)]]
          /\ req' = [req EXCEPT ![t] = Idle]
       \/ /\ r.kind # "create"
          /\ req' = [req EXCEPT ![t] = Request("reload", "saved", r.doc, r.row, r.row,
                                               NoRows, NoRows, FALSE, FALSE)]
          /\ UNCHANGED page

\* The first query of the reload that ends an update or a share.
Reload(t) ==
    LET r == req[t] IN
    /\ At(t, "reload", "saved")
    /\ req' = [req EXCEPT ![t] =
                  IF Live(r.doc) THEN Request("reload", "row", r.doc, docs[r.doc], docs[r.doc],
                                              NoRows, NoRows, FALSE, FALSE)
                  ELSE Idle]
    /\ UNCHANGED <<docs, secs, log, page>>

\* Documents.Delete: the sections and the row, with the entry of the row read.
Delete(t) ==
    LET r == req[t] IN
    /\ At(t, "delete", "row")
    /\ docs' = [docs EXCEPT ![r.doc] = Deleted]
    /\ secs' = SectionsDeleted(r.doc)
    /\ log' = log \cup {documentEntry(r.doc, r.read.repo, r.read.day, "removed")}
    /\ req' = [req EXCEPT ![t] = Idle]
    /\ UNCHANGED page

Next ==
    \E t \in Tabs :
        \/ \E d \in DocIds :
            \/ NotFound(t, d)
            \/ \E kind \in {"get", "update", "share", "delete"} : ReadRow(t, d, kind)
            \/ \E repo \in Repos, path \in Paths, day \in Days, allow \in BOOLEAN :
                CheckCreate(t, d, repo, path, day, allow)
        \/ Get(t)
        \/ \E path \in Paths, day \in Days, guarded \in BOOLEAN, allow \in BOOLEAN :
            CheckUpdate(t, path, day, guarded, allow)
        \/ \E target \in GroupRepos, day \in Days, allow \in BOOLEAN :
            CheckShare(t, target, day, allow)
        \/ Save(t)
        \/ Reload(t)
        \/ Delete(t)
        \/ Abandon(t)

Spec == Init /\ [][Next]_vars

-----------------------------------------------------------------------------
(* Properties *)

\* Every row, entry, loaded page and request in flight has its shape.
TypeOK ==
    /\ docs \in [DocIds -> DocRow \cup {Unborn, Deleted}]
    /\ secs \in [SecIds -> SecRow \cup {Unborn, Deleted}]
    /\ log \subseteq Entries
    /\ DOMAIN page = Tabs /\ \A t \in Tabs : page[t] # NoPage => IsPage(page[t])
    /\ DOMAIN req = Tabs /\ \A t \in Tabs : req[t] # Idle => IsRequest(req[t])

\* A text that GMs keep in GM-only sections never reaches a player's editor,
\* whatever requests are interleaved (core domain rule 2: view strips, the
\* player merge keeps the flag of the rows it does not show).
SecretsStayHidden ==
    \A t \in Tabs \ GMTabs : page[t] # NoPage =>
        \A s \in DOMAIN page[t].rows : page[t].rows[s].text \notin Secrets

\* A section never outlives its document: Delete removes both in one
\* transaction, and a save that races it writes both back.
NoOrphanSections ==
    \A d \in DocIds : ~Live(d) => Sections(d) = {}

\* No two sections of a document share a position after any interleaving of
\* saves, whatever lists they submit, so "ORDER BY position" is total.
PositionsDistinct ==
    \A d \in DocIds : \A s, u \in Sections(d) :
        secs[s].body.pos = secs[u].body.pos => s = u

\* Wherever a document is, the activity log holds an entry scoped to that
\* repository and stamped with that reveal day: whoever comes to see the
\* document also comes to see an event about it (documentEntry).
DocumentHasEntry ==
    \A d \in DocIds : Live(d) =>
        \E e \in log : /\ e.doc = d /\ e.action # "removed"
                       /\ e.repo = docs[d].repo /\ e.day = docs[d].day

\* Tab t's save of document d commits.
Saves(t, d, kinds) == Save(t) /\ req[t].doc = d /\ req[t].kind \in kinds

\* What tab t's editor shows is what is stored of document d.
Current(t, d) == docs[d] = page[t].row /\ view(t, Preload(d)) = page[t].rows

\* A save that carries its page's version and is not forced replaces exactly what
\* its editor had loaded, row and visible sections: a change the page did not show
\* is warned about instead (core domain rule 7, ErrConcurrentEdit).  Nothing is
\* promised of a save without ExpectedVersion, which Update lets overwrite
\* whatever is stored.
NoSilentOverwrite ==
    [][\A t \in Tabs, d \in DocIds :
        Saves(t, d, {"update"}) /\ req[t].guarded => Current(t, d)]_vars

\* The GM-only sections of d are the same after the step, in the same order.
GMOnlyKept(d) == LET old == Preload(d) new == Preload(d)' IN
    \A s \in DOMAIN old : old[s].gm =>
        /\ s \in DOMAIN new
        /\ new[s].gm
        /\ new[s].text = old[s].text
        /\ \A u \in DOMAIN old : old[u].gm => (old[u].pos < old[s].pos <=> new[u].pos < new[s].pos)

\* A player's save, or share, leaves every GM-only section as it was.
GMOnlyUntouched ==
    [][\A t \in Tabs \ GMTabs, d \in DocIds :
        Saves(t, d, {"update", "share"}) => GMOnlyKept(d)]_vars

\* A document lands on an occupied path only where the caller allowed it.
CollisionWarned ==
    [][\A t \in Tabs, d, e \in DocIds :
        Saves(t, d, Kinds) /\ ~req[t].allow /\ e # d /\ Live(d)' /\ Live(e)
            /\ <<docs'[d].repo, docs'[d].path>> = <<docs[e].repo, docs[e].path>>
        => Live(d) /\ <<docs[d].repo, docs[d].path>> = <<docs[e].repo, docs[e].path>>]_vars

\* A save whose document nobody else changed since the request read it counts
\* one version; if it carries its page's version and is not forced, that is the
\* version it replaces; and it leaves what only GMs may change, however many
\* requests are in flight.
FreshSaveIsSafe ==
    [][\A t \in Tabs, d \in DocIds :
        Saves(t, d, {"update", "share"}) /\ docs[d] = req[t].read /\ Preload(d) = req[t].base =>
            /\ docs'[d].version = docs[d].version + 1
            /\ req[t].kind = "update" /\ req[t].guarded => docs[d].version = page[t].row.version
            /\ t \notin GMTabs => GMOnlyKept(d)
            /\ t \notin GMTabs /\ req[t].kind = "update" => docs'[d].day = docs[d].day]_vars

=============================================================================
