# Itinerarium: specification and proofs

Itinerarium is a self-hosted campaign manager for tabletop role-playing groups:
a Go HTTP API over GORM and SQLite, and a Svelte client. This directory holds
TLA+ modules of its services, TLC configurations that check them on small
instances, and theorems about them checked by TLAPS.

## 1. The system

### Layers

    HTTP handlers (api/v1/*)  ->  services (application/*)  ->  repositories (infrastructure/persistence/repositories/*)  ->  SQLite

Requests run concurrently, each in its own goroutine. A service method reads
what it needs and checks the rules *outside* any transaction; then one
repository method writes the change, and the activity entry that describes it,
*inside* one transaction. Between the reads and the transaction any other
request may commit. Most of what is hard in this code lives in that gap.

Two facts about GORM, taken from how `src/` uses it, shape every model:

- `tx.Save(row)` writes **all** columns of the row as it was read earlier. When
  the row has been soft-deleted since, the update matches nothing and `Save`
  inserts it again, alive.
- `Delete` is a soft delete (`deleted_at`); every query skips such rows.
  `Preload` is a second query, so a row and its children may be read at two
  different moments.

### Components

| component | state | operations | what is hard | what makes it correct |
|---|---|---|---|---|
| Documents (`application/documents*.go`, `domain/access.go`) | document rows with a version and a reveal day; ordered section rows, some GM-only | get, create, update, share to a group, delete | lost updates, stale section lists, delete against save, torn reads | no silent overwrite, GM-only text never leaves, no two sections at one position, an entry for every document |
| Visibility gate (`gate.go`, `documents_gating.go`, `search.go`, shares) | characters' game days, group members, direct shares | list, search, get, share, revoke | three implementations of one rule must agree | what a list or a search shows is what a get would answer; more reach never hides |
| Repositories (`repositories.go`, `knowledge_repositories.go`) | one repository per group and character, two singletons | ensure, get, list | find-then-create without a unique index | one general and one template repository |
| Inventory (`inventory.go`, `inventory_items.go`) | item lines of characters, groups, locations | add, update, remove, move | a line is read before the transaction that moves it | units are neither created nor lost by a move |
| Money (`money_balances.go`, `catalog.go`) | balances per owner and currency | set, convert, simplify | check-then-create, 64-bit arithmetic | one balance per owner and currency, in a currency that exists; conversion keeps value |
| Activity log (`activity.go`, `inventory_activity.go`) | append-only entries, announcements | feed, announce | scope and game-day filters; the actor of an announcement | an entry shows to its maker at once and to nobody without access |
| Locations (`locations.go`) | locations, sections, access grants | create, update, grant, revoke, assign a character | same merge as documents but no version | GM-only sections untouched by players; every reader of the grants agrees |
| Characters and sessions (`characters.go`, `sessions.go`) | `current_game_day`, session participants | update, advance the game day | whole-row saves; a loop of single saves | an advance moves whom it saved by the delta, whatever stops it |
| Groups (`groups.go`) | members, joined and left entries | join, leave | membership checked before the transaction | entries and membership agree |
| Journal (`journal_entries.go`) | private entries | create, update, convert to a document | conversion is a create with its own path check | the copy equals the entry |
| Accounts and setup (`users.go`, `setup.go`) | users, password hashes | first GM, create, reset password | count-then-create | exactly one initial GM |
| Login throttle (`transport/throttle.go`) | failure counts and lockouts under a mutex | allowed, penalize, reset, sweep | a check and a penalty are two calls; expiry and sweep | a lockout is honoured, never dropped early, and always ends |
| Tokens and keys (`authentication/*`) | revoked token ids, key files | issue, parse, revoke, load or generate keys | two files written one after the other | a token outlives every restart |
| Request cache (`request_cache.go`) | memo per request | characters, groups of a request | a cached value outlives the row | an answer is that of one moment |
| Catalog load, vault import | currencies, items, documents from files | upsert, import | one file of several failing | a server that serves has the whole file |
| Lifecycle and server (`lifecycle.go`, `cmd/serve.go`) | running or draining | shutdown in four phases | requests in flight at shutdown | the database closes after the requests; the process ends |
| Transport, config, logging, DI, web client | none that matters | wiring and presentation | - | - |

## 2. Modules and plan

In the order they were written; each is followed by its proofs.

1. **Documents**, **DocumentsProofs**, **DocumentsSaveProofs**: the document
   service with its interleavings.
2. **Inventory** against the abstract **Ledger** of units, **InventoryProofs**.
3. **Throttle** on a ticking clock against the abstract **Limiter**, and
   **Login**, which composes it with the handlers that use it;
   **ThrottleProofs**.
4. **Visibility**, **VisibilityProofs**: who sees which document, location and
   entry, over one campaign that changes, with the search and the request cache.
5. **Campaign**, **CampaignProofs**: the rows without a version: characters and
   the session that moves their days, groups, a location, grants and shares.
6. **Server**, **ServerProofs**: processes that start, stop and crash over one
   database and one directory of keys; migrations, system repositories, first
   GM, accounts and tokens.
7. **Coins**, **CoinsProofs**: the catalog and its seed file, balances, and
   64-bit conversion and simplification.

What is left: an abstract register with a version per document that serial
Documents implements; Documents over the `Reach` that Visibility computes; the
announcements of the activity log; the journal and the vault import, which are
sequences of document creates. Every safety and action property of a passing run
has its theorem; the theorems left are those the parts above would bring, the
refinement of the versioned register first.

## 3. Documents

`Documents.tla` models `DocumentService` and `repositories.Documents`.
State: `docs` and `secs` are the two tables (`Unborn` before a row exists,
`Deleted` once `deleted_at` is set), `log` the activity entries about documents,
`page[t]` what the editor of browser tab `t` shows, `req[t]` the request that
tab has in flight. Titles and tags are left out: nothing depends on them. A section list is a
function from section identifiers to `[pos, gm, text]`, `pos` being the index in the list.

Each request is cut where other requests can commit:

| action | code |
|---|---|
| `ReadRow`, `NotFound` | first query of `GetByID` |
| `Get` | the preload query, `getAccessible`, `view` |
| `CheckCreate` | `Create` up to its transaction |
| `CheckUpdate` | the preload query, `getAccessible`, the version check, `applyMetadata`, `mergeSections`, `Version++` |
| `CheckShare` | the preload query and `ShareToGroup` up to its transaction |
| `Save` | the transaction of `Documents.Create` or `Documents.Update`, and the answer of a create |
| `Reload` (then `Get`) | the second `GetByID` that answers an update or a share |
| `Delete` | the transaction of `Documents.Delete` |
| `Abandon` | an error answer, a rolled-back transaction, a process that stops |

Inputs: an editor submits the page it loaded with one thing changed (text,
a section removed, appended, reflagged or reordered); paths and reveal days are
arbitrary. A save is guarded or not. A guarded one carries its page's version and
is not forced; one that is not guarded is either forced or sent without
`ExpectedVersion`, which `Update` takes for "do not check" (`documents.go:293`);
the Svelte client always sends it, other clients of the API need not.
The code looks at `AllowCollision` only when the path is occupied, so a request is
recorded with the flag exactly then: a save that finds its path free is the same
with it and without. A GM's list may name an existing section several times, as
`mergeSectionsGM` allows; the row is saved at each of the indices and keeps the
last, so `mergeSectionsGM` is the set of lists that result, with at most
`MaxRepeats` repetitions. In a player's list a repetition changes nothing but which
content counts. `Secrets` are texts that a GM writes only into GM-only sections.

### Runs

Tabs: one GM `g` and one player `p` whose character reaches both a private and a
group repository.

| run | bounds | question |
|---|---|---|
| `documents_serial` | 1 request at a time, 1 document, 2 sections, versions to 4, 1 day, 1 repetition | what the rules promise when requests do not overlap, with stale editors |
| `documents_paths` | 1 request, 2 documents, 2 paths, 3 repositories, no sections | the path warning |
| `documents_concurrent` | 2 requests, 1 document, 3 sections, versions to 2, 2 days, 1 repetition | what survives every interleaving |

`documents_serial` checks editors that show an old page, without overlap: a
guarded save replaces exactly what its page shows (`NoSilentOverwrite`), and no
player's save, guarded or not, touches GM-only sections (`GMOnlyUntouched`).
`documents_paths` checks that no two documents of a repository share a path
unless someone was warned; there the player also holds a direct share.
`documents_concurrent` checks what no interleaving can break.

The bounds are enough because every race here needs two requests on one
document: one that has read, one that commits. Version 2 allows a create and
two saves from the same version; a third section lets one save add a row while
another removes one. No behaviour depends on more than two paths or days, and the
properties of the serial run on no day at all. One repetition is what opens a gap.

What the model shows beyond these properties. Of overlapping requests: two saves
from one version both pass the version check and the later replaces the earlier
(`documents.go:293`), and a save of a row that was deleted meanwhile inserts it again
(`repositories/documents.go:204`). Without any overlap: a save without
`ExpectedVersion` replaces whatever is stored and nobody is warned, which
`documents.go:58` documents as the meaning of a nil version; a list that names a
section twice leaves a gap in the positions, so they are distinct but not always
0 .. n - 1; and an entry keeps the reveal day its document had, also when a GM moves
it later (`documents.go:355`). That is why `NoSilentOverwrite` speaks of guarded
saves, and why it and `GMOnlyUntouched` are properties of the serial run.
`FreshSaveIsSafe` is the positive counterpart for every interleaving: a save of a
document that did not change since the request read it counts one version, is of
its page's version if it is guarded, and spares what only GMs may change. Moving
the read into the transaction would make every save such a save.

### Proofs

`DocumentsProofs.tla`, for any constants that satisfy `ConstantsAssumption`
(finitely many section identifiers, sentinels that are not rows):

- `TypeCorrect`: `TypeOK` is inductive. The lemmas about section lists show that
  preload, view, merge and numbering yield lists.
- `NoOrphans`: inductive together with `TypeOK`.
- `HasEntry`: inductive together with `TypeOK`.
- `SecretsHidden`: `SecretsStayHidden` speaks of pages only and is not
  inductive. `SecretsGuarded` adds that wherever a secret text is (the table, the lists
  a request has read or will save) its row is GM-only, and that players' pages
  hold no GM-only row. The merge lemma `MergeGuarded` is the heart: a player's merge
  takes GM-only rows from the database and visible text from the editor.

`DocumentsSaveProofs.tla`:

- `FreshSavesAreSafe`: `RequestsSafe` is inductive: a request that is ready to
  save is one version past the row it read, is of its page's version if it is
  guarded, and holds every GM-only row of the list it read (`MergeKeepsGMRows`).
  `PreloadAfterSave` shows that the database then holds the list saved, and
  `RenumberKeepsOrder` that a player's merge keeps the order.
- `PositionsAlwaysDistinct`: `PositionsDistinct` speaks of the stored rows only.
  `PositionsInv` adds what the loaded pages and the lists about to be saved have:
  no two rows of a list share a position (`SubmittedRows`, `MergedRowsOrdered`,
  `MergeOrdered`; a GM's list because each row stands at its last index), and no row
  of it belongs to another document or is about to be saved into one (`MergedOwned`),
  so a save never puts a row into the middle of another list.
- `SerialOverwrite`, `SerialGMOnly`, `SerialCollision`: the properties of the serial
  runs, for any numbers of documents, sections, versions and tabs, as long as
  `MaxInFlight = 1`. `SerialIInv` adds to the invariants above that the row and the
  list which the one request in flight has read are those stored, that a path it
  was not allowed to share is free (`AsRead`), and that a page whose version is the
  stored one shows what is stored (`PagesTrue`: a version is written once). The
  second request is what breaks `AsRead`, and with it all three.

## 4. Inventory

`Inventory.tla` models the item-line operations of `InventoryService` and
`repositories.InventoryItems`. State: `lines` is the table (a deleted row is
`NoLine`, since no read sees it), `news` the activity entries of the last
transaction, `req[u]` the request of user `u` between its read and its
transaction. A line's name stands for its name and catalog reference, the two
columns that decide whether lines merge; notes are left out. `Access` says which
inventories a user may use; it is constant here, and Visibility says how it
comes about.

| action | code |
|---|---|
| `AddItem` | `AddItem` with its transaction: it reads nothing it later writes |
| `ReadUpdate`, `ReadRemove`, `ReadMove` | the method up to its transaction: `loadOwnedItem`, `requireOwnerAccess`, the checks, the row to save |
| `CommitUpdate` | `InventoryItems.Update`: `Save` of the whole row, which also revives a deleted one |
| `CommitRemove` | `InventoryItems.Delete` |
| `CommitMove` | `InventoryItems.Move`: merge into a line found now, or re-own the line as read, or split off a new one; the source is drained as read |
| `Abandon` | an error answer, a rolled-back transaction, a process that stops |

`Ledger.tla` is what the inventories promise: units held per owner and name,
with deposit, withdrawal, recount in place and a transfer that gives exactly
what it takes. `KeepsLedger` is the refinement, with `held` as the sums of
the lines.

| run | bounds | question |
|---|---|---|
| `inventory_serial` | a player and a GM, 3 inventories, 2 names, 3 lines of up to 2 units, 1 request between read and commit | moves conserve units, respect access, log both halves; the lines implement the ledger |
| `inventory_concurrent` | two players, 4 inventories, 1 name, 3 lines, 2 requests | no line is emptied; a move of an untouched line is exact |
| `inventory_units` | as `inventory_concurrent` | the finding: two requests on one line create or lose units |

Three lines are a source, a target to merge with and one to split off; two
units are the least that distinguish a full from a partial move. With two
requests in flight `MoveConserves`, `OnlyWithAccess` and `EntriesMatchChanges`
fail for one reason, the line saved as it was read; one of them is reported.
`FreshMoveIsExact` says where the fault is: a move of a line nobody touched since
it was read is exact, whatever other lines do.

Identifiers are uuids. `Fresh` therefore never hands out one that is in use or
that a request in flight refers to, but may reuse one that nothing knows.

### Proofs

`InventoryProofs.tla`, for any users, owners, access, names and bounds:

- `TypeCorrect` and `LinesNeverEmpty`: both with `IInv`, which adds to them what
  a request in flight has checked of what it read (`Checked`): at least one unit,
  access to both ends, two different inventories, no more units than were there.
- `SerialAccess` and `SerialEntries`, both under `MaxInFlight = 1`: `SerialInv` adds
  that the one request in flight still knows its line as it is, so what it
  checked still holds. `ContentsSame` and `ContentsDiffer` reduce a change of an
  inventory to a change of one of its lines; `OneLineTouched` and
  `TwoEndsTouched` say which lines a commit changes and whose they are. The
  hypothesis is the point: the two theorems hold for this code exactly as long
  as reads and writes do not overlap.

The units of an inventory are a fold over a set of lines. The proofs unfold it
once into the function over subsets whose choice defines it, show that such a
function exists (`SumsExist`), and from then on use only that any line can be
taken out of the sum. There:

- `FreshMovesExact`: a move of a line nobody touched since it was read gives and
  takes exactly the units asked, with any number of requests in flight.
- `SerialMovesConserve` and `SerialLedger`, under `MaxInFlight = 1`: moves conserve
  units, and the inventories implement `Ledger`, step by step. `LedgerInv` adds to
  `SerialInv` that no line holds more than `MaxQuantity`, which keeps every
  withdrawal and recount within the ledger's own range. An added item is a deposit,
  whether it merges or not, an update a recount, a removal a withdrawal, and a move
  a transfer, whether it merges, re-owns the line or splits it (`LedgerStep`).

## 5. Login throttle

`Throttle.tla` models `transport.Throttle`. Every operation holds its mutex and
is one step. Instants are kept as ages (`lock` for `lockedUntil - now`, `idle` for
`now - lastSeen`), stopped at the point where the code no longer tells them
apart: below zero for a lock, beyond the retention for idleness, at the number
of failures where the backoff stops growing (`FailureCap`). `Tick` is the clock,
`Restart` the loss of the map with its process.

| action | code |
|---|---|
| `Allowed` | `Allowed`: locked while `now` is before `lockedUntil` |
| `Penalize` | `Penalize`: fresh start of an expired state, failure, backoff, sweep above the soft cap |
| `Reset` | `Reset` |

`Login.tla` extends it with the handlers, each call of the limiter a step of its
own: `CheckIP`, `CheckAccount`, `Reject` or `Accept`, `ChargeIP`, `ChargeAccount`
or `Clear`; for a reset `CheckReset`, `ResetPassword`, `ChargeAccount`. The
password check is the environment's choice. A server error charges nothing
(`Fault`).

`Limiter.tla` is the promise, key by key: failures add up, from some number on
each one locks, a good attempt or a long quiet spell forgets them. It knows no
stale states, no fresh start and no sweep.

| run | bounds | question |
|---|---|---|
| `throttle` | 3 keys, threshold 2, base 2 ticks, multiplier to 4, soft cap 2, 3 ticks to a second | locks follow failures, only grow under failures, survive the sweep; Retry-After; refinement of Limiter |
| `login` | 2 clients, 1 address, 1 account, 1 reset target, threshold 1, base 1, multiplier to 2, soft cap 1 | what cuts a lock short; every lock ends |

The code's multiplier is 32 and its soft cap 10000. The run of the throttle has
one key more than its soft cap, two doublings, and the clamp; the proofs cover
every multiplier up to 32 and every soft cap.

Fairness: `WF(Clock)` only. Time passes; no request is ever sure to arrive or to
finish, and the code needs none of that: `LocksEnd` holds because a refused
request is not charged, so a lock can be extended only by requests that had
passed the check before it.

### Proofs

`ThrottleProofs.tla`, for any keys, threshold, base lockout, multiplier up to
32, soft cap and clock resolution:

- `TypeCorrect`, `LocksFollow`: per key, `Sound` says that a state is in range and
  that its lock is the backoff of its failures less its idle time, if any is
  left. Neither half is inductive alone: an expired state is dropped because
  its lock is over, which follows from its idle time.
- `RetryAfterRight`: division properties of the rounding.
- `LocksGrow`: a locked key is never expired (`LockedNotExpired`), so neither the
  fresh start nor the sweep touches it, and the backoff does not shrink.
- `ThrottleImplementsLimiter`: an expired state maps to nothing at all, so a
  sweep is a stutter and a fresh start is a first failure.
- `HandlersUseThrottle`, `LocksStand`: for any number of clients, the handlers
  drive the limiter only through its operations, and nothing but a restart or a
  login to that account cuts a lock short.

Only model-checked: `LocksEnd`, which is liveness.

## 6. Visibility

`Visibility.tla` models the gates: `gate.go`, `documents_gating.go`, `search.go`,
the reading half of `repositories.go`, `documents_sharing.go` and `locations.go`,
the filter of the activity feed and the stamp of its entries. They are
operators named as the functions, over a record `w` of the rows they read:
game days, members, documents, shares, grants, places. `Now(u)` is the database
of the moment. `Gathered` is what a request has read so far, query by query:
`ReadCharacters`, `ReadGroupIDs` and `ReadGroups` go through the request cache,
`ReadShares` and `ReadDocuments` do not. `Queries` is the order in which each
kind of request runs them. Every other action is the committed effect of a service
(`SetGameDay`, `Join`, `ShareWithCharacter`, `GrantAccess`, `ShareToGroup`, ...).
A document carries its repository, its reveal day and where a query occurs in
it.

| run | bounds | question |
|---|---|---|
| `visibility` | a GM, a player with two characters, a player with one; a group, its repository, a private and the general one; one document, one location, 2 days; 3 campaigns to start from, 2 changes | do all readers of one rule agree, does an entry reach whom it concerns, does more reach ever hide, is an answer that of one moment |

- `ReadersAgree`: get, list, shared-with-me and search give one answer.
- `PlacesAgree`: the queries over grants and the walk over one location's
  grants are one relation.
- `RevealedWhenShown`: nobody reads what the revealed flag says is still to
  come.
- `EntriesSurface`: a change of a shared inventory is at once in a feed of its
  maker, and in no feed of a player who cannot open that inventory.
- `MoreReachNeverHides`: a later day, a membership, a share or a grant hides
  nothing.
- `AnswersOfOneMoment`: with at most one change while it runs, a request answers
  as of one moment, before or after. With two it may mix them: a document read
  before its day is moved on, a membership read after the character joined.

Two characters a day apart with one of them outside the group is the least
that tells the nearest from the furthest day and members from owners; two
changes are the least that could fall between different queries of one
request. The start states stand for longer histories: a document ahead of
its readers, a share ahead of its character, an empty group.

A location without grants and with reveal day 0 counts as revealed
(`FrontierGameDay` starts at 0); `RevealedWhenShown` is therefore an implication.

### Proofs

`VisibilityProofs.tla`, for any constants that satisfy `ConstantsAssumption`:
`ReadersAlwaysAgree`, `PlacesAlwaysAgree`, `ShownIsRevealed`,
`EntriesAlwaysSurface` and the action property `ReachOnlyReveals`. These follow from
`WorldTyped` (the campaign keeps its shape, `world \in World`): the agreement is
one of definitions, and the work is in the lemmas about the nearest and furthest
day of a finite set of days and about the groups of a set of characters.

`OneMomentAnswered` states `AnswersOfOneMoment` for requests of every kind, any
campaign and any change. `MomentInv` is its inductive invariant: while nothing has
changed, all a request has read is of the campaign as it is; after one change,
there is a campaign `a` before it, one change away (`OneChange`), and every row is
of `a` or of now (`ReadFrom`). Rows from both sides give the answer of one side
because a change touches days, shares, documents or one membership, never two of
them (`OneMoment`). The membership is the case that takes an argument: group
ids and members are two queries, and a character may join or leave in between;
since the ids are always read first (`Queries`), members of before come only with
ids of before. `AnswersAlike` and `AnswersSame` say which parts of the rows an
answer depends on. `RequestTyped` gives the shape of the request in flight; it
needs that `Idle` is not itself a request (`IdleAssumption`).

## 7. Campaign

`Campaign.tla` models what `characters.go`, `sessions.go`, `groups.go`,
`locations.go` and `documents_sharing.go` write. A request is cut between its reads
and its transaction; `req[t]` is what tab `t` has loaded and will save.

| action | code |
|---|---|
| `ReadCharacter`, `ReadAssign`, then `SaveCharacter` | `CharacterService.Update`, `LocationService.AssignCharacter`: the whole row is saved |
| `ReadAddParticipant`, `AddParticipant`, `ReadRemoveParticipant`, `RemoveParticipant` | participants of the session |
| `ReadAdvance`, then `AdvanceNext` and `AdvanceSave` per participant, `AdvanceEnds` | `AdvanceGameDay`: the list is loaded once, each participant's row again before its save |
| `ReadJoin`, `Join`, `ReadLeave`, `Leave` | membership and its entry in one transaction |
| `ReadLocation`, `SaveLocation` | update of the location with `mergeLocationSections` |
| `ReadGrant`, `Grant`, `RevokeAccess`; `ReadShare`, `Share`, `RevokeShare` | grants and direct shares |
| `Abandon` | an error answer, a failed save in the middle of an advance, a process that stops |

`Append` is GORM's association append, which may write again rows of the
list it was given; both outcomes are allowed. `history` keeps the last
membership entry of each character and group. `overlapped` remembers whether two
requests were ever in flight together.

| run | bounds | question |
|---|---|---|
| `campaign` | two GM tabs and a player with two characters, one group, one location, 2 grant and share rows, days 0 and 1, 3 requests in all | what half-done advances and stale rows can do, and what they cannot |

- `AdvanceExact`: at every point of an advance, whoever was not saved by someone
  else has moved by exactly the delta or not at all. So a failed advance can
  be finished by hand, character by character; run again, it would move those
  already moved a second time.
- `MembershipHistory`: nobody drops out of a group unrecorded, in any
  interleaving; without overlap the entries tell exactly who is a member.
- `OneRowEach`: without overlap, one row per grant and per share. Two requests
  that both find none leave two, and one revocation then leaves the access.
- `PlayersKeepToTheirOwn`: a player's save of a row nobody changed since it
  was read moves no game day, no reveal day and no GM-only section. When
  somebody did change it, the save takes the row back, days included.

Three requests are enough for an advance of two participants, a save between
them and a third request that reads in between; two rows of grants are
a pair of duplicates.

### Proofs

`CampaignProofs.tla`, for any constants that satisfy `ConstantsAssumption`:

- `TypeCorrect` and `AdvanceAlwaysExact`: the latter is inductive together with
  typing, because a session notes in `touched` everyone saved by others.
- `PlayersAlwaysKeepToTheirOwn`: `RequestsHold` says that what a request will save
  differs from what it read only where its tab may write.
- `HistoryAlwaysTells` and `AlwaysOneRowEach`: `Serial` says that until requests
  overlap at most one is in flight, and that what it found missing is
  still missing.

## 8. Server

`Server.tla` models an installation: processes that are the server or the init
command (`cmd/serve.go`, `cmd/init.go`, `components/`), one database, one key file.

| action | code |
|---|---|
| `Start`, `Migrate` | a process begins; pending migrations one by one |
| `LoadKey`, `KeyUnreadable`, `KeyMissing`, `GenerateKey`, `WriteKey`, `WritePublicKey` | `NewKeyStore`, `generateKeyStore`: the file is truncated, then written |
| `FindSystem`, `CreateSystem`, `Seed` | `ensureSingleton` for both types; the catalog (see Coins) |
| `InitCounts`, `InitCreates` | the init command's `CreateInitialGM` |
| `SetupCounts`, `SetupCreates`; `CreateChecks`, `CreateAccount`; `ResetChecks`, `ResetPassword`; `LoginVerifies`, `Login`; `Refuse` | requests, cut between reads and write |
| `Interrupt`, `ShutdownNext`, `TimeOut`, `Exit` | the signal, `ShutdownAll` over server and database, its one minute |
| `Crash` | the process is gone at any step |
| `Expire` | a token's end |

`raced` remembers whether two were ever about to create the same thing. The
file system keeps what was written.

| run | bounds | question |
|---|---|---|
| `server` | 2 processes, 2 starts, 1 client, 2 emails, 2 keys, 1 migration, 2 requests, 1 reset | what survives crashes and starts side by side, and does a shutdown end |

- `OneOfEach`: one first GM and one repository of each system type, however
  often starts crash, as long as no two find the same thing missing at once; a
  server that serves always has both repositories.
- `TokensOutliveRestarts`: a token is accepted by every server that runs before
  it expires, as long as no two find the key missing at once.
- `ServedToTheEnd`: the database closes under a request only when the minute
  is over.
- `StopsInTheEnd`: a server told to stop is gone in the end, also when its
  requests never finish.

Two processes are the least that race, and the second start is a restart
after a crash or the init command beside the server. Both conditions are needed: the
system types, the first GM and the key file have no unique index or lock.

Fairness: `WF` on `ShutdownNext`, `Exit` and `TimeOut` of each process. A shutdown
that has begun runs on its own, and its minute passes. No request is ever sure
to end and no crash is excluded.

Two observations: `TokenService.Revoke` has no caller in `src/`, so the list of
revoked tokens is always empty and is not modelled; nothing reads
`public.pem`, so a stop before it is written does no harm. A stop while
`private.pem` is written leaves a file every later start refuses
(`KeyUnreadable`).

### Proofs

`ServerProofs.tla`, for any finite sets of processes and clients, and any other
constants that satisfy `ConstantsAssumption`:

- `AlwaysServedToTheEnd`: `Drained` says that a process whose database is closed
  has no request left or is late.
- `TokensAlwaysOutliveRestarts`: `OneKey` says that, without a race, every key a
  process holds and every token's key is the one in the file, or that a single
  process is writing it and no token exists.
- `AlwaysOneOfEach`: `OneSystem` (a process about to create a type is the only one
  and the type does not exist), `FirstOK` (the same for the first GM; accounts that
  are not the first are created only while there is one) and `TokensNamed` (tokens
  name emails of the installation, so that a GM's token means an account).

Only model-checked: `StopsInTheEnd`, which is liveness.

## 9. Coins

`Coins.tla` models the catalog (`catalog.go`), its seed file and the balances
(`SetMoney` in `inventory.go`, `money_balances.go`). `mode` goes from `"down"` through
`"seeding"`, one committed row of the file at a time, to `"serving"`; `Crash` and an
invalid row (`SeedFails`) end it. `ReadMoney` and `SetMoney`, `ReadCreate` and
`Create`, `ReadSimplify` and `Simplify` are cut between read and write; `Convert` is one
step since ratios do not change while a server serves. Integers wrap at `Half`
and division truncates, as in the code.

| run | bounds | question |
|---|---|---|
| `coins` | a GM and a player, a private and a shared purse, 3 currencies, 1 item, 3 seed files (one with an invalid row, one with other ratios), 2 starts, integers of -32..31 | does re-seeding keep balances valid, is a serving catalog that of its file, are answers exact |

- `BalancesStand`: one balance per owner and currency, in a currency that exists:
  the unique index against two first balances at once, and `UpsertByCode` against
  replacing a row others refer to.
- `SeededAsFile`: a server that serves has every row of its file, whatever starts
  failed half-way before.
- `AnswersExact`: when the worth of what was asked fits an integer, a conversion
  loses nothing, a simplification leaves less than one coin, and where each ratio
  divides the next no other choice has fewer coins.

The purses include one worth more than 31 (it wraps, and the property is silent)
and several that leave a remainder; the files give ratios that divide each other
and, with the currency a GM adds, ratios that do not. The condition on divisibility is needed: `Simplify` is greedy,
and with ratios 1, 3 and 4 it answers a worth of 6 with three coins where two
would do, although its comment (`catalog.go:223`) speaks of the fewest coins.

### Proofs

`CoinsProofs.tla`, for any constants that satisfy `ConstantsAssumption`:
`BalancesAlwaysStand` (`Typed`: a row a request has found keeps its owner and
currency), `CatalogAlwaysSeeded` (`Seeded`: the rows already passed are as the file
has them; `Passed` bounds the position) and `TypeCorrect`, which no run needs to
check.

`AnswersAlwaysExact` states `AnswersExact` for any catalog, any purse and any
width of integers. The parts of the argument:

- `Answering` is the invariant: ratios are at least 1, requests and answers exist
  only while the server serves, and the total of a simplification in flight is
  still the one the present catalog gives, because others may only add rows
  between the sum and the breakdown (`Grows`, `SoundStays`).
- The folds of the model are chains of values along a sequence (`FoldsExist`,
  `FoldsAlong`); `BaseIsTrue` says that a sum whose true value fits an integer wraps
  nowhere on the way, since sums of amounts only grow.
- `SortedExists` and `ReverseFalls`: the list of the catalog exists, has every
  currency once and falls in its ratios.
- `WorthSoFar`: what the coins so far are worth is what is gone of the total, and
  what is left is less than every ratio passed.
- `Fewest`: let other coins have the same worth. After each currency they are
  behind by a multiple of its ratio, because every larger ratio is one; they are
  never ahead by a whole ratio, because less than that is left; so they are behind
  by some `t` ratios, and have at most `t` coins less so far. At the end they are
  not behind, so they are not fewer.

The list is a choice among the sorted sequences, and the sums are folds over
sequences of numbers: forms that TLC evaluates and the provers can reason about.

## 10. Proved, and only model-checked

Proved for every value of the constants: the listed theorems of
`DocumentsProofs`, `DocumentsSaveProofs`, `InventoryProofs`, `ThrottleProofs`,
`VisibilityProofs`, `CampaignProofs`, `ServerProofs` and `CoinsProofs`. Nothing is assumed beyond
the `ConstantsAssumption` of each module (and `IdleAssumption` of Visibility) and,
where a theorem says so, that one request is in flight at a time: `SerialAccess`,
`SerialEntries`, `SerialMovesConserve` and `SerialLedger` of Inventory, `SerialOverwrite`,
`SerialGMOnly` and `SerialCollision` of Documents. That hypothesis is not a
convenience. The `inventory_units` run and section 3 show what two requests do to
those properties, so they hold for this code exactly when reads and writes
do not overlap.

Induction over numbers, finite sets and sequences is done by the smallest
counterexample: `Least` (from the well-founded order of the naturals) gives one,
and the step refutes it. So what sums and folds compute is proved too, for every
input.

Only model-checked: liveness (`LocksEnd`, `StopsInTheEnd`), which the prover does not
handle under fairness; and `MoveConserves` with two requests, which the
`inventory_units` run refutes.

## 11. Not modelled

Inside the modelled components: an update from a client that has loaded no page;
reveal days below zero, which the services accept (a location's at
`locations.go:190-195`): the models' inputs are natural numbers, so that a reveal day
is never negative is no result of the type invariants; the nil limiter (`login-max-failures` 0), which
always allows; the ordering of lists; titles, tags and notes; announcements;
the creation of characters, groups, sessions and locations with the
repositories that come with the first two (these have unique indexes, so the
loser of a race gets an error); the two phases of the shutdown that no component
implements. The bodies of migrations are the library's.

The journal has no module: an entry is one row written by its owner, and `Convert`
reads it and then creates a document, which Documents models. The vault import is a sequence of such creates whose
failures are counted and skipped.

Elsewhere: logging, configuration, flags, dependency wiring, DTO mapping, HTTP
routing and status codes, the embedded web bundle and the Svelte pages (beyond
what an editor submits), generated code and tests. Password hashing and token
cryptography are external.
