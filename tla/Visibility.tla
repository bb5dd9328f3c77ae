----------------------------- MODULE Visibility -----------------------------
(***************************************************************************)
(* What a requester may see: the gate of documents, locations and the      *)
(* activity feed, over one campaign that keeps changing.                   *)
(*                                                                         *)
(* The operators take the campaign they judge by as a record w, so the     *)
(* same definitions answer for the database of one moment (Now) and for    *)
(* the rows a request gathered one query after the other while the         *)
(* campaign changed (Gathered).  What is looked up through the request     *)
(* cache is in cache, the rest in req.                                     *)
(*                                                                         *)
(* The changes of the campaign are the committed effects of the services;  *)
(* the races between those services are the subject of Campaign and        *)
(* Documents.                                                              *)
(***************************************************************************)
EXTENDS Integers, FiniteSets

CONSTANTS
    Users, GMs,
    Characters, Owner,          \* Owner[c]: the user character c belongs to
    Groups,
    Repos, Owning,              \* Owning[r]: the group or character repository r belongs to
    Campaign,                   \* Owning of the general and template repositories
    DocIds, Locations,
    Matches,                    \* where a query may occur in a document
    Starts,                     \* the campaigns to start from
    NoDoc, Idle, Unread,
    MaxDay,                     \* bound: game days
    MaxChanges,                 \* bound: changes of the campaign, all told
    MaxMeanwhile                \* bound: changes while one request is served

Days == 0 .. MaxDay

\* A document: where it is, its reveal day, and where the query occurs in its
\* title, path, tags and sections: in text players may see, in GM-only text.
Doc == [repo: Repos, day: Days, text: Matches]

Share == [doc: DocIds, to: Characters, day: Days]
Grant == [place: Locations, to: Characters \cup Groups]

World == [day: [Characters -> Days], members: [Groups -> SUBSET Characters],
          docs: [DocIds -> Doc \cup {NoDoc}], shares: SUBSET Share,
          grants: SUBSET Grant, places: [Locations -> Days]]

ASSUME ConstantsAssumption ==
    /\ GMs \subseteq Users
    /\ Owner \in [Characters -> Users]
    /\ Owning \in [Repos -> Groups \cup Characters \cup {Campaign}]
    /\ Characters \cap Groups = {} /\ Campaign \notin Groups \cup Characters
    /\ Groups \cap Locations = {} /\ Repos \cap (Groups \cup Locations) = {}
    /\ MaxDay \in Nat /\ MaxChanges \in Nat /\ MaxMeanwhile \in Nat
    /\ Matches \subseteq SUBSET {"visible", "gmOnly"}
    /\ NoDoc \notin Doc
    /\ Starts \subseteq World

VARIABLES
    world,      \* the rows the gates read
    changes,    \* how often the campaign has changed
    req,        \* the request being served: what it asks and the rows it has read
    cache       \* its request cache

vars == <<world, changes, req, cache>>

-----------------------------------------------------------------------------
(* Characters, groups and game days *)

requesterCharacters(u) == {c \in Characters : Owner[c] = u}

GroupIDsForCharacters(C, members) == {g \in Groups : members[g] \cap C # {}}

\* The highest game day among the characters of C; Never when there are none.
Never == -1
NearestGameDay(C, day) ==
    IF C = {} THEN Never
    ELSE CHOOSE n \in {day[c] : c \in C} : \A c \in C : n <= day[c]
FurthestGameDay(C, day) ==
    IF C = {} THEN Never
    ELSE CHOOSE n \in {day[c] : c \in C} : \A c \in C : n >= day[c]

-----------------------------------------------------------------------------
(* Repositories and documents *)

\* RepositoryService.accessible.
accessible(u, r, w) ==
    \/ Owning[r] = Campaign
    \/ Owning[r] \in Characters /\ Owner[Owning[r]] = u
    \/ Owning[r] \in w.groupIDs

\* RepositoryService.Get and List: ListVisible finds the rows, by the ids of the
\* requester's characters and groups, that accessible accepts one by one.
RepoGet(u, r, w) == u \in GMs \/ accessible(u, r, w)
ListVisible(C, G) == {r \in Repos : Owning[r] \in {Campaign} \cup C \cup G}
RepoList(u, w) ==
    IF u \in GMs THEN Repos ELSE ListVisible(requesterCharacters(u), w.groupIDs)

charactersWithRepoAccess(C, r, w) ==
    {c \in C : \/ Owning[r] = Campaign
               \/ Owning[r] = c
               \/ Owning[r] \in Groups /\ c \in w.members[Owning[r]]}

effectiveGameDay(u, r, w) ==
    FurthestGameDay(charactersWithRepoAccess(requesterCharacters(u), r, w), w.day)

\* The documents reached through a share with one of the requester's characters.
reachedShares(u, w) ==
    {s.doc : s \in {t \in w.shares : Owner[t.to] = u /\ w.day[t.to] >= t.day}}

\* getAccessible, with getViaDirectShare as its fallback.
getAccessible(u, d, w) ==
    /\ w.docs[d] # NoDoc
    /\ \/ u \in GMs
       \/ /\ RepoGet(u, w.docs[d].repo, w)
          /\ effectiveGameDay(u, w.docs[d].repo, w) >= w.docs[d].day
       \/ d \in reachedShares(u, w)

InRepo(r, w) == {d \in DocIds : w.docs[d] # NoDoc /\ w.docs[d].repo = r}

ListByRepository(u, r, w) ==
    IF ~RepoGet(u, r, w) THEN {}
    ELSE {d \in InRepo(r, w) : u \in GMs \/ w.docs[d].day <= effectiveGameDay(u, r, w)}

ListSharedWithMe(u, w) == {d \in reachedShares(u, w) : w.docs[d] # NoDoc}

\* Search: the repositories with a game day, then the shares, scope the query;
\* the gate is applied to every hit, and only text the requester may see counts.
searchScope(u, w) == {r \in RepoList(u, w) : effectiveGameDay(u, r, w) # Never}
searchGateScopeOnly(u, d, w) ==
    \/ w.docs[d].repo \in searchScope(u, w)
    \/ d \in reachedShares(u, w)
searchGate(u, d, w) ==
    \/ /\ w.docs[d].repo \in searchScope(u, w)
       /\ w.docs[d].day <= effectiveGameDay(u, w.docs[d].repo, w)
    \/ d \in reachedShares(u, w)
Hits(u, w) ==
    {d \in DocIds : /\ w.docs[d] # NoDoc
                    /\ w.docs[d].text # {}
                    /\ u \notin GMs => "visible" \in w.docs[d].text}
Search(u, w) == {d \in Hits(u, w) : u \in GMs \/ searchGate(u, d, w)}

\* DocumentService.revealed: someone with access has reached the day.
revealed(r, n, w) ==
    \E c \in charactersWithRepoAccess(Characters, r, w) : w.day[c] >= n

-----------------------------------------------------------------------------
(* Locations *)

\* LocationAccesses.targetConditions.
HasAccess(l, C, G, w) == \E a \in w.grants : a.place = l /\ a.to \in C \cup G
AccessibleLocationIDs(C, G, w) == {a.place : a \in {b \in w.grants : b.to \in C \cup G}}

LocationGet(u, l, w) == u \in GMs \/ HasAccess(l, requesterCharacters(u), w.groupIDs, w)
LocationList(u, w) ==
    IF u \in GMs THEN Locations
    ELSE AccessibleLocationIDs(requesterCharacters(u), w.groupIDs, w)

AccessibleToCharacter(c, l, w) ==
    HasAccess(l, {c}, GroupIDsForCharacters({c}, w.members), w)

\* characterEligible: the same relation, worked out from the grants of one location.
characterEligibleDirectly(c, l, w) == [place |-> l, to |-> c] \in w.grants
characterEligible(c, l, w) ==
    \/ [place |-> l, to |-> c] \in w.grants
    \/ \E g \in GroupIDsForCharacters({c}, w.members) : [place |-> l, to |-> g] \in w.grants

charactersWithAccess(C, l, w) == {c \in C : characterEligible(c, l, w)}

\* A grant's game day: its character's, or the furthest member's; no one is day 0.
grantFrontierOfCharacter(a, w) == IF a.to \in Characters THEN w.day[a.to] ELSE 0
grantFrontier(a, w) ==
    IF a.to \in Characters THEN w.day[a.to]
    ELSE IF w.members[a.to] = {} THEN 0
    ELSE FurthestGameDay(w.members[a.to], w.day)

FrontierGameDay(l, w) ==
    LET days == {0} \cup {grantFrontier(a, w) : a \in {b \in w.grants : b.place = l}}
    IN  CHOOSE n \in days : \A m \in days : n >= m

\* view: the description is shown from the reveal day of the requester's own
\* characters on; the revealed flag asks for anyone with access.
ShowsDescription(u, l, w) ==
    \/ u \in GMs
    \/ FurthestGameDay(charactersWithAccess(requesterCharacters(u), l, w), w.day) >= w.places[l]
Revealed(l, w) == FrontierGameDay(l, w) >= w.places[l]

-----------------------------------------------------------------------------
(* The activity feed *)

\* Where an inventory change is recorded, and the day it is stamped with: the
\* maker's furthest character with access, or the frontier for a GM.
requireOwnerAccess(u, o, w) ==
    IF o \in Groups THEN u \in GMs \/ o \in w.groupIDs ELSE LocationGet(u, o, w)

groupFrontier(g, w) == IF w.members[g] = {} THEN 0 ELSE FurthestGameDay(w.members[g], w.day)

stampOfAny(u, o, w) == FurthestGameDay(requesterCharacters(u), w.day)
stamp(u, o, w) ==
    LET mine == {c \in requesterCharacters(u) :
                    IF o \in Groups THEN c \in w.members[o] ELSE AccessibleToCharacter(c, o, w)}
    IN  IF u \in GMs \/ mine = {}
        THEN IF o \in Groups THEN groupFrontier(o, w) ELSE FrontierGameDay(o, w)
        ELSE FurthestGameDay(mine, w.day)

\* feedFilter and scopeConditions: entry [scope, day] is in the feed of c.
Feed(c, e, w) ==
    LET groups == GroupIDsForCharacters({c}, w.members) IN
    /\ e.day <= w.day[c]
    /\ e.scope \in groups \cup AccessibleLocationIDs({c}, groups, w) \cup ListVisible({c}, groups)

-----------------------------------------------------------------------------
(* Requests and changes *)

\* The database of one moment, and the rows a request has gathered.
WithGroupIDs(w, u) ==
    [day |-> w.day, members |-> w.members, docs |-> w.docs, shares |-> w.shares,
     grants |-> w.grants, places |-> w.places,
     groupIDs |-> GroupIDsForCharacters(requesterCharacters(u), w.members)]
Now(u) == WithGroupIDs(world, u)

Gathered ==
    [day |-> cache.day, groupIDs |-> cache.groupIDs, members |-> cache.members,
     docs |-> req.docs, shares |-> req.shares]

\* The documents a request asks for, answered by w.
Asks == [kind: {"get"}, of: DocIds] \cup [kind: {"list"}, of: Repos]
            \cup [kind: {"search", "shared"}, of: {"all"}]
Answer(u, ask, w) ==
    CASE ask.kind = "get"    -> {d \in {ask.of} : getAccessible(u, d, w)}
      [] ask.kind = "list"   -> ListByRepository(u, ask.of, w)
      [] ask.kind = "search" -> Search(u, w)
      [] ask.kind = "shared" -> ListSharedWithMe(u, w)

\* The order in which the kinds of request run their queries.
Queries(kind) ==
    CASE kind = "get"    -> <<"documents", "characters", "groupIDs", "groups", "shares">>
      [] kind = "list"   -> <<"characters", "groupIDs", "documents", "groups", "shares">>
      [] kind = "search" -> <<"characters", "groupIDs", "groups", "shares", "documents">>
      [] kind = "shared" -> <<"characters", "groupIDs", "groups", "shares", "documents">>

\* A player's request in flight.
Request ==
    [user: Users \ GMs, ask: Asks, done: 0 .. 5,
     docs: [DocIds -> Doc \cup {NoDoc}] \cup {Unread}, shares: (SUBSET Share) \cup {Unread},
     meanwhile: Nat, moments: SUBSET SUBSET DocIds]

ASSUME IdleAssumption == Idle \notin Request

EmptyCache == [day |-> Unread, groupIDs |-> Unread, members |-> Unread]

\* Every request has a cache of its own.
SharedRequestCache(old) == old
WithRequestCache(old)   == EmptyCache

Init ==
    /\ world \in Starts
    /\ changes = 0
    /\ req = Idle
    /\ cache = EmptyCache

\* A GM's answer rests on the documents alone, which is one query.
Begin(u, ask) ==
    /\ req = Idle
    /\ u \notin GMs
    /\ req' = [user |-> u, ask |-> ask, done |-> 0, docs |-> Unread, shares |-> Unread,
               meanwhile |-> 0, moments |-> {Answer(u, ask, Now(u))}]
    /\ UNCHANGED <<world, changes, cache>>

\* The next query of the request in flight.
Queried(query) ==
    /\ req # Idle
    /\ req.done < 5
    /\ Queries(req.ask.kind)[req.done + 1] = query
    /\ UNCHANGED <<world, changes>>

Cached(old, loaded) == IF old = Unread THEN loaded ELSE old

ReadCharacters ==
    /\ Queried("characters")
    /\ cache' = [cache EXCEPT !.day = Cached(@, world.day)]
    /\ req' = [req EXCEPT !.done = @ + 1]

ReadGroupIDs ==
    /\ Queried("groupIDs")
    /\ cache' = [cache EXCEPT !.groupIDs =
            Cached(@, GroupIDsForCharacters(requesterCharacters(req.user), world.members))]
    /\ req' = [req EXCEPT !.done = @ + 1]

ReadGroups ==
    /\ Queried("groups")
    /\ cache' = [cache EXCEPT !.members = Cached(@, world.members)]
    /\ req' = [req EXCEPT !.done = @ + 1]

ReadShares ==
    /\ Queried("shares")
    /\ req' = [req EXCEPT !.shares = world.shares, !.done = @ + 1]
    /\ UNCHANGED cache

ReadDocuments ==
    /\ Queried("documents")
    /\ req' = [req EXCEPT !.docs = world.docs, !.done = @ + 1]
    /\ UNCHANGED cache

\* The answer is sent; the cache goes with the request's context.
Respond ==
    /\ req # Idle
    /\ req.done = 5
    /\ req' = Idle
    /\ cache' = WithRequestCache(cache)
    /\ UNCHANGED <<world, changes>>

\* A change commits.  A request in flight notes what it would have answered now.
Change(w) ==
    /\ changes < MaxChanges
    /\ req # Idle => req.meanwhile < MaxMeanwhile
    /\ w # world
    /\ world' = w
    /\ changes' = changes + 1
    /\ req' = IF req = Idle THEN Idle
              ELSE [req EXCEPT !.meanwhile = @ + 1,
                               !.moments = @ \cup {Answer(req.user, req.ask, WithGroupIDs(w, req.user))}]
    /\ UNCHANGED cache

SetGameDay(c, n)     == Change([world EXCEPT !.day[c] = n])
Join(g, c)           == Change([world EXCEPT !.members[g] = @ \cup {c}])
Leave(g, c)          == Change([world EXCEPT !.members[g] = @ \ {c}])
ShareWithCharacter(d, c, n) ==
    /\ world.docs[d] # NoDoc
    /\ \A s \in world.shares : s.doc # d \/ s.to # c
    /\ Change([world EXCEPT !.shares = @ \cup {[doc |-> d, to |-> c, day |-> n]}])
RevokeShare(s)       == Change([world EXCEPT !.shares = @ \ {s}])
GrantAccess(l, t)    == Change([world EXCEPT !.grants = @ \cup {[place |-> l, to |-> t]}])
RevokeAccess(a)      == Change([world EXCEPT !.grants = @ \ {a}])
SetPlaceDay(l, n)    == Change([world EXCEPT !.places[l] = n])
CreateDocument(d, row) ==
    /\ world.docs[d] = NoDoc
    /\ Change([world EXCEPT !.docs[d] = row])
UpdateDocument(d, n, text) ==
    /\ world.docs[d] # NoDoc
    /\ Change([world EXCEPT !.docs[d] = [@ EXCEPT !.day = n, !.text = text]])
ShareToGroup(d, r, n) ==
    /\ world.docs[d] # NoDoc
    /\ Owning[world.docs[d].repo] \in Characters /\ Owning[r] \in Groups
    /\ Change([world EXCEPT !.docs[d] = [@ EXCEPT !.repo = r, !.day = n]])
DeleteDocument(d)    == Change([world EXCEPT !.docs[d] = NoDoc])

Next ==
    \/ \E u \in Users, ask \in Asks : Begin(u, ask)
    \/ ReadCharacters
    \/ ReadGroupIDs
    \/ ReadGroups
    \/ ReadShares
    \/ ReadDocuments
    \/ Respond
    \/ \E c \in Characters, n \in Days : SetGameDay(c, n)
    \/ \E g \in Groups, c \in Characters : Join(g, c)
    \/ \E g \in Groups, c \in Characters : Leave(g, c)
    \/ \E d \in DocIds, c \in Characters, n \in Days : ShareWithCharacter(d, c, n)
    \/ \E s \in world.shares : RevokeShare(s)
    \/ \E l \in Locations, t \in Characters \cup Groups : GrantAccess(l, t)
    \/ \E a \in world.grants : RevokeAccess(a)
    \/ \E l \in Locations, n \in Days : SetPlaceDay(l, n)
    \/ \E d \in DocIds, row \in Doc : CreateDocument(d, row)
    \/ \E d \in DocIds, n \in Days, text \in Matches : UpdateDocument(d, n, text)
    \/ \E d \in DocIds, r \in Repos, n \in Days : ShareToGroup(d, r, n)
    \/ \E d \in DocIds : DeleteDocument(d)

Spec == Init /\ [][Next]_vars

-----------------------------------------------------------------------------
(* Properties *)

\* The campaign and what a request has gathered have their shape.
TypeOK ==
    /\ world \in World
    /\ changes \in Nat
    /\ cache \in [day: [Characters -> Days] \cup {Unread},
                 groupIDs: (SUBSET Groups) \cup {Unread},
                 members: [Groups -> SUBSET Characters] \cup {Unread}]
    /\ req \in Request \cup {Idle}

\* The four ways to a document agree: one can be opened exactly when its
\* repository lists it or it is in the shared list, and the search finds exactly
\* those of them that contain the query where the requester may read it.
ReadersAgree ==
    \A u \in Users, d \in DocIds :
        LET w == Now(u) IN
        world.docs[d] # NoDoc =>
            /\ getAccessible(u, d, w) <=>
                    \/ d \in ListByRepository(u, world.docs[d].repo, w)
                    \/ d \in ListSharedWithMe(u, w)
            /\ d \in Search(u, w) <=>
                    /\ getAccessible(u, d, w)
                    /\ \/ "visible" \in world.docs[d].text
                       \/ u \in GMs /\ "gmOnly" \in world.docs[d].text

\* The queries over grants and the walk over one location's grants give one
\* relation: who finds a location in the list, can open it, counts for its
\* description and may put a character there.
PlacesAgree ==
    \A u \in Users \ GMs, l \in Locations :
        LET w == Now(u) IN
        /\ l \in LocationList(u, w) <=> LocationGet(u, l, w)
        /\ LocationGet(u, l, w) <=> charactersWithAccess(requesterCharacters(u), l, w) # {}
        /\ \A c \in requesterCharacters(u) :
                AccessibleToCharacter(c, l, w) <=> characterEligible(c, l, w)

\* Whoever reads a description or a document as a player reads it from a day on
\* that the revealed flag shown to everyone agrees has come.
RevealedWhenShown ==
    \A u \in Users \ GMs :
        LET w == Now(u) IN
        /\ \A l \in Locations : ShowsDescription(u, l, w) => Revealed(l, w)
        /\ \A d \in DocIds :
            world.docs[d] # NoDoc /\ d \in ListByRepository(u, world.docs[d].repo, w) =>
                    revealed(world.docs[d].repo, world.docs[d].day, w)

\* A change of a shared inventory surfaces at once in the feed of a character of
\* its maker (for a GM, of the furthest character that has access), and in no
\* feed of a character whose player cannot open that inventory.
EntriesSurface ==
    \A u \in Users, o \in Groups \cup Locations :
        LET w     == Now(u)
            entry == [scope |-> o, day |-> stamp(u, o, w)]
            those == IF u \in GMs
                     THEN {c \in Characters : IF o \in Groups THEN c \in world.members[o]
                                              ELSE AccessibleToCharacter(c, o, w)}
                     ELSE requesterCharacters(u)
        IN  requireOwnerAccess(u, o, w) =>
                /\ those # {} => \E c \in those : Feed(c, entry, w)
                /\ \A c \in Characters :
                    Feed(c, entry, w) => requireOwnerAccess(Owner[c], o, Now(Owner[c]))

\* The documents a user can open and the descriptions a user is shown.
Sees(u) == {d \in DocIds : getAccessible(u, d, Now(u))}
               \cup {l \in Locations : LocationGet(u, l, Now(u)) /\ ShowsDescription(u, l, Now(u))}

\* Time that moves on, a joined group, a share or a grant only ever reveal.
MoreReachNeverHides ==
    [][(/\ world' # world
        /\ \A c \in Characters : world'.day[c] >= world.day[c]
        /\ \A g \in Groups : world.members[g] \subseteq world'.members[g]
        /\ world.shares \subseteq world'.shares
        /\ world.grants \subseteq world'.grants
        /\ world'.docs = world.docs
        /\ world'.places = world.places) =>
            \A u \in Users : Sees(u) \subseteq Sees(u)']_vars

\* A request during which the campaign changed at most once answers what it
\* would have answered at one moment, before or after, although its queries
\* fell on both sides and its cache kept what it read first.
AnswersOfOneMoment ==
    [][Respond /\ req.meanwhile <= 1 => Answer(req.user, req.ask, Gathered) \in req.moments]_vars

=============================================================================
