------------------------------ MODULE Campaign ------------------------------
(***************************************************************************)
(* The records a campaign is played with: characters and their game days,  *)
(* the session that moves them, groups and their members, one location     *)
(* with its grants, one document with its direct shares.                   *)
(*                                                                         *)
(* None of these rows has a version.  A request loads and checks what it   *)
(* needs, and writes later: a character or a location is saved as a whole  *)
(* row, a grant or a share is created because none was found, a member is  *)
(* added to the list that was loaded.  Requests overlap freely.            *)
(***************************************************************************)
EXTENDS Integers, FiniteSets

CONSTANTS
    Tabs, GMTabs,           \* browser tabs, and those of game masters
    Owners,                 \* Owners[c]: the tabs of the player character c belongs to
    Characters, Groups,
    Names, Texts,           \* names of characters, contents of descriptions
    RowIds,                 \* identifiers of grant and share rows (uuid)
    Idle, NoRow, Keep,      \* Keep: a field the request leaves out
    MaxDay,                 \* bound: game days a GM sets or advances to
    MaxRequests             \* bound: requests served

Days == 0 .. MaxDay

\* A character's row, and the location's row with what its sections say.
Character == [name: Names, day: Nat, here: BOOLEAN]
Location  == [day: Days, open: Texts, secret: Texts]

\* A character or a group a grant can name.
Targets == Characters \cup Groups

\* The last entry about a member: joined or left, and the day it is stamped with.
Entry == [action: {"joined", "left"}, day: Nat]

ASSUME ConstantsAssumption ==
    /\ GMTabs \subseteq Tabs
    /\ Owners \in [Characters -> SUBSET Tabs]
    /\ Characters \cap Groups = {}
    /\ IsFiniteSet(Tabs)
    /\ MaxDay \in Nat /\ MaxRequests \in Nat
    /\ Keep \notin Names \cup Days \cup Texts
    /\ NoRow \notin Entry \cup Targets

VARIABLES
    chars,      \* chars[c]: the row of character c
    players,    \* the participants of the session
    members,    \* members[g]: the members of group g
    history,    \* history[g][c]: the last membership entry of c in g, if any
    place,      \* the location
    grants,     \* grants[i]: whom grant i lets see the location
    shares,     \* shares[i]: the character share i gives the document to
    req,        \* req[t]: the request tab t has in flight
    served,     \* requests taken up so far
    overlapped  \* whether two requests were ever in flight at once

rows == <<chars, players, members, history, place, grants, shares>>
vars == <<rows, req, served, overlapped>>

-----------------------------------------------------------------------------
(* Access and checks *)

\* CharacterService.Get: the owner or a GM, nobody else finds it.
CharacterGet(t, c) == t \in GMTabs \/ t \in Owners[c]

\* LocationAccesses.HasAccess for one character and its groups.
AccessibleToCharacter(c) ==
    \E i \in RowIds : grants[i] = c \/ grants[i] \in {g \in Groups : c \in members[g]}

\* A player opens the location through any of their characters.
LocationGet(t) == t \in GMTabs \/ \E c \in Characters : t \in Owners[c] /\ AccessibleToCharacter(c)

Unchecked(table, target) == TRUE
NoneYet(table, target) == \A i \in RowIds : table[i] # target

\* A field left out keeps what the row says.
Set(old, asked) == IF asked = Keep THEN old ELSE asked

\* The day the session moves c to: from the day it was loaded with.
NewDayTogether(r, c) ==
    r.delta + CHOOSE n \in {r.snap[d] : d \in DOMAIN r.snap} : \A d \in DOMAIN r.snap : n >= r.snap[d]
NewDay(r, c) == r.snap[c] + r.delta

\* No character goes below day zero; none beyond MaxDay, the bound.
NotBeyond(n) == n <= MaxDay
NotNegative(n) == n \in Days

\* Association.Append writes the new row and may write again those of the list
\* it was given; rows that exist stay as they are.
Append(table, loaded, c) == {table \cup {c}, table \cup loaded \cup {c}}

\* The entry a membership change writes, stamped with the day as loaded.
membershipEntryJoined(row, action) == [action |-> "joined", day |-> row.day]
membershipEntry(row, action) == [action |-> action, day |-> row.day]

-----------------------------------------------------------------------------
(* Requests in flight *)

Busy(t) == req[t] # Idle

Takes(t, r) ==
    /\ req[t] = Idle
    /\ served < MaxRequests
    /\ req' = [req EXCEPT ![t] = r]
    /\ served' = served + 1
    /\ overlapped' = (overlapped \/ \E u \in Tabs : Busy(u))
    /\ UNCHANGED rows

Ends(t) == req' = [req EXCEPT ![t] = Idle]

Doing(t, kind) == Busy(t) /\ req[t].kind = kind

\* Every session in flight notes that character c was saved by someone else.
Noted(t, c) ==
    [u \in Tabs |->
        IF u # t /\ Doing(u, "advance")
        THEN [req[u] EXCEPT !.touched = @ \cup {c}] ELSE req[u]]

Init ==
    /\ chars \in [Characters -> [name: Names, day: Days, here: {FALSE}]]
    /\ players \in {{}, Characters}
    /\ members = [g \in Groups |-> {}]
    /\ history = [g \in Groups |-> [c \in Characters |-> NoRow]]
    /\ place \in {[day |-> 0, open |-> text, secret |-> text] : text \in Texts}
    /\ grants = [i \in RowIds |-> NoRow]
    /\ shares = [i \in RowIds |-> NoRow]
    /\ req = [t \in Tabs |-> Idle]
    /\ served = 0
    /\ overlapped = FALSE

-----------------------------------------------------------------------------
(* Characters *)

\* CharacterService.Update up to its save: only a GM sets the day.
DayUnchecked(t, n) == TRUE
DayOk(t, n) == n # Keep => t \in GMTabs

ReadCharacter(t, c, name, n) ==
    /\ CharacterGet(t, c)
    /\ DayOk(t, n)
    /\ Takes(t, [kind |-> "character", of |-> c, read |-> chars[c],
                 row |-> [chars[c] EXCEPT !.name = Set(@, name), !.day = Set(@, n)]])

\* AssignCharacter up to its save: a player's character must see the location.
ReadAssign(t, c, here) ==
    /\ CharacterGet(t, c)
    /\ here /\ t \notin GMTabs => AccessibleToCharacter(c)
    /\ Takes(t, [kind |-> "character", of |-> c, read |-> chars[c],
                 row |-> [chars[c] EXCEPT !.here = here]])

\* Characters.Update: every column is saved.
SaveCharacter(t) ==
    /\ Doing(t, "character")
    /\ chars' = [chars EXCEPT ![req[t].of] = req[t].row]
    /\ req' = [Noted(t, req[t].of) EXCEPT ![t] = Idle]
    /\ UNCHANGED <<players, members, history, place, grants, shares, served, overlapped>>

-----------------------------------------------------------------------------
(* The session *)

ReadAddParticipant(t, c) ==
    /\ t \in GMTabs
    /\ c \notin players
    /\ Takes(t, [kind |-> "add", of |-> c, loaded |-> players])

AddParticipant(t) ==
    /\ Doing(t, "add")
    /\ players' \in Append(players, req[t].loaded, req[t].of)
    /\ Ends(t)
    /\ UNCHANGED <<chars, members, history, place, grants, shares, served, overlapped>>

ReadRemoveParticipant(t, c) ==
    /\ t \in GMTabs
    /\ c \in players
    /\ Takes(t, [kind |-> "remove", of |-> c])

RemoveParticipant(t) ==
    /\ Doing(t, "remove")
    /\ players' = players \ {req[t].of}
    /\ Ends(t)
    /\ UNCHANGED <<chars, members, history, place, grants, shares, served, overlapped>>

\* AdvanceGameDay loads the participants once: all of them are moved, or one.
ReadAdvance(t, delta, C) ==
    /\ t \in GMTabs
    /\ C = players \/ \E c \in players : C = {c}
    /\ Takes(t, [kind |-> "advance", delta |-> delta, snap |-> [c \in C |-> chars[c].day],
                 done |-> {}, touched |-> {}, next |-> NoRow, row |-> NoRow])

\* CharacterService.Update loads the row of the next participant and sets the day.
AdvanceNext(t, c) ==
    LET r == req[t] IN
    /\ Doing(t, "advance")
    /\ r.next = NoRow
    /\ c \in DOMAIN r.snap \ r.done
    /\ NotNegative(NewDay(r, c))
    /\ req' = [req EXCEPT ![t].next = c, ![t].row = [chars[c] EXCEPT !.day = NewDay(r, c)]]
    /\ UNCHANGED <<rows, served, overlapped>>

AdvanceSave(t) ==
    LET r == req[t] IN
    /\ Doing(t, "advance")
    /\ r.next # NoRow
    /\ chars' = [chars EXCEPT ![r.next] = r.row]
    /\ req' = [Noted(t, r.next) EXCEPT ![t] = [r EXCEPT !.done = @ \cup {r.next},
                                                        !.next = NoRow, !.row = NoRow]]
    /\ UNCHANGED <<players, members, history, place, grants, shares, served, overlapped>>

\* The session is loaded again for the answer, or a participant would go below
\* day zero: those already saved stay moved.
AdvanceEnds(t) ==
    LET r == req[t] IN
    /\ Doing(t, "advance")
    /\ r.next = NoRow
    /\ r.done = DOMAIN r.snap \/ \E c \in DOMAIN r.snap \ r.done : NewDay(r, c) < 0
    /\ Ends(t)
    /\ UNCHANGED <<rows, served, overlapped>>

-----------------------------------------------------------------------------
(* Groups *)

ReadJoin(t, g, c) ==
    /\ CharacterGet(t, c)
    /\ c \notin members[g]
    /\ Takes(t, [kind |-> "join", in |-> g, of |-> c, loaded |-> members[g],
                 entry |-> membershipEntry(chars[c], "joined")])

\* Groups.AddMember: the member and the entry in one transaction.
Join(t) ==
    LET r == req[t] IN
    /\ Doing(t, "join")
    /\ \E after \in Append(members[r.in], r.loaded, r.of) :
            members' = [members EXCEPT ![r.in] = after]
    /\ history' = [history EXCEPT ![r.in][r.of] = r.entry]
    /\ Ends(t)
    /\ UNCHANGED <<chars, players, place, grants, shares, served, overlapped>>

ReadLeave(t, g, c) ==
    /\ CharacterGet(t, c)
    /\ c \in members[g]
    /\ Takes(t, [kind |-> "leave", in |-> g, of |-> c,
                 entry |-> membershipEntry(chars[c], "left")])

\* Groups.RemoveMember.
Leave(t) ==
    LET r == req[t] IN
    /\ Doing(t, "leave")
    /\ members' = [members EXCEPT ![r.in] = @ \ {r.of}]
    /\ history' = [history EXCEPT ![r.in][r.of] = r.entry]
    /\ Ends(t)
    /\ UNCHANGED <<chars, players, place, grants, shares, served, overlapped>>

-----------------------------------------------------------------------------
(* The location *)

\* mergeLocationSections: a GM's list replaces the sections; a player's replaces
\* those players see.
mergeSubmittedOnly(t, read, open, secret) == [read EXCEPT !.open = Set(@, open), !.secret = open]
mergeLocationSections(t, read, open, secret) ==
    [read EXCEPT !.open = Set(@, open),
                 !.secret = IF t \in GMTabs THEN Set(@, secret) ELSE @]

ReadLocation(t, n, open, secret) ==
    /\ LocationGet(t)
    /\ DayOk(t, n)
    /\ t \notin GMTabs => secret = Keep
    /\ Takes(t, [kind |-> "location", read |-> place,
                 row |-> [mergeLocationSections(t, place, open, secret) EXCEPT !.day = Set(@, n)]])

\* Locations.Update: the row and the final list of sections in one transaction.
SaveLocation(t) ==
    /\ Doing(t, "location")
    /\ place' = req[t].row
    /\ Ends(t)
    /\ UNCHANGED <<chars, players, members, history, grants, shares, served, overlapped>>

\* GrantAccess: a grant is created because none was found.
GrantExistsNot(target) == NoneYet(grants, target)
ReadGrant(t, target) ==
    /\ t \in GMTabs
    /\ GrantExistsNot(target)
    /\ Takes(t, [kind |-> "grant", of |-> target])

Grant(t) ==
    /\ Doing(t, "grant")
    /\ \E i \in RowIds :
            /\ grants[i] = NoRow
            /\ grants' = [grants EXCEPT ![i] = req[t].of]
    /\ Ends(t)
    /\ UNCHANGED <<chars, players, members, history, place, shares, served, overlapped>>

\* RevokeAccess deletes the one row it names.
RevokeAccess(t, i) ==
    /\ t \in GMTabs /\ req[t] = Idle
    /\ served < MaxRequests
    /\ grants[i] # NoRow
    /\ grants' = [grants EXCEPT ![i] = NoRow]
    /\ served' = served + 1
    /\ UNCHANGED <<chars, players, members, history, place, shares, req, overlapped>>

-----------------------------------------------------------------------------
(* Direct shares of the document *)

ShareExistsNot(c) == NoneYet(shares, c)
ReadShare(t, c) ==
    /\ t \in GMTabs
    /\ ShareExistsNot(c)
    /\ Takes(t, [kind |-> "share", of |-> c])

Share(t) ==
    /\ Doing(t, "share")
    /\ \E i \in RowIds :
            /\ shares[i] = NoRow
            /\ shares' = [shares EXCEPT ![i] = req[t].of]
    /\ Ends(t)
    /\ UNCHANGED <<chars, players, members, history, place, grants, served, overlapped>>

RevokeShare(t, i) ==
    /\ t \in GMTabs /\ req[t] = Idle
    /\ served < MaxRequests
    /\ shares[i] # NoRow
    /\ shares' = [shares EXCEPT ![i] = NoRow]
    /\ served' = served + 1
    /\ UNCHANGED <<chars, players, members, history, place, grants, req, overlapped>>

-----------------------------------------------------------------------------

\* An error answer, a failed transaction or a process that stops.
Abandon(t) ==
    /\ Busy(t)
    /\ Ends(t)
    /\ UNCHANGED <<rows, served, overlapped>>

Next ==
    \E t \in Tabs :
        \/ \E c \in Characters :
            \/ \E name \in Names \cup {Keep}, n \in Days \cup {Keep} : ReadCharacter(t, c, name, n)
            \/ \E here \in BOOLEAN : ReadAssign(t, c, here)
            \/ ReadAddParticipant(t, c)
            \/ ReadRemoveParticipant(t, c)
            \/ AdvanceNext(t, c)
            \/ \E g \in Groups : ReadJoin(t, g, c)
            \/ \E g \in Groups : ReadLeave(t, g, c)
            \/ ReadShare(t, c)
        \/ SaveCharacter(t)
        \/ AddParticipant(t)
        \/ RemoveParticipant(t)
        \/ \E delta \in {-1, 1}, C \in SUBSET Characters : ReadAdvance(t, delta, C)
        \/ AdvanceSave(t)
        \/ AdvanceEnds(t)
        \/ Join(t)
        \/ Leave(t)
        \/ \E n \in Days \cup {Keep}, open \in Texts \cup {Keep}, secret \in Texts \cup {Keep} :
                ReadLocation(t, n, open, secret)
        \/ SaveLocation(t)
        \/ \E target \in Targets : ReadGrant(t, target)
        \/ Grant(t)
        \/ Share(t)
        \/ \E i \in RowIds : RevokeAccess(t, i)
        \/ \E i \in RowIds : RevokeShare(t, i)
        \/ Abandon(t)

Spec == Init /\ [][Next]_vars

-----------------------------------------------------------------------------
(* Properties *)

\* What a request in flight holds.
IsRequest(r) ==
    \/ r.kind = "character" /\ r.of \in Characters /\ r.read \in Character /\ r.row \in Character
    \/ r.kind = "add" /\ r.of \in Characters /\ r.loaded \subseteq Characters
    \/ r.kind = "remove" /\ r.of \in Characters
    \/ /\ r.kind = "advance"
       /\ r.delta \in Int /\ DOMAIN r.snap \subseteq Characters
       /\ \A c \in DOMAIN r.snap : r.snap[c] \in Nat
       /\ r.done \subseteq DOMAIN r.snap /\ r.touched \subseteq Characters
       /\ r.next # NoRow => r.next \in DOMAIN r.snap \ r.done /\ r.row \in Character
    \/ r.kind \in {"join", "leave"} /\ r.in \in Groups /\ r.of \in Characters /\ r.entry \in Entry
        /\ (r.kind = "join" => r.loaded \subseteq Characters)
    \/ r.kind = "location" /\ r.read \in Location /\ r.row \in Location
    \/ r.kind = "grant" /\ r.of \in Targets
    \/ r.kind = "share" /\ r.of \in Characters

\* Rows and requests have their shape; in particular no game day is negative,
\* whatever rewinds cross whatever saves.
TypeOK ==
    /\ chars \in [Characters -> Character]
    /\ players \subseteq Characters
    /\ members \in [Groups -> SUBSET Characters]
    /\ history \in [Groups -> [Characters -> Entry \cup {NoRow}]]
    /\ place \in Location
    /\ grants \in [RowIds -> Targets \cup {NoRow}]
    /\ shares \in [RowIds -> Characters \cup {NoRow}]
    /\ DOMAIN req = Tabs /\ \A t \in Tabs : Busy(t) => IsRequest(req[t])
    /\ served \in Nat /\ overlapped \in BOOLEAN

\* However far a session has got, each character it names that nobody else
\* saved meanwhile has moved by exactly the delta or not at all, and has moved
\* exactly if the session has saved it.
AdvanceExact ==
    \A t \in Tabs : Doing(t, "advance") =>
        \A c \in DOMAIN req[t].snap \ req[t].touched :
            chars[c].day = req[t].snap[c] + (IF c \in req[t].done THEN req[t].delta ELSE 0)

\* Nobody drops out of a group unrecorded: who is not a member never joined or
\* left last, in any interleaving.  Until requests overlap the entries tell
\* exactly who is a member.
MembershipHistory ==
    \A g \in Groups, c \in Characters :
        /\ c \notin members[g] => history[g][c] = NoRow \/ history[g][c].action = "left"
        /\ ~overlapped =>
            (c \in members[g] <=> history[g][c] # NoRow /\ history[g][c].action = "joined")

\* Until requests overlap there is one row per grant and per share, so that
\* revoking it ends the access it gave.
OneRowEach ==
    ~overlapped =>
        \A i, j \in RowIds : i # j =>
            /\ grants[i] # NoRow => grants[i] # grants[j]
            /\ shares[i] # NoRow => shares[i] # shares[j]

\* A player's save of a row that is still as it was read moves no game day,
\* sets no reveal day and leaves the GM-only sections of the location alone.
PlayersKeepToTheirOwn ==
    [][\A t \in Tabs \ GMTabs :
        /\ SaveCharacter(t) /\ chars[req[t].of] = req[t].read =>
                \A c \in Characters : chars'[c].day = chars[c].day
        /\ SaveLocation(t) /\ place = req[t].read =>
                place'.secret = place.secret /\ place'.day = place.day]_vars

=============================================================================
